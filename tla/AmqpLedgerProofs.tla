--------------------------- MODULE AmqpLedgerProofs ---------------------------
(***************************************************************************)
(* Proofs about the messages of AmqpService, for every set of messages:    *)
(* each is in exactly one place (Ledger), and moves between places only as *)
(* module Outbox allows (ImplementsOutbox).  What a step preserves is that *)
(* no message is twice in one place or in two places (Accounted), which    *)
(* needs nothing of the phases but the types.                              *)
(***************************************************************************)
EXTENDS AmqpServiceProofs

-----------------------------------------------------------------------------
(* Sequences in which no message is twice; frames that are not messages    *)
(* may be.                                                                 *)
Once(s) == \A i, j \in DOMAIN s : s[i] \in Message /\ s[i] = s[j] => i = j

Frames == Message \union {Declare}

(* Two such sequences with no message in common, one after the other.      *)
LEMMA OnceConcat ==
  ASSUME NEW s \in Seq(Frames), NEW t \in Seq(Frames), Once(s), Once(t),
         \A m \in Message : ~(m \in Range(s) /\ m \in Range(t))
  PROVE  Once(s \o t)
<1>1. /\ Len(s \o t) = Len(s) + Len(t) /\ s \o t \in Seq(Frames)
      /\ \A i \in 1 .. (Len(s) + Len(t)) :
           (s \o t)[i] = IF i <= Len(s) THEN s[i] ELSE t[i - Len(s)]
  BY ConcatProperties
<1> DEFINE u == s \o t
<1> HIDE DEF u
<1>2. /\ DOMAIN s = 1 .. Len(s) /\ DOMAIN t = 1 .. Len(t)
      /\ DOMAIN u = 1 .. (Len(s) + Len(t))
      /\ Len(s) \in Nat /\ Len(t) \in Nat
  BY <1>1, LenProperties DEF u
<1> SUFFICES ASSUME NEW i \in DOMAIN u, NEW j \in DOMAIN u,
                    u[i] \in Message, u[i] = u[j]
             PROVE  i = j
  BY DEF Once, u
<1>3. CASE i <= Len(s) /\ j <= Len(s)
  BY <1>1, <1>2, <1>3 DEF Once, u
<1>4. CASE i > Len(s) /\ j > Len(s)
  <2>1. i - Len(s) \in DOMAIN t /\ j - Len(s) \in DOMAIN t
    BY <1>2, <1>4
  <2>2. u[i] = t[i - Len(s)] /\ u[j] = t[j - Len(s)]
    BY <1>1, <1>2, <1>4 DEF u
  <2>3. i - Len(s) = j - Len(s)
    BY <2>1, <2>2 DEF Once
  <2> QED BY <1>2, <2>3
<1>5. ASSUME NEW k \in DOMAIN u, NEW l \in DOMAIN u, k <= Len(s), l > Len(s),
             u[k] \in Message
      PROVE  u[k] # u[l]
  <2>1. k \in DOMAIN s /\ l - Len(s) \in DOMAIN t
    BY <1>2, <1>5
  <2>2. u[k] = s[k] /\ u[l] = t[l - Len(s)]
    BY <1>1, <1>2, <1>5 DEF u
  <2>3. s[k] \in Range(s) /\ t[l - Len(s)] \in Range(t)
    BY <2>1 DEF Range
  <2> QED BY <1>5, <2>2, <2>3
<1> QED BY <1>2, <1>3, <1>4, <1>5

(* A sequence of one frame.                                                *)
LEMMA OnceSingle ==
  ASSUME NEW x \in Frames
  PROVE  <<x>> \in Seq(Frames) /\ Once(<<x>>) /\ Range(<<x>>) = {x}
<1>1. DOMAIN <<x>> = {1} /\ <<x>>[1] = x
  OBVIOUS
<1> QED BY <1>1 DEF Once, Range

(* A frame at the end that is no message or a new one.                     *)
LEMMA OnceAppend ==
  ASSUME NEW s \in Seq(Frames), Once(s), NEW x \in Frames, x \notin Range(s) \/ x \notin Message
  PROVE  /\ Append(s, x) \in Seq(Frames) /\ Once(Append(s, x))
         /\ Range(Append(s, x)) = Range(s) \union {x}
<1>1. Append(s, x) = s \o <<x>>
  BY AppendIsConcat
<1>2. Once(s \o <<x>>)
  BY OnceSingle, OnceConcat
<1> QED BY <1>1, <1>2, RangeOfAppend

(* The rest of a sequence: a message at its head is not in it.             *)
LEMMA OnceTail ==
  ASSUME NEW s \in Seq(Frames), Once(s), s # <<>>
  PROVE  /\ Head(s) \in Frames /\ Tail(s) \in Seq(Frames) /\ Once(Tail(s))
         /\ Range(s) = Range(Tail(s)) \union {Head(s)}
         /\ Head(s) \in Message => Head(s) \notin Range(Tail(s))
<1>1. /\ Head(s) \in Frames /\ Tail(s) \in Seq(Frames)
      /\ Range(s) = Range(Tail(s)) \union {Head(s)}
  BY RangeOfTail
<1>2. /\ Len(s) \in Nat \ {0} /\ Len(Tail(s)) = Len(s) - 1 /\ Head(s) = s[1]
      /\ \A i \in 1 .. (Len(s) - 1) : Tail(s)[i] = s[i + 1]
      /\ DOMAIN s = 1 .. Len(s) /\ DOMAIN Tail(s) = 1 .. (Len(s) - 1)
  BY <1>1, HeadTailProperties, LenProperties, EmptySeq
<1>3. \A i \in DOMAIN Tail(s) : i + 1 \in DOMAIN s /\ i + 1 # 1 /\ Tail(s)[i] = s[i + 1]
  BY <1>2
<1>4. Once(Tail(s))
  BY <1>2, <1>3 DEF Once
<1>5. Head(s) \in Message => Head(s) \notin Range(Tail(s))
  BY <1>2, <1>3 DEF Once, Range
<1> QED BY <1>1, <1>4, <1>5

(* The empty sequence.                                                     *)
LEMMA OnceEmpty == Once(<<>>) /\ Range(<<>>) = {}
BY DEF Once, Range

-----------------------------------------------------------------------------
(* One place for each message.                                             *)
Aside(m)  == m \in Range(pendingRabbitRequests)
OnWire(m) == m \in Range(wire)
Queued(m) == m \in queue
Gone(m)   == \E r \in Reason : <<m, r>> \in lost

OnePlace(m) ==
  /\ Aside(m)  => ~OnWire(m) /\ ~Queued(m) /\ ~Gone(m)
  /\ OnWire(m) => ~Queued(m) /\ ~Gone(m)
  /\ Queued(m) => ~Gone(m)
  /\ \A r, q \in Reason : <<m, r>> \in lost /\ <<m, q>> \in lost => r = q
  /\ m \in published <=> Aside(m) \/ OnWire(m) \/ Queued(m) \/ Gone(m)

Accounted ==
  /\ Once(pendingRabbitRequests) /\ Once(wire)
  /\ \A m \in Message : OnePlace(m)

LInv == TypeOK /\ Accounted

(* How a message may move: never back, and out of nothing only if it was   *)
(* not published yet.                                                      *)
Forward(m) ==
  /\ Aside(m)'  => Aside(m) \/ m \notin published
  /\ OnWire(m)' => OnWire(m) \/ Aside(m) \/ m \notin published
  /\ Queued(m)' => Queued(m) \/ OnWire(m)
  /\ Queued(m)  => Queued(m)'
  /\ Gone(m)    => Gone(m)'
  /\ m \in published => m \in published'

Goal == Accounted' /\ \A m \in Message : Forward(m)

(* A step that moves no message.                                           *)
LEMMA NothingMoves ==
  ASSUME LInv, UNCHANGED <<pendingRabbitRequests, queue, published, lost>>,
         Once(wire'), \A m \in Message : OnWire(m)' <=> OnWire(m)
  PROVE  Goal
<1>1. \A m \in Message : OnePlace(m)' /\ Forward(m)
  BY DEF LInv, Accounted, OnePlace, Forward, Aside, OnWire, Queued, Gone
<1> QED BY <1>1 DEF Goal, LInv, Accounted

(* Sending messages that have no place or are put aside.                   *)
LEMMA SendMoves ==
  ASSUME LInv, NEW messages \in Seq(Message), Send(messages), Once(messages),
         pendingRabbitRequests' \in {<<>>, pendingRabbitRequests},
         queue' = queue,
         published' = published \union Range(messages),
         \A m \in Range(messages) : \/ m \notin published
                                    \/ Aside(m) /\ pendingRabbitRequests' = <<>>,
         pendingRabbitRequests' = <<>> => \A m \in Message : Aside(m) => m \in Range(messages)
  PROVE  Goal
<1>0. \A m \in Message : OnePlace(m)
  BY DEF LInv, Accounted
<1>1. /\ messages \in Seq(Frames) /\ wire \in Seq(Frames)
      /\ Range(messages) \subseteq Message
  BY SeqMonotonic, RangeOfSeq DEF LInv, TypeOK, Frames
<1>2. \A m \in Range(messages) : ~OnWire(m) /\ ~Queued(m) /\ ~Gone(m)
  BY <1>0, <1>1 DEF OnePlace
<1>3. Once(pendingRabbitRequests')
  BY OnceEmpty DEF LInv, Accounted
<1>4. \A m \in Message : Aside(m)' <=> Aside(m) /\ m \notin Range(messages)
  BY <1>0, <1>1, OnceEmpty DEF OnePlace, Aside
<1>5. CASE amqpChannel = "open"
  <2>1. wire' = wire \o messages /\ lost' = lost
    BY <1>5 DEF Send
  <2>2. Once(wire') /\ Range(wire') = Range(wire) \union Range(messages)
    BY <1>1, <1>2, <2>1, OnceConcat, RangeConcatenation DEF LInv, Accounted, OnWire
  <2>3. ASSUME NEW m \in Message
        PROVE  OnePlace(m)' /\ Forward(m)
    <3>1. /\ OnWire(m)' <=> OnWire(m) \/ m \in Range(messages)
          /\ Queued(m)' <=> Queued(m)
          /\ Gone(m)' <=> Gone(m)
          /\ \A r, q \in Reason : <<m, r>> \in lost' /\ <<m, q>> \in lost' => r = q
          /\ m \in published' <=> m \in published \/ m \in Range(messages)
      BY <1>0, <2>1, <2>2 DEF OnePlace, OnWire, Queued, Gone
    <3> QED BY <1>0, <1>2, <1>4, <3>1 DEF OnePlace, Forward
  <2> QED BY <1>3, <2>2, <2>3 DEF Goal, Accounted
<1>6. CASE amqpChannel # "open"
  <2>1. wire' = wire /\ lost' = lost \union Because(Range(messages), "refused")
    BY <1>6 DEF Send
  <2>2. \A m, r : <<m, r>> \in lost' <=>
          <<m, r>> \in lost \/ (m \in Range(messages) /\ r = "refused")
    BY <2>1 DEF Because
  <2>3. "refused" \in Reason
    BY DEF Reason
  <2>4. ASSUME NEW m \in Message
        PROVE  OnePlace(m)' /\ Forward(m)
    <3>1. /\ OnWire(m)' <=> OnWire(m)
          /\ Queued(m)' <=> Queued(m)
          /\ Gone(m)' <=> Gone(m) \/ m \in Range(messages)
          /\ m \in published' <=> m \in published \/ m \in Range(messages)
      BY <2>1, <2>2, <2>3 DEF OnWire, Queued, Gone
    <3>2. \A r, q \in Reason : <<m, r>> \in lost' /\ <<m, q>> \in lost' => r = q
      <4>1. CASE m \in Range(messages)
        <5>1. \A r \in Reason : <<m, r>> \notin lost
          BY <1>2, <4>1 DEF Gone
        <5> QED BY <2>2, <5>1
      <4>2. CASE m \notin Range(messages)
        <5>1. \A r, q \in Reason : <<m, r>> \in lost /\ <<m, q>> \in lost => r = q
          BY <1>0 DEF OnePlace
        <5> QED BY <2>2, <4>2, <5>1
      <4> QED BY <4>1, <4>2
    <3> QED BY <1>0, <1>2, <1>4, <3>1, <3>2 DEF OnePlace, Forward
  <2> QED BY <1>3, <2>1, <2>4 DEF Goal, LInv, Accounted
<1> QED BY <1>5, <1>6

(* Losing the wire, and perhaps the array too.                             *)
LEMMA LossMoves ==
  ASSUME LInv, UNCHANGED <<queue, published>>, wire' = <<>>,
         \/ /\ UNCHANGED pendingRabbitRequests
            /\ lost' = lost \union Because(Range(wire) \ {Declare}, "severed")
         \/ /\ pendingRabbitRequests' = <<>>
            /\ lost' = lost \union Because(Range(wire) \ {Declare}, "severed")
                            \union Because(Range(pendingRabbitRequests), "forgotten")
  PROVE  Goal
<1>0. \A m \in Message : OnePlace(m)
  BY DEF LInv, Accounted
<1>1. Once(pendingRabbitRequests') /\ Once(wire') /\ Range(wire') = {}
  BY OnceEmpty DEF LInv, Accounted
<1>2. "severed" \in Reason /\ "forgotten" \in Reason /\ Declare \notin Message
  BY DeclareAssumption DEF Reason
<1>3. CASE /\ UNCHANGED pendingRabbitRequests
           /\ lost' = lost \union Because(Range(wire) \ {Declare}, "severed")
  <2>1. \A m, r : <<m, r>> \in lost' <=>
          <<m, r>> \in lost \/ (m \in Range(wire) /\ m # Declare /\ r = "severed")
    BY <1>3 DEF Because
  <2>2. ASSUME NEW m \in Message
        PROVE  OnePlace(m)' /\ Forward(m)
    <3>1. /\ Aside(m)' <=> Aside(m)
          /\ ~OnWire(m)'
          /\ Queued(m)' <=> Queued(m)
          /\ Gone(m)' <=> Gone(m) \/ OnWire(m)
      BY <1>1, <1>2, <1>3, <2>1 DEF Aside, OnWire, Queued, Gone
    <3>2. \A r, q \in Reason : <<m, r>> \in lost' /\ <<m, q>> \in lost' => r = q
      BY <1>0, <2>1 DEF OnePlace, OnWire, Gone
    <3> QED BY <1>0, <3>1, <3>2 DEF OnePlace, Forward
  <2> QED BY <1>1, <2>2 DEF Goal, Accounted
<1>4. CASE /\ pendingRabbitRequests' = <<>>
           /\ lost' = lost \union Because(Range(wire) \ {Declare}, "severed")
                           \union Because(Range(pendingRabbitRequests), "forgotten")
  <2>1. \A m, r : <<m, r>> \in lost' <=>
          \/ <<m, r>> \in lost
          \/ m \in Range(wire) /\ m # Declare /\ r = "severed"
          \/ m \in Range(pendingRabbitRequests) /\ r = "forgotten"
    BY <1>4 DEF Because
  <2>2. Range(pendingRabbitRequests') = {}
    BY <1>4, OnceEmpty
  <2>3. ASSUME NEW m \in Message
        PROVE  OnePlace(m)' /\ Forward(m)
    <3>1. /\ ~Aside(m)' /\ ~OnWire(m)'
          /\ Queued(m)' <=> Queued(m)
          /\ Gone(m)' <=> Gone(m) \/ OnWire(m) \/ Aside(m)
      BY <1>1, <1>2, <2>1, <2>2 DEF Aside, OnWire, Queued, Gone
    <3>2. \A r, q \in Reason : <<m, r>> \in lost' /\ <<m, q>> \in lost' => r = q
      BY <1>0, <2>1 DEF OnePlace, Aside, OnWire, Gone
    <3> QED BY <1>0, <3>1, <3>2 DEF OnePlace, Forward
  <2> QED BY <1>1, <2>3 DEF Goal, Accounted
<1> QED BY <1>3, <1>4

-----------------------------------------------------------------------------
(* The steps.                                                              *)

(* Re-driving sends what is put aside and empties the array, if it does    *)
(* anything.                                                               *)
LEMMA RedriveMoves ==
  ASSUME LInv, reDrivePendingRabbitRequests, UNCHANGED <<queue, published>>
  PROVE  Goal
<1>1. CASE Usable
  <2>1. /\ Send(pendingRabbitRequests) /\ pendingRabbitRequests' = <<>>
        /\ pendingRabbitRequests \in Seq(Message) /\ Once(pendingRabbitRequests)
    BY <1>1 DEF reDrivePendingRabbitRequests, LInv, TypeOK, Accounted
  <2>2. Range(pendingRabbitRequests) \subseteq Message
    BY <2>1, RangeOfSeq
  <2>3. Range(pendingRabbitRequests) \subseteq published
    BY <2>2 DEF LInv, Accounted, OnePlace, Aside
  <2>4. published' = published \union Range(pendingRabbitRequests)
    BY <2>3
  <2>5. \A m \in Range(pendingRabbitRequests) : Aside(m)
    BY DEF Aside
  <2>6. \A m \in Message : Aside(m) => m \in Range(pendingRabbitRequests)
    BY DEF Aside
  <2> QED BY <2>1, <2>4, <2>5, <2>6, SendMoves
<1>2. CASE ~Usable
  BY <1>2, NothingMoves DEF reDrivePendingRabbitRequests, OnWire, LInv, Accounted
<1> QED BY <1>1, <1>2

(* A declaration on the wire moves no message.                             *)
LEMMA DeclareMoves ==
  ASSUME LInv, wire' = Append(wire, Declare),
         UNCHANGED <<pendingRabbitRequests, queue, published, lost>>
  PROVE  Goal
<1>1. wire \in Seq(Frames) /\ Once(wire) /\ Declare \in Frames /\ Declare \notin Message
  BY DeclareAssumption DEF LInv, TypeOK, Accounted, Frames
<1>2. Once(wire') /\ Range(wire') = Range(wire) \union {Declare}
  BY <1>1, OnceAppend
<1>3. \A m \in Message : OnWire(m)' <=> OnWire(m)
  BY <1>1, <1>2 DEF OnWire
<1> QED BY <1>2, <1>3, NothingMoves

(* publish gives a message its first place.                                *)
LEMMA PublishMoves ==
  ASSUME LInv, NEW m \in Message, publish(m)
  PROVE  Goal
<1>1. CASE Usable
  <2>1. /\ Send(<<m>>) /\ UNCHANGED <<pendingRabbitRequests, queue>>
        /\ published' = published \union {m} /\ m \notin published
    BY <1>1 DEF publish, broker
  <2>2. Once(<<m>>) /\ Range(<<m>>) = {m} /\ <<m>> \in Seq(Message)
    BY OnceSingle DEF Frames
  <2>3. pendingRabbitRequests' = <<>> => \A n \in Message : ~Aside(n)
    BY <2>1, OnceEmpty DEF Aside
  <2> QED BY <2>1, <2>2, <2>3, SendMoves
<1>2. CASE ~Usable
  <2>1. /\ pendingRabbitRequests' = Append(pendingRabbitRequests, m)
        /\ UNCHANGED <<wire, lost, queue>>
        /\ published' = published \union {m} /\ m \notin published
    BY <1>2 DEF publish, broker
  <2>2. /\ pendingRabbitRequests \in Seq(Frames) /\ m \in Frames
        /\ Once(pendingRabbitRequests) /\ OnePlace(m)
    BY SeqMonotonic DEF LInv, TypeOK, Accounted, Frames
  <2>3. /\ Once(pendingRabbitRequests')
        /\ Range(pendingRabbitRequests') = Range(pendingRabbitRequests) \union {m}
    BY <2>1, <2>2, OnceAppend DEF OnePlace, Aside
  <2>4. ASSUME NEW n \in Message
        PROVE  OnePlace(n)' /\ Forward(n)
    <3>1. /\ Aside(n)' <=> Aside(n) \/ n = m
          /\ OnWire(n)' <=> OnWire(n)
          /\ Queued(n)' <=> Queued(n)
          /\ Gone(n)' <=> Gone(n)
          /\ lost' = lost
          /\ n \in published' <=> n \in published \/ n = m
      BY <2>1, <2>3 DEF Aside, OnWire, Queued, Gone
    <3>2. OnePlace(n) /\ OnePlace(m)
      BY DEF LInv, Accounted
    <3>3. CASE n = m
      BY <2>1, <3>1, <3>2, <3>3 DEF OnePlace, Forward
    <3>4. CASE n # m
      BY <3>1, <3>2, <3>4 DEF OnePlace, Forward
    <3> QED BY <3>3, <3>4
  <2> QED BY <2>1, <2>3, <2>4 DEF Goal, LInv, Accounted
<1> QED BY <1>1, <1>2

(* A frame the broker reads leaves the wire for its queue, or is dropped.  *)
LEMMA ReadMoves ==
  ASSUME LInv, BrokerRead
  PROVE  Goal
<1>1. /\ wire \in Seq(Frames) /\ Once(wire) /\ wire # <<>> /\ wire' = Tail(wire)
      /\ UNCHANGED <<pendingRabbitRequests, published>>
  BY DEF LInv, TypeOK, Accounted, Frames, BrokerRead
<1> DEFINE f == Head(wire)
<1>2. /\ f \in Frames /\ Once(wire') /\ Range(wire) = Range(wire') \union {f}
      /\ f \in Message => f \notin Range(wire')
  BY <1>1, OnceTail
<1>3. CASE f = Declare
  <2>1. UNCHANGED <<queue, lost>>
    BY <1>3 DEF BrokerRead
  <2>2. \A m \in Message : OnWire(m)' <=> OnWire(m)
    BY <1>2, <1>3, DeclareAssumption DEF OnWire
  <2> QED BY <1>1, <1>2, <2>1, <2>2, NothingMoves
<1>4. CASE f # Declare
  <2>1. \/ queue' = queue \union {f} /\ UNCHANGED lost
        \/ lost' = lost \union {<<f, "unroutable">>} /\ UNCHANGED queue
    BY <1>4 DEF BrokerRead, Because
  <2>2. f \in Message /\ "unroutable" \in Reason
    BY <1>2, <1>4 DEF Frames, Reason
  <2>3. ASSUME NEW m \in Message
        PROVE  OnePlace(m)' /\ Forward(m)
    <3>0. OnePlace(m) /\ UNCHANGED <<pendingRabbitRequests, published>>
      BY <1>1 DEF LInv, Accounted
    <3>1. CASE m # f
      <4>1. /\ Aside(m)' <=> Aside(m)
            /\ OnWire(m)' <=> OnWire(m)
            /\ Queued(m)' <=> Queued(m)
            /\ \A r : <<m, r>> \in lost' <=> <<m, r>> \in lost
        BY <1>1, <1>2, <2>1, <3>1 DEF Aside, OnWire, Queued
      <4>2. Gone(m)' <=> Gone(m)
        BY <4>1 DEF Gone
      <4> QED BY <3>0, <4>1, <4>2 DEF OnePlace, Forward
    <3>2. CASE m = f
      <4>1. OnWire(m) /\ ~OnWire(m)' /\ (Aside(m)' <=> Aside(m))
        BY <1>1, <1>2, <2>2, <3>2 DEF OnWire, Aside
      <4>2. ~Aside(m) /\ ~Queued(m) /\ ~Gone(m) /\ m \in published
        BY <3>0, <4>1 DEF OnePlace
      <4>3. \A r \in Reason : <<m, r>> \notin lost
        BY <4>2 DEF Gone
      <4>4. CASE queue' = queue \union {f} /\ UNCHANGED lost
        <5>1. Queued(m)' /\ ~Gone(m)' /\ lost' = lost
          BY <3>2, <4>3, <4>4 DEF Queued, Gone
        <5> QED BY <3>0, <4>1, <4>2, <5>1 DEF OnePlace, Forward
      <4>5. CASE lost' = lost \union {<<f, "unroutable">>} /\ UNCHANGED queue
        <5>1. ~Queued(m)' /\ Gone(m)'
          BY <2>2, <3>2, <4>2, <4>5 DEF Queued, Gone
        <5>2. \A r \in Reason : <<m, r>> \in lost' => r = "unroutable"
          BY <4>3, <4>5
        <5> QED BY <3>0, <4>1, <4>2, <5>1, <5>2 DEF OnePlace, Forward
      <4> QED BY <2>1, <4>4, <4>5
    <3> QED BY <3>1, <3>2
  <2> QED BY <1>1, <1>2, <2>3 DEF Goal, LInv, Accounted
<1> QED BY <1>3, <1>4

(* Every step keeps each message in one place and moves it forward.        *)
LEMMA AccountedStep ==
  ASSUME LInv, [Next]_vars
  PROVE  Goal
<1> USE DEF process, fields, setup, broker
<1>w. UNCHANGED wire => Once(wire') /\ \A m \in Message : OnWire(m)' <=> OnWire(m)
  BY DEF LInv, Accounted, OnWire
<1>1. CASE Crash \/ SetupRejected
  BY <1>1, LossMoves DEF Crash, SetupRejected, Die
<1>2. CASE Start \/ NestReady \/ ConnectOk \/ ConnectFail \/ ChannelOk
           \/ ChannelRejected
  BY <1>2, <1>w, NothingMoves DEF Start, NestReady, ConnectOk, ConnectFail,
     ChannelOk, ChannelRejected
<1>3. CASE WakeUp
  <2>1. CASE NextStage = "done"
    BY <1>3, <2>1, RedriveMoves DEF WakeUp
  <2>2. CASE NextStage = "queue"
    BY <1>3, <2>2, DeclareMoves DEF WakeUp
  <2>3. CASE NextStage # "done" /\ NextStage # "queue"
    BY <1>3, <2>3, <1>w, NothingMoves DEF WakeUp
  <2> QED BY <2>1, <2>2, <2>3
<1>4. CASE ExchangeOk
  BY <1>4, DeclareMoves DEF ExchangeOk
<1>5. CASE QueuesOk
  BY <1>5, RedriveMoves DEF QueuesOk
<1>6. CASE ConnectionError \/ ConnectionClosed \/ ChannelError
  BY <1>6, LossMoves DEF ConnectionError, ConnectionClosed, ChannelError, Sever
<1>7. CASE \E m \in Message : publish(m)
  BY <1>7, PublishMoves
<1>8. CASE BrokerRead
  BY <1>8, ReadMoves
<1>9. CASE UNCHANGED vars
  BY <1>9, <1>w, NothingMoves DEF vars
<1> QED BY <1>1, <1>2, <1>3, <1>4, <1>5, <1>6, <1>7, <1>8, <1>9 DEF Next

(* At first no message is anywhere.                                        *)
LEMMA AccountedInit == Init => LInv
<1> SUFFICES ASSUME Init PROVE LInv
  OBVIOUS
<1>1. /\ Range(pendingRabbitRequests) = {} /\ Range(wire) = {}
      /\ queue = {} /\ lost = {} /\ published = {}
      /\ Once(pendingRabbitRequests) /\ Once(wire)
  BY OnceEmpty DEF Init
<1> QED BY <1>1, TypeInit DEF LInv, Accounted, OnePlace, Aside, OnWire, Queued, Gone

(* The invariant is inductive, and each step moves messages forward.       *)
LEMMA LedgerStep == LInv /\ [Next]_vars => LInv' /\ \A m \in Message : Forward(m)
BY AccountedStep, TypeStep DEF LInv, Goal

(* No message is twice in one place or in two places.                      *)
THEOREM AccountedCorrect == Spec => []LInv
BY AccountedInit, LedgerStep, PTL DEF Spec

-----------------------------------------------------------------------------
(* Ledger and refinement.                                                  *)

(* The positions of a message in a sequence, when it is there once.        *)
LEMMA OnePosition ==
  ASSUME NEW s \in Seq(Frames), Once(s), NEW m \in Message, NEW place
  PROVE  /\ m \in Range(s) =>
              \E p : {<<place, i>> : i \in {j \in DOMAIN s : s[j] = m}} = {p}
         /\ m \notin Range(s) =>
              {<<place, i>> : i \in {j \in DOMAIN s : s[j] = m}} = {}
<1> DEFINE Positions == {j \in DOMAIN s : s[j] = m}
<1>1. CASE m \in Range(s)
  <2>1. PICK k \in DOMAIN s : s[k] = m
    BY <1>1 DEF Range
  <2>2. Positions = {k}
    BY <2>1 DEF Once
  <2>3. {<<place, i>> : i \in Positions} = {<<place, k>>}
    BY <2>2
  <2> QED BY <1>1, <2>3
<1>2. CASE m \notin Range(s)
  <2>1. Positions = {}
    BY <1>2 DEF Range
  <2> QED BY <1>2, <2>1
<1> QED BY <1>1, <1>2

(* Every published message is in exactly one place, exactly once.          *)
THEOREM LedgerCorrect == Spec => []Ledger
<1>1. LInv => Ledger
  <2> SUFFICES ASSUME LInv, NEW m \in Message
               PROVE  IF m \in published THEN \E p \in Places(m) : Places(m) = {p}
                                         ELSE Places(m) = {}
    BY DEF Ledger
  <2> DEFINE A == {<<"pending", i>> : i \in {j \in DOMAIN pendingRabbitRequests :
                                               pendingRabbitRequests[j] = m}}
             W == {<<"wire", i>> : i \in {j \in DOMAIN wire : wire[j] = m}}
             Q == IF m \in queue THEN {<<"queue", 0>>} ELSE {}
             G == {<<"lost", r>> : r \in {s \in Reason : <<m, s>> \in lost}}
  <2>1. Places(m) = A \union W \union Q \union G
    BY DEF Places
  <2>2. /\ pendingRabbitRequests \in Seq(Frames) /\ wire \in Seq(Frames)
        /\ Once(pendingRabbitRequests) /\ Once(wire) /\ OnePlace(m)
    BY SeqMonotonic DEF LInv, TypeOK, Accounted, Frames
  <2>3. (Aside(m) => \E p : A = {p}) /\ (~Aside(m) => A = {})
    BY <2>2, OnePosition DEF Aside
  <2>4. (OnWire(m) => \E p : W = {p}) /\ (~OnWire(m) => W = {})
    BY <2>2, OnePosition DEF OnWire
  <2>5. (Queued(m) => \E p : Q = {p}) /\ (~Queued(m) => Q = {})
    BY DEF Queued
  <2>6. (Gone(m) => \E p : G = {p}) /\ (~Gone(m) => G = {})
    <3>1. CASE Gone(m)
      <4>1. PICK r \in Reason : <<m, r>> \in lost
        BY <3>1 DEF Gone
      <4>2. {s \in Reason : <<m, s>> \in lost} = {r}
        BY <2>2, <4>1 DEF OnePlace
      <4>3. G = {<<"lost", r>>}
        BY <4>2
      <4> QED BY <3>1, <4>3
    <3>2. CASE ~Gone(m)
      BY <3>2 DEF Gone
    <3> QED BY <3>1, <3>2
  <2> HIDE DEF A, W, Q, G
  <2>7. CASE m \in published
    <3>1. \E p : Places(m) = {p}
      BY <2>1, <2>2, <2>3, <2>4, <2>5, <2>6, <2>7 DEF OnePlace
    <3> QED BY <2>7, <3>1
  <2>8. CASE m \notin published
    BY <2>1, <2>2, <2>3, <2>4, <2>5, <2>6, <2>8 DEF OnePlace
  <2> QED BY <2>7, <2>8
<1> QED BY <1>1, AccountedCorrect, PTL

(* Where module Outbox sees a message.                                     *)
Where(m) == CASE Aside(m)  -> "aside"
              [] OnWire(m) -> "sent"
              [] Queued(m) -> "queued"
              [] Gone(m)   -> "lost"
              [] OTHER     -> "unpublished"

(* The service implements the abstract outbox.                             *)
THEOREM ImplementsOutboxCorrect == Spec => ImplementsOutbox
<1> DEFINE where == [m \in Message |-> Where(m)]
<1>1. Init => Outbox!Init
  <2> SUFFICES ASSUME Init, NEW m \in Message PROVE Where(m) = "unpublished"
    BY DEF Outbox!Init, Where, Aside, OnWire, Queued, Gone
  <2>1. ~Aside(m) /\ ~OnWire(m) /\ ~Queued(m) /\ ~Gone(m)
    BY OnceEmpty DEF Init, Aside, OnWire, Queued, Gone
  <2> QED BY <2>1 DEF Where
<1>2. ASSUME LInv, LInv', NEW m \in Message, Forward(m)
      PROVE  /\ Where(m)' \in Outbox!Place
             /\ Where(m)' # Where(m) => Where(m)' \in Outbox!Successors(Where(m))
  <2>1. OnePlace(m) /\ OnePlace(m)'
    BY <1>2 DEF LInv, Accounted
  <2> QED BY <1>2, <2>1 DEF OnePlace, Forward, Where, Outbox!Place, Outbox!Successors
<1>3. LInv /\ [Next]_vars => Outbox!Next
  <2> SUFFICES ASSUME LInv, [Next]_vars PROVE Outbox!Next
    OBVIOUS
  <2>1. LInv' /\ \A m \in Message : Forward(m)
    BY LedgerStep
  <2>2. \A m \in Message :
          /\ Where(m)' \in Outbox!Place
          /\ Where(m)' # Where(m) => Where(m)' \in Outbox!Successors(Where(m))
    BY <1>2, <2>1
  <2>3. /\ where' \in [Message -> Outbox!Place]
        /\ \A m \in Message :
             where'[m] # where[m] => where'[m] \in Outbox!Successors(where[m])
    BY <2>2
  <2> QED BY <2>3 DEF Outbox!Next, Where, Aside, OnWire, Queued, Gone
<1> QED BY <1>1, <1>3, AccountedCorrect, PTL DEF Spec, ImplementsOutbox, Outbox!Spec

-----------------------------------------------------------------------------
(* The order of the line.                                                  *)

(* Who is before whom in two sequences, one after the other.               *)
LEMMA BeforeConcat ==
  ASSUME NEW s \in Seq(Frames), NEW t \in Seq(Frames), NEW m, NEW k
  PROVE  Before(s \o t, m, k)
           <=> (Before(s, m, k) \/ Before(t, m, k) \/ (m \in Range(s) /\ k \in Range(t)))
<1>1. /\ Len(s \o t) = Len(s) + Len(t) /\ s \o t \in Seq(Frames)
      /\ \A i \in 1 .. (Len(s) + Len(t)) :
           (s \o t)[i] = IF i <= Len(s) THEN s[i] ELSE t[i - Len(s)]
  BY ConcatProperties
<1> DEFINE u == s \o t
<1> HIDE DEF u
<1>2. /\ DOMAIN s = 1 .. Len(s) /\ DOMAIN t = 1 .. Len(t)
      /\ DOMAIN u = 1 .. (Len(s) + Len(t))
      /\ Len(s) \in Nat /\ Len(t) \in Nat
  BY <1>1, LenProperties DEF u
<1>3. \A i \in DOMAIN s : i \in DOMAIN u /\ u[i] = s[i]
  BY <1>1, <1>2 DEF u
<1>4. \A i \in DOMAIN t : i + Len(s) \in DOMAIN u /\ u[i + Len(s)] = t[i]
  <2> SUFFICES ASSUME NEW i \in DOMAIN t
               PROVE  i + Len(s) \in DOMAIN u /\ u[i + Len(s)] = t[i]
    OBVIOUS
  <2>1. i + Len(s) \in 1 .. (Len(s) + Len(t)) /\ ~(i + Len(s) <= Len(s))
        /\ (i + Len(s)) - Len(s) = i
    BY <1>2
  <2> QED BY <1>1, <1>2, <2>1 DEF u
<1>5. ASSUME Before(s, m, k) PROVE Before(u, m, k)
  BY <1>3, <1>5 DEF Before
<1>6. ASSUME Before(t, m, k) PROVE Before(u, m, k)
  <2>1. PICK i, j \in DOMAIN t : i < j /\ t[i] = m /\ t[j] = k
    BY <1>6 DEF Before
  <2>2. i + Len(s) < j + Len(s)
    BY <1>2, <2>1
  <2> QED BY <1>4, <2>1, <2>2 DEF Before
<1>7. ASSUME m \in Range(s), k \in Range(t) PROVE Before(u, m, k)
  <2>1. PICK i \in DOMAIN s, j \in DOMAIN t : s[i] = m /\ t[j] = k
    BY <1>7 DEF Range
  <2>2. i < j + Len(s)
    BY <1>2, <2>1
  <2> QED BY <1>3, <1>4, <2>1, <2>2 DEF Before
<1>8. ASSUME Before(u, m, k)
      PROVE  Before(s, m, k) \/ Before(t, m, k) \/ (m \in Range(s) /\ k \in Range(t))
  <2>1. PICK i, j \in DOMAIN u : i < j /\ u[i] = m /\ u[j] = k
    BY <1>8 DEF Before
  <2>2. ASSUME NEW n \in DOMAIN u
        PROVE  \/ n \in DOMAIN s /\ n <= Len(s) /\ u[n] = s[n]
               \/ n > Len(s) /\ n - Len(s) \in DOMAIN t /\ u[n] = t[n - Len(s)]
    <3>1. u[n] = IF n <= Len(s) THEN s[n] ELSE t[n - Len(s)]
      BY <1>1, <1>2 DEF u
    <3>2. n \in Nat /\ n >= 1 /\ n <= Len(s) + Len(t)
      BY <1>2
    <3>3. CASE n <= Len(s)
      BY <1>2, <3>1, <3>2, <3>3
    <3>4. CASE n > Len(s)
      BY <1>2, <3>1, <3>2, <3>4
    <3> QED BY <1>2, <3>2, <3>3, <3>4
  <2>3. CASE j <= Len(s)
    <3>1. i \in DOMAIN s /\ j \in DOMAIN s /\ u[i] = s[i] /\ u[j] = s[j]
      BY <1>2, <2>1, <2>2, <2>3
    <3> QED BY <2>1, <3>1 DEF Before
  <2>4. CASE i > Len(s)
    <3>1. i - Len(s) \in DOMAIN t /\ j - Len(s) \in DOMAIN t /\ i - Len(s) < j - Len(s)
          /\ u[i] = t[i - Len(s)] /\ u[j] = t[j - Len(s)]
      BY <1>2, <2>1, <2>2, <2>4
    <3> QED BY <2>1, <3>1 DEF Before
  <2>5. CASE i <= Len(s) /\ j > Len(s)
    <3>1. i \in DOMAIN s /\ j - Len(s) \in DOMAIN t /\ u[i] = s[i] /\ u[j] = t[j - Len(s)]
      BY <1>2, <2>1, <2>2, <2>5
    <3>2. m \in Range(s) /\ k \in Range(t)
      BY <2>1, <3>1 DEF Range
    <3> QED BY <3>2
  <2> QED BY <1>2, <2>1, <2>3, <2>4, <2>5
<1> QED BY <1>5, <1>6, <1>7, <1>8 DEF u

(* Nobody is before anybody in a sequence of one frame, or of none.        *)
LEMMA BeforeShort ==
  ASSUME NEW x, NEW m, NEW k
  PROVE  ~Before(<<x>>, m, k) /\ ~Before(<<>>, m, k)
<1>1. DOMAIN <<x>> = {1} /\ DOMAIN <<>> = {}
  OBVIOUS
<1> QED BY <1>1 DEF Before

(* A frame at the end is behind the others.                                *)
LEMMA BeforeAppend ==
  ASSUME NEW s \in Seq(Frames), NEW x \in Frames, NEW m, NEW k
  PROVE  Before(Append(s, x), m, k) <=> (Before(s, m, k) \/ (m \in Range(s) /\ k = x))
<1>1. Append(s, x) = s \o <<x>> /\ <<x>> \in Seq(Frames) /\ Range(<<x>>) = {x}
  BY AppendIsConcat, OnceSingle
<1>2. Before(s \o <<x>>, m, k)
        <=> (Before(s, m, k) \/ Before(<<x>>, m, k) \/ (m \in Range(s) /\ k \in Range(<<x>>)))
  BY <1>1, BeforeConcat
<1>3. ~Before(<<x>>, m, k)
  BY BeforeShort
<1> QED BY <1>1, <1>2, <1>3

(* The frame that leaves changes nothing among the others.                 *)
LEMMA BeforeTail ==
  ASSUME NEW s \in Seq(Frames), s # <<>>, NEW m, NEW k, Before(Tail(s), m, k)
  PROVE  Before(s, m, k)
<1>1. Tail(s) \in Seq(Frames) /\ Len(Tail(s)) = Len(s) - 1 /\ Len(s) \in Nat
      /\ \A i \in 1 .. Len(Tail(s)) : Tail(s)[i] = s[i + 1]
      /\ DOMAIN s = 1 .. Len(s) /\ DOMAIN Tail(s) = 1 .. Len(Tail(s))
  BY HeadTailProperties, LenProperties
<1>2. PICK i, j \in DOMAIN Tail(s) : i < j /\ Tail(s)[i] = m /\ Tail(s)[j] = k
  BY DEF Before
<1>3. /\ i + 1 \in DOMAIN s /\ j + 1 \in DOMAIN s /\ i + 1 < j + 1
      /\ s[i + 1] = m /\ s[j + 1] = k
  BY <1>1, <1>2
<1> QED BY <1>3 DEF Before

(* What two messages of the line are to each other, from its two parts.    *)
Behind(w, p, m, k) == Before(w, m, k) \/ Before(p, m, k) \/ (m \in Range(w) /\ k \in Range(p))

(* A step that overtakes is a direct publish between channel and set-up:   *)
(* every other one sends, cuts off or takes the line from one of its ends. *)
LEMMA OvertakeStep ==
  ASSUME IInv, LInv, [Next]_vars, NEW m \in Message, NEW k \in Message, Overtakes(m, k)
  PROVE  /\ SettingUp /\ m \notin published
         /\ k \in Range(pendingRabbitRequests)
<1> USE DEF process, fields, setup, broker
<1> DEFINE pending == pendingRabbitRequests
<1>1. /\ wire \in Seq(Frames) /\ pending \in Seq(Frames)
      /\ wire' \in Seq(Frames) /\ pending' \in Seq(Frames)
  BY TypeStep, SeqMonotonic DEF LInv, TypeOK, Frames
<1>2. Declare \notin Message /\ Declare \in Frames
  BY DeclareAssumption DEF Frames
<1>3. Before(Line, m, k) <=> Behind(wire, pending, m, k)
  BY <1>1, BeforeConcat DEF Line, Behind
<1>4. Before(Line', m, k) <=> Behind(wire', pending', m, k)
  <2>1. PICK w \in Seq(Frames), p \in Seq(Frames) : w = wire' /\ p = pending'
    BY <1>1
  <2>2. Before(w \o p, m, k) <=> Behind(w, p, m, k)
    BY BeforeConcat DEF Behind
  <2> QED BY <2>1, <2>2 DEF Line
<1>5. /\ ~Behind(wire, pending, m, k) /\ Behind(wire', pending', m, k)
      /\ k \in Range(wire) \/ k \in Range(pending)
  BY <1>1, <1>3, <1>4, RangeConcatenation DEF Overtakes, Line
<1>6. k \in published
  BY <1>5 DEF LInv, Accounted, OnePlace, Aside, OnWire
<1>7. ~Before(<<>>, m, k) /\ Range(<<>>) = {}
  BY BeforeShort, OnceEmpty
<1>a. ASSUME reDrivePendingRabbitRequests PROVE FALSE
  <2>1. CASE UNCHANGED <<wire, pendingRabbitRequests>>
    BY <1>5, <2>1
  <2>2. CASE wire' = wire /\ pending' = <<>>
    BY <1>5, <1>7, <2>2 DEF Behind
  <2>3. CASE wire' = Line /\ pending' = <<>>
    BY <1>3, <1>5, <1>7, <2>3 DEF Behind
  <2> QED BY <1>a, <2>1, <2>2, <2>3 DEF reDrivePendingRabbitRequests, Send, Line
<1>b. ASSUME wire' = Append(wire, Declare), pending' = pending PROVE FALSE
  <2>1. Before(wire', m, k) => Before(wire, m, k)
    BY <1>1, <1>2, <1>b, BeforeAppend
  <2>2. m \in Range(wire') => m \in Range(wire)
    BY <1>1, <1>2, <1>b, RangeOfAppend
  <2> QED BY <1>5, <1>b, <2>1, <2>2 DEF Behind
<1>c. ASSUME wire' = <<>>, pending' = pending \/ pending' = <<>> PROVE FALSE
  BY <1>5, <1>7, <1>c DEF Behind
<1>d. ASSUME wire' = wire, pending' = pending PROVE FALSE
  BY <1>5, <1>d
<1>8. CASE Crash \/ SetupRejected
  BY <1>8, <1>c DEF Crash, SetupRejected, Die
<1>9. CASE Start \/ NestReady \/ ConnectOk \/ ConnectFail \/ ChannelOk
           \/ ChannelRejected
  BY <1>9, <1>d DEF Start, NestReady, ConnectOk, ConnectFail, ChannelOk,
     ChannelRejected
<1>10. CASE WakeUp
  BY <1>10, <1>a, <1>b, <1>d DEF WakeUp
<1>11. CASE ExchangeOk \/ QueuesOk
  BY <1>11, <1>a, <1>b DEF ExchangeOk, QueuesOk
<1>12. CASE ConnectionError \/ ConnectionClosed \/ ChannelError
  BY <1>12, <1>c DEF ConnectionError, ConnectionClosed, ChannelError, Sever
<1>13. ASSUME NEW n \in Message, publish(n)
       PROVE  /\ SettingUp /\ m \notin published
              /\ k \in Range(pendingRabbitRequests)
  <2>1. n # k /\ n \in Frames /\ n \notin published
    BY <1>6, <1>13 DEF publish, Frames
  <2>2. CASE ~Usable
    <3>1. wire' = wire /\ pending' = Append(pending, n)
      BY <1>13, <2>2 DEF publish
    <3>2. Before(pending', m, k) => Before(pending, m, k)
      BY <1>1, <2>1, <3>1, BeforeAppend
    <3>3. k \in Range(pending') => k \in Range(pending)
      BY <1>1, <2>1, <3>1, RangeOfAppend
    <3> QED BY <1>5, <3>1, <3>2, <3>3 DEF Behind
  <2>3. CASE Usable /\ amqpChannel # "open"
    BY <1>13, <1>d, <2>3 DEF publish, Send
  <2>4. CASE Usable /\ amqpChannel = "open"
    <3>1. wire' = Append(wire, n) /\ pending' = pending
      BY <1>1, <1>13, <2>1, <2>4, AppendIsConcat DEF publish, Send
    <3>2. Before(wire', m, k) => Before(wire, m, k)
      BY <1>1, <2>1, <3>1, BeforeAppend
    <3>3. m \in Range(wire') => m \in Range(wire) \/ m = n
      BY <1>1, <2>1, <3>1, RangeOfAppend
    <3>4. m = n /\ k \in Range(pending)
      BY <1>5, <3>1, <3>2, <3>3 DEF Behind
    <3>5. pending # <<>>
      BY <1>7, <3>4
    <3> QED BY <2>1, <2>4, <3>4, <3>5, PhasesStrandNothing DEF NothingStranded
  <2> QED BY <2>2, <2>3, <2>4
<1>14. CASE BrokerRead
  <2>1. wire # <<>> /\ wire' = Tail(wire) /\ pending' = pending
    BY <1>14 DEF BrokerRead
  <2>2. Before(wire', m, k) => Before(wire, m, k)
    BY <1>1, <2>1, BeforeTail
  <2>3. m \in Range(wire') => m \in Range(wire)
    BY <1>1, <2>1, RangeOfTail
  <2> QED BY <1>5, <2>1, <2>2, <2>3 DEF Behind
<1>15. CASE UNCHANGED vars
  BY <1>15, <1>d DEF vars
<1> QED BY <1>8, <1>9, <1>10, <1>11, <1>12, <1>13, <1>14, <1>15 DEF Next

(* Messages are sent in the order they were published, but for one that is *)
(* published directly while the queues are being set up.                   *)
THEOREM OvertakenOnlyInSetupCorrect == Spec => OvertakenOnlyInSetup
<1>1. IInv /\ LInv /\ [Next]_vars =>
        [\A m, k \in Message :
           Overtakes(m, k) => /\ SettingUp /\ m \notin published
                              /\ k \in Range(pendingRabbitRequests)]_vars
  BY OvertakeStep
<1> QED BY <1>1, Inductive, AccountedCorrect, PTL DEF Spec, OvertakenOnlyInSetup
===============================================================================
