-------------------------- MODULE AmqpServiceProofs --------------------------
(***************************************************************************)
(* Proofs about AmqpService for every set of messages.  The inductive      *)
(* invariant is TypeOK /\ Phases: what the steps preserve is that the      *)
(* handles, the flags and the activations are together in one of seven     *)
(* phases; the invariants TLC checks follow from the phases one by one.    *)
(***************************************************************************)
EXTENDS AmqpService, SequenceTheorems, TLAPS

IInv == TypeOK /\ Phases

-----------------------------------------------------------------------------
(* Sequences as sets.                                                      *)

(* The members of a sequence that grew by one member at its end.           *)
LEMMA RangeOfAppend ==
  ASSUME NEW S, NEW s \in Seq(S), NEW x \in S
  PROVE  /\ Append(s, x) \in Seq(S)
         /\ Range(Append(s, x)) = Range(s) \union {x}
<1>1. Append(s, x) = s \o <<x>> /\ <<x>> \in Seq(S)
  BY AppendIsConcat
<1>2. Range(<<x>>) = {x}
  BY DEF Range
<1>3. Append(s, x) \in Seq(S)
  BY AppendProperties
<1>4. Range(s \o <<x>>) = Range(s) \union Range(<<x>>)
  BY <1>1, RangeConcatenation
<1> QED BY <1>1, <1>2, <1>3, <1>4

(* The members of a sequence that lost its first member.                   *)
LEMMA RangeOfTail ==
  ASSUME NEW S, NEW s \in Seq(S), s # <<>>
  PROVE  /\ Head(s) \in S
         /\ Tail(s) \in Seq(S)
         /\ Range(s) = Range(Tail(s)) \union {Head(s)}
<1>1. Head(s) \in S /\ Tail(s) \in Seq(S) /\ s = <<Head(s)>> \o Tail(s)
  BY HeadTailProperties
<1>2. Range(<<Head(s)>>) = {Head(s)} /\ <<Head(s)>> \in Seq(S)
  BY <1>1 DEF Range
<1>3. Range(<<Head(s)>> \o Tail(s)) = Range(<<Head(s)>>) \union Range(Tail(s))
  BY <1>1, <1>2, RangeConcatenation
<1> QED BY <1>1, <1>2, <1>3

-----------------------------------------------------------------------------
(* Types.                                                                  *)

(* A message sent or refused, a channel severed and a process that dies    *)
(* leave the wire, the array and the losses well typed.                    *)
LEMMA SendType ==
  ASSUME TypeOK, NEW messages \in Seq(Message), Send(messages)
  PROVE  wire' \in Seq(Message \union {Declare}) /\ lost' \subseteq Message \X Reason
<1>1. messages \in Seq(Message \union {Declare})
  BY SeqMonotonic
<1>2. Range(messages) \subseteq Message
  BY RangeOfSeq
<1>3. "refused" \in Reason
  BY DEF Reason
<1>4. CASE amqpChannel = "open"
  <2>1. wire \in Seq(Message \union {Declare})
    BY DEF TypeOK
  <2>2. wire \o messages \in Seq(Message \union {Declare})
    BY <1>1, <2>1, ConcatProperties
  <2> QED BY <1>4, <2>2 DEF TypeOK, Send
<1>5. CASE amqpChannel # "open"
  BY <1>2, <1>3, <1>5 DEF TypeOK, Send, Because
<1> QED BY <1>4, <1>5

LEMMA RedriveType ==
  ASSUME TypeOK, reDrivePendingRabbitRequests
  PROVE  /\ wire' \in Seq(Message \union {Declare})
         /\ lost' \subseteq Message \X Reason
         /\ pendingRabbitRequests' \in Seq(Message)
<1>1. pendingRabbitRequests \in Seq(Message)
  BY DEF TypeOK
<1>2. CASE Usable
  <2>1. Send(pendingRabbitRequests) /\ pendingRabbitRequests' = <<>>
    BY <1>2 DEF reDrivePendingRabbitRequests
  <2> QED BY <1>1, <2>1, SendType
<1>3. CASE ~Usable
  BY <1>3 DEF TypeOK, reDrivePendingRabbitRequests
<1> QED BY <1>2, <1>3

LEMMA SeverType ==
  ASSUME TypeOK, Sever
  PROVE  wire' \in Seq(Message \union {Declare}) /\ lost' \subseteq Message \X Reason
<1>1. Range(wire) \ {Declare} \subseteq Message
  BY RangeOfSeq DEF TypeOK
<1>2. "severed" \in Reason
  BY DEF Reason
<1> QED BY <1>1, <1>2 DEF TypeOK, Sever, Because

LEMMA DieType ==
  ASSUME TypeOK, Die
  PROVE  TypeOK'
<1>1. Range(wire) \ {Declare} \subseteq Message /\ Range(pendingRabbitRequests) \subseteq Message
  BY RangeOfSeq DEF TypeOK
<1>2. "severed" \in Reason /\ "forgotten" \in Reason
  BY DEF Reason
<1>3. lost' \subseteq Message \X Reason
  BY <1>1, <1>2 DEF TypeOK, Die, Because
<1>4. <<>> \in Seq(Message) /\ <<>> \in Seq(Message \union {Declare})
  OBVIOUS
<1>5. Idle \in [Stage -> Nat]
  BY DEF Idle
<1>6. pendingRabbitRequests' \in Seq(Message) /\ wire' \in Seq(Message \union {Declare})
      /\ activations' \in [Stage -> Nat]
  BY <1>4, <1>5 DEF Die
<1>7. /\ up' \in BOOLEAN /\ nestReady' \in BOOLEAN /\ isAmqpChannelReady' \in BOOLEAN
      /\ amqpConnection' \in Handle /\ amqpChannel' \in Handle
      /\ rabbitRouter' \in Router /\ setupDone' \subseteq Flag
      /\ silent' \in BOOLEAN
  BY DEF Die, Handle, Router
<1>8. queueDeclared' \in BOOLEAN /\ queue' \subseteq Message /\ published' \subseteq Message
  BY DEF TypeOK, Die, broker
<1> QED BY <1>3, <1>6, <1>7, <1>8 DEF TypeOK

(* Counting activations stays in the naturals: only a parked one moves.    *)
LEMMA CountType ==
  ASSUME TypeOK, NEW s \in Stage, NEW t \in Stage
  PROVE  /\ Spawn(s) => activations' \in [Stage -> Nat]
         /\ Parked(s) /\ s # t /\ MoveOn(s, t) => activations' \in [Stage -> Nat]
         /\ Parked(s) /\ End(s) => activations' \in [Stage -> Nat]
<1>1. activations \in [Stage -> Nat] /\ activations[s] \in Nat /\ activations[t] \in Nat
  BY DEF TypeOK
<1>2. Spawn(s) => activations' \in [Stage -> Nat]
  BY <1>1 DEF Spawn
<1>3. Parked(s) => activations[s] - 1 \in Nat
  BY <1>1 DEF Parked
<1>4. Parked(s) /\ s # t /\ MoveOn(s, t) => activations' \in [Stage -> Nat]
  BY <1>1, <1>3 DEF MoveOn
<1>5. Parked(s) /\ End(s) => activations' \in [Stage -> Nat]
  BY <1>1, <1>3 DEF End
<1> QED BY <1>2, <1>4, <1>5

(* The initial state is well typed.                                        *)
LEMMA TypeInit == Init => TypeOK
<1> SUFFICES ASSUME Init PROVE TypeOK
  OBVIOUS
<1>1. Idle \in [Stage -> Nat] /\ activations = Idle
  BY DEF Init, Idle
<1>2. <<>> \in Seq(Message) /\ <<>> \in Seq(Message \union {Declare})
  OBVIOUS
<1> QED BY <1>1, <1>2 DEF Init, TypeOK, Handle, Router

(* Every step of the service keeps the types.                              *)
LEMMA TypeStep == TypeOK /\ [Next]_vars => TypeOK'
<1> SUFFICES ASSUME TypeOK, [Next]_vars PROVE TypeOK'
  OBVIOUS
<1> USE DEF process, fields, setup, broker
<1>1. ASSUME Start PROVE TypeOK'
  <2>1. activations' \in [Stage -> Nat]
    BY <1>1, CountType DEF Start, Stage
  <2> QED BY <1>1, <2>1 DEF TypeOK, Start
<1>2. ASSUME NestReady PROVE TypeOK'
  BY <1>2 DEF TypeOK, NestReady
<1>3. ASSUME Crash PROVE TypeOK'
  BY <1>3, DieType DEF Crash
<1>4. ASSUME ConnectOk PROVE TypeOK'
  <2>1. activations' \in [Stage -> Nat]
    BY <1>4, CountType DEF ConnectOk, Stage
  <2> QED BY <1>4, <2>1 DEF TypeOK, ConnectOk, Handle
<1>5. ASSUME ConnectFail PROVE TypeOK'
  <2>1. activations' \in [Stage -> Nat]
    BY <1>5, CountType DEF ConnectFail, Stage
  <2> QED BY <1>5, <2>1 DEF TypeOK, ConnectFail, Handle
<1>6. ASSUME WakeUp PROVE TypeOK'
  <2>1. CASE NextStage = "done"
    <3>1. Parked("sleep") /\ End("sleep") /\ reDrivePendingRabbitRequests
      BY <1>6, <2>1 DEF WakeUp
    <3>2. activations' \in [Stage -> Nat]
      BY <3>1, CountType DEF Stage
    <3> QED BY <1>6, <3>1, <3>2, RedriveType DEF TypeOK, WakeUp
  <2>2. CASE NextStage # "done"
    <3>1. NextStage \in Stage \ {"sleep"}
      BY <2>2 DEF NextStage, Stage
    <3>2. activations' \in [Stage -> Nat]
      BY <1>6, <2>2, <3>1, CountType DEF WakeUp, Stage
    <3>3. Append(wire, Declare) \in Seq(Message \union {Declare})
      BY AppendProperties DEF TypeOK
    <3> QED BY <1>6, <2>2, <3>2, <3>3 DEF TypeOK, WakeUp
  <2> QED BY <2>1, <2>2
<1>7. ASSUME ChannelOk PROVE TypeOK'
  <2>1. activations' \in [Stage -> Nat]
    BY <1>7, CountType DEF ChannelOk, Stage
  <2> QED BY <1>7, <2>1 DEF TypeOK, ChannelOk, Handle
<1>8. ASSUME ChannelRejected PROVE TypeOK'
  <2>1. activations' \in [Stage -> Nat]
    BY <1>8, CountType DEF ChannelRejected, Stage
  <2> QED BY <1>8, <2>1 DEF TypeOK, ChannelRejected
<1>9. ASSUME ExchangeOk PROVE TypeOK'
  <2>1. activations' \in [Stage -> Nat]
    BY <1>9, CountType DEF ExchangeOk, Stage
  <2>2. Append(wire, Declare) \in Seq(Message \union {Declare})
    BY AppendProperties DEF TypeOK
  <2> QED BY <1>9, <2>1, <2>2 DEF TypeOK, ExchangeOk, Router, Flag
<1>10. ASSUME QueuesOk PROVE TypeOK'
  <2>1. activations' \in [Stage -> Nat]
    BY <1>10, CountType DEF QueuesOk, Stage
  <2> QED BY <1>10, <2>1, RedriveType DEF TypeOK, QueuesOk, Flag
<1>11. ASSUME SetupRejected PROVE TypeOK'
  BY <1>11, DieType DEF SetupRejected
<1>12. ASSUME ConnectionError PROVE TypeOK'
  <2>1. activations' \in [Stage -> Nat]
    BY <1>12, CountType DEF ConnectionError, Stage
  <2> QED BY <1>12, <2>1, SeverType DEF TypeOK, ConnectionError, Handle
<1>13. ASSUME ConnectionClosed PROVE TypeOK'
  BY <1>13, SeverType DEF TypeOK, ConnectionClosed, Handle
<1>14. ASSUME ChannelError PROVE TypeOK'
  <2>1. activations' \in [Stage -> Nat]
    BY <1>14, CountType DEF ChannelError, Stage
  <2> QED BY <1>14, <2>1, SeverType DEF TypeOK, ChannelError, Handle
<1>15. ASSUME NEW m \in Message, publish(m) PROVE TypeOK'
  <2>1. CASE Usable
    <3>1. <<m>> \in Seq(Message) /\ Send(<<m>>)
      BY <1>15, <2>1 DEF publish
    <3> QED BY <1>15, <2>1, <3>1, SendType DEF TypeOK, publish
  <2>2. CASE ~Usable
    <3>1. Append(pendingRabbitRequests, m) \in Seq(Message)
      BY AppendProperties DEF TypeOK
    <3> QED BY <1>15, <2>2, <3>1 DEF TypeOK, publish
  <2> QED BY <2>1, <2>2
<1>16. ASSUME BrokerRead PROVE TypeOK'
  <2>1. /\ Head(wire) \in Message \union {Declare}
        /\ wire' \in Seq(Message \union {Declare})
    BY <1>16, RangeOfTail DEF TypeOK, BrokerRead
  <2>2. "unroutable" \in Reason
    BY DEF Reason
  <2>3. queueDeclared' \in BOOLEAN /\ queue' \subseteq Message
    BY <1>16, <2>1 DEF TypeOK, BrokerRead
  <2>4. lost' \subseteq Message \X Reason
    <3>1. CASE lost' = lost
      BY <3>1 DEF TypeOK
    <3>2. CASE lost' # lost
      <4>1. Head(wire) \in Message /\ lost' = lost \union ({Head(wire)} \X {"unroutable"})
        BY <1>16, <2>1, <3>2 DEF BrokerRead, Because
      <4> QED BY <2>2, <4>1 DEF TypeOK
    <3> QED BY <3>1, <3>2
  <2> QED BY <1>16, <2>1, <2>3, <2>4 DEF TypeOK, BrokerRead
<1>17. ASSUME UNCHANGED vars PROVE TypeOK'
  BY <1>17 DEF TypeOK, vars
<1> QED BY <1>1, <1>2, <1>3, <1>4, <1>5, <1>6, <1>7, <1>8, <1>9, <1>10, <1>11,
           <1>12, <1>13, <1>14, <1>15, <1>16, <1>17 DEF Next

(* Type correctness, for every set of messages.                            *)
THEOREM TypeCorrect == Spec => []TypeOK
BY TypeInit, TypeStep, PTL DEF Spec

-----------------------------------------------------------------------------
(* Phases.                                                                 *)

(* A process that dies is down, whatever it was doing.                     *)
LEMMA DieIsDown == Die => Down'
BY DEF Die, Down, NoSetup, Parking, Idle, Stage

(* Every step leads from a phase to a phase.                               *)
LEMMA PhaseStep == TypeOK /\ Phases /\ [Next]_vars => Phases'
<1> SUFFICES ASSUME TypeOK, Phases, [Next]_vars PROVE Phases'
  OBVIOUS
<1> USE DEF process, fields, setup, broker
<1>a. activations \in [Stage -> Nat] /\ {"sleep", "connect", "channel", "exchange", "queue"} = Stage
  BY DEF TypeOK, Stage
<1>1. ASSUME Start PROVE Phases'
  <2>1. Down
    BY <1>1 DEF Start, Phases, Connecting, OpeningChannel, SettingQueuesUp, Consuming, NeverOpened, ChannelGone
  <2>2. Connecting'
    BY <1>1, <1>a, <2>1 DEF Start, Spawn, Down, Connecting, NoSetup, Parking
  <2> QED BY <2>2 DEF Phases
<1>2. ASSUME NestReady PROVE Phases'
  <2>1. ~Down
    BY <1>2 DEF NestReady, Down
  <2> QED BY <1>2, <2>1 DEF NestReady, Phases, Connecting, OpeningChannel, SettingQueuesUp, Consuming, NeverOpened, ChannelGone, NoSetup, Parking, AllSetUp
<1>3. ASSUME Crash PROVE Phases'
  BY <1>3, DieIsDown DEF Crash, Phases
<1>4. ASSUME ConnectOk PROVE Phases'
  <2>1. Connecting /\ Parking(0, 1, 0, 0, 0)
    BY <1>4 DEF ConnectOk, Parked, Phases, Down, Connecting, OpeningChannel, SettingQueuesUp, Consuming, NeverOpened, ChannelGone, Parking
  <2>2. OpeningChannel'
    BY <1>4, <1>a, <2>1 DEF ConnectOk, MoveOn, Connecting, OpeningChannel, NoSetup, Parking
  <2> QED BY <2>2 DEF Phases
<1>5. ASSUME ConnectFail PROVE Phases'
  <2>1. Connecting /\ Parking(0, 1, 0, 0, 0)
    BY <1>5 DEF ConnectFail, Parked, Phases, Down, Connecting, OpeningChannel, SettingQueuesUp, Consuming, NeverOpened, ChannelGone, Parking
  <2>2. Connecting'
    BY <1>5, <1>a, <2>1 DEF ConnectFail, MoveOn, Connecting, NoSetup, Parking
  <2> QED BY <2>2 DEF Phases
<1>6. ASSUME WakeUp PROVE Phases'
  <2>1. Connecting \/ NeverOpened \/ ChannelGone
    BY <1>6 DEF WakeUp, Parked, Phases, Down, OpeningChannel, SettingQueuesUp, Consuming, Parking
  <2>2. CASE Connecting
    <3>1. NextStage = "connect" /\ MoveOn("sleep", "connect") /\ Parking(1, 0, 0, 0, 0)
      BY <1>6, <2>2 DEF WakeUp, Parked, NextStage, Connecting, Parking
    <3>2. Connecting'
      BY <1>6, <1>a, <2>2, <3>1 DEF WakeUp, MoveOn, Connecting, NoSetup, Parking
    <3> QED BY <3>2 DEF Phases
  <2>3. CASE NeverOpened
    <3>1. NextStage = "channel" /\ MoveOn("sleep", "channel") /\ wire' = wire
      BY <1>6, <2>3 DEF WakeUp, NextStage, NeverOpened
    <3>2. NeverOpened'
      BY <1>6, <1>a, <2>3, <3>1 DEF WakeUp, Parked, MoveOn, NeverOpened, NoSetup, Parking
    <3> QED BY <3>2 DEF Phases
  <2>4. CASE ChannelGone
    <3>1. NextStage = "done"
      BY <2>4 DEF NextStage, ChannelGone, AllSetUp, Flag
    <3>2. End("sleep") /\ reDrivePendingRabbitRequests
      BY <1>6, <3>1 DEF WakeUp
    <3>3. /\ wire' = wire
          /\ isAmqpChannelReady => pendingRabbitRequests' = <<>>
      BY <2>4, <3>2, EmptySeq DEF reDrivePendingRabbitRequests, Send, Usable, ChannelGone
    <3>4. ChannelGone'
      BY <1>6, <1>a, <2>4, <3>2, <3>3 DEF WakeUp, Parked, End, ChannelGone, AllSetUp, Parking
    <3> QED BY <3>4 DEF Phases
  <2> QED BY <2>1, <2>2, <2>3, <2>4
<1>7. ASSUME ChannelOk PROVE Phases'
  <2>1. OpeningChannel
    BY <1>7 DEF ChannelOk, Parked, Phases, Down, Connecting, SettingQueuesUp, Consuming, NeverOpened, ChannelGone, Parking
  <2>2. Declare \notin Range(wire')
    BY <1>7, <2>1 DEF ChannelOk, OpeningChannel, Range
  <2>3. SettingQueuesUp'
    BY <1>7, <1>a, <2>1, <2>2 DEF ChannelOk, MoveOn, OpeningChannel, SettingQueuesUp, NoSetup, Parking
  <2> QED BY <2>3 DEF Phases
<1>8. ASSUME ChannelRejected PROVE Phases'
  <2>1. NeverOpened
    BY <1>8 DEF ChannelRejected, Parked, Phases, Down, Connecting, OpeningChannel, SettingQueuesUp, Consuming, ChannelGone, Parking
  <2>2. NeverOpened'
    BY <1>8, <1>a, <2>1 DEF ChannelRejected, Parked, MoveOn, NeverOpened, NoSetup, Parking
  <2> QED BY <2>2 DEF Phases
<1>9. ASSUME ExchangeOk PROVE Phases'
  <2>1. SettingQueuesUp /\ Parking(0, 0, 0, 1, 0) /\ setupDone = {}
    BY <1>9 DEF ExchangeOk, Parked, Phases, Down, Connecting, OpeningChannel, SettingQueuesUp, Consuming, NeverOpened, ChannelGone, Parking
  <2>2. Declare \in Range(wire')
    BY <1>9, RangeOfAppend DEF ExchangeOk, TypeOK
  <2>3. Parking(0, 0, 0, 0, 1)'
    BY <1>9, <1>a, <2>1 DEF ExchangeOk, MoveOn, Parking
  <2>4. SettingQueuesUp'
    BY <1>9, <2>1, <2>2, <2>3 DEF ExchangeOk, SettingQueuesUp
  <2> QED BY <2>4 DEF Phases
<1>10. ASSUME QueuesOk PROVE Phases'
  <2>1. SettingQueuesUp /\ Parking(0, 0, 0, 0, 1) /\ queueDeclared
        /\ setupDone = {"deadLetterExchange"} /\ rabbitRouter # "undefined"
    BY <1>10 DEF QueuesOk, Parked, Phases, Down, Connecting, OpeningChannel, SettingQueuesUp, Consuming, NeverOpened, ChannelGone, Parking
  <2>2. pendingRabbitRequests' = <<>>
    BY <1>10, <2>1 DEF QueuesOk, reDrivePendingRabbitRequests, Usable, SettingQueuesUp
  <2>3. Parking(0, 0, 0, 0, 0)'
    BY <1>10, <1>a, <2>1 DEF QueuesOk, End, Parking
  <2>4. Consuming'
    BY <1>10, <2>1, <2>2, <2>3 DEF QueuesOk, SettingQueuesUp, Consuming, AllSetUp, Flag
  <2> QED BY <2>4 DEF Phases
<1>11. ASSUME SetupRejected PROVE Phases'
  BY <1>11, DieIsDown DEF SetupRejected, Phases
<1>12. ASSUME ConnectionError PROVE Phases'
  <2>1. OpeningChannel \/ Consuming \/ (ChannelGone /\ activations["sleep"] <= 1)
    BY <1>12 DEF ConnectionError, SettingUp, Phases, Down, Connecting, SettingQueuesUp, NeverOpened, ChannelGone, Parking
  <2>2. CASE OpeningChannel
    <3>1. activations'["sleep"] = 1 /\ activations'["channel"] = 1 /\ Parking(1, 0, 1, 0, 0)'
      BY <1>12, <1>a, <2>2 DEF ConnectionError, Spawn, OpeningChannel, Parking
    <3>2. NeverOpened'
      BY <1>12, <2>2, <3>1 DEF ConnectionError, Sever, OpeningChannel, NeverOpened, NoSetup
    <3> QED BY <3>2 DEF Phases
  <2>3. CASE Consuming \/ (ChannelGone /\ activations["sleep"] <= 1)
    <3>1. activations["sleep"] \in {0, 1}
      BY <1>a, <2>3 DEF Consuming, ChannelGone, Parking
    <3>2. activations'["sleep"] <= 2 /\ Parking(activations["sleep"], 0, 0, 0, 0)'
      BY <3>1, <1>12, <1>a, <2>3 DEF ConnectionError, Spawn, Consuming, ChannelGone, Parking
    <3>3. ChannelGone'
      BY <1>12, <2>3, <3>2 DEF ConnectionError, Sever, Consuming, ChannelGone, AllSetUp
    <3> QED BY <3>3 DEF Phases
  <2> QED BY <2>1, <2>2, <2>3
<1>13. ASSUME ConnectionClosed PROVE Phases'
  <2>1. OpeningChannel \/ Consuming \/ ChannelGone
    BY <1>13 DEF ConnectionClosed, SettingUp, Phases, Down, Connecting, SettingQueuesUp, NeverOpened, Parking
  <2>2. CASE OpeningChannel
    <3>1. NeverOpened'
      BY <1>13, <1>a, <2>2 DEF ConnectionClosed, Sever, OpeningChannel, NeverOpened, NoSetup, Parking
    <3> QED BY <3>1 DEF Phases
  <2>3. CASE Consuming \/ ChannelGone
    <3>1. ChannelGone'
      BY <1>13, <1>a, <2>3 DEF ConnectionClosed, Sever, Consuming, ChannelGone, AllSetUp, Parking
    <3> QED BY <3>1 DEF Phases
  <2> QED BY <2>1, <2>2, <2>3
<1>14. ASSUME ChannelError PROVE Phases'
  <2>1. Consuming
    BY <1>14 DEF ChannelError, SettingUp, Phases, Down, Connecting, OpeningChannel, SettingQueuesUp, NeverOpened, ChannelGone, Parking
  <2>2. ChannelGone'
    BY <1>14, <1>a, <2>1 DEF ChannelError, Spawn, Sever, Consuming, ChannelGone, AllSetUp, Parking
  <2> QED BY <2>2 DEF Phases
<1>15. ASSUME NEW m \in Message, publish(m) PROVE Phases'
  <2>1. CASE Usable
    <3>1. Send(<<m>>) /\ pendingRabbitRequests' = pendingRabbitRequests
      BY <1>15, <2>1 DEF publish
    <3>2. SettingQueuesUp \/ Consuming \/ ChannelGone
      BY <2>1 DEF Usable, Phases, Down, Connecting, OpeningChannel, NeverOpened, NoSetup
    <3>3. CASE SettingQueuesUp
      <4>1. wire \in Seq(Message \union {Declare}) /\ <<m>> \in Seq(Message \union {Declare})
        BY DEF TypeOK
      <4>2. wire' = wire \o <<m>> /\ Range(<<m>>) = {m}
        BY <3>1, <3>3 DEF Send, SettingQueuesUp, Range
      <4>3a. Range(wire \o <<m>>) = Range(wire) \union Range(<<m>>)
        BY <4>1, RangeConcatenation
      <4>3. Declare \in Range(wire') <=> Declare \in Range(wire)
        BY <4>2, <4>3a, DeclareAssumption
      <4>4. SettingQueuesUp'
        BY <1>15, <3>3, <4>3 DEF publish, SettingQueuesUp, Parking
      <4> QED BY <4>4 DEF Phases
    <3>4. CASE Consuming
      BY <1>15, <3>1, <3>4 DEF publish, Phases, Consuming, AllSetUp, Parking
    <3>5. CASE ChannelGone
      <4>1. wire' = wire
        BY <3>1, <3>5 DEF Send, ChannelGone
      <4> QED BY <1>15, <3>1, <3>5, <4>1 DEF publish, Phases, ChannelGone, AllSetUp, Parking
    <3> QED BY <3>2, <3>3, <3>4, <3>5
  <2>2. CASE ~Usable
    <3>1. /\ wire' = wire
          /\ \/ Connecting \/ OpeningChannel \/ NeverOpened
             \/ ChannelGone /\ ~isAmqpChannelReady
      BY <1>15, <2>2 DEF publish, Usable, Phases, Down, SettingQueuesUp, Consuming, ChannelGone
    <3> QED BY <1>15, <2>2, <3>1 DEF publish, Phases, Connecting, OpeningChannel, NeverOpened, ChannelGone, NoSetup, AllSetUp, Parking
  <2> QED BY <2>1, <2>2
<1>16. ASSUME BrokerRead PROVE Phases'
  <2>1. SettingQueuesUp \/ Consuming
    BY <1>16 DEF BrokerRead, Phases, Down, Connecting, OpeningChannel, NeverOpened, ChannelGone
  <2>2. Range(wire) = Range(wire') \union {Head(wire)}
    BY <1>16, RangeOfTail DEF BrokerRead, TypeOK
  <2>3. (queueDeclared => queueDeclared') /\ (Head(wire) = Declare => queueDeclared')
    BY <1>16 DEF BrokerRead
  <2>4. CASE SettingQueuesUp
    <3>1. SettingQueuesUp'
      BY <1>16, <2>2, <2>3, <2>4 DEF BrokerRead, SettingQueuesUp, Parking
    <3> QED BY <3>1 DEF Phases
  <2>5. CASE Consuming
    <3>1. Consuming'
      BY <1>16, <2>3, <2>5 DEF BrokerRead, Consuming, AllSetUp, Parking
    <3> QED BY <3>1 DEF Phases
  <2> QED BY <2>1, <2>4, <2>5
<1>17. ASSUME UNCHANGED vars PROVE Phases'
  BY <1>17 DEF vars, Phases, Down, Connecting, OpeningChannel, SettingQueuesUp, Consuming, NeverOpened, ChannelGone, NoSetup, AllSetUp, Parking
<1> QED BY <1>1, <1>2, <1>3, <1>4, <1>5, <1>6, <1>7, <1>8, <1>9, <1>10, <1>11,
           <1>12, <1>13, <1>14, <1>15, <1>16, <1>17 DEF Next

-----------------------------------------------------------------------------
(* The invariants.                                                         *)

(* Initially the process is down.                                          *)
LEMMA PhaseInit == Init => Phases
BY DEF Init, Phases, Down, NoSetup, Parking, Idle, Stage

(* The inductive invariant holds in every reachable state.                 *)
THEOREM Inductive == Spec => []IInv
<1>1. Init => IInv
  BY TypeInit, PhaseInit DEF IInv
<1>2. IInv /\ [Next]_vars => IInv'
  BY TypeStep, PhaseStep DEF IInv
<1> QED BY <1>1, <1>2, PTL DEF Spec

(* Handles, flags and activations are always in one of the seven phases.   *)
THEOREM PhasesCorrect == Spec => []Phases
BY Inductive, PTL DEF IInv

(* No two activations drive the set-up at once.                            *)
THEOREM SingleDriverCorrect == Spec => []SingleDriver
<1>1. IInv => SingleDriver
  BY DEF IInv, Phases, Down, Connecting, OpeningChannel, SettingQueuesUp,
         Consuming, NeverOpened, ChannelGone, Parking, SingleDriver
<1> QED BY <1>1, Inductive, PTL

(* However many connections fail, two activations is the most there are.   *)
THEOREM BoundedRetriesCorrect == Spec => []BoundedRetries
<1>1. IInv => BoundedRetries
  <2> SUFFICES ASSUME IInv PROVE BoundedRetries
    OBVIOUS
  <2>1. activations["sleep"] \in Nat /\ activations["channel"] \in Nat
    BY DEF IInv, TypeOK, Stage
  <2> QED BY <2>1 DEF IInv, Phases, Down, Connecting, OpeningChannel,
             SettingQueuesUp, Consuming, NeverOpened, ChannelGone, Parking,
             BoundedRetries
<1> QED BY <1>1, Inductive, PTL

(* The ready flag never says more than the channel holds, but for a        *)
(* connection that ended in silence.                                       *)
THEOREM ReadyMeansOpenCorrect == Spec => []ReadyMeansOpen
<1>1. IInv => ReadyMeansOpen
  BY DEF IInv, Phases, Down, Connecting, OpeningChannel, SettingQueuesUp,
         Consuming, NeverOpened, ChannelGone, NoSetup, ReadyMeansOpen
<1> QED BY <1>1, Inductive, PTL

(* A usable channel with requests aside is one that is being set up.       *)
LEMMA PhasesStrandNothing == IInv => NothingStranded
BY DEF IInv, Phases, Down, Connecting, OpeningChannel, SettingQueuesUp,
       Consuming, NeverOpened, ChannelGone, NoSetup, Parking,
       NothingStranded, Usable, SettingUp

(* No request waits in the array beside a usable channel with nobody on    *)
(* the way to re-drive it.                                                 *)
THEOREM NothingStrandedCorrect == Spec => []NothingStranded
BY PhasesStrandNothing, Inductive, PTL

(* Consumers are registered on queues the broker has.                      *)
THEOREM SetupOrderCorrect == Spec => []SetupOrder
<1>1. IInv => SetupOrder
  BY DEF IInv, Phases, Down, Connecting, OpeningChannel, SettingQueuesUp,
         Consuming, NeverOpened, ChannelGone, NoSetup, AllSetUp, Flag,
         SetupOrder
<1> QED BY <1>1, Inductive, PTL

(* A handle that is lost stays lost until the process restarts: the only   *)
(* steps that assign the handles of a running process start from an open   *)
(* or an undefined one.                                                    *)
THEOREM LossIsFinalCorrect == Spec => LossIsFinal
<1> DEFINE Step == /\ amqpConnection = "closed" /\ up' => amqpConnection' = "closed"
                   /\ amqpChannel = "closed" /\ up' => amqpChannel' = "closed"
<1>1. IInv /\ [Next]_vars => [Step]_vars
  <2> SUFFICES ASSUME IInv, Next PROVE Step
    OBVIOUS
  <2> USE DEF process, fields, setup, broker
  <2>1. CASE Start
    BY <2>1 DEF Start
  <2>2. CASE NestReady
    BY <2>2 DEF NestReady
  <2>3. CASE Crash \/ SetupRejected
    BY <2>3 DEF Crash, SetupRejected, Die
  <2>4. CASE ConnectOk \/ ConnectFail
    <3>1. Connecting
      BY <2>4 DEF ConnectOk, ConnectFail, Parked, IInv, Phases, Down, Connecting,
                  OpeningChannel, SettingQueuesUp, Consuming, NeverOpened,
                  ChannelGone, Parking
    <3> QED BY <3>1 DEF Connecting
  <2>5. CASE WakeUp \/ ChannelRejected \/ ExchangeOk \/ QueuesOk \/ BrokerRead
    BY <2>5 DEF WakeUp, ChannelRejected, ExchangeOk, QueuesOk, BrokerRead
  <2>6. CASE ChannelOk
    <3>1. OpeningChannel
      BY <2>6 DEF ChannelOk, Parked, IInv, Phases, Down, Connecting,
                  SettingQueuesUp, Consuming, NeverOpened, ChannelGone, Parking
    <3> QED BY <2>6, <3>1 DEF ChannelOk, OpeningChannel
  <2>7. CASE ConnectionError \/ ConnectionClosed \/ ChannelError
    BY <2>7 DEF ConnectionError, ConnectionClosed, ChannelError
  <2>8. CASE \E m \in Message : publish(m)
    BY <2>8 DEF publish
  <2> QED BY <2>1, <2>2, <2>3, <2>4, <2>5, <2>6, <2>7, <2>8 DEF Next
<1> QED BY <1>1, Inductive, PTL DEF Spec, LossIsFinal

(* A process that lost nothing either consumes or has an activation on its *)
(* way to that.                                                            *)
THEOREM SomebodyDrivesCorrect == Spec => []SomebodyDrives
<1>1. IInv => SomebodyDrives
  <2> SUFFICES ASSUME IInv, up, ~Lost
               PROVE  "consumer" \in setupDone <=> \A s \in Stage : activations[s] = 0
    BY DEF SomebodyDrives
  <2>1. Connecting \/ OpeningChannel \/ SettingQueuesUp \/ Consuming
    BY DEF IInv, Phases, Down, NeverOpened, ChannelGone, Lost
  <2>2. CASE Consuming
    BY <2>2 DEF Consuming, AllSetUp, Flag, Parking, Stage
  <2>3. CASE Connecting \/ OpeningChannel \/ SettingQueuesUp
    <3>1. "consumer" \notin setupDone
      BY <2>3 DEF Connecting, OpeningChannel, SettingQueuesUp, NoSetup
    <3>2. \E s \in Stage : activations[s] = 1
      BY <2>3 DEF Connecting, OpeningChannel, SettingQueuesUp, Parking, Stage
    <3> QED BY <3>1, <3>2
  <2> QED BY <2>1, <2>2, <2>3
<1> QED BY <1>1, Inductive, PTL

-----------------------------------------------------------------------------
(* Losses.                                                                 *)

(* A message is refused only by a channel whose ready flag lies.           *)
LEMMA RefusalsExplained ==
  ASSUME IInv, Usable, NEW messages, Send(messages), NEW m \in Message
  PROVE  Explained(m)
<1>1. ASSUME NEW r, Newly(m, r) PROVE r = "refused" /\ amqpChannel # "open"
  BY <1>1 DEF Send, Because, Newly
<1>2. amqpChannel # "open" => ChannelGone
  BY DEF Usable, IInv, Phases, Down, Connecting, OpeningChannel,
         SettingQueuesUp, Consuming, NeverOpened, NoSetup
<1> QED BY <1>1, <1>2 DEF ChannelGone, Usable, Explained

(* What a process takes with it when it ends was on the wire, or in the    *)
(* array of a process that did not consume.                                *)
LEMMA EndExplained ==
  ASSUME IInv, up, Die, NEW m \in Message
  PROVE  Explained(m)
<1>1. ASSUME NEW r, Newly(m, r) PROVE r \in {"severed", "forgotten"} /\ ~up'
  BY <1>1 DEF Die, Because, Newly
<1>2. ASSUME Newly(m, "forgotten")
      PROVE  Lost \/ "consumer" \notin setupDone
  <2>1. pendingRabbitRequests # <<>>
    BY <1>2 DEF Die, Because, Range, Newly
  <2>2. ~Consuming
    BY <2>1 DEF Consuming
  <2> QED BY <2>2 DEF IInv, Phases, Down, Connecting, OpeningChannel,
             SettingQueuesUp, NeverOpened, ChannelGone, NoSetup, Lost
<1> QED BY <1>1, <1>2 DEF Explained

(* A connection is lost with frames on it only while it is consumed on.    *)
LEMMA SeverExplained ==
  ASSUME IInv, ConnectionError \/ ConnectionClosed \/ ChannelError, NEW m \in Message
  PROVE  Explained(m)
<1>1. Sever /\ Lost' /\ ~SettingUp /\ UNCHANGED setupDone
  BY DEF ConnectionError, ConnectionClosed, ChannelError, Lost, setup
<1>2. ASSUME NEW r, Newly(m, r) PROVE r = "severed" /\ wire # <<>>
  BY <1>1, <1>2 DEF Sever, Because, Range, Newly
<1>3. wire # <<>> => Consuming
  BY <1>1 DEF SettingUp, Parking, IInv, Phases, Down, Connecting, OpeningChannel,
              SettingQueuesUp, NeverOpened, ChannelGone
<1> QED BY <1>1, <1>2, <1>3 DEF Consuming, AllSetUp, Flag, Explained

(* The broker drops a message only before it has the queues.               *)
LEMMA DropExplained ==
  ASSUME IInv, BrokerRead, NEW m \in Message
  PROVE  Explained(m)
<1>1. ASSUME NEW r, Newly(m, r) PROVE r = "unroutable" /\ wire # <<>> /\ ~queueDeclared
  BY <1>1 DEF BrokerRead, Because, Newly
<1>2. wire # <<>> /\ ~queueDeclared => SettingQueuesUp
  BY DEF IInv, Phases, Down, Connecting, OpeningChannel, Consuming, NeverOpened,
         ChannelGone, AllSetUp
<1> QED BY <1>1, <1>2 DEF SettingQueuesUp, Parking, SettingUp, Lost, Explained

(* Every step explains what it loses.                                      *)
LEMMA ExplainedStep ==
  ASSUME IInv, [Next]_vars, NEW m \in Message
  PROVE  Explained(m)
<1>1. lost' = lost => Explained(m)
  BY DEF Explained, Newly
<1>2. CASE Crash \/ SetupRejected
  BY <1>2, EndExplained DEF Crash, SetupRejected
<1>3. CASE ConnectionError \/ ConnectionClosed \/ ChannelError
  BY <1>3, SeverExplained
<1>4. CASE WakeUp \/ QueuesOk \/ \E n \in Message : publish(n)
  BY <1>1, <1>4, RefusalsExplained DEF WakeUp, QueuesOk, publish, reDrivePendingRabbitRequests
<1>5. CASE BrokerRead
  BY <1>5, DropExplained
<1>6. CASE \/ Start \/ NestReady \/ ConnectOk \/ ConnectFail
           \/ ChannelOk \/ ChannelRejected \/ ExchangeOk \/ UNCHANGED vars
  BY <1>1, <1>6 DEF Start, NestReady, ConnectOk, ConnectFail, ChannelOk,
                    ChannelRejected, ExchangeOk, vars
<1> QED BY <1>2, <1>3, <1>4, <1>5, <1>6 DEF Next

(* No message is lost without the one cause its reason names.              *)
THEOREM LossesExplainedCorrect == Spec => LossesExplained
<1>1. IInv /\ [Next]_vars => [\A m \in Message : Explained(m)]_vars
  BY ExplainedStep
<1> QED BY <1>1, Inductive, PTL DEF Spec, LossesExplained
=============================================================================
