------------------------- MODULE WebhookPromiseProofs -------------------------
(***************************************************************************)
(* BuyerWebhooks implements WebhookPromise, for every set of messages and  *)
(* every bound.  What becomes of one message is known from the ledger of   *)
(* the service, which only moves forward, and from the consumers, who      *)
(* leave alone what is settled.                                            *)
(***************************************************************************)
EXTENDS BuyerWebhooksProofs

Ended(m)   == place[m] \in {"acked", "dead"}
Dropped(m) == place[m] = "dropped"

(* A message that is not published has not reached the consumers, and one  *)
(* that has is not lost.                                                   *)
LEMMA WithConsumers ==
  ASSUME WInv, NEW m \in Message
  PROVE  place[m] # "unpublished" => m \in published /\ ~Gone(m)
BY DEF WInv, Arrived, Accounted, OnePlace, Queued

(* Whoever works on a message or has a frame about it on its way finds it  *)
(* not settled.                                                            *)
LEMMA WorkersMatch ==
  ASSUME Proved!IInv, NEW m \in Message
  PROVE  /\ handler[m] \in Consumer!Frame => place[m] \in {"unacked", "dropped"}
         /\ Consumer!Running(m) => place[m] \in {"unacked", "dropped", "ready"}
BY DEF Proved!IInv, Proved!TypeOK, Proved!HandlersMatchDeliveries, Proved!Budget,
       Proved!Working, Proved!Running, Proved!Frame, Consumer!Frame, Consumer!Running

(* Nothing moves a message that is settled or dropped.                     *)
LEMMA ConsumersMove ==
  ASSUME Proved!IInv, [Consumer!Next]_(Consumer!vars), NEW k \in Message
  PROVE  /\ Ended(k)   => Ended(k)'
         /\ Dropped(k) => Dropped(k)'
<1> DEFINE Good == (Ended(k) => Ended(k)') /\ (Dropped(k) => Dropped(k)')
<1> USE Parts DEF Ended, Dropped
<1>1. ASSUME NEW m \in Message,
             \/ \E o \in {{}} : Consumer!publish(m, o)
             \/ Consumer!Deliver(m) \/ Consumer!CallGateway(m)
             \/ Consumer!Return(m) \/ Consumer!Throw(m)
      PROVE  Good
  BY <1>1 DEF Consumer!publish, Consumer!Deliver, Consumer!CallGateway,
     Consumer!Return, Consumer!Throw, Consumer!delivery
<1>2. ASSUME NEW m \in Message, Consumer!Settle(m) PROVE Good
  <2>1. CASE m = k
    BY <1>2, <2>1, WorkersMatch DEF Consumer!Settle, Consumer!delivery, Consumer!Frame
  <2>2. CASE m # k
    BY <1>2, <2>2 DEF Consumer!Settle, Consumer!delivery
  <2> QED BY <2>1, <2>2
<1>3. ASSUME \/ \E m \in Message : Consumer!EndTooLate(m)
             \/ Consumer!LoseChannel \/ Consumer!Crash
      PROVE  Good
  BY <1>3 DEF Consumer!EndTooLate, Consumer!LoseChannel, Consumer!Crash, Consumer!Stop,
     Consumer!TakeBack
<1>4. ASSUME \/ Consumer!DeclareQueues \/ UNCHANGED Consumer!vars
             \/ \E r \in {"prototype", "instance"} : Consumer!Restart(r)
             \/ \E q \in Consumer!Queue : Consumer!Cancel(q)
      PROVE  Good
  BY <1>4 DEF Consumer!DeclareQueues, Consumer!Restart, Consumer!Cancel, Consumer!vars,
     Consumer!delivery
<1> QED BY <1>1, <1>2, <1>3, <1>4 DEF Consumer!Next, Consumer!Step

-----------------------------------------------------------------------------
(* The steps.                                                              *)

Fated == [m \in Message |-> FateOf(m)]

(* A hook accepts a webhook, whatever becomes of its message.              *)
LEMMA HookAccepts ==
  ASSUME WInv, NEW m \in Message, Hook(m)
  PROVE  Promise!Accept(m)
<1>1. /\ publish(m) /\ place' = place /\ answers' = answers
      /\ m \notin published /\ published' = published \union {m}
  BY DEF Hook, Alone, publish, consumption
<1>2. place[m] = "unpublished"
  BY <1>1, WithConsumers
<1>3. ASSUME NEW n \in Message, n # m PROVE Gone(n)' <=> Gone(n)
  <2>1. Range(<<m>>) = {m}
    BY OnceSingle DEF Frames
  <2>2. lost' \in {lost, lost \union {<<m, "refused">>}}
    BY <1>1, <2>1 DEF publish, Send, Because
  <2> QED BY <1>3, <2>2 DEF Gone
<1>4. ASSUME NEW n \in Message, n # m PROVE FateOf(n)' = FateOf(n)
  <2>1. place'[n] = place[n] /\ (n \in published' <=> n \in published)
    BY <1>1, <1>4
  <2>2. (\E r \in Reason : <<n, r>> \in lost)' <=> \E r \in Reason : <<n, r>> \in lost
    BY <1>3, <1>4 DEF Gone
  <2> QED BY <2>1, <2>2 DEF FateOf
<1>5. FateOf(m) = "none" /\ FateOf(m)' \in {"accepted", "gone"}
  BY <1>1, <1>2 DEF FateOf
<1> QED BY <1>1, <1>4, <1>5 DEF Promise!Accept, Promise!Become

(* A handler answers a webhook that is not settled.                        *)
LEMMA PostAnswers ==
  ASSUME WInv, NEW m \in Message, Post(m)
  PROVE  Promise!Answer(m)
<1>1. /\ Consumer!Running(m) /\ UNCHANGED <<published, lost, place>>
      /\ answers' = [answers EXCEPT ![m] = @ + 1]
  BY DEF Post, Consumer!CallGateway, Consumer!Running, Consumer!delivery, vars, broker
<1>2. place[m] \in {"unacked", "dropped", "ready"}
  BY <1>1, WorkersMatch DEF WInv
<1>3. FateOf(m) \in {"accepted", "gone"}
  BY <1>2, WithConsumers DEF FateOf
<1>4. \A n \in Message : FateOf(n)' = FateOf(n)
  BY <1>1 DEF FateOf
<1> QED BY <1>1, <1>3, <1>4 DEF Promise!Answer

(* A frame settles its webhook, gives it back, or comes too late.          *)
LEMMA FrameSettles ==
  ASSUME WInv, NEW m \in Message, Settle(m)
  PROVE  [Promise!Next]_<<Fated, answers>>
<1>1. Consumer!Settle(m) /\ UNCHANGED <<published, lost, answers>>
  BY DEF Settle, Consumer!Settle, Consumer!history, vars, broker
<1>2. place[m] \in {"unacked", "dropped"} /\ handler[m] \in {"ack", "nack", "reject"}
  BY <1>1, WorkersMatch DEF WInv, Consumer!Settle, Consumer!Frame
<1>3. ASSUME NEW n \in Message, n # m PROVE FateOf(n)' = FateOf(n)
  BY <1>1, <1>3, Parts DEF Consumer!Settle, Consumer!delivery, FateOf, WInv
<1>4. CASE place[m] = "dropped" \/ handler[m] = "nack"
  <2>1. FateOf(m)' = FateOf(m)
    BY <1>1, <1>2, <1>4, Parts DEF Consumer!Settle, Consumer!delivery, FateOf, WInv
  <2> QED BY <1>1, <1>3, <2>1 DEF Fated
<1>5. CASE place[m] = "unacked" /\ handler[m] \in {"ack", "reject"}
  <2>1. place'[m] \in {"acked", "dead"}
    BY <1>1, <1>5, Parts DEF Consumer!Settle, WInv
  <2>2. FateOf(m) = "accepted" /\ FateOf(m)' = "settled"
    BY <1>1, <1>5, <2>1, WithConsumers DEF FateOf, Gone
  <2>3. Promise!Settle(m)
    BY <1>1, <1>3, <2>2 DEF Promise!Settle, Promise!Become
  <2> QED BY <2>3 DEF Promise!Next
<1> QED BY <1>2, <1>4, <1>5

(* Every other step leaves a webhook its fate, or loses it.                *)
LEMMA OthersLose ==
  ASSUME WInv, WInv', [WebhookNext]_webhookVars,
         \A m \in Message : ~Hook(m) /\ ~Post(m) /\ ~Settle(m)
  PROVE  [Promise!Next]_<<Fated, answers>>
<1>1. [Next]_vars /\ [Consumer!Next]_(Consumer!vars)
  BY ServiceStep, ConsumerStep DEF WInv, IInv
<1>2. published' = published
  BY DEF WebhookNext, Connect, Register, Lose, ProcessEnds, Route, Deliver, EndHandler,
     HandlerEndsLate, CancelConsumer, Alone, webhookVars, vars, broker, Start, NestReady,
     ConnectOk, ConnectFail, WakeUp, ChannelOk, ChannelRejected, ExchangeOk, QueuesOk,
     ConnectionError, ConnectionClosed, ChannelError, Crash, SetupRejected, Die, BrokerRead
<1>3. answers' = answers
  BY DEF WebhookNext, Connect, Register, Lose, ProcessEnds, Route, Deliver, EndHandler,
     HandlerEndsLate, CancelConsumer, Alone, webhookVars, consumption,
     Consumer!Restart, Consumer!LoseChannel, Consumer!Crash, Consumer!Stop,
     Consumer!DeclareQueues, Consumer!publish, Consumer!Deliver, Consumer!Return,
     Consumer!Throw, Consumer!EndTooLate, Consumer!Cancel, Consumer!history
<1>4. ASSUME NEW k \in Message, Ended(k)' PROVE Ended(k)
  <2>1. CASE Connect \/ Register \/ \E m \in Message : Deliver(m) \/ EndHandler(m)
    BY <1>4, <2>1, Parts
    DEF Connect, Register, Deliver, EndHandler, Alone, consumption, Consumer!Restart,
        Consumer!Deliver, Consumer!Return, Consumer!Throw, Consumer!delivery, Ended, WInv
  <2>2. CASE Lose \/ ProcessEnds \/ \E m \in Message : HandlerEndsLate(m)
    BY <1>4, <2>2
    DEF Lose, ProcessEnds, HandlerEndsLate, consumption, Consumer!LoseChannel,
        Consumer!Crash, Consumer!EndTooLate, Consumer!Stop, Consumer!TakeBack, Ended
  <2>3. CASE Route \/ (\E q \in Consumer!Queue : CancelConsumer(q)) \/ UNCHANGED webhookVars
    BY <1>4, <2>3, Parts
    DEF Route, CancelConsumer, webhookVars, consumption, Consumer!DeclareQueues,
        Consumer!publish, Consumer!Cancel, Consumer!delivery, Ended, WInv
  <2> QED BY <2>1, <2>2, <2>3 DEF WebhookNext
<1>5. ASSUME NEW k \in Message, FateOf(k)' # FateOf(k)
      PROVE  FateOf(k) = "accepted" /\ FateOf(k)' = "gone"
  <2>1. Gone(k) => Gone(k)'
    BY <1>1, AccountedStep DEF WInv, IInv, LInv, Goal, Forward
  <2>2. (Ended(k) => Ended(k)') /\ (Dropped(k) => Dropped(k)') /\ (Ended(k)' => Ended(k))
    BY <1>1, <1>4, ConsumersMove DEF WInv
  <2>3. Ended(k) => ~Gone(k) /\ ~Gone(k)'
    <3>1. Ended(k) => ~Gone(k)
      BY WithConsumers DEF Ended
    <3>2. Ended(k)' => ~Gone(k)'
      BY DEF WInv, Arrived, Accounted, OnePlace, Queued, Ended
    <3> QED BY <2>2, <3>1, <3>2
  <2>4. k \in published' <=> k \in published
    BY <1>2
  <2> QED BY <1>5, <2>1, <2>2, <2>3, <2>4 DEF FateOf, Ended, Dropped, Gone
<1> DEFINE W == {m \in Message : FateOf(m)' # FateOf(m)}
<1>6. Fated' = [m \in Message |-> IF m \in W THEN "gone" ELSE Fated[m]]
  BY <1>5 DEF Fated
<1>7. Promise!Vanish(W)
  BY <1>3, <1>5, <1>6 DEF Promise!Vanish, Fated
<1> QED BY <1>7 DEF Promise!Next

-----------------------------------------------------------------------------
(* The composition implements the promise: what was accepted is settled or *)
(* gone once and for all, and nothing settled is answered again.           *)
THEOREM ImplementsPromiseCorrect == WebhookSpec => ImplementsPromise
<1>1. WebhookInit => Promise!Init
  BY DEF WebhookInit, Init, Consumer!Init, Promise!Init, FateOf
<1>2. ASSUME WInv, WInv', [WebhookNext]_webhookVars
      PROVE  [Promise!Next]_<<Fated, answers>>
  <2>1. CASE \E m \in Message : Hook(m)
    BY <1>2, <2>1, HookAccepts DEF Promise!Next
  <2>2. CASE \E m \in Message : Post(m)
    BY <1>2, <2>2, PostAnswers DEF Promise!Next
  <2>3. CASE \E m \in Message : Settle(m)
    BY <1>2, <2>3, FrameSettles
  <2>4. CASE \A m \in Message : ~Hook(m) /\ ~Post(m) /\ ~Settle(m)
    BY <1>2, <2>4, OthersLose
  <2> QED BY <2>1, <2>2, <2>3, <2>4
<1> QED BY <1>1, <1>2, WebhookInductive, PTL
        DEF WebhookSpec, ImplementsPromise, Promise!Spec, Fated
===============================================================================
