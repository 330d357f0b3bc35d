------------------------- MODULE RabbitConsumerProofs -------------------------
(***************************************************************************)
(* Proofs about RabbitConsumer, for every set of messages and queues and   *)
(* whatever the bounds are.  The properties count failures, answers and    *)
(* losses over a whole run; what a step preserves are the budgets below,   *)
(* which say for each state of a handler how much of them is used up.      *)
(***************************************************************************)
EXTENDS RabbitConsumer, Integers, TLAPS

(* A handler has a message of its own: one that waits for its frame, or    *)
(* that went with its queue, or that a lost channel gave back.             *)
Working(m) ==
  /\ place[m] = "unpublished" =>
       handler[m] = "idle" /\ deliveryCount[m] = 0 /\ header[m] = {}
  /\ channel = "closed" /\ Running(m) => place[m] \in {"ready", "dropped"}

(* A nack on its way is a delivery to come: it fits in what the header     *)
(* allows and is paid for by a failure or a loss.                          *)
Retrying(m)  == IF handler[m] = "nack" THEN 1 ELSE 0
Failing(m)   == IF handler[m] \in {"nack", "reject"} THEN 1 ELSE 0

Attempts(m) ==
  /\ \A n \in header[m] : deliveryCount[m] + Retrying(m) <= (n - 1) + losses
  /\ deliveryCount[m] + Failing(m) <= failures[m] + losses

GivingUp(m) ==
  /\ handler[m] = "reject" =>
       failures[m] >= 1 /\ \E n \in header[m] : deliveryCount[m] + 1 >= n
  /\ place[m] = "dead" =>
       failures[m] >= 1 /\ \E n \in header[m] : failures[m] + losses >= n

(* A message has used up its own answer when its handler gave it or when   *)
(* it is out of the queue; every other answer is paid for by a loss.       *)
Spent(m) ==
  \/ handler[m] \in {"answered", "ack"}
  \/ place[m] \in {"acked", "dropped"} /\ handler[m] # "running"

Answering(m) ==
  /\ answers[m] <= losses + (IF Spent(m) THEN 1 ELSE 0)
  /\ channel = "closed" /\ place[m] = "ready" =>
       answers[m] + (IF handler[m] = "running" THEN 1 ELSE 0) <= losses
  /\ handler[m] = "answered" => answers[m] >= 1
  /\ m \notin Searches \union Selects /\ (handler[m] = "ack" \/ place[m] = "acked")
       => answers[m] >= 1

Budget == \A m \in Message :
            Working(m) /\ Attempts(m) /\ GivingUp(m) /\ Answering(m)

(* HandlersMatchDeliveries, message by message.                            *)
Matching(m) ==
  /\ channel = "open" =>
       /\ place[m] = "unacked" => handler[m] # "idle"
       /\ handler[m] # "idle" => place[m] \in {"unacked", "dropped"}
  /\ channel = "closed" => handler[m] \notin Frame /\ place[m] # "unacked"
  /\ channel = "none" => handler[m] = "idle" /\ place[m] # "unacked"

IInv == TypeOK /\ HandlersMatchDeliveries /\ Budget

-----------------------------------------------------------------------------
(* Types.                                                                  *)

(* What publishers pass becomes a header of the type.                      *)
LEMMA HeaderType ==
  ASSUME NEW o \in Options
  PROVE  MaxRetriesHeader(o) \in {{}} \union {{n} : n \in 1..5}
<1>1. o = {} \/ \E n \in 0..5 : o = {n}
  BY OptionAssumption
<1>2. CASE o \subseteq {0}
  BY <1>2 DEF MaxRetriesHeader
<1>3. CASE ~(o \subseteq {0})
  BY <1>1, <1>3 DEF MaxRetriesHeader
<1> QED BY <1>2, <1>3

(* Every variable has its type in the initial state.                       *)
LEMMA TypeInit == Init => TypeOK
BY BoundAssumption DEF Init, TypeOK, Place, Handler

(* What TakeBack leaves has the types of what it took.                     *)
LEMMA TakeBackType ==
  TypeOK /\ TakeBack => place' \in [Message -> Place] /\ deliveryCount' \in [Message -> Nat]
BY DEF TypeOK, TakeBack, Place

(* Every step preserves the types.                                         *)
LEMMA TypeStep == TypeOK /\ [Next]_vars => TypeOK'
<1> SUFFICES ASSUME TypeOK, [Next]_vars PROVE TypeOK'
  OBVIOUS
<1> USE DEF TypeOK
<1>1. ASSUME NEW m \in Message, NEW o \in Options, publish(m, o) PROVE TypeOK'
  <2>1. (IF m \in Foreign THEN {} ELSE MaxRetriesHeader(o)) \in {{}} \union {{n} : n \in 1..5}
    BY HeaderType
  <2>2. header' \in [Message -> {{}} \union {{n} : n \in 1..5}]
    BY <1>1, <2>1 DEF publish
  <2>3. place' \in [Message -> Place]
    BY <1>1 DEF publish, Place
  <2> QED BY <1>1, <2>2, <2>3 DEF publish, connection, bounds
<1>2. ASSUME NEW m \in Message, Deliver(m) PROVE TypeOK'
  BY <1>2 DEF Deliver, Place, Handler, connection, history, bounds
<1>3. ASSUME NEW m \in Message, CallGateway(m) PROVE TypeOK'
  BY <1>3 DEF CallGateway, Handler, connection, delivery, bounds
<1>4. ASSUME NEW m \in Message, Return(m) PROVE TypeOK'
  BY <1>4 DEF Return, Handler, Frame, connection, delivery, history, bounds
<1>5. ASSUME NEW m \in Message, Throw(m) PROVE TypeOK'
  BY <1>5 DEF Throw, Handler, Frame, connection, delivery, bounds
<1>6. ASSUME NEW m \in Message, Settle(m) PROVE TypeOK'
  <2>1. place' \in [Message -> Place] /\ deliveryCount' \in [Message -> Nat]
    BY <1>6 DEF Settle, Frame, Place, delivery
  <2>2. handler' \in [Message -> Handler]
    BY <1>6 DEF Settle, Handler
  <2> QED BY <1>6, <2>1, <2>2 DEF Settle, connection, history, bounds
<1>7. ASSUME Stop PROVE /\ channel' \in {"none", "open", "closed"}
                        /\ router' \in {"undefined", "prototype", "instance"}
                        /\ deleted' \subseteq Queue
                        /\ place' \in [Message -> Place]
                        /\ header' \in [Message -> {{}} \union {{n} : n \in 1..5}]
                        /\ deliveryCount' \in [Message -> Nat]
                        /\ handler' \in [Message -> Handler]
                        /\ failures' \in [Message -> Nat] /\ answers' \in [Message -> Nat]
                        /\ deletions' \in 0..MaxDeletions
  BY <1>7, TakeBackType DEF Stop, Handler, history
<1>8. ASSUME NEW m \in Message, EndTooLate(m) PROVE TypeOK'
  BY <1>7, <1>8 DEF EndTooLate
<1>9. CASE Crash
  BY <1>7, <1>9, BoundAssumption DEF Crash
<1>10. CASE LoseChannel
  <2>1. handler' \in [Message -> Handler]
    BY <1>10 DEF LoseChannel, Handler
  <2> QED BY <1>10, <2>1, TakeBackType, BoundAssumption DEF LoseChannel, history
<1>11. ASSUME NEW r \in {"prototype", "instance"}, Restart(r) PROVE TypeOK'
  BY <1>11 DEF Restart, delivery, history, bounds
<1>12. ASSUME NEW q \in Queue, Cancel(q) PROVE TypeOK'
  <2>1. place' \in [Message -> Place]
    BY <1>12 DEF Cancel, Place
  <2> QED BY <1>12, <2>1, BoundAssumption DEF Cancel, Delete, history
<1>13. CASE DeclareQueues
  BY <1>13 DEF DeclareQueues, delivery, history, bounds
<1>14. CASE UNCHANGED vars
  BY <1>14 DEF vars, connection, delivery, history, bounds
<1> QED BY <1>1, <1>2, <1>3, <1>4, <1>5, <1>6, <1>8, <1>9, <1>10, <1>11, <1>12,
           <1>13, <1>14 DEF Next, Step

(* Every variable holds a value of its type.                               *)
THEOREM TypeCorrect == Spec => []TypeOK
BY TypeInit, TypeStep, PTL DEF Spec

-----------------------------------------------------------------------------
(* Budgets.                                                                *)

Sound(m) == Matching(m) /\ Working(m) /\ Attempts(m) /\ GivingUp(m) /\ Answering(m)

LEMMA SoundMessages == IInv <=> TypeOK /\ \A m \in Message : Sound(m)
BY DEF IInv, HandlersMatchDeliveries, Budget, Sound, Matching

(* What the types say of one message.                                      *)
LEMMA MessageTypes ==
  ASSUME TypeOK, NEW m \in Message
  PROVE  /\ place[m] \in Place /\ handler[m] \in Handler
         /\ deliveryCount[m] \in Nat /\ failures[m] \in Nat
         /\ answers[m] \in Nat /\ losses \in Nat
         /\ \A n \in header[m] : n \in 1..5
         /\ channel \in {"none", "open", "closed"}
<1>1. header[m] \in {{}} \union {{n} : n \in 1..5}
  BY DEF TypeOK
<1> QED BY <1>1, BoundAssumption DEF TypeOK

(* Nothing is used up at first.                                            *)
LEMMA SoundInit == Init => \A m \in Message : Sound(m)
<1> SUFFICES ASSUME Init, NEW m \in Message PROVE Sound(m)
  OBVIOUS
<1>1. /\ channel = "none" /\ losses = 0
      /\ place[m] = "unpublished" /\ handler[m] = "idle" /\ header[m] = {}
      /\ deliveryCount[m] = 0 /\ failures[m] = 0 /\ answers[m] = 0
  BY DEF Init
<1> QED BY <1>1 DEF Sound, Matching, Working, Attempts, GivingUp, Answering, Retrying,
                    Failing, Spent, Running, Frame

(* A step that leaves a message, the channel and the losses alone leaves   *)
(* its budgets alone.                                                      *)
Untouched(m) ==
  /\ channel' = channel /\ losses' = losses
  /\ place'[m] = place[m] /\ handler'[m] = handler[m] /\ header'[m] = header[m]
  /\ deliveryCount'[m] = deliveryCount[m]
  /\ failures'[m] = failures[m] /\ answers'[m] = answers[m]

LEMMA UntouchedSound ==
  ASSUME NEW m \in Message, Sound(m), Untouched(m)
  PROVE  Sound(m)'
BY DEF Sound, Untouched, Matching, Working, Attempts, GivingUp, Answering, Retrying,
       Failing, Spent, Running, Searches, Selects

(* Every step keeps within the budgets.                                    *)
LEMMA SoundStep ==
  ASSUME TypeOK, TypeOK', [Next]_vars, NEW k \in Message, Sound(k)
  PROVE  Sound(k)'
<1> USE DEF Sound, Matching, Working, Attempts, GivingUp, Answering, Retrying, Failing,
            Spent, Running, Frame
<1>1. ASSUME NEW m \in Message, NEW o \in Options, publish(m, o) PROVE Sound(k)'
  <2>1. CASE k = m
    <3>0. header'[k] \in {{}} \union {{n} : n \in 1..5}
      BY DEF TypeOK
    <3>1. \A n \in header'[k] : n \in 1..5
      BY <3>0
    <3> QED BY <1>1, <2>1, <3>1, MessageTypes
            DEF publish, TypeOK, connection, bounds, Searches, Selects
  <2>2. CASE k # m
    BY <1>1, <2>2, UntouchedSound DEF publish, TypeOK, connection, bounds, Untouched
  <2> QED BY <2>1, <2>2
<1>2. ASSUME NEW m \in Message, Deliver(m) PROVE Sound(k)'
  <2>1. CASE k = m
    BY <1>2, <2>1, MessageTypes DEF Deliver, TypeOK, connection, history, bounds, Searches, Selects
  <2>2. CASE k # m
    BY <1>2, <2>2, UntouchedSound DEF Deliver, TypeOK, connection, history, bounds, Untouched
  <2> QED BY <2>1, <2>2
<1>3. ASSUME NEW m \in Message, CallGateway(m) PROVE Sound(k)'
  <2>1. CASE k = m
    BY <1>3, <2>1, MessageTypes DEF CallGateway, TypeOK, connection, delivery, bounds, Place, Searches, Selects
  <2>2. CASE k # m
    BY <1>3, <2>2, UntouchedSound DEF CallGateway, TypeOK, connection, delivery, bounds, Untouched
  <2> QED BY <2>1, <2>2
<1>4. ASSUME NEW m \in Message, Return(m) PROVE Sound(k)'
  <2>1. CASE k = m
    BY <1>4, <2>1, MessageTypes DEF Return, TypeOK, connection, delivery, history, bounds, Searches, Selects
  <2>2. CASE k # m
    BY <1>4, <2>2, UntouchedSound DEF Return, TypeOK, connection, delivery, history, bounds, Untouched
  <2> QED BY <2>1, <2>2
<1>5. ASSUME NEW m \in Message, Throw(m) PROVE Sound(k)'
  <2>1. CASE k = m
    BY <1>5, <2>1, MessageTypes
    DEF Throw, Exhausted, TypeOK, connection, delivery, bounds, Searches, Selects
  <2>2. CASE k # m
    BY <1>5, <2>2, UntouchedSound DEF Throw, TypeOK, connection, delivery, bounds, Untouched
  <2> QED BY <2>1, <2>2
<1>6. ASSUME NEW m \in Message, Settle(m) PROVE Sound(k)'
  <2>1. CASE k = m
    BY <1>6, <2>1, MessageTypes
    DEF Settle, TypeOK, connection, delivery, history, bounds, Searches, Selects
  <2>2. CASE k # m
    BY <1>6, <2>2, UntouchedSound DEF Settle, TypeOK, connection, delivery, history, bounds, Untouched
  <2> QED BY <2>1, <2>2
<1>7. CASE LoseChannel
  BY <1>7, MessageTypes DEF LoseChannel, TakeBack, TypeOK, history, Searches, Selects
<1>8. ASSUME NEW m \in Message, EndTooLate(m) PROVE Sound(k)'
  BY <1>8, MessageTypes DEF EndTooLate, Stop, TakeBack, TypeOK, history, Searches, Selects
<1>9. CASE Crash
  BY <1>9, MessageTypes DEF Crash, Stop, TakeBack, TypeOK, history, Searches, Selects
<1>10. ASSUME NEW r \in {"prototype", "instance"}, Restart(r) PROVE Sound(k)'
  BY <1>10, MessageTypes DEF Restart, TypeOK, delivery, history, bounds, Searches, Selects
<1>11. ASSUME NEW q \in Queue, Cancel(q) PROVE Sound(k)'
  BY <1>11, MessageTypes DEF Cancel, Delete, TypeOK, history, Searches, Selects
<1>12. CASE DeclareQueues
  BY <1>12, UntouchedSound DEF DeclareQueues, delivery, history, bounds, Untouched
<1>13. CASE UNCHANGED vars
  BY <1>13, UntouchedSound DEF vars, connection, delivery, history, bounds, Untouched
<1> QED BY <1>1, <1>2, <1>3, <1>4, <1>5, <1>6, <1>7, <1>8, <1>9, <1>10, <1>11,
           <1>12, <1>13 DEF Next, Step

-----------------------------------------------------------------------------
(* Theorems.                                                               *)

(* IInv is inductive.                                                      *)
THEOREM Inductive == (Init => IInv) /\ (IInv /\ [Next]_vars => IInv')
<1>1. Init => IInv
  BY TypeInit, SoundInit, SoundMessages
<1>2. IInv /\ [Next]_vars => IInv'
  <2> SUFFICES ASSUME IInv, [Next]_vars PROVE IInv'
    OBVIOUS
  <2>1. TypeOK /\ TypeOK' /\ \A m \in Message : Sound(m)
    BY TypeStep, SoundMessages
  <2>2. \A m \in Message : Sound(m)'
    BY <2>1, SoundStep
  <2> QED BY <2>1, <2>2
          DEF IInv, HandlersMatchDeliveries, Budget, Sound, Matching
<1> QED BY <1>1, <1>2

(* Handlers, deliveries and budgets agree in every state.                  *)
THEOREM InvariantCorrect == Spec => []IInv
BY Inductive, PTL DEF Spec

(* An invocation and a delivery belong together while the channel lives.   *)
THEOREM HandlersMatchDeliveriesCorrect == Spec => []HandlersMatchDeliveries
<1>1. IInv => HandlersMatchDeliveries
  BY DEF IInv
<1> QED BY <1>1, InvariantCorrect, PTL

(* No message is delivered more often than its header and the losses allow. *)
THEOREM DeliveriesBoundedCorrect == Spec => []DeliveriesBounded
<1>1. IInv => DeliveriesBounded
  <2> SUFFICES ASSUME IInv, NEW m \in Message, NEW n \in header[m]
               PROVE  deliveryCount[m] <= (n - 1) + losses
    BY DEF DeliveriesBounded
  <2>1. TypeOK /\ deliveryCount[m] + Retrying(m) <= (n - 1) + losses
    BY DEF IInv, Budget, Attempts
  <2> QED BY <2>1, MessageTypes DEF Retrying
<1> QED BY <1>1, InvariantCorrect, PTL

(* A message is given up only once its attempts are used up.               *)
THEOREM DeadAfterAttemptsCorrect == Spec => []DeadAfterAttempts
<1>1. IInv => DeadAfterAttempts
  BY DEF IInv, Budget, GivingUp, DeadAfterAttempts
<1> QED BY <1>1, InvariantCorrect, PTL

(* Every answer after the first is paid for by a loss.                     *)
THEOREM DuplicatesNeedLossesCorrect == Spec => []DuplicatesNeedLosses
<1>1. IInv => DuplicatesNeedLosses
  <2> SUFFICES ASSUME IInv, NEW m \in Message PROVE answers[m] <= 1 + losses
    BY DEF DuplicatesNeedLosses
  <2>1. TypeOK /\ answers[m] <= losses + (IF Spent(m) THEN 1 ELSE 0)
    BY DEF IInv, Budget, Answering
  <2> QED BY <2>1, MessageTypes
<1> QED BY <1>1, InvariantCorrect, PTL

(* What is acknowledged was answered, unless its handler hides it.         *)
THEOREM AckedMeansAnsweredCorrect == Spec => []AckedMeansAnswered
<1>1. IInv => AckedMeansAnswered
  BY DEF IInv, Budget, Answering, AckedMeansAnswered
<1> QED BY <1>1, InvariantCorrect, PTL

-----------------------------------------------------------------------------
(* The way of a message to its end.                                        *)

Same(m) == <<place[m], deliveryCount[m], handler[m]>>'
             = <<place[m], deliveryCount[m], handler[m]>>

Nearer(m, n) == Same(m) \/ StepsLeft(m, n)' < StepsLeft(m, n)

(* The deliveries of a message and the state of its current one decide how *)
(* far it is from its end.                                                 *)
LEMMA NearerByStage ==
  ASSUME TypeOK, TypeOK', losses' = losses, NEW m \in Message, NEW n \in header[m],
         \/ /\ deliveryCount'[m] = deliveryCount[m]
            /\ \/ /\ place'[m] = place[m]
                  /\ \/ handler[m] = "running" /\ handler'[m] # "running"
                     \/ handler[m] = "answered" /\ handler'[m] \in Frame \union {"idle"}
                     \/ handler[m] \in Frame /\ handler'[m] = "idle"
               \/ /\ place[m] = "ready" /\ place'[m] = "unacked"
                  /\ handler[m] = "idle"
               \/ /\ place[m] \in {"ready", "unacked"}
                  /\ place'[m] \notin {"ready", "unacked"}
                  /\ handler'[m] = handler[m] \/ handler'[m] = "idle"
         \/ /\ deliveryCount'[m] = deliveryCount[m] + 1
            /\ place[m] = "unacked" /\ handler'[m] = "idle" /\ handler[m] # "idle"
  PROVE  StepsLeft(m, n)' < StepsLeft(m, n)
<1> DEFINE Current == LeftAtBroker(m) + LeftAtHandler(m)
<1>1. /\ deliveryCount[m] \in Nat /\ deliveryCount'[m] \in Nat
      /\ losses \in Nat /\ n \in 1..5
      /\ handler[m] \in Handler /\ handler'[m] \in Handler
  BY MessageTypes DEF TypeOK
<1>2. /\ LeftAtBroker(m) \in Nat /\ LeftAtBroker(m)' \in Nat
      /\ LeftAtHandler(m) \in Nat /\ LeftAtHandler(m)' \in Nat
  BY DEF LeftAtBroker, LeftAtHandler
<1>3. \/ deliveryCount'[m] = deliveryCount[m] /\ Current' < Current
      \/ deliveryCount'[m] = deliveryCount[m] + 1 /\ Current' < Current + 4
  BY <1>1 DEF LeftAtBroker, LeftAtHandler, Handler, Frame
<1> QED BY <1>1, <1>2, <1>3 DEF StepsLeft

(* Every step that loses nothing brings the messages it touches nearer to  *)
(* their end.                                                              *)
LEMMA NearerStep ==
  ASSUME IInv, IInv', [Next]_vars, losses' = losses,
         NEW k \in Message, NEW n \in header[k]
  PROVE  Nearer(k, n)
<1> USE DEF Nearer, Same
<1>a. TypeOK /\ TypeOK' /\ Sound(k)
  BY SoundMessages DEF IInv
<1>b. place[k] # "unpublished"
  BY <1>a DEF Sound, Working
<1>c. losses \in Nat
  BY <1>a, MessageTypes
<1>1. ASSUME NEW m \in Message, NEW o \in Options, publish(m, o) PROVE Nearer(k, n)
  BY <1>1, <1>a, <1>b DEF publish, TypeOK
<1>2. ASSUME NEW m \in Message, Deliver(m) PROVE Nearer(k, n)
  <2>1. CASE k = m
    <3>1. handler[k] = "idle"
      BY <1>2, <1>a, <2>1 DEF Deliver, Sound, Matching
    <3> QED BY <1>2, <1>a, <2>1, <3>1, NearerByStage DEF Deliver, TypeOK
  <2>2. CASE k # m
    BY <1>2, <1>a, <2>2 DEF Deliver, TypeOK
  <2> QED BY <2>1, <2>2
<1>3. ASSUME NEW m \in Message, CallGateway(m) \/ Return(m) \/ Throw(m)
      PROVE  Nearer(k, n)
  <2>1. CASE k = m
    BY <1>3, <1>a, <2>1, NearerByStage
    DEF CallGateway, Return, Throw, TypeOK, delivery, Frame
  <2>2. CASE k # m
    BY <1>3, <1>a, <2>2 DEF CallGateway, Return, Throw, TypeOK, delivery
  <2> QED BY <2>1, <2>2
<1>4. ASSUME NEW m \in Message, Settle(m) PROVE Nearer(k, n)
  <2>1. CASE k # m
    BY <1>4, <1>a, <2>1 DEF Settle, TypeOK, delivery
  <2>2. CASE k = m /\ place[k] = "dropped"
    BY <1>4, <1>a, <2>2, NearerByStage DEF Settle, TypeOK, delivery
  <2>3. CASE k = m /\ place[k] # "dropped"
    <3>1. place[k] = "unacked"
      BY <1>4, <1>a, <2>3 DEF Settle, Sound, Matching, Frame, TypeOK
    <3>2. /\ handler'[k] = "idle" /\ handler[k] \in Frame
          /\ \/ /\ handler[k] # "nack" /\ deliveryCount'[k] = deliveryCount[k]
                /\ place'[k] \in {"acked", "dead"}
             \/ handler[k] = "nack" /\ deliveryCount'[k] = deliveryCount[k] + 1
      BY <1>4, <1>a, <2>3 DEF Settle, TypeOK, Frame
    <3> QED BY <1>a, <3>1, <3>2, NearerByStage DEF Frame
  <2> QED BY <2>1, <2>2, <2>3
<1>5. ASSUME NEW m \in Message, EndTooLate(m) PROVE Nearer(k, n)
  <2>1. channel = "closed" /\ place[k] # "unacked" /\ handler[k] \notin Frame
    BY <1>5, <1>a DEF EndTooLate, Sound, Matching
  <2>2. /\ place'[k] = place[k] /\ deliveryCount'[k] = deliveryCount[k]
        /\ handler'[k] = "idle"
    BY <1>5, <1>a, <2>1 DEF EndTooLate, Stop, TakeBack, TypeOK
  <2>3. handler[k] \in {"idle", "running", "answered"}
    BY <1>a, <2>1 DEF TypeOK, Handler
  <2> QED BY <1>a, <2>2, <2>3, NearerByStage
<1>6. CASE LoseChannel \/ Crash
  BY <1>6, <1>c DEF LoseChannel, Crash
<1>7. CASE DeclareQueues \/ \E r \in {"prototype", "instance"} : Restart(r)
  BY <1>7 DEF DeclareQueues, Restart, delivery
<1>8. ASSUME NEW q \in Queue, Cancel(q) PROVE Nearer(k, n)
  <2>1. /\ deliveryCount'[k] = deliveryCount[k] /\ handler'[k] = handler[k]
        /\ \/ place'[k] = place[k]
           \/ place[k] \in {"ready", "unacked"} /\ place'[k] = "dropped"
    BY <1>8, <1>a DEF Cancel, TypeOK
  <2> QED BY <1>a, <2>1, NearerByStage
<1>9. CASE UNCHANGED vars
  BY <1>9 DEF vars, delivery
<1> QED BY <1>1, <1>2, <1>3, <1>4, <1>5, <1>6, <1>7, <1>8, <1>9 DEF Next, Step

(* A header, once set, stays: a message is published once.                 *)
LEMMA HeaderStays ==
  ASSUME IInv, [Next]_vars, NEW m \in Message, header[m] # {}
  PROVE  header'[m] = header[m]
<1>1. TypeOK /\ place[m] # "unpublished"
  BY SoundMessages DEF IInv, Budget, Working
<1>2. ASSUME NEW k \in Message, NEW o \in Options, publish(k, o)
      PROVE  header'[m] = header[m]
  BY <1>1, <1>2 DEF publish, TypeOK
<1>3. CASE ~ \E k \in Message, o \in Options : publish(k, o)
  BY <1>3 DEF Next, Step, vars, history, Deliver, CallGateway, Return, Throw, Settle,
              EndTooLate, LoseChannel, Crash, Stop, DeclareQueues, Restart, Cancel
<1> QED BY <1>2, <1>3

(* As long as nothing is lost, whatever happens to a message brings it     *)
(* nearer to its end, and there is no way past the end: no run goes round  *)
(* with one message for ever.                                              *)
THEOREM RetriesWindDownCorrect == Spec => RetriesWindDown
<1> DEFINE Down == losses' = losses =>
             \A m \in Message : \A n \in header[m] :
               /\ StepsLeft(m, n)' >= 0
               /\ <<place[m], deliveryCount[m], handler[m]>>'
                    # <<place[m], deliveryCount[m], handler[m]>>
                  => StepsLeft(m, n)' < StepsLeft(m, n)
<1>1. IInv /\ IInv' /\ [Next]_vars => [Down]_vars
  <2> SUFFICES ASSUME IInv, IInv', [Next]_vars, losses' = losses,
                      NEW m \in Message, NEW n \in header[m]
               PROVE  Nearer(m, n) /\ StepsLeft(m, n)' >= 0
    BY DEF Nearer, Same
  <2>1. header'[m] = header[m]
    BY HeaderStays
  <2>2. deliveryCount'[m] + Retrying(m)' <= (n - 1) + losses'
    BY <2>1 DEF IInv, Budget, Attempts
  <2>3. deliveryCount'[m] \in Nat /\ losses' \in Nat /\ n \in 1..5
    <3>1. TypeOK /\ TypeOK'
      BY DEF IInv
    <3> QED BY <3>1, MessageTypes DEF TypeOK
  <2>4. Retrying(m)' \in {0, 1}
    BY DEF Retrying
  <2>5. /\ (n - 1) + losses' - deliveryCount'[m] >= 0
        /\ (n - 1) + losses' - deliveryCount'[m] \in Int
    BY <2>2, <2>3, <2>4
  <2>6. StepsLeft(m, n)' >= 0
    BY <2>5 DEF StepsLeft, LeftAtBroker, LeftAtHandler
  <2> QED BY <2>6, NearerStep
<1> QED BY <1>1, InvariantCorrect, PTL DEF Spec, RetriesWindDown
===============================================================================
