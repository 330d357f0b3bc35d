---------------------------- MODULE RabbitConsumer ----------------------------
(***************************************************************************)
(* The consuming side of libs/rabbitmq: RabbitMqService.publish decides    *)
(* how often a message may be tried, the callback that setupConsumers      *)
(* registers runs a handler of src/buyer/buyer.consumer.ts and settles the *)
(* delivery with ack, nack or reject.  Every delivery starts its own       *)
(* handler at once (no prefetch is set), so handlers of different messages *)
(* interleave at their awaits.                                             *)
(*                                                                         *)
(* The broker is external: a quorum queue that counts in x-delivery-count  *)
(* how often it took a message back, whether it was asked to or the        *)
(* channel ended.  How the process gets its channel is module AmqpService; *)
(* here a channel is there when the process is up, until it is lost, and   *)
(* only a new process gets a new one.                                      *)
(***************************************************************************)
EXTENDS Naturals

CONSTANTS Message,
          QueueOf,    \* the queue each message is published to
          Options,    \* what publishers pass as maxRetries: {} or {n}
          Foreign,    \* messages of a publisher that sets no header
          MaxLosses,  \* bound on the channels and processes lost
          MaxDeletions,  \* bound on the queues deleted
          MaxDeliveries  \* bound on the deliveries of one message

ASSUME QueueAssumption == DOMAIN QueueOf = Message /\ Foreign \subseteq Message
ASSUME OptionAssumption == Options \subseteq {{}} \union {{n} : n \in 0..5}
ASSUME BoundAssumption ==
  MaxLosses \in Nat /\ MaxDeletions \in Nat /\ MaxDeliveries \in Nat

Queue    == {QueueOf[m] : m \in Message}
Searches == {m \in Message : QueueOf[m] = "on_search"}  \* the handler may throw
Selects  == {m \in Message : QueueOf[m] = "on_select"}  \* the handler swallows

VARIABLES
  channel,        \* "none": not consuming; "open"; "closed": lost, process alive
  router,         \* what the router holds: see AmqpService
  deleted,        \* queues deleted since they were last declared
  place,          \* where the broker has the message
  header,         \* x-max-retries: {n}, or {} when the header is missing
  deliveryCount,  \* x-delivery-count
  handler,        \* the invocation for the message, or the frame it sent
  failures,       \* how often a handler threw
  answers,        \* how often a handler called the gateway
  losses,
  deletions

delivery == <<place, deliveryCount>>
history  == <<header, failures, answers>>
connection == <<channel, router, deleted>>
bounds   == <<losses, deletions>>
vars == <<connection, delivery, handler, history, bounds>>

Place   == {"unpublished", "ready", "unacked", "acked", "dead", "dropped"}
Settled == {"acked", "dead", "dropped"}
Frame   == {"ack", "nack", "reject"}
Handler == {"idle", "running", "answered"} \union Frame
Running(m) == handler[m] \in {"running", "answered"}

Init ==
  /\ channel = "none" /\ router = "undefined" /\ deleted = {}
  /\ place = [m \in Message |-> "unpublished"]
  /\ header = [m \in Message |-> {}]
  /\ deliveryCount = [m \in Message |-> 0]
  /\ handler = [m \in Message |-> "idle"]
  /\ failures = [m \in Message |-> 0] /\ answers = [m \in Message |-> 0]
  /\ losses = 0 /\ deletions = 0

-----------------------------------------------------------------------------
(* Slip: ?? for ||, which keeps a 0.                                       *)
MaxRetriesNullish(o) == IF o = {} THEN {3} ELSE o

(* (options && options.maxRetries) || 3: 0 is falsy.                       *)
MaxRetriesHeader(o) == IF o \subseteq {0} THEN {3} ELSE o

(* Slip: > for >=.                                                         *)
ExhaustedOneLater(m) == \E n \in header[m] : deliveryCount[m] + 1 > n

(* currentAttemptCount >= maxRetriesAllowed.  parseInt of a missing header *)
(* is NaN, which ?? does not replace and no number reaches.                *)
Exhausted(m) == \E n \in header[m] : deliveryCount[m] + 1 >= n

(* The message reaches the broker, whose default exchange drops it when    *)
(* its queue was deleted.                                                  *)
publish(m, o) ==
  /\ place[m] = "unpublished"
  /\ place' = [place EXCEPT ![m] = IF QueueOf[m] \in deleted THEN "dropped"
                                                            ELSE "ready"]
  /\ header' = [header EXCEPT ![m] = IF m \in Foreign THEN {} ELSE MaxRetriesHeader(o)]
  /\ UNCHANGED <<connection, deliveryCount, handler, failures, answers, bounds>>

-----------------------------------------------------------------------------
(* Slip: consume with noAck, so that a delivery settles its message.       *)
DeliverNoAck(m) ==
  /\ channel = "open"
  /\ place[m] = "ready" /\ deliveryCount[m] < MaxDeliveries
  /\ place' = [place EXCEPT ![m] = "acked"]
  /\ handler' = [handler EXCEPT ![m] = "running"]
  /\ UNCHANGED <<connection, deliveryCount, history, bounds>>

(* The broker hands a message to the callback, which starts the handler.   *)
Deliver(m) ==
  /\ channel = "open"
  /\ place[m] = "ready" /\ deliveryCount[m] < MaxDeliveries
  /\ place' = [place EXCEPT ![m] = "unacked"]
  /\ handler' = [handler EXCEPT ![m] = "running"]
  /\ UNCHANGED <<connection, deliveryCount, history, bounds>>

(* The handler calls an on... method of OndcService, which posts to the    *)
(* gateway and reports no failure.  On a prototype this.ondcService is     *)
(* undefined and there is nothing to call.                                 *)
CallGateway(m) ==
  /\ handler[m] = "running" /\ router = "instance"
  /\ handler' = [handler EXCEPT ![m] = "answered"]
  /\ answers' = [answers EXCEPT ![m] = @ + 1]
  /\ UNCHANGED <<connection, delivery, header, failures, bounds>>

(* Slip: the handler is not awaited before the ack.                        *)
ReturnUnawaited(m) ==
  /\ channel = "open" /\ Running(m)
  /\ handler' = [handler EXCEPT ![m] = "ack"]
  /\ UNCHANGED <<connection, delivery, history, bounds>>

(* The handler returns: after its call, or without one when on_search      *)
(* found no products or on_select swallowed an error.                      *)
Return(m) ==
  /\ channel = "open"
  /\ \/ handler[m] = "answered"
     \/ handler[m] = "running" /\ m \in Searches /\ router = "instance"
     \/ handler[m] = "running" /\ m \in Selects /\ router = "prototype"
  /\ handler' = [handler EXCEPT ![m] = "ack"]
  /\ UNCHANGED <<connection, delivery, history, bounds>>

(* Slip: the catch block logs and settles nothing.                         *)
ThrowUnsettled(m) ==
  /\ channel = "open"
  /\ handler[m] = "running" /\ m \in Searches
  /\ failures' = [failures EXCEPT ![m] = @ + 1]
  /\ handler' = [handler EXCEPT ![m] = "idle"]
  /\ UNCHANGED <<connection, delivery, header, answers, bounds>>

(* Slip: the catch block always rejects.                                   *)
ThrowRejects(m) ==
  /\ channel = "open"
  /\ handler[m] = "running" /\ m \in Searches
  /\ failures' = [failures EXCEPT ![m] = @ + 1]
  /\ handler' = [handler EXCEPT ![m] = "reject"]
  /\ UNCHANGED <<connection, delivery, header, answers, bounds>>

(* Slip: on_search answers first and asks for the products afterwards.     *)
ThrowAfterAnswer(m) ==
  /\ channel = "open"
  /\ Running(m) /\ m \in Searches
  /\ failures' = [failures EXCEPT ![m] = @ + 1]
  /\ handler' = [handler EXCEPT ![m] = IF Exhausted(m) THEN "reject" ELSE "nack"]
  /\ UNCHANGED <<connection, delivery, header, answers, bounds>>

(* Slip: on... methods report a failed post and the handlers pass it on.   *)
ThrowReporting(m) ==
  /\ channel = "open"
  /\ handler[m] = "running"
  /\ failures' = [failures EXCEPT ![m] = @ + 1]
  /\ handler' = [handler EXCEPT ![m] = IF Exhausted(m) THEN "reject" ELSE "nack"]
  /\ UNCHANGED <<connection, delivery, header, answers, bounds>>

(* The handler throws: getProducts does when the search fails, and on a    *)
(* prototype every handler that does not catch its own errors.             *)
Throw(m) ==
  /\ channel = "open"
  /\ handler[m] = "running"
  /\ \/ m \in Searches
     \/ m \notin Selects /\ router = "prototype"
  /\ failures' = [failures EXCEPT ![m] = @ + 1]
  /\ handler' = [handler EXCEPT ![m] = IF Exhausted(m) THEN "reject" ELSE "nack"]
  /\ UNCHANGED <<connection, delivery, header, answers, bounds>>

(* Slip: a message to be tried again is published anew, which counts from  *)
(* zero.                                                                   *)
SettleRepublishing(m) ==
  /\ handler[m] \in Frame
  /\ handler' = [handler EXCEPT ![m] = "idle"]
  /\ IF place[m] = "dropped"
     THEN UNCHANGED delivery
     ELSE /\ place' = [place EXCEPT ![m] = CASE handler[m] = "ack"    -> "acked"
                                             [] handler[m] = "nack"   -> "ready"
                                             [] handler[m] = "reject" -> "dead"]
          /\ deliveryCount' = IF handler[m] = "nack"
                              THEN [deliveryCount EXCEPT ![m] = 0]
                              ELSE deliveryCount
  /\ UNCHANGED <<connection, history, bounds>>

(* The broker reads the frame; one about a message that went with its      *)
(* queue changes nothing.                                                  *)
Settle(m) ==
  /\ handler[m] \in Frame
  /\ handler' = [handler EXCEPT ![m] = "idle"]
  /\ IF place[m] = "dropped"
     THEN UNCHANGED delivery
     ELSE /\ place' = [place EXCEPT ![m] = CASE handler[m] = "ack"    -> "acked"
                                             [] handler[m] = "nack"   -> "ready"
                                             [] handler[m] = "reject" -> "dead"]
          /\ deliveryCount' = IF handler[m] = "nack"
                              THEN [deliveryCount EXCEPT ![m] = @ + 1]
                              ELSE deliveryCount
  /\ UNCHANGED <<connection, history, bounds>>

-----------------------------------------------------------------------------
(* The channel ends: the broker takes back what it had delivered.          *)
TakeBack ==
  /\ place' = [m \in Message |->
                 IF place[m] = "unacked" THEN "ready" ELSE place[m]]
  /\ deliveryCount' = [m \in Message |->
                         IF place[m] = "unacked" THEN deliveryCount[m] + 1
                                                 ELSE deliveryCount[m]]

(* Frames on their way are dropped; handlers run on, unaware.              *)
LoseChannel ==
  /\ channel = "open" /\ losses < MaxLosses
  /\ channel' = "closed"
  /\ losses' = losses + 1
  /\ TakeBack
  /\ handler' = [m \in Message |-> IF Running(m) THEN handler[m] ELSE "idle"]
  /\ UNCHANGED <<router, deleted, history, deletions>>

Stop ==
  /\ channel' = "none" /\ router' = "undefined"
  /\ handler' = [m \in Message |-> "idle"]
  /\ TakeBack
  /\ UNCHANGED <<deleted, history, deletions>>

(* A handler ends after the channel did: ack throws, the catch block's     *)
(* nack or reject throws again, and the rejection nobody handles ends the  *)
(* process.                                                                *)
EndTooLate(m) ==
  /\ channel = "closed" /\ Running(m)
  /\ Stop
  /\ UNCHANGED losses

Crash ==
  /\ losses < MaxLosses
  /\ losses' = losses + 1
  /\ Stop

(* A new process declares the queues again.                                *)
DeclareQueues ==
  /\ channel = "none" /\ deleted # {}
  /\ deleted' = {}
  /\ UNCHANGED <<channel, router, delivery, handler, history, bounds>>

(* The queues are there and the process starts to consume; its router was  *)
(* built before or after the consumer's instance was.                      *)
Restart(r) ==
  /\ channel = "none" /\ deleted = {}
  /\ channel' = "open" /\ router' = r
  /\ UNCHANGED <<deleted, delivery, handler, history, bounds>>

(* An operator deletes a queue, and all its messages with it.              *)
Delete(q) ==
  /\ deletions < MaxDeletions /\ q \notin deleted
  /\ deletions' = deletions + 1
  /\ deleted' = deleted \union {q}

(* Slip: the callback takes the broker's null for a message; reading its   *)
(* properties throws outside the try block and ends the process.           *)
CancelUnguarded(q) ==
  /\ channel = "open" /\ Delete(q)
  /\ channel' = "none" /\ router' = "undefined"
  /\ handler' = [m \in Message |-> "idle"]
  /\ place' = [m \in Message |->
                 IF place[m] \notin {"ready", "unacked"} THEN place[m]
                 ELSE IF QueueOf[m] = q THEN "dropped" ELSE "ready"]
  /\ deliveryCount' = [m \in Message |->
                         IF place[m] = "unacked" THEN deliveryCount[m] + 1
                                                 ELSE deliveryCount[m]]
  /\ UNCHANGED <<history, losses>>

(* The broker tells the consumer of a deleted queue with a null message,   *)
(* at which the callback returns; nobody declares the queue or registers   *)
(* on it again.  The handlers of its messages run on.                      *)
Cancel(q) ==
  /\ channel = "open" /\ Delete(q)
  /\ place' = [m \in Message |->
                 IF QueueOf[m] = q /\ place[m] \in {"ready", "unacked"}
                 THEN "dropped" ELSE place[m]]
  /\ UNCHANGED <<channel, router, deliveryCount, handler, history, losses>>

-----------------------------------------------------------------------------
Step(m) ==
  \/ \E o \in Options : publish(m, o)
  \/ Deliver(m) \/ CallGateway(m) \/ Return(m) \/ Throw(m) \/ Settle(m)
  \/ EndTooLate(m)

Next ==
  \/ \E m \in Message : Step(m)
  \/ LoseChannel \/ Crash \/ DeclareQueues
  \/ \E r \in {"prototype", "instance"} : Restart(r)
  \/ \E q \in Queue : Cancel(q)

(* The container is restarted, the broker delivers and reads what it gets, *)
(* and every handler ends: axios calls resolve or reject.                  *)
Fairness ==
  /\ WF_vars(DeclareQueues)
  /\ WF_vars(\E r \in {"prototype", "instance"} : Restart(r))
  /\ \A m \in Message :
       /\ WF_vars(Deliver(m)) /\ WF_vars(Settle(m)) /\ WF_vars(EndTooLate(m))
       /\ WF_vars(CallGateway(m) \/ Return(m) \/ Throw(m))

Spec     == Init /\ [][Next]_vars
FairSpec == Spec /\ Fairness

-----------------------------------------------------------------------------
(* Every variable holds a value of its type.                               *)
TypeOK ==
  /\ channel \in {"none", "open", "closed"}
  /\ router \in {"undefined", "prototype", "instance"} /\ deleted \subseteq Queue
  /\ place \in [Message -> Place]
  /\ header \in [Message -> {{}} \union {{n} : n \in 1..5}]
  /\ deliveryCount \in [Message -> Nat]
  /\ handler \in [Message -> Handler]
  /\ failures \in [Message -> Nat] /\ answers \in [Message -> Nat]
  /\ losses \in 0..MaxLosses /\ deletions \in 0..MaxDeletions

(* An invocation and a delivery belong together while the channel lives:   *)
(* no message is unacknowledged with nobody working on it, and no handler  *)
(* works on a message the broker could deliver to another one.             *)
HandlersMatchDeliveries ==
  /\ channel = "open" => \A m \in Message :
       /\ place[m] = "unacked" => handler[m] # "idle"
       /\ handler[m] # "idle" => place[m] \in {"unacked", "dropped"}
  /\ channel = "closed" => \A m \in Message :
       handler[m] \notin Frame /\ place[m] # "unacked"
  /\ channel = "none" => \A m \in Message :
       handler[m] = "idle" /\ place[m] # "unacked"

(* A message with the header n is taken back by its failing handler at     *)
(* most n - 1 times; only a lost channel can add a delivery to that, and   *)
(* the deletion of another queue adds none.                                *)
DeliveriesBounded ==
  \A m \in Message : \A n \in header[m] : deliveryCount[m] <= (n - 1) + losses

(* A message is given up only after a failure of its own and once its      *)
(* attempts are used up; a lost channel uses one up as a failure does.     *)
DeadAfterAttempts ==
  \A m \in Message :
    place[m] = "dead" => /\ failures[m] >= 1
                         /\ \E n \in header[m] : failures[m] + losses >= n

(* The gateway gets a second answer for a message only when a channel was  *)
(* lost: an attempt that fails has not called it, so a retry repeats none. *)
DuplicatesNeedLosses == \A m \in Message : answers[m] <= 1 + losses

(* A message whose handler neither swallows errors nor skips empty results *)
(* is acknowledged only if its handler called the gateway.                 *)
AckedMeansAnswered ==
  \A m \in Message \ (Searches \union Selects) :
    place[m] = "acked" => answers[m] >= 1

(* What may still happen to a message with the header n before the next    *)
(* loss: what is left of its current delivery, and the deliveries left.    *)
LeftAtBroker(m)  == IF place[m] = "ready" THEN 5 ELSE IF place[m] = "unacked" THEN 1 ELSE 0
LeftAtHandler(m) ==
  IF handler[m] = "running" THEN 3 ELSE IF handler[m] = "answered" THEN 2
    ELSE IF handler[m] \in Frame THEN 1 ELSE 0

StepsLeft(m, n) ==
  4 * ((n - 1) + losses - deliveryCount[m]) + LeftAtBroker(m) + LeftAtHandler(m)

(* A message that has its header does not go round for ever: as long as    *)
(* nothing is lost, all that happens to it, a retry included, brings it    *)
(* nearer to its end, whatever happens to other messages or their queues.  *)
RetriesWindDown ==
  [][losses' = losses =>
       \A m \in Message : \A n \in header[m] :
         /\ StepsLeft(m, n)' >= 0
         /\ <<place[m], deliveryCount[m], handler[m]>>'
              # <<place[m], deliveryCount[m], handler[m]>>
            => StepsLeft(m, n)' < StepsLeft(m, n)]_vars

(* A message in its queue is settled in the end, or goes with its queue,   *)
(* unless the process lost its channel and sits there without one.         *)
EventuallySettled ==
  \A m \in Message :
    place[m] = "ready" ~> place[m] \in Settled \/ channel = "closed"

-----------------------------------------------------------------------------
(* What the code says of itself and does not do.                           *)

(* amqp.service.ts, line 375, falls back to 3 for a message without the    *)
(* header (?? 3); so such a message should be tried three times.           *)
FallbackToThree ==
  \A m \in Foreign : deliveryCount[m] <= 2 + losses
===============================================================================
