----------------------------- MODULE BuyerWebhooks -----------------------------
(***************************************************************************)
(* src/buyer from end to end: a hook takes a webhook and publishes it, the *)
(* process's connection carries it to the broker, the broker delivers it   *)
(* to the handler of its queue, and the handler posts an answer to the     *)
(* gateway.                                                                *)
(*                                                                         *)
(* The module composes AmqpService, which it extends, with RabbitConsumer, *)
(* which it instantiates.  Both speak of one channel and one process: the  *)
(* consumer's channel is that of the service once the consumers are        *)
(* registered, so a loss or the end of the process is a step of both.      *)
(***************************************************************************)
EXTENDS AmqpService

CONSTANTS QueueOf,      \* the queue of each webhook's message
          MaxLosses, MaxDeletions, MaxDeliveries   \* as in RabbitConsumer

VARIABLES
  deleted, place, header, deliveryCount, handler, failures, answers, losses,
  deletions,  \* as in RabbitConsumer
  gateway     \* answers the gateway received

consumption == <<deleted, place, header, deliveryCount, handler, failures,
                 answers, losses, deletions>>
webhookVars == <<vars, consumption, gateway>>

(* What the consumers have of the service's channel and router: nothing    *)
(* before setupConsumers registered them.                                  *)
ConsumerChannel == IF "consumer" \in setupDone THEN amqpChannel ELSE "none"
ConsumerRouter  == IF "consumer" \in setupDone THEN rabbitRouter ELSE "undefined"

(* The hooks pass no maxRetries, and nobody else publishes.                *)
Consumer == INSTANCE RabbitConsumer WITH
  channel <- ConsumerChannel, router <- ConsumerRouter,
  Options <- {{}}, Foreign <- {}

Ondc == INSTANCE OndcService

(* BuyerHook: every webhook is published to the queue of its own name.     *)
Hooks == {"on_search", "on_select", "on_init", "on_confirm", "on_track",
          "on_cancel", "on_update", "on_rating", "on_support"}

ASSUME HookAssumption == QueueOf \in [Message -> Hooks]
ASSUME WebhookBoundAssumption ==
  MaxLosses \in Nat /\ MaxDeletions \in Nat /\ MaxDeliveries \in Nat

(* Slip: every handler is a copy of that of on_select.                     *)
HandlersCopied == [q \in Hooks |-> Ondc!onSelect]

(* BuyerConsumer: the method that answers the messages of each queue.      *)
Handlers ==
  [on_search |-> Ondc!onSearch, on_select |-> Ondc!onSelect,
   on_init |-> Ondc!onInit, on_confirm |-> Ondc!onConfirm,
   on_track |-> Ondc!onConfirm, on_cancel |-> Ondc!onCancel,
   on_update |-> Ondc!onUpdate, on_status |-> Ondc!onStatus,
   on_rating |-> Ondc!onRating, on_support |-> Ondc!onSupport]

AnswerTo(m) == [webhook |-> m, action |-> Handlers[QueueOf[m]].action,
                path |-> Handlers[QueueOf[m]].path]

WebhookInit == Init /\ Consumer!Init /\ gateway = {}

-----------------------------------------------------------------------------
(* Steps of the service's connection.                                      *)

Alone(A) == A /\ UNCHANGED <<consumption, gateway>>

(* The process and the connection on their way to consuming.               *)
Connect ==
  \/ Alone(Start) \/ Alone(NestReady)
  \/ Alone(ConnectOk) \/ Alone(ConnectFail) \/ Alone(WakeUp)
  \/ Alone(ChannelOk) \/ Alone(ChannelRejected) \/ Alone(ExchangeOk)

(* The consumers are registered with the router as it is.                  *)
Register ==
  /\ QueuesOk /\ Consumer!Restart(rabbitRouter)
  /\ UNCHANGED gateway

(* Slip: the consumers go on as if their channel were there.               *)
LoseUnnoticed ==
  /\ ConnectionError \/ ConnectionClosed \/ ChannelError
  /\ UNCHANGED <<consumption, gateway>>

(* The connection or the channel ends, under the consumers or before.      *)
Lose ==
  /\ ConnectionError \/ ConnectionClosed \/ ChannelError
  /\ IF ConsumerChannel = "open" THEN Consumer!LoseChannel
                                 ELSE UNCHANGED consumption
  /\ UNCHANGED gateway

(* The process ends: at any moment, by the rejection of a declaration, or  *)
(* because a handler ended after its channel.                              *)
ProcessEnds == (Crash \/ SetupRejected) /\ Consumer!Crash /\ UNCHANGED gateway

HandlerEndsLate(m) == Crash /\ Consumer!EndTooLate(m) /\ UNCHANGED gateway

-----------------------------------------------------------------------------
(* The way of a webhook.                                                   *)

(* The hook publishes and answers success, whatever publish gave back.     *)
Hook(m) == Alone(publish(m))

(* The broker reads a frame: it has the queues, or has a message for the   *)
(* consumers, or drops it.                                                 *)
Route ==
  /\ BrokerRead
  /\ CASE Head(wire) = Declare /\ deleted # {} -> Consumer!DeclareQueues
       [] queue' # queue                       -> Consumer!publish(Head(wire), {})
       [] OTHER                                -> UNCHANGED consumption
  /\ UNCHANGED gateway

(* Delivery and settlement.                                                *)
Deliver(m) == UNCHANGED <<vars, gateway>> /\ Consumer!Deliver(m)
Settle(m)  == UNCHANGED <<vars, gateway>> /\ Consumer!Settle(m)

(* The handler ends without having posted, or after it.                    *)
EndHandler(m) ==
  UNCHANGED <<vars, gateway>> /\ (Consumer!Return(m) \/ Consumer!Throw(m))

(* The handler posts its answer; the post may fail, which the on... method *)
(* logs and does not report.                                               *)
Post(m) ==
  /\ UNCHANGED vars
  /\ Consumer!CallGateway(m)
  /\ gateway' \in {gateway, gateway \union {AnswerTo(m)}}

(* The broker cancels the consumer of a queue that was deleted.            *)
CancelConsumer(q) == UNCHANGED <<vars, gateway>> /\ Consumer!Cancel(q)

WebhookNext ==
  \/ Connect \/ Register \/ Lose \/ ProcessEnds \/ Route
  \/ \E m \in Message :
       \/ Hook(m) \/ Deliver(m) \/ Post(m) \/ EndHandler(m) \/ Settle(m)
       \/ HandlerEndsLate(m)
  \/ \E q \in Consumer!Queue : CancelConsumer(q)

(* The fairness of both parts, and the container is restarted.             *)
WebhookFairness ==
  /\ SF_webhookVars(Alone(ConnectOk))
  /\ WF_webhookVars(Alone(Start)) /\ WF_webhookVars(Alone(WakeUp))
  /\ WF_webhookVars(Alone(ChannelOk)) /\ WF_webhookVars(Alone(ChannelRejected))
  /\ WF_webhookVars(Alone(ExchangeOk))
  /\ WF_webhookVars(Register) /\ WF_webhookVars(Route)
  /\ \A m \in Message :
       /\ WF_webhookVars(Deliver(m)) /\ WF_webhookVars(Settle(m))
       /\ WF_webhookVars(Post(m) \/ EndHandler(m))
       /\ WF_webhookVars(HandlerEndsLate(m))

WebhookSpec     == WebhookInit /\ [][WebhookNext]_webhookVars
FairWebhookSpec == WebhookSpec /\ WebhookFairness

-----------------------------------------------------------------------------
(* Seen from the consumers, the connection does what RabbitConsumer takes  *)
(* it to do: it is there, is lost with its frames, or goes with the        *)
(* process; so all that holds of RabbitConsumer holds here.                *)
ConsumerSpec == Consumer!Spec

(* What has become of a webhook.                                           *)
Fates(m) ==
  (IF m \in Range(pendingRabbitRequests) \union Range(wire) THEN {"under way"} ELSE {})
  \union (IF \E r \in Reason : <<m, r>> \in lost THEN {"lost"} ELSE {})
  \union ({place[m]} \ {"unpublished"})

(* A webhook that was answered with success has one fate: its message is   *)
(* under way, lost, or with the consumers; none is lost and answered, or   *)
(* put aside and consumed, whatever the connection, the handlers and the   *)
(* crashes do to each other.                                               *)
OneFate ==
  \A m \in Message :
    IF m \in published THEN \E f \in Fates(m) : Fates(m) = {f} ELSE Fates(m) = {}

(* The gateway hears nothing about a webhook that never came or was lost,  *)
(* and hears of it on the path of its name; the handler of on_track        *)
(* (buyer.consumer.ts, line 117) calls the method of on_confirm.           *)
AnswersFollowWebhooks ==
  \A a \in gateway :
    /\ a.webhook \in queue /\ answers[a.webhook] >= 1
    /\ \/ a.path = QueueOf[a.webhook]
       \/ QueueOf[a.webhook] = "on_track" /\ a.path = "on_confirm"

(* A webhook other than a search goes to the dead letters only in a        *)
(* process whose router was built before Nest had built the consumer: the  *)
(* other handlers have nothing else that throws.                           *)
OnlyPrototypesGiveUp ==
  [][\A m \in Message \ Consumer!Searches :
       place[m] # "dead" /\ place'[m] = "dead" => rabbitRouter = "prototype"
    ]_webhookVars

(* Once the connection or the channel ended, webhooks are still answered   *)
(* with success, but no message reaches its queue or leaves it before the  *)
(* process ends.                                                           *)
LossFreezesQueues ==
  [][Lost /\ up' =>
       /\ queue' = queue
       /\ \A m \in Message :
            place[m] \in {"unpublished", "ready"} => place'[m] = place[m]
    ]_webhookVars

(* A hook asks for no number of attempts, and its webhook gets three: a    *)
(* fourth delivery or a second answer takes a loss, and it ends as a dead  *)
(* letter only after as many failures and losses.                          *)
TriedThrice ==
  \A m \in Message :
    /\ deliveryCount[m] <= 2 + losses
    /\ answers[m] <= 1 + losses
    /\ place[m] = "dead" => failures[m] >= 1 /\ failures[m] + losses >= 3

(* Nothing that was accepted vanishes by itself: a message is missing only *)
(* after a channel or a process was lost, or its queue was deleted, or     *)
(* because it met a broker that had never had the queues.                  *)
GoneForCause ==
  \A m \in Message :
    /\ place[m] = "dropped" => deletions >= 1
    /\ \A r \in Reason \ {"unroutable"} : <<m, r>> \in lost => losses >= 1

(* What has become of a webhook in the eyes of its caller.                 *)
FateOf(m) ==
  CASE m \notin published -> "none"
    [] m \in published /\ place[m] \in {"acked", "dead"} -> "settled"
    [] m \in published /\ (place[m] = "dropped" \/ \E r \in Reason : <<m, r>> \in lost)
         -> "gone"
    [] OTHER -> "accepted"

Promise == INSTANCE WebhookPromise WITH
  Webhook <- Message, fate <- [m \in Message |-> FateOf(m)]

(* However connection, broker, handlers and crashes interleave, a webhook  *)
(* that was accepted is settled or gone once and for all, and the gateway  *)
(* hears nothing more of it after it was acknowledged or dead-lettered:    *)
(* the composition implements WebhookPromise.                              *)
ImplementsPromise == Promise!Spec

(* Every webhook is settled in the end, by an acknowledgement or as a dead *)
(* letter, or is lost, or meets a connection that ended.                   *)
WebhookServed ==
  \A m \in Message :
    m \in published ~> \/ place[m] \in Consumer!Settled
                       \/ \E r \in Reason : <<m, r>> \in lost
                       \/ Lost
===============================================================================
