----------------------------- MODULE AmqpService -----------------------------
(***************************************************************************)
(* libs/rabbitmq/src/amqp.service.ts: the service that owns the process's  *)
(* one AMQP connection and channel.  connectToRabbitMq is an async         *)
(* function that several callers start without awaiting it: the            *)
(* constructor, the catch blocks and the two 'error' handlers.  Each call  *)
(* is an ACTIVATION.  Between two awaits an activation runs alone, so a    *)
(* step of this module takes an activation from one await to the next.     *)
(* Activations carry no data of their own: it is enough to count how many  *)
(* are parked at each await.                                               *)
(*                                                                         *)
(* The broker is external.  It is one FIFO channel of frames (wire), what  *)
(* it knows of the application's queue (queueDeclared) and what it stored  *)
(* there (queue).  Messages of all the application's queues are alike.     *)
(***************************************************************************)
EXTENDS Naturals, Sequences, Functions

CONSTANTS Message,   \* what the hooks publish, each at most once
          Declare    \* the queue declarations of setupQueues, as one frame

ASSUME DeclareAssumption == Declare \notin Message

VARIABLES
  up,                     \* the process runs
  nestReady,              \* Nest built its providers and HTTP listens
  amqpConnection,         \* the field, with the state of the object it holds
  amqpChannel,
  isAmqpChannelReady,
  rabbitRouter,           \* which object of the consumer the router holds
  setupDone,              \* the ...SetupDone flags that are true
  activations,            \* number of activations parked at each await
  pendingRabbitRequests,
  wire,                   \* frames sent on the channel and not yet read
  queueDeclared,          \* the broker has the application's queues
  queue,                  \* messages routed to a queue
  published,              \* messages handed to publish
  lost,                   \* messages nobody holds any more, and why
  silent                  \* the connection ended without an 'error' event

process == <<up, nestReady>>
fields  == <<amqpConnection, amqpChannel, isAmqpChannelReady>>
setup   == <<rabbitRouter, setupDone>>
broker  == <<queueDeclared, queue>>
vars == <<process, fields, setup, activations, pendingRabbitRequests, wire,
          broker, published, lost, silent>>

-----------------------------------------------------------------------------
Handle == {"undefined", "open", "closed"}
Router == {"undefined", "prototype", "instance"}
Flag   == {"deadLetterExchange", "queue", "consumer"}

(* The awaits of connectToRabbitMq and of the functions it awaits.         *)
Stage  == {"sleep",      \* the 3.5 s before a retry
           "connect",    \* amqpConnect
           "channel",    \* createChannel
           "exchange",   \* assertExchange
           "queue"}      \* the declarations of setupQueues

Reason == {"unroutable", \* the broker had no queue for it
           "refused",    \* publish threw and the caller ignored the result
           "severed",    \* on the wire when the connection or channel ended
           "forgotten"}  \* in pendingRabbitRequests when the process died

Because(messages, reason) == messages \X {reason}

(* Fields as they are before the constructor runs.                         *)
Idle == [s \in Stage |-> 0]

Init ==
  /\ up = FALSE /\ nestReady = FALSE
  /\ amqpConnection = "undefined" /\ amqpChannel = "undefined"
  /\ isAmqpChannelReady = FALSE
  /\ rabbitRouter = "undefined" /\ setupDone = {}
  /\ activations = Idle
  /\ pendingRabbitRequests = <<>> /\ wire = <<>>
  /\ queueDeclared \in BOOLEAN   \* a first deployment, or a later one
  /\ queue = {} /\ published = {} /\ lost = {}
  /\ silent = FALSE

-----------------------------------------------------------------------------
(* Activations.                                                            *)
Spawn(s)        == activations' = [activations EXCEPT ![s] = @ + 1]
MoveOn(s, t)    == activations' = [activations EXCEPT ![s] = @ - 1, ![t] = @ + 1]
End(s)          == activations' = [activations EXCEPT ![s] = @ - 1]
Parked(s)       == up /\ activations[s] > 0
SettingUp       == activations["exchange"] + activations["queue"] > 0

Usable == amqpConnection # "undefined" /\ amqpChannel # "undefined"
          /\ isAmqpChannelReady

(* Slip: an activation connects again whatever the fields hold.            *)
NextStageUnguarded == "connect"

(* Slip: a handle that is not open counts as missing.                      *)
NextStageReconnecting == IF amqpConnection = "open" THEN "done" ELSE "connect"

(* The guards of connectToRabbitMq in their order: the await at which an   *)
(* activation that woke up stops next, or "done" when it meets none.       *)
NextStage ==
  CASE amqpConnection = "undefined"           -> "connect"
    [] amqpConnection # "undefined"
       /\ amqpChannel = "undefined"           -> "channel"
    [] amqpChannel # "undefined"
       /\ "deadLetterExchange" \notin setupDone -> "exchange"
    [] amqpChannel # "undefined"
       /\ "deadLetterExchange" \in setupDone
       /\ "queue" \notin setupDone            -> "queue"
    [] OTHER                                  -> "done"

(* Slip: messages for a closed channel are buffered and sent all the same. *)
SendBuffered(messages) ==
  /\ wire' = wire \o messages
  /\ UNCHANGED lost

(* Handing messages to amqplib: a closed channel throws, publish catches   *)
(* and answers false, and no caller looks at the answer.                   *)
Send(messages) ==
  IF amqpChannel = "open"
  THEN /\ wire' = wire \o messages
       /\ UNCHANGED lost
  ELSE /\ lost' = lost \union Because(Range(messages), "refused")
       /\ UNCHANGED wire

(* Slip: the array is walked and not shifted.                              *)
reDriveWithoutShift ==
  IF Usable
  THEN Send(pendingRabbitRequests) /\ UNCHANGED pendingRabbitRequests
  ELSE UNCHANGED <<pendingRabbitRequests, wire, lost>>

(* Slip: the array is popped and not shifted.                              *)
reDriveLastFirst ==
  LET last == Len(pendingRabbitRequests) IN
  IF Usable
  THEN /\ Send([i \in 1 .. last |-> pendingRabbitRequests[last + 1 - i]])
       /\ pendingRabbitRequests' = <<>>
  ELSE UNCHANGED <<pendingRabbitRequests, wire, lost>>

reDrivePendingRabbitRequests ==
  IF Usable
  THEN /\ Send(pendingRabbitRequests)
       /\ pendingRabbitRequests' = <<>>
  ELSE UNCHANGED <<pendingRabbitRequests, wire, lost>>

(* Whatever travelled on a channel that ended is gone.                     *)
Sever ==
  /\ wire' = <<>>
  /\ lost' = lost \union Because(Range(wire) \ {Declare}, "severed")

(* The process ends: every field goes back to its initial value.           *)
Die ==
  /\ up' = FALSE /\ nestReady' = FALSE
  /\ amqpConnection' = "undefined" /\ amqpChannel' = "undefined"
  /\ isAmqpChannelReady' = FALSE
  /\ rabbitRouter' = "undefined" /\ setupDone' = {}
  /\ activations' = Idle
  /\ pendingRabbitRequests' = <<>> /\ wire' = <<>>
  /\ lost' = lost \union Because(Range(wire) \ {Declare}, "severed")
                  \union Because(Range(pendingRabbitRequests), "forgotten")
  /\ silent' = FALSE
  /\ UNCHANGED <<broker, published>>

-----------------------------------------------------------------------------
(* The life of the process.                                                *)

(* The constructor starts the first activation, which does not sleep and   *)
(* goes to amqpConnect.  initializeConnection sets                         *)
(* firstAttemptForConnectionAlreadyDone before that await, so every later  *)
(* activation of the process sleeps first.                                 *)
Start ==
  /\ ~up
  /\ up' = TRUE
  /\ Spawn("connect")
  /\ UNCHANGED <<nestReady, fields, setup, pendingRabbitRequests, wire, broker,
                 published, lost, silent>>

(* Nest finished its dependency injection (which waits for MongoDB) and    *)
(* main.ts listens.  Before, a controller's wrapper holds only an object   *)
(* made from its prototype.                                                *)
NestReady ==
  /\ up /\ ~nestReady
  /\ nestReady' = TRUE
  /\ UNCHANGED <<up, fields, setup, activations, pendingRabbitRequests, wire,
                 broker, published, lost, silent>>

Crash == up /\ Die

-----------------------------------------------------------------------------
(* The steps of an activation.                                             *)

(* Slip: amqpConnect is not awaited, so the field holds a promise.         *)
ConnectOkUnawaited ==
  /\ Parked("connect")
  /\ amqpConnection' = "promise"
  /\ MoveOn("connect", "channel")
  /\ UNCHANGED <<process, amqpChannel, isAmqpChannelReady, setup,
                 pendingRabbitRequests, wire, broker, published, lost, silent>>

ConnectOk ==
  /\ Parked("connect")
  /\ amqpConnection' = "open"
  /\ MoveOn("connect", "channel")
  /\ UNCHANGED <<process, amqpChannel, isAmqpChannelReady, setup,
                 pendingRabbitRequests, wire, broker, published, lost, silent>>

(* Slip: the catch block does not try again.                               *)
ConnectFailGivesUp ==
  /\ Parked("connect")
  /\ amqpConnection' = "undefined" /\ amqpChannel' = "undefined"
  /\ End("connect")
  /\ UNCHANGED <<process, isAmqpChannelReady, setup, pendingRabbitRequests,
                 wire, broker, published, lost, silent>>

(* amqpConnect threw: the catch block clears both fields and starts a new  *)
(* activation; the one that failed finds every later guard false and ends. *)
ConnectFail ==
  /\ Parked("connect")
  /\ amqpConnection' = "undefined" /\ amqpChannel' = "undefined"
  /\ MoveOn("connect", "sleep")
  /\ UNCHANGED <<process, isAmqpChannelReady, setup, pendingRabbitRequests,
                 wire, broker, published, lost, silent>>

WakeUp ==
  /\ Parked("sleep")
  /\ IF NextStage = "done"
     THEN End("sleep") /\ reDrivePendingRabbitRequests
     ELSE /\ MoveOn("sleep", NextStage)
          /\ wire' = IF NextStage = "queue" THEN Append(wire, Declare) ELSE wire
          /\ UNCHANGED <<pendingRabbitRequests, lost>>
  /\ UNCHANGED <<process, fields, setup, broker, published, silent>>

ChannelOk ==
  /\ Parked("channel")
  /\ amqpConnection = "open"
  /\ amqpChannel' = "open" /\ isAmqpChannelReady' = TRUE
  /\ MoveOn("channel", "exchange")
  /\ UNCHANGED <<process, amqpConnection, setup, pendingRabbitRequests, wire,
                 broker, published, lost, silent>>

(* createChannel on a connection that ended: the catch block starts a new  *)
(* activation, the one that failed finds amqpChannel undefined and ends.   *)
ChannelRejected ==
  /\ Parked("channel")
  /\ amqpConnection = "closed"
  /\ MoveOn("channel", "sleep")
  /\ UNCHANGED <<process, fields, setup, pendingRabbitRequests, wire, broker,
                 published, lost, silent>>

(* Slip: createRabbitRouter builds the router and does not keep it.        *)
ExchangeOkWithoutRouter ==
  /\ Parked("exchange")
  /\ amqpChannel = "open"
  /\ setupDone' = setupDone \union {"deadLetterExchange"}
  /\ MoveOn("exchange", "queue")
  /\ wire' = Append(wire, Declare)
  /\ UNCHANGED <<process, fields, rabbitRouter, pendingRabbitRequests, broker,
                 published, lost, silent>>

(* The exchange is there; createRabbitRouter takes consumer.instance as it *)
(* is now, and setupQueues sends its declarations.                         *)
ExchangeOk ==
  /\ Parked("exchange")
  /\ amqpChannel = "open"
  /\ setupDone' = setupDone \union {"deadLetterExchange"}
  /\ rabbitRouter' = IF nestReady THEN "instance" ELSE "prototype"
  /\ MoveOn("exchange", "queue")
  /\ wire' = Append(wire, Declare)
  /\ UNCHANGED <<process, fields, pendingRabbitRequests, broker, published,
                 lost, silent>>

(* Slip: nothing is re-driven once the consumers are registered.           *)
QueuesOkWithoutRedrive ==
  /\ Parked("queue")
  /\ amqpChannel = "open"
  /\ Declare \notin Range(wire)
  /\ setupDone' = setupDone \union {"queue", "consumer"}
  /\ End("queue")
  /\ UNCHANGED <<process, fields, rabbitRouter, pendingRabbitRequests, wire,
                 broker, published, lost, silent>>

(* The broker answered every declaration; setupConsumers does not await,   *)
(* so the activation runs to its end.                                      *)
QueuesOk ==
  /\ Parked("queue")
  /\ amqpChannel = "open"
  /\ Declare \notin Range(wire)
  /\ setupDone' = setupDone \union {"queue", "consumer"}
  /\ End("queue")
  /\ reDrivePendingRabbitRequests
  /\ UNCHANGED <<process, fields, rabbitRouter, broker, published, silent>>

-----------------------------------------------------------------------------
(* The connection and the channel end.  No handler resets amqpConnection   *)
(* or amqpChannel, and the 'close' event has no handler.                   *)

(* A failing assertion during the set-up rejects connectToRabbitMq, which  *)
(* nobody awaits: an unhandled rejection ends the process.                 *)
SetupRejected == up /\ SettingUp /\ Die

ConnectionError ==
  /\ up /\ amqpConnection = "open" /\ ~SettingUp
  /\ amqpConnection' = "closed"
  /\ amqpChannel' = IF amqpChannel = "undefined" THEN "undefined" ELSE "closed"
  /\ isAmqpChannelReady' = FALSE
  /\ Spawn("sleep")
  /\ Sever
  /\ UNCHANGED <<process, setup, pendingRabbitRequests, broker, published,
                 silent>>

(* The broker closes the connection on an operator's request: amqplib      *)
(* emits 'close' and no 'error'.                                           *)
ConnectionClosed ==
  /\ up /\ amqpConnection = "open" /\ ~SettingUp
  /\ amqpConnection' = "closed"
  /\ amqpChannel' = IF amqpChannel = "undefined" THEN "undefined" ELSE "closed"
  /\ silent' = TRUE
  /\ Sever
  /\ UNCHANGED <<process, isAmqpChannelReady, setup, activations,
                 pendingRabbitRequests, broker, published>>

(* Slip: the channel's 'error' handler leaves the ready flag alone.        *)
ChannelErrorStaysReady ==
  /\ up /\ amqpChannel = "open" /\ ~SettingUp
  /\ amqpChannel' = "closed"
  /\ Spawn("sleep")
  /\ Sever
  /\ UNCHANGED <<process, amqpConnection, isAmqpChannelReady, setup,
                 pendingRabbitRequests, broker, published, silent>>

ChannelError ==
  /\ up /\ amqpChannel = "open" /\ ~SettingUp
  /\ amqpChannel' = "closed"
  /\ isAmqpChannelReady' = FALSE
  /\ Spawn("sleep")
  /\ Sever
  /\ UNCHANGED <<process, amqpConnection, setup, pendingRabbitRequests, broker,
                 published, silent>>

-----------------------------------------------------------------------------
(* Slip: publish does not look at the ready flag.                          *)
publishUnready(m) ==
  /\ up /\ nestReady
  /\ m \notin published
  /\ published' = published \union {m}
  /\ Send(<<m>>)
  /\ UNCHANGED <<process, fields, setup, activations, pendingRabbitRequests, broker,
                 silent>>

(* A hook hands a message to publish.                                      *)
publish(m) ==
  /\ up /\ nestReady
  /\ m \notin published
  /\ published' = published \union {m}
  /\ IF Usable
     THEN Send(<<m>>) /\ UNCHANGED pendingRabbitRequests
     ELSE /\ pendingRabbitRequests' = Append(pendingRabbitRequests, m)
          /\ UNCHANGED <<wire, lost>>
  /\ UNCHANGED <<process, fields, setup, activations, broker, silent>>

(* The broker reads a frame.  The default exchange drops a message whose   *)
(* queue does not exist.                                                   *)
BrokerRead ==
  /\ wire # <<>>
  /\ wire' = Tail(wire)
  /\ LET frame == Head(wire) IN
       IF frame = Declare
       THEN queueDeclared' = TRUE /\ UNCHANGED <<queue, lost>>
       ELSE /\ UNCHANGED queueDeclared
            /\ IF queueDeclared
               THEN queue' = queue \union {frame} /\ UNCHANGED lost
               ELSE /\ lost' = lost \union Because({frame}, "unroutable")
                    /\ UNCHANGED queue
  /\ UNCHANGED <<process, fields, setup, activations, pendingRabbitRequests,
                 published, silent>>

-----------------------------------------------------------------------------
Next ==
  \/ Start \/ NestReady \/ Crash
  \/ ConnectOk \/ ConnectFail \/ WakeUp
  \/ ChannelOk \/ ChannelRejected \/ ExchangeOk \/ QueuesOk
  \/ SetupRejected \/ ConnectionError \/ ConnectionClosed \/ ChannelError
  \/ \E m \in Message : publish(m)
  \/ BrokerRead

(* Timers fire and the broker answers.  A single attempt to connect may    *)
(* fail, but a broker that is asked again and again is reachable in the    *)
(* end.  Nothing is assumed about restarts, crashes or losses.             *)
Fairness ==
  /\ SF_vars(ConnectOk)
  /\ WF_vars(WakeUp) /\ WF_vars(ChannelOk) /\ WF_vars(ChannelRejected)
  /\ WF_vars(ExchangeOk) /\ WF_vars(QueuesOk) /\ WF_vars(BrokerRead)

Spec     == Init /\ [][Next]_vars
FairSpec == Spec /\ Fairness

-----------------------------------------------------------------------------
(* Properties.                                                             *)

(* Every field holds a value of its type.                                  *)
TypeOK ==
  /\ up \in BOOLEAN /\ nestReady \in BOOLEAN
  /\ amqpConnection \in Handle /\ amqpChannel \in Handle
  /\ isAmqpChannelReady \in BOOLEAN
  /\ rabbitRouter \in Router /\ setupDone \subseteq Flag
  /\ activations \in [Stage -> Nat]
  /\ pendingRabbitRequests \in Seq(Message)
  /\ wire \in Seq(Message \union {Declare})
  /\ queueDeclared \in BOOLEAN
  /\ queue \subseteq Message /\ published \subseteq Message
  /\ lost \subseteq Message \X Reason
  /\ silent \in BOOLEAN

Lost == amqpConnection = "closed" \/ amqpChannel = "closed"

(* Although anybody may start an activation at any time and the guards     *)
(* read fields that other activations assign after an await, no two        *)
(* activations ever connect, open a channel or set the queues up at the    *)
(* same time, so no connection is overwritten and leaked: a second driver  *)
(* exists only once the connection is lost, when neither can do anything.  *)
SingleDriver ==
  /\ activations["connect"] > 0 => amqpConnection = "undefined"
  /\ amqpConnection # "closed" =>
       activations["connect"] + activations["channel"]
         + activations["exchange"] + activations["queue"] <= 1

(* The retries do not multiply: however often connections fail and         *)
(* handlers fire, at most two activations exist.                           *)
BoundedRetries ==
  activations["sleep"] + activations["connect"] + activations["channel"]
    + activations["exchange"] + activations["queue"] <= 2

(* The retries do not die out either: until its consumers are registered,  *)
(* a process that lost nothing has an activation on its way, whatever      *)
(* attempts failed; and once they are, it has none.                        *)
SomebodyDrives ==
  up /\ ~Lost =>
    ("consumer" \in setupDone <=> \A s \in Stage : activations[s] = 0)

(* publish hands messages to amqplib only on an open channel, unless the   *)
(* connection ended without an 'error' event.                              *)
ReadyMeansOpen == isAmqpChannelReady => amqpChannel = "open" \/ silent

(* Requests that were put aside while there was no channel do not stay     *)
(* aside once there is one: as long as any is left, an activation that     *)
(* will re-drive them is on its way.                                       *)
NothingStranded ==
  Usable /\ pendingRabbitRequests # <<>> => SettingUp

(* The consumer is registered only on queues the broker has, with a dead   *)
(* letter exchange behind them and a router that knows a handler.          *)
SetupOrder ==
  /\ "queue" \in setupDone => "deadLetterExchange" \in setupDone
                              /\ queueDeclared /\ rabbitRouter # "undefined"
  /\ "consumer" \in setupDone => "queue" \in setupDone

(* Every message a hook published is in exactly one place, exactly once:   *)
(* put aside, on the wire, in its queue or lost for one reason.            *)
Places(m) ==
  {<<"pending", i>> : i \in {j \in DOMAIN pendingRabbitRequests :
                               pendingRabbitRequests[j] = m}}
  \union {<<"wire", i>> : i \in {j \in DOMAIN wire : wire[j] = m}}
  \union (IF m \in queue THEN {<<"queue", 0>>} ELSE {})
  \union {<<"lost", r>> : r \in {s \in Reason : <<m, s>> \in lost}}

Ledger ==
  \A m \in Message :
    IF m \in published THEN \E p \in Places(m) : Places(m) = {p}
                       ELSE Places(m) = {}

(* The joint state of the two handles, the flags and the activations is    *)
(* always one of these phases; the properties above on activations and     *)
(* readiness follow from it, and it is what a step preserves.              *)
Parking(sleep, connect, channel, exchange, declare) ==
  /\ activations["sleep"] = sleep     /\ activations["connect"] = connect
  /\ activations["channel"] = channel /\ activations["exchange"] = exchange
  /\ activations["queue"] = declare

NoSetup == setupDone = {} /\ rabbitRouter = "undefined" /\ ~isAmqpChannelReady

Down ==
  /\ ~up /\ ~nestReady /\ NoSetup
  /\ amqpConnection = "undefined" /\ amqpChannel = "undefined"
  /\ Parking(0, 0, 0, 0, 0)
  /\ pendingRabbitRequests = <<>> /\ wire = <<>>

Connecting ==
  /\ up /\ NoSetup
  /\ amqpConnection = "undefined" /\ amqpChannel = "undefined"
  /\ Parking(1, 0, 0, 0, 0) \/ Parking(0, 1, 0, 0, 0)
  /\ wire = <<>>

OpeningChannel ==
  /\ up /\ NoSetup
  /\ amqpConnection = "open" /\ amqpChannel = "undefined"
  /\ Parking(0, 0, 1, 0, 0)
  /\ wire = <<>>

SettingQueuesUp ==
  /\ up /\ isAmqpChannelReady
  /\ amqpConnection = "open" /\ amqpChannel = "open"
  /\ \/ /\ Parking(0, 0, 0, 1, 0)
        /\ setupDone = {} /\ rabbitRouter = "undefined"
        /\ Declare \notin Range(wire)
     \/ /\ Parking(0, 0, 0, 0, 1)
        /\ setupDone = {"deadLetterExchange"} /\ rabbitRouter # "undefined"
        /\ queueDeclared \/ Declare \in Range(wire)

AllSetUp ==
  setupDone = Flag /\ rabbitRouter # "undefined" /\ queueDeclared

Consuming ==
  /\ up /\ isAmqpChannelReady /\ AllSetUp
  /\ amqpConnection = "open" /\ amqpChannel = "open"
  /\ Parking(0, 0, 0, 0, 0)
  /\ pendingRabbitRequests = <<>>

(* Lost before there was a channel: one or two activations go round.       *)
NeverOpened ==
  /\ up /\ NoSetup
  /\ amqpConnection = "closed" /\ amqpChannel = "undefined"
  /\ activations["sleep"] + activations["channel"] \in {1, 2}
  /\ Parking(activations["sleep"], 0, activations["channel"], 0, 0)
  /\ wire = <<>>

(* Lost afterwards; without an 'error' event the flag is left as it was.   *)
ChannelGone ==
  /\ up /\ AllSetUp
  /\ amqpConnection # "undefined" /\ amqpChannel = "closed"
  /\ Parking(activations["sleep"], 0, 0, 0, 0)
  /\ activations["sleep"] <= IF amqpConnection = "open" THEN 1 ELSE 2
  /\ isAmqpChannelReady => /\ silent /\ amqpConnection = "closed"
                           /\ pendingRabbitRequests = <<>>
  /\ wire = <<>>

Phases == Down \/ Connecting \/ OpeningChannel \/ SettingQueuesUp
          \/ Consuming \/ NeverOpened \/ ChannelGone

(* A connection or channel that ended stays unusable until the process     *)
(* restarts: no handler clears the fields, so no activation replaces them. *)
LossIsFinal ==
  [][/\ amqpConnection = "closed" /\ up' => amqpConnection' = "closed"
     /\ amqpChannel = "closed" /\ up' => amqpChannel' = "closed"]_vars

(* What a step that loses a message for a reason starts from or ends in.   *)
Newly(m, reason) == <<m, reason>> \in lost' \ lost

Explained(m) ==
  /\ Newly(m, "unroutable") => SettingUp /\ ~Lost
  /\ Newly(m, "refused")    => silent /\ amqpChannel = "closed"
  /\ Newly(m, "severed")    => ~up' \/ (Lost' /\ "consumer" \in setupDone')
  /\ Newly(m, "forgotten")  => ~up' /\ (Lost \/ "consumer" \notin setupDone)

(* No message is lost without the one cause its reason names.  The broker  *)
(* drops messages only of a process that has not registered its consumers  *)
(* yet; publish throws only on a channel that ended in silence; frames are *)
(* cut off only when a process ends or loses a connection it consumes on;  *)
(* and a process that consumes and lost nothing takes no request with it   *)
(* that was put aside.                                                     *)
LossesExplained == [][\A m \in Message : Explained(m)]_vars

(* The order in which messages reach the broker: those on the wire, then   *)
(* those put aside.                                                        *)
Line == wire \o pendingRabbitRequests

Before(s, m, k) == \E i, j \in DOMAIN s : i < j /\ s[i] = m /\ s[j] = k

Overtakes(m, k) ==
  k \in Range(Line) /\ ~Before(Line, m, k) /\ Before(Line', m, k)

(* Messages are sent in the order the hooks published them, over put       *)
(* aside, re-drive, failed attempts and losses.  The one exception is      *)
(* between the channel and the end of the set-up: publish already sends    *)
(* (line 441) while reDrivePendingRabbitRequests has not run, so a message *)
(* published then overtakes those put aside, and no other does.            *)
OvertakenOnlyInSetup ==
  [][\A m, k \in Message :
       Overtakes(m, k) => /\ SettingUp /\ m \notin published
                          /\ k \in Range(pendingRabbitRequests)]_vars

(* A process that starts, and neither dies nor loses its connection, ends  *)
(* up consuming, however many attempts to connect fail.                    *)
Boots == up ~> "consumer" \in setupDone \/ Lost \/ ~up

(* A request put aside leaves the array unless the connection is lost.     *)
PendingLeaves ==
  \A m \in Message :
    m \in Range(pendingRabbitRequests)
      ~> m \notin Range(pendingRabbitRequests) \/ Lost

(* The service keeps the promise of module Outbox.                         *)
Outbox == INSTANCE Outbox WITH
  where <- [m \in Message |->
              CASE m \in Range(pendingRabbitRequests) -> "aside"
                [] m \in Range(wire)                  -> "sent"
                [] m \in queue                           -> "queued"
                [] \E r \in Reason : <<m, r>> \in lost   -> "lost"
                [] OTHER                                 -> "unpublished"]

ImplementsOutbox == Outbox!Spec

-----------------------------------------------------------------------------
(* What the code says of itself and does not do.                           *)

(* The log of connectToRabbitMq (line 100), which the 'error' handlers of  *)
(* the connection and the channel lead to, says the service is retrying to *)
(* connect; so a lost connection should come back.                         *)
Reconnects == up /\ amqpConnection = "closed" ~> amqpConnection = "open" \/ ~up

(* The log of initializeChannel (line 187) says that from then on messages *)
(* can be published; so none should be dropped for want of a queue.        *)
ReadyChannelDelivers == \A m \in Message : <<m, "unroutable">> \notin lost

(* BuyerConsumer's handlers print the services they expect on this         *)
(* (buyer.consumer.ts, line 17); so the router should hold the instance of *)
(* the consumer and not an object made from its prototype.                 *)
RouterHoldsInstances == rabbitRouter # "prototype"
=============================================================================
