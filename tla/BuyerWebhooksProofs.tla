-------------------------- MODULE BuyerWebhooksProofs --------------------------
(***************************************************************************)
(* Proofs about BuyerWebhooks, for every set of messages and every bound:  *)
(* a step of the composition is a step, or a stutter, of each of its       *)
(* parts.  So the invariants proved of AmqpService and of RabbitConsumer   *)
(* hold of it, and what relates the two parts follows from both.           *)
(***************************************************************************)
EXTENDS BuyerWebhooks, AmqpLedgerProofs

Proved == INSTANCE RabbitConsumerProofs WITH
  channel <- ConsumerChannel, router <- ConsumerRouter,
  Options <- {{}}, Foreign <- {}

-----------------------------------------------------------------------------
(* The connection.                                                         *)

(* Every step of the composition is one of the service's, or leaves it as  *)
(* it is.                                                                  *)
LEMMA ServiceStep == [WebhookNext]_webhookVars => [Next]_vars
BY DEF WebhookNext, Connect, Register, Lose, ProcessEnds, Route, Hook, Deliver,
       Post, EndHandler, Settle, HandlerEndsLate, CancelConsumer, Alone,
       webhookVars, Next

(* So what is proved of AmqpService may be used here.                      *)
LEMMA ServiceCorrect == WebhookSpec => Spec
<1>1. WebhookInit => Init
  BY DEF WebhookInit
<1> QED BY <1>1, ServiceStep, PTL DEF WebhookSpec, Spec

-----------------------------------------------------------------------------
(* The consumers.                                                          *)

(* The consumers are registered on a channel that is open or lost.         *)
LEMMA ConsumerPhases ==
  ASSUME TypeOK, Phases
  PROVE  /\ "consumer" \in setupDone => /\ Consuming \/ ChannelGone
                                        /\ amqpChannel \in {"open", "closed"}
                                        /\ rabbitRouter \in {"prototype", "instance"}
         /\ "consumer" \notin setupDone => ConsumerChannel = "none"
BY DEF Phases, Down, Connecting, OpeningChannel, SettingQueuesUp, Consuming,
       NeverOpened, ChannelGone, AllSetUp, NoSetup, Flag, ConsumerChannel, TypeOK,
       Router

(* Every step of the composition is one of the consumers', or leaves them  *)
(* as they are.                                                            *)
LEMMA ConsumerStep ==
  ASSUME TypeOK, Phases, [WebhookNext]_webhookVars
  PROVE  [Consumer!Next]_(Consumer!vars)
<1> DEFINE Same == UNCHANGED <<ConsumerChannel, ConsumerRouter>>
<1>s. ASSUME Same, UNCHANGED consumption PROVE UNCHANGED Consumer!vars
  BY <1>s DEF consumption, Consumer!vars, Consumer!connection, Consumer!delivery,
          Consumer!history, Consumer!bounds
<1>1. CASE Connect
  <2>1. UNCHANGED consumption
    BY <1>1 DEF Connect, Alone
  <2>2. ASSUME "consumer" \notin setupDone, "consumer" \notin setupDone' PROVE Same
    BY <2>2 DEF ConsumerChannel, ConsumerRouter
  <2>3. ASSUME UNCHANGED <<amqpChannel, rabbitRouter, setupDone>> PROVE Same
    BY <2>3 DEF ConsumerChannel, ConsumerRouter
  <2>4. ASSUME Start \/ NestReady \/ ConnectOk \/ WakeUp \/ ChannelRejected PROVE Same
    <3>1. UNCHANGED <<amqpChannel, rabbitRouter, setupDone>>
      BY <2>4 DEF Start, NestReady, ConnectOk, WakeUp, ChannelRejected, fields, setup
    <3> QED BY <2>3, <3>1
  <2>5. ASSUME ConnectFail \/ ChannelOk \/ ExchangeOk PROVE Same
    <3>1. "consumer" \notin setupDone
      BY <2>5, ConsumerPhases
      DEF ConnectFail, ChannelOk, ExchangeOk, Parked, Consuming, ChannelGone, Parking
    <3>2. "consumer" \notin setupDone'
      BY <2>5, <3>1 DEF ConnectFail, ChannelOk, ExchangeOk, setup
    <3> QED BY <2>2, <3>1, <3>2
  <2> QED BY <1>1, <1>s, <2>1, <2>4, <2>5 DEF Connect, Alone
<1>2. CASE Register
  <2>1. rabbitRouter \in {"prototype", "instance"}
    BY <1>2 DEF Register, QueuesOk, Parked, Phases, Down, Connecting, OpeningChannel,
       SettingQueuesUp, Consuming, NeverOpened, ChannelGone, Parking, TypeOK, Router
  <2> QED BY <1>2, <2>1 DEF Register, Consumer!Next
<1>3. CASE Lose
  <2>1. CASE ConsumerChannel = "open"
    BY <1>3, <2>1 DEF Lose, Consumer!Next
  <2>2. CASE ConsumerChannel # "open"
    <3>1. UNCHANGED setup
      BY <1>3 DEF Lose, ConnectionError, ConnectionClosed, ChannelError
    <3>2. "consumer" \in setupDone => amqpChannel = "closed" /\ amqpChannel' = "closed"
      BY <1>3, <2>2, ConsumerPhases
      DEF Lose, ConnectionError, ConnectionClosed, ChannelError, ConsumerChannel
    <3> QED BY <1>3, <1>s, <2>2, <3>1, <3>2
            DEF Lose, setup, ConsumerChannel, ConsumerRouter
  <2> QED BY <2>1, <2>2
<1>4. CASE ProcessEnds
  BY <1>4 DEF ProcessEnds, Consumer!Next
<1>5. CASE Route
  <2>1. Same
    BY <1>5 DEF Route, BrokerRead, fields, setup, ConsumerChannel, ConsumerRouter
  <2>2. CASE Consumer!DeclareQueues
    BY <2>2 DEF Consumer!Next
  <2>3. ASSUME queue' # queue, Consumer!publish(Head(wire), {})
        PROVE  Consumer!Next
    <3>1. Head(wire) \in Message
      BY <1>5, <2>3 DEF Route, BrokerRead, TypeOK
    <3> QED BY <2>3, <3>1 DEF Consumer!Next, Consumer!Step
  <2>4. CASE UNCHANGED consumption
    BY <1>s, <2>1, <2>4
  <2> QED BY <1>5, <2>2, <2>3, <2>4 DEF Route
<1>6. ASSUME NEW m \in Message, Hook(m) PROVE [Consumer!Next]_(Consumer!vars)
  BY <1>6, <1>s DEF Hook, Alone, publish, fields, setup, ConsumerChannel, ConsumerRouter
<1>7. ASSUME NEW m \in Message,
             Deliver(m) \/ Post(m) \/ EndHandler(m) \/ Settle(m) \/ HandlerEndsLate(m)
      PROVE  Consumer!Next
  BY <1>7 DEF Deliver, Post, EndHandler, Settle, HandlerEndsLate, Consumer!Next,
          Consumer!Step
<1>8. ASSUME NEW q \in Consumer!Queue, CancelConsumer(q) PROVE Consumer!Next
  BY <1>8 DEF CancelConsumer, Consumer!Next
<1>9. CASE UNCHANGED webhookVars
  BY <1>9, <1>s DEF webhookVars, vars, fields, setup, ConsumerChannel, ConsumerRouter
<1> QED BY <1>1, <1>2, <1>3, <1>4, <1>5, <1>6, <1>7, <1>8, <1>9 DEF WebhookNext

(* Seen from the consumers, the connection does what RabbitConsumer takes  *)
(* it to do.                                                               *)
THEOREM ConsumerCorrect == WebhookSpec => ConsumerSpec
<1>1. WebhookInit => Consumer!Init
  BY DEF WebhookInit
<1>2. IInv /\ [WebhookNext]_webhookVars => [Consumer!Next]_(Consumer!vars)
  BY ConsumerStep DEF IInv
<1> QED BY <1>1, <1>2, Inductive, ServiceCorrect, PTL DEF WebhookSpec, ConsumerSpec, Consumer!Spec

(* The consumers' module and the one that proves about it speak of the     *)
(* same behaviours.                                                        *)
LEMMA SameInit == Consumer!Init => Proved!Init
BY DEF Consumer!Init, Proved!Init

LEMMA SameNext == [Consumer!Next]_(Consumer!vars) => [Proved!Next]_(Proved!vars)
BY DEF Consumer!Next, Proved!Next, Consumer!Step, Proved!Step,
       Consumer!publish, Proved!publish, Consumer!MaxRetriesHeader,
       Proved!MaxRetriesHeader, Consumer!Deliver, Proved!Deliver,
       Consumer!CallGateway, Proved!CallGateway, Consumer!Return,
       Proved!Return, Consumer!Throw, Proved!Throw, Consumer!Exhausted,
       Proved!Exhausted, Consumer!Settle, Proved!Settle,
       Consumer!EndTooLate, Proved!EndTooLate, Consumer!LoseChannel,
       Proved!LoseChannel, Consumer!Crash, Proved!Crash, Consumer!Stop,
       Proved!Stop, Consumer!TakeBack, Proved!TakeBack,
       Consumer!DeclareQueues, Proved!DeclareQueues, Consumer!Restart,
       Proved!Restart, Consumer!Cancel, Proved!Cancel, Consumer!Delete,
       Proved!Delete, Consumer!Running, Proved!Running, Consumer!Frame,
       Proved!Frame, Consumer!Queue, Proved!Queue, Consumer!Searches,
       Proved!Searches, Consumer!Selects, Proved!Selects, Consumer!vars,
       Proved!vars, Consumer!connection, Proved!connection,
       Consumer!delivery, Proved!delivery, Consumer!history,
       Proved!history, Consumer!bounds, Proved!bounds

(* What is assumed of webhooks is what RabbitConsumer assumes, so its      *)
(* invariant is inductive here too.                                        *)
LEMMA ConsumerInductive ==
  /\ Proved!Init => Proved!IInv
  /\ Proved!IInv /\ [Proved!Next]_(Proved!vars) => Proved!IInv'
<1>1. /\ DOMAIN QueueOf = Message /\ {} \subseteq Message
      /\ {{}} \subseteq {{}} \union {{n} : n \in 0..5}
      /\ MaxLosses \in Nat /\ MaxDeletions \in Nat /\ MaxDeliveries \in Nat
  BY HookAssumption, WebhookBoundAssumption
<1> QED BY <1>1, Proved!Inductive

-----------------------------------------------------------------------------
(* What relates the two parts.                                             *)

(* A message is with the consumers' queues when it is in the service's.    *)
Arrived == \A m \in Message : place[m] # "unpublished" <=> m \in queue

(* Nobody but on_search fails on an instance.                              *)
Blame ==
  \A m \in Message \ Consumer!Searches :
    handler[m] \in {"nack", "reject"} => rabbitRouter = "prototype"

WInv == IInv /\ Accounted /\ Proved!IInv /\ Arrived /\ Blame /\ AnswersFollowWebhooks

(* What the invariants of the parts say here.                              *)
LEMMA Parts ==
  ASSUME Proved!IInv
  PROVE  /\ place \in [Message -> Consumer!Place]
         /\ handler \in [Message -> Consumer!Handler]
         /\ answers \in [Message -> Nat]
         /\ \A m \in Message : place[m] = "unpublished" => handler[m] = "idle"
         /\ ConsumerChannel # "open" => \A m \in Message : handler[m] \notin Consumer!Frame
BY DEF Proved!IInv, Proved!TypeOK, Proved!Place, Proved!Handler, Proved!Frame,
       Consumer!Place, Consumer!Handler, Consumer!Frame, Proved!Budget, Proved!Working,
       Proved!HandlersMatchDeliveries

(* Only publishing brings a message to the consumers.                      *)
LEMMA PlacesStep ==
  ASSUME Proved!IInv, NEW k \in Message, [Consumer!Next]_(Consumer!vars),
         \A m \in Message : ~Consumer!publish(m, {})
  PROVE  place'[k] = "unpublished" <=> place[k] = "unpublished"
<1> USE Parts
<1>1. ASSUME NEW m \in Message, Consumer!Step(m)
      PROVE  place'[k] = "unpublished" <=> place[k] = "unpublished"
  BY <1>1 DEF Consumer!Step, Consumer!Deliver, Consumer!CallGateway, Consumer!Return,
     Consumer!Throw, Consumer!Settle, Consumer!EndTooLate, Consumer!Stop,
     Consumer!TakeBack, Consumer!delivery, Consumer!Frame, Consumer!Place
<1>2. ASSUME NEW q \in Consumer!Queue, Consumer!Cancel(q)
      PROVE  place'[k] = "unpublished" <=> place[k] = "unpublished"
  BY <1>2 DEF Consumer!Cancel
<1>3. ASSUME \/ Consumer!LoseChannel \/ Consumer!Crash \/ Consumer!DeclareQueues
             \/ \E r \in {"prototype", "instance"} : Consumer!Restart(r)
             \/ UNCHANGED Consumer!vars
      PROVE  place'[k] = "unpublished" <=> place[k] = "unpublished"
  BY <1>3 DEF Consumer!LoseChannel, Consumer!Crash, Consumer!Stop, Consumer!TakeBack,
     Consumer!DeclareQueues, Consumer!Restart, Consumer!vars, Consumer!delivery
<1> QED BY <1>1, <1>2, <1>3 DEF Consumer!Next

(* The broker reads the frames of webhooks, and nobody else publishes.     *)
LEMMA ArrivedStep ==
  ASSUME IInv, Proved!IInv, Arrived, [WebhookNext]_webhookVars
  PROVE  Arrived'
<1> SUFFICES ASSUME NEW k \in Message
             PROVE  (place'[k] # "unpublished" <=> k \in queue')
  BY DEF Arrived
<1>1. CASE Route /\ queue' # queue
  <2>1. /\ Consumer!publish(Head(wire), {}) /\ Head(wire) \in Message
        /\ queue' = queue \union {Head(wire)}
    BY <1>1 DEF Route, BrokerRead, IInv, TypeOK
  <2> QED BY <2>1, Parts DEF Consumer!publish, Arrived, Consumer!Place
<1>2. CASE ~(Route /\ queue' # queue)
  <2>1. [Consumer!Next]_(Consumer!vars)
    BY ConsumerStep DEF IInv
  <2>2. queue' = queue
    BY <1>2 DEF WebhookNext, Connect, Register, Lose, ProcessEnds, Route, Hook,
       Deliver, Post, EndHandler, Settle, HandlerEndsLate, CancelConsumer, Alone,
       webhookVars, vars, broker, Start, NestReady, ConnectOk, ConnectFail, WakeUp,
       ChannelOk, ChannelRejected, ExchangeOk, QueuesOk, ConnectionError,
       ConnectionClosed, ChannelError, Crash, SetupRejected, Die, publish
  <2>3. CASE \A m \in Message : ~Consumer!publish(m, {})
    BY <2>1, <2>2, <2>3, PlacesStep DEF Arrived
  <2>4. ASSUME NEW m \in Message, Consumer!publish(m, {}) PROVE FALSE
    <3>1. place[m] = "unpublished" /\ place'[m] # "unpublished" /\ handler' = handler
      BY <2>4, Parts DEF Consumer!publish
    <3>2. CASE \E n \in Message : Deliver(n) \/ Post(n) \/ EndHandler(n) \/ Settle(n)
                                  \/ HandlerEndsLate(n)
      BY <3>1, <3>2, Parts
      DEF Deliver, Post, EndHandler, Settle, HandlerEndsLate, Consumer!Deliver,
          Consumer!CallGateway, Consumer!Return, Consumer!Throw, Consumer!Settle,
          Consumer!EndTooLate, Consumer!Stop, Consumer!TakeBack, Consumer!delivery,
          Consumer!Frame, Consumer!Running
    <3>3. CASE \/ Connect \/ Register \/ Lose \/ ProcessEnds
               \/ (\E n \in Message : Hook(n))
               \/ \E q \in Consumer!Queue : CancelConsumer(q)
               \/ UNCHANGED webhookVars
      BY <3>1, <3>3, Parts
      DEF Connect, Register, Lose, ProcessEnds, Hook, CancelConsumer, Alone,
          webhookVars, consumption, Consumer!Restart, Consumer!LoseChannel,
          Consumer!Crash, Consumer!Stop, Consumer!TakeBack, Consumer!Cancel,
          Consumer!delivery
    <3>4. CASE Route /\ queue' = queue
      BY <3>1, <3>4 DEF Route, consumption, Consumer!DeclareQueues, Consumer!delivery
    <3> QED BY <1>2, <2>2, <3>2, <3>3, <3>4 DEF WebhookNext
  <2> QED BY <2>3, <2>4
<1> QED BY <1>1, <1>2

(* The router a handler failed on is the one its process keeps.            *)
LEMMA BlameStep ==
  ASSUME IInv, Proved!IInv, Blame, [WebhookNext]_webhookVars, Proved!IInv'
  PROVE  Blame'
<1> SUFFICES ASSUME NEW k \in Message \ Consumer!Searches,
                    handler'[k] \in {"nack", "reject"}
             PROVE  rabbitRouter' = "prototype"
  BY DEF Blame, Consumer!Searches
<1> USE Parts
<1>1. ConsumerChannel' = "open"
  BY DEF Proved!IInv, Proved!TypeOK, Proved!HandlersMatchDeliveries, Proved!Frame
<1>2. ASSUME NEW m \in Message, Consumer!Throw(m), UNCHANGED vars
      PROVE  rabbitRouter' = "prototype"
  <2>1. CASE m = k
    BY <1>2, <2>1, ConsumerPhases
    DEF Consumer!Throw, ConsumerRouter, vars, setup, IInv
  <2>2. CASE m # k
    BY <1>2, <2>2 DEF Consumer!Throw, Blame, vars, setup
  <2> QED BY <2>1, <2>2
<1>3. ASSUME handler[k] \in {"nack", "reject"}, ConsumerChannel = "open",
             UNCHANGED setup \/ Connect
      PROVE  rabbitRouter' = "prototype"
  <2>1. rabbitRouter = "prototype"
    BY <1>3 DEF Blame
  <2>2. "consumer" \in setupDone
    BY <1>3 DEF ConsumerChannel
  <2>3. ~ExchangeOk
    BY <2>2, ConsumerPhases DEF ExchangeOk, Parked, Consuming, ChannelGone, Parking, IInv
  <2>4. UNCHANGED setup
    BY <1>3, <2>3 DEF Connect, Alone, Start, NestReady, ConnectOk, ConnectFail, WakeUp,
       ChannelOk, ChannelRejected
  <2> QED BY <2>1, <2>4 DEF setup
<1>4. ASSUME UNCHANGED handler, UNCHANGED setup \/ Connect
      PROVE  rabbitRouter' = "prototype"
  <2>1. handler[k] \in {"nack", "reject"}
    BY <1>4
  <2>2. ConsumerChannel = "open"
    BY <2>1 DEF Consumer!Frame
  <2> QED BY <1>3, <1>4, <2>1, <2>2
<1>5. CASE Connect \/ Route \/ (\E m \in Message : Hook(m)) \/ UNCHANGED webhookVars
      \/ \E q \in Consumer!Queue : CancelConsumer(q)
  <2>1. UNCHANGED handler
    BY <1>5 DEF Connect, Alone, Route, Hook, consumption, webhookVars,
       Consumer!DeclareQueues, Consumer!publish, CancelConsumer, Consumer!Cancel
  <2>2. UNCHANGED setup \/ Connect
    BY <1>5 DEF Route, BrokerRead, Hook, Alone, publish, webhookVars, CancelConsumer, vars
  <2> QED BY <1>4, <2>1, <2>2
<1>6. CASE Register
  BY <1>6 DEF Register, Consumer!Restart, Consumer!Frame
<1>7. CASE Lose
  <2>1. ConsumerChannel = "open" => FALSE
    BY <1>1, <1>7 DEF Lose, Consumer!LoseChannel
  <2> QED BY <1>7, <2>1 DEF Lose, consumption, Consumer!Frame
<1>8. CASE ProcessEnds \/ \E m \in Message : HandlerEndsLate(m)
  BY <1>8 DEF ProcessEnds, HandlerEndsLate, Consumer!Crash, Consumer!EndTooLate, Consumer!Stop
<1>9. ASSUME NEW m \in Message, Deliver(m) \/ Post(m) \/ EndHandler(m) \/ Settle(m)
      PROVE  rabbitRouter' = "prototype"
  <2>1. CASE Consumer!Throw(m)
    BY <1>2, <1>9, <2>1
    DEF Deliver, Post, EndHandler, Settle, Consumer!Deliver, Consumer!CallGateway,
        Consumer!Settle, Consumer!Throw, webhookVars
  <2>2. CASE ~Consumer!Throw(m)
    <3>1. UNCHANGED setup
      BY <1>9 DEF Deliver, Post, EndHandler, Settle, vars
    <3>2. handler[k] \in {"nack", "reject"}
      BY <1>9, <2>2 DEF Deliver, Post, EndHandler, Settle, Consumer!Deliver,
         Consumer!CallGateway, Consumer!Return, Consumer!Settle
    <3>3. ConsumerChannel = "open"
      BY <3>2 DEF Consumer!Frame
    <3> QED BY <1>3, <3>1, <3>2, <3>3
  <2> QED BY <2>1, <2>2
<1> QED BY <1>5, <1>6, <1>7, <1>8, <1>9 DEF WebhookNext

(* Each handler but that of on_track posts on the path of its queue.       *)
LEMMA HandlerPaths ==
  ASSUME NEW q \in Hooks
  PROVE  \/ Handlers[q].path = q
         \/ q = "on_track" /\ Handlers[q].path = "on_confirm"
BY DEF Hooks, Handlers, Ondc!Send, Ondc!Respond, Ondc!onSearch, Ondc!onSelect,
       Ondc!onInit, Ondc!onConfirm, Ondc!onCancel, Ondc!onUpdate, Ondc!onStatus,
       Ondc!onRating, Ondc!onSupport

(* A handler posts for the message it was given, on the path of its queue. *)
LEMMA AnswersStep ==
  ASSUME WInv, Arrived', [WebhookNext]_webhookVars,
         [Consumer!Next]_(Consumer!vars)
  PROVE  AnswersFollowWebhooks'
<1> USE Parts DEF WInv
<1>1. \A m \in queue : m \in Message
  BY DEF IInv, TypeOK
<1>2. ASSUME NEW m \in queue
      PROVE  m \in queue' /\ (answers[m] >= 1 => answers'[m] >= 1)
  <2>1. /\ m \in Message /\ place[m] # "unpublished"
        /\ answers[m] \in Nat /\ (answers[m] >= 1 => answers[m] + 1 >= 1)
    BY <1>1 DEF Arrived
  <2>2. answers[m] >= 1 => answers'[m] >= 1
    BY <2>1 DEF Consumer!Next, Consumer!Step, Consumer!publish, Consumer!Deliver,
       Consumer!CallGateway, Consumer!Return, Consumer!Throw, Consumer!Settle,
       Consumer!EndTooLate, Consumer!LoseChannel, Consumer!Crash, Consumer!Stop,
       Consumer!DeclareQueues, Consumer!Restart, Consumer!Cancel, Consumer!vars,
       Consumer!history
  <2>3. m \in queue'
    BY DEF WebhookNext, Connect, Register, Lose, ProcessEnds, Route, Hook,
       Deliver, Post, EndHandler, Settle, HandlerEndsLate, CancelConsumer, Alone,
       webhookVars, vars, broker, Start, NestReady, ConnectOk, ConnectFail, WakeUp,
       ChannelOk, ChannelRejected, ExchangeOk, QueuesOk, ConnectionError,
       ConnectionClosed, ChannelError, Crash, SetupRejected, Die, publish, BrokerRead
  <2> QED BY <2>2, <2>3
<1>3. CASE gateway' = gateway
  BY <1>1, <1>2, <1>3 DEF AnswersFollowWebhooks
<1>4. ASSUME NEW m \in Message, Post(m), gateway' = gateway \union {AnswerTo(m)}
      PROVE  AnswersFollowWebhooks'
  <2>1. place[m] # "unpublished" /\ m \in queue /\ m \in queue' /\ answers'[m] >= 1
    BY <1>2, <1>4 DEF Post, Consumer!CallGateway, Arrived
  <2>2. /\ AnswerTo(m).webhook = m
        /\ \/ AnswerTo(m).path = QueueOf[m]
           \/ QueueOf[m] = "on_track" /\ AnswerTo(m).path = "on_confirm"
    BY HandlerPaths, HookAssumption DEF AnswerTo
  <2> QED BY <1>1, <1>2, <1>4, <2>1, <2>2 DEF AnswersFollowWebhooks
<1>5. gateway' = gateway
      \/ \E m \in Message : Post(m) /\ gateway' = gateway \union {AnswerTo(m)}
  BY DEF WebhookNext, Connect, Register, Lose, ProcessEnds, Route, Hook, Deliver,
     Post, EndHandler, Settle, HandlerEndsLate, CancelConsumer, Alone, webhookVars
<1> QED BY <1>3, <1>4, <1>5

-----------------------------------------------------------------------------
(* The theorems.                                                           *)

(* The invariants of the parts and what relates them hold together.        *)
LEMMA WInvInit == WebhookInit => WInv
<1> SUFFICES ASSUME WebhookInit PROVE WInv
  OBVIOUS
<1>1. IInv /\ Accounted
  BY TypeInit, PhaseInit, AccountedInit DEF WebhookInit, IInv, LInv
<1>2. Proved!IInv
  BY SameInit, ConsumerInductive DEF WebhookInit
<1>3. Arrived /\ Blame /\ AnswersFollowWebhooks
  BY DEF WebhookInit, Init, Consumer!Init, Arrived, Blame, AnswersFollowWebhooks
<1> QED BY <1>1, <1>2, <1>3 DEF WInv

LEMMA WInvStep == WInv /\ [WebhookNext]_webhookVars => WInv'
<1> SUFFICES ASSUME WInv, [WebhookNext]_webhookVars PROVE WInv'
  OBVIOUS
<1>1. [Next]_vars /\ [Consumer!Next]_(Consumer!vars)
  BY ServiceStep, ConsumerStep DEF WInv, IInv
<1>2. IInv' /\ Accounted'
  BY <1>1, TypeStep, PhaseStep, LedgerStep DEF WInv, IInv, LInv
<1>3. Proved!IInv'
  BY <1>1, SameNext, ConsumerInductive DEF WInv
<1>4. Arrived' /\ Blame'
  BY <1>3, ArrivedStep, BlameStep DEF WInv
<1>5. AnswersFollowWebhooks'
  BY <1>1, <1>4, AnswersStep
<1> QED BY <1>2, <1>3, <1>4, <1>5 DEF WInv

(* The inductive invariant of the composition.                             *)
THEOREM WebhookInductive == WebhookSpec => []WInv
BY WInvInit, WInvStep, PTL DEF WebhookSpec

(* The gateway hears only of webhooks that arrived, on their paths.        *)
THEOREM AnswersFollowWebhooksCorrect == WebhookSpec => []AnswersFollowWebhooks
BY WebhookInductive, PTL DEF WInv

(* A webhook has one fate.                                                 *)
THEOREM OneFateCorrect == WebhookSpec => []OneFate
<1>1. WInv => OneFate
  <2> SUFFICES ASSUME WInv, NEW m \in Message
               PROVE  IF m \in published THEN \E f \in Fates(m) : Fates(m) = {f}
                                         ELSE Fates(m) = {}
    BY DEF OneFate
  <2>1. OnePlace(m) /\ (place[m] # "unpublished" <=> m \in queue)
    BY DEF WInv, Accounted, Arrived
  <2>2. Fates(m) = (IF Aside(m) \/ OnWire(m) THEN {"under way"} ELSE {})
                   \union (IF Gone(m) THEN {"lost"} ELSE {})
                   \union (IF Queued(m) THEN {place[m]} ELSE {})
    BY <2>1 DEF Fates, Aside, OnWire, Gone, Queued
  <2>3. CASE m \in published
    <3>1. \E f : Fates(m) = {f}
      BY <2>1, <2>2, <2>3 DEF OnePlace
    <3> QED BY <2>3, <3>1
  <2>4. CASE m \notin published
    BY <2>1, <2>2, <2>4 DEF OnePlace
  <2> QED BY <2>3, <2>4
<1> QED BY <1>1, WebhookInductive, PTL

(* Only a process whose router holds a prototype gives up another webhook  *)
(* than a search.                                                          *)
THEOREM OnlyPrototypesGiveUpCorrect == WebhookSpec => OnlyPrototypesGiveUp
<1>1. ASSUME WInv, [WebhookNext]_webhookVars, NEW m \in Message \ Consumer!Searches,
             place[m] # "dead", place'[m] = "dead"
      PROVE  rabbitRouter = "prototype"
  <2>1. [Consumer!Next]_(Consumer!vars)
    BY <1>1, ConsumerStep DEF WInv, IInv
  <2>2. handler[m] = "reject"
    BY <1>1, <2>1, Parts
    DEF WInv, Consumer!Next, Consumer!Step, Consumer!publish, Consumer!Deliver,
       Consumer!CallGateway, Consumer!Return, Consumer!Throw, Consumer!Settle,
       Consumer!EndTooLate, Consumer!LoseChannel, Consumer!Crash, Consumer!Stop,
       Consumer!TakeBack, Consumer!DeclareQueues, Consumer!Restart, Consumer!Cancel,
       Consumer!vars, Consumer!delivery, Consumer!Frame
  <2> QED BY <1>1, <2>2 DEF WInv, Blame
<1>2. WInv /\ [WebhookNext]_webhookVars =>
        [\A m \in Message \ Consumer!Searches :
           place[m] # "dead" /\ place'[m] = "dead" => rabbitRouter = "prototype"
        ]_webhookVars
  BY <1>1
<1> QED BY <1>2, WebhookInductive, PTL DEF WebhookSpec, OnlyPrototypesGiveUp

(* A process that lost its channel neither fills nor empties the queues.   *)
THEOREM LossFreezesQueuesCorrect == WebhookSpec => LossFreezesQueues
<1>1. ASSUME WInv, [WebhookNext]_webhookVars, Lost, up'
      PROVE  /\ queue' = queue
             /\ \A m \in Message :
                  place[m] \in {"unpublished", "ready"} => place'[m] = place[m]
  <2>1. wire = <<>> /\ amqpChannel # "open" /\ activations["queue"] = 0
    BY <1>1 DEF WInv, IInv, Phases, Down, Connecting, OpeningChannel, SettingQueuesUp,
       Consuming, NeverOpened, ChannelGone, Lost, Parking
  <2>2. ConsumerChannel # "open"
    BY <2>1 DEF ConsumerChannel
  <2>3. CASE Connect \/ Lose \/ (\E m \in Message : Hook(m)) \/ UNCHANGED webhookVars
    BY <2>2, <2>3
    DEF Connect, Lose, Hook, Alone, consumption, webhookVars, vars, broker, Start,
       NestReady, ConnectOk, ConnectFail, WakeUp, ChannelOk, ChannelRejected, ExchangeOk,
       ConnectionError, ConnectionClosed, ChannelError, publish
  <2>4. ASSUME NEW m \in Message, Deliver(m) \/ Post(m) \/ EndHandler(m) \/ Settle(m)
        PROVE  UNCHANGED vars /\ place' = place
    <3>1. handler[m] \notin Consumer!Frame
      BY <1>1, <2>2, Parts DEF WInv
    <3> QED BY <2>2, <2>4, <3>1
            DEF Deliver, Post, EndHandler, Settle, Consumer!Deliver, Consumer!CallGateway,
                Consumer!Return, Consumer!Throw, Consumer!Settle, Consumer!delivery
  <2>5. ~Register /\ ~Route /\ ~\E q \in Consumer!Queue : CancelConsumer(q)
    BY <2>1, <2>2 DEF Register, QueuesOk, Route, BrokerRead, CancelConsumer, Consumer!Cancel
  <2>6. ~ProcessEnds /\ ~\E m \in Message : HandlerEndsLate(m)
    BY <1>1 DEF ProcessEnds, HandlerEndsLate, Crash, SetupRejected, Die
  <2>7. CASE \E m \in Message : Deliver(m) \/ Post(m) \/ EndHandler(m) \/ Settle(m)
    BY <2>4, <2>7 DEF vars, broker
  <2> QED BY <1>1, <2>3, <2>5, <2>6, <2>7 DEF WebhookNext
<1>2. WInv /\ [WebhookNext]_webhookVars =>
        [Lost /\ up' =>
           /\ queue' = queue
           /\ \A m \in Message :
                place[m] \in {"unpublished", "ready"} => place'[m] = place[m]
        ]_webhookVars
  BY <1>1
<1> QED BY <1>2, WebhookInductive, PTL DEF WebhookSpec, LossFreezesQueues

-----------------------------------------------------------------------------
(* Attempts.                                                               *)

(* What the hooks ask for becomes the header 3 of every message.           *)
Headers == \A m \in Message : place[m] # "unpublished" => header[m] = {3}

(* Only publish writes a header, and a hook gives it no options.           *)
LEMMA HeadersStep ==
  ASSUME Proved!IInv, Headers, [Consumer!Next]_(Consumer!vars)
  PROVE  Headers'
<1> SUFFICES ASSUME NEW k \in Message, place'[k] # "unpublished" PROVE header'[k] = {3}
  BY DEF Headers
<1>0. header \in [Message -> {{}} \union {{n} : n \in 1..5}]
  BY DEF Proved!IInv, Proved!TypeOK
<1>1. ASSUME NEW m \in Message, NEW o \in {{}}, Consumer!publish(m, o)
      PROVE  header'[k] = {3}
  BY <1>0, <1>1, Parts DEF Consumer!publish, Consumer!MaxRetriesHeader, Headers
<1>2. CASE \A m \in Message : ~Consumer!publish(m, {})
  <2>1. place[k] # "unpublished"
    BY <1>2, PlacesStep
  <2>2. header' = header
    BY <1>2 DEF Consumer!Next, Consumer!Step, Consumer!Deliver, Consumer!CallGateway,
       Consumer!Return, Consumer!Throw, Consumer!Settle, Consumer!EndTooLate,
       Consumer!LoseChannel, Consumer!Crash, Consumer!Stop, Consumer!DeclareQueues,
       Consumer!Restart, Consumer!Cancel, Consumer!vars, Consumer!history
  <2> QED BY <2>1, <2>2 DEF Headers
<1> QED BY <1>1, <1>2

(* The budgets of RabbitConsumer, read for messages with the header 3.     *)
LEMMA HeadersBound ==
  ASSUME Proved!IInv, Headers
  PROVE  TriedThrice
<1> SUFFICES ASSUME NEW m \in Message
             PROVE  /\ deliveryCount[m] <= 2 + losses
                    /\ answers[m] <= 1 + losses
                    /\ place[m] = "dead" => failures[m] >= 1 /\ failures[m] + losses >= 3
  BY DEF TriedThrice
<1>1. /\ deliveryCount[m] \in Nat /\ failures[m] \in Nat /\ answers[m] \in Nat
      /\ losses \in Nat
  BY WebhookBoundAssumption DEF Proved!IInv, Proved!TypeOK
<1>2. Proved!Working(m) /\ Proved!Attempts(m) /\ Proved!GivingUp(m) /\ Proved!Answering(m)
  BY DEF Proved!IInv, Proved!Budget
<1>3. answers[m] <= 1 + losses
  BY <1>1, <1>2 DEF Proved!Answering
<1>4. CASE place[m] = "unpublished"
  BY <1>1, <1>2, <1>3, <1>4 DEF Proved!Working
<1>5. CASE header[m] = {3}
  BY <1>1, <1>2, <1>3, <1>5 DEF Proved!Attempts, Proved!GivingUp, Proved!Retrying
<1> QED BY <1>4, <1>5 DEF Headers

(* Every webhook is tried three times, and again only for a loss.          *)
THEOREM TriedThriceCorrect == WebhookSpec => []TriedThrice
<1>1. WebhookInit => Headers
  BY DEF WebhookInit, Consumer!Init, Headers
<1>2. WInv /\ Headers /\ [WebhookNext]_webhookVars => Headers'
  BY ConsumerStep, HeadersStep DEF WInv, IInv
<1>3. WInv /\ Headers => TriedThrice
  BY HeadersBound DEF WInv
<1> QED BY <1>1, <1>2, <1>3, WebhookInductive, PTL DEF WebhookSpec

(* So the way of a webhook through its attempts comes to an end.           *)
THEOREM AttemptsWindDown == WebhookSpec => Proved!RetriesWindDown
<1>1. Consumer!Spec => Proved!Spec
  BY SameInit, SameNext, PTL DEF Consumer!Spec, Proved!Spec
<1>2. /\ DOMAIN QueueOf = Message /\ {} \subseteq Message
      /\ {{}} \subseteq {{}} \union {{n} : n \in 0..5}
      /\ MaxLosses \in Nat /\ MaxDeletions \in Nat /\ MaxDeliveries \in Nat
  BY HookAssumption, WebhookBoundAssumption
<1>3. Proved!Spec => Proved!RetriesWindDown
  BY <1>2, Proved!RetriesWindDownCorrect
<1> QED BY <1>1, <1>3, ConsumerCorrect, PTL DEF ConsumerSpec

-----------------------------------------------------------------------------
(* Causes.                                                                 *)

(* The consumers count what they lose: no channel ends and no queue goes   *)
(* uncounted.                                                              *)
Counted ==
  /\ ConsumerChannel = "closed" => losses >= 1
  /\ \A m \in Message : place[m] = "dropped" => deletions >= 1
  /\ deleted # {} => deletions >= 1

(* Whatever ends a channel or deletes a queue is counted.                  *)
LEMMA CountedStep ==
  ASSUME Proved!IInv, Counted, [Consumer!Next]_(Consumer!vars)
  PROVE  /\ Counted'
         /\ losses' >= losses
         /\ ~Consumer!Crash \/ losses' >= 1
<1> USE Parts DEF Counted
<1>a. losses \in Nat /\ deletions \in Nat
  BY WebhookBoundAssumption DEF Proved!IInv, Proved!TypeOK
<1>1. ASSUME NEW m \in Message, Consumer!Step(m) \/ Consumer!publish(m, {})
      PROVE  Counted' /\ losses' = losses
  <2>1. \A o \in {{}} : o = {}
    OBVIOUS
  <2>2. CASE Consumer!publish(m, {})
    BY <2>2 DEF Consumer!publish, Consumer!connection, Consumer!bounds
  <2>3. CASE Consumer!EndTooLate(m)
    BY <2>3 DEF Consumer!EndTooLate, Consumer!Stop, Consumer!TakeBack
  <2>4. CASE Consumer!Settle(m)
    BY <2>4 DEF Consumer!Settle, Consumer!delivery, Consumer!connection, Consumer!bounds,
       Consumer!Frame
  <2>5. CASE \/ Consumer!Deliver(m) \/ Consumer!CallGateway(m)
             \/ Consumer!Return(m) \/ Consumer!Throw(m)
    BY <2>5 DEF Consumer!Deliver, Consumer!CallGateway, Consumer!Return, Consumer!Throw,
       Consumer!delivery, Consumer!connection, Consumer!bounds
  <2> QED BY <1>1, <2>1, <2>2, <2>3, <2>4, <2>5 DEF Consumer!Step
<1>2. CASE Consumer!LoseChannel \/ Consumer!Crash
  BY <1>2, <1>a DEF Consumer!LoseChannel, Consumer!Crash, Consumer!Stop, Consumer!TakeBack
<1>3. CASE Consumer!DeclareQueues \/ (\E r \in {"prototype", "instance"} : Consumer!Restart(r))
           \/ UNCHANGED Consumer!vars
  BY <1>3, <1>a DEF Consumer!DeclareQueues, Consumer!Restart, Consumer!Crash, Consumer!vars,
     Consumer!connection, Consumer!delivery, Consumer!bounds
<1>4. ASSUME NEW q \in Consumer!Queue, Consumer!Cancel(q)
      PROVE  Counted' /\ losses' = losses /\ ~Consumer!Crash
  BY <1>4, <1>a DEF Consumer!Cancel, Consumer!Delete, Consumer!Crash
<1>5. Consumer!Crash => losses' = losses + 1
  BY DEF Consumer!Crash
<1> QED BY <1>a, <1>1, <1>2, <1>3, <1>4, <1>5 DEF Consumer!Next

(* What is lost for another reason than a new broker was lost with a       *)
(* channel of the consumers or with the process.                           *)
Caused == \A m \in Message : \A r \in Reason \ {"unroutable"} :
            <<m, r>> \in lost => losses >= 1

(* A message newly lost is explained by the state of the connection, which *)
(* is one the consumers have counted a loss for.                           *)
LEMMA CausedStep ==
  ASSUME WInv, WInv', Counted, Caused, [WebhookNext]_webhookVars
  PROVE  Counted' /\ Caused'
<1>a. [Next]_vars /\ [Consumer!Next]_(Consumer!vars)
  BY ServiceStep, ConsumerStep DEF WInv, IInv
<1>b. Counted' /\ losses' >= losses /\ (~Consumer!Crash \/ losses' >= 1)
  BY <1>a, CountedStep DEF WInv
<1>c. losses \in Nat /\ losses' \in Nat
  BY WebhookBoundAssumption DEF WInv, Proved!IInv, Proved!TypeOK
<1>1. ASSUME NEW m \in Message, NEW r \in Reason \ {"unroutable"}, Newly(m, r)
      PROVE  losses' >= 1
  <2>1. Explained(m)
    BY <1>a, ExplainedStep DEF WInv
  <2>2. CASE r = "refused"
    <3>1. amqpChannel = "closed"
      BY <1>1, <2>1, <2>2 DEF Explained
    <3>2. ConsumerChannel = "closed"
      BY <3>1 DEF WInv, IInv, Phases, Down, Connecting, OpeningChannel, SettingQueuesUp,
         Consuming, NeverOpened, ChannelGone, AllSetUp, Flag, ConsumerChannel
    <3> QED BY <3>2, <1>b, <1>c DEF Counted
  <2>3. CASE ~up'
    <3>1. up
      BY <1>1, <1>a, <2>1 DEF WInv, IInv, Phases, Down, Connecting, OpeningChannel,
         SettingQueuesUp, Consuming, NeverOpened, ChannelGone, Next, Start, NestReady,
         Crash, ConnectOk, ConnectFail, WakeUp, ChannelOk, ChannelRejected, ExchangeOk,
         QueuesOk, SetupRejected, ConnectionError, ConnectionClosed, ChannelError,
         publish, BrokerRead, Parked, vars, Newly
    <3>2. ProcessEnds \/ \E n \in Message : HandlerEndsLate(n)
      BY <2>3, <3>1 DEF WebhookNext, Connect, Register, Lose, Route, Hook, Deliver, Post,
         EndHandler, Settle, CancelConsumer, Alone, webhookVars, vars, process, Start,
         NestReady, ConnectOk, ConnectFail, WakeUp, ChannelOk, ChannelRejected,
         ExchangeOk, QueuesOk, ConnectionError, ConnectionClosed, ChannelError, publish,
         BrokerRead
    <3>3. ProcessEnds => losses' >= 1
      BY <1>b DEF ProcessEnds
    <3>4. (\E n \in Message : HandlerEndsLate(n)) => ConsumerChannel = "closed"
      BY DEF HandlerEndsLate, Consumer!EndTooLate
    <3> QED BY <3>2, <3>3, <3>4, <1>b, <1>c DEF Counted
  <2>4. CASE Lost' /\ "consumer" \in setupDone'
    <3>1. ConsumerChannel' = "closed"
      BY <2>4 DEF WInv, IInv, Phases, Down, Connecting, OpeningChannel, SettingQueuesUp,
         Consuming, NeverOpened, ChannelGone, NoSetup, Lost, ConsumerChannel
    <3> QED BY <3>1, <1>b DEF Counted
  <2> QED BY <1>1, <2>1, <2>2, <2>3, <2>4 DEF Explained, Reason
<1>2. Caused'
  BY <1>1, <1>b, <1>c DEF Caused, Newly
<1> QED BY <1>b, <1>2

(* Nothing that was accepted vanishes by itself.                           *)
THEOREM GoneForCauseCorrect == WebhookSpec => []GoneForCause
<1>1. WebhookInit => Counted /\ Caused
  BY DEF WebhookInit, Init, Consumer!Init, Counted, Caused, ConsumerChannel
<1>2. WInv /\ WInv' /\ Counted /\ Caused /\ [WebhookNext]_webhookVars => (Counted /\ Caused)'
  BY CausedStep
<1>3. Counted /\ Caused => GoneForCause
  BY DEF Counted, Caused, GoneForCause
<1> QED BY <1>1, <1>2, <1>3, WebhookInductive, PTL DEF WebhookSpec
===============================================================================
