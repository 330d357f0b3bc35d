# Formal verification of the ONDC network participant

The program is a NestJS application. It puts merchants on the ONDC registry,
sends their messages to the ONDC gateway (`sellers/...`), and answers messages
that other participants send through webhooks (`buyers/hook/...`). A webhook is
put on a RabbitMQ queue and answered by a consumer in the same process.

This directory holds TLA+ models of the parts of the program in which order,
failure or timing decide what happens, TLC configurations that check them on
small instances, and TLAPS proofs of some of the results for every instance.
Line numbers refer to the source tree of the repository.

## 1. Inventory

| Component | State | Operations | Talks to | What is hard |
|---|---|---|---|---|
| AMQP connection, `libs/rabbitmq/src/amqp.service.ts` 50–470 | `amqpConnection`, `amqpChannel`, `isAmqpChannelReady`, `firstAttemptForConnectionAlreadyDone`, three `...SetupDone` flags, `rabbitRouter`, `pendingRabbitRequests` | `connectToRabbitMq` (started un-awaited by the constructor, by catch blocks and by 'error' handlers), the set-up functions, `publish`, `reDrivePendingRabbitRequests`, shutdown hooks (never enabled) | RabbitMQ, hooks (via `RabbitMqService`), Nest's container (`DiscoveryService`) | several activations of one async function over the same fields; losses at every await; retries; what becomes of a message that cannot be sent at once |
| Publisher and consumer, `rabbitmq.service.ts`, `amqp.service.ts` 345–427 | headers and `x-delivery-count` of each message, unacknowledged deliveries | `publish`, the callback of `setupConsumers` (handler, then ack, nack or reject) | RabbitMQ, `BuyerConsumer` | retry counting shared with the broker, concurrent handlers, acknowledging on a lost channel, crash and redelivery |
| Buyer webhooks, `src/buyer` | none | nine hooks (there is none for `on_status`), ten queue handlers | `RabbitMqService`, `OndcService`, `CoreService` | the answer to the webhook does not wait for the message; handlers that swallow errors |
| Core search, `integrations/core` | none | `getProducts` | core HTTP service | throws, which causes the only retries |
| Participant onboarding, `src/participant` | the collection of network participants, the redis key `ondc:requestId` | `subscribe`, `lookup`, `on_subscribe` | registry (both directions), MongoDB, Redis | a request and the registry's callbacks interleave; every step can fail and nothing is undone; documents with the same subscriber |
| Merchant calls, `src/seller` | none | nine routes | `ParticipantService`, `OndcService` | keys are looked up, then used after an await |
| ONDC messages, `integrations/ondc/ondc.service.ts` | none | `subscribe`, `registryLookup`, nine messages of merchants, ten `on...` answers, the challenge | registry, gateway | nine near copies that differ in action, path, host and in what they give back |
| ONDC keys and signatures, `ondc-util.service.ts` | none | key generation, signing, authorization header, decryption of the challenge | Node crypto, sodium | encodings |
| MongoDB and Redis access, configuration, utilities, health, bootstrap, deployment | connections of their clients | thin wrappers | – | little of their own |

What makes each of them correct:

* **AMQP connection.** At most one activation connects or sets up at any time;
  there is always one left to try again; the ready flag means what it says; a
  message that was put aside leaves, and is overtaken only while the queues are set
  up; each published message is in exactly one
  place; consumers are registered on queues that exist.
* **Publisher and consumer.** A message is tried as often as its header allows
  and no more, dead-lettered only after that, answered twice only if something
  was lost, and always settled in the end: every retry brings it nearer.
* **Webhooks, end to end.** A webhook that was answered with success is in one
  place or lost for one reason, and lost only if something happened that the reason
  names; the gateway hears only about webhooks that came;
  a webhook ends as a dead letter only for a reason the code knows.
* **Onboarding and merchant calls.** Keys the registry saw are never thrown
  away, the registry and every lookup agree on which keys count, messages
  are signed with those, and they never change; what two callbacks leave in one document concerns its
  own subscriber.

### Interactions

`BuyerHook` calls `RabbitMqService.publish`, which calls `AmqpService.publish`.
That function either hands the message to amqplib or puts it in
`pendingRabbitRequests`, and gives back a Boolean which no hook looks at. The
consumers that `setupConsumers` registers find the handler of a queue in
`rabbitRouter`, built once by `createRabbitRouter` when the broker has answered
the first declaration. The handlers are methods of `BuyerConsumer`, which call
`CoreService` and `OndcService`. `SellerController` and `ParticipantHook` share
the collection of participants through
`ParticipantService.findNetworkParticipantBySubscriberId`, a `findOne` without a
sort. `main.ts` does not enable shutdown hooks. In production the container's
process is the program itself (`CMD ["node", "dist/src/main.js"]` of `dockerfile`)
under a Kubernetes deployment, which restarts a container that ends.

## 2. Modules

| Module | Stands for | Checked by |
|---|---|---|
| `AmqpService` | the connection, its activations, pending requests, with the broker as an environment | `MCAmqpService` |
| `Outbox` | the promise of the publishing side, abstractly | `ImplementsOutbox` in `AmqpService` |
| `AmqpServiceProofs` | theorems on the connection and the activations of `AmqpService` | TLAPS |
| `AmqpLedgerProofs` | theorems on its messages: `Ledger`, the refinement of `Outbox`, and their order | TLAPS |
| `RabbitConsumer` | header, delivery, handler, settlement, loss, cancellation and restart | `MCRabbitConsumer` |
| `RabbitConsumerProofs` | theorems on `RabbitConsumer` | TLAPS |
| `BuyerWebhooks` | composes `AmqpService`, `RabbitConsumer` and the answers of `OndcService` with hooks and handlers | `MCBuyerWebhooks` |
| `WebhookPromise` | what a caller is promised about a webhook, abstractly | `ImplementsPromise` in `BuyerWebhooks` |
| `WebhookPromiseProofs` | the composition implements `WebhookPromise` | TLAPS |
| `BuyerWebhooksProofs` | the composition implements `RabbitConsumer`; theorems on webhooks | TLAPS |
| `ParticipantOnboarding` | `subscribe`, `on_subscribe` and the registry | `MCParticipantOnboarding` |
| `ParticipantOnboardingProofs` | theorems on `ParticipantOnboarding` | TLAPS |
| `OndcService` | the tables of the nine merchant messages and the ten answers | via `SellerGateway`, `BuyerWebhooks` |
| `KeyMaterial` | what the conversions do to the signing keys | via `SellerGateway` |
| `SellerGateway` | composes `ParticipantOnboarding` and `OndcService` with the nine routes | `MCSellerGateway` |
| `MerchantIdentity` | what a merchant is promised about its keys, abstractly | `ImplementsIdentity` in `SellerGateway` |
| `SellerGatewayProofs` | theorems on `SellerGateway`, from those on `ParticipantOnboarding`; it implements `MerchantIdentity` | TLAPS |

### AmqpService

JavaScript runs an async function without interruption between two awaits, so
one action takes one *activation* of `connectToRabbitMq` from one await to the
next. Activations hold no data of their own: everything they decide on is in
the fields of the service. It is therefore enough to count how many are parked
at each await (`activations`), and that is no approximation. `NextStage` is the
list of guards of lines 113–139 in their order. Actions and code:

* `Start`: the constructor; `NestReady`: providers are built and HTTP listens.
* `WakeUp`: the 3.5 s sleep is over and the guards are evaluated.
* `ConnectOk`/`ConnectFail`, `ChannelOk`/`ChannelRejected`, `ExchangeOk`,
  `QueuesOk`: an awaited call of amqplib succeeds or fails, with the catch
  block. The catch block starts a new activation while the failed one goes on,
  meets only false guards and ends, which together is one activation moving
  back to its sleep. `QueuesOk` runs to the end of the activation, including
  `setupConsumers` and `reDrivePendingRabbitRequests`, as there is no await
  left.
* `SetupRejected`: a loss while the declarations are awaited. Nobody catches
  this rejection, so the process ends.
* `ConnectionError`, `ChannelError`: the two 'error' handlers.
  `ConnectionClosed`: the connection ends with a 'close' event only (an operator
  closes it), for which there is no handler.
* `publish(m)`: a hook publishes. `BrokerRead`: the broker reads a frame; the
  default exchange drops a message whose queue does not exist.
* `Crash`: the process ends at any moment.

Data is abstracted as follows. All application queues are one queue, declared
by one frame; messages are model values, each published at most once; the
fields that hold objects keep only whether the object is open or closed.

### RabbitConsumer

One message has at most one handler at a time, so `handler` is a function of
the message: idle, running, answered (it has called the gateway) or the frame
(`ack`, `nack`, `reject`) on its way to the broker. The ten handlers come in
three kinds: that of `on_search` throws when the core search fails and skips
its answer when there are no products, that of `on_select` swallows every error, the
others call `OndcService`, which reports no failure. A router built before Nest has
built the consumer holds a prototype, on which `this.ondcService` is undefined,
so all handlers but that of `on_select` throw. `Throw` is the catch
block of lines 412–422: it rejects when `Exhausted`, otherwise sends a nack with
requeue. The broker adds one to `x-delivery-count` for a nack and for a channel
that ended. `EndTooLate` is a handler that ends after its channel: `ack`
throws, the catch block throws again, and the unhandled rejection ends the process.

The header is the set of the numbers it holds, at most one, which makes the
comparison with a missing header (`NaN`) false without a special case.

A message belongs to a queue (`QueueOf`), which decides on the kind of its
handler. `Cancel(q)` is the broker's null message after an operator deleted `q`:
the callback returns and nothing else happens (line 369), the messages of the
queue are gone (`dropped`), handlers of some of them may still run, and the frame
they send at last changes nothing. `DeclareQueues` and `Restart` are what the
next process does, in this order. `losses` and `deletions` count what the
environment did; the properties refer to `losses`.

### BuyerWebhooks

The module extends `AmqpService` and instantiates `RabbitConsumer`, with the
consumer's `channel` and `router` replaced by those of the service from the
moment `setupConsumers` ran (`ConsumerChannel`, `ConsumerRouter`). Steps that
concern both are conjunctions of an action of each: `Register` (the service ends
its set-up, the consumer restarts), `Lose` (connection or channel ends),
`ProcessEnds` and `HandlerEndsLate` (the process ends, by itself or by the
rejection of a late handler), `Route` (the broker reads a frame: it declares
the queues or has a message for the consumers). All others leave one part
alone. `Post` is the answer: the handler of the queue (`Handlers`) decides on its action
and path, and the post may fail without the handler hearing of it.

`WebhookPromise` says what this comes to for the caller who was told "success": the
webhook is accepted, then settled (acknowledged or dead-lettered) or gone, neither of
which is ever undone, and it is answered only before it is settled.
`FateOf` is the refinement mapping.

Only the hooks publish, and they pass no options; so the header is always 3,
`Foreign` is empty and `Options` is `{{}}`. The hook for each queue is an element
of `Hooks`; a webhook stands for its message.

### ParticipantOnboarding, OndcService, SellerGateway

A request stands for the key pairs and the id it generates. Each action of a
request or a callback goes from one await to the next, and each can be cut off
there (`Abort`, `AbortHook`, `Refused`). `participants` is a sequence in order of
insertion, and `Oldest` is `findOne` without a sort, which looks at the documents in their
natural order; that this is the order of insertion is an assumption about MongoDB. The registry, external, may call
back for any request it received, before or after the caller has its answer,
and repeatedly. `saveWebhookPayload` and `saveWebhookResponse` look the document
up again, as the code does; that look-up and its `save()` are one step, since nothing
can come between them that matters: the oldest document of a subscriber stays the same
(`OldestStays`, proved), and `save()` writes only the field that was assigned.

`OndcService` says in one table in what the nine merchant methods differ: the
action in the context, the key the context is sent under, host, path, and what
they give back on success and failure, and the same for the ten answers. `SellerGateway` adds merchants' calls to
the onboarding: the lookup, the awaited signature and post, and the reply.

`MerchantIdentity` says what the two controllers promise together: the first keys
made for a subscriber are its identity, nobody else's, and all that the registry
verifies and the calls sign is that identity. Under the mapping (`Identity`, `Registered`,
`Signed`) a subscriber has an identity from its first document on,
`createNetworkParticipant` is `Claim` or a stutter, `Verify` is `Register`, `Post`
is `Sign`.

### KeyMaterial

A key or a text is the term of the conversions that made it: DER or PEM export,
base64, bytes of a text. `StripMarkers` removes the two marker lines only if
they carry the label it looks for. libsodium takes any 64 bytes for a secret
key; the body of the PEM text of a private ed25519 key has 64 characters, so
signing never fails, and whether a signature verifies is a question of which
bytes were used. `Verifies` grants the receiver both forms of the public key
that the registry could take.

## 3. Runs

Deadlock is checked for `AmqpService` in `amqp_safety`. It is switched off where
a system really ends: every message settled, every request and call answered.

| Run | Question | Bounds |
|---|---|---|
| `amqp_safety` | Do activations ever work against each other, is a message ever in two places or in none, does the service implement `Outbox`, is a message lost only for the cause its reason names (`LossesExplained`), may one overtake another and when (`OvertakenOnlyInSetup`), do the retries neither die out nor go on (`SomebodyDrives`), does the chain of retries end in a consuming process (`Boots`), and do pending requests leave (`PendingLeaves`)? | 3 messages; 19 000 states |
| `amqp_reconnects` | Is a lost connection replaced? (no) | 1 message |
| `amqp_unroutable` | Does a channel declared ready deliver? (no) | 1 message |
| `amqp_router` | Does the router always hold real consumers? (no) | 1 message |
| `consumer_safety` | Attempts, dead letters, duplicates and acknowledgements, does every retry bring a message nearer to its end (`RetriesWindDown`), and is every message settled? | 3 messages, one of each kind of handler, 1 loss, 1 deleted queue; 341 000 states |
| `consumer_fallback` | Is a message without header tried three times? (no) | 1 message, 4 deliveries |
| `webhooks` | From hook to answer: does the connection do to the consumers what `RabbitConsumer` assumes (`ConsumerSpec`), has each webhook one fate, is it gone only for a cause (`GoneForCause`), does the whole implement `WebhookPromise`, is each webhook served? | 2 webhooks, one whose handler may throw and one whose handler cannot, 1 loss, 1 deleted queue; 93 000 states |
| `onboarding_safety` | Which keys are kept, found and verified, what do documents keep of callbacks, do keys ever change (`KeysNeverRotate`), and whom does an orphaned document lock out (`OrphansLockOut`)? | 3 requests, 2 subscribers, 2 callbacks; 1.26 million states up to symmetry |
| `onboarding_retry` | Does a refused subscription hinder the next? (yes) | 2 requests |
| `seller_safety` | Is every message signed with the verified keys, and do onboarding and calls implement `MerchantIdentity`? | 2 requests, 2 subscribers, 1 callback, 1 call, all nine routes; 409 000 states up to symmetry |
| `seller_action` | Is each message posted to the path of its action? (no: `confirm`) | 2 requests, 1 subscriber, 1 callback, 1 call |
| `seller_signature` | Does a signature verify with the registered key? (no) | as above |

Why the bounds suffice. `AmqpService` needs none: its activations never exceed
two (proved), and two messages are already enough for one to be put aside while
another is on the wire; the third adds order. `RabbitConsumer` has its messages
interact only through the channel and process they share, so one of each kind
covers the combinations. Its publishers ask for 0 attempts (`Options`), which the code
turns into the default 3, the case in which a wrong reading of the option
shows; the other headers are covered by the proofs, which hold for all of them. The
bound `MaxLosses` is part of the properties, which count losses, and
`MaxDeliveries` is above anything that can happen except for a message without
header. In `webhooks` a loss at any point of the way of one webhook meets the other at
any other point; the queues of both are declared and deleted separately. In
`ParticipantOnboarding` the conflict is between an older and a newer document of one
subscriber; three requests allow an orphan on either side of the verified one,
two subscribers show that they do not mix, and two callbacks can serve one
request or two. `seller_safety` keeps two subscribers, so that identities could mix,
and one call at a time: calls share nothing but the collection they read.

### Fairness

Fairness matters only to the liveness properties of `amqp_safety`,
`consumer_safety` and `webhooks`; every safety property of these runs, and every action property, is proved without it. The
service has weak fairness of the steps of an activation and of the broker's
reading (timers fire, amqplib calls resolve or reject) and strong fairness of
`ConnectOk`: an attempt may fail, but a broker asked for ever is reachable at
some time. `Start`, `Crash` and losses are free in `amqp_safety`, and its properties
allow for them. The consumer has weak fairness of the restart of the
container, of the broker's delivery and reading, and of the end
of every handler: its axios calls resolve or reject. `CallGateway`, `Return`
and `Throw` share one condition, so a handler that fails each time is
admitted, and settles by being rejected. `webhooks` assumes what both assume, with
`Start` as the restart. That a restart comes is justified by the deployment:
`k8s/production/deployment.yaml` names no restart policy, so Kubernetes restarts the
container whenever its process, `node dist/src/main.js`, ends. It does not hold of
`docker-compose.yml`, in spite of its `restart: always`: there the container runs
`nest start --watch`, which may outlive the program and start it again only when a
file changes. `EventuallySettled` and `WebhookServed` speak of the former.

## 4. Disagreements found

Each of these is a run that TLC ends with a counterexample.

1. `amqp_reconnects`: the 'error' handlers start `connectToRabbitMq` but leave
   `amqpConnection` and `amqpChannel` set, so no guard holds and nothing
   reconnects, while the log says that it is retrying. `LossIsFinal`
   (proved) is the exact statement of what happens, and `LossesExplained` (proved) of
   which messages it costs: those on the wire, those put aside, and those published after a
   silent end.
2. `amqp_unroutable`: the ready flag is set before the queues are declared. On a new broker
   a message published in between is dropped.
3. `amqp_router`: `createRabbitRouter` may run before Nest has constructed the
   consumer; its handlers then run on an object made from the prototype.
4. `consumer_fallback`: `parseInt(undefined) ?? 3` is `NaN`, not 3.
5. `onboarding_retry`: the document of a refused subscription answers for the
   next one, with the wrong key. `OrphansLockOut` (proved) says how far this goes:
   if the refused request's document is its subscriber's oldest and the registry never
   received it, no other request of that subscriber is ever verified. `KeysNeverRotate` (proved) is its other side: a merchant that is verified
   cannot replace its keys by subscribing again.
6. `seller_action`: `confirm` posts to `/init`.
7. `seller_signature`: the signing keys are encoded as text a second time, and
   the public key keeps its PEM markers, so no signature verifies with the key
   the registry was given. `NoSignatureVerifies` proves it for every pair of keys.

Other things a reader of the code may want to know, which no run is about:
`maxRetries: 0` becomes 3 in `RabbitMqService.publish`; on success `select`, `init`,
`confirm`, `track`, `cancel` and `update` give back the axios response itself,
which has no JSON form; `select` posts to the registry and `init` sends its
context as `requestContext`; the answers `onSelect`, `onInit`, `onConfirm`,
`onTrack`, `onRating` and `onSupport` name `on_search` as their action and
`onUpdate` names `on_cancel`; the handler of `on_track` calls `onConfirm` (an
exception in `AnswersFollowWebhooks`); a failing post of an answer is swallowed, so
the retries of the queue never serve it (`OnlyPrototypesGiveUp` says so exactly);
a queue that is deleted while the process runs is neither declared nor consumed again;
a subscription that succeeds deletes the verification code of any other that is still
under way. No property says whether the last is harmful: nothing in the repository reads
the redis key `ondc:requestId`, so who needs the code, and when, is decided elsewhere.
`CodeIsCleared` says only that no code stays behind requests that succeed.

## 5. Proofs

`AmqpServiceProofs` proves, for every set `Message` and any `Declare` outside it
(`DeclareAssumption`): `TypeOK`, `Phases`, `SingleDriver`, `BoundedRetries`,
`ReadyMeansOpen`, `SomebodyDrives`, `NothingStranded`, `SetupOrder`, `LossIsFinal` and
`LossesExplained`.

None of these but the type invariant is inductive as it stands. `SingleDriver`,
say, is preserved by `ConnectOk` only if no second activation is parked
anywhere, by `ConnectionError` only if none is about to connect. What a step does
preserve is the joint state of the two handles, the flags and the
activations, which is always one of seven phases: `Down`, `Connecting`,
`OpeningChannel`, `SettingQueuesUp`, `Consuming`, and after a loss `NeverOpened` or
`ChannelGone`. `IInv` is `TypeOK /\ Phases`; TLC checks both in
`amqp_safety`. The proof has one step per action in `TypeStep` and in
`PhaseStep`; an action's guard leaves one or two phases it can start from, and each
leads to one named phase. Theorem `Inductive` puts them together, and the
properties follow from `IInv` phase by phase; `LossIsFinal` also needs
the phases `ConnectOk`, `ConnectFail` and `ChannelOk` start from, since they are the only actions
that assign a handle of a running process anything but "closed". `SomebodyDrives` reads
the number of activations off the phase. `LossesExplained` has one
lemma for each operator that adds to `lost` (`RefusalsExplained`, `EndExplained`,
`SeverExplained`, `DropExplained`); for each the phase before the step
decides what may be on the wire or aside, and with it which reason can be given.

`AmqpLedgerProofs` proves `Ledger`, `ImplementsOutbox` and `OvertakenOnlyInSetup` under the same
assumption. The invariant of the first two is `LInv`, `TypeOK` with `Accounted`: no message is
twice in the array or on the wire (`Once`), no message is in two of the array, the
wire, the queue and the losses, none is lost for two reasons, and those that
are anywhere are those that were published. Each action falls under one of five
lemmas on how messages move (`NothingMoves`, `SendMoves`, `LossMoves`,
`PublishMoves`, `ReadMoves`), which also give `Forward`: where a message may
be after a step, given where it was. `Forward` and `Accounted` before and after a step are exactly
what the step of `Outbox` asks of each message. The phases are not needed: that no message
is sent twice does not depend on how many activations run.

`OvertakenOnlyInSetup` does need them. It is about the `Line`, the wire followed by the
array. `reDrivePendingRabbitRequests` moves the border between the two and leaves the line as it is; a
loss cuts off one of its ends, the broker takes from its head, and a request that is
put aside joins its tail (lemmas `BeforeConcat`, `BeforeAppend`, `BeforeTail`). Only a
direct `publish` inserts a message in the middle, before those put aside. By
`LInv` it is a new one, and by the phases (`PhasesStrandNothing`) a request is aside next to a
usable channel only during the set-up. The exception is real: a request put aside
while the channel is opened, and another published as soon as it is, change places.

`ParticipantOnboardingProofs` proves, for any sets of requests, subscribers and
callbacks that do not contain `None` (`NoneAssumption`): `TypeOK`,
`Consistent`, `RegistryKeysAreKept`, `VerifiedKeysAreUsed`, `VerificationOnRecord`,
`RecordsOwned`, `CodeIsCleared`, `DocumentsStay`, `OrphansLockOut` and `KeysNeverRotate`. `VerifiedKeysAreUsed` is not inductive: `Verify` could make
it false if a callback held other keys than `findOne` gives when the registry
reads its answer. The strengthening is `Consistent`, in three parts: a request
has a document before the registry can hear of it, a document has its request's
subscriber, and a callback holds the keys of the document that `findOne`
gives *now*. The last part is preserved because of lemma `OldestStays`: when documents are only
added at the end and keep their subscribers (`Keeps`, true of every step), the
least position with a given subscriber stays the same once there is one. That
every set of naturals has a least member comes from the library's theorems on
well-founded relations. `IInv` joins `TypeOK`, `Consistent`, `VerifiedKeysAreUsed` and
`VerificationOnRecord`. `RecordsOwned` is inductive relative to it, because a callback that
saves finds, by `Consistent`, the document whose keys it holds.

The two results on what never changes back need to know when the registry's view of a
request can change at all (`RegistryChanges`): when a created request is posted, or
when one it knows is verified. A request that is over stays over (`OverStays`), so an
orphan's keys stay unknown to the registry; `findOne` goes on giving the orphan; and
`VerifiedKeysAreUsed` after the step then leaves nobody who could be verified
(`OrphansLockOut`). `KeysNeverRotate` needs one more inductive fact, `Unsent`: the
registry has heard of no request before it is posted. Without it `subscribe`, which
sets the registry's entry to "received", could take a verification back.

`SellerGatewayProofs` carries this over to the composition. Each step of it is
a step of the onboarding or a stutter of it (`OnboardingStep`), so `IInv` and
`Keeps` hold; `CallsHoldKeys` adds that a call and what it posted hold the keys
`findOne` gives now, and `SignedWithVerifiedKeys` follows from it and
`VerifiedKeysAreUsed`.

`ImplementsIdentity` is proved from `MInv`, which adds `Unsent`. An identity stays
(`IdentityStays`) and comes only with the first document of its subscriber
(`IdentityComes`); a registration stays under its subscriber (`RegisteredStays`), and a new one
is of the identity (`RegisteredComes`); only `Post` changes what is signed
(`SignedChanges`). `IdentityStep` combines them: each step is a `Claim`,
a `Register`, a `Sign` or a stutter. That a new identity is nobody else's is
`DocumentsOwned`: a document has the subscriber of its request.
`NoSignatureVerifies` needs no invariant, only what the conversions of `KeyMaterial` give.

`RabbitConsumerProofs` proves `TypeOK`, `HandlersMatchDeliveries`,
`DeliveriesBounded`, `DeadAfterAttempts`, `DuplicatesNeedLosses`, `AckedMeansAnswered` and `RetriesWindDown` for any
messages, queues, options and bounds (`QueueAssumption`, `OptionAssumption`,
`BoundAssumption`). The bounds on counts are not inductive, since one loss takes back
many messages at once. The strengthening keeps a budget for each message: what
the broker counted, plus what a frame or a handler in flight is about to add, is
at most its failures plus the losses, and a handler is still below its header
whenever it would requeue. With `HandlersMatchDeliveries` a loss then costs each
message at most one attempt and one answer. `RetriesWindDown` is the safety half of
termination: the measure `StepsLeft` counts four steps for each delivery that the header
still allows, and those left of the current one. That it is never negative is
the budget; that each step of the message lowers it is shown action by action
(`NearerStep`), most through the stage of delivery and handler alone
(`NearerByStage`). Fairness, which would turn this into
`EventuallySettled`, is left to TLC.

`BuyerWebhooksProofs` carries both parts over to the composition.
`ConsumerCorrect` is a refinement by composition: each step of
`BuyerWebhooks` is a step of `RabbitConsumer` or a stutter. It needs the phases of the connection,
because `Lose` or `ProcessEnds` is a step of the consumers only if the
consumers are registered exactly when the channel is theirs. (That each step is also one of
`AmqpService`, or a stutter, is a lemma and no result: the composition is made of that
module's actions.) The theorems of
`AmqpServiceProofs`, `AmqpLedgerProofs` and, by INSTANCE, `RabbitConsumerProofs` then hold
here. `WInv` joins their invariants with two more: a message is with the consumers exactly
if it reached its queue in the service's sense (`Arrived`), and a frame that gives up or
returns a message other than a search comes from a prototype (`Blame`); and `AnswersFollowWebhooks`
itself, inductive with them. From these follow `OneFate`,
`AnswersFollowWebhooks`, `OnlyPrototypesGiveUp` and `LossFreezesQueues`. `TriedThrice` adds that
a header, once written, is 3 (`Headers`), which turns the consumers' bounds into numbers;
`AttemptsWindDown` carries `RetriesWindDown` over. `GoneForCause` joins the two
parts: `LossesExplained` gives the state of the connection at a loss, and
`Counted` says that the consumers have counted a loss whenever their channel is closed.

`WebhookPromiseProofs` proves `ImplementsPromise` from `WInv`. A hook's step is
`Accept`, a post `Answer`, a frame the broker reads `Settle` or nothing, and any
other step loses a set of accepted webhooks (`Vanish`): `Forward` of
`AmqpLedgerProofs` says what the connection may do to a message, `ConsumersMove` that
the consumers leave alone what is settled, and `WorkersMatch` that whoever answers
works on a message that is not.

Proved and not repeated in a run, because another property of the run implies them or is
stronger: `BoundedRetries`, `ReadyMeansOpen` and `SetupOrder` (they follow from `TypeOK` and
`Phases`), `DocumentsStay` (`Keeps`, without which neither `KeysNeverRotate` nor
`ImplementsIdentity` would hold), `CallsHoldKeys` (the strengthening behind
`ImplementsIdentity`) and `TriedThrice` (`DeliveriesBounded`, `DeadAfterAttempts` and
`DuplicatesNeedLosses` at the header 3). TLC has found each of them true on the
same instances.

Only model-checked: the liveness properties `Boots`, `PendingLeaves`, `EventuallySettled` and
`WebhookServed` (liveness is out of the prover's reach, as is anything about
ENABLED). The safety half of each is proved: `SomebodyDrives` and `BoundedRetries` for `Boots`,
`NothingStranded` for `PendingLeaves`, `RetriesWindDown` for `EventuallySettled`,
`OneFate`, `GoneForCause` and `AttemptsWindDown` for `WebhookServed`.

## 6. Not modelled

* The shutdown hooks of `AmqpService`: `main.ts` does not enable them and nothing
  calls `app.close()`, so no run of the program reaches them.
* The bodies of ONDC messages, which are fixed sample data; validation schemas;
  `lookup` and health, which change no state; `BuyerHookGuard`, which lets every
  request through; configuration.
* Cryptography: a signature or a decryption stands for the keys it was made
  with. The encryption keys have one encoding throughout and need no module.
* MongoDB and Redis: one call is one atomic step that may fail.
* Two processes on one broker, as during a rolling update of the deployment:
  `docker-compose.yml` and `k8s/` run one (`replicas: 1`), and so do the models.

## 7. Plan

Done: the connection with its outbox, the consumers, the onboarding, the
merchants' calls, the webhooks from end to end, and the proofs of all safety
and action properties and of the three refinements that the passing runs check.

Left, in order of value:

1. Two processes on one broker while a deployment rolls over: two instances of `AmqpService` and of the consumers with
   one set of queues, and two onboarding processes with one redis key.
2. The encryption keys in `KeyMaterial`, down to the decryption of the challenge.
