------------------------ MODULE ParticipantOnboarding ------------------------
(***************************************************************************)
(* src/participant: a merchant subscribes to the ONDC registry             *)
(* (participant.controller.ts), the registry checks the merchant's keys by *)
(* calling back with a challenge (participant.hook.ts), and from then on   *)
(* src/seller signs the merchant's messages with the keys it finds.        *)
(*                                                                         *)
(* Requests and callbacks interleave at their awaits.  A request stands    *)
(* for the key pairs and the request id it generates.  MongoDB is the list *)
(* of documents in the order of their insertion, which is the order in     *)
(* which findOne without a sort looks at them; nothing deletes a document  *)
(* and no index makes subscriberId unique.  The registry is external.      *)
(***************************************************************************)
EXTENDS Naturals, Sequences

CONSTANTS Request,     \* calls of POST participants/subscribe
          Subscriber,  \* subscriber ids
          Call,        \* calls of POST participants/hook/on_subscribe
          None         \* undefined

Answer == {"right", "wrong"}

ASSUME NoneAssumption ==
  None \notin Request \union Subscriber \union Call \union Answer

VARIABLES
  request,            \* for each request its step and subscriber
  verificationCode,   \* the redis key ondc:requestId
  participants,       \* the collection Network Participants
  hook,               \* for each callback its step, challenge and keys
  registry            \* what the registry knows of each request

vars == <<request, verificationCode, participants, hook, registry>>

RequestStep == {"new", "cached", "created", "posted", "accepted",
                "succeeded", "refused", "aborted"}
HookStep    == {"idle", "found", "payloadSaved", "solved", "answered", "aborted"}

Init ==
  /\ request = [r \in Request |-> [step |-> "new", subscriber |-> None]]
  /\ verificationCode = None
  /\ participants = <<>>
  /\ hook = [c \in Call |-> [step |-> "idle", challenge |-> None,
                             keys |-> None, answer |-> None]]
  /\ registry = [r \in Request |-> "unknown"]

-----------------------------------------------------------------------------
Matches(docs, s) == {i \in DOMAIN docs : docs[i].subscriber = s}

(* Slip: the documents are looked at from the newest on.                   *)
Newest(docs, s) ==
  CHOOSE i \in Matches(docs, s) : \A j \in Matches(docs, s) : j <= i

(* findOne({ subscriberId }): the oldest match.                            *)
Oldest(docs, s) ==
  CHOOSE i \in Matches(docs, s) : \A j \in Matches(docs, s) : i <= j

Known(s)   == Matches(participants, s) # {}
Found(s)   == Oldest(participants, s)
FindOne(s) == participants[Found(s)]

SubscriberOf(r) == request[r].subscriber
At(r, step)     == request[r].step = step
Goto(r, step)   == request' = [request EXCEPT ![r].step = step]

-----------------------------------------------------------------------------
(* POST participants/subscribe, from one await to the next.                *)

(* Keys and request id are generated; the signed id is stored under a key  *)
(* that all requests share.                                                *)
setOndcVerificationCode(r, s) ==
  /\ At(r, "new")
  /\ request' = [request EXCEPT ![r] = [step |-> "cached", subscriber |-> s]]
  /\ verificationCode' = r
  /\ UNCHANGED <<participants, hook, registry>>

(* Slip: a document of the same subscriber is overwritten.                 *)
createOrReplace(r) ==
  /\ At(r, "cached")
  /\ Goto(r, "created")
  /\ LET s   == SubscriberOf(r)
         doc == [request |-> r, subscriber |-> s,
                 webhookPayload |-> None, webhookResponse |-> None]
     IN participants' = IF Known(s)
                        THEN [participants EXCEPT ![Found(s)] = doc]
                        ELSE Append(participants, doc)
  /\ UNCHANGED <<verificationCode, hook, registry>>

createNetworkParticipant(r) ==
  /\ At(r, "cached")
  /\ Goto(r, "created")
  /\ participants' = Append(participants,
       [request |-> r, subscriber |-> SubscriberOf(r),
        webhookPayload |-> None, webhookResponse |-> None])
  /\ UNCHANGED <<verificationCode, hook, registry>>

(* Slip: the registry is told before the document is created.              *)
subscribeFirst(r) ==
  /\ At(r, "cached") \/ At(r, "created")
  /\ Goto(r, "posted")
  /\ registry' = [registry EXCEPT ![r] = "received"]
  /\ UNCHANGED <<verificationCode, participants, hook>>

(* ondcService.subscribe posts the public keys to the registry; the call   *)
(* may never arrive.                                                       *)
subscribe(r) ==
  /\ At(r, "created")
  /\ Goto(r, "posted")
  /\ \/ registry' = [registry EXCEPT ![r] = "received"]
     \/ UNCHANGED registry
  /\ UNCHANGED <<verificationCode, participants, hook>>

(* The registry's answer arrives.                                          *)
Accepted(r) ==
  /\ At(r, "posted") /\ registry[r] # "unknown"
  /\ Goto(r, "accepted")
  /\ UNCHANGED <<verificationCode, participants, hook, registry>>

(* subscribe gives false: the registry said no, or no answer came, even if *)
(* it got the request.  The caller throws; the document and the code stay. *)
Refused(r) ==
  /\ At(r, "posted")
  /\ Goto(r, "refused")
  /\ UNCHANGED <<verificationCode, participants, hook, registry>>

(* Slip: the code is not deleted.                                          *)
keepVerificationCode(r) ==
  /\ At(r, "accepted")
  /\ Goto(r, "succeeded")
  /\ UNCHANGED <<verificationCode, participants, hook, registry>>

unsetOndcVerificationCode(r) ==
  /\ At(r, "accepted")
  /\ Goto(r, "succeeded")
  /\ verificationCode' = None
  /\ UNCHANGED <<participants, hook, registry>>

(* Redis or MongoDB throws, or the process dies: what was done stays done. *)
Abort(r) ==
  /\ request[r].step \in {"cached", "created", "posted", "accepted"}
  /\ Goto(r, "aborted")
  /\ UNCHANGED <<verificationCode, participants, hook, registry>>

-----------------------------------------------------------------------------
(* POST participants/hook/on_subscribe, from one await to the next.        *)

(* The registry calls back with a challenge for the keys of a request; it  *)
(* may do so more than once.  The handler finds the subscriber's document. *)
findNetworkParticipantBySubscriberId(c, r) ==
  /\ hook[c].step = "idle"
  /\ registry[r] # "unknown"
  /\ Known(SubscriberOf(r))
  /\ hook' = [hook EXCEPT ![c] =
       [step |-> "found", challenge |-> r, answer |-> None,
        keys |-> FindOne(SubscriberOf(r)).request]]
  /\ UNCHANGED <<request, verificationCode, participants, registry>>

SubscriberAsked(c) == SubscriberOf(hook[c].challenge)

(* findOne and save are two awaits of the code and one step here: the      *)
(* document findOne gives stays the same (lemma OldestStays), and save     *)
(* writes only the field that was assigned.                                *)
saveWebhookPayload(c) ==
  /\ hook[c].step = "found"
  /\ hook' = [hook EXCEPT ![c].step = "payloadSaved"]
  /\ participants' =
       [participants EXCEPT ![Found(SubscriberAsked(c))].webhookPayload = c]
  /\ UNCHANGED <<request, verificationCode, registry>>

(* Slip: the answer is not awaited, so what is kept of it is a promise.    *)
solveUnawaited(c) ==
  /\ hook[c].step = "payloadSaved"
  /\ hook' = [hook EXCEPT ![c].step = "solved", ![c].answer = "promise"]
  /\ UNCHANGED <<request, verificationCode, participants, registry>>

(* Another request's key decrypts the challenge to bytes whose padding is  *)
(* wrong, and decipher.final throws (see AbortHook), or right by accident. *)
solveWebhookChallenge(c) ==
  /\ hook[c].step = "payloadSaved"
  /\ LET answer == IF hook[c].keys = hook[c].challenge THEN "right" ELSE "wrong"
     IN hook' = [hook EXCEPT ![c].step = "solved", ![c].answer = answer]
  /\ UNCHANGED <<request, verificationCode, participants, registry>>

(* Slip: the answer is returned and not saved.                             *)
answerUnsaved(c) ==
  /\ hook[c].step = "solved"
  /\ hook' = [hook EXCEPT ![c].step = "answered"]
  /\ UNCHANGED <<request, verificationCode, participants, registry>>

saveWebhookResponse(c) ==
  /\ hook[c].step = "solved"
  /\ hook' = [hook EXCEPT ![c].step = "answered"]
  /\ participants' =
       [participants EXCEPT ![Found(SubscriberAsked(c))].webhookResponse = c]
  /\ UNCHANGED <<request, verificationCode, registry>>

AbortHook(c) ==
  /\ hook[c].step \in {"found", "payloadSaved", "solved"}
  /\ hook' = [hook EXCEPT ![c].step = "aborted"]
  /\ UNCHANGED <<request, verificationCode, participants, registry>>

(* The registry reads the answer.                                          *)
Verify(c) ==
  /\ hook[c].step = "answered" /\ hook[c].answer = "right"
  /\ registry' = [registry EXCEPT ![hook[c].challenge] = "verified"]
  /\ UNCHANGED <<request, verificationCode, participants, hook>>

-----------------------------------------------------------------------------
RequestNext(r) ==
  \/ \E s \in Subscriber : setOndcVerificationCode(r, s)
  \/ createNetworkParticipant(r) \/ subscribe(r)
  \/ Accepted(r) \/ Refused(r) \/ unsetOndcVerificationCode(r) \/ Abort(r)

HookNext(c) ==
  \/ \E r \in Request : findNetworkParticipantBySubscriberId(c, r)
  \/ saveWebhookPayload(c) \/ solveWebhookChallenge(c) \/ saveWebhookResponse(c)
  \/ AbortHook(c) \/ Verify(c)

Next == (\E r \in Request : RequestNext(r)) \/ (\E c \in Call : HookNext(c))

Spec == Init /\ [][Next]_vars

-----------------------------------------------------------------------------
Document == [request : Request, subscriber : Subscriber,
             webhookPayload : Call \union {None},
             webhookResponse : Call \union {None}]

(* Every variable holds a value of its type.                               *)
TypeOK ==
  /\ request \in [Request -> [step : RequestStep,
                              subscriber : Subscriber \union {None}]]
  /\ verificationCode \in Request \union {None}
  /\ participants \in Seq(Document)
  /\ hook \in [Call -> [step : HookStep, challenge : Request \union {None},
                        keys : Request \union {None},
                        answer : Answer \union {None}]]
  /\ registry \in [Request -> {"unknown", "received", "verified"}]

(* Keys the registry has seen are in the database: whatever aborts or is   *)
(* refused, no merchant is registered with keys that nobody kept.          *)
RegistryKeysAreKept ==
  \A r \in Request :
    registry[r] # "unknown" =>
      \E i \in DOMAIN participants : /\ participants[i].request = r
                                     /\ participants[i].subscriber = SubscriberOf(r)

(* The keys that src/seller finds for a subscriber and signs with are the  *)
(* ones the registry verified, although older, newer and orphaned          *)
(* documents of the same subscriber may exist.                             *)
VerifiedKeysAreUsed ==
  \A r \in Request :
    registry[r] = "verified" => FindOne(SubscriberOf(r)).request = r

(* What the registry verified is on record: the document that served the   *)
(* challenge keeps a challenge and an answer, of this callback or of a     *)
(* later one.                                                              *)
VerificationOnRecord ==
  \A r \in Request :
    registry[r] = "verified" =>
      LET doc == FindOne(SubscriberOf(r))
      IN doc.webhookPayload # None /\ doc.webhookResponse # None

(* What a document keeps of callbacks is of its own: its challenge came    *)
(* with one that found this document, and its answer is that of one that   *)
(* completed with this document's keys, after a challenge was saved.       *)
(* Callbacks of one subscriber that overlap may leave the challenge of one *)
(* beside the answer of another, but never what belongs elsewhere.         *)
RecordsOwned ==
  \A i \in DOMAIN participants :
    LET doc == participants[i]
        Served(c) == /\ hook[c].step \in {"payloadSaved", "solved", "answered", "aborted"}
                     /\ hook[c].keys = doc.request
    IN /\ doc.webhookPayload # None => Served(doc.webhookPayload)
       /\ doc.webhookResponse # None =>
            /\ doc.webhookPayload # None
            /\ Served(doc.webhookResponse)
            /\ hook[doc.webhookResponse].step = "answered"

(* The shared redis key outlives the requests only through one that was    *)
(* refused or aborted: the last request to finish deletes it, whoever set  *)
(* it last.  That a request may delete the code of another is no part of   *)
(* this: nothing in the repository reads the key.                          *)
CodeIsCleared ==
  (\A r \in Request : request[r].step \in {"new", "succeeded"})
    => verificationCode = None

(* What ties requests, documents and callbacks together; the properties on *)
(* keys and records follow from it, and it is what a step preserves.       *)

(* A request has its subscriber from its first step on, and its document   *)
(* before the registry can hear of it.                                     *)
RequestsRecorded ==
  \A r \in Request :
    /\ SubscriberOf(r) = None <=> At(r, "new")
    /\ At(r, "created") \/ registry[r] # "unknown" =>
         \E i \in DOMAIN participants : participants[i].request = r

(* A document belongs to a request and has that request's subscriber.      *)
DocumentsOwned ==
  \A i \in DOMAIN participants :
    /\ ~At(participants[i].request, "new")
    /\ participants[i].subscriber = SubscriberOf(participants[i].request)

(* A callback, from its first await to its last, holds the keys of the     *)
(* document that findOne gives at any later time, and gives the right      *)
(* answer only if they are those it was challenged on.                     *)
CallbacksConsistent ==
  \A c \in Call : hook[c].step # "idle" =>
    LET r   == hook[c].challenge
        doc == FindOne(SubscriberOf(r))
    IN /\ r \in Request /\ registry[r] # "unknown"
       /\ hook[c].keys = doc.request
       /\ hook[c].answer = "right" => hook[c].keys = r
       /\ hook[c].step \in {"payloadSaved", "solved", "answered"}
            => doc.webhookPayload # None
       /\ hook[c].step = "answered" => doc.webhookResponse # None

Consistent == RequestsRecorded /\ DocumentsOwned /\ CallbacksConsistent

(* A document keeps its place, its owner and its subscriber for ever.      *)
DocumentsStay ==
  [][\A i \in DOMAIN participants :
       /\ i \in DOMAIN participants'
       /\ participants'[i].request = participants[i].request
       /\ participants'[i].subscriber = participants[i].subscriber]_vars

(* The oldest document of a subscriber is of a request that is over and    *)
(* that the registry never heard of.                                       *)
Orphaned(s) ==
  /\ Known(s)
  /\ request[FindOne(s).request].step \in {"refused", "aborted"}
  /\ registry[FindOne(s).request] = "unknown"

(* The price of never deleting a document: such a subscriber is locked     *)
(* out.  However often it subscribes again, and whatever the registry      *)
(* asks, none of its requests is ever verified.                            *)
OrphansLockOut ==
  [][\A s \in Subscriber :
       Orphaned(s) =>
         /\ Orphaned(s)'
         /\ \A r \in Request : SubscriberOf(r)' = s => registry'[r] # "verified"]_vars

(* The registry verifies one request of a subscriber, for good: its keys   *)
(* are never taken back, and those of a later subscription never replace   *)
(* or join them.                                                           *)
KeysNeverRotate ==
  [][\A r \in Request :
       registry[r] = "verified" =>
         /\ registry'[r] = "verified"
         /\ \A q \in Request \ {r} :
              SubscriberOf(q)' = SubscriberOf(r)' => registry'[q] # "verified"]_vars

-----------------------------------------------------------------------------
(* What the code says of itself and does not do.                           *)

(* participant.controller.ts, line 47, leaves the deletion of a refused    *)
(* request's document to be done.  With it, the only request of its        *)
(* subscriber that was not refused would be challenged on its own keys.    *)
ChallengeMeetsItsKeys ==
  \A c \in Call :
    LET r == hook[c].challenge IN
    r # None /\ (\A q \in Request \ {r} : request[q].step \in {"new", "refused"})
      => hook[c].keys = r
===============================================================================
