--------------------- MODULE ParticipantOnboardingProofs ---------------------
(***************************************************************************)
(* Proofs about ParticipantOnboarding for any number of requests,          *)
(* subscribers and callbacks.  The argument rests on one fact about        *)
(* findOne: as long as documents are only added at the end and keep their  *)
(* subscribers, what it finds for a subscriber never changes once it finds *)
(* anything.  So the keys a callback read before its awaits are those      *)
(* anybody finds later.                                                    *)
(***************************************************************************)
EXTENDS ParticipantOnboarding, SequenceTheorems, WellFoundedInduction, TLAPS

IInv == TypeOK /\ Consistent /\ VerifiedKeysAreUsed /\ VerificationOnRecord

-----------------------------------------------------------------------------
(* findOne.                                                                *)

(* A set of naturals that is not empty has a least member.                 *)
LEMMA LeastMember ==
  ASSUME NEW T \in SUBSET Nat, T # {}
  PROVE  \E i \in T : \A j \in T : i <= j
<1> DEFINE R == OpToRel(<, Nat)
<1>1. PICK i \in T : \A j \in T : ~(<<j, i>> \in R)
  <2> HIDE DEF R
  <2>1. IsWellFoundedOn(R, Nat)
    BY NatLessThanWellFounded DEF R
  <2> QED BY <2>1, WFMin
<1>2. \A j \in T : ~(j < i)
  BY <1>1 DEF OpToRel
<1> QED BY <1>2

(* Oldest gives the least position of a document of s, if there is any.    *)
LEMMA OldestIsLeast ==
  ASSUME NEW D, NEW docs \in Seq(D), NEW s, Matches(docs, s) # {}
  PROVE  /\ Oldest(docs, s) \in Matches(docs, s)
         /\ \A j \in Matches(docs, s) : Oldest(docs, s) <= j
<1>1. Matches(docs, s) \in SUBSET Nat
  BY LenProperties DEF Matches
<1>2. \E i \in Matches(docs, s) : \A j \in Matches(docs, s) : i <= j
  BY <1>1, LeastMember
<1> QED BY <1>2 DEF Oldest

(* What every step does to the collection: documents are added at the end, *)
(* and those that are there keep who they belong to and, once they have    *)
(* one, a challenge and an answer.                                         *)
Keeps(docs, later) ==
  \A i \in DOMAIN docs :
    /\ i \in DOMAIN later
    /\ later[i].request = docs[i].request
    /\ later[i].subscriber = docs[i].subscriber
    /\ docs[i].webhookPayload # None => later[i].webhookPayload # None
    /\ docs[i].webhookResponse # None => later[i].webhookResponse # None

(* Such a step does not change what findOne finds.                         *)
LEMMA OldestStays ==
  ASSUME NEW D, NEW docs \in Seq(D), NEW later \in Seq(D), Keeps(docs, later),
         NEW s, Matches(docs, s) # {}
  PROVE  Matches(later, s) # {} /\ Oldest(later, s) = Oldest(docs, s)
<1>1. /\ Oldest(docs, s) \in Matches(docs, s)
      /\ \A j \in Matches(docs, s) : Oldest(docs, s) <= j
  BY OldestIsLeast
<1>2. Oldest(docs, s) \in Matches(later, s)
  BY <1>1 DEF Matches, Keeps
<1>3. /\ Oldest(later, s) \in Matches(later, s)
      /\ \A j \in Matches(later, s) : Oldest(later, s) <= j
  BY <1>2, OldestIsLeast
<1>4. DOMAIN docs = 1 .. Len(docs) /\ DOMAIN later = 1 .. Len(later)
      /\ Len(docs) \in Nat /\ Len(later) \in Nat
  BY LenProperties
<1>5. Oldest(later, s) <= Oldest(docs, s)
  BY <1>2, <1>3
<1>6. Oldest(later, s) \in DOMAIN docs
  BY <1>1, <1>3, <1>4, <1>5 DEF Matches
<1>7. Oldest(later, s) \in Matches(docs, s)
  BY <1>3, <1>6 DEF Matches, Keeps
<1>8. Oldest(docs, s) <= Oldest(later, s)
  BY <1>1, <1>7
<1>9. Oldest(docs, s) \in Int /\ Oldest(later, s) \in Int
  BY <1>1, <1>3, <1>4 DEF Matches
<1> QED BY <1>2, <1>5, <1>8, <1>9

-----------------------------------------------------------------------------
(* The two ways the collection changes.                                    *)

(* A document is inserted.                                                 *)
LEMMA Inserted ==
  ASSUME NEW docs \in Seq(Document), NEW d \in Document
  PROVE  /\ Append(docs, d) \in Seq(Document)
         /\ Keeps(docs, Append(docs, d))
         /\ \E i \in DOMAIN Append(docs, d) : Append(docs, d)[i] = d
         /\ \A i \in DOMAIN Append(docs, d) :
              \/ Append(docs, d)[i] = d
              \/ i \in DOMAIN docs /\ Append(docs, d)[i] = docs[i]
<1> DEFINE later == Append(docs, d)
<1>1. /\ later \in Seq(Document) /\ Len(later) = Len(docs) + 1
      /\ \A i \in 1 .. Len(docs) : later[i] = docs[i]
      /\ later[Len(docs) + 1] = d
  BY AppendProperties
<1> HIDE DEF later
<1>2. /\ DOMAIN docs = 1 .. Len(docs) /\ Len(docs) \in Nat
      /\ DOMAIN later = 1 .. (Len(docs) + 1)
  BY <1>1, LenProperties
<1>3. \A i \in DOMAIN later : i \in DOMAIN docs \/ i = Len(docs) + 1
  BY <1>2
<1>4. Len(docs) + 1 \in DOMAIN later
  BY <1>2
<1>5. \A i \in DOMAIN docs : i \in DOMAIN later /\ later[i] = docs[i]
  BY <1>1, <1>2
<1>6. Keeps(docs, later)
  BY <1>5 DEF Keeps
<1>7. \A i \in DOMAIN later : \/ later[i] = d
                              \/ i \in DOMAIN docs /\ later[i] = docs[i]
  BY <1>1, <1>3, <1>5
<1> QED BY <1>1, <1>4, <1>6, <1>7 DEF later

(* A challenge is saved in the document at a position.                     *)
LEMMA PayloadSaved ==
  ASSUME NEW docs \in Seq(Document), NEW i, NEW c \in Call, c # None
  PROVE  LET later == [docs EXCEPT ![i].webhookPayload = c] IN
         /\ later \in Seq(Document) /\ Keeps(docs, later)
         /\ DOMAIN later = DOMAIN docs
         /\ i \in DOMAIN docs => later[i].webhookPayload = c
<1> DEFINE later == [docs EXCEPT ![i].webhookPayload = c]
<1>1. docs \in [1 .. Len(docs) -> Document] /\ Len(docs) \in Nat
  BY LenProperties
<1>2. later \in [1 .. Len(docs) -> Document]
  BY <1>1 DEF Document
<1>3. later \in Seq(Document)
  BY <1>1, <1>2, SeqDef
<1>4. /\ \A j \in DOMAIN docs :
            later[j] = IF j = i THEN [docs[j] EXCEPT !.webhookPayload = c] ELSE docs[j]
      /\ DOMAIN later = DOMAIN docs
  OBVIOUS
<1>5. \A j \in DOMAIN docs : docs[j] \in Document
  BY <1>1
<1> HIDE DEF later
<1>6. Keeps(docs, later) /\ (i \in DOMAIN docs => later[i].webhookPayload = c)
  BY <1>4, <1>5 DEF Keeps, Document
<1> QED BY <1>3, <1>4, <1>6 DEF later

(* An answer is saved in the document at a position.                       *)
LEMMA ResponseSaved ==
  ASSUME NEW docs \in Seq(Document), NEW i, NEW c \in Call, c # None
  PROVE  LET later == [docs EXCEPT ![i].webhookResponse = c] IN
         /\ later \in Seq(Document) /\ Keeps(docs, later)
         /\ DOMAIN later = DOMAIN docs
         /\ i \in DOMAIN docs => later[i].webhookResponse = c
<1> DEFINE later == [docs EXCEPT ![i].webhookResponse = c]
<1>1. docs \in [1 .. Len(docs) -> Document] /\ Len(docs) \in Nat
  BY LenProperties
<1>2. later \in [1 .. Len(docs) -> Document]
  BY <1>1 DEF Document
<1>3. later \in Seq(Document)
  BY <1>1, <1>2, SeqDef
<1>4. /\ \A j \in DOMAIN docs :
            later[j] = IF j = i THEN [docs[j] EXCEPT !.webhookResponse = c] ELSE docs[j]
      /\ DOMAIN later = DOMAIN docs
  OBVIOUS
<1>5. \A j \in DOMAIN docs : docs[j] \in Document
  BY <1>1
<1> HIDE DEF later
<1>6. Keeps(docs, later) /\ (i \in DOMAIN docs => later[i].webhookResponse = c)
  BY <1>4, <1>5 DEF Keeps, Document
<1> QED BY <1>3, <1>4, <1>6 DEF later

(* Nothing is inserted or saved.                                           *)
LEMMA KeepsItself == \A docs : Keeps(docs, docs)
BY DEF Keeps

-----------------------------------------------------------------------------
(* Types.                                                                  *)

(* The initial state is well typed.                                        *)
LEMMA TypeInit == Init => TypeOK
BY EmptySeq DEF Init, TypeOK, RequestStep, HookStep

(* What findOne gives is a document.                                       *)
LEMMA FindOneType ==
  ASSUME TypeOK, NEW s, Known(s)
  PROVE  Found(s) \in DOMAIN participants /\ FindOne(s) \in Document
<1>1. participants \in Seq(Document) /\ Matches(participants, s) # {}
  BY DEF TypeOK, Known
<1>2. Oldest(participants, s) \in Matches(participants, s)
  BY <1>1, OldestIsLeast
<1>3. Found(s) \in DOMAIN participants
  BY <1>2 DEF Found, Matches
<1>4. participants \in [1 .. Len(participants) -> Document]
  BY <1>1, LenProperties
<1> QED BY <1>3, <1>4 DEF FindOne

(* Every step leaves the variables well typed, and the collection keeps    *)
(* its documents.                                                          *)
LEMMA TypeStep ==
  ASSUME TypeOK, RequestsRecorded, [Next]_vars
  PROVE  TypeOK' /\ Keeps(participants, participants')
<1> DEFINE Goal == TypeOK' /\ Keeps(participants, participants')
<1> USE DEF At, Goto, SubscriberOf, RequestStep, HookStep, Answer
<1>k. participants' = participants => Keeps(participants, participants')
  BY KeepsItself
<1>n. \A c \in Call : c # None
  BY NoneAssumption
<1>1. ASSUME NEW r \in Request, NEW s \in Subscriber, setOndcVerificationCode(r, s)
      PROVE  Goal
  BY <1>1, <1>k DEF setOndcVerificationCode, TypeOK
<1>2. ASSUME NEW r \in Request, createNetworkParticipant(r)
      PROVE  Goal
  <2> DEFINE d == [request |-> r, subscriber |-> SubscriberOf(r),
                   webhookPayload |-> None, webhookResponse |-> None]
  <2>1. d \in Document
    BY <1>2 DEF createNetworkParticipant, TypeOK, Document, RequestsRecorded
  <2>2. participants \in Seq(Document) /\ participants' = Append(participants, d)
    BY <1>2 DEF createNetworkParticipant, TypeOK
  <2>3. participants' \in Seq(Document) /\ Keeps(participants, participants')
    BY <2>1, <2>2, Inserted
  <2> QED BY <1>2, <2>3 DEF createNetworkParticipant, TypeOK
<1>3. ASSUME NEW r \in Request, subscribe(r)
      PROVE  Goal
  BY <1>3, <1>k DEF subscribe, TypeOK
<1>4. ASSUME NEW r \in Request, Accepted(r) \/ Refused(r) \/ Abort(r)
      PROVE  Goal
  BY <1>4, <1>k DEF Accepted, Refused, Abort, TypeOK
<1>5. ASSUME NEW r \in Request, unsetOndcVerificationCode(r)
      PROVE  Goal
  BY <1>5, <1>k DEF unsetOndcVerificationCode, TypeOK
<1>6. ASSUME NEW c \in Call, NEW r \in Request,
             findNetworkParticipantBySubscriberId(c, r)
      PROVE  Goal
  <2>1. FindOne(SubscriberOf(r)).request \in Request
    BY <1>6, FindOneType DEF findNetworkParticipantBySubscriberId, Document
  <2> QED BY <1>6, <1>k, <2>1 DEF findNetworkParticipantBySubscriberId, TypeOK
<1>7. ASSUME NEW c \in Call, saveWebhookPayload(c)
      PROVE  Goal
  <2>1. participants \in Seq(Document)
    BY DEF TypeOK
  <2>2. participants' \in Seq(Document) /\ Keeps(participants, participants')
    BY <1>7, <1>n, <2>1, PayloadSaved DEF saveWebhookPayload
  <2> QED BY <1>7, <2>2 DEF saveWebhookPayload, TypeOK
<1>8. ASSUME NEW c \in Call, solveWebhookChallenge(c)
      PROVE  Goal
  <2>1. PICK answer \in Answer :
          hook' = [hook EXCEPT ![c].step = "solved", ![c].answer = answer]
    BY <1>8 DEF solveWebhookChallenge
  <2>2. hook' \in [Call -> [step : HookStep, challenge : Request \union {None},
                            keys : Request \union {None},
                            answer : Answer \union {None}]]
    BY <2>1 DEF TypeOK
  <2> QED BY <1>8, <1>k, <2>2 DEF solveWebhookChallenge, TypeOK
<1>9. ASSUME NEW c \in Call, saveWebhookResponse(c)
      PROVE  Goal
  <2>1. participants \in Seq(Document)
    BY DEF TypeOK
  <2>2. participants' \in Seq(Document) /\ Keeps(participants, participants')
    BY <1>9, <1>n, <2>1, ResponseSaved DEF saveWebhookResponse
  <2> QED BY <1>9, <2>2 DEF saveWebhookResponse, TypeOK
<1>10. ASSUME NEW c \in Call, AbortHook(c)
       PROVE  Goal
  BY <1>10, <1>k DEF AbortHook, TypeOK
<1>11. ASSUME NEW c \in Call, Verify(c)
       PROVE  Goal
  BY <1>11, <1>k DEF Verify, TypeOK
<1>12. CASE UNCHANGED vars
  BY <1>12, <1>k DEF vars, TypeOK
<1> QED BY <1>1, <1>2, <1>3, <1>4, <1>5, <1>6, <1>7, <1>8, <1>9, <1>10, <1>11,
           <1>12 DEF Next, RequestNext, HookNext

-----------------------------------------------------------------------------
(* What a step leaves as it was.                                           *)

(* A subscriber that findOne finds is found again, in a document of the    *)
(* same request that has lost neither a challenge nor an answer.           *)
LEMMA FoundStays ==
  ASSUME TypeOK, TypeOK', Keeps(participants, participants'), NEW s, Known(s)
  PROVE  /\ Known(s)' /\ Found(s)' = Found(s)
         /\ Found(s) \in DOMAIN participants
         /\ FindOne(s)'.request = FindOne(s).request
         /\ FindOne(s).webhookPayload # None => FindOne(s)'.webhookPayload # None
         /\ FindOne(s).webhookResponse # None => FindOne(s)'.webhookResponse # None
<1>1. /\ participants \in Seq(Document) /\ participants' \in Seq(Document)
      /\ Matches(participants, s) # {}
  BY DEF TypeOK, Known
<1>2. /\ Matches(participants', s) # {}
      /\ Oldest(participants', s) = Oldest(participants, s)
  BY <1>1, OldestStays
<1>3. Found(s) \in DOMAIN participants
  BY FindOneType
<1>4. Known(s)' /\ Found(s)' = Found(s)
  BY <1>2 DEF Known, Found
<1> QED BY <1>3, <1>4 DEF FindOne, Keeps

(* A request the registry has heard of has a document.                     *)
LEMMA HeardOfIsKnown ==
  ASSUME TypeOK, RequestsRecorded, DocumentsOwned,
         NEW r \in Request, registry[r] # "unknown"
  PROVE  Known(SubscriberOf(r)) /\ ~At(r, "new")
<1>1. PICK i \in DOMAIN participants : participants[i].request = r
  BY DEF RequestsRecorded
<1> QED BY <1>1 DEF DocumentsOwned, Known, Matches

(* A request keeps its subscriber once it has one.                         *)
LEMMA SubscriberStays ==
  ASSUME TypeOK, [Next]_vars, NEW r \in Request, ~At(r, "new")
  PROVE  ~At(r, "new")' /\ SubscriberOf(r)' = SubscriberOf(r)
<1> USE DEF At, Goto, SubscriberOf
<1>1. \/ request' = request
      \/ \E q \in Request, s \in Subscriber :
           At(q, "new") /\ request' = [request EXCEPT ![q] =
                                         [step |-> "cached", subscriber |-> s]]
      \/ \E q \in Request, t \in RequestStep \ {"new"} : Goto(q, t)
  BY DEF Next, vars, RequestNext, HookNext, setOndcVerificationCode,
         createNetworkParticipant, subscribe, Accepted, Refused,
         unsetOndcVerificationCode, Abort, findNetworkParticipantBySubscriberId,
         saveWebhookPayload, solveWebhookChallenge, saveWebhookResponse,
         AbortHook, Verify, RequestStep
<1> QED BY <1>1 DEF TypeOK

(* The registry does not forget.                                           *)
LEMMA RegistryRemembers ==
  ASSUME TypeOK, [Next]_vars, NEW r \in Request, registry[r] # "unknown"
  PROVE  registry'[r] # "unknown"
BY DEF TypeOK, Next, vars, RequestNext, HookNext, setOndcVerificationCode,
       createNetworkParticipant, subscribe, Accepted, Refused,
       unsetOndcVerificationCode, Abort, findNetworkParticipantBySubscriberId,
       saveWebhookPayload, solveWebhookChallenge, saveWebhookResponse,
       AbortHook, Verify

-----------------------------------------------------------------------------
(* The inductive invariant, part by part.                                  *)

(* Only createNetworkParticipant takes a request to where the registry     *)
(* can hear of it, and it inserts the document.                            *)
LEMMA RequestsRecordedStep ==
  ASSUME TypeOK, TypeOK', Keeps(participants, participants'), RequestsRecorded,
         CallbacksConsistent, [Next]_vars
  PROVE  RequestsRecorded'
<1> SUFFICES ASSUME NEW r \in Request
             PROVE  /\ (SubscriberOf(r) = None <=> At(r, "new"))'
                    /\ (At(r, "created") \/ registry[r] # "unknown")' =>
                         \E i \in DOMAIN participants' : participants'[i].request = r
  BY DEF RequestsRecorded
<1> USE DEF At, Goto, SubscriberOf
<1>n. None \notin Subscriber
  BY NoneAssumption
<1>1. \/ request' = request
      \/ \E q \in Request, s \in Subscriber :
           At(q, "new") /\ request' = [request EXCEPT ![q] =
                                         [step |-> "cached", subscriber |-> s]]
      \/ \E q \in Request, t \in RequestStep \ {"new"} :
           ~At(q, "new") /\ Goto(q, t)
  BY DEF Next, vars, RequestNext, HookNext, setOndcVerificationCode,
         createNetworkParticipant, subscribe, Accepted, Refused,
         unsetOndcVerificationCode, Abort, findNetworkParticipantBySubscriberId,
         saveWebhookPayload, solveWebhookChallenge, saveWebhookResponse,
         AbortHook, Verify, RequestStep
<1>2. (SubscriberOf(r) = None <=> At(r, "new"))'
  BY <1>1, <1>n DEF TypeOK, RequestsRecorded
<1>3. CASE createNetworkParticipant(r)
  <2> DEFINE d == [request |-> r, subscriber |-> SubscriberOf(r),
                   webhookPayload |-> None, webhookResponse |-> None]
  <2>1. participants \in Seq(Document) /\ d \in Document
        /\ participants' = Append(participants, d)
    BY <1>3 DEF createNetworkParticipant, TypeOK, Document, RequestsRecorded
  <2>2. \E i \in DOMAIN participants' : participants'[i] = d
    BY <2>1, Inserted
  <2> QED BY <1>2, <2>2
<1>4. CASE ~createNetworkParticipant(r)
  <2>1. At(r, "created")' => At(r, "created")
    <3>1. \/ request' = request
          \/ \E q \in Request : createNetworkParticipant(q)
          \/ \E q \in Request, s \in Subscriber :
               request' = [request EXCEPT ![q] = [step |-> "cached", subscriber |-> s]]
          \/ \E q \in Request, t \in RequestStep \ {"created"} : Goto(q, t)
      BY DEF Next, vars, RequestNext, HookNext, setOndcVerificationCode,
         subscribe, Accepted, Refused,
         unsetOndcVerificationCode, Abort, findNetworkParticipantBySubscriberId,
         saveWebhookPayload, solveWebhookChallenge, saveWebhookResponse,
         AbortHook, Verify, RequestStep
    <3>2. CASE \E q \in Request : createNetworkParticipant(q)
      <4>1. PICK q \in Request : q # r /\ createNetworkParticipant(q)
        BY <1>4, <3>2
      <4> QED BY <4>1 DEF createNetworkParticipant, TypeOK
    <3> QED BY <3>1, <3>2 DEF TypeOK
  <2>2. \/ registry' = registry
        \/ \E q \in Request :
             At(q, "created") /\ registry' = [registry EXCEPT ![q] = "received"]
        \/ \E c \in Call : Verify(c)
    BY DEF Next, vars, RequestNext, HookNext,
         setOndcVerificationCode, createNetworkParticipant, subscribe, Accepted,
         Refused, unsetOndcVerificationCode, Abort,
         findNetworkParticipantBySubscriberId, saveWebhookPayload,
         solveWebhookChallenge, saveWebhookResponse, AbortHook
  <2>3. (registry[r] # "unknown")' => At(r, "created") \/ registry[r] # "unknown"
    BY <2>2 DEF TypeOK, Verify, CallbacksConsistent
  <2> QED BY <1>2, <2>1, <2>3 DEF RequestsRecorded, Keeps
<1> QED BY <1>3, <1>4

(* Only createNetworkParticipant adds a document.                          *)
LEMMA OnlyOneInserts ==
  ASSUME TypeOK, [Next]_vars
  PROVE  \/ DOMAIN participants' = DOMAIN participants
         \/ \E r \in Request : createNetworkParticipant(r)
<1>1. \/ participants' = participants
      \/ \E r \in Request : createNetworkParticipant(r)
      \/ \E c \in Call : saveWebhookPayload(c) \/ saveWebhookResponse(c)
  BY DEF Next, vars, RequestNext, HookNext,
     setOndcVerificationCode, subscribe, Accepted,
     Refused, unsetOndcVerificationCode, Abort,
     findNetworkParticipantBySubscriberId,
     solveWebhookChallenge, AbortHook, Verify
<1>2. participants \in Seq(Document) /\ \A c \in Call : c # None
  BY NoneAssumption DEF TypeOK
<1>3. ASSUME NEW c \in Call, saveWebhookPayload(c) \/ saveWebhookResponse(c)
      PROVE  DOMAIN participants' = DOMAIN participants
  BY <1>2, <1>3, PayloadSaved, ResponseSaved
     DEF saveWebhookPayload, saveWebhookResponse
<1> QED BY <1>1, <1>3

(* A document that is new is that of the request that inserts it.          *)
LEMMA DocumentsOwnedStep ==
  ASSUME TypeOK, TypeOK', Keeps(participants, participants'), RequestsRecorded,
         DocumentsOwned, [Next]_vars
  PROVE  DocumentsOwned'
<1> USE DEF At, SubscriberOf
<1>d. /\ participants \in Seq(Document)
      /\ \A i \in DOMAIN participants : participants[i] \in Document
  <2>1. participants \in [1 .. Len(participants) -> Document]
    BY LenProperties DEF TypeOK
  <2> QED BY <2>1 DEF TypeOK
<1>1. SUFFICES ASSUME NEW i \in DOMAIN participants'
               PROVE  /\ participants'[i].request \in Request
                      /\ request'[participants'[i].request].step # "new"
                      /\ participants'[i].subscriber
                           = request'[participants'[i].request].subscriber
  BY DEF DocumentsOwned
<1>2. CASE i \in DOMAIN participants
  <2>1. PICK r \in Request : r = participants[i].request
    BY <1>2, <1>d DEF Document
  <2>2. /\ ~At(r, "new") /\ participants[i].subscriber = SubscriberOf(r)
        /\ participants'[i].request = r
        /\ participants'[i].subscriber = participants[i].subscriber
    BY <1>2, <2>1 DEF DocumentsOwned, Keeps
  <2>3. request'[r].step # "new" /\ request'[r].subscriber = SubscriberOf(r)
    BY <2>2, SubscriberStays
  <2> QED BY <2>2, <2>3
<1>3. CASE i \notin DOMAIN participants
  <2>1. CASE DOMAIN participants' = DOMAIN participants
    BY <1>3, <2>1
  <2>2. ASSUME NEW r \in Request, createNetworkParticipant(r)
        PROVE  /\ participants'[i].request = r
               /\ participants'[i].subscriber = SubscriberOf(r)
    <3> DEFINE d == [request |-> r, subscriber |-> SubscriberOf(r),
                     webhookPayload |-> None, webhookResponse |-> None]
    <3>1. d \in Document /\ participants' = Append(participants, d)
      BY <2>2 DEF createNetworkParticipant, TypeOK, Document, RequestsRecorded
    <3>2. participants'[i] = d
      BY <1>3, <1>d, <3>1, Inserted
    <3> QED BY <3>2
  <2>3. ASSUME NEW r \in Request, createNetworkParticipant(r)
        PROVE  request'[r].step # "new" /\ request'[r].subscriber = SubscriberOf(r)
    <3>1. ~At(r, "new")
      BY <2>3 DEF createNetworkParticipant
    <3> QED BY <3>1, SubscriberStays
  <2>4. \/ DOMAIN participants' = DOMAIN participants
        \/ \E r \in Request : createNetworkParticipant(r)
    BY OnlyOneInserts
  <2> QED BY <2>1, <2>2, <2>3, <2>4
<1> QED BY <1>2, <1>3

(* What findOne gives for a request that the registry has heard of.        *)
Doc(r) == FindOne(SubscriberOf(r))

(* It stays, and no field of it is emptied.                                *)
LEMMA DocStays ==
  ASSUME TypeOK, TypeOK', Keeps(participants, participants'), RequestsRecorded,
         DocumentsOwned, [Next]_vars,
         NEW r \in Request, registry[r] # "unknown"
  PROVE  /\ registry'[r] # "unknown"
         /\ Known(SubscriberOf(r))
         /\ Found(SubscriberOf(r)) \in DOMAIN participants
         /\ Found(SubscriberOf(r))' = Found(SubscriberOf(r))
         /\ Doc(r)' = participants'[Found(SubscriberOf(r))]
         /\ Doc(r)'.request = Doc(r).request
         /\ Doc(r).webhookPayload # None => Doc(r)'.webhookPayload # None
         /\ Doc(r).webhookResponse # None => Doc(r)'.webhookResponse # None
<1>1. Known(SubscriberOf(r)) /\ ~At(r, "new") /\ registry'[r] # "unknown"
  BY HeardOfIsKnown, RegistryRemembers
<1>2. PICK s : s = SubscriberOf(r)
  OBVIOUS
<1>3. SubscriberOf(r)' = s
  BY <1>1, <1>2, SubscriberStays
<1>4. /\ Found(s)' = Found(s)
      /\ Found(s) \in DOMAIN participants
      /\ FindOne(s)'.request = FindOne(s).request
      /\ FindOne(s).webhookPayload # None => FindOne(s)'.webhookPayload # None
      /\ FindOne(s).webhookResponse # None => FindOne(s)'.webhookResponse # None
  BY <1>1, <1>2, FoundStays
<1>5. Found(SubscriberOf(r))' = Found(s)' /\ Doc(r)' = FindOne(s)'
  BY <1>3 DEF Found, FindOne, Doc
<1>6. Found(SubscriberOf(r)) = Found(s) /\ Doc(r) = FindOne(s)
  BY <1>2 DEF Doc
<1>7. FindOne(s)' = participants'[Found(s)']
  BY DEF FindOne
<1> QED BY <1>1, <1>4, <1>5, <1>6, <1>7

(* A callback that does not move keeps what it holds because the document  *)
(* stays; one that moves adds a challenge or an answer to that document.   *)
LEMMA CallbacksConsistentStep ==
  ASSUME TypeOK, TypeOK', Keeps(participants, participants'), Consistent,
         [Next]_vars
  PROVE  CallbacksConsistent'
<1> DEFINE Fits(c, r, doc) ==
      /\ hook'[c].challenge = r /\ registry'[r] # "unknown"
      /\ hook'[c].keys = doc.request
      /\ hook'[c].answer = "right" => hook'[c].keys = r
      /\ hook'[c].step \in {"payloadSaved", "solved", "answered"}
           => doc.webhookPayload # None
      /\ hook'[c].step = "answered" => doc.webhookResponse # None
<1>1. SUFFICES ASSUME NEW c \in Call, hook'[c].step # "idle"
               PROVE  \E r \in Request : Fits(c, r, Doc(r)')
  <2>1. ASSUME NEW c \in Call, NEW r \in Request, Fits(c, r, Doc(r)')
        PROVE  LET q == hook'[c].challenge IN
                 q = r /\ Fits(c, q, FindOne(SubscriberOf(hook[c].challenge))')
    BY <2>1 DEF Doc, FindOne, Found, SubscriberOf
  <2> QED BY <1>1, <2>1 DEF CallbacksConsistent
<1>n. "right" # None /\ \A k \in Call : k # None
  BY NoneAssumption DEF Answer
<1>2. CASE hook'[c] = hook[c]
  <2>1. PICK r \in Request :
          /\ hook[c].challenge = r /\ registry[r] # "unknown"
          /\ hook[c].keys = Doc(r).request
          /\ hook[c].answer = "right" => hook[c].keys = r
          /\ hook[c].step \in {"payloadSaved", "solved", "answered"}
               => Doc(r).webhookPayload # None
          /\ hook[c].step = "answered" => Doc(r).webhookResponse # None
    BY <1>1, <1>2 DEF Consistent, CallbacksConsistent, Doc
  <2> QED BY <1>2, <2>1, DocStays DEF Consistent
<1>3. CASE hook'[c] # hook[c]
  <2>1. \/ \E r \in Request : findNetworkParticipantBySubscriberId(c, r)
        \/ saveWebhookPayload(c) \/ solveWebhookChallenge(c)
        \/ saveWebhookResponse(c) \/ AbortHook(c)
    <3> DEFINE Moves(b) ==
          \/ \E r \in Request : findNetworkParticipantBySubscriberId(b, r)
          \/ saveWebhookPayload(b) \/ solveWebhookChallenge(b)
          \/ saveWebhookResponse(b) \/ AbortHook(b)
    <3>1. hook' = hook \/ \E b \in Call : Moves(b)
      BY DEF Next, vars, RequestNext, HookNext,
       setOndcVerificationCode, createNetworkParticipant, subscribe, Accepted,
       Refused, unsetOndcVerificationCode, Abort, Verify
    <3>2. ASSUME NEW b \in Call, Moves(b), b # c
          PROVE  hook'[c] = hook[c]
      BY <3>2 DEF TypeOK, findNetworkParticipantBySubscriberId,
         saveWebhookPayload, solveWebhookChallenge, saveWebhookResponse, AbortHook
    <3> QED BY <1>3, <3>1, <3>2
  <2>2. CASE \E r \in Request : findNetworkParticipantBySubscriberId(c, r)
    <3>1. PICK r \in Request : findNetworkParticipantBySubscriberId(c, r)
      BY <2>2
    <3>2. Doc(r)'.request = Doc(r).request /\ registry'[r] # "unknown"
      BY <3>1, DocStays DEF findNetworkParticipantBySubscriberId, Consistent
    <3> QED BY <3>1, <3>2, <1>n
            DEF findNetworkParticipantBySubscriberId, TypeOK, Doc
  <2>3. CASE ~\E r \in Request : findNetworkParticipantBySubscriberId(c, r)
    <3>1. hook[c].step \in {"found", "payloadSaved", "solved"}
      BY <2>1, <2>3 DEF saveWebhookPayload, solveWebhookChallenge,
         saveWebhookResponse, AbortHook
    <3>2. PICK r \in Request :
            /\ hook[c].challenge = r /\ registry[r] # "unknown"
            /\ hook[c].keys = Doc(r).request
            /\ hook[c].answer = "right" => hook[c].keys = r
            /\ hook[c].step \in {"payloadSaved", "solved", "answered"}
                 => Doc(r).webhookPayload # None
      BY <3>1 DEF Consistent, CallbacksConsistent, Doc
    <3>3. /\ registry'[r] # "unknown"
          /\ Found(SubscriberOf(r)) \in DOMAIN participants
          /\ Doc(r)' = participants'[Found(SubscriberOf(r))]
          /\ Doc(r)'.request = Doc(r).request
          /\ Doc(r).webhookPayload # None => Doc(r)'.webhookPayload # None
      BY <3>2, DocStays DEF Consistent
    <3>4. participants \in Seq(Document)
      BY DEF TypeOK
    <3>5. CASE saveWebhookPayload(c)
      <4>1. participants' =
              [participants EXCEPT ![Found(SubscriberOf(r))].webhookPayload = c]
        BY <3>2, <3>5 DEF saveWebhookPayload, SubscriberAsked
      <4>2. Doc(r)'.webhookPayload = c
        BY <1>n, <3>3, <3>4, <4>1, PayloadSaved
      <4>3. hook' = [hook EXCEPT ![c].step = "payloadSaved"]
        BY <3>5 DEF saveWebhookPayload
      <4> QED BY <1>n, <3>2, <3>3, <4>2, <4>3 DEF TypeOK
    <3>6. CASE solveWebhookChallenge(c)
      <4>1. PICK answer \in Answer :
              /\ answer = "right" => hook[c].keys = hook[c].challenge
              /\ hook' = [hook EXCEPT ![c].step = "solved", ![c].answer = answer]
              /\ hook[c].step = "payloadSaved"
        BY <3>6 DEF solveWebhookChallenge, Answer
      <4>2. /\ hook'[c].answer = answer /\ hook'[c].step = "solved"
            /\ hook'[c].keys = hook[c].keys /\ hook'[c].challenge = hook[c].challenge
        BY <4>1 DEF TypeOK
      <4> QED BY <3>2, <3>3, <4>1, <4>2
    <3>7. CASE saveWebhookResponse(c)
      <4>1. participants' =
              [participants EXCEPT ![Found(SubscriberOf(r))].webhookResponse = c]
        BY <3>2, <3>7 DEF saveWebhookResponse, SubscriberAsked
      <4>2. Doc(r)'.webhookResponse = c
        BY <1>n, <3>3, <3>4, <4>1, ResponseSaved
      <4>3. hook' = [hook EXCEPT ![c].step = "answered"] /\ hook[c].step = "solved"
        BY <3>7 DEF saveWebhookResponse
      <4> QED BY <1>n, <3>2, <3>3, <4>2, <4>3 DEF TypeOK
    <3>8. CASE AbortHook(c)
      BY <3>2, <3>3, <3>8 DEF AbortHook, TypeOK
    <3> QED BY <2>1, <2>3, <3>5, <3>6, <3>7, <3>8
  <2> QED BY <2>2, <2>3
<1> QED BY <1>2, <1>3

(* The registry verifies a request only on the answer of a callback that   *)
(* held its keys, which are and stay those findOne gives.                  *)
LEMMA VerifiedStep ==
  ASSUME TypeOK, TypeOK', Keeps(participants, participants'), Consistent,
         VerifiedKeysAreUsed, VerificationOnRecord, [Next]_vars
  PROVE  VerifiedKeysAreUsed' /\ VerificationOnRecord'
<1>1. SUFFICES ASSUME NEW r \in Request, registry'[r] = "verified"
               PROVE  /\ Doc(r)'.request = r
                      /\ Doc(r)'.webhookPayload # None
                      /\ Doc(r)'.webhookResponse # None
  BY DEF VerifiedKeysAreUsed, VerificationOnRecord, Doc
<1>2. /\ registry[r] # "unknown"
      /\ Doc(r).request = r
      /\ Doc(r).webhookPayload # None
      /\ Doc(r).webhookResponse # None
  <2>1. CASE registry[r] = "verified"
    BY <2>1 DEF VerifiedKeysAreUsed, VerificationOnRecord, Doc
  <2>2. CASE registry[r] # "verified"
    <3>1. PICK c \in Call : Verify(c)
      BY <1>1, <2>2 DEF TypeOK, Next, vars, RequestNext, HookNext,
       setOndcVerificationCode, createNetworkParticipant, subscribe, Accepted,
       Refused, unsetOndcVerificationCode, Abort,
       findNetworkParticipantBySubscriberId, saveWebhookPayload,
       solveWebhookChallenge, saveWebhookResponse, AbortHook
    <3>2. hook[c].challenge = r
      BY <1>1, <2>2, <3>1 DEF Verify, TypeOK
    <3> QED BY <3>1, <3>2 DEF Verify, Consistent, CallbacksConsistent, Doc
  <2> QED BY <2>1, <2>2
<1> QED BY <1>2, DocStays DEF Consistent

(* A document's challenge and answer stay those of callbacks that held its *)
(* keys: callbacks only move on, and save in the document they found.      *)
LEMMA RecordsStep ==
  ASSUME TypeOK, TypeOK', Keeps(participants, participants'), Consistent,
         RecordsOwned, [Next]_vars
  PROVE  RecordsOwned'
<1> DEFINE Past == {"payloadSaved", "solved", "answered", "aborted"}
           Served(h, c, doc) == h[c].step \in Past /\ h[c].keys = doc.request
           Owned(h, doc) ==
             /\ doc.webhookPayload # None => Served(h, doc.webhookPayload, doc)
             /\ doc.webhookResponse # None =>
                  /\ doc.webhookPayload # None
                  /\ Served(h, doc.webhookResponse, doc)
                  /\ h[doc.webhookResponse].step = "answered"
<1>1. \A i \in DOMAIN participants : Owned(hook, participants[i])
  BY DEF RecordsOwned
<1>2. SUFFICES ASSUME NEW i \in DOMAIN participants' PROVE Owned(hook', participants'[i])
  BY <1>2 DEF RecordsOwned
<1>n. \A k \in Call : k # None
  BY NoneAssumption
<1>3. ASSUME NEW c \in Call, hook[c].step \in Past
      PROVE  /\ hook'[c].step \in Past /\ hook'[c].keys = hook[c].keys
             /\ hook[c].step = "answered" => hook'[c].step = "answered"
  <2>1. ASSUME NEW b \in Call, HookNext(b)
        PROVE  /\ hook'[c].step \in Past /\ hook'[c].keys = hook[c].keys
               /\ hook[c].step = "answered" => hook'[c].step = "answered"
    BY <1>3, <2>1
    DEF TypeOK, HookNext, findNetworkParticipantBySubscriberId, saveWebhookPayload,
        solveWebhookChallenge, saveWebhookResponse, AbortHook, Verify
  <2>2. hook' = hook \/ \E b \in Call : HookNext(b)
    BY DEF Next, vars, RequestNext, setOndcVerificationCode, createNetworkParticipant,
       subscribe, Accepted, Refused, unsetOndcVerificationCode, Abort
  <2> QED BY <1>3, <2>1, <2>2
<1>4. /\ participants \in Seq(Document)
      /\ \A j \in DOMAIN participants : participants[j] \in Document
  <2>1. participants \in [1 .. Len(participants) -> Document]
    BY LenProperties DEF TypeOK
  <2> QED BY <2>1 DEF TypeOK
<1>5. ASSUME NEW j \in DOMAIN participants PROVE Owned(hook', participants[j])
  <2>1. /\ participants[j].webhookPayload \in Call \union {None}
        /\ participants[j].webhookResponse \in Call \union {None}
    BY <1>4 DEF Document
  <2> QED BY <1>1, <1>3, <2>1
<1>6. ASSUME NEW r \in Request, createNetworkParticipant(r)
      PROVE  Owned(hook', participants'[i])
  <2> DEFINE d == [request |-> r, subscriber |-> SubscriberOf(r),
                   webhookPayload |-> None, webhookResponse |-> None]
  <2>1. participants' = Append(participants, d) /\ d \in Document
    BY <1>6 DEF createNetworkParticipant, TypeOK, Document, Consistent,
       RequestsRecorded, SubscriberOf, At
  <2>2. \/ participants'[i] = d
        \/ i \in DOMAIN participants /\ participants'[i] = participants[i]
    BY <1>4, <2>1, Inserted
  <2> QED BY <1>5, <2>2
<1>7. ASSUME NEW c \in Call, saveWebhookPayload(c) \/ saveWebhookResponse(c)
      PROVE  Owned(hook', participants'[i])
  <2> DEFINE k == Found(SubscriberAsked(c))
  <2>1. /\ hook[c].step \in {"found", "solved"} /\ hook[c].keys = participants[k].request
        /\ hook[c].step = "solved" => participants[k].webhookPayload # None
    <3>1. hook[c].step \in {"found", "solved"}
      BY <1>7 DEF saveWebhookPayload, saveWebhookResponse
    <3>2. PICK r : r = hook[c].challenge
      OBVIOUS
    <3>3. /\ hook[c].keys = FindOne(SubscriberOf(r)).request
          /\ hook[c].step = "solved" => FindOne(SubscriberOf(r)).webhookPayload # None
      BY <3>1, <3>2 DEF Consistent, CallbacksConsistent
    <3>4. k = Found(SubscriberOf(r))
      BY <3>2 DEF SubscriberAsked
    <3> QED BY <3>1, <3>3, <3>4 DEF FindOne
  <2>2. hook'[c].keys = hook[c].keys
    BY <1>7 DEF saveWebhookPayload, saveWebhookResponse, TypeOK
  <2>3. i \in DOMAIN participants /\ participants[i] \in Document
    BY <1>4, <1>7 DEF saveWebhookPayload, saveWebhookResponse
  <2>4. CASE i # k
    <3>1. participants'[i] = participants[i]
      BY <1>7, <2>3, <2>4 DEF saveWebhookPayload, saveWebhookResponse
    <3> QED BY <1>5, <2>3, <3>1
  <2>5. CASE i = k /\ saveWebhookPayload(c)
    <3>1. participants'[i] = [participants[i] EXCEPT !.webhookPayload = c]
      BY <2>3, <2>5 DEF saveWebhookPayload
    <3>2. /\ participants'[i].request = participants[i].request
          /\ participants'[i].webhookPayload = c
          /\ participants'[i].webhookResponse = participants[i].webhookResponse
      BY <2>3, <3>1 DEF Document
    <3>3. hook'[c].step = "payloadSaved"
      BY <2>5 DEF saveWebhookPayload, TypeOK
    <3> QED BY <1>n, <1>5, <2>1, <2>2, <2>3, <2>5, <3>2, <3>3
  <2>6. CASE i = k /\ saveWebhookResponse(c)
    <3>1. participants'[i] = [participants[i] EXCEPT !.webhookResponse = c]
      BY <2>3, <2>6 DEF saveWebhookResponse
    <3>2. /\ participants'[i].request = participants[i].request
          /\ participants'[i].webhookPayload = participants[i].webhookPayload
          /\ participants'[i].webhookResponse = c
      BY <2>3, <3>1 DEF Document
    <3>3. hook'[c].step = "answered" /\ hook[c].step = "solved"
      BY <2>6 DEF saveWebhookResponse, TypeOK
    <3> QED BY <1>n, <1>5, <2>1, <2>2, <2>3, <2>6, <3>2, <3>3
  <2> QED BY <1>7, <2>4, <2>5, <2>6
<1>8. \/ participants' = participants
      \/ \E r \in Request : createNetworkParticipant(r)
      \/ \E c \in Call : saveWebhookPayload(c) \/ saveWebhookResponse(c)
  BY DEF Next, vars, RequestNext, HookNext, setOndcVerificationCode, subscribe, Accepted,
     Refused, unsetOndcVerificationCode, Abort, findNetworkParticipantBySubscriberId,
     solveWebhookChallenge, AbortHook, Verify
<1> QED BY <1>5, <1>6, <1>7, <1>8

-----------------------------------------------------------------------------
(* The theorems.                                                           *)

(* There is no document, callback or verified request at first.            *)
LEMMA InvInit == Init => IInv
<1> SUFFICES ASSUME Init PROVE IInv
  OBVIOUS
<1>1. DOMAIN participants = {}
  BY DEF Init
<1>2. RequestsRecorded /\ CallbacksConsistent
  BY DEF Init, RequestsRecorded, CallbacksConsistent, At, SubscriberOf
<1>3. VerifiedKeysAreUsed /\ VerificationOnRecord
  BY DEF Init, VerifiedKeysAreUsed, VerificationOnRecord
<1> QED BY <1>1, <1>2, <1>3, TypeInit DEF IInv, Consistent, DocumentsOwned

(* The parts together.                                                     *)
LEMMA InvStep == IInv /\ [Next]_vars => IInv' /\ Keeps(participants, participants')
BY TypeStep, RequestsRecordedStep, DocumentsOwnedStep, CallbacksConsistentStep,
   VerifiedStep DEF IInv, Consistent

(* The inductive invariant holds in every reachable state.                 *)
THEOREM Inductive == Spec => []IInv
BY InvInit, InvStep, PTL DEF Spec

(* Requests, documents and callbacks keep their types.                     *)
THEOREM TypeCorrect == Spec => []TypeOK
BY Inductive, PTL DEF IInv

(* Requests, documents and callbacks agree with each other.                *)
THEOREM ConsistentCorrect == Spec => []Consistent
BY Inductive, PTL DEF IInv

(* No merchant is registered with keys that nobody kept.                   *)
THEOREM RegistryKeysAreKeptCorrect == Spec => []RegistryKeysAreKept
<1>1. Consistent => RegistryKeysAreKept
  BY DEF Consistent, RequestsRecorded, DocumentsOwned, RegistryKeysAreKept
<1> QED BY <1>1, ConsistentCorrect, PTL

(* The keys every lookup finds are the ones the registry verified.         *)
THEOREM VerifiedKeysAreUsedCorrect == Spec => []VerifiedKeysAreUsed
BY Inductive, PTL DEF IInv

(* What the registry verified is on record.                                *)
THEOREM VerificationOnRecordCorrect == Spec => []VerificationOnRecord
BY Inductive, PTL DEF IInv

(* A document's challenge and answer are of callbacks that held its keys.  *)
THEOREM RecordsOwnedCorrect == Spec => []RecordsOwned
<1>1. Init => RecordsOwned
  BY DEF Init, RecordsOwned
<1>2. IInv /\ RecordsOwned /\ [Next]_vars => RecordsOwned'
  BY InvStep, RecordsStep DEF IInv
<1> QED BY <1>1, <1>2, Inductive, PTL DEF Spec

(* A document keeps its place, its owner and its subscriber.               *)
THEOREM DocumentsStayCorrect == Spec => DocumentsStay
<1>1. Keeps(participants, participants')
        => [\A i \in DOMAIN participants :
              /\ i \in DOMAIN participants'
              /\ participants'[i].request = participants[i].request
              /\ participants'[i].subscriber = participants[i].subscriber]_vars
  BY DEF Keeps
<1> QED BY <1>1, Inductive, InvStep, PTL DEF Spec, DocumentsStay

(* The request that finishes last deletes the shared code: a step that     *)
(* sets it starts a request, a step that finishes one deletes it.          *)
THEOREM CodeIsClearedCorrect == Spec => []CodeIsCleared
<1>1. Init => CodeIsCleared
  BY DEF Init, CodeIsCleared
<1>2. IInv /\ CodeIsCleared /\ [Next]_vars => CodeIsCleared'
  <2> SUFFICES ASSUME TypeOK, CodeIsCleared, [Next]_vars,
                      \A r \in Request : request'[r].step \in {"new", "succeeded"}
               PROVE  verificationCode' = None
    BY DEF IInv, CodeIsCleared
  <2> USE DEF At, Goto
  <2>1. \/ request' = request /\ verificationCode' = verificationCode
        \/ \E r \in Request : unsetOndcVerificationCode(r)
        \/ \E r \in Request, s \in Subscriber : setOndcVerificationCode(r, s)
        \/ \E r \in Request, t \in RequestStep \ {"new", "succeeded"} : Goto(r, t)
    BY DEF Next, vars, RequestNext, HookNext, createNetworkParticipant, subscribe,
           Accepted, Refused, Abort, findNetworkParticipantBySubscriberId,
           saveWebhookPayload, solveWebhookChallenge, saveWebhookResponse,
           AbortHook, Verify, RequestStep
  <2>2. ~\E r \in Request, s \in Subscriber : setOndcVerificationCode(r, s)
    BY DEF setOndcVerificationCode, TypeOK
  <2>3. ~\E r \in Request, t \in RequestStep \ {"new", "succeeded"} : Goto(r, t)
    BY DEF TypeOK
  <2> QED BY <2>1, <2>2, <2>3 DEF CodeIsCleared, unsetOndcVerificationCode
<1> QED BY <1>1, <1>2, Inductive, PTL DEF Spec

-----------------------------------------------------------------------------
(* What never changes back.                                                *)

(* The registry hears of a request when it is posted, and of no other.     *)
LEMMA RegistryChanges ==
  ASSUME TypeOK, CallbacksConsistent, [Next]_vars, NEW r \in Request,
         registry'[r] # registry[r]
  PROVE  \/ At(r, "created") /\ registry'[r] = "received"
         \/ registry[r] # "unknown" /\ registry'[r] = "verified"
<1>1. \/ registry' = registry
      \/ \E q \in Request :
           At(q, "created") /\ registry' = [registry EXCEPT ![q] = "received"]
      \/ \E c \in Call : Verify(c)
  BY DEF Next, vars, RequestNext, HookNext,
         setOndcVerificationCode, createNetworkParticipant, subscribe, Accepted,
         Refused, unsetOndcVerificationCode, Abort,
         findNetworkParticipantBySubscriberId, saveWebhookPayload,
         solveWebhookChallenge, saveWebhookResponse, AbortHook
<1>2. ASSUME NEW c \in Call, Verify(c)
      PROVE  registry[r] # "unknown" /\ registry'[r] = "verified"
  <2>1. hook[c].step = "answered"
        /\ registry' = [registry EXCEPT ![hook[c].challenge] = "verified"]
    BY <1>2 DEF Verify
  <2>2. hook[c].challenge = r
    BY <2>1 DEF TypeOK
  <2>3. registry[hook[c].challenge] # "unknown"
    BY <2>1 DEF CallbacksConsistent
  <2>4. registry'[r] = "verified"
    BY <2>1, <2>2 DEF TypeOK
  <2> QED BY <2>2, <2>3, <2>4
<1> QED BY <1>1, <1>2 DEF TypeOK

(* A request that is over stays over.                                      *)
LEMMA OverStays ==
  ASSUME TypeOK, [Next]_vars, NEW r \in Request,
         request[r].step \in {"refused", "aborted"}
  PROVE  request'[r].step \in {"refused", "aborted"}
<1> USE DEF At, Goto
<1>1. \/ request' = request
      \/ \E q \in Request, s \in Subscriber :
           At(q, "new") /\ request' = [request EXCEPT ![q] =
                                         [step |-> "cached", subscriber |-> s]]
      \/ \E q \in Request, t \in RequestStep :
           request[q].step \notin {"refused", "aborted"} /\ Goto(q, t)
  BY DEF Next, vars, RequestNext, HookNext, setOndcVerificationCode,
         createNetworkParticipant, subscribe, Accepted, Refused,
         unsetOndcVerificationCode, Abort, findNetworkParticipantBySubscriberId,
         saveWebhookPayload, solveWebhookChallenge, saveWebhookResponse,
         AbortHook, Verify, RequestStep
<1> QED BY <1>1 DEF TypeOK

(* A request has been posted before the registry can have heard of it, so  *)
(* posting it does not make the registry forget that it verified it.       *)
Unsent ==
  \A r \in Request :
    request[r].step \in {"new", "cached", "created"} => registry[r] = "unknown"

(* Only subscribe tells the registry, and it moves the request on.         *)
LEMMA UnsentStep == IInv /\ Unsent /\ [Next]_vars => Unsent'
<1> SUFFICES ASSUME IInv, Unsent, [Next]_vars, NEW r \in Request,
                    request'[r].step \in {"new", "cached", "created"}
             PROVE  registry'[r] = "unknown"
  BY DEF Unsent
<1> USE DEF At, Goto
<1>1. TypeOK /\ CallbacksConsistent
  BY DEF IInv, Consistent
<1>2. request[r].step \in {"new", "cached", "created"}
      /\ ~\E q \in Request : q = r /\ subscribe(q)
  <2>1. \/ request' = request
        \/ \E q \in Request, s \in Subscriber : setOndcVerificationCode(q, s)
        \/ \E q \in Request : createNetworkParticipant(q) \/ subscribe(q)
        \/ \E q \in Request, t \in {"accepted", "refused", "succeeded", "aborted"} :
             Goto(q, t)
    BY DEF Next, vars, RequestNext, HookNext, Accepted, Refused,
         unsetOndcVerificationCode, Abort, findNetworkParticipantBySubscriberId,
         saveWebhookPayload, solveWebhookChallenge, saveWebhookResponse,
         AbortHook, Verify
  <2>2. request[r].step \in {"new", "cached", "created"}
    BY <1>1, <2>1 DEF TypeOK, setOndcVerificationCode, createNetworkParticipant, subscribe
  <2>3. ~\E q \in Request : q = r /\ subscribe(q)
    BY <1>1 DEF TypeOK, subscribe
  <2> QED BY <2>2, <2>3
<1>3. registry[r] = "unknown"
  BY <1>2 DEF Unsent
<1>4. CASE registry'[r] # registry[r]
  <2>1. \E q \in Request : subscribe(q) \/ \E c \in Call : Verify(c)
    BY <1>4 DEF Next, vars, RequestNext, HookNext,
         setOndcVerificationCode, createNetworkParticipant, Accepted,
         Refused, unsetOndcVerificationCode, Abort,
         findNetworkParticipantBySubscriberId, saveWebhookPayload,
         solveWebhookChallenge, saveWebhookResponse, AbortHook
  <2>2. registry'[r] = "received"
    BY <1>1, <1>3, <1>4, RegistryChanges
  <2>3. CASE \E q \in Request : subscribe(q)
    BY <1>1, <1>2, <1>4, <2>3 DEF subscribe, TypeOK
  <2>4. CASE \E c \in Call : Verify(c)
    BY <1>1, <1>4, <2>2, <2>4 DEF Verify, TypeOK
  <2> QED BY <2>1, <2>3, <2>4
<1> QED BY <1>3, <1>4

(* The registry has heard of no request that has not been posted.          *)
THEOREM UnsentCorrect == Spec => []Unsent
<1>1. Init => Unsent
  BY DEF Init, Unsent
<1> QED BY <1>1, UnsentStep, Inductive, PTL DEF Spec

(* What the registry verified it does not take back.                       *)
LEMMA VerifiedStays ==
  ASSUME IInv, Unsent, [Next]_vars, NEW r \in Request, registry[r] = "verified"
  PROVE  registry'[r] = "verified"
<1>1. ~At(r, "created")
  BY DEF Unsent, At
<1> QED BY <1>1, RegistryChanges DEF IInv, Consistent

(* A verified subscription stays, and none joins it: after the step, too,  *)
(* findOne gives the document of each verified request.                    *)
THEOREM KeysNeverRotateCorrect == Spec => KeysNeverRotate
<1> DEFINE Fixed ==
      \A r \in Request :
        registry[r] = "verified" =>
          /\ registry'[r] = "verified"
          /\ \A q \in Request \ {r} :
               SubscriberOf(q)' = SubscriberOf(r)' => registry'[q] # "verified"
<1>1. IInv /\ Unsent /\ [Next]_vars => [Fixed]_vars
  <2> SUFFICES ASSUME IInv, Unsent, [Next]_vars, NEW r \in Request,
                      registry[r] = "verified"
               PROVE  /\ registry'[r] = "verified"
                      /\ \A q \in Request \ {r} :
                           SubscriberOf(q)' = SubscriberOf(r)' => registry'[q] # "verified"
    OBVIOUS
  <2>1. registry'[r] = "verified"
    BY VerifiedStays
  <2>2. ASSUME NEW q \in Request \ {r}, SubscriberOf(q)' = SubscriberOf(r)',
               registry'[q] = "verified"
        PROVE  FALSE
    <3>1. VerifiedKeysAreUsed'
      BY InvStep DEF IInv
    <3>2. /\ FindOne(SubscriberOf(q))'.request = q
          /\ FindOne(SubscriberOf(r))'.request = r
      BY <2>1, <2>2, <3>1 DEF VerifiedKeysAreUsed
    <3>3. FindOne(SubscriberOf(q))' = FindOne(SubscriberOf(r))'
      BY <2>2 DEF FindOne, Found
    <3> QED BY <2>2, <3>2, <3>3
  <2> QED BY <2>1, <2>2
<1> QED BY <1>1, Inductive, UnsentCorrect, PTL DEF Spec, KeysNeverRotate

(* The document findOne gives for an orphaned subscriber never changes,    *)
(* its request is over and cannot be posted any more, and nobody else's    *)
(* keys are ever tried.                                                    *)
THEOREM OrphansLockOutCorrect == Spec => OrphansLockOut
<1> DEFINE LockedOut ==
      \A s \in Subscriber :
        Orphaned(s) =>
          /\ Orphaned(s)'
          /\ \A r \in Request : SubscriberOf(r)' = s => registry'[r] # "verified"
<1>1. IInv /\ [Next]_vars => [LockedOut]_vars
  <2> SUFFICES ASSUME IInv, [Next]_vars, NEW s \in Subscriber, Orphaned(s)
               PROVE  /\ Orphaned(s)'
                      /\ \A r \in Request : SubscriberOf(r)' = s => registry'[r] # "verified"
    OBVIOUS
  <2>1. /\ TypeOK /\ TypeOK' /\ Keeps(participants, participants')
        /\ CallbacksConsistent /\ VerifiedKeysAreUsed'
    BY InvStep DEF IInv, Consistent
  <2>2. PICK o \in Request : o = FindOne(s).request
    BY <2>1, FindOneType DEF Orphaned, Document
  <2>3. /\ Known(s) /\ request[o].step \in {"refused", "aborted"}
        /\ registry[o] = "unknown"
    BY <2>2 DEF Orphaned
  <2>4. Known(s)' /\ FindOne(s)'.request = o
    BY <2>1, <2>2, <2>3, FoundStays
  <2>5. request'[o].step \in {"refused", "aborted"}
    BY <2>1, <2>3, OverStays
  <2>6. registry'[o] = "unknown"
    BY <2>1, <2>3, RegistryChanges DEF At
  <2>7. Orphaned(s)'
    BY <2>4, <2>5, <2>6 DEF Orphaned
  <2>8. ASSUME NEW r \in Request, SubscriberOf(r)' = s, registry'[r] = "verified"
        PROVE  FALSE
    <3>1. FindOne(SubscriberOf(r))'.request = r
      BY <2>1, <2>8 DEF VerifiedKeysAreUsed
    <3>2. FindOne(SubscriberOf(r))' = FindOne(s)'
      BY <2>8 DEF FindOne, Found
    <3> QED BY <2>4, <2>6, <2>8, <3>1, <3>2
  <2> QED BY <2>7, <2>8
<1> QED BY <1>1, Inductive, PTL DEF Spec, OrphansLockOut
===============================================================================
