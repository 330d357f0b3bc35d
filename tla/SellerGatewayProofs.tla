-------------------------- MODULE SellerGatewayProofs --------------------------
(***************************************************************************)
(* Proofs about SellerGateway for any number of calls, requests,           *)
(* subscribers and callbacks.  A step of the composition is a step of the  *)
(* onboarding or leaves it alone, so the invariant of the onboarding holds *)
(* here too; a call's keys stay those findOne gives.                       *)
(***************************************************************************)
EXTENDS SellerGateway, ParticipantOnboardingProofs

SellerInv == IInv /\ SellerTypeOK /\ CallsHoldKeys

(* A step of the composition is one of the onboarding, or none.            *)
LEMMA OnboardingStep == [SellerNext]_allVars => [Next]_vars
BY DEF SellerNext, allVars, FindParticipant, Post, PostOk, PostFails

(* The invariant of the onboarding in the composition.                     *)
LEMMA OnboardingInv ==
  IInv /\ [SellerNext]_allVars => IInv' /\ Keeps(participants, participants')
BY OnboardingStep, InvStep

(* What the merchant's methods give is a reply.                            *)
LEMMA RoutesReply ==
  ASSUME NEW route \in Route
  PROVE  Routes[route].failure \in Reply
BY DEF Route, Routes, Reply, Send, searchEntities, selectEntities, init, confirm,
       track, cancel, update, rating, support

(* The calls keep their types.                                             *)
LEMMA SellerTypeStep ==
  ASSUME SellerInv, [SellerNext]_allVars
  PROVE  SellerTypeOK'
<1>1. ASSUME NEW c \in SellerCall, NEW route \in Route, NEW s \in Subscriber,
             FindParticipant(c, route, s)
      PROVE  SellerTypeOK'
  <2>1. CASE Known(s)
    <3>1. FindOne(s).request \in Request
      BY <2>1, FindOneType DEF SellerInv, IInv, Document
    <3> QED BY <1>1, <2>1, <3>1 DEF FindParticipant, SellerInv, SellerTypeOK
  <2>2. CASE ~Known(s)
    BY <1>1, <2>2 DEF FindParticipant, SellerInv, SellerTypeOK, Reply
  <2> QED BY <2>1, <2>2
<1>2. ASSUME NEW c \in SellerCall, Post(c)
      PROVE  SellerTypeOK'
  <2>1. call[c].route \in Route /\ call[c].keys \in Request
    <3>1. /\ call[c].route \in Route /\ Known(call[c].subscriber)
          /\ call[c].keys = FindOne(call[c].subscriber).request
      BY <1>2 DEF Post, SellerInv, CallsHoldKeys
    <3> QED BY <3>1, FindOneType DEF SellerInv, IInv, Document
  <2> QED BY <1>2, <2>1 DEF Post, SellerInv, SellerTypeOK
<1>3. ASSUME NEW c \in SellerCall, NEW reply \in Reply, SendReply(c, reply),
             UNCHANGED sent
      PROVE  SellerTypeOK'
  <2>1. call' = [call EXCEPT ![c].step = "replied", ![c].reply = reply]
    BY <1>3 DEF SendReply
  <2> QED BY <1>3, <2>1 DEF SellerInv, SellerTypeOK
<1>4. ASSUME NEW c \in SellerCall, PostOk(c) \/ PostFails(c)
      PROVE  \E reply \in Reply : SendReply(c, reply) /\ UNCHANGED sent
  <2>1. CASE PostOk(c)
    BY <2>1 DEF PostOk, Reply
  <2>2. CASE PostFails(c)
    <3>1. Routes[call[c].route].failure \in Reply
      BY <2>2, RoutesReply DEF PostFails, SellerInv, CallsHoldKeys
    <3> QED BY <2>2, <3>1 DEF PostFails
  <2> QED BY <1>4, <2>1, <2>2
<1>5. CASE UNCHANGED sellerVars
  BY <1>5 DEF sellerVars, SellerInv, SellerTypeOK
<1> QED BY <1>1, <1>2, <1>3, <1>4, <1>5 DEF SellerNext, allVars, sellerVars

(* A call reads its keys in one step with findOne, and what findOne finds  *)
(* stays.                                                                  *)
LEMMA CallsHoldKeysStep ==
  ASSUME SellerInv, IInv', SellerTypeOK', Keeps(participants, participants'),
         [SellerNext]_allVars
  PROVE  CallsHoldKeys'
<1>1. ASSUME NEW s, Known(s)
      PROVE  Known(s)' /\ FindOne(s)'.request = FindOne(s).request
  BY <1>1, FoundStays DEF SellerInv, IInv
<1>m. \/ call' = call
      \/ \E b \in SellerCall :
           \/ \E route \in Route, q \in Subscriber : FindParticipant(b, route, q)
           \/ Post(b) \/ PostOk(b) \/ PostFails(b)
  BY DEF SellerNext, allVars, sellerVars
<1>o. ASSUME NEW b \in SellerCall, NEW c \in SellerCall, b # c,
             \/ \E route \in Route, q \in Subscriber : FindParticipant(b, route, q)
             \/ Post(b) \/ PostOk(b) \/ PostFails(b)
      PROVE  call'[c] = call[c]
  BY <1>o DEF FindParticipant, Post, PostOk, PostFails, SendReply, SellerInv,
     SellerTypeOK
<1>2. ASSUME NEW c \in SellerCall, call'[c].step \in {"signing", "posted"}
      PROVE  /\ call'[c].route \in Route
             /\ Known(call[c].subscriber)'
             /\ call'[c].keys = FindOne(call[c].subscriber)'.request
  <2>1. PICK s : s = call'[c].subscriber
    OBVIOUS
  <2>2. /\ call'[c].route \in Route
        /\ Known(s) /\ call'[c].keys = FindOne(s).request
    <3>1. CASE call'[c] = call[c]
      BY <1>2, <2>1, <3>1 DEF SellerInv, CallsHoldKeys
    <3>2. CASE \E route \in Route, q \in Subscriber : FindParticipant(c, route, q)
      <4>1. PICK route \in Route, q \in Subscriber : FindParticipant(c, route, q)
        BY <3>2
      <4>2. CASE Known(q)
        <5>1. call'[c] = [step |-> "signing", route |-> route, subscriber |-> q,
                          reply |-> None, keys |-> FindOne(q).request]
          BY <4>1, <4>2 DEF FindParticipant, SellerInv, SellerTypeOK
        <5>2. s = q
          BY <2>1, <5>1
        <5> QED BY <4>2, <5>1, <5>2
      <4>3. CASE ~Known(q)
        BY <1>2, <4>1, <4>3 DEF FindParticipant, SellerInv, SellerTypeOK
      <4> QED BY <4>2, <4>3
    <3>3. CASE Post(c)
      <4>1. /\ call[c].step = "signing"
            /\ call'[c] = [call[c] EXCEPT !.step = "posted"]
        BY <3>3 DEF Post, SellerInv, SellerTypeOK
      <4> QED BY <2>1, <4>1 DEF SellerInv, CallsHoldKeys, SellerTypeOK
    <3>4. CASE PostOk(c) \/ PostFails(c)
      BY <1>2, <3>4 DEF PostOk, PostFails, SendReply, SellerInv, SellerTypeOK
    <3> QED BY <1>m, <1>o, <3>1, <3>2, <3>3, <3>4
  <2> QED
    BY <2>1, <2>2, <1>1 DEF Known, FindOne, Found
<1>3. ASSUME NEW m \in sent'
      PROVE  /\ call'[m.call].step \in {"posted", "replied"}
             /\ Known(call[m.call].subscriber)'
             /\ m.keys = FindOne(call[m.call].subscriber)'.request
  <2> DEFINE c == m.call
  <2>1. PICK s : s = call'[c].subscriber
    OBVIOUS
  <2>t. c \in SellerCall
    BY DEF SellerTypeOK
  <2>2. call'[c].step \in {"posted", "replied"}
        /\ Known(s) /\ m.keys = FindOne(s).request
    <3>1. CASE m \in sent
      <4>1. /\ call[c].step \in {"posted", "replied"}
            /\ Known(call[c].subscriber)
            /\ m.keys = FindOne(call[c].subscriber).request
        BY <3>1 DEF SellerInv, CallsHoldKeys
      <4>2. call'[c].step \in {"posted", "replied"}
            /\ call'[c].subscriber = call[c].subscriber
        <5>1. CASE call'[c] = call[c]
          BY <4>1, <5>1
        <5>2. CASE Post(c)
          BY <4>1, <5>2 DEF Post
        <5>3. CASE PostOk(c) \/ PostFails(c)
          BY <2>t, <5>3 DEF PostOk, PostFails, SendReply, SellerInv, SellerTypeOK
        <5>4. ~\E route \in Route, q \in Subscriber : FindParticipant(c, route, q)
          BY <4>1 DEF FindParticipant
        <5> QED BY <1>m, <1>o, <2>t, <5>1, <5>2, <5>3, <5>4
      <4> QED BY <2>1, <4>1, <4>2
    <3>2. CASE m \notin sent
      <4>1. PICK b \in SellerCall : Post(b)
        BY <3>2 DEF SellerNext, allVars, sellerVars, FindParticipant, PostOk,
           PostFails
      <4>2. m.call = b /\ m.keys = call[b].keys
        BY <3>2, <4>1 DEF Post
      <4>3. /\ call[b].step = "signing" /\ call'[b].step = "posted"
            /\ call'[b].subscriber = call[b].subscriber
        BY <4>1 DEF Post, SellerInv, SellerTypeOK
      <4> QED BY <2>1, <4>2, <4>3 DEF SellerInv, CallsHoldKeys
    <3> QED BY <3>1, <3>2
  <2> QED
    BY <2>1, <2>2, <1>1 DEF Known, FindOne, Found
<1> QED BY <1>2, <1>3 DEF CallsHoldKeys

-----------------------------------------------------------------------------
(* The theorems.                                                           *)

(* No call has begun and nothing is sent at first.                         *)
LEMMA SellerInvInit == SellerInit => SellerInv
<1> SUFFICES ASSUME SellerInit PROVE SellerInv
  OBVIOUS
<1>1. SellerTypeOK /\ CallsHoldKeys
  BY DEF SellerInit, SellerTypeOK, CallsHoldKeys
<1> QED BY <1>1, InvInit DEF SellerInit, SellerInv

(* The parts together.                                                     *)
LEMMA SellerInvStep == SellerInv /\ [SellerNext]_allVars => SellerInv'
BY OnboardingInv, SellerTypeStep, CallsHoldKeysStep DEF SellerInv

(* The inductive invariant of the composition.                             *)
THEOREM SellerInductive == SellerSpec => []SellerInv
BY SellerInvInit, SellerInvStep, PTL DEF SellerSpec

(* Calls and messages keep their types.                                    *)
THEOREM SellerTypeCorrect == SellerSpec => []SellerTypeOK
BY SellerInductive, PTL DEF SellerInv

(* What a call read before its awaits is what anybody would read after.    *)
THEOREM CallsHoldKeysCorrect == SellerSpec => []CallsHoldKeys
BY SellerInductive, PTL DEF SellerInv

(* A message carries the signature of the keys the registry verified.      *)
THEOREM SignedWithVerifiedKeysCorrect == SellerSpec => []SignedWithVerifiedKeys
<1>1. SellerInv => SignedWithVerifiedKeys
  <2> SUFFICES ASSUME SellerInv, NEW m \in sent, NEW r \in Request,
                      registry[r] = "verified",
                      SubscriberOf(r) = call[m.call].subscriber
               PROVE  m.keys = r
    BY DEF SignedWithVerifiedKeys
  <2>1. FindOne(SubscriberOf(r)).request = r
    BY DEF SellerInv, IInv, VerifiedKeysAreUsed
  <2>2. m.keys = FindOne(call[m.call].subscriber).request
    BY DEF SellerInv, CallsHoldKeys
  <2> QED BY <2>1, <2>2
<1> QED BY <1>1, SellerInductive, PTL

-----------------------------------------------------------------------------
(* The promise of MerchantIdentity.                                        *)

MInv == SellerInv /\ Unsent

(* What findOne gives is the subscriber's own, for a request of its own.   *)
LEMMA FindOneOwned ==
  ASSUME TypeOK, DocumentsOwned, NEW s, Known(s)
  PROVE  /\ s \in Subscriber
         /\ FindOne(s).request \in Request
         /\ SubscriberOf(FindOne(s).request) = s
<1>1. FindOne(s) \in Document /\ Found(s) \in DOMAIN participants
  BY FindOneType
<1>2. Found(s) \in Matches(participants, s)
  BY OldestIsLeast DEF TypeOK, Known, Found
<1>3. FindOne(s).subscriber = s
  BY <1>2 DEF Matches, FindOne
<1> QED BY <1>1, <1>3 DEF Document, DocumentsOwned, FindOne

(* An identity, once there, stays.                                         *)
LEMMA IdentityStays ==
  ASSUME MInv, MInv', [Next]_vars, NEW s, Known(s)
  PROVE  Known(s)' /\ FindOne(s)'.request = FindOne(s).request
BY InvStep, FoundStays DEF MInv, SellerInv, IInv

(* It comes with the first document.                                       *)
LEMMA IdentityComes ==
  ASSUME MInv, MInv', [Next]_vars, NEW s, ~Known(s), Known(s)'
  PROVE  \E r \in Request : /\ createNetworkParticipant(r) /\ SubscriberOf(r) = s
                            /\ FindOne(s)'.request = r
<1>1. TypeOK /\ TypeOK' /\ Consistent /\ Keeps(participants, participants')
  BY InvStep DEF MInv, SellerInv, IInv
<1>2. /\ Found(s)' \in DOMAIN participants'
      /\ participants'[Found(s)'].subscriber = s
  <2>1. participants' \in Seq(Document) /\ Matches(participants', s) # {}
    BY <1>1 DEF TypeOK, Known
  <2>2. Oldest(participants', s) \in Matches(participants', s)
    BY <2>1, OldestIsLeast
  <2> QED BY <2>2 DEF Found, Matches
<1>3. ~\E i \in DOMAIN participants : participants[i].subscriber = s
  BY DEF Known, Matches
<1>4. Found(s)' \notin DOMAIN participants
  BY <1>1, <1>2, <1>3 DEF Keeps
<1>5. PICK r \in Request : createNetworkParticipant(r)
  BY <1>1, <1>2, <1>4, OnlyOneInserts
<1> DEFINE d == [request |-> r, subscriber |-> SubscriberOf(r),
                 webhookPayload |-> None, webhookResponse |-> None]
<1>6. /\ participants \in Seq(Document) /\ d \in Document
      /\ participants' = Append(participants, d)
  BY <1>1, <1>5 DEF createNetworkParticipant, TypeOK, Document, Consistent,
     RequestsRecorded, SubscriberOf, At
<1>7. participants'[Found(s)'] = d
  BY <1>2, <1>4, <1>6, Inserted
<1>8. d.subscriber = SubscriberOf(r) /\ d.request = r
  OBVIOUS
<1> QED BY <1>2, <1>5, <1>7, <1>8 DEF FindOne

(* What is registered stays registered, under the same subscriber.         *)
LEMMA RegisteredStays ==
  ASSUME MInv, [Next]_vars, NEW r \in Request, registry[r] = "verified"
  PROVE  registry'[r] = "verified" /\ SubscriberOf(r)' = SubscriberOf(r)
<1>1. TypeOK /\ RequestsRecorded /\ DocumentsOwned
  BY DEF MInv, SellerInv, IInv, Consistent
<1>2. registry'[r] = "verified"
  BY VerifiedStays DEF MInv, SellerInv
<1>3. ~At(r, "new")
  BY <1>1, HeardOfIsKnown
<1> QED BY <1>1, <1>2, <1>3, SubscriberStays

(* What becomes registered is its subscriber's identity, and the only one  *)
(* in its step.                                                            *)
LEMMA RegisteredComes ==
  ASSUME MInv, [Next]_vars, NEW r \in Request,
         registry[r] # "verified", registry'[r] = "verified"
  PROVE  /\ SubscriberOf(r)' = SubscriberOf(r)
         /\ Known(SubscriberOf(r)) /\ FindOne(SubscriberOf(r)).request = r
         /\ registry' = [registry EXCEPT ![r] = "verified"]
         /\ UNCHANGED participants
<1>1. /\ TypeOK /\ RequestsRecorded /\ DocumentsOwned /\ CallbacksConsistent
  BY DEF MInv, SellerInv, IInv, Consistent
<1>2. PICK c \in Call : Verify(c)
  BY DEF TypeOK, Next, vars, RequestNext, HookNext,
     setOndcVerificationCode, createNetworkParticipant, subscribe, Accepted,
     Refused, unsetOndcVerificationCode, Abort,
     findNetworkParticipantBySubscriberId, saveWebhookPayload,
     solveWebhookChallenge, saveWebhookResponse, AbortHook, MInv, SellerInv, IInv
<1>3. hook[c].challenge = r
  BY <1>1, <1>2 DEF Verify, TypeOK
<1>4. registry[r] # "unknown" /\ FindOne(SubscriberOf(r)).request = r
  BY <1>2, <1>3, <1>1 DEF Verify, CallbacksConsistent
<1>5. Known(SubscriberOf(r)) /\ ~At(r, "new")
  BY <1>1, <1>4, HeardOfIsKnown
<1> QED BY <1>1, <1>2, <1>3, <1>4, <1>5, SubscriberStays DEF Verify

(* Only Post changes what is signed, by the identity of the call's         *)
(* subscriber.                                                             *)
LEMMA SignedChanges ==
  ASSUME MInv, [SellerNext]_allVars, Signed' # Signed
  PROVE  \E s \in Subscriber : /\ Known(s) /\ UNCHANGED vars
                               /\ Signed' = Signed \union {<<s, FindOne(s).request>>}
<1>1. SellerTypeOK /\ CallsHoldKeys /\ TypeOK /\ DocumentsOwned
  BY DEF MInv, SellerInv, IInv, Consistent
<1>2. ASSUME NEW m \in sent
      PROVE  call'[m.call].subscriber = call[m.call].subscriber
  <2>1. m.call \in SellerCall /\ call[m.call].step \in {"posted", "replied"}
    BY <1>1 DEF SellerTypeOK, CallsHoldKeys
  <2>2. \/ call' = call
        \/ \E b \in SellerCall :
             \/ \E route \in Route, s \in Subscriber : FindParticipant(b, route, s)
             \/ Post(b) \/ PostOk(b) \/ PostFails(b)
    BY DEF SellerNext, allVars, sellerVars
  <2>3. ASSUME NEW b \in SellerCall, NEW route \in Route, NEW s \in Subscriber,
               FindParticipant(b, route, s)
        PROVE  call'[m.call] = call[m.call]
    BY <1>1, <2>1, <2>3 DEF FindParticipant, SellerTypeOK
  <2>4. ASSUME NEW b \in SellerCall, Post(b) \/ PostOk(b) \/ PostFails(b)
        PROVE  call'[m.call].subscriber = call[m.call].subscriber
    BY <1>1, <2>1, <2>4 DEF Post, PostOk, PostFails, SendReply, SellerTypeOK
  <2> QED BY <2>2, <2>3, <2>4
<1>3. sent' # sent
  BY <1>2 DEF Signed
<1>4. PICK c \in SellerCall : Post(c)
  BY <1>3 DEF SellerNext, allVars, sellerVars, FindParticipant, PostOk, PostFails
<1>5. PICK accepted \in BOOLEAN :
        sent' = sent \union {[call |-> c, route |-> call[c].route,
                             keys |-> call[c].keys, accepted |-> accepted]}
  BY <1>3, <1>4 DEF Post
<1>6. /\ Known(call[c].subscriber)
      /\ call[c].keys = FindOne(call[c].subscriber).request
      /\ call'[c].subscriber = call[c].subscriber
  BY <1>1, <1>4 DEF Post, CallsHoldKeys, SellerTypeOK
<1>7. call[c].subscriber \in Subscriber
  BY <1>1, <1>6, FindOneOwned
<1>8. Signed' = Signed \union {<<call[c].subscriber, call[c].keys>>}
  BY <1>2, <1>5, <1>6 DEF Signed
<1> QED BY <1>4, <1>6, <1>7, <1>8 DEF Post

(* A step claims an identity, registers one, signs with one, or none of    *)
(* these.                                                                  *)
LEMMA IdentityStep ==
  ASSUME MInv, MInv', [SellerNext]_allVars
  PROVE  [Merchant!Next]_<<Identity, Registered, Signed>>
<1>1. /\ [Next]_vars /\ TypeOK /\ DocumentsOwned
  BY OnboardingStep DEF MInv, SellerInv, IInv, Consistent
<1>2. None \notin Request
  BY NoneAssumption
<1>3. \A s \in Subscriber :
        /\ Identity[s]  = IF Known(s) THEN FindOne(s).request ELSE None
        /\ Identity'[s] = IF Known(s)' THEN FindOne(s)'.request ELSE None
  BY DEF Identity
<1>4. \A s \in Subscriber : Known(s) => Identity[s] = FindOne(s).request /\ Identity[s] # None
  BY <1>1, <1>2, <1>3, FindOneOwned
<1>5. CASE \E s \in Subscriber : ~Known(s) /\ Known(s)'
  <2>1. PICK s \in Subscriber : ~Known(s) /\ Known(s)'
    BY <1>5
  <2>2. PICK r \in Request : /\ createNetworkParticipant(r) /\ SubscriberOf(r) = s
                            /\ FindOne(s)'.request = r
    BY <1>1, <2>1, IdentityComes
  <2>3. Identity' = [Identity EXCEPT ![s] = r]
    <3>1. ASSUME NEW t \in Subscriber, t # s PROVE Identity'[t] = Identity[t]
      <4>1. CASE Known(t)
        BY <1>1, <1>3, <4>1, IdentityStays
      <4>2. CASE ~Known(t)
        <5>1. ~Known(t)'
          <6> SUFFICES ASSUME Known(t)' PROVE FALSE
            OBVIOUS
          <6>1. PICK q \in Request : createNetworkParticipant(q) /\ SubscriberOf(q) = t
            BY <1>1, <4>2, IdentityComes
          <6>2. q = r
            BY <1>1, <2>2, <6>1 DEF createNetworkParticipant, At, Goto, TypeOK
          <6> QED BY <2>2, <3>1, <6>1, <6>2
        <5> QED BY <1>3, <4>2, <5>1
      <4> QED BY <4>1, <4>2
    <3>2. Identity'[s] = r
      BY <1>3, <2>1, <2>2
    <3> QED BY <3>1, <3>2 DEF Identity
  <2>4. Identity[s] = None
    BY <1>3, <2>1
  <2>5. ASSUME NEW t \in Subscriber PROVE Identity[t] # r
    <3>1. CASE Known(t)
      BY <1>1, <1>4, <2>1, <2>2, <3>1, FindOneOwned
    <3>2. CASE ~Known(t)
      BY <1>2, <1>3, <3>2
    <3> QED BY <3>1, <3>2
  <2>6. Registered' = Registered
    <3>1. registry' = registry
      BY <2>2 DEF createNetworkParticipant
    <3> QED BY <1>1, <3>1, RegisteredStays DEF Registered
  <2>7. Signed' = Signed
    <3>1. ~UNCHANGED vars
      BY <2>1 DEF vars, Known
    <3> QED BY <3>1, SignedChanges
  <2>8. Merchant!Claim(s, r)
    BY <2>3, <2>4, <2>5, <2>6, <2>7 DEF Merchant!Claim
  <2> QED BY <2>8 DEF Merchant!Next
<1>6. CASE \A s \in Subscriber : Known(s)' => Known(s)
  <2>1. Identity' = Identity
    <3>1. ASSUME NEW s \in Subscriber PROVE Identity'[s] = Identity[s]
      BY <1>1, <1>3, <1>6, IdentityStays
    <3> QED BY <3>1 DEF Identity
  <2>2. CASE \E r \in Request : registry[r] # "verified" /\ registry'[r] = "verified"
    <3>1. PICK r \in Request : registry[r] # "verified" /\ registry'[r] = "verified"
      BY <2>2
    <3> DEFINE s == SubscriberOf(r)
    <3>2. /\ SubscriberOf(r)' = s /\ Known(s) /\ FindOne(s).request = r
          /\ registry' = [registry EXCEPT ![r] = "verified"]
      BY <1>1, <3>1, RegisteredComes
    <3>3. Registered' = Registered \union {<<s, r>>}
      <4>1. \A q \in Request : q # r => registry'[q] = registry[q]
        BY <1>1, <3>2 DEF TypeOK
      <4> QED BY <1>1, <3>1, <3>2, <4>1, RegisteredStays DEF Registered
    <3>4. Signed' = Signed
      <4>1. ~UNCHANGED vars
        BY <3>1 DEF vars
      <4> QED BY <4>1, SignedChanges
    <3>5. s \in Subscriber /\ Identity[s] = r /\ Identity[s] # None
      BY <1>1, <1>4, <3>2, FindOneOwned
    <3>6. Merchant!Register(s)
      BY <2>1, <3>3, <3>4, <3>5 DEF Merchant!Register
    <3> QED BY <3>5, <3>6 DEF Merchant!Next
  <2>3. CASE \A r \in Request : registry'[r] = "verified" => registry[r] = "verified"
    <3>1. Registered' = Registered
      BY <1>1, <2>3, RegisteredStays DEF Registered
    <3>2. CASE Signed' = Signed
      BY <2>1, <3>1, <3>2
    <3>3. CASE Signed' # Signed
      <4>1. PICK s \in Subscriber : /\ Known(s)
                                   /\ Signed' = Signed \union {<<s, FindOne(s).request>>}
        BY <3>3, SignedChanges
      <4>2. Identity[s] = FindOne(s).request /\ Identity[s] # None
        BY <1>4, <4>1
      <4>3. Merchant!Sign(s)
        BY <2>1, <3>1, <4>1, <4>2 DEF Merchant!Sign
      <4> QED BY <4>3 DEF Merchant!Next
    <3> QED BY <3>2, <3>3
  <2> QED BY <2>2, <2>3
<1> QED BY <1>5, <1>6

(* The registry has heard of no request before it is posted, here too.     *)
THEOREM MerchantInductive == SellerSpec => []MInv
<1>1. SellerInit => MInv
  BY SellerInvInit DEF MInv, SellerInit, Init, Unsent
<1>2. MInv /\ [SellerNext]_allVars => MInv'
  BY SellerInvStep, OnboardingStep, UnsentStep DEF MInv, SellerInv
<1> QED BY <1>1, <1>2, PTL DEF SellerSpec

(* Onboarding and calls together keep the promise: one identity for each   *)
(* subscriber, for the registry and for every signature.                   *)
THEOREM ImplementsIdentityCorrect == SellerSpec => ImplementsIdentity
<1>1. SellerInit => Merchant!Init
  BY DEF SellerInit, Init, Merchant!Init, Identity, Registered, Signed, Known, Matches
<1>2. MInv /\ MInv' /\ [SellerNext]_allVars => [Merchant!Next]_<<Identity, Registered, Signed>>
  BY IdentityStep
<1> QED BY <1>1, <1>2, MerchantInductive, PTL
        DEF SellerSpec, ImplementsIdentity, Merchant!Spec

-----------------------------------------------------------------------------
(* The keys as they are stored.                                            *)

(* What libsodium decodes of either half is the text of an export, never   *)
(* its own layout, so a signature verifies for no pair at all: it is not   *)
(* a matter of which pair a call finds, nor of the order of anything.      *)
THEOREM NoSignatureVerifies ==
  SellerSpec =>
    [](\A m \in sent :
         ~Keys!Verifies(Keys!signMessage(Keys!signingPrivateKey(m.keys)),
                        Keys!signingPublicKey(m.keys), m.keys))
<1>1. ASSUME NEW pair
      PROVE  ~Keys!Verifies(Keys!signMessage(Keys!signingPrivateKey(pair)),
                            Keys!signingPublicKey(pair), pair)
  <2> DEFINE text == Keys!StripMarkers("PRIVATE KEY", Keys!Pem("PRIVATE KEY", pair))
  <2>1. Keys!signMessage(Keys!signingPrivateKey(pair)).secretKey = <<"utf8", text>>
    BY DEF Keys!signMessage, Keys!signingPrivateKey, Keys!from_base64, Keys!Base64,
       Keys!Utf8
  <2>2. <<"utf8", text>>[1] # Keys!Raw("PRIVATE KEY", pair)[1]
    BY DEF Keys!Raw
  <2> HIDE DEF text
  <2> QED BY <2>1, <2>2 DEF Keys!Verifies
<1>2. \A m \in sent :
        ~Keys!Verifies(Keys!signMessage(Keys!signingPrivateKey(m.keys)),
                       Keys!signingPublicKey(m.keys), m.keys)
  BY <1>1
<1> QED BY <1>2, PTL
================================================================================
