----------------------------- MODULE SellerGateway -----------------------------
(***************************************************************************)
(* src/seller/seller.controller.ts together with the onboarding of its     *)
(* merchants: a call finds the subscriber's participant, signs a message   *)
(* with the keys it found, posts it and answers the merchant, while        *)
(* subscriptions and challenges of the same subscriber go on.  The gateway *)
(* is external: it accepts a message or not, and its answer may be lost.   *)
(***************************************************************************)
EXTENDS ParticipantOnboarding, OndcService

CONSTANT SellerCall    \* calls of POST sellers/...

ASSUME SellerCallAssumption == None \notin SellerCall

VARIABLES
  call,     \* for each call its step, route, subscriber, keys and reply
  sent      \* what was posted, with what the receiver made of it

sellerVars == <<call, sent>>
allVars    == <<vars, sellerVars>>

(* What the merchant gets: the data of the response, an answer the method  *)
(* made up for a failure, or status 500.                                   *)
Reply == {"data", "notSuccess", "empty", "echo", "error"}

SellerInit ==
  /\ Init
  /\ call = [c \in SellerCall |-> [step |-> "idle", route |-> None,
                                   subscriber |-> None, keys |-> None,
                                   reply |-> None]]
  /\ sent = {}

SendReply(c, reply) ==
  call' = [call EXCEPT ![c].step = "replied", ![c].reply = reply]

-----------------------------------------------------------------------------
(* Slip: the newest document's keys are taken.                             *)
FindNewest(c, route, s) ==
  /\ call[c].step = "idle" /\ Known(s)
  /\ call' = [call EXCEPT ![c] = [step |-> "signing", route |-> route,
                subscriber |-> s, reply |-> None,
                keys |-> participants[Newest(participants, s)].request]]
  /\ UNCHANGED <<vars, sent>>

(* Slip: a subscriber nobody knows is not refused.                         *)
FindAnyway(c, route, s) ==
  /\ call[c].step = "idle"
  /\ call' = [call EXCEPT ![c] = [step |-> "signing", route |-> route,
                subscriber |-> s, reply |-> None, keys |-> None]]
  /\ UNCHANGED <<vars, sent>>

(* The controller looks the subscriber up, which throws when there is      *)
(* nobody, and hands the keys to the method of its route.                  *)
FindParticipant(c, route, s) ==
  /\ call[c].step = "idle"
  /\ call' =
       IF Known(s)
       THEN [call EXCEPT ![c] = [step |-> "signing", route |-> route,
               subscriber |-> s, reply |-> None,
               keys |-> FindOne(s).request]]
       ELSE [call EXCEPT ![c] = [step |-> "replied", route |-> route,
               subscriber |-> s, keys |-> None, reply |-> "error"]]
  /\ UNCHANGED <<vars, sent>>

(* createAuthorizationHeader signs with the keys found before its await,   *)
(* and the message is posted; it may not arrive.                           *)
Post(c) ==
  /\ call[c].step = "signing"
  /\ call' = [call EXCEPT ![c].step = "posted"]
  /\ \/ \E accepted \in BOOLEAN :
          sent' = sent \union
            {[call |-> c, route |-> call[c].route, keys |-> call[c].keys,
              accepted |-> accepted]}
     \/ UNCHANGED sent
  /\ UNCHANGED vars

(* The positive answer arrives.  The response object of axios refers to    *)
(* itself and has no JSON form, so the merchant gets status 500 for it.    *)
PostOk(c) ==
  /\ call[c].step = "posted"
  /\ \E m \in sent : m.call = c /\ m.accepted
  /\ SendReply(c, IF Routes[call[c].route].success = "data" THEN "data" ELSE "error")
  /\ UNCHANGED <<vars, sent>>

(* A negative answer, or none: the method's catch block.                   *)
PostFails(c) ==
  /\ call[c].step = "posted"
  /\ SendReply(c, Routes[call[c].route].failure)
  /\ UNCHANGED <<vars, sent>>

SellerNext ==
  \/ Next /\ UNCHANGED sellerVars
  \/ \E c \in SellerCall :
       \/ \E route \in Route, s \in Subscriber : FindParticipant(c, route, s)
       \/ Post(c) \/ PostOk(c) \/ PostFails(c)

SellerSpec == SellerInit /\ [][SellerNext]_allVars

-----------------------------------------------------------------------------
(* The variables of the calls hold values of their types.                  *)
SellerTypeOK ==
  /\ call \in [SellerCall -> [step : {"idle", "signing", "posted", "replied"},
                              route : Route \union {None},
                              subscriber : Subscriber \union {None},
                              keys : Request \union {None},
                              reply : Reply \union {None}]]
  /\ sent \subseteq [call : SellerCall, route : Route, keys : Request,
                     accepted : BOOLEAN]

(* A call holds, from its lookup to its reply, the keys that findOne gives *)
(* for its subscriber at any later time, and so does what it posted.       *)
CallsHoldKeys ==
  /\ \A c \in SellerCall : call[c].step \in {"signing", "posted"} =>
       /\ call[c].route \in Route
       /\ Known(call[c].subscriber)
       /\ call[c].keys = FindOne(call[c].subscriber).request
  /\ \A m \in sent :
       /\ call[m.call].step \in {"posted", "replied"}
       /\ Known(call[m.call].subscriber)
       /\ m.keys = FindOne(call[m.call].subscriber).request

(* A message carries the signature of the keys the registry verified for   *)
(* its subscriber, however the lookup, the awaits of the call, further     *)
(* subscriptions and late verifications interleave.                        *)
SignedWithVerifiedKeys ==
  \A m \in sent : \A r \in Request :
    registry[r] = "verified" /\ SubscriberOf(r) = call[m.call].subscriber
      => m.keys = r

(* Each subscriber's keys, and whom the registry and the messages gave     *)
(* which.                                                                  *)
Identity   == [s \in Subscriber |-> IF Known(s) THEN FindOne(s).request ELSE None]
Registered == {<<SubscriberOf(r), r>> : r \in {q \in Request : registry[q] = "verified"}}
Signed     == {<<call[m.call].subscriber, m.keys>> : m \in sent}

Merchant == INSTANCE MerchantIdentity WITH
  Key <- Request, identity <- Identity, registered <- Registered, signed <- Signed

(* A subscriber has at most one pair of keys for ever, of its own, and     *)
(* everything that the registry verifies and that the calls sign is that   *)
(* pair: onboarding and calls together implement MerchantIdentity.         *)
ImplementsIdentity == Merchant!Spec

(* A message is posted to the path its context names as its action         *)
(* (ondc.service.ts, line 626: action: 'confirm').                         *)
ActionMatchesPath ==
  \A m \in sent : Routes[m.route].path = Routes[m.route].action

Keys == INSTANCE KeyMaterial

(* A header names its algorithm (ondc-util.service.ts, line 112:           *)
(* algorithm="ed25519"), so that whoever has the public key that subscribe *)
(* gave to the registry can verify the signature of a message.             *)
SignaturesVerify ==
  \A m \in sent :
    Keys!Verifies(Keys!signMessage(Keys!signingPrivateKey(m.keys)),
                  Keys!signingPublicKey(m.keys), m.keys)
================================================================================
