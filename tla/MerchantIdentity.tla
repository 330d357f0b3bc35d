-------------------------- MODULE MerchantIdentity --------------------------
(***************************************************************************)
(* What src/participant and src/seller together promise a merchant, with   *)
(* no request, document, callback or call in sight: the first keys made    *)
(* for a subscriber are its identity, no two subscribers share one, the    *)
(* registry registers a subscriber under its identity or not at all, and   *)
(* what is sent on its behalf carries the signature of its identity.       *)
(* Nothing takes an identity, a registration or a signature back.          *)
(***************************************************************************)
CONSTANTS Subscriber, Key, None

VARIABLES identity,    \* the keys of each subscriber
          registered,  \* subscribers with the keys they are verified under
          signed       \* subscribers with the keys they signed with

Init ==
  /\ identity = [s \in Subscriber |-> None]
  /\ registered = {}
  /\ signed = {}

(* The keys are nobody's.                                                  *)
Claim(s, k) ==
  /\ identity[s] = None
  /\ \A t \in Subscriber : identity[t] # k
  /\ identity' = [identity EXCEPT ![s] = k]
  /\ UNCHANGED <<registered, signed>>

Register(s) ==
  /\ identity[s] # None
  /\ registered' = registered \union {<<s, identity[s]>>}
  /\ UNCHANGED <<identity, signed>>

Sign(s) ==
  /\ identity[s] # None
  /\ signed' = signed \union {<<s, identity[s]>>}
  /\ UNCHANGED <<identity, registered>>

Next ==
  \E s \in Subscriber :
    (\E k \in Key : Claim(s, k)) \/ Register(s) \/ Sign(s)

Spec == Init /\ [][Next]_<<identity, registered, signed>>
===============================================================================
