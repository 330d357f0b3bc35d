---------------------------- MODULE WebhookPromise ----------------------------
(***************************************************************************)
(* What src/buyer promises about a webhook, with no connection, queue or   *)
(* process in sight: once the caller was told that it succeeded, it is     *)
(* accepted, and later either settled, for good and never to be answered   *)
(* again, or gone.  A search or an outage may settle it without an answer, *)
(* and a failing handler or a lost channel may make it answered twice, but *)
(* only until it is settled.                                               *)
(***************************************************************************)
EXTENDS Naturals

CONSTANT Webhook
VARIABLES fate,    \* what has become of each webhook
          answers  \* how often each was answered

Fate == {"none", "accepted", "settled", "gone"}

Init ==
  /\ fate = [w \in Webhook |-> "none"]
  /\ answers = [w \in Webhook |-> 0]

Become(w, f) == fate' = [fate EXCEPT ![w] = f]

(* A hook may accept what is refused behind its back at once.              *)
Accept(w) ==
  /\ fate[w] = "none"
  /\ Become(w, "accepted") \/ Become(w, "gone")
  /\ UNCHANGED answers

(* A handler may outlive the queue its message went with.                  *)
Answer(w) ==
  /\ fate[w] \in {"accepted", "gone"}
  /\ answers' = [answers EXCEPT ![w] = @ + 1]
  /\ UNCHANGED fate

Settle(w) ==
  /\ fate[w] = "accepted"
  /\ Become(w, "settled")
  /\ UNCHANGED answers

(* A loss may concern many webhooks at once, but none that is settled.     *)
Vanish(W) ==
  /\ \A w \in W : fate[w] = "accepted"
  /\ fate' = [w \in Webhook |-> IF w \in W THEN "gone" ELSE fate[w]]
  /\ UNCHANGED answers

Next ==
  \/ \E w \in Webhook : Accept(w) \/ Answer(w) \/ Settle(w)
  \/ \E W \in SUBSET Webhook : Vanish(W)

Spec == Init /\ [][Next]_<<fate, answers>>
===============================================================================
