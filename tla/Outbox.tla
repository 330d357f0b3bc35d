-------------------------------- MODULE Outbox --------------------------------
(***************************************************************************)
(* What the publishing side of libs/rabbitmq promises about a message that *)
(* a hook handed over, with no connection, channel or retry in sight: it   *)
(* is put aside or sent, then routed to its queue or lost.  A message      *)
(* never moves back, in particular it is never sent a second time, and one *)
(* that reached its queue is never lost.                                   *)
(***************************************************************************)
CONSTANT Message
VARIABLE where

Place == {"unpublished", "aside", "sent", "queued", "lost"}

Successors(place) ==
  CASE place = "unpublished" -> {"aside", "sent", "lost"}
    [] place = "aside"       -> {"sent", "lost"}
    [] place = "sent"        -> {"queued", "lost"}
    [] OTHER                 -> {}

Init == where = [m \in Message |-> "unpublished"]

(* One step of the service may move many messages: re-driving the array,   *)
(* losing the connection, losing the process.                              *)
Next ==
  /\ where' \in [Message -> Place]
  /\ \A m \in Message :
       where'[m] # where[m] => where'[m] \in Successors(where[m])

Spec == Init /\ [][Next]_where
===============================================================================
