--------------------------- MODULE MCRabbitConsumer ---------------------------
(* RabbitConsumer for TLC: at most one message of each kind of handler,    *)
(* named by the initial of its queue.  MaxDeliveries is above what         *)
(* MaxLosses and the largest header can reach, so it cuts nothing off,     *)
(* except in the run on a message without a header, which is redelivered   *)
(* for ever.                                                               *)
EXTENDS RabbitConsumer

CONSTANTS search, select, other

MCQueueOf == [m \in Message |-> CASE m = search -> "on_search"
                                  [] m = select -> "on_select"
                                  [] OTHER      -> "on_init"]
===============================================================================
