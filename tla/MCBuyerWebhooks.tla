---------------------------- MODULE MCBuyerWebhooks ----------------------------
(* BuyerWebhooks for TLC: one webhook whose handler may throw and one      *)
(* whose handler cannot.                                                   *)
EXTENDS BuyerWebhooks

CONSTANTS searched, tracked
MCQueueOf == [m \in Message |-> IF m = searched THEN "on_search" ELSE "on_track"]
===============================================================================
