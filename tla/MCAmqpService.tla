---------------------------- MODULE MCAmqpService ----------------------------
(* AmqpService for TLC: up to three messages, which are model values.  The *)
(* state space is finite without any further bound: a message is published *)
(* once, and the retries of the code never have more than two activations. *)
EXTENDS AmqpService
=============================================================================
