----------------------- MODULE MCParticipantOnboarding -----------------------
(* ParticipantOnboarding for TLC.  Requests, subscribers and callbacks are *)
(* interchangeable; each acts once, so no further bound is needed.         *)
EXTENDS ParticipantOnboarding, TLC

Symmetry == Permutations(Request) \union Permutations(Call)
              \union Permutations(Subscriber)
===============================================================================
