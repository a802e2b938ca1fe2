------------------------------- MODULE MCRoom -------------------------------
(* Room on small instances. *)
EXTENDS Room, TLC

\* The host's requests do the same things; for safety only.
SameRequests == Permutations(Callers)
=============================================================================
