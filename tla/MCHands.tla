------------------------------ MODULE MCHands ------------------------------
(***************************************************************************)
(* Deals on a small instance.  No rule depends on the order of the cards,  *)
(* so TLC goes on from the hands in ascending order only.                  *)
(***************************************************************************)
EXTENDS Deals

Ascends(hand) == \A i \in 2..Len(hand) : hand[i - 1] <= hand[i]

Sorted == Ascends(mine) /\ Ascends(theirs)
=============================================================================
