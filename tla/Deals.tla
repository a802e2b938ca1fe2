------------------------------- MODULE Deals -------------------------------
(***************************************************************************)
(* What the rules of Hands are checked against: the hands of the player    *)
(* and of the dealer, dealt one card at a time in any order.               *)
(***************************************************************************)
EXTENDS Hands

CONSTANTS
  MaxPlayerCards,  \* cards of the player, a bound of the model
  MaxDealerCards   \* cards of the dealer, a bound of the model

VARIABLES
  mine,   \* the player's hand
  theirs  \* the dealer's hand

vars == <<mine, theirs>>

Init == mine = <<>> /\ theirs = <<>>

DealsToPlayer(card) ==
  /\ theirs = <<>> /\ Len(mine) < MaxPlayerCards
  /\ mine' = Append(mine, card)
  /\ UNCHANGED theirs

DealsToDealer(card) ==
  /\ Len(mine) >= 2 /\ Len(theirs) < MaxDealerCards
  /\ theirs' = Append(theirs, card)
  /\ UNCHANGED mine

Next == \E card \in Card : DealsToPlayer(card) \/ DealsToDealer(card)

Spec == Init /\ [][Next]_vars

----------------------------------------------------------------------------
(* Properties.                                                             *)

\* A bust hand has no strength, a natural the most.
Strength(hand) ==
  IF Value(hand) > 21 THEN 0
  ELSE IF Len(hand) = 2 /\ Value(hand) = 21 THEN 22 ELSE Value(hand)

\* The stronger hand wins and equal hands push, except that a player who is
\* bust has lost whatever the dealer holds: the reference for outcome.go.
OutcomeFollowsStrength ==
  Len(theirs) >= 2 =>
    ResolveRoundOutcome(mine, theirs) =
      IF Strength(mine) = 0 \/ Strength(mine) < Strength(theirs) THEN "LOSE"
      ELSE IF Strength(mine) > Strength(theirs) THEN "WIN" ELSE "PUSH"

\* The hint never has the player draw where it could only be reckless: a soft
\* hand is hit only when no card busts it, and a hard one only when the dealer
\* would draw to it too.
HintIsSound ==
  \A i \in DOMAIN theirs :
    RecommendHit(mine, theirs[i]) =>
      IF IsSoft(mine) THEN \A card \in Card : ~IsBust(Append(mine, card))
      ELSE DealerDraws(mine)

\* How a dealer's card ranks: the dealer busts most often from a 6 and less and
\* less from 5 down to 2, then from 7 up to the ace.
Danger(up) == IF up = Ace THEN 11 ELSE IF up \in 2..6 THEN -up ELSE up

\* A hint to draw against the dealer's card is a hint to draw against every card
\* that is more dangerous: the tables of intermediate_strategy.go, with their
\* ranges of up cards and an ace that counts 11, have no holes.
HintFollowsUpCard ==
  \A i \in DOMAIN theirs :
    RecommendHit(mine, theirs[i]) =>
      \A stronger \in Card :
        Danger(theirs[i]) <= Danger(stronger) => RecommendHit(mine, stronger)
=============================================================================
