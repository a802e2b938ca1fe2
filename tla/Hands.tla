------------------------------- MODULE Hands -------------------------------
(***************************************************************************)
(* The pure rules of the game: what a hand is worth, when the dealer draws,*)
(* who wins, and the hint given to the player (backend/model and the       *)
(* evaluator of backend/adapter/blackjackadapter).                         *)
(*                                                                         *)
(* A card is abstracted to its hard value: an ace is 1, a ten and every    *)
(* face card is 10.  Suits and the difference between a ten and a face     *)
(* card reach no rule.                                                     *)
(***************************************************************************)
EXTENDS Integers, Sequences, FiniteSets

Ace  == 1
Card == 1..10

\* How often a value occurs in a hand.
Count(hand, value) == Cardinality({i \in DOMAIN hand : hand[i] = value})

\* The sum of a hand with every ace counted as 1 (evaluator.go, hardValue),
\* grouped by rank.
HardValue(hand) ==
  Count(hand, 1) + 2 * Count(hand, 2) + 3 * Count(hand, 3) + 4 * Count(hand, 4)
  + 5 * Count(hand, 5) + 6 * Count(hand, 6) + 7 * Count(hand, 7)
  + 8 * Count(hand, 8) + 9 * Count(hand, 9) + 10 * Count(hand, 10)

HasAce(hand) == \E i \in DOMAIN hand : hand[i] = Ace

\* The library's Hand.Value, as its callers here rely on it: one ace counts 11
\* when that does not bust.
Value(hand) ==
  IF HasAce(hand) /\ HardValue(hand) + 10 <= 21
  THEN HardValue(hand) + 10
  ELSE HardValue(hand)

IsBlackjack(hand) == Len(hand) = 2 /\ Value(hand) = 21

IsBust(hand) == Value(hand) > 21

IsSoft(hand) == HasAce(hand) /\ Value(hand) > HardValue(hand)

\* NextDealerAction: the dealer draws below 17 and stands on every 17, soft
\* ones included; a bust dealer is terminal.
DealerDraws(hand) == ~IsBust(hand) /\ Value(hand) < 17

\* A mutant: the dealer's bust is looked at before the player's.
ResolveRoundOutcome_DealerBustFirst(player, dealer) ==
  IF IsBust(dealer) THEN "WIN"
  ELSE IF IsBust(player) \/ Value(player) < Value(dealer) THEN "LOSE"
  ELSE IF Value(player) > Value(dealer) THEN "WIN" ELSE "PUSH"

\* A mutant: the case of equal hands is forgotten.
ResolveRoundOutcome_NoPush(player, dealer) ==
  IF IsBust(player) THEN "LOSE"
  ELSE IF IsBust(dealer) \/ Value(player) > Value(dealer) THEN "WIN"
  ELSE IF Value(player) < Value(dealer) THEN "LOSE" ELSE "NONE"

\* ResolveRoundOutcome, in the order of its returns.
ResolveRoundOutcome(player, dealer) ==
  CASE IsBust(player)                                -> "LOSE"
    [] ~IsBust(player) /\ IsBust(dealer)             -> "WIN"
    [] OTHER ->
         IF IsBlackjack(player) # IsBlackjack(dealer)
         THEN IF IsBlackjack(player) THEN "WIN" ELSE "LOSE"
         ELSE CASE IsBlackjack(player)               -> "PUSH"
                [] Value(player) > Value(dealer)     -> "WIN"
                [] Value(player) < Value(dealer)     -> "LOSE"
                [] OTHER                             -> "PUSH"

----------------------------------------------------------------------------
(* The hint (model/intermediate_strategy.go).                              *)

\* A mutant: the dealer's ace counts as the lowest card.
DealerUpValue_AceLow(card) == card

DealerUpValue(card) == IF card = Ace THEN 11 ELSE card

SoftHit(value, up) == value < 18 \/ (value = 18 /\ up >= 9)

\* A mutant: the bound of the stiff hands is one too low.
HardHit_OffByOne(value, up) == value <= 17 /\ ~(up \in 2..6 /\ value >= 12)

HardHit(value, up) ==
  CASE value >= 17        -> FALSE
    [] value \in 13..16   -> up \notin 2..6
    [] value = 12         -> up \notin 4..6
    [] value = 10         -> up >= 10
    [] OTHER              -> TRUE

\* RecommendHitOrStand: TRUE recommends a hit.
RecommendHit(player, dealerUp) ==
  /\ Len(player) > 0
  /\ ~IsBust(player)
  /\ IF IsSoft(player)
     THEN SoftHit(Value(player), DealerUpValue(dealerUp))
     ELSE HardHit(Value(player), DealerUpValue(dealerUp))
============================================================================
