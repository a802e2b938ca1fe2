---------------------------- MODULE DealsProofs ----------------------------
(***************************************************************************)
(* The rules of Hands agree with their references on every hand, of any    *)
(* number of cards in any order.  Deals puts the hands together card by    *)
(* card, and its invariant stands for an induction over them.              *)
(***************************************************************************)
EXTENDS Deals, HandsProofs

----------------------------------------------------------------------------
(* The hands.                                                              *)

\* A hand of cards, each of which counts one at least.
IsHand(hand) == hand \in Seq(Card) /\ Weighs(hand)

DealInv == IsHand(mine) /\ IsHand(theirs) /\ (theirs # <<>> => Len(mine) >= 2)

LEMMA NothingIsHand == IsHand(<<>>)
BY NoCards DEF IsHand, Weighs

LEMMA OneMoreIsHand ==
  ASSUME NEW hand, IsHand(hand), NEW card \in Card
  PROVE  IsHand(Append(hand, card))
BY OneMoreWeighs DEF IsHand

LEMMA DealInvHolds == Spec => []DealInv
<1>1. Init => DealInv BY NothingIsHand DEF Init, DealInv
<1>2. DealInv /\ [Next]_vars => DealInv'
  <2> SUFFICES ASSUME DealInv, [Next]_vars PROVE DealInv'
    OBVIOUS
  <2>1. ASSUME NEW card \in Card, DealsToPlayer(card) PROVE DealInv'
    BY <2>1, OneMoreIsHand DEF DealsToPlayer, DealInv
  <2>2. ASSUME NEW card \in Card, DealsToDealer(card) PROVE DealInv'
    BY <2>2, OneMoreIsHand DEF DealsToDealer, DealInv
  <2>3. CASE UNCHANGED vars BY <2>3 DEF vars, DealInv
  <2> QED BY <2>1, <2>2, <2>3 DEF Next
<1> QED BY <1>1, <1>2, PTL DEF Spec

LEMMA ValueOfHand ==
  ASSUME NEW hand, IsHand(hand)
  PROVE  /\ HardValue(hand) \in Nat /\ Value(hand) \in Nat
         /\ Value(hand) >= Len(hand) /\ Len(hand) \in Nat
BY ValueType DEF IsHand, Weighs

----------------------------------------------------------------------------
(* The theorems.                                                           *)

\* Whatever two hands meet, the stronger wins and equal ones push; a natural is
\* the strongest, and a player who is bust has lost to every dealer (outcome.go,
\* ResolveRoundOutcome).
THEOREM StrongerHandsWin == Spec => []OutcomeFollowsStrength
<1>1. DealInv => OutcomeFollowsStrength
  <2> SUFFICES ASSUME DealInv, Len(theirs) >= 2
               PROVE  ResolveRoundOutcome(mine, theirs) =
                        IF Strength(mine) = 0 \/ Strength(mine) < Strength(theirs) THEN "LOSE"
                        ELSE IF Strength(mine) > Strength(theirs) THEN "WIN" ELSE "PUSH"
    BY DEF OutcomeFollowsStrength
  <2>1. /\ Value(mine) \in Nat /\ Value(theirs) \in Nat
        /\ Value(mine) > 0 /\ Value(theirs) > 0
    BY ValueOfHand DEF DealInv
  <2>2. CASE IsBust(mine)
    BY <2>2 DEF ResolveRoundOutcome, Strength, IsBust
  <2>3. CASE ~IsBust(mine) /\ IsBust(theirs)
    BY <2>1, <2>3 DEF ResolveRoundOutcome, Strength, IsBust
  <2>4. CASE ~IsBust(mine) /\ ~IsBust(theirs)
    BY <2>1, <2>4 DEF ResolveRoundOutcome, Strength, IsBust, IsBlackjack
  <2> QED BY <2>2, <2>3, <2>4
<1> QED BY <1>1, DealInvHolds, PTL

\* The hint has the player draw to a soft hand only when no card can bust it, and
\* to a hard one only below 17 (model/intermediate_strategy.go).
THEOREM HintsAreSound == Spec => []HintIsSound
<1>1. DealInv => HintIsSound
  <2> SUFFICES ASSUME DealInv, NEW up \in Card, RecommendHit(mine, up)
               PROVE  IF IsSoft(mine) THEN \A card \in Card : ~IsBust(Append(mine, card))
                      ELSE DealerDraws(mine)
    BY DEF HintIsSound, DealInv, IsHand
  <2>0. mine \in Seq(Card) /\ HardValue(mine) \in Nat /\ Value(mine) \in Nat
    BY ValueOfHand DEF DealInv, IsHand
  <2>1. ASSUME IsSoft(mine), NEW card \in Card PROVE ~IsBust(Append(mine, card))
    <3>1. HardValue(mine) <= 11 BY <2>0, <2>1 DEF IsSoft, Value
    <3>2. HardValue(Append(mine, card)) = HardValue(mine) + card
      BY <2>0, HardValueOfAppend
    <3>3. card \in Nat /\ card <= 10 BY DEF Card
    <3> QED BY <2>0, <3>1, <3>2, <3>3 DEF IsBust, Value
  <2>2. ASSUME ~IsSoft(mine) PROVE DealerDraws(mine)
    <3>1. ~IsBust(mine) /\ HardHit(Value(mine), DealerUpValue(up))
      BY <2>2 DEF RecommendHit
    <3>2. Value(mine) < 17 BY <2>0, <3>1 DEF HardHit
    <3> QED BY <3>1, <3>2 DEF DealerDraws
  <2> QED BY <2>1, <2>2
<1> QED BY <1>1, DealInvHolds, PTL

\* Whoever is told to draw against some card of the dealer is told to draw against
\* every more dangerous one, with any hand (model/intermediate_strategy.go).
THEOREM HintsFollowTheDealer == Spec => []HintFollowsUpCard
<1>1. DealInv => HintFollowsUpCard
  <2> SUFFICES ASSUME DealInv, NEW weaker \in Card, NEW stronger \in Card,
                      Danger(weaker) <= Danger(stronger), RecommendHit(mine, weaker)
               PROVE  RecommendHit(mine, stronger)
    BY DEF HintFollowsUpCard, DealInv, IsHand
  <2> DEFINE low == DealerUpValue(weaker)
             high == DealerUpValue(stronger)
  <2>1. /\ low \in 2..11 /\ high \in 2..11
        /\ low > 6 => high >= low
        /\ low <= 6 => high > 6 \/ high <= low
    BY DEF DealerUpValue, Danger, Card, Ace
  <2>2. Value(mine) \in Nat BY ValueOfHand DEF DealInv
  <2> HIDE DEF low, high
  <2>3. CASE IsSoft(mine)
    <3>1. SoftHit(Value(mine), low) BY <2>3 DEF RecommendHit, low
    <3>2. SoftHit(Value(mine), high) BY <2>1, <2>2, <3>1 DEF SoftHit
    <3> QED BY <2>3, <3>2 DEF RecommendHit, high
  <2>4. CASE ~IsSoft(mine)
    <3>1. HardHit(Value(mine), low) BY <2>4 DEF RecommendHit, low
    <3>2. HardHit(Value(mine), high) BY <2>1, <2>2, <3>1 DEF HardHit
    <3> QED BY <2>4, <3>2 DEF RecommendHit, high
  <2> QED BY <2>3, <2>4
<1> QED BY <1>1, DealInvHolds, PTL
=============================================================================
