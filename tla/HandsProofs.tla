---------------------------- MODULE HandsProofs ----------------------------
(***************************************************************************)
(* What the rules of Hands give on hands of any number of cards: how one   *)
(* more card changes what a hand is worth.                                 *)
(***************************************************************************)
EXTENDS Hands, FiniteSetTheorems, TLAPS

----------------------------------------------------------------------------
(* Types.                                                                  *)

\* The places where a value stands in a hand are finitely many.
LEMMA CountType ==
  ASSUME NEW hand \in Seq(Card), NEW value
  PROVE  /\ IsFiniteSet({i \in DOMAIN hand : hand[i] = value})
         /\ Count(hand, value) \in Nat
<1>1. IsFiniteSet(1..Len(hand))
  BY FS_Interval
<1>2. {i \in DOMAIN hand : hand[i] = value} \in SUBSET (1..Len(hand))
  OBVIOUS
<1>3. IsFiniteSet({i \in DOMAIN hand : hand[i] = value})
  BY <1>1, <1>2, FS_Subset
<1> QED
  BY <1>3, FS_CardinalityType DEF Count

LEMMA WeightedSumType ==
  ASSUME NEW hand,
         Count(hand, 1) \in Nat, Count(hand, 2) \in Nat, Count(hand, 3) \in Nat,
         Count(hand, 4) \in Nat, Count(hand, 5) \in Nat, Count(hand, 6) \in Nat,
         Count(hand, 7) \in Nat, Count(hand, 8) \in Nat, Count(hand, 9) \in Nat,
         Count(hand, 10) \in Nat
  PROVE  HardValue(hand) \in Nat
BY DEF HardValue

LEMMA ValueType ==
  ASSUME NEW hand \in Seq(Card)
  PROVE  HardValue(hand) \in Nat /\ Value(hand) \in Nat /\ Value(hand) >= HardValue(hand)
<1>1. HardValue(hand) \in Nat
  BY CountType, WeightedSumType
<1> QED
  BY <1>1 DEF Value
----------------------------------------------------------------------------
(* One more card.                                                          *)

LEMMA CountOfAppend ==
  ASSUME NEW hand \in Seq(Card), NEW card \in Card, NEW value
  PROVE  /\ Count(hand, value) \in Nat
         /\ Count(Append(hand, card), value) =
              Count(hand, value) + (IF card = value THEN 1 ELSE 0)
<1> DEFINE more  == Append(hand, card)
           next  == Len(hand) + 1
           where == {i \in DOMAIN hand : hand[i] = value}
<1>1. IsFiniteSet(where) /\ Cardinality(where) \in Nat
  BY CountType DEF Count
<1>2. next \notin where OBVIOUS
<1>3. {i \in DOMAIN more : more[i] = value} =
        IF card = value THEN where \cup {next} ELSE where
  <2>1. /\ DOMAIN more = DOMAIN hand \cup {next}
        /\ more[next] = card /\ next \notin DOMAIN hand
        /\ \A i \in DOMAIN hand : more[i] = hand[i]
    OBVIOUS
  <2> HIDE DEF more, next
  <2> QED BY <2>1
<1>4. Cardinality(where \cup {next}) = Cardinality(where) + 1
  BY <1>1, <1>2, FS_AddElement
<1> HIDE DEF where, more, next
<1>5. Count(hand, value) = Cardinality(where) BY DEF Count, where
<1>6. Count(more, value) = Cardinality(IF card = value THEN where \cup {next} ELSE where)
  BY <1>3 DEF Count
<1> QED BY <1>1, <1>4, <1>5, <1>6 DEF more

\* The hard value of a hand in which value v occurs f[v] times.
Weighted(f) ==
  f[1] + 2 * f[2] + 3 * f[3] + 4 * f[4] + 5 * f[5]
  + 6 * f[6] + 7 * f[7] + 8 * f[8] + 9 * f[9] + 10 * f[10]

LEMMA WeightedSumsAdd ==
  ASSUME NEW f \in [Card -> Nat], NEW g \in [Card -> Nat], NEW sum \in [Card -> Nat],
         \A v \in Card : sum[v] = f[v] + g[v]
  PROVE  Weighted(sum) = Weighted(f) + Weighted(g)
BY DEF Weighted, Card

\* One more card adds its value to the hard value of the hand.
LEMMA HardValueOfAppend ==
  ASSUME NEW hand \in Seq(Card), NEW card \in Card
  PROVE  HardValue(Append(hand, card)) = HardValue(hand) + card
<1> DEFINE more == Append(hand, card)
           h == [v \in Card |-> Count(hand, v)]
           m == [v \in Card |-> Count(more, v)]
           n == [v \in Card |-> IF card = v THEN 1 ELSE 0]
<1> HIDE DEF more
<1>1. \A v \in Card : Count(hand, v) \in Nat
                      /\ Count(more, v) = Count(hand, v) + (IF card = v THEN 1 ELSE 0)
  BY CountOfAppend DEF more
<1>2. /\ h \in [Card -> Nat] /\ n \in [Card -> Nat] /\ m \in [Card -> Nat]
      /\ \A v \in Card : m[v] = h[v] + n[v]
  BY <1>1
<1>3. HardValue(hand) = Weighted(h) /\ HardValue(more) = Weighted(m)
  BY DEF HardValue, Weighted, Card
<1>4. Weighted(n) = card BY DEF Weighted, Card
<1> HIDE DEF h, m, n
<1>5. Weighted(m) = Weighted(h) + Weighted(n) BY <1>2, WeightedSumsAdd
<1>6. HardValue(more) = HardValue(hand) + card BY <1>3, <1>4, <1>5
<1> QED BY <1>6 DEF more

----------------------------------------------------------------------------
(* Few cards, and how many there can be.                                   *)

LEMMA NoCards == <<>> \in Seq(Card) /\ HardValue(<<>>) = 0
<1>1. ASSUME NEW v PROVE Count(<<>>, v) = 0
  <2>1. {i \in DOMAIN <<>> : <<>>[i] = v} = {} OBVIOUS
  <2> QED BY <2>1, FS_EmptySet DEF Count
<1> QED BY <1>1 DEF HardValue

LEMMA TwoCards ==
  ASSUME NEW a \in Card, NEW b \in Card
  PROVE  HardValue(<<a, b>>) = a + b
<1>1. <<a, b>> = Append(Append(<<>>, a), b) /\ Append(<<>>, a) \in Seq(Card)
  OBVIOUS
<1>2. HardValue(<<a, b>>) = (0 + a) + b
  BY <1>1, NoCards, HardValueOfAppend
<1> QED BY <1>2 DEF Card

\* Nobody is bust after the deal.
LEMMA TwoCardsAreNotBust ==
  ASSUME NEW a \in Card, NEW b \in Card
  PROVE  ~IsBust(<<a, b>>)
<1>1. a + b <= 20 /\ a + b \in Nat BY DEF Card
<1> QED BY <1>1, TwoCards DEF IsBust, Value

\* Every card counts one at least, so that a hand has no more cards than its
\* hard value.
Weighs(hand) == Len(hand) <= HardValue(hand)

LEMMA OneMoreWeighs ==
  ASSUME NEW hand \in Seq(Card), Weighs(hand), NEW card \in Card
  PROVE  Weighs(Append(hand, card))
<1>1. Len(Append(hand, card)) = Len(hand) + 1 /\ Len(hand) \in Nat
  OBVIOUS
<1>2. HardValue(hand) \in Nat /\ HardValue(Append(hand, card)) = HardValue(hand) + card
  BY ValueType, HardValueOfAppend
<1>3. card \in Nat /\ card >= 1
  BY DEF Card
<1> QED BY <1>1, <1>2, <1>3 DEF Weighs

LEMMA TwoCardsWeigh ==
  ASSUME NEW a \in Card, NEW b \in Card
  PROVE  Weighs(<<a, b>>)
<1>1. Len(<<a, b>>) = 2 OBVIOUS
<1>2. a + b >= 2 /\ a + b \in Nat BY DEF Card
<1> QED BY <1>1, <1>2, TwoCards DEF Weighs

\* A hand that is not bust, and one of a dealer who draws, are short.
LEMMA SmallHands ==
  ASSUME NEW hand \in Seq(Card), Weighs(hand)
  PROVE  /\ Len(hand) \in Nat
         /\ ~IsBust(hand) => Len(hand) <= 21
         /\ DealerDraws(hand) => Len(hand) <= 16
BY ValueType DEF Weighs, IsBust, DealerDraws
=============================================================================
