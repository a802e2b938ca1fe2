--------------------------- MODULE BlackjackRound ---------------------------
(***************************************************************************)
(* What a round promises, with no database, no versions and no concurrent  *)
(* callers: a dealer and one player at a table, one card at a time off one *)
(* deck.  GameSession is shown to implement it.                            *)
(***************************************************************************)
EXTENDS Hands

CONSTANT Decks

VARIABLES
  phase,    \* NONE, PLAYER, DEALER or OVER
  deck,     \* the shuffled deck
  mine,     \* the player's hand
  theirs,   \* the dealer's hand
  stood,    \* the player chose to stand
  result    \* NONE, WIN, LOSE or PUSH

vars == <<phase, deck, mine, theirs, stood, result>>

\* The card after those on the table.
TopCard == deck[Len(mine) + Len(theirs) + 1]
CardsLeft == Len(mine) + Len(theirs) < Len(deck)

Init ==
  /\ phase = "NONE" /\ deck = <<>>
  /\ mine = <<>> /\ theirs = <<>>
  /\ stood = FALSE /\ result = "NONE"

\* Four cards, two each, in turn; a natural ends the player's turn.
Deal ==
  /\ phase = "NONE"
  /\ \E d \in Decks :
       /\ deck' = d
       /\ mine' = <<d[1], d[3]>>
       /\ theirs' = <<d[2], d[4]>>
       /\ phase' = IF IsBlackjack(<<d[1], d[3]>>) THEN "DEALER" ELSE "PLAYER"
  /\ UNCHANGED <<stood, result>>

PlayerHits ==
  /\ phase = "PLAYER" /\ CardsLeft
  /\ mine' = Append(mine, TopCard)
  /\ phase' = IF IsBust(mine') \/ IsBlackjack(mine') THEN "DEALER" ELSE "PLAYER"
  /\ UNCHANGED <<deck, theirs, stood, result>>

PlayerStands ==
  /\ phase = "PLAYER"
  /\ phase' = "DEALER" /\ stood' = TRUE
  /\ UNCHANGED <<deck, mine, theirs, result>>

\* A player out of time loses, before the dealer has drawn.
PlayerForfeits ==
  /\ phase = "PLAYER"
  /\ phase' = "OVER" /\ stood' = TRUE /\ result' = "LOSE"
  /\ UNCHANGED <<deck, mine, theirs>>

DealerTakesCard ==
  /\ phase = "DEALER" /\ DealerDraws(theirs) /\ CardsLeft
  /\ theirs' = Append(theirs, TopCard)
  /\ UNCHANGED <<phase, deck, mine, stood, result>>

Settle ==
  /\ phase = "DEALER" /\ ~DealerDraws(theirs)
  /\ phase' = "OVER" /\ result' = ResolveRoundOutcome(mine, theirs)
  /\ UNCHANGED <<deck, mine, theirs, stood>>

Next ==
  Deal \/ PlayerHits \/ PlayerStands \/ PlayerForfeits \/ DealerTakesCard \/ Settle

Spec == Init /\ [][Next]_vars
============================================================================
