--------------------------- MODULE MCGameSession ---------------------------
(* GameSession on small instances. *)
EXTENDS GameSession

CONSTANTS a1, a2  \* ids a client makes up

\* A hit of version 1 with the first of these ids takes the id of the forfeit
\* of version 2; with the second, that of the heuristic hit of version 2.
TakesForfeit == ForfeitId(3)
TakesAutoHit == AutoHitId(2)

OwnIds == {a1, a2}
RaceIds == {a1, TakesForfeit}
WorkerIds == {TakesForfeit, TakesAutoHit}

\* Hits: 11, 14, 24 (bust); the dealer holds 16 and must draw.
LongDeck == <<5, 6, 6, 10, 3, 10, 2, 10, 5, 4, 9, 8>>
\* A natural against 16.
NaturalDeck == <<1, 9, 10, 7, 5, 5, 5, 5>>
\* A natural on both sides.
TwoNaturals == <<1, 1, 10, 10, 5, 5>>
\* A soft 17 for the dealer, a stiff hand for the player.
SoftDeck == <<10, 1, 2, 6, 9, 10, 5, 5, 5>>
\* Hits 6, 11, 21: the hint is to hit twice.
LowDeck == <<2, 10, 4, 7, 5, 10>>

OneDeck == {LongDeck}
MostDecks == {LongDeck, NaturalDeck, TwoNaturals, SoftDeck}
WorkerDecks == {LowDeck, NaturalDeck, TwoNaturals, SoftDeck}
============================================================================
