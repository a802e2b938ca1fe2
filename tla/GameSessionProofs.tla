------------------------- MODULE GameSessionProofs -------------------------
(***************************************************************************)
(* Theorems about GameSession, for every set of callers and every set of   *)
(* decks.                                                                  *)
(***************************************************************************)
EXTENDS GameSession, HandsProofs

----------------------------------------------------------------------------
(* Hands.                                                                  *)

LEMMA OutcomeType ==
  ASSUME NEW mine \in Seq(Card), NEW theirs \in Seq(Card)
  PROVE  ResolveRoundOutcome(mine, theirs) \in Outcome
<1>1. Value(mine) \in Nat /\ Value(theirs) \in Nat
  BY ValueType
<1> QED
  BY <1>1 DEF ResolveRoundOutcome, Outcome

----------------------------------------------------------------------------
(* Types.                                                                  *)

LEMMA CallerIsProc == Clients \subseteq Procs /\ Workers \subseteq Procs
BY DEF Procs

LEMMA EmptyRows ==
  /\ NoSession \in Session /\ NoPlayer \in Player /\ NoDealer \in Dealer
  /\ NoCall \in Calls
  /\ NoRows \in Rows
BY DEF NoSession, NoPlayer, NoDealer, NoCall, NoRows, Session, Player, Dealer,
       SessionStatus, PlayerStatus, Rows, Calls

LEMMA InitTypeOK == Init => TypeOK
<1> SUFFICES ASSUME Init PROVE TypeOK
  OBVIOUS
<1>1. RowsTypeOK
  BY EmptyRows DEF Init, RowsTypeOK
<1>2. CallsTypeOK
  BY EmptyRows DEF Init, CallsTypeOK
<1> QED
  BY <1>1, <1>2 DEF TypeOK

LEMMA ReturnType ==
  ASSUME CallsTypeOK, NEW p \in Procs, NEW verdict, Return(p, verdict),
         verdict \in {"ok", "replayed", "duplicate_action", "version_conflict", "rejected"}
  PROVE  CallsTypeOK'
BY EmptyRows DEF CallsTypeOK, Return

LEMMA CallType ==
  ASSUME CallsTypeOK, sess \in Session, NEW p \in Procs, NEW c, Call(p, c),
         c \in Calls
  PROVE  CallsTypeOK'
<1>1. [NoRows EXCEPT !.sess = sess] \in Rows
  BY EmptyRows DEF NoRows, Rows
<1> QED
  BY <1>1 DEF CallsTypeOK, Call

\* Every step is one of these; a caller's steps are taken by a process.
LEMMA NextCases ==
  ASSUME Next
  PROVE  \/ \E deck \in Decks : StartRoom(deck)
         \/ DeadlinePasses
         \/ \E c \in Clients, op \in {"HIT", "STAND"}, ver \in 1..sess.version, id \in ActionIds :
              Request(c, op, ver, id)
         \/ \E w \in Workers : TakeDueTurn(w) \/ TakeDealerTurn(w) \/ ReadSessionAgain(w)
         \/ \E p \in Procs : \/ ReadPlayer(p) \/ ReadDealer(p) \/ CheckAction(p)
                             \/ CommitHit(p) \/ CommitStand(p) \/ CommitForfeit(p)
                             \/ CommitDealerDraw(p) \/ CommitResult(p) \/ CommitFails(p)
                             \/ CallDies(p)
BY CallerIsProc DEF Next, ClientStep, WorkerStep, Continue, Commit

LEMMA VersionedType ==
  ASSUME NEW s \in Session
  PROVE  /\ Versioned(s) \in Session
         /\ Versioned(s).version = s.version + 1
         /\ Versioned(s).status = s.status /\ Versioned(s).draw = s.draw
         /\ Versioned(s).deck = s.deck
         /\ Versioned(s).deadline = s.deadline /\ Versioned(s).rematch = s.rematch
BY DEF Versioned, NextVersion, Session

LEMMA NextCardType ==
  ASSUME NEW s \in Session, CanDraw(s)
  PROVE  NextCard(s) \in Card
BY DEF CanDraw, NextCard, Session

LEMMA ReadingType ==
  ASSUME TypeOK, UNCHANGED <<rows, due>>, CallsTypeOK'
  PROVE  TypeOK'
BY DEF TypeOK, RowsTypeOK, rows

LEMMA NextTypeOK == TypeOK /\ [Next]_vars => TypeOK'
<1> SUFFICES ASSUME TypeOK, [Next]_vars PROVE TypeOK'
  OBVIOUS
<1>0. /\ RowsTypeOK /\ CallsTypeOK
      /\ sess \in Session /\ sess.version \in Nat
  BY DEF TypeOK, RowsTypeOK, Session
<1>1. ASSUME NEW deck \in Decks, StartRoom(deck) PROVE TypeOK'
  <2>1. deck \in Seq(Card) /\ Len(deck) >= 4
    BY DecksAssumption
  <2>2. <<deck[1], deck[3]>> \in Seq(Card) /\ <<deck[2], deck[4]>> \in Seq(Card)
    BY <2>1
  <2>3. sess' \in Session
    BY <1>1, <2>1 DEF StartRoom, InitialDeal, Session, SessionStatus
  <2>4. player' \in Player /\ dealer' \in Dealer
    BY <1>1, <2>2, EmptyRows DEF StartRoom, InitialDeal, Player, Dealer, PlayerStatus
  <2>5. RowsTypeOK'
    BY <1>0, <1>1, <2>3, <2>4 DEF StartRoom, RowsTypeOK
  <2>6. CallsTypeOK'
    BY <1>0, <1>1 DEF StartRoom, CallsTypeOK, local
  <2> QED
    BY <2>5, <2>6 DEF TypeOK
<1>2. CASE DeadlinePasses
  BY <1>2 DEF DeadlinePasses, TypeOK, RowsTypeOK, CallsTypeOK, rows, local
<1>3. ASSUME NEW c \in Clients, NEW op \in {"HIT", "STAND"}, NEW ver \in 1..sess.version,
             NEW id \in ActionIds, Request(c, op, ver, id)
      PROVE  TypeOK'
  <2>1. c \in Procs
    BY CallerIsProc
  <2>2. [op |-> op, ver |-> ver, action |-> id] \in Calls
    BY DEF Calls, Action
  <2>3. CallsTypeOK'
    BY <1>0, <1>3, <2>1, <2>2, CallType, ReturnType DEF Request
  <2> QED
    BY <1>3, <2>3, ReadingType DEF Request
<1>4. ASSUME NEW w \in Workers, TakeDueTurn(w) \/ TakeDealerTurn(w)
      PROVE  TypeOK'
  <2>1. w \in Procs
    BY CallerIsProc
  <2>2. PICK op \in {"TIMEOUT", "DEALER"} :
          Call(w, [op |-> op, ver |-> sess.version, action |-> NoAction])
    BY <1>4 DEF TakeDueTurn, TakeDealerTurn
  <2>3. [op |-> op, ver |-> sess.version, action |-> NoAction]
          \in Calls
    BY <1>0 DEF Calls
  <2>4. CallsTypeOK'
    BY <1>0, <2>1, <2>2, <2>3, CallType
  <2> QED
    BY <1>4, <2>4, ReadingType DEF TakeDueTurn, TakeDealerTurn
<1>5. ASSUME NEW w \in Workers, ReadSessionAgain(w) PROVE TypeOK'
  <2>1. w \in Procs
    BY CallerIsProc
  <2>2. call[w] \in Calls
    BY <1>0, <2>1 DEF CallsTypeOK
  <2>3. CallsTypeOK'
    BY <1>0, <1>5, <2>1, <2>2, CallType, ReturnType DEF ReadSessionAgain
  <2> QED
    BY <1>5, <2>3, ReadingType DEF ReadSessionAgain
<1>6. ASSUME NEW p \in Procs, ReadPlayer(p) PROVE TypeOK'
  <2>1. [got[p] EXCEPT !.player = player] \in Rows
    BY <1>0 DEF CallsTypeOK, RowsTypeOK, Rows
  <2>2. CallsTypeOK'
    BY <1>0, <1>6, <2>1 DEF ReadPlayer, CallsTypeOK
  <2> QED
    BY <1>6, <2>2, ReadingType DEF ReadPlayer
<1>7. ASSUME NEW p \in Procs, ReadDealer(p) PROVE TypeOK'
  <2>1. CASE HitsInstead(p)
    <3>1. call[p].ver \in Nat /\ AutoHitId(call[p].ver) \in Action
      BY <1>0 DEF CallsTypeOK, Calls, AutoHitId, Action
    <3>2. call' \in [Procs -> Calls]
      BY <1>0, <1>7, <2>1, <3>1 DEF ReadDealer, CallsTypeOK, Calls
    <3>3. CallsTypeOK'
      BY <1>0, <1>7, <2>1, <3>2, EmptyRows DEF ReadDealer, CallsTypeOK
    <3> QED
      BY <1>7, <3>3, ReadingType DEF ReadDealer
  <2>2. CASE ~HitsInstead(p)
    <3>0. [got[p] EXCEPT !.dealer = dealer] \in Rows
      BY <1>0 DEF CallsTypeOK, RowsTypeOK, Rows
    <3>1. CallsTypeOK'
      BY <1>0, <1>7, <2>2, <3>0 DEF ReadDealer, CallsTypeOK
    <3> QED
      BY <1>7, <3>1, ReadingType DEF ReadDealer
  <2> QED
    BY <2>1, <2>2
<1>8. ASSUME NEW p \in Procs, CheckAction(p) PROVE TypeOK'
  <2>1. CASE \E verdict \in {"rejected", "replayed", "duplicate_action"} : Return(p, verdict)
    BY <1>0, <2>1, ReturnType, <1>8, ReadingType DEF CheckAction
  <2>2. CASE pc' = [pc EXCEPT ![p] = "commit"] /\ UNCHANGED <<call, got, answer>>
    <3>1. CallsTypeOK'
      BY <1>0, <2>2 DEF CallsTypeOK
    <3> QED
      BY <1>8, <3>1, ReadingType DEF CheckAction
  <2> QED
    BY <1>8, <2>1, <2>2 DEF CheckAction
<1>9. ASSUME NEW p \in Procs, CommitFails(p) \/ CallDies(p) PROVE TypeOK'
  <2>1. CallsTypeOK'
    BY <1>0, <1>9, ReturnType DEF CommitFails, CallDies
  <2> QED
    BY <1>9, <2>1, ReadingType DEF CommitFails, CallDies
<1>10. ASSUME NEW p \in Procs
       PROVE  /\ got[p].sess \in Session /\ got[p].player \in Player /\ got[p].dealer \in Dealer
              /\ call[p].ver \in Nat
              /\ call[p].op \in {"HIT", "STAND"} => call[p].action \in Action
  BY <1>0 DEF CallsTypeOK, Rows, Calls
<1>11. ASSUME NEW p \in Procs, CommitHit(p) PROVE TypeOK'
  <2> DEFINE hand == Append(got[p].player.hand, NextCard(got[p].sess))
  <2>1. CallsTypeOK'
    BY <1>0, <1>11, ReturnType DEF CommitHit
  <2>2. NextCard(got[p].sess) \in Card
    BY <1>10, <1>11, NextCardType DEF CommitHit
  <2>3. hand \in Seq(Card)
    BY <1>10, <2>2 DEF Player
  <2>4. sess' \in Session
    <3> DEFINE s == got[p].sess
               over == IsBust(hand) \/ IsBlackjack(hand)
               status == IF over THEN "DEALER_TURN" ELSE s.status
    <3>1. sess' = [Versioned(s) EXCEPT !.draw = s.draw + 1, !.status = status, !.deadline = ~over]
      <4>1. Versioned(s).draw = s.draw /\ Versioned(s).status = s.status
        BY <1>10, VersionedType
      <4> QED
        BY <1>11, <4>1 DEF CommitHit, DeadlineAfterHit
    <3>2. status \in SessionStatus /\ (~over) \in BOOLEAN /\ s.draw + 1 \in Nat
      BY <1>10 DEF Session, SessionStatus
    <3>3. Versioned(s) \in Session
      BY <1>10, VersionedType
    <3> QED
      BY <3>1, <3>2, <3>3 DEF Session
  <2>5. player' \in Player
    BY <1>10, <1>11, <2>3 DEF CommitHit, Player, PlayerStatus
  <2>6. actionLog' \subseteq LogEntries
    <3>1. LogEntry(call[p].action, "HIT", call[p].ver) \in LogEntries
      BY <1>10, <1>11 DEF CommitHit, LogEntry, LogEntries
    <3> QED
      BY <1>0, <1>11, <3>1 DEF CommitHit, RowsTypeOK
  <2>7. RowsTypeOK'
    BY <1>0, <1>10, <1>11, <2>4, <2>5, <2>6 DEF CommitHit, RowsTypeOK, SetsRoomPlaying
  <2> QED
    BY <2>1, <2>7 DEF TypeOK
<1>12. ASSUME NEW p \in Procs, CommitStand(p) PROVE TypeOK'
  <2>1. CallsTypeOK'
    BY <1>0, <1>12, ReturnType DEF CommitStand
  <2>2. sess' \in Session
    <3>1. Versioned(got[p].sess) \in Session
      BY <1>10, VersionedType
    <3> QED
      BY <1>12, <3>1 DEF CommitStand, Session, SessionStatus
  <2>3. player' \in Player
    BY <1>10, <1>12 DEF CommitStand, Player, PlayerStatus
  <2>4. actionLog' \subseteq LogEntries
    <3>1. LogEntry(call[p].action, "STAND", call[p].ver) \in LogEntries
      BY <1>10, <1>12 DEF CommitStand, LogEntry, LogEntries
    <3> QED
      BY <1>0, <1>12, <3>1 DEF CommitStand, RowsTypeOK
  <2>5. RowsTypeOK'
    BY <1>0, <1>10, <1>12, <2>2, <2>3, <2>4 DEF CommitStand, RowsTypeOK, SetsRoomPlaying
  <2> QED
    BY <2>1, <2>5 DEF TypeOK
<1>13. ASSUME NEW p \in Procs, NEW outcome \in Outcome, NEW status \in PlayerStatus,
              Finish(p, outcome, status), actionLog' \subseteq LogEntries
       PROVE  TypeOK'
  <2>1. CallsTypeOK'
    BY <1>0, <1>13, ReturnType DEF Finish
  <2>2. sess' \in Session
    <3>1. Versioned(got[p].sess) \in Session
      BY <1>10, VersionedType
    <3> QED
      BY <1>13, <3>1 DEF Finish, Session, SessionStatus
  <2>3. Value(got[p].player.hand) \in Int /\ Value(got[p].dealer.hand) \in Int
    BY <1>10, ValueType DEF Player, Dealer
  <2>4. player' \in Player /\ dealer' \in Dealer
    BY <1>10, <1>13, <2>3 DEF Finish, Player, Dealer
  <2>5. roundLog' \subseteq [outcome : Outcome, player : Int, dealer : Int]
    BY <1>13, <2>3 DEF Finish
  <2>6. RowsTypeOK'
    BY <1>0, <1>13, <2>2, <2>4, <2>5 DEF Finish, RowsTypeOK, SetsRoomPlaying
  <2> QED
    BY <2>1, <2>6 DEF TypeOK
<1>14. ASSUME NEW p \in Procs, CommitForfeit(p) PROVE TypeOK'
  <2>1. got[p].sess.version + 1 \in Nat
    BY <1>10 DEF Session
  <2>2. LogEntry(ForfeitId(got[p].sess.version + 1), "TIME_FORFEIT", got[p].sess.version + 1)
          \in LogEntries
    BY <2>1 DEF LogEntry, LogEntries, ForfeitId, Action
  <2>3. actionLog' \subseteq LogEntries
    BY <1>0, <1>14, <2>2 DEF CommitForfeit, RowsTypeOK
  <2> QED
    BY <1>13, <1>14, <2>3 DEF CommitForfeit, Outcome, PlayerStatus
<1>15. ASSUME NEW p \in Procs, CommitDealerDraw(p) PROVE TypeOK'
  <2>1. CallsTypeOK'
    BY <1>0, <1>15, ReturnType DEF CommitDealerDraw
  <2>2. NextCard(got[p].sess) \in Card
    BY <1>10, <1>15, NextCardType DEF CommitDealerDraw
  <2>3. Append(got[p].dealer.hand, NextCard(got[p].sess)) \in Seq(Card)
    BY <1>10, <2>2 DEF Dealer
  <2>4. dealer' \in Dealer
    BY <1>10, <1>15, <2>3 DEF CommitDealerDraw, Dealer
  <2>5. sess' \in Session
    <3>1. Versioned(got[p].sess) \in Session
      BY <1>10, VersionedType
    <3> QED
      BY <1>15, <3>1 DEF CommitDealerDraw, Session
  <2>6. RowsTypeOK'
    BY <1>0, <1>15, <2>4, <2>5 DEF CommitDealerDraw, RowsTypeOK
  <2> QED
    BY <2>1, <2>6 DEF TypeOK
<1>16. ASSUME NEW p \in Procs, CommitResult(p) PROVE TypeOK'
  <2>1. ResolveRoundOutcome(got[p].player.hand, got[p].dealer.hand) \in Outcome
    BY <1>10, OutcomeType DEF Player, Dealer
  <2>2. got[p].player.status \in PlayerStatus
    BY <1>10 DEF Player
  <2>3. actionLog' \subseteq LogEntries
    BY <1>0, <1>16 DEF CommitResult, RowsTypeOK
  <2> QED
    BY <1>13, <1>16, <2>1, <2>2, <2>3 DEF CommitResult
<1>17. CASE UNCHANGED vars
  BY <1>17 DEF vars, TypeOK, RowsTypeOK, CallsTypeOK
<1> QED
  BY <1>1, <1>2, <1>3, <1>4, <1>5, <1>6, <1>7, <1>8, <1>9, <1>11, <1>12, <1>14, <1>15,
     <1>16, <1>17, NextCases

\* The rows and the calls in flight always have their types: no racing commit
\* writes a hand that is not made of cards, a version that is not a number or
\* a result without an outcome.
THEOREM TypeCorrect == Spec => []TypeOK
BY InitTypeOK, NextTypeOK, PTL DEF Spec
----------------------------------------------------------------------------
(* Snapshots.                                                              *)

Holding == {"player", "dealer", "log", "commit"}

\* What a call in flight knows of the rows it read: they are not from the
\* future, they are the current rows as long as their version is, and the
\* tests that let the call in held of them.
CallInv(p) ==
  /\ pc[p] = "session" => call[p].op = "HIT"
  /\ pc[p] \in Holding =>
       /\ got[p].sess.version <= sess.version
       /\ got[p].sess.version = sess.version =>
            /\ got[p].sess = sess
            /\ pc[p] # "player" => got[p].player = player
            /\ pc[p] \in {"log", "commit"} => got[p].dealer = dealer
            /\ call[p].op = "TIMEOUT" => due
       /\ call[p].op = "TIMEOUT" => got[p].sess.status = "PLAYER_TURN"
       /\ call[p].op = "DEALER" => got[p].sess.status = "DEALER_TURN"
       /\ pc[p] = "commit" /\ call[p].op \in {"HIT", "STAND"} => CanHitOrStand(p)

\* Before the round starts there is nothing to read.
NotStarted ==
  /\ room.current <=> sess.status # "NONE"
  /\ sess.status = "NONE" =>
       /\ sess = NoSession /\ player = NoPlayer /\ dealer = NoDealer
       /\ actionLog = {} /\ roundLog = {}

SnapshotInv == NotStarted /\ \A p \in Procs : CallInv(p)

LEMMA ReturnKeepsCallInv ==
  ASSUME TypeOK, \A q \in Procs : CallInv(q), UNCHANGED <<rows, due>>,
         NEW p \in Procs, NEW verdict, Return(p, verdict)
  PROVE  \A q \in Procs : CallInv(q)'
<1> SUFFICES ASSUME NEW q \in Procs PROVE CallInv(q)'
  OBVIOUS
<1>1. CASE q = p
  BY <1>1 DEF TypeOK, CallsTypeOK, Return, CallInv, Holding
<1>2. CASE q # p
  <2>1. pc'[q] = pc[q] /\ call'[q] = call[q] /\ got'[q] = got[q]
    BY <1>2 DEF TypeOK, CallsTypeOK, Return
  <2> QED
    BY <2>1 DEF CallInv, CanHitOrStand, rows
<1> QED
  BY <1>1, <1>2

LEMMA CallKeepsCallInv ==
  ASSUME TypeOK, \A q \in Procs : CallInv(q), UNCHANGED <<rows, due>>,
         NEW p \in Procs, NEW c, Call(p, c),
         c.op = "TIMEOUT" => due /\ sess.status = "PLAYER_TURN",
         c.op = "DEALER" => sess.status = "DEALER_TURN"
  PROVE  \A q \in Procs : CallInv(q)'
<1> SUFFICES ASSUME NEW q \in Procs PROVE CallInv(q)'
  OBVIOUS
<1>1. CASE q = p
  <2>1. pc'[q] = "player" /\ call'[q] = c /\ got'[q] = [NoRows EXCEPT !.sess = sess]
    BY <1>1 DEF TypeOK, CallsTypeOK, Call
  <2>2. got'[q].sess = sess
    BY <2>1 DEF NoRows
  <2>3. sess.version \in Nat
    BY DEF TypeOK, RowsTypeOK, Session
  <2> QED
    BY <2>1, <2>2, <2>3 DEF CallInv, rows
<1>2. CASE q # p
  <2>1. pc'[q] = pc[q] /\ call'[q] = call[q] /\ got'[q] = got[q]
    BY <1>2 DEF TypeOK, CallsTypeOK, Call
  <2> QED
    BY <2>1 DEF CallInv, CanHitOrStand, rows
<1> QED
  BY <1>1, <1>2

\* A commit ends the call that makes it and puts every other call's rows in
\* the past.
LEMMA CommitKeepsCallInv ==
  ASSUME TypeOK, \A q \in Procs : CallInv(q),
         sess'.version = sess.version + 1,
         NEW p \in Procs, NEW verdict, Return(p, verdict)
  PROVE  \A q \in Procs : CallInv(q)'
<1> SUFFICES ASSUME NEW q \in Procs PROVE CallInv(q)'
  OBVIOUS
<1>1. CASE q = p
  BY <1>1 DEF TypeOK, CallsTypeOK, Return, CallInv, Holding
<1>2. CASE q # p
  <2>1. pc'[q] = pc[q] /\ call'[q] = call[q] /\ got'[q] = got[q]
    BY <1>2 DEF TypeOK, CallsTypeOK, Return
  <2>2. sess.version \in Nat /\ got[q].sess.version \in Nat
    BY DEF TypeOK, RowsTypeOK, CallsTypeOK, Rows, Session
  <2> QED
    BY <2>1, <2>2 DEF CallInv, CanHitOrStand
<1> QED
  BY <1>1, <1>2

LEMMA InitSnapshotInv == Init => SnapshotInv
BY DEF Init, SnapshotInv, NotStarted, CallInv, Holding, NoSession

\* The commit that finds its version holds the current rows.
LEMMA CommitHoldsRows ==
  ASSUME \A q \in Procs : CallInv(q), NEW p \in Procs, pc[p] = "commit", VersionMatches(p)
  PROVE  /\ got[p].sess = sess /\ got[p].player = player /\ got[p].dealer = dealer
         /\ call[p].op = "TIMEOUT" => due /\ sess.status = "PLAYER_TURN"
         /\ call[p].op = "DEALER" => sess.status = "DEALER_TURN"
         /\ call[p].op \in {"HIT", "STAND"} =>
              sess.status = "PLAYER_TURN" /\ player.status = "ACTIVE"
BY DEF CallInv, VersionMatches, Holding, CanHitOrStand
\* Each commit, on the rows.
LEMMA CommitBumpsVersion ==
  ASSUME TypeOK, NotStarted, \A q \in Procs : CallInv(q), NEW p \in Procs,
         \/ CommitHit(p) \/ CommitStand(p) \/ CommitForfeit(p)
         \/ CommitDealerDraw(p) \/ CommitResult(p)
  PROVE  /\ sess'.version = sess.version + 1
         /\ sess.status # "NONE" /\ sess'.status # "NONE"
         /\ room'.current
         /\ \E verdict : Return(p, verdict)
<1>1. pc[p] = "commit" /\ VersionMatches(p) /\ call[p].op \in {"HIT", "STAND", "TIMEOUT", "DEALER"}
  BY DEF CommitHit, CommitStand, CommitForfeit, CommitDealerDraw, CommitResult
<1>2. got[p].sess = sess /\ sess.status # "NONE"
  BY <1>1, CommitHoldsRows
<1>3. /\ Versioned(sess).version = sess.version + 1 /\ Versioned(sess).status = sess.status
      /\ Versioned(sess) \in Session
  BY VersionedType DEF TypeOK, RowsTypeOK
<1>4. CASE CommitHit(p)
  BY <1>2, <1>3, <1>4 DEF CommitHit, SetsRoomPlaying, Session
<1>5. CASE CommitStand(p)
  BY <1>2, <1>3, <1>5 DEF CommitStand, SetsRoomPlaying, Session
<1>6. CASE CommitForfeit(p)
  BY <1>2, <1>3, <1>6 DEF CommitForfeit, Finish, SetsRoomPlaying, Session
<1>7. CASE CommitDealerDraw(p)
  BY <1>2, <1>3, <1>7 DEF CommitDealerDraw, NotStarted, Session
<1>8. CASE CommitResult(p)
  BY <1>2, <1>3, <1>8 DEF CommitResult, Finish, SetsRoomPlaying, Session
<1> QED
  BY <1>4, <1>5, <1>6, <1>7, <1>8

LEMMA NextSnapshotInv == TypeOK /\ SnapshotInv /\ [Next]_vars => SnapshotInv'
<1> SUFFICES ASSUME TypeOK, SnapshotInv, [Next]_vars PROVE SnapshotInv'
  OBVIOUS
<1>0. NotStarted /\ \A q \in Procs : CallInv(q)
  BY DEF SnapshotInv
<1>1. ASSUME NEW deck \in Decks, StartRoom(deck) PROVE SnapshotInv'
  <2>1. sess.version = 0 /\ sess'.version = 1
    BY <1>0, <1>1 DEF NotStarted, StartRoom, NoSession
  <2>2. NotStarted'
    BY <1>1 DEF NotStarted, StartRoom
  <2>3. ASSUME NEW q \in Procs PROVE CallInv(q)'
    <3>1. got[q].sess.version \in Nat
      BY DEF TypeOK, CallsTypeOK, Rows, Session
    <3> QED
      BY <1>0, <1>1, <2>1, <3>1 DEF StartRoom, CallInv, CanHitOrStand, local
  <2> QED
    BY <2>2, <2>3 DEF SnapshotInv
<1>2. CASE DeadlinePasses
  BY <1>0, <1>2 DEF DeadlinePasses, SnapshotInv, NotStarted, CallInv, CanHitOrStand, rows, local
<1>3. ASSUME UNCHANGED <<rows, due>>, \A q \in Procs : CallInv(q)' PROVE SnapshotInv'
  BY <1>0, <1>3 DEF SnapshotInv, NotStarted, rows
<1>4. ASSUME NEW c \in Clients, NEW op \in {"HIT", "STAND"}, NEW ver \in 1..sess.version,
             NEW id \in ActionIds, Request(c, op, ver, id)
      PROVE  SnapshotInv'
  <2>1. c \in Procs
    BY CallerIsProc
  <2>2. CASE ver = sess.version
    BY <1>0, <1>3, <1>4, <2>1, <2>2, CallKeepsCallInv DEF Request
  <2>3. CASE ver # sess.version
    BY <1>0, <1>3, <1>4, <2>1, <2>3, ReturnKeepsCallInv DEF Request
  <2> QED
    BY <2>2, <2>3
<1>5. ASSUME NEW w \in Workers, TakeDueTurn(w) \/ TakeDealerTurn(w) PROVE SnapshotInv'
  <2>1. w \in Procs
    BY CallerIsProc
  <2>2. CASE TakeDueTurn(w)
    BY <1>0, <1>3, <2>1, <2>2, CallKeepsCallInv DEF TakeDueTurn, TurnIsDue
  <2>3. CASE TakeDealerTurn(w)
    BY <1>0, <1>3, <2>1, <2>3, CallKeepsCallInv DEF TakeDealerTurn
  <2> QED
    BY <1>5, <2>2, <2>3
<1>6. ASSUME NEW w \in Workers, ReadSessionAgain(w) PROVE SnapshotInv'
  <2>1. w \in Procs
    BY CallerIsProc
  <2>2. call[w].op = "HIT"
    BY <1>0, <1>6, <2>1 DEF ReadSessionAgain, CallInv
  <2>3. CASE call[w].ver = sess.version
    BY <1>0, <1>3, <1>6, <2>1, <2>2, <2>3, CallKeepsCallInv DEF ReadSessionAgain
  <2>4. CASE call[w].ver # sess.version
    BY <1>0, <1>3, <1>6, <2>1, <2>4, ReturnKeepsCallInv DEF ReadSessionAgain
  <2> QED
    BY <2>3, <2>4
<1>7. ASSUME NEW p \in Procs, ReadPlayer(p) PROVE SnapshotInv'
  <2> SUFFICES ASSUME NEW q \in Procs PROVE CallInv(q)'
    BY <1>3, <1>7 DEF ReadPlayer
  <2>1. CASE q = p
    BY <1>0, <1>7, <2>1 DEF ReadPlayer, TypeOK, CallsTypeOK, Rows, CallInv, Holding, rows
  <2>2. CASE q # p
    <3>1. pc'[q] = pc[q] /\ call'[q] = call[q] /\ got'[q] = got[q]
      BY <1>7, <2>2 DEF ReadPlayer, TypeOK, CallsTypeOK
    <3> QED
      BY <1>0, <1>7, <3>1 DEF ReadPlayer, CallInv, CanHitOrStand, rows
  <2> QED
    BY <2>1, <2>2
<1>8. ASSUME NEW p \in Procs, ReadDealer(p) PROVE SnapshotInv'
  <2> SUFFICES ASSUME NEW q \in Procs PROVE CallInv(q)'
    BY <1>3, <1>8 DEF ReadDealer
  <2>1. CASE q = p
    <3>1. CASE HitsInstead(p)
      BY <1>8, <2>1, <3>1 DEF ReadDealer, TypeOK, CallsTypeOK, CallInv, Holding
    <3>2. CASE ~HitsInstead(p)
      BY <1>0, <1>8, <2>1, <3>2 DEF ReadDealer, TypeOK, CallsTypeOK, Rows, CallInv, Holding, rows
    <3> QED
      BY <3>1, <3>2
  <2>2. CASE q # p
    <3>1. pc'[q] = pc[q] /\ call'[q] = call[q] /\ got'[q] = got[q]
      BY <1>8, <2>2 DEF ReadDealer, TypeOK, CallsTypeOK
    <3> QED
      BY <1>0, <1>8, <3>1 DEF ReadDealer, CallInv, CanHitOrStand, rows
  <2> QED
    BY <2>1, <2>2
<1>9. ASSUME NEW p \in Procs, CheckAction(p) PROVE SnapshotInv'
  <2>1. CASE \E verdict : Return(p, verdict)
    BY <1>0, <1>3, <1>9, <2>1, ReturnKeepsCallInv DEF CheckAction
  <2>2. CASE /\ CanHitOrStand(p)
             /\ pc' = [pc EXCEPT ![p] = "commit"] /\ UNCHANGED <<call, got, answer>>
    <3> SUFFICES ASSUME NEW q \in Procs PROVE CallInv(q)'
      BY <1>3, <1>9 DEF CheckAction
    <3> QED
      BY <1>0, <1>9, <2>2 DEF CheckAction, TypeOK, CallsTypeOK, CallInv, Holding,
                              CanHitOrStand, rows
  <2> QED
    BY <1>9, <2>1, <2>2 DEF CheckAction
<1>10. ASSUME NEW p \in Procs, CommitFails(p) \/ CallDies(p) PROVE SnapshotInv'
  BY <1>0, <1>3, <1>10, ReturnKeepsCallInv DEF CommitFails, CallDies
<1>11. ASSUME NEW p \in Procs,
              \/ CommitHit(p) \/ CommitStand(p) \/ CommitForfeit(p)
              \/ CommitDealerDraw(p) \/ CommitResult(p)
       PROVE  SnapshotInv'
  <2>1. /\ sess'.version = sess.version + 1 /\ sess'.status # "NONE" /\ room'.current
        /\ \E verdict : Return(p, verdict)
    BY <1>0, <1>11, CommitBumpsVersion
  <2>2. \A q \in Procs : CallInv(q)'
    BY <1>0, <2>1, CommitKeepsCallInv
  <2> QED
    BY <2>1, <2>2 DEF SnapshotInv, NotStarted
<1>12. CASE UNCHANGED vars
  BY <1>0, <1>12 DEF vars, SnapshotInv, NotStarted, CallInv, CanHitOrStand
<1> QED
  BY <1>1, <1>2, <1>4, <1>5, <1>6, <1>7, <1>8, <1>9, <1>10, <1>11, <1>12, NextCases

\* A call that still holds the current version holds the current rows, though
\* it read them one after another with no lock (playerTurn, playerStand and
\* dealerTurn read the session first, which is what makes this so).
THEOREM SnapshotsConsistent == Spec => []SnapshotIsConsistent
<1>1. Init => TypeOK /\ SnapshotInv
  BY InitTypeOK, InitSnapshotInv
<1>2. TypeOK /\ SnapshotInv /\ [Next]_vars => (TypeOK /\ SnapshotInv)'
  BY NextTypeOK, NextSnapshotInv
<1>3. TypeOK /\ SnapshotInv => SnapshotIsConsistent
  BY DEF SnapshotInv, CallInv, Holding, SnapshotIsConsistent
<1> QED
  BY <1>1, <1>2, <1>3, PTL DEF Spec

----------------------------------------------------------------------------
(* The round, step by step, on the rows themselves.                        *)

LEMMA HitOnRows ==
  ASSUME \A q \in Procs : CallInv(q), NEW p \in Procs, CommitHit(p)
  PROVE  LET hand == Append(player.hand, NextCard(sess))
             over == IsBust(hand) \/ IsBlackjack(hand)
         IN
         /\ sess.status = "PLAYER_TURN" /\ player.status = "ACTIVE" /\ CanDraw(sess)
         /\ sess' = [Versioned(sess) EXCEPT !.draw = @ + 1,
                                            !.status = IF over THEN "DEALER_TURN" ELSE @,
                                            !.deadline = ~over]
         /\ player' = [player EXCEPT !.hand = hand,
                                     !.status = IF IsBust(hand) THEN "BUST"
                                                ELSE IF over THEN "BLACKJACK" ELSE @]
         /\ dealer' = dealer /\ roundLog' = roundLog
         /\ actionLog' = actionLog \cup {LogEntry(call[p].action, "HIT", call[p].ver)}
<1>1. /\ got[p].sess = sess /\ got[p].player = player /\ got[p].dealer = dealer
      /\ sess.status = "PLAYER_TURN" /\ player.status = "ACTIVE"
  BY CommitHoldsRows DEF CommitHit
<1> QED
  BY <1>1 DEF CommitHit, DeadlineAfterHit

LEMMA StandOnRows ==
  ASSUME \A q \in Procs : CallInv(q), NEW p \in Procs, CommitStand(p)
  PROVE  /\ sess.status = "PLAYER_TURN" /\ player.status = "ACTIVE"
         /\ sess' = [Versioned(sess) EXCEPT !.status = "DEALER_TURN", !.deadline = FALSE]
         /\ player' = [player EXCEPT !.status = "STAND"]
         /\ dealer' = dealer /\ roundLog' = roundLog
         /\ actionLog' = actionLog \cup {LogEntry(call[p].action, "STAND", call[p].ver)}
<1>1. /\ got[p].sess = sess /\ got[p].player = player /\ got[p].dealer = dealer
      /\ sess.status = "PLAYER_TURN" /\ player.status = "ACTIVE"
  BY CommitHoldsRows DEF CommitStand
<1> QED
  BY <1>1 DEF CommitStand

\* What Finish writes when the rows are the current ones.
FinishOnRows(outcome, status) ==
  /\ sess' = [Versioned(sess) EXCEPT !.status = "RESETTING", !.deadline = FALSE,
                                     !.rematch = TRUE]
  /\ player' = [player EXCEPT !.status = status, !.outcome = outcome,
                              !.score = Value(player.hand)]
  /\ dealer' = [dealer EXCEPT !.hidden = FALSE, !.score = Value(dealer.hand)]
  /\ roundLog' = {[outcome |-> outcome, player |-> Value(player.hand),
                   dealer |-> Value(dealer.hand)]}

LEMMA ForfeitOnRows ==
  ASSUME \A q \in Procs : CallInv(q), NEW p \in Procs, CommitForfeit(p)
  PROVE  /\ sess.status = "PLAYER_TURN" /\ due
         /\ FinishOnRows("LOSE", "STAND")
         /\ actionLog' = actionLog \cup
              {LogEntry(ForfeitId(sess.version + 1), "TIME_FORFEIT", sess.version + 1)}
<1>1. /\ got[p].sess = sess /\ got[p].player = player /\ got[p].dealer = dealer
      /\ sess.status = "PLAYER_TURN" /\ due
  BY CommitHoldsRows DEF CommitForfeit
<1> QED
  BY <1>1 DEF CommitForfeit, Finish, FinishOnRows

LEMMA DealerDrawOnRows ==
  ASSUME \A q \in Procs : CallInv(q), NEW p \in Procs, CommitDealerDraw(p)
  PROVE  /\ sess.status = "DEALER_TURN" /\ DealerDraws(dealer.hand) /\ CanDraw(sess)
         /\ sess' = [Versioned(sess) EXCEPT !.draw = @ + 1]
         /\ dealer' = [dealer EXCEPT !.hand = Append(@, NextCard(sess))]
         /\ player' = player /\ actionLog' = actionLog /\ roundLog' = roundLog
<1>1. /\ got[p].sess = sess /\ got[p].dealer = dealer /\ sess.status = "DEALER_TURN"
  BY CommitHoldsRows DEF CommitDealerDraw
<1> QED
  BY <1>1 DEF CommitDealerDraw

LEMMA ResultOnRows ==
  ASSUME \A q \in Procs : CallInv(q), NEW p \in Procs, CommitResult(p)
  PROVE  /\ sess.status = "DEALER_TURN" /\ ~DealerDraws(dealer.hand)
         /\ FinishOnRows(ResolveRoundOutcome(player.hand, dealer.hand), player.status)
         /\ actionLog' = actionLog
<1>1. /\ got[p].sess = sess /\ got[p].player = player /\ got[p].dealer = dealer
      /\ sess.status = "DEALER_TURN"
  BY CommitHoldsRows DEF CommitResult
<1> QED
  BY <1>1 DEF CommitResult, Finish, FinishOnRows

\* Every step that is not one of these leaves the rows of the round alone.
LEMMA RoundStep ==
  ASSUME [Next]_vars
  PROVE  \/ UNCHANGED <<room, round>>
         \/ \E deck \in Decks : StartRoom(deck)
         \/ \E p \in Procs : \/ CommitHit(p) \/ CommitStand(p) \/ CommitForfeit(p)
                             \/ CommitDealerDraw(p) \/ CommitResult(p)
<1>1. CASE UNCHANGED vars
  BY <1>1 DEF vars, round
<1>2. CASE Next
  BY <1>2, NextCases DEF DeadlinePasses, Request, TakeDueTurn, TakeDealerTurn, ReadSessionAgain,
     ReadPlayer, ReadDealer, CheckAction, CommitFails, CallDies, rows, round
<1> QED
  BY <1>1, <1>2

----------------------------------------------------------------------------
(* The cards.                                                              *)

\* The inductive form: the dealer holds two cards until the player is done.
DeckInv ==
  /\ CardsComeFromDeck
  /\ sess.status = "PLAYER_TURN" => Len(dealer.hand) = 2

LEMMA InitDeckInv == Init => DeckInv
BY DEF Init, DeckInv, CardsComeFromDeck, NoSession

LEMMA OneMore ==
  ASSUME NEW a \in Nat, NEW b \in Nat, NEW c \in Nat, NEW n \in Nat, a + b = c, c < n
  PROVE  a + (b + 1) = c + 1 /\ c + 1 <= n
OBVIOUS

LEMMA NextDeckInv ==
  ASSUME TypeOK, SnapshotInv, DeckInv, [Next]_vars
  PROVE  DeckInv'
<1>0. /\ \A q \in Procs : CallInv(q)
      /\ sess \in Session /\ player \in Player /\ dealer \in Dealer
      /\ player.hand \in Seq(Card) /\ dealer.hand \in Seq(Card) /\ sess.deck \in Seq(Card)
      /\ sess.draw \in Nat
  BY DEF SnapshotInv, TypeOK, RowsTypeOK, Session, Player, Dealer
<1>v. /\ Versioned(sess) \in Session
      /\ Versioned(sess).status = sess.status /\ Versioned(sess).draw = sess.draw
      /\ Versioned(sess).deck = sess.deck
  BY <1>0, VersionedType
<1>1. CASE UNCHANGED <<room, round>>
  BY <1>1 DEF round, DeckInv, CardsComeFromDeck
<1>2. ASSUME NEW deck \in Decks, StartRoom(deck) PROVE DeckInv'
  <2>1. deck \in Seq(Card) /\ Len(deck) >= 4
    BY DecksAssumption
  <2>2. player'.hand = <<deck[1], deck[3]>> /\ dealer'.hand = <<deck[2], deck[4]>>
    BY <1>2 DEF StartRoom, InitialDeal, NoPlayer, NoDealer
  <2>3. sess'.deck = deck /\ sess'.draw = 4
    BY <1>2 DEF StartRoom, InitialDeal
  <2> QED
    BY <2>1, <2>2, <2>3 DEF DeckInv, CardsComeFromDeck
<1>3. ASSUME NEW p \in Procs, CommitHit(p) PROVE DeckInv'
  <2> DEFINE card == NextCard(sess)
  <2>1. /\ sess.status = "PLAYER_TURN" /\ CanDraw(sess)
        /\ player'.hand = Append(player.hand, card) /\ dealer' = dealer
        /\ sess'.draw = sess.draw + 1 /\ sess'.deck = sess.deck
    <3> DEFINE over == IsBust(Append(player.hand, card)) \/ IsBlackjack(Append(player.hand, card))
    <3>1. sess' = [Versioned(sess) EXCEPT !.draw = @ + 1,
                                          !.status = IF over THEN "DEALER_TURN" ELSE @,
                                          !.deadline = ~over]
      BY <1>0, <1>3, HitOnRows
    <3>2. sess'.draw = sess.draw + 1 /\ sess'.deck = sess.deck
      BY <1>v, <3>1 DEF Session
    <3>3. player'.hand = Append(player.hand, card)
      BY <1>0, <1>3, HitOnRows DEF Player
    <3> QED
      BY <1>0, <1>3, <3>2, <3>3, HitOnRows
  <2>2. /\ Len(dealer.hand) = 2 /\ Len(player.hand) + 2 = sess.draw
        /\ sess.draw < Len(sess.deck) /\ card = sess.deck[sess.draw + 1]
    BY <2>1 DEF DeckInv, CardsComeFromDeck, CanDraw, NextCard
  <2>3. card \in Card
    BY <1>0, <2>1, NextCardType
  <2>4. /\ Len(player'.hand) = Len(player.hand) + 1
        /\ player'.hand[Len(player.hand) + 1] = card
        /\ \A i \in 1..Len(player.hand) : player'.hand[i] = player.hand[i]
    BY <1>0, <2>1, <2>3
  <2>5. /\ Len(player.hand) \in Nat /\ Len(player.hand) >= 2 /\ Len(sess.deck) \in Nat
        /\ \A i \in 3..Len(player.hand) : player.hand[i] = sess.deck[i + 2]
    BY <1>0, <2>1 DEF DeckInv, CardsComeFromDeck
  <2> HIDE DEF card
  <2>6. /\ (Len(player.hand) + 1) + 2 = sess.draw + 1 /\ sess.draw + 1 <= Len(sess.deck)
    <3> DEFINE a == Len(player.hand)
               c == sess.draw
               n == Len(sess.deck)
    <3>1. a \in Nat /\ c \in Nat /\ n \in Nat
      BY <1>0, <2>5
    <3>2. a + 2 = c /\ c < n
      BY <2>2
    <3> HIDE DEF a, c, n
    <3>3. (a + 1) + 2 = c + 1 /\ c + 1 <= n
      BY <3>1, <3>2
    <3> QED
      BY <3>3 DEF a, c, n
  <2>7. ASSUME NEW i \in 3..Len(player'.hand)
        PROVE  player'.hand[i] = sess.deck[i + 2]
    <3>1. CASE i \in 3..Len(player.hand)
      <4>1. i \in 1..Len(player.hand)
        BY <3>1, <2>5
      <4> QED
        BY <3>1, <4>1, <2>4, <2>5
    <3>2. CASE i = Len(player.hand) + 1
      <4>1. player'.hand[i] = card /\ card = sess.deck[sess.draw + 1]
        BY <2>2, <2>4, <3>2
      <4> QED
        BY <2>6, <3>2, <4>1
    <3> QED
      BY <2>4, <2>5, <3>1, <3>2
  <2>8. /\ player'.hand[1] = sess.deck[1] /\ player'.hand[2] = sess.deck[3]
    <3>1. player.hand[1] = sess.deck[1] /\ player.hand[2] = sess.deck[3]
      BY <2>1 DEF DeckInv, CardsComeFromDeck
    <3> QED
      BY <2>4, <2>5, <3>1
  <2>9. Len(player'.hand) + Len(dealer'.hand) = sess'.draw /\ sess'.draw <= Len(sess'.deck)
    <3>1. Len(dealer'.hand) = 2
      BY <2>1, <2>2
    <3>2. Len(player'.hand) + 2 = sess.draw + 1
      BY <2>4, <2>6
    <3>3. sess'.draw = sess.draw + 1 /\ sess'.deck = sess.deck
      BY <2>1
    <3> QED
      BY <2>6, <3>1, <3>2, <3>3
  <2>10. Len(player'.hand) >= 2 /\ Len(dealer'.hand) = 2
    BY <2>1, <2>2, <2>4, <2>5
  <2>11. /\ dealer'.hand[1] = sess.deck[2] /\ dealer'.hand[2] = sess.deck[4]
    BY <2>1 DEF DeckInv, CardsComeFromDeck
  <2>12. \A i \in 3..Len(dealer'.hand) : dealer'.hand[i] = sess.deck[Len(player'.hand) + i]
    BY <2>10
  <2>13. \A i \in 3..Len(player'.hand) : player'.hand[i] = sess.deck[i + 2]
    BY <2>7
  <2>14. sess'.deck = sess.deck
    BY <2>1
  <2>15. CardsComeFromDeck'
    <3>1. Len(player'.hand) >= 2 /\ Len(dealer'.hand) >= 2
      BY <2>10
    <3> QED
      BY <2>8, <2>9, <2>11, <2>12, <2>13, <2>14, <3>1 DEF CardsComeFromDeck
  <2> QED
    BY <2>10, <2>15 DEF DeckInv
<1>4. ASSUME NEW p \in Procs, CommitStand(p) PROVE DeckInv'
  <2>1. /\ player'.hand = player.hand /\ dealer' = dealer
        /\ sess'.draw = sess.draw /\ sess'.deck = sess.deck /\ sess.status # "NONE"
        /\ sess'.status = "DEALER_TURN"
    BY <1>0, <1>4, <1>v, StandOnRows DEF Session, Player
  <2> QED
    BY <2>1 DEF DeckInv, CardsComeFromDeck
<1>5. ASSUME NEW p \in Procs, CommitForfeit(p) \/ CommitResult(p) PROVE DeckInv'
  <2>1. /\ sess.status # "NONE"
        /\ \E outcome, status : FinishOnRows(outcome, status)
    <3>1. CASE CommitForfeit(p)
      BY <1>0, <3>1, ForfeitOnRows
    <3>2. CASE CommitResult(p)
      BY <1>0, <3>2, ResultOnRows
    <3> QED
      BY <1>5, <3>1, <3>2
  <2>2. PICK outcome, status : FinishOnRows(outcome, status)
    BY <2>1
  <2>3. /\ player'.hand = player.hand /\ dealer'.hand = dealer.hand
    BY <1>0, <2>2 DEF FinishOnRows, Player, Dealer
  <2>4. /\ sess'.draw = sess.draw /\ sess'.deck = sess.deck
        /\ sess'.status = "RESETTING"
    BY <1>v, <2>2 DEF FinishOnRows, Session
  <2> QED
    BY <2>1, <2>3, <2>4 DEF DeckInv, CardsComeFromDeck
<1>6. ASSUME NEW p \in Procs, CommitDealerDraw(p) PROVE DeckInv'
  <2> DEFINE card == NextCard(sess)
  <2>1. /\ sess.status = "DEALER_TURN" /\ CanDraw(sess)
        /\ dealer'.hand = Append(dealer.hand, card) /\ player' = player
        /\ sess'.draw = sess.draw + 1 /\ sess'.deck = sess.deck
        /\ sess'.status = "DEALER_TURN"
    BY <1>0, <1>6, <1>v, DealerDrawOnRows DEF Session, Dealer
  <2>2. /\ Len(player.hand) + Len(dealer.hand) = sess.draw
        /\ sess.draw < Len(sess.deck) /\ card = sess.deck[sess.draw + 1]
    BY <2>1 DEF DeckInv, CardsComeFromDeck, CanDraw, NextCard
  <2>3. card \in Card
    BY <1>0, <2>1, NextCardType
  <2>4. /\ Len(dealer'.hand) = Len(dealer.hand) + 1
        /\ dealer'.hand[Len(dealer.hand) + 1] = card
        /\ \A i \in 1..Len(dealer.hand) : dealer'.hand[i] = dealer.hand[i]
    BY <1>0, <2>1, <2>3
  <2>5. /\ Len(player.hand) \in Nat /\ Len(dealer.hand) \in Nat
        /\ sess.draw \in Nat /\ Len(sess.deck) \in Nat
        /\ Len(player.hand) >= 2 /\ Len(dealer.hand) >= 2
        /\ \A i \in 3..Len(dealer.hand) : dealer.hand[i] = sess.deck[Len(player.hand) + i]
    BY <1>0, <2>1 DEF DeckInv, CardsComeFromDeck
  <2> HIDE DEF card
  <2>6. /\ Len(player.hand) + (Len(dealer.hand) + 1) = sess.draw + 1
        /\ sess.draw + 1 <= Len(sess.deck)
    <3> DEFINE a == Len(player.hand)
               b == Len(dealer.hand)
               c == sess.draw
               n == Len(sess.deck)
    <3>1. a \in Nat /\ b \in Nat /\ c \in Nat /\ n \in Nat
      BY <2>5
    <3>2. a + b = c /\ c < n
      BY <2>2
    <3> HIDE DEF a, b, c, n
    <3>3. a + (b + 1) = c + 1 /\ c + 1 <= n
      BY <3>1, <3>2, OneMore
    <3> QED
      BY <3>3 DEF a, b, c, n
  <2>7. ASSUME NEW i \in 3..Len(dealer'.hand)
        PROVE  dealer'.hand[i] = sess.deck[Len(player.hand) + i]
    <3>1. CASE i \in 3..Len(dealer.hand)
      <4>1. i \in 1..Len(dealer.hand)
        BY <3>1, <2>5
      <4> QED
        BY <3>1, <4>1, <2>4, <2>5
    <3>2. CASE i = Len(dealer.hand) + 1
      <4>1. dealer'.hand[i] = card /\ card = sess.deck[sess.draw + 1]
        BY <2>2, <2>4, <3>2
      <4> QED
        BY <2>6, <3>2, <4>1
    <3> QED
      BY <2>4, <2>5, <3>1, <3>2
  <2>8. /\ dealer'.hand[1] = sess.deck[2] /\ dealer'.hand[2] = sess.deck[4]
    BY <2>1, <2>4, <2>5 DEF DeckInv, CardsComeFromDeck
  <2>9. Len(player.hand) + Len(dealer'.hand) = sess'.draw /\ sess'.draw <= Len(sess'.deck)
    <3>1. sess'.draw = sess.draw + 1 /\ sess'.deck = sess.deck
      BY <2>1
    <3> QED
      BY <2>4, <2>6, <3>1
  <2>10. \A i \in 3..Len(player.hand) : player.hand[i] = sess.deck[i + 2]
    BY <2>1 DEF DeckInv, CardsComeFromDeck
  <2>11. Len(player'.hand) = Len(player.hand) /\ Len(dealer'.hand) >= 2
    BY <2>1, <2>4, <2>5
  <2>12. /\ player'.hand[1] = sess.deck[1] /\ player'.hand[2] = sess.deck[3]
    BY <2>1 DEF DeckInv, CardsComeFromDeck
  <2>13. CardsComeFromDeck'
    BY <2>1, <2>5, <2>7, <2>8, <2>9, <2>10, <2>11, <2>12 DEF CardsComeFromDeck
  <2> QED
    BY <2>1, <2>13 DEF DeckInv
<1> QED
  BY <1>1, <1>2, <1>3, <1>4, <1>5, <1>6, RoundStep

\* However hits, stands, time-outs and dealer steps of any number of callers
\* interleave, no card is dealt twice, skipped or lost.
THEOREM CardsFromDeck == Spec => []CardsComeFromDeck
<1>1. Init => TypeOK /\ SnapshotInv /\ DeckInv
  BY InitTypeOK, InitSnapshotInv, InitDeckInv
<1>2. (TypeOK /\ SnapshotInv /\ DeckInv) /\ [Next]_vars => (TypeOK /\ SnapshotInv /\ DeckInv)'
  BY NextTypeOK, NextSnapshotInv, NextDeckInv
<1>3. DeckInv => CardsComeFromDeck
  BY DEF DeckInv
<1> QED
  BY <1>1, <1>2, <1>3, PTL DEF Spec

----------------------------------------------------------------------------
(* What a step may never do.                                               *)

\* A finished round is final: no late hit, stand, time-out or dealer step of
\* any caller changes its rows (each commits under the version it read, and
\* the result moved it).
THEOREM ResultsAreFinal == Spec => ResultIsFinal
<1>1. TypeOK /\ SnapshotInv /\ [Next]_vars => (sess.status = "RESETTING" => UNCHANGED round)
  <2> SUFFICES ASSUME TypeOK, SnapshotInv, [Next]_vars, sess.status = "RESETTING"
               PROVE  UNCHANGED round
    OBVIOUS
  <2>0. \A q \in Procs : CallInv(q)
    BY DEF SnapshotInv
  <2>1. ASSUME NEW deck \in Decks, StartRoom(deck) PROVE FALSE
    BY <2>1 DEF StartRoom, SnapshotInv, NotStarted
  <2>2. ASSUME NEW p \in Procs,
               \/ CommitHit(p) \/ CommitStand(p) \/ CommitForfeit(p)
               \/ CommitDealerDraw(p) \/ CommitResult(p)
        PROVE  FALSE
    BY <2>0, <2>2, HitOnRows, StandOnRows, ForfeitOnRows, DealerDrawOnRows, ResultOnRows
  <2> QED
    BY <2>1, <2>2, RoundStep
<1>2. Init => TypeOK /\ SnapshotInv
  BY InitTypeOK, InitSnapshotInv
<1>3. TypeOK /\ SnapshotInv /\ [Next]_vars => (TypeOK /\ SnapshotInv)'
  BY NextTypeOK, NextSnapshotInv
<1> QED
  BY <1>1, <1>2, <1>3, PTL DEF Spec, ResultIsFinal

\* Two states of a round never share a version, which is what makes the
\* version a client or a worker sends back a name for what it saw.
THEOREM VersionsNameStates == Spec => VersionNamesState
<1>1. TypeOK /\ SnapshotInv /\ [Next]_vars
        => (sess.status # "NONE" /\ round' # round => sess'.version = sess.version + 1)
  <2> SUFFICES ASSUME TypeOK, SnapshotInv, [Next]_vars, sess.status # "NONE", round' # round
               PROVE  sess'.version = sess.version + 1
    OBVIOUS
  <2>0. NotStarted /\ \A q \in Procs : CallInv(q)
    BY DEF SnapshotInv
  <2>1. ASSUME NEW deck \in Decks, StartRoom(deck) PROVE FALSE
    BY <2>1 DEF StartRoom, SnapshotInv, NotStarted
  <2>2. ASSUME NEW p \in Procs,
               \/ CommitHit(p) \/ CommitStand(p) \/ CommitForfeit(p)
               \/ CommitDealerDraw(p) \/ CommitResult(p)
        PROVE  sess'.version = sess.version + 1
    BY <2>0, <2>2, CommitBumpsVersion
  <2> QED
    BY <2>1, <2>2, RoundStep
<1>2. Init => TypeOK /\ SnapshotInv
  BY InitTypeOK, InitSnapshotInv
<1>3. TypeOK /\ SnapshotInv /\ [Next]_vars => (TypeOK /\ SnapshotInv)'
  BY NextTypeOK, NextSnapshotInv
<1> QED
  BY <1>1, <1>2, <1>3, PTL DEF Spec, VersionNamesState

\* The worker ends a turn only while its current deadline has passed: a hit
\* that commits after the worker read the session renews the deadline, and
\* the forfeit then finds another version.
THEOREM ForfeitsAreOverdue == Spec => ForfeitOnlyWhenOverdue
<1>1. TypeOK /\ SnapshotInv /\ [Next]_vars
        => (Forfeited' /\ ~Forfeited => due /\ sess.status = "PLAYER_TURN")
  <2> SUFFICES ASSUME TypeOK, SnapshotInv, [Next]_vars, Forfeited', ~Forfeited
               PROVE  due /\ sess.status = "PLAYER_TURN"
    OBVIOUS
  <2>0. \A q \in Procs : CallInv(q)
    BY DEF SnapshotInv
  <2>1. ASSUME actionLog' = actionLog PROVE FALSE
    BY <2>1 DEF Forfeited
  <2>2. ASSUME NEW deck \in Decks, StartRoom(deck) PROVE FALSE
    BY <2>1, <2>2 DEF StartRoom
  <2>3. ASSUME NEW p \in Procs, CommitHit(p) PROVE FALSE
    BY <2>0, <2>3, HitOnRows DEF Forfeited, LogEntry
  <2>4. ASSUME NEW p \in Procs, CommitStand(p) PROVE FALSE
    BY <2>0, <2>4, StandOnRows DEF Forfeited, LogEntry
  <2>5. ASSUME NEW p \in Procs, CommitDealerDraw(p) \/ CommitResult(p) PROVE FALSE
    BY <2>0, <2>1, <2>5, DealerDrawOnRows, ResultOnRows
  <2>6. ASSUME NEW p \in Procs, CommitForfeit(p)
        PROVE  due /\ sess.status = "PLAYER_TURN"
    BY <2>0, <2>6, ForfeitOnRows
  <2> QED
    BY <2>1, <2>2, <2>3, <2>4, <2>5, <2>6, RoundStep DEF round
<1>2. Init => TypeOK /\ SnapshotInv
  BY InitTypeOK, InitSnapshotInv
<1>3. TypeOK /\ SnapshotInv /\ [Next]_vars => (TypeOK /\ SnapshotInv)'
  BY NextTypeOK, NextSnapshotInv
<1> QED
  BY <1>1, <1>2, <1>3, PTL DEF Spec, ForfeitOnlyWhenOverdue

----------------------------------------------------------------------------
(* The result.                                                             *)

\* The inductive form of ResultMatchesTable and of what it needs of
\* PhasesAgree.
ResultInv ==
  /\ ResultMatchesTable
  /\ sess.status = "PLAYER_TURN" => Len(dealer.hand) = 2
  /\ Forfeited => sess.status = "RESETTING"

LEMMA InitResultInv == Init => ResultInv
BY DEF Init, ResultInv, ResultMatchesTable, Forfeited, NoSession, NoPlayer, NoDealer

\* A finished round by its fields.
LEMMA FinishFields ==
  ASSUME NEW outcome, NEW status, TypeOK, FinishOnRows(outcome, status)
  PROVE  /\ sess'.status = "RESETTING"
         /\ player'.hand = player.hand /\ dealer'.hand = dealer.hand
         /\ player'.outcome = outcome /\ player'.status = status
         /\ player'.score = Value(player.hand) /\ dealer'.score = Value(dealer.hand)
         /\ ~dealer'.hidden
<1>1. Versioned(sess) \in Session /\ player \in Player /\ dealer \in Dealer
  BY VersionedType DEF TypeOK, RowsTypeOK
<1>2. sess'.status = "RESETTING"
  BY <1>1 DEF FinishOnRows, Session
<1>3. /\ player'.hand = player.hand /\ player'.outcome = outcome
      /\ player'.status = status /\ player'.score = Value(player.hand)
  BY <1>1 DEF FinishOnRows, Player
<1>4. dealer'.hand = dealer.hand /\ dealer'.score = Value(dealer.hand) /\ ~dealer'.hidden
  BY <1>1 DEF FinishOnRows, Dealer
<1> QED
  BY <1>2, <1>3, <1>4

LEMMA NextResultInv ==
  ASSUME TypeOK, SnapshotInv, ResultInv, [Next]_vars
  PROVE  ResultInv'
<1>0. /\ \A q \in Procs : CallInv(q)
      /\ Versioned(sess) \in Session /\ Versioned(sess).status = sess.status
      /\ player \in Player /\ dealer \in Dealer
  BY VersionedType DEF SnapshotInv, TypeOK, RowsTypeOK
<1>1. CASE UNCHANGED <<room, round>>
  BY <1>1 DEF round, ResultInv, ResultMatchesTable, Forfeited
<1>2. ASSUME NEW deck \in Decks, StartRoom(deck) PROVE ResultInv'
  <2>1. sess.status = "NONE"
    BY <1>2 DEF StartRoom, SnapshotInv, NotStarted
  <2>2. /\ sess'.status \in {"PLAYER_TURN", "DEALER_TURN"}
        /\ player'.outcome = "NONE" /\ dealer'.hidden /\ Len(dealer'.hand) = 2
        /\ roundLog' = roundLog /\ actionLog' = actionLog
    BY <1>2 DEF StartRoom, InitialDeal, NoPlayer, NoDealer
  <2> QED
    BY <2>1, <2>2 DEF ResultInv, ResultMatchesTable, Forfeited
<1>3. ASSUME NEW p \in Procs, CommitHit(p) \/ CommitStand(p) PROVE ResultInv'
  <2>1. /\ sess.status = "PLAYER_TURN" /\ dealer' = dealer /\ roundLog' = roundLog
        /\ sess'.status \in {"PLAYER_TURN", "DEALER_TURN"}
    BY <1>0, <1>3, HitOnRows, StandOnRows DEF Session
  <2>2. player'.outcome = player.outcome
    BY <1>0, <1>3, HitOnRows, StandOnRows DEF Player
  <2>3. ~Forfeited'
    BY <1>0, <1>3, <2>1, HitOnRows, StandOnRows DEF ResultInv, Forfeited, LogEntry
  <2> QED
    BY <2>1, <2>2, <2>3 DEF ResultInv, ResultMatchesTable
<1>4. ASSUME NEW p \in Procs, CommitDealerDraw(p) PROVE ResultInv'
  <2>1. /\ sess.status = "DEALER_TURN" /\ sess'.status = "DEALER_TURN" /\ player' = player
        /\ roundLog' = roundLog /\ actionLog' = actionLog
    BY <1>0, <1>4, DealerDrawOnRows DEF Session
  <2>2. dealer'.hidden = dealer.hidden
    BY <1>0, <1>4, DealerDrawOnRows DEF Dealer
  <2> QED
    BY <2>1, <2>2 DEF ResultInv, ResultMatchesTable, Forfeited
<1>5. ASSUME NEW p \in Procs, CommitForfeit(p) PROVE ResultInv'
  <2> DEFINE entry == LogEntry(ForfeitId(sess.version + 1), "TIME_FORFEIT", sess.version + 1)
  <2>1. /\ sess.status = "PLAYER_TURN" /\ FinishOnRows("LOSE", "STAND") /\ Forfeited'
    <3>1. /\ sess.status = "PLAYER_TURN" /\ FinishOnRows("LOSE", "STAND")
          /\ actionLog' = actionLog \cup {entry}
      BY <1>0, <1>5, ForfeitOnRows
    <3>2. entry.op = "TIME_FORFEIT"
      BY DEF LogEntry
    <3> QED
      BY <3>1, <3>2 DEF Forfeited
  <2>2. Len(dealer.hand) = 2
    BY <2>1 DEF ResultInv
  <2>3. /\ sess'.status = "RESETTING" /\ dealer'.hand = dealer.hand
        /\ player'.hand = player.hand /\ player'.outcome = "LOSE"
        /\ player'.score = Value(player.hand) /\ dealer'.score = Value(dealer.hand)
        /\ ~dealer'.hidden
        /\ roundLog' = {[outcome |-> "LOSE", player |-> Value(player.hand),
                         dealer |-> Value(dealer.hand)]}
    BY <2>1, FinishFields DEF FinishOnRows
  <2> QED
    BY <2>1, <2>2, <2>3 DEF ResultInv, ResultMatchesTable
<1>6. ASSUME NEW p \in Procs, CommitResult(p) PROVE ResultInv'
  <2> DEFINE outcome == ResolveRoundOutcome(player.hand, dealer.hand)
  <2>1. /\ sess.status = "DEALER_TURN" /\ ~DealerDraws(dealer.hand) /\ actionLog' = actionLog
        /\ FinishOnRows(outcome, player.status)
    BY <1>0, <1>6, ResultOnRows
  <2>2. ~Forfeited'
    BY <2>1 DEF ResultInv, Forfeited
  <2> HIDE DEF outcome
  <2>3. /\ sess'.status = "RESETTING"
        /\ player'.hand = player.hand /\ dealer'.hand = dealer.hand
        /\ player'.outcome = outcome
        /\ player'.score = Value(player.hand) /\ dealer'.score = Value(dealer.hand)
        /\ ~dealer'.hidden
        /\ roundLog' = {[outcome |-> outcome, player |-> Value(player.hand),
                         dealer |-> Value(dealer.hand)]}
    BY <2>1, FinishFields DEF FinishOnRows
  <2> QED
    BY <2>1, <2>2, <2>3 DEF ResultInv, ResultMatchesTable, outcome
<1> QED
  BY <1>1, <1>2, <1>3, <1>4, <1>5, <1>6, RoundStep

\* A round is decided once, when it is over, by the hands on the table (or by
\* the forfeit), and its log agrees with the states.
THEOREM ResultsMatchTable == Spec => []ResultMatchesTable
<1>1. Init => TypeOK /\ SnapshotInv /\ ResultInv
  BY InitTypeOK, InitSnapshotInv, InitResultInv
<1>2. (TypeOK /\ SnapshotInv /\ ResultInv) /\ [Next]_vars => (TypeOK /\ SnapshotInv /\ ResultInv)'
  BY NextTypeOK, NextSnapshotInv, NextResultInv
<1>3. ResultInv => ResultMatchesTable
  BY DEF ResultInv
<1> QED
  BY <1>1, <1>2, <1>3, PTL DEF Spec

----------------------------------------------------------------------------
(* The phases.                                                             *)

\* The invariants so far together.
RoundInv == TypeOK /\ SnapshotInv /\ DeckInv /\ ResultInv

LEMMA InitRoundInv == Init => RoundInv
BY InitTypeOK, InitSnapshotInv, InitDeckInv, InitResultInv DEF RoundInv

LEMMA NextRoundInv == RoundInv /\ [Next]_vars => RoundInv'
BY NextTypeOK, NextSnapshotInv, NextDeckInv, NextResultInv DEF RoundInv

\* What every step starts from, by its parts.
LEMMA RoundFacts ==
  ASSUME RoundInv
  PROVE  /\ NotStarted /\ \A q \in Procs : CallInv(q)
         /\ sess \in Session /\ player \in Player /\ dealer \in Dealer
         /\ sess.version \in Nat /\ sess.draw \in Nat /\ sess.deck \in Seq(Card)
         /\ player.hand \in Seq(Card) /\ dealer.hand \in Seq(Card)
         /\ Versioned(sess) \in Session
         /\ Versioned(sess).version = sess.version + 1
         /\ Versioned(sess).status = sess.status /\ Versioned(sess).draw = sess.draw
         /\ Versioned(sess).deck = sess.deck
         /\ Versioned(sess).deadline = sess.deadline
         /\ Versioned(sess).rematch = sess.rematch
<1>1. sess \in Session /\ player \in Player /\ dealer \in Dealer
  BY DEF RoundInv, TypeOK, RowsTypeOK
<1> QED
  BY <1>1, VersionedType DEF RoundInv, SnapshotInv, Session, Player, Dealer

LEMMA DealtHands ==
  ASSUME RoundInv, sess.status # "NONE"
  PROVE  /\ Len(player.hand) \in Nat /\ Len(player.hand) >= 2
         /\ Len(dealer.hand) \in Nat /\ Len(dealer.hand) >= 2
         /\ Len(player.hand) + Len(dealer.hand) = sess.draw
<1>1. CardsComeFromDeck
  BY DEF RoundInv, DeckInv
<1>2. /\ Len(player.hand) >= 2 /\ Len(dealer.hand) >= 2
      /\ Len(player.hand) + Len(dealer.hand) = sess.draw
  BY <1>1 DEF CardsComeFromDeck
<1>3. Len(player.hand) \in Nat /\ Len(dealer.hand) \in Nat
  BY RoundFacts
<1> QED
  BY <1>2, <1>3

\* The start of a round, by its fields.
LEMMA StartFields ==
  ASSUME RoundInv, NEW deck \in Decks, StartRoom(deck)
  PROVE  /\ sess.status = "NONE" /\ actionLog = {} /\ roundLog = {}
         /\ deck[1] \in Card /\ deck[3] \in Card
         /\ player'.hand = <<deck[1], deck[3]>> /\ dealer'.hand = <<deck[2], deck[4]>>
         /\ player'.outcome = "NONE"
         /\ sess'.deck = deck /\ sess'.version = 1 /\ sess'.rematch = FALSE
         /\ actionLog' = actionLog /\ roundLog' = roundLog
         /\ IF IsBlackjack(<<deck[1], deck[3]>>)
            THEN /\ sess'.status = "DEALER_TURN" /\ sess'.deadline = FALSE
                 /\ player'.status = "BLACKJACK"
            ELSE /\ sess'.status = "PLAYER_TURN" /\ sess'.deadline = TRUE
                 /\ player'.status = "ACTIVE"
<1>1. sess.status = "NONE" /\ actionLog = {} /\ roundLog = {}
  BY RoundFacts DEF StartRoom, NotStarted
<1>2. deck \in Seq(Card) /\ Len(deck) >= 4
  BY DecksAssumption
<1>3. deck[1] \in Card /\ deck[3] \in Card
  BY <1>2
<1>4. InitialDeal(deck).player = <<deck[1], deck[3]>> /\ InitialDeal(deck).dealer = <<deck[2], deck[4]>>
  BY DEF InitialDeal
<1>5. player'.hand = <<deck[1], deck[3]>> /\ dealer'.hand = <<deck[2], deck[4]>>
  BY <1>4 DEF StartRoom, NoPlayer, NoDealer
<1>6. /\ player'.outcome = "NONE"
      /\ player'.status = IF IsBlackjack(<<deck[1], deck[3]>>) THEN "BLACKJACK" ELSE "ACTIVE"
  BY <1>4 DEF StartRoom, NoPlayer
<1>7. /\ sess'.deck = deck /\ sess'.version = 1 /\ sess'.rematch = FALSE
      /\ sess'.deadline = ~IsBlackjack(<<deck[1], deck[3]>>)
      /\ sess'.status = IF IsBlackjack(<<deck[1], deck[3]>>) THEN "DEALER_TURN" ELSE "PLAYER_TURN"
      /\ actionLog' = actionLog /\ roundLog' = roundLog
  BY <1>4 DEF StartRoom
<1> QED
  BY <1>1, <1>3, <1>5, <1>6, <1>7

\* A hit, by its fields.
LEMMA HitFields ==
  ASSUME RoundInv, NEW p \in Procs, CommitHit(p)
  PROVE  LET hand == Append(player.hand, NextCard(sess))
             over == IsBust(hand) \/ IsBlackjack(hand)
         IN
         /\ sess.status = "PLAYER_TURN" /\ player.status = "ACTIVE" /\ CanDraw(sess)
         /\ sess'.status = (IF over THEN "DEALER_TURN" ELSE "PLAYER_TURN")
         /\ sess'.deadline = ~over /\ sess'.rematch = sess.rematch
         /\ sess'.version = sess.version + 1 /\ sess'.deck = sess.deck
         /\ player'.hand = hand /\ player'.outcome = player.outcome
         /\ player'.status = (IF IsBust(hand) THEN "BUST"
                              ELSE IF over THEN "BLACKJACK" ELSE "ACTIVE")
         /\ Len(player'.hand) = Len(player.hand) + 1
         /\ dealer' = dealer
<1> DEFINE hand == Append(player.hand, NextCard(sess))
           over == IsBust(hand) \/ IsBlackjack(hand)
<1>0. /\ \A q \in Procs : CallInv(q)
      /\ Versioned(sess) \in Session /\ Versioned(sess).status = sess.status
      /\ Versioned(sess).version = sess.version + 1 /\ Versioned(sess).deck = sess.deck
      /\ Versioned(sess).rematch = sess.rematch
      /\ sess \in Session /\ player \in Player /\ player.hand \in Seq(Card)
  BY RoundFacts
<1>1. /\ sess.status = "PLAYER_TURN" /\ player.status = "ACTIVE" /\ CanDraw(sess)
      /\ sess' = [Versioned(sess) EXCEPT !.draw = @ + 1,
                                         !.status = IF over THEN "DEALER_TURN" ELSE @,
                                         !.deadline = ~over]
      /\ player' = [player EXCEPT !.hand = hand,
                                  !.status = IF IsBust(hand) THEN "BUST"
                                             ELSE IF over THEN "BLACKJACK" ELSE @]
      /\ dealer' = dealer
  BY <1>0, HitOnRows
<1>2. NextCard(sess) \in Card
  BY <1>0, <1>1, NextCardType
<1>3. Len(hand) = Len(player.hand) + 1
  BY <1>0, <1>2
<1> HIDE DEF hand, over
<1>4. /\ sess'.status = (IF over THEN "DEALER_TURN" ELSE "PLAYER_TURN")
      /\ sess'.deadline = ~over /\ sess'.rematch = sess.rematch
      /\ sess'.version = sess.version + 1 /\ sess'.deck = sess.deck
  BY <1>0, <1>1 DEF Session
<1>5. /\ player'.hand = hand /\ player'.outcome = player.outcome
      /\ player'.status = (IF IsBust(hand) THEN "BUST"
                           ELSE IF over THEN "BLACKJACK" ELSE "ACTIVE")
  BY <1>0, <1>1 DEF Player
<1> QED
  BY <1>1, <1>3, <1>4, <1>5 DEF hand, over

\* The end of a round, by its fields.
LEMMA EndFields ==
  ASSUME RoundInv, NEW outcome, NEW status, FinishOnRows(outcome, status)
  PROVE  /\ sess'.status = "RESETTING" /\ sess'.deadline = FALSE /\ sess'.rematch = TRUE
         /\ sess'.version = sess.version + 1 /\ sess'.deck = sess.deck
         /\ player'.hand = player.hand /\ dealer'.hand = dealer.hand
         /\ player'.outcome = outcome /\ player'.status = status
<1>1. Versioned(sess) \in Session /\ Versioned(sess).version = sess.version + 1
      /\ Versioned(sess).deck = sess.deck /\ TypeOK
  BY RoundFacts DEF RoundInv
<1>2. /\ sess'.deadline = FALSE /\ sess'.rematch = TRUE
      /\ sess'.version = sess.version + 1 /\ sess'.deck = sess.deck
  BY <1>1 DEF FinishOnRows, Session
<1> QED
  BY <1>1, <1>2, FinishFields
\* A stand and a card of the dealer, by their fields.
LEMMA StandFields ==
  ASSUME RoundInv, NEW p \in Procs, CommitStand(p)
  PROVE  /\ sess.status = "PLAYER_TURN" /\ player.status = "ACTIVE"
         /\ sess'.status = "DEALER_TURN" /\ sess'.deadline = FALSE
         /\ sess'.rematch = sess.rematch
         /\ sess'.version = sess.version + 1 /\ sess'.deck = sess.deck
         /\ player'.hand = player.hand /\ player'.outcome = player.outcome
         /\ player'.status = "STAND"
         /\ dealer' = dealer
<1>1. /\ sess.status = "PLAYER_TURN" /\ player.status = "ACTIVE"
      /\ sess' = [Versioned(sess) EXCEPT !.status = "DEALER_TURN", !.deadline = FALSE]
      /\ player' = [player EXCEPT !.status = "STAND"] /\ dealer' = dealer
  BY RoundFacts, StandOnRows
<1>2. /\ sess'.status = "DEALER_TURN" /\ sess'.deadline = FALSE
      /\ sess'.rematch = sess.rematch
      /\ sess'.version = sess.version + 1 /\ sess'.deck = sess.deck
  BY <1>1, RoundFacts DEF Session
<1>3. /\ player'.hand = player.hand /\ player'.outcome = player.outcome
      /\ player'.status = "STAND"
  BY <1>1, RoundFacts DEF Player
<1> QED
  BY <1>1, <1>2, <1>3

LEMMA DrawFields ==
  ASSUME RoundInv, NEW p \in Procs, CommitDealerDraw(p)
  PROVE  /\ sess.status = "DEALER_TURN" /\ DealerDraws(dealer.hand) /\ CanDraw(sess)
         /\ sess'.status = "DEALER_TURN" /\ sess'.deadline = sess.deadline
         /\ sess'.rematch = sess.rematch
         /\ sess'.version = sess.version + 1 /\ sess'.deck = sess.deck
         /\ dealer'.hand = Append(dealer.hand, NextCard(sess))
         /\ Len(dealer'.hand) = Len(dealer.hand) + 1
         /\ player' = player /\ actionLog' = actionLog
<1>1. /\ sess.status = "DEALER_TURN" /\ DealerDraws(dealer.hand) /\ CanDraw(sess)
      /\ sess' = [Versioned(sess) EXCEPT !.draw = @ + 1]
      /\ dealer' = [dealer EXCEPT !.hand = Append(@, NextCard(sess))]
      /\ player' = player /\ actionLog' = actionLog
  BY RoundFacts, DealerDrawOnRows
<1>2. /\ sess'.status = "DEALER_TURN" /\ sess'.deadline = sess.deadline
      /\ sess'.rematch = sess.rematch
      /\ sess'.version = sess.version + 1 /\ sess'.deck = sess.deck
  BY <1>1, RoundFacts DEF Session
<1>3. dealer'.hand = Append(dealer.hand, NextCard(sess))
  BY <1>1, RoundFacts DEF Dealer
<1>4. NextCard(sess) \in Card
  BY <1>1, RoundFacts, NextCardType
<1>5. Len(dealer'.hand) = Len(dealer.hand) + 1
  BY <1>3, <1>4, RoundFacts
<1> QED
  BY <1>1, <1>2, <1>3, <1>5

LEMMA InitPhasesAgree == Init => PhasesAgree
BY DEF Init, PhasesAgree, NoSession, NoPlayer, NoDealer

LEMMA NextPhasesAgree ==
  ASSUME RoundInv, PhasesAgree, [Next]_vars
  PROVE  PhasesAgree'
<1>0. /\ \A q \in Procs : CallInv(q)
      /\ sess.status = "PLAYER_TURN" => sess.deadline /\ ~sess.rematch /\ Len(dealer.hand) = 2
      /\ sess.status = "DEALER_TURN" => ~sess.deadline /\ ~sess.rematch
  BY RoundFacts DEF PhasesAgree
<1>1. CASE UNCHANGED <<room, round>>
  BY <1>1 DEF round, PhasesAgree
<1>2. ASSUME NEW deck \in Decks, StartRoom(deck) PROVE PhasesAgree'
  <2>1. ~IsBust(<<deck[1], deck[3]>>)
    BY <1>2, StartFields, TwoCardsAreNotBust
  <2>2. Len(dealer'.hand) = 2
    <3>1. dealer'.hand = <<deck[2], deck[4]>>
      BY <1>2, StartFields
    <3> QED
      BY <3>1
  <2> QED
    BY <1>2, <2>1, <2>2, StartFields DEF PhasesAgree
<1>3. ASSUME NEW p \in Procs, CommitHit(p) PROVE PhasesAgree'
  <2> DEFINE hand == Append(player.hand, NextCard(sess))
  <2>1. ~IsBlackjack(hand)
    <3>1. Len(hand) = Len(player.hand) + 1 /\ sess.status = "PLAYER_TURN"
      BY <1>3, HitFields
    <3>2. Len(player.hand) >= 2 /\ Len(player.hand) \in Nat
      BY <3>1, DealtHands
    <3>3. Len(hand) # 2
      BY <3>1, <3>2
    <3> QED
      BY <3>3 DEF IsBlackjack
  <2>2. /\ sess.status = "PLAYER_TURN" /\ dealer' = dealer
        /\ sess'.status = (IF IsBust(hand) THEN "DEALER_TURN" ELSE "PLAYER_TURN")
        /\ sess'.deadline = ~IsBust(hand) /\ sess'.rematch = sess.rematch
        /\ player'.hand = hand
        /\ player'.status = (IF IsBust(hand) THEN "BUST" ELSE "ACTIVE")
    BY <1>3, <2>1, HitFields
  <2>3. /\ sess'.deadline <=> sess'.status = "PLAYER_TURN"
        /\ sess'.rematch <=> sess'.status = "RESETTING"
        /\ sess'.status = "PLAYER_TURN" => Len(dealer'.hand) = 2
    BY <1>0, <2>2
  <2>4. /\ player'.status = "ACTIVE" <=> sess'.status = "PLAYER_TURN"
        /\ player'.status = "BUST" <=> IsBust(player'.hand)
        /\ player'.status = "BLACKJACK" <=> IsBlackjack(player'.hand)
    BY <2>1, <2>2
  <2> QED
    BY <2>3, <2>4 DEF PhasesAgree
<1>4. ASSUME NEW p \in Procs, CommitStand(p) PROVE PhasesAgree'
  BY <1>0, <1>4, StandFields DEF PhasesAgree
<1>5. ASSUME NEW p \in Procs, CommitForfeit(p) PROVE PhasesAgree'
  <2>1. sess.status = "PLAYER_TURN" /\ FinishOnRows("LOSE", "STAND")
    BY <1>0, <1>5, ForfeitOnRows
  <2>2. ~IsBust(player.hand) /\ ~IsBlackjack(player.hand)
    BY <2>1 DEF PhasesAgree
  <2>3. /\ sess'.status = "RESETTING" /\ sess'.deadline = FALSE /\ sess'.rematch = TRUE
        /\ player'.hand = player.hand /\ player'.status = "STAND"
    BY <2>1, EndFields
  <2> QED
    BY <2>2, <2>3 DEF PhasesAgree
<1>6. ASSUME NEW p \in Procs, CommitDealerDraw(p) PROVE PhasesAgree'
  BY <1>0, <1>6, DrawFields DEF PhasesAgree
<1>7. ASSUME NEW p \in Procs, CommitResult(p) PROVE PhasesAgree'
  <2> DEFINE outcome == ResolveRoundOutcome(player.hand, dealer.hand)
  <2>1. sess.status = "DEALER_TURN" /\ FinishOnRows(outcome, player.status)
    BY <1>0, <1>7, ResultOnRows
  <2> HIDE DEF outcome
  <2>2. /\ sess'.status = "RESETTING" /\ sess'.deadline = FALSE /\ sess'.rematch = TRUE
        /\ player'.hand = player.hand /\ player'.status = player.status
    BY <2>1, EndFields
  <2> QED
    BY <2>1, <2>2 DEF PhasesAgree
<1> QED
  BY <1>1, <1>2, <1>3, <1>4, <1>5, <1>6, <1>7, RoundStep

\* In every state between two statements of any number of callers, the phase of
\* the session, its deadlines, the status of the seat and the hand agree: what
\* playerTurn and dealerTurn write in one transaction is never half there.
THEOREM PhasesStayTogether == Spec => []PhasesAgree
<1>1. Init => RoundInv /\ PhasesAgree
  BY InitRoundInv, InitPhasesAgree
<1>2. (RoundInv /\ PhasesAgree) /\ [Next]_vars => (RoundInv /\ PhasesAgree)'
  BY NextRoundInv, NextPhasesAgree
<1> QED
  BY <1>1, <1>2, PTL DEF Spec
----------------------------------------------------------------------------
(* The count of commits.                                                   *)

\* One more entry in the log.
LEMMA LogGrows ==
  ASSUME IsFiniteSet(actionLog), NEW action, NEW op, NEW version, ~Logged(action),
         actionLog' = actionLog \cup {LogEntry(action, op, version)}
  PROVE  /\ IsFiniteSet(actionLog')
         /\ Cardinality(actionLog') = Cardinality(actionLog) + 1
         /\ op = "HIT" => Cardinality(Hits') = Cardinality(Hits) + 1
         /\ op # "HIT" => Cardinality(Hits') = Cardinality(Hits)
<1> DEFINE entry == LogEntry(action, op, version)
<1>1. entry.action = action /\ entry.op = op
  BY DEF LogEntry
<1>2. entry \notin actionLog
  BY <1>1 DEF Logged
<1> HIDE DEF entry
<1>3. actionLog' = actionLog \cup {entry}
  BY DEF entry
<1>4. /\ IsFiniteSet(actionLog')
      /\ Cardinality(actionLog') = Cardinality(actionLog) + 1
  BY <1>2, <1>3, FS_AddElement
<1>5. ASSUME op = "HIT" PROVE Cardinality(Hits') = Cardinality(Hits) + 1
  <2>1. Hits' = Hits \cup {entry} /\ entry \notin Hits
    BY <1>1, <1>2, <1>3, <1>5 DEF Hits
  <2>2. Hits \in SUBSET actionLog
    BY DEF Hits
  <2>3. IsFiniteSet(Hits)
    BY <2>2, FS_Subset
  <2>4. Cardinality(Hits \cup {entry}) = Cardinality(Hits) + 1
    BY <2>1, <2>3, FS_AddElement
  <2> QED
    BY <2>1, <2>4
<1>6. ASSUME op # "HIT" PROVE Cardinality(Hits') = Cardinality(Hits)
  <2>1. Hits' = Hits
    BY <1>1, <1>3, <1>6 DEF Hits
  <2> QED
    BY <2>1
<1> QED
  BY <1>4, <1>5, <1>6

\* EveryCommitCounted, and a log of finitely many actions.
CountInv == IsFiniteSet(actionLog) /\ EveryCommitCounted

LEMMA InitCountInv == Init => CountInv
BY FS_EmptySet DEF Init, CountInv, EveryCommitCounted, NoSession

LEMMA NextCountInv ==
  ASSUME RoundInv, CountInv, [Next]_vars
  PROVE  CountInv'
<1>0. /\ \A q \in Procs : CallInv(q)
      /\ IsFiniteSet(actionLog)
      /\ Forfeited => sess.status = "RESETTING"
  BY RoundFacts DEF CountInv, RoundInv, ResultInv
<1>1. CASE UNCHANGED <<room, round>>
  BY <1>1 DEF round, CountInv, EveryCommitCounted, Hits, Forfeited
<1>2. ASSUME NEW deck \in Decks, StartRoom(deck) PROVE CountInv'
  <2>1. /\ actionLog' = {} /\ sess'.version = 1 /\ sess'.status # "RESETTING"
        /\ player'.hand = <<deck[1], deck[3]>> /\ dealer'.hand = <<deck[2], deck[4]>>
    BY <1>2, StartFields
  <2>2. Len(player'.hand) = 2 /\ Len(dealer'.hand) = 2
    BY <2>1
  <2>3. Hits' = {} /\ Cardinality({}) = 0 /\ IsFiniteSet({})
    BY <2>1, FS_EmptySet DEF Hits
  <2> QED
    BY <2>1, <2>2, <2>3 DEF CountInv, EveryCommitCounted
<1>3. ASSUME sess.status = "PLAYER_TURN" \/ sess.status = "DEALER_TURN"
      PROVE  /\ Len(player.hand) = 2 + Cardinality(Hits)
             /\ sess.version = 1 + Cardinality(actionLog) + (Len(dealer.hand) - 2)
             /\ Cardinality(Hits) \in Nat /\ Cardinality(actionLog) \in Nat
             /\ Len(dealer.hand) \in Nat /\ Len(player.hand) \in Nat
             /\ ~Forfeited
  <2>1. Hits \in SUBSET actionLog
    BY DEF Hits
  <2>2. Cardinality(Hits) \in Nat /\ Cardinality(actionLog) \in Nat
    BY <1>0, <2>1, FS_Subset, FS_CardinalityType
  <2>3. /\ Len(player.hand) = 2 + Cardinality(Hits)
        /\ sess.version = 1 + Cardinality(actionLog) + (Len(dealer.hand) - 2) + 0
    BY <1>3 DEF CountInv, EveryCommitCounted
  <2>4. Len(dealer.hand) \in Nat /\ Len(player.hand) \in Nat
    BY <1>3, DealtHands
  <2> QED
    BY <1>0, <1>3, <2>2, <2>3, <2>4
<1>4. ASSUME NEW p \in Procs, CommitHit(p) PROVE CountInv'
  <2>1. /\ sess.status = "PLAYER_TURN" /\ sess'.status # "RESETTING"
        /\ sess'.version = sess.version + 1 /\ dealer' = dealer
        /\ Len(player'.hand) = Len(player.hand) + 1
    BY <1>4, HitFields
  <2>2. /\ ~Logged(call[p].action)
        /\ actionLog' = actionLog \cup {LogEntry(call[p].action, "HIT", call[p].ver)}
    BY <1>4 DEF CommitHit
  <2>3. /\ IsFiniteSet(actionLog')
        /\ Cardinality(actionLog') = Cardinality(actionLog) + 1
        /\ Cardinality(Hits') = Cardinality(Hits) + 1
    BY <1>0, <2>2, LogGrows
  <2>4. Len(player'.hand) = 2 + Cardinality(Hits')
    BY <1>3, <2>1, <2>3
  <2>5. sess'.version = 1 + Cardinality(actionLog') + (Len(dealer'.hand) - 2) + 0
    <3>1. /\ sess.version = 1 + Cardinality(actionLog) + (Len(dealer.hand) - 2)
          /\ Cardinality(actionLog) \in Nat /\ Len(dealer.hand) \in Nat
      BY <1>3, <2>1
    <3>2. /\ sess'.version = sess.version + 1
          /\ Cardinality(actionLog') = Cardinality(actionLog) + 1
          /\ Len(dealer'.hand) = Len(dealer.hand)
      BY <2>1, <2>3
    <3> QED
      BY <3>1, <3>2
  <2> QED
    BY <2>1, <2>3, <2>4, <2>5 DEF CountInv, EveryCommitCounted
<1>5. ASSUME NEW p \in Procs, CommitStand(p) PROVE CountInv'
  <2>1. /\ sess.status = "PLAYER_TURN" /\ sess'.status # "RESETTING"
        /\ sess'.version = sess.version + 1 /\ dealer' = dealer
        /\ player'.hand = player.hand
    BY <1>5, StandFields
  <2>2. /\ ~Logged(call[p].action)
        /\ actionLog' = actionLog \cup {LogEntry(call[p].action, "STAND", call[p].ver)}
    BY <1>5 DEF CommitStand
  <2>3. /\ IsFiniteSet(actionLog')
        /\ Cardinality(actionLog') = Cardinality(actionLog) + 1
        /\ Cardinality(Hits') = Cardinality(Hits)
    BY <1>0, <2>2, LogGrows
  <2>4. Len(player'.hand) = 2 + Cardinality(Hits')
    BY <1>3, <2>1, <2>3
  <2>5. sess'.version = 1 + Cardinality(actionLog') + (Len(dealer'.hand) - 2) + 0
    <3>1. /\ sess.version = 1 + Cardinality(actionLog) + (Len(dealer.hand) - 2)
          /\ Cardinality(actionLog) \in Nat /\ Len(dealer.hand) \in Nat
      BY <1>3, <2>1
    <3>2. /\ sess'.version = sess.version + 1
          /\ Cardinality(actionLog') = Cardinality(actionLog) + 1
          /\ Len(dealer'.hand) = Len(dealer.hand)
      BY <2>1, <2>3
    <3> QED
      BY <3>1, <3>2
  <2> QED
    BY <2>1, <2>3, <2>4, <2>5 DEF CountInv, EveryCommitCounted
<1>6. ASSUME NEW p \in Procs, CommitForfeit(p) PROVE CountInv'
  <2> DEFINE id == ForfeitId(sess.version + 1)
  <2>1. /\ sess.status = "PLAYER_TURN" /\ FinishOnRows("LOSE", "STAND")
        /\ actionLog' = actionLog \cup {LogEntry(id, "TIME_FORFEIT", sess.version + 1)}
    BY <1>0, <1>6, ForfeitOnRows
  <2>2. ~Logged(id)
    <3>1. got[p].sess = sess
      BY <1>0, <1>6, CommitHoldsRows DEF CommitForfeit
    <3> QED
      BY <1>6, <3>1 DEF CommitForfeit
  <2>3. LogEntry(id, "TIME_FORFEIT", sess.version + 1).op = "TIME_FORFEIT"
    BY DEF LogEntry
  <2>4. Forfeited'
    BY <2>1, <2>3 DEF Forfeited
  <2> HIDE DEF id
  <2>5. /\ IsFiniteSet(actionLog')
        /\ Cardinality(actionLog') = Cardinality(actionLog) + 1
        /\ Cardinality(Hits') = Cardinality(Hits)
    BY <1>0, <2>1, <2>2, LogGrows
  <2>6. /\ sess'.version = sess.version + 1
        /\ player'.hand = player.hand /\ dealer'.hand = dealer.hand
    BY <2>1, EndFields
  <2>7. Len(player'.hand) = 2 + Cardinality(Hits')
    BY <1>3, <2>1, <2>5, <2>6
  <2>8. sess'.version = 1 + Cardinality(actionLog') + (Len(dealer'.hand) - 2) + 0
    <3>1. /\ sess.version = 1 + Cardinality(actionLog) + (Len(dealer.hand) - 2)
          /\ Cardinality(actionLog) \in Nat /\ Len(dealer.hand) \in Nat
      BY <1>3, <2>1
    <3>2. /\ sess'.version = sess.version + 1
          /\ Cardinality(actionLog') = Cardinality(actionLog) + 1
          /\ Len(dealer'.hand) = Len(dealer.hand)
      BY <2>5, <2>6
    <3> QED
      BY <3>1, <3>2
  <2> QED
    BY <2>4, <2>5, <2>7, <2>8 DEF CountInv, EveryCommitCounted
<1>7. ASSUME NEW p \in Procs, CommitDealerDraw(p) PROVE CountInv'
  <2>1. /\ sess.status = "DEALER_TURN" /\ sess'.status # "RESETTING"
        /\ sess'.version = sess.version + 1
        /\ Len(dealer'.hand) = Len(dealer.hand) + 1
        /\ player' = player /\ actionLog' = actionLog
    BY <1>7, DrawFields
  <2>2. Hits' = Hits
    BY <2>1 DEF Hits
  <2>3. Len(player'.hand) = 2 + Cardinality(Hits')
    BY <1>3, <2>1, <2>2
  <2>4. sess'.version = 1 + Cardinality(actionLog') + (Len(dealer'.hand) - 2) + 0
    BY <1>3, <2>1
  <2> QED
    BY <1>0, <2>1, <2>3, <2>4 DEF CountInv, EveryCommitCounted
<1>8. ASSUME NEW p \in Procs, CommitResult(p) PROVE CountInv'
  <2> DEFINE outcome == ResolveRoundOutcome(player.hand, dealer.hand)
  <2>1. /\ sess.status = "DEALER_TURN" /\ actionLog' = actionLog
        /\ FinishOnRows(outcome, player.status)
    BY <1>0, <1>8, ResultOnRows
  <2> HIDE DEF outcome
  <2>2. /\ sess'.version = sess.version + 1 /\ sess'.status = "RESETTING"
        /\ player'.hand = player.hand /\ dealer'.hand = dealer.hand
    BY <2>1, EndFields
  <2>3. Hits' = Hits /\ ~Forfeited'
    BY <1>3, <2>1 DEF Hits, Forfeited
  <2>4. Len(player'.hand) = 2 + Cardinality(Hits')
    BY <1>3, <2>1, <2>2, <2>3
  <2>5. sess'.version = 1 + Cardinality(actionLog') + (Len(dealer'.hand) - 2) + 1
    BY <1>3, <2>1, <2>2
  <2> QED
    BY <1>0, <2>1, <2>2, <2>3, <2>4, <2>5 DEF CountInv, EveryCommitCounted
<1> QED
  BY <1>1, <1>2, <1>4, <1>5, <1>6, <1>7, <1>8, RoundStep

\* No update is lost and none is applied twice, whatever overlaps: the player's
\* cards are the logged hits and the version is the number of commits.
THEOREM CommitsAreCounted == Spec => []EveryCommitCounted
<1>1. Init => RoundInv /\ CountInv
  BY InitRoundInv, InitCountInv
<1>2. (RoundInv /\ CountInv) /\ [Next]_vars => (RoundInv /\ CountInv)'
  BY NextRoundInv, NextCountInv
<1>3. CountInv => EveryCommitCounted
  BY DEF CountInv
<1> QED
  BY <1>1, <1>2, <1>3, PTL DEF Spec
----------------------------------------------------------------------------
(* The indexes.                                                            *)

\* A call that looked its id up holds a version at which it was not logged.
IdInv(p) ==
  pc[p] = "commit" /\ call[p].op \in {"HIT", "STAND"} /\ got[p].sess.version = sess.version
    => ~Logged(call[p].action)

\* A logged stand has ended the player's turn.
StandEndsTurn == (\E l \in actionLog : l.op = "STAND") => sess.status # "PLAYER_TURN"

IndexInv == StandEndsTurn /\ \A p \in Procs : IdInv(p)

LEMMA InitIndexInv == Init => IndexInv
BY DEF Init, IndexInv, StandEndsTurn, IdInv, NoCall

LEMMA ReturnKeepsIds ==
  ASSUME CallsTypeOK, IndexInv, UNCHANGED rows, NEW p \in Procs, NEW verdict, Return(p, verdict)
  PROVE  IndexInv'
<1>1. ASSUME NEW q \in Procs PROVE IdInv(q)'
  <2>1. CASE q = p
    BY <2>1 DEF CallsTypeOK, Return, IdInv, NoCall
  <2>2. CASE q # p
    <3>1. pc'[q] = pc[q] /\ call'[q] = call[q] /\ got'[q] = got[q]
      BY <2>2 DEF CallsTypeOK, Return
    <3> QED
      BY <3>1 DEF IndexInv, IdInv, Logged, rows
  <2> QED
    BY <2>1, <2>2
<1> QED
  BY <1>1 DEF IndexInv, StandEndsTurn, rows

LEMMA CallKeepsIds ==
  ASSUME CallsTypeOK, IndexInv, UNCHANGED rows, NEW p \in Procs, NEW c, Call(p, c)
  PROVE  IndexInv'
<1>1. ASSUME NEW q \in Procs PROVE IdInv(q)'
  <2>1. CASE q = p
    BY <2>1 DEF CallsTypeOK, Call, IdInv
  <2>2. CASE q # p
    <3>1. pc'[q] = pc[q] /\ call'[q] = call[q] /\ got'[q] = got[q]
      BY <2>2 DEF CallsTypeOK, Call
    <3> QED
      BY <3>1 DEF IndexInv, IdInv, Logged, rows
  <2> QED
    BY <2>1, <2>2
<1> QED
  BY <1>1 DEF IndexInv, StandEndsTurn, rows

LEMMA NextIndexInv ==
  ASSUME RoundInv, IndexInv, [Next]_vars
  PROVE  IndexInv'
<1>0. /\ \A q \in Procs : CallInv(q) /\ IdInv(q)
      /\ NotStarted /\ TypeOK /\ CallsTypeOK
  BY RoundFacts DEF IndexInv, RoundInv, TypeOK
<1>1. CASE DeadlinePasses \/ UNCHANGED vars
  BY <1>1 DEF DeadlinePasses, vars, rows, local, IndexInv, StandEndsTurn, IdInv, Logged
<1>2. ASSUME NEW deck \in Decks, StartRoom(deck) PROVE IndexInv'
  <2>1. actionLog' = {}
    BY <1>2, StartFields
  <2>2. UNCHANGED local
    BY <1>2 DEF StartRoom
  <2> QED
    BY <1>0, <2>1, <2>2 DEF local, IndexInv, StandEndsTurn, IdInv, Logged
<1>3. ASSUME NEW c \in Clients, NEW op \in {"HIT", "STAND"}, NEW ver \in 1..sess.version,
             NEW id \in ActionIds, Request(c, op, ver, id)
      PROVE  IndexInv'
  <2>1. c \in Procs /\ UNCHANGED rows
    BY <1>3, CallerIsProc DEF Request
  <2>2. CASE ver = sess.version
    <3>1. \E asked : Call(c, asked)
      BY <1>3, <2>2 DEF Request
    <3> QED
      BY <1>0, <2>1, <3>1, CallKeepsIds
  <2>3. CASE ver # sess.version
    <3>1. Return(c, "version_conflict")
      BY <1>3, <2>3 DEF Request
    <3> QED
      BY <1>0, <2>1, <3>1, ReturnKeepsIds
  <2> QED
    BY <2>2, <2>3
<1>4. ASSUME NEW w \in Workers, TakeDueTurn(w) \/ TakeDealerTurn(w) PROVE IndexInv'
  <2>1. w \in Procs /\ UNCHANGED rows
    BY <1>4, CallerIsProc DEF TakeDueTurn, TakeDealerTurn
  <2>2. PICK op \in {"TIMEOUT", "DEALER"} :
          Call(w, [op |-> op, ver |-> sess.version, action |-> NoAction])
    BY <1>4 DEF TakeDueTurn, TakeDealerTurn
  <2> QED
    BY <1>0, <2>1, <2>2, CallKeepsIds
<1>5. ASSUME NEW w \in Workers, ReadSessionAgain(w) PROVE IndexInv'
  <2>1. w \in Procs /\ UNCHANGED rows
    BY <1>5, CallerIsProc DEF ReadSessionAgain
  <2>2. Call(w, call[w]) \/ Return(w, "version_conflict")
    BY <1>5 DEF ReadSessionAgain
  <2> QED
    BY <1>0, <2>1, <2>2, CallKeepsIds, ReturnKeepsIds
<1>6. ASSUME NEW p \in Procs, ReadPlayer(p) PROVE IndexInv'
  <2>1. UNCHANGED rows /\ UNCHANGED call
    BY <1>6 DEF ReadPlayer
  <2>2. ASSUME NEW q \in Procs PROVE IdInv(q)'
    <3>1. pc'[q] = "commit" => pc[q] = "commit" /\ q # p
      BY <1>0, <1>6 DEF ReadPlayer, CallsTypeOK
    <3>2. q # p => got'[q] = got[q]
      BY <1>0, <1>6 DEF ReadPlayer, CallsTypeOK
    <3> QED
      BY <1>0, <2>1, <3>1, <3>2 DEF IdInv, Logged, rows
  <2> QED
    BY <2>1, <2>2 DEF IndexInv, StandEndsTurn, rows
<1>7. ASSUME NEW p \in Procs, ReadDealer(p) PROVE IndexInv'
  <2>1. UNCHANGED rows
    BY <1>7 DEF ReadDealer
  <2>2. ASSUME NEW q \in Procs PROVE IdInv(q)'
    <3>1. CASE q # p
      <4>1. pc'[q] = pc[q] /\ call'[q] = call[q] /\ got'[q] = got[q]
        BY <1>0, <1>7, <3>1 DEF ReadDealer, CallsTypeOK
      <4> QED
        BY <1>0, <2>1, <4>1 DEF IdInv, Logged, rows
    <3>2. CASE q = p /\ HitsInstead(p)
      <4>1. pc'[q] = "session"
        BY <1>0, <1>7, <3>2 DEF ReadDealer, CallsTypeOK
      <4> QED
        BY <4>1 DEF IdInv
    <3>3. CASE q = p /\ ~HitsInstead(p)
      <4>1. call'[q] = call[q]
        BY <1>7, <3>3 DEF ReadDealer
      <4>2. call[q].op \in {"HIT", "STAND"} => pc'[q] = "log"
        BY <1>0, <1>7, <3>3 DEF ReadDealer, CallsTypeOK
      <4> QED
        BY <1>0, <4>1, <4>2 DEF IdInv
    <3> QED
      BY <3>1, <3>2, <3>3
  <2> QED
    BY <2>1, <2>2 DEF IndexInv, StandEndsTurn, rows
<1>8. ASSUME NEW p \in Procs, CheckAction(p) PROVE IndexInv'
  <2>1. UNCHANGED rows
    BY <1>8 DEF CheckAction
  <2>2. CASE \E verdict : Return(p, verdict)
    BY <1>0, <2>1, <2>2, ReturnKeepsIds
  <2>3. CASE /\ ~SeenBefore(p)
             /\ pc' = [pc EXCEPT ![p] = "commit"] /\ UNCHANGED <<call, got, answer>>
    <3>1. ASSUME NEW q \in Procs PROVE IdInv(q)'
      <4>1. call'[q] = call[q] /\ got'[q] = got[q] /\ (q # p => pc'[q] = pc[q])
        BY <1>0, <2>3 DEF CallsTypeOK
      <4> QED
        BY <1>0, <2>1, <2>3, <4>1 DEF IdInv, SeenBefore, Logged, rows
    <3> QED
      BY <2>1, <3>1 DEF IndexInv, StandEndsTurn, rows
  <2> QED
    BY <1>8, <2>2, <2>3 DEF CheckAction
<1>9. ASSUME NEW p \in Procs, CommitFails(p) \/ CallDies(p) PROVE IndexInv'
  <2>1. UNCHANGED rows
    BY <1>9 DEF CommitFails, CallDies
  <2>2. \E verdict : Return(p, verdict)
    BY <1>9 DEF CommitFails, CallDies
  <2> QED
    BY <1>0, <2>1, <2>2, ReturnKeepsIds
<1>10. ASSUME NEW p \in Procs,
              \/ CommitHit(p) \/ CommitStand(p) \/ CommitForfeit(p)
              \/ CommitDealerDraw(p) \/ CommitResult(p)
       PROVE  IndexInv'
  <2>1. sess'.version = sess.version + 1 /\ \E verdict : Return(p, verdict)
    BY <1>0, <1>10, CommitBumpsVersion
  <2>2. ASSUME NEW q \in Procs PROVE IdInv(q)'
    <3>1. CASE q = p
      BY <1>0, <2>1, <3>1 DEF CallsTypeOK, Return, IdInv, NoCall
    <3>2. CASE q # p
      <4>1. pc'[q] = pc[q] /\ call'[q] = call[q] /\ got'[q] = got[q]
        BY <1>0, <2>1, <3>2 DEF CallsTypeOK, Return
      <4>2. sess.version \in Nat /\ got[q].sess.version \in Nat
        BY <1>0, RoundFacts DEF CallsTypeOK, Rows, Session
      <4>3. pc[q] = "commit" => got[q].sess.version <= sess.version
        BY <1>0 DEF CallInv, Holding
      <4> QED
        BY <1>0, <2>1, <4>1, <4>2, <4>3 DEF IdInv
    <3> QED
      BY <3>1, <3>2
  <2>3. StandEndsTurn'
    <3>0. /\ VersionMatches(p) /\ pc[p] = "commit" /\ sess \in Session
          /\ Versioned(sess).status = sess.status
      BY <1>10, RoundFacts DEF CommitHit, CommitStand, CommitForfeit, CommitDealerDraw, CommitResult
    <3>1. CASE CommitHit(p)
      <4>1. actionLog' = actionLog \cup {LogEntry(call[p].action, "HIT", call[p].ver)}
        BY <3>1 DEF CommitHit
      <4>2. sess.status = "PLAYER_TURN"
        BY <1>0, <3>0, <3>1, CommitHoldsRows DEF CommitHit
      <4> QED
        BY <1>0, <4>1, <4>2 DEF LogEntry, StandEndsTurn, IndexInv
    <3>2. CASE CommitStand(p) \/ CommitForfeit(p) \/ CommitResult(p)
      <4>1. sess'.status # "PLAYER_TURN"
        <5>1. got[p].sess = sess
          BY <1>0, <3>0, CommitHoldsRows
        <5>2. CASE CommitStand(p)
          BY <3>0, <5>1, <5>2, RoundFacts DEF CommitStand, Session
        <5>3. CASE CommitForfeit(p) \/ CommitResult(p)
          BY <3>0, <5>1, <5>3, RoundFacts DEF CommitForfeit, CommitResult, Finish, Session
        <5> QED
          BY <3>2, <5>2, <5>3
      <4> QED
        BY <4>1 DEF StandEndsTurn
    <3>3. CASE CommitDealerDraw(p)
      <4>1. got[p].sess = sess /\ sess.status = "DEALER_TURN"
        BY <1>0, <3>0, <3>3, CommitHoldsRows DEF CommitDealerDraw
      <4>2. sess'.status # "PLAYER_TURN"
        BY <3>0, <3>3, <4>1, RoundFacts DEF CommitDealerDraw, Session
      <4> QED
        BY <4>2 DEF StandEndsTurn
    <3> QED
      BY <1>10, <3>1, <3>2, <3>3
  <2> QED
    BY <2>2, <2>3 DEF IndexInv
<1> QED
  BY <1>1, <1>2, <1>3, <1>4, <1>5, <1>6, <1>7, <1>8, <1>9, <1>10, NextCases

\* A commit the version lets through is refused by an index in one case only:
\* a forfeit whose id one of the player's hits has used. Whatever else is logged
\* under a call's id, or in round_logs, has moved the version.
THEOREM OnlyReusedIdsInTheWay == Spec => []OnlyReusedIdsBlock
<1>1. Init => RoundInv /\ IndexInv
  BY InitRoundInv, InitIndexInv
<1>2. (RoundInv /\ IndexInv) /\ [Next]_vars => (RoundInv /\ IndexInv)'
  BY NextRoundInv, NextIndexInv
<1>3. RoundInv /\ IndexInv => OnlyReusedIdsBlock
  <2> SUFFICES ASSUME RoundInv, IndexInv, NEW p \in Procs, pc[p] = "commit",
                      VersionMatches(p), IndexFires(p)
               PROVE  /\ call[p].op = "TIMEOUT" /\ roundLog = {}
                      /\ \E l \in Hits : l.action = ForfeitId(sess.version + 1)
    BY DEF OnlyReusedIdsBlock
  <2>1. /\ call[p].op = "TIMEOUT" => sess.status = "PLAYER_TURN"
        /\ call[p].op = "DEALER" => sess.status = "DEALER_TURN"
    BY RoundFacts, CommitHoldsRows
  <2>2. sess.status # "RESETTING" => roundLog = {} /\ ~Forfeited
    BY DEF RoundInv, ResultInv, ResultMatchesTable
  <2>3. call[p].op \in {"HIT", "STAND"} => ~Logged(call[p].action)
    BY DEF IndexInv, IdInv, VersionMatches
  <2>4. call[p].op = "TIMEOUT" /\ Logged(ForfeitId(sess.version + 1))
    BY <2>1, <2>2, <2>3 DEF IndexFires, VersionMatches
  <2>5. PICK l \in actionLog : l.action = ForfeitId(sess.version + 1)
    BY <2>4 DEF Logged
  <2>6. l.op \in {"HIT", "STAND", "TIME_FORFEIT"}
    BY <2>5 DEF RoundInv, TypeOK, RowsTypeOK, LogEntries
  <2>7. l.op # "STAND" /\ l.op # "TIME_FORFEIT"
    BY <2>1, <2>2, <2>4, <2>5 DEF IndexInv, StandEndsTurn, Forfeited
  <2> QED
    BY <2>1, <2>2, <2>4, <2>5, <2>6, <2>7 DEF Hits
<1> QED
  BY <1>1, <1>2, <1>3, PTL DEF Spec
----------------------------------------------------------------------------
(* The game at a table.                                                    *)

\* The two modules read the same rules.
LEMMA SameRules ==
  ASSUME NEW hand, NEW other
  PROVE  /\ Table!IsBlackjack(hand) <=> IsBlackjack(hand)
         /\ Table!IsBust(hand) <=> IsBust(hand)
         /\ Table!DealerDraws(hand) <=> DealerDraws(hand)
         /\ Table!ResolveRoundOutcome(hand, other) = ResolveRoundOutcome(hand, other)
<1>1. ASSUME NEW h PROVE Table!Value(h) = Value(h)
  <2>1. ASSUME NEW S PROVE Table!Cardinality(S) = Cardinality(S)
    BY DEF Cardinality, Table!Cardinality
  <2>2. ASSUME NEW value PROVE Table!Count(h, value) = Count(h, value)
    BY <2>1 DEF Count, Table!Count
  <2>3. Table!HardValue(h) = HardValue(h)
    BY <2>2 DEF HardValue, Table!HardValue
  <2>4. Table!HasAce(h) <=> HasAce(h)
    BY DEF HasAce, Ace, Table!HasAce, Table!Ace
  <2> QED
    BY <2>3, <2>4 DEF Value, Table!Value
<1>2. ASSUME NEW h
      PROVE  /\ Table!IsBust(h) <=> IsBust(h)
             /\ Table!IsBlackjack(h) <=> IsBlackjack(h)
  BY <1>1 DEF IsBust, IsBlackjack, Table!IsBust, Table!IsBlackjack
<1>3. Table!DealerDraws(hand) <=> DealerDraws(hand)
  BY <1>1, <1>2 DEF DealerDraws, Table!DealerDraws
<1>4. Table!ResolveRoundOutcome(hand, other) = ResolveRoundOutcome(hand, other)
  BY <1>1 DEF ResolveRoundOutcome, IsBust, IsBlackjack,
              Table!ResolveRoundOutcome, Table!IsBust, Table!IsBlackjack
<1> QED
  BY <1>2, <1>3, <1>4

LEMMA InitTable == Init => Table!Init
BY DEF Init, Table!Init, NoSession, NoPlayer, NoDealer

LEMMA StepOfTable ==
  ASSUME RoundInv, PhasesAgree, [Next]_vars
  PROVE  Table!Next \/ UNCHANGED Table!vars
<1>0. \A q \in Procs : CallInv(q)
  BY RoundFacts
<1>c. CanDraw(sess) /\ sess.status # "NONE" =>
        Table!CardsLeft /\ NextCard(sess) = Table!TopCard
  BY DealtHands DEF CanDraw, NextCard, Table!CardsLeft, Table!TopCard
<1>1. CASE UNCHANGED <<room, round>>
  BY <1>1 DEF round, Table!vars
<1>2. ASSUME NEW deck \in Decks, StartRoom(deck) PROVE Table!Deal
  <2>1. /\ sess.status = "NONE" /\ player = NoPlayer
    BY <1>2, RoundFacts DEF StartRoom, NotStarted
  <2> QED
    BY <1>2, <2>1, StartFields, SameRules DEF Table!Deal, NoPlayer
<1>3. ASSUME NEW p \in Procs, CommitHit(p) PROVE Table!PlayerHits
  <2> DEFINE hand == Append(player.hand, NextCard(sess))
             over == IsBust(hand) \/ IsBlackjack(hand)
  <2>1. /\ sess.status = "PLAYER_TURN" /\ player.status = "ACTIVE" /\ CanDraw(sess)
        /\ sess'.status = (IF over THEN "DEALER_TURN" ELSE "PLAYER_TURN")
        /\ sess'.deck = sess.deck
        /\ player'.hand = hand /\ player'.outcome = player.outcome
        /\ player'.status # "STAND"
        /\ dealer' = dealer
    BY <1>3, HitFields
  <2>2. Table!CardsLeft /\ player'.hand = Append(player.hand, Table!TopCard)
    BY <1>c, <2>1
  <2>3. (Table!IsBust(hand) \/ Table!IsBlackjack(hand)) <=> over
    BY SameRules
  <2> HIDE DEF hand, over
  <2> QED
    BY <2>1, <2>2, <2>3 DEF Table!PlayerHits
<1>4. ASSUME NEW p \in Procs, CommitStand(p) PROVE Table!PlayerStands
  BY <1>4, StandFields DEF Table!PlayerStands
<1>5. ASSUME NEW p \in Procs, CommitForfeit(p) PROVE Table!PlayerForfeits
  <2>1. sess.status = "PLAYER_TURN" /\ FinishOnRows("LOSE", "STAND")
    BY <1>0, <1>5, ForfeitOnRows
  <2> QED
    BY <2>1, EndFields DEF Table!PlayerForfeits
<1>6. ASSUME NEW p \in Procs, CommitDealerDraw(p) PROVE Table!DealerTakesCard
  BY <1>6, <1>c, DrawFields, SameRules DEF Table!DealerTakesCard
<1>7. ASSUME NEW p \in Procs, CommitResult(p) PROVE Table!Settle
  <2> DEFINE outcome == ResolveRoundOutcome(player.hand, dealer.hand)
  <2>1. /\ sess.status = "DEALER_TURN" /\ ~DealerDraws(dealer.hand)
        /\ FinishOnRows(outcome, player.status)
    BY <1>0, <1>7, ResultOnRows
  <2>2. /\ sess'.status = "RESETTING" /\ sess'.deck = sess.deck
        /\ player'.hand = player.hand /\ dealer'.hand = dealer.hand
        /\ player'.outcome = outcome /\ player'.status = player.status
    BY <2>1, EndFields
  <2>3. ~Table!DealerDraws(dealer.hand) /\ outcome = Table!ResolveRoundOutcome(player.hand, dealer.hand)
    BY <2>1, SameRules
  <2> HIDE DEF outcome
  <2> QED
    BY <2>1, <2>2, <2>3 DEF Table!Settle
<1> QED
  BY <1>1, <1>2, <1>3, <1>4, <1>5, <1>6, <1>7, RoundStep DEF Table!Next

\* The rows implement the game at a table, whatever calls race on them: every
\* commit of any caller is one move of the player or of the dealer, and every
\* other step moves nothing.
THEOREM RowsPlayAtTheTable == Spec => PlaysAtTheTable
<1>1. Init => RoundInv /\ PhasesAgree /\ Table!Init
  BY InitRoundInv, InitPhasesAgree, InitTable
<1>2. (RoundInv /\ PhasesAgree) /\ [Next]_vars => (RoundInv /\ PhasesAgree)'
  BY NextRoundInv, NextPhasesAgree
<1>3. (RoundInv /\ PhasesAgree) /\ [Next]_vars => [Table!Next]_(Table!vars)
  BY StepOfTable
<1> QED
  BY <1>1, <1>2, <1>3, PTL DEF Spec, PlaysAtTheTable, Table!Spec

----------------------------------------------------------------------------
(* The deck.                                                               *)

\* The most cards a round can use: a player who is not bust holds at most 21
\* and takes one more, the dealer at most 16 and takes one more.
MostCards == 39

\* No hand grows past what it weighs.
HandsAreSmall ==
  /\ Weighs(player.hand) /\ Weighs(dealer.hand)
  /\ Len(player.hand) <= 22 /\ Len(dealer.hand) <= 17
  /\ sess.status = "PLAYER_TURN" => ~IsBust(player.hand)

\* A session as some call read it, maybe long ago.
HasFullDeck(s) == s.status # "NONE" => s.deck \in Decks /\ s.draw <= MostCards

DeckIsLarge == HasFullDeck(sess) /\ \A p \in Procs : HasFullDeck(got[p].sess)

LEMMA InitHandsAreSmall == Init => HandsAreSmall
BY NoCards DEF Init, HandsAreSmall, Weighs, NoSession, NoPlayer, NoDealer

LEMMA NextHandsAreSmall ==
  ASSUME RoundInv, HandsAreSmall, [Next]_vars
  PROVE  HandsAreSmall'
<1>0. /\ player.hand \in Seq(Card) /\ dealer.hand \in Seq(Card) /\ sess \in Session
      /\ Weighs(player.hand) /\ Weighs(dealer.hand)
  BY RoundFacts DEF HandsAreSmall
<1>1. CASE UNCHANGED <<room, round>>
  BY <1>1 DEF round, HandsAreSmall
<1>2. ASSUME NEW deck \in Decks, StartRoom(deck) PROVE HandsAreSmall'
  <2>1. /\ player'.hand = <<deck[1], deck[3]>> /\ dealer'.hand = <<deck[2], deck[4]>>
    BY <1>2, StartFields
  <2>2. \A i \in 1..4 : deck[i] \in Card
    BY DecksAssumption
  <2>3. /\ Weighs(<<deck[1], deck[3]>>) /\ ~IsBust(<<deck[1], deck[3]>>)
        /\ Weighs(<<deck[2], deck[4]>>)
    <3>1. ASSUME NEW a \in Card, NEW b \in Card PROVE Weighs(<<a, b>>) /\ ~IsBust(<<a, b>>)
      BY TwoCardsWeigh, TwoCardsAreNotBust
    <3> QED
      BY <2>2, <3>1
  <2> QED
    BY <2>1, <2>3 DEF HandsAreSmall
<1>3. ASSUME NEW p \in Procs, CommitHit(p) PROVE HandsAreSmall'
  <2> DEFINE hand == Append(player.hand, NextCard(sess))
  <2>1. /\ sess.status = "PLAYER_TURN" /\ CanDraw(sess)
        /\ player'.hand = hand /\ dealer' = dealer /\ Len(hand) = Len(player.hand) + 1
        /\ sess'.status = "PLAYER_TURN" => ~IsBust(hand)
    BY <1>3, HitFields
  <2>2. Weighs(hand)
    BY <1>0, <2>1, NextCardType, OneMoreWeighs
  <2>3. Len(player.hand) \in Nat /\ Len(player.hand) <= 21
    BY <1>0, <2>1, SmallHands DEF HandsAreSmall
  <2> HIDE DEF hand
  <2> QED
    BY <2>1, <2>2, <2>3 DEF HandsAreSmall
<1>4. ASSUME NEW p \in Procs, CommitStand(p) PROVE HandsAreSmall'
  BY <1>4, StandFields DEF HandsAreSmall
<1>5. ASSUME NEW p \in Procs, CommitForfeit(p) \/ CommitResult(p) PROVE HandsAreSmall'
  <2>1. \E outcome, status : FinishOnRows(outcome, status)
    BY <1>5, RoundFacts, ForfeitOnRows, ResultOnRows
  <2>2. /\ sess'.status = "RESETTING"
        /\ player'.hand = player.hand /\ dealer'.hand = dealer.hand
    BY <2>1, EndFields
  <2> QED
    BY <2>2 DEF HandsAreSmall
<1>6. ASSUME NEW p \in Procs, CommitDealerDraw(p) PROVE HandsAreSmall'
  <2> DEFINE hand == Append(dealer.hand, NextCard(sess))
  <2>1. /\ sess'.status = "DEALER_TURN" /\ DealerDraws(dealer.hand) /\ CanDraw(sess)
        /\ dealer'.hand = hand /\ player' = player /\ Len(hand) = Len(dealer.hand) + 1
    BY <1>6, DrawFields
  <2>2. Weighs(hand)
    BY <1>0, <2>1, NextCardType, OneMoreWeighs
  <2>3. Len(dealer.hand) \in Nat /\ Len(dealer.hand) <= 16
    BY <1>0, <2>1, SmallHands
  <2> HIDE DEF hand
  <2> QED
    BY <2>1, <2>2, <2>3 DEF HandsAreSmall
<1> QED
  BY <1>1, <1>2, <1>3, <1>4, <1>5, <1>6, RoundStep

\* What a caller holds of the session is what it held, what the row was when it
\* read it, or nothing.
LEMMA HeldSessions ==
  ASSUME TypeOK, [Next]_vars, NEW q \in Procs
  PROVE  got'[q].sess \in {NoSession, sess, got[q].sess}
<1>0. got \in [Procs -> Rows]
  BY DEF TypeOK, CallsTypeOK
<1>1. ASSUME NEW p \in Procs, NEW c, Call(p, c) PROVE got'[q].sess \in {sess, got[q].sess}
  <2>1. got' = [got EXCEPT ![p] = [NoRows EXCEPT !.sess = sess]]
    BY <1>1 DEF Call
  <2> QED
    BY <1>0, <2>1 DEF NoRows
<1>2. ASSUME NEW p \in Procs, NEW verdict, Return(p, verdict)
      PROVE  got'[q].sess \in {NoSession, got[q].sess}
  BY <1>0, <1>2 DEF Return, NoRows
<1>3. ASSUME NEW p \in Procs, ReadPlayer(p) PROVE got'[q].sess = got[q].sess
  BY <1>0, <1>3 DEF ReadPlayer, Rows
<1>4. ASSUME NEW p \in Procs, ReadDealer(p) PROVE got'[q].sess \in {NoSession, got[q].sess}
  BY <1>0, <1>4 DEF ReadDealer, Rows, NoRows
<1>5. CASE UNCHANGED got
  BY <1>5
<1>6. CASE Next
  <2>1. ASSUME NEW c \in Clients, NEW op \in {"HIT", "STAND"}, NEW ver \in 1..sess.version,
               NEW id \in ActionIds, Request(c, op, ver, id)
        PROVE  got'[q].sess \in {NoSession, sess, got[q].sess}
    BY <1>1, <1>2, <2>1, CallerIsProc DEF Request
  <2>2. ASSUME NEW w \in Workers, TakeDueTurn(w) \/ TakeDealerTurn(w) \/ ReadSessionAgain(w)
        PROVE  got'[q].sess \in {NoSession, sess, got[q].sess}
    BY <1>1, <1>2, <2>2, CallerIsProc DEF TakeDueTurn, TakeDealerTurn, ReadSessionAgain
  <2>3. ASSUME NEW p \in Procs,
               \/ CommitHit(p) \/ CommitStand(p) \/ CommitForfeit(p)
               \/ CommitDealerDraw(p) \/ CommitResult(p) \/ CommitFails(p) \/ CallDies(p)
        PROVE  got'[q].sess \in {NoSession, sess, got[q].sess}
    BY <1>2, <2>3
       DEF CommitHit, CommitStand, CommitForfeit, Finish, CommitDealerDraw, CommitResult,
           CommitFails, CallDies
  <2>4. ASSUME NEW p \in Procs, CheckAction(p)
        PROVE  got'[q].sess \in {NoSession, sess, got[q].sess}
    BY <1>2, <2>4 DEF CheckAction
  <2>5. ASSUME \/ \E deck \in Decks : StartRoom(deck)
               \/ DeadlinePasses
        PROVE  UNCHANGED got
    BY <2>5 DEF StartRoom, DeadlinePasses, local
  <2> QED
    BY <1>3, <1>4, <1>6, <2>1, <2>2, <2>3, <2>4, <2>5, NextCases
<1> QED
  BY <1>5, <1>6 DEF vars

LEMMA NextDeckIsLarge ==
  ASSUME RoundInv, HandsAreSmall, DeckIsLarge, [Next]_vars
  PROVE  DeckIsLarge'
<1>1. RoundInv' /\ HandsAreSmall'
  BY NextRoundInv, NextHandsAreSmall
<1>2. HasFullDeck(sess)'
  <2> SUFFICES ASSUME sess'.status # "NONE" PROVE sess'.deck \in Decks /\ sess'.draw <= MostCards
    BY DEF HasFullDeck
  <2>1. sess'.draw <= MostCards
    <3>1. /\ Len(player'.hand) \in Nat /\ Len(dealer'.hand) \in Nat
          /\ Len(player'.hand) + Len(dealer'.hand) = sess'.draw
      BY <1>1 DEF RoundInv, DeckInv, CardsComeFromDeck, TypeOK, RowsTypeOK, Player, Dealer
    <3>2. Len(player'.hand) <= 22 /\ Len(dealer'.hand) <= 17
      BY <1>1 DEF HandsAreSmall
    <3>3. \A a, b \in Nat : a <= 22 /\ b <= 17 => a + b <= 39
      OBVIOUS
    <3> QED
      BY <3>1, <3>2, <3>3 DEF MostCards
  <2>2. sess'.deck \in Decks
    <3>1. CASE UNCHANGED <<room, round>>
      BY <3>1 DEF round, DeckIsLarge, HasFullDeck
    <3>2. ASSUME NEW deck \in Decks, StartRoom(deck) PROVE sess'.deck \in Decks
      BY <3>2, StartFields
    <3>3. ASSUME NEW p \in Procs,
                 \/ CommitHit(p) \/ CommitStand(p) \/ CommitForfeit(p)
                 \/ CommitDealerDraw(p) \/ CommitResult(p)
          PROVE  sess'.deck \in Decks
      <4>1. sess.status # "NONE"
        BY <3>3, CommitBumpsVersion, RoundFacts DEF RoundInv
      <4>2. sess'.deck = sess.deck
        BY <3>3, RoundFacts, HitFields, StandFields, DrawFields, ForfeitOnRows, ResultOnRows,
           EndFields
      <4> QED
        BY <4>1, <4>2 DEF DeckIsLarge, HasFullDeck
    <3> QED
      BY <3>1, <3>2, <3>3, RoundStep
  <2> QED
    BY <2>1, <2>2
<1>3. ASSUME NEW q \in Procs PROVE HasFullDeck(got'[q].sess)
  BY HeldSessions DEF RoundInv, DeckIsLarge, HasFullDeck, NoSession
<1> QED
  BY <1>2, <1>3 DEF DeckIsLarge, HasFullDeck

\* A deck of 52 cards (newShuffledDeck) is never used up, however long the player
\* goes on hitting and the dealer drawing and however late a caller commits: the
\* error of DrawCard that would leave a round without an end cannot be returned.
THEOREM DeckNeverRunsOut ==
  ASSUME \A deck \in Decks : Len(deck) > MostCards
  PROVE  Spec => [](\A p \in Procs : pc[p] = "commit" => ~NoCardLeft(p))
<1> DEFINE Inv == RoundInv /\ HandsAreSmall /\ DeckIsLarge
           Goal == \A p \in Procs : pc[p] = "commit" => ~NoCardLeft(p)
<1>1. Init => Inv
  BY InitRoundInv, InitHandsAreSmall DEF Init, DeckIsLarge, HasFullDeck, NoSession, NoRows
<1>2. Inv /\ [Next]_vars => Inv'
  BY NextRoundInv, NextHandsAreSmall, NextDeckIsLarge
<1>3. Inv => Goal
  <2> SUFFICES ASSUME Inv, NEW p \in Procs, pc[p] = "commit", NoCardLeft(p) PROVE FALSE
    OBVIOUS
  <2> DEFINE s == got[p].sess
  <2>1. s.status \in {"PLAYER_TURN", "DEALER_TURN"} /\ ~CanDraw(s)
    BY RoundFacts DEF CallInv, Holding, CanHitOrStand, NoCardLeft
  <2>2. s.deck \in Decks /\ s.draw <= MostCards
    BY <2>1 DEF DeckIsLarge, HasFullDeck
  <2>3. s.draw \in Nat
    BY DEF RoundInv, TypeOK, CallsTypeOK, Rows, Session
  <2>4. Len(s.deck) > MostCards /\ Len(s.deck) \in Nat
    BY <2>2, DecksAssumption
  <2> QED
    BY <2>1, <2>2, <2>3, <2>4 DEF CanDraw, MostCards
<1> QED
  BY <1>1, <1>2, <1>3, PTL DEF Spec
=============================================================================
