---------------------------- MODULE GameSession ----------------------------
(***************************************************************************)
(* One round of blackjack as the backend plays it: the rows of one         *)
(* game_session with its player_state, dealer_state, action_logs and       *)
(* round_logs, and every caller that reads them, computes on its copy and  *)
(* writes the result back under an optimistic version check.               *)
(*                                                                         *)
(* The callers are                                                         *)
(*   Clients   the requests of the seated player in flight (Hit, Stand;    *)
(*             several tabs, retries and both transports at once), and     *)
(*   Workers   the auto-stand worker of each server instance, which ends   *)
(*             turns whose deadline has passed and plays the dealer.       *)
(*                                                                         *)
(* Nothing locks between a read and the commit: each statement of a call   *)
(* (GetSession, GetPlayerState, GetDealerState, GetActionLogByActionID)    *)
(* is a step of its own, and the database transaction that ends the call   *)
(* is one step, because its first statement is the compare-and-swap on the *)
(* session row.  A call may also die at any point (an error of the store,  *)
(* a lost connection, the end of the process).                             *)
(***************************************************************************)
EXTENDS Hands

CONSTANTS
  Clients,           \* requests of the player that may be in flight
  Workers,           \* server instances, one auto-stand worker each
  HeuristicWorkers,  \* instances with BLACKJACK_PLAYER_TIMEOUT_POLICY=heuristic
  FailingCalls,      \* callers whose calls may die half way
  ActionIds,         \* action ids the clients use: any, the workers' ones too
  Decks              \* shuffled decks a round may start from

Procs == Clients \cup Workers

ASSUME CallersAssumption ==
  /\ Clients \cap Workers = {}
  /\ HeuristicWorkers \subseteq Workers
  /\ FailingCalls \subseteq Procs

\* newShuffledDeck gives 52 cards: enough for the initial deal.
ASSUME DecksAssumption ==
  \A deck \in Decks : deck \in Seq(Card) /\ Len(deck) >= 4

VARIABLES
  room,       \* rooms: status, and whether current_session_id is this session
  sess,       \* game_sessions
  player,     \* player_states: the one human seat
  dealer,     \* dealer_states
  actionLog,  \* action_logs of the session: id, operation and version hashed
  roundLog,   \* round_logs of the session
  due,        \* the clock has passed turn_deadline_at
  pc,         \* where each caller stands in its call
  call,       \* what each caller was asked to do
  got,        \* the rows each caller has read
  answer      \* the last answer given to a client

rows  == <<room, sess, player, dealer, actionLog, roundLog>>
local == <<pc, call, got>>
vars  == <<room, sess, player, dealer, actionLog, roundLog, due, pc, call, got, answer>>

\* The ids a worker derives from the version it read or wrote. They are logged
\* under the player's user id like the ids the player's clients send, so one
\* unique index covers both, and a client may have used one of them before.
AutoHitId(version) == [from |-> "auto-heuristic-hit", id |-> version]
ForfeitId(version) == [from |-> "time-forfeit", id |-> version]
NoAction == [from |-> "none", id |-> 0]

\* playerTurn refuses an empty action_id and takes any other.
ASSUME ActionIdsAssumption == NoAction \notin ActionIds

LogEntry(action, op, version) == [action |-> action, op |-> op, ver |-> version]

Logged(action) == \E l \in actionLog : l.action = action

NoSession == [status |-> "NONE", version |-> 0, deck |-> <<>>, draw |-> 0,
              deadline |-> FALSE, rematch |-> FALSE]
NoPlayer  == [hand |-> <<>>, status |-> "NONE", outcome |-> "NONE", score |-> 0]
NoDealer  == [hand |-> <<>>, hidden |-> TRUE, score |-> 0]
NoCall    == [op |-> "NONE", ver |-> 0, action |-> NoAction]
NoRows    == [sess |-> NoSession, player |-> NoPlayer, dealer |-> NoDealer]

Init ==
  /\ room = [status |-> "READY", current |-> FALSE]
  /\ sess = NoSession /\ player = NoPlayer /\ dealer = NoDealer
  /\ actionLog = {} /\ roundLog = {}
  /\ due = FALSE
  /\ pc = [p \in Procs |-> "idle"]
  /\ call = [p \in Procs |-> NoCall]
  /\ got = [p \in Procs |-> NoRows]
  /\ answer = "none"

----------------------------------------------------------------------------
(* The start of the round.                                                 *)

\* A mutant: the dealer's first card is left in the deck.
InitialDeal_SkipsDealer(deck) ==
  [player |-> <<deck[1], deck[2]>>, dealer |-> <<deck[3], deck[4]>>, draw |-> 4]

\* initialDeal: player, dealer, player, dealer.
InitialDeal(deck) ==
  [player |-> <<deck[1], deck[3]>>, dealer |-> <<deck[2], deck[4]>>, draw |-> 4]

\* StartRoom on a READY room.  Of two concurrent starts the second fails on
\* the unique index (room_id, round_no), so the start is one step.
StartRoom(deck) ==
  LET dealt   == InitialDeal(deck)
      natural == IsBlackjack(dealt.player)
  IN
  /\ room.status = "READY" /\ ~room.current
  /\ room' = [status |-> "PLAYING", current |-> TRUE]
  /\ sess' = [status   |-> IF natural THEN "DEALER_TURN" ELSE "PLAYER_TURN",
              version  |-> 1,
              deck     |-> deck,
              draw     |-> dealt.draw,
              deadline |-> ~natural,
              rematch  |-> FALSE]
  /\ player' = [NoPlayer EXCEPT !.hand = dealt.player,
                                !.status = IF natural THEN "BLACKJACK" ELSE "ACTIVE"]
  /\ dealer' = [NoDealer EXCEPT !.hand = dealt.dealer]
  /\ due' = FALSE
  /\ UNCHANGED <<actionLog, roundLog, local, answer>>

\* The clock reaches the deadline of the turn.
DeadlinePasses ==
  /\ sess.deadline /\ ~due
  /\ due' = TRUE
  /\ UNCHANGED <<rows, local, answer>>

----------------------------------------------------------------------------
(* Reading.                                                                *)

\* The call of p ends; a client gets its answer.
Return(p, verdict) ==
  /\ pc' = [pc EXCEPT ![p] = "idle"]
  /\ call' = [call EXCEPT ![p] = NoCall]
  /\ got' = [got EXCEPT ![p] = NoRows]
  /\ answer' = IF p \in Clients THEN verdict ELSE answer

Call(p, c) ==
  /\ pc' = [pc EXCEPT ![p] = "player"]
  /\ call' = [call EXCEPT ![p] = c]
  /\ got' = [got EXCEPT ![p] = [NoRows EXCEPT !.sess = sess]]
  /\ UNCHANGED answer

\* playerTurn up to CheckVersion: the request names a version the client has
\* seen, which may be an old one.
Request(c, op, ver, id) ==
  /\ pc[c] = "idle" /\ sess.status # "NONE"
  /\ ver \in 1..sess.version
  /\ IF ver = sess.version
     THEN Call(c, [op |-> op, ver |-> ver, action |-> id])
     ELSE Return(c, "version_conflict")
  /\ UNCHANGED <<rows, due>>

\* A mutant: the worker takes a turn before its deadline.
TurnIsDue_Early == sess.status = "PLAYER_TURN" /\ sess.deadline

TurnIsDue == sess.status = "PLAYER_TURN" /\ sess.deadline /\ due

\* playerStand's read of the session: nothing happens unless it is due.
TakeDueTurn(w) ==
  /\ pc[w] = "idle"
  /\ TurnIsDue
  /\ Call(w, [op |-> "TIMEOUT", ver |-> sess.version, action |-> NoAction])
  /\ UNCHANGED <<rows, due>>

\* dealerTurn's read of the session.
TakeDealerTurn(w) ==
  /\ pc[w] = "idle"
  /\ sess.status = "DEALER_TURN"
  /\ Call(w, [op |-> "DEALER", ver |-> sess.version, action |-> NoAction])
  /\ UNCHANGED <<rows, due>>

\* GetPlayerState / ListPlayerStatesBySessionID.
ReadPlayer(p) ==
  /\ pc[p] = "player"
  /\ got' = [got EXCEPT ![p].player = player]
  /\ pc' = [pc EXCEPT ![p] = "dealer"]
  /\ UNCHANGED <<rows, due, call, answer>>

HitsInstead(p) ==
  /\ p \in HeuristicWorkers /\ call[p].op = "TIMEOUT"
  /\ RecommendHit(got[p].player.hand, dealer.hand[1])

\* GetDealerState; then a worker under the heuristic policy that should hit
\* calls Hit with the version it read and an action id made from it.
ReadDealer(p) ==
  /\ pc[p] = "dealer"
  /\ IF HitsInstead(p)
     THEN /\ pc' = [pc EXCEPT ![p] = "session"]
          /\ call' = [call EXCEPT ![p] =
                        [op |-> "HIT", ver |-> @.ver, action |-> AutoHitId(@.ver)]]
          /\ got' = [got EXCEPT ![p] = NoRows]
     ELSE /\ pc' = [pc EXCEPT ![p] =
                      IF call[p].op \in {"HIT", "STAND"} THEN "log" ELSE "commit"]
          /\ got' = [got EXCEPT ![p].dealer = dealer]
          /\ UNCHANGED call
  /\ UNCHANGED <<rows, due, answer>>

\* The worker's Hit reads the session again and checks the version.
ReadSessionAgain(w) ==
  /\ pc[w] = "session"
  /\ IF call[w].ver = sess.version
     THEN Call(w, call[w])
     ELSE Return(w, "version_conflict")
  /\ UNCHANGED <<rows, due>>

\* AssertCanHitOrStand, on the rows as they were read.
CanHitOrStand(p) == got[p].sess.status = "PLAYER_TURN" /\ got[p].player.status = "ACTIVE"

\* A mutant: the log is not looked at.
SeenBefore_Never(p) == FALSE

SeenBefore(p) == Logged(call[p].action)

\* AssertCanHitOrStand and EnsureActionIdempotency: an action id already
\* logged is a replay when the payload is the same, a duplicate otherwise.
CheckAction(p) ==
  /\ pc[p] = "log"
  /\ IF ~CanHitOrStand(p) THEN Return(p, "rejected")
     ELSE IF SeenBefore(p)
     THEN Return(p, IF LogEntry(call[p].action, call[p].op, call[p].ver) \in actionLog
                    THEN "replayed" ELSE "duplicate_action")
     ELSE pc' = [pc EXCEPT ![p] = "commit"] /\ UNCHANGED <<call, got, answer>>
  /\ UNCHANGED <<rows, due>>

----------------------------------------------------------------------------
(* Committing: each transaction writes back what the caller computed from  *)
(* the rows it read.                                                       *)

\* A mutant: the update matches on the id alone.
VersionMatches_Blind(p) == TRUE

\* UpdateSessionIfVersion's WHERE id AND version.
VersionMatches(p) == sess.version = got[p].sess.version

\* A mutant: a draw does not count as a change.
NextVersion_KeptOnDraw(s) == IF s.status = "DEALER_TURN" THEN s.version ELSE s.version + 1

NextVersion(s) == s.version + 1

\* DrawCard: the next card of the deck, or an error when there is none left.
CanDraw(s) == s.draw < Len(s.deck)
NextCard(s) == s.deck[s.draw + 1]

SetsRoomPlaying == room' = [status |-> "PLAYING", current |-> TRUE]

\* Every session write but the status, the deadlines and the deck's index.
Versioned(s) == [s EXCEPT !.version = NextVersion(s)]

\* A mutant: the deadline is cleared on every hit.
DeadlineAfterHit_Cleared(over) == FALSE

\* playerTurn: a hit that leaves the turn to the player renews its deadline.
DeadlineAfterHit(over) == ~over

\* playerTurn, hit.
CommitHit(p) ==
  LET s    == got[p].sess
      hand == Append(got[p].player.hand, NextCard(s))
      over == IsBust(hand) \/ IsBlackjack(hand)
  IN
  /\ pc[p] = "commit" /\ call[p].op = "HIT" /\ VersionMatches(p)
  /\ CanDraw(s) /\ ~Logged(call[p].action)
  /\ sess' = [Versioned(s) EXCEPT !.draw = @ + 1,
                                  !.status = IF over THEN "DEALER_TURN" ELSE @,
                                  !.deadline = DeadlineAfterHit(over)]
  /\ player' = [got[p].player EXCEPT !.hand = hand,
                                     !.status = IF IsBust(hand) THEN "BUST"
                                                ELSE IF over THEN "BLACKJACK" ELSE @]
  /\ dealer' = got[p].dealer
  /\ actionLog' = actionLog \cup {LogEntry(call[p].action, "HIT", call[p].ver)}
  /\ due' = FALSE
  /\ SetsRoomPlaying
  /\ Return(p, "ok")
  /\ UNCHANGED roundLog

\* playerTurn, stand.
CommitStand(p) ==
  /\ pc[p] = "commit" /\ call[p].op = "STAND" /\ VersionMatches(p)
  /\ ~Logged(call[p].action)
  /\ sess' = [Versioned(got[p].sess) EXCEPT !.status = "DEALER_TURN", !.deadline = FALSE]
  /\ player' = [got[p].player EXCEPT !.status = "STAND"]
  /\ dealer' = got[p].dealer
  /\ actionLog' = actionLog \cup {LogEntry(call[p].action, "STAND", call[p].ver)}
  /\ due' = FALSE
  /\ SetsRoomPlaying
  /\ Return(p, "ok")
  /\ UNCHANGED roundLog

\* dealerresult and dealerresultTimeForfeit: the hole card is shown, the
\* session passes through RESULT to RESETTING, outcome and scores are set on
\* both states and logged once per (session, round).
Finish(p, outcome, playerStatus) ==
  LET ph == got[p].player.hand
      dh == got[p].dealer.hand
  IN
  /\ roundLog = {}
  /\ sess' = [Versioned(got[p].sess) EXCEPT !.status = "RESETTING",
                                            !.deadline = FALSE, !.rematch = TRUE]
  /\ player' = [got[p].player EXCEPT !.status = playerStatus, !.outcome = outcome,
                                     !.score = Value(ph)]
  /\ dealer' = [got[p].dealer EXCEPT !.hidden = FALSE, !.score = Value(dh)]
  /\ roundLog' = {[outcome |-> outcome, player |-> Value(ph), dealer |-> Value(dh)]}
  /\ due' = FALSE
  /\ SetsRoomPlaying
  /\ Return(p, "ok")

\* playerStand: the turn is over time and the round is lost whatever the
\* hands are.
CommitForfeit(w) ==
  LET id == ForfeitId(got[w].sess.version + 1)
  IN
  /\ pc[w] = "commit" /\ call[w].op = "TIMEOUT" /\ VersionMatches(w)
  /\ ~Logged(id)
  /\ Finish(w, "LOSE", "STAND")
  /\ actionLog' = actionLog \cup {LogEntry(id, "TIME_FORFEIT", got[w].sess.version + 1)}

\* dealerTurn, one card.  Only the session and the dealer are written.
CommitDealerDraw(w) ==
  LET s == got[w].sess
  IN
  /\ pc[w] = "commit" /\ call[w].op = "DEALER" /\ VersionMatches(w)
  /\ DealerDraws(got[w].dealer.hand) /\ CanDraw(s)
  /\ sess' = [Versioned(s) EXCEPT !.draw = @ + 1]
  /\ dealer' = [got[w].dealer EXCEPT !.hand = Append(@, NextCard(s))]
  /\ Return(w, "ok")
  /\ UNCHANGED <<room, player, actionLog, roundLog, due>>

\* dealerTurn, the dealer stands or is bust: the hands decide.
CommitResult(w) ==
  /\ pc[w] = "commit" /\ call[w].op = "DEALER" /\ VersionMatches(w)
  /\ ~DealerDraws(got[w].dealer.hand)
  /\ Finish(w, ResolveRoundOutcome(got[w].player.hand, got[w].dealer.hand),
            got[w].player.status)
  /\ UNCHANGED actionLog

\* DrawCard's error on a used-up deck, before the transaction is opened.
NoCardLeft(p) ==
  /\ call[p].op = "HIT" \/ (call[p].op = "DEALER" /\ DealerDraws(got[p].dealer.hand))
  /\ ~CanDraw(got[p].sess)

\* The unique indexes of action_logs and round_logs.
IndexFires(p) ==
  \/ call[p].op \in {"HIT", "STAND"} /\ Logged(call[p].action)
  \/ call[p].op = "TIMEOUT" /\ Logged(ForfeitId(got[p].sess.version + 1))
  \/ /\ call[p].op = "TIMEOUT" \/ (call[p].op = "DEALER" /\ ~DealerDraws(got[p].dealer.hand))
     /\ roundLog # {}

\* The transaction is not opened, or is rolled back: no row has the version
\* any more, or an index fires.
CommitFails(p) ==
  /\ pc[p] = "commit"
  /\ NoCardLeft(p) \/ ~VersionMatches(p) \/ IndexFires(p)
  /\ Return(p, IF ~NoCardLeft(p) /\ ~VersionMatches(p) THEN "version_conflict" ELSE "rejected")
  /\ UNCHANGED <<rows, due>>

\* The call dies: nothing it has not committed is left behind.
CallDies(p) ==
  /\ p \in FailingCalls /\ pc[p] # "idle"
  /\ Return(p, "rejected")
  /\ UNCHANGED <<rows, due>>

----------------------------------------------------------------------------

Commit(p) ==
  \/ CommitHit(p) \/ CommitStand(p) \/ CommitForfeit(p)
  \/ CommitDealerDraw(p) \/ CommitResult(p) \/ CommitFails(p)

\* The steps of a call after the first.
Continue(p) == ReadPlayer(p) \/ ReadDealer(p) \/ CheckAction(p) \/ Commit(p)

ClientStep(c) ==
  \/ \E op \in {"HIT", "STAND"}, ver \in 1..sess.version, id \in ActionIds :
       Request(c, op, ver, id)
  \/ Continue(c)

WorkerStep(w) ==
  TakeDueTurn(w) \/ TakeDealerTurn(w) \/ ReadSessionAgain(w) \/ Continue(w)

Next ==
  \/ \E deck \in Decks : StartRoom(deck)
  \/ DeadlinePasses
  \/ \E c \in Clients : ClientStep(c)
  \/ \E w \in Workers : WorkerStep(w)
  \/ \E p \in Procs : CallDies(p)

Spec == Init /\ [][Next]_vars

\* The clock runs, and the worker of an instance whose calls do not die is
\* scheduled once a second (runAutoStandWorker).
Fairness ==
  /\ WF_vars(DeadlinePasses)
  /\ \A w \in Workers \ FailingCalls : WF_vars(WorkerStep(w))

FairSpec == Spec /\ Fairness

----------------------------------------------------------------------------
(* Properties.                                                             *)

SessionStatus == {"NONE", "PLAYER_TURN", "DEALER_TURN", "RESETTING"}
PlayerStatus  == {"NONE", "ACTIVE", "STAND", "BUST", "BLACKJACK"}
Outcome       == {"WIN", "LOSE", "PUSH"}

Session == [status : SessionStatus, version : Nat, deck : Seq(Card), draw : Nat,
            deadline : BOOLEAN, rematch : BOOLEAN]
Player  == [hand : Seq(Card), status : PlayerStatus, outcome : Outcome \cup {"NONE"},
            score : Int]
Dealer  == [hand : Seq(Card), hidden : BOOLEAN, score : Int]
Action  == ActionIds \cup [from : {"auto-heuristic-hit", "time-forfeit"}, id : Nat]
LogEntries == [action : Action, op : {"HIT", "STAND", "TIME_FORFEIT"}, ver : Nat]
Rows    == [sess : Session, player : Player, dealer : Dealer]
Calls   == [op : {"HIT", "STAND"}, ver : Nat, action : Action]
             \cup [op : {"NONE", "TIMEOUT", "DEALER"}, ver : Nat, action : {NoAction}]

\* The rows have the types of the schema, and no result is logged without an
\* outcome.
RowsTypeOK ==
  /\ room \in [status : {"READY", "PLAYING"}, current : BOOLEAN]
  /\ sess \in Session /\ player \in Player /\ dealer \in Dealer
  /\ actionLog \subseteq LogEntries
  /\ roundLog \subseteq [outcome : Outcome, player : Int, dealer : Int]
  /\ due \in BOOLEAN

\* So have the callers' copies of them.
CallsTypeOK ==
  /\ pc \in [Procs -> {"idle", "session", "player", "dealer", "log", "commit"}]
  /\ call \in [Procs -> Calls]
  /\ got \in [Procs -> Rows]
  /\ answer \in {"none", "ok", "replayed", "duplicate_action", "version_conflict", "rejected"}

\* The type invariant of the rows and of the calls in flight.
TypeOK == RowsTypeOK /\ CallsTypeOK

\* A call reads its three rows in three statements with no lock. Whenever the
\* version it read is still the current one, the rows it holds are the
\* current rows, so what it commits is computed from one consistent state.
SnapshotIsConsistent ==
  \A p \in Procs :
    /\ pc[p] \in {"player", "dealer", "log", "commit"}
    /\ got[p].sess.version = sess.version
    => /\ got[p].sess = sess
       /\ pc[p] # "player" => got[p].player = player
       /\ pc[p] \in {"log", "commit"} => got[p].dealer = dealer

\* No card is dealt twice, skipped or lost: the two hands are the first
\* draw_index cards of the deck, in the order of the table.
CardsComeFromDeck ==
  LET mine == player.hand
      theirs == dealer.hand
  IN
  sess.status # "NONE" =>
    /\ Len(mine) >= 2 /\ Len(theirs) >= 2
    /\ Len(mine) + Len(theirs) = sess.draw /\ sess.draw <= Len(sess.deck)
    /\ mine[1] = sess.deck[1] /\ mine[2] = sess.deck[3]
    /\ theirs[1] = sess.deck[2] /\ theirs[2] = sess.deck[4]
    /\ \A i \in 3..Len(mine) : mine[i] = sess.deck[i + 2]
    /\ \A i \in 3..Len(theirs) : theirs[i] = sess.deck[Len(mine) + i]

Hits == {l \in actionLog : l.op = "HIT"}
Forfeited == \E l \in actionLog : l.op = "TIME_FORFEIT"

\* Every commit counts once: a logged hit is one card of the player's, and
\* the version is one more than the number of logged actions, dealer draws
\* and results. An update lost or applied twice breaks the sum.
EveryCommitCounted ==
  sess.status # "NONE" =>
    /\ Len(player.hand) = 2 + Cardinality(Hits)
    /\ sess.version = 1 + Cardinality(actionLog) + (Len(dealer.hand) - 2)
                        + (IF sess.status = "RESETTING" /\ ~Forfeited THEN 1 ELSE 0)

\* The round is decided exactly when it is over: one round log, agreeing with
\* the states it was written with, on the hands that lie on the table; the
\* dealer stopped where the rules say unless the player ran out of time.
ResultMatchesTable ==
  IF sess.status = "RESETTING"
  THEN /\ roundLog = {[outcome |-> player.outcome, player |-> player.score,
                       dealer |-> dealer.score]}
       /\ player.score = Value(player.hand) /\ dealer.score = Value(dealer.hand)
       /\ ~dealer.hidden
       /\ IF Forfeited
          THEN player.outcome = "LOSE" /\ Len(dealer.hand) = 2
          ELSE /\ ~DealerDraws(dealer.hand)
               /\ player.outcome = ResolveRoundOutcome(player.hand, dealer.hand)
  ELSE roundLog = {} /\ player.outcome = "NONE" /\ dealer.hidden

\* The phase of the session, the seat's status and the player's hand agree,
\* and a turn deadline runs exactly while the player may act.
PhasesAgree ==
  /\ sess.deadline <=> sess.status = "PLAYER_TURN"
  /\ sess.rematch <=> sess.status = "RESETTING"
  /\ player.status = "ACTIVE" <=> sess.status = "PLAYER_TURN"
  /\ sess.status = "PLAYER_TURN" => Len(dealer.hand) = 2
  /\ sess.status # "NONE" =>
       /\ player.status = "BUST" <=> IsBust(player.hand)
       /\ player.status = "BLACKJACK" <=> IsBlackjack(player.hand)

\* The unique indexes on action_logs and round_logs roll a commit back that the
\* version would let through in one case only: the forfeit of an open turn
\* whose id one of the player's own hits has used before. Hits, stands, results
\* and the index on round_logs are never in the way.
OnlyReusedIdsBlock ==
  \A p \in Procs :
    pc[p] = "commit" /\ VersionMatches(p) /\ IndexFires(p) =>
      /\ call[p].op = "TIMEOUT" /\ roundLog = {}
      /\ \E l \in Hits : l.action = ForfeitId(sess.version + 1)

round == <<sess, player, dealer, actionLog, roundLog>>

\* No step changes a started round without moving its version by one: two
\* different states of the round never share a version.
VersionNamesState ==
  [][sess.status # "NONE" /\ round' # round => sess'.version = sess.version + 1]_vars

\* A round that has its result is never touched again by a late hit, a late
\* stand or another worker.
ResultIsFinal == [][sess.status = "RESETTING" => UNCHANGED round]_vars

\* A round is forfeited only while the turn is still open and its current
\* deadline has passed: a hit that commits between the worker's read and its
\* commit renews the deadline and saves the round.
ForfeitOnlyWhenOverdue ==
  [][Forfeited' /\ ~Forfeited => due /\ sess.status = "PLAYER_TURN"]_vars

\* The id with which worker w would log the end of this turn has been used: its
\* hit answers duplicate_action and its forfeit is rolled back at every tick.
IdIsTaken(w) ==
  IF w \in HeuristicWorkers /\ RecommendHit(player.hand, dealer.hand[1])
  THEN Logged(AutoHitId(sess.version))
  ELSE Logged(ForfeitId(sess.version + 1))

TurnIsBlocked ==
  sess.status = "PLAYER_TURN" /\ \A w \in Workers \ FailingCalls : IdIsTaken(w)

\* Every round that starts gets its result, unless it stays for ever in a turn
\* that no worker can end because a client has used the worker's action id.
RoundFinishes ==
  (sess.status # "NONE") ~> (sess.status = "RESETTING" \/ []TurnIsBlocked)

Table == INSTANCE BlackjackRound WITH
  phase  <- CASE sess.status = "PLAYER_TURN" -> "PLAYER"
              [] sess.status = "DEALER_TURN" -> "DEALER"
              [] sess.status = "RESETTING"   -> "OVER"
              [] OTHER                       -> "NONE",
  deck   <- sess.deck,
  mine   <- player.hand,
  theirs <- dealer.hand,
  stood  <- player.status = "STAND",
  result <- player.outcome

\* The rows behave as a game at a table, whatever calls race on them.
PlaysAtTheTable == Table!Spec

(* Claims of the documents that the code does not keep.                    *)

\* docs, section 4.4.4: a turn that runs out of time is an automatic STAND,
\* so the hands decide the round.
TimeoutStands ==
  sess.status = "RESETTING" =>
    player.outcome = ResolveRoundOutcome(player.hand, dealer.hand)

\* manual-checklist.md, section 5: the same action id sent again with the same
\* payload is an idempotent resend. Stated of a request that arrives when the
\* action is already logged.
ResendIsReplayed ==
  [][\A c \in Clients, op \in {"HIT", "STAND"}, ver \in 1..sess.version, id \in ActionIds :
       /\ Request(c, op, ver, id)
       /\ LogEntry(id, op, ver) \in actionLog
       => answer' # "version_conflict"]_vars
============================================================================
