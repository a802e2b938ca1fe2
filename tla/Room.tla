-------------------------------- MODULE Room --------------------------------
(***************************************************************************)
(* One room: its row, the row of its one seat, and the rounds played in    *)
(* it, under every request of the host, the WebSocket handlers that mark   *)
(* the seat connected or disconnected, and the auto-stand workers.         *)
(*                                                                         *)
(* Only the host may join (JoinRoom), so a room has one seat and the host  *)
(* sits on it.  The cards are left to GameSession: here a round is its     *)
(* status, its version and its rematch vote.  What matters is that a       *)
(* request reads the room, the seat and the session in separate statements *)
(* and then writes the room and the seat back whole (gorm's Save), with no *)
(* version and no lock; only the session row has them.  A Save of a row    *)
(* that is gone inserts it again.                                          *)
(***************************************************************************)
EXTENDS Integers, FiniteSets

CONSTANTS
  Callers,      \* requests of the host that may be in flight
  Requests,     \* the kinds of requests they make
  Sockets,      \* WebSocket connections opening or closing
  Workers,      \* server instances, one auto-stand worker each
  FailingCalls, \* those of them whose calls may die half way
  MaxSessions,  \* bound: rounds created
  MaxVersion    \* bound: versions of a round while it is played

Kinds == {"join", "leave", "start", "act", "vote", "reset"}
Procs == Callers \cup Sockets \cup Workers

ASSUME ProcsAssumption ==
  /\ Requests \subseteq Kinds
  /\ Callers \cap Sockets = {} /\ Callers \cap Workers = {} /\ Sockets \cap Workers = {}
  /\ FailingCalls \subseteq Procs
  /\ MaxSessions \in Nat /\ MaxVersion \in Nat

VARIABLES
  room,    \* rooms: status and current_session_id (0 is NULL)
  seat,    \* room_players: the status of the host's row, NONE without one
  sess,    \* game_sessions by id, in order of creation; NONE is no row; taken: its
           \* action_logs have the id of the forfeit of this version
  lastId,  \* sessions created so far
  locked,  \* game_sessions rows held FOR UPDATE
  pc,      \* where each call stands
  got      \* what each call has read and still uses

vars == <<room, seat, sess, lastId, locked, pc, got>>

Ids == 1..MaxSessions
NoRow == [status |-> "NONE", round |-> 0, version |-> 0, vote |-> "NONE", due |-> "unset",
          taken |-> FALSE]
NothingRead == [id |-> 0, round |-> 0, version |-> 0, asked |-> 0, seat |-> "NONE",
                agree |-> FALSE]

Seated == {"ACTIVE", "DISCONNECTED"}
Rows   == {i \in Ids : sess[i].status # "NONE"}
Live   == {i \in Rows : sess[i].status # "RESETTING"}

\* GetLatestSessionByRoomID: ORDER BY created_at DESC.
Latest == IF Rows = {} THEN 0 ELSE CHOOSE i \in Rows : \A j \in Rows : j <= i

Init ==
  /\ room = [status |-> "WAITING", current |-> 0]
  /\ seat = "NONE"
  /\ sess = [i \in Ids |-> NoRow]
  /\ lastId = 0
  /\ locked = {}
  /\ pc = [p \in Procs |-> "idle"]
  /\ got = [p \in Procs |-> NothingRead]

\* The call goes on, or ends.
Goto(p, next, copy) == pc' = [pc EXCEPT ![p] = next] /\ got' = [got EXCEPT ![p] = copy]
Return(p) == Goto(p, "idle", NothingRead)

\* A mutant: the room's round is not passed on.
RoomWith_NoSession(current, seated) ==
  [status |-> IF seated THEN "READY" ELSE "WAITING", current |-> current]

\* RecalculateStatus(activeHumanPlayers, hasActiveSession) for one seat.
RoomWith(current, seated) ==
  [status  |-> IF current # 0 THEN "PLAYING" ELSE IF seated THEN "READY" ELSE "WAITING",
   current |-> current]

\* A mutant: the index on (room_id, round_no) is missing.
RoundTaken_NoIndex(r) == FALSE

\* The unique index on (room_id, round_no).
RoundTaken(r) == \E i \in Rows : sess[i].round = r

\* CreateSession: dealt, and the player's turn unless the player has a natural.
Created(r, status) == [NoRow EXCEPT !.status = status, !.round = r, !.version = 1]

AfterDeal == {"PLAYER_TURN", "DEALER_TURN"}

\* A mutant: nobody looks at how many rows were updated.
Matches_Ignored(p) == got[p].id \notin locked

\* UpdateSessionIfVersion; it waits for a lock on the row.
Matches(p) ==
  /\ got[p].id \notin locked
  /\ got[p].id \in Rows /\ sess[got[p].id].version = got[p].version

\* The update finds no row with the version; the transaction is rolled back.
Conflict(p) ==
  /\ got[p].id \notin locked /\ ~Matches(p)
  /\ Return(p)
  /\ UNCHANGED <<room, seat, sess, lastId, locked>>

----------------------------------------------------------------------------
(* JoinRoom.                                                               *)

JoinReadsRoom(p) ==
  /\ pc[p] = "idle" /\ "join" \in Requests
  /\ room.status \in {"WAITING", "READY"}
  /\ Goto(p, "join.list", NothingRead)
  /\ UNCHANGED <<room, seat, sess, lastId, locked>>

\* Once outside and once inside the transaction; a seat taken ends the call.
JoinReadsSeat(p) ==
  /\ pc[p] \in {"join.list", "join.tx"}
  /\ IF seat \in Seated THEN Return(p)
     ELSE Goto(p, IF pc[p] = "join.list" THEN "join.tx" ELSE "join.commit",
               [NothingRead EXCEPT !.seat = seat])
  /\ UNCHANGED <<room, seat, sess, lastId, locked>>

\* Either insert a row (the primary key refuses a second one) or save the
\* LEFT row as ACTIVE; then save the room read at the start.
JoinCommits(p) ==
  /\ pc[p] = "join.commit"
  /\ IF got[p].seat = "NONE" /\ seat # "NONE"
     THEN UNCHANGED <<room, seat>>
     ELSE seat' = "ACTIVE" /\ room' = RoomWith(0, TRUE)
  /\ Return(p)
  /\ UNCHANGED <<sess, lastId, locked>>

----------------------------------------------------------------------------
(* LeaveRoom.                                                              *)

\* A mutant: the room's round is not looked at.
MayLeave_Always == TRUE

\* Nobody leaves while the room has a round.
MayLeave == room.current = 0

LeaveReadsRoom(p) ==
  /\ pc[p] = "idle" /\ "leave" \in Requests
  /\ MayLeave
  /\ Goto(p, "leave.seat", NothingRead)
  /\ UNCHANGED <<room, seat, sess, lastId, locked>>

LeaveReadsSeat(p) ==
  /\ pc[p] = "leave.seat"
  /\ IF seat \in Seated THEN Goto(p, "leave.commit", NothingRead) ELSE Return(p)
  /\ UNCHANGED <<room, seat, sess, lastId, locked>>

LeaveCommits(p) ==
  /\ pc[p] = "leave.commit"
  /\ seat' = "LEFT" /\ room' = RoomWith(0, FALSE)
  /\ Return(p)
  /\ UNCHANGED <<sess, lastId, locked>>

----------------------------------------------------------------------------
(* StartRoom.                                                              *)

StartReadsRoom(p) ==
  /\ pc[p] = "idle" /\ "start" \in Requests
  /\ room.status = "READY" /\ room.current = 0
  /\ Goto(p, "start.seat", NothingRead)
  /\ UNCHANGED <<room, seat, sess, lastId, locked>>

StartReadsSeat(p) ==
  /\ pc[p] = "start.seat"
  /\ IF seat \in Seated THEN Goto(p, "start.latest", NothingRead) ELSE Return(p)
  /\ UNCHANGED <<room, seat, sess, lastId, locked>>

StartReadsLatest(p) ==
  /\ pc[p] = "start.latest"
  /\ Goto(p, "start.commit",
          [NothingRead EXCEPT !.round = IF Rows = {} THEN 1 ELSE sess[Latest].round + 1])
  /\ UNCHANGED <<room, seat, sess, lastId, locked>>

\* The insert fails and rolls the transaction back: on the index or, a bound of
\* the model, when MaxSessions rounds have been created.
CannotOpen(r) == RoundTaken(r) \/ lastId = MaxSessions

\* A new round beside the others, and the room pointing at it.
Opens(others, r, status) ==
  /\ lastId' = lastId + 1
  /\ sess' = [others EXCEPT ![lastId + 1] = Created(r, status)]
  /\ room' = RoomWith(lastId + 1, TRUE)

StartCommits(p) ==
  /\ pc[p] = "start.commit"
  /\ IF CannotOpen(got[p].round) THEN UNCHANGED <<room, sess, lastId>>
     ELSE \E status \in AfterDeal : Opens(sess, got[p].round, status)
  /\ Return(p)
  /\ UNCHANGED <<seat, locked>>

----------------------------------------------------------------------------
(* Hit and Stand.                                                          *)

ActReadsRoom(p) ==
  /\ pc[p] = "idle" /\ "act" \in Requests
  /\ room.current # 0
  /\ Goto(p, "act.session", [NothingRead EXCEPT !.id = room.current])
  /\ UNCHANGED <<room, seat, sess, lastId, locked>>

ActReadsSession(p) ==
  /\ pc[p] = "act.session"
  /\ IF sess[got[p].id].status = "PLAYER_TURN"
     THEN Goto(p, "act.commit", [got[p] EXCEPT !.version = sess[got[p].id].version])
     ELSE Return(p)
  /\ UNCHANGED <<room, seat, sess, lastId, locked>>

\* A session write of a call: a status and the next version, if the row is there.
Written(i, status, taken) ==
  IF i \in Rows
  THEN [sess EXCEPT ![i].status = status, ![i].version = @ + 1, ![i].taken = taken]
  ELSE sess

\* The action id of a hit is the client's choice: it may be the one that the
\* forfeit of the version the hit writes would be logged under.
ActCommits(p) ==
  /\ pc[p] = "act.commit" /\ Matches(p)
  /\ \E status \in {"PLAYER_TURN", "DEALER_TURN"}, taken \in BOOLEAN :
       /\ status = "PLAYER_TURN" => got[p].version < MaxVersion
       /\ taken => status = "PLAYER_TURN"
       /\ sess' = Written(got[p].id, status, taken)
  /\ room' = RoomWith(got[p].id, TRUE)
  /\ Return(p)
  /\ UNCHANGED <<seat, lastId, locked>>

ActFails(p) == pc[p] = "act.commit" /\ Conflict(p)

----------------------------------------------------------------------------
(* VoteRematch.                                                            *)

\* The versions a client may name: expected_version is any positive number, and
\* larger ones are refused like one that no round reaches.
Versions == 1..(MaxVersion + 3)

\* The latest round, whether or not the room still points at it. The version it
\* has is not compared with the one the client names until the row is locked.
VoteReadsLatest(p) ==
  /\ pc[p] = "idle" /\ "vote" \in Requests
  /\ seat # "NONE" /\ Rows # {}
  /\ \E agree \in BOOLEAN, asked \in Versions :
       Goto(p, "vote.tx", [NothingRead EXCEPT !.id = Latest, !.version = sess[Latest].version,
                                              !.asked = asked, !.agree = agree])
  /\ UNCHANGED <<room, seat, sess, lastId, locked>>

\* GetSessionForUpdate, then the checks under the lock: the round is over, its
\* version is the one named, and the voter is on the seat.
VoteLocks(p) ==
  /\ pc[p] = "vote.tx" /\ got[p].id \notin locked
  /\ IF /\ got[p].id \in Rows /\ sess[got[p].id].status = "RESETTING"
        /\ sess[got[p].id].version = got[p].asked
        /\ seat \in Seated
     THEN locked' = locked \cup {got[p].id} /\ Goto(p, "vote.commit", got[p])
     ELSE Return(p) /\ UNCHANGED locked
  /\ UNCHANGED <<room, seat, sess, lastId>>

\* A mutant: the finished round keeps its version when the next one opens.
VersionAfterRematch_Kept(v) == v

VersionAfterRematch(v) == v + 1

\* rematchUnanimousSuccessTx and finalizeRematchFailureTx: all of it or, when
\* the round number is taken, nothing.
ClosesRematch(i, vote, agreed) ==
  IF ~agreed
  THEN /\ sess' = [sess EXCEPT ![i].vote = vote]
       /\ room' = RoomWith(0, seat \in Seated)
       /\ UNCHANGED lastId
  ELSE IF CannotOpen(sess[i].round + 1) THEN UNCHANGED <<room, sess, lastId>>
  ELSE \E status \in AfterDeal :
         Opens([sess EXCEPT ![i].vote = vote, ![i].version = VersionAfterRematch(@)],
               sess[i].round + 1, status)

Unlocks(p) == locked' = locked \ {got[p].id}

\* The one seat decides: its yes is unanimous and its no a denial.
VoteCommits(p) ==
  /\ pc[p] = "vote.commit"
  /\ ClosesRematch(got[p].id, IF got[p].agree THEN "AGREE" ELSE "DENY", got[p].agree)
  /\ Unlocks(p) /\ Return(p)
  /\ UNCHANGED seat

----------------------------------------------------------------------------
(* ResetRoomForDebug: the rounds and the seat are deleted.  The deletion   *)
(* waits for every lock on a round.                                        *)

Resets(p) ==
  /\ pc[p] = "idle" /\ "reset" \in Requests
  /\ locked = {}
  /\ room' = RoomWith(0, FALSE)
  /\ seat' = "NONE"
  /\ sess' = [i \in Ids |-> NoRow]
  /\ UNCHANGED <<lastId, locked, pc, got>>

----------------------------------------------------------------------------
(* MarkConnected and MarkDisconnected: read the row, save it whole.        *)

SocketReads(p) ==
  /\ pc[p] = "idle" /\ seat \in Seated
  /\ \E status \in Seated \ {seat} :
       Goto(p, "seat.save", [NothingRead EXCEPT !.seat = status])
  /\ UNCHANGED <<room, seat, sess, lastId, locked>>

SocketSaves(p) ==
  /\ pc[p] = "seat.save"
  /\ seat' = got[p].seat
  /\ Return(p)
  /\ UNCHANGED <<room, sess, lastId, locked>>

----------------------------------------------------------------------------
(* AutoStandDueSessions, one round at a time.                              *)

\* playerStand and dealerTurn read the round (its deadline may have passed at
\* any time).
WorkerReads(w, i) ==
  /\ pc[w] = "idle" /\ i \in Live
  /\ Goto(w, "turn.commit", [NothingRead EXCEPT !.id = i, !.version = sess[i].version])
  /\ UNCHANGED <<room, seat, sess, lastId, locked>>

\* A mutant: the result does not start the clock of the rematch.
DueAfterResult_Unset == "unset"

\* SetRematchDeadline, when the result is written.
DueAfterResult == "running"

\* The turn is forfeited, or the dealer stops: the result is written and the
\* room points at the round it belongs to.
WorkerEndsRound(w) ==
  /\ pc[w] = "turn.commit" /\ Matches(w) /\ ~sess[got[w].id].taken
  /\ sess' = [Written(got[w].id, "RESETTING", FALSE) EXCEPT ![got[w].id].due = DueAfterResult]
  /\ room' = RoomWith(got[w].id, TRUE)
  /\ Return(w)
  /\ UNCHANGED <<seat, lastId, locked>>

\* The dealer draws a card: the room is not written.
WorkerDraws(w) ==
  /\ pc[w] = "turn.commit" /\ Matches(w)
  /\ sess[got[w].id].status = "DEALER_TURN" /\ got[w].version < MaxVersion
  /\ sess' = Written(got[w].id, "DEALER_TURN", FALSE)
  /\ Return(w)
  /\ UNCHANGED <<room, seat, lastId, locked>>

\* The row has moved on; or the forfeit is written and its action log refused by
\* the unique index, which rolls the transaction back.
WorkerFails(w) ==
  /\ pc[w] = "turn.commit"
  /\ \/ Conflict(w)
     \/ /\ Matches(w) /\ sess[got[w].id].taken
        /\ Return(w)
        /\ UNCHANGED <<room, seat, sess, lastId, locked>>

\* The clock passes rematch_deadline_at.
RematchFallsDue(i) ==
  /\ sess[i].due = "running"
  /\ sess' = [sess EXCEPT ![i].due = "past"]
  /\ UNCHANGED <<room, seat, lastId, locked, pc, got>>

\* A rematch is settled for the room that still points at its round.
StillCurrent_Unasked(i) == TRUE
StillCurrent(i) == room.current = i

\* processRematchDeadline: lock the round; go on if it is due and the room
\* still points at it; read the seat and the votes.
DeadlineLocks(w, i) ==
  /\ pc[w] = "idle" /\ i \notin locked
  /\ sess[i].status = "RESETTING" /\ sess[i].due = "past" /\ StillCurrent(i)
  /\ locked' = locked \cup {i}
  /\ Goto(w, "due.commit", [NothingRead EXCEPT !.id = i, !.seat = seat])
  /\ UNCHANGED <<room, seat, sess, lastId>>

\* Rematch only if the seat agreed; a seat that did not vote did not.
DeadlineCommits(w) ==
  /\ pc[w] = "due.commit"
  /\ LET i == got[w].id
     IN ClosesRematch(i, sess[i].vote, got[w].seat \in Seated /\ sess[i].vote = "AGREE")
  /\ Unlocks(w) /\ Return(w)
  /\ UNCHANGED seat

----------------------------------------------------------------------------

HoldsLock(p) == pc[p] \in {"vote.commit", "due.commit"}

\* The call dies; the database rolls its transaction back.
CallDies(p) ==
  /\ p \in FailingCalls /\ pc[p] # "idle"
  /\ locked' = IF HoldsLock(p) THEN locked \ {got[p].id} ELSE locked
  /\ Return(p)
  /\ UNCHANGED <<room, seat, sess, lastId>>

CallerStep(p) ==
  \/ JoinReadsRoom(p) \/ JoinReadsSeat(p) \/ JoinCommits(p)
  \/ LeaveReadsRoom(p) \/ LeaveReadsSeat(p) \/ LeaveCommits(p)
  \/ StartReadsRoom(p) \/ StartReadsSeat(p) \/ StartReadsLatest(p) \/ StartCommits(p)
  \/ ActReadsRoom(p) \/ ActReadsSession(p) \/ ActCommits(p) \/ ActFails(p)
  \/ VoteReadsLatest(p) \/ VoteLocks(p) \/ VoteCommits(p)
  \/ Resets(p)

WorkerStep(w) ==
  \/ \E i \in Ids : WorkerReads(w, i) \/ DeadlineLocks(w, i)
  \/ WorkerEndsRound(w) \/ WorkerDraws(w) \/ WorkerFails(w) \/ DeadlineCommits(w)

Next ==
  \/ \E p \in Callers : CallerStep(p)
  \/ \E p \in Sockets : SocketReads(p) \/ SocketSaves(p)
  \/ \E w \in Workers : WorkerStep(w)
  \/ \E i \in Ids : RematchFallsDue(i)
  \/ \E p \in Procs : CallDies(p)

Spec == Init /\ [][Next]_vars

\* The clock runs, the worker of an instance whose calls do not die is
\* scheduled once a second, a transaction that holds a lock ends, and the
\* database queues those who wait for a lock: no worker is overtaken for ever.
Fairness ==
  /\ \A i \in Ids : WF_vars(RematchFallsDue(i))
  /\ \A w \in Workers \ FailingCalls : SF_vars(WorkerStep(w))
  /\ \A p \in Procs : WF_vars(VoteCommits(p) \/ DeadlineCommits(p))

FairSpec == Spec /\ Fairness

----------------------------------------------------------------------------
(* Properties.                                                             *)

SeatStatus == {"NONE", "ACTIVE", "DISCONNECTED", "LEFT"}
Vote == {"NONE", "AGREE", "DENY"}

Session == [status : {"NONE", "PLAYER_TURN", "DEALER_TURN", "RESETTING"},
            round : 0..MaxSessions, version : Nat, vote : Vote,
            due : {"unset", "running", "past"}, taken : BOOLEAN]
Copy == [id : 0..MaxSessions, round : Nat, version : Nat, asked : Nat, seat : SeatStatus,
         agree : BOOLEAN]
Places == {"idle", "join.list", "join.tx", "join.commit", "leave.seat", "leave.commit",
           "start.seat", "start.latest", "start.commit", "act.session", "act.commit",
           "vote.tx", "vote.commit", "seat.save", "turn.commit", "due.commit"}

\* The types of the rows and of the calls in flight; a row is locked exactly
\* while one transaction holds it, and the room is PLAYING exactly while it
\* points at a round.
TypeOK ==
  /\ room \in [status : {"WAITING", "READY", "PLAYING"}, current : 0..MaxSessions]
  /\ room.status = "PLAYING" <=> room.current # 0
  /\ seat \in SeatStatus
  /\ sess \in [Ids -> Session]
  /\ lastId \in 0..MaxSessions
  /\ pc \in [Procs -> Places]
  /\ got \in [Procs -> Copy]
  /\ locked = {got[p].id : p \in {q \in Procs : HoldsLock(q)}}
  /\ \A p, q \in Procs : HoldsLock(p) /\ HoldsLock(q) /\ got[p].id = got[q].id => p = q

\* The round a room points at exists, however a reset, a late hit or a late
\* worker interleave: no call writes back a round that was deleted meanwhile.
CurrentRoundExists == room.current # 0 => room.current \in Rows

\* Rounds are numbered one after another, whether StartRoom, a vote or the
\* deadline opened them, and however many of them race.
RoundsAreConsecutive == \A i \in 1..lastId : sess[i].round = i

\* A vote commits that names a version its round did not have yet when the call
\* read it.
VoteFromAhead(i) ==
  \E p \in Procs : got[p].id = i /\ got[p].asked # got[p].version /\ VoteCommits(p)

\* A rematch that was agreed on is settled: no vote that read the round before
\* the agreement, with the version it had then, and no deadline decides it again.
\* The code lets one vote through: the one that names the version of the round
\* after the agreement, which its call had not seen.
AgreementIsFinal ==
  [][\A i \in Rows : sess[i].vote = "AGREE" /\ i \in Rows' /\ ~VoteFromAhead(i)
       => sess'[i].vote = "AGREE" /\ sess'[i].version = sess[i].version]_vars

\* While a round is played the room points at it and its player is seated,
\* so that hints, hits, stands and the rematch reach it. Requests of the host
\* that do not overlap keep this true, whatever sockets and workers do.
PlayedRoundIsAttended ==
  \A i \in Live : room.current = i /\ seat \in Seated

\* No room stays with one round for ever: it is played out and then either
\* followed by the next or released, unless the round stays in a turn whose
\* forfeit has lost its action id to a hit.
RoomIsReleased == \A i \in Ids : room.current = i ~> (room.current # i \/ []sess[i].taken)

\* The room as its host sees it: its status, whether its round is in play or over,
\* the number of the last one dealt, and whether a socket is about to write the
\* seat it has read.
Phase == IF room.current = 0 THEN room.status
         ELSE IF room.current \in Live THEN "PLAYED" ELSE "OVER"
Number == IF Rows = {} THEN 0 ELSE sess[Latest].round
Held == \E p \in Sockets : pc[p] = "seat.save"

Life == INSTANCE RoomLife WITH seated <- seat \in Seated, phase <- Phase, round <- Number,
                               held <- Held

\* As long as the requests of the host do not overlap, each of them takes effect
\* at one instant: no copy of a row that another call, a socket or a worker has
\* changed meanwhile brings back a round or a number that was given up. A seat
\* that was given up comes back in two ways only: the host joins, or a socket
\* that had read the seat before writes it back (MarkConnected and
\* MarkDisconnected save the whole row); the room then stays WAITING, where
\* StartRoom refuses.
RequestsAreAtomic == Life!Spec

(* Claims of the documents that the code does not keep.                    *)

\* game_usecase_core_test.go expects LeaveRoom to fail while the room has a
\* round: who left has no round in play.
LeavingEndsNoRound == seat = "LEFT" => Live = {}

\* The specification, section 12.6: the rematch is settled once, and a vote
\* that comes after is refused.
DenialIsFinal ==
  [][\A i \in Rows : sess[i].vote = "DENY" /\ i \in Rows' => sess'[i].vote = "DENY"]_vars
=============================================================================
