------------------------------ MODULE RoomSync ------------------------------
(***************************************************************************)
(* How the state of a room reaches the client, and what the client does    *)
(* with it.  The module adds to Hub                                        *)
(*   - the calls that change the room: requests over HTTP, messages over   *)
(*     a socket and the pass of a worker, each one atomic step here        *)
(*     (GameSession and Room have their steps), followed by a broadcast;   *)
(*   - the broadcast: a snapshot of the hub, for each socket a state read  *)
(*     in several statements and a write, then a notice in Redis;          *)
(*   - the listener of each instance, which serves its own sockets when    *)
(*     another instance gives notice; and                                  *)
(*   - the client, who acts on the state it was last sent.                 *)
(*                                                                         *)
(* A notice reaches a listener at most once.  Nothing orders the           *)
(* broadcasts: a state may be read early and written late.                 *)
(***************************************************************************)
EXTENDS Hub

CONSTANTS
  Calls,        \* calls that come over no socket: requests and worker passes
  CallAt,       \* the instance each of them runs on
  MaxRounds,    \* rounds of the room, a bound of the model
  MaxVersion,   \* version at which a round is over, a bound of the model
  MaxCommits,   \* changes of the room, a bound of the model
  MaxEvents     \* messages over sockets and failures, a bound of the model

ASSUME SyncAssumption ==
  /\ CallAt \in [Calls -> Servers]
  /\ Calls \cap Conns = {} /\ Servers \cap (Calls \cup Conns) = {}
  /\ MaxRounds \in Nat \ {0} /\ MaxVersion \in Nat \ {0}
  /\ MaxCommits \in Nat /\ MaxEvents \in Nat

\* Whoever broadcasts; an instance stands for its listener.
Procs == Conns \cup Calls \cup Servers

VARIABLES
  current,   \* rooms.current_session_id: a round, or 0
  last,      \* rounds opened so far
  version,   \* game_sessions.version of each round
  commits,   \* commits so far
  job,       \* what each process is doing
  queue,     \* notices on their way to each listener
  view,      \* the state each client was last sent
  fresh,     \* processes whose reads of a state all came after the last commit
  told,      \* sockets that were sent a state read after the last commit
  events,    \* messages over sockets and failures so far
  lost       \* an announcement was lost since the last commit

data == <<current, last, version, commits>>
news == <<view, fresh, told>>
syncVars == <<data, job, queue, news, events, lost>>
vars == <<hubVars, syncVars>>

\* A state as the client gets it: the round, the version of the session row,
\* and the version when the last of its hands was read.
NoState == [round |-> 0, ver |-> 0, hands |-> 0]
NoJob == [at |-> "idle", left |-> {}, to |-> NoConn, got |-> NoState]

\* The room is without a round, or has begun its first one.
Init ==
  /\ HubInit
  /\ \/ current = 0 /\ last = 0 /\ version = [r \in 1..MaxRounds |-> 0]
     \/ current = 1 /\ last = 1 /\ version = [r \in 1..MaxRounds |-> IF r = 1 THEN 1 ELSE 0]
  /\ commits = 0
  /\ job = [p \in Procs |-> NoJob]
  /\ queue = [s \in Servers |-> 0]
  /\ view = [c \in Conns |-> NoState] /\ fresh = {} /\ told = {}
  /\ events = 0
  /\ lost = FALSE

\* A message, or a failure.
Happens == events < MaxEvents /\ events' = events + 1

\* The instance a process runs on.
At(p) == IF p \in Conns THEN server[p] ELSE IF p \in Calls THEN CallAt[p] ELSE p

----------------------------------------------------------------------------
(* The calls that change the room.                                         *)

\* StartRoom: a room without a round gets the next one, at version 1.
Opens ==
  /\ last < MaxRounds
  /\ last' = last + 1 /\ current' = last + 1
  /\ version' = [version EXCEPT ![last + 1] = 1]

\* A hit, a stand, a card of the dealer, a result: the next version.
Plays ==
  /\ version[current] < MaxVersion
  /\ version' = [version EXCEPT ![current] = @ + 1]
  /\ UNCHANGED <<current, last>>

\* A mutant: the room keeps pointing at the round that is over.
Rematches_Unpointed ==
  /\ version[last] = MaxVersion /\ last < MaxRounds
  /\ last' = last + 1 /\ current' = current
  /\ version' = [version EXCEPT ![last] = @ + 1, ![last + 1] = 1]

\* A rematch that is agreed on: the next round.  (The vote is about the latest
\* round, which the room may have been released from.)
Rematches ==
  /\ version[last] = MaxVersion /\ last < MaxRounds
  /\ last' = last + 1 /\ current' = last + 1
  /\ version' = [version EXCEPT ![last] = @ + 1, ![last + 1] = 1]

\* One that is denied: the room is released.
Releases ==
  /\ version[last] = MaxVersion
  /\ current' = 0
  /\ UNCHANGED <<last, version>>

\* A commit makes what was read and sent before it old,
Commits ==
  /\ commits < MaxCommits
  /\ commits' = commits + 1
  /\ fresh' = {} /\ told' = {} /\ UNCHANGED view

\* and its announcement makes up for those that were lost before.
Announces(p) ==
  /\ lost' = FALSE
  /\ job' = [job EXCEPT ![p] = [NoJob EXCEPT !.at = "snapshot"]]

\* A mutant: an older version will do.
VersionMatches_OrOlder(saw, round) == saw.ver <= version[round]

\* CheckVersion and UpdateSessionIfVersion: expected_version is the version of
\* the state the client shows; it does not name the round.
VersionMatches(saw, round) == saw.ver = version[round]

\* A hit or a stand is about the round of the room, a vote about the latest.
TurnAccepted(saw) == current # 0 /\ VersionMatches(saw, current)
VoteAccepted(saw) == last # 0 /\ VersionMatches(saw, last)

\* StartRoom over HTTP.
Start(k) ==
  /\ job[k].at = "idle" /\ current = 0
  /\ Opens /\ Commits /\ Announces(k)
  /\ UNCHANGED <<hubVars, queue, events>>

\* JoinRoom and LeaveRoom: the seat and the status of the room change, and it
\* has no round.
Sits(k) ==
  /\ job[k].at = "idle" /\ current = 0
  /\ Commits /\ Announces(k)
  /\ UNCHANGED <<hubVars, current, last, version, queue, events>>

\* A call that changes nothing and broadcasts all the same: a join of one who is
\* there, a leave of one who left, the pass of a worker over a round that
\* somebody else has just advanced.
FindsItDone(k) ==
  /\ job[k].at = "idle"
  /\ job' = [job EXCEPT ![k].at = "snapshot"]
  /\ UNCHANGED <<hubVars, data, queue, news, events, lost>>

\* A hit or a stand is sent over HTTP, by a tab that shows the state of c.
Ask(k, c) ==
  /\ job[k].at = "idle" /\ view[c].round # 0
  /\ job' = [job EXCEPT ![k].at = "act", ![k].got = view[c]]
  /\ UNCHANGED <<hubVars, data, queue, news, events, lost>>

\* HIT, STAND or REMATCH_VOTE over the socket passes the check of the epoch. (It
\* may be under way for as long as it likes: see TurnAction.)
Receive(c) ==
  /\ c \in open /\ view[c].round # 0 /\ Happens
  /\ Accept(c)
  /\ job' = [job EXCEPT ![c].at = "act", ![c].got = view[c]]
  /\ UNCHANGED <<data, queue, news, lost>>

\* ROOM_SYNC_REQUEST: a broadcast and nothing else.
AskForSync(c) ==
  /\ c \in open /\ Happens
  /\ Accept(c)
  /\ job' = [job EXCEPT ![c].at = "snapshot"]
  /\ UNCHANGED <<data, queue, news, lost>>

\* A message finds that its connection is not the current one.
Superseded(c) ==
  /\ c \in open /\ Happens
  /\ Refuse(c)
  /\ UNCHANGED <<data, job, queue, news, lost>>

\* Any other answer than a change: the handler goes on to the next message.
Answered(p) ==
  /\ job' = [job EXCEPT ![p] = [NoJob EXCEPT !.at = IF p \in Calls THEN "done" ELSE "idle"]]
  /\ IF p \in Conns THEN Proceed(p) ELSE UNCHANGED hubVars

\* turnAction and handleGameWSAction: a change and a broadcast, or an error
\* (version_conflict, a state that does not allow it) and none. A rematch is
\* voted on over the socket only.
TurnAction(p) ==
  /\ job[p].at = "act"
  /\ \/ /\ \/ TurnAccepted(job[p].got) /\ Plays
           \/ p \in Conns /\ VoteAccepted(job[p].got) /\ (Rematches \/ Releases)
        /\ Commits /\ Announces(p)
        /\ UNCHANGED hubVars
     \/ Answered(p) /\ UNCHANGED <<data, news, lost>>
  /\ UNCHANGED <<queue, events>>

\* runAutoStandWorker: the round is advanced; then the batch reaches its end
\* and its rooms are broadcast, or another session of the batch has an error
\* and no room is.
Tick(k) ==
  /\ job[k].at = "idle" /\ current # 0
  /\ Plays \/ Rematches \/ Releases
  /\ Commits
  /\ \/ Announces(k) /\ UNCHANGED events
     \/ Happens /\ lost' = TRUE /\ job' = [job EXCEPT ![k] = [NoJob EXCEPT !.at = "done"]]
  /\ UNCHANGED <<hubVars, queue>>

----------------------------------------------------------------------------
(* broadcastRoomState.                                                     *)

\* A connection in its opening broadcasts first of all.
AboutToOpen(c) == stage[c] = "opening" /\ job[c].at = "idle"

\* hub.snapshot.
Snapshot(p) ==
  /\ job[p].at = "snapshot" \/ (p \in Conns /\ AboutToOpen(p))
  /\ job' = [job EXCEPT ![p] = [NoJob EXCEPT !.at = "next", !.left = rooms[At(p)]]]
  /\ UNCHANGED <<hubVars, data, queue, news, events, lost>>

\* RunSubscriber takes a notice and broadcasts to its own sockets.
Hear(s) ==
  /\ queue[s] > 0 /\ job[s].at = "idle"
  /\ queue' = [queue EXCEPT ![s] = @ - 1]
  /\ job' = [job EXCEPT ![s].at = "next", ![s].left = rooms[s]]
  /\ UNCHANGED <<hubVars, data, news, events, lost>>

\* GetRoomState for the next socket: the room and the session it points at,
ReadRoom(p, c) ==
  /\ job[p].at = "next" /\ c \in job[p].left
  /\ job' = [job EXCEPT ![p].at = IF current = 0 THEN "write" ELSE "hands", ![p].to = c,
                        ![p].got = IF current = 0 THEN NoState
                                   ELSE [round |-> current, ver |-> version[current], hands |-> 0]]
  /\ fresh' = fresh \cup {p}
  /\ UNCHANGED <<hubVars, data, queue, view, told, events, lost>>

\* its dealer state and its player states. (Four statements, and two steps: a
\* state tells how old its version is and how new the newer of the hands is,
\* and a round that the room leaves is over.)
ReadHands(p) ==
  /\ job[p].at = "hands"
  /\ job' = [job EXCEPT ![p].at = "write", ![p].got.hands = version[job[p].got.round]]
  /\ UNCHANGED <<hubVars, data, queue, news, events, lost>>

\* On to the next socket.
Served(p) ==
  /\ job' = [job EXCEPT ![p] = [NoJob EXCEPT !.at = "next", !.left = job[p].left \ {job[p].to}]]
  /\ fresh' = fresh \ {p}

\* A read fails: the socket is passed over.  (The client of a request is gone
\* and its context with it, or the store fails.)
ReadFails(p) ==
  /\ job[p].at = "hands" /\ Happens
  /\ Served(p)
  /\ lost' = TRUE
  /\ UNCHANGED <<hubVars, data, queue, view, told>>

\* writeWS; the client shows what it is sent (setRoomState).
Write(p) ==
  LET c == job[p].to IN
  /\ job[p].at = "write" /\ c \in open
  /\ view' = [view EXCEPT ![c] = job[p].got]
  /\ told' = IF p \in fresh THEN told \cup {c} ELSE told
  /\ Served(p)
  /\ UNCHANGED <<hubVars, data, queue, events, lost>>

\* The write fails, on a broken socket or for a client that does not read.
WriteFails(p) ==
  /\ job[p].at = "write" /\ FailedWrite(job[p].to)
  /\ IF job[p].to \in open THEN Happens ELSE UNCHANGED events
  /\ Served(p)
  /\ UNCHANGED <<data, queue, view, told, lost>>

\* BroadcastRoomStateFromPeer does not publish again.
GivesNotice(p) == p \notin Servers

\* A mutant: nobody subscribes.
Peers_None(s) == {}

\* RunSubscriber passes over what its own instance sent.
Peers(s) == Servers \ {s}

\* Publish: each of the other instances gets the notice, or misses it.  Then
\* the call is over: a connection goes on to its loop.
Publish(p) ==
  /\ job[p].at = "next" /\ job[p].left = {}
  /\ IF GivesNotice(p)
     THEN \E heard \in SUBSET Peers(At(p)) :
            /\ queue' = [s \in Servers |-> IF s \in heard THEN queue[s] + 1 ELSE queue[s]]
            /\ IF heard = Peers(At(p)) THEN UNCHANGED <<events, lost>> ELSE Happens /\ lost' = TRUE
     ELSE UNCHANGED <<queue, events, lost>>
  /\ Answered(p)
  /\ UNCHANGED <<data, news>>

----------------------------------------------------------------------------

\* The steps of a broadcast that has begun.
BroadcastStep(p) ==
  \/ Snapshot(p) \/ (\E c \in Conns : ReadRoom(p, c))
  \/ ReadHands(p) \/ ReadFails(p)
  \/ Write(p) \/ WriteFails(p) \/ Publish(p)

\* The steps of a handler between broadcasts.
HandlerStep(c) ==
  /\ Enter(c) \/ SocketEnds(c) \/ Leave(c)
  /\ UNCHANGED syncVars

Closes(c) == CloseDoomed(c) /\ UNCHANGED syncVars

\* What the surroundings may do to it.
Surprise(c) ==
  /\ \/ Upgrade(c) /\ UNCHANGED events
     \/ (Reject(c) \/ Drop(c)) /\ Happens
  /\ UNCHANGED <<data, job, queue, news, lost>>

Next ==
  \/ \E k \in Calls : \/ Start(k) \/ Sits(k) \/ FindsItDone(k) \/ Tick(k)
                      \/ \E c \in Conns : Ask(k, c)
  \/ \E c \in Conns : \/ HandlerStep(c) \/ Closes(c) \/ Surprise(c)
                      \/ Receive(c) \/ AskForSync(c) \/ Superseded(c)
  \/ \E s \in Servers : Hear(s)
  \/ \E p \in Procs : TurnAction(p) \/ BroadcastStep(p)

Spec == Init /\ [][Next]_vars

----------------------------------------------------------------------------
(* Properties.                                                             *)

Rounds == 0..MaxRounds
States == [round : Rounds, ver : Nat, hands : Nat]
Places == {"idle", "act", "snapshot", "next", "hands", "write", "done"}
Jobs == [at : Places, left : SUBSET Conns, to : Conns \cup {NoConn}, got : States]

\* The types of connections, rows, jobs and messages.
TypeOK ==
  /\ HubTypeOK
  /\ last \in Rounds /\ current \in {0, last}
  /\ version \in [1..MaxRounds -> Nat] /\ commits \in Nat
  /\ job \in [Procs -> Jobs]
  /\ queue \in [Servers -> Nat]
  /\ view \in [Conns -> States] /\ fresh \subseteq Procs /\ told \subseteq Conns
  /\ events \in Nat
  /\ lost \in BOOLEAN

\* No broadcast is under way or due.
Quiet ==
  /\ \A p \in Procs : job[p].at \in {"idle", "act", "done"}
  /\ \A s \in Servers : queue[s] = 0
  /\ \A c \in Conns : stage[c] # "opening"

\* The state that a client is sent mixes rows of several moments and may be
\* old. A change that is accepted in the round it was meant for was all the
\* same decided on the very rows it changes: the session is read before the
\* hands, and its version is what the change is tested against.
ActsOnWhatItSaw ==
  [][\A p \in Conns \cup Calls :
       LET saw == job[p].got IN
       job[p].at = "act" /\ commits' # commits /\ job'[p] # job[p] /\ saw.round = current
       => saw.ver = version[current] /\ saw.hands = saw.ver]_vars

\* Once no broadcast is under way, and unless an announcement was lost since
\* the last commit, every socket of every instance has been sent a state as new
\* as the last commit: also one that was opened, or took the place of another,
\* while the commit was being announced.
EverybodyIsTold ==
  Quiet /\ ~lost =>
    \A s \in Servers : rooms[s] \cap open \subseteq told
=============================================================================
