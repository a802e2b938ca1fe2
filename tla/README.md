# Verification of the blackjack server

TLA+ models of the Go backend under `src/backend`, TLC runs that check them on
small instances, and TLAPS proofs for instances of every size. This file lists
the parts of the system, says which module models which part and how, what each
run and each theorem shows, and what is left.

## 1. The system

Rooms and rounds live in PostgreSQL; any number of server instances work on them
with no leader and no lock held between two statements. Clients speak HTTP and
WebSocket. Every instance runs a worker once a second (`main.go`,
`runAutoStandWorker`) that forfeits turns whose deadline has passed, plays the
dealer one card per transaction and settles rematches whose deadline has passed.
Redis carries sync notices between instances, the connection epochs and the
token buckets of the rate limiter.

| Component | State | Operations | What is hard | What makes it correct |
|---|---|---|---|---|
| Rules and hint (`model/`, `adapter/blackjackadapter`) | none | value, bust, soft, dealer policy, outcome, hint | boundaries | agree with a reference definition on all hands |
| Round in play (`usecase/game_usecase.go`) | `game_sessions`, `player_states`, `dealer_states`, `action_logs`, `round_logs` | `StartRoom`, `Hit`, `Stand`, `playerStand`, `dealerTurn` | rows read one by one and written back whole, resends, several workers, a deadline that races a hit | consistent snapshots, no card lost or dealt twice, one result that matches the table and is final, every round ends |
| Room life cycle | `rooms`, `room_players` | `CreateRoom`, `JoinRoom`, `LeaveRoom`, `StartRoom`, `ResetRoomForDebug` | no version and no lock on either table | a round in play is reachable from its room, round numbers are consecutive |
| Rematch | `rematch_votes`, session row | `VoteRematch`, `processRematchDeadline` | vote against deadline, stale rooms | settled once, followed by the next round or a released room |
| Auto-stand worker | none of its own | `AutoStandDueSessions` | one per instance, stops at the first error | progress of every round |
| Connections | hub in memory, epochs in Redis | `RoomWS`, `MarkConnected`, `MarkDisconnected` | reconnects across instances, failed writes, blind saves of the seat | an instance serves the latest connection and no other, and no connection is forgotten |
| Broadcast | none | `broadcastRoomState`, `GetRoomState`, `RoomSyncBroker` | notices at most once, states read in parts and written out of order | every socket is sent a state as new as the last change; what a client decides on it is decided on the rows it changes |
| Rate limiter | token buckets in Redis | `Allow`, `allowUsername` | stamps of several clocks, keys that end, waits computed in doubles | a bucket gives what it holds and what time refills |
| Users and tokens | `users` | `Signup`, `Login` | unique index | - |
| Reads, routing, mapping, audit, metrics, frontend | - | - | - | - |

How they interact: the controllers and the worker call the use case; the use
case reads and writes the store statement by statement and opens one transaction
at the end of a mutation; after it the controller broadcasts the state it reads
again. The use case never calls back. The only things two calls share are the
rows, and the only guards between them are `UpdateSessionIfVersion` (compare and
swap on the version), `GetSessionForUpdate` (a row lock, in the two rematch
operations) and the unique indexes.

## 2. Modules

| Module | Models |
|---|---|
| `Hands` | the rules: value of a hand, dealer policy, outcome, hint |
| `Deals` | hands dealt card by card, with what the outcome and the hint are checked against |
| `HandsProofs`, `DealsProofs` | lemmas about the rules, and that they agree with their references |
| `BlackjackRound` | abstract: a dealer and a player at a table, one card at a time |
| `GameSession` | one round with every concurrent caller, statement by statement |
| `GameSessionProofs` | the theorems about `GameSession`, and that it implements `BlackjackRound` |
| `RoomLife` | abstract: a room as its host sees it, every request at one instant |
| `Room` | one room: its row, its seat, its rounds and rematches, with every caller |
| `RoomProofs` | the theorems about `Room`: any callers, requests of the host that do not overlap, and that it implements `RoomLife` |
| `Hub` | the hub of every instance and the life of a connection, as both modules below see it |
| `Connections` | extends `Hub`: epochs in Redis and the seat, access by access |
| `RoomSync` | extends `Hub`: changes, broadcasts, notices and what clients do with states |
| `TokenBucket` | the rate limiter: stamps, script, keys, callers of one or two buckets |
| `HubProofs`, `ConnectionsProofs`, `RoomSyncProofs`, `TokenBucketProofs` | the theorems about them |
| `MCHands`, `MCGameSession`, `MCRoom`, `MCConnections`, `MCRoomSync`, `MCTokenBucket` | instances for TLC |

### Hands

A card is its hard value (ace 1, ten and faces 10); suits reach no rule. `Value`
is the library's `Hand.Value`, which `evaluator.go` only calls: one ace counts 11
when that does not bust. That it does so is assumed and not checked here. The other
operators follow the functions of the same name. `Deals` deals the two hands card
by card, in any order; the outcome is compared with the strength of the hands
(`Strength`), and the hint with what can bust, with what the dealer would do, and
with how dangerous the dealer's card is (`Danger`). These leave open where exactly
the borders of the hint at 12, 13 and soft 18 lie, which only the code's tables say.
`MCHands` has TLC go on from hands in ascending order only; the proofs of
`DealsProofs` leave that out.

### GameSession

`sess`, `player`, `dealer`, `actionLog` and `roundLog` are the rows of one round;
`room` is the part of the room row the round writes. A call of process `p` has a
place (`pc`), what it was asked (`call`) and the rows it has read (`got`). Each
store statement is an action (`Request`/`TakeDueTurn`/`TakeDealerTurn`,
`ReadPlayer`, `ReadDealer`, `CheckAction`), and the transaction at the end is one
action (`CommitHit`, `CommitStand`, `CommitForfeit`, `CommitDealerDraw`,
`CommitResult`, `CommitFails`): its first statement is the compare-and-swap, and
the row it updates stays locked until the end, so nothing that matters happens in
between. Any call may die between two actions (`CallDies`); what it has not
committed is gone. Time is a flag: `due` says that the clock has passed
`turn_deadline_at`. The sequence RESULT, RESETTING inside `dealerresult` happens
in one transaction and shows as RESETTING. The worker under the heuristic policy
re-enters `Hit` (`ReadSessionAgain`) with an action id made of the version.

The ids of actions are the clients' to choose: `playerTurn` refuses the empty one
only, and the worker logs its own actions under the player's user id. So the ids of
a worker (`AutoHitId`, `ForfeitId`) and those of the clients (`ActionIds`) share one
index, and the instances give the clients some of the worker's. A forfeit whose id a
hit of the round has used is rolled back at every tick, and a heuristic hit whose id
was used answers `duplicate_action`: `TurnIsBlocked` is the turn that nobody but the
player can end then.

Left out: the text of snapshots and payloads (a payload hash is the pair of
operation and version it is computed from), and the room row beyond this round.

### Room

`room` and `seat` are the two rows nobody versions; `sess` holds the rounds by
order of creation with their status, version, vote and rematch deadline. A call
reads in one step and writes in a later one; `UpdateRoom` and `UpdateRoomPlayer`
are gorm's `Save`, which writes the whole row and inserts it if it is gone. The
update of a session waits for the lock of a rematch. The cards are left to
`GameSession`: an act of the player leaves the turn with the player or hands it
to the dealer, the worker ends the round or draws. Only the host may join
(`JoinRoom`), so there is one seat; the branches for several players (host
transfer, a vote that waits for others) cannot be reached and are not modelled.
Action ids of votes are left out: every vote is a new one. The heuristic policy is
left to `GameSession`: the worker's hit is not a step of `Room`.

A vote may name any version (`asked`): the code reads the latest round first and
compares the two under the lock only. Of the action ids of a round `Room` keeps one
bit, `taken`: a hit of the player has used the id under which the next forfeit would
be logged, so that the worker's transaction is rolled back (`WorkerFails`).

`Life` maps the rows to `RoomLife`: the seat is taken or not, the room is free, has
a round that is played or one that is over (`Phase`), and the number of the last
round is that of the latest row (`Number`). `RoomLife` has no rows, no copies and no
requests in flight: `Join`, `Leave`, `Deal`, `End`, `Release` and `Reset` happen at
one instant each, and nobody joins or leaves while there is a round. The one thing
that takes two steps is a socket that opens or closes (`SocketReads`, `SocketEnds`;
`held` is what lies between): it saves the seat row it read, and so brings back a
seat that was left, or deleted, in between.

`StartRoom` and the rematch take the round number from the latest round and rely
on the index (`RoundTaken`). `CannotOpen` also refuses when the bound on rounds is
reached, as a rolled-back insert does.

### Hub, Connections and RoomSync

A room has one human, so a hub holds the connections of one user; there may be
many at once, on one instance or on several. `stage` is where the handler of a
connection stands (`RoomWS`), `rooms` and `latest` are the two maps of `roomHub`.
A method of the hub runs under its mutex and is one action (`Enter` for `add`,
`RemovedFromHub` for `remove`); whoever takes a connection out of the maps closes
it in a later step, and until then it is in `doomed`.

`Connections` and `RoomSync` each add their own variables to the actions of `Hub`
and change nothing of the hub besides, so that each of them implements `HubSpec`
(proved, section 5), and what is proved of `Hub` holds of both. They are not
joined in one state space: epochs and seats decide whether a message is refused,
which `RoomSync` allows at any time (`Superseded`), and no epoch depends on a
broadcast.

`Connections` has one action per access: `TakeEpoch` (INCR), `AnnounceEpoch` and
`RefreshEpoch` (SET), `CheckEpoch` (GET), `ReadSeat`/`SaveConnected`, and the close
handler `CheckLatest`, `CheckCurrent`, `ReadSeatToLeave`, `SaveDisconnected`,
`LeaveHub`. `Faulty` connections may have each of these fail, with the answer the
code gives (an opening is given up, a message is dropped, a close counts as
current). `EpochExpires` is the end of the key of `latest_epoch`.

`RoomSync` has a `job` for each process that broadcasts: handlers of connections,
calls (HTTP requests and worker passes) and the listener of each instance. A
change of the room is one step here (`GameSession` and `Room` have its parts) and
moves `version`. A broadcast takes a snapshot of the hub, then reads a state for
each socket and writes it; the reads are two steps, the room with its session and
then the hands, because a state is told apart only by its round, its version and
how new the newest of its hands is. Then `Publish` puts a notice before each of
the other listeners, or before some of them only. The client shows the last state
it was sent, as `App.tsx` does, and sends its version as `expected_version`. `told`
and `fresh` only keep account, for the properties: a socket is told when it is sent
a state all of whose reads came after the last change. Left out: PING and
malformed messages (no state changes), the debug reset, and the contents of the
hands.

### TokenBucket

Tokens are measured in the time they take to refill (one unit a unit of time), so
that `Cost` is 1/rate and `Capacity` is capacity/rate of the script. The unit is the
millisecond of the stamps; with the rates of the code (five tokens a second, or one)
both are whole numbers of it, 200 and 4000 for the limit of HTTP requests. The script
computes in doubles, whose error is far below the unit, and so shows in two places
only: whether a bucket that holds exactly one token allows (`MayAllow`, `MustAllow`
and, for what the script answers, `Verdict`), and whether `math.ceil` goes one unit
above a wait that is a whole number (`RetryAfter`, a set). Both are left open. A request is stamped (`Stamp`), then the
script runs for each of its buckets in order (`Allow`, `Deny`), or Redis does not
answer in time, having run the script or not (`Fail`). Clocks differ by `Skew` at
most, and a request is over within `Delay`, the timeout of the calls to Redis, so
that a bucket sees stamps out of order. Keys end by the clock of Redis (`Tick`).
`tally`, `paid` and `admitted` keep account for the properties; `Watch` begins a new
tally at any moment. That a request asks two buckets is what `AllowSignup` and
`AllowLogin` do; only the tests call them.

## 3. Runs

| Run | Module, configuration | Question |
|---|---|---|
| `hands` | MCHands, Hands.cfg | Do outcome and hint agree with their references? |
| `race` | MCGameSession, Race.cfg | Is the version check enough against two requests and a worker at once? |
| `workers` | MCGameSession, Workers.cfg | Do the rows implement the game, and what can keep a round from its end, with two workers, one heuristic, one failing? |
| `room_race` | MCRoom, RoomRace.cfg | Do rounds stay apart when two requests of the host race? |
| `room_host` | MCRoom, RoomHost.cfg | Does the room live as if each request took effect at one instant, and is every room released, when the host's requests do not overlap? |
| `sync` | MCRoomSync, Sync.cfg | Do hubs, broadcasts and notices reach every socket, and do clients act on rows they saw? |
| `bucket` | MCTokenBucket, Bucket.cfg | Does a bucket give no more than its budget, whatever the clocks? |
| `timeout_claim` | MCGameSession, TimeoutClaim.cfg | Is a timed-out turn a STAND? No. |
| `resend_claim` | MCGameSession, ResendClaim.cfg | Is a resend replayed? No. |
| `leave_claim` | MCRoom, LeaveClaim.cfg | Has who left no round in play? No. |
| `denial_claim` | MCRoom, DenialClaim.cfg | Is a denied rematch settled? No. |
| `epoch_claim` | MCConnections, EpochClaim.cfg | Is only the latest epoch accepted? No. |

Properties, by the hazard they are about:

- rules: `OutcomeFollowsStrength`, `HintIsSound`, `HintFollowsUpCard`
- torn reads: `SnapshotIsConsistent`, `CardsComeFromDeck`, `EveryCommitCounted`
- racing commits: `ResultMatchesTable`, `ResultIsFinal`, `VersionNamesState`,
  `PhasesAgree`, `OnlyReusedIdsBlock`
- deadline against hit: `ForfeitOnlyWhenOverdue`
- implementation of the game: `PlaysAtTheTable` (the refinement mapping is
  `Table`), `RoundFinishes`
- rooms: `RoundsAreConsecutive`, `AgreementIsFinal`, `CurrentRoundExists`,
  `PlayedRoundIsAttended`, `RoomIsReleased`
- copies of the room and of the seat that are written back late:
  `RequestsAreAtomic` (the refinement mapping is `Life`)
- connections that open, close and fail at once: `HubServesTheLatest`,
  `NobodyIsDeaf`
- states read in parts, sent late, and notices that are lost: `EverybodyIsTold`,
  `ActsOnWhatItSaw`
- stamps of several clocks, keys that end, calls that fail half-way:
  `WithinBudget`, `ExpiryForgivesNothing`, `RetryIsClose`, `AdmittedHavePaid`

Some of them leave out what the code lets through, and say so in their definition.
`OnlyReusedIdsBlock` and `RoundFinishes` leave out the turn whose action id was used
before (`RoomIsReleased` likewise, by `taken`); they say that nothing else is in the
way of a commit or of the end of a round. `AgreementIsFinal` leaves out the vote that
names a version its round had not reached when the vote read it (`VoteFromAhead`):
every other late vote, and every deadline, leaves an agreed rematch alone.
`RequestsAreAtomic` allows the socket that brings back a seat: the room stays WAITING
then, so that `StartRoom` refuses until the host has left and joined again.

`EverybodyIsTold` speaks of states at rest, with no announcement lost since the
last change; it says that such a state leaves no socket with an old table, also
one that was opened, or took the place of another, while the change was being
announced. What is sent may still be older than what was sent before: a state on
the screen is the last written, not the last read. `ActsOnWhatItSaw` is what makes
this harmless in the round the client saw; a stale tab of an earlier round may
have its action accepted in a later one, at the same version.

Bounds. `hands`: 4 cards of the player and 3 of the dealer reach every value up to
bust, every number of aces that changes a value, and naturals on both sides; TLC
goes on from ascending hands only (`CONSTRAINT Sorted`), for the theorems cover every
order and every length.
`race`: one deck on which the second hit goes to 14 and the third busts and the
dealer must draw; three processes are enough for a reader, a writer between its
reads and a second writer at its commit; the player has two action ids, one of them
the id of a forfeit (`TakesForfeit`), so that ids are reused, differ and collide.
`workers`: decks with a natural, two naturals, a soft 17 and a low hand that the hint
is to hit; the player's ids are those of a forfeit and of a heuristic hit.
`room_race`: three rounds (`MaxSessions`), so that the second and third are opened
by racing starts, votes and the deadline; a round has one version in play
(`MaxVersion` 1), which `room_host` raises to 2; requests of the host are
symmetric. Nobody leaves there, which keeps the space small; the theorems about its
three properties have leaves too. Votes name versions up to the largest a round reaches. `room_host`: two rounds and every kind of request, resets included; a
reset does not give ids back. `sync`: two connections over two instances (the
same or different ones) are enough for one to supersede the other and for a notice
to matter; one call besides the two handlers and the two listeners; two changes of
the room (`MaxCommits`), so that a broadcast of the first runs into the second; two
rounds of two versions, so that a rematch happens; one message or failure
(`MaxEvents`, one budget for messages, broken sockets, rejected openings, failed
reads and writes, lost notices and worker errors): with two the space outgrows
memory. Connections are symmetric; instances are not, for the call runs on
one of them. `bucket`: a bucket of one and a third tokens (`Capacity` 4, `Cost` 3), so that every
part of a token is met; a request that asks two buckets and one that asks the first
of them; a skew and a delay of one unit, less than the refill; eight units of time, so
that a key that was used at once ends (eight units) within them; four requests. `epoch_claim`: two connections, two instances, nothing
faulty. Deadlock is checked everywhere but in `hands`, which deals until the hands
are full, and in the last three, which end when their connections, calls or time
are used up.

Fairness. `GameSession`: the clock runs and the worker of an instance whose calls
do not die takes steps (`runAutoStandWorker` ticks every second; its pass takes
every due round and goes on after a version conflict). It ends at any other error,
`duplicate_action` and a refused action log among them: what is assumed is that no
session that the batch takes before this one has such an error at every tick (turns
come before dealers, and dealers before rematches). These modules have one round or
one room; the batch over several is in the plan. Requests of the player
are never fair. `Room`: the same; besides, a transaction that holds a row lock ends,
and the steps of a worker are strongly fair, because PostgreSQL queues those who
wait for a row lock: a vote that is locked again and again by somebody else does
not keep a worker away for ever. One instance without failing calls is assumed;
without one nothing ends a round whose player is gone. `Hub`, `Connections`,
`RoomSync` and `TokenBucket` state no fairness: their properties are safety.

## 4. What the runs found

- A timed-out turn is a loss (`playerStand`, `dealerresultTimeForfeit`) where the
  specification (sections 9.3.6 and 11.1), its addendum and `main.go` say
  automatic STAND.
- A resend with the same id and payload gets `version_conflict`: the version is
  compared first. The replay branch is reached only when two equal requests
  overlap, or after a rematch vote that was denied.
- `LeaveRoom` and `StartRoom` that overlap lose one room update. The round is then
  in play in a room that does not point at it, until a worker forfeits it.
- A denied rematch leaves the session open to votes: the version does not move. A
  later AGREE opens a round, also in a room already released.
- An agreement is decided again by one vote: a stale tab's version of an earlier round
  may be the one the round will have after the agreement. If that vote read the latest
  round before the agreement and waits for the lock, it is accepted after it; a denial
  then takes the room off the new round, which a worker plays out
  (`VoteFromAhead`, left out of `AgreementIsFinal`; `room_race` has such steps).
- A client may log a hit under the id of the forfeit to come, or of the worker's hit.
  The turn is then ended by the player only, and every tick of every worker stops at
  it (`TurnIsBlocked`; `workers` and `room_host` have such rounds).
- A connection writes its own epoch to `latest_epoch` with every message, before
  it asks whether its epoch is the latest: the answer is yes unless somebody else
  writes between the two. The older of two connections on two instances goes on
  acting, where the specification (section 13.3) says that only the latest epoch is
  accepted. `OnlyLatestEpochActs` speaks of two instances: on one the hub closes the
  older connection, so it ends there.

## 5. Proofs

`GameSessionProofs` proves, for any finite or infinite set of callers, decks and
action ids that satisfy `CallersAssumption` and `DecksAssumption`:

| Theorem | Property |
|---|---|
| `TypeCorrect` | `TypeOK` |
| `SnapshotsConsistent` | `SnapshotIsConsistent` |
| `CardsFromDeck` | `CardsComeFromDeck` |
| `ResultsMatchTable` | `ResultMatchesTable` |
| `ResultsAreFinal` | `ResultIsFinal` |
| `VersionsNameStates` | `VersionNamesState` |
| `ForfeitsAreOverdue` | `ForfeitOnlyWhenOverdue` |
| `PhasesStayTogether` | `PhasesAgree` |
| `CommitsAreCounted` | `EveryCommitCounted` |
| `OnlyReusedIdsInTheWay` | `OnlyReusedIdsBlock` |
| `RowsPlayAtTheTable` | `PlaysAtTheTable` |
| `DeckNeverRunsOut` (decks of more than 39 cards) | no commit meets an empty deck |

The argument. Every action is either `StartRoom`, a commit, or leaves the rows
alone. `SnapshotIsConsistent` alone is not inductive: after a commit an old copy
could have the new version. `SnapshotInv` adds that no copy's version is ahead of
the row's (`CallInv`, for each caller) and that before the start nothing has been
read (`NotStarted`): a commit raises the version by one, so every other copy is
now behind and will be refused; the copies that are current were read after the
last commit. With consistent snapshots a commit computes from the current rows,
and the rest is sequential: `DeckInv` (the two hands are the first `draw` cards of
the deck; once the dealer has drawn the player's hand no longer grows) and
`ResultInv` (the log and the outcome are written together, from RESETTING nothing
moves). The action properties follow from `SnapshotInv` and the guards of the
commits. The lemmas `*OnRows` restate what each commit does to the rows when its
snapshot is the current state; `OneMore` is the arithmetic of one more card.

`CountInv` adds to `EveryCommitCounted` that the log is finite: a commit that goes
through adds a row whose id was not there, so that the count grows by one. `IndexInv`
shows which commits with a current version are refused for an id, whatever ids the
clients choose: no hit and no stand, for a request found its id unused when it looked
(`CheckAction`) and the log has not moved while its version is current; and no
forfeit, unless a hit has its id, for a stand or another forfeit would have ended the
turn. The index on `round_logs` never refuses anything: a round with a result is in
nobody's turn. For the
refinement, every commit is one action of the table on the hands as `Table` maps
them, and every other action leaves the table alone; the two modules have the
same rules (`SameRules`).

`DeckNeverRunsOut` is about the deck of the code, 52 cards; the runs use short decks,
so that a deck that is used up is among their cases. Every card weighs at least one
(`Weighs`), so that a player who is not bust holds 21 cards at most and takes one
more, and a dealer who draws holds 16 at most (`HandsAreSmall`): a round uses at most
39 cards. A caller computes from the session it read, maybe long ago; `DeckIsLarge`
says that this was a session of the round, with no more cards gone than that.

`HandsProofs` has the lemmas about `Hands` that this and the next proofs rest on;
`DealsProofs` proves, for hands of any length in any order:

| Theorem | Property |
|---|---|
| `StrongerHandsWin` | `OutcomeFollowsStrength` |
| `HintsAreSound` | `HintIsSound` |
| `HintsFollowTheDealer` | `HintFollowsUpCard` |

The argument. What an operator computes on every sequence would be an induction over
data, which is out of the prover's reach. `Deals` makes it an induction over steps:
one more card adds itself to the hard value (`HardValueOfAppend`), and `DealInv` says
that both hands are hands of cards that weigh one at least each. The theorems take
the value of a hand from the library as `Value` has it; they are about what the code
makes of it.

`RoomProofs`, for any callers, sockets, workers, kinds of request, failing calls
and bounds that satisfy `ProcsAssumption`:

| Theorem | Property |
|---|---|
| `RoomTypes` | `TypeOK` |
| `RoomPointsAtARound` | `CurrentRoundExists` |
| `AgreementsStay` | `AgreementIsFinal` |
| `RoundsAreNumbered` (if nobody resets) | `RoundsAreConsecutive` |

The argument. None of the last three is inductive; `RoomInv` is. `RoundsOK` says
what the rows look like: the latest row, if there is one, is the last created; a
round whose rematch is agreed is over, is not the latest, and the room does not
point at it. `CallsFit` says what a call in flight may rely on (`Fits`, by place):
the version it read is not ahead of the row's, a row that still has that version is
still in play (a hit or a worker) or not yet agreed on (a vote), and whoever holds
the lock of a round holds a finished one, which is not agreed on if the version named
is the one that was read. (A vote that names another one is what `VoteFromAhead`
leaves out.) The actions change
the rounds in three ways only, `Played`, `Noted` and `Opened`, and what a call
relies on survives each of them: playing and opening raise the version, noting a
vote needs the lock. A reset waits for every lock, so that no call that holds one
is left without its row. For `RoundsAreNumbered`, a number that is at most one
above the latest and not taken is the next one.

Two theorems are about one host whose requests do not overlap (`OneHost`), with any
number of sockets, workers and rounds:

| Theorem | Property |
|---|---|
| `RoundsAreAttended` | `PlayedRoundIsAttended` |
| `RoomsLiveByTheRules` | `RequestsAreAtomic` |

`RoomAttends` is the strengthening: the room points at the latest round or at none,
and then the host is seated. `CallsAttend` says that a request that joins, leaves or
starts has the room without a round to itself (no deadline is being settled then,
for that happens only to the round the room points at), that a vote that will be
accepted is about the latest round, and that a socket saves a seat that is taken.
With these a commit is one action of `RoomLife` on the rows as they are, though it
writes what it read earlier: a join and a leave find the room free, a result or an
act is that of the round the room points at, a settled rematch follows the round
that is over. Where somebody else came first the commit is refused, or writes what
is there, and the room its host sees does not move. `LifeInv` adds what a request
between the rounds has seen and still finds (`Expects`): the room waits for who joins
it and is ready for who starts, the seat of who leaves is taken, and a start knows the
next number; nobody opens or deletes rounds meanwhile. A socket that reads the seat
and one that writes it are the steps of `RoomLife` of that name, so that the theorem
says of a seat that was given up what can bring it back, and that nothing else does.
It follows that the numbers count from the last reset, which
`RoundsAreNumbered` leaves out. The finding about `LeaveRoom` and `StartRoom`
(section 4) is what happens without `OneHost`.

`HubProofs`, `ConnectionsProofs` and `RoomSyncProofs`, for any sets of connections,
instances and calls and any bounds:

| Theorem | Property |
|---|---|
| `HubTypeCorrect` | `HubTypeOK` |
| `LatestIsServed`, `SyncServesTheLatest` | `HubServesTheLatest` |
| `EverybodyIsServedOrClosed`, `SyncLeavesNobodyDeaf` | `NobodyIsDeaf` |
| `HandlersServeTheLatest` | both of these, of `Connections` |
| `ConnectionsImplementHub`, `RoomSyncImplementsHub` | `ConnSpec => HubSpec`, `Spec => HubSpec` |
| `EpochsAreDistinct` | `ConnTypeOK` |
| `SyncTypeCorrect` | `TypeOK` |
| `AcceptedChangesSawTheRows` | `ActsOnWhatItSaw` |
| `EverybodyIsServedTheNews` | `EverybodyIsTold` |

The argument. A step of one connection enters it in the maps of its hub, removes
it, or leaves them alone (`MapsOfAStep`), and moves no other connection
(`StagesOfAStep`); the two invariants of the hub are inductive with its types.
A step of `Connections` or `RoomSync` is a step of the hub or leaves it alone, so
that both hold there by the refinement; for `RoomSync` this needs that a broadcast
writes to connections only. `ActsOnWhatItSaw` needs `StatesFit`: the state in every
job and on every screen names a round there was, its hands are as new as its
version or newer, and no newer than the round is now. Versions only grow
(`DataGrows`), so that a state whose version is still current has hands that are.

`EverybodyIsTold` speaks of states at rest; `NewsIsOnItsWay` is what holds on the way
there. Unless an announcement was lost, for every served connection that was not told
since the last change somebody will tell it: a process of its instance has it on the
list of its broadcast with a read still to come or one that came after the change
(`Serves`), or has yet to make that list, or a notice is waiting for the instance, or a
process of another instance has yet to publish one. A list is a copy of the hub, so
that a connection that enters after it was made is not on it; such a connection is
about to broadcast itself, for it is in the hub only after its handler put it there
(`ServedHaveEntered`, `HandlersFit`). A change makes everybody untold, and whoever
made it has its broadcast before it.

`TokenBucketProofs`, for any buckets, callers, capacities, costs and clocks with
`Skew + Delay <= Capacity` (`BucketAssumption`):

| Theorem | Property |
|---|---|
| `BucketTypeCorrect` | `TypeOK` |
| `BudgetIsKept` | `WithinBudget` |
| `NothingForgiven` | `ExpiryForgivesNothing` |
| `RetryNamesTheMoment` | `RetryIsClose` |
| `AdmissionIsPaid` | `AdmittedHavePaid` |

The argument. `WithinBudget` is not inductive: it does not know what is in the
bucket. `AccountsBalance` does: what is there and what was taken is a full bucket
and what time brought, and while the key is gone a bucket that is full for the
oldest stamp still to come. `StampsAreFresh` and `KeysOutliveStamps` bound how far
a stamp is from the time and from the end of its key; that a key lives for two
refills and clocks differ by less than one is what the step of expiry needs.
`RetryIsClose` is about one bucket and one wait: for every verdict and every rounding the
told wait and the true one differ by one unit at most. `AdmissionIsPaid` needs what a
request under way has paid so far (`PaidSoFar`).

Model-checked only: the liveness properties `RoundFinishes` and `RoomIsReleased`, as
liveness under fairness and `ENABLED` are out of the prover's reach; and the five
claims of the documents that the code does not keep, which are counterexamples. Every
other property of the runs is a theorem.

## 6. Plan

What is left, in this order:

1. `AutoStandBatch`: the worker's three passes over several rooms, the batch that
   stops at the first error (a turn whose action id is taken among them), the
   heuristic hit through the room.
2. `LockOrder`: the order in which transactions lock the room and session rows.
3. Liveness of `RoomSync`: a client that stays connected ends on the current state,
   if notices are not lost for ever; and of `Connections`: a superseded connection
   ends, if its peer reads.
4. The seat in `Connections` against the connections there are, once the documents
   say which of the two disagreements is meant to be impossible.

Abstract specifications: `BlackjackRound`, `RoomLife` and `Hub` are there; worth
stating is a token bucket with one clock, which `TokenBucket` implements when the
clocks agree and no request is late, with the proof that it does.

## 7. Not modelled

Users, tokens, CSRF and origins (stateless checks around a unique name); routing,
DTOs and error codes; the JSON columns and their conversions; migrations; audit
log and metrics (write-only); start-up and shutdown (a process that stops is a
call that dies, or a connection that drops). `ListRooms`, `GetRoomHistory` and
`SuggestPlayerAction` change no state and feed no decision. The pages of the
frontend, beyond the state they show and the version they send.

`AllowSignup`, `AllowLogin` and `AllowTasks` have no caller outside the tests; the
limits in force are those of `Allow`, one bucket for a request (HTTP requests,
opening a socket by address and by user, messages of a socket). `TokenBucket` has
both, but no hazard rests on the second. What the last bit of a double decides is left
open (section 2).
