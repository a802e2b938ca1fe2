--------------------------- MODULE RoomSyncProofs ---------------------------
(***************************************************************************)
(* RoomSync, for any number of connections, instances, calls, rounds and   *)
(* changes: its types, that it implements Hub, that a change that is       *)
(* accepted was decided on the rows it changes, and that every socket is   *)
(* told of the last change.                                                *)
(***************************************************************************)
EXTENDS RoomSync, HubProofs

\* What a state claims of the rows, as long as versions only grow: it names a
\* round there was, and its hands are as new as its version or newer.
Fits(st) ==
  st.round # 0 =>
    st.round \in 1..last /\ st.ver <= st.hands /\ st.hands <= version[st.round]

\* The same of a state that is still being read.
JobFits(j) ==
  /\ j.at \in {"act", "write"} => Fits(j.got)
  /\ j.at = "act" => j.got.round # 0
  /\ j.at = "hands" => j.got.round \in 1..last /\ j.got.ver <= version[j.got.round]
  /\ j.at \in {"hands", "write"} => j.to \in Conns

StatesFit ==
  /\ \A c \in Conns : Fits(view[c])
  /\ \A p \in Procs : JobFits(job[p])

SyncInv == TypeOK /\ StatesFit

----------------------------------------------------------------------------
(* The data.                                                               *)

\* What a change of the room does to its rows: no round is forgotten and no
\* version goes back.
DataGrows ==
  /\ last' \in Rounds /\ last <= last' /\ current' \in {0, last'}
  /\ version' \in [1..MaxRounds -> Nat]
  /\ \A r \in 1..last : version[r] <= version'[r]

LEMMA ChangesGrow ==
  ASSUME TypeOK,
         Opens \/ (current # 0 /\ Plays) \/ (last # 0 /\ (Rematches \/ Releases))
  PROVE  DataGrows
<1> USE SyncAssumption DEF TypeOK, Rounds, DataGrows
<1>1. CASE Opens BY <1>1 DEF Opens
<1>2. CASE current # 0 /\ Plays BY <1>2 DEF Plays
<1>3. CASE last # 0 /\ Rematches BY <1>3 DEF Rematches
<1>4. CASE last # 0 /\ Releases BY <1>4 DEF Releases
<1> QED BY <1>1, <1>2, <1>3, <1>4

LEMMA SameRowsGrow ==
  ASSUME TypeOK, UNCHANGED <<current, last, version>> PROVE DataGrows
BY SyncAssumption DEF TypeOK, Rounds, DataGrows

LEMMA SameDataGrows == ASSUME TypeOK, UNCHANGED data PROVE DataGrows
BY SyncAssumption DEF TypeOK, data, Rounds, DataGrows

\* A state that fits goes on to fit while the data grows.
LEMMA FittingLasts ==
  ASSUME TypeOK, DataGrows, NEW st \in States, Fits(st)
  PROVE  st.round # 0 => /\ st.round \in 1..last' /\ st.ver <= st.hands
                         /\ st.hands <= version'[st.round]
BY SyncAssumption DEF TypeOK, Rounds, DataGrows, Fits, States

LEMMA JobFittingLasts ==
  ASSUME TypeOK, DataGrows, NEW j \in Jobs, JobFits(j)
  PROVE  JobFits(j)'
<1>1. j.got \in States BY DEF Jobs
<1>2. j.at \in {"act", "write"} => Fits(j.got)'
  BY <1>1, FittingLasts DEF JobFits, Fits
<1>3. j.at = "hands" => j.got.round \in 1..last' /\ j.got.ver <= version'[j.got.round]
  BY <1>1, SyncAssumption DEF JobFits, DataGrows, TypeOK, Rounds, States
<1> QED BY <1>2, <1>3 DEF JobFits

----------------------------------------------------------------------------
(* The jobs.                                                               *)

\* The job of p becomes j, and the others are as they were.
GetsJob(p, j) == job' = [job EXCEPT ![p] = j]

\* A step that changes at most one job keeps all of them well-typed and fitting.
LEMMA OneJob ==
  ASSUME SyncInv, DataGrows, NEW p \in Procs, NEW j \in Jobs, GetsJob(p, j), JobFits(j)'
  PROVE  job' \in [Procs -> Jobs] /\ \A q \in Procs : JobFits(job[q])'
<1>1. job' \in [Procs -> Jobs] /\ job'[p] = j /\ \A q \in Procs : q # p => job'[q] = job[q]
  BY DEF SyncInv, TypeOK, GetsJob
<1>2. ASSUME NEW q \in Procs PROVE JobFits(job[q])'
  <2>1. CASE q = p BY <1>1, <2>1 DEF JobFits, Fits
  <2>2. CASE q # p
    <3>1. job[q] \in Jobs /\ JobFits(job[q]) BY DEF SyncInv, TypeOK, StatesFit
    <3> HIDE DEF JobFits
    <3> DEFINE i == job[q]
    <3>2. i \in Jobs /\ JobFits(i) BY <3>1
    <3>3. job'[q] = i BY <1>1, <2>2
    <3>4. TypeOK BY DEF SyncInv
    <3> QED BY <3>2, <3>3, <3>4, JobFittingLasts DEF JobFits, Fits
  <2> QED BY <2>1, <2>2
<1> QED BY <1>1, <1>2

\* The same of a step that leaves the jobs alone.
LEMMA SameJobs ==
  ASSUME SyncInv, DataGrows, UNCHANGED job
  PROVE  job' \in [Procs -> Jobs] /\ \A q \in Procs : JobFits(job[q])'
<1>1. ASSUME NEW q \in Procs PROVE JobFits(job[q])'
  <2> DEFINE i == job[q]
  <2>1. i \in Jobs /\ JobFits(i) /\ TypeOK BY DEF SyncInv, TypeOK, StatesFit
  <2>2. job'[q] = i OBVIOUS
  <2> HIDE DEF i
  <2> QED BY <2>1, <2>2, JobFittingLasts DEF JobFits, Fits
<1> QED BY <1>1 DEF SyncInv, TypeOK

\* What the clients show, in a step that shows them nothing new.
LEMMA SameViews ==
  ASSUME SyncInv, DataGrows, UNCHANGED view
  PROVE  view' \in [Conns -> States] /\ \A c \in Conns : Fits(view[c])'
<1>1. ASSUME NEW c \in Conns PROVE Fits(view[c])'
  <2> DEFINE st == view[c]
  <2>1. st \in States /\ Fits(st) /\ TypeOK BY DEF SyncInv, TypeOK, StatesFit
  <2>2. view'[c] = st OBVIOUS
  <2> HIDE DEF st
  <2> QED BY <2>1, <2>2, FittingLasts DEF Fits
<1> QED BY <1>1 DEF SyncInv, TypeOK

----------------------------------------------------------------------------
(* The steps.                                                              *)

LEMMA NoJobIsJob == NoJob \in Jobs /\ NoState \in States
BY SyncAssumption DEF NoJob, NoState, Jobs, Places, States, Rounds

LEMMA ProcsHaveServers ==
  ASSUME TypeOK, NEW p \in Procs
  PROVE  At(p) \in Servers
BY SyncAssumption DEF TypeOK, HubTypeOK, Procs, At

\* The types of what is neither the hub, nor a row, a job or a state.
SmallTypes ==
  /\ commits \in Nat /\ queue \in [Servers -> Nat]
  /\ fresh \subseteq Procs /\ told \subseteq Conns
  /\ events \in Nat /\ lost \in BOOLEAN

\* A step after which all states still fit.
GoodStep ==
  /\ DataGrows
  /\ job' \in [Procs -> Jobs] /\ \A p \in Procs : JobFits(job[p])'
  /\ view' \in [Conns -> States] /\ \A c \in Conns : Fits(view[c])'
  /\ SmallTypes'

LEMMA CallSteps ==
  ASSUME SyncInv, NEW k \in Calls,
         \/ Start(k) \/ Sits(k) \/ FindsItDone(k) \/ Tick(k)
         \/ \E c \in Conns : Ask(k, c)
  PROVE  GoodStep
<1>0. k \in Procs /\ TypeOK BY DEF Procs, SyncInv
<1>1. CASE Start(k) \/ Sits(k) \/ Tick(k)
  <2>1. DataGrows
    <3>1. CASE Sits(k)
      BY <1>0, <3>1, SameRowsGrow DEF Sits
    <3>2. CASE Start(k) \/ Tick(k)
      <4>1. current # 0 => last # 0 BY <1>0, SyncAssumption DEF TypeOK, Rounds
      <4> QED BY <1>0, <3>2, <4>1, ChangesGrow DEF Start, Tick
    <3> QED BY <1>1, <3>1, <3>2
  <2>2. UNCHANGED view /\ SmallTypes'
    <3>1. CASE Start(k)
      <4>1. lost' \in BOOLEAN BY <3>1 DEF Start, Announces
      <4> QED BY <1>0, <3>1, <4>1 DEF Start, Commits, TypeOK, SmallTypes
    <3>2. CASE Tick(k)
      <4>1. lost' \in BOOLEAN BY <3>2 DEF Tick, Announces
      <4>2. UNCHANGED events \/ Happens BY <3>2 DEF Tick
      <4>3. events' \in Nat BY <1>0, <4>2 DEF Happens, TypeOK
      <4> QED BY <1>0, <3>2, <4>1, <4>3 DEF Tick, Commits, TypeOK, SmallTypes
    <3>3. CASE Sits(k)
      <4>1. lost' \in BOOLEAN BY <3>3 DEF Sits, Announces
      <4> QED BY <1>0, <3>3, <4>1 DEF Sits, Commits, TypeOK, SmallTypes
    <3> QED BY <1>1, <3>1, <3>2, <3>3
  <2>3. PICK j \in Jobs : GetsJob(k, j) /\ j.at \in {"snapshot", "done"}
    <3> DEFINE at(x) == [NoJob EXCEPT !.at = x]
    <3>1. GetsJob(k, at("snapshot")) \/ GetsJob(k, at("done"))
      BY <1>1 DEF Start, Sits, Tick, Announces, GetsJob
    <3>2. \A x \in {"snapshot", "done"} : at(x) \in Jobs /\ at(x).at = x
      BY NoJobIsJob DEF Jobs, Places
    <3> HIDE DEF at
    <3> QED BY <3>1, <3>2
  <2>4. JobFits(j)' BY <2>3 DEF JobFits
  <2> QED BY <1>0, <2>1, <2>2, <2>3, <2>4, OneJob, SameViews DEF GoodStep
<1>2. ASSUME NEW c \in Conns, Ask(k, c) PROVE GoodStep
  <2>1. DataGrows BY <1>0, <1>2, SameDataGrows DEF Ask
  <2>2. UNCHANGED view /\ SmallTypes'
    BY <1>0, <1>2 DEF Ask, data, news, TypeOK, SmallTypes
  <2>3. [job[k] EXCEPT !.at = "act", !.got = view[c]] \in Jobs
    BY <1>0 DEF TypeOK, Jobs, Places
  <2>4. PICK j \in Jobs : j = [job[k] EXCEPT !.at = "act", !.got = view[c]]
    BY <2>3
  <2>5. GetsJob(k, j) BY <1>2, <2>4 DEF Ask, GetsJob
  <2>6. j.at = "act" /\ j.got = view[c] BY <1>0, <2>4 DEF TypeOK, Jobs
  <2>7. j.got.round # 0 BY <1>2, <2>6 DEF Ask
  <2>8. JobFits(j)' BY <2>1, <2>2, <2>6, <2>7, SameViews DEF JobFits, Fits
  <2> QED BY <1>0, <2>1, <2>2, <2>5, <2>8, OneJob, SameViews DEF GoodStep
<1>3. CASE FindsItDone(k)
  <2>1. UNCHANGED <<data, queue, news, events, lost>> BY <1>3 DEF FindsItDone
  <2>2. PICK j \in Jobs : j = [job[k] EXCEPT !.at = "snapshot"]
    BY <1>0 DEF TypeOK, Jobs, Places
  <2>3. GetsJob(k, j) /\ j.at = "snapshot"
    BY <1>0, <1>3, <2>2 DEF FindsItDone, GetsJob, TypeOK, Jobs
  <2>4. DataGrows BY <1>0, <2>1, SameDataGrows
  <2>5. JobFits(j)' BY <2>3 DEF JobFits
  <2>6. SmallTypes' BY <1>0, <2>1 DEF data, news, TypeOK, SmallTypes
  <2> QED BY <1>0, <2>1, <2>3, <2>4, <2>5, <2>6, OneJob, SameViews DEF GoodStep, news
<1> QED BY <1>1, <1>2, <1>3

\* A step of p that changes no row and shows nobody a state.
LEMMA PlainStep ==
  ASSUME SyncInv, NEW p \in Procs, NEW j \in Jobs, GetsJob(p, j), JobFits(j)',
         UNCHANGED <<data, view>>, SmallTypes'
  PROVE  GoodStep
<1>1. DataGrows BY SameDataGrows DEF SyncInv
<1> QED BY <1>1, OneJob, SameViews DEF GoodStep

\* A job at one of the places where it holds no state.
LEMMA EmptyJobs ==
  ASSUME NEW at \in {"idle", "snapshot", "next", "done"}, NEW left \in SUBSET Conns
  PROVE  /\ [NoJob EXCEPT !.at = at] \in Jobs
         /\ [NoJob EXCEPT !.at = at].at = at
         /\ [NoJob EXCEPT !.at = at, !.left = left] \in Jobs
         /\ [NoJob EXCEPT !.at = at, !.left = left].at = at
BY NoJobIsJob DEF Jobs, Places, NoJob

LEMMA EmptyFits ==
  ASSUME NEW j, j.at \in {"idle", "snapshot", "next", "done"} PROVE JobFits(j)'
BY DEF JobFits

LEMMA ConnSteps ==
  ASSUME SyncInv, NEW c \in Conns,
         \/ HandlerStep(c) \/ Closes(c) \/ Surprise(c)
         \/ Receive(c) \/ AskForSync(c) \/ Superseded(c)
  PROVE  GoodStep
<1>0. c \in Procs /\ TypeOK BY DEF Procs, SyncInv
<1>1. CASE HandlerStep(c) \/ Closes(c) \/ Surprise(c) \/ Superseded(c)
  <2>1. UNCHANGED <<data, job, queue, news, lost>>
    BY <1>1 DEF HandlerStep, Closes, Surprise, Superseded, syncVars
  <2>2. UNCHANGED events \/ Happens
    BY <1>1 DEF HandlerStep, Closes, Surprise, Superseded, syncVars
  <2>3. SmallTypes'
    <3>1. events' \in Nat BY <1>0, <2>2 DEF Happens, TypeOK
    <3> QED BY <1>0, <2>1, <3>1 DEF data, news, TypeOK, SmallTypes
  <2>4. DataGrows BY <1>0, <2>1, SameDataGrows
  <2> QED BY <2>1, <2>3, <2>4, SameJobs, SameViews DEF GoodStep, news
<1>2. CASE Receive(c) \/ AskForSync(c)
  <2>1. UNCHANGED <<data, queue, news, lost>> /\ Happens
    BY <1>2 DEF Receive, AskForSync
  <2>2. SmallTypes'
    <3>1. events' \in Nat BY <1>0, <2>1 DEF Happens, TypeOK
    <3> QED BY <1>0, <2>1, <3>1 DEF data, news, TypeOK, SmallTypes
  <2>3. CASE AskForSync(c)
    <3>1. PICK j \in Jobs : j = [job[c] EXCEPT !.at = "snapshot"]
      BY <1>0 DEF TypeOK, Jobs, Places
    <3>2. GetsJob(c, j) /\ j.at = "snapshot"
      BY <1>0, <2>3, <3>1 DEF AskForSync, GetsJob, TypeOK, Jobs
    <3> QED BY <1>0, <2>1, <2>2, <3>2, PlainStep, EmptyFits DEF news
  <2>4. CASE Receive(c)
    <3>1. PICK j \in Jobs : j = [job[c] EXCEPT !.at = "act", !.got = view[c]]
      BY <1>0 DEF TypeOK, Jobs, Places
    <3>2. GetsJob(c, j) BY <2>4, <3>1 DEF Receive, GetsJob
    <3>3. j.at = "act" /\ j.got = view[c] BY <1>0, <3>1 DEF TypeOK, Jobs
    <3>4. DataGrows BY <1>0, <2>1, SameDataGrows
    <3>5. j.got.round # 0 BY <2>4, <3>3 DEF Receive
    <3>6. JobFits(j)' BY <2>1, <3>3, <3>4, <3>5, SameViews DEF JobFits, Fits, news
    <3> QED BY <1>0, <2>1, <2>2, <3>2, <3>6, PlainStep DEF news
  <2> QED BY <1>2, <2>3, <2>4
<1> QED BY <1>1, <1>2

LEMMA HearSteps ==
  ASSUME SyncInv, NEW s \in Servers, Hear(s)
  PROVE  GoodStep
<1>0. s \in Procs /\ TypeOK BY DEF Procs, SyncInv
<1>1. PICK j \in Jobs : j = [job[s] EXCEPT !.at = "next", !.left = rooms[s]]
  BY <1>0 DEF TypeOK, HubTypeOK, Jobs, Places
<1>2. GetsJob(s, j) /\ j.at = "next"
  BY <1>0, <1>1 DEF Hear, GetsJob, TypeOK, Jobs
<1>3. SmallTypes'
  <2>1. queue' \in [Servers -> Nat] BY <1>0 DEF Hear, TypeOK
  <2> QED BY <1>0, <2>1 DEF Hear, data, news, TypeOK, SmallTypes
<1> QED BY <1>0, <1>2, <1>3, PlainStep, EmptyFits DEF Hear, news

\* Where an answer leaves the job.
LEMMA AnsweredJob ==
  ASSUME NEW p \in Procs, Answered(p)
  PROVE  \E j \in Jobs : GetsJob(p, j) /\ JobFits(j)'
<1> DEFINE at == IF p \in Calls THEN "done" ELSE "idle"
<1>1. PICK j \in Jobs : j = [NoJob EXCEPT !.at = at]
  BY EmptyJobs
<1>2. j.at \in {"done", "idle"} BY <1>1, EmptyJobs
<1>3. GetsJob(p, j) BY <1>1 DEF Answered, GetsJob
<1> QED BY <1>2, <1>3, EmptyFits

LEMMA TurnSteps ==
  ASSUME SyncInv, NEW p \in Procs, TurnAction(p)
  PROVE  GoodStep
<1>0. TypeOK BY DEF SyncInv
<1>1. CASE Answered(p) /\ UNCHANGED <<data, news, lost>>
  <2>1. PICK j \in Jobs : GetsJob(p, j) /\ JobFits(j)' BY <1>1, AnsweredJob
  <2>2. SmallTypes' BY <1>0, <1>1 DEF TurnAction, data, news, TypeOK, SmallTypes
  <2> QED BY <1>1, <2>1, <2>2, PlainStep DEF news
<1>2. CASE ~(Answered(p) /\ UNCHANGED <<data, news, lost>>)
  <2>1. /\ (current # 0 /\ Plays) \/ (last # 0 /\ (Rematches \/ Releases))
        /\ Commits /\ Announces(p)
    BY <1>2 DEF TurnAction, TurnAccepted, VoteAccepted
  <2>2. DataGrows BY <1>0, <2>1, ChangesGrow
  <2>3. PICK j \in Jobs : j = [NoJob EXCEPT !.at = "snapshot"]
    BY EmptyJobs
  <2>4. GetsJob(p, j) /\ j.at = "snapshot"
    BY <2>1, <2>3, EmptyJobs DEF Announces, GetsJob
  <2>5. SmallTypes'
    <3>1. lost' \in BOOLEAN BY <2>1 DEF Announces
    <3> QED BY <1>0, <2>1, <3>1 DEF TurnAction, Commits, TypeOK, SmallTypes
  <2>6. UNCHANGED view BY <2>1 DEF Commits
  <2> QED BY <2>2, <2>4, <2>5, <2>6, EmptyFits, OneJob, SameViews DEF GoodStep
<1> QED BY <1>1, <1>2

\* On to the next socket.
LEMMA ServedJob ==
  ASSUME SyncInv, NEW p \in Procs, Served(p)
  PROVE  /\ \E j \in Jobs : GetsJob(p, j) /\ JobFits(j)'
         /\ fresh' \subseteq Procs
<1>1. job[p].left \ {job[p].to} \in SUBSET Conns BY DEF SyncInv, TypeOK, Jobs
<1>2. PICK j \in Jobs : j = [NoJob EXCEPT !.at = "next", !.left = job[p].left \ {job[p].to}]
  BY <1>1, EmptyJobs
<1>3. j.at = "next" BY <1>1, <1>2, EmptyJobs
<1>4. GetsJob(p, j) BY <1>2 DEF Served, GetsJob
<1>5. fresh' \subseteq Procs BY DEF Served, SyncInv, TypeOK
<1> QED BY <1>3, <1>4, <1>5, EmptyFits

LEMMA ReadSteps ==
  ASSUME SyncInv, NEW p \in Procs,
         Snapshot(p) \/ (\E c \in Conns : ReadRoom(p, c)) \/ ReadHands(p) \/ ReadFails(p)
  PROVE  GoodStep
<1>0. TypeOK /\ StatesFit /\ job[p] \in Jobs /\ job[p].got \in States
  BY DEF SyncInv, TypeOK, Jobs
<1>1. CASE Snapshot(p)
  <2>1. rooms[At(p)] \in SUBSET Conns BY <1>0, ProcsHaveServers DEF TypeOK, HubTypeOK
  <2>2. PICK j \in Jobs : j = [NoJob EXCEPT !.at = "next", !.left = rooms[At(p)]]
    BY <2>1, EmptyJobs
  <2>3. j.at = "next" BY <2>1, <2>2, EmptyJobs
  <2>4. GetsJob(p, j) BY <1>1, <2>2 DEF Snapshot, GetsJob
  <2>5. SmallTypes' BY <1>0, <1>1 DEF Snapshot, data, news, TypeOK, SmallTypes
  <2> QED BY <1>1, <2>3, <2>4, <2>5, PlainStep, EmptyFits DEF Snapshot, news
<1>2. ASSUME NEW c \in Conns, ReadRoom(p, c) PROVE GoodStep
  <2> DEFINE at == IF current = 0 THEN "write" ELSE "hands"
             got == IF current = 0 THEN NoState
                    ELSE [round |-> current, ver |-> version[current], hands |-> 0]
  <2>1. got \in States
    <3>1. CASE current = 0 BY <3>1, NoJobIsJob
    <3>2. CASE current # 0
      BY <1>0, <3>2, SyncAssumption DEF TypeOK, Rounds, States
    <3> QED BY <3>1, <3>2
  <2>2. PICK j \in Jobs : j = [job[p] EXCEPT !.at = at, !.to = c, !.got = got]
    BY <1>0, <2>1 DEF Jobs, Places
  <2>3. j.at = at /\ j.to = c /\ j.got = got BY <1>0, <2>2 DEF Jobs
  <2>4. GetsJob(p, j) BY <1>2, <2>2 DEF ReadRoom, GetsJob
  <2>5. UNCHANGED <<data, view>> BY <1>2 DEF ReadRoom
  <2>6. JobFits(j)'
    <3>1. CASE current = 0
      BY <2>3, <3>1 DEF JobFits, Fits, NoState
    <3>2. CASE current # 0
      BY <1>0, <2>3, <2>5, <3>2, SyncAssumption DEF JobFits, data, TypeOK, Rounds
    <3> QED BY <3>1, <3>2
  <2>7. SmallTypes' BY <1>0, <1>2 DEF ReadRoom, data, TypeOK, SmallTypes
  <2> QED BY <2>4, <2>5, <2>6, <2>7, PlainStep
<1>3. CASE ReadHands(p)
  <2> DEFINE r == job[p].got.round
  <2>1. /\ r \in 1..last /\ job[p].got.ver <= version[r] /\ job[p].to \in Conns
        /\ version[r] \in Nat
    BY <1>0, <1>3, SyncAssumption DEF ReadHands, StatesFit, JobFits, TypeOK, Rounds
  <2>2. PICK j \in Jobs : j = [job[p] EXCEPT !.at = "write", !.got.hands = version[r]]
    BY <1>0, <2>1 DEF Jobs, Places, States
  <2>3. /\ j.at = "write" /\ j.to = job[p].to /\ j.got.round = r
        /\ j.got.ver = job[p].got.ver /\ j.got.hands = version[r]
    BY <1>0, <2>2 DEF Jobs, States
  <2>4. GetsJob(p, j) BY <1>3, <2>2 DEF ReadHands, GetsJob
  <2>5. UNCHANGED <<data, view>> BY <1>3 DEF ReadHands, news
  <2>6. JobFits(j)' BY <2>1, <2>3, <2>5 DEF JobFits, Fits, data
  <2>7. SmallTypes' BY <1>0, <1>3 DEF ReadHands, data, news, TypeOK, SmallTypes
  <2> QED BY <2>4, <2>5, <2>6, <2>7, PlainStep
<1>4. CASE ReadFails(p)
  <2>1. Served(p) /\ Happens /\ UNCHANGED <<data, queue, view, told>> BY <1>4 DEF ReadFails
  <2>2. lost' \in BOOLEAN BY <1>4 DEF ReadFails
  <2>3. SmallTypes'
    BY <1>0, <2>1, <2>2, ServedJob DEF Happens, data, TypeOK, SmallTypes
  <2> QED BY <2>1, <2>3, ServedJob, PlainStep
<1> QED BY <1>1, <1>2, <1>3, <1>4

LEMMA WriteSteps ==
  ASSUME SyncInv, NEW p \in Procs, Write(p) \/ WriteFails(p)
  PROVE  GoodStep
<1>0. /\ TypeOK /\ job[p] \in Jobs /\ job[p].got \in States
      /\ job[p].to \in Conns /\ Fits(job[p].got)
  BY DEF SyncInv, StatesFit, TypeOK, Jobs, JobFits, Write, WriteFails
<1>1. Served(p) /\ UNCHANGED <<data, queue, lost>> BY DEF Write, WriteFails
<1>2. DataGrows BY <1>0, <1>1, SameDataGrows
<1>3. events' \in Nat
  <2>1. UNCHANGED events \/ Happens BY DEF Write, WriteFails
  <2> QED BY <1>0, <2>1 DEF Happens, TypeOK
<1>4. told' \subseteq Conns
  BY <1>0 DEF Write, WriteFails, TypeOK
<1>5. SmallTypes' BY <1>0, <1>1, <1>3, <1>4, ServedJob DEF data, TypeOK, SmallTypes
<1>6. job' \in [Procs -> Jobs] /\ \A q \in Procs : JobFits(job[q])'
  BY <1>1, <1>2, ServedJob, OneJob
<1>7. view' \in [Conns -> States] /\ \A c \in Conns : Fits(view[c])'
  <2>1. CASE WriteFails(p) BY <1>2, <2>1, SameViews DEF WriteFails
  <2>2. CASE Write(p)
    <3>1. view' = [view EXCEPT ![job[p].to] = job[p].got] BY <2>2 DEF Write
    <3>2. PICK st \in States : st = job[p].got BY <1>0
    <3>3. Fits(st)' BY <1>0, <1>2, <3>2, FittingLasts DEF Fits
    <3>4. view' \in [Conns -> States] BY <1>0, <3>1 DEF TypeOK
    <3>5. ASSUME NEW c \in Conns PROVE Fits(view[c])'
      <4>1. CASE c = job[p].to
        <5>1. view'[c] = st BY <1>0, <3>1, <3>2, <4>1 DEF TypeOK
        <5> QED BY <3>3, <5>1 DEF Fits
      <4>2. CASE c # job[p].to
        <5>1. PICK s \in States : s = view[c] /\ Fits(s)
          BY <1>0 DEF SyncInv, StatesFit, TypeOK
        <5>2. view'[c] = s BY <1>0, <3>1, <4>2, <5>1 DEF TypeOK
        <5>3. Fits(s)' BY <1>0, <1>2, <5>1, FittingLasts DEF Fits
        <5> QED BY <5>2, <5>3 DEF Fits
      <4> QED BY <4>1, <4>2
    <3> QED BY <3>4, <3>5
  <2> QED BY <2>1, <2>2
<1> QED BY <1>2, <1>5, <1>6, <1>7 DEF GoodStep

LEMMA PublishSteps ==
  ASSUME SyncInv, NEW p \in Procs, Publish(p)
  PROVE  GoodStep
<1>0. TypeOK BY DEF SyncInv
<1>1. Answered(p) /\ UNCHANGED <<data, news>> BY DEF Publish
<1>2. UNCHANGED events \/ Happens BY DEF Publish
<1>3. events' \in Nat BY <1>0, <1>2 DEF Happens, TypeOK
<1>4. lost' = lost \/ lost' = TRUE BY DEF Publish
<1>5. lost' \in BOOLEAN BY <1>0, <1>4 DEF TypeOK
<1>6. queue' \in [Servers -> Nat]
  <2>1. UNCHANGED queue
        \/ \E heard \in SUBSET Peers(At(p)) :
             queue' = [s \in Servers |-> IF s \in heard THEN queue[s] + 1 ELSE queue[s]]
    BY DEF Publish
  <2> QED BY <1>0, <2>1 DEF TypeOK
<1>7. SmallTypes' BY <1>0, <1>1, <1>3, <1>5, <1>6 DEF data, news, TypeOK, SmallTypes
<1> QED BY <1>1, <1>7, AnsweredJob, PlainStep DEF news

\* Every step is a good one, or changes nothing.
LEMMA StepsAreGood == ASSUME SyncInv, Next PROVE GoodStep
BY CallSteps, ConnSteps, HearSteps, TurnSteps, ReadSteps, WriteSteps, PublishSteps
   DEF Next, BroadcastStep

----------------------------------------------------------------------------
(* The hub.                                                                *)

\* A broadcast writes to connections only, so that each step is one of the hub,
\* or leaves the hub alone.
LEMMA SyncStepsAreHubSteps == SyncInv /\ [Next]_vars => [HubNext]_hubVars
<1> SUFFICES ASSUME SyncInv, [Next]_vars PROVE [HubNext]_hubVars
  OBVIOUS
<1>1. CASE UNCHANGED vars BY <1>1 DEF vars
<1>2. ASSUME NEW k \in Calls,
             \/ Start(k) \/ Sits(k) \/ FindsItDone(k) \/ Tick(k)
             \/ \E c \in Conns : Ask(k, c)
      PROVE  UNCHANGED hubVars
  BY <1>2 DEF Start, Sits, FindsItDone, Tick, Ask
<1>3. ASSUME NEW p \in Procs, Answered(p) PROVE [HubNext]_hubVars
  BY <1>3 DEF Answered, HubNext, HubStep
<1>4. ASSUME NEW c \in Conns,
             \/ HandlerStep(c) \/ Closes(c) \/ Surprise(c)
             \/ Receive(c) \/ AskForSync(c) \/ Superseded(c)
      PROVE  HubNext
  BY <1>4 DEF HandlerStep, Closes, Surprise, Receive, AskForSync, Superseded, HubNext, HubStep
<1>5. ASSUME NEW s \in Servers, Hear(s) PROVE UNCHANGED hubVars
  BY <1>5 DEF Hear
<1>6. ASSUME NEW p \in Procs, TurnAction(p) PROVE [HubNext]_hubVars
  BY <1>3, <1>6 DEF TurnAction
<1>7. ASSUME NEW p \in Procs,
             \/ Snapshot(p) \/ (\E c \in Conns : ReadRoom(p, c)) \/ ReadHands(p)
             \/ ReadFails(p) \/ Write(p)
      PROVE  UNCHANGED hubVars
  BY <1>7 DEF Snapshot, ReadRoom, ReadHands, ReadFails, Write
<1>8. ASSUME NEW p \in Procs, WriteFails(p) PROVE HubNext
  <2>1. job[p].to \in Conns
    BY <1>8 DEF WriteFails, SyncInv, StatesFit, JobFits
  <2>2. FailedWrite(job[p].to) BY <1>8 DEF WriteFails
  <2> QED BY <2>1, <2>2 DEF HubNext, HubStep
<1>9. ASSUME NEW p \in Procs, Publish(p) PROVE [HubNext]_hubVars
  BY <1>3, <1>9 DEF Publish
<1> QED BY <1>1, <1>2, <1>4, <1>5, <1>6, <1>7, <1>8, <1>9 DEF Next, BroadcastStep

----------------------------------------------------------------------------
(* The theorems.                                                           *)

LEMMA SyncInvHolds == Spec => []SyncInv
<1>1. Init => SyncInv
  <2> SUFFICES ASSUME Init PROVE SyncInv
    OBVIOUS
  <2>1. HubTypeOK BY DEF Init, HubInit, HubTypeOK, Stage
  <2>2. last \in Rounds /\ current \in {0, last} /\ version \in [1..MaxRounds -> Nat]
    BY SyncAssumption DEF Init, Rounds
  <2>3. \A p \in Procs : job[p] = NoJob BY DEF Init
  <2>4. job \in [Procs -> Jobs] /\ view \in [Conns -> States]
    BY NoJobIsJob DEF Init
  <2>5. TypeOK BY <2>1, <2>2, <2>4 DEF Init, TypeOK
  <2>6. \A p \in Procs : JobFits(job[p])
    BY <2>3 DEF JobFits, NoJob
  <2>7. \A c \in Conns : Fits(view[c]) BY DEF Init, Fits, NoState
  <2> QED BY <2>5, <2>6, <2>7 DEF SyncInv, StatesFit
<1>2. SyncInv /\ [Next]_vars => SyncInv'
  <2> SUFFICES ASSUME SyncInv, [Next]_vars PROVE SyncInv'
    OBVIOUS
  <2>1. HubTypeOK' BY SyncStepsAreHubSteps, HubTypesKept DEF SyncInv, TypeOK
  <2>2. GoodStep
    <3>1. CASE Next BY <3>1, StepsAreGood
    <3>2. CASE UNCHANGED vars
      <4>1. UNCHANGED <<data, job, view>> BY <3>2 DEF vars, syncVars, news
      <4>2. SmallTypes'
        BY <3>2 DEF vars, syncVars, data, news, SyncInv, TypeOK, SmallTypes
      <4>3. DataGrows BY <4>1, SameDataGrows DEF SyncInv
      <4> QED BY <4>1, <4>2, <4>3, SameJobs, SameViews DEF GoodStep
    <3> QED BY <3>1, <3>2
  <2> QED BY <2>1, <2>2 DEF GoodStep, DataGrows, SmallTypes, SyncInv, TypeOK, StatesFit
<1> QED BY <1>1, <1>2, PTL DEF Spec

\* Every variable of RoomSync has its type; the room points at its last round or
\* at none.
THEOREM SyncTypeCorrect == Spec => []TypeOK
BY SyncInvHolds, PTL DEF SyncInv

\* RoomSync implements Hub: what is sent over the sockets does to the hub what
\* Hub says and nothing else.
THEOREM RoomSyncImplementsHub == Spec => HubSpec
<1>1. Init => HubInit BY DEF Init
<1> QED BY <1>1, SyncStepsAreHubSteps, SyncInvHolds, PTL DEF Spec, HubSpec

\* So that an instance serves the latest connection of the user and no other
\* (HubServesTheLatest),
THEOREM SyncServesTheLatest == Spec => []HubServesTheLatest
BY RoomSyncImplementsHub, LatestIsServed, PTL

\* and no connection that works is left without somebody who serves or closes it
\* (NobodyIsDeaf), broadcasts that fail half-way included.
THEOREM SyncLeavesNobodyDeaf == Spec => []NobodyIsDeaf
BY RoomSyncImplementsHub, EverybodyIsServedOrClosed, PTL

\* A change that is accepted was decided on the rows it changes (ActsOnWhatItSaw),
\* though the state it was decided on was read in several statements, sent late
\* and perhaps out of order: its hands are at least as new as its version, no
\* version goes back, and the version is still the current one.
THEOREM AcceptedChangesSawTheRows == Spec => ActsOnWhatItSaw
<1> DEFINE Decided(p) ==
      LET saw == job[p].got IN
      job[p].at = "act" /\ commits' # commits /\ job'[p] # job[p] /\ saw.round = current
      => saw.ver = version[current] /\ saw.hands = saw.ver
<1>1. SyncInv /\ [Next]_vars => [\A p \in Conns \cup Calls : Decided(p)]_vars
  <2> SUFFICES ASSUME SyncInv, Next, NEW p \in Conns \cup Calls,
                      job[p].at = "act", commits' # commits, job'[p] # job[p],
                      job[p].got.round = current
               PROVE  job[p].got.ver = version[current] /\ job[p].got.hands = job[p].got.ver
    OBVIOUS
  <2>0. /\ p \in Procs /\ TypeOK /\ job[p] \in Jobs /\ job[p].got \in States
        /\ Fits(job[p].got) /\ current # 0
    BY DEF Procs, SyncInv, TypeOK, StatesFit, JobFits, Jobs
  <2>1. TurnAccepted(job[p].got) \/ VoteAccepted(job[p].got)
    <3>1. PICK q \in Procs :
            TurnAction(q) \/ (q \in Calls /\ (Start(q) \/ Sits(q) \/ Tick(q)))
      BY DEF Next, FindsItDone, Procs, BroadcastStep, Ask, HandlerStep, Closes, Surprise, Receive,
         AskForSync, Superseded, Hear, Snapshot, ReadRoom, ReadHands, ReadFails, Write,
         WriteFails, Publish, syncVars, data
    <3>2. \E j : GetsJob(q, j)
      BY <3>1 DEF TurnAction, Answered, Start, Sits, Tick, Announces, GetsJob
    <3>3. q = p BY <2>0, <3>2 DEF GetsJob, TypeOK
    <3>4. TurnAction(p) BY <3>1, <3>3 DEF Start, Sits, Tick
    <3> QED BY <3>4 DEF TurnAction, data
  <2>2. current # 0 /\ job[p].got.ver = version[current]
    BY <2>0, <2>1 DEF TurnAccepted, VoteAccepted, VersionMatches, TypeOK
  <2>3. job[p].got.ver <= job[p].got.hands /\ job[p].got.hands <= version[current]
    BY <2>0, <2>2 DEF Fits
  <2>4. job[p].got.ver \in Nat /\ job[p].got.hands \in Nat BY <2>0 DEF States
  <2> QED BY <2>2, <2>3, <2>4
<1> QED BY <1>1, SyncInvHolds, PTL DEF Spec, ActsOnWhatItSaw

----------------------------------------------------------------------------
(* The news.                                                               *)

\* What a connection that a hub serves has behind it.
ServedHaveEntered ==
  \A s \in Servers : \A c \in rooms[s] :
    server[c] = s /\ stage[c] \notin {"new", "entering"}

\* What a process does agrees with the stage of its handler; one that reads or
\* writes a state has the socket it is for still on its list.
HandlerFits(p) ==
  /\ p \in Conns /\ stage[p] \notin {"opening", "handling"} => job[p].at = "idle"
  /\ p \in Servers => job[p].at \in {"idle", "next", "hands", "write"}
  /\ job[p].at \in {"hands", "write"} => job[p].to \in job[p].left
  /\ p \in fresh => job[p].at \in {"hands", "write"}

HandlersFit == \A p \in Procs : HandlerFits(p)

\* p has a broadcast under way or before it.
Broadcasts(p) ==
  \/ job[p].at \in {"snapshot", "next", "hands", "write"}
  \/ p \in Conns /\ AboutToOpen(p)

\* The broadcast of p will reach c, with a state that is not read yet or was
\* read after the last commit.
Serves(p, c) ==
  \/ job[p].at = "snapshot" \/ (p \in Conns /\ AboutToOpen(p))
  \/ job[p].at = "next" /\ c \in job[p].left
  \/ job[p].at \in {"hands", "write"} /\ c \in job[p].left /\ (job[p].to = c => p \in fresh)

\* Somebody serves c on its instance, or a notice to the instance is on its way,
\* or somebody will send one.
WillBeTold(s, c) ==
  \/ \E p \in Procs : At(p) = s /\ Serves(p, c)
  \/ queue[s] > 0
  \/ \E p \in Procs \ Servers : At(p) # s /\ Broadcasts(p)

\* Whoever was not told yet will be.
NewsIsOnItsWay ==
  ~lost => \A s \in Servers : \A c \in (rooms[s] \cap open) \ told : WillBeTold(s, c)

TellInv == ServedHaveEntered /\ HandlersFit /\ NewsIsOnItsWay

\* The jobs of all but p are as they were.
Others(p) == \A q \in Procs \ {p} : job'[q] = job[q]

LEMMA GotJob ==
  ASSUME TypeOK, NEW p \in Procs, NEW j, GetsJob(p, j)
  PROVE  job'[p] = j /\ Others(p)
BY DEF GetsJob, Others, TypeOK

LEMMA PlaceOfAJob == ASSUME NEW at PROVE [NoJob EXCEPT !.at = at].at = at
BY DEF NoJob

\* Where a step leaves the job of the process that takes it.
LEMMA AfterAnnouncing ==
  ASSUME TypeOK, NEW p \in Procs,
         Announces(p) \/ FindsItDone(p) \/ AskForSync(p)
  PROVE  job'[p].at = "snapshot" /\ Others(p)
<1>1. CASE Announces(p)
  <2>1. GetsJob(p, [NoJob EXCEPT !.at = "snapshot"]) BY <1>1 DEF Announces, GetsJob
  <2> QED BY <2>1, GotJob, PlaceOfAJob
<1>2. CASE FindsItDone(p) \/ AskForSync(p)
  <2>1. GetsJob(p, [job[p] EXCEPT !.at = "snapshot"])
    BY <1>2 DEF FindsItDone, AskForSync, GetsJob
  <2>2. [job[p] EXCEPT !.at = "snapshot"].at = "snapshot" BY DEF TypeOK, Jobs
  <2> QED BY <2>1, <2>2, GotJob
<1> QED BY <1>1, <1>2

LEMMA AfterAsking ==
  ASSUME TypeOK, NEW p \in Procs, Receive(p) \/ \E c \in Conns : Ask(p, c)
  PROVE  job'[p].at = "act" /\ Others(p)
<1>1. PICK c \in Conns \cup {p} :
        GetsJob(p, [job[p] EXCEPT !.at = "act", !.got = view[c]])
  BY DEF Receive, Ask, GetsJob
<1>2. [job[p] EXCEPT !.at = "act", !.got = view[c]].at = "act" BY DEF TypeOK, Jobs
<1> QED BY <1>1, <1>2, GotJob

LEMMA AfterTheAnswer ==
  ASSUME TypeOK, NEW p \in Procs, Answered(p)
  PROVE  job'[p].at = (IF p \in Calls THEN "done" ELSE "idle") /\ Others(p)
<1>1. GetsJob(p, [NoJob EXCEPT !.at = IF p \in Calls THEN "done" ELSE "idle"])
  BY DEF Answered, GetsJob
<1> QED BY <1>1, GotJob, PlaceOfAJob

LEMMA AfterTheSnapshot ==
  ASSUME TypeOK, NEW p \in Procs, Snapshot(p) \/ (p \in Servers /\ Hear(p))
  PROVE  job'[p].at = "next" /\ job'[p].left = rooms[At(p)] /\ Others(p)
<1>1. CASE Snapshot(p)
  <2> DEFINE j == [NoJob EXCEPT !.at = "next", !.left = rooms[At(p)]]
  <2>1. GetsJob(p, j) BY <1>1 DEF Snapshot, GetsJob
  <2>2. j.at = "next" /\ j.left = rooms[At(p)] BY DEF NoJob
  <2> HIDE DEF j
  <2> QED BY <2>1, <2>2, GotJob
<1>2. CASE p \in Servers /\ Hear(p)
  <2>1. GetsJob(p, [job[p] EXCEPT !.at = "next", !.left = rooms[p]])
    BY <1>2 DEF Hear, GetsJob
  <2>2. At(p) = p BY <1>2, SyncAssumption DEF At
  <2>3. /\ [job[p] EXCEPT !.at = "next", !.left = rooms[p]].at = "next"
        /\ [job[p] EXCEPT !.at = "next", !.left = rooms[p]].left = rooms[p]
    BY DEF TypeOK, Jobs
  <2> QED BY <2>1, <2>2, <2>3, GotJob
<1> QED BY <1>1, <1>2

LEMMA AfterReading ==
  ASSUME TypeOK, NEW p \in Procs
  PROVE  /\ \A c \in Conns : ReadRoom(p, c) =>
              /\ job'[p].at \in {"hands", "write"} /\ job'[p].left = job[p].left
              /\ job'[p].to = c /\ Others(p)
         /\ ReadHands(p) =>
              /\ job'[p].at = "write" /\ job'[p].left = job[p].left
              /\ job'[p].to = job[p].to /\ Others(p)
<1>1. ASSUME NEW c \in Conns, ReadRoom(p, c)
      PROVE  /\ job'[p].at \in {"hands", "write"} /\ job'[p].left = job[p].left
             /\ job'[p].to = c /\ Others(p)
  <2> DEFINE at == IF current = 0 THEN "write" ELSE "hands"
             got == IF current = 0 THEN NoState
                    ELSE [round |-> current, ver |-> version[current], hands |-> 0]
             j == [job[p] EXCEPT !.at = at, !.to = c, !.got = got]
  <2>1. GetsJob(p, j) BY <1>1 DEF ReadRoom, GetsJob
  <2>2. j.at = at /\ j.left = job[p].left /\ j.to = c BY DEF TypeOK, Jobs
  <2>3. at \in {"hands", "write"} OBVIOUS
  <2> HIDE DEF j, at
  <2> QED BY <2>1, <2>2, <2>3, GotJob
<1>2. ASSUME ReadHands(p)
      PROVE  /\ job'[p].at = "write" /\ job'[p].left = job[p].left
             /\ job'[p].to = job[p].to /\ Others(p)
  <2> DEFINE j == [job[p] EXCEPT !.at = "write", !.got.hands = version[job[p].got.round]]
  <2>1. GetsJob(p, j) BY <1>2 DEF ReadHands, GetsJob
  <2>2. j.at = "write" /\ j.left = job[p].left /\ j.to = job[p].to BY DEF TypeOK, Jobs
  <2> HIDE DEF j
  <2> QED BY <2>1, <2>2, GotJob
<1> QED BY <1>1, <1>2

LEMMA AfterServing ==
  ASSUME TypeOK, NEW p \in Procs, Served(p)
  PROVE  job'[p].at = "next" /\ job'[p].left = job[p].left \ {job[p].to} /\ Others(p)
<1> DEFINE j == [NoJob EXCEPT !.at = "next", !.left = job[p].left \ {job[p].to}]
<1>1. GetsJob(p, j) BY DEF Served, GetsJob
<1>2. j.at = "next" /\ j.left = job[p].left \ {job[p].to} BY DEF NoJob
<1> HIDE DEF j
<1> QED BY <1>1, <1>2, GotJob

\* The instance of a process is the same for good.
LEMMA PlacesStay == ASSUME SyncInv, [Next]_vars PROVE server' = server
<1>1. [HubNext]_hubVars BY SyncStepsAreHubSteps
<1> QED BY <1>1 DEF HubNext, HubStep, hubVars, Upgrade, Reject, Enter, CloseDoomed, Proceed,
        Accept, Refuse, SocketEnds, Leave, FailedWrite, Drop

\* A hub serves connections of its own, which have entered it.
LEMMA ServedHaveEnteredKept ==
  HubTypeOK /\ ServedHaveEntered /\ [HubNext]_hubVars => ServedHaveEntered'
<1> SUFFICES ASSUME HubTypeOK, ServedHaveEntered, [HubNext]_hubVars
             PROVE  ServedHaveEntered'
  OBVIOUS
<1>1. CASE UNCHANGED hubVars BY <1>1 DEF hubVars, ServedHaveEntered
<1>2. ASSUME NEW c \in Conns, HubStep(c) PROVE ServedHaveEntered'
  <2>1. /\ server' = server
        /\ stage'[c] \in {"new", "entering"} => stage[c] \in {"new", "entering"}
        /\ \A d \in Conns : d # c => stage'[d] = stage[d]
    <3>1. stage'[c] \in {"new", "entering"} => stage[c] \in {"new", "entering"}
      BY <1>2, MovesKeepsTypes DEF HubStep, Upgrade, Reject, Enter, CloseDoomed, Proceed, Accept,
         Refuse, SocketEnds, Leave, FailedWrite, Drop, Stage, HubTypeOK
    <3> QED BY <1>2, <3>1, StagesOfAStep DEF HubStep, Upgrade, Reject, Enter, CloseDoomed,
            Proceed, Accept, Refuse, SocketEnds, Leave, FailedWrite, Drop
  <2>2. ASSUME NEW s \in Servers, NEW d \in rooms'[s], d \notin rooms[s]
        PROVE  d = c /\ s = server[c] /\ stage'[c] = "opening"
    <3>1. Enter(c)
      BY <1>2, <2>2, MapsOfAStep DEF RemovedFromHub, HubTypeOK
    <3> QED BY <2>2, <3>1, MovesKeepsTypes DEF Enter, ServedAfterAdd, HubTypeOK, Stage
  <2>3. rooms' \in [Servers -> SUBSET Conns]
    BY HubTypesKept DEF HubTypeOK
  <2> QED BY <2>1, <2>2, <2>3 DEF ServedHaveEntered, HubTypeOK
<1> QED BY <1>1, <1>2 DEF HubNext

\* A step of p keeps the handlers in order if it keeps its own.
LEMMA OneHandler ==
  ASSUME HandlersFit, NEW p \in Procs, Others(p), HandlerFits(p)',
         \A q \in Procs \ {p} : /\ q \in Conns => stage'[q] = stage[q]
                                /\ q \in fresh' => q \in fresh
  PROVE  HandlersFit'
BY DEF HandlersFit, HandlerFits, Others

\* The stages of the others.
LEMMA OneStage ==
  ASSUME TypeOK, NEW p \in Conns, HubStep(p)
  PROVE  \A q \in Procs \ {p} : q \in Conns => stage'[q] = stage[q]
BY StagesOfAStep DEF TypeOK

\* What each kind of step does to the handlers.
LEMMA CallsKeepHandlers ==
  ASSUME SyncInv, HandlersFit, NEW k \in Calls,
         \/ Start(k) \/ Sits(k) \/ FindsItDone(k) \/ Tick(k)
         \/ \E c \in Conns : Ask(k, c)
  PROVE  HandlersFit'
<1>0. k \in Procs /\ k \notin Conns /\ k \notin Servers /\ TypeOK
  BY SyncAssumption DEF Procs, SyncInv
<1>1. UNCHANGED stage /\ fresh' \subseteq fresh
  BY DEF Start, Sits, FindsItDone, Tick, Ask, Commits, hubVars, news
<1>2. k \notin fresh
  BY <1>0 DEF HandlersFit, HandlerFits, Start, Sits, FindsItDone, Tick, Ask
<1>3. job'[k].at \in {"snapshot", "act", "done"} /\ Others(k)
  <2>1. CASE Announces(k) \/ FindsItDone(k)
    BY <1>0, <2>1, AfterAnnouncing
  <2>2. CASE \E c \in Conns : Ask(k, c)
    BY <1>0, <2>2, AfterAsking
  <2>3. CASE job' = [job EXCEPT ![k] = [NoJob EXCEPT !.at = "done"]]
    BY <1>0, <2>3, GotJob, PlaceOfAJob DEF GetsJob
  <2> QED BY <2>1, <2>2, <2>3 DEF Start, Sits, Tick
<1>4. HandlerFits(k)' BY <1>0, <1>1, <1>2, <1>3 DEF HandlerFits
<1> QED BY <1>0, <1>1, <1>3, <1>4, OneHandler

LEMMA ConnsKeepHandlers ==
  ASSUME SyncInv, HandlersFit, NEW c \in Conns,
         \/ HandlerStep(c) \/ Closes(c) \/ Surprise(c)
         \/ Receive(c) \/ AskForSync(c) \/ Superseded(c)
  PROVE  HandlersFit'
<1>0. c \in Procs /\ c \notin Calls /\ c \notin Servers /\ TypeOK /\ HubTypeOK
  BY SyncAssumption DEF Procs, SyncInv, TypeOK
<1>1. HubStep(c) /\ fresh' = fresh
  BY DEF HandlerStep, Closes, Surprise, Receive, AskForSync, Superseded, HubStep, syncVars, news
<1>2. \A q \in Procs \ {c} : q \in Conns => stage'[q] = stage[q]
  BY <1>0, <1>1, OneStage
<1>3. HandlerFits(c) BY <1>0 DEF HandlersFit
<1>4. CASE Receive(c) \/ AskForSync(c)
  <2>1. Accept(c) BY <1>4 DEF Receive, AskForSync
  <2>2. stage[c] = "listening" /\ stage'[c] = "handling"
    BY <1>0, <2>1 DEF Accept, Moves, HubTypeOK
  <2>3. job'[c].at \in {"act", "snapshot"} /\ Others(c)
    BY <1>0, <1>4, AfterAnnouncing, AfterAsking
  <2>4. HandlerFits(c)' BY <1>0, <1>1, <1>3, <2>2, <2>3 DEF HandlerFits
  <2> QED BY <1>0, <1>1, <1>2, <2>3, <2>4, OneHandler
<1>5. CASE HandlerStep(c) \/ Closes(c) \/ Surprise(c) \/ Superseded(c)
  <2>1. UNCHANGED job BY <1>5 DEF HandlerStep, Closes, Surprise, Superseded, syncVars
  <2>2. stage[c] \in {"opening", "handling"} => stage'[c] = stage[c]
    BY <1>0, <1>5 DEF HandlerStep, Closes, Surprise, Superseded, Enter, SocketEnds, Leave,
       CloseDoomed, Upgrade, Reject, Drop, Refuse, Moves
  <2>3. HandlerFits(c)' BY <1>0, <1>1, <1>3, <2>1, <2>2 DEF HandlerFits
  <2> QED BY <1>0, <1>1, <1>2, <2>1, <2>3, OneHandler DEF Others
<1> QED BY <1>4, <1>5

\* The answer leaves the handler in its loop, or the listener idle.
LEMMA AnswersKeepHandlers ==
  ASSUME SyncInv, HandlersFit, NEW p \in Procs, Answered(p), fresh' \subseteq fresh,
         p \notin fresh
  PROVE  HandlersFit'
<1>0. TypeOK BY DEF SyncInv
<1>1. job'[p].at = (IF p \in Calls THEN "done" ELSE "idle") /\ Others(p)
  BY <1>0, AfterTheAnswer
<1>2. HandlerFits(p)'
  BY <1>1, SyncAssumption DEF HandlerFits, Procs
<1>3. \A q \in Procs \ {p} : q \in Conns => stage'[q] = stage[q]
  <2>1. CASE p \in Conns
    <3>1. HubStep(p) BY <2>1 DEF Answered, HubStep
    <3> QED BY <1>0, <2>1, <3>1, OneStage
  <2>2. CASE p \notin Conns BY <2>2 DEF Answered, hubVars
  <2> QED BY <2>1, <2>2
<1> QED BY <1>1, <1>2, <1>3, OneHandler

LEMMA TurnsKeepHandlers ==
  ASSUME SyncInv, HandlersFit, NEW p \in Procs, TurnAction(p)
  PROVE  HandlersFit'
<1>0. TypeOK /\ HandlerFits(p) /\ p \notin fresh /\ p \notin Servers
  BY DEF SyncInv, HandlersFit, HandlerFits, TurnAction
<1>1. CASE Answered(p) /\ UNCHANGED <<data, news, lost>>
  BY <1>0, <1>1, AnswersKeepHandlers DEF news
<1>2. CASE Commits /\ Announces(p) /\ UNCHANGED hubVars
  <2>1. job'[p].at = "snapshot" /\ Others(p) BY <1>0, <1>2, AfterAnnouncing
  <2>2. fresh' = {} /\ UNCHANGED stage BY <1>2 DEF Commits, hubVars
  <2>3. HandlerFits(p)'
    BY <1>0, <2>1, <2>2 DEF HandlerFits, TurnAction
  <2> QED BY <2>1, <2>2, <2>3, OneHandler
<1> QED BY <1>1, <1>2 DEF TurnAction

LEMMA BroadcastsKeepHandlers ==
  ASSUME SyncInv, HandlersFit, NEW p \in Procs,
         BroadcastStep(p) \/ (p \in Servers /\ Hear(p))
  PROVE  HandlersFit'
<1>0. TypeOK /\ HandlerFits(p) BY DEF SyncInv, HandlersFit
<1>1. CASE Snapshot(p) \/ (p \in Servers /\ Hear(p))
  <2>1. job'[p].at = "next" /\ Others(p) BY <1>0, <1>1, AfterTheSnapshot
  <2>2. UNCHANGED <<stage, fresh>> BY <1>1 DEF Snapshot, Hear, hubVars, news
  <2>3. p \notin fresh
    BY <1>0, <1>1, SyncAssumption DEF HandlerFits, Snapshot, Hear, AboutToOpen
  <2>4. p \in Conns => stage[p] \in {"opening", "handling"}
    BY <1>0, <1>1, SyncAssumption DEF HandlerFits, Snapshot, AboutToOpen, Procs
  <2>5. HandlerFits(p)' BY <1>0, <2>1, <2>2, <2>3, <2>4 DEF HandlerFits
  <2> QED BY <2>1, <2>2, <2>5, OneHandler
<1>2. ASSUME NEW c \in Conns, ReadRoom(p, c) PROVE HandlersFit'
  <2>1. /\ job'[p].at \in {"hands", "write"} /\ job'[p].left = job[p].left
        /\ job'[p].to = c /\ Others(p)
    BY <1>0, <1>2, AfterReading
  <2>2. /\ UNCHANGED stage /\ fresh' = fresh \cup {p}
        /\ job[p].at = "next" /\ c \in job[p].left
    BY <1>2 DEF ReadRoom, hubVars
  <2>3. HandlerFits(p)' BY <1>0, <2>1, <2>2 DEF HandlerFits
  <2> QED BY <2>1, <2>2, <2>3, OneHandler
<1>3. CASE ReadHands(p)
  <2>1. /\ job'[p].at = "write" /\ job'[p].left = job[p].left
        /\ job'[p].to = job[p].to /\ Others(p)
    BY <1>0, <1>3, AfterReading
  <2>2. UNCHANGED <<stage, fresh>> /\ job[p].at = "hands"
    BY <1>3 DEF ReadHands, hubVars, news
  <2>3. HandlerFits(p)' BY <1>0, <2>1, <2>2 DEF HandlerFits
  <2> QED BY <2>1, <2>2, <2>3, OneHandler
<1>4. CASE ReadFails(p) \/ Write(p) \/ WriteFails(p)
  <2>1. Served(p) /\ UNCHANGED stage /\ job[p].at \in {"hands", "write"}
    BY <1>4 DEF ReadFails, Write, WriteFails, FailedWrite, hubVars
  <2>2. job'[p].at = "next" /\ Others(p) BY <1>0, <2>1, AfterServing
  <2>3. fresh' = fresh \ {p} BY <2>1 DEF Served
  <2>4. HandlerFits(p)' BY <1>0, <2>1, <2>2, <2>3 DEF HandlerFits
  <2> QED BY <2>1, <2>2, <2>3, <2>4, OneHandler
<1>5. CASE Publish(p)
  <2>1. p \notin fresh BY <1>0, <1>5 DEF HandlerFits, Publish
  <2> QED BY <1>5, <2>1, AnswersKeepHandlers DEF Publish, news
<1> QED BY <1>1, <1>2, <1>3, <1>4, <1>5 DEF BroadcastStep

\* No step brings a handler out of order.
LEMMA HandlersFitKept == SyncInv /\ HandlersFit /\ [Next]_vars => HandlersFit'
<1> SUFFICES ASSUME SyncInv, HandlersFit, [Next]_vars PROVE HandlersFit'
  OBVIOUS
<1>1. CASE UNCHANGED vars
  BY <1>1 DEF vars, hubVars, syncVars, news, HandlersFit, HandlerFits
<1>2. CASE Next
  <2>1. ASSUME NEW s \in Servers, Hear(s) PROVE HandlersFit'
    BY <2>1, BroadcastsKeepHandlers DEF Procs
  <2> QED BY <1>2, <2>1, CallsKeepHandlers, ConnsKeepHandlers, TurnsKeepHandlers,
             BroadcastsKeepHandlers DEF Next
<1> QED BY <1>1, <1>2

\* Who changes the room announces it to everybody.
LEMMA AnnouncementsReach ==
  ASSUME SyncInv, NEW p \in Procs \ Servers, Announces(p), server' = server,
         NEW s \in Servers, NEW c \in Conns
  PROVE  WillBeTold(s, c)'
<1>1. job'[p].at = "snapshot" BY AfterAnnouncing DEF SyncInv
<1>2. CASE At(p)' = s BY <1>1, <1>2 DEF WillBeTold, Serves
<1>3. CASE At(p)' # s BY <1>1, <1>3 DEF WillBeTold, Broadcasts
<1> QED BY <1>2, <1>3

\* A step of p leaves c to be told by whom it was, if p itself goes on to serve
\* it or to give notice.
LEMMA OthersGoOn ==
  ASSUME SyncInv, NEW p \in Procs, NEW s \in Servers, NEW c \in Conns,
         WillBeTold(s, c), server' = server, Others(p),
         \A q \in Procs \ {p} : /\ q \in Conns => stage'[q] = stage[q]
                                /\ q \in fresh => q \in fresh',
         At(p) = s /\ Serves(p, c) => WillBeTold(s, c)',
         p \notin Servers /\ At(p) # s /\ Broadcasts(p) => WillBeTold(s, c)',
         queue[s] > 0 => WillBeTold(s, c)'
  PROVE  WillBeTold(s, c)'
<1>1. \A q \in Procs : At(q)' = At(q) BY DEF At
<1>2. ASSUME NEW q \in Procs, q # p
      PROVE  (Serves(q, c) => Serves(q, c)') /\ (Broadcasts(q) => Broadcasts(q)')
  <2>1. job'[q] = job[q] BY <1>2 DEF Others
  <2>2. q \in Conns => (AboutToOpen(q) => AboutToOpen(q)')
    BY <1>2, <2>1 DEF AboutToOpen
  <2> QED BY <1>2, <2>1, <2>2 DEF Serves, Broadcasts
<1>3. CASE \E q \in Procs : At(q) = s /\ Serves(q, c)
  BY <1>1, <1>2, <1>3 DEF WillBeTold
<1>4. CASE \E q \in Procs \ Servers : At(q) # s /\ Broadcasts(q)
  BY <1>1, <1>2, <1>4 DEF WillBeTold
<1> QED BY <1>3, <1>4 DEF WillBeTold

\* Who was to be told, if it still is to be, still will be.
Pending(s, c) == ~lost /\ c \in (rooms[s] \cap open) \ told

LEMMA CallsKeepNews ==
  ASSUME SyncInv, HandlersFit, NewsIsOnItsWay, server' = server, NEW k \in Calls,
         \/ Start(k) \/ Sits(k) \/ FindsItDone(k) \/ Tick(k)
         \/ \E c \in Conns : Ask(k, c),
         NEW s \in Servers, NEW c \in Conns, Pending(s, c)'
  PROVE  WillBeTold(s, c)'
<1>0. k \in Procs \ Servers /\ k \notin Conns /\ TypeOK
  BY SyncAssumption DEF Procs, SyncInv
<1>1. CASE Start(k) \/ Sits(k) \/ Tick(k)
  <2>1. Announces(k) BY <1>1 DEF Start, Sits, Tick, Pending
  <2> QED BY <1>0, <2>1, AnnouncementsReach
<1>2. CASE FindsItDone(k) \/ \E d \in Conns : Ask(k, d)
  <2>1. UNCHANGED <<hubVars, queue, news, lost>> /\ job[k].at = "idle"
    BY <1>2 DEF FindsItDone, Ask
  <2>2. Others(k) BY <1>0, <1>2, AfterAnnouncing, AfterAsking
  <2>3. WillBeTold(s, c) BY <2>1 DEF NewsIsOnItsWay, Pending, hubVars, news
  <2>4. ~Serves(k, c) /\ ~Broadcasts(k) BY <1>0, <2>1 DEF Serves, Broadcasts
  <2>5. queue[s] > 0 => WillBeTold(s, c)' BY <2>1 DEF WillBeTold
  <2> QED BY <1>0, <2>1, <2>2, <2>3, <2>4, <2>5, OthersGoOn DEF hubVars, news
<1> QED BY <1>1, <1>2

LEMMA ConnsKeepNews ==
  ASSUME SyncInv, ServedHaveEntered, HandlersFit, NewsIsOnItsWay, server' = server,
         NEW d \in Conns,
         \/ HandlerStep(d) \/ Closes(d) \/ Surprise(d)
         \/ Receive(d) \/ AskForSync(d) \/ Superseded(d),
         NEW s \in Servers, NEW c \in Conns, Pending(s, c)'
  PROVE  WillBeTold(s, c)'
<1>0. d \in Procs \ Servers /\ TypeOK /\ HubTypeOK /\ HandlerFits(d)
  BY SyncAssumption DEF Procs, SyncInv, TypeOK, HandlersFit
<1>1. HubStep(d) /\ UNCHANGED <<queue, news, lost>>
  BY DEF HandlerStep, Closes, Surprise, Receive, AskForSync, Superseded, HubStep, syncVars
<1>2. \A q \in Procs \ {d} : q \in Conns => stage'[q] = stage[q]
  BY <1>0, <1>1, OneStage
<1>3. Others(d)
  <2>1. CASE Receive(d) \/ AskForSync(d)
    BY <1>0, <2>1, AfterAnnouncing, AfterAsking
  <2>2. CASE UNCHANGED job BY <2>2 DEF Others
  <2> QED BY <2>1, <2>2 DEF HandlerStep, Closes, Surprise, Superseded, syncVars
<1>4. CASE Enter(d) /\ UNCHANGED job /\ d = c /\ s = server[d]
  <2>1. AboutToOpen(d)'
    BY <1>0, <1>4, MovesKeepsTypes DEF Enter, AboutToOpen, HandlerFits, Moves, HubTypeOK, Stage
  <2>2. At(d)' = s BY <1>4 DEF At
  <2> QED BY <1>0, <2>1, <2>2 DEF WillBeTold, Serves
<1>5. CASE ~(Enter(d) /\ UNCHANGED job /\ d = c /\ s = server[d])
  <2>1. c \in rooms[s]
    <3>1. CASE Enter(d)
      <4>1. UNCHANGED job \/ Accept(d)
        BY DEF HandlerStep, Closes, Surprise, Receive, AskForSync, Superseded, syncVars
      <4>2. ~Accept(d) BY <3>1 DEF Enter, Accept, Moves
      <4> QED BY <1>0, <1>5, <3>1, <4>1, <4>2 DEF Enter, ServedAfterAdd, Pending, HubTypeOK
    <3>2. CASE ~Enter(d)
      BY <1>0, <1>1, <3>2, MapsOfAStep DEF RemovedFromHub, Pending, HubTypeOK
    <3> QED BY <3>1, <3>2
  <2>2. c \in open
    <3>1. Upgrade(d) => d # c
      BY <2>1 DEF Upgrade, Moves, ServedHaveEntered
    <3> QED BY <1>1, <3>1 DEF Pending, HubStep, Upgrade, Reject, Enter, CloseDoomed, Proceed,
            Accept, Refuse, SocketEnds, Leave, FailedWrite, Drop
  <2>3. WillBeTold(s, c) BY <1>1, <2>1, <2>2 DEF NewsIsOnItsWay, Pending, news
  <2>4. Serves(d, c) \/ Broadcasts(d) => AboutToOpen(d) \/ stage[d] = "handling" \/ stage[d] = "opening"
    BY <1>0 DEF Serves, Broadcasts, HandlerFits
  <2>5. stage[d] \in {"opening", "handling"} => UNCHANGED job /\ stage'[d] = stage[d]
    BY <1>0 DEF HandlerStep, Closes, Surprise, Receive, AskForSync, Superseded, Accept, Enter,
       SocketEnds, Leave, CloseDoomed, Upgrade, Reject, Drop, Refuse, Moves, syncVars
  <2>6. (Serves(d, c) => Serves(d, c)') /\ (Broadcasts(d) => Broadcasts(d)')
    BY <1>1, <2>4, <2>5 DEF Serves, Broadcasts, AboutToOpen, news
  <2>7. At(d)' = At(d) BY DEF At
  <2>8. /\ At(d) = s /\ Serves(d, c) => WillBeTold(s, c)'
        /\ At(d) # s /\ Broadcasts(d) => WillBeTold(s, c)'
        /\ queue[s] > 0 => WillBeTold(s, c)'
    BY <1>0, <1>1, <2>6, <2>7 DEF WillBeTold
  <2> QED BY <1>0, <1>1, <1>2, <1>3, <2>3, <2>8, OthersGoOn DEF news
<1> QED BY <1>4, <1>5

\* The steps of a broadcast, and of the listener that takes a notice, leave the
\* connections where they are, or take one out of its hub.
LEMMA BroadcastsKeepHubs ==
  ASSUME SyncInv, NEW p \in Procs,
         BroadcastStep(p) \/ TurnAction(p) \/ (p \in Servers /\ Hear(p))
  PROVE  /\ \A q \in Procs \ {p} : q \in Conns => stage'[q] = stage[q]
         /\ \A s \in Servers : rooms'[s] \subseteq rooms[s]
         /\ open' \subseteq open
<1>0. TypeOK /\ HubTypeOK BY DEF SyncInv, TypeOK
<1>1. ASSUME Answered(p) PROVE UNCHANGED <<rooms, open>>
  BY <1>1 DEF Answered, Proceed, hubVars
<1>2. ASSUME Answered(p) PROVE \A q \in Procs \ {p} : q \in Conns => stage'[q] = stage[q]
  <2>1. CASE p \in Conns
    <3>1. HubStep(p) BY <1>2, <2>1 DEF Answered, HubStep
    <3> QED BY <1>0, <2>1, <3>1, OneStage
  <2>2. CASE p \notin Conns BY <1>2, <2>2 DEF Answered, hubVars
  <2> QED BY <2>1, <2>2
<1>3. CASE WriteFails(p)
  BY <1>0, <1>3 DEF WriteFails, FailedWrite, RemovedFromHub, HubTypeOK
<1>4. CASE ~WriteFails(p)
  BY <1>1, <1>2, <1>4 DEF BroadcastStep, TurnAction, Hear, Snapshot, ReadRoom, ReadHands,
     ReadFails, Write, Publish, hubVars
<1> QED BY <1>3, <1>4

\* What was to be told before a step that commits nothing.
LEMMA WasPending ==
  ASSUME SyncInv, NEW p \in Procs,
         BroadcastStep(p) \/ TurnAction(p) \/ (p \in Servers /\ Hear(p)),
         NewsIsOnItsWay, NEW s \in Servers, NEW c \in Conns, Pending(s, c)',
         lost => lost', told \subseteq told'
  PROVE  WillBeTold(s, c)
<1>1. Pending(s, c) BY BroadcastsKeepHubs DEF Pending
<1> QED BY <1>1 DEF Pending, NewsIsOnItsWay

LEMMA TurnsKeepNews ==
  ASSUME SyncInv, HandlersFit, NewsIsOnItsWay, server' = server, NEW p \in Procs,
         TurnAction(p), NEW s \in Servers, NEW c \in Conns, Pending(s, c)'
  PROVE  WillBeTold(s, c)'
<1>0. TypeOK /\ p \notin Servers /\ job[p].at = "act"
  BY DEF SyncInv, HandlersFit, HandlerFits, TurnAction
<1>1. CASE Announces(p) BY <1>0, <1>1, AnnouncementsReach
<1>2. CASE Answered(p) /\ UNCHANGED <<data, news, lost>>
  <2>1. Others(p) BY <1>0, <1>2, AfterTheAnswer
  <2>2. WillBeTold(s, c) BY <1>2, WasPending DEF news
  <2>3. ~Serves(p, c) /\ ~Broadcasts(p) BY <1>0 DEF Serves, Broadcasts, AboutToOpen
  <2>4. queue[s] > 0 => WillBeTold(s, c)' BY DEF TurnAction, WillBeTold
  <2> QED BY <1>2, <2>1, <2>2, <2>3, <2>4, BroadcastsKeepHubs, OthersGoOn DEF news
<1> QED BY <1>1, <1>2 DEF TurnAction

\* A snapshot has everybody whom the hub of the process serves.
LEMMA SnapshotsKeepNews ==
  ASSUME SyncInv, HandlersFit, NewsIsOnItsWay, server' = server, NEW p \in Procs,
         Snapshot(p) \/ (p \in Servers /\ Hear(p)),
         NEW s \in Servers, NEW c \in Conns, Pending(s, c)'
  PROVE  WillBeTold(s, c)'
<1>0. TypeOK /\ UNCHANGED <<hubVars, news, lost>> /\ At(p)' = At(p)
  BY DEF SyncInv, Snapshot, Hear, At
<1>1. job'[p].at = "next" /\ job'[p].left = rooms[At(p)] /\ Others(p)
  BY <1>0, AfterTheSnapshot
<1>2. c \in rooms[s] BY <1>0 DEF Pending, hubVars
<1>3. At(p) = s => WillBeTold(s, c)' BY <1>0, <1>1, <1>2 DEF WillBeTold, Serves
<1>4. p \notin Servers /\ At(p) # s => WillBeTold(s, c)'
  BY <1>0, <1>1 DEF WillBeTold, Broadcasts
<1>5. queue[s] > 0 => WillBeTold(s, c)'
  <2>1. CASE queue'[s] = queue[s] BY <2>1 DEF WillBeTold
  <2>2. CASE queue'[s] # queue[s]
    <3>1. p = s BY <1>0, <2>2 DEF Snapshot, Hear, TypeOK
    <3>2. At(p) = s BY <3>1, SyncAssumption DEF At
    <3> QED BY <1>3, <3>2
  <2> QED BY <2>1, <2>2
<1>6. WillBeTold(s, c) BY <1>0, WasPending DEF BroadcastStep, news
<1> QED BY <1>0, <1>1, <1>3, <1>4, <1>5, <1>6, OthersGoOn DEF hubVars, news

\* A socket stays on the list of who serves it until it is written to, with a
\* state that was read after the last commit.
LEMMA ServingKeepsNews ==
  ASSUME SyncInv, ServedHaveEntered, HandlersFit, NewsIsOnItsWay, server' = server,
         NEW p \in Procs,
         \/ \E d \in Conns : ReadRoom(p, d)
         \/ ReadHands(p) \/ Write(p) \/ WriteFails(p),
         NEW s \in Servers, NEW c \in Conns, Pending(s, c)'
  PROVE  WillBeTold(s, c)'
<1>0. TypeOK /\ HubTypeOK /\ HandlerFits(p) /\ At(p)' = At(p) /\ UNCHANGED <<queue, lost>>
  BY DEF SyncInv, TypeOK, HandlersFit, At, ReadRoom, ReadHands, Write, WriteFails
<1>1. job[p].at \in {"next", "hands", "write"}
  BY DEF ReadRoom, ReadHands, Write, WriteFails
<1>2. /\ Others(p) /\ job'[p].at \in {"next", "hands", "write"}
      /\ fresh \ {p} \subseteq fresh' /\ told \subseteq told'
      /\ Serves(p, c) => Serves(p, c)'
  <2>1. ASSUME NEW d \in Conns, ReadRoom(p, d)
        PROVE  /\ Others(p) /\ job'[p].at \in {"hands", "write"}
               /\ job'[p].left = job[p].left
               /\ fresh' = fresh \cup {p} /\ told' = told
    BY <1>0, <2>1, AfterReading DEF ReadRoom
  <2>2. CASE ReadHands(p)
    <3>1. /\ job'[p].at = "write" /\ job'[p].left = job[p].left
          /\ job'[p].to = job[p].to /\ Others(p)
      BY <1>0, <2>2, AfterReading
    <3>2. UNCHANGED <<fresh, told>> /\ job[p].at = "hands" BY <2>2 DEF ReadHands, news
    <3>3. Serves(p, c) => Serves(p, c)' BY <3>1, <3>2 DEF Serves, AboutToOpen
    <3> QED BY <3>1, <3>2, <3>3
  <2>3. CASE Write(p) \/ WriteFails(p)
    <3>1. Served(p) /\ job[p].at = "write" BY <2>3 DEF Write, WriteFails
    <3>2. job'[p].at = "next" /\ job'[p].left = job[p].left \ {job[p].to} /\ Others(p)
      BY <1>0, <3>1, AfterServing
    <3>3. fresh' = fresh \ {p} BY <3>1 DEF Served
    <3>4. told \subseteq told' BY <2>3 DEF Write, WriteFails
    <3>5. ASSUME Serves(p, c) PROVE c # job[p].to
      <4>1. CASE Write(p)
        BY <3>1, <3>5, <4>1 DEF Write, Serves, AboutToOpen, Pending
      <4>2. CASE WriteFails(p)
        BY <1>0, <3>1, <4>2 DEF WriteFails, FailedWrite, RemovedFromHub, Pending,
           ServedHaveEntered, HubTypeOK
      <4> QED BY <2>3, <4>1, <4>2
    <3>6. Serves(p, c) => Serves(p, c)' BY <3>1, <3>2, <3>5 DEF Serves, AboutToOpen
    <3> QED BY <3>2, <3>3, <3>4, <3>6
  <2>4. ASSUME NEW d \in Conns, ReadRoom(p, d) PROVE Serves(p, c) => Serves(p, c)'
    BY <1>1, <2>1, <2>4 DEF Serves, ReadRoom, AboutToOpen
  <2> QED BY <2>1, <2>2, <2>3, <2>4
<1>3. WillBeTold(s, c) BY <1>0, <1>2, WasPending DEF BroadcastStep
<1>4. At(p) = s /\ Serves(p, c) => WillBeTold(s, c)' BY <1>0, <1>2 DEF WillBeTold
<1>5. p \notin Servers /\ At(p) # s => WillBeTold(s, c)'
  BY <1>0, <1>2 DEF WillBeTold, Broadcasts
<1>6. queue[s] > 0 => WillBeTold(s, c)' BY <1>0 DEF WillBeTold
<1>7. \A q \in Procs \ {p} : /\ q \in Conns => stage'[q] = stage[q]
                             /\ q \in fresh => q \in fresh'
  BY <1>2, BroadcastsKeepHubs DEF BroadcastStep
<1> QED BY <1>2, <1>3, <1>4, <1>5, <1>6, <1>7, OthersGoOn

\* A broadcast that is over has given notice to every other instance, or the
\* announcement is lost.
LEMMA NoticesKeepNews ==
  ASSUME SyncInv, HandlersFit, NewsIsOnItsWay, server' = server, NEW p \in Procs,
         Publish(p), NEW s \in Servers, NEW c \in Conns, Pending(s, c)'
  PROVE  WillBeTold(s, c)'
<1>0. /\ TypeOK /\ Answered(p) /\ job[p].at = "next" /\ job[p].left = {}
      /\ UNCHANGED <<data, news>> /\ ~lost'
  BY DEF SyncInv, Publish, Pending
<1>1. Others(p) BY <1>0, AfterTheAnswer
<1>2. lost => lost' BY DEF Publish
<1>3. WillBeTold(s, c) BY <1>0, <1>2, WasPending DEF BroadcastStep, news
<1>4. ~Serves(p, c) BY <1>0 DEF Serves, AboutToOpen
<1>5. queue[s] > 0 => queue'[s] > 0 BY <1>0 DEF Publish, TypeOK
<1>6. p \notin Servers /\ At(p) # s => queue'[s] > 0
  BY <1>0 DEF Publish, GivesNotice, Peers, TypeOK
<1>7. queue'[s] > 0 => WillBeTold(s, c)' BY DEF WillBeTold
<1> QED BY <1>0, <1>1, <1>3, <1>4, <1>5, <1>6, <1>7, BroadcastsKeepHubs, OthersGoOn
        DEF BroadcastStep, news

\* TellInv is inductive: each kind of step keeps what was to be told on its way.
LEMMA NewsIsOnItsWayKept == SyncInv /\ TellInv /\ [Next]_vars => NewsIsOnItsWay'
<1> SUFFICES ASSUME SyncInv, TellInv, [Next]_vars PROVE NewsIsOnItsWay'
  OBVIOUS
<1>0. HubTypeOK' BY SyncStepsAreHubSteps, HubTypesKept DEF SyncInv, TypeOK
<1> SUFFICES ASSUME NEW s \in Servers, NEW c \in Conns, Pending(s, c)'
             PROVE  WillBeTold(s, c)'
  BY <1>0 DEF NewsIsOnItsWay, Pending, HubTypeOK
<1>1. server' = server /\ ServedHaveEntered /\ HandlersFit /\ NewsIsOnItsWay
  BY PlacesStay DEF TellInv
<1>2. CASE UNCHANGED vars
  <2>1. WillBeTold(s, c)
    BY <1>1, <1>2 DEF vars, hubVars, syncVars, news, Pending, NewsIsOnItsWay
  <2> QED BY <1>2, <2>1 DEF vars, hubVars, syncVars, news, WillBeTold, At, Serves, Broadcasts,
             AboutToOpen
<1>3. ASSUME NEW p \in Procs, BroadcastStep(p) PROVE WillBeTold(s, c)'
  <2>1. ~ReadFails(p) BY DEF ReadFails, Pending
  <2> QED BY <1>1, <1>3, <2>1, SnapshotsKeepNews, ServingKeepsNews, NoticesKeepNews
          DEF BroadcastStep
<1>4. ASSUME NEW t \in Servers, Hear(t) PROVE WillBeTold(s, c)'
  BY <1>1, <1>4, SnapshotsKeepNews DEF Procs
<1>5. CASE Next
  BY <1>1, <1>3, <1>4, <1>5, CallsKeepNews, ConnsKeepNews, TurnsKeepNews DEF Next
<1> QED BY <1>2, <1>5

LEMMA TellInvHolds == Spec => []TellInv
<1>1. Init => TellInv
  <2> SUFFICES ASSUME Init PROVE TellInv
    OBVIOUS
  <2>1. \A s \in Servers : rooms[s] = {} BY DEF Init, HubInit
  <2>2. \A p \in Procs : job[p].at = "idle" BY DEF Init, NoJob
  <2>3. HandlersFit BY <2>2 DEF Init, HandlersFit, HandlerFits
  <2> QED BY <2>1, <2>3 DEF TellInv, ServedHaveEntered, NewsIsOnItsWay
<1>2. SyncInv /\ TellInv /\ [Next]_vars => TellInv'
  BY SyncStepsAreHubSteps, ServedHaveEnteredKept, HandlersFitKept, NewsIsOnItsWayKept
     DEF TellInv, SyncInv, TypeOK
<1> QED BY <1>1, <1>2, SyncInvHolds, PTL DEF Spec

\* Every socket is sent a state as new as the last commit (EverybodyIsTold), by
\* whoever has it on a list, or by its instance when a notice comes.
THEOREM EverybodyIsServedTheNews == Spec => []EverybodyIsTold
<1>1. SyncInv /\ TellInv => EverybodyIsTold
  <2> SUFFICES ASSUME SyncInv, TellInv, Quiet, ~lost, NEW s \in Servers,
                      NEW c \in rooms[s] \cap open, c \notin told
               PROVE  FALSE
    BY DEF EverybodyIsTold
  <2>1. WillBeTold(s, c) BY DEF TellInv, NewsIsOnItsWay
  <2>2. ASSUME NEW p \in Procs PROVE ~Serves(p, c) /\ ~Broadcasts(p)
    BY <2>2 DEF Quiet, Serves, Broadcasts, AboutToOpen
  <2> QED BY <2>1, <2>2 DEF WillBeTold, Quiet
<1> QED BY <1>1, SyncInvHolds, TellInvHolds, PTL
=============================================================================
