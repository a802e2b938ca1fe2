----------------------------- MODULE RoomProofs -----------------------------
(***************************************************************************)
(* Theorems about Room, for any number of callers, sockets and workers and *)
(* any number of rounds.                                                   *)
(***************************************************************************)
EXTENDS Room, TLAPS

----------------------------------------------------------------------------
(* The invariant.                                                          *)

LockPlaces  == {"vote.commit", "due.commit"}
RoundPlaces == {"act.session", "act.commit", "vote.tx", "turn.commit"} \cup LockPlaces
PlayPlaces  == {"act.commit", "turn.commit"}

\* The types, without what they say of locks.
RowsOK ==
  /\ room \in [status : {"WAITING", "READY", "PLAYING"}, current : 0..MaxSessions]
  /\ room.status = "PLAYING" <=> room.current # 0
  /\ seat \in SeatStatus
  /\ sess \in [Ids -> Session]
  /\ lastId \in 0..MaxSessions

CallsOK == pc \in [Procs -> Places] /\ got \in [Procs -> Copy]

LocksOK ==
  /\ locked = {got[p].id : p \in {q \in Procs : HoldsLock(q)}}
  /\ \A p, q \in Procs : HoldsLock(p) /\ HoldsLock(q) /\ got[p].id = got[q].id => p = q

LEMMA TypeParts == TypeOK <=> RowsOK /\ CallsOK /\ LocksOK
BY DEF TypeOK, RowsOK, CallsOK, LocksOK

\* The rounds: rows appear in order, an agreed rematch has its next round, and
\* the room points at a row there is.
RoundsOK ==
  /\ \A i \in Ids : i > lastId \/ i \notin Rows => sess[i] = NoRow
  /\ Rows # {} => lastId \in Rows
  /\ \A i \in Ids : sess[i].round <= lastId
  /\ CurrentRoundExists
  /\ \A i \in Rows : sess[i].vote = "AGREE" =>
       sess[i].status = "RESETTING" /\ i # lastId /\ room.current # i

\* What a call that stands at a place with a copy knows of the rounds: which
\* rows there are, that its version is not from the future, what can still be
\* true of a row that has this version, and, when it holds the lock, that the
\* rematch is not agreed, unless its vote names a version it had not seen.
Fits(place, copy) ==
  LET i == copy.id
  IN
  /\ copy.round <= lastId + 1
  /\ place = "start.commit" => copy.round >= 1
  /\ place \in RoundPlaces => i \in 1..lastId
  /\ place \in LockPlaces => i \in Rows /\ sess[i].status = "RESETTING"
  /\ place = "due.commit" \/ (place = "vote.commit" /\ copy.asked = copy.version) =>
       sess[i].vote # "AGREE"
  /\ place \in PlayPlaces \cup {"vote.tx"} /\ i \in Rows => copy.version <= sess[i].version
  /\ place \in PlayPlaces /\ i \in Rows /\ copy.version = sess[i].version => i \in Live
  /\ place = "vote.tx" /\ i \in Rows /\ copy.version = sess[i].version =>
       sess[i].vote # "AGREE"

CallsFit == \A p \in Procs : Fits(pc[p], got[p])

RoomInv == TypeOK /\ RoundsOK /\ CallsFit

----------------------------------------------------------------------------
(* Calls.                                                                  *)

\* One call moves, and the others stay where they are.
LEMMA GotoMoves ==
  ASSUME CallsOK, NEW p \in Procs, NEW next \in Places, NEW copy \in Copy,
         Goto(p, next, copy)
  PROVE  /\ CallsOK'
         /\ pc'[p] = next /\ got'[p] = copy
         /\ \A q \in Procs \ {p} : pc'[q] = pc[q] /\ got'[q] = got[q]
BY DEF CallsOK, Goto

LEMMA NothingIsCopy == NothingRead \in Copy /\ "idle" \in Places
BY ProcsAssumption DEF NothingRead, Copy, SeatStatus, Places

\* A call that neither has nor gets a lock.
LEMMA GotoWithoutLock ==
  ASSUME CallsOK, LocksOK, NEW p \in Procs, NEW next \in Places, NEW copy \in Copy,
         Goto(p, next, copy), next \notin LockPlaces, ~HoldsLock(p), UNCHANGED locked
  PROVE  LocksOK'
<1>1. /\ pc'[p] = next
      /\ \A q \in Procs \ {p} : pc'[q] = pc[q] /\ got'[q] = got[q]
  BY GotoMoves
<1>2. \A q \in Procs : HoldsLock(q)' <=> HoldsLock(q)
  BY <1>1 DEF HoldsLock, LockPlaces
<1>3. \A q \in Procs : HoldsLock(q) => got'[q] = got[q]
  BY <1>1
<1> QED
  BY <1>2, <1>3 DEF LocksOK

LEMMA GotoWithLock ==
  ASSUME CallsOK, LocksOK, NEW p \in Procs, NEW next \in LockPlaces, NEW copy \in Copy,
         Goto(p, next, copy), ~HoldsLock(p), copy.id \notin locked,
         locked' = locked \cup {copy.id}
  PROVE  LocksOK'
<1>1. /\ pc'[p] = next /\ got'[p] = copy
      /\ \A q \in Procs \ {p} : pc'[q] = pc[q] /\ got'[q] = got[q]
  BY GotoMoves DEF LockPlaces, Places
<1>2. HoldsLock(p)' /\ \A q \in Procs \ {p} : HoldsLock(q)' <=> HoldsLock(q)
  BY <1>1 DEF HoldsLock, LockPlaces
<1>3. \A q \in Procs : HoldsLock(q) => q # p /\ got'[q] = got[q] /\ got[q].id \in locked
  BY <1>1 DEF LocksOK
<1>4. locked' = {got'[q].id : q \in {r \in Procs : HoldsLock(r)'}}
  <2>1. ASSUME NEW i \in locked' PROVE \E q \in Procs : HoldsLock(q)' /\ i = got'[q].id
    <3>1. CASE i = copy.id
      BY <1>1, <1>2, <3>1
    <3>2. CASE i \in locked
      <4>1. PICK q \in Procs : HoldsLock(q) /\ i = got[q].id
        BY <3>2 DEF LocksOK
      <4> QED
        BY <1>2, <1>3, <4>1
    <3> QED
      BY <2>1, <3>1, <3>2
  <2>2. ASSUME NEW q \in Procs, HoldsLock(q)' PROVE got'[q].id \in locked'
    <3>1. CASE q = p
      BY <1>1, <3>1
    <3>2. CASE q # p
      BY <1>2, <1>3, <2>2, <3>2
    <3> QED
      BY <3>1, <3>2
  <2> QED
    BY <2>1, <2>2
<1>5. \A q, r \in Procs : HoldsLock(q)' /\ HoldsLock(r)' /\ got'[q].id = got'[r].id => q = r
  BY <1>1, <1>2, <1>3 DEF LocksOK
<1> QED
  BY <1>4, <1>5 DEF LocksOK

LEMMA ReturnUnlocks ==
  ASSUME CallsOK, LocksOK, NEW p \in Procs, HoldsLock(p), Return(p),
         locked' = locked \ {got[p].id}
  PROVE  LocksOK'
<1>1. /\ pc'[p] = "idle"
      /\ \A q \in Procs \ {p} : pc'[q] = pc[q] /\ got'[q] = got[q]
  BY GotoMoves, NothingIsCopy DEF Return
<1>2. ~HoldsLock(p)' /\ \A q \in Procs \ {p} : HoldsLock(q)' <=> HoldsLock(q)
  BY <1>1 DEF HoldsLock
<1>3. \A q \in Procs \ {p} : HoldsLock(q) => got[q].id # got[p].id /\ got[q].id \in locked
  BY DEF LocksOK
<1>4. locked' = {got'[q].id : q \in {r \in Procs : HoldsLock(r)'}}
  <2>1. ASSUME NEW i \in locked' PROVE \E q \in Procs : HoldsLock(q)' /\ i = got'[q].id
    <3>1. PICK q \in Procs : HoldsLock(q) /\ i = got[q].id
      BY <2>1 DEF LocksOK
    <3>2. q # p
      BY <2>1, <3>1
    <3> QED
      BY <1>1, <1>2, <3>1, <3>2
  <2>2. ASSUME NEW q \in Procs, HoldsLock(q)' PROVE got'[q].id \in locked'
    BY <1>1, <1>2, <1>3, <2>2
  <2> QED
    BY <2>1, <2>2
<1>5. \A q, r \in Procs : HoldsLock(q)' /\ HoldsLock(r)' /\ got'[q].id = got'[r].id => q = r
  BY <1>1, <1>2 DEF LocksOK
<1> QED
  BY <1>4, <1>5 DEF LocksOK
----------------------------------------------------------------------------
(* How the rounds move: a round is played on, voted on, or opened (after   *)
(* another one or not), or all are deleted.                                *)

SameElsewhere(others) ==
  sess' \in [Ids -> Session] /\ \A j \in Ids \ others : sess'[j] = sess[j]

Played(i) ==
  /\ SameElsewhere({i}) /\ lastId' = lastId
  /\ sess'[i].status # "NONE" /\ sess'[i].version = sess[i].version + 1
  /\ sess'[i].round = sess[i].round /\ sess'[i].vote = sess[i].vote

\* A vote that opens no round, or a clock that runs.
Noted(i) ==
  /\ SameElsewhere({i}) /\ lastId' = lastId
  /\ sess'[i].status = sess[i].status /\ sess'[i].version = sess[i].version
  /\ sess'[i].round = sess[i].round
  /\ sess'[i].vote = "AGREE" => sess[i].vote = "AGREE"

\* Round r is created; after is the round whose rematch it is, or 0.
Opened(after, r) ==
  /\ SameElsewhere({after, lastId + 1}) /\ lastId < MaxSessions /\ lastId' = lastId + 1
  /\ r >= 1 /\ ~RoundTaken(r)
  /\ sess'[lastId + 1].status \in AfterDeal /\ sess'[lastId + 1].round = r
  /\ sess'[lastId + 1].vote = "NONE" /\ sess'[lastId + 1].version = 1
  /\ after # 0 =>
       /\ sess'[after].status = sess[after].status
       /\ sess'[after].version = sess[after].version + 1
       /\ sess'[after].round = sess[after].round

LEMMA IdTypes ==
  ASSUME RowsOK
  PROVE  /\ MaxSessions \in Nat /\ MaxVersion \in Nat /\ lastId \in Nat
         /\ lastId <= MaxSessions /\ Ids \subseteq Nat /\ 0 \notin Ids
         /\ 1..lastId \subseteq Ids
         /\ \A i \in Ids : /\ sess[i] \in Session
                            /\ sess[i].version \in Nat /\ sess[i].round \in Nat
BY ProcsAssumption DEF RowsOK, Ids, Session

\* Rows are among those created.
LEMMA RowsAreCreated ==
  ASSUME RowsOK, RoundsOK, NEW i \in Rows
  PROVE  i \in Ids /\ i \in 1..lastId /\ i \in 0..MaxSessions /\ sess[i].version \in Nat
<1>1. i \in Ids /\ sess[i] # NoRow
  BY DEF Rows, NoRow
<1> QED
  BY <1>1, IdTypes DEF RoundsOK, Ids

\* The latest row is the last one created.
LEMMA LatestIsLast ==
  ASSUME RowsOK, RoundsOK
  PROVE  Latest = IF Rows = {} THEN 0 ELSE lastId
<1>1. CASE Rows = {}
  BY <1>1 DEF Latest
<1>2. CASE Rows # {}
  <2>1. lastId \in Rows /\ Rows \subseteq Nat /\ \A j \in Rows : j <= lastId
    BY <1>2, IdTypes DEF RoundsOK, Rows, NoRow
  <2>2. \A i \in Rows : (\A j \in Rows : j <= i) => i = lastId
    BY <2>1, IdTypes
  <2>3. Latest \in Rows /\ \A j \in Rows : j <= Latest
    BY <1>2, <2>1 DEF Latest
  <2> QED
    BY <1>2, <2>2, <2>3
<1> QED
  BY <1>1, <1>2

----------------------------------------------------------------------------
(* What the calls in flight know survives each move of the rounds.         *)

LEMMA FitsAfterPlay ==
  ASSUME RowsOK, NEW i \in Live, Played(i),
         NEW place, NEW copy \in Copy, Fits(place, copy), place \in LockPlaces => copy.id # i
  PROVE  Fits(place, copy)'
<1>1. /\ i \in Ids /\ i \in Rows /\ Rows' = Rows
      /\ \A j \in Ids \ {i} : j \in Live' <=> j \in Live
  BY DEF Played, SameElsewhere, Rows, Live
<1>2. copy.version \in Nat /\ sess[i].version \in Nat /\ lastId' = lastId
  BY <1>1, IdTypes DEF Copy, Played
<1>3. CASE copy.id = i
  BY <1>1, <1>2, <1>3 DEF Fits, Played, PlayPlaces, LockPlaces, RoundPlaces
<1>4. CASE copy.id # i
  <2>1. copy.id \in Rows => sess'[copy.id] = sess[copy.id]
    BY <1>4 DEF Played, SameElsewhere, Rows
  <2>2. copy.id \in Live => copy.id \in Live'
    BY <1>1, <1>4 DEF Live, Rows
  <2> QED
    BY <1>1, <1>2, <2>1, <2>2 DEF Fits, LockPlaces
<1> QED
  BY <1>3, <1>4

LEMMA FitsAfterNote ==
  ASSUME RowsOK, NEW i \in Ids, Noted(i),
         NEW place, NEW copy \in Copy, Fits(place, copy)
  PROVE  Fits(place, copy)'
<1>1. Rows' = Rows /\ Live' = Live /\ lastId' = lastId
  <2>1. \A j \in Ids : sess'[j].status = sess[j].status
    BY DEF Noted, SameElsewhere
  <2> QED
    BY <2>1 DEF Noted, Rows, Live
<1>2. \A j \in Ids : /\ sess'[j].status = sess[j].status /\ sess'[j].version = sess[j].version
                     /\ sess'[j].vote = "AGREE" => sess[j].vote = "AGREE"
  BY DEF Noted, SameElsewhere
<1>3. Rows \subseteq Ids
  BY DEF Rows
<1> QED
  BY <1>1, <1>2, <1>3 DEF Fits, LockPlaces

LEMMA FitsAfterOpen ==
  ASSUME RowsOK, RoundsOK, NEW after, after = 0 \/ (after \in Rows /\ after \notin Live),
         NEW r, Opened(after, r),
         NEW place, NEW copy \in Copy, Fits(place, copy), place \in LockPlaces => copy.id # after
  PROVE  Fits(place, copy)'
<1> DEFINE i == copy.id
           new == lastId + 1
<1>1. /\ lastId \in Nat /\ new \in Ids /\ lastId' = new
      /\ copy.version \in Nat /\ copy.round \in Nat
  BY IdTypes DEF Copy, Opened, Ids
<1>2. /\ copy.round <= lastId' + 1
      /\ place = "start.commit" => copy.round >= 1
      /\ place \in RoundPlaces => i \in 1..lastId /\ i \in 1..lastId'
  BY <1>1 DEF Fits
<1>3. ASSUME i \in 1..lastId, i # after
      PROVE  /\ sess'[i] = sess[i] /\ (i \in Rows' <=> i \in Rows)
             /\ (i \in Live' <=> i \in Live)
  <2>1. i \in Ids /\ i # new
    BY <1>1, <1>3, IdTypes
  <2>2. sess'[i] = sess[i]
    BY <1>3, <2>1 DEF Opened, SameElsewhere
  <2> QED
    BY <2>2 DEF Rows, Live
<1>4. CASE place \notin RoundPlaces
  BY <1>2, <1>4 DEF Fits, RoundPlaces, PlayPlaces, LockPlaces
<1>5. CASE place \in RoundPlaces /\ i # after
  BY <1>2, <1>3, <1>5 DEF Fits
<1>6. CASE place \in RoundPlaces /\ i = after
  <2>1. after \in Rows /\ after \notin Live /\ after \in Ids
    BY <1>1, <1>2, <1>6 DEF Rows
  <2>2. sess'[i].version = sess[i].version + 1 /\ sess[i].version \in Nat
    BY <1>1, <1>2, <1>6, <2>1, IdTypes DEF Opened
  <2>3. place \in PlayPlaces \cup {"vote.tx"} => copy.version <= sess[i].version
    BY <1>6, <2>1 DEF Fits
  <2>4. place \notin LockPlaces
    BY <1>6
  <2> QED
    BY <1>1, <1>2, <2>2, <2>3, <2>4 DEF Fits, PlayPlaces, LockPlaces
<1> QED
  BY <1>4, <1>5, <1>6
----------------------------------------------------------------------------
(* The rounds and the room after each move.                                *)

LEMMA RoomWithOK ==
  ASSUME RowsOK, NEW i \in 0..MaxSessions, NEW seated \in BOOLEAN
  PROVE  /\ RoomWith(i, seated) \in [status : {"WAITING", "READY", "PLAYING"},
                                      current : 0..MaxSessions]
         /\ RoomWith(i, seated).status = "PLAYING" <=> i # 0
         /\ RoomWith(i, seated).current = i
BY DEF RoomWith

\* The room is left alone, released, or made to point at a round there is
\* and whose rematch is not agreed.
RoomFollows ==
  \/ UNCHANGED room
  \/ \E i \in 0..MaxSessions, seated \in BOOLEAN :
       /\ room' = RoomWith(i, seated)
       /\ i # 0 => i \in Rows' /\ sess'[i].vote # "AGREE"

LEMMA RoundsAfterPlay ==
  ASSUME RowsOK, RoundsOK, NEW i \in Live, Played(i), RoomFollows
  PROVE  RoundsOK'
<1>1. /\ i \in Ids /\ i \in Rows /\ Rows' = Rows /\ lastId' = lastId /\ Rows \subseteq Ids
      /\ sess[i].vote # "AGREE"
  BY DEF Played, SameElsewhere, Rows, Live, RoundsOK
<1>2. \A j \in Ids : j # i => sess'[j] = sess[j]
  BY DEF Played, SameElsewhere
<1>3. i <= lastId
  <2>1. sess[i] # NoRow
    BY <1>1 DEF Rows, NoRow
  <2> QED
    BY <1>1, <2>1, IdTypes DEF RoundsOK
<1>4. \A j \in Ids : j > lastId \/ j \notin Rows => sess'[j] = NoRow
  BY <1>1, <1>2, <1>3, IdTypes DEF RoundsOK
<1>5. \A j \in Ids : sess'[j].round <= lastId
  BY <1>1, <1>2 DEF RoundsOK, Played
<1>6. CurrentRoundExists'
  BY <1>1, RoomWithOK DEF RoomFollows, RoundsOK, CurrentRoundExists
<1>7. \A j \in Rows : sess'[j].vote = "AGREE" => j # i /\ sess[j] = sess'[j]
  BY <1>1, <1>2 DEF Played
<1>8. \A j \in Rows : sess'[j].vote = "AGREE" =>
        sess'[j].status = "RESETTING" /\ j # lastId /\ room'.current # j
  <2> SUFFICES ASSUME NEW j \in Rows, sess'[j].vote = "AGREE"
               PROVE  sess'[j].status = "RESETTING" /\ j # lastId /\ room'.current # j
    OBVIOUS
  <2>1. sess[j].vote = "AGREE" /\ sess'[j].status = sess[j].status
    BY <1>7
  <2>2. sess[j].status = "RESETTING" /\ j # lastId /\ room.current # j /\ j # 0
    BY <1>1, <2>1, IdTypes DEF RoundsOK
  <2> QED
    BY <2>1, <2>2, RoomWithOK DEF RoomFollows
<1> QED
  BY <1>1, <1>4, <1>5, <1>6, <1>8 DEF RoundsOK

LEMMA RoundsAfterNote ==
  ASSUME RowsOK, RoundsOK, NEW i \in Rows, Noted(i), RoomFollows
  PROVE  RoundsOK'
<1>1. /\ i \in Ids /\ Rows' = Rows /\ lastId' = lastId /\ Rows \subseteq Ids
  BY DEF Noted, SameElsewhere, Rows
<1>2. \A j \in Ids : j # i => sess'[j] = sess[j]
  BY DEF Noted, SameElsewhere
<1>3. i <= lastId
  <2>1. sess[i] # NoRow
    BY <1>1 DEF Rows, NoRow
  <2> QED
    BY <1>1, <2>1, IdTypes DEF RoundsOK
<1>4. \A j \in Ids : j > lastId \/ j \notin Rows => sess'[j] = NoRow
  BY <1>1, <1>2, <1>3, IdTypes DEF RoundsOK
<1>5. \A j \in Ids : sess'[j].round <= lastId
  BY <1>1, <1>2 DEF RoundsOK, Noted
<1>6. CurrentRoundExists'
  BY <1>1, RoomWithOK DEF RoomFollows, RoundsOK, CurrentRoundExists
<1>7. \A j \in Rows : sess'[j].vote = "AGREE" =>
        sess[j].vote = "AGREE" /\ sess'[j].status = sess[j].status
  BY <1>1, <1>2 DEF Noted
<1>8. \A j \in Rows : sess'[j].vote = "AGREE" =>
        sess'[j].status = "RESETTING" /\ j # lastId /\ room'.current # j
  <2> SUFFICES ASSUME NEW j \in Rows, sess'[j].vote = "AGREE"
               PROVE  sess'[j].status = "RESETTING" /\ j # lastId /\ room'.current # j
    OBVIOUS
  <2>1. sess[j].vote = "AGREE" /\ sess'[j].status = sess[j].status
    BY <1>7
  <2>2. sess[j].status = "RESETTING" /\ j # lastId /\ room.current # j /\ j # 0
    BY <1>1, <2>1, IdTypes DEF RoundsOK
  <2> QED
    BY <2>1, <2>2, RoomWithOK DEF RoomFollows
<1> QED
  BY <1>1, <1>4, <1>5, <1>6, <1>8 DEF RoundsOK

LEMMA RoundsAfterOpen ==
  ASSUME RowsOK, RoundsOK,
         NEW after, after = 0 \/ (after \in Rows /\ sess[after].status = "RESETTING"),
         NEW r \in Nat, r <= lastId + 1, Opened(after, r),
         room' = RoomWith(lastId + 1, TRUE)
  PROVE  RoundsOK'
<1> DEFINE new == lastId + 1
<1>1. new \in Ids /\ lastId \in Nat /\ lastId' = new /\ room'.current = new /\ new # 0
  <2>1. lastId \in Nat /\ MaxSessions \in Nat /\ lastId < MaxSessions /\ lastId' = new
    BY IdTypes DEF Opened
  <2>2. new \in 1..MaxSessions /\ new \in 0..MaxSessions /\ new # 0
    BY <2>1
  <2> QED
    BY <2>1, <2>2, RoomWithOK DEF Ids
<1>2. \A j \in Ids : j # after /\ j # new => sess'[j] = sess[j]
  BY DEF Opened, SameElsewhere
<1>3. after # 0 => after \in 1..lastId
  <2>1. after # 0 => after \in Ids /\ sess[after] # NoRow
    BY DEF Rows, NoRow
  <2> QED
    BY <2>1, IdTypes DEF RoundsOK, Ids
<1>4. \A j \in Ids : j > new \/ j \notin Rows' => sess'[j] = NoRow
  <2> SUFFICES ASSUME NEW j \in Ids, j > new \/ j \notin Rows' PROVE sess'[j] = NoRow
    OBVIOUS
  <2>1. after # 0 => after \in Rows'
    BY <1>1, <1>3 DEF Opened, Rows
  <2>2. new \in Rows'
    BY <1>1 DEF Opened, AfterDeal, Rows
  <2>3. j # 0
    BY IdTypes
  <2>4. j # new /\ j # after
    BY <1>1, <1>3, <2>1, <2>2, <2>3, IdTypes
  <2>5. sess'[j] = sess[j]
    BY <1>2, <2>4
  <2>6. j > lastId \/ j \notin Rows
    BY <1>1, <2>5, IdTypes DEF Rows
  <2> QED
    BY <2>5, <2>6 DEF RoundsOK
<1>5. \A j \in Ids : sess'[j].round <= new
  <2> SUFFICES ASSUME NEW j \in Ids PROVE sess'[j].round <= new
    OBVIOUS
  <2>1. sess[j].round <= lastId /\ sess[j].round \in Nat
    BY IdTypes DEF RoundsOK
  <2>2. j = new \/ sess'[j].round = sess[j].round
    BY <1>2, IdTypes DEF Opened
  <2>3. sess'[new].round = r
    BY DEF Opened
  <2> QED
    BY <1>1, <2>1, <2>2, <2>3
<1>6. new \in Rows'
  BY <1>1 DEF Opened, AfterDeal, Rows
<1>7. ASSUME NEW j \in Rows', sess'[j].vote = "AGREE"
      PROVE  sess'[j].status = "RESETTING" /\ j # new
  <2>1. j \in Ids /\ sess'[j].status # "NONE"
    BY DEF Rows
  <2>2. j # new
    BY <1>7 DEF Opened
  <2>3. CASE j = after
    <3>1. after # 0
      BY <2>1, <2>3, IdTypes
    <3> QED
      BY <2>2, <2>3, <3>1 DEF Opened
  <2>4. CASE j # after
    <3>1. sess'[j] = sess[j] /\ j \in Rows
      BY <1>2, <2>1, <2>2, <2>4 DEF Rows
    <3> QED
      BY <1>7, <2>2, <3>1 DEF RoundsOK
  <2> QED
    BY <2>3, <2>4
<1> QED
  BY <1>1, <1>4, <1>5, <1>6, <1>7 DEF RoundsOK, CurrentRoundExists

\* The rounds stay as they are.
LEMMA RoundsStay ==
  ASSUME RowsOK, RoundsOK, UNCHANGED <<sess, lastId>>, RoomFollows
  PROVE  RoundsOK'
<1>1. Rows' = Rows /\ Rows \subseteq Ids
  BY DEF Rows
<1>2. CurrentRoundExists'
  BY <1>1, RoomWithOK DEF RoomFollows, RoundsOK, CurrentRoundExists
<1>3. \A j \in Rows : sess[j].vote = "AGREE" => room'.current # j
  <2> SUFFICES ASSUME NEW j \in Rows, sess[j].vote = "AGREE" PROVE room'.current # j
    OBVIOUS
  <2>1. room.current # j /\ j # 0
    BY <1>1, IdTypes DEF RoundsOK
  <2> QED
    BY <2>1, RoomWithOK DEF RoomFollows
<1> QED
  BY <1>1, <1>2, <1>3 DEF RoundsOK

LEMMA FitsStays ==
  ASSUME UNCHANGED <<sess, lastId>>, NEW place, NEW copy, Fits(place, copy)
  PROVE  Fits(place, copy)'
BY DEF Fits, Rows, Live
\* A value that fits after the step fits the call that then has it.
LEMMA FitsAsCall ==
  ASSUME NEW q, NEW place, NEW copy, place = pc'[q], copy = got'[q], Fits(place, copy)'
  PROVE  Fits(pc[q], got[q])'
BY DEF Fits, Rows, Live

\* What every step keeps of the rows and, next, every step but a reset.
AgreementStays ==
  \A i \in Rows : sess[i].vote = "AGREE" /\ i \in Rows' /\ ~VoteFromAhead(i)
    => sess'[i].vote = "AGREE" /\ sess'[i].version = sess[i].version

RowsKept == AgreementStays /\ (RoundsAreConsecutive => RoundsAreConsecutive')

Kept == RoomInv' /\ RowsKept

LEMMA KeptWithoutWrite == UNCHANGED <<sess, lastId>> => RowsKept
BY DEF RowsKept, AgreementStays, RoundsAreConsecutive

LEMMA KeptAfterPlay ==
  ASSUME RowsOK, RoundsOK, NEW i \in Live, Played(i)
  PROVE  RowsKept
<1>1. /\ lastId' = lastId /\ sess[i].vote # "AGREE" /\ sess'[i].round = sess[i].round
      /\ \A j \in Ids : j # i => sess'[j] = sess[j]
  BY DEF Played, SameElsewhere, RoundsOK, Live
<1> QED
  BY <1>1, IdTypes DEF RowsKept, AgreementStays, RoundsAreConsecutive, Rows

LEMMA KeptAfterNote ==
  ASSUME RowsOK, NEW i \in Ids, Noted(i),
         sess[i].vote # "AGREE" \/ sess'[i].vote = "AGREE" \/ VoteFromAhead(i)
  PROVE  RowsKept
<1>1. /\ lastId' = lastId /\ sess'[i].round = sess[i].round
      /\ sess'[i].version = sess[i].version
      /\ \A j \in Ids : j # i => sess'[j] = sess[j]
  BY DEF Noted, SameElsewhere
<1> QED
  BY <1>1, IdTypes DEF RowsKept, AgreementStays, RoundsAreConsecutive, Rows

LEMMA KeptAfterOpen ==
  ASSUME RowsOK, RoundsOK,
         NEW after, after = 0 \/ after \in Rows,
         after = 0 \/ sess[after].vote # "AGREE" \/ VoteFromAhead(after),
         NEW r \in Nat, r <= lastId + 1, Opened(after, r)
  PROVE  RowsKept
<1> DEFINE new == lastId + 1
<1>1. lastId \in Nat /\ lastId' = new /\ 1..lastId \subseteq Ids
  BY IdTypes DEF Opened
<1>2. \A j \in Ids : j # after /\ j # new => sess'[j] = sess[j]
  BY DEF Opened, SameElsewhere
<1>3. \A j \in Rows : j \in Ids /\ j <= lastId /\ j # new
  BY <1>1, RowsAreCreated
<1>4. AgreementStays
  <2> SUFFICES ASSUME NEW j \in Rows, sess[j].vote = "AGREE", ~VoteFromAhead(j)
               PROVE  sess'[j].vote = "AGREE" /\ sess'[j].version = sess[j].version
    BY DEF AgreementStays
  <2>1. j # 0
    BY <1>3, IdTypes
  <2>2. j # after
    <3> SUFFICES ASSUME j = after PROVE FALSE
      OBVIOUS
    <3>1. after # 0 /\ sess[after].vote = "AGREE" /\ ~VoteFromAhead(after)
      BY <2>1
    <3> QED
      BY <3>1
  <2> QED
    BY <1>2, <1>3, <2>2
<1>5. ASSUME RoundsAreConsecutive PROVE RoundsAreConsecutive'
  <2>1. r \notin 1..lastId
    <3> SUFFICES ASSUME r \in 1..lastId PROVE FALSE
      OBVIOUS
    <3>1. r \in Ids /\ sess[r].round = r /\ r # 0
      BY <1>1, <1>5 DEF RoundsAreConsecutive
    <3>2. r \in Rows
      BY <3>1 DEF RoundsOK, NoRow
    <3> QED
      BY <3>1, <3>2 DEF Opened, RoundTaken
  <2>2. r = new
    BY <1>1, <2>1 DEF Opened
  <2>3. ASSUME NEW j \in 1..lastId PROVE sess'[j].round = j
    <3>1. j \in Ids /\ j # new /\ j # 0 /\ sess[j].round = j
      BY <1>1, <1>5 DEF RoundsAreConsecutive
    <3> QED
      BY <1>2, <3>1 DEF Opened
  <2>4. sess'[new].round = new
    BY <2>2 DEF Opened
  <2>5. 1..lastId' = 1..lastId \cup {new}
    BY <1>1
  <2> QED
    BY <2>3, <2>4, <2>5 DEF RoundsAreConsecutive
<1> QED
  BY <1>4, <1>5 DEF RowsKept

\* A step of one call keeps the invariant if it keeps the rows, the rounds and
\* the locks, its own place fits, and what the others hold goes on to fit.
LEMMA CallStep ==
  ASSUME RoomInv, NEW p \in Procs, NEW next \in Places, NEW copy \in Copy,
         Goto(p, next, copy), RowsOK', RoundsOK', LocksOK', Fits(next, copy)', RowsKept,
         \A place \in Places, held \in Copy :
           (\E q \in Procs \ {p} : place = pc[q] /\ held = got[q]) /\ Fits(place, held)
             => Fits(place, held)'
  PROVE  Kept
<1>1. CallsOK
  BY TypeParts DEF RoomInv
<1>2. /\ CallsOK' /\ pc'[p] = next /\ got'[p] = copy
      /\ \A q \in Procs \ {p} : pc'[q] = pc[q] /\ got'[q] = got[q]
  BY <1>1, GotoMoves
<1>3. ASSUME NEW q \in Procs PROVE Fits(pc[q], got[q])'
  <2>1. CASE q = p
    BY <1>2, <2>1, FitsAsCall
  <2>2. CASE q # p
    <3>1. PICK place \in Places, held \in Copy : place = pc[q] /\ held = got[q]
      BY <1>1 DEF CallsOK
    <3>2. Fits(place, held)
      BY <3>1 DEF RoomInv, CallsFit
    <3>3. Fits(place, held)'
      BY <2>2, <3>1, <3>2
    <3> QED
      BY <1>2, <2>2, <3>1, <3>3, FitsAsCall
  <2> QED
    BY <2>1, <2>2
<1>4. TypeOK'
  BY <1>2 DEF TypeOK, RowsOK, CallsOK, LocksOK
<1> QED
  BY <1>3, <1>4 DEF Kept, RoomInv, CallsFit
----------------------------------------------------------------------------
(* Every action keeps the invariant.                                       *)

tables == <<room, seat, sess, lastId, locked>>

LEMMA Parts ==
  ASSUME RoomInv
  PROVE  /\ RowsOK /\ CallsOK /\ LocksOK /\ RoundsOK
         /\ \A p \in Procs : Fits(pc[p], got[p]) /\ pc[p] \in Places /\ got[p] \in Copy
BY TypeParts DEF RoomInv, CallsFit, CallsOK

LEMMA ReturnFits ==
  /\ RowsOK => Fits("idle", NothingRead)
  /\ RowsOK' => Fits("idle", NothingRead)'
BY DEF RowsOK, Fits, NothingRead, RoundPlaces, PlayPlaces, LockPlaces

\* A call that reads, or ends, and writes nothing.
LEMMA ReadingStep ==
  ASSUME RoomInv, NEW p \in Procs, NEW next \in Places \ LockPlaces, NEW copy \in Copy,
         Goto(p, next, copy), ~HoldsLock(p), UNCHANGED tables, Fits(next, copy)
  PROVE  Kept
<1>1. UNCHANGED <<sess, lastId>> /\ RowsOK'
  BY Parts DEF tables, RowsOK
<1>2. RoundsOK'
  BY <1>1, Parts, RoundsStay DEF tables, RoomFollows
<1>3. LocksOK'
  BY Parts, GotoWithoutLock DEF tables
<1>4. Fits(next, copy)'
  BY <1>1, FitsStays
<1>5. \A place \in Places, held \in Copy : Fits(place, held) => Fits(place, held)'
  BY <1>1, FitsStays
<1> QED
  BY <1>1, <1>2, <1>3, <1>4, <1>5, KeptWithoutWrite, CallStep

LEMMA EndingStep ==
  ASSUME RoomInv, NEW p \in Procs, Return(p), ~HoldsLock(p), UNCHANGED tables
  PROVE  Kept
<1>1. Fits("idle", NothingRead) /\ "idle" \in Places \ LockPlaces /\ NothingRead \in Copy
  BY Parts, ReturnFits, NothingIsCopy DEF LockPlaces
<1> QED
  BY <1>1, ReadingStep DEF Return

\* Places that need no more than the round number a call counts on.
LEMMA PlainFits ==
  ASSUME RowsOK, NEW place \in Places \ (RoundPlaces \cup {"start.commit"}), NEW copy,
         copy.round = 0
  PROVE  Fits(place, copy)
BY DEF RowsOK, Fits, RoundPlaces, PlayPlaces, LockPlaces

LEMMA JoinReads ==
  ASSUME RoomInv, NEW p \in Procs, JoinReadsRoom(p) \/ JoinReadsSeat(p)
  PROVE  Kept
<1>0. RowsOK /\ UNCHANGED tables /\ ~HoldsLock(p)
  BY Parts DEF JoinReadsRoom, JoinReadsSeat, tables, HoldsLock
<1>1. \/ Return(p)
      \/ \E next \in {"join.list", "join.tx", "join.commit"}, held \in SeatStatus :
           Goto(p, next, [NothingRead EXCEPT !.seat = held])
  <2>1. NothingRead = [NothingRead EXCEPT !.seat = "NONE"] /\ "NONE" \in SeatStatus
    BY DEF NothingRead, SeatStatus
  <2>2. seat \in SeatStatus
    BY <1>0 DEF RowsOK
  <2> QED
    BY <2>1, <2>2 DEF JoinReadsRoom, JoinReadsSeat
<1>2. ASSUME NEW next \in {"join.list", "join.tx", "join.commit"}, NEW held \in SeatStatus,
             Goto(p, next, [NothingRead EXCEPT !.seat = held])
      PROVE  Kept
  <2> DEFINE copy == [NothingRead EXCEPT !.seat = held]
  <2>1. copy \in Copy /\ copy.round = 0
    BY NothingIsCopy DEF NothingRead, Copy
  <2>2. next \in Places \ (RoundPlaces \cup {"start.commit"}) /\ next \notin LockPlaces
    BY DEF Places, RoundPlaces, LockPlaces
  <2> HIDE DEF copy
  <2>3. Fits(next, copy)
    BY <1>0, <2>1, <2>2, PlainFits
  <2>4. Goto(p, next, copy)
    BY <1>2 DEF copy
  <2> QED
    BY <1>0, <2>1, <2>2, <2>3, <2>4, ReadingStep
<1> QED
  BY <1>0, <1>1, <1>2, EndingStep

LEMMA PlainReads ==
  ASSUME RoomInv, NEW p \in Procs,
         LeaveReadsRoom(p) \/ LeaveReadsSeat(p) \/ StartReadsRoom(p) \/ StartReadsSeat(p)
  PROVE  Kept
<1>0. RowsOK /\ UNCHANGED tables /\ ~HoldsLock(p)
  BY Parts DEF LeaveReadsRoom, LeaveReadsSeat, StartReadsRoom, StartReadsSeat, tables, HoldsLock
<1>1. \/ Return(p)
      \/ \E next \in {"leave.seat", "leave.commit", "start.seat", "start.latest"} :
           Goto(p, next, NothingRead)
  BY DEF LeaveReadsRoom, LeaveReadsSeat, StartReadsRoom, StartReadsSeat
<1>2. ASSUME NEW next \in {"leave.seat", "leave.commit", "start.seat", "start.latest"},
             Goto(p, next, NothingRead)
      PROVE  Kept
  <2>1. NothingRead \in Copy /\ NothingRead.round = 0
    BY NothingIsCopy DEF NothingRead
  <2>2. next \in Places \ (RoundPlaces \cup {"start.commit"}) /\ next \notin LockPlaces
    BY DEF Places, RoundPlaces, LockPlaces
  <2>3. Fits(next, NothingRead)
    BY <1>0, <2>1, <2>2, PlainFits
  <2> QED
    BY <1>0, <1>2, <2>1, <2>2, <2>3, ReadingStep
<1> QED
  BY <1>0, <1>1, <1>2, EndingStep

LEMMA StartReads ==
  ASSUME RoomInv, NEW p \in Procs, StartReadsLatest(p)
  PROVE  Kept
<1> DEFINE r == IF Rows = {} THEN 1 ELSE sess[Latest].round + 1
           copy == [NothingRead EXCEPT !.round = r]
<1>0. RowsOK /\ RoundsOK /\ UNCHANGED tables /\ ~HoldsLock(p) /\ Goto(p, "start.commit", copy)
  BY Parts DEF StartReadsLatest, tables, HoldsLock
<1>1. r \in Nat /\ r >= 1 /\ r <= lastId + 1
  <2>1. CASE Rows = {}
    BY <1>0, <2>1, IdTypes
  <2>2. CASE Rows # {}
    <3>1. Latest = lastId /\ lastId \in Ids
      BY <1>0, <2>2, LatestIsLast DEF RoundsOK, Rows
    <3> QED
      BY <1>0, <2>2, <3>1, IdTypes DEF RoundsOK
  <2> QED
    BY <2>1, <2>2
<1> HIDE DEF r
<1>2. copy \in Copy /\ copy.round = r
  BY <1>1, NothingIsCopy DEF NothingRead, Copy
<1> HIDE DEF copy
<1>3. Fits("start.commit", copy)
  BY <1>1, <1>2 DEF Fits, RoundPlaces, PlayPlaces, LockPlaces
<1>4. "start.commit" \in Places \ LockPlaces
  BY DEF Places, LockPlaces
<1> QED
  BY <1>0, <1>2, <1>3, <1>4, ReadingStep
\* A call that notes a row and its version.
LEMMA NotingRow ==
  ASSUME RoomInv, NEW p \in Procs, NEW i \in Rows,
         NEW next \in {"act.session", "act.commit", "vote.tx", "turn.commit"},
         NEW copy \in Copy, copy.id = i, copy.version = sess[i].version, copy.round = 0,
         next \in PlayPlaces => i \in Live,
         next = "vote.tx" => sess[i].vote # "AGREE",
         Goto(p, next, copy), ~HoldsLock(p), UNCHANGED tables
  PROVE  Kept
<1>1. i \in 1..lastId /\ sess[i].version \in Nat
  BY Parts, RowsAreCreated
<1>2. copy.round <= lastId + 1
  BY Parts DEF RowsOK
<1>3. next \in Places \ LockPlaces /\ next # "start.commit"
  BY DEF Places, LockPlaces
<1>4. Fits(next, copy)
  BY <1>1, <1>2, <1>3 DEF Fits, PlayPlaces, LockPlaces
<1> QED
  BY <1>3, <1>4, ReadingStep

LEMMA ActReads ==
  ASSUME RoomInv, NEW p \in Procs, ActReadsRoom(p) \/ ActReadsSession(p)
  PROVE  Kept
<1>0. RowsOK /\ RoundsOK /\ UNCHANGED tables /\ ~HoldsLock(p)
  BY Parts DEF ActReadsRoom, ActReadsSession, tables, HoldsLock
<1>1. CASE ActReadsRoom(p)
  <2> DEFINE i == room.current
             copy == [NothingRead EXCEPT !.id = i]
  <2>1. i \in Rows /\ Goto(p, "act.session", copy)
    BY <1>0, <1>1 DEF ActReadsRoom, RoundsOK, CurrentRoundExists
  <2> HIDE DEF i
  <2>2. i \in 1..lastId /\ i \in 0..MaxSessions
    BY <1>0, <2>1, RowsAreCreated
  <2>3. copy \in Copy /\ copy.id = i /\ copy.round = 0
    BY <2>2, NothingIsCopy DEF NothingRead, Copy
  <2> HIDE DEF copy
  <2>4. "act.session" \in Places \ LockPlaces
    BY DEF Places, LockPlaces
  <2>5. Fits("act.session", copy)
    BY <1>0, <2>2, <2>3 DEF Fits, PlayPlaces, LockPlaces, RowsOK
  <2> QED
    BY <1>0, <2>1, <2>3, <2>4, <2>5, ReadingStep
<1>2. CASE ActReadsSession(p)
  <2> DEFINE i == got[p].id
             copy == [got[p] EXCEPT !.version = sess[i].version]
  <2>1. Return(p) \/ (sess[i].status = "PLAYER_TURN" /\ Goto(p, "act.commit", copy))
    BY <1>2 DEF ActReadsSession
  <2>2. CASE sess[i].status = "PLAYER_TURN" /\ Goto(p, "act.commit", copy)
    <3>1. pc[p] = "act.session" /\ Fits(pc[p], got[p]) /\ got[p] \in Copy
      BY <1>2, Parts DEF ActReadsSession
    <3>2. i \in 1..lastId /\ got[p].round <= lastId + 1
      BY <3>1 DEF Fits, RoundPlaces
    <3>3. i \in Live /\ i \in Rows /\ sess[i].version \in Nat
      BY <1>0, <2>2, <3>2, IdTypes DEF Live, Rows
    <3>4. /\ copy \in Copy /\ copy.id = i /\ copy.version = sess[i].version
          /\ copy.round = got[p].round
      BY <3>1, <3>3 DEF Copy
    <3> HIDE DEF copy
    <3>5. Fits("act.commit", copy)
      BY <3>2, <3>3, <3>4 DEF Fits, PlayPlaces, LockPlaces
    <3>6. "act.commit" \in Places \ LockPlaces
      BY DEF Places, LockPlaces
    <3> QED
      BY <1>0, <2>2, <3>4, <3>5, <3>6, ReadingStep
  <2> QED
    BY <1>0, <2>1, <2>2, EndingStep
<1> QED
  BY <1>1, <1>2

LEMMA VoteReads ==
  ASSUME RoomInv, NEW p \in Procs, VoteReadsLatest(p)
  PROVE  Kept
<1>0. RowsOK /\ RoundsOK /\ UNCHANGED tables /\ ~HoldsLock(p)
  BY Parts DEF VoteReadsLatest, tables, HoldsLock
<1>1. Latest \in Rows /\ sess[Latest].vote # "AGREE"
  BY <1>0, LatestIsLast DEF VoteReadsLatest, RoundsOK
<1>2. PICK agree \in BOOLEAN, asked \in Versions :
        Goto(p, "vote.tx", [NothingRead EXCEPT !.id = Latest, !.version = sess[Latest].version,
                                               !.asked = asked, !.agree = agree])
  BY DEF VoteReadsLatest
<1>3. PICK i \in Rows : i = Latest
  BY <1>1
<1> DEFINE copy == [NothingRead EXCEPT !.id = i, !.version = sess[i].version,
                                       !.asked = asked, !.agree = agree]
<1>4. Goto(p, "vote.tx", copy)
  BY <1>2, <1>3
<1>5. i \in 0..MaxSessions /\ sess[i].version \in Nat /\ asked \in Nat
  BY <1>0, RowsAreCreated, ProcsAssumption DEF Versions
<1>6. copy \in Copy /\ copy.id = i /\ copy.version = sess[i].version /\ copy.round = 0
  BY <1>5, NothingIsCopy DEF NothingRead, Copy
<1>7. "vote.tx" \notin PlayPlaces
  BY DEF PlayPlaces
<1> HIDE DEF copy
<1> QED
  BY <1>0, <1>1, <1>3, <1>4, <1>6, <1>7, NotingRow

LEMMA WorkerReading ==
  ASSUME RoomInv, NEW w \in Procs, NEW i \in Ids, WorkerReads(w, i)
  PROVE  Kept
<1>0. i \in Rows /\ i \in Live /\ UNCHANGED tables /\ ~HoldsLock(w)
  BY Parts DEF WorkerReads, tables, HoldsLock, Live
<1> DEFINE copy == [NothingRead EXCEPT !.id = i, !.version = sess[i].version]
<1>1. Goto(w, "turn.commit", copy)
  BY DEF WorkerReads
<1>2. i \in 0..MaxSessions /\ sess[i].version \in Nat
  BY <1>0, Parts, RowsAreCreated
<1>3. copy \in Copy /\ copy.id = i /\ copy.version = sess[i].version /\ copy.round = 0
  BY <1>2, NothingIsCopy DEF NothingRead, Copy
<1>4. "turn.commit" # "vote.tx"
  OBVIOUS
<1> HIDE DEF copy
<1> QED
  BY <1>0, <1>1, <1>3, <1>4, NotingRow

LEMMA SocketReading ==
  ASSUME RoomInv, NEW p \in Procs, SocketReads(p)
  PROVE  Kept
<1>0. RowsOK /\ UNCHANGED tables /\ ~HoldsLock(p)
  BY Parts DEF SocketReads, tables, HoldsLock
<1>1. PICK status \in Seated : Goto(p, "seat.save", [NothingRead EXCEPT !.seat = status])
  BY DEF SocketReads
<1> DEFINE copy == [NothingRead EXCEPT !.seat = status]
<1>2. copy \in Copy /\ copy.round = 0
  BY NothingIsCopy DEF NothingRead, Copy, Seated, SeatStatus
<1>3. "seat.save" \in Places \ (RoundPlaces \cup {"start.commit"}) /\ "seat.save" \notin LockPlaces
  BY DEF Places, RoundPlaces, LockPlaces
<1> HIDE DEF copy
<1>4. Fits("seat.save", copy)
  BY <1>0, <1>2, <1>3, PlainFits
<1>5. Goto(p, "seat.save", copy)
  BY <1>1 DEF copy
<1> QED
  BY <1>0, <1>2, <1>3, <1>4, <1>5, ReadingStep

LEMMA Failing ==
  ASSUME RoomInv, NEW p \in Procs, ActFails(p) \/ WorkerFails(p)
  PROVE  Kept
<1>1. Return(p) /\ UNCHANGED tables /\ ~HoldsLock(p)
  BY DEF ActFails, WorkerFails, Conflict, tables, HoldsLock
<1> QED
  BY <1>1, EndingStep

\* A transaction that locks a finished round whose rematch is not agreed, or that
\* votes from ahead.
LEMMA LockingStep ==
  ASSUME RoomInv, NEW p \in Procs, NEW i \in Rows, NEW next \in LockPlaces, NEW copy \in Copy,
         i \notin locked, sess[i].status = "RESETTING",
         sess[i].vote # "AGREE" \/ (next = "vote.commit" /\ copy.asked # copy.version),
         copy.id = i, copy.round <= lastId + 1,
         Goto(p, next, copy), ~HoldsLock(p),
         locked' = locked \cup {i}, UNCHANGED <<room, seat, sess, lastId>>
  PROVE  Kept
<1>1. UNCHANGED <<sess, lastId>> /\ RowsOK'
  BY Parts DEF RowsOK
<1>2. RoundsOK'
  BY <1>1, Parts, RoundsStay DEF RoomFollows
<1>3. LocksOK'
  BY Parts, GotoWithLock
<1>4. i \in 1..lastId
  BY Parts, RowsAreCreated
<1>5. Fits(next, copy)
  BY <1>4 DEF Fits, PlayPlaces, LockPlaces
<1>6. Fits(next, copy)'
  BY <1>1, <1>5, FitsStays
<1>7. \A place \in Places, held \in Copy : Fits(place, held) => Fits(place, held)'
  BY <1>1, FitsStays
<1>8. next \in Places
  BY DEF LockPlaces, Places
<1> QED
  BY <1>1, <1>2, <1>3, <1>6, <1>7, <1>8, KeptWithoutWrite, CallStep

LEMMA VoteLocking ==
  ASSUME RoomInv, NEW p \in Procs, VoteLocks(p)
  PROVE  Kept
<1>0. pc[p] = "vote.tx" /\ ~HoldsLock(p) /\ Fits(pc[p], got[p]) /\ got[p] \in Copy
  BY Parts DEF VoteLocks, HoldsLock
<1>1. CASE Return(p) /\ UNCHANGED locked
  <2>1. UNCHANGED tables
    BY <1>1 DEF VoteLocks, tables
  <2> QED
    BY <1>0, <1>1, <2>1, EndingStep
<1>2. CASE /\ got[p].id \in Rows /\ sess[got[p].id].status = "RESETTING"
           /\ sess[got[p].id].version = got[p].asked
           /\ locked' = locked \cup {got[p].id} /\ Goto(p, "vote.commit", got[p])
  <2>1. PICK i \in Rows, copy \in Copy : i = got[p].id /\ copy = got[p]
    BY <1>0, <1>2
  <2>2. /\ i \notin locked /\ copy.round <= lastId + 1
        /\ sess[i].vote # "AGREE" \/ copy.asked # copy.version
    BY <1>0, <1>2, <2>1 DEF VoteLocks, Fits
  <2>3. UNCHANGED <<room, seat, sess, lastId>> /\ "vote.commit" \in LockPlaces
    BY DEF VoteLocks, LockPlaces
  <2> QED
    BY <1>0, <1>2, <2>1, <2>2, <2>3, LockingStep
<1> QED
  BY <1>1, <1>2 DEF VoteLocks

LEMMA DeadlineLocking ==
  ASSUME RoomInv, NEW w \in Procs, NEW i \in Ids, DeadlineLocks(w, i)
  PROVE  Kept
<1> DEFINE copy == [NothingRead EXCEPT !.id = i, !.seat = seat]
<1>1. /\ i \in Rows /\ i \notin locked /\ sess[i].status = "RESETTING" /\ ~HoldsLock(w)
      /\ room.current = i
  BY DEF DeadlineLocks, StillCurrent, Rows, HoldsLock
<1>2. sess[i].vote # "AGREE"
  BY <1>1, Parts DEF RoundsOK
<1>0. seat \in SeatStatus /\ i \in 0..MaxSessions
  BY <1>1, Parts, RowsAreCreated DEF RowsOK
<1>3. copy \in Copy /\ copy.id = i /\ copy.round = 0
  BY <1>0, NothingIsCopy DEF NothingRead, Copy
<1>4. Goto(w, "due.commit", copy)
  BY DEF DeadlineLocks
<1> HIDE DEF copy
<1>5. copy.round <= lastId + 1
  BY <1>3, Parts DEF RowsOK
<1>6. /\ locked' = locked \cup {i} /\ UNCHANGED <<room, seat, sess, lastId>>
      /\ "due.commit" \in LockPlaces
  BY DEF DeadlineLocks, LockPlaces
<1> QED
  BY <1>1, <1>2, <1>3, <1>4, <1>5, <1>6, LockingStep

LEMMA RoomFollowsOK ==
  ASSUME RowsOK, RoomFollows
  PROVE  /\ room' \in [status : {"WAITING", "READY", "PLAYING"}, current : 0..MaxSessions]
         /\ room'.status = "PLAYING" <=> room'.current # 0
BY RoomWithOK DEF RoomFollows, RowsOK

\* A call that writes the seat or the room and ends; the rounds stay.
LEMMA WritingStep ==
  ASSUME RoomInv, NEW p \in Procs, Return(p), ~HoldsLock(p), RoomFollows,
         seat' \in SeatStatus, UNCHANGED <<sess, lastId, locked>>
  PROVE  Kept
<1>1. RowsOK'
  BY Parts, RoomFollowsOK DEF RowsOK
<1>2. RoundsOK'
  BY Parts, RoundsStay
<1>3. "idle" \in Places \ LockPlaces /\ NothingRead \in Copy
  BY NothingIsCopy DEF LockPlaces
<1>4. LocksOK'
  BY <1>3, Parts, GotoWithoutLock DEF Return
<1>5. Fits("idle", NothingRead)'
  BY <1>1, ReturnFits
<1>6. \A place \in Places, held \in Copy : Fits(place, held) => Fits(place, held)'
  BY FitsStays
<1> QED
  BY <1>1, <1>2, <1>3, <1>4, <1>5, <1>6, KeptWithoutWrite, CallStep DEF Return

LEMMA SeatWrites ==
  ASSUME RoomInv, NEW p \in Procs, JoinCommits(p) \/ LeaveCommits(p) \/ SocketSaves(p)
  PROVE  Kept
<1>1. /\ Return(p) /\ ~HoldsLock(p) /\ UNCHANGED <<sess, lastId, locked>>
  BY DEF JoinCommits, LeaveCommits, SocketSaves, HoldsLock
<1>2. seat' \in SeatStatus
  BY Parts DEF JoinCommits, LeaveCommits, SocketSaves, RowsOK, SeatStatus, Copy
<1>3. UNCHANGED room \/ room' = RoomWith(0, TRUE) \/ room' = RoomWith(0, FALSE)
  BY DEF JoinCommits, LeaveCommits, SocketSaves
<1>4. RoomFollows
  <2>1. 0 \in 0..MaxSessions
    BY ProcsAssumption
  <2> QED
    BY <1>3, <2>1 DEF RoomFollows
<1> QED
  BY <1>1, <1>2, <1>4, WritingStep

\* A commit without a lock that plays on a round.
LEMMA PlayingStep ==
  ASSUME RoomInv, NEW p \in Procs, ~HoldsLock(p), pc[p] \in PlayPlaces,
         Matches(p), Played(got[p].id), room' \in {room, RoomWith(got[p].id, TRUE)},
         Return(p), UNCHANGED <<seat, locked>>
  PROVE  Kept
<1> DEFINE i == got[p].id
<1>1. i \in Rows /\ i \in Live /\ i \notin locked
  BY Parts DEF Matches, Fits
<1>2. i \in 0..MaxSessions /\ sess[i].vote # "AGREE" /\ i \in Rows'
  <2>1. i \in Ids /\ sess'[i].status # "NONE"
    BY <1>1 DEF Rows, Played
  <2>2. sess[i].vote # "AGREE"
    BY <1>1, Parts DEF Live, RoundsOK
  <2> QED
    BY <1>1, <2>1, <2>2, Parts, RowsAreCreated DEF Rows
<1>3. RoomFollows
  BY <1>2 DEF RoomFollows, Played
<1>4. RowsOK'
  BY <1>3, Parts, RoomFollowsOK DEF RowsOK, Played, SameElsewhere
<1>5. RoundsOK'
  BY <1>1, <1>3, Parts, RoundsAfterPlay
<1>6. "idle" \in Places \ LockPlaces /\ NothingRead \in Copy
  BY NothingIsCopy DEF LockPlaces
<1>7. LocksOK'
  BY <1>6, Parts, GotoWithoutLock DEF Return
<1>8. Fits("idle", NothingRead)'
  BY <1>4, ReturnFits
<1>9. ASSUME NEW q \in Procs \ {p}, Fits(pc[q], got[q])
      PROVE  \A place \in Places, held \in Copy :
               place = pc[q] /\ held = got[q] => Fits(place, held)'
  <2>1. pc[q] \in LockPlaces => got[q].id # i
    BY <1>1, Parts DEF LocksOK, HoldsLock, LockPlaces
  <2> QED
    BY <1>1, <1>9, <2>1, Parts, FitsAfterPlay
<1>10. RowsKept
  BY <1>1, Parts, KeptAfterPlay
<1> QED
  BY <1>4, <1>5, <1>6, <1>7, <1>8, <1>9, <1>10, CallStep, Parts DEF Return

LEMMA WrittenIsPlayed ==
  ASSUME RowsOK, NEW i \in Rows, NEW status \in {"PLAYER_TURN", "DEALER_TURN", "RESETTING"},
         NEW taken \in BOOLEAN,
         \/ sess' = Written(i, status, taken)
         \/ sess' = [Written(i, status, taken) EXCEPT ![i].due = DueAfterResult],
         lastId' = lastId
  PROVE  Played(i)
<1> DEFINE row == Written(i, status, taken)[i]
<1>1. i \in Ids /\ sess \in [Ids -> Session] /\ sess[i] \in Session /\ sess[i].version \in Nat
  BY IdTypes DEF Rows, RowsOK
<1>2. row = [sess[i] EXCEPT !.status = status, !.version = sess[i].version + 1,
                            !.taken = taken]
  BY <1>1 DEF Written
<1>3. Written(i, status, taken) = [sess EXCEPT ![i] = row]
  BY <1>1 DEF Written
<1> HIDE DEF row
<1>4. row.status = status /\ row.version = sess[i].version + 1
  BY <1>1, <1>2 DEF Session
<1>5. row.round = sess[i].round /\ row.vote = sess[i].vote
  BY <1>1, <1>2 DEF Session
<1>6. row \in Session
  <2>1. sess[i].version + 1 \in Nat
    BY <1>1
  <2>2. \A v \in Nat, state \in Session :
          [state EXCEPT !.status = status, !.version = v, !.taken = taken] \in Session
    BY DEF Session
  <2> QED
    BY <1>1, <1>2, <2>1, <2>2
<1>7. CASE sess' = Written(i, status, taken)
  BY <1>1, <1>3, <1>4, <1>5, <1>6, <1>7 DEF Played, SameElsewhere
<1>8. CASE sess' = [Written(i, status, taken) EXCEPT ![i].due = DueAfterResult]
  <2> DEFINE due == [row EXCEPT !.due = DueAfterResult]
  <2>1. sess' = [sess EXCEPT ![i] = due]
    BY <1>1, <1>3, <1>8
  <2>2. /\ due \in Session /\ due.status = row.status /\ due.version = row.version
        /\ due.round = row.round /\ due.vote = row.vote
    BY <1>6 DEF Session, DueAfterResult
  <2> HIDE DEF due
  <2> QED
    BY <1>1, <1>4, <1>5, <2>1, <2>2 DEF Played, SameElsewhere
<1> QED
  BY <1>7, <1>8

LEMMA PlayMoves ==
  ASSUME RoomInv, NEW p \in Procs, ActCommits(p) \/ WorkerEndsRound(p) \/ WorkerDraws(p)
  PROVE  /\ pc[p] \in PlayPlaces /\ Matches(p) /\ got[p].id \in Live /\ Played(got[p].id)
         /\ room' \in {room, RoomWith(got[p].id, TRUE)}
         /\ Return(p) /\ UNCHANGED <<seat, lastId, locked>>
<1>1. /\ pc[p] \in PlayPlaces /\ Matches(p) /\ got[p].id \in Rows
      /\ Return(p) /\ UNCHANGED <<seat, lastId, locked>>
  BY DEF ActCommits, WorkerEndsRound, WorkerDraws, Matches, PlayPlaces
<1>2. room' \in {room, RoomWith(got[p].id, TRUE)}
  BY DEF ActCommits, WorkerEndsRound, WorkerDraws
<1>3. \E status \in {"PLAYER_TURN", "DEALER_TURN", "RESETTING"}, taken \in BOOLEAN :
        \/ sess' = Written(got[p].id, status, taken)
        \/ sess' = [Written(got[p].id, status, taken) EXCEPT ![got[p].id].due = DueAfterResult]
  BY DEF ActCommits, WorkerEndsRound, WorkerDraws
<1>4. Played(got[p].id)
  BY <1>1, <1>3, Parts, WrittenIsPlayed
<1>5. got[p].id \in Live
  BY <1>1, Parts DEF Matches, Fits
<1> QED
  BY <1>1, <1>2, <1>4, <1>5

LEMMA Playing ==
  ASSUME RoomInv, NEW p \in Procs, ActCommits(p) \/ WorkerEndsRound(p) \/ WorkerDraws(p)
  PROVE  Kept
BY PlayMoves, PlayingStep DEF HoldsLock, PlayPlaces

----------------------------------------------------------------------------
(* Commits that end with the lock released, if the call had one.           *)

Releases(p) ==
  IF HoldsLock(p) THEN Unlocks(p) ELSE UNCHANGED locked

LEMMA LocksAfterReturn ==
  ASSUME CallsOK, LocksOK, NEW p \in Procs, Return(p), Releases(p)
  PROVE  LocksOK'
<1>1. "idle" \in Places \ LockPlaces /\ NothingRead \in Copy
  BY NothingIsCopy DEF LockPlaces
<1> QED
  BY <1>1, ReturnUnlocks, GotoWithoutLock DEF Releases, Unlocks, Return

\* A call that ends keeps the invariant if what the others hold goes on to fit.
LEMMA CommitStep ==
  ASSUME RoomInv, NEW p \in Procs, Return(p), Releases(p), RowsOK', RoundsOK', RowsKept,
         \A place \in Places, held \in Copy :
           /\ HoldsLock(p) /\ place \in LockPlaces => held.id # got[p].id
           /\ Fits(place, held)
           => Fits(place, held)'
  PROVE  Kept
<1>1. "idle" \in Places /\ NothingRead \in Copy
  BY NothingIsCopy
<1>2. LocksOK'
  BY Parts, LocksAfterReturn
<1>3. Fits("idle", NothingRead)'
  BY ReturnFits
<1>4. ASSUME NEW q \in Procs \ {p}, Fits(pc[q], got[q])
      PROVE  \A place \in Places, held \in Copy :
               place = pc[q] /\ held = got[q] => Fits(place, held)'
  <2>1. HoldsLock(p) /\ pc[q] \in LockPlaces => got[q].id # got[p].id
    BY Parts DEF LocksOK, HoldsLock, LockPlaces
  <2> QED
    BY <1>4, <2>1
<1> QED
  BY <1>1, <1>2, <1>3, <1>4, CallStep DEF Return

LEMMA DyingStep ==
  ASSUME RoomInv, NEW p \in Procs, Return(p), Releases(p), UNCHANGED <<room, seat, sess, lastId>>
  PROVE  Kept
<1>1. RowsOK'
  BY Parts DEF RowsOK
<1>2. RoundsOK'
  BY Parts, RoundsStay DEF RoomFollows
<1>3. \A place \in Places, held \in Copy : Fits(place, held) => Fits(place, held)'
  BY FitsStays
<1> QED
  BY <1>1, <1>2, <1>3, KeptWithoutWrite, CommitStep

LEMMA Dying ==
  ASSUME RoomInv, NEW p \in Procs, CallDies(p)
  PROVE  Kept
BY DyingStep DEF CallDies, Releases, Unlocks

\* A round is opened, after the one the call has locked or after none.
LEMMA OpeningStep ==
  ASSUME RoomInv, NEW p \in Procs, Return(p), Releases(p), seat' = seat,
         NEW after, NEW r \in Nat, r <= lastId + 1, Opened(after, r),
         room' = RoomWith(lastId + 1, TRUE),
         after = 0 \/ (HoldsLock(p) /\ after = got[p].id),
         after = 0 \/ sess[after].vote # "AGREE" \/ VoteFromAhead(after)
  PROVE  Kept
<1>1. after = 0 \/ (after \in Rows /\ after \notin Live /\ sess[after].status = "RESETTING")
  BY Parts DEF Fits, HoldsLock, LockPlaces, Live
<1>6. RowsKept
  BY <1>1, Parts, KeptAfterOpen
<1>2. RoundsOK'
  BY <1>1, Parts, RoundsAfterOpen
<1>3. RowsOK'
  <2>1. lastId + 1 \in 0..MaxSessions /\ lastId + 1 # 0
    BY Parts, IdTypes DEF Opened
  <2> QED
    BY <2>1, Parts, RoomWithOK DEF RowsOK, Opened, SameElsewhere
<1>4. \A place \in Places, held \in Copy :
        /\ HoldsLock(p) /\ place \in LockPlaces => held.id # got[p].id
        /\ Fits(place, held)
        => Fits(place, held)'
  <2> SUFFICES ASSUME NEW place \in Places, NEW held \in Copy, Fits(place, held),
                      HoldsLock(p) /\ place \in LockPlaces => held.id # got[p].id
               PROVE  Fits(place, held)'
    OBVIOUS
  <2>1. place \in LockPlaces => held.id # after
    BY <1>1, Parts, IdTypes DEF Fits, Rows
  <2> QED
    BY <1>1, <2>1, Parts, FitsAfterOpen
<1> QED
  BY <1>2, <1>3, <1>4, <1>6, CommitStep

\* The rematch is closed without a next round: a vote is noted and the room
\* released.
LEMMA NotingStep ==
  ASSUME RoomInv, NEW p \in Procs, Return(p), Releases(p), HoldsLock(p),
         Noted(got[p].id), UNCHANGED seat, NEW seated \in BOOLEAN, room' = RoomWith(0, seated),
         sess[got[p].id].vote # "AGREE" \/ VoteFromAhead(got[p].id)
  PROVE  Kept
<1>1. got[p].id \in Rows /\ got[p].id \in Ids
  BY Parts DEF Fits, HoldsLock, LockPlaces, Rows
<1>2. RoomFollows
  <2>1. 0 \in 0..MaxSessions
    BY ProcsAssumption
  <2> QED
    BY <2>1 DEF RoomFollows
<1>3. RoundsOK'
  BY <1>1, <1>2, Parts, RoundsAfterNote
<1>4. RowsOK'
  BY <1>2, Parts, RoomFollowsOK DEF RowsOK, Noted, SameElsewhere
<1>5. \A place \in Places, held \in Copy : Fits(place, held) => Fits(place, held)'
  BY <1>1, Parts, FitsAfterNote
<1>6. RowsKept
  BY <1>1, Parts, KeptAfterNote
<1> QED
  BY <1>3, <1>4, <1>5, <1>6, CommitStep

LEMMA CreatedOK ==
  ASSUME RowsOK, NEW r \in Nat, r <= lastId + 1, lastId < MaxSessions, NEW status \in AfterDeal
  PROVE  /\ lastId + 1 \in Ids /\ Created(r, status) \in Session
         /\ Created(r, status).status = status /\ Created(r, status).round = r
         /\ Created(r, status).vote = "NONE" /\ Created(r, status).version = 1
<1>1. lastId + 1 \in Ids /\ r \in 0..MaxSessions
  BY IdTypes DEF Ids
<1> QED
  BY <1>1 DEF Created, NoRow, Session, Vote, AfterDeal

LEMMA StartMoves ==
  ASSUME RoomInv, NEW p \in Procs, StartCommits(p)
  PROVE  /\ Return(p) /\ ~HoldsLock(p) /\ Releases(p) /\ UNCHANGED seat
         /\ got[p].round \in Nat /\ got[p].round <= lastId + 1
         /\ \/ UNCHANGED <<room, sess, lastId>>
            \/ Opened(0, got[p].round) /\ room' = RoomWith(lastId + 1, TRUE)
<1> DEFINE r == got[p].round
<1>1. /\ Return(p) /\ ~HoldsLock(p) /\ Releases(p) /\ UNCHANGED seat
  BY DEF StartCommits, HoldsLock, Releases
<1>2. r \in Nat /\ r <= lastId + 1 /\ r >= 1
  BY Parts DEF Fits, Copy, StartCommits
<1>3. CASE CannotOpen(r)
  BY <1>1, <1>2, <1>3 DEF StartCommits
<1>4. CASE ~CannotOpen(r)
  <2>1. PICK status \in AfterDeal : Opens(sess, r, status)
    BY <1>4 DEF StartCommits
  <2>2. lastId < MaxSessions /\ ~RoundTaken(r)
    BY <1>4, Parts, IdTypes DEF CannotOpen
  <2>3. Opened(0, r)
    BY <1>2, <2>1, <2>2, Parts, CreatedOK DEF Opens, Opened, SameElsewhere, RowsOK
  <2>4. room' = RoomWith(lastId + 1, TRUE)
    BY <2>1 DEF Opens
  <2> QED
    BY <1>1, <1>2, <2>3, <2>4
<1> QED
  BY <1>3, <1>4

LEMMA Starting ==
  ASSUME RoomInv, NEW p \in Procs, StartCommits(p)
  PROVE  Kept
BY StartMoves, DyingStep, OpeningStep

\* The ways a rematch is closed by the call that holds the lock.
LEMMA CloseMoves ==
  ASSUME RoomInv, NEW p \in Procs, HoldsLock(p),
         NEW vote \in Vote, NEW agreed \in BOOLEAN,
         ClosesRematch(got[p].id, vote, agreed),
         ~agreed /\ vote = "AGREE" => sess[got[p].id].vote = "AGREE"
  PROVE  /\ sess[got[p].id].round + 1 \in Nat /\ sess[got[p].id].round + 1 <= lastId + 1
         /\ \/ UNCHANGED <<room, sess, lastId>>
            \/ Noted(got[p].id) /\ room' = RoomWith(0, seat \in Seated)
            \/ /\ Opened(got[p].id, sess[got[p].id].round + 1)
               /\ room' = RoomWith(lastId + 1, TRUE)
<1> DEFINE i == got[p].id
           r == sess[i].round + 1
<1>1. /\ i \in Rows /\ i \in Ids /\ i \in 1..lastId /\ i # 0 /\ sess[i] \in Session
      /\ sess \in [Ids -> Session] /\ sess[i].version \in Nat
  <2>1. i \in Rows
    BY Parts DEF Fits, HoldsLock, LockPlaces
  <2> QED
    BY <2>1, Parts, RowsAreCreated DEF RowsOK, Ids
<1>2. r \in Nat /\ r <= lastId + 1 /\ r >= 1
  BY <1>1, Parts, IdTypes DEF RoundsOK
<1>3. CASE ~agreed
  <2> DEFINE row == [sess[i] EXCEPT !.vote = vote]
  <2>1. /\ row \in Session /\ row.status = sess[i].status /\ row.version = sess[i].version
        /\ row.round = sess[i].round /\ row.vote = vote
    BY <1>1 DEF Session
  <2>2. sess' = [sess EXCEPT ![i] = row] /\ lastId' = lastId
    BY <1>1, <1>3 DEF ClosesRematch
  <2> HIDE DEF row
  <2>3. Noted(i)
    BY <1>1, <1>3, <2>1, <2>2 DEF Noted, SameElsewhere
  <2> QED
    BY <1>2, <1>3, <2>3 DEF ClosesRematch
<1>4. CASE agreed /\ CannotOpen(r)
  BY <1>2, <1>4 DEF ClosesRematch
<1>5. CASE agreed /\ ~CannotOpen(r)
  <2> DEFINE others == [sess EXCEPT ![i].vote = vote, ![i].version = VersionAfterRematch(@)]
  <2>1. PICK status \in AfterDeal : Opens(others, r, status)
    BY <1>5 DEF ClosesRematch
  <2>2. lastId < MaxSessions /\ ~RoundTaken(r)
    BY <1>5, Parts, IdTypes DEF CannotOpen
  <2>3. /\ others \in [Ids -> Session] /\ \A j \in Ids : j # i => others[j] = sess[j]
        /\ others[i].status = sess[i].status /\ others[i].version = sess[i].version + 1
        /\ others[i].round = sess[i].round
    <3> DEFINE row == others[i]
    <3>1. row = [sess[i] EXCEPT !.vote = vote, !.version = sess[i].version + 1]
      BY <1>1 DEF VersionAfterRematch
    <3>2. others = [sess EXCEPT ![i] = row]
      BY <1>1 DEF VersionAfterRematch
    <3> HIDE DEF row
    <3>3. row.status = sess[i].status /\ row.version = sess[i].version + 1
      BY <1>1, <3>1 DEF Session
    <3>4. row.round = sess[i].round
      BY <1>1, <3>1 DEF Session
    <3>5. row \in Session
      <4>1. sess[i].version + 1 \in Nat
        BY <1>1
      <4>2. \A v \in Nat, state \in Session :
              [state EXCEPT !.vote = vote, !.version = v] \in Session
        BY DEF Session
      <4> QED
        BY <1>1, <3>1, <4>1, <4>2
    <3> HIDE DEF others
    <3> QED
      BY <1>1, <3>2, <3>3, <3>4, <3>5
  <2> HIDE DEF others
  <2>4. i # lastId + 1
    BY <1>1, Parts, IdTypes
  <2>5. Opened(i, r)
    BY <1>1, <1>2, <2>1, <2>2, <2>3, <2>4, Parts, CreatedOK DEF Opens, Opened, SameElsewhere
  <2> QED
    BY <1>2, <2>1, <2>5 DEF Opens
<1> QED
  BY <1>3, <1>4, <1>5

LEMMA ClosingRematch ==
  ASSUME RoomInv, NEW p \in Procs, Return(p), HoldsLock(p), Unlocks(p), UNCHANGED seat,
         NEW vote \in Vote, NEW agreed \in BOOLEAN,
         ClosesRematch(got[p].id, vote, agreed),
         ~agreed /\ vote = "AGREE" => sess[got[p].id].vote = "AGREE",
         sess[got[p].id].vote # "AGREE" \/ VoteFromAhead(got[p].id)
  PROVE  Kept
<1>1. Releases(p) /\ (seat \in Seated) \in BOOLEAN
  BY DEF Releases
<1> QED
  BY <1>1, CloseMoves, DyingStep, NotingStep, OpeningStep

\* What a vote and a deadline close a rematch with.
LEMMA ClosesWith ==
  ASSUME RoomInv, NEW p \in Procs, VoteCommits(p) \/ DeadlineCommits(p)
  PROVE  /\ Return(p) /\ HoldsLock(p) /\ Unlocks(p) /\ UNCHANGED seat
         /\ sess[got[p].id].vote # "AGREE" \/ VoteFromAhead(got[p].id)
         /\ \E vote \in Vote, agreed \in BOOLEAN :
              /\ ClosesRematch(got[p].id, vote, agreed)
              /\ ~agreed /\ vote = "AGREE" => sess[got[p].id].vote = "AGREE"
<1>1. Return(p) /\ HoldsLock(p) /\ Unlocks(p) /\ UNCHANGED seat
  BY DEF VoteCommits, DeadlineCommits, HoldsLock
<1>4. sess[got[p].id].vote # "AGREE" \/ VoteFromAhead(got[p].id)
  <2>1. CASE VoteCommits(p) /\ got[p].asked # got[p].version
    BY <2>1 DEF VoteFromAhead
  <2>2. CASE DeadlineCommits(p) \/ (VoteCommits(p) /\ got[p].asked = got[p].version)
    <3>1. pc[p] = "due.commit" \/ (pc[p] = "vote.commit" /\ got[p].asked = got[p].version)
      BY <2>2 DEF VoteCommits, DeadlineCommits
    <3> QED
      BY <3>1, Parts DEF Fits
  <2> QED
    BY <2>1, <2>2
<1>2. CASE VoteCommits(p)
  <2> DEFINE vote == IF got[p].agree THEN "AGREE" ELSE "DENY"
  <2>1. vote \in Vote /\ got[p].agree \in BOOLEAN /\ (~got[p].agree => vote # "AGREE")
    BY Parts DEF Vote, Copy
  <2>2. ClosesRematch(got[p].id, vote, got[p].agree)
    BY <1>2 DEF VoteCommits
  <2> HIDE DEF vote
  <2> QED
    BY <1>1, <1>4, <2>1, <2>2
<1>3. CASE DeadlineCommits(p)
  <2> DEFINE vote == sess[got[p].id].vote
             agreed == got[p].seat \in Seated /\ vote = "AGREE"
  <2>1. agreed \in BOOLEAN /\ ClosesRematch(got[p].id, vote, agreed)
    BY <1>3 DEF DeadlineCommits
  <2>2. vote \in Vote
    <3>1. got[p].id \in Ids
      BY <1>1, Parts DEF Fits, HoldsLock, LockPlaces, Rows
    <3> QED
      BY <3>1, Parts, IdTypes DEF Session
  <2> HIDE DEF agreed
  <2> QED
    BY <1>1, <1>4, <2>1, <2>2
<1> QED
  BY <1>2, <1>3

LEMMA Closing ==
  ASSUME RoomInv, NEW p \in Procs, VoteCommits(p) \/ DeadlineCommits(p)
  PROVE  Kept
BY ClosesWith, ClosingRematch

\* A reset deletes every row; the calls go on with what they have read.
LEMMA Resetting ==
  ASSUME RoomInv, NEW p \in Procs, Resets(p)
  PROVE  RoomInv' /\ AgreementStays
<1>1. /\ locked = {} /\ room' = RoomWith(0, FALSE) /\ seat' = "NONE"
      /\ sess' = [i \in Ids |-> NoRow] /\ UNCHANGED <<lastId, locked, pc, got>>
  BY DEF Resets
<1>2. NoRow \in Session /\ NoRow.status = "NONE" /\ NoRow.round = 0
  BY ProcsAssumption DEF NoRow, Session, Vote
<1>3. Rows' = {}
  BY <1>1, <1>2 DEF Rows
<1>4. room' \in [status : {"WAITING", "READY", "PLAYING"}, current : 0..MaxSessions]
      /\ (room'.status = "PLAYING" <=> room'.current # 0) /\ room'.current = 0
  <2>1. 0 \in 0..MaxSessions
    BY ProcsAssumption
  <2> QED
    BY <1>1, <2>1, Parts, RoomWithOK
<1>5. RowsOK'
  BY <1>1, <1>2, <1>4, Parts DEF RowsOK, SeatStatus, Ids
<1>6. LocksOK' /\ CallsOK'
  BY <1>1, Parts DEF LocksOK, CallsOK, HoldsLock
<1>7. RoundsOK'
  <2>1. \A i \in Ids : sess'[i] = NoRow /\ sess'[i].round <= lastId'
    BY <1>1, <1>2, Parts, IdTypes
  <2> QED
    BY <1>3, <1>4, <2>1 DEF RoundsOK, CurrentRoundExists
<1>8. ASSUME NEW q \in Procs PROVE Fits(pc[q], got[q])'
  <2>1. pc[q] \notin LockPlaces
    BY <1>1, Parts DEF LocksOK, HoldsLock, LockPlaces
  <2>2. Fits(pc[q], got[q])
    BY Parts
  <2> QED
    BY <1>1, <1>3, <2>1, <2>2 DEF Fits, LockPlaces
<1>9. AgreementStays
  BY <1>3 DEF AgreementStays
<1>10. TypeOK'
  BY <1>5, <1>6 DEF TypeOK, RowsOK, CallsOK, LocksOK
<1> QED
  BY <1>7, <1>8, <1>9, <1>10 DEF RoomInv, CallsFit

\* The clock of a rematch passes its deadline.
LEMMA FallingDue ==
  ASSUME RoomInv, NEW i \in Ids, RematchFallsDue(i)
  PROVE  Kept
<1>1. /\ sess[i].due = "running" /\ sess' = [sess EXCEPT ![i].due = "past"]
      /\ UNCHANGED <<room, seat, lastId, locked, pc, got>>
  BY DEF RematchFallsDue
<1>2. i \in Rows /\ sess \in [Ids -> Session] /\ sess[i] \in Session
  BY <1>1, Parts DEF RoundsOK, RowsOK, NoRow
<1> DEFINE row == [sess[i] EXCEPT !.due = "past"]
<1>3. sess' = [sess EXCEPT ![i] = row]
  BY <1>1, <1>2
<1>4. /\ row \in Session /\ row.status = sess[i].status /\ row.version = sess[i].version
      /\ row.round = sess[i].round /\ row.vote = sess[i].vote
  BY <1>2 DEF Session
<1> HIDE DEF row
<1>5. Noted(i) /\ sess'[i].vote = sess[i].vote
  BY <1>1, <1>2, <1>3, <1>4 DEF Noted, SameElsewhere
<1>6. RoundsOK'
  BY <1>1, <1>2, <1>5, Parts, RoundsAfterNote DEF RoomFollows
<1>7. RowsKept
  BY <1>5, Parts, KeptAfterNote
<1>8. RowsOK' /\ CallsOK' /\ LocksOK'
  BY <1>1, <1>5, Parts DEF RowsOK, CallsOK, LocksOK, HoldsLock, Noted, SameElsewhere
<1>9. ASSUME NEW q \in Procs PROVE Fits(pc[q], got[q])'
  <2>1. PICK place \in Places, held \in Copy : place = pc[q] /\ held = got[q]
    BY Parts
  <2>2. Fits(place, held)'
    BY <1>5, <2>1, Parts, FitsAfterNote
  <2> QED
    BY <1>1, <2>1, <2>2, FitsAsCall
<1>10. TypeOK'
  BY <1>8 DEF TypeOK, RowsOK, CallsOK, LocksOK
<1> QED
  BY <1>6, <1>7, <1>9, <1>10 DEF Kept, RoomInv, CallsFit

----------------------------------------------------------------------------
(* The theorems.                                                           *)

LEMMA InitRoomInv == Init => RoomInv /\ RoundsAreConsecutive
<1> SUFFICES ASSUME Init PROVE RoomInv /\ RoundsAreConsecutive
  OBVIOUS
<1>1. NoRow \in Session /\ NoRow.status = "NONE" /\ NoRow.round = 0
  BY ProcsAssumption DEF NoRow, Session, Vote
<1>2. Rows = {} /\ \A i \in Ids : sess[i] = NoRow
  BY <1>1 DEF Init, Rows
<1>3. RowsOK
  BY <1>1, ProcsAssumption DEF Init, RowsOK, SeatStatus, Ids
<1>4. CallsOK /\ LocksOK
  BY NothingIsCopy DEF Init, CallsOK, LocksOK, HoldsLock
<1>5. RoundsOK
  BY <1>1, <1>2 DEF Init, RoundsOK, CurrentRoundExists
<1>6. CallsFit
  BY <1>3, ReturnFits DEF Init, CallsFit
<1>7. RoundsAreConsecutive
  BY DEF Init, RoundsAreConsecutive
<1> QED
  BY <1>3, <1>4, <1>5, <1>6, <1>7, TypeParts DEF RoomInv

LEMMA CallerSteps ==
  ASSUME RoomInv, NEW p \in Callers, CallerStep(p)
  PROVE  Kept \/ Resets(p)
<1>1. p \in Procs
  BY DEF Procs
<1> QED
  BY <1>1, JoinReads, PlainReads, StartReads, ActReads, VoteReads, VoteLocking, Failing,
     SeatWrites, Starting, Playing, Closing DEF CallerStep

LEMMA WorkerSteps ==
  ASSUME RoomInv, NEW w \in Workers, WorkerStep(w)
  PROVE  Kept
<1>1. w \in Procs
  BY DEF Procs
<1> QED
  BY <1>1, WorkerReading, DeadlineLocking, Playing, Failing, Closing DEF WorkerStep

LEMMA NextKeeps ==
  ASSUME RoomInv, [Next]_vars
  PROVE  Kept \/ \E p \in Callers : Resets(p)
<1>1. CASE UNCHANGED vars
  <2>1. RowsKept
    BY <1>1, KeptWithoutWrite DEF vars
  <2>2. RoomInv'
    BY <1>1 DEF vars, RoomInv, TypeOK, RoundsOK, CallsFit, Fits, CurrentRoundExists, Rows,
                Live, HoldsLock
  <2> QED
    BY <2>1, <2>2 DEF Kept
<1>2. CASE \E p \in Callers : CallerStep(p)
  BY <1>2, CallerSteps
<1>3. CASE \E p \in Sockets : SocketReads(p) \/ SocketSaves(p)
  BY <1>3, SocketReading, SeatWrites DEF Procs
<1>4. CASE \E w \in Workers : WorkerStep(w)
  BY <1>4, WorkerSteps
<1>5. CASE \E i \in Ids : RematchFallsDue(i)
  BY <1>5, FallingDue
<1>6. CASE \E p \in Procs : CallDies(p)
  BY <1>6, Dying
<1> QED
  BY <1>1, <1>2, <1>3, <1>4, <1>5, <1>6 DEF Next

\* Every step keeps the invariant and the agreements.
LEMMA StepKeeps ==
  ASSUME RoomInv, [Next]_vars
  PROVE  RoomInv' /\ AgreementStays
<1>1. Callers \subseteq Procs
  BY DEF Procs
<1> QED
  BY <1>1, NextKeeps, Resetting DEF Kept, RowsKept

LEMMA RoomInvHolds == Spec => []RoomInv
<1>1. Init => RoomInv
  BY InitRoomInv
<1>2. RoomInv /\ [Next]_vars => RoomInv'
  BY StepKeeps
<1> QED
  BY <1>1, <1>2, PTL DEF Spec

\* Rows and calls have their types; a row is locked exactly while one
\* transaction holds it, and the room is PLAYING exactly while it points at a
\* round, whatever requests, sockets and workers interleave and die.
THEOREM RoomTypes == Spec => []TypeOK
<1>1. RoomInv => TypeOK
  BY DEF RoomInv
<1> QED
  BY <1>1, RoomInvHolds, PTL

\* The round the room points at exists: no late hit, worker or rematch writes
\* back a round that a reset has deleted.
THEOREM RoomPointsAtARound == Spec => []CurrentRoundExists
<1>1. RoomInv => CurrentRoundExists
  BY DEF RoomInv, RoundsOK
<1> QED
  BY <1>1, RoomInvHolds, PTL

\* A rematch that was agreed on is never decided again by a deadline, by a
\* worker, or by a vote whose call had read the round with the version it names:
\* only by a vote that names the version the agreement itself wrote.
THEOREM AgreementsStay == Spec => AgreementIsFinal
<1>1. RoomInv /\ [Next]_vars => AgreementStays
  BY StepKeeps
<1>2. AgreementStays =>
        [\A i \in Rows : sess[i].vote = "AGREE" /\ i \in Rows' /\ ~VoteFromAhead(i)
           => sess'[i].vote = "AGREE" /\ sess'[i].version = sess[i].version]_vars
  BY DEF AgreementStays
<1> QED
  BY <1>1, <1>2, RoomInvHolds, PTL DEF Spec, AgreementIsFinal

\* Without resets the rounds of a room are numbered one after another, however
\* many starts, votes and deadlines race to open the next one.
THEOREM RoundsAreNumbered ==
  ASSUME "reset" \notin Requests
  PROVE  Spec => []RoundsAreConsecutive
<1>1. Init => RoundsAreConsecutive
  BY InitRoomInv
<1>2. RoomInv /\ RoundsAreConsecutive /\ [Next]_vars => RoundsAreConsecutive'
  BY NextKeeps DEF Resets, Kept, RowsKept
<1> QED
  BY <1>1, <1>2, RoomInvHolds, PTL DEF Spec

----------------------------------------------------------------------------
(* Requests of the host that do not overlap: a round in play is attended,  *)
(* whatever sockets and workers do meanwhile and whichever calls die.      *)

\* One host, whose requests follow one another.
OneHost == \A p, q \in Callers : p = q

\* Where only a request of the host stands, and where it has seen that the room
\* has no round.
CallerPlaces == Places \ {"idle", "seat.save", "turn.commit", "due.commit"}
QuietPlaces == {"join.list", "join.tx", "join.commit", "leave.seat", "leave.commit",
                "start.seat", "start.latest", "start.commit"}
SeatedPlaces == {"start.latest", "start.commit", "vote.commit"}

\* What a call that stands at a place with a copy knows of the room: that it has
\* no round, that the host is seated, or which round it points at.
Attends(place, copy) ==
  /\ place \in QuietPlaces => room.current = 0
  /\ place \in SeatedPlaces => seat \in Seated
  /\ place = "vote.commit" => copy.id = lastId
  /\ place = "vote.tx" /\ copy.id \in Rows => copy.id = lastId
  /\ place = "due.commit" => room.current = copy.id
  /\ place = "seat.save" => copy.seat \in Seated

\* The room points at the latest round or at none, and nothing else is live.
RoomAttends ==
  /\ room.current # 0 => room.current = lastId /\ seat \in Seated
  /\ Live \subseteq {room.current}

CallsAttend ==
  \A p \in Procs : Attends(pc[p], got[p]) /\ (pc[p] \in CallerPlaces => p \in Callers)

HostInv == RoomInv /\ RoomAttends /\ CallsAttend

LEMMA HostParts ==
  ASSUME HostInv
  PROVE  /\ RoomInv /\ RoomAttends
         /\ \A p \in Procs : Attends(pc[p], got[p]) /\ pc[p] \in Places /\ got[p] \in Copy
BY Parts DEF HostInv, CallsAttend

LEMMA AttendsAsCall ==
  ASSUME NEW q, NEW place, NEW copy, place = pc'[q], copy = got'[q], Attends(place, copy)'
  PROVE  Attends(pc[q], got[q])'
BY DEF Attends, Rows

LEMMA AttendsStays ==
  ASSUME UNCHANGED <<room, seat, sess, lastId>>, NEW place, NEW copy, Attends(place, copy)
  PROVE  Attends(place, copy)'
BY DEF Attends, Rows

LEMMA NothingAttends == Attends("idle", NothingRead)' /\ "idle" \notin CallerPlaces
BY DEF Attends, QuietPlaces, SeatedPlaces, CallerPlaces

LEMMA HostCallStep ==
  ASSUME HostInv, NEW p \in Procs, NEW next, NEW copy,
         Goto(p, next, copy), RoomAttends', Attends(next, copy)',
         next \in CallerPlaces => p \in Callers,
         \A place \in Places, held \in Copy :
           (\E q \in Procs \ {p} : place = pc[q] /\ held = got[q]) /\ Attends(place, held)
             => Attends(place, held)'
  PROVE  RoomAttends' /\ CallsAttend'
<1>1. /\ pc'[p] = next /\ got'[p] = copy
      /\ \A q \in Procs \ {p} : pc'[q] = pc[q] /\ got'[q] = got[q]
  BY HostParts, Parts DEF CallsOK, Goto
<1>2. ASSUME NEW q \in Procs
      PROVE  Attends(pc[q], got[q])' /\ (pc'[q] \in CallerPlaces => q \in Callers)
  <2>1. CASE q = p
    BY <1>1, <2>1, AttendsAsCall
  <2>2. CASE q # p
    <3>1. PICK place \in Places, held \in Copy : place = pc[q] /\ held = got[q]
      BY HostParts
    <3>2. Attends(place, held)
      BY <3>1, HostParts
    <3>3. Attends(place, held)'
      BY <2>2, <3>1, <3>2
    <3>4. pc[q] \in CallerPlaces => q \in Callers
      BY DEF HostInv, CallsAttend
    <3> QED
      BY <1>1, <2>2, <3>1, <3>3, <3>4, AttendsAsCall
  <2> QED
    BY <2>1, <2>2
<1>3. CallerPlaces' = CallerPlaces
  BY DEF CallerPlaces, Places
<1> QED
  BY <1>2, <1>3 DEF CallsAttend

\* A call that reads.
LEMMA HostReadStep ==
  ASSUME HostInv, NEW p \in Procs, NEW next, NEW copy,
         Goto(p, next, copy), UNCHANGED <<room, seat, sess, lastId>>,
         Attends(next, copy), next \in CallerPlaces => p \in Callers
  PROVE  RoomAttends' /\ CallsAttend'
<1>1. RoomAttends'
  BY HostParts DEF RoomAttends, Live, Rows
<1>2. Attends(next, copy)'
  BY AttendsStays
<1>3. \A place \in Places, held \in Copy : Attends(place, held) => Attends(place, held)'
  BY AttendsStays
<1> QED
  BY <1>1, <1>2, <1>3, HostCallStep

LEMMA HostEndStep ==
  ASSUME HostInv, NEW p \in Procs, Return(p), UNCHANGED <<room, seat, sess, lastId>>
  PROVE  RoomAttends' /\ CallsAttend'
<1>1. Attends("idle", NothingRead) /\ "idle" \notin CallerPlaces
  BY DEF Attends, QuietPlaces, SeatedPlaces, CallerPlaces
<1> QED
  BY <1>1, HostReadStep DEF Return

\* Places that need no more than a room without a round.
LEMMA QuietAttends ==
  ASSUME NEW place \in QuietPlaces, NEW copy, room.current = 0,
         place \in SeatedPlaces => seat \in Seated
  PROVE  Attends(place, copy)
BY DEF Attends, QuietPlaces, SeatedPlaces

LEMMA HostQuietReads ==
  ASSUME HostInv, NEW p \in Callers,
         \/ JoinReadsRoom(p) \/ JoinReadsSeat(p) \/ LeaveReadsRoom(p) \/ LeaveReadsSeat(p)
         \/ StartReadsRoom(p) \/ StartReadsSeat(p) \/ StartReadsLatest(p)
  PROVE  RoomAttends' /\ CallsAttend'
<1>0. p \in Procs /\ CallsOK
  BY HostParts, Parts DEF Procs
<1>1. UNCHANGED <<room, seat, sess, lastId>>
  BY DEF JoinReadsRoom, JoinReadsSeat, LeaveReadsRoom, LeaveReadsSeat, StartReadsRoom,
         StartReadsSeat, StartReadsLatest
<1>2. room.status \in {"WAITING", "READY"} => room.current = 0
  BY HostParts, Parts DEF RowsOK
<1>3. pc[p] \in QuietPlaces => room.current = 0
  BY <1>0, HostParts DEF Attends
<1>4. pc[p] = "start.latest" => seat \in Seated
  BY <1>0, HostParts DEF Attends, SeatedPlaces
<1>5. \/ Return(p)
      \/ \E next \in QuietPlaces : \E copy :
           /\ Goto(p, next, copy) /\ room.current = 0
           /\ next \in SeatedPlaces => seat \in Seated
  BY <1>2, <1>3, <1>4
     DEF JoinReadsRoom, JoinReadsSeat, LeaveReadsRoom, LeaveReadsSeat, MayLeave, StartReadsRoom,
         StartReadsSeat, StartReadsLatest, QuietPlaces, SeatedPlaces
<1>6. ASSUME NEW next \in QuietPlaces, NEW copy, Goto(p, next, copy), room.current = 0,
             next \in SeatedPlaces => seat \in Seated
      PROVE  RoomAttends' /\ CallsAttend'
  <2>1. Attends(next, copy)
    BY <1>6, QuietAttends
  <2> QED
    BY <1>0, <1>1, <1>6, <2>1, HostReadStep
<1> QED
  BY <1>0, <1>1, <1>5, <1>6, HostEndStep

LEMMA HostRoundReads ==
  ASSUME HostInv, NEW p \in Callers,
         ActReadsRoom(p) \/ ActReadsSession(p) \/ ActFails(p) \/ VoteReadsLatest(p) \/ VoteLocks(p)
  PROVE  RoomAttends' /\ CallsAttend'
<1>0. p \in Procs /\ RowsOK /\ RoundsOK /\ Attends(pc[p], got[p])
  BY HostParts, Parts DEF Procs
<1>1. UNCHANGED <<room, seat, sess, lastId>>
  BY DEF ActReadsRoom, ActReadsSession, ActFails, Conflict, VoteReadsLatest, VoteLocks
<1>2. CASE ActReadsRoom(p) \/ ActReadsSession(p) \/ ActFails(p)
  <2>1. \/ Return(p)
        \/ \E next \in {"act.session", "act.commit"} : \E copy : Goto(p, next, copy)
    BY <1>2 DEF ActReadsRoom, ActReadsSession, ActFails, Conflict
  <2>2. \A next \in {"act.session", "act.commit"} : \A copy : Attends(next, copy)
    BY DEF Attends, QuietPlaces, SeatedPlaces
  <2> QED
    BY <1>0, <1>1, <2>1, <2>2, HostReadStep, HostEndStep
<1>3. CASE VoteReadsLatest(p)
  <2>0. PICK agree \in BOOLEAN, asked \in Versions :
          Goto(p, "vote.tx", [NothingRead EXCEPT !.id = Latest, !.version = sess[Latest].version,
                                                 !.asked = asked, !.agree = agree])
    BY <1>3 DEF VoteReadsLatest
  <2> DEFINE copy == [NothingRead EXCEPT !.id = Latest, !.version = sess[Latest].version,
                                         !.asked = asked, !.agree = agree]
  <2>1. Goto(p, "vote.tx", copy) /\ copy.id = Latest
    BY <2>0 DEF NothingRead
  <2> HIDE DEF copy
  <2>2. copy.id = lastId
    BY <1>0, <1>3, <2>1, LatestIsLast DEF VoteReadsLatest
  <2>3. Attends("vote.tx", copy)
    BY <2>2 DEF Attends, QuietPlaces, SeatedPlaces
  <2> QED
    BY <1>0, <1>1, <2>1, <2>3, HostReadStep
<1>4. CASE VoteLocks(p)
  <2>1. CASE Return(p)
    BY <1>0, <1>1, <2>1, HostEndStep
  <2>2. CASE got[p].id \in Rows /\ seat \in Seated /\ Goto(p, "vote.commit", got[p])
    <3>1. got[p].id = lastId
      BY <1>0, <1>4, <2>2 DEF VoteLocks, Attends
    <3>2. Attends("vote.commit", got[p])
      BY <2>2, <3>1 DEF Attends, QuietPlaces
    <3> QED
      BY <1>0, <1>1, <2>2, <3>2, HostReadStep
  <2> QED
    BY <1>4, <2>1, <2>2 DEF VoteLocks
<1> QED
  BY <1>2, <1>3, <1>4

LEMMA HostOtherReads ==
  ASSUME HostInv, NEW p \in Procs,
         \/ SocketReads(p) \/ WorkerFails(p) \/ CallDies(p)
         \/ \E i \in Ids : WorkerReads(p, i) \/ DeadlineLocks(p, i)
  PROVE  RoomAttends' /\ CallsAttend'
<1>1. UNCHANGED <<room, seat, sess, lastId>>
  BY DEF SocketReads, WorkerFails, Conflict, CallDies, WorkerReads, DeadlineLocks
<1>2. CASE WorkerFails(p) \/ CallDies(p)
  BY <1>1, <1>2, HostEndStep DEF WorkerFails, Conflict, CallDies
<1>3. CASE SocketReads(p)
  <2>1. PICK copy : Goto(p, "seat.save", copy) /\ copy.seat \in Seated
    BY <1>3 DEF SocketReads, NothingRead
  <2>2. Attends("seat.save", copy) /\ "seat.save" \notin CallerPlaces
    BY <2>1 DEF Attends, QuietPlaces, SeatedPlaces, CallerPlaces
  <2> QED
    BY <1>1, <2>1, <2>2, HostReadStep
<1>4. ASSUME NEW i \in Ids, WorkerReads(p, i) PROVE RoomAttends' /\ CallsAttend'
  <2>1. PICK copy : Goto(p, "turn.commit", copy)
    BY <1>4 DEF WorkerReads
  <2>2. Attends("turn.commit", copy) /\ "turn.commit" \notin CallerPlaces
    BY DEF Attends, QuietPlaces, SeatedPlaces, CallerPlaces
  <2> QED
    BY <1>1, <2>1, <2>2, HostReadStep
<1>5. ASSUME NEW i \in Ids, DeadlineLocks(p, i) PROVE RoomAttends' /\ CallsAttend'
  <2> DEFINE copy == [NothingRead EXCEPT !.id = i, !.seat = seat]
  <2>1. Goto(p, "due.commit", copy) /\ copy.id = room.current
    BY <1>5 DEF DeadlineLocks, StillCurrent, NothingRead
  <2> HIDE DEF copy
  <2>2. Attends("due.commit", copy) /\ "due.commit" \notin CallerPlaces
    BY <2>1 DEF Attends, QuietPlaces, SeatedPlaces, CallerPlaces
  <2> QED
    BY <1>1, <2>1, <2>2, HostReadStep
<1> QED
  BY <1>2, <1>3, <1>4, <1>5

----------------------------------------------------------------------------
(* Commits.                                                                *)

\* While the host's only request stands at a place of its own, no other call
\* does.
LEMMA OthersAreNotCallers ==
  ASSUME HostInv, OneHost, NEW p \in Procs, pc[p] \in CallerPlaces \/ p \in Callers
  PROVE  /\ p \in Callers
         /\ \A q \in Procs \ {p} : pc[q] \in {"idle", "seat.save", "turn.commit", "due.commit"}
BY HostParts DEF HostInv, CallsAttend, OneHost, CallerPlaces

\* A deadline settles the round the room points at.
LEMMA DueIsCurrent ==
  ASSUME HostInv, NEW q \in Procs, pc[q] = "due.commit"
  PROVE  room.current # 0 /\ got[q].id = room.current /\ room.current = lastId
<1>1. Attends(pc[q], got[q]) /\ Fits(pc[q], got[q]) /\ RowsOK
  BY HostParts, Parts
<1>2. got[q].id \in 1..lastId /\ room.current = got[q].id
  BY <1>1 DEF Fits, Attends, RoundPlaces, LockPlaces
<1>3. room.current # 0
  BY <1>1, <1>2, IdTypes
<1> QED
  BY <1>2, <1>3, HostParts DEF RoomAttends

LEMMA RoomWithCurrent ==
  ASSUME NEW i, NEW seated
  PROVE  RoomWith(i, seated).current = i
BY DEF RoomWith

\* Joining, leaving and sockets.
LEMMA HostSeatWrites ==
  ASSUME HostInv, OneHost, NEW p \in Procs, JoinCommits(p) \/ LeaveCommits(p) \/ SocketSaves(p)
  PROVE  RoomAttends' /\ CallsAttend'
<1>1. Return(p) /\ UNCHANGED <<sess, lastId>>
  BY DEF JoinCommits, LeaveCommits, SocketSaves
<1>2. CASE SocketSaves(p)
  <2>1. seat' \in Seated /\ room' = room
    BY <1>2, HostParts DEF SocketSaves, Attends
  <2>2. RoomAttends'
    BY <1>1, <2>1, HostParts DEF RoomAttends, Live, Rows
  <2>3. \A place \in Places, held \in Copy : Attends(place, held) => Attends(place, held)'
    BY <1>1, <2>1 DEF Attends, Rows
  <2> QED
    BY <1>1, <2>2, <2>3, NothingAttends, HostCallStep DEF Return
<1>3. CASE JoinCommits(p) \/ LeaveCommits(p)
  <2>1. pc[p] \in CallerPlaces /\ pc[p] \in QuietPlaces
    BY <1>3 DEF JoinCommits, LeaveCommits, CallerPlaces, QuietPlaces, Places
  <2>2. room.current = 0 /\ room'.current = 0
    BY <1>3, <2>1, HostParts, RoomWithCurrent DEF Attends, JoinCommits, LeaveCommits
  <2>3. RoomAttends'
    BY <1>1, <2>2, HostParts DEF RoomAttends, Live, Rows
  <2>4. \A q \in Procs \ {p} : pc[q] \in {"idle", "seat.save", "turn.commit"}
    BY <2>1, <2>2, OthersAreNotCallers, DueIsCurrent
  <2>5. \A place \in {"idle", "seat.save", "turn.commit"}, held \in Copy :
          Attends(place, held) => Attends(place, held)'
    BY DEF Attends, QuietPlaces, SeatedPlaces
  <2> QED
    BY <1>1, <2>3, <2>4, <2>5, NothingAttends, HostCallStep DEF Return
<1> QED
  BY <1>2, <1>3

\* A reset waits for every lock, so that no deadline is being settled.
LEMMA HostResets ==
  ASSUME HostInv, OneHost, NEW p \in Callers, Resets(p)
  PROVE  RoomAttends' /\ CallsAttend'
<1>1. /\ pc[p] = "idle" /\ locked = {} /\ room'.current = 0 /\ UNCHANGED <<pc, got>>
      /\ sess' = [i \in Ids |-> NoRow] /\ p \in Procs
  BY RoomWithCurrent DEF Resets, Procs
<1>2. Live' = {}
  BY <1>1 DEF Live, Rows, NoRow
<1>3. RoomAttends'
  BY <1>1, <1>2 DEF RoomAttends
<1>4. \A q \in Procs : pc[q] \in {"idle", "seat.save", "turn.commit"}
  <2>1. \A q \in Procs : pc[q] # "due.commit"
    BY <1>1, HostParts, Parts DEF LocksOK, HoldsLock
  <2> QED
    BY <1>1, <2>1, OthersAreNotCallers
<1>5. \A place \in {"idle", "seat.save", "turn.commit"}, held \in Copy :
        Attends(place, held) => Attends(place, held)'
  BY DEF Attends, QuietPlaces, SeatedPlaces
<1>6. ASSUME NEW q \in Procs PROVE Attends(pc[q], got[q])' /\ pc[q] \notin CallerPlaces
  <2>1. PICK place \in {"idle", "seat.save", "turn.commit"}, held \in Copy :
          place = pc[q] /\ held = got[q]
    BY <1>4, HostParts
  <2>2. Attends(place, held)'
    BY <1>5, <2>1, HostParts
  <2> QED
    BY <1>1, <2>1, <2>2, AttendsAsCall DEF CallerPlaces
<1>7. CallerPlaces' = CallerPlaces
  BY DEF CallerPlaces, Places
<1> QED
  BY <1>1, <1>3, <1>6, <1>7 DEF CallsAttend

\* A round that is played on is the one the room points at, and stays so.
LEMMA HostPlays ==
  ASSUME HostInv, NEW p \in Procs, ActCommits(p) \/ WorkerEndsRound(p) \/ WorkerDraws(p)
  PROVE  RoomAttends' /\ CallsAttend'
<1> DEFINE i == got[p].id
<1>1. /\ i \in Live /\ Played(i) /\ Return(p) /\ UNCHANGED <<seat, lastId>>
      /\ room' \in {room, RoomWith(i, TRUE)} /\ RowsOK /\ RoundsOK
  BY HostParts, Parts, PlayMoves
<1>2. room'.current = room.current
  <2>1. i = room.current
    BY <1>1, HostParts DEF RoomAttends
  <2> QED
    BY <1>1, <2>1, RoomWithCurrent
<1>3. /\ i \in Ids /\ sess'[i].version = sess[i].version + 1 /\ sess[i].version \in Nat
      /\ \A j \in Ids : j # i => sess'[j] = sess[j]
  BY <1>1, IdTypes DEF Live, Rows, Played, SameElsewhere
<1>4. Rows' = Rows /\ Live' \subseteq Live
  BY <1>1, <1>3 DEF Played, Live, Rows
<1>5. RoomAttends'
  BY <1>1, <1>2, <1>4, HostParts DEF RoomAttends
<1>6. ASSUME NEW place \in Places, NEW held \in Copy, Attends(place, held)
      PROVE  Attends(place, held)'
  BY <1>1, <1>2, <1>4, <1>6 DEF Attends
<1> QED
  BY <1>1, <1>5, <1>6, NothingAttends, HostCallStep DEF Return

LEMMA HostFallsDue ==
  ASSUME HostInv, NEW i \in Ids, RematchFallsDue(i)
  PROVE  RoomAttends' /\ CallsAttend'
<1>1. /\ sess' = [sess EXCEPT ![i].due = "past"] /\ RowsOK
      /\ UNCHANGED <<room, seat, lastId, locked, pc, got>>
  BY HostParts, Parts DEF RematchFallsDue
<1>2. \A j \in Ids : sess'[j].status = sess[j].status /\ sess'[j].version = sess[j].version
  BY <1>1 DEF RowsOK, Session
<1>3. Rows' = Rows /\ Live' = Live /\ Rows \subseteq Ids
  BY <1>2 DEF Rows, Live
<1>4. RoomAttends'
  BY <1>1, <1>3, HostParts DEF RoomAttends
<1>5. ASSUME NEW q \in Procs PROVE Attends(pc[q], got[q])'
  BY <1>1, <1>2, <1>3, HostParts DEF Attends
<1>6. CallerPlaces' = CallerPlaces
  BY DEF CallerPlaces, Places
<1> QED
  BY <1>1, <1>4, <1>5, <1>6 DEF HostInv, CallsAttend

\* The next round is opened while no other is live, with the host seated.
LEMMA AttendsAfterOpen ==
  ASSUME RowsOK, RoundsOK, NEW after, NEW r, Opened(after, r), Live = {}, UNCHANGED seat,
         after = 0 \/ (after \in Rows /\ after \notin Live),
         room' = RoomWith(lastId + 1, TRUE), seat \in Seated
  PROVE  RoomAttends'
<1>1. lastId' = lastId + 1 /\ room'.current = lastId + 1
  BY RoomWithCurrent DEF Opened
<1>2. ASSUME NEW j \in Live' PROVE j = lastId + 1
  <2>1. j \in Ids /\ sess'[j].status \notin {"NONE", "RESETTING"} /\ j # 0
    BY IdTypes DEF Live, Rows
  <2>2. sess'[j] = sess[j] => j \in Live
    BY <2>1 DEF Live, Rows
  <2>3. CASE j = after
    <3>1. sess[after].status \in {"NONE", "RESETTING"}
      BY <2>1, <2>3 DEF Live
    <3> QED
      BY <2>1, <2>3, <3>1 DEF Opened
  <2>4. CASE j # after
    BY <2>1, <2>2, <2>4 DEF Opened, SameElsewhere
  <2> QED
    BY <2>3, <2>4
<1> QED
  BY <1>1, <1>2 DEF RoomAttends

LEMMA HostStarts ==
  ASSUME HostInv, OneHost, NEW p \in Procs, StartCommits(p)
  PROVE  RoomAttends' /\ CallsAttend'
<1>1. /\ Return(p) /\ UNCHANGED seat /\ pc[p] = "start.commit"
      /\ \/ UNCHANGED <<room, sess, lastId>>
         \/ Opened(0, got[p].round) /\ room' = RoomWith(lastId + 1, TRUE)
  BY HostParts, StartMoves DEF StartCommits
<1>2. CASE UNCHANGED <<room, sess, lastId>>
  BY <1>1, <1>2, HostEndStep
<1>3. CASE Opened(0, got[p].round) /\ room' = RoomWith(lastId + 1, TRUE)
  <2>1. room.current = 0 /\ seat \in Seated
    BY <1>1, HostParts DEF Attends, QuietPlaces, SeatedPlaces
  <2>2. Live = {}
    BY <2>1, HostParts, Parts, IdTypes DEF RoomAttends, Live, Rows
  <2>3. RoomAttends'
    BY <1>1, <1>3, <2>1, <2>2, HostParts, Parts, AttendsAfterOpen
  <2>4. \A q \in Procs \ {p} : pc[q] \in {"idle", "seat.save", "turn.commit"}
    <3>1. pc[p] \in CallerPlaces
      BY <1>1 DEF CallerPlaces, Places
    <3> QED
      BY <2>1, <3>1, OthersAreNotCallers, DueIsCurrent
  <2>5. \A place \in {"idle", "seat.save", "turn.commit"}, held \in Copy :
          Attends(place, held) => Attends(place, held)'
    BY DEF Attends, QuietPlaces, SeatedPlaces
  <2> QED
    BY <1>1, <2>3, <2>4, <2>5, NothingAttends, HostCallStep DEF Return
<1> QED
  BY <1>1, <1>2, <1>3

\* A vote and a deadline close the latest round, alone.
LEMMA ClosesTheLatest ==
  ASSUME HostInv, OneHost, NEW p \in Procs, HoldsLock(p)
  PROVE  /\ got[p].id = lastId /\ got[p].id \in Rows /\ got[p].id \notin Live
         /\ seat \in Seated /\ Live = {}
         /\ \A q \in Procs \ {p} : pc[q] \notin QuietPlaces \cup LockPlaces
<1> DEFINE i == got[p].id
<1>1. /\ RowsOK /\ LocksOK /\ RoomAttends /\ pc[p] \in LockPlaces
      /\ Attends(pc[p], got[p]) /\ Fits(pc[p], got[p])
  BY HostParts, Parts DEF HoldsLock, LockPlaces
<1>2. i \in Rows /\ i \notin Live /\ i \in 1..lastId
  BY <1>1 DEF Fits, LockPlaces, RoundPlaces, Live
<1>3. ASSUME NEW q \in Procs, HoldsLock(q) PROVE got[q].id = lastId
  <2>1. Attends(pc[q], got[q])
    BY HostParts
  <2> QED
    BY <1>3, <2>1, DueIsCurrent DEF HoldsLock, Attends
<1>4. i = lastId
  BY <1>1, <1>3
<1>5. seat \in Seated
  BY <1>1, DueIsCurrent DEF LockPlaces, SeatedPlaces, Attends, RoomAttends
<1>6. Live = {}
  <2>1. room.current \in {0, i}
    BY <1>1, <1>4 DEF RoomAttends
  <2>2. 0 \notin Live
    BY <1>1, IdTypes DEF Live, Rows
  <2> QED
    BY <1>1, <1>2, <2>1, <2>2 DEF RoomAttends
<1>7. ASSUME NEW q \in Procs \ {p} PROVE pc[q] \notin QuietPlaces \cup LockPlaces
  <2>1. pc[q] \notin LockPlaces
    BY <1>1, <1>3 DEF LocksOK, HoldsLock, LockPlaces
  <2>2. CASE pc[p] = "due.commit"
    <3>1. Attends(pc[q], got[q])
      BY HostParts
    <3> QED
      BY <2>1, <2>2, <3>1, DueIsCurrent DEF Attends
  <2>3. CASE pc[p] = "vote.commit"
    <3>1. pc[p] \in CallerPlaces
      BY <2>3 DEF CallerPlaces, Places
    <3> QED
      BY <2>1, <3>1, OthersAreNotCallers DEF QuietPlaces
  <2> QED
    BY <1>1, <2>2, <2>3 DEF LockPlaces
<1> QED
  BY <1>2, <1>4, <1>5, <1>6, <1>7

LEMMA HostCloses ==
  ASSUME HostInv, OneHost, NEW p \in Procs, VoteCommits(p) \/ DeadlineCommits(p)
  PROVE  RoomAttends' /\ CallsAttend'
<1> DEFINE i == got[p].id
           r == sess[i].round + 1
<1>1. /\ Return(p) /\ HoldsLock(p) /\ UNCHANGED seat
      /\ \/ UNCHANGED <<room, sess, lastId>>
         \/ Noted(i) /\ room' = RoomWith(0, seat \in Seated)
         \/ Opened(i, r) /\ room' = RoomWith(lastId + 1, TRUE)
  BY HostParts, ClosesWith, CloseMoves
<1>2. /\ i = lastId /\ i \in Rows /\ i \in Ids /\ i \notin Live /\ i # 0
      /\ seat \in Seated /\ Live = {} /\ RowsOK /\ RoundsOK
  BY <1>1, HostParts, Parts, ClosesTheLatest, IdTypes DEF Rows
<1>3. \A q \in Procs \ {p} : /\ pc[q] \notin QuietPlaces \cup LockPlaces
                             /\ Fits(pc[q], got[q])
  BY <1>1, HostParts, Parts, ClosesTheLatest
<1>4. CASE UNCHANGED <<room, sess, lastId>>
  BY <1>1, <1>4, HostEndStep
<1>5. CASE Noted(i) /\ room' = RoomWith(0, seat \in Seated)
  <2>1. \A j \in Ids : sess'[j].status = sess[j].status /\ sess'[j].version = sess[j].version
    BY <1>5 DEF Noted, SameElsewhere
  <2>2. Rows' = Rows /\ Live' = Live /\ Rows \subseteq Ids /\ lastId' = lastId
    BY <1>5, <2>1 DEF Rows, Live, Noted
  <2>3. RoomAttends'
    BY <1>2, <1>5, <2>2, RoomWithCurrent DEF RoomAttends
  <2>4. \A place \in Places \ (QuietPlaces \cup LockPlaces), held \in Copy :
          Attends(place, held) => Attends(place, held)'
    BY <2>1, <2>2 DEF Attends, SeatedPlaces, QuietPlaces, LockPlaces
  <2> QED
    BY <1>1, <1>3, <2>3, <2>4, NothingAttends, HostCallStep DEF Return
<1>6. CASE Opened(i, r) /\ room' = RoomWith(lastId + 1, TRUE)
  <2>1. RoomAttends'
    BY <1>1, <1>2, <1>6, AttendsAfterOpen
  <2>2. pc[p] = "vote.commit"
    <3> SUFFICES ASSUME DeadlineCommits(p) PROVE FALSE
      BY DEF VoteCommits
    <3>1. Fits(pc[p], got[p]) /\ pc[p] = "due.commit"
      BY HostParts, Parts DEF DeadlineCommits
    <3>2. sess[i].vote # "AGREE"
      BY <3>1 DEF Fits
    <3>3. lastId' = lastId
      BY <3>2 DEF DeadlineCommits, ClosesRematch
    <3> QED
      BY <1>2, <1>6, <3>3, IdTypes DEF Opened
  <2>3. \A q \in Procs \ {p} : pc[q] \in {"idle", "seat.save", "turn.commit"}
    <3>1. pc[p] \in CallerPlaces
      BY <2>2 DEF CallerPlaces, Places
    <3> QED
      BY <1>3, <3>1, OthersAreNotCallers DEF LockPlaces
  <2>4. \A place \in {"idle", "seat.save", "turn.commit"}, held \in Copy :
          Attends(place, held) => Attends(place, held)'
    BY DEF Attends, QuietPlaces, SeatedPlaces
  <2> QED
    BY <1>1, <2>1, <2>3, <2>4, NothingAttends, HostCallStep DEF Return
<1> QED
  BY <1>1, <1>4, <1>5, <1>6

----------------------------------------------------------------------------
(* The theorem.                                                            *)

LEMMA InitHostInv == Init => HostInv
<1> SUFFICES ASSUME Init PROVE HostInv
  OBVIOUS
<1>1. RoomInv
  BY InitRoomInv
<1>2. Live = {}
  BY DEF Init, Live, Rows, NoRow
<1>3. RoomAttends
  BY <1>2 DEF Init, RoomAttends
<1>4. CallsAttend
  BY DEF Init, CallsAttend, Attends, QuietPlaces, SeatedPlaces, CallerPlaces
<1> QED
  BY <1>1, <1>3, <1>4 DEF HostInv

LEMMA HostInvKept ==
  ASSUME OneHost, HostInv, [Next]_vars
  PROVE  HostInv'
<1>1. RoomInv'
  BY HostParts, StepKeeps
<1>2. Callers \subseteq Procs /\ Sockets \subseteq Procs /\ Workers \subseteq Procs
  BY DEF Procs
<1>3. CASE UNCHANGED vars
  BY <1>3 DEF vars, HostInv, RoomInv, TypeOK, RoundsOK, CallsFit, Fits, CurrentRoundExists, Rows,
              Live, HoldsLock, RoomAttends, CallsAttend, Attends, CallerPlaces, Places
<1>4. ASSUME NEW p \in Callers, CallerStep(p) PROVE RoomAttends' /\ CallsAttend'
  BY <1>2, <1>4, HostQuietReads, HostRoundReads, HostSeatWrites, HostStarts, HostPlays,
     HostCloses, HostResets DEF CallerStep
<1>5. ASSUME NEW p \in Sockets, SocketReads(p) \/ SocketSaves(p)
      PROVE  RoomAttends' /\ CallsAttend'
  BY <1>2, <1>5, HostOtherReads, HostSeatWrites
<1>6. ASSUME NEW w \in Workers, WorkerStep(w) PROVE RoomAttends' /\ CallsAttend'
  BY <1>2, <1>6, HostOtherReads, HostPlays, HostCloses DEF WorkerStep
<1>7. ASSUME NEW i \in Ids, RematchFallsDue(i) PROVE RoomAttends' /\ CallsAttend'
  BY <1>7, HostFallsDue
<1>8. ASSUME NEW p \in Procs, CallDies(p) PROVE RoomAttends' /\ CallsAttend'
  BY <1>8, HostOtherReads
<1> QED
  BY <1>1, <1>3, <1>4, <1>5, <1>6, <1>7, <1>8 DEF Next, HostInv

\* When the requests of the host do not overlap, the room points at the round
\* in play and the host is on the seat, for any number of rounds, sockets and
\* workers and whichever calls die: StartRoom, the rematch, the reset and the
\* two writers of the seat leave no round behind that nobody can reach.
THEOREM RoundsAreAttended ==
  ASSUME OneHost
  PROVE  Spec => []PlayedRoundIsAttended
<1>1. Init => HostInv
  BY InitHostInv
<1>2. HostInv /\ [Next]_vars => HostInv'
  BY HostInvKept
<1>3. HostInv => PlayedRoundIsAttended
  <2> SUFFICES ASSUME HostInv, NEW i \in Live PROVE room.current = i /\ seat \in Seated
    BY DEF PlayedRoundIsAttended
  <2>1. room.current = i /\ i # 0
    BY HostParts, Parts, IdTypes DEF RoomAttends, Live, Rows
  <2> QED
    BY <2>1, HostParts DEF RoomAttends
<1> QED
  BY <1>1, <1>2, <1>3, PTL DEF Spec

----------------------------------------------------------------------------
(* The room as its host sees it: RoomLife.                                 *)

SeenRoom == <<seat \in Seated, Phase, Number, Held>>

\* Who is seated finds a room that is not WAITING only by joining it, and rounds
\* count from 1.
SeatAgrees ==
  /\ seat \notin Seated => room.status = "WAITING"
  /\ \A i \in Rows : sess[i].round >= 1

\* What a request between the rounds has seen and still holds: that the room
\* waits for the host, that it is ready, that the host is seated, or the number
\* of the round to start.
Expects(place, copy) ==
  /\ place = "join.commit" => room.status = "WAITING"
  /\ place \in {"start.seat", "start.latest", "start.commit"} => room.status = "READY"
  /\ place = "leave.commit" => seat \in Seated
  /\ place = "start.commit" => copy.round = Number + 1

CallsExpect == \A p \in Procs : Expects(pc[p], got[p])

LifeInv == HostInv /\ SeatAgrees /\ CallsExpect

LEMMA LifeParts ==
  ASSUME LifeInv
  PROVE  /\ HostInv /\ SeatAgrees /\ RowsOK /\ CallsOK /\ RoundsOK
         /\ \A p \in Procs : Expects(pc[p], got[p])
BY HostParts, Parts DEF LifeInv, CallsExpect

LEMMA NumberTypes ==
  ASSUME RowsOK, RoundsOK
  PROVE  /\ Number \in Nat
         /\ Rows # {} => Latest = lastId /\ lastId \in Rows /\ Number = sess[lastId].round
<1>1. CASE Rows = {}
  BY <1>1 DEF Number
<1>2. CASE Rows # {}
  <2>1. Latest = lastId /\ lastId \in Rows /\ lastId \in Ids
    BY <1>2, LatestIsLast DEF RoundsOK, Rows
  <2>2. sess[lastId].round \in Nat
    BY <2>1, IdTypes
  <2> QED
    BY <1>2, <2>1, <2>2 DEF Number
<1> QED
  BY <1>1, <1>2

LEMMA NumberOfTheSameRows ==
  ASSUME Rows' = Rows, Rows # {} => Latest \in Rows, \A j \in Rows : sess'[j].round = sess[j].round
  PROVE  Number' = Number
<1>1. Latest' = Latest
  BY DEF Latest
<1> QED
  BY <1>1 DEF Number

LEMMA SeenRowsStay ==
  ASSUME UNCHANGED <<room, sess>>
  PROVE  Phase' = Phase /\ Number' = Number
<1>1. Rows' = Rows /\ Live' = Live
  BY DEF Rows, Live
<1>2. Latest' = Latest
  BY <1>1 DEF Latest
<1> QED
  BY <1>1, <1>2 DEF Phase, Number

\* Between the rounds the phase is the status of the room.
LEMMA PhaseOfTheRoom ==
  ASSUME HostInv
  PROVE  /\ room.current = 0 => Phase = room.status /\ Phase \in {"WAITING", "READY"}
         /\ room.current # 0 => Phase \in {"PLAYED", "OVER"} /\ seat \in Seated
BY HostParts, Parts DEF Phase, RoomAttends, RowsOK

LEMMA PhaseAfterWrite ==
  ASSUME NEW seated \in BOOLEAN, room' = RoomWith(0, seated)
  PROVE  /\ room'.current = 0 /\ Phase' = room'.status
         /\ room'.status = IF seated THEN "READY" ELSE "WAITING"
BY DEF RoomWith, Phase

----------------------------------------------------------------------------
(* Calls.                                                                  *)

\* Only a socket that reads the seat, writes it or dies changes what is held.
LEMMA HeldStays ==
  ASSUME CallsOK, NEW p \in Procs, NEW next, NEW copy, Goto(p, next, copy),
         p \notin Sockets \/ (pc[p] # "seat.save" /\ next # "seat.save")
  PROVE  Held' = Held
<1>1. pc'[p] = next /\ \A q \in Procs \ {p} : pc'[q] = pc[q]
  BY DEF CallsOK, Goto
<1>2. \A q \in Sockets : pc'[q] = "seat.save" <=> pc[q] = "seat.save"
  BY <1>1 DEF Procs
<1> QED
  BY <1>2 DEF Held

\* One call moves; the others still find what they have seen, or there is none
\* between the rounds.
LEMMA LifeCallStep ==
  ASSUME LifeInv, NEW p \in Procs, NEW next, NEW copy, Goto(p, next, copy),
         Expects(next, copy)',
         \A q \in Procs \ {p} :
           \/ pc[q] \notin QuietPlaces
           \/ room' = room /\ Number' = Number /\ (seat \in Seated => seat' \in Seated)
  PROVE  CallsExpect'
<1>1. /\ pc'[p] = next /\ got'[p] = copy
      /\ \A q \in Procs \ {p} : pc'[q] = pc[q] /\ got'[q] = got[q]
  BY LifeParts DEF CallsOK, Goto
<1>2. ASSUME NEW q \in Procs PROVE Expects(pc[q], got[q])'
  <2>1. CASE q = p
    BY <1>1, <2>1 DEF Expects
  <2>2. CASE q # p /\ pc[q] \notin QuietPlaces
    BY <1>1, <2>2 DEF Expects, QuietPlaces
  <2>3. CASE q # p /\ pc[q] \in QuietPlaces
    <3>1. Expects(pc[q], got[q])
      BY LifeParts
    <3> QED
      BY <1>1, <2>3, <3>1 DEF Expects
  <2> QED
    BY <2>1, <2>2, <2>3
<1> QED
  BY <1>2 DEF CallsExpect

LEMMA NothingExpects == Expects("idle", NothingRead)'
BY DEF Expects

\* While the room has a round, or while the one host has another request in
\* flight, no call stands between the rounds.
LEMMA NobodyBetweenRounds ==
  ASSUME HostInv, OneHost, NEW p \in Procs, room.current # 0 \/ pc[p] \in CallerPlaces
  PROVE  \A q \in Procs \ {p} : pc[q] \notin QuietPlaces
<1>1. ASSUME NEW q \in Procs \ {p}, pc[q] \in QuietPlaces PROVE FALSE
  <2>1. room.current = 0
    BY <1>1, HostParts DEF Attends
  <2>2. \A other \in Procs \ {p} : pc[other] \in {"idle", "seat.save", "turn.commit", "due.commit"}
    BY <2>1, OthersAreNotCallers
  <2> QED
    BY <1>1, <2>2 DEF QuietPlaces
<1> QED
  BY <1>1

\* A call that only reads.
LEMMA LifeReadStep ==
  ASSUME LifeInv, NEW p \in Procs, UNCHANGED <<room, seat, sess, lastId>>,
         NEW next, NEW copy, Goto(p, next, copy), Expects(next, copy)
  PROVE  /\ UNCHANGED <<seat \in Seated, Phase, Number>>
         /\ SeatAgrees' /\ CallsExpect'
<1>1. Phase' = Phase /\ Number' = Number
  BY SeenRowsStay
<1>2. Expects(next, copy)'
  BY <1>1 DEF Expects
<1>3. CallsExpect'
  BY <1>1, <1>2, LifeCallStep
<1>4. SeatAgrees'
  BY LifeParts DEF SeatAgrees, Rows
<1> QED
  BY <1>1, <1>3, <1>4

----------------------------------------------------------------------------
(* The steps of the calls in RoomLife.                                     *)

\* The calls that read, and those that fail, except for the sockets.
LEMMA CallsReadInLife ==
  ASSUME LifeInv, NEW p \in Procs,
         \/ JoinReadsRoom(p) \/ JoinReadsSeat(p) \/ LeaveReadsRoom(p) \/ LeaveReadsSeat(p)
         \/ StartReadsRoom(p) \/ StartReadsSeat(p)
         \/ ActReadsRoom(p) \/ ActReadsSession(p) \/ ActFails(p)
         \/ VoteReadsLatest(p) \/ VoteLocks(p) \/ WorkerFails(p)
         \/ \E i \in Ids : WorkerReads(p, i) \/ DeadlineLocks(p, i)
  PROVE  [Life!Next]_SeenRoom /\ SeatAgrees' /\ CallsExpect'
<1>1. UNCHANGED <<room, seat, sess, lastId>>
  BY DEF JoinReadsRoom, JoinReadsSeat, LeaveReadsRoom, LeaveReadsSeat, StartReadsRoom,
         StartReadsSeat, ActReadsRoom, ActReadsSession, ActFails, VoteReadsLatest, VoteLocks,
         WorkerFails, Conflict, WorkerReads, DeadlineLocks
<1>2. pc[p] # "seat.save"
  BY DEF JoinReadsRoom, JoinReadsSeat, LeaveReadsRoom, LeaveReadsSeat, StartReadsRoom,
         StartReadsSeat, ActReadsRoom, ActReadsSession, ActFails, VoteReadsLatest, VoteLocks,
         WorkerFails, WorkerReads, DeadlineLocks
<1>3. SeatAgrees /\ Expects(pc[p], got[p])
  BY LifeParts
<1>4. \E next, copy : Goto(p, next, copy) /\ Expects(next, copy) /\ next # "seat.save"
  <2>1. CASE JoinReadsRoom(p) \/ JoinReadsSeat(p)
    BY <1>3, <2>1 DEF JoinReadsRoom, JoinReadsSeat, Return, Expects, SeatAgrees
  <2>2. CASE LeaveReadsRoom(p) \/ LeaveReadsSeat(p)
    BY <2>2 DEF LeaveReadsRoom, LeaveReadsSeat, Return, Expects
  <2>3. CASE StartReadsRoom(p) \/ StartReadsSeat(p)
    BY <1>3, <2>3 DEF StartReadsRoom, StartReadsSeat, Return, Expects
  <2>4. CASE ActReadsRoom(p) \/ ActReadsSession(p) \/ ActFails(p) \/ WorkerFails(p)
    BY <2>4 DEF ActReadsRoom, ActReadsSession, ActFails, WorkerFails, Conflict, Return, Expects
  <2>5. CASE VoteReadsLatest(p) \/ VoteLocks(p)
    <3>1. \E next \in {"vote.tx", "vote.commit", "idle"} : \E copy : Goto(p, next, copy)
      BY <2>5 DEF VoteReadsLatest, VoteLocks, Return
    <3>2. \A next \in {"vote.tx", "vote.commit", "idle"} : \A copy : Expects(next, copy)
      BY DEF Expects
    <3> QED
      BY <3>1, <3>2
  <2>6. CASE \E i \in Ids : WorkerReads(p, i) \/ DeadlineLocks(p, i)
    <3>1. \E next \in {"turn.commit", "due.commit"} : \E copy : Goto(p, next, copy)
      BY <2>6 DEF WorkerReads, DeadlineLocks
    <3>2. \A next \in {"turn.commit", "due.commit"} : \A copy : Expects(next, copy)
      BY DEF Expects
    <3> QED
      BY <3>1, <3>2
  <2> QED
    BY <2>1, <2>2, <2>3, <2>4, <2>5, <2>6
<1>5. Held' = Held
  BY <1>2, <1>4, LifeParts, HeldStays
<1> QED
  BY <1>1, <1>4, <1>5, LifeReadStep DEF SeenRoom

LEMMA StartReadsInLife ==
  ASSUME LifeInv, NEW p \in Procs, StartReadsLatest(p)
  PROVE  [Life!Next]_SeenRoom /\ SeatAgrees' /\ CallsExpect'
<1> DEFINE next == IF Rows = {} THEN 1 ELSE sess[Latest].round + 1
           copy == [NothingRead EXCEPT !.round = next]
<1>1. next = Number + 1
  BY DEF Number
<1>2. Goto(p, "start.commit", copy) /\ UNCHANGED <<room, seat, sess, lastId>>
      /\ pc[p] = "start.latest"
  BY DEF StartReadsLatest
<1>3. copy.round = next
  BY DEF NothingRead
<1> HIDE DEF copy, next
<1>4. Expects("start.commit", copy)
  <2>1. Expects(pc[p], got[p])
    BY LifeParts
  <2> QED
    BY <1>1, <1>2, <1>3, <2>1 DEF Expects
<1>5. Held' = Held
  BY <1>2, LifeParts, HeldStays
<1> QED
  BY <1>2, <1>4, <1>5, LifeReadStep DEF SeenRoom

\* A socket reads the seat of a seated host; any call may die.
LEMMA SocketReadsInLife ==
  ASSUME LifeInv, NEW p \in Sockets, SocketReads(p)
  PROVE  Life!Next /\ SeatAgrees' /\ CallsExpect'
<1>1. p \in Procs /\ UNCHANGED <<room, seat, sess, lastId>> /\ seat \in Seated
  BY DEF SocketReads, Procs
<1>2. PICK copy : Goto(p, "seat.save", copy)
  BY DEF SocketReads
<1>3. Held'
  <2>1. pc'[p] = "seat.save"
    BY <1>1, <1>2, LifeParts DEF CallsOK, Goto
  <2> QED
    BY <2>1 DEF Held
<1>4. Expects("seat.save", copy)
  BY DEF Expects
<1>5. UNCHANGED <<seat \in Seated, Phase, Number>> /\ SeatAgrees' /\ CallsExpect'
  BY <1>1, <1>2, <1>4, LifeReadStep
<1> QED
  BY <1>1, <1>3, <1>5 DEF Life!Next, Life!SocketReads, Seated

LEMMA DeathsInLife ==
  ASSUME LifeInv, NEW p \in Procs, CallDies(p)
  PROVE  [Life!Next]_SeenRoom /\ SeatAgrees' /\ CallsExpect'
<1>1. Goto(p, "idle", NothingRead) /\ UNCHANGED <<room, seat, sess, lastId>>
  BY DEF CallDies, Return
<1>2. Expects("idle", NothingRead)
  BY DEF Expects
<1>3. UNCHANGED <<seat \in Seated, Phase, Number>> /\ SeatAgrees' /\ CallsExpect'
  BY <1>1, <1>2, LifeReadStep
<1>4. CASE p \in Sockets /\ pc[p] = "seat.save"
  <2>1. Held /\ Held' \in BOOLEAN
    BY <1>4 DEF Held
  <2> QED
    BY <1>3, <2>1 DEF Life!Next, Life!SocketEnds
<1>5. CASE ~(p \in Sockets /\ pc[p] = "seat.save")
  <2>1. Held' = Held
    BY <1>1, <1>5, LifeParts, HeldStays
  <2> QED
    BY <1>3, <2>1 DEF SeenRoom
<1> QED
  BY <1>3, <1>4, <1>5

LEMMA SocketSavesInLife ==
  ASSUME LifeInv, NEW p \in Sockets, SocketSaves(p)
  PROVE  Life!Next /\ SeatAgrees' /\ CallsExpect'
<1>1. /\ p \in Procs /\ UNCHANGED <<room, sess, lastId>> /\ seat' = got[p].seat
      /\ pc[p] = "seat.save" /\ Goto(p, "idle", NothingRead)
  BY DEF SocketSaves, Procs, Return
<1>2. seat' \in Seated
  <2>1. Attends(pc[p], got[p])
    BY <1>1, LifeParts, HostParts
  <2> QED
    BY <1>1, <2>1 DEF Attends
<1>3. Phase' = Phase /\ Number' = Number
  BY <1>1, SeenRowsStay
<1>4. CallsExpect'
  BY <1>1, <1>2, <1>3, NothingExpects, LifeCallStep
<1>5. SeatAgrees'
  BY <1>1, <1>2, LifeParts DEF SeatAgrees, Rows, Seated
<1>6. Held /\ Held' \in BOOLEAN
  BY <1>1 DEF Held
<1>7. (seat \in Seated)' \in {(seat \in Seated), TRUE}
  BY <1>2 DEF Seated
<1> QED
  BY <1>3, <1>4, <1>5, <1>6, <1>7 DEF Life!Next, Life!SocketEnds

\* The host joins or leaves a room that has no round.
LEMMA SeatsInLife ==
  ASSUME LifeInv, OneHost, NEW p \in Procs, JoinCommits(p) \/ LeaveCommits(p)
  PROVE  [Life!Next]_SeenRoom /\ SeatAgrees' /\ CallsExpect'
<1>1. /\ UNCHANGED <<sess, lastId>> /\ pc[p] \in {"join.commit", "leave.commit"}
      /\ Goto(p, "idle", NothingRead) /\ HostInv /\ SeatAgrees
  BY LifeParts DEF JoinCommits, LeaveCommits, Return
<1>2. room.current = 0 /\ Phase = room.status /\ Phase \in {"WAITING", "READY"}
  <2>1. Attends(pc[p], got[p])
    BY <1>1, HostParts
  <2> QED
    BY <1>1, <2>1, PhaseOfTheRoom DEF Attends, QuietPlaces
<1>3. Number' = Number
  <2>1. Rows' = Rows
    BY <1>1 DEF Rows
  <2> QED
    BY <1>1, <2>1, NumberOfTheSameRows, NumberTypes, LifeParts
<1>4. Held' = Held
  BY <1>1, LifeParts, HeldStays
<1>5. CallsExpect'
  <2>1. pc[p] \in CallerPlaces
    BY <1>1 DEF CallerPlaces, Places
  <2> QED
    BY <1>1, <2>1, NobodyBetweenRounds, NothingExpects, LifeCallStep
<1>6. Expects(pc[p], got[p])
  BY LifeParts
<1>7. CASE UNCHANGED <<room, seat>>
  <2>1. Phase' = Phase
    BY <1>1, <1>7, SeenRowsStay
  <2>2. SeatAgrees'
    BY <1>1, <1>7 DEF SeatAgrees, Rows
  <2> QED
    BY <1>3, <1>4, <1>5, <1>7, <2>1, <2>2 DEF SeenRoom
<1>8. CASE JoinCommits(p) /\ room' = RoomWith(0, TRUE) /\ seat' = "ACTIVE"
  <2>1. Phase = "WAITING"
    BY <1>2, <1>6, <1>8 DEF JoinCommits, Expects
  <2>2. Phase' = "READY"
    BY <1>8, PhaseAfterWrite
  <2>3. SeatAgrees'
    BY <1>1, <1>8 DEF SeatAgrees, Rows, Seated
  <2> QED
    BY <1>3, <1>4, <1>5, <1>8, <2>1, <2>2, <2>3 DEF Life!Next, Life!Join, Seated
<1>9. CASE LeaveCommits(p)
  <2>1. seat \in Seated
    BY <1>6, <1>9 DEF LeaveCommits, Expects
  <2>2. seat' = "LEFT" /\ room' = RoomWith(0, FALSE)
    BY <1>9 DEF LeaveCommits
  <2>3. Phase' = "WAITING" /\ room'.status = "WAITING"
    BY <2>2, PhaseAfterWrite
  <2>4. SeatAgrees'
    BY <1>1, <2>3 DEF SeatAgrees, Rows
  <2> QED
    BY <1>2, <1>3, <1>4, <1>5, <2>1, <2>2, <2>3, <2>4 DEF Life!Next, Life!Leave, Seated
<1> QED
  BY <1>7, <1>8, <1>9 DEF JoinCommits

\* The round in play is played on, or ends.
LEMMA PlaysInLife ==
  ASSUME LifeInv, OneHost, NEW p \in Procs,
         ActCommits(p) \/ WorkerEndsRound(p) \/ WorkerDraws(p)
  PROVE  [Life!Next]_SeenRoom /\ SeatAgrees' /\ CallsExpect'
<1> DEFINE i == got[p].id
<1>1. /\ i \in Live /\ Played(i) /\ UNCHANGED <<seat, lastId>>
      /\ room' \in {room, RoomWith(i, TRUE)} /\ RowsOK /\ RoundsOK /\ HostInv
  BY LifeParts, HostParts, Parts, PlayMoves
<1>2. i = room.current /\ room'.current = i /\ i # 0 /\ i \in Ids
  <2>1. i = room.current /\ i \in Ids
    BY <1>1, HostParts DEF RoomAttends, Live, Rows
  <2> QED
    BY <1>1, <2>1, RoomWithCurrent, IdTypes
<1>3. Rows' = Rows /\ \A j \in Rows : sess'[j].round = sess[j].round
  BY <1>1, <1>2 DEF Played, SameElsewhere, Live, Rows
<1>4. Number' = Number
  BY <1>1, <1>3, NumberOfTheSameRows, NumberTypes
<1>5. Phase = "PLAYED" /\ Phase' \in {"PLAYED", "OVER"}
  BY <1>1, <1>2 DEF Phase
<1>6. pc[p] # "seat.save" /\ Goto(p, "idle", NothingRead)
  BY DEF ActCommits, WorkerEndsRound, WorkerDraws, Return
<1>7. Held' = Held
  BY <1>6, LifeParts, HeldStays
<1>8. CallsExpect'
  BY <1>1, <1>2, <1>6, NobodyBetweenRounds, NothingExpects, LifeCallStep
<1>9. SeatAgrees'
  <2>1. seat \in Seated
    BY <1>1, <1>2, PhaseOfTheRoom
  <2> QED
    BY <1>1, <1>3, <2>1, LifeParts DEF SeatAgrees, Seated
<1> QED
  BY <1>1, <1>4, <1>5, <1>7, <1>8, <1>9 DEF SeenRoom, Life!Next, Life!End

\* The number of the round that is opened last.
LEMMA NumberAfterOpen ==
  ASSUME RowsOK, RoundsOK, NEW after \in {0} \cup Rows, NEW r, Opened(after, r)
  PROVE  Number' = r
<1>1. /\ lastId + 1 \in Ids /\ lastId \in Nat /\ sess'[lastId + 1].status # "NONE"
      /\ sess'[lastId + 1].round = r
  BY IdTypes DEF Opened, Ids, AfterDeal
<1>2. lastId + 1 \in Rows'
  BY <1>1 DEF Rows
<1>3. ASSUME NEW j \in Rows' PROVE j \in Nat /\ j <= lastId + 1
  <2>1. j \in Ids /\ sess'[j].status # "NONE" /\ j \in Nat
    BY IdTypes DEF Rows
  <2>2. CASE j \in {after, lastId + 1}
    BY <1>1, <2>1, <2>2, RowsAreCreated, IdTypes
  <2>3. CASE j \notin {after, lastId + 1}
    <3>1. j \in Rows
      BY <2>1, <2>3 DEF Opened, SameElsewhere, Rows
    <3> QED
      BY <1>1, <2>1, <3>1, RowsAreCreated
  <2> QED
    BY <2>2, <2>3
<1>4. \A i \in Rows' : (\A j \in Rows' : j <= i) => i = lastId + 1
  BY <1>1, <1>2, <1>3
<1>5. Latest' = CHOOSE i \in Rows' : \A j \in Rows' : j <= i
  BY <1>2 DEF Latest
<1>6. Latest' = lastId + 1
  BY <1>2, <1>3, <1>4, <1>5
<1> QED
  BY <1>1, <1>2, <1>6 DEF Number

\* Rounds are opened with a number of at least 1.
LEMMA OpensCount ==
  ASSUME RowsOK, RoundsOK, SeatAgrees, NEW after \in {0} \cup Rows, NEW r, Opened(after, r)
  PROVE  \A j \in Rows' : sess'[j].round >= 1
<1>1. ASSUME NEW j \in Rows' PROVE sess'[j].round >= 1
  <2>1. j \in Ids /\ sess'[j].status # "NONE"
    BY <1>1 DEF Rows
  <2>2. CASE j = lastId + 1
    BY <2>2 DEF Opened
  <2>3. CASE j = after
    BY <2>1, <2>3, IdTypes DEF Opened, SeatAgrees
  <2>4. CASE j \notin {after, lastId + 1}
    <3>1. sess'[j] = sess[j]
      BY <2>1, <2>4 DEF Opened, SameElsewhere
    <3> QED
      BY <2>1, <3>1 DEF Rows, SeatAgrees
  <2> QED
    BY <2>2, <2>3, <2>4
<1> QED
  BY <1>1

\* A round is opened for a seated host while none is live.
LEMMA OpensInLife ==
  ASSUME LifeInv, NEW after \in {0} \cup Rows, NEW r, Opened(after, r), r = Number + 1,
         room' = RoomWith(lastId + 1, TRUE), UNCHANGED seat, Live = {}, seat \in Seated,
         room.status = "READY" \/ Rows # {}, Held' = Held
  PROVE  Life!Next /\ SeatAgrees'
<1>1. RowsOK /\ RoundsOK /\ lastId \in Nat /\ HostInv /\ SeatAgrees
  BY LifeParts, IdTypes
<1>2. Number' = Number + 1
  BY <1>1, NumberAfterOpen
<1>3. Phase \in {"READY", "OVER"} \/ (Phase = "WAITING" /\ Number > 0)
  <2>1. CASE room.current # 0
    BY <2>1 DEF Phase
  <2>2. CASE room.current = 0 /\ Rows # {}
    <3>1. Number > 0
      BY <1>1, <2>2, NumberTypes DEF SeatAgrees
    <3> QED
      BY <1>1, <2>2, <3>1, PhaseOfTheRoom
  <2>3. CASE room.current = 0 /\ room.status = "READY"
    BY <1>1, <2>3, PhaseOfTheRoom
  <2> QED
    BY <2>1, <2>2, <2>3
<1>4. Phase' = "PLAYED"
  <2>1. room'.current = lastId + 1
    BY RoomWithCurrent
  <2>2. lastId + 1 \in Live'
    BY <1>1, IdTypes DEF Opened, AfterDeal, Live, Rows, Ids
  <2>3. lastId + 1 # 0
    BY <1>1
  <2> QED
    BY <2>1, <2>2, <2>3 DEF Phase
<1>5. SeatAgrees'
  BY <1>1, OpensCount DEF SeatAgrees, Seated
<1> QED
  BY <1>2, <1>3, <1>4, <1>5 DEF Life!Next, Life!Deal, Seated

LEMMA StartsInLife ==
  ASSUME LifeInv, OneHost, NEW p \in Procs, StartCommits(p)
  PROVE  [Life!Next]_SeenRoom /\ SeatAgrees' /\ CallsExpect'
<1>0. /\ HostInv /\ RoomInv /\ pc[p] = "start.commit" /\ Expects(pc[p], got[p])
      /\ Goto(p, "idle", NothingRead)
  BY LifeParts, HostParts DEF StartCommits, Return
<1>1. \/ UNCHANGED <<room, sess, lastId>>
      \/ Opened(0, got[p].round) /\ room' = RoomWith(lastId + 1, TRUE)
  BY <1>0, StartMoves
<1>2. UNCHANGED seat
  BY <1>0, StartMoves
<1>3. Held' = Held
  BY <1>0, LifeParts, HeldStays
<1>4. CallsExpect'
  <2>1. pc[p] \in CallerPlaces
    BY <1>0 DEF CallerPlaces, Places
  <2> QED
    BY <1>0, <2>1, NobodyBetweenRounds, NothingExpects, LifeCallStep
<1>5. CASE UNCHANGED <<room, sess, lastId>>
  <2>1. SeatAgrees'
    BY <1>2, <1>5, LifeParts DEF SeatAgrees, Rows
  <2> QED
    BY <1>2, <1>3, <1>4, <1>5, <2>1, SeenRowsStay DEF SeenRoom
<1>6. CASE Opened(0, got[p].round) /\ room' = RoomWith(lastId + 1, TRUE)
  <2>1. room.current = 0 /\ seat \in Seated
    BY <1>0, HostParts DEF Attends, QuietPlaces, SeatedPlaces
  <2>2. Live = {}
    BY <1>0, <2>1, HostParts, Parts, IdTypes DEF RoomAttends, Live, Rows
  <2>3. room.status = "READY" /\ got[p].round = Number + 1
    BY <1>0 DEF Expects
  <2> QED
    BY <1>2, <1>3, <1>4, <1>6, <2>1, <2>2, <2>3, OpensInLife
<1> QED
  BY <1>1, <1>5, <1>6

LEMMA ClosesInLife ==
  ASSUME LifeInv, OneHost, NEW p \in Procs, VoteCommits(p) \/ DeadlineCommits(p)
  PROVE  [Life!Next]_SeenRoom /\ SeatAgrees' /\ CallsExpect'
<1> DEFINE i == got[p].id
           r == sess[i].round + 1
<1>1. /\ HoldsLock(p) /\ UNCHANGED seat /\ RowsOK /\ RoundsOK /\ HostInv /\ SeatAgrees
      /\ \/ UNCHANGED <<room, sess, lastId>>
         \/ Noted(i) /\ room' = RoomWith(0, seat \in Seated)
         \/ Opened(i, r) /\ room' = RoomWith(lastId + 1, TRUE)
  BY LifeParts, HostParts, Parts, ClosesWith, CloseMoves
<1>2. /\ i = lastId /\ i \in Rows /\ i \notin Live /\ seat \in Seated /\ Live = {}
      /\ \A q \in Procs \ {p} : pc[q] \notin QuietPlaces
  BY <1>1, ClosesTheLatest
<1>3. r = Number + 1 /\ Number > 0
  BY <1>1, <1>2, NumberTypes DEF SeatAgrees
<1>4. Goto(p, "idle", NothingRead) /\ pc[p] # "seat.save"
  BY DEF VoteCommits, DeadlineCommits, Return
<1>5. Held' = Held
  BY <1>4, LifeParts, HeldStays
<1>6. CallsExpect'
  BY <1>2, <1>4, NothingExpects, LifeCallStep
<1>7. CASE UNCHANGED <<room, sess, lastId>>
  <2>1. SeatAgrees'
    BY <1>1, <1>7 DEF SeatAgrees, Rows
  <2> QED
    BY <1>1, <1>5, <1>6, <1>7, <2>1, SeenRowsStay DEF SeenRoom
<1>8. CASE Noted(i) /\ room' = RoomWith(0, seat \in Seated)
  <2>1. \A j \in Ids : sess'[j].status = sess[j].status /\ sess'[j].round = sess[j].round
    BY <1>8 DEF Noted, SameElsewhere
  <2>2. Number' = Number
    BY <1>1, <2>1, NumberOfTheSameRows, NumberTypes DEF Rows
  <2>3. Phase \in {"WAITING", "READY", "OVER"}
    BY <1>1, <1>2, PhaseOfTheRoom DEF Phase
  <2>4. Phase' = "READY"
    BY <1>2, <1>8, PhaseAfterWrite
  <2>5. SeatAgrees'
    BY <1>1, <1>2, <2>1 DEF SeatAgrees, Rows, Seated
  <2>6. CASE Phase = "READY"
    BY <1>1, <1>5, <1>6, <2>2, <2>4, <2>5, <2>6 DEF SeenRoom
  <2>7. CASE Phase \in {"WAITING", "OVER"}
    BY <1>1, <1>2, <1>3, <1>5, <1>6, <2>2, <2>4, <2>5, <2>7 DEF Life!Next, Life!Release
  <2> QED
    BY <2>3, <2>6, <2>7
<1>9. CASE Opened(i, r) /\ room' = RoomWith(lastId + 1, TRUE)
  BY <1>1, <1>2, <1>3, <1>5, <1>6, <1>9, OpensInLife
<1> QED
  BY <1>1, <1>7, <1>8, <1>9

LEMMA ResetsInLife ==
  ASSUME LifeInv, OneHost, NEW p \in Callers, Resets(p)
  PROVE  Life!Next /\ SeatAgrees' /\ CallsExpect'
<1>1. /\ room' = RoomWith(0, FALSE) /\ seat' = "NONE" /\ sess' = [i \in Ids |-> NoRow]
      /\ UNCHANGED <<pc, got>> /\ pc[p] = "idle" /\ p \in Procs /\ HostInv
  BY LifeParts DEF Resets, Procs
<1>2. Rows' = {}
  BY <1>1 DEF Rows, NoRow
<1>3. Number' = 0 /\ Phase' = "WAITING" /\ room'.status = "WAITING" /\ seat' \notin Seated
  BY <1>1, <1>2, PhaseAfterWrite DEF Number, Seated
<1>4. SeatAgrees'
  BY <1>2, <1>3 DEF SeatAgrees
<1>5. CallsExpect'
  <2>1. \A q \in Procs : pc[q] \in {"idle", "seat.save", "turn.commit", "due.commit"}
    BY <1>1, OthersAreNotCallers
  <2> QED
    BY <1>1, <2>1 DEF CallsExpect, Expects
<1>6. Held' = Held
  BY <1>1 DEF Held
<1> QED
  BY <1>3, <1>4, <1>5, <1>6 DEF Life!Next, Life!Reset

LEMMA DuesInLife ==
  ASSUME LifeInv, NEW i \in Ids, RematchFallsDue(i)
  PROVE  UNCHANGED SeenRoom /\ SeatAgrees' /\ CallsExpect'
<1>1. /\ sess' = [sess EXCEPT ![i].due = "past"] /\ RowsOK /\ RoundsOK /\ SeatAgrees
      /\ UNCHANGED <<room, seat, pc, got>>
  BY LifeParts DEF RematchFallsDue
<1>2. \A j \in Ids : sess'[j].status = sess[j].status /\ sess'[j].round = sess[j].round
  BY <1>1 DEF RowsOK, Session
<1>3. Rows' = Rows /\ Live' = Live /\ Rows \subseteq Ids
  BY <1>2 DEF Rows, Live
<1>4. Number' = Number
  BY <1>1, <1>2, <1>3, NumberOfTheSameRows, NumberTypes
<1>5. Phase' = Phase /\ Held' = Held
  BY <1>1, <1>3 DEF Phase, Held
<1>6. SeatAgrees'
  BY <1>1, <1>2, <1>3 DEF SeatAgrees
<1>7. CallsExpect'
  BY <1>1, <1>4, LifeParts DEF CallsExpect, Expects
<1> QED
  BY <1>1, <1>4, <1>5, <1>6, <1>7 DEF SeenRoom

LEMMA LifeStep ==
  ASSUME OneHost, LifeInv, [Next]_vars
  PROVE  [Life!Next]_SeenRoom /\ SeatAgrees' /\ CallsExpect'
<1>2. Callers \subseteq Procs /\ Workers \subseteq Procs
  BY DEF Procs
<1>3. CASE UNCHANGED vars
  <2>1. Phase' = Phase /\ Number' = Number /\ Held' = Held
    BY <1>3, SeenRowsStay DEF vars, Held
  <2> QED
    BY <1>3, <2>1, LifeParts DEF vars, SeenRoom, SeatAgrees, CallsExpect, Expects, Rows
<1>4. ASSUME NEW p \in Callers, CallerStep(p)
      PROVE  [Life!Next]_SeenRoom /\ SeatAgrees' /\ CallsExpect'
  BY <1>2, <1>4, CallsReadInLife, StartReadsInLife, SeatsInLife, StartsInLife, PlaysInLife,
     ClosesInLife, ResetsInLife DEF CallerStep
<1>5. ASSUME NEW p \in Sockets, SocketReads(p) \/ SocketSaves(p)
      PROVE  [Life!Next]_SeenRoom /\ SeatAgrees' /\ CallsExpect'
  BY <1>5, SocketReadsInLife, SocketSavesInLife
<1>6. ASSUME NEW w \in Workers, WorkerStep(w)
      PROVE  [Life!Next]_SeenRoom /\ SeatAgrees' /\ CallsExpect'
  BY <1>2, <1>6, CallsReadInLife, PlaysInLife, ClosesInLife DEF WorkerStep
<1>7. ASSUME NEW i \in Ids, RematchFallsDue(i)
      PROVE  [Life!Next]_SeenRoom /\ SeatAgrees' /\ CallsExpect'
  BY <1>7, DuesInLife
<1>8. ASSUME NEW p \in Procs, CallDies(p)
      PROVE  [Life!Next]_SeenRoom /\ SeatAgrees' /\ CallsExpect'
  BY <1>8, DeathsInLife
<1> QED
  BY <1>3, <1>4, <1>5, <1>6, <1>7, <1>8 DEF Next

LEMMA InitLife == Init => LifeInv /\ Life!Init
<1> SUFFICES ASSUME Init PROVE LifeInv /\ Life!Init
  OBVIOUS
<1>1. HostInv
  BY InitHostInv
<1>2. Rows = {}
  BY DEF Init, Rows, NoRow
<1>3. SeatAgrees /\ CallsExpect
  BY <1>2 DEF Init, SeatAgrees, CallsExpect, Expects
<1>4. ~Held
  BY DEF Init, Held, Procs
<1>5. Life!Init
  BY <1>2, <1>4 DEF Init, Life!Init, Phase, Number, Seated
<1> QED
  BY <1>1, <1>3, <1>5 DEF LifeInv

\* When the requests of the host do not overlap, a room is what RoomLife says:
\* each of them takes effect at one instant, joins and leaves come between the
\* rounds, and rounds are dealt one after another to a seated host and counted
\* from the last reset, for any number of rounds, sockets and workers and
\* whichever calls die half way. A leave or a reset is undone by a socket that
\* had read the seat before and by nothing else, and the room stays WAITING then.
THEOREM RoomsLiveByTheRules ==
  ASSUME OneHost
  PROVE  Spec => RequestsAreAtomic
<1>1. Init => LifeInv /\ Life!Init
  BY InitLife
<1>2. LifeInv /\ [Next]_vars => LifeInv'
  BY HostInvKept, LifeStep DEF LifeInv
<1>3. LifeInv /\ [Next]_vars => [Life!Next]_(Life!vars)
  BY LifeStep DEF SeenRoom, Life!vars
<1> QED
  BY <1>1, <1>2, <1>3, PTL DEF Spec, RequestsAreAtomic, Life!Spec
=============================================================================
