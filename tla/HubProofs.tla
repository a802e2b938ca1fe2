----------------------------- MODULE HubProofs -----------------------------
(***************************************************************************)
(* What holds of the hub, for any number of connections and instances.     *)
(* Connections and RoomSync only add to the actions of Hub, so that what   *)
(* is proved here holds of them (see ConnectionsProofs, RoomSyncProofs).   *)
(***************************************************************************)
EXTENDS Hub, TLAPS

\* The stage of a connection moves on its own.
LEMMA MovesKeepsTypes ==
  ASSUME NEW c \in Conns, NEW from, NEW to \in Stage,
         stage \in [Conns -> Stage], Moves(c, from, to)
  PROVE  /\ stage' \in [Conns -> Stage]
         /\ stage[c] = from /\ stage'[c] = to
         /\ \A d \in Conns : d # c => stage'[d] = stage[d]
BY DEF Moves

\* What a step of c does to the stages: to its own at most, which enters the
\* loop only by Enter.
LEMMA StagesOfAStep ==
  ASSUME HubTypeOK, NEW c \in Conns, HubStep(c)
  PROVE  /\ stage' \in [Conns -> Stage]
         /\ \A d \in Conns : d # c => stage'[d] = stage[d]
         /\ InLoop(c)' => InLoop(c) \/ Enter(c)
<1> USE MovesKeepsTypes DEF HubTypeOK, Stage, InLoop
<1>1. CASE Upgrade(c) BY <1>1 DEF Upgrade
<1>2. CASE Reject(c) BY <1>2 DEF Reject
<1>3. CASE Enter(c) BY <1>3 DEF Enter
<1>4. CASE CloseDoomed(c) BY <1>4 DEF CloseDoomed
<1>5. CASE Proceed(c)
  <2>1. CASE Moves(c, "opening", "listening") BY <2>1
  <2>2. CASE Moves(c, "handling", "listening") BY <2>2
  <2> QED BY <1>5, <2>1, <2>2 DEF Proceed
<1>6. CASE Accept(c) BY <1>6 DEF Accept
<1>7. CASE Refuse(c) BY <1>7 DEF Refuse
<1>8. CASE SocketEnds(c) BY <1>8 DEF SocketEnds
<1>9. CASE Leave(c) BY <1>9 DEF Leave
<1>10. CASE FailedWrite(c) BY <1>10 DEF FailedWrite
<1>11. CASE Drop(c) BY <1>11 DEF Drop
<1> QED BY <1>1, <1>2, <1>3, <1>4, <1>5, <1>6, <1>7, <1>8, <1>9, <1>10, <1>11 DEF HubStep

\* What a step does to the maps of the hub: it enters c, removes c, or leaves
\* them as they are.
LEMMA MapsOfAStep ==
  ASSUME NEW c \in Conns, HubStep(c)
  PROVE  Enter(c) \/ RemovedFromHub(c) \/ UNCHANGED <<rooms, latest>>
BY DEF HubStep, Upgrade, Reject, CloseDoomed, Proceed, Accept, Refuse, SocketEnds,
       Leave, FailedWrite, Drop

\* Type correctness of the hub.
LEMMA HubTypesKept == HubTypeOK /\ [HubNext]_hubVars => HubTypeOK'
<1> SUFFICES ASSUME HubTypeOK, [HubNext]_hubVars PROVE HubTypeOK'
  OBVIOUS
<1>1. CASE UNCHANGED hubVars BY <1>1 DEF hubVars, HubTypeOK
<1>2. ASSUME NEW c \in Conns, HubStep(c) PROVE HubTypeOK'
  <2>1. stage' \in [Conns -> Stage] BY <1>2, StagesOfAStep
  <2>2. /\ rooms' \in [Servers -> SUBSET Conns]
        /\ latest' \in [Servers -> Conns \cup {NoConn}]
    <3>1. CASE Enter(c)
      BY <3>1 DEF Enter, ServedAfterAdd, HubTypeOK
    <3>2. CASE RemovedFromHub(c)
      BY <3>2 DEF RemovedFromHub, LatestAfterRemove, HubTypeOK
    <3>3. CASE UNCHANGED <<rooms, latest>> BY <3>3 DEF HubTypeOK
    <3> QED BY <1>2, <3>1, <3>2, <3>3, MapsOfAStep
  <2>3. server' = server /\ open' \subseteq Conns /\ doomed' \subseteq Conns
    BY <1>2 DEF HubStep, Upgrade, Reject, Enter, OldOf, CloseDoomed, Proceed, Accept,
       Refuse, SocketEnds, Leave, FailedWrite, Drop, HubTypeOK
  <2> QED BY <2>1, <2>2, <2>3 DEF HubTypeOK
<1> QED BY <1>1, <1>2 DEF HubNext

\* Every variable of the hub has its type.
THEOREM HubTypeCorrect == HubSpec => []HubTypeOK
<1>1. HubInit => HubTypeOK BY DEF HubInit, HubTypeOK, Stage
<1> QED BY <1>1, HubTypesKept, PTL DEF HubSpec

\* The two maps agree: an instance serves the latest connection and no other
\* (HubServesTheLatest), by hub.add and hub.remove in any order.
THEOREM LatestIsServed == HubSpec => []HubServesTheLatest
<1>1. HubInit => HubServesTheLatest BY DEF HubInit, HubServesTheLatest
<1>2. HubTypeOK /\ HubServesTheLatest /\ [HubNext]_hubVars => HubServesTheLatest'
  <2> SUFFICES ASSUME HubTypeOK, HubServesTheLatest, [HubNext]_hubVars
               PROVE  HubServesTheLatest'
    OBVIOUS
  <2>1. CASE UNCHANGED hubVars BY <2>1 DEF hubVars, HubServesTheLatest
  <2>2. ASSUME NEW c \in Conns, HubStep(c) PROVE HubServesTheLatest'
    <3> SUFFICES ASSUME NEW s \in Servers PROVE rooms'[s] = {latest'[s]} \ {NoConn}
      BY DEF HubServesTheLatest
    <3>0. rooms[s] = {latest[s]} \ {NoConn} BY DEF HubServesTheLatest
    <3>1. CASE Enter(c)
      BY <3>0, <3>1, ConnsAssumption DEF Enter, ServedAfterAdd, HubTypeOK
    <3>2. CASE RemovedFromHub(c)
      BY <3>0, <3>2, ConnsAssumption DEF RemovedFromHub, LatestAfterRemove, HubTypeOK
    <3>3. CASE UNCHANGED <<rooms, latest>> BY <3>0, <3>3
    <3> QED BY <2>2, <3>1, <3>2, <3>3, MapsOfAStep
  <2> QED BY <2>1, <2>2 DEF HubNext
<1> QED BY <1>1, <1>2, HubTypeCorrect, PTL DEF HubSpec

\* No connection is deaf (NobodyIsDeaf): one that leaves the maps of its hub is
\* in the hands of somebody who closes it.
THEOREM EverybodyIsServedOrClosed == HubSpec => []NobodyIsDeaf
<1>1. HubInit => NobodyIsDeaf BY DEF HubInit, NobodyIsDeaf
<1>2. HubTypeOK /\ NobodyIsDeaf /\ [HubNext]_hubVars => NobodyIsDeaf'
  <2> SUFFICES ASSUME HubTypeOK, NobodyIsDeaf, [HubNext]_hubVars
               PROVE  NobodyIsDeaf'
    OBVIOUS
  <2>1. CASE UNCHANGED hubVars BY <2>1 DEF hubVars, NobodyIsDeaf, InLoop
  <2>2. ASSUME NEW c \in Conns, HubStep(c) PROVE NobodyIsDeaf'
    <3> SUFFICES ASSUME NEW d \in Conns, d \in open', InLoop(d)'
                 PROVE  d \in rooms'[server'[d]] \cup doomed'
      <4>1. HubTypeOK' BY HubTypesKept
      <4> QED BY <4>1 DEF NobodyIsDeaf, HubTypeOK
    <3>1. server' = server /\ server[d] \in Servers
      BY <2>2 DEF HubStep, Upgrade, Reject, Enter, CloseDoomed, Proceed, Accept, Refuse,
         SocketEnds, Leave, FailedWrite, Drop, HubTypeOK
    <3>2. CASE Enter(c)
      <4>1. CASE d = c
        BY <3>1, <3>2, <4>1 DEF Enter, ServedAfterAdd, HubTypeOK
      <4>2. CASE d # c
        <5>1. InLoop(d) /\ d \in open
          BY <2>2, <3>2, <4>2, StagesOfAStep DEF InLoop, Enter
        <5>2. d \in rooms[server[d]] \cup doomed BY <5>1 DEF NobodyIsDeaf
        <5> QED BY <3>1, <3>2, <5>2, ConnsAssumption
                DEF Enter, ServedAfterAdd, OldOf, HubTypeOK
      <4> QED BY <4>1, <4>2
    <3>3. CASE ~Enter(c)
      <4>1. InLoop(d) BY <2>2, <3>3, StagesOfAStep DEF InLoop
      <4>2. d # c \/ ~Upgrade(c)
        <5>1. Upgrade(c) => ~InLoop(c)
          BY DEF Upgrade, Moves, InLoop
        <5> QED BY <4>1, <5>1
      <4>3. d \in open
        BY <2>2, <3>3, <4>2 DEF HubStep, Upgrade, Reject, CloseDoomed, Proceed, Accept,
           Refuse, SocketEnds, Leave, FailedWrite, Drop
      <4>4. d \in rooms[server[d]] \cup doomed BY <4>1, <4>3 DEF NobodyIsDeaf
      <4>5. CASE d = c
        BY <2>2, <3>1, <3>3, <4>1, <4>4, <4>5 DEF HubStep, Upgrade, Reject, CloseDoomed,
           Proceed, Accept, Refuse, SocketEnds, Leave, FailedWrite, Drop
      <4>6. CASE d # c
        <5>1. d \in doomed => d \in doomed'
          BY <2>2, <3>3, <4>6 DEF HubStep, Upgrade, Reject, CloseDoomed, Proceed, Accept,
             Refuse, SocketEnds, Leave, FailedWrite, Drop
        <5>2. d \in rooms[server[d]] => d \in rooms'[server[d]]
          BY <2>2, <3>1, <3>3, <4>6, MapsOfAStep DEF RemovedFromHub, HubTypeOK
        <5> QED BY <3>1, <4>4, <5>1, <5>2
      <4> QED BY <4>5, <4>6
    <3> QED BY <3>2, <3>3
  <2> QED BY <2>1, <2>2 DEF HubNext
<1> QED BY <1>1, <1>2, HubTypeCorrect, PTL DEF HubSpec
=============================================================================
