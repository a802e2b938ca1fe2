------------------------- MODULE ConnectionsProofs -------------------------
(***************************************************************************)
(* Connections implements Hub: the handlers, access by access, do to the   *)
(* hub what Hub says and nothing else.                                     *)
(***************************************************************************)
EXTENDS Connections, HubProofs

\* Each step of a handler is a step of the hub or leaves the hub alone.
LEMMA ConnStepsAreHubSteps ==
  ASSUME NEW c \in Conns, ConnStep(c)
  PROVE  HubStep(c) \/ UNCHANGED hubVars
<1>1. CASE Arrive(c) BY <1>1 DEF Arrive, HubStep
<1>2. CASE TakeEpoch(c) \/ AnnounceEpoch(c) \/ ReadSeat(c) \/ SaveConnected(c)
  BY <1>2 DEF TakeEpoch, AnnounceEpoch, ReadSeat, SaveConnected
<1>3. CASE OpeningFails(c) BY <1>3 DEF OpeningFails, HubStep
<1>4. CASE EnterHub(c) BY <1>4 DEF EnterHub, HubStep
<1>5. CASE Handled(c) BY <1>5 DEF Handled, HubStep
<1>6. CASE RefreshEpoch(c) BY <1>6 DEF RefreshEpoch
<1>7. CASE CheckEpoch(c) BY <1>7 DEF CheckEpoch, HubStep
<1>8. CASE ReadFails(c) BY <1>8 DEF ReadFails, HubStep
<1>9. CASE CheckLatest(c) \/ CheckCurrent(c) \/ ReadSeatToLeave(c) \/ SaveDisconnected(c)
  BY <1>9 DEF CheckLatest, CheckCurrent, ReadSeatToLeave, SaveDisconnected
<1>10. CASE LeaveHub(c) BY <1>10 DEF LeaveHub, HubStep
<1>11. CASE Disturbed(c) BY <1>11 DEF Disturbed, HubStep
<1> QED BY <1>1, <1>2, <1>3, <1>4, <1>5, <1>6, <1>7, <1>8, <1>9, <1>10, <1>11 DEF ConnStep

\* Connections implements Hub, so that its connections are served as
\* HubServesTheLatest and NobodyIsDeaf say, whatever Redis and the store do.
THEOREM ConnectionsImplementHub == ConnSpec => HubSpec
<1>1. ConnInit => HubInit BY DEF ConnInit
<1>2. [ConnNext]_connVars => [HubNext]_hubVars
  <2>1. CASE UNCHANGED connVars BY <2>1 DEF connVars
  <2>2. ASSUME NEW c \in Conns, ConnStep(c) PROVE [HubNext]_hubVars
    BY <2>2, ConnStepsAreHubSteps DEF HubNext
  <2>3. CASE EpochExpires BY <2>3 DEF EpochExpires
  <2> QED BY <2>1, <2>2, <2>3 DEF ConnNext
<1> QED BY <1>1, <1>2, PTL DEF ConnSpec, HubSpec

\* The hub as the handlers drive it, access by access: the connection that is
\* served is the latest that entered, and nobody is left deaf.
THEOREM HandlersServeTheLatest == ConnSpec => [](HubServesTheLatest /\ NobodyIsDeaf)
BY ConnectionsImplementHub, LatestIsServed, EverybodyIsServedOrClosed, PTL

\* What a step does to the hub's part of the types.
LEMMA ConnHubTypes ==
  ASSUME HubTypeOK, NEW c \in Conns, ConnStep(c)
  PROVE  HubTypeOK'
BY ConnStepsAreHubSteps, HubTypesKept DEF HubNext

\* The types of the places.
LEMMA PlacesKept ==
  ASSUME place \in [Conns -> Place], NEW c \in Conns, ConnStep(c)
  PROVE  place' \in [Conns -> Place]
BY DEF ConnStep, Arrive, TakeEpoch, AnnounceEpoch, ReadSeat, SaveConnected, OpeningFails,
       EnterHub, Handled, RefreshEpoch, CheckEpoch, ReadFails, CheckLatest, CheckCurrent,
       ReadSeatToLeave, SaveDisconnected, LeaveHub, Disturbed, Goes, Place

\* Epochs are given in order and to one connection each: none is above the
\* counter, and one that has none has not announced one.
EpochInv ==
  /\ \A c \in Conns : epoch[c] \in 0..epochCounter
  /\ \A c \in Conns : place[c] \in {"start", "epoch"} => epoch[c] = 0

\* No two connections have the same epoch, whatever instances they came in by
\* (ConnTypeOK), also while their openings interleave.
THEOREM EpochsAreDistinct == ConnSpec => []ConnTypeOK
<1> DEFINE Inv == ConnTypeOK /\ EpochInv
<1>1. ConnInit => Inv
  BY DEF ConnInit, HubInit, ConnTypeOK, HubTypeOK, Stage, Place, EpochInv
<1>2. Inv /\ [ConnNext]_connVars => Inv'
  <2> SUFFICES ASSUME Inv, [ConnNext]_connVars PROVE Inv'
    OBVIOUS
  <2>1. CASE UNCHANGED connVars
    BY <2>1 DEF connVars, hubVars, redis, ConnTypeOK, HubTypeOK, EpochInv
  <2>2. CASE EpochExpires
    BY <2>2 DEF EpochExpires, hubVars, ConnTypeOK, HubTypeOK, EpochInv
  <2>3. ASSUME NEW c \in Conns, ConnStep(c) PROVE Inv'
    <3>1. HubTypeOK' /\ place' \in [Conns -> Place]
      BY <2>3, ConnHubTypes, PlacesKept DEF ConnTypeOK
    <3>2. CASE TakeEpoch(c)
      BY <3>1, <3>2 DEF TakeEpoch, Goes, ConnTypeOK, EpochInv, Place
    <3>3. CASE AnnounceEpoch(c) \/ RefreshEpoch(c)
      BY <3>1, <3>3 DEF AnnounceEpoch, RefreshEpoch, Goes, ConnTypeOK, EpochInv, Place
    <3>4. CASE ~TakeEpoch(c) /\ ~AnnounceEpoch(c) /\ ~RefreshEpoch(c)
      <4>1. UNCHANGED <<epoch, redis>>
        BY <2>3, <3>4 DEF ConnStep, Arrive, ReadSeat, SaveConnected, OpeningFails, EnterHub,
           Handled, CheckEpoch, ReadFails, CheckLatest, CheckCurrent, ReadSeatToLeave,
           SaveDisconnected, LeaveHub, Disturbed
      <4>2. seat' \in {"ACTIVE", "DISCONNECTED"}
        BY <2>3, <3>4 DEF ConnStep, Arrive, ReadSeat, SaveConnected, OpeningFails, EnterHub,
           Handled, CheckEpoch, ReadFails, CheckLatest, CheckCurrent, ReadSeatToLeave,
           SaveDisconnected, LeaveHub, Disturbed, ConnTypeOK
      <4>3. \A d \in Conns : place'[d] \in {"start", "epoch"} => place[d] \in {"start", "epoch"}
        BY <2>3, <3>4 DEF ConnStep, Arrive, ReadSeat, SaveConnected, OpeningFails, EnterHub,
           Handled, CheckEpoch, ReadFails, CheckLatest, CheckCurrent, ReadSeatToLeave,
           SaveDisconnected, LeaveHub, Disturbed, Goes, ConnTypeOK
      <4> QED BY <3>1, <4>1, <4>2, <4>3 DEF redis, ConnTypeOK, EpochInv
    <3> QED BY <3>2, <3>3, <3>4
  <2> QED BY <2>1, <2>2, <2>3 DEF ConnNext
<1> QED BY <1>1, <1>2, PTL DEF ConnSpec
=============================================================================
