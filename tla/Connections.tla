---------------------------- MODULE Connections ----------------------------
(***************************************************************************)
(* The handlers of the connections, RoomWS, access by access: the hub (a   *)
(* step of Hub), the connection epoch in Redis and the status of the seat  *)
(* in the database.  No lock is common to the three, so that connections   *)
(* which open and close at once meet between any two accesses.  (A seat    *)
(* that was left stays as it is: see Room.)                                *)
(***************************************************************************)
EXTENDS Hub

CONSTANT
  Faulty    \* connections whose calls to Redis or to the store may fail

VARIABLES
  place,        \* where within its stage each handler stands
  epoch,        \* the epoch of each connection, 0 before it has one
  epochCounter, \* Redis: the last epoch given
  latestEpoch,  \* Redis: latest_epoch, 0 when the key has expired
  seat          \* room_players.status

redis == <<epochCounter, latestEpoch>>
connVars == <<hubVars, place, epoch, epochCounter, latestEpoch, seat>>

ConnInit ==
  /\ HubInit
  /\ place = [c \in Conns |-> "start"]
  /\ epoch = [c \in Conns |-> 0]
  /\ epochCounter = 0 /\ latestEpoch = 0
  /\ seat = "ACTIVE"

Goes(c, from, to) == place[c] = from /\ place' = [place EXCEPT ![c] = to]

----------------------------------------------------------------------------
(* Opening.                                                                *)

\* Upgrade, AUTH and the check of access.
Arrive(c) ==
  /\ Upgrade(c)
  /\ Goes(c, "start", "epoch")
  /\ UNCHANGED <<epoch, redis, seat>>

\* registerConnectionEpoch, INCR.
TakeEpoch(c) ==
  /\ Goes(c, "epoch", "announce")
  /\ epochCounter' = epochCounter + 1
  /\ epoch' = [epoch EXCEPT ![c] = epochCounter + 1]
  /\ UNCHANGED <<hubVars, latestEpoch, seat>>

\* registerConnectionEpoch, SET latest_epoch.
AnnounceEpoch(c) ==
  /\ Goes(c, "announce", "connect")
  /\ latestEpoch' = epoch[c]
  /\ UNCHANGED <<hubVars, epoch, epochCounter, seat>>

\* MarkConnected: read the seat, and save it if it is not ACTIVE.
ReadSeat(c) ==
  /\ Goes(c, "connect", IF seat = "ACTIVE" THEN "add" ELSE "seat")
  /\ UNCHANGED <<hubVars, epoch, redis, seat>>

SaveConnected(c) ==
  /\ Goes(c, "seat", "add")
  /\ seat' = "ACTIVE"
  /\ UNCHANGED <<hubVars, epoch, redis>>

\* No access, or an error of Redis or of the store: the connection is closed.
OpeningFails(c) ==
  /\ c \in Faulty /\ place[c] \in {"epoch", "announce", "connect", "seat"}
  /\ Reject(c)
  /\ UNCHANGED <<place, epoch, redis, seat>>

EnterHub(c) ==
  /\ Goes(c, "add", "loop")
  /\ Enter(c)
  /\ UNCHANGED <<epoch, redis, seat>>

----------------------------------------------------------------------------
(* The loop over the messages.                                             *)

\* The opening broadcast, or the handling of a message (see RoomSync).
Handled(c) ==
  /\ Proceed(c)
  /\ UNCHANGED <<place, epoch, redis, seat>>

\* A message is read and the epoch is refreshed: SET latest_epoch again.
RefreshEpoch(c) ==
  /\ c \in open /\ stage[c] = "listening"
  /\ Goes(c, "loop", "check")
  /\ latestEpoch' = epoch[c]
  /\ UNCHANGED <<hubVars, epoch, epochCounter, seat>>

IsCurrentEpoch(c) == latestEpoch = epoch[c]

\* isCurrentConnectionEpoch: a connection that is not current is told so and
\* ends; after an error of Redis the message is dropped.
CheckEpoch(c) ==
  /\ \/ IsCurrentEpoch(c) /\ Goes(c, "check", "loop") /\ Accept(c)
     \/ ~IsCurrentEpoch(c) /\ Goes(c, "check", "latest") /\ Refuse(c)
     \/ c \in Faulty /\ Goes(c, "check", "loop") /\ UNCHANGED hubVars
  /\ UNCHANGED <<epoch, redis, seat>>

ReadFails(c) ==
  /\ Goes(c, "loop", "latest")
  /\ SocketEnds(c)
  /\ UNCHANGED <<epoch, redis, seat>>

----------------------------------------------------------------------------
(* The close handler.                                                      *)

\* hub.isLatest: only the latest connection of its instance marks the seat,
CheckLatest(c) ==
  /\ Goes(c, "latest", IF latest[server[c]] = c THEN "current" ELSE "remove")
  /\ UNCHANGED <<hubVars, epoch, redis, seat>>

\* and only the current one; an error of Redis counts as current.
CheckCurrent(c) ==
  /\ \/ Goes(c, "current", IF IsCurrentEpoch(c) THEN "disconnect" ELSE "remove")
     \/ c \in Faulty /\ Goes(c, "current", "disconnect")
  /\ UNCHANGED <<hubVars, epoch, redis, seat>>

\* MarkDisconnected: read the seat, and save it; an error changes nothing.
ReadSeatToLeave(c) ==
  /\ \/ Goes(c, "disconnect", IF seat = "ACTIVE" THEN "absent" ELSE "remove")
     \/ c \in Faulty /\ Goes(c, "disconnect", "remove")
  /\ UNCHANGED <<hubVars, epoch, redis, seat>>

SaveDisconnected(c) ==
  /\ Goes(c, "absent", "remove")
  /\ seat' = "DISCONNECTED"
  /\ UNCHANGED <<hubVars, epoch, redis>>

LeaveHub(c) ==
  /\ place[c] = "remove"
  /\ Leave(c)
  /\ UNCHANGED <<place, epoch, redis, seat>>

----------------------------------------------------------------------------
(* The surroundings.                                                       *)

\* Somebody else closes the socket, or fails to write to it.
Disturbed(c) ==
  /\ CloseDoomed(c) \/ Drop(c) \/ (c \in rooms[server[c]] /\ FailedWrite(c))
  /\ UNCHANGED <<place, epoch, redis, seat>>

\* Two minutes without a refresh: not while a handler is between its refresh
\* and its check.
EpochExpires ==
  /\ latestEpoch # 0 /\ \A c \in Conns : place[c] # "check"
  /\ latestEpoch' = 0
  /\ UNCHANGED <<hubVars, place, epoch, epochCounter, seat>>

ConnStep(c) ==
  \/ Arrive(c) \/ TakeEpoch(c) \/ AnnounceEpoch(c) \/ ReadSeat(c) \/ SaveConnected(c)
  \/ OpeningFails(c) \/ EnterHub(c) \/ Handled(c) \/ RefreshEpoch(c) \/ CheckEpoch(c)
  \/ ReadFails(c) \/ CheckLatest(c) \/ CheckCurrent(c) \/ ReadSeatToLeave(c)
  \/ SaveDisconnected(c) \/ LeaveHub(c) \/ Disturbed(c)

ConnNext == (\E c \in Conns : ConnStep(c)) \/ EpochExpires

ConnSpec == ConnInit /\ [][ConnNext]_connVars

----------------------------------------------------------------------------
(* Properties.                                                             *)

Place == {"start", "epoch", "announce", "connect", "seat", "add", "loop", "check",
          "latest", "current", "disconnect", "absent", "remove"}

\* The types; besides, no two connections have the same epoch, whatever
\* instances they came in by.
ConnTypeOK ==
  /\ HubTypeOK
  /\ place \in [Conns -> Place]
  /\ epoch \in [Conns -> Nat]
  /\ epochCounter \in Nat /\ latestEpoch \in 0..epochCounter
  /\ seat \in {"ACTIVE", "DISCONNECTED"}
  /\ \A c, d \in Conns : epoch[c] = epoch[d] => c = d \/ epoch[c] = 0

\* A claim of the specification (section 13.3) that the code does not keep:
\* only the latest epoch is accepted; what an older connection sends is refused
\* or its connection closed.  So no message passes the check while a connection
\* with a later epoch is up on another instance.  (On the same instance the newer
\* connection also has the older one closed, which takes its time.)
OnlyLatestEpochActs ==
  \A c, d \in Conns :
    /\ place[c] = "check" /\ IsCurrentEpoch(c)
    /\ InLoop(d) /\ server[d] # server[c]
    => epoch[d] <= epoch[c]
=============================================================================
