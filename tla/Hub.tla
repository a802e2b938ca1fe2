-------------------------------- MODULE Hub --------------------------------
(***************************************************************************)
(* The hub of each instance: the WebSocket connections of the one user of  *)
(* a room, from the upgrade to the end of their handlers, as the two maps  *)
(* of roomHub see them.                                                    *)
(*                                                                         *)
(* The module is the part that Connections (epochs and the seat) and       *)
(* RoomSync (what is sent over the sockets) have in common: both extend it *)
(* and add to its actions.  A method of the hub runs under its mutex and   *)
(* is one step; the close of a connection that was taken out of the hub    *)
(* follows outside the mutex and is a step of its own.                     *)
(***************************************************************************)
EXTENDS Naturals

CONSTANTS
  Conns,    \* connections that are opened, one after another or at once
  Servers,  \* instances
  NoConn    \* no connection

ASSUME ConnsAssumption == NoConn \notin Conns

VARIABLES
  stage,    \* where the handler of each connection stands
  server,   \* the instance each connection is given to
  open,     \* connections whose socket works
  rooms,    \* hub.rooms of each instance: the connections it serves
  latest,   \* hub.latest of each instance
  doomed    \* connections somebody took out of a hub and is about to close

hubVars == <<stage, server, open, rooms, latest, doomed>>

HubInit ==
  /\ stage = [c \in Conns |-> "new"]
  /\ server \in [Conns -> Servers]
  /\ open = {} /\ doomed = {}
  /\ rooms = [s \in Servers |-> {}] /\ latest = [s \in Servers |-> NoConn]

\* The handler of c goes from one stage to another.
Moves(c, from, to) == stage[c] = from /\ stage' = [stage EXCEPT ![c] = to]

\* RoomWS upgrades the request.
Upgrade(c) ==
  /\ Moves(c, "new", "entering")
  /\ open' = open \cup {c}
  /\ UNCHANGED <<server, rooms, latest, doomed>>

\* Authentication, the limit, the epoch or the seat ends the opening.
Reject(c) ==
  /\ Moves(c, "entering", "gone")
  /\ open' = open \ {c}
  /\ UNCHANGED <<server, rooms, latest, doomed>>

\* A mutant: the old connection stays among those that are served.
ServedAfterAdd_WithOld(s, c) == rooms[s] \cup {c}

ServedAfterAdd(s, c) == (rooms[s] \ {latest[s]}) \cup {c}

\* A mutant: the old connection is not handed back to be closed.
OldOf_Forgotten(s) == {}

OldOf(s) == {latest[s]} \ {NoConn}

\* hub.add: the new connection takes the place of the old one, which its
\* handler is now about to close.
Enter(c) ==
  LET s == server[c] IN
  /\ Moves(c, "entering", "opening")
  /\ rooms' = [rooms EXCEPT ![s] = ServedAfterAdd(s, c)]
  /\ latest' = [latest EXCEPT ![s] = c]
  /\ doomed' = doomed \cup OldOf(s)
  /\ UNCHANGED <<server, open>>

\* Close of a connection by whoever took it out of the hub.
CloseDoomed(c) ==
  /\ c \in doomed
  /\ doomed' = doomed \ {c}
  /\ open' = open \ {c}
  /\ UNCHANGED <<stage, server, rooms, latest>>

\* The opening broadcast, or the handling of a message, is over.
Proceed(c) ==
  /\ Moves(c, "opening", "listening") \/ Moves(c, "handling", "listening")
  /\ UNCHANGED <<server, open, rooms, latest, doomed>>

\* A message passes the check of the epoch, or ends the connection.
Accept(c) ==
  /\ Moves(c, "listening", "handling")
  /\ UNCHANGED <<server, open, rooms, latest, doomed>>

Refuse(c) ==
  /\ Moves(c, "listening", "closing")
  /\ UNCHANGED <<server, open, rooms, latest, doomed>>

\* ReadMessage fails on a socket that does not work any more.
SocketEnds(c) ==
  /\ c \notin open
  /\ Moves(c, "listening", "closing")
  /\ UNCHANGED <<server, open, rooms, latest, doomed>>

\* A mutant: whoever leaves takes the user's entry with it.
LatestAfterRemove_Blind(s, c) == NoConn

\* The entries of latest that are this connection go with it.
LatestAfterRemove(s, c) == IF latest[s] = c THEN NoConn ELSE latest[s]

\* hub.remove.
RemovedFromHub(c) ==
  LET s == server[c] IN
  /\ rooms' = [rooms EXCEPT ![s] = @ \ {c}]
  /\ latest' = [latest EXCEPT ![s] = LatestAfterRemove(s, c)]

\* The end of the close handler.
Leave(c) ==
  /\ Moves(c, "closing", "gone")
  /\ RemovedFromHub(c)
  /\ open' = open \ {c}
  /\ UNCHANGED <<server, doomed>>

\* A write to c fails, on a broken socket or after its deadline of three
\* seconds: the writer takes c out of the hub and is about to close it.
FailedWrite(c) ==
  /\ stage[c] \notin {"new", "entering"}
  /\ RemovedFromHub(c)
  /\ doomed' = doomed \cup {c}
  /\ UNCHANGED <<stage, server, open>>

\* The client closes the socket, or the network drops it.
Drop(c) ==
  /\ c \in open
  /\ open' = open \ {c}
  /\ UNCHANGED <<stage, server, rooms, latest, doomed>>

HubStep(c) ==
  \/ Upgrade(c) \/ Reject(c) \/ Enter(c) \/ CloseDoomed(c) \/ Proceed(c)
  \/ Accept(c) \/ Refuse(c) \/ SocketEnds(c) \/ Leave(c) \/ FailedWrite(c) \/ Drop(c)

HubNext == \E c \in Conns : HubStep(c)

HubSpec == HubInit /\ [][HubNext]_hubVars

----------------------------------------------------------------------------
(* Properties.                                                             *)

Stage == {"new", "entering", "opening", "listening", "handling", "closing", "gone"}

HubTypeOK ==
  /\ stage \in [Conns -> Stage]
  /\ server \in [Conns -> Servers]
  /\ open \subseteq Conns /\ doomed \subseteq Conns
  /\ rooms \in [Servers -> SUBSET Conns]
  /\ latest \in [Servers -> Conns \cup {NoConn}]

\* The two maps of the hub agree, whoever is added, superseded, removed after
\* a failed write or closed in whatever order: an instance serves the latest
\* connection of the user and no other, and what is in latest is served.
HubServesTheLatest == \A s \in Servers : rooms[s] = {latest[s]} \ {NoConn}

\* A handler that has entered the hub and not come to its end.
InLoop(c) == stage[c] \in {"opening", "listening", "handling"}

\* No connection is deaf: a working socket whose handler listens is served by
\* its hub, or somebody holds it to close it. (The user would otherwise look at
\* a table that never moves, over a socket that answers every PING.)
NobodyIsDeaf ==
  \A c \in open : InLoop(c) => c \in rooms[server[c]] \cup doomed
=============================================================================
