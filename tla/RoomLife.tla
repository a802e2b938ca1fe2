------------------------------ MODULE RoomLife ------------------------------
(***************************************************************************)
(* What a room promises its host, with no rows, no copies of them and no   *)
(* calls in flight: a seat that is taken and left between the rounds, and  *)
(* rounds that are dealt one after another to whoever sits there.  Every   *)
(* request of the host, and every step of a worker, happens at one         *)
(* instant.  Only a WebSocket connection that opens or closes takes two:   *)
(* it reads the seat and writes it back whole, and a leave or a reset in   *)
(* between is undone.  Room is shown to implement this as long as the      *)
(* requests of the host do not overlap.                                    *)
(***************************************************************************)
EXTENDS Naturals

VARIABLES
  seated,   \* the host is on the seat
  phase,    \* WAITING for the host or READY, or with a round PLAYED or OVER
  round,    \* the number of the last round dealt; 0 before the first
  held      \* a socket has read the seat and not written it yet

vars == <<seated, phase, round, held>>

Init == ~seated /\ phase = "WAITING" /\ round = 0 /\ ~held

Join ==
  /\ phase = "WAITING"
  /\ seated' = TRUE /\ phase' = "READY"
  /\ UNCHANGED <<round, held>>

Leave ==
  /\ phase \in {"WAITING", "READY"} /\ seated
  /\ seated' = FALSE /\ phase' = "WAITING"
  /\ UNCHANGED <<round, held>>

\* MarkConnected and MarkDisconnected read the seat of a seated host.
SocketReads ==
  /\ seated
  /\ held' = TRUE
  /\ UNCHANGED <<seated, phase, round>>

\* One of them writes its seat back, or dies. The status of the room is not
\* written with it.
SocketEnds ==
  /\ held
  /\ seated' \in {seated, TRUE}
  /\ held' \in BOOLEAN
  /\ UNCHANGED <<phase, round>>

\* The host starts a round in a room that is READY, agrees to play another, or
\* agrees late, when the last round has been released.
Deal ==
  /\ seated
  /\ phase \in {"READY", "OVER"} \/ (phase = "WAITING" /\ round > 0)
  /\ phase' = "PLAYED" /\ round' = round + 1
  /\ UNCHANGED <<seated, held>>

End ==
  /\ phase = "PLAYED"
  /\ phase' = "OVER"
  /\ UNCHANGED <<seated, round, held>>

\* The host declines a rematch, late or not, or does not answer in time.
Release ==
  /\ seated
  /\ phase = "OVER" \/ (phase = "WAITING" /\ round > 0)
  /\ phase' = "READY"
  /\ UNCHANGED <<seated, round, held>>

\* A reset may come at any time, and everything starts again.
Reset ==
  /\ seated' = FALSE /\ phase' = "WAITING" /\ round' = 0
  /\ UNCHANGED held

Next == Join \/ Leave \/ SocketReads \/ SocketEnds \/ Deal \/ End \/ Release \/ Reset

Spec == Init /\ [][Next]_vars
=============================================================================
