---------------------------- MODULE BoundedDrive ----------------------------
(* What the motor executor promises to the machine above it: the bridge only *)
(* drives for a request that was accepted, in the direction of that request, *)
(* at most once for it, and never from one direction into the other.  How    *)
(* the timer, the interrupt and main bring that about is the business of     *)
(* MotorExecutor, which implements this module.                              *)
EXTENDS Naturals

CONSTANT Directions  \* the directions of the bridge

VARIABLES
  phase,   \* "idle", "accepted" or "driving"
  dir,     \* the direction of the last accepted request
  number   \* how many requests have been accepted

vars == <<phase, dir, number>>

Phases == {"idle", "accepted", "driving"}

Init == phase = "idle" /\ dir \in Directions /\ number = 0

\* A request is accepted only while nothing drives: break before make.
Accept ==
  /\ phase = "idle" /\ phase' = "accepted"
  /\ dir' \in Directions
  /\ number' = number + 1

\* The bridge starts to drive what was accepted.
Drive ==
  /\ phase = "accepted" /\ phase' = "driving"
  /\ UNCHANGED <<dir, number>>

\* The request fails before it drives.
Refuse ==
  /\ phase = "accepted" /\ phase' = "idle"
  /\ UNCHANGED <<dir, number>>

\* The drive ends: by the timer, by a command or by a guard.
End ==
  /\ phase = "driving" /\ phase' = "idle"
  /\ UNCHANGED <<dir, number>>

Next == Accept \/ Drive \/ Refuse \/ End

Spec == Init /\ [][Next]_vars
=============================================================================
