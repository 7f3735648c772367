--------------------------- MODULE MCMotorExecutor ---------------------------
(* Small instances of MotorExecutor: a press and a release pulse that differ *)
(* in length and margin, and a request that Start must refuse.               *)
EXTENDS MotorExecutor

Press   == [dir |-> "PRESS", normal |-> 1, backstop |-> 4]
Release == [dir |-> "RELEASE", normal |-> 2, backstop |-> 5]
Refused == [dir |-> "PRESS", normal |-> 2, backstop |-> 2]

MCRequests == {Press, Release, Refused}
NoFaults   == {}
AllFaults  == FaultKinds
=============================================================================
