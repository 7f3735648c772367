--------------------------- MODULE MotorCalmProofs ---------------------------
(***************************************************************************)
(* Proof of MotorExecutor's NoFalseError, for every set of requests and    *)
(* every bound: a main loop that is less late than the margin between the  *)
(* normal duration and the backstop never takes what the interrupt did for *)
(* an error.                                                               *)
(***************************************************************************)
EXTENDS MotorExecutorProofs

\* What main may be late: the age of now_ms and the time an operation takes are
\* less than the margin of every request that Start accepts.
Margin ==
  \A r \in Requests : r.normal < r.backstop => r.normal + MaxLag + MaxStall < r.backstop

\* Without faults the timer is healthy, raises only its compare and ends what it
\* drives; a request has its timer, its event, or a main that is ending it.
CalmInv ==
  /\ healthy /\ flags \subseteq {"CC1"}
  /\ completion # "ERROR"
  /\ pending => event # "ERROR"
  /\ pc = "publish" => taken # "ERROR"
  /\ armed => active /\ (out # "OFF" \/ pc \in {"carriers", "cancel"})
  /\ active => armed \/ pending \/ pc \in {"arm", "cleared", "publish"}
  /\ pc = "drive" => out = "ZERO"

\* Where main can be, and in which operation: a failed test is explained by an
\* event, and the paths of a failure are not taken.
PathInv ==
  /\ pc \notin {"failstart", "guard4", "guard5"}
  /\ pc \in {"off", "cancel"} =>
       \/ next = "cleared" /\ op = "Disable"
       \/ next = "guardpended" /\ op = "Guard" /\ pending
  /\ pc = "cleared" => op = "Disable"
  /\ pc \in {"arm"} \cup StartWindow => op = "Start"
  /\ pc \in {"recheck", "valid5", "guardpended"} => pending
  /\ pc = "take1" => op = "Service" \/ (op = "Start" /\ pending)
  /\ pc = "publish" => op \in {"Service", "Start"}
  /\ pc \in {"snapshot", "take2", "classify", "armed?", "backstop?", "output?", "recheck"}
       => op = "Service"
  /\ pc \in {"guard1", "guard2", "guard3", "guardpended"} => op = "Guard"
  /\ pc \in {"valid1", "valid2", "valid3", "valid4", "valid5"} =>
       op \in {"Guard", "Capture"}
  /\ op \in {"Service", "Guard", "Capture"} => result = "OK"
  /\ Idle /\ MustCapture => active

\* What main has sampled: the output is off, and the backstop reached, only of a
\* request that is over.
SampleInv ==
  /\ pc \in {"take2", "classify", "guard2"} /\ ~active => phys
  /\ pc \in {"take2", "valid2"} /\ active /\ phys => pending
  /\ pc \in {"classify", "armed?", "backstop?", "output?"} /\ active => ~phys
  /\ pc \in {"armed?", "backstop?", "output?", "recheck"} => active
  /\ pc \in {"valid1", "valid2", "valid3", "valid4", "valid5", "guard3"} => active
  /\ pc = "take1" /\ op = "Service" /\ reached => ~active \/ pending
  /\ pc \in {"snapshot", "take2", "classify", "armed?", "backstop?"} /\ reached => ~active

\* The three clocks: the age of the request is at most its timer's count, the lag of
\* its now_ms and the time Start took.
ClockInv ==
  /\ stall <= MaxStall
  /\ pc \in {"arm"} \cup StartWindow => elapsed <= MaxLag + stall
  /\ pc \in StartWindow => cnt <= stall
  /\ armed /\ pc \notin StartWindow => nvic
  /\ armed =>
       /\ elapsed <= cnt + MaxLag + MaxStall
       /\ elapsed <= request.normal + MaxLag + MaxStall
       /\ cnt < request.backstop
  /\ active => request.normal + MaxLag + MaxStall < request.backstop

\* What MotorExecutorProofs says of a state in which the output obeys.
Known ==
  /\ ~stuck
  /\ ~armed => ~nvic /\ flags = {} /\ out = "OFF"
  /\ pending => ~armed
  /\ pc \in AfterShutdown \cup {"cancel"} => out = "OFF"
  /\ pc \in AfterShutdown => ~armed
  /\ pc \in StartWindow => armed /\ ~nvic /\ active /\ ~pending
  /\ pc = "arm" => ~armed /\ ~pending /\ active
  /\ pc = "carriers" => out = "OFF"

LEMMA WhatIsKnown == ASSUME Inv, ~astray PROVE Known
  BY DEF Known, Inv, TimerInv, StartInv, ShutdownInv, HandoffInv, DriveIsTimed,
     AfterShutdown, StartWindow

\* An armed timer that may tick is more than a millisecond from its backstop.
LEMMA CountInTime ==
  ASSUME NumbersOK, RequestOK, CounterInv, Known, PathInv, ClockInv, flags \subseteq {"CC1"},
         armed => active, Tick, IsArmed
  PROVE  cnt + 1 # request.backstop
<1>1. /\ stall \in Nat /\ cnt \in Nat /\ MaxLag \in Nat /\ MaxStall \in Nat
      /\ request.normal \in Nat /\ request.backstop \in Nat
  BY BoundsAssumption DEF NumbersOK, RequestOK
<1>2. armed /\ request.normal + MaxLag + MaxStall < request.backstop
  BY DEF IsArmed, ClockInv
<1>3. CASE pc \in StartWindow
  <2>1. cnt <= stall /\ stall < MaxStall
    BY <1>3 DEF ClockInv, Tick, Idle, StartWindow
  <2>2. QED
    BY <1>1, <1>2, <2>1
<1>4. CASE pc \notin StartWindow
  <2>1. cnt < request.normal
    BY <1>2, <1>4 DEF ClockInv, CounterInv, Tick, IrqReady
  <2>2. QED
    BY <1>1, <1>2, <2>1
<1>5. QED
  BY <1>3, <1>4

\* The backstop is not reached while the timer runs.
LEMMA NotReached ==
  ASSUME NumbersOK, RequestOK, ClockInv, armed => active, armed,
         NEW late \in 0..MaxLag, Service(late)
  PROVE  ~reached'
<1>1. /\ elapsed \in Int /\ late \in Int /\ late >= 0 /\ MaxLag \in Int
      /\ MaxStall \in Int /\ request.normal \in Int /\ request.backstop \in Int
  BY BoundsAssumption DEF NumbersOK, RequestOK
<1>2. /\ elapsed <= request.normal + MaxLag + MaxStall
      /\ request.normal + MaxLag + MaxStall < request.backstop
  BY DEF ClockInv
<1>3. ~(elapsed - late >= request.backstop)
  BY <1>1, <1>2
<1>4. reached' = (elapsed - late >= request.backstop)
  BY DEF Service
<1>5. QED
  BY <1>3, <1>4

\* A millisecond keeps the clocks in order.
LEMMA TickInTime ==
  ASSUME NumbersOK, RequestOK, CounterInv, PathInv, ClockInv, armed => active,
         flags \subseteq {"CC1"}, Tick
  PROVE  ClockInv'
<1>1. /\ UNCHANGED <<armed, active, pc, request, nvic>> /\ ~IrqReady
      /\ pc = "idle" => stall' = 0
      /\ pc # "idle" => stall < MaxStall /\ stall' = stall + 1
      /\ IsArmed => cnt' = cnt + 1
      /\ ~IsArmed => cnt' = cnt
      /\ elapsed' = IF elapsed < MaxElapsed THEN elapsed + 1 ELSE elapsed
  BY DEF Tick, Idle, motor
<1>2. /\ elapsed \in Nat /\ stall \in Nat /\ cnt \in Nat /\ MaxLag \in Nat
      /\ MaxStall \in Nat /\ request.normal \in Nat /\ request.backstop \in Nat
  BY BoundsAssumption DEF NumbersOK, RequestOK
<1>3. elapsed' \in Nat /\ elapsed' <= elapsed + 1 /\ stall' \in Nat /\ cnt' \in Nat
  BY <1>1, <1>2
<1>4. stall' <= MaxStall
  BY <1>1, <1>2 DEF ClockInv
<1>5. armed => IsArmed
  BY DEF IsArmed
<1>6. pc \in {"arm"} \cup StartWindow => stall' = stall + 1
  BY <1>1 DEF StartWindow
<1>7. pc \in {"arm"} \cup StartWindow => elapsed' <= MaxLag + stall'
  <2>1. \A e, f, l, n \in Nat : e <= l + n /\ f <= e + 1 => f <= l + (n + 1)
    OBVIOUS
  <2>2. pc \in {"arm"} \cup StartWindow => elapsed <= MaxLag + stall
    BY DEF ClockInv
  <2>3. elapsed <= MaxLag + stall => elapsed' <= MaxLag + (stall + 1)
    BY <1>2, <1>3, <2>1
  <2>4. QED
    BY <1>6, <2>2, <2>3
<1>8. pc \in StartWindow => cnt' <= stall'
  BY <1>1, <1>2, <1>6 DEF ClockInv
<1>9. ASSUME armed
      PROVE  /\ elapsed' <= cnt' + MaxLag + MaxStall
             /\ elapsed' <= request.normal + MaxLag + MaxStall
             /\ cnt' < request.backstop
  <2>1. cnt' = cnt + 1
    BY <1>1, <1>5, <1>9
  <2>2. /\ request.normal + MaxLag + MaxStall < request.backstop
        /\ elapsed <= cnt + MaxLag + MaxStall
    BY <1>9 DEF ClockInv
  <2>3. elapsed' <= cnt' + MaxLag + MaxStall
    BY <1>2, <1>3, <2>1, <2>2
  <2>4. CASE pc \in StartWindow
    <3>1. elapsed' <= MaxLag + stall' /\ cnt' <= stall'
      BY <1>7, <1>8, <2>4
    <3>2. \A e, l, t, m, n \in Nat : e <= l + t /\ t <= m => e <= n + l + m
      OBVIOUS
    <3>3. elapsed' <= request.normal + MaxLag + MaxStall
      BY <1>2, <1>3, <1>4, <3>1, <3>2
    <3>4. \A c, t, l, m, n, b \in Nat : c <= t /\ t <= m /\ n + l + m < b => c < b
      OBVIOUS
    <3>5. cnt' < request.backstop
      BY <1>2, <1>3, <1>4, <2>2, <3>1, <3>4
    <3>6. QED
      BY <2>3, <3>3, <3>5
  <2>5. CASE pc \notin StartWindow
    <3>1. cnt < request.normal
      BY <1>1, <1>9, <2>5 DEF ClockInv, CounterInv, IrqReady
    <3>2. QED
      BY <1>2, <1>3, <2>1, <2>2, <2>3, <3>1
  <2>6. QED
    BY <2>4, <2>5
<1>10. armed /\ pc \notin StartWindow => nvic
  BY DEF ClockInv
<1>11. active => request.normal + MaxLag + MaxStall < request.backstop
  BY DEF ClockInv
<1>12. QED
  BY <1>1, <1>4, <1>7, <1>8, <1>9, <1>10, <1>11 DEF ClockInv

\* A request is as old as its now_ms when it is accepted.
LEMMA StartInTime ==
  ASSUME NumbersOK, Margin, Known, ClockInv,
         \E r \in Requests, late \in 0..MaxLag : Start(r, late)
  PROVE  ClockInv'
<1>1. PICK r \in Requests, late \in 0..MaxLag : Start(r, late)
  OBVIOUS
<1>2. /\ r.normal \in Nat /\ r.backstop \in Nat /\ MaxLag \in Nat /\ MaxStall \in Nat
      /\ late \in Nat /\ late <= MaxLag
  BY RequestsAssumption, BoundsAssumption
<1>3. stall' = 0 /\ pc = "idle" /\ ~stuck
  BY <1>1 DEF Start, Idle, Known
<1>4. CASE pc' = "idle"
  <2>1. UNCHANGED <<armed, nvic, cnt, active, request, elapsed>>
    BY <1>1, <1>4 DEF Start, Shutdown, timer, motor
  <2>2. QED
    BY <1>2, <1>3, <1>4, <2>1 DEF ClockInv, StartWindow
<1>5. CASE pc' # "idle"
  <2>1. ~Busy /\ ~(r.normal = 0 \/ r.backstop <= r.normal) /\ Disabled = "OFF"
    BY <1>1, <1>3, <1>5 DEF Start, Disabled
  <2>2. armed' = FALSE /\ pc' = "arm" /\ request' = r /\ elapsed' = late
    BY <1>1, <2>1 DEF Start, Cancel
  <2>3. r.normal + MaxLag + MaxStall < r.backstop
    BY <1>2, <2>1 DEF Margin
  <2>4. QED
    BY <1>2, <1>3, <2>2, <2>3 DEF ClockInv, StartWindow
<1>6. QED
  BY <1>4, <1>5

LEMMA CalmStep ==
  ASSUME NumbersOK, RequestOK, CounterInv, Margin, Known, CalmInv, PathInv, SampleInv, ClockInv,
         Faults = {}, [Next]_vars
  PROVE  CalmInv'
<1> USE DEF Known, CalmInv, PathInv, SampleInv, AfterShutdown, StartWindow,
        hardware, timer, motor, handoff, loop, history
<1>1. CASE \E r \in Requests, lag \in 0..MaxLag : Start(r, lag)
  BY <1>1 DEF Start, Busy, Cancel, Shutdown, ClearPendingCompletion, Disabled, Idle,
     MustCapture, Failed
<1>2. CASE Capture
  BY <1>2 DEF Capture, Begin, Idle, MustCapture
<1>3. CASE \E f \in BOOLEAN : Disable(f)
  BY <1>3 DEF Disable, Begin, Idle, MustCapture
<1>4. CASE HandleError
  BY <1>4 DEF HandleError, Begin, Idle, MustCapture
<1>5. CASE \E lag \in 0..MaxLag : Service(lag)
  BY <1>5 DEF Service, Begin, Idle, MustCapture
<1>6. CASE Guard
  BY <1>6 DEF Guard, Begin, Idle, MustCapture
<1>7. CASE OutputOff
  BY <1>7 DEF OutputOff, Disabled
<1>8. CASE CancelTimer
  BY <1>8 DEF CancelTimer, Cancel
<1>9. CASE DisableCleared
  BY <1>9 DEF DisableCleared, ClearRequest, ClearPendingCompletion, ClearActivePlan,
     Return, Disabled, IsDisabled, IsArmed, Idle, MustCapture
<1>10. CASE StartArm
  BY <1>10 DEF StartArm, Shutdown
<1>11. CASE ApplyCarriers
  BY <1>11 DEF ApplyCarriers, ApplyFails, Shutdown, Disabled
<1>12. CASE ApplyDrive
  BY <1>12 DEF ApplyDrive, ApplyFails, Shutdown, Disabled, RequestOK, Directions
<1>13. CASE CommitArm
  BY <1>13 DEF CommitArm, IrqHandler, IrqEvent, Cancel, Shutdown, Disabled
<1>14. CASE StartEnable
  BY <1>14 DEF StartEnable, Return, Idle, MustCapture
<1>15. CASE FailStart
  BY <1>15 DEF FailStart
<1>16. CASE ServiceTake1
  BY <1>16 DEF ServiceTake1, TakeOr
<1>17. CASE ServiceSnapshot
  BY <1>17 DEF ServiceSnapshot, IsDisabled
<1>18. CASE ServiceTake2
  BY <1>18 DEF ServiceTake2, TakeOr
<1>19. CASE ServiceInactive
  BY <1>19 DEF ServiceInactive, Cancel, Return, Disabled, IsArmed, Idle, MustCapture
<1>20. CASE ServiceActive
  <2>1. CASE active /\ ServiceTest("classify", ~healthy, "armed?")
    BY <2>1 DEF ServiceTest
  <2>2. CASE ServiceTest("armed?", ~IsArmed, "backstop?")
    BY <2>2 DEF ServiceTest, IsArmed
  <2>3. CASE ServiceTest("backstop?", reached, "output?")
    BY <2>3 DEF ServiceTest
  <2>4. CASE ServiceTest("output?", phys, "idle")
    BY <2>4 DEF ServiceTest
  <2>5. QED
    BY <1>20, <2>1, <2>2, <2>3, <2>4 DEF ServiceActive
<1>21. CASE ServiceRecheck
  BY <1>21 DEF ServiceRecheck, TakeOr, Shutdown
<1>22. CASE PublishCompletion
  BY <1>22 DEF PublishCompletion, Return, ClearActivePlan, Disabled, IsDisabled, Idle,
     MustCapture
<1>23. CASE ValidSnapshot
  BY <1>23 DEF ValidSnapshot, Answer, Return, IsDisabled, Idle, MustCapture
<1>24. CASE ValidOutput
  BY <1>24 DEF ValidOutput, ValidTest
<1>25. CASE ValidArmed
  BY <1>25 DEF ValidArmed, ValidTest, IsArmed
<1>26. CASE ValidHealthy
  BY <1>26 DEF ValidHealthy, Answer, Return, Idle, MustCapture
<1>27. CASE ValidRecheck
  BY <1>27 DEF ValidRecheck, Answer, Return, IsDisabled, IsArmed, Idle, MustCapture
<1>28. CASE GuardSnapshot
  BY <1>28 DEF GuardSnapshot, Shutdown, IsDisabled
<1>29. CASE GuardClassify
  BY <1>29 DEF GuardClassify, Shutdown
<1>30. CASE GuardInactive
  BY <1>30 DEF GuardInactive, Cancel, Return, Disabled, IsArmed, Idle, MustCapture
<1>31. CASE GuardValid
  BY <1>31 DEF GuardValid, Shutdown, Return, Idle, MustCapture
<1>32. CASE GuardInvalid
  BY <1>32 DEF GuardInvalid
<1>33. CASE GuardReport
  BY <1>33 DEF GuardReport
<1>34. CASE GuardPendingCompletion
  BY <1>34 DEF GuardPendingCompletion, Return, IsDisabled, IsArmed, Idle, MustCapture
<1>35. CASE TIM5_IRQHandler
  BY <1>35 DEF TIM5_IRQHandler, IrqHandler, IrqEvent, IrqReady, Cancel, Disabled, Idle,
     MustCapture
<1>36. CASE Tick
  <2>1. /\ UNCHANGED <<healthy, armed, active, pending, event, completion, taken, out, pc>>
    BY <1>36 DEF Tick
  <2>2. IsArmed => cnt + 1 # request.backstop
    BY <1>36, CountInTime DEF CalmInv
  <2>3. flags' \subseteq {"CC1"}
    BY <1>36, <2>2 DEF Tick
  <2>4. QED
    BY <2>1, <2>3
<1>37. CASE UNCHANGED vars
  BY <1>37 DEF vars, Idle, MustCapture
<1>38. CASE Hardware
  BY <1>38 DEF Hardware, OutputDrops, OutputSurges, OutputSticks, Overcapture, Strike
<1>39. QED
  BY <1>1, <1>2, <1>3, <1>4, <1>5, <1>6, <1>7, <1>8, <1>9, <1>10, <1>11, <1>12, <1>13,
     <1>14, <1>15, <1>16, <1>17, <1>18, <1>19, <1>20, <1>21, <1>22, <1>23, <1>24, <1>25,
     <1>26, <1>27, <1>28, <1>29, <1>30, <1>31, <1>32, <1>33, <1>34, <1>35, <1>36, <1>37,
     <1>38 DEF Next, Call, Step

LEMMA PathStep ==
  ASSUME NumbersOK, RequestOK, CounterInv, Margin, Known, CalmInv, PathInv, SampleInv, ClockInv,
         Faults = {}, [Next]_vars
  PROVE  PathInv'
<1> USE DEF Known, CalmInv, PathInv, SampleInv, Idle, MustCapture, AfterShutdown, StartWindow,
        hardware, timer, motor, handoff, loop, history
<1>1. CASE \E r \in Requests, lag \in 0..MaxLag : Start(r, lag)
  BY <1>1 DEF Start, Busy, Cancel, Shutdown, ClearPendingCompletion, Disabled, Failed
<1>2. CASE Capture
  BY <1>2 DEF Capture, Begin
<1>3. CASE \E f \in BOOLEAN : Disable(f)
  BY <1>3 DEF Disable, Begin
<1>4. CASE HandleError
  BY <1>4 DEF HandleError, Begin
<1>5. CASE \E lag \in 0..MaxLag : Service(lag)
  BY <1>5 DEF Service, Begin
<1>6. CASE Guard
  BY <1>6 DEF Guard, Begin
<1>7. CASE OutputOff
  BY <1>7 DEF OutputOff, Disabled
<1>8. CASE CancelTimer
  BY <1>8 DEF CancelTimer, Cancel
<1>9. CASE DisableCleared
  BY <1>9 DEF DisableCleared, ClearRequest, ClearPendingCompletion, ClearActivePlan,
     Return, Disabled, IsDisabled, IsArmed
<1>10. CASE StartArm
  BY <1>10 DEF StartArm, Shutdown
<1>11. CASE ApplyCarriers
  BY <1>11 DEF ApplyCarriers, ApplyFails, Shutdown, Disabled
<1>12. CASE ApplyDrive
  BY <1>12 DEF ApplyDrive, ApplyFails, Shutdown, Disabled
<1>13. CASE CommitArm
  BY <1>13 DEF CommitArm, IrqHandler, IrqEvent, Cancel, Shutdown, Disabled
<1>14. CASE StartEnable
  BY <1>14 DEF StartEnable, Return
<1>15. CASE FailStart
  BY <1>15 DEF FailStart
<1>16. CASE ServiceTake1
  BY <1>16 DEF ServiceTake1, TakeOr
<1>17. CASE ServiceSnapshot
  BY <1>17 DEF ServiceSnapshot, IsDisabled
<1>18. CASE ServiceTake2
  BY <1>18 DEF ServiceTake2, TakeOr
<1>19. CASE ServiceInactive
  BY <1>19 DEF ServiceInactive, Cancel, Return, Disabled, IsArmed
<1>20. CASE ServiceActive
  BY <1>20 DEF ServiceActive, ServiceTest, IsArmed
<1>21. CASE ServiceRecheck
  BY <1>21 DEF ServiceRecheck, TakeOr, Shutdown
<1>22. CASE PublishCompletion
  BY <1>22 DEF PublishCompletion, Return, ClearActivePlan, Disabled, IsDisabled
<1>23. CASE ValidSnapshot
  BY <1>23 DEF ValidSnapshot, Answer, Return, IsDisabled
<1>24. CASE ValidOutput
  BY <1>24 DEF ValidOutput, ValidTest
<1>25. CASE ValidArmed
  BY <1>25 DEF ValidArmed, ValidTest, IsArmed
<1>26. CASE ValidHealthy
  BY <1>26 DEF ValidHealthy, Answer, Return
<1>27. CASE ValidRecheck
  BY <1>27 DEF ValidRecheck, Answer, Return, IsDisabled, IsArmed
<1>28. CASE GuardSnapshot
  BY <1>28 DEF GuardSnapshot, Shutdown, IsDisabled
<1>29. CASE GuardClassify
  BY <1>29 DEF GuardClassify, Shutdown
<1>30. CASE GuardInactive
  BY <1>30 DEF GuardInactive, Cancel, Return, Disabled, IsArmed
<1>31. CASE GuardValid
  BY <1>31 DEF GuardValid, Shutdown, Return
<1>32. CASE GuardInvalid
  BY <1>32 DEF GuardInvalid
<1>33. CASE GuardReport
  BY <1>33 DEF GuardReport
<1>34. CASE GuardPendingCompletion
  BY <1>34 DEF GuardPendingCompletion, Return, IsDisabled, IsArmed
<1>35. CASE TIM5_IRQHandler
  BY <1>35 DEF TIM5_IRQHandler, IrqHandler, IrqEvent, IrqReady, Cancel, Disabled
<1>36. CASE Tick
  BY <1>36 DEF Tick, IsArmed, IrqReady
<1>37. CASE UNCHANGED vars
  BY <1>37 DEF vars
<1>38. CASE Hardware
  BY <1>38 DEF Hardware, OutputDrops, OutputSurges, OutputSticks, Overcapture, Strike
<1>39. QED
  BY <1>1, <1>2, <1>3, <1>4, <1>5, <1>6, <1>7, <1>8, <1>9, <1>10, <1>11, <1>12, <1>13,
     <1>14, <1>15, <1>16, <1>17, <1>18, <1>19, <1>20, <1>21, <1>22, <1>23, <1>24, <1>25,
     <1>26, <1>27, <1>28, <1>29, <1>30, <1>31, <1>32, <1>33, <1>34, <1>35, <1>36, <1>37,
     <1>38 DEF Next, Call, Step

LEMMA SampleStep ==
  ASSUME NumbersOK, RequestOK, CounterInv, Margin, Known, CalmInv, PathInv, SampleInv, ClockInv,
         Faults = {}, [Next]_vars
  PROVE  SampleInv'
<1> USE DEF Known, CalmInv, PathInv, SampleInv, AfterShutdown, StartWindow,
        hardware, timer, motor, handoff, loop, history
<1>1. CASE \E r \in Requests, lag \in 0..MaxLag : Start(r, lag)
  BY <1>1 DEF Start, Busy, Cancel, Shutdown, ClearPendingCompletion, Disabled, Idle,
     MustCapture, Failed
<1>2. CASE Capture
  BY <1>2 DEF Capture, Begin, Idle, MustCapture
<1>3. CASE \E f \in BOOLEAN : Disable(f)
  BY <1>3 DEF Disable, Begin, Idle, MustCapture
<1>4. CASE HandleError
  BY <1>4 DEF HandleError, Begin, Idle, MustCapture
<1>5. CASE \E lag \in 0..MaxLag : Service(lag)
  <2>1. PICK lag \in 0..MaxLag : Service(lag)
    BY <1>5
  <2>2. /\ pc' = "take1" /\ op' = "Service"
        /\ UNCHANGED <<active, armed, pending, phys>>
    BY <2>1 DEF Service, Begin
  <2>4. pc = "idle"
    BY <2>1 DEF Service, Begin, Idle
  <2>5. armed => ~reached'
    BY <2>1, NotReached
  <2>6. QED
    BY <2>2, <2>4, <2>5
<1>6. CASE Guard
  BY <1>6 DEF Guard, Begin, Idle, MustCapture
<1>7. CASE OutputOff
  BY <1>7 DEF OutputOff, Disabled
<1>8. CASE CancelTimer
  BY <1>8 DEF CancelTimer, Cancel
<1>9. CASE DisableCleared
  BY <1>9 DEF DisableCleared, ClearRequest, ClearPendingCompletion, ClearActivePlan,
     Return, Disabled, IsDisabled, IsArmed, Idle, MustCapture
<1>10. CASE StartArm
  BY <1>10 DEF StartArm, Shutdown
<1>11. CASE ApplyCarriers
  BY <1>11 DEF ApplyCarriers, ApplyFails, Shutdown, Disabled
<1>12. CASE ApplyDrive
  BY <1>12 DEF ApplyDrive, ApplyFails, Shutdown, Disabled
<1>13. CASE CommitArm
  BY <1>13 DEF CommitArm, IrqHandler, IrqEvent, Cancel, Shutdown, Disabled
<1>14. CASE StartEnable
  BY <1>14 DEF StartEnable, Return, Idle, MustCapture
<1>15. CASE FailStart
  BY <1>15 DEF FailStart
<1>16. CASE ServiceTake1
  BY <1>16 DEF ServiceTake1, TakeOr
<1>17. CASE ServiceSnapshot
  BY <1>17 DEF ServiceSnapshot, IsDisabled
<1>18. CASE ServiceTake2
  BY <1>18 DEF ServiceTake2, TakeOr
<1>19. CASE ServiceInactive
  BY <1>19 DEF ServiceInactive, Cancel, Return, Disabled, IsArmed, Idle, MustCapture
<1>20. CASE ServiceActive
  <2>1. CASE active /\ ServiceTest("classify", ~healthy, "armed?")
    BY <2>1 DEF ServiceTest
  <2>2. CASE ServiceTest("armed?", ~IsArmed, "backstop?")
    BY <2>2 DEF ServiceTest, IsArmed
  <2>3. CASE ServiceTest("backstop?", reached, "output?")
    BY <2>3 DEF ServiceTest
  <2>4. CASE ServiceTest("output?", phys, "idle")
    BY <2>4 DEF ServiceTest
  <2>5. QED
    BY <1>20, <2>1, <2>2, <2>3, <2>4 DEF ServiceActive
<1>21. CASE ServiceRecheck
  BY <1>21 DEF ServiceRecheck, TakeOr, Shutdown
<1>22. CASE PublishCompletion
  BY <1>22 DEF PublishCompletion, Return, ClearActivePlan, Disabled, IsDisabled, Idle,
     MustCapture
<1>23. CASE ValidSnapshot
  BY <1>23 DEF ValidSnapshot, Answer, Return, IsDisabled, Idle, MustCapture
<1>24. CASE ValidOutput
  BY <1>24 DEF ValidOutput, ValidTest
<1>25. CASE ValidArmed
  BY <1>25 DEF ValidArmed, ValidTest, IsArmed
<1>26. CASE ValidHealthy
  BY <1>26 DEF ValidHealthy, Answer, Return, Idle, MustCapture
<1>27. CASE ValidRecheck
  BY <1>27 DEF ValidRecheck, Answer, Return, IsDisabled, IsArmed, Idle, MustCapture
<1>28. CASE GuardSnapshot
  BY <1>28 DEF GuardSnapshot, Shutdown, IsDisabled
<1>29. CASE GuardClassify
  BY <1>29 DEF GuardClassify, Shutdown
<1>30. CASE GuardInactive
  BY <1>30 DEF GuardInactive, Cancel, Return, Disabled, IsArmed, Idle, MustCapture
<1>31. CASE GuardValid
  BY <1>31 DEF GuardValid, Shutdown, Return, Idle, MustCapture
<1>32. CASE GuardInvalid
  BY <1>32 DEF GuardInvalid
<1>33. CASE GuardReport
  BY <1>33 DEF GuardReport
<1>34. CASE GuardPendingCompletion
  BY <1>34 DEF GuardPendingCompletion, Return, IsDisabled, IsArmed, Idle, MustCapture
<1>35. CASE TIM5_IRQHandler
  BY <1>35 DEF TIM5_IRQHandler, IrqHandler, IrqEvent, IrqReady, Cancel, Disabled, Idle,
     MustCapture
<1>36. CASE Tick
  BY <1>36 DEF Tick, Idle, IsArmed, IrqReady, MustCapture
<1>37. CASE UNCHANGED vars
  BY <1>37 DEF vars, Idle, MustCapture
<1>38. CASE Hardware
  BY <1>38 DEF Hardware, OutputDrops, OutputSurges, OutputSticks, Overcapture, Strike
<1>39. QED
  BY <1>1, <1>2, <1>3, <1>4, <1>5, <1>6, <1>7, <1>8, <1>9, <1>10, <1>11, <1>12, <1>13,
     <1>14, <1>15, <1>16, <1>17, <1>18, <1>19, <1>20, <1>21, <1>22, <1>23, <1>24, <1>25,
     <1>26, <1>27, <1>28, <1>29, <1>30, <1>31, <1>32, <1>33, <1>34, <1>35, <1>36, <1>37,
     <1>38 DEF Next, Call, Step

LEMMA ClockStep ==
  ASSUME NumbersOK, RequestOK, CounterInv, Margin, Known, CalmInv, PathInv, SampleInv, ClockInv,
         Faults = {}, [Next]_vars
  PROVE  ClockInv'
<1> USE DEF Known, ClockInv, PathInv, NumbersOK, AfterShutdown, StartWindow,
        hardware, timer, motor, handoff, loop, history
<1> USE BoundsAssumption DEF RequestOK, Directions
<1>1. CASE \E r \in Requests, lag \in 0..MaxLag : Start(r, lag)
  BY <1>1, StartInTime
<1>2. CASE Capture
  BY <1>2 DEF Capture, Begin, Idle, MustCapture
<1>3. CASE \E f \in BOOLEAN : Disable(f)
  BY <1>3 DEF Disable, Begin, Idle, MustCapture
<1>4. CASE HandleError
  BY <1>4 DEF HandleError, Begin, Idle, MustCapture
<1>5. CASE \E lag \in 0..MaxLag : Service(lag)
  BY <1>5 DEF Service, Begin, Idle, MustCapture
<1>6. CASE Guard
  BY <1>6 DEF Guard, Begin, Idle, MustCapture
<1>7. CASE OutputOff
  BY <1>7 DEF OutputOff, Disabled
<1>8. CASE CancelTimer
  BY <1>8 DEF CancelTimer, Cancel
<1>9. CASE DisableCleared
  BY <1>9 DEF DisableCleared, ClearRequest, ClearPendingCompletion, ClearActivePlan,
     Return, Disabled, IsDisabled, IsArmed, Idle, MustCapture
<1>10. CASE StartArm
  BY <1>10 DEF StartArm, Shutdown
<1>11. CASE ApplyCarriers
  BY <1>11 DEF ApplyCarriers, ApplyFails, Shutdown, Disabled
<1>12. CASE ApplyDrive
  BY <1>12 DEF ApplyDrive, ApplyFails, Shutdown, Disabled, CalmInv
<1>13. CASE CommitArm
  BY <1>13 DEF CommitArm, IrqHandler, IrqEvent, Cancel, Shutdown, Disabled, CalmInv
<1>14. CASE StartEnable
  BY <1>14 DEF StartEnable, Return, Idle, MustCapture
<1>15. CASE FailStart
  BY <1>15 DEF FailStart
<1>16. CASE ServiceTake1
  BY <1>16 DEF ServiceTake1, TakeOr
<1>17. CASE ServiceSnapshot
  BY <1>17 DEF ServiceSnapshot, IsDisabled
<1>18. CASE ServiceTake2
  BY <1>18 DEF ServiceTake2, TakeOr
<1>19. CASE ServiceInactive
  BY <1>19 DEF ServiceInactive, Cancel, Return, Disabled, IsArmed, Idle, MustCapture
<1>20. CASE ServiceActive
  BY <1>20 DEF ServiceActive, ServiceTest, IsArmed, Idle, MustCapture
<1>21. CASE ServiceRecheck
  BY <1>21 DEF ServiceRecheck, TakeOr, Shutdown
<1>22. CASE PublishCompletion
  BY <1>22 DEF PublishCompletion, Return, ClearActivePlan, Disabled, IsDisabled, Idle,
     MustCapture
<1>23. CASE ValidSnapshot
  BY <1>23 DEF ValidSnapshot, Answer, Return, IsDisabled, Idle, MustCapture
<1>24. CASE ValidOutput
  BY <1>24 DEF ValidOutput, ValidTest
<1>25. CASE ValidArmed
  BY <1>25 DEF ValidArmed, ValidTest, IsArmed
<1>26. CASE ValidHealthy
  BY <1>26 DEF ValidHealthy, Answer, Return, Idle, MustCapture
<1>27. CASE ValidRecheck
  BY <1>27 DEF ValidRecheck, Answer, Return, IsDisabled, IsArmed, Idle, MustCapture
<1>28. CASE GuardSnapshot
  BY <1>28 DEF GuardSnapshot, Shutdown, IsDisabled
<1>29. CASE GuardClassify
  BY <1>29 DEF GuardClassify, Shutdown
<1>30. CASE GuardInactive
  BY <1>30 DEF GuardInactive, Cancel, Return, Disabled, IsArmed, Idle, MustCapture
<1>31. CASE GuardValid
  BY <1>31 DEF GuardValid, Shutdown, Return, Idle, MustCapture
<1>32. CASE GuardInvalid
  BY <1>32 DEF GuardInvalid
<1>33. CASE GuardReport
  BY <1>33 DEF GuardReport
<1>34. CASE GuardPendingCompletion
  BY <1>34 DEF GuardPendingCompletion, Return, IsDisabled, IsArmed, Idle, MustCapture
<1>35. CASE TIM5_IRQHandler
  BY <1>35 DEF TIM5_IRQHandler, IrqHandler, IrqEvent, IrqReady, Cancel, Disabled, Idle,
     MustCapture
<1>36. CASE Tick
  BY <1>36, TickInTime DEF CalmInv
<1>37. CASE UNCHANGED vars
  BY <1>37 DEF vars, Idle, MustCapture
<1>38. CASE Hardware
  BY <1>38 DEF Hardware, OutputDrops, OutputSurges, OutputSticks, Overcapture, Strike
<1>39. QED
  BY <1>1, <1>2, <1>3, <1>4, <1>5, <1>6, <1>7, <1>8, <1>9, <1>10, <1>11, <1>12, <1>13,
     <1>14, <1>15, <1>16, <1>17, <1>18, <1>19, <1>20, <1>21, <1>22, <1>23, <1>24, <1>25,
     <1>26, <1>27, <1>28, <1>29, <1>30, <1>31, <1>32, <1>33, <1>34, <1>35, <1>36, <1>37,
     <1>38 DEF Next, Call, Step

-----------------------------------------------------------------------------
\* Main in time, no fault that may strike, and the invariant this adds.
Timely ==
  /\ Margin /\ Faults = {}
  /\ CalmInv /\ PathInv /\ SampleInv /\ ClockInv

\* Without hardware faults, and with a main loop that is in time, no interleaving with
\* the interrupt makes Service, Guard or a capture report an error, or an ERROR
\* completion: the rechecks of MotorExecutor_Service and
\* MotorExecutor_ActiveRequestIsValid are sufficient.
THEOREM NoErrorIsFalse == Margin /\ Faults = {} /\ Spec => []NoFalseError
<1>1. Margin /\ Faults = {} /\ Init => Timely
  BY BoundsAssumption
  DEF Init, Timely, CalmInv, PathInv, SampleInv, ClockInv, StartWindow, MustCapture, Idle
<1>2. TypeOK /\ Inv /\ CounterInv /\ Obedient /\ Timely /\ [Next]_vars => Timely'
  <2> SUFFICES ASSUME TypeOK, Inv, CounterInv, Obedient, Timely, [Next]_vars
               PROVE  CalmInv' /\ PathInv' /\ SampleInv' /\ ClockInv'
    BY DEF Timely, Margin
  <2>1. NumbersOK /\ RequestOK /\ Known
    BY WhatIsKnown DEF TypeOK, Obedient
  <2>2. QED
    BY <2>1, CalmStep, PathStep, SampleStep, ClockStep DEF Timely
<1>3. Timely => NoFalseError
  BY DEF Timely, CalmInv, PathInv, NoFalseError
<1>4. Faults = {} => Faults \cap {"surge", "stuck"} = {}
  OBVIOUS
<1>5. QED
  BY <1>1, <1>2, <1>3, <1>4, NeverAstray, TypeCorrect, Invariant, Counted, PTL DEF Spec
=============================================================================
