------------------------- MODULE MotorExecutorProofs -------------------------
(***************************************************************************)
(* Proofs about MotorExecutor, for every value of its constants: the types *)
(* of the variables, and the safety invariants from one inductive          *)
(* invariant, Inv.                                                         *)
(***************************************************************************)
EXTENDS MotorExecutor, TLAPS

\* Where a shutdown may go on: the timer is cancelled there.
AfterShutdown == {"cleared", "failstart", "publish", "guard5", "guardpended"}

\* A cancelled timer is masked and holds no flag.
TimerInv ==
  /\ ~armed => ~nvic /\ flags = {}
  /\ armed => completion = "NONE"

\* Start holds the interrupt masked from the arming to the commit, arms only while
\* the bridge is off, and drives from what the carriers left.
StartInv ==
  /\ pc \in StartWindow \cup {"arm"} =>
       ~pending /\ ~nvic /\ active /\ completion = "NONE" /\ fired = "NONE"
  /\ pc = "arm" => ~armed
  /\ pc \in {"arm", "carriers"} => (~astray => out = "OFF")
  /\ pc = "drive" => (~astray => out \in {"OFF", "ZERO"})
  /\ pc \in StartWindow => armed /\ healthy

\* A shutdown switches off before it cancels and cancels before it goes on.
ShutdownInv ==
  /\ next \in AfterShutdown
  /\ pc \in AfterShutdown \cup {"cancel"} => (~astray => out = "OFF")
  /\ pc \in AfterShutdown => ~armed
  /\ ~astray => ~stuck

\* The event in the handoff, or in Service's hands, is the interrupt's own.
HandoffInv ==
  /\ pending => ~armed /\ event = fired /\ (~astray => out = "OFF")
  /\ pc = "publish" => taken \in {"ERROR", fired}
  /\ pc \in {"off", "cancel"} /\ next = "publish" => taken = "ERROR"

Inv ==
  /\ TimerInv
  /\ StartInv
  /\ ShutdownInv
  /\ HandoffInv
  /\ DriveIsTimed
  /\ HonestCompletion
  /\ CompletionOwed

\* An armed timer has counted less than the normal duration or has raised the
\* compare flag.
CounterInv ==
  /\ armed => cnt < request.normal \/ "CC1" \in flags
  /\ pc = "arm" => request.normal > 0

-----------------------------------------------------------------------------
(* Types.                                                                  *)

\* Counters count up or start again.
LEMMA NumbersStep == NumbersOK /\ [Next]_vars => NumbersOK'
<1> USE DEF NumbersOK, timer, motor, history
<1>1. ASSUME NumbersOK, NEW r \in Requests, NEW lag \in 0..MaxLag, Start(r,
   lag) PROVE NumbersOK'
  BY <1>1, BoundsAssumption DEF Start, Busy, Cancel, Shutdown,
     ClearPendingCompletion, Disabled, Idle
<1>2. ASSUME NumbersOK, Capture PROVE NumbersOK'
  BY <1>2 DEF Capture, Begin, Idle
<1>3. ASSUME NumbersOK, NEW f \in BOOLEAN, Disable(f) PROVE NumbersOK'
  BY <1>3 DEF Disable, Begin, Idle
<1>4. ASSUME NumbersOK, HandleError PROVE NumbersOK'
  BY <1>4 DEF HandleError, Begin, Idle
<1>5. ASSUME NumbersOK, NEW lag \in 0..MaxLag, Service(lag) PROVE NumbersOK'
  BY <1>5 DEF Service, Begin, Idle
<1>6. ASSUME NumbersOK, Guard PROVE NumbersOK'
  BY <1>6 DEF Guard, Begin, Idle
<1>7. ASSUME NumbersOK, CancelTimer PROVE NumbersOK'
  BY <1>7 DEF CancelTimer, Cancel
<1>8. ASSUME NumbersOK, StartArm PROVE NumbersOK'
  BY <1>8 DEF StartArm, Shutdown
<1>9. ASSUME NumbersOK, ApplyCarriers PROVE NumbersOK'
  BY <1>9 DEF ApplyCarriers, ApplyFails, Shutdown, Disabled
<1>10. ASSUME NumbersOK, ApplyDrive PROVE NumbersOK'
  BY <1>10 DEF ApplyDrive, ApplyFails, Shutdown, Disabled
<1>11. ASSUME NumbersOK, CommitArm PROVE NumbersOK'
  BY <1>11 DEF CommitArm, IrqHandler, IrqEvent, Cancel, Shutdown, Disabled
<1>12. ASSUME NumbersOK, ServiceInactive PROVE NumbersOK'
  BY <1>12 DEF ServiceInactive, Cancel, Return, Disabled, IsArmed
<1>13. ASSUME NumbersOK, GuardInactive PROVE NumbersOK'
  BY <1>13 DEF GuardInactive, Cancel, Return, Disabled, IsArmed
<1>14. ASSUME NumbersOK, TIM5_IRQHandler PROVE NumbersOK'
  BY <1>14 DEF TIM5_IRQHandler, IrqHandler, IrqEvent, IrqReady, Cancel,
     Disabled
<1>15. ASSUME NumbersOK, Tick PROVE NumbersOK'
  BY <1>15 DEF Tick, Idle, IsArmed, IrqReady
<1>16. ASSUME NumbersOK, OutputDrops PROVE NumbersOK'
  BY <1>16 DEF OutputDrops, Strike
<1>17. ASSUME NumbersOK, OutputSurges PROVE NumbersOK'
  BY <1>17 DEF OutputSurges, Strike
<1>18. ASSUME NumbersOK, OutputSticks PROVE NumbersOK'
  BY <1>18 DEF OutputSticks, Strike
<1>19. ASSUME NumbersOK, Overcapture PROVE NumbersOK'
  BY <1>19 DEF Overcapture, Strike
<1>20. ASSUME NumbersOK, UNCHANGED <<cnt, seq, elapsed, stall>> PROVE NumbersOK'
  BY <1>20
<1>21. QED
  BY <1>1, <1>2, <1>3, <1>4, <1>5, <1>6, <1>7, <1>8, <1>9, <1>10, <1>11,
     <1>12, <1>13, <1>14, <1>15, <1>16, <1>17, <1>18, <1>19, <1>20 DEF Next,
     Call, Step, Hardware, vars, OutputOff, DisableCleared, ClearRequest,
     ClearPendingCompletion, ClearActivePlan, Return, StartEnable, FailStart,
     ServiceTake1, TakeOr, ServiceSnapshot, ServiceTake2, ServiceActive,
     ServiceTest, ServiceRecheck, Shutdown, PublishCompletion, ValidSnapshot,
     Answer, ValidOutput, ValidTest, ValidArmed, ValidHealthy, ValidRecheck,
     GuardSnapshot, GuardClassify, GuardValid, GuardInvalid, GuardReport,
     GuardPendingCompletion

\* Flags and samples are Booleans.
LEMMA BooleansStep == BooleansOK /\ [Next]_vars => BooleansOK'
<1> USE DEF BooleansOK, hardware, timer, motor, handoff, loop, history
<1>1. ASSUME BooleansOK, NEW r \in Requests, NEW lag \in 0..MaxLag, Start(r,
   lag) PROVE BooleansOK'
  BY <1>1 DEF Start, Busy, Cancel, Shutdown, ClearPendingCompletion, Disabled,
     Idle
<1>2. ASSUME BooleansOK, Capture PROVE BooleansOK'
  BY <1>2 DEF Capture, Begin, Idle
<1>3. ASSUME BooleansOK, NEW f \in BOOLEAN, Disable(f) PROVE BooleansOK'
  BY <1>3 DEF Disable, Begin, Idle
<1>4. ASSUME BooleansOK, HandleError PROVE BooleansOK'
  BY <1>4 DEF HandleError, Begin, Idle
<1>5. ASSUME BooleansOK, NEW lag \in 0..MaxLag, Service(lag) PROVE BooleansOK'
  BY <1>5 DEF Service, Begin, Idle
<1>6. ASSUME BooleansOK, Guard PROVE BooleansOK'
  BY <1>6 DEF Guard, Begin, Idle
<1>7. ASSUME BooleansOK, OutputOff PROVE BooleansOK'
  BY <1>7 DEF OutputOff, Disabled
<1>8. ASSUME BooleansOK, CancelTimer PROVE BooleansOK'
  BY <1>8 DEF CancelTimer, Cancel
<1>9. ASSUME BooleansOK, DisableCleared PROVE BooleansOK'
  BY <1>9 DEF DisableCleared, ClearRequest, ClearPendingCompletion,
     ClearActivePlan, Return, Disabled, IsDisabled, IsArmed
<1>10. ASSUME BooleansOK, StartArm PROVE BooleansOK'
  BY <1>10 DEF StartArm, Shutdown
<1>11. ASSUME BooleansOK, ApplyCarriers PROVE BooleansOK'
  BY <1>11 DEF ApplyCarriers, ApplyFails, Shutdown, Disabled
<1>12. ASSUME BooleansOK, ApplyDrive PROVE BooleansOK'
  BY <1>12 DEF ApplyDrive, ApplyFails, Shutdown, Disabled
<1>13. ASSUME BooleansOK, CommitArm PROVE BooleansOK'
  BY <1>13 DEF CommitArm, IrqHandler, IrqEvent, Cancel, Shutdown, Disabled
<1>14. ASSUME BooleansOK, StartEnable PROVE BooleansOK'
  BY <1>14 DEF StartEnable, Return
<1>15. ASSUME BooleansOK, FailStart PROVE BooleansOK'
  BY <1>15 DEF FailStart, ClearRequest, ClearPendingCompletion,
     ClearActivePlan, Return, IsDisabled
<1>16. ASSUME BooleansOK, ServiceTake1 PROVE BooleansOK'
  BY <1>16 DEF ServiceTake1, TakeOr
<1>17. ASSUME BooleansOK, ServiceSnapshot PROVE BooleansOK'
  BY <1>17 DEF ServiceSnapshot, IsDisabled
<1>18. ASSUME BooleansOK, ServiceTake2 PROVE BooleansOK'
  BY <1>18 DEF ServiceTake2, TakeOr
<1>19. ASSUME BooleansOK, ServiceInactive PROVE BooleansOK'
  BY <1>19 DEF ServiceInactive, Cancel, Return, Disabled, IsArmed
<1>20. ASSUME BooleansOK, ServiceActive PROVE BooleansOK'
  BY <1>20 DEF ServiceActive, ServiceTest, IsArmed
<1>21. ASSUME BooleansOK, ServiceRecheck PROVE BooleansOK'
  BY <1>21 DEF ServiceRecheck, TakeOr, Shutdown
<1>22. ASSUME BooleansOK, PublishCompletion PROVE BooleansOK'
  BY <1>22 DEF PublishCompletion, Return, ClearActivePlan, Disabled,
     IsDisabled
<1>23. ASSUME BooleansOK, ValidSnapshot PROVE BooleansOK'
  BY <1>23 DEF ValidSnapshot, Answer, Return, IsDisabled
<1>24. ASSUME BooleansOK, ValidOutput PROVE BooleansOK'
  BY <1>24 DEF ValidOutput, ValidTest
<1>25. ASSUME BooleansOK, ValidArmed PROVE BooleansOK'
  BY <1>25 DEF ValidArmed, ValidTest, IsArmed
<1>26. ASSUME BooleansOK, ValidHealthy PROVE BooleansOK'
  BY <1>26 DEF ValidHealthy, Answer, Return
<1>27. ASSUME BooleansOK, ValidRecheck PROVE BooleansOK'
  BY <1>27 DEF ValidRecheck, Answer, Return, IsDisabled, IsArmed
<1>28. ASSUME BooleansOK, GuardSnapshot PROVE BooleansOK'
  BY <1>28 DEF GuardSnapshot, Shutdown, IsDisabled
<1>29. ASSUME BooleansOK, GuardClassify PROVE BooleansOK'
  BY <1>29 DEF GuardClassify, Shutdown
<1>30. ASSUME BooleansOK, GuardInactive PROVE BooleansOK'
  BY <1>30 DEF GuardInactive, Cancel, Return, Disabled, IsArmed
<1>31. ASSUME BooleansOK, GuardValid PROVE BooleansOK'
  BY <1>31 DEF GuardValid, Shutdown, Return
<1>32. ASSUME BooleansOK, GuardInvalid PROVE BooleansOK'
  BY <1>32 DEF GuardInvalid, Shutdown
<1>33. ASSUME BooleansOK, GuardReport PROVE BooleansOK'
  BY <1>33 DEF GuardReport, Shutdown, Return, IsDisabled
<1>34. ASSUME BooleansOK, GuardPendingCompletion PROVE BooleansOK'
  BY <1>34 DEF GuardPendingCompletion, Return, IsDisabled, IsArmed
<1>35. ASSUME BooleansOK, TIM5_IRQHandler PROVE BooleansOK'
  BY <1>35 DEF TIM5_IRQHandler, IrqHandler, IrqEvent, IrqReady, Cancel,
     Disabled
<1>36. ASSUME BooleansOK, Tick PROVE BooleansOK'
  BY <1>36 DEF Tick, Idle, IsArmed, IrqReady
<1>37. ASSUME BooleansOK, OutputDrops PROVE BooleansOK'
  BY <1>37 DEF OutputDrops, Strike
<1>38. ASSUME BooleansOK, OutputSurges PROVE BooleansOK'
  BY <1>38 DEF OutputSurges, Strike
<1>39. ASSUME BooleansOK, OutputSticks PROVE BooleansOK'
  BY <1>39 DEF OutputSticks, Strike
<1>40. ASSUME BooleansOK, Overcapture PROVE BooleansOK'
  BY <1>40 DEF Overcapture, Strike
<1>41. ASSUME BooleansOK, UNCHANGED <<hardware, timer, motor, handoff, loop, history, phys, reached>> PROVE BooleansOK'
  BY <1>41
<1> HIDE DEF BooleansOK
<1>42. QED
  BY <1>1, <1>2, <1>3, <1>4, <1>5, <1>6, <1>7, <1>8, <1>9, <1>10, <1>11,
     <1>12, <1>13, <1>14, <1>15, <1>16, <1>17, <1>18, <1>19, <1>20, <1>21,
     <1>22, <1>23, <1>24, <1>25, <1>26, <1>27, <1>28, <1>29, <1>30, <1>31,
     <1>32, <1>33, <1>34, <1>35, <1>36, <1>37, <1>38, <1>39, <1>40, <1>41 DEF
     Next, Call, Step, Hardware, vars

\* The bridge and the timer's flags keep their ranges.
LEMMA BridgeStep == BridgeOK /\ RequestOK /\ [Next]_vars => BridgeOK'
<1> USE DEF BridgeOK, Flags, Directions, hardware, timer
<1>1. ASSUME BridgeOK /\ RequestOK, NEW r \in Requests, NEW lag \in 0..MaxLag,
   Start(r, lag) PROVE BridgeOK'
  BY <1>1 DEF Start, Busy, Cancel, Shutdown, ClearPendingCompletion, Disabled,
     Idle
<1>2. ASSUME BridgeOK /\ RequestOK, OutputOff PROVE BridgeOK'
  BY <1>2 DEF OutputOff, Disabled
<1>3. ASSUME BridgeOK /\ RequestOK, CancelTimer PROVE BridgeOK'
  BY <1>3 DEF CancelTimer, Cancel
<1>4. ASSUME BridgeOK /\ RequestOK, DisableCleared PROVE BridgeOK'
  BY <1>4 DEF DisableCleared, ClearRequest, ClearPendingCompletion,
     ClearActivePlan, Return, Disabled, IsDisabled, IsArmed
<1>5. ASSUME BridgeOK /\ RequestOK, StartArm PROVE BridgeOK'
  BY <1>5 DEF StartArm, Shutdown
<1>6. ASSUME BridgeOK /\ RequestOK, ApplyCarriers PROVE BridgeOK'
  BY <1>6 DEF ApplyCarriers, ApplyFails, Shutdown, Disabled
<1>7. ASSUME BridgeOK /\ RequestOK, ApplyDrive PROVE BridgeOK'
  BY <1>7 DEF RequestOK, ApplyDrive, ApplyFails, Shutdown, Disabled
<1>8. ASSUME BridgeOK /\ RequestOK, CommitArm PROVE BridgeOK'
  BY <1>8 DEF CommitArm, IrqHandler, IrqEvent, Cancel, Shutdown, Disabled
<1>9. ASSUME BridgeOK /\ RequestOK, ServiceInactive PROVE BridgeOK'
  BY <1>9 DEF ServiceInactive, Cancel, Return, Disabled, IsArmed
<1>10. ASSUME BridgeOK /\ RequestOK, PublishCompletion PROVE BridgeOK'
  BY <1>10 DEF PublishCompletion, Return, ClearActivePlan, Disabled,
     IsDisabled
<1>11. ASSUME BridgeOK /\ RequestOK, GuardInactive PROVE BridgeOK'
  BY <1>11 DEF GuardInactive, Cancel, Return, Disabled, IsArmed
<1>12. ASSUME BridgeOK /\ RequestOK, TIM5_IRQHandler PROVE BridgeOK'
  BY <1>12 DEF TIM5_IRQHandler, IrqHandler, IrqEvent, IrqReady, Cancel,
     Disabled
<1>13. ASSUME BridgeOK /\ RequestOK, Tick PROVE BridgeOK'
  BY <1>13 DEF Tick, Idle, IsArmed, IrqReady
<1>14. ASSUME BridgeOK /\ RequestOK, OutputDrops PROVE BridgeOK'
  BY <1>14 DEF OutputDrops, Strike
<1>15. ASSUME BridgeOK /\ RequestOK, OutputSurges PROVE BridgeOK'
  BY <1>15 DEF OutputSurges, Strike
<1>16. ASSUME BridgeOK /\ RequestOK, OutputSticks PROVE BridgeOK'
  BY <1>16 DEF OutputSticks, Strike
<1>17. ASSUME BridgeOK /\ RequestOK, Overcapture PROVE BridgeOK'
  BY <1>17 DEF Overcapture, Strike
<1>18. ASSUME BridgeOK /\ RequestOK, UNCHANGED <<out, flags>> PROVE BridgeOK'
  BY <1>18
<1>19. QED
  BY <1>1, <1>2, <1>3, <1>4, <1>5, <1>6, <1>7, <1>8, <1>9, <1>10, <1>11,
     <1>12, <1>13, <1>14, <1>15, <1>16, <1>17, <1>18 DEF Next, Call, Step,
     Hardware, vars, Capture, Begin, Disable, HandleError, Service, Guard,
     StartEnable, Return, FailStart, ClearRequest, ClearPendingCompletion,
     ClearActivePlan, ServiceTake1, TakeOr, ServiceSnapshot, ServiceTake2,
     ServiceActive, ServiceTest, ServiceRecheck, Shutdown, ValidSnapshot,
     Answer, ValidOutput, ValidTest, ValidArmed, ValidHealthy, ValidRecheck,
     GuardSnapshot, GuardClassify, GuardValid, GuardInvalid, GuardReport,
     GuardPendingCompletion

\* So do the request and the events that end it.
LEMMA RequestStep == RequestOK /\ [Next]_vars => RequestOK'
<1> USE DEF RequestOK, Events, Completions, motor, handoff, history
<1>1. ASSUME RequestOK, NEW r \in Requests, NEW lag \in 0..MaxLag, Start(r,
   lag) PROVE RequestOK'
  BY <1>1, RequestsAssumption DEF Start, Busy, Cancel, Shutdown,
     ClearPendingCompletion, Disabled, Idle
<1>2. ASSUME RequestOK, DisableCleared PROVE RequestOK'
  BY <1>2 DEF DisableCleared, ClearRequest, ClearPendingCompletion,
     ClearActivePlan, Return, Disabled, IsDisabled, IsArmed
<1>3. ASSUME RequestOK, CommitArm PROVE RequestOK'
  BY <1>3 DEF CommitArm, IrqHandler, IrqEvent, Cancel, Shutdown, Disabled
<1>4. ASSUME RequestOK, FailStart PROVE RequestOK'
  BY <1>4 DEF FailStart, ClearRequest, ClearPendingCompletion,
     ClearActivePlan, Return, IsDisabled
<1>5. ASSUME RequestOK, ServiceTake1 PROVE RequestOK'
  BY <1>5 DEF ServiceTake1, TakeOr
<1>6. ASSUME RequestOK, ServiceTake2 PROVE RequestOK'
  BY <1>6 DEF ServiceTake2, TakeOr
<1>7. ASSUME RequestOK, ServiceInactive PROVE RequestOK'
  BY <1>7 DEF ServiceInactive, Cancel, Return, Disabled, IsArmed
<1>8. ASSUME RequestOK, ServiceRecheck PROVE RequestOK'
  BY <1>8 DEF ServiceRecheck, TakeOr, Shutdown
<1>9. ASSUME RequestOK, PublishCompletion PROVE RequestOK'
  BY <1>9 DEF PublishCompletion, Return, ClearActivePlan, Disabled, IsDisabled
<1>10. ASSUME RequestOK, TIM5_IRQHandler PROVE RequestOK'
  BY <1>10 DEF TIM5_IRQHandler, IrqHandler, IrqEvent, IrqReady, Cancel,
     Disabled
<1>11. ASSUME RequestOK, UNCHANGED <<request, completion, fired, event, taken>> PROVE RequestOK'
  BY <1>11
<1>12. QED
  BY <1>1, <1>2, <1>3, <1>4, <1>5, <1>6, <1>7, <1>8, <1>9, <1>10, <1>11 DEF
     Next, Call, Step, Hardware, vars, Capture, Begin, Disable, HandleError,
     Service, Guard, OutputOff, CancelTimer, Cancel, StartArm, Shutdown,
     ApplyCarriers, ApplyFails, ApplyDrive, StartEnable, Return,
     ServiceSnapshot, ServiceActive, ServiceTest, ValidSnapshot, Answer,
     ValidOutput, ValidTest, ValidArmed, ValidHealthy, ValidRecheck,
     GuardSnapshot, GuardClassify, GuardInactive, GuardValid, GuardInvalid,
     GuardReport, GuardPendingCompletion, Tick, OutputDrops, Strike,
     OutputSurges, OutputSticks, Overcapture

\* So does main's position.
LEMMA MainStep == MainOK /\ [Next]_vars => MainOK'
<1> USE DEF MainOK, Steps, Operations, Results, loop
<1>1. ASSUME MainOK, NEW r \in Requests, NEW lag \in 0..MaxLag, Start(r, lag)
   PROVE MainOK'
  BY <1>1 DEF Start, Busy, Cancel, Shutdown, ClearPendingCompletion, Disabled,
     Idle
<1>2. ASSUME MainOK, Capture PROVE MainOK'
  BY <1>2 DEF Capture, Begin, Idle
<1>3. ASSUME MainOK, NEW f \in BOOLEAN, Disable(f) PROVE MainOK'
  BY <1>3 DEF Disable, Begin, Idle
<1>4. ASSUME MainOK, HandleError PROVE MainOK'
  BY <1>4 DEF HandleError, Begin, Idle
<1>5. ASSUME MainOK, NEW lag \in 0..MaxLag, Service(lag) PROVE MainOK'
  BY <1>5 DEF Service, Begin, Idle
<1>6. ASSUME MainOK, Guard PROVE MainOK'
  BY <1>6 DEF Guard, Begin, Idle
<1>7. ASSUME MainOK, OutputOff PROVE MainOK'
  BY <1>7 DEF OutputOff, Disabled
<1>8. ASSUME MainOK, CancelTimer PROVE MainOK'
  BY <1>8 DEF CancelTimer, Cancel
<1>9. ASSUME MainOK, DisableCleared PROVE MainOK'
  BY <1>9 DEF DisableCleared, ClearRequest, ClearPendingCompletion,
     ClearActivePlan, Return, Disabled, IsDisabled, IsArmed
<1>10. ASSUME MainOK, StartArm PROVE MainOK'
  BY <1>10 DEF StartArm, Shutdown
<1>11. ASSUME MainOK, ApplyCarriers PROVE MainOK'
  BY <1>11 DEF ApplyCarriers, ApplyFails, Shutdown, Disabled
<1>12. ASSUME MainOK, ApplyDrive PROVE MainOK'
  BY <1>12 DEF ApplyDrive, ApplyFails, Shutdown, Disabled
<1>13. ASSUME MainOK, CommitArm PROVE MainOK'
  BY <1>13 DEF CommitArm, IrqHandler, IrqEvent, Cancel, Shutdown, Disabled
<1>14. ASSUME MainOK, StartEnable PROVE MainOK'
  BY <1>14 DEF StartEnable, Return
<1>15. ASSUME MainOK, FailStart PROVE MainOK'
  BY <1>15 DEF FailStart, ClearRequest, ClearPendingCompletion,
     ClearActivePlan, Return, IsDisabled
<1>16. ASSUME MainOK, ServiceTake1 PROVE MainOK'
  BY <1>16 DEF ServiceTake1, TakeOr
<1>17. ASSUME MainOK, ServiceSnapshot PROVE MainOK'
  BY <1>17 DEF ServiceSnapshot, IsDisabled
<1>18. ASSUME MainOK, ServiceTake2 PROVE MainOK'
  BY <1>18 DEF ServiceTake2, TakeOr
<1>19. ASSUME MainOK, ServiceInactive PROVE MainOK'
  BY <1>19 DEF ServiceInactive, Cancel, Return, Disabled, IsArmed
<1>20. ASSUME MainOK, ServiceActive PROVE MainOK'
  BY <1>20 DEF ServiceActive, ServiceTest, IsArmed
<1>21. ASSUME MainOK, ServiceRecheck PROVE MainOK'
  BY <1>21 DEF ServiceRecheck, TakeOr, Shutdown
<1>22. ASSUME MainOK, PublishCompletion PROVE MainOK'
  BY <1>22 DEF PublishCompletion, Return, ClearActivePlan, Disabled,
     IsDisabled
<1>23. ASSUME MainOK, ValidSnapshot PROVE MainOK'
  BY <1>23 DEF ValidSnapshot, Answer, Return, IsDisabled
<1>24. ASSUME MainOK, ValidOutput PROVE MainOK'
  BY <1>24 DEF ValidOutput, ValidTest
<1>25. ASSUME MainOK, ValidArmed PROVE MainOK'
  BY <1>25 DEF ValidArmed, ValidTest, IsArmed
<1>26. ASSUME MainOK, ValidHealthy PROVE MainOK'
  BY <1>26 DEF ValidHealthy, Answer, Return
<1>27. ASSUME MainOK, ValidRecheck PROVE MainOK'
  BY <1>27 DEF ValidRecheck, Answer, Return, IsDisabled, IsArmed
<1>28. ASSUME MainOK, GuardSnapshot PROVE MainOK'
  BY <1>28 DEF GuardSnapshot, Shutdown, IsDisabled
<1>29. ASSUME MainOK, GuardClassify PROVE MainOK'
  BY <1>29 DEF GuardClassify, Shutdown
<1>30. ASSUME MainOK, GuardInactive PROVE MainOK'
  BY <1>30 DEF GuardInactive, Cancel, Return, Disabled, IsArmed
<1>31. ASSUME MainOK, GuardValid PROVE MainOK'
  BY <1>31 DEF GuardValid, Shutdown, Return
<1>32. ASSUME MainOK, GuardInvalid PROVE MainOK'
  BY <1>32 DEF GuardInvalid, Shutdown
<1>33. ASSUME MainOK, GuardReport PROVE MainOK'
  BY <1>33 DEF GuardReport, Shutdown, Return, IsDisabled
<1>34. ASSUME MainOK, GuardPendingCompletion PROVE MainOK'
  BY <1>34 DEF GuardPendingCompletion, Return, IsDisabled, IsArmed
<1>35. ASSUME MainOK, UNCHANGED <<pc, next, op, result, turn>> PROVE MainOK'
  BY <1>35
<1>36. QED
  BY <1>1, <1>2, <1>3, <1>4, <1>5, <1>6, <1>7, <1>8, <1>9, <1>10, <1>11,
     <1>12, <1>13, <1>14, <1>15, <1>16, <1>17, <1>18, <1>19, <1>20, <1>21,
     <1>22, <1>23, <1>24, <1>25, <1>26, <1>27, <1>28, <1>29, <1>30, <1>31,
     <1>32, <1>33, <1>34, <1>35 DEF Next, Call, Step, Hardware, vars,
     TIM5_IRQHandler, IrqHandler, IrqEvent, Cancel, Tick, OutputDrops, Strike,
     OutputSurges, OutputSticks, Overcapture

\* Every variable of the executor, its timer and the bridge keeps its type.
THEOREM TypeCorrect == Spec => []TypeOK
<1>1. Init => TypeOK
  <2>1. Init => NumbersOK
    BY DEF Init, NumbersOK
  <2>2. Init => BooleansOK
    BY DEF Init, BooleansOK
  <2>3. Init => BridgeOK /\ RequestOK
    BY DEF Init, BridgeOK, RequestOK, Flags, Directions, Events, Completions,
       NoRequest
  <2>4. Init => MainOK
    BY DEF Init, MainOK, Steps, Operations, Results
  <2>5. QED
    BY <2>1, <2>2, <2>3, <2>4 DEF TypeOK
<1>2. TypeOK /\ [Next]_vars => TypeOK'
  BY NumbersStep, BooleansStep, BridgeStep, RequestStep,
     MainStep DEF TypeOK
<1>3. QED
  BY <1>1, <1>2, PTL DEF Spec

-----------------------------------------------------------------------------
(* The inductive invariant.                                                *)

\* No step breaks the invariant.
LEMMA InvStep == NumbersOK /\ Inv /\ [Next]_vars => Inv'
<1> USE DEF NumbersOK, Inv, TimerInv, StartInv, ShutdownInv, HandoffInv,
   DriveIsTimed, HonestCompletion, CompletionOwed, AfterShutdown, StartWindow,
   hardware, timer, motor, handoff, loop, history
<1>1. ASSUME NumbersOK /\ Inv, NEW r \in Requests, NEW lag \in 0..MaxLag,
   Start(r, lag) PROVE Inv'
  BY <1>1 DEF Start, Busy, Cancel, Shutdown, ClearPendingCompletion, Disabled,
     Idle
<1>2. ASSUME NumbersOK /\ Inv, Capture PROVE Inv'
  BY <1>2 DEF Capture, Begin, Idle
<1>3. ASSUME NumbersOK /\ Inv, NEW f \in BOOLEAN, Disable(f) PROVE Inv'
  BY <1>3 DEF Disable, Begin, Idle
<1>4. ASSUME NumbersOK /\ Inv, HandleError PROVE Inv'
  BY <1>4 DEF HandleError, Begin, Idle
<1>5. ASSUME NumbersOK /\ Inv, NEW lag \in 0..MaxLag, Service(lag) PROVE Inv'
  BY <1>5 DEF Service, Begin, Idle
<1>6. ASSUME NumbersOK /\ Inv, Guard PROVE Inv'
  BY <1>6 DEF Guard, Begin, Idle
<1>7. ASSUME NumbersOK /\ Inv, OutputOff PROVE Inv'
  BY <1>7 DEF OutputOff, Disabled
<1>8. ASSUME NumbersOK /\ Inv, CancelTimer PROVE Inv'
  BY <1>8 DEF CancelTimer, Cancel
<1>9. ASSUME NumbersOK /\ Inv, DisableCleared PROVE Inv'
  BY <1>9 DEF DisableCleared, ClearRequest, ClearPendingCompletion,
     ClearActivePlan, Return, Disabled, IsDisabled, IsArmed
<1>10. ASSUME NumbersOK /\ Inv, StartArm PROVE Inv'
  BY <1>10 DEF StartArm, Shutdown
<1>11. ASSUME NumbersOK /\ Inv, ApplyCarriers PROVE Inv'
  BY <1>11 DEF ApplyCarriers, ApplyFails, Shutdown, Disabled
<1>12. ASSUME NumbersOK /\ Inv, ApplyDrive PROVE Inv'
  BY <1>12 DEF ApplyDrive, ApplyFails, Shutdown, Disabled
<1>13. ASSUME NumbersOK /\ Inv, CommitArm PROVE Inv'
  BY <1>13 DEF CommitArm, IrqHandler, IrqEvent, Cancel, Shutdown, Disabled
<1>14. ASSUME NumbersOK /\ Inv, StartEnable PROVE Inv'
  BY <1>14 DEF StartEnable, Return
<1>15. ASSUME NumbersOK /\ Inv, FailStart PROVE Inv'
  BY <1>15 DEF FailStart, ClearRequest, ClearPendingCompletion,
     ClearActivePlan, Return, IsDisabled
<1>16. ASSUME NumbersOK /\ Inv, ServiceTake1 PROVE Inv'
  BY <1>16 DEF ServiceTake1, TakeOr
<1>17. ASSUME NumbersOK /\ Inv, ServiceSnapshot PROVE Inv'
  BY <1>17 DEF ServiceSnapshot, IsDisabled
<1>18. ASSUME NumbersOK /\ Inv, ServiceTake2 PROVE Inv'
  BY <1>18 DEF ServiceTake2, TakeOr
<1>19. ASSUME NumbersOK /\ Inv, ServiceInactive PROVE Inv'
  BY <1>19 DEF ServiceInactive, Cancel, Return, Disabled, IsArmed
<1>20. ASSUME NumbersOK /\ Inv, ServiceActive PROVE Inv'
  BY <1>20 DEF ServiceActive, ServiceTest, IsArmed
<1>21. ASSUME NumbersOK /\ Inv, ServiceRecheck PROVE Inv'
  BY <1>21 DEF ServiceRecheck, TakeOr, Shutdown
<1>22. ASSUME NumbersOK /\ Inv, PublishCompletion PROVE Inv'
  BY <1>22 DEF PublishCompletion, Return, ClearActivePlan, Disabled,
     IsDisabled
<1>23. ASSUME NumbersOK /\ Inv, ValidSnapshot PROVE Inv'
  BY <1>23 DEF ValidSnapshot, Answer, Return, IsDisabled
<1>24. ASSUME NumbersOK /\ Inv, ValidOutput PROVE Inv'
  BY <1>24 DEF ValidOutput, ValidTest
<1>25. ASSUME NumbersOK /\ Inv, ValidArmed PROVE Inv'
  BY <1>25 DEF ValidArmed, ValidTest, IsArmed
<1>26. ASSUME NumbersOK /\ Inv, ValidHealthy PROVE Inv'
  BY <1>26 DEF ValidHealthy, Answer, Return
<1>27. ASSUME NumbersOK /\ Inv, ValidRecheck PROVE Inv'
  BY <1>27 DEF ValidRecheck, Answer, Return, IsDisabled, IsArmed
<1>28. ASSUME NumbersOK /\ Inv, GuardSnapshot PROVE Inv'
  BY <1>28 DEF GuardSnapshot, Shutdown, IsDisabled
<1>29. ASSUME NumbersOK /\ Inv, GuardClassify PROVE Inv'
  BY <1>29 DEF GuardClassify, Shutdown
<1>30. ASSUME NumbersOK /\ Inv, GuardInactive PROVE Inv'
  BY <1>30 DEF GuardInactive, Cancel, Return, Disabled, IsArmed
<1>31. ASSUME NumbersOK /\ Inv, GuardValid PROVE Inv'
  BY <1>31 DEF GuardValid, Shutdown, Return
<1>32. ASSUME NumbersOK /\ Inv, GuardInvalid PROVE Inv'
  BY <1>32 DEF GuardInvalid, Shutdown
<1>33. ASSUME NumbersOK /\ Inv, GuardReport PROVE Inv'
  BY <1>33 DEF GuardReport, Shutdown, Return, IsDisabled
<1>34. ASSUME NumbersOK /\ Inv, GuardPendingCompletion PROVE Inv'
  BY <1>34 DEF GuardPendingCompletion, Return, IsDisabled, IsArmed
<1>35. ASSUME NumbersOK /\ Inv, TIM5_IRQHandler PROVE Inv'
  BY <1>35 DEF TIM5_IRQHandler, IrqHandler, IrqEvent, IrqReady, Cancel,
     Disabled
<1>36. ASSUME NumbersOK /\ Inv, Tick PROVE Inv'
  BY <1>36 DEF Tick, Idle, IsArmed, IrqReady
<1>37. ASSUME NumbersOK /\ Inv, OutputDrops PROVE Inv'
  BY <1>37 DEF OutputDrops, Strike
<1>38. ASSUME NumbersOK /\ Inv, OutputSurges PROVE Inv'
  BY <1>38 DEF OutputSurges, Strike
<1>39. ASSUME NumbersOK /\ Inv, OutputSticks PROVE Inv'
  BY <1>39 DEF OutputSticks, Strike
<1>40. ASSUME NumbersOK /\ Inv, Overcapture PROVE Inv'
  BY <1>40 DEF Overcapture, Strike
<1>41. ASSUME NumbersOK /\ Inv, UNCHANGED vars PROVE Inv'
  BY <1>41 DEF vars
<1> HIDE DEF NumbersOK, Inv
<1>42. QED
  BY <1>1, <1>2, <1>3, <1>4, <1>5, <1>6, <1>7, <1>8, <1>9, <1>10, <1>11,
     <1>12, <1>13, <1>14, <1>15, <1>16, <1>17, <1>18, <1>19, <1>20, <1>21,
     <1>22, <1>23, <1>24, <1>25, <1>26, <1>27, <1>28, <1>29, <1>30, <1>31,
     <1>32, <1>33, <1>34, <1>35, <1>36, <1>37, <1>38, <1>39, <1>40, <1>41 DEF
     Next, Call, Step, Hardware

\* The invariant holds in every state the program reaches.
THEOREM Invariant == Spec => []Inv
<1>1. Init => Inv
  BY DEF Init, Inv, TimerInv, StartInv, ShutdownInv, HandoffInv, DriveIsTimed,
     HonestCompletion, CompletionOwed, AfterShutdown, StartWindow
<1>2. NumbersOK /\ Inv /\ [Next]_vars => Inv'
  BY InvStep
<1>3. TypeOK => NumbersOK
  BY DEF TypeOK
<1>4. QED
  BY <1>1, <1>2, <1>3, TypeCorrect, PTL DEF Spec

\* For any requests, any stall of main and any lag of its clock, a bridge that is
\* not off has its stop timer running: also after a failed apply, a lost output or
\* a timer fault, and until the bridge drives or stays on by itself.
THEOREM TimedDrive == Spec => []DriveIsTimed
<1>1. Inv => DriveIsTimed
  BY DEF Inv
<1>2. QED
  BY <1>1, Invariant, PTL

\* One slot for the event is enough, with hardware faults and without.
THEOREM QuietHandoff == Spec => []PendingIsQuiet
<1>1. Inv => PendingIsQuiet
  BY DEF Inv, TimerInv, HandoffInv, PendingIsQuiet
<1>2. QED
  BY <1>1, Invariant, PTL

\* NORMAL and BACKSTOP are never made up, with hardware faults and without.
THEOREM HonestEvents == Spec => []HonestCompletion
<1>1. Inv => HonestCompletion
  BY DEF Inv
<1>2. QED
  BY <1>1, Invariant, PTL

\* The event of the interrupt reaches Service unless a Disable discards it.
THEOREM OwedEvents == Spec => []CompletionOwed
<1>1. Inv => CompletionOwed
  BY DEF Inv
<1>2. QED
  BY <1>1, Invariant, PTL

-----------------------------------------------------------------------------
(* The counter.                                                            *)

\* Only the clock moves the counter, and it raises the compare flag on its way.
LEMMA CounterStep == TypeOK /\ Inv /\ CounterInv /\ [Next]_vars => CounterInv'
<1> USE DEF CounterInv, hardware, timer, motor, handoff, loop, history
<1>1. ASSUME TypeOK /\ Inv /\ CounterInv, NEW r \in Requests, NEW lag \in
   0..MaxLag, Start(r, lag) PROVE CounterInv'
  BY <1>1, RequestsAssumption DEF Start, Busy, Cancel, Shutdown,
     ClearPendingCompletion, Disabled, Idle
<1>2. ASSUME TypeOK /\ Inv /\ CounterInv, Capture PROVE CounterInv'
  BY <1>2 DEF Capture, Begin, Idle
<1>3. ASSUME TypeOK /\ Inv /\ CounterInv, NEW f \in BOOLEAN, Disable(f) PROVE
   CounterInv'
  BY <1>3 DEF Disable, Begin, Idle
<1>4. ASSUME TypeOK /\ Inv /\ CounterInv, HandleError PROVE CounterInv'
  BY <1>4 DEF HandleError, Begin, Idle
<1>5. ASSUME TypeOK /\ Inv /\ CounterInv, NEW lag \in 0..MaxLag, Service(lag)
   PROVE CounterInv'
  BY <1>5 DEF Service, Begin, Idle
<1>6. ASSUME TypeOK /\ Inv /\ CounterInv, Guard PROVE CounterInv'
  BY <1>6 DEF Guard, Begin, Idle
<1>7. ASSUME TypeOK /\ Inv /\ CounterInv, OutputOff PROVE CounterInv'
  BY <1>7 DEF OutputOff, Disabled
<1>8. ASSUME TypeOK /\ Inv /\ CounterInv, CancelTimer PROVE CounterInv'
  BY <1>8 DEF CancelTimer, Cancel, Inv, ShutdownInv, AfterShutdown
<1>9. ASSUME TypeOK /\ Inv /\ CounterInv, DisableCleared PROVE CounterInv'
  BY <1>9 DEF DisableCleared, ClearRequest, ClearPendingCompletion,
     ClearActivePlan, Return, Disabled, IsDisabled, IsArmed
<1>10. ASSUME TypeOK /\ Inv /\ CounterInv, StartArm PROVE CounterInv'
  BY <1>10 DEF StartArm, Shutdown
<1>11. ASSUME TypeOK /\ Inv /\ CounterInv, ApplyCarriers PROVE CounterInv'
  BY <1>11 DEF ApplyCarriers, ApplyFails, Shutdown, Disabled
<1>12. ASSUME TypeOK /\ Inv /\ CounterInv, ApplyDrive PROVE CounterInv'
  BY <1>12 DEF ApplyDrive, ApplyFails, Shutdown, Disabled
<1>13. ASSUME TypeOK /\ Inv /\ CounterInv, CommitArm PROVE CounterInv'
  BY <1>13 DEF CommitArm, IrqHandler, IrqEvent, Cancel, Shutdown, Disabled
<1>14. ASSUME TypeOK /\ Inv /\ CounterInv, StartEnable PROVE CounterInv'
  BY <1>14 DEF StartEnable, Return
<1>15. ASSUME TypeOK /\ Inv /\ CounterInv, FailStart PROVE CounterInv'
  BY <1>15 DEF FailStart, ClearRequest, ClearPendingCompletion,
     ClearActivePlan, Return, IsDisabled
<1>16. ASSUME TypeOK /\ Inv /\ CounterInv, ServiceTake1 PROVE CounterInv'
  BY <1>16 DEF ServiceTake1, TakeOr
<1>17. ASSUME TypeOK /\ Inv /\ CounterInv, ServiceSnapshot PROVE CounterInv'
  BY <1>17 DEF ServiceSnapshot, IsDisabled
<1>18. ASSUME TypeOK /\ Inv /\ CounterInv, ServiceTake2 PROVE CounterInv'
  BY <1>18 DEF ServiceTake2, TakeOr
<1>19. ASSUME TypeOK /\ Inv /\ CounterInv, ServiceInactive PROVE CounterInv'
  BY <1>19 DEF ServiceInactive, Cancel, Return, Disabled, IsArmed
<1>20. ASSUME TypeOK /\ Inv /\ CounterInv, ServiceActive PROVE CounterInv'
  BY <1>20 DEF ServiceActive, ServiceTest, IsArmed
<1>21. ASSUME TypeOK /\ Inv /\ CounterInv, ServiceRecheck PROVE CounterInv'
  BY <1>21 DEF ServiceRecheck, TakeOr, Shutdown
<1>22. ASSUME TypeOK /\ Inv /\ CounterInv, PublishCompletion PROVE CounterInv'
  BY <1>22 DEF PublishCompletion, Return, ClearActivePlan, Disabled,
     IsDisabled
<1>23. ASSUME TypeOK /\ Inv /\ CounterInv, ValidSnapshot PROVE CounterInv'
  BY <1>23 DEF ValidSnapshot, Answer, Return, IsDisabled
<1>24. ASSUME TypeOK /\ Inv /\ CounterInv, ValidOutput PROVE CounterInv'
  BY <1>24 DEF ValidOutput, ValidTest
<1>25. ASSUME TypeOK /\ Inv /\ CounterInv, ValidArmed PROVE CounterInv'
  BY <1>25 DEF ValidArmed, ValidTest, IsArmed
<1>26. ASSUME TypeOK /\ Inv /\ CounterInv, ValidHealthy PROVE CounterInv'
  BY <1>26 DEF ValidHealthy, Answer, Return
<1>27. ASSUME TypeOK /\ Inv /\ CounterInv, ValidRecheck PROVE CounterInv'
  BY <1>27 DEF ValidRecheck, Answer, Return, IsDisabled, IsArmed
<1>28. ASSUME TypeOK /\ Inv /\ CounterInv, GuardSnapshot PROVE CounterInv'
  BY <1>28 DEF GuardSnapshot, Shutdown, IsDisabled
<1>29. ASSUME TypeOK /\ Inv /\ CounterInv, GuardClassify PROVE CounterInv'
  BY <1>29 DEF GuardClassify, Shutdown
<1>30. ASSUME TypeOK /\ Inv /\ CounterInv, GuardInactive PROVE CounterInv'
  BY <1>30 DEF GuardInactive, Cancel, Return, Disabled, IsArmed
<1>31. ASSUME TypeOK /\ Inv /\ CounterInv, GuardValid PROVE CounterInv'
  BY <1>31 DEF GuardValid, Shutdown, Return
<1>32. ASSUME TypeOK /\ Inv /\ CounterInv, GuardInvalid PROVE CounterInv'
  BY <1>32 DEF GuardInvalid, Shutdown
<1>33. ASSUME TypeOK /\ Inv /\ CounterInv, GuardReport PROVE CounterInv'
  BY <1>33 DEF GuardReport, Shutdown, Return, IsDisabled
<1>34. ASSUME TypeOK /\ Inv /\ CounterInv, GuardPendingCompletion PROVE
   CounterInv'
  BY <1>34 DEF GuardPendingCompletion, Return, IsDisabled, IsArmed
<1>35. ASSUME TypeOK /\ Inv /\ CounterInv, TIM5_IRQHandler PROVE CounterInv'
  BY <1>35 DEF TIM5_IRQHandler, IrqHandler, IrqEvent, IrqReady, Cancel,
     Disabled
<1>36. ASSUME TypeOK /\ Inv /\ CounterInv, Tick PROVE CounterInv'
  BY <1>36 DEF Tick, Idle, IsArmed, IrqReady, TypeOK, NumbersOK, RequestOK
<1>37. ASSUME TypeOK /\ Inv /\ CounterInv, OutputDrops PROVE CounterInv'
  BY <1>37 DEF OutputDrops, Strike
<1>38. ASSUME TypeOK /\ Inv /\ CounterInv, OutputSurges PROVE CounterInv'
  BY <1>38 DEF OutputSurges, Strike
<1>39. ASSUME TypeOK /\ Inv /\ CounterInv, OutputSticks PROVE CounterInv'
  BY <1>39 DEF OutputSticks, Strike
<1>40. ASSUME TypeOK /\ Inv /\ CounterInv, Overcapture PROVE CounterInv'
  BY <1>40 DEF Overcapture, Strike
<1>41. ASSUME TypeOK /\ Inv /\ CounterInv, UNCHANGED vars PROVE CounterInv'
  BY <1>41 DEF vars
<1> HIDE DEF CounterInv
<1>42. QED
  BY <1>1, <1>2, <1>3, <1>4, <1>5, <1>6, <1>7, <1>8, <1>9, <1>10, <1>11,
     <1>12, <1>13, <1>14, <1>15, <1>16, <1>17, <1>18, <1>19, <1>20, <1>21,
     <1>22, <1>23, <1>24, <1>25, <1>26, <1>27, <1>28, <1>29, <1>30, <1>31,
     <1>32, <1>33, <1>34, <1>35, <1>36, <1>37, <1>38, <1>39, <1>40, <1>41 DEF
     Next, Call, Step, Hardware

\* The counter and the compare flag agree.
LEMMA Counted == Spec => []CounterInv
<1>1. Init => CounterInv
  BY DEF Init, CounterInv
<1>2. TypeOK /\ Inv /\ CounterInv /\ [Next]_vars => CounterInv'
  BY CounterStep
<1>3. QED
  BY <1>1, <1>2, TypeCorrect, Invariant, PTL DEF Spec

\* The drive is within its duration or the interrupt that ends it is ready.
THEOREM EndsOnTime == Spec => []DriveEndsOnTime
<1>1. Inv /\ CounterInv => DriveEndsOnTime
  BY DEF Inv, DriveIsTimed, CounterInv, DriveEndsOnTime, IrqReady
<1>2. QED
  BY <1>1, Counted, Invariant, PTL

-----------------------------------------------------------------------------
(* FAULT, whatever hardware faults strike.                                 *)

\* A machine in FAULT is inside the shutdown that entered it, or has ended one
\* since: then nothing that still runs finds a request, an event or a timer, and
\* the bridge is off unless it no longer obeys, or was disturbed since the guard
\* that now looks at it, or the one before, began.
FaultInv ==
  fault =>
    /\ op \in {"Disable", "Service", "Guard"}
    /\ \/ pc \in {"off", "cancel", "cleared"} /\ next = "cleared"
       \/ /\ pc \in {"idle", "take1", "snapshot", "take2", "classify",
                     "guard1", "guard2"}
          /\ ~armed /\ ~active /\ ~pending
          /\ pc \notin {"guard1", "guard2"} /\ ~stuck /\ ~dirty => out = "OFF"

\* Shutting down, a machine ends quiet.
LEMMA FaultShutdown ==
  ASSUME TypeOK, Inv, FaultInv,
         \/ \E f \in BOOLEAN : Disable(f)
         \/ HandleError \/ OutputOff \/ CancelTimer \/ DisableCleared
  PROVE  FaultInv'
<1>1. CASE HandleError \/ \E f \in BOOLEAN : Disable(f)
  BY <1>1 DEF HandleError, Disable, Begin, FaultInv
<1>2. CASE OutputOff
  BY <1>2 DEF OutputOff, FaultInv, loop
<1>3. CASE CancelTimer
  BY <1>3 DEF CancelTimer, FaultInv, loop
<1>4. CASE DisableCleared
  <2>1. ~armed
    BY <1>4 DEF DisableCleared, Inv, ShutdownInv, AfterShutdown
  <2>2. pc' = "idle" /\ ~active' /\ ~pending' /\ UNCHANGED <<stuck, armed, op, fault>>
    BY <1>4 DEF DisableCleared, ClearRequest, ClearPendingCompletion,
       ClearActivePlan, Return, timer, loop
  <2>3. ~stuck => out' = "OFF"
    BY <1>4 DEF DisableCleared, IsDisabled, Disabled
  <2>4. QED
    BY <2>1, <2>2, <2>3 DEF FaultInv
<1>5. QED
  BY <1>1, <1>2, <1>3, <1>4

\* Service and guard find nothing to do but to switch off.
LEMMA FaultService ==
  ASSUME FaultInv,
         \/ \E lag \in 0..MaxLag : Service(lag)
         \/ ServiceTake1 \/ ServiceSnapshot \/ ServiceTake2 \/ ServiceInactive
  PROVE  FaultInv'
<1>1. CASE \E lag \in 0..MaxLag : Service(lag)
  BY <1>1 DEF Service, Begin, Idle, FaultInv, hardware, timer, motor, handoff, history
<1>2. CASE ServiceTake1 \/ ServiceSnapshot \/ ServiceTake2
  BY <1>2 DEF ServiceTake1, ServiceSnapshot, ServiceTake2, TakeOr, FaultInv, hardware,
     timer, motor, handoff, loop, history
<1>3. CASE ServiceInactive
  BY <1>3 DEF ServiceInactive, Cancel, Return, Disabled, FaultInv, handoff, loop,
     history
<1>4. QED
  BY <1>1, <1>2, <1>3

LEMMA FaultGuard ==
  ASSUME FaultInv, Guard \/ GuardSnapshot \/ GuardClassify \/ GuardInactive
  PROVE  FaultInv'
<1>1. CASE Guard
  BY <1>1 DEF Guard, Begin, Idle, FaultInv, hardware, timer, motor, handoff
<1>2. CASE GuardSnapshot \/ GuardClassify
  BY <1>2 DEF GuardSnapshot, GuardClassify, Shutdown, FaultInv, hardware, timer, motor,
     handoff, loop, history
<1>3. CASE GuardInactive
  BY <1>3 DEF GuardInactive, Cancel, Return, Disabled, FaultInv, motor, handoff, loop,
     history
<1>4. QED
  BY <1>1, <1>2, <1>3

\* The clock, the interrupt, which is masked, and what disturbs the output.
LEMMA FaultAround ==
  ASSUME TypeOK, Inv, FaultInv, TIM5_IRQHandler \/ Tick \/ Hardware \/ UNCHANGED vars
  PROVE  FaultInv'
<1>1. CASE TIM5_IRQHandler
  <2>1. armed
    BY <1>1 DEF TIM5_IRQHandler, IrqReady, Inv, TimerInv
  <2>2. QED
    BY <1>1, <2>1 DEF TIM5_IRQHandler, FaultInv, loop
<1>2. CASE Tick \/ UNCHANGED vars
  BY <1>2 DEF Tick, vars, FaultInv, hardware, timer, motor, handoff, loop, history
<1>3. CASE OutputDrops \/ OutputSurges
  BY <1>3 DEF OutputDrops, OutputSurges, Strike, FaultInv, motor, handoff, loop
<1>4. CASE OutputSticks \/ Overcapture
  BY <1>4 DEF OutputSticks, Overcapture, Strike, FaultInv, motor, handoff, loop
<1>5. QED
  BY <1>1, <1>2, <1>3, <1>4 DEF Hardware

\* No other step is one of a machine in FAULT.
LEMMA FaultElsewhere ==
  ASSUME FaultInv,
         \/ \E r \in Requests, lag \in 0..MaxLag : Start(r, lag)
         \/ Capture
         \/ StartArm \/ ApplyCarriers \/ ApplyDrive \/ CommitArm \/ StartEnable
         \/ FailStart
         \/ ServiceActive \/ ServiceRecheck \/ PublishCompletion
         \/ ValidSnapshot \/ ValidOutput \/ ValidArmed \/ ValidHealthy \/ ValidRecheck
         \/ GuardValid \/ GuardInvalid \/ GuardReport \/ GuardPendingCompletion
  PROVE  ~fault /\ ~fault'
<1>1. CASE \E r \in Requests, lag \in 0..MaxLag : Start(r, lag)
  BY <1>1 DEF Start, loop
<1>2. CASE Capture
  BY <1>2 DEF Capture, MustCapture, FaultInv, loop
<1>3. CASE StartArm \/ ApplyCarriers \/ ApplyDrive \/ CommitArm \/ StartEnable
           \/ FailStart
  BY <1>3 DEF StartArm, ApplyCarriers, ApplyDrive, CommitArm, StartEnable, FailStart,
     FaultInv, loop
<1>4. CASE ServiceActive \/ ServiceRecheck \/ PublishCompletion
  BY <1>4 DEF ServiceActive, ServiceTest, ServiceRecheck, PublishCompletion, FaultInv,
     loop
<1>5. CASE ValidSnapshot \/ ValidOutput \/ ValidArmed \/ ValidHealthy \/ ValidRecheck
  <2>1. pc \in {"valid1", "valid2", "valid3", "valid4", "valid5"} /\ fault' = fault
    <3>1. CASE ValidSnapshot
      BY <3>1 DEF ValidSnapshot, loop
    <3>2. CASE ValidOutput
      BY <3>2 DEF ValidOutput, ValidTest, loop
    <3>3. CASE ValidArmed
      BY <3>3 DEF ValidArmed, ValidTest, loop
    <3>4. CASE ValidHealthy
      BY <3>4 DEF ValidHealthy, loop
    <3>5. CASE ValidRecheck
      BY <3>5 DEF ValidRecheck, loop
    <3>6. QED
      BY <1>5, <3>1, <3>2, <3>3, <3>4, <3>5
  <2>2. QED
    BY <2>1 DEF FaultInv
<1>6. CASE GuardValid \/ GuardInvalid \/ GuardReport \/ GuardPendingCompletion
  BY <1>6 DEF GuardValid, GuardInvalid, GuardReport, GuardPendingCompletion, FaultInv,
     loop
<1>7. QED
  BY <1>1, <1>2, <1>3, <1>4, <1>5, <1>6

LEMMA FaultStep == TypeOK /\ Inv /\ FaultInv /\ [Next]_vars => FaultInv'
<1>1. SUFFICES ASSUME TypeOK, Inv, FaultInv, [Next]_vars PROVE FaultInv'
  OBVIOUS
<1>2. ASSUME ~fault' PROVE FaultInv'
  BY <1>2 DEF FaultInv
<1>3. CASE Call
  BY <1>1, <1>2, <1>3, FaultShutdown, FaultService, FaultGuard, FaultElsewhere DEF Call
<1>4. CASE Step
  BY <1>1, <1>2, <1>4, FaultShutdown, FaultService, FaultGuard, FaultElsewhere DEF Step
<1>5. CASE TIM5_IRQHandler \/ Tick \/ Hardware \/ UNCHANGED vars
  BY <1>1, <1>5, FaultAround
<1>6. QED
  BY <1>1, <1>3, <1>4, <1>5 DEF Next

\* FAULT is quiet between two operations, with any number of hardware faults: the
\* shutdown that enters it ends whatever the interrupt did meanwhile, nothing
\* starts again, and what surges is switched off by the next guard.
THEOREM QuietFault == Spec => []FaultIsQuiet
<1>1. Init => FaultInv
  BY DEF Init, FaultInv
<1>2. FaultInv => FaultIsQuiet
  BY DEF FaultInv, FaultIsQuiet, Idle
<1>3. QED
  BY <1>1, <1>2, FaultStep, TypeCorrect, Invariant, PTL DEF Spec

-----------------------------------------------------------------------------
(* The executor implements BoundedDrive unless the bridge itself fails.    *)

\* The bridge does not drive or stay on by itself.
Obedient == Faults \cap {"surge", "stuck"} = {} /\ ~astray

\* Of all steps only such a fault leads the output astray.
LEMMA NeverAstray == Faults \cap {"surge", "stuck"} = {} /\ Spec => []Obedient
<1>1. ASSUME Obedient, NEW r \in Requests, NEW lag \in 0..MaxLag, Start(r,
   lag) PROVE Obedient'
  BY <1>1 DEF Start, Obedient, history
<1>2. ASSUME Obedient, Capture PROVE Obedient'
  BY <1>2 DEF Capture, Begin, Obedient, history
<1>3. ASSUME Obedient, NEW f \in BOOLEAN, Disable(f) PROVE Obedient'
  BY <1>3 DEF Disable, Begin, Obedient, history
<1>4. ASSUME Obedient, HandleError PROVE Obedient'
  BY <1>4 DEF HandleError, Begin, Obedient, history
<1>5. ASSUME Obedient, NEW lag \in 0..MaxLag, Service(lag) PROVE Obedient'
  BY <1>5 DEF Service, Begin, Obedient, history
<1>6. ASSUME Obedient, Guard PROVE Obedient'
  BY <1>6 DEF Guard, Begin, Obedient, history
<1>7. ASSUME Obedient, OutputOff PROVE Obedient'
  BY <1>7 DEF OutputOff, Obedient, history
<1>8. ASSUME Obedient, CancelTimer PROVE Obedient'
  BY <1>8 DEF CancelTimer, Obedient, history
<1>9. ASSUME Obedient, DisableCleared PROVE Obedient'
  BY <1>9 DEF DisableCleared, Obedient, history
<1>10. ASSUME Obedient, StartArm PROVE Obedient'
  BY <1>10 DEF StartArm, Obedient, history
<1>11. ASSUME Obedient, ApplyCarriers PROVE Obedient'
  BY <1>11 DEF ApplyCarriers, ApplyFails, Obedient, history
<1>12. ASSUME Obedient, ApplyDrive PROVE Obedient'
  BY <1>12 DEF ApplyDrive, ApplyFails, Obedient, history
<1>13. ASSUME Obedient, CommitArm PROVE Obedient'
  BY <1>13 DEF CommitArm, IrqHandler, Obedient, history
<1>14. ASSUME Obedient, StartEnable PROVE Obedient'
  BY <1>14 DEF StartEnable, Obedient, history
<1>15. ASSUME Obedient, FailStart PROVE Obedient'
  BY <1>15 DEF FailStart, Obedient, history
<1>16. ASSUME Obedient, ServiceTake1 PROVE Obedient'
  BY <1>16 DEF ServiceTake1, Obedient, history
<1>17. ASSUME Obedient, ServiceSnapshot PROVE Obedient'
  BY <1>17 DEF ServiceSnapshot, Obedient, history
<1>18. ASSUME Obedient, ServiceTake2 PROVE Obedient'
  BY <1>18 DEF ServiceTake2, Obedient, history
<1>19. ASSUME Obedient, ServiceInactive PROVE Obedient'
  BY <1>19 DEF ServiceInactive, Obedient, history
<1>20. ASSUME Obedient, ServiceActive PROVE Obedient'
  BY <1>20 DEF ServiceActive, ServiceTest, Obedient, history
<1>21. ASSUME Obedient, ServiceRecheck PROVE Obedient'
  BY <1>21 DEF ServiceRecheck, Obedient, history
<1>22. ASSUME Obedient, PublishCompletion PROVE Obedient'
  BY <1>22 DEF PublishCompletion, Obedient, history
<1>23. ASSUME Obedient, ValidSnapshot PROVE Obedient'
  BY <1>23 DEF ValidSnapshot, Obedient, history
<1>24. ASSUME Obedient, ValidOutput PROVE Obedient'
  BY <1>24 DEF ValidOutput, ValidTest, Obedient, history
<1>25. ASSUME Obedient, ValidArmed PROVE Obedient'
  BY <1>25 DEF ValidArmed, ValidTest, Obedient, history
<1>26. ASSUME Obedient, ValidHealthy PROVE Obedient'
  BY <1>26 DEF ValidHealthy, Obedient, history
<1>27. ASSUME Obedient, ValidRecheck PROVE Obedient'
  BY <1>27 DEF ValidRecheck, Obedient, history
<1>28. ASSUME Obedient, GuardSnapshot PROVE Obedient'
  BY <1>28 DEF GuardSnapshot, Obedient, history
<1>29. ASSUME Obedient, GuardClassify PROVE Obedient'
  BY <1>29 DEF GuardClassify, Obedient, history
<1>30. ASSUME Obedient, GuardInactive PROVE Obedient'
  BY <1>30 DEF GuardInactive, Obedient, history
<1>31. ASSUME Obedient, GuardValid PROVE Obedient'
  BY <1>31 DEF GuardValid, Obedient, history
<1>32. ASSUME Obedient, GuardInvalid PROVE Obedient'
  BY <1>32 DEF GuardInvalid, Obedient, history
<1>33. ASSUME Obedient, GuardReport PROVE Obedient'
  BY <1>33 DEF GuardReport, Obedient, history
<1>34. ASSUME Obedient, GuardPendingCompletion PROVE Obedient'
  BY <1>34 DEF GuardPendingCompletion, Obedient, history
<1>35. ASSUME Obedient, TIM5_IRQHandler PROVE Obedient'
  BY <1>35 DEF TIM5_IRQHandler, IrqHandler, Obedient, history
<1>36. ASSUME Obedient, Tick PROVE Obedient'
  BY <1>36 DEF Tick, Obedient, history
<1>37. ASSUME Obedient, OutputDrops PROVE Obedient'
  BY <1>37 DEF OutputDrops, Strike, Obedient, history
<1>38. ASSUME Obedient, OutputSurges PROVE Obedient'
  BY <1>38 DEF OutputSurges, Strike, Obedient, history
<1>39. ASSUME Obedient, OutputSticks PROVE Obedient'
  BY <1>39 DEF OutputSticks, Strike, Obedient, history
<1>40. ASSUME Obedient, Overcapture PROVE Obedient'
  BY <1>40 DEF Overcapture, Strike, Obedient, history
<1>41. Obedient /\ [Next]_vars => Obedient'
  BY <1>1, <1>2, <1>3, <1>4, <1>5, <1>6, <1>7, <1>8, <1>9, <1>10, <1>11,
     <1>12, <1>13, <1>14, <1>15, <1>16, <1>17, <1>18, <1>19, <1>20, <1>21,
     <1>22, <1>23, <1>24, <1>25, <1>26, <1>27, <1>28, <1>29, <1>30, <1>31,
     <1>32, <1>33, <1>34, <1>35, <1>36, <1>37, <1>38, <1>39, <1>40 DEF Next,
     Call, Step, Hardware, vars, Obedient, history
<1>42. Faults \cap {"surge", "stuck"} = {} /\ Init => Obedient
  BY DEF Init, Obedient
<1>43. QED
  BY <1>41, <1>42, PTL DEF Spec

\* Every step of the executor is a step of BoundedDrive or leaves it as it is.
LEMMA StepSimulation ==
  RequestOK /\ RequestOK' /\ Inv /\ Inv' /\ Obedient /\ Obedient'
    /\ [Next]_vars => [Abstract!Next]_(Abstract!vars)
<1> USE DEF Phase, Abstract!Next, Abstract!Accept, Abstract!Drive, Abstract!Refuse,
      Abstract!End, Abstract!vars, hardware, timer, motor, handoff, loop, history,
      Directions, RequestOK, Obedient
<1> DEFINE Both == RequestOK /\ RequestOK' /\ Inv /\ Inv' /\ Obedient /\ Obedient'
           Simulated == [Abstract!Next]_(Abstract!vars)
<1>1. ASSUME Both, NEW r \in Requests, NEW lag \in 0..MaxLag, Start(r, lag)
   PROVE Simulated
  BY <1>1 DEF Inv, DriveIsTimed, ShutdownInv, AfterShutdown, StartInv,
     StartWindow, Start, Busy, Cancel, Shutdown, ClearPendingCompletion,
     Disabled, Idle
<1>2. ASSUME Both, Capture PROVE Simulated
  BY <1>2 DEF Inv, DriveIsTimed, ShutdownInv, AfterShutdown, StartInv,
     StartWindow, Capture, Begin, Idle
<1>3. ASSUME Both, NEW f \in BOOLEAN, Disable(f) PROVE Simulated
  BY <1>3 DEF Inv, DriveIsTimed, ShutdownInv, AfterShutdown, StartInv,
     StartWindow, Disable, Begin, Idle
<1>4. ASSUME Both, HandleError PROVE Simulated
  BY <1>4 DEF Inv, DriveIsTimed, ShutdownInv, AfterShutdown, StartInv,
     StartWindow, HandleError, Begin, Idle
<1>5. ASSUME Both, NEW lag \in 0..MaxLag, Service(lag) PROVE Simulated
  BY <1>5 DEF Inv, DriveIsTimed, ShutdownInv, AfterShutdown, StartInv,
     StartWindow, Service, Begin, Idle
<1>6. ASSUME Both, Guard PROVE Simulated
  BY <1>6 DEF Inv, DriveIsTimed, ShutdownInv, AfterShutdown, StartInv,
     StartWindow, Guard, Begin, Idle
<1>7. ASSUME Both, OutputOff PROVE Simulated
  BY <1>7 DEF Inv, DriveIsTimed, ShutdownInv, AfterShutdown, StartInv,
     StartWindow, OutputOff, Disabled
<1>8. ASSUME Both, CancelTimer PROVE Simulated
  BY <1>8 DEF Inv, DriveIsTimed, ShutdownInv, AfterShutdown, StartInv,
     StartWindow, CancelTimer, Cancel
<1>9. ASSUME Both, DisableCleared PROVE Simulated
  BY <1>9 DEF Inv, DriveIsTimed, ShutdownInv, AfterShutdown, StartInv,
     StartWindow, DisableCleared, ClearRequest, ClearPendingCompletion,
     ClearActivePlan, Return, Disabled, IsDisabled, IsArmed
<1>10. ASSUME Both, StartArm PROVE Simulated
  BY <1>10 DEF Inv, DriveIsTimed, ShutdownInv, AfterShutdown, StartInv,
     StartWindow, StartArm, Shutdown
<1>11. ASSUME Both, ApplyCarriers PROVE Simulated
  BY <1>11 DEF Inv, DriveIsTimed, ShutdownInv, AfterShutdown, StartInv,
     StartWindow, ApplyCarriers, ApplyFails, Shutdown, Disabled
<1>12. ASSUME Both, ApplyDrive PROVE Simulated
  BY <1>12 DEF Inv, DriveIsTimed, ShutdownInv, AfterShutdown, StartInv,
     StartWindow, ApplyDrive, ApplyFails, Shutdown, Disabled
<1>13. ASSUME Both, CommitArm PROVE Simulated
  BY <1>13 DEF Inv, DriveIsTimed, ShutdownInv, AfterShutdown, StartInv,
     StartWindow, CommitArm, IrqHandler, IrqEvent, Cancel, Shutdown, Disabled
<1>14. ASSUME Both, StartEnable PROVE Simulated
  BY <1>14 DEF Inv, DriveIsTimed, ShutdownInv, AfterShutdown, StartInv,
     StartWindow, StartEnable, Return
<1>15. ASSUME Both, FailStart PROVE Simulated
  BY <1>15 DEF Inv, DriveIsTimed, ShutdownInv, AfterShutdown, StartInv,
     StartWindow, FailStart, ClearRequest, ClearPendingCompletion,
     ClearActivePlan, Return, IsDisabled
<1>16. ASSUME Both, ServiceTake1 PROVE Simulated
  BY <1>16 DEF Inv, DriveIsTimed, ShutdownInv, AfterShutdown, StartInv,
     StartWindow, ServiceTake1, TakeOr
<1>17. ASSUME Both, ServiceSnapshot PROVE Simulated
  BY <1>17 DEF Inv, DriveIsTimed, ShutdownInv, AfterShutdown, StartInv,
     StartWindow, ServiceSnapshot, IsDisabled
<1>18. ASSUME Both, ServiceTake2 PROVE Simulated
  BY <1>18 DEF Inv, DriveIsTimed, ShutdownInv, AfterShutdown, StartInv,
     StartWindow, ServiceTake2, TakeOr
<1>19. ASSUME Both, ServiceInactive PROVE Simulated
  BY <1>19 DEF Inv, DriveIsTimed, ShutdownInv, AfterShutdown, StartInv,
     StartWindow, ServiceInactive, Cancel, Return, Disabled, IsArmed
<1>20. ASSUME Both, ServiceActive PROVE Simulated
  BY <1>20 DEF Inv, DriveIsTimed, ShutdownInv, AfterShutdown, StartInv,
     StartWindow, ServiceActive, ServiceTest, IsArmed
<1>21. ASSUME Both, ServiceRecheck PROVE Simulated
  BY <1>21 DEF Inv, DriveIsTimed, ShutdownInv, AfterShutdown, StartInv,
     StartWindow, ServiceRecheck, TakeOr, Shutdown
<1>22. ASSUME Both, PublishCompletion PROVE Simulated
  BY <1>22 DEF Inv, DriveIsTimed, ShutdownInv, AfterShutdown, StartInv,
     StartWindow, PublishCompletion, Return, ClearActivePlan, Disabled,
     IsDisabled
<1>23. ASSUME Both, ValidSnapshot PROVE Simulated
  BY <1>23 DEF Inv, DriveIsTimed, ShutdownInv, AfterShutdown, StartInv,
     StartWindow, ValidSnapshot, Answer, Return, IsDisabled
<1>24. ASSUME Both, ValidOutput PROVE Simulated
  BY <1>24 DEF Inv, DriveIsTimed, ShutdownInv, AfterShutdown, StartInv,
     StartWindow, ValidOutput, ValidTest
<1>25. ASSUME Both, ValidArmed PROVE Simulated
  BY <1>25 DEF Inv, DriveIsTimed, ShutdownInv, AfterShutdown, StartInv,
     StartWindow, ValidArmed, ValidTest, IsArmed
<1>26. ASSUME Both, ValidHealthy PROVE Simulated
  BY <1>26 DEF Inv, DriveIsTimed, ShutdownInv, AfterShutdown, StartInv,
     StartWindow, ValidHealthy, Answer, Return
<1>27. ASSUME Both, ValidRecheck PROVE Simulated
  BY <1>27 DEF Inv, DriveIsTimed, ShutdownInv, AfterShutdown, StartInv,
     StartWindow, ValidRecheck, Answer, Return, IsDisabled, IsArmed
<1>28. ASSUME Both, GuardSnapshot PROVE Simulated
  BY <1>28 DEF Inv, DriveIsTimed, ShutdownInv, AfterShutdown, StartInv,
     StartWindow, GuardSnapshot, Shutdown, IsDisabled
<1>29. ASSUME Both, GuardClassify PROVE Simulated
  BY <1>29 DEF Inv, DriveIsTimed, ShutdownInv, AfterShutdown, StartInv,
     StartWindow, GuardClassify, Shutdown
<1>30. ASSUME Both, GuardInactive PROVE Simulated
  BY <1>30 DEF Inv, DriveIsTimed, ShutdownInv, AfterShutdown, StartInv,
     StartWindow, GuardInactive, Cancel, Return, Disabled, IsArmed
<1>31. ASSUME Both, GuardValid PROVE Simulated
  BY <1>31 DEF Inv, DriveIsTimed, ShutdownInv, AfterShutdown, StartInv,
     StartWindow, GuardValid, Shutdown, Return
<1>32. ASSUME Both, GuardInvalid PROVE Simulated
  BY <1>32 DEF Inv, DriveIsTimed, ShutdownInv, AfterShutdown, StartInv,
     StartWindow, GuardInvalid, Shutdown
<1>33. ASSUME Both, GuardReport PROVE Simulated
  BY <1>33 DEF Inv, DriveIsTimed, ShutdownInv, AfterShutdown, StartInv,
     StartWindow, GuardReport, Shutdown, Return, IsDisabled
<1>34. ASSUME Both, GuardPendingCompletion PROVE Simulated
  BY <1>34 DEF Inv, DriveIsTimed, ShutdownInv, AfterShutdown, StartInv,
     StartWindow, GuardPendingCompletion, Return, IsDisabled, IsArmed
<1>35. ASSUME Both, TIM5_IRQHandler PROVE Simulated
  BY <1>35 DEF Inv, DriveIsTimed, ShutdownInv, AfterShutdown, StartInv,
     StartWindow, TIM5_IRQHandler, IrqHandler, IrqEvent, IrqReady, Cancel,
     Disabled
<1>36. ASSUME Both, Tick PROVE Simulated
  BY <1>36 DEF Inv, DriveIsTimed, ShutdownInv, AfterShutdown, StartInv,
     StartWindow, Tick, Idle, IsArmed, IrqReady
<1>37. ASSUME Both, OutputDrops PROVE Simulated
  BY <1>37 DEF Inv, DriveIsTimed, ShutdownInv, AfterShutdown, StartInv,
     StartWindow, OutputDrops, Strike
<1>38. ASSUME Both, OutputSurges PROVE Simulated
  BY <1>38 DEF Inv, DriveIsTimed, ShutdownInv, AfterShutdown, StartInv,
     StartWindow, OutputSurges, Strike
<1>39. ASSUME Both, OutputSticks PROVE Simulated
  BY <1>39 DEF Inv, DriveIsTimed, ShutdownInv, AfterShutdown, StartInv,
     StartWindow, OutputSticks, Strike
<1>40. ASSUME Both, Overcapture PROVE Simulated
  BY <1>40 DEF Inv, DriveIsTimed, ShutdownInv, AfterShutdown, StartInv,
     StartWindow, Overcapture, Strike
<1>41. ASSUME Both, UNCHANGED vars PROVE Simulated
  BY <1>41 DEF vars
<1> HIDE DEF Both, Simulated
<1>42. Both /\ [Next]_vars => Simulated
  BY <1>1, <1>2, <1>3, <1>4, <1>5, <1>6, <1>7, <1>8, <1>9, <1>10, <1>11,
     <1>12, <1>13, <1>14, <1>15, <1>16, <1>17, <1>18, <1>19, <1>20, <1>21,
     <1>22, <1>23, <1>24, <1>25, <1>26, <1>27, <1>28, <1>29, <1>30, <1>31,
     <1>32, <1>33, <1>34, <1>35, <1>36, <1>37, <1>38, <1>39, <1>40, <1>41 DEF
     Next, Call, Step, Hardware
<1>43. QED
  BY <1>42 DEF Both, Simulated

\* Break before make, one drive per accepted request and in its direction: for
\* any requests, any delay of main, and any faults but those of the bridge itself.
THEOREM Refinement ==
  Faults \cap {"surge", "stuck"} = {} /\ Spec => ImplementsBoundedDrive
<1>1. Init => Abstract!Init
  BY DEF Init, Abstract!Init, Phase, NoRequest, Directions
<1>2. TypeOK => RequestOK
  BY DEF TypeOK
<1>3. QED
  BY <1>1, <1>2, StepSimulation, NeverAstray, TypeCorrect, Invariant, PTL
     DEF Spec, ImplementsBoundedDrive, Abstract!Spec
=============================================================================
