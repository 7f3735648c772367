------------------------- MODULE BuildToTargetProofs -------------------------
(***************************************************************************)
(* Proofs about BuildToTarget, for every value of its constants.  The      *)
(* machine, its faults and its commands are one of the callers that        *)
(* BuildExecutor allows, so what is proved of the executor holds of the    *)
(* machine; the machine never drives without a START in force; no pulse    *)
(* begins before the last one has been answered by a sample (Evidence),    *)
(* nor once pressing without a gain has lasted NoResponse (Metered).       *)
(***************************************************************************)
EXTENDS BuildToTarget, BuildExecutorProofs

-----------------------------------------------------------------------------
(* The machine as a caller of the executor.                                *)

LEMMA DecideCalls ==
  ASSUME DecideApproach \/ DecidePulse \/ DecideBrake \/ DecideNothing
  PROVE  [Next]_machinery
<1>1. CASE DecideApproach
  BY <1>1 DEF DecideApproach, Next, Start
<1>2. CASE DecidePulse
  BY <1>2 DEF DecidePulse, Next, Start
<1>3. CASE DecideBrake
  BY <1>3 DEF DecideBrake, Next, End
<1>4. CASE DecideNothing
  BY <1>4 DEF DecideNothing
<1>5. QED
  BY <1>1, <1>2, <1>3, <1>4

LEMMA LoopCalls == ASSUME Loop PROVE [Next]_machinery
<1>1. CASE NoSample \/ CheckStart \/ NoCommand
  BY <1>1 DEF NoSample, CheckStart, NoCommand
<1>2. CASE CheckBuild \/ BeginSession \/ Post
  BY <1>2 DEF CheckBuild, BeginSession, Post, Next
<1>3. ASSUME NEW age \in 0 .. StaleAge, NEW level \in Levels, Take(age, level)
      PROVE  [Next]_machinery
  BY <1>3 DEF Take, Next
<1>4. CASE TargetOff \/ FaultStep
  BY <1>4 DEF TargetOff, FaultStep, Next
<1>5. CASE RefreshFeedback
  BY <1>5 DEF RefreshFeedback, Next, Refresh
<1>6. CASE AcceptAnswer
  BY <1>6 DEF AcceptAnswer, Next, Accept
<1>7. CASE Decide
  BY <1>7, DecideCalls DEF Decide
<1>8. CASE ServiceMotor
  BY <1>8 DEF ServiceMotor, Next
<1>9. QED
  BY <1>1, <1>2, <1>3, <1>4, <1>5, <1>6, <1>7, <1>8 DEF Loop

LEMMA MachineCalls == [MachineNext]_vars => [Next]_machinery
<1>1. ASSUME Loop PROVE [Next]_machinery
  BY <1>1, LoopCalls
<1>2. ASSUME Command PROVE [Next]_machinery
  BY <1>2 DEF Command, Stop, ForceStart, FaultReset, Next
<1>3. ASSUME SysTickMs \/ TimTickMs \/ IrqTim5 PROVE [Next]_machinery
  BY <1>3 DEF SysTickMs, TimTickMs, IrqTim5, Next
<1>4. ASSUME UNCHANGED vars PROVE [Next]_machinery
  BY <1>4 DEF vars
<1>5. QED
  BY <1>1, <1>2, <1>3, <1>4 DEF MachineNext

\* Whatever the machine calls and when, the executor only takes steps of its own
\* specification: the main loop is an instance of its arbitrary caller.
THEOREM Calls == MachineSpec => Init /\ [][Next]_machinery
<1>1. MachineInit => Init
  BY DEF MachineInit
<1>2. QED
  BY <1>1, MachineCalls, PTL DEF MachineSpec

\* So under the machine too no segment outlives its deadline, no drive rests on
\* feedback as old as the lease, and the approach stays within its total.
THEOREM MachineIsBounded ==
  MachineSpec => [](SegmentEndsOnTime /\ LeaseHolds /\ ApproachBudget)
<1>1. Init => TypeOK /\ Inv
  BY TypingInit, InvInit
<1>2. QED
  BY <1>1, Calls, TypingStep, InvStep, InvEnds, PTL

-----------------------------------------------------------------------------
(* A drive is granted.                                                     *)

Returns == {"sample", "take", "service", "safety", "command"}

\* A START is in force while one waits and while a session presses, and only
\* where one of them does the loop reach the calls that begin and drive.
Standing ==
  /\ DriveIsGranted
  /\ starting \/ Pressing => granted
  /\ pc \in {"begin", "reached"} => starting
  /\ pc \in {"accept", "decide"} => Pressing
  /\ back \in Returns

\* No call but a start turns the bridge on; the hand-over finds it on already.
LEMMA StaysOff ==
  ASSUME \/ Snapshot \/ Begin \/ Refresh \/ Accept \/ Disable \/ Service
         \/ SysTick \/ TimTick \/ Irq
         \/ \E age \in 0 .. StaleAge : Deliver(age)
         \/ UNCHANGED machinery
  PROVE  out' # "OFF" => out # "OFF"
<1>1. CASE Snapshot \/ Begin \/ AcceptPost \/ SysTick \/ TimTick
           \/ \E age \in 0 .. StaleAge : Deliver(age)
  BY <1>1 DEF Snapshot, Begin, AcceptPost, SysTick, TimTick, Deliver, hardware
<1>2. CASE RefreshOK \/ UNCHANGED machinery
  BY <1>2 DEF RefreshOK, machinery, hardware
<1>3. CASE RefreshFails \/ AcceptExpired \/ IrqCutsOff
  BY <1>3 DEF RefreshFails, RefreshTooLate, RefreshExpired, AcceptExpired,
     IrqCutsOff, CutOff, Shut
<1>4. CASE Disable \/ Service
  BY <1>4 DEF Disable, Service, Shut
<1>5. CASE IrqHandsOver
  BY <1>5 DEF IrqHandsOver, CanHandOver
<1>6. QED
  BY <1>1, <1>2, <1>3, <1>4, <1>5 DEF Refresh, Accept, Irq

\* The steps that leave the machine and its history of grants alone.
LEMMA PassingStep ==
  ASSUME Standing, UNCHANGED <<session, starting, monitoring, granted>>,
         out' # "OFF" => out # "OFF",
         pc' \in {"begin", "reached"} => starting,
         pc' \in {"accept", "decide"} => Pressing,
         back' \in Returns
  PROVE  Standing'
<1>1. Pressing' <=> Pressing
  BY DEF Pressing
<1>2. QED
  BY <1>1 DEF Standing, DriveIsGranted

LEMMA ChecksStand == ASSUME Standing, CheckStart \/ CheckBuild PROVE Standing'
<1>1. Checks[pc] \in {"take", "service", "sample"}
  BY DEF CheckStart, CheckBuild, Checks
<1>2. pc' \in {"take", "service", "sample", "fault"} /\ back' \in Returns
  BY <1>1 DEF CheckStart, CheckBuild, Goto, Fail, Returns
<1>3. UNCHANGED <<session, starting, monitoring, granted>>
  BY DEF CheckStart, CheckBuild, machine, history
<1>4. Snapshot \/ UNCHANGED machinery
  BY DEF CheckStart, CheckBuild
<1>5. QED
  BY <1>2, <1>3, <1>4, StaysOff, PassingStep

LEMMA TakeStands ==
  ASSUME Standing, NEW age \in 0 .. StaleAge, NEW level \in Levels, Take(age, level)
  PROVE  Standing'
<1>1. UNCHANGED <<session, starting, monitoring, granted>>
  BY DEF Take, machine
<1>2. back' \in Returns /\ pc' \notin {"accept", "decide"}
      /\ (pc' \in {"begin", "reached"} => starting)
  <2>1. CASE starting
    BY <2>1 DEF Take, StartGoes, Goto, Fail, Returns
  <2>2. CASE ~starting
    BY <2>2 DEF Take, PressureGoes, Goto, Fail, Returns
  <2>3. QED
    BY <2>1, <2>2
<1>3. Deliver(age)
  BY DEF Take
<1>4. QED
  BY <1>1, <1>2, <1>3, StaysOff, PassingStep

LEMMA BeginStands == ASSUME Standing, BeginSession PROVE Standing'
<1>1. starting /\ granted
  BY DEF Standing, BeginSession
<1>2. granted' = granted /\ starting' = FALSE /\ pc' \in {"target", "post", "fault"}
      /\ back' \in Returns
  BY DEF BeginSession, history, Goto, Fail, Returns
<1>3. Snapshot \/ Begin
  BY DEF BeginSession
<1>4. QED
  BY <1>1, <1>2, <1>3, StaysOff DEF Standing, DriveIsGranted

\* What ends a grant turns the bridge off in the same step.
LEMMA EndsStand == ASSUME Standing, FaultStep \/ TargetOff \/ Stop PROVE Standing'
<1>1. out' = "OFF" /\ starting' = FALSE
  BY DEF FaultStep, TargetOff, Stop, Disable, Shut
<1>2. ~Pressing'
  BY DEF FaultStep, TargetOff, Stop, Pressing
<1>3. pc' \notin {"begin", "reached", "accept", "decide"} /\ back' \in Returns
  BY DEF FaultStep, TargetOff, Stop, Goto, Standing, Returns, loop
<1>4. QED
  BY <1>1, <1>2, <1>3 DEF Standing, DriveIsGranted

LEMMA PostStands == ASSUME Standing, Post \/ RefreshFeedback PROVE Standing'
<1>1. UNCHANGED <<session, starting, monitoring, granted>>
  BY DEF Post, RefreshFeedback, machine, history
<1>2. back' \in Returns /\ pc' \notin {"begin", "reached"}
      /\ (pc' \in {"accept", "decide"} => Pressing)
  BY DEF Post, RefreshFeedback, Goto, Fail, Returns
<1>3. Snapshot \/ Refresh \/ UNCHANGED machinery
  BY DEF Post, RefreshFeedback, Refresh
<1>4. QED
  BY <1>1, <1>2, <1>3, StaysOff, PassingStep

LEMMA AcceptStands == ASSUME Standing, AcceptAnswer PROVE Standing'
<1>1. UNCHANGED <<session, starting, monitoring, granted>>
  BY DEF AcceptAnswer, machine, history
<1>2. Pressing /\ pc' \in {"decide", "fault"} /\ back' \in Returns
  BY DEF AcceptAnswer, Standing, Goto, Fail, Returns
<1>3. Accept \/ UNCHANGED machinery
  BY DEF AcceptAnswer, Accept
<1>4. QED
  BY <1>1, <1>2, <1>3, StaysOff, PassingStep

\* Only the decision starts a segment, and only a granted session reaches it.
LEMMA DecideStands == ASSUME Standing, Decide PROVE Standing'
<1>1. granted /\ granted' = granted
  BY DEF Standing, Decide
<1>2. pc' \in {"safety", "fault"} /\ back' \in Returns
  BY DEF Decide, DecideApproach, DecidePulse, DecideBrake, DecideNothing, Goto, Fail,
     Returns
<1>3. QED
  BY <1>1, <1>2 DEF Standing, DriveIsGranted

LEMMA CommandStands == ASSUME Standing, ForceStart \/ FaultReset PROVE Standing'
<1>1. pc' = "tick" /\ back' \in Returns
  BY DEF ForceStart, FaultReset, Goto, Returns
<1>2. CASE ForceStart
  BY <1>1, <1>2 DEF ForceStart, Standing, DriveIsGranted
<1>3. CASE FaultReset
  <2>1. UNCHANGED <<session, starting, monitoring, granted, out>>
    BY <1>3 DEF FaultReset, history, machinery, hardware
  <2>2. QED
    BY <1>1, <2>1, PassingStep
<1>4. QED
  BY <1>2, <1>3

LEMMA RestStands ==
  ASSUME Standing,
         \/ NoSample \/ NoCommand \/ ServiceMotor
         \/ SysTickMs \/ TimTickMs \/ IrqTim5
  PROVE  Standing'
<1>1. UNCHANGED <<session, starting, monitoring, granted>>
  BY DEF NoSample, NoCommand, ServiceMotor, SysTickMs, TimTickMs, IrqTim5, machine,
     history
<1>2. back' \in Returns
      /\ (pc' = pc \/ pc' \notin {"begin", "reached", "accept", "decide"})
  BY DEF NoSample, NoCommand, ServiceMotor, SysTickMs, TimTickMs, IrqTim5, Goto, Fail,
     Returns, Standing, loop
<1>3. Snapshot \/ Service \/ SysTick \/ TimTick \/ Irq \/ UNCHANGED machinery
  BY DEF NoSample, NoCommand, ServiceMotor, SysTickMs, TimTickMs, IrqTim5
<1>4. pc' \in {"begin", "reached"} => starting
  BY <1>2 DEF Standing
<1>5. pc' \in {"accept", "decide"} => Pressing
  BY <1>2 DEF Standing
<1>6. QED
  BY <1>1, <1>2, <1>3, <1>4, <1>5, StaysOff, PassingStep

LEMMA StandingStep == Standing /\ [MachineNext]_vars => Standing'
<1>1. SUFFICES ASSUME Standing, [MachineNext]_vars PROVE Standing'
  OBVIOUS
<1>2. CASE UNCHANGED vars
  BY <1>1, <1>2 DEF vars, Standing, DriveIsGranted, Pressing, machinery, hardware,
     machine, loop, history
<1>3. ASSUME Loop PROVE Standing'
  BY <1>1, <1>3, ChecksStand, TakeStands, BeginStands, EndsStand, PostStands,
     AcceptStands, DecideStands, RestStands DEF Loop
<1>4. ASSUME Command PROVE Standing'
  BY <1>1, <1>4, EndsStand, CommandStands DEF Command
<1>5. CASE SysTickMs \/ TimTickMs \/ IrqTim5
  BY <1>1, <1>5, RestStands
<1>6. QED
  BY <1>1, <1>2, <1>3, <1>4, <1>5 DEF MachineNext

\* The bridge is enabled only under a START that nothing has ended since: after a
\* STOP, a fault or a reached target no sample, answer or reset drives again.
THEOREM Granted == MachineSpec => []DriveIsGranted
<1>1. MachineInit => Standing
  BY DEF MachineInit, Init, Standing, DriveIsGranted, Pressing, Returns
<1>2. Standing => DriveIsGranted
  BY DEF Standing
<1>3. QED
  BY <1>1, <1>2, StandingStep, PTL DEF MachineSpec

-----------------------------------------------------------------------------
(* Types.                                                                  *)

LEMMA CountTypes ==
  ASSUME MachineTypeOK
  PROVE  Accounted \in 0 .. NoResponse /\ Least(unaccounted + 1, NoResponse) \in 0 .. NoResponse
<1>1. NoResponse \in Nat
  BY MachineTimesAssumption
<1>2. silent \in 0 .. NoResponse /\ unaccounted \in 0 .. NoResponse
  BY DEF MachineTypeOK
<1>3. QED
  BY <1>1, <1>2 DEF Accounted, Least

LEMMA SyncedType ==
  ASSUME MachineTypeOK, NEW n \in 0 .. NoResponse
  PROVE  Synced(n) \in 0 .. NoResponse
  BY MachineTimesAssumption DEF Synced

LEMMA EpochType == ASSUME TypeOK' PROVE rest'.epoch \in 0 .. 1
  BY DEF TypeOK

LEMMA HeardType == ASSUME MachineTypeOK PROVE EndHeard \in BOOLEAN
  BY DEF MachineTypeOK, EndHeard

\* The loop's places, the machine's own states, and its numbers.
MachinePlaces == pc \in Places /\ back \in Places
MachineStates ==
  /\ state \in {"IDLE", "RUN", "REACHED", "FAULT"}
  /\ session \in BOOLEAN /\ starting \in BOOLEAN /\ monitoring \in BOOLEAN
  /\ phase \in {"APPROACH", "BUILD", "TARGET_OFF"}
  /\ contacted \in BOOLEAN /\ owed \in BOOLEAN
  /\ running \in BOOLEAN /\ answered \in BOOLEAN
  /\ granted \in BOOLEAN /\ heard \in BOOLEAN
MachineNumbers ==
  /\ gap \in 0 .. FeedbackGap + 1
  /\ waited \in 0 .. StartWait /\ cooling \in 0 .. OffTime
  /\ epoch \in 0 .. 1
  /\ silent \in 0 .. NoResponse /\ unaccounted \in 0 .. NoResponse
  /\ stuck \in 0 .. NoResponse

LEMMA MachineParts ==
  MachineTypeOK <=> MachinePlaces /\ MachineStates /\ MachineNumbers
  BY DEF MachineTypeOK, MachinePlaces, MachineStates, MachineNumbers

LEMMA MachinePartsNext ==
  MachineTypeOK' <=> MachinePlaces' /\ MachineStates' /\ MachineNumbers'
  BY DEF MachineTypeOK, MachinePlaces, MachineStates, MachineNumbers

LEMMA PlacesStep == ASSUME MachineTypeOK, [MachineNext]_vars PROVE MachinePlaces'
<1> USE DEF MachinePlaces, Goto, Fail
<1>1. pc \in Places /\ back \in Places
  BY DEF MachineTypeOK
<1>2. Places = {"sample", "safety", "tick", "take", "begin", "reached", "target",
                "refresh", "post", "accept", "decide", "service", "command", "fault"}
  BY DEF Places, Checks
<1>3. CASE CheckStart \/ CheckBuild
  <2>1. Checks[pc] \in {"take", "service", "sample"}
    BY <1>3 DEF CheckStart, CheckBuild, Checks
  <2>2. QED
    BY <1>2, <1>3, <2>1 DEF CheckStart, CheckBuild
<1>4. ASSUME NEW age \in 0 .. StaleAge, NEW level \in Levels, Take(age, level)
      PROVE  MachinePlaces'
  <2>1. CASE starting
    BY <1>2, <1>4, <2>1 DEF Take, StartGoes
  <2>2. CASE ~starting
    BY <1>2, <1>4, <2>2 DEF Take, PressureGoes
  <2>3. QED
    BY <2>1, <2>2
<1>5. CASE BeginSession \/ TargetOff \/ RefreshFeedback \/ Post \/ AcceptAnswer
  BY <1>2, <1>5 DEF BeginSession, TargetOff, RefreshFeedback, Post, AcceptAnswer
<1>6. CASE Decide
  BY <1>2, <1>6 DEF Decide, DecideApproach, DecidePulse, DecideBrake, DecideNothing
<1>7. CASE NoSample \/ NoCommand \/ ServiceMotor \/ FaultStep
  BY <1>1, <1>2, <1>7 DEF NoSample, NoCommand, ServiceMotor, FaultStep
<1>8. CASE Command
  BY <1>1, <1>2, <1>8 DEF Command, Stop, ForceStart, FaultReset, loop
<1>9. CASE SysTickMs \/ TimTickMs \/ IrqTim5 \/ UNCHANGED vars
  BY <1>1, <1>9 DEF SysTickMs, TimTickMs, IrqTim5, vars, loop
<1>10. QED
  BY <1>3, <1>4, <1>5, <1>6, <1>7, <1>8, <1>9 DEF MachineNext, Loop

LEMMA StatesStep == ASSUME MachineTypeOK, [MachineNext]_vars PROVE MachineStates'
<1> USE DEF MachineStates
<1>1. MachineStates
  BY MachineParts
<1>2. EndHeard \in BOOLEAN
  BY HeardType
<1>3. CASE CheckStart \/ CheckBuild \/ NoSample \/ NoCommand
  BY <1>1, <1>3 DEF CheckStart, CheckBuild, NoSample, NoCommand, machine, build, local,
     history
<1>4. ASSUME NEW age \in 0 .. StaleAge, NEW level \in Levels, Take(age, level)
      PROVE  MachineStates'
  BY <1>1, <1>4 DEF Take, machine, build, local
<1>5. CASE BeginSession
  BY <1>1, <1>5 DEF BeginSession, local, history
<1>6. CASE TargetOff \/ FaultStep \/ Stop
  BY <1>1, <1>2, <1>6 DEF TargetOff, FaultStep, Stop, build, local
<1>7. CASE RefreshFeedback \/ ServiceMotor
  BY <1>1, <1>2, <1>7 DEF RefreshFeedback, ServiceMotor, machine, build, local
<1>8. CASE Post \/ AcceptAnswer
  <2>1. UNCHANGED <<machine, phase, contacted, granted, heard>>
    BY <1>8 DEF Post, AcceptAnswer, history
  <2>2. owed' \in {owed, FALSE} /\ answered' \in BOOLEAN /\ running' \in BOOLEAN
    <3>1. CASE Post
      BY <1>1, <3>1 DEF Post, IsAnswer
    <3>2. CASE AcceptAnswer
      BY <1>1, <3>2 DEF AcceptAnswer
    <3>3. QED
      BY <1>8, <3>1, <3>2
  <2>3. QED
    BY <1>1, <2>1, <2>2 DEF machine
<1>9. CASE Decide
  <2>1. /\ phase' \in {"APPROACH", "BUILD", "TARGET_OFF"}
        /\ contacted' \in BOOLEAN /\ owed' \in BOOLEAN
    BY <1>1, <1>9 DEF Decide, DecideApproach, DecidePulse, DecideBrake, DecideNothing
  <2>2. QED
    BY <1>1, <1>2, <1>9, <2>1 DEF Decide, machine
<1>10. CASE ForceStart \/ FaultReset
  BY <1>1, <1>10 DEF ForceStart, FaultReset, build, local, history
<1>11. CASE SysTickMs \/ TimTickMs \/ IrqTim5 \/ UNCHANGED vars
  BY <1>1, <1>2, <1>11 DEF SysTickMs, TimTickMs, IrqTim5, vars, machine, build, local,
     history
<1>12. QED
  BY <1>3, <1>4, <1>5, <1>6, <1>7, <1>8, <1>9, <1>10, <1>11
     DEF MachineNext, Loop, Command

LEMMA NumbersOfMachineStep ==
  ASSUME MachineTypeOK, TypeOK', [MachineNext]_vars PROVE MachineNumbers'
<1> USE DEF MachineNumbers
<1>1. MachineNumbers
  BY MachineParts
<1>2. /\ FeedbackGap \in Nat /\ MaxAge \in Nat /\ MaxAge <= FeedbackGap
      /\ StartWait \in Nat /\ OffTime \in Nat /\ NoResponse \in Nat
  BY MachineTimesAssumption, TimesAssumption
<1>3. Accounted \in 0 .. NoResponse /\ 0 \in 0 .. NoResponse
  BY <1>2, CountTypes
<1>4. Synced(Accounted) \in 0 .. NoResponse /\ Synced(silent) \in 0 .. NoResponse
  BY <1>1, <1>3, SyncedType
<1>5. rest'.epoch \in 0 .. 1
  BY EpochType
<1>6. Cooled \in 0 .. OffTime /\ 0 \in 0 .. StartWait
  BY <1>1, <1>2 DEF Cooled
<1>7. CASE CheckStart \/ NoSample \/ NoCommand
  BY <1>1, <1>7 DEF CheckStart, NoSample, NoCommand, machine, build, account, history
<1>8. CASE CheckBuild
  BY <1>1, <1>3, <1>4, <1>5, <1>8 DEF CheckBuild, machine, history
<1>9. ASSUME NEW age \in 0 .. StaleAge, NEW level \in Levels, Take(age, level)
      PROVE  MachineNumbers'
  <2>1. age \in 0 .. FeedbackGap + 1
    BY <1>2 DEF StaleAge
  <2>2. QED
    BY <1>1, <1>9, <2>1 DEF Take, machine, build, account
<1>10. CASE BeginSession
  BY <1>1, <1>3, <1>4, <1>5, <1>6, <1>10 DEF BeginSession, CarriedAtBegin, history
<1>11. CASE TargetOff \/ FaultStep \/ Stop
  BY <1>1, <1>3, <1>6, <1>11 DEF TargetOff, FaultStep, Stop, build
<1>12. CASE RefreshFeedback \/ ServiceMotor \/ Post \/ AcceptAnswer
  BY <1>1, <1>12 DEF RefreshFeedback, ServiceMotor, Post, AcceptAnswer, machine, build,
     account, history
<1>13. CASE Decide
  <2>1. silent' \in 0 .. NoResponse /\ unaccounted' = 0 /\ stuck' \in 0 .. NoResponse
    BY <1>1, <1>3, <1>13 DEF Decide, Counted
  <2>2. QED
    BY <1>1, <1>3, <1>13, <2>1 DEF Decide, machine
<1>14. CASE ForceStart
  BY <1>1, <1>4, <1>5, <1>6, <1>14 DEF ForceStart
<1>15. CASE FaultReset
  BY <1>1, <1>15 DEF FaultReset, build, account, history
<1>16. CASE SysTickMs
  <2>1. gap' \in 0 .. FeedbackGap + 1 /\ waited' \in 0 .. StartWait
    BY <1>1, <1>2, <1>16 DEF SysTickMs, Least
  <2>2. cooling' \in 0 .. OffTime /\ unaccounted' \in 0 .. NoResponse
    BY <1>1, <1>2, <1>16 DEF SysTickMs, Sooner, Least
  <2>3. stuck' \in 0 .. NoResponse
    BY <1>1, <1>2, <1>16 DEF SysTickMs, Least
  <2>4. QED
    BY <1>1, <1>16, <2>1, <2>2, <2>3 DEF SysTickMs, build
<1>17. CASE TimTickMs \/ IrqTim5 \/ UNCHANGED vars
  BY <1>1, <1>17 DEF TimTickMs, IrqTim5, vars, machine, build, account, history
<1>18. QED
  BY <1>7, <1>8, <1>9, <1>10, <1>11, <1>12, <1>13, <1>14, <1>15, <1>16, <1>17
     DEF MachineNext, Loop, Command

LEMMA MachineTypeInit == MachineInit => MachineTypeOK
<1>1. FeedbackGap + 1 \in 0 .. FeedbackGap + 1 /\ 0 \in 0 .. StartWait
      /\ 0 \in 0 .. OffTime /\ 0 \in 0 .. NoResponse
  BY MachineTimesAssumption
<1>2. MachineInit => MachinePlaces
  BY DEF MachineInit, MachinePlaces, Places, Checks
<1>3. MachineInit => MachineStates
  BY DEF MachineInit, MachineStates
<1>4. MachineInit => MachineNumbers
  BY <1>1 DEF MachineInit, MachineNumbers
<1>5. QED
  BY <1>2, <1>3, <1>4, MachineParts

LEMMA MachineTypeStep ==
  MachineTypeOK /\ TypeOK' /\ [MachineNext]_vars => MachineTypeOK'
  BY PlacesStep, StatesStep, NumbersOfMachineStep, MachinePartsNext

\* Every variable of the machine keeps its type: the count of pressing saturates,
\* a fault comes back to a place of the loop, and the age of a sample that is
\* taken over fits the gap that CheckPressureSafety compares.
THEOREM MachineTyped == MachineSpec => []MachineTypeOK
<1>1. Init => TypeOK
  BY TypingInit
<1>2. QED
  BY <1>1, Calls, TypingStep, MachineTypeInit, MachineTypeStep, PTL DEF MachineSpec
-----------------------------------------------------------------------------
(* A pulse is decided on its predecessor's effect.                         *)

\* A sample that is young enough and followed the last pulse has been noted; a
\* pulse without such a sample is owed its answer, and so is one still running;
\* what is owed keeps the executor from starting another, also in the next
\* session, which no START begins before the answer; and before the first sample
\* nothing can start at all.
Evidence ==
  /\ ~sampleUsed /\ sampleAge <= ended /\ sampleAge <= MaxAge => heard
  /\ seg /\ mode = "PULSE" => owed
  /\ owed => post \/ (seg /\ mode = "PULSE")
  /\ ~heard /\ ~owed => sampleAge = StaleAge /\ ended = SettleCap /\ ~seg
  /\ starting => ~session /\ ~owed
  /\ pc \in {"begin", "refresh", "post"} => sampleAge <= MaxAge

\* A segment is closed, if one is open, by whatever path.
Closes ==
  /\ seg' = FALSE
  /\ post' = (post \/ seg)
  /\ ended' = IF seg THEN 0 ELSE ended
  /\ UNCHANGED <<mode, sampleAge, sampleUsed>>

LEMMA ClosingPaths ==
  ASSUME TypeOK,
         \/ Disable \/ Service \/ Irq \/ RefreshFails \/ EndOK \/ EndFails
         \/ AcceptExpired
         \/ \E r \in Segments : StartRejected(r) \/ StartExpired(r) \/ StartExhausted(r)
  PROVE  Closes
<1>1. ASSUME Cut PROVE Closes
  BY <1>1 DEF Cut, CutOff, Shut, RecordOff, Closes, sample
<1>2. ASSUME Handed PROVE Closes
  BY <1>2 DEF Handed, CanHandOver, HandOver, Closes, sample, TypeOK
<1>3. ASSUME Disable \/ Service PROVE Closes
  BY <1>3 DEF Disable, Service, Shut, RecordOff, Closes, sample
<1>4. ASSUME EndOK \/ IrqHandsOver PROVE Handed
  BY <1>4 DEF EndOK, IrqHandsOver, Handed
<1>5. QED
  BY <1>1, <1>2, <1>3, <1>4, FailuresCut DEF Irq

\* What the machine's own steps have to see to.
Attended ==
  /\ starting' => ~session' /\ ~owed'
  /\ pc' \in {"begin", "refresh", "post"} => sampleAge' <= MaxAge

LEMMA PassingKeeps ==
  ASSUME Evidence, Attended,
         UNCHANGED <<seg, mode, post, ended, sampleAge, sampleUsed, owed, heard>>
  PROVE  Evidence'
  BY DEF Evidence, Attended

LEMMA ClosingKeeps ==
  ASSUME TypeOK, Evidence, Attended, Closes, heard' = EndHeard, owed' = owed
  PROVE  Evidence'
<1>1. UNCHANGED <<mode, sampleAge, sampleUsed, owed>> /\ seg' = FALSE
  BY DEF Closes
<1>2. CASE ~seg
  <2>1. UNCHANGED <<seg, post, ended, heard>>
    BY <1>2 DEF Closes, EndHeard, TypeOK
  <2>2. QED
    BY <1>1, <2>1, PassingKeeps
<1>3. CASE seg
  <2>1. post' = TRUE /\ ended' = 0
    BY <1>3 DEF Closes, TypeOK
  <2>2. sampleAge \in 0 .. StaleAge /\ ended \in 0 .. SettleCap
    BY DEF TypeOK
  <2>3. sampleAge \in Nat /\ 0 <= sampleAge /\ 0 <= ended
    BY <2>2
  <2>4. heard' = IF mode = "PULSE" THEN sampleAge = 0 /\ ~sampleUsed ELSE heard
    BY <1>1, <1>3 DEF EndHeard
  <2>5. (~sampleUsed /\ sampleAge <= 0 /\ sampleAge <= MaxAge) => heard'
    <3>1. sampleAge <= 0 => sampleAge = 0
      BY <2>3
    <3>2. QED
      BY <2>3, <2>4, <3>1 DEF Evidence
  <2>6. ~heard' => owed
    BY <1>3, <2>4 DEF Evidence
  <2>7. QED
    BY <1>1, <2>1, <2>5, <2>6 DEF Evidence, Attended
<1>4. QED
  BY <1>2, <1>3 DEF TypeOK

LEMMA EvidencePassing ==
  ASSUME Evidence,
         \/ NoSample \/ CheckStart \/ CheckBuild \/ NoCommand \/ ForceStart
         \/ FaultReset \/ TimTickMs \/ UNCHANGED vars
  PROVE  Evidence'
<1>1. UNCHANGED <<seg, mode, post, ended, sampleAge, sampleUsed, owed, heard>>
  BY DEF NoSample, CheckStart, CheckBuild, NoCommand, ForceStart, FaultReset, TimTickMs,
     TimTick, Snapshot, vars, machinery, segment, owner, sample, build, history
<1>2. Attended
  <2>1. CASE CheckStart \/ CheckBuild
    <3>1. Checks[pc] \notin {"begin", "refresh", "post"}
      BY <2>1 DEF CheckStart, CheckBuild, Checks
    <3>2. QED
      BY <1>1, <2>1, <3>1 DEF CheckStart, CheckBuild, Goto, Fail, Attended, Evidence,
         machine
  <2>2. CASE NoSample \/ NoCommand \/ FaultReset
    BY <1>1, <2>2 DEF NoSample, NoCommand, FaultReset, Goto, Attended, Evidence, machine
  <2>3. CASE ForceStart
    BY <1>1, <2>3 DEF ForceStart, Goto, Attended, Evidence
  <2>4. CASE TimTickMs \/ UNCHANGED vars
    BY <1>1, <2>4 DEF TimTickMs, vars, Attended, Evidence, machine, loop
  <2>5. QED
    BY <2>1, <2>2, <2>3, <2>4
<1>3. QED
  BY <1>1, <1>2, PassingKeeps

LEMMA EvidenceClosing ==
  ASSUME TypeOK, Standing, Evidence,
         TargetOff \/ FaultStep \/ Stop \/ RefreshFeedback \/ ServiceMotor \/ IrqTim5
  PROVE  Evidence'
<1>1. /\ Closes \/ UNCHANGED <<seg, mode, post, ended, sampleAge, sampleUsed>>
      /\ heard' = EndHeard /\ owed' = owed
  <2>1. Disable \/ Service \/ Irq \/ RefreshFails \/ Snapshot \/ RefreshOK
        \/ UNCHANGED machinery
    BY DEF TargetOff, FaultStep, Stop, RefreshFeedback, ServiceMotor, IrqTim5
  <2>2. heard' = EndHeard /\ owed' = owed
    BY DEF TargetOff, FaultStep, Stop, RefreshFeedback, ServiceMotor, IrqTim5, build
  <2>3. ASSUME Snapshot \/ RefreshOK \/ UNCHANGED machinery
        PROVE  UNCHANGED <<seg, mode, post, ended, sampleAge, sampleUsed>>
    BY <2>3 DEF Snapshot, RefreshOK, machinery, segment, owner, sample
  <2>4. QED
    BY <2>1, <2>2, <2>3, ClosingPaths
<1>2. sampleAge' = sampleAge
  BY <1>1 DEF Closes
<1>3. Attended
  <2>1. CASE TargetOff \/ FaultStep \/ Stop
    <3>1. starting' = FALSE /\ pc' \notin {"begin", "refresh", "post"}
      BY <2>1 DEF TargetOff, FaultStep, Stop, Goto, Standing, Returns, loop
    <3>2. QED
      BY <3>1 DEF Attended
  <2>2. CASE RefreshFeedback
    BY <1>1, <1>2, <2>2 DEF RefreshFeedback, Goto, Fail, Attended, Evidence, machine
  <2>3. CASE ServiceMotor \/ IrqTim5
    BY <1>1, <1>2, <2>3 DEF ServiceMotor, IrqTim5, Goto, Fail, Attended, Evidence,
       machine, loop
  <2>4. QED
    BY <2>1, <2>2, <2>3
<1>4. CASE Closes
  BY <1>1, <1>3, <1>4, ClosingKeeps
<1>5. CASE UNCHANGED <<seg, mode, post, ended, sampleAge, sampleUsed>>
  <2>1. heard' = heard
    BY <1>1, <1>5 DEF EndHeard
  <2>2. QED
    BY <1>1, <1>3, <1>5, <2>1, PassingKeeps
<1>6. QED
  BY <1>1, <1>4, <1>5

LEMMA EvidenceTake ==
  ASSUME TypeOK, Evidence, NEW age \in 0 .. StaleAge, NEW level \in Levels,
         Take(age, level)
  PROVE  Evidence'
<1>1. /\ sampleAge' = age /\ sampleUsed' = FALSE
      /\ UNCHANGED <<seg, mode, post, ended, owed, starting, session>>
      /\ heard' = (heard \/ age <= ended)
  BY DEF Take, Deliver, segment, owner, machine, build
<1>2. pc' \in {"begin", "refresh", "post"} => age <= MaxAge
  <2>1. MaxAge \in Nat /\ age \in Int
    BY TimesAssumption DEF StaleAge
  <2>2. CASE starting
    BY <2>1, <2>2 DEF Take, StartGoes, Goto, Fail
  <2>3. CASE ~starting
    BY <2>1, <2>3 DEF Take, PressureGoes, Goto, Fail
  <2>4. QED
    BY <2>2, <2>3
<1>3. ended = SettleCap => age <= ended
  BY TimesAssumption DEF StaleAge
<1>4. QED
  BY <1>1, <1>2, <1>3 DEF Evidence

LEMMA EvidenceBegin == ASSUME Standing, Evidence, BeginSession PROVE Evidence'
<1>1. UNCHANGED <<seg, mode, ended, sampleAge, sampleUsed, owed, heard>>
  BY DEF BeginSession, Snapshot, Begin, segment, sample, history
<1>2. starting /\ ~owed
  BY DEF Standing, BeginSession, Evidence
<1>3. starting' = FALSE
  BY DEF BeginSession
<1>4. pc' \in {"begin", "refresh", "post"} => sampleAge <= MaxAge
  BY DEF BeginSession, Goto, Fail, Evidence
<1>5. QED
  BY <1>1, <1>2, <1>3, <1>4 DEF Evidence

\* What answers a pulse has been noted, whether a session takes it or not.
LEMMA EvidencePost == ASSUME TypeOK, Standing, Evidence, Post PROVE Evidence'
<1>1. UNCHANGED <<seg, mode, post, ended, sampleAge, sampleUsed, heard, starting, session>>
  BY DEF Post, Snapshot, segment, owner, sample, machine, history
<1>2. pc' \in {"safety", "accept", "decide"}
  BY DEF Post, Goto
<1>3. owed' => owed
  BY DEF Post
<1>4. owed /\ ~owed' => ~seg /\ heard
  BY DEF Post, IsAnswer, Evidence
<1>5. QED
  BY <1>1, <1>2, <1>3, <1>4 DEF Evidence

LEMMA EvidenceAccept ==
  ASSUME TypeOK, Standing, Evidence, AcceptAnswer PROVE Evidence'
<1>1. pc' \in {"decide", "fault"} /\ UNCHANGED <<starting, session, heard>>
  BY DEF AcceptAnswer, Goto, Fail, machine, history
<1>2. starting => ~session /\ ~owed
  BY DEF Evidence
<1>3. CASE AcceptPost /\ owed' = FALSE
  <2>1. /\ ~seg /\ ~sampleUsed /\ sampleAge <= MaxAge /\ sampleAge <= ended
        /\ UNCHANGED <<seg, mode, ended, sampleAge, sampleUsed>>
    BY <1>3 DEF AcceptPost, Answers, segment, sample
  <2>2. heard
    BY <2>1 DEF Evidence
  <2>3. QED
    BY <1>1, <1>2, <1>3, <2>1, <2>2 DEF Evidence
<1>4. CASE AcceptExpired /\ owed' = owed
  <2>1. ~seg /\ Closes
    BY <1>4, ClosingPaths DEF AcceptExpired, Answers
  <2>2. heard' = EndHeard
    BY <1>1, <2>1 DEF EndHeard
  <2>3. Attended
    BY <1>1, <1>2, <1>4 DEF Attended
  <2>4. QED
    BY <1>4, <2>1, <2>2, <2>3, ClosingKeeps
<1>5. CASE UNCHANGED machinery /\ owed' = owed
  <2>1. UNCHANGED <<seg, mode, post, ended, sampleAge, sampleUsed>>
    BY <1>5 DEF machinery, segment, owner, sample
  <2>2. Attended
    BY <1>1, <1>2, <1>5 DEF Attended
  <2>3. QED
    BY <1>1, <1>5, <2>1, <2>2, PassingKeeps
<1>6. QED
  BY <1>3, <1>4, <1>5 DEF AcceptAnswer
\* What the executor admits is not owed an answer, and follows a sample.
LEMMA StartIsDue ==
  ASSUME TypeOK, Evidence, NEW r \in Segments, Startable(r), ~Unfit
  PROVE  ~owed /\ heard /\ ~(seg /\ mode = "PULSE")
<1>1. ~post /\ ~(seg /\ mode = "PULSE")
  BY DEF Startable, FromApproach
<1>2. ~owed
  BY <1>1 DEF Evidence
<1>3. sampleAge # StaleAge
  BY TimesAssumption DEF Unfit, StaleAge, TypeOK
<1>4. QED
  BY <1>1, <1>2, <1>3 DEF Evidence

LEMMA EvidenceStarts ==
  ASSUME TypeOK, Evidence, Attended, heard' = EndHeard, NEW r \in Segments,
         \/ StartOK(r) /\ owed' = (r.mode = "PULSE")
         \/ StartOvertaken(r) /\ owed' = owed
  PROVE  Evidence'
<1>1. Startable(r) /\ ~Unfit
  BY DEF StartOK, StartOvertaken
<1>2. ~owed /\ heard /\ ~(seg /\ mode = "PULSE")
  BY <1>1, StartIsDue
<1>3. heard'
  BY <1>2 DEF EndHeard
<1>4. sampleUsed' = TRUE
  BY DEF StartOK, StartOvertaken
<1>5. (seg' /\ mode' = "PULSE" => owed') /\ (owed' => seg' /\ mode' = "PULSE")
  <2>1. CASE StartOK(r) /\ owed' = (r.mode = "PULSE")
    BY <2>1 DEF StartOK
  <2>2. CASE StartOvertaken(r) /\ owed' = owed
    BY <1>2, <2>2 DEF StartOvertaken, Shut
  <2>3. QED
    BY <2>1, <2>2
<1>6. QED
  BY <1>3, <1>4, <1>5 DEF Evidence, Attended

\* What a decision leaves of a segment and of the answer that is owed.
Decided ==
  \/ Closes /\ owed' = owed
  \/ UNCHANGED <<seg, mode, post, ended, sampleAge, sampleUsed>> /\ owed' = owed
  \/ \E r \in Segments :
       \/ StartOK(r) /\ owed' = (r.mode = "PULSE")
       \/ StartOvertaken(r) /\ owed' = owed

LEMMA DecisionKinds == ASSUME TypeOK, Decide PROVE Decided
<1>1. ASSUME UNCHANGED machinery
      PROVE  UNCHANGED <<seg, mode, post, ended, sampleAge, sampleUsed>>
  BY <1>1 DEF machinery, segment, owner, sample
<1>2. ASSUME NEW r \in Segments, StartFails(r), owed' = owed PROVE Decided
  BY <1>2, ClosingPaths DEF StartFails, Decided
<1>3. CASE DecideApproach
  <2>1. ASSUME NEW r \in Segments, r.mode = "COARSE", StartOK(r), owed' = FALSE
        PROVE  Decided
    BY <2>1 DEF Decided
  <2>2. QED
    BY <1>1, <1>2, <1>3, <2>1 DEF DecideApproach, Decided
<1>4. CASE DecidePulse
  <2>1. ASSUME NEW r \in Segments, r.mode = "PULSE", StartOK(r), owed' = TRUE
        PROVE  Decided
    BY <2>1 DEF Decided
  <2>2. QED
    BY <1>1, <1>2, <1>4, <2>1 DEF DecidePulse, Decided
<1>5. CASE DecideBrake \/ DecideNothing
  BY <1>1, <1>5, ClosingPaths DEF DecideBrake, DecideNothing, Decided
<1>6. QED
  BY <1>3, <1>4, <1>5 DEF Decide

LEMMA EvidenceDecide == ASSUME TypeOK, Standing, Evidence, Decide PROVE Evidence'
<1>1. ~starting /\ starting' = starting
  BY DEF Decide, machine, Standing, Pressing, Evidence
<1>2. pc' \in {"safety", "fault"}
  BY DEF Decide, DecideApproach, DecidePulse, DecideBrake, DecideNothing, Goto, Fail
<1>3. Attended
  BY <1>1, <1>2 DEF Attended
<1>4. heard' = EndHeard
  BY DEF Decide
<1>5. CASE Closes /\ owed' = owed
  BY <1>3, <1>4, <1>5, ClosingKeeps
<1>6. CASE UNCHANGED <<seg, mode, post, ended, sampleAge, sampleUsed>> /\ owed' = owed
  <2>1. heard' = heard
    BY <1>4, <1>6 DEF EndHeard
  <2>2. QED
    BY <1>3, <1>6, <2>1, PassingKeeps
<1>7. ASSUME NEW r \in Segments,
             \/ StartOK(r) /\ owed' = (r.mode = "PULSE")
             \/ StartOvertaken(r) /\ owed' = owed
      PROVE  Evidence'
  BY <1>3, <1>4, <1>7, EvidenceStarts
<1>8. QED
  BY <1>5, <1>6, <1>7, DecisionKinds DEF Decided

\* The sample and the end of the pulse grow old together.
LEMMA EvidenceAges == ASSUME TypeOK, Evidence, SysTickMs PROVE Evidence'
<1>1. /\ UNCHANGED <<seg, mode, post, sampleUsed, owed, heard, starting, session, pc>>
      /\ sampleAge' = Least(sampleAge + 1, StaleAge)
      /\ ended' = Least(ended + 1, SettleCap)
  BY DEF SysTickMs, SysTick, owner, build, loop
<1>2. sampleAge \in 0 .. StaleAge /\ ended \in 0 .. SettleCap
  BY DEF TypeOK
<1>3. MaxAge \in Nat /\ SettleCap \in Nat /\ MaxAge < SettleCap /\ StaleAge = MaxAge + 1
  BY TimesAssumption DEF StaleAge
<1>4. sampleAge' <= ended' /\ sampleAge' <= MaxAge => sampleAge <= ended /\ sampleAge <= MaxAge
  BY <1>1, <1>2, <1>3 DEF Least
<1>5. sampleAge = StaleAge /\ ended = SettleCap => sampleAge' = StaleAge /\ ended' = SettleCap
  BY <1>1, <1>2, <1>3 DEF Least
<1>6. pc = "sample"
  BY DEF SysTickMs
<1>7. QED
  BY <1>1, <1>4, <1>5, <1>6 DEF Evidence

LEMMA EvidenceStep ==
  TypeOK /\ Standing /\ Evidence /\ [MachineNext]_vars => Evidence'
<1>1. SUFFICES ASSUME TypeOK, Standing, Evidence, [MachineNext]_vars PROVE Evidence'
  OBVIOUS
<1>2. CASE Loop
  BY <1>1, <1>2, EvidencePassing, EvidenceClosing, EvidenceTake, EvidenceBegin,
     EvidencePost, EvidenceAccept, EvidenceDecide DEF Loop
<1>3. CASE Command
  BY <1>1, <1>3, EvidencePassing, EvidenceClosing DEF Command
<1>4. CASE SysTickMs \/ TimTickMs \/ IrqTim5 \/ UNCHANGED vars
  BY <1>1, <1>4, EvidencePassing, EvidenceClosing, EvidenceAges
<1>5. QED
  BY <1>1, <1>2, <1>3, <1>4 DEF MachineNext

LEMMA EvidenceInit == MachineInit => Evidence
  BY TimesAssumption DEF MachineInit, Init, Evidence, StaleAge

\* No call but a start begins a pulse.
LEMMA NoPulse ==
  ASSUME \/ Snapshot \/ Begin \/ Refresh \/ Accept \/ Disable \/ Service \/ End
         \/ SysTick \/ TimTick \/ Irq
         \/ \E age \in 0 .. StaleAge : Deliver(age)
         \/ \E r \in Segments : StartFails(r)
         \/ UNCHANGED machinery
  PROVE  ~PulseStarts
<1>1. ASSUME UNCHANGED <<out, mode>> \/ out' \in {"OFF", "BRAKE"} PROVE ~PulseStarts
  BY <1>1 DEF PulseStarts
<1>2. CASE Snapshot \/ Begin \/ AcceptPost \/ SysTick \/ TimTick
           \/ \E age \in 0 .. StaleAge : Deliver(age)
  BY <1>1, <1>2 DEF Snapshot, Begin, AcceptPost, SysTick, TimTick, Deliver, hardware,
     segment
<1>3. CASE RefreshOK \/ UNCHANGED machinery
  BY <1>1, <1>3 DEF RefreshOK, machinery, hardware, segment
<1>4. CASE RefreshFails \/ AcceptExpired \/ IrqCutsOff \/ EndFails
  BY <1>1, <1>4 DEF RefreshFails, RefreshTooLate, RefreshExpired, AcceptExpired,
     IrqCutsOff, EndFails, EndTooLate, EndOvertaken, CutOff, Shut
<1>5. CASE Disable \/ Service
  BY <1>1, <1>5 DEF Disable, Service, Shut
<1>6. CASE IrqHandsOver \/ EndOK
  BY <1>1, <1>6 DEF IrqHandsOver, EndOK, HandOver
<1>7. CASE \E r \in Segments : StartFails(r)
  BY <1>1, <1>7 DEF StartFails, StartRejected, StartExpired, StartExhausted,
     StartOvertaken, CutOff, Shut
<1>8. QED
  BY <1>2, <1>3, <1>4, <1>5, <1>6, <1>7 DEF Refresh, Accept, Irq, End

\* Only the decision of a pulse begins one.
LEMMA PulseIsDecided ==
  ASSUME [MachineNext]_vars, PulseStarts
  PROVE  /\ pc = "decide"
         /\ phase' = "BUILD"
         /\ \E r \in Segments : r.mode = "PULSE" /\ StartOK(r)
<1>1. ~(Loop /\ ~Decide)
  <2>1. ASSUME Loop, ~Decide
        PROVE  \/ Snapshot \/ Begin \/ Refresh \/ Accept \/ Disable \/ Service
               \/ \E age \in 0 .. StaleAge : Deliver(age)
               \/ UNCHANGED machinery
    BY <2>1 DEF Loop, NoSample, CheckStart, CheckBuild, Take, BeginSession, TargetOff,
       RefreshFeedback, Refresh, Post, AcceptAnswer, Accept, ServiceMotor, NoCommand,
       FaultStep
  <2>2. QED
    BY <2>1, NoPulse
<1>2. ~Command
  BY NoPulse DEF Command, Stop, ForceStart, FaultReset
<1>3. ~(SysTickMs \/ TimTickMs \/ IrqTim5 \/ UNCHANGED vars)
  BY NoPulse DEF SysTickMs, TimTickMs, IrqTim5, vars
<1>4. Decide
  BY <1>1, <1>2, <1>3 DEF MachineNext
<1>5. ~DecideApproach
  <2>1. ASSUME NEW r \in Segments, r.mode = "COARSE", StartOK(r) PROVE FALSE
    BY <2>1 DEF StartOK, PulseStarts
  <2>2. QED
    BY <2>1, NoPulse DEF DecideApproach
<1>6. ~DecideBrake /\ ~DecideNothing
  BY NoPulse DEF DecideBrake, DecideNothing, End
<1>7. DecidePulse /\ pc = "decide"
  BY <1>4, <1>5, <1>6 DEF Decide
<1>8. QED
  BY <1>7, NoPulse DEF DecidePulse

LEMMA PulseIsDue ==
  TypeOK /\ Evidence /\ [MachineNext]_vars => (PulseStarts => heard)
<1>1. SUFFICES ASSUME TypeOK, Evidence, [MachineNext]_vars, PulseStarts PROVE heard
  OBVIOUS
<1>2. PICK r \in Segments : StartOK(r)
  BY <1>1, PulseIsDecided
<1>3. Startable(r) /\ ~Unfit
  BY <1>2 DEF StartOK
<1>4. QED
  BY <1>1, <1>3, StartIsDue

LEMMA MachineFacts == MachineSpec => [](TypeOK /\ Standing)
<1>1. Init => TypeOK
  BY TypingInit
<1>2. MachineInit => Standing
  BY DEF MachineInit, Init, Standing, DriveIsGranted, Pressing, Returns
<1>3. QED
  BY <1>1, <1>2, Calls, TypingStep, StandingStep, PTL DEF MachineSpec

\* Every pulse is decided on the effect of the one before: none begins before a
\* sample that was received after the last one ended, whatever ended it, and also
\* when a STOP, a fault and a new START lie between the two (StartBuildSegment's
\* post_pending, b->post_pending and ForceBuildMachine_Ready).
THEOREM Evidenced == MachineSpec => PulseNeedsEvidence
<1>1. TypeOK /\ Evidence /\ [MachineNext]_vars => [PulseStarts => heard]_vars
  BY PulseIsDue
<1>2. QED
  BY <1>1, MachineFacts, EvidenceInit, EvidenceStep, PTL
     DEF MachineSpec, PulseNeedsEvidence
-----------------------------------------------------------------------------
(* Pressing without a gain is counted, and what is counted stops it.       *)

\* The budgets have seen the rest that is over: no call will reset them now.
Earned == out = "OFF" /\ offFor >= FullRest => ~rest.required /\ ~rest.reserved
Current == rest.epoch = epoch /\ Earned

Driven == {"take", "refresh", "post", "accept", "decide"}

\* All driving past the approach is in the machine's own count or waits to be
\* added to it.  Where the loop goes on to a decision, CheckPressureSafety has just
\* brought the count up to date and found room in it, and no reset of the budgets
\* is outstanding; one that is, found while nothing drives, is of a rest that is
\* over.  A START and an approach begin with room in the count.
Metered ==
  /\ out # "OFF" => Pressing
  /\ quiet = FullRest => stuck = 0
  /\ rest.epoch # epoch => stuck = 0 /\ out = "OFF"
  /\ stuck <= Accounted
  /\ starting => silent < NoResponse
  /\ Pressing /\ phase = "APPROACH" => silent < NoResponse
  /\ Pressing /\ pc \in Driven => Current /\ silent < NoResponse /\ unaccounted = 0

\* A reset of the budgets follows a rest that the motor has really had.
LEMMA RestIsReal ==
  ASSUME TypeOK, Budgeted, RestOver
  PROVE  quiet = FullRest /\ out = "OFF" /\ ~Earned
<1>1. out = "OFF" /\ (rest.required \/ rest.reserved) /\ ConfirmedOff >= FullRest
  BY DEF RestOver
<1>2. offFor >= FullRest
  BY <1>1, TimesAssumption DEF ConfirmedOff, TypeOK, NotOff
<1>3. quiet = FullRest
  BY <1>2, TimesAssumption DEF Budgeted, TypeOK, NotOff
<1>4. QED
  BY <1>1, <1>2, <1>3 DEF Earned

\* What a look at the budgets does to them.
LEMMA Looked ==
  ASSUME TypeOK, DriveIsOwned, Budgeted, Metered, Snapshot \/ Begin
  PROVE  /\ out' = out /\ quiet' = quiet
         /\ rest'.epoch # rest.epoch => stuck = 0 /\ out = "OFF"
         /\ Earned => rest'.epoch = rest.epoch
         /\ Earned'
<1>1. rest' = Rested /\ offFor' = ConfirmedOff /\ out' = out /\ quiet' = quiet
  BY DEF Snapshot, Begin, hardware, watch
<1>2. CASE RestOver
  <2>1. ~Rested.required /\ ~Rested.reserved
    BY <1>2 DEF Rested
  <2>2. QED
    BY <1>1, <1>2, <2>1, RestIsReal DEF Metered, Earned
<1>3. CASE ~RestOver
  <2>1. rest' = rest
    BY <1>1, <1>3 DEF Rested
  <2>2. out = "OFF" => ~seg /\ ~brake
    BY DEF DriveIsOwned, TypeOK
  <2>3. Earned'
    BY <1>1, <1>3, <2>1, <2>2 DEF Earned, RestOver
  <2>4. QED
    BY <1>1, <2>1, <2>3
<1>4. QED
  BY <1>2, <1>3

\* What the end of a segment does to the budgets.
LEMMA Closed ==
  ASSUME TypeOK, DriveIsOwned, Budgeted,
         Disable \/ Service \/ Irq \/ RefreshFails \/ AcceptExpired
  PROVE  /\ out' # "OFF" => out # "OFF"
         /\ quiet' = quiet
         /\ rest'.epoch = rest.epoch
         /\ Earned => Earned'
<1>1. CASE IrqHandsOver
  BY <1>1 DEF IrqHandsOver, CanHandOver, HandOver, budget, Earned
<1>2. CASE Disable \/ Service \/ IrqCutsOff \/ RefreshFails \/ AcceptExpired
  <2>1. Shut /\ quiet' = quiet /\ \E why \in Reasons : RecordOff(why, rest)
    BY <1>2 DEF Disable, Service, IrqCutsOff, RefreshFails, RefreshTooLate,
       RefreshExpired, AcceptExpired, CutOff, Reasons
  <2>2. rest' = [rest EXCEPT !.required = @ \/ Overran]
    BY <2>1 DEF RecordOff
  <2>3. rest \in Rests
    BY DEF TypeOK, Rests
  <2>4. rest'.epoch = rest.epoch /\ rest'.reserved = rest.reserved
        /\ (rest'.required => rest.required \/ seg)
    BY <2>2, <2>3 DEF Rests, Overran
  <2>5. out' = "OFF" /\ offFor' = IF offFor = NotOff THEN 0 ELSE offFor
    BY <2>1 DEF Shut
  <2>6. FullRest \in Nat \ {0} /\ NotOff = -1
    BY TimesAssumption DEF NotOff
  <2>7. offFor' >= FullRest => out = "OFF" /\ ~seg /\ offFor >= FullRest
    BY <2>5, <2>6 DEF Budgeted, DriveIsOwned, TypeOK
  <2>8. Earned => Earned'
    BY <2>4, <2>7 DEF Earned
  <2>9. QED
    BY <2>1, <2>4, <2>5, <2>8
<1>3. QED
  BY <1>1, <1>2 DEF Irq

\* The steps that leave the session and its count alone.
LEMMA MeteredPassing ==
  ASSUME Metered,
         UNCHANGED <<session, monitoring, starting, phase, silent, unaccounted, stuck,
                     epoch, quiet>>,
         out' # "OFF" => out # "OFF",
         rest'.epoch # rest.epoch => stuck = 0 /\ out = "OFF",
         Pressing /\ pc' \in Driven => pc \in Driven /\ Current'
  PROVE  Metered'
<1>1. Pressing' = Pressing /\ Accounted' = Accounted
  BY DEF Pressing, Accounted
<1>2. rest'.epoch # epoch' => stuck' = 0 /\ out' = "OFF"
  BY DEF Metered
<1>3. QED
  BY <1>1, <1>2 DEF Metered

LEMMA MeteredIdle ==
  ASSUME Metered, Standing, Evidence,
         \/ NoSample \/ CheckStart \/ NoCommand \/ FaultReset \/ TimTickMs
         \/ UNCHANGED vars
  PROVE  Metered'
<1>1. UNCHANGED <<session, monitoring, starting, phase, silent, unaccounted, stuck,
                  epoch, quiet, out, rest, offFor>>
  BY DEF NoSample, CheckStart, NoCommand, FaultReset, TimTickMs, TimTick, vars,
     machinery, hardware, budget, watch, machine, build, account, history
<1>2. Current' = Current
  BY <1>1 DEF Current, Earned
<1>3. Pressing /\ pc' \in Driven => pc \in Driven
  <2>1. CASE CheckStart
    BY <2>1 DEF CheckStart, Evidence, Pressing
  <2>2. CASE NoSample \/ NoCommand \/ FaultReset
    BY <2>2 DEF NoSample, NoCommand, FaultReset, Goto, Driven
  <2>3. CASE TimTickMs \/ UNCHANGED vars
    BY <2>3 DEF TimTickMs, vars, loop
  <2>4. QED
    BY <2>1, <2>2, <2>3
<1>4. QED
  BY <1>1, <1>2, <1>3, MeteredPassing DEF Metered

LEMMA MeteredCheck ==
  ASSUME MachineTypeOK, TypeOK, DriveIsOwned, Budgeted, Metered, CheckBuild
  PROVE  Metered'
<1>1. /\ UNCHANGED <<session, monitoring, starting, phase, stuck>>
      /\ ~starting
      /\ silent' = Synced(Accounted) /\ unaccounted' = 0 /\ epoch' = rest'.epoch
      /\ Snapshot
  BY DEF CheckBuild, machine, history
<1>2. out' = out /\ quiet' = quiet /\ Earned'
      /\ (rest'.epoch # rest.epoch => stuck = 0 /\ out = "OFF")
  BY <1>1, Looked
<1>3. Pressing' = Pressing
  BY <1>1 DEF Pressing
<1>4. NoResponse \in Nat \ {0} /\ stuck \in Nat /\ Accounted \in 0 .. NoResponse
  BY CountTypes, MachineTimesAssumption DEF MachineTypeOK
<1>5. silent' \in 0 .. NoResponse /\ stuck' <= silent'
  <2>1. CASE rest'.epoch # epoch
    <3>1. stuck = 0
      BY <1>2, <2>1 DEF Metered
    <3>2. silent' = 0
      BY <1>1, <2>1 DEF Synced
    <3>3. QED
      BY <1>1, <1>4, <3>1, <3>2
  <2>2. CASE rest'.epoch = epoch
    <3>1. silent' = Accounted
      BY <1>1, <2>2 DEF Synced
    <3>2. QED
      BY <1>1, <1>4, <3>1 DEF Metered
  <2>3. QED
    BY <2>1, <2>2
<1>6. Accounted' = silent'
  BY <1>1, <1>4, <1>5 DEF Accounted, Least
<1>7. Pressing /\ phase = "APPROACH" => silent' < NoResponse
  <2>1. phase = "APPROACH" => Accounted = silent
    BY DEF Accounted
  <2>2. QED
    BY <1>1, <1>4, <2>1 DEF Synced, Metered
<1>8. Pressing /\ pc' \in Driven => silent' < NoResponse
  <2>1. SUFFICES ASSUME Pressing, pc' \in Driven, phase # "APPROACH"
                 PROVE  silent' < NoResponse
    BY <1>7
  <2>2. ~BuildFaulty(silent')
    BY <2>1 DEF CheckBuild, Fail, Driven
  <2>3. ~(silent' >= NoResponse)
    BY <2>1, <2>2 DEF BuildFaulty, Pressing
  <2>4. QED
    BY <1>4, <1>5, <2>3
<1>9. QED
  BY <1>1, <1>2, <1>3, <1>5, <1>6, <1>7, <1>8 DEF Metered, Current

LEMMA MeteredTake ==
  ASSUME Metered, Evidence, NEW age \in 0 .. StaleAge, NEW level \in Levels,
         Take(age, level)
  PROVE  Metered'
<1>1. UNCHANGED <<session, monitoring, starting, phase, silent, unaccounted, stuck,
                  epoch, quiet, out, rest, offFor>> /\ pc = "take"
  BY DEF Take, Deliver, hardware, budget, machine, build, account
<1>2. Current' = Current
  BY <1>1 DEF Current, Earned
<1>3. QED
  BY <1>1, <1>2, MeteredPassing DEF Metered, Driven

LEMMA MeteredBegin ==
  ASSUME MachineTypeOK, TypeOK, DriveIsOwned, Budgeted, Standing, Evidence, Metered,
         BeginSession
  PROVE  Metered'
<1>1. /\ starting' = FALSE /\ unaccounted' = 0 /\ epoch' = rest'.epoch
      /\ silent' = Synced(silent) /\ stuck' = stuck
      /\ Snapshot \/ Begin
  BY DEF BeginSession, CarriedAtBegin, history
<1>2. starting /\ ~Pressing /\ out = "OFF" /\ silent < NoResponse
  BY DEF Standing, BeginSession, Evidence, Pressing, Metered
<1>3. out' = out /\ quiet' = quiet /\ Earned'
      /\ (rest'.epoch # rest.epoch => stuck = 0 /\ out = "OFF")
  BY <1>1, Looked
<1>4. /\ NoResponse \in Nat \ {0} /\ stuck \in Nat
      /\ silent \in 0 .. NoResponse
  BY MachineTimesAssumption DEF MachineTypeOK
<1>5. silent' \in 0 .. NoResponse /\ silent' < NoResponse
  BY <1>1, <1>2, <1>4 DEF Synced
<1>6. stuck <= silent'
  <2>1. CASE rest'.epoch # epoch
    <3>1. stuck = 0 /\ silent' = 0
      BY <1>1, <1>3, <2>1 DEF Metered, Synced
    <3>2. QED
      BY <3>1
  <2>2. CASE rest'.epoch = epoch
    <3>1. silent' = silent /\ Accounted = silent
      BY <1>1, <1>2, <2>2 DEF Synced, Accounted
    <3>2. QED
      BY <3>1 DEF Metered
  <2>3. QED
    BY <2>1, <2>2
<1>7. Accounted' = silent'
  BY <1>1, <1>4, <1>5 DEF Accounted, Least
<1>8. QED
  BY <1>1, <1>2, <1>3, <1>5, <1>6, <1>7 DEF Metered, Current
\* What ends a session adds up its count and turns the bridge off.
LEMMA MeteredEnds ==
  ASSUME MachineTypeOK, TypeOK, DriveIsOwned, Budgeted, Metered,
         FaultStep \/ TargetOff \/ Stop
  PROVE  Metered'
<1>1. /\ silent' = Accounted /\ stuck' = stuck /\ epoch' = epoch
      /\ starting' = FALSE
  BY DEF FaultStep, TargetOff, Stop, build
<1>2. Disable /\ ~Pressing'
  BY DEF FaultStep, TargetOff, Stop, Pressing
<1>3. out' = "OFF" /\ quiet' = quiet /\ rest'.epoch = rest.epoch
  BY <1>2, Closed DEF Disable, Shut
<1>4. Accounted' = silent'
  BY <1>2 DEF Accounted
<1>5. QED
  BY <1>1, <1>2, <1>3, <1>4 DEF Metered

LEMMA MeteredCalls ==
  ASSUME TypeOK, DriveIsOwned, Budgeted, Standing, Metered,
         ServiceMotor \/ Post \/ RefreshFeedback \/ AcceptAnswer \/ IrqTim5
  PROVE  Metered'
<1>1. UNCHANGED <<session, monitoring, starting, phase, silent, unaccounted, stuck,
                  epoch>>
  BY DEF ServiceMotor, Post, RefreshFeedback, AcceptAnswer, IrqTim5, machine, build,
     account, history
<1>2. /\ out' # "OFF" => out # "OFF"
      /\ quiet' = quiet
      /\ rest'.epoch # rest.epoch => stuck = 0 /\ out = "OFF"
      /\ Earned => rest'.epoch = rest.epoch /\ Earned'
  <2>1. \/ Snapshot \/ RefreshOK \/ AcceptPost \/ UNCHANGED machinery
        \/ Service \/ Irq \/ RefreshFails \/ AcceptExpired
    BY DEF ServiceMotor, Post, RefreshFeedback, AcceptAnswer, IrqTim5
  <2>2. CASE Snapshot
    BY <2>2, Looked
  <2>3. CASE RefreshOK \/ AcceptPost \/ UNCHANGED machinery
    <3>1. UNCHANGED <<out, quiet, rest, offFor>>
      BY <2>3 DEF RefreshOK, AcceptPost, machinery, hardware, budget, watch
    <3>2. QED
      BY <3>1 DEF Earned
  <2>4. CASE Service \/ Irq \/ RefreshFails \/ AcceptExpired
    BY <2>4, Closed
  <2>5. QED
    BY <2>1, <2>2, <2>3, <2>4
<1>3. Pressing /\ pc' \in Driven => pc \in Driven
  <2>1. CASE ServiceMotor
    BY <2>1 DEF ServiceMotor, Goto, Fail, Driven
  <2>2. CASE Post \/ RefreshFeedback \/ AcceptAnswer
    BY <2>2 DEF Post, RefreshFeedback, AcceptAnswer, Driven
  <2>3. CASE IrqTim5
    BY <2>3 DEF IrqTim5, loop
  <2>4. QED
    BY <2>1, <2>2, <2>3
<1>4. Pressing /\ pc' \in Driven => Current'
  BY <1>1, <1>2, <1>3 DEF Metered, Current
<1>5. QED
  BY <1>1, <1>2, <1>3, <1>4, MeteredPassing

LEMMA MeteredStart ==
  ASSUME MachineTypeOK, TypeOK, DriveIsOwned, Budgeted, Metered, ForceStart
  PROVE  Metered'
<1>1. /\ ~session /\ out = "OFF" /\ pc' = "tick"
      /\ UNCHANGED <<session, monitoring, stuck>>
      /\ epoch' = rest'.epoch /\ silent' = Synced(silent) /\ silent' < NoResponse
      /\ Snapshot
  BY DEF ForceStart, Goto
<1>2. ~Pressing /\ ~Pressing'
  BY <1>1 DEF Pressing
<1>3. out' = out /\ quiet' = quiet
      /\ (rest'.epoch # rest.epoch => stuck = 0 /\ out = "OFF")
  BY <1>1, Looked
<1>4. stuck <= silent'
  <2>1. CASE rest'.epoch # epoch
    <3>1. stuck = 0 /\ silent' = 0
      BY <1>1, <1>3, <2>1 DEF Metered, Synced
    <3>2. QED
      BY <3>1
  <2>2. CASE rest'.epoch = epoch
    <3>1. silent' = silent /\ Accounted = silent
      BY <1>1, <1>2, <2>2 DEF Synced, Accounted
    <3>2. QED
      BY <3>1 DEF Metered
  <2>3. QED
    BY <2>1, <2>2
<1>5. Accounted' = silent'
  BY <1>2 DEF Accounted
<1>6. QED
  BY <1>1, <1>2, <1>3, <1>4, <1>5 DEF Metered

\* No decision looks at budgets that a rest would reset.
LEMMA DecidedEpoch ==
  ASSUME TypeOK, Budgeted, Earned, Decide
  PROVE  rest'.epoch = rest.epoch /\ (quiet' = quiet \/ quiet' = 0)
<1>1. Rested = rest
  BY RestIsReal DEF Rested
<1>2. rest \in Rests
  BY DEF TypeOK, Rests
<1>3. ASSUME NEW r \in Segments
      PROVE  Reserve(r).epoch = rest.epoch
  BY <1>1, <1>2 DEF Reserve, Rests
<1>4. ASSUME NEW why, NEW e, NEW b \in {rest, [rest EXCEPT !.required = TRUE]},
             CutOff(why, e, b)
      PROVE  rest'.epoch = rest.epoch /\ quiet' = quiet
  BY <1>2, <1>4 DEF CutOff, RecordOff, Rests
<1>5. ASSUME NEW r \in Segments, StartOK(r)
      PROVE  rest'.epoch = rest.epoch /\ quiet' = 0
  BY <1>3, <1>5 DEF StartOK
<1>6. ASSUME NEW r \in Segments, StartFails(r)
      PROVE  rest'.epoch = rest.epoch /\ quiet' = quiet
  <2>1. CASE StartRejected(r) \/ StartExpired(r) \/ StartExhausted(r)
    BY <1>1, <1>4, <2>1 DEF StartRejected, StartExpired, StartExhausted
  <2>2. CASE StartOvertaken(r)
    BY <1>3, <2>2 DEF StartOvertaken
  <2>3. QED
    BY <1>6, <2>1, <2>2 DEF StartFails
<1>7. ASSUME EndOK \/ EndFails PROVE rest'.epoch = rest.epoch /\ quiet' = quiet
  BY <1>4, <1>7 DEF EndOK, HandOver, budget, EndFails, EndTooLate, EndOvertaken
<1>8. ASSUME UNCHANGED machinery PROVE rest'.epoch = rest.epoch /\ quiet' = quiet
  BY <1>8 DEF machinery, budget, watch
<1>9. QED
  BY <1>5, <1>6, <1>7, <1>8 DEF Decide, DecideApproach, DecidePulse, DecideBrake,
     DecideNothing

LEMMA MeteredDecide ==
  ASSUME MachineTypeOK, TypeOK, DriveIsOwned, Budgeted, Standing, Evidence, Metered,
         Decide
  PROVE  Metered'
<1>1. Pressing /\ ~starting /\ pc \in Driven
  BY DEF Decide, Standing, Pressing, Evidence, Driven
<1>2. Pressing' /\ ~starting' /\ pc' \notin Driven
  BY <1>1 DEF Decide, DecideApproach, DecidePulse, DecideBrake, DecideNothing, Goto,
     Fail, machine, Pressing, Driven
<1>3. Current /\ silent < NoResponse /\ unaccounted = 0
  BY <1>1 DEF Metered
<1>4. rest'.epoch = epoch' /\ (quiet' = quiet \/ quiet' = 0)
  BY <1>3, DecidedEpoch DEF Current, Decide
<1>5. NoResponse \in Nat \ {0} /\ silent \in 0 .. NoResponse /\ stuck \in Nat
      /\ FullRest # 0
  BY MachineTimesAssumption, TimesAssumption DEF MachineTypeOK
<1>6. Accounted = silent
  BY <1>3, <1>5 DEF Accounted, Least
<1>7. \/ silent' = 0 /\ stuck' = 0
      \/ silent' = silent /\ stuck' = stuck
  BY <1>6 DEF Decide, Counted
<1>8. silent' \in 0 .. NoResponse /\ silent' < NoResponse /\ stuck' <= silent'
  BY <1>3, <1>5, <1>6, <1>7 DEF Metered
<1>9. Accounted' = silent'
  <2>1. unaccounted' = 0
    BY DEF Decide, Counted
  <2>2. \A n \in 0 .. NoResponse : Least(n + 0, NoResponse) = n
    BY <1>5 DEF Least
  <2>3. Least(silent' + unaccounted', NoResponse) = silent'
    BY <1>8, <2>1, <2>2
  <2>4. QED
    BY <2>3 DEF Accounted
<1>10. quiet' = FullRest => stuck' = 0
  BY <1>4, <1>5, <1>7 DEF Metered
<1>11. QED
  BY <1>2, <1>4, <1>8, <1>9, <1>10 DEF Metered

\* A millisecond of driving past the approach is one more to be counted.
LEMMA MeteredAges ==
  ASSUME MachineTypeOK, TypeOK, Metered, SysTickMs PROVE Metered'
<1>1. /\ UNCHANGED <<session, monitoring, starting, phase, silent, epoch, out, rest, pc>>
      /\ pc = "sample"
      /\ unaccounted' = Least(unaccounted + 1, NoResponse)
  BY DEF SysTickMs, SysTick, build, loop
<1>2. Pressing' = Pressing
  BY <1>1 DEF Pressing
<1>3. quiet' = IF out = "OFF" THEN Least(quiet + 1, FullRest) ELSE 0
  BY DEF SysTickMs, SysTick
<1>4. stuck' = IF quiet' = FullRest THEN 0
               ELSE IF out # "OFF" /\ phase # "APPROACH"
               THEN Least(stuck + 1, NoResponse)
               ELSE stuck
  BY DEF SysTickMs
<1>5. /\ NoResponse \in Nat \ {0} /\ silent \in 0 .. NoResponse
      /\ unaccounted \in 0 .. NoResponse /\ stuck \in 0 .. NoResponse
  BY MachineTimesAssumption DEF MachineTypeOK
<1>6. stuck <= Accounted
  BY DEF Metered
<1>7. stuck' <= Accounted'
  <2>1. CASE Pressing /\ phase # "APPROACH"
    <3>1. Accounted = Least(silent + unaccounted, NoResponse)
          /\ Accounted' = Least(silent + Least(unaccounted + 1, NoResponse), NoResponse)
      BY <1>1, <1>2, <2>1 DEF Accounted
    <3>2. stuck' \in {0, stuck, Least(stuck + 1, NoResponse)}
      BY <1>4
    <3>3. QED
      BY <1>5, <1>6, <3>1, <3>2 DEF Least
  <2>2. CASE ~(Pressing /\ phase # "APPROACH")
    <3>1. Accounted' = Accounted
      BY <1>1, <1>2, <2>2 DEF Accounted
    <3>2. out = "OFF" \/ phase = "APPROACH"
      BY <2>2 DEF Metered
    <3>3. stuck' \in {0, stuck}
      BY <1>4, <3>2
    <3>4. Accounted \in 0 .. NoResponse
      BY CountTypes
    <3>5. QED
      BY <1>5, <1>6, <3>1, <3>3, <3>4
  <2>3. QED
    BY <2>1, <2>2
<1>8. stuck = 0 /\ out = "OFF" => stuck' = 0
  BY <1>4
<1>9. QED
  BY <1>1, <1>2, <1>4, <1>7, <1>8 DEF Metered, Driven

LEMMA MeteredStep ==
  /\ MachineTypeOK /\ TypeOK /\ DriveIsOwned /\ Budgeted /\ Standing /\ Evidence
  /\ Metered /\ [MachineNext]_vars
  => Metered'
<1>1. SUFFICES ASSUME MachineTypeOK, TypeOK, DriveIsOwned, Budgeted, Standing,
                      Evidence, Metered, [MachineNext]_vars
               PROVE  Metered'
  OBVIOUS
<1>2. CASE Loop
  BY <1>1, <1>2, MeteredIdle, MeteredCheck, MeteredTake, MeteredBegin, MeteredEnds,
     MeteredCalls, MeteredDecide DEF Loop
<1>3. CASE Command
  BY <1>1, <1>3, MeteredIdle, MeteredEnds, MeteredStart DEF Command
<1>4. CASE SysTickMs \/ TimTickMs \/ IrqTim5 \/ UNCHANGED vars
  BY <1>1, <1>4, MeteredIdle, MeteredCalls, MeteredAges
<1>5. QED
  BY <1>1, <1>2, <1>3, <1>4 DEF MachineNext

LEMMA MeteredInit == MachineInit => Metered
<1>1. NoResponse \in Nat \ {0}
  BY MachineTimesAssumption
<1>2. QED
  BY <1>1 DEF MachineInit, Init, Metered, Pressing, Accounted

LEMMA PulseHasRoom ==
  /\ MachineTypeOK /\ Standing /\ Metered /\ [MachineNext]_vars
  => (PulseStarts => stuck < NoResponse)
<1>1. SUFFICES ASSUME MachineTypeOK, Standing, Metered, [MachineNext]_vars, PulseStarts
               PROVE  stuck < NoResponse
  OBVIOUS
<1>2. pc = "decide"
  BY <1>1, PulseIsDecided
<1>3. Pressing /\ pc \in Driven
  BY <1>1, <1>2 DEF Standing, Driven
<1>4. silent < NoResponse /\ unaccounted = 0 /\ stuck <= Accounted
  BY <1>1, <1>3 DEF Metered
<1>5. NoResponse \in Nat /\ silent \in 0 .. NoResponse /\ stuck \in Nat
  BY <1>1, MachineTimesAssumption DEF MachineTypeOK
<1>6. Accounted = silent
  BY <1>4, <1>5 DEF Accounted, Least
<1>7. QED
  BY <1>4, <1>5, <1>6

\* No pulse begins once driving and braking past the approach have gone on for
\* NoResponse without a gain or a full rest, whatever STOP, fault, START, approach
\* or answer without a gain lies between (ForceBuildMachine_Account, sync_epoch,
\* ForceBuildMachine_Begin and _Safety).
THEOREM Unrefunded == MachineSpec => NoPulseUnanswered
<1>1. MachineTypeOK /\ Standing /\ Metered /\ [MachineNext]_vars
      => [PulseStarts => stuck < NoResponse]_vars
  BY PulseHasRoom
<1>2. Init => TypeOK /\ Inv
  BY TypingInit, InvInit
<1>3. Inv => DriveIsOwned /\ Budgeted
  BY DEF Inv
<1>4. MachineSpec => [](DriveIsOwned /\ Budgeted)
  BY <1>2, <1>3, Calls, TypingStep, InvStep, PTL
<1>5. QED
  BY <1>1, <1>4, MachineTyped, MachineFacts, EvidenceInit, EvidenceStep, MeteredInit,
     MeteredStep, PTL DEF MachineSpec, NoPulseUnanswered
=============================================================================
