----------------------------- MODULE AutoTarget -----------------------------
(***************************************************************************)
(* The automatic pressing cycle (Application/machine.c, the AutoTarget     *)
(* build) in its main loop (User/main.c, Application/runtime.c): search    *)
(* for contact by bounded approach pulses, settle, correct by bounded      *)
(* pulses, hold, and fault on stale pressure, overpressure, a backstop, a  *)
(* failed executor call or a cycle that does not converge.                 *)
(*                                                                         *)
(* Three actors interleave: the main loop, one step for each call it makes *)
(* per iteration; the pressure receiver, which publishes samples from the  *)
(* USART6 interrupt; and TIM5, which ends a drive.  The motor executor is  *)
(* seen as MotorExecutor promises it: a drive was requested by Start, ends *)
(* by TIM5 or Disable, and is reported by Service.                         *)
(*                                                                         *)
(* The code keeps time stamps; the model keeps their ages, which saturate  *)
(* at Cap.  now_ms is read once per iteration and is lag old, so the age   *)
(* of a stamp as the code sees it is its age - lag.                        *)
(***************************************************************************)
EXTENDS Integers

CONSTANTS
    Freshness,     \* pressure_freshness_ms
    SettleDelay,   \* settle_delay_ms
    FeedbackTime,  \* settle_feedback_timeout_ms
    CycleTime,     \* automatic_cycle_timeout_ms
    Duration,      \* approach and pulse duration_ms
    Backstop,      \* approach and pulse backstop_ms
    MaxLag,        \* bound on the time one iteration takes
    Cap,           \* ages above every limit are equal
    Levels,        \* the pressures the sensor may report
    Failures       \* executor calls may fail

ASSUME TimeAssumption ==
    /\ {Freshness, SettleDelay, FeedbackTime, CycleTime, Duration} \subseteq Nat \ {0}
    /\ Backstop \in Nat /\ Backstop > Duration
    /\ MaxLag \in Nat
    /\ Cap \in Nat
    /\ \A t \in {Freshness + SettleDelay, FeedbackTime, CycleTime} : Cap > t + 2 * MaxLag
    /\ Failures \in BOOLEAN

(***************************************************************************)
(* A pressure is told apart by the band of the target it lies in: less     *)
(* than the contact threshold; less than hold_exit or hold_enter below the *)
(* target; inside; the same above; at the raw overpressure limit; or not   *)
(* convertible.  "none" is the state before the first sample.              *)
(***************************************************************************)
NoContact == {"free"}
Low == {"far-low", "low"}
High == {"high", "far-high"}
Contact == Low \cup {"inside"} \cup High \cup {"raw"}
Valid == NoContact \cup Contact
ASSUME LevelAssumption == Levels \subseteq Valid \cup {"invalid"}

VARIABLES
    cell,      \* MachineContext, and the executor as the machine sees it
    published, \* the receiver's newest sample, until the main loop copies it
    snapshot,  \* the main loop's copy, until it is delivered
    pc,        \* where the main loop is
    lag,       \* age of the iteration's now_ms
    restAge,   \* history: time since the output last went off, or since START
    budgetAge  \* history: time since the convergence budget last began

history == <<restAge, budgetAge>>
vars == <<cell, published, snapshot, pc, lag, history>>

States == {"IDLE", "AUTO_APPROACH", "AUTO_SETTLE", "AUTO_PULSE", "AUTO_HOLD", "FAULT"}
Motion == {"AUTO_APPROACH", "AUTO_PULSE"}
Automatic == Motion \cup {"AUTO_SETTLE", "AUTO_HOLD"}
Outputs == {"OFF", "PRESS", "RELEASE"}
Ends == {"NORMAL", "BACKSTOP", "ERROR"}

Sample == [level : Valid \cup {"invalid"}, age : 0..Cap]
Nothing == [level |-> "none", age |-> Cap]

\* After Machine_CompleteBoot, with a target set.
InitCell == [
    state      |-> "IDLE",
    owned      |-> FALSE,   \* motor_request_sequence is the executor's
    phase      |-> "DELAY", \* settle_phase
    contacted  |-> FALSE,   \* auto_has_contacted
    pending    |-> FALSE,   \* auto_approach_pending
    level      |-> "none",  \* pressure
    sampleAge  |-> Cap,     \* pressure.received_at_ms
    settleAge  |-> 0,       \* state_entered_ms, which only AUTO_SETTLE reads
    cycleAge   |-> Cap,     \* cycle_started_ms, which only a cycle reads
    active     |-> FALSE,   \* executor: logical_active
    out        |-> "OFF",   \* executor: the bridge
    event      |-> "NONE",  \* executor: completion latched by TIM5
    completion |-> "NONE",  \* executor: last_completion
    driveAge   |-> 0]       \* executor: the age of the request

Init ==
    /\ cell = InitCell
    /\ published = Nothing
    /\ snapshot = Nothing
    /\ pc = "read"
    /\ lag = 0
    /\ restAge = Cap
    /\ budgetAge = 0

-----------------------------------------------------------------------------
(***************************************************************************)
(* The executor's calls.  ok is FALSE when the call reports a failure.     *)
(* Where the machine asks MotorExecutor_IsHealthy before it calls, healthy *)
(* is that answer: an executor that was healthy may still refuse the call. *)
(***************************************************************************)
\* MotorExecutor_Disable: an unserviced completion is cleared with the rest.
Disabled(c) ==
    [c EXCEPT !.out = "OFF", !.active = FALSE, !.event = "NONE", !.driveAge = 0]

\* MotorExecutor_Service publishes the completion TIM5 latched.
Serviced(c) ==
    IF c.event = "NONE" THEN c
    ELSE [c EXCEPT !.active = FALSE, !.completion = c.event, !.event = "NONE"]
ServiceOk(c, ok) == ok /\ c.event # "ERROR"

MotorIdle(c, healthy) == ~ c.active /\ c.out = "OFF" /\ healthy

(***************************************************************************)
(* machine.c.  Each operator is a function of it, from the context before  *)
(* to the context after.                                                   *)
(***************************************************************************)
Age(a) == a - lag

ClearTransientMotion(c) ==
    [c EXCEPT !.owned = FALSE, !.phase = "DELAY", !.contacted = FALSE,
              !.pending = FALSE, !.settleAge = 0, !.cycleAge = Cap]

EnterFault(c) == [ClearTransientMotion(Disabled(c)) EXCEPT !.state = "FAULT"]

\* Mutant: the machine keeps the number of the request it disabled.
DisableKeepsRequest(c, ok, state) ==
    IF ok THEN [Disabled(c) EXCEPT !.state = state] ELSE EnterFault(c)

\* Machine_DisableOrFault, then the state the caller enters.
DisableInto(c, ok, state) ==
    IF ok THEN [Disabled(c) EXCEPT !.owned = FALSE, !.state = state]
    ELSE EnterFault(c)

\* Mutant: the delay is dated with the time the gate should open.
SettleDatedAhead(c, ok) ==
    LET d == DisableInto(c, ok, "AUTO_SETTLE") IN
    IF ok THEN [d EXCEPT !.phase = "DELAY", !.settleAge = lag - SettleDelay] ELSE d

EnterSettle(c, ok) ==
    LET d == DisableInto(c, ok, "AUTO_SETTLE") IN
    IF ok THEN [d EXCEPT !.phase = "DELAY", !.settleAge = lag] ELSE d

EnterHold(c, ok) ==
    LET d == DisableInto(c, ok, "AUTO_HOLD") IN
    IF ok THEN [d EXCEPT !.settleAge = 0, !.cycleAge = Cap] ELSE d

\* MotorExecutor_StartPulse with Machine_CaptureMotorRequest: a request that is
\* refused, or is not valid after all, is a fault.
StartPulse(c, direction, state, ok) ==
    IF c.active \/ ~ ok THEN EnterFault(c)
    ELSE [c EXCEPT !.active = TRUE, !.out = direction, !.completion = "NONE",
                   !.driveAge = 0, !.owned = TRUE, !.state = state,
                   !.settleAge = 0]

StartApproach(c, ok) ==
    StartPulse([c EXCEPT !.pending = TRUE], "PRESS", "AUTO_APPROACH", ok)

\* Force-PI may inhibit the correction or ask for less than a millivolt: then
\* the machine settles again.
StartCorrection(c, direction, ok, inhibited) ==
    IF inhibited THEN EnterSettle(c, ok)
    ELSE StartPulse(c, direction, "AUTO_PULSE", ok)

\* Too high a pressure is always corrected: bench_release_correction_enabled is
\* set (auto_target_config.c:23) and START requires force_pi_enabled, so that the
\* branch that holds instead, here and in ClassifyHoldSample, is never taken.
ClassifySettledSample(c, ok, inhibited) ==
    CASE c.level \in NoContact -> StartApproach(c, ok)
      [] c.level \in Low       -> StartCorrection(c, "PRESS", ok, inhibited)
      [] c.level = "inside"    -> EnterHold(c, ok)
      [] c.level \in High      -> StartCorrection(c, "RELEASE", ok, inhibited)

\* In hold only the exit tolerance starts a new correction, and a new budget.
ClassifyHoldSample(c, ok, inhibited) ==
    LET fresh == [c EXCEPT !.cycleAge = lag] IN
    CASE c.level \in NoContact -> StartApproach(fresh, ok)
      [] c.level = "far-low"   -> StartCorrection(fresh, "PRESS", ok, inhibited)
      [] c.level = "far-high"  -> StartCorrection(fresh, "RELEASE", ok, inhibited)
      [] OTHER                 -> DisableInto(c, ok, "AUTO_HOLD")

IsPressureFresh(c) == c.level \in Valid /\ Age(c.sampleAge) <= Freshness

\* Mutant: the end of an approach pulse is left to the contact.
ServicePulseOnly(c, ok) ==
    IF c.state # "AUTO_PULSE" \/ ~ c.owned THEN c
    ELSE IF c.active THEN IF ok THEN c ELSE EnterFault(c)
    ELSE IF c.completion = "NORMAL" THEN EnterSettle(c, ok)
    ELSE EnterFault(c)

\* Machine_HandleMotorService.
HandleMotorService(c, ok) ==
    IF c.state \notin Motion \/ ~ c.owned THEN c
    ELSE IF c.active THEN IF ok THEN c ELSE EnterFault(c)
    ELSE IF c.completion = "NORMAL" THEN EnterSettle(c, ok)
    ELSE EnterFault(c)

HasCurrentApproachContact(c) ==
    /\ c.pending
    /\ c.state \in {"AUTO_APPROACH", "AUTO_SETTLE"}
    /\ IsPressureFresh(c)
    /\ c.level \in Contact
    /\ c.sampleAge <= c.cycleAge

\* Mutant: contact cancels the approach before its completion is classified.
ContactFirst(c, ok) ==
    LET d == IF c.state = "AUTO_APPROACH" THEN EnterSettle(c, ok) ELSE c IN
    IF d.state # "AUTO_SETTLE" THEN d
    ELSE [d EXCEPT !.contacted = TRUE, !.pending = FALSE,
                   !.cycleAge = IF d.contacted THEN @ ELSE d.sampleAge]

\* Mutant: every contact starts the budget again.
ContactExtends(c, ok) ==
    LET s == HandleMotorService(Serviced(c), ok)
        d == IF s.state = "AUTO_APPROACH" THEN EnterSettle(s, ok) ELSE s IN
    IF ~ ServiceOk(c, ok) THEN EnterFault(Serviced(c))
    ELSE IF d.state # "AUTO_SETTLE" THEN d
    ELSE [d EXCEPT !.contacted = TRUE, !.pending = FALSE, !.cycleAge = d.sampleAge]

\* Under PRIMASK: a completion that TIM5 latched is classified before contact
\* cancels the approach.  The first contact starts the convergence budget at
\* the sample's receive time.
StopApproachOnContact(c, ok) ==
    LET s == HandleMotorService(Serviced(c), ok)
        d == IF s.state = "AUTO_APPROACH" THEN EnterSettle(s, ok) ELSE s IN
    IF ~ ServiceOk(c, ok) THEN EnterFault(Serviced(c))
    ELSE IF d.state # "AUTO_SETTLE" THEN d
    ELSE [d EXCEPT !.contacted = TRUE, !.pending = FALSE,
                   !.cycleAge = IF d.contacted THEN @ ELSE d.sampleAge]

\* Mutant: a machine that holds no longer needs the sensor.
HoldUnwatched(c, ok) ==
    LET late == c.contacted /\ Age(c.cycleAge) >= CycleTime
        mute == /\ c.state = "AUTO_SETTLE"
                /\ c.phase = "SAMPLE"
                /\ Age(c.settleAge) >= FeedbackTime IN
    IF c.state \notin Automatic \ {"AUTO_HOLD"} THEN c
    ELSE IF ~ IsPressureFresh(c) \/ late \/ mute THEN EnterFault(c)
    ELSE IF HasCurrentApproachContact(c) THEN StopApproachOnContact(c, ok)
    ELSE c

\* Mutant: a search after a lost contact has no deadline, like the first.
SearchUnbounded(c, ok) ==
    LET late == /\ c.state # "AUTO_HOLD" /\ c.contacted /\ ~ c.pending
                /\ Age(c.cycleAge) >= CycleTime
        mute == /\ c.state = "AUTO_SETTLE"
                /\ c.phase = "SAMPLE"
                /\ Age(c.settleAge) >= FeedbackTime IN
    IF c.state \notin Automatic THEN c
    ELSE IF ~ IsPressureFresh(c) \/ late \/ mute THEN EnterFault(c)
    ELSE IF HasCurrentApproachContact(c) THEN StopApproachOnContact(c, ok)
    ELSE c

CheckPressureSafety(c, ok) ==
    LET late == c.state # "AUTO_HOLD" /\ c.contacted /\ Age(c.cycleAge) >= CycleTime
        mute == /\ c.state = "AUTO_SETTLE"
                /\ c.phase = "SAMPLE"
                /\ Age(c.settleAge) >= FeedbackTime IN
    IF c.state \notin Automatic THEN c
    ELSE IF ~ IsPressureFresh(c) \/ late \/ mute THEN EnterFault(c)
    ELSE IF HasCurrentApproachContact(c) THEN StopApproachOnContact(c, ok)
    ELSE c

\* Mutant: a sample as old as the gate passes it.
SampleAtGate(c) == c.phase = "SAMPLE" /\ c.sampleAge <= c.settleAge

\* Machine_Tick sets settle_feedback_after_ms and state_entered_ms to the same
\* time when it opens the gate, so settleAge is the age of both.  The receiver
\* numbers samples in order: the order checks and the sequence gate refuse none
\* that the time gate would not.
SettledSample(c) == c.phase = "SAMPLE" /\ c.sampleAge < c.settleAge

\* Machine_ObserveForcePi's own faults are left out: they need a number that is
\* not finite, or two samples more than maximum_dt_s apart, five times Freshness.
HandlePressureSample(c, sample, ok, healthy, inhibited) ==
    LET s == [c EXCEPT !.level = sample.level, !.sampleAge = sample.age]
        d == CheckPressureSafety(s, ok)
        touched == IF d.level \in Contact
                   THEN [d EXCEPT !.contacted = TRUE, !.pending = FALSE] ELSE d IN
    IF s.level = "raw" \/ (s.level = "invalid" /\ s.state \in Automatic)
    THEN EnterFault(s)
    ELSE IF s.state \notin Automatic THEN s
    ELSE IF d.state \notin {"AUTO_SETTLE", "AUTO_HOLD"} \/ ~ MotorIdle(d, healthy) THEN d
    ELSE IF d.state = "AUTO_HOLD" THEN ClassifyHoldSample(d, ok, inhibited)
    ELSE IF SettledSample(d) THEN ClassifySettledSample(touched, ok, inhibited)
    ELSE d

\* A STOP clears a fault's motion but never the fault.
Stop(c, ok) ==
    IF ~ ok THEN EnterFault(c)
    ELSE [ClearTransientMotion(Disabled(c)) EXCEPT
            !.state = IF c.state = "FAULT" THEN "FAULT" ELSE "IDLE"]

\* Machine_HandleCommand for CMD_AUTO_START.
AutoStart(c, ok, healthy) ==
    LET s == [c EXCEPT !.cycleAge = lag, !.contacted = c.level \in Contact,
                       !.pending = c.level \notin Contact] IN
    IF c.state # "IDLE" \/ ~ IsPressureFresh(c) \/ ~ MotorIdle(c, healthy) THEN c
    ELSE IF c.level = "raw" THEN EnterFault(c)
    ELSE IF c.level \in NoContact THEN StartApproach(s, ok)
    ELSE EnterSettle(s, ok)

\* Machine_Tick opens the settle gate.
OpenGate(c) ==
    IF c.state = "AUTO_SETTLE" /\ c.phase = "DELAY" /\ Age(c.settleAge) >= SettleDelay
    THEN [c EXCEPT !.phase = "SAMPLE", !.settleAge = lag]
    ELSE c

-----------------------------------------------------------------------------
(***************************************************************************)
(* History.                                                                *)
(***************************************************************************)
\* The machine owes convergence: contact was made, and it does not hold.
Converging(c) == c.contacted /\ c.state \in Automatic \ {"AUTO_HOLD"}

\* The cycle comes to rest, or begins: what was measured before does not count.
RestBegins ==
    \/ cell.out # "OFF" /\ cell'.out = "OFF"
    \/ cell.state = "IDLE" /\ cell'.state \in Automatic

Observe ==
    /\ restAge' = IF RestBegins THEN 0 ELSE restAge
    /\ budgetAge' = IF Converging(cell') /\ Converging(cell) THEN budgetAge ELSE 0

(***************************************************************************)
(* The main loop.  A step that calls the executor may see it fail.         *)
(***************************************************************************)
Verdicts == IF Failures THEN BOOLEAN ELSE {TRUE}

\* PressureUart6_ReadSnapshot, then the time that dates the iteration.  A
\* sequence that was delivered before is not delivered again.
ReadSnapshot ==
    /\ pc = "read"
    /\ lag' = 0
    /\ snapshot' = published
    /\ published' = Nothing
    /\ pc' = IF published = Nothing THEN "safety" ELSE "sample"
    /\ UNCHANGED <<cell, history>>

\* ApplicationRuntime_ServicePressure.
ServicePressure ==
    /\ pc = "sample"
    /\ \E ok, healthy \in Verdicts, inhibited \in BOOLEAN :
         cell' = HandlePressureSample(cell, snapshot, ok, healthy, inhibited)
    /\ snapshot' = Nothing
    /\ pc' = "safety"
    /\ Observe
    /\ UNCHANGED <<published, lag>>

ServiceSafety ==
    /\ pc = "safety"
    /\ \E ok \in Verdicts : cell' = CheckPressureSafety(cell, ok)
    /\ pc' = "service"
    /\ Observe
    /\ UNCHANGED <<published, snapshot, lag>>

\* An executor that reports a failure is disabled and the machine faults.
ServiceMotor ==
    /\ pc = "service"
    /\ \E ok \in Verdicts :
         IF ServiceOk(cell, ok)
         THEN cell' = Serviced(cell) /\ pc' = "motor"
         ELSE cell' = EnterFault(Serviced(cell)) /\ pc' = "guard"
    /\ Observe
    /\ UNCHANGED <<published, snapshot, lag>>

HandleMotor ==
    /\ pc = "motor"
    /\ \E ok \in Verdicts : cell' = HandleMotorService(cell, ok)
    /\ pc' = "guard"
    /\ Observe
    /\ UNCHANGED <<published, snapshot, lag>>

\* MotorExecutor_GuardOutput, and Machine_ReportFault when it fails.
Guard ==
    /\ pc = "guard"
    /\ \E ok \in Verdicts : cell' = IF ok THEN cell ELSE EnterFault(cell)
    /\ pc' = "command"
    /\ Observe
    /\ UNCHANGED <<published, snapshot, lag>>

\* The Modbus service: a STOP, a START or nothing for the machine.
Command ==
    /\ pc = "command"
    /\ \E ok, healthy \in Verdicts :
         cell' \in {cell, Stop(cell, ok), AutoStart(cell, ok, healthy)}
    /\ pc' = "tick"
    /\ Observe
    /\ UNCHANGED <<published, snapshot, lag>>

MachineTick ==
    /\ pc = "tick"
    /\ cell' = OpenGate(cell)
    /\ pc' = "read"
    /\ Observe
    /\ UNCHANGED <<published, snapshot, lag>>

Main == \/ ReadSnapshot \/ ServicePressure \/ ServiceSafety \/ ServiceMotor
        \/ HandleMotor \/ Guard \/ Command \/ MachineTick

(***************************************************************************)
(* Interrupts and time.                                                    *)
(***************************************************************************)
\* PressureReceiver_PublishValidFrame.
Publish ==
    /\ \E level \in Levels : published' = [level |-> level, age |-> 0]
    /\ UNCHANGED <<cell, snapshot, pc, lag, history>>

\* TIM5 ends the drive and latches what it saw: the end of the pulse, its
\* backstop, or a timer that is not as it was left.
Expire ==
    /\ cell.out # "OFF"
    /\ \E end \in Ends :
         /\ end = "NORMAL" => cell.driveAge >= Duration
         /\ end = "BACKSTOP" => cell.driveAge >= Backstop
         /\ end = "ERROR" => Failures
         /\ cell' = [cell EXCEPT !.out = "OFF", !.event = end, !.driveAge = 0]
    /\ Observe
    /\ UNCHANGED <<published, snapshot, pc, lag>>

Older(a) == IF a < Cap THEN a + 1 ELSE a
OlderIf(condition, a) == IF condition THEN Older(a) ELSE a

\* TIM5 runs in hardware: a drive does not outlive its backstop.
Pass ==
    /\ lag < MaxLag
    /\ cell.driveAge < Backstop
    /\ lag' = lag + 1
    /\ cell' = [cell EXCEPT
                  !.sampleAge = Older(@),
                  !.settleAge = OlderIf(cell.state = "AUTO_SETTLE", @),
                  !.cycleAge  = Older(@),
                  !.driveAge  = OlderIf(cell.out # "OFF", @)]
    /\ published' = [published EXCEPT !.age = Older(@)]
    /\ snapshot' = [snapshot EXCEPT !.age = Older(@)]
    /\ restAge' = Older(restAge)
    /\ budgetAge' = OlderIf(Converging(cell), budgetAge)
    /\ UNCHANGED pc

Next == Main \/ Publish \/ Expire \/ Pass

Spec == Init /\ [][Next]_vars

\* The loop runs, TIM5 ends a drive that may end, and time passes.
FairSpec == Spec /\ WF_vars(Main) /\ WF_vars(Expire) /\ WF_vars(Pass)

-----------------------------------------------------------------------------
(***************************************************************************)
(* Correctness.                                                            *)
(***************************************************************************)
Cells == [state : States, owned : BOOLEAN, phase : {"DELAY", "SAMPLE"},
          contacted : BOOLEAN, pending : BOOLEAN,
          level : Valid \cup {"invalid", "none"},
          sampleAge : 0..Cap, settleAge : 0..Cap, cycleAge : 0..Cap,
          active : BOOLEAN, out : Outputs, event : Ends \cup {"NONE"},
          completion : Ends \cup {"NONE"}, driveAge : 0..Backstop]

\* The machine's context, the samples on their way and the executor's view
\* stay in their ranges: MachineContext (Application/machine.h).
TypeOK ==
    /\ cell \in Cells
    /\ {published, snapshot} \subseteq Sample \cup {Nothing}
    /\ pc \in {"read", "sample", "safety", "service", "motor", "guard",
              "command", "tick"}
    /\ lag \in 0..MaxLag
    /\ restAge \in 0..Cap
    /\ budgetAge \in 0..Cap

\* The bridge drives, or a completion waits, only for a request that the
\* machine owns in a motion state; a machine in such a state owns its request
\* (Machine_CaptureMotorRequest, Machine_DisableOrFault, Machine_EnterFault).
MotionOwned ==
    /\ cell.out # "OFF" \/ cell.event # "NONE" => cell.active
    /\ cell.active => cell.owned
    /\ cell.owned <=> cell.state \in Motion
    /\ cell.pending => ~ cell.contacted \/ cell.state \in {"AUTO_APPROACH", "AUTO_SETTLE"}

\* A machine that presses or holds has a pressure no older than the freshness
\* limit and the time two iterations take to notice
\* (Machine_CheckPressureSafety, before every other use of the pressure).
FreshPressure ==
    cell.state \in Automatic => cell.sampleAge <= Freshness + 2 * MaxLag

\* From the first contact, or from leaving hold, the machine holds again or
\* faults within the convergence budget: a later contact does not extend it
\* (Machine_StopApproachOnContact, "Later recontacts must not extend this
\* cycle").
BudgetHolds ==
    Converging(cell) => budgetAge < CycleTime + 2 * MaxLag

\* A drive after settling, or a hold, is decided on a sample the sensor took
\* after START and with the output off for the settle delay, but for the age of
\* the time the machine dates START and the end of the drive with
\* (Machine_EnterSettle, Machine_Tick, Machine_HandlePressureSample): neither a
\* sample of the drive nor one cached from before START decides.
SettledDecision ==
    [][ /\ cell.state \in {"AUTO_SETTLE", "AUTO_HOLD"}
        /\ cell'.state \in (Motion \cup {"AUTO_HOLD"}) \ {cell.state}
        => restAge' - cell'.sampleAge > SettleDelay - MaxLag ]_vars

\* A drive that ended by its backstop or by an error.
EndedBadly ==
    /\ cell.state \in Motion
    /\ {cell.event, cell.completion} \cap {"BACKSTOP", "ERROR"} # {}

\* Such an end is a fault, unless STOP comes first: contact that is seen at
\* the same time never turns it into a successful approach
\* (Machine_StopApproachOnContact, Machine_HandleMotorService).
BadEndFaults ==
    [][EndedBadly => EndedBadly' \/ cell'.state \in {"FAULT", "IDLE"}]_vars

\* A cycle that touched the work holds, faults or is stopped.
CycleEnds == Converging(cell) ~> ~ Converging(cell)

\* A drive ends and the machine takes note of it.
MotionEnds == cell.state \in Motion ~> cell.state \notin Motion
=============================================================================
