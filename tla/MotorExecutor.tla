---------------------------- MODULE MotorExecutor ----------------------------
(***************************************************************************)
(* The real-output motor executor (Board/Motor/motor_executor_real.c), its *)
(* TIM5 stop timer (motor_stop_timer_tim5.c) and the H-bridge driver       *)
(* (motor_hw_real.c) in the builds that start bounded pulses and runs.     *)
(*                                                                         *)
(* Two actors share the state.  Main runs the operations of the executor,  *)
(* one step per access that the interrupt can race with (pc names the next *)
(* step).  The TIM5 interrupt preempts main between any two steps and is   *)
(* atomic: nothing in the program preempts priority 4.  The main loop of   *)
(* User/main.c fixes the order of the operations: commands of the machine, *)
(* then Service, then GuardOutput, and a fault plus Disable after each     *)
(* operation that reports an error.                                        *)
(***************************************************************************)
EXTENDS Integers, FiniteSets

CONSTANTS
  Requests,     \* what the machine may ask for: [dir, normal, backstop], in ms
  MaxRequests,  \* bound: accepted requests in a behaviour
  MaxLag,       \* bound: age of the now_ms that main passes to an operation, ms
  MaxStall,     \* bound: ms that main may spend inside one operation
  MaxElapsed,   \* bound: the age of a request saturates here
  Faults        \* the hardware faults that may strike, any number of times

Directions == {"PRESS", "RELEASE"}
FaultKinds == {"drop", "surge", "stuck", "overcapture", "apply"}

ASSUME RequestsAssumption ==
  Requests \subseteq [dir : Directions, normal : Nat, backstop : Nat]
ASSUME BoundsAssumption ==
  /\ MaxRequests \in Nat
  /\ MaxLag \in Nat
  /\ MaxStall \in Nat
  /\ MaxElapsed \in Nat
  /\ Faults \subseteq FaultKinds

VARIABLES
  out,        \* the bridge: "OFF", "ZERO" (enabled, no drive), or a direction
  stuck,      \* the shutdown pins no longer obey
  armed,      \* s_armed
  healthy,    \* s_healthy
  nvic,       \* TIM5_IRQn enabled in the NVIC
  flags,      \* TIM5->SR, a subset of {"CC1", "UIF", "OF"}
  cnt,        \* TIM5->CNT, in ms
  active,     \* s_motor.logical_active
  request,    \* the request in s_motor (direction, durations)
  seq,        \* s_motor.request_sequence
  completion, \* s_motor.last_completion
  pending,    \* s_completion_event_pending
  event,      \* s_pending_completion_event
  pc,         \* main's next step inside an operation, "idle" between operations
  op,         \* the operation main runs, or ran last
  next,       \* the step after a shutdown (output off, then timer cancelled)
  result,     \* the MotorResult of the last operation
  phys,       \* s_motor.physical_output_disabled, main's last sample of it
  taken,      \* the event a Take moved into main's local variable
  reached,    \* the now_ms of this Service has reached logical_backstop_ms
  turn,       \* position in the main loop
  fault,      \* the machine is in FAULT and starts nothing
  elapsed,    \* ms since the now_ms that the current request was given
  stall,      \* ms spent inside the current operation
  astray,     \* the output has driven, or stayed on, by itself
  dirty,      \* a fault has disturbed the output since GuardOutput began
  fired       \* event the interrupt handler latched for this request

hardware == <<out, stuck>>
timer    == <<armed, healthy, nvic, flags, cnt>>
motor    == <<active, request, seq, completion>>
handoff  == <<pending, event>>
loop     == <<turn, fault>>
history  == <<astray, dirty, fired>>
vars == <<hardware, timer, motor, handoff, pc, op, next, result, phys, taken,
          reached, loop, elapsed, stall, history>>

Events      == {"NORMAL", "BACKSTOP", "ERROR"}
Completions == {"NONE"} \cup Events
Results     == {"OK", "BUSY", "INVALID", "TIMER_ERROR", "HARDWARE_ERROR"}
Flags       == {"CC1", "UIF", "OF"}
Operations  == {"Start", "Capture", "Disable", "Service", "Guard"}
Steps       == {"idle", "off", "cancel", "arm", "carriers", "drive", "commit",
                "enable", "failstart", "cleared", "take1", "snapshot", "take2",
                "classify", "armed?", "backstop?", "output?", "recheck",
                "publish", "valid1", "valid2", "valid3", "valid4", "valid5",
                "guard1", "guard2", "guard3", "guard4", "guard5",
                "guardpended"}

\* The steps of Start that run with the timer armed and its interrupt masked.
StartWindow == {"carriers", "drive", "commit", "enable"}

Idle == pc = "idle"
NoRequest == [dir |-> "PRESS", normal |-> 0, backstop |-> 0]

-----------------------------------------------------------------------------
(* The hardware layer.                                                     *)

\* Mutant: a shutdown that takes the enable away only before a direction is set.
DisabledNotDriven == IF stuck \/ out \in Directions THEN out ELSE "OFF"

\* MotorHwReal_DisableImmediate: what the bridge is afterwards.
Disabled == IF stuck THEN out ELSE "OFF"

\* MotorHwReal_IsDisabled.
IsDisabled == out = "OFF"

\* MotorStopTimer_IsArmed: one-pulse mode clears CEN at the update event.
IsArmed == armed /\ "UIF" \notin flags

\* MotorStopTimer_Cancel.
Cancel ==
  /\ armed' = FALSE
  /\ nvic' = FALSE
  /\ flags' = {}
  /\ cnt' = 0

\* How MotorStopTimer_IrqHandler reads the status register: a simultaneous
\* update event outranks the normal compare, an overcapture outranks both.
IrqEvent ==
  IF "OF" \in flags \/ flags = {} \/ ~armed THEN "ERROR"
  ELSE IF "UIF" \in flags THEN "BACKSTOP"
  ELSE "NORMAL"

\* Mutant: the handler latches its event and leaves the timer running.
IrqHandlerKeepsTimer ==
  /\ out' = Disabled
  /\ flags' = {}
  /\ UNCHANGED <<armed, nvic, cnt>>
  /\ healthy' = (healthy /\ IrqEvent # "ERROR")
  /\ event' = IrqEvent
  /\ pending' = TRUE
  /\ fired' = IrqEvent

\* The body of MotorStopTimer_IrqHandler with its callback
\* MotorExecutor_StopTimerExpiredFromIsr: output off, timer off, event latched.
IrqHandler ==
  /\ out' = Disabled
  /\ Cancel
  /\ healthy' = (healthy /\ IrqEvent # "ERROR")
  /\ event' = IrqEvent
  /\ pending' = TRUE
  /\ fired' = IrqEvent

\* The interrupt controller enters the handler.  Of the three flags the compare
\* and the update event are enabled in DIER, the overcapture is not.
IrqReady == nvic /\ flags \cap {"CC1", "UIF"} # {}
TIM5_IRQHandler ==
  /\ IrqReady
  /\ IrqHandler
  /\ UNCHANGED <<stuck, motor, pc, op, next, result, phys, taken, reached, loop,
                 elapsed, stall, astray, dirty>>

-----------------------------------------------------------------------------
(* Control of main: every operation runs from Begin to Return.             *)

Begin(o, first) ==
  /\ Idle
  /\ op' = o
  /\ result' = "OK"
  /\ pc' = first
  /\ stall' = 0

Return(r) ==
  /\ pc' = "idle"
  /\ result' = r

\* The operation before this one reported an error nobody has handled yet.
Failed == result # "OK" /\ ~(op = "Disable" /\ fault)

\* Machine_CaptureMotorRequest validates a start before anything else happens.
MustCapture == op = "Start" /\ result = "OK"

\* Mutant: a shutdown that cancels the timer before anything is off.
ShutdownTimerOnly(s) ==
  /\ pc' = "cancel"
  /\ next' = s

\* DisableImmediate followed by Cancel, then the step s.
Shutdown(s) ==
  /\ pc' = "off"
  /\ next' = s

OutputOff ==
  /\ pc = "off"
  /\ out' = Disabled
  /\ pc' = "cancel"
  /\ UNCHANGED <<stuck, timer, motor, handoff, op, next, result, phys, taken,
                 reached, loop, elapsed, stall, history>>

CancelTimer ==
  /\ pc = "cancel"
  /\ Cancel
  /\ pc' = next
  /\ UNCHANGED <<hardware, healthy, motor, handoff, op, next, result, phys,
                 taken, reached, loop, elapsed, stall, history>>

-----------------------------------------------------------------------------
(* MotorExecutor_Disable.                                                  *)

\* Mutant: the request is left active.
KeepActivePlan == UNCHANGED active

\* MotorExecutor_ClearActivePlan.
ClearActivePlan == active' = FALSE

\* MotorExecutor_ClearPendingCompletion.
ClearPendingCompletion ==
  /\ pending' = FALSE
  /\ event' = "ERROR"

\* The end of Disable and of FailStart.
ClearRequest == ClearPendingCompletion /\ ClearActivePlan

DisableCleared ==
  /\ pc = "cleared"
  /\ ClearRequest
  /\ out' = IF IsDisabled THEN out ELSE Disabled
  /\ phys' = (out' = "OFF")
  /\ Return(IF ~IsDisabled THEN "HARDWARE_ERROR"
            ELSE IF IsArmed THEN "TIMER_ERROR" ELSE "OK")
  /\ UNCHANGED <<stuck, timer, request, seq, completion, op, next, taken,
                 reached, loop, elapsed, stall, history>>

-----------------------------------------------------------------------------
(* MotorExecutor_Start, for StartPulse and StartRun.                       *)

\* Mutant: a second start is not refused.
NeverBusy == FALSE

\* One request at a time.
Busy == active

\* Up to the arming of the timer.  The output is off and the timer cancelled
\* here, in one step: logical_active is FALSE, so no interrupt is enabled.
Start(r, lag) ==
  /\ Idle /\ turn = "command" /\ ~fault /\ ~Failed /\ ~MustCapture
  /\ seq < MaxRequests
  /\ op' = "Start"
  /\ stall' = 0
  /\ IF Busy
     THEN /\ pc' = "idle"
          /\ result' = "BUSY"
          /\ UNCHANGED <<out, armed, nvic, flags, cnt, motor, handoff, next, phys,
                         elapsed, fired>>
     ELSE IF r.normal = 0 \/ r.backstop <= r.normal
     THEN /\ pc' = "idle"
          /\ result' = "INVALID"
          /\ UNCHANGED <<out, armed, nvic, flags, cnt, motor, handoff, next, phys,
                         elapsed, fired>>
     ELSE /\ out' = Disabled
          /\ Cancel
          /\ phys' = (Disabled = "OFF")
          /\ IF Disabled # "OFF"
             THEN /\ Shutdown("failstart")
                  /\ result' = "HARDWARE_ERROR"
                  /\ UNCHANGED <<motor, handoff, elapsed, fired>>
             ELSE /\ pc' = "arm"
                  /\ seq' = seq + 1
                  /\ request' = r
                  /\ completion' = "NONE"
                  /\ active' = TRUE
                  /\ ClearPendingCompletion
                  /\ elapsed' = lag
                  /\ fired' = "NONE"
                  /\ result' = "OK"
                  /\ UNCHANGED next
  /\ UNCHANGED <<stuck, healthy, taken, reached, loop, astray, dirty>>

\* MotorStopTimer_Arm: the counter runs, the interrupt stays masked.
StartArm ==
  /\ pc = "arm"
  /\ IF healthy
     THEN /\ armed' = TRUE
          /\ pc' = "carriers"
          /\ UNCHANGED <<next, result>>
     ELSE /\ armed' = FALSE
          /\ Shutdown("failstart")
          /\ result' = "TIMER_ERROR"
  /\ nvic' = FALSE
  /\ flags' = {}
  /\ cnt' = 0
  /\ UNCHANGED <<hardware, healthy, motor, handoff, op, phys, taken, reached,
                 loop, elapsed, stall, history>>

\* An apply step that fails its verification switches off and fails the start.
ApplyFails ==
  /\ "apply" \in Faults
  /\ out' = Disabled
  /\ phys' = (Disabled = "OFF")
  /\ Shutdown("failstart")
  /\ result' = "HARDWARE_ERROR"

\* MotorHwReal_Apply up to the driver enable: zero compare on both carriers.
ApplyCarriers ==
  /\ pc = "carriers"
  /\ \/ /\ Disabled = "OFF"
        /\ out' = "ZERO"
        /\ pc' = "drive"
        /\ UNCHANGED <<next, result, phys>>
     \/ /\ Disabled # "OFF" \* ZeroCompareCommitIsValid reads driven pins
        /\ out' = Disabled
        /\ phys' = (Disabled = "OFF")
        /\ Shutdown("failstart")
        /\ result' = "HARDWARE_ERROR"
     \/ ApplyFails
  /\ UNCHANGED <<stuck, timer, motor, handoff, op, taken, reached, loop,
                 elapsed, stall, history>>

\* The rest of MotorHwReal_Apply, one nonzero compare, and Start's check.
ApplyDrive ==
  /\ pc = "drive"
  /\ \/ /\ out = "ZERO"
        /\ out' = request.dir
        /\ phys' = FALSE
        /\ pc' = "commit"
        /\ UNCHANGED <<next, result>>
     \/ /\ out # "ZERO" \* ActiveCompareIsValid refuses what it reads back
        /\ out' = Disabled
        /\ phys' = (Disabled = "OFF")
        /\ Shutdown("failstart")
        /\ result' = "HARDWARE_ERROR"
     \/ ApplyFails
  /\ UNCHANGED <<stuck, timer, motor, handoff, op, taken, reached, loop,
                 elapsed, stall, history>>

\* MotorStopTimer_CommitArm up to the status test.  A latched flag is handled
\* here, by the interrupt handler called as a function, and Start hands the
\* event it latched to Service.
CommitArm ==
  /\ pc = "commit"
  /\ IF ~armed \/ ~healthy
     THEN /\ Shutdown("failstart")
          /\ result' = "TIMER_ERROR"
          /\ UNCHANGED <<out, timer, handoff, fired>>
     ELSE IF flags # {}
     THEN /\ IrqHandler
          /\ pc' = "take1"
          /\ result' = "TIMER_ERROR"
          /\ UNCHANGED next
     ELSE /\ pc' = "enable"
          /\ UNCHANGED <<out, timer, handoff, fired, next, result>>
  /\ UNCHANGED <<stuck, motor, op, phys, taken, reached, loop, elapsed, stall,
                 astray, dirty>>

\* Mutant: the flags are cleared before the interrupt is unmasked.
EnableCleared ==
  /\ pc = "enable"
  /\ nvic' = TRUE
  /\ flags' = {}
  /\ Return("OK")
  /\ UNCHANGED <<hardware, armed, healthy, cnt, motor, handoff, op, next,
                 phys, taken, reached, loop, elapsed, stall, history>>

\* The end of CommitArm and of a successful Start.
StartEnable ==
  /\ pc = "enable"
  /\ nvic' = TRUE
  /\ Return("OK")
  /\ UNCHANGED <<hardware, armed, healthy, flags, cnt, motor, handoff, op, next,
                 phys, taken, reached, loop, elapsed, stall, history>>

FailStart ==
  /\ pc = "failstart"
  /\ ClearRequest
  /\ phys' = IsDisabled
  /\ Return(result)
  /\ UNCHANGED <<hardware, timer, request, seq, completion, op, next, taken,
                 reached, loop, elapsed, stall, history>>

-----------------------------------------------------------------------------
(* MotorExecutor_Disable, as a command or as the answer to an error.       *)

\* STOP, settling, holding, contact: the machine may disable between any two
\* operations, and may enter FAULT while it does (Machine_EnterFault).
Disable(f) ==
  /\ ~Failed /\ ~MustCapture
  /\ Begin("Disable", "off")
  /\ next' = "cleared"
  /\ fault' = (fault \/ f)
  /\ UNCHANGED <<hardware, timer, motor, handoff, phys, taken, reached, turn,
                 elapsed, history>>

\* ApplicationRuntime_ServiceSafety, the guard of the main loop and
\* Machine_CaptureMotorRequest all answer an error with Machine_EnterFault.
HandleError ==
  /\ Failed
  /\ Begin("Disable", "off")
  /\ next' = "cleared"
  /\ fault' = TRUE
  /\ UNCHANGED <<hardware, timer, motor, handoff, phys, taken, reached, turn,
                 elapsed, history>>

-----------------------------------------------------------------------------
(* MotorExecutor_Service.                                                  *)

\* now_ms is lag ms old when the call is made.
Service(lag) ==
  /\ turn = "command" /\ ~Failed /\ ~MustCapture
  /\ Begin("Service", "take1")
  /\ turn' = "guard"
  /\ reached' = (elapsed - lag >= request.backstop)
  /\ UNCHANGED <<hardware, timer, motor, handoff, next, phys, taken, fault,
                 elapsed, history>>

\* MotorExecutor_TakeCompletion and what a caller does with the answer.
TakeOr(otherwise) ==
  IF pending
  THEN /\ taken' = event
       /\ pending' = FALSE
       /\ pc' = "publish"
  ELSE /\ pc' = otherwise
       /\ UNCHANGED <<taken, pending>>

ServiceTake1 ==
  /\ pc = "take1"
  /\ TakeOr("snapshot")
  /\ UNCHANGED <<hardware, timer, motor, event, op, next, result, phys, reached,
                 loop, elapsed, stall, history>>

ServiceSnapshot ==
  /\ pc = "snapshot"
  /\ phys' = IsDisabled
  /\ pc' = "take2"
  /\ UNCHANGED <<hardware, timer, motor, handoff, op, next, result, taken,
                 reached, loop, elapsed, stall, history>>

ServiceTake2 ==
  /\ pc = "take2"
  /\ TakeOr("classify")
  /\ UNCHANGED <<hardware, timer, motor, event, op, next, result, phys, reached,
                 loop, elapsed, stall, history>>

\* No request: anything live is unexpected and is switched off.
ServiceInactive ==
  /\ pc = "classify" /\ ~active
  /\ IF ~phys \/ IsArmed
     THEN /\ out' = Disabled
          /\ Cancel
          /\ completion' = "ERROR"
          /\ phys' = IF phys THEN phys ELSE Disabled = "OFF"
          /\ Return(IF ~phys THEN "HARDWARE_ERROR" ELSE "TIMER_ERROR")
     ELSE /\ Return(IF healthy THEN "OK" ELSE "TIMER_ERROR")
          /\ UNCHANGED <<out, armed, nvic, flags, cnt, completion, phys>>
  /\ UNCHANGED <<stuck, healthy, active, request, seq, handoff, op, next, taken,
                 reached, loop, elapsed, stall, history>>

\* A live request: one test after another, and the interrupt between any two.
ServiceTest(here, bad, there) ==
  /\ pc = here
  /\ pc' = IF bad THEN "recheck" ELSE there
  /\ result' = IF bad /\ here = "output?" THEN "HARDWARE_ERROR" ELSE "OK"
  /\ UNCHANGED <<hardware, timer, motor, handoff, op, next, phys, taken, reached,
                 loop, elapsed, stall, history>>

ServiceActive ==
  \/ active /\ ServiceTest("classify", ~healthy, "armed?")
  \/ ServiceTest("armed?", ~IsArmed, "backstop?")
  \/ ServiceTest("backstop?", reached, "output?")
  \/ ServiceTest("output?", phys, "idle")

\* Mutant: a failed test is an error, whatever the interrupt has done since.
RecheckNothing ==
  /\ pc = "recheck"
  /\ taken' = "ERROR"
  /\ Shutdown("publish")
  /\ UNCHANGED <<pending, result, hardware, timer, motor, event, op, phys,
                 reached, loop, elapsed, stall, history>>

\* Mutant: main classifies what it switched off as a backstop.
RecheckNames ==
  /\ pc = "recheck"
  /\ taken' = IF pending THEN event ELSE "BACKSTOP"
  /\ pending' = FALSE
  /\ Shutdown("publish")
  /\ UNCHANGED <<result, hardware, timer, motor, event, op, phys,
                 reached, loop, elapsed, stall, history>>

\* Every failed test first asks whether the interrupt explains it.
ServiceRecheck ==
  /\ pc = "recheck"
  /\ IF pending
     THEN /\ TakeOr("publish")
          /\ result' = "OK"
          /\ UNCHANGED next
     ELSE /\ taken' = "ERROR"
          /\ Shutdown("publish")
          /\ UNCHANGED <<pending, result>>
  /\ UNCHANGED <<hardware, timer, motor, event, op, phys, reached, loop, elapsed,
                 stall, history>>

\* MotorExecutor_PublishCompletion.  A Service that Start called for a pending
\* event returns into Start, which reports the timer error.
PublishCompletion ==
  /\ pc = "publish"
  /\ LET ev == IF IsDisabled THEN taken ELSE "ERROR"
     IN /\ completion' = ev
        /\ Return(IF op = "Start" THEN "TIMER_ERROR"
                  ELSE IF ~IsDisabled \/ (ev = "ERROR" /\ result = "HARDWARE_ERROR")
                  THEN "HARDWARE_ERROR"
                  ELSE IF ev = "ERROR" THEN "TIMER_ERROR" ELSE "OK")
  /\ out' = Disabled
  /\ phys' = (Disabled = "OFF")
  /\ ClearActivePlan
  /\ UNCHANGED <<stuck, timer, request, seq, handoff, op, next, taken, reached,
                 loop, elapsed, stall, history>>

-----------------------------------------------------------------------------
(* MotorExecutor_ActiveRequestIsValid, asked by the guard of the main loop *)
(* and by the machine when it captures a request it has just started.      *)

\* Guard goes on with the answer; for a capture the answer is the result.
Answer(valid) ==
  IF op = "Guard"
  THEN /\ pc' = IF valid THEN "guard3" ELSE "guard4"
       /\ UNCHANGED result
  ELSE Return(IF valid THEN "OK" ELSE "HARDWARE_ERROR")

Capture ==
  /\ MustCapture
  /\ Begin("Capture", "valid1")
  /\ UNCHANGED <<hardware, timer, motor, handoff, next, phys, taken, reached,
                 loop, elapsed, history>>

ValidSnapshot ==
  /\ pc = "valid1"
  /\ phys' = IsDisabled
  /\ IF active THEN pc' = "valid2" /\ UNCHANGED result ELSE Answer(FALSE)
  /\ UNCHANGED <<hardware, timer, motor, handoff, op, next, taken, reached, loop,
                 elapsed, stall, history>>

ValidTest(here, good, there) ==
  /\ pc = here
  /\ pc' = IF good THEN there ELSE "valid5"
  /\ UNCHANGED <<hardware, timer, motor, handoff, op, next, result, phys, taken,
                 reached, loop, elapsed, stall, history>>

ValidOutput == ValidTest("valid2", ~pending /\ ~phys, "valid3")
ValidArmed  == ValidTest("valid3", IsArmed, "valid4")

ValidHealthy ==
  /\ pc = "valid4"
  /\ IF healthy /\ ~pending
     THEN Answer(TRUE)
     ELSE pc' = "valid5" /\ UNCHANGED result
  /\ UNCHANGED <<hardware, timer, motor, handoff, op, next, phys, taken, reached,
                 loop, elapsed, stall, history>>

\* The interrupt may have completed the request during the queries.
ValidRecheck ==
  /\ pc = "valid5"
  /\ phys' = IF pending THEN IsDisabled ELSE phys
  /\ Answer(pending /\ IsDisabled /\ ~IsArmed)
  /\ UNCHANGED <<hardware, timer, motor, handoff, op, next, taken, reached, loop,
                 elapsed, stall, history>>

-----------------------------------------------------------------------------
(* MotorExecutor_GuardOutput.                                              *)

Guard ==
  /\ turn = "guard" /\ ~Failed
  /\ Begin("Guard", "guard1")
  /\ turn' = "command"
  /\ dirty' = FALSE
  /\ UNCHANGED <<hardware, timer, motor, handoff, next, phys, taken, reached,
                 fault, elapsed, astray, fired>>

GuardSnapshot ==
  /\ pc = "guard1"
  /\ IF pending
     THEN /\ Shutdown("guardpended")
          /\ UNCHANGED phys
     ELSE /\ phys' = IsDisabled
          /\ pc' = "guard2"
          /\ UNCHANGED next
  /\ UNCHANGED <<hardware, timer, motor, handoff, op, result, taken, reached, loop,
                 elapsed, stall, history>>

GuardClassify ==
  /\ pc = "guard2" /\ (pending \/ active)
  /\ IF pending
     THEN Shutdown("guardpended")
     ELSE pc' = "valid1" /\ UNCHANGED next
  /\ UNCHANGED <<hardware, timer, motor, handoff, op, result, phys, taken, reached,
                 loop, elapsed, stall, history>>

\* Mutant: without a request only the timer is looked at.
GuardTimerOnly ==
  /\ pc = "guard2" /\ ~pending /\ ~active
  /\ Cancel
  /\ Return(IF IsArmed THEN "TIMER_ERROR" ELSE "OK")
  /\ UNCHANGED <<hardware, healthy, motor, handoff, op, next, phys, taken,
                 reached, loop, elapsed, stall, history>>

\* No request: off whatever the sample said, and report what was live.
GuardInactive ==
  /\ pc = "guard2" /\ ~pending /\ ~active
  /\ out' = Disabled
  /\ Cancel
  /\ phys' = (Disabled = "OFF")
  /\ Return(IF ~phys \/ Disabled # "OFF" THEN "HARDWARE_ERROR"
            ELSE IF IsArmed THEN "TIMER_ERROR" ELSE "OK")
  /\ UNCHANGED <<stuck, healthy, motor, handoff, op, next, taken, reached, loop,
                 elapsed, stall, history>>

GuardValid ==
  /\ pc = "guard3"
  /\ IF pending
     THEN Shutdown("guardpended") /\ UNCHANGED result
     ELSE Return("OK") /\ UNCHANGED next
  /\ UNCHANGED <<hardware, timer, motor, handoff, op, phys, taken, reached, loop,
                 elapsed, stall, history>>

\* The request is not valid and no event explains it: off, then ask again.
GuardInvalid ==
  /\ pc = "guard4"
  /\ Shutdown(IF pending THEN "guardpended" ELSE "guard5")
  /\ UNCHANGED <<hardware, timer, motor, handoff, op, result, phys, taken, reached,
                 loop, elapsed, stall, history>>

GuardReport ==
  /\ pc = "guard5"
  /\ phys' = IsDisabled
  /\ IF pending
     THEN Shutdown("guardpended") /\ UNCHANGED result
     ELSE Return("HARDWARE_ERROR") /\ UNCHANGED next
  /\ UNCHANGED <<hardware, timer, motor, handoff, op, taken, reached, loop,
                 elapsed, stall, history>>

\* Mutant: the guard swallows the event it finds.
GuardConsumes ==
  /\ pc = "guardpended"
  /\ phys' = IsDisabled
  /\ pending' = FALSE
  /\ Return("OK")
  /\ UNCHANGED <<hardware, timer, motor, event, op, next, taken, reached, loop,
                 elapsed, stall, history>>

\* MotorExecutor_GuardPendingCompletion: the event itself is left to Service.
GuardPendingCompletion ==
  /\ pc = "guardpended"
  /\ phys' = IsDisabled
  /\ Return(IF ~IsDisabled THEN "HARDWARE_ERROR"
            ELSE IF IsArmed THEN "TIMER_ERROR" ELSE "OK")
  /\ UNCHANGED <<hardware, timer, motor, handoff, op, next, taken, reached, loop,
                 elapsed, stall, history>>

-----------------------------------------------------------------------------
(* Time and hardware faults.                                               *)

\* A millisecond passes.  The interrupt is entered within the millisecond in
\* which its flag rises, so time waits for a ready interrupt.
Tick ==
  /\ ~IrqReady
  /\ Idle \/ stall < MaxStall
  /\ IF IsArmed
     THEN /\ cnt' = cnt + 1
          /\ flags' = flags \cup (IF cnt + 1 = request.normal THEN {"CC1"} ELSE {})
                            \cup (IF cnt + 1 = request.backstop THEN {"UIF"} ELSE {})
     ELSE UNCHANGED <<cnt, flags>>
  /\ elapsed' = IF elapsed < MaxElapsed THEN elapsed + 1 ELSE elapsed
  /\ stall' = IF Idle THEN 0 ELSE stall + 1
  /\ UNCHANGED <<hardware, armed, healthy, nvic, motor, handoff, pc, op, next,
                 result, phys, taken, reached, loop, history>>

Strike(kind) ==
  /\ kind \in Faults
  /\ UNCHANGED <<armed, healthy, nvic, cnt, motor, handoff, pc, op, next, result,
                 phys, taken, reached, loop, elapsed, stall, fired>>

\* The driver registers lose their contents.
OutputDrops ==
  /\ Strike("drop")
  /\ out # "OFF" /\ out' = "OFF"
  /\ dirty' = TRUE
  /\ UNCHANGED <<stuck, flags, astray>>

\* The bridge drives although nobody asked it to.
OutputSurges ==
  /\ Strike("surge")
  /\ out = "OFF" /\ out' \in Directions
  /\ dirty' = TRUE /\ astray' = TRUE
  /\ UNCHANGED <<stuck, flags>>

\* The shutdown writes stop having an effect.
OutputSticks ==
  /\ Strike("stuck")
  /\ ~stuck /\ stuck' = TRUE /\ astray' = TRUE
  /\ UNCHANGED <<out, flags, dirty>>

\* TIM5 reports an overcapture.
Overcapture ==
  /\ Strike("overcapture")
  /\ armed /\ "OF" \notin flags
  /\ flags' = flags \cup {"OF"}
  /\ UNCHANGED <<out, stuck, dirty, astray>>

-----------------------------------------------------------------------------
\* After a successful MotorExecutor_Initialize.
Init ==
  /\ out = "OFF" /\ stuck = FALSE
  /\ armed = FALSE /\ healthy = TRUE /\ nvic = FALSE /\ flags = {} /\ cnt = 0
  /\ active = FALSE /\ request = NoRequest /\ seq = 0 /\ completion = "NONE"
  /\ pending = FALSE /\ event = "ERROR"
  /\ pc = "idle" /\ op = "Disable" /\ next = "cleared" /\ result = "OK"
  /\ phys = TRUE /\ taken = "ERROR" /\ reached = FALSE
  /\ turn = "command" /\ fault = FALSE
  /\ elapsed = 0 /\ stall = 0
  /\ astray = FALSE /\ dirty = FALSE /\ fired = "NONE"

\* The calls that the main loop and the machine make.
Call ==
  \/ \E r \in Requests, lag \in 0..MaxLag : Start(r, lag)
  \/ Capture
  \/ \E f \in BOOLEAN : Disable(f)
  \/ HandleError
  \/ \E lag \in 0..MaxLag : Service(lag)
  \/ Guard

\* The steps inside an operation.
Step ==
  \/ OutputOff \/ CancelTimer \/ DisableCleared
  \/ StartArm \/ ApplyCarriers \/ ApplyDrive \/ CommitArm \/ StartEnable
  \/ FailStart
  \/ ServiceTake1 \/ ServiceSnapshot \/ ServiceTake2 \/ ServiceInactive
  \/ ServiceActive \/ ServiceRecheck \/ PublishCompletion
  \/ ValidSnapshot \/ ValidOutput \/ ValidArmed \/ ValidHealthy \/ ValidRecheck
  \/ GuardSnapshot \/ GuardClassify \/ GuardInactive \/ GuardValid
  \/ GuardInvalid \/ GuardReport \/ GuardPendingCompletion

Hardware == OutputDrops \/ OutputSurges \/ OutputSticks \/ Overcapture

Next == Call \/ Step \/ TIM5_IRQHandler \/ Tick \/ Hardware

Spec == Init /\ [][Next]_vars

\* Main keeps running, time passes, the interrupt is taken, and the main loop
\* comes round to Service and Guard however many commands arrive, for it takes
\* one command per iteration.  Nothing makes the machine start a request.
Fairness ==
  /\ WF_vars(Step)
  /\ WF_vars(TIM5_IRQHandler)
  /\ WF_vars(Tick)
  /\ SF_vars(\E lag \in 0..MaxLag : Service(lag))
  /\ SF_vars(Guard)
  /\ WF_vars(Capture)
  /\ WF_vars(HandleError)

FairSpec == Spec /\ Fairness

\* Main may stop for good, wherever it stands: only the clock and the interrupt
\* go on.
HaltSpec == Spec /\ WF_vars(TIM5_IRQHandler) /\ WF_vars(Tick)

-----------------------------------------------------------------------------
(* Properties.  Once the bridge has driven or stayed on by itself (astray) *)
(* no software can time a drive.  The other faults, a failed apply, a lost *)
(* output, an overcapture of the timer, excuse nothing.                    *)

NumbersOK ==
  /\ cnt \in Nat /\ seq \in Nat
  /\ elapsed \in Nat /\ stall \in Nat

BooleansOK ==
  /\ stuck \in BOOLEAN
  /\ armed \in BOOLEAN /\ healthy \in BOOLEAN /\ nvic \in BOOLEAN
  /\ active \in BOOLEAN /\ pending \in BOOLEAN
  /\ phys \in BOOLEAN /\ reached \in BOOLEAN
  /\ fault \in BOOLEAN /\ astray \in BOOLEAN /\ dirty \in BOOLEAN

BridgeOK ==
  /\ out \in {"OFF", "ZERO"} \cup Directions
  /\ flags \subseteq Flags

RequestOK ==
  /\ request \in [dir : Directions, normal : Nat, backstop : Nat]
  /\ completion \in Completions /\ fired \in Completions
  /\ event \in Events /\ taken \in Events

MainOK ==
  /\ pc \in Steps /\ next \in Steps
  /\ op \in Operations /\ result \in Results
  /\ turn \in {"command", "guard"}

\* Every variable stays in its range (the state of the three C files).
TypeOK == NumbersOK /\ BooleansOK /\ BridgeOK /\ RequestOK /\ MainOK

\* A bridge that is not off belongs to a live request whose stop timer counts,
\* with the interrupt enabled unless main is still inside Start; what is driven
\* is what was asked for (Start arms before it applies, a failed apply and every
\* other shutdown is off first and cancels second).
DriveIsTimed ==
  ~astray /\ out # "OFF" =>
    /\ armed /\ active
    /\ nvic \/ pc \in StartWindow
    /\ out \in {"ZERO", request.dir}

\* Once Start has returned, the drive is within the normal duration or the
\* interrupt that ends it is already there: the compare that rises between the
\* status test of CommitArm and the unmasking is not lost.
DriveEndsOnTime ==
  ~astray /\ out # "OFF" /\ pc \notin StartWindow =>
    cnt < request.normal \/ IrqReady

\* One slot is enough for the events: while one waits in the handoff the timer
\* is off and masked, so the interrupt cannot overwrite it, and the output that
\* the event is about is off already.
PendingIsQuiet ==
  pending =>
    /\ ~armed /\ ~nvic /\ flags = {}
    /\ ~astray => out = "OFF"

\* NORMAL and BACKSTOP are reported for a request only if the interrupt handler
\* classified that very request so; main never makes them up.
HonestCompletion ==
  completion \in {"NORMAL", "BACKSTOP"} => completion = fired

\* The interrupt ended the request and Service has not yet said so: the event is
\* in the handoff, or in Service's hands, or a Disable is about to discard it.
\* No test of Service or Guard drops it on the way.
CompletionOwed ==
  active /\ fired # "NONE" =>
    \/ pending
    \/ pc = "publish" /\ taken = fired

\* Without hardware faults, and if main is never later than the margin between
\* the normal duration and the backstop, no interleaving with the interrupt makes
\* Service, Guard or the capture of a request report an error or an ERROR
\* completion: the rechecks of the handoff after every failed test suffice.
NoFalseError ==
  /\ completion # "ERROR"
  /\ op \in {"Service", "Guard", "Capture"} => result = "OK"

\* FAULT is quiet: between operations, and apart from a shutdown path that no
\* longer obeys or a disturbance since the last guard, the bridge is off, the
\* timer is off, nothing is active and no event waits.
FaultIsQuiet ==
  fault /\ Idle /\ ~Failed /\ ~stuck /\ ~dirty =>
    out = "OFF" /\ ~armed /\ ~active /\ ~pending

\* What the machine sees of all this is BoundedDrive: accepted from the moment
\* Start takes the request until it drives it, driving while the bridge does.
Phase == IF out \in Directions THEN "driving"
         ELSE IF pc \in {"arm", "carriers", "drive"} THEN "accepted"
         ELSE "idle"
Abstract == INSTANCE BoundedDrive
              WITH phase <- Phase, dir <- request.dir, number <- seq

\* Break before make, one drive per accepted request, in its direction.
ImplementsBoundedDrive == Abstract!Spec

\* Once the interrupt is unmasked it alone ends the drive: main may hang anywhere,
\* in the middle of an operation or between two.
InterruptEndsDrive ==
  (~astray /\ out # "OFF" /\ nvic) ~> (astray \/ out = "OFF")

\* Every accepted request is completed by Service or discarded by Disable.
RequestEnds == active ~> ~active
=============================================================================
