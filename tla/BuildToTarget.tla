---------------------------- MODULE BuildToTarget ----------------------------
(***************************************************************************)
(* The BUILD_TO_TARGET machine over its executor: force_build_machine.c,   *)
(* the parts of force_servo_machine.c that firmware uses, and the main     *)
(* loop that calls them.  A session presses in pulses until a sample       *)
(* reaches the target; the output then stays off for the rest of it.       *)
(*                                                                         *)
(* Every executor call is the action of BuildExecutor, one per step of the *)
(* loop, and TIM5 may raise and serve its event between any two of them.   *)
(* A handler reads the tick once and takes less than a millisecond, so     *)
(* SysTick advances between passes.  What the pulse decision computes from *)
(* the measured values is a choice of this model, within its control.      *)
(***************************************************************************)
EXTENDS BuildExecutor

CONSTANTS
  FeedbackGap,   \* FORCE_SERVO_COMMISSIONING_FEEDBACK_GAP_MS
  StartWait,     \* FORCE_SERVO_START_WAIT_MS
  OffTime,       \* profile.off_ms: OFF after a session before the next START
  NoResponse     \* g_force_build_config.no_response_ms

ASSUME MachineTimesAssumption ==
  /\ FeedbackGap \in Nat /\ MaxAge <= FeedbackGap /\ FeedbackGap < Lease
  /\ StartWait \in Nat \ {0} /\ OffTime \in Nat
  /\ NoResponse \in Nat \ {0}

VARIABLES
  pc,          \* where main is in its loop
  back,        \* where it goes on after a fault
  gap,         \* ms since pressure.received_at_ms
  state,       \* m->state, its FORCE_APPROACH, _BUILD and _TAPER being "RUN"
  session,     \* s->active
  starting,    \* s->start_pending
  waited,      \* ms since s->start_requested_ms
  cooling,     \* ms to s->cooling_until_ms
  monitoring,  \* b->monitoring: the target was reached
  phase,       \* b->phase: "APPROACH" or not
  contacted,   \* s_has_contacted of the pulse decision
  owed,        \* b->post_pending: a pulse has had no answer
  epoch,       \* b->epoch, the last exposure epoch seen
  silent,      \* b->no_response_ms
  unaccounted, \* ms since b->accounted_ms
  running,     \* handler local: e.segment_active of the snapshot at hand
  answered,    \* handler local: the sample at hand answered a pulse
  granted,     \* history: a START was accepted, and nothing has ended it since
  heard,       \* history: a sample received after the last pulse was delivered
  stuck        \* history: ms of drive and brake past the approach since the last gain

loop    == <<pc, back>>
machine == <<state, session, starting, waited, cooling, monitoring>>
build   == <<phase, contacted, owed, epoch>>
account == <<silent, unaccounted>>
local   == <<running, answered>>
history == <<granted, heard, stuck>>
vars == <<machinery, loop, gap, machine, build, account, local, history>>

Pressing == session /\ ~monitoring

-----------------------------------------------------------------------------
(* Shared pieces.                                                          *)

\* Mutant: Account forgets what it has counted so far.
AccountedFromZero ==
  IF Pressing /\ phase # "APPROACH" THEN Least(unaccounted, NoResponse) ELSE silent

\* Mutant: the count does not saturate.
AccountedUnbounded ==
  IF Pressing /\ phase # "APPROACH" THEN silent + unaccounted ELSE silent

\* ForceBuildMachine_Account.
Accounted ==
  IF Pressing /\ phase # "APPROACH" THEN Least(silent + unaccounted, NoResponse)
  ELSE silent

\* sync_epoch: a full rest seen in the executor's snapshot clears the count.
Synced(count) == IF rest'.epoch # epoch THEN 0 ELSE count

Goto(next) == pc' = next /\ back' = "sample"

\* fail(): the fault itself is the next step, and main then goes on.
Fail(next) == pc' = "fault" /\ back' = next

\* begin_cooling.
Cooled == IF session THEN OffTime ELSE cooling

\* MotorExecutor_Disable at the end of a segment: when did it end, and is there
\* already a sample received after it?
EndHeard ==
  IF seg /\ mode = "PULSE" /\ ~seg' THEN sampleAge = 0 /\ ~sampleUsed ELSE heard

\* fault(), reached through Machine_ReportFault.
FaultStep ==
  /\ pc = "fault"
  /\ Goto(back)
  /\ Disable
  /\ silent' = Accounted /\ unaccounted' = 0
  /\ state' = "FAULT"
  /\ session' = FALSE /\ starting' = FALSE /\ waited' = 0
  /\ cooling' = Cooled
  /\ granted' = FALSE
  /\ heard' = EndHeard
  /\ UNCHANGED <<gap, monitoring, build, local, stuck>>

-----------------------------------------------------------------------------
(* Machine_CheckPressureSafety, before a new sample is taken over, in      *)
(* ServiceSafety and in Tick.                                              *)

Checks == [sample |-> "take", safety |-> "service", tick |-> "sample"]

\* A START waits for its first fresh sample with the output off.
StartFaulty == out # "OFF" \/ ~IsHealthy \/ active \/ waited >= StartWait

\* Mutant: the gap since the last sample is not checked.
BuildFaultyBlind(count) ==
  /\ session
  /\ IF monitoring THEN out # "OFF"
     ELSE \/ reason \in {"DEADLINE", "HARDWARE"}
          \/ ~(open /\ IsHealthy)
          \/ (seg \/ brake) /\ receive = 0
          \/ seg /\ deadline = 0
          \/ phase # "APPROACH" /\ count >= NoResponse

\* ForceBuildMachine_Safety.
BuildFaulty(count) ==
  /\ session
  /\ \/ gap > FeedbackGap
     \/ IF monitoring THEN out # "OFF"
        ELSE \/ reason \in {"DEADLINE", "HARDWARE"}
             \/ ~(open /\ IsHealthy)
             \/ (seg \/ brake) /\ receive = 0
             \/ seg /\ deadline = 0
             \/ phase # "APPROACH" /\ count >= NoResponse

CheckStart ==
  /\ pc \in DOMAIN Checks /\ starting
  /\ IF StartFaulty THEN Fail(Checks[pc]) ELSE Goto(Checks[pc])
  /\ UNCHANGED <<machinery, gap, machine, build, account, local, history>>

CheckBuild ==
  /\ pc \in DOMAIN Checks /\ ~starting
  /\ Snapshot
  /\ silent' = Synced(Accounted) /\ unaccounted' = 0
  /\ epoch' = rest'.epoch
  /\ IF BuildFaulty(silent') THEN Fail(Checks[pc]) ELSE Goto(Checks[pc])
  /\ UNCHANGED <<gap, machine, phase, contacted, owed, local, history>>

-----------------------------------------------------------------------------
(* A new pressure sample: Machine_HandlePressureSample.                    *)

\* main finds no new sequence in the receiver's snapshot; when it does, the old
\* feedback is checked before Take.
NoSample ==
  /\ pc = "sample"
  /\ Goto("safety")
  /\ UNCHANGED <<machinery, gap, machine, build, account, local, history>>

Levels == {"LOW", "TARGET", "OVER"}

\* ForceBuildMachine_Pressure up to its first snapshot.
PressureGoes(age, level) ==
  IF age > MaxAge THEN IF session THEN Fail("safety") ELSE Goto("safety")
  ELSE IF level = "OVER" THEN Fail("safety")
  ELSE IF level = "TARGET" /\ Pressing THEN Goto("target")
  ELSE IF Pressing /\ (seg \/ brake) THEN Goto("refresh")
  ELSE Goto("post")

\* A START waits for a sample that is fresh and was received after it.
StartGoes(age, level) ==
  IF age > MaxAge \/ age > waited THEN Goto("safety")
  ELSE IF level = "OVER" \/ state # "IDLE" \/ ~IsHealthy \/ out # "OFF"
  THEN Fail("safety")
  ELSE IF level = "TARGET" THEN Goto("reached")
  ELSE Goto("begin")

\* The sample replaces the old one, received age milliseconds ago.
Take(age, level) ==
  /\ pc = "take"
  /\ Deliver(age)
  /\ gap' = age
  /\ heard' = (heard \/ age <= ended)
  /\ IF starting THEN StartGoes(age, level) ELSE PressureGoes(age, level)
  /\ UNCHANGED <<machine, build, account, local, granted, stuck>>

\* Mutant: a START refunds what the sessions before it have counted.
RefundedAtBegin == 0

\* What ForceBuildMachine_Begin leaves of the count: a new session starts from
\* the sessions before it.
CarriedAtBegin == Synced(silent)

\* begin_session and ForceBuildMachine_Begin; when the target is reached already,
\* the session only monitors.
BeginSession ==
  /\ \/ /\ pc = "reached"
        /\ Snapshot
        /\ Goto("target")
        /\ UNCHANGED <<phase, state>>
     \/ /\ pc = "begin" /\ CanBegin
        /\ Begin
        /\ Goto("post")
        /\ phase' \in {"APPROACH", "BUILD"} /\ state' = "RUN"
     \/ /\ pc = "begin" /\ ~CanBegin
        /\ Snapshot
        /\ Fail("safety")
        /\ UNCHANGED <<phase, state>>
  /\ starting' = FALSE /\ session' = TRUE /\ monitoring' = FALSE
  /\ unaccounted' = 0
  /\ epoch' = rest'.epoch
  /\ silent' = CarriedAtBegin
  /\ contacted' = FALSE
  /\ waited' = 0
  /\ UNCHANGED <<gap, cooling, owed, local, history>>

\* Mutant: the session is marked as monitoring before the output is off.
TargetOffLater ==
  /\ pc = "target"
  /\ Goto("safety")
  /\ silent' = Accounted /\ unaccounted' = 0
  /\ starting' = FALSE /\ waited' = 0 /\ session' = TRUE /\ monitoring' = TRUE
  /\ phase' = "TARGET_OFF" /\ state' = "REACHED"
  /\ granted' = FALSE
  /\ UNCHANGED <<machinery, gap, cooling, contacted, owed, epoch, local, heard, stuck>>

\* target_off: the output goes off and stays off, the session only monitors.
TargetOff ==
  /\ pc = "target"
  /\ Goto("safety")
  /\ Disable
  /\ silent' = Accounted /\ unaccounted' = 0
  /\ starting' = FALSE /\ waited' = 0 /\ session' = TRUE /\ monitoring' = TRUE
  /\ phase' = "TARGET_OFF"
  /\ state' = "REACHED"
  /\ granted' = FALSE
  /\ heard' = EndHeard
  /\ UNCHANGED <<gap, cooling, contacted, owed, epoch, local, stuck>>

RefreshFeedback ==
  /\ pc = "refresh"
  /\ \/ RefreshOK /\ Goto("post")
     \/ RefreshFails /\ Fail("safety")
     \/ ~Refreshable /\ UNCHANGED machinery /\ Fail("safety")
  /\ UNCHANGED <<gap, machine, build, account, local, granted, stuck>>
  /\ heard' = EndHeard

\* Does the sample at hand answer the last pulse?
IsAnswer == owed /\ ~seg /\ ~sampleUsed /\ sampleAge <= ended

\* The second snapshot; without a session the answer only clears the flag.
Post ==
  /\ pc = "post"
  /\ Snapshot
  /\ running' = (Pressing /\ seg)
  /\ answered' = (Pressing /\ IsAnswer)
  /\ owed' = (owed /\ ~(IsAnswer /\ ~Pressing))
  /\ Goto(IF ~Pressing THEN "safety" ELSE IF IsAnswer THEN "accept" ELSE "decide")
  /\ UNCHANGED <<gap, machine, phase, contacted, epoch, account, history>>

AcceptAnswer ==
  /\ pc = "accept"
  /\ \/ AcceptPost /\ owed' = FALSE /\ Goto("decide") /\ UNCHANGED answered
     \/ /\ AcceptExpired \/ (~Answers /\ UNCHANGED machinery)
        /\ owed' = owed /\ Fail("safety") /\ answered' = FALSE
  /\ UNCHANGED <<gap, machine, phase, contacted, epoch, account, running, history>>

-----------------------------------------------------------------------------
(* The decision of ForceBuildSource_Step and what Pressure does with it.   *)

\* The source waits for the settling of the last pulse, whose end it is given
\* only when that was no approach.
Settled == mode # "PULSE" \/ ended >= settle

\* Only an answer that shows a gain clears the count.
Counted(gain) ==
  /\ gain => answered
  /\ silent' = IF gain THEN 0 ELSE Accounted
  /\ unaccounted' = 0
  /\ stuck' = IF gain THEN 0 ELSE stuck

\* Continuous approach, until the first contact of the session.
DecideApproach ==
  /\ ~contacted
  /\ contacted' = FALSE
  /\ phase' = "APPROACH"
  /\ IF running
     THEN /\ UNCHANGED machinery
          /\ owed' = owed
          /\ Goto("safety")
     ELSE \E r \in {q \in Segments : q.mode = "COARSE"} :
            \/ StartOK(r) /\ owed' = FALSE /\ Goto("safety")
            \/ /\ StartFails(r) \/ (~Startable(r) /\ UNCHANGED machinery)
               /\ owed' = owed /\ Fail("safety")

\* A pulse, also out of a running approach.
DecidePulse ==
  /\ running => mode = "COARSE"
  /\ Settled
  /\ contacted' \in {contacted, TRUE}
  /\ phase' = "BUILD"
  /\ \E r \in {q \in Segments : q.mode = "PULSE"} :
       \/ StartOK(r) /\ owed' = TRUE /\ Goto("safety")
       \/ /\ StartFails(r) \/ (~Startable(r) /\ UNCHANGED machinery)
          /\ owed' = owed /\ Fail("safety")

\* A brake: the source saw a jump, or the pulse near the target is long enough.
\* After a jump it keeps its mode, and so the phase.
DecideBrake ==
  /\ contacted' \in {contacted, TRUE}
  /\ phase' \in {phase, "BUILD"}
  /\ owed' = owed
  /\ IF running
     THEN \/ EndOK /\ Goto("safety")
          \/ EndFails /\ Fail("safety")
          \/ ~Endable /\ UNCHANGED machinery /\ Fail("safety")
     ELSE UNCHANGED machinery /\ Goto("safety")

\* Nothing yet: not settled, or less than ten milliseconds since the last step.
DecideNothing ==
  /\ contacted' \in {contacted, TRUE}
  /\ phase' \in {phase, "BUILD"}
  /\ owed' = owed
  /\ UNCHANGED machinery
  /\ Goto("safety")

Decide ==
  /\ pc = "decide"
  /\ \E gain \in BOOLEAN : Counted(gain)
  /\ DecideApproach \/ DecidePulse \/ DecideBrake \/ DecideNothing
  /\ running' = FALSE /\ answered' = FALSE
  /\ heard' = EndHeard
  /\ UNCHANGED <<gap, machine, epoch, granted>>

-----------------------------------------------------------------------------
(* Executor service and commands.                                          *)

\* MotorExecutor_Service consumes a completion, and faults when it is an error;
\* Machine_HandleMotorService faults on what has cut a segment off.
ServiceMotor ==
  /\ pc = "service"
  /\ IF event # "NONE" THEN Service ELSE Snapshot
  /\ IF \/ event # "NONE" /\ BadCompletion
        \/ Pressing /\ reason' \in {"DEADLINE", "HARDWARE"}
     THEN Fail("command") ELSE Goto("command")
  /\ heard' = EndHeard
  /\ UNCHANGED <<gap, machine, build, account, local, granted, stuck>>

NoCommand ==
  /\ pc = "command"
  /\ Goto("tick")
  /\ UNCHANGED <<machinery, gap, machine, build, account, local, history>>

\* CMD_STOP, also served before a new sample is looked at.
Stop ==
  /\ \/ pc = "command" /\ Goto("tick")
     \/ pc = "sample" /\ UNCHANGED loop
  /\ Disable
  /\ silent' = Accounted /\ unaccounted' = 0
  /\ starting' = FALSE /\ waited' = 0 /\ session' = FALSE
  /\ cooling' = Cooled
  /\ state' = IF state = "FAULT" THEN "FAULT" ELSE "IDLE"
  /\ granted' = FALSE
  /\ heard' = EndHeard
  /\ UNCHANGED <<gap, monitoring, build, local, stuck>>

\* CMD_FORCE_START: ForceBuildMachine_Ready, an idle machine, a healthy output.
\* The plan is armed anew before each START.
ForceStart ==
  /\ pc = "command"
  /\ state = "IDLE" /\ ~session /\ ~starting /\ cooling = 0
  /\ Snapshot
  /\ epoch' = rest'.epoch
  /\ silent' = Synced(silent)
  /\ ~rest'.required /\ ~owed /\ silent' < NoResponse
  /\ IsHealthy /\ out = "OFF"
  /\ starting' = TRUE /\ waited' = 0
  /\ granted' = TRUE
  /\ Goto("tick")
  /\ UNCHANGED <<gap, state, session, cooling, monitoring, phase, contacted, owed,
                 unaccounted, local, heard, stuck>>

\* CMD_FAULT_RESET.
FaultReset ==
  /\ pc = "command"
  /\ state = "FAULT" /\ out = "OFF" /\ IsHealthy
  /\ state' = "IDLE"
  /\ Goto("tick")
  /\ UNCHANGED <<machinery, gap, session, starting, waited, cooling, monitoring,
                 build, account, local, history>>

-----------------------------------------------------------------------------
(* Time and the interrupt.                                                 *)

SysTickMs ==
  /\ pc = "sample"
  /\ SysTick
  /\ gap' = Least(gap + 1, FeedbackGap + 1)
  /\ waited' = IF starting THEN Least(waited + 1, StartWait) ELSE waited
  /\ cooling' = Sooner(cooling)
  /\ unaccounted' = Least(unaccounted + 1, NoResponse)
  /\ stuck' = IF quiet' = FullRest THEN 0
              ELSE IF out # "OFF" /\ phase # "APPROACH" THEN Least(stuck + 1, NoResponse)
              ELSE stuck
  /\ UNCHANGED <<loop, state, session, starting, monitoring, build, silent,
                 local, granted, heard>>

TimTickMs ==
  /\ TimTick
  /\ UNCHANGED <<loop, gap, machine, build, account, local, history>>

IrqTim5 ==
  /\ Irq
  /\ heard' = EndHeard
  /\ UNCHANGED <<loop, gap, machine, build, account, local, granted, stuck>>

-----------------------------------------------------------------------------
(* The specification.                                                      *)

MachineInit ==
  /\ Init
  /\ pc = "sample" /\ back = "sample"
  /\ gap = FeedbackGap + 1
  /\ state = "IDLE" /\ session = FALSE /\ starting = FALSE
  /\ waited = 0 /\ cooling = 0 /\ monitoring = FALSE
  /\ phase = "BUILD" /\ contacted = FALSE /\ owed = FALSE /\ epoch = 0
  /\ silent = 0 /\ unaccounted = 0
  /\ running = FALSE /\ answered = FALSE
  /\ granted = FALSE /\ heard = FALSE /\ stuck = 0

\* One step of the main loop.
Loop ==
  \/ NoSample
  \/ CheckStart
  \/ CheckBuild
  \/ \E age \in 0 .. StaleAge, level \in Levels : Take(age, level)
  \/ BeginSession
  \/ TargetOff
  \/ RefreshFeedback
  \/ Post
  \/ AcceptAnswer
  \/ Decide
  \/ ServiceMotor
  \/ NoCommand
  \/ FaultStep

Command == Stop \/ ForceStart \/ FaultReset

MachineNext == Loop \/ Command \/ SysTickMs \/ TimTickMs \/ IrqTim5

\* The main loop keeps running, time passes on both clocks, and a SysTick that
\* finds main between two passes again and again is not held back for ever.
MachineFairness ==
  /\ WF_vars(Loop) /\ SF_vars(SysTickMs)
  /\ WF_vars(TimTickMs) /\ WF_vars(IrqTim5)

MachineSpec == MachineInit /\ [][MachineNext]_vars
FairMachineSpec == MachineSpec /\ MachineFairness

-----------------------------------------------------------------------------
(* Properties.                                                             *)

Places ==
  DOMAIN Checks \cup {"sample", "take", "begin", "reached", "target", "refresh",
                      "post", "accept", "decide", "service", "command", "fault"}

MachineTypeOK ==
  /\ pc \in Places /\ back \in Places
  /\ gap \in 0 .. FeedbackGap + 1
  /\ state \in {"IDLE", "RUN", "REACHED", "FAULT"}
  /\ session \in BOOLEAN /\ starting \in BOOLEAN /\ monitoring \in BOOLEAN
  /\ waited \in 0 .. StartWait /\ cooling \in 0 .. OffTime
  /\ phase \in {"APPROACH", "BUILD", "TARGET_OFF"}
  /\ contacted \in BOOLEAN /\ owed \in BOOLEAN /\ epoch \in 0 .. 1
  /\ silent \in 0 .. NoResponse /\ unaccounted \in 0 .. NoResponse
  /\ running \in BOOLEAN /\ answered \in BOOLEAN
  /\ granted \in BOOLEAN /\ heard \in BOOLEAN /\ stuck \in 0 .. NoResponse

\* The bridge is enabled only under a START that no STOP, fault or reached target
\* has ended since: no later sample, answer, cooling or reset repeats the press.
DriveIsGranted == out # "OFF" => granted

\* A pulse begins.
PulseStarts == out' = "PRESS" /\ mode' = "PULSE" /\ ~(out = "PRESS" /\ mode = "PULSE")

\* No pulse begins before a sample that was received after the last pulse ended,
\* in this session or an earlier one: every pulse is decided on its effect.
PulseNeedsEvidence == [][PulseStarts => heard]_vars

\* No pulse begins once driving and braking past the approach have gone on for
\* NoResponse without a gain or a full rest: no STOP, fault or START refunds it.
NoPulseUnanswered == [][PulseStarts => stuck < NoResponse]_vars

\* A pulse asked for out of a brake that has settled, with a fresh sample and its
\* lease running, is admitted: also the first pulse after the approach was braked
\* on a jump (HANDOFF.md: the source's handling of a large rise is preserved).
NextPulseIsAdmitted ==
  [][(/\ pc = "decide" /\ phase' = "BUILD"
      /\ brake /\ ended >= settle
      /\ receive > 0 /\ tim.flags = {} /\ ~Lands)
     => pc' # "fault"]_vars

\* An answer shows a gain.
Gains == pc = "decide" /\ answered /\ silent' = 0

\* A press cannot go on for ever: it ends, is back in its approach, or gains
\* again and again.
UnansweredPressEnds ==
  []<>(~Pressing \/ phase = "APPROACH") \/ []<><<Gains>>_vars

\* When samples stop, the session ends, pressing, waiting to start or monitoring.
SilenceEndsSession ==
  []<>(pc = "take") \/ []<>(~session /\ ~starting)
=============================================================================
