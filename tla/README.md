# TLA+ models of the SD700 press-force firmware

The firmware (`src/`, STM32F411, C, no operating system) drives a DC motor that
presses on a work piece until a pressure sensor reports the wanted force. A
Modbus master starts and stops it. One cooperative main loop (`User/main.c`) does
all the work; three interrupts cut into it: TIM5, which ends a drive (priority
4), and USART2 and USART6, which serve the Modbus line and the pressure sensor
(priority 5). Nothing is persisted and there is no second thread; what is hard
is what the interrupts and the hardware do between two steps of the loop.

The vendored HAL, CMSIS and FreeRTOS (not linked) are third-party code and are
left aside, and so are the host tests and the scripts. `PROJECT.json` maps every
definition to the lines it models, and lists the components, the hazards with
their lines, the runs, the mutants and the theorems.

## Inventory

| Component | State | Operations | Hard behaviour | What makes it correct |
|---|---|---|---|---|
| Motor executor `Board/Motor/motor_executor_real.c` | the active request, the last completion, one hand-over slot for the event the interrupt latches | Initialize, Start, Service, GuardOutput, Disable, ActiveRequestIsValid | no lock: the interrupt may end the drive between any two tests | every drive is timed and owned, each end is reported once and truthfully, no false fault |
| TIM5 stop timer `motor_stop_timer_tim5.c` | armed, healthy, counter, status flags, NVIC mask | Arm, CommitArm, Cancel, handler | events between test and unmask, several flags at once | an end is never lost, never renewed |
| H-bridge `motor_hw_real.c` | pins and compare registers | DisableImmediate, Apply, IsDisabled | a failure half-way; a pin that does not obey | off is off, break before make |
| BUILD segments (`SD700_BUILD_TO_TARGET`, same file) | segment, brake, lease, budgets, owner token | BeginBuild, StartBuildSegment, EndBuildSegment, AcceptBuildPost, RefreshBuildFeedback | the interrupt turns the pulse into a brake and keeps the timer; leases are renewed under the counter | no pulse outlives its hard limit; a segment follows only fresh feedback; budgets hold |
| Continuous executor (same file) | session, lease, boost plan | BeginContinuous, UpdateContinuous | lease renewal, reversal dead time | as above |
| AutoTarget machine `Application/machine.c` | one state, cycle flags, time stamps, the newest sample | START, STOP, samples, safety, service, tick | order of the calls in an iteration; stale samples; contact at the same time as a bad end | motion is owned; decisions use fresh, settled pressure; the cycle ends |
| Direct pulses, ForcePi, press boost (`machine.c`, `force_pi.c`) | a request, the controller gains, the boost ladder | the two pulse coils, ConfigureForcePi | the completion of one pulse against the feedback of the next | a boost is spent once |
| ForceServo and BuildToTarget machines `force_servo_machine.c`, `force_build_machine.c` | session, phase, post-pulse flag, no-response clock | START, STOP, samples, safety | clocks that outlive a session; target-off monitoring | no restart after target-off; no-response always trips |
| Pulse decision `force_build_source.c`, PID `force_servo.c` | filters, float state | Step | arithmetic | tuning, not safety |
| Runtime and main loop `runtime.c`, `main.c` | the delivered sequence | one iteration | its order; one `now_ms` for many calls | pressure before motor, STOP before START |
| Modbus server `modbus_rtu_server.c` | receive buffer, queue of 4, STOP latch, two answer slots, counters | ProcessBytes, TakeStop, ProcessPending, CompleteResponse | resynchronisation, overflow of each buffer | no frame lost or unaccounted, STOP is a barrier, answers in order |
| Link, UART2, ingress ring `modbus_rtu_link.c`, `modbus_uart2.c`, `modbus_uart_ingress.c` | ring of 64, event flags, DE pin, HAL state | Drain, Service, StartTransmit, three interrupts | half-duplex hand-over, errors during an answer | never deaf, never mute |
| Register map `modbus_semantic_map.c`, `force_servo_protocol.c` | none | read, write | none | names commands only |
| Pressure receiver, UART6 `pressure_receiver.c`, `pressure_uart6.c` | frame buffer, newest sample | one byte per interrupt; snapshot under PRIMASK | resynchronisation; publication during an iteration | samples are whole, each delivered at most once |
| Boot and build policy | none | run once | none | the output is off before the loop |

The machine calls the executor directly; the executor answers by result codes
and by the event that `Service` consumes. Samples and bytes come from the
interrupts by shared buffers; commands come from the Modbus server by a direct
call; nothing else is shared.

Which code runs depends on the build (`motion_build_policy.h`). `MotorExecutor`
models the operations the bench, AutoTarget and scope-test builds use. In the
force-servo and BUILD firmware `MotorExecutor_Start` returns INVALID before it
does anything, and the segment operations of `BuildExecutor` take its place; the
stop timer, bridge, Service, GuardOutput and Disable stay.

## Modules

- `BoundedDrive`: what the executor promises. A drive belongs to an accepted
  request, in its direction, at most once, never from one direction straight
  into the other; and it ends.
- `MotorExecutor`: executor, timer and bridge. The main loop runs an operation
  in one step per access that the interrupt can race with (`pc` names the next
  one); `TIM5_IRQHandler` may come between any two and is atomic, because nothing
  preempts it. `Tick` advances the counter and raises the compare and update
  flags. `Shutdown` is the pair that ends every path, output off and then timer
  cancelled, in two steps. The faults (`drop`, `surge`, `stuck`, `overcapture`,
  `apply`) are the ones the code tests for; each may strike at any step, any number
  of times. `astray` remembers that the bridge has driven or stayed on by itself
  (`surge`, `stuck`): no software can time such a drive, so the properties about
  timed drives end there, and only there. `MotorStopTimer_Cancel` is one step,
  although it is seven register writes: after the first, DIER = 0, no interrupt
  can be raised that its end would not discard.
- `MCMotorExecutor`: its instances: two requests of different length and margin
  and one that Start refuses.
- `MotorExecutorProofs`, `MotorCalmProofs`: the theorems about it; the second holds
  what needs a main loop that is in time.
- `ModbusServer`: the server, operation by operation, over numbered frames. A
  frame is accepted when none of its bytes is spoilt, so CRC collisions are left
  out. The registers' contents are abstracted: every request leaves one answer.
- `ModbusPort` (EXTENDS `ModbusServer`): link, driver and ring, the three
  interrupts of USART2 and the line. Main takes one step per access to what the
  interrupts share: the ring and flags are drained with the interrupt masked, DE
  is raised, the receive is aborted, the transmission is begun, `transmit_active`
  is set, and an interrupt may come between any two. `ServoBuild` selects the
  second, early STOP service of the servo firmware.
- `ModbusPortProofs`: the theorems about it.
- `AutoTarget`: the closed cycle in its loop. `cell` is the context with the
  executor as the machine sees it; each function of `machine.c` is an operator
  from the context before to the context after, and the loop takes one step per
  call. The sample travels interrupt to snapshot to machine. Time stamps are
  kept as ages that saturate at `Cap`; `lag` is how old the iteration's `now_ms`
  is. The pressure is the band of the target it lies in (`Levels`), and where
  the controller computes a pulse from the error the model allows either outcome
  the band permits. A call that asks whether the executor is healthy and then
  starts or disables it has two verdicts (`healthy`, `ok`): the executor may refuse
  what its health allowed, and the machine faults. `restAge` is the age of the rest
  that `SettledDecision` is about: since the output went off, or since START.
- `AutoTargetProofs`, `AutoSettleProofs`: the theorems about it; the second holds
  what needs the order of the time stamps.
- `BuildExecutor`: the segment executor of the BUILD firmware. Each operation
  masks the interrupts, so each is one action, with one action per way it can
  fail; `Lands` is the TIM5 event raised inside it, which the checks of
  `CommitArm`, `BuildPulse` and `RenewLease` find or miss as in the code. `tim` is
  the timer in its three modes (off, one pulse, lease) as milliseconds left to
  compare and update; `SysTick` and `TimTick` alternate, since both count the same
  milliseconds in different phases. The caller is arbitrary: any operation at any
  time, with the last sample at any age. `fedAge`, `spent` and `quiet` are history
  variables for the properties.
- `BuildExecutorProofs`: the theorems about it.
- `BuildToTarget` (EXTENDS `BuildExecutor`): the machine of that firmware and its
  loop. `pc` names the next call of an iteration; every executor call is the
  executor's action conjoined with what the machine does around it, and TIM5 comes
  between any two. A fault is a step of its own (`FaultStep`) with the place to go
  on in `back`. SysTick advances only between passes: a handler reads the tick once.
- `BuildToTargetProofs`: the theorems about it.
- `PressureReceiver`: the sensor's bytes, the line that loses, changes and adds
  some, `PressureReceiver_ProcessBytes` per byte, and the main loop that copies
  the sample word by word under PRIMASK and dates it with a tick that wraps. The
  exclusive or of the check sum is written out for bytes of two bits.
- `PressureReceiverProofs`: the theorems about it.

The state names of the source are kept. `Docs/Architecture/01_STATE_MACHINE.md`
also describes jogging, COMPLETE and FAULT_RESET; the code has no such
transitions, and neither has the model. The invariants INV-04 to INV-10 of
`02_SAFETY_AND_FAULTS.md` correspond to `MotionOwned` (INV-04), `StopIsBarrier`
with `StopServed` (INV-05), `FaultIsQuiet` (INV-06), `DriveIsTimed` with
`InterruptEndsDrive` (INV-07) and `FreshPressure` (INV-09).

## Runs

| Run | Question | Bounds |
|---|---|---|
| `exec_live` | without hardware faults and with a main loop no later than the margin before the backstop: is there ever a false error, is it a `BoundedDrive`, does every request end | `FairSpec`, 2 requests, now_ms up to 1 ms old, 1 ms inside an operation |
| `exec_faults` | what holds however late main is, also halted for good, with hardware faults | `HaltSpec`, 6 ms inside an operation, past every backstop; all five kinds of fault, anywhere and any number of times |
| `port_noise` | frames, counters, order, STOP and the line under noise | 3 frames of 2 bytes, queue 1, ring 4, 2 line errors |
| `port_live` | is a STOP served and does an answer leave | `FairSpec`, 2 frames, 2 errors, the plain loop |
| `port_driver` | is the driver on while an answer leaves | the smallest instance; see Findings |
| `auto_cycle` | the safety of the cycle | durations of 1 to 3 units, an iteration up to 1 unit, six levels, failures |
| `auto_live` | does the cycle end, is a drive noted | `FairSpec`, three levels, no failures |
| `build_exec` | segments, leases and budgets under an arbitrary caller; does TIM5 alone end a drive when the samples stop | lease 6, sample age up to 1, pulses of 1 and 2, settling 2 and 4, approach total 8, rest 4 |
| `build_target` | who may drive, on what evidence, and for how long without a gain | lease 5, age up to 2, approach total 2, rest 3, no-response 2, STOP, faults and restarts unbounded |
| `build_live` | does an unanswered press end, does a session end when the samples stop | `FairMachineSpec`, no-response 2 |
| `build_jump` | is the first pulse after a braked approach admitted | settling 2, sample age up to 1; see Findings |
| `receiver` | is a clean frame always published, is a delivered sample whole and rightly dated | 2 frames, 2 faults, a tick that wraps at 3, a pass of 1 ms |

Why these bounds are enough. A second request is where a completion, flag or
count left by the first would show; the durations differ so that normal end,
backstop and main's own check fall into different ticks; `MaxElapsed` = 6 lies
beyond the longest backstop plus the lag, and `elapsed` is only compared with a
backstop. Three frames fill a queue of one with a STOP latched and both answer slots
taken; two bytes per frame have a first and a last byte, and the ring of four
holds three, so it overflows between drains. In `auto_cycle` every limit is
longer than one iteration, `Cap` lies above every limit plus two iterations
(`TimeAssumption`), and the levels leave one member per band on the side that
approaches and one that releases; hold, release, a second contact, a backstop
and each time limit are reached, and the limits stated in `BudgetHolds` and
`FreshPressure` are tight. `auto_live` drops the levels and failures that only
add ways into FAULT.

In `build_exec` the two pulse widths and two settling times make the end of a
pulse, of its brake and of the lease fall in either order, the approach total is
longer than the lease, so the budget and the lease each can end an approach, and
the rest is shorter than both, so budgets are earned back. In `build_target`
`Settles` = {1} lies below the sample age of 2, on purpose: in the firmware the
settling of 30 ms is longer than the 20 ms a sample may be old, so a settled pulse
has always been followed by its sample and `PulseNeedsEvidence` would follow from
the settling alone; here it needs the answer. The no-response time of 2 is over in
the first press, so that STOP, fault, cooling and a new START come before and
after the limit. `build_jump` has the firmware's order again (settling 2, age 1).
Two frames and two faults in `receiver` are a broken frame before a clean one,
with a lost byte that leaves a false header in its payload; a payload of two bytes
has one that looks like a header and one that does not, and a byte of two bits
keeps header, marker, and the exclusive-or check sum, including its collisions.
`TickRange` = 3 wraps in every behaviour and is longer than two passes, as 2^32 is.

No counter of the BUILD modules is cut off by a bound: times saturate at the
constant the code compares them with (`SettleCap`, `StaleAge`, `FullRest`), and
the sequences that only grow (samples, requests) are kept as "accepted", "used".

Fairness. The main loop never blocks (`for (;;)`, no waiting), so its steps are
weakly fair; an enabled interrupt is taken, the clock ticks and HAL ends a
transmission. Service and Guard are strongly fair in `MotorExecutor`: a loop
iteration takes at most one command before it comes to them, while the model
lets any number of commands arrive. Nothing obliges the machine to start a
request, the master to send, or the sensor to publish. `HaltSpec` drops the main
loop's fairness altogether, and so does `BuildExecutor` (`Clock`: only SysTick,
TIM5 and its interrupt are fair). In `FairMachineSpec` the loop is weakly fair,
and SysTick strongly, because in the model it advances only where main stands
between two passes, a place main leaves and comes back to: a real SysTick is not
held back by where main is. Neither specification obliges a sample to arrive.

Deadlock is checked in every run; no cfg turns it off.

Each property has a mutant: a definition changed as a plausible mistake would
change it (marked `Mutant:` in the module, just above the definition it
replaces), under which the same run is violated.

## Findings

`port_driver`. `modbus_uart2.c:53-55` explains that the receive is aborted
before transmitting because "Leaving the one-byte RX interrupt armed can raise a
UART error and drop DE before the response has finished transmitting." But
`ModbusRtuLink_Service` raises DE before it calls `StartTransmit`
(`modbus_rtu_link.c`, lines 47 and 48), so the receive is armed between the two.
An error interrupt in that window drops DE; the abort and the transmission then
succeed, and the answer leaves with the driver off. The error event completes
the answer in the next iteration and the master must repeat its request. Without
line errors every answer leaves whole (`AnswersLeaveWhole`), and the port
recovers in every case (`AnswerLeaves`, `LineHandedOver`).

`build_jump`. `Docs/BuildToTarget3_SourcePort1/HANDOFF.md:7` says "Source
large-rise reduction/glitch/settling behavior is preserved rather than replaced by
the removed25 N Fault." When the pressure jumps during the approach, the source
brakes, waits, and goes on with pulses. Here that brake is
`MotorExecutor_EndBuildSegment`, which marks the segment as waiting for its answer
(`s_build.post_pending`, `motor_executor_real.c:52`), while the machine's own flag
is set for pulses only (`force_build_machine.c:226`). No sample is ever passed to
`MotorExecutor_AcceptBuildPost`, so the first pulse after the pause is refused at
`motor_executor_real.c:1246` and the session ends in a fault
(MOTOR_REQUEST_REJECTED). The output is off and a new START works; the behaviour
the document promises does not happen.

## Proofs

`MotorExecutorProofs` proves for every set of requests, every bound and every
set of faults, from `RequestsAssumption` and `BoundsAssumption` alone, that every
behaviour of `Spec` satisfies `TypeOK` (`TypeCorrect`), `DriveIsTimed`
(`TimedDrive`), `DriveEndsOnTime` (`EndsOnTime`), `PendingIsQuiet`
(`QuietHandoff`), `HonestCompletion` (`HonestEvents`) and `CompletionOwed`
(`OwedEvents`) and `FaultIsQuiet` (`QuietFault`), and that it implements
`BoundedDrive` when `Faults` contains neither `surge` nor `stuck` (`Refinement`):
a failed Apply, a lost output and an overcapture are no exceptions.

None of these is inductive. `DriveIsTimed` says that a bridge that is on has an
armed timer, but it does not say why cancelling the timer is safe; that needs the
order of the two halves of a shutdown (`ShutdownInv`: past `off` the bridge is
off, past `cancel` the timer is). `HonestCompletion` needs to know whose event is
in the slot or in Service's local variable (`HandoffInv`), and that Start cannot
meet an old one (`StartInv`: within the window the interrupt is masked and the
slot is empty). `TimerInv` says that a timer that is not armed is masked and has no
flags. `Inv` is their conjunction; one lemma preserves each conjunct, with a step
for each action. `DriveEndsOnTime` adds `CounterInv`: an armed counter is below the
compare or the flag is up. `FaultIsQuiet` adds `FaultInv`: a machine in FAULT is
inside the shutdown that entered it or has ended one since, and where it then
finds the bridge on, the bridge no longer obeys or was disturbed after the guard
that now looks at it, or the one before, began. The refinement maps main's position and the bridge to
the three phases of `BoundedDrive` and needs from `Inv` that a drive starts only
from an accepted request.

`MotorCalmProofs` proves `NoFalseError` (`NoErrorIsFalse`) when `Faults` is empty and
from one assumption more, `Margin`: every request that Start accepts has a backstop later than its
normal duration by more than `MaxLag` and `MaxStall`, the age of `now_ms` and the
time main may spend inside an operation. Without it the property is false, and the
instance of `exec_live` meets it with nothing to spare. The invariant has four
parts: what drives has a healthy timer,
its event or a main that is ending it (`CalmInv`); main is on no path of a failure
(`PathInv`); what main has sampled before the interrupt came is explained by a
waiting event or a request that is over (`SampleInv`); and the three clocks agree:
the executor's age of a request is at most the count of TIM5, the lag and the stall
of Start (`ClockInv`). So main finds the backstop reached only when the timer has
ended the drive before, and the recheck finds the event.

`BuildExecutorProofs` proves, for every lease, age, rest, budget, pulse width and
settling that satisfies `TimesAssumption`, that `TypeOK` (`Typing`), `DriveIsOwned`
(`Ownership`), `SegmentEndsOnTime` (`Punctuality`), `LeaseHolds` (`Freshness`) and
`ApproachBudget` (`Exposure`) hold. Only `DriveIsOwned` is inductive by itself.
That no segment is on at its deadline needs `Timed`: until the event is raised the
compare of TIM5 comes a millisecond before the nearer of the two deadlines,
counted in the phase TIM5 is in. That the feedback is younger than the lease needs
in addition `Fed`: what is left of the lease and the age of the feedback it rests
on never exceed the lease, a sum that RenewLease, the hand-over and each
millisecond preserve. The budget needs `Budgeted`: what the approach has driven and may
still drive is covered by what is reserved, and the verified OFF time never
exceeds the real one. The failure paths are proved once: `FailuresCut` shows that each of
them is one kind of cut-off, and `StepKinds` that every step is one of a few kinds.

`BuildToTargetProofs` carries these over: `MachineCalls` shows that every step of
the loop is a step of `BuildExecutor` or leaves it alone (`Calls`), so the machine
is one of the arbitrary callers the executor's theorems are about
(`MachineIsBounded`). `DriveIsGranted` (`Granted`) needs `Standing`: while a START
waits, the grant stands and the output is off; a decision is only reached in a
session that presses, and a session that presses is granted. It uses no
assumption about the constants.

From `TimesAssumption` and `MachineTimesAssumption` it also proves
`MachineTypeOK` (`MachineTyped`) and the two action properties about pulses.
`PulseNeedsEvidence` (`Evidenced`) needs `Evidence`: `b->post_pending` (`owed`) is
set while a pulse runs and until its answer, the executor's own `post_pending`
holds as long, and a sample that is fresh and not older than the end of the pulse
has been noted. The last is not about two counters only: both saturate, so a sample
from before the pulse ended will one day look as old as the end, and only that
it is no longer fresh tells the two apart. BeginBuild clears the executor's flag,
and the proof needs that no START is accepted while `owed` stands.
`NoPulseUnanswered` (`Unrefunded`) needs `Metered`: the driving since the last gain
or full rest is covered by `no_response_ms` and what Account has still to add,
and between CheckPressureSafety and a decision the count has room. sync_epoch
clears the count when it sees a new exposure epoch; that this refunds nothing
follows because an epoch only changes when the bridge has really been OFF for a
full rest (`RestIsReal`, from `Budgeted`), and a change that no step of the machine
has seen yet is only possible while nothing drives.

`AutoTargetProofs` proves, from `TimeAssumption` and `LevelAssumption`, that
`TypeOK` (`Types`), `MotionOwned` (`OwnsMotion`), `FreshPressure` (`StaysFresh`),
`BudgetHolds` (`KeepsBudget`) and `BadEndFaults` (`FaultsBadEnds`) hold of the
cycle. Each function of `machine.c` has a lemma that says what it makes of a
context that is `Whole`: the executor's request, its event and the machine's state
agree. `MotionOwned` lacks two parts of that: a drive that runs or has an event has
no completion yet, and a motion state whose drive has ended has one.
`FreshPressure` and `BudgetHolds` bound an age at any time, but the machine
compares it only at its safety check and with the time its iteration began.
`Fresh` and `Budgeted` bound the age as the machine sees it, `Age(a)`, which time
leaves as it is; where an iteration has not yet made its check, `Slack` stands for
the lag of the iteration before. A bad end stays one until it is classified,
because `Sound` excludes a bad event together with a good completion.

`AutoSettleProofs` proves `SettledDecision` (`DecidesSettled`) from the same
assumptions. Three stamps must be in order: when the rest began (the output went off,
or START was accepted), when the gate opened, when the sample was taken. `Settling`
relates each to the age of the rest: the delay is dated at most `MaxLag` before it, the gate opens
`SettleDelay` later, and a hold rests on a sample taken after the gate; a saturated
age is above all of them. A hold decides on the next sample and not on the one it
rests on, so `Ordered` is needed too: samples reach the machine in the order they
were taken. The lemmas say of each function of `machine.c` that it dates the
delay with its own iteration or leaves the stamp alone (`Timed`).

`ModbusPortProofs` proves, from `ServerAssumption` and `PortAssumption`, all that
the runs check of the port's safety, for every number and length of frames, every
queue and ring and every number of line errors: `TypeOK` (`TypeCorrect`),
`NoFrameLost` (`NoFrameIsLost`), `Accounted` (`RequestsAccounted`),
`AnswersInOrder` (`AnswersOrdered`), `StopIsBarrier` (`StopBarrier`),
`LineHandedOver` (`HandsLineOver`) and `AnswersLeaveWhole` (`AnswersWhole`). The
first half is about streams of bytes alone: what `DropFront` and a new byte do to
the frames that lie whole in a stream, and that no frame opens inside another
(`OpensAlone`), so that a dropped byte costs at most the frame it opens. `Stream`
is what is between the interrupt and the server, `rx_buffer`, ServiceMain's bytes
and the ring in one; main only takes from its front, the interrupt adds to its
end. `NoFrameLost` and the order both need `StreamInv`: the stream is in the
order of the line and newer than what was extracted, and what ends it is as much
of a frame as `run` says. From it an extracted frame is newer than every other
(`NewerFrame`), and `OrderInv` follows: what waits is newer than what was
executed, and the answer in the priority slot is newer than the one in front of it.
`AnswersLeaveWhole` needs `QuietInv`: without line errors `transmit_active` covers
the transmission and its event, so the line is claimed, and the answer released,
only when HAL is done.

`PressureReceiverProofs` proves `CleanFrameArrives` (`CleanFramesArrive`) and
`SampleIsTrue` (`SamplesAreTrue`) from `BoundsAssumption`. The first rests on
`LineInv`: while a frame arrives whole, the receiver's frame ends in what has
arrived of it. Resynchronization keeps that, because it goes on from the first
header behind the one in front and the clean frame's own header is such a one
(`EndsStay`); after four bytes nothing else fits into the receiver's frame, so
the fifth completes it. Nothing is assumed of the check sum but that it is a byte.
The second needs that a sample which main has not copied yet is no older than main's
pass (`SnapshotInv`), and that while main copies nothing is published
(`CopyInv`): a sample to be delivered is then at most two passes old, which the
difference of two readings of a wrapping tick represents (`Ages`).

Every safety property that a passing run checks is thus proved, `NoFalseError` under
`Margin`. Only model-checked is what the prover cannot express: the liveness
properties (`InterruptEndsDrive`, `RequestEnds`, `StopServed`, `AnswerLeaves`,
`CycleEnds`, `MotionEnds`, `FeedbackLossEndsDrive`, `UnansweredPressEnds`,
`SilenceEndsSession`), which rest on fairness and ENABLED.

## Not modelled

The values of the registers, the Modbus CRC and the PWM; floating-point control:
what ForcePi and the pulse decision compute from the pressure is a choice within
their control; the boot, which runs before the loop; the locked executor, which
refuses everything; the continuous executor of the other servo firmware. In
`MotorExecutor` and `AutoTarget` the millisecond tick does not wrap.

In `AutoTarget` too high a pressure is always corrected. The branch of
Machine_ClassifySettledSample and Machine_ClassifyHoldSample that holds instead
(`machine.c:918-926` and `951-953`) is never taken, because
`bench_release_correction_enabled` is set (`auto_target_config.c:23`) and START
requires `force_pi_enabled` (`machine.c:1182`). Left out are the faults of
Machine_ObserveForcePi: they need a number that is not finite, or two samples more
than a second apart (`maximum_dt_s`, five times the freshness limit), which an
iteration of more than a second would be needed for.

In `BuildExecutor` the bridge obeys: its failures, and those of GuardOutput, are
in `MotorExecutor`, on the same code. An operation that is refused as
MOTOR_RESULT_INVALID changes nothing and is not a step. `Service` and
`GuardOutput` without a pending event do nothing as long as `DriveIsOwned`
holds, which is proved. The update event of a pulse, its hardware backstop, is
never reached, because the compare interrupt of the millisecond before is served
in time; that the interrupt can be late is `MotorExecutor`'s. In `BuildToTarget`
left out are the PID diagnostic, the published registers, the target of 3000,
which may be met exactly without a fault, and samples that are bad or out of
order, which fault at once; the check of Tick that ForceBuildMachine_Service
repeats is the one of Safety in the same step, and the plan is armed again before
each START.

The receiver's counters and its Reinitialize, which runs once at boot, are left out.

More than nine tenths of `src/` is vendored: the HAL, the CMSIS headers of every
STM32F4 device, FreeRTOS. What the firmware relies on in them is modelled where it
is used. `PROJECT.json` gives the reason for each component, and the hazards
without a property have a note.

## Plan

1. Direct pulses and the press-boost ladder in the AutoTarget firmware.
2. The continuous executor, over the lease timer of `BuildExecutor`.
3. Composition: `AutoTarget` over `BoundedDrive` as an instance, so that the
   executor it sees is the one `MotorExecutor` implements; the server's STOP
   barrier and the machine in one loop.
4. Proofs: that the machine of `AutoTarget` starts and ends drives as
   `BoundedDrive` allows, once 3 composes the two.
