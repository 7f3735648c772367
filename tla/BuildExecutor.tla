---------------------------- MODULE BuildExecutor ----------------------------
(***************************************************************************)
(* The BUILD segment executor: the operations of                           *)
(* Board/Motor/motor_executor_real.c that the BUILD_TO_TARGET firmware     *)
(* drives the motor with, and the TIM5 modes they use.  A session owns the *)
(* bridge and alternates forward pulses with a brake: the pulse runs under *)
(* a one-pulse timer, the interrupt that ends it turns the bridge to BRAKE *)
(* and the same timer, never stopped, into a lease that only a new         *)
(* pressure sample renews.  An approach drives forward under the lease.    *)
(*                                                                         *)
(* Every operation masks interrupts, so it is one action here; the TIM5    *)
(* event that is due in the current millisecond may still be raised inside *)
(* it (Lands).  The caller is arbitrary: any operation, at any time, with  *)
(* the last delivered sample, of any age.  Times are kept as milliseconds  *)
(* left until a deadline or passed since an event, saturating.             *)
(***************************************************************************)
EXTENDS Integers

CONSTANTS
  Lease,          \* FORCE_SERVO_COMMISSIONING_LEASE_MS
  MaxAge,         \* FORCE_SERVO_COMMISSIONING_AGE_MS
  FullRest,       \* g_force_build_config.full_rest_ms
  ApproachTotal,  \* g_force_build_config.approach_total_ms
  Normals,        \* the normal_ms a pulse may ask for; its hard_ms is one more
  Settles,        \* the settle_ms a segment may ask for
  SettleCap       \* bound: the age of the last segment end saturates here

ASSUME TimesAssumption ==
  /\ Lease \in Nat /\ MaxAge \in Nat /\ MaxAge + 1 < Lease
  /\ FullRest \in Nat \ {0}
  /\ ApproachTotal \in Nat
  /\ Normals \subseteq Nat \ {0}
  /\ Settles \subseteq Nat
  /\ SettleCap \in Nat /\ MaxAge < SettleCap
  /\ \A s \in Settles : s <= SettleCap

VARIABLES
  out,         \* the bridge: "OFF", "PRESS" or "BRAKE"
  tim,         \* TIM5: [mode, compare, update, flags, behind], see Stopped
  seg,         \* s_build.segment_active
  brake,       \* s_build.preload_active, "the legacy slot" of the brake
  mode,        \* s_build.mode: "COARSE" (approach) or "PULSE" (MICRO, FINE)
  deadline,    \* ms to s_build.deadline_ms, the hard end of the segment
  receive,     \* ms to s_build.receive_deadline_ms, the end of the lease
  ended,       \* ms since s_build.ended_ms
  settle,      \* s_build.settle_ms
  reason,      \* s_build.end_reason
  post,        \* s_build.post_pending: no sample since the segment ended yet
  open,        \* s_build_open: a session owns the bridge
  active,      \* s_motor.logical_active
  action,      \* s_motor.last_action
  event,       \* the pending completion event, or "NONE"
  haveSeq,     \* s_build_have_sequence
  rest,        \* [required, reserved, approach, epoch]: the exposure budgets
  offFor,      \* ms of verified OFF, or NotOff (s_build_off_at, _off_verified)
  sampleAge,   \* age of the caller's last pressure sample
  sampleFed,   \* that sample has been accepted by Refresh or Start
  sampleUsed,  \* that sample has started a segment
  fedAge,      \* history: age of the newest sample accepted
  spent,       \* history: ms of approach drive since the last full rest
  quiet        \* history: ms the bridge has really been OFF

hardware == <<out, tim>>
segment  == <<seg, brake, mode, deadline, receive, ended, settle, reason>>
owner    == <<post, open, active, action, event, haveSeq>>
budget   == <<rest, offFor>>
sample   == <<sampleAge, sampleFed, sampleUsed>>
watch    == <<fedAge, spent, quiet>>
machinery == <<hardware, segment, owner, budget, sample, watch>>

NotOff == -1
StaleAge == MaxAge + 1
Reasons == {"NONE", "NORMAL", "REDUCED", "STOP", "DEADLINE", "HARDWARE"}
Events == {"NONE", "BACKSTOP", "ERROR"}
Segments ==
  [mode : {"COARSE"}, normal : {0}, settle : Settles]
    \cup [mode : {"PULSE"}, normal : Normals, settle : Settles]

Least(x, y) == IF x < y THEN x ELSE y
Sooner(left) == IF left > 0 THEN left - 1 ELSE 0

-----------------------------------------------------------------------------
(* TIM5.  compare and update are ms until the event, 0 when none is to     *)
(* come; behind says that the millisecond SysTick last counted has not yet *)
(* passed on TIM5, whose phase is that of the operation that set compare.  *)

\* MotorStopTimer_Cancel.
Stopped ==
  [mode |-> "off", compare |-> 0, update |-> 0, flags |-> {}, behind |-> FALSE]

\* MotorStopTimer_Arm and MotorStopTimer_BuildPulse: one pulse, cut at normal
\* by the compare event and at hard by the update event.
PulseTimer(normal) ==
  [mode |-> "pulse", compare |-> normal, update |-> normal + 1,
   flags |-> {}, behind |-> FALSE]

\* Mutant: the compare is set on the logical deadline instead of ahead of it.
LeaseTimerOnTime(remaining) ==
  [mode |-> "lease", compare |-> remaining, update |-> 0,
   flags |-> {}, behind |-> FALSE]

\* MotorStopTimer_ArmLease, _RenewLease and _BuildHandoff: the free-running
\* compare, one millisecond ahead of the logical deadline.
LeaseTimer(remaining) ==
  [mode |-> "lease", compare |-> remaining - 1, update |-> 0,
   flags |-> {}, behind |-> FALSE]

IsArmed == tim.mode # "off" /\ "UIF" \notin tim.flags

\* Mutant: only the update interrupt is enabled.
RaisedUpdateOnly == tim.flags \cup (IF tim.update = 1 THEN {"UIF"} ELSE {})

\* The status register after this millisecond of TIM5.
Raised ==
  tim.flags \cup (IF tim.compare = 1 THEN {"CC1"} ELSE {})
            \cup (IF tim.update = 1 THEN {"UIF"} ELSE {})

\* The event of this millisecond is raised while main is inside an operation.
Lands == tim.mode # "off" /\ tim.behind /\ tim.flags = {} /\ Raised # {}

-----------------------------------------------------------------------------
(* Budgets: verified OFF time, the rest it earns, what a segment reserves. *)

\* MotorExecutor_BuildConfirmOff.
ConfirmedOff ==
  IF out # "OFF" THEN NotOff ELSE IF offFor = NotOff THEN 0 ELSE offFor

\* MotorExecutor_BuildRefreshRest: what a full uninterrupted OFF time resets.
RestOver ==
  /\ ~seg /\ ~brake /\ out = "OFF"
  /\ rest.required \/ rest.reserved
  /\ ConfirmedOff >= FullRest
Rested ==
  IF RestOver
  THEN [required |-> FALSE, reserved |-> FALSE, approach |-> 0,
        epoch |-> 1 - rest.epoch]
  ELSE rest

-----------------------------------------------------------------------------
(* Ends of a segment.                                                      *)

\* The bridge goes OFF, the timer is cancelled, ownership is revoked.
Shut ==
  /\ out' = "OFF"
  /\ tim' = Stopped
  /\ seg' = FALSE
  /\ brake' = FALSE
  /\ deadline' = 0
  /\ receive' = 0
  /\ open' = FALSE
  /\ offFor' = IF offFor = NotOff THEN 0 ELSE offFor
  /\ ended' = IF seg THEN 0 ELSE ended

\* Mutant: a cut-off that leaves no completion behind.
LatchNothing(e) == event' = event

\* MotorExecutor_LatchCompletion, unless an event is already pending.
Latch(e) == event' = IF event = "NONE" THEN e ELSE event

\* elapsed > hard_ms in MotorExecutor_BuildRecordPulseEnd.
Overran == seg /\ deadline = 0

\* MotorExecutor_BuildRecordOff for a reason that revokes ownership.
RecordOff(why, budgets) ==
  /\ reason' = IF Overran \/ (brake /\ reason = "DEADLINE") THEN "DEADLINE"
               ELSE IF seg \/ brake THEN why
               ELSE reason
  /\ post' = (post \/ seg)
  /\ rest' = [budgets EXCEPT !.required = @ \/ Overran]

\* The cut-off the failure paths share: DisableImmediate, RecordOff, Cancel and
\* LatchCompletion.
CutOff(why, e, budgets) ==
  /\ Shut
  /\ Latch(e)
  /\ RecordOff(why, budgets)
  /\ UNCHANGED <<mode, settle, active, action, haveSeq, sample, fedAge, spent, quiet>>

\* MotorExecutor_BuildFinishPulse may hand over: owned, in time, and the lease
\* that BuildHandoff or RenewLease is given leaves at least two milliseconds.
CanHandOver ==
  /\ open /\ seg /\ event = "NONE" /\ out = "PRESS"
  /\ deadline > 0
  /\ receive > 1

\* MotorExecutor_BuildFinishPulse: the bridge brakes, the timer runs on as the
\* lease of the last sample, and that sample's successor is owed.
HandOver(why) ==
  /\ out' = "BRAKE"
  /\ tim' = LeaseTimer(receive)
  /\ seg' = FALSE
  /\ brake' = TRUE
  /\ deadline' = 0
  /\ ended' = 0
  /\ reason' = why
  /\ post' = TRUE
  /\ action' = "BRAKE"
  /\ UNCHANGED <<mode, receive, settle, open, active, event, haveSeq, budget,
                 sample, fedAge, spent, quiet>>

-----------------------------------------------------------------------------
(* The TIM5 interrupt.                                                     *)

\* The normal compare of a pulse; any other event of a running timer is the
\* end of a lease or of the hard time.
NormalEnd == seg /\ mode = "PULSE" /\ "UIF" \notin tim.flags

\* MotorExecutor_StopTimerExpiredFromIsr: a normal end becomes a brake.
IrqHandsOver ==
  /\ tim.flags # {}
  /\ NormalEnd /\ CanHandOver
  /\ HandOver("NORMAL")

\* Every other event, and a hand-off that fails, turns the bridge off.
IrqCutsOff ==
  /\ tim.flags # {}
  /\ ~(NormalEnd /\ CanHandOver)
  /\ CutOff("DEADLINE", IF NormalEnd THEN "ERROR" ELSE "BACKSTOP", rest)

Irq == IrqHandsOver \/ IrqCutsOff

\* What MotorStopTimer_IrqHandler latches when CommitArm or RenewLease finds the
\* event pending and runs it inside main's operation, which then cuts off: a
\* normal end hands over and latches nothing, so the caller latches its error.
InlineEvent == IF NormalEnd THEN "ERROR" ELSE "BACKSTOP"

-----------------------------------------------------------------------------
(* Time.  The two clocks alternate; an event is served before its          *)
(* millisecond is over, since no masked section is that long.              *)

SysTick ==
  /\ tim.flags = {}
  /\ ~tim.behind
  /\ tim' = [tim EXCEPT !.behind = tim.mode # "off"]
  /\ deadline' = Sooner(deadline)
  /\ receive' = Sooner(receive)
  /\ ended' = Least(ended + 1, SettleCap)
  /\ offFor' = IF offFor = NotOff THEN NotOff ELSE Least(offFor + 1, FullRest)
  /\ sampleAge' = Least(sampleAge + 1, StaleAge)
  /\ fedAge' = Least(fedAge + 1, Lease)
  /\ quiet' = IF out = "OFF" THEN Least(quiet + 1, FullRest) ELSE 0
  /\ spent' = IF quiet' = FullRest THEN 0
              ELSE IF out = "PRESS" /\ mode = "COARSE"
              THEN Least(spent + 1, ApproachTotal + 1)
              ELSE spent
  /\ UNCHANGED <<out, seg, brake, mode, settle, reason, owner, rest, sampleFed,
                 sampleUsed>>

TimTick ==
  /\ tim.behind
  /\ tim' = [tim EXCEPT !.compare = Sooner(@), !.update = Sooner(@),
                        !.flags = Raised, !.behind = FALSE]
  /\ UNCHANGED <<out, segment, owner, budget, sample, watch>>

-----------------------------------------------------------------------------
(* The caller: a new sample, and the operations of motor_executor.h.       *)

\* The application takes over a newer sample, received age milliseconds ago.
Deliver(age) ==
  /\ age <= sampleAge
  /\ sampleAge' = age
  /\ sampleFed' = FALSE
  /\ sampleUsed' = FALSE
  /\ UNCHANGED <<hardware, segment, owner, budget, fedAge, spent, quiet>>

\* MotorExecutor_GetBuildSnapshot.
Snapshot ==
  /\ rest' = Rested
  /\ offFor' = ConfirmedOff
  /\ UNCHANGED <<hardware, segment, owner, sample, watch>>

CanBegin ==
  /\ ~Rested.required
  /\ ~open /\ ~active /\ event = "NONE"
  /\ out = "OFF" /\ ~IsArmed

\* MotorExecutor_BeginBuild, when it succeeds; refused, it is a Snapshot.
Begin ==
  /\ CanBegin
  /\ open' = TRUE
  /\ haveSeq' = FALSE
  /\ post' = FALSE
  /\ rest' = Rested
  /\ offFor' = ConfirmedOff
  /\ UNCHANGED <<hardware, segment, active, action, event, sample, watch>>

\* MotorExecutor_IsHealthy, with ActiveRequestIsValid for a BUILD action.
IsHealthy ==
  IF active /\ event = "NONE"
  THEN /\ open /\ IsArmed
       /\ \/ brake /\ out = "BRAKE"
          \/ seg /\ ~brake /\ out = "PRESS"
  ELSE out = "OFF" /\ ~IsArmed

(* MotorExecutor_StartBuildSegment: from OFF, from the brake, or from the    *)
(* approach to the first pulse without going OFF.                            *)

FromApproach(r) == seg /\ mode = "COARSE" /\ r.mode = "PULSE"
Continues(r) == brake \/ FromApproach(r)

\* Mutant: the answer to the last segment is not waited for.
StartableUnanswered(r) ==
  /\ open
  /\ seg => FromApproach(r)
  /\ active => Continues(r)
  /\ event = "NONE"
  /\ haveSeq => ~sampleUsed

\* Otherwise it is refused as MOTOR_RESULT_INVALID and changes nothing.
Startable(r) ==
  /\ open
  /\ seg => FromApproach(r)
  /\ active => Continues(r)
  /\ event = "NONE"
  /\ ~post
  /\ haveSeq => ~sampleUsed

Unfit == Rested.required \/ sampleAge > MaxAge \/ ~IsHealthy

Untimely(r) ==
  \/ receive = 0 /\ Continues(r)
  \/ brake /\ (ended < settle \/ r.mode = "COARSE")
  \/ FromApproach(r) /\ deadline = 0
  \/ r.mode = "PULSE" /\ r.normal + 1 >= Lease - sampleAge

\* The approach reserves all that is left of its budget, and needs 2 ms of it.
Available == ApproachTotal - Rested.approach

Exhausted(r) == r.mode = "COARSE" /\ Available < 2

Hard(r) == IF r.mode = "COARSE" THEN Available ELSE r.normal + 1

\* Mutant: the approach is not charged to its own budget.
ReserveUncharged(r) == [Rested EXCEPT !.reserved = TRUE]
Reserve(r) ==
  [Rested EXCEPT !.reserved = TRUE,
                 !.approach = IF r.mode = "COARSE" THEN @ + Hard(r) ELSE @]

StartOK(r) ==
  /\ Startable(r)
  /\ ~Unfit /\ ~Untimely(r) /\ ~Exhausted(r)
  /\ tim.flags = {}
  /\ out' = "PRESS"
  /\ tim' = IF r.mode = "COARSE"
            THEN LeaseTimer(Least(Lease - sampleAge, Hard(r)))
            ELSE PulseTimer(r.normal)
  /\ seg' = TRUE
  /\ brake' = FALSE
  /\ mode' = r.mode
  /\ deadline' = Hard(r)
  /\ receive' = Lease - sampleAge
  /\ ended' = IF seg THEN 0 ELSE ended
  /\ settle' = r.settle
  /\ reason' = "NONE"
  /\ active' = TRUE
  /\ action' = "SEGMENT"
  /\ haveSeq' = TRUE
  /\ rest' = Reserve(r)
  /\ offFor' = NotOff
  /\ sampleFed' = TRUE
  /\ sampleUsed' = TRUE
  /\ fedAge' = sampleAge
  /\ quiet' = 0
  /\ UNCHANGED <<post, open, event, sampleAge, spent>>

\* A request that must not start: the session is over and an error latched.
StartRejected(r) ==
  /\ Startable(r)
  /\ Unfit \/ (tim.flags = {} /\ Untimely(r))
  /\ CutOff("HARDWARE", "ERROR", Rested)

\* CommitArm finds the end of the lease that was to be continued.
StartExpired(r) ==
  /\ Startable(r)
  /\ ~Unfit /\ tim.flags # {}
  /\ CutOff("DEADLINE", InlineEvent, Rested)

StartExhausted(r) ==
  /\ Startable(r)
  /\ ~Unfit /\ ~Untimely(r) /\ Exhausted(r)
  /\ CutOff("HARDWARE", "ERROR", [Rested EXCEPT !.required = TRUE])

\* The lease ends between CommitArm and BuildPulse, which then refuses; the
\* request is already recorded, and the segment before it already closed.
StartOvertaken(r) ==
  /\ Startable(r)
  /\ ~Unfit /\ ~Untimely(r) /\ Continues(r)
  /\ Lands
  /\ Shut
  /\ Latch("ERROR")
  /\ reason' = "NONE"
  /\ mode' = r.mode
  /\ settle' = r.settle
  /\ action' = "SEGMENT"
  /\ haveSeq' = TRUE
  /\ rest' = Reserve(r)
  /\ sampleFed' = TRUE
  /\ sampleUsed' = TRUE
  /\ UNCHANGED <<post, active, sampleAge, fedAge, spent, quiet>>

StartFails(r) ==
  StartRejected(r) \/ StartExpired(r) \/ StartExhausted(r) \/ StartOvertaken(r)

(* MotorExecutor_RefreshBuildFeedback.                                       *)

Refreshable ==
  /\ open /\ event = "NONE"
  /\ sampleAge <= MaxAge
  /\ haveSeq => ~sampleFed

\* Only the brake and the approach hold a lease that feedback renews.
Leased == brake \/ (seg /\ mode = "COARSE")

\* Mutant: feedback renews the approach past its hard deadline.
NewLeaseUncapped == Lease - sampleAge
NewLease ==
  IF seg THEN Least(Lease - sampleAge, deadline) ELSE Lease - sampleAge

RefreshOK ==
  /\ Refreshable
  /\ IF Leased
     THEN /\ receive > 0 /\ NewLease > 1
          /\ tim.flags = {}
          /\ receive' = NewLease
          /\ tim' = LeaseTimer(NewLease)
     ELSE UNCHANGED <<receive, tim>>
  /\ sampleFed' = TRUE
  /\ fedAge' = sampleAge
  /\ UNCHANGED <<out, seg, brake, mode, deadline, ended, settle, reason, owner,
                 budget, sampleAge, sampleUsed, spent, quiet>>

\* Too late for the lease, or too little left of it.
RefreshTooLate ==
  /\ Refreshable /\ Leased
  /\ receive = 0 \/ NewLease <= 1
  /\ CutOff("DEADLINE", "ERROR", rest)

\* The compare event is pending, or is raised between the read of the counter
\* and the write of the compare: CommitArm finds it and the lease has ended.
RefreshExpired ==
  /\ Refreshable /\ Leased
  /\ receive > 0 /\ NewLease > 1
  /\ tim.flags # {} \/ Lands
  /\ CutOff("DEADLINE", InlineEvent, rest)

RefreshFails == RefreshTooLate \/ RefreshExpired

(* MotorExecutor_EndBuildSegment: main ends a segment before its time.       *)

Endable == open /\ seg /\ event = "NONE"
PastEnd == deadline = 0 \/ receive = 0

EndOK ==
  /\ Endable
  /\ tim.flags = {} /\ ~PastEnd
  /\ CanHandOver
  /\ HandOver("REDUCED")

\* The end of the segment is already pending: no reduction, and a full rest.
EndTooLate ==
  /\ Endable
  /\ tim.flags # {} \/ PastEnd
  /\ CutOff("DEADLINE", IF tim.flags # {} THEN InlineEvent ELSE "ERROR",
            [rest EXCEPT !.required = TRUE])

\* BuildFinishPulse fails: the event is raised before the timer is handed over,
\* or the lease is too short.
EndOvertaken ==
  /\ Endable
  /\ tim.flags = {} /\ ~PastEnd
  /\ Lands \/ ~CanHandOver
  /\ CutOff("DEADLINE",
            IF Lands /\ mode = "COARSE" THEN "BACKSTOP" ELSE "ERROR", rest)

EndFails == EndTooLate \/ EndOvertaken

(* MotorExecutor_AcceptBuildPost: the answer to the last segment.            *)

Answers ==
  /\ open /\ post /\ ~seg
  /\ active => brake
  /\ event = "NONE"
  /\ reason \in {"NORMAL", "REDUCED"}
  /\ ~sampleUsed
  /\ sampleAge <= MaxAge /\ sampleAge <= ended
  /\ IsHealthy
  /\ brake => receive > 0

AcceptPost ==
  /\ Answers
  /\ brake => tim.flags = {}
  /\ post' = FALSE
  /\ UNCHANGED <<hardware, segment, open, active, action, event, haveSeq, budget,
                 sample, watch>>

\* CommitArm finds the end of the brake's lease.
AcceptExpired ==
  /\ Answers /\ brake
  /\ tim.flags # {}
  /\ CutOff("DEADLINE", InlineEvent, rest)

(* MotorExecutor_Disable and MotorExecutor_Service.                          *)

Disable ==
  /\ Shut
  /\ RecordOff("STOP", rest)
  /\ active' = FALSE
  /\ action' = "DISABLED"
  /\ event' = "NONE"
  /\ UNCHANGED <<mode, settle, haveSeq, sample, fedAge, spent, quiet>>

\* MotorExecutor_PublishCompletion: is this completion an error for Service?
BadCompletion ==
  event = "ERROR" \/ (action = "SEGMENT" /\ reason = "DEADLINE")

\* MotorExecutor_Service with an event pending: it is consumed.  With none, and
\* DriveIsOwned, Service and GuardOutput find nothing to do.
Service ==
  /\ event # "NONE"
  /\ Shut
  /\ RecordOff("DEADLINE", rest)
  /\ event' = "NONE"
  /\ active' = FALSE
  /\ UNCHANGED <<mode, settle, action, haveSeq, sample, fedAge, spent, quiet>>

-----------------------------------------------------------------------------
(* The specification.                                                      *)

\* MotorExecutor_Initialize: a reboot is no proof that the motor has cooled.
Init ==
  /\ out = "OFF"
  /\ tim = Stopped
  /\ seg = FALSE /\ brake = FALSE /\ mode = "NONE"
  /\ deadline = 0 /\ receive = 0
  /\ ended = SettleCap
  /\ settle = 0
  /\ reason = "NONE"
  /\ post = FALSE /\ open = FALSE /\ active = FALSE
  /\ action = "DISABLED"
  /\ event = "NONE"
  /\ haveSeq = FALSE
  /\ rest = [required |-> TRUE, reserved |-> FALSE, approach |-> 0, epoch |-> 0]
  /\ offFor = 0
  /\ sampleAge = StaleAge /\ sampleFed = FALSE /\ sampleUsed = FALSE
  /\ fedAge = Lease
  /\ spent = 0
  /\ quiet = 0

Start == \E r \in Segments : StartOK(r) \/ StartFails(r)
Refresh == RefreshOK \/ RefreshFails
End == EndOK \/ EndFails
Accept == AcceptPost \/ AcceptExpired

Next ==
  \/ SysTick
  \/ TimTick
  \/ Irq
  \/ \E age \in 0 .. StaleAge : Deliver(age)
  \/ Snapshot
  \/ Begin
  \/ Start
  \/ Refresh
  \/ End
  \/ Accept
  \/ Disable
  \/ Service

\* Time and the interrupt are fair; main may halt between any two operations.
Clock == WF_machinery(SysTick) /\ WF_machinery(TimTick) /\ WF_machinery(Irq)

Spec == Init /\ [][Next]_machinery /\ Clock

-----------------------------------------------------------------------------
(* Properties.                                                             *)

TypeOK ==
  /\ out \in {"OFF", "PRESS", "BRAKE"}
  /\ tim \in [mode : {"off", "pulse", "lease"}, compare : Nat, update : Nat,
              flags : SUBSET {"CC1", "UIF"}, behind : BOOLEAN]
  /\ seg \in BOOLEAN /\ brake \in BOOLEAN
  /\ mode \in {"NONE", "COARSE", "PULSE"}
  /\ deadline \in Nat /\ receive \in Nat
  /\ ended \in 0 .. SettleCap
  /\ settle \in Settles \cup {0}
  /\ reason \in Reasons
  /\ post \in BOOLEAN /\ open \in BOOLEAN /\ active \in BOOLEAN
  /\ action \in {"DISABLED", "SEGMENT", "BRAKE"}
  /\ event \in Events
  /\ haveSeq \in BOOLEAN
  /\ rest \in [required : BOOLEAN, reserved : BOOLEAN, approach : Nat, epoch : 0 .. 1]
  /\ offFor \in {NotOff} \cup 0 .. FullRest
  /\ sampleAge \in 0 .. StaleAge
  /\ sampleFed \in BOOLEAN /\ sampleUsed \in BOOLEAN
  /\ fedAge \in 0 .. Lease
  /\ spent \in 0 .. ApproachTotal + 1
  /\ quiet \in 0 .. FullRest

\* The bridge is enabled exactly while a session's request is active with no
\* completion pending: it is then owned, TIM5 runs, and it drives forward only
\* for an open segment and brakes only for an open brake (the interrupt, the
\* failure paths and Disable each undo all of it; GuardOutput never has to).
DriveIsOwned ==
  /\ out # "OFF" <=> active /\ event = "NONE"
  /\ out # "OFF" => open /\ tim.mode # "off"
  /\ seg <=> out = "PRESS"
  /\ brake <=> out = "BRAKE"

\* No segment is still driving at its hard deadline, whatever samples arrive and
\* whoever ends it: feedback never prolongs a pulse (RefreshBuildFeedback).
SegmentEndsOnTime == out = "PRESS" => deadline > 0

\* The bridge is never enabled on feedback as old as the lease: the newest sample
\* a segment or brake rests on is younger, through every hand-over of the timer.
LeaseHolds == out # "OFF" => fedAge < Lease

\* Since the bridge was last really OFF for a full rest, the approach has driven
\* no longer than its total: neither STOP nor a new session refunds it.
ApproachBudget == spent <= ApproachTotal

\* When samples stop arriving, TIM5 alone turns the bridge off, main halted or
\* not: through the pulse, the hand-over and the lease of the brake.
FeedbackLossEndsDrive ==
  []<><<\E age \in 0 .. StaleAge : Deliver(age)>>_sample \/ []<>(out = "OFF")
=============================================================================
