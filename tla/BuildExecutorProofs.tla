------------------------- MODULE BuildExecutorProofs -------------------------
(***************************************************************************)
(* Proofs about BuildExecutor, for every value of its constants: the types *)
(* of the variables and the safety properties, from one inductive          *)
(* invariant, Inv, of four parts: who owns the drive, what TIM5 has left   *)
(* of the deadlines, how old the feedback is, what the budgets still hold. *)
(***************************************************************************)
EXTENDS BuildExecutor, TLAPS

Rests == [required : BOOLEAN, reserved : BOOLEAN, approach : Nat, epoch : 0 .. 1]
Timers ==
  [mode : {"off", "pulse", "lease"}, compare : Nat, update : Nat,
   flags : SUBSET {"CC1", "UIF"}, behind : BOOLEAN]

\* An enabled bridge is before both of its deadlines, and until the event is
\* raised the compare comes a millisecond before the nearer one.
Timed ==
  out # "OFF" =>
    /\ receive > 0
    /\ seg => deadline > 0
    /\ tim.flags = {} =>
         LET due == tim.compare + (IF tim.behind THEN 0 ELSE 1)
         IN  tim.compare > 0 /\ due <= receive /\ (seg => due <= deadline)

\* What is left of the lease and the age of the feedback it rests on.
Fed ==
  /\ sampleAge <= fedAge
  /\ out # "OFF" => receive + fedAge <= Lease

\* Verified OFF time is real OFF time, and the budget that was reserved covers
\* what the approach has driven and may still drive.
Budgeted ==
  /\ out # "OFF" => offFor = NotOff
  /\ offFor <= quiet
  /\ quiet = FullRest => spent = 0
  /\ rest.approach <= ApproachTotal
  /\ spent + (IF seg /\ mode = "COARSE" THEN deadline ELSE 0) <= rest.approach

Inv == DriveIsOwned /\ Timed /\ Fed /\ Budgeted

\* The three ways a session is cut off, and the two callers of a hand-over.
Cut ==
  \E why \in {"DEADLINE", "HARDWARE"}, e \in {"ERROR", "BACKSTOP"}, b \in Rests :
    CutOff(why, e, b) /\ b.approach \in {rest.approach, Rested.approach}
Handed == CanHandOver /\ \E why \in {"NORMAL", "REDUCED"} : HandOver(why)

-----------------------------------------------------------------------------
(* Helpers.                                                                *)

\* What BuildRefreshRest leaves is a budget of the same shape.
LEMMA RestedType == TypeOK => Rested \in Rests
  BY DEF TypeOK, Rested, Rests

\* A budget that a full OFF time has reset had nothing left to pay for.
LEMMA RestedPays ==
  ASSUME TypeOK, Budgeted
  PROVE  /\ Rested.approach <= ApproachTotal
         /\ ~seg => spent <= Rested.approach
<1>1. CASE RestOver
  <2>1. offFor >= FullRest /\ ~seg
    BY <1>1, TimesAssumption DEF RestOver, ConfirmedOff, TypeOK, NotOff
  <2>2. spent = 0
    BY <2>1, TimesAssumption DEF Budgeted, TypeOK, NotOff
  <2>3. Rested.approach = 0
    BY <1>1 DEF Rested
  <2>4. QED
    BY <2>2, <2>3, TimesAssumption
<1>2. CASE ~RestOver
  BY <1>2, TimesAssumption DEF Rested, Budgeted, TypeOK
<1>3. QED
  BY <1>1, <1>2

\* Every failure path of a step is one and the same cut-off.
LEMMA FailuresCut ==
  ASSUME TypeOK,
         \/ IrqCutsOff
         \/ \E r \in Segments : StartRejected(r) \/ StartExpired(r) \/ StartExhausted(r)
         \/ RefreshFails
         \/ EndFails
         \/ AcceptExpired
  PROVE  Cut
<1>1. rest \in Rests /\ Rested \in Rests
  BY RestedType DEF TypeOK, Rests
<1>2. /\ [Rested EXCEPT !.required = TRUE] \in Rests
      /\ [Rested EXCEPT !.required = TRUE].approach = Rested.approach
      /\ [rest EXCEPT !.required = TRUE] \in Rests
      /\ [rest EXCEPT !.required = TRUE].approach = rest.approach
  BY <1>1 DEF Rests
<1>3. InlineEvent \in {"ERROR", "BACKSTOP"}
  BY DEF InlineEvent
<1>4. CASE IrqCutsOff
  BY <1>1, <1>4 DEF IrqCutsOff, Cut
<1>5. ASSUME NEW r \in Segments, StartRejected(r) PROVE Cut
  BY <1>1, <1>5 DEF StartRejected, Cut
<1>6. ASSUME NEW r \in Segments, StartExpired(r) PROVE Cut
  BY <1>1, <1>3, <1>6 DEF StartExpired, Cut
<1>7. ASSUME NEW r \in Segments, StartExhausted(r) PROVE Cut
  BY <1>2, <1>7 DEF StartExhausted, Cut
<1>8. CASE RefreshFails
  BY <1>1, <1>3, <1>8 DEF RefreshFails, RefreshTooLate, RefreshExpired, Cut
<1>9. CASE EndTooLate
  BY <1>2, <1>3, <1>9 DEF EndTooLate, Cut
<1>10. CASE EndOvertaken
  BY <1>1, <1>10 DEF EndOvertaken, Cut
<1>11. CASE AcceptExpired
  BY <1>1, <1>3, <1>11 DEF AcceptExpired, Cut
<1>12. QED
  BY <1>4, <1>5, <1>6, <1>7, <1>8, <1>9, <1>10, <1>11 DEF EndFails

\* A step is one of thirteen kinds.
LEMMA StepKinds ==
  ASSUME TypeOK, Next
  PROVE  \/ SysTick \/ TimTick \/ Handed \/ Cut
         \/ \E age \in 0 .. StaleAge : Deliver(age)
         \/ Snapshot \/ Begin
         \/ \E r \in Segments : StartOK(r) \/ StartOvertaken(r)
         \/ RefreshOK \/ AcceptPost \/ Disable \/ Service
<1>1. CASE Irq
  BY <1>1, FailuresCut DEF Irq, IrqHandsOver, Handed
<1>2. CASE Start
  BY <1>2, FailuresCut DEF Start, StartFails
<1>3. CASE Refresh
  BY <1>3, FailuresCut DEF Refresh
<1>4. CASE End
  BY <1>4, FailuresCut DEF End, EndOK, Handed
<1>5. CASE Accept
  BY <1>5, FailuresCut DEF Accept
<1>6. QED
  BY <1>1, <1>2, <1>3, <1>4, <1>5 DEF Next

-----------------------------------------------------------------------------
(* Types.                                                                  *)

\* The Booleans and the named states of the type invariant, and its numbers.
Flags ==
  /\ seg \in BOOLEAN /\ brake \in BOOLEAN
  /\ post \in BOOLEAN /\ open \in BOOLEAN /\ active \in BOOLEAN
  /\ haveSeq \in BOOLEAN /\ sampleFed \in BOOLEAN /\ sampleUsed \in BOOLEAN
Names ==
  /\ out \in {"OFF", "PRESS", "BRAKE"}
  /\ mode \in {"NONE", "COARSE", "PULSE"}
  /\ reason \in Reasons
  /\ action \in {"DISABLED", "SEGMENT", "BRAKE"}
  /\ event \in Events
Numbers ==
  /\ deadline \in Nat /\ receive \in Nat
  /\ ended \in 0 .. SettleCap
  /\ settle \in Settles \cup {0}
  /\ offFor \in {NotOff} \cup 0 .. FullRest
  /\ sampleAge \in 0 .. StaleAge
  /\ fedAge \in 0 .. Lease
  /\ spent \in 0 .. ApproachTotal + 1
  /\ quiet \in 0 .. FullRest

LEMMA TypeParts ==
  TypeOK <=> Flags /\ Names /\ Numbers /\ tim \in Timers /\ rest \in Rests
  BY DEF TypeOK, Flags, Names, Numbers, Timers, Rests

LEMMA TypePartsNext ==
  TypeOK' <=> Flags' /\ Names' /\ Numbers' /\ tim' \in Timers /\ rest' \in Rests
  BY DEF TypeOK, Flags, Names, Numbers, Timers, Rests

LEMMA SegmentFields ==
  ASSUME NEW r \in Segments
  PROVE  /\ r.mode \in {"COARSE", "PULSE"} /\ r.settle \in Settles
         /\ r.mode = "PULSE" => r.normal \in Nat \ {0}
  BY TimesAssumption DEF Segments

LEMMA FlagsStep == ASSUME TypeOK, Next PROVE Flags'
<1> USE DEF Flags
<1>1. Flags
  BY TypeParts
<1>2. ASSUME SysTick PROVE Flags'
  BY <1>1, <1>2 DEF SysTick, owner
<1>3. ASSUME TimTick PROVE Flags'
  BY <1>1, <1>3 DEF TimTick, segment, owner, sample
<1>4. ASSUME NEW age \in 0 .. StaleAge, Deliver(age) PROVE Flags'
  BY <1>1, <1>4 DEF Deliver, segment, owner
<1>5. ASSUME Snapshot \/ AcceptPost PROVE Flags'
  BY <1>1, <1>5 DEF Snapshot, AcceptPost, segment, owner, sample
<1>6. ASSUME Begin PROVE Flags'
  BY <1>1, <1>6 DEF Begin, segment, sample
<1>7. ASSUME NEW r \in Segments, StartOK(r) PROVE Flags'
  BY <1>1, <1>7 DEF StartOK
<1>8. ASSUME NEW r \in Segments, StartOvertaken(r) PROVE Flags'
  BY <1>1, <1>8 DEF StartOvertaken, Shut
<1>9. ASSUME RefreshOK PROVE Flags'
  BY <1>1, <1>9 DEF RefreshOK, owner
<1>10. ASSUME Disable PROVE Flags'
  BY <1>1, <1>10 DEF Disable, Shut, RecordOff, sample
<1>11. ASSUME Service PROVE Flags'
  BY <1>1, <1>11 DEF Service, Shut, RecordOff, sample
<1>12. ASSUME Handed PROVE Flags'
  BY <1>1, <1>12 DEF Handed, HandOver, sample
<1>13. ASSUME Cut PROVE Flags'
  BY <1>1, <1>13 DEF Cut, CutOff, Shut, RecordOff, sample
<1>14. QED
  BY <1>2, <1>3, <1>4, <1>5, <1>6, <1>7, <1>8, <1>9, <1>10, <1>11, <1>12, <1>13,
     StepKinds

LEMMA NamesStep == ASSUME TypeOK, Next PROVE Names'
<1> USE DEF Names, Reasons, Events
<1>1. Names
  BY TypeParts
<1>2. ASSUME SysTick PROVE Names'
  BY <1>1, <1>2 DEF SysTick, owner
<1>3. ASSUME TimTick PROVE Names'
  BY <1>1, <1>3 DEF TimTick, segment, owner
<1>4. ASSUME NEW age \in 0 .. StaleAge, Deliver(age) PROVE Names'
  BY <1>1, <1>4 DEF Deliver, segment, owner, hardware
<1>5. ASSUME Snapshot \/ AcceptPost PROVE Names'
  BY <1>1, <1>5 DEF Snapshot, AcceptPost, segment, owner, hardware
<1>6. ASSUME Begin PROVE Names'
  BY <1>1, <1>6 DEF Begin, segment, hardware
<1>7. ASSUME NEW r \in Segments, StartOK(r) PROVE Names'
  BY <1>1, <1>7, SegmentFields DEF StartOK
<1>8. ASSUME NEW r \in Segments, StartOvertaken(r) PROVE Names'
  BY <1>1, <1>8, SegmentFields DEF StartOvertaken, Shut, Latch
<1>9. ASSUME RefreshOK PROVE Names'
  BY <1>1, <1>9 DEF RefreshOK, owner
<1>10. ASSUME Disable PROVE Names'
  BY <1>1, <1>10 DEF Disable, Shut, RecordOff
<1>11. ASSUME Service PROVE Names'
  BY <1>1, <1>11 DEF Service, Shut, RecordOff
<1>12. ASSUME Handed PROVE Names'
  BY <1>1, <1>12 DEF Handed, HandOver
<1>13. ASSUME Cut PROVE Names'
  BY <1>1, <1>13 DEF Cut, CutOff, Shut, RecordOff, Latch
<1>14. QED
  BY <1>2, <1>3, <1>4, <1>5, <1>6, <1>7, <1>8, <1>9, <1>10, <1>11, <1>12, <1>13,
     StepKinds

\* Every duration a start or a refresh gives the timer is at least 2 ms.
LEMMA StartTimes ==
  ASSUME TypeOK, NEW r \in Segments, StartOK(r)
  PROVE  /\ Lease - sampleAge \in Nat /\ Lease - sampleAge > 1
         /\ Hard(r) \in Nat /\ Hard(r) > 1
         /\ r.mode = "COARSE" => Hard(r) = ApproachTotal - Rested.approach
         /\ r.mode = "PULSE" => Hard(r) = r.normal + 1 /\ Hard(r) < Lease - sampleAge
<1>1. Lease - sampleAge \in Nat /\ Lease - sampleAge > 1
  BY TimesAssumption DEF StartOK, Unfit, TypeOK, StaleAge
<1>2. r.mode = "COARSE" => Available \in Nat /\ Available > 1
  BY RestedType, TimesAssumption DEF StartOK, Exhausted, Available, Rests
<1>3. r.mode = "PULSE" => r.normal + 1 < Lease - sampleAge
  BY <1>1, SegmentFields DEF StartOK, Untimely
<1>4. QED
  BY <1>1, <1>2, <1>3, SegmentFields DEF Hard, Available

LEMMA RefreshTimes ==
  ASSUME TypeOK, RefreshOK, Leased
  PROVE  /\ NewLease \in Nat /\ NewLease > 1
         /\ NewLease <= Lease - sampleAge
         /\ seg => NewLease <= deadline
  BY TimesAssumption DEF RefreshOK, NewLease, Least, TypeOK, StaleAge

LEMMA NumbersStep == ASSUME TypeOK, Next PROVE Numbers'
<1> USE TimesAssumption DEF Numbers, NotOff, StaleAge
<1>1. Numbers
  BY TypeParts
<1>2. ASSUME SysTick PROVE Numbers'
  <2>1. deadline' \in Nat /\ receive' \in Nat /\ ended' \in 0 .. SettleCap
    BY <1>1, <1>2 DEF SysTick, Sooner, Least
  <2>2. sampleAge' \in 0 .. StaleAge /\ fedAge' \in 0 .. Lease
    BY <1>1, <1>2 DEF SysTick, Least
  <2>3. offFor' \in {NotOff} \cup 0 .. FullRest /\ quiet' \in 0 .. FullRest
    BY <1>1, <1>2 DEF SysTick, Least
  <2>4. spent' \in 0 .. ApproachTotal + 1
    BY <1>1, <1>2 DEF SysTick, Least
  <2>5. QED
    BY <1>1, <1>2, <2>1, <2>2, <2>3, <2>4 DEF SysTick
<1>3. ASSUME TimTick PROVE Numbers'
  BY <1>1, <1>3 DEF TimTick, segment, budget, sample, watch
<1>4. ASSUME NEW age \in 0 .. StaleAge, Deliver(age) PROVE Numbers'
  BY <1>1, <1>4 DEF Deliver, segment, budget
<1>5. ASSUME Snapshot PROVE Numbers'
  BY <1>1, <1>5 DEF Snapshot, ConfirmedOff, segment, sample, watch
<1>6. ASSUME Begin PROVE Numbers'
  BY <1>1, <1>6 DEF Begin, ConfirmedOff, segment, sample, watch
<1>7. ASSUME NEW r \in Segments, StartOK(r) PROVE Numbers'
  <2>1. deadline' \in Nat /\ receive' \in Nat
    BY <1>7, StartTimes DEF StartOK
  <2>2. settle' \in Settles /\ ended' \in 0 .. SettleCap
    BY <1>1, <1>7, SegmentFields DEF StartOK
  <2>3. QED
    BY <1>1, <1>7, <2>1, <2>2 DEF StartOK
<1>8. ASSUME NEW r \in Segments, StartOvertaken(r) PROVE Numbers'
  BY <1>1, <1>8, SegmentFields DEF StartOvertaken, Shut
<1>9. ASSUME RefreshOK PROVE Numbers'
  <2>1. receive' \in Nat
    BY <1>1, <1>9, RefreshTimes DEF RefreshOK
  <2>2. QED
    BY <1>1, <1>9, <2>1 DEF RefreshOK, budget
<1>10. ASSUME Disable PROVE Numbers'
  BY <1>1, <1>10 DEF Disable, Shut, sample
<1>11. ASSUME Service PROVE Numbers'
  BY <1>1, <1>11 DEF Service, Shut, sample
<1>12. ASSUME Handed PROVE Numbers'
  BY <1>1, <1>12 DEF Handed, HandOver, budget, sample
<1>13. ASSUME Cut PROVE Numbers'
  BY <1>1, <1>13 DEF Cut, CutOff, Shut, sample
<1>14. ASSUME AcceptPost PROVE Numbers'
  BY <1>1, <1>14 DEF AcceptPost, segment, budget, sample, watch
<1>15. QED
  BY <1>2, <1>3, <1>4, <1>5, <1>6, <1>7, <1>8, <1>9, <1>10, <1>11, <1>12, <1>13,
     <1>14, StepKinds

LEMMA TimersStep == ASSUME TypeOK, Next PROVE tim' \in Timers
<1> USE DEF Timers
<1>1. tim \in Timers /\ receive \in Nat
  BY TypeParts DEF Numbers
<1>2. Stopped \in Timers
  BY DEF Stopped
<1>3. ASSUME NEW n \in Nat, n > 1 PROVE LeaseTimer(n) \in Timers
  BY <1>3 DEF LeaseTimer
<1>4. ASSUME SysTick \/ TimTick PROVE tim' \in Timers
  <2>1. ASSUME SysTick PROVE tim' = [tim EXCEPT !.behind = tim.mode # "off"]
    BY <2>1 DEF SysTick
  <2>2. /\ Raised \in SUBSET {"CC1", "UIF"}
        /\ Sooner(tim.compare) \in Nat /\ Sooner(tim.update) \in Nat
    BY <1>1 DEF Raised, Sooner
  <2>3. ASSUME TimTick
        PROVE  tim' = [tim EXCEPT !.compare = Sooner(@), !.update = Sooner(@),
                                  !.flags = Raised, !.behind = FALSE]
    BY <2>3 DEF TimTick
  <2>4. QED
    BY <1>1, <1>4, <2>1, <2>2, <2>3
<1>5. ASSUME NEW r \in Segments, StartOK(r) PROVE tim' \in Timers
  <2>1. CASE r.mode = "COARSE"
    <3>1. /\ Least(Lease - sampleAge, Hard(r)) \in Nat
          /\ Least(Lease - sampleAge, Hard(r)) > 1
      BY <1>5, StartTimes DEF Least
    <3>2. QED
      BY <1>3, <1>5, <2>1, <3>1 DEF StartOK
  <2>2. CASE r.mode = "PULSE"
    BY <1>5, <2>2, SegmentFields DEF StartOK, PulseTimer
  <2>3. QED
    BY <2>1, <2>2, SegmentFields
<1>6. ASSUME RefreshOK PROVE tim' \in Timers
  BY <1>1, <1>3, <1>6, RefreshTimes DEF RefreshOK
<1>7. ASSUME Handed PROVE tim' \in Timers
  BY <1>1, <1>3, <1>7 DEF Handed, CanHandOver, HandOver
<1>8. ASSUME tim' \in {tim, Stopped} PROVE tim' \in Timers
  BY <1>1, <1>2, <1>8
<1>9. ASSUME Cut \/ Disable \/ Service \/ \E r \in Segments : StartOvertaken(r)
      PROVE  tim' = Stopped
  BY <1>9 DEF Cut, CutOff, Disable, Service, StartOvertaken, Shut
<1>10. ASSUME Snapshot \/ Begin \/ AcceptPost \/ \E age \in 0 .. StaleAge : Deliver(age)
       PROVE  tim' = tim
  BY <1>10 DEF Snapshot, Begin, AcceptPost, Deliver, hardware
<1>11. QED
  BY <1>4, <1>5, <1>6, <1>7, <1>8, <1>9, <1>10, StepKinds

\* What a segment reserves is a natural number, whether or not it starts.
LEMMA ReserveType ==
  ASSUME TypeOK, NEW r \in Segments, ~Exhausted(r)
  PROVE  /\ Reserve(r) \in Rests
         /\ Reserve(r).approach =
              IF r.mode = "COARSE" THEN ApproachTotal ELSE Rested.approach
<1>1. Rested \in Rests
  BY RestedType
<1>2. CASE r.mode = "COARSE"
  <2>1. Hard(r) = ApproachTotal - Rested.approach
    BY <1>2 DEF Hard, Available
  <2>2. Rested.approach \in Nat
    BY <1>1 DEF Rests
  <2>3. Rested.approach + Hard(r) = ApproachTotal
    BY <2>1, <2>2, TimesAssumption
  <2>4. QED
    BY <1>1, <1>2, <2>3, TimesAssumption DEF Reserve, Rests
<1>3. CASE r.mode # "COARSE"
  BY <1>1, <1>3 DEF Reserve, Rests
<1>4. QED
  BY <1>2, <1>3

LEMMA RestsStep == ASSUME TypeOK, Next PROVE rest' \in Rests
<1>1. rest \in Rests /\ Rested \in Rests
  BY TypeParts, RestedType
<1>2. ASSUME NEW b \in Rests, NEW why, RecordOff(why, b) PROVE rest' \in Rests
  BY <1>2 DEF RecordOff, Rests
<1>3. ASSUME Cut \/ Disable \/ Service PROVE rest' \in Rests
  BY <1>1, <1>2, <1>3 DEF Cut, CutOff, Disable, Service
<1>4. ASSUME Snapshot \/ Begin PROVE rest' \in Rests
  BY <1>1, <1>4 DEF Snapshot, Begin
<1>5. ASSUME NEW r \in Segments, StartOK(r) \/ StartOvertaken(r) PROVE rest' \in Rests
  <2>1. ~Exhausted(r) /\ rest' = Reserve(r)
    <3>1. ASSUME StartOK(r) PROVE ~Exhausted(r) /\ rest' = Reserve(r)
      BY <3>1 DEF StartOK
    <3>2. ASSUME StartOvertaken(r) PROVE ~Exhausted(r) /\ rest' = Reserve(r)
      BY <3>2, SegmentFields
      DEF StartOvertaken, Exhausted, Continues, FromApproach, Untimely
    <3>3. QED
      BY <1>5, <3>1, <3>2
  <2>2. QED
    BY <2>1, ReserveType
<1>6. ASSUME SysTick \/ TimTick \/ RefreshOK \/ AcceptPost \/ Handed
             \/ \E age \in 0 .. StaleAge : Deliver(age)
      PROVE  rest' \in Rests
  BY <1>1, <1>6 DEF SysTick, TimTick, RefreshOK, AcceptPost, Handed, HandOver,
     Deliver, budget
<1>7. QED
  BY <1>3, <1>4, <1>5, <1>6, StepKinds

LEMMA TypingStep == TypeOK /\ [Next]_machinery => TypeOK'
<1>1. ASSUME TypeOK, Next PROVE TypeOK'
  BY <1>1, FlagsStep, NamesStep, NumbersStep, TimersStep, RestsStep, TypePartsNext
<1>2. ASSUME TypeOK, UNCHANGED machinery PROVE TypeOK'
  BY <1>2 DEF machinery, hardware, segment, owner, budget, sample, watch, TypeOK
<1>3. QED
  BY <1>1, <1>2

LEMMA TypingInit == Init => TypeOK
<1>1. Init => Flags
  BY DEF Init, Flags
<1>2. Init => Names
  BY DEF Init, Names, Reasons, Events
<1>3. Init => Numbers
  BY TimesAssumption DEF Init, Numbers, StaleAge, NotOff
<1>4. Init => tim \in Timers /\ rest \in Rests
  BY DEF Init, Stopped, Timers, Rests
<1>5. QED
  BY <1>1, <1>2, <1>3, <1>4, TypeParts

\* Every variable keeps its type: the counters of the timer, the deadlines and
\* the budgets never underflow and never leave their ranges.
THEOREM Typing == Spec => []TypeOK
  BY TypingInit, TypingStep, PTL DEF Spec

-----------------------------------------------------------------------------
(* The inductive invariant, part by part.                                  *)

\* Ownership is inductive on its own: nothing turns the bridge on but an admitted
\* start, and every way off clears the segment, the brake and the request, or
\* latches a completion for Service.
LEMMA OwnedStep == ASSUME TypeOK, DriveIsOwned, Next PROVE DriveIsOwned'
<1> USE DEF DriveIsOwned
<1>1. ASSUME SysTick PROVE DriveIsOwned'
  <2>1. tim'.mode = tim.mode
    BY <1>1 DEF SysTick, TypeOK
  <2>2. QED
    BY <1>1, <2>1 DEF SysTick, owner
<1>2. ASSUME TimTick PROVE DriveIsOwned'
  <2>1. tim'.mode = tim.mode
    BY <1>2 DEF TimTick, TypeOK
  <2>2. QED
    BY <1>2, <2>1 DEF TimTick, owner, segment
<1>3. ASSUME \/ Snapshot \/ AcceptPost \/ \E age \in 0 .. StaleAge : Deliver(age)
      PROVE  DriveIsOwned'
  BY <1>3 DEF Snapshot, AcceptPost, Deliver, hardware, segment, owner
<1>4. ASSUME Begin PROVE DriveIsOwned'
  BY <1>4 DEF Begin, CanBegin, hardware, segment
<1>5. ASSUME NEW r \in Segments, StartOK(r) PROVE DriveIsOwned'
  BY <1>5 DEF StartOK, Startable, LeaseTimer, PulseTimer
<1>6. ASSUME NEW r \in Segments, StartOvertaken(r) PROVE DriveIsOwned'
  BY <1>6 DEF StartOvertaken, Shut, Latch
<1>7. ASSUME RefreshOK PROVE DriveIsOwned'
  BY <1>7 DEF RefreshOK, LeaseTimer, owner
<1>8. ASSUME Disable PROVE DriveIsOwned'
  BY <1>8 DEF Disable, Shut
<1>9. ASSUME Service PROVE DriveIsOwned'
  BY <1>9 DEF Service, Shut
<1>10. ASSUME Handed PROVE DriveIsOwned'
  BY <1>10 DEF Handed, CanHandOver, HandOver, LeaseTimer
<1>11. ASSUME Cut PROVE DriveIsOwned'
  BY <1>11 DEF Cut, CutOff, Shut, Latch
<1>12. QED
  BY <1>1, <1>2, <1>3, <1>4, <1>5, <1>6, <1>7, <1>8, <1>9, <1>10, <1>11, StepKinds

\* A bridge that is off owes the timing invariant nothing.
LEMMA OffSteps ==
  ASSUME TypeOK,
         Cut \/ Disable \/ Service \/ \E r \in Segments : StartOvertaken(r)
  PROVE  out' = "OFF" /\ ~seg'
  BY DEF Cut, CutOff, Disable, Service, StartOvertaken, Shut

\* The compare runs a millisecond ahead of the deadlines, and an event is served
\* before the millisecond of it is over.
LEMMA TimedStep == ASSUME TypeOK, DriveIsOwned, Timed, Next PROVE Timed'
<1> USE DEF Timed
<1>1. deadline \in Nat /\ receive \in Nat /\ tim \in Timers
  BY TypeParts DEF Numbers
<1>2. ASSUME SysTick PROVE Timed'
  <2>1. /\ tim'.compare = tim.compare /\ tim'.flags = {} /\ ~tim.behind
        /\ tim'.behind = (tim.mode # "off") /\ tim.flags = {}
    BY <1>1, <1>2 DEF SysTick, Timers
  <2>2. out # "OFF" => tim'.behind
    BY <2>1 DEF DriveIsOwned
  <2>3. out' = out /\ seg' = seg
    BY <1>2 DEF SysTick
  <2>4. deadline' = Sooner(deadline) /\ receive' = Sooner(receive)
    BY <1>2 DEF SysTick
  <2>5. tim.compare \in Nat
    BY <1>1 DEF Timers
  <2>6. QED
    BY <1>1, <2>1, <2>2, <2>3, <2>4, <2>5 DEF Sooner
<1>3. ASSUME TimTick PROVE Timed'
  <2>1. /\ tim'.compare = Sooner(tim.compare) /\ tim'.flags = Raised
        /\ ~tim'.behind /\ tim.behind
    BY <1>1, <1>3 DEF TimTick, Timers
  <2>2. out' = out /\ seg' = seg /\ deadline' = deadline /\ receive' = receive
    BY <1>3 DEF TimTick, segment
  <2>3. Raised = {} => tim.compare # 1 /\ tim.flags = {}
    BY DEF Raised
  <2>4. tim.compare \in Nat
    BY <1>1 DEF Timers
  <2>5. QED
    BY <1>1, <2>1, <2>2, <2>3, <2>4 DEF Sooner
<1>4. ASSUME Snapshot \/ Begin \/ AcceptPost \/ \E age \in 0 .. StaleAge : Deliver(age)
      PROVE  Timed'
  BY <1>4 DEF Snapshot, Begin, AcceptPost, Deliver, hardware, segment
<1>5. ASSUME NEW r \in Segments, StartOK(r) PROVE Timed'
  <2>1. receive' = Lease - sampleAge /\ deadline' = Hard(r)
    BY <1>5 DEF StartOK
  <2>2. CASE r.mode = "COARSE"
    <3>1. tim' = LeaseTimer(Least(receive', deadline'))
      BY <1>5, <2>1, <2>2 DEF StartOK
    <3>2. QED
      BY <1>5, <2>1, <3>1, StartTimes DEF LeaseTimer, Least
  <2>3. CASE r.mode = "PULSE"
    <3>1. tim' = PulseTimer(r.normal)
      BY <1>5, <2>3 DEF StartOK
    <3>2. QED
      BY <1>5, <2>1, <2>3, <3>1, StartTimes, SegmentFields DEF PulseTimer
  <2>4. QED
    BY <2>2, <2>3, SegmentFields
<1>6. ASSUME RefreshOK PROVE Timed'
  <2>1. out' = out /\ seg' = seg /\ deadline' = deadline
    BY <1>6 DEF RefreshOK
  <2>2. CASE Leased
    <3>1. receive' = NewLease /\ tim' = LeaseTimer(NewLease)
      BY <1>6, <2>2 DEF RefreshOK
    <3>2. QED
      BY <1>1, <1>6, <2>1, <2>2, <3>1, RefreshTimes DEF LeaseTimer
  <2>3. CASE ~Leased
    BY <1>6, <2>1, <2>3 DEF RefreshOK
  <2>4. QED
    BY <2>2, <2>3
<1>7. ASSUME Handed PROVE Timed'
  BY <1>1, <1>7 DEF Handed, CanHandOver, HandOver, LeaseTimer
<1>8. QED
  BY <1>2, <1>3, <1>4, <1>5, <1>6, <1>7, OffSteps, StepKinds

\* A lease and the age of the feedback under it make up at most one Lease.
LEMMA FedStep == ASSUME TypeOK, DriveIsOwned, Timed, Fed, Next PROVE Fed'
<1> USE TimesAssumption DEF Fed
<1>1. /\ receive \in Nat /\ sampleAge \in 0 .. StaleAge /\ fedAge \in 0 .. Lease
  BY DEF TypeOK
<1>2. ASSUME SysTick PROVE Fed'
  <2>1. sampleAge' <= fedAge'
    BY <1>1, <1>2 DEF SysTick, Least, StaleAge
  <2>2. out # "OFF" => receive' = receive - 1
    BY <1>1, <1>2 DEF SysTick, Timed, Sooner
  <2>3. fedAge' <= fedAge + 1 /\ out' = out
    BY <1>1, <1>2 DEF SysTick, Least
  <2>4. fedAge' \in Nat
    BY <1>1, <1>2 DEF SysTick, Least
  <2>5. QED
    BY <1>1, <2>1, <2>2, <2>3, <2>4
<1>3. ASSUME NEW age \in 0 .. StaleAge, Deliver(age) PROVE Fed'
  BY <1>1, <1>3 DEF Deliver, hardware, segment
<1>4. ASSUME Snapshot \/ Begin \/ AcceptPost \/ TimTick PROVE Fed'
  BY <1>4 DEF Snapshot, Begin, AcceptPost, TimTick, hardware, segment, sample, watch
<1>5. ASSUME NEW r \in Segments, StartOK(r) PROVE Fed'
  BY <1>1, <1>5 DEF StartOK
<1>6. ASSUME RefreshOK PROVE Fed'
  <2>1. out' = out /\ fedAge' = sampleAge /\ sampleAge' = sampleAge
    BY <1>6 DEF RefreshOK
  <2>2. CASE Leased
    BY <1>1, <1>6, <2>1, <2>2, RefreshTimes DEF RefreshOK
  <2>3. CASE ~Leased
    BY <1>1, <1>6, <2>1, <2>3 DEF RefreshOK
  <2>4. QED
    BY <2>2, <2>3
<1>7. ASSUME Handed PROVE Fed'
  BY <1>7 DEF Handed, CanHandOver, HandOver, sample
<1>8. ASSUME Cut \/ Disable \/ Service \/ \E r \in Segments : StartOvertaken(r)
      PROVE  sampleAge' = sampleAge /\ fedAge' = fedAge
  BY <1>8 DEF Cut, CutOff, Disable, Service, StartOvertaken, sample
<1>9. QED
  BY <1>2, <1>3, <1>4, <1>5, <1>6, <1>7, <1>8, OffSteps, StepKinds

\* What a segment reserves is spent no faster than its deadline comes nearer; the
\* reservation and the history are both cleared only after the same full rest.
LEMMA BudgetedStep == ASSUME TypeOK, DriveIsOwned, Timed, Budgeted, Next PROVE Budgeted'
<1> USE TimesAssumption DEF Budgeted, NotOff
<1>1. /\ deadline \in Nat /\ spent \in Nat /\ quiet \in 0 .. FullRest
      /\ offFor \in {NotOff} \cup 0 .. FullRest
      /\ rest \in Rests /\ Rested \in Rests /\ rest.approach \in Nat
      /\ Rested.approach \in Nat
  BY TypeParts, RestedType DEF Numbers, Rests
<1>2. ASSUME SysTick PROVE Budgeted'
  <2>1. out' = out /\ seg' = seg /\ mode' = mode /\ rest' = rest
    BY <1>2 DEF SysTick
  <2>2. (out' # "OFF" => offFor' = NotOff) /\ offFor' <= quiet'
    BY <1>1, <1>2, <2>1 DEF SysTick, Least
  <2>3. quiet' = FullRest => spent' = 0
    BY <1>2 DEF SysTick
  <2>4. CASE seg /\ mode = "COARSE"
    <3>1. deadline' = deadline - 1
      BY <1>1, <1>2, <2>4 DEF SysTick, Sooner, Timed, DriveIsOwned
    <3>2. spent' <= spent + 1
      BY <1>1, <1>2 DEF SysTick, Least
    <3>3. spent' \in Nat
      BY <1>1, <1>2 DEF SysTick, Least
    <3>4. QED
      BY <1>1, <2>1, <2>2, <2>3, <2>4, <3>1, <3>2, <3>3
  <2>5. CASE ~(seg /\ mode = "COARSE")
    <3>1. spent' \in {0, spent}
      BY <1>2, <2>5 DEF SysTick, DriveIsOwned
    <3>2. QED
      BY <1>1, <2>1, <2>2, <2>3, <2>5, <3>1
  <2>6. QED
    BY <2>4, <2>5
<1>3. ASSUME Snapshot \/ Begin PROVE Budgeted'
  <2>1. /\ out' = out /\ seg' = seg /\ mode' = mode /\ deadline' = deadline
        /\ spent' = spent /\ quiet' = quiet /\ rest' = Rested /\ offFor' = ConfirmedOff
    BY <1>3 DEF Snapshot, Begin, hardware, segment, watch
  <2>2. (out' # "OFF" => offFor' = NotOff) /\ offFor' <= quiet'
    BY <1>1, <2>1 DEF ConfirmedOff
  <2>3. seg => Rested = rest
    BY DEF Rested, RestOver
  <2>4. QED
    BY <1>1, <2>1, <2>2, <2>3, RestedPays
<1>4. ASSUME NEW r \in Segments, StartOK(r) PROVE Budgeted'
  <2>1. /\ ~Exhausted(r) /\ rest' = Reserve(r) /\ deadline' = Hard(r) /\ seg'
        /\ mode' = r.mode
    BY <1>4 DEF StartOK
  <2>2. /\ spent' = spent /\ quiet' = 0 /\ offFor' = NotOff
    BY <1>4 DEF StartOK
  <2>3. spent <= Rested.approach /\ Rested.approach <= ApproachTotal
    <3>1. seg => Rested = rest
      BY DEF Rested, RestOver
    <3>2. QED
      BY <1>1, <3>1, RestedPays
  <2>4. CASE r.mode = "COARSE"
    <3>1. rest'.approach = ApproachTotal /\ deadline' = ApproachTotal - Rested.approach
      BY <1>4, <2>1, <2>4, ReserveType, StartTimes
    <3>2. QED
      BY <1>1, <2>1, <2>2, <2>3, <2>4, <3>1
  <2>5. CASE r.mode = "PULSE"
    <3>1. rest'.approach = Rested.approach
      BY <2>1, <2>5, ReserveType
    <3>2. QED
      BY <1>1, <2>1, <2>2, <2>3, <2>5, <3>1
  <2>6. QED
    BY <2>4, <2>5, SegmentFields
<1>5. ASSUME NEW r \in Segments, StartOvertaken(r) PROVE Budgeted'
  <2>1. r.mode = "PULSE" /\ ~Exhausted(r)
    BY <1>5, SegmentFields DEF StartOvertaken, Exhausted, Continues, FromApproach, Untimely
  <2>2. rest'.approach = Rested.approach
    BY <1>5, <2>1, ReserveType DEF StartOvertaken
  <2>3. spent <= Rested.approach /\ Rested.approach <= ApproachTotal
    <3>1. seg => Rested = rest
      BY DEF Rested, RestOver
    <3>2. QED
      BY <1>1, <3>1, RestedPays
  <2>4. /\ out' = "OFF" /\ ~seg' /\ spent' = spent /\ quiet' = quiet
        /\ offFor' = IF offFor = NotOff THEN 0 ELSE offFor
    BY <1>5 DEF StartOvertaken, Shut
  <2>5. QED
    BY <1>1, <2>2, <2>3, <2>4
<1>6. ASSUME NEW b \in Rests, NEW why, RecordOff(why, b), Shut,
             b.approach \in {rest.approach, Rested.approach},
             spent' = spent, quiet' = quiet
      PROVE  Budgeted'
  <2>1. rest'.approach = b.approach
    BY <1>6 DEF RecordOff, Rests
  <2>2. /\ out' = "OFF" /\ ~seg'
        /\ offFor' = IF offFor = NotOff THEN 0 ELSE offFor
    BY <1>6 DEF Shut
  <2>3. spent <= b.approach /\ b.approach <= ApproachTotal
    <3>1. seg => Rested = rest
      BY DEF Rested, RestOver
    <3>2. QED
      BY <1>1, <1>6, <3>1, RestedPays
  <2>4. QED
    BY <1>1, <1>6, <2>1, <2>2, <2>3
<1>7. ASSUME Cut PROVE Budgeted'
  BY <1>6, <1>7 DEF Cut, CutOff
<1>8. ASSUME Disable \/ Service PROVE Budgeted'
  <2>1. \E why : RecordOff(why, rest)
    BY <1>8 DEF Disable, Service
  <2>2. Shut /\ spent' = spent /\ quiet' = quiet
    BY <1>8 DEF Disable, Service
  <2>3. QED
    BY <1>1, <1>6, <2>1, <2>2
<1>9. ASSUME TimTick \/ AcceptPost \/ \E age \in 0 .. StaleAge : Deliver(age)
      PROVE  Budgeted'
  BY <1>9 DEF TimTick, AcceptPost, Deliver, hardware, segment, budget, watch
<1>10. ASSUME RefreshOK PROVE Budgeted'
  BY <1>10 DEF RefreshOK, budget
<1>11. ASSUME Handed PROVE Budgeted'
  <2>1. /\ ~seg' /\ rest' = rest /\ offFor' = offFor /\ spent' = spent /\ quiet' = quiet
        /\ out = "PRESS"
    BY <1>11 DEF Handed, CanHandOver, HandOver, budget
  <2>2. QED
    BY <1>1, <2>1
<1>12. QED
  BY <1>2, <1>3, <1>4, <1>5, <1>7, <1>8, <1>9, <1>10, <1>11, StepKinds

-----------------------------------------------------------------------------
(* The theorems.                                                           *)

LEMMA InvStep == TypeOK /\ Inv /\ [Next]_machinery => Inv'
<1>1. ASSUME TypeOK, Inv, Next PROVE Inv'
  BY <1>1, OwnedStep, TimedStep, FedStep, BudgetedStep DEF Inv
<1>2. ASSUME Inv, UNCHANGED machinery PROVE Inv'
  BY <1>2 DEF Inv, DriveIsOwned, Timed, Fed, Budgeted, machinery, hardware,
     segment, owner, budget, sample, watch
<1>3. QED
  BY <1>1, <1>2

LEMMA InvInit == Init => Inv
  BY TimesAssumption DEF Init, Inv, DriveIsOwned, Timed, Fed, Budgeted, Stopped,
     StaleAge, NotOff

\* The invariant that the safety properties follow from.
THEOREM Invariance == Spec => []Inv
  BY InvInit, InvStep, Typing, PTL DEF Spec

LEMMA InvEnds == TypeOK /\ Inv => SegmentEndsOnTime /\ LeaseHolds /\ ApproachBudget
<1> SUFFICES ASSUME TypeOK, Inv
             PROVE  SegmentEndsOnTime /\ LeaseHolds /\ ApproachBudget
  OBVIOUS
<1>1. SegmentEndsOnTime
  BY DEF Inv, Timed, DriveIsOwned, SegmentEndsOnTime
<1>2. LeaseHolds
  BY TimesAssumption DEF TypeOK, Inv, Timed, Fed, LeaseHolds
<1>3. spent <= rest.approach /\ rest.approach <= ApproachTotal
  BY TimesAssumption, TypeParts DEF Inv, Budgeted, Numbers, Rests
<1>4. ApproachBudget
  BY <1>3, TimesAssumption, TypeParts DEF ApproachBudget, Numbers, Rests
<1>5. QED
  BY <1>1, <1>2, <1>4

\* The bridge is enabled exactly while a session's request is active and nothing
\* is pending; it is then owned, timed, and in the state the segment says.
THEOREM Ownership == Spec => []DriveIsOwned
<1>1. Inv => DriveIsOwned
  BY DEF Inv
<1>2. QED
  BY <1>1, Invariance, PTL

\* No sample, caller or interrupt prolongs a segment past its hard deadline.
THEOREM Punctuality == Spec => []SegmentEndsOnTime
  BY InvEnds, Typing, Invariance, PTL

\* The bridge is never enabled on feedback as old as the lease.
THEOREM Freshness == Spec => []LeaseHolds
  BY InvEnds, Typing, Invariance, PTL

\* Between two full rests the approach drives no longer than its total.
THEOREM Exposure == Spec => []ApproachBudget
  BY InvEnds, Typing, Invariance, PTL
=============================================================================
