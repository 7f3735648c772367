-------------------------- MODULE AutoSettleProofs --------------------------
(***************************************************************************)
(* Proof of AutoTarget's SettledDecision, for every value of the           *)
(* constants: what decides a drive or a hold was measured with the output  *)
(* off for the settle delay.                                               *)
(*                                                                         *)
(* Three stamps must be in order: when the output went off, when the gate  *)
(* opened and when the sample was taken.  The lemmas follow the settle     *)
(* stamp through the functions of machine.c; AutoTargetProofs has what     *)
(* they do to the rest of the context.                                     *)
(***************************************************************************)
EXTENDS AutoTargetProofs

\* A settling context that dates its delay with this iteration.
Dated(d) == d.state = "AUTO_SETTLE" => d.phase = "DELAY" /\ d.settleAge = lag

\* An operation on c starts the delay again or leaves it alone.
Timed(c, d) ==
    \/ Dated(d)
    \/ c.state = "AUTO_SETTLE" /\ d.phase = c.phase /\ d.settleAge = c.settleAge

LEMMA SettleDates ==
  ASSUME NEW c, Sound(c), NEW ok \in BOOLEAN
  PROVE  Dated(EnterSettle(c, ok))
<1> DEFINE e == DisableInto(c, ok, "AUTO_SETTLE")
           d == [e EXCEPT !.phase = "DELAY", !.settleAge = lag]
<1>1. IF ok THEN RestsIn("AUTO_SETTLE", c, e) ELSE Faulted(c, e)
  BY DisableRests
<1>2. EnterSettle(c, ok) = IF ok THEN d ELSE e
  BY DEF EnterSettle
<1> HIDE DEF e
<1>3. CASE ok
  <2>1. e \in Cells
    BY <1>1, <1>3 DEF RestsIn, Whole, Sound
  <2>2. d.phase = "DELAY" /\ d.settleAge = lag
    BY <2>1 DEF Cells
  <2>3. QED
    BY <1>2, <1>3, <2>2 DEF Dated
<1>4. CASE ~ok
  BY <1>1, <1>2, <1>4 DEF Faulted, Dated
<1>5. QED
  BY <1>3, <1>4

LEMMA NoteDates ==
  ASSUME NEW c, Whole(c), NEW ok \in BOOLEAN
  PROVE  HandleMotorService(c, ok) = c \/ Dated(HandleMotorService(c, ok))
<1>1. HandleMotorService(c, ok) \in {c, EnterSettle(c, ok), EnterFault(c)}
  BY DEF HandleMotorService
<1>2. Dated(EnterSettle(c, ok))
  BY SettleDates DEF Whole
<1>3. Dated(EnterFault(c))
  BY FaultRests DEF Whole, Faulted, Dated
<1>4. QED
  BY <1>1, <1>2, <1>3

LEMMA ServicedTimes ==
  ASSUME NEW c, Whole(c)
  PROVE  Serviced(c).phase = c.phase /\ Serviced(c).settleAge = c.settleAge
  BY DEF Serviced, Whole, Sound, Cells

LEMMA ContactTimes ==
  ASSUME NEW c, Whole(c), NEW ok \in BOOLEAN, lag \in 0..Cap,
         c.state \in {"AUTO_APPROACH", "AUTO_SETTLE"}
  PROVE  Timed(c, StopApproachOnContact(c, ok))
<1> DEFINE v == Serviced(c)
           s == HandleMotorService(v, ok)
           d == IF s.state = "AUTO_APPROACH" THEN EnterSettle(s, ok) ELSE s
           e == [d EXCEPT !.contacted = TRUE, !.pending = FALSE,
                          !.cycleAge = IF d.contacted THEN @ ELSE d.sampleAge]
<1>1. Whole(v) /\ v.state = c.state /\ v.phase = c.phase /\ v.settleAge = c.settleAge
  BY ServicedWhole, ServicedTimes
<1>2. s = v \/ Dated(s)
  BY <1>1, NoteDates
<1>3. Whole(s)
  BY <1>1, ServiceNotes DEF Faulted, Settles, RestsIn
<1>4. StopApproachOnContact(c, ok) =
        IF ~ServiceOk(c, ok) THEN EnterFault(v)
        ELSE IF d.state # "AUTO_SETTLE" THEN d ELSE e
  BY DEF StopApproachOnContact
<1> HIDE DEF v, s
<1>5. Timed(c, d)
  <2>1. Sound(s)
    BY <1>3 DEF Whole
  <2>2. CASE s.state = "AUTO_APPROACH"
    BY <2>1, <2>2, SettleDates DEF Timed
  <2>3. CASE s.state # "AUTO_APPROACH"
    BY <1>1, <1>2, <2>3 DEF Timed, Dated
  <2>4. QED
    BY <2>2, <2>3
<1>6. d \in Cells
  <2>1. Faulted(s, EnterSettle(s, ok)) \/ Settles(s, EnterSettle(s, ok))
    BY <1>3, SettleRests DEF Whole
  <2>2. QED
    BY <1>3, <2>1 DEF Faulted, Settles, RestsIn, Whole, Sound
<1> HIDE DEF d
<1>7. e.state = d.state /\ e.phase = d.phase /\ e.settleAge = d.settleAge
  BY <1>6 DEF Cells
<1>8. Timed(c, EnterFault(v))
  BY <1>1, FaultRests DEF Whole, Faulted, Timed, Dated
<1> HIDE DEF e
<1>9. Timed(c, e)
  BY <1>5, <1>7 DEF Timed, Dated
<1>10. QED
  BY <1>4, <1>5, <1>8, <1>9

LEMMA CheckTimes ==
  ASSUME NEW c, Whole(c), NEW ok \in BOOLEAN, lag \in 0..Cap
  PROVE  CheckPressureSafety(c, ok) = c \/ Timed(c, CheckPressureSafety(c, ok))
<1>1. CheckPressureSafety(c, ok) \in {c, EnterFault(c)}
      \/ /\ HasCurrentApproachContact(c)
         /\ CheckPressureSafety(c, ok) = StopApproachOnContact(c, ok)
  BY DEF CheckPressureSafety
<1>2. Timed(c, EnterFault(c))
  BY FaultRests DEF Whole, Faulted, Timed, Dated
<1>3. HasCurrentApproachContact(c) => Timed(c, StopApproachOnContact(c, ok))
  BY ContactTimes DEF HasCurrentApproachContact
<1>4. QED
  BY <1>1, <1>2, <1>3

\* A pulse that starts, or is inhibited.
LEMMA CorrectionDates ==
  ASSUME NEW c, Sound(c), NEW ok \in BOOLEAN, NEW inhibited \in BOOLEAN,
         NEW direction \in {"PRESS", "RELEASE"},
         c.state \notin Motion, c.pending => ~c.contacted
  PROVE  Dated(StartCorrection(c, direction, ok, inhibited))
<1>1. CASE inhibited
  BY <1>1, SettleDates DEF StartCorrection
<1>2. CASE ~inhibited
  <2> DEFINE d == StartPulse(c, direction, "AUTO_PULSE", ok)
  <2>1. Faulted(c, d) \/ Drives(c, d)
    BY PulseDrives DEF Motion
  <2>2. d = StartCorrection(c, direction, ok, inhibited)
    BY <1>2 DEF StartCorrection
  <2> HIDE DEF d
  <2>3. QED
    BY <2>1, <2>2 DEF Faulted, Drives, Dated, Motion
<1>3. QED
  BY <1>1, <1>2

LEMMA ApproachDates ==
  ASSUME NEW c, Sound(c), NEW ok \in BOOLEAN, c.state \notin Motion
  PROVE  Dated(StartApproach(c, ok))
<1>1. Faulted(c, StartApproach(c, ok)) \/ Drives(c, StartApproach(c, ok))
  BY ApproachDrives
<1>2. QED
  BY <1>1 DEF Faulted, Drives, Dated, Motion

LEMMA SettledDates ==
  ASSUME NEW c, Sound(c), NEW ok \in BOOLEAN, NEW inhibited \in BOOLEAN,
         c.state = "AUTO_SETTLE", c.level \in Valid \ {"raw"},
         c.level \in Contact => ~c.pending
  PROVE  Dated(ClassifySettledSample(c, ok, inhibited))
<1> DEFINE d == ClassifySettledSample(c, ok, inhibited)
<1>1. c.state \notin Motion
  BY DEF Motion
<1>2. CASE c.level \in NoContact
  <2>1. d = StartApproach(c, ok)
    BY <1>2 DEF ClassifySettledSample, NoContact, Low, High
  <2>2. QED
    BY <1>1, <2>1, ApproachDates
<1>3. CASE c.level \in Low
  <2>1. d = StartCorrection(c, "PRESS", ok, inhibited)
    BY <1>3 DEF ClassifySettledSample, NoContact, Low, High
  <2>2. ~c.pending
    BY <1>3 DEF Contact
  <2>3. QED
    BY <1>1, <2>1, <2>2, CorrectionDates
<1>4. CASE c.level = "inside"
  <2>1. d = EnterHold(c, ok)
    BY <1>4 DEF ClassifySettledSample, NoContact, Low, High
  <2>2. ~c.pending
    BY <1>4 DEF Contact
  <2>3. Faulted(c, EnterHold(c, ok)) \/ RestsIn("AUTO_HOLD", c, EnterHold(c, ok))
    BY <2>2, HoldRests
  <2>4. QED
    BY <2>1, <2>3 DEF Faulted, RestsIn, Dated
<1>5. CASE c.level \in High
  <2>1. d = StartCorrection(c, "RELEASE", ok, inhibited)
    BY <1>5 DEF ClassifySettledSample, NoContact, Low, High
  <2>2. ~c.pending
    BY <1>5 DEF Contact
  <2>3. QED
    BY <1>1, <2>1, <2>2, CorrectionDates
<1>6. QED
  BY <1>2, <1>3, <1>4, <1>5 DEF Valid, Contact

LEMMA HoldDates ==
  ASSUME NEW c, Whole(c), NEW ok \in BOOLEAN, NEW inhibited \in BOOLEAN,
         lag \in 0..Cap, c.state = "AUTO_HOLD"
  PROVE  Dated(ClassifyHoldSample(c, ok, inhibited))
<1> DEFINE e == [c EXCEPT !.cycleAge = lag]
           d == ClassifyHoldSample(c, ok, inhibited)
<1>1. c \in Cells /\ (c.pending => ~c.contacted)
  BY DEF Whole, Sound, Latched
<1>2. e \in Cells
  BY <1>1 DEF Cells
<1>3. /\ e.out = c.out /\ e.active = c.active /\ e.event = c.event
      /\ e.completion = c.completion /\ e.owned = c.owned /\ e.state = c.state
      /\ e.contacted = c.contacted /\ e.pending = c.pending
  BY <1>1 DEF Cells
<1>4. \/ d = StartApproach(e, ok)
      \/ d = StartCorrection(e, "PRESS", ok, inhibited)
      \/ d = StartCorrection(e, "RELEASE", ok, inhibited)
      \/ d = DisableInto(c, ok, "AUTO_HOLD")
  BY DEF ClassifyHoldSample
<1> HIDE DEF e, d
<1>5. Sound(e) /\ e.state \notin Motion /\ (e.pending => ~e.contacted)
  BY <1>1, <1>2, <1>3 DEF Whole, Sound, Motion
<1>6. CASE d = DisableInto(c, ok, "AUTO_HOLD")
  <2>1. Faulted(c, d) \/ RestsIn("AUTO_HOLD", c, d)
    BY <1>1, <1>6, DisableRests DEF Whole
  <2>2. QED
    BY <2>1 DEF d, Faulted, RestsIn, Dated
<1>7. CASE d # DisableInto(c, ok, "AUTO_HOLD")
  <2>1. Dated(d)
    BY <1>4, <1>5, <1>7, ApproachDates, CorrectionDates
  <2>2. QED
    BY <2>1 DEF d
<1>8. QED
  BY <1>6, <1>7

\* What a sample decides: a settled one after the gate, a holding one at any time.
Decides(c, sample, d) ==
    /\ Timed(c, d)
    /\ d.state = "AUTO_HOLD" => c.state \in {"AUTO_SETTLE", "AUTO_HOLD"}
    /\ c.state = "AUTO_SETTLE" /\ d.state \in Motion \cup {"AUTO_HOLD"} =>
         c.phase = "SAMPLE" /\ sample.age < c.settleAge

LEMMA SampleDecides ==
  ASSUME NEW c, Whole(c), NEW sample \in Sample, NEW ok \in BOOLEAN,
         NEW healthy \in BOOLEAN, NEW inhibited \in BOOLEAN, lag \in 0..Cap
  PROVE  Decides(c, sample, HandlePressureSample(c, sample, ok, healthy, inhibited))
<1> DEFINE s == [c EXCEPT !.level = sample.level, !.sampleAge = sample.age]
           k == CheckPressureSafety(s, ok)
           t == IF k.level \in Contact
                THEN [k EXCEPT !.contacted = TRUE, !.pending = FALSE] ELSE k
           d == HandlePressureSample(c, sample, ok, healthy, inhibited)
<1> SUFFICES Decides(c, sample, d)
  OBVIOUS
<1>1. sample.level \in Valid \cup {"invalid"} /\ sample.age \in 0..Cap
  BY DEF Sample
<1>2. s \in Cells
  BY <1>1 DEF Whole, Sound, Cells
<1>3. /\ s.out = c.out /\ s.active = c.active /\ s.event = c.event
      /\ s.completion = c.completion /\ s.owned = c.owned /\ s.state = c.state
      /\ s.contacted = c.contacted /\ s.pending = c.pending
      /\ s.phase = c.phase /\ s.settleAge = c.settleAge
      /\ s.sampleAge = sample.age /\ s.level = sample.level
  BY DEF Whole, Sound, Cells
<1>4. \/ d = EnterFault(s)
      \/ d = s /\ s.state \notin Automatic
      \/ /\ s.level \notin {"raw", "invalid"}
         /\ \/ d = k
            \/ k.state = "AUTO_HOLD" /\ d = ClassifyHoldSample(k, ok, inhibited)
            \/ /\ k.state = "AUTO_SETTLE" /\ SettledSample(k)
               /\ d = ClassifySettledSample(t, ok, inhibited)
  BY DEF HandlePressureSample
<1> HIDE DEF s, d
<1>5. Whole(s)
  BY <1>2, <1>3 DEF Whole, Sound, Latched
<1>6. Faulted(s, EnterFault(s))
  BY <1>5, FaultRests DEF Whole
<1>7. \/ k = s
      \/ Faulted(s, k)
      \/ Contacts(s, k) /\ s.state \in {"AUTO_APPROACH", "AUTO_SETTLE"}
  BY <1>5, CheckGuards
<1>8. k = s \/ Timed(s, k)
  BY <1>5, CheckTimes
<1> HIDE DEF k, t
<1>9. CASE d = EnterFault(s) \/ (d = s /\ s.state \notin Automatic)
  BY <1>3, <1>6, <1>9 DEF Faulted, Decides, Timed, Dated, Automatic, Motion
<1>10. CASE d = k
  <2>1. Timed(c, d)
    BY <1>3, <1>8, <1>10 DEF Timed, Dated
  <2>2. k.state = s.state \/ k.state \in {"FAULT", "AUTO_SETTLE"}
    BY <1>7 DEF Faulted, Contacts
  <2>3. QED
    BY <1>3, <1>10, <2>1, <2>2 DEF Decides, Motion
<1>11. CASE k.state = "AUTO_HOLD" /\ d = ClassifyHoldSample(k, ok, inhibited)
  <2>1. k = s
    BY <1>7, <1>11 DEF Faulted, Contacts
  <2>2. Dated(d)
    BY <1>5, <1>11, <2>1, HoldDates
  <2>3. QED
    BY <1>3, <1>11, <2>1, <2>2 DEF Decides, Timed
<1>12. CASE /\ s.level \notin {"raw", "invalid"}
            /\ k.state = "AUTO_SETTLE" /\ SettledSample(k)
            /\ d = ClassifySettledSample(t, ok, inhibited)
  <2>1. Whole(k) /\ SamePressure(s, k)
    BY <1>5, <1>7 DEF Faulted, Contacts, SamePressure
  <2>2. k.level \in Valid \ {"raw"}
    BY <1>1, <1>3, <1>12, <2>1 DEF SamePressure
  <2>3. k \in Cells
    BY <2>1 DEF Whole, Sound
  <2>4. t \in Cells
    BY <2>3 DEF t, Cells
  <2>5. /\ t.out = k.out /\ t.active = k.active /\ t.event = k.event
        /\ t.completion = k.completion /\ t.owned = k.owned /\ t.state = k.state
        /\ t.level = k.level /\ (t.level \in Contact => ~t.pending)
    BY <2>3 DEF t, Cells
  <2>6. Sound(t)
    BY <2>1, <2>4, <2>5 DEF Whole, Sound
  <2>7. Dated(d)
    BY <1>12, <2>2, <2>5, <2>6, SettledDates
  <2>8. s.state = "AUTO_SETTLE" /\ s.phase = "SAMPLE" /\ sample.age < s.settleAge
    <3>1. k.phase = "SAMPLE" /\ k.sampleAge < k.settleAge
      BY <1>12 DEF SettledSample
    <3>2. ~Dated(k)
      BY <1>12, <3>1 DEF Dated
    <3>3. s.state = "AUTO_SETTLE" /\ k.phase = s.phase /\ k.settleAge = s.settleAge
      BY <1>8, <1>12, <3>2 DEF Timed
    <3>4. QED
      BY <1>3, <2>1, <3>1, <3>3 DEF SamePressure
  <2>9. QED
    BY <1>3, <2>7, <2>8 DEF Decides, Timed
<1>13. QED
  BY <1>4, <1>9, <1>10, <1>11, <1>12

-----------------------------------------------------------------------------
\* Samples are delivered in the order they were taken.
Ordered ==
    /\ published # Nothing =>
         /\ published.age <= cell.sampleAge
         /\ snapshot # Nothing => published.age <= snapshot.age
    /\ snapshot # Nothing => snapshot.age <= cell.sampleAge

\* restAge and a sample's age, as SettledDecision relates them; a saturated restAge
\* is above all of them.
RestsSince(age) == restAge = Cap \/ restAge - age > SettleDelay - MaxLag

\* The delay is dated no more than a lag before the rest began, the gate a
\* settle delay later; a hold rests on what was taken after the gate.
Settling ==
    /\ cell.state = "AUTO_SETTLE" /\ cell.phase = "DELAY" =>
         cell.settleAge <= restAge + MaxLag
    /\ cell.state = "AUTO_SETTLE" /\ cell.phase = "SAMPLE" =>
         restAge = Cap \/ cell.settleAge + SettleDelay <= restAge + MaxLag
    /\ cell.state = "AUTO_HOLD" => RestsSince(cell.sampleAge)

\* The numbers of the invariant are integers.
LEMMA Numbers ==
  ASSUME Inv
  PROVE  /\ cell.sampleAge \in 0..Cap /\ cell.settleAge \in 0..Cap
         /\ restAge \in 0..Cap /\ lag \in 0..MaxLag
         /\ cell.phase \in {"DELAY", "SAMPLE"} /\ cell \in Cells
  BY DEF Inv, TypeOK, Cells

\* The output is off while the machine settles or holds, so no step but an entry
\* dates the rest again.
LEMMA RestGoesOn ==
  ASSUME Inv, Observe, cell.state \in {"AUTO_SETTLE", "AUTO_HOLD"}
  PROVE  restAge' = restAge
<1>1. cell.out = "OFF"
  BY DEF Inv, Whole, Sound, Motion
<1>2. QED
  BY <1>1 DEF Observe, RestBegins

\* A call keeps Settling when it starts the delay again or leaves it alone, and a
\* hold it enters is a decision.
LEMMA TimedKeeps ==
  ASSUME Inv, Settling, Observe, cell' \in Cells, lag' = lag, Timed(cell, cell'),
         cell'.state = "AUTO_HOLD" =>
           /\ cell.state \in {"AUTO_SETTLE", "AUTO_HOLD"}
           /\ RestsSince(cell'.sampleAge)
  PROVE  Settling'
<1>1. /\ restAge \in 0..Cap /\ lag \in 0..MaxLag /\ restAge' \in 0..Cap
      /\ Cap \in Nat /\ MaxLag \in Nat
  BY Numbers, Constants, Clocks DEF Observe, RestBegins
<1>2. CASE Dated(cell') /\ cell'.state = "AUTO_SETTLE"
  <2>1. cell'.phase = "DELAY" /\ cell'.settleAge = lag
    BY <1>2 DEF Dated
  <2>2. \A a, b, m \in Int : 0 <= b /\ a <= m => a <= b + m
    OBVIOUS
  <2>3. lag \in Int /\ lag <= MaxLag /\ restAge' \in Int /\ 0 <= restAge' /\ MaxLag \in Int
    BY <1>1
  <2>4. lag <= restAge' + MaxLag
    BY <2>2, <2>3
  <2>5. QED
    BY <1>2, <2>1, <2>4 DEF Settling
<1>3. CASE ~Dated(cell') /\ cell'.state = "AUTO_SETTLE"
  <2>1. cell.state = "AUTO_SETTLE" /\ cell'.phase = cell.phase
        /\ cell'.settleAge = cell.settleAge
    BY <1>3 DEF Timed
  <2>2. restAge' = restAge
    BY <2>1, RestGoesOn
  <2>3. QED
    BY <1>3, <2>1, <2>2 DEF Settling
<1>4. CASE cell'.state = "AUTO_HOLD"
  <2>1. restAge' = restAge
    BY <1>4, RestGoesOn
  <2>2. QED
    BY <1>4, <2>1 DEF Settling, RestsSince
<1>5. CASE cell'.state \notin {"AUTO_SETTLE", "AUTO_HOLD"}
  BY <1>5 DEF Settling
<1>6. QED
  BY <1>2, <1>3, <1>4, <1>5

\* Every call but the delivery of a sample leaves a hold as it is, and begins none.
LEMMA QuietTimes ==
  ASSUME Inv, Settling, Observe, cell' \in Cells, lag' = lag,
         cell' = cell \/ Timed(cell, cell'),
         cell'.state = "AUTO_HOLD" => cell.state = "AUTO_HOLD",
         cell'.sampleAge = cell.sampleAge
  PROVE  Settling'
<1>1. Timed(cell, cell')
  BY DEF Timed, Dated
<1>2. cell.state = "AUTO_HOLD" => RestsSince(cell.sampleAge)
  BY DEF Settling
<1>3. QED
  BY <1>1, <1>2, TimedKeeps

LEMMA PressureSettles ==
  ASSUME Inv, Ordered, Settling, ServicePressure
  PROVE  /\ Settling'
         /\ /\ cell.state \in {"AUTO_SETTLE", "AUTO_HOLD"}
            /\ cell'.state \in (Motion \cup {"AUTO_HOLD"}) \ {cell.state}
            => restAge' - cell'.sampleAge > SettleDelay - MaxLag
<1>1. PICK ok \in BOOLEAN, healthy \in BOOLEAN, inhibited \in BOOLEAN :
        cell' = HandlePressureSample(cell, snapshot, ok, healthy, inhibited)
  BY VerdictType DEF ServicePressure
<1>2. snapshot \in Sample /\ snapshot # Nothing /\ Whole(cell) /\ Observe /\ lag' = lag
  BY DEF Inv, ServicePressure, Sample, Nothing, Valid, NoContact, Contact, Low, High
<1>3. Receives(cell, snapshot, cell') /\ Decides(cell, snapshot, cell')
  BY <1>1, <1>2, SampleHandled, SampleDecides, LagType
<1>4. /\ snapshot.age \in 0..Cap /\ snapshot.age <= cell.sampleAge
      /\ cell'.sampleAge = snapshot.age /\ cell' \in Cells
  BY <1>2, <1>3 DEF Sample, Ordered, Receives, Whole, Sound
<1>5. /\ cell.sampleAge \in Int /\ cell.settleAge \in Int /\ restAge \in Int
      /\ snapshot.age \in Int /\ lag \in Int /\ MaxLag \in Nat /\ SettleDelay \in Nat
      /\ Freshness \in Nat /\ Cap \in Nat /\ Cap > Freshness + SettleDelay + 2 * MaxLag
      /\ lag <= MaxLag
  BY <1>4, Numbers, Clocks, TimeAssumption
<1>6. ASSUME cell.state \in {"AUTO_SETTLE", "AUTO_HOLD"},
             cell'.state \in Motion \cup {"AUTO_HOLD"}
      PROVE  RestsSince(snapshot.age)
  <2>1. CASE cell.state = "AUTO_SETTLE"
    <3>1. cell.phase = "SAMPLE" /\ snapshot.age < cell.settleAge
      BY <1>3, <1>6, <2>1 DEF Decides
    <3>2. restAge = Cap \/ cell.settleAge + SettleDelay <= restAge + MaxLag
      BY <2>1, <3>1 DEF Settling
    <3>3. QED
      BY <1>5, <3>1, <3>2 DEF RestsSince
  <2>2. CASE cell.state = "AUTO_HOLD"
    <3>1. RestsSince(cell.sampleAge)
      BY <2>2 DEF Settling
    <3>2. QED
      BY <1>4, <1>5, <3>1 DEF RestsSince
  <2>3. QED
    BY <1>6, <2>1, <2>2
<1>7. Settling'
  <2>1. Timed(cell, cell')
        /\ (cell'.state = "AUTO_HOLD" => cell.state \in {"AUTO_SETTLE", "AUTO_HOLD"})
    BY <1>3 DEF Decides
  <2>2. QED
    BY <1>2, <1>4, <1>6, <2>1, TimedKeeps
<1>8. ASSUME cell.state \in {"AUTO_SETTLE", "AUTO_HOLD"},
             cell'.state \in Motion \cup {"AUTO_HOLD"}
      PROVE  restAge' - cell'.sampleAge > SettleDelay - MaxLag
  <2>1. restAge' = restAge
    BY <1>2, <1>8, RestGoesOn
  <2>2. snapshot.age - lag <= Freshness
    BY <1>3, <1>4, <1>8 DEF Receives, Age, Automatic, Motion
  <2>3. RestsSince(snapshot.age)
    BY <1>6, <1>8
  <2>4. restAge - snapshot.age > SettleDelay - MaxLag
    BY <1>5, <2>2, <2>3 DEF RestsSince
  <2>5. QED
    BY <1>4, <2>1, <2>4
<1>9. QED
  BY <1>7, <1>8

\* A drive or a hold that a settling or holding machine enters.
Enters ==
    /\ cell.state \in {"AUTO_SETTLE", "AUTO_HOLD"}
    /\ cell'.state \in (Motion \cup {"AUTO_HOLD"}) \ {cell.state}

LEMMA SafetySettles ==
  ASSUME Inv, Settling, ServiceSafety
  PROVE  Settling' /\ ~Enters /\ cell'.sampleAge = cell.sampleAge
<1>1. PICK ok \in BOOLEAN : cell' = CheckPressureSafety(cell, ok)
  BY VerdictType DEF ServiceSafety
<1>2. Whole(cell) /\ lag \in 0..Cap /\ Observe /\ lag' = lag
  BY LagType DEF Inv, ServiceSafety
<1>3. cell' = cell \/ Faulted(cell, cell') \/ Contacts(cell, cell')
  BY <1>1, <1>2, CheckGuards
<1>4. cell' = cell \/ Timed(cell, cell')
  BY <1>1, <1>2, CheckTimes
<1>5. /\ cell' \in Cells /\ cell'.sampleAge = cell.sampleAge
      /\ cell'.state \in {cell.state, "FAULT", "AUTO_SETTLE"}
  BY <1>2, <1>3 DEF Faulted, Contacts, SamePressure, Whole, Sound
<1>6. Settling'
  BY <1>2, <1>4, <1>5, QuietTimes
<1>7. QED
  BY <1>5, <1>6 DEF Enters, Motion

LEMMA MotorSettles ==
  ASSUME Inv, Settling, ServiceMotor
  PROVE  Settling' /\ ~Enters /\ cell'.sampleAge = cell.sampleAge
<1> DEFINE v == Serviced(cell)
<1>1. Whole(cell) /\ Observe /\ lag' = lag
  BY DEF Inv, ServiceMotor
<1>2. /\ Whole(v) /\ SamePressure(cell, v) /\ v.state = cell.state
      /\ v.phase = cell.phase /\ v.settleAge = cell.settleAge
  BY <1>1, ServicedWhole, ServicedTimes
<1>3. cell' = v \/ cell' = EnterFault(v)
  BY DEF ServiceMotor
<1> HIDE DEF v
<1>4. Faulted(v, EnterFault(v))
  BY <1>2, FaultRests DEF Whole
<1>5. Timed(cell, cell')
  BY <1>2, <1>3, <1>4 DEF Timed, Dated, Faulted
<1>6. /\ cell' \in Cells /\ cell'.sampleAge = cell.sampleAge
      /\ cell'.state \in {cell.state, "FAULT"}
  BY <1>2, <1>3, <1>4 DEF Faulted, SamePressure, Whole, Sound
<1>7. Settling'
  BY <1>1, <1>5, <1>6, QuietTimes
<1>8. QED
  BY <1>6, <1>7 DEF Enters, Motion

LEMMA NoteSettles ==
  ASSUME Inv, Settling, HandleMotor
  PROVE  Settling' /\ ~Enters /\ cell'.sampleAge = cell.sampleAge
<1>1. PICK ok \in BOOLEAN : cell' = HandleMotorService(cell, ok)
  BY VerdictType DEF HandleMotor
<1>2. Whole(cell) /\ lag \in 0..Cap /\ Observe /\ lag' = lag
  BY LagType DEF Inv, HandleMotor
<1>3. cell' = cell \/ Faulted(cell, cell') \/ Settles(cell, cell')
  BY <1>1, <1>2, ServiceNotes
<1>4. cell' = cell \/ Timed(cell, cell')
  BY <1>1, <1>2, NoteDates DEF Timed
<1>5. /\ cell' \in Cells /\ cell'.sampleAge = cell.sampleAge
      /\ cell'.state \in {cell.state, "FAULT", "AUTO_SETTLE"}
  BY <1>2, <1>3 DEF Faulted, Settles, RestsIn, SamePressure, Whole, Sound
<1>6. Settling'
  BY <1>2, <1>4, <1>5, QuietTimes
<1>7. QED
  BY <1>5, <1>6 DEF Enters, Motion

LEMMA GuardSettles ==
  ASSUME Inv, Settling, Guard
  PROVE  Settling' /\ ~Enters /\ cell'.sampleAge = cell.sampleAge
<1>1. Whole(cell) /\ Observe /\ lag' = lag
  BY DEF Inv, Guard
<1>2. cell' = cell \/ Faulted(cell, cell')
  BY <1>1, FaultRests DEF Guard, Whole
<1>3. cell' = cell \/ Timed(cell, cell')
  BY <1>2 DEF Faulted, Timed, Dated
<1>4. /\ cell' \in Cells /\ cell'.sampleAge = cell.sampleAge
      /\ cell'.state \in {cell.state, "FAULT"}
  BY <1>1, <1>2 DEF Faulted, SamePressure, Whole, Sound
<1>5. Settling'
  BY <1>1, <1>3, <1>4, QuietTimes
<1>6. QED
  BY <1>4, <1>5 DEF Enters, Motion

\* A START begins with an approach or with the delay.
LEMMA CommandSettles ==
  ASSUME Inv, Settling, Command
  PROVE  Settling' /\ ~Enters /\ cell'.sampleAge = cell.sampleAge
<1>1. PICK ok \in BOOLEAN, healthy \in BOOLEAN :
        cell' \in {cell, Stop(cell, ok), AutoStart(cell, ok, healthy)}
  BY VerdictType DEF Command
<1>2. Whole(cell) /\ lag \in 0..Cap /\ Observe /\ lag' = lag
  BY LagType DEF Inv, Command
<1>3. LET d == Stop(cell, ok)
      IN  Whole(d) /\ SamePressure(cell, d) /\ d.state \in {"FAULT", "IDLE"}
  BY <1>2, StopRests
<1>4. LET d == AutoStart(cell, ok, healthy)
      IN  d = cell \/ (cell.state = "IDLE" /\ Whole(d) /\ SamePressure(cell, d))
  BY <1>2, StartBegins
<1>5. ASSUME cell.state = "IDLE"
      PROVE  LET d == AutoStart(cell, ok, healthy)
             IN  d = cell \/ (Dated(d) /\ d.state # "AUTO_HOLD")
  <2> DEFINE s == [cell EXCEPT !.cycleAge = lag,
                               !.contacted = cell.level \in Contact,
                               !.pending = cell.level \notin Contact]
             d == AutoStart(cell, ok, healthy)
  <2>1. d \in {cell, EnterFault(cell), StartApproach(s, ok), EnterSettle(s, ok)}
    BY DEF AutoStart
  <2>2. s \in Cells
    <3>1. cell \in Cells
      BY <1>2 DEF Whole, Sound
    <3>2. (cell.level \in Contact) \in BOOLEAN /\ (cell.level \notin Contact) \in BOOLEAN
      OBVIOUS
    <3>3. ASSUME NEW touches \in BOOLEAN, NEW searches \in BOOLEAN
          PROVE  [cell EXCEPT !.cycleAge = lag, !.contacted = touches,
                              !.pending = searches] \in Cells
      BY <1>2, <3>1 DEF Cells
    <3>4. QED
      BY <3>2, <3>3, Zenon
  <2>3. /\ s.out = cell.out /\ s.active = cell.active /\ s.event = cell.event
        /\ s.completion = cell.completion /\ s.owned = cell.owned
        /\ s.state = cell.state
    BY <1>2 DEF Whole, Sound, Cells
  <2> HIDE DEF s, d
  <2>4. Sound(s) /\ s.state \notin Motion
    BY <1>2, <1>5, <2>2, <2>3 DEF Whole, Sound, Motion
  <2>5. Faulted(s, StartApproach(s, ok)) \/ Drives(s, StartApproach(s, ok))
    BY <2>4, ApproachDrives
  <2>6. Faulted(s, EnterSettle(s, ok)) \/ Settles(s, EnterSettle(s, ok))
    BY <1>2, <2>4, SettleRests
  <2>7. Dated(EnterSettle(s, ok)) /\ Dated(StartApproach(s, ok))
    BY <2>4, SettleDates, ApproachDates
  <2>8. Faulted(cell, EnterFault(cell))
    BY <1>2, FaultRests DEF Whole
  <2>9. d = cell \/ (Dated(d) /\ d.state # "AUTO_HOLD")
    BY <2>1, <2>5, <2>6, <2>7, <2>8
    DEF Faulted, Drives, Settles, RestsIn, Dated, Motion
  <2>10. QED
    BY <2>9 DEF d
<1>6. \/ cell' = cell
      \/ cell'.state \in {"FAULT", "IDLE"} /\ Whole(cell') /\ SamePressure(cell, cell')
      \/ /\ cell.state = "IDLE" /\ Whole(cell') /\ SamePressure(cell, cell')
         /\ Dated(cell') /\ cell'.state # "AUTO_HOLD"
  BY <1>1, <1>3, <1>4, <1>5
<1>7. cell' = cell \/ Timed(cell, cell')
  BY <1>6 DEF Timed, Dated
<1>8. cell' \in Cells /\ cell'.sampleAge = cell.sampleAge
  BY <1>2, <1>6 DEF SamePressure, Whole, Sound
<1>9. cell'.state = "AUTO_HOLD" => cell.state = "AUTO_HOLD"
  BY <1>6
<1>10. Settling'
  BY <1>2, <1>7, <1>8, <1>9, QuietTimes
<1>11. ~Enters
  BY <1>6 DEF Enters, Motion
<1>12. QED
  BY <1>8, <1>10, <1>11

\* The gate opens a settle delay after the stamp of the delay.
LEMMA TickSettles ==
  ASSUME Inv, Settling, MachineTick
  PROVE  Settling' /\ ~Enters /\ cell'.sampleAge = cell.sampleAge
<1> DEFINE d == [cell EXCEPT !.phase = "SAMPLE", !.settleAge = lag]
<1>1. Whole(cell) /\ lag \in 0..Cap /\ Observe /\ lag' = lag /\ cell' = OpenGate(cell)
  BY LagType DEF Inv, MachineTick
<1>2. Whole(cell') /\ SamePressure(cell, cell') /\ cell'.state = cell.state
  BY <1>1, GateOpens
<1>3. cell' \in Cells /\ cell'.sampleAge = cell.sampleAge /\ ~Enters
  BY <1>2 DEF Whole, Sound, SamePressure, Enters, Motion
<1>4. CASE /\ cell.state = "AUTO_SETTLE" /\ cell.phase = "DELAY"
           /\ Age(cell.settleAge) >= SettleDelay
  <2>1. cell' = d
    BY <1>1, <1>4 DEF OpenGate
  <2>2. d.phase = "SAMPLE" /\ d.settleAge = lag
    BY <1>1 DEF Whole, Sound, Cells
  <2> HIDE DEF d
  <2>3. restAge' = restAge
    BY <1>1, <1>4, RestGoesOn
  <2>4. /\ cell.settleAge <= restAge + MaxLag /\ cell.settleAge - lag >= SettleDelay
        /\ cell.settleAge \in Int /\ lag \in Int /\ restAge \in Int
        /\ MaxLag \in Int /\ SettleDelay \in Int
    BY <1>4, Numbers, Clocks DEF Settling, Age
  <2>5. lag + SettleDelay <= restAge + MaxLag
    BY <2>4
  <2>6. QED
    BY <1>2, <1>3, <1>4, <2>1, <2>2, <2>3, <2>5 DEF Settling
<1>5. CASE cell' = cell
  BY <1>1, <1>3, <1>5, QuietTimes
<1>6. QED
  BY <1>1, <1>3, <1>4, <1>5 DEF OpenGate

\* TIM5 ends no drive of a machine that settles or holds.
LEMMA ExpireSettles ==
  ASSUME Inv, Settling, Expire
  PROVE  Settling' /\ ~Enters /\ cell'.sampleAge = cell.sampleAge
<1>1. cell'.state = cell.state /\ cell'.sampleAge = cell.sampleAge
  BY ExpireEnds DEF SamePressure
<1>2. cell.state \notin {"AUTO_SETTLE", "AUTO_HOLD"}
  BY DEF Inv, Whole, Sound, Motion, Expire
<1>3. QED
  BY <1>1, <1>2 DEF Settling, Enters

LEMMA OlderTogether ==
  ASSUME NEW a \in 0..Cap, NEW b \in 0..Cap, NEW k \in Int
  PROVE  /\ a + k <= b => Older(b) = Cap \/ Older(a) + k <= Older(b)
         /\ a <= b + k /\ k >= 0 => Older(a) <= Older(b) + k
         /\ b = Cap => Older(b) = Cap
         /\ a <= b => Older(a) <= Older(b)
  BY Clocks DEF Older

LEMMA PassSettles ==
  ASSUME Inv, Settling, Pass
  PROVE  Settling' /\ ~Enters
<1>1. /\ cell.sampleAge \in 0..Cap /\ cell.settleAge \in 0..Cap /\ restAge \in 0..Cap
      /\ Cap \in Nat /\ MaxLag \in Nat /\ SettleDelay \in Nat /\ cell \in Cells
  BY Numbers, Clocks
<1>2. /\ cell'.state = cell.state /\ cell'.phase = cell.phase
      /\ cell'.sampleAge = Older(cell.sampleAge)
      /\ cell.state = "AUTO_SETTLE" => cell'.settleAge = Older(cell.settleAge)
      /\ restAge' = Older(restAge)
  BY <1>1 DEF Pass, OlderIf, Cells
<1>3. /\ Older(cell.sampleAge) \in 0..Cap /\ Older(cell.settleAge) \in 0..Cap
      /\ Older(restAge) \in 0..Cap
  BY <1>1, Ages
<1>4. cell.settleAge <= restAge + MaxLag => Older(cell.settleAge) <= Older(restAge) + MaxLag
  BY <1>1, OlderTogether
<1>5. restAge = Cap => Older(restAge) = Cap
  BY <1>1, OlderTogether
<1>6. ASSUME cell.settleAge + SettleDelay <= restAge + MaxLag
      PROVE  Older(restAge) = Cap \/ Older(cell.settleAge) + SettleDelay <= Older(restAge) + MaxLag
  <2>1. cell.settleAge + (SettleDelay - MaxLag) <= restAge
    BY <1>1, <1>6
  <2>2. SettleDelay - MaxLag \in Int
    BY <1>1
  <2>3. Older(restAge) = Cap
        \/ Older(cell.settleAge) + (SettleDelay - MaxLag) <= Older(restAge)
    BY <1>1, <2>1, <2>2, OlderTogether
  <2>4. QED
    BY <1>1, <1>3, <2>3
<1>7. ASSUME restAge - cell.sampleAge > SettleDelay - MaxLag
      PROVE  Older(restAge) = Cap
             \/ Older(restAge) - Older(cell.sampleAge) > SettleDelay - MaxLag
  <2>1. cell.sampleAge + (SettleDelay - MaxLag + 1) <= restAge
    BY <1>1, <1>7
  <2>2. SettleDelay - MaxLag + 1 \in Int
    BY <1>1
  <2>3. Older(restAge) = Cap
        \/ Older(cell.sampleAge) + (SettleDelay - MaxLag + 1) <= Older(restAge)
    BY <1>1, <2>1, <2>2, OlderTogether
  <2>4. QED
    BY <1>1, <1>3, <2>3
<1>8. Settling'
  <2>1. CASE cell.state = "AUTO_SETTLE"
    BY <1>2, <1>4, <1>5, <1>6, <2>1 DEF Settling
  <2>2. CASE cell.state = "AUTO_HOLD"
    BY <1>2, <1>5, <1>7, <2>2 DEF Settling, RestsSince
  <2>3. QED
    BY <1>2, <2>1, <2>2 DEF Settling
<1>9. QED
  BY <1>2, <1>8 DEF Enters

\* Delivery keeps the order of the samples.
LEMMA OrderKept == ASSUME Inv, Ordered, Settling, [Next]_vars PROVE Ordered'
<1>1. CASE ReadSnapshot
  <2>1. cell' = cell /\ snapshot' = published /\ published' = Nothing
    BY <1>1 DEF ReadSnapshot
  <2>2. QED
    BY <2>1 DEF Ordered
<1>2. CASE ServicePressure
  <2>1. /\ snapshot' = Nothing /\ published' = published /\ snapshot \in Sample
        /\ snapshot # Nothing
    BY <1>2 DEF ServicePressure, Inv, Sample, Nothing, Valid, NoContact, Contact, Low, High
  <2>2. PICK ok \in BOOLEAN, healthy \in BOOLEAN, inhibited \in BOOLEAN :
          cell' = HandlePressureSample(cell, snapshot, ok, healthy, inhibited)
    BY <1>2, VerdictType DEF ServicePressure
  <2>3. cell'.sampleAge = snapshot.age
    BY <2>1, <2>2, SampleHandled, LagType DEF Receives, Inv
  <2>4. QED
    BY <2>1, <2>3 DEF Ordered
<1>3. CASE ServiceSafety \/ ServiceMotor \/ HandleMotor \/ Guard \/ Command
           \/ MachineTick \/ Expire
  <2>1. cell'.sampleAge = cell.sampleAge
    BY <1>3, SafetySettles, MotorSettles, NoteSettles, GuardSettles, CommandSettles,
       TickSettles, ExpireSettles
  <2>2. UNCHANGED <<published, snapshot>>
    BY <1>3 DEF ServiceSafety, ServiceMotor, HandleMotor, Guard, Command, MachineTick,
       Expire
  <2>3. QED
    BY <2>1, <2>2 DEF Ordered
<1>4. CASE Publish
  <2>1. UNCHANGED <<cell, snapshot>> /\ published'.age = 0
    BY <1>4 DEF Publish
  <2>2. cell.sampleAge \in 0..Cap /\ (snapshot # Nothing => snapshot.age \in 0..Cap)
    BY Numbers DEF Inv, TypeOK, Sample
  <2>3. QED
    BY <2>1, <2>2, Clocks DEF Ordered
<1>5. CASE Pass
  <2>1. \A s \in Sample \cup {Nothing} :
          /\ s.age \in 0..Cap
          /\ [s EXCEPT !.age = Older(s.age)].age = Older(s.age)
          /\ s = Nothing => [s EXCEPT !.age = Older(s.age)] = Nothing
    BY Clocks DEF Sample, Nothing, Older
  <2>2. /\ published \in Sample \cup {Nothing} /\ snapshot \in Sample \cup {Nothing}
        /\ cell.sampleAge \in 0..Cap
    BY Numbers DEF Inv, TypeOK
  <2>3. /\ published' = [published EXCEPT !.age = Older(published.age)]
        /\ snapshot' = [snapshot EXCEPT !.age = Older(snapshot.age)]
        /\ cell'.sampleAge = Older(cell.sampleAge)
    BY <1>5, Numbers DEF Pass, Cells
  <2>4. /\ published.age \in 0..Cap /\ snapshot.age \in 0..Cap
        /\ published'.age = Older(published.age) /\ snapshot'.age = Older(snapshot.age)
        /\ published = Nothing => published' = Nothing
        /\ snapshot = Nothing => snapshot' = Nothing
    BY <2>1, <2>2, <2>3
  <2>5. \A a, b \in 0..Cap : a <= b => Older(a) <= Older(b)
    BY OlderTogether
  <2>6. QED
    BY <2>2, <2>3, <2>4, <2>5 DEF Ordered
<1>6. CASE UNCHANGED vars
  BY <1>6 DEF vars, Ordered
<1>7. QED
  BY <1>1, <1>2, <1>3, <1>4, <1>5, <1>6 DEF Next, Main

LEMMA SettlingStep ==
  ASSUME Inv, Ordered, Settling, [Next]_vars
  PROVE  /\ Settling'
         /\ Enters => restAge' - cell'.sampleAge > SettleDelay - MaxLag
<1>1. CASE ServicePressure
  BY <1>1, PressureSettles DEF Enters
<1>2. CASE ServiceSafety \/ ServiceMotor \/ HandleMotor \/ Guard \/ Command
           \/ MachineTick \/ Expire
  BY <1>2, SafetySettles, MotorSettles, NoteSettles, GuardSettles, CommandSettles,
     TickSettles, ExpireSettles
<1>3. CASE Pass
  BY <1>3, PassSettles
<1>4. CASE ReadSnapshot \/ Publish \/ UNCHANGED vars
  <2>1. UNCHANGED <<cell, restAge>>
    BY <1>4 DEF ReadSnapshot, Publish, vars, history
  <2>2. QED
    BY <2>1 DEF Settling, RestsSince, Enters
<1>5. QED
  BY <1>1, <1>2, <1>3, <1>4 DEF Next, Main

-----------------------------------------------------------------------------
\* A drive after settling, or a hold, is decided on a sample that was taken after
\* START and with the output off for the settle delay, but for the lag that dates
\* START and the end of a drive: the settle gate of Machine_Tick and Machine_HandlePressureSample.
THEOREM DecidesSettled == Spec => SettledDecision
<1>1. Init => Ordered /\ Settling
  <2>1. Init => published = Nothing /\ snapshot = Nothing /\ cell.state = "IDLE"
    BY DEF Init, InitCell
  <2>2. QED
    BY <2>1 DEF Ordered, Settling
<1>2. Inv /\ Ordered /\ Settling /\ [Next]_vars => Ordered' /\ Settling'
  BY OrderKept, SettlingStep
<1>3. Inv /\ Ordered /\ Settling /\ [Next]_vars =>
        [ /\ cell.state \in {"AUTO_SETTLE", "AUTO_HOLD"}
          /\ cell'.state \in (Motion \cup {"AUTO_HOLD"}) \ {cell.state}
          => restAge' - cell'.sampleAge > SettleDelay - MaxLag ]_vars
  BY SettlingStep DEF Enters
<1>4. QED
  BY <1>1, <1>2, <1>3, Always, PTL DEF Spec, SettledDecision
=============================================================================
