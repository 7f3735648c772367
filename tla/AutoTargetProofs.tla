-------------------------- MODULE AutoTargetProofs --------------------------
(***************************************************************************)
(* Proofs about AutoTarget, for every value of its constants: the types of *)
(* the variables, who owns a motion, how old the pressure is, how long the *)
(* convergence budget runs, and that a bad end is a fault.                 *)
(*                                                                         *)
(* The machine is a set of functions from context to context, so each has  *)
(* a lemma that says what it does to a context that is Whole.              *)
(***************************************************************************)
EXTENDS AutoTarget, TLAPS

\* A context in which the executor's request and the machine's state agree: no
\* event while the bridge is on, no completion of a drive that still runs, and no
\* motion state without the one or the other.
Sound(c) ==
    /\ c \in Cells
    /\ c.out # "OFF" => c.active /\ c.event = "NONE"
    /\ c.event # "NONE" => c.active
    /\ c.active => c.owned /\ c.completion = "NONE"
    /\ c.owned <=> c.state \in Motion
    /\ c.state \in Motion /\ ~c.active => c.completion # "NONE"

\* And one whose two contact flags agree.
Latched(c) == c.pending => ~c.contacted \/ c.state \in {"AUTO_APPROACH", "AUTO_SETTLE"}
Whole(c) == Sound(c) /\ Latched(c)

\* EndedBadly, of any context.
Bad(c) ==
    /\ c.state \in Motion
    /\ {c.event, c.completion} \cap {"BACKSTOP", "ERROR"} # {}

SamePressure(c, d) == d.sampleAge = c.sampleAge /\ d.level = c.level
SameCycle(c, d) == d.contacted = c.contacted /\ d.cycleAge = c.cycleAge

\* The outcomes of an operation on c: the fault, and rest in another state.
Faulted(c, d) == Whole(d) /\ SamePressure(c, d) /\ d.state = "FAULT"
RestsIn(state, c, d) ==
    Whole(d) /\ SamePressure(c, d) /\ d.state = state /\ d.contacted = c.contacted
Settles(c, d) == RestsIn("AUTO_SETTLE", c, d) /\ d.cycleAge = c.cycleAge
Drives(c, d) == Whole(d) /\ SamePressure(c, d) /\ SameCycle(c, d) /\ d.state \in Motion

LEMMA Clocks ==
    /\ Cap \in Nat /\ MaxLag \in Nat /\ Backstop \in Nat /\ MaxLag <= Cap
    /\ Freshness \in Nat /\ SettleDelay \in Nat /\ FeedbackTime \in Nat
    /\ CycleTime \in Nat /\ CycleTime > 0
  BY TimeAssumption

LEMMA Constants ==
    /\ 0 \in 0..Cap /\ Cap \in 0..Cap /\ 0 \in 0..Backstop
    /\ \A s \in {"FAULT", "IDLE", "AUTO_SETTLE", "AUTO_HOLD"} : s \in States \ Motion
    /\ "OFF" \in Outputs
  BY Clocks DEF States, Motion, Outputs

\* What ClearTransientMotion leaves of a disabled context, out of the cycle.
Cleared(c, state) == [ClearTransientMotion(Disabled(c)) EXCEPT !.state = state]

LEMMA ClearedRests ==
  ASSUME NEW c, Sound(c), NEW state \in {"FAULT", "IDLE"}
  PROVE  LET d == Cleared(c, state) IN Whole(d) /\ SamePressure(c, d) /\ d.state = state
<1> DEFINE d == [c EXCEPT !.out = "OFF", !.active = FALSE, !.event = "NONE", !.driveAge = 0,
                          !.owned = FALSE, !.phase = "DELAY", !.contacted = FALSE,
                          !.pending = FALSE, !.settleAge = 0, !.cycleAge = Cap,
                          !.state = state]
<1>1. d = Cleared(c, state)
  BY DEF Cleared, ClearTransientMotion, Disabled, Sound, Cells
<1>2. d \in Cells
  BY Constants DEF Sound, Cells
<1>3. /\ d.out = "OFF" /\ d.active = FALSE /\ d.event = "NONE" /\ d.owned = FALSE
      /\ d.contacted = FALSE /\ d.pending = FALSE /\ d.state = state
      /\ d.sampleAge = c.sampleAge /\ d.level = c.level
  BY DEF Sound, Cells
<1> HIDE DEF d
<1>4. Whole(d) /\ SamePressure(c, d) /\ d.state = state
  BY <1>2, <1>3, Constants DEF SamePressure, Whole, Sound, Latched
<1>5. QED
  BY <1>1, <1>4

LEMMA FaultRests == ASSUME NEW c, Sound(c) PROVE Faulted(c, EnterFault(c))
  BY ClearedRests DEF EnterFault, Cleared, Faulted

\* What Disabled leaves, in a state that is no motion.
AtRest(c, state) ==
    [c EXCEPT !.out = "OFF", !.active = FALSE, !.event = "NONE", !.driveAge = 0,
              !.owned = FALSE, !.state = state]

LEMMA DisabledRests ==
  ASSUME NEW c, Sound(c), NEW state \in {"IDLE", "FAULT", "AUTO_SETTLE", "AUTO_HOLD"},
         state # "AUTO_SETTLE" /\ c.pending => ~c.contacted
  PROVE  RestsIn(state, c, AtRest(c, state)) /\ SameCycle(c, AtRest(c, state))
<1> DEFINE d == AtRest(c, state)
<1>1. d \in Cells
  BY Constants DEF AtRest, Sound, Cells
<1>2. /\ d.out = "OFF" /\ d.active = FALSE /\ d.event = "NONE" /\ d.owned = FALSE
      /\ d.contacted = c.contacted /\ d.pending = c.pending /\ d.state = state
      /\ d.sampleAge = c.sampleAge /\ d.level = c.level /\ d.cycleAge = c.cycleAge
  BY DEF AtRest, Sound, Cells
<1> HIDE DEF d
<1>3. RestsIn(state, c, d) /\ SameCycle(c, d)
  BY <1>1, <1>2, Constants
  DEF RestsIn, SamePressure, SameCycle, Whole, Sound, Latched
<1>4. QED
  BY <1>3 DEF d

LEMMA DisableRests ==
  ASSUME NEW c, Sound(c), NEW ok \in BOOLEAN,
         NEW state \in {"AUTO_SETTLE", "AUTO_HOLD"},
         state # "AUTO_SETTLE" /\ c.pending => ~c.contacted
  PROVE  LET d == DisableInto(c, ok, state)
         IN  IF ok THEN RestsIn(state, c, d) /\ SameCycle(c, d) ELSE Faulted(c, d)
<1>1. CASE ok
  <2>1. DisableInto(c, ok, state) = AtRest(c, state)
    BY <1>1 DEF DisableInto, Disabled, AtRest, Sound, Cells
  <2>2. QED
    BY <1>1, <2>1, DisabledRests
<1>2. CASE ~ok
  BY <1>2, FaultRests DEF DisableInto
<1>3. QED
  BY <1>1, <1>2

LEMMA SettleRests ==
  ASSUME NEW c, Sound(c), NEW ok \in BOOLEAN, lag \in 0..Cap
  PROVE  LET d == EnterSettle(c, ok) IN Faulted(c, d) \/ (ok /\ Settles(c, d))
<1> DEFINE e == DisableInto(c, ok, "AUTO_SETTLE")
<1> DEFINE d == [e EXCEPT !.phase = "DELAY", !.settleAge = lag]
<1>1. IF ok THEN RestsIn("AUTO_SETTLE", c, e) /\ SameCycle(c, e) ELSE Faulted(c, e)
  BY DisableRests
<1>2. EnterSettle(c, ok) = IF ok THEN d ELSE e
  BY DEF EnterSettle
<1> HIDE DEF e
<1>3. ASSUME ok PROVE Settles(c, d)
  <2>1. RestsIn("AUTO_SETTLE", c, e) /\ SameCycle(c, e)
    BY <1>1, <1>3
  <2>2. e \in Cells
    BY <2>1 DEF RestsIn, Whole, Sound
  <2>3. d \in Cells
    BY <2>2 DEF Cells
  <2>4. /\ d.out = e.out /\ d.active = e.active /\ d.event = e.event
        /\ d.completion = e.completion /\ d.owned = e.owned /\ d.state = e.state
        /\ d.contacted = e.contacted /\ d.pending = e.pending
        /\ d.sampleAge = e.sampleAge /\ d.level = e.level /\ d.cycleAge = e.cycleAge
    BY <2>2 DEF Cells
  <2> HIDE DEF d
  <2>5. QED
    BY <2>1, <2>3, <2>4
    DEF Settles, RestsIn, SameCycle, SamePressure, Whole, Sound, Latched
<1>4. QED
  BY <1>1, <1>2, <1>3

LEMMA HoldRests ==
  ASSUME NEW c, Sound(c), NEW ok \in BOOLEAN, c.pending => ~c.contacted
  PROVE  LET d == EnterHold(c, ok) IN Faulted(c, d) \/ (ok /\ RestsIn("AUTO_HOLD", c, d))
<1> DEFINE e == DisableInto(c, ok, "AUTO_HOLD")
<1> DEFINE d == [e EXCEPT !.settleAge = 0, !.cycleAge = Cap]
<1>1. IF ok THEN RestsIn("AUTO_HOLD", c, e) ELSE Faulted(c, e)
  BY DisableRests
<1>2. EnterHold(c, ok) = IF ok THEN d ELSE e
  BY DEF EnterHold
<1> HIDE DEF e
<1>3. ASSUME ok PROVE RestsIn("AUTO_HOLD", c, d)
  <2>1. RestsIn("AUTO_HOLD", c, e)
    BY <1>1, <1>3
  <2>2. e \in Cells
    BY <2>1 DEF RestsIn, Whole, Sound
  <2>3. d \in Cells
    BY <2>2, Constants DEF Cells
  <2>4. /\ d.out = e.out /\ d.active = e.active /\ d.event = e.event
        /\ d.completion = e.completion /\ d.owned = e.owned /\ d.state = e.state
        /\ d.contacted = e.contacted /\ d.pending = e.pending
        /\ d.sampleAge = e.sampleAge /\ d.level = e.level
    BY <2>2 DEF Cells
  <2> HIDE DEF d
  <2>5. QED
    BY <2>1, <2>3, <2>4 DEF RestsIn, SamePressure, Whole, Sound, Latched
<1>4. QED
  BY <1>1, <1>2, <1>3

LEMMA PulseDrives ==
  ASSUME NEW c, Sound(c), NEW ok \in BOOLEAN, NEW direction \in {"PRESS", "RELEASE"},
         NEW state \in Motion, c.state \notin Motion,
         state # "AUTO_APPROACH" /\ c.pending => ~c.contacted
  PROVE  LET d == StartPulse(c, direction, state, ok) IN Faulted(c, d) \/ Drives(c, d)
<1> DEFINE d == [c EXCEPT !.active = TRUE, !.out = direction, !.completion = "NONE",
                          !.driveAge = 0, !.owned = TRUE, !.state = state,
                          !.settleAge = 0]
<1>1. CASE ok
  <2>1. c.active = FALSE /\ c.event = "NONE"
    BY DEF Sound, Cells
  <2>2. StartPulse(c, direction, state, ok) = d
    BY <1>1, <2>1 DEF StartPulse
  <2>3. direction \in Outputs /\ state \in States
    BY DEF Outputs, States, Motion
  <2>4. d \in Cells
    BY <2>3, Constants DEF Sound, Cells
  <2>5. /\ d.out = direction /\ d.active = TRUE /\ d.event = "NONE"
        /\ d.completion = "NONE" /\ d.owned = TRUE /\ d.state = state
        /\ d.contacted = c.contacted /\ d.pending = c.pending
        /\ d.sampleAge = c.sampleAge /\ d.level = c.level /\ d.cycleAge = c.cycleAge
    BY <2>1 DEF Sound, Cells
  <2> HIDE DEF d
  <2>6. Drives(c, d)
    BY <2>4, <2>5 DEF Drives, SamePressure, SameCycle, Whole, Sound, Latched
  <2>7. QED
    BY <2>2, <2>6
<1>2. CASE ~ok
  BY <1>2, FaultRests DEF StartPulse
<1>3. QED
  BY <1>1, <1>2

LEMMA ApproachDrives ==
  ASSUME NEW c, Sound(c), NEW ok \in BOOLEAN, c.state \notin Motion
  PROVE  LET d == StartApproach(c, ok) IN Faulted(c, d) \/ Drives(c, d)
<1> DEFINE e == [c EXCEPT !.pending = TRUE]
<1>1. e \in Cells
  BY DEF Sound, Cells
<1>2. /\ e.out = c.out /\ e.active = c.active /\ e.event = c.event
      /\ e.completion = c.completion /\ e.owned = c.owned /\ e.state = c.state
      /\ e.contacted = c.contacted
      /\ e.sampleAge = c.sampleAge /\ e.level = c.level /\ e.cycleAge = c.cycleAge
  BY DEF Sound, Cells
<1>3. StartApproach(c, ok) = StartPulse(e, "PRESS", "AUTO_APPROACH", ok)
  BY DEF StartApproach
<1> HIDE DEF e
<1>4. Sound(e)
  BY <1>1, <1>2 DEF Sound
<1>5. Faulted(e, StartApproach(c, ok)) \/ Drives(e, StartApproach(c, ok))
  BY <1>2, <1>3, <1>4, PulseDrives DEF Motion
<1>6. QED
  BY <1>2, <1>5 DEF Faulted, Drives, SamePressure, SameCycle

\* A correction presses, releases, or settles again.
LEMMA CorrectionDrives ==
  ASSUME NEW c, Sound(c), NEW ok \in BOOLEAN, NEW inhibited \in BOOLEAN,
         NEW direction \in {"PRESS", "RELEASE"}, lag \in 0..Cap,
         c.state \notin Motion, c.pending => ~c.contacted
  PROVE  LET d == StartCorrection(c, direction, ok, inhibited)
         IN  Faulted(c, d) \/ Drives(c, d) \/ Settles(c, d)
<1>1. CASE inhibited
  BY <1>1, SettleRests DEF StartCorrection
<1>2. CASE ~inhibited
  BY <1>2, PulseDrives DEF StartCorrection, Motion
<1>3. QED
  BY <1>1, <1>2

LEMMA SettledClassifies ==
  ASSUME NEW c, Sound(c), NEW ok \in BOOLEAN, NEW inhibited \in BOOLEAN,
         lag \in 0..Cap, c.state = "AUTO_SETTLE", c.level \in Valid \ {"raw"},
         c.level \in Contact /\ c.pending => ~c.contacted
  PROVE  LET d == ClassifySettledSample(c, ok, inhibited)
         IN  \/ Faulted(c, d) \/ Drives(c, d) \/ Settles(c, d)
             \/ RestsIn("AUTO_HOLD", c, d)
<1> DEFINE d == ClassifySettledSample(c, ok, inhibited)
<1>1. c.state \notin Motion
  BY DEF Motion
<1>2. CASE c.level \in NoContact
  <2>1. d = StartApproach(c, ok)
    BY <1>2 DEF ClassifySettledSample, NoContact, Low, High
  <2>2. QED
    BY <1>1, <2>1, ApproachDrives
<1>3. CASE c.level \in Low
  <2>1. d = StartCorrection(c, "PRESS", ok, inhibited)
    BY <1>3 DEF ClassifySettledSample, NoContact, Low, High
  <2>2. c.pending => ~c.contacted
    BY <1>3 DEF Contact
  <2>3. QED
    BY <1>1, <2>1, <2>2, CorrectionDrives
<1>4. CASE c.level = "inside"
  <2>1. d = EnterHold(c, ok)
    BY <1>4 DEF ClassifySettledSample, NoContact, Low, High
  <2>2. c.pending => ~c.contacted
    BY <1>4 DEF Contact
  <2>3. QED
    BY <2>1, <2>2, HoldRests
<1>5. CASE c.level \in High
  <2>1. d = StartCorrection(c, "RELEASE", ok, inhibited)
    BY <1>5 DEF ClassifySettledSample, NoContact, Low, High
  <2>2. c.pending => ~c.contacted
    BY <1>5 DEF Contact
  <2>3. QED
    BY <1>1, <2>1, <2>2, CorrectionDrives
<1>6. QED
  BY <1>2, <1>3, <1>4, <1>5 DEF Valid, Contact

\* What leaves hold starts a new budget; what stays in it keeps the contact.
LEMMA HoldClassifies ==
  ASSUME NEW c, Whole(c), NEW ok \in BOOLEAN, NEW inhibited \in BOOLEAN,
         lag \in 0..Cap, c.state = "AUTO_HOLD"
  PROVE  LET d == ClassifyHoldSample(c, ok, inhibited)
         IN  /\ Whole(d) /\ SamePressure(c, d)
<1> DEFINE e == [c EXCEPT !.cycleAge = lag]
           d == ClassifyHoldSample(c, ok, inhibited)
<1>1. Sound(c) /\ (c.pending => ~c.contacted)
  BY DEF Whole, Latched
<1>2. e \in Cells
  BY <1>1 DEF Sound, Cells
<1>3. /\ e.out = c.out /\ e.active = c.active /\ e.event = c.event
      /\ e.completion = c.completion /\ e.owned = c.owned /\ e.state = c.state
      /\ e.contacted = c.contacted /\ e.pending = c.pending
      /\ e.sampleAge = c.sampleAge /\ e.level = c.level
  BY <1>1 DEF Sound, Cells
<1>4. \/ d = StartApproach(e, ok)
      \/ d = StartCorrection(e, "PRESS", ok, inhibited)
      \/ d = StartCorrection(e, "RELEASE", ok, inhibited)
      \/ d = DisableInto(c, ok, "AUTO_HOLD")
  BY DEF ClassifyHoldSample
<1> HIDE DEF e, d
<1>5. Sound(e) /\ e.state \notin Motion /\ (e.pending => ~e.contacted)
  BY <1>1, <1>2, <1>3 DEF Sound, Motion
<1>6. Faulted(e, d) \/ Drives(e, d) \/ Settles(e, d) \/ Faulted(c, d)
      \/ RestsIn("AUTO_HOLD", c, d)
  BY <1>1, <1>4, <1>5, ApproachDrives, CorrectionDrives, DisableRests
<1>7. SamePressure(e, d) => SamePressure(c, d)
  BY <1>3 DEF SamePressure
<1>8. QED
  BY <1>6, <1>7 DEF d, Faulted, Drives, Settles, RestsIn

LEMMA ServicedWhole ==
  ASSUME NEW c, Whole(c)
  PROVE  LET d == Serviced(c)
         IN  /\ Whole(d) /\ SamePressure(c, d) /\ SameCycle(c, d)
             /\ d.state = c.state /\ d.event = "NONE"
             /\ d.completion = IF c.event = "NONE" THEN c.completion ELSE c.event
<1> DEFINE d == [c EXCEPT !.active = FALSE, !.completion = c.event, !.event = "NONE"]
<1>1. CASE c.event = "NONE"
  BY <1>1 DEF Serviced, SamePressure, SameCycle
<1>2. CASE c.event # "NONE"
  <2>1. c \in Cells /\ c.out = "OFF"
    BY <1>2 DEF Whole, Sound
  <2>2. d \in Cells
    BY <2>1 DEF Cells
  <2>3. /\ d.out = c.out /\ d.active = FALSE /\ d.event = "NONE"
        /\ d.completion = c.event /\ d.owned = c.owned /\ d.state = c.state
        /\ d.contacted = c.contacted /\ d.pending = c.pending
        /\ d.sampleAge = c.sampleAge /\ d.level = c.level /\ d.cycleAge = c.cycleAge
    BY <2>1 DEF Cells
  <2>4. Serviced(c) = d
    BY <1>2 DEF Serviced
  <2> HIDE DEF d
  <2>5. Whole(d) /\ SamePressure(c, d) /\ SameCycle(c, d)
    BY <1>2, <2>1, <2>2, <2>3 DEF Whole, Sound, Latched, SamePressure, SameCycle
  <2>6. QED
    BY <1>2, <2>3, <2>4, <2>5
<1>3. QED
  BY <1>1, <1>2

\* Taking note of a drive: it still runs, it ended well, or the machine faults.
LEMMA ServiceNotes ==
  ASSUME NEW c, Whole(c), NEW ok \in BOOLEAN, lag \in 0..Cap
  PROVE  LET d == HandleMotorService(c, ok)
         IN  \/ d = c /\ (c.state \in Motion => c.active)
             \/ Faulted(c, d)
             \/ Settles(c, d) /\ c.state \in Motion /\ c.completion = "NORMAL" /\ ~c.active
<1>1. Sound(c) /\ (c.state \in Motion => c.owned)
  BY DEF Whole, Sound
<1>2. CASE c.state \notin Motion
  BY <1>2 DEF HandleMotorService
<1>3. CASE c.state \in Motion /\ c.active
  BY <1>1, <1>3, FaultRests DEF HandleMotorService
<1>4. CASE c.state \in Motion /\ ~c.active
  <2>1. HandleMotorService(c, ok) =
          IF c.completion = "NORMAL" THEN EnterSettle(c, ok) ELSE EnterFault(c)
    BY <1>1, <1>4 DEF HandleMotorService
  <2>2. QED
    BY <1>1, <1>4, <2>1, FaultRests, SettleRests
<1>5. QED
  BY <1>2, <1>3, <1>4

\* Contact ends the approach: a bad end that waits is a fault, and the budget of
\* a cycle that was in contact before goes on.
Contacts(c, d) ==
    /\ Whole(d) /\ SamePressure(c, d)
    /\ d.state = "AUTO_SETTLE" /\ d.contacted
    /\ c.contacted => d.cycleAge = c.cycleAge
    /\ ~Bad(c)

LEMMA ContactStops ==
  ASSUME NEW c, Whole(c), NEW ok \in BOOLEAN, lag \in 0..Cap,
         c.state \in {"AUTO_APPROACH", "AUTO_SETTLE"}
  PROVE  LET d == StopApproachOnContact(c, ok) IN Faulted(c, d) \/ Contacts(c, d)
<1> DEFINE v == Serviced(c)
           s == HandleMotorService(v, ok)
           d == IF s.state = "AUTO_APPROACH" THEN EnterSettle(s, ok) ELSE s
           e == [d EXCEPT !.contacted = TRUE, !.pending = FALSE,
                          !.cycleAge = IF d.contacted THEN @ ELSE d.sampleAge]
<1>1. /\ Whole(v) /\ SamePressure(c, v) /\ SameCycle(c, v)
      /\ v.state = c.state /\ v.event = "NONE"
      /\ v.completion = IF c.event = "NONE" THEN c.completion ELSE c.event
  BY ServicedWhole
<1>2. Faulted(c, EnterFault(v))
  BY <1>1, FaultRests DEF Whole, Faulted, SamePressure
<1>3. \/ s = v /\ (v.state \in Motion => v.active)
      \/ Faulted(v, s)
      \/ Settles(v, s) /\ v.state \in Motion /\ v.completion = "NORMAL" /\ ~v.active
  BY <1>1, ServiceNotes
<1>4. Faulted(v, s) => Faulted(c, s)
  BY <1>1 DEF Faulted, SamePressure
<1>5. StopApproachOnContact(c, ok) =
        IF ~ServiceOk(c, ok) THEN EnterFault(v)
        ELSE IF d.state # "AUTO_SETTLE" THEN d ELSE e
  BY DEF StopApproachOnContact
<1> HIDE DEF v, s
<1>6. ASSUME ~Faulted(v, s)
      PROVE  ~Bad(c)
  <2>1. (c.event = "NONE" /\ c.completion = "NONE") \/ v.completion = "NORMAL"
        \/ c.state = "AUTO_SETTLE"
    BY <1>1, <1>3, <1>6 DEF Whole, Sound, Motion
  <2>2. v.completion = "NORMAL" => {c.event, c.completion} \subseteq {"NONE", "NORMAL"}
    BY <1>1 DEF Whole, Sound
  <2>3. QED
    BY <2>1, <2>2 DEF Bad, Motion
<1>7. ASSUME ~Faulted(v, s)
      PROVE  Faulted(v, d) \/ Settles(v, d) \/ (d = v /\ d.state = "AUTO_SETTLE")
  <2>1. CASE s = v /\ v.state = "AUTO_APPROACH"
    BY <1>1, <2>1, SettleRests DEF Whole
  <2>2. CASE s = v /\ v.state = "AUTO_SETTLE"
    BY <2>2
  <2>3. CASE Settles(v, s)
    BY <2>3 DEF Settles, RestsIn
  <2>4. QED
    BY <1>1, <1>3, <1>7, <2>1, <2>2, <2>3
<1> HIDE DEF d
<1>8. ASSUME ~Faulted(v, s), d.state = "AUTO_SETTLE"
      PROVE  Contacts(c, e)
  <2>1. Whole(d) /\ SamePressure(c, d) /\ SameCycle(c, d)
    BY <1>1, <1>7, <1>8 DEF Settles, RestsIn, Faulted, SamePressure, SameCycle
  <2>2. d \in Cells
    BY <2>1 DEF Whole, Sound
  <2>3. e \in Cells
    BY <2>2 DEF Cells
  <2>4. /\ e.out = d.out /\ e.active = d.active /\ e.event = d.event
        /\ e.completion = d.completion /\ e.owned = d.owned /\ e.state = d.state
        /\ e.contacted = TRUE /\ e.pending = FALSE
        /\ e.sampleAge = d.sampleAge /\ e.level = d.level
        /\ d.contacted => e.cycleAge = d.cycleAge
    BY <2>2 DEF Cells
  <2> HIDE DEF e
  <2>5. QED
    BY <1>6, <1>8, <2>1, <2>3, <2>4
    DEF Contacts, Whole, Sound, Latched, SamePressure, SameCycle
<1>9. CASE Faulted(v, s)
  <2>1. d = s
    BY <1>9 DEF d, Faulted
  <2>2. QED
    BY <1>2, <1>4, <1>5, <1>9, <2>1 DEF Faulted
<1>10. CASE ~Faulted(v, s)
  <2>1. d.state # "AUTO_SETTLE" => Faulted(c, d)
    BY <1>1, <1>7, <1>10 DEF Settles, RestsIn, Faulted, SamePressure
  <2>2. QED
    BY <1>2, <1>5, <1>8, <1>10, <2>1
<1>11. QED
  BY <1>9, <1>10

\* What the safety check has established of a context that it lets pass.
InTime(c) ==
    /\ Age(c.sampleAge) <= Freshness
    /\ Converging(c) => Age(c.cycleAge) < CycleTime

LEMMA CheckGuards ==
  ASSUME NEW c, Whole(c), NEW ok \in BOOLEAN, lag \in 0..Cap
  PROVE  LET d == CheckPressureSafety(c, ok)
         IN  \/ d = c /\ (c.state \in Automatic => InTime(c))
             \/ Faulted(c, d)
             \/ /\ Contacts(c, d) /\ InTime(c)
                /\ c.state \in {"AUTO_APPROACH", "AUTO_SETTLE"}
<1> DEFINE d == CheckPressureSafety(c, ok)
<1>1. Faulted(c, EnterFault(c))
  BY FaultRests DEF Whole
<1>2. \/ d = c /\ c.state \notin Automatic
      \/ d = EnterFault(c)
      \/ /\ IsPressureFresh(c)
         /\ ~(c.state # "AUTO_HOLD" /\ c.contacted /\ Age(c.cycleAge) >= CycleTime)
         /\ d = IF HasCurrentApproachContact(c) THEN StopApproachOnContact(c, ok) ELSE c
  BY DEF CheckPressureSafety
<1> HIDE DEF d
<1>3. c.cycleAge \in Int /\ lag \in Int /\ CycleTime \in Int
  BY Clocks DEF Whole, Sound, Cells
<1>4. IsPressureFresh(c)
      /\ ~(c.state # "AUTO_HOLD" /\ c.contacted /\ Age(c.cycleAge) >= CycleTime)
      => InTime(c)
  BY <1>3 DEF InTime, IsPressureFresh, Converging, Age
<1>5. CASE HasCurrentApproachContact(c)
  <2>1. c.state \in {"AUTO_APPROACH", "AUTO_SETTLE"}
    BY <1>5 DEF HasCurrentApproachContact
  <2>2. Faulted(c, StopApproachOnContact(c, ok)) \/ Contacts(c, StopApproachOnContact(c, ok))
    BY <2>1, ContactStops
  <2>3. QED
    BY <1>1, <1>2, <1>4, <1>5, <2>1, <2>2 DEF d
<1>6. CASE ~HasCurrentApproachContact(c)
  BY <1>1, <1>2, <1>4, <1>6 DEF d
<1>7. QED
  BY <1>5, <1>6

\* What a sample makes of a context.
Receives(c, sample, d) ==
    /\ Whole(d) /\ d.sampleAge = sample.age
    /\ d.state \in Automatic => c.state \in Automatic /\ Age(sample.age) <= Freshness
    /\ Converging(c) /\ Converging(d) => d.cycleAge = c.cycleAge
    /\ Bad(c) => Bad(d) \/ d.state = "FAULT"

\* The settled sample is classified with the contact it shows.
LEMMA TouchedClassifies ==
  ASSUME NEW k, Whole(k), NEW ok \in BOOLEAN, NEW inhibited \in BOOLEAN,
         lag \in 0..Cap, k.state = "AUTO_SETTLE", k.level \in Valid \ {"raw"}
  PROVE  LET t == IF k.level \in Contact
                  THEN [k EXCEPT !.contacted = TRUE, !.pending = FALSE] ELSE k
             d == ClassifySettledSample(t, ok, inhibited)
         IN  /\ Whole(d) /\ SamePressure(k, d)
             /\ Converging(d) => d.cycleAge = k.cycleAge
<1> DEFINE t == IF k.level \in Contact
                THEN [k EXCEPT !.contacted = TRUE, !.pending = FALSE] ELSE k
           d == ClassifySettledSample(t, ok, inhibited)
<1>1. k \in Cells
  BY DEF Whole, Sound
<1>2. t \in Cells
  BY <1>1 DEF Cells
<1>3. /\ t.out = k.out /\ t.active = k.active /\ t.event = k.event
      /\ t.completion = k.completion /\ t.owned = k.owned /\ t.state = k.state
      /\ t.sampleAge = k.sampleAge /\ t.level = k.level /\ t.cycleAge = k.cycleAge
      /\ t.level \in Contact => ~t.pending
  BY <1>1 DEF Cells
<1> HIDE DEF t
<1>4. Sound(t)
  BY <1>2, <1>3 DEF Whole, Sound
<1>5. \/ Faulted(t, d) \/ Drives(t, d) \/ Settles(t, d)
      \/ RestsIn("AUTO_HOLD", t, d)
  BY <1>3, <1>4, SettledClassifies
<1> HIDE DEF d
<1>6. Whole(d) /\ SamePressure(k, d)
  BY <1>3, <1>5 DEF Faulted, Drives, Settles, RestsIn, SamePressure
<1>7. Converging(d) => d.cycleAge = k.cycleAge
  BY <1>3, <1>5 DEF Faulted, Drives, Settles, RestsIn, SameCycle, Converging, Automatic, Motion
<1>8. QED
  BY <1>6, <1>7 DEF d, t

LEMMA SampleHandled ==
  ASSUME NEW c, Whole(c), NEW sample \in Sample, NEW ok \in BOOLEAN,
         NEW healthy \in BOOLEAN, NEW inhibited \in BOOLEAN, lag \in 0..Cap
  PROVE  Receives(c, sample, HandlePressureSample(c, sample, ok, healthy, inhibited))
<1> DEFINE s == [c EXCEPT !.level = sample.level, !.sampleAge = sample.age]
           k == CheckPressureSafety(s, ok)
           t == IF k.level \in Contact
                THEN [k EXCEPT !.contacted = TRUE, !.pending = FALSE] ELSE k
           d == HandlePressureSample(c, sample, ok, healthy, inhibited)
<1> SUFFICES Receives(c, sample, d)
  OBVIOUS
<1>1. sample.level \in Valid \cup {"invalid"} /\ sample.age \in 0..Cap
  BY DEF Sample
<1>2. s \in Cells
  BY <1>1 DEF Whole, Sound, Cells
<1>3. /\ s.out = c.out /\ s.active = c.active /\ s.event = c.event
      /\ s.completion = c.completion /\ s.owned = c.owned /\ s.state = c.state
      /\ s.contacted = c.contacted /\ s.pending = c.pending /\ s.cycleAge = c.cycleAge
      /\ s.sampleAge = sample.age /\ s.level = sample.level
  BY DEF Whole, Sound, Cells
<1>4. \/ d = EnterFault(s)
      \/ d = s /\ s.state \notin Automatic
      \/ /\ s.level \notin {"raw", "invalid"} /\ s.state \in Automatic
         /\ \/ d = k
            \/ k.state = "AUTO_HOLD" /\ d = ClassifyHoldSample(k, ok, inhibited)
            \/ k.state = "AUTO_SETTLE" /\ d = ClassifySettledSample(t, ok, inhibited)
  BY DEF HandlePressureSample
<1> HIDE DEF s, d
<1>5. Whole(s)
  BY <1>2, <1>3 DEF Whole, Sound, Latched
<1>6. Faulted(s, EnterFault(s))
  BY <1>5, FaultRests DEF Whole
<1>7. \/ k = s /\ (s.state \in Automatic => InTime(s))
      \/ Faulted(s, k)
      \/ Contacts(s, k) /\ InTime(s) /\ s.state \in {"AUTO_APPROACH", "AUTO_SETTLE"}
  BY <1>5, CheckGuards
<1> HIDE DEF k, t
<1>8. /\ Converging(s) <=> Converging(c)
      /\ Bad(s) <=> Bad(c)
  BY <1>3 DEF Converging, Bad
<1>9. CASE Faulted(s, d)
  BY <1>3, <1>9 DEF Faulted, SamePressure, Receives, Converging, Automatic, Motion
<1>10. CASE d = s /\ s.state \notin Automatic
  BY <1>3, <1>5, <1>8, <1>10 DEF Receives, Converging
<1>11. ASSUME s.level \notin {"raw", "invalid"}, s.state \in Automatic,
              ~Faulted(s, k),
              \/ d = k
              \/ k.state = "AUTO_HOLD" /\ d = ClassifyHoldSample(k, ok, inhibited)
              \/ k.state = "AUTO_SETTLE" /\ d = ClassifySettledSample(t, ok, inhibited)
       PROVE  Receives(c, sample, d)
  <2>1. Whole(k) /\ SamePressure(s, k) /\ InTime(s)
    BY <1>5, <1>7, <1>11 DEF Contacts, SamePressure
  <2>2. Converging(s) /\ Converging(k) => k.cycleAge = s.cycleAge
    BY <1>7, <1>11 DEF Contacts, Converging
  <2>3. Bad(s) => k = s
    BY <1>7, <1>11 DEF Contacts
  <2>4. Age(sample.age) <= Freshness /\ c.state \in Automatic
    BY <1>3, <1>11, <2>1 DEF InTime
  <2>5. CASE d = k
    BY <1>3, <1>8, <2>1, <2>2, <2>3, <2>4, <2>5 DEF Receives, SamePressure, Converging
  <2>6. CASE k.state = "AUTO_HOLD" /\ d = ClassifyHoldSample(k, ok, inhibited)
    <3>1. Whole(d) /\ SamePressure(k, d)
      BY <2>1, <2>6, HoldClassifies
    <3>2. k = s /\ s.state = "AUTO_HOLD"
      BY <1>7, <1>11, <2>6 DEF Contacts
    <3>3. ~Converging(c) /\ ~Bad(c)
      BY <1>3, <3>2 DEF Converging, Bad, Motion
    <3>4. QED
      BY <1>3, <2>4, <3>1, <3>2, <3>3 DEF Receives, SamePressure
  <2>7. CASE k.state = "AUTO_SETTLE" /\ d = ClassifySettledSample(t, ok, inhibited)
    <3>1. k.level \in Valid \ {"raw"}
      BY <1>1, <1>3, <1>11, <2>1 DEF SamePressure
    <3>2. Whole(d) /\ SamePressure(k, d) /\ (Converging(d) => d.cycleAge = k.cycleAge)
      BY <2>1, <2>7, <3>1, TouchedClassifies DEF t
    <3>3. ~Bad(c)
      BY <1>7, <1>8, <1>11, <2>7 DEF Contacts, Bad, Motion
    <3>4. Converging(s) => k.cycleAge = s.cycleAge
      BY <1>7, <1>11 DEF Contacts, Converging
    <3>5. QED
      BY <1>3, <1>8, <2>1, <2>4, <3>2, <3>3, <3>4 DEF Receives, SamePressure
  <2>8. QED
    BY <1>11, <2>5, <2>6, <2>7
<1>12. CASE Faulted(s, k)
  BY <1>4, <1>6, <1>9, <1>10, <1>12 DEF Faulted
<1>13. CASE ~Faulted(s, k)
  BY <1>4, <1>6, <1>9, <1>10, <1>11, <1>13
<1>14. QED
  BY <1>12, <1>13

LEMMA StopRests ==
  ASSUME NEW c, Whole(c), NEW ok \in BOOLEAN
  PROVE  LET d == Stop(c, ok)
         IN  Whole(d) /\ SamePressure(c, d) /\ d.state \in {"FAULT", "IDLE"}
<1>1. Sound(c)
  BY DEF Whole
<1>2. Stop(c, ok) \in {EnterFault(c), Cleared(c, "FAULT"), Cleared(c, "IDLE")}
  BY DEF Stop, Cleared
<1>3. QED
  BY <1>1, <1>2, FaultRests, ClearedRests DEF Faulted

\* Only a START with a fresh pressure leaves IDLE for the cycle.
LEMMA StartBegins ==
  ASSUME NEW c, Whole(c), NEW ok \in BOOLEAN, NEW healthy \in BOOLEAN, lag \in 0..Cap
  PROVE  LET d == AutoStart(c, ok, healthy)
         IN  \/ d = c
             \/ /\ c.state = "IDLE" /\ Age(c.sampleAge) <= Freshness
                /\ Whole(d) /\ SamePressure(c, d)
<1> DEFINE s == [c EXCEPT !.cycleAge = lag, !.contacted = c.level \in Contact,
                          !.pending = c.level \notin Contact]
           d == AutoStart(c, ok, healthy)
<1>1. \/ d = c
      \/ /\ c.state = "IDLE" /\ Age(c.sampleAge) <= Freshness
         /\ d \in {EnterFault(c), StartApproach(s, ok), EnterSettle(s, ok)}
  BY DEF AutoStart, IsPressureFresh
<1>2. c \in Cells /\ Sound(c)
  BY DEF Whole, Sound
<1>3. ASSUME NEW touches \in BOOLEAN, NEW searches \in BOOLEAN
      PROVE  [c EXCEPT !.cycleAge = lag, !.contacted = touches, !.pending = searches]
               \in Cells
  BY <1>2 DEF Cells
<1>4. /\ s \in Cells
      /\ s.out = c.out /\ s.active = c.active /\ s.event = c.event
      /\ s.completion = c.completion /\ s.owned = c.owned /\ s.state = c.state
      /\ s.sampleAge = c.sampleAge /\ s.level = c.level
  <2>1. (c.level \in Contact) \in BOOLEAN /\ (c.level \notin Contact) \in BOOLEAN
    OBVIOUS
  <2>2. s \in Cells
    BY <1>3, <2>1, Zenon
  <2>3. QED
    BY <1>2, <2>2 DEF Cells
<1> HIDE DEF s, d
<1>5. Sound(s)
  BY <1>2, <1>4 DEF Sound
<1>6. CASE c.state = "IDLE"
  <2>1. Faulted(c, EnterFault(c))
    BY <1>2, FaultRests
  <2>2. Faulted(s, StartApproach(s, ok)) \/ Drives(s, StartApproach(s, ok))
    BY <1>4, <1>5, <1>6, ApproachDrives DEF Motion
  <2>3. Faulted(s, EnterSettle(s, ok)) \/ Settles(s, EnterSettle(s, ok))
    BY <1>5, SettleRests
  <2>4. d = c \/ (Whole(d) /\ SamePressure(c, d))
    BY <1>1, <1>4, <2>1, <2>2, <2>3 DEF Faulted, Drives, Settles, RestsIn, SamePressure
  <2>5. QED
    BY <1>1, <2>4 DEF d
<1>7. QED
  BY <1>1, <1>6 DEF d

LEMMA GateOpens ==
  ASSUME NEW c, Whole(c), lag \in 0..Cap
  PROVE  LET d == OpenGate(c)
         IN  /\ Whole(d) /\ SamePressure(c, d) /\ SameCycle(c, d)
             /\ d.state = c.state /\ d.event = c.event /\ d.completion = c.completion
<1> DEFINE d == [c EXCEPT !.phase = "SAMPLE", !.settleAge = lag]
<1>1. c \in Cells
  BY DEF Whole, Sound
<1>2. d \in Cells
  BY <1>1 DEF Cells
<1>3. /\ d.out = c.out /\ d.active = c.active /\ d.event = c.event
      /\ d.completion = c.completion /\ d.owned = c.owned /\ d.state = c.state
      /\ d.contacted = c.contacted /\ d.pending = c.pending
      /\ d.sampleAge = c.sampleAge /\ d.level = c.level /\ d.cycleAge = c.cycleAge
  BY <1>1 DEF Cells
<1> HIDE DEF d
<1>4. Whole(d) /\ SamePressure(c, d) /\ SameCycle(c, d)
  BY <1>2, <1>3 DEF Whole, Sound, Latched, SamePressure, SameCycle
<1>5. OpenGate(c) \in {c, d}
  BY DEF OpenGate, d
<1>6. QED
  BY <1>3, <1>4, <1>5 DEF SamePressure, SameCycle

-----------------------------------------------------------------------------
(* The inductive invariant.  lag is what the age of a stamp gains until the *)
(* machine looks at it again; an iteration before its safety check may have *)
(* the lag of the iteration before as well.                                 *)

Slack == IF pc \in {"sample", "safety"} THEN MaxLag ELSE 0

\* The pressure a cycle rests on was fresh when the last check was made.
Fresh == cell.state \in Automatic => Age(cell.sampleAge) <= Freshness + Slack

\* The budget has run no longer than the machine counts, and had not run out when
\* the last check was made.
Budgeted ==
    Converging(cell) =>
        /\ budgetAge <= cell.cycleAge
        /\ Age(budgetAge) < CycleTime + Slack

Inv ==
    /\ TypeOK
    /\ Whole(cell)
    /\ pc = "sample" => snapshot \in Sample
    /\ Fresh
    /\ Budgeted

\* What holds after a step that ends a call: its result is whole and fresh, and
\* the budget goes on or begins.
LEMMA CallKeeps ==
  ASSUME Inv, Observe, Whole(cell'), UNCHANGED <<lag, published>>,
         snapshot' \in {snapshot, Nothing},
         pc' \in {"safety", "service", "motor", "guard", "command", "tick", "read"},
         cell'.state \in Automatic => Age(cell'.sampleAge) <= Freshness + Slack',
         Converging(cell) /\ Converging(cell') =>
            cell'.cycleAge = cell.cycleAge /\ Age(budgetAge) < CycleTime + Slack'
  PROVE  Inv'
<1>1. cell' \in Cells /\ cell'.cycleAge \in 0..Cap
  BY DEF Whole, Sound, Cells
<1>2. /\ restAge' \in 0..Cap
      /\ budgetAge' = IF Converging(cell') /\ Converging(cell) THEN budgetAge ELSE 0
  BY Constants DEF Observe, Inv, TypeOK
<1>3. TypeOK'
  BY <1>1, <1>2, Constants DEF Inv, TypeOK
<1>4. Fresh'
  BY DEF Fresh, Age
<1>5. Slack' \in Nat /\ lag \in Nat /\ budgetAge \in Nat
  BY Clocks DEF Slack, Inv, TypeOK
<1>6. Budgeted'
  <2>1. CASE Converging(cell) /\ Converging(cell')
    BY <1>2, <2>1 DEF Inv, Budgeted, Age
  <2>2. CASE Converging(cell') /\ ~Converging(cell)
    <3>1. budgetAge' = 0 /\ lag' = lag /\ cell'.cycleAge \in Nat
      BY <1>1, <1>2, <2>2, Clocks
    <3>2. budgetAge' <= cell'.cycleAge
      BY <3>1
    <3>3. budgetAge' - lag' < CycleTime + Slack'
      <4>1. \A x, y, z \in Nat : z > 0 => 0 - x < z + y
        OBVIOUS
      <4>2. CycleTime \in Nat /\ CycleTime > 0 /\ lag \in Nat /\ Slack' \in Nat
        BY <1>5, Clocks
      <4>3. 0 - lag < CycleTime + Slack'
        BY <4>1, <4>2
      <4>4. QED
        BY <3>1, <4>3
    <3>4. QED
      BY <3>2, <3>3 DEF Budgeted, Age
  <2>3. CASE ~Converging(cell')
    BY <2>3 DEF Budgeted, Converging
  <2>4. QED
    BY <2>1, <2>2, <2>3
<1>7. QED
  BY <1>3, <1>4, <1>6 DEF Inv

\* The part of CallKeeps that most calls need: between two checks.
LEMMA QuietCallKeeps ==
  ASSUME Inv, Observe, Whole(cell'), UNCHANGED <<lag, published, snapshot>>,
         pc \notin {"sample", "safety"},
         pc' \in {"service", "motor", "guard", "command", "tick", "read"},
         cell'.sampleAge = cell.sampleAge,
         cell'.state \in Automatic =>
            cell.state \in Automatic \/ Age(cell.sampleAge) <= Freshness,
         Converging(cell) /\ Converging(cell') => cell'.cycleAge = cell.cycleAge
  PROVE  Inv'
<1>1. Slack = 0 /\ Slack' = 0
  BY DEF Slack
<1>2. cell'.state \in Automatic => Age(cell'.sampleAge) <= Freshness + Slack'
  BY <1>1, Clocks DEF Inv, Fresh, Age
<1>3. Converging(cell) => Age(budgetAge) < CycleTime + Slack'
  BY <1>1 DEF Inv, Budgeted
<1>4. QED
  BY <1>2, <1>3, CallKeeps

LEMMA LagType == ASSUME Inv PROVE lag \in 0..Cap
  BY Clocks DEF Inv, TypeOK

LEMMA VerdictType == Verdicts \subseteq BOOLEAN
  BY DEF Verdicts

LEMMA PressureKeeps == ASSUME Inv, ServicePressure PROVE Inv'
<1>1. PICK ok \in BOOLEAN, healthy \in BOOLEAN, inhibited \in BOOLEAN :
        cell' = HandlePressureSample(cell, snapshot, ok, healthy, inhibited)
  BY VerdictType DEF ServicePressure
<1>2. snapshot \in Sample /\ Whole(cell)
  BY DEF Inv, ServicePressure
<1>3. Receives(cell, snapshot, cell')
  BY <1>1, <1>2, SampleHandled, LagType
<1>4. Slack = MaxLag /\ Slack' = MaxLag
  BY DEF ServicePressure, Slack
<1>5. Age(snapshot.age) \in Int /\ lag \in Int
  BY <1>2, LagType, Clocks DEF Sample, Age
<1>6. cell'.state \in Automatic => Age(cell'.sampleAge) <= Freshness + Slack'
  BY <1>3, <1>4, <1>5, Clocks DEF Receives
<1>7. Converging(cell) /\ Converging(cell') =>
        cell'.cycleAge = cell.cycleAge /\ Age(budgetAge) < CycleTime + Slack'
  BY <1>3, <1>4 DEF Receives, Inv, Budgeted
<1>8. QED
  BY <1>3, <1>6, <1>7, CallKeeps DEF Receives, ServicePressure

LEMMA SafetyKeeps == ASSUME Inv, ServiceSafety PROVE Inv'
<1>1. PICK ok \in BOOLEAN : cell' = CheckPressureSafety(cell, ok)
  BY VerdictType DEF ServiceSafety
<1>2. \/ cell' = cell /\ (cell.state \in Automatic => InTime(cell))
      \/ Faulted(cell, cell')
      \/ Contacts(cell, cell') /\ InTime(cell)
  BY <1>1, CheckGuards, LagType DEF Inv
<1>3. Whole(cell')
  BY <1>2 DEF Faulted, Contacts, Inv
<1>4. Slack' = 0 /\ lag \in Int /\ budgetAge \in Int /\ cell.cycleAge \in Int
      /\ cell.sampleAge \in Int
  BY Clocks, LagType DEF ServiceSafety, Slack, Inv, TypeOK, Cells
<1>5. cell'.state \in Automatic => InTime(cell) /\ cell'.sampleAge = cell.sampleAge
  BY <1>2 DEF Faulted, Contacts, SamePressure, Automatic, Motion
<1>6. Converging(cell') => cell'.state \in Automatic
  BY DEF Converging
<1>7. Converging(cell) /\ Converging(cell') => cell'.cycleAge = cell.cycleAge
  BY <1>2, <1>6 DEF Faulted, Contacts, Converging, Automatic, Motion
<1>8. Converging(cell) /\ Converging(cell') => Age(budgetAge) < CycleTime + Slack'
  BY <1>4, <1>5, <1>6, Clocks DEF InTime, Inv, Budgeted, Age
<1>9. cell'.state \in Automatic => Age(cell'.sampleAge) <= Freshness + Slack'
  BY <1>4, <1>5, Clocks DEF InTime, Age
<1>10. QED
  BY <1>3, <1>7, <1>8, <1>9, CallKeeps DEF ServiceSafety

LEMMA MotorKeeps == ASSUME Inv, ServiceMotor PROVE Inv'
<1> DEFINE v == Serviced(cell)
<1>1. Whole(v) /\ SamePressure(cell, v) /\ SameCycle(cell, v) /\ v.state = cell.state
  BY ServicedWhole DEF Inv
<1>2. cell' = v \/ cell' = EnterFault(v)
  BY DEF ServiceMotor
<1> HIDE DEF v
<1>3. Faulted(v, EnterFault(v))
  BY <1>1, FaultRests DEF Whole
<1>4. /\ Whole(cell') /\ cell'.sampleAge = cell.sampleAge
      /\ cell'.state \in Automatic => cell.state \in Automatic
      /\ Converging(cell') => cell'.cycleAge = cell.cycleAge
  BY <1>1, <1>2, <1>3
  DEF Faulted, SamePressure, SameCycle, Converging, Automatic, Motion
<1>5. QED
  BY <1>4, QuietCallKeeps DEF ServiceMotor

LEMMA NoteKeeps == ASSUME Inv, HandleMotor PROVE Inv'
<1>1. PICK ok \in BOOLEAN : cell' = HandleMotorService(cell, ok)
  BY VerdictType DEF HandleMotor
<1>2. cell' = cell \/ Faulted(cell, cell')
      \/ (Settles(cell, cell') /\ cell.state \in Motion)
  BY <1>1, ServiceNotes, LagType DEF Inv
<1>3. /\ Whole(cell') /\ cell'.sampleAge = cell.sampleAge
      /\ cell'.state \in Automatic => cell.state \in Automatic
      /\ Converging(cell') => cell'.cycleAge = cell.cycleAge
  BY <1>2
  DEF Inv, Faulted, Settles, RestsIn, SamePressure, SameCycle, Converging, Automatic, Motion
<1>4. QED
  BY <1>3, QuietCallKeeps DEF HandleMotor

LEMMA GuardKeeps == ASSUME Inv, Guard PROVE Inv'
<1>1. cell' = cell \/ cell' = EnterFault(cell)
  BY DEF Guard
<1>2. Faulted(cell, EnterFault(cell))
  BY FaultRests DEF Inv, Whole
<1>3. /\ Whole(cell') /\ cell'.sampleAge = cell.sampleAge
      /\ cell'.state \in Automatic => cell.state \in Automatic
      /\ Converging(cell') => cell'.cycleAge = cell.cycleAge
  BY <1>1, <1>2 DEF Inv, Faulted, SamePressure, Converging, Automatic, Motion
<1>4. QED
  BY <1>3, QuietCallKeeps DEF Guard

LEMMA CommandKeeps == ASSUME Inv, Command PROVE Inv'
<1>1. PICK ok \in BOOLEAN, healthy \in BOOLEAN :
        cell' \in {cell, Stop(cell, ok), AutoStart(cell, ok, healthy)}
  BY VerdictType DEF Command
<1>2. Whole(cell)
  BY DEF Inv
<1>3. LET d == Stop(cell, ok)
      IN  Whole(d) /\ SamePressure(cell, d) /\ d.state \in {"FAULT", "IDLE"}
  BY <1>2, StopRests
<1>4. LET d == AutoStart(cell, ok, healthy)
      IN  \/ d = cell
          \/ /\ cell.state = "IDLE" /\ Age(cell.sampleAge) <= Freshness
             /\ Whole(d) /\ SamePressure(cell, d)
  BY <1>2, StartBegins, LagType
<1>5. /\ Whole(cell') /\ cell'.sampleAge = cell.sampleAge
      /\ cell'.state \in Automatic =>
           cell.state \in Automatic \/ Age(cell.sampleAge) <= Freshness
      /\ Converging(cell) /\ Converging(cell') => cell'.cycleAge = cell.cycleAge
  BY <1>1, <1>2, <1>3, <1>4 DEF SamePressure, Converging, Automatic, Motion
<1>6. QED
  BY <1>5, QuietCallKeeps DEF Command

LEMMA TickKeeps == ASSUME Inv, MachineTick PROVE Inv'
<1>1. LET d == OpenGate(cell)
      IN  Whole(d) /\ SamePressure(cell, d) /\ SameCycle(cell, d) /\ d.state = cell.state
  BY GateOpens, LagType DEF Inv
<1>2. /\ Whole(cell') /\ cell'.sampleAge = cell.sampleAge
      /\ cell'.state \in Automatic => cell.state \in Automatic
      /\ Converging(cell') => cell'.cycleAge = cell.cycleAge
  BY <1>1 DEF MachineTick, SamePressure, SameCycle
<1>3. QED
  BY <1>2, QuietCallKeeps DEF MachineTick

\* A new iteration reads the clock again: what was lag becomes slack.
LEMMA ReadKeeps == ASSUME Inv, ReadSnapshot PROVE Inv'
<1>1. /\ UNCHANGED <<cell, restAge, budgetAge>> /\ lag' = 0 /\ snapshot' = published
      /\ published' = Nothing /\ Slack = 0 /\ Slack' = MaxLag
      /\ pc' \in {"safety", "sample"} /\ (pc' = "sample" => published # Nothing)
  BY DEF ReadSnapshot, history, Slack
<1>2. /\ lag \in 0..MaxLag /\ budgetAge \in Int /\ cell.sampleAge \in Int
      /\ published \in Sample \cup {Nothing} /\ cell \in Cells
  BY Clocks DEF Inv, TypeOK, Cells
<1>3. TypeOK'
  BY <1>1, <1>2, Clocks DEF Inv, TypeOK
<1>4. Whole(cell')
  BY <1>1 DEF Inv
<1>5. Fresh'
  BY <1>1, <1>2, Clocks DEF Inv, Fresh, Age
<1>6. Converging(cell') <=> Converging(cell)
  BY <1>1
<1>7. Converging(cell) => Age(budgetAge)' < CycleTime + Slack'
  BY <1>1, <1>2, Clocks DEF Inv, Budgeted, Age
<1>8. Budgeted'
  BY <1>1, <1>6, <1>7 DEF Inv, Budgeted, Age
<1>9. (pc = "sample" => snapshot \in Sample)'
  BY <1>1, <1>2
<1>10. QED
  BY <1>3, <1>4, <1>5, <1>8, <1>9 DEF Inv

LEMMA PublishKeeps == ASSUME Inv, Publish PROVE Inv'
<1>1. UNCHANGED <<cell, snapshot, pc, lag, restAge, budgetAge>>
  BY DEF Publish, history
<1>2. published' \in Sample
  BY LevelAssumption, Constants DEF Publish, Sample
<1>3. Slack' = Slack
  BY <1>1 DEF Slack
<1>4. TypeOK'
  BY <1>1, <1>2 DEF Inv, TypeOK
<1>5. Fresh' /\ Budgeted'
  BY <1>1, <1>3 DEF Inv, Fresh, Budgeted, Age
<1>6. QED
  BY <1>1, <1>4, <1>5 DEF Inv

\* TIM5 touches the bridge and the event only.
LEMMA ExpireEnds ==
  ASSUME Inv, Expire
  PROVE  /\ Whole(cell') /\ SamePressure(cell, cell') /\ SameCycle(cell, cell')
         /\ cell'.state = cell.state /\ cell'.completion = cell.completion
         /\ cell.event = "NONE"
<1>1. PICK end \in Ends :
        cell' = [cell EXCEPT !.out = "OFF", !.event = end, !.driveAge = 0]
  BY DEF Expire
<1>2. cell \in Cells /\ Whole(cell) /\ cell.active /\ cell.event = "NONE"
  BY DEF Inv, Whole, Sound, Expire
<1>3. cell' \in Cells
  BY <1>1, <1>2, Constants DEF Cells
<1>4. /\ cell'.out = "OFF" /\ cell'.active = cell.active
      /\ cell'.completion = cell.completion /\ cell'.owned = cell.owned
      /\ cell'.state = cell.state /\ cell'.contacted = cell.contacted
      /\ cell'.pending = cell.pending /\ cell'.sampleAge = cell.sampleAge
      /\ cell'.level = cell.level /\ cell'.cycleAge = cell.cycleAge
  BY <1>1, <1>2 DEF Cells
<1>5. QED
  BY <1>2, <1>3, <1>4 DEF Whole, Sound, Latched, SamePressure, SameCycle

LEMMA ExpireKeeps == ASSUME Inv, Expire PROVE Inv'
<1>1. /\ Whole(cell') /\ SamePressure(cell, cell') /\ SameCycle(cell, cell')
      /\ cell'.state = cell.state
  BY ExpireEnds
<1>2. UNCHANGED <<published, snapshot, pc, lag>> /\ Observe /\ Slack' = Slack
  BY DEF Expire, Slack
<1>3. Converging(cell') <=> Converging(cell)
  BY <1>1 DEF Converging, SameCycle
<1>4. restAge' \in 0..Cap /\ budgetAge' \in 0..Cap
      /\ (Converging(cell) => budgetAge' = budgetAge)
  BY <1>2, <1>3, Constants DEF Observe, Inv, TypeOK
<1>5. TypeOK'
  BY <1>1, <1>2, <1>4 DEF Inv, TypeOK, Whole, Sound
<1>6. Fresh'
  BY <1>1, <1>2 DEF Inv, Fresh, Age, SamePressure
<1>7. Budgeted'
  BY <1>1, <1>2, <1>3, <1>4 DEF Inv, Budgeted, Age, SameCycle
<1>8. QED
  BY <1>1, <1>2, <1>5, <1>6, <1>7 DEF Inv

LEMMA Ages ==
  ASSUME NEW a \in 0..Cap
  PROVE  Older(a) \in 0..Cap /\ Older(a) <= a + 1
         /\ \A b \in 0..Cap : b <= a => Older(b) <= Older(a)
  BY Clocks DEF Older

\* Time ages the stamps and the time that is compared with them alike.
LEMMA PassKeeps == ASSUME Inv, Pass PROVE Inv'
<1>1. cell \in Cells /\ Whole(cell) /\ lag \in Nat /\ lag < MaxLag /\ MaxLag \in Nat
      /\ cell.driveAge < Backstop /\ Backstop \in Nat
  BY Clocks DEF Inv, TypeOK, Pass
<1>2. /\ cell.sampleAge \in 0..Cap /\ cell.cycleAge \in 0..Cap
      /\ cell.settleAge \in 0..Cap /\ cell.driveAge \in 0..Backstop
      /\ restAge \in 0..Cap /\ budgetAge \in 0..Cap
  BY <1>1 DEF Inv, TypeOK, Cells
<1>3. cell' = [cell EXCEPT
                 !.sampleAge = Older(cell.sampleAge),
                 !.settleAge = OlderIf(cell.state = "AUTO_SETTLE", cell.settleAge),
                 !.cycleAge  = Older(cell.cycleAge),
                 !.driveAge  = OlderIf(cell.out # "OFF", cell.driveAge)]
  BY DEF Pass
<1>4. /\ Older(cell.sampleAge) \in 0..Cap /\ Older(cell.cycleAge) \in 0..Cap
      /\ OlderIf(cell.state = "AUTO_SETTLE", cell.settleAge) \in 0..Cap
      /\ OlderIf(cell.out # "OFF", cell.driveAge) \in 0..Backstop
  <2>1. OlderIf(cell.out # "OFF", cell.driveAge) \in {cell.driveAge, cell.driveAge + 1}
    BY DEF OlderIf, Older
  <2>2. QED
    BY <1>1, <1>2, <2>1, Ages DEF OlderIf
<1>5. cell' \in Cells
  BY <1>1, <1>3, <1>4 DEF Cells
<1>6. /\ cell'.out = cell.out /\ cell'.active = cell.active /\ cell'.event = cell.event
      /\ cell'.completion = cell.completion /\ cell'.owned = cell.owned
      /\ cell'.state = cell.state /\ cell'.contacted = cell.contacted
      /\ cell'.pending = cell.pending
      /\ cell'.sampleAge = Older(cell.sampleAge) /\ cell'.cycleAge = Older(cell.cycleAge)
  BY <1>1, <1>3 DEF Cells
<1>7. Whole(cell')
  BY <1>1, <1>5, <1>6 DEF Whole, Sound, Latched
<1>8. ASSUME NEW s \in Sample \cup {Nothing}
      PROVE  /\ [s EXCEPT !.age = Older(s.age)] \in Sample \cup {Nothing}
             /\ s \in Sample => [s EXCEPT !.age = Older(s.age)] \in Sample
  <2>1. CASE s \in Sample
    <3>1. s.age \in 0..Cap
      BY <2>1 DEF Sample
    <3>2. Older(s.age) \in 0..Cap
      BY <3>1, Ages
    <3>3. QED
      BY <2>1, <3>2 DEF Sample
  <2>2. CASE s = Nothing
    <3>1. s.age = Cap /\ Older(s.age) = Cap
      BY <2>2, Clocks DEF Nothing, Older
    <3>2. [s EXCEPT !.age = Older(s.age)] = Nothing
      BY <2>2, <3>1 DEF Nothing
    <3>3. QED
      BY <1>2, <2>1, <3>2
  <2>3. QED
    BY <2>1, <2>2
<1>9. /\ published' = [published EXCEPT !.age = Older(published.age)]
      /\ snapshot' = [snapshot EXCEPT !.age = Older(snapshot.age)]
      /\ lag' = lag + 1 /\ pc' = pc /\ restAge' = Older(restAge)
      /\ budgetAge' = OlderIf(Converging(cell), budgetAge)
  BY DEF Pass
<1>10. /\ published' \in Sample \cup {Nothing} /\ snapshot' \in Sample \cup {Nothing}
       /\ pc = "sample" => snapshot' \in Sample
  BY <1>8, <1>9 DEF Inv, TypeOK
<1>11. restAge' \in 0..Cap /\ budgetAge' \in 0..Cap /\ lag' \in 0..MaxLag
  BY <1>1, <1>2, <1>9, Ages DEF OlderIf
<1>12. TypeOK'
  BY <1>5, <1>9, <1>10, <1>11 DEF Inv, TypeOK
<1>13. Slack' = Slack /\ Slack \in Nat
  BY <1>9, Clocks DEF Slack
<1>14. Fresh'
  <2>1. cell'.sampleAge - lag' <= cell.sampleAge - lag
    BY <1>1, <1>2, <1>4, <1>6, <1>9, Ages
  <2>2. QED
    BY <1>1, <1>2, <1>4, <1>6, <1>13, <1>9, <2>1, Clocks DEF Inv, Fresh, Age
<1>15. Budgeted'
  <2>1. Converging(cell') <=> Converging(cell)
    BY <1>6 DEF Converging
  <2>2. ASSUME Converging(cell)
        PROVE  /\ budgetAge' <= cell'.cycleAge
               /\ budgetAge' - lag' < CycleTime + Slack'
    <3>1. /\ budgetAge <= cell.cycleAge /\ budgetAge - lag < CycleTime + Slack
          /\ budgetAge' = Older(budgetAge)
      BY <1>9, <2>2 DEF Inv, Budgeted, Age, OlderIf
    <3>2. budgetAge' <= cell'.cycleAge /\ budgetAge' <= budgetAge + 1
      BY <1>2, <1>6, <3>1, Ages
    <3>3. QED
      BY <1>1, <1>2, <1>9, <1>11, <1>13, <3>1, <3>2, Clocks
  <2>3. QED
    BY <2>1, <2>2 DEF Budgeted, Age
<1>16. QED
  BY <1>7, <1>9, <1>10, <1>12, <1>14, <1>15 DEF Inv

LEMMA InvInit == Init => Inv
<1> SUFFICES ASSUME Init PROVE Inv
  OBVIOUS
<1>1. cell = InitCell /\ published = Nothing /\ snapshot = Nothing /\ pc = "read"
      /\ lag = 0 /\ restAge = Cap /\ budgetAge = 0
  BY DEF Init
<1>2. InitCell \in Cells
  BY Constants DEF InitCell, Cells, States
<1>3. /\ InitCell.state = "IDLE" /\ InitCell.out = "OFF" /\ InitCell.event = "NONE"
      /\ InitCell.active = FALSE /\ InitCell.owned = FALSE /\ InitCell.pending = FALSE
      /\ InitCell.contacted = FALSE
  BY DEF InitCell
<1>4. TypeOK
  BY <1>1, <1>2, Constants, Clocks DEF TypeOK
<1>5. Whole(cell)
  BY <1>1, <1>2, <1>3 DEF Whole, Sound, Latched, Motion
<1>6. Fresh /\ Budgeted
  BY <1>1, <1>3 DEF Fresh, Budgeted, Converging, Automatic, Motion
<1>7. QED
  BY <1>1, <1>4, <1>5, <1>6 DEF Inv

LEMMA InvStep == Inv /\ [Next]_vars => Inv'
<1> SUFFICES ASSUME Inv, [Next]_vars PROVE Inv'
  OBVIOUS
<1>1. CASE Main
  BY <1>1, ReadKeeps, PressureKeeps, SafetyKeeps, MotorKeeps, NoteKeeps, GuardKeeps,
     CommandKeeps, TickKeeps DEF Main
<1>2. CASE Publish
  BY <1>2, PublishKeeps
<1>3. CASE Expire
  BY <1>3, ExpireKeeps
<1>4. CASE Pass
  BY <1>4, PassKeeps
<1>5. CASE UNCHANGED vars
  BY <1>5 DEF vars, history, Inv, TypeOK, Fresh, Budgeted, Slack, Age
<1>6. QED
  BY <1>1, <1>2, <1>3, <1>4, <1>5 DEF Next

LEMMA Always == Spec => []Inv
<1>1. QED
  BY InvInit, InvStep, PTL DEF Spec

-----------------------------------------------------------------------------
\* The context, the samples and the executor's view keep their types.
THEOREM Types == Spec => []TypeOK
<1>1. Inv => TypeOK
  BY DEF Inv
<1>2. QED
  BY <1>1, Always, PTL

\* A drive belongs to a machine in a motion state, and such a machine has a
\* request: Machine_CaptureMotorRequest, Machine_DisableOrFault.
THEOREM OwnsMotion == Spec => []MotionOwned
<1>1. Inv => MotionOwned
  BY DEF Inv, Whole, Sound, Latched, MotionOwned
<1>2. QED
  BY <1>1, Always, PTL

\* A cycle never rests on a pressure older than the limit and the time of two
\* iterations: Machine_CheckPressureSafety.
THEOREM StaysFresh == Spec => []FreshPressure
<1>1. ASSUME Inv PROVE FreshPressure
  <2>1. lag \in 0..MaxLag /\ Slack \in 0..MaxLag /\ cell.sampleAge \in Int
    BY <1>1, Clocks DEF Inv, TypeOK, Cells, Slack
  <2>2. QED
    BY <1>1, <2>1, Clocks DEF Inv, Fresh, Age, FreshPressure
<1>2. QED
  BY <1>1, Always, PTL

\* The time from contact to hold or fault is bounded, however often contact is
\* lost and made again: Machine_StopApproachOnContact.
THEOREM KeepsBudget == Spec => []BudgetHolds
<1>1. ASSUME Inv PROVE BudgetHolds
  <2>1. lag \in 0..MaxLag /\ Slack \in 0..MaxLag /\ budgetAge \in Int
    BY <1>1, Clocks DEF Inv, TypeOK, Slack
  <2>2. QED
    BY <1>1, <2>1, Clocks DEF Inv, Budgeted, Age, BudgetHolds
<1>2. QED
  BY <1>1, Always, PTL

LEMMA BadStays ==
  ASSUME Inv, [Next]_vars, Bad(cell)
  PROVE  Bad(cell') \/ cell'.state \in {"FAULT", "IDLE"}
<1>1. Whole(cell) /\ cell \in Cells /\ lag \in 0..Cap
  BY LagType DEF Inv, Whole, Sound
<1>2. ASSUME cell'.state = cell.state, cell'.event = cell.event,
             cell'.completion = cell.completion
      PROVE  Bad(cell')
  BY <1>2 DEF Bad
<1>3. CASE ServicePressure
  BY <1>1, <1>3, VerdictType, SampleHandled DEF ServicePressure, Receives, Inv
<1>4. CASE ServiceSafety
  BY <1>1, <1>4, VerdictType, CheckGuards DEF ServiceSafety, Contacts, Faulted
<1>5. CASE ServiceMotor
  <2>1. LET v == Serviced(cell)
        IN  Whole(v) /\ Bad(v)
    <3>1. cell.event # "NONE" => cell.completion = "NONE"
      BY <1>1 DEF Whole, Sound
    <3>2. QED
      BY <1>1, <3>1, ServicedWhole DEF Bad
  <2>2. QED
    BY <1>5, <2>1, FaultRests DEF ServiceMotor, Whole, Faulted
<1>6. CASE HandleMotor
  <2>1. ~(cell.completion = "NORMAL" /\ ~cell.active)
    BY <1>1 DEF Bad, Whole, Sound
  <2>2. QED
    BY <1>1, <1>6, <2>1, VerdictType, ServiceNotes DEF HandleMotor, Faulted
<1>7. CASE Guard
  BY <1>1, <1>7, FaultRests DEF Guard, Whole, Faulted
<1>8. CASE Command
  BY <1>1, <1>8, VerdictType, StopRests, StartBegins DEF Command, Bad, Motion
<1>9. CASE MachineTick
  BY <1>1, <1>2, <1>9, GateOpens DEF MachineTick
<1>10. CASE Expire
  <2>1. cell.active /\ cell.event = "NONE" /\ cell.completion = "NONE"
    BY <1>1, <1>10 DEF Expire, Whole, Sound
  <2>2. QED
    BY <2>1 DEF Bad
<1>11. CASE Pass
  <2>1. cell'.state = cell.state /\ cell'.event = cell.event
        /\ cell'.completion = cell.completion
    BY <1>1, <1>11 DEF Pass, Cells
  <2>2. QED
    BY <1>2, <2>1
<1>12. CASE ReadSnapshot \/ Publish \/ UNCHANGED vars
  BY <1>12 DEF ReadSnapshot, Publish, vars
<1>13. QED
  BY <1>3, <1>4, <1>5, <1>6, <1>7, <1>8, <1>9, <1>10, <1>11, <1>12 DEF Next, Main

\* A drive that ended by its backstop or by an error is a fault unless STOP comes
\* first, whatever contact is seen meanwhile: Machine_StopApproachOnContact.
THEOREM FaultsBadEnds == Spec => BadEndFaults
<1>1. Inv /\ [Next]_vars =>
        [EndedBadly => EndedBadly' \/ cell'.state \in {"FAULT", "IDLE"}]_vars
  BY BadStays DEF EndedBadly, Bad
<1>2. QED
  BY <1>1, Always, PTL DEF Spec, BadEndFaults
=============================================================================
