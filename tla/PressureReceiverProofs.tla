----------------------- MODULE PressureReceiverProofs ------------------------
(***************************************************************************)
(* Proofs about PressureReceiver, for every payload, every number of       *)
(* frames and faults and every width of the tick: a clean frame is always  *)
(* published, and a delivered sample is whole and rightly dated.           *)
(***************************************************************************)
EXTENDS PressureReceiver, SequenceTheorems, TLAPS

-----------------------------------------------------------------------------
(* Bytes, frames and samples.                                              *)

Ticks   == 0 .. TickRange - 1
Samples == [value : Seq(Bytes), sequence : Nat, at : Ticks]

TypeOK ==
  /\ \E payload \in Bytes \X Bytes : sending = FrameOf(payload)
  /\ position \in 1 .. FrameLength
  /\ frame \in Seq(Bytes) /\ Len(frame) < FrameLength
  /\ snapshot \in Samples /\ copy \in Samples /\ taken \in Samples
  /\ tick \in Ticks /\ now \in Ticks
  /\ pass \in 0 .. MaxPass
  /\ since \in 0 .. TickRange /\ copyAge \in 0 .. TickRange
  /\ delivered \in Nat
  /\ pc \in {"loop", "value", "at", "date", "deliver"}

LEMMA Bounds == MaxPass \in Nat /\ TickRange \in Nat /\ 2 * MaxPass < TickRange
  BY BoundsAssumption

LEMMA XorOfBytes ==
  ASSUME NEW a \in Bytes, NEW b \in Bytes PROVE Xor(a, b) \in Bytes
<1>1. (a + b) % 2 \in 0 .. 1 /\ ((a \div 2) + (b \div 2)) % 2 \in 0 .. 1
  BY DEF Bytes
<1>2. QED
  BY <1>1 DEF Xor, Bytes

LEMMA FramesAreBytes ==
  ASSUME NEW payload \in Bytes \X Bytes
  PROVE  /\ FrameOf(payload) \in Seq(Bytes)
         /\ Len(FrameOf(payload)) = FrameLength
         /\ FrameOf(payload)[1] = Header
         /\ FrameOf(payload) =
              FrameOf(<<FrameOf(payload)[2], FrameOf(payload)[3]>>)
<1>1. payload[1] \in Bytes /\ payload[2] \in Bytes /\ payload = <<payload[1], payload[2]>>
  OBVIOUS
<1>2. Header \in Bytes /\ Marker \in Bytes
  BY DEF Header, Marker, Bytes
<1>3. Bcc(payload) \in Bytes
  BY <1>1, <1>2, XorOfBytes DEF Bcc
<1>4. QED
  BY <1>1, <1>2, <1>3 DEF FrameOf, FrameLength

\* The first of some places of a frame.
LEMMA FirstPlace ==
  ASSUME NEW S, S \subseteq 2 .. FrameLength, S # {}
  PROVE  Min(S) \in S /\ \A k \in S : Min(S) <= k
<1>1. \E m \in S : \A k \in S : m <= k
  <2>1. CASE 2 \in S
    BY <2>1 DEF FrameLength
  <2>2. CASE 2 \notin S /\ 3 \in S
    BY <2>2 DEF FrameLength
  <2>3. CASE 2 \notin S /\ 3 \notin S /\ 4 \in S
    BY <2>3 DEF FrameLength
  <2>4. CASE 2 \notin S /\ 3 \notin S /\ 4 \notin S
    <3>1. \A k \in S : k \in 2 .. 5 /\ k # 2 /\ k # 3 /\ k # 4
      BY <2>4 DEF FrameLength
    <3>2. \A k \in S : k = 5
      BY <3>1
    <3>3. 5 \in S
      BY <3>2
    <3>4. QED
      BY <3>2, <3>3
  <2>5. QED
    BY <2>1, <2>2, <2>3, <2>4 DEF FrameLength
<1>2. QED
  BY <1>1 DEF Min

\* What is left of a full frame that does not decode: a shorter end of it, that
\* keeps everything from any header but the one in front.
LEMMA Resynchronizes ==
  ASSUME NEW f \in Seq(Bytes), Len(f) = FrameLength
  PROVE  LET r == Resynchronized(f) IN
         /\ r \in Seq(Bytes) /\ Len(r) < FrameLength
         /\ \A i \in 1 .. Len(r) : r[i] = f[FrameLength - Len(r) + i]
         /\ \A k \in 2 .. FrameLength : f[k] = Header => Len(r) > FrameLength - k
<1> DEFINE heads == {i \in 2 .. Len(f) : f[i] = Header}
<1>1. CASE heads = {}
  <2>1. Resynchronized(f) = <<>>
    BY <1>1 DEF Resynchronized
  <2>2. Len(<<>>) = 0 /\ <<>> \in Seq(Bytes)
    OBVIOUS
  <2>3. \A k \in 2 .. FrameLength : f[k] # Header
    BY <1>1
  <2>4. QED
    BY <2>1, <2>2, <2>3 DEF FrameLength
<1>2. CASE heads # {}
  <2> DEFINE m == Min(heads)
             r == SubSeq(f, m, Len(f))
  <2>1. m \in heads /\ \A k \in heads : m <= k
    BY <1>2, FirstPlace
  <2>2. Resynchronized(f) = r
    BY <1>2 DEF Resynchronized
  <2>3. m \in 2 .. 5 /\ Len(f) = 5
    BY <2>1 DEF FrameLength
  <2>4. \A k \in 2 .. 5 : f[k] = Header => m <= k
    BY <2>1, <2>3
  <2> HIDE DEF m, heads
  <2>5. ASSUME NEW i \in m .. 5 PROVE f[i] \in Bytes
    <3>1. i \in 1 .. Len(f)
      BY <2>3
    <3>2. QED
      BY <3>1, ElementOfSeq
  <2>6. /\ r \in Seq(Bytes) /\ Len(r) = 6 - m
        /\ \A i \in 1 .. 6 - m : r[i] = f[m + i - 1]
    BY <2>3, <2>5, SubSeqProperties
  <2> HIDE DEF r
  <2>7. QED
    BY <2>2, <2>3, <2>4, <2>6 DEF FrameLength
<1>3. QED
  BY <1>1, <1>2

-----------------------------------------------------------------------------
(* The end of a frame.                                                     *)

\* f ends in the first n bytes of s.
Ends(f, s, n) ==
  /\ n <= Len(f)
  /\ \A i \in 1 .. n : f[Len(f) - n + i] = s[i]

LEMMA EndsGrow ==
  ASSUME NEW f \in Seq(Bytes), NEW s \in Seq(Bytes), NEW n \in Nat,
         n < Len(s), Ends(f, s, n)
  PROVE  Ends(Append(f, s[n + 1]), s, n + 1)
<1> DEFINE g == Append(f, s[n + 1])
<1>1. Len(f) \in Nat /\ Len(s) \in Nat
  OBVIOUS
<1>2. s[n + 1] \in Bytes
  BY <1>1, ElementOfSeq
<1>3. /\ Len(g) = Len(f) + 1
      /\ \A i \in 1 .. Len(f) : g[i] = f[i]
      /\ g[Len(f) + 1] = s[n + 1]
  BY <1>2, AppendProperties
<1> HIDE DEF g
<1>4. ASSUME NEW i \in 1 .. n + 1
      PROVE  g[Len(g) - (n + 1) + i] = s[i]
  <2>1. Len(g) - (n + 1) + i = Len(f) - n + i
    BY <1>1, <1>3
  <2>2. CASE i = n + 1
    BY <1>1, <1>3, <2>1, <2>2
  <2>3. CASE i # n + 1
    <3>1. i \in 1 .. n /\ Len(f) - n + i \in 1 .. Len(f)
      BY <1>1, <2>3 DEF Ends
    <3>2. f[Len(f) - n + i] = s[i]
      BY <3>1 DEF Ends
    <3>3. QED
      BY <1>3, <2>1, <3>1, <3>2
  <2>4. QED
    BY <2>2, <2>3
<1>5. n + 1 <= Len(g)
  BY <1>1, <1>3 DEF Ends
<1>6. QED
  BY <1>4, <1>5 DEF Ends, g

\* Resynchronization keeps the frame on the line, of which the header has arrived.
LEMMA EndsStay ==
  ASSUME NEW f \in Seq(Bytes), Len(f) = FrameLength, NEW s, s[1] = Header,
         NEW n \in 1 .. 4, Ends(f, s, n)
  PROVE  Ends(Resynchronized(f), s, n)
<1> DEFINE r == Resynchronized(f)
           l == Len(r)
<1>1. /\ l \in Nat /\ l < 5
      /\ \A i \in 1 .. l : r[i] = f[5 - l + i]
      /\ \A k \in 2 .. 5 : f[k] = Header => l > 5 - k
  BY Resynchronizes, LenProperties DEF FrameLength
<1>2. \A i \in 1 .. n : f[5 - n + i] = s[i]
  BY DEF Ends, FrameLength
<1> HIDE DEF r, l
<1>3. 6 - n \in 2 .. 5 /\ f[6 - n] = Header
  <2>1. 5 - n + 1 = 6 - n /\ 1 \in 1 .. n
    OBVIOUS
  <2>2. QED
    BY <1>2, <2>1
<1>4. n <= l
  BY <1>1, <1>3
<1>5. ASSUME NEW i \in 1 .. n PROVE r[l - n + i] = s[i]
  <2>1. l - n + i \in 1 .. l /\ 5 - l + (l - n + i) = 5 - n + i
    BY <1>1, <1>4
  <2>2. r[l - n + i] = f[5 - n + i]
    BY <1>1, <2>1
  <2>3. QED
    BY <1>2, <2>2
<1>6. QED
  BY <1>4, <1>5 DEF Ends, r, l

-----------------------------------------------------------------------------
(* The frame on the line.                                                  *)

\* What ProcessByte makes of a byte.
LEMMA Processed ==
  ASSUME TypeOK, NEW byte \in Bytes, ProcessByte(byte)
  PROVE  \/ /\ frame = <<>> /\ byte # Header
            /\ UNCHANGED <<frame, snapshot, since>>
         \/ /\ Len(frame) + 1 < FrameLength
            /\ frame' = Append(frame, byte)
            /\ UNCHANGED <<snapshot, since>>
         \/ /\ Len(frame) + 1 = FrameLength
            /\ Decodes(Append(frame, byte))
            /\ frame' = <<>>
            /\ Publish(Append(frame, byte))
         \/ /\ Len(frame) + 1 = FrameLength
            /\ ~Decodes(Append(frame, byte))
            /\ frame' = Resynchronized(Append(frame, byte))
            /\ UNCHANGED <<snapshot, since>>
<1>1. Len(Append(frame, byte)) = Len(frame) + 1
  BY AppendProperties DEF TypeOK
<1>2. QED
  BY <1>1 DEF ProcessByte

\* A byte publishes a new sample or none.
LEMMA Published ==
  ASSUME TypeOK, NEW byte \in Bytes, ProcessByte(byte)
  PROVE  /\ frame' \in Seq(Bytes) /\ Len(frame') < FrameLength
         /\ \/ UNCHANGED <<snapshot, since>>
            \/ /\ snapshot'.sequence = snapshot.sequence + 1
               /\ snapshot'.at = tick
               /\ snapshot' \in Samples
               /\ since' = 0
<1> DEFINE longer == Append(frame, byte)
<1>1. /\ longer \in Seq(Bytes) /\ Len(longer) = Len(frame) + 1
      /\ frame \in Seq(Bytes) /\ Len(frame) < FrameLength
      /\ Len(<<>>) = 0 /\ <<>> \in Seq(Bytes) /\ 0 < FrameLength
  BY AppendProperties DEF TypeOK, FrameLength
<1>2. CASE Len(longer) = FrameLength /\ Publish(longer)
  <2>1. longer[2] \in Bytes /\ longer[3] \in Bytes
    <3>1. 2 \in 1 .. Len(longer) /\ 3 \in 1 .. Len(longer)
      BY <1>2 DEF FrameLength
    <3>2. QED
      BY <1>1, <3>1, ElementOfSeq
  <2> HIDE DEF longer
  <2>2. <<longer[2], longer[3]>> \in Seq(Bytes)
    BY <2>1
  <2>3. snapshot.sequence + 1 \in Nat /\ tick \in Ticks
    BY DEF TypeOK, Samples
  <2>4. snapshot' = [value |-> <<longer[2], longer[3]>>,
                     sequence |-> snapshot.sequence + 1, at |-> tick] /\ since' = 0
    BY <1>2 DEF Publish
  <2>5. snapshot' \in Samples /\ snapshot'.sequence = snapshot.sequence + 1
        /\ snapshot'.at = tick
    BY <2>2, <2>3, <2>4 DEF Samples
  <2>6. frame' = <<>> => frame' \in Seq(Bytes) /\ Len(frame') < FrameLength
    BY <1>1
  <2>7. frame' = <<>>
    <3>1. snapshot'.sequence # snapshot.sequence
      BY <2>3, <2>5 DEF TypeOK, Samples
    <3>2. QED
      BY <3>1, Processed
  <2>8. QED
    BY <2>4, <2>5, <2>6, <2>7
<1>3. Len(longer) = FrameLength =>
        Resynchronized(longer) \in Seq(Bytes) /\ Len(Resynchronized(longer)) < FrameLength
  BY <1>1, Resynchronizes
<1> HIDE DEF longer
<1>4. QED
  BY <1>1, <1>2, <1>3, Processed DEF longer

LEMMA Lengths ==
  /\ \A l \in Nat : l < 5 => l \in 0 .. 4
  /\ \A l \in 0 .. 4 : \A n \in 0 .. 4 : n <= l /\ n = 4 => l + 1 = 5 /\ n + 1 = 5
  /\ \A p \in 1 .. 5 : p - 1 \in 0 .. 4 /\ (p - 1) + 1 = p
  /\ \A p \in 1 .. 5 : p + 1 \in 1 .. 5 => p < 5 /\ (p + 1) - 1 = p
  OBVIOUS

\* A byte of the frame on the line extends what has arrived of it, unless a false
\* frame decodes; and the last byte completes it.
LEMMA ByteEnds ==
  ASSUME TypeOK, NEW s \in Seq(Bytes), Len(s) = 5, s[1] = Header, Decodes(s),
         NEW n \in 0 .. 4, Ends(frame, s, n), ProcessByte(s[n + 1])
  PROVE  /\ n < 4 /\ snapshot' = snapshot => Ends(frame', s, n + 1)
         /\ n = 4 => /\ snapshot'.sequence = snapshot.sequence + 1
                     /\ FrameOf(snapshot'.value) = s
<1> DEFINE longer == Append(frame, s[n + 1])
<1>1. s[n + 1] \in Bytes
  <2>1. n + 1 \in 1 .. Len(s)
    OBVIOUS
  <2>2. QED
    BY <2>1, ElementOfSeq
<1>2. frame \in Seq(Bytes) /\ Len(frame) \in 0 .. 4 /\ n <= Len(frame)
  <2>1. frame \in Seq(Bytes) /\ Len(frame) < 5 /\ n <= Len(frame)
    BY DEF TypeOK, FrameLength, Ends
  <2>2. QED
    BY <2>1, Lengths, LenProperties
<1>3. longer \in Seq(Bytes) /\ Len(longer) = Len(frame) + 1
  BY <1>1, <1>2, AppendProperties
<1>4. Ends(longer, s, n + 1)
  <2>1. n \in Nat /\ n < Len(s)
    OBVIOUS
  <2>2. QED
    BY <1>2, <2>1, EndsGrow
<1>5. frame = <<>> => s[n + 1] = Header
  BY <1>2
<1> HIDE DEF longer
<1>6. CASE n = 4
  <2>1. Len(longer) = 5 /\ \A i \in 1 .. 5 : longer[i] = s[i]
    <3>1. Len(longer) = 5 /\ n + 1 = 5
      BY <1>2, <1>3, <1>6, Lengths
    <3>2. \A i \in 1 .. 5 : longer[5 - 5 + i] = s[i]
      BY <1>4, <3>1 DEF Ends
    <3>3. QED
      BY <3>1, <3>2
  <2>2. longer = s
    BY <1>3, <2>1, SeqEqual
  <2>3. Decodes(longer)
    BY <2>2
  <2>4. Publish(longer)
    BY <1>1, <1>2, <1>3, <1>5, <2>1, <2>3, Processed DEF FrameLength, longer
  <2>5. /\ snapshot'.sequence = snapshot.sequence + 1
        /\ snapshot'.value = <<longer[2], longer[3]>>
    BY <2>4 DEF Publish
  <2>6. QED
    BY <1>6, <2>2, <2>3, <2>5 DEF Decodes
<1>7. CASE n < 4
  <2> SUFFICES ASSUME snapshot' = snapshot PROVE Ends(frame', s, n + 1)
    BY <1>7
  <2>1. ~Publish(longer)
    <3>1. snapshot.sequence \in Nat
      BY DEF TypeOK, Samples
    <3>2. Publish(longer) => snapshot'.sequence = snapshot.sequence + 1
      BY DEF Publish
    <3>3. QED
      BY <3>1, <3>2
  <2>2. Len(longer) = FrameLength => Ends(Resynchronized(longer), s, n + 1)
    BY <1>3, <1>4, <1>7, EndsStay
  <2>3. frame' = longer \/ (Len(longer) = FrameLength /\ frame' = Resynchronized(longer))
    BY <1>1, <1>3, <1>5, <2>1, Processed DEF longer
  <2>4. QED
    BY <1>4, <2>2, <2>3
<1>8. QED
  BY <1>6, <1>7
-----------------------------------------------------------------------------
(* Types.                                                                  *)

\* The sensor's next byte.
LEMMA Sent ==
  ASSUME TypeOK, Sends
  PROVE  /\ position' \in 1 .. 5
         /\ \E payload \in Bytes \X Bytes : sending' = FrameOf(payload)
         /\ sending' \in Seq(Bytes) /\ Len(sending') = 5 /\ sending'[1] = Header
         /\ Decodes(sending')
         /\ position' = 1 \/ (sending' = sending /\ position' = position + 1)
<1>1. Values \subseteq Bytes
  BY BoundsAssumption DEF Bytes
<1>2. \E payload \in Bytes \X Bytes : sending' = FrameOf(payload)
  BY <1>1 DEF Sends, TypeOK
<1>3. /\ position' \in 1 .. 5
      /\ position' = 1 \/ (sending' = sending /\ position' = position + 1)
  BY DEF Sends, TypeOK, FrameLength
<1>4. QED
  BY <1>2, <1>3, FramesAreBytes DEF FrameLength, Decodes

LEMMA EmptySample ==
  NoSample \in Samples /\ 0 \in Ticks /\ 0 \in 0 .. MaxPass /\ 0 \in 0 .. TickRange
<1>1. 0 \in Ticks /\ 0 \in 0 .. MaxPass /\ 0 \in 0 .. TickRange
  BY Bounds DEF Ticks
<1>2. <<0, 0>> \in Seq(Bytes)
  BY DEF Bytes
<1>3. QED
  BY <1>1, <1>2 DEF NoSample, Samples

\* Every step of the line handles a byte or loses one.
LEMMA BytesHandled ==
  ASSUME TypeOK, Line
  PROVE  ByteLost \/ \E byte \in Bytes : \E cost \in 0 .. 1 : HandleRxComplete(byte, cost)
<1>1. 0 \in 0 .. 1 /\ 1 \in 0 .. 1
  OBVIOUS
<1>2. CASE ByteArrives
  <2>1. Sends /\ HandleRxComplete(sending'[position'], 0)
    BY <1>2 DEF ByteArrives
  <2>2. sending' \in Seq(Bytes) /\ position' \in 1 .. Len(sending')
    BY <2>1, Sent
  <2>3. sending'[position'] \in Bytes
    BY <2>2, ElementOfSeq
  <2>4. QED
    BY <1>1, <2>1, <2>3
<1>3. CASE ByteChanged \/ ByteAdded
  <2>1. \E byte \in Bytes : HandleRxComplete(byte, 1)
    BY <1>3 DEF ByteChanged, ByteAdded
  <2>2. QED
    BY <1>1, <2>1
<1>4. QED
  BY <1>2, <1>3 DEF Line

LEMMA TypesOfLine ==
  ASSUME TypeOK, Line
  PROVE  TypeOK'
<1>1. CASE ByteLost
  <2>1. Sends /\ UNCHANGED <<receiver, main, time, since, taken, copyAge>>
    BY <1>1 DEF ByteLost
  <2>2. QED
    BY <2>1, Sent DEF TypeOK, receiver, main, time, FrameLength
<1>2. ASSUME NEW byte \in Bytes, NEW cost, HandleRxComplete(byte, cost)
      PROVE  /\ frame' \in Seq(Bytes) /\ Len(frame') < FrameLength
             /\ snapshot' \in Samples /\ since' \in 0 .. TickRange
             /\ UNCHANGED <<copy, taken, tick, now, pass, copyAge, delivered, pc>>
  BY <1>2, Published, Bounds DEF TypeOK, HandleRxComplete, main, time
<1>3. CASE ByteArrives \/ ByteChanged
  <2>1. Sends
    BY <1>3 DEF ByteArrives, ByteChanged
  <2>2. ByteLost \/ \E byte \in Bytes : \E cost \in 0 .. 1 : HandleRxComplete(byte, cost)
    BY BytesHandled
  <2>3. QED
    BY <1>1, <1>2, <2>1, <2>2, Sent DEF TypeOK, FrameLength
<1>4. CASE ByteAdded
  BY <1>2, <1>4 DEF TypeOK, ByteAdded
<1>5. QED
  BY <1>1, <1>3, <1>4 DEF Line

LEMMA Wraps == ASSUME NEW t \in Ticks PROVE (t + 1) % TickRange = IF t + 1 = TickRange THEN 0 ELSE t + 1
<1>1. t \in Nat /\ TickRange \in Nat /\ t < TickRange
  BY Bounds DEF Ticks
<1>2. CASE t + 1 = TickRange
  <2>1. TickRange % TickRange = 0
    BY <1>1
  <2>2. QED
    BY <1>2, <2>1
<1>3. CASE t + 1 # TickRange
  BY <1>1, <1>3
<1>4. QED
  BY <1>2, <1>3

LEMMA TypesOfMain ==
  ASSUME TypeOK, Main \/ SysTick \/ UNCHANGED vars
  PROVE  TypeOK'
<1>1. CASE UNCHANGED vars
  BY <1>1 DEF TypeOK, vars, line, receiver, main, time
<1>2. NoSample \in Samples /\ 0 \in 0 .. MaxPass /\ 0 \in 0 .. TickRange
  BY EmptySample
<1>3. CASE ReadSequence
  BY <1>2, <1>3 DEF ReadSequence, Go, line, receiver, TypeOK, Samples
<1>4. CASE ReadValue
  BY <1>4 DEF ReadValue, Go, line, receiver, TypeOK, Samples
<1>5. CASE ReadTime
  BY <1>5 DEF ReadTime, Go, line, receiver, TypeOK, Samples
<1>6. CASE Date
  BY <1>6 DEF Date, Go, line, receiver, TypeOK
<1>7. CASE ServicePressure
  <2>1. copy.sequence \in Nat
    BY DEF TypeOK, Samples
  <2>2. QED
    BY <1>2, <1>7, <2>1 DEF ServicePressure, Go, line, receiver, TypeOK
<1>8. CASE SysTick
  <2>1. /\ tick' \in Ticks /\ pass' \in 0 .. MaxPass
        /\ since' \in 0 .. TickRange /\ copyAge' \in 0 .. TickRange
    <3>1. tick' \in Ticks
      BY <1>8, Wraps, Bounds DEF SysTick, TypeOK, Ticks
    <3>2. QED
      BY <1>8, <3>1, Bounds DEF SysTick, TypeOK
  <2>2. QED
    BY <1>8, <2>1 DEF SysTick, line, receiver, main, TypeOK
<1>9. QED
  BY <1>1, <1>3, <1>4, <1>5, <1>6, <1>7, <1>8 DEF Main

LEMMA Typed == Spec => []TypeOK
<1>1. Init => TypeOK
  <2> SUFFICES ASSUME Init PROVE TypeOK
    OBVIOUS
  <2>1. NoSample \in Samples /\ 0 \in Ticks /\ 0 \in 0 .. MaxPass /\ 0 \in 0 .. TickRange
    BY EmptySample
  <2>2. <<0, 0>> \in Bytes \X Bytes /\ <<>> \in Seq(Bytes) /\ Len(<<>>) < FrameLength
    BY DEF Bytes, FrameLength
  <2>3. QED
    BY <2>1, <2>2 DEF Init, TypeOK, FrameLength
<1>2. TypeOK /\ [Next]_vars => TypeOK'
  BY TypesOfLine, TypesOfMain DEF Next
<1>3. QED
  BY <1>1, <1>2, PTL DEF Spec

-----------------------------------------------------------------------------
(* A clean frame is published.                                             *)

\* As long as the frame on the line arrives whole, the receiver's frame ends in what
\* has arrived of it.
LineInv == intact /\ position < FrameLength => Ends(frame, sending, position)

\* A frame that arrives whole is published with its last byte.
Arrives ==
  intact' /\ position' = FrameLength /\ position # position' =>
    /\ snapshot'.sequence = snapshot.sequence + 1
    /\ FrameOf(snapshot'.value) = sending'

LEMMA WholeFrame ==
  ASSUME TypeOK, LineInv, ByteArrives
  PROVE  LineInv' /\ Arrives
<1> DEFINE n == position' - 1
<1>1. Sends /\ ProcessByte(sending'[position']) /\ Intact(TRUE)
  BY DEF ByteArrives, HandleRxComplete
<1>2. /\ sending' \in Seq(Bytes) /\ Len(sending') = 5 /\ sending'[1] = Header
      /\ Decodes(sending') /\ position' \in 1 .. 5
      /\ position' = 1 \/ (sending' = sending /\ position' = position + 1)
  BY <1>1, Sent
<1>3. SUFFICES ASSUME intact' PROVE LineInv' /\ Arrives
  BY DEF LineInv, Arrives
<1>4. /\ position' = 1 \/ intact
      /\ position' < 5 => snapshot' = snapshot
  BY <1>1, <1>3 DEF Intact, FrameLength
<1>5. n \in 0 .. 4 /\ n + 1 = position'
  BY <1>2, Lengths
<1>6. Ends(frame, sending', n)
  <2>1. CASE position' = 1
    <3>1. n = 0 /\ Len(frame) \in Nat
      BY <2>1, LenProperties DEF TypeOK
    <3> HIDE DEF n
    <3>2. QED
      BY <3>1 DEF Ends
  <2>2. CASE position' # 1
    <3>1. n = position /\ position < 5 /\ sending' = sending
      <4>1. position \in 1 .. 5
        BY DEF TypeOK, FrameLength
      <4>2. QED
        BY <1>2, <2>2, <4>1, Lengths
    <3> HIDE DEF n
    <3>2. QED
      BY <1>4, <2>2, <3>1 DEF LineInv, FrameLength
  <2>3. QED
    BY <2>1, <2>2
<1> HIDE DEF n
<1>7. ProcessByte(sending'[n + 1])
  BY <1>1, <1>5
<1>8. /\ n < 4 /\ snapshot' = snapshot => Ends(frame', sending', n + 1)
      /\ n = 4 => /\ snapshot'.sequence = snapshot.sequence + 1
                  /\ FrameOf(snapshot'.value) = sending'
  BY <1>2, <1>5, <1>6, <1>7, ByteEnds
<1>9. (position' < 5 <=> n < 4) /\ (position' = 5 <=> n = 4)
  BY <1>5
<1>10. QED
  BY <1>4, <1>5, <1>8, <1>9 DEF LineInv, Arrives, FrameLength

LEMMA LineStep ==
  ASSUME TypeOK, LineInv, [Next]_vars
  PROVE  LineInv' /\ Arrives
<1>1. CASE ByteChanged \/ ByteLost \/ ByteAdded
  BY <1>1 DEF ByteChanged, ByteLost, ByteAdded, Intact, LineInv, Arrives
<1>2. CASE Main \/ SysTick \/ UNCHANGED vars
  <2>1. UNCHANGED <<intact, position, sending, frame>>
    BY <1>2 DEF Main, ReadSequence, ReadValue, ReadTime, Date, ServicePressure, Go,
       SysTick, vars, line, receiver
  <2>2. QED
    BY <2>1 DEF LineInv, Arrives, Ends
<1>3. QED
  BY <1>1, <1>2, WholeFrame DEF Next, Line

\* A frame that arrives unspoilt is published, for every payload and whatever was
\* in the receiver's frame before: PressureReceiver_Resynchronize never drops a
\* header behind the first byte.
THEOREM CleanFramesArrive == Spec => CleanFrameArrives
<1>1. Init => LineInv
  BY DEF Init, LineInv
<1>2. TypeOK /\ LineInv /\ [Next]_vars => LineInv'
  BY LineStep
<1>3. TypeOK /\ LineInv /\ [Next]_vars =>
        [intact' /\ position' = FrameLength /\ position # position' =>
           /\ snapshot'.sequence = snapshot.sequence + 1
           /\ FrameOf(snapshot'.value) = sending']_vars
  BY LineStep DEF Arrives
<1>4. QED
  BY <1>1, <1>2, <1>3, Typed, PTL DEF Spec, CleanFrameArrives

-----------------------------------------------------------------------------
(* Whole samples, rightly dated.                                           *)

\* now, read from the wrapping tick, is age milliseconds after at.
Since(at, age, t) == t = at + age \/ t + TickRange = at + age

\* The snapshot is dated with its age; one that main has not copied is no older than
\* the pass of main.
SnapshotInv ==
  /\ since < TickRange => Since(snapshot.at, since, tick)
  /\ snapshot.sequence # copy.sequence => since <= pass

\* While main copies, nothing is published; then the copy is the sample taken. One
\* that is to be delivered was published at most a pass before.
CopyInv ==
  /\ pc = "loop" => copy.sequence = delivered
  /\ Masked => taken = snapshot /\ copyAge = since /\ pass = 0
               /\ copy.sequence = snapshot.sequence
  /\ pc = "at" => copy.value = snapshot.value
  /\ pc \in {"date", "deliver"} => copy = taken
  /\ pc \in {"value", "at", "date", "deliver"} /\ copy.sequence # delivered =>
       /\ pc # "deliver" => copyAge <= MaxPass + pass
       /\ copyAge < TickRange
       /\ Since(taken.at, copyAge, IF pc = "deliver" THEN now ELSE tick)

\* SampleIsTrue is about what CopyInv says of a copy to be delivered.
LEMMA Ages ==
  ASSUME NEW at \in Ticks, NEW age \in Nat, age < TickRange, NEW t \in Ticks,
         Since(at, age, t)
  PROVE  (t + TickRange - at) % TickRange = age
<1>1. TickRange \in Nat /\ at \in Nat /\ t \in Nat
  BY Bounds DEF Ticks
<1>2. t + TickRange - at = age + TickRange \/ t + TickRange - at = age
  BY <1>1 DEF Since
<1>3. (age + TickRange) % TickRange = age /\ age % TickRange = age
  BY <1>1
<1>4. QED
  BY <1>2, <1>3

LEMMA CopyIsTrue == TypeOK /\ CopyInv => SampleIsTrue
<1> SUFFICES ASSUME TypeOK, CopyInv, pc = "deliver", copy.sequence # delivered
             PROVE  copy = taken /\ (now + TickRange - copy.at) % TickRange = copyAge
  BY DEF SampleIsTrue
<1>1. copy = taken /\ copyAge < TickRange /\ Since(taken.at, copyAge, now)
  BY DEF CopyInv
<1>2. taken.at \in Ticks /\ copyAge \in Nat /\ now \in Ticks
  BY DEF TypeOK, Samples
<1>3. QED
  BY <1>1, <1>2, Ages

\* A millisecond later the age is one more.
LEMMA AgesOn ==
  ASSUME NEW at \in Ticks, NEW age \in Nat, NEW t \in Ticks, Since(at, age, t),
         age + 1 < TickRange
  PROVE  Since(at, age + 1, (t + 1) % TickRange)
<1>1. TickRange \in Nat /\ at \in Nat /\ t \in Nat /\ at < TickRange /\ t < TickRange
  BY Bounds DEF Ticks
<1>2. (t + 1) % TickRange = IF t + 1 = TickRange THEN 0 ELSE t + 1
  BY Wraps
<1>3. CASE t + 1 = TickRange
  BY <1>1, <1>2, <1>3 DEF Since
<1>4. CASE t + 1 # TickRange
  BY <1>1, <1>2, <1>4 DEF Since
<1>5. QED
  BY <1>3, <1>4

LEMMA Fields ==
  ASSUME TypeOK
  PROVE  /\ snapshot.sequence \in Nat /\ copy.sequence \in Nat
         /\ snapshot.at \in Ticks /\ copy.at \in Ticks /\ taken.at \in Ticks
         /\ since \in Nat /\ copyAge \in Nat /\ pass \in 0 .. MaxPass
         /\ tick \in Ticks /\ now \in Ticks
         /\ MaxPass \in Nat /\ TickRange \in Nat /\ 2 * MaxPass < TickRange
  BY Bounds DEF TypeOK, Samples

LEMMA LineKeeps ==
  ASSUME TypeOK, SnapshotInv, CopyInv, Line
  PROVE  SnapshotInv' /\ CopyInv'
<1>1. UNCHANGED <<pc, copy, now, delivered, tick, pass, taken, copyAge>>
  BY DEF Line, ByteArrives, ByteChanged, ByteLost, ByteAdded, HandleRxComplete,
     main, time
<1>2. \/ UNCHANGED <<snapshot, since>>
      \/ ~Masked /\ snapshot'.at = tick /\ since' = 0
  <2>1. CASE ByteLost
    BY <2>1 DEF ByteLost, receiver
  <2>2. ASSUME NEW byte \in Bytes, NEW cost \in 0 .. 1, HandleRxComplete(byte, cost)
        PROVE  \/ UNCHANGED <<snapshot, since>>
               \/ ~Masked /\ snapshot'.at = tick /\ since' = 0
    BY <2>2, Published DEF HandleRxComplete
  <2>3. ByteLost \/ \E byte \in Bytes : \E cost \in 0 .. 1 : HandleRxComplete(byte, cost)
    BY BytesHandled
  <2>4. QED
    BY <2>1, <2>2, <2>3
<1>3. CASE UNCHANGED <<snapshot, since>>
  BY <1>1, <1>3 DEF SnapshotInv, CopyInv, Masked, Since
<1>4. CASE ~Masked /\ snapshot'.at = tick /\ since' = 0
  <2>1. Since(tick, 0, tick) /\ 0 <= pass
    BY Fields DEF Since, Ticks
  <2>2. SnapshotInv'
    BY <1>1, <1>4, <2>1 DEF SnapshotInv, Since
  <2>3. CopyInv'
    BY <1>1, <1>4 DEF CopyInv, Masked, Since
  <2>4. QED
    BY <2>2, <2>3
<1>5. QED
  BY <1>2, <1>3, <1>4

LEMMA MainKeeps ==
  ASSUME TypeOK, SnapshotInv, CopyInv, Main
  PROVE  SnapshotInv' /\ CopyInv'
<1>1. UNCHANGED <<snapshot, since, tick>>
  BY DEF Main, ReadSequence, ReadValue, ReadTime, Date, ServicePressure, Go, receiver
<1>2. copy \in [value : Seq(Bytes), sequence : Nat, at : Ticks]
  BY DEF TypeOK, Samples
<1>3. CASE ReadSequence
  <2>1. /\ pc = "loop" /\ pc' = "value" /\ UNCHANGED delivered
        /\ copy' = [copy EXCEPT !.sequence = snapshot.sequence]
        /\ taken' = snapshot /\ copyAge' = since /\ pass' = 0
    BY <1>3 DEF ReadSequence, Go
  <2>2. copy'.sequence = snapshot.sequence
    BY <1>2, <2>1
  <2>3. SnapshotInv'
    BY <1>1, <2>2 DEF SnapshotInv, Since
  <2>4. ASSUME snapshot.sequence # delivered
        PROVE  since <= MaxPass + 0 /\ since < TickRange
               /\ Since(snapshot.at, since, tick)
    <3>1. since <= pass
      BY <2>1, <2>4 DEF CopyInv, SnapshotInv
    <3>2. since <= MaxPass + 0 /\ since < TickRange
      BY <3>1, Fields
    <3>3. QED
      BY <3>2 DEF SnapshotInv
  <2>5. CopyInv'
    BY <1>1, <2>1, <2>2, <2>4 DEF CopyInv, Masked, Since
  <2>6. QED
    BY <2>3, <2>5
<1>4. CASE ReadValue
  <2>1. /\ pc = "value" /\ pc' = "at"
        /\ UNCHANGED <<delivered, pass, taken, copyAge, now>>
        /\ copy' = [copy EXCEPT !.value = snapshot.value]
    BY <1>4 DEF ReadValue, Go
  <2>2. copy'.sequence = copy.sequence /\ copy'.value = snapshot.value
    BY <1>2, <2>1
  <2>3. SnapshotInv'
    BY <1>1, <2>1, <2>2 DEF SnapshotInv, Since
  <2>4. CopyInv'
    BY <1>1, <2>1, <2>2 DEF CopyInv, Masked, Since
  <2>5. QED
    BY <2>3, <2>4
<1>5. CASE ReadTime
  <2>1. /\ pc = "at" /\ pc' = "date"
        /\ UNCHANGED <<delivered, pass, taken, copyAge, now>>
        /\ copy' = [copy EXCEPT !.at = snapshot.at]
    BY <1>5 DEF ReadTime, Go
  <2>2. /\ taken = snapshot /\ copy.sequence = snapshot.sequence
        /\ copy.value = snapshot.value
    BY <2>1 DEF CopyInv, Masked
  <2>3. snapshot \in [value : Seq(Bytes), sequence : Nat, at : Ticks]
    BY DEF TypeOK, Samples
  <2>4. copy' = snapshot
    BY <1>2, <2>1, <2>2, <2>3
  <2>5. SnapshotInv'
    BY <1>1, <2>1, <2>2, <2>4 DEF SnapshotInv, Since
  <2>6. CopyInv'
    BY <1>1, <2>1, <2>2, <2>4 DEF CopyInv, Masked, Since
  <2>7. QED
    BY <2>5, <2>6
<1>6. CASE Date
  <2>1. /\ pc = "date" /\ pc' = "deliver" /\ now' = tick
        /\ UNCHANGED <<copy, delivered, pass, taken, copyAge>>
    BY <1>6 DEF Date, Go
  <2>2. SnapshotInv'
    BY <1>1, <2>1 DEF SnapshotInv, Since
  <2>3. CopyInv'
    BY <1>1, <2>1 DEF CopyInv, Masked, Since
  <2>4. QED
    BY <2>2, <2>3
<1>7. CASE ServicePressure
  <2>1. /\ pc = "deliver" /\ pc' = "loop" /\ delivered' = copy.sequence
        /\ UNCHANGED <<copy, pass>>
    BY <1>7 DEF ServicePressure, Go
  <2>2. SnapshotInv'
    BY <1>1, <2>1 DEF SnapshotInv, Since
  <2>3. CopyInv'
    BY <2>1 DEF CopyInv, Masked
  <2>4. QED
    BY <2>2, <2>3
<1>8. QED
  BY <1>3, <1>4, <1>5, <1>6, <1>7 DEF Main

LEMMA TickKeeps ==
  ASSUME TypeOK, SnapshotInv, CopyInv, SysTick
  PROVE  SnapshotInv' /\ CopyInv'
<1>1. /\ ~Masked /\ pass < MaxPass /\ pass' = pass + 1
      /\ tick' = (tick + 1) % TickRange
      /\ since' = IF since < TickRange THEN since + 1 ELSE since
      /\ copyAge' = IF pc = "date" /\ copyAge < TickRange THEN copyAge + 1 ELSE copyAge
      /\ UNCHANGED <<snapshot, copy, pc, now, delivered, taken>>
  BY DEF SysTick, receiver, main
<1>2. since' < TickRange => since' = since + 1 /\ since < TickRange
  BY <1>1, Fields
<1>3. since' < TickRange => Since(snapshot.at, since + 1, tick')
  BY <1>1, <1>2, Fields, AgesOn DEF SnapshotInv
<1>4. snapshot.sequence # copy.sequence => since' <= pass'
  BY <1>1, Fields DEF SnapshotInv
<1>5. SnapshotInv'
  BY <1>1, <1>2, <1>3, <1>4 DEF SnapshotInv, Since
<1>6. CASE pc = "date" /\ copy.sequence # delivered
  <2>1. /\ copyAge <= MaxPass + pass /\ copyAge < TickRange
        /\ Since(taken.at, copyAge, tick)
    BY <1>6 DEF CopyInv
  <2>2. /\ copyAge' = copyAge + 1 /\ copyAge + 1 <= MaxPass + pass'
        /\ copyAge + 1 < TickRange
    BY <1>1, <1>6, <2>1, Fields
  <2>3. Since(taken.at, copyAge + 1, tick')
    BY <1>1, <2>1, <2>2, Fields, AgesOn
  <2>4. QED
    BY <1>1, <1>5, <1>6, <2>2, <2>3 DEF CopyInv, Masked, Since
<1>7. CASE ~(pc = "date" /\ copy.sequence # delivered)
  BY <1>1, <1>5, <1>7 DEF CopyInv, Masked, Since
<1>8. QED
  BY <1>6, <1>7

\* A delivered sample is whole and its age right, for every width of the tick that
\* is longer than two passes: the copy is made with the interrupts masked, and main
\* reads the tick after it and not before (PressureUart6_ReadSnapshot, main.c:82).
THEOREM SamplesAreTrue == Spec => []SampleIsTrue
<1>1. Init => SnapshotInv /\ CopyInv
  BY DEF Init, SnapshotInv, CopyInv, Since, Masked, NoSample
<1>2. TypeOK /\ SnapshotInv /\ CopyInv /\ [Next]_vars => SnapshotInv' /\ CopyInv'
  <2>1. CASE UNCHANGED vars
    BY <2>1 DEF vars, line, receiver, main, time, SnapshotInv, CopyInv, Masked, Since
  <2>2. QED
    BY <2>1, LineKeeps, MainKeeps, TickKeeps DEF Next
<1>3. QED
  BY <1>1, <1>2, CopyIsTrue, Typed, PTL DEF Spec
=============================================================================
