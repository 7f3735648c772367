-------------------------- MODULE ModbusPortProofs --------------------------
(***************************************************************************)
(* Proofs about ModbusPort, for every number of frames, frame length,      *)
(* queue, ring and number of line errors: the types of the variables, the  *)
(* account of the requests and of the frames, the order of execution and   *)
(* answers, and the hand-over of the half-duplex line.                     *)
(***************************************************************************)
EXTENDS ModbusPort, SequenceTheorems, FiniteSetTheorems, TLAPS

Octet == Bytes \cup {Noise}

LEMMA Sizes ==
    /\ MaxFrames \in Nat /\ FrameLen \in Nat /\ FrameLen >= 2
    /\ QueueCapacity \in Nat /\ QueueCapacity >= 1
    /\ RingCapacity \in Nat /\ RingCapacity >= 2 /\ MaxNoise \in Nat
    /\ MaxBytes \in Nat
<1>1. /\ MaxFrames \in Nat /\ FrameLen \in Nat /\ FrameLen >= 2
      /\ QueueCapacity \in Nat /\ QueueCapacity >= 1
      /\ RingCapacity \in Nat /\ RingCapacity >= 2 /\ MaxNoise \in Nat
  BY ServerAssumption, PortAssumption
<1>2. QED
  BY <1>1 DEF MaxBytes

-----------------------------------------------------------------------------
(* Numbers of frames and of bytes.                                         *)

\* Multiplication with the frame length keeps the order.
LEMMA Products ==
  ASSUME NEW a \in Int, NEW b \in Int
  PROVE  /\ a * FrameLen \in Int
         /\ a < b => a * FrameLen + FrameLen <= b * FrameLen
         /\ (a + 1) * FrameLen = a * FrameLen + FrameLen
<1>1. FrameLen \in Nat /\ FrameLen >= 2
  BY Sizes
<1>2. ASSUME NEW d \in Nat, NEW m \in Nat PROVE d * m \in Nat
  OBVIOUS
<1>3. ASSUME a < b PROVE a * FrameLen + FrameLen <= b * FrameLen
  <2>1. b - a - 1 \in Nat
    BY <1>3
  <2>2. (b - a - 1) * FrameLen \in Nat
    BY <1>1, <1>2, <2>1
  <2>3. (b - a - 1) * FrameLen = b * FrameLen - a * FrameLen - FrameLen
    BY <1>1
  <2>4. a * FrameLen \in Int /\ b * FrameLen \in Int
    BY <1>1
  <2>5. QED
    BY <1>1, <2>2, <2>3, <2>4
<1>4. a * FrameLen \in Int /\ (a + 1) * FrameLen = a * FrameLen + FrameLen
  BY <1>1
<1>5. QED
  BY <1>3, <1>4

\* The first byte of each frame, and the bytes between it and the next.
LEMMA FirstBytes ==
  ASSUME NEW f \in Frames
  PROVE  /\ FirstByte(f) \in Bytes
         /\ FirstByte(f) + FrameLen - 1 = f * FrameLen
         /\ f * FrameLen <= MaxBytes
         /\ Opens(FirstByte(f))
<1>1. f \in Int /\ 1 <= f /\ f <= MaxFrames /\ MaxFrames \in Int
  BY Sizes DEF Frames
<1>2. FirstByte(f) = f * FrameLen - FrameLen + 1
  <2>1. ((f - 1) + 1) * FrameLen = (f - 1) * FrameLen + FrameLen
    BY <1>1, Products
  <2>2. (f - 1) * FrameLen \in Int /\ f * FrameLen \in Int /\ FrameLen \in Int
    BY <1>1, Products, Sizes
  <2>3. (f - 1) + 1 = f
    BY <1>1
  <2>4. QED
    BY <2>1, <2>2, <2>3 DEF FirstByte
<1>3. f * FrameLen <= MaxFrames * FrameLen
  BY <1>1, Products, Sizes
<1>4. 0 * FrameLen + FrameLen <= f * FrameLen
  BY <1>1, Products
<1>5. FirstByte(f) \in Bytes
  BY <1>1, <1>2, <1>3, <1>4, Products, Sizes DEF Bytes
<1>6. QED
  BY <1>1, <1>2, <1>3, <1>5, Products, Sizes DEF MaxBytes, Opens

LEMMA OpensHasFrame ==
  ASSUME NEW b, Opens(b)
  PROVE  FrameOf(b) \in Frames /\ b = FirstByte(FrameOf(b)) /\ b \in Bytes
<1>1. FrameOf(b) \in Frames /\ b = FirstByte(FrameOf(b))
  BY DEF Opens, FrameOf
<1>2. QED
  BY <1>1, FirstBytes

LEMMA NoiseOpensNothing == ~Opens(Noise)
  BY OpensHasFrame DEF Bytes, Noise

\* Within a frame no other frame opens.
LEMMA OpensAlone ==
  ASSUME NEW b, Opens(b), NEW k \in 1 .. FrameLen - 1
  PROVE  ~Opens(b + k)
<1> SUFFICES ASSUME Opens(b + k) PROVE FALSE
  OBVIOUS
<1> DEFINE f == FrameOf(b)
           g == FrameOf(b + k)
<1>1. f \in Int /\ g \in Int /\ FirstByte(f) = b /\ FirstByte(g) = b + k
  BY OpensHasFrame DEF Frames
<1> HIDE DEF f, g
<1>2. (f - 1) * FrameLen \in Int /\ (g - 1) * FrameLen \in Int
  BY <1>1, Products, f - 1 \in Int, g - 1 \in Int
<1>3. (g - 1) * FrameLen = (f - 1) * FrameLen + k
  BY <1>1, <1>2, Sizes DEF FirstByte
<1>4. CASE g > f
  BY <1>1, <1>2, <1>3, <1>4, Products, Sizes, f - 1 < g - 1
<1>5. CASE g < f
  BY <1>1, <1>2, <1>3, <1>5, Products, Sizes, g - 1 < f - 1
<1>6. CASE g = f
  BY <1>1, <1>2, <1>3, <1>6, Sizes
<1>7. QED
  BY <1>1, <1>4, <1>5, <1>6

-----------------------------------------------------------------------------
(* A stream of bytes.                                                      *)

\* Frame f lies whole in s from i on.
FrameAt(s, i) ==
    /\ i + FrameLen - 1 <= Len(s)
    /\ Opens(s[i])
    /\ \A k \in 0 .. FrameLen - 1 : s[i + k] = s[i] + k

LEMMA WholeIsFrames ==
  ASSUME NEW s \in Seq(Octet)
  PROVE  Whole(s) = {i \in 1 .. Len(s) : FrameAt(s, i)}
<1>1. Len(s) \in Nat /\ FrameLen \in Nat /\ FrameLen >= 2
  BY Sizes
<1>2. ASSUME NEW i \in 1 .. Len(s), i + FrameLen - 1 <= Len(s)
      PROVE  CrcIsValid(SubSeq(s, i, i + FrameLen - 1)) <=> FrameAt(s, i)
  <2> DEFINE t == SubSeq(s, i, i + FrameLen - 1)
  <2>1. \A j \in i .. i + FrameLen - 1 : s[j] \in Octet
    BY <1>1, <1>2, ElementOfSeq
  <2>2. i \in Int /\ i + FrameLen - 1 \in Int /\ i <= i + FrameLen - 1
    BY <1>1
  <2>3. /\ Len(t) = (i + FrameLen - 1) - i + 1
        /\ \A j \in 1 .. (i + FrameLen - 1) - i + 1 : t[j] = s[i + j - 1]
    BY <2>1, <2>2, SubSeqProperties
  <2>4. Len(t) = FrameLen /\ \A j \in 1 .. FrameLen : t[j] = s[i + j - 1]
    BY <1>1, <2>2, <2>3, (i + FrameLen - 1) - i + 1 = FrameLen
  <2>5. t[1] = s[i]
    BY <1>1, <2>4, i + 1 - 1 = i
  <2> HIDE DEF t
  <2>6. ASSUME CrcIsValid(t)
        PROVE  FrameAt(s, i)
    <3>1. ASSUME NEW k \in 0 .. FrameLen - 1
          PROVE  s[i + k] = s[i] + k
      <4>1. k + 1 \in 1 .. FrameLen /\ i + (k + 1) - 1 = i + k
        BY <1>1
      <4>2. t[k + 1] = s[i + k]
        BY <2>4, <4>1
      <4>3. t[k + 1] = t[1] + (k + 1) - 1
        BY <2>6, <4>1 DEF CrcIsValid
      <4>4. t[1] \in Int
        BY <2>6, OpensHasFrame DEF CrcIsValid, Bytes
      <4>5. QED
        BY <2>5, <4>2, <4>3, <4>4
    <3>2. QED
      BY <1>2, <2>5, <2>6, <3>1 DEF FrameAt, CrcIsValid
  <2>7. ASSUME FrameAt(s, i)
        PROVE  CrcIsValid(t)
    <3>1. ASSUME NEW j \in 1 .. FrameLen
          PROVE  t[j] = t[1] + j - 1
      <4>1. j - 1 \in 0 .. FrameLen - 1 /\ i + (j - 1) = i + j - 1
        BY <1>1
      <4>2. s[i + (j - 1)] = s[i] + (j - 1)
        BY <2>7, <4>1 DEF FrameAt
      <4>3. s[i] \in Int
        BY <2>7, OpensHasFrame DEF FrameAt, Bytes
      <4>4. QED
        BY <2>4, <2>5, <4>1, <4>2, <4>3
    <3>2. QED
      BY <2>4, <2>5, <2>7, <3>1 DEF FrameAt, CrcIsValid
  <2>8. QED
    BY <2>6, <2>7 DEF t
<1>3. ASSUME NEW i
      PROVE  i \in 1 .. Len(s) - FrameLen + 1
               <=> i \in 1 .. Len(s) /\ i + FrameLen - 1 <= Len(s)
  BY <1>1
<1>4. Whole(s) \subseteq {i \in 1 .. Len(s) : FrameAt(s, i)}
  BY <1>2, <1>3 DEF Whole
<1>5. ASSUME NEW i \in 1 .. Len(s), FrameAt(s, i)
      PROVE  i \in Whole(s)
  BY <1>2, <1>3, <1>5 DEF Whole, FrameAt
<1>6. QED
  BY <1>4, <1>5

LEMMA WholeIsFinite ==
  ASSUME NEW s \in Seq(Octet)
  PROVE  IsFiniteSet(Whole(s)) /\ Cardinality(Whole(s)) \in Nat /\ Whole(s) \subseteq Int
<1>1. Len(s) \in Nat /\ IsFiniteSet(1 .. Len(s))
  BY FS_Interval
<1>2. Whole(s) \subseteq 1 .. Len(s)
  BY WholeIsFrames
<1>3. IsFiniteSet(Whole(s))
  BY <1>1, <1>2, FS_Subset
<1>4. QED
  BY <1>1, <1>2, <1>3, FS_CardinalityType

\* Moving a set of numbers does not change its size.
LEMMA Shifted ==
  ASSUME NEW S \in SUBSET Int, NEW T \in SUBSET Int, NEW n \in Int, IsFiniteSet(S),
         \A x \in Int : x \in S <=> x - n \in T
  PROVE  IsFiniteSet(T) /\ Cardinality(T) = Cardinality(S)
<1> DEFINE F == [x \in S |-> x - n]
<1>1. F \in [S -> T]
  OBVIOUS
<1>2. \A x, y \in S : F[x] = F[y] => x = y
  OBVIOUS
<1>3. \A y \in T : \E x \in S : F[x] = y
  <2> TAKE y \in T
  <2>1. y + n \in Int /\ (y + n) - n = y
    OBVIOUS
  <2>2. y + n \in S /\ F[y + n] = y
    BY <2>1
  <2>3. QED
    BY <2>2
<1> HIDE DEF F
<1>4. F \in Bijection(S, T)
  BY <1>1, <1>2, <1>3 DEF Bijection, Injection, Surjection, IsInjective
<1>5. QED
  BY <1>4, FS_Bijection DEF ExistsBijection

LEMMA DropFrontIs ==
  ASSUME NEW s \in Seq(Octet), NEW n \in 1 .. Len(s)
  PROVE  /\ DropFront(s, n) \in Seq(Octet)
         /\ Len(DropFront(s, n)) = Len(s) - n
         /\ \A i \in 1 .. Len(s) - n : DropFront(s, n)[i] = s[n + i]
<1>1. Len(s) \in Nat /\ n + 1 \in Int
  OBVIOUS
<1>2. \A i \in n + 1 .. Len(s) : s[i] \in Octet
  BY <1>1, ElementOfSeq
<1>3. /\ DropFront(s, n) \in Seq(Octet)
      /\ Len(DropFront(s, n)) = IF n + 1 <= Len(s) THEN Len(s) - (n + 1) + 1 ELSE 0
      /\ \A i \in 1 .. Len(s) - (n + 1) + 1 : DropFront(s, n)[i] = s[(n + 1) + i - 1]
  BY <1>1, <1>2, SubSeqProperties DEF DropFront
<1>4. Len(s) - (n + 1) + 1 = Len(s) - n /\ \A i \in Int : (n + 1) + i - 1 = n + i
  BY <1>1
<1>5. Len(DropFront(s, n)) = Len(s) - n
  BY <1>1, <1>3
<1>6. ASSUME NEW i \in 1 .. Len(s) - n
      PROVE  DropFront(s, n)[i] = s[n + i]
  <2>1. i \in 1 .. Len(s) - (n + 1) + 1 /\ (n + 1) + i - 1 = n + i
    BY <1>1, <1>4
  <2>2. DropFront(s, n)[i] = s[(n + 1) + i - 1]
    BY <1>3, <2>1
  <2>3. QED
    BY <2>1, <2>2
<1>7. QED
  BY <1>3, <1>5, <1>6

\* A byte that is appended completes one frame, or none.
LEMMA WholeAppend ==
  ASSUME NEW s \in Seq(Octet), NEW b \in Octet
  PROVE  LET t == Append(s, b)
             n == Cardinality(Whole(s))
         IN  Cardinality(Whole(t)) = IF FrameAt(t, Len(t) - FrameLen + 1) /\ Len(t) >= FrameLen
                                     THEN n + 1 ELSE n
<1> DEFINE t == Append(s, b)
           e == Len(t) - FrameLen + 1
<1>1. /\ t \in Seq(Octet) /\ Len(t) = Len(s) + 1 /\ Len(s) \in Nat
      /\ \A i \in 1 .. Len(s) : t[i] = s[i]
  BY AppendProperties
<1>2. FrameLen \in Nat /\ FrameLen >= 2
  BY Sizes
<1> HIDE DEF t
<1>3. ASSUME NEW i \in 1 .. Len(s), i # e
      PROVE  FrameAt(t, i) <=> FrameAt(s, i)
  <2>1. CASE i + FrameLen - 1 > Len(t)
    BY <1>1, <1>2, <2>1 DEF FrameAt
  <2>2. CASE i + FrameLen - 1 <= Len(s)
    <3>1. \A k \in 0 .. FrameLen - 1 : t[i + k] = s[i + k]
      BY <1>1, <1>2, <2>2
    <3>2. t[i] = s[i]
      BY <1>1
    <3>3. i + FrameLen - 1 <= Len(t)
      BY <1>1, <1>2, <2>2
    <3>4. QED
      BY <2>2, <3>1, <3>2, <3>3 DEF FrameAt
  <2>3. QED
    BY <1>1, <1>2, <1>3, <2>1, <2>2
<1>4. ~FrameAt(s, e)
  BY <1>1, <1>2 DEF FrameAt
<1>5. ~FrameAt(t, Len(t))
  BY <1>1, <1>2 DEF FrameAt
<1>6. Whole(s) = {i \in 1 .. Len(s) : FrameAt(s, i)} /\ Whole(t) = {i \in 1 .. Len(t) : FrameAt(t, i)}
  BY <1>1, WholeIsFrames
<1>7. e \notin Whole(s)
  BY <1>4, <1>6
<1>8. CASE FrameAt(t, e) /\ Len(t) >= FrameLen
  <2>1. e \in 1 .. Len(s)
    BY <1>1, <1>2, <1>8
  <2>2. Whole(t) = Whole(s) \cup {e}
    <3>1. ASSUME NEW i PROVE i \in Whole(t) <=> i \in Whole(s) \cup {e}
      BY <1>1, <1>3, <1>5, <1>6, <1>8, <2>1
    <3>2. QED
      BY <3>1
  <2>3. QED
    BY <1>7, <1>8, <2>2, WholeIsFinite, FS_AddElement DEF t
<1>9. CASE ~(FrameAt(t, e) /\ Len(t) >= FrameLen)
  <2>1. e \notin Whole(t)
    BY <1>1, <1>2, <1>6, <1>9
  <2>2. Whole(t) = Whole(s)
    <3>1. ASSUME NEW i PROVE i \in Whole(t) <=> i \in Whole(s)
      BY <1>1, <1>3, <1>5, <1>6, <1>7, <2>1
    <3>2. QED
      BY <3>1
  <2>3. QED
    BY <1>9, <2>2 DEF t
<1>10. QED
  BY <1>8, <1>9

\* What is dropped from the front shifts the frames behind it.
LEMMA FramesShift ==
  ASSUME NEW s \in Seq(Octet), NEW n \in 1 .. Len(s), NEW i \in 1 .. Len(s) - n
  PROVE  FrameAt(DropFront(s, n), i) <=> FrameAt(s, n + i)
<1> DEFINE t == DropFront(s, n)
<1>1. Len(t) = Len(s) - n /\ \A j \in 1 .. Len(s) - n : t[j] = s[n + j]
  BY DropFrontIs
<1>2. Len(s) \in Nat /\ FrameLen \in Nat /\ FrameLen >= 2
  BY Sizes
<1> HIDE DEF t
<1>3. i + FrameLen - 1 <= Len(t) <=> (n + i) + FrameLen - 1 <= Len(s)
  BY <1>1, <1>2
<1>4. ASSUME i + FrameLen - 1 <= Len(t)
      PROVE  \A k \in 0 .. FrameLen - 1 : t[i + k] = s[(n + i) + k]
  <2> TAKE k \in 0 .. FrameLen - 1
  <2>1. i + k \in 1 .. Len(s) - n /\ n + (i + k) = (n + i) + k
    BY <1>1, <1>2, <1>4
  <2>2. QED
    BY <1>1, <2>1
<1>5. t[i] = s[n + i]
  BY <1>1
<1>6. FrameAt(t, i) <=> FrameAt(s, n + i)
  BY <1>3, <1>4, <1>5 DEF FrameAt
<1>7. QED
  BY <1>6 DEF t

\* Dropping a byte that opens no whole frame loses none.
LEMMA WholeDropOne ==
  ASSUME NEW s \in Seq(Octet), Len(s) >= 1, ~FrameAt(s, 1)
  PROVE  Cardinality(Whole(DropFront(s, 1))) = Cardinality(Whole(s))
<1> DEFINE t == DropFront(s, 1)
<1>1. Len(s) \in Nat /\ 1 \in 1 .. Len(s)
  OBVIOUS
<1>2. t \in Seq(Octet) /\ Len(t) = Len(s) - 1
  BY <1>1, DropFrontIs
<1>3. \A i \in 1 .. Len(s) - 1 : FrameAt(t, i) <=> FrameAt(s, 1 + i)
  BY <1>1, FramesShift
<1> HIDE DEF t
<1>4. ASSUME NEW x \in Int
      PROVE  x \in Whole(s) <=> x - 1 \in Whole(t)
  <2>1. x \in Whole(s) <=> x \in 1 .. Len(s) /\ FrameAt(s, x)
    BY WholeIsFrames
  <2>2. x - 1 \in Whole(t) <=> x - 1 \in 1 .. Len(t) /\ FrameAt(t, x - 1)
    BY <1>2, WholeIsFrames
  <2>3. x - 1 \in 1 .. Len(t) => (FrameAt(t, x - 1) <=> FrameAt(s, x))
    BY <1>1, <1>2, <1>3, 1 + (x - 1) = x
  <2>4. x - 1 \in 1 .. Len(t) <=> x \in 1 .. Len(s) /\ x # 1
    BY <1>1, <1>2
  <2>5. QED
    BY <2>1, <2>2, <2>3, <2>4
<1>5. Whole(s) \in SUBSET Int /\ Whole(t) \in SUBSET Int /\ IsFiniteSet(Whole(s)) /\ 1 \in Int
  BY <1>2, WholeIsFinite
<1>6. Cardinality(Whole(t)) = Cardinality(Whole(s))
  BY <1>4, <1>5, Shifted
<1>7. QED
  BY <1>6 DEF t

\* No frame opens inside a frame, so a frame that is taken off counts for one.
LEMMA WholeDropFrame ==
  ASSUME NEW s \in Seq(Octet), FrameAt(s, 1)
  PROVE  Cardinality(Whole(s)) = Cardinality(Whole(DropFront(s, FrameLen))) + 1
<1> DEFINE t == DropFront(s, FrameLen)
           R == Whole(s) \ {1}
<1>1. Len(s) \in Nat /\ FrameLen \in Nat /\ FrameLen >= 2 /\ Len(s) >= FrameLen
  BY Sizes DEF FrameAt
<1>2. t \in Seq(Octet) /\ Len(t) = Len(s) - FrameLen
  BY <1>1, DropFrontIs
<1>3. \A i \in 1 .. Len(s) - FrameLen : FrameAt(t, i) <=> FrameAt(s, FrameLen + i)
  BY <1>1, FramesShift
<1> HIDE DEF t
<1>4. ASSUME NEW x \in 2 .. FrameLen PROVE ~FrameAt(s, x)
  <2>1. x - 1 \in 1 .. FrameLen - 1 /\ x - 1 \in 0 .. FrameLen - 1 /\ 1 + (x - 1) = x
    BY <1>1
  <2>2. s[x] = s[1] + (x - 1) /\ Opens(s[1])
    BY <2>1 DEF FrameAt
  <2>3. ~Opens(s[x])
    BY <2>1, <2>2, OpensAlone
  <2>4. QED
    BY <2>3 DEF FrameAt
<1>5. ASSUME NEW x \in Int
      PROVE  x \in R <=> x - FrameLen \in Whole(t)
  <2>1. x \in R <=> x \in 1 .. Len(s) /\ FrameAt(s, x) /\ x # 1
    BY WholeIsFrames
  <2>2. x - FrameLen \in Whole(t) <=> x - FrameLen \in 1 .. Len(t) /\ FrameAt(t, x - FrameLen)
    BY <1>2, WholeIsFrames
  <2>3. x - FrameLen \in 1 .. Len(t) => (FrameAt(t, x - FrameLen) <=> FrameAt(s, x))
    BY <1>1, <1>2, <1>3, FrameLen + (x - FrameLen) = x
  <2>4. x - FrameLen \in 1 .. Len(t) <=> x \in 1 .. Len(s) /\ x > FrameLen
    BY <1>1, <1>2
  <2>5. x \in R => x > FrameLen
    BY <1>1, <1>4, <2>1
  <2>6. QED
    BY <1>1, <2>1, <2>2, <2>3, <2>4, <2>5
<1>6. 1 \in Whole(s)
  BY <1>1, WholeIsFrames
<1>7. /\ IsFiniteSet(R) /\ R \subseteq Int
      /\ Cardinality(R) = Cardinality(Whole(s)) - 1
  BY <1>6, WholeIsFinite, FS_RemoveElement
<1>8. Whole(t) \in SUBSET Int /\ FrameLen \in Int /\ Cardinality(Whole(s)) \in Nat
  BY <1>1, <1>2, WholeIsFinite
<1> HIDE DEF R
<1>9. Cardinality(Whole(t)) = Cardinality(R)
  BY <1>5, <1>7, <1>8, Shifted
<1>10. QED
  BY <1>7, <1>8, <1>9 DEF t

\* A byte that moves from one queue to the next leaves their concatenation alone.
LEMMA HeadMoves ==
  ASSUME NEW a \in Seq(Octet), NEW m \in Seq(Octet), m # <<>>
  PROVE  /\ Append(a, Head(m)) \in Seq(Octet)
         /\ Len(Append(a, Head(m))) = Len(a) + 1
         /\ Append(a, Head(m)) \o Tail(m) = a \o m
<1> DEFINE h == Append(a, Head(m))
<1>1. /\ Head(m) \in Octet /\ Tail(m) \in Seq(Octet) /\ Len(Tail(m)) = Len(m) - 1
      /\ \A i \in 1 .. Len(Tail(m)) : Tail(m)[i] = m[i + 1]
  BY HeadTailProperties
<1>2. Head(m) = m[1] /\ Len(m) \in Nat /\ Len(m) >= 1 /\ Len(a) \in Nat
  BY EmptySeq
<1>3. /\ h \in Seq(Octet) /\ Len(h) = Len(a) + 1
      /\ \A i \in 1 .. Len(a) : h[i] = a[i]
      /\ h[Len(a) + 1] = m[1]
  BY <1>1, <1>2, AppendProperties
<1> HIDE DEF h
<1>4. /\ h \o Tail(m) \in Seq(Octet) /\ Len(h \o Tail(m)) = Len(a) + Len(m)
      /\ \A i \in 1 .. Len(a) + Len(m) :
           (h \o Tail(m))[i] = IF i <= Len(a) + 1 THEN h[i] ELSE Tail(m)[i - (Len(a) + 1)]
  <2>1. Len(h) + Len(Tail(m)) = Len(a) + Len(m)
    BY <1>1, <1>2, <1>3
  <2>2. /\ h \o Tail(m) \in Seq(Octet) /\ Len(h \o Tail(m)) = Len(h) + Len(Tail(m))
        /\ \A i \in 1 .. Len(h) + Len(Tail(m)) :
             (h \o Tail(m))[i] = IF i <= Len(h) THEN h[i] ELSE Tail(m)[i - Len(h)]
    BY <1>1, <1>3, ConcatProperties
  <2>3. QED
    BY <1>3, <2>1, <2>2
<1>5. /\ a \o m \in Seq(Octet) /\ Len(a \o m) = Len(a) + Len(m)
      /\ \A i \in 1 .. Len(a) + Len(m) :
           (a \o m)[i] = IF i <= Len(a) THEN a[i] ELSE m[i - Len(a)]
  BY ConcatProperties
<1>6. ASSUME NEW i \in 1 .. Len(a) + Len(m)
      PROVE  (h \o Tail(m))[i] = (a \o m)[i]
  <2>1. CASE i <= Len(a)
    BY <1>2, <1>3, <1>4, <1>5, <2>1
  <2>2. CASE i = Len(a) + 1
    BY <1>2, <1>3, <1>4, <1>5, <2>2
  <2>3. CASE i > Len(a) + 1
    <3>1. i - (Len(a) + 1) \in 1 .. Len(Tail(m)) /\ i - (Len(a) + 1) + 1 = i - Len(a)
      BY <1>1, <1>2, <2>3
    <3>2. Tail(m)[i - (Len(a) + 1)] = m[i - Len(a)]
      BY <1>1, <3>1
    <3>3. QED
      BY <1>2, <1>4, <1>5, <2>3, <3>2
  <2>4. i <= Len(a) \/ i = Len(a) + 1 \/ i > Len(a) + 1
    BY <1>2
  <2>5. QED
    BY <2>1, <2>2, <2>3, <2>4
<1>7. h \o Tail(m) = a \o m
  BY <1>4, <1>5, <1>6, SeqEqual
<1>8. QED
  BY <1>3, <1>7 DEF h

LEMMA DropsOfConcat ==
  ASSUME NEW a \in Seq(Octet), NEW t \in Seq(Octet), NEW n \in 1 .. Len(a)
  PROVE  DropFront(a, n) \o t = DropFront(a \o t, n)
<1>1. Len(a) \in Nat /\ Len(t) \in Nat
  OBVIOUS
<1>2. /\ a \o t \in Seq(Octet) /\ Len(a \o t) = Len(a) + Len(t)
      /\ \A i \in 1 .. Len(a) + Len(t) : (a \o t)[i] = IF i <= Len(a) THEN a[i] ELSE t[i - Len(a)]
  BY ConcatProperties
<1>3. n \in 1 .. Len(a \o t)
  BY <1>1, <1>2
<1>4. /\ DropFront(a \o t, n) \in Seq(Octet)
      /\ Len(DropFront(a \o t, n)) = Len(a) + Len(t) - n
      /\ \A i \in 1 .. Len(a) + Len(t) - n : DropFront(a \o t, n)[i] = (a \o t)[n + i]
  <2> DEFINE w == a \o t
  <2>1. w \in Seq(Octet) /\ n \in 1 .. Len(w) /\ Len(w) = Len(a) + Len(t)
    BY <1>2, <1>3
  <2> HIDE DEF w
  <2>2. /\ DropFront(w, n) \in Seq(Octet) /\ Len(DropFront(w, n)) = Len(w) - n
        /\ \A i \in 1 .. Len(w) - n : DropFront(w, n)[i] = w[n + i]
    BY <2>1, DropFrontIs
  <2>3. QED
    BY <2>1, <2>2 DEF w
<1> DEFINE d == DropFront(a, n)
<1>5. d \in Seq(Octet) /\ Len(d) = Len(a) - n /\ \A i \in 1 .. Len(a) - n : d[i] = a[n + i]
  BY DropFrontIs
<1> HIDE DEF d
<1>6. /\ d \o t \in Seq(Octet) /\ Len(d \o t) = Len(a) + Len(t) - n
      /\ \A i \in 1 .. Len(a) + Len(t) - n :
           (d \o t)[i] = IF i <= Len(a) - n THEN d[i] ELSE t[i - (Len(a) - n)]
  <2>1. Len(d) + Len(t) = Len(a) + Len(t) - n
    BY <1>1, <1>5
  <2>2. /\ d \o t \in Seq(Octet) /\ Len(d \o t) = Len(d) + Len(t)
        /\ \A i \in 1 .. Len(d) + Len(t) : (d \o t)[i] = IF i <= Len(d) THEN d[i] ELSE t[i - Len(d)]
    BY <1>5, ConcatProperties
  <2>3. QED
    BY <1>5, <2>1, <2>2
<1>7. ASSUME NEW i \in 1 .. Len(a) + Len(t) - n
      PROVE  (d \o t)[i] = DropFront(a \o t, n)[i]
  <2>1. n + i \in 1 .. Len(a) + Len(t) /\ DropFront(a \o t, n)[i] = (a \o t)[n + i]
    BY <1>1, <1>4
  <2>2. CASE i <= Len(a) - n
    BY <1>1, <1>2, <1>5, <1>6, <2>1, <2>2
  <2>3. CASE i > Len(a) - n
    <3>1. i - (Len(a) - n) = (n + i) - Len(a) /\ ~(n + i <= Len(a)) /\ ~(i <= Len(a) - n)
      BY <1>1, <2>3
    <3>2. QED
      BY <1>2, <1>6, <2>1, <3>1
  <2>4. i <= Len(a) - n \/ i > Len(a) - n
    BY <1>1
  <2>5. QED
    BY <2>2, <2>3, <2>4
<1>8. d \o t = DropFront(a \o t, n)
  BY <1>4, <1>6, <1>7, SeqEqual
<1>9. QED
  BY <1>8 DEF d

LEMMA AppendOfConcat ==
  ASSUME NEW a \in Seq(Octet), NEW t \in Seq(Octet), NEW b \in Octet
  PROVE  a \o Append(t, b) = Append(a \o t, b)
<1>1. a \o t \in Seq(Octet) /\ <<b>> \in Seq(Octet)
  BY ConcatProperties
<1>2. Append(t, b) = t \o <<b>> /\ Append(a \o t, b) = (a \o t) \o <<b>>
  BY <1>1, AppendIsConcat
<1>3. QED
  BY <1>1, <1>2, ConcatAssociative

-----------------------------------------------------------------------------
(* The inductive invariant.                                                *)

\* The bytes on their way from the interrupt to the server.
Stream == rx \o bytes \o ring

\* The last r bytes of s begin a frame.
Prefix(s, r) ==
    /\ r <= Len(s)
    /\ Opens(s[Len(s) - r + 1])
    /\ \A k \in 0 .. r - 1 : s[Len(s) - r + 1 + k] = s[Len(s) - r + 1] + k

Ordered(s) ==
    \A i, j \in 1 .. Len(s) : i < j /\ s[i] # Noise /\ s[j] # Noise => s[i] < s[j]
Between(s, low, high) ==
    \A i \in 1 .. Len(s) : s[i] # Noise => low < s[i] /\ s[i] <= high
Follows(s, last, r) ==
    \A k \in 1 .. FrameLen - 1 : Prefix(s, k) /\ s[Len(s)] = last <=> r = k

\* What ServiceMain has drained is gone before it goes on.
Drained == pc # "parse" => bytes = <<>> /\ taken = {}

\* Where the line is claimed there is an answer.
LineInv ==
    /\ LineHandedOver
    /\ pc \in {"abort", "start"} => response # None

\* On a line without errors the link believes what the driver does, and takes note
\* of the end of a transmission before it begins the next.
QuietInv ==
    noise = 0 =>
        /\ AnswerWhole
        /\ events = {} \/ taken = {}
        /\ tx # None => events = {} /\ taken = {}
        /\ tx # None \/ events # {} \/ taken # {} => active \/ pc = "started"
        /\ pc \in {"abort", "start"} => de /\ ~active
        /\ pc # "refused"

\* Whatever waits is newer than whatever was executed, and the queue is in order.
OrderInv ==
    /\ stop # None => executed < stop /\ stop <= latest /\ kind[stop] = "stop"
    /\ \A i \in 1 .. Len(queue) :
         /\ executed < queue[i] /\ barrier < queue[i] /\ queue[i] <= latest
         /\ kind[queue[i]] = "normal"
         /\ \A j \in 1 .. Len(queue) : i < j => queue[i] < queue[j]
    /\ executed <= latest /\ barrier <= latest
    /\ response <= executed /\ priority <= executed /\ answered <= executed
    /\ response # None => answered <= response
    /\ priority # None => response # None /\ response < priority

\* The stream keeps the order of the line and is newer than what was extracted; run
\* is the length of the frame that is arriving, and a frame is counted when it is.
StreamInv ==
    /\ Ordered(Stream)
    /\ latest * FrameLen <= sent
    /\ Between(Stream, latest * FrameLen, sent)
    /\ Follows(Stream, sent, run)
    /\ intact * FrameLen + run <= sent

\* The steps of the interrupt that receives: a byte of the master is lost, a spoilt
\* or imagined one reaches the ring, or the master's byte does.
LosesByte ==
    /\ sent < MaxBytes /\ sent' = sent + 1
    /\ run' = 0
    /\ UNCHANGED <<ring, intact>>
AddsNoise ==
    /\ sent' = sent \/ (sent < MaxBytes /\ sent' = sent + 1)
    /\ HasRoom /\ ring' = Append(ring, Noise)
    /\ run' = 0
    /\ UNCHANGED intact
AddsByte ==
    LET length == IF Opens(sent + 1) THEN 1 ELSE IF run = 0 THEN 0 ELSE run + 1 IN
    /\ sent < MaxBytes /\ sent' = sent + 1
    /\ HasRoom /\ ring' = Append(ring, sent + 1)
    /\ run' = IF length = FrameLen THEN 0 ELSE length
    /\ intact' = IF length = FrameLen THEN intact + 1 ELSE intact

LEMMA NoisePushed ==
  ASSUME TypeOK, PushFromIsr(Noise)
  PROVE  \/ ~HasRoom /\ run' = 0 /\ UNCHANGED <<ring, intact>>
         \/ HasRoom /\ ring' = Append(ring, Noise) /\ run' = 0 /\ UNCHANGED intact
<1>1. 0 # FrameLen /\ intact + 0 = intact
  BY Sizes DEF TypeOK
<1>2. QED
  BY <1>1, NoiseOpensNothing DEF PushFromIsr

LEMMA BytePushed ==
  ASSUME TypeOK, sent < MaxBytes, sent' = sent + 1, PushFromIsr(sent + 1)
  PROVE  LosesByte \/ AddsByte
<1>1. sent + 1 # Noise /\ intact + 0 = intact /\ 0 # FrameLen
  BY Sizes DEF TypeOK, Noise
<1>2. QED
  BY <1>1 DEF PushFromIsr, LosesByte, AddsByte

LEMMA Receives ==
  ASSUME TypeOK, Receive \/ LineError
  PROVE  /\ UNCHANGED <<serverVars, tx, armed, mainVars, answered>>
         /\ \/ UNCHANGED <<sent, ring, run, intact>>
            \/ LosesByte \/ AddsNoise \/ AddsByte
<1>1. CASE Receive
  <2>1. LosesByte \/ AddsByte
    BY <1>1, BytePushed DEF Receive, LosesByte, MaxBytes
  <2>2. QED
    BY <1>1, <2>1 DEF Receive
<1>2. CASE LineError
  <2>1. CASE UNCHANGED <<sent, ring, run, intact>>
    BY <1>2, <2>1 DEF LineError
  <2>2. CASE HasRoom /\ PushFromIsr(Noise) /\ UNCHANGED sent
    BY <1>2, <2>2, NoisePushed DEF LineError, AddsNoise
  <2>3. CASE sent < MaxBytes /\ sent' = sent + 1 /\ PushFromIsr(Noise)
    BY <1>2, <2>3, NoisePushed DEF LineError, AddsNoise, LosesByte
  <2>4. CASE sent < MaxBytes /\ sent' = sent + 1 /\ run' = 0 /\ UNCHANGED <<ring, intact>>
    BY <1>2, <2>4 DEF LineError, LosesByte
  <2>5. QED
    BY <1>2, <2>1, <2>2, <2>3, <2>4 DEF LineError, MaxBytes
<1>3. QED
  BY <1>1, <1>2

-----------------------------------------------------------------------------
(* Types.                                                                  *)

LEMMA RingTypes ==
  ASSUME NEW q \in Seq(Octet), NEW b \in Octet
  PROVE  Append(q, b) \in Seq(Octet) /\ Len(Append(q, b)) = Len(q) + 1 /\ Len(q) \in Nat
  BY AppendProperties

\* What arrived whole has been sent.
LEMMA CountGrows ==
  ASSUME TypeOK, intact * FrameLen + run <= sent,
         UNCHANGED <<sent, ring, run, intact>> \/ LosesByte \/ AddsNoise \/ AddsByte
  PROVE  /\ intact' * FrameLen + run' <= sent'
         /\ intact' \in 0 .. MaxFrames /\ run' \in 0 .. FrameLen - 1 /\ sent' \in 0 .. MaxBytes
<1>1. /\ intact \in Nat /\ run \in 0 .. FrameLen - 1 /\ sent \in 0 .. MaxBytes
      /\ FrameLen \in Nat /\ FrameLen >= 2 /\ MaxBytes \in Nat /\ MaxFrames \in Nat
  BY Sizes DEF TypeOK
<1>2. intact * FrameLen \in Int /\ (intact + 1) * FrameLen = intact * FrameLen + FrameLen
  BY <1>1, Products
<1>3. /\ intact' * FrameLen + run' <= sent'
      /\ intact' \in Nat /\ run' \in 0 .. FrameLen - 1 /\ sent' \in 0 .. MaxBytes
  <2>1. CASE UNCHANGED <<sent, ring, run, intact>>
    BY <1>1, <2>1
  <2>2. CASE LosesByte
    BY <1>1, <1>2, <2>2 DEF LosesByte
  <2>3. CASE AddsNoise
    BY <1>1, <1>2, <2>3 DEF AddsNoise
  <2>4. CASE AddsByte
    <3>1. sent' = sent + 1 /\ sent + 1 \in 0 .. MaxBytes
      BY <1>1, <2>4 DEF AddsByte
    <3>2. CASE Opens(sent + 1)
      BY <1>1, <1>2, <2>4, <3>1, <3>2 DEF AddsByte
    <3>3. CASE ~Opens(sent + 1) /\ run = 0
      BY <1>1, <1>2, <2>4, <3>1, <3>3 DEF AddsByte
    <3>4. CASE ~Opens(sent + 1) /\ run # 0 /\ run + 1 = FrameLen
      <4>1. run' = 0 /\ intact' = intact + 1
        BY <2>4, <3>4 DEF AddsByte
      <4>2. QED
        BY <1>1, <1>2, <3>1, <3>4, <4>1
    <3>5. CASE ~Opens(sent + 1) /\ run # 0 /\ run + 1 # FrameLen
      <4>1. run' = run + 1 /\ intact' = intact
        BY <2>4, <3>5 DEF AddsByte
      <4>2. QED
        BY <1>1, <1>2, <3>1, <3>5, <4>1
    <3>6. QED
      BY <3>2, <3>3, <3>4, <3>5
  <2>5. QED
    BY <2>1, <2>2, <2>3, <2>4
<1>4. intact' <= MaxFrames
  <2>1. intact' * FrameLen \in Int /\ MaxFrames * FrameLen \in Int
    BY <1>1, <1>3, Products
  <2>2. MaxFrames < intact' => MaxFrames * FrameLen + FrameLen <= intact' * FrameLen
    <3>1. MaxFrames \in Int /\ intact' \in Int
      BY <1>1, <1>3
    <3>2. QED
      BY <3>1, Products
  <2>3. intact' * FrameLen <= MaxFrames * FrameLen
    <3>1. run' \in Nat /\ sent' <= MaxFrames * FrameLen /\ sent' \in Nat
      BY <1>1, <1>3 DEF MaxBytes
    <3>2. intact' * FrameLen + run' <= sent'
      BY <1>3
    <3>3. QED
      BY <2>1, <3>1, <3>2
  <2>4. ~(MaxFrames < intact')
    BY <1>1, <2>1, <2>2, <2>3
  <2>5. intact' \in Nat
    BY <1>3
  <2>6. QED
    BY <1>1, <2>4, <2>5
<1>5. intact' \in Nat /\ MaxFrames \in Nat
  BY <1>1, <1>3
<1>6. intact' \in 0 .. MaxFrames
  BY <1>4, <1>5
<1>7. QED
  BY <1>3, <1>6

LEMMA LineTypes ==
  ASSUME TypeOK, intact * FrameLen + run <= sent, Receive \/ LineError
  PROVE  TypeOK'
<1>1. /\ UNCHANGED <<serverVars, tx, armed, mainVars, answered>>
      /\ UNCHANGED <<sent, ring, run, intact>> \/ LosesByte \/ AddsNoise \/ AddsByte
  BY Receives
<1>2. intact' \in 0 .. MaxFrames /\ run' \in 0 .. FrameLen - 1 /\ sent' \in 0 .. MaxBytes
  BY <1>1, CountGrows
<1>3. ring \in Seq(Octet) /\ Len(ring) \in Nat /\ Len(ring) < RingCapacity
  BY DEF TypeOK, Octet
<1>4. ring' \in Seq(Octet) /\ Len(ring') < RingCapacity
  <2>1. Noise \in Octet /\ (sent' \in 1 .. MaxBytes => sent' \in Octet)
    BY DEF Octet, Bytes, MaxBytes
  <2>2. CASE UNCHANGED ring
    BY <1>3, <2>2
  <2>3. CASE AddsNoise
    BY <1>3, <2>1, <2>3, RingTypes, Sizes DEF AddsNoise, HasRoom
  <2>4. CASE AddsByte
    <3>1. sent + 1 \in Octet
      BY <2>1, <2>4, Sizes DEF AddsByte, TypeOK
    <3>2. QED
      BY <1>3, <2>4, <3>1, RingTypes, Sizes DEF AddsByte, HasRoom
  <2>5. QED
    BY <1>1, <2>2, <2>3, <2>4 DEF LosesByte
<1>5. /\ noise' \in 0 .. MaxNoise
      /\ events' \subseteq Events
      /\ {de', armed', active', early'} \subseteq BOOLEAN
  <2>1. CASE Receive
    BY <1>1, <2>1 DEF Receive, TypeOK, mainVars
  <2>2. CASE LineError
    <3>1. noise' = noise + 1 /\ noise < MaxNoise /\ noise \in 0 .. MaxNoise /\ MaxNoise \in Nat
      BY <2>2, Sizes DEF LineError, TypeOK
    <3>2. de' = FALSE /\ events' = events \cup {"ERROR"}
      BY <2>2 DEF LineError
    <3>3. UNCHANGED <<armed, active, early>>
      BY <1>1 DEF mainVars
    <3>4. {armed, active, early} \subseteq BOOLEAN /\ events \subseteq Events
      BY DEF TypeOK
    <3>5. noise' \in 0 .. MaxNoise
      BY <3>1
    <3>6. QED
      BY <3>2, <3>3, <3>4, <3>5 DEF Events
  <2>3. QED
    BY <2>1, <2>2
<1>6. QED
  BY <1>1, <1>2, <1>4, <1>5 DEF TypeOK, serverVars, mainVars, Octet

LEMMA CountersType ==
  ASSUME NEW c \in [Counters -> Nat], NEW x \in Counters, NEW n \in Nat
  PROVE  [c EXCEPT ![x] = @ + n] \in [Counters -> Nat]
<1>1. c[x] + n \in Nat
  OBVIOUS
<1>2. QED
  BY <1>1

\* What an extraction does to the server, by the frame f it finds.
LEMMA ExtractTypes ==
  ASSUME TypeOK, NEW buffer \in Seq(Octet), Len(buffer) <= FrameLen, Extract(buffer)
  PROVE  /\ rx' \in Seq(Octet) /\ Len(rx') < FrameLen
         /\ {stop', latest'} \subseteq Answerable
         /\ queue' \in Seq(Frames) /\ Len(queue') <= QueueCapacity
         /\ count' \in [Counters -> Nat]
<1>1. /\ Len(buffer) \in Nat /\ FrameLen \in Nat /\ FrameLen >= 2 /\ QueueCapacity \in Nat
      /\ queue \in Seq(Frames) /\ Len(queue) \in Nat /\ Len(queue) <= QueueCapacity
      /\ count \in [Counters -> Nat]
  BY Sizes DEF TypeOK
<1>2. CASE ~CrcIsValid(buffer)
  <2>1. UNCHANGED <<stop, queue, count, latest>>
    BY <1>2 DEF Extract
  <2>2. CASE Len(buffer) < FrameLen
    BY <1>2, <2>1, <2>2 DEF Extract, TypeOK
  <2>3. CASE Len(buffer) = FrameLen
    <3>1. rx' = DropFront(buffer, 1) /\ 1 \in 1 .. Len(buffer)
      BY <1>1, <1>2, <2>3 DEF Extract
    <3>2. rx' \in Seq(Octet) /\ Len(rx') = FrameLen - 1
      BY <2>3, <3>1, DropFrontIs
    <3>3. QED
      BY <1>1, <2>1, <3>2 DEF TypeOK
  <2>4. QED
    BY <1>1, <2>2, <2>3
<1>3. CASE CrcIsValid(buffer)
  <2> DEFINE f == FrameOf(buffer[1])
  <2>1. f \in Frames
    BY <1>3, OpensHasFrame DEF CrcIsValid
  <2>2. rx' = DropFront(buffer, FrameLen) /\ Len(buffer) = FrameLen /\ FrameLen \in 1 .. Len(buffer)
    BY <1>1, <1>3 DEF Extract, CrcIsValid
  <2>3. rx' \in Seq(Octet) /\ Len(rx') = 0
    BY <1>1, <2>2, DropFrontIs
  <2>4. Append(queue, f) \in Seq(Frames) /\ Len(Append(queue, f)) = Len(queue) + 1
    BY <1>1, <2>1, AppendProperties
  <2>5. SkipForeign(buffer) \/ LatchStop(buffer) \/ Enqueue(buffer)
    BY <1>3 DEF Extract
  <2>6. count' \in [Counters -> Nat]
    <3>1. "wrong" \in Counters /\ "valid" \in Counters /\ "duplicate" \in Counters /\ "full" \in Counters
      BY DEF Counters
    <3>2. \A c \in Counters : count[c] \in Nat
      BY <1>1
    <3>3. CASE SkipForeign(buffer)
      BY <1>1, <3>1, <3>2, <3>3 DEF SkipForeign
    <3>4. CASE LatchStop(buffer)
      <4>1. (IF stop = None THEN 0 ELSE 1) \in {0, 1}
        OBVIOUS
      <4>2. PICK n \in {0, 1} : count' = [count EXCEPT !["valid"] = @ + 1, !["duplicate"] = @ + n]
        BY <3>4, <4>1 DEF LatchStop
      <4>3. /\ [count EXCEPT !["valid"] = @ + 1] \in [Counters -> Nat]
            /\ count' = [[count EXCEPT !["valid"] = @ + 1] EXCEPT !["duplicate"] = @ + n]
        BY <1>1, <3>1, <4>2, CountersType
      <4>4. QED
        BY <3>1, <4>3, CountersType
    <3>5. CASE Enqueue(buffer)
      <4>1. (IF Len(queue) < QueueCapacity THEN 0 ELSE 1) \in {0, 1}
        OBVIOUS
      <4>2. PICK n \in {0, 1} : count' = [count EXCEPT !["valid"] = @ + 1, !["full"] = @ + n]
        BY <3>5, <4>1 DEF Enqueue
      <4>3. /\ [count EXCEPT !["valid"] = @ + 1] \in [Counters -> Nat]
            /\ count' = [[count EXCEPT !["valid"] = @ + 1] EXCEPT !["full"] = @ + n]
        BY <1>1, <3>1, <4>2, CountersType
      <4>4. QED
        BY <3>1, <4>3, CountersType
    <3>6. QED
      BY <2>5, <3>3, <3>4, <3>5
  <2> HIDE DEF f
  <2>7. f = FrameOf(buffer[1])
    BY DEF f
  <2>8. {stop', latest'} \subseteq Answerable
    BY <2>1, <2>5, <2>7 DEF SkipForeign, LatchStop, Enqueue, TypeOK, Answerable
  <2>9. queue' \in Seq(Frames) /\ Len(queue') <= QueueCapacity
    <3>1. queue' = queue \/ (queue' = Append(queue, f) /\ Len(queue) < QueueCapacity)
      BY <2>5, <2>7 DEF SkipForeign, LatchStop, Enqueue
    <3>2. CASE queue' = queue
      BY <1>1, <3>2
    <3>3. CASE queue' = Append(queue, f) /\ Len(queue) < QueueCapacity
      <4>1. Len(queue) + 1 <= QueueCapacity
        BY <1>1, <3>3
      <4>2. QED
        BY <2>4, <3>3, <4>1
    <3>4. QED
      BY <3>1, <3>2, <3>3
  <2>10. QED
    BY <1>1, <2>3, <2>6, <2>8, <2>9
<1>4. QED
  BY <1>2, <1>3

\* The server's part of TypeOK.
ServerTypes ==
    /\ kind \in [Frames -> Kinds]
    /\ rx \in Seq(Octet) /\ Len(rx) < FrameLen
    /\ {stop, response, priority, latest, barrier, executed} \subseteq Answerable
    /\ queue \in Seq(Frames) /\ Len(queue) <= QueueCapacity
    /\ count \in [Counters -> Nat]
    /\ done \in [stop : Nat, normal : Nat]

LEMMA TakeStopTypes == ASSUME ServerTypes, TakeStop PROVE ServerTypes'
<1>1. {stop', response', priority', latest', barrier', executed'} \subseteq Answerable
  BY DEF ServerTypes, TakeStop, QueueStopResponse, Answerable
<1>2. queue' \in Seq(Frames) /\ Len(queue') <= QueueCapacity
  BY Sizes, EmptySeq DEF TakeStop
<1>3. count' \in [Counters -> Nat]
  <2>1. PICK n \in {0, 1} : count' = [count EXCEPT !["discarded"] = @ + Len(queue),
                                                   !["unanswered"] = @ + n]
    <3>1. (IF priority = None THEN 0 ELSE 1) \in {0, 1}
      OBVIOUS
    <3>2. QED
      BY <3>1 DEF TakeStop
  <2>2. "discarded" \in Counters /\ "unanswered" \in Counters /\ Len(queue) \in Nat
    BY DEF Counters, ServerTypes
  <2>3. /\ [count EXCEPT !["discarded"] = @ + Len(queue)] \in [Counters -> Nat]
        /\ count' = [[count EXCEPT !["discarded"] = @ + Len(queue)] EXCEPT !["unanswered"] = @ + n]
    BY <2>1, <2>2, CountersType DEF ServerTypes
  <2>4. QED
    BY <2>2, <2>3, CountersType
<1>4. done' \in [stop : Nat, normal : Nat]
  BY DEF TakeStop, ServerTypes
<1>5. QED
  BY <1>1, <1>2, <1>3, <1>4 DEF ServerTypes, TakeStop

LEMMA ProcessPendingTypes == ASSUME ServerTypes, ProcessPending PROVE ServerTypes'
<1>1. queue # <<>> /\ queue \in Seq(Frames) /\ Len(queue) \in Nat /\ Len(queue) <= QueueCapacity
  BY DEF ProcessPending, CanProcess, ServerTypes
<1>2. Head(queue) \in Frames /\ Tail(queue) \in Seq(Frames) /\ Len(Tail(queue)) = Len(queue) - 1
  BY <1>1, HeadTailProperties
<1>3. queue' \in Seq(Frames) /\ Len(queue') <= QueueCapacity
  BY <1>1, <1>2, Sizes DEF ProcessPending
<1>4. {stop', response', priority', latest', barrier', executed'} \subseteq Answerable
  BY <1>2 DEF ProcessPending, Respond, ServerTypes, Answerable
<1>5. done' \in [stop : Nat, normal : Nat]
  BY DEF ProcessPending, ServerTypes
<1>6. QED
  BY <1>3, <1>4, <1>5 DEF ProcessPending, ServerTypes

LEMMA CompleteResponseTypes == ASSUME ServerTypes, CompleteResponse PROVE ServerTypes'
  BY DEF ServerTypes, CompleteResponse, Answerable, None

\* One byte of ServiceMain: what the server's buffer and the stream become.
LEMMA ParseBuffer ==
  ASSUME TypeOK, Parse
  PROVE  LET buffer == Append(rx, Head(bytes)) IN
         /\ buffer \in Seq(Octet) /\ Len(buffer) <= FrameLen
         /\ Tail(bytes) \in Seq(Octet) /\ Len(Tail(bytes)) < RingCapacity
         /\ buffer \o Tail(bytes) = rx \o bytes
         /\ Extract(buffer)
<1>1. rx \in Seq(Octet) /\ bytes \in Seq(Octet) /\ bytes # <<>>
  BY DEF TypeOK, Octet, Parse
<1>2. Len(rx) \in Nat /\ Len(rx) < FrameLen /\ Len(bytes) \in Nat /\ Len(bytes) < RingCapacity
      /\ Len(Tail(bytes)) = Len(bytes) - 1 /\ Tail(bytes) \in Seq(Octet)
  BY <1>1, HeadTailProperties DEF TypeOK
<1>3. QED
  BY <1>1, <1>2, HeadMoves, Sizes DEF Parse, ProcessByte

LEMMA ServerOfType == TypeOK => ServerTypes
  BY DEF TypeOK, ServerTypes, Octet

LEMMA MainTypes == ASSUME TypeOK, Main PROVE TypeOK'
<1>1. CASE Drain
  <2>1. <<>> \in Seq(Octet) /\ Len(<<>>) = 0
    BY EmptySeq
  <2>2. QED
    BY <1>1, <2>1, Sizes DEF Drain, TypeOK, serverVars, lineVars, Octet
<1>2. CASE Parse
  <2> DEFINE buffer == Append(rx, Head(bytes))
  <2>1. /\ buffer \in Seq(Octet) /\ Len(buffer) <= FrameLen /\ Extract(buffer)
        /\ Tail(bytes) \in Seq(Octet) /\ Len(Tail(bytes)) < RingCapacity
    BY <1>2, ParseBuffer
  <2> HIDE DEF buffer
  <2>2. /\ rx' \in Seq(Octet) /\ Len(rx') < FrameLen
        /\ {stop', latest'} \subseteq Answerable
        /\ queue' \in Seq(Frames) /\ Len(queue') <= QueueCapacity
        /\ count' \in [Counters -> Nat]
    BY <2>1, ExtractTypes
  <2>3. QED
    BY <1>2, <2>1, <2>2 DEF Parse, ProcessByte, TypeOK, irqVars, lineVars, Octet
<1>3. CASE LinkEvent
  <2>1. ServerTypes'
    <3>1. CompleteResponse \/ UNCHANGED serverVars
      BY <1>3 DEF LinkEvent
    <3>2. QED
      BY <3>1, ServerOfType, CompleteResponseTypes DEF ServerTypes, serverVars
  <2>2. {de', active'} \subseteq BOOLEAN
    BY <1>3 DEF LinkEvent, TypeOK
  <2>3. QED
    BY <1>3, <2>1, <2>2 DEF LinkEvent, TypeOK, ServerTypes, lineVars, Octet
<1>4. CASE ServeStop
  <2>1. ServerTypes'
    <3>1. TakeStop \/ UNCHANGED serverVars
      BY <1>4 DEF ServeStop
    <3>2. QED
      BY <3>1, ServerOfType, TakeStopTypes DEF ServerTypes, serverVars
  <2>2. QED
    BY <1>4, <2>1 DEF ServeStop, TypeOK, ServerTypes, irqVars, lineVars, Octet
<1>5. CASE ServeNormal
  <2>1. ServerTypes'
    <3>1. ProcessPending \/ UNCHANGED serverVars
      BY <1>5 DEF ServeNormal
    <3>2. QED
      BY <3>1, ServerOfType, ProcessPendingTypes DEF ServerTypes, serverVars
  <2>2. QED
    BY <1>5, <2>1 DEF ServeNormal, TypeOK, ServerTypes, irqVars, lineVars, Octet
<1>6. CASE Claim \/ AbortReceive \/ Transmit \/ Started \/ Refused
  <2>1. UNCHANGED <<serverVars, ring, events, bytes, taken, lineVars>>
    BY <1>6 DEF Claim, AbortReceive, Transmit, Started, Refused, irqVars
  <2>2. /\ de' \in {de, TRUE, FALSE} /\ armed' \in {armed, TRUE, FALSE}
        /\ active' \in {active, TRUE} /\ early' \in {early, ServoBuild}
        /\ pc' \in {"drain", "abort", "start", "started", "refused"}
    BY <1>6 DEF Claim, AbortReceive, Transmit, Started, Refused, irqVars, NextIteration
  <2>3. {tx', answered'} \subseteq Answerable
    BY <1>6 DEF Claim, AbortReceive, Transmit, Started, Refused, irqVars, TypeOK
  <2>4. {de', armed', active', early'} \subseteq BOOLEAN
    BY <2>2, PortAssumption DEF TypeOK
  <2>5. QED
    BY <2>1, <2>2, <2>3, <2>4 DEF TypeOK, serverVars, lineVars
<1>7. QED
  BY <1>1, <1>2, <1>3, <1>4, <1>5, <1>6 DEF Main

LEMMA TypeStep ==
  ASSUME TypeOK, intact * FrameLen + run <= sent, [Next]_vars
  PROVE  TypeOK'
<1>1. CASE TxComplete
  BY <1>1 DEF TxComplete, TypeOK, serverVars, mainVars, lineVars, Events, Answerable, None
<1>2. CASE UNCHANGED vars
  BY <1>2 DEF vars, serverVars, irqVars, mainVars, lineVars, TypeOK
<1>3. QED
  BY <1>1, <1>2, MainTypes, LineTypes DEF Next, Environment

-----------------------------------------------------------------------------
(* The line.                                                               *)

LEMMA DrainedStep == ASSUME Drained, [Next]_vars PROVE Drained'
<1>1. CASE Parse \/ LinkEvent \/ Drain
  BY <1>1 DEF Drained, Parse, LinkEvent, Drain
<1>2. CASE ServeStop \/ ServeNormal \/ Claim \/ AbortReceive \/ Transmit \/ Started \/ Refused
  BY <1>2 DEF Drained, ServeStop, ServeNormal, Claim, AbortReceive, Transmit, Started,
       Refused, NextIteration
<1>3. CASE Environment \/ UNCHANGED vars
  BY <1>3 DEF Drained, Environment, Receive, TxComplete, LineError, vars, mainVars
<1>4. QED
  BY <1>1, <1>2, <1>3 DEF Next, Main

LEMMA LineStep == ASSUME TypeOK, LineInv, [Next]_vars PROVE LineInv'
<1>1. CASE Drain \/ Parse \/ LinkEvent \/ ServeStop \/ ServeNormal
  BY <1>1 DEF LineInv, LineHandedOver, Drain, Parse, LinkEvent, ServeStop, ServeNormal, irqVars
<1>2. CASE Claim \/ AbortReceive
  BY <1>2 DEF LineInv, LineHandedOver, Claim, AbortReceive, serverVars, NextIteration
<1>3. CASE Transmit \/ Started \/ Refused
  BY <1>3 DEF LineInv, LineHandedOver, Transmit, Started, Refused, serverVars, irqVars,
       NextIteration
<1>4. CASE Receive \/ TxComplete \/ LineError
  BY <1>4 DEF LineInv, LineHandedOver, Receive, TxComplete, LineError, serverVars, mainVars
<1>5. CASE UNCHANGED vars
  BY <1>5 DEF LineInv, LineHandedOver, vars, serverVars, irqVars, mainVars
<1>6. QED
  BY <1>1, <1>2, <1>3, <1>4, <1>5 DEF Next, Main, Environment

LEMMA QuietStep ==
  ASSUME TypeOK, Drained, LineInv, QuietInv, [Next]_vars
  PROVE  QuietInv'
<1> SUFFICES ASSUME noise' = 0 PROVE QuietInv'
  BY DEF QuietInv
<1>1. noise = 0 /\ ~LineError
  <2>1. ~LineError
    BY DEF LineError, TypeOK
  <2>2. UNCHANGED noise
    BY <2>1 DEF Next, Main, Drain, Parse, LinkEvent, ServeStop, ServeNormal, Claim,
         AbortReceive, Transmit, Started, Refused, Environment, Receive, TxComplete,
         vars, lineVars
  <2>3. QED
    BY <2>1, <2>2
<1>2. /\ tx # None => de /\ tx = response
      /\ events = {} \/ taken = {}
      /\ tx # None => events = {} /\ taken = {}
      /\ tx # None \/ events # {} \/ taken # {} => active \/ pc = "started"
      /\ pc \in {"abort", "start"} => de /\ ~active
      /\ pc # "refused"
  BY <1>1 DEF QuietInv, AnswerWhole, DriverHeld
<1>3. SUFFICES /\ tx' # None => de' /\ tx' = response'
               /\ events' = {} \/ taken' = {}
               /\ tx' # None => events' = {} /\ taken' = {}
               /\ tx' # None \/ events' # {} \/ taken' # {} => active' \/ pc' = "started"
               /\ pc' \in {"abort", "start"} => de' /\ ~active'
               /\ pc' # "refused"
  BY DEF QuietInv, AnswerWhole, DriverHeld
<1>4. CASE Drain
  BY <1>2, <1>4 DEF Drain, serverVars, Drained
<1>5. CASE Parse
  BY <1>2, <1>5 DEF Parse, ProcessByte, irqVars
<1>6. CASE LinkEvent
  BY <1>2, <1>6 DEF LinkEvent, serverVars
<1>7. CASE ServeStop
  <2>1. tx # None => response' = response
    BY <1>2, <1>7 DEF ServeStop, TakeStop, QueueStopResponse, serverVars
  <2>2. QED
    BY <1>2, <1>7, <2>1 DEF ServeStop, irqVars
<1>8. CASE ServeNormal
  <2>1. tx # None => response' = response
    BY <1>2, <1>8 DEF ServeNormal, ProcessPending, CanProcess, serverVars
  <2>2. QED
    BY <1>2, <1>8, <2>1 DEF ServeNormal, irqVars
<1>9. CASE Claim \/ AbortReceive
  BY <1>2, <1>9 DEF Claim, AbortReceive, NextIteration, serverVars
<1>10. CASE Transmit
  BY <1>2, <1>10 DEF Transmit, Drained, serverVars
<1>11. CASE Started
  <2>1. UNCHANGED <<tx, de, response, events, taken>> /\ active' = TRUE /\ pc' = "drain"
    BY <1>11 DEF Started, NextIteration, serverVars, irqVars
  <2>2. QED
    BY <1>2, <2>1
<1>12. CASE Refused
  BY <1>2, <1>12 DEF Refused
<1>13. CASE Receive \/ TxComplete \/ UNCHANGED vars
  BY <1>2, <1>13 DEF Receive, TxComplete, vars, serverVars, irqVars, mainVars
<1>14. QED
  BY <1>1, <1>4, <1>5, <1>6, <1>7, <1>8, <1>9, <1>10, <1>11, <1>12, <1>13
  DEF Next, Main, Environment

-----------------------------------------------------------------------------
(* The account of the requests.                                            *)

\* The account moves with its terms: v counts the valid requests, a and b the executed,
\* n the latched, q the queued, d, f and x those that are lost.
Balance(v, a, b, n, q, d, f, x) == v = a + b + n + q + d + f + x

LEMMA OneMore ==
  ASSUME NEW v \in Nat, NEW a \in Nat, NEW b \in Nat, NEW n \in Nat, NEW q \in Nat,
         NEW d \in Nat, NEW f \in Nat, NEW x \in Nat,
         Balance(v, a, b, n, q, d, f, x)
  PROVE  /\ n = 0 => Balance(v + 1, a, b, 1, q, d, f, x)
         /\ Balance(v + 1, a, b, n, q + 1, d, f, x)
         /\ Balance(v + 1, a, b, n, q, d + 1, f, x)
         /\ Balance(v + 1, a, b, n, q, d, f + 1, x)
  BY DEF Balance

Latched == IF stop = None THEN 0 ELSE 1

LEMMA AccountedIs ==
    Accounted <=> Balance(count["valid"], done.stop, done.normal, Latched, Len(queue),
                          count["duplicate"], count["full"], count["discarded"])
  BY DEF Accounted, Balance, Latched

LEMMA AccountTypes ==
  ASSUME TypeOK
  PROVE  /\ count["valid"] \in Nat /\ done.stop \in Nat /\ done.normal \in Nat
         /\ Latched \in Nat /\ Len(queue) \in Nat
         /\ count["duplicate"] \in Nat /\ count["full"] \in Nat /\ count["discarded"] \in Nat
<1>1. count \in [Counters -> Nat] /\ done \in [stop : Nat, normal : Nat] /\ queue \in Seq(Frames)
  BY DEF TypeOK
<1>2. {"valid", "duplicate", "full", "discarded"} \subseteq Counters
  BY DEF Counters
<1>3. QED
  BY <1>1, <1>2 DEF Latched

\* A request that is extracted waits, or is counted as lost.
LEMMA ExtractAccounts ==
  ASSUME TypeOK, Accounted, NEW buffer, Extract(buffer), UNCHANGED done,
         CrcIsValid(buffer)
  PROVE  Accounted'
<1> DEFINE f == FrameOf(buffer[1])
<1>1. f \in Frames
  BY OpensHasFrame DEF CrcIsValid
<1>2. f # None
  BY <1>1, Sizes DEF Frames, None
<1>3. /\ count \in [Counters -> Nat]
      /\ Len(Append(queue, f)) = Len(queue) + 1
      /\ {"wrong", "valid", "duplicate", "full", "discarded"} \subseteq Counters
  BY <1>1, AppendProperties DEF TypeOK, Counters
<1>4. Balance(count["valid"], done.stop, done.normal, Latched, Len(queue),
              count["duplicate"], count["full"], count["discarded"])
  BY AccountedIs
<1>5. SUFFICES Balance(count'["valid"], done'.stop, done'.normal, Latched', Len(queue'),
                       count'["duplicate"], count'["full"], count'["discarded"])
  BY DEF Accounted, Balance, Latched
<1> HIDE DEF f
<1>6. done'.stop = done.stop /\ done'.normal = done.normal
  OBVIOUS
<1>7. CASE SkipForeign(buffer)
  <2>1. /\ count'["valid"] = count["valid"] /\ count'["duplicate"] = count["duplicate"]
        /\ count'["full"] = count["full"] /\ count'["discarded"] = count["discarded"]
    BY <1>3, <1>7 DEF SkipForeign
  <2>2. Latched' = Latched /\ queue' = queue
    BY <1>7 DEF SkipForeign, Latched
  <2>3. QED
    BY <1>4, <1>6, <2>1, <2>2
<1>8. CASE LatchStop(buffer) /\ stop = None
  <2>1. /\ count'["valid"] = count["valid"] + 1 /\ count'["duplicate"] = count["duplicate"] + 0
        /\ count'["full"] = count["full"] /\ count'["discarded"] = count["discarded"]
    BY <1>3, <1>8 DEF LatchStop
  <2>2. count'["duplicate"] = count["duplicate"]
    BY <2>1, AccountTypes
  <2>3. Latched = 0 /\ Latched' = 1 /\ queue' = queue
    BY <1>2, <1>8 DEF LatchStop, Latched, f
  <2>4. Balance(count["valid"] + 1, done.stop, done.normal, 1, Len(queue),
                count["duplicate"], count["full"], count["discarded"])
    BY <1>4, <2>3, OneMore, AccountTypes
  <2>5. QED
    BY <1>6, <2>1, <2>2, <2>3, <2>4
<1>9. CASE LatchStop(buffer) /\ stop # None
  <2>1. /\ count'["valid"] = count["valid"] + 1 /\ count'["duplicate"] = count["duplicate"] + 1
        /\ count'["full"] = count["full"] /\ count'["discarded"] = count["discarded"]
    BY <1>3, <1>9 DEF LatchStop
  <2>2. Latched' = Latched /\ queue' = queue
    BY <1>9 DEF LatchStop, Latched
  <2>3. Balance(count["valid"] + 1, done.stop, done.normal, Latched, Len(queue),
                count["duplicate"] + 1, count["full"], count["discarded"])
    BY <1>4, OneMore, AccountTypes
  <2>4. QED
    BY <1>6, <2>1, <2>2, <2>3
<1>10. CASE Enqueue(buffer) /\ Len(queue) < QueueCapacity
  <2>1. /\ count'["valid"] = count["valid"] + 1 /\ count'["duplicate"] = count["duplicate"]
        /\ count'["full"] = count["full"] + 0 /\ count'["discarded"] = count["discarded"]
    BY <1>3, <1>10 DEF Enqueue
  <2>2. count'["full"] = count["full"]
    BY <2>1, AccountTypes
  <2>3. Latched' = Latched /\ Len(queue') = Len(queue) + 1
    BY <1>3, <1>10 DEF Enqueue, Latched, f
  <2>4. Balance(count["valid"] + 1, done.stop, done.normal, Latched, Len(queue) + 1,
                count["duplicate"], count["full"], count["discarded"])
    BY <1>4, OneMore, AccountTypes
  <2>5. QED
    BY <1>6, <2>1, <2>2, <2>3, <2>4
<1>11. CASE Enqueue(buffer) /\ ~(Len(queue) < QueueCapacity)
  <2>1. /\ count'["valid"] = count["valid"] + 1 /\ count'["duplicate"] = count["duplicate"]
        /\ count'["full"] = count["full"] + 1 /\ count'["discarded"] = count["discarded"]
    BY <1>3, <1>11 DEF Enqueue
  <2>2. Latched' = Latched /\ queue' = queue
    BY <1>11 DEF Enqueue, Latched
  <2>3. Balance(count["valid"] + 1, done.stop, done.normal, Latched, Len(queue),
                count["duplicate"], count["full"] + 1, count["discarded"])
    BY <1>4, OneMore, AccountTypes
  <2>4. QED
    BY <1>6, <2>1, <2>2, <2>3
<1>12. QED
  BY <1>7, <1>8, <1>9, <1>10, <1>11 DEF Extract

LEMMA AccountStep == ASSUME TypeOK, Accounted, [Next]_vars PROVE Accounted'
<1>1. /\ count \in [Counters -> Nat] /\ queue \in Seq(Frames) /\ Len(queue) \in Nat
      /\ done \in [stop : Nat, normal : Nat] /\ done.stop \in Nat /\ done.normal \in Nat
  BY DEF TypeOK
<1>2. /\ {"valid", "duplicate", "full", "discarded", "unanswered"} \subseteq Counters
      /\ count["valid"] \in Nat /\ count["duplicate"] \in Nat /\ count["full"] \in Nat
      /\ count["discarded"] \in Nat
  BY <1>1 DEF Counters
<1>3. CASE UNCHANGED <<stop, queue, count, done>>
  BY <1>3 DEF Accounted
<1>4. CASE Parse
  <2> DEFINE buffer == Append(rx, Head(bytes))
  <2>1. Extract(buffer) /\ UNCHANGED done
    BY <1>4 DEF Parse, ProcessByte
  <2>2. CASE CrcIsValid(buffer)
    BY <2>1, <2>2, ExtractAccounts
  <2>3. CASE ~CrcIsValid(buffer)
    BY <1>3, <2>1, <2>3 DEF Extract
  <2>4. QED
    BY <2>2, <2>3
<1>5. CASE TakeStop
  <2>1. stop # None /\ stop' = None /\ queue' = <<>> /\ Len(<<>>) = 0
    BY <1>5, EmptySeq DEF TakeStop
  <2>2. done'.stop = done.stop + 1 /\ done'.normal = done.normal
    BY <1>1, <1>5 DEF TakeStop
  <2>3. /\ count'["discarded"] = count["discarded"] + Len(queue)
        /\ count'["valid"] = count["valid"] /\ count'["duplicate"] = count["duplicate"]
        /\ count'["full"] = count["full"]
    BY <1>1, <1>2, <1>5 DEF TakeStop
  <2>4. QED
    BY <1>1, <1>2, <2>1, <2>2, <2>3 DEF Accounted
<1>6. CASE ProcessPending
  <2>1. Len(queue') = Len(queue) - 1 /\ UNCHANGED <<stop, count>>
    BY <1>1, <1>6, HeadTailProperties DEF ProcessPending, CanProcess
  <2>2. done'.stop = done.stop /\ done'.normal = done.normal + 1
    BY <1>1, <1>6 DEF ProcessPending
  <2>3. QED
    BY <1>1, <1>2, <2>1, <2>2 DEF Accounted
<1>7. CASE LinkEvent
  BY <1>3, <1>7 DEF LinkEvent, CompleteResponse, serverVars
<1>8. CASE ServeStop \/ ServeNormal
  BY <1>3, <1>5, <1>6, <1>8 DEF ServeStop, ServeNormal, serverVars
<1>9. CASE Drain \/ Claim \/ AbortReceive \/ Transmit \/ Started \/ Refused
  BY <1>3, <1>9 DEF Drain, Claim, AbortReceive, Transmit, Started, Refused, serverVars
<1>10. CASE Environment \/ UNCHANGED vars
  BY <1>3, <1>10 DEF Environment, Receive, TxComplete, LineError, vars, serverVars
<1>11. QED
  BY <1>4, <1>7, <1>8, <1>9, <1>10 DEF Next, Main
-----------------------------------------------------------------------------
(* What one byte of ServiceMain does to the stream.                        *)

LEMMA Reassociated ==
  \A a, b, c \in Seq(Octet) : (a \o b) \o c = a \o (b \o c)
  BY ConcatAssociative

\* The server holds the front of the stream, and the rest waits.
LEMMA StreamOf ==
  ASSUME TypeOK, Parse
  PROVE  LET buffer == Append(rx, Head(bytes))
             rest == Tail(bytes) \o ring
         IN  /\ buffer \in Seq(Octet) /\ rest \in Seq(Octet)
             /\ Len(buffer) \in 1 .. FrameLen
             /\ Stream = buffer \o rest
             /\ rx' \in Seq(Octet) => Stream' = rx' \o rest
<1> DEFINE buffer == Append(rx, Head(bytes))
           m == Tail(bytes)
<1>1. rx \in Seq(Octet) /\ bytes \in Seq(Octet) /\ bytes # <<>> /\ ring \in Seq(Octet)
  BY DEF TypeOK, Octet, Parse
<1>2. buffer \in Seq(Octet) /\ Len(buffer) = Len(rx) + 1 /\ buffer \o m = rx \o bytes
  BY <1>1, HeadMoves
<1>3. m \in Seq(Octet) /\ Len(buffer) <= FrameLen
  BY ParseBuffer
<1>4. bytes' = m /\ ring' = ring
  BY DEF Parse, irqVars
<1> HIDE DEF buffer, m
<1>5. m \o ring \in Seq(Octet)
  BY <1>1, <1>3, ConcatProperties
<1>6. Stream = buffer \o (m \o ring)
  <2>1. (buffer \o m) \o ring = buffer \o (m \o ring)
    BY <1>1, <1>2, <1>3, Reassociated, Zenon
  <2>2. QED
    BY <1>2, <2>1 DEF Stream
<1>7. ASSUME rx' \in Seq(Octet) PROVE Stream' = rx' \o (m \o ring)
  <2>1. (rx' \o m) \o ring = rx' \o (m \o ring)
    BY <1>1, <1>3, <1>7, Reassociated, Zenon
  <2>2. QED
    BY <1>4, <2>1 DEF Stream
<1>8. Len(buffer) \in 1 .. FrameLen
  BY <1>1, <1>2, <1>3, Sizes
<1>9. QED
  BY <1>2, <1>3, <1>5, <1>6, <1>7, <1>8 DEF buffer, m

\* The bytes of a buffer of FrameLen are checked where they lie in the stream.
LEMMA FrameInFront ==
  ASSUME NEW a \in Seq(Octet), NEW t \in Seq(Octet), Len(a) = FrameLen
  PROVE  CrcIsValid(a) <=> FrameAt(a \o t, 1)
<1> DEFINE s == a \o t
<1>1. FrameLen \in Nat /\ FrameLen >= 2 /\ Len(t) \in Nat
  BY Sizes
<1>2. /\ Len(s) = Len(a) + Len(t)
      /\ \A i \in 1 .. Len(a) : s[i] = a[i]
  <2>1. /\ Len(s) = Len(a) + Len(t)
        /\ \A i \in 1 .. Len(a) + Len(t) : s[i] = IF i <= Len(a) THEN a[i] ELSE t[i - Len(a)]
    BY ConcatProperties
  <2>2. QED
    BY <1>1, <2>1
<1> HIDE DEF s
<1>3. s[1] = a[1] /\ 1 + FrameLen - 1 <= Len(s)
  BY <1>1, <1>2
<1>4. ASSUME CrcIsValid(a) PROVE FrameAt(s, 1)
  <2>1. a[1] \in Int
    BY <1>4, OpensHasFrame DEF CrcIsValid, Bytes
  <2>2. ASSUME NEW k \in 0 .. FrameLen - 1 PROVE s[1 + k] = s[1] + k
    <3>1. 1 + k \in 1 .. FrameLen
      BY <1>1
    <3>2. a[1 + k] = a[1] + (1 + k) - 1
      BY <1>4, <3>1 DEF CrcIsValid
    <3>3. QED
      BY <1>1, <1>2, <1>3, <2>1, <3>1, <3>2
  <2>3. QED
    BY <1>3, <1>4, <2>2 DEF FrameAt, CrcIsValid
<1>5. ASSUME FrameAt(s, 1) PROVE CrcIsValid(a)
  <2>1. a[1] \in Int
    BY <1>3, <1>5, OpensHasFrame DEF FrameAt, Bytes
  <2>2. ASSUME NEW i \in 1 .. FrameLen PROVE a[i] = a[1] + i - 1
    <3>1. i - 1 \in 0 .. FrameLen - 1 /\ 1 + (i - 1) = i
      BY <1>1
    <3>2. s[1 + (i - 1)] = s[1] + (i - 1)
      BY <1>5, <3>1 DEF FrameAt
    <3>3. QED
      BY <1>1, <1>2, <1>3, <2>1, <3>1, <3>2
  <2>3. QED
    BY <1>3, <1>5, <2>2 DEF FrameAt, CrcIsValid
<1>6. QED
  BY <1>4, <1>5 DEF s

\* Nothing is taken off, one byte that opens no frame is, or one whole frame is.
Kept == Stream' = Stream /\ UNCHANGED <<stop, queue, count, latest>>
DropsOne ==
    /\ Len(Stream) >= FrameLen /\ ~FrameAt(Stream, 1)
    /\ Stream' = DropFront(Stream, 1)
    /\ UNCHANGED <<stop, queue, count, latest>>
DropsFrame ==
    /\ FrameAt(Stream, 1)
    /\ Stream' = DropFront(Stream, FrameLen)
    /\ Stream[1] = Append(rx, Head(bytes))[1]

LEMMA ParseStream ==
  ASSUME TypeOK, Parse
  PROVE  LET buffer == Append(rx, Head(bytes)) IN
         \/ Kept
         \/ DropsOne
         \/ /\ DropsFrame
            /\ SkipForeign(buffer) \/ LatchStop(buffer) \/ Enqueue(buffer)
<1> DEFINE buffer == Append(rx, Head(bytes))
           rest == Tail(bytes) \o ring
<1>1. /\ buffer \in Seq(Octet) /\ rest \in Seq(Octet) /\ Len(buffer) \in 1 .. FrameLen
      /\ Stream = buffer \o rest
      /\ rx' \in Seq(Octet) => Stream' = rx' \o rest
  BY StreamOf
<1>2. Extract(buffer)
  BY DEF Parse, ProcessByte
<1>3. rx' \in Seq(Octet)
  BY <1>1, <1>2, ExtractTypes, Len(buffer) <= FrameLen
<1> HIDE DEF buffer, rest
<1>4. /\ Len(Stream) = Len(buffer) + Len(rest) /\ Len(rest) \in Nat
      /\ Stream[1] = buffer[1]
  BY <1>1, ConcatProperties
<1>5. CASE CrcIsValid(buffer)
  <2>1. /\ rx' = DropFront(buffer, FrameLen) /\ Len(buffer) = FrameLen
        /\ SkipForeign(buffer) \/ LatchStop(buffer) \/ Enqueue(buffer)
    BY <1>2, <1>5 DEF Extract, CrcIsValid
  <2>2. FrameAt(Stream, 1)
    BY <1>1, <1>5, <2>1, FrameInFront
  <2>3. Stream' = DropFront(Stream, FrameLen)
    BY <1>1, <1>3, <2>1, DropsOfConcat, FrameLen \in 1 .. Len(buffer)
  <2>4. QED
    BY <1>4, <2>1, <2>2, <2>3 DEF DropsFrame, buffer
<1>6. CASE ~CrcIsValid(buffer) /\ Len(buffer) < FrameLen
  <2>1. rx' = buffer /\ UNCHANGED <<stop, queue, count, latest>>
    BY <1>2, <1>6 DEF Extract
  <2>2. QED
    BY <1>1, <1>3, <2>1 DEF Kept
<1>7. CASE ~CrcIsValid(buffer) /\ Len(buffer) = FrameLen
  <2>1. rx' = DropFront(buffer, 1) /\ UNCHANGED <<stop, queue, count, latest>>
    BY <1>2, <1>7 DEF Extract
  <2>2. ~FrameAt(Stream, 1)
    BY <1>1, <1>7, FrameInFront
  <2>3. Stream' = DropFront(Stream, 1)
    BY <1>1, <1>3, <2>1, DropsOfConcat, 1 \in 1 .. Len(buffer)
  <2>4. Len(Stream) >= FrameLen
    BY <1>1, <1>4, <1>7, Sizes
  <2>5. QED
    BY <2>1, <2>2, <2>3, <2>4 DEF DropsOne
<1>8. Len(buffer) < FrameLen \/ Len(buffer) = FrameLen
  BY <1>1, Sizes
<1>9. QED
  BY <1>5, <1>6, <1>7, <1>8 DEF buffer
-----------------------------------------------------------------------------
(* The order of the requests.                                              *)

\* The frame in front of the stream is newer than all that were extracted.
LEMMA NewerFrame ==
  ASSUME TypeOK, StreamInv, FrameAt(Stream, 1)
  PROVE  LET f == FrameOf(Stream[1]) IN
         f \in Frames /\ latest < f /\ Stream[1] = FirstByte(f)
<1> DEFINE f == FrameOf(Stream[1])
<1>1. f \in Frames /\ Stream[1] = FirstByte(f) /\ Stream[1] \in Bytes
  BY OpensHasFrame DEF FrameAt
<1> HIDE DEF f
<1>2. latest \in Int /\ f \in Int /\ f - 1 \in Int
  BY <1>1, Sizes DEF TypeOK, Answerable, Frames, None
<1>3. 1 <= Len(Stream)
  <2>1. Stream \in Seq(Octet)
    BY ConcatProperties DEF TypeOK, Stream, Octet
  <2>2. Len(Stream) \in Nat
    BY <2>1
  <2>3. QED
    BY <2>2, Sizes DEF FrameAt
<1>4. latest * FrameLen < Stream[1]
  <2>1. Stream[1] # Noise
    BY <1>1 DEF Bytes, Noise
  <2>2. 1 \in 1 .. Len(Stream)
    <3>1. Stream \in Seq(Octet)
      BY ConcatProperties DEF TypeOK, Stream, Octet
    <3>2. QED
      BY <1>3, <3>1
  <2>3. QED
    BY <2>1, <2>2 DEF StreamInv, Between
<1>5. latest * FrameLen \in Int /\ (f - 1) * FrameLen \in Int
      /\ (f - 1 < latest => (f - 1) * FrameLen + FrameLen <= latest * FrameLen)
  BY <1>2, Products
<1>6. latest * FrameLen < (f - 1) * FrameLen + 1
  BY <1>1, <1>4 DEF FirstByte
<1>7. latest < f
  BY <1>2, <1>5, <1>6, Sizes
<1>8. QED
  BY <1>1, <1>7 DEF f

\* The numbers the order is about.
LEMMA OrderTypes ==
  ASSUME TypeOK
  PROVE  /\ stop \in Int /\ response \in Int /\ priority \in Int /\ latest \in Int
         /\ barrier \in Int /\ executed \in Int /\ answered \in Int
         /\ executed >= 0 /\ latest >= 0 /\ response >= 0 /\ priority >= 0 /\ answered >= 0
         /\ None \in Int
         /\ queue \in Seq(Frames) /\ Len(queue) \in Nat
         /\ \A i \in 1 .. Len(queue) : queue[i] \in Int /\ queue[i] >= 1 /\ queue[i] # None
<1>1. Answerable \subseteq Nat /\ Frames \subseteq Nat
  BY Sizes DEF Answerable, Frames, None
<1>2. queue \in Seq(Frames) /\ Len(queue) \in Nat
  BY DEF TypeOK
<1>3. \A i \in 1 .. Len(queue) : queue[i] \in Frames
  BY <1>2, ElementOfSeq
<1>4. \A f \in Frames : f \in Int /\ f >= 1 /\ f # None
  BY DEF Frames, None
<1>5. /\ stop \in Nat /\ response \in Nat /\ priority \in Nat /\ latest \in Nat
      /\ barrier \in Nat /\ executed \in Nat /\ answered \in Nat
  BY <1>1 DEF TypeOK
<1>6. QED
  BY <1>2, <1>3, <1>4, <1>5 DEF None

LEMMA OrderParse ==
  ASSUME TypeOK, StreamInv, OrderInv, Parse
  PROVE  OrderInv'
<1> DEFINE buffer == Append(rx, Head(bytes))
           f == FrameOf(Stream[1])
<1>1. UNCHANGED <<kind, response, priority, barrier, executed, answered>>
  BY DEF Parse, ProcessByte
<1>2. CASE UNCHANGED <<stop, queue, latest>>
  BY <1>1, <1>2 DEF OrderInv
<1>3. CASE DropsFrame /\ (LatchStop(buffer) \/ Enqueue(buffer))
  <2>1. f \in Frames /\ latest < f /\ f \in Int
    BY <1>3, NewerFrame DEF DropsFrame, Frames
  <2>2. f = FrameOf(buffer[1]) /\ latest' = f
    BY <1>3 DEF DropsFrame, LatchStop, Enqueue
  <2>3. f # None
    BY <2>1 DEF Frames, None
  <2> HIDE DEF f, buffer
  <2>4. CASE LatchStop(buffer)
    <3>1. (stop' = stop \/ (stop' = f /\ kind[f] = "stop")) /\ queue' = queue
      BY <2>2, <2>4 DEF LatchStop
    <3>2. stop' # None => executed < stop' /\ stop' <= f /\ kind[stop'] = "stop"
      BY <2>1, <3>1, OrderTypes DEF OrderInv
    <3>3. \A i \in 1 .. Len(queue) : queue[i] <= f
      BY <2>1, OrderTypes DEF OrderInv
    <3>4. executed <= f /\ barrier <= f
      BY <2>1, OrderTypes DEF OrderInv
    <3>5. QED
      BY <1>1, <2>2, <3>1, <3>2, <3>3, <3>4 DEF OrderInv
  <2>5. CASE Enqueue(buffer)
    <3>1. (queue' = queue \/ queue' = Append(queue, f)) /\ stop' = stop /\ kind[f] = "normal"
      BY <2>2, <2>5 DEF Enqueue
    <3>2. /\ stop # None => stop <= f
          /\ executed <= f /\ barrier <= f /\ executed < f /\ barrier < f
      BY <2>1, OrderTypes DEF OrderInv
    <3>3. \A i \in 1 .. Len(queue) :
            /\ executed < queue[i] /\ barrier < queue[i] /\ queue[i] <= f /\ queue[i] < f
            /\ kind[queue[i]] = "normal"
            /\ \A j \in 1 .. Len(queue) : i < j => queue[i] < queue[j]
      BY <2>1, OrderTypes DEF OrderInv
    <3>4. \A i \in 1 .. Len(queue') :
            /\ executed < queue'[i] /\ barrier < queue'[i] /\ queue'[i] <= f
            /\ kind[queue'[i]] = "normal"
            /\ \A j \in 1 .. Len(queue') : i < j => queue'[i] < queue'[j]
      <4>1. CASE queue' = queue
        BY <3>3, <4>1
      <4>2. CASE queue' = Append(queue, f)
        <5>1. /\ Len(queue') = Len(queue) + 1 /\ queue'[Len(queue) + 1] = f
              /\ \A i \in 1 .. Len(queue) : queue'[i] = queue[i]
          BY <2>1, <4>2, OrderTypes, AppendProperties
        <5>2. \A i \in 1 .. Len(queue') : i \in 1 .. Len(queue) \/ i = Len(queue) + 1
          BY <5>1, OrderTypes
        <5>3. ASSUME NEW i \in 1 .. Len(queue')
              PROVE  /\ executed < queue'[i] /\ barrier < queue'[i] /\ queue'[i] <= f
                     /\ kind[queue'[i]] = "normal"
          BY <2>1, <3>1, <3>2, <3>3, <5>1, <5>2
        <5>4. ASSUME NEW i \in 1 .. Len(queue'), NEW j \in 1 .. Len(queue'), i < j
              PROVE  queue'[i] < queue'[j]
          <6>1. i \in 1 .. Len(queue)
            BY <5>1, <5>2, <5>4, OrderTypes
          <6>2. QED
            BY <3>3, <5>1, <5>2, <5>4, <6>1
        <5>5. QED
          BY <5>3, <5>4
      <4>3. QED
        BY <3>1, <4>1, <4>2
    <3>5. stop' # None => executed < stop' /\ stop' <= f /\ kind[stop'] = "stop"
      BY <3>1, <3>2 DEF OrderInv
    <3>6. QED
      BY <1>1, <2>2, <3>2, <3>4, <3>5 DEF OrderInv
  <2>6. QED
    BY <1>3, <2>4, <2>5
<1>4. QED
  BY <1>2, <1>3, ParseStream DEF Kept, DropsOne, SkipForeign
LEMMA OrderTakeStop ==
  ASSUME TypeOK, OrderInv, TakeStop, UNCHANGED answered
  PROVE  OrderInv'
<1>1. /\ UNCHANGED <<kind, latest>> /\ stop' = None /\ executed' = stop /\ barrier' = latest
      /\ queue' = <<>> /\ stop # None
  BY DEF TakeStop
<1>2. \/ priority = None /\ response = None /\ response' = stop /\ priority' = priority
      \/ priority = None /\ response # None /\ priority' = stop /\ response' = response
      \/ priority # None /\ priority' = priority /\ response' = response
  BY DEF TakeStop, QueueStopResponse
<1>3. /\ executed < stop /\ stop <= latest /\ barrier <= latest
      /\ response <= executed /\ priority <= executed /\ answered <= executed
      /\ response # None => answered <= response
      /\ priority # None => response # None /\ response < priority
  BY <1>1 DEF OrderInv
<1>4. Len(queue') = 0
  BY <1>1, EmptySeq
<1>5. /\ response' <= stop /\ priority' <= stop /\ answered <= stop
      /\ response' # None => answered <= response'
      /\ priority' # None => response' # None /\ response' < priority'
  BY <1>1, <1>2, <1>3, OrderTypes
<1>6. QED
  BY <1>1, <1>3, <1>4, <1>5, OrderTypes DEF OrderInv

LEMMA OrderProcessPending ==
  ASSUME TypeOK, OrderInv, ProcessPending, UNCHANGED answered
  PROVE  OrderInv'
<1>1. /\ stop = None /\ response = None /\ queue # <<>>
      /\ UNCHANGED <<kind, stop, priority, latest, barrier>>
      /\ queue' = Tail(queue) /\ response' = Head(queue) /\ executed' = Head(queue)
  BY DEF ProcessPending, CanProcess, Respond
<1>2. /\ Head(queue) = queue[1] /\ 1 \in 1 .. Len(queue)
      /\ Len(queue') = Len(queue) - 1
      /\ \A i \in 1 .. Len(queue') : queue'[i] = queue[i + 1] /\ i + 1 \in 1 .. Len(queue)
  BY <1>1, OrderTypes, HeadTailProperties, EmptySeq
<1>3. /\ priority = None /\ barrier <= latest
      /\ answered <= executed /\ executed < queue[1] /\ queue[1] <= latest
  BY <1>1, <1>2 DEF OrderInv
<1>4. ASSUME NEW i \in 1 .. Len(queue')
      PROVE  /\ queue[1] < queue'[i] /\ barrier < queue'[i] /\ queue'[i] <= latest
             /\ kind[queue'[i]] = "normal"
             /\ \A j \in 1 .. Len(queue') : i < j => queue'[i] < queue'[j]
  <2>1. i + 1 \in 1 .. Len(queue) /\ 1 < i + 1 /\ queue'[i] = queue[i + 1]
    BY <1>2
  <2>2. queue[1] < queue[i + 1]
    BY <1>2, <2>1 DEF OrderInv
  <2>3. \A j \in 1 .. Len(queue') : i < j => queue'[i] < queue'[j]
    <3> TAKE j \in 1 .. Len(queue')
    <3>1. j + 1 \in 1 .. Len(queue) /\ queue'[j] = queue[j + 1] /\ (i < j => i + 1 < j + 1)
      BY <1>2
    <3>2. QED
      BY <2>1, <3>1 DEF OrderInv
  <2>4. QED
    BY <2>1, <2>2, <2>3 DEF OrderInv
<1>5. answered <= queue[1] /\ priority <= queue[1]
  BY <1>2, <1>3, OrderTypes DEF None
<1>6. executed' = queue[1] /\ response' = queue[1] /\ queue[1] <= queue[1]
  BY <1>1, <1>2, OrderTypes
<1>7. QED
  BY <1>1, <1>3, <1>4, <1>5, <1>6 DEF OrderInv

LEMMA OrderStep ==
  ASSUME TypeOK, StreamInv, OrderInv, [Next]_vars
  PROVE  OrderInv'
<1>1. CASE UNCHANGED <<kind, stop, queue, response, priority, latest, barrier, executed, answered>>
  BY <1>1 DEF OrderInv
<1>2. CASE ServeStop
  BY <1>1, <1>2, OrderTakeStop DEF ServeStop, serverVars
<1>3. CASE ServeNormal
  BY <1>1, <1>3, OrderProcessPending DEF ServeNormal, serverVars
<1>4. CASE LinkEvent
  <2>1. CASE UNCHANGED <<serverVars, answered>>
    BY <1>1, <2>1 DEF serverVars
  <2>2. CASE CompleteResponse /\ UNCHANGED answered
    <3>1. /\ response' = priority /\ priority' = None
          /\ UNCHANGED <<kind, stop, queue, latest, barrier, executed, answered>>
      BY <2>2 DEF CompleteResponse
    <3>2. /\ response' <= executed /\ priority' <= executed
          /\ response' # None => answered <= response'
      BY <3>1, OrderTypes DEF OrderInv, None
    <3>3. QED
      BY <3>1, <3>2 DEF OrderInv
  <2>3. QED
    BY <1>4, <2>1, <2>2 DEF LinkEvent
<1>5. CASE Transmit
  <2>1. /\ UNCHANGED <<kind, stop, queue, response, priority, latest, barrier, executed>>
        /\ answered' = response \/ answered' = answered
    BY <1>5 DEF Transmit, serverVars
  <2>2. answered' <= executed /\ (response # None => answered' <= response)
    BY <2>1, OrderTypes DEF OrderInv
  <2>3. QED
    BY <2>1, <2>2 DEF OrderInv
<1>6. CASE Drain \/ Claim \/ AbortReceive \/ Started \/ Refused
  BY <1>1, <1>6 DEF Drain, Claim, AbortReceive, Started, Refused, serverVars
<1>7. CASE Environment \/ UNCHANGED vars
  BY <1>1, <1>7 DEF Environment, Receive, TxComplete, LineError, vars, serverVars
<1>8. QED
  BY <1>2, <1>3, <1>4, <1>5, <1>6, <1>7, OrderParse DEF Next, Main

\* The answers that have not left, in the order they will.
LEMMA InOrder == ASSUME TypeOK, OrderInv PROVE AnswersInOrder
<1> DEFINE r == Slot(response)
           p == Slot(priority)
           a == r \o p
<1>1. /\ priority # None => response # None /\ response < priority
      /\ response # None => answered <= response
      /\ response <= executed /\ priority <= executed /\ answered <= executed
  BY DEF OrderInv
<1>2. \A i \in 1 .. Len(queue) :
        /\ executed < queue[i]
        /\ \A j \in 1 .. Len(queue) : i < j => queue[i] < queue[j]
  BY DEF OrderInv
<1>3. \A f \in {response, priority} : f # None => f \in Frames
  BY DEF TypeOK, Answerable
<1>4. /\ a \in Seq(Frames) /\ Len(a) \in 0 .. 2
      /\ Len(a) >= 1 => a[1] = response /\ response # None
      /\ Len(a) = 2 => a[2] = priority /\ priority # None
      /\ \A i \in 1 .. Len(a) : a[i] <= executed
      /\ Len(a) = 0 => response = None
  <2>1. CASE response = None
    <3>1. a = <<>>
      BY <1>1, <2>1 DEF Slot
    <3>2. QED
      BY <2>1, <3>1, EmptySeq
  <2>2. CASE response # None /\ priority = None
    <3>1. a = <<response>> /\ response \in Frames
      BY <1>3, <2>2 DEF Slot
    <3>2. QED
      BY <1>1, <2>2, <3>1
  <2>3. CASE response # None /\ priority # None
    <3>1. response \in Frames /\ priority \in Frames
      BY <1>3, <2>3
    <3>2. r = <<response>> /\ p = <<priority>>
      BY <2>3 DEF Slot
    <3>3. r \in Seq(Frames) /\ p \in Seq(Frames) /\ Len(r) = 1 /\ Len(p) = 1
      BY <3>1, <3>2
    <3>4. r[1] = response /\ p[1] = priority
      BY <3>2
    <3> HIDE DEF r, p
    <3>5. /\ r \o p \in Seq(Frames) /\ Len(r \o p) = 2
          /\ \A i \in 1 .. 2 : (r \o p)[i] = IF i <= 1 THEN r[i] ELSE p[i - 1]
      BY <3>3, ConcatProperties
    <3>6. (r \o p)[1] = response /\ (r \o p)[2] = priority
      BY <3>4, <3>5
    <3>7. QED
      BY <1>1, <2>3, <3>5, <3>6
  <2>4. QED
    BY <2>1, <2>2, <2>3
<1>5. Unsent = a \o queue
  BY DEF Unsent
<1> HIDE DEF a
<1>6. /\ Len(Unsent) = Len(a) + Len(queue)
      /\ \A i \in 1 .. Len(a) + Len(queue) :
           Unsent[i] = IF i <= Len(a) THEN a[i] ELSE queue[i - Len(a)]
  BY <1>4, <1>5, OrderTypes, ConcatProperties
<1>7. ASSUME NEW i \in 1 .. Len(Unsent) - 1 PROVE Unsent[i] < Unsent[i + 1]
  <2>1. i \in Int /\ i >= 1 /\ i + 1 <= Len(a) + Len(queue) /\ i \in 1 .. Len(a) + Len(queue)
        /\ i + 1 \in 1 .. Len(a) + Len(queue) /\ Len(a) \in Nat /\ Len(queue) \in Nat
    BY <1>4, <1>6, OrderTypes
  <2>2. CASE i + 1 <= Len(a)
    <3>1. i = 1 /\ Len(a) = 2
      BY <1>4, <2>1, <2>2
    <3>2. Unsent[1] = response /\ Unsent[2] = priority
      BY <1>4, <1>6, <2>1, <3>1
    <3>3. QED
      BY <1>1, <1>4, <3>1, <3>2
  <2>3. CASE i = Len(a)
    <3>1. Unsent[i] = a[i] /\ Unsent[i + 1] = queue[1] /\ 1 \in 1 .. Len(queue) /\ i \in 1 .. Len(a)
      BY <1>6, <2>1, <2>3
    <3>2. a[i] \in Frames
      BY <1>4, <3>1, ElementOfSeq
    <3>3. a[i] \in Int /\ queue[1] \in Int /\ executed \in Int
      BY <3>1, <3>2, OrderTypes DEF Frames
    <3>4. QED
      BY <1>2, <1>4, <3>1, <3>3
  <2>4. CASE i > Len(a)
    <3>1. i - Len(a) \in 1 .. Len(queue) /\ (i + 1) - Len(a) \in 1 .. Len(queue)
          /\ i - Len(a) < (i + 1) - Len(a) /\ ~(i <= Len(a)) /\ ~(i + 1 <= Len(a))
      BY <2>1, <2>4
    <3>2. Unsent[i] = queue[i - Len(a)] /\ Unsent[i + 1] = queue[(i + 1) - Len(a)]
      BY <1>6, <2>1, <3>1
    <3>3. QED
      BY <1>2, <3>1, <3>2
  <2>5. QED
    BY <2>1, <2>2, <2>3, <2>4
<1>8. ASSUME Unsent # <<>> PROVE answered <= Unsent[1]
  <2>1. Len(a) + Len(queue) >= 1 /\ Len(a) \in Nat /\ Len(queue) \in Nat
    <3>1. Unsent \in Seq(Frames)
      BY <1>4, <1>5, OrderTypes, ConcatProperties
    <3>2. QED
      BY <1>4, <1>6, <1>8, <3>1, OrderTypes, EmptySeq
  <2>2. CASE Len(a) >= 1
    BY <1>1, <1>4, <1>6, <2>1, <2>2
  <2>3. CASE Len(a) = 0
    <3>1. Unsent[1] = queue[1] /\ 1 \in 1 .. Len(queue)
      BY <1>6, <2>1, <2>3
    <3>2. QED
      BY <1>1, <1>2, <3>1, OrderTypes
  <2>4. QED
    BY <2>1, <2>2, <2>3
<1>9. stop # None => stop > response /\ stop > priority
  BY OrderTypes DEF OrderInv
<1>10. QED
  BY <1>1, <1>7, <1>8, <1>9 DEF AnswersInOrder
-----------------------------------------------------------------------------
(* The order of the stream, and the frame that is arriving.                *)

LEMMA OctetIsInt == Octet \subseteq Int /\ Noise \in Octet /\ (\A b \in Octet : b # Noise => b >= 1)
<1>1. MaxFrames * FrameLen \in Int
  BY Sizes DEF MaxBytes
<1>2. QED
  BY <1>1 DEF Octet, Bytes, Noise

LEMMA DropKeepsOrder ==
  ASSUME NEW s \in Seq(Octet), NEW n \in 1 .. Len(s), Ordered(s)
  PROVE  Ordered(DropFront(s, n))
<1> DEFINE t == DropFront(s, n)
<1>1. Len(t) = Len(s) - n /\ \A i \in 1 .. Len(s) - n : t[i] = s[n + i]
  BY DropFrontIs
<1> HIDE DEF t
<1>2. ASSUME NEW i \in 1 .. Len(t), NEW j \in 1 .. Len(t), i < j, t[i] # Noise, t[j] # Noise
      PROVE  t[i] < t[j]
  <2>1. Len(s) \in Nat
    OBVIOUS
  <2>2. n + i \in 1 .. Len(s) /\ n + j \in 1 .. Len(s) /\ n + i < n + j
    BY <1>1, <1>2, <2>1
  <2>3. t[i] = s[n + i] /\ t[j] = s[n + j]
    BY <1>1
  <2>4. QED
    BY <1>2, <2>2, <2>3 DEF Ordered
<1>3. Ordered(t)
  BY <1>2 DEF Ordered
<1>4. QED
  BY <1>3 DEF t

LEMMA DropKeepsBetween ==
  ASSUME NEW s \in Seq(Octet), NEW n \in 1 .. Len(s), NEW low, NEW high, Between(s, low, high)
  PROVE  Between(DropFront(s, n), low, high)
<1> DEFINE t == DropFront(s, n)
<1>1. Len(t) = Len(s) - n /\ \A i \in 1 .. Len(s) - n : t[i] = s[n + i]
  BY DropFrontIs
<1> HIDE DEF t
<1>2. ASSUME NEW i \in 1 .. Len(t), t[i] # Noise
      PROVE  low < t[i] /\ t[i] <= high
  <2>1. n + i \in 1 .. Len(s) /\ t[i] = s[n + i]
    BY <1>1, Len(s) \in Nat
  <2>2. QED
    BY <1>2, <2>1 DEF Between
<1>3. Between(t, low, high)
  BY <1>2 DEF Between
<1>4. QED
  BY <1>3 DEF t

\* The last byte of the frame in front, and what follows it.
LEMMA BehindFrame ==
  ASSUME NEW s \in Seq(Octet), FrameAt(s, 1), Ordered(s), NEW low, NEW high, Between(s, low, high)
  PROVE  LET f == FrameOf(s[1]) IN
         /\ f \in Frames
         /\ f * FrameLen <= high
         /\ Between(DropFront(s, FrameLen), f * FrameLen, high)
<1> DEFINE f == FrameOf(s[1])
           t == DropFront(s, FrameLen)
<1>1. f \in Frames /\ s[1] = FirstByte(f) /\ s[1] \in Bytes
  BY OpensHasFrame DEF FrameAt
<1>2. /\ Len(s) \in Nat /\ FrameLen \in Nat /\ FrameLen >= 2 /\ FrameLen <= Len(s)
  BY Sizes DEF FrameAt
<1>3. Len(t) = Len(s) - FrameLen /\ \A i \in 1 .. Len(s) - FrameLen : t[i] = s[FrameLen + i]
  BY <1>2, DropFrontIs, FrameLen \in 1 .. Len(s)
<1> HIDE DEF f, t
<1>4. s[FrameLen] = f * FrameLen /\ f * FrameLen >= 1
  <2>1. FrameLen - 1 \in 0 .. FrameLen - 1 /\ 1 + (FrameLen - 1) = FrameLen
    BY <1>2
  <2>2. s[FrameLen] = s[1] + (FrameLen - 1)
    BY <2>1 DEF FrameAt
  <2>3. FirstByte(f) + FrameLen - 1 = f * FrameLen /\ FirstByte(f) \in Int /\ FirstByte(f) >= 1
    BY <1>1, FirstBytes DEF Bytes
  <2>4. QED
    BY <1>1, <1>2, <2>2, <2>3
<1>5. s[FrameLen] # Noise /\ FrameLen \in 1 .. Len(s)
  BY <1>2, <1>4 DEF Noise
<1>6. f * FrameLen <= high
  BY <1>4, <1>5 DEF Between
<1>7. ASSUME NEW i \in 1 .. Len(t), t[i] # Noise
      PROVE  f * FrameLen < t[i] /\ t[i] <= high
  <2>1. FrameLen + i \in 1 .. Len(s) /\ t[i] = s[FrameLen + i] /\ FrameLen < FrameLen + i
    BY <1>2, <1>3
  <2>2. QED
    BY <1>4, <1>5, <1>7, <2>1 DEF Between, Ordered
<1>8. Between(t, f * FrameLen, high)
  BY <1>7 DEF Between
<1>9. QED
  BY <1>1, <1>6, <1>8 DEF f, t

\* The end of the stream is not touched as long as something longer is left.
LEMMA DropKeepsEnd ==
  ASSUME NEW s \in Seq(Octet), NEW n \in 1 .. Len(s), NEW last, NEW r \in 0 .. FrameLen - 1,
         Follows(s, last, r), r <= Len(s) - n
  PROVE  Follows(DropFront(s, n), last, r)
<1> DEFINE t == DropFront(s, n)
<1>1. Len(t) = Len(s) - n /\ \A i \in 1 .. Len(s) - n : t[i] = s[n + i]
  BY DropFrontIs
<1>2. Len(s) \in Nat /\ FrameLen \in Nat
  BY Sizes
<1> HIDE DEF t
<1>3. ASSUME NEW k \in 1 .. FrameLen - 1, k <= Len(t)
      PROVE  (Prefix(t, k) <=> Prefix(s, k)) /\ t[Len(t)] = s[Len(s)]
  <2>1. Len(t) \in 1 .. Len(s) - n /\ n + Len(t) = Len(s) /\ k <= Len(s)
    BY <1>1, <1>2, <1>3
  <2>2. t[Len(t)] = s[Len(s)]
    BY <1>1, <2>1
  <2>3. ASSUME NEW j \in 0 .. k - 1
        PROVE  t[Len(t) - k + 1 + j] = s[Len(s) - k + 1 + j]
    <3>1. /\ Len(t) - k + 1 + j \in 1 .. Len(s) - n
          /\ n + (Len(t) - k + 1 + j) = Len(s) - k + 1 + j
      BY <1>1, <1>2, <1>3
    <3>2. QED
      BY <1>1, <3>1
  <2>4. t[Len(t) - k + 1] = s[Len(s) - k + 1]
    <3>1. /\ Len(t) - k + 1 \in 1 .. Len(s) - n
          /\ n + (Len(t) - k + 1) = Len(s) - k + 1
      BY <1>1, <1>2, <1>3
    <3>2. QED
      BY <1>1, <3>1
  <2>5. QED
    BY <1>3, <2>1, <2>2, <2>3, <2>4 DEF Prefix
<1>4. ASSUME NEW k \in 1 .. FrameLen - 1
      PROVE  Prefix(t, k) /\ t[Len(t)] = last <=> r = k
  <2>1. CASE k <= Len(t)
    BY <1>3, <2>1 DEF Follows
  <2>2. CASE ~(k <= Len(t))
    BY <1>1, <1>2, <2>2 DEF Prefix
  <2>3. QED
    BY <2>1, <2>2
<1>5. Follows(t, last, r)
  BY <1>4 DEF Follows
<1>6. QED
  BY <1>5 DEF t

\* What is arriving lies behind the frame in front.
LEMMA EndBehindFrame ==
  ASSUME NEW s \in Seq(Octet), FrameAt(s, 1), NEW r \in 0 .. FrameLen - 1, NEW last,
         Follows(s, last, r)
  PROVE  r <= Len(s) - FrameLen
<1>1. Len(s) \in Nat /\ FrameLen \in Nat /\ FrameLen >= 2 /\ FrameLen <= Len(s)
  BY Sizes DEF FrameAt
<1> SUFFICES ASSUME r > Len(s) - FrameLen PROVE FALSE
  BY <1>1
<1>2. r \in 1 .. FrameLen - 1
  BY <1>1
<1>3. Opens(s[Len(s) - r + 1])
  BY <1>2 DEF Follows, Prefix
<1> DEFINE k == Len(s) - r
<1>4. k \in 1 .. FrameLen - 1 /\ k \in 0 .. FrameLen - 1 /\ 1 + k = Len(s) - r + 1
  BY <1>1, <1>2
<1> HIDE DEF k
<1>5. s[1 + k] = s[1] + k /\ Opens(s[1])
  BY <1>4 DEF FrameAt
<1>6. QED
  BY <1>3, <1>4, <1>5, OpensAlone
\* What ends a stream that begins a frame is a byte of the master.
LEMMA PrefixEnds ==
  ASSUME NEW s \in Seq(Octet), NEW k \in 1 .. FrameLen, Prefix(s, k)
  PROVE  /\ Len(s) \in 1 .. Len(s)
         /\ s[Len(s)] \in Int /\ s[Len(s)] # Noise
         /\ s[Len(s)] = s[Len(s) - k + 1] + (k - 1)
<1>1. Len(s) \in Nat /\ k \in Int /\ 1 <= k /\ k <= Len(s)
  BY Sizes DEF Prefix
<1>2. k - 1 \in 0 .. k - 1 /\ Len(s) - k + 1 + (k - 1) = Len(s)
  BY <1>1
<1>3. s[Len(s)] = s[Len(s) - k + 1] + (k - 1)
  BY <1>2 DEF Prefix
<1>4. s[Len(s) - k + 1] \in Int /\ s[Len(s) - k + 1] >= 1
  BY OpensHasFrame DEF Prefix, Bytes
<1>5. QED
  BY <1>1, <1>3, <1>4 DEF Noise

\* A byte that opens a frame, and any other.
LEMMA PrefixOpens ==
  ASSUME NEW s \in Seq(Octet), NEW b \in Octet
  PROVE  LET t == Append(s, b) IN
         /\ Prefix(t, 1) <=> Opens(b)
         /\ \A k \in 2 .. FrameLen : Prefix(t, k) => ~Opens(b)
<1> DEFINE t == Append(s, b)
<1>1. t \in Seq(Octet) /\ Len(t) = Len(s) + 1 /\ Len(s) \in Nat /\ t[Len(t)] = b
  BY AppendProperties
<1> HIDE DEF t
<1>2. Prefix(t, 1) <=> Opens(b)
  <2>1. Len(t) - 1 + 1 = Len(t) /\ 1 <= Len(t)
    BY <1>1
  <2>2. ASSUME Opens(b), NEW j \in 0 .. 1 - 1
        PROVE  t[Len(t) - 1 + 1 + j] = t[Len(t) - 1 + 1] + j
    <3>1. j = 0 /\ Len(t) - 1 + 1 + j = Len(t)
      BY <1>1
    <3>2. b \in Int
      BY OctetIsInt
    <3>3. QED
      BY <1>1, <2>1, <3>1, <3>2
  <2>3. QED
    BY <1>1, <2>1, <2>2 DEF Prefix
<1>3. ASSUME NEW k \in 2 .. FrameLen, Prefix(t, k) PROVE ~Opens(b)
  <2>1. k \in 1 .. FrameLen /\ k - 1 \in 1 .. FrameLen - 1
    BY Sizes
  <2>2. b = t[Len(t) - k + 1] + (k - 1)
    BY <1>1, <1>3, <2>1, PrefixEnds
  <2>3. Opens(t[Len(t) - k + 1])
    BY <1>3 DEF Prefix
  <2>4. QED
    BY <2>1, <2>2, <2>3, OpensAlone
<1>4. QED
  BY <1>2, <1>3 DEF t

LEMMA PrefixGrows ==
  ASSUME NEW s \in Seq(Octet), NEW b \in Octet, NEW k \in 2 .. FrameLen
  PROVE  Prefix(Append(s, b), k) <=> Prefix(s, k - 1) /\ s[Len(s)] = b - 1
<1> DEFINE t == Append(s, b)
           h == k - 1
<1>1. /\ t \in Seq(Octet) /\ Len(t) = Len(s) + 1 /\ Len(s) \in Nat /\ t[Len(t)] = b
      /\ \A i \in 1 .. Len(s) : t[i] = s[i]
  BY AppendProperties
<1>2. h \in 1 .. FrameLen /\ k = h + 1 /\ b \in Int /\ h \in Int /\ h >= 1 /\ k \in 1 .. FrameLen
  BY OctetIsInt, Sizes
<1> HIDE DEF t, h
<1>3. Len(t) - k + 1 = Len(s) - h + 1 /\ (k <= Len(t) <=> h <= Len(s))
  BY <1>1, <1>2
<1>4. CASE ~(h <= Len(s))
  BY <1>3, <1>4 DEF Prefix, t, h
<1>5. CASE h <= Len(s)
  <2> DEFINE x == Len(s) - h + 1
  <2>1. x \in 1 .. Len(s) /\ x + (h - 1) = Len(s) /\ x + h = Len(t) /\ t[x] = s[x]
    BY <1>1, <1>2, <1>5
  <2>2. \A j \in 0 .. h - 1 : x + j \in 1 .. Len(s) /\ t[x + j] = s[x + j]
    BY <1>1, <1>2, <1>5, <2>1
  <2>3. x = Len(s) - h + 1 /\ x = Len(t) - k + 1
    BY <1>3
  <2> HIDE DEF x
  <2>4. ASSUME Prefix(t, k) PROVE Prefix(s, h) /\ s[Len(s)] = b - 1
    <3>1. Opens(t[x]) /\ \A j \in 0 .. k - 1 : t[x + j] = t[x] + j
      BY <2>3, <2>4 DEF Prefix
    <3>2. t[x] \in Int
      BY <3>1, OpensHasFrame DEF Bytes
    <3>3. \A j \in 0 .. h - 1 : s[x + j] = s[x] + j
      <4> TAKE j \in 0 .. h - 1
      <4>1. j \in 0 .. k - 1
        BY <1>2
      <4>2. QED
        BY <2>1, <2>2, <3>1, <4>1
    <3>4. Prefix(s, h)
      BY <1>5, <2>1, <2>3, <3>1, <3>3 DEF Prefix
    <3>5. h \in 0 .. k - 1 /\ h - 1 \in 0 .. h - 1
      BY <1>2
    <3>6. b = t[x] + h /\ s[Len(s)] = s[x] + (h - 1)
      BY <1>1, <2>1, <3>1, <3>3, <3>5
    <3>7. QED
      BY <1>2, <2>1, <3>2, <3>4, <3>6
  <2>5. ASSUME Prefix(s, h), s[Len(s)] = b - 1 PROVE Prefix(t, k)
    <3>1. Opens(s[x]) /\ \A j \in 0 .. h - 1 : s[x + j] = s[x] + j
      BY <2>3, <2>5 DEF Prefix
    <3>2. s[x] \in Int
      BY <3>1, OpensHasFrame DEF Bytes
    <3>3. h - 1 \in 0 .. h - 1 /\ s[Len(s)] = s[x] + (h - 1)
      BY <1>2, <2>1, <3>1
    <3>4. b = s[x] + h
      BY <1>2, <2>5, <3>2, <3>3
    <3>5. ASSUME NEW j \in 0 .. k - 1 PROVE t[x + j] = t[x] + j
      <4>1. j \in 0 .. h - 1 \/ j = h
        BY <1>2
      <4>2. CASE j \in 0 .. h - 1
        BY <2>1, <2>2, <3>1, <4>2
      <4>3. CASE j = h
        BY <1>1, <2>1, <3>4, <4>3
      <4>4. QED
        BY <4>1, <4>2, <4>3
    <3>6. QED
      BY <1>3, <1>5, <2>1, <2>3, <3>1, <3>5 DEF Prefix
  <2>6. QED
    BY <2>4, <2>5 DEF t, h
<1>6. QED
  BY <1>4, <1>5

\* A byte that is lost, spoilt or received, and the frame that was arriving.
LEMMA EndLost ==
  ASSUME NEW s \in Seq(Octet), NEW low, NEW high \in Int, Between(s, low, high)
  PROVE  Follows(s, high + 1, 0)
<1>1. ASSUME NEW k \in 1 .. FrameLen - 1, Prefix(s, k), s[Len(s)] = high + 1 PROVE FALSE
  <2>1. k \in 1 .. FrameLen
    BY Sizes
  <2>2. s[Len(s)] <= high
    BY <1>1, <2>1, PrefixEnds DEF Between
  <2>3. QED
    BY <1>1, <2>2
<1>2. \A k \in 1 .. FrameLen - 1 : 0 # k
  OBVIOUS
<1>3. QED
  BY <1>1, <1>2 DEF Follows

LEMMA EndSpoilt ==
  ASSUME NEW s \in Seq(Octet), NEW last
  PROVE  Follows(Append(s, Noise), last, 0)
<1>1. Append(s, Noise) \in Seq(Octet) /\ Append(s, Noise)[Len(Append(s, Noise))] = Noise
  BY AppendProperties, OctetIsInt
<1>2. ASSUME NEW k \in 1 .. FrameLen - 1 PROVE ~Prefix(Append(s, Noise), k)
  <2>1. k \in 1 .. FrameLen
    BY Sizes
  <2>2. QED
    BY <1>1, <2>1, PrefixEnds
<1>3. \A k \in 1 .. FrameLen - 1 : 0 # k
  OBVIOUS
<1>4. QED
  BY <1>2, <1>3 DEF Follows

LEMMA EndReceived ==
  ASSUME NEW s \in Seq(Octet), NEW last \in Int, last + 1 \in Octet,
         NEW r \in 0 .. FrameLen - 1, Follows(s, last, r)
  PROVE  LET length == IF Opens(last + 1) THEN 1 ELSE IF r = 0 THEN 0 ELSE r + 1
             t == Append(s, last + 1)
         IN  /\ Follows(t, last + 1, IF length = FrameLen THEN 0 ELSE length)
             /\ Prefix(t, FrameLen) <=> length = FrameLen
<1> DEFINE b == last + 1
           t == Append(s, b)
           length == IF Opens(b) THEN 1 ELSE IF r = 0 THEN 0 ELSE r + 1
           q == IF length = FrameLen THEN 0 ELSE length
<1>1. t[Len(t)] = b /\ b \in Octet /\ b - 1 = last /\ FrameLen \in Nat /\ FrameLen >= 2 /\ r \in Int
  BY AppendProperties, Sizes
<1> HIDE DEF b, t
<1>2. /\ Prefix(t, 1) <=> Opens(b)
      /\ \A k \in 2 .. FrameLen : Prefix(t, k) => ~Opens(b)
      /\ \A k \in 2 .. FrameLen : Prefix(t, k) <=> Prefix(s, k - 1) /\ s[Len(s)] = last
  BY <1>1, PrefixOpens, PrefixGrows DEF t
<1>3. \A k \in 2 .. FrameLen : Prefix(t, k) <=> r = k - 1
  <2>1. \A k \in 2 .. FrameLen : k - 1 \in 1 .. FrameLen - 1
    BY <1>1
  <2>2. QED
    BY <1>2, <2>1 DEF Follows
<1>4. \A k \in 2 .. FrameLen : Prefix(t, k) <=> length = k
  <2>1. CASE Opens(b)
    BY <1>2, <2>1
  <2>2. CASE ~Opens(b)
    BY <1>1, <1>3, <2>2
  <2>3. QED
    BY <2>1, <2>2
<1>5. Prefix(t, FrameLen) <=> length = FrameLen
  BY <1>1, <1>4, FrameLen \in 2 .. FrameLen
<1>6. ASSUME NEW k \in 1 .. FrameLen - 1
      PROVE  Prefix(t, k) /\ t[Len(t)] = b <=> q = k
  <2>1. CASE k = 1
    <3>1. length = 1 <=> Opens(b)
      BY <1>1
    <3>2. QED
      BY <1>1, <1>2, <2>1, <3>1
  <2>2. CASE k \in 2 .. FrameLen - 1
    BY <1>1, <1>4, <2>2
  <2>3. k = 1 \/ k \in 2 .. FrameLen - 1
    BY <1>1
  <2>4. QED
    BY <2>1, <2>2, <2>3
<1>7. Follows(t, b, q)
  BY <1>6 DEF Follows
<1>8. QED
  BY <1>5, <1>7 DEF b, t
LEMMA StreamType ==
  ASSUME TypeOK
  PROVE  /\ Stream \in Seq(Octet) /\ rx \o bytes \in Seq(Octet)
         /\ rx \in Seq(Octet) /\ bytes \in Seq(Octet) /\ ring \in Seq(Octet)
         /\ sent \in Int /\ sent >= 0 /\ latest \in Int /\ run \in 0 .. FrameLen - 1
         /\ latest * FrameLen \in Int
<1>1. latest \in Int /\ sent \in Int /\ sent >= 0
  BY Sizes DEF TypeOK, Answerable, Frames, None
<1>2. latest * FrameLen \in Int
  BY <1>1, Products
<1>3. QED
  BY <1>1, <1>2, ConcatProperties DEF TypeOK, Stream, Octet

\* What the interrupt adds to the stream.
LEMMA StreamReceives ==
  ASSUME TypeOK, StreamInv, Receive \/ LineError
  PROVE  StreamInv'
<1>1. /\ UNCHANGED <<serverVars, bytes>>
      /\ UNCHANGED <<sent, ring, run, intact>> \/ LosesByte \/ AddsNoise \/ AddsByte
  BY Receives DEF mainVars
<1>2. intact * FrameLen + run <= sent
  BY DEF StreamInv
<1>3. intact' * FrameLen + run' <= sent'
  BY <1>1, <1>2, CountGrows
<1>4. latest' = latest /\ rx' = rx
  BY <1>1 DEF serverVars
<1> DEFINE s == Stream
           low == latest * FrameLen
<1>5. /\ s \in Seq(Octet) /\ Len(s) \in Nat /\ low \in Int /\ sent \in Int /\ sent + 1 \in Int
      /\ \A i \in 1 .. Len(s) : s[i] \in Int
  <2>1. s \in Seq(Octet)
    BY StreamType
  <2>2. \A i \in 1 .. Len(s) : s[i] \in Octet
    BY <2>1, ElementOfSeq
  <2>3. \A i \in 1 .. Len(s) : s[i] \in Int
    BY <2>2, OctetIsInt
  <2>4. sent \in Int /\ low \in Int
    BY StreamType
  <2>5. QED
    BY <2>1, <2>3, <2>4
<1>6. Ordered(s) /\ low <= sent /\ Between(s, low, sent) /\ Follows(s, sent, run)
  BY DEF StreamInv
<1>7. ASSUME NEW b, ring' = Append(ring, b), b \in Octet
      PROVE  Stream' = Append(s, b)
  BY <1>1, <1>4, <1>7, AppendOfConcat, StreamType DEF Stream
<1>8. CASE UNCHANGED <<sent, ring, run, intact>>
  BY <1>1, <1>4, <1>8 DEF StreamInv, Stream
<1>9. CASE LosesByte
  <2>1. sent' = sent + 1 /\ run' = 0 /\ Stream' = s
    BY <1>1, <1>4, <1>9 DEF LosesByte, Stream
  <2>2. Follows(s, sent + 1, 0)
    BY <1>5, <1>6, EndLost
  <2>3. low <= sent + 1 /\ Between(s, low, sent + 1)
    BY <1>5, <1>6 DEF Between
  <2>4. QED
    BY <1>3, <1>4, <1>6, <2>1, <2>2, <2>3 DEF StreamInv
<1>10. CASE AddsNoise
  <2>1. /\ sent' \in Int /\ sent <= sent' /\ run' = 0 /\ Stream' = Append(s, Noise)
    BY <1>5, <1>7, <1>10, OctetIsInt DEF AddsNoise
  <2> DEFINE t == Append(s, Noise)
  <2>2. /\ Len(t) = Len(s) + 1 /\ t[Len(s) + 1] = Noise
        /\ \A i \in 1 .. Len(s) : t[i] = s[i]
    BY <1>5, OctetIsInt, AppendProperties
  <2>3. Follows(t, sent', 0)
    BY <1>5, EndSpoilt
  <2> HIDE DEF t
  <2>4. \A i \in 1 .. Len(t) : t[i] # Noise => i \in 1 .. Len(s)
    BY <1>5, <2>2
  <2>5. Ordered(t)
    BY <1>6, <2>2, <2>4 DEF Ordered
  <2>6. low <= sent' /\ Between(t, low, sent')
    BY <1>5, <1>6, <2>1, <2>2, <2>4 DEF Between
  <2>7. QED
    BY <1>3, <1>4, <2>1, <2>3, <2>5, <2>6 DEF StreamInv, t
<1>11. CASE AddsByte
  <2> DEFINE b == sent + 1
             t == Append(s, b)
  <2>1. b \in Octet
    <3>1. b \in 1 .. MaxBytes
      BY <1>5, <1>11, StreamType, Sizes DEF AddsByte
    <3>2. QED
      BY <3>1 DEF Octet, Bytes, MaxBytes
  <2>2. sent' = b /\ Stream' = t
    BY <1>7, <1>11, <2>1 DEF AddsByte
  <2>3. /\ Len(t) = Len(s) + 1 /\ t[Len(s) + 1] = b
        /\ \A i \in 1 .. Len(s) : t[i] = s[i]
    BY <1>5, <2>1, AppendProperties
  <2>4. Follows(t, b, run')
    BY <1>5, <1>6, <1>11, <2>1, EndReceived, StreamType DEF AddsByte
  <2>5. low < b /\ sent < b /\ b \in Int
    BY <1>5, <1>6
  <2> HIDE DEF t, b
  <2>6. \A i \in 1 .. Len(t) : i \in 1 .. Len(s) \/ i = Len(s) + 1
    BY <1>5, <2>3
  <2>7. Ordered(t)
    <3>1. ASSUME NEW i \in 1 .. Len(t), NEW j \in 1 .. Len(t), i < j, t[i] # Noise, t[j] # Noise
          PROVE  t[i] < t[j]
      <4>1. i \in 1 .. Len(s)
        BY <1>5, <2>3, <2>6, <3>1
      <4>2. CASE j \in 1 .. Len(s)
        BY <1>6, <2>3, <3>1, <4>1, <4>2 DEF Ordered
      <4>3. CASE j = Len(s) + 1
        BY <1>5, <1>6, <2>3, <2>5, <3>1, <4>1, <4>3 DEF Between
      <4>4. QED
        BY <2>6, <4>2, <4>3
    <3>2. QED
      BY <3>1 DEF Ordered
  <2>8. Between(t, low, b)
    <3>1. ASSUME NEW i \in 1 .. Len(t), t[i] # Noise PROVE low < t[i] /\ t[i] <= b
      <4>1. CASE i \in 1 .. Len(s)
        BY <1>5, <1>6, <2>3, <2>5, <3>1, <4>1 DEF Between
      <4>2. CASE i = Len(s) + 1
        BY <2>3, <2>5, <4>2
      <4>3. QED
        BY <2>6, <4>1, <4>2
    <3>2. QED
      BY <3>1 DEF Between
  <2>9. low <= b
    BY <1>5, <2>5
  <2>10. QED
    BY <1>3, <1>4, <2>2, <2>4, <2>7, <2>8, <2>9 DEF StreamInv
<1>12. QED
  BY <1>1, <1>8, <1>9, <1>10, <1>11

\* What the server takes off the stream.
LEMMA StreamParse ==
  ASSUME TypeOK, StreamInv, Parse
  PROVE  StreamInv'
<1>1. UNCHANGED <<sent, run, intact>>
  BY DEF Parse, lineVars
<1>2. Stream \in Seq(Octet) /\ Len(Stream) \in Nat /\ FrameLen \in Nat /\ FrameLen >= 2
      /\ run \in 0 .. FrameLen - 1
  BY StreamType, Sizes
<1>3. /\ Ordered(Stream) /\ Between(Stream, latest * FrameLen, sent) /\ Follows(Stream, sent, run)
      /\ latest * FrameLen <= sent /\ intact * FrameLen + run <= sent
  BY DEF StreamInv
<1>4. CASE Kept
  BY <1>1, <1>4 DEF Kept, StreamInv
<1>5. CASE DropsOne
  <2>1. 1 \in 1 .. Len(Stream) /\ run <= Len(Stream) - 1
    BY <1>2, <1>5 DEF DropsOne
  <2>2. /\ Ordered(DropFront(Stream, 1))
        /\ Between(DropFront(Stream, 1), latest * FrameLen, sent)
        /\ Follows(DropFront(Stream, 1), sent, run)
    BY <1>2, <1>3, <2>1, DropKeepsOrder, DropKeepsBetween, DropKeepsEnd
  <2>3. QED
    BY <1>1, <1>3, <1>5, <2>2 DEF DropsOne, StreamInv
<1>6. CASE DropsFrame
  <2> DEFINE f == FrameOf(Stream[1])
             t == DropFront(Stream, FrameLen)
  <2>1. FrameAt(Stream, 1) /\ Stream' = t
    BY <1>6 DEF DropsFrame
  <2>2. FrameLen \in 1 .. Len(Stream)
    BY <1>2, <2>1 DEF FrameAt
  <2>3. run <= Len(Stream) - FrameLen
    BY <1>2, <1>3, <2>1, EndBehindFrame
  <2>4. /\ Ordered(t)
        /\ Between(t, latest * FrameLen, sent)
        /\ Follows(t, sent, run)
    BY <1>2, <1>3, <2>2, <2>3, DropKeepsOrder, DropKeepsBetween, DropKeepsEnd
  <2>5. f * FrameLen <= sent /\ Between(t, f * FrameLen, sent)
    BY <1>2, <1>3, <2>1, BehindFrame
  <2>6. latest' = latest \/ latest' = f
    BY <1>6, ParseStream DEF Kept, DropsOne, DropsFrame, SkipForeign, LatchStop, Enqueue
  <2> HIDE DEF f, t
  <2>7. latest' * FrameLen <= sent /\ Between(t, latest' * FrameLen, sent)
    BY <1>3, <2>4, <2>5, <2>6
  <2>8. QED
    BY <1>1, <1>3, <2>1, <2>4, <2>7 DEF StreamInv
<1>7. QED
  BY <1>4, <1>5, <1>6, ParseStream

LEMMA StreamStep ==
  ASSUME TypeOK, Drained, StreamInv, [Next]_vars
  PROVE  StreamInv'
<1>1. CASE UNCHANGED <<Stream, latest, sent, run, intact>>
  BY <1>1 DEF StreamInv
<1>2. CASE Drain
  <2>1. /\ bytes = <<>> /\ bytes' = ring /\ ring' = <<>> /\ rx' = rx
        /\ UNCHANGED <<latest, sent, run, intact>>
    BY <1>2 DEF Drain, Drained, serverVars, lineVars
  <2>2. rx \o <<>> = rx /\ (rx \o ring) \o <<>> = rx \o ring
    <3>1. rx \in Seq(Octet) /\ rx \o ring \in Seq(Octet)
      BY StreamType, ConcatProperties
    <3>2. QED
      BY <3>1, ConcatEmptySeq
  <2>3. Stream' = Stream
    BY <2>1, <2>2 DEF Stream
  <2>4. QED
    BY <1>1, <2>1, <2>3
<1>3. CASE LinkEvent
  BY <1>1, <1>3 DEF LinkEvent, CompleteResponse, serverVars, lineVars, Stream
<1>4. CASE ServeStop \/ ServeNormal
  BY <1>1, <1>4 DEF ServeStop, ServeNormal, TakeStop, ProcessPending, serverVars, irqVars,
       lineVars, Stream
<1>5. CASE Claim \/ AbortReceive \/ Transmit \/ Started \/ Refused
  BY <1>1, <1>5 DEF Claim, AbortReceive, Transmit, Started, Refused, serverVars, irqVars,
       lineVars, Stream
<1>6. CASE TxComplete \/ UNCHANGED vars
  BY <1>1, <1>6 DEF TxComplete, vars, serverVars, irqVars, mainVars, lineVars, Stream
<1>7. QED
  BY <1>2, <1>3, <1>4, <1>5, <1>6, StreamParse, StreamReceives DEF Next, Main, Environment
-----------------------------------------------------------------------------
(* The count of the frames.                                                *)

LEMMA FramesAre ==
  NoFrameLost <=> intact = count["valid"] + count["wrong"] + Cardinality(Whole(Stream))
  BY DEF NoFrameLost, Stream

LEMMA FrameCountTypes ==
  ASSUME TypeOK
  PROVE  /\ count["valid"] \in Nat /\ count["wrong"] \in Nat /\ intact \in Nat
         /\ Cardinality(Whole(Stream)) \in Nat
         /\ count \in [Counters -> Nat]
         /\ {"valid", "wrong", "duplicate", "full", "discarded", "unanswered"} \subseteq Counters
<1>1. count \in [Counters -> Nat] /\ intact \in Nat
  BY DEF TypeOK
<1>2. Cardinality(Whole(Stream)) \in Nat
  BY StreamType, WholeIsFinite
<1>3. QED
  BY <1>1, <1>2 DEF Counters

\* A byte of the master that reaches the ring completes a frame when its length says so.
LEMMA FramesReceive ==
  ASSUME TypeOK, StreamInv, NoFrameLost, Receive \/ LineError
  PROVE  NoFrameLost'
<1>1. /\ UNCHANGED <<count, rx, bytes>>
      /\ UNCHANGED <<sent, ring, run, intact>> \/ LosesByte \/ AddsNoise \/ AddsByte
  BY Receives DEF serverVars, mainVars
<1> DEFINE s == Stream
           n == Cardinality(Whole(s))
<1>2. s \in Seq(Octet) /\ Len(s) \in Nat /\ FrameLen \in Nat /\ FrameLen >= 2
  BY StreamType, Sizes
<1>3. intact = count["valid"] + count["wrong"] + n
  BY FramesAre
<1>4. SUFFICES \/ intact' = intact /\ Cardinality(Whole(Stream')) = n
               \/ intact' = intact + 1 /\ Cardinality(Whole(Stream')) = n + 1
  BY <1>1, <1>3, FrameCountTypes DEF NoFrameLost, Stream
<1>5. ASSUME NEW b, ring' = Append(ring, b), b \in Octet
      PROVE  /\ Stream' = Append(s, b)
             /\ Cardinality(Whole(Stream')) =
                  IF Prefix(Append(s, b), FrameLen) THEN n + 1 ELSE n
  <2> DEFINE t == Append(s, b)
  <2>1. Stream' = t
    BY <1>1, <1>5, AppendOfConcat, StreamType DEF Stream
  <2>2. Len(t) = Len(s) + 1
    BY <1>2, <1>5, AppendProperties
  <2>3. Cardinality(Whole(t)) = IF FrameAt(t, Len(t) - FrameLen + 1) /\ Len(t) >= FrameLen
                                THEN n + 1 ELSE n
    BY <1>2, <1>5, WholeAppend
  <2> HIDE DEF t
  <2>4. (Len(t) - FrameLen + 1) + FrameLen - 1 <= Len(t)
    BY <1>2, <2>2
  <2>5. FrameAt(t, Len(t) - FrameLen + 1) /\ Len(t) >= FrameLen <=> Prefix(t, FrameLen)
    BY <1>2, <2>2, <2>4 DEF FrameAt, Prefix
  <2>6. QED
    BY <2>1, <2>3, <2>5 DEF t
<1>6. CASE UNCHANGED <<ring, intact>>
  BY <1>1, <1>6 DEF Stream
<1>7. CASE AddsNoise
  <2>1. ring' = Append(ring, Noise) /\ intact' = intact /\ Noise \in Octet
    BY <1>7, OctetIsInt DEF AddsNoise
  <2>2. ~Prefix(Append(s, Noise), FrameLen)
    <3>1. Append(s, Noise) \in Seq(Octet) /\ Append(s, Noise)[Len(Append(s, Noise))] = Noise
      BY <1>2, <2>1, AppendProperties
    <3>2. QED
      BY <1>2, <3>1, PrefixEnds, FrameLen \in 1 .. FrameLen
  <2>3. QED
    BY <1>5, <2>1, <2>2
<1>8. CASE AddsByte
  <2> DEFINE length == IF Opens(sent + 1) THEN 1 ELSE IF run = 0 THEN 0 ELSE run + 1
  <2>1. sent + 1 \in Octet
    <3>1. sent \in Int /\ sent >= 0 /\ MaxBytes \in Int /\ sent < MaxBytes
      BY <1>8, StreamType, Sizes DEF AddsByte
    <3>2. sent + 1 \in 1 .. MaxBytes
      BY <3>1
    <3>3. QED
      BY <3>2 DEF Octet, Bytes, MaxBytes
  <2>2. Prefix(Append(s, sent + 1), FrameLen) <=> length = FrameLen
    <3>1. Follows(s, sent, run)
      BY DEF StreamInv
    <3>2. QED
      BY <1>2, <2>1, <3>1, EndReceived, StreamType
  <2>3. ring' = Append(ring, sent + 1)
        /\ intact' = IF length = FrameLen THEN intact + 1 ELSE intact
    BY <1>8 DEF AddsByte
  <2> HIDE DEF length, n
  <2>4. QED
    BY <1>5, <2>1, <2>2, <2>3
<1>9. QED
  BY <1>1, <1>6, <1>7, <1>8 DEF LosesByte

\* A frame leaves the stream exactly when it is counted.
LEMMA FramesParse ==
  ASSUME TypeOK, NoFrameLost, Parse
  PROVE  NoFrameLost'
<1> DEFINE buffer == Append(rx, Head(bytes))
<1>1. intact' = intact /\ intact = count["valid"] + count["wrong"] + Cardinality(Whole(Stream))
  BY FramesAre DEF Parse, lineVars
<1>2. CASE Kept
  BY <1>1, <1>2 DEF Kept, NoFrameLost, Stream
<1>3. Stream \in Seq(Octet) /\ Len(Stream) \in Nat /\ FrameLen >= 2 /\ FrameLen \in Nat
  BY StreamType, Sizes
<1>4. CASE DropsOne
  <2>1. Cardinality(Whole(DropFront(Stream, 1))) = Cardinality(Whole(Stream))
    BY <1>3, <1>4, WholeDropOne DEF DropsOne
  <2>2. Cardinality(Whole(Stream')) = Cardinality(Whole(Stream)) /\ count' = count
    BY <1>4, <2>1 DEF DropsOne
  <2>3. QED
    BY <1>1, <2>2 DEF NoFrameLost, Stream
<1>5. CASE DropsFrame /\ (SkipForeign(buffer) \/ LatchStop(buffer) \/ Enqueue(buffer))
  <2>1. Cardinality(Whole(Stream)) = Cardinality(Whole(DropFront(Stream, FrameLen))) + 1
    BY <1>3, <1>5, WholeDropFrame DEF DropsFrame
  <2>2. Cardinality(Whole(Stream)) = Cardinality(Whole(Stream')) + 1
    BY <1>5, <2>1 DEF DropsFrame
  <2>3. \/ count'["valid"] = count["valid"] + 1 /\ count'["wrong"] = count["wrong"]
        \/ count'["valid"] = count["valid"] /\ count'["wrong"] = count["wrong"] + 1
    BY <1>5, FrameCountTypes DEF SkipForeign, LatchStop, Enqueue
  <2>4. Cardinality(Whole(Stream')) \in Nat
    <3>1. Stream' = DropFront(Stream, FrameLen) /\ FrameLen \in 1 .. Len(Stream)
      BY <1>3, <1>5 DEF DropsFrame, FrameAt
    <3>2. Stream' \in Seq(Octet)
      BY <1>3, <3>1, DropFrontIs
    <3>3. QED
      BY <3>2, WholeIsFinite
  <2>5. intact' = count'["valid"] + count'["wrong"] + Cardinality(Whole(Stream'))
    BY <1>1, <2>2, <2>3, <2>4, FrameCountTypes
  <2>6. QED
    BY <2>5 DEF NoFrameLost, Stream
<1>6. QED
  BY <1>2, <1>4, <1>5, ParseStream

LEMMA FramesStep ==
  ASSUME TypeOK, Drained, StreamInv, NoFrameLost, [Next]_vars
  PROVE  NoFrameLost'
<1>1. CASE Stream' = Stream /\ intact' = intact /\ count'["valid"] = count["valid"]
           /\ count'["wrong"] = count["wrong"]
  BY <1>1 DEF NoFrameLost, Stream
<1>2. CASE Drain
  <2>1. /\ bytes = <<>> /\ bytes' = ring /\ ring' = <<>> /\ rx' = rx /\ UNCHANGED <<count, intact>>
    BY <1>2 DEF Drain, Drained, serverVars, lineVars
  <2>2. rx \o <<>> = rx /\ (rx \o ring) \o <<>> = rx \o ring
    <3>1. rx \in Seq(Octet) /\ rx \o ring \in Seq(Octet)
      BY StreamType, ConcatProperties
    <3>2. QED
      BY <3>1, ConcatEmptySeq
  <2>3. Stream' = Stream
    BY <2>1, <2>2 DEF Stream
  <2>4. QED
    BY <1>1, <2>1, <2>3
<1>3. CASE LinkEvent
  BY <1>1, <1>3 DEF LinkEvent, CompleteResponse, serverVars, lineVars, Stream
<1>4. CASE ServeStop
  <2>1. UNCHANGED <<rx, bytes, ring, intact>>
    BY <1>4 DEF ServeStop, TakeStop, serverVars, irqVars, lineVars
  <2>2. count'["valid"] = count["valid"] /\ count'["wrong"] = count["wrong"]
    BY <1>4, FrameCountTypes DEF ServeStop, TakeStop, serverVars
  <2>3. QED
    BY <1>1, <2>1, <2>2 DEF Stream
<1>5. CASE ServeNormal
  BY <1>1, <1>5 DEF ServeNormal, ProcessPending, serverVars, irqVars, lineVars, Stream
<1>6. CASE Claim \/ AbortReceive \/ Transmit \/ Started \/ Refused
  BY <1>1, <1>6 DEF Claim, AbortReceive, Transmit, Started, Refused, serverVars, irqVars,
       lineVars, Stream
<1>7. CASE TxComplete \/ UNCHANGED vars
  BY <1>1, <1>7 DEF TxComplete, vars, serverVars, irqVars, mainVars, lineVars, Stream
<1>8. QED
  BY <1>2, <1>3, <1>4, <1>5, <1>6, <1>7, FramesParse, FramesReceive DEF Next, Main, Environment

-----------------------------------------------------------------------------
(* The theorems.                                                           *)

\* What every reachable state of the port satisfies.
Inv ==
    /\ TypeOK
    /\ Drained
    /\ LineInv
    /\ QuietInv
    /\ OrderInv
    /\ StreamInv
    /\ NoFrameLost
    /\ Accounted

LEMMA InvInit == Init => Inv
<1> SUFFICES ASSUME Init PROVE Inv
  OBVIOUS
<1>1. /\ <<>> \in Seq(Octet) /\ <<>> \in Seq(Frames) /\ Len(<<>>) = 0
      /\ <<>> \o <<>> = <<>> /\ Stream = <<>>
  <2>1. <<>> \in Seq(Octet) /\ <<>> \in Seq(Frames) /\ Len(<<>>) = 0
    BY EmptySeq
  <2>2. <<>> \o <<>> = <<>>
    BY <2>1, ConcatEmptySeq
  <2>3. QED
    BY <2>1, <2>2 DEF Init, ServerInit, Stream
<1>2. TypeOK
  <2>1. kind \in [Frames -> Kinds] /\ count \in [Counters -> Nat] /\ done \in [stop : Nat, normal : Nat]
    BY DEF Init, ServerInit
  <2>2. /\ ring \in Seq(Octet) /\ Len(ring) < RingCapacity
        /\ bytes \in Seq(Octet) /\ Len(bytes) < RingCapacity
        /\ rx \in Seq(Octet) /\ Len(rx) < FrameLen
        /\ queue \in Seq(Frames) /\ Len(queue) <= QueueCapacity
    BY <1>1, Sizes DEF Init, ServerInit
  <2>3. /\ sent \in 0 .. MaxBytes /\ noise \in 0 .. MaxNoise
        /\ run \in 0 .. FrameLen - 1 /\ intact \in 0 .. MaxFrames
    BY Sizes DEF Init
  <2>4. {de, armed, active, early} \subseteq BOOLEAN
    BY PortAssumption DEF Init
  <2>5. {stop, response, priority, latest, barrier, executed, tx, answered} \subseteq Answerable
    BY DEF Init, ServerInit, Answerable
  <2>6. events \subseteq Events /\ taken \subseteq Events /\ pc = "drain"
    BY DEF Init
  <2>7. QED
    BY <2>1, <2>2, <2>3, <2>4, <2>5, <2>6 DEF TypeOK, Octet
<1>3. Drained /\ LineInv /\ QuietInv
  BY DEF Init, ServerInit, Drained, LineInv, LineHandedOver, QuietInv, AnswerWhole, DriverHeld
<1>4. OrderInv
  BY <1>1 DEF Init, ServerInit, OrderInv, None
<1>5. StreamInv
  <2>1. latest * FrameLen = 0 /\ intact * FrameLen + run = 0 /\ sent = 0 /\ run = 0
    BY Sizes DEF Init, ServerInit, None
  <2>2. \A k \in 1 .. FrameLen - 1 : ~Prefix(<<>>, k) /\ 0 # k
    BY <1>1 DEF Prefix
  <2>3. QED
    BY <1>1, <2>1, <2>2 DEF StreamInv, Ordered, Between, Follows
<1>6. NoFrameLost
  <2>1. Whole(<<>>) = {}
    <3>1. Whole(<<>>) = {i \in 1 .. Len(<<>>) : FrameAt(<<>>, i)}
      BY <1>1, WholeIsFrames
    <3>2. 1 .. Len(<<>>) = {}
      BY <1>1
    <3>3. QED
      BY <3>1, <3>2
  <2>2. Cardinality(Whole(Stream)) = 0
    BY <1>1, <2>1, FS_EmptySet
  <2>3. intact = 0 /\ count["valid"] = 0 /\ count["wrong"] = 0
    BY DEF Init, ServerInit, Counters
  <2>4. QED
    BY <2>2, <2>3, FramesAre
<1>7. Accounted
  <2>1. /\ count["valid"] = 0 /\ count["duplicate"] = 0 /\ count["full"] = 0
        /\ count["discarded"] = 0 /\ done.stop = 0 /\ done.normal = 0 /\ Len(queue) = 0
        /\ Latched = 0
    BY <1>1 DEF Init, ServerInit, Counters, Latched
  <2>2. QED
    BY <2>1, AccountedIs DEF Balance
<1>8. QED
  BY <1>2, <1>3, <1>4, <1>5, <1>6, <1>7 DEF Inv

LEMMA InvStep == Inv /\ [Next]_vars => Inv'
<1> SUFFICES ASSUME Inv, [Next]_vars PROVE Inv'
  OBVIOUS
<1>1. TypeOK'
  BY TypeStep DEF Inv, StreamInv
<1>2. Drained' /\ LineInv' /\ QuietInv'
  BY DrainedStep, LineStep, QuietStep DEF Inv
<1>3. OrderInv' /\ StreamInv'
  BY OrderStep, StreamStep DEF Inv
<1>4. NoFrameLost' /\ Accounted'
  BY FramesStep, AccountStep DEF Inv
<1>5. QED
  BY <1>1, <1>2, <1>3, <1>4 DEF Inv

LEMMA Invariance == Spec => []Inv
  BY InvInit, InvStep, PTL DEF Spec

\* Every variable of the port stays in its domain: rx_buffer is never filled, the
\* request queue and the ring never exceed their capacities.
THEOREM TypeCorrect == Spec => []TypeOK
<1>1. Inv => TypeOK
  BY DEF Inv
<1>2. QED
  BY <1>1, Invariance, PTL

\* Every frame that reached the ring unbroken was extracted by TryExtractRequest or is
\* whole in what is still to be processed, whatever noise, lost bytes and a full ring
\* put before it.
THEOREM NoFrameIsLost == Spec => []NoFrameLost
<1>1. Inv => NoFrameLost
  BY DEF Inv
<1>2. QED
  BY <1>1, Invariance, PTL

\* Every request the snapshot counts as valid was executed, waits, or is in exactly one
\* of the counters of lost requests.
THEOREM RequestsAccounted == Spec => []Accounted
<1>1. Inv => Accounted
  BY DEF Inv
<1>2. QED
  BY <1>1, Invariance, PTL

\* Answers leave in the order of their requests, also those of a STOP.
THEOREM AnswersOrdered == Spec => []AnswersInOrder
<1>1. Inv => AnswersInOrder
  BY InOrder DEF Inv
<1>2. QED
  BY <1>1, Invariance, PTL

\* The receive is off and DE on only around a transmission, with line errors too.
THEOREM HandsLineOver == Spec => []LineHandedOver
<1>1. Inv => LineHandedOver
  BY DEF Inv, LineInv
<1>2. QED
  BY <1>1, Invariance, PTL

\* Until the first line error, DE is held and server->response unchanged while HAL
\* transmits it.
THEOREM AnswersWhole == Spec => []AnswersLeaveWhole
<1>1. Inv => AnswersLeaveWhole
  BY DEF Inv, QuietInv, AnswersLeaveWhole
<1>2. QED
  BY <1>1, Invariance, PTL
\* Requests are executed in the order they were sent, and after a STOP no normal request
\* that was extracted before it (TakeStop's empty queue, ProcessPending's wait).
THEOREM StopBarrier == Spec => StopIsBarrier
<1>1. ASSUME Inv, [Next]_vars, executed' # executed
      PROVE  executed' > executed /\ (kind[executed'] = "normal" => executed' > barrier)
  <2>1. CASE TakeStop
    <3>1. stop # None /\ executed' = stop /\ executed < stop /\ kind[stop] = "stop"
      BY <1>1, <2>1 DEF TakeStop, Inv, OrderInv
    <3>2. QED
      BY <1>1, <3>1, OrderTypes DEF Inv
  <2>2. CASE ProcessPending
    <3>1. queue # <<>> /\ executed' = Head(queue)
      BY <2>2 DEF ProcessPending, CanProcess
    <3>2. Head(queue) = queue[1] /\ 1 \in 1 .. Len(queue)
      BY <1>1, <3>1, OrderTypes, EmptySeq DEF Inv
    <3>3. executed < queue[1] /\ barrier < queue[1]
      BY <1>1, <3>2 DEF Inv, OrderInv
    <3>4. QED
      BY <1>1, <3>1, <3>2, <3>3, OrderTypes DEF Inv
  <2>3. CASE Parse \/ LinkEvent
    BY <1>1, <2>3 DEF Parse, ProcessByte, LinkEvent, CompleteResponse, serverVars
  <2>4. CASE ServeStop \/ ServeNormal
    BY <1>1, <2>1, <2>2, <2>4 DEF ServeStop, ServeNormal, serverVars
  <2>5. CASE Drain \/ Claim \/ AbortReceive \/ Transmit \/ Started \/ Refused
    BY <1>1, <2>5 DEF Drain, Claim, AbortReceive, Transmit, Started, Refused, serverVars
  <2>6. CASE Environment \/ UNCHANGED vars
    BY <1>1, <2>6 DEF Environment, Receive, TxComplete, LineError, vars, serverVars
  <2>7. QED
    BY <1>1, <2>3, <2>4, <2>5, <2>6 DEF Next, Main
<1>2. Inv /\ [Next]_vars =>
        [executed' # executed =>
           /\ executed' > executed
           /\ kind[executed'] = "normal" => executed' > barrier]_vars
  BY <1>1
<1>3. QED
  BY <1>2, Invariance, PTL DEF Spec, StopIsBarrier
=============================================================================
