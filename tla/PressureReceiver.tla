--------------------------- MODULE PressureReceiver ---------------------------
(***************************************************************************)
(* The pressure receiver, Transport/Pressure/pressure_receiver.c under the *)
(* USART6 interrupt of Board/RS485/pressure_uart6.c, and the main loop     *)
(* that copies, dates and delivers its samples (User/main.c, runtime.c in  *)
(* the AUTO_TARGET and FORCE_SERVO builds).                                *)
(*                                                                         *)
(* The sensor sends frames; on the way bytes are lost, changed or added.   *)
(* A byte is the two low bits of the real one, a payload two bytes instead *)
(* of four: header, marker and check sum keep their places and relations.  *)
(* HAL_GetTick is read modulo TickRange, in place of 2^32.                 *)
(***************************************************************************)
EXTENDS Naturals, Sequences, FiniteSetsExt

CONSTANTS
  Values,      \* the bytes a payload may hold
  MaxFrames,   \* bound: frames the sensor sends
  MaxFaults,   \* bound: bytes lost, changed or added, and failed re-arms
  TickRange,   \* the width of the tick
  MaxPass      \* bound: ms a pass of the main loop takes

Bytes  == 0 .. 3
Header == 1   \* PRESSURE_SENSOR_FRAME_HEADER
Marker == 2   \* PRESSURE_SENSOR_FRAME_MARKER
FrameLength == 5

ASSUME BoundsAssumption ==
  /\ Values \subseteq 0 .. 3
  /\ MaxFrames \in Nat /\ MaxFaults \in Nat
  /\ MaxPass \in Nat /\ TickRange \in Nat /\ 2 * MaxPass < TickRange

VARIABLES
  sending,    \* the frame on the line
  position,   \* bytes of it that have left the sensor
  sends,      \* frames begun
  faults,     \* faults of the line so far
  frame,      \* receiver->frame[0 .. frame_length - 1]
  armed,      \* the one-byte HAL receive is armed
  snapshot,   \* receiver->snapshot: [value, sequence, at]
  tick,       \* HAL_GetTick
  pc,         \* where main is in its loop
  copy,       \* main's pressure_snapshot
  now,        \* main's now_ms
  delivered,  \* runtime->delivered_pressure_sequence
  pass,       \* ms since the pass began
  intact,     \* history: all of the frame on the line has arrived, unspoilt
  taken,      \* history: the snapshot whose sequence main has copied
  since,      \* history: ms since the last was published
  copyAge     \* history: ms from its publication until main reads the tick

line     == <<sending, position, sends, faults>>
receiver == <<frame, armed, snapshot>>
main     == <<pc, copy, now, delivered>>
time     == <<tick, pass>>
vars == <<line, receiver, main, time, intact, since, taken, copyAge>>

NoSample == [value |-> <<0, 0>>, sequence |-> 0, at |-> 0]

-----------------------------------------------------------------------------
(* The frame.                                                              *)

\* The exclusive or of two bytes of two bits.
Xor(a, b) == ((a + b) % 2) + 2 * (((a \div 2) + (b \div 2)) % 2)

\* PressureSensor_CalculateBcc.
Bcc(payload) == Xor(Xor(Header, payload[1]), payload[2])

FrameOf(payload) == <<Header, payload[1], payload[2], Bcc(payload), Marker>>

\* PressureSensor_DecodeFrame succeeds.
Decodes(f) == Len(f) = FrameLength /\ f = FrameOf(<<f[2], f[3]>>)

\* Mutant: a frame that does not decode is dropped whole.
ResynchronizedEmpty(f) == SubSeq(f, Len(f) + 1, Len(f))

\* PressureReceiver_Resynchronize: go on from the next header in the frame.
Resynchronized(f) ==
  LET heads == {i \in 2 .. Len(f) : f[i] = Header}
  IN  IF heads = {} THEN <<>>
      ELSE SubSeq(f, Min(heads), Len(f))

-----------------------------------------------------------------------------
(* The receive interrupt.                                                  *)

\* Mutant: the words are copied with the interrupts enabled.
NeverMasked == pc = "never"

\* PressureUart6_ReadSnapshot copies between __disable_irq and __enable_irq.
Masked == pc \in {"value", "at"}

\* PressureReceiver_PublishValidFrame.
Publish(f) ==
  /\ snapshot' = [value |-> <<f[2], f[3]>>, sequence |-> snapshot.sequence + 1,
                  at |-> tick]
  /\ since' = 0

\* PressureReceiver_ProcessBytes for one byte.
ProcessByte(byte) ==
  LET longer == Append(frame, byte)
  IN  \/ /\ frame = <<>> /\ byte # Header
         /\ UNCHANGED <<frame, snapshot, since>>
      \/ /\ frame # <<>> \/ byte = Header
         /\ Len(longer) < FrameLength
         /\ frame' = longer
         /\ UNCHANGED <<snapshot, since>>
      \/ /\ Len(longer) = FrameLength /\ Decodes(longer)
         /\ frame' = <<>>
         /\ Publish(longer)
      \/ /\ Len(longer) = FrameLength /\ ~Decodes(longer)
         /\ frame' = Resynchronized(longer)
         /\ UNCHANGED <<snapshot, since>>

\* PressureUart6_HandleRxComplete; cost is the number of faults the line has spent
\* on the byte.  When both attempts to arm the receive fail, nothing follows.
HandleRxComplete(byte, cost) ==
  /\ armed /\ ~Masked
  /\ ProcessByte(byte)
  /\ \E deaf \in 0 .. 1 :
       /\ armed' = (deaf = 0)
       /\ faults + cost + deaf <= MaxFaults
       /\ faults' = faults + cost + deaf
  /\ UNCHANGED <<main, time, taken, copyAge>>

-----------------------------------------------------------------------------
(* The sensor and the line.                                                *)

\* The next byte leaves the sensor, the first of a frame or not.
Sends ==
  \/ /\ position = FrameLength
     /\ sends < MaxFrames /\ sends' = sends + 1
     /\ \E payload \in Values \X Values : sending' = FrameOf(payload)
     /\ position' = 1
  \/ /\ position < FrameLength
     /\ position' = position + 1
     /\ UNCHANGED <<sending, sends>>

\* No false frame may take a byte of the frame on the line, and none is lost.
Intact(unspoilt) ==
  intact' = /\ unspoilt
            /\ position' = 1 \/ intact
            /\ position' < FrameLength => snapshot' = snapshot

ByteArrives == Sends /\ HandleRxComplete(sending'[position'], 0) /\ Intact(TRUE)

ByteChanged ==
  /\ Sends
  /\ \E byte \in Bytes \ {sending'[position']} : HandleRxComplete(byte, 1)
  /\ Intact(FALSE)

\* A byte lost, with or without PressureUart6_HandleError, which arms the receive
\* again and leaves the receiver alone.
ByteLost ==
  /\ Sends
  /\ IF armed THEN faults < MaxFaults /\ faults' = faults + 1 ELSE UNCHANGED faults
  /\ intact' = FALSE
  /\ UNCHANGED <<receiver, main, time, since, taken, copyAge>>

ByteAdded ==
  /\ \E byte \in Bytes : HandleRxComplete(byte, 1)
  /\ intact' = FALSE
  /\ UNCHANGED <<sending, position, sends>>

-----------------------------------------------------------------------------
(* The main loop.                                                          *)

Go(from, to) ==
  /\ pc = from /\ pc' = to
  /\ UNCHANGED <<line, receiver, tick, intact, since>>

\* The pass reads the tick, for the builds that do not read it again, and the
\* first word of the copy.
ReadSequence ==
  /\ Go("loop", "value")
  /\ now' = tick
  /\ copy' = [copy EXCEPT !.sequence = snapshot.sequence]
  /\ taken' = snapshot
  /\ copyAge' = since
  /\ pass' = 0
  /\ UNCHANGED delivered

ReadValue ==
  /\ Go("value", "at")
  /\ copy' = [copy EXCEPT !.value = snapshot.value]
  /\ UNCHANGED <<now, delivered, pass, taken, copyAge>>

ReadTime ==
  /\ Go("at", "date")
  /\ copy' = [copy EXCEPT !.at = snapshot.at]
  /\ UNCHANGED <<now, delivered, pass, taken, copyAge>>

\* main reads the tick again, since a sample may have been published in between.
Date ==
  /\ Go("date", "deliver")
  /\ now' = tick
  /\ UNCHANGED <<copy, delivered, pass, taken, copyAge>>

\* ApplicationRuntime_ServicePressure: a sequence is delivered once, then the rest
\* of the pass follows.
ServicePressure ==
  /\ Go("deliver", "loop")
  /\ delivered' = copy.sequence
  /\ taken' = NoSample /\ copyAge' = 0
  /\ UNCHANGED <<copy, now, pass>>

SysTick ==
  /\ ~Masked /\ pass < MaxPass
  /\ tick' = (tick + 1) % TickRange
  /\ pass' = pass + 1
  /\ since' = IF since < TickRange THEN since + 1 ELSE since
  /\ copyAge' = IF pc = "date" /\ copyAge < TickRange THEN copyAge + 1 ELSE copyAge
  /\ UNCHANGED <<line, receiver, main, intact, taken>>

-----------------------------------------------------------------------------
Init ==
  /\ sending = FrameOf(<<0, 0>>) /\ position = FrameLength /\ sends = 0 /\ faults = 0
  /\ frame = <<>> /\ armed = TRUE /\ snapshot = NoSample
  /\ tick = 0 /\ pass = 0
  /\ pc = "loop" /\ copy = NoSample /\ now = 0 /\ delivered = 0
  /\ intact = FALSE /\ since = 0 /\ taken = NoSample /\ copyAge = 0

Line == ByteArrives \/ ByteChanged \/ ByteLost \/ ByteAdded
Main == ReadSequence \/ ReadValue \/ ReadTime \/ Date \/ ServicePressure
Next == Line \/ Main \/ SysTick

Spec == Init /\ [][Next]_vars

-----------------------------------------------------------------------------
(* Properties.                                                             *)

\* A frame that arrives unspoilt is published with its last byte, whatever came
\* before it: a payload byte equal to the header, the rest of a broken frame and
\* noise cost no frame but their own (PressureReceiver_Resynchronize).
CleanFrameArrives ==
  [][intact' /\ position' = FrameLength /\ position # position' =>
       /\ snapshot'.sequence = snapshot.sequence + 1
       /\ FrameOf(snapshot'.value) = sending']_vars

\* What is delivered is one published sample, all its words from the same frame,
\* and the unsigned difference of main's tick and the sample's is its age: it
\* never lies in the future and is never nearly 2^32.
SampleIsTrue ==
  pc = "deliver" /\ copy.sequence # delivered =>
    /\ copy = taken
    /\ (now + TickRange - copy.at) % TickRange = copyAge
=============================================================================
