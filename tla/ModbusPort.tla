----------------------------- MODULE ModbusPort -----------------------------
(***************************************************************************)
(* The Modbus port: the server behind its link (modbus_rtu_link.c), the    *)
(* USART2 driver (modbus_uart2.c) and the interrupt-to-main ring           *)
(* (modbus_uart_ingress.c), driven by the main loop (User/main.c).         *)
(*                                                                         *)
(* Four actors interleave: the main loop, one step for each access to what *)
(* the interrupts share; the receive, transmit-complete and error          *)
(* interrupts of USART2, which run to completion; and the line.  DE drives *)
(* the transceiver's driver and disables its receiver.                     *)
(***************************************************************************)
EXTENDS ModbusServer

CONSTANTS
    RingCapacity,  \* MODBUS_UART_INGRESS_CAPACITY: 64 in the code
    MaxNoise,      \* bound on the line errors
    ServoBuild     \* SD700_FORCE_SERVO_ENABLED: STOP is also served early

ASSUME PortAssumption ==
    /\ RingCapacity \in Nat \ {0, 1}
    /\ MaxNoise \in Nat
    /\ ServoBuild \in BOOLEAN

VARIABLES
    ring,      \* bytes between write_index and read_index
    events,    \* event_flags
    de,        \* driver enable pin
    armed,     \* the one-byte HAL receive is running (RXNE and error enabled)
    tx,        \* the answer HAL is transmitting (gState BUSY_TX), or None
    active,    \* link.transmit_active
    pc,        \* where the main loop is
    early,     \* in the first STOP service of a servo build's iteration
    bytes,     \* ServiceMain's drained bytes not yet processed
    taken,     \* ServiceMain's taken events
    sent,      \* line: bytes the master has sent
    noise,     \* line: errors so far
    answered,  \* history: the answer whose transmission began last
    run,       \* history: bytes of the current frame in the ring, unbroken
    intact     \* history: frames that reached the ring unbroken

irqVars == <<ring, events, de, armed, tx>>
mainVars == <<active, pc, early, bytes, taken>>
lineVars == <<sent, noise, run, intact>>
vars == <<serverVars, irqVars, mainVars, lineVars, answered>>

Events == {"ERROR", "TX_COMPLETE"}

Init ==
    /\ ServerInit
    /\ ring = <<>>
    /\ events = {}
    /\ de = FALSE
    /\ armed = TRUE
    /\ tx = None
    /\ active = FALSE
    /\ pc = "drain"
    /\ early = ServoBuild
    /\ bytes = <<>>
    /\ taken = {}
    /\ sent = 0
    /\ noise = 0
    /\ answered = None
    /\ run = 0
    /\ intact = 0

(***************************************************************************)
(* The main loop.                                                          *)
(***************************************************************************)
NextIteration == pc' = "drain" /\ early' = ServoBuild

\* With the USART2 interrupt masked, ServiceMain takes every byte and event.
Drain ==
    /\ pc = "drain"
    /\ bytes' = ring
    /\ ring' = <<>>
    /\ taken' = events
    /\ events' = {}
    /\ pc' = "parse"
    /\ UNCHANGED <<serverVars, de, armed, tx, active, early, lineVars, answered>>

Parse ==
    /\ pc = "parse"
    /\ bytes # <<>>
    /\ ProcessByte(Head(bytes))
    /\ bytes' = Tail(bytes)
    /\ UNCHANGED <<irqVars, active, pc, early, taken, lineVars, answered>>

\* OnError, else OnTransmitComplete: both release the line and, if the link
\* believes it is transmitting, complete the answer.
LinkEvent ==
    /\ pc = "parse"
    /\ bytes = <<>>
    /\ IF taken = {} THEN UNCHANGED <<serverVars, de, active>>
       ELSE /\ de' = FALSE
            /\ active' = FALSE
            /\ IF active THEN CompleteResponse ELSE UNCHANGED serverVars
    /\ taken' = {}
    /\ pc' = "stop"
    /\ UNCHANGED <<ring, events, armed, tx, early, bytes, lineVars, answered>>

\* Mutant: only a servo build's early service looks for a STOP.
ServeStopEarlyOnly ==
    /\ pc = "stop"
    /\ IF early /\ stop # None THEN TakeStop ELSE UNCHANGED serverVars
    /\ early' = FALSE
    /\ pc' = IF early THEN "drain" ELSE "normal"
    /\ UNCHANGED <<irqVars, active, bytes, taken, lineVars, answered>>

\* ProcessPendingStop; the early service ignores whether there was one.
ServeStop ==
    /\ pc = "stop"
    /\ IF stop # None THEN TakeStop ELSE UNCHANGED serverVars
    /\ early' = FALSE
    /\ pc' = IF early THEN "drain"
             ELSE IF stop # None THEN "transmit" ELSE "normal"
    /\ UNCHANGED <<irqVars, active, bytes, taken, lineVars, answered>>

\* ProcessOneNormalRequest.
ServeNormal ==
    /\ pc = "normal"
    /\ pc' = "transmit"
    /\ \/ ProcessPending
       \/ ~ CanProcess /\ UNCHANGED serverVars
    /\ UNCHANGED <<irqVars, active, early, bytes, taken, lineVars, answered>>

\* Mutant: the line is claimed again while an answer leaves.
ClaimAgain ==
    /\ pc = "transmit"
    /\ IF response = None
       THEN NextIteration /\ UNCHANGED de
       ELSE de' = TRUE /\ pc' = "abort" /\ UNCHANGED early
    /\ UNCHANGED <<serverVars, ring, events, armed, tx, active, bytes, taken,
                   lineVars, answered>>

\* ModbusRtuLink_Service: nothing to send, or the line is claimed.
Claim ==
    /\ pc = "transmit"
    /\ IF active \/ response = None
       THEN NextIteration /\ UNCHANGED de
       ELSE de' = TRUE /\ pc' = "abort" /\ UNCHANGED early
    /\ UNCHANGED <<serverVars, ring, events, armed, tx, active, bytes, taken,
                   lineVars, answered>>

\* HAL_UART_AbortReceive in StartTransmit.
AbortReceive ==
    /\ pc = "abort"
    /\ armed' = FALSE
    /\ pc' = "start"
    /\ UNCHANGED <<serverVars, ring, events, de, tx, active, early, bytes, taken,
                   lineVars, answered>>

\* HAL_UART_Transmit_IT in StartTransmit: refused while HAL still transmits,
\* and then the receive is armed again.
Transmit ==
    /\ pc = "start"
    /\ IF tx = None
       THEN /\ tx' = response
            /\ answered' = response
            /\ pc' = "started"
            /\ UNCHANGED armed
       ELSE /\ armed' = TRUE
            /\ pc' = "refused"
            /\ UNCHANGED <<tx, answered>>
    /\ UNCHANGED <<serverVars, ring, events, de, active, early, bytes, taken,
                   lineVars>>

\* The end of ModbusRtuLink_Service, after StartTransmit succeeded or failed.
Started ==
    /\ pc = "started"
    /\ active' = TRUE
    /\ NextIteration
    /\ UNCHANGED <<serverVars, irqVars, bytes, taken, lineVars, answered>>

Refused ==
    /\ pc = "refused"
    /\ de' = FALSE
    /\ NextIteration
    /\ UNCHANGED <<serverVars, ring, events, armed, tx, active, bytes, taken,
                   lineVars, answered>>

Main == \/ Drain \/ Parse \/ LinkEvent \/ ServeStop \/ ServeNormal
        \/ Claim \/ AbortReceive \/ Transmit \/ Started \/ Refused

(***************************************************************************)
(* The USART2 interrupts and the line.                                     *)
(***************************************************************************)
\* Mutant: the slot that tells a full ring from an empty one is filled.
HasRoomForLast == Len(ring) < RingCapacity

HasRoom == Len(ring) < RingCapacity - 1

\* PushFromIsr: a full ring drops the byte.  run and intact follow what
\* reached the ring.
PushFromIsr(b) ==
    LET length == IF Opens(b) THEN 1
                  ELSE IF b = Noise \/ run = 0 THEN 0 ELSE run + 1
        whole == length = FrameLen IN
    IF HasRoom
    THEN /\ ring' = Append(ring, b)
         /\ run' = IF whole THEN 0 ELSE length
         /\ intact' = intact + (IF whole THEN 1 ELSE 0)
    ELSE /\ run' = 0
         /\ UNCHANGED <<ring, intact>>

\* HandleRxComplete for the next byte of the master; a byte that finds the
\* receiver off is lost.
Receive ==
    /\ sent < MaxFrames * FrameLen
    /\ sent' = sent + 1
    /\ IF armed /\ ~ de THEN PushFromIsr(sent + 1)
       ELSE run' = 0 /\ UNCHANGED <<ring, intact>>
    /\ UNCHANGED <<serverVars, events, de, armed, tx, mainVars, noise, answered>>

\* Mutant: the interrupt releases the line but signals nothing.
TxCompleteSilent ==
    /\ tx # None
    /\ tx' = None
    /\ de' = FALSE
    /\ armed' = TRUE
    /\ UNCHANGED <<serverVars, ring, events, mainVars, lineVars, answered>>

\* Mutant: the interrupt leaves the receive off.
TxCompleteDeaf ==
    /\ tx # None
    /\ tx' = None
    /\ de' = FALSE
    /\ events' = events \cup {"TX_COMPLETE"}
    /\ UNCHANGED <<serverVars, ring, armed, mainVars, lineVars, answered>>

\* HandleTxComplete, when the last byte of the answer has left.
TxComplete ==
    /\ tx # None
    /\ tx' = None
    /\ de' = FALSE
    /\ events' = events \cup {"TX_COMPLETE"}
    /\ armed' = TRUE
    /\ UNCHANGED <<serverVars, ring, mainVars, lineVars, answered>>

\* HandleError.  A framing, noise or overrun error is raised only while the
\* receive is armed; it may spoil a byte of the master, and a spoilt or
\* imagined byte may be received with it (an imagined one that finds no room
\* leaves no trace: the first disjunct).
LineError ==
    /\ armed
    /\ noise < MaxNoise
    /\ noise' = noise + 1
    /\ de' = FALSE
    /\ events' = events \cup {"ERROR"}
    /\ \/ UNCHANGED <<sent, ring, run, intact>>
       \/ HasRoom /\ PushFromIsr(Noise) /\ UNCHANGED sent
       \/ /\ sent < MaxFrames * FrameLen
          /\ sent' = sent + 1
          /\ \/ PushFromIsr(Noise)
             \/ run' = 0 /\ UNCHANGED <<ring, intact>>
    /\ UNCHANGED <<serverVars, armed, tx, mainVars, answered>>

Environment == Receive \/ TxComplete \/ LineError

Next == Main \/ Environment

Spec == Init /\ [][Next]_vars

\* The main loop never stops and a transmission ends.
FairSpec == Spec /\ WF_vars(Main) /\ WF_vars(TxComplete)

-----------------------------------------------------------------------------
(***************************************************************************)
(* Properties.                                                             *)
(***************************************************************************)
Answerable == Frames \cup {None}
MaxBytes == MaxFrames * FrameLen

\* Every variable stays in its domain.
TypeOK ==
    /\ kind \in [Frames -> Kinds]
    /\ rx \in Seq(Bytes \cup {Noise}) /\ Len(rx) < FrameLen
    /\ {stop, response, priority, latest, barrier, executed, tx, answered}
          \subseteq Answerable
    /\ queue \in Seq(Frames) /\ Len(queue) <= QueueCapacity
    /\ count \in [Counters -> Nat]
    /\ done \in [stop : Nat, normal : Nat]
    /\ ring \in Seq(Bytes \cup {Noise}) /\ Len(ring) < RingCapacity
    /\ bytes \in Seq(Bytes \cup {Noise}) /\ Len(bytes) < RingCapacity
    /\ events \subseteq Events /\ taken \subseteq Events
    /\ {de, armed, active, early} \subseteq BOOLEAN
    /\ pc \in {"drain", "parse", "stop", "normal", "transmit", "abort", "start",
               "started", "refused"}
    /\ sent \in 0 .. MaxBytes /\ noise \in 0 .. MaxNoise
    /\ run \in 0 .. FrameLen - 1 /\ intact \in 0 .. MaxFrames

\* Resynchronisation drops one byte at a time, so noise, lost bytes and a full
\* ring cost only the frames they touch: every frame that reached the ring
\* unbroken was extracted or is still on its way through ring, ServiceMain and
\* rx_buffer (TryExtractRequest, DropFront).
Whole(s) == {i \in 1 .. Len(s) - FrameLen + 1 :
               CrcIsValid(SubSeq(s, i, i + FrameLen - 1))}
NoFrameLost ==
    intact = count["valid"] + count["wrong"]
               + Cardinality(Whole(rx \o bytes \o ring))

\* Every request the snapshot counts as valid was executed, is waiting, or is
\* in exactly one of the counters that say why it never will be.
Accounted ==
    count["valid"] = done.stop + done.normal + (IF stop = None THEN 0 ELSE 1)
                       + Len(queue) + count["duplicate"] + count["full"]
                       + count["discarded"]

\* A STOP overtakes but never reorders: requests are executed in the order the
\* master sent them, and once a STOP was executed no normal request that had
\* been extracted before is (TakeStop empties the queue, ProcessPending waits
\* for a latched STOP).
StopIsBarrier ==
    [][executed' # executed =>
         /\ executed' > executed
         /\ kind[executed'] = "normal" => executed' > barrier]_vars

\* Answers leave in the order of their requests, each transmission begins for
\* a request newer than all answered before, and a STOP's answer that waits in
\* the priority slot overtakes no older answer.
Slot(f) == IF f = None THEN <<>> ELSE <<f>>
Unsent == Slot(response) \o Slot(priority) \o queue
AnswersInOrder ==
    /\ \A i \in 1 .. Len(Unsent) - 1 : Unsent[i] < Unsent[i + 1]
    /\ Unsent # <<>> => answered <= Unsent[1]
    /\ stop # None => stop > response /\ stop > priority
    /\ priority # None => response # None

\* The half-duplex line is always handed over: the receive is off only during
\* a transmission and StartTransmit, and DE is on only during a transmission
\* and ModbusRtuLink_Service.
LineHandedOver ==
    /\ ~ armed => tx # None \/ pc = "start"
    /\ de => tx # None \/ pc \in {"abort", "start", "refused"}

\* While an answer leaves, the driver stays on and the buffer HAL reads from
\* holds that answer (StartTransmit's comment on DE; HAL reads
\* server->response, which the next request would overwrite).
DriverHeld == tx # None => de
AnswerWhole == tx # None => DriverHeld /\ tx = response

\* On a line without errors every answer leaves whole.
AnswersLeaveWhole == noise = 0 => AnswerWhole

\* A latched STOP is executed, and an answer leaves its slot, whatever the
\* interrupts and the line do, as long as the main loop runs and a
\* transmission ends.
StopServed == \A f \in Frames : stop = f ~> executed >= f
AnswerLeaves == \A f \in Frames : response = f ~> response # f
=============================================================================
