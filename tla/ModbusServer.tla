---------------------------- MODULE ModbusServer ----------------------------
(***************************************************************************)
(* The Modbus RTU server (Transport/Modbus/modbus_rtu_server.c): it        *)
(* resynchronises the byte stream on 8-byte requests, latches STOP apart   *)
(* from the bounded queue of normal requests, executes one request at a    *)
(* time against the machine and holds the answer until the link has sent   *)
(* it.  Every operation runs in the main loop; ModbusPort composes them    *)
(* with the link, the USART2 interrupts and the ingress ring.              *)
(*                                                                         *)
(* The master's frames are numbered in the order they are sent, and so are *)
(* the bytes of the line: FirstByte(f) opens frame f; 0 is a byte spoilt   *)
(* by noise.  A request and its answer are named by the frame number, 0    *)
(* standing for none.                                                      *)
(***************************************************************************)
EXTENDS Integers, Sequences, FiniteSets

CONSTANTS
    MaxFrames,     \* bound on the frames the master sends
    FrameLen,      \* MODBUS_RTU_REQUEST_LENGTH: 8 in the code
    QueueCapacity  \* MODBUS_RTU_REQUEST_QUEUE_CAPACITY: 4 in the code

ASSUME ServerAssumption ==
    /\ MaxFrames \in Nat
    /\ FrameLen \in Nat \ {0, 1}
    /\ QueueCapacity \in Nat \ {0}

None == 0
Frames == 1 .. MaxFrames
Bytes == 1 .. MaxFrames * FrameLen
Noise == 0

FirstByte(f) == (f - 1) * FrameLen + 1
Opens(b) == \E f \in Frames : b = FirstByte(f)
FrameOf(b) == CHOOSE f \in Frames : b = FirstByte(f)

\* "stop" writes OFF to the auto-pressure coil, "normal" is any other request
\* to this station, "other" is a frame for another station of the bus.
Kinds == {"stop", "normal", "other"}

VARIABLES
    kind,      \* what each frame of the master says
    rx,        \* rx_buffer
    stop,      \* stop_request while stop_latched
    queue,     \* request_queue
    response,  \* the request response_pending answers
    priority,  \* the request priority_response_pending answers
    count,     \* the snapshot's counters
    done,      \* history: requests the machine executed, by kind
    latest,    \* history: the newest request extracted from the stream
    barrier,   \* history: latest when the machine last executed a STOP
    executed   \* history: the request the machine executed last

serverVars == <<kind, rx, stop, queue, response, priority, count, done,
                latest, barrier, executed>>

Counters == {"valid", "wrong", "full", "duplicate", "discarded", "unanswered"}

ServerInit ==
    /\ kind \in [Frames -> Kinds]
    /\ rx = <<>>
    /\ stop = None
    /\ queue = <<>>
    /\ response = None
    /\ priority = None
    /\ count = [c \in Counters |-> 0]
    /\ done = [stop |-> 0, normal |-> 0]
    /\ latest = None
    /\ barrier = None
    /\ executed = None

(***************************************************************************)
(* Extraction.  TryExtractRequest runs after every byte, so rx never holds *)
(* a whole frame between two operations and its loop takes at most one     *)
(* turn; its other calls, and the eviction at RX_BUFFER_CAPACITY, find     *)
(* nothing to do.                                                          *)
(***************************************************************************)
CrcIsValid(bytes) ==
    /\ Len(bytes) = FrameLen
    /\ Opens(bytes[1])
    /\ \A i \in 1 .. FrameLen : bytes[i] = bytes[1] + i - 1

\* Mutant: resynchronisation empties rx_buffer.
DropEverything(buffer, n) == IF n > Len(buffer) THEN buffer ELSE <<>>

DropFront(buffer, n) == SubSeq(buffer, n + 1, Len(buffer))

\* A frame that is not addressed here is skipped.
SkipForeign(buffer) ==
    /\ kind[FrameOf(buffer[1])] = "other"
    /\ count' = [count EXCEPT !["wrong"] = @ + 1]
    /\ UNCHANGED <<stop, queue, latest>>

\* Mutant: a STOP that finds one latched is forgotten without a trace.
ForgetDuplicate(buffer) ==
    LET f == FrameOf(buffer[1]) IN
    /\ kind[f] = "stop"
    /\ stop' = IF stop = None THEN f ELSE stop
    /\ count' = [count EXCEPT !["valid"] = @ + 1]
    /\ latest' = f
    /\ UNCHANGED queue

\* The first STOP is latched, the next ones only counted until it is applied.
LatchStop(buffer) ==
    LET f == FrameOf(buffer[1]) IN
    /\ kind[f] = "stop"
    /\ stop' = IF stop = None THEN f ELSE stop
    /\ count' = [count EXCEPT !["valid"] = @ + 1,
                              !["duplicate"] = @ + (IF stop = None THEN 0 ELSE 1)]
    /\ latest' = f
    /\ UNCHANGED queue

\* A normal request waits in the queue, or is dropped when it is full.
Enqueue(buffer) ==
    LET f == FrameOf(buffer[1])
        room == Len(queue) < QueueCapacity IN
    /\ kind[f] = "normal"
    /\ queue' = IF room THEN Append(queue, f) ELSE queue
    /\ count' = [count EXCEPT !["valid"] = @ + 1,
                              !["full"] = @ + (IF room THEN 0 ELSE 1)]
    /\ latest' = f
    /\ UNCHANGED stop

Extract(buffer) ==
    IF CrcIsValid(buffer)
    THEN /\ rx' = DropFront(buffer, FrameLen)
         /\ SkipForeign(buffer) \/ LatchStop(buffer) \/ Enqueue(buffer)
    ELSE /\ rx' = IF Len(buffer) < FrameLen THEN buffer ELSE DropFront(buffer, 1)
         /\ UNCHANGED <<stop, queue, count, latest>>

\* One byte of ProcessBytes.
ProcessByte(b) ==
    /\ Extract(Append(rx, b))
    /\ UNCHANGED <<kind, response, priority, done, barrier, executed>>

(***************************************************************************)
(* Execution and answers.                                                  *)
(***************************************************************************)
\* QueueStopResponse with PromotePriorityResponse: the answer takes the
\* response slot or waits behind the answer in it; it is dropped, and counted
\* by TakeStop, when another STOP's answer already waits.
QueueStopResponse(f) ==
    \/ /\ priority = None
       /\ response = None
       /\ response' = f
       /\ UNCHANGED priority
    \/ /\ priority = None
       /\ response # None
       /\ priority' = f
       /\ UNCHANGED response
    \/ /\ priority # None
       /\ UNCHANGED <<response, priority>>

\* Mutant: a STOP leaves the requests that waited with it in the queue.
StopKeepsQueue ==
    /\ stop # None
    /\ stop' = None
    /\ done' = [done EXCEPT !.stop = @ + 1]
    /\ executed' = stop
    /\ barrier' = latest
    /\ QueueStopResponse(stop)
    /\ UNCHANGED <<kind, rx, queue, count, latest>>

\* The machine executes the latched STOP, and the requests that waited with
\* it are discarded.
TakeStop ==
    /\ stop # None
    /\ stop' = None
    /\ done' = [done EXCEPT !.stop = @ + 1]
    /\ executed' = stop
    /\ barrier' = latest
    /\ queue' = <<>>
    /\ QueueStopResponse(stop)
    /\ count' = [count EXCEPT
                   !["discarded"] = @ + Len(queue),
                   !["unanswered"] = @ + (IF priority = None THEN 0 ELSE 1)]
    /\ UNCHANGED <<kind, rx, latest>>

\* ProcessRead and ProcessWrite leave an answer whatever the machine says: the
\* registers, the echo of the write, or an exception.
Respond(f) == response' = f

\* ProcessPending executes the oldest normal request once no STOP is latched
\* and the previous answer is gone.
CanProcess == stop = None /\ response = None /\ queue # <<>>

ProcessPending ==
    /\ CanProcess
    /\ queue' = Tail(queue)
    /\ Respond(Head(queue))
    /\ done' = [done EXCEPT !.normal = @ + 1]
    /\ executed' = Head(queue)
    /\ UNCHANGED <<kind, rx, stop, priority, count, latest, barrier>>

\* Mutant: the answer of a STOP is not promoted.
ForgetPriority ==
    /\ response' = None
    /\ UNCHANGED <<kind, rx, stop, queue, priority, count, done, latest, barrier,
                   executed>>

\* The answer has left, or failed to: a waiting STOP's answer takes its slot.
CompleteResponse ==
    /\ response' = priority
    /\ priority' = None
    /\ UNCHANGED <<kind, rx, stop, queue, count, done, latest, barrier, executed>>
=============================================================================
