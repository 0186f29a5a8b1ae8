------------------------------ MODULE MC_Queues ------------------------------
(* Small instances of the queues of buffer.h and of the logger behind one. *)
(* A behaviour exercises one of them, the subject; the others stay as they *)
(* were constructed.                                                       *)
EXTENDS Naturals

CONSTANTS p1, p2, c1, c2, NoItem, e1, e2

VARIABLES
  subject,
  policy, head, tail, mark, data, pushes, pc, seen, pos, item,
  buffers, writeIdx, pending, frameId, lastWrite, lastRead, writer, filling, reader, reading,
  running, mode, queue, dropped, buffer, files, fileOpen, unwritten, worker, stopToken,
  pumped, engine, wanted, producing, logged, author, inFlight

RB == INSTANCE RingBuffer WITH
  Policies <- {"SingleThread", "SPSC", "MPSC", "MPMC"},
  Producers <- {p1, p2}, Consumers <- {c1, c2}, OneProducer <- p1, OneConsumer <- c1,
  Capacity <- 2, MaxPushes <- 3

DB == INSTANCE DoubleBuffer WITH
  Elements <- {e1, e2}, MaxFrames <- 4

LG == INSTANCE Logger WITH
  Producers <- {p1, p2}, Capacity <- 2, Batch <- 2, FlushThreshold <- 2,
  MaxRecords <- 3, MaxStarts <- 2

(* The instances choose their parameters as the modules ask.               *)
ASSUME InstancesAssumption ==
  /\ RB!ParametersAssumption
  /\ DB!ParametersAssumption
  /\ LG!ParametersAssumption

ring == <<policy, head, tail, mark, data, pushes, pc, seen, pos, item>>
double == <<buffers, writeIdx, pending, frameId, lastWrite, lastRead,
            writer, filling, reader, reading>>
logger == <<running, mode, queue, dropped, buffer, files, fileOpen, unwritten, worker,
            stopToken, pumped, engine, wanted, producing, logged, author, inFlight>>
vars == <<subject, ring, double, logger>>

(* One policy stands for all of them where the ring is not the subject.    *)
Init ==
  /\ subject \in {"ring", "double", "logger"}
  /\ RB!Init /\ DB!Init /\ LG!Init
  /\ subject # "ring" => policy = "SPSC"

Next ==
  /\ UNCHANGED subject
  /\ \/ subject = "ring" /\ RB!Next /\ UNCHANGED <<double, logger>>
     \/ subject = "double" /\ DB!Next /\ UNCHANGED <<ring, logger>>
     \/ subject = "logger" /\ LG!Next /\ UNCHANGED <<ring, double>>

Spec == Init /\ [][Next]_vars /\ RB!Fairness /\ LG!Fairness

-----------------------------------------------------------------------------
(* ring_buffer: an element is constructed where none is alive and taken    *)
(* where one is, by one call at a time; the linearized views show the      *)
(* elements in order.                                                      *)
RingExact ==
  subject = "ring" => RB!TypeOK /\ RB!SlotsMatch /\ RB!SlotExclusive /\ RB!ViewsInOrder

(* ring_buffer of each policy is a bounded first-in first-out queue.       *)
ImplementsFifo == RB!ImplementsFifo

(* double_buffer: the consumer never reads a buffer that is being filled,  *)
(* its frame id lags by one at most, no frame is skipped or read twice.    *)
FramesInTurn ==
  /\ [](subject = "double" => DB!TypeOK /\ DB!NotTorn /\ DB!ReadIdLags)
  /\ DB!NoFrameSkipped

(* logger: a record is in one place and written once, in its producer's    *)
(* order; one thread consumes at a time; between sessions and frames       *)
(* nothing waits in the buffer, and stop leaves only records behind that   *)
(* overlapped its call, or that are queued behind one that did.            *)
RecordsKept ==
  subject = "logger" =>
    /\ LG!TypeOK /\ LG!RecordsAccounted /\ LG!ProducerOrder /\ LG!OneConsumer
    /\ LG!NothingBuffered /\ LG!StopLeavesOverlapped

(* Calls on a ring return, so do start, stop and pump_frame of the logger, *)
(* and in background mode a queued record is consumed.                     *)
CallsEnd == RB!CallsReturn /\ LG!BackgroundConsumes /\ LG!EngineReturns
=============================================================================
