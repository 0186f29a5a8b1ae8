------------------------------- MODULE Logger -------------------------------
(***************************************************************************)
(* core::component::logger (logger.h).  Producers log records into a       *)
(* bounded queue, which RingBuffer describes: a slot is reserved and later *)
(* published, and a consumer stops at a slot that is not published.  The   *)
(* engine's thread starts and stops the logger and, in manual mode, pumps  *)
(* it every frame; in background mode a worker thread consumes.  start and *)
(* stop are calls of the engine's thread alone, and so is pump_frame, in   *)
(* manual mode: nothing in the code keeps it from being a second consumer. *)
(* Text, levels and sinks are left out; a time budget may run out after    *)
(* any message of a frame.                                                 *)
(***************************************************************************)
EXTENDS Naturals, FiniteSets, SequencesExt

CONSTANTS
  Producers,
  Capacity,        \* RingBufferCapacity
  Batch,           \* messages of one pump_frame
  FlushThreshold,  \* records that reach m_flush_threshold_bytes
  MaxRecords,      \* bound: calls of log that find the logger running
  MaxStarts        \* bound: calls of start_manual and start_background

(* What a run must choose.                                                 *)
ParametersAssumption ==
  /\ Capacity \in Nat \ {0}
  /\ Batch \in Nat \ {0}
  /\ FlushThreshold \in Nat \ {0}
  /\ MaxRecords \in Nat /\ MaxStarts \in Nat

VARIABLES
  running,    \* m_running
  mode,       \* m_mode
  queue,      \* m_msg_queue: records with their ready flag, oldest first
  dropped,    \* m_dropped_messages
  buffer,     \* m_serialized_buffer
  files,      \* the log files, a sequence of records each
  fileOpen,   \* m_log_file.is_open()
  unwritten,  \* records consumed while no file was open
  worker,     \* "none", or where m_worker_thread stands
  stopToken,  \* its stop was requested
  pumped,     \* messages consumed by the pump_frame in progress
  engine,     \* where the engine's thread stands
  wanted,     \* the mode its start call asked for, or "none"
  producing,  \* where each producer stands, and its record
  logged,     \* calls of log so far; the n-th logs record n
  author,     \* history: the producer of each record
  inFlight    \* history: records being logged when stop was called

fileVars == <<buffer, files, fileOpen, unwritten>>
engineVars == <<running, mode, worker, stopToken, engine, wanted, inFlight>>
producerVars == <<dropped, producing, logged, author>>
vars == <<queue, pumped, fileVars, engineVars, producerVars>>

Idle == [at |-> "idle", record |-> 0]

Init ==
  /\ running = FALSE /\ mode = "background"
  /\ queue = <<>> /\ dropped = 0
  /\ buffer = <<>> /\ files = <<>> /\ fileOpen = FALSE /\ unwritten = {}
  /\ worker = "none" /\ stopToken = FALSE /\ pumped = 0
  /\ engine = "idle" /\ wanted = "none"
  /\ producing = [p \in Producers |-> Idle]
  /\ logged = 0 /\ author = <<>> /\ inFlight = {}

-----------------------------------------------------------------------------
(* log_with_location_impl *)

LogBegin(p) ==
  /\ producing[p].at = "idle"
  /\ logged < MaxRecords
  /\ running
  /\ logged' = logged + 1
  /\ author' = Append(author, p)
  /\ producing' = [producing EXCEPT ![p] = [at |-> "push", record |-> logged + 1]]
  /\ UNCHANGED <<queue, dropped, pumped, fileVars, engineVars>>

(* try_push takes the next slot, or the record is dropped.                 *)
LogReserve(p) ==
  /\ producing[p].at = "push"
  /\ IF Len(queue) < Capacity
     THEN /\ queue' = Append(queue, [record |-> producing[p].record, ready |-> FALSE])
          /\ producing' = [producing EXCEPT ![p].at = "publish"]
          /\ UNCHANGED dropped
     ELSE /\ dropped' = dropped + 1
          /\ producing' = [producing EXCEPT ![p] = Idle]
          /\ UNCHANGED queue
  /\ UNCHANGED <<logged, author, pumped, fileVars, engineVars>>

LogPublish(p) ==
  /\ producing[p].at = "publish"
  /\ queue' = [i \in DOMAIN queue |->
                 IF queue[i].record = producing[p].record THEN [queue[i] EXCEPT !.ready = TRUE]
                 ELSE queue[i]]
  /\ producing' = [producing EXCEPT ![p] = Idle]
  /\ UNCHANGED <<dropped, logged, author, pumped, fileVars, engineVars>>

-----------------------------------------------------------------------------
(* consume_once and the file *)

Consumable == queue # <<>> /\ Head(queue).ready

(* flush_file_buffer with b in the buffer; an unopened file keeps it there.*)
Flush(b) ==
  IF fileOpen
  THEN /\ files' = [files EXCEPT ![Len(files)] = @ \o b]
       /\ buffer' = <<>>
  ELSE /\ buffer' = b
       /\ UNCHANGED files

Buffered(r) == Append(buffer, r)

(* consume_once: the record goes to the file's buffer, which is flushed at *)
(* the threshold; with no file open it goes nowhere.                       *)
ConsumeOnce ==
  LET r == Head(queue).record
      b == Buffered(r)
  IN  /\ Consumable
      /\ queue' = Tail(queue)
      /\ IF fileOpen
         THEN /\ IF Len(b) >= FlushThreshold THEN Flush(b) ELSE buffer' = b /\ UNCHANGED files
              /\ UNCHANGED unwritten
         ELSE /\ unwritten' = unwritten \cup {r}
              /\ UNCHANGED <<buffer, files>>
      /\ UNCHANGED fileOpen

(* pump_frame's loop, and the flush at its end; at is where its thread is. *)
PumpConsume ==
  /\ pumped < Batch
  /\ ConsumeOnce
  /\ pumped' = pumped + 1

(* timeOut: the time budget is used up.                                    *)
PumpEnd(timeOut) ==
  /\ timeOut \/ pumped = Batch \/ ~Consumable
  /\ Flush(buffer)
  /\ pumped' = 0
  /\ UNCHANGED <<queue, fileOpen, unwritten>>

-----------------------------------------------------------------------------
(* worker_loop *)

WorkerKeeps == UNCHANGED <<producerVars, running, mode, stopToken, engine, wanted, inFlight>>

WorkerCheck ==
  /\ worker = "check"
  /\ worker' = IF stopToken THEN "exited" ELSE "pump"
  /\ UNCHANGED <<queue, pumped, fileVars>>
  /\ WorkerKeeps

(* pump_frame returns at once when the logger does not run.                *)
WorkerEnter ==
  /\ worker = "pump"
  /\ worker' = IF running THEN "pumping" ELSE "pumped"
  /\ UNCHANGED <<queue, pumped, fileVars>>
  /\ WorkerKeeps

WorkerPump ==
  /\ worker = "pumping"
  /\ \/ PumpConsume /\ UNCHANGED worker
     \/ PumpEnd(FALSE) /\ worker' = "pumped"
  /\ WorkerKeeps

(* Mutant of WorkerLoop: an empty queue ends the worker.                   *)
WorkerLoopEnds ==
  /\ worker = "pumped"
  /\ worker' = IF queue = <<>> THEN "exited" ELSE "check"
  /\ UNCHANGED <<queue, pumped, fileVars>>
  /\ WorkerKeeps

WorkerLoop ==
  /\ worker = "pumped"
  /\ worker' = IF ~running /\ queue = <<>> THEN "exited" ELSE "check"
  /\ UNCHANGED <<queue, pumped, fileVars>>
  /\ WorkerKeeps

Worker == WorkerCheck \/ WorkerEnter \/ WorkerPump \/ WorkerLoop

-----------------------------------------------------------------------------
(* start_manual, start_background, stop and pump_frame *)

(* A call of stop, or of start with the mode, which calls stop first.      *)
Call(m) ==
  /\ engine = "idle"
  /\ m # "none" => Len(files) < MaxStarts
  /\ wanted' = m
  /\ engine' = "stop"
  /\ UNCHANGED <<running, mode, worker, stopToken, inFlight, queue, pumped, fileVars, producerVars>>

InProgress == {producing[p].record : p \in {p \in Producers : producing[p].at # "idle"}}

StopRequested == running /\ worker # "none"

(* stop: the exchange; a logger that does not run has nothing to stop.     *)
StopExchange ==
  /\ engine = "stop"
  /\ running' = FALSE
  /\ engine' = IF running THEN "join" ELSE "start"
  /\ inFlight' = IF running THEN InProgress ELSE inFlight
  /\ stopToken' = StopRequested
  /\ UNCHANGED <<mode, worker, wanted, queue, pumped, fileVars, producerVars>>

(* Mutant of StopJoin: the worker is asked to stop and not waited for.     *)
StopJoinless ==
  /\ engine = "join"
  /\ engine' = "drain"
  /\ UNCHANGED <<running, mode, worker, stopToken, wanted, inFlight, queue, pumped, fileVars, producerVars>>

StopJoin ==
  /\ engine = "join"
  /\ worker \in {"none", "exited"}
  /\ worker' = "none"
  /\ engine' = "drain"
  /\ UNCHANGED <<running, mode, stopToken, wanted, inFlight, queue, pumped, fileVars, producerVars>>

EngineKeeps == UNCHANGED <<running, mode, worker, stopToken, inFlight, producerVars>>

(* flush_remaining_messages                                                *)
StopDrain ==
  /\ engine = "drain"
  /\ ConsumeOnce
  /\ UNCHANGED <<engine, wanted, pumped>>
  /\ EngineKeeps

(* Its end, flush_file_buffer and the close of the file.                   *)
StopClose ==
  /\ engine = "drain"
  /\ ~Consumable
  /\ Flush(buffer)
  /\ fileOpen' = FALSE
  /\ engine' = "start"
  /\ UNCHANGED <<wanted, queue, pumped, unwritten>>
  /\ EngineKeeps

(* stop returns, or start goes on.                                         *)
StartRun ==
  /\ engine = "start"
  /\ running' = (wanted # "none")
  /\ engine' = IF wanted = "none" THEN "idle" ELSE "open"
  /\ UNCHANGED <<mode, worker, stopToken, wanted, inFlight, queue, pumped, fileVars, producerVars>>

(* m_mode, open_log_file, which may fail, and the worker thread.           *)
StartOpen ==
  /\ engine = "open"
  /\ mode' = wanted
  /\ fileOpen' \in BOOLEAN
  /\ files' = Append(files, <<>>)
  /\ worker' = IF wanted = "background" THEN "check" ELSE "none"
  /\ stopToken' = FALSE
  /\ engine' = "idle"
  /\ wanted' = "none"
  /\ UNCHANGED <<running, inFlight, queue, pumped, buffer, unwritten, producerVars>>

(* The engine's frame.                                                     *)
Frame ==
  /\ engine = "idle"
  /\ running /\ mode = "manual"
  /\ engine' = "pumping"
  /\ UNCHANGED <<queue, pumped, fileVars, wanted>>
  /\ EngineKeeps

FramePump ==
  /\ engine = "pumping"
  /\ \/ PumpConsume /\ UNCHANGED engine
     \/ PumpEnd(pumped > 0) /\ engine' = "idle"
  /\ UNCHANGED wanted
  /\ EngineKeeps

Engine ==
  \/ StopExchange \/ StopJoin \/ StopDrain \/ StopClose
  \/ StartRun \/ StartOpen \/ FramePump

Produce(p) == LogReserve(p) \/ LogPublish(p)

Next ==
  \/ \E p \in Producers : LogBegin(p) \/ Produce(p)
  \/ Worker
  \/ Engine
  \/ Frame
  \/ \E m \in {"none", "manual", "background"} : Call(m)

(* The worker and the calls in progress are scheduled again; nobody has to *)
(* log, start, stop or pump.                                               *)
Fairness ==
  /\ WF_vars(Worker)
  /\ WF_vars(Engine)
  /\ \A p \in Producers : WF_vars(Produce(p))

Spec == Init /\ [][Next]_vars /\ Fairness

-----------------------------------------------------------------------------
Records == 1 .. logged

TypeOK ==
  /\ running \in BOOLEAN /\ mode \in {"manual", "background"}
  /\ queue \in Seq([record : Records, ready : BOOLEAN]) /\ Len(queue) <= Capacity
  /\ dropped \in 0 .. logged
  /\ buffer \in Seq(Records) /\ Len(buffer) < FlushThreshold
  /\ files \in Seq(Seq(Records))
  /\ fileOpen \in BOOLEAN /\ unwritten \subseteq Records /\ stopToken \in BOOLEAN
  /\ worker \in {"none", "check", "pump", "pumping", "pumped", "exited"}
  /\ engine \in {"idle", "stop", "join", "drain", "start", "open", "pumping"}
  /\ pumped \in 0 .. Batch

(* What was consumed for a file, in order.                                 *)
Written == FlattenSeq(files) \o buffer

Queued == {queue[i].record : i \in DOMAIN queue}
Pushing == {p \in Producers : producing[p].at = "push"}

(* A record that was logged is in exactly one place: with its producer, in *)
(* the queue, on its way to a file, counted as dropped, or consumed while  *)
(* no file was open.  None is lost between two sessions or written twice.  *)
RecordsAccounted ==
  /\ logged = Cardinality(Pushing) + Len(queue) + Len(Written) + Cardinality(unwritten) + dropped
  /\ Cardinality(ToSet(Written) \cup Queued \cup unwritten)
       = Len(Written) + Len(queue) + Cardinality(unwritten)

(* The records of one producer are written in the order it logged them,    *)
(* over all sessions, batches and modes.                                   *)
ProducerOrder ==
  LET all == Written \o [i \in DOMAIN queue |-> queue[i].record]
  IN  \A i, j \in DOMAIN all : i < j /\ author[all[i]] = author[all[j]] => all[i] < all[j]

(* The queue has many producers but one consumer: a worker thread and the  *)
(* engine never consume at the same time, whatever starts and stops.       *)
OneConsumer ==
  worker \in {"pump", "pumping"} => engine \notin {"drain", "pumping"}

(* Between sessions and between two frames nothing waits in the buffer.    *)
NothingBuffered ==
  /\ engine = "idle" /\ ~running => buffer = <<>> /\ ~fileOpen /\ worker = "none"
  /\ engine = "idle" /\ mode = "manual" => buffer = <<>>

(* logger.h:487: stop flushes what it can.  A record it leaves behind was  *)
(* being logged when stop was called, or is queued behind one that was.    *)
StopLeavesOverlapped ==
  engine = "idle" /\ ~running =>
    \A i \in DOMAIN queue : \E j \in 1 .. i : queue[j].record \in inFlight

(* In background mode a queued record is consumed, or the logger stopped.  *)
(* Stated for the last record, which may have any of the others before it. *)
BackgroundConsumes ==
  MaxRecords \in Queued /\ worker # "none" ~> MaxRecords \notin Queued \/ ~running

(* stop, start and pump_frame return: the worker sees the request and the  *)
(* drain comes to an end.                                                  *)
EngineReturns == engine # "idle" ~> engine = "idle"
=============================================================================
