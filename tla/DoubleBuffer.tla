---------------------------- MODULE DoubleBuffer ----------------------------
(***************************************************************************)
(* core::double_buffer (buffer.h): one thread fills one of two buffers and *)
(* commits it, another swaps them and reads.  One step per access to the   *)
(* members and per element.  write_idx and the last frame ids are not      *)
(* atomic: a load that races with a store returns the old or the new value.*)
(* The producer fills only while is_committed answers false; one that      *)
(* ignores the answer of commit would write into a buffer being swapped.   *)
(***************************************************************************)
EXTENDS Naturals, FiniteSets

CONSTANTS
  Elements,    \* 0 .. Capacity - 1 of the template
  MaxFrames    \* bound: frames committed

(* What a run must choose.                                                 *)
ParametersAssumption ==
  /\ Elements # {}
  /\ IsFiniteSet(Elements)
  /\ MaxFrames \in Nat

VARIABLES
  buffers,    \* m_buffers: the frame each element was written for
  writeIdx,   \* write_idx
  pending,    \* m_swap_pending
  frameId,    \* m_frame_id
  lastWrite,  \* m_last_write_frame_id
  lastRead,   \* m_last_read_frame_id
  writer,     \* where the producer stands
  filling,    \* the buffer of its get_write_buffer, and the elements to fill
  reader,     \* where the consumer stands
  reading     \* the elements still to read, and the frames seen in this buffer

members == <<buffers, writeIdx, pending, frameId, lastWrite, lastRead>>
vars == <<members, writer, filling, reader, reading>>

Init ==
  /\ buffers = [i \in {0, 1} |-> [e \in Elements |-> 0]]
  /\ writeIdx = 0
  /\ pending = FALSE
  /\ frameId = 0 /\ lastWrite = 0 /\ lastRead = 0
  /\ writer = "idle"
  /\ filling = [at |-> 0, left |-> {}]
  /\ reader = "idle"
  /\ reading = [left |-> {}, frames |-> {}]

(* Mutant of MayFill: the producer does not ask is_committed.              *)
MayFillAlways == TRUE

MayFill == ~pending

GetWriteBuffer ==
  /\ writer = "idle"
  /\ frameId < MaxFrames
  /\ MayFill
  /\ filling' = [at |-> writeIdx, left |-> Elements]
  /\ writer' = "fill"
  /\ UNCHANGED <<members, reader, reading>>

Fill(e) ==
  /\ writer = "fill"
  /\ e \in filling.left
  /\ buffers' = [buffers EXCEPT ![filling.at][e] = frameId + 1]
  /\ filling' = [filling EXCEPT !.left = @ \ {e}]
  /\ UNCHANGED <<writeIdx, pending, frameId, lastWrite, lastRead, writer, reader, reading>>

(* commit refuses a second frame.                                          *)
CommitRefused ==
  /\ writer = "idle"
  /\ pending
  /\ UNCHANGED vars

CommitId ==
  /\ writer = "fill" /\ filling.left = {}
  /\ ~pending
  /\ frameId' = frameId + 1
  /\ writer' = "pend"
  /\ UNCHANGED <<buffers, writeIdx, pending, lastWrite, lastRead, filling, reader, reading>>

CommitPending ==
  /\ writer = "pend"
  /\ pending' = TRUE
  /\ writer' = "stamp"
  /\ UNCHANGED <<buffers, writeIdx, frameId, lastWrite, lastRead, filling, reader, reading>>

(* The frame's id is stored after the flag that lets the consumer swap.    *)
CommitStamp ==
  /\ writer = "stamp"
  /\ lastWrite' = frameId
  /\ writer' = "idle"
  /\ UNCHANGED <<buffers, writeIdx, pending, frameId, lastRead, filling, reader, reading>>

(* try_swap: the flag, the index, the id, the flag again.                  *)
SwapBegin ==
  /\ reader = "idle"
  /\ pending
  /\ reader' = "swap"
  /\ UNCHANGED <<members, writer, filling, reading>>

(* try_swap finds no frame.                                                *)
SwapRefused ==
  /\ reader = "idle"
  /\ ~pending
  /\ UNCHANGED vars

SwapIndex ==
  /\ reader = "swap"
  /\ writeIdx' = 1 - writeIdx
  /\ reader' = "stamp"
  /\ UNCHANGED <<buffers, pending, frameId, lastWrite, lastRead, writer, filling, reading>>

SwapStamp ==
  /\ reader = "stamp"
  /\ lastRead' = lastWrite
  /\ reader' = "clear"
  /\ UNCHANGED <<buffers, writeIdx, pending, frameId, lastWrite, writer, filling, reading>>

SwapClear ==
  /\ reader = "clear"
  /\ pending' = FALSE
  /\ reader' = "read"
  /\ reading' = [left |-> Elements, frames |-> {}]
  /\ UNCHANGED <<buffers, writeIdx, frameId, lastWrite, lastRead, writer, filling>>

Read(e) ==
  /\ reader = "read"
  /\ e \in reading.left
  /\ reading' = [left |-> reading.left \ {e},
                 frames |-> reading.frames \cup {buffers[1 - writeIdx][e]}]
  /\ UNCHANGED <<members, writer, filling, reader>>

ReadEnd ==
  /\ reader = "read" /\ reading.left = {}
  /\ reader' = "idle"
  /\ reading' = [reading EXCEPT !.frames = {}]
  /\ UNCHANGED <<members, writer, filling>>

Next ==
  \/ GetWriteBuffer \/ CommitRefused \/ CommitId \/ CommitPending \/ CommitStamp
  \/ SwapBegin \/ SwapRefused \/ SwapIndex \/ SwapStamp \/ SwapClear \/ ReadEnd
  \/ \E e \in Elements : Fill(e) \/ Read(e)

Spec == Init /\ [][Next]_vars

-----------------------------------------------------------------------------
Frames == 0 .. MaxFrames

TypeOK ==
  /\ buffers \in [{0, 1} -> [Elements -> 0 .. MaxFrames + 1]]
  /\ writeIdx \in {0, 1} /\ pending \in BOOLEAN
  /\ frameId \in Frames /\ lastWrite \in Frames /\ lastRead \in Frames

(* The consumer never sees elements of two frames in one buffer, and the   *)
(* buffer it reads is not the one being filled.                            *)
NotTorn ==
  /\ Cardinality(reading.frames) <= 1
  /\ reader = "read" /\ writer = "fill" => filling.at = writeIdx

(* While the consumer reads frame n, current_read_frame_id is n, or n - 1  *)
(* when the swap overtook the end of commit; never anything older or newer.*)
ReadIdLags == \A n \in reading.frames : lastRead \in {n - 1, n}

(* A frame is not skipped and none is read twice: the buffer given to the  *)
(* producer next was read after it was committed.                          *)
NoFrameSkipped ==
  [][\A n, k \in Frames :
       reader = "clear" /\ reader' = "read"
       /\ (\A e \in Elements : buffers[1 - writeIdx][e] = n /\ buffers[writeIdx][e] = k)
       => n = k + 1]_vars
=============================================================================
