----------------------------- MODULE Hdf5Writer -----------------------------
(***************************************************************************)
(* Hdf5TrajectoryWriter of                                                 *)
(* python_modules/jupedsim/jupedsim/hdf5_serialization.py, driven by the   *)
(* host loop.  Rows and frame offsets are collected in two buffers that    *)
(* are appended to two datasets when they are full; close() appends what   *)
(* is left.  The index of a buffer is its length here.                     *)
(*                                                                         *)
(* In a fallible run, an exception can come up where the code talks to the *)
(* file or between two statements of the loop over the agents (an OSError  *)
(* of HDF5, a KeyboardInterrupt).                                          *)
(***************************************************************************)
EXTENDS HostLoop

CONSTANTS
  Chunk,         \* _records_to_cache
  OffsetChunk,   \* 1024: frame offsets buffered at a time
  Fallible       \* may writing to the file raise?  TRUE, FALSE or either

ASSUME BufferAssumption == /\ Chunk \in Nat \ {0}
                           /\ OffsetChunk \in Nat \ {0}
                           /\ Fallible \subseteq BOOLEAN

VARIABLES
  fallible,        \* may writing to the file raise in this run?
  isWriting,       \* _is_writing
  fileOpen,        \* is the HDF5 file open?
  trajectory,      \* the dataset /trajectory
  frameOffsets,    \* the dataset /frame_offsets
  rowBuffer,       \* _trajectory_buffer up to _record_idx
  offsetBuffer,    \* _frame_offset_buffer up to _frame_idx
  recordsWritten,  \* _records_written
  todo,            \* the agents the loop over agents() has not reached
  recorded         \* history: the rows stored since begin_writing()

file == <<fileOpen, trajectory, frameOffsets>>
buffers == <<rowBuffer, offsetBuffer, recordsWritten>>
vars == <<fallible, loop, isWriting, file, buffers, todo, recorded>>

Row(f, id) == [frame |-> f, id |-> id]
Blank == Row(0, 0)     \* the fill value of a dataset that was only resized

Init == /\ LoopInit
        /\ fallible \in Fallible
        /\ isWriting = FALSE
        /\ fileOpen = FALSE
        /\ trajectory = <<>>
        /\ frameOffsets = <<>>
        /\ rowBuffer = <<>>
        /\ offsetBuffer = <<>>
        /\ recordsWritten = 0
        /\ todo = <<>>
        /\ recorded = <<>>

(***************************************************************************)
(* _append: resize the dataset, write the rows, flush.  An exception in    *)
(* between leaves the dataset as it was, with fill values or complete.     *)
(***************************************************************************)
Appended(data, rows) == data \o rows
BrokenAppends(data, rows, fill) == {data, data \o [i \in DOMAIN rows |-> fill], data \o rows}

\* The code tests for equality after every store.
RowsFull(buffer) == Len(buffer) = Chunk
OffsetsFull(buffer) == Len(buffer) = OffsetChunk

\* The offset of a frame; counting the rows of the file instead would forget
\* those that are buffered.
BugOffset == Len(trajectory)
Offset == recordsWritten

\* begin_writing: the header is written to an empty file.  When the flush at
\* its end fails the writer counts as writing.
BeginWriting == /\ pc = "begin"
                /\ ~isWriting
                /\ isWriting' = TRUE
                /\ fileOpen' = TRUE
                /\ trajectory' = <<>>
                /\ frameOffsets' = <<>>
                /\ rowBuffer' = <<>>
                /\ offsetBuffer' = <<>>
                /\ recordsWritten' = 0
                /\ recorded' = <<>>
                /\ Goto("write") \/ (fallible /\ Raise)
                /\ UNCHANGED todo

BeginRefused == /\ pc = "begin"
                /\ isWriting
                /\ Raise
                /\ UNCHANGED <<isWriting, file, buffers, todo, recorded>>

\* The file cannot be opened, or not the header be written: then the file is
\* closed and deleted again.
HeaderFails == /\ fallible
               /\ pc = "begin"
               /\ ~isWriting
               /\ fileOpen' = FALSE
               /\ \/ UNCHANGED <<trajectory, frameOffsets>>
                  \/ trajectory' = <<>> /\ frameOffsets' = <<>>
               /\ Raise
               /\ UNCHANGED <<isWriting, buffers, todo, recorded>>

(***************************************************************************)
(* write_iteration_state.                                                  *)
(***************************************************************************)
SkipFrame == /\ pc = "write"
             /\ isWriting
             /\ ~Recorded
             /\ Done
             /\ UNCHANGED <<isWriting, file, buffers, todo, recorded>>

\* Not open, or interrupted before the frame is begun.  An offset buffer whose
\* append failed is still full: the next store is out of range.
WriteRaises == /\ pc = "write"
               /\ \/ ~isWriting
                  \/ fallible
                  \/ Recorded /\ OffsetsFull(offsetBuffer)
               /\ Raise
               /\ UNCHANGED <<isWriting, file, buffers, todo, recorded>>

StartFrame == /\ pc = "write"
              /\ isWriting
              /\ Recorded
              /\ ~OffsetsFull(offsetBuffer)
              /\ offsetBuffer' = Append(offsetBuffer, Offset)
              /\ todo' = agents
              /\ Goto(IF OffsetsFull(offsetBuffer') THEN "offsets" ELSE "rows")
              /\ UNCHANGED <<isWriting, file, rowBuffer, recordsWritten, recorded>>

AppendOffsets == /\ pc = "offsets"
                 /\ frameOffsets' = Appended(frameOffsets, offsetBuffer)
                 /\ offsetBuffer' = <<>>
                 /\ Goto("rows")
                 /\ UNCHANGED <<isWriting, fileOpen, trajectory, rowBuffer,
                                recordsWritten, todo, recorded>>

AppendOffsetsFails == /\ fallible
                      /\ pc = "offsets"
                      /\ frameOffsets' \in BrokenAppends(frameOffsets, offsetBuffer, 0)
                      /\ Raise
                      /\ UNCHANGED <<isWriting, fileOpen, trajectory, buffers, todo, recorded>>

WriteRow == /\ pc = "rows"
            /\ todo # <<>>
            /\ ~RowsFull(rowBuffer)
            /\ rowBuffer' = Append(rowBuffer, Row(Frame, Head(todo)))
            /\ recorded' = Append(recorded, Row(Frame, Head(todo)))
            /\ recordsWritten' = recordsWritten + 1
            /\ todo' = Tail(todo)
            /\ Goto(IF RowsFull(rowBuffer') THEN "chunk" ELSE "rows")
            /\ UNCHANGED <<isWriting, file, offsetBuffer>>

\* The loop is interrupted, or the store is out of range because the append
\* of a full buffer failed before.  A row is counted before it is stored.
RowFails == /\ fallible
            /\ pc = "rows"
            /\ \/ UNCHANGED recordsWritten
               \/ todo # <<>> /\ recordsWritten' = recordsWritten + 1
            /\ Raise
            /\ UNCHANGED <<isWriting, file, rowBuffer, offsetBuffer, todo, recorded>>

AppendChunk == /\ pc = "chunk"
               /\ trajectory' = Appended(trajectory, rowBuffer)
               /\ rowBuffer' = <<>>
               /\ Goto("rows")
               /\ UNCHANGED <<isWriting, fileOpen, frameOffsets, offsetBuffer,
                              recordsWritten, todo, recorded>>

\* A failed append of a chunk is tried again.
BugRetry == /\ fallible
            /\ pc = "chunk"
            /\ trajectory' \in BrokenAppends(trajectory, rowBuffer, Blank)
            /\ UNCHANGED <<loop, isWriting, fileOpen, frameOffsets, buffers, todo, recorded>>

AppendChunkFails == /\ fallible
                    /\ pc = "chunk"
                    /\ trajectory' \in BrokenAppends(trajectory, rowBuffer, Blank)
                    /\ Raise
                    /\ UNCHANGED <<isWriting, fileOpen, frameOffsets, buffers, todo, recorded>>

EndFrame == /\ pc = "rows"
            /\ todo = <<>>
            /\ Done
            /\ UNCHANGED <<isWriting, file, buffers, todo, recorded>>

(***************************************************************************)
(* close: the last offset is the total, then the rows that are left.       *)
(***************************************************************************)
BugRemaining == trajectory  \* without the rows that are left
Remaining == Appended(trajectory, rowBuffer)

Close == /\ pc = "host"
         /\ isWriting
         /\ ~OffsetsFull(offsetBuffer)
         /\ isWriting' = FALSE
         /\ fileOpen' = FALSE
         /\ offsetBuffer' = Append(offsetBuffer, Offset)
         /\ frameOffsets' = Appended(frameOffsets, offsetBuffer')
         /\ trajectory' = Remaining
         /\ UNCHANGED <<loop, rowBuffer, recordsWritten, todo, recorded>>

\* The offset buffer is still full, or one of the two appends fails: the
\* file is closed without what is missing.
CloseFails ==
  /\ fallible
  /\ pc = "host"
  /\ isWriting
  /\ isWriting' = FALSE
  /\ fileOpen' = FALSE
  /\ \/ /\ OffsetsFull(offsetBuffer)
        /\ UNCHANGED <<frameOffsets, trajectory, offsetBuffer>>
     \/ /\ ~OffsetsFull(offsetBuffer)
        /\ offsetBuffer' = Append(offsetBuffer, Offset)
        /\ \/ /\ frameOffsets' \in BrokenAppends(frameOffsets, offsetBuffer', 0)
              /\ UNCHANGED trajectory
           \/ /\ rowBuffer # <<>>
              /\ frameOffsets' = Appended(frameOffsets, offsetBuffer')
              /\ trajectory' \in BrokenAppends(trajectory, rowBuffer, Blank)
  /\ UNCHANGED <<loop, rowBuffer, recordsWritten, todo, recorded>>

Idle == UNCHANGED <<isWriting, file, buffers, todo, recorded>>
HostStep == Idle /\ (HostChanges \/ CallIterate \/ CoreIterates \/ CoreThrows)

Step == \/ HostStep
        \/ BeginWriting \/ BeginRefused \/ HeaderFails
        \/ SkipFrame \/ WriteRaises \/ StartFrame
        \/ AppendOffsets \/ AppendOffsetsFails
        \/ WriteRow \/ RowFails \/ AppendChunk \/ AppendChunkFails \/ EndFrame
        \/ Close \/ CloseFails
Next == Step /\ UNCHANGED fallible
Spec == Init /\ [][Next]_vars

\* The log as long as nothing raises; a fallible run promises none.
Log == INSTANCE TrajectoryLog WITH recording <- isWriting /\ ~fallible,
                                   recorded <- IF fallible THEN <<>> ELSE recorded,
                                   durable <- IF fallible THEN <<>> ELSE trajectory

-----------------------------------------------------------------------------
RowSet == [frame : 0 .. MaxIteration, id : AgentId]

\* Types of the variables; between two calls no buffer is full.
TypeOK ==
  /\ fallible \in BOOLEAN
  /\ pc \in {"host", "begin", "core", "write", "offsets", "rows", "chunk"}
  /\ left \in 0 .. MaxCount
  /\ clock \in 0 .. MaxIteration
  /\ agents \in Containers
  /\ isWriting \in BOOLEAN /\ fileOpen = isWriting
  /\ trajectory \in Seq(RowSet \cup {Blank})
  /\ rowBuffer \in Seq(RowSet) /\ recorded \in Seq(RowSet)
  /\ frameOffsets \in Seq(Nat) /\ offsetBuffer \in Seq(Nat)
  /\ recordsWritten \in Nat
  /\ todo \in Seq(AgentId)
  /\ pc = "host" /\ ~fallible /\ isWriting
       => Len(rowBuffer) < Chunk /\ Len(offsetBuffer) < OffsetChunk

\* At every moment, also if the process is killed, the file holds the rows of
\* all complete chunks and no other row (_append and the loop over the agents).
WholeChunks ==
  isWriting /\ ~fallible =>
    LET full == (Len(recorded) \div Chunk) * Chunk
        kept == IF pc = "chunk" THEN full - Chunk ELSE full
    IN trajectory = SubSeq(recorded, 1, kept)

\* The rows of frame i are those from its offset up to the next one, whenever
\* both are in the file; after close() the last offset is the number of rows.
FramesIndexed ==
  ~fallible =>
    /\ \A i \in 1 .. Len(frameOffsets) - 1 : \A k \in DOMAIN trajectory :
         trajectory[k].frame = i - 1 <=> frameOffsets[i] < k /\ k <= frameOffsets[i + 1]
    /\ ~isWriting /\ frameOffsets # <<>> => Last(frameOffsets) = Len(trajectory)

\* The file is what a reader may expect of it, whenever the process stops.
FileSound == TypeOK /\ WholeChunks /\ FramesIndexed

\* Nothing is recorded twice, out of order or lost between buffers, chunks and
\* close(): the writer implements TrajectoryLog.
WritesLog == Log!Spec

\* Whatever raised before, a row of the open file is the row recorded at its
\* place or one a broken append left empty; no chunk is appended twice.
RowsKeepPlace ==
  isWriting => /\ Len(trajectory) <= Len(recorded)
               /\ \A k \in DOMAIN trajectory : trajectory[k] \in {recorded[k], Blank}

=============================================================================
