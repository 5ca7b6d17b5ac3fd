---------------------------- MODULE SqliteWriter ----------------------------
(***************************************************************************)
(* SqliteTrajectoryWriter of                                               *)
(* python_modules/jupedsim/jupedsim/sqlite_serialization.py, driven by the *)
(* host loop.  A frame is inserted row by row into trajectory_data and     *)
(* listed in frame_data; every few frames the open transaction is          *)
(* committed.  Python's sqlite3 opens a transaction before an INSERT when  *)
(* none is open.                                                           *)
(*                                                                         *)
(* In a "busy" run, a statement that needs a lock can raise because        *)
(* another connection reads or writes the database.  In an "interrupted"   *)
(* run, an exception can come up between two statements (a                 *)
(* KeyboardInterrupt).                                                     *)
(***************************************************************************)
EXTENDS HostLoop

CONSTANTS
  CommitEveryNth,  \* commit_every_nth_write
  Modes,           \* the kinds of runs: "calm", "busy", "interrupted"
  MaxBuffered      \* bound: frames an interrupted COMMIT leaves counted

ASSUME WriterAssumption == /\ CommitEveryNth \in Nat \ {0}
                           /\ Modes \subseteq {"calm", "busy", "interrupted"}
                           /\ MaxBuffered \in Nat

VARIABLES
  mode,      \* what may fail in this run
  con,       \* is the connection open? (_con is not None)
  inTx,      \* is a transaction open?
  disk,      \* the tables as another connection reads them
  tables,    \* the tables as this connection sees them
  buffered,  \* _buffered_frame_count
  refused,   \* history: was the last COMMIT refused?
  inserted   \* history: the rows inserted since begin_writing()

db == <<inTx, disk, tables>>
hist == <<refused, inserted>>
vars == <<mode, loop, con, db, buffered, hist>>

Row(f, id) == [frame |-> f, id |-> id]
RowsOf(f, ids) == [i \in DOMAIN ids |-> Row(f, ids[i])]
Tables == [rows : Seq([frame : 0 .. MaxIteration, id : AgentId]),  \* trajectory_data
           index : Seq(0 .. MaxIteration)]                         \* frame_data
EmptyTables == [rows |-> <<>>, index |-> <<>>]

Init == /\ LoopInit
        /\ mode \in Modes
        /\ con = TRUE
        /\ inTx = FALSE
        /\ disk = EmptyTables
        /\ tables = EmptyTables
        /\ buffered = 0
        /\ refused = FALSE
        /\ inserted = <<>>

(***************************************************************************)
(* begin_writing drops and creates all tables in a transaction of its own. *)
(***************************************************************************)
Created == EmptyTables

BeginWriting == /\ pc = "begin"
                /\ con
                /\ ~inTx
                /\ disk' = Created
                /\ tables' = disk'
                /\ inserted' = <<>>
                /\ Goto("write")
                /\ UNCHANGED <<con, inTx, buffered, refused>>

\* The connection is closed or has a transaction open, which BEGIN refuses.
BeginRefused == /\ pc = "begin"
                /\ ~con \/ inTx
                /\ Raise
                /\ UNCHANGED <<con, db, buffered, hist>>

\* trajectory_data is dropped, frame_data not yet.
RowsDropped == [tables EXCEPT !.rows = <<>>]

\* DROP TABLE or COMMIT needs a lock, or an interrupt comes between two
\* statements: the transaction stays open.
BeginBusy == /\ mode # "calm"
             /\ pc = "begin"
             /\ con
             /\ ~inTx
             /\ inTx' = TRUE
             /\ \/ tables' \in {tables, EmptyTables}
                \/ mode = "interrupted" /\ tables' = RowsDropped
             /\ Raise
             /\ UNCHANGED <<con, disk, buffered, hist>>

(***************************************************************************)
(* write_iteration_state: rows, frame index, count, COMMIT when due.       *)
(***************************************************************************)
SkipFrame == /\ pc = "write"
             /\ con
             /\ ~Recorded
             /\ Done
             /\ UNCHANGED <<con, db, buffered, hist>>

NotOpened == /\ pc = "write"
             /\ ~con
             /\ Raise
             /\ UNCHANGED <<con, db, buffered, hist>>

TxAfterInsert == TRUE

InsertRows == /\ pc = "write"
              /\ con
              /\ Recorded
              /\ inTx' = TxAfterInsert
              /\ tables' = [tables EXCEPT !.rows = @ \o RowsOf(Frame, agents)]
              /\ inserted' = inserted \o RowsOf(Frame, agents)
              /\ Goto("index")
              /\ UNCHANGED <<con, disk, buffered, refused>>

\* The first INSERT of a transaction needs a lock.
InsertBusy == /\ mode = "busy"
              /\ pc = "write"
              /\ con
              /\ Recorded
              /\ tables = disk
              /\ inTx' = TRUE
              /\ Raise
              /\ UNCHANGED <<con, disk, tables, buffered, hist>>

\* The frame is listed, whether its geometry is new or not.
BugListed == IF tables.index = <<>> THEN <<Frame>> ELSE tables.index
Listed == Append(tables.index, Frame)

InsertFrame == /\ pc = "index"
               /\ tables' = [tables EXCEPT !.index = Listed]
               /\ Goto("count")
               /\ UNCHANGED <<con, inTx, disk, buffered, hist>>

\* Not only when the counts are equal: a COMMIT may have been refused.
CommitDue(count) == count >= CommitEveryNth

CountFrame == /\ pc = "count"
              /\ buffered' = buffered + 1
              /\ refused' = FALSE
              /\ IF CommitDue(buffered') THEN Goto("commit") ELSE Done
              /\ UNCHANGED <<con, db, inserted>>

BugAfterCommit == buffered  \* the count goes on
AfterCommit == 0

Commit == /\ pc = "commit"
          /\ inTx' = FALSE
          /\ disk' = tables
          /\ buffered' = AfterCommit
          /\ Done
          /\ UNCHANGED <<con, tables, hist>>

CommitBusy == /\ mode = "busy"
              /\ pc = "commit"
              /\ refused' = TRUE
              /\ Raise
              /\ UNCHANGED <<con, db, buffered, inserted>>

\* An interrupt between two statements; after COMMIT the count is still old.
Interrupted == /\ mode = "interrupted"
               /\ pc \in {"write", "index", "count", "commit"}
               /\ pc = "commit" => buffered <= MaxBuffered
               /\ \/ UNCHANGED <<inTx, disk>>
                  \/ pc = "commit" /\ inTx' = FALSE /\ disk' = tables
               /\ refused' = (refused \/ pc = "commit")
               /\ Raise
               /\ UNCHANGED <<con, tables, buffered, inserted>>

(***************************************************************************)
(* close: COMMIT if frames are counted, then close the connection, which   *)
(* drops an open transaction.                                              *)
(***************************************************************************)
BugFlushDue == buffered >= CommitEveryNth
FlushDue == buffered # 0

Close == /\ pc = "host"
         /\ con
         /\ con' = FALSE
         /\ inTx' = FALSE
         /\ disk' = IF FlushDue /\ inTx THEN tables ELSE disk
         /\ tables' = disk'
         /\ buffered' = 0
         /\ refused' = FALSE
         /\ UNCHANGED <<loop, inserted>>

CloseBusy == /\ mode = "busy"
             /\ pc = "host"
             /\ con
             /\ buffered # 0
             /\ con' = FALSE
             /\ inTx' = FALSE
             /\ tables' = disk
             /\ buffered' = 0
             /\ refused' = TRUE
             /\ UNCHANGED <<loop, disk, inserted>>

HostStep == /\ HostChanges \/ CallIterate \/ CoreIterates \/ CoreThrows
            /\ UNCHANGED <<con, db, buffered, hist>>

Step == \/ HostStep
        \/ BeginWriting \/ BeginRefused \/ BeginBusy
        \/ SkipFrame \/ NotOpened \/ InsertRows \/ InsertBusy
        \/ InsertFrame \/ CountFrame \/ Commit \/ CommitBusy \/ Interrupted
        \/ Close \/ CloseBusy
Next == Step /\ UNCHANGED mode
Spec == Init /\ [][Next]_vars

\* The log, except in interrupted runs.  A COMMIT that close() was refused
\* leaves the log where it was.
Log == INSTANCE TrajectoryLog WITH
         recording <- (con \/ refused) /\ mode # "interrupted",
         recorded <- IF mode = "interrupted" THEN <<>> ELSE inserted,
         durable <- IF mode = "interrupted" THEN <<>> ELSE disk.rows

-----------------------------------------------------------------------------
\* Types of the variables.
TypeOK ==
  /\ mode \in {"calm", "busy", "interrupted"}
  /\ pc \in {"host", "begin", "core", "write", "index", "count", "commit"}
  /\ left \in 0 .. MaxCount
  /\ clock \in 0 .. MaxIteration
  /\ agents \in Containers
  /\ con \in BOOLEAN /\ inTx \in BOOLEAN /\ refused \in BOOLEAN
  /\ disk \in Tables /\ tables \in Tables
  /\ buffered \in Nat
  /\ inserted \in Seq([frame : 0 .. MaxIteration, id : AgentId])
  /\ ~inTx => tables = disk

\* close() has committed what an interrupted begin_writing() left: it does if
\* frames were still counted because an interrupt came after their COMMIT.
HalfDropped == mode = "interrupted" /\ ~con /\ disk.rows = <<>>

\* Another connection never reads a part of a frame: frame_data lists frames
\* once and in order, trajectory_data holds the first of the rows inserted, with
\* all rows of a frame that is listed (unless all rows are gone, HalfDropped);
\* without interrupts no other rows are there.
FramesWhole ==
  /\ \A i, k \in DOMAIN disk.index : i < k => disk.index[i] < disk.index[k]
  /\ IsPrefix(disk.rows, inserted)
  /\ \A k \in DOMAIN inserted :
       inserted[k].frame \in ToSet(disk.index) => k <= Len(disk.rows) \/ HalfDropped
  /\ mode # "interrupted" => \A i \in DOMAIN disk.rows : disk.rows[i].frame \in ToSet(disk.index)

\* The database is what another connection may expect of it at any time.
DatabaseSound == TypeOK /\ FramesWhole

\* The count is the number of frames other connections cannot read yet, so
\* close() commits whenever there is something to commit; or begin_writing()
\* has dropped the tables again and could not commit that.
CountExact ==
  con /\ pc # "count" /\ mode # "interrupted" =>
    \/ buffered = Len(tables.index) - Len(disk.index)
    \/ inTx /\ buffered = 0 /\ tables = EmptyTables

\* commit_every_nth_write bounds the frames held back, except while the last
\* COMMIT was refused: the next frame commits them, too.
HeldBackBounded ==
  buffered >= CommitEveryNth /\ mode # "interrupted" => pc = "commit" \/ refused

\* Frames are held back only as far as commit_every_nth_write allows.
BufferingSound == CountExact /\ HeldBackBounded

\* Rows reach the database in order, none twice, and close() leaves all of them
\* there unless its COMMIT is refused: the writer implements TrajectoryLog.
WritesLog == Log!Spec
=============================================================================
