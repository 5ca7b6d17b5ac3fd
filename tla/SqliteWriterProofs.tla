------------------------- MODULE SqliteWriterProofs -------------------------
(***************************************************************************)
(* What holds of SqliteWriter for any number of agents and any interval    *)
(* between frames and between COMMITs.                                     *)
(***************************************************************************)
EXTENDS SqliteWriter, FiniteSetTheorems, SequenceTheorems, TLAPS

AnyRow == [frame : Int, id : Nat]
AnyTables == [rows : Seq(AnyRow), index : Seq(Int)]

Typed ==
  /\ disk \in AnyTables /\ tables \in AnyTables /\ inserted \in Seq(AnyRow)
  /\ agents \in Seq(Nat) /\ clock \in Int /\ buffered \in Nat
  /\ pc = "begin" => clock = 0

\* Without a transaction there is nothing other connections cannot read.
TxInv ==
  /\ ~inTx => tables = disk
  /\ pc \in {"index", "count", "commit"} => con /\ inTx

\* begin_writing() has dropped the tables and could not commit that: everything
\* recorded is still on the disk, and no call gets past begin_writing() again.
Dropped ==
  /\ inTx /\ buffered = 0 /\ tables = EmptyTables
  /\ disk.rows = inserted
  /\ clock = 0 /\ pc \in {"host", "begin"}

\* The tables hold what was recorded, the disk a part of it that is missing
\* the frames counted.
Follows ==
  /\ tables.rows = inserted
  /\ IsPrefix(disk.rows, inserted)
  /\ Len(tables.index) - Len(disk.index) = IF pc = "count" THEN buffered + 1 ELSE buffered
  /\ buffered = 0 /\ pc \notin {"index", "count"} => tables = disk

HeldBack == buffered >= CommitEveryNth => pc = "commit" \/ refused

OpenInv == con /\ mode # "interrupted" => (Dropped \/ Follows)
LimitInv == mode # "interrupted" => HeldBack

IInv == Typed /\ TxInv /\ OpenInv /\ LimitInv

-----------------------------------------------------------------------------
(* Facts about rows and tables                                             *)

LEMMA ContainersAreSequences ==
  ASSUME NEW ids \in Containers
  PROVE  ids \in Seq(Nat)
<1>1. PICK n \in 0 .. Cardinality(AgentId) : ids \in [1 .. n -> AgentId]
  BY DEF Containers
<1>2. n \in Nat
  BY <1>1, LoopAssumption, FS_CardinalityType
<1>3. ids \in [1 .. n -> Nat]
  BY <1>1, LoopAssumption
<1> QED
  BY <1>2, <1>3

LEMMA FramesAreTyped ==
  ASSUME clock \in Int, agents \in Seq(Nat)
  PROVE  /\ Frame \in Int
         /\ RowsOf(Frame, agents) \in Seq(AnyRow)
         /\ Len(RowsOf(Frame, agents)) = Len(agents)
<1>1. Frame \in Int
  BY LoopAssumption DEF Frame
<1>2. \A i \in DOMAIN agents : Row(Frame, agents[i]) \in AnyRow
  BY <1>1 DEF Row, AnyRow
<1>3. /\ [i \in DOMAIN agents |-> Row(Frame, agents[i])] \in Seq(AnyRow)
      /\ Len([i \in DOMAIN agents |-> Row(Frame, agents[i])]) = Len(agents)
  BY <1>2
<1> QED
  BY <1>1, <1>3 DEF RowsOf

LEMMA EmptyTablesTyped ==
  /\ EmptyTables \in AnyTables /\ EmptyTables.rows = <<>> /\ EmptyTables.index = <<>>
  /\ <<>> \in Seq(AnyRow) /\ Len(<<>>) = 0
BY DEF EmptyTables, AnyTables

LEMMA TablesAreSequences ==
  ASSUME NEW t \in AnyTables
  PROVE  t.rows \in Seq(AnyRow) /\ t.index \in Seq(Int) /\ Len(t.index) \in Nat
BY DEF AnyTables

\* Prefixes of rows: of themselves, and of what is longer.
LEMMA PrefixOfItself ==
  ASSUME NEW s \in Seq(AnyRow)
  PROVE  IsPrefix(s, s)
<1>1. SubSeq(s, 1, Len(s)) = s
  OBVIOUS
<1> QED
  BY <1>1 DEF IsPrefix

LEMMA PrefixOfNothing ==
  ASSUME NEW s \in Seq(AnyRow), IsPrefix(s, <<>>)
  PROVE  s = <<>>
<1>1. Len(s) \in Nat /\ Len(s) <= 0
  BY DEF IsPrefix
<1> QED
  BY <1>1

LEMMA PrefixOfLonger ==
  ASSUME NEW d \in Seq(AnyRow), NEW s \in Seq(AnyRow), NEW t \in Seq(AnyRow),
         IsPrefix(d, s)
  PROVE  IsPrefix(d, s \o t)
<1>1. Len(d) <= Len(s) /\ SubSeq(d, 1, Len(d)) = SubSeq(s, 1, Len(d))
  BY DEF IsPrefix
<1>2. /\ Len(s \o t) = Len(s) + Len(t) /\ s \o t \in Seq(AnyRow)
      /\ Len(d) \in Nat /\ Len(s) \in Nat /\ Len(t) \in Nat
  OBVIOUS
<1>3. SubSeq(s \o t, 1, Len(d)) = SubSeq(s, 1, Len(d))
  BY <1>1, <1>2, SubSeqOfConcat1
<1>4. Len(d) <= Len(s \o t)
  BY <1>1, <1>2
<1> QED
  BY <1>1, <1>3, <1>4 DEF IsPrefix

-----------------------------------------------------------------------------
(* The inductive invariant                                                 *)

LEMMA InvariantInitially == Init => IInv
<1> SUFFICES ASSUME Init PROVE IInv
  OBVIOUS
<1>1. agents \in Seq(Nat) /\ clock = 0 /\ pc = "host"
  BY ContainersAreSequences DEF Init, LoopInit
<1>2. /\ disk = EmptyTables /\ tables = EmptyTables /\ buffered = 0 /\ inserted = <<>>
      /\ inTx = FALSE
  BY DEF Init
<1>3. Typed /\ TxInv
  BY <1>1, <1>2, EmptyTablesTyped DEF Typed, TxInv
<1>4. Follows
  <2>1. tables.rows = inserted /\ disk.rows = inserted /\ IsPrefix(inserted, inserted)
    BY <1>2, EmptyTablesTyped, PrefixOfItself
  <2>2. Len(tables.index) - Len(disk.index) = 0
    BY <1>2, EmptyTablesTyped
  <2> QED
    BY <1>1, <1>2, <2>1, <2>2 DEF Follows
<1>5. HeldBack
  BY <1>2, WriterAssumption DEF HeldBack
<1> QED
  BY <1>3, <1>4, <1>5 DEF IInv, OpenInv, LimitInv

\* Steps of the host, of the core and of calls that do not reach the database.
LEMMA Untouched ==
  ASSUME IInv, UNCHANGED <<mode, con, inTx, disk, tables, buffered, refused, inserted>>,
         agents' \in Seq(Nat), clock' \in Int,
         pc' = "begin" => clock' = 0,
         {pc, pc'} \cap {"index", "count", "commit"} = {},
         Dropped => clock' = 0 /\ pc' \in {"host", "begin"}
  PROVE  IInv'
<1>1. Typed'
  BY DEF IInv, Typed
<1>2. TxInv'
  BY DEF IInv, TxInv
<1>3. Follows => Follows'
  BY DEF Follows
<1>4. Dropped => Dropped'
  BY DEF Dropped
<1>5. HeldBack => HeldBack'
  BY DEF HeldBack
<1>6. OpenInv'
  BY <1>3, <1>4 DEF IInv, OpenInv
<1>7. LimitInv'
  BY <1>5 DEF IInv, LimitInv
<1> QED
  BY <1>1, <1>2, <1>6, <1>7 DEF IInv

LEMMA LoopKeeps ==
  ASSUME IInv, HostStep, UNCHANGED mode
  PROVE  IInv'
<1>1. UNCHANGED <<con, inTx, disk, tables, buffered, refused, inserted>>
  BY DEF HostStep, db, hist
<1>2. agents \in Seq(Nat) /\ clock \in Int /\ (pc = "begin" => clock = 0)
  BY DEF IInv, Typed
<1>3. CASE HostChanges
  BY <1>1, <1>2, <1>3, ContainersAreSequences, Untouched DEF HostChanges, Dropped
<1>4. CASE CallIterate
  <2>1. /\ pc = "host" /\ UNCHANGED <<agents, clock>>
        /\ pc' = "begin" \/ pc' = "core" \/ pc' = "host"
        /\ clock = 0 <=> pc' = "begin"
    BY <1>4 DEF CallIterate, Loop
  <2> QED
    BY <1>1, <1>2, <2>1, Untouched DEF Dropped
<1>5. CASE CoreIterates
  <2>1. pc = "core" /\ pc' = "write" /\ agents' \in Seq(Nat) /\ clock' \in Int
    BY <1>2, <1>5, ContainersAreSequences DEF CoreIterates
  <2> QED
    BY <1>1, <2>1, Untouched DEF Dropped
<1>6. CASE CoreThrows
  <2>1. pc = "core" /\ pc' = "host" /\ UNCHANGED <<agents, clock>>
    BY <1>6 DEF CoreThrows, Raise
  <2> QED
    BY <1>1, <1>2, <2>1, Untouched DEF Dropped
<1> QED
  BY <1>3, <1>4, <1>5, <1>6 DEF HostStep

LEMMA BeginKeeps ==
  ASSUME IInv, BeginWriting, UNCHANGED mode
  PROVE  IInv'
<1>1. /\ pc = "begin" /\ pc' = "write" /\ ~inTx /\ UNCHANGED <<con, inTx, buffered, refused, agents, clock>>
      /\ disk' = EmptyTables /\ tables' = EmptyTables /\ inserted' = <<>> /\ con
  BY DEF BeginWriting, Created, Goto
<1>2. Typed'
  BY <1>1, EmptyTablesTyped DEF IInv, Typed
<1>3. TxInv'
  BY <1>1 DEF TxInv
<1>4. mode # "interrupted" => Follows'
  <2> SUFFICES ASSUME mode # "interrupted" PROVE Follows'
    OBVIOUS
  <2>1. Follows /\ tables = disk
    BY <1>1 DEF IInv, OpenInv, TxInv, Dropped
  <2>2. buffered = 0
    BY <1>1, <2>1, TablesAreSequences DEF Follows, IInv, Typed
  <2>3. IsPrefix(<<>>, <<>>)
    BY EmptyTablesTyped, PrefixOfItself
  <2> QED
    BY <1>1, <2>2, <2>3, EmptyTablesTyped DEF Follows
<1>5. LimitInv'
  BY <1>1 DEF IInv, LimitInv, HeldBack
<1> QED
  BY <1>1, <1>2, <1>3, <1>4, <1>5 DEF IInv, OpenInv

LEMMA RowsDroppedTyped ==
  ASSUME tables \in AnyTables
  PROVE  /\ RowsDropped \in AnyTables
         /\ RowsDropped.rows = <<>> /\ RowsDropped.index = tables.index
<1>1. RowsDropped = [rows |-> <<>>, index |-> tables.index]
  BY DEF RowsDropped, AnyTables
<1>2. <<>> \in Seq(AnyRow) /\ tables.index \in Seq(Int)
  BY TablesAreSequences, EmptyTablesTyped
<1> QED
  BY <1>1, <1>2 DEF AnyTables

LEMMA BeginBusyKeeps ==
  ASSUME IInv, BeginBusy, UNCHANGED mode
  PROVE  IInv'
<1>1. /\ pc = "begin" /\ pc' = "host" /\ con /\ ~inTx /\ inTx' = TRUE /\ clock = 0
      /\ UNCHANGED <<con, disk, buffered, refused, inserted, agents, clock>>
      /\ \/ tables' = tables \/ tables' = EmptyTables
         \/ mode = "interrupted" /\ tables' = RowsDropped
  BY DEF BeginBusy, Raise, hist, IInv, Typed
<1>2. Typed'
  BY <1>1, EmptyTablesTyped, RowsDroppedTyped DEF IInv, Typed
<1>3. TxInv'
  BY <1>1 DEF TxInv
<1>4. mode # "interrupted" => (Dropped \/ Follows)'
  <2> SUFFICES ASSUME mode # "interrupted" PROVE (Dropped \/ Follows)'
    OBVIOUS
  <2>1. Follows /\ tables = disk
    BY <1>1 DEF IInv, OpenInv, TxInv, Dropped
  <2>2. buffered = 0
    BY <1>1, <2>1, TablesAreSequences DEF Follows, IInv, Typed
  <2>3. CASE tables' = tables
    BY <1>1, <2>1, <2>3 DEF Follows
  <2>4. CASE tables' = EmptyTables
    BY <1>1, <2>1, <2>2, <2>4 DEF Follows, Dropped
  <2> QED
    BY <1>1, <2>3, <2>4
<1>5. LimitInv'
  BY <1>1 DEF IInv, LimitInv, HeldBack
<1> QED
  BY <1>1, <1>2, <1>3, <1>4, <1>5 DEF IInv, OpenInv

LEMMA InsertRowsKeeps ==
  ASSUME IInv, InsertRows, UNCHANGED mode
  PROVE  IInv'
<1> DEFINE rows == RowsOf(Frame, agents)
<1>1. /\ pc = "write" /\ pc' = "index" /\ con /\ inTx' = TRUE
      /\ UNCHANGED <<con, disk, buffered, refused, agents, clock>>
      /\ tables' = [tables EXCEPT !.rows = @ \o rows] /\ inserted' = inserted \o rows
  BY DEF InsertRows, TxAfterInsert, Goto
<1>2. /\ rows \in Seq(AnyRow) /\ inserted \in Seq(AnyRow) /\ disk \in AnyTables
      /\ tables \in AnyTables
  BY FramesAreTyped DEF IInv, Typed
<1> HIDE DEF rows
<1>3. /\ tables' \in AnyTables /\ tables'.rows = tables.rows \o rows
      /\ tables'.index = tables.index
  <2>1. tables' = [rows |-> tables.rows \o rows, index |-> tables.index]
    BY <1>1, <1>2 DEF AnyTables
  <2>2. tables.rows \o rows \in Seq(AnyRow) /\ tables.index \in Seq(Int)
    BY <1>2, TablesAreSequences
  <2> QED
    BY <2>1, <2>2 DEF AnyTables
<1>4. Typed'
  <2>1. inserted \o rows \in Seq(AnyRow)
    BY <1>2
  <2> QED
    BY <1>1, <1>3, <2>1 DEF IInv, Typed
<1>5. TxInv'
  BY <1>1 DEF TxInv
<1>6. mode # "interrupted" => Follows'
  <2> SUFFICES ASSUME mode # "interrupted" PROVE Follows'
    OBVIOUS
  <2>1. Follows
    BY <1>1 DEF IInv, OpenInv, Dropped
  <2>2. IsPrefix(disk.rows, inserted \o rows)
    BY <1>2, <2>1, TablesAreSequences, PrefixOfLonger DEF Follows
  <2> QED
    BY <1>1, <1>3, <2>1, <2>2 DEF Follows
<1>7. LimitInv'
  BY <1>1 DEF IInv, LimitInv, HeldBack
<1> QED
  BY <1>1, <1>4, <1>5, <1>6, <1>7 DEF IInv, OpenInv

LEMMA InsertFrameKeeps ==
  ASSUME IInv, InsertFrame, UNCHANGED mode
  PROVE  IInv'
<1>1. /\ pc = "index" /\ pc' = "count"
      /\ UNCHANGED <<con, inTx, disk, buffered, refused, inserted, agents, clock>>
      /\ tables' = [tables EXCEPT !.index = Append(tables.index, Frame)]
  BY DEF InsertFrame, Listed, Goto, hist
<1>2. con /\ inTx /\ tables \in AnyTables /\ disk \in AnyTables /\ Frame \in Int
  BY <1>1, FramesAreTyped DEF IInv, Typed, TxInv
<1>3. /\ tables' \in AnyTables /\ tables'.rows = tables.rows
      /\ tables'.index = Append(tables.index, Frame)
  <2>1. tables' = [rows |-> tables.rows, index |-> Append(tables.index, Frame)]
    BY <1>1, <1>2 DEF AnyTables
  <2>2. tables.rows \in Seq(AnyRow) /\ Append(tables.index, Frame) \in Seq(Int)
    BY <1>2, TablesAreSequences
  <2> QED
    BY <2>1, <2>2 DEF AnyTables
<1>4. Len(tables'.index) = Len(tables.index) + 1 /\ Len(tables.index) \in Nat /\ Len(disk.index) \in Nat
  BY <1>2, <1>3, TablesAreSequences
<1>5. Typed'
  BY <1>1, <1>3 DEF IInv, Typed
<1>6. TxInv'
  BY <1>1, <1>2 DEF TxInv
<1>7. mode # "interrupted" => Follows'
  <2> SUFFICES ASSUME mode # "interrupted" PROVE Follows'
    OBVIOUS
  <2>1. Follows /\ buffered \in Nat
    BY <1>1, <1>2 DEF IInv, Typed, OpenInv, Dropped
  <2>2. Len(tables.index) - Len(disk.index) = buffered
    BY <1>1, <2>1 DEF Follows
  <2>3. Len(tables'.index) - Len(disk'.index) = buffered' + 1
    <3>1. Len(disk'.index) = Len(disk.index) /\ buffered' = buffered /\ buffered \in Nat
      BY <1>1, <2>1
    <3>2. Len(tables'.index) - Len(disk.index) = Len(tables.index) - Len(disk.index) + 1
      BY <1>4
    <3> QED
      BY <2>2, <3>1, <3>2
  <2> QED
    BY <1>1, <1>3, <2>1, <2>3 DEF Follows
<1>8. LimitInv'
  BY <1>1 DEF IInv, LimitInv, HeldBack
<1> QED
  BY <1>1, <1>2, <1>5, <1>6, <1>7, <1>8 DEF IInv, OpenInv

LEMMA CountFrameKeeps ==
  ASSUME IInv, CountFrame, UNCHANGED mode
  PROVE  IInv'
<1>1. /\ pc = "count" /\ buffered' = buffered + 1
      /\ UNCHANGED <<con, inTx, disk, tables, inserted, agents, clock>>
      /\ pc' \in {"commit", "host", "core"}
      /\ buffered' >= CommitEveryNth => pc' = "commit"
  BY DEF CountFrame, CommitDue, Goto, Done, Loop, db
<1>2. con /\ inTx /\ buffered \in Nat
  BY <1>1 DEF IInv, Typed, TxInv
<1>3. Typed'
  BY <1>1, <1>2 DEF IInv, Typed
<1>4. TxInv'
  BY <1>1, <1>2 DEF TxInv
<1>5. mode # "interrupted" => Follows'
  <2> SUFFICES ASSUME mode # "interrupted" PROVE Follows'
    OBVIOUS
  <2>1. Follows
    BY <1>1, <1>2 DEF IInv, OpenInv, Dropped
  <2>2. Len(tables.index) - Len(disk.index) = buffered'
    BY <1>1, <2>1 DEF Follows
  <2>3. buffered' # 0
    BY <1>1, <1>2
  <2> QED
    BY <1>1, <2>1, <2>2, <2>3 DEF Follows
<1>6. LimitInv'
  BY <1>1 DEF LimitInv, HeldBack
<1> QED
  BY <1>1, <1>2, <1>3, <1>4, <1>5, <1>6 DEF IInv, OpenInv

LEMMA CommitKeeps ==
  ASSUME IInv, Commit, UNCHANGED mode
  PROVE  IInv'
<1>1. /\ pc = "commit" /\ inTx' = FALSE /\ disk' = tables /\ buffered' = 0
      /\ UNCHANGED <<con, tables, inserted, agents, clock>> /\ pc' \in {"host", "core"}
  BY DEF Commit, AfterCommit, Done, Loop, hist
<1>2. con /\ tables \in AnyTables
  BY <1>1 DEF IInv, Typed, TxInv
<1>3. Typed'
  BY <1>1 DEF IInv, Typed
<1>4. TxInv'
  BY <1>1 DEF TxInv
<1>5. mode # "interrupted" => Follows'
  <2> SUFFICES ASSUME mode # "interrupted" PROVE Follows'
    OBVIOUS
  <2>1. tables.rows = inserted
    BY <1>1, <1>2 DEF IInv, OpenInv, Dropped, Follows
  <2>2. IsPrefix(tables.rows, inserted) /\ Len(tables.index) - Len(tables.index) = 0
    BY <1>2, <2>1, TablesAreSequences, PrefixOfItself
  <2> QED
    BY <1>1, <2>1, <2>2 DEF Follows
<1>6. LimitInv'
  BY <1>1, WriterAssumption DEF LimitInv, HeldBack
<1> QED
  BY <1>1, <1>2, <1>3, <1>4, <1>5, <1>6 DEF IInv, OpenInv

\* A refused COMMIT, a lock at the first INSERT: the transaction stays open.
LEMMA BusyKeeps ==
  ASSUME IInv, InsertBusy \/ CommitBusy, UNCHANGED mode
  PROVE  IInv'
<1>1. /\ pc \in {"write", "commit"} /\ pc' = "host" /\ con
      /\ pc = "write" => inTx' = TRUE /\ refused' = refused
      /\ pc = "commit" => inTx' = inTx /\ refused' = TRUE
      /\ UNCHANGED <<con, disk, tables, buffered, inserted, agents, clock>>
  BY DEF InsertBusy, CommitBusy, Raise, hist, db, IInv, TxInv
<1>2. Typed'
  BY <1>1 DEF IInv, Typed
<1>3. TxInv'
  BY <1>1 DEF IInv, TxInv
<1>4. mode # "interrupted" => Follows'
  <2>1. mode # "interrupted" => Follows
    BY <1>1 DEF IInv, OpenInv, Dropped
  <2> QED
    BY <1>1, <2>1 DEF Follows
<1>5. LimitInv'
  BY <1>1 DEF IInv, LimitInv, HeldBack
<1> QED
  BY <1>1, <1>2, <1>3, <1>4, <1>5 DEF IInv, OpenInv

LEMMA InterruptedKeeps ==
  ASSUME IInv, Interrupted, UNCHANGED mode
  PROVE  IInv'
<1>1. /\ mode = "interrupted" /\ mode' = mode /\ pc' = "host"
      /\ UNCHANGED <<con, tables, buffered, inserted, agents, clock>>
      /\ \/ inTx' = inTx /\ disk' = disk
         \/ inTx' = FALSE /\ disk' = tables
  BY DEF Interrupted, Raise
<1>2. Typed'
  BY <1>1 DEF IInv, Typed
<1>3. TxInv'
  BY <1>1 DEF IInv, TxInv
<1> QED
  BY <1>1, <1>2, <1>3 DEF IInv, OpenInv, LimitInv

LEMMA ClosedKeeps ==
  ASSUME IInv, Close \/ CloseBusy, UNCHANGED mode
  PROVE  IInv'
<1>1. /\ pc = "host" /\ pc' = pc /\ con' = FALSE /\ inTx' = FALSE /\ buffered' = 0
      /\ disk' \in {disk, tables} /\ tables' = disk'
      /\ UNCHANGED <<inserted, agents, clock>>
  BY DEF Close, CloseBusy, loop
<1>2. Typed'
  BY <1>1 DEF IInv, Typed
<1>3. TxInv'
  BY <1>1 DEF TxInv
<1>4. LimitInv'
  BY <1>1, WriterAssumption DEF LimitInv, HeldBack
<1> QED
  BY <1>1, <1>2, <1>3, <1>4 DEF IInv, OpenInv

LEMMA InvariantKept == IInv /\ [Next]_vars => IInv'
<1> SUFFICES ASSUME IInv, [Next]_vars PROVE IInv'
  OBVIOUS
<1>1. CASE UNCHANGED vars
  BY <1>1 DEF IInv, Typed, TxInv, OpenInv, Dropped, Follows, LimitInv, HeldBack, vars, loop, db, hist
<1>2. CASE Next
  <2>0. UNCHANGED mode
    BY <1>2 DEF Next
  <2>1. CASE BeginRefused \/ SkipFrame \/ NotOpened
    <3>1. /\ UNCHANGED <<con, inTx, disk, tables, buffered, refused, inserted, agents, clock>>
          /\ pc \in {"begin", "write"} /\ pc' \in {"host", "core"}
          /\ pc = "begin" => pc' = "host"
      BY <2>1 DEF BeginRefused, SkipFrame, NotOpened, Raise, Done, Loop, db, hist
    <3>2. agents \in Seq(Nat) /\ clock \in Int
      BY DEF IInv, Typed
    <3> QED
      BY <2>0, <3>1, <3>2, Untouched DEF Dropped
  <2> QED
    BY <1>2, <2>0, <2>1, LoopKeeps, BeginKeeps, BeginBusyKeeps, InsertRowsKeeps,
       InsertFrameKeeps, CountFrameKeeps, CommitKeeps, BusyKeeps, InterruptedKeeps,
       ClosedKeeps DEF Next, Step
<1> QED
  BY <1>1, <1>2

THEOREM WriterInvariant == Spec => []IInv
BY InvariantInitially, InvariantKept, PTL DEF Spec

-----------------------------------------------------------------------------
(* What follows                                                            *)

\* _buffered_frame_count is the number of frames other connections cannot read,
\* and commit_every_nth_write bounds it except after a refused COMMIT.
THEOREM BufferingIsSound == Spec => []BufferingSound
<1>1. IInv => CountExact
  <2> SUFFICES ASSUME IInv, con, pc # "count", mode # "interrupted"
               PROVE  \/ buffered = Len(tables.index) - Len(disk.index)
                      \/ inTx /\ buffered = 0 /\ tables = EmptyTables
    BY DEF CountExact
  <2> QED
    BY DEF IInv, OpenInv, Dropped, Follows
<1>2. IInv => HeldBackBounded
  BY DEF IInv, LimitInv, HeldBack, HeldBackBounded
<1> QED
  BY <1>1, <1>2, WriterInvariant, PTL DEF BufferingSound

\* Inserting, committing and close() together implement the log, whatever lock
\* another connection holds: rows reach it in order, and all of them unless
\* close() was refused its COMMIT.
THEOREM ImplementsLog == Spec => WritesLog
<1> USE DEF Log!Next, Log!Begin, Log!Record, Log!Persist, Log!Close, Log!vars
<1>1. Init => Log!Init
  BY EmptyTablesTyped DEF Init, Log!Init
<1>2. ASSUME IInv, [Next]_vars
      PROVE  [Log!Next]_(Log!vars)
  <2>1. CASE UNCHANGED vars
    BY <2>1 DEF vars, db, hist
  <2>2. CASE Next /\ mode = "interrupted"
    <3>1. mode' = mode
      BY <2>2 DEF Next
    <3> QED
      BY <2>2, <3>1
  <2>3. CASE Next /\ mode # "interrupted"
    <3>0. mode' = mode /\ mode # "interrupted" /\ mode' # "interrupted"
      BY <2>3 DEF Next
    <3>t. disk \in AnyTables /\ tables \in AnyTables /\ inserted \in Seq(AnyRow)
      BY <1>2 DEF IInv, Typed
    <3>1. CASE UNCHANGED <<con, refused, inserted, disk>>
      BY <3>0, <3>1
    <3>2. CASE BeginWriting
      <4>1. con /\ con' = con /\ inserted' = <<>> /\ disk'.rows = <<>>
        BY <3>2, EmptyTablesTyped DEF BeginWriting, Created
      <4> QED
        BY <3>0, <4>1
    <3>3. CASE BeginBusy \/ InsertBusy
      BY <3>0, <3>3 DEF BeginBusy, InsertBusy, hist
    <3>4. CASE InsertRows
      <4> DEFINE rows == RowsOf(Frame, agents)
      <4>1. con /\ con' = con /\ refused' = refused /\ inserted' = inserted \o rows /\ disk' = disk
        BY <3>4 DEF InsertRows
      <4>2. rows \in Seq(AnyRow)
        BY <1>2, FramesAreTyped DEF IInv, Typed
      <4> HIDE DEF rows
      <4>3. CASE rows = <<>>
        <5>1. inserted' = inserted
          BY <3>t, <4>1, <4>3
        <5> QED
          BY <3>0, <4>1, <5>1
      <4>4. CASE rows # <<>>
        <5>1. IsStrictPrefix(inserted, inserted')
          <6>1. IsPrefix(inserted, inserted \o rows)
            BY <3>t, <4>2, PrefixOfItself, PrefixOfLonger
          <6>2. inserted # inserted \o rows
            BY <3>t, <4>2, <4>4
          <6> QED
            BY <4>1, <6>1, <6>2 DEF IsStrictPrefix
        <5> QED
          BY <3>0, <4>1, <5>1 DEF IsStrictPrefix, IsPrefix, Log!IsStrictPrefix, Log!IsPrefix
      <4> QED
        BY <4>3, <4>4
    <3>5. CASE InsertFrame
      BY <3>0, <3>5 DEF InsertFrame, hist
    <3>6. CASE CountFrame
      <4>1. con /\ con' = con /\ inserted' = inserted /\ disk' = disk
        BY <1>2, <3>6 DEF CountFrame, db, IInv, TxInv
      <4> QED
        BY <3>0, <4>1
    <3>7. CASE Commit
      <4>1. /\ con /\ con' = con /\ refused' = refused /\ inserted' = inserted
            /\ disk' = tables /\ Follows
        BY <1>2, <3>0, <3>7 DEF Commit, hist, IInv, TxInv, OpenInv, Dropped
      <4>2. IsPrefix(disk.rows, tables.rows) /\ tables.rows = inserted
        BY <4>1 DEF Follows
      <4>3. IsPrefix(inserted, inserted)
        BY <3>t, PrefixOfItself
      <4>4. CASE disk.rows = tables.rows
        BY <3>0, <4>1, <4>4
      <4>5. CASE disk.rows # tables.rows
        <5>1. IsStrictPrefix(disk.rows, disk'.rows) /\ IsPrefix(disk'.rows, inserted)
          BY <4>1, <4>2, <4>3, <4>5 DEF IsStrictPrefix
        <5> QED
          BY <3>0, <4>1, <5>1 DEF IsStrictPrefix, IsPrefix, Log!IsStrictPrefix, Log!IsPrefix
      <4> QED
        BY <4>4, <4>5
    <3>8. CASE CommitBusy
      <4>1. con /\ con' = con /\ inserted' = inserted /\ disk' = disk
        BY <1>2, <3>8 DEF CommitBusy, db, IInv, TxInv
      <4> QED
        BY <3>0, <4>1
    <3>9. CASE Close
      <4>1. /\ pc = "host" /\ con /\ con' = FALSE /\ refused' = FALSE /\ inserted' = inserted
            /\ disk' = IF buffered # 0 /\ inTx THEN tables ELSE disk
        BY <3>9 DEF Close, FlushDue
      <4>2. CASE Dropped
        BY <3>0, <4>1, <4>2 DEF Dropped
      <4>3. CASE Follows
        <5>1. tables.rows = inserted /\ (buffered = 0 \/ ~inTx => tables = disk)
          BY <1>2, <4>1, <4>3 DEF Follows, IInv, TxInv
        <5>2. disk'.rows = inserted
          BY <4>1, <5>1
        <5> QED
          BY <3>0, <4>1, <5>2
      <4> QED
        BY <1>2, <3>0, <4>1, <4>2, <4>3 DEF IInv, OpenInv
    <3>10. CASE CloseBusy
      <4>1. con /\ refused' = TRUE /\ inserted' = inserted /\ disk' = disk
        BY <3>10 DEF CloseBusy
      <4> QED
        BY <3>0, <4>1
    <3> QED
      BY <2>3, <3>0, <3>1, <3>2, <3>3, <3>4, <3>5, <3>6, <3>7, <3>8, <3>9, <3>10
         DEF Next, Step, HostStep, BeginRefused, SkipFrame, NotOpened, Interrupted, db, hist
  <2> QED
    BY <1>2, <2>1, <2>2, <2>3
<1> QED
  BY <1>1, <1>2, WriterInvariant, PTL DEF Spec, WritesLog, Log!Spec

-----------------------------------------------------------------------------
(* What another connection reads                                           *)

\* What is left of a number by whole intervals.
LEMMA Quotient ==
  ASSUME NEW n \in Nat, NEW c \in Nat \ {0}, NEW r \in 0 .. c - 1
  PROVE  (n * c + r) \div c = n
<1> DEFINE q == (n * c + r) \div c
<1>1. n * c \in Nat
  OBVIOUS
<1>2. q \in Int /\ q * c <= n * c + r /\ n * c + r < q * c + c
  BY <1>1
<1> HIDE DEF q
<1>3. ~(q >= n + 1)
  <2> SUFFICES ASSUME q >= n + 1 PROVE FALSE
    OBVIOUS
  <2>1. PICK d \in Nat : q = n + 1 + d
    <3>1. q - n - 1 \in Nat /\ q = n + 1 + (q - n - 1)
      BY <1>2
    <3> QED
      BY <3>1
  <2>2. q * c = n * c + c + d * c /\ d * c \in Nat
    BY <2>1
  <2> QED
    BY <1>1, <1>2, <2>2
<1>4. ~(q + 1 <= n)
  <2> SUFFICES ASSUME q + 1 <= n PROVE FALSE
    OBVIOUS
  <2>1. PICK d \in Nat : n = q + 1 + d
    <3>1. n - q - 1 \in Nat /\ n = q + 1 + (n - q - 1)
      BY <1>2
    <3> QED
      BY <3>1
  <2>2. n * c = q * c + c + d * c /\ d * c \in Nat
    BY <1>2, <2>1
  <2> QED
    BY <1>1, <1>2, <2>2
<1> QED
  BY <1>2, <1>3, <1>4 DEF q

\* The frame grows by one where the next iteration is one to record.
LEMMA NextFrame ==
  ASSUME NEW c \in Nat, NEW e \in Nat \ {0}
  PROVE  /\ c \div e \in Nat /\ c \div e <= c
         /\ (c + 1) % e = 0 => (c + 1) \div e = c \div e + 1
         /\ (c + 1) % e # 0 => (c + 1) \div e = c \div e
<1> DEFINE q == c \div e
           r == c % e
<1>1. q \in Int /\ r \in 0 .. e - 1 /\ c = q * e + r
  OBVIOUS
<1> HIDE DEF q, r
<1>2. q \in Nat
  <2> SUFFICES ASSUME q <= -1 PROVE FALSE
    BY <1>1
  <2>1. PICK d \in Nat : q = -1 - d
    <3>1. -1 - q \in Nat /\ q = -1 - (-1 - q)
      BY <1>1
    <3> QED
      BY <3>1
  <2>2. q * e = -e - d * e /\ d * e \in Nat
    BY <2>1
  <2> QED
    BY <1>1, <2>2
<1>3. q <= c
  <2>1. PICK d \in Nat : e = d + 1
    <3>1. e - 1 \in Nat /\ e = (e - 1) + 1
      OBVIOUS
    <3> QED
      BY <3>1
  <2>2. q * e = q * d + q /\ q * d \in Nat
    BY <1>2, <2>1
  <2> QED
    BY <1>1, <1>2, <2>2
<1>4. CASE r + 1 < e
  <2>1. c + 1 = q * e + (r + 1) /\ r + 1 \in 0 .. e - 1 /\ q * e \in Nat
    BY <1>1, <1>2, <1>4
  <2>2. (c + 1) \div e = q
    BY <1>2, <2>1, Quotient
  <2>3. (c + 1) % e # 0
    <3> DEFINE m == (c + 1) % e
               p == (c + 1) \div e
    <3>1. c + 1 = p * e + m
      OBVIOUS
    <3>2. p * e = q * e
      BY <2>2
    <3> HIDE DEF m, p
    <3>3. m = r + 1
      <4>1. m \in Int
        BY DEF m
      <4>2. PICK x \in Int : x = q * e
        BY <2>1
      <4> QED
        BY <1>1, <2>1, <3>1, <3>2, <4>1, <4>2
    <3> QED
      BY <1>1, <3>3 DEF m
  <2> QED
    BY <1>2, <1>3, <2>2, <2>3 DEF q
<1>5. CASE r + 1 = e
  <2>1. (q + 1) * e = q * e + e /\ q * e \in Nat
    BY <1>2
  <2>2. c + 1 = (q + 1) * e + 0
    BY <1>1, <1>5, <2>1
  <2>3. (c + 1) \div e = q + 1
    <3>1. q + 1 \in Nat /\ 0 \in 0 .. e - 1
      BY <1>2
    <3> QED
      BY <2>2, <3>1, Quotient
  <2>4. (c + 1) % e = 0
    <3> DEFINE m == (c + 1) % e
               p == (c + 1) \div e
    <3>1. c + 1 = p * e + m /\ m \in Int
      OBVIOUS
    <3>2. p * e = (q + 1) * e
      BY <2>3
    <3> HIDE DEF m, p
    <3>3. PICK x \in Int : x = (q + 1) * e
      BY <2>1, <1>2
    <3>4. m = 0
      BY <2>2, <3>1, <3>2, <3>3
    <3> QED
      BY <3>4 DEF m
  <2> QED
    BY <1>2, <1>3, <2>3, <2>4 DEF q
<1> QED
  BY <1>1, <1>4, <1>5

\* The frame of a clock within its bound.
LEMMA FrameTyped ==
  ASSUME clock \in 0 .. MaxIteration
  PROVE  Frame \in 0 .. MaxIteration /\ (clock = 0 => Frame = 0 /\ Recorded)
<1>1. clock \in Nat /\ MaxIteration \in Nat /\ EveryNth \in Nat \ {0}
  BY LoopAssumption
<1>2. clock \div EveryNth \in Nat /\ clock \div EveryNth <= clock
  BY <1>1, NextFrame
<1>3. ASSUME clock = 0 PROVE Frame = 0 /\ Recorded
  BY <1>1, <1>2, <1>3 DEF Frame, Recorded
<1> QED
  BY <1>1, <1>2, <1>3 DEF Frame

LEMMA ContainersHoldAgents ==
  ASSUME NEW ids \in Containers
  PROVE  ids \in Seq(AgentId)
<1>1. PICK n \in 0 .. Cardinality(AgentId) : ids \in [1 .. n -> AgentId]
  BY DEF Containers
<1>2. n \in Nat
  BY <1>1, LoopAssumption, FS_CardinalityType
<1> QED
  BY <1>1, <1>2

RowSet == [frame : 0 .. MaxIteration, id : AgentId]

Types ==
  /\ mode \in {"calm", "busy", "interrupted"}
  /\ pc \in {"host", "begin", "core", "write", "index", "count", "commit"}
  /\ left \in 0 .. MaxCount
  /\ clock \in 0 .. MaxIteration
  /\ agents \in Containers
  /\ con \in BOOLEAN /\ inTx \in BOOLEAN /\ refused \in BOOLEAN
  /\ disk \in Tables /\ tables \in Tables
  /\ buffered \in Nat
  /\ inserted \in Seq(RowSet)

Places == (pc = "core" => left > 0) /\ (pc = "begin" => clock = 0)

\* The frames listed, or about to be: one for each recorded iteration.
FramesStarted == IF pc = "index" \/ (pc = "write" /\ Recorded) THEN Frame ELSE Frame + 1

\* Tables that list frames below n, once and in order, and hold the first of
\* all rows inserted, with each row of a frame they list.
WholeIn(t, all, n) ==
  /\ \A i, k \in 1 .. Len(t.index) : i < k => t.index[i] < t.index[k]
  /\ \A i \in 1 .. Len(t.index) : t.index[i] < n
  /\ IsPrefix(t.rows, all)
  /\ \A k \in 1 .. Len(all) : \A i \in 1 .. Len(t.index) :
       all[k].frame = t.index[i] => k <= Len(t.rows)

\* The frame of each row is listed, unless it is the one being inserted.
ListedIn(t, open) ==
  \A i \in 1 .. Len(t.rows) :
    t.rows[i].frame = open \/ \E k \in 1 .. Len(t.index) : t.rows[i].frame = t.index[k]

\* begin_writing() has dropped the rows and could not commit that.
Gone == tables.rows = <<>> /\ inTx /\ clock = 0 /\ pc \in {"host", "begin"}

Unlisted == IF pc = "index" THEN Frame ELSE -1

\* An interrupted begin_writing() may leave frames without rows; close() may
\* commit that.
DiskInv ==
  /\ \/ WholeIn(disk, inserted, FramesStarted)
     \/ mode = "interrupted" /\ ~con /\ WholeIn(disk, <<>>, FramesStarted)
  /\ \/ WholeIn(tables, inserted, FramesStarted)
     \/ mode = "interrupted" /\ (con => Gone) /\ WholeIn(tables, <<>>, FramesStarted)
  /\ con => tables.rows = inserted \/ Gone
  /\ mode # "interrupted" => ListedIn(disk, -1) /\ ListedIn(tables, Unlisted)

LEMMA AppendedEntries ==
  ASSUME NEW S, NEW s \in Seq(S), NEW x \in S
  PROVE  /\ Len(s) \in Nat /\ Len(Append(s, x)) = Len(s) + 1
         /\ Append(s, x)[Len(s) + 1] = x
         /\ \A i \in 1 .. Len(s) : Append(s, x)[i] = s[i] /\ s[i] \in S
         /\ Append(s, x) \in Seq(S)
OBVIOUS

LEMMA ConcatEntries ==
  ASSUME NEW S, NEW c \in Seq(S), NEW e \in Seq(S)
  PROVE  /\ Len(c) \in Nat /\ Len(e) \in Nat /\ Len(c \o e) = Len(c) + Len(e)
         /\ c \o e \in Seq(S) /\ \A j \in 1 .. Len(c) : (c \o e)[j] = c[j]
         /\ \A j \in Len(c) + 1 .. Len(c) + Len(e) :
              (c \o e)[j] = e[j - Len(c)] /\ j - Len(c) \in 1 .. Len(e)
OBVIOUS

LEMMA WholeLater ==
  ASSUME NEW t \in AnyTables, NEW all, NEW n \in Int, NEW m \in Int, n <= m, WholeIn(t, all, n)
  PROVE  WholeIn(t, all, m)
<1>1. \A i \in 1 .. Len(t.index) : t.index[i] \in Int
  BY TablesAreSequences
<1>2. \A i \in 1 .. Len(t.index) : t.index[i] < m
  BY <1>1 DEF WholeIn
<1> QED
  BY <1>2 DEF WholeIn

LEMMA WholeEmpty ==
  ASSUME NEW all \in Seq(AnyRow), NEW n
  PROVE  WholeIn(EmptyTables, all, n) /\ \A open : ListedIn(EmptyTables, open)
<1>1. EmptyTables.index = <<>> /\ EmptyTables.rows = <<>> /\ Len(<<>>) = 0
  BY EmptyTablesTyped
<1>2. IsPrefix(<<>>, all)
  <2>1. Len(<<>>) <= Len(all) /\ SubSeq(<<>>, 1, 0) = <<>> /\ SubSeq(all, 1, 0) = <<>>
    OBVIOUS
  <2> QED
    BY <1>1, <2>1 DEF IsPrefix
<1> QED
  BY <1>1, <1>2 DEF WholeIn, ListedIn

LEMMA WholeDropped ==
  ASSUME tables \in AnyTables, NEW all, NEW n, WholeIn(tables, all, n)
  PROVE  WholeIn(RowsDropped, <<>>, n)
<1>1. RowsDropped.rows = <<>> /\ RowsDropped.index = tables.index
  BY RowsDroppedTyped
<1>2. IsPrefix(<<>>, <<>>) /\ Len(<<>>) = 0
  BY EmptyTablesTyped, PrefixOfItself
<1> QED
  BY <1>1, <1>2 DEF WholeIn

\* Rows of a frame that is not listed yet.
LEMMA WholeInserted ==
  ASSUME NEW t \in AnyTables, NEW all \in Seq(AnyRow), NEW n \in Int, WholeIn(t, all, n),
         NEW rows \in Seq(AnyRow), \A i \in 1 .. Len(rows) : rows[i].frame = n
  PROVE  WholeIn(t, all \o rows, n)
<1>1. /\ t.index \in Seq(Int) /\ t.rows \in Seq(AnyRow)
      /\ Len(all) \in Nat /\ Len(rows) \in Nat /\ Len(all \o rows) = Len(all) + Len(rows)
      /\ \A j \in 1 .. Len(all) : (all \o rows)[j] = all[j]
      /\ \A j \in Len(all) + 1 .. Len(all) + Len(rows) :
           (all \o rows)[j] = rows[j - Len(all)] /\ j - Len(all) \in 1 .. Len(rows)
  BY TablesAreSequences, ConcatEntries
<1>2. IsPrefix(t.rows, all \o rows)
  BY <1>1, PrefixOfLonger DEF WholeIn
<1> DEFINE new == all \o rows
<1>3. ASSUME NEW k \in 1 .. Len(new), NEW i \in 1 .. Len(t.index), new[k].frame = t.index[i]
      PROVE  k <= Len(t.rows)
  <2> HIDE DEF new
  <2>1. CASE k \in 1 .. Len(all)
    <3>1. new[k] = all[k]
      BY <1>1, <2>1 DEF new
    <3> QED
      BY <1>3, <2>1, <3>1 DEF WholeIn
  <2>2. CASE k \in Len(all) + 1 .. Len(all) + Len(rows)
    <3>1. new[k] = rows[k - Len(all)] /\ k - Len(all) \in 1 .. Len(rows)
      BY <1>1, <2>2 DEF new
    <3>2. new[k].frame = n
      BY <3>1
    <3>3. t.index[i] < n /\ t.index[i] \in Int
      BY <1>1 DEF WholeIn
    <3> QED
      BY <1>3, <3>2, <3>3
  <2>3. Len(new) = Len(all) + Len(rows)
    BY <1>1 DEF new
  <2> QED
    BY <1>1, <2>1, <2>2, <2>3
<1> QED
  BY <1>2, <1>3 DEF WholeIn

\* Nothing is missing.
LEMMA WholeComplete ==
  ASSUME NEW t \in AnyTables, NEW u \in AnyTables, NEW all \in Seq(AnyRow), NEW n,
         NEW old, WholeIn(u, old, n), t.index = u.index, t.rows = all
  PROVE  WholeIn(t, all, n)
<1>1. IsPrefix(all, all) /\ \A k \in 1 .. Len(all) : k <= Len(all)
  BY PrefixOfItself
<1> QED
  BY <1>1 DEF WholeIn

LEMMA WholeListed ==
  ASSUME NEW t \in AnyTables, NEW u \in AnyTables, NEW all \in Seq(AnyRow), NEW n \in Int,
         WholeIn(u, all, n), u.rows = all, t.rows = all, t.index = Append(u.index, n)
  PROVE  WholeIn(t, all, n + 1)
<1>1. IsPrefix(all, all) /\ \A k \in 1 .. Len(all) : k <= Len(all)
  BY PrefixOfItself
<1> DEFINE s == u.index
           v == t.index
<1>2. s \in Seq(Int) /\ v = Append(s, n)
  BY TablesAreSequences
<1>3. /\ \A i, k \in 1 .. Len(s) : i < k => s[i] < s[k]
      /\ \A i \in 1 .. Len(s) : s[i] < n
  BY DEF WholeIn
<1> HIDE DEF s, v
<1>4. /\ Len(s) \in Nat /\ Len(v) = Len(s) + 1 /\ v[Len(s) + 1] = n
      /\ \A i \in 1 .. Len(s) : v[i] = s[i] /\ s[i] \in Int
  BY <1>2, AppendedEntries
<1>5. \A i \in 1 .. Len(v) : i \in 1 .. Len(s) \/ i = Len(s) + 1
  BY <1>4
<1>6. \A i, k \in 1 .. Len(v) : i < k => v[i] < v[k]
  <2> SUFFICES ASSUME NEW i \in 1 .. Len(v), NEW k \in 1 .. Len(v), i < k
               PROVE  v[i] < v[k]
    OBVIOUS
  <2>1. i \in 1 .. Len(s)
    BY <1>4
  <2>2. CASE k \in 1 .. Len(s)
    BY <1>3, <1>4, <2>1, <2>2
  <2>3. CASE k = Len(s) + 1
    BY <1>3, <1>4, <2>1, <2>3
  <2> QED
    BY <1>5, <2>2, <2>3
<1>7. \A i \in 1 .. Len(v) : v[i] < n + 1
  BY <1>3, <1>4, <1>5
<1> QED
  BY <1>1, <1>6, <1>7 DEF WholeIn, s, v

\* A list of more frames lists what the shorter list does.
LEMMA ListedMore ==
  ASSUME NEW t \in AnyTables, NEW u \in AnyTables, NEW n \in Int, ListedIn(u, n),
         t.rows = u.rows, t.index = Append(u.index, n)
  PROVE  ListedIn(t, -1)
<1>1. /\ u.index \in Seq(Int) /\ Len(u.index) \in Nat /\ Len(t.index) = Len(u.index) + 1
      /\ t.index[Len(u.index) + 1] = n
      /\ \A i \in 1 .. Len(u.index) : t.index[i] = u.index[i]
  BY TablesAreSequences, AppendedEntries
<1> SUFFICES ASSUME NEW i \in 1 .. Len(t.rows)
             PROVE  \E k \in 1 .. Len(t.index) : t.rows[i].frame = t.index[k]
  BY DEF ListedIn
<1>2. CASE u.rows[i].frame = n
  <2>1. Len(u.index) + 1 \in 1 .. Len(t.index)
    BY <1>1
  <2> QED
    BY <1>1, <1>2, <2>1
<1>3. CASE \E k \in 1 .. Len(u.index) : u.rows[i].frame = u.index[k]
  <2>1. PICK k \in 1 .. Len(u.index) : u.rows[i].frame = u.index[k]
    BY <1>3
  <2>2. k \in 1 .. Len(t.index)
    BY <1>1
  <2> QED
    BY <1>1, <2>1, <2>2
<1> QED
  BY <1>2, <1>3 DEF ListedIn

LEMMA ListedInserted ==
  ASSUME NEW t \in AnyTables, NEW u \in AnyTables, NEW n \in Int, ListedIn(u, -1),
         NEW rows \in Seq(AnyRow), \A i \in 1 .. Len(rows) : rows[i].frame = n,
         \A i \in 1 .. Len(u.rows) : u.rows[i].frame # -1,
         t.rows = u.rows \o rows, t.index = u.index
  PROVE  ListedIn(t, n)
<1>1. /\ u.rows \in Seq(AnyRow) /\ Len(u.rows) \in Nat /\ Len(rows) \in Nat
      /\ Len(t.rows) = Len(u.rows) + Len(rows)
      /\ \A j \in 1 .. Len(u.rows) : t.rows[j] = u.rows[j]
      /\ \A j \in Len(u.rows) + 1 .. Len(u.rows) + Len(rows) :
           t.rows[j] = rows[j - Len(u.rows)] /\ j - Len(u.rows) \in 1 .. Len(rows)
  <2> DEFINE s == u.rows
             v == t.rows
  <2>1. s \in Seq(AnyRow) /\ v = s \o rows
    BY TablesAreSequences
  <2> HIDE DEF s, v
  <2>2. /\ Len(s) \in Nat /\ Len(rows) \in Nat /\ Len(v) = Len(s) + Len(rows)
        /\ \A j \in 1 .. Len(s) : v[j] = s[j]
        /\ \A j \in Len(s) + 1 .. Len(s) + Len(rows) :
             v[j] = rows[j - Len(s)] /\ j - Len(s) \in 1 .. Len(rows)
    BY <2>1, ConcatEntries
  <2> QED
    BY <2>1, <2>2 DEF s, v
<1> SUFFICES ASSUME NEW i \in 1 .. Len(t.rows)
             PROVE  t.rows[i].frame = n \/ \E k \in 1 .. Len(t.index) : t.rows[i].frame = t.index[k]
  BY DEF ListedIn
<1>2. CASE i \in 1 .. Len(u.rows)
  BY <1>1, <1>2 DEF ListedIn
<1>3. CASE i \in Len(u.rows) + 1 .. Len(u.rows) + Len(rows)
  BY <1>1, <1>3
<1> QED
  BY <1>1, <1>2, <1>3

LEMMA WiderSequences ==
  ASSUME NEW S, NEW T, S \subseteq T
  PROVE  Seq(S) \subseteq Seq(T)
OBVIOUS

LEMMA TypedRows ==
  /\ Seq(RowSet) \subseteq Seq(AnyRow) /\ Tables \subseteq AnyTables
  /\ \A r \in RowSet : r.frame # -1
<1>1. 0 .. MaxIteration \subseteq Int /\ AgentId \subseteq Nat
  BY LoopAssumption
<1>2. RowSet \subseteq AnyRow /\ \A r \in RowSet : r.frame # -1
  <2> SUFFICES ASSUME NEW r \in RowSet PROVE r \in AnyRow /\ r.frame # -1
    OBVIOUS
  <2>1. /\ r = [frame |-> r.frame, id |-> r.id]
        /\ r.frame \in 0 .. MaxIteration /\ r.id \in AgentId
    BY DEF RowSet
  <2>2. r.frame \in Int /\ r.id \in Nat /\ r.frame # -1
    BY <1>1, <2>1, LoopAssumption
  <2> QED
    BY <2>1, <2>2 DEF AnyRow
<1> HIDE DEF RowSet, AnyRow
<1>3. Seq(RowSet) \subseteq Seq(AnyRow)
  BY <1>2
<1>4. Seq(0 .. MaxIteration) \subseteq Seq(Int)
  <2> DEFINE I == 0 .. MaxIteration
  <2>1. I \subseteq Int
    BY <1>1
  <2> HIDE DEF I
  <2>2. Seq(I) \subseteq Seq(Int)
    BY <2>1, WiderSequences
  <2> QED
    BY <2>2 DEF I
<1>5. Tables = [rows : Seq(RowSet), index : Seq(0 .. MaxIteration)]
  BY DEF Tables, RowSet
<1>6. ASSUME NEW t \in Tables PROVE t \in AnyTables
  <2>1. /\ t = [rows |-> t.rows, index |-> t.index]
        /\ t.rows \in Seq(RowSet) /\ t.index \in Seq(0 .. MaxIteration)
    BY <1>5
  <2>2. t.rows \in Seq(AnyRow) /\ t.index \in Seq(Int)
    BY <1>3, <1>4, <2>1
  <2> QED
    BY <2>1, <2>2 DEF AnyTables
<1> QED
  BY <1>2, <1>3, <1>6

LEMMA TablesTyped ==
  /\ EmptyTables \in Tables /\ <<>> \in Seq(RowSet)
  /\ \A t \in Tables : t.rows \in Seq(RowSet) /\ t.index \in Seq(0 .. MaxIteration)
  /\ \A r \in Seq(RowSet), i \in Seq(0 .. MaxIteration) : [rows |-> r, index |-> i] \in Tables
<1>1. Tables = [rows : Seq(RowSet), index : Seq(0 .. MaxIteration)]
  BY DEF Tables, RowSet
<1>2. <<>> \in Seq(RowSet) /\ <<>> \in Seq(0 .. MaxIteration)
  OBVIOUS
<1> HIDE DEF RowSet
<1> QED
  BY <1>1, <1>2 DEF EmptyTables

\* The rows of the agents present.
LEMMA NewRows ==
  ASSUME clock \in 0 .. MaxIteration, agents \in Containers
  PROVE  /\ RowsOf(Frame, agents) \in Seq(RowSet)
         /\ \A i \in 1 .. Len(RowsOf(Frame, agents)) : RowsOf(Frame, agents)[i].frame = Frame
<1>1. Frame \in 0 .. MaxIteration
  BY FrameTyped
<1>2. agents \in Seq(AgentId) /\ Len(agents) \in Nat /\ DOMAIN agents = 1 .. Len(agents)
  BY ContainersHoldAgents
<1>3. \A i \in 1 .. Len(agents) : Row(Frame, agents[i]) \in RowSet
  BY <1>1, <1>2 DEF Row, RowSet
<1>4. RowsOf(Frame, agents) = [i \in 1 .. Len(agents) |-> Row(Frame, agents[i])]
  BY <1>2 DEF RowsOf
<1> DEFINE R == RowSet
           n == Len(agents)
<1>5. RowsOf(Frame, agents) \in [1 .. n -> R]
  BY <1>3, <1>4
<1>6. n \in Nat
  BY <1>2
<1> HIDE DEF R, n
<1>7. RowsOf(Frame, agents) \in Seq(R) /\ Len(RowsOf(Frame, agents)) = n
  BY <1>5, <1>6
<1>8. \A i \in 1 .. n : RowsOf(Frame, agents)[i].frame = Frame
  BY <1>4 DEF n, Row
<1> QED
  BY <1>7, <1>8 DEF R

LEMMA LoopKept ==
  ASSUME Types, Places, [Next]_vars
  PROVE  /\ pc' \in {"host", "begin", "core", "write", "index", "count", "commit"}
         /\ left' \in 0 .. MaxCount /\ clock' \in 0 .. MaxIteration
         /\ agents' \in Containers /\ Places'
<1>t. /\ pc \in {"host", "begin", "core", "write", "index", "count", "commit"}
      /\ left \in 0 .. MaxCount /\ clock \in 0 .. MaxIteration /\ agents \in Containers
      /\ (pc = "core" => left > 0) /\ (pc = "begin" => clock = 0)
      /\ MaxCount \in Nat /\ MaxIteration \in Nat
  BY LoopAssumption DEF Types, Places
<1>1. CASE UNCHANGED vars \/ Close \/ CloseBusy
  <2>1. UNCHANGED <<pc, left, clock, agents>>
    BY <1>1 DEF vars, loop, Close, CloseBusy
  <2> QED
    BY <1>t, <2>1 DEF Places
<1>2. CASE HostStep
  <2>1. CASE HostChanges
    BY <1>t, <2>1 DEF HostChanges, Places
  <2>2. CASE CallIterate
    <3>1. PICK count \in 0 .. MaxCount :
            /\ left' = count /\ pc' = (IF clock = 0 THEN "begin" ELSE Loop(count))
            /\ clock' = clock /\ agents' = agents
      BY <2>2 DEF CallIterate
    <3>2. pc' \in {"begin", "host", "core"} /\ (pc' = "core" => count # 0)
          /\ (pc' = "begin" => clock = 0)
      BY <3>1 DEF Loop
    <3> QED
      BY <1>t, <3>1, <3>2 DEF Places
  <2>3. CASE CoreIterates
    <3>1. /\ pc = "core" /\ clock < MaxIteration /\ clock' = clock + 1 /\ left' = left - 1
          /\ agents' \in Containers /\ pc' = "write"
      BY <2>3 DEF CoreIterates
    <3> QED
      BY <1>t, <3>1 DEF Places
  <2>4. CASE CoreThrows
    BY <1>t, <2>4 DEF CoreThrows, Raise, Places
  <2> QED
    BY <1>2, <2>1, <2>2, <2>3, <2>4 DEF HostStep
<1>3. CASE \/ BeginWriting \/ BeginRefused \/ BeginBusy \/ NotOpened \/ InsertRows
           \/ InsertBusy \/ InsertFrame \/ CommitBusy \/ Interrupted
  <2>1. /\ clock' = clock /\ agents' = agents
        /\ \/ pc' = "host" /\ left' = 0
           \/ pc' \in {"write", "index", "count"} /\ left' = left
    BY <1>3 DEF BeginWriting, BeginRefused, BeginBusy, NotOpened, InsertRows, InsertBusy,
                InsertFrame, CommitBusy, Interrupted, Raise, Goto
  <2> QED
    BY <1>t, <2>1 DEF Places
<1>4. CASE SkipFrame \/ CountFrame \/ Commit
  <2>1. /\ clock' = clock /\ agents' = agents /\ left' = left
        /\ pc' \in {"commit", Loop(left)}
    BY <1>4 DEF SkipFrame, CountFrame, Commit, Done, Goto
  <2>2. pc' \in {"host", "core", "commit"} /\ (pc' = "core" => left # 0)
    BY <2>1 DEF Loop
  <2> QED
    BY <1>t, <2>1, <2>2 DEF Places
<1> QED
  BY <1>1, <1>2, <1>3, <1>4 DEF Next, Step

LEMMA DataKept ==
  ASSUME Types, [Next]_vars
  PROVE  /\ mode' \in {"calm", "busy", "interrupted"}
         /\ con' \in BOOLEAN /\ inTx' \in BOOLEAN /\ refused' \in BOOLEAN
         /\ disk' \in Tables /\ tables' \in Tables
         /\ buffered' \in Nat /\ inserted' \in Seq(RowSet)
<1>t. /\ mode \in {"calm", "busy", "interrupted"}
      /\ con \in BOOLEAN /\ inTx \in BOOLEAN /\ refused \in BOOLEAN
      /\ disk \in Tables /\ tables \in Tables
      /\ buffered \in Nat /\ inserted \in Seq(RowSet)
      /\ clock \in 0 .. MaxIteration /\ agents \in Containers
  BY DEF Types
<1>e. EmptyTables \in Tables /\ <<>> \in Seq(RowSet)
  BY TablesTyped
<1>1. CASE UNCHANGED vars
  BY <1>t, <1>1 DEF vars, db, hist
<1>2. CASE Next
  <2>0. mode' = mode /\ Step
    BY <1>2 DEF Next
  <2>1. CASE HostStep \/ BeginRefused \/ SkipFrame \/ NotOpened
    <3>1. UNCHANGED <<con, inTx, disk, tables, buffered, refused, inserted>>
      BY <2>1 DEF HostStep, BeginRefused, SkipFrame, NotOpened, db, hist
    <3> QED
      BY <1>t, <2>0, <3>1
  <2>2. CASE BeginWriting \/ BeginBusy
    <3>1. /\ UNCHANGED <<con, buffered, refused>> /\ inTx' \in BOOLEAN
          /\ disk' \in {disk, EmptyTables} /\ tables' \in {tables, EmptyTables, RowsDropped}
          /\ inserted' \in {inserted, <<>>}
      BY <1>t, <2>2 DEF BeginWriting, BeginBusy, Created, hist
    <3>2. RowsDropped = [rows |-> <<>>, index |-> tables.index]
      BY <1>t DEF RowsDropped, Tables
    <3>3. RowsDropped \in Tables
      BY <1>t, <3>2, TablesTyped
    <3> QED
      BY <1>t, <1>e, <2>0, <3>1, <3>3
  <2>3. CASE InsertRows
    <3> DEFINE rows == RowsOf(Frame, agents)
    <3>1. /\ UNCHANGED <<con, disk, buffered, refused>> /\ inTx' = TRUE
          /\ tables' = [tables EXCEPT !.rows = @ \o rows] /\ inserted' = inserted \o rows
      BY <2>3 DEF InsertRows, TxAfterInsert
    <3>2. rows \in Seq(RowSet)
      BY <1>t, NewRows
    <3>3. tables' = [rows |-> tables.rows \o rows, index |-> tables.index]
      BY <1>t, <3>1 DEF Tables
    <3>4. tables.rows \in Seq(RowSet) /\ tables.index \in Seq(0 .. MaxIteration)
      BY <1>t, TablesTyped
    <3> HIDE DEF rows
    <3>5. tables.rows \o rows \in Seq(RowSet) /\ inserted \o rows \in Seq(RowSet)
      BY <1>t, <3>2, <3>4, ConcatEntries
    <3>6. tables' \in Tables
      BY <3>3, <3>4, <3>5, TablesTyped
    <3> QED
      BY <1>t, <2>0, <3>1, <3>5, <3>6
  <2>4. CASE InsertBusy \/ CommitBusy
    <3>1. /\ UNCHANGED <<con, disk, tables, buffered, inserted>>
          /\ inTx' \in BOOLEAN /\ refused' \in BOOLEAN
      BY <1>t, <2>4 DEF InsertBusy, CommitBusy, db, hist
    <3> QED
      BY <1>t, <2>0, <3>1
  <2>5. CASE InsertFrame
    <3>1. /\ UNCHANGED <<con, inTx, disk, buffered, refused, inserted>>
          /\ tables' = [tables EXCEPT !.index = Append(tables.index, Frame)]
      BY <2>5 DEF InsertFrame, Listed, hist
    <3>2. tables' = [rows |-> tables.rows, index |-> Append(tables.index, Frame)]
      BY <1>t, <3>1 DEF Tables
    <3>3. tables.rows \in Seq(RowSet) /\ tables.index \in Seq(0 .. MaxIteration)
      BY <1>t, TablesTyped
    <3>4. Append(tables.index, Frame) \in Seq(0 .. MaxIteration)
      BY <1>t, <3>3, FrameTyped, AppendedEntries
    <3>5. tables' \in Tables
      BY <3>2, <3>3, <3>4, TablesTyped
    <3> QED
      BY <1>t, <2>0, <3>1, <3>5
  <2>6. CASE CountFrame
    <3>1. UNCHANGED <<con, inTx, disk, tables, inserted>> /\ buffered' = buffered + 1 /\ refused' = FALSE
      BY <2>6 DEF CountFrame, db
    <3>2. buffered' \in Nat
      BY <1>t, <3>1
    <3> QED
      BY <1>t, <2>0, <3>1, <3>2
  <2>7. CASE Commit \/ Interrupted \/ Close \/ CloseBusy
    <3>1. /\ con' \in BOOLEAN /\ inTx' \in BOOLEAN /\ refused' \in BOOLEAN
          /\ disk' \in {disk, tables} /\ tables' \in {tables, disk, disk'}
          /\ buffered' \in {0, buffered} /\ inserted' = inserted
      BY <1>t, <2>7 DEF Commit, AfterCommit, Interrupted, Close, CloseBusy, hist
    <3> QED
      BY <1>t, <2>0, <3>1
  <2> QED
    BY <2>0, <2>1, <2>2, <2>3, <2>4, <2>5, <2>6, <2>7 DEF Step
<1> QED
  BY <1>1, <1>2

\* Frames are begun one after the other, unless the file is begun again.
LEMMA StartedGrows ==
  ASSUME Types, [Next]_vars, ~BeginWriting
  PROVE  FramesStarted \in Int /\ FramesStarted' \in Int /\ FramesStarted <= FramesStarted'
<1>1. clock \in Nat /\ EveryNth \in Nat \ {0}
  BY LoopAssumption DEF Types
<1>2. Frame \in Int
  BY <1>1 DEF Frame
<1>3. FramesStarted \in {Frame, Frame + 1}
  BY DEF FramesStarted
<1>4. CASE clock' = clock /\ pc' # "index" /\ ~(pc' = "write" /\ Recorded)
  <2>1. FramesStarted' = Frame + 1
    BY <1>4 DEF FramesStarted, Frame, Recorded
  <2> QED
    BY <1>2, <1>3, <2>1
<1>5. CASE UNCHANGED vars
  BY <1>2, <1>3, <1>5 DEF FramesStarted, Frame, Recorded, vars, loop
<1>6. CASE CoreIterates
  <2>1. pc = "core" /\ pc' = "write" /\ clock' = clock + 1
    BY <1>6 DEF CoreIterates
  <2>2. /\ (clock + 1) % EveryNth = 0 => (clock + 1) \div EveryNth = clock \div EveryNth + 1
        /\ (clock + 1) % EveryNth # 0 => (clock + 1) \div EveryNth = clock \div EveryNth
    BY <1>1, NextFrame
  <2>3. FramesStarted' = Frame + 1 /\ FramesStarted = Frame + 1
    BY <2>1, <2>2 DEF FramesStarted, Frame, Recorded
  <2> QED
    BY <1>2, <2>3
<1>7. CASE InsertRows \/ Close \/ CloseBusy \/ HostChanges
  <2>1. \/ pc = "write" /\ Recorded /\ pc' = "index" /\ clock' = clock
        \/ pc = "host" /\ pc' = "host" /\ clock' = clock
    BY <1>7 DEF InsertRows, Close, CloseBusy, HostChanges, Goto, loop
  <2> QED
    BY <1>2, <2>1 DEF FramesStarted, Frame
<1>8. CASE Next /\ ~CoreIterates /\ ~InsertRows /\ ~Close /\ ~CloseBusy /\ ~HostChanges
  <2>1. clock' = clock /\ pc' \in {"host", "begin", "core", "count", "commit"}
    BY <1>8 DEF Next, Step, HostStep, CallIterate, CoreThrows, BeginRefused, BeginBusy, SkipFrame,
                NotOpened, InsertBusy, InsertFrame, CountFrame, Commit, CommitBusy, Interrupted,
                Raise, Done, Goto, Loop
  <2> QED
    BY <1>4, <2>1
<1> QED
  BY <1>5, <1>6, <1>7, <1>8

\* Steps that leave the database and the rows inserted alone.
LEMMA DatabaseAlone ==
  ASSUME Types, DiskInv, [Next]_vars, ~BeginWriting,
         UNCHANGED <<mode, disk, inserted>>, con' => con, inTx => inTx' \/ ~con',
         \/ tables' = tables \/ tables' = EmptyTables \/ tables' = disk'
         \/ mode = "interrupted" /\ tables' = RowsDropped,
         con' /\ tables' # tables =>
           tables'.rows = <<>> /\ inTx' /\ clock' = 0 /\ pc' \in {"host", "begin"},
         con' /\ Gone => clock' = 0 /\ pc' \in {"host", "begin"},
         mode # "interrupted" => pc # "index" /\ pc' # "index"
  PROVE  DiskInv'
<1>t. disk \in AnyTables /\ tables \in AnyTables /\ inserted \in Seq(AnyRow)
  BY TypedRows DEF Types
<1>l. \A t \in AnyTables : \A all : WholeIn(t, all, FramesStarted) => WholeIn(t, all, FramesStarted')
  BY StartedGrows, WholeLater
<1>1. \/ WholeIn(disk', inserted', FramesStarted')
      \/ mode = "interrupted" /\ ~con' /\ WholeIn(disk', <<>>, FramesStarted')
  BY <1>t, <1>l DEF DiskInv
<1>2. \/ WholeIn(tables, inserted, FramesStarted')
      \/ mode = "interrupted" /\ (con => Gone) /\ WholeIn(tables, <<>>, FramesStarted')
  BY <1>t, <1>l DEF DiskInv
<1>3. \/ WholeIn(tables', inserted', FramesStarted')
      \/ mode = "interrupted" /\ (con' => Gone') /\ WholeIn(tables', <<>>, FramesStarted')
  <2>1. CASE tables' = tables
    BY <1>2, <2>1 DEF Gone
  <2>2. CASE tables' = EmptyTables
    BY <1>t, <2>2, WholeEmpty
  <2>3. CASE tables' = disk'
    BY <1>1, <2>3
  <2>4. CASE mode = "interrupted" /\ tables' = RowsDropped /\ tables' # tables
    <3>1. con' => Gone'
      BY <2>4 DEF Gone
    <3>2. WholeIn(tables', <<>>, FramesStarted')
      BY <1>t, <1>2, <2>4, WholeDropped
    <3> QED
      BY <2>4, <3>1, <3>2
  <2> QED
    BY <2>1, <2>2, <2>3, <2>4
<1>4. con' => (tables.rows = inserted \/ Gone)'
  BY DEF DiskInv, Gone
<1>5. ASSUME mode' # "interrupted" PROVE (ListedIn(disk, -1) /\ ListedIn(tables, Unlisted))'
  <2>1. ListedIn(disk', -1) /\ ListedIn(tables, -1) /\ Unlisted' = -1
    BY <1>5 DEF DiskInv, Unlisted
  <2>2. tables' \in {tables, EmptyTables, disk'}
    BY <1>5
  <2>3. ListedIn(EmptyTables, -1)
    BY <1>t, WholeEmpty
  <2>4. ListedIn(tables', -1)
    BY <2>1, <2>2, <2>3
  <2> QED
    BY <2>1, <2>4
<1> QED
  BY <1>1, <1>3, <1>4, <1>5 DEF DiskInv

LEMMA BeginWhole ==
  ASSUME BeginWriting, UNCHANGED mode
  PROVE  DiskInv'
<1>1. disk' = EmptyTables /\ tables' = EmptyTables /\ inserted' = <<>>
  BY DEF BeginWriting, Created
<1>2. <<>> \in Seq(AnyRow) /\ EmptyTables.rows = <<>>
  BY EmptyTablesTyped
<1>3. WholeIn(EmptyTables, <<>>, FramesStarted') /\ \A open : ListedIn(EmptyTables, open)
  BY <1>2, WholeEmpty
<1> QED
  BY <1>1, <1>2, <1>3 DEF DiskInv

LEMMA InsertRowsWhole ==
  ASSUME Types, DiskInv, InsertRows, UNCHANGED mode
  PROVE  DiskInv'
<1> DEFINE rows == RowsOf(Frame, agents)
<1>1. /\ pc = "write" /\ Recorded /\ pc' = "index" /\ con /\ UNCHANGED <<con, disk, clock>>
      /\ tables' = [tables EXCEPT !.rows = @ \o rows] /\ inserted' = inserted \o rows
  BY DEF InsertRows, Goto
<1>2. rows \in Seq(RowSet) /\ \A i \in 1 .. Len(rows) : rows[i].frame = Frame
  BY NewRows DEF Types
<1>3. /\ disk \in AnyTables /\ tables \in AnyTables /\ inserted \in Seq(AnyRow)
      /\ rows \in Seq(AnyRow) /\ tables.rows \in Seq(RowSet)
  BY <1>2, TypedRows, TablesTyped DEF Types
<1>4. FramesStarted = Frame /\ FramesStarted' = Frame /\ Frame \in Int /\ Unlisted = -1 /\ Unlisted' = Frame
  <2>1. Frame \in Int
    BY FrameTyped, LoopAssumption DEF Types
  <2> QED
    BY <1>1, <2>1 DEF FramesStarted, Frame, Unlisted
<1> HIDE DEF rows
<1>5. tables.rows = inserted /\ WholeIn(disk, inserted, Frame) /\ WholeIn(tables, inserted, Frame)
  BY <1>1, <1>4 DEF DiskInv, Gone
<1>6. tables' = [rows |-> tables.rows \o rows, index |-> tables.index]
  BY <1>1, <1>3 DEF AnyTables
<1>7. tables' \in AnyTables /\ tables'.rows = tables.rows \o rows /\ tables'.index = tables.index
  <2>1. tables.rows \o rows \in Seq(AnyRow) /\ tables.index \in Seq(Int)
    BY <1>3, TablesAreSequences, ConcatEntries
  <2> QED
    BY <1>6, <2>1 DEF AnyTables
<1>8. WholeIn(disk', inserted', FramesStarted')
  BY <1>1, <1>2, <1>3, <1>4, <1>5, WholeInserted
<1>9. WholeIn(tables', inserted', FramesStarted')
  <2>1. inserted' \in Seq(AnyRow) /\ tables'.rows = inserted'
    BY <1>1, <1>3, <1>5, <1>7, ConcatEntries
  <2> QED
    BY <1>3, <1>4, <1>5, <1>7, <2>1, WholeComplete
<1>10. ASSUME mode # "interrupted" PROVE ListedIn(disk', -1) /\ ListedIn(tables', Unlisted')
  <2>1. ListedIn(disk, -1) /\ ListedIn(tables, -1)
    BY <1>4, <1>10 DEF DiskInv
  <2>2. \A i \in 1 .. Len(tables.rows) : tables.rows[i].frame # -1
    <3>1. \A i \in 1 .. Len(tables.rows) : tables.rows[i] \in RowSet
      BY <1>3
    <3> QED
      BY <3>1, TypedRows
  <2>3. ListedIn(tables', Frame)
    BY <1>2, <1>3, <1>4, <1>7, <2>1, <2>2, ListedInserted
  <2> QED
    BY <1>1, <1>4, <2>1, <2>3
<1> QED
  BY <1>1, <1>5, <1>7, <1>8, <1>9, <1>10 DEF DiskInv

LEMMA InsertFrameWhole ==
  ASSUME IInv, Types, DiskInv, InsertFrame, UNCHANGED mode
  PROVE  DiskInv'
<1>1. /\ pc = "index" /\ pc' = "count" /\ UNCHANGED <<con, disk, clock, inserted>>
      /\ tables' = [tables EXCEPT !.index = Append(tables.index, Frame)]
  BY DEF InsertFrame, Listed, Goto, hist
<1>2. con /\ tables \in AnyTables /\ disk \in AnyTables /\ Frame \in Int /\ inserted \in Seq(AnyRow)
  BY <1>1, FramesAreTyped DEF IInv, Typed, TxInv
<1>3. FramesStarted = Frame /\ FramesStarted' = Frame + 1 /\ Unlisted = Frame /\ Unlisted' = -1
  BY <1>1 DEF FramesStarted, Frame, Unlisted
<1>4. tables.rows = inserted /\ WholeIn(disk, inserted, Frame) /\ WholeIn(tables, inserted, Frame)
  BY <1>1, <1>2, <1>3 DEF DiskInv, Gone
<1>5. tables' = [rows |-> tables.rows, index |-> Append(tables.index, Frame)]
  BY <1>1, <1>2 DEF AnyTables
<1>6. tables' \in AnyTables /\ tables'.rows = tables.rows /\ tables'.index = Append(tables.index, Frame)
  <2>1. tables.rows \in Seq(AnyRow) /\ Append(tables.index, Frame) \in Seq(Int)
    BY <1>2, TablesAreSequences, AppendedEntries
  <2> QED
    BY <1>5, <2>1 DEF AnyTables
<1>7. WholeIn(disk', inserted', FramesStarted')
  <2>1. Frame <= Frame + 1 /\ Frame + 1 \in Int
    BY <1>2
  <2> QED
    BY <1>1, <1>2, <1>3, <1>4, <2>1, WholeLater
<1>8. WholeIn(tables', inserted', FramesStarted')
  BY <1>1, <1>2, <1>3, <1>4, <1>6, WholeListed
<1>9. ASSUME mode # "interrupted" PROVE ListedIn(disk', -1) /\ ListedIn(tables', -1)
  <2>1. ListedIn(disk, -1) /\ ListedIn(tables, Frame)
    BY <1>3, <1>9 DEF DiskInv
  <2>2. ListedIn(tables', -1)
    BY <1>2, <1>6, <2>1, ListedMore
  <2> QED
    BY <1>1, <2>1, <2>2
<1> QED
  BY <1>1, <1>3, <1>4, <1>6, <1>7, <1>8, <1>9 DEF DiskInv

\* A COMMIT, also one whose caller is interrupted, and close().
LEMMA CommitWhole ==
  ASSUME IInv, Types, DiskInv, [Next]_vars, disk' = tables, tables' = tables,
         UNCHANGED <<inserted, mode>>, con' => con,
         pc = "commit" \/ ~con', pc' \in {"host", "core"}, pc \in {"commit", "host"},
         ~BeginWriting
  PROVE  DiskInv'
<1>t. disk \in AnyTables /\ tables \in AnyTables /\ inserted \in Seq(AnyRow)
  BY TypedRows DEF Types
<1>l. \A all : WholeIn(tables, all, FramesStarted) => WholeIn(tables, all, FramesStarted')
  BY <1>t, StartedGrows, WholeLater
<1>1. \/ WholeIn(tables, inserted, FramesStarted')
      \/ mode = "interrupted" /\ ~con' /\ WholeIn(tables, <<>>, FramesStarted')
  BY <1>l DEF DiskInv, Gone
<1>2. con' => tables'.rows = inserted'
  BY DEF DiskInv, Gone
<1>3. mode # "interrupted" => ListedIn(tables, -1) /\ Unlisted' = -1
  BY DEF DiskInv, Unlisted
<1> QED
  BY <1>1, <1>2, <1>3 DEF DiskInv

LEMMA DiskKept ==
  ASSUME IInv, Types, Places, DiskInv, [Next]_vars
  PROVE  DiskInv'
<1>1. CASE UNCHANGED vars
  BY <1>1 DEF DiskInv, FramesStarted, Frame, Recorded, Gone, Unlisted, vars, loop, db, hist
<1>2. CASE Next
  <2>0. mode' = mode /\ Step
    BY <1>2 DEF Next
  <2>1. CASE HostStep
    <3>1. UNCHANGED <<con, inTx, disk, tables, refused, inserted>>
      BY <2>1 DEF HostStep, db, hist
    <3>2. pc \in {"host", "core"} /\ pc' # "index" /\ ~BeginWriting
      BY <2>1 DEF HostStep, HostChanges, CallIterate, CoreIterates, CoreThrows, Raise, Loop,
                  BeginWriting
    <3>3. Gone => clock' = 0 /\ pc' \in {"host", "begin"}
      BY <2>1 DEF HostStep, HostChanges, CallIterate, CoreIterates, CoreThrows, Gone
    <3> QED
      BY <2>0, <3>1, <3>2, <3>3, DatabaseAlone
  <2>2. CASE BeginWriting
    BY <2>0, <2>2, BeginWhole
  <2>3. CASE BeginBusy
    <3>1. /\ pc = "begin" /\ pc' = "host" /\ clock' = 0 /\ inTx' = TRUE
          /\ UNCHANGED <<con, disk, inserted>>
          /\ \/ tables' \in {tables, EmptyTables}
             \/ mode = "interrupted" /\ tables' = RowsDropped
      BY <2>3 DEF BeginBusy, Raise, hist, Places
    <3>2. ~BeginWriting
      BY <3>1 DEF BeginWriting, Goto
    <3>3. EmptyTables.rows = <<>> /\ RowsDropped.rows = <<>>
      BY EmptyTablesTyped, RowsDroppedTyped, TypedRows DEF Types
    <3> QED
      BY <2>0, <3>1, <3>2, <3>3, DatabaseAlone
  <2>4. CASE BeginRefused \/ SkipFrame \/ NotOpened \/ InsertBusy \/ CountFrame \/ CommitBusy
    <3>1. /\ UNCHANGED <<con, disk, tables, inserted, clock>> /\ (inTx => inTx')
          /\ pc \in {"begin", "write", "count", "commit"} /\ pc' \in {"host", "core", "commit"}
          /\ pc = "begin" => pc' = "host"
      BY <2>4 DEF BeginRefused, SkipFrame, NotOpened, InsertBusy, CountFrame, CommitBusy,
                  Raise, Done, Goto, Loop, db, hist
    <3>2. ~BeginWriting
      BY <3>1 DEF BeginWriting, Goto
    <3>3. Gone => clock' = 0 /\ pc' \in {"host", "begin"}
      BY <3>1 DEF Gone
    <3> QED
      BY <2>0, <3>1, <3>2, <3>3, DatabaseAlone
  <2>5. CASE InsertRows
    BY <2>0, <2>5, InsertRowsWhole
  <2>6. CASE InsertFrame
    BY <2>0, <2>6, InsertFrameWhole
  <2>7. CASE Commit
    <3>1. /\ pc = "commit" /\ pc' \in {"host", "core"} /\ disk' = tables
          /\ UNCHANGED <<con, tables, inserted>>
      BY <2>7 DEF Commit, Done, Loop, hist
    <3>2. ~BeginWriting
      BY <3>1 DEF BeginWriting
    <3> QED
      BY <2>0, <3>1, <3>2, CommitWhole
  <2>8. CASE Interrupted
    <3>1. /\ mode = "interrupted" /\ pc \in {"write", "index", "count", "commit"} /\ pc' = "host"
          /\ UNCHANGED <<con, tables, inserted, clock>>
          /\ \/ UNCHANGED <<inTx, disk>>
             \/ pc = "commit" /\ disk' = tables
      BY <2>8 DEF Interrupted, Raise
    <3>2. ~BeginWriting /\ ~Gone
      BY <3>1 DEF BeginWriting, Gone
    <3>3. CASE UNCHANGED <<inTx, disk>>
      BY <2>0, <3>1, <3>2, <3>3, DatabaseAlone
    <3>4. CASE pc = "commit" /\ disk' = tables
      BY <2>0, <3>1, <3>2, <3>4, CommitWhole
    <3> QED
      BY <3>1, <3>3, <3>4
  <2>9. CASE Close \/ CloseBusy
    <3>1. /\ pc = "host" /\ pc' = "host" /\ con' = FALSE /\ UNCHANGED inserted
          /\ tables' = disk' /\ disk' \in {tables, disk}
      BY <2>9 DEF Close, CloseBusy, loop
    <3>2. ~BeginWriting
      BY <3>1 DEF BeginWriting
    <3>3. CASE disk' = tables
      BY <2>0, <3>1, <3>2, <3>3, CommitWhole
    <3>4. CASE disk' = disk
      BY <2>0, <3>1, <3>2, <3>4, DatabaseAlone
    <3> QED
      BY <3>1, <3>3, <3>4
  <2> QED
    BY <2>0, <2>1, <2>2, <2>3, <2>4, <2>5, <2>6, <2>7, <2>8, <2>9 DEF Step
<1> QED
  BY <1>1, <1>2

LEMMA DataInitially == Init => Types /\ Places /\ DiskInv
<1> SUFFICES ASSUME Init PROVE Types /\ Places /\ DiskInv
  OBVIOUS
<1>1. /\ pc = "host" /\ left = 0 /\ clock = 0 /\ agents \in Containers
      /\ mode \in {"calm", "busy", "interrupted"} /\ con = TRUE /\ inTx = FALSE
      /\ disk = EmptyTables /\ tables = EmptyTables /\ buffered = 0 /\ refused = FALSE
      /\ inserted = <<>>
  BY WriterAssumption DEF Init, LoopInit
<1>2. left \in 0 .. MaxCount /\ clock \in 0 .. MaxIteration
  BY <1>1, LoopAssumption
<1>3. Types
  BY <1>1, <1>2, TablesTyped DEF Types
<1>4. <<>> \in Seq(AnyRow) /\ EmptyTables.rows = <<>>
  BY EmptyTablesTyped
<1>5. WholeIn(EmptyTables, <<>>, FramesStarted) /\ \A open : ListedIn(EmptyTables, open)
  BY <1>4, WholeEmpty
<1> QED
  BY <1>1, <1>3, <1>4, <1>5 DEF Places, DiskInv

LEMMA DataInvKept ==
  IInv /\ (Types /\ Places /\ DiskInv) /\ [Next]_vars => (Types /\ Places /\ DiskInv)'
<1> SUFFICES ASSUME IInv, Types, Places, DiskInv, [Next]_vars
             PROVE  Types' /\ Places' /\ DiskInv'
  OBVIOUS
<1>1. Types'
  BY LoopKept, DataKept DEF Types
<1> QED
  BY <1>1, LoopKept, DiskKept

LEMMA Listing ==
  ASSUME NEW t \in AnyTables
  PROVE  \A f : f \in ToSet(t.index) <=> \E k \in 1 .. Len(t.index) : f = t.index[k]
<1>1. t.index \in Seq(Int)
  BY TablesAreSequences
<1>2. DOMAIN t.index = 1 .. Len(t.index)
  BY <1>1
<1> QED
  BY <1>2 DEF ToSet

LEMMA DatabaseOfInvariant == IInv /\ Types /\ DiskInv => DatabaseSound
<1> SUFFICES ASSUME IInv, Types, DiskInv PROVE DatabaseSound
  OBVIOUS
<1>t. /\ disk \in AnyTables /\ disk.rows \in Seq(AnyRow) /\ disk.index \in Seq(Int)
      /\ inserted \in Seq(AnyRow)
  BY TypedRows, TablesAreSequences DEF Types
<1>d. /\ DOMAIN disk.rows = 1 .. Len(disk.rows) /\ DOMAIN disk.index = 1 .. Len(disk.index)
      /\ DOMAIN inserted = 1 .. Len(inserted)
  BY <1>t
<1>1. TypeOK
  <2>1. ~inTx => tables = disk
    BY DEF IInv, TxInv
  <2> QED
    BY <2>1 DEF Types, TypeOK, RowSet
<1>2. \A i, k \in DOMAIN disk.index : i < k => disk.index[i] < disk.index[k]
  BY <1>d DEF DiskInv, WholeIn
<1>w. ASSUME WholeIn(disk, inserted, FramesStarted)
      PROVE  /\ IsPrefix(disk.rows, inserted)
             /\ \A k \in DOMAIN inserted :
                  inserted[k].frame \in ToSet(disk.index) => k <= Len(disk.rows)
  <2>1. IsPrefix(disk.rows, inserted)
    BY <1>w DEF WholeIn
  <2>2. \A k \in DOMAIN inserted : inserted[k].frame \in ToSet(disk.index) => k <= Len(disk.rows)
    BY <1>t, <1>d, <1>w, Listing DEF WholeIn
  <2> QED
    BY <2>1, <2>2
<1>h. ASSUME mode = "interrupted", ~con, WholeIn(disk, <<>>, FramesStarted)
      PROVE  IsPrefix(disk.rows, inserted) /\ HalfDropped
  <2>1. IsPrefix(disk.rows, <<>>)
    BY <1>h DEF WholeIn
  <2>2. disk.rows = <<>>
    BY <1>t, <2>1, PrefixOfNothing
  <2>3. IsPrefix(<<>>, inserted)
    BY <1>t, EmptyTablesTyped, WholeEmpty DEF WholeIn
  <2> QED
    BY <1>h, <2>2, <2>3 DEF HalfDropped
<1>3. IsPrefix(disk.rows, inserted)
  BY <1>w, <1>h DEF DiskInv
<1>4. \A k \in DOMAIN inserted :
        inserted[k].frame \in ToSet(disk.index) => k <= Len(disk.rows) \/ HalfDropped
  BY <1>w, <1>h DEF DiskInv
<1>5. ASSUME mode # "interrupted", NEW i \in DOMAIN disk.rows
      PROVE  disk.rows[i].frame \in ToSet(disk.index)
  <2>1. ListedIn(disk, -1)
    BY <1>5 DEF DiskInv
  <2>2. disk.rows[i].frame # -1
    <3>1. disk.rows \in Seq(RowSet)
      BY TablesTyped DEF Types
    <3>2. disk.rows[i] \in RowSet
      BY <1>d, <3>1
    <3> QED
      BY <3>2, TypedRows
  <2> QED
    BY <1>t, <1>d, <2>1, <2>2, Listing DEF ListedIn
<1> QED
  BY <1>1, <1>2, <1>3, <1>4, <1>5 DEF DatabaseSound, FramesWhole

\* Whatever fails, is locked or interrupted in begin_writing, write_iteration_state,
\* COMMIT and close(): another connection reads the first of the rows inserted, with
\* all rows of the frames that frame_data lists, each listed once and in order; or
\* none at all once close() has committed the first DROP of begin_writing
\* (HalfDropped).
THEOREM DatabaseIsSound == Spec => []DatabaseSound
BY DataInitially, DataInvKept, DatabaseOfInvariant, WriterInvariant, PTL DEF Spec
=============================================================================
