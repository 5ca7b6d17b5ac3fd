-------------------------- MODULE Hdf5WriterProofs --------------------------
(***************************************************************************)
(* What holds of Hdf5Writer for any number of agents, any size of the      *)
(* buffers and any interval between frames.                                *)
(***************************************************************************)
EXTENDS Hdf5Writer, FiniteSetTheorems, SequenceTheorems, TLAPS

AnyRow == [frame : Int, id : Nat]

Typed ==
  /\ trajectory \in Seq(AnyRow) /\ rowBuffer \in Seq(AnyRow) /\ recorded \in Seq(AnyRow)
  /\ todo \in Seq(Nat) /\ agents \in Seq(Nat) /\ clock \in Int
  /\ fallible \in BOOLEAN /\ isWriting \in BOOLEAN
  /\ pc \in {"offsets", "rows", "chunk"} => isWriting
  /\ Len(rowBuffer) <= Chunk
  /\ pc = "chunk" => RowsFull(rowBuffer)

\* Each row of the file is the one recorded at its place, or blank.
InPlace ==
  /\ Len(trajectory) <= Len(recorded)
  /\ \A k \in DOMAIN trajectory : trajectory[k] \in {recorded[k], Blank}

\* The buffer holds the rows behind those of the file.
BufferFollows ==
  /\ Len(recorded) = Len(trajectory) + Len(rowBuffer)
  /\ \A i \in DOMAIN rowBuffer : recorded[Len(trajectory) + i] = rowBuffer[i]

\* A broken append has made room for a full buffer, which stays full.
BufferStuck ==
  RowsFull(rowBuffer) /\ pc # "chunk" /\ Len(recorded) = Len(trajectory)

KeepInv == isWriting => InPlace /\ (BufferFollows \/ BufferStuck)

\* As long as nothing raises, chunks are whole and no row is blank.
WholeInv ==
  isWriting /\ ~fallible =>
    /\ \A k \in DOMAIN trajectory : trajectory[k] = recorded[k]
    /\ BufferFollows
    /\ \E n \in Nat : Len(trajectory) = n * Chunk
    /\ RowsFull(rowBuffer) => pc = "chunk"

IInv == Typed /\ KeepInv /\ WholeInv

-----------------------------------------------------------------------------
(* Facts about sequences and rows                                          *)

LEMMA ContainersAreSequences ==
  ASSUME NEW ids \in Containers
  PROVE  ids \in Seq(Nat)
<1>1. PICK n \in 0 .. Cardinality(AgentId) : ids \in [1 .. n -> AgentId]
  BY DEF Containers
<1>2. n \in Nat
  BY <1>1, LoopAssumption, FS_CardinalityType
<1>3. ids \in [1 .. n -> Nat]
  BY <1>1, LoopAssumption
<1> QED
  BY <1>2, <1>3

LEMMA RowsAreTyped ==
  /\ Blank \in AnyRow
  /\ \A id \in Nat : clock \in Int => Row(Frame, id) \in AnyRow
<1>1. clock \in Int => Frame \in Int
  BY LoopAssumption DEF Frame
<1> QED
  BY <1>1 DEF Blank, Row, AnyRow

\* A sequence is a strict prefix of what is longer and begins with it.
LEMMA LongerIsStrictPrefix ==
  ASSUME NEW S, NEW s \in Seq(S), NEW t \in Seq(S), t # <<>>
  PROVE  IsStrictPrefix(s, s \o t)
<1>1. Len(s) \in Nat /\ Len(t) \in Nat /\ Len(t) # 0
  OBVIOUS
<1>2. Len(s) < Len(s \o t) /\ s \o t \in Seq(S)
  BY <1>1
<1>3. SubSeq(s, 1, Len(s)) = SubSeq(s \o t, 1, Len(s))
  BY <1>1, SubSeqOfConcat1
<1> QED
  BY <1>1, <1>2, <1>3 DEF IsStrictPrefix, IsPrefix

LEMMA AppendedIsStrictPrefix ==
  ASSUME NEW S, NEW s \in Seq(S), NEW x \in S
  PROVE  IsStrictPrefix(s, Append(s, x))
<1>1. <<x>> \in Seq(S) /\ <<x>> # <<>> /\ Append(s, x) = s \o <<x>>
  OBVIOUS
<1> QED
  BY <1>1, LongerIsStrictPrefix

\* File and buffer together are what has been recorded.
LEMMA FileThenBuffer ==
  ASSUME Typed, BufferFollows, \A k \in DOMAIN trajectory : trajectory[k] = recorded[k]
  PROVE  recorded = trajectory \o rowBuffer
<1>1. /\ trajectory \o rowBuffer \in Seq(AnyRow) /\ recorded \in Seq(AnyRow)
      /\ Len(trajectory \o rowBuffer) = Len(recorded)
  BY DEF Typed, BufferFollows
<1>2. \A k \in 1 .. Len(recorded) : recorded[k] = (trajectory \o rowBuffer)[k]
  <2> SUFFICES ASSUME NEW k \in 1 .. Len(recorded)
               PROVE  recorded[k] = (trajectory \o rowBuffer)[k]
    OBVIOUS
  <2>1. /\ Len(trajectory) \in Nat /\ Len(rowBuffer) \in Nat
        /\ trajectory \in Seq(AnyRow) /\ rowBuffer \in Seq(AnyRow)
        /\ Len(recorded) = Len(trajectory) + Len(rowBuffer)
    BY DEF Typed, BufferFollows
  <2>2. CASE k <= Len(trajectory)
    <3>1. k \in DOMAIN trajectory /\ (trajectory \o rowBuffer)[k] = trajectory[k]
      BY <2>1, <2>2
    <3> QED
      BY <3>1
  <2>3. CASE ~(k <= Len(trajectory))
    <3> DEFINE i == k - Len(trajectory)
    <3>1. /\ i \in DOMAIN rowBuffer /\ k = Len(trajectory) + i
          /\ (trajectory \o rowBuffer)[k] = rowBuffer[i]
      BY <2>1, <2>3
    <3> QED
      BY <3>1 DEF BufferFollows
  <2> QED
    BY <2>2, <2>3
<1> QED
  BY <1>1, <1>2, SeqEqual

\* What is left of a number by whole chunks.
LEMMA Quotient ==
  ASSUME NEW n \in Nat, NEW c \in Nat \ {0}, NEW r \in 0 .. c - 1
  PROVE  (n * c + r) \div c = n
<1> DEFINE q == (n * c + r) \div c
<1>1. n * c \in Nat
  OBVIOUS
<1>2. q \in Int /\ q * c <= n * c + r /\ n * c + r < q * c + c
  BY <1>1
<1> HIDE DEF q
<1>3. ~(q >= n + 1)
  <2> SUFFICES ASSUME q >= n + 1 PROVE FALSE
    OBVIOUS
  <2>1. PICK d \in Nat : q = n + 1 + d
    <3>1. q - n - 1 \in Nat /\ q = n + 1 + (q - n - 1)
      BY <1>2
    <3> QED
      BY <3>1
  <2>2. q * c = n * c + c + d * c /\ d * c \in Nat
    BY <2>1
  <2> QED
    BY <1>1, <1>2, <2>2
<1>4. ~(q + 1 <= n)
  <2> SUFFICES ASSUME q + 1 <= n PROVE FALSE
    OBVIOUS
  <2>1. PICK d \in Nat : n = q + 1 + d
    <3>1. n - q - 1 \in Nat /\ n = q + 1 + (n - q - 1)
      BY <1>2
    <3> QED
      BY <3>1
  <2>2. n * c = q * c + c + d * c /\ d * c \in Nat
    BY <1>2, <2>1
  <2> QED
    BY <1>1, <1>2, <2>2
<1> QED
  BY <1>2, <1>3, <1>4 DEF q

-----------------------------------------------------------------------------
(* The inductive invariant                                                 *)

LEMMA InvariantInitially == Init => IInv
<1> SUFFICES ASSUME Init PROVE IInv
  OBVIOUS
<1>1. agents \in Seq(Nat) /\ clock \in Int /\ pc = "host"
  BY ContainersAreSequences DEF Init, LoopInit
<1>2. /\ trajectory = <<>> /\ rowBuffer = <<>> /\ recorded = <<>> /\ todo = <<>>
      /\ fallible \in BOOLEAN /\ isWriting = FALSE
  BY BufferAssumption DEF Init
<1>3. <<>> \in Seq(AnyRow) /\ <<>> \in Seq(Nat) /\ Len(<<>>) <= Chunk
  BY BufferAssumption
<1>4. Typed
  BY <1>1, <1>2, <1>3 DEF Typed
<1> QED
  BY <1>2, <1>4 DEF IInv, KeepInv, WholeInv

\* What is neither stored nor appended leaves the invariant alone, unless an
\* append is due.
LEMMA Untouched ==
  ASSUME IInv,
         UNCHANGED <<trajectory, rowBuffer, recorded, isWriting, fallible>>,
         pc # "chunk", pc' # "chunk",
         pc' \in {"offsets", "rows"} => isWriting,
         todo' \in Seq(Nat), agents' \in Seq(Nat), clock' \in Int
  PROVE  IInv'
<1>1. Typed'
  BY DEF IInv, Typed, RowsFull
<1>2. KeepInv'
  BY DEF IInv, KeepInv, InPlace, BufferFollows, BufferStuck, RowsFull
<1>3. WholeInv'
  BY DEF IInv, WholeInv, BufferFollows, RowsFull
<1> QED
  BY <1>1, <1>2, <1>3 DEF IInv

LEMMA LoopTyped ==
  ASSUME Typed,
         HostChanges \/ CallIterate \/ CoreIterates \/ CoreThrows
  PROVE  /\ agents' \in Seq(Nat) /\ clock' \in Int
         /\ pc # "chunk" /\ pc' \notin {"offsets", "rows", "chunk"}
<1>1. CASE HostChanges
  BY <1>1, ContainersAreSequences DEF HostChanges, Typed
<1>2. CASE CallIterate
  BY <1>2 DEF CallIterate, Loop, Typed
<1>3. CASE CoreIterates
  BY <1>3, ContainersAreSequences DEF CoreIterates, Typed
<1>4. CASE CoreThrows
  BY <1>4 DEF CoreThrows, Raise, Typed
<1> QED
  BY <1>1, <1>2, <1>3, <1>4


LEMMA BeginKeeps ==
  ASSUME IInv, BeginWriting, UNCHANGED fallible
  PROVE  IInv'
<1>1. /\ trajectory' = <<>> /\ rowBuffer' = <<>> /\ recorded' = <<>>
      /\ todo' = todo /\ agents' = agents /\ clock' = clock /\ isWriting' = TRUE
      /\ pc' \in {"write", "host"} /\ fallible' = fallible
  BY DEF BeginWriting, Goto, Raise
<1>2. Typed'
  BY <1>1, BufferAssumption DEF IInv, Typed
<1>3. InPlace' /\ BufferFollows'
  BY <1>1 DEF InPlace, BufferFollows
<1>4. Len(trajectory') = 0 * Chunk /\ ~(RowsFull(rowBuffer))'
  BY <1>1, BufferAssumption DEF RowsFull
<1>5. WholeInv'
  BY <1>1, <1>3, <1>4 DEF WholeInv
<1> QED
  BY <1>2, <1>3, <1>5 DEF IInv, KeepInv

LEMMA WriteRowKeeps ==
  ASSUME IInv, WriteRow, UNCHANGED fallible
  PROVE  IInv'
<1> DEFINE row == Row(Frame, Head(todo))
<1>1. /\ pc = "rows" /\ todo # <<>> /\ ~RowsFull(rowBuffer)
      /\ rowBuffer' = Append(rowBuffer, row) /\ recorded' = Append(recorded, row)
      /\ todo' = Tail(todo) /\ trajectory' = trajectory /\ isWriting' = isWriting
      /\ agents' = agents /\ clock' = clock /\ fallible' = fallible
      /\ pc' \in {"rows", "chunk"} /\ (pc' = "chunk" <=> (RowsFull(rowBuffer))')
  BY DEF WriteRow, Goto, file, RowsFull
<1>2. /\ trajectory \in Seq(AnyRow) /\ rowBuffer \in Seq(AnyRow) /\ recorded \in Seq(AnyRow)
      /\ todo \in Seq(Nat) /\ clock \in Int /\ isWriting
      /\ Len(rowBuffer) <= Chunk
  BY <1>1 DEF IInv, Typed
<1>3. row \in AnyRow
  BY <1>1, <1>2, RowsAreTyped
<1> HIDE DEF row
<1>4. Len(rowBuffer) < Chunk
  BY <1>1, <1>2, BufferAssumption DEF RowsFull
<1>5. /\ Len(rowBuffer') = Len(rowBuffer) + 1 /\ Len(recorded') = Len(recorded) + 1
      /\ \A i \in 1 .. Len(rowBuffer) : rowBuffer'[i] = rowBuffer[i]
      /\ \A i \in 1 .. Len(recorded) : recorded'[i] = recorded[i]
      /\ rowBuffer'[Len(rowBuffer) + 1] = row /\ recorded'[Len(recorded) + 1] = row
      /\ DOMAIN rowBuffer' = 1 .. Len(rowBuffer) + 1
      /\ DOMAIN rowBuffer = 1 .. Len(rowBuffer) /\ DOMAIN trajectory = 1 .. Len(trajectory)
      /\ Len(rowBuffer) \in Nat /\ Len(recorded) \in Nat /\ Len(trajectory) \in Nat
  BY <1>1, <1>2, <1>3
<1>6. Typed'
  BY <1>1, <1>2, <1>3, <1>4, <1>5, BufferAssumption DEF IInv, Typed
<1>7. InPlace /\ BufferFollows
  BY <1>1, <1>2 DEF IInv, KeepInv, BufferStuck
<1>8. InPlace'
  BY <1>1, <1>5, <1>7 DEF InPlace
<1>9. BufferFollows'
  <2>1. Len(recorded') = Len(trajectory') + Len(rowBuffer')
    BY <1>1, <1>5, <1>7 DEF BufferFollows
  <2>2. \A i \in DOMAIN rowBuffer' : recorded'[Len(trajectory') + i] = rowBuffer'[i]
    <3> SUFFICES ASSUME NEW i \in 1 .. Len(rowBuffer) + 1
                 PROVE  recorded'[Len(trajectory) + i] = rowBuffer'[i]
      BY <1>1, <1>5
    <3>1. Len(recorded) = Len(trajectory) + Len(rowBuffer)
      BY <1>7 DEF BufferFollows
    <3>2. CASE i = Len(rowBuffer) + 1
      <4>1. Len(trajectory) + i = Len(recorded) + 1
        BY <1>5, <3>1, <3>2
      <4> QED
        BY <1>5, <3>2, <4>1
    <3>3. CASE i # Len(rowBuffer) + 1
      <4>1. i \in 1 .. Len(rowBuffer) /\ Len(trajectory) + i \in 1 .. Len(recorded)
        BY <1>5, <3>1, <3>3
      <4>2. recorded[Len(trajectory) + i] = rowBuffer[i]
        BY <1>5, <1>7, <4>1 DEF BufferFollows
      <4> QED
        BY <1>5, <4>1, <4>2
    <3> QED
      BY <3>2, <3>3
  <2> QED
    BY <2>1, <2>2 DEF BufferFollows
<1>10. KeepInv'
  BY <1>8, <1>9 DEF KeepInv
<1>11. WholeInv'
  <2> SUFFICES ASSUME ~fallible
               PROVE  /\ \A k \in DOMAIN trajectory' : trajectory'[k] = recorded'[k]
                      /\ BufferFollows'
                      /\ \E n \in Nat : Len(trajectory') = n * Chunk
                      /\ (RowsFull(rowBuffer))' => pc' = "chunk"
    <3>1. fallible' = fallible
      BY <1>1
    <3> QED
      BY <3>1 DEF WholeInv
  <2>1. /\ \A k \in DOMAIN trajectory : trajectory[k] = recorded[k]
        /\ \E n \in Nat : Len(trajectory) = n * Chunk
    BY <1>2 DEF IInv, WholeInv
  <2>2. \A k \in DOMAIN trajectory : k \in 1 .. Len(recorded)
    BY <1>5, <1>7 DEF InPlace
  <2> QED
    BY <1>1, <1>5, <1>9, <2>1, <2>2
<1> QED
  BY <1>6, <1>10, <1>11 DEF IInv

\* What an append leaves in a dataset.
LEMMA AppendTyped ==
  ASSUME NEW S, NEW data \in Seq(S), NEW rows \in Seq(S), NEW fill \in S
  PROVE  /\ Appended(data, rows) \in Seq(S)
         /\ Len(Appended(data, rows)) = Len(data) + Len(rows)
         /\ \A k \in 1 .. Len(data) : Appended(data, rows)[k] = data[k]
         /\ \A i \in 1 .. Len(rows) : Appended(data, rows)[Len(data) + i] = rows[i]
         /\ BrokenAppends(data, rows, fill) \subseteq Seq(S)
         /\ [i \in DOMAIN rows |-> fill] \in Seq(S)
         /\ Len([i \in DOMAIN rows |-> fill]) = Len(rows)
<1>1. /\ [i \in DOMAIN rows |-> fill] \in Seq(S)
      /\ Len([i \in DOMAIN rows |-> fill]) = Len(rows)
  OBVIOUS
<1>2. BrokenAppends(data, rows, fill) \subseteq Seq(S)
  BY <1>1 DEF BrokenAppends
<1> QED
  BY <1>1, <1>2 DEF Appended

LEMMA AppendChunkKeeps ==
  ASSUME IInv, AppendChunk, UNCHANGED fallible
  PROVE  IInv'
<1>1. /\ pc = "chunk" /\ pc' = "rows" /\ trajectory' = trajectory \o rowBuffer
      /\ rowBuffer' = <<>> /\ recorded' = recorded /\ todo' = todo
      /\ agents' = agents /\ clock' = clock /\ isWriting' = isWriting /\ fallible' = fallible
  BY DEF AppendChunk, Goto, Appended
<1>2. /\ trajectory \in Seq(AnyRow) /\ rowBuffer \in Seq(AnyRow) /\ recorded \in Seq(AnyRow)
      /\ isWriting /\ Len(rowBuffer) = Chunk
  BY <1>1 DEF IInv, Typed, RowsFull
<1>3. InPlace /\ BufferFollows
  BY <1>1, <1>2 DEF IInv, KeepInv, BufferStuck
<1>4. Typed'
  BY <1>1, <1>2, BufferAssumption DEF IInv, Typed
<1>5. /\ Len(trajectory') = Len(trajectory) + Len(rowBuffer)
      /\ Len(trajectory') = Len(recorded') /\ Len(recorded) \in Nat
  <2>1. Len(trajectory \o rowBuffer) = Len(trajectory) + Len(rowBuffer)
    BY <1>2
  <2>2. Len(recorded) = Len(trajectory) + Len(rowBuffer) /\ Len(recorded) \in Nat
    BY <1>2, <1>3 DEF BufferFollows
  <2> QED
    BY <1>1, <2>1, <2>2
<1>6. \A k \in DOMAIN trajectory' :
        \/ k \in DOMAIN trajectory /\ trajectory'[k] = trajectory[k]
        \/ trajectory'[k] = recorded'[k]
  <2> SUFFICES ASSUME NEW k \in DOMAIN trajectory', ~(k \in DOMAIN trajectory)
               PROVE  trajectory'[k] = recorded[k]
    BY <1>1, <1>2
  <2>1. k \in 1 .. Len(trajectory) + Len(rowBuffer) /\ k > Len(trajectory)
    <3>1. DOMAIN (trajectory \o rowBuffer) = 1 .. Len(trajectory) + Len(rowBuffer)
      BY <1>2
    <3> QED
      BY <1>1, <1>2, <3>1
  <2> DEFINE i == k - Len(trajectory)
  <2>2. i \in DOMAIN rowBuffer /\ k = Len(trajectory) + i /\ (trajectory \o rowBuffer)[k] = rowBuffer[i]
    BY <1>2, <2>1
  <2> QED
    BY <1>1, <1>3, <2>2 DEF BufferFollows
<1>7. KeepInv'
  BY <1>1, <1>3, <1>5, <1>6, BufferAssumption DEF KeepInv, InPlace, BufferFollows
<1>8. WholeInv'
  <2> SUFFICES ASSUME ~fallible
               PROVE  /\ \A k \in DOMAIN trajectory' : trajectory'[k] = recorded'[k]
                      /\ BufferFollows'
                      /\ \E n \in Nat : Len(trajectory') = n * Chunk
                      /\ ~(RowsFull(rowBuffer))'
    BY <1>1 DEF WholeInv
  <2>1. /\ \A k \in DOMAIN trajectory : trajectory[k] = recorded[k]
        /\ \E n \in Nat : Len(trajectory) = n * Chunk
    BY <1>2 DEF IInv, WholeInv
  <2>2. PICK n \in Nat : Len(trajectory) = n * Chunk
    BY <2>1
  <2>3. n + 1 \in Nat /\ Len(trajectory') = (n + 1) * Chunk
    BY <1>1, <1>2, <2>2, BufferAssumption
  <2>4. \A k \in DOMAIN trajectory' : trajectory'[k] = recorded'[k]
    BY <1>1, <1>6, <2>1
  <2>5. BufferFollows' /\ ~(RowsFull(rowBuffer))'
    BY <1>1, <1>5, BufferAssumption DEF BufferFollows, RowsFull
  <2> QED
    BY <2>3, <2>4, <2>5
<1> QED
  BY <1>4, <1>7, <1>8 DEF IInv

LEMMA AppendChunkFailsKeeps ==
  ASSUME IInv, AppendChunkFails, UNCHANGED fallible
  PROVE  IInv'
<1>1. /\ pc = "chunk" /\ pc' = "host" /\ fallible /\ fallible' = fallible
      /\ trajectory' \in BrokenAppends(trajectory, rowBuffer, Blank)
      /\ rowBuffer' = rowBuffer /\ recorded' = recorded /\ todo' = todo
      /\ agents' = agents /\ clock' = clock /\ isWriting' = isWriting
  BY DEF AppendChunkFails, Raise, buffers
<1>2. /\ trajectory \in Seq(AnyRow) /\ rowBuffer \in Seq(AnyRow) /\ recorded \in Seq(AnyRow)
      /\ isWriting /\ RowsFull(rowBuffer)
  BY <1>1 DEF IInv, Typed
<1>3. InPlace /\ BufferFollows
  BY <1>1, <1>2 DEF IInv, KeepInv, BufferStuck
<1>4. Typed'
  <2>1. trajectory' \in Seq(AnyRow)
    BY <1>1, <1>2, RowsAreTyped, AppendTyped
  <2> QED
    BY <1>1, <2>1 DEF IInv, Typed
<1>5. KeepInv'
  <2>1. CASE trajectory' = trajectory
    BY <1>1, <1>3, <2>1 DEF KeepInv, InPlace, BufferFollows
  <2>2. CASE trajectory' = trajectory \o [i \in DOMAIN rowBuffer |-> Blank]
    <3> DEFINE fill == [i \in DOMAIN rowBuffer |-> Blank]
    <3>1. fill \in Seq(AnyRow) /\ Len(fill) = Len(rowBuffer)
      <4>1. Blank \in AnyRow
        BY RowsAreTyped
      <4>2. Len(rowBuffer) \in Nat /\ DOMAIN rowBuffer = 1 .. Len(rowBuffer)
        BY <1>2
      <4>3. PICK n \in Nat : n = Len(rowBuffer) /\ fill = [i \in 1 .. n |-> Blank]
        BY <4>2
      <4>4. [i \in 1 .. n |-> Blank] \in Seq(AnyRow) /\ Len([i \in 1 .. n |-> Blank]) = n
        BY <4>1
      <4> HIDE DEF fill
      <4> QED
        BY <4>3, <4>4
    <3>2. \A i \in 1 .. Len(fill) : fill[i] = Blank
      BY <1>2
    <3> HIDE DEF fill
    <3>3. Len(trajectory') = Len(recorded)
      BY <1>2, <1>3, <2>2, <3>1 DEF BufferFollows, fill
    <3>4. \A k \in DOMAIN trajectory' :
            \/ k \in DOMAIN trajectory /\ trajectory'[k] = trajectory[k]
            \/ trajectory'[k] = Blank
      BY <1>2, <2>2, <3>1, <3>2 DEF fill
    <3> QED
      BY <1>1, <1>2, <1>3, <3>3, <3>4 DEF KeepInv, InPlace, BufferStuck, RowsFull
  <2>3. CASE trajectory' = trajectory \o rowBuffer
    <3>1. Len(trajectory') = Len(recorded)
      BY <1>2, <1>3, <2>3 DEF BufferFollows
    <3>2. \A k \in DOMAIN trajectory' :
            \/ k \in DOMAIN trajectory /\ trajectory'[k] = trajectory[k]
            \/ trajectory'[k] = recorded[k]
      <4> SUFFICES ASSUME NEW k \in DOMAIN trajectory', ~(k \in DOMAIN trajectory)
                   PROVE  trajectory'[k] = recorded[k]
        BY <1>2, <2>3
      <4> DEFINE i == k - Len(trajectory)
      <4>1. i \in DOMAIN rowBuffer /\ k = Len(trajectory) + i /\ (trajectory \o rowBuffer)[k] = rowBuffer[i]
        BY <1>2, <2>3
      <4> QED
        BY <1>3, <2>3, <4>1 DEF BufferFollows
    <3> QED
      BY <1>1, <1>2, <1>3, <3>1, <3>2 DEF KeepInv, InPlace, BufferStuck, RowsFull
  <2> QED
    BY <1>1, <2>1, <2>2, <2>3 DEF BrokenAppends
<1> QED
  BY <1>1, <1>4, <1>5 DEF IInv, WholeInv

\* close() leaves only types to keep: the file is no longer open.
LEMMA ClosedKeeps ==
  ASSUME IInv, Close \/ CloseFails, UNCHANGED fallible
  PROVE  IInv'
<1>1. /\ pc = "host" /\ isWriting' = FALSE /\ fallible' = fallible
      /\ rowBuffer' = rowBuffer /\ recorded' = recorded /\ todo' = todo
      /\ pc' = pc /\ agents' = agents /\ clock' = clock
      /\ \/ trajectory' = trajectory
         \/ trajectory' = Appended(trajectory, rowBuffer)
         \/ trajectory' \in BrokenAppends(trajectory, rowBuffer, Blank)
  BY DEF Close, CloseFails, Remaining, loop
<1>2. /\ trajectory \in Seq(AnyRow) /\ rowBuffer \in Seq(AnyRow) /\ Blank \in AnyRow
  BY RowsAreTyped DEF IInv, Typed
<1>3. trajectory' \in Seq(AnyRow)
  BY <1>1, <1>2, AppendTyped
<1>4. Typed'
  BY <1>1, <1>3 DEF IInv, Typed
<1> QED
  BY <1>1, <1>4 DEF IInv, KeepInv, WholeInv

LEMMA InvariantKept == IInv /\ [Next]_vars => IInv'
<1> SUFFICES ASSUME IInv, [Next]_vars PROVE IInv'
  OBVIOUS
<1>t. /\ todo \in Seq(Nat) /\ agents \in Seq(Nat) /\ clock \in Int
      /\ (pc \in {"offsets", "rows", "chunk"} => isWriting)
  BY DEF IInv, Typed
<1>1. CASE UNCHANGED vars
  BY <1>1 DEF IInv, Typed, KeepInv, InPlace, BufferFollows, BufferStuck, WholeInv, RowsFull,
              vars, loop, file, buffers
<1>2. CASE Next
  <2>0. UNCHANGED fallible
    BY <1>2 DEF Next
  <2>1. CASE HostStep
    <3>1. UNCHANGED <<trajectory, rowBuffer, recorded, isWriting, todo>>
      BY <2>1 DEF HostStep, Idle, file, buffers
    <3>2. /\ agents' \in Seq(Nat) /\ clock' \in Int
          /\ pc # "chunk" /\ pc' \notin {"offsets", "rows", "chunk"}
      BY <2>1, LoopTyped DEF HostStep, IInv
    <3> QED
      BY <1>t, <2>0, <3>1, <3>2, Untouched
  <2>2. CASE BeginWriting
    BY <2>0, <2>2, BeginKeeps
  <2>3. CASE BeginRefused \/ SkipFrame \/ WriteRaises \/ EndFrame
    <3>1. /\ UNCHANGED <<trajectory, rowBuffer, recorded, isWriting, todo, agents, clock>>
          /\ pc # "chunk" /\ pc' \in {"host", "core"}
      BY <2>3 DEF BeginRefused, SkipFrame, WriteRaises, EndFrame, Raise, Done, Loop, file, buffers
    <3> QED
      BY <1>t, <2>0, <3>1, Untouched
  <2>4. CASE HeaderFails
    <3>1. /\ UNCHANGED <<rowBuffer, recorded, isWriting, todo, agents, clock>>
          /\ ~isWriting /\ pc' = "host" /\ (trajectory' = trajectory \/ trajectory' = <<>>)
      BY <2>4 DEF HeaderFails, Raise, buffers
    <3>2. <<>> \in Seq(AnyRow)
      OBVIOUS
    <3>3. Typed'
      BY <2>0, <3>1, <3>2 DEF IInv, Typed
    <3> QED
      BY <3>1, <3>3 DEF IInv, KeepInv, WholeInv
  <2>5. CASE StartFrame
    <3>1. /\ UNCHANGED <<trajectory, rowBuffer, recorded, isWriting, agents, clock>>
          /\ todo' = agents /\ isWriting /\ pc = "write" /\ pc' \in {"offsets", "rows"}
      BY <2>5 DEF StartFrame, Goto, file
    <3> QED
      BY <1>t, <2>0, <3>1, Untouched
  <2>6. CASE AppendOffsets \/ AppendOffsetsFails
    <3>1. /\ UNCHANGED <<trajectory, rowBuffer, recorded, isWriting, todo, agents, clock>>
          /\ pc = "offsets" /\ pc' \in {"host", "rows"}
      BY <2>6 DEF AppendOffsets, AppendOffsetsFails, Goto, Raise, buffers
    <3> QED
      BY <1>t, <2>0, <3>1, Untouched
  <2>7. CASE WriteRow
    BY <2>0, <2>7, WriteRowKeeps
  <2>8. CASE RowFails
    <3>1. /\ UNCHANGED <<trajectory, rowBuffer, recorded, isWriting, todo, agents, clock>>
          /\ pc = "rows" /\ pc' = "host"
      BY <2>8 DEF RowFails, Raise, file
    <3> QED
      BY <1>t, <2>0, <3>1, Untouched
  <2>9. CASE AppendChunk
    BY <2>0, <2>9, AppendChunkKeeps
  <2>10. CASE AppendChunkFails
    BY <2>0, <2>10, AppendChunkFailsKeeps
  <2>11. CASE Close \/ CloseFails
    BY <2>0, <2>11, ClosedKeeps
  <2> QED
    BY <1>2, <2>1, <2>2, <2>3, <2>4, <2>5, <2>6, <2>7, <2>8, <2>9, <2>10, <2>11 DEF Next, Step
<1> QED
  BY <1>1, <1>2

THEOREM WriterInvariant == Spec => []IInv
BY InvariantInitially, InvariantKept, PTL DEF Spec

-----------------------------------------------------------------------------
(* What follows                                                            *)

\* Whatever raised before, no row of an open file is misplaced: what _append
\* of Hdf5TrajectoryWriter left is the row recorded there or blank.
THEOREM NoRowMisplaced == Spec => []RowsKeepPlace
<1>1. IInv => RowsKeepPlace
  BY DEF IInv, KeepInv, InPlace, RowsKeepPlace
<1> QED
  BY <1>1, WriterInvariant, PTL

\* The file holds the complete chunks of the rows recorded and nothing else.
THEOREM ChunksAreWhole == Spec => []WholeChunks
<1>1. IInv => WholeChunks
  <2> SUFFICES ASSUME IInv, isWriting, ~fallible
               PROVE  LET full == (Len(recorded) \div Chunk) * Chunk
                          kept == IF pc = "chunk" THEN full - Chunk ELSE full
                      IN trajectory = SubSeq(recorded, 1, kept)
    BY DEF WholeChunks
  <2>1. /\ trajectory \in Seq(AnyRow) /\ rowBuffer \in Seq(AnyRow) /\ recorded \in Seq(AnyRow)
        /\ Len(rowBuffer) \in Nat /\ Len(rowBuffer) <= Chunk
        /\ pc = "chunk" <=> Len(rowBuffer) = Chunk
        /\ \A k \in DOMAIN trajectory : trajectory[k] = recorded[k]
        /\ Len(recorded) = Len(trajectory) + Len(rowBuffer)
    BY DEF IInv, Typed, WholeInv, BufferFollows, RowsFull
  <2>2. PICK n \in Nat : Len(trajectory) = n * Chunk
    BY DEF IInv, WholeInv
  <2>3. SubSeq(recorded, 1, Len(trajectory)) = trajectory
    <3> DEFINE head == SubSeq(recorded, 1, Len(trajectory))
    <3>1. /\ head \in Seq(AnyRow) /\ Len(head) = Len(trajectory)
          /\ \A k \in 1 .. Len(trajectory) : head[k] = recorded[k]
      BY <2>1
    <3> QED
      BY <2>1, <3>1, SeqEqual
  <2>4. CASE pc = "chunk"
    <3>1. (n + 1) * Chunk = n * Chunk + Chunk /\ n * Chunk \in Nat
      BY BufferAssumption
    <3>2. Len(recorded) = (n + 1) * Chunk + 0
      <4>1. Len(recorded) = Len(trajectory) + Len(rowBuffer) /\ Len(rowBuffer) = Chunk
        BY <2>1, <2>4
      <4>2. Len(recorded) = n * Chunk + Chunk
        BY <2>2, <4>1
      <4> QED
        BY <3>1, <4>2, BufferAssumption
    <3>3. Len(recorded) \div Chunk = n + 1
      <4>1. n + 1 \in Nat /\ 0 \in 0 .. Chunk - 1
        BY BufferAssumption
      <4> QED
        BY <3>2, <4>1, Quotient, BufferAssumption
    <3>4. (n + 1) * Chunk - Chunk = n * Chunk
      BY <3>1, BufferAssumption
    <3> QED
      BY <2>2, <2>3, <2>4, <3>3, <3>4
  <2>5. CASE pc # "chunk"
    <3>1. Len(recorded) = n * Chunk + Len(rowBuffer) /\ Len(rowBuffer) < Chunk
      BY <2>1, <2>2, <2>5, BufferAssumption
    <3>2. Len(recorded) \div Chunk = n
      <4>1. Len(rowBuffer) \in 0 .. Chunk - 1
        BY <2>1, <3>1, BufferAssumption
      <4> QED
        BY <3>1, <4>1, Quotient, BufferAssumption
    <3> QED
      BY <2>2, <2>3, <2>5, <3>2
  <2> QED
    BY <2>4, <2>5
<1> QED
  BY <1>1, WriterInvariant, PTL

\* begin_writing(), the loop over the agents, _append and close() together
\* implement the log as long as nothing raises: no row is lost between the
\* buffer, the chunks and close().
THEOREM ImplementsLog == Spec => WritesLog
<1> USE DEF Log!Next, Log!Begin, Log!Record, Log!Persist, Log!Close, Log!vars
<1>1. Init => Log!Init
  BY DEF Init, Log!Init
<1>2. ASSUME IInv, [Next]_vars
      PROVE  [Log!Next]_(Log!vars)
  <2>1. CASE UNCHANGED vars
    BY <2>1 DEF vars, file
  <2>2. CASE Next /\ fallible
    <3>1. fallible' = fallible
      BY <2>2 DEF Next
    <3> QED
      BY <2>2, <3>1
  <2>3. CASE Next /\ ~fallible
    <3>0. fallible' = fallible /\ ~fallible /\ ~fallible'
      BY <2>3 DEF Next
    <3>1. CASE UNCHANGED <<isWriting, recorded, trajectory>>
      BY <3>0, <3>1
    <3>2. CASE BeginWriting
      <4>1. isWriting' = TRUE /\ recorded' = <<>> /\ trajectory' = <<>>
        BY <3>2 DEF BeginWriting
      <4> QED
        BY <3>0, <4>1
    <3>3. CASE WriteRow
      <4> DEFINE row == Row(Frame, Head(todo))
      <4>1. /\ pc = "rows" /\ todo # <<>> /\ recorded' = Append(recorded, row)
            /\ isWriting' = isWriting /\ trajectory' = trajectory
        BY <3>3 DEF WriteRow, file
      <4>2. recorded \in Seq(AnyRow) /\ todo \in Seq(Nat) /\ clock \in Int /\ isWriting
        BY <1>2, <4>1 DEF IInv, Typed
      <4>3. row \in AnyRow
        BY <4>1, <4>2, RowsAreTyped
      <4>4. IsStrictPrefix(recorded, recorded')
        BY <4>1, <4>2, <4>3, AppendedIsStrictPrefix
      <4> QED
        BY <3>0, <4>1, <4>2, <4>4 DEF IsStrictPrefix, IsPrefix, Log!IsStrictPrefix, Log!IsPrefix
    <3>4. CASE AppendChunk
      <4>1. /\ pc = "chunk" /\ trajectory' = trajectory \o rowBuffer
            /\ isWriting' = isWriting /\ recorded' = recorded
        BY <3>4 DEF AppendChunk, Appended
      <4>2. /\ trajectory \in Seq(AnyRow) /\ rowBuffer \in Seq(AnyRow) /\ recorded \in Seq(AnyRow)
            /\ isWriting /\ Typed /\ rowBuffer # <<>>
        BY <1>2, <4>1, BufferAssumption DEF IInv, Typed, RowsFull
      <4>3. recorded = trajectory \o rowBuffer
        BY <1>2, <3>0, <4>2, FileThenBuffer DEF IInv, WholeInv
      <4>4. IsStrictPrefix(trajectory, trajectory')
        BY <4>1, <4>2, LongerIsStrictPrefix
      <4>5. IsPrefix(trajectory', recorded)
        BY <4>1, <4>2, <4>3 DEF IsPrefix
      <4> QED
        BY <3>0, <4>1, <4>2, <4>4, <4>5 DEF IsStrictPrefix, IsPrefix, Log!IsStrictPrefix, Log!IsPrefix
    <3>5. CASE Close
      <4>1. /\ isWriting /\ isWriting' = FALSE /\ recorded' = recorded
            /\ trajectory' = trajectory \o rowBuffer
        BY <3>5 DEF Close, Remaining, Appended
      <4>2. recorded = trajectory \o rowBuffer
        BY <1>2, <3>0, <4>1, FileThenBuffer DEF IInv, WholeInv
      <4> QED
        BY <3>0, <4>1, <4>2
    <3> QED
      BY <2>3, <3>0, <3>1, <3>2, <3>3, <3>4, <3>5 DEF Next, Step, HostStep, Idle, BeginRefused,
         HeaderFails, SkipFrame, WriteRaises, StartFrame, AppendOffsets, AppendOffsetsFails,
         RowFails, AppendChunkFails, EndFrame, CloseFails, file, buffers
  <2> QED
    BY <1>2, <2>1, <2>2, <2>3
<1> QED
  BY <1>1, <1>2, WriterInvariant, PTL DEF Spec, WritesLog, Log!Spec

-----------------------------------------------------------------------------
(***************************************************************************)
(* The offsets: those of the file and then those buffered count the rows   *)
(* recorded before each frame was begun.                                   *)
(***************************************************************************)
Offsets == frameOffsets \o offsetBuffer

\* The rows of a frame are behind its offset and not behind the next one.
Indexing(offsets, rows) ==
  /\ \A i, j \in 1 .. Len(offsets) : i <= j => offsets[i] <= offsets[j]
  /\ \A i \in 1 .. Len(offsets) : offsets[i] <= Len(rows)
  /\ \A k \in 1 .. Len(rows) :
       /\ rows[k].frame + 1 \in 1 .. Len(offsets)
       /\ offsets[rows[k].frame + 1] < k
       /\ rows[k].frame + 2 <= Len(offsets) => k <= offsets[rows[k].frame + 2]

\* The frames begun: one for each recorded iteration up to the present one.
FramesStarted == IF pc = "write" /\ Recorded THEN Frame ELSE Frame + 1

IndexInv ==
  isWriting /\ ~fallible =>
    /\ recordsWritten = Len(recorded)
    /\ Len(offsetBuffer) <= OffsetChunk /\ (OffsetsFull(offsetBuffer) => pc = "offsets")
    /\ Len(Offsets) = FramesStarted
    /\ Indexing(Offsets, recorded)

\* The types of the variables without those of the last conjunct of TypeOK.
Types ==
  /\ fallible \in BOOLEAN
  /\ pc \in {"host", "begin", "core", "write", "offsets", "rows", "chunk"}
  /\ left \in 0 .. MaxCount
  /\ clock \in 0 .. MaxIteration
  /\ agents \in Containers
  /\ isWriting \in BOOLEAN /\ fileOpen = isWriting
  /\ trajectory \in Seq(RowSet \cup {Blank})
  /\ rowBuffer \in Seq(RowSet) /\ recorded \in Seq(RowSet)
  /\ frameOffsets \in Seq(Nat) /\ offsetBuffer \in Seq(Nat)
  /\ recordsWritten \in Nat
  /\ todo \in Seq(AgentId)

Places == (pc = "core" => left > 0) /\ (pc = "begin" => clock = 0)

FileInv == Types /\ Places /\ IndexInv /\ (~isWriting => FramesIndexed)

LEMMA RowFrames ==
  ASSUME NEW rows \in Seq(AnyRow)
  PROVE  \A k \in 1 .. Len(rows) : rows[k].frame \in Int
<1>1. \A k \in 1 .. Len(rows) : rows[k] \in AnyRow
  OBVIOUS
<1> QED
  BY <1>1 DEF AnyRow

LEMMA AppendedEntries ==
  ASSUME NEW S, NEW s \in Seq(S), NEW x \in S
  PROVE  /\ Len(s) \in Nat /\ Len(Append(s, x)) = Len(s) + 1
         /\ Append(s, x)[Len(s) + 1] = x
         /\ \A i \in 1 .. Len(s) : Append(s, x)[i] = s[i] /\ s[i] \in S
         /\ Append(s, x) \in Seq(S)
OBVIOUS

LEMMA IndexingStarts ==
  ASSUME NEW offsets \in Seq(Nat), NEW rows \in Seq(AnyRow), Indexing(offsets, rows)
  PROVE  Indexing(Append(offsets, Len(rows)), rows)
<1> DEFINE new == Append(offsets, Len(rows))
           n == Len(offsets)
<1>1. /\ n \in Nat /\ Len(rows) \in Nat /\ Len(new) = n + 1 /\ new[n + 1] = Len(rows)
      /\ \A i \in 1 .. n : new[i] = offsets[i] /\ offsets[i] \in Nat
      /\ \A k \in 1 .. Len(rows) : rows[k].frame \in Int
  BY RowFrames, AppendedEntries
<1>2. /\ \A i, j \in 1 .. n : i <= j => offsets[i] <= offsets[j]
      /\ \A i \in 1 .. n : offsets[i] <= Len(rows)
      /\ \A k \in 1 .. Len(rows) :
           /\ rows[k].frame + 1 \in 1 .. n /\ offsets[rows[k].frame + 1] < k
           /\ rows[k].frame + 2 <= n => k <= offsets[rows[k].frame + 2]
  BY DEF Indexing
<1> HIDE DEF new, n
<1>3. \A i \in 1 .. n + 1 : i \in 1 .. n \/ i = n + 1
  BY <1>1
<1>4. \A i, j \in 1 .. n + 1 : i <= j => new[i] <= new[j]
  BY <1>1, <1>2, <1>3
<1>5. \A i \in 1 .. n + 1 : new[i] <= Len(rows)
  BY <1>1, <1>2, <1>3
<1>6. ASSUME NEW k \in 1 .. Len(rows)
      PROVE  /\ rows[k].frame + 1 \in 1 .. n + 1 /\ new[rows[k].frame + 1] < k
             /\ rows[k].frame + 2 <= n + 1 => k <= new[rows[k].frame + 2]
  <2>1. PICK f \in Int : f = rows[k].frame
    BY <1>1
  <2>2. /\ f + 1 \in 1 .. n /\ offsets[f + 1] < k
        /\ f + 2 <= n => k <= offsets[f + 2]
    BY <1>2, <2>1
  <2>3. new[f + 1] < k /\ f + 1 \in 1 .. n + 1
    BY <1>1, <2>2
  <2>4. ASSUME f + 2 <= n + 1 PROVE k <= new[f + 2]
    <3>1. CASE f + 2 = n + 1
      BY <1>1, <3>1
    <3>2. CASE f + 2 <= n
      <4>1. f + 2 \in 1 .. n
        BY <1>1, <2>2, <3>2
      <4> QED
        BY <1>1, <2>2, <3>2, <4>1
    <3> QED
      BY <1>1, <2>4, <3>1, <3>2
  <2> QED
    BY <2>1, <2>3, <2>4
<1> QED
  BY <1>1, <1>4, <1>5, <1>6 DEF Indexing, new

LEMMA IndexingRow ==
  ASSUME NEW offsets \in Seq(Nat), NEW rows \in Seq(AnyRow), Indexing(offsets, rows),
         NEW row \in AnyRow, row.frame + 1 = Len(offsets), offsets # <<>>
  PROVE  Indexing(offsets, Append(rows, row))
<1> DEFINE new == Append(rows, row)
           n == Len(rows)
<1>1. /\ n \in Nat /\ Len(offsets) \in Nat /\ Len(new) = n + 1 /\ new[n + 1] = row
      /\ \A i \in 1 .. n : new[i] = rows[i] /\ rows[i].frame \in Int
      /\ \A i \in 1 .. Len(offsets) : offsets[i] \in Nat
      /\ row.frame \in Int /\ row.frame + 1 = Len(offsets)
  <2>1. row.frame \in Int
    BY DEF AnyRow
  <2> QED
    BY <2>1, RowFrames, AppendedEntries
<1>2. /\ \A i, j \in 1 .. Len(offsets) : i <= j => offsets[i] <= offsets[j]
      /\ \A i \in 1 .. Len(offsets) : offsets[i] <= n
      /\ \A k \in 1 .. n :
           /\ rows[k].frame + 1 \in 1 .. Len(offsets) /\ offsets[rows[k].frame + 1] < k
           /\ rows[k].frame + 2 <= Len(offsets) => k <= offsets[rows[k].frame + 2]
  BY DEF Indexing
<1>3. Len(offsets) # 0
  OBVIOUS
<1> HIDE DEF new, n
<1>4. \A i \in 1 .. Len(offsets) : offsets[i] <= n + 1
  BY <1>1, <1>2
<1>5. ASSUME NEW k \in 1 .. n + 1
      PROVE  /\ new[k].frame + 1 \in 1 .. Len(offsets) /\ offsets[new[k].frame + 1] < k
             /\ new[k].frame + 2 <= Len(offsets) => k <= offsets[new[k].frame + 2]
  <2>1. CASE k \in 1 .. n
    BY <1>1, <1>2, <2>1
  <2>2. CASE k = n + 1
    <3>1. Len(offsets) \in 1 .. Len(offsets)
      BY <1>1, <1>3
    <3>2. offsets[Len(offsets)] <= n /\ offsets[Len(offsets)] \in Nat
      BY <1>1, <1>2, <3>1
    <3> QED
      BY <1>1, <2>2, <3>1, <3>2
  <2> QED
    BY <1>1, <2>1, <2>2
<1> QED
  BY <1>1, <1>2, <1>4, <1>5 DEF Indexing, new

\* Where offsets rise, k is above those of its frame only.
LEMMA Between ==
  ASSUME NEW n \in Nat, NEW o, NEW i \in Int, NEW k \in Int, NEW f \in Int,
         \A x \in 1 .. n : o[x] \in Nat,
         \A x, y \in 1 .. n : x <= y => o[x] <= o[y],
         1 <= i, i + 1 <= n, f + 1 \in 1 .. n,
         o[f + 1] < k, f + 2 <= n => k <= o[f + 2]
  PROVE  f = i - 1 <=> o[i] < k /\ k <= o[i + 1]
<1>1. i \in 1 .. n /\ i + 1 \in 1 .. n
  OBVIOUS
<1>2. o[i] \in Nat /\ o[i + 1] \in Nat /\ o[f + 1] \in Nat
  BY <1>1
<1>3. CASE f = i - 1
  <2>1. f + 1 = i /\ f + 2 = i + 1
    BY <1>3
  <2> QED
    BY <1>3, <2>1
<1>4. CASE f > i - 1
  <2>1. i + 1 <= f + 1
    BY <1>4
  <2>2. o[i + 1] <= o[f + 1]
    BY <1>1, <2>1
  <2>3. ~(k <= o[i + 1])
    BY <1>2, <2>2
  <2> QED
    BY <1>4, <2>3
<1>5. CASE f < i - 1
  <2>1. f + 2 \in 1 .. n /\ f + 2 <= i
    BY <1>1, <1>5
  <2>2. o[f + 2] <= o[i] /\ o[f + 2] \in Nat /\ k <= o[f + 2]
    BY <1>1, <2>1
  <2>3. ~(o[i] < k)
    BY <1>2, <2>2
  <2> QED
    BY <1>5, <2>3
<1> QED
  BY <1>3, <1>4, <1>5

\* What a reader of the rows finds by the offsets.
LEMMA IndexingReads ==
  ASSUME NEW offsets \in Seq(Nat), NEW rows \in Seq(AnyRow), Indexing(offsets, rows),
         NEW i \in 1 .. Len(offsets) - 1, NEW k \in DOMAIN rows
  PROVE  rows[k].frame = i - 1 <=> offsets[i] < k /\ k <= offsets[i + 1]
<1>1. /\ Len(offsets) \in Nat /\ Len(rows) \in Nat
      /\ k \in 1 .. Len(rows) /\ i \in Int /\ k \in Int
      /\ 1 <= i /\ i + 1 <= Len(offsets)
      /\ \A j \in 1 .. Len(offsets) : offsets[j] \in Nat
  OBVIOUS
<1>2. PICK f \in Int : f = rows[k].frame
  BY <1>1, RowFrames
<1>3. /\ f + 1 \in 1 .. Len(offsets) /\ offsets[f + 1] < k
      /\ f + 2 <= Len(offsets) => k <= offsets[f + 2]
  BY <1>1, <1>2 DEF Indexing
<1>4. \A x, y \in 1 .. Len(offsets) : x <= y => offsets[x] <= offsets[y]
  BY DEF Indexing
<1>5. f = i - 1 <=> offsets[i] < k /\ k <= offsets[i + 1]
  BY <1>1, <1>3, <1>4, Between
<1> QED
  BY <1>2, <1>5

-----------------------------------------------------------------------------
(* Types and places                                                        *)

\* The frame grows by one where the next iteration is one to record.
LEMMA NextFrame ==
  ASSUME NEW c \in Nat, NEW e \in Nat \ {0}
  PROVE  /\ c \div e \in Nat /\ c \div e <= c
         /\ (c + 1) % e = 0 => (c + 1) \div e = c \div e + 1
         /\ (c + 1) % e # 0 => (c + 1) \div e = c \div e
<1> DEFINE q == c \div e
           r == c % e
<1>1. q \in Int /\ r \in 0 .. e - 1 /\ c = q * e + r
  OBVIOUS
<1> HIDE DEF q, r
<1>2. q \in Nat
  <2> SUFFICES ASSUME q <= -1 PROVE FALSE
    BY <1>1
  <2>1. PICK d \in Nat : q = -1 - d
    <3>1. -1 - q \in Nat /\ q = -1 - (-1 - q)
      BY <1>1
    <3> QED
      BY <3>1
  <2>2. q * e = -e - d * e /\ d * e \in Nat
    BY <2>1
  <2> QED
    BY <1>1, <2>2
<1>3. q <= c
  <2>1. PICK d \in Nat : e = d + 1
    <3>1. e - 1 \in Nat /\ e = (e - 1) + 1
      OBVIOUS
    <3> QED
      BY <3>1
  <2>2. q * e = q * d + q /\ q * d \in Nat
    BY <1>2, <2>1
  <2> QED
    BY <1>1, <1>2, <2>2
<1>4. CASE r + 1 < e
  <2>1. c + 1 = q * e + (r + 1) /\ r + 1 \in 0 .. e - 1 /\ q * e \in Nat
    BY <1>1, <1>2, <1>4
  <2>2. (c + 1) \div e = q
    BY <1>2, <2>1, Quotient
  <2>3. (c + 1) % e # 0
    <3> DEFINE m == (c + 1) % e
               p == (c + 1) \div e
    <3>1. c + 1 = p * e + m
      OBVIOUS
    <3>2. p * e = q * e
      BY <2>2
    <3> HIDE DEF m, p
    <3>3. m = r + 1
      <4>1. m \in Int
        BY DEF m
      <4>2. PICK x \in Int : x = q * e
        BY <2>1
      <4> QED
        BY <1>1, <2>1, <3>1, <3>2, <4>1, <4>2
    <3> QED
      BY <1>1, <3>3 DEF m
  <2> QED
    BY <1>2, <1>3, <2>2, <2>3 DEF q
<1>5. CASE r + 1 = e
  <2>1. (q + 1) * e = q * e + e /\ q * e \in Nat
    BY <1>2
  <2>2. c + 1 = (q + 1) * e + 0
    BY <1>1, <1>5, <2>1
  <2>3. (c + 1) \div e = q + 1
    <3>1. q + 1 \in Nat /\ 0 \in 0 .. e - 1
      BY <1>2
    <3> QED
      BY <2>2, <3>1, Quotient
  <2>4. (c + 1) % e = 0
    <3> DEFINE m == (c + 1) % e
               p == (c + 1) \div e
    <3>1. c + 1 = p * e + m /\ m \in Int
      OBVIOUS
    <3>2. p * e = (q + 1) * e
      BY <2>3
    <3> HIDE DEF m, p
    <3>3. PICK x \in Int : x = (q + 1) * e
      BY <2>1, <1>2
    <3>4. m = 0
      BY <2>2, <3>1, <3>2, <3>3
    <3> QED
      BY <3>4 DEF m
  <2> QED
    BY <1>2, <1>3, <2>3, <2>4 DEF q
<1> QED
  BY <1>1, <1>4, <1>5

\* The frame of a clock within its bound.
LEMMA FrameTyped ==
  ASSUME clock \in 0 .. MaxIteration
  PROVE  Frame \in 0 .. MaxIteration /\ (clock = 0 => Frame = 0 /\ Recorded)
<1>1. clock \in Nat /\ MaxIteration \in Nat /\ EveryNth \in Nat \ {0}
  BY LoopAssumption
<1>2. clock \div EveryNth \in Nat /\ clock \div EveryNth <= clock
  BY <1>1, NextFrame
<1>3. ASSUME clock = 0 PROVE Frame = 0 /\ Recorded
  BY <1>1, <1>2, <1>3 DEF Frame, Recorded
<1> QED
  BY <1>1, <1>2, <1>3 DEF Frame

LEMMA ContainersHoldAgents ==
  ASSUME NEW ids \in Containers
  PROVE  ids \in Seq(AgentId)
<1>1. PICK n \in 0 .. Cardinality(AgentId) : ids \in [1 .. n -> AgentId]
  BY DEF Containers
<1>2. n \in Nat
  BY <1>1, LoopAssumption, FS_CardinalityType
<1> QED
  BY <1>1, <1>2

LEMMA FileInitially == Init => FileInv
<1> SUFFICES ASSUME Init PROVE FileInv
  OBVIOUS
<1>1. /\ pc = "host" /\ left = 0 /\ clock = 0 /\ agents \in Containers
      /\ fallible \in BOOLEAN /\ isWriting = FALSE /\ fileOpen = FALSE
      /\ trajectory = <<>> /\ frameOffsets = <<>> /\ rowBuffer = <<>>
      /\ offsetBuffer = <<>> /\ recordsWritten = 0 /\ todo = <<>> /\ recorded = <<>>
  BY BufferAssumption DEF Init, LoopInit
<1>2. left \in 0 .. MaxCount /\ clock \in 0 .. MaxIteration
  BY <1>1, LoopAssumption
<1>e. /\ <<>> \in Seq(RowSet \cup {Blank}) /\ <<>> \in Seq(RowSet)
      /\ <<>> \in Seq(Nat) /\ <<>> \in Seq(AgentId)
  OBVIOUS
<1>3. Types
  BY <1>1, <1>2, <1>e DEF Types
<1>4. FramesIndexed
  BY <1>1 DEF FramesIndexed
<1> QED
  BY <1>1, <1>3, <1>4 DEF FileInv, Places, IndexInv

\* What the steps do to the variables of the loop.
LEMMA LoopKept ==
  ASSUME Types, Places, [Next]_vars
  PROVE  /\ pc' \in {"host", "begin", "core", "write", "offsets", "rows", "chunk"}
         /\ left' \in 0 .. MaxCount /\ clock' \in 0 .. MaxIteration
         /\ agents' \in Containers /\ Places'
<1>t. /\ pc \in {"host", "begin", "core", "write", "offsets", "rows", "chunk"}
      /\ left \in 0 .. MaxCount /\ clock \in 0 .. MaxIteration /\ agents \in Containers
      /\ (pc = "core" => left > 0) /\ (pc = "begin" => clock = 0)
      /\ MaxCount \in Nat /\ MaxIteration \in Nat
  BY LoopAssumption DEF Types, Places
<1>1. CASE UNCHANGED vars \/ Close \/ CloseFails
  <2>1. UNCHANGED <<pc, left, clock, agents>>
    BY <1>1 DEF vars, loop, Close, CloseFails
  <2> QED
    BY <1>t, <2>1 DEF Places
<1>2. CASE HostStep
  <2>1. CASE HostChanges
    BY <1>t, <2>1 DEF HostChanges, Places
  <2>2. CASE CallIterate
    <3>1. PICK count \in 0 .. MaxCount :
            /\ left' = count /\ pc' = (IF clock = 0 THEN "begin" ELSE Loop(count))
            /\ clock' = clock /\ agents' = agents
      BY <2>2 DEF CallIterate
    <3>2. pc' \in {"begin", "host", "core"} /\ (pc' = "core" => count # 0)
          /\ (pc' = "begin" => clock = 0)
      BY <3>1 DEF Loop
    <3> QED
      BY <1>t, <3>1, <3>2 DEF Places
  <2>3. CASE CoreIterates
    <3>1. /\ pc = "core" /\ clock < MaxIteration /\ clock' = clock + 1 /\ left' = left - 1
          /\ agents' \in Containers /\ pc' = "write"
      BY <2>3 DEF CoreIterates
    <3> QED
      BY <1>t, <3>1 DEF Places
  <2>4. CASE CoreThrows
    BY <1>t, <2>4 DEF CoreThrows, Raise, Places
  <2> QED
    BY <1>2, <2>1, <2>2, <2>3, <2>4 DEF HostStep
<1>3. CASE \/ BeginWriting \/ BeginRefused \/ HeaderFails \/ WriteRaises \/ StartFrame
           \/ AppendOffsets \/ AppendOffsetsFails \/ WriteRow \/ RowFails
           \/ AppendChunk \/ AppendChunkFails
  <2>1. /\ clock' = clock /\ agents' = agents
        /\ \/ pc' = "host" /\ left' = 0
           \/ pc' \in {"write", "offsets", "rows", "chunk"} /\ left' = left
    BY <1>3 DEF BeginWriting, BeginRefused, HeaderFails, WriteRaises, StartFrame,
                AppendOffsets, AppendOffsetsFails, WriteRow, RowFails, AppendChunk,
                AppendChunkFails, Raise, Goto
  <2> QED
    BY <1>t, <2>1 DEF Places
<1>4. CASE SkipFrame \/ EndFrame
  <2>1. clock' = clock /\ agents' = agents /\ left' = left /\ pc' = Loop(left)
    BY <1>4 DEF SkipFrame, EndFrame, Done
  <2>2. pc' \in {"host", "core"} /\ (pc' = "core" => left # 0)
    BY <2>1 DEF Loop
  <2> QED
    BY <1>t, <2>1, <2>2 DEF Places
<1> QED
  BY <1>1, <1>2, <1>3, <1>4 DEF Next, Step

LEMMA AppendsTyped ==
  ASSUME NEW S, NEW data \in Seq(S), NEW rows \in Seq(S), NEW fill \in S
  PROVE  /\ Appended(data, rows) \in Seq(S)
         /\ \A new \in BrokenAppends(data, rows, fill) : new \in Seq(S)
<1>1. [i \in DOMAIN rows |-> fill] \in Seq(S)
  <2>1. DOMAIN rows = 1 .. Len(rows) /\ Len(rows) \in Nat
    OBVIOUS
  <2>2. [i \in 1 .. Len(rows) |-> fill] \in Seq(S)
    BY <2>1
  <2> QED
    BY <2>1, <2>2
<1> DEFINE blanks == [i \in DOMAIN rows |-> fill]
<1>2. data \o blanks \in Seq(S) /\ data \o rows \in Seq(S)
  <2> HIDE DEF blanks
  <2>1. blanks \in Seq(S)
    BY <1>1 DEF blanks
  <2> QED
    BY <2>1
<1> QED
  BY <1>2 DEF Appended, BrokenAppends

\* What the steps do to the file and its buffers.
LEMMA DataKept ==
  ASSUME Types, [Next]_vars
  PROVE  /\ fallible' \in BOOLEAN /\ isWriting' \in BOOLEAN /\ fileOpen' = isWriting'
         /\ trajectory' \in Seq(RowSet \cup {Blank})
         /\ rowBuffer' \in Seq(RowSet) /\ recorded' \in Seq(RowSet)
         /\ frameOffsets' \in Seq(Nat) /\ offsetBuffer' \in Seq(Nat)
         /\ recordsWritten' \in Nat /\ todo' \in Seq(AgentId)
<1> DEFINE Kept == /\ fallible' \in BOOLEAN /\ isWriting' \in BOOLEAN /\ fileOpen' = isWriting'
                   /\ trajectory' \in Seq(RowSet \cup {Blank})
                   /\ rowBuffer' \in Seq(RowSet) /\ recorded' \in Seq(RowSet)
                   /\ frameOffsets' \in Seq(Nat) /\ offsetBuffer' \in Seq(Nat)
                   /\ recordsWritten' \in Nat /\ todo' \in Seq(AgentId)
<1>t. /\ fallible \in BOOLEAN /\ isWriting \in BOOLEAN /\ fileOpen = isWriting
      /\ trajectory \in Seq(RowSet \cup {Blank})
      /\ rowBuffer \in Seq(RowSet) /\ recorded \in Seq(RowSet)
      /\ frameOffsets \in Seq(Nat) /\ offsetBuffer \in Seq(Nat)
      /\ recordsWritten \in Nat /\ todo \in Seq(AgentId) /\ agents \in Containers
      /\ clock \in 0 .. MaxIteration
  BY DEF Types
<1>e. /\ <<>> \in Seq(RowSet \cup {Blank}) /\ <<>> \in Seq(RowSet)
      /\ <<>> \in Seq(Nat) /\ <<>> \in Seq(AgentId)
  OBVIOUS
<1>b. rowBuffer \in Seq(RowSet \cup {Blank}) /\ Blank \in RowSet \cup {Blank}
  <2>1. Seq(RowSet) \subseteq Seq(RowSet \cup {Blank})
    OBVIOUS
  <2> QED
    BY <1>t, <2>1
<1>a. /\ Appended(trajectory, rowBuffer) \in Seq(RowSet \cup {Blank})
      /\ \A new \in BrokenAppends(trajectory, rowBuffer, Blank) : new \in Seq(RowSet \cup {Blank})
  BY <1>t, <1>b, AppendsTyped
<1>o. \A more \in Seq(Nat) :
        /\ Appended(frameOffsets, more) \in Seq(Nat)
        /\ \A new \in BrokenAppends(frameOffsets, more, 0) : new \in Seq(Nat)
  BY <1>t, AppendsTyped
<1>1. CASE UNCHANGED vars \/ (Next /\ Idle)
  <2>1. UNCHANGED <<isWriting, file, buffers, todo, recorded, fallible>>
    BY <1>1 DEF vars, Next, Idle
  <2> QED
    BY <1>t, <2>1 DEF file, buffers
<1>2. CASE Next /\ ~Idle
  <2>0. fallible' = fallible /\ Step
    BY <1>2 DEF Next
  <2> USE <1>t, <2>0
  <2>1. CASE BeginWriting
    <3>1. /\ isWriting' = TRUE /\ fileOpen' = TRUE /\ trajectory' = <<>> /\ frameOffsets' = <<>>
          /\ rowBuffer' = <<>> /\ offsetBuffer' = <<>> /\ recordsWritten' = 0 /\ recorded' = <<>>
          /\ todo' = todo
      BY <2>1 DEF BeginWriting
    <3> QED
      BY <1>e, <3>1
  <2>2. CASE HeaderFails
    <3>1. /\ isWriting' = FALSE /\ fileOpen' = FALSE /\ trajectory' \in {trajectory, <<>>}
          /\ frameOffsets' \in {frameOffsets, <<>>} /\ rowBuffer' = rowBuffer
          /\ offsetBuffer' = offsetBuffer /\ recordsWritten' = recordsWritten
          /\ recorded' = recorded /\ todo' = todo
      BY <2>2 DEF HeaderFails, buffers
    <3> QED
      BY <1>e, <3>1
  <2>3. CASE StartFrame
    <3>1. /\ isWriting' = isWriting /\ fileOpen' = fileOpen /\ trajectory' = trajectory
          /\ frameOffsets' = frameOffsets /\ rowBuffer' = rowBuffer
          /\ offsetBuffer' = Append(offsetBuffer, recordsWritten)
          /\ recordsWritten' = recordsWritten /\ recorded' = recorded /\ todo' = agents
      BY <2>3 DEF StartFrame, file, Offset
    <3>2. todo' \in Seq(AgentId)
      BY <3>1, ContainersHoldAgents
    <3>3. offsetBuffer' \in Seq(Nat)
      BY <3>1
    <3> QED
      BY <3>1, <3>2, <3>3
  <2>4. CASE AppendOffsets \/ AppendOffsetsFails
    <3>1. /\ isWriting' = isWriting /\ fileOpen' = fileOpen /\ trajectory' = trajectory
          /\ \/ frameOffsets' = Appended(frameOffsets, offsetBuffer)
             \/ frameOffsets' \in BrokenAppends(frameOffsets, offsetBuffer, 0)
          /\ offsetBuffer' \in {offsetBuffer, <<>>} /\ rowBuffer' = rowBuffer
          /\ recordsWritten' = recordsWritten /\ recorded' = recorded /\ todo' = todo
      BY <2>4 DEF AppendOffsets, AppendOffsetsFails, buffers
    <3> QED
      BY <1>e, <1>o, <3>1
  <2>5. CASE WriteRow
    <3> DEFINE row == Row(Frame, Head(todo))
    <3>1. /\ isWriting' = isWriting /\ fileOpen' = fileOpen /\ trajectory' = trajectory
          /\ frameOffsets' = frameOffsets /\ offsetBuffer' = offsetBuffer
          /\ recordsWritten' = recordsWritten + 1 /\ todo' = Tail(todo) /\ todo # <<>>
          /\ rowBuffer' = Append(rowBuffer, row) /\ recorded' = Append(recorded, row)
      BY <2>5 DEF WriteRow, file
    <3>2. row \in RowSet
      <4>1. Head(todo) \in AgentId
        BY <3>1
      <4>2. Frame \in 0 .. MaxIteration
        BY FrameTyped
      <4> QED
        BY <4>1, <4>2 DEF RowSet, Row
    <3> HIDE DEF row
    <3>3. Append(rowBuffer, row) \in Seq(RowSet) /\ Append(recorded, row) \in Seq(RowSet)
      BY <3>2, AppendedEntries
    <3>4. Tail(todo) \in Seq(AgentId)
      BY <3>1
    <3> QED
      BY <3>1, <3>3, <3>4
  <2>6. CASE RowFails
    <3>1. /\ isWriting' = isWriting /\ fileOpen' = fileOpen /\ trajectory' = trajectory
          /\ frameOffsets' = frameOffsets /\ offsetBuffer' = offsetBuffer
          /\ recordsWritten' \in {recordsWritten, recordsWritten + 1} /\ todo' = todo
          /\ rowBuffer' = rowBuffer /\ recorded' = recorded
      BY <2>6 DEF RowFails, file
    <3> QED
      BY <3>1
  <2>7. CASE AppendChunk \/ AppendChunkFails
    <3>1. /\ isWriting' = isWriting /\ fileOpen' = fileOpen /\ frameOffsets' = frameOffsets
          /\ \/ trajectory' = Appended(trajectory, rowBuffer)
             \/ trajectory' \in BrokenAppends(trajectory, rowBuffer, Blank)
          /\ rowBuffer' \in {rowBuffer, <<>>} /\ offsetBuffer' = offsetBuffer
          /\ recordsWritten' = recordsWritten /\ recorded' = recorded /\ todo' = todo
      BY <2>7 DEF AppendChunk, AppendChunkFails, buffers
    <3> QED
      BY <1>e, <1>a, <3>1
  <2>8. CASE Close \/ CloseFails
    <3>1. /\ isWriting' = FALSE /\ fileOpen' = FALSE /\ rowBuffer' = rowBuffer
          /\ recordsWritten' = recordsWritten /\ recorded' = recorded /\ todo' = todo
          /\ offsetBuffer' \in {offsetBuffer, Append(offsetBuffer, recordsWritten)}
          /\ \/ frameOffsets' = frameOffsets
             \/ frameOffsets' = Appended(frameOffsets, offsetBuffer')
             \/ frameOffsets' \in BrokenAppends(frameOffsets, offsetBuffer', 0)
          /\ \/ trajectory' = trajectory
             \/ trajectory' = Appended(trajectory, rowBuffer)
             \/ trajectory' \in BrokenAppends(trajectory, rowBuffer, Blank)
      BY <2>8 DEF Close, CloseFails, Offset, Remaining
    <3>2. offsetBuffer' \in Seq(Nat)
      <4>1. Append(offsetBuffer, recordsWritten) \in Seq(Nat)
        BY AppendedEntries
      <4> QED
        BY <3>1, <4>1
    <3>3. frameOffsets' \in Seq(Nat)
      BY <1>o, <3>1, <3>2
    <3>4. trajectory' \in Seq(RowSet \cup {Blank})
      BY <1>a, <3>1
    <3> QED
      BY <3>1, <3>2, <3>3, <3>4
  <2>9. ASSUME \/ HostStep \/ BeginRefused \/ SkipFrame \/ WriteRaises \/ EndFrame PROVE Idle
    BY <2>9 DEF HostStep, BeginRefused, SkipFrame, WriteRaises, EndFrame, Idle
  <2> QED
    BY <1>2, <2>1, <2>2, <2>3, <2>4, <2>5, <2>6, <2>7, <2>8, <2>9 DEF Step
<1> QED
  BY <1>1, <1>2

-----------------------------------------------------------------------------
(* The offsets index the rows                                              *)

LEMMA OffsetsTyped ==
  Types => /\ Offsets \in Seq(Nat) /\ Len(Offsets) = Len(frameOffsets) + Len(offsetBuffer)
           /\ frameOffsets \in Seq(Nat) /\ offsetBuffer \in Seq(Nat)
           /\ Len(frameOffsets) \in Nat /\ Len(offsetBuffer) \in Nat
           /\ \A i \in 1 .. Len(frameOffsets) : Offsets[i] = frameOffsets[i]
BY DEF Types, Offsets

LEMMA RowSetTyped == RowSet \subseteq AnyRow
<1>1. 0 .. MaxIteration \subseteq Int /\ AgentId \subseteq Nat
  BY LoopAssumption
<1> HIDE DEF RowSet
<1> SUFFICES ASSUME NEW r \in RowSet PROVE r \in AnyRow
  OBVIOUS
<1>2. /\ r = [frame |-> r.frame, id |-> r.id]
      /\ r.frame \in 0 .. MaxIteration /\ r.id \in AgentId
  BY DEF RowSet
<1> QED
  BY <1>1, <1>2 DEF AnyRow

\* A step that leaves the offsets, the rows and the frames begun alone.
LEMMA QuietStep ==
  ASSUME IndexInv, isWriting, ~fallible, pc # "offsets",
         UNCHANGED <<frameOffsets, offsetBuffer, recorded, recordsWritten>>,
         FramesStarted' = FramesStarted
  PROVE  IndexInv'
<1>1. Offsets' = Offsets
  BY DEF Offsets
<1>2. /\ recordsWritten = Len(recorded)
      /\ Len(offsetBuffer) <= OffsetChunk /\ ~OffsetsFull(offsetBuffer)
      /\ Len(Offsets) = FramesStarted /\ Indexing(Offsets, recorded)
  BY DEF IndexInv
<1>3. ~(OffsetsFull(offsetBuffer))'
  BY <1>2 DEF OffsetsFull
<1>4. Indexing(Offsets, recorded)'
  BY <1>1, <1>2 DEF Indexing
<1> QED
  BY <1>1, <1>2, <1>3, <1>4 DEF IndexInv

LEMMA HostQuiet ==
  ASSUME Types, HostStep
  PROVE  FramesStarted' = FramesStarted
<1>1. CASE HostChanges \/ CallIterate \/ CoreThrows
  <2>1. pc # "write" /\ pc' # "write" /\ clock' = clock
    BY <1>1 DEF HostChanges, CallIterate, CoreThrows, Raise, Loop
  <2> QED
    BY <2>1 DEF FramesStarted, Frame
<1>2. CASE CoreIterates
  <2>1. pc = "core" /\ pc' = "write" /\ clock' = clock + 1
    BY <1>2 DEF CoreIterates
  <2>2. clock \in Nat /\ EveryNth \in Nat \ {0}
    BY LoopAssumption DEF Types
  <2>3. /\ (clock + 1) % EveryNth = 0 => (clock + 1) \div EveryNth = clock \div EveryNth + 1
        /\ (clock + 1) % EveryNth # 0 => (clock + 1) \div EveryNth = clock \div EveryNth
    BY <2>2, NextFrame
  <2> QED
    BY <2>1, <2>3 DEF FramesStarted, Frame, Recorded
<1> QED
  BY <1>1, <1>2 DEF HostStep

LEMMA StartFrameIndexes ==
  ASSUME Types, IndexInv, isWriting, ~fallible, StartFrame
  PROVE  IndexInv'
<1>1. /\ pc = "write" /\ Recorded /\ ~OffsetsFull(offsetBuffer)
      /\ offsetBuffer' = Append(offsetBuffer, recordsWritten)
      /\ frameOffsets' = frameOffsets /\ recorded' = recorded /\ clock' = clock
      /\ recordsWritten' = recordsWritten
      /\ pc' \in {"offsets", "rows"}
      /\ (OffsetsFull(offsetBuffer))' => pc' = "offsets"
  BY DEF StartFrame, Goto, file, Offset, OffsetsFull
<1>2. /\ recordsWritten = Len(recorded) /\ Len(offsetBuffer) <= OffsetChunk
      /\ Len(Offsets) = FramesStarted /\ Indexing(Offsets, recorded)
  BY DEF IndexInv
<1>3. /\ Offsets \in Seq(Nat) /\ frameOffsets \in Seq(Nat) /\ offsetBuffer \in Seq(Nat)
      /\ recordsWritten \in Nat /\ recorded \in Seq(AnyRow)
  <2>1. RowSet \subseteq AnyRow
    BY RowSetTyped
  <2>2. Seq(RowSet) \subseteq Seq(AnyRow)
    BY <2>1
  <2> QED
    BY <2>2, OffsetsTyped DEF Types
<1>4. Offsets' = Append(Offsets, Len(recorded))
  <2>1. frameOffsets \o Append(offsetBuffer, recordsWritten) =
          Append(frameOffsets \o offsetBuffer, recordsWritten)
    BY <1>3
  <2> QED
    BY <1>1, <1>2, <2>1 DEF Offsets
<1>5. Indexing(Append(Offsets, Len(recorded)), recorded)
  BY <1>2, <1>3, IndexingStarts
<1>6. Indexing(Offsets, recorded)'
  BY <1>1, <1>4, <1>5 DEF Indexing
<1>7. Len(offsetBuffer)' <= OffsetChunk
  BY <1>1, <1>2, <1>3, BufferAssumption DEF OffsetsFull
<1>8. Len(Offsets)' = Len(Offsets) + 1
  BY <1>3, <1>4
<1>9. FramesStarted = Frame /\ FramesStarted' = Frame + 1
  BY <1>1 DEF FramesStarted, Frame, Recorded
<1> QED
  BY <1>1, <1>2, <1>6, <1>7, <1>8, <1>9 DEF IndexInv

LEMMA WriteRowIndexes ==
  ASSUME Types, IndexInv, isWriting, ~fallible, WriteRow
  PROVE  IndexInv'
<1> DEFINE row == Row(Frame, Head(todo))
<1>1. /\ pc = "rows" /\ todo # <<>> /\ pc' \in {"rows", "chunk"}
      /\ offsetBuffer' = offsetBuffer /\ frameOffsets' = frameOffsets
      /\ recorded' = Append(recorded, row) /\ clock' = clock
      /\ recordsWritten' = recordsWritten + 1
  BY DEF WriteRow, Goto, file
<1>2. /\ recordsWritten = Len(recorded) /\ Len(offsetBuffer) <= OffsetChunk
      /\ ~OffsetsFull(offsetBuffer)
      /\ Len(Offsets) = FramesStarted /\ Indexing(Offsets, recorded)
  BY <1>1 DEF IndexInv
<1>3. Offsets \in Seq(Nat) /\ recorded \in Seq(AnyRow) /\ Head(todo) \in Nat
  <2>1. RowSet \subseteq AnyRow
    BY RowSetTyped
  <2>2. Seq(RowSet) \subseteq Seq(AnyRow)
    BY <2>1
  <2>3. Head(todo) \in AgentId
    BY <1>1 DEF Types
  <2> QED
    BY <2>2, <2>3, OffsetsTyped, LoopAssumption DEF Types
<1>4. Frame \in Nat
  BY FrameTyped, LoopAssumption DEF Types
<1>5. row \in AnyRow /\ row.frame = Frame
  BY <1>3, <1>4 DEF Row, AnyRow
<1>6. FramesStarted = Frame + 1 /\ FramesStarted' = Frame + 1
  BY <1>1 DEF FramesStarted, Frame
<1>7. Offsets # <<>>
  BY <1>2, <1>3, <1>4, <1>6
<1> HIDE DEF row
<1>8. Indexing(Offsets, Append(recorded, row))
  BY <1>2, <1>3, <1>5, <1>6, <1>7, IndexingRow
<1>9. Offsets' = Offsets /\ ~(OffsetsFull(offsetBuffer))'
  BY <1>1, <1>2 DEF Offsets, OffsetsFull
<1>10. Indexing(Offsets, recorded)'
  BY <1>1, <1>8, <1>9 DEF Indexing
<1>11. Len(recorded') = Len(recorded) + 1
  BY <1>1, <1>3, <1>5
<1> QED
  BY <1>1, <1>2, <1>6, <1>9, <1>10, <1>11 DEF IndexInv

LEMMA BeginIndexes ==
  ASSUME Types, Places, ~fallible, BeginWriting
  PROVE  IndexInv'
<1>1. /\ pc = "begin" /\ pc' = "write" /\ clock' = clock /\ clock = 0
      /\ frameOffsets' = <<>> /\ offsetBuffer' = <<>> /\ recorded' = <<>>
      /\ recordsWritten' = 0
  BY DEF BeginWriting, Goto, Places
<1>2. Offsets' = <<>> /\ ~(OffsetsFull(offsetBuffer))' /\ Len(offsetBuffer') <= OffsetChunk
  BY <1>1, BufferAssumption DEF Offsets, OffsetsFull
<1>3. FramesStarted' = 0
  BY <1>1, FrameTyped DEF FramesStarted, Frame, Recorded, Types
<1>4. Indexing(Offsets, recorded)'
  BY <1>1, <1>2 DEF Indexing
<1> QED
  BY <1>1, <1>2, <1>3, <1>4 DEF IndexInv

LEMMA IndexKept ==
  ASSUME IInv, Types, Places, IndexInv, [Next]_vars
  PROVE  IndexInv'
<1>p. pc \in {"offsets", "rows", "chunk"} => isWriting
  BY DEF IInv, Typed
<1> SUFFICES ASSUME isWriting', ~fallible' PROVE IndexInv'
  BY DEF IndexInv
<1>1. CASE UNCHANGED vars
  <2>1. /\ UNCHANGED <<pc, clock, isWriting, fallible, frameOffsets, offsetBuffer>>
        /\ UNCHANGED <<recorded, recordsWritten>>
    BY <1>1 DEF vars, loop, file, buffers
  <2> QED
    BY <2>1 DEF IndexInv, Offsets, OffsetsFull, FramesStarted, Frame, Recorded, Indexing
<1>2. CASE Next
  <2>0. fallible' = fallible /\ Step /\ ~fallible
    BY <1>2 DEF Next
  <2>1. CASE HostStep
    <3>1. UNCHANGED <<frameOffsets, offsetBuffer, recorded, recordsWritten, isWriting>>
      BY <2>1 DEF HostStep, Idle, file, buffers
    <3>2. pc # "offsets"
      BY <2>1 DEF HostStep, HostChanges, CallIterate, CoreIterates, CoreThrows
    <3>3. FramesStarted' = FramesStarted
      BY <2>1, HostQuiet
    <3> QED
      BY <2>0, <3>1, <3>2, <3>3, QuietStep
  <2>2. CASE BeginWriting
    BY <2>0, <2>2, BeginIndexes
  <2>3. CASE BeginRefused \/ SkipFrame \/ AppendChunk \/ EndFrame
    <3>1. /\ UNCHANGED <<frameOffsets, offsetBuffer, recorded, recordsWritten, isWriting, clock>>
          /\ pc # "offsets" /\ pc' # "write" /\ ~(pc = "write" /\ Recorded)
      BY <2>3 DEF BeginRefused, SkipFrame, AppendChunk, EndFrame, Raise, Done, Goto, Loop,
                  file, buffers
    <3>2. FramesStarted' = FramesStarted
      BY <3>1 DEF FramesStarted, Frame
    <3> QED
      BY <2>0, <3>1, <3>2, QuietStep
  <2>4. CASE StartFrame
    <3>1. isWriting
      BY <2>4 DEF StartFrame
    <3> QED
      BY <2>0, <2>4, <3>1, StartFrameIndexes
  <2>5. CASE AppendOffsets
    <3>1. /\ pc = "offsets" /\ pc' = "rows" /\ clock' = clock /\ isWriting
          /\ frameOffsets' = Appended(frameOffsets, offsetBuffer) /\ offsetBuffer' = <<>>
          /\ recorded' = recorded /\ recordsWritten' = recordsWritten
      BY <1>p, <2>5 DEF AppendOffsets, Goto
    <3>2. Offsets' = Offsets
      <4>1. (frameOffsets \o offsetBuffer) \o <<>> = frameOffsets \o offsetBuffer
        BY DEF Types
      <4> QED
        BY <3>1, <4>1 DEF Offsets, Appended
    <3>3. Len(offsetBuffer') <= OffsetChunk /\ ~(OffsetsFull(offsetBuffer))'
      BY <3>1, BufferAssumption DEF OffsetsFull
    <3>4. FramesStarted' = FramesStarted
      BY <3>1 DEF FramesStarted, Frame
    <3>5. Indexing(Offsets, recorded)'
      BY <2>0, <3>1, <3>2 DEF IndexInv, Indexing
    <3> QED
      BY <2>0, <3>1, <3>2, <3>3, <3>4, <3>5 DEF IndexInv
  <2>6. CASE WriteRow
    <3>1. isWriting
      BY <1>p, <2>6 DEF WriteRow
    <3> QED
      BY <2>0, <2>6, <3>1, WriteRowIndexes
  <2>7. ~(AppendOffsetsFails \/ RowFails \/ AppendChunkFails \/ HeaderFails \/ CloseFails)
    BY <2>0 DEF AppendOffsetsFails, RowFails, AppendChunkFails, HeaderFails, CloseFails
  <2>8. ~WriteRaises
    BY <2>0 DEF WriteRaises, IndexInv
  <2>9. ~Close
    BY DEF Close
  <2> QED
    BY <2>0, <2>1, <2>2, <2>3, <2>4, <2>5, <2>6, <2>7, <2>8, <2>9 DEF Step
<1> QED
  BY <1>1, <1>2

\* The rows of a frame are found by its offsets, in any first part of the two
\* that is in the file.
LEMMA FoundByOffsets ==
  ASSUME Types, Indexing(Offsets, recorded),
         NEW F \in Seq(Nat), Len(F) <= Len(Offsets),
         \A i \in 1 .. Len(F) : F[i] = Offsets[i],
         NEW T \in Seq(AnyRow), Len(T) <= Len(recorded),
         \A k \in 1 .. Len(T) : T[k] = recorded[k]
  PROVE  \A i \in 1 .. Len(F) - 1 : \A k \in DOMAIN T :
           T[k].frame = i - 1 <=> F[i] < k /\ k <= F[i + 1]
<1>1. Offsets \in Seq(Nat) /\ recorded \in Seq(AnyRow)
  <2>1. Seq(RowSet) \subseteq Seq(AnyRow)
    BY RowSetTyped
  <2> QED
    BY <2>1, OffsetsTyped DEF Types
<1> SUFFICES ASSUME NEW i \in 1 .. Len(F) - 1, NEW k \in DOMAIN T
             PROVE  T[k].frame = i - 1 <=> F[i] < k /\ k <= F[i + 1]
  OBVIOUS
<1>2. PICK offsets \in Seq(Nat), rows \in Seq(AnyRow) : offsets = Offsets /\ rows = recorded
  BY <1>1, Zenon
<1>3. /\ Len(F) \in Nat /\ Len(offsets) \in Nat /\ Len(T) \in Nat /\ Len(rows) \in Nat
      /\ Len(F) <= Len(offsets) /\ Len(T) <= Len(rows)
  BY <1>2
<1>4. i \in 1 .. Len(offsets) - 1 /\ i \in 1 .. Len(F) /\ i + 1 \in 1 .. Len(F)
  BY <1>3
<1>5. k \in 1 .. Len(T) /\ k \in DOMAIN rows
  <2>1. DOMAIN T = 1 .. Len(T) /\ DOMAIN rows = 1 .. Len(rows)
    OBVIOUS
  <2> QED
    BY <1>3, <2>1
<1>6. T[k] = rows[k] /\ F[i] = offsets[i] /\ F[i + 1] = offsets[i + 1]
  BY <1>2, <1>4, <1>5, Zenon
<1>7. rows[k].frame = i - 1 <=> offsets[i] < k /\ k <= offsets[i + 1]
  BY <1>2, <1>4, <1>5, IndexingReads
<1> QED
  BY <1>6, <1>7

LEMMA CloseIndexes ==
  ASSUME IInv, Types, IndexInv, isWriting, ~fallible, Close
  PROVE  FramesIndexed'
<1>1. /\ frameOffsets' = Appended(frameOffsets, Append(offsetBuffer, recordsWritten))
      /\ trajectory' = Appended(trajectory, rowBuffer)
  BY DEF Close, Offset, Remaining
<1>2. /\ recordsWritten = Len(recorded) /\ Indexing(Offsets, recorded)
  BY DEF IndexInv
<1>3. /\ frameOffsets \in Seq(Nat) /\ offsetBuffer \in Seq(Nat) /\ Offsets \in Seq(Nat)
      /\ recorded \in Seq(AnyRow) /\ Len(recorded) \in Nat
  BY OffsetsTyped DEF IInv, Typed
<1>4. trajectory' = recorded
  <2>1. BufferFollows /\ \A k \in DOMAIN trajectory : trajectory[k] = recorded[k]
    BY DEF IInv, WholeInv
  <2> QED
    BY <1>1, <2>1, FileThenBuffer DEF IInv, Appended
<1>5. frameOffsets' = Append(Offsets, Len(recorded))
  <2>1. frameOffsets \o Append(offsetBuffer, recordsWritten) =
          Append(frameOffsets \o offsetBuffer, recordsWritten)
    BY <1>2, <1>3
  <2> QED
    BY <1>1, <1>2, <2>1 DEF Offsets, Appended
<1> DEFINE new == Append(Offsets, Len(recorded))
<1>6. Indexing(new, recorded)
  BY <1>2, <1>3, IndexingStarts
<1>7. new \in Seq(Nat) /\ Last(new) = Len(recorded)
  <2>1. /\ new \in Seq(Nat) /\ Len(new) = Len(Offsets) + 1
        /\ new[Len(Offsets) + 1] = Len(recorded)
    BY <1>3, AppendedEntries
  <2> QED
    BY <2>1 DEF Last
<1> HIDE DEF new
<1>8. \A i \in 1 .. Len(new) - 1 : \A k \in DOMAIN recorded :
        recorded[k].frame = i - 1 <=> new[i] < k /\ k <= new[i + 1]
  BY <1>3, <1>6, <1>7, IndexingReads
<1>9. frameOffsets' = new
  BY <1>5 DEF new
<1> QED
  BY <1>4, <1>7, <1>8, <1>9 DEF FramesIndexed

LEMMA ClosedIndexed ==
  ASSUME IInv, Types, IndexInv, ~isWriting => FramesIndexed, [Next]_vars
  PROVE  ~isWriting' => FramesIndexed'
<1> SUFFICES ASSUME ~isWriting' PROVE FramesIndexed'
  OBVIOUS
<1>0. fallible' = fallible
  BY DEF Next, vars
<1>1. CASE fallible
  BY <1>0, <1>1 DEF FramesIndexed
<1>2. CASE ~fallible /\ isWriting
  <2>1. Step
    BY <1>2 DEF Next, vars
  <2>2. ~HostStep /\ ~BeginWriting /\ ~BeginRefused /\ ~HeaderFails
    BY <1>2 DEF HostStep, Idle, BeginWriting, BeginRefused, HeaderFails
  <2>3. /\ ~SkipFrame /\ ~WriteRaises /\ ~StartFrame /\ ~AppendOffsets /\ ~AppendOffsetsFails
        /\ ~WriteRow /\ ~RowFails /\ ~AppendChunk /\ ~AppendChunkFails /\ ~EndFrame
    BY <1>2 DEF SkipFrame, WriteRaises, StartFrame, AppendOffsets, AppendOffsetsFails,
                WriteRow, RowFails, AppendChunk, AppendChunkFails, EndFrame
  <2>4. ~CloseFails
    BY <1>2 DEF CloseFails
  <2>5. Close
    BY <2>1, <2>2, <2>3, <2>4 DEF Step
  <2> QED
    BY <1>2, <2>5, CloseIndexes
<1>3. CASE ~fallible /\ ~isWriting
  <2>1. UNCHANGED <<trajectory, frameOffsets>>
    <3>1. CASE UNCHANGED vars \/ HostStep
      BY <3>1 DEF vars, HostStep, Idle, file
    <3>2. ~BeginWriting /\ ~HeaderFails /\ ~StartFrame /\ ~Close /\ ~CloseFails
      BY <1>3 DEF BeginWriting, HeaderFails, StartFrame, Close, CloseFails
    <3>3. /\ ~AppendOffsets /\ ~AppendOffsetsFails /\ ~WriteRow /\ ~RowFails
          /\ ~AppendChunk /\ ~AppendChunkFails
      BY <1>3 DEF IInv, Typed, AppendOffsets, AppendOffsetsFails, WriteRow, RowFails,
                  AppendChunk, AppendChunkFails
    <3>4. CASE BeginRefused \/ SkipFrame \/ WriteRaises \/ EndFrame
      BY <3>4 DEF BeginRefused, SkipFrame, WriteRaises, EndFrame, file
    <3> QED
      BY <3>1, <3>2, <3>3, <3>4 DEF Next, Step
  <2>2. FramesIndexed
    BY <1>3
  <2> QED
    BY <1>0, <1>3, <2>1, <2>2 DEF FramesIndexed
<1> QED
  BY <1>1, <1>2, <1>3

LEMMA FileKept == IInv /\ FileInv /\ [Next]_vars => FileInv'
<1> SUFFICES ASSUME IInv, FileInv, [Next]_vars PROVE FileInv'
  OBVIOUS
<1>1. Types /\ Places /\ IndexInv /\ (~isWriting => FramesIndexed)
  BY DEF FileInv
<1>2. Types'
  BY <1>1, LoopKept, DataKept DEF Types
<1>3. Places'
  BY <1>1, LoopKept
<1>4. IndexInv'
  BY <1>1, IndexKept
<1>5. ~isWriting' => FramesIndexed'
  BY <1>1, ClosedIndexed
<1> QED
  BY <1>2, <1>3, <1>4, <1>5 DEF FileInv

LEMMA FileSoundOfInvariant == IInv /\ FileInv => TypeOK /\ FramesIndexed
<1> SUFFICES ASSUME IInv, FileInv PROVE TypeOK /\ FramesIndexed
  OBVIOUS
<1>1. Types /\ IndexInv /\ (~isWriting => FramesIndexed)
  BY DEF FileInv
<1>2. ASSUME pc = "host", ~fallible, isWriting
      PROVE  Len(rowBuffer) < Chunk /\ Len(offsetBuffer) < OffsetChunk
  <2>1. Len(rowBuffer) \in Nat /\ Len(offsetBuffer) \in Nat /\ Chunk \in Nat /\ OffsetChunk \in Nat
    BY <1>1, BufferAssumption DEF Types
  <2>2. Len(rowBuffer) <= Chunk /\ ~RowsFull(rowBuffer)
    BY <1>2 DEF IInv, Typed, WholeInv
  <2>3. Len(offsetBuffer) <= OffsetChunk /\ ~OffsetsFull(offsetBuffer)
    BY <1>1, <1>2 DEF IndexInv
  <2> QED
    BY <2>1, <2>2, <2>3 DEF RowsFull, OffsetsFull
<1>3. TypeOK
  BY <1>1, <1>2 DEF Types, TypeOK
<1>4. ASSUME isWriting PROVE FramesIndexed
  <2> SUFFICES ASSUME ~fallible PROVE FramesIndexed
    BY DEF FramesIndexed
  <2>1. Indexing(Offsets, recorded)
    BY <1>1, <1>4 DEF IndexInv
  <2>2. /\ trajectory \in Seq(AnyRow) /\ Len(trajectory) <= Len(recorded)
        /\ \A k \in 1 .. Len(trajectory) : trajectory[k] = recorded[k]
    BY <1>4 DEF IInv, Typed, KeepInv, InPlace, WholeInv
  <2>3. /\ frameOffsets \in Seq(Nat) /\ Len(frameOffsets) <= Len(Offsets)
        /\ \A i \in 1 .. Len(frameOffsets) : frameOffsets[i] = Offsets[i]
    BY <1>1, OffsetsTyped
  <2> HIDE DEF Indexing
  <2>4. \A i \in 1 .. Len(frameOffsets) - 1 : \A k \in DOMAIN trajectory :
          trajectory[k].frame = i - 1 <=> frameOffsets[i] < k /\ k <= frameOffsets[i + 1]
    BY <1>1, <2>1, <2>2, <2>3, FoundByOffsets
  <2> QED
    BY <1>4, <2>4 DEF FramesIndexed
<1> QED
  BY <1>1, <1>3, <1>4

\* As long as nothing raises, the file is what a reader may expect of it at
\* every moment: typed, made of whole chunks, and with offsets that find the
\* rows of each frame (write_iteration_state, _append and close() together).
THEOREM FileIsSound == Spec => []FileSound
<1>1. Spec => []FileInv
  BY FileInitially, FileKept, WriterInvariant, PTL DEF Spec
<1>2. TypeOK /\ WholeChunks /\ FramesIndexed => FileSound
  BY DEF FileSound
<1> QED
  BY <1>1, <1>2, WriterInvariant, FileSoundOfInvariant, ChunksAreWhole, PTL
=============================================================================
