-------------------------- MODULE ScanStore_proofs --------------------------
(***************************************************************************)
(* For any set of hosts, any record lengths and any number of crashes and  *)
(* interruptions: the type invariant of ScanStore, that a host listed as   *)
(* completed has its record in the output, that the output parses, that no *)
(* host has two complete records, that the derived outputs agree with it,  *)
(* and that the steps are those of ScanLedger, but for a loss of power     *)
(* that takes checkpointed output.  All but the derived outputs hold as    *)
(* long as a fresh scan does not name the checkpoint of an earlier one.    *)
(***************************************************************************)
EXTENDS ScanStore, WellFoundedInduction, TLAPS

-----------------------------------------------------------------------------
LEMMA RecordWidth ==
  ASSUME NEW r \in Records
  PROVE  r.width \in Nat /\ r.width > 0
<1>1. \A w \in Widths : w \in Nat /\ w > 0
  BY StoreAssumption, SMT DEF StoreAssumption
<1>2. r.width \in Widths
  BY DEF Records
<1> QED BY <1>1, <1>2

\* A record that ends at or below n is still there when f is cut back to n cells.
LEMMA RecordSurvivesCut ==
  ASSUME NEW f \in Seq(Cells), NEW n \in 0 .. Len(f), NEW r \in Records, NEW i \in Nat,
         RecordAt(f, r, i), i + r.width <= n + 1
  PROVE  RecordAt(SubSeq(f, 1, n), r, i)
<1>1. r.width \in Nat /\ r.width > 0
  BY RecordWidth
<1>2. Len(SubSeq(f, 1, n)) = n /\ \A j \in 1 .. n : SubSeq(f, 1, n)[j] = f[j]
  OBVIOUS
<1> QED BY <1>1, <1>2 DEF RecordAt

\* A record is still there when f grows.
LEMMA RecordSurvivesAppend ==
  ASSUME NEW f \in Seq(Cells), NEW c \in Cells, NEW r \in Records, NEW i \in Nat,
         RecordAt(f, r, i)
  PROVE  RecordAt(Append(f, c), r, i)
<1>1. r.width \in Nat /\ r.width > 0
  BY RecordWidth
<1>2. Len(Append(f, c)) = Len(f) + 1 /\ \A j \in 1 .. Len(f) : Append(f, c)[j] = f[j]
  OBVIOUS
<1> QED BY <1>1, <1>2 DEF RecordAt

\* What a checkpoint covers is not touched by cutting the file back to its position...
LEMMA CoveredSurvivesCut ==
  ASSUME NEW f \in Seq(Cells), NEW ck \in Checkpoints, NEW n \in 0 .. Len(f),
         ck.position <= n, Covered(f, ck)
  PROVE  Covered(SubSeq(f, 1, n), ck)
<1> SUFFICES ASSUME NEW h \in ck.completed, h \in ck.found \/ ~OpenOnly
             PROVE  \E r \in Records : \E i \in 1 .. Len(SubSeq(f, 1, n)) :
                      /\ r.host = h /\ r.complete
                      /\ RecordAt(SubSeq(f, 1, n), r, i)
                      /\ i + r.width <= ck.position + 1
  BY DEF Covered
<1>1. PICK r \in Records, i \in 1 .. Len(f) :
        /\ r.host = h /\ r.complete
        /\ RecordAt(f, r, i)
        /\ i + r.width <= ck.position + 1
  BY DEF Covered
<1>2. r.width \in Nat /\ r.width > 0 /\ ck.position \in Nat
  BY RecordWidth DEF Checkpoints
<1>3. RecordAt(SubSeq(f, 1, n), r, i)
  BY <1>1, <1>2, RecordSurvivesCut
<1>4. i \in 1 .. Len(SubSeq(f, 1, n))
  BY <1>3 DEF RecordAt
<1> QED BY <1>1, <1>3, <1>4

\* ... nor by writing on.
LEMMA CoveredSurvivesAppend ==
  ASSUME NEW f \in Seq(Cells), NEW c \in Cells, NEW ck \in Checkpoints, Covered(f, ck)
  PROVE  Covered(Append(f, c), ck)
<1> SUFFICES ASSUME NEW h \in ck.completed, h \in ck.found \/ ~OpenOnly
             PROVE  \E r \in Records : \E i \in 1 .. Len(Append(f, c)) :
                      /\ r.host = h /\ r.complete
                      /\ RecordAt(Append(f, c), r, i)
                      /\ i + r.width <= ck.position + 1
  BY DEF Covered
<1>1. PICK r \in Records, i \in 1 .. Len(f) :
        /\ r.host = h /\ r.complete
        /\ RecordAt(f, r, i)
        /\ i + r.width <= ck.position + 1
  BY DEF Covered
<1>2. RecordAt(Append(f, c), r, i)
  BY <1>1, RecordSurvivesAppend
<1>3. i \in 1 .. Len(Append(f, c))
  BY <1>2 DEF RecordAt
<1> QED BY <1>1, <1>2, <1>3

-----------------------------------------------------------------------------
\* How much of the record in persist_host has reached the end of the file.
Written == Buffered(current) - unwritten

\* The inductive invariant.  Beyond the types and the two halves of CompletedHaveRecords:
\* outside a flush the buffer is empty; during one, the cells written so far are the end
\* of the file, in order; and during a run no checkpoint is ahead of the file.
StoreInv ==
  /\ TypeOK
  /\ proc # "flushing" => unwritten = 0
  /\ proc = "flushing" =>
       /\ current \in Records
       /\ Written \in 0 .. Len(file)
       /\ unwritten <= Buffered(current)
       /\ \A k \in 1 .. Written : file[Len(file) - Written + k] = Cell(current, k)
  /\ Running =>
       /\ mem.position <= Len(file)
       /\ saved.exists => saved.position <= Len(file)
  /\ CompletedHaveRecords

LEMMA CellType ==
  ASSUME NEW r \in Records, NEW k \in 1 .. r.width
  PROVE  Cell(r, k) \in Cells
BY DEF Cells, Records

LEMMA BoundsAreNat == MaxCrashes \in Nat /\ MaxInterruptions \in Nat
BY StoreAssumption DEF StoreAssumption

LEMMA FreshIsCheckpoint == Fresh \in Checkpoints
BY DEF Fresh, Checkpoints

LEMMA InitStore == Init => StoreInv
<1> SUFFICES ASSUME Init PROVE StoreInv
  OBVIOUS
<1>1. TypeOK
  <2>1. saved \in Checkpoints /\ mem \in Checkpoints
    BY FreshIsCheckpoint DEF Init
  <2>2. current \in Records \cup {NoRecord} /\ unwritten \in 0 .. current.width
    BY DEF Init, NoRecord
  <2>3. crashes \in 0 .. MaxCrashes /\ interruptions \in 0 .. MaxInterruptions
    BY BoundsAreNat DEF Init
  <2>4. cancelled \in BOOLEAN /\ derives \in BOOLEAN
    BY DEF Init
  <2>5. file \in Seq(Cells) /\ from \subseteq Hosts /\ handled \subseteq Hosts
    BY DEF Init
  <2> QED BY <2>1, <2>2, <2>3, <2>4, <2>5 DEF Init, TypeOK
<1>2. CompletedHaveRecords
  BY DEF Init, CompletedHaveRecords, Fresh, Running
<1> QED BY <1>1, <1>2 DEF Init, StoreInv, Running

-----------------------------------------------------------------------------
\* A run begins: the file kept is covered by the checkpoint it begins with.
LEMMA BeginStore ==
  ASSUME StoreInv, NEW ck \in Checkpoints, NEW kept \in Seq(Cells), NEW asked \in BOOLEAN,
         Begin(ck, kept, asked), ck.position <= Len(kept), Covered(kept, ck),
         proc # "flushing", saved.exists => saved = ck
  PROVE  StoreInv'
<1> DEFINE m == [ck EXCEPT !.exists = TRUE]
<1>1. m \in Checkpoints /\ m.completed = ck.completed /\ m.found = ck.found
        /\ m.position = ck.position
  BY DEF Checkpoints
<1>2. Covered(kept, m)
  BY <1>1 DEF Covered
<1>3. TypeOK'
  BY <1>1 DEF StoreInv, TypeOK, Begin, Checkpoints
<1>4. CompletedHaveRecords'
  BY <1>2 DEF CompletedHaveRecords, Begin
<1> QED BY <1>1, <1>3, <1>4 DEF StoreInv, Begin, Running

THEOREM StepStore == ASSUME ~ReuseCheckpoint, StoreInv, [Next]_vars PROVE StoreInv'
<1> USE DEF StoreInv
<1>1. CASE StartFresh
  <2>1. ~saved.exists
    BY <1>1 DEF StartFresh
  <2>2. Fresh.position <= Len(<< >>) /\ Covered(<< >>, Fresh) /\ << >> \in Seq(Cells)
    BY DEF Fresh, Covered
  <2> QED BY <1>1, <2>1, <2>2, FreshIsCheckpoint, BeginStore DEF StartFresh
<1>2. CASE StartResume
  <2> DEFINE kept == SubSeq(file, 1, saved.position)
  <2>1. file \in Seq(Cells) /\ saved \in Checkpoints /\ saved.position \in 0 .. Len(file)
    BY <1>2 DEF StartResume, Resumable, TypeOK, Checkpoints
  <2>2. Covered(file, saved)
    BY <1>2 DEF StartResume, Resumable, CompletedHaveRecords
  <2>3. kept \in Seq(Cells) /\ Len(kept) = saved.position
    BY <2>1
  <2>4. Covered(kept, saved)
    BY <2>1, <2>2, CoveredSurvivesCut
  <2>5. (\E asked \in BOOLEAN : Begin(saved, kept, asked)) /\ proc # "flushing"
    BY <1>2 DEF StartResume, CutBack
  <2>6. saved.position <= Len(kept)
    BY <2>1, <2>3
  <2> HIDE DEF kept, StoreInv
  <2> QED BY <2>1, <2>3, <2>4, <2>5, <2>6, BeginStore
<1>3. CASE RefuseResume
  <2>1. file' \in Seq(Cells) /\ Len(file') <= Len(file)
    BY <1>3 DEF RefuseResume, CutBack, TypeOK, Checkpoints
  <2>2. TypeOK'
    BY <1>3, <2>1 DEF RefuseResume, TypeOK
  <2>3. ~Running'
    BY <1>3 DEF RefuseResume, Running
  <2>4. ASSUME saved.exists, saved.position <= Len(file')
        PROVE  Covered(file', saved)
    <3>1. saved.position \in 0 .. Len(file) /\ Covered(file, saved)
      BY <2>1, <2>4 DEF CompletedHaveRecords, TypeOK, Checkpoints
    <3>2. file' = SubSeq(file, 1, saved.position)
      BY <1>3, <3>1 DEF RefuseResume, CutBack
    <3> QED BY <3>1, <3>2, CoveredSurvivesCut DEF TypeOK
  <2>5. CompletedHaveRecords'
    BY <1>3, <2>3, <2>4 DEF RefuseResume, CompletedHaveRecords
  <2>6. proc' = "refused" /\ unwritten' = 0
    BY <1>3 DEF RefuseResume
  <2> QED BY <2>2, <2>3, <2>5, <2>6
<1>4. ASSUME NEW r \in Records, PersistHost(r) PROVE StoreInv'
  <2>1. r.width \in Nat /\ Buffered(r) \in 0 .. r.width /\ r.host \in Hosts
    BY RecordWidth DEF Buffered, Records
  <2>2. TypeOK'
    <3>1. interruptions' \in 0 .. MaxInterruptions
      BY <1>4, BoundsAreNat DEF PersistHost, TypeOK
    <3>2. handled' \subseteq Hosts
      BY <1>4, <2>1 DEF PersistHost, TypeOK
    <3> QED BY <1>4, <2>1, <3>1, <3>2 DEF PersistHost, TypeOK
  <2>3. Written' = 0 /\ unwritten' <= Buffered(current') /\ current' \in Records
    BY <1>4, <2>1 DEF PersistHost, Written, Buffered, KeepsHost
  <2>4. CompletedHaveRecords'
    BY <1>4 DEF PersistHost, CompletedHaveRecords, Running
  <2>5. Len(file) \in Nat
    BY DEF TypeOK
  <2> QED BY <1>4, <2>2, <2>3, <2>4, <2>5 DEF PersistHost, Running
<1>5. CASE DrainBuffer
  <2> DEFINE k == current.width - unwritten + 1
             c == Cell(current, k)
  <2>1. /\ current \in Records /\ current.width \in Nat
        /\ unwritten \in Nat /\ unwritten > 0 /\ unwritten <= current.width
        /\ file \in Seq(Cells) /\ saved \in Checkpoints /\ mem \in Checkpoints
    BY <1>5, RecordWidth DEF DrainBuffer, TypeOK
  <2>2. Buffered(current) = current.width
    BY <1>5, <2>1 DEF DrainBuffer, Buffered, KeepsHost
  <2>3. c \in Cells
    BY <2>1, CellType
  <2>4. Len(file') = Len(file) + 1 /\ file'[Len(file) + 1] = c
          /\ \A j \in 1 .. Len(file) : file'[j] = file[j]
    BY <1>5, <2>1, <2>3 DEF DrainBuffer
  <2>5. TypeOK'
    BY <1>5, <2>1, <2>3 DEF DrainBuffer, TypeOK
  <2>6. Written' = Written + 1 /\ Written' = k /\ Written \in 0 .. Len(file)
    BY <1>5, <2>1, <2>2 DEF DrainBuffer, Written, Buffered, KeepsHost
  <2>7. \A j \in 1 .. Written' : file'[Len(file') - Written' + j] = Cell(current', j)
    <3> SUFFICES ASSUME NEW j \in 1 .. Written'
                 PROVE  file'[Len(file') - Written' + j] = Cell(current', j)
      OBVIOUS
    <3>1. CASE j = Written'
      BY <1>5, <2>1, <2>4, <2>6, <3>1 DEF DrainBuffer
    <3>2. CASE j # Written'
      <4>1. j \in 1 .. Written /\ Len(file') - Written' + j = Len(file) - Written + j
        BY <2>1, <2>4, <2>6, <3>2
      <4>2. file[Len(file) - Written + j] = Cell(current, j)
        BY <1>5, <4>1 DEF DrainBuffer
      <4>3. Len(file) - Written + j \in 1 .. Len(file)
        BY <2>1, <2>6, <4>1
      <4> QED BY <1>5, <2>4, <4>1, <4>2, <4>3 DEF DrainBuffer
    <3> QED BY <3>1, <3>2
  <2>8. Covered(file', mem) /\ (saved.exists => Covered(file', saved))
    BY <1>5, <2>1, <2>3, CoveredSurvivesAppend
    DEF DrainBuffer, CompletedHaveRecords, Running
  <2>9. CompletedHaveRecords'
    BY <1>5, <2>8 DEF DrainBuffer, CompletedHaveRecords
  <2>10. mem'.position <= Len(file') /\ (saved'.exists => saved'.position <= Len(file'))
    BY <1>5, <2>1, <2>4 DEF DrainBuffer, Running, Checkpoints
  <2>11. /\ unwritten' <= Buffered(current') /\ Written' \in 0 .. Len(file')
         /\ current' \in Records
    BY <1>5, <2>1, <2>2, <2>4, <2>6 DEF DrainBuffer
  <2> QED BY <1>5, <2>5, <2>7, <2>9, <2>10, <2>11 DEF DrainBuffer
<1>6. CASE Flushed
  <2>1. /\ current \in Records /\ current.width \in Nat /\ current.width > 0
        /\ file \in Seq(Cells) /\ saved \in Checkpoints /\ mem \in Checkpoints
        /\ current.host \in Hosts /\ Len(file) \in Nat /\ mem.position \in Nat
        /\ unwritten = 0
    BY <1>6, RecordWidth DEF Flushed, TypeOK, Records, Checkpoints
  <2> DEFINE m == Checkpointed(mem, current, Len(file))
  <2>2. m \in Checkpoints /\ mem.position <= m.position /\ m.position <= Len(file)
    BY <1>6, <2>1 DEF Checkpointed, Checkpoints, Flushed, Running
  <2>3. TypeOK'
    BY <1>6, <2>1, <2>2 DEF Flushed, TypeOK
  <2>4. Covered(file, m)
    <3> SUFFICES ASSUME NEW h \in m.completed, h \in m.found \/ ~OpenOnly
                 PROVE  \E r \in Records : \E i \in 1 .. Len(file) :
                          /\ r.host = h /\ r.complete
                          /\ RecordAt(file, r, i)
                          /\ i + r.width <= m.position + 1
      BY DEF Covered
    <3>1. CASE h # current.host
      <4>1. h \in mem.completed /\ (h \in mem.found \/ ~OpenOnly)
        BY <3>1 DEF Checkpointed
      <4>2. PICK r \in Records, i \in 1 .. Len(file) :
              /\ r.host = h /\ r.complete
              /\ RecordAt(file, r, i)
              /\ i + r.width <= mem.position + 1
        BY <1>6, <4>1 DEF CompletedHaveRecords, Covered, Flushed, Running
      <4>3. i + r.width <= m.position + 1
        BY <2>1, <2>2, <4>2, RecordWidth DEF Checkpoints
      <4> QED BY <4>2, <4>3
    <3>2. CASE h = current.host
      <4>1. current.complete /\ m.position = Len(file)
        BY <3>2 DEF Checkpointed
      <4>2. current.open \/ ~OpenOnly
        BY <3>2 DEF Checkpointed
      <4>3. Written = current.width /\ Written \in 0 .. Len(file)
        BY <1>6, <2>1, <4>2 DEF Written, Buffered, KeepsHost, Flushed
      <4> DEFINE i == Len(file) - current.width + 1
      <4>4. i \in 1 .. Len(file) /\ i + current.width = Len(file) + 1
        BY <2>1, <4>3
      <4>5. RecordAt(file, current, i)
        <5> SUFFICES ASSUME NEW k \in 1 .. current.width
                     PROVE  file[i + k - 1] = Cell(current, k)
          BY <2>1, <4>4 DEF RecordAt
        <5>1. file[Len(file) - Written + k] = Cell(current, k)
          BY <1>6, <4>3 DEF Flushed
        <5>2. i + k - 1 = Len(file) - Written + k
          BY <2>1, <4>3
        <5> QED BY <5>1, <5>2
      <4> QED BY <2>1, <3>2, <4>1, <4>4, <4>5
    <3> QED BY <3>1, <3>2
  <2>5. CompletedHaveRecords'
    BY <1>6, <2>4 DEF Flushed, CompletedHaveRecords, Running
  <2> QED BY <1>6, <2>1, <2>2, <2>3, <2>5 DEF Flushed, Running
<1>7. CASE SaveCheckpoint
  <2>1. TypeOK'
    BY <1>7 DEF SaveCheckpoint, TypeOK, NoRecord
  <2>2. CompletedHaveRecords'
    BY <1>7 DEF SaveCheckpoint, CompletedHaveRecords, Running
  <2> QED BY <1>7, <2>1, <2>2 DEF SaveCheckpoint, Running
<1>8. CASE FinishRun
  <2>1. TypeOK'
    BY <1>8 DEF FinishRun, TypeOK
  <2>2. CompletedHaveRecords'
    BY <1>8 DEF FinishRun, CompletedHaveRecords, Running
  <2> QED BY <1>8, <2>1, <2>2 DEF FinishRun, Running
<1>9. CASE Cancel
  <2>1. TypeOK'
    BY <1>9, BoundsAreNat DEF Cancel, TypeOK
  <2>2. CompletedHaveRecords'
    BY <1>9 DEF Cancel, CompletedHaveRecords, Running
  <2> QED BY <1>9, <2>1, <2>2 DEF Cancel, Running, Written
<1>10. CASE Crash
  <2>1. file \in Seq(Cells) /\ saved \in Checkpoints
    BY DEF TypeOK
  <2>2. PICK n \in 0 .. Len(file) : file' = SubSeq(file, 1, n)
    <3>1. file = SubSeq(file, 1, Len(file)) /\ Len(file) \in 0 .. Len(file)
      BY <2>1
    <3> QED BY <1>10, <3>1 DEF Crash
  <2>3. file' \in Seq(Cells) /\ Len(file') = n
    BY <2>1, <2>2
  <2>4. TypeOK'
    <3>1. crashes' \in 0 .. MaxCrashes
      BY <1>10, BoundsAreNat DEF Crash, TypeOK
    <3>2. cancelled' \in BOOLEAN
      BY <1>10 DEF Crash
    <3>3. current' \in Records \cup {NoRecord} /\ unwritten' \in 0 .. current'.width
      BY <1>10 DEF Crash, NoRecord
    <3> QED BY <1>10, <2>3, <3>1, <3>2, <3>3, FreshIsCheckpoint DEF Crash, TypeOK
  <2>5. saved.exists /\ saved.position <= n => Covered(file', saved)
    <3> SUFFICES ASSUME saved.exists, saved.position <= n PROVE Covered(file', saved)
      OBVIOUS
    <3>1. saved.position <= Len(file)
      BY <2>1, <2>2 DEF Checkpoints
    <3>2. Covered(file, saved)
      BY <3>1 DEF CompletedHaveRecords
    <3> QED BY <2>1, <2>2, <3>2, CoveredSurvivesCut
  <2>6. CompletedHaveRecords'
    BY <1>10, <2>3, <2>5 DEF Crash, CompletedHaveRecords, Running
  <2> QED BY <1>10, <2>4, <2>6 DEF Crash, Running
<1>11. CASE Rest
  BY <1>11 DEF Rest, vars, TypeOK, Running, CompletedHaveRecords, Written
<1>12. CASE UNCHANGED vars
  BY <1>12 DEF vars, TypeOK, Running, CompletedHaveRecords, Written
<1> QED BY <1>1, <1>2, <1>3, <1>4, <1>5, <1>6, <1>7, <1>8, <1>9, <1>10, <1>11, <1>12
        DEF Next, ProcessStep


\* ScanStore keeps its inductive invariant for ever.
THEOREM StoreInvariant == ASSUME ~ReuseCheckpoint PROVE Spec => []StoreInv
<1>1. StoreInv /\ [Next]_vars => StoreInv'
  BY StepStore
<1> QED BY InitStore, <1>1, PTL DEF Spec

\* The types of the store, and the BufWriter never holding more than one record.
THEOREM StoreTypeOK == ASSUME ~ReuseCheckpoint PROVE Spec => []TypeOK
BY StoreInvariant, PTL DEF StoreInv

\* No completed host without its record: a resume skips only what the output holds,
\* whatever the hosts, the record lengths, the crashes, the power losses and the cancels.
THEOREM CompletedAreInOutput == ASSUME ~ReuseCheckpoint PROVE Spec => []CompletedHaveRecords
BY StoreInvariant, PTL DEF StoreInv


-----------------------------------------------------------------------------
\* The first n cells of f are whole records.
WholeUpTo(f, n) ==
  \A i \in 1 .. n :
    /\ f[i].k > 1 => i > 1 /\ f[i - 1] = Cell(f[i].rec, f[i].k - 1)
    /\ f[i].k < f[i].rec.width => i < n /\ f[i + 1] = Cell(f[i].rec, f[i].k + 1)

\* A complete record starts at cell i of f.
CompleteAt(f, i) == f[i].k = 1 /\ f[i].rec.complete

\* The file without what has reached it of the record in persist_host.
Before == IF proc = "flushing" THEN Len(file) - Written ELSE Len(file)

\* The rest of the inductive invariant, in parts.  What a resume would keep ends with a
\* record, and its complete records are those of completed hosts.
SavedIsWhole ==
  /\ ~saved.exists => saved = Fresh
  /\ saved.exists /\ saved.position <= Len(file) =>
       /\ WholeUpTo(file, saved.position)
       /\ \A i \in 1 .. saved.position :
            CompleteAt(file, i) => file[i].rec.host \in saved.completed

\* So does what a run has written: only partial records lie beyond its position.
WrittenIsWhole ==
  Running =>
    /\ mem.position <= Before
    /\ WholeUpTo(file, Before) /\ WholeUpTo(file, mem.position)
    /\ \A i \in 1 .. Before :
         CompleteAt(file, i) => i <= mem.position /\ file[i].rec.host \in mem.completed

\* A run persists a host once, and only one that no earlier run has completed.
EachHostOnce ==
  /\ Running => mem.completed \subseteq from \cup handled
  /\ proc = "flushing" => current.host \in handled \ mem.completed

\* Checkpoint and memory differ by the host in persist_host at most.
SavedFollows ==
  /\ Running => mem.exists
  /\ proc \in {"scanning", "flushing"} =>
       mem.completed = saved.completed /\ mem.position = saved.position
  /\ proc = "saving" =>
       /\ current.host \in Hosts \ saved.completed
       /\ mem.completed = IF current.complete THEN saved.completed \cup {current.host}
                                              ELSE saved.completed
       /\ mem.position = IF current.complete THEN Len(file) ELSE saved.position
       /\ \A i \in 1 .. Len(file) :
            CompleteAt(file, i) /\ i > saved.position => file[i].rec.host = current.host

\* Unless the machine loses power, the output is never shorter than the checkpoint says.
SavedIsThere == ~PowerLoss /\ saved.exists => saved.position <= Len(file)

LedgerInv ==
  /\ SavedIsWhole /\ WrittenIsWhole /\ EachHostOnce /\ SavedFollows /\ SavedIsThere
  /\ NoCompletedTwice

LEMMA Types ==
  ASSUME StoreInv
  PROVE  /\ file \in Seq(Cells) /\ Len(file) \in Nat
         /\ saved \in Checkpoints /\ saved.position \in Nat /\ saved.completed \subseteq Hosts
         /\ mem \in Checkpoints /\ mem.position \in Nat
         /\ proc = "flushing" => /\ Written \in 0 .. Len(file) /\ current \in Records
                                 /\ current.host \in Hosts /\ Before \in 0 .. Len(file)
         /\ proc # "flushing" => Before = Len(file)
BY DEF StoreInv, TypeOK, Checkpoints, Records, Before

LEMMA CellParts ==
  ASSUME NEW f \in Seq(Cells), NEW i \in 1 .. Len(f)
  PROVE  /\ f[i].k \in Nat /\ f[i].rec \in Records
         /\ f[i].rec.width \in Nat /\ f[i].rec.host \in Hosts /\ f[i].rec.complete \in BOOLEAN
<1>1. f[i] \in Cells
  OBVIOUS
<1>2. f[i].rec \in Records /\ f[i].k \in Nat
  <2>1. PICK r \in Records, k \in UNION {1 .. w : w \in Widths} : f[i] = Cell(r, k)
    BY <1>1 DEF Cells
  <2>2. k \in Nat
    BY StoreAssumption DEF StoreAssumption
  <2> QED BY <2>1, <2>2 DEF Cell
<1> QED BY <1>2, RecordWidth DEF Records

\* Whole records are whole wherever the cells are the same.
LEMMA WholeWhereSame ==
  ASSUME NEW f, NEW g, NEW n \in Nat, \A i \in 1 .. n : g[i] = f[i], WholeUpTo(f, n)
  PROVE  WholeUpTo(g, n)
<1> SUFFICES ASSUME NEW i \in 1 .. n
             PROVE  /\ g[i].k > 1 => i > 1 /\ g[i - 1] = Cell(g[i].rec, g[i].k - 1)
                    /\ g[i].k < g[i].rec.width =>
                         i < n /\ g[i + 1] = Cell(g[i].rec, g[i].k + 1)
  BY DEF WholeUpTo
<1>1. /\ f[i].k > 1 => i > 1 /\ f[i - 1] = Cell(f[i].rec, f[i].k - 1)
      /\ f[i].k < f[i].rec.width => i < n /\ f[i + 1] = Cell(f[i].rec, f[i].k + 1)
  BY DEF WholeUpTo
<1>2. (i > 1 => i - 1 \in 1 .. n) /\ (i < n => i + 1 \in 1 .. n)
  OBVIOUS
<1> QED BY <1>1, <1>2

\* One more record behind whole records.
LEMMA WholeWithRecord ==
  ASSUME NEW f, NEW n \in Nat, NEW r \in Records, WholeUpTo(f, n),
         \A k \in 1 .. r.width : f[n + k] = Cell(r, k)
  PROVE  WholeUpTo(f, n + r.width)
<1>1. r.width \in Nat /\ r.width > 0
  BY RecordWidth
<1> SUFFICES ASSUME NEW i \in 1 .. n + r.width
             PROVE  /\ f[i].k > 1 => i > 1 /\ f[i - 1] = Cell(f[i].rec, f[i].k - 1)
                    /\ f[i].k < f[i].rec.width =>
                         i < n + r.width /\ f[i + 1] = Cell(f[i].rec, f[i].k + 1)
  BY DEF WholeUpTo
<1>2. CASE i <= n
  <2>1. i \in 1 .. n
    BY <1>1, <1>2
  <2>2. /\ f[i].k > 1 => i > 1 /\ f[i - 1] = Cell(f[i].rec, f[i].k - 1)
        /\ f[i].k < f[i].rec.width => i < n /\ f[i + 1] = Cell(f[i].rec, f[i].k + 1)
    BY <2>1 DEF WholeUpTo
  <2>3. i < n => i < n + r.width
    BY <1>1
  <2> QED BY <2>2, <2>3
<1>3. CASE i > n
  <2> DEFINE k == i - n
  <2>1. k \in 1 .. r.width /\ i = n + k
    BY <1>1, <1>3
  <2>2. f[i] = Cell(r, k) /\ f[i].rec = r /\ f[i].k = k
    BY <2>1 DEF Cell
  <2>3. k > 1 => i > 1 /\ f[i - 1] = Cell(r, k - 1)
    <3>1. k > 1 => k - 1 \in 1 .. r.width /\ n + (k - 1) = i - 1 /\ i > 1
      BY <1>1, <2>1
    <3> QED BY <3>1
  <2>4. k < r.width => i < n + r.width /\ f[i + 1] = Cell(r, k + 1)
    <3>1. k < r.width => k + 1 \in 1 .. r.width /\ n + (k + 1) = i + 1 /\ i < n + r.width
      BY <1>1, <2>1
    <3> QED BY <3>1
  <2> QED BY <2>2, <2>3, <2>4
<1> QED BY <1>1, <1>2, <1>3

\* A record that starts among whole records ends among them.
LEMMA RecordEndsInside ==
  ASSUME NEW f \in Seq(Cells), NEW n \in 0 .. Len(f), NEW r \in Records, NEW i \in 1 .. n,
         WholeUpTo(f, n), RecordAt(f, r, i)
  PROVE  i + r.width <= n + 1
<1>1. r.width \in Nat /\ r.width > 0
  BY RecordWidth
<1> SUFFICES ASSUME i + r.width > n + 1 PROVE FALSE
  BY <1>1
<1> DEFINE k == n - i + 1
<1>2. k \in 1 .. r.width /\ k < r.width /\ i + k - 1 = n /\ n \in 1 .. n
  BY <1>1
<1>3. f[n] = Cell(r, k)
  BY <1>2 DEF RecordAt
<1>4. f[n].k = k /\ f[n].rec = r
  BY <1>3 DEF Cell
<1> QED BY <1>2, <1>4 DEF WholeUpTo

\* The start of a complete record is where a complete record starts.
LEMMA RecordStarts ==
  ASSUME NEW f, NEW r \in Records, NEW i \in Nat, RecordAt(f, r, i), r.complete
  PROVE  CompleteAt(f, i) /\ f[i].rec.host = r.host
<1>1. 1 \in 1 .. r.width /\ i + 1 - 1 = i
  BY RecordWidth
<1>2. f[i] = Cell(r, 1)
  BY <1>1 DEF RecordAt
<1> QED BY <1>2 DEF CompleteAt, Cell

LEMMA InitLedger == Init => LedgerInv
BY DEF Init, LedgerInv, SavedIsWhole, WrittenIsWhole, EachHostOnce, SavedFollows, SavedIsThere,
       NoCompletedTwice, Fresh, Running

\* A run begins with what the checkpoint protects.
LEMMA BeginLedger ==
  ASSUME StoreInv, LedgerInv, NEW ck \in Checkpoints, NEW kept \in Seq(Cells),
         NEW asked \in BOOLEAN, Begin(ck, kept, asked),
         ck.position = Len(kept), Len(kept) <= Len(file),
         \A i \in 1 .. Len(kept) : kept[i] = file[i],
         WholeUpTo(kept, Len(kept)),
         \A i \in 1 .. Len(kept) : CompleteAt(kept, i) => kept[i].rec.host \in ck.completed,
         saved.exists => saved = ck, ~saved.exists => ck = Fresh
  PROVE  LedgerInv'
<1>1. /\ file' = kept /\ saved' = saved /\ proc' = "scanning" /\ from' = ck.completed
      /\ Len(kept) \in Nat
  BY DEF Begin
<1>2. /\ mem'.completed = ck.completed /\ mem'.position = ck.position /\ mem'.exists
  BY DEF Begin, Checkpoints
<1>3. saved = ck \/ (saved = Fresh /\ ck = Fresh)
  BY DEF LedgerInv, SavedIsWhole
<1>4. SavedIsWhole' /\ SavedIsThere' /\ SavedFollows'
  <2>1. ~saved.exists => saved = Fresh
    BY DEF LedgerInv, SavedIsWhole
  <2>2. saved.exists => WholeUpTo(file', saved.position) /\ saved.position <= Len(file')
          /\ \A i \in 1 .. saved.position :
               CompleteAt(file', i) => file'[i].rec.host \in saved.completed
    BY <1>1
  <2>3. saved.completed = ck.completed /\ saved.position = ck.position
    BY <1>3
  <2>4. SavedIsWhole' /\ SavedIsThere'
    BY <1>1, <2>1, <2>2 DEF SavedIsWhole, SavedIsThere
  <2>5. SavedFollows'
    BY <1>1, <1>2, <2>3 DEF SavedFollows
  <2> QED BY <2>4, <2>5
<1>5. WrittenIsWhole' /\ EachHostOnce'
  BY <1>1, <1>2 DEF WrittenIsWhole, EachHostOnce, Before
<1>6. NoCompletedTwice'
  <2>1. \A i \in 1 .. Len(kept) : i \in 1 .. Len(file)
    BY <1>1 DEF StoreInv, TypeOK
  <2> QED BY <1>1, <2>1 DEF LedgerInv, NoCompletedTwice
<1> QED BY <1>4, <1>5, <1>6 DEF LedgerInv

\* Nothing runs, and the end of the file may be gone.
LEMMA CutLedger ==
  ASSUME StoreInv, LedgerInv, ~Running', saved' = saved,
         NEW n \in 0 .. Len(file), file' = SubSeq(file, 1, n),
         ~PowerLoss /\ saved.exists => saved.position <= n
  PROVE  LedgerInv'
<1>1. /\ file \in Seq(Cells) /\ Len(file) \in Nat /\ saved.position \in Nat
  BY Types
<1>2. Len(file') = n /\ \A i \in 1 .. n : file'[i] = file[i] /\ i \in 1 .. Len(file)
  BY <1>1
<1>3. SavedIsWhole'
  <2> SUFFICES ASSUME saved.exists, saved.position <= n
               PROVE  /\ WholeUpTo(file', saved.position)
                      /\ \A i \in 1 .. saved.position :
                           CompleteAt(file', i) => file'[i].rec.host \in saved.completed
    BY <1>2 DEF LedgerInv, SavedIsWhole
  <2>1. /\ WholeUpTo(file, saved.position)
        /\ \A i \in 1 .. saved.position :
             CompleteAt(file, i) => file[i].rec.host \in saved.completed
    BY <1>1 DEF LedgerInv, SavedIsWhole
  <2>2. \A i \in 1 .. saved.position : file'[i] = file[i]
    BY <1>1, <1>2
  <2>3. WholeUpTo(file', saved.position)
    BY <1>1, <2>1, <2>2, WholeWhereSame
  <2> QED BY <2>1, <2>2, <2>3 DEF CompleteAt
<1>4. WrittenIsWhole' /\ EachHostOnce' /\ SavedFollows'
  BY DEF Running, WrittenIsWhole, EachHostOnce, SavedFollows
<1>5. SavedIsThere'
  BY <1>2 DEF SavedIsThere
<1>6. NoCompletedTwice'
  BY <1>2 DEF LedgerInv, NoCompletedTwice
<1> QED BY <1>3, <1>4, <1>5, <1>6 DEF LedgerInv

LEMMA PersistHostLedger ==
  ASSUME StoreInv, LedgerInv, NEW rec \in Records, PersistHost(rec) PROVE LedgerInv'
<1>1. /\ UNCHANGED <<file, saved, mem, from>> /\ proc = "scanning" /\ proc' = "flushing"
      /\ current' = rec /\ handled' = handled \cup {rec.host}
      /\ rec.host \in Hosts /\ rec.host \notin from \cup handled
  BY DEF PersistHost, Pending
<1>2. Before' = Len(file) /\ Before = Len(file)
  <2>1. Written' = 0
    <3>1. unwritten' = Buffered(current') /\ Buffered(rec) \in Nat
      BY <1>1, RecordWidth DEF PersistHost, Buffered
    <3> QED BY <1>1, <3>1 DEF Written
  <2> QED BY <1>1, <2>1, Types DEF Before
<1>3. SavedIsWhole' /\ SavedIsThere' /\ NoCompletedTwice'
  BY <1>1 DEF LedgerInv, SavedIsWhole, SavedIsThere, NoCompletedTwice
<1>4. WrittenIsWhole'
  BY <1>1, <1>2 DEF LedgerInv, WrittenIsWhole, Running
<1>5. EachHostOnce'
  BY <1>1 DEF LedgerInv, EachHostOnce, Running
<1>6. SavedFollows'
  BY <1>1 DEF LedgerInv, SavedFollows, Running
<1> QED BY <1>3, <1>4, <1>5, <1>6 DEF LedgerInv

LEMMA DrainBufferLedger == ASSUME StoreInv, LedgerInv, DrainBuffer PROVE LedgerInv'
<1> DEFINE k == current.width - unwritten + 1
           c == Cell(current, k)
<1>1. /\ UNCHANGED <<saved, proc, mem, from, handled, current>> /\ proc = "flushing"
      /\ unwritten > 0 /\ unwritten' = unwritten - 1
  BY DEF DrainBuffer
<1>2. /\ current \in Records /\ current.width \in Nat /\ unwritten \in 1 .. current.width
      /\ Buffered(current) = current.width
  BY <1>1, RecordWidth DEF StoreInv, TypeOK, Buffered
<1>3. /\ file \in Seq(Cells) /\ Len(file) \in Nat /\ Written = current.width - unwritten
      /\ saved.position \in Nat /\ mem.position \in Nat /\ Before \in 0 .. Len(file)
      /\ Before = Len(file) - Written
  BY <1>1, <1>2, Types DEF Written, Before
<1>4. c \in Cells
  BY <1>2, CellType
<1>5. Len(file') = Len(file) + 1 /\ file'[Len(file) + 1] = c
        /\ \A j \in 1 .. Len(file) : file'[j] = file[j]
  BY <1>3, <1>4 DEF DrainBuffer
<1>6. Before' = Before
  <2>1. Written' = Written + 1
    BY <1>1, <1>2, <1>3 DEF Written
  <2>2. Before' = Len(file') - Written' /\ Written \in Nat
    BY <1>1, <1>2, <1>3 DEF Before
  <2> QED BY <1>3, <1>5, <2>1, <2>2
<1>7. mem.position <= Before /\ (saved.exists => saved.position <= Len(file))
  BY <1>1 DEF LedgerInv, WrittenIsWhole, StoreInv, Running
<1>8. SavedIsWhole'
  <2> SUFFICES ASSUME saved.exists
               PROVE  /\ WholeUpTo(file', saved.position)
                      /\ \A i \in 1 .. saved.position :
                           CompleteAt(file', i) => file'[i].rec.host \in saved.completed
    BY <1>1 DEF LedgerInv, SavedIsWhole
  <2>1. /\ WholeUpTo(file, saved.position)
        /\ \A i \in 1 .. saved.position :
             CompleteAt(file, i) => file[i].rec.host \in saved.completed
    BY <1>7 DEF LedgerInv, SavedIsWhole
  <2>2. \A i \in 1 .. saved.position : file'[i] = file[i]
    BY <1>3, <1>5, <1>7
  <2>3. WholeUpTo(file', saved.position)
    BY <1>3, <2>1, <2>2, WholeWhereSame
  <2> QED BY <2>1, <2>2, <2>3 DEF CompleteAt
<1>9. WrittenIsWhole'
  <2>1. /\ WholeUpTo(file, Before) /\ WholeUpTo(file, mem.position)
        /\ \A i \in 1 .. Before : CompleteAt(file, i) =>
             i <= mem.position /\ file[i].rec.host \in mem.completed
    BY <1>1 DEF LedgerInv, WrittenIsWhole, Running
  <2>2. \A i \in 1 .. Before : file'[i] = file[i]
    BY <1>3, <1>5
  <2>3. \A i \in 1 .. mem.position : file'[i] = file[i]
    BY <1>3, <1>7, <2>2
  <2>4. WholeUpTo(file', Before) /\ WholeUpTo(file', mem.position)
    BY <1>3, <2>1, <2>2, <2>3, WholeWhereSame
  <2>5. \A i \in 1 .. Before : CompleteAt(file', i) =>
          i <= mem.position /\ file'[i].rec.host \in mem.completed
    BY <2>1, <2>2 DEF CompleteAt
  <2> QED BY <1>1, <1>6, <1>7, <2>4, <2>5 DEF WrittenIsWhole
<1>10. EachHostOnce' /\ SavedIsThere'
  BY <1>1, <1>3, <1>5, <1>7 DEF LedgerInv, EachHostOnce, SavedIsThere, Running
<1>11. SavedFollows'
  BY <1>1 DEF LedgerInv, SavedFollows, Running
<1>12. NoCompletedTwice'
  <2> SUFFICES ASSUME NEW i \in 1 .. Len(file'), NEW j \in 1 .. Len(file'),
                      CompleteAt(file', i), CompleteAt(file', j),
                      file'[i].rec.host = file'[j].rec.host
               PROVE  i = j
    BY DEF NoCompletedTwice, CompleteAt
  <2>1. ASSUME NEW m \in 1 .. Len(file), CompleteAt(file, m), file[m].rec.host = current.host,
               k = 1
        PROVE  FALSE
    <3>1. Before = Len(file)
      BY <1>2, <1>3, <2>1
    <3> QED BY <1>1, <2>1, <3>1
            DEF LedgerInv, WrittenIsWhole, EachHostOnce, Running
  <2>2. c.k = k /\ c.rec = current
    BY DEF Cell
  <2>3. CASE i \in 1 .. Len(file) /\ j \in 1 .. Len(file)
    BY <1>5, <2>3 DEF LedgerInv, NoCompletedTwice, CompleteAt
  <2>4. CASE i = Len(file) + 1 /\ j \in 1 .. Len(file)
    BY <1>5, <2>1, <2>2, <2>4 DEF CompleteAt
  <2>5. CASE j = Len(file) + 1 /\ i \in 1 .. Len(file)
    BY <1>5, <2>1, <2>2, <2>5 DEF CompleteAt
  <2> QED BY <1>3, <1>5, <2>3, <2>4, <2>5
<1> QED BY <1>8, <1>9, <1>10, <1>11, <1>12 DEF LedgerInv

LEMMA FlushedLedger == ASSUME StoreInv, LedgerInv, Flushed PROVE LedgerInv'
<1>1. /\ UNCHANGED <<file, saved, from, handled, current>> /\ proc = "flushing"
      /\ proc' = "saving" /\ unwritten = 0 /\ mem' = Checkpointed(mem, current, Len(file))
  BY DEF Flushed
<1>2. /\ file \in Seq(Cells) /\ Len(file) \in Nat /\ current \in Records
      /\ current.width \in Nat /\ current.host \in Hosts /\ Written \in 0 .. Len(file)
      /\ Before = Len(file) - Written /\ Before \in Nat /\ mem.position \in Nat
      /\ Written = Buffered(current)
      /\ \A k \in 1 .. Written : file[Before + k] = Cell(current, k)
  <2>1. current \in Records /\ current.width \in Nat /\ Buffered(current) \in Nat
    BY <1>1, RecordWidth DEF StoreInv, Buffered
  <2> QED BY <1>1, <2>1, Types DEF StoreInv, Written, Before
<1>3. /\ mem'.completed = IF current.complete THEN mem.completed \cup {current.host}
                                              ELSE mem.completed
      /\ mem'.position = IF current.complete THEN Len(file) ELSE mem.position
      /\ mem'.exists
  BY <1>1 DEF Checkpointed, LedgerInv, EachHostOnce
<1>4. /\ mem.position <= Before /\ WholeUpTo(file, Before) /\ WholeUpTo(file, mem.position)
      /\ \A i \in 1 .. Before : CompleteAt(file, i) =>
           i <= mem.position /\ file[i].rec.host \in mem.completed
  BY <1>1 DEF LedgerInv, WrittenIsWhole, Running
<1>5. WholeUpTo(file, Len(file))
  <2>1. CASE Written = current.width
    <3>1. WholeUpTo(file, Before + current.width)
      BY <1>2, <1>4, <2>1, WholeWithRecord
    <3> QED BY <1>2, <2>1, <3>1
  <2>2. CASE Written # current.width
    <3>1. Written = 0
      BY <1>2, <2>2 DEF Buffered
    <3> QED BY <1>2, <1>4, <3>1
  <2> QED BY <2>1, <2>2
<1>6. \A i \in 1 .. Len(file) : i > Before => file[i].rec = current
  <2> SUFFICES ASSUME NEW i \in 1 .. Len(file), i > Before PROVE file[i].rec = current
    OBVIOUS
  <2>1. i - Before \in 1 .. Written /\ Before + (i - Before) = i
    <3>1. i \in Nat /\ i <= Before + Written /\ Written \in Nat /\ Before \in Nat
      BY <1>2
    <3> QED BY <3>1
  <2>2. file[i] = Cell(current, i - Before)
    BY <1>2, <2>1
  <2> QED BY <2>2 DEF Cell
<1>7. SavedIsWhole' /\ SavedIsThere' /\ NoCompletedTwice'
  BY <1>1 DEF LedgerInv, SavedIsWhole, SavedIsThere, NoCompletedTwice
<1>8. WrittenIsWhole'
  <2>1. Before' = Len(file) /\ mem'.position <= Len(file) /\ mem'.position \in Nat
    BY <1>1, <1>2, <1>3, <1>4 DEF Before
  <2>2. WholeUpTo(file, mem'.position)
    BY <1>3, <1>4, <1>5
  <2>3. \A i \in 1 .. Len(file) : CompleteAt(file, i) =>
          i <= mem'.position /\ file[i].rec.host \in mem'.completed
    <3> SUFFICES ASSUME NEW i \in 1 .. Len(file), CompleteAt(file, i)
                 PROVE  i <= mem'.position /\ file[i].rec.host \in mem'.completed
      OBVIOUS
    <3>1. CASE i <= Before
      <4>1. i <= mem.position /\ file[i].rec.host \in mem.completed
        BY <1>2, <1>4, <3>1
      <4> QED BY <1>2, <1>3, <4>1
    <3>2. CASE i > Before
      BY <1>2, <1>3, <1>6, <3>2 DEF CompleteAt
    <3> QED BY <1>2, <3>1, <3>2
  <2> QED BY <1>1, <1>5, <2>1, <2>2, <2>3 DEF WrittenIsWhole
<1>9. EachHostOnce'
  BY <1>1, <1>3 DEF LedgerInv, EachHostOnce, Running
<1>10. SavedFollows'
  <2>1. /\ current.host \notin mem.completed /\ mem.completed = saved.completed
        /\ mem.position = saved.position
    BY <1>1 DEF LedgerInv, EachHostOnce, SavedFollows
  <2>2. \A i \in 1 .. Len(file) :
          CompleteAt(file, i) /\ i > saved.position => file[i].rec.host = current.host
    <3> SUFFICES ASSUME NEW i \in 1 .. Len(file), CompleteAt(file, i), i > saved.position
                 PROVE  i > Before
      BY <1>6
    <3>1. ~(i <= mem.position)
      BY <1>2, <2>1
    <3>2. ~(i \in 1 .. Before)
      BY <1>4, <3>1
    <3> QED BY <1>2, <3>2
  <2> QED BY <1>1, <1>2, <1>3, <2>1, <2>2 DEF SavedFollows
<1> QED BY <1>7, <1>8, <1>9, <1>10 DEF LedgerInv

\* The checkpoint on disk becomes the one in memory.
LEMMA SaveLedger == ASSUME StoreInv, LedgerInv, SaveCheckpoint \/ FinishRun PROVE LedgerInv'
<1>1. /\ UNCHANGED <<file, mem, from, handled>> /\ proc \in {"saving", "scanning"}
      /\ proc' \in {"scanning", "ended"} /\ saved' = mem
  BY DEF SaveCheckpoint, FinishRun
<1>2. Before = Len(file) /\ Before' = Len(file)
  BY <1>1 DEF Before
<1>3. /\ mem.position <= Len(file) /\ WholeUpTo(file, mem.position) /\ mem.exists
      /\ \A i \in 1 .. Len(file) : CompleteAt(file, i) => file[i].rec.host \in mem.completed
      /\ mem.position \in Nat /\ Len(file) \in Nat
  BY <1>1, <1>2, Types DEF LedgerInv, WrittenIsWhole, SavedFollows, Running
<1>4. SavedIsWhole' /\ SavedIsThere'
  <2>1. \A i \in 1 .. mem.position : i \in 1 .. Len(file)
    BY <1>3
  <2> QED BY <1>1, <1>3, <2>1 DEF SavedIsWhole, SavedIsThere
<1>5. WrittenIsWhole' /\ EachHostOnce' /\ NoCompletedTwice'
  BY <1>1, <1>2 DEF LedgerInv, WrittenIsWhole, EachHostOnce, NoCompletedTwice, Running
<1>6. SavedFollows'
  BY <1>1, <1>3 DEF SavedFollows, Running
<1> QED BY <1>4, <1>5, <1>6 DEF LedgerInv

LEMMA StepLedger ==
  ASSUME ~ReuseCheckpoint, StoreInv, LedgerInv, [Next]_vars PROVE LedgerInv'
<1>1. CASE StartFresh
  <2>1. ~saved.exists /\ \E asked \in BOOLEAN : Begin(Fresh, << >>, asked)
    BY <1>1 DEF StartFresh
  <2>2. /\ << >> \in Seq(Cells) /\ Len(<< >>) = 0 /\ Fresh.position = 0 /\ Len(file) \in Nat
        /\ WholeUpTo(<< >>, 0) /\ 1 .. 0 = {}
    BY Types DEF Fresh, WholeUpTo
  <2> DEFINE kept == << >>
  <2>3. /\ kept \in Seq(Cells) /\ Fresh.position = Len(kept) /\ Len(kept) <= Len(file)
        /\ WholeUpTo(kept, Len(kept)) /\ (\E asked \in BOOLEAN : Begin(Fresh, kept, asked))
        /\ 1 .. Len(kept) = {}
    BY <2>1, <2>2
  <2> HIDE DEF kept
  <2> QED BY <2>1, <2>3, FreshIsCheckpoint, BeginLedger
<1>2. CASE StartResume
  <2> DEFINE kept == SubSeq(file, 1, saved.position)
  <2>1. /\ saved.exists /\ saved.position \in 0 .. Len(file)
        /\ \E asked \in BOOLEAN : Begin(saved, kept, asked)
        /\ file \in Seq(Cells) /\ saved \in Checkpoints
    BY <1>2, Types DEF StartResume, Resumable, CutBack
  <2>2. /\ kept \in Seq(Cells) /\ Len(kept) = saved.position /\ Len(kept) <= Len(file)
        /\ \A i \in 1 .. Len(kept) : kept[i] = file[i]
    BY <2>1
  <2>3. /\ WholeUpTo(file, saved.position)
        /\ \A i \in 1 .. saved.position :
             CompleteAt(file, i) => file[i].rec.host \in saved.completed
    BY <2>1 DEF LedgerInv, SavedIsWhole
  <2> HIDE DEF kept
  <2>4. WholeUpTo(kept, Len(kept))
    BY <2>1, <2>2, <2>3, WholeWhereSame
  <2>5. \A i \in 1 .. Len(kept) : CompleteAt(kept, i) => kept[i].rec.host \in saved.completed
    BY <2>2, <2>3 DEF CompleteAt
  <2> QED BY <2>1, <2>2, <2>4, <2>5, BeginLedger
<1>3. CASE RefuseResume
  <2>1. saved' = saved /\ ~Running'
    BY <1>3 DEF RefuseResume, Running
  <2>2. PICK n \in 0 .. Len(file) :
          /\ file' = SubSeq(file, 1, n)
          /\ saved.exists /\ saved.position <= Len(file) => saved.position <= n
    <3>1. file = SubSeq(file, 1, Len(file)) /\ Len(file) \in 0 .. Len(file)
      BY Types
    <3> QED BY <1>3, <3>1, Types DEF RefuseResume, CutBack
  <2>3. ~PowerLoss /\ saved.exists => saved.position <= n
    BY <2>2 DEF LedgerInv, SavedIsThere
  <2> QED BY <2>1, <2>2, <2>3, CutLedger
<1>4. ASSUME NEW rec \in Records, PersistHost(rec) PROVE LedgerInv'
  BY <1>4, PersistHostLedger
<1>5. CASE DrainBuffer
  BY <1>5, DrainBufferLedger
<1>6. CASE Flushed
  BY <1>6, FlushedLedger
<1>7. CASE SaveCheckpoint \/ FinishRun
  BY <1>7, SaveLedger
<1>8. CASE Cancel \/ Rest \/ UNCHANGED vars
  <2>1. UNCHANGED <<file, saved, proc, mem, from, handled, current, unwritten>>
    BY <1>8 DEF Cancel, Rest, vars
  <2>2. Before' = Before /\ Running' = Running
    BY <2>1 DEF Before, Written, Running
  <2> QED BY <2>1, <2>2
          DEF LedgerInv, SavedIsWhole, WrittenIsWhole, EachHostOnce, SavedFollows,
              SavedIsThere, NoCompletedTwice
<1>9. CASE Crash
  <2>1. saved' = saved /\ ~Running'
    BY <1>9 DEF Crash, Running
  <2>2. file = SubSeq(file, 1, Len(file)) /\ Len(file) \in 0 .. Len(file)
    BY Types
  <2>3. PICK n \in 0 .. Len(file) : file' = SubSeq(file, 1, n) /\ (~PowerLoss => n = Len(file))
    BY <1>9, <2>2 DEF Crash
  <2>4. ~PowerLoss /\ saved.exists => saved.position <= n
    BY <2>3 DEF LedgerInv, SavedIsThere
  <2> QED BY <2>1, <2>3, <2>4, CutLedger
<1> QED BY <1>1, <1>2, <1>3, <1>4, <1>5, <1>6, <1>7, <1>8, <1>9 DEF Next, ProcessStep

-----------------------------------------------------------------------------
\* Both halves of the inductive invariant hold throughout.
THEOREM LedgerInvariant == ASSUME ~ReuseCheckpoint PROVE Spec => [](StoreInv /\ LedgerInv)
<1>1. Init => StoreInv /\ LedgerInv
  BY InitStore, InitLedger
<1>2. (StoreInv /\ LedgerInv) /\ [Next]_vars => (StoreInv /\ LedgerInv)'
  BY StepStore, StepLedger
<1> QED BY <1>1, <1>2, PTL DEF Spec

\* Between two hosts the output is whole lines, whatever earlier runs left behind: no resume
\* of open_at appends to half a record, for any record lengths and any loss of power.
THEOREM OutputAlwaysParses == ASSUME ~ReuseCheckpoint PROVE Spec => []OutputParses
<1>1. StoreInv /\ LedgerInv => OutputParses
  <2> SUFFICES ASSUME StoreInv, LedgerInv, proc = "scanning" PROVE WholeRecords(file)
    BY DEF OutputParses
  <2>1. WholeUpTo(file, Len(file))
    BY DEF LedgerInv, WrittenIsWhole, Before, Running
  <2> QED BY <2>1 DEF WholeUpTo, WholeRecords
<1> QED BY <1>1, LedgerInvariant, PTL

\* No host is in the output twice as completed, over any number of runs: what a run sweeps
\* again had no complete record in what the resume kept.
THEOREM NoHostCompletedTwice == ASSUME ~ReuseCheckpoint PROVE Spec => []NoCompletedTwice
<1>1. LedgerInv => NoCompletedTwice
  BY DEF LedgerInv
<1> QED BY <1>1, LedgerInvariant, PTL

-----------------------------------------------------------------------------
\* A complete record of h lies in the first n cells of f.
HasRecord(f, h, n) ==
  \E r \in Records : \E i \in 1 .. Len(f) :
    /\ r.host = h /\ r.complete
    /\ RecordAt(f, r, i)
    /\ i + r.width <= n + 1

LEMMA PublishedHaveRecords ==
  Published = {h \in saved.completed : HasRecord(file, h, saved.position)}
BY DEF Published, HasRecord

\* What lies in the first n cells is found wherever these are the same.
LEMMA HasRecordWhereSame ==
  ASSUME NEW f \in Seq(Cells), NEW g \in Seq(Cells), NEW n \in Nat, n <= Len(g),
         \A i \in 1 .. n : g[i] = f[i], NEW h, HasRecord(f, h, n)
  PROVE  HasRecord(g, h, n)
<1>1. PICK r \in Records, i \in 1 .. Len(f) :
        r.host = h /\ r.complete /\ RecordAt(f, r, i) /\ i + r.width <= n + 1
  BY DEF HasRecord
<1>2. r.width \in Nat /\ r.width > 0 /\ Len(g) \in Nat
  BY RecordWidth
<1>3. i \in 1 .. Len(g) /\ i + r.width <= Len(g) + 1
  BY <1>1, <1>2
<1>4. \A k \in 1 .. r.width : g[i + k - 1] = Cell(r, k)
  <2> SUFFICES ASSUME NEW k \in 1 .. r.width PROVE g[i + k - 1] = Cell(r, k)
    OBVIOUS
  <2>1. i + k - 1 \in 1 .. n
    BY <1>1, <1>2
  <2> QED BY <1>1, <2>1 DEF RecordAt
<1>5. RecordAt(g, r, i)
  BY <1>3, <1>4 DEF RecordAt
<1> QED BY <1>1, <1>3, <1>5 DEF HasRecord

\* While the checkpoint stays, so does what it protects, unless power is lost.
LEMMA SavedKeepsPublished ==
  ASSUME ~ReuseCheckpoint, StoreInv, LedgerInv, StoreInv', LedgerInv', [Next]_vars,
         saved' = saved, ~LosesOutput
  PROVE  Published' = Published
<1>1. /\ file \in Seq(Cells) /\ file' \in Seq(Cells) /\ saved.position \in Nat
  BY DEF StoreInv, TypeOK, Checkpoints
<1>2. CASE ~saved.exists
  <2>1. saved.completed = {}
    BY <1>2 DEF LedgerInv, SavedIsWhole, Fresh
  <2> QED BY <2>1 DEF Published
<1>3. CASE file' = file
  BY <1>3 DEF Published
<1>4. CASE saved.exists /\ file' # file
  <2>1. \/ DrainBuffer
        \/ saved.position <= Len(file) /\ file' = SubSeq(file, 1, saved.position)
        \/ Crash /\ \E n \in 0 .. Len(file) : file' = SubSeq(file, 1, n)
    BY <1>4
       DEF Next, ProcessStep, StartFresh, StartResume, RefuseResume, Resumable, Begin, CutBack,
           PersistHost, Flushed, SaveCheckpoint, FinishRun, Cancel, Crash, Rest, vars
  <2>2. /\ saved.position <= Len(file) /\ saved.position <= Len(file')
        /\ \A i \in 1 .. saved.position : file'[i] = file[i]
    <3>1. CASE DrainBuffer
      <4>1. current \in Records /\ current.width \in Nat /\ unwritten \in 1 .. current.width
        BY <3>1, RecordWidth DEF DrainBuffer, StoreInv, TypeOK
      <4>2. Cell(current, current.width - unwritten + 1) \in Cells
        BY <4>1, CellType
      <4>3. saved.position <= Len(file)
        BY <1>4, <3>1 DEF DrainBuffer, StoreInv, Running
      <4> QED BY <1>1, <3>1, <4>2, <4>3 DEF DrainBuffer
    <3>2. CASE saved.position <= Len(file) /\ file' = SubSeq(file, 1, saved.position)
      BY <1>1, <3>2
    <3>3. CASE Crash /\ \E n \in 0 .. Len(file) : file' = SubSeq(file, 1, n)
      <4>1. PICK n \in 0 .. Len(file) : file' = SubSeq(file, 1, n)
        BY <3>3
      <4>2. Len(file') = n /\ \A i \in 1 .. n : file'[i] = file[i]
        BY <1>1, <4>1
      <4>3. saved.position <= Len(file')
        BY <1>1, <3>3 DEF LosesOutput, OutputLost
      <4> QED BY <1>1, <4>2, <4>3
    <3> QED BY <2>1, <3>1, <3>2, <3>3
  <2>3. \A h : HasRecord(file, h, saved.position) => HasRecord(file', h, saved.position)
    BY <1>1, <2>2, HasRecordWhereSame
  <2>4. \A h : HasRecord(file', h, saved.position) => HasRecord(file, h, saved.position)
    BY <1>1, <2>2, HasRecordWhereSame
  <2>5. Published' = {h \in saved'.completed : HasRecord(file', h, saved'.position)}
    BY DEF Published, HasRecord
  <2> QED BY <2>3, <2>4, <2>5, PublishedHaveRecords
<1> QED BY <1>2, <1>3, <1>4

\* Saving the checkpoint finishes the host in persist_host, if it is complete.
LEMMA SaveFinishesHost ==
  ASSUME StoreInv, LedgerInv, SaveCheckpoint, current.complete
  PROVE  Ledger!FinishHost(current.host)
<1>1. /\ file' = file /\ saved' = mem /\ proc = "saving"
      /\ file \in Seq(Cells) /\ Len(file) \in Nat /\ saved.position \in Nat
      /\ saved.exists => saved.position <= Len(file)
  BY Types DEF SaveCheckpoint, StoreInv, Running
<1>2. /\ current.host \in Hosts \ saved.completed
      /\ mem.completed = saved.completed \cup {current.host} /\ mem.position = Len(file)
      /\ \A i \in 1 .. Len(file) :
           CompleteAt(file, i) /\ i > saved.position => file[i].rec.host = current.host
  BY <1>1 DEF LedgerInv, SavedFollows
<1>3. Published' = {h \in mem.completed : HasRecord(file, h, Len(file))}
  BY <1>1, <1>2 DEF Published, HasRecord
<1>4. ASSUME NEW h \in saved.completed
      PROVE  HasRecord(file, h, Len(file)) <=> HasRecord(file, h, saved.position)
  <2>1. saved.exists /\ saved.position <= Len(file) /\ WholeUpTo(file, saved.position)
    BY <1>1 DEF LedgerInv, SavedIsWhole, Fresh
  <2>2. ASSUME HasRecord(file, h, saved.position) PROVE HasRecord(file, h, Len(file))
    <3>1. PICK r \in Records, i \in 1 .. Len(file) :
            /\ r.host = h /\ r.complete /\ RecordAt(file, r, i)
            /\ i + r.width <= saved.position + 1
      BY <2>2 DEF HasRecord
    <3>2. i + r.width <= Len(file) + 1
      BY <3>1 DEF RecordAt
    <3> QED BY <3>1, <3>2 DEF HasRecord
  <2>3. ASSUME HasRecord(file, h, Len(file)) PROVE HasRecord(file, h, saved.position)
    <3>1. PICK r \in Records, i \in 1 .. Len(file) :
            r.host = h /\ r.complete /\ RecordAt(file, r, i)
      BY <2>3 DEF HasRecord
    <3>2. CompleteAt(file, i) /\ file[i].rec.host = h
      BY <3>1, RecordStarts
    <3>3. i \in 1 .. saved.position
      BY <1>1, <1>2, <3>2
    <3>4. i + r.width <= saved.position + 1
      BY <1>1, <2>1, <3>1, <3>3, RecordEndsInside
    <3> QED BY <3>1, <3>4 DEF HasRecord
  <2> QED BY <2>2, <2>3
<1>5. Published' \in {Published, Published \cup {current.host}}
  <2>1. CASE HasRecord(file, current.host, Len(file))
    BY <1>2, <1>3, <1>4, <2>1, PublishedHaveRecords
  <2>2. CASE ~HasRecord(file, current.host, Len(file))
    BY <1>2, <1>3, <1>4, <2>2, PublishedHaveRecords
  <2> QED BY <2>1, <2>2
<1> QED BY <1>1, <1>2, <1>5 DEF Ledger!FinishHost

LEMMA StepIsLedger ==
  ASSUME ~ReuseCheckpoint, StoreInv, LedgerInv, StoreInv', LedgerInv', [Next]_vars
  PROVE  LosesOutput \/ [Ledger!Next]_(Ledger!vars)
<1>1. CASE saved' = saved
  BY <1>1, SavedKeepsPublished DEF Ledger!vars
<1>2. CASE SaveCheckpoint /\ current.complete
  <2>1. current.host \in Hosts
    BY <1>2 DEF SaveCheckpoint, LedgerInv, SavedFollows
  <2> QED BY <1>2, <2>1, SaveFinishesHost DEF Ledger!Next
<1>3. CASE (SaveCheckpoint /\ ~current.complete) \/ FinishRun
  <2>1. saved'.completed = saved.completed /\ saved'.position = saved.position /\ file' = file
    BY <1>3 DEF SaveCheckpoint, FinishRun, LedgerInv, SavedFollows
  <2>2. Published' = Published
    BY <2>1 DEF Published
  <2> QED BY <2>1, <2>2 DEF Ledger!vars
<1>4. saved' = saved \/ SaveCheckpoint \/ FinishRun
  BY DEF Next, ProcessStep, StartFresh, StartResume, RefuseResume, Begin, PersistHost,
         DrainBuffer, Flushed, Cancel, Crash, Rest, vars
<1> QED BY <1>1, <1>2, <1>3, <1>4

\* Crashes, cancels, partial hosts and resumes never lose a completed host or its record, and
\* finish no host twice: a scan with a checkpoint is a ledger that only grows, but for a loss
\* of power that takes output the checkpoint names (runtime/mod.rs:69 syncs the one only).
THEOREM StoreKeepsLedger == ASSUME ~ReuseCheckpoint PROVE Spec => KeepsLedger
<1>1. Init => Ledger!Init
  BY DEF Init, Fresh, Published, Ledger!Init
<1>2. /\ StoreInv /\ LedgerInv /\ (StoreInv /\ LedgerInv)' /\ [Next]_vars
      => [LosesOutput \/ Ledger!Next]_(Ledger!vars)
  BY StepIsLedger
<1> QED BY <1>1, <1>2, LedgerInvariant, PTL DEF Spec, KeepsLedger

\* On a machine that keeps what was written there is no such exception, whatever the process
\* does: the store implements the ledger.
THEOREM StoreIsLedger == ASSUME ~ReuseCheckpoint, ~PowerLoss PROVE Spec => Ledger!Spec
<1>1. Init => Ledger!Init
  BY DEF Init, Fresh, Published, Ledger!Init
<1>2. (StoreInv /\ LedgerInv)' => ~OutputLost'
  <2> SUFFICES ASSUME StoreInv', LedgerInv' PROVE saved'.position <= Len(file')
    BY DEF OutputLost, StoreInv, TypeOK, Checkpoints
  <2>1. CASE saved'.exists
    BY <2>1 DEF LedgerInv, SavedIsThere
  <2>2. CASE ~saved'.exists
    <3>1. saved'.position = 0 /\ Len(file') \in Nat
      BY <2>2 DEF LedgerInv, SavedIsWhole, Fresh, StoreInv, TypeOK
    <3> QED BY <3>1
  <2> QED BY <2>1, <2>2
<1>3. /\ StoreInv /\ LedgerInv /\ (StoreInv /\ LedgerInv)' /\ [Next]_vars
      => [Ledger!Next]_(Ledger!vars)
  BY <1>2, StepIsLedger DEF LosesOutput
<1> QED BY <1>1, <1>3, LedgerInvariant, PTL DEF Spec, Ledger!Spec

-----------------------------------------------------------------------------
\* A set of natural numbers that is not empty has a least one: the induction by which the
\* services of a file are what they are said to be.
LEMMA LeastNumber ==
  ASSUME NEW S \in SUBSET Nat, S # {}
  PROVE  \E n \in S : \A m \in S : n <= m
<1>1. PICK n \in S : \A m \in S : ~ (<<m, n>> \in OpToRel(<, Nat))
  BY WFMin, NatLessThanWellFounded, Zenon
<1>2. ASSUME NEW m \in S, m < n PROVE FALSE
  <2>1. <<m, n>> \in Nat \X Nat /\ <<m, n>>[1] < <<m, n>>[2]
    BY <1>2
  <2>2. <<m, n>> \in OpToRel(<, Nat)
    BY <2>1, Zenon DEF OpToRel
  <2> QED BY <1>1, <2>2
<1> QED BY <1>2

\* The services of the first n cells follow from those of the first n - 1.  Some function
\* has this for each n, so ServicesUpTo, which is such a function if there is one, has it.
Extends(g, f, n) ==
  g[n] = IF n = 0 THEN <<>>
         ELSE IF f[n].k = 1 /\ f[n].rec.open THEN Append(g[n - 1], f[n].rec)
         ELSE g[n - 1]
UpTo(g, f, m) == \A n \in 0 .. m : Extends(g, f, n)

\* There is a function of the services up to any length.
LEMMA ServicesExist ==
  ASSUME NEW f, NEW m \in Nat
  PROVE  \E g : g = [n \in 0 .. m |-> g[n]] /\ UpTo(g, f, m)
<1> DEFINE Bad == {k \in Nat : ~ \E g : g = [n \in 0 .. k |-> g[n]] /\ UpTo(g, f, k)}
<1>1. SUFFICES ASSUME Bad # {} PROVE FALSE
  OBVIOUS
<1>2. PICK k \in Bad : \A j \in Bad : k <= j
  <2>1. Bad \in SUBSET Nat
    OBVIOUS
  <2> HIDE DEF Bad
  <2> QED BY <1>1, <2>1, LeastNumber
<1>3. k # 0
  <2>1. [n \in 0 .. 0 |-> <<>>] = [n \in 0 .. 0 |-> [i \in 0 .. 0 |-> <<>>][n]]
    OBVIOUS
  <2>2. UpTo([n \in 0 .. 0 |-> <<>>], f, 0)
    BY DEF UpTo, Extends
  <2> QED BY <2>1, <2>2
<1>4. PICK g : g = [n \in 0 .. k - 1 |-> g[n]] /\ UpTo(g, f, k - 1)
  <2>1. k - 1 \in Nat /\ ~ (k <= k - 1)
    BY <1>3
  <2>2. k - 1 \notin Bad
    BY <1>2, <2>1
  <2> QED BY <2>1, <2>2
<1> DEFINE next == IF f[k].k = 1 /\ f[k].rec.open THEN Append(g[k - 1], f[k].rec)
                   ELSE g[k - 1]
           h == [n \in 0 .. k |-> IF n = k THEN next ELSE g[n]]
<1>5. h = [n \in 0 .. k |-> h[n]]
  OBVIOUS
<1>6. ASSUME NEW n \in 0 .. k PROVE Extends(h, f, n)
  <2>1. CASE n = k
    <3>1. h[n] = next /\ h[k - 1] = g[k - 1]
      BY <1>3, <2>1
    <3> QED BY <1>3, <2>1, <3>1 DEF Extends
  <2>2. CASE n # k
    <3>1. n \in 0 .. k - 1 /\ h[n] = g[n] /\ (n # 0 => h[n - 1] = g[n - 1])
      BY <2>2
    <3> QED BY <1>4, <3>1 DEF UpTo, Extends
  <2> QED BY <2>1, <2>2
<1> HIDE DEF h
<1> QED BY <1>5, <1>6 DEF UpTo

\* ServicesUpTo is one.
LEMMA ServicesUnfold ==
  ASSUME NEW f \in Seq(Cells)
  PROVE  /\ DOMAIN ServicesUpTo(f) = 0 .. Len(f)
         /\ UpTo(ServicesUpTo(f), f, Len(f))
<1> DEFINE Unfolded(g) ==
             [n \in 0 .. Len(f) |->
                IF n = 0 THEN <<>>
                ELSE IF f[n].k = 1 /\ f[n].rec.open THEN Append(g[n - 1], f[n].rec)
                ELSE g[n - 1]]
<1>1. PICK g : g = [n \in 0 .. Len(f) |-> g[n]] /\ UpTo(g, f, Len(f))
  <2>1. Len(f) \in Nat
    OBVIOUS
  <2> QED BY <2>1, ServicesExist
<1>2. g = Unfolded(g)
  BY <1>1 DEF UpTo, Extends
<1>3. ServicesUpTo(f) = CHOOSE h : h = Unfolded(h)
  BY DEF ServicesUpTo
<1> HIDE DEF Unfolded
<1>4. ServicesUpTo(f) = Unfolded(ServicesUpTo(f))
  BY <1>2, <1>3, Zenon
<1> QED BY <1>4 DEF Unfolded, UpTo, Extends

\* The services of the cells of f are not changed by one that comes behind them...
LEMMA ServicesKeep ==
  ASSUME NEW f \in Seq(Cells), NEW c \in Cells, NEW m \in 0 .. Len(f)
  PROVE  ServicesUpTo(Append(f, c))[m] = ServicesUpTo(f)[m]
<1> DEFINE e == Append(f, c)
           Bad == {n \in 0 .. Len(f) : ServicesUpTo(e)[n] # ServicesUpTo(f)[n]}
<1>1. /\ e \in Seq(Cells) /\ Len(f) \in Nat /\ Len(e) = Len(f) + 1
      /\ \A i \in 1 .. Len(f) : e[i] = f[i]
  OBVIOUS
<1>2. SUFFICES ASSUME Bad # {} PROVE FALSE
  OBVIOUS
<1>3. PICK n \in Bad : \A j \in Bad : n <= j
  <2>1. Bad \in SUBSET Nat
    BY <1>1
  <2> HIDE DEF Bad
  <2> QED BY <1>2, <2>1, LeastNumber
<1>4. n \in 0 .. Len(f) /\ n \in 0 .. Len(e)
  BY <1>1, <1>3
<1> HIDE DEF e
<1>5. Extends(ServicesUpTo(f), f, n) /\ Extends(ServicesUpTo(e), e, n)
  BY <1>1, <1>4, ServicesUnfold DEF UpTo
<1>6. CASE n = 0
  BY <1>3, <1>5, <1>6 DEF Extends
<1>7. CASE n # 0
  <2>1. n \in 1 .. Len(f) /\ n - 1 \in 0 .. Len(f) /\ ~ (n <= n - 1)
    BY <1>1, <1>4, <1>7
  <2>2. ServicesUpTo(e)[n - 1] = ServicesUpTo(f)[n - 1]
    BY <1>3, <2>1
  <2>3. e[n] = f[n]
    BY <1>1, <2>1
  <2> QED BY <1>3, <1>5, <1>7, <2>2, <2>3 DEF Extends
<1> QED BY <1>6, <1>7

\* ... so that it adds its own, if it is the first of a record with open ports.
LEMMA ServicesAppend ==
  ASSUME NEW f \in Seq(Cells), NEW c \in Cells
  PROVE  ServiceLines(Append(f, c)) =
           IF c.k = 1 /\ c.rec.open THEN Append(ServiceLines(f), c.rec) ELSE ServiceLines(f)
<1> DEFINE e == Append(f, c)
<1>1. /\ e \in Seq(Cells) /\ Len(f) \in Nat /\ Len(e) = Len(f) + 1 /\ e[Len(e)] = c
      /\ Len(e) \in 0 .. Len(e) /\ Len(f) \in 0 .. Len(f) /\ Len(e) # 0 /\ Len(e) - 1 = Len(f)
  OBVIOUS
<1>2. ServicesUpTo(e)[Len(f)] = ServicesUpTo(f)[Len(f)]
  BY <1>1, ServicesKeep
<1> HIDE DEF e
<1>3. Extends(ServicesUpTo(e), e, Len(e))
  BY <1>1, ServicesUnfold DEF UpTo
<1>4. ServiceLines(e) = IF c.k = 1 /\ c.rec.open THEN Append(ServiceLines(f), c.rec)
                        ELSE ServiceLines(f)
  BY <1>1, <1>2, <1>3 DEF Extends, ServiceLines
<1> QED BY <1>4 DEF e

-----------------------------------------------------------------------------
\* The derived writers follow the JSONL: while a record is flushed they already have it, and
\* the file has it from its first cell on.
DerivedInv ==
  /\ file \in Seq(Cells) /\ saved \in Checkpoints /\ (Running => mem \in Checkpoints)
  /\ proc = "flushing" =>
       current \in Records /\ unwritten \in 0 .. Buffered(current)
  /\ derives \in BOOLEAN
  /\ derives =>
       /\ proc \in {"scanning", "saving"} => derived = ServiceLines(file)
       /\ proc = "flushing" =>
            derived = IF current.open /\ unwritten = current.width
                      THEN Append(ServiceLines(file), current) ELSE ServiceLines(file)
       /\ proc = "ended" => derivedDisk = ServiceLines(file)

LEMMA InitDerived == Init => DerivedInv
<1>1. Init => derives = FALSE /\ derives \in BOOLEAN
  BY Zenon DEF Init
<1>2. Init => file \in Seq(Cells) /\ saved \in Checkpoints /\ proc = "down"
  BY FreshIsCheckpoint DEF Init
<1> QED BY <1>1, <1>2 DEF DerivedInv, Running

\* A run begins with the derived outputs rebuilt from what is kept.
LEMMA BeginDerived ==
  ASSUME DerivedInv, NEW ck \in Checkpoints, NEW kept \in Seq(Cells), NEW asked \in BOOLEAN,
         Begin(ck, kept, asked)
  PROVE  DerivedInv'
<1>1. [ck EXCEPT !.exists = TRUE] \in Checkpoints
  BY DEF Checkpoints
<1> QED BY <1>1 DEF DerivedInv, Begin, Rebuilt, Running

LEMMA StepDerived == DerivedInv /\ [Next]_vars => DerivedInv'
<1> SUFFICES ASSUME DerivedInv, [Next]_vars PROVE DerivedInv'
  OBVIOUS
<1>1. CASE StartFresh
  <2>1. << >> \in Seq(Cells)
    OBVIOUS
  <2> QED BY <1>1, <2>1, FreshIsCheckpoint, BeginDerived DEF StartFresh
<1>2. CASE StartResume
  <2>1. saved.position \in 0 .. Len(file) /\ saved \in Checkpoints /\ file \in Seq(Cells)
    BY <1>2 DEF StartResume, Resumable, DerivedInv, Checkpoints
  <2>2. CutBack(file, saved.position) \in Seq(Cells)
    BY <2>1 DEF CutBack
  <2> QED BY <1>2, <2>1, <2>2, BeginDerived DEF StartResume
<1>3. CASE RefuseResume
  <2>1. file' \in Seq(Cells)
    BY <1>3 DEF RefuseResume, CutBack, DerivedInv, Checkpoints
  <2> QED BY <1>3, <2>1 DEF RefuseResume, DerivedInv, Running
<1>4. ASSUME NEW r \in Records, PersistHost(r) PROVE DerivedInv'
  <2>1. r.width \in Nat /\ r.width > 0
    BY RecordWidth
  <2>2. Buffered(r) \in 0 .. r.width /\ (r.open => Buffered(r) = r.width)
        /\ (Buffered(r) = r.width => KeepsHost(r))
    BY <2>1 DEF Buffered, KeepsHost
  <2>3. current' = r /\ unwritten' = Buffered(r) /\ proc' = "flushing" /\ proc = "scanning"
        /\ file' = file /\ saved' = saved /\ mem' = mem /\ derives' = derives
        /\ Buffered(current') = Buffered(r)
        /\ derived' = IF derives /\ r.open THEN Append(derived, r) ELSE derived
    BY <1>4 DEF PersistHost, Buffered, KeepsHost
  <2>4. unwritten' \in 0 .. Buffered(current')
    BY <2>1, <2>2, <2>3
  <2>5. derives => derived = ServiceLines(file)
    BY <2>3 DEF DerivedInv
  <2>6. derives =>
          derived' = IF current'.open /\ unwritten' = current'.width
                     THEN Append(ServiceLines(file'), current') ELSE ServiceLines(file')
    BY <2>2, <2>3, <2>5
  <2> QED BY <2>3, <2>4, <2>6 DEF DerivedInv, Running
<1>5. CASE DrainBuffer
  <2> DEFINE c == Cell(current, current.width - unwritten + 1)
  <2>1. /\ current \in Records /\ unwritten \in 0 .. Buffered(current) /\ unwritten > 0
        /\ file \in Seq(Cells) /\ proc = "flushing"
    BY <1>5 DEF DrainBuffer, DerivedInv
  <2>2. current.width \in Nat /\ Buffered(current) \in 0 .. current.width
    BY <2>1, RecordWidth DEF Buffered
  <2>3. c \in Cells
    BY <2>1, <2>2, CellType
  <2>4. /\ file' = Append(file, c) /\ unwritten' = unwritten - 1 /\ current' = current
        /\ derived' = derived /\ derives' = derives
        /\ saved' = saved /\ mem' = mem /\ proc' = proc
    BY <1>5 DEF DrainBuffer
  <2>5. /\ file' \in Seq(Cells) /\ unwritten' \in 0 .. Buffered(current)
        /\ unwritten' # current.width
    BY <2>1, <2>2, <2>3, <2>4
  <2>6. Buffered(current') = Buffered(current)
    BY <2>4 DEF Buffered, KeepsHost
  <2>7. c.k = 1 <=> unwritten = current.width
    BY <2>1, <2>2 DEF Cell
  <2>8. c.rec = current
    BY DEF Cell
  <2> HIDE DEF c
  <2>9. ServiceLines(file') = IF unwritten = current.width /\ current.open
                              THEN Append(ServiceLines(file), current) ELSE ServiceLines(file)
    BY <2>1, <2>3, <2>4, <2>7, <2>8, ServicesAppend
  <2>10. derives => derived' = ServiceLines(file')
    BY <2>1, <2>4, <2>9 DEF DerivedInv
  <2> QED BY <2>1, <2>4, <2>5, <2>6, <2>10 DEF DerivedInv, Running
<1>6. CASE Flushed
  <2>1. /\ current \in Records /\ unwritten = 0 /\ file \in Seq(Cells) /\ mem \in Checkpoints
        /\ proc = "flushing"
    BY <1>6 DEF Flushed, DerivedInv, Running
  <2>2. Checkpointed(mem, current, Len(file)) \in Checkpoints
    BY <2>1 DEF Checkpointed, Checkpoints, Records
  <2>3. unwritten # current.width
    BY <2>1, RecordWidth
  <2>4. derives => derived = ServiceLines(file)
    BY <2>1, <2>3 DEF DerivedInv
  <2> QED BY <1>6, <2>2, <2>4 DEF Flushed, DerivedInv, Running
<1>7. CASE SaveCheckpoint \/ FinishRun
  BY <1>7 DEF SaveCheckpoint, FinishRun, DerivedInv, Running
<1>8. CASE Cancel \/ Rest \/ UNCHANGED vars
  <2>1. UNCHANGED <<file, saved, proc, mem, current, unwritten, derives, derived, derivedDisk>>
    BY <1>8 DEF Cancel, Rest, vars
  <2>2. Buffered(current)' = Buffered(current)
    BY <2>1 DEF Buffered, KeepsHost
  <2> QED BY <2>1, <2>2 DEF DerivedInv, Running
<1>9. CASE Crash
  <2>1. file' \in Seq(Cells)
    BY <1>9 DEF Crash, DerivedInv
  <2> QED BY <1>9, <2>1 DEF Crash, DerivedInv, Running
<1> QED BY <1>1, <1>2, <1>3, <1>4, <1>5, <1>6, <1>7, <1>8, <1>9 DEF Next, ProcessStep

\* The CSV, flat, Nmap and URL outputs of a run hold exactly the services of its JSONL, in
\* the same order, whatever was cut off, left half written, lost or not asked for before it
\* (OutputWriters::open_at, rebuild_derived, write_host).
THEOREM DerivedFollowJsonl == Spec => []DerivedAgrees
<1>1. DerivedInv => DerivedAgrees
  BY DEF DerivedInv, DerivedAgrees, Running
<1> QED BY <1>1, InitDerived, StepDerived, PTL DEF Spec
=============================================================================
