----------------------------- MODULE ScanStore ------------------------------
(***************************************************************************)
(* The files of a single-process scan, over any number of runs, crashes    *)
(* and resumes: the host JSONL of output/mod.rs, the checkpoint of         *)
(* runtime/mod.rs, and persist_host of runtime/pipeline.rs, which ties     *)
(* them together.                                                          *)
(*                                                                         *)
(* A record of the JSONL is a run of cells, so that a byte position may    *)
(* fall inside a record.  A host is swept completely or not and has open   *)
(* ports or not; the rest of its result is left out.  The order in which   *)
(* hosts reach the writer is any order, as in ScanPipeline.                *)
(*                                                                         *)
(* Nothing uses an operator marked as a faulty variant: it is the one      *)
(* below it with a plausible mistake, for the mutation checks.             *)
(***************************************************************************)
EXTENDS Naturals, Sequences

CONSTANTS
  Hosts,              \* the target set, the same in every run (target_set_hash)
  Widths,             \* the lengths a record may have
  OpenOnly,           \* settings.open_only
  ReuseCheckpoint,    \* whether a fresh scan may name the checkpoint of an earlier one
  PowerLoss,          \* whether the unsynced end of the JSONL may be lost
  MaxCrashes,         \* bound on the runs that die
  MaxInterruptions    \* bound on the sweeps cut short and on the cancelled runs

ASSUME StoreAssumption ==
  /\ Widths \subseteq Nat \ {0} /\ Widths # {}
  /\ OpenOnly \in BOOLEAN /\ ReuseCheckpoint \in BOOLEAN /\ PowerLoss \in BOOLEAN
  /\ MaxCrashes \in Nat /\ MaxInterruptions \in Nat

VARIABLES
  file,               \* the JSONL on disk: cells
  saved,              \* the checkpoint file
  proc,               \* "down", "scanning", "flushing", "saving", "ended" or "refused"
  mem,                \* the Checkpoint in memory
  from,               \* the completed hosts the generator skips in this run
  handled,            \* the hosts handed to persist_host in this run
  current,            \* the HostResult in persist_host
  unwritten,          \* how many of its cells are still in the BufWriter
  derives,            \* whether this run was asked for a CSV, flat, Nmap or URL output
  derived,            \* the records written to the writers of these
  derivedDisk,        \* those flushed to their files
  cancelled,
  crashes, interruptions

vars == <<file, saved, proc, mem, from, handled, current, unwritten, derives, derived,
          derivedDisk, cancelled, crashes, interruptions>>

-----------------------------------------------------------------------------
Records == [host : Hosts, complete : BOOLEAN, open : BOOLEAN, width : Widths]
Cell(r, k) == [rec |-> r, k |-> k]
Cells == {Cell(r, k) : r \in Records, k \in UNION {1 .. w : w \in Widths}}

\* found: the hosts whose entry in discovered_open_ports is not empty.
\* protocol_probe_completed always equals completed_hosts.
Fresh == [exists |-> FALSE, completed |-> {}, position |-> 0, found |-> {}]

NoRecord == [host |-> {}, complete |-> FALSE, open |-> FALSE, width |-> 0]

Running == proc \in {"scanning", "flushing", "saving"}

\* Settings::keeps_host
KeepsHost(r) == ~OpenOnly \/ r.open

\* The whole record r starts at cell i of f.
RecordAt(f, r, i) ==
  /\ i \in 1 .. Len(f)
  /\ i + r.width <= Len(f) + 1
  /\ \A k \in 1 .. r.width : f[i + k - 1] = Cell(r, k)

\* f holds whole records only, so every line of it parses.
WholeRecords(f) ==
  \A i \in 1 .. Len(f) :
    /\ f[i].k > 1 => i > 1 /\ f[i - 1] = Cell(f[i].rec, f[i].k - 1)
    /\ f[i].k < f[i].rec.width => i < Len(f) /\ f[i + 1] = Cell(f[i].rec, f[i].k + 1)

\* The hosts of f that write_service has lines for, in file order: of the first n cells,
\* and of them all.
ServicesUpTo(f) ==
  LET upTo[n \in 0 .. Len(f)] ==
        IF n = 0 THEN <<>>
        ELSE IF f[n].k = 1 /\ f[n].rec.open THEN Append(upTo[n - 1], f[n].rec)
        ELSE upTo[n - 1]
  IN  upTo
ServiceLines(f) == ServicesUpTo(f)[Len(f)]

-----------------------------------------------------------------------------
Init ==
  /\ file = <<>>
  /\ saved = Fresh
  /\ proc = "down"
  /\ mem = Fresh
  /\ from = {} /\ handled = {}
  /\ current = NoRecord /\ unwritten = 0
  /\ derives = FALSE /\ derived = <<>> /\ derivedDisk = <<>>
  /\ cancelled = FALSE
  /\ crashes = 0 /\ interruptions = 0

\* rebuild_derived writes the services of the records that are left.
RebuiltEmpty(f) == <<>>                                         \* faulty variant
Rebuilt(f) == ServiceLines(f)

\* A run begins with this checkpoint in memory and this much of the JSONL kept, asked for
\* derived outputs or not, whatever the runs before it were.
Begin(checkpoint, kept, asked) ==
  /\ file' = kept
  /\ mem' = [checkpoint EXCEPT !.exists = TRUE]
  /\ from' = checkpoint.completed
  /\ handled' = {}
  /\ cancelled' = FALSE
  /\ derives' = asked
  /\ derived' = IF asked THEN Rebuilt(kept) ELSE <<>>
  /\ derivedDisk' = <<>>
  /\ proc' = "scanning"
  /\ UNCHANGED <<saved, current, unwritten, crashes, interruptions>>

\* execute_scan with --checkpoint: outputs are truncated at once, the checkpoint file is
\* left as it is until the first host is persisted.
StartFresh ==
  /\ proc \in {"down", "ended"}
  /\ ReuseCheckpoint \/ ~saved.exists
  /\ \E asked \in BOOLEAN : Begin(Fresh, <<>>, asked)

\* open_at with a position cuts the JSONL back to it...
CutBackToNothing(f, position) == <<>>                           \* faulty variant
CutBackToAll(f, position) == f                                  \* faulty variant
CutBack(f, position) == SubSeq(f, 1, position)

\* ... unless the file is shorter than that, or a line that a derived output must be
\* regenerated from does not parse.
ResumableIfLonger(f, position, asked) == position < Len(f)      \* faulty variant
Resumable(f, position, asked) ==
  /\ position <= Len(f)
  /\ asked => WholeRecords(CutBack(f, position))

\* execute_scan with --resume.
StartResume ==
  /\ proc \in {"down", "ended"}
  /\ saved.exists
  /\ \E asked \in BOOLEAN :
       /\ Resumable(file, saved.position, asked)
       /\ Begin(saved, CutBack(file, saved.position), asked)

\* The refusal comes after open_at has cut the JSONL back when only a line is unreadable,
\* and after it has emptied some of the derived files.
RefuseResume ==
  /\ proc \in {"down", "ended"}
  /\ saved.exists
  /\ \E asked \in BOOLEAN : ~Resumable(file, saved.position, asked)
  /\ proc' = "refused"
  /\ file' = IF saved.position <= Len(file) THEN CutBack(file, saved.position) ELSE file
  /\ derivedDisk' \in {derivedDisk, <<>>}
  /\ UNCHANGED <<saved, mem, from, handled, current, unwritten, derives, derived, cancelled,
                 crashes, interruptions>>

-----------------------------------------------------------------------------
\* The hosts this run may still persist: the generator skips those of the checkpoint it
\* started from, and each other host comes once.
PendingAgain == Hosts \ handled                                 \* faulty variant
Pending == Hosts \ (from \cup handled)

\* What write_host puts into the BufWriter.
BufferedWithExtraLine(r) == r.width + 1                         \* faulty variant
Buffered(r) == IF KeepsHost(r) THEN r.width ELSE 0

\* persist_host, write_host: the record goes into the buffered writers.
PersistHost(r) ==
  /\ proc = "scanning"
  /\ r.host \in Pending
  /\ ~r.complete => interruptions < MaxInterruptions
  /\ interruptions' = IF r.complete THEN interruptions ELSE interruptions + 1
  /\ handled' = handled \cup {r.host}
  /\ current' = r
  /\ unwritten' = Buffered(r)
  /\ derived' = IF derives /\ r.open THEN Append(derived, r) ELSE derived
  /\ proc' = "flushing"
  /\ UNCHANGED <<file, saved, mem, from, derives, derivedDisk, cancelled, crashes>>

\* The buffer reaches the file piece by piece; a crash may leave half a record.
DrainBuffer ==
  /\ proc = "flushing"
  /\ unwritten > 0
  /\ file' = Append(file, Cell(current, current.width - unwritten + 1))
  /\ unwritten' = unwritten - 1
  /\ UNCHANGED <<saved, proc, mem, from, handled, current, derives, derived, derivedDisk,
                 cancelled, crashes, interruptions>>

CheckpointedAlways(m, r, position) ==                           \* faulty variant
  [exists |-> TRUE, found |-> m.found \cup {r.host},
   completed |-> m.completed \cup {r.host}, position |-> position]

\* persist_host after the flush: the position moves only past a complete host.
Checkpointed(m, r, position) ==
  [exists    |-> TRUE,
   found     |-> IF r.open THEN m.found \cup {r.host} ELSE m.found \ {r.host},
   completed |-> IF r.complete THEN m.completed \cup {r.host} ELSE m.completed \ {r.host},
   position  |-> IF r.complete THEN position ELSE m.position]

Flushed ==
  /\ proc = "flushing"
  /\ unwritten = 0
  /\ derivedDisk' = derived
  /\ mem' = Checkpointed(mem, current, Len(file))
  /\ proc' = "saving"
  /\ UNCHANGED <<file, saved, from, handled, current, unwritten, derives, derived, cancelled,
                 crashes, interruptions>>

\* Checkpoint::save is atomic: a temporary file, synced and renamed.
SaveCheckpoint ==
  /\ proc = "saving"
  /\ saved' = mem
  /\ proc' = "scanning"
  /\ current' = NoRecord
  /\ UNCHANGED <<file, mem, from, handled, unwritten, derives, derived, derivedDisk,
                 cancelled, crashes, interruptions>>

\* The end of Pipeline::run: every host is done, or the operator has stopped the scan.
FinishRun ==
  /\ proc = "scanning"
  /\ cancelled \/ Pending = {}
  /\ derivedDisk' = derived
  /\ saved' = mem
  /\ proc' = "ended"
  /\ UNCHANGED <<file, mem, from, handled, current, unwritten, derives, derived, cancelled,
                 crashes, interruptions>>

Cancel ==
  /\ Running /\ ~cancelled
  /\ interruptions < MaxInterruptions
  /\ cancelled' = TRUE
  /\ interruptions' = interruptions + 1
  /\ UNCHANGED <<file, saved, proc, mem, from, handled, current, unwritten, derives, derived,
                 derivedDisk, crashes>>

-----------------------------------------------------------------------------
\* The process dies: killed, a second signal, or an I/O error that ends run.  What the
\* kernel has of the JSONL stays, unless the machine dies with it: the checkpoint is
\* synced to disk, the JSONL is not.
Crash ==
  /\ Running \/ (PowerLoss /\ proc \in {"down", "ended"})
  /\ crashes < MaxCrashes
  /\ crashes' = crashes + 1
  /\ proc' = "down"
  /\ file' \in {file} \cup (IF PowerLoss THEN {SubSeq(file, 1, n) : n \in 0 .. Len(file)}
                                         ELSE {})
  /\ mem' = Fresh /\ from' = {} /\ handled' = {}
  /\ current' = NoRecord /\ unwritten' = 0
  /\ derives' = FALSE /\ derived' = <<>> /\ cancelled' = FALSE
  /\ UNCHANGED <<saved, derivedDisk, interruptions>>

\* Not a step of the code: nothing is left to do, or the resume is refused for good.
Rest ==
  /\ proc = "refused" \/ (proc = "ended" /\ Pending = {})
  /\ UNCHANGED vars

ProcessStep ==
  \/ \E r \in Records : PersistHost(r)
  \/ DrainBuffer \/ Flushed \/ SaveCheckpoint \/ FinishRun

Next ==
  \/ StartFresh \/ StartResume \/ RefuseResume
  \/ ProcessStep
  \/ Cancel \/ Crash
  \/ Rest

Spec == Init /\ [][Next]_vars

\* The process keeps running, and the operator resumes a scan that has not finished.
FairSpec == Spec /\ WF_vars(ProcessStep) /\ WF_vars(StartFresh \/ StartResume)

-----------------------------------------------------------------------------
Checkpoints ==
  [exists : BOOLEAN, completed : SUBSET Hosts, position : Nat, found : SUBSET Hosts]

\* The variables stay within their types (DerivedAgrees says what the derived outputs
\* hold), and the BufWriter holds no more than the record in persist_host.
TypeOK ==
  /\ file \in Seq(Cells)
  /\ saved \in Checkpoints /\ mem \in Checkpoints
  /\ proc \in {"down", "scanning", "flushing", "saving", "ended", "refused"}
  /\ from \subseteq Hosts /\ handled \subseteq Hosts
  /\ current \in Records \cup {NoRecord}
  /\ unwritten \in 0 .. current.width
  /\ derives \in BOOLEAN /\ cancelled \in BOOLEAN
  /\ crashes \in 0 .. MaxCrashes /\ interruptions \in 0 .. MaxInterruptions

\* Every host the checkpoint calls completed has a whole, complete record in f, below the
\* checkpointed position; --open-only leaves out those without open ports.
Covered(f, checkpoint) ==
  \A h \in checkpoint.completed :
    h \in checkpoint.found \/ ~OpenOnly =>
      \E r \in Records : \E i \in 1 .. Len(f) :
        /\ r.host = h /\ r.complete
        /\ RecordAt(f, r, i)
        /\ i + r.width <= checkpoint.position + 1

\* A host that completed_hosts lists, so that no run will sweep it again, has its record
\* in the output: while a run lasts for the checkpoint in memory, and at any time, unless
\* the output is too short to be resumed, for the checkpoint on disk.
CompletedHaveRecords ==
  /\ Running => Covered(file, mem)
  /\ saved.exists /\ saved.position <= Len(file) => Covered(file, saved)

\* Between two hosts the output of a run consists of whole records, whatever the earlier
\* runs left behind: a resume never appends to half a line.
OutputParses == proc = "scanning" => WholeRecords(file)

\* No host has two complete records, over any number of resumes.
NoCompletedTwice ==
  \A i, j \in 1 .. Len(file) :
    /\ file[i].k = 1 /\ file[i].rec.complete
    /\ file[j].k = 1 /\ file[j].rec.complete
    /\ file[i].rec.host = file[j].rec.host
    => i = j

\* The derived outputs of a run that ended hold exactly the services of its JSONL, in the
\* same order, though they have no checkpointed position of their own and the runs before it
\* may not have been asked for them.
DerivedAgrees ==
  derives =>
    /\ Running /\ proc # "flushing" => derived = ServiceLines(file)
    /\ proc = "ended" => derivedDisk = ServiceLines(file)

\* What a resumable scan keeps for good: the completed hosts, and those of their records
\* that the checkpoint protects.
Published ==
  {h \in saved.completed :
     \E r \in Records : \E i \in 1 .. Len(file) :
       /\ r.host = h /\ r.complete
       /\ RecordAt(file, r, i)
       /\ i + r.width <= saved.position + 1}

\* A loss of power has taken output that the checkpoint names.
OutputLost == saved.position > Len(file)

\* Crashes, cancels, partial hosts and resumes never lose a completed host or its record,
\* but where the machine loses power and with it output that the checkpoint names;
\* there is one ledger, as no checkpoint is used for a second fresh scan.
Ledger == INSTANCE ScanLedger WITH
  finished <- saved.completed, published <- Published, scans <- 0
LosesOutput == Crash /\ OutputLost'
KeepsLedger == Ledger!Init /\ [][LosesOutput \/ Ledger!Next]_(Ledger!vars)

\* If the runs do not keep dying and the operator keeps resuming, the scan gets done, unless
\* the output is too short to be resumed for good.
EventuallyAllCompleted == <>(saved.completed = Hosts) \/ <>[]OutputLost

\* README.md says the output has one record per host and that a resume leaves no duplicate
\* tail: no host has two records, partial ones included.
OneRecordPerHost ==
  proc \in {"scanning", "ended"} =>
    \A i, j \in 1 .. Len(file) :
      file[i].k = 1 /\ file[j].k = 1 /\ file[i].rec.host = file[j].rec.host => i = j

=============================================================================
