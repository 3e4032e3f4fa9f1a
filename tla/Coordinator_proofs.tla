------------------------- MODULE Coordinator_proofs -------------------------
(***************************************************************************)
(* For any targets, number of worker processes, and kills, faults, stops   *)
(* and resumes: the merge loses no completed host, a state file that calls *)
(* the scan complete stands beside a complete record of every target and   *)
(* an output of those that open_only keeps, and the part states together   *)
(* keep a ledger of each scan.                                             *)
(***************************************************************************)
EXTENDS Coordinator, FiniteSetTheorems, NaturalsInduction, WellFoundedInduction, TLAPS

\* A worker that has opened its part.
Scanning(i) == child[i] \in {"scanning", "persisting"}

\* The checkpoint is of the scan that the coordinator runs.
OfScan(checkpoint) == checkpoint.scan = scan

-----------------------------------------------------------------------------
\* The inductive invariant, in parts.  The types that TypeOK leaves open.
Shapes ==
  /\ handled \in [Parts -> SUBSET Hosts]
  /\ current \in [Parts -> Records \cup {NoHost}]
  /\ jsonl \in [Parts -> Seq(Records)]
  /\ output \in [Hosts -> Records \cup {Absent(h) : h \in Hosts}]
  /\ \A i \in Parts : mem[i].completed \subseteq Shard(i)

\* What the coordinator is at says what the workers and the state file may be.
PhasesAgree ==
  /\ coord # "down" \/ state.exists => scan >= 1
  /\ \A i \in Parts : child[i] # "none" => coord = "waiting"
  /\ coord \in {"merging", "merged"} => \A i \in Parts : part[i].exists
  /\ verdict => coord = "merged"
  /\ state.complete => coord = "down"

\* The checkpoint's hosts have their record below its position, and all of the part is of
\* this scan.
Holds(checkpoint, records) ==
  /\ checkpoint.position <= Len(records)
  /\ \A h \in checkpoint.completed : \E k \in 1 .. checkpoint.position :
       records[k].host = h /\ records[k].complete
  /\ \A k \in 1 .. Len(records) : records[k].scan = scan

\* A part state belongs to this scan or an older one, and a worker that begins anew never
\* finds one of this scan.
PartOfScan(i) ==
  /\ part[i].scan <= scan /\ (~part[i].exists => part[i] = Fresh)
  /\ child[i] = "exited" => part[i].exists
  /\ child[i] = "spawned" /\ ~resume[i] /\ part[i].exists => ~OfScan(part[i])
  /\ OfScan(part[i]) => Holds(part[i], jsonl[i])

\* The worker's memory is what its part state says, and one host more while it persists.
MemoryFollows(i) ==
  Scanning(i) =>
    /\ mem[i].exists /\ mem[i].scan <= scan /\ (OfScan(part[i]) => OfScan(mem[i]))
    /\ mem[i].completed \subseteq handled[i]
    /\ OfScan(mem[i]) =>
         /\ Holds(mem[i], jsonl[i])
         /\ mem[i].completed = IF OfScan(part[i]) THEN part[i].completed ELSE {}

\* The record being persisted is the last of the part, of a host not completed before.
Persisting(i) ==
  child[i] = "persisting" =>
    /\ current[i] \in Records /\ current[i].host \in handled[i] \ mem[i].completed
    /\ Len(jsonl[i]) > 0 /\ jsonl[i][Len(jsonl[i])] = current[i]

WorkersInv == \A i \in Parts : PartOfScan(i) /\ MemoryFollows(i) /\ Persisting(i)

\* What stands beside a complete state file, or one about to be.
AllCovered ==
  \A i \in Parts : \A h \in Shard(i) : \E k \in DOMAIN jsonl[i] :
    Settles(jsonl[i][k], h) /\ (jsonl[i][k].scan = scan \/ OfOlderScan)

CompleteIsCovered == verdict \/ (state.exists /\ state.complete) => AllCovered

CoordInv ==
  /\ TypeOK /\ Shapes
  /\ PhasesAgree
  /\ WorkersInv
  /\ NoResultLost
  /\ CompleteIsCovered

-----------------------------------------------------------------------------
LEMMA ConstantTypes ==
  /\ Processes \in Nat /\ Processes > 0 /\ Len(Targets) \in Nat /\ Processes <= Len(Targets)
  /\ MaxScans \in Nat /\ MaxScans > 0 /\ MaxKills \in Nat /\ MaxFaults \in Nat
  /\ MaxInterruptions \in Nat
  /\ Targets \in Seq(Hosts) /\ DOMAIN Targets = 1 .. Len(Targets)
<1>1. Targets \in Seq(Hosts)
  BY CoordinatorAssumption DEF CoordinatorAssumption
<1>2. Len(Targets) \in Nat /\ DOMAIN Targets = 1 .. Len(Targets)
  BY <1>1
<1> QED BY <1>1, <1>2, CoordinatorAssumption DEF CoordinatorAssumption

\* A set of naturals has a least member, and one of indices a greatest.
LEMMA Least == ASSUME NEW S \in SUBSET Nat, S # {} PROVE \E k \in S : \A j \in S : k <= j
<1>1. PICK k \in S : \A j \in S : ~(<<j, k>> \in OpToRel(<, Nat))
  BY NatLessThanWellFounded, WFMin
<1>2. \A j \in S : j \in Nat /\ k \in Nat /\ ~(j < k)
  BY <1>1 DEF OpToRel
<1> QED BY <1>2

LEMMA Greatest ==
  ASSUME NEW n \in Nat, NEW S \in SUBSET (1 .. n), S # {}
  PROVE  \E k \in S : \A j \in S : j <= k
<1> DEFINE T == {m \in Nat : n - m \in S}
<1>1. T \in SUBSET Nat /\ T # {}
  <2>1. PICK k \in S : TRUE
    OBVIOUS
  <2>2. n - k \in Nat /\ n - (n - k) = k
    BY <2>1
  <2> QED BY <2>1, <2>2
<1>2. PICK m \in T : \A j \in T : m <= j
  BY <1>1, Least
<1>3. \A j \in S : n - j \in T
  OBVIOUS
<1>4. n - m \in S /\ \A j \in S : j <= n - m
  BY <1>2, <1>3
<1> QED BY <1>4

\* Every target is in the shard of exactly one worker.
LEMMA ShardsPartition ==
  /\ \A i \in Parts : Shard(i) \subseteq Hosts
  /\ \A h \in Hosts : \E i \in Parts : h \in Shard(i)
  /\ \A i, j \in Parts : \A h \in Shard(i) : h \in Shard(j) => i = j
<1>1. \A i \in Parts : Shard(i) \subseteq Hosts
  BY DEF Shard, Hosts
<1>2. ASSUME NEW h \in Hosts PROVE \E i \in Parts : h \in Shard(i)
  <2>1. PICK k \in DOMAIN Targets : h = Targets[k]
    BY DEF Hosts
  <2>2. k - 1 \in Nat
    BY ConstantTypes
  <2>3. (k - 1) % Processes \in Parts
    BY <2>2, ConstantTypes DEF Parts
  <2> QED BY <2>1, <2>3 DEF Shard
<1>3. ASSUME NEW i \in Parts, NEW j \in Parts, NEW h \in Shard(i), h \in Shard(j) PROVE i = j
  <2>1. PICK k \in DOMAIN Targets : h = Targets[k] /\ (k - 1) % Processes = i
    BY DEF Shard
  <2>2. PICK l \in DOMAIN Targets : h = Targets[l] /\ (l - 1) % Processes = j
    BY <1>3 DEF Shard
  <2>3. k = l
    BY <2>1, <2>2, CoordinatorAssumption DEF CoordinatorAssumption
  <2> QED BY <2>1, <2>2, <2>3
<1> QED BY <1>1, <1>2, <1>3

LEMMA MergedOfPart ==
  ASSUME NEW i \in Parts, NEW h \in Shard(i) PROVE Merged[h] = Surviving(jsonl[i], h)
<1>1. h \in Hosts /\ \A j \in Parts : h \in Shard(j) <=> j = i
  BY ShardsPartition
<1>2. (CHOOSE j \in Parts : h \in Shard(j)) = i
  BY <1>1
<1> QED BY <1>1, <1>2 DEF Merged

HasComplete(records, h) == \E k \in DOMAIN records : records[k].host = h /\ records[k].complete

\* The record that survives is one of the host's, and a complete one if there is any.
LEMMA SurvivingRecord ==
  ASSUME NEW records \in Seq(Records), NEW h \in Hosts
  PROVE  /\ \/ Surviving(records, h) = Absent(h)
            \/ \E k \in 1 .. Len(records) :
                 Surviving(records, h) = records[k] /\ records[k].host = h
         /\ HasComplete(records, h) => Surviving(records, h).complete
<1> DEFINE at == {k \in DOMAIN records : records[k].host = h}
           complete == {k \in at : records[k].complete}
           best == IF complete = {} THEN at ELSE complete
           last == CHOOSE k \in best : \A j \in best : j <= k
<1>1. /\ Surviving(records, h) = IF best = {} THEN Absent(h) ELSE records[last]
      /\ DOMAIN records = 1 .. Len(records) /\ Len(records) \in Nat
  BY DEF Surviving
<1>2. best \in SUBSET (1 .. Len(records)) /\ best \subseteq at
  BY <1>1
<1>3. ASSUME best # {} PROVE last \in best
  <2> HIDE DEF best
  <2>1. \E k \in best : \A j \in best : j <= k
    BY <1>1, <1>2, <1>3, Greatest
  <2> QED BY <2>1
<1>4. HasComplete(records, h) => complete # {}
  BY DEF HasComplete
<1>5. CASE best = {}
  <2>1. Surviving(records, h) = Absent(h) /\ complete = {}
    BY <1>1, <1>5
  <2> QED BY <2>1, <1>4
<1>6. CASE best # {}
  <2>1. /\ last \in at /\ Surviving(records, h) = records[last]
        /\ complete # {} => last \in complete
    BY <1>1, <1>2, <1>3, <1>6
  <2> HIDE DEF last, best
  <2>2. last \in 1 .. Len(records) /\ records[last].host = h
    BY <2>1, <1>1
  <2>3. complete # {} => records[last].complete
    BY <2>1
  <2> QED BY <2>1, <2>2, <2>3, <1>4
<1> QED BY <1>5, <1>6

-----------------------------------------------------------------------------
\* One worker moves: what the others and the coordinator have stays.
WorkerTypes(i) ==
  /\ child[i] \in {"none", "spawned", "scanning", "persisting", "exited", "failed"}
  /\ told[i] \in BOOLEAN /\ metrics[i] \in BOOLEAN
  /\ mem[i] \in Checkpoints /\ mem[i].completed \subseteq Shard(i)
  /\ part[i] \in Checkpoints /\ part[i].completed \subseteq Shard(i)
  /\ handled[i] \subseteq Shard(i)
  /\ current[i] \in Records \cup {NoHost}
  /\ jsonl[i] \in Seq({r \in Records : r.host \in Shard(i)})

Bounded ==
  /\ kills \in 0 .. MaxKills /\ faults \in 0 .. MaxFaults
  /\ interruptions \in 0 .. MaxInterruptions

WorkerInv(i) == PartOfScan(i) /\ MemoryFollows(i) /\ Persisting(i)

OneWorker(i) ==
  /\ UNCHANGED coordVars
  /\ child' = [child EXCEPT ![i] = child'[i]]
  /\ told' = [told EXCEPT ![i] = told'[i]]
  /\ metrics' = [metrics EXCEPT ![i] = metrics'[i]]
  /\ mem' = [mem EXCEPT ![i] = mem'[i]]
  /\ part' = [part EXCEPT ![i] = part'[i]]
  /\ handled' = [handled EXCEPT ![i] = handled'[i]]
  /\ current' = [current EXCEPT ![i] = current'[i]]
  /\ jsonl' = [jsonl EXCEPT ![i] = jsonl'[i]]

LEMMA WiderSeq == ASSUME NEW S, NEW T, S \subseteq T, NEW s \in Seq(S) PROVE s \in Seq(T)
  OBVIOUS

\* A worker whose files and memory nobody touches keeps its invariant.
LEMMA WorkerUntouched ==
  ASSUME NEW j \in Parts, WorkerInv(j), UNCHANGED <<scan, resume>>,
         child'[j] = child[j], mem'[j] = mem[j], part'[j] = part[j], handled'[j] = handled[j],
         current'[j] = current[j], jsonl'[j] = jsonl[j]
  PROVE  WorkerInv(j)'
<1>1. PartOfScan(j)'
  BY DEF WorkerInv, PartOfScan, OfScan, Holds
<1>2. MemoryFollows(j)'
  BY DEF WorkerInv, MemoryFollows, Scanning, OfScan, Holds
<1>3. Persisting(j)'
  BY DEF WorkerInv, Persisting
<1> QED BY <1>1, <1>2, <1>3 DEF WorkerInv

LEMMA OneWorkerMoves ==
  ASSUME CoordInv, NEW i \in Parts, child[i] # "none", OneWorker(i), WorkerTypes(i)', Bounded',
         WorkerInv(i)'
  PROVE  CoordInv'
<1>1. TypeOK /\ Shapes /\ PhasesAgree /\ WorkersInv /\ NoResultLost /\ CompleteIsCovered
  BY DEF CoordInv
<1>2. /\ coord = "waiting" /\ ~verdict /\ ~state.complete
      /\ UNCHANGED <<state, scan, coord, verdict, stop, resume, output>>
  BY <1>1 DEF PhasesAgree, TypeOK, OneWorker, coordVars
<1>3. \A j \in Parts \ {i} :
        /\ child'[j] = child[j] /\ told'[j] = told[j] /\ metrics'[j] = metrics[j]
        /\ mem'[j] = mem[j] /\ part'[j] = part[j] /\ handled'[j] = handled[j]
        /\ current'[j] = current[j] /\ jsonl'[j] = jsonl[j]
  BY <1>1 DEF OneWorker, TypeOK, Shapes
<1>4. TypeOK' /\ Shapes'
  <2>1. /\ child' \in [Parts ->
             {"none", "spawned", "scanning", "persisting", "exited", "failed"}]
        /\ told' \in [Parts -> BOOLEAN] /\ metrics' \in [Parts -> BOOLEAN]
    BY <1>1 DEF OneWorker, WorkerTypes, TypeOK
  <2>2. mem' \in [Parts -> Checkpoints] /\ part' \in [Parts -> Checkpoints]
    BY <1>1 DEF OneWorker, WorkerTypes, TypeOK
  <2>3. \A j \in Parts :
          /\ handled'[j] \subseteq Shard(j) /\ part'[j].completed \subseteq Shard(j)
          /\ current'[j] \in Records \cup {NoHost}
          /\ jsonl'[j] \in Seq({r \in Records : r.host \in Shard(j)})
          /\ mem'[j].completed \subseteq Shard(j)
    BY <1>1, <1>3 DEF WorkerTypes, TypeOK, Shapes
  <2>4. handled' \in [Parts -> SUBSET Hosts] /\ current' \in [Parts -> Records \cup {NoHost}]
    BY <1>1, <2>3, ShardsPartition DEF OneWorker, Shapes
  <2>5. jsonl' \in [Parts -> Seq(Records)]
    <3>1. jsonl'[i] \in Seq(Records)
      BY <2>3, WiderSeq
    <3> QED BY <1>1, <3>1 DEF OneWorker, Shapes
  <2>6. TypeOK'
    BY <1>1, <1>2, <2>1, <2>2, <2>3 DEF TypeOK, Bounded
  <2> QED BY <1>1, <1>2, <2>3, <2>4, <2>5, <2>6 DEF Shapes
<1>5. PhasesAgree' /\ NoResultLost' /\ CompleteIsCovered'
  BY <1>1, <1>2 DEF PhasesAgree, NoResultLost, CompleteIsCovered
<1>6. WorkersInv'
  <2>1. ASSUME NEW j \in Parts, j # i PROVE WorkerInv(j)'
    BY <1>1, <1>2, <1>3, <2>1, WorkerUntouched DEF WorkersInv, WorkerInv
  <2> QED BY <2>1 DEF WorkersInv, WorkerInv
<1> QED BY <1>4, <1>5, <1>6 DEF CoordInv

\* A worker opens its part: from nothing, or cut back to the position of its part state.
LEMMA WorkerStartsMoves ==
  ASSUME CoordInv, NEW i \in Parts, WorkerStarts(i) PROVE CoordInv'
<1>1. TypeOK /\ Shapes /\ PhasesAgree /\ WorkersInv /\ WorkerInv(i)
  BY DEF CoordInv, WorkersInv, WorkerInv
<1>2. child[i] = "spawned" /\ coord = "waiting" /\ scan >= 1 /\ scan \in 0 .. MaxScans
  BY <1>1 DEF WorkerStarts, PhasesAgree, TypeOK
<1>3. CASE ~resume[i] /\ WorkerOpens(i, [Fresh EXCEPT !.scan = scan], <<>>)
  <2>1. /\ child'[i] = "scanning" /\ told'[i] = FALSE /\ jsonl'[i] = <<>> /\ handled'[i] = {}
        /\ mem'[i] = [exists |-> TRUE, completed |-> {}, position |-> 0, scan |-> scan]
        /\ part' = part /\ current' = current /\ metrics' = metrics /\ UNCHANGED coordVars
        /\ OneWorker(i)
    BY <1>1, <1>3 DEF WorkerOpens, TypeOK, Shapes, Fresh, OneWorker
  <2>2. scan' = scan /\ resume' = resume
    BY <2>1 DEF coordVars
  <2>3. WorkerTypes(i)' /\ Bounded'
    <3>1. <<>> \in Seq({r \in Records : r.host \in Shard(i)}) /\ mem'[i] \in Checkpoints
      BY <1>2, <2>1 DEF Checkpoints
    <3>2. /\ part[i] \in Checkpoints /\ part[i].completed \subseteq Shard(i)
          /\ metrics[i] \in BOOLEAN /\ current[i] \in Records \cup {NoHost}
      BY <1>1 DEF TypeOK
    <3>3. mem'[i].completed = {}
      BY <2>1
    <3>4. WorkerTypes(i)'
      BY <2>1, <3>1, <3>2, <3>3, Zenon DEF WorkerTypes
    <3> QED BY <1>1, <1>3, <3>4 DEF Bounded, TypeOK, WorkerOpens, bounds
  <2>4. ~OfScan(part[i])
    BY <1>1, <1>2, <1>3, ConstantTypes DEF WorkerInv, PartOfScan, OfScan, Fresh
  <2>5. PartOfScan(i)'
    BY <1>1, <2>1, <2>2, <2>4 DEF WorkerInv, PartOfScan, OfScan
  <2>6. MemoryFollows(i)'
    BY <1>2, <2>1, <2>2, <2>4 DEF MemoryFollows, Scanning, OfScan, Holds
  <2>7. Persisting(i)'
    BY <2>1 DEF Persisting
  <2> QED BY <1>2, <2>1, <2>3, <2>5, <2>6, <2>7, OneWorkerMoves DEF WorkerInv
<1>4. CASE /\ resume[i] /\ Resumable(i)
           /\ WorkerOpens(i, part[i], CutBack(jsonl[i], part[i].position))
  <2> DEFINE kept == SubSeq(jsonl[i], 1, part[i].position)
             S == {r \in Records : r.host \in Shard(i)}
  <2>1. /\ child'[i] = "scanning" /\ told'[i] = FALSE /\ jsonl'[i] = kept
        /\ handled'[i] = part[i].completed
        /\ mem'[i] = [part[i] EXCEPT !.exists = TRUE]
        /\ part' = part /\ current' = current /\ metrics' = metrics /\ UNCHANGED coordVars
        /\ OneWorker(i)
    BY <1>1, <1>4 DEF WorkerOpens, TypeOK, Shapes, CutBack, OneWorker
  <2>2. scan' = scan /\ resume' = resume
    BY <2>1 DEF coordVars
  <2>3. /\ part[i] \in Checkpoints /\ part[i].position \in Nat
        /\ part[i].position <= Len(jsonl[i]) /\ jsonl[i] \in Seq(S)
    BY <1>1, <1>4 DEF TypeOK, Checkpoints, Resumable
  <2>4. /\ mem'[i] \in Checkpoints /\ mem'[i].exists /\ mem'[i].completed = part[i].completed
        /\ mem'[i].position = part[i].position /\ mem'[i].scan = part[i].scan
    BY <2>1, <2>3 DEF Checkpoints
  <2>5. /\ Len(kept) = part[i].position
        /\ \A k \in 1 .. part[i].position : kept[k] = jsonl[i][k] /\ kept[k] \in S
        /\ kept \in Seq(S)
    <3> HIDE DEF S
    <3> QED BY <2>3
  <2> HIDE DEF kept, S
  <2>6. WorkerTypes(i)' /\ Bounded'
    <3>1. /\ part[i] \in Checkpoints /\ part[i].completed \subseteq Shard(i)
          /\ metrics[i] \in BOOLEAN /\ current[i] \in Records \cup {NoHost}
      BY <1>1 DEF TypeOK
    <3>2. WorkerTypes(i)'
      BY <2>1, <2>4, <2>5, <3>1, Zenon DEF WorkerTypes, S
    <3>3. Bounded'
      BY <1>1, <1>4 DEF Bounded, TypeOK, WorkerOpens, bounds
    <3> QED BY <3>2, <3>3
  <2>7. OfScan(part[i]) => Holds(part[i], jsonl[i]) /\ Holds(part[i], kept)
    <3> SUFFICES ASSUME OfScan(part[i]) PROVE Holds(part[i], jsonl[i]) /\ Holds(part[i], kept)
      OBVIOUS
    <3>1. Holds(part[i], jsonl[i])
      BY <1>1 DEF WorkerInv, PartOfScan
    <3>2. /\ DOMAIN kept = 1 .. part[i].position
          /\ DOMAIN jsonl[i] = 1 .. Len(jsonl[i])
          /\ 1 .. part[i].position \subseteq DOMAIN jsonl[i]
      BY <2>3, <2>5
    <3> HIDE DEF CoordInv
    <3> QED BY <2>3, <2>5, <3>1, <3>2 DEF Holds
  <2>8. PartOfScan(i)'
    BY <1>1, <2>1, <2>2, <2>7 DEF WorkerInv, PartOfScan, OfScan, Holds
  <2>9. MemoryFollows(i)'
    <3>1. OfScan(mem[i])' => Holds(mem[i], jsonl[i])' /\ OfScan(part[i])
      BY <2>1, <2>2, <2>4, <2>7 DEF OfScan, Holds
    <3>2. part[i].scan <= scan
      BY <1>1 DEF WorkerInv, PartOfScan
    <3> QED BY <2>1, <2>2, <2>3, <2>4, <2>5, <3>1, <3>2 DEF MemoryFollows, OfScan
  <2>10. Persisting(i)'
    BY <2>1 DEF Persisting
  <2> QED BY <1>2, <2>1, <2>6, <2>8, <2>9, <2>10, OneWorkerMoves DEF WorkerInv
<1>5. CASE /\ child' = [child EXCEPT ![i] = "failed"]
           /\ UNCHANGED <<coordVars, told, mem, handled, current, jsonl, part, metrics, bounds>>
  <2>1. OneWorker(i) /\ child'[i] = "failed" /\ scan' = scan /\ resume' = resume
    BY <1>1, <1>5 DEF OneWorker, TypeOK, Shapes, coordVars
  <2>2. WorkerTypes(i)' /\ Bounded'
    BY <1>1, <1>5, <2>1 DEF WorkerTypes, Bounded, TypeOK, Shapes, bounds
  <2>3. WorkerInv(i)'
    BY <1>1, <1>5, <2>1
       DEF WorkerInv, PartOfScan, MemoryFollows, Persisting, Scanning, OfScan, Holds
  <2> QED BY <1>2, <2>1, <2>2, <2>3, OneWorkerMoves
<1> QED BY <1>3, <1>4, <1>5 DEF WorkerStarts

\* A record more in the part, of a host that the worker has not handed over before.
LEMMA WorkerWritesMoves ==
  ASSUME CoordInv, NEW i \in Parts, NEW h \in Hosts, NEW complete \in BOOLEAN,
         NEW open \in BOOLEAN, WorkerWrites(i, h, complete, open)
  PROVE  CoordInv'
<1> DEFINE r == [host |-> h, complete |-> complete, open |-> open, scan |-> scan]
           S == {q \in Records : q.host \in Shard(i)}
<1>1. TypeOK /\ Shapes /\ PhasesAgree /\ WorkersInv /\ WorkerInv(i)
  BY DEF CoordInv, WorkersInv, WorkerInv
<1>2. /\ child[i] = "scanning" /\ coord = "waiting" /\ scan >= 1 /\ scan \in 0 .. MaxScans
      /\ h \in Shard(i) /\ h \notin handled[i]
  BY <1>1 DEF WorkerWrites, PhasesAgree, TypeOK, Pending
<1>3. /\ child'[i] = "persisting" /\ current'[i] = r /\ jsonl'[i] = Append(jsonl[i], r)
      /\ handled'[i] = handled[i] \cup {h} /\ told' = told /\ mem' = mem /\ part' = part
      /\ metrics' = metrics /\ OneWorker(i)
  BY <1>1 DEF WorkerWrites, TypeOK, Shapes, OneWorker
<1>4. scan' = scan /\ resume' = resume
  BY <1>3 DEF OneWorker, coordVars
<1>5. r \in S /\ r.host = h /\ r.complete = complete /\ r.scan = scan
  BY <1>2, ConstantTypes DEF Records
<1>6. jsonl[i] \in Seq(S)
  BY <1>1 DEF TypeOK
<1>7. /\ jsonl'[i] \in Seq(S) /\ Len(jsonl[i]) \in Nat /\ Len(jsonl'[i]) = Len(jsonl[i]) + 1
      /\ jsonl'[i][Len(jsonl'[i])] = r
      /\ \A k \in 1 .. Len(jsonl[i]) : jsonl'[i][k] = jsonl[i][k]
  <2> HIDE DEF r, S
  <2> QED BY <1>3, <1>5, <1>6
<1> HIDE DEF r, S
<1>8. WorkerTypes(i)'
  BY <1>1, <1>2, <1>3, <1>5, <1>7 DEF WorkerTypes, TypeOK, Shapes, S
<1>9. Bounded'
  BY <1>1, ConstantTypes DEF WorkerWrites, Bounded, TypeOK
<1>10. ASSUME NEW m \in Checkpoints, Holds(m, jsonl[i]) PROVE Holds(m, jsonl[i])'
  <2>1. m.position \in Nat /\ m.position <= Len(jsonl[i])
    BY <1>10 DEF Holds, Checkpoints
  <2>2. \A k \in 1 .. Len(jsonl'[i]) : jsonl'[i][k].scan = scan
    <3> TAKE k \in 1 .. Len(jsonl'[i])
    <3>1. CASE k = Len(jsonl'[i])
      BY <3>1, <1>5, <1>7
    <3>2. CASE k # Len(jsonl'[i])
      BY <3>2, <1>7, <1>10 DEF Holds
    <3> QED BY <3>1, <3>2
  <2>3. \A g \in m.completed : \E k \in 1 .. m.position :
          jsonl'[i][k].host = g /\ jsonl'[i][k].complete
    <3> TAKE g \in m.completed
    <3>1. PICK k \in 1 .. m.position : jsonl[i][k].host = g /\ jsonl[i][k].complete
      BY <1>10 DEF Holds
    <3>2. k \in 1 .. Len(jsonl[i])
      BY <1>7, <2>1
    <3> QED BY <1>7, <3>1, <3>2
  <2> QED BY <1>4, <1>7, <2>1, <2>2, <2>3 DEF Holds
<1>11. mem[i] \in Checkpoints /\ part[i] \in Checkpoints
  BY <1>1 DEF TypeOK
<1>12. PartOfScan(i)'
  BY <1>1, <1>2, <1>3, <1>4, <1>10, <1>11 DEF WorkerInv, PartOfScan, OfScan
<1>13. MemoryFollows(i)'
  BY <1>1, <1>2, <1>3, <1>4, <1>7, <1>10, <1>11
     DEF WorkerInv, MemoryFollows, OfScan, Scanning, Checkpoints
<1>14. Persisting(i)'
  BY <1>1, <1>2, <1>3, <1>5, <1>7 DEF WorkerInv, MemoryFollows, Scanning, Persisting, S
<1> QED BY <1>2, <1>3, <1>8, <1>9, <1>12, <1>13, <1>14, OneWorkerMoves DEF WorkerInv

\* What a persisted checkpoint holds, for a complete and for a partial record.
LEMMA CheckpointedHolds ==
  ASSUME NEW m \in Checkpoints, NEW records \in Seq(Records), Len(records) > 0,
         NEW r, r = records[Len(records)], r.host \notin m.completed,
         NEW saved, saved = Checkpointed(m, r, Len(records))
  PROVE  /\ saved \in Checkpoints /\ saved.exists = m.exists /\ saved.scan = m.scan
         /\ r.complete => /\ saved.completed = m.completed \cup {r.host}
                          /\ saved.position = Len(records)
         /\ ~r.complete => saved.completed = m.completed /\ saved.position = m.position
         /\ Holds(m, records) => Holds(saved, records)
<1>1. Len(records) \in Nat /\ Len(records) \in 1 .. Len(records) /\ r \in Records
  OBVIOUS
<1>2. r.host \in Hosts /\ r.complete \in BOOLEAN
  BY <1>1 DEF Records
<1>3. CASE r.complete
  <2>1. /\ saved \in Checkpoints /\ saved.exists = m.exists /\ saved.scan = m.scan
        /\ saved.completed = m.completed \cup {r.host} /\ saved.position = Len(records)
    BY <1>2, <1>1, <1>3 DEF Checkpointed, Checkpoints
  <2>2. ASSUME Holds(m, records) PROVE Holds(saved, records)
    <3>1. m.position \in Nat
      BY DEF Checkpoints
    <3>2. ASSUME NEW h \in saved.completed
          PROVE  \E k \in 1 .. saved.position : records[k].host = h /\ records[k].complete
      <4>1. CASE h \in m.completed
        <5>1. PICK k \in 1 .. m.position : records[k].host = h /\ records[k].complete
          BY <2>2, <4>1 DEF Holds
        <5>2. k \in 1 .. saved.position
          BY <1>1, <2>1, <2>2, <3>1 DEF Holds
        <5> QED BY <5>1, <5>2
      <4>2. CASE h = r.host
        BY <1>1, <1>3, <2>1, <4>2
      <4> QED BY <2>1, <4>1, <4>2
    <3> QED BY <1>1, <2>1, <2>2, <3>2 DEF Holds
  <2> QED BY <1>3, <2>1, <2>2
<1>4. CASE ~r.complete
  <2>1. /\ saved \in Checkpoints /\ saved.exists = m.exists /\ saved.scan = m.scan
        /\ saved.completed = m.completed /\ saved.position = m.position
    BY <1>2, <1>1, <1>4 DEF Checkpointed, Checkpoints
  <2>2. Holds(m, records) => Holds(saved, records)
    BY <2>1 DEF Holds
  <2> QED BY <1>4, <2>1, <2>2
<1> QED BY <1>3, <1>4

\* The worker's memory takes up the record of the host being persisted, and is saved.
LEMMA WorkerSavesMoves ==
  ASSUME CoordInv, NEW i \in Parts, WorkerSaves(i) PROVE CoordInv'
<1> DEFINE m == Checkpointed(mem[i], current[i], Len(jsonl[i]))
           r == jsonl[i][Len(jsonl[i])]
<1>1. TypeOK /\ Shapes /\ PhasesAgree /\ WorkersInv /\ WorkerInv(i)
  BY DEF CoordInv, WorkersInv, WorkerInv
<1>2. /\ child[i] = "persisting" /\ r = current[i] /\ current[i] \in Records
      /\ current[i].host \in handled[i] /\ current[i].host \notin mem[i].completed
      /\ Len(jsonl[i]) > 0 /\ jsonl[i] \in Seq(Records) /\ mem[i] \in Checkpoints
  BY <1>1 DEF WorkerSaves, WorkerInv, Persisting, TypeOK, Shapes
<1>3. /\ child'[i] = "scanning" /\ mem'[i] = m /\ part'[i] = m /\ current'[i] = NoHost
      /\ jsonl' = jsonl /\ handled' = handled /\ told' = told /\ metrics' = metrics
      /\ OneWorker(i)
  BY <1>1 DEF WorkerSaves, TypeOK, Shapes, OneWorker
<1>4. scan' = scan /\ resume' = resume
  BY <1>3 DEF OneWorker, coordVars
<1>5. /\ m \in Checkpoints /\ m.exists = mem[i].exists /\ m.scan = mem[i].scan
      /\ r.complete => /\ m.completed = mem[i].completed \cup {r.host}
                       /\ m.position = Len(jsonl[i])
      /\ ~r.complete => m.completed = mem[i].completed /\ m.position = mem[i].position
      /\ Holds(mem[i], jsonl[i]) => Holds(m, jsonl[i])
  <2>1. r.host \notin mem[i].completed /\ m = Checkpointed(mem[i], r, Len(jsonl[i]))
    BY <1>2
  <2> HIDE DEF m, r
  <2>2. r = jsonl[i][Len(jsonl[i])]
    BY DEF r
  <2> QED BY <1>2, <2>1, <2>2, CheckpointedHolds
<1> HIDE DEF m, r
<1>6. /\ mem[i].exists /\ mem[i].scan <= scan /\ mem[i].completed \subseteq handled[i]
      /\ mem[i].completed \subseteq Shard(i) /\ handled[i] \subseteq Shard(i)
  BY <1>1, <1>2 DEF WorkerInv, MemoryFollows, Scanning, Shapes, TypeOK
<1>7. m.completed \subseteq handled[i] /\ m.completed \subseteq Shard(i)
  BY <1>2, <1>5, <1>6
<1>8. WorkerTypes(i)'
  BY <1>1, <1>3, <1>5, <1>6, <1>7 DEF WorkerTypes, TypeOK
<1>9. Bounded'
  BY <1>1 DEF WorkerSaves, Bounded, bounds, TypeOK
<1>10. OfScan(m) => Holds(m, jsonl[i])
  BY <1>1, <1>2, <1>5 DEF WorkerInv, MemoryFollows, Scanning, OfScan
<1>11. PartOfScan(i)'
  BY <1>3, <1>4, <1>5, <1>6, <1>10 DEF PartOfScan, OfScan, Holds
<1>12. MemoryFollows(i)'
  <2>1. OfScan(mem[i])' <=> OfScan(m)
    BY <1>3, <1>4 DEF OfScan
  <2>2. Holds(mem[i], jsonl[i])' <=> Holds(m, jsonl[i])
    BY <1>3, <1>4 DEF Holds
  <2> QED BY <1>3, <1>4, <1>5, <1>6, <1>7, <1>10, <2>1, <2>2 DEF MemoryFollows, OfScan
<1>13. Persisting(i)'
  BY <1>3 DEF Persisting
<1> QED BY <1>2, <1>3, <1>8, <1>9, <1>11, <1>12, <1>13, OneWorkerMoves DEF WorkerInv

\* A worker that has run through its shard, or was told to stop, saves once more and exits.
LEMMA WorkerEndsMoves ==
  ASSUME CoordInv, NEW i \in Parts, WorkerEnds(i) PROVE CoordInv'
<1>1. TypeOK /\ Shapes /\ PhasesAgree /\ WorkersInv /\ WorkerInv(i)
  BY DEF CoordInv, WorkersInv, WorkerInv
<1>2. /\ child[i] = "scanning" /\ child'[i] = "exited" /\ part'[i] = mem[i]
      /\ metrics'[i] = told[i] /\ told' = told /\ mem' = mem /\ handled' = handled
      /\ current' = current /\ jsonl' = jsonl /\ OneWorker(i)
  BY <1>1 DEF WorkerEnds, TypeOK, Shapes, OneWorker
<1>3. scan' = scan /\ resume' = resume
  BY <1>2 DEF OneWorker, coordVars
<1>4. WorkerTypes(i)' /\ Bounded'
  BY <1>1, <1>2 DEF WorkerEnds, WorkerTypes, Bounded, bounds, TypeOK, Shapes
<1>5. WorkerInv(i)'
  BY <1>1, <1>2, <1>3
     DEF WorkerInv, PartOfScan, MemoryFollows, Persisting, Scanning, OfScan, Holds
<1> QED BY <1>2, <1>4, <1>5, OneWorkerMoves

LEMMA WorkerFailsMoves ==
  ASSUME CoordInv, NEW i \in Parts, WorkerFails(i) PROVE CoordInv'
<1>1. TypeOK /\ Shapes /\ PhasesAgree /\ WorkersInv /\ WorkerInv(i)
  BY DEF CoordInv, WorkersInv, WorkerInv
<1>2. /\ child[i] # "none" /\ child'[i] = "failed" /\ part' = part /\ metrics' = metrics
      /\ told' = told /\ mem' = mem /\ handled' = handled /\ current' = current
      /\ jsonl' = jsonl /\ OneWorker(i)
  BY <1>1 DEF WorkerFails, Alive, TypeOK, Shapes, OneWorker
<1>3. scan' = scan /\ resume' = resume
  BY <1>2 DEF OneWorker, coordVars
<1>4. WorkerTypes(i)'
  BY <1>1, <1>2 DEF WorkerTypes, TypeOK, Shapes
<1>5. Bounded'
  BY <1>1, ConstantTypes DEF WorkerFails, Bounded, TypeOK
<1>6. WorkerInv(i)'
  BY <1>1, <1>2, <1>3
     DEF WorkerInv, PartOfScan, MemoryFollows, Persisting, Scanning, OfScan, Holds
<1> QED BY <1>2, <1>4, <1>5, <1>6, OneWorkerMoves

-----------------------------------------------------------------------------
\* The coordinator's own steps.
LEMMA InitCoord == Init => CoordInv
<1> SUFFICES ASSUME Init PROVE CoordInv
  OBVIOUS
<1>1. \A i \in Parts :
        /\ child[i] = "none" /\ mem[i] = Fresh /\ part[i] = Fresh /\ jsonl[i] = <<>>
        /\ current[i] = NoHost /\ handled[i] = {} /\ metrics[i] = FALSE
  BY DEF Init
<1>2. Fresh \in Checkpoints /\ Fresh.completed = {} /\ Fresh.scan = 0 /\ ~Fresh.exists
      /\ Fresh.position = 0
  BY ConstantTypes DEF Fresh, Checkpoints
<1>3. TypeOK
  <2>1. mem \in [Parts -> Checkpoints] /\ part \in [Parts -> Checkpoints]
    BY <1>2 DEF Init
  <2>2. \A i \in Parts :
          /\ handled[i] \subseteq Shard(i) /\ part[i].completed \subseteq Shard(i)
          /\ current[i] \in Records \cup {NoHost}
          /\ jsonl[i] \in Seq({r \in Records : r.host \in Shard(i)})
    <3>1. \A S : <<>> \in Seq(S)
      OBVIOUS
    <3> QED BY <1>1, <1>2, <3>1, Zenon
  <2>3. \A h \in Hosts : output[h] = Absent(h)
    BY DEF Init
  <2>4. /\ resume \in [Parts -> BOOLEAN] /\ told \in [Parts -> BOOLEAN]
        /\ metrics \in [Parts -> BOOLEAN] /\ state \in [exists : BOOLEAN, complete : BOOLEAN]
        /\ child \in [Parts -> {"none", "spawned", "scanning",
                                "persisting", "exited", "failed"}]
    BY DEF Init
  <2>5. /\ scan \in 0 .. MaxScans /\ kills \in 0 .. MaxKills /\ faults \in 0 .. MaxFaults
        /\ interruptions \in 0 .. MaxInterruptions
    BY ConstantTypes DEF Init
  <2> QED BY <2>1, <2>2, <2>3, <2>4, <2>5 DEF Init, TypeOK
<1>4. Shapes
  BY <1>1, <1>2 DEF Init, Shapes
<1>5. PhasesAgree
  BY <1>1 DEF Init, PhasesAgree
<1>6. WorkersInv
  <2> SUFFICES ASSUME NEW i \in Parts PROVE WorkerInv(i)
    BY DEF WorkersInv, WorkerInv
  <2>1. Len(jsonl[i]) = 0 /\ scan = 0
    BY <1>1 DEF Init
  <2> QED BY <1>1, <1>2, <2>1
          DEF WorkerInv, PartOfScan, MemoryFollows, Persisting, Scanning, OfScan, Holds
<1>7. NoResultLost /\ CompleteIsCovered
  BY DEF Init, NoResultLost, CompleteIsCovered
<1> QED BY <1>3, <1>4, <1>5, <1>6, <1>7 DEF CoordInv

\* A launch: the state file is incomplete, and nobody has opened a part yet.
LEMMA LaunchKeeps ==
  ASSUME CoordInv, NEW resumes \in [Parts -> BOOLEAN], Launch(resumes), coord = "down",
         scan' \in 1 .. MaxScans, scan' = scan + 1 \/ scan' = scan,
         \A i \in Parts : ~resumes[i] /\ part[i].exists => part[i].scan # scan'
  PROVE  CoordInv'
<1>1. TypeOK /\ Shapes /\ PhasesAgree /\ WorkersInv
  BY DEF CoordInv
<1>2. /\ child' = [i \in Parts |-> "spawned"] /\ resume' = resumes /\ coord' = "waiting"
      /\ state' = [exists |-> TRUE, complete |-> FALSE] /\ ~verdict
      /\ stop' = FALSE
      /\ UNCHANGED <<verdict, told, mem, handled, current, jsonl, part, metrics, output, kills,
                     faults, interruptions>>
  BY <1>1 DEF Launch, StateAtLaunch, PhasesAgree, bounds
<1>3. TypeOK'
  <2>1. /\ child' \in [Parts -> {"none", "spawned", "scanning",
                                 "persisting", "exited", "failed"}]
        /\ resume' \in [Parts -> BOOLEAN] /\ state' \in [exists : BOOLEAN, complete : BOOLEAN]
    BY <1>2
  <2>2. scan' \in 0 .. MaxScans
    BY ConstantTypes
  <2> QED BY <1>1, <1>2, <2>1, <2>2 DEF TypeOK
<1>4. Shapes'
  BY <1>1, <1>2 DEF Shapes
<1>5. PhasesAgree'
  BY <1>1, <1>2 DEF PhasesAgree
<1>6. WorkersInv'
  <2> SUFFICES ASSUME NEW i \in Parts PROVE WorkerInv(i)'
    BY DEF WorkersInv, WorkerInv
  <2>1. child'[i] = "spawned" /\ resume'[i] = resumes[i]
    BY <1>2
  <2>2. PartOfScan(i) /\ part[i].scan \in Nat /\ scan \in Nat
    BY <1>1, ConstantTypes DEF WorkersInv, TypeOK, Checkpoints
  <2>3. part[i].scan <= scan' /\ (~part[i].exists => part[i] = Fresh)
    BY <2>2 DEF PartOfScan
  <2>4. part[i].scan = scan' => scan' = scan
    BY <2>2 DEF PartOfScan
  <2>5. OfScan(part[i])' => Holds(part[i], jsonl[i])'
    BY <1>2, <2>2, <2>4 DEF PartOfScan, OfScan, Holds
  <2>6. PartOfScan(i)'
    BY <1>2, <2>1, <2>3, <2>5 DEF PartOfScan, OfScan
  <2> QED BY <2>1, <2>6 DEF WorkerInv, MemoryFollows, Persisting, Scanning
<1>7. NoResultLost' /\ CompleteIsCovered'
  BY <1>2 DEF NoResultLost, CompleteIsCovered
<1> QED BY <1>3, <1>4, <1>5, <1>6, <1>7 DEF CoordInv

LEMMA StartsKeep == ASSUME CoordInv, StartFresh \/ StartResume PROVE CoordInv'
<1>1. TypeOK /\ PhasesAgree /\ WorkersInv /\ scan \in 0 .. MaxScans /\ MaxScans \in Nat
  BY ConstantTypes DEF CoordInv, TypeOK
<1>2. CASE StartFresh
  <2>1. scan' = scan + 1 /\ scan < MaxScans
    BY <1>2 DEF StartFresh
  <2>2. \A i \in Parts : part[i].scan # scan'
    BY <1>1, <2>1 DEF WorkersInv, PartOfScan, TypeOK, Checkpoints
  <2>3. scan' \in 1 .. MaxScans
    BY <1>1, <2>1
  <2> DEFINE nobody == [i \in Parts |-> FALSE]
  <2>4. nobody \in [Parts -> BOOLEAN]
    OBVIOUS
  <2>5. Launch(nobody) /\ coord = "down"
    BY <1>2 DEF StartFresh
  <2> HIDE DEF nobody
  <2> QED BY <2>1, <2>2, <2>3, <2>4, <2>5, LaunchKeeps
<1>3. CASE StartResume
  <2>1. scan' = scan /\ scan >= 1
    BY <1>1, <1>3 DEF StartResume, PhasesAgree
  <2>2. Resumes \in [Parts -> BOOLEAN] /\ \A i \in Parts : Resumes[i] = part[i].exists
    BY <1>1 DEF Resumes, TypeOK, Checkpoints
  <2> QED BY <1>1, <1>3, <2>1, <2>2, LaunchKeeps DEF StartResume
<1> QED BY <1>2, <1>3

\* The coordinator has collected its workers: nobody moves any more.
LEMMA MergePartsKeeps == ASSUME CoordInv, MergeParts PROVE CoordInv'
<1>1. TypeOK /\ Shapes /\ PhasesAgree /\ WorkersInv
  BY DEF CoordInv
<1>2. /\ coord = "waiting" /\ ~verdict /\ ~state.complete /\ scan >= 1
      /\ child' = [i \in Parts |-> "none"] /\ coord' \in {"down", "merging"}
      /\ UNCHANGED <<state, scan, verdict, stop, resume, told, mem, handled, current, jsonl,
                     part, metrics, kills, faults, interruptions>>
  BY <1>1 DEF MergeParts, PhasesAgree, TypeOK, bounds
<1>3. TypeOK' /\ Shapes'
  <2>1. output' = output \/ output' = [h \in Hosts |-> Absent(h)]
    BY DEF MergeParts
  <2>2. /\ \A h \in Hosts : output'[h] \in {r \in Records : r.host = h} \cup {Absent(h)}
        /\ output' \in [Hosts -> Records \cup {Absent(h) : h \in Hosts}]
    BY <1>1, <2>1 DEF TypeOK, Shapes
  <2> QED BY <1>1, <1>2, <2>2 DEF TypeOK, Shapes
<1>4. PhasesAgree'
  <2>1. coord' = "merging" => \A i \in Parts : part'[i].exists
    BY <1>1 DEF MergeParts, WorkersInv, PartOfScan
  <2> QED BY <1>1, <1>2, <2>1 DEF PhasesAgree
<1>5. WorkersInv'
  BY <1>1, <1>2
     DEF WorkersInv, PartOfScan, MemoryFollows, Persisting, Scanning, OfScan, Holds
<1>6. NoResultLost' /\ CompleteIsCovered'
  BY <1>2 DEF NoResultLost, CompleteIsCovered
<1> QED BY <1>3, <1>4, <1>5, <1>6 DEF CoordInv

LEMMA SaveStateKeeps == ASSUME CoordInv, SaveState PROVE CoordInv'
<1>1. TypeOK /\ Shapes /\ PhasesAgree /\ WorkersInv /\ CompleteIsCovered
  BY DEF CoordInv
<1>2. /\ coord = "merged" /\ scan >= 1 /\ \A i \in Parts : child[i] = "none"
      /\ state' = [exists |-> TRUE, complete |-> verdict] /\ coord' = "down" /\ ~verdict'
      /\ verdict' = FALSE
      /\ UNCHANGED <<scan, stop, resume, child, told, mem, handled, current, jsonl, part,
                     metrics, output, kills, faults, interruptions>>
  BY <1>1 DEF SaveState, PhasesAgree, bounds
<1>3. TypeOK' /\ Shapes'
  BY <1>1, <1>2 DEF TypeOK, Shapes
<1>4. PhasesAgree'
  BY <1>1, <1>2 DEF PhasesAgree
<1>5. WorkersInv'
  BY <1>1, <1>2
     DEF WorkersInv, PartOfScan, MemoryFollows, Persisting, Scanning, OfScan, Holds
<1>6. NoResultLost'
  BY <1>2 DEF NoResultLost
<1>7. CompleteIsCovered'
  <2>1. AllCovered' <=> AllCovered
    BY <1>2 DEF AllCovered, Settles, OfOlderScan
  <2>2. state'.complete = verdict
    BY <1>2
  <2> QED BY <1>1, <1>2, <2>1, <2>2 DEF CompleteIsCovered
<1> QED BY <1>3, <1>4, <1>5, <1>6, <1>7 DEF CoordInv

LEMMA StopRequestKeeps == ASSUME CoordInv, StopRequest PROVE CoordInv'
<1>1. TypeOK /\ Shapes /\ PhasesAgree /\ WorkersInv
  BY DEF CoordInv
<1>2. /\ coord = "waiting" /\ ~verdict /\ ~state.complete /\ scan >= 1 /\ stop' = TRUE
      /\ UNCHANGED <<state, scan, coord, verdict, resume, mem, handled, current, jsonl, part,
                     metrics, output, kills, faults>>
  BY <1>1 DEF StopRequest, PhasesAgree, TypeOK
<1>3. \A i \in Parts : child'[i] = child[i] \/ child'[i] = "failed"
  BY DEF StopRequest
<1>4. TypeOK' /\ Shapes'
  <2>1. child' \in [Parts -> {"none", "spawned", "scanning", "persisting", "exited", "failed"}]
    BY <1>1 DEF StopRequest, TypeOK
  <2>2. told' \in [Parts -> BOOLEAN]
    BY <1>1 DEF StopRequest, TypeOK
  <2>3. interruptions' \in 0 .. MaxInterruptions
    BY <1>1, ConstantTypes DEF StopRequest, TypeOK
  <2> QED BY <1>1, <1>2, <2>1, <2>2, <2>3 DEF TypeOK, Shapes
<1>5. PhasesAgree'
  BY <1>1, <1>2 DEF PhasesAgree
<1>6. WorkersInv'
  <2> SUFFICES ASSUME NEW i \in Parts PROVE WorkerInv(i)'
    BY DEF WorkersInv, WorkerInv
  <2>1. CASE child'[i] = child[i]
    BY <1>1, <1>2, <2>1, WorkerUntouched DEF WorkersInv, WorkerInv
  <2>2. CASE child'[i] = "failed"
    BY <1>1, <1>2, <2>2
       DEF WorkersInv, WorkerInv, PartOfScan, MemoryFollows, Persisting, Scanning, OfScan, Holds
  <2> QED BY <1>3, <2>1, <2>2
<1>7. NoResultLost' /\ CompleteIsCovered'
  BY <1>2 DEF NoResultLost, CompleteIsCovered
<1> QED BY <1>4, <1>5, <1>6, <1>7 DEF CoordInv

\* What was flushed stays: the parts, their states, the output and the state file.
LEMMA KillKeeps == ASSUME CoordInv, Kill PROVE CoordInv'
<1>1. TypeOK /\ Shapes /\ PhasesAgree /\ WorkersInv
  BY DEF CoordInv
<1>2. /\ coord # "down" /\ coord' = "down" /\ verdict' = FALSE /\ ~state.complete /\ scan >= 1
      /\ child' = [i \in Parts |-> "none"] /\ mem' = [i \in Parts |-> Fresh]
      /\ handled' = [i \in Parts |-> {}] /\ current' = [i \in Parts |-> NoHost]
      /\ UNCHANGED <<state, scan, stop, resume, told, jsonl, part, metrics, output, faults,
                     interruptions>>
  BY <1>1 DEF Kill, PhasesAgree, TypeOK
<1>3. Fresh \in Checkpoints /\ Fresh.completed = {}
  BY ConstantTypes DEF Fresh, Checkpoints
<1>4. TypeOK'
  <2>1. kills' \in 0 .. MaxKills
    BY <1>1, ConstantTypes DEF Kill, TypeOK
  <2>2. \A i \in Parts : handled'[i] \subseteq Shard(i) /\ current'[i] \in Records \cup {NoHost}
    BY <1>2
  <2>3. /\ mem' \in [Parts -> Checkpoints]
        /\ child' \in [Parts -> {"none", "spawned", "scanning",
                                 "persisting", "exited", "failed"}]
    BY <1>2, <1>3
  <2> QED BY <1>1, <1>2, <2>1, <2>2, <2>3 DEF TypeOK
<1>5. Shapes'
  BY <1>1, <1>2, <1>3 DEF Shapes
<1>6. PhasesAgree'
  BY <1>1, <1>2 DEF PhasesAgree
<1>7. WorkersInv'
  BY <1>1, <1>2
     DEF WorkersInv, PartOfScan, MemoryFollows, Persisting, Scanning, OfScan, Holds
<1>8. NoResultLost' /\ CompleteIsCovered'
  BY <1>2 DEF NoResultLost, CompleteIsCovered
<1> QED BY <1>4, <1>5, <1>6, <1>7, <1>8 DEF CoordInv

\* As many complete hosts as there are targets are all of them.
LEMMA AllTargets ==
  ASSUME NEW S \in SUBSET Hosts, Cardinality(S) = Len(Targets) PROVE S = Hosts
<1>1. Targets \in Surjection(1 .. Len(Targets), Hosts)
  BY ConstantTypes DEF Hosts, Surjection
<1>2. IsFiniteSet(1 .. Len(Targets)) /\ Cardinality(1 .. Len(Targets)) = Len(Targets)
  BY ConstantTypes, FS_Interval
<1>3. IsFiniteSet(Hosts) /\ Cardinality(Hosts) <= Len(Targets)
  BY <1>1, <1>2, FS_Surjection
<1>4. Cardinality(S) <= Cardinality(Hosts) /\ (Cardinality(Hosts) = Cardinality(S) => S = Hosts)
  BY <1>3, FS_Subset
<1>5. Cardinality(Hosts) \in Nat
  BY <1>3, FS_CardinalityType
<1> QED BY <1>3, <1>4, <1>5, ConstantTypes

\* What the merged output is to have of a host: a function of its own for the proofs.
Written == [h \in Hosts |-> IF KeepsHost(Merged[h]) THEN Merged[h] ELSE Absent(h)]

\* What is merged for a host of worker i, and what is written of it: a complete record of
\* the part settles the output.
LEMMA MergedRecord ==
  ASSUME CoordInv, NEW i \in Parts, NEW h \in Shard(i)
  PROVE  /\ h \in Hosts
         /\ Merged[h] \in {r \in Records : r.host = h} \cup {Absent(h)}
         /\ Written[h] \in {r \in Records : r.host = h} \cup {Absent(h)}
         /\ HasComplete(jsonl[i], h) => Merged[h].complete
         /\ Merged[h].complete => \E k \in 1 .. Len(jsonl[i]) :
              /\ jsonl[i][k].host = h /\ jsonl[i][k].complete
              /\ Written[h] = IF OpenOnly /\ ~jsonl[i][k].open
                               THEN Absent(h) ELSE jsonl[i][k]
<1>1. h \in Hosts /\ jsonl[i] \in Seq(Records)
  BY ShardsPartition DEF CoordInv, Shapes
<1>2. Merged[h] = Surviving(jsonl[i], h)
  BY MergedOfPart
<1>3. /\ \/ Merged[h] = Absent(h)
         \/ \E k \in 1 .. Len(jsonl[i]) : Merged[h] = jsonl[i][k] /\ jsonl[i][k].host = h
      /\ HasComplete(jsonl[i], h) => Merged[h].complete
  BY <1>1, <1>2, SurvivingRecord
<1>4. \A k \in 1 .. Len(jsonl[i]) : jsonl[i][k] \in Records
  BY <1>1
<1>5. Merged[h] \in {r \in Records : r.host = h} \cup {Absent(h)}
  BY <1>3, <1>4
<1>6. Written[h] = IF KeepsHost(Merged[h]) THEN Merged[h] ELSE Absent(h)
  BY <1>1 DEF Written
<1>7. ASSUME Merged[h].complete
      PROVE  \E k \in 1 .. Len(jsonl[i]) :
               /\ jsonl[i][k].host = h /\ jsonl[i][k].complete
               /\ Written[h] = IF OpenOnly /\ ~jsonl[i][k].open
                                THEN Absent(h) ELSE jsonl[i][k]
  <2>1. Merged[h] # Absent(h)
    BY <1>7 DEF Absent
  <2>2. PICK k \in 1 .. Len(jsonl[i]) : Merged[h] = jsonl[i][k] /\ jsonl[i][k].host = h
    BY <1>3, <2>1
  <2>3. KeepsHost(Merged[h]) <=> ~(OpenOnly /\ ~jsonl[i][k].open)
    BY <2>2 DEF KeepsHost
  <2> QED BY <1>6, <1>7, <2>2, <2>3, Zenon
<1> QED BY <1>1, <1>3, <1>5, <1>6, <1>7

LEMMA WriteMergedKeeps == ASSUME CoordInv, WriteMerged PROVE CoordInv'
<1>1. TypeOK /\ Shapes /\ PhasesAgree /\ WorkersInv
  BY DEF CoordInv
<1>2. /\ coord = "merging" /\ coord' = "merged" /\ scan >= 1 /\ ~state.complete
      /\ \A i \in Parts : child[i] = "none" /\ part[i].exists
      /\ output' = Written /\ verdict' = IsComplete(Merged)
      /\ UNCHANGED <<state, scan, stop, resume, child, told, mem, handled, current, jsonl,
                     part, metrics, kills, faults, interruptions>>
  BY <1>1 DEF WriteMerged, Written, PhasesAgree, TypeOK, bounds
<1>3. Written \in [Hosts -> Records \cup {Absent(h) : h \in Hosts}]
      /\ \A h \in Hosts : Written[h] \in {r \in Records : r.host = h} \cup {Absent(h)}
  <2>1. ASSUME NEW h \in Hosts
        PROVE  Written[h] \in {r \in Records : r.host = h} \cup {Absent(h)}
    BY ShardsPartition, MergedRecord
  <2>2. Written = [h \in Hosts |-> Written[h]]
    BY DEF Written
  <2> QED BY <2>1, <2>2
<1>4. IsComplete(Merged) \in BOOLEAN
  BY DEF IsComplete
<1>5. TypeOK' /\ Shapes'
  BY <1>1, <1>2, <1>3, <1>4 DEF TypeOK, Shapes
<1>6. PhasesAgree'
  BY <1>1, <1>2 DEF PhasesAgree
<1>7. WorkersInv'
  BY <1>1, <1>2
     DEF WorkersInv, PartOfScan, MemoryFollows, Persisting, Scanning, OfScan, Holds
<1>8. ASSUME NEW i \in Parts, NEW h \in Shard(i), Merged[h].complete
      PROVE  \E k \in DOMAIN jsonl[i] : Settles(jsonl[i][k], h)'
  <2>1. PICK k \in 1 .. Len(jsonl[i]) :
               /\ jsonl[i][k].host = h /\ jsonl[i][k].complete
               /\ Written[h] = IF OpenOnly /\ ~jsonl[i][k].open
                                THEN Absent(h) ELSE jsonl[i][k]
    BY <1>8, MergedRecord
  <2>2. k \in DOMAIN jsonl[i]
    BY <1>1, <2>1 DEF Shapes
  <2> QED BY <1>2, <2>1, <2>2 DEF Settles
<1>9. NoResultLost'
  <2> SUFFICES ASSUME NEW i \in Parts, part[i].scan = scan, NEW h \in part[i].completed
               PROVE  \E k \in DOMAIN jsonl[i] : Settles(jsonl[i][k], h)'
    BY <1>2 DEF NoResultLost
  <2>1. h \in Shard(i) /\ jsonl[i] \in Seq(Records) /\ part[i].position \in Nat
    BY <1>1 DEF TypeOK, Shapes, Checkpoints
  <2>2. Holds(part[i], jsonl[i])
    BY <1>1 DEF WorkersInv, PartOfScan, OfScan
  <2>3. PICK k \in 1 .. part[i].position : jsonl[i][k].host = h /\ jsonl[i][k].complete
    BY <2>2 DEF Holds
  <2>4. k \in DOMAIN jsonl[i]
    BY <2>1, <2>2 DEF Holds
  <2>5. HasComplete(jsonl[i], h)
    BY <2>3, <2>4 DEF HasComplete
  <2> QED BY <1>8, <2>1, <2>5, MergedRecord
<1>10. CompleteIsCovered'
  <2> SUFFICES ASSUME IsComplete(Merged), NEW i \in Parts, NEW h \in Shard(i)
               PROVE  \E k \in DOMAIN jsonl[i] :
                        Settles(jsonl[i][k], h)' /\ (jsonl[i][k].scan = scan \/ OfOlderScan)
    BY <1>2 DEF CompleteIsCovered, AllCovered, OfOlderScan
  <2>1. Merged[h].complete
    <3> DEFINE S == {g \in Hosts : Merged[g].complete}
    <3>1. S \in SUBSET Hosts /\ Cardinality(S) = Len(Targets)
      BY DEF IsComplete
    <3>2. S = Hosts
      BY <3>1, AllTargets
    <3> QED BY <3>2, ShardsPartition
  <2>2. PICK k \in DOMAIN jsonl[i] : Settles(jsonl[i][k], h)'
    BY <1>8, <2>1
  <2>3. k \in 1 .. Len(jsonl[i])
    BY <1>1 DEF Shapes
  <2>4. ~OfOlderScan => Holds(part[i], jsonl[i])
    BY <1>1, <1>2 DEF OfOlderScan, WorkersInv, PartOfScan, OfScan
  <2> QED BY <2>2, <2>3, <2>4 DEF Holds
<1> QED BY <1>5, <1>6, <1>7, <1>9, <1>10 DEF CoordInv

LEMMA StepCoord == ASSUME CoordInv, [Next]_vars PROVE CoordInv'
<1>1. CASE UNCHANGED vars
  <2>1. UNCHANGED <<state, scan, coord, verdict, stop, resume, child, told, mem, handled,
                    current, jsonl, part, metrics, output, kills, faults, interruptions>>
    BY <1>1 DEF vars
  <2>2. TypeOK' /\ Shapes' /\ PhasesAgree'
    BY <2>1 DEF CoordInv, TypeOK, Shapes, PhasesAgree
  <2>3. WorkersInv'
    BY <2>1 DEF CoordInv, WorkersInv, PartOfScan, MemoryFollows, Persisting, Scanning, OfScan,
                Holds
  <2>4. NoResultLost' /\ CompleteIsCovered'
    BY <2>1 DEF CoordInv, NoResultLost, CompleteIsCovered, AllCovered, Settles, OfOlderScan
  <2> QED BY <2>2, <2>3, <2>4 DEF CoordInv
<1>2. CASE \E i \in Parts : WorkerStep(i) \/ WorkerFails(i)
  BY <1>2, WorkerStartsMoves, WorkerWritesMoves, WorkerSavesMoves, WorkerEndsMoves,
     WorkerFailsMoves DEF WorkerStep
<1>3. CASE \/ StartFresh \/ StartResume \/ MergeParts \/ WriteMerged \/ SaveState
           \/ StopRequest \/ Kill
  BY <1>3, StartsKeep, MergePartsKeeps, WriteMergedKeeps, SaveStateKeeps, StopRequestKeeps,
     KillKeeps
<1> QED BY <1>1, <1>2, <1>3 DEF Next

-----------------------------------------------------------------------------
\* The part states, the workers' memory and their parts agree, over any number of runs.
THEOREM CoordInvariant == Spec => []CoordInv
<1> QED BY InitCoord, StepCoord, PTL DEF Spec

\* The types, and that each worker keeps to its shard: no host is in two parts.
THEOREM CoordTypeOK == Spec => []TypeOK
<1>1. CoordInv => TypeOK
  BY DEF CoordInv
<1> QED BY <1>1, CoordInvariant, PTL

\* Of each host that a part state of this scan lists the merged output has a complete
\* record of its part, or nothing when --open-only leaves that record out: collect_parts
\* never prefers a partial record of it.
THEOREM NoResultIsLost == Spec => []NoResultLost
<1>1. CoordInv => NoResultLost
  BY DEF CoordInv
<1> QED BY <1>1, CoordInvariant, PTL

\* A state file that says complete, which lets a fresh scan wipe the parts, stands beside
\* a complete record of every target in the parts, and an output with exactly those of
\* them that --open-only keeps.
THEOREM CompleteScanIsCovered == Spec => []CompleteMeansCovered
<1>1. CoordInv => CompleteMeansCovered
  BY DEF CoordInv, CompleteIsCovered, CompleteMeansCovered, AllCovered
<1> QED BY <1>1, CoordInvariant, PTL

-----------------------------------------------------------------------------
\* Every host that a part state of this scan lists has its record below its position.
AllProtected == Protected = Completed

LEMMA CompletedAreProtected == CoordInv => AllProtected
<1> SUFFICES ASSUME CoordInv, NEW h \in Completed PROVE h \in Protected
  BY DEF AllProtected, Protected
<1>1. PICK i \in OfThisScan : h \in part[i].completed
  BY DEF Completed
<1>2. i \in Parts /\ part[i].position \in Nat /\ jsonl[i] \in Seq(Records)
  BY <1>1 DEF OfThisScan, CoordInv, TypeOK, Shapes, Checkpoints
<1>3. Holds(part[i], jsonl[i])
  BY <1>1, <1>2 DEF OfThisScan, CoordInv, WorkersInv, PartOfScan, OfScan
<1>4. PICK k \in 1 .. part[i].position : jsonl[i][k].host = h /\ jsonl[i][k].complete
  BY <1>1, <1>3 DEF Holds
<1>5. k \in DOMAIN jsonl[i] /\ k <= part[i].position
  BY <1>2, <1>3 DEF Holds
<1> QED BY <1>1, <1>4, <1>5 DEF Protected

LEMMA NextProtected == CoordInv' => AllProtected'
  BY CompletedAreProtected, PTL

\* A part state of a worker of this scan, rewritten by what the worker has in memory.
LEMMA PartRewritten ==
  ASSUME CoordInv, NEW i \in Parts, Scanning(i), scan' = scan, NEW added \in SUBSET Shard(i),
         part' = [part EXCEPT ![i] = part'[i]], part'[i].scan = mem[i].scan,
         part'[i].completed = mem[i].completed \cup added
  PROVE  /\ OfScan(mem[i]) => Completed' = Completed \cup added
         /\ ~OfScan(mem[i]) => Completed' = Completed
<1>1. /\ OfScan(part[i]) => OfScan(mem[i])
      /\ OfScan(mem[i]) => mem[i].completed = IF OfScan(part[i]) THEN part[i].completed ELSE {}
      /\ \A j \in Parts : j # i => part'[j] = part[j]
  BY DEF CoordInv, WorkersInv, MemoryFollows, TypeOK
<1>2. CASE OfScan(mem[i])
  <2>1. OfThisScan' = OfThisScan \cup {i}
    BY <1>1, <1>2 DEF OfThisScan, OfScan
  <2>2. part'[i].completed = (IF i \in OfThisScan THEN part[i].completed ELSE {}) \cup added
    BY <1>1, <1>2 DEF OfThisScan, OfScan
  <2>3. \A j \in OfThisScan : j # i => part'[j].completed = part[j].completed
    BY <1>1 DEF OfThisScan
  <2> QED BY <1>2, <2>1, <2>2, <2>3 DEF Completed
<1>3. CASE ~OfScan(mem[i])
  <2>1. OfThisScan' = OfThisScan /\ i \notin OfThisScan
    BY <1>1, <1>3 DEF OfThisScan, OfScan
  <2>2. \A j \in OfThisScan : part'[j].completed = part[j].completed
    BY <1>1, <2>1 DEF OfThisScan
  <2> QED BY <1>3, <2>1, <2>2 DEF Completed
<1> QED BY <1>2, <1>3

\* Every step but a fresh start, seen through the part states, finishes a host of a worker
\* that has just persisted it, or nothing.
LEMMA LedgerStep ==
  ASSUME CoordInv, CoordInv', Next PROVE Ledger!Next \/ UNCHANGED Ledger!vars
<1>1. Protected = Completed /\ Protected' = Completed'
  BY CompletedAreProtected, NextProtected DEF AllProtected
<1>2. CASE StartFresh
  <2>1. scan' = scan + 1 /\ part' = part
    BY <1>2 DEF StartFresh, Launch
  <2>2. \A i \in Parts : part[i].scan # scan'
    BY <2>1, ConstantTypes DEF CoordInv, WorkersInv, PartOfScan, TypeOK, Checkpoints
  <2>3. Completed' = {}
    BY <2>1, <2>2 DEF Completed, OfThisScan
  <2> QED BY <1>1, <2>1, <2>3 DEF Ledger!Next, Ledger!FreshScan
<1>3. ASSUME NEW i \in Parts, WorkerSaves(i) PROVE Ledger!Next \/ UNCHANGED Ledger!vars
  <2> DEFINE m == Checkpointed(mem[i], current[i], Len(jsonl[i]))
  <2>1. /\ Scanning(i) /\ scan' = scan /\ part'[i] = m
        /\ part' = [part EXCEPT ![i] = part'[i]]
    BY <1>3 DEF CoordInv, TypeOK, WorkerSaves, Scanning, coordVars
  <2>2. /\ current[i] \in Records /\ current[i].host \notin mem[i].completed
        /\ current[i].host \in Shard(i) /\ mem[i] \in Checkpoints
        /\ current[i].host \in Hosts /\ current[i].complete \in BOOLEAN
    <3>1. current[i] \in Records /\ current[i].host \in handled[i] \ mem[i].completed
      BY <1>3 DEF CoordInv, WorkersInv, Persisting, WorkerSaves
    <3> QED BY <3>1 DEF CoordInv, TypeOK, Records
  <2>3. CASE current[i].complete
    <3> DEFINE h == current[i].host
    <3>1. m.scan = mem[i].scan /\ m.completed = mem[i].completed \cup {h}
      BY <2>2, <2>3 DEF Checkpointed, Checkpoints
    <3>2. CASE OfScan(mem[i])
      <4>1. Completed' = Completed \cup {h}
        BY <2>1, <2>2, <3>1, <3>2, PartRewritten
      <4>2. h \notin Completed
        <5> SUFFICES ASSUME NEW j \in OfThisScan, h \in part[j].completed PROVE FALSE
          BY DEF Completed
        <5>1. j \in Parts /\ part[j].completed \subseteq Shard(j) /\ OfScan(part[j])
          BY DEF OfThisScan, OfScan, CoordInv, TypeOK
        <5>2. j = i
          BY <2>2, <5>1, ShardsPartition
        <5>3. mem[i].completed = part[i].completed
          BY <2>1, <3>2, <5>1, <5>2 DEF CoordInv, WorkersInv, MemoryFollows
        <5> QED BY <2>2, <5>2, <5>3
      <4> QED BY <1>1, <2>1, <2>2, <4>1, <4>2 DEF Ledger!Next, Ledger!FinishHost
    <3>3. CASE ~OfScan(mem[i])
      <4> HIDE DEF m, h
      <4>1. part'[i].scan = mem[i].scan /\ part'[i].completed = mem[i].completed \cup {h}
        BY <2>1, <3>1
      <4>2. {h} \in SUBSET Shard(i)
        BY <2>2 DEF h
      <4>3. Completed' = Completed
        BY <2>1, <3>3, <4>1, <4>2, PartRewritten, Zenon
      <4> QED BY <1>1, <2>1, <4>3 DEF Ledger!vars
    <3> QED BY <3>2, <3>3
  <2>4. CASE ~current[i].complete
    <3>1. m.scan = mem[i].scan /\ m.completed = mem[i].completed \cup {}
      BY <2>2, <2>4 DEF Checkpointed, Checkpoints
    <3>2. {} \in SUBSET Shard(i)
      OBVIOUS
    <3>3. part'[i].scan = mem[i].scan /\ part'[i].completed = mem[i].completed \cup {}
      BY <2>1, <3>1
    <3>4. \/ OfScan(mem[i]) /\ Completed' = Completed \cup {}
          \/ Completed' = Completed
      BY <2>1, <3>2, <3>3, PartRewritten, Zenon
    <3> QED BY <1>1, <2>1, <3>4 DEF Ledger!vars
  <2> QED BY <2>2, <2>3, <2>4
<1>4. ASSUME NEW i \in Parts, WorkerEnds(i) PROVE UNCHANGED Ledger!vars
  <2>1. /\ Scanning(i) /\ scan' = scan /\ part'[i] = mem[i]
        /\ part' = [part EXCEPT ![i] = part'[i]]
    BY <1>4 DEF CoordInv, TypeOK, WorkerEnds, Scanning, coordVars
  <2>2. /\ part'[i].scan = mem[i].scan /\ part'[i].completed = mem[i].completed \cup {}
        /\ {} \in SUBSET Shard(i)
    BY <2>1
  <2>3. \/ OfScan(mem[i]) /\ Completed' = Completed \cup {}
        \/ Completed' = Completed
    BY <2>1, <2>2, PartRewritten, Zenon
  <2> QED BY <1>1, <2>1, <2>3 DEF Ledger!vars
<1>5. ASSUME part' = part, scan' = scan PROVE UNCHANGED Ledger!vars
  <2>1. Completed' = Completed
    BY <1>5 DEF Completed, OfThisScan
  <2> QED BY <1>1, <1>5, <2>1 DEF Ledger!vars
<1>6. ASSUME NEW i \in Parts,
             \/ WorkerStarts(i) \/ WorkerFails(i)
             \/ \E h \in Hosts, complete, open \in BOOLEAN : WorkerWrites(i, h, complete, open)
      PROVE  part' = part /\ scan' = scan
  BY <1>6 DEF WorkerStarts, WorkerOpens, WorkerFails, WorkerWrites, coordVars
<1>7. ASSUME StartResume \/ MergeParts \/ WriteMerged \/ SaveState \/ StopRequest \/ Kill
      PROVE  part' = part /\ scan' = scan
  BY <1>7 DEF StartResume, Launch, MergeParts, WriteMerged, SaveState, StopRequest, Kill
<1> QED BY <1>2, <1>3, <1>4, <1>5, <1>6, <1>7 DEF Next, WorkerStep

\* The workers' part states together keep the ledger of the scan: a host that one of them
\* lists stays listed and keeps its record through every kill, failure, stop and resume.
THEOREM CoordinatorKeepsLedger == Spec => KeepsLedger
<1>1. Init => Ledger!Init
  <2> SUFFICES ASSUME Init PROVE Ledger!Init
    OBVIOUS
  <2>1. \A i \in Parts : part[i].completed = {}
    BY DEF Init, Fresh
  <2>2. Completed = {} /\ scan = 0
    BY <2>1 DEF Completed, OfThisScan, Init
  <2> QED BY <2>2 DEF Ledger!Init, Protected
<1>2. CoordInv /\ CoordInv' /\ [Next]_vars => [Ledger!Next]_(Ledger!vars)
  <2>1. CASE Next
    BY <2>1, LedgerStep
  <2>2. CASE UNCHANGED vars
    BY <2>2 DEF vars, Ledger!vars, Completed, Protected, OfThisScan
  <2> QED BY <2>1, <2>2
<1> QED BY <1>1, <1>2, CoordInvariant, PTL DEF Spec, KeepsLedger, Ledger!Spec
=============================================================================
