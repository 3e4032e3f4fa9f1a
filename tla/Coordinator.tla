---------------------------- MODULE Coordinator -----------------------------
(***************************************************************************)
(* coordinate of runtime/multiprocess.rs: a coordinator that deals the     *)
(* targets out to worker processes, waits for them, merges their parts and *)
(* keeps a state file; over any number of runs, kills, stops and resumes.  *)
(*                                                                         *)
(* A worker is execute_scan on its shard.  ScanStore has its files cell by *)
(* cell; here a record of a part is one element and a persist two steps.   *)
(* Parts keep every host (shard_settings clears open_only); the merged     *)
(* output keeps those that keeps_host keeps.  Abstracted: budgets,         *)
(* manifests beyond "resume or not", and all of the metrics but what       *)
(* completion is decided from.  A kill takes the workers along.            *)
(*                                                                         *)
(* Nothing uses an operator marked as a faulty variant: it is the one      *)
(* below it with a plausible mistake, for the mutation checks.             *)
(***************************************************************************)
EXTENDS Naturals, Sequences, FiniteSets

CONSTANTS
  Targets,            \* the target list: a sequence of distinct hosts
  Processes,          \* settings.processes
  OpenOnly,           \* settings.open_only of the coordinator
  Finds,              \* of each host: whether a sweep may find a port open, or none
  MaxScans,           \* bound on the fresh scans that name this state file
  MaxKills,           \* bound on the kills of the process group
  MaxFaults,          \* bound on the workers that exit with an error
  MaxInterruptions    \* bound on the sweeps cut short and on the stop requests

Hosts == {Targets[k] : k \in DOMAIN Targets}
Parts == 0 .. Processes - 1

ASSUME CoordinatorAssumption ==
  /\ Targets \in Seq(Hosts)
  /\ \A j, k \in DOMAIN Targets : Targets[j] = Targets[k] => j = k
  /\ Processes \in 2 .. Len(Targets)     \* validate_process_budget
  /\ OpenOnly \in BOOLEAN
  /\ Finds \in [Hosts -> SUBSET BOOLEAN] /\ \A h \in Hosts : Finds[h] # {}
  /\ MaxScans \in Nat \ {0} /\ MaxKills \in Nat /\ MaxFaults \in Nat
  /\ MaxInterruptions \in Nat

VARIABLES
  state,              \* the coordinator's state file
  scan,               \* how many fresh scans there have been; the scan_id of records
  coord,              \* "down", "waiting" for the workers, "merging" or "merged"
  verdict,            \* what state.complete is about to become
  stop,               \* the coordinator's CancellationToken
  resume,             \* of each manifest: settings.resume.is_some()
  child,              \* each worker: "none", "spawned", "scanning", "persisting",
                      \* "exited" or "failed"
  told,               \* the CancellationToken of each worker
  mem,                \* the Checkpoint of each worker in memory
  handled,            \* the hosts each worker has handed to persist_host
  current,            \* the host each worker is persisting
  jsonl,              \* part-i.hosts.jsonl
  part,               \* part-i.state
  metrics,            \* part-i.metrics.json: whether the worker was interrupted
  output,             \* the merged output: the record of each host
  kills, faults, interruptions

vars == <<state, scan, coord, verdict, stop, resume, child, told, mem, handled, current,
          jsonl, part, metrics, output, kills, faults, interruptions>>

coordVars == <<state, scan, coord, verdict, stop, resume, output>>
bounds == <<kills, faults, interruptions>>

-----------------------------------------------------------------------------
\* shard_targets deals the targets out in turn.
Shard(i) == {Targets[k] : k \in {k \in DOMAIN Targets : (k - 1) % Processes = i}}

\* Checkpoint::fresh.  The file does not say which scan wrote it; scan is auxiliary.
Fresh == [exists |-> FALSE, completed |-> {}, position |-> 0, scan |-> 0]
NoHost == [host |-> {}, complete |-> FALSE, open |-> FALSE, scan |-> 0]
Absent(h) == [host |-> h, complete |-> FALSE, open |-> FALSE, scan |-> 0]

\* open: host.scan.open_ports > 0.
Records == [host : Hosts, complete : BOOLEAN, open : BOOLEAN, scan : 1 .. MaxScans]
Ended(i) == child[i] \in {"exited", "failed"}
Alive(i) == child[i] \in {"spawned", "scanning", "persisting"}

Init ==
  /\ state = [exists |-> FALSE, complete |-> FALSE]
  /\ scan = 0 /\ coord = "down" /\ verdict = FALSE /\ stop = FALSE
  /\ resume = [i \in Parts |-> FALSE]
  /\ child = [i \in Parts |-> "none"]
  /\ told = [i \in Parts |-> FALSE]
  /\ mem = [i \in Parts |-> Fresh]
  /\ handled = [i \in Parts |-> {}]
  /\ current = [i \in Parts |-> NoHost]
  /\ jsonl = [i \in Parts |-> <<>>]
  /\ part = [i \in Parts |-> Fresh]
  /\ metrics = [i \in Parts |-> FALSE]
  /\ output = [h \in Hosts |-> Absent(h)]
  /\ kills = 0 /\ faults = 0 /\ interruptions = 0

-----------------------------------------------------------------------------
\* state.complete = false is saved at every launch, whatever the file said.
StateKeptAtLaunch == [exists |-> TRUE, complete |-> state.complete]  \* faulty variant
StateAtLaunch == [exists |-> TRUE, complete |-> FALSE]

\* The state file is saved as incomplete before anything else happens to the scan, then
\* the manifests are written and the workers are started.
Launch(resumes) ==
  /\ state' = StateAtLaunch
  /\ resume' = resumes
  /\ child' = [i \in Parts |-> "spawned"]
  /\ stop' = FALSE
  /\ coord' = "waiting"
  /\ UNCHANGED <<verdict, told, mem, handled, current, jsonl, part, metrics, output, bounds>>

\* A fresh scan is refused while the state file says that another is unfinished.
StartFresh ==
  /\ coord = "down"
  /\ state.exists => state.complete
  /\ scan < MaxScans
  /\ scan' = scan + 1
  /\ Launch([i \in Parts |-> FALSE])

\* On resume a worker resumes when there is a part state for it, and starts over if not.
Resumes == [i \in Parts |-> part[i].exists]
StartResume ==
  /\ coord = "down"
  /\ state.exists
  /\ Launch(Resumes)
  /\ UNCHANGED scan

-----------------------------------------------------------------------------
\* open_at with the position of the part's checkpoint.
CutToNothing(records, position) == <<>>                         \* faulty variant
CutBack(records, position) == SubSeq(records, 1, position)

ResumableIfLonger(i) == part[i].position < Len(jsonl[i])        \* faulty variant
Resumable(i) == part[i].position <= Len(jsonl[i])

\* The checkpoint the worker begins with, and what open_at keeps of its JSONL.
WorkerOpens(i, checkpoint, kept) ==
  /\ child' = [child EXCEPT ![i] = "scanning"]
  /\ mem' = [mem EXCEPT ![i] = [checkpoint EXCEPT !.exists = TRUE]]
  /\ jsonl' = [jsonl EXCEPT ![i] = kept]
  /\ handled' = [handled EXCEPT ![i] = checkpoint.completed]
  /\ told' = [told EXCEPT ![i] = FALSE]
  /\ UNCHANGED <<coordVars, current, part, metrics, bounds>>

WorkerStarts(i) ==
  /\ child[i] = "spawned"
  /\ \/ /\ ~resume[i]
        /\ WorkerOpens(i, [Fresh EXCEPT !.scan = scan], <<>>)
     \/ /\ resume[i] /\ Resumable(i)
        /\ WorkerOpens(i, part[i], CutBack(jsonl[i], part[i].position))
     \/ /\ resume[i] /\ ~Resumable(i)
        /\ child' = [child EXCEPT ![i] = "failed"]
        /\ UNCHANGED <<coordVars, told, mem, handled, current, jsonl, part, metrics, bounds>>

\* The targets of the worker's manifest that its run has not been through.
PendingOfAll(i) == Hosts \ handled[i]                           \* faulty variant
Pending(i) == Shard(i) \ handled[i]

\* write_host and flush; the hosts of the part's checkpoint are skipped.
WorkerWrites(i, h, complete, open) ==
  /\ child[i] = "scanning"
  /\ h \in Pending(i) /\ open \in Finds[h]
  /\ ~complete => interruptions < MaxInterruptions
  /\ LET r == [host |-> h, complete |-> complete, open |-> open, scan |-> scan]
     IN  /\ current' = [current EXCEPT ![i] = r]
         /\ jsonl' = [jsonl EXCEPT ![i] = Append(@, r)]
  /\ handled' = [handled EXCEPT ![i] = @ \cup {h}]
  /\ child' = [child EXCEPT ![i] = "persisting"]
  /\ interruptions' = IF complete THEN interruptions ELSE interruptions + 1
  /\ UNCHANGED <<coordVars, told, mem, part, metrics, kills, faults>>

\* The rest of persist_host: the position moves only past a complete host.
Checkpointed(m, r, position) ==
  IF r.complete
    THEN [m EXCEPT !.completed = @ \cup {r.host}, !.position = position]
    ELSE [m EXCEPT !.completed = @ \ {r.host}]

WorkerSaves(i) ==
  /\ child[i] = "persisting"
  /\ LET m == Checkpointed(mem[i], current[i], Len(jsonl[i]))
     IN  mem' = [mem EXCEPT ![i] = m] /\ part' = [part EXCEPT ![i] = m]
  /\ current' = [current EXCEPT ![i] = NoHost]
  /\ child' = [child EXCEPT ![i] = "scanning"]
  /\ UNCHANGED <<coordVars, told, handled, jsonl, metrics, bounds>>

WorkerEnds(i) ==
  /\ child[i] = "scanning"
  /\ told[i] \/ Pending(i) = {}
  /\ part' = [part EXCEPT ![i] = mem[i]]
  /\ metrics' = [metrics EXCEPT ![i] = told[i]]
  /\ child' = [child EXCEPT ![i] = "exited"]
  /\ UNCHANGED <<coordVars, told, mem, handled, current, jsonl, bounds>>

WorkerFails(i) ==
  /\ Alive(i)
  /\ faults < MaxFaults
  /\ faults' = faults + 1
  /\ child' = [child EXCEPT ![i] = "failed"]
  /\ UNCHANGED <<coordVars, told, mem, handled, current, jsonl, part, metrics, kills,
                 interruptions>>

-----------------------------------------------------------------------------
\* collect_parts: the record that survives of those of one host, in file order.  A later
\* record replaces an earlier one unless it would replace a complete one by a partial one.
FirstRecord(records, h) ==                                      \* faulty variant
  LET at == {k \in DOMAIN records : records[k].host = h}
  IN  IF at = {} THEN Absent(h) ELSE records[CHOOSE k \in at : \A j \in at : k <= j]
Surviving(records, h) ==
  LET at == {k \in DOMAIN records : records[k].host = h}
      complete == {k \in at : records[k].complete}
      best == IF complete = {} THEN at ELSE complete
  IN  IF best = {} THEN Absent(h)
      ELSE records[CHOOSE k \in best : \A j \in best : j <= k]

Merged == [h \in Hosts |->
  Surviving(jsonl[CHOOSE i \in Parts : h \in Shard(i)], h)]

\* metrics.hosts_completed == target_count, and nobody was interrupted.
IsComplete(merged) ==
  /\ ~stop /\ \A i \in Parts : ~metrics[i]
  /\ Cardinality({h \in Hosts : merged[h].complete}) = Len(Targets)

\* Every worker has ended.  One failure and the coordinator gives up, leaving the state
\* file incomplete; otherwise the merged outputs are truncated...
MergeParts ==
  /\ coord = "waiting"
  /\ \A i \in Parts : Ended(i)
  /\ child' = [i \in Parts |-> "none"]
  /\ \/ /\ \E i \in Parts : child[i] = "failed"
        /\ coord' = "down"
        /\ UNCHANGED output
     \/ /\ \A i \in Parts : child[i] = "exited"
        /\ coord' = "merging"
        /\ output' = [h \in Hosts |-> Absent(h)]
  /\ UNCHANGED <<state, scan, verdict, stop, resume, told, mem, handled, current, jsonl,
                 part, metrics, bounds>>

\* Settings::keeps_host
KeepsHost(r) == ~OpenOnly \/ r.open

\* ... and rewritten from the parts, with the hosts that keeps_host keeps; whether the
\* scan is complete is decided from all of them.
WriteMerged ==
  /\ coord = "merging"
  /\ coord' = "merged"
  /\ output' = [h \in Hosts |-> IF KeepsHost(Merged[h]) THEN Merged[h] ELSE Absent(h)]
  /\ verdict' = IsComplete(Merged)
  /\ UNCHANGED <<state, scan, stop, resume, child, told, mem, handled, current, jsonl,
                 part, metrics, bounds>>

SaveState ==
  /\ coord = "merged"
  /\ state' = [exists |-> TRUE, complete |-> verdict]
  /\ coord' = "down"
  /\ verdict' = FALSE
  /\ UNCHANGED <<scan, stop, resume, child, told, mem, handled, current, jsonl, part,
                 metrics, output, bounds>>

-----------------------------------------------------------------------------
\* A signal to the whole process group (Ctrl+C) or to the coordinator alone, which does
\* not forward it.  A worker that has not come to shutdown::watch dies of it.
StopRequest ==
  /\ coord = "waiting" /\ ~stop
  /\ interruptions < MaxInterruptions
  /\ interruptions' = interruptions + 1
  /\ stop' = TRUE
  /\ \/ UNCHANGED <<told, child>>
     \/ /\ told' = [i \in Parts |-> child[i] \in {"scanning", "persisting"} \/ told[i]]
        /\ child' = [i \in Parts |-> IF child[i] = "spawned" THEN "failed" ELSE child[i]]
  /\ UNCHANGED <<state, scan, coord, verdict, resume, mem, handled, current, jsonl, part,
                 metrics, output, kills, faults>>

\* The process group is killed, or the machine goes down; what was flushed stays.
Kill ==
  /\ coord # "down"
  /\ kills < MaxKills
  /\ kills' = kills + 1
  /\ coord' = "down"
  /\ verdict' = FALSE
  /\ child' = [i \in Parts |-> "none"]
  /\ mem' = [i \in Parts |-> Fresh]
  /\ handled' = [i \in Parts |-> {}]
  /\ current' = [i \in Parts |-> NoHost]
  /\ UNCHANGED <<state, scan, stop, resume, told, jsonl, part, metrics, output, faults,
                 interruptions>>

WorkerStep(i) ==
  \/ WorkerStarts(i)
  \/ \E h \in Hosts, complete, open \in BOOLEAN : WorkerWrites(i, h, complete, open)
  \/ WorkerSaves(i)
  \/ WorkerEnds(i)

Next ==
  \/ StartFresh \/ StartResume
  \/ \E i \in Parts : WorkerStep(i) \/ WorkerFails(i)
  \/ MergeParts \/ WriteMerged \/ SaveState
  \/ StopRequest \/ Kill

Spec == Init /\ [][Next]_vars

\* Workers and coordinator keep running, a refused or unfinished scan is resumed.
FairSpec ==
  /\ Spec
  /\ \A i \in Parts : WF_vars(WorkerStep(i))
  /\ WF_vars(MergeParts \/ WriteMerged \/ SaveState)
  /\ WF_vars(StartFresh) /\ WF_vars(StartResume /\ ~state.complete)

-----------------------------------------------------------------------------
Checkpoints ==
  [exists : BOOLEAN, completed : SUBSET Hosts, position : Nat, scan : 0 .. MaxScans]

\* The types, and each worker keeps to its shard.
TypeOK ==
  /\ state \in [exists : BOOLEAN, complete : BOOLEAN]
  /\ scan \in 0 .. MaxScans
  /\ coord \in {"down", "waiting", "merging", "merged"}
  /\ verdict \in BOOLEAN /\ stop \in BOOLEAN
  /\ resume \in [Parts -> BOOLEAN] /\ told \in [Parts -> BOOLEAN]
  /\ child \in [Parts -> {"none", "spawned", "scanning", "persisting", "exited", "failed"}]
  /\ mem \in [Parts -> Checkpoints] /\ part \in [Parts -> Checkpoints]
  /\ \A i \in Parts :
       /\ handled[i] \subseteq Shard(i) /\ part[i].completed \subseteq Shard(i)
       /\ current[i] \in Records \cup {NoHost}
       /\ jsonl[i] \in Seq({r \in Records : r.host \in Shard(i)})
  /\ metrics \in [Parts -> BOOLEAN]
  /\ \A h \in Hosts : output[h] \in {r \in Records : r.host = h} \cup {Absent(h)}
  /\ kills \in 0 .. MaxKills /\ faults \in 0 .. MaxFaults
  /\ interruptions \in 0 .. MaxInterruptions

\* Some part state is not of this scan.  Until each worker has saved its own, a fresh scan
\* has those of the scan before it, and a resume takes them for its own.
OfOlderScan == \E i \in Parts : part[i].exists /\ part[i].scan # scan

\* r is a complete record of h, and what the merged output has of h: r itself, or nothing
\* when --open-only is on and r has no open port.
Settles(r, h) ==
  /\ r.host = h /\ r.complete
  /\ output[h] = IF OpenOnly /\ ~r.open THEN Absent(h) ELSE r

\* A state file that calls the scan complete, so that a fresh scan may wipe the parts,
\* stands beside parts with a complete record of every target and an output with exactly
\* those of them that --open-only keeps, though workers were killed, failed or interrupted
\* on the way; and the records are of this scan, unless a resume has taken up the part
\* states of an older one.
CompleteMeansCovered ==
  state.exists /\ state.complete =>
    \A i \in Parts : \A h \in Shard(i) : \E k \in DOMAIN jsonl[i] :
      Settles(jsonl[i][k], h) /\ (jsonl[i][k].scan = scan \/ OfOlderScan)

\* Merging never loses a completed host to a partial record of it from another run: what
\* the merged output has of a host that a part state of this scan lists, its record or
\* nothing, is settled by a complete record of its part.
NoResultLost ==
  coord = "merged" =>
    \A i \in Parts : part[i].scan = scan =>
      \A h \in part[i].completed : \E k \in DOMAIN jsonl[i] : Settles(jsonl[i][k], h)

\* The workers' part states together keep the ledger of one scan: a completed host and
\* its checkpointed record survive every kill, failure, stop and resume, and only the next
\* fresh scan starts a new ledger.
OfThisScan == {i \in Parts : part[i].scan = scan}
Completed == UNION {part[i].completed : i \in OfThisScan}
Protected ==
  {h \in Completed : \E i \in OfThisScan : \E k \in DOMAIN jsonl[i] :
     k <= part[i].position /\ jsonl[i][k].host = h /\ jsonl[i][k].complete}
Ledger == INSTANCE ScanLedger WITH
  finished <- Completed, published <- Protected, scans <- scan
KeepsLedger == Ledger!Spec

\* With finitely many kills, failures and interruptions, and an operator who resumes, each
\* scan comes to be complete.  What may stop it for good is a part state of an older scan:
\* its position may lie beyond the end of the part, and then its worker fails every time.
EventuallyComplete == []<>(state.exists /\ state.complete) \/ <>[]OfOlderScan

=============================================================================
