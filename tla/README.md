# Verification of surface-scan

surface-scan sweeps lists of IPv4 hosts for open TCP ports, probes every open port
for HTTP and TLS, and writes one JSON line per host. A scan may take days, so it is
cancelled, killed, resumed and spread over processes. These modules model what makes
that hard: the queues and workers of a run, the files and their recovery, the
coordinator of several processes, the two scanners, the web probe with what becomes of
a response, and the way from the command line to the first of them. TLC checks them on
small instances, TLAPS proves nearly all of the safety properties for all instances.

Paths are relative to the repository; line numbers are in `PROJECT.json` ("map").

## 1. Inventory

| Component | State | Operations | Talks to |
|---|---|---|---|
| Scan pipeline, `src/runtime/pipeline.rs` | four bounded channels, a `HashMap` of `HostAccumulator`, the `Checkpoint` in memory | generator, discovery, protocol and fingerprint workers, event loop, `finish_host`, `persist_host`, joins | backend, probe, fingerprint engine, writers, checkpoint, `CancellationToken` |
| Scan execution and checkpoint, `src/runtime/mod.rs` | the checkpoint file | `Checkpoint::fresh/load/save`, `execute_scan`, `atomic_write_json` | writers, pipeline |
| Output writers, `src/output/mod.rs` | host JSONL and derived CSV, flat, Nmap, URL files, their `BufWriter`s | `open_at`, `write_host`, `rebuild_derived`, `flush`, `write_metrics` | `persist_host` |
| Shutdown, `src/runtime/shutdown.rs` | `CancellationToken` | first signal cancels, second one exits | all tasks |
| Coordinator, `src/runtime/multiprocess.rs` | state file, manifests, part files, children | `coordinate`, `shard_targets`, `collect_parts`, `write_merged_outputs`, `run_worker` | worker processes that each run `execute_scan` |
| Connect scanner, `src/scanner/mod.rs` | `FuturesUnordered` of each host, shared `Semaphore` | `discover` | discovery workers |
| Rate limiting, `src/scanner/mod.rs` | `TokenBucket`, `Pacer` | `acquire`, `tick` | both scanners |
| Raw SYN scanner, `src/scanner/raw_syn.rs` | `outstanding`, `open`, `closed` behind mutexes, `sending_done` | `run_raw`: sender loop, receiver thread | discovery workers |
| Protocol probe, `src/protocol/mod.rs` | one connection and its buffer | `probe`, `probe_tls`, `probe_plain`, `fetch_favicon`, `request_http`, parsers | protocol workers |
| Fingerprint engine, `src/fingerprint/mod.rs` | none (rule table, toggles, weights) | `match_surface`, `analyze`, `enrich`, `suspicion_score` | fingerprint workers; what the probe has put into the `ServiceResult` |
| Target parsing, `src/target/mod.rs` | the addresses found, the columns of the last header | `parse_targets`, `parse_ports` | `main` |
| Settings, `src/config.rs` | none | `Settings::load`, `keeps_host` | `main`, everything |
| Command line and entry point, `src/main.rs`, `src/cli.rs` | the target text | `read_target_text`, `validate_artifact_paths`, `main` | settings, parsing, `execute_scan` or `coordinate` |
| Result model and utilities, `src/model/mod.rs`, `src/util/mod.rs` | none | `unknown_tcp`, hashing, timestamps | all |

What is hard, and what correct means there:

* **Pipeline.** Tasks race over full queues; a service may overtake the announcement
  of its host; a cancel, a panic or a disk error comes at any await. Correct: every
  host that was swept is recorded once, with all its services, and `run` returns.
* **Files.** Two files are written at different moments, one of them unsynced. Correct:
  a host the checkpoint calls completed has its record, records are never cut in half,
  and a scan that is resumed often enough gets done.
* **Coordinator.** Workers fail, are interrupted or killed one by one; three kinds of
  files say how far the scan is. Correct: a complete state stands beside parts with a
  complete record of every target and an output with those `--open-only` keeps, and no
  result of an earlier run is lost in the merge.
* **Scanners.** Attempts of several hosts share sockets and tokens; the raw scanner
  matches answers in another thread. Correct: no answer is thrown away, `complete` is
  earned, budgets do not leak, `discover` returns.
* **Probe.** Each wait has its own timer, responses have a deadline, the whole has a
  budget. Correct: evidence once seen reaches the record, and the sums fit.
* **Responses.** They are cut off anywhere, in framing that may lie. Correct: the engine
  sees the page and nothing else, and gives points only for what is true of the peer.
* **Start.** Three sources of targets become one text, many options name files. Correct:
  the scan has the targets the user named, opens no file twice, and its worker
  processes share what the user allowed, no more and no less.

`PROJECT.json` lists every hazard at its line with the properties that cover it, or the
reason why none does.

## 2. Modules

```
ScanContract  <=== ScanPipeline           what one run promises
                        |  assumes
SweepContract <=== ConnectSweep, RawSyn   what one discover call promises
ScanLedger    <=== ScanStore              what survives runs, crashes, resumes
              <=== Coordinator            the same for all the parts together
WebProbe                                  what one probe of one port does
ServiceRecord = HttpResponse + Fingerprint    what becomes of the bytes it reads
Startup = TargetList + ArtifactPaths          from the command line to the scan
```

`<===` is a refinement that TLC checks as a property: the abstract module is
instantiated with a mapping, and its whole specification is the property; for `ScanStore`
it is the initial state and every step but a loss of power that takes checkpointed output
(`LosesOutput`). TLAPS proves all of that but the fairness in `SweepContract`.

The modules meet at their contracts. `ScanPipeline.FinishSweep` takes any outcome that
`SweepContract` allows, so what it shows holds for both backends. It also takes for
granted that a probe yields one service per job: `WebProbe.ProbeReturns`. `ScanStore`
lets hosts reach the writer in any order, which is what `ScanPipeline` produces, each at
most once per run (`KeepsContract`). A worker of `Coordinator` is `ScanStore` with a
record as one element and a persist as two steps. `ServiceRecord` is `WebProbe` with the
timers left out and the data put in: a read may bring one more token at any moment, and
the response may end at any moment, which covers each of `WebProbe`'s ways to end it.
`Startup` ends where `ScanStore` or `Coordinator` begins.

`MC*` modules and the `.cfg` files give constants their values. Operators marked "faulty
variant" are used by nothing: each is the definition below it with a plausible mistake,
and shows that the property it belongs to can fail.

### ScanPipeline

One action per step of a task between two awaits. `GeneratorCheck`/`GeneratorSend` are
the target loop; `TakeTarget`, `FinishSweep`, `Announce`, `EnqueueJob` a discovery
worker; `TakeJob`, `ForwardService` a protocol worker; `TakeService`, `EmitService` a
fingerprint worker; `ReceiveEnvelope` and `ReceiveService` the event loop with
`finish_host` and `persist_host`; `JoinTasks` the joins behind it. A channel is closed
when all its senders are gone; the operators `...Closed` and `...Refused` say when.
`Cancel` is the token, `...Panics` a panicking task, a failing `Persist` a disk error
that leaves `run` through `?`.

### ScanStore

`file` is the JSONL as a sequence of cells, a record being one or more of them, so that
a byte position can fall inside a record. `StartFresh`, `StartResume` and `RefuseResume`
are `execute_scan` with `open_at`; `PersistHost` buffers a record, `DrainBuffer` is any
part of it reaching the disk, `Flushed` moves the position, `SaveCheckpoint` replaces
the checkpoint file, `FinishRun` is the last flush and save. `Crash` is possible between
any two of them; with `PowerLoss` it also takes unsynced cells. Each run is asked for
derived outputs or not (`derives`), whatever the runs before it were asked for. That target set, ports
and schema agree is an assumption of the module (`Hosts` is the same in every run),
since `execute_scan` refuses anything else.

### Coordinator

`StartFresh`, `StartResume` and `Launch` are the first half of `coordinate`;
`WorkerStarts` ... `WorkerEnds` and `WorkerFails` a worker; `MergeParts`, `WriteMerged`
and `SaveState` the second half. A `StopRequest` reaches the coordinator alone, or the
whole process group, where a worker that has not installed its handler dies of it. `Kill`
takes the group. A sweep finds open ports or none, as `Finds` has it for each host; with
`OpenOnly` (`--open-only`, the default) the merged output leaves out the hosts without,
while parts and completion count them. Records and part states carry the number of the fresh scan they are of
(`scan`), so that properties can tell a part of an older scan; no step looks at it, as
the code cannot tell them apart.

### ConnectSweep

`Queue` and `EndFill` are the fill loop, `AcquireToken`, `AcquirePermit` and `Connected`
the three awaits of an attempt, `AfterOne` the look at the token after a future. Futures
only move while `discover` awaits, as `FuturesUnordered` has it. `Refill` is one token's
worth of time.

### RawSyn

One action per critical section of the two threads. `NextPort`, `RecordProbe`,
`SendProbe`, `EndWait`, `StopSending`, `JoinReceiver` are the sender; `Receive`,
`NoteVerdict`, `ForgetProbe` the three sections of a match; `ReceiveOther` and
`ReceiveNothing` the reads that bring no answer. Ports are open, closed, silent, answer
both ways ("fickle") or with a bare ACK ("odd"); answers are lost, repeated or late, and
a stray SYN/ACK may be waiting. A timeout may come at any moment, a superset of what the
clock allows.

### WebProbe

One action per wait: `Connect`, `Handshake`, `Write`, `Read`, with `ReadFails` and
`ReadTimesOut` for the other ends of a read. Each wait says how long it took; `Limit` is
its timer. `WithoutResponse` and `EndResponse` are where the code decides what comes
next: TLS record, plain fallback, icon, or the end. `BudgetExceeded` is the `timeout`
around `probe` in the protocol worker. Timers are exact in the model; the code's two
seconds of slack are `Slack`.

### HttpResponse, Fingerprint, ServiceRecord

`HttpResponse` has the parsers as operators on a sequence of tokens: line ends, digits,
header fields, pieces of a page. `BlankLines` and `BodyStart` are `header_end`,
`Dechunked` the loop of `decode_chunked` as a recursive function of the position,
`Inflated` what the inflater gives for the tokens it knows. `Fingerprint` has the table
(`Rules`), `Evidence` and `IsEnough` of `match_surface`, `Class`, and the `Reasons` and
`Score` of `suspicion_score`. In `ServiceRecord` a peer sends `Wire(peer)`, encoded by
operators of its own and never by the inverse of the code's; `Arrive` is one token,
`EndOfResponse` the end of the data for any reason, `RecordH2` the HTTP/2 case, and
`Enrich` the fingerprint worker. What must come out is stated about the peer's page.

### TargetList, ArtifactPaths, Startup

`TargetList` is one line of a target list: a line is a sequence of fields and a field a
sequence of words, so that a line glued to the next one is what the code sees.
`ArtifactPaths` is a file system with second names for directories and symbolic links,
and `normalized_path` in it. `Startup` follows `main`: `LoadSettings`, `ReadSource` for
each piece `read_target_text` takes, `SkipLine`, `ReadHeader`, `ExpandNet` and `AddRow`
for the branches of `parse_targets`, `CheckPaths`, and `DivideBudgets` for the part of
`coordinate` that writes the workers' settings, those of a fresh scan: the line that turns
a part state into `--resume` is `Coordinator.Resumes`. Every error the code returns on the way
is the phase "refused".

## 3. Runs

| Run | Instance | What it shows |
|---|---|---|
| `pipeline` | 2 hosts, 4 ports in all, 2 discovery, 2 protocol and 1 fingerprint worker, queues of 1, two panics, disk errors, any checkpoint | `EnvelopeFirst`, `JobsConserved`, `RecordsAreFaithful`, `AcceptedHostsAreRecorded`; every task ends, or one waits for ever for a stage whose workers have all panicked (`EveryTaskEnds`); the run keeps `ScanContract` |
| `store` | 3 hosts, records of 1 or 2 cells, runs with and without derived outputs, 2 crashes with power loss, 1 interruption | `CompletedHaveRecords`, `OutputParses`, `NoCompletedTwice`, `DerivedAgrees`; the ledger, but for a loss of power; `EventuallyAllCompleted`, unless the output is too short for good |
| `coordinator` | 3 hosts in 2 parts, `--open-only` with a host that has no open port and one that has one or not, two fresh scans over one state, a kill, a failure, 2 interruptions | `CompleteMeansCovered`, `NoResultLost`, the ledger, `EventuallyComplete` |
| `connect` | 2 hosts of 2 ports, 2 sockets, burst 2, 1 retry | `BudgetsConserved`, `NothingThrownAway`, `CompleteIsEarned`, each host keeps `SweepContract` |
| `raw_syn` | 2 ports of each pair of kinds, 1 retry, table full at 1, send and receive failures, 2 packets for others | `AnswerStillCounts`, `CompleteIsEarned`, `SweepContract` |
| `web_probe` | a TLS timeout one unit beyond what the budget has room for, heads in one read, several, or never | `TrickleIsBounded`, `TlsEvidenceKept`, `ArrivedIsKept`, `GuardOnlyCutsIcons`, `ProbeReturns` |
| `response` | pages of up to 14 pieces, both line endings, chunks of 1 to 3 with and without extensions, compressed or not, header fields that lie, all evidence | `PageIsSeen`, `ScoredOnEvidence`, `HeadStays` |
| `startup` | lists of up to two lines of 16 kinds and an argument, each artifact option against the output under 14 paths, up to 5 workers | `TargetsExact`, `NoFileTwice`, `BudgetsAddUp` |

Four runs end in a counterexample on purpose: see "Where the code differs".

**Bounds and why they are enough.** Queues of one place make every send wait and every
order of waiting possible; two workers in a stage are what a panic needs to leave one
behind, and two panics take both. One job at each protocol worker, one in the queue and
one more are what the hang of a lost stage needs: hence four ports. Two and three hosts let one be completed, one partial and one untouched at
once. A record of two cells can be cut inside, one of one cell cannot. Two crashes allow
a crash during the resume after a crash. Two hosts and two sockets let each host hold
what the other waits for. `TableLimit = 1` makes the clean-up at 4096 entries happen with
two ports. Heads longer than the read limit, as long as several reads, and shorter than
one are the three ways a head can arrive. Two fresh scans let the second find the parts
of the first. In `response` every response
ends at every token, so each place of the framing is where one is cut off, and some are
longer than `MaxBody` or `MaxBody + HeadRoom`; `ScoreLimit = 8` lets a score wrap; the
class `login_panel` is switched off and the other two are on, so that both happen. In
`startup` eight addresses and four ports make networks of every length, a list beyond
`MaxExpanded`, and ports that are out of range; two lines are what a header needs to act
on a row, and a third comes from the argument. Paths are checked two roles at a time, as
the code compares them. `MaxPanics`, `MaxCrashes`, `MaxInterruptions`,
`MaxScans`, `MaxKills`, `MaxFaults` and `MaxTraffic` bound what the environment does and
nothing else: the steps of the program are never cut off. The coordinator is checked
with two processes; `Shard` is the only place where their number matters.

**Fairness.** `ScanPipeline`: some task that can move does (weak fairness of
`TaskStep`), which a multi-threaded tokio runtime gives; cancels, panics and faults are
never forced, except that a panicking task is one that does not go on. `ScanStore`: the
process keeps running, and an operator resumes a scan that is not finished, unless a loss
of power has left the output too short to be resumed. `Coordinator`:
each process keeps running, and a scan that is refused or unfinished is started or
resumed again. `ConnectSweep`: each host that can move does, and time passes; as every
connect ends by its timeout, no more is needed. `RawSyn`: both threads keep running, and
a socket without a packet times out; nothing obliges an answer to arrive. `WebProbe`:
every wait ends, by its timer at the latest. `ServiceRecord` and `Startup` have only
safety properties: they are sequences of steps that end.

`CHECK_DEADLOCK` is never switched off: each module has an explicit step for "it has
returned", and `ScanPipeline` one more for the hang described below (`Hangs`).

## 4. Proofs

Every safety invariant and action property that a passing run checks is a theorem, but
for `PageIsSeen` and parts of `ScoredOnEvidence` (the reasons are at the end), and so is the
safety half of every refinement. A proof module has an inductive invariant,
mostly a conjunction of named parts, the lemma that each step keeps it, and the results
it implies.

`ScanPipeline_proofs`, for any targets, ports, numbers of workers, queue depths, panics
and disk errors:

* `PipelineTypeOK`, `EnvelopesComeFirst`, `JobsAreConserved`, `RecordsFaithful`,
  `AcceptedAreRecorded`, all from `PipelineInvariant`.

  A record is right only if what happened four stages earlier was, so `PipelineInv` says
  where a host can be: in the queue of targets, at one discovery worker, in the event
  queue, under aggregation, recorded, and never at two of them (`SweptOnce`, `OnePlace`).
  `FromSweep` ties what each of these places says of the host to its sweep. `JobsInPlace`
  is what makes `EnvelopeFirst` inductive: a port has one carrier if it is awaited
  (announced or under aggregation, without its service so far), and none otherwise. A
  panic or the end of `run` takes carriers away and adds none, so that the upper bound
  holds always and the equality until then. `NothingLost` and `Exits` are what a clean
  end rests on: a discovery worker leaves only when the generator has and no target is left.
* `PipelineKeepsContract`: the pipeline implements `ScanContract`, which says nothing of a
  run having to end.

`ScanStore_proofs`, for any hosts, record lengths, crashes and interruptions:

* `StoreTypeOK`, `CompletedAreInOutput` from `StoreInv`: the types,
  `CompletedHaveRecords`, and where the record in `persist_host` lies while it is flushed
  and saved. The property alone is not inductive: `Checkpointed` adds a host and moves
  the position together, and one has to know that the cells drained by then are exactly
  its record. The lemmas say that a record survives appending to the file and cutting it
  back to a position above it.
* `OutputAlwaysParses`, `NoHostCompletedTwice` from `LedgerInv` beside it: what lies
  below the position of a checkpoint ends with a whole record and has complete records of
  completed hosts only (`SavedIsWhole`, `WrittenIsWhole`); beyond it a run has left only
  partial ones; checkpoint and memory differ by the host in `persist_host` at most.
* `StoreKeepsLedger`: every step but `LosesOutput` is one of `ScanLedger` or changes
  neither the completed hosts nor the published ones. `StoreIsLedger`: with `~PowerLoss`
  there is no such exception.
* `DerivedFollowJsonl`: the derived outputs hold the services of the JSONL. `DerivedInv`
  has the one moment at which they differ, while a record is buffered. What is proved of
  the recursive function `ServicesUpTo` is that appending a cell adds that cell's
  services and leaves those before it as they were (`ServicesAppend`).

All but the last assume `~ReuseCheckpoint`: no fresh scan names the checkpoint of an
earlier one. Without it they are false, as the run `store_stale` shows. `LosesOutput` is
there because the JSONL is not synced: a machine that dies can take a published record
with it, and a resume is then refused.

`Coordinator_proofs`, for any targets, numbers of processes and scans, and any kills,
failures, stops and resumes:

* `CoordTypeOK`, `NoResultIsLost`, `CompleteScanIsCovered` from `CoordInv`. Its core is
  `PartOfScan`, `MemoryFollows` and `Persisting` of each worker: a part state of this
  scan has each of its hosts in the part below its position, and the worker's memory is
  ahead of it by the host being persisted at most. `Settles` goes from a complete record
  of a part to what the merged output has of its host: the record, or nothing if
  `keeps_host` drops it. Parts of an older scan are the reason
  for `OfScan` in most of its lines: about those nothing is claimed.
* `CoordinatorKeepsLedger`: the part states together refine `ScanLedger`. As the shards
  are disjoint, a host is finished by one worker and published in one part.

`ConnectSweep_proofs`, for any hosts, ports, windows, budgets and retries:

* `SweepTypeOK`, `BudgetsAreConserved`, `NothingIsThrownAway`, `CompleteHasVerdicts`
  from `SweepInv`. Conservation is a sum over the futures of all hosts; each step moves
  one future from one set into another, and the lemmas say what that does to their
  sizes. `FinishedAreCounted` is what makes `attempted` the test for completeness:
  a finished future is counted once, and its port has a verdict or no attempt left.
* `ConnectKeepsContract`: each host's `discover` is `SweepContract`, in its first state
  and every step.

`RawSyn_proofs`, for any ports, retries and table sizes, and any interleaving:

* `SynTypeOK`, `AnswersStillCount`, `SynCompleteIsEarned` from `SynInv`. The sender and
  the receiver take entries out of one table without a common lock, so `AboutToSend` and
  `VerdictBeforeRemoval` say what each may rely on while the other is between two
  sections. `RoundsAreFull` counts the tries of a port without verdict by where the
  sender is, which is what `complete` stands on.
* `SynKeepsContract`: `run_raw` is `SweepContract` in the same sense.

`WebProbe_proofs`, for any timeouts, limits and peers:

* `ProbeTypeOK`, `ResponseKeepsDeadline`, `TlsIsKept` from `ProbeInv`: types, the
  deadline, and `ShapeInv`, which ties the request under way to what is known by then
  (over TLS nothing is written before the handshake, an icon is asked for over TLS only
  when the record already has TLS).
* `ArrivalsAreKept`, an action property: every way a response can end goes through
  `EndResponse` with no less data than had arrived, as a head is never empty.
* `GuardIsForIcons`: whatever the timeouts are, the guard around a probe ends nothing but
  the request for an icon over TLS, and that only without `TlsIsShort`,
  `TlsTimeout <= 3 * HttpTimeout + BodyTimeout + Slack`. `TimeInv` gives each phase of
  each request the latest time it can be in (`Latest`, `Opening`). All of these are
  within the budget but those of the longest course, TLS page plus TLS icon, which is
  `4 * TlsTimeout + 2 * BodyTimeout` and fits exactly under that condition.
* `BudgetIsWorstCase`, its corollary: with `TlsIsShort` the guard never fires. The run
  `web_probe` is beyond that condition, by one unit.

`ServiceRecord_proofs`, for any peers and limits:

* `HeadNeverMoves`: the end of a head and the start of the page never move once there is
  one. The end is the least place with a blank line, so the argument is that places are
  natural numbers and a non-empty set of them has a least one (`LeastIsLeast`), that
  appended data leaves every blank line where it is (`AppendKeeps`), and that a new one
  is behind all of them, since it ends in the new token (`HeadIsStable`).
* `SwitchedOffIsSilent` and `ConnectionIsScoredAsItIs`, the parts of `ScoredOnEvidence`
  that need no framing. A rule that is off gives neither a fingerprint nor a class
  (`ClassIsSwitchedOn`), and a record has no class of a page before the engine sees it
  (`SwitchInv`). `ConnectionInv` carries port, certificate and icon from the probe to the
  score, so that the reasons which stand on them are true of the peer.

`Startup_proofs`, for any file system, invocations, target lists and numbers of workers:

* `FilesAreDistinct`: no scan starts with one file in two roles. `SameFileSamePath` goes
  from the file that is opened to the path that was compared, and is where a link to a
  missing file must be excepted. `StartInv` says that the settings a scan starts with are
  the ones that were checked, and that the workers' settings are `WorkerSettings` of
  them; their files then differ by number or suffix (`WorkersFilesDiffer`).
* `WorkersShareBudgets`: the shares add up. Of `k` workers with shares of a budget `b`,
  the first `n` have `n * (b \div k)` and one more for each of the first `b % k`
  (`TotalOfShares`), and no share is 0 since `validate_process_budget` has refused
  `b < k` (`ShareIsPositive`). `BudgetInv` carries that from the options to the workers.
* `TargetsAreExact`: an accepted list is exactly what its sources name, for any sources of
  any lines and any number of address bits. `TargetsInv` says of the reader that what the
  text names so far is what the sources name that are read (`ReadSoFar`), and of the
  parser that what is found is what the lines above the next one name, under the layout of
  the last header among them (`ParsedSoFar`). The second alone would be a restatement of the
  parser; the first is where a list can go wrong, since a line means something else below
  a header or behind an open line. It stays true when a source is appended only as long as
  the text has no header and ends in a line feed, and that is what `Separable` gives while
  there is more to come (`NamesOfJoined`, `NoHeaderAbove`). The parser walks from a network's
  address to its broadcast address, the property compares prefixes: `NetworkIsPrefix` says
  that this is the same and leaves no address out, because the size of a network divides
  the number of addresses (`TwoToOfSum`).

**Induction.** The prover cannot apply an induction theorem that takes an operator. What
is proved of the recursive functions, `ServicesUpTo`, `TotalOfFirst` and `TwoTo`, is proved
with a least counterexample instead: the set of numbers for which the claim fails has no
least member (`LeastNumber`, from the well-foundedness of `<`), so it is empty. That a text
names what its sources name needs no induction of its own: reading is one source per step
and parsing one line per step, so that the induction is that of the specification.

**Assumptions.** They are the named `ASSUME`s on the constants, which TLC evaluates in
every run, and the conditions of `ScanStore_proofs` and of `BudgetIsWorstCase`.
`ScanPipeline` assumes that ports are 16-bit numbers (`AnyPort`) and that there are
finitely many workers, which is what makes the sets that `JobsConserved` counts finite.
`Startup` assumes that the options that are numbers are natural numbers, as their Rust
types are unsigned, that sources are sequences of lines, and lines non-empty sequences of
fields whose addresses have `AddressBits` bits (`Line`), as `text.lines()` and `Ipv4Addr`
make them. `ServiceRecord` assumes that a peer without TLS has no certificate.

**Only model-checked.** Liveness (`EveryTaskEnds`, `EventuallyAllCompleted`,
`EventuallyComplete`, `ProbeReturns`, and the fairness that `SweepContract` states) is
beyond the prover; the theorems on that contract are about its initial states and steps.
`PageIsSeen`, and of `ScoredOnEvidence` the reasons that stand
on header fields and the page, need an induction over the chunks of a body, on the encoder
and the decoder at once, and hold for well-formed peers only, which the run has and no
assumption of the module describes. That the points add up is a fold over a set, which the
prover does not unfold.

## 5. Where the code differs from what it says

* `store_partial`: the record of an interrupted host is rolled back on resume only if no
  complete host came after it; else the output has two records of that host.
* `store_stale`: a fresh scan over an old checkpoint empties the output at once and
  replaces the checkpoint after its first host. Killed in between and resumed, hosts
  are skipped whose records are gone, and the file may be cut inside a record.
* `startup_merge`: what is read from the standard input keeps its missing last line feed,
  and the argument behind it continues its last line. If that is a comment, or ends in
  one, the target is dropped without an error.
* `response_hfs`: the text that the body patterns search includes the title, so that a
  title "HFS 2" counts as two kinds of evidence and asserts HFS alone, though
  `fingerprint/mod.rs:80` says "A single weak signal never asserts HFS". `ScoredOnEvidence`
  takes such a title for what the code does.

Seven more have no run of their own. All but the fifth are excepted by name, or by the
bounds, in the properties they touch; the fifth is one of the two ends that
`EveryTaskEnds` names, and the run `pipeline` gets there:

* *Parts of an older scan* (`OfOlderScan`). Part states of a finished multi-process scan
  outlive the start of a fresh one. Killed before every worker has persisted a host and
  resumed, the merged output may hold records of the old scan under a complete state, or
  a worker finds its part shorter than its old position and fails on every resume.
* *Traffic that never pauses* (`MaxTraffic`). The SYN receiver looks at `sending_done` only
  after 100 ms without a TCP packet for the machine (`raw_syn.rs:112-122`, `149-153`), though
  `raw_syn.rs:101` has it run "until the sender says it is done": under steady traffic the
  sweep does not return, a cancel included.
* *Long TLS timeouts* (`TlsIsShort`). `probe_budget` counts one TLS wait per attempt where
  there are two; with a `--tls-timeout` of 10 s and the others near their defaults, a slow
  HTTPS service loses its record, certificate included, to "probe budget exceeded".
* *Columns of another source* (`Separable`). The columns of a CSV header hold for what
  follows it, in the next source as well: behind `ip,note,c2_port` in a file, the argument
  `10.0.0.2,443` loses its known port, and `10.0.0.2:443` is refused.
* *A lost stage* (`WaitsOnLostStage`). `run` keeps an `Arc` of every receiver
  (`pipeline.rs:119`, `194`, `241`), so that a queue stays open when all the workers that read it
  have panicked. If there is more work than fits into it, the stage before it waits for
  room, the event loop waits for that stage, and `run` never returns, a cancel included;
  only a second signal ends the process. With less work the run ends, and reports the
  panic.
* *Links to files that are not there yet* (`NoFileTwice`). `normalized_path` resolves what
  exists; a symbolic link to a missing file is compared under its own name, and the file it
  points to may be opened in another role.
* *HTTP/2-only endpoints* get the points of an absent `Server` header and an unknown
  fingerprint, though no response was read; `fingerprint/mod.rs:308` says of `is_web`
  "True only when an HTTP response body/favicon could actually be observed".
  `ScoredOnEvidence` excepts them.

## 6. Not modelled, and why

The option parser, TOML, CSV quoting, TLS, the inflater, HTML and regular expressions are
libraries; what they give is what the modules start from. The metadata block, the summary,
certificate fields, cookies, hashes and timestamps are copied data that no property here
distinguishes. Packet layout, sequence numbers and checksums are arithmetic; an answer
acknowledges our SYN or does not. Metrics are left out, but for the part of them that
decides whether a multi-process scan is complete. Workers that outlive a killed
coordinator are not modelled: two writers of one file are decided by the file system.
Hard links, and two artifact paths whose temporary files coincide (`atomic_write_json`
replaces the extension by `state.tmp`), are outside `ArtifactPaths`. The pacer of the raw
scanner needs a clock that `RawSyn` does not have.

## 7. Plan

The order was: the pipeline, because every other part hangs on it; the files, because
what is lost there is lost for good; the coordinator on top of the files; the scanners
and the probe, which discharge what the pipeline assumes of them; then the data, from
the target text in and from the response to the record. Next:

1. *Model.* The pacer over integer time, with several sweeps at once; orphaned workers
   next to `Coordinator`.
2. *Prove.* For `ServiceRecord`, what the decoder makes of a body cut anywhere, when the
   provers can do an induction over data.
