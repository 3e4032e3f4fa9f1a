---------------------------- MODULE ScanPipeline ----------------------------
(***************************************************************************)
(* Pipeline::run of runtime/pipeline.rs: a target generator, discovery     *)
(* workers, protocol workers, fingerprint workers and one aggregator,      *)
(* joined by four bounded tokio channels.  One action per step of a task   *)
(* between two awaits.                                                     *)
(*                                                                         *)
(* Abstracted: what a probe finds (a probe that answers and one that       *)
(* exceeds its budget both yield one service for their port), fingerprint  *)
(* enrichment, metrics and timing.  The output files and the checkpoint    *)
(* file are the subject of ScanStore; here persist_host is one step that   *)
(* succeeds or fails.                                                      *)
(*                                                                         *)
(* Nothing uses an operator marked as a faulty variant: it is the one      *)
(* below it with a plausible mistake, for the mutation checks.             *)
(***************************************************************************)
EXTENDS Naturals, Sequences, FiniteSets

CONSTANTS
  Targets,            \* the Vec<Target>: a sequence of distinct addresses
  SelectedPorts,      \* settings.ports
  KnownPorts,         \* target.known_c2_ports, for every address
  QueueDepth,         \* settings.queue_depth, the capacity of every channel
  DiscoveryWorkers, ProbeWorkers, FingerprintWorkers,
  MaxPanics,          \* bound on the tasks that panic in a run
  DiskFaults          \* whether a write, a flush or a checkpoint save may fail

Hosts == {Targets[i] : i \in DOMAIN Targets}
AnyPort == 0 .. 65535                                           \* u16

ASSUME PipelineAssumption ==
  /\ Targets \in Seq(Hosts)
  /\ \A i, j \in DOMAIN Targets : Targets[i] = Targets[j] => i = j
  /\ SelectedPorts \subseteq AnyPort /\ SelectedPorts # {}
  /\ KnownPorts \in [Hosts -> SUBSET AnyPort]
  /\ QueueDepth \in Nat \ {0}
  /\ DiscoveryWorkers # {} /\ ProbeWorkers # {} /\ FingerprintWorkers # {}
  /\ IsFiniteSet(DiscoveryWorkers) /\ IsFiniteSet(ProbeWorkers)
  /\ IsFiniteSet(FingerprintWorkers)
  /\ MaxPanics \in Nat
  /\ DiskFaults \in BOOLEAN

VARIABLES
  resumedFrom,        \* the clone of checkpoint.completed_hosts the generator takes
  genPc, genPos,      \* the generator: "check", "send" or "done"; its place in Targets
  targetQ,            \* target_tx / target_rx: hosts
  disc,               \* the state of every discovery worker
  probeQ,             \* probe_tx / probe_rx: ProbeJob
  prober,             \* the state of every protocol worker
  fingerprintQ,       \* fingerprint_tx / fingerprint_rx: FingerprintJob
  fingerprinter,      \* the state of every fingerprint worker
  eventQ,             \* event_tx / event_rx: PipelineEvent
  hosts,              \* the aggregator's HashMap of HostAccumulator
  completed,          \* checkpoint.completed_hosts in memory
  records,            \* the HostResults handed to persist_host, in order
  cancelled,          \* the CancellationToken
  result,             \* of run: "running", "ok" or "failed"
  swept               \* auxiliary: what discovery has found, host by host

vars == <<resumedFrom, genPc, genPos, targetQ, disc, probeQ, prober, fingerprintQ,
          fingerprinter, eventQ, hosts, completed, records, cancelled, result, swept>>

generatorVars == <<resumedFrom, genPc, genPos>>
aggregatorVars == <<hosts, completed, records, result>>

-----------------------------------------------------------------------------
\* merge_known_ports: a known C2 port is swept even when it is not selected.
ScanPorts(h) == SelectedPorts \cup KnownPorts[h]

Idle == [pc |-> "idle"]
Exited == [pc |-> "exited"]
Panicked == [pc |-> "panicked"]
Gone(worker) == worker.pc \in {"exited", "panicked"}

Job(h, p) == [host |-> h, port |-> p]
Jobs == {Job(h, p) : h \in Hosts, p \in UNION {ScanPorts(g) : g \in Hosts}}
StartedAfterTake(h, o) ==                                       \* faulty variant
  [type |-> "started", host |-> h, open |-> {}, complete |-> o.complete]
Started(h, o) == [type |-> "started", host |-> h, open |-> o.open, complete |-> o.complete]
Service(job) == [type |-> "service", host |-> job.host, port |-> job.port]

\* HashMap::get of an absent key.  In an accumulator, services.len() is count, and
\* ports is what is left of the vector once finish_host has sorted it by port.
NoEntry == [open |-> {}, complete |-> FALSE, ports |-> {}, count |-> 0]
Accumulating == {h \in Hosts : hosts[h].open # {}}

HasRoomForOneMore(queue) == Len(queue) <= QueueDepth            \* faulty variant
HasRoom(queue) == Len(queue) < QueueDepth

\* A channel is closed for its receiver once every sender is dropped...
TargetsClosed == genPc = "done"
ProbesNeverClosed == FALSE                                      \* faulty variant
ProbesClosed == \A w \in DiscoveryWorkers : Gone(disc[w])
FingerprintsClosed == \A w \in ProbeWorkers : Gone(prober[w])
EventsClosed == ProbesClosed /\ \A w \in FingerprintWorkers : Gone(fingerprinter[w])

\* ... and for its senders once the receiver is: run itself holds event_rx and an Arc
\* of the three other receivers until it returns, the workers an Arc each.
RunReturned == result # "running"
TargetsRefused == RunReturned /\ \A w \in DiscoveryWorkers : Gone(disc[w])
ProbesRefused == RunReturned /\ \A w \in ProbeWorkers : Gone(prober[w])
FingerprintsRefused == RunReturned /\ \A w \in FingerprintWorkers : Gone(fingerprinter[w])

Panics ==
  Cardinality({w \in DiscoveryWorkers : disc[w] = Panicked})
    + Cardinality({w \in ProbeWorkers : prober[w] = Panicked})
    + Cardinality({w \in FingerprintWorkers : fingerprinter[w] = Panicked})

-----------------------------------------------------------------------------
Init ==
  /\ resumedFrom \in SUBSET Hosts
  /\ genPc = "check" /\ genPos = 1
  /\ targetQ = <<>> /\ probeQ = <<>> /\ fingerprintQ = <<>> /\ eventQ = <<>>
  /\ disc = [w \in DiscoveryWorkers |-> Idle]
  /\ prober = [w \in ProbeWorkers |-> Idle]
  /\ fingerprinter = [w \in FingerprintWorkers |-> Idle]
  /\ hosts = [h \in Hosts |-> NoEntry]
  /\ completed = resumedFrom
  /\ records = <<>>
  /\ cancelled = FALSE
  /\ result = "running"
  /\ swept = {}

-----------------------------------------------------------------------------
\* A target is skipped when the checkpoint the run started from lists it.
SkipsNothing(h) == FALSE                                        \* faulty variant
Skips(h) == h \in resumedFrom

\* The generator looks at the token, skips a completed host, and then waits for room:
\* a cancel that arrives during that wait does not take the target back.
GeneratorCheck ==
  /\ genPc = "check"
  /\ IF genPos > Len(Targets) \/ cancelled
       THEN genPc' = "done" /\ UNCHANGED genPos
       ELSE IF Skips(Targets[genPos])
              THEN genPos' = genPos + 1 /\ UNCHANGED genPc
              ELSE genPc' = "send" /\ UNCHANGED genPos
  /\ UNCHANGED <<resumedFrom, targetQ, disc, probeQ, prober, fingerprintQ, fingerprinter,
                 eventQ, aggregatorVars, cancelled, swept>>

GeneratorSend ==
  /\ genPc = "send"
  /\ \/ /\ ~TargetsRefused /\ HasRoom(targetQ)
        /\ targetQ' = Append(targetQ, Targets[genPos])
        /\ genPos' = genPos + 1
        /\ genPc' = "check"
     \/ /\ TargetsRefused
        /\ genPc' = "done"
        /\ UNCHANGED <<targetQ, genPos>>
  /\ UNCHANGED <<resumedFrom, disc, probeQ, prober, fingerprintQ, fingerprinter, eventQ,
                 aggregatorVars, cancelled, swept>>

-----------------------------------------------------------------------------
\* A backend called with a cancelled token attempts nothing; otherwise it finds some of
\* the ports open, completely or not (cancelled on the way, or send errors); and a
\* backend error is an empty, incomplete outcome.
Outcomes(h, late) ==
  IF late
    THEN {[open |-> {}, complete |-> FALSE]}
    ELSE [open : SUBSET ScanPorts(h), complete : BOOLEAN]

TakeTarget(w) ==
  /\ disc[w] = Idle
  /\ targetQ # <<>>
  /\ disc' = [disc EXCEPT ![w] =
                [pc |-> "sweeping", host |-> Head(targetQ), late |-> cancelled]]
  /\ targetQ' = Tail(targetQ)
  /\ UNCHANGED <<generatorVars, probeQ, prober, fingerprintQ, fingerprinter, eventQ,
                 aggregatorVars, cancelled, swept>>

FinishSweep(w) ==
  /\ disc[w].pc = "sweeping"
  /\ \E o \in Outcomes(disc[w].host, disc[w].late) :
       /\ disc' = [disc EXCEPT ![w] =
                     [pc |-> "announcing", host |-> disc[w].host, outcome |-> o]]
       /\ swept' = swept \cup
                  {[host |-> disc[w].host, open |-> o.open, complete |-> o.complete]}
  /\ UNCHANGED <<generatorVars, targetQ, probeQ, prober, fingerprintQ, fingerprinter,
                 eventQ, aggregatorVars, cancelled>>

\* The host envelope goes to the aggregator before any of the host's jobs.
Announce(w) ==
  /\ disc[w].pc = "announcing"
  /\ LET h == disc[w].host
         o == disc[w].outcome
     IN  \/ /\ ~RunReturned /\ HasRoom(eventQ)
            /\ eventQ' = Append(eventQ, Started(h, o))
            /\ disc' = [disc EXCEPT ![w] =
                          IF o.open = {} THEN Idle
                          ELSE [pc |-> "enqueuing", host |-> h, todo |-> o.open]]
         \/ /\ RunReturned
            /\ disc' = [disc EXCEPT ![w] = Exited]
            /\ UNCHANGED eventQ
  /\ UNCHANGED <<generatorVars, targetQ, probeQ, prober, fingerprintQ, fingerprinter,
                 aggregatorVars, cancelled, swept>>

\* The worker once it has sent the job of port p: the next port, or the next target.
AfterFirstJob(h, todo, p) == Idle                               \* faulty variant
AfterJob(h, todo, p) ==
  IF todo = {p} THEN Idle ELSE [pc |-> "enqueuing", host |-> h, todo |-> todo \ {p}]

\* One ProbeJob per open port, in the order of outcome.open, which is sorted.
EnqueueJob(w) ==
  /\ disc[w].pc = "enqueuing"
  /\ LET h == disc[w].host
         todo == disc[w].todo
     IN  \/ \E p \in todo :
              /\ \A q \in todo : p <= q
              /\ ~ProbesRefused /\ HasRoom(probeQ)
              /\ probeQ' = Append(probeQ, Job(h, p))
              /\ disc' = [disc EXCEPT ![w] = AfterJob(h, todo, p)]
         \/ /\ ProbesRefused
            /\ disc' = [disc EXCEPT ![w] = Exited]
            /\ UNCHANGED probeQ
  /\ UNCHANGED <<generatorVars, targetQ, prober, fingerprintQ, fingerprinter, eventQ,
                 aggregatorVars, cancelled, swept>>

DiscoveryExits(w) ==
  /\ disc[w] = Idle
  /\ targetQ = <<>> /\ TargetsClosed
  /\ disc' = [disc EXCEPT ![w] = Exited]
  /\ UNCHANGED <<generatorVars, targetQ, probeQ, prober, fingerprintQ, fingerprinter,
                 eventQ, aggregatorVars, cancelled, swept>>

DiscoveryPanics(w) ==
  /\ disc[w].pc = "sweeping"
  /\ Panics < MaxPanics
  /\ disc' = [disc EXCEPT ![w] = Panicked]
  /\ UNCHANGED <<generatorVars, targetQ, probeQ, prober, fingerprintQ, fingerprinter,
                 eventQ, aggregatorVars, cancelled, swept>>

-----------------------------------------------------------------------------
TakeJob(w) ==
  /\ prober[w] = Idle
  /\ probeQ # <<>>
  /\ prober' = [prober EXCEPT ![w] = [pc |-> "probing", job |-> Head(probeQ)]]
  /\ probeQ' = Tail(probeQ)
  /\ UNCHANGED <<generatorVars, targetQ, disc, fingerprintQ, fingerprinter, eventQ,
                 aggregatorVars, cancelled, swept>>

\* The probe has answered or its budget has run out: either way one service goes on.
ForwardService(w) ==
  /\ prober[w].pc = "probing"
  /\ \/ /\ ~FingerprintsRefused /\ HasRoom(fingerprintQ)
        /\ fingerprintQ' = Append(fingerprintQ, prober[w].job)
        /\ prober' = [prober EXCEPT ![w] = Idle]
     \/ /\ FingerprintsRefused
        /\ prober' = [prober EXCEPT ![w] = Exited]
        /\ UNCHANGED fingerprintQ
  /\ UNCHANGED <<generatorVars, targetQ, disc, probeQ, fingerprinter, eventQ,
                 aggregatorVars, cancelled, swept>>

ProberExits(w) ==
  /\ prober[w] = Idle
  /\ probeQ = <<>> /\ ProbesClosed
  /\ prober' = [prober EXCEPT ![w] = Exited]
  /\ UNCHANGED <<generatorVars, targetQ, disc, probeQ, fingerprintQ, fingerprinter,
                 eventQ, aggregatorVars, cancelled, swept>>

ProberPanics(w) ==
  /\ prober[w].pc = "probing"
  /\ Panics < MaxPanics
  /\ prober' = [prober EXCEPT ![w] = Panicked]
  /\ UNCHANGED <<generatorVars, targetQ, disc, probeQ, fingerprintQ, fingerprinter,
                 eventQ, aggregatorVars, cancelled, swept>>

-----------------------------------------------------------------------------
TakeService(w) ==
  /\ fingerprinter[w] = Idle
  /\ fingerprintQ # <<>>
  /\ fingerprinter' = [fingerprinter EXCEPT ![w] =
                         [pc |-> "enriching", job |-> Head(fingerprintQ)]]
  /\ fingerprintQ' = Tail(fingerprintQ)
  /\ UNCHANGED <<generatorVars, targetQ, disc, probeQ, prober, eventQ, aggregatorVars,
                 cancelled, swept>>

EmitService(w) ==
  /\ fingerprinter[w].pc = "enriching"
  /\ \/ /\ ~RunReturned /\ HasRoom(eventQ)
        /\ eventQ' = Append(eventQ, Service(fingerprinter[w].job))
        /\ fingerprinter' = [fingerprinter EXCEPT ![w] = Idle]
     \/ /\ RunReturned
        /\ fingerprinter' = [fingerprinter EXCEPT ![w] = Exited]
        /\ UNCHANGED eventQ
  /\ UNCHANGED <<generatorVars, targetQ, disc, probeQ, prober, fingerprintQ,
                 aggregatorVars, cancelled, swept>>

FingerprinterExits(w) ==
  /\ fingerprinter[w] = Idle
  /\ fingerprintQ = <<>> /\ FingerprintsClosed
  /\ fingerprinter' = [fingerprinter EXCEPT ![w] = Exited]
  /\ UNCHANGED <<generatorVars, targetQ, disc, probeQ, prober, fingerprintQ, eventQ,
                 aggregatorVars, cancelled, swept>>

FingerprinterPanics(w) ==
  /\ fingerprinter[w].pc = "enriching"
  /\ Panics < MaxPanics
  /\ fingerprinter' = [fingerprinter EXCEPT ![w] = Panicked]
  /\ UNCHANGED <<generatorVars, targetQ, disc, probeQ, prober, fingerprintQ, eventQ,
                 aggregatorVars, cancelled, swept>>

-----------------------------------------------------------------------------
\* finish_host and persist_host: the record, and completed_hosts with or without the
\* host.  A disk error propagates out of run, which drops event_rx with what it holds.
Persist(h, acc) ==
  \/ /\ records' = Append(records, [host |-> h, ports |-> acc.ports,
                                    length |-> acc.count, complete |-> acc.complete])
     /\ completed' = IF acc.complete THEN completed \cup {h} ELSE completed \ {h}
     /\ UNCHANGED result
  \/ /\ DiskFaults
     /\ result' = "failed"
     /\ UNCHANGED <<records, completed>>

ReceiveEnvelope ==
  /\ ~RunReturned /\ eventQ # <<>> /\ Head(eventQ).type = "started"
  /\ LET e == Head(eventQ)
         acc == [open |-> e.open, complete |-> e.complete, ports |-> {}, count |-> 0]
     IN  IF e.open = {}
           THEN Persist(e.host, acc) /\ UNCHANGED hosts
           ELSE /\ hosts' = [hosts EXCEPT ![e.host] = acc]
                /\ UNCHANGED <<completed, records, result>>
  /\ eventQ' = Tail(eventQ)
  /\ UNCHANGED <<generatorVars, targetQ, disc, probeQ, prober, fingerprintQ,
                 fingerprinter, cancelled, swept>>

\* services.len() == discovered.outcome.open.len()
HasAnyService(acc) == acc.count > 0                             \* faulty variant
HasAllServices(acc) == acc.count = Cardinality(acc.open)

\* A service whose host has no accumulator is logged and dropped.
ReceiveService ==
  /\ ~RunReturned /\ eventQ # <<>> /\ Head(eventQ).type = "service"
  /\ LET e == Head(eventQ)
         acc == [hosts[e.host] EXCEPT !.ports = @ \cup {e.port}, !.count = @ + 1]
     IN  IF e.host \notin Accumulating
           THEN UNCHANGED aggregatorVars
           ELSE IF HasAllServices(acc)
                  THEN /\ hosts' = [hosts EXCEPT ![e.host] = NoEntry]
                       /\ Persist(e.host, acc)
                  ELSE /\ hosts' = [hosts EXCEPT ![e.host] = acc]
                       /\ UNCHANGED <<completed, records, result>>
  /\ eventQ' = Tail(eventQ)
  /\ UNCHANGED <<generatorVars, targetQ, disc, probeQ, prober, fingerprintQ,
                 fingerprinter, cancelled, swept>>

\* No JoinHandle reports a panic and no accumulator is left.
JoinsRegardless == TRUE                                         \* faulty variant
JoinsCleanly == Panics = 0 /\ Accumulating = {}

\* The event channel is drained and closed: run joins the generator and every worker, in
\* the order of the stages, insists that no accumulator is left, flushes and saves.  A
\* panicked discovery or protocol worker ends run without waiting for the others.
JoinTasks ==
  /\ ~RunReturned /\ eventQ = <<>> /\ EventsClosed
  /\ genPc = "done"
  /\ \/ FingerprintsClosed
     \/ \E w \in DiscoveryWorkers : disc[w] = Panicked
     \/ \E w \in ProbeWorkers : prober[w] = Panicked
  /\ \/ JoinsCleanly /\ result' = "ok"
     \/ (~JoinsCleanly \/ DiskFaults) /\ result' = "failed"
  /\ UNCHANGED <<generatorVars, targetQ, disc, probeQ, prober, fingerprintQ, fingerprinter,
                 eventQ, hosts, completed, records, cancelled, swept>>

\* The first shutdown signal (shutdown::watch).
Cancel ==
  /\ ~RunReturned /\ ~cancelled
  /\ cancelled' = TRUE
  /\ UNCHANGED <<generatorVars, targetQ, disc, probeQ, prober, fingerprintQ, fingerprinter,
                 eventQ, aggregatorVars, swept>>

AllEnded == RunReturned /\ genPc = "done" /\ EventsClosed /\ FingerprintsClosed

\* All the workers of one stage have panicked and the stage before it waits for room in
\* their full queue: run's own Arc of the receiver keeps that queue open.
WaitsOnLostStage ==
  /\ ~RunReturned
  /\ \/ /\ \A w \in DiscoveryWorkers : disc[w] = Panicked
        /\ genPc = "send" /\ ~HasRoom(targetQ)
     \/ /\ \A w \in ProbeWorkers : prober[w] = Panicked
        /\ \E w \in DiscoveryWorkers : disc[w].pc = "enqueuing"
        /\ ~HasRoom(probeQ)
     \/ /\ \A w \in FingerprintWorkers : fingerprinter[w] = Panicked
        /\ \E w \in ProbeWorkers : prober[w].pc = "probing"
        /\ ~HasRoom(fingerprintQ)

\* Not steps of the code: everything has ended, or hangs.
Terminated == AllEnded /\ UNCHANGED vars
Hangs == WaitsOnLostStage /\ UNCHANGED vars

-----------------------------------------------------------------------------
DiscoveryStep(w) ==
  TakeTarget(w) \/ FinishSweep(w) \/ Announce(w) \/ EnqueueJob(w) \/ DiscoveryExits(w)
ProberStep(w) == TakeJob(w) \/ ForwardService(w) \/ ProberExits(w)
FingerprinterStep(w) == TakeService(w) \/ EmitService(w) \/ FingerprinterExits(w)

\* The steps the runtime owes to the tasks; a panic and a cancel are owed to nobody.
TaskStep ==
  \/ GeneratorCheck \/ GeneratorSend
  \/ \E w \in DiscoveryWorkers : DiscoveryStep(w)
  \/ \E w \in ProbeWorkers : ProberStep(w)
  \/ \E w \in FingerprintWorkers : FingerprinterStep(w)
  \/ ReceiveEnvelope \/ ReceiveService \/ JoinTasks

Next ==
  \/ TaskStep
  \/ Cancel
  \/ \E w \in DiscoveryWorkers : DiscoveryPanics(w)
  \/ \E w \in ProbeWorkers : ProberPanics(w)
  \/ \E w \in FingerprintWorkers : FingerprinterPanics(w)
  \/ Terminated \/ Hangs

Spec == Init /\ [][Next]_vars

\* tokio keeps polling ready tasks, and discovery and probes end by their own timeouts:
\* as long as some task can take a step, one of them does.
FairSpec == Spec /\ WF_vars(TaskStep)

-----------------------------------------------------------------------------
Outcome == [open : SUBSET UNION {ScanPorts(h) : h \in Hosts}, complete : BOOLEAN]

\* Every variable stays within the states its Rust type and this module allow, and no
\* channel holds more than its capacity.
TypeOK ==
  /\ resumedFrom \subseteq Hosts
  /\ genPc \in {"check", "send", "done"}
  /\ genPos \in 1 .. Len(Targets) + 1
  /\ targetQ \in Seq(Hosts) /\ probeQ \in Seq(Jobs) /\ fingerprintQ \in Seq(Jobs)
  /\ \A q \in {targetQ, probeQ, fingerprintQ, eventQ} : Len(q) <= QueueDepth
  /\ eventQ \in Seq({Started(h, o) : h \in Hosts, o \in Outcome}
                     \cup {Service(j) : j \in Jobs})
  /\ \A w \in DiscoveryWorkers :
       disc[w] \in {Idle, Exited, Panicked}
         \cup [pc : {"sweeping"}, host : Hosts, late : BOOLEAN]
         \cup [pc : {"announcing"}, host : Hosts, outcome : Outcome]
         \cup [pc : {"enqueuing"}, host : Hosts,
               todo : SUBSET UNION {ScanPorts(h) : h \in Hosts}]
  /\ \A w \in ProbeWorkers :
       prober[w] \in {Idle, Exited, Panicked} \cup [pc : {"probing"}, job : Jobs]
  /\ \A w \in FingerprintWorkers :
       fingerprinter[w] \in {Idle, Exited, Panicked} \cup [pc : {"enriching"}, job : Jobs]
  /\ \A h \in Hosts : hosts[h].ports \subseteq hosts[h].open /\ hosts[h].count \in Nat
  /\ completed \subseteq Hosts
  /\ cancelled \in BOOLEAN
  /\ result \in {"running", "ok", "failed"}

\* The aggregator never meets a service whose host envelope it has not had: the worker
\* sends the envelope before the first job, and every later stage is behind that send.
EnvelopeFirst ==
  \A i \in DOMAIN eventQ :
    LET e == eventQ[i] IN
    e.type = "service" =>
      \/ e.port \in hosts[e.host].open \ hosts[e.host].ports
      \/ \E j \in 1 .. i - 1 :
           eventQ[j].type = "started" /\ eventQ[j].host = e.host /\ e.port \in eventQ[j].open

\* Where a port of an announced host can be before the aggregator has its service.
Carriers(h, p) ==
  LET at(queue) == {i \in DOMAIN queue : queue[i] = Job(h, p)}
      todo == {w \in DiscoveryWorkers :
                 disc[w].pc = "enqueuing" /\ disc[w].host = h /\ p \in disc[w].todo}
      busy == {w \in ProbeWorkers : prober[w] = [pc |-> "probing", job |-> Job(h, p)]}
      rich == {w \in FingerprintWorkers :
                 fingerprinter[w] = [pc |-> "enriching", job |-> Job(h, p)]}
      sent == {i \in DOMAIN eventQ : eventQ[i] = Service(Job(h, p))}
  IN  Cardinality(at(probeQ)) + Cardinality(at(fingerprintQ)) + Cardinality(todo)
        + Cardinality(busy) + Cardinality(rich) + Cardinality(sent)

\* As long as no task has panicked, every open port of a host under aggregation is in
\* exactly one place: received, or carried by one queue or one worker.  It is what makes
\* "services.len() == open.len()" the right test for a finished host.
JobsConserved ==
  ~RunReturned /\ Panics = 0 =>
    \A h \in Accumulating :
      /\ hosts[h].count = Cardinality(hosts[h].ports)
      /\ \A p \in hosts[h].open :
           Carriers(h, p) = IF p \in hosts[h].ports THEN 0 ELSE 1

\* A record is the outcome of one sweep of its host: all of its open ports, one service
\* each, and its completeness, whatever the order the services arrived in.
RecordsAreFaithful ==
  \A i \in DOMAIN records :
    LET r == records[i] IN
    /\ r.length = Cardinality(r.ports)
    /\ [host |-> r.host, open |-> r.ports, complete |-> r.complete] \in swept
    /\ \A o \in swept : o.host = r.host => o.open = r.ports

\* A run that ends well, cancelled or not, has recorded every host it swept, and
\* completed_hosts has gained exactly those whose sweep was complete.
AcceptedHostsAreRecorded ==
  result = "ok" =>
    /\ \A o \in swept : \E i \in DOMAIN records : records[i].host = o.host
    /\ completed = resumedFrom \cup {o.host : o \in {s \in swept : s.complete}}

\* Every run returns and every task ends, also after a cancel, a disk error that closes the
\* event channel under the workers, and panics; unless a whole stage has panicked with
\* more work to come than its queue holds: then the stage before it waits for ever.
EveryTaskEnds == <>AllEnded \/ <>[]WaitsOnLostStage

\* The run is what ScanContract promises: each target recorded at most once, nothing
\* recorded after the end, a good end only when all is recorded or a stop was asked for.
\* That it ends is not part of the contract: EveryTaskEnds says when it does not.
Contract == INSTANCE ScanContract WITH
  before <- resumedFrom,
  records <- [i \in DOMAIN records |->
                [host |-> records[i].host, complete |-> records[i].complete]],
  stopped <- cancelled,
  outcome <- result
KeepsContract == Contract!Spec

=============================================================================
