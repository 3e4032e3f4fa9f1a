------------------------ MODULE ScanPipeline_proofs -------------------------
(***************************************************************************)
(* For any targets, ports, numbers of workers, queue depth and panics, and *)
(* whatever the disk does: no host is swept or recorded twice, no job of a *)
(* host is ever in two places, a service never meets the aggregator before *)
(* its host, a record is the outcome of one sweep, and the pipeline is the *)
(* run that ScanContract promises.                                         *)
(***************************************************************************)
EXTENDS ScanPipeline, FiniteSetTheorems, TLAPS

AllPorts == UNION {ScanPorts(h) : h \in Hosts}
Sweeps == [host : Hosts, open : SUBSET AllPorts, complete : BOOLEAN]
Accumulators ==
  [open : SUBSET AllPorts, complete : BOOLEAN, ports : SUBSET AllPorts, count : Nat]
HostResults == [host : Hosts, ports : SUBSET AllPorts, length : Nat, complete : BOOLEAN]
Events == {Started(h, o) : h \in Hosts, o \in Outcome} \cup {Service(j) : j \in Jobs}

DiscoveryStates ==
  {Idle, Exited, Panicked}
    \cup [pc : {"sweeping"}, host : Hosts, late : BOOLEAN]
    \cup [pc : {"announcing"}, host : Hosts, outcome : Outcome]
    \cup [pc : {"enqueuing"}, host : Hosts, todo : SUBSET AllPorts]
ProberStates == {Idle, Exited, Panicked} \cup [pc : {"probing"}, job : Jobs]
FingerprinterStates == {Idle, Exited, Panicked} \cup [pc : {"enriching"}, job : Jobs]

-----------------------------------------------------------------------------
\* Where a host can be.
InQueue(h) == \E i \in 1 .. Len(targetQ) : targetQ[i] = h
AtWorker(w, h) == disc[w].pc \in {"sweeping", "announcing"} /\ disc[w].host = h
IsSwept(h) == \E o \in swept : o.host = h
InEvents(h) == \E i \in 1 .. Len(eventQ) : eventQ[i].type = "started" /\ eventQ[i].host = h
IsRecorded(h) == \E i \in 1 .. Len(records) : records[i].host = h

\* The generator has passed h and did not skip it.
Passed(h) == h \notin resumedFrom /\ \E k \in 1 .. genPos - 1 : Targets[k] = h

NoPanics ==
  /\ \A w \in DiscoveryWorkers : disc[w] # Panicked
  /\ \A w \in ProbeWorkers : prober[w] # Panicked
  /\ \A w \in FingerprintWorkers : fingerprinter[w] # Panicked

-----------------------------------------------------------------------------
\* The inductive invariant, in parts.
Shapes ==
  /\ disc \in [DiscoveryWorkers -> DiscoveryStates]
  /\ prober \in [ProbeWorkers -> ProberStates]
  /\ fingerprinter \in [FingerprintWorkers -> FingerprinterStates]
  /\ hosts \in [Hosts -> Accumulators]
  /\ records \in Seq(HostResults)
  /\ swept \subseteq Sweeps

QueuesOK ==
  /\ targetQ \in Seq(Hosts) /\ Len(targetQ) <= QueueDepth
  /\ probeQ \in Seq(Jobs) /\ Len(probeQ) <= QueueDepth
  /\ fingerprintQ \in Seq(Jobs) /\ Len(fingerprintQ) <= QueueDepth
  /\ eventQ \in Seq(Events) /\ Len(eventQ) <= QueueDepth

OthersOK ==
  /\ resumedFrom \subseteq Hosts /\ completed \subseteq Hosts
  /\ genPc \in {"check", "send", "done"} /\ genPos \in 1 .. Len(Targets) + 1
  /\ \A h \in Hosts : hosts[h].ports \subseteq hosts[h].open
  /\ cancelled \in BOOLEAN /\ result \in {"running", "ok", "failed"}

\* No host is in the queue of targets, at a discovery worker, or swept, twice.
SweptOnce ==
  /\ genPc = "send" => genPos <= Len(Targets) /\ Targets[genPos] \notin resumedFrom
  /\ \A i, j \in 1 .. Len(targetQ) : targetQ[i] = targetQ[j] => i = j
  /\ \A h \in Hosts : InQueue(h) => Passed(h) /\ ~IsSwept(h)
  /\ \A w \in DiscoveryWorkers, h \in Hosts :
       AtWorker(w, h) =>
         /\ Passed(h) /\ ~InQueue(h)
         /\ disc[w].pc = "sweeping" => ~IsSwept(h)
         /\ \A v \in DiscoveryWorkers : AtWorker(v, h) => v = w
  /\ \A o \in swept : Passed(o.host)
  /\ \A o, q \in swept : o.host = q.host => o = q

\* What the pipeline says of a host is what its sweep found.
FromSweep ==
  /\ \A w \in DiscoveryWorkers : disc[w].pc = "announcing" =>
       [host |-> disc[w].host, open |-> disc[w].outcome.open,
        complete |-> disc[w].outcome.complete] \in swept
  /\ \A i \in 1 .. Len(eventQ) : eventQ[i].type = "started" =>
       [host |-> eventQ[i].host, open |-> eventQ[i].open, complete |-> eventQ[i].complete]
         \in swept
  /\ \A h \in Accumulating :
       [host |-> h, open |-> hosts[h].open, complete |-> hosts[h].complete] \in swept
  /\ \A i \in 1 .. Len(records) :
       /\ records[i].length = Cardinality(records[i].ports)
       /\ [host |-> records[i].host, open |-> records[i].ports,
           complete |-> records[i].complete] \in swept

\* A host is being announced, announced, under aggregation or recorded, once.
OnePlace ==
  /\ \A i, j \in 1 .. Len(eventQ) :
       /\ eventQ[i].type = "started" /\ eventQ[j].type = "started"
       /\ eventQ[i].host = eventQ[j].host
       => i = j
  /\ \A i, j \in 1 .. Len(records) : records[i].host = records[j].host => i = j
  /\ \A w \in DiscoveryWorkers, h \in Hosts :
       AtWorker(w, h) => ~InEvents(h) /\ h \notin Accumulating /\ ~IsRecorded(h)
  /\ \A h \in Hosts : InEvents(h) => h \notin Accumulating /\ ~IsRecorded(h)
  /\ \A h \in Accumulating : ~IsRecorded(h)

\* The ports of h whose service the aggregator has yet to receive.
Awaited(h) ==
  (hosts[h].open \ hosts[h].ports) \cup
    {p \in AllPorts : \E i \in 1 .. Len(eventQ) :
       eventQ[i].type = "started" /\ eventQ[i].host = h /\ p \in eventQ[i].open}

\* An awaited port is in one place at most, and in one if nothing went wrong.
JobsInPlace ==
  \A h \in Hosts, p \in AllPorts :
    /\ Carriers(h, p) <= IF p \in Awaited(h) THEN 1 ELSE 0
    /\ ~RunReturned /\ NoPanics => Carriers(h, p) = IF p \in Awaited(h) THEN 1 ELSE 0

CountsAgree == \A h \in Hosts : hosts[h].count = Cardinality(hosts[h].ports)

CompletedAreRecorded ==
  completed = resumedFrom \cup
    {h \in Hosts : \E i \in 1 .. Len(records) : records[i].host = h /\ records[i].complete}

\* Until a task panics or the run ends, no host drops out on the way.
NothingLost ==
  ~RunReturned /\ NoPanics =>
    /\ \A k \in 1 .. genPos - 1 :
         \/ Targets[k] \in resumedFrom \/ InQueue(Targets[k]) \/ IsSwept(Targets[k])
         \/ \E w \in DiscoveryWorkers : AtWorker(w, Targets[k])
    /\ \A o \in swept :
         \/ \E w \in DiscoveryWorkers : AtWorker(w, o.host)
         \/ InEvents(o.host) \/ o.host \in Accumulating \/ IsRecorded(o.host)

\* Who has left, and why.
Exits ==
  /\ genPc = "done" /\ ~RunReturned => cancelled \/ genPos > Len(Targets)
  /\ \A w \in DiscoveryWorkers :
       disc[w] = Exited /\ ~RunReturned => targetQ = <<>> /\ genPc = "done"
  /\ result = "ok" =>
       /\ \A w \in DiscoveryWorkers : Gone(disc[w])
       /\ \A o \in swept : IsRecorded(o.host)

PipelineInv ==
  /\ Shapes /\ QueuesOK /\ OthersOK
  /\ SweptOnce /\ FromSweep /\ OnePlace
  /\ EnvelopeFirst /\ JobsInPlace /\ CountsAgree
  /\ CompletedAreRecorded /\ NothingLost /\ Exits
-----------------------------------------------------------------------------
\* How many: members of a set that changes by one member, and places in a queue.
LEMMA OneMember ==
  ASSUME NEW S, NEW T, NEW x, IsFiniteSet(S), S \ {x} = T \ {x}
  PROVE  /\ IsFiniteSet(T) /\ Cardinality(S) \in Nat /\ Cardinality(T) \in Nat
         /\ (x \in S <=> x \in T) => Cardinality(T) = Cardinality(S)
         /\ x \in S /\ x \notin T => Cardinality(S) = Cardinality(T) + 1
         /\ x \notin S /\ x \in T => Cardinality(T) = Cardinality(S) + 1
<1>1. CASE x \in S /\ x \in T
  <2>1. S = T
    BY <1>1
  <2> QED BY <1>1, <2>1, FS_CardinalityType
<1>2. CASE x \notin S /\ x \notin T
  <2>1. S = T
    BY <1>2
  <2> QED BY <1>2, <2>1, FS_CardinalityType
<1>3. CASE x \in S /\ x \notin T
  <2>1. T = S \ {x}
    BY <1>3
  <2>2. IsFiniteSet(T) /\ Cardinality(T) = Cardinality(S) - 1
    BY <1>3, <2>1, FS_RemoveElement
  <2> QED BY <1>3, <2>2, FS_CardinalityType
<1>4. CASE x \notin S /\ x \in T
  <2>1. T = S \cup {x}
    BY <1>4
  <2>2. IsFiniteSet(T) /\ Cardinality(T) = Cardinality(S) + 1
    BY <1>4, <2>1, FS_AddElement
  <2> QED BY <1>4, <2>2, FS_CardinalityType
<1> QED BY <1>1, <1>2, <1>3, <1>4

\* The places of x in a queue.
At(queue, x) == {i \in DOMAIN queue : queue[i] = x}
HowMany(queue, x) == Cardinality(At(queue, x))

LEMMA HowManyType ==
  ASSUME NEW S, NEW queue \in Seq(S), NEW x
  PROVE  /\ IsFiniteSet(At(queue, x)) /\ HowMany(queue, x) \in Nat
         /\ \A i \in 1 .. Len(queue) : queue[i] = x => HowMany(queue, x) > 0
         /\ HowMany(queue, x) > 0 => \E i \in 1 .. Len(queue) : queue[i] = x
         /\ HowMany(queue, x) <= 1 =>
              \A i, j \in 1 .. Len(queue) : queue[i] = x /\ queue[j] = x => i = j
<1>1. DOMAIN queue = 1 .. Len(queue) /\ Len(queue) \in Nat
  OBVIOUS
<1>2. IsFiniteSet(1 .. Len(queue)) /\ At(queue, x) \in SUBSET (1 .. Len(queue))
  BY <1>1, FS_Interval DEF At
<1>3. IsFiniteSet(At(queue, x)) /\ HowMany(queue, x) \in Nat
  BY <1>2, FS_Subset, FS_CardinalityType DEF HowMany
<1>4. HowMany(queue, x) = 0 <=> At(queue, x) = {}
  BY <1>3, FS_EmptySet DEF HowMany
<1>5. HowMany(queue, x) = 1 => \E i : At(queue, x) = {i}
  BY <1>3, FS_Singleton DEF HowMany
<1>6. \A i \in 1 .. Len(queue) : queue[i] = x <=> i \in At(queue, x)
  BY <1>1 DEF At
<1>7. HowMany(queue, x) > 0 => \E i \in 1 .. Len(queue) : queue[i] = x
  BY <1>1, <1>3, <1>4 DEF At
<1>8. HowMany(queue, x) <= 1 =>
        \A i, j \in 1 .. Len(queue) : queue[i] = x /\ queue[j] = x => i = j
  BY <1>3, <1>4, <1>5, <1>6
<1> QED BY <1>3, <1>4, <1>6, <1>7, <1>8

LEMMA HowManyAppended ==
  ASSUME NEW S, NEW queue \in Seq(S), NEW y \in S, NEW x
  PROVE  HowMany(Append(queue, y), x) = HowMany(queue, x) + IF y = x THEN 1 ELSE 0
<1> DEFINE longer == Append(queue, y)
           n == Len(queue) + 1
<1>1. /\ DOMAIN queue = 1 .. Len(queue) /\ Len(queue) \in Nat /\ DOMAIN longer = 1 .. n
      /\ longer[n] = y /\ \A i \in 1 .. Len(queue) : longer[i] = queue[i]
  OBVIOUS
<1> HIDE DEF longer
<1>2. At(queue, x) \ {n} = At(longer, x) \ {n} /\ n \notin At(queue, x)
      /\ (n \in At(longer, x) <=> y = x)
  BY <1>1 DEF At
<1>3. IsFiniteSet(At(queue, x))
  BY HowManyType
<1> QED BY <1>2, <1>3, OneMember DEF HowMany, longer

LEMMA HowManyLeft ==
  ASSUME NEW S, NEW queue \in Seq(S), queue # <<>>, NEW x
  PROVE  HowMany(queue, x) = HowMany(Tail(queue), x) + IF Head(queue) = x THEN 1 ELSE 0
<1> DEFINE rest == Tail(queue)
           later == At(queue, x) \ {1}
           f == [i \in At(rest, x) |-> i + 1]
<1>1. /\ DOMAIN queue = 1 .. Len(queue) /\ Len(queue) \in Nat /\ Len(queue) > 0
      /\ rest \in Seq(S) /\ DOMAIN rest = 1 .. Len(queue) - 1 /\ Head(queue) = queue[1]
      /\ \A i \in 1 .. Len(queue) - 1 : rest[i] = queue[i + 1]
  OBVIOUS
<1> HIDE DEF rest
<1>2. f \in Bijection(At(rest, x), later)
  <2>1. \A i \in At(rest, x) : i \in 1 .. Len(queue) - 1 /\ f[i] = i + 1 /\ f[i] \in later
    BY <1>1 DEF At
  <2>2. \A j \in later : j - 1 \in At(rest, x) /\ f[j - 1] = j
    BY <1>1 DEF At
  <2>3. f \in [At(rest, x) -> later]
    BY <2>1
  <2> HIDE DEF f, later
  <2>4. \A i, j \in At(rest, x) : f[i] = f[j] => i = j
    BY <2>1
  <2> QED BY <2>2, <2>3, <2>4 DEF Bijection, Injection, Surjection, IsInjective
<1>3. IsFiniteSet(At(rest, x)) /\ IsFiniteSet(At(queue, x)) /\ HowMany(rest, x) \in Nat
  BY <1>1, HowManyType
<1>4. Cardinality(later) = HowMany(rest, x)
  <2>1. ExistsBijection(At(rest, x), later)
    BY <1>2 DEF ExistsBijection
  <2> QED BY <1>3, <2>1, FS_Bijection DEF HowMany
<1>5. 1 \in At(queue, x) <=> Head(queue) = x
  BY <1>1 DEF At
<1>6. later \ {1} = At(queue, x) \ {1} /\ 1 \notin later
  OBVIOUS
<1> HIDE DEF later
<1> QED BY <1>3, <1>4, <1>5, <1>6, OneMember DEF HowMany, rest

\* The workers that hold x: only one of them changes at a time.
Holding(workers, state, x) == {w \in workers : state[w] = x}

-----------------------------------------------------------------------------
\* The constants, and the states a task or an event can be in.
LEMMA PipelineConstants ==
  /\ Targets \in Seq(Hosts) /\ Len(Targets) \in Nat /\ DOMAIN Targets = 1 .. Len(Targets)
  /\ \A i, j \in 1 .. Len(Targets) : Targets[i] = Targets[j] => i = j
  /\ \A i \in 1 .. Len(Targets) : Targets[i] \in Hosts
  /\ QueueDepth \in Nat /\ QueueDepth > 0
  /\ IsFiniteSet(DiscoveryWorkers) /\ IsFiniteSet(ProbeWorkers)
  /\ IsFiniteSet(FingerprintWorkers) /\ DiscoveryWorkers # {}
<1>1. Targets \in Seq(Hosts) /\ \A i, j \in DOMAIN Targets : Targets[i] = Targets[j] => i = j
  BY PipelineAssumption DEF PipelineAssumption
<1>2. Len(Targets) \in Nat /\ DOMAIN Targets = 1 .. Len(Targets)
  BY <1>1
<1> QED BY <1>1, <1>2, PipelineAssumption DEF PipelineAssumption, Hosts

LEMMA Ports ==
  /\ IsFiniteSet(AllPorts)
  /\ \A h \in Hosts : ScanPorts(h) \subseteq AllPorts
  /\ \A S \in SUBSET AllPorts : IsFiniteSet(S) /\ Cardinality(S) \in Nat
<1>1. IsFiniteSet(AnyPort)
  <2>1. \A n \in Nat : IsFiniteSet(0 .. n)
    BY FS_Interval
  <2>2. 65535 \in Nat
    OBVIOUS
  <2>3. PICK n \in Nat : n = 65535
    BY <2>2
  <2>4. AnyPort = 0 .. n
    BY <2>3 DEF AnyPort
  <2> QED BY <2>1, <2>4
<1>2. \A h \in Hosts : ScanPorts(h) \subseteq AnyPort
  BY PipelineAssumption DEF PipelineAssumption, ScanPorts
<1>3. AllPorts \in SUBSET AnyPort
  BY <1>2 DEF AllPorts
<1>4. IsFiniteSet(AllPorts)
  BY <1>1, <1>3, FS_Subset
<1>5. \A S \in SUBSET AllPorts : IsFiniteSet(S) /\ Cardinality(S) \in Nat
  BY <1>4, FS_Subset, FS_CardinalityType
<1> QED BY <1>4, <1>5 DEF AllPorts

LEMMA JobsAre ==
  /\ Jobs = [host : Hosts, port : AllPorts]
  /\ \A h, g, p, q : Job(h, p) = Job(g, q) => h = g /\ p = q
  /\ \A j \in Jobs : j.host \in Hosts /\ j.port \in AllPorts /\ j = Job(j.host, j.port)
  /\ \A h \in Hosts, p \in AllPorts : Job(h, p) \in Jobs
<1>1. Jobs = {Job(h, p) : h \in Hosts, p \in AllPorts}
  BY DEF Jobs, AllPorts
<1>2. \A h, g, p, q : Job(h, p) = Job(g, q) => h = g /\ p = q
  BY DEF Job
<1>3. Jobs = [host : Hosts, port : AllPorts]
  <2>1. \A h \in Hosts, p \in AllPorts : Job(h, p) \in [host : Hosts, port : AllPorts]
    BY DEF Job
  <2>2. ASSUME NEW j \in [host : Hosts, port : AllPorts] PROVE j = Job(j.host, j.port)
    BY <2>2 DEF Job
  <2>3. \A j \in [host : Hosts, port : AllPorts] : j.host \in Hosts /\ j.port \in AllPorts
    OBVIOUS
  <2>4. \A j \in [host : Hosts, port : AllPorts] : j \in Jobs
    BY <1>1, <2>2, <2>3
  <2>5. \A j \in Jobs : j \in [host : Hosts, port : AllPorts]
    BY <1>1, <2>1
  <2> QED BY <2>4, <2>5
<1>4. \A h, p : Job(h, p).host = h /\ Job(h, p).port = p
  BY DEF Job
<1>5. ASSUME NEW j \in Jobs
      PROVE  j.host \in Hosts /\ j.port \in AllPorts /\ j = Job(j.host, j.port)
  <2>1. PICK h \in Hosts, p \in AllPorts : j = Job(h, p)
    BY <1>1
  <2> QED BY <1>4, <2>1
<1>6. \A h \in Hosts, p \in AllPorts : Job(h, p) \in Jobs
  BY <1>1
<1> QED BY <1>2, <1>3, <1>5, <1>6, Zenon

LEMMA OutcomesAre == Outcome = [open : SUBSET AllPorts, complete : BOOLEAN]
  BY DEF Outcome, AllPorts

LEMMA DiscoveryState ==
  ASSUME NEW d \in DiscoveryStates
  PROVE  /\ d.pc \in {"idle", "exited", "panicked", "sweeping", "announcing", "enqueuing"}
         /\ (d = Idle <=> d.pc = "idle") /\ (d = Exited <=> d.pc = "exited")
         /\ (d = Panicked <=> d.pc = "panicked")
         /\ d.pc = "sweeping" => d.host \in Hosts /\ d.late \in BOOLEAN
         /\ d.pc = "announcing" => d.host \in Hosts /\ d.outcome \in Outcome
         /\ d.pc = "enqueuing" => d.host \in Hosts /\ d.todo \in SUBSET AllPorts
  BY DEF DiscoveryStates, Idle, Exited, Panicked

LEMMA ProberState ==
  ASSUME NEW d \in ProberStates
  PROVE  /\ d.pc \in {"idle", "exited", "panicked", "probing"}
         /\ (d = Idle <=> d.pc = "idle") /\ (d = Exited <=> d.pc = "exited")
         /\ (d = Panicked <=> d.pc = "panicked")
         /\ d.pc = "probing" => d.job \in Jobs /\ d = [pc |-> "probing", job |-> d.job]
  BY DEF ProberStates, Idle, Exited, Panicked

LEMMA FingerprinterState ==
  ASSUME NEW d \in FingerprinterStates
  PROVE  /\ d.pc \in {"idle", "exited", "panicked", "enriching"}
         /\ (d = Idle <=> d.pc = "idle") /\ (d = Exited <=> d.pc = "exited")
         /\ (d = Panicked <=> d.pc = "panicked")
         /\ d.pc = "enriching" => d.job \in Jobs /\ d = [pc |-> "enriching", job |-> d.job]
  BY DEF FingerprinterStates, Idle, Exited, Panicked

LEMMA EventIs ==
  ASSUME NEW e \in Events
  PROVE  /\ e.type \in {"started", "service"} /\ e.host \in Hosts
         /\ e.type = "started" => e.open \in SUBSET AllPorts /\ e.complete \in BOOLEAN
         /\ e.type = "service" => /\ e.port \in AllPorts
                                  /\ e = Service(Job(e.host, e.port))
         /\ \A h, p : e = Service(Job(h, p)) => e.type = "service" /\ e.host = h /\ e.port = p
<1>1. CASE \E h \in Hosts, o \in Outcome : e = Started(h, o)
  BY <1>1, OutcomesAre DEF Started, Service
<1>2. CASE \E j \in Jobs : e = Service(j)
  BY <1>2, JobsAre DEF Service, Job
<1> QED BY <1>1, <1>2 DEF Events

\* Carriers as a sum of six numbers.
Todo(h, p) == {w \in DiscoveryWorkers :
                 disc[w].pc = "enqueuing" /\ disc[w].host = h /\ p \in disc[w].todo}
Probing(h, p) == [pc |-> "probing", job |-> Job(h, p)]
Enriching(h, p) == [pc |-> "enriching", job |-> Job(h, p)]
InProbeQ(h, p) == HowMany(probeQ, Job(h, p))
InFingerprintQ(h, p) == HowMany(fingerprintQ, Job(h, p))
InTodo(h, p) == Cardinality(Todo(h, p))
Probed(h, p) == Cardinality(Holding(ProbeWorkers, prober, Probing(h, p)))
Enriched(h, p) == Cardinality(Holding(FingerprintWorkers, fingerprinter, Enriching(h, p)))
SentUp(h, p) == HowMany(eventQ, Service(Job(h, p)))

LEMMA CarriersSum ==
  ASSUME QueuesOK, NEW h, NEW p
  PROVE  /\ InProbeQ(h, p) \in Nat /\ InFingerprintQ(h, p) \in Nat /\ InTodo(h, p) \in Nat
         /\ Probed(h, p) \in Nat /\ Enriched(h, p) \in Nat /\ SentUp(h, p) \in Nat
         /\ IsFiniteSet(Todo(h, p))
         /\ Carriers(h, p) = InProbeQ(h, p) + InFingerprintQ(h, p) + InTodo(h, p)
                               + Probed(h, p) + Enriched(h, p) + SentUp(h, p)
<1>1. IsFiniteSet(Todo(h, p)) /\ InTodo(h, p) \in Nat
  BY PipelineConstants, FS_Subset, FS_CardinalityType DEF Todo, InTodo
<1>2. Probed(h, p) \in Nat
  BY PipelineConstants, FS_Subset, FS_CardinalityType DEF Probed, Holding
<1>3. Enriched(h, p) \in Nat
  BY PipelineConstants, FS_Subset, FS_CardinalityType DEF Enriched, Holding
<1>4. InProbeQ(h, p) \in Nat /\ InFingerprintQ(h, p) \in Nat /\ SentUp(h, p) \in Nat
  BY HowManyType DEF QueuesOK, InProbeQ, InFingerprintQ, SentUp
<1>5. Carriers(h, p) = InProbeQ(h, p) + InFingerprintQ(h, p) + InTodo(h, p)
                         + Probed(h, p) + Enriched(h, p) + SentUp(h, p)
  BY DEF Carriers, InProbeQ, InFingerprintQ, InTodo, Probed, Enriched, SentUp, HowMany, At,
         Todo, Holding, Probing, Enriching
<1> QED BY <1>1, <1>2, <1>3, <1>4, <1>5

CarriersAdd ==
  \A h \in Hosts, p \in AllPorts :
    /\ InProbeQ(h, p) \in Nat /\ InFingerprintQ(h, p) \in Nat /\ InTodo(h, p) \in Nat
    /\ Probed(h, p) \in Nat /\ Enriched(h, p) \in Nat /\ SentUp(h, p) \in Nat
    /\ Carriers(h, p) = InProbeQ(h, p) + InFingerprintQ(h, p) + InTodo(h, p)
                          + Probed(h, p) + Enriched(h, p) + SentUp(h, p)

LEMMA CarriersNow == QueuesOK => CarriersAdd
  BY CarriersSum DEF CarriersAdd

LEMMA CarriersNext == QueuesOK' => CarriersAdd'
  BY CarriersNow, PTL

LEMMA PanicsAreCounted == Panics = 0 <=> NoPanics
<1> DEFINE D == {w \in DiscoveryWorkers : disc[w] = Panicked}
           P == {w \in ProbeWorkers : prober[w] = Panicked}
           F == {w \in FingerprintWorkers : fingerprinter[w] = Panicked}
<1>1. IsFiniteSet(D) /\ IsFiniteSet(P) /\ IsFiniteSet(F)
  BY PipelineConstants, FS_Subset
<1>2. /\ Cardinality(D) \in Nat /\ Cardinality(P) \in Nat /\ Cardinality(F) \in Nat
      /\ (Cardinality(D) = 0 <=> D = {}) /\ (Cardinality(P) = 0 <=> P = {})
      /\ (Cardinality(F) = 0 <=> F = {})
  BY <1>1, FS_CardinalityType, FS_EmptySet
<1>3. Panics = Cardinality(D) + Cardinality(P) + Cardinality(F)
  BY DEF Panics
<1>4. NoPanics <=> D = {} /\ P = {} /\ F = {}
  BY DEF NoPanics
<1>5. ASSUME NoPanics PROVE Panics = 0
  BY <1>2, <1>3, <1>4, <1>5
<1>6. ASSUME Panics = 0 PROVE NoPanics
  <2> HIDE DEF D, P, F
  <2>1. Cardinality(D) = 0 /\ Cardinality(P) = 0 /\ Cardinality(F) = 0
    BY <1>2, <1>3, <1>6, SMT
  <2>2. D = {} /\ P = {} /\ F = {}
    BY <1>2, <2>1, Zenon
  <2> QED BY <1>4, <2>2
<1> QED BY <1>5, <1>6
-----------------------------------------------------------------------------
\* The initial states.
LEMMA InitPipeline == Init => PipelineInv
<1> SUFFICES ASSUME Init PROVE PipelineInv
  OBVIOUS
<1>1. /\ targetQ = <<>> /\ probeQ = <<>> /\ fingerprintQ = <<>> /\ eventQ = <<>>
      /\ records = <<>> /\ Len(targetQ) = 0 /\ Len(probeQ) = 0 /\ Len(fingerprintQ) = 0
      /\ Len(eventQ) = 0
      /\ Len(records) = 0 /\ swept = {} /\ genPc = "check" /\ genPos = 1 /\ result = "running"
      /\ \A w \in DiscoveryWorkers : disc[w] = Idle
      /\ \A w \in ProbeWorkers : prober[w] = Idle
      /\ \A w \in FingerprintWorkers : fingerprinter[w] = Idle
      /\ \A h \in Hosts : hosts[h] = NoEntry
      /\ resumedFrom \subseteq Hosts /\ completed = resumedFrom /\ cancelled = FALSE
  BY DEF Init
<1>2. /\ NoEntry \in Accumulators /\ NoEntry.open = {} /\ NoEntry.ports = {}
      /\ NoEntry.count = 0 /\ Cardinality({}) = 0 /\ Accumulating = {}
  BY <1>1, FS_EmptySet DEF NoEntry, Accumulators, Accumulating
<1>3. QueuesOK /\ OthersOK
  <2>1. \A S : <<>> \in Seq(S)
    OBVIOUS
  <2>2. QueuesOK
    BY <1>1, <2>1, PipelineConstants DEF QueuesOK
  <2>3. genPos \in 1 .. Len(Targets) + 1
    BY <1>1, PipelineConstants
  <2>4. \A h \in Hosts : hosts[h].ports \subseteq hosts[h].open
    BY <1>1, <1>2
  <2> QED BY <1>1, <2>2, <2>3, <2>4 DEF OthersOK
<1>4. Shapes
  BY <1>2 DEF Init, Shapes, DiscoveryStates, ProberStates, FingerprinterStates
<1>5. \A w \in DiscoveryWorkers : disc[w].pc = "idle" /\ disc[w] # Exited
  BY <1>1 DEF Idle, Exited
<1>6. SweptOnce
  BY <1>1, <1>5 DEF SweptOnce, InQueue, AtWorker
<1>7. FromSweep /\ OnePlace /\ EnvelopeFirst
  BY <1>1, <1>2, <1>5 DEF FromSweep, OnePlace, EnvelopeFirst, AtWorker, InEvents, IsRecorded
<1>8. CountsAgree /\ CompletedAreRecorded
  <2>1. CountsAgree
    BY <1>1, <1>2, Zenon DEF CountsAgree
  <2>2. CompletedAreRecorded
    BY <1>1 DEF CompletedAreRecorded
  <2> QED BY <2>1, <2>2
<1>9. NothingLost
  BY <1>1 DEF NothingLost
<1>10. Exits
  BY <1>1, <1>5 DEF Exits
<1>11. JobsInPlace
  <2> SUFFICES ASSUME NEW h \in Hosts, NEW p \in AllPorts
               PROVE  Carriers(h, p) = 0 /\ p \notin Awaited(h)
    BY DEF JobsInPlace
  <2>1. p \notin Awaited(h)
    BY <1>1, <1>2 DEF Awaited
  <2>2. Todo(h, p) = {} /\ InTodo(h, p) = 0
    BY <1>2, <1>5 DEF Todo, InTodo
  <2>3. Probed(h, p) = 0 /\ Enriched(h, p) = 0
    <3>1. Holding(ProbeWorkers, prober, Probing(h, p)) = {}
      BY <1>1 DEF Holding, Probing, Idle
    <3>2. Holding(FingerprintWorkers, fingerprinter, Enriching(h, p)) = {}
      BY <1>1 DEF Holding, Enriching, Idle
    <3> QED BY <1>2, <3>1, <3>2 DEF Probed, Enriched
  <2>4. InProbeQ(h, p) = 0 /\ InFingerprintQ(h, p) = 0 /\ SentUp(h, p) = 0
    <3>1. \A x : At(<<>>, x) = {}
      BY DEF At
    <3> QED BY <1>1, <1>2, <3>1 DEF InProbeQ, InFingerprintQ, SentUp, HowMany
  <2> QED BY <1>3, <2>1, <2>2, <2>3, <2>4, CarriersSum
<1> QED BY <1>3, <1>4, <1>6, <1>7, <1>8, <1>9, <1>10, <1>11 DEF PipelineInv

-----------------------------------------------------------------------------
\* How the numbers of a port's carriers move with one step of a task.
LEMMA JobsStay ==
  ASSUME JobsInPlace,
         \A h \in Hosts, p \in AllPorts :
           /\ Awaited(h)' = Awaited(h)
           /\ Carriers(h, p) \in Nat /\ Carriers(h, p)' \in Nat
           /\ Carriers(h, p)' <= Carriers(h, p)
           /\ ~RunReturned' /\ NoPanics' => ~RunReturned /\ NoPanics
                                            /\ Carriers(h, p)' = Carriers(h, p)
  PROVE  JobsInPlace'
<1> SUFFICES ASSUME NEW h \in Hosts, NEW p \in AllPorts
             PROVE  /\ Carriers(h, p)' <= IF p \in Awaited(h)' THEN 1 ELSE 0
                    /\ ~RunReturned' /\ NoPanics' =>
                         Carriers(h, p)' = IF p \in Awaited(h)' THEN 1 ELSE 0
  BY DEF JobsInPlace
<1>1. /\ Carriers(h, p) <= IF p \in Awaited(h) THEN 1 ELSE 0
      /\ ~RunReturned /\ NoPanics => Carriers(h, p) = IF p \in Awaited(h) THEN 1 ELSE 0
  BY DEF JobsInPlace
<1> QED BY <1>1

LEMMA AwaitedStays ==
  ASSUME hosts' = hosts, eventQ' = eventQ, NEW h PROVE Awaited(h)' = Awaited(h)
  BY DEF Awaited

\* A step of the later stages: the host, the events and the records stay.
LEMMA LaterStage ==
  ASSUME PipelineInv, Shapes', QueuesOK', OthersOK',
         UNCHANGED <<resumedFrom, genPc, genPos, targetQ, disc, eventQ, hosts, completed,
                     records, cancelled, result, swept>>,
         NoPanics' => NoPanics,
         \A h \in Hosts, p \in AllPorts :
           /\ Carriers(h, p)' <= Carriers(h, p)
           /\ ~RunReturned /\ NoPanics' => Carriers(h, p)' = Carriers(h, p)
  PROVE  PipelineInv'
<1>1. /\ Shapes /\ QueuesOK /\ OthersOK /\ SweptOnce /\ FromSweep /\ OnePlace
      /\ EnvelopeFirst /\ JobsInPlace /\ CountsAgree /\ CompletedAreRecorded /\ NothingLost
      /\ Exits
  BY DEF PipelineInv
<1>2. SweptOnce'
  BY <1>1 DEF SweptOnce, InQueue, AtWorker, IsSwept, Passed
<1>3. FromSweep' /\ CountsAgree' /\ CompletedAreRecorded' /\ EnvelopeFirst'
  BY <1>1 DEF FromSweep, CountsAgree, CompletedAreRecorded, EnvelopeFirst, Accumulating
<1>4. OnePlace'
  BY <1>1 DEF OnePlace, AtWorker, InEvents, IsRecorded, Accumulating
<1>5. NothingLost'
  BY <1>1 DEF NothingLost, AtWorker, InQueue, IsSwept, InEvents, IsRecorded, Accumulating,
              RunReturned
<1>6. Exits'
  BY <1>1 DEF Exits, IsRecorded, RunReturned
<1>7. JobsInPlace'
  <2>1. RunReturned' <=> RunReturned
    BY DEF RunReturned
  <2>2. ASSUME NEW h \in Hosts, NEW p \in AllPorts
        PROVE  Carriers(h, p) \in Nat /\ Carriers(h, p)' \in Nat
    <3>1. CarriersAdd /\ CarriersAdd'
      BY <1>1, CarriersNow, CarriersNext
    <3> QED BY <3>1 DEF CarriersAdd
  <2>3. \A h \in Hosts : Awaited(h)' = Awaited(h)
    BY AwaitedStays
  <2> QED BY <1>1, <2>1, <2>2, <2>3, JobsStay
<1> QED BY <1>1, <1>2, <1>3, <1>4, <1>5, <1>6, <1>7 DEF PipelineInv
\* What each step moves from one place to another.
LEMMA QueueGrows ==
  ASSUME NEW S, NEW queue \in Seq(S), NEW x \in S, HasRoom(queue)
  PROVE  /\ Append(queue, x) \in Seq(S) /\ Len(Append(queue, x)) <= QueueDepth
         /\ Len(Append(queue, x)) = Len(queue) + 1 /\ Append(queue, x)[Len(queue) + 1] = x
         /\ Len(queue) \in Nat
         /\ \A i \in 1 .. Len(queue) : Append(queue, x)[i] = queue[i]
  BY PipelineConstants DEF HasRoom

LEMMA QueueShrinks ==
  ASSUME NEW S, NEW queue \in Seq(S), queue # <<>>, Len(queue) <= QueueDepth
  PROVE  /\ Tail(queue) \in Seq(S) /\ Len(Tail(queue)) <= QueueDepth /\ Head(queue) \in S
         /\ Len(queue) \in Nat /\ Len(queue) >= 1 /\ Len(Tail(queue)) = Len(queue) - 1
         /\ Head(queue) = queue[1]
         /\ \A i \in 1 .. Len(queue) - 1 : Tail(queue)[i] = queue[i + 1]
  BY PipelineConstants

\* A protocol worker takes a job, or passes it on, or loses it: the numbers before and after.
LEMMA ProberMoves ==
  ASSUME NEW w \in ProbeWorkers, \A v \in ProbeWorkers : v # w => prober'[v] = prober[v],
         NEW h, NEW p
  PROVE  Probed(h, p)' + (IF prober[w] = Probing(h, p) THEN 1 ELSE 0)
           = Probed(h, p) + (IF prober'[w] = Probing(h, p) THEN 1 ELSE 0)
<1> DEFINE before == Holding(ProbeWorkers, prober, Probing(h, p))
           after == Holding(ProbeWorkers, prober', Probing(h, p))
<1>1. before \ {w} = after \ {w} /\ IsFiniteSet(before)
  BY PipelineConstants, FS_Subset DEF Holding
<1>2. /\ w \in before <=> prober[w] = Probing(h, p)
      /\ w \in after <=> prober'[w] = Probing(h, p)
  BY DEF Holding
<1> HIDE DEF before, after
<1>3. Cardinality(after) + (IF prober[w] = Probing(h, p) THEN 1 ELSE 0)
        = Cardinality(before) + (IF prober'[w] = Probing(h, p) THEN 1 ELSE 0)
  BY <1>1, <1>2, OneMember
<1> QED BY <1>3 DEF Probed, before, after

LEMMA FingerprinterMoves ==
  ASSUME NEW w \in FingerprintWorkers,
         \A v \in FingerprintWorkers : v # w => fingerprinter'[v] = fingerprinter[v],
         NEW h, NEW p
  PROVE  Enriched(h, p)' + (IF fingerprinter[w] = Enriching(h, p) THEN 1 ELSE 0)
           = Enriched(h, p) + (IF fingerprinter'[w] = Enriching(h, p) THEN 1 ELSE 0)
<1> DEFINE before == Holding(FingerprintWorkers, fingerprinter, Enriching(h, p))
           after == Holding(FingerprintWorkers, fingerprinter', Enriching(h, p))
<1>1. before \ {w} = after \ {w} /\ IsFiniteSet(before)
  BY PipelineConstants, FS_Subset DEF Holding
<1>2. /\ w \in before <=> fingerprinter[w] = Enriching(h, p)
      /\ w \in after <=> fingerprinter'[w] = Enriching(h, p)
  BY DEF Holding
<1> HIDE DEF before, after
<1>3. Cardinality(after) + (IF fingerprinter[w] = Enriching(h, p) THEN 1 ELSE 0)
        = Cardinality(before) + (IF fingerprinter'[w] = Enriching(h, p) THEN 1 ELSE 0)
  BY <1>1, <1>2, OneMember
<1> QED BY <1>3 DEF Enriched, before, after

LEMMA EnrichingOne ==
  ASSUME NEW w \in FingerprintWorkers, NEW h, NEW p, fingerprinter[w] = Enriching(h, p)
  PROVE  Enriched(h, p) > 0
<1> DEFINE S == Holding(FingerprintWorkers, fingerprinter, Enriching(h, p))
<1>1. IsFiniteSet(S) /\ w \in S
  BY PipelineConstants, FS_Subset DEF Holding
<1> HIDE DEF S
<1>2. Cardinality(S) \in Nat /\ Cardinality(S) # 0
  BY <1>1, FS_CardinalityType, FS_EmptySet
<1> QED BY <1>2 DEF Enriched, S

\* The places before, at and behind a protocol worker, or a fingerprint worker.
AtProber(w, h, p) ==
  InProbeQ(h, p) + InFingerprintQ(h, p) + IF prober[w] = Probing(h, p) THEN 1 ELSE 0
AtFingerprinter(w, h, p) ==
  InFingerprintQ(h, p) + SentUp(h, p)
    + IF fingerprinter[w] = Enriching(h, p) THEN 1 ELSE 0

\* A step of a protocol worker keeps the invariant if no job is in more places after it.
LEMMA ProberStepKeeps ==
  ASSUME PipelineInv, NEW w \in ProbeWorkers, NEW d \in ProberStates,
         prober' = [prober EXCEPT ![w] = d], prober[w] # Panicked, QueuesOK',
         UNCHANGED <<resumedFrom, genPc, genPos, targetQ, disc, fingerprinter, eventQ, hosts,
                     completed, records, cancelled, result, swept>>,
         \A h \in Hosts, p \in AllPorts :
           /\ AtProber(w, h, p)' <= AtProber(w, h, p)
           /\ ~RunReturned /\ d # Panicked => AtProber(w, h, p)' = AtProber(w, h, p)
  PROVE  PipelineInv'
<1>1. Shapes /\ QueuesOK /\ OthersOK
  BY DEF PipelineInv
<1>2. (\A v \in ProbeWorkers : v # w => prober'[v] = prober[v]) /\ prober'[w] = d
  BY <1>1 DEF Shapes
<1>3. Shapes' /\ OthersOK'
  BY <1>1 DEF Shapes, OthersOK
<1>4. NoPanics' => NoPanics /\ d # Panicked
  BY <1>2 DEF NoPanics
<1>5. CarriersAdd /\ CarriersAdd'
  BY <1>1, CarriersNow, CarriersNext
<1>6. ASSUME NEW h \in Hosts, NEW p \in AllPorts
      PROVE  /\ Carriers(h, p)' <= Carriers(h, p)
             /\ ~RunReturned /\ NoPanics' => Carriers(h, p)' = Carriers(h, p)
  <2>1. Probed(h, p)' + (IF prober[w] = Probing(h, p) THEN 1 ELSE 0)
          = Probed(h, p) + (IF prober'[w] = Probing(h, p) THEN 1 ELSE 0)
    BY <1>2, ProberMoves
  <2>2. /\ InTodo(h, p)' = InTodo(h, p) /\ Enriched(h, p)' = Enriched(h, p)
        /\ SentUp(h, p)' = SentUp(h, p)
    BY DEF InTodo, Todo, Enriched, SentUp
  <2> QED BY <1>4, <1>5, <2>1, <2>2 DEF CarriersAdd, AtProber
<1> QED BY <1>1, <1>3, <1>4, <1>6, LaterStage

LEMMA ProberStepsKeep ==
  ASSUME PipelineInv, NEW w \in ProbeWorkers, ProberStep(w) \/ ProberPanics(w)
  PROVE  PipelineInv'
<1>1. Shapes /\ QueuesOK /\ prober[w] \in ProberStates
  BY DEF PipelineInv, Shapes
<1>2. /\ Idle \in ProberStates /\ Exited \in ProberStates /\ Panicked \in ProberStates
      /\ \A h, p : Idle # Probing(h, p) /\ Exited # Probing(h, p) /\ Panicked # Probing(h, p)
      /\ Idle # Panicked /\ Exited # Panicked
  BY DEF ProberStates, Idle, Exited, Panicked, Probing
<1>3. CarriersAdd
  BY <1>1, CarriersNow
<1>4. CASE TakeJob(w)
  <2> DEFINE j == Head(probeQ)
             d == [pc |-> "probing", job |-> j]
  <2>1. /\ prober[w] = Idle /\ probeQ # <<>> /\ prober' = [prober EXCEPT ![w] = d]
        /\ probeQ' = Tail(probeQ)
        /\ UNCHANGED <<resumedFrom, genPc, genPos, targetQ, disc, fingerprintQ, fingerprinter,
                       eventQ, hosts, completed, records, cancelled, result, swept>>
    BY <1>4 DEF TakeJob, generatorVars, aggregatorVars
  <2>2. /\ probeQ' \in Seq(Jobs) /\ Len(probeQ') <= QueueDepth /\ j \in Jobs
        /\ probeQ \in Seq(Jobs)
    BY <1>1, <2>1, QueueShrinks DEF QueuesOK
  <2>3. QueuesOK' /\ d \in ProberStates
    BY <1>1, <2>1, <2>2 DEF QueuesOK, ProberStates
  <2>4. ASSUME NEW h \in Hosts, NEW p \in AllPorts
        PROVE  /\ InProbeQ(h, p) = InProbeQ(h, p)' + IF d = Probing(h, p) THEN 1 ELSE 0
               /\ InFingerprintQ(h, p)' = InFingerprintQ(h, p)
               /\ prober[w] # Probing(h, p)
    <3>1. InProbeQ(h, p) = InProbeQ(h, p)' + IF j = Job(h, p) THEN 1 ELSE 0
      BY <2>1, <2>2, HowManyLeft DEF InProbeQ
    <3>2. d = Probing(h, p) <=> j = Job(h, p)
      BY DEF Probing
    <3>3. InFingerprintQ(h, p)' = InFingerprintQ(h, p)
      BY <2>1 DEF InFingerprintQ
    <3> HIDE DEF d, j
    <3> QED BY <1>2, <2>1, <3>1, <3>2, <3>3
  <2>5. CarriersAdd' /\ prober'[w] = d /\ prober[w] # Panicked
    BY <1>1, <1>2, <2>1, <2>3, CarriersNext DEF PipelineInv, Shapes
  <2> HIDE DEF d, j
  <2>6. \A h \in Hosts, p \in AllPorts : AtProber(w, h, p)' = AtProber(w, h, p)
    BY <1>3, <2>4, <2>5 DEF CarriersAdd, AtProber
  <2>7. \A h \in Hosts, p \in AllPorts :
          /\ AtProber(w, h, p)' <= AtProber(w, h, p)
          /\ ~RunReturned /\ d # Panicked => AtProber(w, h, p)' = AtProber(w, h, p)
    BY <1>3, <2>6 DEF CarriersAdd, AtProber
  <2> QED BY <2>1, <2>3, <2>5, <2>7, ProberStepKeeps
<1>5. CASE ForwardService(w) /\ ~FingerprintsRefused
  <2> DEFINE j == prober[w].job
  <2>1. /\ prober[w].pc = "probing" /\ HasRoom(fingerprintQ)
        /\ fingerprintQ' = Append(fingerprintQ, j)
        /\ prober' = [prober EXCEPT ![w] = Idle]
        /\ UNCHANGED <<resumedFrom, genPc, genPos, targetQ, disc, probeQ, fingerprinter,
                       eventQ, hosts, completed, records, cancelled, result, swept>>
    BY <1>5 DEF ForwardService, generatorVars, aggregatorVars
  <2>2. j \in Jobs /\ prober[w] = [pc |-> "probing", job |-> j] /\ prober[w] # Panicked
    BY <1>1, <2>1, ProberState
  <2>3. /\ fingerprintQ' \in Seq(Jobs) /\ Len(fingerprintQ') <= QueueDepth
        /\ fingerprintQ \in Seq(Jobs)
    BY <1>1, <2>1, <2>2, QueueGrows DEF QueuesOK
  <2>4. QueuesOK'
    BY <1>1, <2>1, <2>3 DEF QueuesOK
  <2>5. ASSUME NEW h \in Hosts, NEW p \in AllPorts
        PROVE  /\ InFingerprintQ(h, p)'
                    = InFingerprintQ(h, p) + IF prober[w] = Probing(h, p) THEN 1 ELSE 0
               /\ InProbeQ(h, p)' = InProbeQ(h, p)
    <3>1. InFingerprintQ(h, p)' = InFingerprintQ(h, p) + IF j = Job(h, p) THEN 1 ELSE 0
      BY <2>1, <2>2, <2>3, HowManyAppended DEF InFingerprintQ
    <3>2. prober[w] = Probing(h, p) <=> j = Job(h, p)
      BY <2>2 DEF Probing
    <3>3. InProbeQ(h, p)' = InProbeQ(h, p)
      BY <2>1 DEF InProbeQ
    <3> HIDE DEF j
    <3> QED BY <3>1, <3>2, <3>3
  <2>6. CarriersAdd' /\ prober'[w] = Idle
    BY <1>1, <2>1, <2>4, CarriersNext DEF PipelineInv, Shapes
  <2> HIDE DEF j
  <2>7. \A h \in Hosts, p \in AllPorts : AtProber(w, h, p)' = AtProber(w, h, p)
    BY <1>2, <1>3, <2>5, <2>6 DEF CarriersAdd, AtProber
  <2>8. \A h \in Hosts, p \in AllPorts :
          /\ AtProber(w, h, p)' <= AtProber(w, h, p)
          /\ ~RunReturned /\ Idle # Panicked => AtProber(w, h, p)' = AtProber(w, h, p)
    BY <1>3, <2>7 DEF CarriersAdd, AtProber
  <2> QED BY <1>2, <2>1, <2>2, <2>4, <2>8, ProberStepKeeps
<1>6. ASSUME NEW d \in ProberStates, d = Exited \/ d = Panicked, prober[w] # Panicked,
             d = Exited => prober[w] = Idle \/ RunReturned,
             prober' = [prober EXCEPT ![w] = d],
             UNCHANGED <<resumedFrom, genPc, genPos, targetQ, disc, probeQ, fingerprintQ,
                         fingerprinter, eventQ, hosts, completed, records, cancelled, result,
                         swept>>
      PROVE  PipelineInv'
  <2>1. QueuesOK'
    BY <1>1, <1>6 DEF QueuesOK
  <2>2. \A h \in Hosts, p \in AllPorts :
          /\ InProbeQ(h, p)' = InProbeQ(h, p) /\ InFingerprintQ(h, p)' = InFingerprintQ(h, p)
          /\ d # Probing(h, p)
    BY <1>2, <1>6 DEF InProbeQ, InFingerprintQ
  <2>3. (d # Panicked /\ ~RunReturned => prober[w] = Idle) /\ prober'[w] = d
    BY <1>1, <1>6 DEF PipelineInv, Shapes
  <2>4. \A h \in Hosts, p \in AllPorts :
          /\ AtProber(w, h, p)' <= AtProber(w, h, p)
          /\ ~RunReturned /\ d # Panicked => AtProber(w, h, p)' = AtProber(w, h, p)
    BY <1>2, <1>3, <2>2, <2>3 DEF CarriersAdd, AtProber
  <2> QED BY <1>6, <2>1, <2>4, ProberStepKeeps
<1>7. CASE \/ ForwardService(w) /\ FingerprintsRefused
           \/ ProberExits(w) \/ ProberPanics(w)
  <2>1. prober[w] # Panicked
    BY <1>1, <1>7, ProberState DEF ForwardService, ProberExits, ProberPanics
  <2> QED BY <1>2, <1>6, <1>7, <2>1
          DEF ForwardService, ProberExits, ProberPanics, FingerprintsRefused, generatorVars,
              aggregatorVars
<1> QED BY <1>4, <1>5, <1>7 DEF ProberStep
\* The same for a fingerprint worker, as long as the event channel stays.
LEMMA FingerprinterStepKeeps ==
  ASSUME PipelineInv, NEW w \in FingerprintWorkers, NEW d \in FingerprinterStates,
         fingerprinter' = [fingerprinter EXCEPT ![w] = d], fingerprinter[w] # Panicked,
         QueuesOK',
         UNCHANGED <<resumedFrom, genPc, genPos, targetQ, disc, probeQ, prober, eventQ, hosts,
                     completed, records, cancelled, result, swept>>,
         \A h \in Hosts, p \in AllPorts :
           /\ AtFingerprinter(w, h, p)' <= AtFingerprinter(w, h, p)
           /\ ~RunReturned /\ d # Panicked =>
                AtFingerprinter(w, h, p)' = AtFingerprinter(w, h, p)
  PROVE  PipelineInv'
<1>1. Shapes /\ QueuesOK /\ OthersOK
  BY DEF PipelineInv
<1>2. /\ \A v \in FingerprintWorkers : v # w => fingerprinter'[v] = fingerprinter[v]
      /\ fingerprinter'[w] = d
  BY <1>1 DEF Shapes
<1>3. Shapes' /\ OthersOK'
  BY <1>1 DEF Shapes, OthersOK
<1>4. NoPanics' => NoPanics /\ d # Panicked
  BY <1>2 DEF NoPanics
<1>5. CarriersAdd /\ CarriersAdd'
  BY <1>1, CarriersNow, CarriersNext
<1>6. ASSUME NEW h \in Hosts, NEW p \in AllPorts
      PROVE  /\ Carriers(h, p)' <= Carriers(h, p)
             /\ ~RunReturned /\ NoPanics' => Carriers(h, p)' = Carriers(h, p)
  <2>1. Enriched(h, p)' + (IF fingerprinter[w] = Enriching(h, p) THEN 1 ELSE 0)
          = Enriched(h, p) + (IF fingerprinter'[w] = Enriching(h, p) THEN 1 ELSE 0)
    BY <1>2, FingerprinterMoves
  <2>2. /\ InTodo(h, p)' = InTodo(h, p) /\ Probed(h, p)' = Probed(h, p)
        /\ InProbeQ(h, p)' = InProbeQ(h, p)
    BY DEF InTodo, Todo, Probed, InProbeQ
  <2> QED BY <1>4, <1>5, <2>1, <2>2 DEF CarriersAdd, AtFingerprinter
<1> QED BY <1>1, <1>3, <1>4, <1>6, LaterStage

\* A service enters the event channel: its host envelope is there, or has been received.
LEMMA ServiceIsSent ==
  ASSUME PipelineInv, NEW w \in FingerprintWorkers, EmitService(w), ~RunReturned
  PROVE  PipelineInv'
<1> DEFINE j == fingerprinter[w].job
           n == Len(eventQ) + 1
<1>1. /\ Shapes /\ QueuesOK /\ OthersOK /\ SweptOnce /\ FromSweep /\ OnePlace
      /\ EnvelopeFirst /\ JobsInPlace /\ CountsAgree /\ CompletedAreRecorded /\ NothingLost
      /\ Exits
  BY DEF PipelineInv
<1>2. /\ fingerprinter[w].pc = "enriching" /\ HasRoom(eventQ)
      /\ eventQ' = Append(eventQ, Service(j))
      /\ fingerprinter' = [fingerprinter EXCEPT ![w] = Idle]
      /\ UNCHANGED <<resumedFrom, genPc, genPos, targetQ, disc, probeQ, prober, fingerprintQ,
                     hosts, completed, records, cancelled, result, swept>>
  BY DEF EmitService, generatorVars, aggregatorVars
<1>3. /\ j \in Jobs /\ fingerprinter[w] = [pc |-> "enriching", job |-> j]
      /\ fingerprinter[w] # Panicked
  BY <1>1, <1>2, FingerprinterState DEF Shapes
<1>4. Service(j) \in Events /\ Service(j).type = "service"
      /\ Service(j).host = j.host /\ Service(j).port = j.port
  BY <1>3 DEF Events, Service
<1>5. /\ eventQ' \in Seq(Events) /\ Len(eventQ') <= QueueDepth /\ Len(eventQ') = n
      /\ eventQ'[n] = Service(j) /\ Len(eventQ) \in Nat /\ eventQ \in Seq(Events)
      /\ \A i \in 1 .. Len(eventQ) : eventQ'[i] = eventQ[i]
  BY <1>1, <1>2, <1>4, QueueGrows DEF QueuesOK
<1> HIDE DEF j
<1>6. \A i \in 1 .. n : i \in 1 .. Len(eventQ) \/ i = n
  BY <1>5
<1>7. /\ \A v \in FingerprintWorkers : v # w => fingerprinter'[v] = fingerprinter[v]
      /\ fingerprinter'[w] = Idle
  BY <1>1, <1>2 DEF Shapes
<1>8. Shapes' /\ QueuesOK' /\ OthersOK'
  <2>1. fingerprinter' \in [FingerprintWorkers -> FingerprinterStates]
    BY <1>1, <1>2 DEF Shapes, FingerprinterStates
  <2> QED BY <1>1, <1>2, <1>5, <2>1 DEF Shapes, QueuesOK, OthersOK
<1>9. /\ \A h : InEvents(h)' <=> InEvents(h)
      /\ \A h : Awaited(h)' = Awaited(h)
  <2>1. \A i \in 1 .. Len(eventQ') : eventQ'[i].type = "started" =>
          i \in 1 .. Len(eventQ) /\ eventQ'[i] = eventQ[i]
    BY <1>4, <1>5, <1>6
  <2>2. 1 .. Len(eventQ) \subseteq 1 .. Len(eventQ')
    BY <1>5
  <2> QED BY <1>2, <1>5, <2>1, <2>2 DEF InEvents, Awaited
<1>10. NoPanics' => NoPanics
  BY <1>2, <1>3, <1>7 DEF NoPanics
<1>11. SweptOnce' /\ CountsAgree' /\ CompletedAreRecorded'
  BY <1>1, <1>2
     DEF SweptOnce, CountsAgree, CompletedAreRecorded, InQueue, AtWorker, IsSwept, Passed
<1>12. FromSweep'
  BY <1>1, <1>2, <1>4, <1>5, <1>6 DEF FromSweep, Accumulating
<1>13. OnePlace'
  <2>1. \A i, k \in 1 .. Len(eventQ') :
          /\ eventQ'[i].type = "started" /\ eventQ'[k].type = "started"
          /\ eventQ'[i].host = eventQ'[k].host
          => i = k
    BY <1>1, <1>4, <1>5, <1>6 DEF OnePlace
  <2> QED BY <1>1, <1>2, <1>9, <2>1 DEF OnePlace, AtWorker, IsRecorded, Accumulating
<1>14. CarriersAdd /\ CarriersAdd'
  BY <1>1, <1>8, CarriersNow, CarriersNext
<1>15. ASSUME NEW h \in Hosts, NEW p \in AllPorts PROVE Carriers(h, p)' = Carriers(h, p)
  <2>1. SentUp(h, p)' = SentUp(h, p) + IF Service(j) = Service(Job(h, p)) THEN 1 ELSE 0
    BY <1>2, <1>4, <1>5, HowManyAppended DEF SentUp, j
  <2>2. Service(j) = Service(Job(h, p)) <=> fingerprinter[w] = Enriching(h, p)
    <3>1. Service(j) = Service(Job(h, p)) <=> j.host = h /\ j.port = p
      BY DEF Service, Job
    <3>2. j = Job(h, p) <=> j.host = h /\ j.port = p
      BY <1>3, JobsAre DEF Job
    <3> QED BY <1>3, <3>1, <3>2 DEF Enriching
  <2>3. Enriched(h, p)' + (IF fingerprinter[w] = Enriching(h, p) THEN 1 ELSE 0)
          = Enriched(h, p) + (IF fingerprinter'[w] = Enriching(h, p) THEN 1 ELSE 0)
    BY <1>7, FingerprinterMoves
  <2>4. fingerprinter'[w] # Enriching(h, p)
    BY <1>7 DEF Idle, Enriching
  <2>5. /\ InTodo(h, p)' = InTodo(h, p) /\ Probed(h, p)' = Probed(h, p)
        /\ InProbeQ(h, p)' = InProbeQ(h, p) /\ InFingerprintQ(h, p)' = InFingerprintQ(h, p)
    BY <1>2 DEF InTodo, Todo, Probed, InProbeQ, InFingerprintQ
  <2> QED BY <1>14, <2>1, <2>2, <2>3, <2>4, <2>5 DEF CarriersAdd
<1>16. JobsInPlace'
  <2>1. RunReturned' <=> RunReturned
    BY <1>2 DEF RunReturned
  <2>2. \A h \in Hosts, p \in AllPorts :
          /\ Awaited(h)' = Awaited(h)
          /\ Carriers(h, p) \in Nat /\ Carriers(h, p)' \in Nat
          /\ Carriers(h, p)' <= Carriers(h, p)
          /\ ~RunReturned' /\ NoPanics' => ~RunReturned /\ NoPanics
                                           /\ Carriers(h, p)' = Carriers(h, p)
    BY <1>9, <1>10, <1>14, <1>15, <2>1 DEF CarriersAdd
  <2> QED BY <1>1, <2>2, JobsStay
<1>17. EnvelopeFirst'
  <2>1. /\ j.host \in Hosts /\ j.port \in AllPorts
        /\ fingerprinter[w] = Enriching(j.host, j.port)
    BY <1>3, JobsAre DEF Enriching
  <2>2. j.port \in Awaited(j.host)
    <3>1. Enriched(j.host, j.port) > 0
      BY <2>1, EnrichingOne
    <3>2. Carriers(j.host, j.port) > 0 /\ Carriers(j.host, j.port) \in Nat
      BY <1>14, <2>1, <3>1 DEF CarriersAdd
    <3> QED BY <1>1, <2>1, <3>2 DEF JobsInPlace
  <2>3. \/ j.port \in hosts[j.host].open \ hosts[j.host].ports
        \/ \E k \in 1 .. n - 1 : /\ eventQ'[k].type = "started" /\ eventQ'[k].host = j.host
                                 /\ j.port \in eventQ'[k].open
    BY <1>5, <2>2 DEF Awaited
  <2>4. ASSUME NEW i \in 1 .. n, eventQ'[i].type = "service"
        PROVE  \/ eventQ'[i].port \in hosts[eventQ'[i].host].open \ hosts[eventQ'[i].host].ports
               \/ \E k \in 1 .. i - 1 :
                    /\ eventQ'[k].type = "started" /\ eventQ'[k].host = eventQ'[i].host
                    /\ eventQ'[i].port \in eventQ'[k].open
    <3>1. CASE i = n
      BY <1>4, <1>5, <2>3, <3>1
    <3>2. CASE i \in 1 .. Len(eventQ)
      <4>1. eventQ'[i] = eventQ[i] /\ i \in DOMAIN eventQ
            /\ \A k \in 1 .. i - 1 : eventQ'[k] = eventQ[k]
        BY <1>5, <3>2
      <4> QED BY <1>1, <2>4, <4>1 DEF EnvelopeFirst
    <3> QED BY <1>6, <3>1, <3>2
  <2> QED BY <1>2, <1>5, <2>4 DEF EnvelopeFirst
<1>18. NothingLost'
  BY <1>1, <1>2, <1>9, <1>10
     DEF NothingLost, AtWorker, InQueue, IsSwept, IsRecorded, Accumulating, RunReturned
<1>19. Exits'
  BY <1>1, <1>2 DEF Exits, IsRecorded, RunReturned
<1> QED BY <1>8, <1>11, <1>12, <1>13, <1>16, <1>17, <1>18, <1>19 DEF PipelineInv
LEMMA FingerprinterStepsKeep ==
  ASSUME PipelineInv, NEW w \in FingerprintWorkers,
         FingerprinterStep(w) \/ FingerprinterPanics(w)
  PROVE  PipelineInv'
<1>1. Shapes /\ QueuesOK /\ fingerprinter[w] \in FingerprinterStates
  BY DEF PipelineInv, Shapes
<1>2. /\ Exited \in FingerprinterStates /\ Panicked \in FingerprinterStates
      /\ \A h, p : /\ Idle # Enriching(h, p) /\ Exited # Enriching(h, p)
                   /\ Panicked # Enriching(h, p)
      /\ Idle # Panicked /\ Exited # Panicked
  BY DEF FingerprinterStates, Idle, Exited, Panicked, Enriching
<1>3. CarriersAdd
  BY <1>1, CarriersNow
<1>4. CASE TakeService(w)
  <2> DEFINE j == Head(fingerprintQ)
             d == [pc |-> "enriching", job |-> j]
  <2>1. /\ fingerprinter[w] = Idle /\ fingerprintQ # <<>>
        /\ fingerprinter' = [fingerprinter EXCEPT ![w] = d]
        /\ fingerprintQ' = Tail(fingerprintQ)
        /\ UNCHANGED <<resumedFrom, genPc, genPos, targetQ, disc, probeQ, prober, eventQ,
                       hosts, completed, records, cancelled, result, swept>>
    BY <1>4 DEF TakeService, generatorVars, aggregatorVars
  <2>2. /\ fingerprintQ' \in Seq(Jobs) /\ Len(fingerprintQ') <= QueueDepth /\ j \in Jobs
        /\ fingerprintQ \in Seq(Jobs)
    BY <1>1, <2>1, QueueShrinks DEF QueuesOK
  <2>3. QueuesOK' /\ d \in FingerprinterStates
    BY <1>1, <2>1, <2>2 DEF QueuesOK, FingerprinterStates
  <2>4. ASSUME NEW h \in Hosts, NEW p \in AllPorts
        PROVE  /\ InFingerprintQ(h, p)
                    = InFingerprintQ(h, p)' + IF d = Enriching(h, p) THEN 1 ELSE 0
               /\ SentUp(h, p)' = SentUp(h, p)
               /\ fingerprinter[w] # Enriching(h, p)
    <3>1. InFingerprintQ(h, p) = InFingerprintQ(h, p)' + IF j = Job(h, p) THEN 1 ELSE 0
      BY <2>1, <2>2, HowManyLeft DEF InFingerprintQ
    <3>2. d = Enriching(h, p) <=> j = Job(h, p)
      BY DEF Enriching
    <3>3. SentUp(h, p)' = SentUp(h, p)
      BY <2>1 DEF SentUp
    <3> HIDE DEF d, j
    <3> QED BY <1>2, <2>1, <3>1, <3>2, <3>3
  <2>5. CarriersAdd' /\ fingerprinter'[w] = d /\ fingerprinter[w] # Panicked
    BY <1>1, <1>2, <2>1, <2>3, CarriersNext DEF PipelineInv, Shapes
  <2> HIDE DEF d, j
  <2>6. \A h \in Hosts, p \in AllPorts : AtFingerprinter(w, h, p)' = AtFingerprinter(w, h, p)
    BY <1>3, <2>4, <2>5 DEF CarriersAdd, AtFingerprinter
  <2>7. \A h \in Hosts, p \in AllPorts :
          /\ AtFingerprinter(w, h, p)' <= AtFingerprinter(w, h, p)
          /\ ~RunReturned /\ d # Panicked =>
               AtFingerprinter(w, h, p)' = AtFingerprinter(w, h, p)
    BY <1>3, <2>6 DEF CarriersAdd, AtFingerprinter
  <2> QED BY <2>1, <2>3, <2>5, <2>7, FingerprinterStepKeeps
<1>5. ASSUME NEW d \in FingerprinterStates, d = Exited \/ d = Panicked,
             fingerprinter[w] # Panicked,
             d = Exited => fingerprinter[w] = Idle \/ RunReturned,
             fingerprinter' = [fingerprinter EXCEPT ![w] = d],
             UNCHANGED <<resumedFrom, genPc, genPos, targetQ, disc, probeQ, prober,
                         fingerprintQ, eventQ, hosts, completed, records, cancelled, result,
                         swept>>
      PROVE  PipelineInv'
  <2>1. QueuesOK'
    BY <1>1, <1>5 DEF QueuesOK
  <2>2. \A h \in Hosts, p \in AllPorts :
          /\ InFingerprintQ(h, p)' = InFingerprintQ(h, p) /\ SentUp(h, p)' = SentUp(h, p)
          /\ d # Enriching(h, p)
    BY <1>2, <1>5 DEF InFingerprintQ, SentUp
  <2>3. (d # Panicked /\ ~RunReturned => fingerprinter[w] = Idle) /\ fingerprinter'[w] = d
    BY <1>1, <1>5 DEF PipelineInv, Shapes
  <2>4. \A h \in Hosts, p \in AllPorts :
          /\ AtFingerprinter(w, h, p)' <= AtFingerprinter(w, h, p)
          /\ ~RunReturned /\ d # Panicked =>
               AtFingerprinter(w, h, p)' = AtFingerprinter(w, h, p)
    BY <1>2, <1>3, <2>2, <2>3 DEF CarriersAdd, AtFingerprinter
  <2> QED BY <1>5, <2>1, <2>4, FingerprinterStepKeeps
<1>6. CASE \/ EmitService(w) /\ RunReturned
           \/ FingerprinterExits(w) \/ FingerprinterPanics(w)
  <2>1. fingerprinter[w] # Panicked
    BY <1>1, <1>6, FingerprinterState
       DEF EmitService, FingerprinterExits, FingerprinterPanics
  <2> QED BY <1>2, <1>5, <1>6, <2>1
          DEF EmitService, FingerprinterExits, FingerprinterPanics, generatorVars,
              aggregatorVars
<1>7. CASE EmitService(w) /\ ~RunReturned
  BY <1>7, ServiceIsSent
<1> QED BY <1>4, <1>6, <1>7 DEF FingerprinterStep
-----------------------------------------------------------------------------
\* Discovery.  What a queue, a host or a record tells was found by a sweep.
LEMMA OnlySwept ==
  ASSUME FromSweep, NEW h \in Hosts
  PROVE  /\ InEvents(h) => IsSwept(h)
         /\ h \in Accumulating => IsSwept(h)
         /\ IsRecorded(h) => IsSwept(h)
  BY DEF FromSweep, InEvents, IsSwept, IsRecorded

\* Discovery worker w has yet to send the job of port p of h.
HasTodo(w, h, p) == disc[w].pc = "enqueuing" /\ disc[w].host = h /\ p \in disc[w].todo

\* One discovery worker changes, and with it who is to send the job.
LEMMA DiscoveryMoves ==
  ASSUME NEW w \in DiscoveryWorkers, \A v \in DiscoveryWorkers : v # w => disc'[v] = disc[v],
         NEW h, NEW p
  PROVE  /\ InTodo(h, p) \in Nat /\ InTodo(h, p)' \in Nat
         /\ InTodo(h, p)' + (IF HasTodo(w, h, p) THEN 1 ELSE 0)
              = InTodo(h, p) + (IF HasTodo(w, h, p)' THEN 1 ELSE 0)
<1>1. Todo(h, p) \ {w} = Todo(h, p)' \ {w}
  BY DEF Todo
<1>2. IsFiniteSet(Todo(h, p))
  BY PipelineConstants, FS_Subset DEF Todo
<1>3. (w \in Todo(h, p) <=> HasTodo(w, h, p)) /\ (w \in Todo(h, p)' <=> HasTodo(w, h, p)')
  BY DEF Todo, HasTodo
<1> QED BY <1>1, <1>2, <1>3, OneMember DEF InTodo

LEMMA TodoCarriers ==
  ASSUME CarriersAdd, CarriersAdd', NEW h \in Hosts, NEW p \in AllPorts,
         UNCHANGED <<probeQ, fingerprintQ, prober, fingerprinter, eventQ>>
  PROVE  /\ Carriers(h, p) \in Nat /\ Carriers(h, p)' \in Nat
         /\ Carriers(h, p)' + InTodo(h, p) = Carriers(h, p) + InTodo(h, p)'
<1>1. /\ InProbeQ(h, p)' = InProbeQ(h, p) /\ InFingerprintQ(h, p)' = InFingerprintQ(h, p)
      /\ Probed(h, p)' = Probed(h, p) /\ Enriched(h, p)' = Enriched(h, p)
      /\ SentUp(h, p)' = SentUp(h, p)
  BY DEF InProbeQ, InFingerprintQ, Probed, Enriched, SentUp
<1> QED BY <1>1 DEF CarriersAdd

LEMMA TargetIsTaken ==
  ASSUME PipelineInv, NEW w \in DiscoveryWorkers, TakeTarget(w)
  PROVE  PipelineInv'
<1> DEFINE h == Head(targetQ)
           d == [pc |-> "sweeping", host |-> h, late |-> cancelled]
<1>1. /\ Shapes /\ QueuesOK /\ OthersOK /\ SweptOnce /\ FromSweep /\ OnePlace
      /\ EnvelopeFirst /\ JobsInPlace /\ CountsAgree /\ CompletedAreRecorded /\ NothingLost
      /\ Exits
  BY DEF PipelineInv
<1>2. /\ disc[w] = Idle /\ targetQ # <<>> /\ disc' = [disc EXCEPT ![w] = d]
      /\ targetQ' = Tail(targetQ)
      /\ UNCHANGED <<resumedFrom, genPc, genPos, probeQ, prober, fingerprintQ, fingerprinter,
                     eventQ, hosts, completed, records, cancelled, result, swept>>
  BY DEF TakeTarget, generatorVars, aggregatorVars
<1>3. /\ targetQ' \in Seq(Hosts) /\ Len(targetQ') <= QueueDepth /\ h \in Hosts
      /\ Len(targetQ) \in Nat /\ Len(targetQ) >= 1 /\ Len(targetQ') = Len(targetQ) - 1
      /\ h = targetQ[1] /\ \A i \in 1 .. Len(targetQ) - 1 : targetQ'[i] = targetQ[i + 1]
  BY <1>1, <1>2, QueueShrinks DEF QueuesOK
<1>4. d \in DiscoveryStates /\ d.pc = "sweeping" /\ d.host = h
  BY <1>1, <1>3 DEF OthersOK, DiscoveryStates
<1> HIDE DEF h, d
<1>5. (\A v \in DiscoveryWorkers : v # w => disc'[v] = disc[v]) /\ disc'[w] = d
  BY <1>1, <1>2 DEF Shapes
<1>6. Shapes' /\ QueuesOK' /\ OthersOK'
  <2>1. disc' \in [DiscoveryWorkers -> DiscoveryStates]
    BY <1>1, <1>2, <1>4 DEF Shapes
  <2> QED BY <1>1, <1>2, <1>3, <2>1 DEF Shapes, QueuesOK, OthersOK
<1>7. disc[w].pc = "idle"
  BY <1>2 DEF Idle
<1>8. InQueue(h)
  BY <1>3 DEF InQueue
<1>9. \A i, j \in 1 .. Len(targetQ') : targetQ'[i] = targetQ'[j] => i = j
  <2>1. \A i \in 1 .. Len(targetQ') : targetQ'[i] = targetQ[i + 1]
          /\ i + 1 \in 1 .. Len(targetQ) /\ i \in Nat
    BY <1>3
  <2>2. \A i, j \in 1 .. Len(targetQ) : targetQ[i] = targetQ[j] => i = j
    BY <1>1 DEF SweptOnce
  <2>3. ASSUME NEW i \in 1 .. Len(targetQ'), NEW j \in 1 .. Len(targetQ'),
               targetQ'[i] = targetQ'[j]
        PROVE  i = j
    <3>1. i + 1 = j + 1
      BY <2>1, <2>2, <2>3
    <3> QED BY <2>1, <3>1
  <2> QED BY <2>3
<1>10. \A g : InQueue(g)' <=> InQueue(g) /\ g # h
  <2>1. ASSUME NEW g, InQueue(g)' PROVE InQueue(g) /\ g # h
    <3>1. PICK i \in 1 .. Len(targetQ') : targetQ'[i] = g
      BY <2>1 DEF InQueue
    <3>2. i + 1 \in 1 .. Len(targetQ) /\ targetQ[i + 1] = g /\ i + 1 # 1
          /\ 1 \in 1 .. Len(targetQ)
      BY <1>3, <3>1
    <3> QED BY <1>1, <1>3, <3>2 DEF InQueue, SweptOnce
  <2>2. ASSUME NEW g, InQueue(g), g # h PROVE InQueue(g)'
    <3>1. PICK i \in 1 .. Len(targetQ) : targetQ[i] = g
      BY <2>2 DEF InQueue
    <3>2. i # 1
      BY <1>3, <2>2, <3>1
    <3>3. i - 1 \in 1 .. Len(targetQ') /\ targetQ'[i - 1] = targetQ[(i - 1) + 1]
          /\ (i - 1) + 1 = i
      BY <1>3, <3>1, <3>2
    <3> QED BY <3>1, <3>3 DEF InQueue
  <2> QED BY <2>1, <2>2
<1>11. \A v \in DiscoveryWorkers : \A g :
         AtWorker(v, g)' <=> (IF v = w THEN g = h ELSE AtWorker(v, g))
  BY <1>4, <1>5 DEF AtWorker
<1>12. \A g : ~AtWorker(w, g)
  BY <1>7 DEF AtWorker
<1>13. /\ \A g : (Passed(g)' <=> Passed(g)) /\ (IsSwept(g)' <=> IsSwept(g))
       /\ \A g : (InEvents(g)' <=> InEvents(g)) /\ (IsRecorded(g)' <=> IsRecorded(g))
       /\ Accumulating' = Accumulating /\ (RunReturned' <=> RunReturned)
  BY <1>2 DEF Passed, IsSwept, InEvents, IsRecorded, Accumulating, RunReturned
<1>14. SweptOnce'
  <2>1. ASSUME NEW v \in DiscoveryWorkers, NEW g \in Hosts, AtWorker(v, g)'
        PROVE  /\ Passed(g)' /\ ~InQueue(g)'
               /\ disc'[v].pc = "sweeping" => ~IsSwept(g)'
               /\ \A u \in DiscoveryWorkers : AtWorker(u, g)' => u = v
    <3>1. CASE v = w
      <4>1. g = h
        BY <1>11, <2>1, <3>1
      <4>2. Passed(h) /\ ~IsSwept(h) /\ \A u \in DiscoveryWorkers : ~AtWorker(u, h)
        BY <1>1, <1>3, <1>8 DEF SweptOnce
      <4> QED BY <1>10, <1>11, <1>13, <3>1, <4>1, <4>2
    <3>2. CASE v # w
      <4>1. AtWorker(v, g) /\ disc'[v] = disc[v]
        BY <1>5, <1>11, <2>1, <3>2
      <4>2. /\ Passed(g) /\ ~InQueue(g) /\ (disc[v].pc = "sweeping" => ~IsSwept(g))
            /\ \A u \in DiscoveryWorkers : AtWorker(u, g) => u = v
        BY <1>1, <4>1 DEF SweptOnce
      <4> QED BY <1>8, <1>10, <1>11, <1>13, <4>1, <4>2
    <3> QED BY <3>1, <3>2
  <2>2. \A g \in Hosts : InQueue(g)' => Passed(g)' /\ ~IsSwept(g)'
    BY <1>1, <1>10, <1>13 DEF SweptOnce
  <2>3. /\ genPc' = "send" => genPos' <= Len(Targets) /\ Targets[genPos'] \notin resumedFrom'
        /\ \A o \in swept' : Passed(o.host)'
        /\ \A o, q \in swept' : o.host = q.host => o = q
    BY <1>1, <1>2, <1>13 DEF SweptOnce
  <2> QED BY <1>9, <2>1, <2>2, <2>3 DEF SweptOnce
<1>15. FromSweep' /\ CountsAgree' /\ CompletedAreRecorded' /\ EnvelopeFirst'
  <2>1. \A v \in DiscoveryWorkers : disc'[v].pc = "announcing" => disc'[v] = disc[v]
    BY <1>4, <1>5
  <2>2. \A v \in DiscoveryWorkers : disc'[v].pc = "announcing" =>
          [host |-> disc'[v].host, open |-> disc'[v].outcome.open,
           complete |-> disc'[v].outcome.complete] \in swept'
    <3>1. \A v \in DiscoveryWorkers : disc[v].pc = "announcing" =>
            [host |-> disc[v].host, open |-> disc[v].outcome.open,
             complete |-> disc[v].outcome.complete] \in swept
      BY <1>1 DEF FromSweep
    <3> HIDE DEF PipelineInv
    <3> QED BY <1>2, <2>1, <3>1
  <2>3. FromSweep'
    BY <1>1, <1>2, <2>2 DEF FromSweep, Accumulating
  <2> QED BY <1>1, <1>2, <2>3 DEF CountsAgree, CompletedAreRecorded, EnvelopeFirst
<1>16. OnePlace'
  <2>1. ~InEvents(h) /\ h \notin Accumulating /\ ~IsRecorded(h)
    BY <1>1, <1>3, <1>8, OnlySwept DEF SweptOnce
  <2>2. ASSUME NEW v \in DiscoveryWorkers, NEW g \in Hosts, AtWorker(v, g)'
        PROVE  ~InEvents(g)' /\ g \notin Accumulating' /\ ~IsRecorded(g)'
    BY <1>1, <1>11, <1>13, <2>1, <2>2 DEF OnePlace
  <2> QED BY <1>1, <1>2, <1>13, <2>2 DEF OnePlace
<1>17. NoPanics' => NoPanics
  BY <1>2, <1>5, <1>7 DEF NoPanics, Panicked
<1>18. JobsInPlace'
  <2>1. CarriersAdd /\ CarriersAdd'
    BY <1>1, <1>6, CarriersNow, CarriersNext
  <2>2. ASSUME NEW g \in Hosts, NEW p \in AllPorts
        PROVE  /\ Awaited(g)' = Awaited(g)
               /\ Carriers(g, p) \in Nat /\ Carriers(g, p)' = Carriers(g, p)
    <3>1. ~HasTodo(w, g, p) /\ ~HasTodo(w, g, p)'
      BY <1>4, <1>5, <1>7 DEF HasTodo
    <3>2. InTodo(g, p)' = InTodo(g, p) /\ InTodo(g, p) \in Nat
      BY <1>5, <3>1, DiscoveryMoves
    <3>3. /\ Carriers(g, p) \in Nat /\ Carriers(g, p)' \in Nat
          /\ Carriers(g, p)' + InTodo(g, p) = Carriers(g, p) + InTodo(g, p)'
      BY <1>2, <2>1, TodoCarriers
    <3> QED BY <1>2, <3>2, <3>3, AwaitedStays
  <2> QED BY <1>1, <1>13, <1>17, <2>2, JobsStay
<1>19. NothingLost'
  <2> SUFFICES ASSUME ~RunReturned', NoPanics'
               PROVE  /\ \A k \in 1 .. genPos' - 1 :
                           \/ Targets[k] \in resumedFrom' \/ InQueue(Targets[k])'
                           \/ IsSwept(Targets[k])'
                           \/ \E v \in DiscoveryWorkers : AtWorker(v, Targets[k])'
                      /\ \A o \in swept' :
                           \/ \E v \in DiscoveryWorkers : AtWorker(v, o.host)'
                           \/ InEvents(o.host)' \/ o.host \in Accumulating'
                           \/ IsRecorded(o.host)'
    BY DEF NothingLost
  <2>1. /\ \A k \in 1 .. genPos - 1 :
             \/ Targets[k] \in resumedFrom \/ InQueue(Targets[k]) \/ IsSwept(Targets[k])
             \/ \E v \in DiscoveryWorkers : AtWorker(v, Targets[k])
        /\ \A o \in swept :
             \/ \E v \in DiscoveryWorkers : AtWorker(v, o.host)
             \/ InEvents(o.host) \/ o.host \in Accumulating \/ IsRecorded(o.host)
    BY <1>1, <1>13, <1>17 DEF NothingLost
  <2>2. \A g : (\E v \in DiscoveryWorkers : AtWorker(v, g)) =>
                 \E v \in DiscoveryWorkers : AtWorker(v, g)'
    BY <1>11, <1>12
  <2>3. \A g : InQueue(g) => InQueue(g)' \/ AtWorker(w, g)'
    BY <1>10, <1>11
  <2> QED BY <1>2, <1>13, <2>1, <2>2, <2>3
<1>20. Exits'
  <2>1. ~RunReturned => \A v \in DiscoveryWorkers : disc[v] # Exited
    BY <1>1, <1>2 DEF Exits
  <2>2. result # "ok"
    BY <1>1, <1>7 DEF Exits, Gone
  <2>3. disc'[w] # Exited
    BY <1>4, <1>5 DEF Exited
  <2> QED BY <1>1, <1>2, <1>5, <1>13, <2>1, <2>2, <2>3 DEF Exits
<1> QED BY <1>1, <1>6, <1>14, <1>15, <1>16, <1>18, <1>19, <1>20 DEF PipelineInv
LEMMA SweepIsFinished ==
  ASSUME PipelineInv, NEW w \in DiscoveryWorkers, FinishSweep(w)
  PROVE  PipelineInv'
<1>1. /\ Shapes /\ QueuesOK /\ OthersOK /\ SweptOnce /\ FromSweep /\ OnePlace
      /\ EnvelopeFirst /\ JobsInPlace /\ CountsAgree /\ CompletedAreRecorded /\ NothingLost
      /\ Exits
  BY DEF PipelineInv
<1>2. /\ disc[w].pc = "sweeping"
      /\ UNCHANGED <<resumedFrom, genPc, genPos, targetQ, probeQ, prober, fingerprintQ,
                     fingerprinter, eventQ, hosts, completed, records, cancelled, result>>
  BY DEF FinishSweep, generatorVars, aggregatorVars
<1>3. PICK h \in Hosts : h = disc[w].host
  BY <1>1, <1>2, DiscoveryState DEF Shapes
<1>4. PICK o \in Outcomes(h, disc[w].late) :
        /\ disc' = [disc EXCEPT ![w] = [pc |-> "announcing", host |-> h, outcome |-> o]]
        /\ swept' = swept \cup {[host |-> h, open |-> o.open, complete |-> o.complete]}
  BY <1>3 DEF FinishSweep
<1> DEFINE d == [pc |-> "announcing", host |-> h, outcome |-> o]
           found == [host |-> h, open |-> o.open, complete |-> o.complete]
<1>5. o \in Outcome /\ o.open \in SUBSET AllPorts /\ o.complete \in BOOLEAN
  <2>1. ASSUME NEW S \in SUBSET AllPorts, NEW b \in BOOLEAN,
               o = [open |-> S, complete |-> b]
        PROVE  o \in Outcome /\ o.open \in SUBSET AllPorts /\ o.complete \in BOOLEAN
    BY <2>1, OutcomesAre
  <2>2. CASE o \in [open : SUBSET ScanPorts(h), complete : BOOLEAN]
    <3>1. o.open \in SUBSET ScanPorts(h) /\ o.complete \in BOOLEAN
          /\ o = [open |-> o.open, complete |-> o.complete]
      BY <2>2
    <3>2. o.open \in SUBSET AllPorts
      BY <3>1, Ports
    <3> QED BY <2>1, <3>1, <3>2
  <2> QED BY <2>1, <2>2 DEF Outcomes
<1>6. /\ d \in DiscoveryStates /\ d.pc = "announcing" /\ d.host = h /\ d.outcome = o
      /\ found \in Sweeps /\ found.host = h
  BY <1>3, <1>5 DEF DiscoveryStates, Sweeps
<1>7. disc' = [disc EXCEPT ![w] = d] /\ swept' = swept \cup {found}
  BY <1>4
<1>8. /\ \A v \in DiscoveryWorkers : v # w => disc'[v] = disc[v]
      /\ disc'[w] = d
  BY <1>1, <1>7 DEF Shapes
<1> HIDE DEF d, found
<1>9. Shapes' /\ QueuesOK' /\ OthersOK'
  <2>1. disc' \in [DiscoveryWorkers -> DiscoveryStates] /\ swept' \subseteq Sweeps
    BY <1>1, <1>6, <1>7 DEF Shapes
  <2> QED BY <1>1, <1>2, <2>1 DEF Shapes, QueuesOK, OthersOK
<1>10. AtWorker(w, h) /\ \A v \in DiscoveryWorkers : \A g : AtWorker(v, g)' <=> AtWorker(v, g)
  BY <1>2, <1>3, <1>6, <1>8 DEF AtWorker
<1>11. \A g : IsSwept(g)' <=> IsSwept(g) \/ g = h
  BY <1>6, <1>7 DEF IsSwept
<1>12. /\ \A g : (Passed(g)' <=> Passed(g)) /\ (InQueue(g)' <=> InQueue(g))
       /\ \A g : (InEvents(g)' <=> InEvents(g)) /\ (IsRecorded(g)' <=> IsRecorded(g))
       /\ Accumulating' = Accumulating /\ (RunReturned' <=> RunReturned)
  BY <1>2 DEF Passed, InQueue, InEvents, IsRecorded, Accumulating, RunReturned
<1>13. /\ Passed(h) /\ ~InQueue(h) /\ ~IsSwept(h)
       /\ \A v \in DiscoveryWorkers : AtWorker(v, h) => v = w
  BY <1>1, <1>2, <1>3, <1>10 DEF SweptOnce
<1>14. SweptOnce'
  <2>1. ASSUME NEW v \in DiscoveryWorkers, NEW g \in Hosts, AtWorker(v, g)'
        PROVE  /\ Passed(g)' /\ ~InQueue(g)'
               /\ disc'[v].pc = "sweeping" => ~IsSwept(g)'
               /\ \A u \in DiscoveryWorkers : AtWorker(u, g)' => u = v
    <3>1. /\ Passed(g) /\ ~InQueue(g) /\ (disc[v].pc = "sweeping" => ~IsSwept(g))
          /\ \A u \in DiscoveryWorkers : AtWorker(u, g) => u = v
      BY <1>1, <1>10, <2>1 DEF SweptOnce
    <3>2. disc'[v].pc = "sweeping" => v # w /\ disc'[v] = disc[v]
      BY <1>6, <1>8
    <3>3. v # w => g # h
      BY <1>10, <1>13, <2>1
    <3> QED BY <1>10, <1>11, <1>12, <3>1, <3>2, <3>3
  <2>2. \A g \in Hosts : InQueue(g)' => Passed(g)' /\ ~IsSwept(g)'
    BY <1>1, <1>11, <1>12, <1>13 DEF SweptOnce
  <2>3. \A r \in swept' : Passed(r.host)'
    BY <1>1, <1>6, <1>7, <1>12, <1>13 DEF SweptOnce
  <2>4. \A r, q \in swept' : r.host = q.host => r = q
    <3>1. \A r \in swept : r.host # h
      BY <1>13 DEF IsSwept
    <3> QED BY <1>1, <1>6, <1>7, <3>1 DEF SweptOnce
  <2>5. /\ genPc' = "send" => genPos' <= Len(Targets) /\ Targets[genPos'] \notin resumedFrom'
        /\ \A i, k \in 1 .. Len(targetQ') : targetQ'[i] = targetQ'[k] => i = k
    BY <1>1, <1>2 DEF SweptOnce
  <2> QED BY <2>1, <2>2, <2>3, <2>4, <2>5 DEF SweptOnce
<1>15. FromSweep'
  <2>1. ASSUME NEW v \in DiscoveryWorkers, disc'[v].pc = "announcing"
        PROVE  [host |-> disc'[v].host, open |-> disc'[v].outcome.open,
                complete |-> disc'[v].outcome.complete] \in swept'
    <3>1. CASE v = w
      <4>1. disc'[v].host = h /\ disc'[v].outcome = o
        BY <1>6, <1>8, <3>1
      <4>2. found \in swept'
        BY <1>7
      <4> QED BY <4>1, <4>2 DEF found
    <3>2. CASE v # w
      <4>1. disc'[v] = disc[v]
        BY <1>8, <3>2
      <4>2. [host |-> disc[v].host, open |-> disc[v].outcome.open,
             complete |-> disc[v].outcome.complete] \in swept
        BY <1>1, <2>1, <4>1 DEF FromSweep
      <4> QED BY <1>7, <4>1, <4>2
    <3> QED BY <3>1, <3>2
  <2>2. swept \subseteq swept'
    BY <1>7
  <2> QED BY <1>1, <1>2, <2>1, <2>2 DEF FromSweep, Accumulating
<1>16. OnePlace' /\ CountsAgree' /\ CompletedAreRecorded' /\ EnvelopeFirst'
  <2>1. OnePlace'
    BY <1>1, <1>2, <1>10, <1>12 DEF OnePlace
  <2> QED BY <1>1, <1>2, <2>1 DEF CountsAgree, CompletedAreRecorded, EnvelopeFirst
<1>17. NoPanics' => NoPanics
  BY <1>2, <1>8 DEF NoPanics, Panicked
<1>18. JobsInPlace'
  <2>1. CarriersAdd /\ CarriersAdd'
    BY <1>1, <1>9, CarriersNow, CarriersNext
  <2>2. ASSUME NEW g \in Hosts, NEW p \in AllPorts
        PROVE  /\ Awaited(g)' = Awaited(g)
               /\ Carriers(g, p) \in Nat /\ Carriers(g, p)' = Carriers(g, p)
    <3>1. ~HasTodo(w, g, p) /\ ~HasTodo(w, g, p)'
      BY <1>2, <1>6, <1>8 DEF HasTodo
    <3>2. InTodo(g, p)' = InTodo(g, p) /\ InTodo(g, p) \in Nat
      BY <1>8, <3>1, DiscoveryMoves
    <3>3. /\ Carriers(g, p) \in Nat /\ Carriers(g, p)' \in Nat
          /\ Carriers(g, p)' + InTodo(g, p) = Carriers(g, p) + InTodo(g, p)'
      BY <1>2, <2>1, TodoCarriers
    <3> QED BY <1>2, <3>2, <3>3, AwaitedStays
  <2> QED BY <1>1, <1>12, <1>17, <2>2, JobsStay
<1>19. NothingLost'
  <2> SUFFICES ASSUME ~RunReturned', NoPanics'
               PROVE  /\ \A k \in 1 .. genPos' - 1 :
                           \/ Targets[k] \in resumedFrom' \/ InQueue(Targets[k])'
                           \/ IsSwept(Targets[k])'
                           \/ \E v \in DiscoveryWorkers : AtWorker(v, Targets[k])'
                      /\ \A r \in swept' :
                           \/ \E v \in DiscoveryWorkers : AtWorker(v, r.host)'
                           \/ InEvents(r.host)' \/ r.host \in Accumulating'
                           \/ IsRecorded(r.host)'
    BY DEF NothingLost
  <2>1. /\ \A k \in 1 .. genPos - 1 :
             \/ Targets[k] \in resumedFrom \/ InQueue(Targets[k]) \/ IsSwept(Targets[k])
             \/ \E v \in DiscoveryWorkers : AtWorker(v, Targets[k])
        /\ \A r \in swept :
             \/ \E v \in DiscoveryWorkers : AtWorker(v, r.host)
             \/ InEvents(r.host) \/ r.host \in Accumulating \/ IsRecorded(r.host)
    BY <1>1, <1>12, <1>17 DEF NothingLost
  <2>2. found \in swept' => \E v \in DiscoveryWorkers : AtWorker(v, found.host)'
    BY <1>6, <1>10
  <2> QED BY <1>2, <1>7, <1>10, <1>11, <1>12, <2>1, <2>2
<1>20. Exits'
  <2>1. result # "ok"
    BY <1>1, <1>2 DEF Exits, Gone
  <2>2. disc'[w] # Exited
    BY <1>6, <1>8 DEF Exited
  <2> QED BY <1>1, <1>2, <1>8, <1>12, <2>1, <2>2 DEF Exits
<1> QED BY <1>1, <1>9, <1>14, <1>15, <1>16, <1>18, <1>19, <1>20 DEF PipelineInv
\* A discovery worker goes: for want of targets, at the end of the run, or in a panic.
LEMMA DiscoveryWorkerGoes ==
  ASSUME PipelineInv, NEW w \in DiscoveryWorkers, NEW d \in {Exited, Panicked},
         ~Gone(disc[w]), disc' = [disc EXCEPT ![w] = d],
         \/ d = Panicked \/ RunReturned
         \/ disc[w] = Idle /\ targetQ = <<>> /\ genPc = "done",
         UNCHANGED <<resumedFrom, genPc, genPos, targetQ, probeQ, prober, fingerprintQ,
                     fingerprinter, eventQ, hosts, completed, records, cancelled, result,
                     swept>>
  PROVE  PipelineInv'
<1>1. /\ Shapes /\ QueuesOK /\ OthersOK /\ SweptOnce /\ FromSweep /\ OnePlace
      /\ EnvelopeFirst /\ JobsInPlace /\ CountsAgree /\ CompletedAreRecorded /\ NothingLost
      /\ Exits
  BY DEF PipelineInv
<1>2. /\ \A v \in DiscoveryWorkers : v # w => disc'[v] = disc[v]
      /\ disc'[w] = d /\ d.pc \in {"exited", "panicked"} /\ d \in DiscoveryStates
      /\ Panicked # Exited
  BY <1>1 DEF Shapes, Exited, Panicked, DiscoveryStates
<1>3. Shapes' /\ QueuesOK' /\ OthersOK'
  <2>1. disc' \in [DiscoveryWorkers -> DiscoveryStates]
    BY <1>1, <1>2 DEF Shapes
  <2> QED BY <1>1, <2>1 DEF Shapes, QueuesOK, OthersOK
<1>4. \A v \in DiscoveryWorkers : \A g : AtWorker(v, g)' <=> v # w /\ AtWorker(v, g)
  BY <1>2 DEF AtWorker
<1>5. /\ \A g : (Passed(g)' <=> Passed(g)) /\ (InQueue(g)' <=> InQueue(g))
      /\ \A g : (InEvents(g)' <=> InEvents(g)) /\ (IsRecorded(g)' <=> IsRecorded(g))
      /\ \A g : (IsSwept(g)' <=> IsSwept(g))
      /\ Accumulating' = Accumulating /\ (RunReturned' <=> RunReturned)
  BY DEF Passed, InQueue, InEvents, IsRecorded, IsSwept, Accumulating, RunReturned
<1>6. SweptOnce'
  <2>1. ASSUME NEW v \in DiscoveryWorkers, NEW g \in Hosts, AtWorker(v, g)'
        PROVE  /\ Passed(g)' /\ ~InQueue(g)'
               /\ disc'[v].pc = "sweeping" => ~IsSwept(g)'
               /\ \A u \in DiscoveryWorkers : AtWorker(u, g)' => u = v
    <3>1. AtWorker(v, g) /\ disc'[v] = disc[v]
      BY <1>2, <1>4, <2>1
    <3>2. /\ Passed(g) /\ ~InQueue(g) /\ (disc[v].pc = "sweeping" => ~IsSwept(g))
          /\ \A u \in DiscoveryWorkers : AtWorker(u, g) => u = v
      BY <1>1, <3>1 DEF SweptOnce
    <3> QED BY <1>4, <1>5, <3>1, <3>2
  <2> QED BY <1>1, <1>5, <2>1 DEF SweptOnce
<1>7. FromSweep'
  <2>1. \A v \in DiscoveryWorkers : disc'[v].pc = "announcing" => disc'[v] = disc[v]
    BY <1>2
  <2>2. \A v \in DiscoveryWorkers : disc[v].pc = "announcing" =>
          [host |-> disc[v].host, open |-> disc[v].outcome.open,
           complete |-> disc[v].outcome.complete] \in swept
    BY <1>1 DEF FromSweep
  <2>3. \A v \in DiscoveryWorkers : disc'[v].pc = "announcing" =>
          [host |-> disc'[v].host, open |-> disc'[v].outcome.open,
           complete |-> disc'[v].outcome.complete] \in swept'
    <3> HIDE DEF PipelineInv
    <3> QED BY <2>1, <2>2
  <2> QED BY <1>1, <2>3 DEF FromSweep, Accumulating
<1>8. OnePlace' /\ CountsAgree' /\ CompletedAreRecorded' /\ EnvelopeFirst'
  <2>1. OnePlace'
    BY <1>1, <1>4, <1>5 DEF OnePlace
  <2> QED BY <1>1, <2>1 DEF CountsAgree, CompletedAreRecorded, EnvelopeFirst
<1>9. NoPanics' => NoPanics /\ d = Exited
  BY <1>2 DEF NoPanics, Gone, Panicked, Exited
<1>10. JobsInPlace'
  <2>1. CarriersAdd /\ CarriersAdd'
    BY <1>1, <1>3, CarriersNow, CarriersNext
  <2>2. ASSUME NEW g \in Hosts, NEW p \in AllPorts
        PROVE  /\ Awaited(g)' = Awaited(g)
               /\ Carriers(g, p) \in Nat /\ Carriers(g, p)' \in Nat
               /\ Carriers(g, p)' <= Carriers(g, p)
               /\ ~RunReturned' /\ NoPanics' => ~RunReturned /\ NoPanics
                                                /\ Carriers(g, p)' = Carriers(g, p)
    <3>1. ~HasTodo(w, g, p)'
      BY <1>2 DEF HasTodo
    <3>2. ~RunReturned' /\ NoPanics' => ~HasTodo(w, g, p)
      BY <1>2, <1>5, <1>9 DEF HasTodo, Idle
    <3>3. /\ InTodo(g, p) \in Nat /\ InTodo(g, p)' \in Nat
          /\ InTodo(g, p)' + (IF HasTodo(w, g, p) THEN 1 ELSE 0)
               = InTodo(g, p) + (IF HasTodo(w, g, p)' THEN 1 ELSE 0)
      BY <1>2, DiscoveryMoves
    <3>4. /\ Carriers(g, p) \in Nat /\ Carriers(g, p)' \in Nat
          /\ Carriers(g, p)' + InTodo(g, p) = Carriers(g, p) + InTodo(g, p)'
      BY <2>1, TodoCarriers
    <3> QED BY <1>5, <1>9, <3>1, <3>2, <3>3, <3>4, AwaitedStays
  <2> QED BY <1>1, <2>2, JobsStay
<1>11. NothingLost'
  <2>1. ~RunReturned' /\ NoPanics' =>
          \A v \in DiscoveryWorkers : \A g : AtWorker(v, g) => AtWorker(v, g)'
    BY <1>2, <1>4, <1>5, <1>9 DEF AtWorker, Idle
  <2> QED BY <1>1, <1>5, <1>9, <2>1 DEF NothingLost
<1>12. Exits'
  <2>1. result # "ok"
    BY <1>1 DEF Exits
  <2>2. d = Exited /\ ~RunReturned => targetQ = <<>> /\ genPc = "done"
    BY <1>2
  <2> QED BY <1>1, <1>2, <1>5, <2>1, <2>2 DEF Exits
<1> QED BY <1>1, <1>3, <1>6, <1>7, <1>8, <1>10, <1>11, <1>12 DEF PipelineInv

\* A job leaves discovery: one port less to do, one job more in the queue of probes.
LEMMA JobIsEnqueued ==
  ASSUME PipelineInv, NEW w \in DiscoveryWorkers, EnqueueJob(w), ~ProbesRefused
  PROVE  PipelineInv'
<1>1. /\ Shapes /\ QueuesOK /\ OthersOK /\ SweptOnce /\ FromSweep /\ OnePlace
      /\ EnvelopeFirst /\ JobsInPlace /\ CountsAgree /\ CompletedAreRecorded /\ NothingLost
      /\ Exits
  BY DEF PipelineInv
<1>2. /\ disc[w].pc = "enqueuing"
      /\ UNCHANGED <<resumedFrom, genPc, genPos, targetQ, prober, fingerprintQ,
                     fingerprinter, eventQ, hosts, completed, records, cancelled, result,
                     swept>>
  BY DEF EnqueueJob, generatorVars, aggregatorVars
<1>3. disc[w].host \in Hosts /\ disc[w].todo \in SUBSET AllPorts
  BY <1>1, <1>2, DiscoveryState DEF Shapes
<1>4. PICK h \in Hosts, todo \in SUBSET AllPorts : h = disc[w].host /\ todo = disc[w].todo
  BY <1>3
<1>5. PICK p \in todo :
        /\ HasRoom(probeQ) /\ probeQ' = Append(probeQ, Job(h, p))
        /\ disc' = [disc EXCEPT ![w] = AfterJob(h, todo, p)]
  BY <1>4 DEF EnqueueJob
<1> DEFINE d == AfterJob(h, todo, p)
<1>6. /\ d \in DiscoveryStates /\ d.pc \in {"idle", "enqueuing"}
      /\ d.pc = "idle" => todo = {p}
      /\ d.pc = "enqueuing" => d.host = h /\ d.todo = todo \ {p}
  BY DEF AfterJob, DiscoveryStates, Idle
<1> HIDE DEF d
<1>7. (\A v \in DiscoveryWorkers : v # w => disc'[v] = disc[v]) /\ disc'[w] = d
  BY <1>1, <1>5 DEF Shapes, d
<1>8. /\ Job(h, p) \in Jobs /\ probeQ \in Seq(Jobs)
      /\ probeQ' \in Seq(Jobs) /\ Len(probeQ') <= QueueDepth
  <2>1. Job(h, p) \in Jobs /\ probeQ \in Seq(Jobs)
    BY <1>1, JobsAre DEF QueuesOK
  <2> QED BY <1>5, <2>1, QueueGrows
<1>9. Shapes' /\ QueuesOK' /\ OthersOK'
  <2>1. disc' \in [DiscoveryWorkers -> DiscoveryStates]
    BY <1>1, <1>5, <1>6 DEF Shapes, d
  <2> QED BY <1>1, <1>2, <1>8, <2>1 DEF Shapes, QueuesOK, OthersOK
<1>10. \A v \in DiscoveryWorkers : \A g : AtWorker(v, g)' <=> AtWorker(v, g)
  BY <1>2, <1>6, <1>7 DEF AtWorker
<1>11. /\ \A g : (Passed(g)' <=> Passed(g)) /\ (InQueue(g)' <=> InQueue(g))
       /\ \A g : (InEvents(g)' <=> InEvents(g)) /\ (IsRecorded(g)' <=> IsRecorded(g))
       /\ \A g : (IsSwept(g)' <=> IsSwept(g))
       /\ Accumulating' = Accumulating /\ (RunReturned' <=> RunReturned)
  BY <1>2 DEF Passed, InQueue, InEvents, IsRecorded, IsSwept, Accumulating, RunReturned
<1>12. SweptOnce'
  <2>1. \A v \in DiscoveryWorkers : disc'[v].pc = "sweeping" => disc[v].pc = "sweeping"
    BY <1>6, <1>7
  <2>2. ASSUME NEW v \in DiscoveryWorkers, NEW g \in Hosts, AtWorker(v, g)'
        PROVE  /\ Passed(g)' /\ ~InQueue(g)'
               /\ disc'[v].pc = "sweeping" => ~IsSwept(g)'
               /\ \A u \in DiscoveryWorkers : AtWorker(u, g)' => u = v
    <3>1. /\ Passed(g) /\ ~InQueue(g) /\ (disc[v].pc = "sweeping" => ~IsSwept(g))
          /\ \A u \in DiscoveryWorkers : AtWorker(u, g) => u = v
      BY <1>1, <1>10, <2>2 DEF SweptOnce
    <3> QED BY <1>10, <1>11, <2>1, <3>1
  <2> QED BY <1>1, <1>2, <1>11, <2>2 DEF SweptOnce
<1>13. FromSweep'
  <2>1. \A v \in DiscoveryWorkers : disc'[v].pc = "announcing" => disc'[v] = disc[v]
    BY <1>6, <1>7
  <2>2. \A v \in DiscoveryWorkers : disc[v].pc = "announcing" =>
          [host |-> disc[v].host, open |-> disc[v].outcome.open,
           complete |-> disc[v].outcome.complete] \in swept
    BY <1>1 DEF FromSweep
  <2>3. \A v \in DiscoveryWorkers : disc'[v].pc = "announcing" =>
          [host |-> disc'[v].host, open |-> disc'[v].outcome.open,
           complete |-> disc'[v].outcome.complete] \in swept'
    <3> HIDE DEF PipelineInv
    <3> QED BY <1>2, <2>1, <2>2
  <2> QED BY <1>1, <1>2, <2>3 DEF FromSweep, Accumulating
<1>14. OnePlace' /\ CountsAgree' /\ CompletedAreRecorded' /\ EnvelopeFirst'
  <2>1. OnePlace'
    BY <1>1, <1>2, <1>10, <1>11 DEF OnePlace
  <2> QED BY <1>1, <1>2, <2>1 DEF CountsAgree, CompletedAreRecorded, EnvelopeFirst
<1>15. NoPanics' => NoPanics
  BY <1>2, <1>7 DEF NoPanics, Panicked
<1>16. JobsInPlace'
  <2>1. CarriersAdd /\ CarriersAdd'
    BY <1>1, <1>9, CarriersNow, CarriersNext
  <2>2. ASSUME NEW g \in Hosts, NEW q \in AllPorts
        PROVE  /\ Awaited(g)' = Awaited(g)
               /\ Carriers(g, q) \in Nat /\ Carriers(g, q)' = Carriers(g, q)
    <3>1. InProbeQ(g, q)' = InProbeQ(g, q) + IF Job(h, p) = Job(g, q) THEN 1 ELSE 0
      BY <1>5, <1>8, HowManyAppended DEF InProbeQ
    <3>2. Job(h, p) = Job(g, q) <=> h = g /\ p = q
      BY DEF Job
    <3>3. HasTodo(w, g, q) <=> g = h /\ q \in todo
      BY <1>2, <1>4 DEF HasTodo
    <3>4. HasTodo(w, g, q)' <=> g = h /\ q \in todo \ {p}
      BY <1>6, <1>7 DEF HasTodo
    <3>5. /\ InTodo(g, q) \in Nat /\ InTodo(g, q)' \in Nat
          /\ InTodo(g, q)' + (IF HasTodo(w, g, q) THEN 1 ELSE 0)
               = InTodo(g, q) + (IF HasTodo(w, g, q)' THEN 1 ELSE 0)
      BY <1>7, DiscoveryMoves
    <3>6. InProbeQ(g, q)' + InTodo(g, q)' = InProbeQ(g, q) + InTodo(g, q)
      <4>1. InProbeQ(g, q) \in Nat /\ InProbeQ(g, q)' \in Nat
        BY <2>1 DEF CarriersAdd
      <4>2. CASE g = h /\ q = p
        BY <3>1, <3>2, <3>3, <3>4, <3>5, <4>1, <4>2
      <4>3. CASE ~(g = h /\ q = p)
        BY <3>1, <3>2, <3>3, <3>4, <3>5, <4>1, <4>3
      <4> QED BY <4>2, <4>3
    <3>7. /\ InFingerprintQ(g, q)' = InFingerprintQ(g, q) /\ Probed(g, q)' = Probed(g, q)
          /\ Enriched(g, q)' = Enriched(g, q) /\ SentUp(g, q)' = SentUp(g, q)
      BY <1>2 DEF InFingerprintQ, Probed, Enriched, SentUp
    <3>8. Awaited(g)' = Awaited(g)
      BY <1>2, AwaitedStays
    <3>9. /\ Carriers(g, q) \in Nat
          /\ Carriers(g, q) = InProbeQ(g, q) + InFingerprintQ(g, q) + InTodo(g, q)
                                + Probed(g, q) + Enriched(g, q) + SentUp(g, q)
          /\ Carriers(g, q)' = InProbeQ(g, q)' + InFingerprintQ(g, q)' + InTodo(g, q)'
                                 + Probed(g, q)' + Enriched(g, q)' + SentUp(g, q)'
          /\ InProbeQ(g, q) \in Nat /\ InProbeQ(g, q)' \in Nat
          /\ InTodo(g, q) \in Nat /\ InTodo(g, q)' \in Nat
          /\ InFingerprintQ(g, q) \in Nat /\ Probed(g, q) \in Nat
          /\ Enriched(g, q) \in Nat /\ SentUp(g, q) \in Nat
      BY <2>1, <3>5 DEF CarriersAdd
    <3>10. Carriers(g, q)' = Carriers(g, q)
      BY <3>6, <3>7, <3>9
    <3> QED BY <3>8, <3>9, <3>10
  <2> QED BY <1>1, <1>11, <1>15, <2>2, JobsStay
<1>17. NothingLost'
  BY <1>1, <1>2, <1>10, <1>11, <1>15 DEF NothingLost
<1>18. Exits'
  <2>1. result # "ok"
    BY <1>1, <1>2 DEF Exits, Gone
  <2>2. disc'[w] # Exited
    BY <1>6, <1>7 DEF Exited
  <2> QED BY <1>1, <1>2, <1>7, <1>11, <2>1, <2>2 DEF Exits
<1> QED BY <1>1, <1>9, <1>12, <1>13, <1>14, <1>16, <1>17, <1>18 DEF PipelineInv
\* A host envelope enters the event channel: all its open ports are awaited from now on.
LEMMA HostIsAnnounced ==
  ASSUME PipelineInv, NEW w \in DiscoveryWorkers, Announce(w), ~RunReturned
  PROVE  PipelineInv'
<1> DEFINE n == Len(eventQ) + 1
<1>1. /\ Shapes /\ QueuesOK /\ OthersOK /\ SweptOnce /\ FromSweep /\ OnePlace
      /\ EnvelopeFirst /\ JobsInPlace /\ CountsAgree /\ CompletedAreRecorded /\ NothingLost
      /\ Exits
  BY DEF PipelineInv
<1>2. /\ disc[w].pc = "announcing" /\ HasRoom(eventQ)
      /\ UNCHANGED <<resumedFrom, genPc, genPos, targetQ, probeQ, prober, fingerprintQ,
                     fingerprinter, hosts, completed, records, cancelled, result, swept>>
  BY DEF Announce, generatorVars, aggregatorVars
<1>3. disc[w].host \in Hosts /\ disc[w].outcome \in Outcome
  BY <1>1, <1>2, DiscoveryState DEF Shapes
<1>4. PICK h \in Hosts, o \in Outcome : h = disc[w].host /\ o = disc[w].outcome
  BY <1>3
<1> DEFINE e == Started(h, o)
           d == IF o.open = {} THEN Idle ELSE [pc |-> "enqueuing", host |-> h, todo |-> o.open]
<1>5. eventQ' = Append(eventQ, e) /\ disc' = [disc EXCEPT ![w] = d]
  BY <1>4 DEF Announce
<1>6. /\ e \in Events /\ e.type = "started" /\ e.host = h /\ e.open = o.open
      /\ e.complete = o.complete /\ o.open \in SUBSET AllPorts
  BY OutcomesAre DEF Events, Started
<1>7. /\ d \in DiscoveryStates /\ d.pc \in {"idle", "enqueuing"}
      /\ d.pc = "idle" => o.open = {}
      /\ d.pc = "enqueuing" => d.host = h /\ d.todo = o.open
  BY <1>6 DEF DiscoveryStates, Idle
<1> HIDE DEF e, d
<1>8. /\ eventQ' \in Seq(Events) /\ Len(eventQ') <= QueueDepth /\ Len(eventQ') = n
      /\ eventQ'[n] = e /\ Len(eventQ) \in Nat /\ eventQ \in Seq(Events)
      /\ \A i \in 1 .. Len(eventQ) : eventQ'[i] = eventQ[i]
  BY <1>1, <1>2, <1>5, <1>6, QueueGrows DEF QueuesOK
<1>9. /\ \A i \in 1 .. n : i \in 1 .. Len(eventQ) \/ i = n
      /\ n \in 1 .. n /\ \A i \in 1 .. Len(eventQ) : i \in 1 .. n
  BY <1>8
<1>10. (\A v \in DiscoveryWorkers : v # w => disc'[v] = disc[v]) /\ disc'[w] = d
  BY <1>1, <1>5 DEF Shapes
<1>11. Shapes' /\ QueuesOK' /\ OthersOK'
  <2>1. disc' \in [DiscoveryWorkers -> DiscoveryStates]
    BY <1>1, <1>5, <1>7 DEF Shapes
  <2> QED BY <1>1, <1>2, <1>8, <2>1 DEF Shapes, QueuesOK, OthersOK
<1>12. /\ AtWorker(w, h)
       /\ \A v \in DiscoveryWorkers : \A g : AtWorker(v, g)' <=> v # w /\ AtWorker(v, g)
  BY <1>2, <1>4, <1>7, <1>10 DEF AtWorker
<1>13. \A g : InEvents(g)' <=> InEvents(g) \/ g = h
  BY <1>6, <1>8, <1>9 DEF InEvents
<1>14. /\ \A g : (Passed(g)' <=> Passed(g)) /\ (InQueue(g)' <=> InQueue(g))
       /\ \A g : (IsSwept(g)' <=> IsSwept(g)) /\ (IsRecorded(g)' <=> IsRecorded(g))
       /\ Accumulating' = Accumulating /\ (RunReturned' <=> RunReturned)
  BY <1>2 DEF Passed, InQueue, IsSwept, IsRecorded, Accumulating, RunReturned
<1>15. /\ ~InEvents(h) /\ h \notin Accumulating /\ ~IsRecorded(h)
       /\ \A v \in DiscoveryWorkers : AtWorker(v, h) => v = w
  BY <1>1, <1>12 DEF OnePlace, SweptOnce
<1>16. [host |-> h, open |-> o.open, complete |-> o.complete] \in swept /\ IsSwept(h)
  <2>1. [host |-> h, open |-> o.open, complete |-> o.complete] \in swept
    BY <1>1, <1>2, <1>4 DEF FromSweep
  <2> QED BY <2>1 DEF IsSwept
<1>17. SweptOnce'
  <2>1. ASSUME NEW v \in DiscoveryWorkers, NEW g \in Hosts, AtWorker(v, g)'
        PROVE  /\ Passed(g)' /\ ~InQueue(g)'
               /\ disc'[v].pc = "sweeping" => ~IsSwept(g)'
               /\ \A u \in DiscoveryWorkers : AtWorker(u, g)' => u = v
    <3>1. AtWorker(v, g) /\ disc'[v] = disc[v]
      BY <1>10, <1>12, <2>1
    <3>2. /\ Passed(g) /\ ~InQueue(g) /\ (disc[v].pc = "sweeping" => ~IsSwept(g))
          /\ \A u \in DiscoveryWorkers : AtWorker(u, g) => u = v
      BY <1>1, <3>1 DEF SweptOnce
    <3> QED BY <1>12, <1>14, <3>1, <3>2
  <2> QED BY <1>1, <1>2, <1>14, <2>1 DEF SweptOnce
<1>18. FromSweep'
  <2>1. \A v \in DiscoveryWorkers : disc'[v].pc = "announcing" => disc'[v] = disc[v]
    BY <1>7, <1>10
  <2>2. \A v \in DiscoveryWorkers : disc[v].pc = "announcing" =>
          [host |-> disc[v].host, open |-> disc[v].outcome.open,
           complete |-> disc[v].outcome.complete] \in swept
    BY <1>1 DEF FromSweep
  <2>3. \A v \in DiscoveryWorkers : disc'[v].pc = "announcing" =>
          [host |-> disc'[v].host, open |-> disc'[v].outcome.open,
           complete |-> disc'[v].outcome.complete] \in swept'
    <3> HIDE DEF PipelineInv
    <3> QED BY <1>2, <2>1, <2>2
  <2>4. ASSUME NEW i \in 1 .. n, eventQ'[i].type = "started"
        PROVE  [host |-> eventQ'[i].host, open |-> eventQ'[i].open,
                complete |-> eventQ'[i].complete] \in swept'
    <3>1. CASE i = n
      BY <1>2, <1>6, <1>8, <1>16, <3>1
    <3>2. CASE i \in 1 .. Len(eventQ)
      BY <1>1, <1>2, <1>8, <2>4, <3>2 DEF FromSweep
    <3> QED BY <1>9, <3>1, <3>2
  <2> QED BY <1>1, <1>2, <1>8, <2>3, <2>4 DEF FromSweep, Accumulating
<1>19. OnePlace'
  <2>1. ASSUME NEW i \in 1 .. n, NEW k \in 1 .. n,
               eventQ'[i].type = "started", eventQ'[k].type = "started",
               eventQ'[i].host = eventQ'[k].host
        PROVE  i = k
    <3>1. \A m \in 1 .. Len(eventQ) : eventQ[m].type = "started" => eventQ[m].host # h
      BY <1>15 DEF InEvents
    <3>2. CASE i = n \/ k = n
      BY <1>6, <1>8, <1>9, <2>1, <3>1, <3>2
    <3>3. CASE i \in 1 .. Len(eventQ) /\ k \in 1 .. Len(eventQ)
      BY <1>1, <1>8, <2>1, <3>3 DEF OnePlace
    <3> QED BY <1>9, <3>2, <3>3
  <2>2. \A v \in DiscoveryWorkers, g \in Hosts :
          AtWorker(v, g)' => ~InEvents(g)' /\ g \notin Accumulating' /\ ~IsRecorded(g)'
    BY <1>1, <1>12, <1>13, <1>14, <1>15 DEF OnePlace
  <2>3. \A g \in Hosts : InEvents(g)' => g \notin Accumulating' /\ ~IsRecorded(g)'
    BY <1>1, <1>13, <1>14, <1>15 DEF OnePlace
  <2> QED BY <1>1, <1>2, <1>8, <1>14, <2>1, <2>2, <2>3 DEF OnePlace
<1>20. EnvelopeFirst' /\ CountsAgree' /\ CompletedAreRecorded'
  <2>1. ASSUME NEW i \in 1 .. n, eventQ'[i].type = "service"
        PROVE  \/ eventQ'[i].port \in hosts[eventQ'[i].host].open \ hosts[eventQ'[i].host].ports
               \/ \E k \in 1 .. i - 1 :
                    /\ eventQ'[k].type = "started" /\ eventQ'[k].host = eventQ'[i].host
                    /\ eventQ'[i].port \in eventQ'[k].open
    <3>1. i \in 1 .. Len(eventQ)
      BY <1>6, <1>8, <1>9, <2>1
    <3>2. eventQ'[i] = eventQ[i] /\ i \in DOMAIN eventQ
          /\ \A k \in 1 .. i - 1 : eventQ'[k] = eventQ[k]
      BY <1>8, <3>1
    <3> QED BY <1>1, <2>1, <3>2 DEF EnvelopeFirst
  <2> QED BY <1>1, <1>2, <1>8, <2>1 DEF EnvelopeFirst, CountsAgree, CompletedAreRecorded
<1>21. NoPanics' => NoPanics
  BY <1>2, <1>10 DEF NoPanics, Panicked
<1>22. JobsInPlace'
  <2>1. CarriersAdd /\ CarriersAdd'
    BY <1>1, <1>11, CarriersNow, CarriersNext
  <2>2. \A g \in Hosts : g # h => Awaited(g)' = Awaited(g)
    BY <1>2, <1>6, <1>8, <1>9 DEF Awaited
  <2>3. Awaited(h) = {}
    BY <1>1, <1>15 DEF Awaited, Accumulating, InEvents, OthersOK
  <2>4. Awaited(h)' = o.open
    <3>1. hosts[h].open = {}
      BY <1>15 DEF Accumulating
    <3>2. \A i \in 1 .. n : eventQ'[i].type = "started" /\ eventQ'[i].host = h => i = n
      BY <1>8, <1>9, <1>15 DEF InEvents
    <3> QED BY <1>2, <1>6, <1>8, <1>9, <3>1, <3>2 DEF Awaited
  <2>5. ASSUME NEW g \in Hosts, NEW q \in AllPorts
        PROVE  /\ Carriers(g, q) \in Nat /\ Carriers(g, q)' \in Nat
               /\ Carriers(g, q)'
                    = Carriers(g, q) + IF g = h /\ q \in o.open THEN 1 ELSE 0
    <3>1. SentUp(g, q)' = SentUp(g, q)
      <4>1. SentUp(g, q)' = SentUp(g, q) + IF e = Service(Job(g, q)) THEN 1 ELSE 0
        BY <1>5, <1>6, <1>8, HowManyAppended DEF SentUp
      <4>2. e # Service(Job(g, q))
        BY <1>6 DEF Service
      <4> QED BY <2>1, <4>1, <4>2 DEF CarriersAdd
    <3>2. ~HasTodo(w, g, q) /\ (HasTodo(w, g, q)' <=> g = h /\ q \in o.open)
      BY <1>2, <1>7, <1>10 DEF HasTodo
    <3>3. /\ InTodo(g, q) \in Nat /\ InTodo(g, q)' \in Nat
          /\ InTodo(g, q)' = InTodo(g, q) + IF g = h /\ q \in o.open THEN 1 ELSE 0
      BY <1>10, <3>2, DiscoveryMoves
    <3>4. /\ InProbeQ(g, q)' = InProbeQ(g, q) /\ InFingerprintQ(g, q)' = InFingerprintQ(g, q)
          /\ Probed(g, q)' = Probed(g, q) /\ Enriched(g, q)' = Enriched(g, q)
      BY <1>2 DEF InProbeQ, InFingerprintQ, Probed, Enriched
    <3> QED BY <2>1, <3>1, <3>3, <3>4 DEF CarriersAdd
  <2>6. ASSUME NEW g \in Hosts, NEW q \in AllPorts
        PROVE  /\ Carriers(g, q)' <= IF q \in Awaited(g)' THEN 1 ELSE 0
               /\ ~RunReturned' /\ NoPanics' =>
                    Carriers(g, q)' = IF q \in Awaited(g)' THEN 1 ELSE 0
    <3>1. /\ Carriers(g, q) <= IF q \in Awaited(g) THEN 1 ELSE 0
          /\ ~RunReturned /\ NoPanics => Carriers(g, q) = IF q \in Awaited(g) THEN 1 ELSE 0
      BY <1>1 DEF JobsInPlace
    <3>2. CASE g # h
      BY <1>14, <1>21, <2>2, <2>5, <3>1, <3>2
    <3>3. CASE g = h
      <4>1. q \notin Awaited(g) /\ (q \in Awaited(g)' <=> q \in o.open)
        BY <2>3, <2>4, <3>3
      <4>2. Carriers(g, q)' = IF q \in o.open THEN 1 ELSE 0
        BY <2>5, <3>1, <3>3, <4>1
      <4> QED BY <4>1, <4>2
    <3> QED BY <3>2, <3>3
  <2> QED BY <2>6 DEF JobsInPlace
<1>23. NothingLost'
  <2> SUFFICES ASSUME ~RunReturned', NoPanics'
               PROVE  /\ \A k \in 1 .. genPos' - 1 :
                           \/ Targets[k] \in resumedFrom' \/ InQueue(Targets[k])'
                           \/ IsSwept(Targets[k])'
                           \/ \E v \in DiscoveryWorkers : AtWorker(v, Targets[k])'
                      /\ \A r \in swept' :
                           \/ \E v \in DiscoveryWorkers : AtWorker(v, r.host)'
                           \/ InEvents(r.host)' \/ r.host \in Accumulating'
                           \/ IsRecorded(r.host)'
    BY DEF NothingLost
  <2>1. /\ \A k \in 1 .. genPos - 1 :
             \/ Targets[k] \in resumedFrom \/ InQueue(Targets[k]) \/ IsSwept(Targets[k])
             \/ \E v \in DiscoveryWorkers : AtWorker(v, Targets[k])
        /\ \A r \in swept :
             \/ \E v \in DiscoveryWorkers : AtWorker(v, r.host)
             \/ InEvents(r.host) \/ r.host \in Accumulating \/ IsRecorded(r.host)
    BY <1>1, <1>14, <1>21 DEF NothingLost
  <2>2. \A g : (\E v \in DiscoveryWorkers : AtWorker(v, g)) =>
                 g = h \/ \E v \in DiscoveryWorkers : AtWorker(v, g)'
    <3>1. \A g : AtWorker(w, g) => g = h
      BY <1>4 DEF AtWorker
    <3> QED BY <1>12, <3>1
  <2> QED BY <1>2, <1>13, <1>14, <1>16, <2>1, <2>2
<1>24. Exits'
  <2>1. result # "ok"
    BY <1>1, <1>2 DEF Exits, Gone
  <2>2. disc'[w] # Exited
    BY <1>7, <1>10 DEF Exited
  <2> QED BY <1>1, <1>2, <1>10, <1>14, <2>1, <2>2 DEF Exits
<1> QED BY <1>11, <1>17, <1>18, <1>19, <1>20, <1>22, <1>23, <1>24 DEF PipelineInv

LEMMA DiscoveryStepsKeep ==
  ASSUME PipelineInv, NEW w \in DiscoveryWorkers, DiscoveryStep(w) \/ DiscoveryPanics(w)
  PROVE  PipelineInv'
<1>1. CASE TakeTarget(w)
  BY <1>1, TargetIsTaken
<1>2. CASE FinishSweep(w)
  BY <1>2, SweepIsFinished
<1>3. CASE Announce(w) /\ ~RunReturned
  BY <1>3, HostIsAnnounced
<1>4. CASE EnqueueJob(w) /\ ~ProbesRefused
  BY <1>4, JobIsEnqueued
<1>5. CASE \/ Announce(w) /\ RunReturned
           \/ EnqueueJob(w) /\ ProbesRefused
           \/ DiscoveryExits(w) \/ DiscoveryPanics(w)
  <2>1. ~Gone(disc[w])
    BY <1>5 DEF Announce, EnqueueJob, DiscoveryExits, DiscoveryPanics, Gone, Idle
  <2>2. CASE (Announce(w) /\ RunReturned) \/ (EnqueueJob(w) /\ ProbesRefused)
    BY <2>1, <2>2, DiscoveryWorkerGoes
       DEF Announce, EnqueueJob, ProbesRefused, generatorVars, aggregatorVars
  <2>3. CASE DiscoveryExits(w) \/ DiscoveryPanics(w)
    BY <2>1, <2>3, DiscoveryWorkerGoes
       DEF DiscoveryExits, DiscoveryPanics, TargetsClosed, generatorVars, aggregatorVars
  <2> QED BY <1>5, <2>2, <2>3
<1> QED BY <1>1, <1>2, <1>3, <1>4, <1>5 DEF DiscoveryStep
-----------------------------------------------------------------------------
\* The generator, and what it leaves as it is.
LEMMA GeneratorLeaves ==
  ASSUME PipelineInv, QueuesOK',
         UNCHANGED <<resumedFrom, disc, probeQ, prober, fingerprintQ, fingerprinter, eventQ,
                     hosts, completed, records, cancelled, result, swept>>
  PROVE  /\ Shapes' /\ FromSweep' /\ OnePlace' /\ EnvelopeFirst' /\ JobsInPlace'
         /\ CountsAgree' /\ CompletedAreRecorded'
         /\ (RunReturned' <=> RunReturned) /\ (NoPanics' <=> NoPanics)
         /\ \A g : (IsSwept(g)' <=> IsSwept(g)) /\ (InEvents(g)' <=> InEvents(g))
         /\ \A g : /\ (IsRecorded(g)' <=> IsRecorded(g))
                   /\ (g \in Accumulating' <=> g \in Accumulating)
         /\ \A w \in DiscoveryWorkers : \A g : AtWorker(w, g)' <=> AtWorker(w, g)
<1>1. /\ Shapes /\ QueuesOK /\ OthersOK /\ SweptOnce /\ FromSweep /\ OnePlace
      /\ EnvelopeFirst /\ JobsInPlace /\ CountsAgree /\ CompletedAreRecorded /\ NothingLost
      /\ Exits
  BY DEF PipelineInv
<1>2. /\ (RunReturned' <=> RunReturned) /\ (NoPanics' <=> NoPanics)
      /\ \A g : (IsSwept(g)' <=> IsSwept(g)) /\ (InEvents(g)' <=> InEvents(g))
      /\ \A g : /\ (IsRecorded(g)' <=> IsRecorded(g))
                /\ (g \in Accumulating' <=> g \in Accumulating)
      /\ \A w \in DiscoveryWorkers : \A g : AtWorker(w, g)' <=> AtWorker(w, g)
  BY DEF RunReturned, NoPanics, IsSwept, InEvents, IsRecorded, Accumulating, AtWorker
<1>3. Shapes' /\ EnvelopeFirst' /\ CountsAgree' /\ CompletedAreRecorded'
  BY <1>1 DEF Shapes, EnvelopeFirst, CountsAgree, CompletedAreRecorded
<1>4. FromSweep'
  BY <1>1 DEF FromSweep, Accumulating
<1>5. OnePlace'
  BY <1>1 DEF OnePlace, InEvents, IsRecorded, Accumulating, AtWorker
<1>6. JobsInPlace'
  <2>1. CarriersAdd /\ CarriersAdd'
    BY <1>1, CarriersNow, CarriersNext
  <2>2. ASSUME NEW g \in Hosts, NEW p \in AllPorts
        PROVE  /\ Awaited(g)' = Awaited(g)
               /\ Carriers(g, p) \in Nat /\ Carriers(g, p)' = Carriers(g, p)
    <3>1. InTodo(g, p)' = InTodo(g, p) /\ InTodo(g, p) \in Nat
      BY <2>1 DEF CarriersAdd, InTodo, Todo
    <3>2. /\ Carriers(g, p) \in Nat /\ Carriers(g, p)' \in Nat
          /\ Carriers(g, p)' + InTodo(g, p) = Carriers(g, p) + InTodo(g, p)'
      BY <2>1, TodoCarriers
    <3> QED BY <3>1, <3>2, AwaitedStays
  <2> QED BY <1>1, <1>2, <2>2, JobsStay
<1> QED BY <1>2, <1>3, <1>4, <1>5, <1>6

LEMMA GeneratorChecks == ASSUME PipelineInv, GeneratorCheck PROVE PipelineInv'
<1>1. /\ Shapes /\ QueuesOK /\ OthersOK /\ SweptOnce /\ FromSweep /\ OnePlace
      /\ EnvelopeFirst /\ JobsInPlace /\ CountsAgree /\ CompletedAreRecorded /\ NothingLost
      /\ Exits
  BY DEF PipelineInv
<1>2. /\ genPc = "check" /\ genPos \in 1 .. Len(Targets) + 1 /\ Len(Targets) \in Nat
      /\ UNCHANGED <<resumedFrom, targetQ, disc, probeQ, prober, fingerprintQ, fingerprinter,
                     eventQ, hosts, completed, records, cancelled, result, swept>>
  BY <1>1, PipelineConstants DEF OthersOK, GeneratorCheck, aggregatorVars
<1>3. \/ genPc' = "done" /\ genPos' = genPos /\ (genPos > Len(Targets) \/ cancelled)
      \/ /\ genPc' = "check" /\ genPos' = genPos + 1 /\ ~(genPos > Len(Targets))
         /\ Targets[genPos] \in resumedFrom
      \/ /\ genPc' = "send" /\ genPos' = genPos /\ ~(genPos > Len(Targets))
         /\ Targets[genPos] \notin resumedFrom
  BY <1>2 DEF GeneratorCheck, Skips
<1>4. genPos' \in 1 .. Len(Targets) + 1 /\ genPc' \in {"check", "send", "done"}
  BY <1>2, <1>3
<1>5. QueuesOK' /\ OthersOK'
  BY <1>1, <1>2, <1>4 DEF QueuesOK, OthersOK
<1>6. /\ Shapes' /\ FromSweep' /\ OnePlace' /\ EnvelopeFirst' /\ JobsInPlace'
      /\ CountsAgree' /\ CompletedAreRecorded'
      /\ (RunReturned' <=> RunReturned) /\ (NoPanics' <=> NoPanics)
      /\ \A g : (IsSwept(g)' <=> IsSwept(g)) /\ (InEvents(g)' <=> InEvents(g))
      /\ \A g : /\ (IsRecorded(g)' <=> IsRecorded(g))
                /\ (g \in Accumulating' <=> g \in Accumulating)
      /\ \A w \in DiscoveryWorkers : \A g : AtWorker(w, g)' <=> AtWorker(w, g)
  BY <1>2, <1>5, GeneratorLeaves
<1>7. /\ \A k \in 1 .. genPos' - 1 : k \in 1 .. genPos - 1 \/ Targets[k] \in resumedFrom
      /\ \A k \in 1 .. genPos - 1 : k \in 1 .. genPos' - 1
  BY <1>2, <1>3
<1>8. \A g : (Passed(g)' <=> Passed(g)) /\ (InQueue(g)' <=> InQueue(g))
  BY <1>2, <1>7 DEF Passed, InQueue
<1>9. SweptOnce'
  <2>1. genPc' = "send" => genPos' <= Len(Targets) /\ Targets[genPos'] \notin resumedFrom'
    BY <1>2, <1>3
  <2> QED BY <1>1, <1>2, <1>6, <1>8, <2>1 DEF SweptOnce
<1>10. NothingLost'
  <2> SUFFICES ASSUME ~RunReturned', NoPanics'
               PROVE  /\ \A k \in 1 .. genPos' - 1 :
                           \/ Targets[k] \in resumedFrom' \/ InQueue(Targets[k])'
                           \/ IsSwept(Targets[k])'
                           \/ \E v \in DiscoveryWorkers : AtWorker(v, Targets[k])'
                      /\ \A r \in swept' :
                           \/ \E v \in DiscoveryWorkers : AtWorker(v, r.host)'
                           \/ InEvents(r.host)' \/ r.host \in Accumulating'
                           \/ IsRecorded(r.host)'
    BY DEF NothingLost
  <2>1. /\ \A k \in 1 .. genPos - 1 :
             \/ Targets[k] \in resumedFrom \/ InQueue(Targets[k]) \/ IsSwept(Targets[k])
             \/ \E v \in DiscoveryWorkers : AtWorker(v, Targets[k])
        /\ \A r \in swept :
             \/ \E v \in DiscoveryWorkers : AtWorker(v, r.host)
             \/ InEvents(r.host) \/ r.host \in Accumulating \/ IsRecorded(r.host)
    BY <1>1, <1>6 DEF NothingLost
  <2> QED BY <1>2, <1>6, <1>7, <1>8, <2>1
<1>11. Exits'
  <2>1. \A w \in DiscoveryWorkers : disc[w] = Exited => RunReturned
    BY <1>1, <1>2 DEF Exits
  <2>2. genPc' = "done" => cancelled' \/ genPos' > Len(Targets)
    BY <1>2, <1>3
  <2> QED BY <1>1, <1>2, <1>6, <2>1, <2>2 DEF Exits
<1> QED BY <1>5, <1>6, <1>9, <1>10, <1>11 DEF PipelineInv

LEMMA GeneratorSends == ASSUME PipelineInv, GeneratorSend PROVE PipelineInv'
<1>1. /\ Shapes /\ QueuesOK /\ OthersOK /\ SweptOnce /\ FromSweep /\ OnePlace
      /\ EnvelopeFirst /\ JobsInPlace /\ CountsAgree /\ CompletedAreRecorded /\ NothingLost
      /\ Exits
  BY DEF PipelineInv
<1>2. /\ genPc = "send" /\ genPos \in 1 .. Len(Targets) + 1 /\ Len(Targets) \in Nat
      /\ UNCHANGED <<resumedFrom, disc, probeQ, prober, fingerprintQ, fingerprinter,
                     eventQ, hosts, completed, records, cancelled, result, swept>>
  BY <1>1, PipelineConstants DEF OthersOK, GeneratorSend, aggregatorVars
<1>3. PICK t \in Hosts : t = Targets[genPos]
  BY <1>1, <1>2, PipelineConstants DEF SweptOnce
<1>4. genPos <= Len(Targets) /\ t \notin resumedFrom
  BY <1>1, <1>2, <1>3 DEF SweptOnce
<1>5. CASE /\ HasRoom(targetQ) /\ targetQ' = Append(targetQ, t)
           /\ genPos' = genPos + 1 /\ genPc' = "check"
  <2>1. /\ targetQ' \in Seq(Hosts) /\ Len(targetQ') <= QueueDepth
        /\ Len(targetQ') = Len(targetQ) + 1 /\ targetQ'[Len(targetQ) + 1] = t
        /\ Len(targetQ) \in Nat /\ targetQ \in Seq(Hosts)
        /\ \A i \in 1 .. Len(targetQ) : targetQ'[i] = targetQ[i]
    BY <1>1, <1>5, QueueGrows DEF QueuesOK
  <2>2. /\ \A i \in 1 .. Len(targetQ') : i \in 1 .. Len(targetQ) \/ i = Len(targetQ')
        /\ Len(targetQ') \in 1 .. Len(targetQ')
        /\ \A i \in 1 .. Len(targetQ) : i \in 1 .. Len(targetQ')
    BY <2>1
  <2>3. genPos' \in 1 .. Len(Targets) + 1
    BY <1>2, <1>4, <1>5
  <2>4. QueuesOK' /\ OthersOK'
    BY <1>1, <1>2, <1>5, <2>1, <2>3 DEF QueuesOK, OthersOK
  <2>5. /\ Shapes' /\ FromSweep' /\ OnePlace' /\ EnvelopeFirst' /\ JobsInPlace'
        /\ CountsAgree' /\ CompletedAreRecorded'
        /\ (RunReturned' <=> RunReturned) /\ (NoPanics' <=> NoPanics)
        /\ \A g : (IsSwept(g)' <=> IsSwept(g)) /\ (InEvents(g)' <=> InEvents(g))
        /\ \A g : /\ (IsRecorded(g)' <=> IsRecorded(g))
                  /\ (g \in Accumulating' <=> g \in Accumulating)
        /\ \A w \in DiscoveryWorkers : \A g : AtWorker(w, g)' <=> AtWorker(w, g)
    BY <1>2, <2>4, GeneratorLeaves
  <2>6. /\ \A k \in 1 .. genPos' - 1 : k \in 1 .. genPos - 1 \/ k = genPos
        /\ \A k \in 1 .. genPos - 1 : k \in 1 .. genPos' - 1
        /\ genPos \in 1 .. genPos' - 1 /\ genPos \in 1 .. Len(Targets)
        /\ \A k \in 1 .. genPos - 1 : k \in 1 .. Len(Targets) /\ k # genPos
    BY <1>2, <1>4, <1>5
  <2>7. \A g : Passed(g)' <=> Passed(g) \/ g = t
    BY <1>2, <1>3, <1>4, <2>6 DEF Passed
  <2>8. ~Passed(t)
    BY <1>3, <2>6, PipelineConstants DEF Passed
  <2>9. \A g : InQueue(g)' <=> InQueue(g) \/ g = t
    BY <2>1, <2>2 DEF InQueue
  <2>10. /\ ~InQueue(t) /\ ~IsSwept(t)
         /\ \A w \in DiscoveryWorkers : ~AtWorker(w, t)
    <3>1. ~IsSwept(t)
      BY <1>1, <2>8 DEF SweptOnce, IsSwept
    <3> QED BY <1>1, <2>8, <3>1 DEF SweptOnce
  <2>11. SweptOnce'
    <3>1. \A i, j \in 1 .. Len(targetQ') : targetQ'[i] = targetQ'[j] => i = j
      <4>1. \A i \in 1 .. Len(targetQ) : targetQ[i] # t
        BY <2>10 DEF InQueue
      <4> QED BY <1>1, <2>1, <2>2, <4>1 DEF SweptOnce
    <3>2. \A g \in Hosts : InQueue(g)' => Passed(g)' /\ ~IsSwept(g)'
      BY <1>1, <2>5, <2>7, <2>9, <2>10 DEF SweptOnce
    <3>3. ASSUME NEW w \in DiscoveryWorkers, NEW g \in Hosts, AtWorker(w, g)'
          PROVE  /\ Passed(g)' /\ ~InQueue(g)'
                 /\ disc'[w].pc = "sweeping" => ~IsSwept(g)'
                 /\ \A v \in DiscoveryWorkers : AtWorker(v, g)' => v = w
      <4>1. AtWorker(w, g) /\ g # t
        BY <2>5, <2>10, <3>3
      <4>2. /\ Passed(g) /\ ~InQueue(g) /\ (disc[w].pc = "sweeping" => ~IsSwept(g))
            /\ \A v \in DiscoveryWorkers : AtWorker(v, g) => v = w
        BY <1>1, <4>1 DEF SweptOnce
      <4> QED BY <1>2, <2>5, <2>7, <2>9, <4>1, <4>2
    <3>4. /\ \A o \in swept' : Passed(o.host)'
          /\ \A o, q \in swept' : o.host = q.host => o = q
      BY <1>1, <1>2, <2>7 DEF SweptOnce
    <3> QED BY <1>5, <3>1, <3>2, <3>3, <3>4 DEF SweptOnce
  <2>12. NothingLost'
    <3> SUFFICES ASSUME ~RunReturned', NoPanics'
                 PROVE  /\ \A k \in 1 .. genPos' - 1 :
                             \/ Targets[k] \in resumedFrom' \/ InQueue(Targets[k])'
                             \/ IsSwept(Targets[k])'
                             \/ \E v \in DiscoveryWorkers : AtWorker(v, Targets[k])'
                        /\ \A r \in swept' :
                             \/ \E v \in DiscoveryWorkers : AtWorker(v, r.host)'
                             \/ InEvents(r.host)' \/ r.host \in Accumulating'
                             \/ IsRecorded(r.host)'
      BY DEF NothingLost
    <3>1. /\ \A k \in 1 .. genPos - 1 :
               \/ Targets[k] \in resumedFrom \/ InQueue(Targets[k]) \/ IsSwept(Targets[k])
               \/ \E v \in DiscoveryWorkers : AtWorker(v, Targets[k])
          /\ \A r \in swept :
               \/ \E v \in DiscoveryWorkers : AtWorker(v, r.host)
               \/ InEvents(r.host) \/ r.host \in Accumulating \/ IsRecorded(r.host)
      BY <1>1, <2>5 DEF NothingLost
    <3> QED BY <1>2, <1>3, <2>5, <2>6, <2>9, <3>1
  <2>13. Exits'
    <3>1. \A w \in DiscoveryWorkers : disc[w] = Exited => RunReturned
      BY <1>1, <1>2 DEF Exits
    <3> QED BY <1>1, <1>2, <1>5, <2>5, <3>1 DEF Exits
  <2> QED BY <2>4, <2>5, <2>11, <2>12, <2>13 DEF PipelineInv
<1>6. CASE genPc' = "done" /\ RunReturned /\ targetQ' = targetQ /\ genPos' = genPos
  <2>1. QueuesOK' /\ OthersOK'
    BY <1>1, <1>2, <1>6 DEF QueuesOK, OthersOK
  <2>2. /\ Shapes' /\ FromSweep' /\ OnePlace' /\ EnvelopeFirst' /\ JobsInPlace'
        /\ CountsAgree' /\ CompletedAreRecorded'
        /\ (RunReturned' <=> RunReturned)
        /\ \A g : (IsSwept(g)' <=> IsSwept(g)) /\ (IsRecorded(g)' <=> IsRecorded(g))
        /\ \A w \in DiscoveryWorkers : \A g : AtWorker(w, g)' <=> AtWorker(w, g)
    BY <1>2, <2>1, GeneratorLeaves
  <2>3. SweptOnce'
    <3>1. \A g : (Passed(g)' <=> Passed(g)) /\ (InQueue(g)' <=> InQueue(g))
      BY <1>2, <1>6 DEF Passed, InQueue
    <3> QED BY <1>1, <1>2, <1>6, <2>2, <3>1 DEF SweptOnce
  <2>4. NothingLost' /\ Exits'
    BY <1>1, <1>2, <1>6, <2>2 DEF NothingLost, Exits
  <2> QED BY <2>1, <2>2, <2>3, <2>4 DEF PipelineInv
<1> QED BY <1>3, <1>5, <1>6 DEF GeneratorSend, TargetsRefused
-----------------------------------------------------------------------------
\* The aggregator takes the first event.
LEMMA EventTaken ==
  ASSUME QueuesOK, eventQ # <<>>, eventQ' = Tail(eventQ),
         UNCHANGED <<targetQ, probeQ, fingerprintQ>>
  PROVE  /\ QueuesOK' /\ Head(eventQ) \in Events /\ Head(eventQ) = eventQ[1]
         /\ 1 \in 1 .. Len(eventQ)
         /\ \A i \in 1 .. Len(eventQ') : /\ i + 1 \in 1 .. Len(eventQ) /\ i + 1 # 1
                                         /\ eventQ'[i] = eventQ[i + 1]
         /\ \A i \in 1 .. Len(eventQ) :
              i = 1 \/ (i - 1 \in 1 .. Len(eventQ') /\ eventQ'[i - 1] = eventQ[i])
<1>1. /\ eventQ' \in Seq(Events) /\ Len(eventQ') <= QueueDepth /\ Head(eventQ) \in Events
      /\ Len(eventQ) \in Nat /\ Len(eventQ) >= 1 /\ Len(eventQ') = Len(eventQ) - 1
      /\ Head(eventQ) = eventQ[1]
      /\ \A i \in 1 .. Len(eventQ) - 1 : eventQ'[i] = eventQ[i + 1]
  BY QueueShrinks DEF QueuesOK
<1>2. QueuesOK'
  BY <1>1 DEF QueuesOK
<1>3. \A i \in 1 .. Len(eventQ') : /\ i + 1 \in 1 .. Len(eventQ) /\ i + 1 # 1
                                   /\ eventQ'[i] = eventQ[i + 1]
  BY <1>1
<1>4. ASSUME NEW i \in 1 .. Len(eventQ), i # 1
      PROVE  i - 1 \in 1 .. Len(eventQ') /\ eventQ'[i - 1] = eventQ[i]
  <2>1. i - 1 \in 1 .. Len(eventQ) - 1 /\ (i - 1) + 1 = i
    BY <1>1, <1>4
  <2> QED BY <1>1, <2>1
<1> QED BY <1>1, <1>2, <1>3, <1>4

\* persist_host of a host that had no record.
LEMMA RecordIsAdded ==
  ASSUME Shapes, OthersOK, SweptOnce, FromSweep, OnePlace, CompletedAreRecorded,
         NEW r \in HostResults, ~IsRecorded(r.host), r.length = Cardinality(r.ports),
         [host |-> r.host, open |-> r.ports, complete |-> r.complete] \in swept,
         records' = Append(records, r), UNCHANGED <<resumedFrom, swept>>,
         completed' = IF r.complete THEN completed \cup {r.host} ELSE completed \ {r.host}
  PROVE  /\ records' \in Seq(HostResults) /\ completed' \subseteq Hosts
         /\ \A g : IsRecorded(g)' <=> IsRecorded(g) \/ g = r.host
         /\ \A i, j \in 1 .. Len(records') : records'[i].host = records'[j].host => i = j
         /\ \A i \in 1 .. Len(records') :
              /\ records'[i].length = Cardinality(records'[i].ports)
              /\ [host |-> records'[i].host, open |-> records'[i].ports,
                  complete |-> records'[i].complete] \in swept'
         /\ CompletedAreRecorded'
<1> DEFINE n == Len(records) + 1
           h == r.host
<1>1. h \in Hosts /\ r.complete \in BOOLEAN
  BY DEF HostResults
<1>2. /\ records' \in Seq(HostResults) /\ Len(records') = n /\ records'[n] = r
      /\ Len(records) \in Nat /\ \A i \in 1 .. Len(records) : records'[i] = records[i]
  BY DEF Shapes
<1>3. /\ \A i \in 1 .. n : i \in 1 .. Len(records) \/ i = n
      /\ n \in 1 .. n /\ \A i \in 1 .. Len(records) : i \in 1 .. n
  BY <1>2
<1>4. \A g : IsRecorded(g)' <=> IsRecorded(g) \/ g = h
  BY <1>2, <1>3 DEF IsRecorded
<1>5. \A i \in 1 .. Len(records) : records[i].host # h
  BY DEF IsRecorded
<1>6. \A i, j \in 1 .. n : records'[i].host = records'[j].host => i = j
  <2>1. \A i, j \in 1 .. Len(records) : records[i].host = records[j].host => i = j
    BY DEF OnePlace
  <2> QED BY <1>2, <1>3, <1>5, <2>1
<1>7. ASSUME NEW i \in 1 .. n
      PROVE  /\ records'[i].length = Cardinality(records'[i].ports)
             /\ [host |-> records'[i].host, open |-> records'[i].ports,
                 complete |-> records'[i].complete] \in swept
  <2>1. \A k \in 1 .. Len(records) :
          /\ records[k].length = Cardinality(records[k].ports)
          /\ [host |-> records[k].host, open |-> records[k].ports,
              complete |-> records[k].complete] \in swept
    BY DEF FromSweep
  <2>2. CASE i = n
    BY <1>2, <2>2
  <2>3. CASE i \in 1 .. Len(records)
    BY <1>2, <2>1, <2>3
  <2> QED BY <1>3, <2>2, <2>3
<1>8. h \notin resumedFrom
  BY DEF SweptOnce, Passed
<1>9. CompletedAreRecorded' /\ completed' \subseteq Hosts
  <2> DEFINE C == {g \in Hosts : \E i \in 1 .. Len(records) :
                                   records[i].host = g /\ records[i].complete}
             D == {g \in Hosts : \E i \in 1 .. n :
                                   records'[i].host = g /\ records'[i].complete}
  <2>1. completed = resumedFrom \cup C /\ completed \subseteq Hosts
    BY DEF CompletedAreRecorded, OthersOK
  <2>2. D = IF r.complete THEN C \cup {h} ELSE C
    BY <1>1, <1>2, <1>3
  <2>3. h \notin C
    BY <1>5
  <2> HIDE DEF C, D
  <2>4. completed' = resumedFrom' \cup D /\ completed' \subseteq Hosts
    BY <1>1, <1>8, <2>1, <2>2, <2>3
  <2> QED BY <1>2, <2>4 DEF CompletedAreRecorded, D
<1> QED BY <1>2, <1>4, <1>6, <1>7, <1>9

\* What a host's entry lacks.
Pending(h) == hosts[h].open \ hosts[h].ports

\* A step of the aggregator keeps the invariant: it takes an event of host h, and h has an
\* entry after it, or a record, or the run has failed.
LEMMA AggregatorKeeps ==
  ASSUME PipelineInv, ~RunReturned, eventQ # <<>>, eventQ' = Tail(eventQ),
         UNCHANGED <<resumedFrom, genPc, genPos, targetQ, disc, probeQ, prober, fingerprintQ,
                     fingerprinter, cancelled, swept>>,
         NEW h \in Hosts, InEvents(h) \/ h \in Accumulating,
         hosts' \in [Hosts -> Accumulators], \A g \in Hosts : g # h => hosts'[g] = hosts[g],
         hosts'[h].ports \subseteq hosts'[h].open,
         hosts'[h].count = Cardinality(hosts'[h].ports),
         hosts'[h].open # {} =>
           [host |-> h, open |-> hosts'[h].open, complete |-> hosts'[h].complete] \in swept,
         \A g : InEvents(g)' <=> InEvents(g) /\ g # h,
         \/ hosts'[h].open # {} /\ UNCHANGED <<records, completed, result>>
         \/ /\ hosts'[h].open = {} /\ result' = result
            /\ \E r \in HostResults :
                 /\ r.host = h /\ r.length = Cardinality(r.ports)
                 /\ [host |-> r.host, open |-> r.ports, complete |-> r.complete] \in swept
                 /\ records' = Append(records, r)
                 /\ completed' = IF r.complete THEN completed \cup {r.host}
                                               ELSE completed \ {r.host}
         \/ /\ hosts'[h].open = {} /\ result' = "failed"
            /\ UNCHANGED <<records, completed>>,
         EnvelopeFirst', JobsInPlace'
  PROVE  PipelineInv'
<1>1. /\ Shapes /\ QueuesOK /\ OthersOK /\ SweptOnce /\ FromSweep /\ OnePlace
      /\ EnvelopeFirst /\ JobsInPlace /\ CountsAgree /\ CompletedAreRecorded /\ NothingLost
      /\ Exits
  BY DEF PipelineInv
<1>2. /\ QueuesOK' /\ 1 \in 1 .. Len(eventQ)
      /\ \A i \in 1 .. Len(eventQ') : /\ i + 1 \in 1 .. Len(eventQ)
                                      /\ eventQ'[i] = eventQ[i + 1] /\ i \in Nat
  BY <1>1, EventTaken
<1>3. result = "running" /\ (result' = result \/ result' = "failed")
  BY DEF RunReturned
<1>4. /\ ~IsRecorded(h) /\ IsSwept(h)
      /\ \A v \in DiscoveryWorkers : ~AtWorker(v, h)
  BY <1>1, OnlySwept DEF OnePlace
<1>5. /\ records' \in Seq(HostResults) /\ completed' \subseteq Hosts
      /\ \A g : IsRecorded(g)' =>
           IsRecorded(g) \/ (g = h /\ hosts'[h].open = {})
      /\ \A g : IsRecorded(g) => IsRecorded(g)'
      /\ \/ IsRecorded(h)' \/ hosts'[h].open # {} \/ result' = "failed"
      /\ \A i, j \in 1 .. Len(records') : records'[i].host = records'[j].host => i = j
      /\ \A i \in 1 .. Len(records') :
           /\ records'[i].length = Cardinality(records'[i].ports)
           /\ [host |-> records'[i].host, open |-> records'[i].ports,
               complete |-> records'[i].complete] \in swept'
      /\ CompletedAreRecorded'
  <2>1. CASE UNCHANGED <<records, completed>> /\ (hosts'[h].open # {} \/ result' = "failed")
    <3>1. (\A g : IsRecorded(g)' <=> IsRecorded(g)) /\ CompletedAreRecorded'
      BY <1>1, <2>1 DEF IsRecorded, CompletedAreRecorded
    <3>2. /\ \A i, j \in 1 .. Len(records) : records[i].host = records[j].host => i = j
          /\ \A i \in 1 .. Len(records) :
               /\ records[i].length = Cardinality(records[i].ports)
               /\ [host |-> records[i].host, open |-> records[i].ports,
                   complete |-> records[i].complete] \in swept
          /\ records \in Seq(HostResults) /\ completed \subseteq Hosts
      BY <1>1 DEF OnePlace, FromSweep, Shapes, OthersOK
    <3> QED BY <2>1, <3>1, <3>2
  <2>2. ASSUME NEW r \in HostResults,
               /\ r.host = h /\ r.length = Cardinality(r.ports) /\ hosts'[h].open = {}
               /\ [host |-> r.host, open |-> r.ports, complete |-> r.complete] \in swept
               /\ records' = Append(records, r)
               /\ completed' = IF r.complete THEN completed \cup {r.host}
                                             ELSE completed \ {r.host}
        PROVE  /\ records' \in Seq(HostResults) /\ completed' \subseteq Hosts
               /\ \A g : IsRecorded(g)' =>
                    IsRecorded(g) \/ (g = h /\ hosts'[h].open = {})
               /\ \A g : IsRecorded(g) => IsRecorded(g)'
               /\ \/ IsRecorded(h)' \/ hosts'[h].open # {} \/ result' = "failed"
               /\ \A i, j \in 1 .. Len(records') : records'[i].host = records'[j].host => i = j
               /\ \A i \in 1 .. Len(records') :
                    /\ records'[i].length = Cardinality(records'[i].ports)
                    /\ [host |-> records'[i].host, open |-> records'[i].ports,
                        complete |-> records'[i].complete] \in swept'
               /\ CompletedAreRecorded'
    <3>1. ~IsRecorded(r.host)
      BY <1>4, <2>2
    <3>2. /\ records' \in Seq(HostResults) /\ completed' \subseteq Hosts
          /\ \A g : IsRecorded(g)' <=> IsRecorded(g) \/ g = r.host
          /\ \A i, j \in 1 .. Len(records') : records'[i].host = records'[j].host => i = j
          /\ \A i \in 1 .. Len(records') :
               /\ records'[i].length = Cardinality(records'[i].ports)
               /\ [host |-> records'[i].host, open |-> records'[i].ports,
                   complete |-> records'[i].complete] \in swept'
          /\ CompletedAreRecorded'
      BY <1>1, <2>2, <3>1, RecordIsAdded
    <3> QED BY <2>2, <3>2
  <2> QED BY <2>1, <2>2
<1>6. \A g \in Hosts : g \in Accumulating' <=>
        IF g = h THEN hosts'[h].open # {} ELSE g \in Accumulating
  BY DEF Accumulating
<1>7. Shapes' /\ OthersOK'
  <2>1. \A g \in Hosts : hosts'[g].ports \subseteq hosts'[g].open
    BY <1>1 DEF OthersOK
  <2> QED BY <1>1, <1>3, <1>5, <2>1 DEF Shapes, OthersOK
<1>8. /\ \A g : (Passed(g)' <=> Passed(g)) /\ (InQueue(g)' <=> InQueue(g))
      /\ \A g : (IsSwept(g)' <=> IsSwept(g)) /\ (NoPanics' <=> NoPanics)
      /\ \A v \in DiscoveryWorkers : \A g : AtWorker(v, g)' <=> AtWorker(v, g)
  BY DEF Passed, InQueue, IsSwept, NoPanics, AtWorker
<1>9. SweptOnce'
  BY <1>1, <1>8 DEF SweptOnce
<1>10. FromSweep'
  <2>1. \A i \in 1 .. Len(eventQ') : eventQ'[i].type = "started" =>
          [host |-> eventQ'[i].host, open |-> eventQ'[i].open,
           complete |-> eventQ'[i].complete] \in swept
    BY <1>1, <1>2 DEF FromSweep
  <2>2. \A g \in Accumulating' :
          [host |-> g, open |-> hosts'[g].open, complete |-> hosts'[g].complete] \in swept
    <3>1. Accumulating' \subseteq Hosts
      BY DEF Accumulating
    <3>2. \A g \in Accumulating :
            [host |-> g, open |-> hosts[g].open, complete |-> hosts[g].complete] \in swept
      BY <1>1 DEF FromSweep
    <3> QED BY <1>6, <3>1, <3>2
  <2>3. \A v \in DiscoveryWorkers : disc[v].pc = "announcing" =>
          [host |-> disc[v].host, open |-> disc[v].outcome.open,
           complete |-> disc[v].outcome.complete] \in swept
    BY <1>1 DEF FromSweep
  <2> QED BY <1>5, <2>1, <2>2, <2>3 DEF FromSweep
<1>11. OnePlace'
  <2>1. ASSUME NEW i \in 1 .. Len(eventQ'), NEW j \in 1 .. Len(eventQ'),
               eventQ'[i].type = "started", eventQ'[j].type = "started",
               eventQ'[i].host = eventQ'[j].host
        PROVE  i = j
    <3>1. i + 1 = j + 1
      BY <1>1, <1>2, <2>1 DEF OnePlace
    <3> QED BY <1>2, <3>1
  <2>2. \A v \in DiscoveryWorkers, g \in Hosts :
          AtWorker(v, g)' => ~InEvents(g)' /\ g \notin Accumulating' /\ ~IsRecorded(g)'
    <3>1. \A v \in DiscoveryWorkers, g \in Hosts :
            AtWorker(v, g) => ~InEvents(g) /\ g \notin Accumulating /\ ~IsRecorded(g)
      BY <1>1 DEF OnePlace
    <3> QED BY <1>4, <1>5, <1>6, <1>8, <3>1
  <2>3. \A g \in Hosts : InEvents(g)' => g \notin Accumulating' /\ ~IsRecorded(g)'
    <3>1. \A g \in Hosts : InEvents(g) => g \notin Accumulating /\ ~IsRecorded(g)
      BY <1>1 DEF OnePlace
    <3> QED BY <1>5, <1>6, <3>1
  <2>4. \A g \in Accumulating' : ~IsRecorded(g)'
    <3>1. \A g \in Accumulating : ~IsRecorded(g)
      BY <1>1 DEF OnePlace
    <3>2. Accumulating' \subseteq Hosts
      BY DEF Accumulating
    <3> QED BY <1>4, <1>5, <1>6, <3>1, <3>2
  <2> QED BY <1>5, <2>1, <2>2, <2>3, <2>4 DEF OnePlace
<1>12. CountsAgree'
  BY <1>1 DEF CountsAgree
<1>13. NothingLost'
  <2> SUFFICES ASSUME ~RunReturned', NoPanics'
               PROVE  /\ \A k \in 1 .. genPos' - 1 :
                           \/ Targets[k] \in resumedFrom' \/ InQueue(Targets[k])'
                           \/ IsSwept(Targets[k])'
                           \/ \E v \in DiscoveryWorkers : AtWorker(v, Targets[k])'
                      /\ \A o \in swept' :
                           \/ \E v \in DiscoveryWorkers : AtWorker(v, o.host)'
                           \/ InEvents(o.host)' \/ o.host \in Accumulating'
                           \/ IsRecorded(o.host)'
    BY DEF NothingLost
  <2>1. /\ \A k \in 1 .. genPos - 1 :
             \/ Targets[k] \in resumedFrom \/ InQueue(Targets[k]) \/ IsSwept(Targets[k])
             \/ \E v \in DiscoveryWorkers : AtWorker(v, Targets[k])
        /\ \A o \in swept :
             \/ \E v \in DiscoveryWorkers : AtWorker(v, o.host)
             \/ InEvents(o.host) \/ o.host \in Accumulating \/ IsRecorded(o.host)
    BY <1>1, <1>8 DEF NothingLost
  <2>2. \A o \in swept : o.host \in Hosts
    BY <1>1 DEF Shapes, Sweeps
  <2>3. result' # "failed"
    BY DEF RunReturned
  <2>4. ASSUME NEW o \in swept
        PROVE  \/ \E v \in DiscoveryWorkers : AtWorker(v, o.host)'
               \/ InEvents(o.host)' \/ o.host \in Accumulating' \/ IsRecorded(o.host)'
    <3>1. CASE o.host = h
      BY <1>5, <1>6, <2>3, <3>1
    <3>2. CASE o.host # h
      BY <1>5, <1>6, <1>8, <2>1, <2>2, <3>2
    <3> QED BY <3>1, <3>2
  <2> QED BY <1>8, <2>1, <2>4
<1>14. Exits'
  <2>1. ~RunReturned' => result' = "running"
    BY DEF RunReturned
  <2> QED BY <1>1, <1>3 DEF Exits
<1> QED BY <1>2, <1>5, <1>7, <1>9, <1>10, <1>11, <1>12, <1>13, <1>14 DEF PipelineInv
LEMMA EnvelopeIsReceived == ASSUME PipelineInv, ReceiveEnvelope PROVE PipelineInv'
<1>1. /\ Shapes /\ QueuesOK /\ OthersOK /\ SweptOnce /\ FromSweep /\ OnePlace
      /\ EnvelopeFirst /\ JobsInPlace /\ CountsAgree /\ CompletedAreRecorded /\ NothingLost
      /\ Exits
  BY DEF PipelineInv
<1>2. /\ ~RunReturned /\ eventQ # <<>> /\ Head(eventQ).type = "started"
      /\ eventQ' = Tail(eventQ)
      /\ UNCHANGED <<resumedFrom, genPc, genPos, targetQ, disc, probeQ, prober, fingerprintQ,
                     fingerprinter, cancelled, swept>>
  BY DEF ReceiveEnvelope, generatorVars
<1>3. /\ QueuesOK' /\ Head(eventQ) \in Events /\ Head(eventQ) = eventQ[1]
      /\ 1 \in 1 .. Len(eventQ)
      /\ \A i \in 1 .. Len(eventQ') : /\ i + 1 \in 1 .. Len(eventQ) /\ i + 1 # 1
                                      /\ eventQ'[i] = eventQ[i + 1]
      /\ \A i \in 1 .. Len(eventQ) :
           i = 1 \/ (i - 1 \in 1 .. Len(eventQ') /\ eventQ'[i - 1] = eventQ[i])
  BY <1>1, <1>2, EventTaken
<1>4. PICK h \in Hosts, S \in SUBSET AllPorts, b \in BOOLEAN :
        h = Head(eventQ).host /\ S = Head(eventQ).open /\ b = Head(eventQ).complete
  BY <1>2, <1>3, EventIs
<1>5. /\ eventQ[1].type = "started" /\ eventQ[1].host = h /\ eventQ[1].open = S
      /\ eventQ[1].complete = b
  BY <1>2, <1>3, <1>4
<1> DEFINE acc == [open |-> S, complete |-> b, ports |-> {}, count |-> 0]
<1>6. /\ acc \in Accumulators /\ acc.open = S /\ acc.ports = {} /\ acc.count = 0
      /\ acc.complete = b /\ Cardinality({}) = 0
  BY FS_EmptySet DEF Accumulators
<1>7. /\ S = {} => Persist(h, acc) /\ hosts' = hosts
      /\ S # {} => /\ hosts' = [hosts EXCEPT ![h] = acc]
                   /\ UNCHANGED <<completed, records, result>>
  BY <1>4 DEF ReceiveEnvelope
<1>8. InEvents(h) /\ h \notin Accumulating /\ hosts[h].open = {}
  <2>1. InEvents(h)
    BY <1>3, <1>5 DEF InEvents
  <2> QED BY <1>1, <2>1 DEF OnePlace, Accumulating
<1>9. [host |-> h, open |-> S, complete |-> b] \in swept
  BY <1>1, <1>3, <1>5 DEF FromSweep
<1> HIDE DEF acc
<1>10. /\ hosts' \in [Hosts -> Accumulators] /\ \A g \in Hosts : g # h => hosts'[g] = hosts[g]
       /\ hosts'[h].open = S /\ hosts'[h].ports = {}
       /\ S # {} => hosts'[h].complete = b
  <2>1. CASE S = {}
    BY <1>1, <1>7, <1>8, <2>1 DEF Shapes, OthersOK
  <2>2. CASE S # {}
    BY <1>1, <1>6, <1>7, <2>2 DEF Shapes
  <2> QED BY <2>1, <2>2
<1>11. hosts'[h].count = Cardinality(hosts'[h].ports)
  <2>1. CASE S = {}
    BY <1>1, <1>7, <2>1 DEF CountsAgree
  <2>2. CASE S # {}
    BY <1>1, <1>6, <1>7, <1>10, <2>2 DEF Shapes
  <2> QED BY <2>1, <2>2
<1>12. \A i \in 1 .. Len(eventQ) : eventQ[i].type = "started" /\ eventQ[i].host = h => i = 1
  BY <1>1, <1>3, <1>5 DEF OnePlace
<1>13. \A g : InEvents(g)' <=> InEvents(g) /\ g # h
  <2>1. ASSUME NEW g, InEvents(g)' PROVE InEvents(g) /\ g # h
    BY <1>3, <1>12, <2>1 DEF InEvents
  <2>2. ASSUME NEW g, InEvents(g), g # h PROVE InEvents(g)'
    <3>1. PICK i \in 1 .. Len(eventQ) : eventQ[i].type = "started" /\ eventQ[i].host = g
      BY <2>2 DEF InEvents
    <3>2. i # 1
      BY <1>5, <2>2, <3>1
    <3> QED BY <1>3, <3>1, <3>2 DEF InEvents
  <2> QED BY <2>1, <2>2
<1>14. \A g \in Hosts : Awaited(g)' = Awaited(g)
  <2>1. Awaited(h) = S
    BY <1>3, <1>5, <1>8, <1>12 DEF Awaited
  <2>2. Awaited(h)' = S
    <3>1. \A i \in 1 .. Len(eventQ') : ~(eventQ'[i].type = "started" /\ eventQ'[i].host = h)
      BY <1>3, <1>12
    <3> QED BY <1>10, <3>1 DEF Awaited
  <2>3. ASSUME NEW g \in Hosts, g # h PROVE Awaited(g)' = Awaited(g)
    <3>1. \A p : (\E i \in 1 .. Len(eventQ') :
                    eventQ'[i].type = "started" /\ eventQ'[i].host = g /\ p \in eventQ'[i].open)
                 => \E i \in 1 .. Len(eventQ) :
                      eventQ[i].type = "started" /\ eventQ[i].host = g /\ p \in eventQ[i].open
      BY <1>3
    <3>2. \A p : (\E i \in 1 .. Len(eventQ) :
                    eventQ[i].type = "started" /\ eventQ[i].host = g /\ p \in eventQ[i].open)
                 => \E i \in 1 .. Len(eventQ') :
                      eventQ'[i].type = "started" /\ eventQ'[i].host = g /\ p \in eventQ'[i].open
      <4>1. ASSUME NEW p, NEW i \in 1 .. Len(eventQ),
                   eventQ[i].type = "started" /\ eventQ[i].host = g /\ p \in eventQ[i].open
            PROVE  \E k \in 1 .. Len(eventQ') : /\ eventQ'[k].type = "started"
                                                /\ eventQ'[k].host = g /\ p \in eventQ'[k].open
        <5>1. i # 1
          BY <1>5, <2>3, <4>1
        <5> QED BY <1>3, <4>1, <5>1
      <4> QED BY <4>1
    <3>3. hosts'[g] = hosts[g]
      BY <1>10, <2>3
    <3> QED BY <3>1, <3>2, <3>3 DEF Awaited
  <2> QED BY <2>1, <2>2, <2>3
<1>15. EnvelopeFirst'
  <2>1. ASSUME NEW i \in 1 .. Len(eventQ'), eventQ'[i].type = "service"
        PROVE  \/ eventQ'[i].port
                    \in hosts'[eventQ'[i].host].open \ hosts'[eventQ'[i].host].ports
               \/ \E k \in 1 .. i - 1 :
                    /\ eventQ'[k].type = "started" /\ eventQ'[k].host = eventQ'[i].host
                    /\ eventQ'[i].port \in eventQ'[k].open
    <3>1. /\ i + 1 \in DOMAIN eventQ /\ eventQ'[i] = eventQ[i + 1] /\ i \in Nat
          /\ eventQ[i + 1].type = "service" /\ eventQ[i + 1] \in Events
      <4>1. /\ eventQ \in Seq(Events) /\ i + 1 \in 1 .. Len(eventQ)
            /\ eventQ'[i] = eventQ[i + 1]
        BY <1>1, <1>3 DEF QueuesOK
      <4>2. i + 1 \in DOMAIN eventQ /\ eventQ[i + 1] \in Events
        BY <4>1
      <4> QED BY <2>1, <4>1, <4>2
    <3>2. eventQ'[i].host \in Hosts
      BY <3>1, EventIs
    <3>3. CASE eventQ'[i].port \in hosts[eventQ'[i].host].open \ hosts[eventQ'[i].host].ports
      <4>1. eventQ'[i].host # h
        BY <1>8, <3>3
      <4> QED BY <1>10, <3>2, <3>3, <4>1
    <3>4. ASSUME NEW k \in 1 .. (i + 1) - 1,
                 /\ eventQ[k].type = "started" /\ eventQ[k].host = eventQ'[i].host
                 /\ eventQ'[i].port \in eventQ[k].open
          PROVE  \/ eventQ'[i].port
                      \in hosts'[eventQ'[i].host].open \ hosts'[eventQ'[i].host].ports
                 \/ \E m \in 1 .. i - 1 :
                      /\ eventQ'[m].type = "started" /\ eventQ'[m].host = eventQ'[i].host
                      /\ eventQ'[i].port \in eventQ'[m].open
      <4>1. CASE k = 1
        BY <1>5, <1>10, <3>4, <4>1
      <4>2. CASE k # 1
        <5>1. k \in 1 .. Len(eventQ) /\ k - 1 \in 1 .. i - 1
          BY <1>1, <3>1, <4>2 DEF QueuesOK
        <5>2. eventQ'[k - 1] = eventQ[k]
          BY <1>3, <4>2, <5>1
        <5> QED BY <3>4, <5>1, <5>2
      <4> QED BY <4>1, <4>2
    <3> QED BY <1>1, <3>1, <3>3, <3>4 DEF EnvelopeFirst
  <2>2. DOMAIN eventQ' = 1 .. Len(eventQ')
    BY <1>3 DEF QueuesOK
  <2> QED BY <2>1, <2>2 DEF EnvelopeFirst
<1>16. JobsInPlace'
  <2>1. CarriersAdd /\ CarriersAdd'
    BY <1>1, <1>3, CarriersNow, CarriersNext
  <2>2. NoPanics' <=> NoPanics
    BY <1>2 DEF NoPanics
  <2>3. ASSUME NEW g \in Hosts, NEW p \in AllPorts
        PROVE  /\ Awaited(g)' = Awaited(g)
               /\ Carriers(g, p) \in Nat /\ Carriers(g, p)' = Carriers(g, p)
    <3>1. SentUp(g, p)' = SentUp(g, p)
      <4>1. SentUp(g, p) = SentUp(g, p)' + IF Head(eventQ) = Service(Job(g, p)) THEN 1 ELSE 0
        BY <1>1, <1>2, HowManyLeft DEF SentUp, QueuesOK
      <4>2. Head(eventQ) # Service(Job(g, p))
        BY <1>2 DEF Service
      <4>3. SentUp(g, p)' \in Nat
        BY <2>1 DEF CarriersAdd
      <4> QED BY <4>1, <4>2, <4>3
    <3>2. /\ InProbeQ(g, p)' = InProbeQ(g, p) /\ InFingerprintQ(g, p)' = InFingerprintQ(g, p)
          /\ InTodo(g, p)' = InTodo(g, p)
          /\ Probed(g, p)' = Probed(g, p) /\ Enriched(g, p)' = Enriched(g, p)
      BY <1>2 DEF InProbeQ, InFingerprintQ, InTodo, Todo, Probed, Enriched
    <3> QED BY <1>14, <2>1, <3>1, <3>2 DEF CarriersAdd
  <2> QED BY <1>1, <1>2, <2>2, <2>3, JobsStay
<1>17. \/ hosts'[h].open # {} /\ UNCHANGED <<records, completed, result>>
       \/ /\ hosts'[h].open = {} /\ result' = result
          /\ \E r \in HostResults :
               /\ r.host = h /\ r.length = Cardinality(r.ports)
               /\ [host |-> r.host, open |-> r.ports, complete |-> r.complete] \in swept
               /\ records' = Append(records, r)
               /\ completed' = IF r.complete THEN completed \cup {r.host}
                                             ELSE completed \ {r.host}
       \/ /\ hosts'[h].open = {} /\ result' = "failed"
          /\ UNCHANGED <<records, completed>>
  <2>1. CASE S # {}
    BY <1>7, <1>10, <2>1
  <2>2. CASE S = {}
    <3> DEFINE r == [host |-> h, ports |-> {}, length |-> 0, complete |-> b]
    <3>1. /\ r \in HostResults /\ r.host = h /\ r.ports = {} /\ r.complete = b
          /\ r.length = Cardinality(r.ports)
      BY <1>6 DEF HostResults
    <3>2. \/ /\ result' = result /\ records' = Append(records, r)
             /\ completed' = IF r.complete THEN completed \cup {r.host}
                                           ELSE completed \ {r.host}
          \/ result' = "failed" /\ UNCHANGED <<records, completed>>
      BY <1>6, <1>7, <2>2 DEF Persist
    <3>3. [host |-> r.host, open |-> r.ports, complete |-> r.complete] \in swept
      BY <1>9, <2>2, <3>1
    <3> HIDE DEF r
    <3> QED BY <1>10, <2>2, <3>1, <3>2, <3>3
  <2> QED BY <2>1, <2>2
<1>18. hosts'[h].open # {} =>
         [host |-> h, open |-> hosts'[h].open, complete |-> hosts'[h].complete] \in swept
  BY <1>9, <1>10
<1>19. hosts'[h].ports \subseteq hosts'[h].open
  BY <1>10
<1> HIDE DEF PipelineInv
<1> QED BY <1>2, <1>8, <1>10, <1>11, <1>13, <1>15, <1>16, <1>17, <1>18, <1>19, AggregatorKeeps
\* The service of an awaited port: the host has an entry, and this is its last carrier.
LEMMA ServiceIsReceived == ASSUME PipelineInv, ReceiveService PROVE PipelineInv'
<1>1. /\ Shapes /\ QueuesOK /\ OthersOK /\ SweptOnce /\ FromSweep /\ OnePlace
      /\ EnvelopeFirst /\ JobsInPlace /\ CountsAgree /\ CompletedAreRecorded /\ NothingLost
      /\ Exits
  BY DEF PipelineInv
<1>2. /\ ~RunReturned /\ eventQ # <<>> /\ Head(eventQ).type = "service"
      /\ eventQ' = Tail(eventQ)
      /\ UNCHANGED <<resumedFrom, genPc, genPos, targetQ, disc, probeQ, prober, fingerprintQ,
                     fingerprinter, cancelled, swept>>
  BY DEF ReceiveService, generatorVars
<1>3. /\ QueuesOK' /\ Head(eventQ) \in Events /\ Head(eventQ) = eventQ[1]
      /\ 1 \in 1 .. Len(eventQ)
      /\ \A i \in 1 .. Len(eventQ') : /\ i + 1 \in 1 .. Len(eventQ) /\ i + 1 # 1
                                      /\ eventQ'[i] = eventQ[i + 1]
      /\ \A i \in 1 .. Len(eventQ) :
           i = 1 \/ (i - 1 \in 1 .. Len(eventQ') /\ eventQ'[i - 1] = eventQ[i])
  BY <1>1, <1>2, EventTaken
<1>4. PICK h \in Hosts, p \in AllPorts :
        h = Head(eventQ).host /\ p = Head(eventQ).port /\ Head(eventQ) = Service(Job(h, p))
  BY <1>2, <1>3, EventIs
<1>5. eventQ[1].type = "service" /\ eventQ[1].host = h /\ eventQ[1].port = p
  BY <1>2, <1>3, <1>4
<1>6. PICK S \in SUBSET AllPorts, b \in BOOLEAN, R \in SUBSET AllPorts, c \in Nat :
        hosts[h] = [open |-> S, complete |-> b, ports |-> R, count |-> c]
  BY <1>1 DEF Shapes, Accumulators
<1>7. R \subseteq S /\ c = Cardinality(R)
  BY <1>1, <1>6 DEF OthersOK, CountsAgree
<1>8. p \in S /\ p \notin R
  <2>1. 1 \in DOMAIN eventQ
    BY <1>1, <1>3 DEF QueuesOK
  <2>2. p \in hosts[h].open \ hosts[h].ports
    BY <1>1, <1>5, <2>1 DEF EnvelopeFirst
  <2> QED BY <1>6, <2>2
<1>9. /\ h \in Accumulating /\ ~InEvents(h)
      /\ [host |-> h, open |-> S, complete |-> b] \in swept
  <2>1. h \in Accumulating
    BY <1>6, <1>8 DEF Accumulating
  <2> QED BY <1>1, <1>6, <2>1 DEF FromSweep, OnePlace
<1> DEFINE T == R \cup {p}
           acc == [hosts[h] EXCEPT !.ports = @ \cup {p}, !.count = @ + 1]
<1>10. /\ T \in SUBSET S /\ IsFiniteSet(S) /\ IsFiniteSet(T) /\ Cardinality(T) = c + 1
       /\ (Cardinality(T) = Cardinality(S) => T = S)
  <2>1. T \in SUBSET S /\ IsFiniteSet(S) /\ IsFiniteSet(R)
    BY <1>7, <1>8, Ports
  <2>2. Cardinality(T) = c + 1
    BY <1>7, <1>8, <2>1, FS_AddElement
  <2> QED BY <2>1, <2>2, FS_Subset
<1>11. /\ acc \in Accumulators /\ acc.open = S /\ acc.complete = b /\ acc.ports = T
       /\ acc.count = c + 1
  <2>1. T \in SUBSET AllPorts /\ hosts[h] \in Accumulators
    BY <1>1, <1>10 DEF Shapes
  <2>2. acc.open = S /\ acc.complete = b /\ acc.ports = T /\ acc.count = c + 1
    BY <1>6
  <2>3. acc \in Accumulators
    <3>1. ASSUME NEW x \in Accumulators, NEW U \in SUBSET AllPorts, NEW k \in Nat
          PROVE  [x EXCEPT !.ports = U, !.count = k] \in Accumulators
      BY DEF Accumulators
    <3>2. hosts[h].ports \cup {p} = T /\ hosts[h].count + 1 = c + 1 /\ c + 1 \in Nat
      BY <1>6
    <3> HIDE DEF T
    <3> QED BY <2>1, <3>1, <3>2
  <2> QED BY <2>2, <2>3
<1> HIDE DEF acc, T
<1>12. IF T = S
         THEN hosts' = [hosts EXCEPT ![h] = NoEntry] /\ Persist(h, acc)
         ELSE hosts' = [hosts EXCEPT ![h] = acc] /\ UNCHANGED <<completed, records, result>>
  <2>1. HasAllServices(acc) <=> T = S
    BY <1>10, <1>11 DEF HasAllServices
  <2>2. IF HasAllServices(acc)
          THEN hosts' = [hosts EXCEPT ![h] = NoEntry] /\ Persist(h, acc)
          ELSE hosts' = [hosts EXCEPT ![h] = acc] /\ UNCHANGED <<completed, records, result>>
    BY <1>4, <1>9 DEF ReceiveService, acc
  <2> QED BY <2>1, <2>2
<1>13. /\ hosts' \in [Hosts -> Accumulators] /\ \A g \in Hosts : g # h => hosts'[g] = hosts[g]
       /\ hosts'[h] = IF T = S THEN NoEntry ELSE acc
  <2>1. NoEntry \in Accumulators
    BY DEF NoEntry, Accumulators
  <2> QED BY <1>1, <1>11, <1>12, <2>1 DEF Shapes
<1>14. /\ hosts'[h].open = IF T = S THEN {} ELSE S
       /\ hosts'[h].ports = IF T = S THEN {} ELSE T
       /\ T # S => hosts'[h].complete = b
       /\ hosts'[h].count = Cardinality(hosts'[h].ports)
  <2>1. CASE T = S
    BY <1>13, <2>1, FS_EmptySet DEF NoEntry
  <2>2. CASE T # S
    BY <1>10, <1>11, <1>13, <2>2
  <2> QED BY <2>1, <2>2
<1>15. hosts'[h].open \ hosts'[h].ports = (hosts[h].open \ hosts[h].ports) \ {p}
  <2>1. CASE T = S
    BY <1>6, <1>14, <2>1 DEF T
  <2>2. CASE T # S
    BY <1>6, <1>14, <2>2 DEF T
  <2> QED BY <2>1, <2>2
<1>16. \A g : InEvents(g)' <=> InEvents(g) /\ g # h
  <2>1. ASSUME NEW g, InEvents(g)' PROVE InEvents(g) /\ g # h
    <3>1. InEvents(g)
      BY <1>3, <2>1 DEF InEvents
    <3> QED BY <1>9, <3>1
  <2>2. ASSUME NEW g, InEvents(g), g # h PROVE InEvents(g)'
    <3>1. PICK i \in 1 .. Len(eventQ) : eventQ[i].type = "started" /\ eventQ[i].host = g
      BY <2>2 DEF InEvents
    <3>2. i # 1
      BY <1>5, <3>1
    <3> QED BY <1>3, <3>1, <3>2 DEF InEvents
  <2> QED BY <2>1, <2>2
<1>17. \A g \in Hosts : Awaited(g)' = IF g = h THEN Awaited(g) \ {p} ELSE Awaited(g)
  <2>1. ASSUME NEW g \in Hosts, NEW q
        PROVE  (\E i \in 1 .. Len(eventQ') :
                  eventQ'[i].type = "started" /\ eventQ'[i].host = g /\ q \in eventQ'[i].open)
               <=> \E i \in 1 .. Len(eventQ) :
                     eventQ[i].type = "started" /\ eventQ[i].host = g /\ q \in eventQ[i].open
    <3>1. ASSUME NEW i \in 1 .. Len(eventQ),
                 eventQ[i].type = "started" /\ eventQ[i].host = g /\ q \in eventQ[i].open
          PROVE  \E k \in 1 .. Len(eventQ') : /\ eventQ'[k].type = "started"
                                              /\ eventQ'[k].host = g /\ q \in eventQ'[k].open
      <4>1. i # 1
        BY <1>5, <3>1
      <4> QED BY <1>3, <3>1, <4>1
    <3> QED BY <1>3, <3>1
  <2>2. ASSUME NEW g \in Hosts, g # h PROVE Awaited(g)' = Awaited(g)
    <3>1. hosts'[g] = hosts[g]
      BY <1>13, <2>2
    <3>2. \A q : (\E i \in 1 .. Len(eventQ') :
                    eventQ'[i].type = "started" /\ eventQ'[i].host = g /\ q \in eventQ'[i].open)
                 <=> \E i \in 1 .. Len(eventQ) :
                       eventQ[i].type = "started" /\ eventQ[i].host = g /\ q \in eventQ[i].open
      BY <2>1
    <3> HIDE DEF PipelineInv
    <3> QED BY <3>1, <3>2 DEF Awaited
  <2>3. Awaited(h)' = Awaited(h) \ {p}
    <3>1. ~\E i \in 1 .. Len(eventQ) : eventQ[i].type = "started" /\ eventQ[i].host = h
      BY <1>9 DEF InEvents
    <3>2. Awaited(h) = hosts[h].open \ hosts[h].ports
      BY <3>1 DEF Awaited
    <3>3. ~\E i \in 1 .. Len(eventQ') : eventQ'[i].type = "started" /\ eventQ'[i].host = h
      BY <1>16 DEF InEvents
    <3>4. Awaited(h)' = hosts'[h].open \ hosts'[h].ports
      BY <3>3 DEF Awaited
    <3> QED BY <1>15, <3>2, <3>4
  <2> QED BY <2>2, <2>3
<1>18. CarriersAdd /\ CarriersAdd'
  BY <1>1, <1>3, CarriersNow, CarriersNext
<1>19. ASSUME NEW g \in Hosts, NEW q \in AllPorts
       PROVE  /\ SentUp(g, q) = SentUp(g, q)' + IF g = h /\ q = p THEN 1 ELSE 0
              /\ Carriers(g, q) = Carriers(g, q)' + IF g = h /\ q = p THEN 1 ELSE 0
              /\ Carriers(g, q) \in Nat /\ Carriers(g, q)' \in Nat
  <2>1. SentUp(g, q) = SentUp(g, q)' + IF Head(eventQ) = Service(Job(g, q)) THEN 1 ELSE 0
    BY <1>1, <1>2, HowManyLeft DEF SentUp, QueuesOK
  <2>2. Head(eventQ) = Service(Job(g, q)) <=> g = h /\ q = p
    BY <1>4 DEF Service, Job
  <2>3. /\ InProbeQ(g, q)' = InProbeQ(g, q) /\ InFingerprintQ(g, q)' = InFingerprintQ(g, q)
        /\ InTodo(g, q)' = InTodo(g, q)
        /\ Probed(g, q)' = Probed(g, q) /\ Enriched(g, q)' = Enriched(g, q)
    BY <1>2 DEF InProbeQ, InFingerprintQ, InTodo, Todo, Probed, Enriched
  <2>4. SentUp(g, q) = SentUp(g, q)' + IF g = h /\ q = p THEN 1 ELSE 0
    BY <2>1, <2>2
  <2>5. SentUp(g, q)' \in Nat
    BY <1>18 DEF CarriersAdd
  <2> QED BY <1>18, <2>3, <2>4, <2>5 DEF CarriersAdd
<1>20. JobsInPlace'
  <2>1. ASSUME NEW g \in Hosts, NEW q \in AllPorts
        PROVE  /\ Carriers(g, q)' <= IF q \in Awaited(g)' THEN 1 ELSE 0
               /\ ~RunReturned' /\ NoPanics' =>
                    Carriers(g, q)' = IF q \in Awaited(g)' THEN 1 ELSE 0
    <3>1. /\ Carriers(g, q) <= IF q \in Awaited(g) THEN 1 ELSE 0
          /\ ~RunReturned /\ NoPanics => Carriers(g, q) = IF q \in Awaited(g) THEN 1 ELSE 0
      BY <1>1 DEF JobsInPlace
    <3>2. NoPanics' <=> NoPanics
      BY <1>2 DEF NoPanics
    <3>3. CASE g = h /\ q = p
      <4>1. q \notin Awaited(g)'
        BY <1>17, <3>3
      <4>2. Carriers(g, q)' = 0
        BY <1>19, <3>1, <3>3
      <4> QED BY <4>1, <4>2
    <3>4. CASE ~(g = h /\ q = p)
      <4>1. q \in Awaited(g)' <=> q \in Awaited(g)
        BY <1>17, <3>4
      <4>2. Carriers(g, q)' = Carriers(g, q)
        BY <1>19, <3>4
      <4> QED BY <1>2, <3>1, <3>2, <4>1, <4>2
    <3> QED BY <3>3, <3>4
  <2> QED BY <2>1 DEF JobsInPlace
<1>21. EnvelopeFirst'
  <2>1. \A i, j \in 1 .. Len(eventQ) :
          eventQ[i] = Service(Job(h, p)) /\ eventQ[j] = Service(Job(h, p)) => i = j
    <3>1. Carriers(h, p) <= 1
      BY <1>1, <1>18 DEF JobsInPlace, CarriersAdd
    <3>2. SentUp(h, p) <= 1
      BY <1>18, <3>1 DEF CarriersAdd
    <3> QED BY <1>1, <3>2, HowManyType DEF SentUp, QueuesOK
  <2>2. ASSUME NEW i \in 1 .. Len(eventQ'), eventQ'[i].type = "service"
        PROVE  \/ eventQ'[i].port
                    \in hosts'[eventQ'[i].host].open \ hosts'[eventQ'[i].host].ports
               \/ \E k \in 1 .. i - 1 :
                    /\ eventQ'[k].type = "started" /\ eventQ'[k].host = eventQ'[i].host
                    /\ eventQ'[i].port \in eventQ'[k].open
    <3>1. /\ i + 1 \in DOMAIN eventQ /\ eventQ'[i] = eventQ[i + 1] /\ i \in Nat
          /\ eventQ[i + 1].type = "service" /\ eventQ[i + 1] \in Events
          /\ i + 1 \in 1 .. Len(eventQ)
      <4>1. /\ eventQ \in Seq(Events) /\ i + 1 \in 1 .. Len(eventQ)
            /\ eventQ'[i] = eventQ[i + 1]
        BY <1>1, <1>3 DEF QueuesOK
      <4>2. i + 1 \in DOMAIN eventQ /\ eventQ[i + 1] \in Events
        BY <4>1
      <4> QED BY <2>2, <4>1, <4>2
    <3>2. PICK g \in Hosts, q \in AllPorts :
            g = eventQ'[i].host /\ q = eventQ'[i].port /\ eventQ[i + 1] = Service(Job(g, q))
      BY <3>1, EventIs
    <3>3. CASE q \in hosts[g].open \ hosts[g].ports
      <4>1. ~(g = h /\ q = p)
        <5>1. i + 1 # 1 /\ eventQ[1] = Service(Job(h, p))
          BY <1>3, <1>4
        <5> QED BY <1>3, <2>1, <3>1, <3>2, <5>1
      <4>2. q \in hosts'[g].open \ hosts'[g].ports
        BY <1>13, <1>15, <3>3, <4>1
      <4> QED BY <3>2, <4>2
    <3>4. ASSUME NEW k \in 1 .. (i + 1) - 1,
                 eventQ[k].type = "started" /\ eventQ[k].host = g /\ q \in eventQ[k].open
          PROVE  \E m \in 1 .. i - 1 :
                   eventQ'[m].type = "started" /\ eventQ'[m].host = g /\ q \in eventQ'[m].open
      <4>1. k # 1
        BY <1>5, <3>4
      <4>2. k \in 1 .. Len(eventQ) /\ k - 1 \in 1 .. i - 1
        BY <1>1, <3>1, <4>1 DEF QueuesOK
      <4>3. eventQ'[k - 1] = eventQ[k]
        BY <1>3, <4>1, <4>2
      <4> QED BY <3>4, <4>2, <4>3
    <3>5. \/ q \in hosts[g].open \ hosts[g].ports
          \/ \E k \in 1 .. (i + 1) - 1 :
               eventQ[k].type = "started" /\ eventQ[k].host = g /\ q \in eventQ[k].open
      BY <1>1, <3>1, <3>2 DEF EnvelopeFirst
    <3> QED BY <3>2, <3>3, <3>4, <3>5
  <2>3. DOMAIN eventQ' = 1 .. Len(eventQ')
    BY <1>3 DEF QueuesOK
  <2> QED BY <2>2, <2>3 DEF EnvelopeFirst
<1>22. \/ hosts'[h].open # {} /\ UNCHANGED <<records, completed, result>>
       \/ /\ hosts'[h].open = {} /\ result' = result
          /\ \E r \in HostResults :
               /\ r.host = h /\ r.length = Cardinality(r.ports)
               /\ [host |-> r.host, open |-> r.ports, complete |-> r.complete] \in swept
               /\ records' = Append(records, r)
               /\ completed' = IF r.complete THEN completed \cup {r.host}
                                             ELSE completed \ {r.host}
       \/ /\ hosts'[h].open = {} /\ result' = "failed"
          /\ UNCHANGED <<records, completed>>
  <2>1. CASE T # S
    BY <1>8, <1>12, <1>14, <2>1
  <2>2. CASE T = S
    <3> DEFINE r == [host |-> h, ports |-> T, length |-> c + 1, complete |-> b]
    <3>1. /\ r \in HostResults /\ r.host = h /\ r.ports = S /\ r.complete = b
          /\ r.length = Cardinality(r.ports)
      BY <1>10, <2>2 DEF HostResults
    <3>2. \/ /\ result' = result /\ records' = Append(records, r)
             /\ completed' = IF r.complete THEN completed \cup {r.host}
                                           ELSE completed \ {r.host}
          \/ result' = "failed" /\ UNCHANGED <<records, completed>>
      BY <1>11, <1>12, <2>2 DEF Persist
    <3>3. [host |-> r.host, open |-> r.ports, complete |-> r.complete] \in swept
      BY <1>9, <3>1
    <3> HIDE DEF r
    <3> QED BY <1>14, <2>2, <3>1, <3>2, <3>3
  <2> QED BY <2>1, <2>2
<1>23. /\ hosts'[h].ports \subseteq hosts'[h].open
       /\ hosts'[h].open # {} =>
            [host |-> h, open |-> hosts'[h].open, complete |-> hosts'[h].complete] \in swept
  BY <1>9, <1>10, <1>14
<1> HIDE DEF PipelineInv
<1> QED BY <1>2, <1>9, <1>13, <1>14, <1>16, <1>20, <1>21, <1>22, <1>23, AggregatorKeeps
-----------------------------------------------------------------------------
\* A cancel, the end of the run, and a step that changes nothing.
LEMMA EndKeeps ==
  ASSUME PipelineInv,
         UNCHANGED <<resumedFrom, genPc, genPos, targetQ, disc, probeQ, prober, fingerprintQ,
                     fingerprinter, eventQ, hosts, completed, records, swept>>,
         cancelled' \in BOOLEAN, cancelled => cancelled',
         result' \in {"running", "ok", "failed"}, RunReturned => result' = result,
         result' = "ok" /\ result # "ok" =>
           /\ \A w \in DiscoveryWorkers : Gone(disc[w])
           /\ \A o \in swept : IsRecorded(o.host)
  PROVE  PipelineInv'
<1>1. /\ Shapes /\ QueuesOK /\ OthersOK /\ SweptOnce /\ FromSweep /\ OnePlace
      /\ EnvelopeFirst /\ JobsInPlace /\ CountsAgree /\ CompletedAreRecorded /\ NothingLost
      /\ Exits
  BY DEF PipelineInv
<1>2. Shapes' /\ QueuesOK' /\ OthersOK'
  BY <1>1 DEF Shapes, QueuesOK, OthersOK
<1>3. SweptOnce'
  BY <1>1 DEF SweptOnce, InQueue, AtWorker, IsSwept, Passed
<1>4. FromSweep' /\ CountsAgree' /\ CompletedAreRecorded' /\ EnvelopeFirst'
  BY <1>1 DEF FromSweep, CountsAgree, CompletedAreRecorded, EnvelopeFirst, Accumulating
<1>5. OnePlace'
  BY <1>1 DEF OnePlace, AtWorker, InEvents, IsRecorded, Accumulating
<1>6. ~RunReturned' => ~RunReturned
  BY DEF RunReturned
<1>7. NothingLost'
  BY <1>1, <1>6 DEF NothingLost, AtWorker, InQueue, IsSwept, InEvents, IsRecorded,
                    Accumulating, NoPanics
<1>8. JobsInPlace'
  <2>1. NoPanics' <=> NoPanics
    BY DEF NoPanics
  <2>2. CarriersAdd /\ CarriersAdd'
    BY <1>1, <1>2, CarriersNow, CarriersNext
  <2>3. ASSUME NEW h \in Hosts, NEW p \in AllPorts
        PROVE  /\ Awaited(h)' = Awaited(h)
               /\ Carriers(h, p) \in Nat /\ Carriers(h, p)' = Carriers(h, p)
    <3>1. InTodo(h, p)' = InTodo(h, p) /\ InTodo(h, p) \in Nat
      BY <2>2 DEF CarriersAdd, InTodo, Todo
    <3>2. /\ Carriers(h, p) \in Nat /\ Carriers(h, p)' \in Nat
          /\ Carriers(h, p)' + InTodo(h, p) = Carriers(h, p) + InTodo(h, p)'
      BY <2>2, TodoCarriers
    <3> QED BY <3>1, <3>2, AwaitedStays
  <2> QED BY <1>1, <1>6, <2>1, <2>3, JobsStay
<1>9. Exits'
  <2>1. /\ \A w \in DiscoveryWorkers :
             disc[w] = Exited /\ ~RunReturned' => targetQ = <<>> /\ genPc = "done"
        /\ genPc = "done" /\ ~RunReturned' => cancelled' \/ genPos > Len(Targets)
    BY <1>1, <1>6 DEF Exits
  <2>2. result' = "ok" => /\ \A w \in DiscoveryWorkers : Gone(disc[w])
                          /\ \A o \in swept : IsRecorded(o.host)
    BY <1>1 DEF Exits
  <2>3. \A g : IsRecorded(g)' <=> IsRecorded(g)
    BY DEF IsRecorded
  <2> QED BY <2>1, <2>2, <2>3 DEF Exits
<1> QED BY <1>2, <1>3, <1>4, <1>5, <1>7, <1>8, <1>9 DEF PipelineInv

\* A run that ends well with no panic and no entry left has recorded all it has swept.
LEMMA CleanEnd ==
  ASSUME PipelineInv, JoinTasks, result' = "ok"
  PROVE  /\ \A w \in DiscoveryWorkers : Gone(disc[w])
         /\ \A o \in swept : IsRecorded(o.host)
         /\ \A k \in 1 .. genPos - 1 :
              Targets[k] \in resumedFrom \/ IsSwept(Targets[k])
         /\ cancelled \/ genPos > Len(Targets)
<1>1. QueuesOK /\ NothingLost /\ Exits
  BY DEF PipelineInv
<1>2. ~RunReturned /\ eventQ = <<>> /\ EventsClosed /\ genPc = "done" /\ JoinsCleanly
  BY DEF JoinTasks
<1>3. \A w \in DiscoveryWorkers : Gone(disc[w])
  BY <1>2 DEF EventsClosed, ProbesClosed
<1>4. NoPanics /\ Accumulating = {}
  BY <1>2, PanicsAreCounted DEF JoinsCleanly
<1>5. \A w \in DiscoveryWorkers : \A h : ~AtWorker(w, h)
  BY <1>3 DEF Gone, AtWorker
<1>6. \A h : ~InEvents(h)
  <2>1. 1 .. Len(eventQ) = {}
    BY <1>2
  <2> QED BY <2>1 DEF InEvents
<1>7. targetQ = <<>>
  <2>1. PICK w \in DiscoveryWorkers : TRUE
    BY PipelineConstants
  <2>2. disc[w] = Exited
    <3>1. disc[w] \in DiscoveryStates
      BY DEF PipelineInv, Shapes
    <3>2. disc[w] # Panicked
      BY <1>4 DEF NoPanics
    <3> QED BY <1>3, <3>1, <3>2, DiscoveryState DEF Gone
  <2> QED BY <1>1, <1>2, <2>2 DEF Exits
<1>8. \A h : ~InQueue(h)
  <2>1. 1 .. Len(targetQ) = {}
    BY <1>7
  <2> QED BY <2>1 DEF InQueue
<1>9. \A o \in swept : IsRecorded(o.host)
  BY <1>1, <1>2, <1>4, <1>5, <1>6 DEF NothingLost
<1>10. \A k \in 1 .. genPos - 1 : Targets[k] \in resumedFrom \/ IsSwept(Targets[k])
  BY <1>1, <1>2, <1>4, <1>5, <1>8 DEF NothingLost
<1> QED BY <1>1, <1>2, <1>3, <1>9, <1>10 DEF Exits

LEMMA StepPipeline == PipelineInv /\ [Next]_vars => PipelineInv'
<1> SUFFICES ASSUME PipelineInv, [Next]_vars PROVE PipelineInv'
  OBVIOUS
<1>1. OthersOK /\ Exits
  BY DEF PipelineInv
<1>2. CASE GeneratorCheck \/ GeneratorSend
  BY <1>2, GeneratorChecks, GeneratorSends
<1>3. ASSUME NEW w \in DiscoveryWorkers, DiscoveryStep(w) \/ DiscoveryPanics(w)
      PROVE  PipelineInv'
  BY <1>3, DiscoveryStepsKeep
<1>4. ASSUME NEW w \in ProbeWorkers, ProberStep(w) \/ ProberPanics(w) PROVE PipelineInv'
  BY <1>4, ProberStepsKeep
<1>5. ASSUME NEW w \in FingerprintWorkers, FingerprinterStep(w) \/ FingerprinterPanics(w)
      PROVE  PipelineInv'
  BY <1>5, FingerprinterStepsKeep
<1>6. CASE ReceiveEnvelope \/ ReceiveService
  BY <1>6, EnvelopeIsReceived, ServiceIsReceived
<1>7. CASE JoinTasks
  <2>1. /\ ~RunReturned /\ (result' = "ok" \/ result' = "failed")
        /\ UNCHANGED <<resumedFrom, genPc, genPos, targetQ, disc, probeQ, prober,
                       fingerprintQ, fingerprinter, eventQ, hosts, completed, records,
                       cancelled, swept>>
    BY <1>7 DEF JoinTasks, generatorVars
  <2>2. result' = "ok" => /\ \A w \in DiscoveryWorkers : Gone(disc[w])
                          /\ \A o \in swept : IsRecorded(o.host)
    BY <1>7, CleanEnd
  <2> QED BY <1>1, <2>1, <2>2, EndKeeps DEF OthersOK
<1>8. CASE Cancel
  <2>1. /\ cancelled' = TRUE /\ result' = result
        /\ UNCHANGED <<resumedFrom, genPc, genPos, targetQ, disc, probeQ, prober,
                       fingerprintQ, fingerprinter, eventQ, hosts, completed, records,
                       swept>>
    BY <1>8 DEF Cancel, generatorVars, aggregatorVars
  <2> QED BY <1>1, <2>1, EndKeeps DEF OthersOK
<1>9. CASE UNCHANGED vars
  BY <1>1, <1>9, EndKeeps DEF OthersOK, vars
<1> QED BY <1>2, <1>3, <1>4, <1>5, <1>6, <1>7, <1>8, <1>9 DEF Next, TaskStep, Terminated, Hangs

-----------------------------------------------------------------------------
\* The invariant holds in every run of the pipeline.
THEOREM PipelineInvariant == Spec => []PipelineInv
  BY InitPipeline, StepPipeline, PTL DEF Spec

\* Type correctness, and no channel ever holds more than its capacity.
THEOREM PipelineTypeOK == Spec => []TypeOK
<1>1. PipelineInv => TypeOK
  <2> SUFFICES ASSUME PipelineInv PROVE TypeOK
    OBVIOUS
  <2>1. Shapes /\ QueuesOK /\ OthersOK
    BY DEF PipelineInv
  <2>2. eventQ \in Seq({Started(h, o) : h \in Hosts, o \in Outcome}
                         \cup {Service(j) : j \in Jobs})
    BY <2>1 DEF QueuesOK, Events
  <2>3. /\ \A w \in DiscoveryWorkers : disc[w] \in DiscoveryStates
        /\ \A w \in ProbeWorkers : prober[w] \in ProberStates
        /\ \A w \in FingerprintWorkers : fingerprinter[w] \in FingerprinterStates
        /\ \A h \in Hosts : hosts[h].count \in Nat
    BY <2>1 DEF Shapes, Accumulators
  <2>4. \A q \in {targetQ, probeQ, fingerprintQ, eventQ} : Len(q) <= QueueDepth
    BY <2>1 DEF QueuesOK
  <2>5. \A w \in DiscoveryWorkers :
          disc[w] \in {Idle, Exited, Panicked}
            \cup [pc : {"sweeping"}, host : Hosts, late : BOOLEAN]
            \cup [pc : {"announcing"}, host : Hosts, outcome : Outcome]
            \cup [pc : {"enqueuing"}, host : Hosts,
                  todo : SUBSET UNION {ScanPorts(h) : h \in Hosts}]
    BY <2>3, Zenon DEF DiscoveryStates, AllPorts
  <2>6. /\ \A w \in ProbeWorkers :
             prober[w] \in {Idle, Exited, Panicked} \cup [pc : {"probing"}, job : Jobs]
        /\ \A w \in FingerprintWorkers :
             fingerprinter[w] \in {Idle, Exited, Panicked}
                                    \cup [pc : {"enriching"}, job : Jobs]
    BY <2>3, Zenon DEF ProberStates, FingerprinterStates
  <2> QED BY <2>1, <2>2, <2>3, <2>4, <2>5, <2>6 DEF TypeOK, QueuesOK, OthersOK
<1> QED BY <1>1, PipelineInvariant, PTL

\* The aggregator never meets a service whose host envelope it has not had.
THEOREM EnvelopesComeFirst == Spec => []EnvelopeFirst
<1>1. PipelineInv => EnvelopeFirst
  BY DEF PipelineInv
<1> QED BY <1>1, PipelineInvariant, PTL

\* Without a panic, every open port of a host under aggregation is in exactly one place.
THEOREM JobsAreConserved == Spec => []JobsConserved
<1>1. PipelineInv => JobsConserved
  <2> SUFFICES ASSUME PipelineInv, ~RunReturned, Panics = 0, NEW h \in Accumulating
               PROVE  /\ hosts[h].count = Cardinality(hosts[h].ports)
                      /\ \A p \in hosts[h].open :
                           Carriers(h, p) = IF p \in hosts[h].ports THEN 0 ELSE 1
    BY DEF JobsConserved
  <2>1. Shapes /\ OnePlace /\ JobsInPlace /\ CountsAgree /\ NoPanics
    BY PanicsAreCounted DEF PipelineInv
  <2>2. h \in Hosts /\ hosts[h].open \in SUBSET AllPorts
    BY <2>1 DEF Accumulating, Shapes, Accumulators
  <2>3. Awaited(h) = hosts[h].open \ hosts[h].ports
    <3>1. ~InEvents(h)
      BY <2>1, <2>2 DEF OnePlace
    <3> QED BY <3>1 DEF Awaited, InEvents
  <2>4. \A p \in AllPorts : Carriers(h, p) = IF p \in Awaited(h) THEN 1 ELSE 0
    BY <2>1, <2>2 DEF JobsInPlace
  <2> QED BY <2>1, <2>2, <2>3, <2>4 DEF CountsAgree
<1> QED BY <1>1, PipelineInvariant, PTL

\* A record is the outcome of one sweep of its host.
THEOREM RecordsFaithful == Spec => []RecordsAreFaithful
<1>1. PipelineInv => RecordsAreFaithful
  <2> SUFFICES ASSUME PipelineInv, NEW i \in DOMAIN records
               PROVE  /\ records[i].length = Cardinality(records[i].ports)
                      /\ [host |-> records[i].host, open |-> records[i].ports,
                          complete |-> records[i].complete] \in swept
                      /\ \A o \in swept : o.host = records[i].host => o.open = records[i].ports
    BY DEF RecordsAreFaithful
  <2>1. Shapes /\ FromSweep /\ SweptOnce
    BY DEF PipelineInv
  <2>2. i \in 1 .. Len(records)
    BY <2>1 DEF Shapes
  <2>3. /\ records[i].length = Cardinality(records[i].ports)
        /\ [host |-> records[i].host, open |-> records[i].ports,
            complete |-> records[i].complete] \in swept
    BY <2>1, <2>2 DEF FromSweep
  <2>4. \A o, q \in swept : o.host = q.host => o = q
    BY <2>1 DEF SweptOnce
  <2> QED BY <2>3, <2>4
<1> QED BY <1>1, PipelineInvariant, PTL

\* A run that ends well has recorded every host it swept, and completed_hosts has gained
\* exactly those whose sweep was complete.
THEOREM AcceptedAreRecorded == Spec => []AcceptedHostsAreRecorded
<1>1. PipelineInv => AcceptedHostsAreRecorded
  <2> SUFFICES ASSUME PipelineInv, result = "ok"
               PROVE  /\ \A o \in swept : \E i \in DOMAIN records : records[i].host = o.host
                      /\ completed = resumedFrom \cup
                           {o.host : o \in {s \in swept : s.complete}}
    BY DEF AcceptedHostsAreRecorded
  <2>1. Shapes /\ FromSweep /\ SweptOnce /\ CompletedAreRecorded /\ Exits
    BY DEF PipelineInv
  <2>2. DOMAIN records = 1 .. Len(records) /\ \A o \in swept : o.host \in Hosts
    BY <2>1 DEF Shapes, Sweeps
  <2>3. \A o \in swept : \E i \in 1 .. Len(records) : records[i].host = o.host
    BY <2>1 DEF Exits, IsRecorded
  <2>4. \A i \in 1 .. Len(records), o \in swept : records[i].host = o.host =>
          o.complete = records[i].complete
    <3>1. ASSUME NEW i \in 1 .. Len(records), NEW o \in swept, records[i].host = o.host
          PROVE  o.complete = records[i].complete
      <4>1. [host |-> records[i].host, open |-> records[i].ports,
             complete |-> records[i].complete] \in swept
        BY <2>1 DEF FromSweep
      <4>2. o = [host |-> records[i].host, open |-> records[i].ports,
                 complete |-> records[i].complete]
        BY <2>1, <3>1, <4>1 DEF SweptOnce
      <4> QED BY <4>2
    <3> QED BY <3>1
  <2>5. \A i \in 1 .. Len(records) : \E o \in swept : o.host = records[i].host
    BY <2>1 DEF FromSweep
  <2>6. {h \in Hosts : \E i \in 1 .. Len(records) :
                         records[i].host = h /\ records[i].complete}
          = {o.host : o \in {s \in swept : s.complete}}
    <3>1. ASSUME NEW h \in Hosts, NEW i \in 1 .. Len(records),
                 records[i].host = h /\ records[i].complete
          PROVE  \E o \in swept : o.complete /\ h = o.host
      BY <2>4, <2>5, <3>1
    <3>2. ASSUME NEW o \in swept, o.complete
          PROVE  /\ o.host \in Hosts
                 /\ \E i \in 1 .. Len(records) :
                      records[i].host = o.host /\ records[i].complete
      BY <2>2, <2>3, <2>4, <3>2
    <3> HIDE DEF PipelineInv
    <3> QED BY <3>1, <3>2
  <2> QED BY <2>1, <2>2, <2>3, <2>6 DEF CompletedAreRecorded
<1> QED BY <1>1, PipelineInvariant, PTL
-----------------------------------------------------------------------------
\* What ScanContract sees of a record.
Seen(r) == [host |-> r.host, complete |-> r.complete]
SeenOf(s) == [i \in DOMAIN s |-> Seen(s[i])]

LEMMA ContractSees ==
  /\ Contract!vars = <<resumedFrom, SeenOf(records), cancelled, result>>
  /\ Contract!Recorded = {SeenOf(records)[i].host : i \in DOMAIN SeenOf(records)}
  BY DEF Contract!vars, Contract!Recorded, SeenOf, Seen

LEMMA SeenAppended ==
  ASSUME NEW S, NEW s \in Seq(S), NEW r \in S
  PROVE  SeenOf(Append(s, r)) = Append(SeenOf(s), Seen(r))
<1> DEFINE n == Len(s) + 1
           longer == Append(s, r)
           t == SeenOf(s)
<1>1. /\ DOMAIN s = 1 .. Len(s) /\ Len(s) \in Nat /\ DOMAIN longer = 1 .. n
      /\ longer[n] = r /\ \A i \in 1 .. Len(s) : longer[i] = s[i]
  OBVIOUS
<1>2. t \in Seq({Seen(s[i]) : i \in 1 .. Len(s)}) /\ Len(t) = Len(s)
      /\ \A i \in 1 .. Len(s) : t[i] = Seen(s[i])
  BY <1>1 DEF SeenOf
<1> HIDE DEF t, longer
<1>3. Append(t, Seen(r)) = [i \in 1 .. n |-> IF i = n THEN Seen(r) ELSE t[i]]
  <2> DEFINE U == {Seen(s[i]) : i \in 1 .. Len(s)} \cup {Seen(r)}
             u == Append(t, Seen(r))
  <2>1. t \in Seq(U) /\ Seen(r) \in U
    BY <1>2
  <2> HIDE DEF U
  <2>2. /\ u \in Seq(U) /\ Len(u) = n /\ u[n] = Seen(r)
        /\ \A i \in 1 .. Len(s) : u[i] = t[i]
    BY <1>1, <1>2, <2>1
  <2> HIDE DEF u
  <2>3. u = [i \in 1 .. n |-> u[i]]
    BY <2>2
  <2>4. \A i \in 1 .. n : u[i] = IF i = n THEN Seen(r) ELSE t[i]
    <3>1. \A i \in 1 .. n : i = n \/ i \in 1 .. Len(s)
      BY <1>1
    <3> QED BY <2>2, <3>1
  <2> QED BY <2>3, <2>4 DEF u
<1>4. SeenOf(longer) = [i \in 1 .. n |-> Seen(longer[i])]
  BY <1>1 DEF SeenOf
<1>5. \A i \in 1 .. n : Seen(longer[i]) = IF i = n THEN Seen(r) ELSE t[i]
  <2>1. \A i \in 1 .. n : i = n \/ i \in 1 .. Len(s)
    BY <1>1
  <2> QED BY <1>1, <1>2, <2>1
<1> QED BY <1>3, <1>4, <1>5 DEF longer, t

LEMMA RecordedAre ==
  ASSUME records \in Seq(HostResults)
  PROVE  \A h : h \in Contract!Recorded <=> IsRecorded(h)
<1>1. DOMAIN records = 1 .. Len(records)
  OBVIOUS
<1>2. \A i \in 1 .. Len(records) : SeenOf(records)[i].host = records[i].host
  BY <1>1 DEF SeenOf, Seen
<1>3. DOMAIN SeenOf(records) = 1 .. Len(records)
  BY <1>1 DEF SeenOf
<1>4. Contract!Recorded = {SeenOf(records)[i].host : i \in 1 .. Len(records)}
  BY <1>3, ContractSees
<1> QED BY <1>2, <1>4 DEF IsRecorded

\* persist_host is Record, or the end of the run.
LEMMA PersistKeepsContract ==
  ASSUME PipelineInv, ~RunReturned, UNCHANGED <<resumedFrom, cancelled>>, NEW h \in Hosts,
         InEvents(h) \/ h \in Accumulating, NEW acc \in Accumulators, Persist(h, acc)
  PROVE  Contract!Next
<1>1. Shapes /\ SweptOnce /\ FromSweep /\ OnePlace
  BY DEF PipelineInv
<1>2. ~IsRecorded(h) /\ h \notin resumedFrom /\ result = "running"
  <2>1. ~IsRecorded(h) /\ IsSwept(h)
    BY <1>1, OnlySwept DEF OnePlace
  <2> QED BY <1>1, <2>1 DEF SweptOnce, IsSwept, Passed, RunReturned
<1>3. CASE result' = "failed" /\ UNCHANGED records
  BY <1>2, <1>3 DEF Contract!Next, Contract!Fail
<1> DEFINE r == [host |-> h, ports |-> acc.ports, length |-> acc.count,
                 complete |-> acc.complete]
<1>4. r \in HostResults /\ Seen(r) = [host |-> h, complete |-> acc.complete]
      /\ acc.complete \in BOOLEAN
  BY DEF HostResults, Accumulators, Seen
<1> HIDE DEF r
<1>5. CASE records' = Append(records, r) /\ UNCHANGED result
  <2>1. SeenOf(records)' = Append(SeenOf(records), [host |-> h, complete |-> acc.complete])
    BY <1>1, <1>4, <1>5, SeenAppended DEF Shapes
  <2>2. h \notin resumedFrom \cup Contract!Recorded
    BY <1>1, <1>2, RecordedAre DEF Shapes
  <2>3. Contract!Record(h, acc.complete)
    BY <1>2, <1>5, <2>1, <2>2 DEF Contract!Record, SeenOf, Seen
  <2> QED BY <1>4, <2>3 DEF Contract!Next
<1> QED BY <1>3, <1>5 DEF Persist, r

LEMMA EnvelopeKeepsContract ==
  ASSUME PipelineInv, ReceiveEnvelope PROVE [Contract!Next]_(Contract!vars)
<1>1. Shapes /\ QueuesOK /\ ~RunReturned /\ eventQ # <<>>
      /\ UNCHANGED <<resumedFrom, cancelled>>
  BY DEF PipelineInv, ReceiveEnvelope, generatorVars
<1>2. /\ Head(eventQ) \in Events /\ Head(eventQ) = eventQ[1] /\ 1 \in 1 .. Len(eventQ)
      /\ Head(eventQ).type = "started"
  BY <1>1, QueueShrinks DEF QueuesOK, ReceiveEnvelope
<1> DEFINE e == Head(eventQ)
           acc == [open |-> e.open, complete |-> e.complete, ports |-> {}, count |-> 0]
<1>3. e.host \in Hosts /\ e.open \in SUBSET AllPorts /\ e.complete \in BOOLEAN
  BY <1>2, EventIs
<1>4. acc \in Accumulators
  BY <1>3 DEF Accumulators
<1>5. InEvents(e.host)
  BY <1>2 DEF InEvents
<1>6. Persist(e.host, acc) \/ UNCHANGED <<records, result>>
  BY DEF ReceiveEnvelope
<1> HIDE DEF acc, e
<1>7. CASE Persist(e.host, acc)
  BY <1>1, <1>3, <1>4, <1>5, <1>7, PersistKeepsContract
<1>8. CASE UNCHANGED <<records, result>>
  BY <1>1, <1>8 DEF Contract!vars
<1> QED BY <1>6, <1>7, <1>8

LEMMA ServiceKeepsContract ==
  ASSUME PipelineInv, ReceiveService PROVE [Contract!Next]_(Contract!vars)
<1>1. Shapes /\ QueuesOK /\ ~RunReturned /\ eventQ # <<>>
      /\ UNCHANGED <<resumedFrom, cancelled>>
  BY DEF PipelineInv, ReceiveService, generatorVars
<1>2. Head(eventQ) \in Events /\ Head(eventQ).type = "service"
  BY <1>1, QueueShrinks DEF QueuesOK, ReceiveService
<1> DEFINE e == Head(eventQ)
           acc == [hosts[e.host] EXCEPT !.ports = @ \cup {e.port}, !.count = @ + 1]
<1>3. e.host \in Hosts /\ e.port \in AllPorts
  BY <1>2, EventIs
<1>4. acc \in Accumulators
  <2>1. ASSUME NEW x \in Accumulators, NEW U \in SUBSET AllPorts, NEW k \in Nat
        PROVE  [x EXCEPT !.ports = U, !.count = k] \in Accumulators
    BY DEF Accumulators
  <2>2. hosts[e.host] \in Accumulators
    BY <1>1, <1>3 DEF Shapes
  <2>3. hosts[e.host].ports \cup {e.port} \in SUBSET AllPorts /\ hosts[e.host].count + 1 \in Nat
    BY <1>3, <2>2 DEF Accumulators
  <2> QED BY <2>1, <2>2, <2>3
<1>5. \/ e.host \in Accumulating /\ Persist(e.host, acc)
      \/ UNCHANGED <<records, result>>
  BY DEF ReceiveService, aggregatorVars
<1> HIDE DEF acc, e
<1>6. CASE e.host \in Accumulating /\ Persist(e.host, acc)
  BY <1>1, <1>3, <1>4, <1>6, PersistKeepsContract
<1>7. CASE UNCHANGED <<records, result>>
  BY <1>1, <1>7 DEF Contract!vars
<1> QED BY <1>5, <1>6, <1>7

LEMMA JoinKeepsContract == ASSUME PipelineInv, JoinTasks PROVE Contract!Next
<1>1. Shapes /\ OthersOK /\ result = "running" /\ (result' = "ok" \/ result' = "failed")
      /\ UNCHANGED <<resumedFrom, cancelled, records>>
  BY DEF PipelineInv, JoinTasks, RunReturned, generatorVars
<1>2. CASE result' = "failed"
  BY <1>1, <1>2 DEF Contract!Next, Contract!Fail
<1>3. CASE result' = "ok"
  <2>1. cancelled \/ Hosts = resumedFrom \cup Contract!Recorded
    <3> SUFFICES ASSUME ~cancelled PROVE Hosts = resumedFrom \cup Contract!Recorded
      OBVIOUS
    <3>1. /\ \A o \in swept : IsRecorded(o.host)
          /\ \A k \in 1 .. genPos - 1 : Targets[k] \in resumedFrom \/ IsSwept(Targets[k])
          /\ genPos > Len(Targets)
      BY <1>3, CleanEnd
    <3>2. \A h : IsSwept(h) => IsRecorded(h)
      BY <3>1 DEF IsSwept
    <3>3. ASSUME NEW h \in Hosts PROVE h \in resumedFrom \/ IsRecorded(h)
      <4>1. PICK k \in DOMAIN Targets : h = Targets[k]
        BY DEF Hosts
      <4>2. k \in 1 .. genPos - 1
        BY <1>1, <3>1, <4>1, PipelineConstants DEF OthersOK
      <4> QED BY <3>1, <3>2, <4>1, <4>2
    <3>4. \A h : IsRecorded(h) => h \in Hosts
      <4>1. \A i \in 1 .. Len(records) : records[i] \in HostResults
        BY <1>1 DEF Shapes
      <4> QED BY <4>1 DEF HostResults, IsRecorded
    <3>5. \A h : h \in Contract!Recorded <=> IsRecorded(h)
      BY <1>1, RecordedAre DEF Shapes
    <3> QED BY <1>1, <3>3, <3>4, <3>5 DEF OthersOK
  <2> QED BY <1>1, <1>3, <2>1 DEF Contract!Next, Contract!Finish
<1> QED BY <1>1, <1>2, <1>3

LEMMA InitKeepsContract == Init => Contract!Init
  BY DEF Init, Contract!Init

LEMMA StepKeepsContract ==
  PipelineInv /\ [Next]_vars => [Contract!Next]_(Contract!vars)
<1> SUFFICES ASSUME PipelineInv, [Next]_vars PROVE [Contract!Next]_(Contract!vars)
  OBVIOUS
<1>1. CASE ReceiveEnvelope \/ ReceiveService \/ JoinTasks
  BY <1>1, EnvelopeKeepsContract, ServiceKeepsContract, JoinKeepsContract
<1>2. CASE Cancel
  BY <1>2 DEF Cancel, RunReturned, generatorVars, aggregatorVars, Contract!Next, Contract!Stop
<1>3. CASE UNCHANGED <<resumedFrom, records, cancelled, result>>
  BY <1>3 DEF Contract!vars
<1>4. ASSUME ~(ReceiveEnvelope \/ ReceiveService \/ JoinTasks \/ Cancel)
      PROVE  UNCHANGED <<resumedFrom, records, cancelled, result>>
  <2>1. CASE GeneratorCheck \/ GeneratorSend
    BY <2>1 DEF GeneratorCheck, GeneratorSend, aggregatorVars
  <2>2. ASSUME NEW w \in DiscoveryWorkers, DiscoveryStep(w) \/ DiscoveryPanics(w)
        PROVE  UNCHANGED <<resumedFrom, records, cancelled, result>>
    BY <2>2 DEF DiscoveryStep, TakeTarget, FinishSweep, Announce, EnqueueJob, DiscoveryExits,
                DiscoveryPanics, generatorVars, aggregatorVars
  <2>3. ASSUME NEW w \in ProbeWorkers, ProberStep(w) \/ ProberPanics(w)
        PROVE  UNCHANGED <<resumedFrom, records, cancelled, result>>
    BY <2>3 DEF ProberStep, TakeJob, ForwardService, ProberExits, ProberPanics,
                generatorVars, aggregatorVars
  <2>4. ASSUME NEW w \in FingerprintWorkers, FingerprinterStep(w) \/ FingerprinterPanics(w)
        PROVE  UNCHANGED <<resumedFrom, records, cancelled, result>>
    BY <2>4 DEF FingerprinterStep, TakeService, EmitService, FingerprinterExits,
                FingerprinterPanics, generatorVars, aggregatorVars
  <2>5. CASE UNCHANGED vars
    BY <2>5 DEF vars
  <2> QED BY <1>4, <2>1, <2>2, <2>3, <2>4, <2>5 DEF Next, TaskStep, Terminated, Hangs
<1> QED BY <1>1, <1>2, <1>3, <1>4

\* The run is what ScanContract promises: each target recorded at most once, nothing after
\* the end, and a good end only when all is recorded or a stop was asked for.
THEOREM PipelineKeepsContract == Spec => KeepsContract
  BY InitKeepsContract, StepKeepsContract, PipelineInvariant, PTL
     DEF Spec, KeepsContract, Contract!Spec
=============================================================================
