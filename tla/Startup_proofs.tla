--------------------------- MODULE Startup_proofs ----------------------------
(***************************************************************************)
(* That the program never starts with one file in two roles, whatever the  *)
(* file system and the invocation are; that the workers' shares of the     *)
(* budgets add up, however many workers there are; and that an accepted    *)
(* list of targets is exactly what its sources name, whatever they say.    *)
(*                                                                         *)
(* The check compares normalized paths, and what is opened is another      *)
(* thing: SameFileSamePath is the step from one to the other, and it is    *)
(* where links whose target is missing have to be excepted.  The rest is   *)
(* that nothing changes the settings between the check and the start, and  *)
(* that the workers' files differ by number or by suffix.                  *)
(*                                                                         *)
(* What a line names depends on the last header above it, so a text names  *)
(* what its parts name only if no header is above a later part             *)
(* (NamesOfJoined).  That and a network being a whole block of addresses   *)
(* (NetworkIsPrefix) are the two ideas of TargetsAreExact.                 *)
(*                                                                         *)
(* A sum over the workers is an induction on their number, and so are the  *)
(* powers of two: both are done with least counterexamples (LeastNumber).  *)
(***************************************************************************)
EXTENDS Startup, SequenceTheorems, WellFoundedInduction, TLAPS

\* Two paths that open one file, neither of them a link to a file that is missing, are
\* the same after normalized_path.
LEMMA SameFileSamePath ==
  ASSUME NEW p, NEW q, ~Dangling(p), ~Dangling(q), Opened(p) = Opened(q)
  PROVE  NormalizedPath(p) = NormalizedPath(q)
<1>1. Exists(p) <=> Exists(q)
  BY DEF Exists
<1>2. CASE Exists(p)
  BY <1>1, <1>2 DEF NormalizedPath
<1>3. CASE ~Exists(p)
  <2>1. Entry(p) = Entry(q)
    BY <1>1, <1>3 DEF Dangling, Opened
  <2>2. Directory(p) = Directory(q) /\ p.name = q.name
    BY <2>1 DEF Entry
  <2>3. CASE HasParent(p)
    BY <1>1, <1>3, <2>1, <2>2, <2>3 DEF NormalizedPath, HasParent
  <2>4. CASE ~HasParent(p)
    <3>1. p.dir = Directory(p) /\ q.dir = Directory(q)
      BY <2>2, <2>4, ArtifactPathsAssumption DEF HasParent, Directory
    <3>2. QED
      BY <1>1, <1>3, <2>2, <2>4, <3>1 DEF NormalizedPath, HasParent
  <2>5. QED
    BY <2>3, <2>4
<1>4. QED
  BY <1>2, <1>3

-----------------------------------------------------------------------------
\* The files of the workers, which only a coordinator has, and what the check has settled.
WorkersOf(s) == [k \in 1 .. s.processes |-> WorkerSettings(s, k - 1)]
StartInv ==
  /\ phase \in {"coordinate", "scan", "workers"} => ~PathsRefused(NamedFiles(settings))
  /\ workers = IF phase = "workers" THEN WorkersOf(settings) ELSE <<>>

\* A worker has three files, each named by its number and a suffix of its own.
LEMMA WorkerFiles ==
  ASSUME NEW s, NEW index, NEW role \in Roles \cap DOMAIN WorkerSettings(s, index)
  PROVE  \/ role = "output" /\ WorkerSettings(s, index)[role] = PartFile(index, "hosts.jsonl")
         \/ role = "metrics_json"
              /\ WorkerSettings(s, index)[role] = PartFile(index, "metrics.json")
         \/ role = "checkpoint" /\ WorkerSettings(s, index)[role] = PartFile(index, "state")
<1>1. role \in PartFiles
  BY DEF WorkerSettings, Roles, PartFiles
<1>2. QED
  BY <1>1 DEF WorkerSettings, PartFiles, Divided

LEMMA WorkersFilesDiffer ==
  ASSUME NEW s,
         NEW j \in 1 .. s.processes, NEW k \in 1 .. s.processes,
         NEW r \in Roles \cap DOMAIN WorkersOf(s)[j],
         NEW t \in Roles \cap DOMAIN WorkersOf(s)[k],
         <<j, r>> # <<k, t>>
  PROVE  WorkersOf(s)[j][r] # WorkersOf(s)[k][t]
<1>1. /\ WorkersOf(s)[j] = WorkerSettings(s, j - 1)
      /\ WorkersOf(s)[k] = WorkerSettings(s, k - 1)
  BY DEF WorkersOf
<1>2. \A a, b, x, y : PartFile(a, x) = PartFile(b, y) => a = b /\ x = y
  BY DEF PartFile
<1>3. j - 1 = k - 1 => j = k
  OBVIOUS
<1>4. QED
  BY <1>1, <1>2, <1>3, WorkerFiles

-----------------------------------------------------------------------------
LEMMA InitStart == Init => StartInv
BY DEF Init, StartInv

LEMMA NextStart == StartInv /\ [Next]_vars => StartInv'
<1> SUFFICES ASSUME StartInv, [Next]_vars PROVE StartInv'
  OBVIOUS
<1> USE DEF StartInv
<1>1. CASE LoadSettings
  BY <1>1 DEF LoadSettings, Refuse
<1>2. CASE ReadSource
  BY <1>2 DEF ReadSource, Refuse
<1>3. CASE FinishReading
  BY <1>3 DEF FinishReading
<1>4. CASE SkipLine \/ ReadHeader \/ ExpandNet \/ AddRow
  <2>1. phase' \in {"parse", "refused"} /\ phase = "parse" /\ workers' = workers
    BY <1>4 DEF SkipLine, ReadHeader, ExpandNet, AddRow, ParsesLine, Unparsed, Refuse
  <2>2. QED
    BY <2>1
<1>5. CASE FinishParsing
  BY <1>5 DEF FinishParsing
<1>6. CASE CheckPaths
  BY <1>6 DEF CheckPaths
<1>7. CASE DivideBudgets
  <2>1. CASE BudgetRefused(settings, Cardinality(DOMAIN found))
    BY <1>7, <2>1 DEF DivideBudgets, Refuse
  <2>2. CASE ~BudgetRefused(settings, Cardinality(DOMAIN found))
    BY <1>7, <2>2 DEF DivideBudgets, WorkersOf
  <2>3. QED
    BY <2>1, <2>2
<1>8. CASE Started \/ UNCHANGED vars
  BY <1>8 DEF Started, vars
<1>9. QED
  BY <1>1, <1>2, <1>3, <1>4, <1>5, <1>6, <1>7, <1>8 DEF Next

LEMMA StartHasDistinctFiles == StartInv => NoFileTwice
<1> SUFFICES ASSUME StartInv, phase \in {"scan", "workers"} PROVE NoFileTwice
  BY DEF NoFileTwice
<1> DEFINE named == NamedFiles(settings)
<1>1. ASSUME NEW r \in DOMAIN named, NEW s \in DOMAIN named, r # s, ~MayShare(r, s),
             ~Dangling(named[r]), ~Dangling(named[s])
      PROVE  Opened(named[r]) # Opened(named[s])
  <2>1. NormalizedPath(named[r]) # NormalizedPath(named[s])
    BY <1>1 DEF StartInv, PathsRefused
  <2>2. QED
    BY <1>1, <2>1, SameFileSamePath
<1>2. ASSUME NEW j \in DOMAIN workers, NEW k \in DOMAIN workers,
             NEW r \in Roles \cap DOMAIN workers[j], NEW s \in Roles \cap DOMAIN workers[k],
             <<j, r>> # <<k, s>>
      PROVE  workers[j][r] # workers[k][s]
  <2>1. phase = "workers" /\ workers = WorkersOf(settings)
    BY DEF StartInv
  <2>2. j \in 1 .. settings.processes /\ k \in 1 .. settings.processes
    BY <2>1 DEF WorkersOf
  <2>3. QED
    BY <1>2, <2>1, <2>2, WorkersFilesDiffer
<1>3. QED
  BY <1>1, <1>2 DEF NoFileTwice

\* The program never starts a scan, or workers, with one file in two roles: for any file
\* system, any invocations and any number of workers (validate_artifact_paths,
\* shard_settings).
THEOREM FilesAreDistinct == Spec => []NoFileTwice
<1>1. Spec => []StartInv
  BY InitStart, NextStart, PTL DEF Spec
<1>2. QED
  BY <1>1, StartHasDistinctFiles, PTL

-----------------------------------------------------------------------------
\* A set of natural numbers that is not empty has a least one: the induction on the number
\* of workers below.
LEMMA LeastNumber ==
  ASSUME NEW S \in SUBSET Nat, S # {}
  PROVE  \E n \in S : \A m \in S : n <= m
<1>1. PICK n \in S : \A m \in S : ~ (<<m, n>> \in OpToRel(<, Nat))
  BY WFMin, NatLessThanWellFounded, Zenon
<1>2. ASSUME NEW m \in S, m < n PROVE FALSE
  <2>1. <<m, n>> \in Nat \X Nat /\ <<m, n>>[1] < <<m, n>>[2]
    BY <1>2
  <2>2. <<m, n>> \in OpToRel(<, Nat)
    BY <2>1, Zenon DEF OpToRel
  <2> QED BY <1>1, <2>2
<1> QED BY <1>2

\* What `total / count` and `total % count` are.
LEMMA QuotientAndRest ==
  ASSUME NEW total \in Nat, NEW count \in Nat \ {0}
  PROVE  \E q \in Nat, r \in 0 .. count - 1 :
           total \div count = q /\ total % count = r /\ total = count * q + r
<1>1. total \div count \in Int /\ total \div count >= 0 /\ total % count \in 0 .. count - 1
  OBVIOUS
<1>2. total % count = total - count * (total \div count)
  BY Z3
<1>3. PICK q \in Nat : total \div count = q
  BY <1>1
<1>4. PICK r \in 0 .. count - 1 : total % count = r
  BY <1>1
<1>5. r = total - count * q
  BY <1>2, <1>3, <1>4, Zenon
<1>6. total = count * q + r
  BY <1>5
<1> QED BY <1>3, <1>4, <1>6

\* What the first k workers have together.
FirstShares(total, count, k) ==
  k * (total \div count) + (IF k < total % count THEN k ELSE total % count)

\* It grows by a share with each worker, up to the total.
LEMMA SharesAddUp ==
  ASSUME NEW total \in Nat, NEW count \in Nat \ {0}
  PROVE  /\ FirstShares(total, count, 0) = 0
         /\ \A k \in 1 .. count :
              FirstShares(total, count, k)
                = FirstShares(total, count, k - 1) + Share(total, count, k - 1)
         /\ FirstShares(total, count, count) = total
<1>1. PICK q \in Nat, r \in 0 .. count - 1 :
        total \div count = q /\ total % count = r /\ total = count * q + r
  BY QuotientAndRest
<1>2. 0 * q = 0
  BY <1>1
<1>3. ASSUME NEW k \in 1 .. count
      PROVE  FirstShares(total, count, k)
                = FirstShares(total, count, k - 1) + Share(total, count, k - 1)
  <2>1. k * q = (k - 1) * q + q
    BY <1>1
  <2>2. k * q \in Nat /\ (k - 1) * q \in Nat
    BY <1>1
  <2>3. CASE k <= r
    BY <1>1, <2>1, <2>2, <2>3 DEF FirstShares, Share
  <2>4. CASE ~ (k <= r)
    <3>1. ~ (k < r) /\ ~ (k - 1 < r)
      BY <1>1, <2>4
    <3> QED BY <1>1, <2>1, <2>2, <3>1 DEF FirstShares, Share
  <2> QED BY <2>3, <2>4
<1>4. FirstShares(total, count, count) = total
  <2>1. ~ (count < r)
    BY <1>1
  <2> QED BY <1>1, <2>1 DEF FirstShares
<1> QED BY <1>1, <1>2, <1>3, <1>4 DEF FirstShares

\* So the sum over all workers is the total: the first worker for which the sums differ would
\* differ by its share.
LEMMA TotalOfShares ==
  ASSUME NEW total \in Nat, NEW count \in Nat \ {0}, NEW option,
         Len(workers) = count,
         \A k \in 1 .. count : workers[k][option] = Share(total, count, k - 1)
  PROVE  Total(option) = total
<1> DEFINE F(k) == FirstShares(total, count, k)
           Unfolded(g) == [n \in 0 .. Len(workers) |->
                             IF n = 0 THEN 0 ELSE g[n - 1] + workers[n][option]]
           G == [n \in 0 .. count |-> F(n)]
           T == TotalOfFirst(option)
           Bad == {n \in 0 .. count : T[n] # F(n)}
<1>1. F(0) = 0 /\ F(count) = total
  BY SharesAddUp
<1>2. \A k \in 1 .. count : F(k) = F(k - 1) + workers[k][option]
  BY SharesAddUp
<1> HIDE DEF F
<1>3. G = Unfolded(G)
  BY <1>1, <1>2
<1>4. T = CHOOSE g : g = Unfolded(g)
  BY DEF TotalOfFirst
<1> HIDE DEF Unfolded, G, T
<1>5. T = Unfolded(T)
  BY <1>3, <1>4, Zenon
<1>6. SUFFICES ASSUME Bad # {} PROVE FALSE
  <2>1. count \in 0 .. count
    OBVIOUS
  <2> QED BY <1>1, <2>1 DEF Total, T
<1>7. PICK n \in Bad : \A j \in Bad : n <= j
  <2>1. Bad \in SUBSET Nat
    OBVIOUS
  <2> HIDE DEF Bad
  <2> QED BY <1>6, <2>1, LeastNumber
<1>8. CASE n = 0
  BY <1>1, <1>5, <1>7, <1>8 DEF Unfolded
<1>9. CASE n # 0
  <2>1. n \in 1 .. count /\ n - 1 \in 0 .. count /\ ~ (n <= n - 1)
    BY <1>7, <1>9
  <2>2. T[n - 1] = F(n - 1)
    BY <1>7, <2>1
  <2>3. T[n] = T[n - 1] + workers[n][option]
    BY <1>5, <1>9, <2>1 DEF Unfolded
  <2> QED BY <1>2, <1>7, <2>1, <2>2, <2>3
<1> QED BY <1>8, <1>9

\* A worker has something of what is at least the number of workers.
LEMMA ShareIsPositive ==
  ASSUME NEW total \in Nat, NEW count \in Nat \ {0}, total >= count, NEW index \in Nat
  PROVE  Share(total, count, index) > 0
<1>1. PICK q \in Nat, r \in 0 .. count - 1 :
        total \div count = q /\ total % count = r /\ total = count * q + r
  BY QuotientAndRest
<1>2. q # 0
  <2> SUFFICES ASSUME q = 0 PROVE FALSE
    OBVIOUS
  <2>1. count * q = 0
    OBVIOUS
  <2> QED BY <1>1, <2>1
<1> QED BY <1>1, <1>2 DEF Share

-----------------------------------------------------------------------------
\* What the options that are numbers are at each phase: none of them is 0 once the settings
\* are loaded, and none that is divided is less than the number of its shares.
BudgetInv ==
  /\ StartInv
  /\ invocation \in Invocations
  /\ \A option \in Positive : option \in DOMAIN settings /\ settings[option] \in Nat
  /\ phase \notin {"load", "refused"} => \A option \in Positive : settings[option] > 0
  /\ phase = "workers" => \A option \in Divided : settings[option] >= settings.processes

LEMMA DefaultsAreNumbers ==
  ASSUME NEW mode, NEW option \in Positive
  PROVE  option \in DOMAIN Defaults(mode) /\ Defaults(mode)[option] \in Nat
<1> DEFINE d == Defaults(mode)
<1>1. Positive \subseteq DOMAIN d
  BY DEF Defaults, Positive
<1>2. /\ d.rate \in Nat /\ d.burst \in Nat /\ d.concurrency \in Nat
      /\ d.probe_concurrency \in Nat /\ d.fingerprint_concurrency \in Nat
      /\ d.host_concurrency \in Nat /\ d.queue_depth \in Nat /\ d.worker_threads \in Nat
      /\ d.processes \in Nat /\ d.max_body \in Nat /\ d.tcp_timeout \in Nat
      /\ d.tls_timeout \in Nat /\ d.http_timeout \in Nat /\ d.http_body_timeout \in Nat
  BY StartupAssumption DEF Defaults
<1> HIDE DEF d
<1>3. \A name \in Positive : d[name] \in Nat
  BY <1>2 DEF Positive
<1> QED BY <1>1, <1>3 DEF d

\* What is given and what is fallen back to are numbers, and so is what counts.
LEMMA OverKeepsNumbers ==
  ASSUME NEW f, NEW g, NEW x,
         x \in DOMAIN f => f[x] \in Nat, x \in DOMAIN g => g[x] \in Nat
  PROVE  /\ x \in DOMAIN Over(f, g) <=> x \in DOMAIN f \/ x \in DOMAIN g
         /\ x \in DOMAIN Over(f, g) => Over(f, g)[x] \in Nat
BY DEF Over

LEMMA LoadedAreNumbers ==
  ASSUME NEW i \in Invocations, NEW option \in Positive
  PROVE  option \in DOMAIN Loaded(i) /\ Loaded(i)[option] \in Nat
<1> DEFINE given == Over(i.cli, i.file)
<1>1. PICK mode : Loaded(i) = Over(given, Defaults(mode))
  BY Zenon DEF Loaded
<1>2. \A g \in {i.cli, i.file} : option \in DOMAIN g => g[option] \in Nat
  BY InvocationsAssumption
<1>3. option \in DOMAIN given => given[option] \in Nat
  BY <1>2, OverKeepsNumbers
<1>4. option \in DOMAIN Defaults(mode) /\ Defaults(mode)[option] \in Nat
  BY DefaultsAreNumbers
<1> HIDE DEF given
<1>5. /\ option \in DOMAIN Over(given, Defaults(mode))
      /\ Over(given, Defaults(mode))[option] \in Nat
  BY <1>3, <1>4, OverKeepsNumbers
<1> QED BY <1>1, <1>5

LEMMA InitBudget == Init => BudgetInv
<1> SUFFICES ASSUME Init PROVE BudgetInv
  OBVIOUS
<1>1. StartInv
  BY InitStart
<1>2. \A option \in Positive : option \in DOMAIN settings /\ settings[option] \in Nat
  BY DefaultsAreNumbers DEF Init
<1> QED BY <1>1, <1>2 DEF Init, BudgetInv

LEMMA StepBudget == BudgetInv /\ [Next]_vars => BudgetInv'
<1> SUFFICES ASSUME BudgetInv, [Next]_vars PROVE BudgetInv'
  OBVIOUS
<1>1. StartInv'
  BY NextStart DEF BudgetInv
<1>2. CASE LoadSettings
  <2> DEFINE loaded == Loaded(invocation)
  <2>1. /\ phase = "load" /\ invocation' = invocation
        /\ \/ phase' = "refused" /\ settings' = settings
           \/ phase' = "read" /\ settings' = loaded /\ ~SettingsRefused(loaded)
    BY <1>2 DEF LoadSettings, Refuse
  <2>2. \A option \in Positive : option \in DOMAIN loaded /\ loaded[option] \in Nat
    BY LoadedAreNumbers DEF BudgetInv
  <2>3. ~SettingsRefused(loaded) => \A option \in Positive : loaded[option] > 0
    <3> HIDE DEF loaded
    <3> QED BY <2>2 DEF SettingsRefused
  <2> HIDE DEF loaded
  <2> QED BY <1>1, <2>1, <2>2, <2>3 DEF BudgetInv
<1>3. CASE ReadSource \/ FinishReading \/ SkipLine \/ ReadHeader \/ ExpandNet \/ AddRow
           \/ FinishParsing \/ CheckPaths
  <2>1. /\ settings' = settings /\ invocation' = invocation /\ phase' # "workers"
        /\ phase' = "refused" \/ phase \notin {"load", "refused"}
    <3>1. CASE ReadSource
      BY <3>1 DEF ReadSource, Refuse
    <3>2. CASE FinishReading \/ FinishParsing \/ CheckPaths
      BY <3>2 DEF FinishReading, FinishParsing, CheckPaths
    <3>3. CASE SkipLine \/ ReadHeader
      BY <3>3 DEF SkipLine, ReadHeader, ParsesLine, Unparsed, Refuse
    <3>4. CASE ExpandNet
      BY <3>4 DEF ExpandNet, ParsesLine, Unparsed, Refuse
    <3>5. CASE AddRow
      BY <3>5 DEF AddRow, ParsesLine, Unparsed, Refuse
    <3> QED BY <1>3, <3>1, <3>2, <3>3, <3>4, <3>5
  <2> QED BY <1>1, <2>1 DEF BudgetInv
<1>4. CASE DivideBudgets
  <2>1. /\ settings' = settings /\ invocation' = invocation /\ phase = "coordinate"
        /\ \/ phase' = "refused"
           \/ ~BudgetRefused(settings, Cardinality(DOMAIN found))
    BY <1>4 DEF DivideBudgets, Refuse
  <2>2. "processes" \in Positive /\ Divided \subseteq Positive
    BY DEF Positive, Divided
  <2>3. ~BudgetRefused(settings, Cardinality(DOMAIN found)) =>
          \A option \in Divided : settings[option] >= settings.processes
    BY <2>2 DEF BudgetRefused, BudgetInv
  <2> QED BY <1>1, <2>1, <2>3 DEF BudgetInv
<1>5. CASE Started \/ UNCHANGED vars
  BY <1>1, <1>5 DEF Started, vars, BudgetInv
<1> QED BY <1>2, <1>3, <1>4, <1>5 DEF Next

\* What a worker is given of each option.
LEMMA WorkerOptions ==
  ASSUME NEW s, NEW index, NEW option \in Positive, option \in DOMAIN s
  PROVE  WorkerSettings(s, index)[option] =
           IF option \in Divided THEN Share(s[option], s.processes, index)
           ELSE IF option = "host_concurrency"
                THEN Share(IF s.host_concurrency > s.processes THEN s.host_concurrency
                           ELSE s.processes, s.processes, index)
           ELSE IF option = "processes" THEN 1 ELSE s[option]
<1>1. option \notin Roles /\ option \notin PartFiles
  BY DEF Positive, Roles, PartFiles
<1>2. option \in (DOMAIN s \ Roles) \cup PartFiles
  BY <1>1
<1>3. "host_concurrency" \notin Divided /\ "processes" \notin Divided
  BY DEF Divided
<1> QED BY <1>1, <1>2, <1>3 DEF WorkerSettings, PartFiles

\* Of what is divided, the workers have the shares; of the rest, what the settings say.
LEMMA SharesAreRight == BudgetInv => BudgetsAddUp
<1> SUFFICES ASSUME BudgetInv, phase = "workers" PROVE BudgetsAddUp
  BY DEF BudgetsAddUp
<1> DEFINE n == settings.processes
           hosts == IF settings.host_concurrency > n THEN settings.host_concurrency ELSE n
<1>1. Divided \subseteq Positive /\ {"host_concurrency", "processes"} \subseteq Positive
      /\ "host_concurrency" \notin Divided
  BY DEF Positive, Divided
<1>2. /\ \A option \in Positive :
           /\ option \in DOMAIN settings /\ settings[option] \in Nat
           /\ settings[option] > 0
      /\ \A option \in Divided : settings[option] >= n
  BY DEF BudgetInv
<1>3. n \in Nat \ {0} /\ hosts \in Nat /\ hosts >= n /\ hosts >= settings.host_concurrency
  <2>1. /\ settings.processes \in Nat /\ settings.processes > 0
        /\ settings.host_concurrency \in Nat
    BY <1>1, <1>2
  <2> QED BY <2>1
<1>4. workers = [k \in 1 .. n |-> WorkerSettings(settings, k - 1)]
  BY DEF BudgetInv, StartInv, WorkersOf
<1>5. Len(workers) = n /\ DOMAIN workers = 1 .. n
  BY <1>3, <1>4
<1> HIDE DEF n, hosts
<1>6. ASSUME NEW k \in 1 .. n, NEW option \in Positive
      PROVE  /\ k - 1 \in Nat
             /\ option \in Divided => workers[k][option] = Share(settings[option], n, k - 1)
             /\ option = "host_concurrency" => workers[k][option] = Share(hosts, n, k - 1)
             /\ option \notin Divided \cup {"host_concurrency"} =>
                  workers[k][option] \in {1, settings[option]}
  <2>1. workers[k] = WorkerSettings(settings, k - 1)
    BY <1>4
  <2>2. option \in DOMAIN settings /\ k - 1 \in Nat
    BY <1>2, <1>3
  <2>3. workers[k][option] =
          IF option \in Divided THEN Share(settings[option], n, k - 1)
          ELSE IF option = "host_concurrency" THEN Share(hosts, n, k - 1)
          ELSE IF option = "processes" THEN 1 ELSE settings[option]
    BY <2>1, <2>2, WorkerOptions DEF n, hosts
  <2> QED BY <1>1, <2>2, <2>3
<1>7. ASSUME NEW option \in Divided PROVE Total(option) = settings[option]
  <2>1. option \in Positive /\ settings[option] \in Nat
    BY <1>1, <1>2
  <2>2. \A k \in 1 .. n : workers[k][option] = Share(settings[option], n, k - 1)
    BY <1>6, <2>1
  <2> QED BY <1>3, <1>5, <2>1, <2>2, TotalOfShares, Zenon
<1>8. Total("host_concurrency") = hosts
  <2>1. \A k \in 1 .. n : workers[k]["host_concurrency"] = Share(hosts, n, k - 1)
    BY <1>1, <1>6
  <2> QED BY <1>3, <1>5, <2>1, TotalOfShares, Zenon
<1>9. ASSUME NEW k \in 1 .. n, NEW option \in Positive PROVE workers[k][option] > 0
  <2>1. CASE option \in Divided
    BY <1>2, <1>3, <1>6, <2>1, ShareIsPositive
  <2>2. CASE option = "host_concurrency"
    BY <1>3, <1>6, <2>2, ShareIsPositive
  <2>3. CASE option \notin Divided \cup {"host_concurrency"}
    BY <1>2, <1>6, <2>3
  <2> QED BY <2>1, <2>2, <2>3
<1> QED BY <1>3, <1>5, <1>7, <1>8, <1>9 DEF BudgetsAddUp

\* The budgets that the user allowed are divided without loss or excess, and every worker
\* gets at least one of everything, for any budgets and any number of workers
\* (validate_process_budget, share, shard_settings).
THEOREM WorkersShareBudgets == Spec => []BudgetsAddUp
BY InitBudget, StepBudget, SharesAreRight, PTL DEF Spec
-----------------------------------------------------------------------------
\* What is the greatest of some numbers.
LEMMA MaxIs ==
  ASSUME NEW S \in SUBSET Nat, NEW m \in S, \A n \in S : n <= m
  PROVE  Max(S) = m
<1>1. m \in S /\ \A n \in S : m >= n
  OBVIOUS
<1>2. Max(S) \in S /\ \A n \in S : Max(S) >= n
  BY <1>1, Zenon DEF Max
<1>3. Max(S) >= m /\ m >= Max(S) /\ Max(S) \in Nat
  BY <1>1, <1>2
<1> QED BY <1>3

\* A set of numbers that is bounded and not empty has a greatest one.
LEMMA GreatestNumber ==
  ASSUME NEW top \in Nat, NEW S \in SUBSET (0 .. top), S # {}
  PROVE  \E m \in S : \A n \in S : n <= m
<1> DEFINE Distances == {top - n : n \in S}
<1>1. Distances \in SUBSET Nat /\ Distances # {}
  <2>1. ASSUME NEW n \in S PROVE top - n \in Nat
    <3>1. n \in 0 .. top
      OBVIOUS
    <3> QED BY <3>1
  <2> QED BY <2>1
<1> HIDE DEF Distances
<1>2. PICK d \in Distances : \A e \in Distances : d <= e
  BY <1>1, LeastNumber
<1> USE DEF Distances
<1>3. PICK m \in S : d = top - m
  BY <1>2
<1>4. ASSUME NEW n \in S PROVE n <= m
  <2>1. top - m <= top - n
    BY <1>2, <1>3
  <2> QED BY <2>1
<1> QED BY <1>3, <1>4

\* The first of some positions is one of them.
LEMMA FirstIsThere ==
  ASSUME NEW S \in SUBSET Nat, S # {}
  PROVE  FirstOf(S) \in S
<1>1. PICK m \in S : \A n \in S : m <= n
  BY LeastNumber
<1>2. Min(S) \in S
  BY <1>1, Zenon DEF Min
<1> QED BY <1>2 DEF FirstOf

-----------------------------------------------------------------------------
\* The headers among the first lines of a text.
Headers(lines, k) == {j \in 1 .. k - 1 : ~Skipped(lines[j]) /\ IsHeader(lines[j])}

\* A layout is that of the last header, if there is one.
LEMMA HeaderIsLast ==
  ASSUME NEW lines, NEW k \in Nat \ {0}, NEW known
  PROVE  /\ Headers(lines, k) = {} => HeaderOver(lines, k, known) = NoLayout
         /\ \A m \in Headers(lines, k) : (\A n \in Headers(lines, k) : n <= m) =>
              HeaderOver(lines, k, known) = LayoutOf(lines[m], known)
<1> DEFINE H == Headers(lines, k)
<1>1. HeaderOver(lines, k, known) =
        IF H = {} THEN NoLayout ELSE LayoutOf(lines[Max(H)], known)
  BY DEF HeaderOver, Headers
<1>2. H \in SUBSET Nat
  BY DEF Headers
<1> HIDE DEF H
<1>3. ASSUME NEW m \in H, \A n \in H : n <= m
      PROVE  HeaderOver(lines, k, known) = LayoutOf(lines[m], known)
  <2>1. Max(H) = m
    BY <1>2, <1>3, MaxIs
  <2> QED BY <1>1, <1>3, <2>1
<1> QED BY <1>1, <1>3 DEF H

\* And there is a last one, if there are any.
LEMMA LastHeader ==
  ASSUME NEW lines, NEW k \in Nat \ {0}, Headers(lines, k) # {}
  PROVE  \E m \in Headers(lines, k) : \A n \in Headers(lines, k) : n <= m
<1> DEFINE H == Headers(lines, k)
<1>1. H \in SUBSET (0 .. k) /\ H # {}
  BY DEF Headers
<1> HIDE DEF H
<1>2. \E m \in H : \A n \in H : n <= m
  BY <1>1, GreatestNumber
<1> QED BY <1>2 DEF H

\* A header names its address column: below it, the layout is not that of a plain list.
LEMMA NoHeaderAbove ==
  ASSUME NEW lines, NEW k \in Nat \ {0}, NEW known,
         HeaderOver(lines, k, known) = NoLayout
  PROVE  Headers(lines, k) = {}
<1> SUFFICES ASSUME Headers(lines, k) # {} PROVE FALSE
  OBVIOUS
<1>1. PICK m \in Headers(lines, k) : \A n \in Headers(lines, k) : n <= m
  BY LastHeader
<1>2. NoLayout = LayoutOf(lines[m], known)
  BY <1>1, HeaderIsLast
<1>3. IsHeader(lines[m])
  BY <1>1 DEF Headers
<1> QED BY <1>2, <1>3 DEF IsHeader, LayoutOf, NoLayout

\* Two texts without headers have none together.
LEMMA HeadersOfJoined ==
  ASSUME NEW a \in Seq(Line), NEW b \in Seq(Line),
         Headers(a, Len(a) + 1) = {}, Headers(b, Len(b) + 1) = {}
  PROVE  Headers(a \o b, Len(a \o b) + 1) = {}
<1> SUFFICES ASSUME NEW n \in Headers(a \o b, Len(a \o b) + 1) PROVE FALSE
  OBVIOUS
<1>1. Len(a) \in Nat /\ Len(b) \in Nat /\ Len(a \o b) = Len(a) + Len(b)
  OBVIOUS
<1>2. /\ n \in 1 .. Len(a) + Len(b)
      /\ ~Skipped((a \o b)[n]) /\ IsHeader((a \o b)[n])
  BY <1>1 DEF Headers
<1>3. CASE n \in 1 .. Len(a)
  <2>1. (a \o b)[n] = a[n]
    BY <1>3
  <2>2. n \in Headers(a, Len(a) + 1)
    BY <1>1, <1>2, <1>3, <2>1 DEF Headers
  <2> QED BY <2>2
<1>4. CASE n \notin 1 .. Len(a)
  <2>1. (a \o b)[n] = b[n - Len(a)] /\ n - Len(a) \in 1 .. Len(b)
    BY <1>1, <1>2, <1>4
  <2>2. n - Len(a) \in Headers(b, Len(b) + 1)
    BY <1>1, <1>2, <2>1 DEF Headers
  <2> QED BY <2>2
<1> QED BY <1>3, <1>4

\* A text without a header says nothing about the lines that follow it.
LEMMA HeaderOfJoined ==
  ASSUME NEW a \in Seq(Line), NEW b \in Seq(Line), NEW known,
         Headers(a, Len(a) + 1) = {}
  PROVE  /\ \A n \in 1 .. Len(a) : HeaderOver(a \o b, n, known) = HeaderOver(a, n, known)
         /\ \A j \in 1 .. Len(b) :
              HeaderOver(a \o b, Len(a) + j, known) = HeaderOver(b, j, known)
<1>1. /\ Len(a) \in Nat /\ Len(b) \in Nat
      /\ \A n \in 1 .. Len(a) : (a \o b)[n] = a[n]
      /\ \A j \in 1 .. Len(b) : (a \o b)[Len(a) + j] = b[j]
  OBVIOUS
<1> DEFINE c == a \o b
           p == Len(a)
<1>2. \A n \in 1 .. p : ~(~Skipped(a[n]) /\ IsHeader(a[n]))
  BY <1>1 DEF Headers
<1>3. /\ p \in Nat /\ Len(b) \in Nat
      /\ \A n \in 1 .. p : c[n] = a[n]
      /\ \A j \in 1 .. Len(b) : c[p + j] = b[j]
  BY <1>1
<1> HIDE DEF c, p
<1>4. ASSUME NEW n \in 1 .. p
      PROVE  HeaderOver(c, n, known) = HeaderOver(a, n, known)
  <2>1. Headers(c, n) = {} /\ Headers(a, n) = {}
    BY <1>2, <1>3 DEF Headers
  <2>2. n \in Nat \ {0}
    BY <1>3
  <2> QED BY <2>1, <2>2, HeaderIsLast
<1>5. ASSUME NEW j \in 1 .. Len(b)
      PROVE  HeaderOver(c, p + j, known) = HeaderOver(b, j, known)
  <2>1. p + j \in Nat \ {0} /\ j \in Nat \ {0}
    BY <1>3
  <2>2. ASSUME NEW n \in Headers(b, j) PROVE p + n \in Headers(c, p + j)
    <3>1. n \in 1 .. j - 1 /\ n \in 1 .. Len(b) /\ ~Skipped(b[n]) /\ IsHeader(b[n])
      BY <1>3 DEF Headers
    <3>2. c[p + n] = b[n] /\ p + n \in 1 .. (p + j) - 1
      BY <1>3, <3>1
    <3> QED BY <3>1, <3>2 DEF Headers
  <2>3. ASSUME NEW n \in Headers(c, p + j)
        PROVE  n - p \in Headers(b, j) /\ n = p + (n - p)
    <3>1. n \in 1 .. (p + j) - 1 /\ ~Skipped(c[n]) /\ IsHeader(c[n])
      BY DEF Headers
    <3>2. n \notin 1 .. p
      BY <1>2, <1>3, <3>1
    <3>3. n - p \in 1 .. j - 1 /\ n - p \in 1 .. Len(b) /\ n = p + (n - p)
      BY <1>3, <3>1, <3>2
    <3>4. c[n] = b[n - p]
      BY <1>3, <3>3
    <3> QED BY <3>1, <3>3, <3>4 DEF Headers
  <2>4. CASE Headers(b, j) = {}
    <3>1. Headers(c, p + j) = {}
      BY <2>3, <2>4
    <3> QED BY <2>1, <2>4, <3>1, HeaderIsLast
  <2>5. CASE Headers(b, j) # {}
    <3>1. PICK m \in Headers(b, j) : \A n \in Headers(b, j) : n <= m
      BY <2>1, <2>5, LastHeader
    <3>2. m \in 1 .. Len(b)
      BY <1>3 DEF Headers
    <3>3. \A n \in Headers(c, p + j) : n <= p + m
      <4> SUFFICES ASSUME NEW n \in Headers(c, p + j) PROVE n <= p + m
        OBVIOUS
      <4>1. n - p <= m /\ n \in Nat
        BY <2>3, <3>1, <1>3 DEF Headers
      <4> QED BY <1>3, <3>2, <4>1
    <3>4. p + m \in Headers(c, p + j)
      BY <2>2
    <3>5. HeaderOver(c, p + j, known) = LayoutOf(c[p + m], known)
      BY <2>1, <3>3, <3>4, HeaderIsLast
    <3>6. HeaderOver(b, j, known) = LayoutOf(b[m], known)
      BY <2>1, <3>1, HeaderIsLast
    <3> QED BY <1>3, <3>2, <3>5, <3>6
  <2> QED BY <2>4, <2>5
<1> QED BY <1>4, <1>5 DEF c, p

\* So it names what its own lines name, and what they would name by themselves.
LEMMA NamesOfJoined ==
  ASSUME NEW a \in Seq(Line), NEW b \in Seq(Line), NEW known,
         Headers(a, Len(a) + 1) = {}
  PROVE  NamedBy(a \o b, known) = NamedBy(a, known) \cup NamedBy(b, known)
<1> DEFINE c == a \o b
           p == Len(a)
<1>1. /\ p \in Nat /\ Len(b) \in Nat
      /\ DOMAIN a = 1 .. p /\ DOMAIN b = 1 .. Len(b) /\ DOMAIN c = 1 .. p + Len(b)
      /\ \A n \in 1 .. p : c[n] = a[n]
      /\ \A j \in 1 .. Len(b) : c[p + j] = b[j]
  OBVIOUS
<1>2. /\ \A n \in 1 .. p : HeaderOver(c, n, known) = HeaderOver(a, n, known)
      /\ \A j \in 1 .. Len(b) : HeaderOver(c, p + j, known) = HeaderOver(b, j, known)
  BY HeaderOfJoined
<1> HIDE DEF c, p
<1>3. ASSUME NEW n \in 1 .. p PROVE Names(c, n, known) = Names(a, n, known)
  BY <1>1, <1>2, Zenon DEF Names
<1>4. ASSUME NEW j \in 1 .. Len(b) PROVE Names(c, p + j, known) = Names(b, j, known)
  BY <1>1, <1>2, Zenon DEF Names
<1>5. \A m \in 1 .. p + Len(b) :
        m \in 1 .. p \/ (m - p \in 1 .. Len(b) /\ m = p + (m - p))
  BY <1>1
<1>6. \A n \in 1 .. p : n \in 1 .. p + Len(b)
  BY <1>1
<1>7. \A j \in 1 .. Len(b) : p + j \in 1 .. p + Len(b)
  BY <1>1
<1>8. ASSUME NEW x \in NamedBy(c, known) PROVE x \in NamedBy(a, known) \cup NamedBy(b, known)
  <2>1. PICK m \in 1 .. p + Len(b) : x \in Names(c, m, known)
    BY <1>1, Zenon DEF NamedBy
  <2>2. CASE m \in 1 .. p
    BY <1>1, <1>3, <2>1, <2>2, Zenon DEF NamedBy
  <2>3. CASE m \notin 1 .. p
    <3>1. m - p \in 1 .. Len(b) /\ x \in Names(b, m - p, known)
      BY <1>4, <1>5, <2>1, <2>3, Zenon
    <3> QED BY <1>1, <3>1, Zenon DEF NamedBy
  <2> QED BY <2>2, <2>3
<1>9. ASSUME NEW x \in NamedBy(a, known) PROVE x \in NamedBy(c, known)
  BY <1>1, <1>3, <1>6, Zenon DEF NamedBy
<1>10. ASSUME NEW x \in NamedBy(b, known) PROVE x \in NamedBy(c, known)
  BY <1>1, <1>4, <1>7, Zenon DEF NamedBy
<1> QED BY <1>8, <1>9, <1>10, Zenon DEF c
-----------------------------------------------------------------------------
\* The powers of two up to one of them, which there are: the first number up to which there
\* were none would follow one up to which there are.
Powers(g, n) ==
  g \in [0 .. n -> Nat] /\ g[0] = 1 /\ \A k \in 1 .. n : g[k] = 2 * g[k - 1]

LEMMA PowersExist == \A n \in Nat : \E g : Powers(g, n)
<1> DEFINE Bad == {n \in Nat : ~\E g : Powers(g, n)}
<1> SUFFICES ASSUME Bad # {} PROVE FALSE
  OBVIOUS
<1>1. PICK n \in Bad : \A m \in Bad : n <= m
  <2>1. Bad \in SUBSET Nat
    OBVIOUS
  <2> HIDE DEF Bad
  <2> QED BY <2>1, LeastNumber
<1>2. CASE n = 0
  <2>1. Powers([k \in 0 .. 0 |-> 1], 0)
    BY DEF Powers
  <2> QED BY <1>1, <1>2, <2>1
<1>3. CASE n # 0
  <2>1. n \in Nat /\ n - 1 \in Nat /\ ~(n <= n - 1)
    BY <1>1, <1>3
  <2>2. PICK g : Powers(g, n - 1)
    BY <1>1, <2>1
  <2> DEFINE h == [k \in 0 .. n |-> IF k = n THEN 2 * g[n - 1] ELSE g[k]]
  <2>3. /\ g[n - 1] \in Nat /\ g[0] = 1
        /\ \A k \in 0 .. n - 1 : g[k] \in Nat
        /\ \A k \in 1 .. n - 1 : g[k] = 2 * g[k - 1]
    BY <2>1, <2>2 DEF Powers
  <2>4. h \in [0 .. n -> Nat] /\ h[0] = 1
    BY <1>3, <2>1, <2>3
  <2>5. ASSUME NEW k \in 1 .. n PROVE h[k] = 2 * h[k - 1]
    <3>1. h[k - 1] = g[k - 1]
      BY <2>1
    <3>2. CASE k = n
      BY <2>1, <3>1, <3>2
    <3>3. CASE k # n
      <4>1. h[k] = g[k] /\ k \in 1 .. n - 1
        BY <2>1, <3>3
      <4> QED BY <2>3, <3>1, <4>1
    <3> QED BY <3>2, <3>3
  <2>6. Powers(h, n)
    BY <2>4, <2>5 DEF Powers
  <2> QED BY <1>1, <2>6
<1> QED BY <1>2, <1>3

\* They are the same however far they go.
LEMMA PowersAgree ==
  ASSUME NEW n \in Nat, NEW g, Powers(g, n), NEW m \in 0 .. n, NEW h, Powers(h, m)
  PROVE  g[m] = h[m]
<1> DEFINE Bad == {k \in 0 .. m : g[k] # h[k]}
<1>1. SUFFICES ASSUME Bad # {} PROVE FALSE
  OBVIOUS
<1>2. PICK k \in Bad : \A j \in Bad : k <= j
  <2>1. Bad \in SUBSET Nat
    OBVIOUS
  <2> HIDE DEF Bad
  <2> QED BY <1>1, <2>1, LeastNumber
<1>3. CASE k = 0
  BY <1>2, <1>3 DEF Powers
<1>4. CASE k # 0
  <2>1. k \in 1 .. m /\ k \in 1 .. n /\ k - 1 \in 0 .. m /\ ~(k <= k - 1)
    BY <1>2, <1>4
  <2>2. g[k - 1] = h[k - 1]
    BY <1>2, <2>1
  <2>3. g[k] = 2 * g[k - 1] /\ h[k] = 2 * h[k - 1]
    BY <2>1 DEF Powers
  <2> QED BY <1>2, <2>2, <2>3
<1> QED BY <1>3, <1>4

\* The function that is defined by them.
LEMMA TwoToUnfolds == TwoTo[0] = 1 /\ \A n \in Nat \ {0} : TwoTo[n] = 2 * TwoTo[n - 1]
<1> DEFINE P(n) == CHOOSE g : Powers(g, n)
           Unfolded(f) == [n \in Nat |-> IF n = 0 THEN 1 ELSE 2 * f[n - 1]]
           F == [n \in Nat |-> P(n)[n]]
<1>1. \A n \in Nat : Powers(P(n), n)
  BY PowersExist, Zenon
<1> HIDE DEF P
<1>2. P(0)[0] = 1
  BY <1>1 DEF Powers
<1>3. ASSUME NEW n \in Nat \ {0} PROVE P(n)[n] = 2 * P(n - 1)[n - 1]
  <2>1. n - 1 \in Nat /\ n - 1 \in 0 .. n /\ n \in 1 .. n
    OBVIOUS
  <2>2. Powers(P(n), n) /\ Powers(P(n - 1), n - 1)
    BY <1>1, <2>1
  <2>3. P(n)[n] = 2 * P(n)[n - 1]
    BY <2>1, <2>2 DEF Powers
  <2>4. P(n)[n - 1] = P(n - 1)[n - 1]
    BY <2>1, <2>2, PowersAgree
  <2> QED BY <2>3, <2>4
<1>4. F = Unfolded(F)
  <2>1. \A n \in Nat : F[n] = Unfolded(F)[n]
    BY <1>2, <1>3
  <2> QED BY <2>1
<1>5. TwoTo = CHOOSE f : f = Unfolded(f)
  BY DEF TwoTo
<1> HIDE DEF Unfolded, F
<1>6. TwoTo = Unfolded(TwoTo)
  BY <1>4, <1>5, Zenon
<1> QED BY <1>6 DEF Unfolded

\* What is needed of it: it is positive, and turns sums into products.
LEMMA TwoToIsPositive == \A n \in Nat : TwoTo[n] \in Nat \ {0}
<1> DEFINE Bad == {n \in Nat : TwoTo[n] \notin Nat \ {0}}
<1> SUFFICES ASSUME Bad # {} PROVE FALSE
  OBVIOUS
<1>1. PICK n \in Bad : \A m \in Bad : n <= m
  <2>1. Bad \in SUBSET Nat
    OBVIOUS
  <2> HIDE DEF Bad
  <2> QED BY <2>1, LeastNumber
<1>2. CASE n = 0
  BY <1>1, <1>2, TwoToUnfolds
<1>3. CASE n # 0
  <2>1. n \in Nat \ {0} /\ n - 1 \in Nat /\ ~(n <= n - 1)
    BY <1>1, <1>3
  <2>2. TwoTo[n - 1] \in Nat \ {0}
    BY <1>1, <2>1
  <2>3. TwoTo[n] = 2 * TwoTo[n - 1]
    BY <2>1, TwoToUnfolds
  <2> QED BY <1>1, <2>2, <2>3
<1> QED BY <1>2, <1>3

LEMMA TwoToOfSum ==
  ASSUME NEW m \in Nat PROVE \A n \in Nat : TwoTo[m + n] = TwoTo[m] * TwoTo[n]
<1> DEFINE Bad == {n \in Nat : TwoTo[m + n] # TwoTo[m] * TwoTo[n]}
<1> SUFFICES ASSUME Bad # {} PROVE FALSE
  OBVIOUS
<1>1. PICK n \in Bad : \A j \in Bad : n <= j
  <2>1. Bad \in SUBSET Nat
    OBVIOUS
  <2> HIDE DEF Bad
  <2> QED BY <2>1, LeastNumber
<1>2. TwoTo[m] \in Nat
  BY TwoToIsPositive
<1>3. CASE n = 0
  <2>1. TwoTo[n] = 1 /\ m + n = m
    BY <1>3, TwoToUnfolds
  <2> QED BY <1>1, <1>2, <2>1
<1>4. CASE n # 0
  <2>1. /\ n \in Nat \ {0} /\ n - 1 \in Nat /\ ~(n <= n - 1)
        /\ m + n \in Nat \ {0} /\ (m + n) - 1 = m + (n - 1)
    BY <1>1, <1>4
  <2>2. TwoTo[m + (n - 1)] = TwoTo[m] * TwoTo[n - 1]
    BY <1>1, <2>1
  <2>3. TwoTo[n] = 2 * TwoTo[n - 1] /\ TwoTo[m + n] = 2 * TwoTo[m + (n - 1)]
    BY <2>1, TwoToUnfolds
  <2>4. TwoTo[n - 1] \in Nat
    BY <2>1, TwoToIsPositive
  <2>5. \A x, y \in Nat : 2 * (x * y) = x * (2 * y)
    OBVIOUS
  <2>6. TwoTo[m + n] = TwoTo[m] * TwoTo[n]
    BY <1>2, <2>2, <2>3, <2>4, <2>5
  <2> QED BY <1>1, <2>6
<1> QED BY <1>3, <1>4

\* A number's quotient is that of all of its block, and of no others.
LEMMA BlockOfQuotient ==
  ASSUME NEW size \in Nat \ {0}, NEW q \in Nat, NEW a \in Nat
  PROVE  a \div size = q <=> a \in q * size .. q * size + size - 1
<1>1. PICK p \in Nat, r \in 0 .. size - 1 : a \div size = p /\ a = size * p + r
  BY QuotientAndRest
<1>2. CASE p = q
  <2>1. size * p = q * size /\ q * size \in Nat
    BY <1>2
  <2> QED BY <1>1, <1>2, <2>1
<1>3. CASE p < q
  <2>1. PICK d \in Nat : q = p + 1 + d
    <3>1. q - (p + 1) \in Nat /\ q = p + 1 + (q - (p + 1))
      BY <1>3
    <3> QED BY <3>1
  <2>2. q * size = size * p + size + d * size /\ d * size \in Nat /\ size * p \in Nat
    BY <2>1
  <2> QED BY <1>1, <1>3, <2>2
<1>4. CASE p > q
  <2>1. PICK d \in Nat : p = q + 1 + d
    <3>1. p - (q + 1) \in Nat /\ p = q + 1 + (p - (q + 1))
      BY <1>4
    <3> QED BY <3>1
  <2>2. size * p = q * size + size + size * d /\ size * d \in Nat /\ q * size \in Nat
    BY <2>1
  <2> QED BY <1>1, <1>4, <2>2
<1> QED BY <1>1, <1>2, <1>3, <1>4

\* From its own address to its broadcast address, a network has the addresses that agree with
\* it in the prefix, and they are all addresses.
LEMMA NetworkIsPrefix ==
  ASSUME NEW net, IsNet(net), net[1][1][2] \in Addresses
  PROVE  Network(net) .. Broadcast(net) =
           {a \in Addresses : a \div NetSize(net) = net[1][1][2] \div NetSize(net)}
<1> DEFINE size == NetSize(net)
           t == net[1][1][2]
<1>1. PICK n \in 0 .. AddressBits : net[1][3] = Number(n)
  BY DEF IsNet
<1>2. size = TwoTo[AddressBits - n]
  BY <1>1 DEF NetSize, Number
<1>3. AddressBits - n \in Nat /\ n \in Nat /\ (AddressBits - n) + n = AddressBits
  BY TargetListAssumption
<1>4. PICK k \in Nat \ {0} : TwoTo[AddressBits] = size * k
  BY <1>2, <1>3, TwoToOfSum, TwoToIsPositive
<1>5. size \in Nat \ {0}
  BY <1>2, <1>3, TwoToIsPositive
<1>6. Addresses = 0 .. size * k - 1 /\ t \in 0 .. size * k - 1
  BY <1>4 DEF Addresses
<1> HIDE DEF size, t
<1>7. size * k \in Nat /\ t \in Nat
  BY <1>4, <1>5, <1>6
<1>8. PICK q \in Nat, r \in 0 .. size - 1 : t \div size = q /\ t = size * q + r
  BY <1>5, <1>7, QuotientAndRest
<1>9. q * size \in Nat /\ q * size + size <= size * k
  <2>1. q < k
    <3> SUFFICES ASSUME ~(q < k) PROVE FALSE
      OBVIOUS
    <3>1. PICK d \in Nat : q = k + d
      <4>1. q - k \in Nat /\ q = k + (q - k)
        BY <1>4
      <4> QED BY <4>1
    <3>2. size * q = size * k + size * d /\ size * d \in Nat
      BY <1>4, <1>5, <3>1
    <3> QED BY <1>5, <1>6, <1>7, <1>8, <3>2
  <2>2. PICK d \in Nat : k = q + 1 + d
    <3>1. k - (q + 1) \in Nat /\ k = q + 1 + (k - (q + 1))
      BY <1>4, <2>1
    <3> QED BY <3>1
  <2>3. size * k = q * size + size + size * d /\ size * d \in Nat /\ q * size \in Nat
    BY <1>5, <2>2
  <2> QED BY <1>5, <2>3
<1>10. Network(net) = q * size /\ Broadcast(net) = q * size + size - 1
  BY <1>8 DEF Network, Broadcast, size, t
<1>11. ASSUME NEW a
       PROVE  a \in q * size .. q * size + size - 1
                <=> a \in Addresses /\ a \div size = t \div size
  <2>1. a \in Nat => (a \div size = q <=> a \in q * size .. q * size + size - 1)
    BY <1>5, BlockOfQuotient
  <2>2. a \in q * size .. q * size + size - 1 => a \in Addresses /\ a \in Nat
    BY <1>5, <1>6, <1>7, <1>9
  <2>3. a \in Addresses => a \in Nat
    BY <1>6
  <2> QED BY <1>8, <2>1, <2>2, <2>3
<1> QED BY <1>10, <1>11 DEF size, t
-----------------------------------------------------------------------------
\* What is left of a line is fields, and its words are those of the line.
LEMMA StrippedLine ==
  ASSUME NEW said \in Line
  PROVE  /\ Stripped(said) \in Seq(Field)
         /\ IsHeader(Stripped(said)) <=> IsHeader(said)
         /\ IsHeader(said) => Stripped(said) = said
         /\ IsNet(Stripped(said)) => Stripped(said)[1][1][2] \in Addresses
<1>1. said \in Seq(Field) /\ Len(said) \in Nat \ {0} /\ DOMAIN said = 1 .. Len(said)
  BY DEF Line
<1>2. CASE Len(said) > 1
  <2>1. Stripped(said) = said
    BY <1>2 DEF Stripped
  <2>2. ~IsNet(said)
    BY <1>1, <1>2 DEF IsNet
  <2> QED BY <1>1, <2>1, <2>2
<1>3. CASE ~(Len(said) > 1)
  <2> DEFINE field == said[1]
             left == BeforeHash(field)
             hashes == {k \in DOMAIN field : field[k] = Word("#")}
             hash == FirstOf(hashes)
  <2>1. Stripped(said) = <<left>> /\ Len(<<left>>) = 1 /\ <<left>>[1] = left
    BY <1>3 DEF Stripped
  <2>2. ~IsHeader(said) /\ ~IsHeader(Stripped(said))
    BY <1>3, <2>1 DEF IsHeader
  <2>3. 1 \in DOMAIN said /\ field \in Field
    BY <1>1
  <2>4. /\ Len(field) \in Nat /\ DOMAIN field = 1 .. Len(field)
        /\ \A j \in 1 .. Len(field) : field[j] \in STRING \X Nat
    BY <2>3 DEF Field
  <2>5. \A j \in DOMAIN field : field[j][1] = "address" => field[j][2] \in Addresses
    BY <2>3 DEF Line
  <2>6. left = IF hash = 0 THEN field ELSE SubSeq(field, 1, hash - 1)
    BY DEF BeforeHash
  <2>7. hash = 0 \/ hash \in 1 .. Len(field)
    <3>1. hashes \in SUBSET Nat /\ hashes \subseteq 1 .. Len(field)
      BY <2>4
    <3> HIDE DEF hashes
    <3> QED BY <3>1, FirstIsThere DEF FirstOf
  <2> HIDE DEF hash, left, field
  <2>8. /\ left \in Field
        /\ Len(left) = 3 => left[1] = field[1] /\ 1 \in DOMAIN field
    <3>1. CASE hash = 0
      BY <2>3, <2>4, <2>6, <3>1
    <3>2. CASE hash \in 1 .. Len(field)
      <4>1. hash - 1 \in Int /\ \A j \in 1 .. hash - 1 : field[j] \in STRING \X Nat
        BY <2>4, <3>2
      <4>2. /\ SubSeq(field, 1, hash - 1) \in Seq(STRING \X Nat)
            /\ Len(SubSeq(field, 1, hash - 1)) = IF 1 <= hash - 1 THEN hash - 1 - 1 + 1 ELSE 0
            /\ \A j \in 1 .. hash - 1 - 1 + 1 :
                 SubSeq(field, 1, hash - 1)[j] = field[1 + j - 1]
        BY <4>1, SubSeqProperties
      <4>3. left = SubSeq(field, 1, hash - 1)
        BY <2>6, <3>2
      <4>4. Len(left) = 3 => hash = 4
        BY <3>2, <4>2, <4>3
      <4>5. hash = 4 => left[1] = field[1] /\ 1 \in DOMAIN field
        BY <2>4, <3>2, <4>2, <4>3
      <4> QED BY <4>2, <4>3, <4>4, <4>5 DEF Field
    <3> QED BY <2>7, <3>1, <3>2
  <2>9. Stripped(said) \in Seq(Field)
    BY <2>1, <2>8
  <2>10. IsNet(Stripped(said)) => Stripped(said)[1][1][2] \in Addresses
    BY <2>1, <2>5, <2>8 DEF IsNet
  <2> QED BY <2>2, <2>9, <2>10
<1> QED BY <1>2, <1>3

\* A row is no network: only what has a slash is one.
LEMMA NetHasSlash ==
  ASSUME NEW net \in Seq(Field), IsNet(net)
  PROVE  Has(net, "/")
<1>1. 1 \in DOMAIN net /\ net[1] \in Field /\ Len(net[1]) = 3 /\ net[1][2] = Word("/")
  BY DEF IsNet
<1>2. 2 \in DOMAIN net[1]
  BY <1>1 DEF Field
<1> QED BY <1>1, <1>2 DEF Has, ToSet

\* What a line does to the layout of those that follow it.
LEMMA HeaderBelow ==
  ASSUME NEW lines, NEW n \in Nat \ {0}, NEW known
  PROVE  HeaderOver(lines, n + 1, known) =
           IF ~Skipped(lines[n]) /\ IsHeader(lines[n])
           THEN LayoutOf(lines[n], known) ELSE HeaderOver(lines, n, known)
<1>1. n + 1 \in Nat \ {0} /\ (n + 1) - 1 = n
  OBVIOUS
<1>2. CASE ~Skipped(lines[n]) /\ IsHeader(lines[n])
  <2>1. n \in Headers(lines, n + 1) /\ \A j \in Headers(lines, n + 1) : j <= n
    BY <1>1, <1>2 DEF Headers
  <2> QED BY <1>1, <1>2, <2>1, HeaderIsLast
<1>3. CASE ~(~Skipped(lines[n]) /\ IsHeader(lines[n]))
  <2>1. Headers(lines, n + 1) = Headers(lines, n)
    <3>1. \A j \in 1 .. n : j = n \/ j \in 1 .. n - 1
      OBVIOUS
    <3>2. \A j \in 1 .. n - 1 : j \in 1 .. n
      OBVIOUS
    <3> QED BY <1>1, <1>3, <3>1, <3>2 DEF Headers
  <2>2. HeaderOver(lines, n + 1, known) = HeaderOver(lines, n, known)
    BY <2>1 DEF HeaderOver, Headers
  <2> QED BY <1>3, <2>2
<1> QED BY <1>2, <1>3

\* The members of a product, for the provers.
LEMMA PairsOf ==
  ASSUME NEW A, NEW Q, NEW x
  PROVE  x \in A \X Q <=> \E a \in A : \E p \in Q : x = <<a, p>>
<1>1. ASSUME x \in A \X Q PROVE \E a \in A : \E p \in Q : x = <<a, p>>
  <2>1. x[1] \in A /\ x[2] \in Q /\ x = <<x[1], x[2]>>
    BY <1>1
  <2> QED BY <2>1
<1>2. ASSUME NEW a \in A, NEW p \in Q, x = <<a, p>> PROVE x \in A \X Q
  BY <1>2
<1> QED BY <1>1, <1>2

\* What an action of the parser adds to what is found.
LEMMA FoundWith ==
  ASSUME NEW addresses, NEW ports, found' = With(addresses, ports)
  PROVE  FoundPairs' = FoundPairs \cup (addresses \X ({0} \cup ports))
<1>1. \A x : x \in FoundPairs
               <=> \E a \in DOMAIN found : \E p \in {0} \cup found[a] : x = <<a, p>>
  <2> TAKE x
  <2>1. x \in FoundPairs <=> \E a \in DOMAIN found : x \in {a} \X ({0} \cup found[a])
    BY Zenon DEF FoundPairs
  <2>2. ASSUME NEW a
        PROVE  x \in {a} \X ({0} \cup found[a])
                 <=> \E p \in {0} \cup found[a] : x = <<a, p>>
    <3> DEFINE Q == {0} \cup found[a]
    <3> HIDE DEF Q
    <3>1. x \in {a} \X Q <=> \E c \in {a} : \E p \in Q : x = <<c, p>>
      BY PairsOf
    <3>2. x \in {a} \X Q <=> \E p \in Q : x = <<a, p>>
      BY <3>1
    <3> QED BY <3>2 DEF Q
  <2> QED BY <2>1, <2>2
<1>2. \A x : x \in FoundPairs'
               <=> \E a \in DOMAIN found' : \E p \in {0} \cup found'[a] : x = <<a, p>>
  <2> TAKE x
  <2>1. x \in FoundPairs' <=> \E a \in DOMAIN found' : x \in {a} \X ({0} \cup found'[a])
    BY Zenon DEF FoundPairs
  <2>2. ASSUME NEW a
        PROVE  x \in {a} \X ({0} \cup found'[a])
                 <=> \E p \in {0} \cup found'[a] : x = <<a, p>>
    <3> DEFINE Q == {0} \cup found'[a]
    <3> HIDE DEF Q
    <3>1. x \in {a} \X Q <=> \E c \in {a} : \E p \in Q : x = <<c, p>>
      BY PairsOf
    <3>2. x \in {a} \X Q <=> \E p \in Q : x = <<a, p>>
      BY <3>1
    <3> QED BY <3>2 DEF Q
  <2> QED BY <2>1, <2>2, Zenon
<1>3. \A x : x \in addresses \X ({0} \cup ports)
               <=> \E a \in addresses : \E p \in {0} \cup ports : x = <<a, p>>
  <2> DEFINE Q == {0} \cup ports
  <2> HIDE DEF Q
  <2>1. \A x : x \in addresses \X Q <=> \E a \in addresses : \E p \in Q : x = <<a, p>>
    BY PairsOf
  <2> QED BY <2>1 DEF Q
<1>4. /\ DOMAIN found' = DOMAIN found \cup addresses
      /\ \A a \in DOMAIN found' :
           found'[a] = (IF a \in DOMAIN found THEN found[a] ELSE {})
                         \cup (IF a \in addresses THEN ports ELSE {})
  BY DEF With
<1>5. \A x : x \in FoundPairs' <=> x \in FoundPairs \cup (addresses \X ({0} \cup ports))
  <2> TAKE x
  <2>1. ASSUME x \in FoundPairs' PROVE x \in FoundPairs \cup (addresses \X ({0} \cup ports))
    BY <1>1, <1>2, <1>3, <1>4, <2>1
  <2>2. ASSUME x \in FoundPairs PROVE x \in FoundPairs'
    BY <1>1, <1>2, <1>4, <2>2
  <2>3. ASSUME x \in addresses \X ({0} \cup ports) PROVE x \in FoundPairs'
    BY <1>2, <1>3, <1>4, <2>3
  <2> QED BY <2>1, <2>2, <2>3
<1> QED BY <1>5

-----------------------------------------------------------------------------
\* What the sources say that are read, and whether another has something to say.
NamedByFirst(count) ==
  UNION {NamedBy(Heard(invocation.sources, k), settings.known) : k \in 1 .. count}
MoreToCome ==
  \E k \in DOMAIN invocation.sources : k > taken /\ Heard(invocation.sources, k) # <<>>

\* The text names what its sources name; and as long as more is to come, its last line is
\* whole and none of its lines is a header.
ReadSoFar ==
  /\ text \in Seq(Line)
  /\ NamedBy(text, settings.known) = NamedByFirst(taken)
  /\ MoreToCome => ~open /\ Headers(text, Len(text) + 1) = {}

\* What is found is what the lines name that are parsed, and the columns are those of the last
\* header among them.
NamedByParsed == UNION {Names(text, n, settings.known) : n \in 1 .. line - 1}
ParsedSoFar ==
  phase \notin {"load", "read", "refused"} =>
    /\ line \in 1 .. Len(text) + 1
    /\ Accepted => line = Len(text) + 1
    /\ layout = HeaderOver(text, line, settings.known)
    /\ FoundPairs = NamedByParsed

TargetsInv ==
  /\ invocation \in Invocations
  /\ taken \in 0 .. Len(invocation.sources)
  /\ phase \in {"load", "read", "refused"} \/ taken = Len(invocation.sources)
  /\ phase = "load" => taken = 0 /\ text = <<>> /\ open = FALSE
  /\ phase \in {"load", "read"} => line = 1 /\ layout = NoLayout /\ found = [a \in {} |-> {}]
  /\ Separable => ReadSoFar /\ ParsedSoFar

\* While nothing is read, whatever the settings are.
LEMMA NothingRead ==
  ASSUME taken = 0, text = <<>>, open = FALSE
  PROVE  ReadSoFar
<1>1. NamedBy(text, settings.known) = {}
  BY DEF NamedBy
<1>2. NamedByFirst(taken) = {}
  BY DEF NamedByFirst
<1>3. text \in Seq(Line) /\ Len(text) = 0
  OBVIOUS
<1>4. Headers(text, Len(text) + 1) = {}
  BY <1>3 DEF Headers
<1> QED BY <1>1, <1>2, <1>3, <1>4 DEF ReadSoFar

\* One more source, of a list whose sources can be told apart.
LEMMA SourceIsRead ==
  ASSUME TargetsInv, Separable, ReadSource, phase' # "refused"
  PROVE  ReadSoFar'
<1> DEFINE sources == invocation.sources
           known == settings.known
           more == Heard(sources, taken + 1)
<1>1. /\ taken < Len(sources) /\ taken' = taken + 1
      /\ text' = Joined(text, more)
      /\ open' = IF more = <<>> THEN open ELSE LeavesOpen(sources[taken + 1])
      /\ invocation' = invocation /\ settings' = settings
  BY DEF ReadSource, Refuse
<1>2. /\ ReadSoFar /\ taken \in 0 .. Len(sources)
      /\ Len(sources) \in Nat /\ DOMAIN sources = 1 .. Len(sources)
      /\ \A k \in DOMAIN sources : sources[k].lines \in Seq(Line)
  BY InvocationsAssumption DEF TargetsInv
<1>3. taken + 1 \in DOMAIN sources /\ taken \in Nat
  BY <1>1, <1>2
<1>4. more \in Seq(Line)
  BY <1>2, <1>3 DEF Heard
<1>5. /\ text \in Seq(Line)
      /\ NamedBy(text, known) = NamedByFirst(taken)
      /\ MoreToCome => ~open /\ Headers(text, Len(text) + 1) = {}
  BY <1>2 DEF ReadSoFar
<1>6. NamedByFirst(taken)' = NamedByFirst(taken) \cup NamedBy(more, known)
  <2>1. \A k \in 1 .. taken + 1 : k = taken + 1 \/ k \in 1 .. taken
    BY <1>3
  <2>2. /\ \A k \in 1 .. taken : k \in 1 .. taken + 1
        /\ taken + 1 \in 1 .. taken + 1
    BY <1>3
  <2>3. NamedByFirst(taken)' = UNION {NamedBy(Heard(sources, k), known) : k \in 1 .. taken + 1}
    BY <1>1 DEF NamedByFirst
  <2> QED BY <2>1, <2>2, <2>3 DEF NamedByFirst
<1>7. MoreToCome' => MoreToCome
  BY <1>1, <1>2, <1>3 DEF MoreToCome
<1>8. CASE more = <<>>
  <2>1. text' = text /\ open' = open
    <3>1. text \o <<>> = text
      BY <1>5
    <3> QED BY <1>1, <1>8, <3>1 DEF Joined
  <2>2. NamedBy(more, known) = {}
    BY <1>8 DEF NamedBy
  <2>3. NamedBy(text, known)' = NamedBy(text, known)
    BY <1>1, <2>1
  <2>4. Headers(text, Len(text) + 1)' = Headers(text, Len(text) + 1)
    BY <2>1
  <2> QED BY <1>5, <1>6, <1>7, <2>1, <2>2, <2>3, <2>4 DEF ReadSoFar
<1>9. CASE more # <<>>
  <2>1. MoreToCome
    <3>1. taken + 1 > taken
      BY <1>3
    <3> QED BY <1>3, <1>9, <3>1 DEF MoreToCome
  <2>2. ~open /\ Headers(text, Len(text) + 1) = {}
    BY <1>5, <2>1
  <2>3. text' = text \o more
    BY <1>1, <2>2 DEF Joined
  <2> HIDE DEF more
  <2>4. NamedBy(text', known) = NamedBy(text, known) \cup NamedBy(more, known)
    BY <1>4, <1>5, <2>2, <2>3, NamesOfJoined
  <2>5. text' \in Seq(Line)
    BY <1>4, <1>5, <2>3
  <2>6. ASSUME MoreToCome'
        PROVE  ~open' /\ Headers(text', Len(text') + 1) = {}
    <3>1. PICK later \in DOMAIN sources : later > taken + 1 /\ Heard(sources, later) # <<>>
      BY <1>1, <2>6 DEF MoreToCome
    <3>2. taken + 1 < later
      BY <1>2, <1>3, <3>1
    <3>3. /\ more # <<>> /\ sources[taken + 1].from = "stdin" => sources[taken + 1].ended
          /\ HeaderOver(more, Len(more) + 1, known) = NoLayout
      BY <1>3, <3>1, <3>2 DEF Separable, more
    <3>4. ~open'
      BY <1>1, <1>9, <3>3 DEF LeavesOpen
    <3>5. Headers(more, Len(more) + 1) = {}
      <4>1. Len(more) + 1 \in Nat \ {0}
        BY <1>4
      <4> QED BY <3>3, <4>1, NoHeaderAbove
    <3>6. Headers(text', Len(text') + 1) = {}
      BY <1>4, <1>5, <2>2, <2>3, <3>5, HeadersOfJoined
    <3> QED BY <3>4, <3>6
  <2> QED BY <1>1, <1>5, <1>6, <2>4, <2>5, <2>6 DEF ReadSoFar
<1> QED BY <1>8, <1>9
\* One more line, whatever it says.
LEMMA LineIsParsed ==
  ASSUME ReadSoFar, ParsedSoFar, ParsesLine, Unparsed, phase' = "parse",
         layout' = HeaderOver(text, line + 1, settings.known),
         FoundPairs' = FoundPairs \cup Names(text, line, settings.known)
  PROVE  ParsedSoFar'
<1>1. /\ phase = "parse" /\ line \in DOMAIN text /\ line' = line + 1
      /\ text' = text /\ settings' = settings
  BY DEF ParsesLine, Unparsed
<1>2. Len(text) \in Nat /\ line \in 1 .. Len(text) /\ FoundPairs = NamedByParsed
  BY <1>1 DEF ReadSoFar, ParsedSoFar
<1>3. NamedByParsed' = NamedByParsed \cup Names(text, line, settings.known)
  <2>1. NamedByParsed' = UNION {Names(text, n, settings.known) : n \in 1 .. (line + 1) - 1}
    BY <1>1 DEF NamedByParsed
  <2>2. \A n \in 1 .. (line + 1) - 1 : n = line \/ n \in 1 .. line - 1
    BY <1>2
  <2>3. /\ \A n \in 1 .. line - 1 : n \in 1 .. (line + 1) - 1
        /\ line \in 1 .. (line + 1) - 1
    BY <1>2
  <2> QED BY <2>1, <2>2, <2>3 DEF NamedByParsed
<1>4. line' \in 1 .. Len(text') + 1
  BY <1>1, <1>2
<1> QED BY <1>1, <1>2, <1>3, <1>4 DEF ParsedSoFar, Accepted

\* A comment or an empty line.
LEMMA SkippedLine ==
  ASSUME ReadSoFar, ParsedSoFar, SkipLine
  PROVE  ParsedSoFar'
<1>1. /\ ParsesLine /\ Unparsed /\ Skipped(text[line])
      /\ phase' = phase /\ layout' = layout /\ found' = found
  BY DEF SkipLine
<1>2. phase = "parse" /\ line \in Nat \ {0}
  BY <1>1 DEF ParsesLine, ReadSoFar
<1>3. layout' = HeaderOver(text, line + 1, settings.known)
  BY <1>1, <1>2, HeaderBelow DEF ParsedSoFar
<1>4. Names(text, line, settings.known) = {}
  BY <1>1 DEF Names
<1>5. FoundPairs' = FoundPairs
  BY <1>1 DEF FoundPairs
<1> QED BY <1>1, <1>2, <1>3, <1>4, <1>5, LineIsParsed

\* The line that is parsed is a line of the text.
LEMMA CurrentLine ==
  ASSUME ReadSoFar, ParsesLine
  PROVE  line \in Nat \ {0} /\ text[line] \in Line /\ Current = Stripped(text[line])
BY DEF ReadSoFar, ParsesLine, Current

\* A header.
LEMMA HeaderIsParsed ==
  ASSUME ReadSoFar, ParsedSoFar, ReadHeader, phase' # "refused"
  PROVE  ParsedSoFar'
<1>1. /\ ParsesLine /\ Unparsed /\ ~Skipped(text[line]) /\ IsHeader(Current)
      /\ layout' = LayoutOf(Current, settings.known) /\ phase' = phase /\ found' = found
  BY DEF ReadHeader, Refuse
<1>2. /\ line \in Nat \ {0} /\ Current = text[line] /\ IsHeader(text[line])
      /\ IsHeader(Stripped(text[line]))
  BY <1>1, CurrentLine, StrippedLine
<1>3. layout' = HeaderOver(text, line + 1, settings.known)
  BY <1>1, <1>2, HeaderBelow
<1>4. Names(text, line, settings.known) = {}
  BY <1>2 DEF Names
<1>5. FoundPairs' = FoundPairs
  BY <1>1 DEF FoundPairs
<1>6. phase' = "parse"
  BY <1>1 DEF ParsesLine
<1> QED BY <1>1, <1>3, <1>4, <1>5, <1>6, LineIsParsed

\* A network, or a row.
LEMMA TargetIsParsed ==
  ASSUME ReadSoFar, ParsedSoFar, ExpandNet \/ AddRow, phase' # "refused"
  PROVE  ParsedSoFar'
<1> DEFINE over == HeaderOver(text, line, settings.known)
           named == Names(text, line, settings.known)
<1>1. /\ ParsesLine /\ Unparsed /\ ~Skipped(text[line]) /\ ~IsHeader(Current)
      /\ layout' = layout /\ phase' = phase
  BY DEF ExpandNet, AddRow, Refuse
<1>2. /\ line \in Nat \ {0} /\ text[line] \in Line /\ Current = Stripped(text[line])
  BY <1>1, CurrentLine
<1>3. /\ Current \in Seq(Field) /\ ~IsHeader(text[line])
      /\ IsNet(Current) => Current[1][1][2] \in Addresses
  BY <1>1, <1>2, StrippedLine
<1>4. phase = "parse" /\ layout = over
  BY <1>1 DEF ParsesLine, ParsedSoFar
<1>5. HeaderOver(text, line + 1, settings.known) = over
  BY <1>2, <1>3, HeaderBelow
<1>6. named = IF IsNet(Current)
              THEN {a \in Addresses :
                      a \div NetSize(Current) = Current[1][1][2] \div NetSize(Current)} \X {0}
              ELSE IF IsRow(Current, over)
                   THEN {RowAddress(Current, over)} \X ({0} \cup RowPorts(Current, over))
                   ELSE {}
  BY <1>1, <1>2, Zenon DEF Names
<1> HIDE DEF over, named
<1>7. FoundPairs' = FoundPairs \cup named
  <2>1. CASE ExpandNet
    <3>1. IsNet(Current) /\ found' = With(Network(Current) .. Broadcast(Current), {})
      BY <2>1 DEF ExpandNet, Refuse
    <3>2. FoundPairs' =
            FoundPairs \cup ((Network(Current) .. Broadcast(Current)) \X ({0} \cup {}))
      BY <3>1, FoundWith, Zenon
    <3>3. {0} \cup {} = {0}
      OBVIOUS
    <3>4. named = (Network(Current) .. Broadcast(Current)) \X {0}
      BY <1>3, <1>6, <3>1, NetworkIsPrefix, Zenon
    <3> QED BY <3>2, <3>3, <3>4, Zenon
  <2>2. CASE AddRow
    <3>1. /\ ~Has(Current, "/") /\ IsRow(Current, layout)
          /\ found' = With({RowAddress(Current, layout)}, RowPorts(Current, layout))
      BY <2>2 DEF AddRow, Refuse
    <3>2. ~IsNet(Current)
      BY <1>3, <3>1, NetHasSlash
    <3>3. FoundPairs' =
            FoundPairs \cup ({RowAddress(Current, layout)}
                               \X ({0} \cup RowPorts(Current, layout)))
      BY <3>1, FoundWith, Zenon
    <3>4. named = {RowAddress(Current, layout)} \X ({0} \cup RowPorts(Current, layout))
      BY <1>4, <1>6, <3>1, <3>2, Zenon
    <3> QED BY <3>3, <3>4, Zenon
  <2> QED BY <2>1, <2>2
<1>8. phase' = "parse" /\ layout' = HeaderOver(text, line + 1, settings.known)
  BY <1>1, <1>4, <1>5
<1> QED BY <1>1, <1>7, <1>8, LineIsParsed DEF named

-----------------------------------------------------------------------------
\* TargetsInv is inductive.
LEMMA InitTargets == Init => TargetsInv
<1> SUFFICES ASSUME Init PROVE TargetsInv
  OBVIOUS
<1>1. /\ invocation \in Invocations /\ phase = "load" /\ taken = 0 /\ text = <<>>
      /\ open = FALSE /\ line = 1 /\ layout = NoLayout /\ found = [a \in {} |-> {}]
  BY DEF Init
<1>2. taken \in 0 .. Len(invocation.sources)
  BY <1>1, InvocationsAssumption
<1>3. ReadSoFar
  BY <1>1, NothingRead
<1> QED BY <1>1, <1>2, <1>3 DEF TargetsInv, ParsedSoFar

\* Whether the sources can be told apart is settled with the settings.
LEMMA SeparableStays ==
  ASSUME invocation' = invocation, settings' = settings
  PROVE  Separable' <=> Separable
BY DEF Separable

\* What has been read stays, and what it says.
LEMMA ReadStays ==
  ASSUME ReadSoFar, UNCHANGED <<invocation, settings, taken, text, open>>
  PROVE  ReadSoFar'
<1>1. MoreToCome' <=> MoreToCome
  BY DEF MoreToCome
<1>2. NamedByFirst(taken)' = NamedByFirst(taken)
  BY DEF NamedByFirst
<1> QED BY <1>1, <1>2 DEF ReadSoFar

LEMMA StepTargets == TargetsInv /\ [Next]_vars => TargetsInv'
<1> SUFFICES ASSUME TargetsInv, [Next]_vars PROVE TargetsInv'
  OBVIOUS
<1>1. CASE LoadSettings
  <2>1. /\ phase = "load" /\ phase' \in {"read", "refused"}
        /\ UNCHANGED <<invocation, taken, text, open, line, layout, found>>
    BY <1>1 DEF LoadSettings, Refuse
  <2>2. /\ taken = 0 /\ text = <<>> /\ open = FALSE
        /\ taken' = 0 /\ text' = <<>> /\ open' = FALSE
    BY <2>1 DEF TargetsInv
  <2>3. ReadSoFar'
    <3>1. NamedBy(text', settings'.known) = {}
      BY <2>2 DEF NamedBy
    <3>2. NamedByFirst(taken)' = {}
      BY <2>2 DEF NamedByFirst
    <3>3. text' \in Seq(Line) /\ Len(text') = 0
      BY <2>2
    <3>4. Headers(text', Len(text') + 1) = {}
      BY <3>3 DEF Headers
    <3> QED BY <2>2, <3>1, <3>2, <3>3, <3>4 DEF ReadSoFar
  <2>4. ParsedSoFar'
    BY <2>1 DEF ParsedSoFar
  <2> QED BY <2>1, <2>2, <2>3, <2>4 DEF TargetsInv
<1>2. CASE ReadSource
  <2>1. /\ phase = "read" /\ taken < Len(invocation.sources)
        /\ UNCHANGED <<invocation, settings, line, layout, found>>
        /\ \/ phase' = "refused" /\ UNCHANGED <<taken, text, open>>
           \/ phase' = "read" /\ taken' = taken + 1
    BY <1>2 DEF ReadSource, Refuse
  <2>2. Separable' <=> Separable
    BY <2>1, SeparableStays
  <2>3. taken' \in 0 .. Len(invocation.sources)
    BY <2>1, InvocationsAssumption DEF TargetsInv
  <2>4. ASSUME Separable PROVE ReadSoFar'
    <3>1. CASE phase' = "refused"
      BY <2>1, <2>4, <3>1, ReadStays DEF TargetsInv
    <3>2. CASE phase' # "refused"
      BY <1>2, <2>4, <3>2, SourceIsRead
    <3> QED BY <3>1, <3>2
  <2>5. ParsedSoFar'
    BY <2>1 DEF ParsedSoFar
  <2> QED BY <2>1, <2>2, <2>3, <2>4, <2>5 DEF TargetsInv
<1>3. CASE FinishReading
  <2>1. /\ phase = "read" /\ phase' = "parse" /\ taken = Len(invocation.sources)
        /\ UNCHANGED <<invocation, settings, taken, text, open, line, layout, found>>
    BY <1>3 DEF FinishReading
  <2>2. Separable' <=> Separable
    BY <2>1, SeparableStays
  <2>3. ASSUME Separable PROVE ReadSoFar' /\ ParsedSoFar'
    <3>1. ReadSoFar'
      BY <2>1, <2>3, ReadStays DEF TargetsInv
    <3>2. text' \in Seq(Line) /\ line' = 1 /\ layout' = NoLayout /\ found' = [a \in {} |-> {}]
      BY <2>1, <3>1 DEF TargetsInv, ReadSoFar
    <3>3. Headers(text', line') = {}
      BY <3>2 DEF Headers
    <3>4. layout' = HeaderOver(text', line', settings'.known)
      BY <3>2, <3>3, HeaderIsLast
    <3>5. FoundPairs' = {}
      BY <3>2 DEF FoundPairs
    <3>6. NamedByParsed' = {}
      BY <3>2 DEF NamedByParsed
    <3>7. line' \in 1 .. Len(text') + 1
      BY <3>2
    <3> QED BY <2>1, <3>1, <3>4, <3>5, <3>6, <3>7 DEF ParsedSoFar, Accepted
  <2> QED BY <2>1, <2>2, <2>3 DEF TargetsInv
<1>4. CASE SkipLine \/ ReadHeader \/ ExpandNet \/ AddRow
  <2>1. /\ phase = "parse" /\ phase' \in {"parse", "refused"}
        /\ UNCHANGED <<invocation, settings, taken, text, open>>
    BY <1>4 DEF SkipLine, ReadHeader, ExpandNet, AddRow, ParsesLine, Unparsed, Refuse
  <2>2. Separable' <=> Separable
    BY <2>1, SeparableStays
  <2>3. ASSUME Separable PROVE ReadSoFar' /\ ParsedSoFar'
    <3>1. ReadSoFar /\ ParsedSoFar
      BY <2>3 DEF TargetsInv
    <3>2. ReadSoFar'
      BY <2>1, <3>1, ReadStays
    <3>3. CASE phase' = "refused"
      BY <3>2, <3>3 DEF ParsedSoFar
    <3>4. CASE phase' # "refused"
      BY <1>4, <3>1, <3>2, <3>4, SkippedLine, HeaderIsParsed, TargetIsParsed
    <3> QED BY <3>3, <3>4
  <2> QED BY <2>1, <2>2, <2>3 DEF TargetsInv
<1>5. CASE FinishParsing
  <2>1. /\ phase = "parse" /\ phase' \in {"refused", "check"} /\ line > Len(text)
        /\ UNCHANGED <<invocation, settings, taken, text, open, line, layout, found>>
    BY <1>5 DEF FinishParsing
  <2>2. Separable' <=> Separable
    BY <2>1, SeparableStays
  <2>3. ASSUME Separable PROVE ReadSoFar' /\ ParsedSoFar'
    <3>1. ReadSoFar /\ ParsedSoFar /\ line \in 1 .. Len(text) + 1
      BY <2>1, <2>3 DEF TargetsInv, ParsedSoFar
    <3>2. ReadSoFar'
      BY <2>1, <3>1, ReadStays
    <3>3. line' = Len(text') + 1
      BY <2>1, <3>1 DEF ReadSoFar
    <3>4. FoundPairs' = FoundPairs /\ NamedByParsed' = NamedByParsed
      BY <2>1 DEF FoundPairs, NamedByParsed
    <3> QED BY <2>1, <3>1, <3>2, <3>3, <3>4 DEF ParsedSoFar
  <2> QED BY <2>1, <2>2, <2>3 DEF TargetsInv
<1>6. CASE CheckPaths \/ DivideBudgets \/ Started \/ UNCHANGED vars
  <2>1. /\ UNCHANGED <<invocation, settings, taken, text, open, line, layout, found>>
        /\ \/ phase' = phase
           \/ Accepted /\ phase' \in {"refused", "coordinate", "scan", "workers"}
    BY <1>6 DEF CheckPaths, DivideBudgets, Started, vars, Refuse, Accepted
  <2>2. Separable' <=> Separable
    BY <2>1, SeparableStays
  <2>3. ASSUME Separable PROVE ReadSoFar' /\ ParsedSoFar'
    <3>1. ReadSoFar /\ ParsedSoFar
      BY <2>3 DEF TargetsInv
    <3>2. ReadSoFar'
      BY <2>1, <3>1, ReadStays
    <3>3. FoundPairs' = FoundPairs /\ NamedByParsed' = NamedByParsed
      BY <2>1 DEF FoundPairs, NamedByParsed
    <3> QED BY <2>1, <3>1, <3>2, <3>3 DEF ParsedSoFar, Accepted
  <2> QED BY <2>1, <2>2, <2>3 DEF TargetsInv, Accepted
<1> QED BY <1>1, <1>2, <1>3, <1>4, <1>5, <1>6 DEF Next

\* When all is read and parsed.
LEMMA AllIsNamed == TargetsInv => TargetsExact
<1> SUFFICES ASSUME TargetsInv, Accepted, Separable PROVE FoundPairs = NamedByAll
  BY DEF TargetsExact
<1> DEFINE sources == invocation.sources
<1>1. ReadSoFar /\ ParsedSoFar /\ taken = Len(sources)
  BY DEF TargetsInv, Accepted
<1>2. DOMAIN sources = 1 .. Len(sources)
  BY InvocationsAssumption DEF TargetsInv
<1>3. NamedByAll = NamedByFirst(taken)
  BY <1>1, <1>2 DEF NamedByAll, NamedByFirst
<1>4. line = Len(text) + 1 /\ FoundPairs = NamedByParsed
  BY <1>1 DEF ParsedSoFar, Accepted
<1>5. line - 1 = Len(text) /\ DOMAIN text = 1 .. Len(text)
  BY <1>1, <1>4 DEF ReadSoFar
<1>6. NamedByParsed = NamedBy(text, settings.known)
  BY <1>5, Zenon DEF NamedByParsed, NamedBy
<1> QED BY <1>1, <1>3, <1>4, <1>6 DEF ReadSoFar

\* An accepted list of sources that can be told apart is exactly what they name, for any
\* sources, any lines and any options: no address is lost or added, each has every port that
\* is named for it anywhere, networks are expanded to all of their addresses, and a header
\* counts for the lines below it (read_target_text, parse_targets, detect_header, parse_row).
THEOREM TargetsAreExact == Spec => []TargetsExact
BY InitTargets, StepTargets, AllIsNamed, PTL DEF Spec
=============================================================================
