------------------------------- MODULE Startup -------------------------------
(***************************************************************************)
(* The program from its command line to the scan: main() loads the         *)
(* settings, reads the target text piece by piece, parses it line by line, *)
(* refuses files that would be opened twice, and starts one scan or the    *)
(* worker processes of a coordinator, each with its share of the budgets.  *)
(*                                                                         *)
(* An invocation is what the user gives: the options of the command line   *)
(* and of the configuration file, as functions of the options' names, and  *)
(* the sources of targets in the order they are read.  A source is         *)
(* [from, lines, ended]: "file", "stdin" or "argument", its lines, and     *)
(* whether the last of them has its line feed.                             *)
(*                                                                         *)
(* Nothing uses an operator marked as a faulty variant: it is the one      *)
(* below it with a plausible mistake, for the mutation checks.             *)
(***************************************************************************)
EXTENDS TargetList, ArtifactPaths, FiniteSetsExt

CONSTANTS
  Invocations,        \* what the user may give
  Cores,              \* the machine's available parallelism
  MaxProcesses,       \* 64
  MaxExpanded         \* MAX_EXPANDED_TARGETS

ASSUME StartupAssumption ==
  /\ Cores \in Nat \ {0}
  /\ MaxProcesses \in Nat \ {0}
  /\ MaxExpanded \in Nat

VARIABLES
  phase,              \* where main() is: "load", "read", "parse", "check", "coordinate",
                      \* "scan", "workers" or "refused"
  invocation,
  settings,
  taken,              \* how many sources have been read
  text,               \* the lines of the target text
  open,               \* whether the last of them can still grow
  line,               \* the line that is parsed next
  layout,             \* the columns of the last header
  found,              \* the targets: address -> its known ports
  workers             \* the settings of each worker process

vars == <<phase, invocation, settings, taken, text, open, line, layout, found, workers>>

-----------------------------------------------------------------------------
\* Settings::load: the command line first, then the file, then the default.
Defaults(mode) ==
  [mode |-> "connect", known |-> "", ports |-> <<[from |-> 1, to |-> MaxPort]>>,
   rate |-> 10000, burst |-> 1000, concurrency |-> 1024, probe_concurrency |-> 128,
   fingerprint_concurrency |-> 32, host_concurrency |-> IF mode = "syn" THEN 1 ELSE 8,
   queue_depth |-> 64, worker_threads |-> Cores, processes |-> 1,
   tcp_timeout |-> 700, http_timeout |-> 1000, http_body_timeout |-> 1500,
   tls_timeout |-> 1000, max_body |-> 262144, http |-> TRUE, https |-> TRUE,
   output |-> [dir |-> ".", name |-> <<"result.jsonl">>]]

Over(given, fallback) ==
  [option \in DOMAIN given \cup DOMAIN fallback |->
     IF option \in DOMAIN given THEN given[option] ELSE fallback[option]]
Loaded(i) ==
  LET given == Over(i.cli, i.file)
  IN  Over(given, Defaults(Over(given, [mode |-> "connect"]).mode))

Positive ==
  {"rate", "burst", "concurrency", "probe_concurrency", "fingerprint_concurrency",
   "host_concurrency", "queue_depth", "worker_threads", "processes", "max_body",
   "tcp_timeout", "tls_timeout", "http_timeout", "http_body_timeout"}

\* They are read as unsigned integers, from the command line and from the file; and what
\* the sources have are lines.
ASSUME InvocationsAssumption ==
  \A i \in Invocations :
    /\ \A given \in {i.cli, i.file} :
         \A option \in Positive \cap DOMAIN given : given[option] \in Nat
    /\ Len(i.sources) \in Nat /\ DOMAIN i.sources = 1 .. Len(i.sources)
    /\ \A k \in DOMAIN i.sources : i.sources[k].lines \in Seq(Line)

SettingsRefused(s) ==
  \/ PortsRefused(s.ports)
  \/ \E option \in Positive : s[option] = 0
  \/ s.processes > MaxProcesses
  \/ ~s.http /\ ~s.https

\* A file that is to be read must be there.
Unreadable(i, role) == role \in DOMAIN i.cli /\ ~Exists(i.cli[role])

-----------------------------------------------------------------------------
\* What one source adds to the text.  Of the standard input only the first mention gives
\* anything, and only its text may end without a line feed.
IsHeard(sources, k) ==
  ~(sources[k].from = "stdin" /\ \E earlier \in 1 .. k - 1 : sources[earlier].from = "stdin")
Heard(sources, k) == IF IsHeard(sources, k) THEN sources[k].lines ELSE <<>>
LeavesOpenAll(source) == ~source.ended                               \* faulty variant
LeavesOpen(source) == source.from = "stdin" /\ ~source.ended

\* Text pushed behind an open line continues it, in its last field.
Glued(first, second) ==
  Front(first) \o <<Last(first) \o Head(second)>> \o Tail(second)
Joined(lines, more) ==
  IF open /\ more # <<>>
  THEN Front(lines) \o <<Glued(Last(lines), Head(more))>> \o Tail(more)
  ELSE lines \o more

With(addresses, ports) ==
  [a \in DOMAIN found \cup addresses |->
     (IF a \in DOMAIN found THEN found[a] ELSE {})
       \cup (IF a \in addresses THEN ports ELSE {})]

-----------------------------------------------------------------------------
\* The budgets a coordinator divides among its workers.
Divided == {"worker_threads", "rate", "burst", "concurrency", "probe_concurrency",
            "fingerprint_concurrency"}

BudgetRefused(s, targets) ==
  \/ s.processes > targets
  \/ \E option \in Divided : s[option] < s.processes

ShareRoundedDown(total, count, index) == total \div count             \* faulty variant
Share(total, count, index) ==
  total \div count + (IF index < total % count THEN 1 ELSE 0)

\* The settings of worker `index`: its own files, and of the exports none.  On a resume
\* coordinate then hands the same part state over as the one to resume: Coordinator.Resumes.
PartFile(index, suffix) == [dir |-> "parts", name |-> <<"part", index, suffix>>]
PartFiles == {"output", "metrics_json", "checkpoint"}
WorkerSettings(s, index) ==
  [option \in (DOMAIN s \ Roles) \cup PartFiles |->
     CASE option \in Divided          -> Share(s[option], s.processes, index)
       [] option = "host_concurrency" ->
            Share(IF s.host_concurrency > s.processes THEN s.host_concurrency ELSE s.processes,
                  s.processes, index)
       [] option = "processes"        -> 1
       [] option = "output"           -> PartFile(index, "hosts.jsonl")
       [] option = "metrics_json"     -> PartFile(index, "metrics.json")
       [] option = "checkpoint"       -> PartFile(index, "state")
       [] OTHER                       -> s[option]]

-----------------------------------------------------------------------------
Init ==
  /\ phase = "load"
  /\ invocation \in Invocations
  /\ settings = Defaults("connect")
  /\ taken = 0
  /\ text = <<>>
  /\ open = FALSE
  /\ line = 1
  /\ layout = NoLayout
  /\ found = [a \in {} |-> {}]
  /\ workers = <<>>

Refuse == phase' = "refused"

LoadSettings ==
  /\ phase = "load"
  /\ LET loaded == Loaded(invocation)
     IN  IF Unreadable(invocation, "config") \/ SettingsRefused(loaded)
         THEN Refuse /\ UNCHANGED settings
         ELSE phase' = "read" /\ settings' = loaded
  /\ UNCHANGED <<invocation, taken, text, open, line, layout, found, workers>>

\* read_target_text, one source: the input option's, then each argument's.
ReadSource ==
  /\ phase = "read"
  /\ taken < Len(invocation.sources)
  /\ LET source == invocation.sources[taken + 1]
         more == Heard(invocation.sources, taken + 1)
     IN  IF source.from = "file" /\ Unreadable(invocation, "input")
         THEN Refuse /\ UNCHANGED <<taken, text, open>>
         ELSE /\ taken' = taken + 1
              /\ text' = Joined(text, more)
              /\ open' = IF more = <<>> THEN open ELSE LeavesOpen(source)
              /\ UNCHANGED phase
  /\ UNCHANGED <<invocation, settings, line, layout, found, workers>>

FinishReading ==
  /\ phase = "read"
  /\ taken = Len(invocation.sources)
  /\ phase' = "parse"
  /\ UNCHANGED <<invocation, settings, taken, text, open, line, layout, found, workers>>

-----------------------------------------------------------------------------
\* parse_targets, one line.
ParsesLine == phase = "parse" /\ line \in DOMAIN text /\ line' = line + 1
Unparsed == UNCHANGED <<invocation, settings, taken, text, open, workers>>
Current == Stripped(text[line])

SkipLine ==
  /\ ParsesLine
  /\ Skipped(text[line])
  /\ UNCHANGED <<phase, layout, found>> /\ Unparsed

ReadHeader ==
  /\ ParsesLine
  /\ ~Skipped(text[line])
  /\ IsHeader(Current)
  /\ IF HeaderRefused(Current, settings.known)
     THEN Refuse /\ UNCHANGED layout
     ELSE layout' = LayoutOf(Current, settings.known) /\ UNCHANGED phase
  /\ UNCHANGED found /\ Unparsed

\* Anything with a slash is a network or nothing, a row of a table included.
ExpandNet ==
  /\ ParsesLine
  /\ ~Skipped(text[line]) /\ ~IsHeader(Current)
  /\ Has(Current, "/")
  /\ IF ~IsNet(Current)
     THEN Refuse /\ UNCHANGED found
     ELSE LET more == With(Network(Current) .. Broadcast(Current), {})
          IN  IF Cardinality(DOMAIN more) > MaxExpanded
              THEN Refuse /\ UNCHANGED found
              ELSE found' = more /\ UNCHANGED phase
  /\ UNCHANGED layout /\ Unparsed

AddRow ==
  /\ ParsesLine
  /\ ~Skipped(text[line]) /\ ~IsHeader(Current)
  /\ ~Has(Current, "/")
  /\ IF IsRow(Current, layout)
     THEN /\ found' = With({RowAddress(Current, layout)}, RowPorts(Current, layout))
          /\ UNCHANGED phase
     ELSE Refuse /\ UNCHANGED found
  /\ UNCHANGED layout /\ Unparsed

FinishParsing ==
  /\ phase = "parse"
  /\ line > Len(text)
  /\ phase' = IF found = [a \in {} |-> {}] THEN "refused" ELSE "check"
  /\ UNCHANGED <<invocation, settings, taken, text, open, line, layout, found, workers>>

-----------------------------------------------------------------------------
\* validate_artifact_paths, and the choice main() makes by the number of processes.
CheckPaths ==
  /\ phase = "check"
  /\ phase' = IF PathsRefused(NamedFiles(settings)) THEN "refused"
              ELSE IF settings.processes > 1 THEN "coordinate" ELSE "scan"
  /\ UNCHANGED <<invocation, settings, taken, text, open, line, layout, found, workers>>

\* coordinate(), up to the settings it writes into the workers' manifests.
DivideBudgets ==
  /\ phase = "coordinate"
  /\ IF BudgetRefused(settings, Cardinality(DOMAIN found))
     THEN Refuse /\ UNCHANGED workers
     ELSE /\ workers' = [k \in 1 .. settings.processes |-> WorkerSettings(settings, k - 1)]
          /\ phase' = "workers"
  /\ UNCHANGED <<invocation, settings, taken, text, open, line, layout, found>>

\* Not a step of the code: from here on it scans, or it has ended.
Started == phase \in {"scan", "workers", "refused"} /\ UNCHANGED vars

Next ==
  \/ LoadSettings
  \/ ReadSource
  \/ FinishReading
  \/ SkipLine
  \/ ReadHeader
  \/ ExpandNet
  \/ AddRow
  \/ FinishParsing
  \/ CheckPaths
  \/ DivideBudgets
  \/ Started

Spec == Init /\ [][Next]_vars

-----------------------------------------------------------------------------
Accepted == phase \in {"check", "coordinate", "scan", "workers"}

\* What source k names when it is read by itself: pairs of an address and a known port, or
\* 0.  A network is every address that agrees with its own in the prefix.
HeaderOver(lines, k, known) ==
  LET headers == {j \in 1 .. k - 1 : ~Skipped(lines[j]) /\ IsHeader(lines[j])}
  IN  IF headers = {} THEN NoLayout ELSE LayoutOf(lines[Max(headers)], known)
Names(lines, k, known) ==
  LET said == Stripped(lines[k])
      over == HeaderOver(lines, k, known)
  IN  IF Skipped(lines[k]) \/ IsHeader(said) THEN {}
      ELSE IF IsNet(said)
           THEN {a \in Addresses :
                   a \div NetSize(said) = said[1][1][2] \div NetSize(said)} \X {0}
           ELSE IF IsRow(said, over)
                THEN {RowAddress(said, over)} \X ({0} \cup RowPorts(said, over))
                ELSE {}
NamedBy(lines, known) == UNION {Names(lines, j, known) : j \in DOMAIN lines}
NamedByAll ==
  LET sources == invocation.sources
  IN  UNION {NamedBy(Heard(sources, k), settings.known) : k \in DOMAIN sources}
FoundPairs == UNION {{a} \X ({0} \cup found[a]) : a \in DOMAIN found}

\* No source is followed by another whose first line it could run into, or whose rows its
\* header could be taken for.
Separable ==
  \A k, later \in DOMAIN invocation.sources :
    k < later /\ Heard(invocation.sources, later) # <<>>
      => LET lines == Heard(invocation.sources, k)
         IN  /\ lines # <<>> /\ invocation.sources[k].from = "stdin"
                  => invocation.sources[k].ended
             /\ HeaderOver(lines, Len(lines) + 1, settings.known) = NoLayout

\* When no source ends without a line feed before another and none has a header that
\* another follows, an accepted list is exactly what the sources name one by one: each
\* address once, with every port named for it anywhere, and nothing that stands in a comment
\* (read_target_text, parse_targets).
TargetsExact == Accepted /\ Separable => FoundPairs = NamedByAll

\* The README of the program has the input and the arguments merged: every address and every
\* known port that a source names by itself is in an accepted list.
NothingDropped == Accepted => NamedByAll \subseteq FoundPairs

-----------------------------------------------------------------------------
\* Once a scan or the workers start, no two of the files they were given are one file, under
\* whatever names, but a checkpoint and the file it resumes from; and no two workers write
\* the same file.  A symbolic link to a file that is not there yet is excepted
\* (validate_artifact_paths, normalized_path, shard_settings).
Dangling(path) == Entry(path) \in DOMAIN Links /\ ~Exists(path)
NoFileTwice ==
  phase \in {"scan", "workers"} =>
    /\ LET named == NamedFiles(settings)
       IN  \A r, s \in DOMAIN named :
             r # s /\ ~MayShare(r, s) /\ ~Dangling(named[r]) /\ ~Dangling(named[s])
               => Opened(named[r]) # Opened(named[s])
    /\ \A j, k \in DOMAIN workers :
         \A r \in Roles \cap DOMAIN workers[j], s \in Roles \cap DOMAIN workers[k] :
           <<j, r>> # <<k, s>> => workers[j][r] # workers[k][s]

\* What the first workers have of an option together, and all of them.
TotalOfFirst(option) ==
  LET sum[n \in 0 .. Len(workers)] ==
        IF n = 0 THEN 0 ELSE sum[n - 1] + workers[n][option]
  IN  sum
Total(option) == TotalOfFirst(option)[Len(workers)]

\* The shares of the workers add up to the budget they divide, no more and no less, and every
\* worker can run: it has at least one of each, a host at a time included
\* (validate_process_budget, share, shard_settings).
BudgetsAddUp ==
  phase = "workers" =>
    /\ \A option \in Divided : Total(option) = settings[option]
    /\ Total("host_concurrency") >= settings.host_concurrency
    /\ \A k \in DOMAIN workers : \A option \in Positive : workers[k][option] > 0

=============================================================================
