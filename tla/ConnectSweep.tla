---------------------------- MODULE ConnectSweep ----------------------------
(***************************************************************************)
(* ConnectScanner::discover of scanner/mod.rs, for several hosts at once:  *)
(* each keeps a window of connect attempts, and all of them share the      *)
(* token bucket of --rate and the semaphore of --concurrency.              *)
(*                                                                         *)
(* The attempts of a host are futures of its own FuturesUnordered: they    *)
(* run only while discover awaits work.next(), and the first to finish is  *)
(* handed back at once.  Time is left out: a connect may time out at any   *)
(* moment, and Refill is the passing of 1/rate seconds.                    *)
(*                                                                         *)
(* Nothing uses an operator marked as a faulty variant: it is the one      *)
(* below it with a plausible mistake, for the mutation checks.             *)
(***************************************************************************)
EXTENDS Naturals, FiniteSets

CONSTANTS
  Hosts,
  NumPorts,           \* ports.len(); a port is its place in the sorted vector
  Targets,            \* how each host's ports may take a connect
  Window,             \* per_host_inflight
  Sockets,            \* permits of the shared semaphore: settings.concurrency
  Burst,              \* settings.burst
  Retries             \* settings.tcp_retries

Ports == 1 .. NumPorts
Kinds == {"open", "flaky", "closed", "silent"}

ASSUME ConnectAssumption ==
  /\ NumPorts \in Nat \ {0} /\ Window \in Nat \ {0}
  /\ Sockets \in Nat \ {0} /\ Burst \in Nat \ {0} /\ Retries \in Nat
  /\ Targets \subseteq [Hosts -> [Ports -> Kinds]]

VARIABLES
  target,
  cancelled, late,    \* the CancellationToken, now and when discover was called
  pc,                 \* discover of each host: filling its window, awaiting a future,
                      \* looking at the token after one, or returned
  next,               \* the first port not queued yet
  probe,              \* [pc, attempt] of each port's future
  attempted, open,
  outcome,
  permits, tokens,
  accepted,           \* auxiliary: the ports whose connect has succeeded
  refused,            \* auxiliary: the ports whose connect was refused
  started, refilled   \* auxiliary: connects started and tokens gained, of all hosts

vars == <<target, cancelled, late, pc, next, probe, attempted, open, outcome, permits,
          tokens, accepted, refused, started, refilled>>

environment == <<target, cancelled, late>>
history == <<accepted, refused, started, refilled>>

-----------------------------------------------------------------------------
Idle == [pc |-> "idle", attempt |-> 0]
NoOutcome == [open |-> {}, complete |-> FALSE, returned |-> FALSE]

Init ==
  /\ target \in Targets
  /\ late \in BOOLEAN /\ cancelled = late
  /\ pc = [h \in Hosts |-> "fill"]
  /\ next = [h \in Hosts |-> 1]
  /\ probe = [h \in Hosts |-> [p \in Ports |-> Idle]]
  /\ attempted = [h \in Hosts |-> 0]
  /\ open = [h \in Hosts |-> {}]
  /\ outcome = [h \in Hosts |-> NoOutcome]
  /\ permits = Sockets /\ tokens = Burst
  /\ accepted = [h \in Hosts |-> {}] /\ refused = [h \in Hosts |-> {}]
  /\ started = 0 /\ refilled = 0

\* The futures in work.
InFlight(h) == {p \in Ports : probe[h][p].pc \in {"throttled", "waiting", "connecting"}}

HasWindow(h) == Cardinality(InFlight(h)) < Window

MayQueueAnyway(h) == next[h] <= NumPorts /\ HasWindow(h)         \* faulty variant
MayQueue(h) == next[h] <= NumPorts /\ HasWindow(h) /\ ~cancelled

Queue(h) ==
  /\ pc[h] = "fill"
  /\ MayQueue(h)
  /\ probe' = [probe EXCEPT ![h][next[h]].pc = "throttled"]
  /\ next' = [next EXCEPT ![h] = @ + 1]
  /\ UNCHANGED <<environment, pc, attempted, open, outcome, permits, tokens, history>>

CompleteWhenQueued(h) == next[h] > NumPorts                     \* faulty variant
Complete(h) == attempted[h] = NumPorts

DrainedOrCancelled(h) == cancelled \/ InFlight(h) = {}          \* faulty variant
Drained(h) == InFlight(h) = {}

\* Nothing more to queue: await the futures in flight, or return when there is none.
EndFill(h) ==
  /\ pc[h] = "fill"
  /\ ~MayQueue(h)
  /\ IF Drained(h)
       THEN /\ pc' = [pc EXCEPT ![h] = "returned"]
            /\ outcome' = [outcome EXCEPT ![h] =
                 [open |-> open[h], complete |-> Complete(h), returned |-> TRUE]]
       ELSE /\ pc' = [pc EXCEPT ![h] = "await"]
            /\ UNCHANGED outcome
  /\ UNCHANGED <<environment, next, probe, attempted, open, permits, tokens, history>>

-----------------------------------------------------------------------------
\* One token per attempt, retries included...
AcquireToken(h, p) ==
  /\ pc[h] = "await" /\ probe[h][p].pc = "throttled"
  /\ tokens > 0
  /\ tokens' = tokens - 1
  /\ probe' = [probe EXCEPT ![h][p].pc = "waiting"]
  /\ UNCHANGED <<environment, pc, next, attempted, open, outcome, permits, history>>

\* ... and then a socket of the global budget.
AcquirePermit(h, p) ==
  /\ pc[h] = "await" /\ probe[h][p].pc = "waiting"
  /\ permits > 0
  /\ permits' = permits - 1
  /\ started' = started + 1
  /\ probe' = [probe EXCEPT ![h][p].pc = "connecting"]
  /\ UNCHANGED <<environment, pc, next, attempted, open, outcome, tokens, accepted, refused,
                 refilled>>

\* What a connect may come to.
Verdicts(h, p) ==
  CASE target[h][p] = "open"   -> {"open"}
    [] target[h][p] = "flaky"  -> {"open", "filtered"}
    [] target[h][p] = "closed" -> {"closed", "filtered"}
    [] target[h][p] = "silent" -> {"filtered"}

IsFinalOneLate(h, p, verdict) ==                                \* faulty variant
  verdict # "filtered" \/ probe[h][p].attempt > Retries
IsFinal(h, p, verdict) == verdict # "filtered" \/ probe[h][p].attempt = Retries

\* The permit that a connect gives back, whatever its verdict.
FreedIfOpen(verdict) == IF verdict = "open" THEN 1 ELSE 0       \* faulty variant
Freed(verdict) == 1

\* The next attempt of a port goes through the bucket like its first.
Again(h, p) == [probe[h][p] EXCEPT !.pc = "throttled", !.attempt = @ + 1]

\* The connect ends.  A final verdict ends the future too, and discover takes it.
Connected(h, p) ==
  /\ pc[h] = "await" /\ probe[h][p].pc = "connecting"
  /\ \E verdict \in Verdicts(h, p) :
       /\ permits' = permits + Freed(verdict)
       /\ accepted' = [accepted EXCEPT ![h] = IF verdict = "open" THEN @ \cup {p} ELSE @]
       /\ refused' = [refused EXCEPT ![h] = IF verdict = "closed" THEN @ \cup {p} ELSE @]
       /\ IF IsFinal(h, p, verdict)
            THEN /\ probe' = [probe EXCEPT ![h][p].pc = "done"]
                 /\ attempted' = [attempted EXCEPT ![h] = @ + 1]
                 /\ open' = [open EXCEPT ![h] = IF verdict = "open" THEN @ \cup {p} ELSE @]
                 /\ pc' = [pc EXCEPT ![h] = "finished"]
            ELSE /\ probe' = [probe EXCEPT ![h][p] = Again(h, p)]
                 /\ UNCHANGED <<attempted, open, pc>>
  /\ UNCHANGED <<environment, next, outcome, tokens, started, refilled>>

\* After a future: a cancel stops the queueing for good.
AfterOne(h) ==
  /\ pc[h] = "finished"
  /\ next' = [next EXCEPT ![h] = IF cancelled /\ @ <= NumPorts THEN NumPorts + 1 ELSE @]
  /\ pc' = [pc EXCEPT ![h] = "fill"]
  /\ UNCHANGED <<environment, probe, attempted, open, outcome, permits, tokens, history>>

\* The bucket gains a token, up to the burst.
Refill ==
  /\ tokens < Burst
  /\ tokens' = tokens + 1 /\ refilled' = refilled + 1
  /\ UNCHANGED <<environment, pc, next, probe, attempted, open, outcome, permits, accepted,
                 refused, started>>

Cancel ==
  /\ ~cancelled /\ \E h \in Hosts : pc[h] # "returned"
  /\ cancelled' = TRUE
  /\ UNCHANGED <<target, late, pc, next, probe, attempted, open, outcome, permits, tokens,
                 history>>

\* Not a step of the code: every host's discover has returned.
AllReturned ==
  /\ \A h \in Hosts : pc[h] = "returned"
  /\ UNCHANGED vars

ProbeStep(h) ==
  \E p \in Ports : AcquireToken(h, p) \/ AcquirePermit(h, p) \/ Connected(h, p)
HostStep(h) == Queue(h) \/ EndFill(h) \/ AfterOne(h) \/ ProbeStep(h)

Next == (\E h \in Hosts : HostStep(h)) \/ Refill \/ Cancel \/ AllReturned

Spec == Init /\ [][Next]_vars

\* The runtime polls a host whose futures can go on, every connect ends by its timeout at
\* the latest, and time passes.
FairSpec == Spec /\ (\A h \in Hosts : WF_vars(HostStep(h))) /\ WF_vars(Refill)

-----------------------------------------------------------------------------
\* The ports of a host that may take a connect.
Accepting(h) == {p \in Ports : target[h][p] \in {"open", "flaky"}}

TypeOK ==
  /\ target \in Targets /\ cancelled \in BOOLEAN /\ late \in BOOLEAN
  /\ pc \in [Hosts -> {"fill", "await", "finished", "returned"}]
  /\ next \in [Hosts -> 1 .. NumPorts + 1]
  /\ probe \in [Hosts -> [Ports ->
       [pc : {"idle", "throttled", "waiting", "connecting", "done"}, attempt : 0 .. Retries]]]
  /\ attempted \in [Hosts -> 0 .. NumPorts]
  /\ open \in [Hosts -> SUBSET Ports]
  /\ outcome \in [Hosts -> [open : SUBSET Ports, complete : BOOLEAN, returned : BOOLEAN]]
  /\ permits \in 0 .. Sockets /\ tokens \in 0 .. Burst
  /\ accepted \in [Hosts -> SUBSET Ports] /\ refused \in [Hosts -> SUBSET Ports]
  /\ started \in Nat /\ refilled \in Nat

Probes(state) == {at \in Hosts \X Ports : probe[at[1]][at[2]].pc = state}

\* --concurrency is the cap of all hosts together, and no verdict, retry or cancel leaks a
\* permit: the sockets in use and the permits left are always the whole budget.
SocketsConserved == permits + Cardinality(Probes("connecting")) = Sockets

\* --rate is the limit of the whole process: all hosts together have started as many
\* connects as there were tokens, but for those that hold a token and wait for a socket.
RateConserved ==
  started + Cardinality(Probes("waiting")) + tokens = Burst + refilled

\* The two budgets that all hosts share, across windows, retries and cancels.
BudgetsConserved == SocketsConserved /\ RateConserved

\* In-flight results are not thrown away: what a host's discover returns after a cancel,
\* too, is every port whose connect has succeeded by then, and none is still connecting.
NothingThrownAway ==
  \A h \in Hosts : outcome[h].returned =>
    outcome[h].open = accepted[h] /\ InFlight(h) = {}

\* A complete outcome has a verdict of the peer, or all the attempts, for each port.
CompleteIsEarned ==
  \A h \in Hosts : outcome[h].complete =>
    \A p \in Ports : \/ p \in accepted[h] \cup refused[h]
                     \/ probe[h][p] = [pc |-> "done", attempt |-> Retries]

=============================================================================
