------------------------- MODULE ConnectSweep_proofs -------------------------
(***************************************************************************)
(* For any hosts, ports, windows, budgets and retries: the two budgets all *)
(* hosts share are never overdrawn and never leak, a sweep hands back      *)
(* every port it has seen accept, and each host's discover keeps the       *)
(* promise of ScannerBackend that the pipeline builds on.                  *)
(***************************************************************************)
EXTENDS ConnectSweep, FiniteSetTheorems, TLAPS

ProbeStates == [pc : {"idle", "throttled", "waiting", "connecting", "done"},
                attempt : 0 .. Retries]

\* The ports of a host whose future has ended.
Done(h) == {p \in Ports : probe[h][p].pc = "done"}

-----------------------------------------------------------------------------
\* The inductive invariant, in parts.  A finished future is counted once, and by then its
\* port has a verdict of the peer or has had every attempt.
FinishedAreCounted ==
  \A h \in Hosts :
    /\ attempted[h] = Cardinality(Done(h))
    /\ \A p \in Done(h) : p \in accepted[h] \cup refused[h] \/ probe[h][p].attempt = Retries

\* A port from next on has no future yet.
QueuedInOrder == \A h \in Hosts : \A p \in Ports : next[h] <= p => probe[h][p] = Idle

\* What a host has found open is what has been accepted, and only by a port that may.
OpenIsAccepted == \A h \in Hosts : open[h] = accepted[h] /\ open[h] \subseteq Accepting(h)

\* The outcome is what the sweep knows as it returns, and it returns with nothing in flight.
OutcomeOfSweep ==
  \A h \in Hosts :
    IF pc[h] = "returned"
      THEN /\ outcome[h] = [open |-> open[h], complete |-> Complete(h), returned |-> TRUE]
           /\ Drained(h)
      ELSE outcome[h] = NoOutcome

\* A scan that was cancelled before the call never attempts a connect.
LateDoesNothing ==
  late => /\ cancelled
          /\ \A h \in Hosts : /\ pc[h] \in {"fill", "returned"}
                              /\ attempted[h] = 0 /\ open[h] = {} /\ Drained(h)

\* Only finitely many futures hold a token or a socket.
HoldersAreFinite == IsFiniteSet(Probes("waiting")) /\ IsFiniteSet(Probes("connecting"))

SweepInv ==
  /\ TypeOK
  /\ HoldersAreFinite /\ BudgetsConserved
  /\ FinishedAreCounted
  /\ QueuedInOrder
  /\ OpenIsAccepted
  /\ OutcomeOfSweep
  /\ LateDoesNothing

-----------------------------------------------------------------------------
LEMMA ConstantTypes ==
  /\ NumPorts \in Nat /\ NumPorts > 0 /\ Retries \in Nat
  /\ Sockets \in Nat /\ Burst \in Nat
  /\ IsFiniteSet(Ports) /\ Cardinality(Ports) = NumPorts
<1>1. NumPorts \in Nat /\ NumPorts > 0 /\ Retries \in Nat /\ Sockets \in Nat /\ Burst \in Nat
  BY ConnectAssumption DEF ConnectAssumption
<1> QED BY <1>1, FS_Interval DEF Ports

InState(f, s) == IF f.pc = s THEN 1 ELSE 0

\* How the futures in a state are counted when one of them changes.
LEMMA CountOfState ==
  ASSUME probe \in [Hosts -> [Ports -> ProbeStates]],
         NEW h \in Hosts, NEW p \in Ports, NEW f \in ProbeStates,
         probe' = [probe EXCEPT ![h][p] = f],
         NEW s, IsFiniteSet(Probes(s))
  PROVE  /\ IsFiniteSet(Probes(s)')
         /\ Cardinality(Probes(s)) \in Nat /\ Cardinality(Probes(s)') \in Nat
         /\ Cardinality(Probes(s)') + InState(probe[h][p], s)
              = Cardinality(Probes(s)) + InState(f, s)
<1>1. Cardinality(Probes(s)) \in Nat
  BY FS_CardinalityType
<1>2. \A g \in Hosts, q \in Ports :
        probe'[g][q] = IF g = h /\ q = p THEN f ELSE probe[g][q]
  OBVIOUS
<1>3. CASE f.pc = s
  <2>1. Probes(s)' = Probes(s) \cup {<<h, p>>}
    BY <1>2, <1>3 DEF Probes
  <2>2. <<h, p>> \in Probes(s) <=> probe[h][p].pc = s
    BY DEF Probes
  <2>3. /\ IsFiniteSet(Probes(s) \cup {<<h, p>>})
        /\ Cardinality(Probes(s) \cup {<<h, p>>})
             = IF <<h, p>> \in Probes(s) THEN Cardinality(Probes(s))
                                         ELSE Cardinality(Probes(s)) + 1
    BY FS_AddElement
  <2>4. Cardinality(Probes(s)') \in Nat
    BY <2>1, <2>3, FS_CardinalityType
  <2> QED BY <1>1, <1>3, <2>1, <2>2, <2>3, <2>4 DEF InState
<1>4. CASE f.pc # s
  <2>1. Probes(s)' = Probes(s) \ {<<h, p>>}
    BY <1>2, <1>4 DEF Probes
  <2>2. <<h, p>> \in Probes(s) <=> probe[h][p].pc = s
    BY DEF Probes
  <2>3. /\ IsFiniteSet(Probes(s) \ {<<h, p>>})
        /\ Cardinality(Probes(s) \ {<<h, p>>})
             = IF <<h, p>> \in Probes(s) THEN Cardinality(Probes(s)) - 1
                                         ELSE Cardinality(Probes(s))
    BY FS_RemoveElement
  <2>4. Cardinality(Probes(s)') \in Nat
    BY <2>1, <2>3, FS_CardinalityType
  <2> QED BY <1>1, <1>4, <2>1, <2>2, <2>3, <2>4 DEF InState
<1> QED BY <1>3, <1>4

\* A step of one future keeps the budgets when it takes from them what it comes to hold.
LEMMA BudgetsAfter ==
  ASSUME TypeOK, HoldersAreFinite, BudgetsConserved,
         NEW h \in Hosts, NEW p \in Ports, NEW f \in ProbeStates,
         probe' = [probe EXCEPT ![h][p] = f],
         permits' + InState(f, "connecting") = permits + InState(probe[h][p], "connecting"),
         started' + InState(f, "waiting") + tokens' + refilled
           = started + InState(probe[h][p], "waiting") + tokens + refilled',
         permits' \in Nat, tokens' \in Nat, started' \in Nat, refilled' \in Nat
  PROVE  HoldersAreFinite' /\ BudgetsConserved' /\ permits' \in 0 .. Sockets
<1>1. probe \in [Hosts -> [Ports -> ProbeStates]]
  BY DEF TypeOK, ProbeStates
<1>2. IsFiniteSet(Probes("waiting")) /\ IsFiniteSet(Probes("connecting"))
  BY DEF HoldersAreFinite
<1>3. \A s : InState(f, s) \in Nat /\ InState(probe[h][p], s) \in Nat
  BY DEF InState
<1>4. /\ IsFiniteSet(Probes("waiting")')
      /\ Cardinality(Probes("waiting")) \in Nat /\ Cardinality(Probes("waiting")') \in Nat
      /\ Cardinality(Probes("waiting")') + InState(probe[h][p], "waiting")
           = Cardinality(Probes("waiting")) + InState(f, "waiting")
  BY <1>1, <1>2, CountOfState
<1>5. /\ IsFiniteSet(Probes("connecting")')
      /\ Cardinality(Probes("connecting")) \in Nat /\ Cardinality(Probes("connecting")') \in Nat
      /\ Cardinality(Probes("connecting")') + InState(probe[h][p], "connecting")
           = Cardinality(Probes("connecting")) + InState(f, "connecting")
  BY <1>1, <1>2, CountOfState
<1>6. /\ permits \in Nat /\ tokens \in Nat /\ started \in Nat /\ refilled \in Nat
      /\ Sockets \in Nat /\ Burst \in Nat
  BY ConstantTypes DEF TypeOK
<1>7. permits' + Cardinality(Probes("connecting")') = Sockets
  <2>1. permits + Cardinality(Probes("connecting")) = Sockets
    BY DEF BudgetsConserved, SocketsConserved
  <2> QED BY <1>3, <1>5, <1>6, <2>1
<1>8. started' + Cardinality(Probes("waiting")') + tokens' = Burst + refilled'
  <2>1. started + Cardinality(Probes("waiting")) + tokens = Burst + refilled
    BY DEF BudgetsConserved, RateConserved
  <2> QED BY <1>3, <1>4, <1>6, <2>1
<1>9. permits' \in 0 .. Sockets
  BY <1>5, <1>6, <1>7
<1> QED BY <1>4, <1>5, <1>7, <1>8, <1>9
        DEF HoldersAreFinite, BudgetsConserved, SocketsConserved, RateConserved

\* A future that neither ends nor had ended leaves the count of the ended ones alone.
LEMMA StillRunning ==
  ASSUME probe \in [Hosts -> [Ports -> ProbeStates]],
         NEW h \in Hosts, NEW p \in Ports, NEW f \in ProbeStates,
         probe' = [probe EXCEPT ![h][p] = f],
         f.pc # "done", probe[h][p].pc # "done"
  PROVE  /\ \A g \in Hosts : Done(g)' = Done(g)
         /\ \A g \in Hosts : \A q \in Done(g) : probe'[g][q] = probe[g][q]
<1>1. \A g \in Hosts, q \in Ports :
        probe'[g][q] = IF g = h /\ q = p THEN f ELSE probe[g][q]
  OBVIOUS
<1> QED BY <1>1 DEF Done

LEMMA InitSweep == Init => SweepInv
<1> SUFFICES ASSUME Init PROVE SweepInv
  OBVIOUS
<1>1. TypeOK
  BY ConstantTypes DEF Init, TypeOK, Idle, NoOutcome, Ports
<1>2. Probes("waiting") = {} /\ Probes("connecting") = {}
  BY DEF Init, Probes, Idle
<1>3. HoldersAreFinite /\ BudgetsConserved
  <2>1. /\ IsFiniteSet(Probes("waiting")) /\ Cardinality(Probes("waiting")) = 0
        /\ IsFiniteSet(Probes("connecting")) /\ Cardinality(Probes("connecting")) = 0
    BY <1>2, FS_EmptySet
  <2> QED BY <2>1, ConstantTypes
          DEF Init, HoldersAreFinite, BudgetsConserved, SocketsConserved, RateConserved
<1>4. \A h \in Hosts : Done(h) = {} /\ Drained(h)
  BY DEF Init, Done, Drained, InFlight, Idle
<1>5. FinishedAreCounted
  BY <1>4, FS_EmptySet DEF Init, FinishedAreCounted
<1>6. QueuedInOrder /\ OpenIsAccepted /\ OutcomeOfSweep
  BY DEF Init, QueuedInOrder, OpenIsAccepted, OutcomeOfSweep
<1>7. LateDoesNothing
  BY <1>4 DEF Init, LateDoesNothing
<1> QED BY <1>1, <1>3, <1>5, <1>6, <1>7 DEF SweepInv

\* One more future of host h begins.
LEMMA QueueSweep == ASSUME SweepInv, NEW h \in Hosts, Queue(h) PROVE SweepInv'
<1> DEFINE p == next[h]
           f == [probe[h][p] EXCEPT !.pc = "throttled"]
<1>1. /\ TypeOK /\ HoldersAreFinite /\ BudgetsConserved /\ FinishedAreCounted
      /\ QueuedInOrder /\ OpenIsAccepted /\ OutcomeOfSweep /\ LateDoesNothing
  BY DEF SweepInv
<1>2. /\ p \in Ports /\ probe[h][p] = Idle /\ pc[h] = "fill" /\ ~cancelled
      /\ NumPorts \in Nat /\ next[h] \in 1 .. NumPorts + 1
  BY <1>1, ConstantTypes DEF Queue, MayQueue, TypeOK, QueuedInOrder, Ports
<1>3. /\ probe \in [Hosts -> [Ports -> ProbeStates]] /\ f \in ProbeStates
      /\ probe' = [probe EXCEPT ![h][p] = f] /\ f.pc = "throttled"
  <2>1. probe \in [Hosts -> [Ports -> ProbeStates]]
    BY <1>1 DEF TypeOK, ProbeStates
  <2>2. f \in ProbeStates /\ f.pc = "throttled"
    BY <1>2, <2>1 DEF ProbeStates
  <2>3. probe' = [probe EXCEPT ![h][p] = f]
    BY DEF Queue
  <2> QED BY <2>1, <2>2, <2>3
<1> HIDE DEF f
<1>4. \A g \in Hosts, q \in Ports :
        probe'[g][q] = IF g = h /\ q = p THEN f ELSE probe[g][q]
  BY <1>2, <1>3
<1>5. TypeOK'
  <2>1. next' \in [Hosts -> 1 .. NumPorts + 1]
    BY <1>1, <1>2 DEF Queue, TypeOK, Ports
  <2>2. probe' \in [Hosts -> [Ports -> ProbeStates]]
    BY <1>2, <1>3
  <2> QED BY <1>1, <2>1, <2>2 DEF Queue, TypeOK, environment, history, ProbeStates
<1>6. HoldersAreFinite' /\ BudgetsConserved'
  <2>1. Probes("waiting")' = Probes("waiting") /\ Probes("connecting")' = Probes("connecting")
    BY <1>2, <1>3, <1>4 DEF Probes, Idle
  <2> QED BY <1>1, <2>1
          DEF Queue, history, HoldersAreFinite, BudgetsConserved, SocketsConserved,
              RateConserved
<1>7. FinishedAreCounted'
  <2>1. /\ \A g \in Hosts : Done(g)' = Done(g)
        /\ \A g \in Hosts : \A q \in Done(g) : probe'[g][q] = probe[g][q]
    <3>1. probe[h][p].pc # "done" /\ f.pc # "done"
      BY <1>2, <1>3 DEF Idle
    <3> HIDE DEF p
    <3> QED BY <1>2, <1>3, <3>1, StillRunning
  <2> QED BY <1>1, <2>1 DEF Queue, history, FinishedAreCounted
<1>8. QueuedInOrder'
  <2> SUFFICES ASSUME NEW g \in Hosts, NEW q \in Ports, next'[g] <= q
               PROVE  probe'[g][q] = Idle
    BY DEF QueuedInOrder
  <2>1. next'[g] = IF g = h THEN next[h] + 1 ELSE next[g]
    BY <1>1 DEF Queue, TypeOK
  <2>2. q \in Nat /\ next[g] <= q /\ ~(g = h /\ q = p)
    BY <1>1, <1>2, <2>1 DEF Ports, TypeOK
  <2> QED BY <1>1, <1>4, <2>2 DEF QueuedInOrder
<1>9. OpenIsAccepted'
  BY <1>1 DEF OpenIsAccepted, Queue, environment, history, Accepting
<1>10. OutcomeOfSweep'
  <2> SUFFICES ASSUME NEW g \in Hosts
               PROVE  IF pc'[g] = "returned"
                        THEN /\ outcome'[g] = [open |-> open'[g], complete |-> Complete(g)',
                                               returned |-> TRUE]
                             /\ Drained(g)'
                        ELSE outcome'[g] = NoOutcome
    BY DEF OutcomeOfSweep
  <2>1. pc[g] = "returned" => g # h /\ (Drained(g) => Drained(g)')
    BY <1>2, <1>4 DEF Drained, InFlight
  <2> QED BY <1>1, <2>1 DEF OutcomeOfSweep, Queue, Complete
<1>11. LateDoesNothing'
  BY <1>1, <1>2 DEF LateDoesNothing, Queue, environment
<1> QED BY <1>5, <1>6, <1>7, <1>8, <1>9, <1>10, <1>11 DEF SweepInv

\* A sweep that has come to the end of what it may queue waits or returns.
LEMMA EndFillSweep == ASSUME SweepInv, NEW h \in Hosts, EndFill(h) PROVE SweepInv'
<1>1. /\ TypeOK /\ HoldersAreFinite /\ BudgetsConserved /\ FinishedAreCounted
      /\ QueuedInOrder /\ OpenIsAccepted /\ OutcomeOfSweep /\ LateDoesNothing
  BY DEF SweepInv
<1>2. /\ probe' = probe /\ attempted' = attempted /\ open' = open /\ accepted' = accepted
      /\ refused' = refused /\ next' = next /\ target' = target
  BY DEF EndFill, environment, history
<1>3. TypeOK'
  <2>1. outcome' \in [Hosts -> [open : SUBSET Ports, complete : BOOLEAN, returned : BOOLEAN]]
    <3>1. Complete(h) \in BOOLEAN /\ open[h] \subseteq Ports
      BY <1>1 DEF Complete, TypeOK
    <3>2. outcome \in [Hosts -> [open : SUBSET Ports, complete : BOOLEAN, returned : BOOLEAN]]
      BY <1>1 DEF TypeOK
    <3>3. [open |-> open[h], complete |-> Complete(h), returned |-> TRUE]
            \in [open : SUBSET Ports, complete : BOOLEAN, returned : BOOLEAN]
      BY <3>1, Zenon
    <3> QED BY <3>2, <3>3, Zenon DEF EndFill
  <2>2. pc' \in [Hosts -> {"fill", "await", "finished", "returned"}]
    BY <1>1 DEF EndFill, TypeOK
  <2> QED BY <1>1, <2>1, <2>2 DEF EndFill, TypeOK, environment, history
<1>4. HoldersAreFinite' /\ BudgetsConserved'
  BY <1>1 DEF EndFill, history, HoldersAreFinite, BudgetsConserved, SocketsConserved,
              RateConserved, Probes
<1>5. FinishedAreCounted' /\ QueuedInOrder' /\ OpenIsAccepted'
  BY <1>1, <1>2 DEF FinishedAreCounted, QueuedInOrder, OpenIsAccepted, Accepting, Done
<1>6. OutcomeOfSweep'
  <2> SUFFICES ASSUME NEW g \in Hosts
               PROVE  IF pc'[g] = "returned"
                        THEN /\ outcome'[g] = [open |-> open[g], complete |-> Complete(g),
                                               returned |-> TRUE]
                             /\ Drained(g)
                        ELSE outcome'[g] = NoOutcome
    BY <1>2 DEF OutcomeOfSweep, Complete, Drained, InFlight
  <2>1. CASE g = h
    BY <1>1, <2>1 DEF EndFill, TypeOK, OutcomeOfSweep
  <2>2. CASE g # h
    <3>1. pc'[g] = pc[g] /\ outcome'[g] = outcome[g]
      BY <1>1, <2>2 DEF EndFill, TypeOK
    <3> QED BY <1>1, <3>1 DEF OutcomeOfSweep
  <2> QED BY <2>1, <2>2
<1>7. LateDoesNothing'
  <2> SUFFICES ASSUME late, NEW g \in Hosts
               PROVE  cancelled' /\ pc'[g] \in {"fill", "returned"} /\ Drained(g)'
                      /\ attempted'[g] = 0 /\ open'[g] = {}
    BY DEF LateDoesNothing, EndFill, environment
  <2>1. cancelled /\ Drained(g) /\ Drained(h) /\ pc[g] \in {"fill", "returned"}
        /\ attempted[g] = 0 /\ open[g] = {}
    BY <1>1 DEF LateDoesNothing
  <2> QED BY <1>1, <1>2, <2>1 DEF EndFill, TypeOK, environment, Drained, InFlight
<1> QED BY <1>3, <1>4, <1>5, <1>6, <1>7 DEF SweepInv

-----------------------------------------------------------------------------
\* A future goes from one of its waits to another: only the budgets can notice.
LEMMA FutureGoesOn ==
  ASSUME SweepInv, NEW h \in Hosts, NEW p \in Ports, NEW f \in ProbeStates,
         pc[h] = "await", probe' = [probe EXCEPT ![h][p] = f],
         probe[h][p].pc \in {"throttled", "waiting", "connecting"},
         f.pc \in {"throttled", "waiting", "connecting"},
         UNCHANGED <<environment, pc, next, attempted, open, outcome, accepted, refused>>
  PROVE  /\ FinishedAreCounted' /\ QueuedInOrder' /\ OpenIsAccepted' /\ OutcomeOfSweep'
         /\ LateDoesNothing'
         /\ probe' \in [Hosts -> [Ports -> ProbeStates]]
<1>1. /\ TypeOK /\ FinishedAreCounted /\ QueuedInOrder /\ OpenIsAccepted /\ OutcomeOfSweep
      /\ LateDoesNothing
  BY DEF SweepInv
<1>2. probe \in [Hosts -> [Ports -> ProbeStates]]
  BY <1>1 DEF TypeOK, ProbeStates
<1>3. \A g \in Hosts, q \in Ports :
        probe'[g][q] = IF g = h /\ q = p THEN f ELSE probe[g][q]
  BY <1>2
<1>4. FinishedAreCounted'
  <2>1. f.pc # "done" /\ probe[h][p].pc # "done"
    OBVIOUS
  <2>2. /\ \A g \in Hosts : Done(g)' = Done(g)
        /\ \A g \in Hosts : \A q \in Done(g) : probe'[g][q] = probe[g][q]
    BY <1>2, <2>1, StillRunning
  <2> QED BY <1>1, <2>2 DEF FinishedAreCounted
<1>5. QueuedInOrder'
  <2>1. ~(next[h] <= p)
    BY <1>1 DEF QueuedInOrder, Idle
  <2> QED BY <1>1, <1>3, <2>1 DEF QueuedInOrder
<1>6. OpenIsAccepted'
  BY <1>1 DEF OpenIsAccepted, Accepting, environment
<1>7. OutcomeOfSweep'
  <2> SUFFICES ASSUME NEW g \in Hosts
               PROVE  IF pc[g] = "returned"
                        THEN /\ outcome[g] = [open |-> open[g], complete |-> Complete(g),
                                              returned |-> TRUE]
                             /\ Drained(g)'
                        ELSE outcome[g] = NoOutcome
    BY DEF OutcomeOfSweep, Complete
  <2>1. pc[g] = "returned" => (Drained(g) => Drained(g)')
    BY <1>3 DEF Drained, InFlight
  <2> QED BY <1>1, <2>1 DEF OutcomeOfSweep
<1>8. LateDoesNothing'
  <2>1. ~late
    BY <1>1 DEF LateDoesNothing
  <2> QED BY <2>1 DEF LateDoesNothing, environment
<1> QED BY <1>2, <1>4, <1>5, <1>6, <1>7, <1>8

LEMMA AcquireTokenSweep ==
  ASSUME SweepInv, NEW h \in Hosts, NEW p \in Ports, AcquireToken(h, p) PROVE SweepInv'
<1> DEFINE f == [probe[h][p] EXCEPT !.pc = "waiting"]
<1>1. TypeOK /\ HoldersAreFinite /\ BudgetsConserved
  BY DEF SweepInv
<1>2. probe \in [Hosts -> [Ports -> ProbeStates]]
  BY <1>1 DEF TypeOK, ProbeStates
<1>3. f \in ProbeStates /\ f.pc = "waiting" /\ probe[h][p].pc = "throttled"
  BY <1>2 DEF AcquireToken, ProbeStates
<1>4. probe' = [probe EXCEPT ![h][p] = f]
  BY DEF AcquireToken
<1> HIDE DEF f
<1>5. UNCHANGED <<environment, pc, next, attempted, open, outcome, permits, accepted, refused,
                  started, refilled>> /\ pc[h] = "await" /\ tokens > 0 /\ tokens' = tokens - 1
  BY DEF AcquireToken, history
<1>6. /\ FinishedAreCounted' /\ QueuedInOrder' /\ OpenIsAccepted' /\ OutcomeOfSweep'
      /\ LateDoesNothing' /\ probe' \in [Hosts -> [Ports -> ProbeStates]]
  BY <1>3, <1>4, <1>5, FutureGoesOn
<1>7. TypeOK'
  BY <1>1, <1>5, <1>6, ConstantTypes DEF TypeOK, environment, ProbeStates
<1>8. HoldersAreFinite' /\ BudgetsConserved'
  <2>1. /\ permits' + InState(f, "connecting") = permits + InState(probe[h][p], "connecting")
        /\ started' + InState(f, "waiting") + tokens' + refilled
             = started + InState(probe[h][p], "waiting") + tokens + refilled'
        /\ permits' \in Nat /\ tokens' \in Nat /\ started' \in Nat /\ refilled' \in Nat
    BY <1>1, <1>3, <1>5, <1>7, ConstantTypes DEF TypeOK, InState
  <2> QED BY <1>1, <1>2, <1>3, <1>4, <2>1, BudgetsAfter
<1> QED BY <1>6, <1>7, <1>8 DEF SweepInv

LEMMA AcquirePermitSweep ==
  ASSUME SweepInv, NEW h \in Hosts, NEW p \in Ports, AcquirePermit(h, p) PROVE SweepInv'
<1> DEFINE f == [probe[h][p] EXCEPT !.pc = "connecting"]
<1>1. TypeOK /\ HoldersAreFinite /\ BudgetsConserved
  BY DEF SweepInv
<1>2. probe \in [Hosts -> [Ports -> ProbeStates]]
  BY <1>1 DEF TypeOK, ProbeStates
<1>3. f \in ProbeStates /\ f.pc = "connecting" /\ probe[h][p].pc = "waiting"
  BY <1>2 DEF AcquirePermit, ProbeStates
<1>4. probe' = [probe EXCEPT ![h][p] = f]
  BY DEF AcquirePermit
<1> HIDE DEF f
<1>5. /\ UNCHANGED <<environment, pc, next, attempted, open, outcome, tokens, accepted, refused,
                     refilled>>
      /\ pc[h] = "await" /\ permits > 0 /\ permits' = permits - 1 /\ started' = started + 1
  BY DEF AcquirePermit
<1>6. /\ FinishedAreCounted' /\ QueuedInOrder' /\ OpenIsAccepted' /\ OutcomeOfSweep'
      /\ LateDoesNothing' /\ probe' \in [Hosts -> [Ports -> ProbeStates]]
  BY <1>3, <1>4, <1>5, FutureGoesOn
<1>7. TypeOK'
  BY <1>1, <1>5, <1>6, ConstantTypes DEF TypeOK, environment, ProbeStates
<1>8. HoldersAreFinite' /\ BudgetsConserved'
  <2>1. /\ permits' + InState(f, "connecting") = permits + InState(probe[h][p], "connecting")
        /\ started' + InState(f, "waiting") + tokens' + refilled
             = started + InState(probe[h][p], "waiting") + tokens + refilled'
        /\ permits' \in Nat /\ tokens' \in Nat /\ started' \in Nat /\ refilled' \in Nat
    BY <1>1, <1>3, <1>5, <1>7, ConstantTypes DEF TypeOK, InState
  <2> QED BY <1>1, <1>2, <1>3, <1>4, <2>1, BudgetsAfter
<1> QED BY <1>6, <1>7, <1>8 DEF SweepInv

\* What a connect comes to: the peer accepts only at a port that may.
LEMMA VerdictTypes ==
  ASSUME TypeOK, NEW h \in Hosts, NEW p \in Ports, NEW verdict \in Verdicts(h, p)
  PROVE  /\ verdict \in {"open", "closed", "filtered"}
         /\ verdict = "open" => p \in Accepting(h)
<1>1. target[h][p] \in Kinds
  BY ConnectAssumption DEF ConnectAssumption, TypeOK
<1> QED BY <1>1 DEF Verdicts, Kinds, Accepting

\* A connect that decides nothing is tried again.
LEMMA RetrySweep ==
  ASSUME SweepInv, NEW h \in Hosts, NEW p \in Ports,
         pc[h] = "await", probe[h][p].pc = "connecting", probe[h][p].attempt # Retries,
         permits' = permits + 1,
         probe' = [probe EXCEPT ![h][p] = Again(h, p)],
         UNCHANGED <<environment, pc, next, attempted, open, outcome, tokens, accepted, refused,
                     started, refilled>>
  PROVE  SweepInv'
<1> DEFINE f == Again(h, p)
<1>1. TypeOK /\ HoldersAreFinite /\ BudgetsConserved
  BY DEF SweepInv
<1>2. probe \in [Hosts -> [Ports -> ProbeStates]]
  BY <1>1 DEF TypeOK, ProbeStates
<1>3. f \in ProbeStates /\ f.pc = "throttled" /\ probe[h][p].pc = "connecting"
  <2>1. probe[h][p] \in ProbeStates /\ probe[h][p].pc = "connecting"
    BY <1>2
  <2>3. probe[h][p].attempt + 1 \in 0 .. Retries
    BY <2>1, ConstantTypes DEF ProbeStates
  <2> QED BY <2>1, <2>3 DEF ProbeStates, Again
<1>4. probe' = [probe EXCEPT ![h][p] = f]
  OBVIOUS
<1> HIDE DEF f
<1>5. /\ UNCHANGED <<environment, pc, next, attempted, open, outcome, accepted, refused>>
      /\ UNCHANGED <<tokens, started, refilled>>
      /\ pc[h] = "await" /\ permits' = permits + 1
  OBVIOUS
<1>6. /\ FinishedAreCounted' /\ QueuedInOrder' /\ OpenIsAccepted' /\ OutcomeOfSweep'
      /\ LateDoesNothing' /\ probe' \in [Hosts -> [Ports -> ProbeStates]]
  BY <1>3, <1>4, <1>5, FutureGoesOn
<1>7. HoldersAreFinite' /\ BudgetsConserved' /\ permits' \in 0 .. Sockets
  <2>1. /\ permits' + InState(f, "connecting") = permits + InState(probe[h][p], "connecting")
        /\ started' + InState(f, "waiting") + tokens' + refilled
             = started + InState(probe[h][p], "waiting") + tokens + refilled'
        /\ permits' \in Nat /\ tokens' \in Nat /\ started' \in Nat /\ refilled' \in Nat
    BY <1>1, <1>3, <1>5, ConstantTypes DEF TypeOK, InState
  <2> QED BY <1>1, <1>3, <1>4, <2>1, BudgetsAfter
<1>8. TypeOK'
  BY <1>1, <1>5, <1>6, <1>7, ConstantTypes DEF TypeOK, environment, ProbeStates
<1> QED BY <1>6, <1>7, <1>8 DEF SweepInv

\* A connect that decides a port: its future ends, and discover takes the result.
LEMMA FinalSweep ==
  ASSUME SweepInv, NEW h \in Hosts, NEW p \in Ports, NEW verdict \in Verdicts(h, p),
         NEW f, f = [probe[h][p] EXCEPT !.pc = "done"],
         pc[h] = "await", probe[h][p].pc = "connecting", IsFinal(h, p, verdict),
         permits' = permits + 1, probe' = [probe EXCEPT ![h][p] = f],
         attempted' = [attempted EXCEPT ![h] = attempted[h] + 1],
         pc' = [pc EXCEPT ![h] = "finished"],
         NEW found, found = IF verdict = "open" THEN {p} ELSE {},
         NEW shut, shut = IF verdict = "closed" THEN {p} ELSE {},
         open' = [open EXCEPT ![h] = open[h] \cup found],
         accepted' = [accepted EXCEPT ![h] = accepted[h] \cup found],
         refused' = [refused EXCEPT ![h] = refused[h] \cup shut],
         UNCHANGED <<environment, next, outcome, tokens, started, refilled>>
  PROVE  SweepInv'
<1>1. /\ TypeOK /\ HoldersAreFinite /\ BudgetsConserved /\ FinishedAreCounted
      /\ QueuedInOrder /\ OpenIsAccepted /\ OutcomeOfSweep /\ LateDoesNothing
  BY DEF SweepInv
<1>2. probe \in [Hosts -> [Ports -> ProbeStates]]
  BY <1>1 DEF TypeOK, ProbeStates
<1>3. f \in ProbeStates /\ f.pc = "done" /\ f.attempt = probe[h][p].attempt
  <2>1. probe[h][p] \in ProbeStates
    BY <1>2
  <2> QED BY <2>1 DEF ProbeStates
<1>4. verdict \in {"open", "closed", "filtered"} /\ (verdict = "open" => p \in Accepting(h))
  BY <1>1, VerdictTypes
<1>5. /\ found \subseteq Ports /\ shut \subseteq Ports /\ found \subseteq Accepting(h)
      /\ p \in found \cup shut \/ f.attempt = Retries
  BY <1>3, <1>4 DEF IsFinal
<1>6. \A g \in Hosts, q \in Ports :
        probe'[g][q] = IF g = h /\ q = p THEN f ELSE probe[g][q]
  BY <1>2
<1>7. \A g \in Hosts :
        /\ attempted'[g] = IF g = h THEN attempted[h] + 1 ELSE attempted[g]
        /\ open'[g] = IF g = h THEN open[h] \cup found ELSE open[g]
        /\ accepted'[g] = IF g = h THEN accepted[h] \cup found ELSE accepted[g]
        /\ refused'[g] = IF g = h THEN refused[h] \cup shut ELSE refused[g]
        /\ pc'[g] = IF g = h THEN "finished" ELSE pc[g]
  BY <1>1 DEF TypeOK
<1>8. /\ \A g \in Hosts : Done(g)' = IF g = h THEN Done(h) \cup {p} ELSE Done(g)
      /\ p \notin Done(h)
  <2>1. p \notin Done(h)
    BY DEF Done
  <2>2. \A g \in Hosts, q \in Ports :
          q \in Done(g)' <=> (g = h /\ q = p) \/ q \in Done(g)
    BY <1>3, <1>6 DEF Done
  <2>3. \A g \in Hosts : Done(g) \subseteq Ports /\ Done(g)' \subseteq Ports
    BY DEF Done
  <2> QED BY <2>1, <2>2, <2>3, Zenon
<1>9. HoldersAreFinite' /\ BudgetsConserved' /\ permits' \in 0 .. Sockets
  <2>1. /\ permits' + InState(f, "connecting") = permits + InState(probe[h][p], "connecting")
        /\ started' + InState(f, "waiting") + tokens' + refilled
             = started + InState(probe[h][p], "waiting") + tokens + refilled'
        /\ permits' \in Nat /\ tokens' \in Nat /\ started' \in Nat /\ refilled' \in Nat
    BY <1>1, <1>3, ConstantTypes DEF TypeOK, InState
  <2> QED BY <1>1, <1>3, <2>1, BudgetsAfter
<1>10. \A g \in Hosts : attempted'[g] = Cardinality(Done(g)')
  <2>1. attempted[h] = Cardinality(Done(h)) /\ IsFiniteSet(Done(h))
    BY <1>1, ConstantTypes, FS_Subset DEF FinishedAreCounted, Done
  <2>2. Cardinality(Done(h) \cup {p}) = Cardinality(Done(h)) + 1
    BY <1>8, <2>1, FS_AddElement
  <2> QED BY <1>1, <1>7, <1>8, <2>1, <2>2 DEF FinishedAreCounted
<1>11. attempted' \in [Hosts -> 0 .. NumPorts]
  <2> SUFFICES attempted[h] + 1 \in 0 .. NumPorts
    BY <1>1 DEF TypeOK
  <2>1. IsFiniteSet(Done(h)') /\ Cardinality(Done(h)') <= NumPorts
    BY ConstantTypes, FS_Subset DEF Done
  <2>2. attempted[h] \in Nat /\ attempted[h] + 1 = Cardinality(Done(h)')
    BY <1>1, <1>7, <1>10 DEF TypeOK
  <2> QED BY <2>1, <2>2, ConstantTypes
<1>12. TypeOK'
  <2>1. probe' \in [Hosts -> [Ports -> ProbeStates]]
    BY <1>2, <1>3
  <2>2. /\ open' \in [Hosts -> SUBSET Ports] /\ accepted' \in [Hosts -> SUBSET Ports]
        /\ refused' \in [Hosts -> SUBSET Ports]
        /\ pc' \in [Hosts -> {"fill", "await", "finished", "returned"}]
    BY <1>1, <1>5 DEF TypeOK
  <2> QED BY <1>1, <1>9, <1>11, <2>1, <2>2 DEF TypeOK, environment, ProbeStates
<1>13. FinishedAreCounted'
  <2> SUFFICES ASSUME NEW g \in Hosts, NEW q \in Done(g)'
               PROVE  q \in accepted'[g] \cup refused'[g] \/ probe'[g][q].attempt = Retries
    BY <1>10 DEF FinishedAreCounted
  <2>1. CASE g = h /\ q = p
    BY <1>5, <1>6, <1>7, <2>1
  <2>2. CASE ~(g = h /\ q = p)
    <3>1. q \in Done(g) /\ probe'[g][q] = probe[g][q]
      BY <1>6, <1>8, <2>2 DEF Done
    <3> QED BY <1>1, <1>7, <3>1 DEF FinishedAreCounted
  <2> QED BY <2>1, <2>2
<1>14. QueuedInOrder'
  <2>1. ~(next[h] <= p)
    BY <1>1 DEF QueuedInOrder, Idle
  <2> QED BY <1>1, <1>6, <2>1 DEF QueuedInOrder
<1>15. OpenIsAccepted'
  <2>1. \A g \in Hosts : Accepting(g)' = Accepting(g)
    BY DEF Accepting, environment
  <2>2. \A g \in Hosts : open[g] = accepted[g] /\ open[g] \subseteq Accepting(g)
    BY <1>1 DEF OpenIsAccepted
  <2>3. ASSUME NEW g \in Hosts PROVE open'[g] = accepted'[g]
    <3>1. open[g] = accepted[g] /\ open[h] = accepted[h]
      BY <2>2
    <3>2. CASE g = h
      <4>1. open'[h] = open[h] \cup found /\ accepted'[h] = accepted[h] \cup found
        BY <1>7, Zenon
      <4> QED BY <3>1, <3>2, <4>1, Zenon
    <3>3. CASE g # h
      BY <1>7, <3>1, <3>3
    <3> QED BY <3>2, <3>3
  <2>4. \A g \in Hosts : open'[g] \subseteq Accepting(g)
    BY <1>5, <1>7, <2>2
  <2> QED BY <2>1, <2>3, <2>4 DEF OpenIsAccepted
<1>16. OutcomeOfSweep'
  <2> SUFFICES ASSUME NEW g \in Hosts
               PROVE  IF pc'[g] = "returned"
                        THEN /\ outcome[g] = [open |-> open'[g], complete |-> Complete(g)',
                                              returned |-> TRUE]
                             /\ Drained(g)'
                        ELSE outcome[g] = NoOutcome
    BY DEF OutcomeOfSweep
  <2>1. CASE g = h
    <3>1. pc'[g] = "finished" /\ pc[g] = "await"
      BY <1>7, <2>1
    <3> QED BY <1>1, <3>1 DEF OutcomeOfSweep
  <2>2. CASE g # h
    <3>1. /\ pc'[g] = pc[g] /\ open'[g] = open[g] /\ attempted'[g] = attempted[g]
          /\ Drained(g)' <=> Drained(g)
      BY <1>6, <1>7, <2>2 DEF Drained, InFlight
    <3> QED BY <1>1, <3>1 DEF OutcomeOfSweep, Complete
  <2> QED BY <2>1, <2>2
<1>17. LateDoesNothing'
  <2>1. ~late
    BY <1>1 DEF LateDoesNothing
  <2> QED BY <2>1 DEF LateDoesNothing, environment
<1> QED BY <1>9, <1>12, <1>13, <1>14, <1>15, <1>16, <1>17 DEF SweepInv

LEMMA ConnectedSweep ==
  ASSUME SweepInv, NEW h \in Hosts, NEW p \in Ports, Connected(h, p) PROVE SweepInv'
<1>1. PICK verdict \in Verdicts(h, p) :
        /\ permits' = permits + Freed(verdict)
        /\ accepted' = [accepted EXCEPT ![h] = IF verdict = "open" THEN @ \cup {p} ELSE @]
        /\ refused' = [refused EXCEPT ![h] = IF verdict = "closed" THEN @ \cup {p} ELSE @]
        /\ IF IsFinal(h, p, verdict)
             THEN /\ probe' = [probe EXCEPT ![h][p].pc = "done"]
                  /\ attempted' = [attempted EXCEPT ![h] = @ + 1]
                  /\ open' = [open EXCEPT ![h] = IF verdict = "open" THEN @ \cup {p} ELSE @]
                  /\ pc' = [pc EXCEPT ![h] = "finished"]
             ELSE /\ probe' = [probe EXCEPT ![h][p] = Again(h, p)]
                  /\ UNCHANGED <<attempted, open, pc>>
  BY Zenon DEF Connected
<1>2. /\ pc[h] = "await" /\ probe[h][p].pc = "connecting" /\ permits' = permits + 1
      /\ UNCHANGED <<environment, next, outcome, tokens, started, refilled>>
  BY <1>1 DEF Connected, Freed
<1>3. CASE IsFinal(h, p, verdict)
  <2> DEFINE f == [probe[h][p] EXCEPT !.pc = "done"]
             found == IF verdict = "open" THEN {p} ELSE {}
             shut == IF verdict = "closed" THEN {p} ELSE {}
  <2>1. probe' = [probe EXCEPT ![h][p] = f]
    BY <1>1, <1>3
  <2>2. /\ attempted' = [attempted EXCEPT ![h] = attempted[h] + 1]
        /\ pc' = [pc EXCEPT ![h] = "finished"]
    BY <1>1, <1>3
  <2>3. /\ open' = [open EXCEPT ![h] = open[h] \cup found]
        /\ accepted' = [accepted EXCEPT ![h] = accepted[h] \cup found]
    BY <1>1, <1>3
  <2>4. refused' = [refused EXCEPT ![h] = refused[h] \cup shut]
    BY <1>1
  <2> QED BY <1>2, <1>3, <2>1, <2>2, <2>3, <2>4, FinalSweep
<1>4. CASE ~IsFinal(h, p, verdict)
  <2>1. TypeOK
    BY DEF SweepInv
  <2>2. verdict = "filtered" /\ probe[h][p].attempt # Retries
    BY <1>4 DEF IsFinal
  <2>3. accepted' = accepted /\ refused' = refused
    BY <1>1, <2>1, <2>2 DEF TypeOK
  <2>4. probe' = [probe EXCEPT ![h][p] = Again(h, p)] /\ UNCHANGED <<attempted, open, pc>>
    BY <1>1, <1>4
  <2> QED BY <1>2, <2>2, <2>3, <2>4, RetrySweep
<1> QED BY <1>3, <1>4

LEMMA AfterOneSweep == ASSUME SweepInv, NEW h \in Hosts, AfterOne(h) PROVE SweepInv'
<1>1. /\ TypeOK /\ HoldersAreFinite /\ BudgetsConserved /\ FinishedAreCounted
      /\ QueuedInOrder /\ OpenIsAccepted /\ OutcomeOfSweep /\ LateDoesNothing
  BY DEF SweepInv
<1>2. /\ UNCHANGED <<environment, probe, attempted, open, outcome, permits, tokens, history>>
      /\ pc[h] = "finished"
      /\ \A g \in Hosts : pc'[g] = IF g = h THEN "fill" ELSE pc[g]
  BY <1>1 DEF AfterOne, TypeOK
<1>3. next' \in [Hosts -> 1 .. NumPorts + 1] /\ \A g \in Hosts : next[g] <= next'[g]
  <2>1. next[h] \in 1 .. NumPorts + 1
    BY <1>1 DEF TypeOK
  <2>2. (IF cancelled /\ next[h] <= NumPorts THEN NumPorts + 1 ELSE next[h])
          \in {n \in 1 .. NumPorts + 1 : next[h] <= n}
    BY <2>1, ConstantTypes
  <2>3. next' = [next EXCEPT ![h] =
                  IF cancelled /\ next[h] <= NumPorts THEN NumPorts + 1 ELSE next[h]]
    BY DEF AfterOne
  <2> DEFINE n == IF cancelled /\ next[h] <= NumPorts THEN NumPorts + 1 ELSE next[h]
  <2>4. n \in 1 .. NumPorts + 1 /\ next[h] <= n
    BY <2>2
  <2>5. next' = [next EXCEPT ![h] = n]
    BY <2>3
  <2> HIDE DEF n
  <2> QED BY <1>1, <2>4, <2>5, ConstantTypes DEF TypeOK
<1>4. TypeOK'
  <2>1. pc' \in [Hosts -> {"fill", "await", "finished", "returned"}]
    BY <1>1 DEF AfterOne, TypeOK
  <2> QED BY <1>1, <1>2, <1>3, <2>1 DEF TypeOK, environment, history
<1>5. HoldersAreFinite' /\ BudgetsConserved'
  BY <1>1, <1>2 DEF history, HoldersAreFinite, BudgetsConserved, SocketsConserved,
                    RateConserved, Probes
<1>6. FinishedAreCounted' /\ OpenIsAccepted'
  <2>1. UNCHANGED <<target, probe, attempted, open, accepted, refused>>
    BY <1>2 DEF environment, history
  <2>2. \A g \in Hosts : Done(g)' = Done(g) /\ Accepting(g)' = Accepting(g)
    BY <2>1 DEF Done, Accepting
  <2> QED BY <1>1, <2>1, <2>2 DEF FinishedAreCounted, OpenIsAccepted
<1>7. QueuedInOrder'
  <2> SUFFICES ASSUME NEW g \in Hosts, NEW p \in Ports, next'[g] <= p
               PROVE  probe[g][p] = Idle
    BY <1>2 DEF QueuedInOrder
  <2>1. next[g] \in Nat /\ next'[g] \in Nat /\ p \in Nat
    BY <1>1, <1>3, ConstantTypes DEF TypeOK, Ports
  <2>2. next[g] <= p
    BY <1>3, <2>1
  <2> QED BY <1>1, <2>2 DEF QueuedInOrder
<1>8. OutcomeOfSweep'
  <2> SUFFICES ASSUME NEW g \in Hosts
               PROVE  IF pc'[g] = "returned"
                        THEN /\ outcome[g] = [open |-> open[g], complete |-> Complete(g),
                                              returned |-> TRUE]
                             /\ Drained(g)
                        ELSE outcome[g] = NoOutcome
    BY <1>2 DEF OutcomeOfSweep, Complete, Drained, InFlight
  <2> QED BY <1>1, <1>2 DEF OutcomeOfSweep
<1>9. LateDoesNothing'
  <2>1. ~late
    BY <1>1, <1>2 DEF LateDoesNothing
  <2> QED BY <1>2, <2>1 DEF LateDoesNothing, environment
<1> QED BY <1>4, <1>5, <1>6, <1>7, <1>8, <1>9 DEF SweepInv

\* The steps that no host takes.
LEMMA SharedSweep == ASSUME SweepInv, Refill \/ Cancel \/ UNCHANGED vars PROVE SweepInv'
<1>1. /\ TypeOK /\ HoldersAreFinite /\ BudgetsConserved /\ FinishedAreCounted
      /\ QueuedInOrder /\ OpenIsAccepted /\ OutcomeOfSweep /\ LateDoesNothing
  BY DEF SweepInv
<1>2. /\ target' = target /\ late' = late /\ (cancelled => cancelled')
      /\ UNCHANGED <<pc, next, probe, attempted, open, outcome, permits, accepted, refused,
                     started>>
  BY DEF Refill, Cancel, vars, environment, history
<1>3. TypeOK'
  <2>1. TypeOK
    BY <1>1
  <2>2. CASE Refill
    BY <2>1, <2>2, ConstantTypes DEF Refill, TypeOK, environment
  <2>3. CASE Cancel \/ UNCHANGED vars
    BY <2>1, <2>3 DEF Cancel, vars, TypeOK, history
  <2> QED BY <2>2, <2>3
<1>4. HoldersAreFinite' /\ BudgetsConserved'
  <2>1. tokens' + refilled = tokens + refilled' /\ tokens' \in Nat /\ refilled' \in Nat
    <3>1. tokens \in Nat /\ refilled \in Nat
      BY <1>1, ConstantTypes DEF TypeOK
    <3> QED BY <3>1 DEF Refill, Cancel, vars, history
  <2>2. Probes("waiting")' = Probes("waiting") /\ Probes("connecting")' = Probes("connecting")
    BY <1>2 DEF Probes
  <2>3. HoldersAreFinite' /\ SocketsConserved'
    BY <1>1, <1>2, <2>2 DEF HoldersAreFinite, BudgetsConserved, SocketsConserved
  <2>4. RateConserved'
    <3>1. Cardinality(Probes("waiting")) \in Nat
      BY <1>1, FS_CardinalityType DEF HoldersAreFinite
    <3>2. started + Cardinality(Probes("waiting")) + tokens = Burst + refilled
      BY <1>1 DEF BudgetsConserved, RateConserved
    <3>3. tokens \in Nat /\ refilled \in Nat /\ started \in Nat /\ Burst \in Nat
      BY <1>1, ConstantTypes DEF TypeOK
    <3>4. started + Cardinality(Probes("waiting")) + tokens' = Burst + refilled'
      <4> DEFINE c == Cardinality(Probes("waiting"))
      <4>1. c \in Nat /\ started + c + tokens = Burst + refilled
        BY <3>1, <3>2
      <4> HIDE DEF c
      <4>2. started + c + tokens' = Burst + refilled'
        BY <2>1, <3>3, <4>1
      <4> QED BY <4>2 DEF c
    <3> QED BY <1>2, <2>2, <3>4 DEF RateConserved
  <2> QED BY <2>3, <2>4 DEF BudgetsConserved
<1>5. FinishedAreCounted' /\ QueuedInOrder' /\ OpenIsAccepted'
  BY <1>1, <1>2 DEF FinishedAreCounted, QueuedInOrder, OpenIsAccepted, Accepting, Done
<1>6. OutcomeOfSweep' /\ LateDoesNothing'
  BY <1>1, <1>2 DEF OutcomeOfSweep, LateDoesNothing, Complete, Drained, InFlight
<1> QED BY <1>3, <1>4, <1>5, <1>6 DEF SweepInv

LEMMA StepSweep == SweepInv /\ [Next]_vars => SweepInv'
<1> SUFFICES ASSUME SweepInv, [Next]_vars PROVE SweepInv'
  OBVIOUS
<1>1. ASSUME NEW h \in Hosts, Queue(h) PROVE SweepInv'
  BY <1>1, QueueSweep
<1>2. ASSUME NEW h \in Hosts, EndFill(h) PROVE SweepInv'
  BY <1>2, EndFillSweep
<1>3. ASSUME NEW h \in Hosts, AfterOne(h) PROVE SweepInv'
  BY <1>3, AfterOneSweep
<1>4. ASSUME NEW h \in Hosts, NEW p \in Ports, AcquireToken(h, p) PROVE SweepInv'
  BY <1>4, AcquireTokenSweep
<1>5. ASSUME NEW h \in Hosts, NEW p \in Ports, AcquirePermit(h, p) PROVE SweepInv'
  BY <1>5, AcquirePermitSweep
<1>6. ASSUME NEW h \in Hosts, NEW p \in Ports, Connected(h, p) PROVE SweepInv'
  BY <1>6, ConnectedSweep
<1>7. CASE Refill \/ Cancel \/ AllReturned \/ UNCHANGED vars
  BY <1>7, SharedSweep DEF AllReturned
<1> QED BY <1>1, <1>2, <1>3, <1>4, <1>5, <1>6, <1>7 DEF Next, HostStep, ProbeStep

-----------------------------------------------------------------------------
\* The inductive invariant holds throughout, for any hosts, ports, windows and budgets.
THEOREM SweepInvariant == Spec => []SweepInv
BY InitSweep, StepSweep, PTL DEF Spec

\* Every variable of discover and of the two shared budgets keeps its type: above all, the
\* semaphore and the bucket are never overdrawn nor filled beyond their size.
THEOREM SweepTypeOK == Spec => []TypeOK
<1>1. SweepInv => TypeOK
  BY DEF SweepInv
<1> QED BY <1>1, SweepInvariant, PTL

\* --concurrency and --rate bind all hosts together: no verdict, retry or cancel of discover
\* leaks a permit of the semaphore, and no connect starts without a token of the bucket.
THEOREM BudgetsAreConserved == Spec => []BudgetsConserved
<1>1. SweepInv => BudgetsConserved
  BY DEF SweepInv
<1> QED BY <1>1, SweepInvariant, PTL

\* Whenever discover returns, after a cancel too, it hands back exactly the ports that have
\* accepted a connect, and no attempt is left behind.
THEOREM NothingIsThrownAway == Spec => []NothingThrownAway
<1>1. SweepInv => NothingThrownAway
  <2> SUFFICES ASSUME SweepInv, NEW h \in Hosts, outcome[h].returned
               PROVE  outcome[h].open = accepted[h] /\ InFlight(h) = {}
    BY DEF NothingThrownAway
  <2>1. OpenIsAccepted /\ OutcomeOfSweep
    BY DEF SweepInv
  <2>2. pc[h] = "returned"
    <3>1. outcome[h] # NoOutcome
      BY DEF NoOutcome
    <3> QED BY <2>1, <3>1, Zenon DEF OutcomeOfSweep
  <2>3. /\ outcome[h] = [open |-> open[h], complete |-> Complete(h), returned |-> TRUE]
        /\ Drained(h)
    BY <2>1, <2>2, Zenon DEF OutcomeOfSweep
  <2> QED BY <2>1, <2>3 DEF OpenIsAccepted, Drained
<1> QED BY <1>1, SweepInvariant, PTL

\* discover calls a host complete only when each of its ports has a verdict of the peer or
\* has had every attempt: attempted counts each port once.
THEOREM CompleteHasVerdicts == Spec => []CompleteIsEarned
<1>1. SweepInv => CompleteIsEarned
  <2> SUFFICES ASSUME SweepInv, NEW h \in Hosts, outcome[h].complete, NEW p \in Ports
               PROVE  \/ p \in accepted[h] \cup refused[h]
                      \/ probe[h][p] = [pc |-> "done", attempt |-> Retries]
    BY DEF CompleteIsEarned
  <2>1. TypeOK /\ OutcomeOfSweep /\ FinishedAreCounted
    BY DEF SweepInv
  <2>2. pc[h] = "returned"
    <3>1. outcome[h] # NoOutcome
      BY DEF NoOutcome
    <3> QED BY <2>1, <3>1, Zenon DEF OutcomeOfSweep
  <2>3. Complete(h)
    <3>1. outcome[h] = [open |-> open[h], complete |-> Complete(h), returned |-> TRUE]
      BY <2>1, <2>2, Zenon DEF OutcomeOfSweep
    <3> QED BY <3>1
  <2>4. Cardinality(Done(h)) = NumPorts
    BY <2>1, <2>3 DEF Complete, FinishedAreCounted
  <2>5. Done(h) = Ports
    BY <2>4, ConstantTypes, FS_Subset DEF Done
  <2>6. probe[h][p].pc = "done" /\ probe[h][p] \in ProbeStates
    BY <2>1, <2>5 DEF Done, TypeOK, ProbeStates
  <2>7. p \in accepted[h] \cup refused[h] \/ probe[h][p].attempt = Retries
    BY <2>1, <2>5 DEF FinishedAreCounted
  <2> QED BY <2>6, <2>7 DEF ProbeStates
<1> QED BY <1>1, SweepInvariant, PTL

-----------------------------------------------------------------------------
Contract(h) == INSTANCE SweepContract WITH
  accepting <- Accepting(h), late <- late, outcome <- outcome[h]

LEMMA InitKeepsContract == ASSUME NEW h \in Hosts, Init PROVE Contract(h)!Init
<1>1. Accepting(h) \in SUBSET Ports /\ late \in BOOLEAN /\ outcome[h] = NoOutcome
  BY DEF Init, Accepting
<1> QED BY <1>1 DEF Contract!Init, Contract!NoOutcome, NoOutcome

LEMMA StepKeepsContract ==
  ASSUME NEW h \in Hosts, SweepInv, [Next]_vars
  PROVE  [Contract(h)!Return]_(Contract(h)!vars)
<1>1. TypeOK /\ OutcomeOfSweep /\ OpenIsAccepted /\ LateDoesNothing
  BY DEF SweepInv
<1>2. target' = target /\ late' = late
  BY DEF Next, HostStep, ProbeStep, Queue, EndFill, AfterOne, AcquireToken, AcquirePermit,
         Connected, Refill, Cancel, AllReturned, environment, vars
<1>3. Accepting(h)' = Accepting(h)
  BY <1>2 DEF Accepting
<1>4. CASE EndFill(h) /\ Drained(h)
  <2> DEFINE o == [open |-> open[h], complete |-> Complete(h), returned |-> TRUE]
  <2>1. outcome'[h] = o
    BY <1>1, <1>4 DEF EndFill, TypeOK
  <2>2. ~outcome[h].returned
    <3>1. outcome[h] = NoOutcome
      BY <1>1, <1>4 DEF EndFill, OutcomeOfSweep
    <3> QED BY <3>1 DEF NoOutcome
  <2>3. o \in [open : SUBSET Accepting(h), complete : BOOLEAN, returned : {TRUE}]
    <3>1. open[h] \in SUBSET Accepting(h) /\ Complete(h) \in BOOLEAN /\ TRUE \in {TRUE}
      BY <1>1 DEF OpenIsAccepted, Complete
    <3> QED BY <3>1, Zenon
  <2>4. late => o.open = {} /\ ~o.complete
    <3>1. late => open[h] = {} /\ ~Complete(h)
      BY <1>1, ConstantTypes DEF LateDoesNothing, Complete
    <3>2. o.open = open[h] /\ o.complete = Complete(h)
      OBVIOUS
    <3> HIDE DEF o
    <3> QED BY <3>1, <3>2, Zenon
  <2> HIDE DEF o
  <2> QED BY <1>2, <1>3, <2>1, <2>2, <2>3, <2>4 DEF Contract!Return
<1>5. CASE ~(EndFill(h) /\ Drained(h))
  <2>1. outcome'[h] = outcome[h]
    BY <1>1, <1>5
       DEF Next, HostStep, ProbeStep, Queue, EndFill, AfterOne, AcquireToken, AcquirePermit,
           Connected, Refill, Cancel, AllReturned, vars, TypeOK
  <2> QED BY <1>2, <1>3, <2>1 DEF Contract!vars
<1> QED BY <1>4, <1>5

\* Whichever way the hosts compete, discover gives each of them what ScannerBackend
\* promises the pipeline: one outcome, of ports that may accept a connect, and for a scan
\* that was cancelled before the call one that claims nothing.
THEOREM ConnectKeepsContract ==
  ASSUME NEW h \in Hosts
  PROVE  Spec => Contract(h)!Init /\ [][Contract(h)!Return]_(Contract(h)!vars)
<1>1. Init => Contract(h)!Init
  BY InitKeepsContract
<1>2. SweepInv /\ [Next]_vars => [Contract(h)!Return]_(Contract(h)!vars)
  BY StepKeepsContract
<1> QED BY <1>1, <1>2, SweepInvariant, PTL DEF Spec
=============================================================================
