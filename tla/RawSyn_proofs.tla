---------------------------- MODULE RawSyn_proofs ----------------------------
(***************************************************************************)
(* For any host, ports, retries and size of the table: the two threads of  *)
(* a raw sweep never lose track of a probe between them, a sweep that      *)
(* calls itself complete has tried every silent port in every round, and   *)
(* run_raw keeps the promise of ScannerBackend.                            *)
(***************************************************************************)
EXTENDS RawSyn, FiniteSetTheorems, TLAPS

Decided == open \cup closed

\* What a sweep in its rounds has spent on a port without a verdict.
Spent(p) == IF p < at THEN round + 1 ELSE round

InRounds == pc \in {"check", "record", "send", "wait"}

-----------------------------------------------------------------------------
\* The inductive invariant, in parts.  The sender has entered the port it is about to
\* probe, and whoever took it out since has noted why.
AboutToSend == pc = "send" => at \in Awaited \cup Decided \cup forgotten

\* The receiver removes a probe only when its verdict is down.
VerdictBeforeRemoval ==
  /\ receiver.pc = "matched" => receiver.port \in Ports /\ receiver.kind \in {"synack", "rst"}
  /\ receiver.pc = "noted" => receiver.port \in Decided

\* Every round tries every port that has no verdict; a port that had one is skipped for good.
RoundsAreFull ==
  InRounds => \A p \in Ports : /\ tries[p] <= Spent(p)
                               /\ p \notin Decided => tries[p] = Spent(p)

\* Where the sender is among the ports.
PlaceOfSender ==
  /\ pc \in {"record", "send"} => at <= NumPorts
  /\ pc = "wait" => at > NumPorts
  /\ InRounds => ~interrupted
  /\ sendingDone <=> pc \in {"join", "returned"}

\* The rounds are over by a cancel, by the last verdict or after the last of them.
RoundsAreOver ==
  ~InRounds /\ ~interrupted /\ open \cap closed = {} =>
    \A p \in Ports \ Decided : tries[p] = Retries + 1

\* Only a port that accepts answers a probe with a SYN/ACK.
AnswersAreHonest ==
  /\ \A answer \in inFlight : answer.acks => answer \in Answers(answer.port)
  /\ receiver.pc = "matched" /\ receiver.kind = "synack" =>
       target[receiver.port] \in {"open", "fickle"}
  /\ \A p \in open : target[p] \in {"open", "fickle"}

\* The outcome is what the sweep knows as it returns.
OutcomeOfSweep ==
  IF pc = "returned"
    THEN /\ outcome.returned
         /\ outcome.complete => Complete
    ELSE outcome = NoOutcome

\* A scan that was cancelled before the call never sends a probe.
LateDoesNothing ==
  late => /\ cancelled /\ pc \in {"check", "stop", "join", "returned"}
          /\ at = 1 /\ outstanding = {} /\ sent = {} /\ Decided = {}
          /\ receiver.pc \notin {"matched", "noted"}

SynInv ==
  /\ TypeOK
  /\ AnswerStillCounts /\ AboutToSend /\ VerdictBeforeRemoval
  /\ PlaceOfSender /\ RoundsAreFull /\ RoundsAreOver
  /\ AnswersAreHonest /\ OutcomeOfSweep /\ LateDoesNothing

-----------------------------------------------------------------------------
LEMMA ConstantTypes ==
  /\ NumPorts \in Nat /\ NumPorts > 0 /\ Retries \in Nat /\ MaxTraffic \in Nat
  /\ 1 \in Ports /\ Ports = 1 .. NumPorts
  /\ IsFiniteSet(Ports) /\ Cardinality(Ports) = NumPorts
<1>1. NumPorts \in Nat /\ NumPorts > 0 /\ Retries \in Nat /\ MaxTraffic \in Nat
  BY RawSynAssumption DEF RawSynAssumption
<1> QED BY <1>1, FS_Interval DEF Ports

LEMMA InitSyn == Init => SynInv
<1> SUFFICES ASSUME Init PROVE SynInv
  OBVIOUS
<1>1. TypeOK
  <2>1. inFlight \subseteq [port : Ports, kind : {"synack", "rst", "ack"}, acks : BOOLEAN]
    <3>1. Stray(1) \in [port : Ports, kind : {"synack", "rst", "ack"}, acks : BOOLEAN]
      BY ConstantTypes DEF Stray
    <3> QED BY <3>1 DEF Init
  <2>2. outcome \in [open : SUBSET Ports, complete : BOOLEAN, returned : BOOLEAN]
    BY DEF Init, NoOutcome
  <2>3. /\ tries \in [Ports -> 0 .. Retries + 1] /\ round \in 0 .. Retries
        /\ at \in 1 .. NumPorts + 1
    BY ConstantTypes DEF Init
  <2>4. receiver \in [pc : {"listening", "matched", "noted", "stopped", "failed"},
                      port : Ports \cup {0}, kind : {"none", "synack", "rst"}]
    BY DEF Init, Listening
  <2>5. traffic \in 0 .. MaxTraffic /\ late \in BOOLEAN /\ cancelled \in BOOLEAN
    BY ConstantTypes DEF Init
  <2> QED BY <2>1, <2>2, <2>3, <2>4, <2>5 DEF Init, TypeOK
<1>2. AnswerStillCounts /\ AboutToSend /\ VerdictBeforeRemoval /\ PlaceOfSender
  BY ConstantTypes
     DEF Init, AnswerStillCounts, AboutToSend, VerdictBeforeRemoval, PlaceOfSender, InRounds,
         Listening
<1>3. RoundsAreFull /\ RoundsAreOver
  BY ConstantTypes DEF Init, RoundsAreFull, RoundsAreOver, InRounds, Spent, Decided
<1>4. AnswersAreHonest /\ OutcomeOfSweep /\ LateDoesNothing
  BY DEF Init, AnswersAreHonest, OutcomeOfSweep, LateDoesNothing, Stray, Listening, Decided
<1> QED BY <1>1, <1>2, <1>3, <1>4 DEF SynInv

\* What the network may bring back for a probe.
LEMMA AnswerTypes ==
  ASSUME TypeOK, NEW p \in Ports, NEW a \in Answers(p)
  PROVE  /\ a \in [port : Ports, kind : {"synack", "rst", "ack"}, acks : BOOLEAN]
         /\ a.port = p /\ a \in Answers(a.port)
         /\ a.kind = "synack" => target[p] \in {"open", "fickle"}
<1>1. target[p] \in Kinds
  BY RawSynAssumption DEF RawSynAssumption, TypeOK
<1>2. PICK k : /\ a = Answer(p, k) /\ k \in {"synack", "rst", "ack"}
               /\ k = "synack" => target[p] \in {"open", "fickle"}
  BY <1>1 DEF Answers, Kinds
<1>3. a.port = p /\ a.kind = k
  BY <1>2 DEF Answer
<1> QED BY <1>2, <1>3 DEF Answer

\* Without a port that answers twice and differently, as many verdicts as ports are a
\* verdict for every port.
LEMMA TwiceNoneIsAll ==
  ASSUME TypeOK, open \cap closed = {}, Resolved PROVE Decided = Ports
<1>1. open \subseteq Ports /\ closed \subseteq Ports /\ Decided \subseteq Ports
  BY DEF TypeOK, Decided
<1>2. IsFiniteSet(open) /\ IsFiniteSet(closed)
  BY <1>1, ConstantTypes, FS_Subset
<1>3. Cardinality(Decided) = Cardinality(open) + Cardinality(closed) - Cardinality({})
  BY <1>2, FS_Union DEF Decided
<1>4. /\ Cardinality({}) = 0 /\ Cardinality(open) \in Nat /\ Cardinality(closed) \in Nat
  BY <1>2, FS_EmptySet, FS_CardinalityType
<1>5. Cardinality(Decided) = NumPorts
  BY <1>3, <1>4 DEF Resolved
<1> QED BY <1>1, <1>5, ConstantTypes, FS_Subset

\* The receiver's entry goes from one place to the next, never out of sight.
LEMMA VerdictIsNoted ==
  ASSUME VerdictBeforeRemoval, NoteVerdict
  PROVE  Awaited \subseteq Awaited' \cup Decided' /\ Decided \subseteq Decided'
<1>1. receiver.pc = "matched" /\ receiver.kind \in {"synack", "rst"}
      /\ outstanding' = outstanding
  BY DEF NoteVerdict, VerdictBeforeRemoval
<1>2. receiver.port \in Decided' /\ Decided \subseteq Decided'
  BY <1>1 DEF NoteVerdict, Decided
<1> QED BY <1>1, <1>2 DEF Awaited

\* The sender looks at the next port, or ends its round.
LEMMA NextPortSyn == ASSUME SynInv, NextPort PROVE SynInv'
<1>1. /\ TypeOK /\ AnswerStillCounts /\ AboutToSend /\ VerdictBeforeRemoval /\ PlaceOfSender
      /\ RoundsAreFull /\ RoundsAreOver /\ AnswersAreHonest /\ OutcomeOfSweep /\ LateDoesNothing
  BY DEF SynInv
<1>2. TypeOK'
  <2>1. /\ pc' \in {"check", "record", "send", "wait", "stop", "join", "returned"}
        /\ interrupted' \in BOOLEAN
    BY <1>1 DEF NextPort, TypeOK
  <2>2. at' \in 1 .. NumPorts + 1
    <3>1. at \in 1 .. NumPorts + 1
      BY <1>1 DEF TypeOK
    <3> QED BY <3>1, ConstantTypes DEF NextPort
  <2> QED BY <1>1, <2>1, <2>2 DEF NextPort, TypeOK, socketVars, verdicts
<1>3. AnswerStillCounts'
  BY <1>1, ConstantTypes DEF NextPort, AnswerStillCounts, Awaited, socketVars, verdicts, TypeOK
<1>4. AboutToSend'
  BY <1>1, ConstantTypes
     DEF NextPort, AboutToSend, Awaited, Decided, socketVars, verdicts, TypeOK
<1>5. VerdictBeforeRemoval'
  BY <1>1, ConstantTypes
     DEF NextPort, VerdictBeforeRemoval, Decided, socketVars, verdicts, TypeOK
<1>6. PlaceOfSender'
  BY <1>1, ConstantTypes DEF NextPort, PlaceOfSender, InRounds, socketVars, verdicts, TypeOK
<1>7. RoundsAreFull'
  BY <1>1, ConstantTypes
     DEF NextPort, RoundsAreFull, InRounds, Spent, Decided, socketVars, verdicts, TypeOK
<1>8. RoundsAreOver'
  BY <1>1, ConstantTypes
     DEF NextPort, RoundsAreOver, InRounds, Decided, socketVars, verdicts, TypeOK
<1>9. AnswersAreHonest'
  BY <1>1, ConstantTypes DEF NextPort, AnswersAreHonest, Answers, socketVars, verdicts, TypeOK
<1>10. OutcomeOfSweep'
  BY <1>1, ConstantTypes DEF NextPort, OutcomeOfSweep, Complete, socketVars, verdicts, TypeOK
<1>11. LateDoesNothing'
  <2> SUFFICES ASSUME late PROVE LateDoesNothing'
    BY DEF NextPort, LateDoesNothing
  <2>1. cancelled /\ at = 1 /\ at <= NumPorts
    BY <1>1, ConstantTypes DEF LateDoesNothing
  <2>2. pc' = "stop" /\ at' = at
    BY <2>1, ConstantTypes DEF NextPort
  <2> QED BY <1>1, <2>2 DEF NextPort, LateDoesNothing, verdicts, Decided
<1> QED BY <1>2, <1>3, <1>4, <1>5, <1>6, <1>7, <1>8, <1>9, <1>10, <1>11 DEF SynInv

\* A probe is entered in the table, from which expired ones may go.
LEMMA RecordProbeSyn == ASSUME SynInv, RecordProbe PROVE SynInv'
<1>1. /\ TypeOK /\ AnswerStillCounts /\ AboutToSend /\ VerdictBeforeRemoval /\ PlaceOfSender
      /\ RoundsAreFull /\ RoundsAreOver /\ AnswersAreHonest /\ OutcomeOfSweep /\ LateDoesNothing
  BY DEF SynInv
<1>2. TypeOK'
  <2>1. at \in Ports
    BY <1>1, ConstantTypes DEF RecordProbe, PlaceOfSender, TypeOK
  <2>2. outstanding' \subseteq Ports /\ forgotten' \subseteq Ports
    BY <1>1, <2>1 DEF RecordProbe, TypeOK
  <2> QED BY <1>1, <2>2 DEF RecordProbe, TypeOK, socketVars, verdicts
<1>3. AnswerStillCounts'
  BY <1>1, ConstantTypes
     DEF RecordProbe, AnswerStillCounts, Awaited, socketVars, verdicts, TypeOK
<1>4. AboutToSend'
  BY <1>1, ConstantTypes
     DEF RecordProbe, AboutToSend, Awaited, Decided, socketVars, verdicts, TypeOK
<1>5. VerdictBeforeRemoval'
  BY <1>1, ConstantTypes
     DEF RecordProbe, VerdictBeforeRemoval, Decided, socketVars, verdicts, TypeOK
<1>6. PlaceOfSender'
  BY <1>1, ConstantTypes DEF RecordProbe, PlaceOfSender, InRounds, socketVars, verdicts, TypeOK
<1>7. RoundsAreFull'
  BY <1>1, ConstantTypes
     DEF RecordProbe, RoundsAreFull, InRounds, Spent, Decided, socketVars, verdicts, TypeOK
<1>8. RoundsAreOver'
  BY <1>1, ConstantTypes
     DEF RecordProbe, RoundsAreOver, InRounds, Decided, socketVars, verdicts, TypeOK
<1>9. AnswersAreHonest'
  BY <1>1, ConstantTypes
     DEF RecordProbe, AnswersAreHonest, Answers, socketVars, verdicts, TypeOK
<1>10. OutcomeOfSweep'
  BY <1>1, ConstantTypes
     DEF RecordProbe, OutcomeOfSweep, Complete, socketVars, verdicts, TypeOK
<1>11. LateDoesNothing'
  BY <1>1, ConstantTypes
     DEF RecordProbe, LateDoesNothing, Decided, socketVars, verdicts, TypeOK
<1> QED BY <1>2, <1>3, <1>4, <1>5, <1>6, <1>7, <1>8, <1>9, <1>10, <1>11 DEF SynInv

\* A probe goes out, or fails to and is given up.
LEMMA SendProbeSyn == ASSUME SynInv, SendProbe PROVE SynInv'
<1>1. /\ TypeOK /\ AnswerStillCounts /\ AboutToSend /\ VerdictBeforeRemoval /\ PlaceOfSender
      /\ RoundsAreFull /\ RoundsAreOver /\ AnswersAreHonest /\ OutcomeOfSweep /\ LateDoesNothing
  BY DEF SynInv
<1>2. TypeOK'
  <2>1. at \in Ports /\ at + 1 \in 1 .. NumPorts + 1
    BY <1>1, ConstantTypes DEF SendProbe, PlaceOfSender, TypeOK
  <2>2. /\ outstanding' \subseteq Ports /\ forgotten' \subseteq Ports /\ sent' \subseteq Ports
    BY <1>1, <2>1 DEF SendProbe, TypeOK, AfterFailedSend
  <2>3. inFlight' \subseteq [port : Ports, kind : {"synack", "rst", "ack"}, acks : BOOLEAN]
    <3>1. inFlight \subseteq [port : Ports, kind : {"synack", "rst", "ack"}, acks : BOOLEAN]
      BY <1>1 DEF TypeOK
    <3>2. \A a \in Answers(at) : a \in [port : Ports, kind : {"synack", "rst", "ack"},
                                         acks : BOOLEAN]
      BY <1>1, <2>1, AnswerTypes
    <3>3. inFlight' \subseteq inFlight \cup Answers(at)
      BY DEF SendProbe
    <3> QED BY <3>1, <3>2, <3>3
  <2>4. tries' \in [Ports -> 0 .. Retries + 1]
    <3>1. tries \in [Ports -> 0 .. Retries + 1] /\ round \in 0 .. Retries
      BY <1>1 DEF TypeOK
    <3>2. tries[at] <= round
      BY <1>1, <2>1 DEF SendProbe, RoundsAreFull, InRounds, Spent, TypeOK
    <3>3. tries[at] + 1 \in 0 .. Retries + 1
      BY <2>1, <3>1, <3>2, ConstantTypes
    <3>4. tries' = [tries EXCEPT ![at] = tries[at] + 1]
      BY DEF SendProbe
    <3> QED BY <2>1, <3>1, <3>3, <3>4
  <2> QED BY <1>1, <2>1, <2>2, <2>3, <2>4 DEF SendProbe, TypeOK, verdicts
<1>3. AnswerStillCounts'
  <2>1. /\ UNCHANGED <<open, closed, receiver, sendingDone>>
        /\ at \in Awaited \cup Decided \cup forgotten
    BY <1>1 DEF SendProbe, AboutToSend, verdicts
  <2>2. \/ sent' = sent \cup {at} /\ outstanding' = outstanding /\ forgotten' = forgotten
        \/ sent' = sent /\ outstanding' = outstanding \ {at} /\ forgotten' = forgotten \cup {at}
    BY DEF SendProbe, AfterFailedSend
  <2> QED BY <1>1, <2>1, <2>2 DEF AnswerStillCounts, Awaited, Decided
<1>4. AboutToSend'
  BY <1>1, ConstantTypes
     DEF SendProbe, AboutToSend, AfterFailedSend, Awaited, Decided, verdicts, TypeOK
<1>5. VerdictBeforeRemoval'
  BY <1>1, ConstantTypes
     DEF SendProbe, VerdictBeforeRemoval, AfterFailedSend, Decided, verdicts, TypeOK
<1>6. PlaceOfSender'
  BY <1>1, ConstantTypes
     DEF SendProbe, PlaceOfSender, AfterFailedSend, InRounds, verdicts, TypeOK
<1>7. RoundsAreFull'
  BY <1>1, ConstantTypes
     DEF SendProbe, RoundsAreFull, AfterFailedSend, InRounds, Spent, Decided, verdicts, TypeOK
<1>8. RoundsAreOver'
  BY <1>1, ConstantTypes
     DEF SendProbe, RoundsAreOver, AfterFailedSend, InRounds, Decided, verdicts, TypeOK
<1>9. AnswersAreHonest'
  <2>1. at \in Ports /\ UNCHANGED <<open, receiver, target>>
    BY <1>1, ConstantTypes DEF SendProbe, PlaceOfSender, TypeOK, verdicts
  <2>2. inFlight' \subseteq inFlight \cup Answers(at) /\ \A p : Answers(p)' = Answers(p)
    BY DEF SendProbe, Answers
  <2>3. \A answer \in Answers(at) : answer \in Answers(answer.port)
    BY <1>1, <2>1, AnswerTypes
  <2> QED BY <1>1, <2>1, <2>2, <2>3 DEF AnswersAreHonest
<1>10. OutcomeOfSweep'
  BY <1>1, ConstantTypes
     DEF SendProbe, OutcomeOfSweep, AfterFailedSend, Complete, verdicts, TypeOK
<1>11. LateDoesNothing'
  BY <1>1, ConstantTypes
     DEF SendProbe, LateDoesNothing, AfterFailedSend, Decided, verdicts, TypeOK
<1> QED BY <1>2, <1>3, <1>4, <1>5, <1>6, <1>7, <1>8, <1>9, <1>10, <1>11 DEF SynInv

\* The wait after a round ends in the next round or in the end of the sweep.
LEMMA EndWaitSyn == ASSUME SynInv, EndWait PROVE SynInv'
<1>1. /\ TypeOK /\ AnswerStillCounts /\ AboutToSend /\ VerdictBeforeRemoval /\ PlaceOfSender
      /\ RoundsAreFull /\ RoundsAreOver /\ AnswersAreHonest /\ OutcomeOfSweep /\ LateDoesNothing
  BY DEF SynInv
<1>2. TypeOK'
  <2>1. at' \in 1 .. NumPorts + 1 /\ round' \in 0 .. Retries
    <3>1. at \in 1 .. NumPorts + 1 /\ round \in 0 .. Retries
      BY <1>1 DEF TypeOK
    <3> QED BY <3>1, ConstantTypes DEF EndWait, MoreRounds
  <2>2. /\ pc' \in {"check", "record", "send", "wait", "stop", "join", "returned"}
        /\ interrupted' \in BOOLEAN
    BY <1>1 DEF EndWait, TypeOK
  <2> QED BY <1>1, <2>1, <2>2 DEF EndWait, TypeOK, socketVars, verdicts
<1>3. AnswerStillCounts'
  BY <1>1, ConstantTypes
     DEF EndWait, AnswerStillCounts, MoreRounds, Awaited, socketVars, verdicts, TypeOK
<1>4. AboutToSend'
  BY <1>1, ConstantTypes
     DEF EndWait, AboutToSend, MoreRounds, Awaited, Decided, socketVars, verdicts, TypeOK
<1>5. VerdictBeforeRemoval'
  BY <1>1, ConstantTypes
     DEF EndWait, VerdictBeforeRemoval, MoreRounds, Decided, socketVars, verdicts, TypeOK
<1>6. PlaceOfSender'
  BY <1>1, ConstantTypes
     DEF EndWait, PlaceOfSender, MoreRounds, InRounds, socketVars, verdicts, TypeOK
<1>7. RoundsAreFull'
  <2> SUFFICES ASSUME InRounds', NEW p \in Ports
               PROVE  tries[p] <= Spent(p)' /\ (p \notin Decided => tries[p] = Spent(p)')
    BY DEF EndWait, RoundsAreFull, verdicts, Decided
  <2>1. round' = round + 1 /\ at' = 1
    BY DEF EndWait, InRounds
  <2>2. tries[p] <= round + 1 /\ (p \notin Decided => tries[p] = round + 1)
    BY <1>1, ConstantTypes DEF EndWait, RoundsAreFull, PlaceOfSender, InRounds, Spent, TypeOK
  <2>3. Spent(p)' = round + 1
    BY <2>1, ConstantTypes DEF Spent
  <2> QED BY <2>2, <2>3
<1>8. RoundsAreOver'
  <2> SUFFICES ASSUME ~InRounds', ~interrupted', open \cap closed = {},
                      NEW p \in Ports \ Decided
               PROVE  tries[p] = Retries + 1
    BY DEF EndWait, RoundsAreOver, verdicts, Decided
  <2>1. tries[p] = round + 1
    BY <1>1, ConstantTypes DEF EndWait, RoundsAreFull, PlaceOfSender, InRounds, Spent, TypeOK
  <2>2. ~Resolved
    BY <1>1, TwiceNoneIsAll DEF Decided
  <2>3. ~MoreRounds
    BY <2>2 DEF EndWait, InRounds
  <2> QED BY <1>1, <2>1, <2>3, ConstantTypes DEF MoreRounds, TypeOK
<1>9. AnswersAreHonest'
  BY <1>1, ConstantTypes
     DEF EndWait, AnswersAreHonest, MoreRounds, Answers, socketVars, verdicts, TypeOK
<1>10. OutcomeOfSweep'
  BY <1>1, ConstantTypes
     DEF EndWait, OutcomeOfSweep, MoreRounds, Complete, socketVars, verdicts, TypeOK
<1>11. LateDoesNothing'
  BY <1>1, ConstantTypes
     DEF EndWait, LateDoesNothing, MoreRounds, Decided, socketVars, verdicts, TypeOK
<1> QED BY <1>2, <1>3, <1>4, <1>5, <1>6, <1>7, <1>8, <1>9, <1>10, <1>11 DEF SynInv

\* The table is cleared.
LEMMA StopSendingSyn == ASSUME SynInv, StopSending PROVE SynInv'
<1>1. /\ TypeOK /\ AnswerStillCounts /\ AboutToSend /\ VerdictBeforeRemoval /\ PlaceOfSender
      /\ RoundsAreFull /\ RoundsAreOver /\ AnswersAreHonest /\ OutcomeOfSweep /\ LateDoesNothing
  BY DEF SynInv
<1>2. TypeOK'
  BY <1>1, ConstantTypes DEF StopSending, TypeOK, socketVars, verdicts
<1>3. AnswerStillCounts'
  BY <1>1, ConstantTypes
     DEF StopSending, AnswerStillCounts, Awaited, socketVars, verdicts, TypeOK
<1>4. AboutToSend'
  BY <1>1, ConstantTypes
     DEF StopSending, AboutToSend, Awaited, Decided, socketVars, verdicts, TypeOK
<1>5. VerdictBeforeRemoval'
  BY <1>1, ConstantTypes
     DEF StopSending, VerdictBeforeRemoval, Decided, socketVars, verdicts, TypeOK
<1>6. PlaceOfSender'
  BY <1>1, ConstantTypes DEF StopSending, PlaceOfSender, InRounds, socketVars, verdicts, TypeOK
<1>7. RoundsAreFull'
  BY <1>1, ConstantTypes
     DEF StopSending, RoundsAreFull, InRounds, Spent, Decided, socketVars, verdicts, TypeOK
<1>8. RoundsAreOver'
  BY <1>1, ConstantTypes
     DEF StopSending, RoundsAreOver, InRounds, Decided, socketVars, verdicts, TypeOK
<1>9. AnswersAreHonest'
  BY <1>1, ConstantTypes
     DEF StopSending, AnswersAreHonest, Answers, socketVars, verdicts, TypeOK
<1>10. OutcomeOfSweep'
  BY <1>1, ConstantTypes
     DEF StopSending, OutcomeOfSweep, Complete, socketVars, verdicts, TypeOK
<1>11. LateDoesNothing'
  BY <1>1, ConstantTypes
     DEF StopSending, LateDoesNothing, Decided, socketVars, verdicts, TypeOK
<1> QED BY <1>2, <1>3, <1>4, <1>5, <1>6, <1>7, <1>8, <1>9, <1>10, <1>11 DEF SynInv

\* run_raw returns.
LEMMA JoinReceiverSyn == ASSUME SynInv, JoinReceiver PROVE SynInv'
<1>1. /\ TypeOK /\ AnswerStillCounts /\ AboutToSend /\ VerdictBeforeRemoval /\ PlaceOfSender
      /\ RoundsAreFull /\ RoundsAreOver /\ AnswersAreHonest /\ OutcomeOfSweep /\ LateDoesNothing
  BY DEF SynInv
<1>2. TypeOK'
  BY <1>1, ConstantTypes DEF JoinReceiver, TypeOK, Complete, socketVars, verdicts
<1>3. AnswerStillCounts'
  BY <1>1, ConstantTypes
     DEF JoinReceiver, AnswerStillCounts, Complete, Awaited, socketVars, verdicts, TypeOK
<1>4. AboutToSend'
  BY <1>1, ConstantTypes
     DEF JoinReceiver, AboutToSend, Complete, Awaited, Decided, socketVars, verdicts, TypeOK
<1>5. VerdictBeforeRemoval'
  BY <1>1, ConstantTypes
     DEF JoinReceiver, VerdictBeforeRemoval, Complete, Decided, socketVars, verdicts, TypeOK
<1>6. PlaceOfSender'
  BY <1>1, ConstantTypes
     DEF JoinReceiver, PlaceOfSender, Complete, InRounds, socketVars, verdicts, TypeOK
<1>7. RoundsAreFull'
  BY <1>1, ConstantTypes
     DEF JoinReceiver, RoundsAreFull, Complete, InRounds, Spent, Decided, socketVars, verdicts,
         TypeOK
<1>8. RoundsAreOver'
  BY <1>1, ConstantTypes
     DEF JoinReceiver, RoundsAreOver, Complete, InRounds, Decided, socketVars, verdicts, TypeOK
<1>9. AnswersAreHonest'
  BY <1>1, ConstantTypes
     DEF JoinReceiver, AnswersAreHonest, Complete, Answers, socketVars, verdicts, TypeOK
<1>10. OutcomeOfSweep'
  BY <1>1, ConstantTypes
     DEF JoinReceiver, OutcomeOfSweep, Complete, socketVars, verdicts, TypeOK
<1>11. LateDoesNothing'
  BY <1>1, ConstantTypes
     DEF JoinReceiver, LateDoesNothing, Complete, Decided, socketVars, verdicts, TypeOK
<1> QED BY <1>2, <1>3, <1>4, <1>5, <1>6, <1>7, <1>8, <1>9, <1>10, <1>11 DEF SynInv

\* The receiver looks an answer up.
LEMMA ReceiveSyn == ASSUME SynInv, Receive PROVE SynInv'
<1>1. /\ TypeOK /\ AnswerStillCounts /\ AboutToSend /\ VerdictBeforeRemoval /\ PlaceOfSender
      /\ RoundsAreFull /\ RoundsAreOver /\ AnswersAreHonest /\ OutcomeOfSweep /\ LateDoesNothing
  BY DEF SynInv
<1>2. TypeOK'
  BY <1>1, ConstantTypes DEF Receive, TypeOK, Matches, Listening, senderVars, verdicts
<1>3. AnswerStillCounts'
  BY <1>1, ConstantTypes
     DEF Receive, AnswerStillCounts, Matches, Listening, Awaited, senderVars, verdicts, TypeOK
<1>4. AboutToSend'
  BY <1>1, ConstantTypes
     DEF Receive, AboutToSend, Matches, Listening, Awaited, Decided, senderVars, verdicts,
         TypeOK
<1>5. VerdictBeforeRemoval'
  BY <1>1, ConstantTypes
     DEF Receive, VerdictBeforeRemoval, Matches, Listening, Decided, senderVars, verdicts,
         TypeOK
<1>6. PlaceOfSender'
  BY <1>1, ConstantTypes
     DEF Receive, PlaceOfSender, Matches, Listening, InRounds, senderVars, verdicts, TypeOK
<1>7. RoundsAreFull'
  BY <1>1, ConstantTypes
     DEF Receive, RoundsAreFull, Matches, Listening, InRounds, Spent, Decided, senderVars,
         verdicts, TypeOK
<1>8. RoundsAreOver'
  BY <1>1, ConstantTypes
     DEF Receive, RoundsAreOver, Matches, Listening, InRounds, Decided, senderVars, verdicts,
         TypeOK
<1>9. AnswersAreHonest'
  <2>1. /\ UNCHANGED <<open, target>> /\ inFlight' \subseteq inFlight
        /\ \A p : Answers(p)' = Answers(p)
    BY DEF Receive, verdicts, Answers
  <2>2. ASSUME receiver'.pc = "matched", receiver'.kind = "synack"
        PROVE  target[receiver'.port] \in {"open", "fickle"}
    <3>1. PICK answer \in inFlight :
            receiver' = IF Matches(answer) /\ answer.kind # "ack"
                          THEN [pc |-> "matched", port |-> answer.port, kind |-> answer.kind]
                          ELSE Listening
      BY DEF Receive
    <3>2. /\ answer.acks /\ answer.kind = "synack" /\ answer.port \in Ports
          /\ receiver'.port = answer.port
      BY <1>1, <2>2, <3>1 DEF Matches, Listening, TypeOK
    <3>3. answer \in Answers(answer.port)
      BY <1>1, <3>2 DEF AnswersAreHonest
    <3> QED BY <1>1, <3>2, <3>3, AnswerTypes
  <2> QED BY <1>1, <2>1, <2>2 DEF AnswersAreHonest
<1>10. OutcomeOfSweep'
  BY <1>1, ConstantTypes
     DEF Receive, OutcomeOfSweep, Matches, Listening, Complete, senderVars, verdicts, TypeOK
<1>11. LateDoesNothing'
  BY <1>1, ConstantTypes
     DEF Receive, LateDoesNothing, Matches, Listening, Decided, senderVars, verdicts, TypeOK
<1> QED BY <1>2, <1>3, <1>4, <1>5, <1>6, <1>7, <1>8, <1>9, <1>10, <1>11 DEF SynInv

\* The receiver notes a verdict.
LEMMA NoteVerdictSyn == ASSUME SynInv, NoteVerdict PROVE SynInv'
<1>1. /\ TypeOK /\ AnswerStillCounts /\ AboutToSend /\ VerdictBeforeRemoval /\ PlaceOfSender
      /\ RoundsAreFull /\ RoundsAreOver /\ AnswersAreHonest /\ OutcomeOfSweep /\ LateDoesNothing
  BY DEF SynInv
<1>2. TypeOK'
  <2>1. receiver.port \in Ports
    BY <1>1 DEF NoteVerdict, VerdictBeforeRemoval
  <2>2. open' \subseteq Ports /\ closed' \subseteq Ports
    BY <1>1, <2>1 DEF NoteVerdict, TypeOK
  <2>3. receiver' \in [pc : {"listening", "matched", "noted", "stopped", "failed"},
                       port : Ports \cup {0}, kind : {"none", "synack", "rst"}]
    BY <1>1 DEF NoteVerdict, TypeOK
  <2> QED BY <1>1, <2>2, <2>3 DEF NoteVerdict, TypeOK, senderVars, socketVars
<1>3. AnswerStillCounts'
  <2>1. Awaited \subseteq Awaited' \cup Decided' /\ Decided \subseteq Decided'
    BY <1>1, VerdictIsNoted
  <2> QED BY <1>1, <2>1 DEF AnswerStillCounts, NoteVerdict, senderVars, Decided
<1>4. AboutToSend'
  <2>1. Awaited \subseteq Awaited' \cup Decided' /\ Decided \subseteq Decided'
    BY <1>1, VerdictIsNoted
  <2> QED BY <1>1, <2>1 DEF AboutToSend, NoteVerdict, senderVars
<1>5. VerdictBeforeRemoval'
  BY <1>1, ConstantTypes
     DEF NoteVerdict, VerdictBeforeRemoval, Decided, senderVars, socketVars, TypeOK
<1>6. PlaceOfSender'
  BY <1>1, ConstantTypes
     DEF NoteVerdict, PlaceOfSender, InRounds, senderVars, socketVars, TypeOK
<1>7. RoundsAreFull'
  BY <1>1, ConstantTypes
     DEF NoteVerdict, RoundsAreFull, InRounds, Spent, Decided, senderVars, socketVars, TypeOK
<1>8. RoundsAreOver'
  BY <1>1, ConstantTypes
     DEF NoteVerdict, RoundsAreOver, InRounds, Decided, senderVars, socketVars, TypeOK
<1>9. AnswersAreHonest'
  BY <1>1, ConstantTypes
     DEF NoteVerdict, AnswersAreHonest, Answers, senderVars, socketVars, TypeOK
<1>10. OutcomeOfSweep'
  BY <1>1, ConstantTypes
     DEF NoteVerdict, OutcomeOfSweep, Complete, senderVars, socketVars, TypeOK
<1>11. LateDoesNothing'
  BY <1>1, ConstantTypes
     DEF NoteVerdict, LateDoesNothing, Decided, senderVars, socketVars, TypeOK
<1> QED BY <1>2, <1>3, <1>4, <1>5, <1>6, <1>7, <1>8, <1>9, <1>10, <1>11 DEF SynInv

\* The receiver takes the answered probe out.
LEMMA ForgetProbeSyn == ASSUME SynInv, ForgetProbe PROVE SynInv'
<1>1. /\ TypeOK /\ AnswerStillCounts /\ AboutToSend /\ VerdictBeforeRemoval /\ PlaceOfSender
      /\ RoundsAreFull /\ RoundsAreOver /\ AnswersAreHonest /\ OutcomeOfSweep /\ LateDoesNothing
  BY DEF SynInv
<1>2. TypeOK'
  BY <1>1, ConstantTypes
     DEF ForgetProbe, TypeOK, Unanswered, Listening, senderVars, socketVars, verdicts
<1>3. AnswerStillCounts'
  <2>1. Awaited \subseteq Awaited' \cup Decided /\ UNCHANGED <<open, closed>>
    BY <1>1 DEF ForgetProbe, Unanswered, VerdictBeforeRemoval, Awaited, verdicts
  <2> QED BY <1>1, <2>1 DEF AnswerStillCounts, ForgetProbe, senderVars, Decided
<1>4. AboutToSend'
  <2>1. Awaited \subseteq Awaited' \cup Decided /\ UNCHANGED <<open, closed>>
    BY <1>1 DEF ForgetProbe, Unanswered, VerdictBeforeRemoval, Awaited, verdicts
  <2> QED BY <1>1, <2>1 DEF AboutToSend, ForgetProbe, senderVars, Decided
<1>5. VerdictBeforeRemoval'
  BY <1>1, ConstantTypes
     DEF ForgetProbe, VerdictBeforeRemoval, Unanswered, Listening, Decided, senderVars,
         socketVars, verdicts, TypeOK
<1>6. PlaceOfSender'
  BY <1>1, ConstantTypes
     DEF ForgetProbe, PlaceOfSender, Unanswered, Listening, InRounds, senderVars, socketVars,
         verdicts, TypeOK
<1>7. RoundsAreFull'
  BY <1>1, ConstantTypes
     DEF ForgetProbe, RoundsAreFull, Unanswered, Listening, InRounds, Spent, Decided,
         senderVars, socketVars, verdicts, TypeOK
<1>8. RoundsAreOver'
  BY <1>1, ConstantTypes
     DEF ForgetProbe, RoundsAreOver, Unanswered, Listening, InRounds, Decided, senderVars,
         socketVars, verdicts, TypeOK
<1>9. AnswersAreHonest'
  BY <1>1, ConstantTypes
     DEF ForgetProbe, AnswersAreHonest, Unanswered, Listening, Answers, senderVars, socketVars,
         verdicts, TypeOK
<1>10. OutcomeOfSweep'
  BY <1>1, ConstantTypes
     DEF ForgetProbe, OutcomeOfSweep, Unanswered, Listening, Complete, senderVars, socketVars,
         verdicts, TypeOK
<1>11. LateDoesNothing'
  BY <1>1, ConstantTypes
     DEF ForgetProbe, LateDoesNothing, Unanswered, Listening, Decided, senderVars, socketVars,
         verdicts, TypeOK
<1> QED BY <1>2, <1>3, <1>4, <1>5, <1>6, <1>7, <1>8, <1>9, <1>10, <1>11 DEF SynInv

\* What the sweep does not do, and an error of its receiver.
LEMMA OtherStepsSyn ==
  ASSUME SynInv, \/ ReceiveOther \/ ReceiveNothing \/ ReceiveFails \/ OtherPacket \/ Cancel
                 \/ UNCHANGED vars
  PROVE  SynInv'
<1>1. /\ TypeOK /\ AnswerStillCounts /\ AboutToSend /\ VerdictBeforeRemoval /\ PlaceOfSender
      /\ RoundsAreFull /\ RoundsAreOver /\ AnswersAreHonest /\ OutcomeOfSweep /\ LateDoesNothing
  BY DEF SynInv
<1>2. /\ UNCHANGED <<target, late, senderVars, outstanding, verdicts, inFlight>>
      /\ cancelled => cancelled'
      /\ \/ receiver' = receiver
         \/ /\ receiver.pc = "listening" /\ receiver'.pc \in {"stopped", "failed"}
  BY DEF ReceiveOther, ReceiveNothing, ReceiveFails, OtherPacket, Cancel, vars, socketVars,
         senderVars, verdicts, Listening
<1>3. TypeOK'
  <2>1. /\ cancelled' \in BOOLEAN /\ noise' \in BOOLEAN /\ traffic' \in 0 .. MaxTraffic
    <3>1. cancelled \in BOOLEAN /\ noise \in BOOLEAN /\ traffic \in 0 .. MaxTraffic
      BY <1>1 DEF TypeOK
    <3>2. CASE OtherPacket
      BY <3>1, <3>2, ConstantTypes DEF OtherPacket
    <3>3. CASE ~OtherPacket
      BY <3>1, <3>3
         DEF ReceiveOther, ReceiveNothing, ReceiveFails, Cancel, vars, socketVars
    <3> QED BY <3>2, <3>3
  <2>2. receiver' \in [pc : {"listening", "matched", "noted", "stopped", "failed"},
                       port : Ports \cup {0}, kind : {"none", "synack", "rst"}]
    BY <1>1 DEF ReceiveOther, ReceiveNothing, ReceiveFails, OtherPacket, Cancel, vars, TypeOK,
                Listening
  <2> QED BY <1>1, <1>2, <2>1, <2>2 DEF TypeOK, senderVars, verdicts
<1>4. AnswerStillCounts' /\ AboutToSend' /\ VerdictBeforeRemoval'
  <2>1. Awaited' = Awaited /\ Decided' = Decided
    BY <1>2 DEF Awaited, Decided, senderVars, verdicts
  <2> QED BY <1>1, <1>2, <2>1
          DEF AnswerStillCounts, AboutToSend, VerdictBeforeRemoval, senderVars, verdicts
<1>5. PlaceOfSender' /\ RoundsAreFull' /\ RoundsAreOver'
  BY <1>1, <1>2 DEF PlaceOfSender, RoundsAreFull, RoundsAreOver, InRounds, Spent, Decided,
                    senderVars, verdicts
<1>6. AnswersAreHonest'
  BY <1>1, <1>2 DEF AnswersAreHonest, Answers, senderVars, verdicts
<1>7. OutcomeOfSweep' /\ LateDoesNothing'
  BY <1>1, <1>2 DEF OutcomeOfSweep, Complete, LateDoesNothing, Decided, senderVars, verdicts
<1> QED BY <1>3, <1>4, <1>5, <1>6, <1>7 DEF SynInv

LEMMA StepSyn == SynInv /\ [Next]_vars => SynInv'
<1> SUFFICES ASSUME SynInv, [Next]_vars PROVE SynInv'
  OBVIOUS
<1>1. CASE NextPort BY <1>1, NextPortSyn
<1>2. CASE RecordProbe BY <1>2, RecordProbeSyn
<1>3. CASE SendProbe BY <1>3, SendProbeSyn
<1>4. CASE EndWait BY <1>4, EndWaitSyn
<1>5. CASE StopSending BY <1>5, StopSendingSyn
<1>6. CASE JoinReceiver BY <1>6, JoinReceiverSyn
<1>7. CASE Receive BY <1>7, ReceiveSyn
<1>8. CASE NoteVerdict BY <1>8, NoteVerdictSyn
<1>9. CASE ForgetProbe BY <1>9, ForgetProbeSyn
<1>10. CASE \/ ReceiveOther \/ ReceiveNothing \/ ReceiveFails \/ OtherPacket \/ Cancel
            \/ Returned \/ UNCHANGED vars
  BY <1>10, OtherStepsSyn DEF Returned
<1> QED BY <1>1, <1>2, <1>3, <1>4, <1>5, <1>6, <1>7, <1>8, <1>9, <1>10 DEF Next, SenderStep

-----------------------------------------------------------------------------
\* The inductive invariant holds throughout, for any host, retries and size of the table.
THEOREM SynInvariant == Spec => []SynInv
BY InitSyn, StepSyn, PTL DEF Spec

\* Every variable of a raw sweep keeps its type: the table and the verdicts hold ports of
\* this sweep only, and no port is tried more often than --tcp-retries allows.
THEOREM SynTypeOK == Spec => []TypeOK
<1>1. SynInv => TypeOK
  BY DEF SynInv
<1> QED BY <1>1, SynInvariant, PTL

\* Sender and receiver never lose track of a probe between them: as long as the sweep sends,
\* an answer to a probe without verdict, which the sender has not given up, still counts.
THEOREM AnswersStillCount == Spec => []AnswerStillCounts
<1>1. SynInv => AnswerStillCounts
  BY DEF SynInv
<1> QED BY <1>1, SynInvariant, PTL

\* A raw sweep that calls itself complete has sent every silent port a probe in each of its
\* rounds, wherever a cancel, a failed send or a verdict came in between.
THEOREM SynCompleteIsEarned == Spec => []CompleteIsEarned
<1>1. SynInv => CompleteIsEarned
  <2> SUFFICES ASSUME SynInv, outcome.complete, open \cap closed = {},
                      NEW p \in Ports \ Decided
               PROVE  p \in sent /\ tries[p] = Retries + 1
    BY DEF CompleteIsEarned, Decided
  <2>1. OutcomeOfSweep /\ RoundsAreOver
    BY DEF SynInv
  <2>2. pc = "returned" /\ Complete
    BY <2>1 DEF OutcomeOfSweep, NoOutcome
  <2> QED BY <2>1, <2>2 DEF RoundsAreOver, InRounds, Complete
<1> QED BY <1>1, SynInvariant, PTL

-----------------------------------------------------------------------------
LEMMA InitKeepsContract == Init => Contract!Init
BY DEF Init, Contract!Init, NoOutcome, Contract!NoOutcome

LEMMA StepKeepsContract ==
  ASSUME SynInv, [Next]_vars PROVE [Contract!Return]_(Contract!vars)
<1> DEFINE accepting == {p \in Ports : target[p] \in {"open", "fickle"}}
<1>1. TypeOK /\ OutcomeOfSweep /\ AnswersAreHonest /\ LateDoesNothing
  BY DEF SynInv
<1>2. target' = target /\ late' = late
  BY DEF Next, SenderStep, NextPort, RecordProbe, SendProbe, EndWait, StopSending,
         JoinReceiver, Receive, NoteVerdict, ForgetProbe, ReceiveOther, ReceiveNothing,
         ReceiveFails, OtherPacket, Cancel, Returned, vars
<1>3. CASE JoinReceiver
  <2>1. ~outcome.returned
    BY <1>1, <1>3 DEF JoinReceiver, OutcomeOfSweep, NoOutcome
  <2>2. open \subseteq accepting /\ Complete \in BOOLEAN
    BY <1>1 DEF AnswersAreHonest, TypeOK, Complete
  <2>3. outcome' \in [open : SUBSET accepting, complete : BOOLEAN, returned : {TRUE}]
    BY <1>3, <2>2 DEF JoinReceiver
  <2>4. late => outcome'.open = {} /\ ~outcome'.complete
    BY <1>1, <1>3, ConstantTypes DEF JoinReceiver, LateDoesNothing, Decided, Complete
  <2> QED BY <1>2, <2>1, <2>3, <2>4 DEF Contract!Return
<1>4. CASE ~JoinReceiver
  <2>1. outcome' = outcome
    BY <1>4
       DEF Next, SenderStep, NextPort, RecordProbe, SendProbe, EndWait, StopSending, Receive,
           NoteVerdict, ForgetProbe, ReceiveOther, ReceiveNothing, ReceiveFails, OtherPacket,
           Cancel, Returned, vars, senderVars
  <2> QED BY <1>2, <2>1 DEF Contract!vars
<1> QED BY <1>3, <1>4

\* run_raw gives the pipeline what ScannerBackend promises: one outcome, whose open ports
\* have answered a probe of this sweep by accepting it, and which claims nothing if the scan
\* was cancelled before the call.
THEOREM SynKeepsContract == Spec => Contract!Init /\ [][Contract!Return]_(Contract!vars)
<1>1. SynInv /\ [Next]_vars => [Contract!Return]_(Contract!vars)
  BY StepKeepsContract
<1> QED BY <1>1, InitKeepsContract, SynInvariant, PTL DEF Spec
=============================================================================
