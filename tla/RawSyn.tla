------------------------------- MODULE RawSyn -------------------------------
(***************************************************************************)
(* run_raw of scanner/raw_syn.rs: one host swept by a sender that paces    *)
(* SYNs and a receiver thread that matches the answers, over three tables  *)
(* behind locks of their own.  One action per critical section.            *)
(*                                                                         *)
(* Time is left out: a wait or a probe may expire at any moment.  So are   *)
(* packet layout and checksums (an answer either acknowledges our SYN or   *)
(* does not) and the RSTs that tear half-open connections down.            *)
(*                                                                         *)
(* Nothing uses an operator marked as a faulty variant: it is the one      *)
(* below it with a plausible mistake, for the mutation checks.             *)
(***************************************************************************)
EXTENDS Naturals, FiniteSets

CONSTANTS
  NumPorts,           \* ports.len(); a port is its place in the sorted vector
  Targets,            \* the hosts to sweep: how each port takes a SYN
  Retries,            \* settings.tcp_retries
  TableLimit,         \* the size at which expired probes leave the table: 4096
  Faults,             \* whether a send or the receiver may fail
  MaxTraffic          \* bound on the other TCP packets that reach the raw socket

Ports == 1 .. NumPorts
Kinds == {"open", "closed", "fickle", "odd", "silent"}

ASSUME RawSynAssumption ==
  /\ Targets \subseteq [Ports -> Kinds]
  /\ NumPorts \in Nat \ {0} /\ Retries \in Nat /\ TableLimit \in Nat \ {0}
  /\ Faults \in BOOLEAN /\ MaxTraffic \in Nat

VARIABLES
  target,             \* the host
  cancelled, late,    \* the CancellationToken, now and when discover was called
  pc, round, at,      \* the sender: where it is, its attempt, the port it is at
  interrupted, sendingDone,
  outstanding,        \* the ports whose answer is waited for
  open, closed,       \* the verdicts
  sent,               \* sent_ports
  receiver,           \* [pc, port, kind] of the receiver thread
  inFlight,           \* answers that the receiver has yet to see
  traffic, noise,     \* other packets so far; whether one is in the socket's buffer
  outcome,
  tries, forgotten    \* auxiliary: attempts at each port; probes the sender gave up

vars == <<target, cancelled, late, pc, round, at, interrupted, sendingDone, outstanding,
          open, closed, sent, receiver, inFlight, traffic, noise, outcome, tries, forgotten>>

senderVars == <<pc, round, at, interrupted, sendingDone, sent, outcome, tries, forgotten>>
socketVars == <<inFlight, traffic, noise>>
verdicts == <<open, closed>>

-----------------------------------------------------------------------------
Listening == [pc |-> "listening", port |-> 0, kind |-> "none"]
Answer(p, kind) == [port |-> p, kind |-> kind, acks |-> TRUE]

\* A SYN/ACK of another connection, or one that is not meant for this probe.
Stray(p) == [port |-> p, kind |-> "synack", acks |-> FALSE]

\* What a SYN to port p may bring back; any answer may also be lost.
Answers(p) ==
  LET kinds == CASE target[p] = "open"   -> {"synack"}
                 [] target[p] = "closed" -> {"rst"}
                 [] target[p] = "fickle" -> {"synack", "rst"}
                 [] target[p] = "odd"    -> {"ack"}
                 [] target[p] = "silent" -> {}
  IN  {Answer(p, k) : k \in kinds}

NoOutcome == [open |-> {}, complete |-> FALSE, returned |-> FALSE]

Init ==
  /\ target \in Targets
  /\ late \in BOOLEAN /\ cancelled = late
  /\ pc = "check" /\ round = 0 /\ at = 1
  /\ interrupted = FALSE /\ sendingDone = FALSE
  /\ outstanding = {} /\ open = {} /\ closed = {} /\ sent = {}
  /\ receiver = Listening
  /\ inFlight \in {{}, {Stray(1)}}
  /\ traffic = 0 /\ noise = FALSE
  /\ outcome = NoOutcome
  /\ tries = [p \in Ports |-> 0] /\ forgotten = {}

-----------------------------------------------------------------------------
\* The head of the inner loop: the round is over, the sweep is cancelled, the port has
\* its verdict, or it is the next to be probed.
NextPort ==
  /\ pc = "check"
  /\ \/ at > NumPorts /\ pc' = "wait" /\ UNCHANGED <<at, interrupted>>
     \/ at <= NumPorts /\ cancelled
        /\ interrupted' = TRUE /\ pc' = "stop" /\ UNCHANGED at
     \/ at <= NumPorts /\ ~cancelled /\ at \in open \cup closed
        /\ at' = at + 1 /\ UNCHANGED <<pc, interrupted>>
     \/ at <= NumPorts /\ ~cancelled /\ at \notin open \cup closed
        /\ pc' = "record" /\ UNCHANGED <<at, interrupted>>
  /\ UNCHANGED <<target, cancelled, late, round, sendingDone, outstanding, verdicts, sent,
                 receiver, socketVars, outcome, tries, forgotten>>

\* After the pacer: expired probes leave a full table, and this one is entered.
RecordProbe ==
  /\ pc = "record"
  /\ \E kept \in (IF Cardinality(outstanding) >= TableLimit THEN SUBSET outstanding
                                                           ELSE {outstanding}) :
       /\ outstanding' = kept \cup {at}
       /\ forgotten' = (forgotten \cup (outstanding \ kept)) \ {at}
  /\ pc' = "send"
  /\ UNCHANGED <<target, cancelled, late, round, at, interrupted, sendingDone, verdicts,
                 sent, receiver, socketVars, outcome, tries>>

\* A failed send takes the port out of the table, whatever went out in earlier rounds.
AfterFailedSend == outstanding \ {at}

SendProbe ==
  /\ pc = "send"
  /\ \/ /\ \E answer \in {{}} \cup {{a} : a \in Answers(at)} : inFlight' = inFlight \cup answer
        /\ sent' = sent \cup {at}
        /\ UNCHANGED <<outstanding, forgotten>>
     \/ /\ Faults
        /\ outstanding' = AfterFailedSend
        /\ forgotten' = forgotten \cup {at}
        /\ UNCHANGED <<inFlight, sent>>
  /\ tries' = [tries EXCEPT ![at] = @ + 1]
  /\ at' = at + 1
  /\ pc' = "check"
  /\ UNCHANGED <<target, cancelled, late, round, interrupted, sendingDone, verdicts,
                 receiver, traffic, noise, outcome>>

\* resolved == ports.len()
ResolvedByTable == outstanding = {}                             \* faulty variant
Resolved == Cardinality(open) + Cardinality(closed) = NumPorts

OneRoundTooMany == round <= Retries                             \* faulty variant
MoreRounds == round < Retries

\* The wait after a round ends by a cancel, by the last verdict, or by the timeout.
EndWait ==
  /\ pc = "wait"
  /\ \/ /\ cancelled
        /\ interrupted' = TRUE /\ pc' = "stop" /\ UNCHANGED <<round, at>>
     \/ /\ Resolved
        /\ pc' = "stop" /\ UNCHANGED <<round, at, interrupted>>
     \/ /\ MoreRounds
        /\ round' = round + 1 /\ at' = 1 /\ pc' = "check" /\ UNCHANGED interrupted
     \/ /\ ~MoreRounds
        /\ pc' = "stop" /\ UNCHANGED <<round, at, interrupted>>
  /\ UNCHANGED <<target, cancelled, late, sendingDone, outstanding, verdicts, sent, receiver,
                 socketVars, outcome, tries, forgotten>>

\* sending_done is stored and the table cleared: answers that come now are late.
StopSending ==
  /\ pc = "stop"
  /\ sendingDone' = TRUE
  /\ outstanding' = {}
  /\ pc' = "join"
  /\ UNCHANGED <<target, cancelled, late, round, at, interrupted, verdicts, sent, receiver,
                 socketVars, outcome, tries, forgotten>>

\* An interrupted sweep, or one with a port that never went out, is not complete.
Complete == ~interrupted /\ sent = Ports

\* The receiver is joined; its error is the error of the whole sweep, which the pipeline
\* takes for an empty, incomplete outcome.
JoinReceiver ==
  /\ pc = "join"
  /\ receiver.pc \in {"stopped", "failed"}
  /\ pc' = "returned"
  /\ outcome' = IF receiver.pc = "failed"
                  THEN [open |-> {}, complete |-> FALSE, returned |-> TRUE]
                  ELSE [open |-> open, complete |-> Complete, returned |-> TRUE]
  /\ UNCHANGED <<target, cancelled, late, round, at, interrupted, sendingDone, outstanding,
                 verdicts, sent, receiver, socketVars, tries, forgotten>>

-----------------------------------------------------------------------------
\* The answer acknowledges a probe that is still in the table.
MatchesPort(answer) == answer.port \in outstanding              \* faulty variant
Matches(answer) == answer.port \in outstanding /\ answer.acks

\* One packet of the target; the network may deliver it again later.
Receive ==
  /\ receiver = Listening
  /\ \E answer \in inFlight :
       /\ inFlight' \in {inFlight, inFlight \ {answer}}
       /\ receiver' = IF Matches(answer) /\ answer.kind # "ack"
                        THEN [pc |-> "matched", port |-> answer.port, kind |-> answer.kind]
                        ELSE Listening
  /\ UNCHANGED <<target, cancelled, late, senderVars, outstanding, verdicts, traffic, noise>>

NoteVerdict ==
  /\ receiver.pc = "matched"
  /\ open' = IF receiver.kind = "synack" THEN open \cup {receiver.port} ELSE open
  /\ closed' = IF receiver.kind = "rst" THEN closed \cup {receiver.port} ELSE closed
  /\ receiver' = [receiver EXCEPT !.pc = "noted"]
  /\ UNCHANGED <<target, cancelled, late, senderVars, outstanding, socketVars>>

\* The table without the probe that has been answered.
ForgetAll == {}                                                 \* faulty variant
Unanswered == outstanding \ {receiver.port}
ForgetProbe ==
  /\ receiver.pc = "noted"
  /\ outstanding' = Unanswered
  /\ receiver' = Listening
  /\ UNCHANGED <<target, cancelled, late, senderVars, verdicts, socketVars>>

\* Any other TCP packet for this machine is read and skipped...
ReceiveOther ==
  /\ receiver = Listening
  /\ noise
  /\ noise' = FALSE
  /\ UNCHANGED <<target, cancelled, late, senderVars, outstanding, verdicts, receiver,
                 inFlight, traffic>>

\* ... and only 100 ms without any packet make the receiver look at sending_done.
ReceiveNothing ==
  /\ receiver = Listening
  /\ ~noise
  /\ sendingDone
  /\ receiver' = [Listening EXCEPT !.pc = "stopped"]
  /\ UNCHANGED <<target, cancelled, late, senderVars, outstanding, verdicts, socketVars>>

ReceiveFails ==
  /\ receiver = Listening
  /\ Faults
  /\ receiver' = [Listening EXCEPT !.pc = "failed"]
  /\ UNCHANGED <<target, cancelled, late, senderVars, outstanding, verdicts, socketVars>>

-----------------------------------------------------------------------------
OtherPacket ==
  /\ ~noise /\ pc # "returned"
  /\ traffic < MaxTraffic
  /\ noise' = TRUE /\ traffic' = traffic + 1
  /\ UNCHANGED <<target, cancelled, late, senderVars, outstanding, verdicts, receiver,
                 inFlight>>

Cancel ==
  /\ ~cancelled /\ pc # "returned"
  /\ cancelled' = TRUE
  /\ UNCHANGED <<target, late, senderVars, outstanding, verdicts, receiver, socketVars>>

\* Not a step of the code: discover has returned.
Returned ==
  /\ pc = "returned"
  /\ UNCHANGED vars

SenderStep ==
  NextPort \/ RecordProbe \/ SendProbe \/ EndWait \/ StopSending \/ JoinReceiver

Next ==
  \/ SenderStep
  \/ Receive \/ NoteVerdict \/ ForgetProbe \/ ReceiveOther \/ ReceiveNothing \/ ReceiveFails
  \/ OtherPacket \/ Cancel \/ Returned

Spec == Init /\ [][Next]_vars

\* Both threads keep running, and a quiet socket times out.
FairSpec ==
  /\ Spec
  /\ WF_vars(SenderStep)
  /\ WF_vars(NoteVerdict \/ ForgetProbe) /\ WF_vars(ReceiveOther) /\ WF_vars(ReceiveNothing)

-----------------------------------------------------------------------------
\* The types, and a probe in the table or under a verdict is one of this sweep.
TypeOK ==
  /\ target \in Targets
  /\ cancelled \in BOOLEAN /\ late \in BOOLEAN /\ interrupted \in BOOLEAN
  /\ sendingDone \in BOOLEAN /\ noise \in BOOLEAN /\ traffic \in 0 .. MaxTraffic
  /\ pc \in {"check", "record", "send", "wait", "stop", "join", "returned"}
  /\ round \in 0 .. Retries /\ at \in 1 .. NumPorts + 1
  /\ outstanding \subseteq Ports /\ open \subseteq Ports /\ closed \subseteq Ports
  /\ sent \subseteq Ports /\ forgotten \subseteq Ports
  /\ receiver \in [pc : {"listening", "matched", "noted", "stopped", "failed"},
                   port : Ports \cup {0}, kind : {"none", "synack", "rst"}]
  /\ inFlight \subseteq
       [port : Ports, kind : {"synack", "rst", "ack"}, acks : BOOLEAN]
  /\ outcome \in [open : SUBSET Ports, complete : BOOLEAN, returned : BOOLEAN]
  /\ tries \in [Ports -> 0 .. Retries + 1]

\* Where an answer can still become a verdict.
Awaited == outstanding \cup (IF receiver.pc = "matched" THEN {receiver.port} ELSE {})

\* No answer is missed while the sweep lasts: a probe that went out, has no verdict and was
\* not given up by the sender is in the table, though both threads take entries out of it
\* and the receiver's look-up, verdict and removal are three critical sections.
AnswerStillCounts ==
  ~sendingDone => sent \ (open \cup closed \cup forgotten) \subseteq Awaited

\* A sweep that calls itself complete has tried every port without a verdict in every
\* round, unless some port answered twice and differently, which resolves it twice.
CompleteIsEarned ==
  outcome.complete /\ open \cap closed = {} =>
    \A p \in Ports \ (open \cup closed) : p \in sent /\ tries[p] = Retries + 1

\* A complete sweep never calls a port open that only a stray packet spoke for, nor
\* anything complete that was cancelled before it began; and, as other traffic at the raw
\* socket comes to an end, every sweep returns.
Contract == INSTANCE SweepContract WITH
  accepting <- {p \in Ports : target[p] \in {"open", "fickle"}}
KeepsContract == Contract!Spec

=============================================================================
