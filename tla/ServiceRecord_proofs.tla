----------------------- MODULE ServiceRecord_proofs ------------------------
(***************************************************************************)
(* For every peer, however it ends its lines and frames its page: the end  *)
(* of the head that header_end finds is the end of the head for good; and  *)
(* no reason for a score is of a kind that is switched off, nor says of    *)
(* the connection what is not so.                                          *)
(***************************************************************************)
EXTENDS ServiceRecord, WellFoundedInduction, TLAPS

\* A set of numbers that is not empty has a least one, and Least finds it.
LEMMA LeastIsLeast ==
  ASSUME NEW S \in SUBSET Nat, S # {}
  PROVE  Least(S) \in S /\ \A m \in S : Least(S) <= m
<1>1. PICK n \in S : \A m \in S : ~ (<<m, n>> \in OpToRel(<, Nat))
  BY WFMin, NatLessThanWellFounded, Zenon
<1>2. \A m \in S : n <= m
  <2> SUFFICES ASSUME NEW m \in S, m < n PROVE FALSE
    OBVIOUS
  <2>1. <<m, n>> \in Nat \X Nat /\ <<m, n>>[1] < <<m, n>>[2]
    OBVIOUS
  <2>2. <<m, n>> \in OpToRel(<, Nat)
    BY <2>1, Zenon DEF OpToRel
  <2> QED BY <1>1, <2>2
<1> QED BY <1>2 DEF Least

LEMMA LeastIsUnique ==
  ASSUME NEW S \in SUBSET Nat, NEW n \in S, \A m \in S : n <= m
  PROVE  Least(S) = n
<1> DEFINE l == Least(S)
<1>1. l \in S /\ \A m \in S : l <= m
  <2>1. S # {}
    OBVIOUS
  <2> HIDE DEF l
  <2>2. Least(S) \in S /\ \A m \in S : Least(S) <= m
    BY <2>1, LeastIsLeast, Zenon
  <2> QED BY <2>2, Zenon DEF l
<1> HIDE DEF l
<1>2. l \in Nat /\ n \in Nat /\ l <= n /\ n <= l
  BY <1>1
<1>3. l = n
  BY <1>2
<1> QED BY <1>3, Zenon DEF l

\* One more token behind data changes none of those before it.
LEMMA AppendKeeps ==
  ASSUME NEW S, NEW d \in Seq(S), NEW t, NEW k \in Nat, NEW token
  PROVE  /\ At(d, k, token) => k \in 1 .. Len(d) /\ At(Append(d, t), k, token)
         /\ k <= Len(d) /\ At(Append(d, t), k, token) => At(d, k, token)
         /\ At(Append(d, t), k, token) => k \in 1 .. Len(d) + 1
<1>1. Append(d, t) \in Seq(S \cup {t})
  OBVIOUS
<1>2. /\ Len(Append(d, t)) = Len(d) + 1 /\ Len(d) \in Nat
      /\ \A i \in 1 .. Len(d) : Append(d, t)[i] = d[i]
  OBVIOUS
<1>3. DOMAIN d = 1 .. Len(d) /\ DOMAIN Append(d, t) = 1 .. Len(d) + 1
  BY <1>1, <1>2
<1> QED BY <1>2, <1>3 DEF At

\* Whatever comes behind data that holds a whole head, the head and the beginning of the
\* body stay what they are: the blank lines that a further token can complete begin behind
\* every one there was.
LEMMA HeadIsStable ==
  ASSUME NEW S, NEW d \in Seq(S), NEW t, HasHead(d)
  PROVE  /\ HasHead(Append(d, t))
         /\ HeadEnd(Append(d, t)) = HeadEnd(d)
         /\ BodyStart(Append(d, t)) = BodyStart(d)
<1> DEFINE e == Append(d, t)
           n == HeadEnd(d)
<1>1. /\ BlankLines(d) \in SUBSET Nat /\ BlankLines(e) \in SUBSET Nat
      /\ Append(d, t) \in Seq(S \cup {t})
  <2>1. d \in Seq(S) /\ e \in Seq(S \cup {t})
    OBVIOUS
  <2>2. DOMAIN d \subseteq Nat /\ DOMAIN e \subseteq Nat
    BY <2>1
  <2> QED BY <2>1, <2>2 DEF BlankLines
<1>2. n \in BlankLines(d) /\ \A m \in BlankLines(d) : n <= m
  BY <1>1, LeastIsLeast DEF HasHead, HeadEnd
<1>3. n \in Nat /\ Len(d) \in Nat
  BY <1>1, <1>2
<1>4. /\ At(d, n, "LF")
      /\ At(d, n + 1, "LF") \/ (At(d, n + 1, "CR") /\ At(d, n + 2, "LF"))
  BY <1>2 DEF BlankLines
<1>5. n \in BlankLines(e)
  <2>1. At(e, n, "LF")
    BY <1>3, <1>4, AppendKeeps
  <2>2. At(d, n + 1, "LF") => At(e, n + 1, "LF")
    BY <1>3, AppendKeeps
  <2>3. At(d, n + 1, "CR") => At(e, n + 1, "CR")
    BY <1>3, AppendKeeps
  <2>4. At(d, n + 2, "LF") => At(e, n + 2, "LF")
    BY <1>3, AppendKeeps
  <2>5. n \in DOMAIN e
    BY <2>1 DEF At
  <2> QED BY <1>4, <2>1, <2>2, <2>3, <2>4, <2>5 DEF BlankLines
<1>6. ASSUME NEW m \in BlankLines(e)
      PROVE  n <= m
  <2>1. m \in Nat /\ m + 1 \in Nat /\ m + 2 \in Nat
    BY <1>1
  <2>2. /\ At(e, m, "LF")
        /\ At(e, m + 1, "LF") \/ (At(e, m + 1, "CR") /\ At(e, m + 2, "LF"))
    BY DEF BlankLines
  <2>3. CASE m \in BlankLines(d)
    BY <2>3, <1>2
  <2>4. CASE m + 2 <= Len(d)
    <3>1. /\ At(d, m, "LF")
          /\ At(e, m + 1, "LF") => At(d, m + 1, "LF")
          /\ At(e, m + 1, "CR") => At(d, m + 1, "CR")
          /\ At(e, m + 2, "LF") => At(d, m + 2, "LF")
      BY <2>1, <2>2, <2>4, <1>3, AppendKeeps
    <3>2. m \in DOMAIN d
      BY <3>1 DEF At
    <3> QED BY <2>2, <2>3, <3>1, <3>2 DEF BlankLines
  <2>5. CASE m >= Len(d)
    <3>1. n + 1 <= Len(d)
      BY <1>3, <1>4, AppendKeeps
    <3> QED BY <2>1, <2>5, <1>3, <3>1
  <2>6. CASE m + 1 = Len(d)
    <3>1. CASE At(e, m + 1, "LF")
      <4>1. At(d, m, "LF") /\ At(d, m + 1, "LF")
        BY <2>1, <2>2, <2>6, <3>1, <1>3, AppendKeeps
      <4>2. m \in DOMAIN d
        BY <4>1 DEF At
      <4> QED BY <2>3, <4>1, <4>2 DEF BlankLines
    <3>2. CASE ~At(e, m + 1, "LF")
      <4>1. n + 1 <= Len(d)
        BY <1>3, <1>4, AppendKeeps
      <4> QED BY <2>1, <2>6, <1>3, <4>1
    <3> QED BY <3>1, <3>2
  <2> QED BY <2>1, <2>4, <2>5, <2>6, <1>3
<1>7. HeadEnd(e) = n
  BY <1>1, <1>5, <1>6, LeastIsUnique DEF HeadEnd
<1>8. At(e, n + 1, "LF") <=> At(d, n + 1, "LF")
  <2>1. n + 1 <= Len(d) /\ n + 1 \in Nat
    BY <1>3, <1>4, AppendKeeps
  <2> QED BY <2>1, AppendKeeps
<1> QED BY <1>5, <1>7, <1>8 DEF HasHead, BodyStart

-----------------------------------------------------------------------------
\* The data is a sequence of tokens, whichever these are.
SomeData == \E S : data \in Seq(S)

LEMMA DataIsSequence == Spec => []SomeData
<1>1. Init => SomeData
  <2> SUFFICES ASSUME Init PROVE SomeData
    OBVIOUS
  <2>1. data \in Seq({})
    BY DEF Init
  <2> QED BY <2>1 DEF SomeData
<1>2. SomeData /\ [Next]_vars => SomeData'
  <2> SUFFICES ASSUME SomeData, [Next]_vars PROVE SomeData'
    OBVIOUS
  <2>1. PICK S : data \in Seq(S)
    BY DEF SomeData
  <2>2. CASE Arrive
    <3> DEFINE t == Wire(peer)[Len(data) + 1].token
    <3>1. data' = Append(data, t)
      BY <2>2 DEF Arrive
    <3>2. Append(data, t) \in Seq(S \cup {t})
      BY <2>1
    <3> QED BY <3>1, <3>2 DEF SomeData
  <2>3. CASE data' = data
    BY <2>3, <2>1 DEF SomeData
  <2> QED
    BY <2>2, <2>3 DEF Next, RecordH2, EndOfResponse, Enrich, Recorded, vars
<1> QED BY <1>1, <1>2, PTL DEF Spec

\* header_end: the first blank line there is will always be the first one.  A response that
\* is cut short anywhere behind its head has the same head, and the same beginning of its
\* page, as the whole one, whatever its line endings are.
THEOREM HeadNeverMoves == Spec => HeadStays
<1>1. SomeData /\ [Next]_vars =>
        [HasHead(data) =>
           HeadEnd(data') = HeadEnd(data) /\ BodyStart(data') = BodyStart(data)]_vars
  <2> SUFFICES ASSUME SomeData, [Next]_vars, HasHead(data)
               PROVE  HeadEnd(data') = HeadEnd(data) /\ BodyStart(data') = BodyStart(data)
    OBVIOUS
  <2>1. PICK S : data \in Seq(S)
    BY DEF SomeData
  <2>2. CASE Arrive
    <3> DEFINE t == Wire(peer)[Len(data) + 1].token
    <3>1. data' = Append(data, t)
      BY <2>2 DEF Arrive
    <3> QED BY <3>1, <2>1, HeadIsStable
  <2>3. CASE data' = data
    BY <2>3
  <2> QED
    BY <2>2, <2>3 DEF Next, RecordH2, EndOfResponse, Enrich, Recorded, vars
<1> QED BY <1>1, DataIsSequence, PTL DEF Spec, HeadStays


-----------------------------------------------------------------------------
\* What is switched off gives no page its class, and no service a fingerprint.
LEMMA ClassIsSwitchedOn ==
  ASSUME NEW seen
  PROVE  /\ Names(seen) \subseteq Enabled
         /\ Class(seen) \in Switched => Class(seen) \in Enabled
<1>1. Names(seen) \subseteq Enabled
  BY DEF Names, Matches, RuleEnabled
<1> DEFINE Held == {k \in DOMAIN ClassOrder : Holds(ClassOrder[k], seen)}
<1>2. Held \in SUBSET Nat /\ Held # {}
  <2>1. DOMAIN ClassOrder = 1 .. 6 /\ ClassOrder[6] = "generic_web"
    BY DEF ClassOrder
  <2>2. Holds(ClassOrder[6], seen)
    BY <2>1 DEF Holds
  <2>3. 6 \in DOMAIN ClassOrder
    BY <2>1
  <2> QED BY <2>1, <2>2, <2>3
<1>3. PICK k \in DOMAIN ClassOrder : Class(seen) = ClassOrder[k] /\ Holds(ClassOrder[k], seen)
  <2> HIDE DEF Held
  <2>1. PICK n \in Held : \A m \in Held : n <= m
    <3>1. Least(Held) \in Held /\ \A m \in Held : Least(Held) <= m
      BY <1>2, LeastIsLeast
    <3> QED BY <3>1
  <2>2. Min(Held) \in Held
    BY <2>1, Zenon DEF Min
  <2>3. Class(seen) = ClassOrder[Min(Held)]
    BY DEF Class, Held
  <2> QED BY <2>2, <2>3 DEF Held
<1>4. ASSUME Class(seen) \in Switched PROVE Class(seen) \in Enabled
  <2>1. ClassOrder[k] \in {"file_server", "directory_listing", "login_panel", "admin_panel",
                            "api", "generic_web"}
    BY DEF ClassOrder
  <2>2. Class(seen) \in {"directory_listing", "login_panel", "admin_panel"}
    BY <1>3, <1>4, <2>1 DEF Switched
  <2> QED BY <1>3, <2>2 DEF Holds
<1> QED BY <1>1, <1>4

\* Before the engine has seen a service it has no class that could be switched off, and no
\* reasons.
SwitchInv ==
  /\ phase \in {"reading", "probed"} =>
       /\ service.class \notin Switched
       /\ service.fingerprints = {} /\ service.reasons = {}
  /\ ReasonsAreSwitchedOn

LEMMA InitSwitch == Init => SwitchInv
BY DEF Init, SwitchInv, UnknownTcp, Switched, ReasonsAreSwitchedOn

LEMMA StepSwitch == SwitchInv /\ [Next]_vars => SwitchInv'
<1> SUFFICES ASSUME SwitchInv, [Next]_vars PROVE SwitchInv'
  OBVIOUS
<1>1. CASE RecordH2 \/ EndOfResponse
  <2>1. /\ service'.class \in {"none", "unknown_web", "unknown_tls"}
        /\ service'.fingerprints = {} /\ service'.reasons = {}
    BY <1>1 DEF RecordH2, EndOfResponse, Confirmed, UnknownTcp, ToService
  <2> QED BY <2>1 DEF SwitchInv, ReasonsAreSwitchedOn, Switched
<1>2. CASE Arrive \/ Recorded \/ UNCHANGED vars
  BY <1>2 DEF Arrive, Recorded, vars, SwitchInv, ReasonsAreSwitchedOn
<1>3. CASE Enrich
  <2> DEFINE classified == Classified(service)
  <2>1. /\ phase = "probed" /\ phase' = "done" /\ service' = Scored(classified)
        /\ service.class \notin Switched
        /\ service.fingerprints = {} /\ service.reasons = {}
    BY <1>3 DEF Enrich, SwitchInv
  <2>2. /\ classified.class \in Switched => classified.class \in Enabled
        /\ classified.fingerprints \subseteq Enabled
        /\ classified.reasons = {}
    BY <2>1, ClassIsSwitchedOn DEF Classified, Switched
  <2> HIDE DEF classified
  <2>3. service'.reasons \in {classified.reasons, Reasons(classified)}
    BY <2>1 DEF Scored
  <2>4. Reasons(classified) \cap Switched \subseteq Enabled
    BY <2>2 DEF Reasons, Switched
  <2> QED BY <2>1, <2>2, <2>3, <2>4 DEF SwitchInv, ReasonsAreSwitchedOn
<1> QED BY <1>1, <1>2, <1>3 DEF Next

\* A page that looks like a login or admin panel, a listing or HFS adds no points when the
\* user has switched that rule off, whatever the peer sends and however the response ends
\* (FingerprintEngine::new, analyze, enrich, suspicion_score).
THEOREM SwitchedOffIsSilent == Spec => []ReasonsAreSwitchedOn
<1>1. SwitchInv => ReasonsAreSwitchedOn
  BY DEF SwitchInv
<1> QED BY <1>1, InitSwitch, StepSwitch, PTL DEF Spec

-----------------------------------------------------------------------------
\* What a record holds of the connection, before the engine and behind it.
ConnectionInv ==
  /\ peer \in Peers
  /\ service.highPort => peer.highPort
  /\ service.certificate \subseteq peer.certificate
  /\ service.protocol \in {"http", "https"} => service.icon = peer.icon \/ peer.tls = "h2"
  /\ phase \in {"reading", "probed"} => service.reasons = {}
  /\ ReasonsAreTrue(service.reasons \cap OnConnection)

LEMMA InitConnection == Init => ConnectionInv
BY DEF Init, ConnectionInv, UnknownTcp, ReasonsAreTrue

\* A record that agrees with its connection has only reasons that do.
LEMMA ReasonsOfConnection ==
  ASSUME NEW s, peer \in Peers,
         s.highPort => peer.highPort,
         s.certificate \subseteq peer.certificate,
         s.protocol \in {"http", "https"} => s.icon = peer.icon \/ peer.tls = "h2"
  PROVE  ReasonsAreTrue(Reasons(s) \cap OnConnection)
<1> SUFFICES ASSUME NEW reason \in Reasons(s) \cap OnConnection
             PROVE  TrueOf(Unpacked(peer, peer.page), reason)
  BY DEF ReasonsAreTrue
<1>1. CASE reason = "high port"
  BY <1>1 DEF Reasons, TrueOf
<1>2. CASE reason \in {"self-signed", "expired"}
  BY <1>2, PeersAssumption DEF Reasons, TrueOf
<1>3. CASE reason = "unknown"
  BY <1>3 DEF Reasons, TrueOf
<1> QED BY <1>1, <1>2, <1>3 DEF OnConnection

LEMMA StepConnection == ConnectionInv /\ [Next]_vars => ConnectionInv'
<1> SUFFICES ASSUME ConnectionInv, [Next]_vars PROVE ConnectionInv'
  OBVIOUS
<1>1. CASE RecordH2 \/ EndOfResponse
  <2>1. /\ peer' = peer /\ phase' = "probed" /\ service'.reasons = {}
    BY <1>1 DEF RecordH2, EndOfResponse, Confirmed, UnknownTcp, ToService
  <2>2. service'.highPort \in {FALSE, peer.highPort}
    BY <1>1 DEF RecordH2, EndOfResponse, Confirmed, UnknownTcp, ToService
  <2>3. service'.certificate \in {{}, peer.certificate}
    BY <1>1 DEF RecordH2, EndOfResponse, Confirmed, UnknownTcp, ToService
  <2>4. \/ service'.icon = peer.icon
        \/ peer.tls = "h2"
        \/ service'.protocol \in {"tls", "unknown"}
    BY <1>1 DEF RecordH2, EndOfResponse, Confirmed, UnknownTcp, ToService
  <2> QED BY <2>1, <2>2, <2>3, <2>4 DEF ConnectionInv, ReasonsAreTrue
<1>2. CASE Arrive \/ Recorded \/ UNCHANGED vars
  <2>1. /\ peer' = peer /\ phase' = phase /\ service' = service
    BY <1>2 DEF Arrive, Recorded, vars
  <2> QED BY <2>1 DEF ConnectionInv, ReasonsAreTrue, TrueOf, Unpacked
<1>3. CASE Enrich
  <2> DEFINE classified == Classified(service)
  <2>1. /\ phase = "probed" /\ phase' = "done" /\ peer' = peer
        /\ service' = Scored(classified) /\ service.reasons = {}
    BY <1>3 DEF Enrich, ConnectionInv
  <2>2. /\ classified.highPort = service.highPort
        /\ classified.certificate = service.certificate
        /\ classified.icon = service.icon
        /\ classified.protocol = service.protocol
        /\ classified.reasons = service.reasons
    BY DEF Classified
  <2> HIDE DEF classified
  <2>3. /\ service'.highPort = classified.highPort
        /\ service'.certificate = classified.certificate
        /\ service'.icon = classified.icon
        /\ service'.protocol = classified.protocol
        /\ service'.reasons \in {{}, Reasons(classified)}
    BY <2>1, <2>2 DEF Scored
  <2>4. ReasonsAreTrue(Reasons(classified) \cap OnConnection)
    BY <2>2, ReasonsOfConnection DEF ConnectionInv
  <2>5. ReasonsAreTrue(service'.reasons \cap OnConnection)
    BY <2>3, <2>4 DEF ReasonsAreTrue
  <2>6. ReasonsAreTrue(service.reasons \cap OnConnection)'
    BY <2>1, <2>5 DEF ReasonsAreTrue, TrueOf, Unpacked
  <2> QED BY <2>1, <2>2, <2>3, <2>6 DEF ConnectionInv
<1> QED BY <1>1, <1>2, <1>3 DEF Next

\* Points for a port, a certificate or a service nobody can name are given only where the
\* peer has that port, that certificate and no icon, wherever the response was cut short and
\* whatever else it says; an HTTP/2-only endpoint is excepted (enrich, suspicion_score).
THEOREM ConnectionIsScoredAsItIs ==
  Spec => []ReasonsAreTrue(service.reasons \cap OnConnection)
<1>1. ConnectionInv => ReasonsAreTrue(service.reasons \cap OnConnection)
  BY DEF ConnectionInv
<1> QED BY <1>1, InitConnection, StepConnection, PTL DEF Spec
=============================================================================
