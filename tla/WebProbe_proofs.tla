--------------------------- MODULE WebProbe_proofs ---------------------------
(***************************************************************************)
(* What one probe keeps to, for all timeouts and limits: the deadline of a *)
(* response, the evidence of TLS, whatever arrived of the response, and    *)
(* its budget when TLS is short.                                           *)
(***************************************************************************)
EXTENDS WebProbe, TLAPS

-----------------------------------------------------------------------------
\* Which request can be under way in which phase, and what is known by then.
ShapeInv ==
  /\ phase = "handshake" => request.tls
  /\ phase \in {"write", "read"} /\ request.tls => handshaken
  /\ phase # "returned" /\ request.path = "/favicon.ico" /\ request.tls =>
       handshaken /\ service.tls
  /\ phase # "returned" /\ handshaken => request.tls
  /\ phase = "returned" /\ handshaken /\ ~service.cut => service.tls
  /\ phase # "returned" => ~service.cut

ProbeInv == TypeOK /\ TrickleIsBounded /\ ShapeInv

\* How long a connection takes to open, and how late a request may begin.
Opening(r) == IF r.tls THEN 2 * TlsTimeout ELSE HttpTimeout
Latest(r) ==
  (IF r.tls THEN 0 ELSE 2 * TlsTimeout)
    + (IF r.path = "/favicon.ico" THEN Opening(r) + BodyTimeout ELSE 0)

\* The time that has passed in each phase at most, and what the guard may have cut.
TimeInv ==
  /\ phase = "connect" => now <= Latest(request)
  /\ phase = "handshake" => now <= Latest(request) + TlsTimeout
  /\ phase = "write" => now <= Latest(request) + Opening(request)
  /\ phase = "read" => deadline <= Latest(request) + Opening(request) + BodyTimeout
  /\ GuardOnlyCutsIcons

-----------------------------------------------------------------------------
\* The budget and the limit on data are numbers.
LEMMA Bounds == Budget \in Nat /\ (TypeOK => MaxTotal \in Nat)
<1>1. Budget \in Nat
  BY WebProbeAssumption DEF Budget
<1>2. ASSUME TypeOK PROVE MaxTotal \in Nat
  BY <1>2, WebProbeAssumption DEF MaxTotal, LesserOf
<1> QED BY <1>1, <1>2

\* In every phase of a probe the limit of its wait is a number.
LEMMA LimitIsNat ==
  ASSUME TypeOK, TrickleIsBounded, phase # "returned"
  PROVE  Limit \in Nat
<1>1. ASSUME phase = "read" PROVE Limit \in Nat
  <2>1. deadline - now \in Nat
    BY <1>1, Bounds DEF TypeOK, TrickleIsBounded
  <2> QED BY <2>1, <1>1, WebProbeAssumption DEF Limit, ReadLimit, LesserOf
<1>2. ASSUME phase \in {"connect", "handshake", "write"} PROVE Limit \in Nat
  BY <1>2, WebProbeAssumption DEF Limit, LesserOf
<1> QED BY <1>1, <1>2 DEF TypeOK

\* A wait that ends by itself or by its timeout stays in its limit and in the budget.
LEMMA WaitBounds ==
  ASSUME TypeOK, TrickleIsBounded, phase # "returned",
         (\E d \in 0 .. Limit : Takes(d)) \/ TimesOut
  PROVE  now' \in 0 .. Budget /\ now' <= now + Limit /\ now <= now'
<1>1. now \in Nat /\ Limit \in Nat /\ Budget \in Nat
  BY LimitIsNat, Bounds DEF TypeOK
<1> QED BY <1>1 DEF Takes, TimesOut


-----------------------------------------------------------------------------
(* Each way a phase can go on, with everything but time. *)

\* A ServiceResult as the probe builds it is one.
LEMMA Services ==
  \A protocol \in {"unknown", "tls", "https", "http"}, tls, status \in BOOLEAN :
    /\ Service(protocol, tls, status) \in
         [protocol : {"unknown", "tls", "https", "http"},
          tls : BOOLEAN, status : BOOLEAN, icon : BOOLEAN, cut : BOOLEAN]
    /\ Service(protocol, tls, status).tls = tls
    /\ Service(protocol, tls, status).cut = FALSE
BY DEF Service

\* The part of ProbeInv that does not speak of time.
Untimed ==
  /\ https \in BOOLEAN /\ http \in BOOLEAN /\ handshaken \in BOOLEAN
  /\ peer \in [http : BOOLEAN, head : Heads, icon : BOOLEAN]
  /\ request \in [path : {"/", "/favicon.ico"}, tls : BOOLEAN]
  /\ phase \in {"connect", "handshake", "write", "read", "returned"}
  /\ deadline \in Nat /\ received \in 0 .. MaxTotal
  /\ service \in [protocol : {"unknown", "tls", "https", "http"},
                  tls : BOOLEAN, status : BOOLEAN, icon : BOOLEAN, cut : BOOLEAN]
  /\ ShapeInv

\* A request without a response leaves the probe in order, whatever it falls back to.
LEMMA WithoutResponseKeeps ==
  ASSUME Untimed, phase # "returned", WithoutResponse,
         UNCHANGED <<https, http, peer, handshaken>>
  PROVE  Untimed' /\ phase' \in {"connect", "returned"}
<1>. DEFINE S == [protocol : {"unknown", "tls", "https", "http"},
                  tls : BOOLEAN, status : BOOLEAN, icon : BOOLEAN, cut : BOOLEAN]
<1>1. UnknownTcp \in S /\ UnknownTcp.cut = FALSE
  BY Services DEF UnknownTcp
<1>2. CASE request.path = "/favicon.ico"
  <2>1. service' = service /\ phase' = "returned" /\ UNCHANGED <<request, deadline, received>>
    BY <1>2 DEF WithoutResponse, Return
  <2>2. handshaken => service.tls
    BY <1>2 DEF Untimed, ShapeInv
  <2> QED BY <2>1, <2>2 DEF Untimed, ShapeInv, MaxTotal
<1>3. CASE request.path # "/favicon.ico" /\ handshaken
  <2>. DEFINE kept == Service("tls", TRUE, FALSE)
  <2>1. service' = kept /\ phase' = "returned" /\ UNCHANGED <<request, deadline, received>>
    BY <1>3 DEF WithoutResponse, Return
  <2>2. kept \in S /\ kept.tls
    BY Services
  <2>. HIDE DEF kept
  <2> QED BY <2>1, <2>2 DEF Untimed, ShapeInv, MaxTotal
<1>4. CASE request.path # "/favicon.ico" /\ ~handshaken /\ request.tls /\ http
  <2>1. /\ request' = Index(FALSE) /\ phase' = "connect" /\ received' = 0
        /\ UNCHANGED <<deadline, service>>
    BY <1>4 DEF WithoutResponse, PlainHttp, Start
  <2>2. Index(FALSE) \in [path : {"/", "/favicon.ico"}, tls : BOOLEAN]
        /\ Index(FALSE).path = "/" /\ ~Index(FALSE).tls
    BY DEF Index
  <2>3. 0 \in (0 .. MaxTotal)'
    BY <2>1, <2>2, WebProbeAssumption DEF MaxTotal, LesserOf
  <2> QED BY <2>1, <2>2, <2>3, <1>4 DEF Untimed, ShapeInv
<1>5. CASE request.path # "/favicon.ico" /\ ~handshaken /\ ~(request.tls /\ http)
  <2>1. /\ service' = UnknownTcp /\ phase' = "returned"
        /\ UNCHANGED <<request, deadline, received>>
    BY <1>5 DEF WithoutResponse, PlainHttp, Return, Untimed
  <2> QED BY <2>1, <1>1, <1>5 DEF Untimed, ShapeInv, MaxTotal
<1> QED BY <1>2, <1>3, <1>4, <1>5 DEF Untimed

\* The same for the end of a response.
LEMMA EndResponseKeeps ==
  ASSUME Untimed, phase = "read", NEW n \in Nat, EndResponse(n),
         UNCHANGED <<https, http, peer, handshaken>>
  PROVE  Untimed' /\ phase' \in {"connect", "returned"}
<1>1. CASE request.path = "/favicon.ico"
  <2>1. /\ service' = [service EXCEPT !.icon = IsIcon(n)] /\ phase' = "returned"
        /\ UNCHANGED <<request, deadline, received>>
    BY <1>1 DEF EndResponse, Return
  <2>2. IsIcon(n) \in BOOLEAN
    BY DEF IsIcon, Parses, Untimed
  <2>3. handshaken => service.tls
    BY <1>1 DEF Untimed, ShapeInv
  <2> QED BY <2>1, <2>2, <2>3 DEF Untimed, ShapeInv, MaxTotal
<1>2. CASE request.path # "/favicon.ico" /\ Parses(n)
  <2>. DEFINE found == Service(IF request.tls THEN "https" ELSE "http", request.tls, TRUE)
  <2>1. /\ request' = Favicon(request.tls) /\ phase' = "connect" /\ received' = 0
        /\ service' = found /\ UNCHANGED deadline
    BY <1>2 DEF EndResponse, Start
  <2>2. /\ Favicon(request.tls) \in [path : {"/", "/favicon.ico"}, tls : BOOLEAN]
        /\ Favicon(request.tls).tls = request.tls
    BY DEF Favicon, Untimed
  <2>3. /\ found \in [protocol : {"unknown", "tls", "https", "http"},
                  tls : BOOLEAN, status : BOOLEAN, icon : BOOLEAN, cut : BOOLEAN]
        /\ found.tls = request.tls /\ found.cut = FALSE
    BY Services DEF Untimed
  <2>4. 0 \in (0 .. MaxTotal)'
    BY <2>1, <2>2, WebProbeAssumption DEF MaxTotal, LesserOf
  <2>5. request.tls <=> handshaken
    BY DEF Untimed, ShapeInv
  <2>. HIDE DEF found
  <2> QED BY <2>1, <2>2, <2>3, <2>4, <2>5 DEF Untimed, ShapeInv
<1>3. CASE request.path # "/favicon.ico" /\ ~Parses(n)
  <2>1. WithoutResponse
    BY <1>3 DEF EndResponse
  <2> QED BY <2>1, WithoutResponseKeeps
<1> QED BY <1>1, <1>2, <1>3

-----------------------------------------------------------------------------
(* The invariant of the probe. *)

\* ProbeInv is Untimed and what it says of the clock.
LEMMA Split ==
  ProbeInv <=> Untimed /\ now \in 0 .. Budget /\ (phase = "read" => now <= deadline)
BY DEF ProbeInv, TypeOK, TrickleIsBounded, Untimed

LEMMA InitInv == Init => ProbeInv
<1>. SUFFICES ASSUME Init PROVE ProbeInv
  OBVIOUS
<1>1. Index(https) \in [path : {"/", "/favicon.ico"}, tls : BOOLEAN]
      /\ Index(https).path = "/"
  BY DEF Init, Index
<1>2. UnknownTcp \in [protocol : {"unknown", "tls", "https", "http"},
                  tls : BOOLEAN, status : BOOLEAN, icon : BOOLEAN, cut : BOOLEAN]
      /\ UnknownTcp.cut = FALSE
  BY Services DEF UnknownTcp
<1>3. now \in 0 .. Budget
  BY Bounds DEF Init
<1>4. received \in 0 .. MaxTotal
  BY <1>1, WebProbeAssumption DEF Init, MaxTotal, LesserOf
<1> QED BY <1>1, <1>2, <1>3, <1>4, Split DEF Init, Untimed, ShapeInv

\* A step that waits and then begins a request or returns.
LEMMA WaitKeeps ==
  ASSUME ProbeInv, phase # "returned", (\E d \in 0 .. Limit : Takes(d)) \/ TimesOut,
         Untimed', phase' \in {"connect", "returned"}
  PROVE  ProbeInv'
<1>1. now' \in 0 .. Budget
  BY WaitBounds DEF ProbeInv
<1>2. (now \in 0 .. Budget)'
  BY <1>1 DEF Budget
<1> QED BY <1>2, Split DEF ProbeInv, TypeOK, TrickleIsBounded, Untimed

LEMMA StepInv == ProbeInv /\ [Next]_vars => ProbeInv'
<1>. SUFFICES ASSUME ProbeInv, [Next]_vars PROVE ProbeInv'
  OBVIOUS
<1>. USE Split
<1>1. ASSUME Connect PROVE ProbeInv'
  <2>1. phase = "connect" /\ UNCHANGED <<https, http, peer, handshaken>>
    BY <1>1 DEF Connect
  <2>2. CASE Failed /\ WithoutResponse
    BY <2>1, <2>2, WithoutResponseKeeps, WaitKeeps DEF Failed
  <2>3. CASE /\ \E d \in 0 .. Limit : Takes(d)
             /\ phase' = IF request.tls THEN "handshake" ELSE "write"
             /\ UNCHANGED <<request, deadline, received, service>>
    <3>1. now' \in 0 .. Budget
      BY <2>1, <2>3, WaitBounds DEF ProbeInv
    <3>2. Untimed'
      BY <2>1, <2>3 DEF Untimed, ShapeInv, MaxTotal
    <3> QED BY <3>1, <3>2, <2>3 DEF ProbeInv, TypeOK, TrickleIsBounded, Untimed, Budget
  <2> QED BY <1>1, <2>2, <2>3 DEF Connect
<1>2. ASSUME Handshake PROVE ProbeInv'
  <2>1. phase = "handshake" /\ UNCHANGED <<https, http, peer>>
    BY <1>2 DEF Handshake
  <2>2. CASE Failed /\ WithoutResponse /\ UNCHANGED handshaken
    BY <2>1, <2>2, WithoutResponseKeeps, WaitKeeps DEF Failed
  <2>3. CASE /\ \E d \in 0 .. Limit : Takes(d)
             /\ handshaken' = TRUE
             /\ phase' = "write" /\ UNCHANGED <<request, deadline, received, service>>
    <3>1. now' \in 0 .. Budget
      BY <2>1, <2>3, WaitBounds DEF ProbeInv
    <3>2. Untimed'
      BY <2>1, <2>3 DEF Untimed, ShapeInv, MaxTotal
    <3> QED BY <3>1, <3>2, <2>3 DEF ProbeInv, TypeOK, TrickleIsBounded, Untimed, Budget
  <2>4. CASE /\ \E d \in 0 .. Limit : Takes(d)
             /\ handshaken' = TRUE
             /\ Return(IF request.path = "/" THEN Service("https", TRUE, FALSE) ELSE service)
    <3>. DEFINE found == IF request.path = "/" THEN Service("https", TRUE, FALSE) ELSE service
    <3>1. /\ found \in [protocol : {"unknown", "tls", "https", "http"},
                  tls : BOOLEAN, status : BOOLEAN, icon : BOOLEAN, cut : BOOLEAN]
          /\ found.tls
      <4>1. CASE request.path = "/"
        BY <4>1, Services
      <4>2. CASE request.path # "/"
        BY <4>2, <2>1 DEF Untimed, ShapeInv
      <4> QED BY <4>1, <4>2
    <3>2. /\ service' = found /\ phase' = "returned"
          /\ UNCHANGED <<request, deadline, received>>
      BY <2>4 DEF Return
    <3>. HIDE DEF found
    <3>3. Untimed'
      BY <2>1, <2>4, <3>1, <3>2 DEF Untimed, ShapeInv, MaxTotal
    <3> QED BY <2>1, <2>4, <3>2, <3>3, WaitKeeps
  <2> QED BY <1>2, <2>2, <2>3, <2>4 DEF Handshake
<1>3. ASSUME Write PROVE ProbeInv'
  <2>1. phase = "write" /\ UNCHANGED <<https, http, peer, handshaken>>
    BY <1>3 DEF Write
  <2>2. CASE Failed /\ WithoutResponse
    BY <2>1, <2>2, WithoutResponseKeeps, WaitKeeps DEF Failed
  <2>3. CASE /\ \E d \in 0 .. Limit : Takes(d)
             /\ deadline' = now + BodyTimeout /\ phase' = "read"
             /\ UNCHANGED <<request, received, service>>
    <3>1. now' \in 0 .. Budget /\ now' <= now + Limit /\ now \in Nat /\ Limit \in Nat
      BY <2>1, <2>3, WaitBounds, LimitIsNat, Bounds DEF ProbeInv, TypeOK
    <3>2. Limit <= BodyTimeout
      BY <2>1, WebProbeAssumption DEF Limit, LesserOf
    <3>3. deadline' \in Nat /\ now' <= deadline'
      BY <3>1, <3>2, <2>3, Bounds, WebProbeAssumption
    <3>4. Untimed'
      BY <2>1, <2>3, <3>3 DEF Untimed, ShapeInv, MaxTotal
    <3> QED BY <3>1, <3>3, <3>4 DEF ProbeInv, TypeOK, TrickleIsBounded, Untimed, Budget
  <2> QED BY <1>3, <2>2, <2>3 DEF Write
<1>4. ASSUME Read PROVE ProbeInv'
  <2>1. phase = "read" /\ UNCHANGED <<https, http, peer, handshaken>>
    BY <1>4 DEF Read
  <2>2. PICK d \in 0 .. Limit, n \in 0 .. Chunk :
          /\ Takes(d)
          /\ IF Ends(LesserOf(received + n, MaxTotal))
               THEN EndResponse(LesserOf(received + n, MaxTotal))
               ELSE /\ received' = LesserOf(received + n, MaxTotal)
                    /\ UNCHANGED <<request, phase, deadline, service>>
    BY <1>4 DEF Read
  <2>. DEFINE total == LesserOf(received + n, MaxTotal)
  <2>3. total \in 0 .. MaxTotal
    BY Bounds, WebProbeAssumption DEF ProbeInv, TypeOK, LesserOf
  <2>4. total \in Nat
    BY <2>3, Bounds DEF ProbeInv
  <2>5. CASE EndResponse(total)
    BY <2>1, <2>2, <2>4, <2>5, EndResponseKeeps, WaitKeeps
  <2>6. CASE received' = total /\ UNCHANGED <<request, phase, deadline, service>>
    <3>1. now' \in 0 .. Budget /\ now' <= now + Limit
      BY <2>1, <2>2, WaitBounds DEF ProbeInv
    <3>2. now \in Nat /\ Limit \in Nat /\ now + Limit <= deadline
      <4>1. now \in Nat /\ deadline \in Nat /\ now <= deadline
        BY <2>1, Bounds DEF ProbeInv, TypeOK, TrickleIsBounded
      <4> QED BY <4>1, <2>1, WebProbeAssumption DEF Limit, ReadLimit, LesserOf
    <3>3. now' <= deadline'
      BY <3>1, <3>2, <2>6, Bounds DEF ProbeInv, TypeOK
    <3>4. Untimed'
      BY <2>1, <2>3, <2>6 DEF Untimed, ShapeInv, MaxTotal
    <3> QED BY <3>1, <3>3, <3>4 DEF ProbeInv, TypeOK, TrickleIsBounded, Untimed, Budget
  <2> QED BY <2>2, <2>5, <2>6
<1>5. ASSUME ReadFails PROVE ProbeInv'
  <2>1. /\ phase = "read" /\ UNCHANGED <<https, http, peer, handshaken>>
        /\ \E d \in 0 .. Limit : Takes(d)
    BY <1>5 DEF ReadFails
  <2>2. EndResponse(received) \/ WithoutResponse
    BY <1>5 DEF ReadFails, AfterError
  <2>3. received \in Nat
    BY Bounds DEF ProbeInv, TypeOK
  <2> QED BY <2>1, <2>2, <2>3, EndResponseKeeps, WithoutResponseKeeps, WaitKeeps
<1>6. ASSUME ReadTimesOut PROVE ProbeInv'
  <2>1. received \in Nat
    BY Bounds DEF ProbeInv, TypeOK
  <2> QED BY <1>6, <2>1, EndResponseKeeps, WaitKeeps DEF ReadTimesOut
<1>7. ASSUME BudgetExceeded PROVE ProbeInv'
  <2>. DEFINE cutOff == [UnknownTcp EXCEPT !.cut = TRUE]
  <2>1. cutOff \in [protocol : {"unknown", "tls", "https", "http"},
                  tls : BOOLEAN, status : BOOLEAN, icon : BOOLEAN, cut : BOOLEAN]
        /\ cutOff.cut
    BY DEF UnknownTcp, Service
  <2>2. /\ service' = cutOff /\ phase' = "returned" /\ now' = Budget
        /\ UNCHANGED <<request, deadline, received, https, http, peer, handshaken>>
    BY <1>7 DEF BudgetExceeded, Return
  <2>3. now' \in 0 .. Budget
    BY <2>2, Bounds
  <2>. HIDE DEF cutOff
  <2>4. Untimed'
    BY <2>1, <2>2 DEF Untimed, ShapeInv, MaxTotal
  <2> QED BY <2>2, <2>3, <2>4 DEF ProbeInv, TypeOK, TrickleIsBounded, Untimed, Budget
<1>8. ASSUME UNCHANGED vars PROVE ProbeInv'
  BY <1>8 DEF vars, ProbeInv, TypeOK, TrickleIsBounded, ShapeInv, MaxTotal, Budget
<1> QED
  BY <1>1, <1>2, <1>3, <1>4, <1>5, <1>6, <1>7, <1>8 DEF Next, Step, Returned

THEOREM ProbeInvariant == Spec => []ProbeInv
BY InitInv, StepInv, PTL DEF Spec

-----------------------------------------------------------------------------
(* What the invariant is for. *)

\* The types of the probe, whatever the peer does.
THEOREM ProbeTypeOK == Spec => []TypeOK
BY ProbeInvariant, PTL DEF ProbeInv

\* A peer that sends a little at a time never holds a response beyond its deadline.
THEOREM ResponseKeepsDeadline == Spec => []TrickleIsBounded
BY ProbeInvariant, PTL DEF ProbeInv

\* Once TLS is confirmed, the record that is returned has it, and no request goes out in
\* the clear.
THEOREM TlsIsKept == Spec => []TlsEvidenceKept
<1>1. ProbeInv => TlsEvidenceKept
  BY DEF ProbeInv, ShapeInv, TlsEvidenceKept
<1> QED BY <1>1, ProbeInvariant, PTL

-----------------------------------------------------------------------------
(* What arrived. *)

\* What is received and the head that is waited for, as numbers.
LEMMA Lengths ==
  ASSUME ProbeInv
  PROVE  received \in Nat /\ MaxTotal \in Nat /\ received <= MaxTotal /\ peer.head \in Nat \ {0}
<1>1. MaxTotal \in Nat /\ received \in 0 .. MaxTotal
  BY Bounds DEF ProbeInv, TypeOK
<1>2. peer.head \in Heads
  BY DEF ProbeInv, TypeOK
<1>3. Heads \subseteq Nat \ {0}
  BY WebProbeAssumption
<1>4. received \in Nat /\ received <= MaxTotal
  BY <1>1
<1>5. peer.head \in Nat \ {0}
  BY <1>2, <1>3, Zenon
<1> QED BY <1>1, <1>4, <1>5

\* A response to the first request that ends with no less than had arrived has its status
\* when that did.
LEMMA EndKeepsStatus ==
  ASSUME ProbeInv, request.path = "/", Parses(received),
         NEW n \in Nat, n >= received, EndResponse(n)
  PROVE  service'.status
<1>1. received \in Nat /\ peer.head \in Nat
  BY Lengths
<1>2. Parses(n)
  BY <1>1 DEF Parses
<1>3. service' = Service(IF request.tls THEN "https" ELSE "http", request.tls, TRUE)
  BY <1>2 DEF EndResponse
<1> QED BY <1>3 DEF Service

LEMMA StatusStep ==
  ASSUME ProbeInv, [Next]_vars,
         phase = "read", request.path = "/", phase' # "read", Parses(received), ~service'.cut
  PROVE  service'.status
<1>1. received \in Nat /\ MaxTotal \in Nat /\ received <= MaxTotal /\ peer.head \in Nat \ {0}
  BY Lengths
<1>2. received > 0
  BY <1>1 DEF Parses
<1>3. CASE Read
  <2>1. PICK n \in 0 .. Chunk :
          IF Ends(LesserOf(received + n, MaxTotal))
            THEN EndResponse(LesserOf(received + n, MaxTotal))
            ELSE UNCHANGED phase
    BY <1>3 DEF Read
  <2>. DEFINE total == LesserOf(received + n, MaxTotal)
  <2>2. total \in Nat /\ total >= received
    BY <1>1, WebProbeAssumption DEF LesserOf
  <2>3. EndResponse(total)
    BY <2>1
  <2>. HIDE DEF total
  <2> QED BY <2>2, <2>3, EndKeepsStatus
<1>4. CASE ReadFails
  <2>1. EndResponse(received)
    BY <1>2, <1>4 DEF ReadFails, AfterError
  <2> QED BY <2>1, <1>1, EndKeepsStatus
<1>5. CASE ReadTimesOut
  <2>1. EndResponse(received)
    BY <1>5 DEF ReadTimesOut
  <2> QED BY <2>1, <1>1, EndKeepsStatus
<1>6. CASE BudgetExceeded
  <2>1. service'.cut
    BY <1>6 DEF BudgetExceeded, Return, UnknownTcp, Service
  <2> QED BY <2>1
<1>7. CASE Connect \/ Handshake \/ Write \/ UNCHANGED vars
  BY <1>7 DEF Connect, Handshake, Write, vars
<1> QED BY <1>3, <1>4, <1>5, <1>6, <1>7 DEF Next, Step, Returned

\* Whatever ends the response, an error, a timeout, the limit on data or the peer: a head
\* that had been received in full becomes a record with a status.
THEOREM ArrivalsAreKept == Spec => ArrivedIsKept
<1>1. ProbeInv /\ [Next]_vars =>
        [phase = "read" /\ request.path = "/" /\ phase' # "read" /\ Parses(received)
           /\ ~service'.cut => service'.status]_vars
  BY StatusStep
<1> QED BY <1>1, ProbeInvariant, PTL DEF Spec, ArrivedIsKept

-----------------------------------------------------------------------------
(* The budget. *)

\* The times of TimeInv are numbers, and leave room for a response in the budget, but for
\* the icon's over a TLS that is not short.
LEMMA Times ==
  ASSUME NEW r \in [path : {"/", "/favicon.ico"}, tls : BOOLEAN]
  PROVE  /\ Latest(r) \in Nat /\ Opening(r) \in Nat /\ Budget \in Nat
         /\ \/ Latest(r) + Opening(r) + BodyTimeout <= Budget
            \/ r.tls /\ r.path = "/favicon.ico" /\ ~TlsIsShort
<1>1. CASE r.tls /\ r.path = "/"
  BY <1>1, WebProbeAssumption DEF Latest, Opening, Budget, TlsIsShort
<1>2. CASE r.tls /\ r.path # "/"
  BY <1>2, WebProbeAssumption DEF Latest, Opening, Budget, TlsIsShort
<1>3. CASE ~r.tls /\ r.path = "/"
  BY <1>3, WebProbeAssumption DEF Latest, Opening, Budget, TlsIsShort
<1>4. CASE ~r.tls /\ r.path # "/"
  BY <1>4, WebProbeAssumption DEF Latest, Opening, Budget, TlsIsShort
<1> QED BY <1>1, <1>2, <1>3, <1>4

\* When each wait of the probe is over, in time for what comes after it.
LEMMA WaitIsInTime ==
  ASSUME ProbeInv, TimeInv, phase # "returned"
  PROVE  /\ now \in Nat /\ Limit \in Nat
         /\ now + Limit <= Latest(request) + Opening(request) + BodyTimeout
         /\ phase = "connect" =>
              now + Limit <= Latest(request) + (IF request.tls THEN TlsTimeout ELSE HttpTimeout)
         /\ phase = "handshake" => now + Limit <= Latest(request) + Opening(request)
<1>1. /\ now \in Nat /\ Limit \in Nat /\ deadline \in Nat
      /\ request \in [path : {"/", "/favicon.ico"}, tls : BOOLEAN]
  BY LimitIsNat, Bounds DEF ProbeInv, TypeOK
<1>2. Latest(request) \in Nat /\ Opening(request) \in Nat
  BY <1>1, Times
<1>3. CASE phase = "connect"
  <2>1. Limit = IF request.tls THEN TlsTimeout ELSE HttpTimeout
    BY <1>3 DEF Limit
  <2>2. now <= Latest(request)
    BY <1>3 DEF TimeInv, GuardOnlyCutsIcons
  <2> QED BY <2>1, <2>2, <1>1, <1>2, <1>3, WebProbeAssumption DEF Opening
<1>4. CASE phase = "handshake"
  <2>1. Limit = TlsTimeout /\ request.tls /\ now <= Latest(request) + TlsTimeout
    BY <1>4 DEF Limit, TimeInv, ProbeInv, ShapeInv
  <2> QED BY <2>1, <1>1, <1>2, <1>4, WebProbeAssumption DEF Opening
<1>5. CASE phase = "write"
  <2>1. Limit <= BodyTimeout /\ now <= Latest(request) + Opening(request)
    BY <1>5, WebProbeAssumption DEF Limit, LesserOf, TimeInv
  <2> QED BY <2>1, <1>1, <1>2, <1>5, WebProbeAssumption
<1>6. CASE phase = "read"
  <2>1. now <= deadline /\ deadline <= Latest(request) + Opening(request) + BodyTimeout
    BY <1>6 DEF ProbeInv, TrickleIsBounded, TimeInv
  <2>2. now + Limit <= deadline
    BY <1>1, <1>6, <2>1, WebProbeAssumption DEF Limit, ReadLimit, LesserOf
  <2> QED BY <2>1, <2>2, <1>1, <1>2, <1>6, WebProbeAssumption
<1> QED BY <1>3, <1>4, <1>5, <1>6 DEF ProbeInv, TypeOK


\* A probe that returns, or begins a request no later than it may, is in time.
LEMMA InTimeAgain ==
  ASSUME phase' = "returned" \/ (phase' = "connect" /\ now' <= Latest(request)'),
         ~service'.cut
  PROVE  TimeInv'
BY DEF TimeInv, GuardOnlyCutsIcons

\* A request that fails before TLS is confirmed leaves the time of a second one.
LEMMA FallBackInTime ==
  ASSUME ProbeInv, TimeInv, phase # "returned", WithoutResponse,
         (\E d \in 0 .. Limit : Takes(d)) \/ TimesOut
  PROVE  TimeInv'
<1>1. now \in Nat /\ Limit \in Nat /\ now' <= now + Limit /\ now' \in Nat
  BY WaitIsInTime, WaitBounds, Bounds DEF ProbeInv
<1>2. ~service.cut /\ ~UnknownTcp.cut /\ ~Service("tls", TRUE, FALSE).cut
  BY Services DEF UnknownTcp, ProbeInv, ShapeInv
<1>3. CASE request.path # "/favicon.ico" /\ ~handshaken /\ request.tls /\ http
  <2>1. request' = Index(FALSE) /\ phase' = "connect" /\ UNCHANGED service
    BY <1>3 DEF WithoutResponse, PlainHttp, Start
  <2>2. Latest(request)' = 2 * TlsTimeout
    BY <2>1, WebProbeAssumption DEF Latest, Index
  <2>3. Latest(request) = 0 /\ Opening(request) = 2 * TlsTimeout
    BY <1>3, WebProbeAssumption DEF Latest, Opening, ProbeInv, TypeOK
  <2>4. phase \in {"connect", "handshake"}
    BY <1>3 DEF ProbeInv, TypeOK, ShapeInv
  <2>5. now + Limit <= 2 * TlsTimeout
    BY <2>3, <2>4, <1>1, <1>3, WaitIsInTime, WebProbeAssumption
  <2>6. now' <= 2 * TlsTimeout
    BY <2>5, <1>1, WebProbeAssumption
  <2>7. ~service'.cut
    BY <2>1, <1>2
  <2> QED BY <2>1, <2>2, <2>6, <2>7, InTimeAgain
<1>4. CASE ~(request.path # "/favicon.ico" /\ ~handshaken /\ request.tls /\ http)
  <2>1. phase' = "returned" /\ service' \in {service, UnknownTcp, Service("tls", TRUE, FALSE)}
    BY <1>4 DEF WithoutResponse, PlainHttp, Return, ProbeInv, TypeOK
  <2>2. ~service'.cut
    BY <2>1, <1>2
  <2> QED BY <2>1, <2>2, InTimeAgain
<1> QED BY <1>3, <1>4

\* A response leaves the time of the icon's request.
LEMMA IconInTime ==
  ASSUME ProbeInv, TimeInv, phase = "read", NEW n \in Nat, EndResponse(n),
         (\E d \in 0 .. Limit : Takes(d)) \/ TimesOut
  PROVE  TimeInv'
<1>1. CASE request.path = "/favicon.ico"
  <2>1. phase' = "returned" /\ service' = [service EXCEPT !.icon = IsIcon(n)]
    BY <1>1 DEF EndResponse, Return
  <2>2. ~service'.cut
    BY <2>1 DEF ProbeInv, TypeOK, ShapeInv
  <2> QED BY <2>1, <2>2, InTimeAgain
<1>2. CASE request.path # "/favicon.ico" /\ Parses(n)
  <2>. DEFINE found == Service(IF request.tls THEN "https" ELSE "http", request.tls, TRUE)
  <2>1. request' = Favicon(request.tls) /\ phase' = "connect" /\ service' = found
    BY <1>2 DEF EndResponse, Start
  <2>2. ~found.cut
    BY Services DEF ProbeInv, TypeOK
  <2>. HIDE DEF found
  <2>3. Opening(Favicon(request.tls)) = Opening(request)
    BY DEF Opening, Favicon
  <2>4. Latest(request) = IF request.tls THEN 0 ELSE 2 * TlsTimeout
    BY <1>2, WebProbeAssumption DEF Latest
  <2>5. Latest(Favicon(request.tls)) =
          (IF request.tls THEN 0 ELSE 2 * TlsTimeout) + (Opening(request) + BodyTimeout)
    BY <2>3 DEF Latest, Favicon
  <2>6. Latest(request)' = Latest(Favicon(request.tls))
    BY <2>1 DEF Latest, Opening
  <2>7. now' <= now + Limit /\ now' \in Nat /\ now \in Nat /\ Limit \in Nat
        /\ now + Limit <= Latest(request) + Opening(request) + BodyTimeout
    BY WaitIsInTime, WaitBounds, Bounds DEF ProbeInv
  <2>8. Opening(request) \in Nat
    BY Times DEF ProbeInv, TypeOK
  <2>9. now' <= Latest(request)'
    BY <2>4, <2>5, <2>6, <2>7, <2>8, WebProbeAssumption
  <2> QED BY <2>1, <2>2, <2>9, InTimeAgain
<1>3. CASE request.path # "/favicon.ico" /\ ~Parses(n)
  <2>1. WithoutResponse
    BY <1>3 DEF EndResponse
  <2> QED BY <2>1, FallBackInTime
<1> QED BY <1>1, <1>2, <1>3

LEMMA TimeInit == Init => TimeInv
<1>. SUFFICES ASSUME Init PROVE TimeInv
  OBVIOUS
<1>1. Latest(request) = IF https THEN 0 ELSE 2 * TlsTimeout
  BY WebProbeAssumption DEF Init, Index, Latest
<1>2. ~service.cut
  BY Services DEF Init, UnknownTcp
<1>3. GuardOnlyCutsIcons
  BY <1>2 DEF GuardOnlyCutsIcons
<1>4. now <= Latest(request) /\ phase = "connect"
  BY <1>1, WebProbeAssumption DEF Init
<1> QED BY <1>3, <1>4 DEF TimeInv

LEMMA TimeStep == ProbeInv /\ TimeInv /\ [Next]_vars => TimeInv'
<1>. SUFFICES ASSUME ProbeInv, TimeInv, [Next]_vars PROVE TimeInv'
  OBVIOUS
<1>. DEFINE Waits == \E d \in 0 .. Limit : Takes(d)
<1>1. /\ now \in Nat /\ deadline \in Nat /\ received \in Nat
      /\ request \in [path : {"/", "/favicon.ico"}, tls : BOOLEAN]
  BY Bounds DEF ProbeInv, TypeOK
<1>2. Latest(request) \in Nat /\ Opening(request) \in Nat
  BY <1>1, Times
<1>3. ASSUME phase # "returned", Waits, UNCHANGED <<request, service>>
      PROVE  /\ now' <= now + Limit /\ now' \in Nat /\ Limit \in Nat
             /\ ~service'.cut
             /\ Latest(request)' = Latest(request) /\ Opening(request)' = Opening(request)
  BY <1>3, WaitBounds, WaitIsInTime, Bounds DEF ProbeInv, ShapeInv, Latest, Opening
<1>4. ASSUME Connect PROVE TimeInv'
  <2>1. CASE Failed /\ WithoutResponse
    BY <1>4, <2>1, FallBackInTime DEF Connect, Failed
  <2>2. CASE /\ Waits /\ phase' = IF request.tls THEN "handshake" ELSE "write"
             /\ UNCHANGED <<request, deadline, received, service>>
    <3>1. phase = "connect"
      BY <1>4 DEF Connect
    <3>2. now' <= Latest(request) + (IF request.tls THEN TlsTimeout ELSE HttpTimeout)
      BY <3>1, <2>2, <1>1, <1>2, <1>3, WaitIsInTime, WebProbeAssumption
    <3> QED BY <3>1, <3>2, <2>2, <1>3 DEF TimeInv, GuardOnlyCutsIcons, Opening
  <2> QED BY <1>4, <2>1, <2>2 DEF Connect
<1>5. ASSUME Handshake PROVE TimeInv'
  <2>1. phase = "handshake"
    BY <1>5 DEF Handshake
  <2>2. CASE Failed /\ WithoutResponse
    BY <2>1, <2>2, FallBackInTime DEF Failed
  <2>3. CASE Waits /\ phase' = "write" /\ UNCHANGED <<request, deadline, received, service>>
    <3>1. now' <= Latest(request) + Opening(request)
      BY <2>1, <2>3, <1>1, <1>2, <1>3, WaitIsInTime
    <3> QED BY <3>1, <2>1, <2>3, <1>3 DEF TimeInv, GuardOnlyCutsIcons
  <2>4. CASE Return(IF request.path = "/" THEN Service("https", TRUE, FALSE) ELSE service)
    <3>1. ~service'.cut /\ phase' = "returned"
      BY <2>1, <2>4, Services DEF Return, ProbeInv, ShapeInv
    <3> QED BY <3>1, InTimeAgain
  <2> QED BY <1>5, <2>2, <2>3, <2>4 DEF Handshake
<1>6. ASSUME Write PROVE TimeInv'
  <2>1. phase = "write"
    BY <1>6 DEF Write
  <2>2. CASE Failed /\ WithoutResponse
    BY <2>1, <2>2, FallBackInTime DEF Failed
  <2>3. CASE /\ Waits /\ deadline' = now + BodyTimeout /\ phase' = "read"
             /\ UNCHANGED <<request, received, service>>
    <3>1. now <= Latest(request) + Opening(request)
      BY <2>1 DEF TimeInv
    <3>2. deadline' <= Latest(request)' + Opening(request)' + BodyTimeout
      BY <3>1, <2>1, <2>3, <1>1, <1>2, <1>3, WebProbeAssumption
    <3> QED BY <3>2, <2>1, <2>3, <1>3 DEF TimeInv, GuardOnlyCutsIcons
  <2> QED BY <1>6, <2>2, <2>3 DEF Write
<1>7. ASSUME Read PROVE TimeInv'
  <2>1. phase = "read"
    BY <1>7 DEF Read
  <2>2. PICK d \in 0 .. Limit, n \in 0 .. Chunk :
          /\ Takes(d)
          /\ IF Ends(LesserOf(received + n, MaxTotal))
               THEN EndResponse(LesserOf(received + n, MaxTotal))
               ELSE /\ received' = LesserOf(received + n, MaxTotal)
                    /\ UNCHANGED <<request, phase, deadline, service>>
    BY <1>7 DEF Read
  <2>3. LesserOf(received + n, MaxTotal) \in Nat
    BY <1>1, Bounds, WebProbeAssumption DEF LesserOf, ProbeInv
  <2>4. CASE EndResponse(LesserOf(received + n, MaxTotal))
    BY <2>1, <2>2, <2>3, <2>4, IconInTime
  <2>5. CASE UNCHANGED <<request, phase, deadline, service>>
    BY <2>1, <2>2, <2>5, <1>3 DEF TimeInv, GuardOnlyCutsIcons
  <2> QED BY <2>2, <2>4, <2>5
<1>8. ASSUME ReadFails PROVE TimeInv'
  <2>1. phase = "read" /\ Waits /\ (EndResponse(received) \/ WithoutResponse)
    BY <1>8 DEF ReadFails, AfterError
  <2> QED BY <2>1, <1>1, IconInTime, FallBackInTime
<1>9. ASSUME ReadTimesOut PROVE TimeInv'
  BY <1>1, <1>9, IconInTime DEF ReadTimesOut
<1>10. ASSUME BudgetExceeded PROVE TimeInv'
  <2>1. /\ phase # "returned" /\ now + Limit > Budget
        /\ phase' = "returned" /\ request' = request
    BY <1>10 DEF BudgetExceeded, Return
  <2>2. now + Limit <= Latest(request) + Opening(request) + BodyTimeout /\ Limit \in Nat
    BY <2>1, WaitIsInTime
  <2>3. ~(Latest(request) + Opening(request) + BodyTimeout <= Budget)
    BY <2>1, <2>2, <1>1, <1>2, Bounds, WebProbeAssumption
  <2>4. request.tls /\ request.path = "/favicon.ico" /\ ~TlsIsShort
    BY <2>3, <1>1, Times
  <2>5. request = Favicon(TRUE)
    BY <2>4, <1>1 DEF Favicon
  <2> QED BY <2>1, <2>4, <2>5 DEF TimeInv, GuardOnlyCutsIcons
<1>11. ASSUME UNCHANGED vars PROVE TimeInv'
  BY <1>11 DEF vars, TimeInv, Latest, Opening, GuardOnlyCutsIcons
<1> QED
  BY <1>4, <1>5, <1>6, <1>7, <1>8, <1>9, <1>10, <1>11 DEF Next, Step, Returned

\* For all timeouts, the guard ends nothing but the request for an icon over TLS, and that
\* only if --tls-timeout is more than three times --http-timeout, --http-body-timeout and
\* the slack together.
THEOREM GuardIsForIcons == Spec => []GuardOnlyCutsIcons
<1>1. TimeInv => GuardOnlyCutsIcons
  BY DEF TimeInv
<1> QED BY <1>1, TimeInit, TimeStep, ProbeInvariant, PTL DEF Spec

\* With any shorter --tls-timeout, probe_budget is the worst case it says it is: its guard
\* never takes a record away.
THEOREM BudgetIsWorstCase == ASSUME TlsIsShort PROVE Spec => []BudgetKept
<1>1. GuardOnlyCutsIcons => BudgetKept
  BY DEF GuardOnlyCutsIcons, BudgetKept
<1> QED BY <1>1, GuardIsForIcons, PTL

=============================================================================
