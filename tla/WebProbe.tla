------------------------------ MODULE WebProbe ------------------------------
(***************************************************************************)
(* WebProbe::probe of protocol/mod.rs against one open port: TLS first,    *)
(* plain HTTP only where there is no TLS, a favicon request after either,  *)
(* all of it under the guard of the pipeline's protocol worker.            *)
(*                                                                         *)
(* Time is counted in units of the timeouts and every wait says how long   *)
(* it took; the timers are taken to be exact.  Data is counted in units    *)
(* too: what matters is whether the head of a response, and something      *)
(* after it, arrived.  What a page or a certificate says is left out.      *)
(*                                                                         *)
(* Nothing uses an operator marked as a faulty variant: it is the one      *)
(* below it with a plausible mistake, for the mutation checks.             *)
(***************************************************************************)
EXTENDS Naturals

CONSTANTS
  TlsTimeout, HttpTimeout, BodyTimeout,
  Slack,              \* the two seconds that probe_budget adds
  MaxBody,            \* ctx.max_body
  HeadRoom,           \* the 64 KiB read beyond max_body
  IconLimit,          \* the 64 KiB that max_body is cut to for an icon
  Chunk,              \* the 8 KiB buffer of one read
  Heads               \* lengths that the head of a peer's responses may have

ASSUME WebProbeAssumption ==
  /\ TlsTimeout \in Nat \ {0} /\ HttpTimeout \in Nat \ {0} /\ BodyTimeout \in Nat \ {0}
  /\ Slack \in Nat /\ MaxBody \in Nat \ {0} /\ HeadRoom \in Nat \ {0}
  /\ IconLimit \in Nat \ {0} /\ Chunk \in Nat \ {0} /\ Heads \subseteq Nat \ {0}

VARIABLES
  https, http,        \* ctx.https_enabled, ctx.http_enabled
  peer,               \* whether it speaks HTTP, the length of its heads, whether it has an icon
  request,            \* the request under way: its path and whether it goes over TLS
  phase,              \* of that request, or "returned"
  now,                \* time since the worker called probe
  deadline,           \* of the response being read
  received,           \* data.len()
  service,            \* the ServiceResult so far
  handshaken          \* auxiliary: the handshake of the first connection succeeded

vars == <<https, http, peer, request, phase, now, deadline, received, service, handshaken>>

-----------------------------------------------------------------------------
LesserOf(a, b) == IF a < b THEN a ELSE b

\* ProbeContext::probe_budget, the timeout around probe.
BudgetOfOne == TlsTimeout + HttpTimeout + BodyTimeout + Slack   \* faulty variant
Budget == 3 * (TlsTimeout + HttpTimeout + BodyTimeout) + Slack

Index(tls) == [path |-> "/", tls |-> tls]
Favicon(tls) == [path |-> "/favicon.ico", tls |-> tls]

MaxTotal == (IF request.path = "/" THEN MaxBody ELSE LesserOf(MaxBody, IconLimit)) + HeadRoom

Service(protocol, tls, status) ==
  [protocol |-> protocol, tls |-> tls, status |-> status, icon |-> FALSE, cut |-> FALSE]
UnknownTcp == Service("unknown", FALSE, FALSE)

\* The settings refuse a scan with both protocols disabled.
Init ==
  /\ https \in BOOLEAN /\ http \in BOOLEAN /\ (https \/ http)
  /\ peer \in [http : BOOLEAN, head : Heads, icon : BOOLEAN]
  /\ request = Index(https)
  /\ phase = "connect"
  /\ now = 0 /\ deadline = 0 /\ received = 0
  /\ service = UnknownTcp
  /\ handshaken = FALSE

\* The longest that the wait of the current phase may take.
ReadLimitWithoutDeadline == HttpTimeout                         \* faulty variant
ReadLimit == LesserOf(HttpTimeout, deadline - now)
Limit ==
  CASE phase = "connect"   -> IF request.tls THEN TlsTimeout ELSE HttpTimeout
    [] phase = "handshake" -> TlsTimeout
    [] phase = "write"     -> LesserOf(HttpTimeout, BodyTimeout)
    [] phase = "read"      -> ReadLimit

\* A wait that ends by itself does so within its limit and the budget.
Takes(d) == d <= Limit /\ now + d <= Budget /\ now' = now + d

\* A wait that is timed out has taken all of its limit.
TimesOut == now + Limit <= Budget /\ now' = now + Limit

Failed == (\E d \in 0 .. Limit : Takes(d)) \/ TimesOut

-----------------------------------------------------------------------------
Return(s) == service' = s /\ phase' = "returned" /\ UNCHANGED <<request, deadline, received>>

\* Every request has a connection and a buffer of its own.
StartInSameBuffer(r) ==                                         \* faulty variant
  request' = r /\ phase' = "connect" /\ UNCHANGED <<deadline, received>>
Start(r) ==
  request' = r /\ phase' = "connect" /\ received' = 0 /\ UNCHANGED deadline

TlsAgain ==                                                     \* faulty variant
  IF http THEN Start(Index(TRUE)) /\ UNCHANGED service ELSE Return(UnknownTcp)
PlainHttp ==
  IF http THEN Start(Index(FALSE)) /\ UNCHANGED service ELSE Return(UnknownTcp)

\* A request did not come to a response.  Over TLS the certificate is kept all the same,
\* and a missing icon changes nothing.
FallBackAnyway ==                                               \* faulty variant
  IF request.path = "/favicon.ico" THEN Return(service)
  ELSE IF request.tls THEN PlainHttp ELSE Return(UnknownTcp)
WithoutResponse ==
  IF request.path = "/favicon.ico" THEN Return(service)
  ELSE IF handshaken THEN Return(Service("tls", TRUE, FALSE))
  ELSE IF request.tls THEN PlainHttp ELSE Return(UnknownTcp)

Connect ==
  /\ phase = "connect"
  /\ \/ /\ \E d \in 0 .. Limit : Takes(d)
        /\ phase' = IF request.tls THEN "handshake" ELSE "write"
        /\ UNCHANGED <<request, deadline, received, service>>
     \/ Failed /\ WithoutResponse
  /\ UNCHANGED <<https, http, peer, handshaken>>

\* An endpoint that takes h2 only is returned as it is, and gives no icon.
Handshake ==
  /\ phase = "handshake"
  /\ \/ /\ \E d \in 0 .. Limit : Takes(d)
        /\ handshaken' = TRUE
        /\ \/ phase' = "write" /\ UNCHANGED <<request, deadline, received, service>>
           \/ Return(IF request.path = "/" THEN Service("https", TRUE, FALSE) ELSE service)
     \/ /\ Failed /\ WithoutResponse
        /\ UNCHANGED handshaken
  /\ UNCHANGED <<https, http, peer>>

\* The deadline runs from before the write.
Write ==
  /\ phase = "write"
  /\ \/ /\ \E d \in 0 .. Limit : Takes(d)
        /\ deadline' = now + BodyTimeout
        /\ phase' = "read"
        /\ UNCHANGED <<request, received, service>>
     \/ Failed /\ WithoutResponse
  /\ UNCHANGED <<https, http, peer, handshaken>>

\* parse_http: a status needs the whole head.
Parses(n) == peer.http /\ n >= peer.head

IsIcon(n) == Parses(n) /\ n > peer.head /\ peer.icon

\* The response is what has arrived.
EndResponse(n) ==
  IF request.path = "/favicon.ico"
    THEN Return([service EXCEPT !.icon = IsIcon(n)])
    ELSE IF Parses(n)
      THEN /\ Start(Favicon(request.tls))
           /\ service' = Service(IF request.tls THEN "https" ELSE "http", request.tls, TRUE)
      ELSE WithoutResponse

\* Some data: the end is reached at the limit on it.  A read of nothing is the end, too.
Ends(total) == total = MaxTotal \/ total = received

Read ==
  /\ phase = "read"
  /\ \E d \in 0 .. Limit, n \in 0 .. Chunk :
       LET total == LesserOf(received + n, MaxTotal)
       IN  /\ Takes(d)
           /\ IF Ends(total) THEN EndResponse(total)
              ELSE received' = total /\ UNCHANGED <<request, phase, deadline, service>>
  /\ UNCHANGED <<https, http, peer, handshaken>>

\* An error after some data ends the response, one before it fails the request.
AfterErrorNothing == WithoutResponse                            \* faulty variant
AfterError == IF received > 0 THEN EndResponse(received) ELSE WithoutResponse
ReadFails ==
  /\ phase = "read"
  /\ \E d \in 0 .. Limit : Takes(d)
  /\ AfterError
  /\ UNCHANGED <<https, http, peer, handshaken>>

\* An idle read or the deadline: whatever arrived is kept.
ReadTimesOut ==
  /\ phase = "read"
  /\ TimesOut
  /\ EndResponse(received)
  /\ UNCHANGED <<https, http, peer, handshaken>>

\* The worker's guard ends a probe that would go on beyond the budget, with all it has.
BudgetExceeded ==
  /\ phase # "returned"
  /\ now + Limit > Budget
  /\ now' = Budget
  /\ Return([UnknownTcp EXCEPT !.cut = TRUE])
  /\ UNCHANGED <<https, http, peer, handshaken>>

\* Not a step of the code: the probe has returned.
Returned == phase = "returned" /\ UNCHANGED vars

Step == Connect \/ Handshake \/ Write \/ Read \/ ReadFails \/ ReadTimesOut \/ BudgetExceeded
Next == Step \/ Returned

Spec == Init /\ [][Next]_vars

\* Every wait ends.
FairSpec == Spec /\ WF_vars(Step)

-----------------------------------------------------------------------------
TypeOK ==
  /\ https \in BOOLEAN /\ http \in BOOLEAN /\ handshaken \in BOOLEAN
  /\ peer \in [http : BOOLEAN, head : Heads, icon : BOOLEAN]
  /\ request \in [path : {"/", "/favicon.ico"}, tls : BOOLEAN]
  /\ phase \in {"connect", "handshake", "write", "read", "returned"}
  /\ now \in 0 .. Budget /\ deadline \in Nat /\ received \in 0 .. MaxTotal
  /\ service \in [protocol : {"unknown", "tls", "https", "http"},
                  tls : BOOLEAN, status : BOOLEAN, icon : BOOLEAN, cut : BOOLEAN]

\* A peer that sends a little at a time cannot hold a response beyond --http-body-timeout.
TrickleIsBounded == phase = "read" => now <= deadline

\* "Certificates are the highest-value pivot": once TLS is confirmed the record says so,
\* and no request goes to that port in the clear.
TlsEvidenceKept ==
  handshaken /\ ~service.cut =>
    /\ phase = "returned" => service.tls
    /\ phase # "returned" => request.tls

\* Whatever arrived is kept: a head that was received in full becomes a record with a
\* status, although the data ends by an error, a timeout or the limit.
ArrivedIsKept ==
  [][phase = "read" /\ request.path = "/" /\ phase' # "read" /\ Parses(received) /\ ~service'.cut
       => service'.status]_vars

\* The worker gets its one service for each job.
ProbeReturns == <>(phase = "returned")

\* probe_budget is "worst-case wall time one port may consume": its guard is there for
\* what the timeouts do not bound, and never takes a record away by itself.
BudgetKept == ~service.cut

\* Where that is so: an HTTPS page with its icon is two TLS connections of two waits each,
\* and the sum that probe_budget multiplies by three has one.
TlsIsShort == TlsTimeout <= 3 * HttpTimeout + BodyTimeout + Slack

\* No other course of a probe comes near the budget: whatever the timeouts are, the guard
\* ends nothing but the request for an icon over TLS, and only if TLS is not short.
GuardOnlyCutsIcons == service.cut => request = Favicon(TRUE) /\ ~TlsIsShort

=============================================================================
