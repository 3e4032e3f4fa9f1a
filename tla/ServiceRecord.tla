--------------------------- MODULE ServiceRecord ----------------------------
(***************************************************************************)
(* How the response of one peer becomes the record of one service: the     *)
(* bytes arrive one by one, may end anywhere, are parsed (HttpResponse)    *)
(* and handed to the fingerprint engine (Fingerprint).  WebProbe has the   *)
(* connections and timers around it, ScanPipeline the queue between the    *)
(* probe and the engine; here it is what the record says that matters.     *)
(*                                                                         *)
(* A peer is what it sends: whether it speaks TLS, with HTTP/2 or without, *)
(* its line ending, header fields and page, and how the page is coded.     *)
(***************************************************************************)
EXTENDS HttpResponse, Fingerprint

CONSTANTS
  Peers,              \* the peers to probe
  HeadRoom            \* the 64 KiB read beyond max_body

\* There is no certificate without TLS.
ASSUME PeersAssumption == \A p \in Peers : p.tls = "none" => p.certificate = {}

VARIABLES
  peer,
  data,               \* what request_http has read
  phase,              \* "reading", "probed" (in the fingerprint queue) or "done"
  service             \* the ServiceResult, in the parts that this module is about

vars == <<peer, data, phase, service>>

-----------------------------------------------------------------------------
\* What the peer sends, each token with whether it is a piece of the page.
Eol(p) == IF p.crlf THEN <<"CR", "LF">> ELSE <<"LF">>
Frame(tokens) == [k \in DOMAIN tokens |-> [token |-> tokens[k], page |-> FALSE]]
Piece(tokens) == [k \in DOMAIN tokens |-> [token |-> tokens[k], page |-> TRUE]]

SizeLine(p, size) ==
  Frame(<<CHOOSE d \in DOMAIN Digits : Digits[d] = size>>
          \o (IF p.extension THEN <<";", "ext">> ELSE <<>>) \o Eol(p))

\* The page in chunks of at most p.chunk tokens.
Chunked(p) ==
  LET from[k \in 1 .. Len(p.page) + p.chunk] ==
        IF k > Len(p.page)
          THEN SizeLine(p, 0) \o Frame(Eol(p))
          ELSE LET piece == Prefix(SubSeq(p.page, k, Len(p.page)), p.chunk)
               IN  SizeLine(p, Len(piece)) \o Piece(piece) \o Frame(Eol(p)) \o from[k + p.chunk]
  IN  from[1]

\* A peer with p.chunk = 0 does not chunk, whatever its header fields say.
Wire(p) ==
  LET fields == SetToSeq(p.fields \cup ({p.server} \ {"none"}))
      head == <<"HTTP">> \o Eol(p) \o FlattenSeq([k \in DOMAIN fields |-> <<fields[k]>> \o Eol(p)])
  IN  Frame((IF p.http THEN head ELSE <<"bin">>) \o Eol(p))
        \o (IF p.chunk = 0 THEN Piece(p.page) ELSE Chunked(p))

\* What analysis should see of a peer whose first tokens have arrived.
Unpacked(p, pieces) ==
  IF p.packed THEN FlattenSeq([k \in DOMAIN pieces |-> Inflates[pieces[k]]]) ELSE pieces

-----------------------------------------------------------------------------
\* ServiceResult::unknown_tcp, and what the ways a probe can end make of it.
UnknownTcp == [protocol |-> "unknown", status |-> FALSE, server |-> "none", headers |-> {},
               page |-> <<>>, certificate |-> {}, class |-> "none", fingerprints |-> {},
               product |-> "none", icon |-> FALSE, highPort |-> FALSE, score |-> 0,
               reasons |-> {}]
Confirmed(tlsService) ==
  [tlsService EXCEPT !.certificate = peer.certificate, !.highPort = peer.highPort]

Init ==
  /\ peer \in Peers
  /\ data = <<>>
  /\ phase = "reading"
  /\ service = UnknownTcp

\* An HTTP/2-only endpoint is a web surface without a response.
RecordH2 ==
  /\ phase = "reading" /\ peer.tls = "h2"
  /\ service' = Confirmed([UnknownTcp EXCEPT !.protocol = "https", !.class = "unknown_web"])
  /\ phase' = "probed"
  /\ UNCHANGED <<peer, data>>

\* request_http reads on while there is something to read and room for it.
Arrive ==
  /\ phase = "reading" /\ peer.tls # "h2"
  /\ Len(data) < Len(Wire(peer)) /\ Len(data) < MaxBody + HeadRoom
  /\ data' = Append(data, Wire(peer)[Len(data) + 1].token)
  /\ UNCHANGED <<peer, phase, service>>

\* to_service: what the head says, and the page for the engine.
ToService ==
  LET fields == Fields(data)
  IN  [Confirmed(UnknownTcp) EXCEPT
         !.protocol = IF peer.tls = "none" THEN "http" ELSE "https",
         !.status = TRUE,
         !.server = IF fields \cap Banners = {} THEN "none"
                    ELSE CHOOSE banner \in fields \cap Banners : TRUE,
         !.headers = fields \ Banners,
         !.page = Seen(data),
         !.icon = peer.icon]

\* The end of the data, an error, a timeout or a limit: the probe makes do with what it
\* has, keeps a certificate without HTTP, and else knows nothing of the port.
EndOfResponse ==
  /\ phase = "reading" /\ peer.tls # "h2"
  /\ service' = IF Parses(data) THEN ToService
                ELSE IF peer.tls # "none"
                       THEN Confirmed([UnknownTcp EXCEPT !.protocol = "tls",
                                                         !.class = "unknown_tls"])
                       ELSE [UnknownTcp EXCEPT !.highPort = peer.highPort]
  /\ phase' = "probed"
  /\ UNCHANGED <<peer, data>>

\* enrich: fingerprints and class of a web service, then the score of a web or TLS one.
Classified(s) ==
  IF s.protocol \in {"http", "https"}
    THEN [s EXCEPT !.fingerprints = Names(s),
                   !.product = KnownProduct(s),
                   !.class = IF Names(s) = {} /\ Class(s) = "generic_web"
                               THEN "unknown_web" ELSE Class(s)]
    ELSE s
Scored(s) ==
  IF s.protocol = "unknown" THEN s
  ELSE [s EXCEPT !.reasons = Reasons(s), !.score = Score(Reasons(s))]
Enrich ==
  /\ phase = "probed"
  /\ service' = Scored(Classified(service))
  /\ phase' = "done"
  /\ UNCHANGED <<peer, data>>

\* Not a step of the code: the record is on its way to the aggregator.
Recorded == phase = "done" /\ UNCHANGED vars

Next == RecordH2 \/ Arrive \/ EndOfResponse \/ Enrich \/ Recorded

Spec == Init /\ [][Next]_vars

-----------------------------------------------------------------------------
\* The pieces of the page among the tokens of the body that are kept.
KeptPieces ==
  LET last == BodyStart(data) + MaxBody - 1
      kept == SelectSeq(Prefix(Wire(peer), IF Len(data) < last THEN Len(data) ELSE last),
                        LAMBDA sent : sent.page)
  IN  [k \in DOMAIN kept |-> kept[k].token]

\* Content analysis sees the page that the peer sent, as far as it arrived: whatever the
\* line endings, chunks, chunk extensions and compression, no framing is left in it and
\* nothing of it is missing.  Only before the first size line or the first piece of a
\* compressed page is complete are the raw bytes taken for it.
PageIsSeen ==
  LET page == Unpacked(peer, KeptPieces)
      framed == peer.chunk # 0 => IsSizeLine(Kept(data), 1)
  IN  service.status /\ framed /\ (peer.packed => page # <<>>) =>
        service.page = IF peer.packed THEN Prefix(page, MaxBody) ELSE page

\* More data never moves the end of the head: once a response has one, its header fields
\* and the beginning of its page are settled, whatever blank lines the page brings.
HeadStays ==
  [][HasHead(data) => HeadEnd(data') = HeadEnd(data) /\ BodyStart(data') = BodyStart(data)]_vars

\* Each reason for a score is true of what the peer would have sent in full, even where the
\* response was cut short, chunked or compressed, and none is of a kind that is switched
\* off; and the points add up, if a u32 holds them.  "hfs" stands on two of banner, title and
\* page, or on a title with a version: the patterns for the page search its title as well,
\* so that such a title counts twice (HfsIsCorrelated is about that).  An HTTP/2-only
\* endpoint is the exception for what only a response can tell.
TrueOf(whole, reason) ==
  LET has(pattern) == Shows(whole, pattern) IN
  CASE reason = "high port"         -> peer.highPort
    [] reason = "absent server"     -> peer.server = "none" \/ peer.tls = "h2"
    [] reason = "uncommon server"   -> peer.server \notin CommonServers \cup {"none"}
    [] reason = "directory_listing" -> has(<<"index", "of">>) \/ has(<<"directory", "listing">>)
    [] reason = "login_panel"       -> has(<<"form">>) /\ has(<<"password">>)
    [] reason = "admin_panel"       -> has(<<"title Panel">>) \/ has(<<"dashboard">>)
    [] reason = "hfs"               ->
         \/ peer.server = "HFS 2" /\ (has(<<"rejetto">>) \/ has(<<"title HFS">>))
         \/ has(<<"rejetto">>) /\ has(<<"title HFS">>)
         \/ has(<<"title HFS 2">>)
    [] reason \in {"self-signed", "expired"} ->
         peer.tls # "none" /\ reason \in peer.certificate
    [] reason = "artifacts"         -> has(<<".exe">>)
    [] reason = "unknown"           -> ~peer.icon \/ peer.tls = "h2"
\* The reasons that can be switched off.
Switched == {"hfs", "directory_listing", "login_panel", "admin_panel"}
ReasonsAreSwitchedOn == service.reasons \cap Switched \subseteq Enabled
\* The ones that stand on the connection and not on the page.
OnConnection == {"high port", "self-signed", "expired", "unknown"}
ReasonsAreTrue(reasons) ==
  \A reason \in reasons : TrueOf(Unpacked(peer, peer.page), reason)
ScoredOnEvidence ==
  /\ ReasonsAreTrue(service.reasons)
  /\ ReasonsAreSwitchedOn
  /\ Points(service.reasons) < ScoreLimit => service.score = Points(service.reasons)

\* "A single weak signal never asserts HFS" (fingerprint/mod.rs:80): a service called hfs
\* shows it in two places, its banner, its title and the page beside the title.  One title
\* with a version refutes it: it is taken for evidence of the title and for evidence of the
\* page, whose text it is part of.
Signals(page) ==
  {place \in {"banner", "title", "page"} :
     CASE place = "banner" -> service.server = "HFS 2"
       [] place = "title"  -> Title(page) \in {"title HFS", "title HFS 2"}
       [] place = "page"   -> Shows(page, <<"rejetto">>)}
HfsIsCorrelated ==
  phase = "done" /\ "hfs" \in service.fingerprints => Cardinality(Signals(service.page)) >= 2

=============================================================================
