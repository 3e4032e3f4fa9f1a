-------------------------- MODULE MCServiceRecord ---------------------------
(* Peers for ServiceRecord. *)
EXTENDS ServiceRecord

\* A page with a blank line of each kind, one that a pattern can be broken in, pages with
\* one and with two kinds of evidence.
Pages == {
  <<"index", "of", "CR", "LF", "CR", "LF", ".exe">>,
  <<"LF", "LF", "directory", "listing", "bin">>,
  <<"form", "dashboard", "password">>,
  <<"title HFS", "rejetto">>,
  <<"title HFS", "hello">>,
  <<"title HFS 2">> }
PackedPages == {<<"z1", "z2">>, <<"z2", "z1", "z1", "z1", "z1", "z1", "z1">>}
MCInflates ==
  [z \in {"z1", "z2"} |->
     IF z = "z1" THEN <<"form", "password">> ELSE <<"title Panel", ".exe">>]

\* A page that begins like a chunk, from a peer that does not claim to send any.
LooksChunked == <<"2", "LF", "index", "of">>

Plain == [http |-> TRUE, tls |-> "none", crlf |-> TRUE, chunk |-> 0, extension |-> FALSE,
          fields |-> {}, server |-> "none", page |-> <<"hello">>, packed |-> FALSE,
          certificate |-> {}, highPort |-> FALSE, icon |-> FALSE]

\* Every way to frame a page, the header fields that lie about it included.
Framings ==
  {[chunk |-> 0, fields |-> f, extension |-> FALSE] :
     f \in {{}, {"chunked"}, {"gzip"}, {"chunked", "gzip"}}}
  \cup {[chunk |-> c, fields |-> {"chunked"}, extension |-> e] : c \in 1 .. 3, e \in BOOLEAN}
Framed ==
  {[Plain EXCEPT !.crlf = crlf, !.page = page, !.chunk = f.chunk, !.fields = f.fields,
                 !.extension = f.extension] :
     crlf \in BOOLEAN, page \in Pages, f \in Framings}
  \cup {[Plain EXCEPT !.crlf = crlf, !.page = LooksChunked] : crlf \in BOOLEAN}
Packed ==
  {[Plain EXCEPT !.packed = TRUE, !.page = page, !.chunk = c,
                 !.fields = IF c = 0 THEN {"gzip"} ELSE {"chunked", "gzip"}] :
     page \in PackedPages, c \in 0 .. 2}

\* Every kind of evidence, with and without TLS and HTTP.
Evident ==
  {[Plain EXCEPT !.http = http, !.tls = tls, !.server = server, !.fields = f, !.page = page,
                 !.certificate = IF tls = "none" THEN {} ELSE certificate,
                 !.highPort = high, !.icon = ~high] :
     http \in BOOLEAN, tls \in {"none", "tls", "h2"},
     server \in {"none", "odd", "HFS 2", "nginx", "gin"}, f \in {{}, {"nosniff"}, {"json"}},
     page \in {<<"rejetto">>, <<"dashboard">>, <<"go net/http">>},
     certificate \in {{}, {"self-signed", "expired"}}, high \in BOOLEAN}

MCPeers == Framed \cup Packed \cup Evident

\* All of the rules and two of the classes, so that "login_panel" is one that is switched
\* off; the default weights, but for one.
MCEnabled == {Rules[k].name : k \in DOMAIN Rules} \cup {"directory_listing", "admin_panel"}
MCWeights == [DefaultWeights EXCEPT !["expired"] = 0]
=============================================================================
