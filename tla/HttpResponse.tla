---------------------------- MODULE HttpResponse ----------------------------
(***************************************************************************)
(* What protocol/mod.rs makes of the bytes of an HTTP response, cut short  *)
(* at any place: parse_http, header_end, decode_body and decode_chunked.   *)
(*                                                                         *)
(* Data is a sequence of tokens.  "CR", "LF", ";" and the digits are the   *)
(* bytes that the framing looks at, "HTTP" is a status line, each header   *)
(* field is one token, "bin" is a byte that is not UTF-8, and any other    *)
(* token is a piece of the page.  The inflater is a library: Inflates says *)
(* what a token of a compressed page gives.                                *)
(*                                                                         *)
(* Nothing uses an operator marked as a faulty variant: it is the one      *)
(* below it with a plausible mistake, for the mutation checks.             *)
(***************************************************************************)
EXTENDS Naturals, Sequences, SequencesExt

CONSTANTS
  MaxBody,            \* ctx.max_body
  Inflates            \* the tokens of compressed pages, and the pieces each gives

ASSUME HttpResponseAssumption == MaxBody \in Nat \ {0}

Digits == [d \in {"0", "1", "2", "3"} |->
             CASE d = "0" -> 0 [] d = "1" -> 1 [] d = "2" -> 2 [] d = "3" -> 3]

At(data, k, token) == k \in DOMAIN data /\ data[k] = token
Least(S) == CHOOSE n \in S : \A m \in S : n <= m
Prefix(data, length) == SubSeq(data, 1, IF length < Len(data) THEN length ELSE Len(data))

-----------------------------------------------------------------------------
\* header_end: a line feed with an empty line behind it; whichever line ending comes first
\* wins, so that a CRLF blank line in the page of an LF-only response is not one.
BlankLinesCrlfFirst(data) ==                                    \* faulty variant
  LET lf == {k \in DOMAIN data : At(data, k, "LF") /\ At(data, k + 1, "LF")}
      crlf == {k \in DOMAIN data : /\ At(data, k, "LF")
                                   /\ At(data, k + 1, "CR") /\ At(data, k + 2, "LF")}
  IN  IF crlf # {} THEN crlf ELSE lf
BlankLines(data) ==
  {k \in DOMAIN data : /\ At(data, k, "LF")
                       /\ \/ At(data, k + 1, "LF")
                          \/ At(data, k + 1, "CR") /\ At(data, k + 2, "LF")}

HasHead(data) == BlankLines(data) # {}
HeadEnd(data) == Least(BlankLines(data))
BodyStart(data) == HeadEnd(data) + (IF At(data, HeadEnd(data) + 1, "LF") THEN 2 ELSE 3)

\* parse_http: a head that is text and begins with a status line of HTTP/1.0 or 1.1.
Parses(data) ==
  /\ HasHead(data)
  /\ At(data, 1, "HTTP")
  /\ \A k \in 1 .. HeadEnd(data) : data[k] # "bin"

Fields(data) == {data[k] : k \in 2 .. HeadEnd(data)} \ {"CR", "LF"}

\* What of the body is kept: its bytes up to max_body.
Kept(data) == Prefix(SubSeq(data, BodyStart(data), Len(data)), MaxBody)

-----------------------------------------------------------------------------
\* The first line feed from position p on, or 0.
LineEnd(body, p) ==
  LET ends == {k \in p .. Len(body) : body[k] = "LF"}
  IN  IF ends = {} THEN 0 ELSE Least(ends)

\* The size in the line at p: what is before an extension, without the space around it.
SizeText(body, p) ==
  LET line == SubSeq(body, p, LineEnd(body, p) - 1)
      extensions == {k \in DOMAIN line : line[k] = ";"}
      text == IF extensions = {} THEN line ELSE SubSeq(line, 1, Least(extensions) - 1)
      printed == {k \in DOMAIN text : text[k] # "CR"}
  IN  IF printed = {} THEN <<>> ELSE SubSeq(text, Least(printed), Max(printed))
IsSizeLine(body, p) ==
  /\ LineEnd(body, p) # 0
  /\ \A k \in p .. LineEnd(body, p) : body[k] # "bin"
  /\ SizeText(body, p) # <<>>
  /\ \A k \in DOMAIN SizeText(body, p) : SizeText(body, p)[k] \in DOMAIN Digits
ChunkSize(body, p) ==
  FoldLeft(LAMBDA size, digit : 16 * size + Digits[digit], 0, SizeText(body, p))

\* The line end behind a chunk is taken off if it is there.
AfterChunkAtOnce(body, p) == p                                  \* faulty variant
AfterChunk(body, p) ==
  LET q == IF At(body, p, "CR") THEN p + 1 ELSE p
  IN  IF At(body, q, "LF") THEN q + 1 ELSE q

\* decode_chunked: the chunks from each position on, as far as they came.
Dechunked(body) ==
  LET chunks[p \in 1 .. Len(body) + 1] ==
        IF ~IsSizeLine(body, p) \/ ChunkSize(body, p) = 0
          THEN <<>>
          ELSE LET first == LineEnd(body, p) + 1
                   rest == Len(body) + 1 - first
                   taken == IF ChunkSize(body, p) < rest THEN ChunkSize(body, p) ELSE rest
               IN  SubSeq(body, first, first + taken - 1)
                     \o chunks[AfterChunk(body, first + taken)]
  IN  chunks[1]

\* decode_gzip: what the inflater gives before it meets something it cannot read.
Inflated(body) ==
  LET bad == {k \in DOMAIN body : body[k] \notin DOMAIN Inflates}
      good == IF bad = {} THEN body ELSE SubSeq(body, 1, Least(bad) - 1)
  IN  Prefix(FlattenSeq([k \in DOMAIN good |-> Inflates[good[k]]]), MaxBody)

\* decode_body, and to_service behind it: the page that content analysis sees.  A coding
\* that the head names and the body does not begin with is taken for a lie.
Seen(data) ==
  LET body == Kept(data)
      framed == "chunked" \in Fields(data) /\ IsSizeLine(body, 1)
      unframed == IF framed THEN Dechunked(body) ELSE body
  IN  IF "gzip" \in Fields(data) /\ Inflated(unframed) # <<>> THEN Inflated(unframed)
      ELSE unframed

=============================================================================
