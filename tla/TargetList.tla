----------------------------- MODULE TargetList -----------------------------
(***************************************************************************)
(* The pure part of target/mod.rs: what one line of a target list says,    *)
(* with the columns a header gave, and the ports of a port specification.  *)
(*                                                                         *)
(* A line is the non-empty sequence of its fields, as commas separate      *)
(* them, and a field is a sequence of words: an address, a number, one of  *)
(* "/", ":" and "#", or a name.  Two words side by side, with nothing      *)
(* between them, are no number and no address.  Blanks around a field are  *)
(* trimmed by the code and are left out; so is quoting, the CSV library's. *)
(***************************************************************************)
EXTENDS Naturals, Sequences, SequencesExt

CONSTANTS
  AddressBits,        \* 32
  MaxPort             \* 65535

ASSUME TargetListAssumption == AddressBits \in Nat /\ MaxPort \in Nat \ {0}

TwoTo[n \in Nat] == IF n = 0 THEN 1 ELSE 2 * TwoTo[n - 1]

Addresses == 0 .. TwoTo[AddressBits] - 1

Address(n) == <<"address", n>>
Number(n) == <<"number", n>>
Word(w) == <<w, 0>>

IsAddress(field) == Len(field) = 1 /\ field[1][1] = "address"
IsNumber(field) == Len(field) = 1 /\ field[1][1] = "number"
IsPort(field) == IsNumber(field) /\ field[1][2] \in 1 .. MaxPort
\* What a line may be made of.
Field == Seq(STRING \X Nat)
Line ==
  {line \in Seq(Field) :
     /\ line # <<>>
     /\ \A k \in DOMAIN line : \A j \in DOMAIN line[k] :
          line[k][j][1] = "address" => line[k][j][2] \in Addresses}

\* The first of some positions, or 0.
FirstOf(positions) == IF positions = {} THEN 0 ELSE Min(positions)

Has(line, word) == \E k \in DOMAIN line : Word(word) \in ToSet(line[k])

-----------------------------------------------------------------------------
\* A line that is a comment, and what is left of one without a comma when its inline
\* comment is taken off.
IsComment(line) == line[1] # <<>> /\ line[1][1] = Word("#")
BeforeHash(field) ==
  LET hash == FirstOf({k \in DOMAIN field : field[k] = Word("#")})
  IN  IF hash = 0 THEN field ELSE SubSeq(field, 1, hash - 1)
Stripped(line) == IF Len(line) > 1 THEN line ELSE <<BeforeHash(line[1])>>
Skipped(line) == IsComment(line) \/ Stripped(line) = << <<>> >>

\* detect_header: the first of the columns that has one of the names, or 0.
Column(line, names) == FirstOf({k \in DOMAIN line : \E n \in names : line[k] = <<Word(n)>>})
AddressNames == {"ip", "ipv4", "host", "address", "target"}
PortNames == {"port", "c2_port", "known_c2_port", "service_port"}

IsHeader(line) == Len(line) > 1 /\ ~IsAddress(line[1]) /\ Column(line, AddressNames) # 0

\* The name --known-service-field gives, if any, is the only one the port column may have.
PortColumn(line, known) == Column(line, IF known = "" THEN PortNames ELSE {known})
HeaderRefused(line, known) == known # "" /\ PortColumn(line, known) = 0
LayoutOf(line, known) ==
  [address |-> Column(line, AddressNames), port |-> PortColumn(line, known)]
NoLayout == [address |-> 0, port |-> 0]

-----------------------------------------------------------------------------
\* A network, from its own address to its broadcast address, both included.
IsNet(line) ==
  /\ Len(line) = 1
  /\ Len(line[1]) = 3
  /\ line[1][1][1] = "address"
  /\ line[1][2] = Word("/")
  /\ line[1][3] \in {Number(n) : n \in 0 .. AddressBits}
NetSize(line) == TwoTo[AddressBits - line[1][3][2]]
Network(line) == (line[1][1][2] \div NetSize(line)) * NetSize(line)
Broadcast(line) == Network(line) + NetSize(line) - 1

\* parse_row: the cells of a row that hold its address and its port.  Without a header a
\* row is an address, address:port, or an address and a port column that may be empty.
Cell(line, column) == IF column \in DOMAIN line THEN line[column] ELSE <<>>
Cells(line, layout) ==
  CASE layout # NoLayout -> [address |-> Cell(line, layout.address),
                             port |-> Cell(line, layout.port)]
    [] layout = NoLayout /\ ~Has(line, ":") -> [address |-> line[1], port |-> Cell(line, 2)]
    [] layout = NoLayout /\ Has(line, ":") -> [address |-> SubSeq(line[1], 1, 1),
                                               port |-> SubSeq(line[1], 3, Len(line[1]))]

IsRow(line, layout) ==
  LET cells == Cells(line, layout)
  IN  /\ IsAddress(cells.address)
      /\ cells.port = <<>> \/ IsPort(cells.port)
      /\ layout = NoLayout =>
           \/ ~Has(line, ":") /\ Len(line) \in 1 .. 2
           \/ Len(line) = 1 /\ line[1][2] = Word(":") /\ cells.port # <<>>

RowAddress(line, layout) == Cells(line, layout).address[1][2]
RowPorts(line, layout) ==
  LET port == Cells(line, layout).port
  IN  IF port = <<>> THEN {} ELSE {port[1][2]}

-----------------------------------------------------------------------------
\* parse_ports, of a list of ranges [from, to]; a port alone is a range of one.
PortsRefused(ranges) ==
  \/ ranges = <<>>
  \/ \E k \in DOMAIN ranges : ~(1 <= ranges[k].from /\ ranges[k].from <= ranges[k].to
                                                   /\ ranges[k].to <= MaxPort)
PortsOf(ranges) == UNION {ranges[k].from .. ranges[k].to : k \in DOMAIN ranges}
=============================================================================
