----------------------------- MODULE PcapParse -----------------------------
(***************************************************************************)
(* get_next_packet (pcap-parse.c): what reading one frame of a capture     *)
(* does to the input file and to struct dns_packet, which the caller       *)
(* allocates once and passes to every call.                                *)
(*                                                                         *)
(* A frame is a record of the decisions the dissector takes on it:         *)
(*   net, version  the family announced by the link layer, and by the      *)
(*                 version nibble of the IP header ("other": not IP)       *)
(*   ext           the frame is IPv6 and has extension headers             *)
(*   udp           the headers fit the capture and announce UDP            *)
(*   dns           one of its ports is 53                                  *)
(*   question      "bad": the walk over the QNAME gives up; "noClass": the *)
(*                 name is copied but the QCLASS is cut off; "ok"          *)
(*   query, bare   the QR bit, empty answer and authority sections         *)
(*   additional    the additional section: absent, an owner that is not    *)
(*                 the root, a record that is not OPT, OPT, or a record    *)
(*                 cut before its type is known or behind it               *)
(*   sectoral      the QNAME is a sectoral domain itself, as com.fr        *)
(*                                                                         *)
(* The fields of struct dns_packet hold the number of the frame they were  *)
(* last written from (0: never); only those the control depends on hold    *)
(* their value.  QuestionWalk models the walk behind question and          *)
(* additional byte by byte.                                                *)
(***************************************************************************)
EXTENDS Integers, Sequences

CONSTANT Frames    (* the frames that captures consist of                  *)

Families == {"ipv4", "ipv6"}

(* The link types get_next_packet knows; any other one is fatal.           *)
DataLinks == {"EN10MB", "LOOP", "RAW", "unsupported"}

FrameType ==
  [net : Families \cup {"other"}, version : Families, ext : BOOLEAN,
   udp : BOOLEAN, dns : BOOLEAN, question : {"bad", "noClass", "ok"},
   query : BOOLEAN, bare : BOOLEAN,
   additional : {"none", "named", "other", "opt", "cutEarly", "cutLate"},
   sectoral : BOOLEAN]

ASSUME FramesAssumption == Frames \subseteq FrameType

InputType == [packetnum : Nat, dnspacketnum : Nat, first : Nat, last : Nat]

DnsPacketType ==
  [rank : Nat, date : Nat, addr : Nat, header : Nat, qname : Nat,
   qclass : Nat, edns0 : BOOLEAN, edns0_size : Nat, do_dnssec : Nat,
   sectoral : BOOLEAN]

---------------------------------------------------------------------------
(* How far the dissector gets.                                             *)

(* The assertions on the version nibble.  With DLT_RAW the nibble is what  *)
(* the family is taken from.                                               *)
Asserts(link, f) == link = "RAW" \/ f.net = "other" \/ f.net = f.version

(* The walk over IPv6 extension headers uses where_am_i, which nothing     *)
(* initialises: such a frame may be taken for any other IPv6 frame, or for *)
(* one that is skipped.  (It may also end or block the process: see Die    *)
(* and Hang in Loader.)                                                    *)
Walks(f) == f.net = "ipv6" /\ f.ext

Readings(f) ==
  IF Walks(f)
    THEN {[f EXCEPT !.udp = FALSE]} \cup {g \in Frames : g.net = "ipv6" /\ ~g.ext}
    ELSE {f}

IsUdp(f)    == f.net \in Families /\ f.udp
IsDns(f)    == IsUdp(f) /\ f.dns
HasName(f)  == IsDns(f) /\ f.question # "bad"
HasClass(f) == IsDns(f) /\ f.question = "ok"

(* Only queries with nothing but a question and additional records are     *)
(* searched for EDNS0.                                                     *)
Searched(f) == HasClass(f) /\ f.query /\ f.bare /\ f.additional # "none"
SeesOpt(f)  == Searched(f) /\ f.additional \in {"opt", "cutLate"}
HasOpt(f)   == Searched(f) /\ f.additional = "opt"

(* The frames get_next_packet returns; it goes on to the next packet, or   *)
(* the next frame, behind all the others.                                  *)
Returned(f) == HasClass(f) /\ ~(Searched(f) /\ f.additional \in {"cutEarly", "cutLate"})

---------------------------------------------------------------------------
(* What it writes.                                                         *)

NewInput == [packetnum |-> 0, dnspacketnum |-> 0, first |-> 0, last |-> 0]

(* pcap_next and the bookkeeping behind it; a DNS packet is counted when   *)
(* it is returned.  (The first two: what counting at the port check, or    *)
(* going back behind pcap_next for an ignored frame, would do.)            *)
InputAfterCountingAll(input, f) ==
  LET n == input.packetnum + 1
  IN  [packetnum |-> n,
       dnspacketnum |-> IF IsDns(f) THEN input.dnspacketnum + 1 ELSE input.dnspacketnum,
       first |-> IF input.first = 0 THEN n ELSE input.first,
       last |-> n]

InputAfterReturned(input, f) ==
  IF Returned(f) THEN InputAfterCountingAll(input, f) ELSE input

InputAfter(input, f) ==
  LET n == input.packetnum + 1
  IN  [packetnum |-> n,
       dnspacketnum |-> IF Returned(f) THEN input.dnspacketnum + 1 ELSE input.dnspacketnum,
       first |-> IF input.first = 0 THEN n ELSE input.first,
       last |-> n]

(* struct dns_packet as malloc leaves it: its flags are whatever the       *)
(* memory held.                                                            *)
NewPackets ==
  {[rank |-> 0, date |-> 0, addr |-> 0, header |-> 0, qname |-> 0, qclass |-> 0,
    edns0 |-> b, edns0_size |-> 0, do_dnssec |-> 0, sectoral |-> FALSE] : b \in BOOLEAN}

(* decoded->rank is set once per call, before the label next_packet.  (The *)
(* first two: what counting from one, or from the frame before, would do.) *)
AtCallFromOne(decoded, input)    == [decoded EXCEPT !.rank = input.packetnum + 1]
AtCallFromBefore(decoded, input) == [decoded EXCEPT !.rank = input.packetnum - 1]
AtCall(decoded, input) == [decoded EXCEPT !.rank = input.packetnum]

(* What decoded->edns0 would be, were it not cleared for each question.    *)
EdnsNotCleared(decoded, f) == IF SeesOpt(f) THEN TRUE ELSE decoded.edns0

(* decoded->edns0 is cleared when the question is complete, and set when   *)
(* the type of the additional record is OPT.                               *)
EdnsAfter(decoded, f) == IF HasClass(f) THEN SeesOpt(f) ELSE decoded.edns0

Decode(decoded, f, n) ==
  LET Written(reached, old) == IF reached THEN n ELSE old
  IN  [rank |-> decoded.rank,
       date |-> n,
       addr |-> Written(IsUdp(f), decoded.addr),
       header |-> Written(IsDns(f), decoded.header),
       qname |-> Written(HasName(f), decoded.qname),
       qclass |-> Written(HasClass(f), decoded.qclass),
       edns0 |-> EdnsAfter(decoded, f),
       edns0_size |-> Written(Returned(f) /\ EdnsAfter(decoded, f), decoded.edns0_size),
       do_dnssec |-> Written(HasOpt(f), decoded.do_dnssec),
       sectoral |-> IF HasName(f) THEN f.sectoral ELSE decoded.sectoral]
=============================================================================
