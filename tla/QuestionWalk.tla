---------------------------- MODULE QuestionWalk ----------------------------
(***************************************************************************)
(* The cursor of get_next_packet (pcap-parse.c) over the bytes behind the  *)
(* DNS header: the labels of the QNAME, which it copies into fqdn, the     *)
(* QTYPE and QCLASS, and the owner, type, size, extended rcode and flags   *)
(* of the record it takes for the EDNS0 OPT record.                        *)
(*                                                                         *)
(* Bytes have positions 0 .. caplen - 1; what stands in them is chosen     *)
(* when the cursor reads them.  The cursor never goes back, so a byte is   *)
(* chosen once.  A label is its length octet and the number of its bytes   *)
(* in front of the first NUL: strncpy, strncat and strlen see no more.     *)
(***************************************************************************)
EXTENDS Integers

CONSTANTS
  MaxName,   (* MAX_NAME, 255: bounds fqdn, and names on the wire          *)
  MaxLabel,  (* 63, the largest length octet that is not a pointer         *)
  Start,     (* position of the question section in the packet             *)
  CapLens    (* the captured lengths considered                            *)

ASSUME LimitsAssumption ==
  /\ MaxLabel \in Nat \ {0}
  /\ MaxName \in Nat
  /\ MaxLabel < MaxName

ASSUME LayoutAssumption == Start \in Nat /\ CapLens \subseteq Nat

VARIABLES
  caplen,      (* decoded->captured_length                                 *)
  sectionptr,  (* sectionptr - packet                                      *)
  labelsize,   (* the last length octet read                               *)
  fqdn,        (* strlen(fqdn)                                             *)
  high,        (* highest index of fqdn written so far                     *)
  read,        (* end of the furthest byte of the packet read so far       *)
  pc,          (* what the cursor stands on, or how the walk ended         *)
  wire,        (* history: octets of the name as announced, root included  *)
  extent,      (* history: where the last item announced would end         *)
  plain        (* history: no label so far contains a NUL                  *)

vars == <<caplen, sectionptr, labelsize, fqdn, high, read, pc, wire, extent, plain>>

Larger(a, b) == IF a < b THEN b ELSE a

(* The bytes each fixed field asks for with CHECK_SECTIONPTR.              *)
FieldSize == [type |-> 2, class |-> 2, owner |-> 1, rtype |-> 2, size |-> 2,
              other |-> 2, rcode |-> 2, z |-> 2]

Ended == {"accepted", "dropped"}

---------------------------------------------------------------------------
(* The helpers of the walk.                                                *)

(* What slips in the code would make of the helpers; the mutants of        *)
(* PROJECT.json put them in place of the definitions below.                *)
CutTooLate(p, need)         == p + need > caplen + 2
CutTooEarly(p, need)        == p + need >= caplen
AppendedWithoutDot(vis)     == fqdn + vis
CopyWholeLabel(len, vis)    == IF fqdn = 0 THEN MaxLabel - 1 ELSE fqdn + 1 + MaxLabel
LabelNotPassed(len)         == sectionptr
LabelPassedBackwards(len)   == sectionptr - (len + 1)

(* CHECK_SECTIONPTR(need) with the cursor at p jumps to next_packet.       *)
Cut(p, need) == p + need > caplen + 1

(* A label after the first that is refused before it is copied.            *)
NoRoomFor(len) == fqdn > 0 /\ fqdn + len > MaxName

(* fqdn_length after a label is copied; the label and its dot count in     *)
(* full, whatever NUL stands in it.                                        *)
CopiedLength(len) == IF fqdn = 0 THEN len ELSE fqdn + 1 + len

(* strlen(fqdn) after a label with vis bytes before its first NUL: the     *)
(* first label is copied over, the next ones are appended behind a dot.    *)
Appended(vis) == IF fqdn = 0 THEN vis ELSE fqdn + 1 + vis

(* The highest index strncpy, or strncat with its NUL, writes.             *)
CopyTouches(len, vis) == IF fqdn = 0 THEN len - 1 ELSE fqdn + 1 + vis

(* Bytes of a label the copy looks at: up to its NUL when there is one.    *)
Looked(len, vis) == IF vis < len THEN vis + 1 ELSE len

(* Where the cursor goes after a label.                                    *)
PastLabel(len) == sectionptr + len + 1

Announce(len, vis) ==
  /\ wire' = sectionptr + len + 2 - Start
  /\ extent' = sectionptr + len + 1
  /\ plain' = (plain /\ vis = len)

---------------------------------------------------------------------------
(* The loop over the labels.                                               *)

Init ==
  /\ caplen \in CapLens
  /\ sectionptr = Start
  /\ labelsize = 0
  /\ fqdn = 0
  /\ high = 0
  /\ read = Start
  /\ pc = "labels"
  /\ wire = 1
  /\ extent = Start + 1
  /\ plain = TRUE

(* CHECK_SECTIONPTR(1): no length octet left.                              *)
NoLabel ==
  /\ pc = "labels"
  /\ Cut(sectionptr, 1)
  /\ extent' = sectionptr + 1
  /\ pc' = "dropped"
  /\ UNCHANGED <<caplen, sectionptr, labelsize, fqdn, high, read, wire, plain>>

ReadLabelSize(len) ==
  /\ pc = "labels"
  /\ ~Cut(sectionptr, 1)
  /\ labelsize' = len
  /\ UNCHANGED caplen

(* The zero octet ends the name.                                           *)
Root ==
  /\ ReadLabelSize(0)
  /\ sectionptr' = sectionptr + 1
  /\ read' = sectionptr + 1
  /\ extent' = sectionptr + 1
  /\ pc' = "type"
  /\ UNCHANGED <<fqdn, high, wire, plain>>

(* Compression, or an illegal length octet.                                *)
Oversized ==
  /\ ReadLabelSize(MaxLabel + 1)
  /\ read' = sectionptr + 1
  /\ pc' = "dropped"
  /\ UNCHANGED <<sectionptr, fqdn, high, wire, extent, plain>>

(* The label is cut, or it does not fit behind the ones already copied.    *)
RefuseLabel(len, vis) ==
  /\ ReadLabelSize(len)
  /\ Cut(sectionptr, len) \/ NoRoomFor(len)
  /\ read' = sectionptr + 1
  /\ pc' = "dropped"
  /\ Announce(len, vis)
  /\ UNCHANGED <<sectionptr, fqdn, high>>

(* The label is copied and only then measured; the cursor moves, and is    *)
(* checked again, when the name still fits.                                *)
CopyLabel(len, vis) ==
  /\ ReadLabelSize(len)
  /\ ~Cut(sectionptr, len) /\ ~NoRoomFor(len)
  /\ read' = sectionptr + 1 + Looked(len, vis)
  /\ fqdn' = Appended(vis)
  /\ Announce(len, vis)
  /\ IF CopiedLength(len) > MaxName
       THEN /\ high' = Larger(high, CopyTouches(len, vis))
            /\ pc' = "dropped"
            /\ UNCHANGED sectionptr
       ELSE /\ high' = Larger(high, Larger(CopyTouches(len, vis), CopiedLength(len)))
            /\ sectionptr' = PastLabel(len)
            /\ pc' = IF Cut(PastLabel(len), 0) THEN "dropped" ELSE "labels"

---------------------------------------------------------------------------
(* The fixed fields.                                                       *)

FieldCut(f) ==
  /\ pc = f
  /\ Cut(sectionptr, FieldSize[f])
  /\ extent' = sectionptr + FieldSize[f]
  /\ pc' = "dropped"
  /\ UNCHANGED <<caplen, sectionptr, labelsize, fqdn, high, read, wire, plain>>

(* Read the whole field f and go on to next.                               *)
ReadField(f, next) ==
  /\ pc = f
  /\ ~Cut(sectionptr, FieldSize[f])
  /\ sectionptr' = sectionptr + FieldSize[f]
  /\ read' = sectionptr + FieldSize[f]
  /\ extent' = sectionptr + FieldSize[f]
  /\ pc' = next
  /\ UNCHANGED <<caplen, fqdn, high, wire, plain>>

Type == ReadField("type", "class") /\ UNCHANGED labelsize

(* Only a query with empty answer and authority sections and an additional *)
(* section is searched for EDNS0.                                          *)
Class == \E next \in {"accepted", "owner"} :
           ReadField("class", next) /\ UNCHANGED labelsize

RootOwner == ReadField("owner", "rtype") /\ labelsize' = 0

(* The additional record has a name: the packet is taken as it is.         *)
NamedOwner ==
  /\ pc = "owner"
  /\ ~Cut(sectionptr, 1)
  /\ labelsize' = 1
  /\ read' = sectionptr + 1
  /\ extent' = sectionptr + 1
  /\ pc' = "accepted"
  /\ UNCHANGED <<caplen, sectionptr, fqdn, high, wire, plain>>

RecordType == \E next \in {"size", "other"} :
                ReadField("rtype", next) /\ UNCHANGED labelsize

(* Not OPT: the next field is asked for, skipped, and never read.          *)
SkipOther ==
  /\ pc = "other"
  /\ ~Cut(sectionptr, 2)
  /\ sectionptr' = sectionptr + 2
  /\ extent' = sectionptr + 2
  /\ pc' = "accepted"
  /\ UNCHANGED <<caplen, labelsize, fqdn, high, read, wire, plain>>

OptRecord == /\ \/ ReadField("size", "rcode")
                \/ ReadField("rcode", "z")
                \/ ReadField("z", "accepted")
             /\ UNCHANGED labelsize

Labels == \/ NoLabel \/ Root \/ Oversized
          \/ \E len \in 1..MaxLabel : \E vis \in 0..len :
               RefuseLabel(len, vis) \/ CopyLabel(len, vis)

Fields == \/ \E f \in DOMAIN FieldSize : FieldCut(f)
          \/ Type \/ Class \/ RootOwner \/ NamedOwner
          \/ RecordType \/ SkipOther \/ OptRecord

Next == Labels \/ Fields

(* get_next_packet runs alone in its process, so the walk goes on.         *)
Spec == Init /\ [][Next]_vars /\ WF_vars(Next)

---------------------------------------------------------------------------
(* Properties.                                                             *)

(* The variables stay in their types: all of them are lengths or positions *)
(* but pc and plain.                                                       *)
TypeOK ==
  /\ caplen \in CapLens
  /\ sectionptr \in Nat /\ fqdn \in Nat /\ high \in Nat /\ read \in Nat
  /\ wire \in Nat /\ extent \in Nat
  /\ labelsize \in 0..MaxLabel + 1
  /\ plain \in BOOLEAN
  /\ pc \in {"labels"} \cup DOMAIN FieldSize \cup Ended

(* CHECK_SECTIONPTR is one byte generous, and the check of a label leaves  *)
(* its length octet out: all the same no read ends more than two bytes     *)
(* past what was captured, and at most one byte in a packet that is kept.  *)
ReadsStayNear ==
  /\ read <= Larger(caplen + 2, Start)
  /\ pc = "accepted" => read <= caplen + 1

(* A packet is dropped only for cause: a length octet above 63, an item    *)
(* that ends past the captured bytes, or a name longer than the protocol   *)
(* allows.  A legal question captured whole is never lost.                 *)
DroppedForCause ==
  pc = "dropped" => \/ labelsize > MaxLabel
                    \/ extent > caplen
                    \/ wire > MaxName

(* The name of a question within the protocol's limit is copied without    *)
(* touching fqdn above MAX_NAME - 1, so it also fits qname, which          *)
(* packets2postgresql.c allocates with MAX_NAME bytes.                     *)
LegalNameFits == wire <= MaxName => high < MaxName

(* Nothing of a name without NUL bytes is lost: its text is the name on    *)
(* the wire with the dots for the length octets.                           *)
WholeName ==
  pc = "accepted" /\ plain => fqdn = (IF wire = 1 THEN 0 ELSE wire - 2)

(* Each step ends the walk or moves the cursor forward: whatever the bytes *)
(* are, the loop of get_next_packet has a variant.                         *)
CursorAdvances == [][pc' \in Ended \/ sectionptr' > sectionptr]_vars

(* Every packet is either taken or dropped after finitely many labels.     *)
WalkEnds == <>(pc \in Ended)
=============================================================================
