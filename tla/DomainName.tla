----------------------------- MODULE DomainName -----------------------------
(***************************************************************************)
(* The PostgreSQL type domainname (domain-name-type/): the text a user     *)
(* types, the structure stored for it, and the comparisons between two of  *)
(* them.                                                                   *)
(*                                                                         *)
(* A text is the sequence of its labels, what stands before, between and   *)
(* behind its dots; a dot at its end is an empty label there.  A label is  *)
(* a word and whether it is typed in upper case.                           *)
(***************************************************************************)
EXTENDS Integers, Sequences, FiniteSetsExt

CONSTANTS
  Texts,         (* the texts considered, their canonical forms included   *)
  Before(_, _),  (* strcmp puts the first text before the second           *)
  Size(_),       (* strlen                                                 *)
  MaxLength,     (* MAX_LENGTH, 256                                        *)
  Sectoral       (* the words that are sectoral domains under fr           *)

LabelType == [word : STRING \ {""}, upper : BOOLEAN] \cup {[word |-> "", upper |-> FALSE]}

Nothing == [word |-> "", upper |-> FALSE]
Fr      == [word |-> "fr", upper |-> FALSE]

(* _lower.                                                                 *)
Lower(text) == [n \in DOMAIN text |-> [text[n] EXCEPT !.upper = FALSE]]

(* Trailing dots are deleted, all of them.                                 *)
Strip(text) ==
  LET kept == {n \in DOMAIN text : text[n] # Nothing}
  IN  IF kept = {} THEN <<>> ELSE SubSeq(text, 1, Max(kept))

ASSUME TextsAssumption ==
  /\ Texts \subseteq Seq(LabelType) \ {<<>>}
  /\ \A t \in Texts : Lower(t) \in Texts /\ Strip(t) \in Texts \cup {<<>>}
  /\ \A t \in Texts : Size(t) \in Nat
  /\ MaxLength \in Nat

(* strlen is the same in either case, and deleting dots does not add to it.*)
ASSUME SizeAssumption ==
  \A t \in Texts :
    /\ Size(Lower(t)) = Size(t)
    /\ Strip(t) # <<>> => Size(Strip(t)) <= Size(t)

ASSUME OrderAssumption ==
  /\ \A t, u \in Texts : Before(t, u) \in BOOLEAN
  /\ \A t \in Texts : ~Before(t, t)
  /\ \A t, u \in Texts : t # u => Before(t, u) \/ Before(u, t)
  /\ \A t, u, v \in Texts : Before(t, u) /\ Before(u, v) => Before(t, v)

---------------------------------------------------------------------------
(* domainname_in.                                                          *)

LastLabels(name, n) ==
  IF Len(name) <= n THEN name ELSE SubSeq(name, Len(name) - n + 1, Len(name))

IsSectoral(name) ==
  /\ Len(name) > 1
  /\ name[Len(name)] = Fr
  /\ name[Len(name) - 1].word \in Sectoral

(* _reg_domain: a label more under a sectoral domain of fr.                *)
RegDomain(name) == LastLabels(name, IF IsSectoral(name) THEN 3 ELSE 2)

(* The length is checked with the trailing dots, validity without them.    *)
(* (The first: were only the length checked.)                              *)
ValidUnlessLong(text) == Size(text) <= MaxLength
Valid(text) == Size(text) <= MaxLength /\ Strip(text) # <<>>

(* A name of MAX_LENGTH octets leaves no room for its NUL: strlen in       *)
(* _lower then sees its own output, and the server runs off its memory.    *)
Overruns(text) == Valid(text) /\ Size(Strip(text)) = MaxLength

(* What text_to_domain stores.  (The first: were the labels counted in the *)
(* text as typed.)                                                         *)
TextToDomainOfText(text) ==
  [orig_name |-> Strip(text), lcase_name |-> Lower(Strip(text)),
   tld |-> LastLabels(Lower(Strip(text)), 1),
   reg_domain |-> RegDomain(Lower(Strip(text))), nlabels |-> Len(text)]

TextToDomain(text) ==
  [orig_name |-> Strip(text), lcase_name |-> Lower(Strip(text)),
   tld |-> LastLabels(Lower(Strip(text)), 1),
   reg_domain |-> RegDomain(Lower(Strip(text))), nlabels |-> Len(Strip(text))]

Readable == {t \in Texts : Valid(t) /\ ~Overruns(t)}
Domains  == {TextToDomain(t) : t \in Readable}

(* domainname_out.                                                         *)
Printed(d) == d.lcase_name

---------------------------------------------------------------------------
(* Comparisons.                                                            *)

(* What are_equal and is_lower would be on the name as typed.              *)
AreEqualAsTyped(l, r) == l.orig_name = r.orig_name
IsLowerAsTyped(l, r)  == Before(l.orig_name, r.orig_name)

AreEqual(l, r) == l.lcase_name = r.lcase_name
IsLower(l, r)  == Before(l.lcase_name, r.lcase_name)

(* domainname_cmp.  (The first: with its signs swapped.)                   *)
CmpBackwards(l, r) == IF AreEqual(l, r) THEN 0 ELSE IF IsLower(l, r) THEN 1 ELSE -1
Cmp(l, r)          == IF AreEqual(l, r) THEN 0 ELSE IF IsLower(l, r) THEN -1 ELSE 1

(* The functions behind the SQL operators.                                 *)
DomainLt(l, r) == IsLower(l, r)
DomainGt(l, r) == ~IsLower(l, r)

Holds(op, l, r) ==
  \/ op \in {"<", "<="} /\ DomainLt(l, r)
  \/ op \in {"<=", "=", ">="} /\ AreEqual(l, r)
  \/ op \in {">=", ">"} /\ DomainGt(l, r)

Operators == {"<", "<=", "=", ">=", ">"}
=============================================================================
