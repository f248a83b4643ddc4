----------------------------- MODULE DomainIndex ----------------------------
(***************************************************************************)
(* A table with a UNIQUE column of type domainname, as the Registry of     *)
(* test-domain-name.sql: its rows, and the btree index PostgreSQL keeps    *)
(* over them with the operator class domainname_ops.  A search finds the   *)
(* same rows in the table and through the index only if the comparison     *)
(* functions and the operators of that class agree.                        *)
(***************************************************************************)
EXTENDS DomainName, SequencesExt

CONSTANT MaxRows   (* bound on the rows of the table                       *)

ASSUME MaxRowsAssumption == MaxRows \in Nat

VARIABLES
  heap,     (* the rows of the table, in the order of their id             *)
  index,    (* their ids in the order of the btree                         *)
  asked,    (* the text of the last INSERT                                 *)
  answer    (* and what the server said of it                              *)

vars == <<heap, index, asked, answer>>

Answers == {"none", "stored", "duplicate", "invalid", "crashed"}

Entry(s) == heap[index[s]]

---------------------------------------------------------------------------
(* INSERT.                                                                 *)

(* The slot in front of which all entries compare lower than d, and behind *)
(* which none does.                                                        *)
IsSlot(s, d) ==
  \A r \in DOMAIN index : r < s <=> Cmp(Entry(r), d) = -1

SlotHolds(s, d) == s \in DOMAIN index /\ Cmp(Entry(s), d) = 0

Init ==
  /\ heap = <<>>
  /\ index = <<>>
  /\ asked \in Texts
  /\ answer = "none"

Ask(text, said) == asked' = text /\ answer' = said

Store(text) ==
  LET d == TextToDomain(text)
  IN  /\ text \in Readable
      /\ Len(heap) < MaxRows
      /\ \E s \in 1..Len(index) + 1 :
           /\ IsSlot(s, d) /\ ~SlotHolds(s, d)
           /\ heap' = Append(heap, d)
           /\ index' = InsertAt(index, s, Len(heap) + 1)
      /\ Ask(text, "stored")

(* The UNIQUE constraint refuses the name.                                 *)
RefuseKnown(text) ==
  /\ text \in Readable
  /\ \E s \in DOMAIN index : IsSlot(s, TextToDomain(text)) /\ SlotHolds(s, TextToDomain(text))
  /\ Ask(text, "duplicate")
  /\ UNCHANGED <<heap, index>>

(* domainname_in raises an error.                                          *)
RefuseInvalid(text) ==
  /\ ~Valid(text)
  /\ Ask(text, "invalid")
  /\ UNCHANGED <<heap, index>>

(* The server dies in text_to_domain and recovers what is committed.       *)
Crash(text) ==
  /\ Overruns(text)
  /\ Ask(text, "crashed")
  /\ UNCHANGED <<heap, index>>

Next == \E text \in Texts :
          Store(text) \/ RefuseKnown(text) \/ RefuseInvalid(text) \/ Crash(text)

Spec == Init /\ [][Next]_vars

---------------------------------------------------------------------------
(* SELECT ... WHERE fqdn op key.                                           *)

SeqScan(op, key) == {id \in DOMAIN heap : Holds(op, heap[id], key)}

(* Where a scan of the index may begin: at the key, behind it, or at the   *)
(* first entry.                                                            *)
From(op, key) ==
  {s \in DOMAIN index : /\ op \in {"=", ">="} => Cmp(Entry(s), key) # -1
                        /\ op = ">" => Cmp(Entry(s), key) = 1}

(* It tests each entry with the operator, and those that bound the key     *)
(* from above end it at the first entry that fails.                        *)
IndexScan(op, key) ==
  {index[s] : s \in {t \in From(op, key) :
     /\ Holds(op, Entry(t), key)
     /\ op \in {"<", "<=", "="} =>
          \A r \in From(op, key) : r < t => Holds(op, Entry(r), key)}}

---------------------------------------------------------------------------
(* Properties.                                                             *)

(* The rows are names, none of them empty, and the index numbers them.     *)
TypeOK ==
  /\ heap \in Seq(Domains) /\ Len(heap) <= MaxRows
  /\ \A id \in DOMAIN heap : heap[id].lcase_name \in Texts
  /\ index \in Seq(DOMAIN heap) /\ Len(index) = Len(heap)
  /\ asked \in Texts /\ answer \in Answers

(* The table holds no name twice, whatever the case and the trailing dots  *)
(* it was typed with (the last line of test-domain-name.sql's illegal      *)
(* values), and only names it holds are refused as duplicates.             *)
NamesOnce ==
  /\ \A i, j \in DOMAIN heap : Lower(heap[i].orig_name) = Lower(heap[j].orig_name) => i = j
  /\ answer = "duplicate" =>
       \E i \in DOMAIN heap : Lower(heap[i].orig_name) = Lower(Strip(asked))

(* The index holds every row once, in the lexicographic order of the       *)
(* canonical names: what ORDER BY fqdn returns without sorting.            *)
IndexOrdered ==
  /\ {index[s] : s \in DOMAIN index} = DOMAIN heap
  /\ \A s, t \in DOMAIN index :
       s < t => Before(Entry(s).lcase_name, Entry(t).lcase_name)

(* A search finds the same rows through the index as without it: with the  *)
(* operators other than > (see SearchGreater).                             *)
SearchesAgree ==
  \A op \in Operators \ {">"} : \A key \in Domains : IndexScan(op, key) = SeqScan(op, key)

(* A table restored from a dump, which holds the rows as domainname_out    *)
(* prints them, has the same names with the same labels, top-level and     *)
(* registered domains, and no name is refused.                             *)
DumpRestores ==
  \A id \in DOMAIN heap :
    /\ Printed(heap[id]) \in Readable
    /\ LET d == TextToDomain(Printed(heap[id]))
       IN  /\ AreEqual(d, heap[id])
           /\ <<d.tld, d.reg_domain, d.nlabels>> =
                <<heap[id].tld, heap[id].reg_domain, heap[id].nlabels>>

(* domain-name.sql:158 gives > to the btree operator class: a search with  *)
(* it finds the same rows with and without the index.                      *)
SearchGreater == \A key \in Domains : IndexScan(">", key) = SeqScan(">", key)
=============================================================================
