---------------------------- MODULE ReportNames -----------------------------
(***************************************************************************)
(* The SQL label functions of the reports beside the type domainname: what *)
(* last_label and last_labels make of a name against the top-level and     *)
(* registered domains the type derives from it.                            *)
(***************************************************************************)
EXTENDS DomainIndex

CONSTANTS NULL, ERROR

SQL == INSTANCE LabelFunctions

(* What the names of the functions promise, for whatever text is asked     *)
(* for, dots in front, doubled or at the end included: its first part, its *)
(* last part and its last count parts, or all of them when there are not   *)
(* so many.  It is not so at the edges: first_label is an error for a text *)
(* without a dot, and the last 0 parts are NULL, not the empty text.       *)
LastParts(t, n) == SubSeq(t, Len(t) - n + 1, Len(t))

ResultsRight ==
  /\ SQL!FirstLabel(asked) = IF Len(asked) = 1 THEN ERROR ELSE SubSeq(asked, 1, 1)
  /\ SQL!LastLabel(asked) = LastParts(asked, 1)
  /\ SQL!LastLabels(asked, 0) = NULL
  /\ \A n \in 1..(Len(asked) + 2) :
       SQL!LastLabels(asked, n) = IF n > Len(asked) THEN asked ELSE LastParts(asked, n)

(* A report that groups names with the SQL functions, as the examples of   *)
(* util-functions.sql:60-67 do, counts under the same domains as one that  *)
(* groups them with the type's accessors, unless the name is below one of  *)
(* the sectoral domains, which only the type knows.                        *)
SameDomains ==
  \A id \in DOMAIN heap :
    LET name == Printed(heap[id])
    IN  /\ SQL!LastLabel(name) = heap[id].tld
        /\ ~IsSectoral(name) => SQL!LastLabels(name, 2) = heap[id].reg_domain
        /\ SQL!LastLabels(name, heap[id].nlabels) = name
=============================================================================
