--------------------------- MODULE LabelFunctions ---------------------------
(***************************************************************************)
(* The SQL functions of util-functions.sql, which the reports apply to     *)
(* QNAMEs: first_label, last_labels and last_label.  A text is the         *)
(* sequence of the parts between its dots, so there is at least one part;  *)
(* parts may be empty.                                                     *)
(***************************************************************************)
EXTENDS Integers, Sequences, FiniteSetsExt

CONSTANTS
  NULL,     (* SQL NULL                                                    *)
  ERROR     (* the call is an SQL error                                    *)

(* strpos(t, '.') and substr(t, strpos(t, '.') + 1): without a dot, strpos *)
(* is 0 and the second is the whole text.                                  *)
Dotted(t)   == Len(t) > 1
AfterDot(t) == IF Dotted(t) THEN Tail(t) ELSE t

(* What is left of t when it was cut behind its first dot n times.         *)
Rest(t, n) ==
  LET rest[k \in 0..n] == IF k = 0 THEN t ELSE AfterDot(rest[k - 1])
  IN  rest[n]

(* substr(t, 1, strpos(t, '.') - 1): a length of -1 is an error.           *)
FirstLabel(t) == IF Dotted(t) THEN <<t[1]>> ELSE ERROR

(* The loop of last_labels ends at the first rest without a dot; it has    *)
(* assigned subsets[1] up to the one below index.                          *)
Index(t) == 1 + Min({n \in 0..Len(t) : ~Dotted(Rest(t, n))})

(* (The first: were the rest assigned before it is cut.)                   *)
SubsetUncut(t, i) == IF i \in 1..(Index(t) - 1) THEN Rest(t, i - 1) ELSE NULL
Subset(t, i) == IF i \in 1..(Index(t) - 1) THEN Rest(t, i) ELSE NULL

(* (The first: were the whole text returned only when it is too short.)    *)
WholeWhenShorter(t, count) == Index(t) < count
Whole(t, count)            == Index(t) <= count

LastLabels(t, count) == IF Whole(t, count) THEN t ELSE Subset(t, Index(t) - count)

(* last_label cuts once, and again while there is a dot.                   *)
LastLabel(t) == Rest(t, Min({n \in 1..(Len(t) + 1) : ~Dotted(Rest(t, n))}))
=============================================================================
