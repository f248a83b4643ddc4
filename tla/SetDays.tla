------------------------------ MODULE SetDays ------------------------------
(***************************************************************************)
(* get_set_days of reporting/Utils.py: a generator that goes through the   *)
(* files of a host in the order they were added, or its reverse, and pairs *)
(* a Sunday's file with a Tuesday's for the weekly statistics.             *)
(***************************************************************************)
EXTENDS Integers, Sequences, FiniteSetsExt

CONSTANTS
  Queries,  (* results the SELECT may have: sequences of days of capture   *)
            (* (lastpacket), counted from a Sunday                         *)
  NULL      (* no lastpacket: -m was given, or the load did not finish     *)

ASSUME SetDaysAssumption ==
  /\ NULL \notin Nat
  /\ Queries \subseteq Seq(Nat \cup {NULL})

VARIABLES
  rows,     (* the rows fetched; the place in them stands for the id       *)
  next,     (* the row the loop looks at                                   *)
  sunday,   (* last_sunday_id, or NULL                                     *)
  tuesday,  (* last_tuesday_id, or NULL                                    *)
  yielded,  (* the pairs yielded                                           *)
  pc

vars == <<rows, next, sunday, tuesday, yielded, pc>>

(* date_part('dow', lastpacket)                                            *)
Dow(i) == IF rows[i] = NULL THEN NULL ELSE rows[i] % 7

Init ==
  /\ rows \in Queries
  /\ next = 1
  /\ sunday = NULL /\ tuesday = NULL
  /\ yielded = <<>>
  /\ pc = "loop"

(* The ids behind a row: only the first Sunday, or Tuesday, since the last *)
(* pair is kept.  (The first: were it the latest.)                         *)
KeptLatest(old, dow, i) == IF Dow(i) = dow THEN i ELSE old
Kept(old, dow, i) == IF Dow(i) = dow /\ old = NULL THEN i ELSE old

(* What a yield leaves of the Tuesday's id.  (The first: were only the     *)
(* Sunday's reset.)                                                        *)
NotReset(old) == old
Reset(old)    == NULL

(* One round of the loop.                                                  *)
Row ==
  LET s == Kept(sunday, 0, next)
      t == Kept(tuesday, 2, next)
  IN  /\ pc = "loop" /\ next <= Len(rows)
      /\ IF s # NULL /\ t # NULL
           THEN /\ yielded' = Append(yielded, <<s, t>>)
                /\ sunday' = NULL /\ tuesday' = Reset(t)
           ELSE /\ sunday' = s /\ tuesday' = t
                /\ UNCHANGED yielded
      /\ next' = next + 1
      /\ UNCHANGED <<rows, pc>>

(* The reader of the generator may take one pair and leave it.             *)
Abandon ==
  /\ pc = "loop" /\ yielded # <<>>
  /\ pc' = "abandoned"
  /\ UNCHANGED <<rows, next, sunday, tuesday, yielded>>

(* print tuple[3] behind the loop: without a row, tuple is the built-in    *)
(* type, and the generator raises TypeError.                               *)
Finish ==
  /\ pc = "loop" /\ next > Len(rows)
  /\ pc' = IF rows = <<>> THEN "TypeError" ELSE "done"
  /\ UNCHANGED <<rows, next, sunday, tuesday, yielded>>

Next == Row \/ Abandon \/ Finish

Spec == Init /\ [][Next]_vars

---------------------------------------------------------------------------
(* The row the last pair was yielded at, and the rows since.               *)
Larger(pair) == IF pair[1] > pair[2] THEN pair[1] ELSE pair[2]
End(k)       == IF k = 0 THEN 0 ELSE Larger(yielded[k])
Since(k, dow) == {i \in (End(k) + 1)..Len(rows) : Dow(i) = dow}

(* What the loop computes: the k-th pair is the first Sunday and the first *)
(* Tuesday behind the pair before it, so no file is in two pairs and pairs *)
(* do not cross; and no pair is missed among the rows gone through.        *)
EarliestPairs ==
  /\ \A k \in DOMAIN yielded :
       /\ yielded[k][1] = Min(Since(k - 1, 0))
       /\ yielded[k][2] = Min(Since(k - 1, 2))
  /\ LET last == Len(yielded)
     IN  \E dow \in {0, 2} : \A i \in Since(last, dow) : i >= next

(* plot-v6.py:20 wants less than ten days between the days of a pair, and  *)
(* nothing in the code looks: it is so when the files are sorted by day    *)
(* and none is missing of the Sundays and Tuesdays between the first and   *)
(* the last, whichever way they are sorted, and whatever day the first of  *)
(* them is of.  With one of them missing it is not.                        *)
Sorted ==
  \/ \A i, j \in DOMAIN rows : i < j => rows[i] < rows[j]
  \/ \A i, j \in DOMAIN rows : i < j => rows[i] > rows[j]

NoneMissing ==
  LET days == {rows[i] : i \in DOMAIN rows}
  IN  /\ NULL \notin days /\ Sorted
      /\ \A d \in 0..Max(days \cup {0}) : d > Min(days) /\ d % 7 \in {0, 2} => d \in days

LessThanTenDays ==
  yielded # <<>> /\ NoneMissing =>
    \A k \in DOMAIN yielded : rows[yielded[k][1]] - rows[yielded[k][2]] \in -9..9
=============================================================================
