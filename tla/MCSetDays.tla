----------------------------- MODULE MCSetDays -----------------------------
(***************************************************************************)
(* SetDays over every order of up to six files of a Sunday, a Tuesday,     *)
(* another day or no day at all, and over a file a day for four weeks,     *)
(* beginning with any day, in both orders, with one file missing or none.  *)
(***************************************************************************)
EXTENDS SetDays, SequencesExt

AnyOrder == BoundedSeq({0, 1, 2, NULL}, 6)

Upward(from) == [i \in 1..28 |-> from + i]
EveryDay     == {Upward(from) : from \in 0..6} \cup {Reverse(Upward(from)) : from \in 0..6}
OneMissing   == {RemoveAt(q, i) : q \in EveryDay, i \in 1..28}
AnyFiles     == AnyOrder \cup EveryDay \cup OneMissing
=============================================================================
