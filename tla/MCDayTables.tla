---------------------------- MODULE MCDayTables ----------------------------
(***************************************************************************)
(* A small instance of DayTables: a plot and the page it is on, so that    *)
(* one is made after the day table is there; two nightly makes and one by  *)
(* hand, behind or beside each other, on two days.                         *)
(***************************************************************************)
EXTENDS DayTables

CONSTANTS ipv6, ipv6_png

SomePages == {ipv6, ipv6_png}
ThePlots  == {ipv6_png}
TheUses   == [p \in SomePages |-> IF p = ipv6 THEN ThePlots ELSE {}]

AnyScenario == {{"load"}, {"load", "kill"}, {"load", "drop"}, {"byHand", "midnight"},
                {"midnight", "together"}}
=============================================================================
