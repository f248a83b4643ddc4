----------------------------- MODULE WeekStore -----------------------------
(***************************************************************************)
(* What the weekly rotation leaves the reports to work with: the captures  *)
(* loaded this week (pcap_files) and those of the week before              *)
(* (pcap_files_prev).  A capture enters once in its life, spends what is   *)
(* left of the week among the first and a week among the second.  Where    *)
(* again holds it may enter another week; never this one twice.            *)
(***************************************************************************)
CONSTANT Captures

VARIABLES
  thisWeek,   (* rows of pcap_files                                        *)
  lastWeek,   (* rows of pcap_files_prev                                   *)
  ever,       (* captures loaded at some time                              *)
  again       (* may one of them be loaded in another week                 *)

weekVars == <<thisWeek, lastWeek, ever>>

Init == thisWeek = {} /\ lastWeek = {} /\ ever = {}

Load(c) ==
  /\ c \notin thisWeek
  /\ c \in ever => again
  /\ thisWeek' = thisWeek \cup {c}
  /\ ever' = ever \cup {c}
  /\ UNCHANGED lastWeek

(* Only last week's captures are ever forgotten, all at once, ...          *)
Forget ==
  /\ lastWeek' = {}
  /\ UNCHANGED <<thisWeek, ever>>

(* ... and this week's take their place only when that has happened.       *)
Turn ==
  /\ lastWeek = {}
  /\ lastWeek' = thisWeek
  /\ thisWeek' = {}
  /\ UNCHANGED ever

Next == Forget \/ Turn \/ \E c \in Captures : Load(c)

Spec == Init /\ [][Next]_weekVars
=============================================================================
