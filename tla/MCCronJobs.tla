----------------------------- MODULE MCCronJobs -----------------------------
(***************************************************************************)
(* Small instances of CronJobs: two captures, so that a for loop has a     *)
(* word behind the one that fails, two nights, so that a capture is        *)
(* fetched, moved away and removed, and two weeks, so that a rotation      *)
(* meets what another one left behind.                                     *)
(***************************************************************************)
EXTENDS CronJobs

Late        == {"daily", "kill", "late"}
Overlapping == {"daily", "overlap"}
Both        == {"late", "overlap"}
Refused     == {"kill", "sql", "late"}
Unmoved     == {"daily", "mv"}
Viewed      == {"daily", "kill", "view"}
Killed      == {"daily", "kill", "full"}

AnyScenario == {{}, Late, Overlapping, Both, Refused, Unmoved, Viewed, Killed}
Failing     == {{"daily"}}
=============================================================================
