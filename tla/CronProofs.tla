----------------------------- MODULE CronProofs -----------------------------
(***************************************************************************)
(* What the jobs of CronJobs keep for any number of captures, nights and   *)
(* weeks, and in every scenario.                                           *)
(***************************************************************************)
EXTENDS CronJobs, TLAPS

---------------------------------------------------------------------------
(* Types, and the order in which cron starts the jobs.                     *)

NightsInOrder == \A d \in Dailies : d > night => dpc[d] = "off"

OneRotation ==
  \A v, w \in Weeklies : v < w /\ wpc[w] # "off" => wpc[v] \in Over

TablesType ==
  /\ pcap_files \in [week : FilesType, prev : FilesType]
  /\ dns_packets \in [week : PacketsType, prev : PacketsType]
  /\ view \in Slots \cup {"none"}

(* $f is a word of the loop that is not loaded yet.                        *)
LoopWord == \A d \in Dailies : dpc[d] \in {"files"} \cup Loading => file[d] \in todo[d]

Base == TypeOK /\ NightsInOrder /\ OneRotation /\ LoopWord

LEMMA NewTables ==
  /\ NoFiles \in FilesType /\ NewFiles \in FilesType
  /\ NoPackets \in PacketsType /\ NewPackets \in PacketsType
  BY DEF NoFiles, NewFiles, NoPackets, NewPackets, FilesType, PacketsType, Slots

LEMMA BaseInit == Init => Base
<1> SUFFICES ASSUME Init PROVE Base
  OBVIOUS
<1>1. TypeOK
  BY CronAssumption, NewTables
  DEF Init, TypeOK, Dailies, Weeklies, DailyLabels, WeeklyLabels, Over, Slots
<1>2. NightsInOrder /\ OneRotation /\ LoopWord
  BY DEF Init, NightsInOrder, OneRotation, LoopWord, Loading
<1> QED
  BY <1>1, <1>2 DEF Base

LEMMA DailyTypes ==
  ASSUME Base, NEW d \in Dailies, StartDaily(d) \/ StepDaily(d) \/ FailDaily(d)
  PROVE  Base'
<1> USE CronAssumption
    DEF Base, TypeOK, NightsInOrder, OneRotation, LoopWord, Loading, Go, DailyLabels, Over,
        directories, daily, weekly, database, history
<1>1. CASE StartDaily(d)
  <2>1. Go(d, "lock") /\ d = night + 1 /\ night' = night + 1
    BY <1>1 DEF StartDaily
  <2>2. NightsInOrder' /\ night' \in 0..Nights
    BY <2>1 DEF Dailies
  <2> QED
    BY <1>1, <2>1, <2>2 DEF StartDaily
<1>2. CASE CheckLock(d)
  BY <1>2 DEF CheckLock
<1>3. CASE EndWait(d)
  BY <1>3 DEF EndWait
<1>4. CASE MoveAway(d)
  BY <1>4 DEF MoveAway, MovedAway, Moved, In
<1>5. CASE Fetch(d)
  BY <1>5 DEF Fetch, Moved, In
<1>6. CASE Expire(d)
  BY <1>6 DEF Expire, Expired, Moved, In
<1>7. CASE Glob(d)
  BY <1>7 DEF Glob, Words, In
<1>8. CASE OpenFile(d)
  <2>1. PICK c \in todo[d] :
          /\ file' = [file EXCEPT ![d] = c]
          /\ Go(d, IF place[c] = "current" THEN "files" ELSE "failed")
    BY <1>8 DEF OpenFile
  <2>2. c \in 0..NumCaptures
    <3>1. c \in Captures
      BY <2>1
    <3> QED
      BY <3>1 DEF Captures
  <2>3. file' \in [Dailies -> 0..NumCaptures]
    BY <2>1, <2>2
  <2> QED
    BY <1>8, <2>1, <2>3 DEF OpenFile
<1>9. CASE InsertFile(d)
  BY <1>9 DEF InsertFile
<1>10. CASE InsertPackets(d)
  BY <1>10 DEF InsertPackets
<1>11. CASE CommitLoad(d)
  <2>1. file[d] \in Captures
    BY <1>11 DEF CommitLoad
  <2>2. pcap_files' \in [week : FilesType, prev : FilesType]
    BY <1>11, <2>1 DEF CommitLoad, FilesType
  <2>3. dns_packets' \in [week : PacketsType, prev : PacketsType]
    BY <1>11, <2>1 DEF CommitLoad, PacketsType
  <2>4. loaded' \subseteq Captures /\ todo' \in [Dailies -> SUBSET Captures]
    BY <1>11, <2>1 DEF CommitLoad
  <2> QED
    BY <1>11, <2>2, <2>3, <2>4 DEF CommitLoad
<1>12. CASE Report(d)
  BY <1>12 DEF Report
<1>13. CASE FailDaily(d)
  BY <1>13 DEF FailDaily
<1> QED
  BY <1>1, <1>2, <1>3, <1>4, <1>5, <1>6, <1>7, <1>8, <1>9, <1>10, <1>11, <1>12, <1>13 DEF StepDaily

LEMMA Rotates ==
  ASSUME TypeOK, OneRotation, NEW w \in Weeklies, wpc[w] \notin {"off"} \cup Over,
         NEW label \in WeeklyLabels, GoW(w, label)
  PROVE  wpc' \in [Weeklies -> WeeklyLabels] /\ OneRotation'
<1>1. wpc' \in [Weeklies -> WeeklyLabels]
  BY DEF GoW, TypeOK
<1>2. ASSUME NEW u \in Weeklies, NEW v \in Weeklies, u < v, wpc'[v] # "off"
      PROVE  wpc'[u] \in Over
  BY <1>2 DEF GoW, TypeOK, OneRotation, Over, Weeklies
<1> QED
  BY <1>1, <1>2 DEF OneRotation

LEMMA TablesTypeStep ==
  ASSUME TablesType, NEW w \in Weeklies, StepWeekly(w)
  PROVE  TablesType'
<1> USE NewTables DEF TablesType, database
<1>1. CASE WritePid(w) \/ RemoveLock(w)
  BY <1>1 DEF WritePid, RemoveLock
<1>2. CASE DropPackets(w)
  BY <1>2 DEF DropPackets, Statement
<1>3. CASE RenamePackets(w)
  BY <1>3 DEF RenamePackets, Statement, Slots
<1>4. CASE DropFiles(w)
  BY <1>4 DEF DropFiles, Statement
<1>5. CASE RenameFiles(w)
  <2>1. ASSUME NEW p \in PacketsType PROVE Follow(p) \in PacketsType
    BY DEF Follow, PacketsType, Slots
  <2> QED
    BY <1>5, <2>1 DEF RenameFiles, Statement, Slots
<1>6. CASE CreateFiles(w)
  BY <1>6 DEF CreateFiles, Statement
<1>7. CASE CreatePackets(w)
  BY <1>7 DEF CreatePackets, Statement
<1> QED
  BY <1>1, <1>2, <1>3, <1>4, <1>5, <1>6, <1>7 DEF StepWeekly

(* What a step of weeklyrotate leaves alone, and where it goes.            *)
LEMMA StepWeeklyFrame ==
  ASSUME NEW w \in Weeklies, StepWeekly(w)
  PROVE  /\ UNCHANGED <<directories, daily, history>>
         /\ wpc[w] \in {"writePid", "sleep"} \cup Rotating
         /\ \E label \in {"sleep", "done"} \cup Rotating : GoW(w, label)
         /\ \/ UNCHANGED lock
            \/ WritePid(w)
            \/ RemoveLock(w)
         /\ disturbed' \in {disturbed, disturbed \cup {w}}
<1> USE DEF Rotating
<1>1. CASE WritePid(w) \/ RemoveLock(w)
  BY <1>1 DEF WritePid, RemoveLock
<1>2. CASE DropPackets(w) \/ RenamePackets(w)
  BY <1>2 DEF DropPackets, RenamePackets, Statement
<1>3. CASE DropFiles(w) \/ RenameFiles(w)
  BY <1>3 DEF DropFiles, RenameFiles, Statement
<1>4. CASE CreateFiles(w) \/ CreatePackets(w)
  BY <1>4 DEF CreateFiles, CreatePackets, Statement
<1> QED
  BY <1>1, <1>2, <1>3, <1>4 DEF StepWeekly

LEMMA WeeklyTypes ==
  ASSUME Base, NEW w \in Weeklies, StartWeekly(w) \/ StepWeekly(w) \/ FailWeekly(w)
  PROVE  Base'
<1> USE CronAssumption DEF Base
<1>1. CASE StartWeekly(w)
  <2>1. OneRotation'
    <3> SUFFICES ASSUME NEW u \in Weeklies, NEW v \in Weeklies, u < v, wpc'[v] # "off"
                 PROVE  wpc'[u] \in Over
      BY DEF OneRotation
    <3> QED
      BY <1>1 DEF StartWeekly, GoW, TypeOK, OneRotation, Over, Weeklies
  <2>2. wpc' \in [Weeklies -> WeeklyLabels]
    BY <1>1 DEF StartWeekly, GoW, TypeOK, WeeklyLabels
  <2>3. lock' \in [there : BOOLEAN, pid : 0..Weeks]
    BY <1>1 DEF StartWeekly
  <2> QED
    BY <1>1, <2>1, <2>2, <2>3
    DEF StartWeekly, TypeOK, NightsInOrder, LoopWord, directories, daily, database, history
<1>2. CASE StepWeekly(w)
  <2>1. TablesType'
    BY <1>2, TablesTypeStep DEF TypeOK, TablesType
  <2>2. wpc' \in [Weeklies -> WeeklyLabels] /\ OneRotation'
    BY <1>2, StepWeeklyFrame, Rotates DEF WeeklyLabels, Rotating, Over
  <2>3. lock' \in [there : BOOLEAN, pid : 0..Weeks]
    <3>1. w \in 0..Weeks
      BY DEF Weeklies
    <3>2. CASE UNCHANGED lock
      BY <3>2 DEF TypeOK
    <3>3. CASE WritePid(w)
      BY <3>1, <3>3 DEF TypeOK, WritePid
    <3>4. CASE RemoveLock(w)
      BY <3>4 DEF RemoveLock
    <3> QED
      BY <1>2, <3>2, <3>3, <3>4, StepWeeklyFrame
  <2> QED
    BY <1>2, <2>1, <2>2, <2>3, StepWeeklyFrame
    DEF TypeOK, TablesType, NightsInOrder, LoopWord, directories, daily, history
<1>3. CASE FailWeekly(w)
  <2>1. wpc' \in [Weeklies -> WeeklyLabels] /\ OneRotation'
    BY <1>3, Rotates DEF FailWeekly, WeeklyLabels, Over
  <2> QED
    BY <1>3, <2>1 DEF FailWeekly, TypeOK, NightsInOrder, LoopWord, directories, daily, database, history
<1> QED
  BY <1>1, <1>2, <1>3

LEMMA BaseStep ==
  ASSUME Base, [Next]_vars
  PROVE  Base'
<1>1. ASSUME NEW c \in Captures, Arrive(c)
      PROVE  Base'
  <2>1. born' \in [Captures -> 0..Nights]
    BY <1>1 DEF Arrive, Base, TypeOK
  <2>2. place' \in [Captures -> {"coming", "dump", "current", "backup", "gone"}]
    BY <1>1 DEF Arrive, Base, TypeOK
  <2> QED
    BY <1>1, <2>1, <2>2
    DEF Base, Arrive, daily, weekly, database, history, TypeOK, NightsInOrder, OneRotation, LoopWord
<1>2. CASE UNCHANGED vars
  BY <1>2
  DEF vars, directories, daily, weekly, database, history, Base, TypeOK, NightsInOrder, OneRotation, LoopWord
<1> QED
  BY <1>1, <1>2, DailyTypes, WeeklyTypes DEF Next

(* For any number of captures, nights and weeks, and in every scenario,    *)
(* the variables stay in their types.                                      *)
THEOREM TypeCorrect == Spec => []TypeOK
<1>1. Base => TypeOK
  BY DEF Base
<1> QED
  BY <1>1, BaseInit, BaseStep, PTL DEF Spec

---------------------------------------------------------------------------
(* The lock.                                                               *)

Turning == {"writePid", "sleep"} \cup Rotating
Busy    == {"away", "fetch", "expire", "glob", "open"} \cup AtWork

(* While a rotation is under way each dailyreport is over, or has not read *)
(* the lock yet, or waits behind it.                                       *)
RotationLocked ==
  "late" \notin faults =>
    \A w \in Weeklies : wpc[w] \in Turning =>
      /\ lock.there /\ lock.pid \in {0, w}
      /\ \A d \in Dailies : dpc[d] \notin Busy /\ (dpc[d] = "wait" => pid[d] \in {0, w})

(* What a step of dailyreport leaves alone.                                *)
LEMMA StepDailyFrame ==
  ASSUME NEW d \in Dailies, StepDaily(d)
  PROVE  /\ UNCHANGED <<faults, born, night, weekly, view>>
         /\ \/ CheckLock(d)
            \/ EndWait(d)
            \/ UNCHANGED pid /\ dpc[d] \in Busy
         /\ \E label \in {"wait"} \cup Busy \cup Over : Go(d, label)
<1> USE DEF Busy, AtWork, Over, directories, daily, weekly, database, history
<1>1. CASE CheckLock(d) \/ EndWait(d)
  BY <1>1 DEF CheckLock, EndWait
<1>2. CASE MoveAway(d) \/ Fetch(d) \/ Expire(d)
  BY <1>2 DEF MoveAway, Fetch, Expire
<1>3. CASE Glob(d) \/ OpenFile(d) \/ InsertFile(d) \/ InsertPackets(d)
  BY <1>3 DEF Glob, OpenFile, InsertFile, InsertPackets
<1>4. CASE CommitLoad(d) \/ Report(d)
  BY <1>4 DEF CommitLoad, Report
<1> QED
  BY <1>1, <1>2, <1>3, <1>4 DEF StepDaily

(* No two rotations at once.                                               *)
LEMMA OneTurning ==
  ASSUME Base, NEW v \in Weeklies, NEW w \in Weeklies,
         wpc[v] \in Turning, wpc[w] \notin {"off"} \cup Over
  PROVE  v = w
<1>1. wpc[v] \notin {"off"} \cup Over
  BY DEF Turning, Rotating, Over
<1>2. v < w \/ w < v \/ v = w
  BY CronAssumption DEF Weeklies
<1> QED
  BY <1>1, <1>2 DEF Base, OneRotation

(* A rotation under way behind a step of weeklyrotate is the one that made *)
(* the step.                                                               *)
LEMMA OnlyTurning ==
  ASSUME Base, NEW v \in Weeklies, NEW w \in Weeklies,
         StartWeekly(v) \/ StepWeekly(v) \/ FailWeekly(v), wpc'[w] \in Turning
  PROVE  v = w
<1>1. v # w => wpc'[w] = wpc[w]
  BY StepWeeklyFrame DEF StartWeekly, FailWeekly, GoW, Base, TypeOK
<1>2. CASE StartWeekly(v)
  <2>1. \A u \in Weeklies : u < v => wpc[u] \in Over
    BY <1>2 DEF StartWeekly
  <2>2. \A u \in Weeklies : v < u => wpc[u] = "off"
    BY <1>2 DEF StartWeekly, Base, OneRotation, Over
  <2>3. v # w => wpc[w] \in {"off"} \cup Over
    BY <2>1, <2>2, CronAssumption DEF Weeklies
  <2> QED
    BY <1>1, <2>3 DEF Turning, Rotating, Over
<1>3. CASE StepWeekly(v) \/ FailWeekly(v)
  <2>1. wpc[v] \notin {"off"} \cup Over
    BY <1>3, StepWeeklyFrame DEF FailWeekly, Rotating, Over
  <2>2. wpc[w] \in Turning \/ v = w
    BY <1>1
  <2> QED
    BY <2>1, <2>2, OneTurning
<1> QED
  BY <1>2, <1>3

LEMMA LockedInit == Init => RotationLocked
  BY DEF Init, RotationLocked, Turning, Rotating

LEMMA LockedStep ==
  ASSUME Base, RotationLocked, [Next]_vars
  PROVE  RotationLocked'
<1> SUFFICES ASSUME "late" \notin faults', NEW w \in Weeklies, wpc'[w] \in Turning
             PROVE  /\ lock'.there /\ lock'.pid \in {0, w}
                    /\ \A d \in Dailies : /\ dpc'[d] \notin Busy
                                          /\ dpc'[d] = "wait" => pid'[d] \in {0, w}
  BY DEF RotationLocked
<1>1. ASSUME NEW c \in Captures, Arrive(c)
      PROVE  /\ lock'.there /\ lock'.pid \in {0, w}
             /\ \A d \in Dailies : /\ dpc'[d] \notin Busy
                                   /\ dpc'[d] = "wait" => pid'[d] \in {0, w}
  BY <1>1 DEF Arrive, daily, weekly, RotationLocked
<1>2. ASSUME NEW d \in Dailies, StartDaily(d) \/ StepDaily(d) \/ FailDaily(d)
      PROVE  /\ lock'.there /\ lock'.pid \in {0, w}
             /\ \A e \in Dailies : /\ dpc'[e] \notin Busy
                                   /\ dpc'[e] = "wait" => pid'[e] \in {0, w}
  <2>1. UNCHANGED <<faults, weekly>>
    BY <1>2, StepDailyFrame DEF StartDaily, FailDaily, directories
  <2>2. /\ lock'.there /\ lock'.pid \in {0, w}
        /\ \A e \in Dailies : dpc[e] \notin Busy /\ (dpc[e] = "wait" => pid[e] \in {0, w})
    BY <2>1 DEF RotationLocked, weekly
  <2>3. ~EndWait(d)
    <3>1. wpc[w] \notin {"off"} \cup Over
      BY <2>1 DEF weekly, Turning, Rotating, Over
    <3> QED
      BY <2>2, <3>1 DEF EndWait, Alive
  <2>4. CASE StartDaily(d)
    BY <2>2, <2>4 DEF StartDaily, Go, Busy, AtWork, Base, TypeOK
  <2>5. CASE FailDaily(d)
    BY <2>2, <2>5 DEF FailDaily, daily, Go, Busy, AtWork, Base, TypeOK
  <2>6. CASE CheckLock(d)
    BY <2>1, <2>2, <2>6 DEF CheckLock, weekly, Go, Busy, AtWork, Base, TypeOK
  <2> QED
    BY <1>2, <2>2, <2>3, <2>4, <2>5, <2>6, StepDailyFrame
<1>3. ASSUME NEW v \in Weeklies, StartWeekly(v)
      PROVE  /\ lock'.there /\ lock'.pid \in {0, w}
             /\ \A d \in Dailies : /\ dpc'[d] \notin Busy
                                   /\ dpc'[d] = "wait" => pid'[d] \in {0, w}
  <2>1. v = w
    BY <1>3, OnlyTurning
  <2>2. DailiesOver
    BY <1>3 DEF StartWeekly, directories
  <2> QED
    BY <1>3, <2>2 DEF StartWeekly, daily, DailiesOver, Busy, AtWork, Over
<1>4. ASSUME NEW v \in Weeklies, StepWeekly(v) \/ FailWeekly(v)
      PROVE  /\ lock'.there /\ lock'.pid \in {0, w}
             /\ \A d \in Dailies : /\ dpc'[d] \notin Busy
                                   /\ dpc'[d] = "wait" => pid'[d] \in {0, w}
  <2>1. UNCHANGED <<faults, daily>>
    BY <1>4, StepWeeklyFrame DEF FailWeekly, directories
  <2>2. wpc[v] \notin {"off"} \cup Over
    BY <1>4, StepWeeklyFrame DEF FailWeekly, Rotating, Over
  <2>3. v = w
    BY <1>4, OnlyTurning
  <2>4. wpc[w] \in Turning
    BY <2>2, <2>3 DEF Base, TypeOK, WeeklyLabels, Turning
  <2>5. ~RemoveLock(v) /\ ~FailWeekly(v)
    BY <2>3 DEF RemoveLock, FailWeekly, GoW, Turning, Rotating, Base, TypeOK
  <2>6. lock'.there /\ lock'.pid \in {0, w}
    <3>1. lock.there /\ lock.pid \in {0, w} /\ lock \in [there : BOOLEAN, pid : 0..Weeks]
      BY <2>1, <2>4 DEF RotationLocked, Base, TypeOK
    <3>2. CASE WritePid(v)
      BY <2>3, <3>1, <3>2 DEF WritePid
    <3> QED
      BY <1>4, <2>5, <3>1, <3>2, StepWeeklyFrame
  <2> QED
    BY <2>1, <2>4, <2>6 DEF RotationLocked, daily
<1>5. CASE UNCHANGED vars
  BY <1>5 DEF vars, directories, daily, weekly, RotationLocked
<1> QED
  BY <1>1, <1>2, <1>3, <1>4, <1>5 DEF Next

(* Whatever fails, and however many nights and weeks pass: when each       *)
(* dailyreport is over before weeklyrotate starts, the lock keeps loads    *)
(* and reports out of the rotation.                                        *)
THEOREM LockExcludes == Spec => []LoadsUndisturbed
<1>1. Base /\ RotationLocked => LoadsUndisturbed
  BY DEF RotationLocked, LoadsUndisturbed, Turning, Busy
<1> QED
  BY <1>1, BaseInit, BaseStep, LockedInit, LockedStep, PTL DEF Spec

---------------------------------------------------------------------------
(* WeekStore: no capture is loaded twice in a week, and in two weeks only  *)
(* where mv failed, or a dailyreport was late and overlapped.              *)

Fetched == {"current", "backup", "gone"}
Past    == {"fetch", "expire", "glob", "open"} \cup AtWork

(* A table that is not there has no rows, and a load in progress keeps the *)
(* tables it has written from being renamed.                               *)
AbsentEmpty ==
  /\ ~pcap_files.week.there => pcap_files.week.rows = {}
  /\ ~pcap_files.prev.there => pcap_files.prev.rows = {}
  /\ ~dns_packets.week.there => dns_packets.week.rows = {}
  /\ ~dns_packets.prev.there => dns_packets.prev.rows = {}

LoadingTables ==
  \A d \in Dailies : /\ dpc[d] \in Loading => pcap_files.week.there
                     /\ dpc[d] = "commit" => dns_packets.week.there

(* The words of a loop, and the captures loaded, were fetched from dump,   *)
(* and never return.                                                       *)
WordsFetched ==
  /\ \A d \in Dailies : \A c \in todo[d] : place[c] \in Fetched
  /\ \A d \in Dailies : dpc[d] \in {"away", "fetch", "expire", "glob"} => todo[d] = {}
  /\ \A d \in Dailies : dpc[d] \in {"off", "lock", "wait"} => todo[d] = {}
  /\ \A c \in loaded : place[c] \in Fetched

OneDaily ==
  "overlap" \notin faults => \A d, e \in Dailies :
    dpc[d] \notin {"off"} \cup Over /\ dpc[e] \notin {"off"} \cup Over => d = e

(* Where each is loaded once, and what the UNIQUE name is needed for: a    *)
(* capture that is loaded and still may be a word of a loop has its row in *)
(* this week's table, when dailyreports may overlap; when they do not,     *)
(* there is none.                                                          *)
Once == ~Again
Held    == IF "late" \notin faults THEN pcap_files.week.rows ELSE {}

WordsHeld ==
  Once => \A d \in Dailies : dpc[d] \in Past =>
    /\ todo[d] \cap loaded \subseteq Held
    /\ dpc[d] \in {"fetch", "expire", "glob"} =>
         \A c \in loaded : place[c] = "current" => c \in Held

LoadsDiffer ==
  /\ \A d, e \in Dailies : /\ d # e
                           /\ dpc[d] \in Loading /\ dpc[e] \in Loading
                           => file[d] # file[e]
  /\ \A d \in Dailies : dpc[d] \in Loading => file[d] \notin pcap_files.week.rows
  /\ Once => \A d \in Dailies : dpc[d] \in Loading => file[d] \notin loaded

LEMMA CommitLoadEffect ==
  ASSUME TypeOK, NEW d \in Dailies, CommitLoad(d)
  PROVE  /\ pcap_files'.week = [there |-> pcap_files.week.there,
                                rows |-> pcap_files.week.rows \cup {file[d]}]
         /\ pcap_files'.prev = pcap_files.prev
         /\ dns_packets'.week = [there |-> dns_packets.week.there,
                                 rows |-> dns_packets.week.rows \cup {file[d]},
                                 refs |-> dns_packets.week.refs]
         /\ dns_packets'.prev = dns_packets.prev
  BY DEF CommitLoad, TypeOK, FilesType, PacketsType

(* Only CommitLoad, of the steps of dailyreport, changes the database.     *)
LEMMA DailyTables ==
  ASSUME NEW d \in Dailies, StartDaily(d) \/ StepDaily(d) \/ FailDaily(d)
  PROVE  UNCHANGED <<database, loaded>> \/ CommitLoad(d)
  BY DEF StartDaily, FailDaily, StepDaily, CheckLock, EndWait, MoveAway, Fetch, Expire, Glob,
         OpenFile, InsertFile, InsertPackets, Report, history

LEMMA TablesStep ==
  ASSUME Base, AbsentEmpty, LoadingTables, NEW w \in Weeklies, StepWeekly(w)
  PROVE  AbsentEmpty' /\ LoadingTables'
<1> USE DEF AbsentEmpty, LoadingTables, Base, TypeOK, NoFiles, NewFiles, NoPackets, NewPackets,
            database, daily
<1>1. CASE WritePid(w) \/ RemoveLock(w)
  BY <1>1 DEF WritePid, RemoveLock
<1>2. CASE DropPackets(w)
  BY <1>2 DEF DropPackets, Statement, history
<1>3. CASE RenamePackets(w)
  BY <1>3 DEF RenamePackets, Statement, PacketsInUse
<1>4. CASE DropFiles(w)
  BY <1>4 DEF DropFiles, Statement
<1>5. CASE RenameFiles(w)
  <2>1. CASE UNCHANGED pcap_files /\ UNCHANGED dns_packets
    BY <1>5, <2>1 DEF RenameFiles, Statement
  <2>2. CASE /\ pcap_files' = [week |-> NoFiles, prev |-> pcap_files.week]
             /\ dns_packets' = [s \in Slots |-> Follow(dns_packets[s])]
    <3>1. ASSUME NEW p \in PacketsType
          PROVE  Follow(p).there = p.there /\ Follow(p).rows = p.rows
      BY DEF Follow, PacketsType
    <3>2. \A s \in Slots : dns_packets'[s].there = dns_packets[s].there
                          /\ dns_packets'[s].rows = dns_packets[s].rows
      BY <2>2, <3>1 DEF Slots
    <3>3. \A d \in Dailies : dpc'[d] \notin Loading
      BY <1>5 DEF RenameFiles, Statement, FilesInUse
    <3> QED
      BY <2>2, <3>2, <3>3 DEF Slots, Loading
  <2> QED
    BY <1>5, <2>1, <2>2 DEF RenameFiles, Statement
<1>6. CASE CreateFiles(w)
  BY <1>6 DEF CreateFiles, Statement
<1>7. CASE CreatePackets(w)
  BY <1>7 DEF CreatePackets, Statement
<1> QED
  BY <1>1, <1>2, <1>3, <1>4, <1>5, <1>6, <1>7 DEF StepWeekly

LEMMA TablesDaily ==
  ASSUME Base, AbsentEmpty, LoadingTables, NEW d \in Dailies,
         StartDaily(d) \/ StepDaily(d) \/ FailDaily(d)
  PROVE  AbsentEmpty' /\ LoadingTables'
<1>1. CASE CommitLoad(d)
  <2>1. dpc[d] = "commit"
    BY <1>1 DEF CommitLoad
  <2>2. pcap_files.week.there /\ dns_packets.week.there
    BY <2>1 DEF LoadingTables, Loading
  <2>3. /\ pcap_files'.week.there /\ dns_packets'.week.there
        /\ pcap_files'.prev = pcap_files.prev /\ dns_packets'.prev = dns_packets.prev
    <3>1. TypeOK
      BY DEF Base
    <3>2. /\ pcap_files'.week = [there |-> pcap_files.week.there,
                                 rows |-> pcap_files.week.rows \cup {file[d]}]
          /\ dns_packets'.week = [there |-> dns_packets.week.there,
                                  rows |-> dns_packets.week.rows \cup {file[d]},
                                  refs |-> dns_packets.week.refs]
          /\ pcap_files'.prev = pcap_files.prev /\ dns_packets'.prev = dns_packets.prev
      BY <1>1, <3>1, CommitLoadEffect
    <3> QED
      BY <2>2, <3>2
  <2> QED
    BY <2>3 DEF AbsentEmpty, LoadingTables
<1>2. CASE UNCHANGED database
  <2>1. AbsentEmpty'
    BY <1>2 DEF AbsentEmpty, database
  <2>2. ASSUME dpc'[d] \in Loading
        PROVE  /\ pcap_files.week.there
               /\ dpc'[d] = "commit" => dns_packets.week.there
    <3> USE <2>2 DEF Go, Loading, Base, TypeOK
    <3>1. ~StartDaily(d) /\ ~FailDaily(d) /\ ~CheckLock(d) /\ ~EndWait(d)
      BY DEF StartDaily, FailDaily, CheckLock, EndWait
    <3>2. ~MoveAway(d) /\ ~Fetch(d) /\ ~Expire(d) /\ ~Glob(d)
      BY DEF MoveAway, Fetch, Expire, Glob
    <3>3. ~OpenFile(d) /\ ~CommitLoad(d) /\ ~Report(d)
      BY DEF OpenFile, CommitLoad, Report
    <3>4. CASE InsertFile(d)
      BY <3>4 DEF InsertFile
    <3>5. CASE InsertPackets(d)
      BY <3>5 DEF InsertPackets, MayAccept, LoadingTables
    <3> QED
      BY <3>1, <3>2, <3>3, <3>4, <3>5 DEF StepDaily
  <2>3. \A e \in Dailies : e # d => dpc'[e] = dpc[e]
    BY StepDailyFrame DEF StartDaily, FailDaily, Go, Base, TypeOK
  <2> QED
    BY <1>2, <2>1, <2>2, <2>3 DEF LoadingTables, Loading, database
<1> QED
  BY <1>1, <1>2, DailyTables

LEMMA TablesInit == Init => AbsentEmpty /\ LoadingTables
  BY DEF Init, AbsentEmpty, LoadingTables, Loading, NewFiles, NoFiles, NewPackets, NoPackets

LEMMA TablesNext ==
  ASSUME Base, AbsentEmpty, LoadingTables, [Next]_vars
  PROVE  AbsentEmpty' /\ LoadingTables'
<1>1. ASSUME NEW c \in Captures, Arrive(c)
      PROVE  AbsentEmpty' /\ LoadingTables'
  BY <1>1 DEF Arrive, daily, database, AbsentEmpty, LoadingTables
<1>2. ASSUME NEW w \in Weeklies, StartWeekly(w) \/ FailWeekly(w)
      PROVE  AbsentEmpty' /\ LoadingTables'
  BY <1>2 DEF StartWeekly, FailWeekly, daily, database, AbsentEmpty, LoadingTables
<1>3. CASE UNCHANGED vars
  BY <1>3 DEF vars, daily, database, AbsentEmpty, LoadingTables
<1> QED
  BY <1>1, <1>2, <1>3, TablesStep, TablesDaily DEF Next

(* Where a step of dailyreport moves captures.                             *)
LEMMA PlacesDaily ==
  ASSUME NEW d \in Dailies, StartDaily(d) \/ StepDaily(d) \/ FailDaily(d)
  PROVE  MoveAway(d) \/ Fetch(d) \/ Expire(d) \/ UNCHANGED place
  BY DEF StartDaily, FailDaily, StepDaily, CheckLock, EndWait, Glob, OpenFile, InsertFile,
         InsertPackets, CommitLoad, Report, directories

LEMMA FetchedStays ==
  ASSUME Base, [Next]_vars, NEW c \in Captures, place[c] \in Fetched
  PROVE  place'[c] \in Fetched
<1> USE DEF Fetched
<1>1. ASSUME NEW b \in Captures, Arrive(b)
      PROVE  place'[c] \in Fetched
  BY <1>1 DEF Arrive, Base, TypeOK
<1>2. ASSUME NEW d \in Dailies, MoveAway(d) \/ Fetch(d) \/ Expire(d)
      PROVE  place'[c] \in Fetched
  BY <1>2 DEF MoveAway, MovedAway, Fetch, Expire, Expired, Moved, In
<1>3. CASE UNCHANGED place
  BY <1>3
<1>4. ASSUME NEW w \in Weeklies, StartWeekly(w) \/ StepWeekly(w) \/ FailWeekly(w)
      PROVE  UNCHANGED place
  BY <1>4, StepWeeklyFrame DEF StartWeekly, FailWeekly, directories
<1> QED
  BY <1>1, <1>2, <1>3, <1>4, PlacesDaily DEF Next, vars, directories

(* What a step of dailyreport makes of the words.                          *)
LEMMA WordsDaily ==
  ASSUME Base, NEW d \in Dailies, StartDaily(d) \/ StepDaily(d) \/ FailDaily(d)
  PROVE  \/ UNCHANGED todo
         \/ Glob(d) /\ todo' = [todo EXCEPT ![d] = Words] /\ UNCHANGED place
         \/ CommitLoad(d) /\ todo' = [todo EXCEPT ![d] = todo[d] \ {file[d]}]
  BY DEF StartDaily, FailDaily, StepDaily, CheckLock, EndWait, MoveAway, Fetch, Expire, Glob,
         OpenFile, InsertFile, InsertPackets, CommitLoad, Report, directories, daily

LEMMA WordsInit == Init => WordsFetched /\ OneDaily /\ WordsHeld /\ LoadsDiffer
  BY DEF Init, WordsFetched, OneDaily, WordsHeld, Past, AtWork, LoadsDiffer, Loading

LEMMA WordsFetchedStep ==
  ASSUME Base, WordsFetched, [Next]_vars
  PROVE  WordsFetched'
<1>1. ASSUME NEW c \in Captures, Arrive(c)
      PROVE  UNCHANGED <<daily, loaded>>
  BY <1>1 DEF Arrive, history
<1>2. ASSUME NEW w \in Weeklies, StartWeekly(w) \/ StepWeekly(w) \/ FailWeekly(w)
      PROVE  UNCHANGED <<daily, loaded>>
  BY <1>2, StepWeeklyFrame DEF StartWeekly, FailWeekly, history
<1>3. CASE UNCHANGED <<daily, loaded>>
  BY <1>3, FetchedStays DEF daily, WordsFetched, Base, TypeOK
<1>4. ASSUME NEW d \in Dailies, StartDaily(d) \/ StepDaily(d) \/ FailDaily(d)
      PROVE  WordsFetched'
  <2>1. \A e \in Dailies : \A c \in todo'[e] : place'[c] \in Fetched
    <3> SUFFICES ASSUME NEW e \in Dailies, NEW c \in todo'[e]
                 PROVE  place'[c] \in Fetched
      OBVIOUS
    <3>1. c \in todo[e] \/ (Glob(d) /\ c \in Words /\ UNCHANGED place)
      BY <1>4, WordsDaily DEF Base, TypeOK
    <3>2. CASE c \in todo[e]
      BY <1>4, <3>2, FetchedStays DEF WordsFetched, Base, TypeOK, Next
    <3> QED
      BY <3>1, <3>2 DEF Words, In, Fetched
  <2>2. \A e \in Dailies : e # d => dpc'[e] = dpc[e] /\ todo'[e] = todo[e]
    BY <1>4, StepDailyFrame, WordsDaily DEF StartDaily, FailDaily, Go, Base, TypeOK
  <2>3. dpc'[d] \in {"off", "lock", "wait", "away", "fetch", "expire", "glob"} => todo'[d] = {}
    <3> USE DEF Base, TypeOK, Go
    <3>1. CASE StartDaily(d)
      <4>1. dpc[d] = "off"
        BY <3>1, CronAssumption DEF StartDaily, NightsInOrder
      <4> QED
        BY <3>1, <4>1 DEF StartDaily, WordsFetched
    <3>2. CASE FailDaily(d)
      BY <3>2 DEF FailDaily
    <3>3. CASE CheckLock(d) \/ EndWait(d)
      BY <3>3 DEF CheckLock, EndWait, WordsFetched
    <3>4. CASE MoveAway(d) \/ Fetch(d) \/ Expire(d)
      BY <3>4 DEF MoveAway, Fetch, Expire, WordsFetched
    <3>5. CASE Glob(d) \/ OpenFile(d) \/ InsertFile(d)
      BY <3>5 DEF Glob, OpenFile, InsertFile
    <3>6. CASE InsertPackets(d) \/ CommitLoad(d) \/ Report(d)
      BY <3>6 DEF InsertPackets, CommitLoad, Report
    <3> QED
      BY <1>4, <3>1, <3>2, <3>3, <3>4, <3>5, <3>6 DEF StepDaily
  <2>4. \A c \in loaded' : place'[c] \in Fetched
    <3>1. CASE UNCHANGED loaded
      BY <1>4, <3>1, FetchedStays DEF WordsFetched, Base, TypeOK, Next
    <3>2. CASE CommitLoad(d)
      <4>1. loaded' = loaded \cup {file[d]} /\ UNCHANGED place /\ file[d] \in todo[d]
        BY <3>2 DEF CommitLoad, directories, Base, LoopWord, Loading
      <4> QED
        BY <4>1 DEF WordsFetched
    <3> QED
      BY <1>4, <3>1, <3>2, DailyTables
  <2> QED
    BY <2>1, <2>2, <2>3, <2>4 DEF WordsFetched
<1> QED
  BY <1>1, <1>2, <1>3, <1>4 DEF Next, vars, history

LEMMA OneDailyStep ==
  ASSUME Base, OneDaily, [Next]_vars
  PROVE  OneDaily'
<1>1. ASSUME NEW d \in Dailies, StepDaily(d) \/ FailDaily(d)
      PROVE  OneDaily'
  <2>1. dpc[d] \notin {"off"} \cup Over
    BY <1>1, StepDailyFrame DEF FailDaily, CheckLock, EndWait, Busy, AtWork, Over
  <2>2. \A e \in Dailies : e # d => dpc'[e] = dpc[e]
    BY <1>1, StepDailyFrame DEF FailDaily, Go, Base, TypeOK
  <2>3. UNCHANGED faults
    BY <1>1, StepDailyFrame DEF FailDaily, directories
  <2> QED
    BY <2>1, <2>2, <2>3 DEF OneDaily
<1>2. ASSUME NEW d \in Dailies, StartDaily(d)
      PROVE  OneDaily'
  BY <1>2 DEF StartDaily, Go, directories, OneDaily, Base, TypeOK
<1>3. ASSUME NEW w \in Weeklies, StartWeekly(w) \/ StepWeekly(w) \/ FailWeekly(w)
      PROVE  UNCHANGED <<faults, dpc>>
  BY <1>3, StepWeeklyFrame DEF StartWeekly, FailWeekly, directories, daily
<1>4. ASSUME NEW c \in Captures, Arrive(c)
      PROVE  UNCHANGED <<faults, dpc>>
  BY <1>4 DEF Arrive, daily
<1>5. CASE UNCHANGED <<faults, dpc>>
  BY <1>5 DEF OneDaily
<1> QED
  BY <1>1, <1>2, <1>3, <1>4, <1>5 DEF Next, vars, directories, daily

(* A step of weeklyrotate while a dailyreport is at work takes no rows     *)
(* from under it, unless the dailyreport is late.                          *)
LEMMA HeldKept ==
  ASSUME Base, RotationLocked, NEW w \in Weeklies,
         StartWeekly(w) \/ StepWeekly(w) \/ FailWeekly(w), NEW d \in Dailies, dpc[d] \in Past
  PROVE  Held' = Held
<1>1. UNCHANGED faults
  BY StepWeeklyFrame DEF StartWeekly, FailWeekly, directories
<1>2. CASE "late" \in faults
  BY <1>1, <1>2 DEF Held
<1>3. CASE StepWeekly(w) /\ "late" \notin faults
  <2>1. wpc[w] \in Turning
    BY <1>3, StepWeeklyFrame DEF Turning
  <2>2. dpc[d] \in Busy
    BY DEF Past, Busy
  <2> QED
    BY <1>3, <2>1, <2>2 DEF RotationLocked
<1>4. CASE StartWeekly(w) \/ FailWeekly(w)
  BY <1>1, <1>4 DEF StartWeekly, FailWeekly, database, Held
<1> QED
  BY <1>2, <1>3, <1>4

LEMMA WordsHeldDaily ==
  ASSUME Base, WordsFetched, OneDaily, WordsHeld, NEW d \in Dailies,
         StartDaily(d) \/ StepDaily(d) \/ FailDaily(d)
  PROVE  WordsHeld'
<1>1. UNCHANGED faults
  BY StepDailyFrame DEF StartDaily, FailDaily, directories
<1> SUFFICES ASSUME Once, NEW e \in Dailies, dpc'[e] \in Past
             PROVE  /\ todo'[e] \cap loaded' \subseteq Held'
                    /\ dpc'[e] \in {"fetch", "expire", "glob"} =>
                         \A c \in loaded' : place'[c] = "current" => c \in Held'
  BY <1>1 DEF WordsHeld, Once, Again, TooSlow
<1>2. e # d => dpc'[e] = dpc[e] /\ todo'[e] = todo[e]
  BY StepDailyFrame, WordsDaily DEF StartDaily, FailDaily, Go, Base, TypeOK
<1>3. e # d => "overlap" \in faults
  <2>1. CASE StepDaily(d) \/ FailDaily(d)
    <3>1. dpc[d] \notin {"off"} \cup Over
      BY <2>1, StepDailyFrame DEF FailDaily, CheckLock, EndWait, Busy, AtWork, Over
    <3> QED
      BY <1>2, <3>1 DEF OneDaily, Past, AtWork, Over
  <2>2. CASE StartDaily(d)
    BY <1>2, <2>2 DEF StartDaily, Past, AtWork, Over
  <2> QED
    BY <2>1, <2>2
<1>4. CASE UNCHANGED <<database, loaded>> /\ ~CommitLoad(d)
  <2>1. Held' = Held
    BY <1>1, <1>4 DEF Held, database
  <2>2. CASE e # d
    <3>1. \A c \in loaded : place'[c] = "current" => place[c] = "current"
      <4>1. \A c \in loaded : place[c] \in Fetched /\ c \in Captures
        BY DEF WordsFetched, Base, TypeOK
      <4>2. CASE MoveAway(d) \/ Fetch(d) \/ Expire(d)
        BY <4>1, <4>2 DEF MoveAway, MovedAway, Fetch, Expire, Expired, Moved, In, Fetched
      <4> QED
        BY <4>1, <4>2, PlacesDaily
    <3> QED
      BY <1>2, <1>4, <2>1, <2>2, <3>1 DEF WordsHeld
  <2>3. CASE e = d
    <3> USE DEF Base, TypeOK, Go
    <3>1. ~StartDaily(d) /\ ~FailDaily(d) /\ ~CheckLock(d) /\ ~EndWait(d) /\ ~CommitLoad(d)
      BY <1>4, <2>3 DEF StartDaily, FailDaily, CheckLock, EndWait, Past, AtWork, Over
    <3>2. CASE MoveAway(d)
      <4>1. dpc'[d] = "fetch" /\ todo'[d] = {}
        BY <3>2 DEF MoveAway, WordsFetched
      <4>2. \A c \in loaded : place'[c] # "current"
        BY <3>2 DEF MoveAway, MovedAway, Moved, In, Once, Again, TooSlow
      <4> QED
        BY <1>4, <2>3, <4>1, <4>2
    <3>3. CASE Fetch(d)
      <4>1. dpc[d] = "fetch" /\ todo'[d] = {}
        BY <3>3 DEF Fetch, WordsFetched
      <4>2. \A c \in loaded : place'[c] = "current" => place[c] = "current"
        BY <3>3 DEF Fetch, Moved, In, WordsFetched, Fetched
      <4> QED
        BY <1>4, <2>1, <2>3, <4>1, <4>2 DEF WordsHeld, Past
    <3>4. CASE Expire(d)
      <4>1. dpc[d] = "expire" /\ todo'[d] = {}
        BY <3>4 DEF Expire, WordsFetched
      <4>2. \A c \in loaded : place'[c] = "current" => place[c] = "current"
        BY <3>4 DEF Expire, Expired, Moved, In
      <4> QED
        BY <1>4, <2>1, <2>3, <4>1, <4>2 DEF WordsHeld, Past
    <3>5. CASE Glob(d)
      <4>1. dpc[d] = "glob" /\ dpc'[d] # "glob" /\ dpc'[d] # "expire" /\ dpc'[d] # "fetch"
        BY <3>5 DEF Glob
      <4>2. todo'[d] = Words
        BY <3>5 DEF Glob
      <4> QED
        BY <1>4, <2>1, <2>3, <4>1, <4>2 DEF WordsHeld, Past, Words, In
    <3>6. CASE OpenFile(d) \/ InsertFile(d)
      <4>1. /\ dpc[d] \in Past /\ todo'[d] = todo[d]
            /\ dpc'[d] \notin {"fetch", "expire", "glob"}
        BY <3>6 DEF OpenFile, InsertFile, Past, AtWork
      <4> QED
        BY <1>4, <2>1, <2>3, <4>1 DEF WordsHeld
    <3>7. CASE InsertPackets(d) \/ Report(d)
      <4>1. /\ dpc[d] \in Past /\ todo'[d] = todo[d]
            /\ dpc'[d] \notin {"fetch", "expire", "glob"}
        BY <3>7 DEF InsertPackets, Report, Past, AtWork
      <4> QED
        BY <1>4, <2>1, <2>3, <4>1 DEF WordsHeld
    <3> QED
      BY <3>1, <3>2, <3>3, <3>4, <3>5, <3>6, <3>7 DEF StepDaily
  <2> QED
    BY <2>2, <2>3
<1>5. CASE CommitLoad(d)
  <2>1. /\ loaded' = loaded \cup {file[d]} /\ UNCHANGED place
        /\ todo'[d] = todo[d] \ {file[d]}
        /\ dpc[d] \in Past /\ dpc'[d] \notin {"fetch", "expire", "glob"}
    BY <1>5 DEF CommitLoad, directories, Go, Base, TypeOK, Past, AtWork
  <2>2. Held \subseteq Held' /\ ("late" \notin faults => file[d] \in Held')
    <3>1. TypeOK
      BY DEF Base
    <3>2. pcap_files'.week = [there |-> pcap_files.week.there,
                              rows |-> pcap_files.week.rows \cup {file[d]}]
      BY <1>5, <3>1, CommitLoadEffect
    <3> QED
      BY <1>1, <3>2 DEF Held
  <2>3. CASE e = d
    BY <2>1, <2>2, <2>3 DEF WordsHeld
  <2>4. CASE e # d
    <3>1. "late" \notin faults
      BY <1>3, <2>4 DEF Once, Again, TooSlow
    <3> QED
      BY <1>2, <2>1, <2>2, <2>4, <3>1 DEF WordsHeld
  <2> QED
    BY <2>3, <2>4
<1> QED
  BY <1>4, <1>5, DailyTables

LEMMA WordsHeldStep ==
  ASSUME Base, RotationLocked, WordsFetched, OneDaily, WordsHeld, [Next]_vars
  PROVE  WordsHeld'
<1>1. ASSUME NEW c \in Captures, Arrive(c)
      PROVE  WordsHeld'
  <2>1. UNCHANGED <<faults, daily, database, loaded>>
    BY <1>1 DEF Arrive, history
  <2>2. \A b \in Captures : place'[b] = "current" => place[b] = "current"
    BY <1>1 DEF Arrive, Base, TypeOK
  <2> QED
    BY <2>1, <2>2 DEF WordsHeld, Once, Again, TooSlow, Held, daily, database, Base, TypeOK
<1>2. ASSUME NEW w \in Weeklies, StartWeekly(w) \/ StepWeekly(w) \/ FailWeekly(w)
      PROVE  WordsHeld'
  <2>1. UNCHANGED <<directories, daily, loaded>>
    BY <1>2, StepWeeklyFrame DEF StartWeekly, FailWeekly, history
  <2>2. \A d \in Dailies : dpc[d] \in Past => Held' = Held
    BY <1>2, HeldKept
  <2> QED
    BY <2>1, <2>2 DEF WordsHeld, Once, Again, TooSlow, directories, daily
<1>3. CASE UNCHANGED vars
  BY <1>3 DEF vars, directories, daily, database, history, WordsHeld, Once, Again, TooSlow, Held
<1> QED
  BY <1>1, <1>2, <1>3, WordsHeldDaily DEF Next

(* A step of weeklyrotate adds no row to a table.                          *)
LEMMA RowsDropped ==
  ASSUME Base, NEW w \in Weeklies, StartWeekly(w) \/ StepWeekly(w) \/ FailWeekly(w)
  PROVE  pcap_files'.week.rows \subseteq pcap_files.week.rows
<1> USE DEF Base, TypeOK, Statement, database, NoFiles, NewFiles
<1>1. CASE StartWeekly(w) \/ FailWeekly(w)
  BY <1>1 DEF StartWeekly, FailWeekly
<1>2. CASE WritePid(w) \/ RemoveLock(w)
  BY <1>2 DEF WritePid, RemoveLock
<1>3. CASE DropPackets(w) \/ RenamePackets(w) \/ CreatePackets(w)
  BY <1>3 DEF DropPackets, RenamePackets, CreatePackets
<1>4. CASE DropFiles(w)
  BY <1>4 DEF DropFiles
<1>5. CASE RenameFiles(w)
  BY <1>5 DEF RenameFiles
<1>6. CASE CreateFiles(w)
  BY <1>6 DEF CreateFiles
<1> QED
  BY <1>1, <1>2, <1>3, <1>4, <1>5, <1>6 DEF StepWeekly

LEMMA LoadsDifferStep ==
  ASSUME Base, WordsHeld, LoadsDiffer, [Next]_vars
  PROVE  LoadsDiffer'
<1>1. CASE /\ UNCHANGED <<faults, dpc, file, loaded>>
           /\ pcap_files'.week.rows \subseteq pcap_files.week.rows
  BY <1>1 DEF LoadsDiffer, Once, Again, TooSlow
<1>2. ASSUME NEW c \in Captures, Arrive(c)
      PROVE  UNCHANGED <<faults, dpc, file, loaded, pcap_files>>
  BY <1>2 DEF Arrive, daily, history, database
<1>3. ASSUME NEW w \in Weeklies, StartWeekly(w) \/ StepWeekly(w) \/ FailWeekly(w)
      PROVE  /\ UNCHANGED <<faults, dpc, file, loaded>>
             /\ pcap_files'.week.rows \subseteq pcap_files.week.rows
  BY <1>3, StepWeeklyFrame, RowsDropped DEF StartWeekly, FailWeekly, directories, daily, history
<1>4. ASSUME NEW d \in Dailies, StartDaily(d) \/ StepDaily(d) \/ FailDaily(d)
      PROVE  LoadsDiffer'
  <2> USE DEF Go, Base, TypeOK
  <2>1. UNCHANGED faults /\ \A e \in Dailies : e # d => dpc'[e] = dpc[e]
    BY <1>4, StepDailyFrame DEF StartDaily, FailDaily, directories
  <2>2. CASE CommitLoad(d)
    <3>1. /\ UNCHANGED file /\ loaded' = loaded \cup {file[d]}
          /\ dpc[d] \in Loading /\ dpc'[d] \notin Loading
      BY <2>2 DEF CommitLoad, Loading
    <3>2. pcap_files'.week.rows = pcap_files.week.rows \cup {file[d]}
      <4>1. pcap_files'.week = [there |-> pcap_files.week.there,
                                rows |-> pcap_files.week.rows \cup {file[d]}]
        BY <2>2, CommitLoadEffect DEF Base
      <4> QED
        BY <4>1
    <3> QED
      BY <2>1, <3>1, <3>2 DEF LoadsDiffer, Once, Again, TooSlow
  <2>3. CASE InsertFile(d)
    <3>1. /\ UNCHANGED <<file, loaded, pcap_files>> /\ dpc[d] = "files" /\ dpc[d] \in Past
          /\ \A e \in Dailies \ {d} : dpc[e] \in Loading => file[e] # file[d]
          /\ dpc'[d] \in Loading => file[d] \notin pcap_files.week.rows
      BY <2>3 DEF InsertFile, history, database, Loading, Past, AtWork
    <3>2. Once /\ dpc'[d] \in Loading => file[d] \notin loaded
      BY <3>1 DEF WordsHeld, Held, LoopWord
    <3> QED
      BY <2>1, <3>1, <3>2 DEF LoadsDiffer, Once, Again, TooSlow
  <2>4. CASE InsertPackets(d)
    <3>1. UNCHANGED <<file, loaded, pcap_files>> /\ dpc[d] \in Loading
      BY <2>4 DEF InsertPackets, history, database, Loading
    <3> QED
      BY <2>1, <3>1 DEF LoadsDiffer, Once, Again, TooSlow
  <2>5. CASE ~CommitLoad(d) /\ ~InsertFile(d) /\ ~InsertPackets(d)
    <3>1. dpc'[d] \notin Loading
      BY <1>4, <2>5 DEF StartDaily, FailDaily, StepDaily, CheckLock, EndWait, MoveAway, Fetch,
         Expire, Glob, OpenFile, Report, Loading
    <3>2. \A e \in Dailies : e # d => file'[e] = file[e]
      BY <1>4, <2>5 DEF StartDaily, FailDaily, StepDaily, CheckLock, EndWait, MoveAway, Fetch,
         Expire, Glob, OpenFile, Report, directories, daily
    <3>3. UNCHANGED <<loaded, pcap_files>>
      BY <1>4, <2>5, DailyTables DEF database
    <3> QED
      BY <2>1, <3>1, <3>2, <3>3 DEF LoadsDiffer, Once, Again, TooSlow
  <2> QED
    BY <2>2, <2>3, <2>4, <2>5
<1> QED
  BY <1>1, <1>2, <1>3, <1>4 DEF Next, vars, directories, daily, history, database

---------------------------------------------------------------------------
(* The refinement.                                                         *)

LEMMA WeekInit == Init => Week!Init
  BY DEF Init, Week!Init, NewFiles, NoFiles

LEMMA WeekStep ==
  ASSUME Base, AbsentEmpty, LoadsDiffer, [Next]_vars
  PROVE  [Week!Next]_Week!weekVars
<1>1. CASE UNCHANGED <<pcap_files, loaded>>
  BY <1>1 DEF Week!weekVars
<1>2. ASSUME NEW c \in Captures, Arrive(c)
      PROVE  UNCHANGED <<pcap_files, loaded>>
  BY <1>2 DEF Arrive, database, history
<1>3. ASSUME NEW d \in Dailies, CommitLoad(d)
      PROVE  Week!Next
  <2>1. TypeOK
    BY DEF Base
  <2>2. /\ pcap_files'.week = [there |-> pcap_files.week.there,
                               rows |-> pcap_files.week.rows \cup {file[d]}]
        /\ pcap_files'.prev = pcap_files.prev
    BY <1>3, <2>1, CommitLoadEffect
  <2>3. dpc[d] = "commit" /\ loaded' = loaded \cup {file[d]}
    BY <1>3 DEF CommitLoad
  <2>4. file[d] \notin pcap_files.week.rows /\ (file[d] \in loaded => Again)
    BY <2>3 DEF LoadsDiffer, Loading, Once
  <2>5. file[d] \in Captures
    BY <2>3 DEF Base, LoopWord, Loading, TypeOK
  <2>6. Week!Load(file[d])
    BY <2>2, <2>3, <2>4 DEF Week!Load
  <2> QED
    BY <2>5, <2>6 DEF Week!Next
<1>4. ASSUME NEW w \in Weeklies, StartWeekly(w) \/ StepWeekly(w) \/ FailWeekly(w)
      PROVE  UNCHANGED <<pcap_files, loaded>> \/ Week!Next \/ UNCHANGED Week!weekVars
  <2>1. UNCHANGED loaded
    BY <1>4, StepWeeklyFrame DEF StartWeekly, FailWeekly, history
  <2>2. CASE DropFiles(w) /\ pcap_files' = [pcap_files EXCEPT !.prev = NoFiles]
    <3>1. pcap_files'.week = pcap_files.week /\ pcap_files'.prev.rows = {}
      BY <2>2 DEF NoFiles, Base, TypeOK
    <3>2. Week!Forget
      BY <2>1, <3>1 DEF Week!Forget
    <3> QED
      BY <3>2 DEF Week!Next
  <2>3. CASE /\ RenameFiles(w) /\ ~pcap_files.prev.there
             /\ pcap_files' = [week |-> NoFiles, prev |-> pcap_files.week]
    <3>1. pcap_files.prev.rows = {}
      BY <2>3 DEF AbsentEmpty
    <3>2. Week!Turn
      BY <2>1, <2>3, <3>1 DEF Week!Turn, NoFiles
    <3> QED
      BY <3>2 DEF Week!Next
  <2>4. CASE /\ CreateFiles(w) /\ ~pcap_files.week.there
             /\ pcap_files' = [pcap_files EXCEPT !.week = NewFiles]
    <3>1. pcap_files'.prev = pcap_files.prev
      BY <2>4 DEF Base, TypeOK
    <3>2. pcap_files'.week.rows = {} /\ pcap_files.week.rows = {}
      BY <2>4 DEF NewFiles, AbsentEmpty, Base, TypeOK
    <3> QED
      BY <2>1, <3>1, <3>2 DEF Week!weekVars
  <2>5. \/ UNCHANGED pcap_files
        \/ DropFiles(w) /\ pcap_files' = [pcap_files EXCEPT !.prev = NoFiles]
        \/ /\ RenameFiles(w) /\ ~pcap_files.prev.there
           /\ pcap_files' = [week |-> NoFiles, prev |-> pcap_files.week]
        \/ /\ CreateFiles(w) /\ ~pcap_files.week.there
           /\ pcap_files' = [pcap_files EXCEPT !.week = NewFiles]
    <3> USE DEF Statement, database
    <3>1. CASE StartWeekly(w) \/ FailWeekly(w)
      BY <3>1 DEF StartWeekly, FailWeekly
    <3>2. CASE WritePid(w) \/ RemoveLock(w)
      BY <3>2 DEF WritePid, RemoveLock
    <3>3. CASE DropPackets(w) \/ RenamePackets(w) \/ CreatePackets(w)
      BY <3>3 DEF DropPackets, RenamePackets, CreatePackets
    <3>4. CASE DropFiles(w)
      BY <3>4 DEF DropFiles
    <3>5. CASE RenameFiles(w)
      BY <3>5 DEF RenameFiles, FilesRenamable
    <3>6. CASE CreateFiles(w)
      BY <3>6 DEF CreateFiles, FilesMissing
    <3> QED
      BY <1>4, <3>1, <3>2, <3>3, <3>4, <3>5, <3>6 DEF StepWeekly
  <2> QED
    BY <2>1, <2>2, <2>3, <2>4, <2>5
<1>5. ASSUME NEW d \in Dailies, StartDaily(d) \/ StepDaily(d) \/ FailDaily(d)
      PROVE  UNCHANGED <<pcap_files, loaded>> \/ CommitLoad(d)
  BY <1>5, DailyTables DEF database
<1> QED
  BY <1>1, <1>2, <1>3, <1>4, <1>5 DEF Next, vars, database, history

(* For any number of captures, nights and weeks the jobs implement         *)
(* WeekStore, whatever is refused, killed or not moved: a capture enters a *)
(* week once, and one week only but where Again says otherwise.            *)
THEOREM WeeksImplemented == Spec => WeekStoreSpec
<1> DEFINE Inv == /\ Base /\ RotationLocked /\ AbsentEmpty /\ LoadingTables
                  /\ WordsFetched /\ OneDaily /\ WordsHeld /\ LoadsDiffer
<1>1. Init => Inv
  BY BaseInit, LockedInit, TablesInit, WordsInit
<1>2. Inv /\ [Next]_vars => Inv'
  BY BaseStep, LockedStep, TablesNext, WordsFetchedStep, OneDailyStep, WordsHeldStep,
     LoadsDifferStep
<1>3. Inv /\ [Next]_vars => [Week!Next]_Week!weekVars
  BY WeekStep
<1> QED
  BY <1>1, <1>2, <1>3, WeekInit, PTL DEF Spec, WeekStoreSpec, Week!Spec

(* The captures of the two tables, and those loaded before them.           *)
InOneWeek ==
  LET week == pcap_files.week.rows
      prev == pcap_files.prev.rows
  IN  week \cap prev = {} /\ week \cup prev \subseteq loaded

(* A capture is in the table of one week only, also while a rotation runs  *)
(* or when one was killed or refused: a report over both tables counts no  *)
(* packet twice, and one over last week's none of this week's.  (Where mv  *)
(* does not fail, and no dailyreport is both late and overlaps.)           *)
THEOREM NoCaptureTwice ==
  ASSUME \A S \in Scenarios : "mv" \notin S /\ ~({"late", "overlap"} \subseteq S)
  PROVE  Spec => []InOneWeek
<1>1. Week!Init => InOneWeek
  BY DEF Week!Init, InOneWeek
<1>2. Base /\ InOneWeek /\ [Week!Next]_Week!weekVars => InOneWeek'
  <2> SUFFICES ASSUME Base, InOneWeek, [Week!Next]_Week!weekVars PROVE InOneWeek'
    OBVIOUS
  <2> USE DEF InOneWeek
  <2>1. ~Again
    BY DEF Base, TypeOK, Again, TooSlow
  <2>2. CASE UNCHANGED Week!weekVars
    BY <2>2 DEF Week!weekVars
  <2>3. ASSUME NEW c \in Captures, Week!Load(c) PROVE InOneWeek'
    BY <2>1, <2>3 DEF Week!Load
  <2>4. CASE Week!Forget
    BY <2>4 DEF Week!Forget
  <2>5. CASE Week!Turn
    BY <2>5 DEF Week!Turn
  <2> QED
    BY <2>2, <2>3, <2>4, <2>5 DEF Week!Next
<1>3. Spec => WeekStoreSpec
  BY WeeksImplemented
<1> QED
  BY <1>1, <1>2, <1>3, BaseInit, BaseStep, PTL DEF WeekStoreSpec, Week!Spec, Spec

---------------------------------------------------------------------------
(* The foreign key.                                                        *)

(* When no statement is refused by itself, the tables that a rotation may  *)
(* leave behind, wherever it was killed, belong together.                  *)
Together ==
  /\ dns_packets.week.there => dns_packets.week.refs = "week" /\ pcap_files.week.there
  /\ dns_packets.prev.there => pcap_files[dns_packets.prev.refs].there
  /\ dns_packets.week.there /\ dns_packets.prev.there => dns_packets.prev.refs = "prev"

(* What the statements of the rotation under way have done so far.         *)
HalfWay ==
  \A w \in Weeklies :
    /\ wpc[w] \in {"dropFiles", "renameFiles"} =>
         (dns_packets.week.there => dns_packets.prev.there)
    /\ wpc[w] = "renameFiles" /\ pcap_files.prev.there =>
         dns_packets.prev.there /\ dns_packets.prev.refs = "prev"
    /\ wpc[w] \in {"createFiles", "createPackets"} /\ dns_packets.prev.there =>
         dns_packets.prev.refs = "prev"

OwnFiles ==
  \A s \in Slots : dns_packets[s].rows \subseteq pcap_files[dns_packets[s].refs].rows

KeysInv == "sql" \notin faults => Together /\ HalfWay /\ OwnFiles

LEMMA KeysInit == Init => KeysInv
  BY DEF Init, KeysInv, Together, HalfWay, OwnFiles, Slots, NewFiles, NoFiles, NewPackets, NoPackets

LEMMA KeysDaily ==
  ASSUME Base, LoadingTables, KeysInv, NEW d \in Dailies,
         StartDaily(d) \/ StepDaily(d) \/ FailDaily(d)
  PROVE  KeysInv'
<1>1. UNCHANGED <<faults, wpc>>
  BY StepDailyFrame DEF StartDaily, FailDaily, directories, weekly
<1>2. CASE UNCHANGED database
  BY <1>1, <1>2 DEF KeysInv, Together, HalfWay, OwnFiles, database
<1>3. CASE CommitLoad(d)
  <2> SUFFICES ASSUME "sql" \notin faults PROVE Together' /\ HalfWay' /\ OwnFiles'
    BY <1>1 DEF KeysInv
  <2>1. TypeOK /\ dpc[d] = "commit"
    BY <1>3 DEF Base, CommitLoad
  <2>2. /\ pcap_files'.week.there = pcap_files.week.there
        /\ pcap_files'.week.rows = pcap_files.week.rows \cup {file[d]}
        /\ pcap_files'.prev = pcap_files.prev
        /\ dns_packets'.week.there = dns_packets.week.there
        /\ dns_packets'.week.rows = dns_packets.week.rows \cup {file[d]}
        /\ dns_packets'.week.refs = dns_packets.week.refs
        /\ dns_packets'.prev = dns_packets.prev
    <3>1. /\ pcap_files'.week = [there |-> pcap_files.week.there,
                                 rows |-> pcap_files.week.rows \cup {file[d]}]
          /\ pcap_files'.prev = pcap_files.prev
          /\ dns_packets'.week = [there |-> dns_packets.week.there,
                                  rows |-> dns_packets.week.rows \cup {file[d]},
                                  refs |-> dns_packets.week.refs]
          /\ dns_packets'.prev = dns_packets.prev
      BY <1>3, <2>1, CommitLoadEffect
    <3> QED
      BY <3>1
  <2>3. dns_packets.prev.refs \in Slots
    BY <2>1 DEF TypeOK, PacketsType
  <2>4. \A s \in Slots : pcap_files'[s].there = pcap_files[s].there
                         /\ pcap_files[s].rows \subseteq pcap_files'[s].rows
    BY <2>2 DEF Slots
  <2>5. Together'
    BY <2>2, <2>3, <2>4 DEF KeysInv, Together
  <2>6. HalfWay'
    BY <1>1, <2>2 DEF KeysInv, HalfWay
  <2>7. dns_packets.week.refs = "week"
    BY <2>1 DEF LoadingTables, KeysInv, Together
  <2>8. OwnFiles'
    <3>1. dns_packets'.week.rows \subseteq pcap_files'[dns_packets'.week.refs].rows
      <4>1. dns_packets.week.rows \subseteq pcap_files.week.rows
        BY <2>7 DEF KeysInv, OwnFiles, Slots
      <4> QED
        BY <2>2, <2>7, <4>1
    <3>2. dns_packets'.prev.rows \subseteq pcap_files'[dns_packets'.prev.refs].rows
      <4>1. dns_packets.prev.rows \subseteq pcap_files[dns_packets.prev.refs].rows
        BY DEF KeysInv, OwnFiles, Slots
      <4> QED
        BY <2>2, <2>3, <2>4, <4>1
    <3> QED
      BY <3>1, <3>2 DEF OwnFiles, Slots
  <2> QED
    BY <2>5, <2>6, <2>8
<1> QED
  BY <1>2, <1>3, DailyTables DEF database

(* The rotation stands at one place.                                       *)
LEMMA OtherRotations ==
  ASSUME Base, NEW w \in Weeklies, StepWeekly(w)
  PROVE  \A v \in Weeklies : v # w => wpc'[v] = wpc[v] /\ wpc[v] \notin Turning
<1> SUFFICES ASSUME NEW v \in Weeklies, v # w
             PROVE  wpc'[v] = wpc[v] /\ wpc[v] \notin Turning
  OBVIOUS
<1>1. wpc'[v] = wpc[v]
  BY StepWeeklyFrame DEF GoW, Base, TypeOK
<1> QED
  BY <1>1, OnlyTurning

LEMMA KeysWeekly ==
  ASSUME Base, AbsentEmpty, KeysInv, NEW w \in Weeklies, StepWeekly(w)
  PROVE  KeysInv'
<1>1. UNCHANGED faults
  BY StepWeeklyFrame DEF directories
<1> SUFFICES ASSUME "sql" \notin faults PROVE Together' /\ HalfWay' /\ OwnFiles'
  BY <1>1 DEF KeysInv
<1>2. Together /\ HalfWay /\ OwnFiles
  BY DEF KeysInv
<1>3. /\ pcap_files \in [week : FilesType, prev : FilesType]
      /\ dns_packets \in [week : PacketsType, prev : PacketsType]
      /\ dns_packets.week.refs \in {"week", "prev"} /\ dns_packets.prev.refs \in {"week", "prev"}
      /\ wpc \in [Weeklies -> WeeklyLabels]
  BY DEF Base, TypeOK, PacketsType, Slots
<1>4. \A v \in Weeklies : v # w => wpc'[v] = wpc[v] /\ wpc'[v] \notin Turning
  BY OtherRotations
<1> USE DEF GoW, Turning, Rotating, Statement, database
<1>5. CASE WritePid(w) \/ RemoveLock(w)
  <2>1. UNCHANGED database /\ wpc'[w] \in {"dropPackets", "done"}
    BY <1>3, <1>5 DEF WritePid, RemoveLock
  <2> QED
    BY <1>2, <1>4, <2>1 DEF Together, HalfWay, OwnFiles
<1>6. CASE DropPackets(w)
  <2>1. wpc'[w] = "renamePackets" /\ UNCHANGED pcap_files
    BY <1>3, <1>6 DEF DropPackets
  <2>2. HalfWay'
    BY <1>4, <2>1 DEF HalfWay
  <2>3. CASE UNCHANGED dns_packets
    BY <1>2, <2>1, <2>2, <2>3 DEF Together, OwnFiles
  <2>4. CASE dns_packets' = [dns_packets EXCEPT !.prev = NoPackets]
    <3>1. /\ dns_packets'.week = dns_packets.week /\ ~dns_packets'.prev.there
          /\ dns_packets'.prev.rows = {}
      BY <1>3, <2>4 DEF NoPackets
    <3> QED
      BY <1>2, <2>1, <2>2, <3>1 DEF Together, OwnFiles, Slots
  <2> QED
    BY <1>6, <2>3, <2>4 DEF DropPackets
<1>7. CASE RenamePackets(w)
  <2>1. wpc'[w] = "dropFiles" /\ UNCHANGED pcap_files
    BY <1>3, <1>7 DEF RenamePackets
  <2>2. CASE UNCHANGED dns_packets /\ ~(dns_packets.week.there /\ ~dns_packets.prev.there)
    BY <1>2, <1>4, <2>1, <2>2 DEF Together, HalfWay, OwnFiles
  <2>3. CASE /\ dns_packets.week.there
             /\ dns_packets' = [week |-> NoPackets, prev |-> dns_packets.week]
    <3>1. /\ dns_packets'.prev = dns_packets.week /\ ~dns_packets'.week.there
          /\ dns_packets'.week.rows = {} /\ dns_packets'.week.refs = "week"
      BY <2>3 DEF NoPackets
    <3> QED
      BY <1>2, <1>4, <2>1, <2>3, <3>1 DEF Together, HalfWay, OwnFiles, Slots
  <2> QED
    BY <1>7, <2>2, <2>3 DEF RenamePackets
<1>8. CASE DropFiles(w)
  <2>1. wpc[w] = "dropFiles" /\ wpc'[w] = "renameFiles" /\ UNCHANGED dns_packets
    BY <1>3, <1>8 DEF DropFiles
  <2>2. CASE UNCHANGED pcap_files /\ ~FilesDroppable
    BY <1>2, <1>4, <2>1, <2>2 DEF Together, HalfWay, OwnFiles, FilesDroppable, Referenced, Slots
  <2>3. CASE pcap_files' = [pcap_files EXCEPT !.prev = NoFiles] /\ FilesDroppable
    <3>1. /\ pcap_files'.week = pcap_files.week
          /\ ~pcap_files'.prev.there /\ pcap_files'.prev.rows = {}
      BY <1>3, <2>3 DEF NoFiles
    <3>2. /\ dns_packets.week.there => dns_packets.week.refs # "prev"
          /\ dns_packets.prev.there => dns_packets.prev.refs # "prev"
      BY <2>3 DEF FilesDroppable, Referenced, Slots
    <3>3. OwnFiles'
      BY <1>2, <1>3, <2>1, <3>1, <3>2 DEF AbsentEmpty, OwnFiles, Slots
    <3> QED
      BY <1>2, <1>3, <1>4, <2>1, <3>1, <3>2, <3>3 DEF Together, HalfWay
  <2> QED
    BY <1>8, <2>2, <2>3 DEF DropFiles
<1>9. CASE RenameFiles(w)
  <2>1. wpc[w] = "renameFiles" /\ wpc'[w] = "createFiles"
    BY <1>3, <1>9 DEF RenameFiles
  <2>2. /\ dns_packets.week.there => dns_packets.prev.there
        /\ pcap_files.prev.there => dns_packets.prev.there /\ dns_packets.prev.refs = "prev"
    BY <1>2, <2>1 DEF HalfWay
  <2>3. CASE UNCHANGED <<pcap_files, dns_packets>> /\ ~FilesRenamable
    BY <1>2, <1>3, <1>4, <2>1, <2>2, <2>3 DEF Together, HalfWay, OwnFiles, FilesRenamable
  <2>4. CASE /\ FilesRenamable
             /\ pcap_files' = [week |-> NoFiles, prev |-> pcap_files.week]
             /\ dns_packets' = [s \in Slots |-> Follow(dns_packets[s])]
    <3>1. /\ pcap_files'.prev = pcap_files.week /\ pcap_files.week.there
          /\ ~pcap_files'.week.there /\ ~pcap_files.prev.there
      BY <2>4 DEF FilesRenamable, NoFiles
    <3>2. ~dns_packets.week.there /\ (dns_packets.prev.there => dns_packets.prev.refs = "week")
      BY <1>2, <1>3, <2>2, <3>1 DEF Together
    <3>3. dns_packets'.week = dns_packets.week /\ dns_packets'.week.rows = {}
      BY <2>4, <3>2 DEF Follow, Slots, AbsentEmpty
    <3>4. /\ dns_packets'.prev.there = dns_packets.prev.there
          /\ dns_packets'.prev.rows = dns_packets.prev.rows
          /\ dns_packets.prev.there => dns_packets'.prev.refs = "prev"
      <4>1. dns_packets'.prev = Follow(dns_packets.prev) /\ dns_packets.prev \in PacketsType
        BY <1>3, <2>4 DEF Slots
      <4> QED
        BY <3>2, <4>1 DEF Follow, PacketsType
    <3>5. OwnFiles'
      <4>1. dns_packets'.prev.rows \subseteq pcap_files'[dns_packets'.prev.refs].rows
        <5>1. CASE dns_packets.prev.there
          <6>1. dns_packets.prev.rows \subseteq pcap_files.week.rows
            BY <1>2, <3>2, <5>1 DEF OwnFiles, Slots
          <6> QED
            BY <3>1, <3>4, <5>1, <6>1
        <5>2. CASE ~dns_packets.prev.there
          BY <3>4, <5>2 DEF AbsentEmpty
        <5> QED
          BY <5>1, <5>2
      <4> QED
        BY <3>3, <4>1 DEF OwnFiles, Slots
    <3> QED
      BY <1>4, <2>1, <3>1, <3>2, <3>3, <3>4, <3>5 DEF Together, HalfWay
  <2> QED
    BY <1>9, <2>3, <2>4 DEF RenameFiles
<1>10. CASE CreateFiles(w)
  <2>1. wpc[w] = "createFiles" /\ wpc'[w] = "createPackets" /\ UNCHANGED dns_packets
    BY <1>3, <1>10 DEF CreateFiles
  <2>2. HalfWay'
    BY <1>2, <1>4, <2>1 DEF HalfWay
  <2>3. CASE UNCHANGED pcap_files
    BY <1>2, <2>1, <2>2, <2>3 DEF Together, OwnFiles
  <2>4. CASE ~pcap_files.week.there /\ pcap_files' = [pcap_files EXCEPT !.week = NewFiles]
    <3>1. /\ pcap_files'.prev = pcap_files.prev /\ pcap_files'.week.there
          /\ pcap_files'.week.rows = {} /\ pcap_files.week.rows = {}
      BY <1>3, <2>4 DEF NewFiles, AbsentEmpty
    <3>2. \A s \in {"week", "prev"} : /\ pcap_files[s].there => pcap_files'[s].there
                                      /\ pcap_files'[s].rows = pcap_files[s].rows
      BY <3>1
    <3>3. Together'
      BY <1>2, <1>3, <2>1, <3>1, <3>2 DEF Together
    <3>4. OwnFiles'
      BY <1>2, <1>3, <2>1, <3>2 DEF OwnFiles, Slots
    <3> QED
      BY <2>2, <3>3, <3>4
  <2> QED
    BY <1>10, <2>3, <2>4 DEF CreateFiles, FilesMissing
<1>11. CASE CreatePackets(w)
  <2>1. wpc[w] = "createPackets" /\ wpc'[w] = "sleep" /\ UNCHANGED pcap_files
    BY <1>3, <1>11 DEF CreatePackets
  <2>2. HalfWay'
    BY <1>4, <2>1 DEF HalfWay
  <2>3. CASE UNCHANGED dns_packets
    BY <1>2, <2>1, <2>2, <2>3 DEF Together, OwnFiles
  <2>4. CASE pcap_files.week.there /\ dns_packets' = [dns_packets EXCEPT !.week = NewPackets]
    <3>1. /\ dns_packets'.prev = dns_packets.prev /\ dns_packets'.week.refs = "week"
          /\ dns_packets'.week.rows = {}
      BY <1>3, <2>4 DEF NewPackets
    <3> QED
      BY <1>2, <2>1, <2>2, <2>4, <3>1 DEF Together, HalfWay, OwnFiles, Slots
  <2> QED
    BY <1>11, <2>3, <2>4 DEF CreatePackets
<1> QED
  BY <1>5, <1>6, <1>7, <1>8, <1>9, <1>10, <1>11 DEF StepWeekly

LEMMA KeysStep ==
  ASSUME Base, AbsentEmpty, LoadingTables, KeysInv, [Next]_vars
  PROVE  KeysInv'
<1>1. ASSUME NEW c \in Captures, Arrive(c)
      PROVE  KeysInv'
  BY <1>1 DEF Arrive, weekly, database, KeysInv, Together, HalfWay, OwnFiles
<1>2. ASSUME NEW w \in Weeklies, StartWeekly(w) \/ FailWeekly(w)
      PROVE  KeysInv'
  <2>1. UNCHANGED <<faults, database>>
    BY <1>2 DEF StartWeekly, FailWeekly, directories
  <2>2. \A v \in Weeklies : wpc'[v] \in Rotating => wpc[v] = wpc'[v]
    BY <1>2 DEF StartWeekly, FailWeekly, GoW, Rotating, Base, TypeOK
  <2> QED
    BY <2>1, <2>2 DEF database, KeysInv, Together, HalfWay, OwnFiles, Rotating
<1>3. CASE UNCHANGED vars
  BY <1>3 DEF vars, directories, weekly, database, KeysInv, Together, HalfWay, OwnFiles
<1> QED
  BY <1>1, <1>2, <1>3, KeysDaily, KeysWeekly DEF Next

(* For any number of weeks, with rotations killed between any two of their *)
(* statements and loads that run into them: when no statement is refused   *)
(* by itself, the packets of a table are of the files of the table its     *)
(* foreign key points to.                                                  *)
THEOREM PacketsKeepTheirFile == Spec => []PacketsOfTheirFile
<1> DEFINE Inv == Base /\ AbsentEmpty /\ LoadingTables /\ KeysInv
<1>1. Init => Inv
  BY BaseInit, TablesInit, KeysInit
<1>2. Inv /\ [Next]_vars => Inv'
  BY BaseStep, TablesNext, KeysStep
<1>3. Inv => PacketsOfTheirFile
  BY DEF KeysInv, OwnFiles, PacketsOfTheirFile
<1> QED
  BY <1>1, <1>2, <1>3, PTL DEF Spec

---------------------------------------------------------------------------
(* What a rotation leaves.                                                 *)

NoView == "view" \notin faults => view = "none"

(* No statement of w was refused by itself.                                *)
Undisturbed == "sql" \notin faults => disturbed = {}

(* Without the view the old packets do move out of the way.                *)
Moved1(w) ==
  "view" \notin faults /\ w \notin disturbed =>
    /\ wpc[w] = "renamePackets" => ~dns_packets.prev.there
    /\ wpc[w] \in {"dropFiles", "renameFiles", "createFiles", "createPackets"} =>
         ~dns_packets.week.there

(* Behind the statements of create.sql the new tables are there.           *)
Created(w) ==
  w \notin disturbed /\ ("view" \notin faults \/ "sql" \notin faults) =>
    /\ wpc[w] = "createPackets" => pcap_files.week.there
    /\ wpc[w] = "sleep" => Usable

RepairInv == NoView /\ Undisturbed /\ \A w \in Weeklies : Moved1(w) /\ Created(w)

LEMMA RepairInit == Init => RepairInv
  BY DEF Init, RepairInv, NoView, Undisturbed, Moved1, Created

(* Loads change none of this.                                              *)
LEMMA RepairDaily ==
  ASSUME Base, RepairInv, NEW d \in Dailies, StartDaily(d) \/ StepDaily(d) \/ FailDaily(d)
  PROVE  RepairInv'
<1>1. UNCHANGED <<faults, wpc, disturbed, view>>
  BY StepDailyFrame DEF StartDaily, FailDaily, directories, weekly, database
<1>2. /\ pcap_files'.week.there = pcap_files.week.there
      /\ dns_packets'.week.there = dns_packets.week.there
      /\ dns_packets'.week.refs = dns_packets.week.refs
      /\ dns_packets'.prev.there = dns_packets.prev.there
  <2>1. CASE UNCHANGED database
    BY <2>1 DEF database
  <2>2. CASE CommitLoad(d)
    <3>1. TypeOK
      BY DEF Base
    <3>2. /\ pcap_files'.week = [there |-> pcap_files.week.there,
                                 rows |-> pcap_files.week.rows \cup {file[d]}]
          /\ dns_packets'.week = [there |-> dns_packets.week.there,
                                  rows |-> dns_packets.week.rows \cup {file[d]},
                                  refs |-> dns_packets.week.refs]
          /\ dns_packets'.prev = dns_packets.prev
      BY <2>2, <3>1, CommitLoadEffect
    <3> QED
      BY <3>2
  <2> QED
    BY <2>1, <2>2, DailyTables DEF database
<1> QED
  BY <1>1, <1>2 DEF RepairInv, NoView, Undisturbed, Moved1, Created, Usable

LEMMA RepairWeekly ==
  ASSUME Base, KeysInv, RepairInv, NEW w \in Weeklies, StepWeekly(w)
  PROVE  RepairInv'
<1>1. UNCHANGED faults /\ disturbed' \in {disturbed, disturbed \cup {w}}
  BY StepWeeklyFrame DEF directories
<1>2. \A v \in Weeklies : v # w => wpc'[v] = wpc[v] /\ wpc'[v] \notin Turning
  BY OtherRotations
<1>3. /\ pcap_files \in [week : FilesType, prev : FilesType]
      /\ dns_packets \in [week : PacketsType, prev : PacketsType]
      /\ wpc \in [Weeklies -> WeeklyLabels]
  BY DEF Base, TypeOK
<1>4. NoView'
  <2>1. view' = view \/ (view = "week" /\ RenamePackets(w))
    BY DEF StepWeekly, WritePid, RemoveLock, DropPackets, RenamePackets, DropFiles, RenameFiles,
           CreateFiles, CreatePackets, Statement, database
  <2> QED
    BY <1>1, <2>1 DEF RepairInv, NoView
<1>5. Undisturbed'
  BY <1>1 DEF RepairInv, NoView, Undisturbed, StepWeekly, WritePid, RemoveLock, DropPackets,
     RenamePackets, DropFiles, RenameFiles, CreateFiles, CreatePackets, Statement
<1>6. ASSUME NEW v \in Weeklies, v # w
      PROVE  Moved1(v)' /\ Created(v)'
  BY <1>2, <1>6 DEF Moved1, Created, Turning, Rotating
<1>7. Moved1(w)'
  <2> SUFFICES ASSUME "view" \notin faults, w \notin disturbed'
               PROVE  /\ wpc'[w] = "renamePackets" => ~dns_packets'.prev.there
                      /\ wpc'[w] \in {"dropFiles", "renameFiles", "createFiles", "createPackets"} =>
                           ~dns_packets'.week.there
    BY <1>1 DEF Moved1
  <2>1. w \notin disturbed /\ view = "none" /\ Moved1(w)
    BY <1>1 DEF RepairInv, NoView
  <2> USE <1>3, <2>1 DEF Statement, GoW, database, Moved1
  <2>2. CASE WritePid(w) \/ RemoveLock(w)
    BY <2>2 DEF WritePid, RemoveLock
  <2>3. CASE DropPackets(w)
    BY <2>3 DEF DropPackets, PacketsDroppable, NoPackets
  <2>4. CASE RenamePackets(w)
    BY <2>4 DEF RenamePackets, NoPackets
  <2>5. CASE DropFiles(w)
    BY <2>5 DEF DropFiles
  <2>6. CASE RenameFiles(w)
    BY <2>6 DEF RenameFiles, Follow, Slots
  <2>7. CASE CreateFiles(w)
    BY <2>7 DEF CreateFiles
  <2>8. CASE CreatePackets(w)
    BY <2>8 DEF CreatePackets
  <2> QED
    BY <2>2, <2>3, <2>4, <2>5, <2>6, <2>7, <2>8 DEF StepWeekly
<1>8. Created(w)'
  <2> SUFFICES ASSUME w \notin disturbed', "view" \notin faults \/ "sql" \notin faults
               PROVE  /\ wpc'[w] = "createPackets" => pcap_files'.week.there
                      /\ wpc'[w] = "sleep" => Usable'
    BY <1>1 DEF Created
  <2>1. w \notin disturbed /\ Moved1(w) /\ Created(w)
    BY <1>1 DEF RepairInv
  <2>2. CASE CreateFiles(w)
    <3>1. \/ FilesMissing /\ pcap_files' = [pcap_files EXCEPT !.week = NewFiles]
          \/ ~FilesMissing /\ UNCHANGED pcap_files
      BY <2>2 DEF CreateFiles, Statement, database
    <3>2. pcap_files'.week.there
      BY <1>3, <3>1 DEF FilesMissing, NewFiles
    <3> QED
      BY <1>3, <2>2, <3>2 DEF CreateFiles, Statement, GoW
  <2>3. CASE CreatePackets(w)
    <3>1. pcap_files.week.there /\ UNCHANGED pcap_files /\ wpc'[w] = "sleep"
      BY <1>3, <2>1, <2>3 DEF Created, CreatePackets, Statement, GoW, database
    <3>2. CASE ~dns_packets.week.there
      <4>1. dns_packets' = [dns_packets EXCEPT !.week = NewPackets]
        BY <2>3, <3>1, <3>2 DEF CreatePackets, Statement
      <4> QED
        BY <1>3, <3>1, <4>1 DEF NewPackets, Usable
    <3>3. CASE dns_packets.week.there
      <4>1. UNCHANGED dns_packets
        BY <2>3, <3>3 DEF CreatePackets, Statement, database
      <4>2. "sql" \notin faults
        BY <2>1, <2>3, <3>3 DEF Moved1, CreatePackets, Statement
      <4>3. dns_packets.week.refs = "week"
        BY <3>3, <4>2 DEF KeysInv, Together
      <4> QED
        BY <3>1, <3>3, <4>1, <4>3 DEF Usable
    <3> QED
      BY <3>2, <3>3
  <2>4. CASE ~CreateFiles(w) /\ ~CreatePackets(w)
    <3>1. wpc'[w] \notin {"createPackets", "sleep"}
      BY <1>3, <2>4 DEF StepWeekly, WritePid, RemoveLock, DropPackets, RenamePackets, DropFiles,
         RenameFiles, Statement, GoW
    <3> QED
      BY <3>1
  <2> QED
    BY <2>2, <2>3, <2>4
<1> QED
  BY <1>4, <1>5, <1>6, <1>7, <1>8 DEF RepairInv

LEMMA RepairStep ==
  ASSUME Base, KeysInv, RepairInv, [Next]_vars
  PROVE  RepairInv'
<1>1. ASSUME NEW c \in Captures, Arrive(c)
      PROVE  RepairInv'
  BY <1>1 DEF Arrive, weekly, database, RepairInv, NoView, Undisturbed, Moved1, Created, Usable
<1>2. ASSUME NEW w \in Weeklies, StartWeekly(w) \/ FailWeekly(w)
      PROVE  RepairInv'
  <2>1. UNCHANGED <<faults, disturbed, database>>
    BY <1>2 DEF StartWeekly, FailWeekly, directories
  <2>2. \A v \in Weeklies : wpc'[v] \in Rotating \cup {"sleep"} => wpc[v] = wpc'[v]
    BY <1>2 DEF StartWeekly, FailWeekly, GoW, Rotating, Over, Base, TypeOK
  <2> QED
    BY <2>1, <2>2 DEF database, RepairInv, NoView, Undisturbed, Moved1, Created, Usable, Rotating
<1>3. CASE UNCHANGED vars
  BY <1>3 DEF vars, directories, weekly, database, RepairInv, NoView, Undisturbed, Moved1, Created,
     Usable
<1> QED
  BY <1>1, <1>2, <1>3, RepairDaily, RepairWeekly DEF Next

(* However many rotations before it were killed or had statements refused: *)
(* one none of whose statements is refused by itself leaves usable tables. *)
THEOREM RotationsRepair == Spec => []RotationRepairs
<1> DEFINE Inv == Base /\ AbsentEmpty /\ LoadingTables /\ KeysInv /\ RepairInv
<1>1. Init => Inv
  BY BaseInit, TablesInit, KeysInit, RepairInit
<1>2. Inv /\ [Next]_vars => Inv'
  BY BaseStep, TablesNext, KeysStep, RepairStep
<1>3. Inv => RotationRepairs
  BY DEF RepairInv, Created, RotationRepairs
<1> QED
  BY <1>1, <1>2, <1>3, PTL DEF Spec

(* What the new week looks like while its rotation is under way.           *)
Fresh(w) ==
  /\ wpc[w] = "dropFiles" => ~Referenced("prev")
  /\ wpc[w] = "renameFiles" => ~pcap_files.prev.there
  /\ wpc[w] = "createFiles" => ~pcap_files.week.there
  /\ wpc[w] = "createPackets" => pcap_files.week = NewFiles
  /\ wpc[w] = "sleep" => pcap_files.week = NewFiles /\ dns_packets.week = NewPackets

Plain    == {"view", "sql", "late"} \cap faults = {}
FreshInv == Plain => \A w \in Weeklies : Fresh(w)

LEMMA FreshInit == Init => FreshInv
  BY DEF Init, FreshInv, Fresh

(* The lock keeps loads away.                                              *)
LEMMA FreshDaily ==
  ASSUME Base, RotationLocked, FreshInv, NEW d \in Dailies,
         StartDaily(d) \/ StepDaily(d) \/ FailDaily(d)
  PROVE  FreshInv'
<1>1. UNCHANGED <<faults, wpc>>
  BY StepDailyFrame DEF StartDaily, FailDaily, directories, weekly
<1>2. CASE UNCHANGED database
  BY <1>1, <1>2 DEF FreshInv, Plain, Fresh, Referenced, database
<1>3. CASE CommitLoad(d)
  <2>1. dpc[d] \in Busy
    BY <1>3 DEF CommitLoad, Busy, AtWork
  <2>2. Plain => \A w \in Weeklies : wpc[w] \notin Turning
    BY <2>1 DEF Plain, RotationLocked
  <2> QED
    BY <1>1, <2>2 DEF FreshInv, Plain, Fresh, Turning, Rotating
<1> QED
  BY <1>2, <1>3, DailyTables DEF database

LEMMA FreshWeekly ==
  ASSUME Base, KeysInv, RepairInv, FreshInv, NEW w \in Weeklies, StepWeekly(w)
  PROVE  FreshInv'
<1>1. UNCHANGED faults
  BY StepWeeklyFrame DEF directories
<1> SUFFICES ASSUME Plain PROVE \A v \in Weeklies : Fresh(v)'
  BY <1>1 DEF FreshInv, Plain
<1>2. \A v \in Weeklies : v # w => wpc'[v] = wpc[v] /\ wpc'[v] \notin Turning
  BY OtherRotations
<1>3. ASSUME NEW v \in Weeklies, v # w
      PROVE  Fresh(v)'
  BY <1>2, <1>3 DEF Fresh, Turning, Rotating
<1>4. Fresh(w)'
  <2>1. "view" \notin faults /\ "sql" \notin faults /\ w \notin disturbed
    BY DEF Plain, RepairInv, Undisturbed
  <2>2. /\ wpc[w] = "renamePackets" => ~dns_packets.prev.there
        /\ wpc[w] \in {"dropFiles", "renameFiles", "createFiles", "createPackets"} =>
             ~dns_packets.week.there
    BY <2>1 DEF RepairInv, Moved1
  <2>3. Fresh(w) /\ Together
    BY <2>1 DEF FreshInv, KeysInv
  <2>4. /\ pcap_files \in [week : FilesType, prev : FilesType]
        /\ dns_packets \in [week : PacketsType, prev : PacketsType]
        /\ wpc \in [Weeklies -> WeeklyLabels]
    BY DEF Base, TypeOK
  <2> USE <2>4 DEF GoW
  <2>5. CASE WritePid(w) \/ RemoveLock(w) \/ DropPackets(w)
    <3>1. wpc'[w] \in {"dropPackets", "done", "renamePackets"}
      BY <2>5 DEF WritePid, RemoveLock, DropPackets, Statement
    <3> QED
      BY <3>1 DEF Fresh
  <2>6. CASE RenamePackets(w)
    <3>1. wpc[w] = "renamePackets" /\ wpc'[w] = "dropFiles"
      BY <2>6 DEF RenamePackets, Statement
    <3>2. \/ UNCHANGED dns_packets /\ ~dns_packets.week.there
          \/ /\ dns_packets.week.there
             /\ dns_packets' = [week |-> NoPackets, prev |-> dns_packets.week]
      BY <2>1, <2>2, <2>6, <3>1 DEF RenamePackets, Statement, database
    <3>3. ~Referenced("prev")'
      BY <2>2, <2>3, <3>1, <3>2 DEF Referenced, Slots, Together, NoPackets
    <3> QED
      BY <3>1, <3>3 DEF Fresh
  <2>7. CASE DropFiles(w)
    <3>1. wpc[w] = "dropFiles" /\ wpc'[w] = "renameFiles"
      BY <2>7 DEF DropFiles, Statement
    <3>2. \/ pcap_files' = [pcap_files EXCEPT !.prev = NoFiles]
          \/ UNCHANGED pcap_files /\ ~pcap_files.prev.there
      BY <2>1, <2>3, <2>7, <3>1 DEF DropFiles, Statement, database, FilesDroppable, Fresh
    <3>3. ~pcap_files'.prev.there
      BY <3>2 DEF NoFiles
    <3> QED
      BY <3>1, <3>3 DEF Fresh
  <2>8. CASE RenameFiles(w)
    <3>1. wpc[w] = "renameFiles" /\ wpc'[w] = "createFiles"
      BY <2>8 DEF RenameFiles, Statement
    <3>2. \/ pcap_files' = [week |-> NoFiles, prev |-> pcap_files.week]
          \/ UNCHANGED pcap_files /\ ~pcap_files.week.there
      BY <2>1, <2>3, <2>8, <3>1 DEF RenameFiles, Statement, database, FilesRenamable, Fresh
    <3>3. ~pcap_files'.week.there
      BY <3>2 DEF NoFiles
    <3> QED
      BY <3>1, <3>3 DEF Fresh
  <2>9. CASE CreateFiles(w)
    <3>1. wpc[w] = "createFiles" /\ wpc'[w] = "createPackets"
      BY <2>9 DEF CreateFiles, Statement
    <3>2. pcap_files' = [pcap_files EXCEPT !.week = NewFiles]
      BY <2>1, <2>3, <2>9, <3>1 DEF CreateFiles, Statement, FilesMissing, Fresh
    <3> QED
      BY <3>1, <3>2 DEF Fresh
  <2>10. CASE CreatePackets(w)
    <3>1. wpc[w] = "createPackets" /\ wpc'[w] = "sleep"
      BY <2>10 DEF CreatePackets, Statement
    <3>2. pcap_files.week = NewFiles /\ ~dns_packets.week.there
      BY <2>2, <2>3, <3>1 DEF Fresh
    <3>3. UNCHANGED pcap_files /\ dns_packets' = [dns_packets EXCEPT !.week = NewPackets]
      BY <2>1, <2>10, <3>2 DEF CreatePackets, Statement, NewFiles
    <3> QED
      BY <3>1, <3>2, <3>3 DEF Fresh
  <2> QED
    BY <2>5, <2>6, <2>7, <2>8, <2>9, <2>10 DEF StepWeekly
<1> QED
  BY <1>3, <1>4

LEMMA FreshStep ==
  ASSUME Base, RotationLocked, KeysInv, RepairInv, FreshInv, [Next]_vars
  PROVE  FreshInv'
<1>1. ASSUME NEW c \in Captures, Arrive(c)
      PROVE  FreshInv'
  BY <1>1 DEF Arrive, weekly, database, FreshInv, Plain, Fresh, Referenced
<1>2. ASSUME NEW w \in Weeklies, StartWeekly(w) \/ FailWeekly(w)
      PROVE  FreshInv'
  <2>1. UNCHANGED <<faults, database>>
    BY <1>2 DEF StartWeekly, FailWeekly, directories
  <2>2. \A v \in Weeklies : wpc'[v] \in Rotating \cup {"sleep"} => wpc[v] = wpc'[v]
    BY <1>2 DEF StartWeekly, FailWeekly, GoW, Rotating, Over, Base, TypeOK
  <2> QED
    BY <2>1, <2>2 DEF database, FreshInv, Plain, Fresh, Referenced, Rotating
<1>3. CASE UNCHANGED vars
  BY <1>3 DEF vars, directories, weekly, database, FreshInv, Plain, Fresh, Referenced
<1> QED
  BY <1>1, <1>2, <1>3, FreshDaily, FreshWeekly DEF Next

(* For any number of weeks: whichever statements the rotations before it   *)
(* did not come to, one that comes to its end leaves two empty tables.     *)
THEOREM WeeksStartFresh == Spec => []FreshWeek
<1> DEFINE Inv == /\ Base /\ RotationLocked /\ AbsentEmpty /\ LoadingTables
                  /\ KeysInv /\ RepairInv /\ FreshInv
<1>1. Init => Inv
  BY BaseInit, LockedInit, TablesInit, KeysInit, RepairInit, FreshInit
<1>2. Inv /\ [Next]_vars => Inv'
  BY BaseStep, LockedStep, TablesNext, KeysStep, RepairStep, FreshStep
<1>3. Inv => FreshWeek
  BY DEF FreshInv, Plain, Fresh, FreshWeek
<1> QED
  BY <1>1, <1>2, <1>3, PTL DEF Spec

---------------------------------------------------------------------------
(* New files are saved before they are moved away.                         *)

(* The loop of d has c before it.                                          *)
Awaits(d, c) ==
  \/ dpc[d] \in {"expire", "glob"}
  \/ dpc[d] \in {"open", "files"} \cup Loading /\ c \in todo[d]

Saving   == "overlap" \notin faults /\ \A d \in Dailies : dpc[d] # "failed"
SavedInv ==
  Saving => \A c \in Captures :
    place[c] \in Fetched =>
      c \in loaded \/ (place[c] = "current" /\ \E d \in Dailies : Awaits(d, c))

LEMMA SavedInit == Init => SavedInv
  BY DEF Init, SavedInv, Fetched

LEMMA SavedDaily ==
  ASSUME Base, OneDaily, SavedInv, NEW d \in Dailies,
         StartDaily(d) \/ StepDaily(d) \/ FailDaily(d)
  PROVE  SavedInv'
<1>1. UNCHANGED faults /\ \A e \in Dailies : e # d => dpc'[e] = dpc[e] /\ todo'[e] = todo[e]
  BY StepDailyFrame, WordsDaily DEF StartDaily, FailDaily, Go, Base, TypeOK, directories
<1> SUFFICES ASSUME Saving', NEW c \in Captures, place'[c] \in Fetched, c \notin loaded'
             PROVE  place'[c] = "current" /\ Awaits(d, c)'
  BY DEF SavedInv
<1>2. dpc[d] # "failed"
  <2>1. CASE StartDaily(d)
    <3>1. dpc[d] = "off"
      BY <2>1, CronAssumption DEF StartDaily, Base, TypeOK, NightsInOrder, Dailies
    <3> QED
      BY <3>1
  <2>2. CASE FailDaily(d)
    BY <2>2 DEF FailDaily, Over
  <2>3. CASE StepDaily(d)
    BY <2>3, StepDailyFrame DEF CheckLock, EndWait, Busy, AtWork
  <2> QED
    BY <2>1, <2>2, <2>3
<1>3. Saving
  BY <1>1, <1>2 DEF Saving
<1>4. c \notin loaded
  BY DailyTables DEF CommitLoad
<1>5. \A e \in Dailies : Awaits(e, c) => e = d
  BY <1>3, StepDailyFrame
  DEF StartDaily, FailDaily, CheckLock, EndWait, Busy, AtWork, Over, Awaits, Loading, OneDaily, Saving
<1>6. place[c] \in Fetched => place[c] = "current" /\ Awaits(d, c)
  BY <1>3, <1>4, <1>5 DEF SavedInv
<1> USE DEF Base, TypeOK, Go
<1>7. ~FailDaily(d)
  BY DEF FailDaily, Saving
<1>8. CASE StartDaily(d)
  <2>1. UNCHANGED place /\ dpc[d] \in {"off"} \cup Over
    BY <1>8, <1>3, CronAssumption DEF StartDaily, directories, NightsInOrder
  <2> QED
    BY <1>6, <2>1 DEF Awaits, Over, Loading
<1>9. CASE CheckLock(d) \/ EndWait(d) \/ Report(d)
  <2>1. UNCHANGED place /\ dpc[d] \in {"lock", "wait", "report"}
    BY <1>9 DEF CheckLock, EndWait, Report, directories
  <2> QED
    BY <1>6, <2>1 DEF Awaits, Loading
<1>10. CASE MoveAway(d)
  <2>1. dpc[d] = "away" /\ place[c] \in Fetched
    BY <1>10 DEF MoveAway, MovedAway, Moved, In, Fetched
  <2> QED
    BY <1>6, <2>1 DEF Awaits, Loading
<1>11. CASE Fetch(d)
  <2>1. dpc[d] = "fetch" /\ dpc'[d] = "expire"
    BY <1>11 DEF Fetch
  <2>2. place[c] \notin Fetched
    BY <1>6, <2>1 DEF Awaits, Loading
  <2>3. place'[c] = "current"
    BY <1>11, <2>2 DEF Fetch, Moved, In, Fetched
  <2> QED
    BY <2>1, <2>3 DEF Awaits
<1>12. CASE Expire(d)
  <2>1. dpc'[d] = "glob"
    BY <1>12 DEF Expire
  <2>2. place[c] \in Fetched
    BY <1>12 DEF Expire, Expired, Moved, In, Fetched
  <2>3. place'[c] = "current"
    BY <1>6, <1>12, <2>2 DEF Expire, Expired, Moved, In
  <2> QED
    BY <2>1, <2>3 DEF Awaits
<1>13. CASE Glob(d)
  <2>1. place'[c] = "current" /\ place[c] = "current"
    BY <1>6, <1>13 DEF Glob, directories
  <2>2. c \in todo'[d] /\ dpc'[d] = "open"
    BY <1>13, <2>1 DEF Glob, Words, In
  <2> QED
    BY <2>1, <2>2 DEF Awaits
<1>14. CASE OpenFile(d) \/ InsertFile(d) \/ InsertPackets(d)
  <2>1. /\ UNCHANGED <<place, todo>>
        /\ dpc[d] \in {"open", "files"} \cup Loading
    BY <1>14 DEF OpenFile, InsertFile, InsertPackets, directories, Loading
  <2>2. dpc'[d] \in {"files", "failed"} \cup Loading
    BY <1>14 DEF OpenFile, InsertFile, InsertPackets, Loading
  <2>3. dpc'[d] # "failed"
    BY DEF Saving
  <2> QED
    BY <1>6, <2>1, <2>2, <2>3 DEF Awaits, Loading
<1>15. CASE CommitLoad(d)
  <2>1. /\ UNCHANGED place /\ dpc[d] = "commit" /\ c # file[d]
        /\ todo'[d] = todo[d] \ {file[d]}
    BY <1>15 DEF CommitLoad, directories
  <2>2. place[c] = "current" /\ c \in todo[d]
    BY <1>6, <2>1 DEF Awaits, Loading
  <2>3. dpc'[d] = "open"
    BY <1>15, <2>1, <2>2 DEF CommitLoad, LastWord
  <2> QED
    BY <2>1, <2>2, <2>3 DEF Awaits
<1> QED
  BY <1>7, <1>8, <1>9, <1>10, <1>11, <1>12, <1>13, <1>14, <1>15 DEF StepDaily

LEMMA SavedStep ==
  ASSUME Base, OneDaily, SavedInv, [Next]_vars
  PROVE  SavedInv'
<1>1. ASSUME NEW b \in Captures, Arrive(b)
      PROVE  SavedInv'
  <2>1. UNCHANGED <<faults, daily, loaded>>
    BY <1>1 DEF Arrive, history
  <2>2. \A c \in Captures : place'[c] \in Fetched => place'[c] = place[c]
    BY <1>1 DEF Arrive, Base, TypeOK, Fetched
  <2> QED
    BY <2>1, <2>2 DEF daily, SavedInv, Saving, Awaits
<1>2. ASSUME NEW w \in Weeklies, StartWeekly(w) \/ StepWeekly(w) \/ FailWeekly(w)
      PROVE  UNCHANGED <<directories, daily, loaded>>
  BY <1>2, StepWeeklyFrame DEF StartWeekly, FailWeekly, history
<1>3. CASE UNCHANGED <<directories, daily, loaded>>
  BY <1>3 DEF directories, daily, SavedInv, Saving, Awaits
<1> QED
  BY <1>1, <1>2, <1>3, SavedDaily DEF Next, vars, history

(* Without dailyreports that overlap or fail, no capture is moved out of   *)
(* current before it is in the database, however many arrive in a night.   *)
THEOREM NewFilesAreSaved == Spec => []SavedUnlessFailed
<1> DEFINE Inv == Base /\ OneDaily /\ SavedInv
<1>1. Init => Inv
  BY BaseInit, WordsInit, SavedInit
<1>2. Inv /\ [Next]_vars => Inv'
  BY BaseStep, OneDailyStep, SavedStep
<1>3. Inv => SavedUnlessFailed
  BY DEF SavedInv, Saving, SavedUnlessFailed, NewFilesSaved, Fetched
<1> QED
  BY <1>1, <1>2, <1>3, PTL DEF Spec
=============================================================================
