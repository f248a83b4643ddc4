------------------------------ MODULE CronJobs ------------------------------
(***************************************************************************)
(* The two jobs of cron/crontab: dailyreport, which moves the new captures *)
(* into place, loads each of them with packets2postgresql and makes the    *)
(* reports, and weeklyrotate, which renames the tables to *_prev and makes *)
(* new ones.  They share the directories dump, current and backup, the     *)
(* file /tmp/database.lock and the database.                               *)
(*                                                                         *)
(* A load is one transaction here: dailyreport does not give -e.  What     *)
(* happens inside of one is in Loader.                                     *)
(***************************************************************************)
EXTENDS Integers

CONSTANTS
  NumCaptures, (* capture files that ever arrive in dump                   *)
  Nights,      (* executions of dailyreport                                *)
  Weeks,       (* executions of weeklyrotate                               *)
  BackupDays,  (* 4: older files are removed from backup                   *)
  Scenarios    (* sets of what may happen in one behaviour:                *)
               (* "daily": dailyreport, or a program it starts, may fail   *)
               (*   or be killed at any point;                             *)
               (* "mv": its mv and find may leave some files where they    *)
               (*   are;                                                   *)
               (* "kill": weeklyrotate may be killed, or psql may lose the *)
               (*   server, at any point;                                  *)
               (* "sql": a statement of the rotation may fail by itself;   *)
               (* "full": no room for the pid in /tmp/database.lock;       *)
               (* "late": dailyreport may still run when weeklyrotate      *)
               (*   starts, 18 hours later;                                *)
               (* "overlap": or when the next dailyreport starts;          *)
               (* "view": the optional view of qtype_view.sql exists       *)

Captures == 1..NumCaptures   (* in the order of arrival                    *)
Dailies  == 1..Nights
Weeklies == 1..Weeks

ASSUME CronAssumption ==
  /\ NumCaptures \in Nat /\ Nights \in Nat /\ Weeks \in Nat /\ BackupDays \in Nat
  /\ Scenarios \subseteq
       SUBSET {"daily", "mv", "kill", "sql", "full", "late", "overlap", "view"}

VARIABLES
  faults,       (* the scenario                                            *)
  place,        (* the directory of each capture                           *)
  born,         (* the night after which it arrived                        *)
  night,        (* nights passed                                           *)
  dpc,          (* where each dailyreport is                               *)
  pid,          (* $pid of each: 0 is the empty string                     *)
  todo,         (* the words of its for loop it has not loaded             *)
  file,         (* $f                                                      *)
  wpc,          (* where each weeklyrotate is                              *)
  disturbed,    (* those with a statement that failed by itself            *)
  lock,         (* /tmp/database.lock                                      *)
  pcap_files,   (* Pcap_files and Pcap_files_prev                          *)
  dns_packets,  (* DNS_Packets and DNS_Packets_prev                        *)
  view,         (* the table the view qtype selects from                   *)
  loaded,       (* history: captures whose load was committed              *)
  reported      (* the dailyreports that installed their reports           *)

directories == <<faults, place, born>>
daily       == <<night, dpc, pid, todo, file>>
weekly      == <<wpc, disturbed, lock>>
database    == <<pcap_files, dns_packets, view>>
history     == <<loaded, reported>>
vars        == <<directories, daily, weekly, database, history>>

---------------------------------------------------------------------------
(* Tables.  refs is the table the FOREIGN KEY of DNS_Packets.file points   *)
(* to; it follows that table when it is renamed.                           *)
Slots == {"week", "prev"}

NoFiles      == [there |-> FALSE, rows |-> {}]
NewFiles     == [there |-> TRUE, rows |-> {}]
NoPackets    == [there |-> FALSE, rows |-> {}, refs |-> "week"]
NewPackets   == [there |-> TRUE, rows |-> {}, refs |-> "week"]

(* Row locks of a load in progress keep its tables from being renamed.     *)
Loading       == {"packets", "commit"}
FilesInUse    == \E d \in Dailies : dpc[d] \in Loading
PacketsInUse  == \E d \in Dailies : dpc[d] = "commit"

Over == {"done", "failed"}

(* [ -e /proc/$pid ]: /proc/ itself always exists.  (The first two: were   *)
(* an empty lock file none, or did the loop wait for the lock file.)       *)
AliveUnlessEmpty(p) == p # 0 /\ wpc[p] \notin {"off"} \cup Over
AliveWhileLocked(p) == p = 0 \/ wpc[p] # "done"
Alive(p) == p = 0 \/ wpc[p] \notin {"off"} \cup Over

Go(d, label) == dpc' = [dpc EXCEPT ![d] = label]
GoW(w, label) == wpc' = [wpc EXCEPT ![w] = label]

Init ==
  /\ faults \in Scenarios
  /\ place = [c \in Captures |-> "coming"]
  /\ born = [c \in Captures |-> 0]
  /\ night = 0
  /\ dpc = [d \in Dailies |-> "off"]
  /\ pid = [d \in Dailies |-> 0]
  /\ todo = [d \in Dailies |-> {}]
  /\ file = [d \in Dailies |-> 0]
  /\ wpc = [w \in Weeklies |-> "off"]
  /\ disturbed = {}
  /\ lock = [there |-> FALSE, pid |-> 0]
  /\ pcap_files = [week |-> NewFiles, prev |-> NoFiles]
  /\ dns_packets = [week |-> NewPackets, prev |-> NoPackets]
  /\ view = IF "view" \in faults THEN "week" ELSE "none"
  /\ loaded = {}
  /\ reported = {}

(* A capture is put into dump; captures have distinct, dated names.        *)
Arrive(c) ==
  /\ place[c] = "coming"
  /\ \A b \in Captures : b < c => place[b] # "coming"
  /\ place' = [place EXCEPT ![c] = "dump"]
  /\ born' = [born EXCEPT ![c] = night]
  /\ UNCHANGED <<faults, daily, weekly, database, history>>

---------------------------------------------------------------------------
(* dailyreport.                                                            *)

StartDaily(d) ==
  /\ d = night + 1
  /\ "overlap" \notin faults => \A e \in Dailies : dpc[e] \in {"off"} \cup Over
  /\ night' = d
  /\ Go(d, "lock")
  /\ UNCHANGED <<directories, pid, todo, file, weekly, database, history>>

(* The lock file is read once, before the wait.                            *)
CheckLock(d) ==
  /\ dpc[d] = "lock"
  /\ IF lock.there THEN Go(d, "wait") /\ pid' = [pid EXCEPT ![d] = lock.pid]
                   ELSE Go(d, "away") /\ UNCHANGED pid
  /\ UNCHANGED <<directories, night, todo, file, weekly, database, history>>

EndWait(d) ==
  /\ dpc[d] = "wait"
  /\ ~Alive(pid[d])
  /\ Go(d, "away")
  /\ UNCHANGED <<directories, night, pid, todo, file, weekly, database, history>>

In(dir) == {c \in Captures : place[c] = dir}

(* mv current/* backup/, mv dump/*cap* current/, find backup ... -exec rm: *)
(* the job goes on behind them whatever their status is.                   *)
Moved(files, to) ==
  \E reached \in IF "mv" \in faults THEN SUBSET files ELSE {files} :
    place' = [c \in Captures |-> IF c \in reached THEN to ELSE place[c]]

(* (The first: were they copied.)                                          *)
CopiedAway == place' = place
MovedAway  == Moved(In("current"), "backup")

MoveAway(d) ==
  /\ dpc[d] = "away"
  /\ MovedAway
  /\ Go(d, "fetch")
  /\ UNCHANGED <<faults, born, night, pid, todo, file, weekly, database, history>>

Fetch(d) ==
  /\ dpc[d] = "fetch"
  /\ Moved(In("dump"), "current")
  /\ Go(d, "expire")
  /\ UNCHANGED <<faults, born, night, pid, todo, file, weekly, database, history>>

(* A capture arrives between two nights: whole days of age, rounded down.  *)
Expired == {c \in In("backup") : night - born[c] - 1 > BackupDays}

Expire(d) ==
  /\ dpc[d] = "expire"
  /\ Moved(Expired, "gone")
  /\ Go(d, "glob")
  /\ UNCHANGED <<faults, born, night, pid, todo, file, weekly, database, history>>

(* The words of the for loop.  When nothing matches, the pattern itself is *)
(* the only word, and packets2postgresql cannot open it.                   *)
(* (The first: did it match one file a night.)                             *)
FirstWord == {c \in In("current") : \A b \in In("current") : c <= b}
Words == In("current")

Glob(d) ==
  /\ dpc[d] = "glob"
  /\ todo' = [todo EXCEPT ![d] = Words]
  /\ Go(d, IF Words = {} THEN "failed" ELSE "open")
  /\ UNCHANGED <<directories, night, pid, file, weekly, database, history>>

(* packets2postgresql opens the next word.                                 *)
OpenFile(d) ==
  /\ dpc[d] = "open"
  /\ \E c \in todo[d] :
       /\ \A b \in todo[d] : c <= b
       /\ file' = [file EXCEPT ![d] = c]
       /\ Go(d, IF place[c] = "current" THEN "files" ELSE "failed")
  /\ UNCHANGED <<directories, night, pid, todo, weekly, database, history>>

(* BEGIN, and the row of Pcap_files: fatal without the table or when the   *)
(* name is in it; waits for another load of the name.                      *)
InsertFile(d) ==
  /\ dpc[d] = "files"
  /\ \A e \in Dailies \ {d} : dpc[e] \in Loading => file[e] # file[d]
  /\ Go(d, IF pcap_files.week.there /\ file[d] \notin pcap_files.week.rows
             THEN "packets" ELSE "failed")
  /\ UNCHANGED <<directories, night, pid, todo, file, weekly, database, history>>

(* The rows of DNS_Packets.  A foreign key that points to the other table  *)
(* is fulfilled when the new id is by chance the id of a row there: both   *)
(* tables count from 1.                                                    *)
MayAccept ==
  dns_packets.week.there /\ (dns_packets.week.refs = "prev" => pcap_files.prev.rows # {})
MayRefuse ==
  dns_packets.week.there => dns_packets.week.refs = "prev"

InsertPackets(d) ==
  /\ dpc[d] = "packets"
  /\ \/ MayAccept /\ Go(d, "commit")
     \/ MayRefuse /\ Go(d, "failed")
  /\ UNCHANGED <<directories, night, pid, todo, file, weekly, database, history>>

(* (The first: were the loop left behind the first load.)                  *)
AnyWord(d)  == TRUE
LastWord(d) == todo[d] = {file[d]}

CommitLoad(d) ==
  /\ dpc[d] = "commit"
  /\ pcap_files' = [pcap_files EXCEPT !.week.rows = @ \cup {file[d]}]
  /\ dns_packets' = [dns_packets EXCEPT !.week.rows = @ \cup {file[d]}]
  /\ loaded' = loaded \cup {file[d]}
  /\ todo' = [todo EXCEPT ![d] = @ \ {file[d]}]
  /\ Go(d, IF LastWord(d) THEN "report" ELSE "open")
  /\ UNCHANGED <<directories, night, pid, file, weekly, view, reported>>

(* make and make install: every page reads DNS_Packets.                    *)
Report(d) ==
  /\ dpc[d] = "report"
  /\ IF dns_packets.week.there
       THEN Go(d, "done") /\ reported' = reported \cup {d}
       ELSE Go(d, "failed") /\ UNCHANGED reported
  /\ UNCHANGED <<directories, night, pid, todo, file, weekly, database, loaded>>

(* error, or a kill: the open transaction is rolled back.                  *)
FailDaily(d) ==
  /\ "daily" \in faults
  /\ dpc[d] \notin {"off"} \cup Over
  /\ Go(d, "failed")
  /\ UNCHANGED <<directories, night, pid, todo, file, weekly, database, history>>

---------------------------------------------------------------------------
(* weeklyrotate.                                                           *)

(* The last dailyreport began 18 hours ago; it is over, unless it waits    *)
(* behind a lock file without a pid.                                       *)
DailiesOver ==
  \A d \in Dailies : dpc[d] \in {"off"} \cup Over \/ (dpc[d] = "wait" /\ pid[d] = 0)

(* echo $$ > /tmp/database.lock: the shell creates or empties the file ... *)
StartWeekly(w) ==
  /\ wpc[w] = "off"
  /\ \A v \in Weeklies : v < w => wpc[v] \in Over
  /\ "late" \notin faults => DailiesOver
  /\ lock' = [there |-> TRUE, pid |-> 0]
  /\ GoW(w, "writePid")
  /\ UNCHANGED <<directories, daily, disturbed, database, history>>

(* ... and then writes into it.                                            *)
WritePid(w) ==
  /\ wpc[w] = "writePid"
  /\ \/ lock' = [lock EXCEPT !.pid = w]
     \/ "full" \in faults /\ UNCHANGED lock
  /\ GoW(w, "dropPackets")
  /\ UNCHANGED <<directories, daily, disturbed, database, history>>

(* One statement of rotate.sql or create.sql, each a transaction: when it  *)
(* is refused, psql goes on with the next.                                 *)
Statement(w, label, next, possible, Effect) ==
  /\ wpc[w] = label
  /\ GoW(w, next)
  /\ \/ possible /\ Effect /\ UNCHANGED disturbed
     \/ ~possible /\ UNCHANGED <<database, disturbed>>
     \/ /\ "sql" \in faults
        /\ disturbed' = disturbed \cup {w}
        /\ UNCHANGED database
  /\ UNCHANGED <<directories, daily, lock, history>>

(* (The first: were the DROP commented out like the one before it.)        *)
PacketsStay      == FALSE
PacketsDroppable == dns_packets.prev.there /\ view # "prev"

(* The DROP also takes the table its foreign key points to.                *)
DropPackets(w) ==
  /\ dns_packets.prev.refs = "week" => ~FilesInUse
  /\ Statement(w, "dropPackets", "renamePackets",
       PacketsDroppable,
       /\ dns_packets' = [dns_packets EXCEPT !.prev = NoPackets]
       /\ UNCHANGED <<pcap_files, view>>)

RenamePackets(w) ==
  /\ ~PacketsInUse
  /\ Statement(w, "renamePackets", "dropFiles",
       dns_packets.week.there /\ ~dns_packets.prev.there,
       /\ dns_packets' = [week |-> NoPackets, prev |-> dns_packets.week]
       /\ view' = IF view = "week" THEN "prev" ELSE view
       /\ UNCHANGED pcap_files)

(* A DROP is refused while a foreign key points to the table.              *)
Referenced(slot) ==
  \E s \in Slots : dns_packets[s].there /\ dns_packets[s].refs = slot

(* (The first: were the DROP commented out like the one before it.)        *)
FilesStay      == FALSE
FilesDroppable == pcap_files.prev.there /\ ~Referenced("prev")

DropFiles(w) ==
  Statement(w, "dropFiles", "renameFiles",
    FilesDroppable,
    /\ pcap_files' = [pcap_files EXCEPT !.prev = NoFiles]
    /\ UNCHANGED <<dns_packets, view>>)

(* The foreign key follows the table.  (The first two: did it keep the     *)
(* name, or were it lost.)                                                 *)
FollowNot(p)     == p
FollowNowhere(p) == IF p.there /\ p.refs = "week" THEN [p EXCEPT !.refs = "none"] ELSE p
Follow(p) == IF p.there /\ p.refs = "week" THEN [p EXCEPT !.refs = "prev"] ELSE p

FilesRenamable == pcap_files.week.there /\ ~pcap_files.prev.there

RenameFiles(w) ==
  /\ ~FilesInUse
  /\ Statement(w, "renameFiles", "createFiles",
       FilesRenamable,
       /\ pcap_files' = [week |-> NoFiles, prev |-> pcap_files.week]
       /\ dns_packets' = [s \in Slots |-> Follow(dns_packets[s])]
       /\ UNCHANGED view)

FilesMissing == ~pcap_files.week.there

CreateFiles(w) ==
  Statement(w, "createFiles", "createPackets",
    FilesMissing,
    /\ pcap_files' = [pcap_files EXCEPT !.week = NewFiles]
    /\ UNCHANGED <<dns_packets, view>>)

CreatePackets(w) ==
  /\ ~FilesInUse
  /\ Statement(w, "createPackets", "sleep",
       ~dns_packets.week.there /\ pcap_files.week.there,
       /\ dns_packets' = [dns_packets EXCEPT !.week = NewPackets]
       /\ UNCHANGED <<pcap_files, view>>)

RemoveLock(w) ==
  /\ wpc[w] = "sleep"
  /\ lock' = [there |-> FALSE, pid |-> 0]
  /\ GoW(w, "done")
  /\ UNCHANGED <<directories, daily, disturbed, database, history>>

(* Killed, or exit 1 behind psql: the lock file stays.                     *)
FailWeekly(w) ==
  /\ "kill" \in faults
  /\ wpc[w] \notin {"off"} \cup Over
  /\ GoW(w, "failed")
  /\ UNCHANGED <<directories, daily, disturbed, lock, database, history>>

---------------------------------------------------------------------------
StepDaily(d) ==
  \/ CheckLock(d) \/ EndWait(d) \/ MoveAway(d) \/ Fetch(d) \/ Expire(d) \/ Glob(d)
  \/ OpenFile(d) \/ InsertFile(d) \/ InsertPackets(d) \/ CommitLoad(d) \/ Report(d)

StepWeekly(w) ==
  \/ WritePid(w)
  \/ DropPackets(w) \/ RenamePackets(w) \/ DropFiles(w) \/ RenameFiles(w)
  \/ CreateFiles(w) \/ CreatePackets(w) \/ RemoveLock(w)

Next ==
  \/ \E c \in Captures : Arrive(c)
  \/ \E d \in Dailies : StartDaily(d) \/ StepDaily(d) \/ FailDaily(d)
  \/ \E w \in Weeklies : StartWeekly(w) \/ StepWeekly(w) \/ FailWeekly(w)

(* cron starts dailyreport every night; a job that was started is          *)
(* scheduled until it is over.                                             *)
Fairness ==
  /\ \A d \in Dailies : WF_vars(StartDaily(d)) /\ WF_vars(StepDaily(d))
  /\ \A w \in Weeklies : WF_vars(StepWeekly(w))

Spec == Init /\ [][Next]_vars /\ Fairness

---------------------------------------------------------------------------
(* Properties.                                                             *)

DailyLabels  == {"off", "lock", "wait", "away", "fetch", "expire", "glob", "open",
                 "files", "packets", "commit", "report"} \cup Over
Rotating     == {"dropPackets", "renamePackets", "dropFiles", "renameFiles",
                 "createFiles", "createPackets"}
WeeklyLabels == {"off", "writePid", "sleep"} \cup Rotating \cup Over

FilesType   == [there : BOOLEAN, rows : SUBSET Captures]
PacketsType == [there : BOOLEAN, rows : SUBSET Captures, refs : Slots]

(* The variables stay in their types.                                      *)
TypeOK ==
  /\ faults \in Scenarios
  /\ place \in [Captures -> {"coming", "dump", "current", "backup", "gone"}]
  /\ born \in [Captures -> 0..Nights]
  /\ night \in 0..Nights
  /\ dpc \in [Dailies -> DailyLabels]
  /\ pid \in [Dailies -> 0..Weeks]
  /\ todo \in [Dailies -> SUBSET Captures]
  /\ file \in [Dailies -> 0..NumCaptures]
  /\ wpc \in [Weeklies -> WeeklyLabels]
  /\ disturbed \subseteq Weeklies
  /\ lock \in [there : BOOLEAN, pid : 0..Weeks]
  /\ pcap_files \in [week : FilesType, prev : FilesType]
  /\ dns_packets \in [week : PacketsType, prev : PacketsType]
  /\ view \in Slots \cup {"none"}
  /\ loaded \subseteq Captures
  /\ reported \subseteq Dailies

(* The lock does its work: no capture is loaded, and no report made, while *)
(* the tables are renamed, as long as each dailyreport is over when        *)
(* weeklyrotate starts.  It does so although dailyreport never takes the   *)
(* lock, and reads the file only once.                                     *)
AtWork == {"files", "packets", "commit", "report"}

LoadsUndisturbed ==
  "late" \notin faults =>
    \A d \in Dailies, w \in Weeklies : ~(dpc[d] \in AtWork /\ wpc[w] \in Rotating)

(* A rotation none of whose statements fails by itself leaves tables that  *)
(* packets can be loaded into, whatever the rotations before it left       *)
(* behind: killed between two statements, or with some of them refused     *)
(* (or half-way because of the view, but not both).                        *)
Usable ==
  /\ pcap_files.week.there /\ dns_packets.week.there
  /\ dns_packets.week.refs = "week"

RotationRepairs ==
  ~({"view", "sql"} \subseteq faults) =>
    \A w \in Weeklies : wpc[w] = "sleep" /\ w \notin disturbed => Usable

(* It also leaves them empty: whichever statements an earlier rotation did *)
(* not come to, the old week's rows are moved out of the way.  (Not with   *)
(* the view, or a statement refused.)                                      *)
FreshWeek ==
  {"view", "sql", "late"} \cap faults = {} => \A w \in Weeklies :
    wpc[w] = "sleep" => pcap_files.week = NewFiles /\ dns_packets.week = NewPackets

(* The file column of DNS_Packets leads to the row of the capture the      *)
(* packet comes from, also between the statements of a rotation, after one *)
(* was killed, and for loads that run into it.  (It may not when a RENAME  *)
(* is refused alone: then the packets of a week point to the files of      *)
(* another, and ids that are there by chance are accepted.)                *)
PacketsOfTheirFile ==
  "sql" \notin faults =>
    \A s \in Slots : dns_packets[s].rows \subseteq pcap_files[dns_packets[s].refs].rows

(* A capture enters the database once, though its file stays in current    *)
(* until the next night, and passes through the two tables week by week:   *)
(* what WeekStore promises to the reports.  It may enter another week only *)
(* when mv leaves a loaded file in current, or a dailyreport is both so    *)
(* late that it meets a rotation and so slow that it meets the next one.   *)
TooSlow == {"late", "overlap"} \subseteq faults
Again   == TooSlow \/ "mv" \in faults

Week == INSTANCE WeekStore WITH
  thisWeek <- pcap_files.week.rows, lastWeek <- pcap_files.prev.rows, ever <- loaded,
  again <- Again

WeekStoreSpec == Week!Spec

(* cron/dailyreport:18: "Save content of new files into database".  No new *)
(* file is moved out of current before that is done.                       *)
NewFilesSaved ==
  \A c \in Captures : place[c] \in {"backup", "gone"} => c \in loaded

(* What the code keeps of that: a capture is moved away unsaved only       *)
(* behind a dailyreport that failed (or from under one that takes more     *)
(* than a day).                                                            *)
SavedUnlessFailed ==
  "overlap" \notin faults =>
    NewFilesSaved \/ \E d \in Dailies : dpc[d] = "failed"

(* Every dailyreport ends, also when weeklyrotate was killed and left its  *)
(* lock file behind: then its pid has no entry in /proc.  Only a lock file *)
(* without a pid holds it up for good.                                     *)
DailyEnds ==
  \A d \in Dailies :
    dpc[d] = "lock" ~> dpc[d] \in Over \/ (dpc[d] = "wait" /\ pid[d] = 0)

(* A capture in current comes into the database, unless something failed.  *)
(* (A dailyreport that is TooSlow may find it moved away, and load what    *)
(* the next one loads too, a week later, so that nothing fails.)           *)
CurrentLoaded ==
  ~TooSlow => \A c \in Captures :
    place[c] = "current" ~> c \in loaded \/ \E d \in Dailies : dpc[d] = "failed"
=============================================================================
