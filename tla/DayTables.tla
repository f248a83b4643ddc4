----------------------------- MODULE DayTables -----------------------------
(***************************************************************************)
(* reporting/sajat: how the reports of a day are made.  make starts a      *)
(* script for each page or plot that is out of date; the first script of a *)
(* day copies the day's rows of DNS_Packets into a table of their own and  *)
(* notes its name in temptables, the others find the table.  make clean    *)
(* drops the tables temptables names and removes the pages.  The nightly   *)
(* job goes on when its make clean fails, and a plot's script when gnuplot *)
(* fails.                                                                  *)
(*                                                                         *)
(* Rows are numbers here: that of the last load of the day's packets that  *)
(* is among them.  (A day without packets, of which gnuplot draws nothing, *)
(* is among the failures of "kill".)                                       *)
(***************************************************************************)
EXTENDS Integers

CONSTANTS
  Nightly,   (* executions of make clean; make; make install               *)
  ByHand,    (* executions of make install DATE=..., as the README says    *)
  Pages,     (* files make all makes: pages and plots                      *)
  Plots,     (* the .png among them                                        *)
  Uses,      (* the plots each page depends on                             *)
  LastDay,   (* days that pass                                             *)
  MaxLoads,  (* loads with packets of the same day                         *)
  Scenarios  (* sets of what may happen in one behaviour:                  *)
             (* "load": packets of days that are over are still loaded;    *)
             (* "kill": anything may be killed or fail, at any point;      *)
             (* "drop": psql may not reach the server;                     *)
             (* "midnight": a day may pass while make runs;                *)
             (* "byHand": the executions by hand;                          *)
             (* "together": two makes may run at a time                    *)

Days  == 0..LastDay
Makes == Nightly \cup ByHand

ASSUME DayTablesAssumption ==
  /\ LastDay \in Nat \ {0} /\ MaxLoads \in Nat
  /\ Plots # {} /\ Plots \subseteq Pages
  /\ Uses \in [Pages -> SUBSET Plots]
  /\ \A p \in Plots : Uses[p] = {}
  /\ Nightly \cap ByHand = {}
  /\ Scenarios \subseteq
       SUBSET {"load", "kill", "drop", "midnight", "byHand", "together"}

VARIABLES
  faults,      (* the scenario                                             *)
  today,
  stored,      (* rows of each day in DNS_Packets                          *)
  dayTable,    (* the tables dns_packets_YYYYMMDD                          *)
  temptables,  (* the file: is it there, and which days it names           *)
  html,        (* the pages in the working directory: their day and rows,  *)
               (* whether they were written to their end, and whether they *)
               (* are older than a plot they depend on                     *)
  results,     (* the pages installed for each day, and whose they are     *)
  mpc,         (* where each make is                                       *)
  date,        (* DATE, as the recipe in progress knows it                 *)
  page,        (* the page the script in progress makes                    *)
  seen,        (* lines of temptables cleanuptables has read               *)
  copied,      (* rows the CREATE TABLE in progress copies                 *)
  installing,  (* the executions whose make install has begun              *)
  made,        (* the pages whose recipe the make in progress has run      *)
  startedAt,   (* history: the rows of its day when the make began         *)
  skipped,     (* history: the executions whose make clean was cut short   *)
  torn         (* history: the plots that a failed gnuplot left            *)

world  == <<faults, today, stored>>
tables == <<dayTable, temptables>>
output == <<html, results>>
script == <<date, page, seen, copied>>
make   == <<installing, made>>
past   == <<startedAt, skipped, torn>>
vars   == <<world, tables, output, mpc, script, make, past>>

Missing == [there |-> FALSE, whole |-> FALSE, day |-> 0, rows |-> 0, old |-> FALSE]
NoResult == [there |-> FALSE, day |-> 0, rows |-> 0]
NoTable == [there |-> FALSE, rows |-> 0]
Over    == {"done", "failed"}

Go(m, label) == mpc' = [mpc EXCEPT ![m] = label]

Init ==
  /\ faults \in Scenarios
  /\ today = 1
  /\ stored = [d \in Days |-> 0]
  /\ dayTable = [d \in Days |-> NoTable]
  /\ temptables = [there |-> FALSE, names |-> {}]
  /\ html = [p \in Pages |-> Missing]
  /\ results = [d \in Days |-> [p \in Pages |-> NoResult]]
  /\ mpc = [m \in Makes |-> "off"]
  /\ date = [m \in Makes |-> 0]
  /\ page = [m \in Makes |-> CHOOSE p \in Pages : TRUE]
  /\ seen = [m \in Makes |-> {}]
  /\ copied = [m \in Makes |-> 0]
  /\ installing = ByHand
  /\ made = [m \in Makes |-> {}]
  /\ startedAt = [m \in Makes |-> 0]
  /\ skipped = {}
  /\ torn = {}

Running == {m \in Makes : mpc[m] \notin {"off"} \cup Over}
Idle == Running = {}

NextDay ==
  /\ today < LastDay
  /\ "midnight" \notin faults => Idle
  /\ today' = today + 1
  /\ UNCHANGED <<faults, stored, tables, output, mpc, script, make, past>>

(* A load commits packets of a day that is over.  (No make looks at those  *)
(* of the day that runs before it is over: they count then.)               *)
Load(d) ==
  /\ "load" \in faults
  /\ d < today
  /\ stored[d] < MaxLoads
  /\ stored' = [stored EXCEPT ![d] = @ + 1]
  /\ UNCHANGED <<faults, today, tables, output, mpc, script, make, past>>

(* DATE of the Makefile is a command, which the shell runs in each recipe; *)
(* by hand it is given once.  (The first: were it the day before           *)
(* yesterday.)                                                             *)
RecipeDateBefore(m) == IF m \in Nightly THEN today - 2 ELSE date[m]
RecipeDate(m) == IF m \in Nightly THEN today - 1 ELSE date[m]

Start(m) ==
  /\ mpc[m] = "off"
  /\ m \in ByHand => "byHand" \in faults
  /\ \A n, o \in Running : n = o /\ "together" \in faults
  /\ \E d \in (IF m \in Nightly THEN {today - 1} ELSE 0..(today - 1)) :
       /\ date' = [date EXCEPT ![m] = d]
       /\ startedAt' = [startedAt EXCEPT ![m] = stored[d]]
  /\ Go(m, IF m \in Nightly THEN "clean" ELSE "all")
  /\ UNCHANGED <<world, tables, output, page, seen, copied, make, skipped, torn>>

---------------------------------------------------------------------------
(* make clean: cleanuptables, then rm.                                     *)

Clean(m) ==
  /\ mpc[m] = "clean"
  /\ Go(m, IF temptables.there THEN "drop" ELSE "rmPages")
  /\ UNCHANGED <<world, tables, output, script, make, past>>

(* (The first: were the DROP rolled back when psql ends.)                  *)
AfterDropUndone(d) == dayTable[d]
AfterDrop(d) == NoTable

DropTable(m) ==
  /\ mpc[m] = "drop"
  /\ \E d \in temptables.names \ seen[m] :
       /\ seen' = [seen EXCEPT ![m] = @ \cup {d}]
       /\ \/ dayTable' = [dayTable EXCEPT ![d] = AfterDrop(d)]
          \/ {"drop", "kill"} \cap faults # {} /\ UNCHANGED dayTable
  /\ UNCHANGED <<world, temptables, output, mpc, date, page, copied, make, past>>

(* (The first: were the list removed before its tables are dropped.)       *)
ListReadNever(m) == TRUE
ListRead(m) == temptables.names \subseteq seen[m]

EndOfList(m) ==
  /\ mpc[m] = "drop"
  /\ ListRead(m)
  /\ Go(m, "rmList")
  /\ UNCHANGED <<world, tables, output, script, make, past>>

(* if ! false: the list is removed, whether the tables are or not.         *)
RemoveList(m) ==
  /\ mpc[m] = "rmList"
  /\ temptables' = [there |-> FALSE, names |-> {}]
  /\ seen' = [seen EXCEPT ![m] = {}]
  /\ Go(m, "rmPages")
  /\ UNCHANGED <<world, dayTable, output, date, page, copied, make, past>>

(* (The first: were the pages not among the files rm is given.)            *)
PagesKept    == html
PagesRemoved == [p \in Pages |-> Missing]

RemovePages(m) ==
  /\ mpc[m] = "rmPages"
  /\ html' = PagesRemoved
  /\ torn' = {}
  /\ Go(m, "all")
  /\ UNCHANGED <<world, tables, results, script, make, startedAt, skipped>>

---------------------------------------------------------------------------
(* make all: a script for each page that is not there or older than a plot *)
(* it depends on, behind the scripts of those plots, and one for each page *)
(* in an execution of make.                                                *)

OutOfDate(m, p) == p \notin made[m] /\ (~html[p].there \/ html[p].old)

StartPage(m) ==
  /\ mpc[m] = "all"
  /\ \E p \in Pages :
       /\ OutOfDate(m, p) /\ \A g \in Uses[p] : ~OutOfDate(m, g)
       /\ page' = [page EXCEPT ![m] = p]
  /\ date' = [date EXCEPT ![m] = RecipeDate(m)]
  /\ Go(m, "create")
  /\ UNCHANGED <<world, tables, output, seen, copied, make, past>>

(* make is followed by make install, which looks at all pages again, as    *)
(* install depends on all.                                                 *)
MakeInstall(m) ==
  /\ mpc[m] = "all" /\ m \notin installing
  /\ \A p \in Pages : ~OutOfDate(m, p)
  /\ installing' = installing \cup {m}
  /\ made' = [made EXCEPT ![m] = {}]
  /\ UNCHANGED <<world, tables, output, mpc, script, past>>

AllMade(m) ==
  /\ mpc[m] = "all" /\ m \in installing
  /\ \A p \in Pages : ~OutOfDate(m, p)
  /\ made' = [made EXCEPT ![m] = {}]
  /\ Go(m, "install")
  /\ UNCHANGED <<world, tables, output, script, installing, past>>

(* An open transaction that creates the same table; the server ends it     *)
(* when its client is gone.  (The first: did it not.)                      *)
CreatingForEver(m) ==
  \E n \in Makes \ {m} : mpc[n] \in {"creating", "failed"} /\ date[n] = date[m]
Creating(m) == \E n \in Makes \ {m} : mpc[n] = "creating" /\ date[n] = date[m]

(* Error 42P07: the table is there.                                        *)
TableThere(m) ==
  /\ mpc[m] = "create"
  /\ dayTable[date[m]].there
  /\ Go(m, "query")
  /\ UNCHANGED <<world, tables, output, script, make, past>>

(* CREATE TABLE ... AS SELECT takes the rows committed by now; the table   *)
(* is invisible until conn.commit.                                         *)
BeginCreate(m) ==
  /\ mpc[m] = "create"
  /\ ~dayTable[date[m]].there
  /\ IF Creating(m)
       THEN Go(m, "blocked") /\ UNCHANGED copied
       ELSE Go(m, "creating") /\ copied' = [copied EXCEPT ![m] = stored[date[m]]]
  /\ UNCHANGED <<world, tables, output, date, page, seen, make, past>>

CommitCreate(m) ==
  /\ mpc[m] = "creating"
  /\ dayTable' = [dayTable EXCEPT ![date[m]] = [there |-> TRUE, rows |-> copied[m]]]
  /\ copied' = [copied EXCEPT ![m] = 0]
  /\ Go(m, "list")
  /\ UNCHANGED <<world, temptables, output, date, page, seen, make, past>>

(* Two CREATEs of a name at once: the second waits, and fails with 23505,  *)
(* which the script does not expect, when the first commits.               *)
Unblock(m) ==
  /\ mpc[m] = "blocked"
  /\ ~Creating(m)
  /\ Go(m, IF dayTable[date[m]].there THEN "failed" ELSE "create")
  /\ UNCHANGED <<world, tables, output, script, make, past>>

List(m) ==
  /\ mpc[m] = "list"
  /\ temptables' = [there |-> TRUE, names |-> temptables.names \cup {date[m]}]
  /\ Go(m, "query")
  /\ UNCHANGED <<world, dayTable, output, script, make, past>>

(* The query of the page reads the day's table, and fails when the table   *)
(* was dropped; then the file is opened, and so emptied.  (The first: did  *)
(* the page read DNS_Packets.)                                             *)
RowsReadLive(d) == stored[d]
RowsRead(d)     == dayTable[d].rows

(* The pages, when page p of day d is opened: those that depend on it are  *)
(* older now.                                                              *)
Opened(p, d) ==
  [q \in Pages |->
     IF q = p THEN [there |-> TRUE, whole |-> FALSE, day |-> d, rows |-> RowsRead(d),
                    old |-> FALSE]
              ELSE [html[q] EXCEPT !.old = @ \/ (html[q].there /\ p \in Uses[q])]]

Query(m) ==
  /\ mpc[m] = "query"
  /\ IF dayTable[date[m]].there
       THEN html' = Opened(page[m], date[m]) /\ Go(m, "write")
       ELSE UNCHANGED html /\ Go(m, "failed")
  /\ UNCHANGED <<world, tables, results, script, make, past>>

WritePage(m) ==
  /\ mpc[m] = "write"
  /\ html' = [html EXCEPT ![page[m]].whole = TRUE]
  /\ made' = [made EXCEPT ![m] = @ \cup {page[m]}]
  /\ torn' = torn \ {page[m]}
  /\ Go(m, "all")
  /\ UNCHANGED <<world, tables, results, script, installing, startedAt, skipped>>

(* gnuplot, whose status the script ignores, leaves a part of the plot or  *)
(* no file; the recipe has succeeded.                                      *)
PlotFails(m) ==
  /\ "kill" \in faults
  /\ mpc[m] = "write" /\ page[m] \in Plots
  /\ UNCHANGED html \/ html' = [html EXCEPT ![page[m]] = Missing]
  /\ made' = [made EXCEPT ![m] = @ \cup {page[m]}]
  /\ torn' = torn \cup {page[m]}
  /\ Go(m, "all")
  /\ UNCHANGED <<world, tables, results, script, installing, startedAt, skipped>>

(* mkdir and cp into the directory of DATE: what was installed earlier is  *)
(* replaced by the pages that are there.  cp *.png fails without a plot.   *)
PagesThere == {p \in Pages : html[p].there}

Copied(S, d) ==
  [p \in Pages |->
     IF p \in S THEN [there |-> TRUE, day |-> html[p].day, rows |-> html[p].rows]
                ELSE results[d][p]]

Install(m) ==
  /\ mpc[m] = "install"
  /\ results' = [results EXCEPT ![RecipeDate(m)] = Copied(PagesThere, RecipeDate(m))]
  /\ date' = [date EXCEPT ![m] = RecipeDate(m)]
  /\ Go(m, IF PagesThere \cap Plots = {} THEN "failed" ELSE "done")
  /\ UNCHANGED <<world, tables, html, page, seen, copied, make, past>>

(* Killed in the middle of cp, which makes the copies one by one.          *)
KillInstall(m) ==
  /\ "kill" \in faults
  /\ mpc[m] = "install"
  /\ \E S \in SUBSET PagesThere :
       results' = [results EXCEPT ![RecipeDate(m)] = Copied(S, RecipeDate(m))]
  /\ Go(m, "failed")
  /\ UNCHANGED <<world, tables, html, script, make, past>>

(* The status of make clean is ignored: when it is cut short, also with a  *)
(* part of the pages removed, the plots first, the job goes on.            *)
CutClean(m) ==
  /\ "kill" \in faults
  /\ mpc[m] \in {"clean", "drop", "rmList", "rmPages"}
  /\ \E S \in SUBSET Pages :
       /\ S # {} => mpc[m] = "rmPages" /\ (S \subseteq Plots \/ Plots \subseteq S)
       /\ html' = [p \in Pages |-> IF p \in S THEN Missing ELSE html[p]]
       /\ torn' = torn \ S
  /\ seen' = [seen EXCEPT ![m] = {}]
  /\ skipped' = skipped \cup {m}
  /\ Go(m, "all")
  /\ UNCHANGED <<world, tables, results, date, page, copied, make, startedAt>>

(* The job is killed, or a recipe fails, which ends make and the job.  The *)
(* page that was being written stays as it is, and counts as made then,    *)
(* unless make, killed by a signal itself, removes it.                     *)
Kill(m) ==
  /\ "kill" \in faults
  /\ mpc[m] \notin {"off"} \cup Over
  /\ \/ UNCHANGED html
     \/ mpc[m] = "write" /\ html' = [html EXCEPT ![page[m]] = Missing]
  /\ seen' = [seen EXCEPT ![m] = {}]
  /\ copied' = [copied EXCEPT ![m] = 0]
  /\ made' = [made EXCEPT ![m] = {}]
  /\ Go(m, "failed")
  /\ UNCHANGED <<world, tables, results, date, page, installing, past>>

Step(m) ==
  \/ Clean(m) \/ DropTable(m) \/ EndOfList(m) \/ RemoveList(m) \/ RemovePages(m)
  \/ StartPage(m) \/ MakeInstall(m) \/ AllMade(m) \/ TableThere(m) \/ BeginCreate(m) \/ CommitCreate(m)
  \/ Unblock(m) \/ List(m) \/ Query(m) \/ WritePage(m) \/ Install(m)

Next ==
  \/ NextDay
  \/ \E d \in Days : Load(d)
  \/ \E m \in Makes :
       \/ Start(m) \/ Step(m)
       \/ PlotFails(m) \/ CutClean(m) \/ Kill(m) \/ KillInstall(m)

(* A make that was started is scheduled until it is over.                  *)
Fairness == \A m \in Makes : WF_vars(Step(m))

Spec == Init /\ [][Next]_vars /\ Fairness

---------------------------------------------------------------------------
(* Properties.                                                             *)

Labels == {"off", "clean", "drop", "rmList", "rmPages", "all", "create", "creating",
           "blocked", "list", "query", "write", "install"} \cup Over

PageType == [there : BOOLEAN, whole : BOOLEAN, day : Days, rows : 0..MaxLoads,
             old : BOOLEAN]

(* The variables stay in their types.                                      *)
TypeOK ==
  /\ faults \in Scenarios
  /\ today \in 1..LastDay
  /\ stored \in [Days -> 0..MaxLoads]
  /\ dayTable \in [Days -> [there : BOOLEAN, rows : 0..MaxLoads]]
  /\ temptables \in [there : BOOLEAN, names : SUBSET Days]
  /\ html \in [Pages -> PageType]
  /\ results \in [Days -> [Pages -> [there : BOOLEAN, day : Days, rows : 0..MaxLoads]]]
  /\ mpc \in [Makes -> Labels]
  /\ date \in [Makes -> Days]
  /\ page \in [Makes -> Pages]
  /\ seen \in [Makes -> SUBSET Days]
  /\ copied \in [Makes -> 0..MaxLoads]
  /\ installing \subseteq Makes /\ made \in [Makes -> SUBSET Pages]
  /\ startedAt \in [Makes -> 0..MaxLoads]
  /\ skipped \subseteq Makes /\ torn \subseteq Plots

(* The pages that the nightly makes install for a day tell of that day,    *)
(* unless a make clean of that day was cut short: the job goes on, and     *)
(* finds pages of an earlier day up to date.  (So does make install        *)
(* DATE=..., which README:61 tells to use.)                                *)
InstalledForDate ==
  {"byHand", "midnight"} \cap faults = {} =>
    \A d \in Days, p \in Pages :
      results[d][p].there =>
        results[d][p].day = d \/ \E m \in skipped : date[m] = d

(* The pages a make is about to install agree with each other, although    *)
(* each is made by a process of its own and loads go on meanwhile: all of  *)
(* them see the same rows, also when the day's table was left over by a    *)
(* killed make, and they are all there and whole, whatever killed scripts  *)
(* left; but for a plot whose gnuplot failed.  This takes a make clean     *)
(* that came to its end.                                                   *)
PagesAgree ==
  faults \subseteq {"load", "kill", "drop"} =>
    \A m \in Makes \ skipped : mpc[m] = "install" =>
      /\ \A p \in Pages : (html[p].there /\ html[p].whole) \/ p \in torn
      /\ \A p, q \in PagesThere :
           html[p].day = html[q].day /\ html[p].rows = html[q].rows

(* Reports are not stale: a page installed by a make tells at least of     *)
(* what was in the database when that make began, although it is made from *)
(* a copy that is used without a look at when it was taken.                *)
PagesFresh ==
  faults \subseteq {"load"} =>
    \A m \in Makes : mpc[m] = "done" =>
      \A p \in Pages : results[date[m]][p].rows >= startedAt[m]

(* A day table that exists is named in temptables, unless its script is    *)
(* about to write the name: so the next make clean drops it.  (Not when    *)
(* one is killed there, when a DROP fails, which does not save the list,   *)
(* or when one make's clean meets another's page.)                         *)
TablesListed ==
  {"kill", "drop", "together"} \cap faults = {} =>
    \A d \in Days : dayTable[d].there =>
      d \in temptables.names \/ \E m \in Makes : mpc[m] = "list" /\ date[m] = d

(* Every make ends, also beside another one: they do not wait for each     *)
(* other for good.                                                         *)
MakesEnd == \A m \in Makes : mpc[m] # "off" ~> mpc[m] \in Over
=============================================================================
