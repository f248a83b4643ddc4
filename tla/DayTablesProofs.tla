-------------------------- MODULE DayTablesProofs --------------------------
(***************************************************************************)
(* The safety of reporting/sajat's makes, for any number of makes, pages,  *)
(* days and loads.                                                         *)
(***************************************************************************)
EXTENDS DayTables, TLAPS

---------------------------------------------------------------------------
(* The inductive invariant, in parts.                                      *)

(* A make that runs, and one whose pages are of its own making.            *)
Active(m) == mpc[m] \notin {"off", "done", "failed"}
MakingLabels == {"all", "create", "creating", "blocked", "list", "query", "write", "install"}
Making(m) == mpc[m] \in MakingLabels

Move(m) ==
  Start(m) \/ Step(m) \/ PlotFails(m) \/ CutClean(m) \/ Kill(m) \/ KillInstall(m)

(* What a scenario excludes.                                               *)
Never(S) == S \cap faults = {}

Solo ==
  "together" \notin faults =>
    \A m, n \in Makes : Active(m) /\ Active(n) => m = n

Dated ==
  Never({"byHand", "midnight"}) =>
    \A m \in Makes : Active(m) => m \in Nightly /\ date[m] = today - 1

(* What only a failure leaves.                                             *)
Failures ==
  /\ \A m \in skipped : mpc[m] # "off"
  /\ "kill" \notin faults => skipped = {} /\ torn = {}

Base == TypeOK /\ Solo /\ Dated /\ Failures

(* The pages of a make are of its day, and so are those it installs, but   *)
(* for a day whose make clean was cut short.                               *)
CutDay(d) == \E m \in skipped : date[m] = d

DayInv ==
  Never({"byHand", "midnight"}) =>
    /\ \A m \in Makes : Making(m) /\ ~CutDay(today - 1) =>
         \A p \in Pages : html[p].there => html[p].day = today - 1
    /\ \A d \in Days, p \in Pages :
         results[d][p].there /\ ~CutDay(d) => results[d][p].day = d

(* The list names every table; make clean has read the whole list, and     *)
(* dropped its tables, before it removes the list.                         *)
ListedInv ==
  Never({"kill", "drop", "together"}) =>
    /\ \A d \in Days : dayTable[d].there =>
         d \in temptables.names \/ \E m \in Makes : mpc[m] = "list" /\ date[m] = d
    /\ temptables.names # {} => temptables.there
    /\ \A m \in Makes :
         /\ seen[m] # {} => mpc[m] \in {"drop", "rmList"}
         /\ \A d \in seen[m] : ~dayTable[d].there
         /\ mpc[m] = "rmList" => temptables.names \subseteq seen[m]

(* A page tells what the table of its day holds.                           *)
PageOf(m, p) ==
  /\ dayTable[date[m]].there
  /\ html[p].day = date[m]
  /\ html[p].rows = dayTable[date[m]].rows
  /\ html[p].whole \/ p \in torn \/ (mpc[m] = "write" /\ page[m] = p)

(* A make that has run a recipe has its page, but for a plot that failed.  *)
Present(p) == html[p].there \/ p \in torn

AgreeInv ==
  faults \subseteq {"load", "kill", "drop"} =>
    \A m \in Makes :
      /\ mpc[m] = "creating" => ~dayTable[date[m]].there
      /\ mpc[m] = "write" => html[page[m]].there
      /\ mpc[m] \in {"off", "clean", "drop", "rmList", "rmPages", "install"} => made[m] = {}
      /\ Making(m) /\ m \notin skipped =>
           /\ \A p \in Pages : html[p].there => PageOf(m, p)
           /\ \A p \in made[m] : Present(p)
      /\ mpc[m] = "install" /\ m \notin skipped => \A p \in Pages : Present(p)

(* The table of a make is no older than the make.                          *)
FreshInv ==
  faults \subseteq {"load"} =>
    \A m \in Makes :
      /\ startedAt[m] <= stored[date[m]]
      /\ (mpc[m] = "rmPages" \/ Making(m)) /\ dayTable[date[m]].there =>
           dayTable[date[m]].rows >= startedAt[m]
      /\ mpc[m] = "creating" => copied[m] >= startedAt[m]
      /\ mpc[m] = "done" =>
           /\ \A p \in Pages : results[date[m]][p].rows >= startedAt[m]
           /\ \A n \in Makes : Active(n) /\ date[n] = date[m] => startedAt[n] >= startedAt[m]

IInv == Base /\ DayInv /\ ListedInv /\ AgreeInv /\ FreshInv

LEMMA InitInv == Init => IInv
<1> SUFFICES ASSUME Init PROVE IInv
  OBVIOUS
<1>1. TypeOK
  <2>1. (CHOOSE p \in Pages : TRUE) \in Pages
    BY DayTablesAssumption
  <2> QED
    BY <2>1, DayTablesAssumption
    DEF Init, TypeOK, Days, PageType, Missing, NoResult, NoTable, Labels, Over, Makes
<1>2. \A m \in Makes : mpc[m] = "off" /\ seen[m] = {} /\ startedAt[m] = 0 /\ date[m] = 0
  BY DEF Init
<1>3. \A d \in Days : ~dayTable[d].there /\ stored[d] = 0
  BY DEF Init, NoTable
<1>4. \A d \in Days, p \in Pages : ~results[d][p].there
  BY DEF Init, NoResult
<1>6. skipped = {} /\ torn = {} /\ \A m \in Makes : made[m] = {}
  BY DEF Init
<1>5. 0 \in Days /\ temptables.names = {}
  BY DayTablesAssumption DEF Init, Days
<1> QED
  BY <1>1, <1>2, <1>3, <1>4, <1>5, <1>6
  DEF IInv, Base, Solo, Dated, Failures, DayInv, ListedInv, AgreeInv, FreshInv, Active,
     Making, MakingLabels

---------------------------------------------------------------------------
(* Types.                                                                  *)

LEMMA Put ==
  ASSUME NEW S, NEW T, NEW f \in [S -> T], NEW x, NEW v \in T
  PROVE  [f EXCEPT ![x] = v] \in [S -> T]
OBVIOUS

LEMMA Gone ==
  ASSUME NEW m \in Makes, NEW l \in Labels, mpc \in [Makes -> Labels], Go(m, l)
  PROVE  /\ mpc' \in [Makes -> Labels] /\ mpc'[m] = l
         /\ \A n \in Makes : n # m => mpc'[n] = mpc[n]
BY DEF Go

LEMMA Yesterday ==
  ASSUME TypeOK
  PROVE  /\ today - 1 \in Days /\ today \in Nat
         /\ \A m \in Makes : RecipeDate(m) \in Days
         /\ \A d \in 0..(today - 1) : d \in Days
<1>1. today \in 1..LastDay /\ LastDay \in Nat
  BY DayTablesAssumption DEF TypeOK
<1>2. \A m \in Makes : date[m] \in Days
  BY DEF TypeOK
<1>3. today - 1 \in Days
  BY <1>1 DEF Days
<1> QED
  BY <1>1, <1>2, <1>3 DEF RecipeDate, Days

ResultType == [there : BOOLEAN, day : Days, rows : 0..MaxLoads]

LEMMA Records ==
  /\ NoTable \in [there : BOOLEAN, rows : 0..MaxLoads]
  /\ Missing \in PageType
  /\ \A h \in PageType :
       /\ [h EXCEPT !.whole = TRUE] \in PageType
       /\ [there |-> TRUE, day |-> h.day, rows |-> h.rows] \in ResultType
<1>1. /\ NoTable \in [there : BOOLEAN, rows : 0..MaxLoads]
      /\ Missing \in PageType
  BY DayTablesAssumption DEF NoTable, Missing, PageType, Days
<1>2. ASSUME NEW h \in PageType
      PROVE  /\ [h EXCEPT !.whole = TRUE] \in PageType
             /\ [there |-> TRUE, day |-> h.day, rows |-> h.rows] \in ResultType
  <2>1. [h EXCEPT !.whole = TRUE] \in PageType
    BY DEF PageType
  <2>2. h.day \in Days /\ h.rows \in 0..MaxLoads
    BY DEF PageType
  <2> QED
    BY <2>1, <2>2 DEF ResultType
<1> QED
  BY <1>1, <1>2

(* What the steps that write pages make of them.                           *)
LEMMA OpenedPages ==
  ASSUME TypeOK, NEW p \in Pages, NEW d \in Days
  PROVE  /\ Opened(p, d) \in [Pages -> PageType]
         /\ Opened(p, d)[p].there /\ Opened(p, d)[p].day = d
         /\ Opened(p, d)[p].rows = dayTable[d].rows
         /\ \A q \in Pages : q # p =>
              /\ Opened(p, d)[q].there = html[q].there /\ Opened(p, d)[q].day = html[q].day
              /\ Opened(p, d)[q].rows = html[q].rows /\ Opened(p, d)[q].whole = html[q].whole
<1>1. \A q \in Pages : html[q] \in PageType
  BY DEF TypeOK
<1>2. dayTable[d].rows \in 0..MaxLoads
  BY DEF TypeOK
<1>3. [there |-> TRUE, whole |-> FALSE, day |-> d, rows |-> dayTable[d].rows,
       old |-> FALSE] \in PageType
  BY <1>2 DEF PageType
<1>4. ASSUME NEW h \in PageType, NEW b \in BOOLEAN
      PROVE  /\ [h EXCEPT !.old = b] \in PageType
             /\ [h EXCEPT !.old = b].there = h.there /\ [h EXCEPT !.old = b].day = h.day
             /\ [h EXCEPT !.old = b].rows = h.rows /\ [h EXCEPT !.old = b].whole = h.whole
  BY DEF PageType
<1>5. ASSUME NEW q \in Pages, q # p
      PROVE  \E b \in BOOLEAN : Opened(p, d)[q] = [html[q] EXCEPT !.old = b]
  <2>1. html[q].old \in BOOLEAN
    BY <1>1 DEF PageType
  <2>2. Opened(p, d)[q] =
          [html[q] EXCEPT !.old = html[q].old \/ (html[q].there /\ p \in Uses[q])]
    BY <1>5 DEF Opened
  <2>3. (html[q].old \/ (html[q].there /\ p \in Uses[q])) \in BOOLEAN
    OBVIOUS
  <2> QED
    BY <2>2, <2>3
<1>6. Opened(p, d)[p] = [there |-> TRUE, whole |-> FALSE, day |-> d,
                         rows |-> dayTable[d].rows, old |-> FALSE]
  BY DEF Opened, RowsRead
<1>t. ASSUME NEW q \in Pages, q # p
      PROVE  /\ Opened(p, d)[q] \in PageType
             /\ Opened(p, d)[q].there = html[q].there /\ Opened(p, d)[q].day = html[q].day
             /\ Opened(p, d)[q].rows = html[q].rows /\ Opened(p, d)[q].whole = html[q].whole
  <2>1. PICK b \in BOOLEAN : Opened(p, d)[q] = [html[q] EXCEPT !.old = b]
    BY <1>5, <1>t
  <2>2. html[q] \in PageType
    BY <1>1
  <2>3. /\ [html[q] EXCEPT !.old = b] \in PageType
        /\ [html[q] EXCEPT !.old = b].there = html[q].there
        /\ [html[q] EXCEPT !.old = b].day = html[q].day
        /\ [html[q] EXCEPT !.old = b].rows = html[q].rows
        /\ [html[q] EXCEPT !.old = b].whole = html[q].whole
    BY <1>4, <2>2
  <2> QED
    BY <2>1, <2>3
<1>7. \A q \in Pages : Opened(p, d)[q] \in PageType
  BY <1>3, <1>6, <1>t
<1>8. Opened(p, d) = [q \in Pages |-> Opened(p, d)[q]]
  BY DEF Opened
<1>9. \A q \in Pages : q # p =>
        /\ Opened(p, d)[q].there = html[q].there /\ Opened(p, d)[q].day = html[q].day
        /\ Opened(p, d)[q].rows = html[q].rows /\ Opened(p, d)[q].whole = html[q].whole
  BY <1>t
<1>10. /\ Opened(p, d)[p].there /\ Opened(p, d)[p].day = d
       /\ Opened(p, d)[p].rows = dayTable[d].rows
  BY <1>6
<1> QED
  BY <1>7, <1>8, <1>9, <1>10

LEMMA WrittenPages ==
  ASSUME TypeOK, NEW p \in Pages, html' = [html EXCEPT ![p].whole = TRUE]
  PROVE  /\ html' \in [Pages -> PageType]
         /\ html'[p].whole
         /\ \A q \in Pages :
              /\ html'[q].there = html[q].there /\ html'[q].day = html[q].day
              /\ html'[q].rows = html[q].rows
              /\ q # p => html'[q] = html[q]
<1>1. html \in [Pages -> PageType] /\ html[p] \in PageType
  BY DEF TypeOK
<1>2. html' = [html EXCEPT ![p] = [html[p] EXCEPT !.whole = TRUE]]
  OBVIOUS
<1>3. ASSUME NEW h \in PageType
      PROVE  /\ [h EXCEPT !.whole = TRUE].there = h.there
             /\ [h EXCEPT !.whole = TRUE].day = h.day
             /\ [h EXCEPT !.whole = TRUE].rows = h.rows
             /\ [h EXCEPT !.whole = TRUE].whole
  BY DEF PageType
<1>4. html'[p] = [html[p] EXCEPT !.whole = TRUE] /\ \A q \in Pages : q # p => html'[q] = html[q]
  BY <1>1, <1>2
<1>5. html' \in [Pages -> PageType]
  <2>1. [html[p] EXCEPT !.whole = TRUE] \in PageType
    BY <1>1, Records
  <2> QED
    BY <1>1, <1>2, <2>1, Put
<1> QED
  BY <1>1, <1>3, <1>4, <1>5

LEMMA CopiedPages ==
  ASSUME TypeOK, NEW S \in SUBSET PagesThere, NEW d \in Days
  PROVE  /\ Copied(S, d) \in [Pages -> ResultType]
         /\ \A p \in Pages :
              IF p \in S THEN /\ html[p].there /\ Copied(S, d)[p].day = html[p].day
                              /\ Copied(S, d)[p].rows = html[p].rows
                         ELSE Copied(S, d)[p] = results[d][p]
<1>1. \A p \in Pages : html[p] \in PageType /\ results[d][p] \in ResultType
  BY DEF TypeOK, ResultType
<1>2. \A p \in Pages : Copied(S, d)[p] \in ResultType
  BY <1>1, Records DEF Copied
<1>3. Copied(S, d) = [p \in Pages |-> Copied(S, d)[p]]
  BY DEF Copied
<1>4. \A p \in S : html[p].there
  BY DEF PagesThere
<1> QED
  BY <1>2, <1>3, <1>4 DEF Copied

(* A make goes to a label, and leaves what it does not name.               *)
LEMMA TypeStep ==
  ASSUME TypeOK, NEW m \in Makes, Move(m)
  PROVE  TypeOK'
<1>0. \A l \in Labels : Go(m, l) => mpc' \in [Makes -> Labels]
  BY DEF Go, TypeOK
<1>l. /\ {"off", "clean", "drop", "rmList", "rmPages", "all", "create", "creating",
          "blocked", "list", "query", "write", "install", "done", "failed"} \subseteq Labels
  BY DEF Labels, Over
<1>1. CASE Clean(m) \/ EndOfList(m) \/ TableThere(m) \/ Unblock(m)
  <2>1. mpc' \in [Makes -> Labels]
    BY <1>0, <1>1, <1>l DEF Clean, EndOfList, TableThere, Unblock
  <2>2. UNCHANGED <<world, tables, output, script, make, past>>
    BY <1>1 DEF Clean, EndOfList, TableThere, Unblock
  <2> QED
    BY <2>1, <2>2 DEF TypeOK, world, tables, output, script, make, past
<1>2. CASE DropTable(m)
  <2>1. PICK d \in temptables.names \ seen[m] :
          /\ seen' = [seen EXCEPT ![m] = seen[m] \cup {d}]
          /\ \/ dayTable' = [dayTable EXCEPT ![d] = NoTable]
             \/ UNCHANGED dayTable
    BY <1>2 DEF DropTable, AfterDrop
  <2>2. seen' \in [Makes -> SUBSET Days]
    <3>1. seen \in [Makes -> SUBSET Days] /\ seen[m] \cup {d} \in SUBSET Days
      BY DEF TypeOK
    <3> QED
      BY <2>1, <3>1, Put
  <2>3. dayTable' \in [Days -> [there : BOOLEAN, rows : 0..MaxLoads]]
    <3>1. dayTable \in [Days -> [there : BOOLEAN, rows : 0..MaxLoads]]
      BY DEF TypeOK
    <3>2. CASE dayTable' = [dayTable EXCEPT ![d] = NoTable]
      BY <3>1, <3>2, Put, Records
    <3> QED
      BY <2>1, <3>1, <3>2
  <2> QED
    BY <1>2, <2>2, <2>3 DEF DropTable, TypeOK, world, output, make, past
<1>3. CASE RemoveList(m)
  <2>1. mpc' \in [Makes -> Labels]
    BY <1>0, <1>3, <1>l DEF RemoveList
  <2>2. seen' \in [Makes -> SUBSET Days]
    BY <1>3 DEF RemoveList, TypeOK
  <2>3. temptables' \in [there : BOOLEAN, names : SUBSET Days]
    BY <1>3 DEF RemoveList
  <2> QED
    BY <1>3, <2>1, <2>2, <2>3 DEF RemoveList, TypeOK, world, output, make, past
<1>4. CASE RemovePages(m)
  <2>1. mpc' \in [Makes -> Labels]
    BY <1>0, <1>4, <1>l DEF RemovePages
  <2>2. html' \in [Pages -> PageType]
    BY <1>4, Records DEF RemovePages, PagesRemoved
  <2> QED
    BY <1>4, <2>1, <2>2 DEF RemovePages, TypeOK, world, tables, script, make
<1>5. CASE StartPage(m)
  <2>1. mpc' \in [Makes -> Labels]
    BY <1>0, <1>5, <1>l DEF StartPage
  <2>2. page' \in [Makes -> Pages]
    BY <1>5, Put DEF StartPage, TypeOK
  <2>3. date' \in [Makes -> Days]
    BY <1>5, Put, Yesterday DEF StartPage, TypeOK
  <2> QED
    BY <1>5, <2>1, <2>2, <2>3 DEF StartPage, TypeOK, world, tables, output, make, past
<1>6. CASE BeginCreate(m)
  <2>1. mpc' \in [Makes -> Labels]
    BY <1>0, <1>6, <1>l DEF BeginCreate
  <2>2. copied' \in [Makes -> 0..MaxLoads]
    <3>1. stored[date[m]] \in 0..MaxLoads /\ copied \in [Makes -> 0..MaxLoads]
      BY DEF TypeOK
    <3>2. \/ UNCHANGED copied
          \/ copied' = [copied EXCEPT ![m] = stored[date[m]]]
      BY <1>6 DEF BeginCreate
    <3> QED
      BY <3>1, <3>2, Put
  <2> QED
    BY <1>6, <2>1, <2>2 DEF BeginCreate, TypeOK, world, tables, output, make, past
<1>7. CASE CommitCreate(m)
  <2>1. mpc' \in [Makes -> Labels]
    BY <1>0, <1>7, <1>l DEF CommitCreate
  <2>2. copied' \in [Makes -> 0..MaxLoads]
    BY <1>7, Put, DayTablesAssumption DEF CommitCreate, TypeOK
  <2>3. [there |-> TRUE, rows |-> copied[m]] \in [there : BOOLEAN, rows : 0..MaxLoads]
    BY DEF TypeOK
  <2>4. dayTable' \in [Days -> [there : BOOLEAN, rows : 0..MaxLoads]]
    BY <1>7, <2>3, Put DEF CommitCreate, TypeOK
  <2> QED
    BY <1>7, <2>1, <2>2, <2>4 DEF CommitCreate, TypeOK, world, output, make, past
<1>8. CASE List(m)
  <2>1. mpc' \in [Makes -> Labels]
    BY <1>0, <1>8, <1>l DEF List
  <2>2. temptables' \in [there : BOOLEAN, names : SUBSET Days]
    <3>1. temptables.names \in SUBSET Days /\ date[m] \in Days
      BY DEF TypeOK
    <3> QED
      BY <1>8, <3>1 DEF List
  <2> QED
    BY <1>8, <2>1, <2>2 DEF List, TypeOK, world, output, script, make, past
<1>9. CASE Query(m)
  <2>1. mpc' \in [Makes -> Labels]
    BY <1>0, <1>9, <1>l DEF Query
  <2>2. date[m] \in Days /\ page[m] \in Pages /\ html \in [Pages -> PageType]
    BY DEF TypeOK
  <2>3. html' \in [Pages -> PageType]
    BY <1>9, <2>2, OpenedPages DEF Query
  <2> QED
    BY <1>9, <2>1, <2>3 DEF Query, TypeOK, world, tables, script, make, past
<1>10. CASE WritePage(m) \/ PlotFails(m)
  <2>1. mpc' \in [Makes -> Labels]
    BY <1>0, <1>10, <1>l DEF WritePage, PlotFails
  <2>2. page[m] \in Pages /\ html \in [Pages -> PageType] /\ made[m] \cup {page[m]} \in SUBSET Pages
    BY DEF TypeOK
  <2>3. html' \in [Pages -> PageType]
    <3>1. CASE WritePage(m)
      BY <2>2, <3>1, WrittenPages DEF WritePage
    <3>2. CASE PlotFails(m)
      BY <2>2, <3>2, Put, Records DEF PlotFails
    <3> QED
      BY <1>10, <3>1, <3>2
  <2>4. made' \in [Makes -> SUBSET Pages]
    <3>1. made \in [Makes -> SUBSET Pages]
      BY DEF TypeOK
    <3>2. made' = [made EXCEPT ![m] = made[m] \cup {page[m]}]
      BY <1>10 DEF WritePage, PlotFails
    <3> QED
      BY <2>2, <3>1, <3>2, Put
  <2>5. torn' \subseteq Plots
    BY <1>10 DEF WritePage, PlotFails, TypeOK
  <2> QED
    BY <1>10, <2>1, <2>3, <2>4, <2>5
    DEF WritePage, PlotFails, TypeOK, world, tables, script
<1>11. CASE Install(m)
  <2>1. mpc' \in [Makes -> Labels]
    BY <1>0, <1>11, <1>l DEF Install
  <2>2. RecipeDate(m) \in Days
    BY Yesterday
  <2>3. results' \in [Days -> [Pages -> ResultType]]
    <3>1. Copied(PagesThere, RecipeDate(m)) \in [Pages -> ResultType]
      BY <2>2, CopiedPages
    <3>2. results \in [Days -> [Pages -> ResultType]]
      BY DEF TypeOK, ResultType
    <3> QED
      BY <1>11, <3>1, <3>2, Put DEF Install
  <2>4. date' \in [Makes -> Days]
    BY <1>11, <2>2, Put DEF Install, TypeOK
  <2> QED
    BY <1>11, <2>1, <2>3, <2>4 DEF Install, TypeOK, ResultType, world, tables, make,
       past
<1>12. CASE KillInstall(m)
  <2>1. mpc' \in [Makes -> Labels]
    BY <1>0, <1>12, <1>l DEF KillInstall
  <2>2. RecipeDate(m) \in Days
    BY Yesterday
  <2>3. PICK S \in SUBSET PagesThere :
          results' = [results EXCEPT ![RecipeDate(m)] = Copied(S, RecipeDate(m))]
    BY <1>12 DEF KillInstall
  <2>4. results' \in [Days -> [Pages -> ResultType]]
    <3>1. Copied(S, RecipeDate(m)) \in [Pages -> ResultType]
      BY <2>2, CopiedPages
    <3>2. results \in [Days -> [Pages -> ResultType]]
      BY DEF TypeOK, ResultType
    <3> QED
      BY <2>3, <3>1, <3>2, Put
  <2> QED
    BY <1>12, <2>1, <2>4 DEF KillInstall, TypeOK, ResultType, world, tables, script,
       make, past
<1>13. CASE Start(m)
  <2>1. mpc' \in [Makes -> Labels]
    BY <1>0, <1>13, <1>l DEF Start
  <2>2. PICK d \in Days : /\ date' = [date EXCEPT ![m] = d]
                          /\ startedAt' = [startedAt EXCEPT ![m] = stored[d]]
    BY <1>13, Yesterday DEF Start
  <2>3. date' \in [Makes -> Days] /\ startedAt' \in [Makes -> 0..MaxLoads]
    BY <2>2, Put DEF TypeOK
  <2> QED
    BY <1>13, <2>1, <2>3 DEF Start, TypeOK, world, tables, output, make
<1>14. CASE MakeInstall(m) \/ AllMade(m)
  <2>1. mpc' \in [Makes -> Labels]
    BY <1>0, <1>14, <1>l DEF MakeInstall, AllMade, TypeOK
  <2>2. made' \in [Makes -> SUBSET Pages] /\ installing' \subseteq Makes
    BY <1>14 DEF MakeInstall, AllMade, TypeOK
  <2> QED
    BY <1>14, <2>1, <2>2
    DEF MakeInstall, AllMade, TypeOK, world, tables, output, script, past
<1>15. CASE CutClean(m)
  <2>1. mpc' \in [Makes -> Labels]
    BY <1>0, <1>15, <1>l DEF CutClean
  <2>2. PICK S \in SUBSET Pages :
          /\ html' = [p \in Pages |-> IF p \in S THEN Missing ELSE html[p]]
          /\ torn' = torn \ S
    BY <1>15 DEF CutClean
  <2>3. html' \in [Pages -> PageType] /\ torn' \subseteq Plots
    BY <2>2, Records DEF TypeOK
  <2>4. seen' \in [Makes -> SUBSET Days] /\ skipped' \subseteq Makes
    BY <1>15 DEF CutClean, TypeOK
  <2> QED
    BY <1>15, <2>1, <2>3, <2>4 DEF CutClean, TypeOK, world, tables, make
<1>16. CASE Kill(m)
  <2>1. mpc' \in [Makes -> Labels]
    BY <1>0, <1>16, <1>l DEF Kill
  <2>2. html' \in [Pages -> PageType]
    <3>1. html \in [Pages -> PageType] /\ page[m] \in Pages
      BY DEF TypeOK
    <3>2. UNCHANGED html \/ html' = [html EXCEPT ![page[m]] = Missing]
      BY <1>16 DEF Kill
    <3> QED
      BY <3>1, <3>2, Put, Records
  <2>3. /\ seen' \in [Makes -> SUBSET Days] /\ copied' \in [Makes -> 0..MaxLoads]
        /\ made' \in [Makes -> SUBSET Pages]
    BY <1>16, DayTablesAssumption DEF Kill, TypeOK
  <2> QED
    BY <1>16, <2>1, <2>2, <2>3 DEF Kill, TypeOK, world, tables, past
<1> QED
  BY <1>1, <1>2, <1>3, <1>4, <1>5, <1>6, <1>7, <1>8, <1>9, <1>10, <1>11, <1>12, <1>13,
     <1>14, <1>15, <1>16
  DEF Move, Step

---------------------------------------------------------------------------
(* Who runs, and for which day.                                            *)

LEMMA BaseStep ==
  ASSUME Base, NEW m \in Makes, Move(m)
  PROVE  /\ Base' /\ UNCHANGED <<faults, today>>
         /\ \A n \in Makes : n # m =>
              /\ mpc'[n] = mpc[n] /\ date'[n] = date[n] /\ page'[n] = page[n]
              /\ seen'[n] = seen[n] /\ copied'[n] = copied[n]
              /\ startedAt'[n] = startedAt[n] /\ made'[n] = made[n]
         /\ skipped \subseteq skipped' /\ skipped' \subseteq skipped \cup {m}
         /\ "kill" \notin faults => skipped' = {} /\ torn' = {}
         /\ ~Start(m) => Active(m)
         /\ Start(m) => mpc[m] = "off" /\ ("together" \notin faults => \A n \in Makes : ~Active(n))
<1>1. TypeOK'
  BY TypeStep DEF Base
<1>2. UNCHANGED <<faults, today>>
  BY DEF Move, Start, Step, PlotFails, CutClean, Kill, KillInstall, Clean, DropTable,
     EndOfList, RemoveList, RemovePages, StartPage, MakeInstall, AllMade, TableThere,
     BeginCreate, CommitCreate, Unblock, List, Query, WritePage, Install, world
<1>3. ASSUME NEW n \in Makes, n # m PROVE mpc'[n] = mpc[n]
  BY <1>3 DEF Base, TypeOK, Go, Move, Start, Step, PlotFails, CutClean, Kill,
     KillInstall, Clean, DropTable, EndOfList, RemoveList, RemovePages, StartPage,
     MakeInstall, AllMade, TableThere, BeginCreate, CommitCreate, Unblock, List, Query,
     WritePage, Install
<1>4. ASSUME NEW n \in Makes, n # m
      PROVE  /\ date'[n] = date[n] /\ page'[n] = page[n] /\ seen'[n] = seen[n]
             /\ copied'[n] = copied[n] /\ startedAt'[n] = startedAt[n]
             /\ made'[n] = made[n]
  BY <1>4 DEF Base, TypeOK, Move, Start, Step, PlotFails, CutClean, Kill, KillInstall,
     Clean, DropTable, EndOfList, RemoveList, RemovePages, StartPage, MakeInstall,
     AllMade, TableThere, BeginCreate, CommitCreate, Unblock, List, Query, WritePage,
     Install, script, make, past
<1>5. ~Start(m) => Active(m)
  BY DEF Active, Over, Move, Step, PlotFails, CutClean, Kill, KillInstall, Clean,
     DropTable, EndOfList, RemoveList, RemovePages, StartPage, MakeInstall, AllMade,
     TableThere, BeginCreate, CommitCreate, Unblock, List, Query, WritePage, Install
<1>6. Start(m) =>
        mpc[m] = "off" /\ ("together" \notin faults => \A n \in Makes : ~Active(n))
  BY DEF Start, Running, Active, Over
<1>7. Solo'
  <2> SUFFICES ASSUME "together" \notin faults, NEW n \in Makes, NEW o \in Makes,
                      Active(n)', Active(o)'
               PROVE  n = o
    BY <1>2 DEF Solo
  <2>1. n # m => Active(n)
    BY <1>3 DEF Active
  <2>2. o # m => Active(o)
    BY <1>3 DEF Active
  <2> QED
    BY <1>5, <1>6, <2>1, <2>2 DEF Base, Solo
<1>8. Dated'
  <2> SUFFICES ASSUME Never({"byHand", "midnight"}), NEW n \in Makes, Active(n)'
               PROVE  n \in Nightly /\ date'[n] = today - 1
    BY <1>2 DEF Dated, Never
  <2>1. CASE n # m
    BY <1>3, <1>4, <2>1 DEF Base, Dated, Active
  <2>2. CASE n = m /\ Start(m)
    <3>1. m \in Nightly
      BY <2>2 DEF Start, Never, Makes
    <3> QED
      BY <2>2, <3>1 DEF Start, Base, TypeOK
  <2>3. CASE n = m /\ ~Start(m)
    <3>1. m \in Nightly /\ date[m] = today - 1
      BY <1>5, <2>3 DEF Base, Dated
    <3>2. RecipeDate(m) = today - 1
      BY <3>1 DEF RecipeDate
    <3> QED
      BY <2>3, <3>1, <3>2 DEF Base, TypeOK, Move, Step, PlotFails, CutClean, Kill,
         KillInstall, Clean, DropTable, EndOfList, RemoveList, RemovePages, StartPage,
         MakeInstall, AllMade, TableThere, BeginCreate, CommitCreate, Unblock, List,
         Query, WritePage, Install, script
  <2> QED
    BY <2>1, <2>2, <2>3
<1>9. /\ skipped \subseteq skipped' /\ skipped' \subseteq skipped \cup {m}
      /\ Start(m) \/ "kill" \notin faults => skipped' = skipped
  BY DEF Move, Start, Step, PlotFails, CutClean, Kill, KillInstall, Clean, DropTable,
     EndOfList, RemoveList, RemovePages, StartPage, MakeInstall, AllMade, TableThere,
     BeginCreate, CommitCreate, Unblock, List, Query, WritePage, Install, past
<1>10. "kill" \notin faults => torn' \subseteq torn
  BY DEF Move, Start, Step, PlotFails, CutClean, Kill, KillInstall, Clean, DropTable,
     EndOfList, RemoveList, RemovePages, StartPage, MakeInstall, AllMade, TableThere,
     BeginCreate, CommitCreate, Unblock, List, Query, WritePage, Install, past
<1>11. mpc'[m] # "off"
  BY DEF Base, TypeOK, Go, Move, Start, Step, PlotFails, CutClean, Kill, KillInstall,
     Clean, DropTable, EndOfList, RemoveList, RemovePages, StartPage, MakeInstall,
     AllMade, TableThere, BeginCreate, CommitCreate, Unblock, List, Query, WritePage,
     Install
<1>12. Failures'
  BY <1>2, <1>3, <1>9, <1>10, <1>11 DEF Base, Failures, TypeOK
<1> QED
  BY <1>1, <1>2, <1>3, <1>4, <1>5, <1>6, <1>7, <1>8, <1>9, <1>12 DEF Base, Failures

(* The days that pass and the loads change nothing a make looks at, but    *)
(* the rows.                                                               *)
LEMMA WorldStep ==
  ASSUME IInv, NextDay \/ \E d \in Days : Load(d)
  PROVE  IInv'
<1>1. /\ UNCHANGED <<faults, tables, output, mpc, script, make, past>>
      /\ UNCHANGED today \/ NextDay
  BY DEF NextDay, Load, tables, output, script, make, past
<1>2. /\ stored' \in [Days -> 0..MaxLoads]
      /\ \A d \in Days : stored'[d] >= stored[d]
  <2>1. stored \in [Days -> 0..MaxLoads]
    BY DEF IInv, Base, TypeOK
  <2>2. CASE UNCHANGED stored
    BY <2>1, <2>2
  <2>3. CASE \E d \in Days : Load(d)
    <3>1. PICK d \in Days : Load(d)
      BY <2>3
    <3> QED
      BY <2>1, <3>1, DayTablesAssumption DEF Load
  <2> QED
    BY <2>2, <2>3 DEF NextDay
<1>3. today' \in 1..LastDay
  BY DayTablesAssumption DEF NextDay, Load, IInv, Base, TypeOK
<1>4. TypeOK'
  BY <1>1, <1>2, <1>3 DEF IInv, Base, TypeOK, tables, output, script, make, past
<1>f. Failures'
  BY <1>1 DEF IInv, Base, Failures, past
<1>5. Solo'
  BY <1>1 DEF IInv, Base, Solo, Active
<1>6. ASSUME Never({"byHand", "midnight"}), NextDay, NEW m \in Makes PROVE ~Active(m)
  BY <1>6 DEF NextDay, Never, Idle, Running, Active, Over
<1>7. Dated'
  <2>1. CASE UNCHANGED today
    BY <1>1, <2>1 DEF IInv, Base, Dated, Never, Active, script
  <2>2. CASE NextDay
    BY <1>1, <1>6, <2>2 DEF Dated, Never, Active
  <2> QED
    BY <1>1, <2>1, <2>2
<1>8. DayInv'
  <2>1. CASE UNCHANGED today
    BY <1>1, <2>1 DEF IInv, DayInv, CutDay, Never, Making, output, script, past
  <2>2. CASE NextDay
    <3>1. ASSUME Never({"byHand", "midnight"}), NEW m \in Makes PROVE ~Making(m)
      BY <1>6, <2>2, <3>1 DEF Making, MakingLabels, Active
    <3> QED
      BY <1>1, <3>1 DEF IInv, DayInv, CutDay, Never, Making, output, script, past
  <2> QED
    BY <1>1, <2>1, <2>2
<1>9. ListedInv'
  BY <1>1 DEF IInv, ListedInv, Never, tables, script
<1>10. AgreeInv'
  BY <1>1 DEF IInv, AgreeInv, Making, PageOf, Present, tables, output, script, make,
     past
<1>11. FreshInv'
  <2> SUFFICES ASSUME faults \subseteq {"load"}, NEW m \in Makes
               PROVE  startedAt[m] <= stored'[date[m]]
    BY <1>1 DEF IInv, FreshInv, Making, Active, tables, output, script, past
  <2>1. startedAt[m] <= stored[date[m]]
    BY DEF IInv, FreshInv
  <2>2. startedAt[m] \in Nat /\ date[m] \in Days /\ stored[date[m]] \in Nat
    BY DEF IInv, Base, TypeOK
  <2>3. stored'[date[m]] \in Nat /\ stored'[date[m]] >= stored[date[m]]
    BY <1>2, <2>2
  <2> QED
    BY <2>1, <2>2, <2>3
<1> QED
  BY <1>4, <1>5, <1>7, <1>8, <1>9, <1>10, <1>11, <1>f DEF IInv, Base

---------------------------------------------------------------------------
(* The days of the pages.                                                  *)

LEMMA DayStep ==
  ASSUME Base, DayInv, NEW m \in Makes, Move(m)
  PROVE  DayInv'
<1> SUFFICES ASSUME Never({"byHand", "midnight"}) PROVE DayInv'
  BY BaseStep DEF DayInv, Never
<1>1. /\ UNCHANGED <<faults, today>> /\ TypeOK /\ mpc' \in [Makes -> Labels]
      /\ \A n \in Makes : n # m => mpc'[n] = mpc[n]
      /\ Start(m) \/ (Active(m) /\ date[m] = today - 1 /\ m \in Nightly)
      /\ Start(m) => mpc[m] = "off"
      /\ Active(m)' => date'[m] = today - 1
  BY BaseStep DEF Base, Dated, TypeOK, Never
<1>3. m \in Nightly => RecipeDate(m) = today - 1
  BY DEF RecipeDate
(* A day whose make clean was cut short stays one.                         *)
<1>c. ASSUME NEW d, CutDay(d) PROVE CutDay(d)'
  <2>1. PICK n \in skipped : date[n] = d
    BY <1>c DEF CutDay
  <2>2. n \in skipped' /\ n \in Makes /\ mpc[n] # "off"
    BY <2>1, BaseStep DEF Base, Failures, TypeOK
  <2>3. CASE n # m
    BY <2>1, <2>2, <2>3, BaseStep DEF CutDay
  <2>4. CASE n = m
    <3>1. date[m] = today - 1 /\ m \in Nightly /\ ~Start(m)
      BY <1>1, <2>2, <2>4
    <3>2. date'[m] = date[m]
      BY <1>3, <3>1 DEF Base, TypeOK, Move, Step, PlotFails, CutClean, Kill,
         KillInstall, Clean, DropTable, EndOfList, RemoveList, RemovePages, StartPage,
         MakeInstall, AllMade, TableThere, BeginCreate, CommitCreate, Unblock, List,
         Query, WritePage, Install, script
    <3> QED
      BY <2>1, <2>2, <2>4, <3>2 DEF CutDay
  <2> QED
    BY <2>3, <2>4
<1>2. /\ \A n \in Makes : Making(n) /\ ~CutDay(today - 1)' =>
           \A p \in Pages : html[p].there => html[p].day = today - 1
      /\ \A d \in Days, p \in Pages :
           results[d][p].there /\ ~CutDay(d)' => results[d][p].day = d
  <2>1. CutDay(today - 1) => CutDay(today - 1)'
    <3>1. \A d : CutDay(d) => CutDay(d)'
      BY <1>c
    <3>2. \A d : d = today - 1 => (CutDay(d) <=> CutDay(today - 1))
      OBVIOUS
    <3>3. \A d : d = today - 1 => (CutDay(d)' <=> CutDay(today - 1)')
      BY <1>1 DEF CutDay
    <3> QED
      BY <3>1, <3>2, <3>3
  <2>2. \A d \in Days : CutDay(d) => CutDay(d)'
    BY <1>c
  <2> QED
    BY <2>1, <2>2 DEF DayInv
(* What is to be shown of a step that installs nothing.                    *)
<1>h. ASSUME UNCHANGED results,
             \A n \in Makes : Making(n)' /\ ~CutDay(today - 1)' =>
               \A p \in Pages : html'[p].there => html'[p].day = today - 1
      PROVE  DayInv'
  BY <1>1, <1>2, <1>h DEF DayInv
<1>q. ASSUME UNCHANGED <<html, results>>, Making(m)' => Making(m) PROVE DayInv'
  BY <1>1, <1>2, <1>h, <1>q DEF Making
<1>4. CASE Start(m)
  <2>1. m \in Nightly
    BY <1>4 DEF Start, Never, Makes
  <2> QED
    BY <1>1, <1>4, <1>q, <2>1 DEF Start, Go, TypeOK, Making, MakingLabels, output
<1>5. CASE Clean(m) \/ DropTable(m) \/ EndOfList(m) \/ RemoveList(m)
  BY <1>1, <1>5, <1>q DEF Clean, DropTable, EndOfList, RemoveList, Go, TypeOK,
     Making, MakingLabels, output
<1>6. CASE RemovePages(m)
  <2>1. \A p \in Pages : ~html'[p].there
    BY <1>6 DEF RemovePages, PagesRemoved, Missing
  <2> QED
    BY <1>6, <1>h, <2>1 DEF RemovePages
<1>7. CASE StartPage(m) \/ MakeInstall(m) \/ AllMade(m) \/ TableThere(m) \/ BeginCreate(m)
           \/ CommitCreate(m) \/ Unblock(m) \/ List(m)
  <2>1. UNCHANGED <<html, results>> /\ Making(m)
    BY <1>7 DEF StartPage, MakeInstall, AllMade, TableThere, BeginCreate, CommitCreate,
       Unblock, List, Making, MakingLabels, output
  <2> QED
    BY <1>q, <2>1
<1>8. CASE Query(m)
  <2>0. Making(m) /\ ~Start(m) /\ date[m] \in Days /\ page[m] \in Pages
    BY <1>1, <1>8 DEF Query, Making, MakingLabels, Start, TypeOK
  <2>1. CASE dayTable[date[m]].there
    <3>1. html' = Opened(page[m], date[m]) /\ UNCHANGED results
      BY <1>8, <2>1 DEF Query
    <3>2. /\ html'[page[m]].day = date[m]
          /\ \A p \in Pages : p # page[m] =>
               html'[p].there = html[p].there /\ html'[p].day = html[p].day
      <4>1. Opened(page[m], date[m])[page[m]].day = date[m]
        BY <1>1, <2>0, OpenedPages
      <4>2. \A p \in Pages : p # page[m] =>
              /\ Opened(page[m], date[m])[p].there = html[p].there
              /\ Opened(page[m], date[m])[p].day = html[p].day
        BY <1>1, <2>0, OpenedPages
      <4> QED
        BY <3>1, <4>1, <4>2
    <3>3. ASSUME ~CutDay(today - 1)', NEW p \in Pages, html'[p].there
          PROVE  html'[p].day = today - 1
      BY <1>1, <1>2, <2>0, <3>2, <3>3
    <3> QED
      BY <1>h, <3>1, <3>3
  <2>2. CASE ~dayTable[date[m]].there
    BY <1>8, <1>q, <2>0, <2>2 DEF Query
  <2> QED
    BY <2>1, <2>2
<1>9. CASE WritePage(m)
  <2>1. /\ html' = [html EXCEPT ![page[m]].whole = TRUE] /\ page[m] \in Pages
        /\ UNCHANGED results /\ Making(m)
    BY <1>1, <1>9 DEF WritePage, Making, MakingLabels, TypeOK
  <2>2. \A p \in Pages : html'[p].there = html[p].there /\ html'[p].day = html[p].day
    BY <1>1, <2>1, WrittenPages
  <2> QED
    BY <1>2, <1>h, <2>1, <2>2
<1>10. CASE PlotFails(m) \/ Kill(m)
  <2>1. UNCHANGED html \/ html' = [html EXCEPT ![page[m]] = Missing]
    BY <1>10 DEF PlotFails, Kill
  <2>2. \A p \in Pages : html'[p].there => html'[p] = html[p]
    BY <1>1, <2>1 DEF TypeOK, Missing
  <2>3. UNCHANGED results /\ (Making(m)' => Making(m))
    BY <1>1, <1>10 DEF PlotFails, Kill, Making, MakingLabels, Go, TypeOK
  <2>4. \A n \in Makes : Making(n)' => Making(n)
    BY <1>1, <2>3 DEF Making
  <2> QED
    BY <1>2, <1>h, <2>2, <2>3, <2>4
<1>11. CASE CutClean(m)
  <2>1. m \in skipped' /\ mpc'[m] = "all" /\ UNCHANGED results
    BY <1>1, <1>11 DEF CutClean, Go, TypeOK
  <2>2. date'[m] = today - 1
    BY <1>1, <2>1 DEF Active
  <2>3. CutDay(today - 1)'
    BY <1>1, <2>1, <2>2 DEF CutDay
  <2> QED
    BY <1>h, <2>1, <2>3
<1>12. CASE Install(m) \/ KillInstall(m)
  <2>1. /\ UNCHANGED html /\ ~Making(m)' /\ Making(m)
    BY <1>1, <1>12 DEF Install, KillInstall, Go, TypeOK, Making, MakingLabels
  <2>2. RecipeDate(m) = today - 1 /\ today - 1 \in Days
    <3>1. ~Start(m)
      BY <2>1 DEF Making, MakingLabels, Start
    <3> QED
      BY <1>1, <1>3, <3>1, Yesterday
  <2>3. PICK S \in SUBSET PagesThere :
          results' = [results EXCEPT ![today - 1] = Copied(S, today - 1)]
    BY <1>12, <2>2 DEF Install, KillInstall
  <2>4. ASSUME NEW p \in Pages
        PROVE  IF p \in S THEN html[p].there /\ Copied(S, today - 1)[p].day = html[p].day
                          ELSE Copied(S, today - 1)[p] = results[today - 1][p]
    BY <1>1, <2>2, <2>3, CopiedPages
  <2>5. \A d \in Days : results'[d] = IF d = today - 1 THEN Copied(S, today - 1) ELSE results[d]
    BY <1>1, <2>2, <2>3 DEF TypeOK
  <2>6. ASSUME NEW d \in Days, NEW p \in Pages, results'[d][p].there, ~CutDay(d)'
        PROVE  results'[d][p].day = d
    <3>1. CASE d = today - 1 /\ p \in S
      <4>1. results'[d][p].day = html[p].day /\ html[p].there
        BY <2>4, <2>5, <3>1
      <4>2. ~CutDay(today - 1)'
        BY <1>1, <2>6, <3>1 DEF CutDay
      <4> QED
        BY <1>2, <2>1, <3>1, <4>1, <4>2
    <3>2. CASE ~(d = today - 1 /\ p \in S)
      <4>1. results'[d][p] = results[d][p]
        BY <2>4, <2>5, <3>2
      <4> QED
        BY <1>2, <2>6, <4>1
    <3> QED
      BY <3>1, <3>2
  <2>7. \A n \in Makes : Making(n)' => Making(n)
    BY <1>1, <2>1 DEF Making
  <2> QED
    BY <1>1, <1>2, <2>1, <2>6, <2>7 DEF DayInv
<1> QED
  BY <1>4, <1>5, <1>6, <1>7, <1>8, <1>9, <1>10, <1>11, <1>12 DEF Move, Step

---------------------------------------------------------------------------
(* The list of the tables.                                                 *)

LEMMA ListedStep ==
  ASSUME Base, ListedInv, NEW m \in Makes, Move(m)
  PROVE  ListedInv'
<1> SUFFICES ASSUME Never({"kill", "drop", "together"}) PROVE ListedInv'
  BY BaseStep DEF ListedInv, Never
<1>1. /\ UNCHANGED faults /\ TypeOK /\ TypeOK'
      /\ \A n \in Makes : n # m =>
           mpc'[n] = mpc[n] /\ date'[n] = date[n] /\ seen'[n] = seen[n]
  BY BaseStep DEF Base
<1>2. \A n \in Makes : n # m => mpc[n] \in {"off", "done", "failed"}
  BY BaseStep DEF Base, Solo, Active, Never
<1>3. \A n \in Makes : seen[n] # {} => mpc[n] \in {"drop", "rmList"}
  BY DEF ListedInv
<1>4. \A n \in Makes : n # m => seen[n] = {} /\ seen'[n] = {}
  BY <1>1, <1>2, <1>3
<1>5. /\ \A d \in Days : dayTable[d].there =>
           d \in temptables.names \/ (mpc[m] = "list" /\ date[m] = d)
      /\ temptables.names # {} => temptables.there
  BY <1>2 DEF ListedInv
<1>6. /\ \A d \in seen[m] : ~dayTable[d].there
      /\ mpc[m] = "rmList" => temptables.names \subseteq seen[m]
  BY DEF ListedInv
(* What is to be shown of m.                                               *)
<1>m. ASSUME \A d \in Days : dayTable'[d].there =>
               d \in temptables'.names \/ (mpc'[m] = "list" /\ date'[m] = d),
             temptables'.names # {} => temptables'.there,
             seen'[m] # {} => mpc'[m] \in {"drop", "rmList"},
             \A d \in seen'[m] : ~dayTable'[d].there,
             mpc'[m] = "rmList" => temptables'.names \subseteq seen'[m]
      PROVE  ListedInv'
  BY <1>1, <1>2, <1>4, <1>m DEF ListedInv
<1>7. CASE DropTable(m)
  <2>1. PICK d \in temptables.names \ seen[m] :
          /\ seen' = [seen EXCEPT ![m] = seen[m] \cup {d}]
          /\ dayTable' = [dayTable EXCEPT ![d] = NoTable]
    BY <1>7 DEF DropTable, AfterDrop, Never
  <2>2. UNCHANGED <<temptables, mpc, date>> /\ mpc[m] = "drop"
    BY <1>7 DEF DropTable
  <2>3. seen'[m] = seen[m] \cup {d} /\ d \in Days
    BY <1>1, <2>1 DEF TypeOK
  <2>4. \A e \in Days : dayTable'[e].there => dayTable[e].there /\ e # d
    BY <1>1, <2>1, <2>3 DEF TypeOK, NoTable
  <2>5. seen[m] \subseteq Days
    BY <1>1 DEF TypeOK
  <2>6. \A e \in seen'[m] : ~dayTable'[e].there
    BY <1>6, <2>3, <2>4, <2>5
  <2> QED
    BY <1>5, <1>m, <2>2, <2>4, <2>6
<1>8. CASE EndOfList(m)
  BY <1>1, <1>5, <1>6, <1>8, <1>m
  DEF EndOfList, ListRead, Go, TypeOK, tables, script
<1>9. CASE RemoveList(m)
  <2>1. /\ temptables' = [there |-> FALSE, names |-> {}] /\ seen'[m] = {}
        /\ UNCHANGED dayTable /\ mpc'[m] = "rmPages" /\ mpc[m] = "rmList"
    BY <1>1, <1>9 DEF RemoveList, Go, TypeOK
  <2>2. \A d \in Days : ~dayTable'[d].there
    BY <1>5, <1>6, <2>1
  <2> QED
    BY <1>m, <2>1, <2>2
<1>10. CASE CommitCreate(m)
  <2>1. /\ dayTable' = [dayTable EXCEPT ![date[m]] = [there |-> TRUE, rows |-> copied[m]]]
        /\ UNCHANGED <<temptables, date, seen>>
        /\ mpc[m] = "creating" /\ mpc'[m] = "list"
    BY <1>1, <1>10 DEF CommitCreate, Go, TypeOK
  <2>2. seen[m] = {}
    BY <1>3, <2>1
  <2>3. \A d \in Days : dayTable'[d].there => dayTable[d].there \/ d = date[m]
    BY <1>1, <2>1 DEF TypeOK
  <2> QED
    BY <1>5, <1>m, <2>1, <2>2, <2>3
<1>11. CASE List(m)
  <2>1. /\ temptables' = [there |-> TRUE, names |-> temptables.names \cup {date[m]}]
        /\ UNCHANGED <<dayTable, date, seen>>
        /\ mpc[m] = "list" /\ mpc'[m] = "query"
    BY <1>1, <1>11 DEF List, Go, TypeOK, script
  <2>2. seen[m] = {}
    BY <1>3, <2>1
  <2> QED
    BY <1>5, <1>m, <2>1, <2>2
<1>12. CASE Start(m) \/ Clean(m) \/ RemovePages(m) \/ StartPage(m) \/ MakeInstall(m)
            \/ AllMade(m) \/ TableThere(m) \/ BeginCreate(m) \/ Unblock(m) \/ Query(m)
            \/ WritePage(m) \/ Install(m)
  <2>1. UNCHANGED <<tables, seen>> /\ mpc[m] \notin {"drop", "rmList", "list"}
    BY <1>12 DEF Start, Clean, RemovePages, StartPage, MakeInstall, AllMade, TableThere,
       BeginCreate, Unblock, Query, WritePage, Install, script
  <2>2. mpc'[m] # "rmList"
    BY <1>1, <1>12 DEF Start, Clean, RemovePages, StartPage, MakeInstall, AllMade,
       TableThere, BeginCreate, Unblock, Query, WritePage, Install, Go, TypeOK
  <2>3. seen[m] = {}
    BY <1>3, <2>1
  <2> QED
    BY <1>5, <1>m, <2>1, <2>2, <2>3 DEF tables
<1> QED
  BY <1>7, <1>8, <1>9, <1>10, <1>11, <1>12
  DEF Move, Step, PlotFails, CutClean, Kill, KillInstall, Never

---------------------------------------------------------------------------
(* The pages and the table of their day.                                   *)

LEMMA AgreeStep ==
  ASSUME Base, AgreeInv, NEW m \in Makes, Move(m)
  PROVE  AgreeInv'
<1> SUFFICES ASSUME faults \subseteq {"load", "kill", "drop"} PROVE AgreeInv'
  BY BaseStep DEF AgreeInv
<1> DEFINE Early == {"off", "clean", "drop", "rmList", "rmPages", "install"}
<1>1. /\ UNCHANGED faults /\ TypeOK /\ TypeOK'
      /\ \A n \in Makes : n # m =>
           mpc'[n] = mpc[n] /\ made'[n] = made[n] /\ mpc[n] \in {"off", "done", "failed"}
      /\ Start(m) \/ (date[m] = today - 1 /\ m \in Nightly)
      /\ skipped \subseteq skipped'
  BY BaseStep DEF Base, Solo, Dated, Active, Never
<1>2. /\ mpc[m] = "creating" => ~dayTable[date[m]].there
      /\ mpc[m] = "write" => html[page[m]].there
      /\ mpc[m] \in Early => made[m] = {}
  BY DEF AgreeInv
<1>3. /\ Making(m) /\ m \notin skipped =>
           /\ \A p \in Pages : html[p].there => PageOf(m, p)
           /\ \A p \in made[m] : Present(p)
      /\ mpc[m] = "install" /\ m \notin skipped => \A p \in Pages : Present(p)
  BY DEF AgreeInv
<1>4. \A n \in Makes : n # m =>
        /\ mpc'[n] \notin {"creating", "write", "install"} /\ ~Making(n)'
        /\ mpc'[n] \in Early => made'[n] = {}
  BY <1>1 DEF AgreeInv, Making, MakingLabels
(* What is to be shown of m.                                               *)
<1>m. ASSUME mpc'[m] = "creating" => ~dayTable'[date'[m]].there,
             mpc'[m] = "write" => html'[page'[m]].there,
             mpc'[m] \in Early => made'[m] = {},
             Making(m)' /\ m \notin skipped' =>
               /\ \A p \in Pages : html'[p].there => PageOf(m, p)'
               /\ \A p \in made'[m] : Present(p)',
             mpc'[m] = "install" /\ m \notin skipped' => \A p \in Pages : Present(p)'
      PROVE  AgreeInv'
  BY <1>4, <1>m DEF AgreeInv
<1>r. ASSUME mpc'[m] \notin MakingLabels, mpc'[m] \in Early => made'[m] = {} PROVE AgreeInv'
  BY <1>m, <1>r DEF Making, MakingLabels
<1>5. CASE Start(m)
  <2>1. m \in Nightly /\ mpc[m] = "off" /\ UNCHANGED made
    BY <1>5 DEF Start, Makes, make
  <2>2. mpc'[m] = "clean"
    BY <1>1, <1>5, <2>1 DEF Start, Go, TypeOK
  <2> QED
    BY <1>2, <1>r, <2>1, <2>2 DEF MakingLabels
<1>6. CASE Clean(m) \/ DropTable(m) \/ EndOfList(m) \/ RemoveList(m) \/ Install(m)
           \/ KillInstall(m)
  <2>1. mpc[m] \in Early /\ UNCHANGED made
    BY <1>6 DEF Clean, DropTable, EndOfList, RemoveList, Install, KillInstall, make
  <2>2. mpc'[m] \in {"drop", "rmList", "rmPages", "failed", "done"}
    BY <1>1, <1>6 DEF Clean, DropTable, EndOfList, RemoveList, Install, KillInstall,
       Go, TypeOK
  <2> QED
    BY <1>2, <1>r, <2>1, <2>2 DEF MakingLabels
<1>7. CASE Kill(m)
  <2>1. mpc'[m] = "failed"
    BY <1>1, <1>7 DEF Kill, Go, TypeOK
  <2> QED
    BY <1>r, <2>1 DEF MakingLabels
<1>8. CASE CutClean(m)
  <2>1. m \in skipped' /\ mpc'[m] = "all"
    BY <1>1, <1>8 DEF CutClean, Go, TypeOK
  <2> QED
    BY <1>m, <2>1
<1>9. CASE RemovePages(m)
  <2>1. /\ mpc'[m] = "all" /\ \A p \in Pages : ~html'[p].there
        /\ UNCHANGED made /\ mpc[m] = "rmPages"
    BY <1>1, <1>9 DEF RemovePages, PagesRemoved, Missing, Go, TypeOK, make
  <2> QED
    BY <1>2, <1>m, <2>1
(* A step between two labels where no page is written.                     *)
<1>10. CASE StartPage(m) \/ MakeInstall(m) \/ AllMade(m) \/ TableThere(m)
            \/ BeginCreate(m) \/ Unblock(m) \/ List(m)
  <2>1. /\ UNCHANGED <<dayTable, html, torn, skipped>> /\ Making(m) /\ mpc[m] # "write"
        /\ mpc'[m] # "write" /\ made'[m] \in {made[m], {}}
    BY <1>1, <1>10 DEF StartPage, MakeInstall, AllMade, TableThere, BeginCreate,
       Unblock, List, Making, MakingLabels, tables, output, make, past, Go, TypeOK
  <2>2. date'[m] = date[m]
    <3>1. CASE StartPage(m)
      <4>1. ~Start(m)
        BY <3>1 DEF StartPage, Start
      <4> QED
        BY <1>1, <3>1, <4>1 DEF StartPage, RecipeDate, TypeOK
    <3> QED
      BY <1>10, <3>1 DEF MakeInstall, AllMade, TableThere, BeginCreate, Unblock, List,
         script
  <2>3. m \notin skipped => \A p \in Pages : html'[p].there => PageOf(m, p)'
    BY <1>3, <2>1, <2>2 DEF PageOf
  <2>4. mpc'[m] = "creating" => ~dayTable'[date'[m]].there
    BY <1>1, <1>10, <2>1, <2>2 DEF StartPage, MakeInstall, AllMade, TableThere,
       BeginCreate, Unblock, List, Go, TypeOK
  <2>5. mpc'[m] \in Early => AllMade(m) /\ made'[m] = {}
    <3>1. CASE AllMade(m)
      BY <1>1, <3>1 DEF AllMade, TypeOK
    <3>2. CASE StartPage(m) \/ TableThere(m) \/ BeginCreate(m) \/ Unblock(m) \/ List(m)
      <4>1. mpc \in [Makes -> Labels]
        BY <1>1 DEF TypeOK
      <4>2. mpc'[m] \in {"create", "query", "blocked", "creating", "failed"}
        BY <3>2, <4>1 DEF StartPage, TableThere, BeginCreate, Unblock, List, Go
      <4> QED
        BY <4>2
    <3>3. CASE MakeInstall(m)
      BY <3>3 DEF MakeInstall
    <3> QED
      BY <1>10, <3>1, <3>2, <3>3
  <2>6. m \notin skipped => \A p \in made'[m] : Present(p)'
    BY <1>3, <2>1 DEF Present
  <2>7. mpc'[m] = "install" /\ m \notin skipped => \A p \in Pages : Present(p)'
    <3> SUFFICES ASSUME mpc'[m] = "install", m \notin skipped, NEW p \in Pages
                 PROVE  Present(p)'
      OBVIOUS
    <3>1. p \in made[m] \/ html[p].there
      BY <2>5 DEF AllMade, OutOfDate
    <3> QED
      BY <1>3, <2>1, <3>1 DEF Present
  <2> QED
    BY <1>m, <2>1, <2>3, <2>4, <2>5, <2>6, <2>7
<1>11. CASE CommitCreate(m)
  <2>1. /\ UNCHANGED <<html, torn, made, skipped>> /\ mpc[m] = "creating" /\ mpc'[m] = "list"
    BY <1>1, <1>11 DEF CommitCreate, Go, TypeOK, output, make, past
  <2>2. m \notin skipped => \A p \in Pages : ~html[p].there
    BY <1>2, <1>3, <2>1 DEF PageOf, Making, MakingLabels
  <2>3. m \notin skipped => \A p \in made[m] : Present(p)
    BY <1>3, <2>1 DEF Making, MakingLabels
  <2> QED
    BY <1>m, <2>1, <2>2, <2>3 DEF Present
<1>12. CASE Query(m)
  <2>0. /\ UNCHANGED <<dayTable, date, page, made, torn, skipped>> /\ mpc[m] = "query"
        /\ date[m] \in Days /\ page[m] \in Pages /\ made[m] \subseteq Pages
    BY <1>1, <1>12 DEF Query, TypeOK, tables, script, make, past
  <2>1. CASE dayTable[date[m]].there
    <3>1. html' = Opened(page[m], date[m]) /\ mpc'[m] = "write"
      BY <1>1, <1>12, <2>1 DEF Query, Go, TypeOK
    <3>2. /\ html'[page[m]].there /\ html'[page[m]].day = date[m]
          /\ html'[page[m]].rows = dayTable[date[m]].rows
      BY <1>1, <2>0, <3>1, OpenedPages
    <3>3. \A q \in Pages : q # page[m] =>
            /\ html'[q].there = html[q].there /\ html'[q].day = html[q].day
            /\ html'[q].rows = html[q].rows /\ html'[q].whole = html[q].whole
      BY <1>1, <2>0, <3>1, OpenedPages
    <3>4. ASSUME NEW p \in Pages, html'[p].there, m \notin skipped PROVE PageOf(m, p)'
      <4>1. CASE p = page[m]
        BY <2>0, <2>1, <3>1, <3>2, <4>1 DEF PageOf
      <4>2. CASE p # page[m]
        <5>1. PageOf(m, p)
          BY <1>3, <2>0, <3>3, <3>4, <4>2 DEF Making, MakingLabels
        <5> QED
          BY <2>0, <3>3, <4>2, <5>1 DEF PageOf
      <4> QED
        BY <4>1, <4>2
    <3>5. ASSUME NEW p \in made'[m], m \notin skipped PROVE Present(p)'
      <4>1. Present(p) /\ p \in Pages
        BY <1>3, <2>0, <3>5 DEF Making, MakingLabels
      <4> QED
        BY <2>0, <3>2, <3>3, <4>1 DEF Present
    <3> QED
      BY <1>m, <2>0, <3>1, <3>2, <3>4, <3>5
  <2>2. CASE ~dayTable[date[m]].there
    <3>1. mpc'[m] = "failed"
      BY <1>1, <1>12, <2>2 DEF Query, Go, TypeOK
    <3> QED
      BY <1>r, <3>1 DEF MakingLabels
  <2> QED
    BY <2>1, <2>2
<1>13. CASE WritePage(m)
  <2>1. /\ html' = [html EXCEPT ![page[m]].whole = TRUE] /\ page[m] \in Pages
        /\ mpc'[m] = "all" /\ mpc[m] = "write"
        /\ UNCHANGED <<dayTable, date, page, skipped>>
        /\ torn' = torn \ {page[m]} /\ made'[m] = made[m] \cup {page[m]}
        /\ made[m] \subseteq Pages
    BY <1>1, <1>13 DEF WritePage, Go, TypeOK, tables, script
  <2>2. /\ html'[page[m]].whole
        /\ \A q \in Pages :
             /\ html'[q].there = html[q].there /\ html'[q].day = html[q].day
             /\ html'[q].rows = html[q].rows
             /\ q # page[m] => html'[q].whole = html[q].whole
    <3>1. /\ html'[page[m]].whole
          /\ \A q \in Pages :
               /\ html'[q].there = html[q].there /\ html'[q].day = html[q].day
               /\ html'[q].rows = html[q].rows
               /\ q # page[m] => html'[q] = html[q]
      BY <1>1, <2>1, WrittenPages
    <3> QED
      BY <3>1
  <2>3. html[page[m]].there
    BY <1>2, <2>1
  <2>4. ASSUME NEW p \in Pages, html'[p].there, m \notin skipped PROVE PageOf(m, p)'
    <3>1. PageOf(m, p)
      BY <1>3, <2>1, <2>2, <2>4 DEF Making, MakingLabels
    <3> QED
      BY <2>1, <2>2, <3>1 DEF PageOf
  <2>5. ASSUME NEW p \in made'[m], m \notin skipped PROVE Present(p)'
    <3>1. p = page[m] \/ (Present(p) /\ p \in Pages)
      BY <1>3, <2>1, <2>5 DEF Making, MakingLabels
    <3> QED
      BY <2>1, <2>2, <2>3, <3>1 DEF Present
  <2> QED
    BY <1>m, <2>1, <2>4, <2>5
<1>14. CASE PlotFails(m)
  <2>1. /\ UNCHANGED html \/ html' = [html EXCEPT ![page[m]] = Missing]
        /\ mpc'[m] = "all" /\ mpc[m] = "write"
        /\ UNCHANGED <<dayTable, date, page, skipped>>
        /\ torn' = torn \cup {page[m]} /\ made'[m] = made[m] \cup {page[m]}
        /\ made[m] \subseteq Pages
    BY <1>1, <1>14 DEF PlotFails, Go, TypeOK, tables, script
  <2>2. \A p \in Pages : html'[p] = html[p] \/ (~html'[p].there /\ p = page[m])
    <3>1. CASE UNCHANGED html
      BY <3>1
    <3>2. CASE html' = [html EXCEPT ![page[m]] = Missing]
      BY <1>1, <3>2 DEF TypeOK, Missing
    <3> QED
      BY <2>1, <3>1, <3>2
  <2>3. ASSUME NEW p \in Pages, html'[p].there, m \notin skipped PROVE PageOf(m, p)'
    <3>1. html'[p] = html[p]
      BY <2>2, <2>3
    <3>2. PageOf(m, p)
      BY <1>3, <2>1, <2>3, <3>1 DEF Making, MakingLabels
    <3> QED
      BY <2>1, <3>1, <3>2 DEF PageOf
  <2>4. ASSUME NEW p \in made'[m], m \notin skipped PROVE Present(p)'
    <3>1. p = page[m] \/ (Present(p) /\ p \in Pages)
      BY <1>3, <2>1, <2>4 DEF Making, MakingLabels
    <3> QED
      BY <2>1, <2>2, <3>1 DEF Present
  <2> QED
    BY <1>m, <2>1, <2>3, <2>4
<1> QED
  BY <1>5, <1>6, <1>7, <1>8, <1>9, <1>10, <1>11, <1>12, <1>13, <1>14 DEF Move, Step

---------------------------------------------------------------------------
(* The age of the tables.                                                  *)

LEMMA FreshStep ==
  ASSUME IInv, NEW m \in Makes, Move(m)
  PROVE  FreshInv'
<1> SUFFICES ASSUME faults \subseteq {"load"} PROVE FreshInv'
  BY BaseStep DEF IInv, FreshInv
<1>1. /\ UNCHANGED <<faults, today>> /\ TypeOK /\ TypeOK'
      /\ \A n \in Makes : n # m =>
           /\ mpc'[n] = mpc[n] /\ mpc[n] \in {"off", "done", "failed"}
           /\ date'[n] = date[n] /\ startedAt'[n] = startedAt[n]
      /\ Start(m) \/ (Active(m) /\ date[m] = today - 1 /\ m \in Nightly)
  BY BaseStep DEF IInv, Base, Solo, Dated, Active, Never
<1>2. /\ UNCHANGED stored /\ stored \in [Days -> Nat]
      /\ \A n \in Makes : startedAt[n] \in Nat /\ startedAt'[n] \in Nat /\ date[n] \in Days
      /\ \A d \in Days : dayTable[d].rows \in Nat /\ dayTable'[d].rows \in Nat
      /\ \A d \in Days, p \in Pages : results[d][p].rows \in Nat
  <2>1. UNCHANGED stored
    BY DEF Move, Start, Step, PlotFails, CutClean, Kill, KillInstall, Clean, DropTable,
       EndOfList, RemoveList, RemovePages, StartPage, MakeInstall, AllMade, TableThere,
       BeginCreate, CommitCreate, Unblock, List, Query, WritePage, Install, world
  <2>2. \A d \in Days, p \in Pages : results[d][p] \in ResultType
    BY <1>1 DEF TypeOK, ResultType
  <2>3. \A h \in ResultType : h.rows \in Nat
    BY DayTablesAssumption DEF ResultType
  <2> QED
    <3>1. \A n \in Makes : startedAt[n] \in Nat /\ startedAt'[n] \in Nat /\ date[n] \in Days
      <4>1. /\ startedAt \in [Makes -> 0..MaxLoads] /\ startedAt' \in [Makes -> 0..MaxLoads]
            /\ date \in [Makes -> Days]
        BY <1>1 DEF TypeOK
      <4> QED
        BY <4>1, DayTablesAssumption
    <3>2. \A d \in Days : dayTable[d].rows \in Nat /\ dayTable'[d].rows \in Nat
      <4>1. /\ dayTable \in [Days -> [there : BOOLEAN, rows : 0..MaxLoads]]
            /\ dayTable' \in [Days -> [there : BOOLEAN, rows : 0..MaxLoads]]
        BY <1>1 DEF TypeOK
      <4>2. \A t \in [there : BOOLEAN, rows : 0..MaxLoads] : t.rows \in Nat
        BY DayTablesAssumption
      <4> QED
        BY <4>1, <4>2
    <3>3. stored \in [Days -> Nat]
      BY <1>1, DayTablesAssumption DEF TypeOK
    <3> QED
      BY <2>1, <2>2, <2>3, <3>1, <3>2, <3>3
<1>3. \A n \in Makes :
        /\ startedAt[n] <= stored[date[n]]
        /\ mpc[n] = "done" =>
             /\ \A p \in Pages : results[date[n]][p].rows >= startedAt[n]
             /\ \A o \in Makes : Active(o) /\ date[o] = date[n] => startedAt[o] >= startedAt[n]
  BY DEF IInv, FreshInv
<1>4. /\ (mpc[m] = "rmPages" \/ Making(m)) /\ dayTable[date[m]].there =>
           dayTable[date[m]].rows >= startedAt[m]
      /\ mpc[m] = "creating" => copied[m] >= startedAt[m]
  BY DEF IInv, FreshInv
(* A step that installs nothing and starts nothing: what is to be shown.   *)
<1>m. ASSUME UNCHANGED <<results, startedAt>>, ~Start(m), date'[m] = date[m], mpc'[m] # "done",
             (mpc'[m] = "rmPages" \/ Making(m)') /\ dayTable'[date[m]].there =>
               dayTable'[date[m]].rows >= startedAt[m],
             mpc'[m] = "creating" => copied'[m] >= startedAt[m]
      PROVE  FreshInv'
  <2> SUFFICES ASSUME NEW n \in Makes
               PROVE  /\ startedAt'[n] <= stored'[date'[n]]
                      /\ (mpc'[n] = "rmPages" \/ Making(n)') /\ dayTable'[date'[n]].there =>
                           dayTable'[date'[n]].rows >= startedAt'[n]
                      /\ mpc'[n] = "creating" => copied'[n] >= startedAt'[n]
                      /\ mpc'[n] = "done" =>
                           /\ \A p \in Pages : results'[date'[n]][p].rows >= startedAt'[n]
                           /\ \A o \in Makes : Active(o)' /\ date'[o] = date'[n] =>
                                startedAt'[o] >= startedAt'[n]
    BY DEF FreshInv
  <2>1. \A o \in Makes : Active(o)' => Active(o) /\ date'[o] = date[o]
    BY <1>1, <1>m DEF Active
  <2>2. date'[n] = date[n] /\ startedAt'[n] = startedAt[n]
    BY <1>1, <1>m
  <2>3. CASE n = m
    BY <1>2, <1>3, <1>m, <2>2, <2>3
  <2>4. CASE n # m
    <3>1. mpc'[n] = mpc[n] /\ mpc[n] \in {"off", "done", "failed"}
      BY <1>1, <2>4
    <3> QED
      BY <1>2, <1>3, <1>m, <2>1, <2>2, <3>1 DEF Making, MakingLabels
  <2> QED
    BY <2>3, <2>4
<1>s. mpc[m] # "off" => ~Start(m)
  BY DEF Start
<1>5. CASE Start(m)
  <2>1. m \in Nightly /\ mpc[m] = "off"
    BY <1>5 DEF Start, Makes
  <2>2. /\ startedAt'[m] = stored[date'[m]] /\ mpc'[m] = "clean" /\ UNCHANGED results
        /\ date'[m] = today - 1 /\ today - 1 \in Days
    BY <1>1, <1>5, <2>1, Yesterday DEF Start, Go, TypeOK, output
  <2> SUFFICES ASSUME NEW n \in Makes
               PROVE  /\ startedAt'[n] <= stored'[date'[n]]
                      /\ (mpc'[n] = "rmPages" \/ Making(n)') /\ dayTable'[date'[n]].there =>
                           dayTable'[date'[n]].rows >= startedAt'[n]
                      /\ mpc'[n] = "creating" => copied'[n] >= startedAt'[n]
                      /\ mpc'[n] = "done" =>
                           /\ \A p \in Pages : results'[date'[n]][p].rows >= startedAt'[n]
                           /\ \A o \in Makes : Active(o)' /\ date'[o] = date'[n] =>
                                startedAt'[o] >= startedAt'[n]
    BY DEF FreshInv
  <2>3. CASE n = m
    BY <1>2, <2>2, <2>3 DEF Making, MakingLabels
  <2>4. CASE n # m
    <3>1. /\ mpc'[n] = mpc[n] /\ mpc[n] \in {"off", "done", "failed"}
          /\ date'[n] = date[n] /\ startedAt'[n] = startedAt[n]
      BY <1>1, <2>4
    <3>2. \A o \in Makes : Active(o)' => o = m
      BY <1>1 DEF Active
    <3>3. \A o \in Makes : Active(o)' /\ date'[o] = date'[n] => startedAt'[o] >= startedAt'[n]
      BY <1>2, <1>3, <2>2, <3>1, <3>2
    <3> QED
      BY <1>2, <1>3, <2>2, <3>1, <3>3 DEF Making, MakingLabels
  <2> QED
    BY <2>3, <2>4
<1>6. CASE Clean(m)
  <2>1. /\ UNCHANGED <<tables, results, date, startedAt>> /\ mpc[m] = "clean"
        /\ mpc'[m] = IF temptables.there THEN "drop" ELSE "rmPages"
    BY <1>1, <1>6 DEF Clean, Go, TypeOK, output, script, past
  <2>2. \A n \in Makes : mpc[n] # "list"
    BY <1>1, <2>1
  <2>3. ~temptables.there => \A d \in Days : ~dayTable[d].there
    BY <2>2 DEF IInv, ListedInv, Never
  <2> QED
    BY <1>2, <1>m, <1>s, <2>1, <2>3 DEF Making, MakingLabels, tables
<1>7. CASE DropTable(m) \/ EndOfList(m)
  <2>1. /\ UNCHANGED <<results, date, startedAt>> /\ mpc[m] = "drop"
        /\ mpc'[m] \in {"drop", "rmList"}
    BY <1>1, <1>7 DEF DropTable, EndOfList, Go, TypeOK, output, script, past
  <2> QED
    BY <1>m, <1>s, <2>1 DEF Making, MakingLabels
<1>8. CASE RemoveList(m)
  <2>1. /\ UNCHANGED <<dayTable, results, date, startedAt>> /\ mpc[m] = "rmList"
        /\ mpc'[m] = "rmPages"
    BY <1>1, <1>8 DEF RemoveList, Go, TypeOK, output, past
  <2>2. \A d \in Days : ~dayTable[d].there
    <3>1. \A n \in Makes : mpc[n] # "list"
      BY <1>1, <2>1
    <3> QED
      BY <2>1, <3>1 DEF IInv, ListedInv, Never
  <2> QED
    BY <1>2, <1>m, <1>s, <2>1, <2>2 DEF Making, MakingLabels
<1>9. CASE RemovePages(m) \/ MakeInstall(m) \/ AllMade(m) \/ TableThere(m) \/ Unblock(m)
           \/ List(m) \/ Query(m) \/ WritePage(m) \/ StartPage(m)
  <2>1. /\ UNCHANGED <<dayTable, results, startedAt>>
        /\ mpc'[m] \notin {"creating", "done"}
        /\ mpc[m] = "rmPages" \/ Making(m)
    <3>1. UNCHANGED <<dayTable, results, startedAt>> /\ (mpc[m] = "rmPages" \/ Making(m))
      BY <1>9 DEF RemovePages, MakeInstall, AllMade, TableThere, Unblock, List, Query,
         WritePage, StartPage, output, tables, past, Making, MakingLabels
    <3>2. mpc \in [Makes -> Labels]
      BY <1>1 DEF TypeOK
    <3>3. mpc'[m] \in {"all", "create", "install", "query", "write", "failed"}
      BY <1>9, <3>2 DEF RemovePages, MakeInstall, AllMade, TableThere, Unblock, List,
         Query, WritePage, StartPage, Go
    <3> QED
      BY <3>1, <3>3
  <2>2. ~Start(m)
    BY <1>s, <2>1 DEF Making, MakingLabels
  <2>3. date'[m] = date[m]
    <3>1. CASE StartPage(m)
      BY <1>1, <2>2, <3>1 DEF StartPage, RecipeDate, TypeOK
    <3> QED
      BY <1>9, <3>1 DEF RemovePages, MakeInstall, AllMade, TableThere, Unblock, List,
         Query, WritePage, script
  <2> QED
    BY <1>4, <1>m, <2>1, <2>2, <2>3
<1>10. CASE BeginCreate(m)
  <2>1. /\ UNCHANGED <<tables, results, date, startedAt>> /\ mpc[m] = "create"
        /\ mpc'[m] \in {"blocked", "creating"} /\ ~dayTable[date[m]].there
        /\ mpc'[m] = "creating" => copied'[m] = stored[date[m]]
    BY <1>1, <1>10 DEF BeginCreate, Go, TypeOK, output, past
  <2> QED
    BY <1>2, <1>3, <1>m, <1>s, <2>1 DEF tables
<1>11. CASE CommitCreate(m)
  <2>1. /\ UNCHANGED <<results, date, startedAt>> /\ mpc[m] = "creating" /\ mpc'[m] = "list"
        /\ dayTable' = [dayTable EXCEPT ![date[m]] = [there |-> TRUE, rows |-> copied[m]]]
    BY <1>1, <1>11 DEF CommitCreate, Go, TypeOK, output, past
  <2>2. dayTable'[date[m]].rows = copied[m]
    BY <1>1, <2>1 DEF TypeOK
  <2> QED
    BY <1>4, <1>m, <1>s, <2>1, <2>2
<1>12. CASE Install(m)
  <2>1. /\ UNCHANGED <<dayTable, html, startedAt>> /\ mpc[m] = "install"
        /\ mpc'[m] \in {"done", "failed"}
    BY <1>1, <1>12 DEF Install, Go, TypeOK, tables, past
  <2>2. date[m] = today - 1 /\ RecipeDate(m) = today - 1 /\ today - 1 \in Days
    BY <1>1, <1>s, <2>1, Yesterday DEF RecipeDate
  <2>3. /\ date'[m] = date[m]
        /\ \A d \in Days :
             results'[d] = IF d = date[m] THEN Copied(PagesThere, date[m]) ELSE results[d]
    BY <1>1, <1>12, <2>2 DEF Install, TypeOK
  <2>4. ASSUME NEW p \in Pages
        PROVE  /\ Copied(PagesThere, date[m])[p].rows \in Nat
               /\ Copied(PagesThere, date[m])[p].rows >= startedAt[m]
    <3>1. skipped = {} /\ torn = {}
      BY DEF IInv, Base, Failures
    <3>2. html[p].there /\ PageOf(m, p)
      BY <2>1, <3>1 DEF IInv, AgreeInv, Present, Making, MakingLabels
    <3>3. p \in PagesThere
      BY <3>2 DEF PagesThere
    <3>4. Copied(PagesThere, date[m])[p].rows = html[p].rows
      BY <1>1, <2>2, <3>3, CopiedPages
    <3>5. html[p].rows = dayTable[date[m]].rows /\ dayTable[date[m]].rows >= startedAt[m]
      BY <1>4, <2>1, <3>2 DEF PageOf, Making, MakingLabels
    <3> QED
      BY <1>2, <2>2, <3>4, <3>5
  <2>5. \A o \in Makes : ~Active(o)'
    BY <1>1, <2>1 DEF Active
  <2>6. Active(m)
    BY <2>1 DEF Active
  <2> SUFFICES ASSUME NEW n \in Makes
               PROVE  /\ startedAt'[n] <= stored'[date'[n]]
                      /\ mpc'[n] = "done" =>
                           \A p \in Pages : results'[date'[n]][p].rows >= startedAt'[n]
    BY <1>1, <2>1, <2>5 DEF FreshInv, Making, MakingLabels
  <2>7. CASE n = m
    BY <1>2, <1>3, <2>1, <2>2, <2>3, <2>4, <2>7
  <2>8. CASE n # m
    <3>1. /\ mpc'[n] = mpc[n] /\ date'[n] = date[n] /\ startedAt'[n] = startedAt[n]
      BY <1>1, <2>8
    <3>2. CASE date[n] = date[m]
      <4>1. mpc[n] = "done" => startedAt[m] >= startedAt[n]
        BY <1>3, <2>6, <3>2
      <4> QED
        BY <1>2, <1>3, <2>3, <2>4, <3>1, <3>2, <4>1
    <3>3. CASE date[n] # date[m]
      BY <1>2, <1>3, <2>3, <3>1, <3>3
    <3> QED
      BY <3>2, <3>3
  <2> QED
    BY <2>7, <2>8
<1> QED
  BY <1>5, <1>6, <1>7, <1>8, <1>9, <1>10, <1>11, <1>12
  DEF Move, Step, PlotFails, CutClean, Kill, KillInstall

---------------------------------------------------------------------------
(* The theorems.                                                           *)

LEMMA NextInv == IInv /\ [Next]_vars => IInv'
<1> SUFFICES ASSUME IInv, [Next]_vars PROVE IInv'
  OBVIOUS
<1>1. CASE UNCHANGED vars
  <2>1. UNCHANGED <<faults, today, stored, dayTable, temptables, html, results, mpc, date,
                    page, seen, copied, installing, made, startedAt, skipped, torn>>
    BY <1>1 DEF vars, world, tables, output, script, make, past
  <2>2. TypeOK'
    BY <2>1 DEF IInv, Base, TypeOK
  <2>3. Solo' /\ Dated' /\ Failures' /\ DayInv'
    BY <2>1 DEF IInv, Base, Solo, Dated, Failures, DayInv, CutDay, Never, Active, Making
  <2>4. ListedInv'
    BY <2>1 DEF IInv, ListedInv, Never
  <2>5. AgreeInv' /\ FreshInv'
    BY <2>1 DEF IInv, AgreeInv, FreshInv, Active, Making, PageOf, Present
  <2> QED
    BY <2>2, <2>3, <2>4, <2>5 DEF IInv, Base
<1>2. ASSUME NEW m \in Makes, Move(m)
      PROVE  IInv'
  BY <1>2, BaseStep, DayStep, ListedStep, AgreeStep, FreshStep DEF IInv
<1> QED
  BY <1>1, <1>2, WorldStep DEF Next, Move

LEMMA Invariance == Spec => []IInv
BY InitInv, NextInv, PTL DEF Spec

(* The variables of the makes keep their types.                            *)
THEOREM TypeCorrect == Spec => []TypeOK
<1>1. IInv => TypeOK
  BY DEF IInv, Base
<1> QED
  BY <1>1, Invariance, PTL

(* The pages that nightly makes install for a day are of that day, also    *)
(* when two makes run at a time, unless a make clean of that day was cut   *)
(* short; and so whatever else is killed or fails, and also when an        *)
(* earlier day's make clean was: what it left is removed by the next one   *)
(* that comes to its end.                                                  *)
THEOREM PagesAreOfTheirDay == Spec => []InstalledForDate
<1>1. IInv => InstalledForDate
  BY DEF IInv, DayInv, CutDay, InstalledForDate, Never
<1> QED
  BY <1>1, Invariance, PTL

(* A day table is in the list unless it is about to be, so that make clean *)
(* finds it; this needs that the list is removed behind its tables only.   *)
THEOREM TablesAreListed == Spec => []TablesListed
<1>1. IInv => TablesListed
  BY DEF IInv, ListedInv, TablesListed, Never
<1> QED
  BY <1>1, Invariance, PTL

(* However many pages there are and whichever scripts and makes before     *)
(* were killed, a make whose own make clean came to its end installs whole *)
(* pages made from the same rows, all of them; but for the plots whose     *)
(* gnuplot failed under it.                                                *)
THEOREM PagesAreOfOneTable == Spec => []PagesAgree
<1>1. IInv => PagesAgree
  <2> SUFFICES ASSUME IInv, faults \subseteq {"load", "kill", "drop"},
                      NEW m \in Makes \ skipped, mpc[m] = "install"
               PROVE  /\ \A p \in Pages : (html[p].there /\ html[p].whole) \/ p \in torn
                      /\ \A p, q \in PagesThere :
                           html[p].day = html[q].day /\ html[p].rows = html[q].rows
    BY DEF PagesAgree
  <2>1. \A p \in Pages : html[p].there \/ p \in torn
    BY DEF IInv, AgreeInv, Present
  <2>2. \A p \in Pages : html[p].there => PageOf(m, p)
    BY DEF IInv, AgreeInv, Making, MakingLabels
  <2> QED
    BY <2>1, <2>2 DEF PageOf, PagesThere
<1> QED
  BY <1>1, Invariance, PTL

(* Without faults the pages of a make are no older than the make, over any *)
(* number of days and however late loads are.                              *)
THEOREM PagesAreFresh == Spec => []PagesFresh
<1>1. IInv => PagesFresh
  BY DEF IInv, FreshInv, PagesFresh
<1> QED
  BY <1>1, Invariance, PTL
=============================================================================
