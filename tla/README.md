# DNSmezzo: models, checks and proofs

DNSmezzo dissects captures of DNS traffic and stores one row per DNS packet in a
PostgreSQL database, from which reports are made. This directory holds a TLA+ model
of the code, the TLC configurations that check it on small instances, and proofs
that TLAPS checks for every value of the constants. `PROJECT.json` maps every
definition to the lines it models.

## 1. The system

    pcapdump --> *.cap files --> dailyreport (cron) --> packets2postgresql --> PostgreSQL --> reports
                                                          get_next_packet       Pcap_files
                                                                                DNS_Packets

| part | state it keeps | operations | what is hard |
|---|---|---|---|
| dissector, `pcap-parse.c` | `pcap_parser_file` (counters, first and last time stamp); `struct dns_packet`, allocated once by the caller and filled by every call | `pcap_file_open`, `get_next_packet`, `pcap_file_close` | an untrusted byte cursor with bounds written by hand; a struct that is reused across frames and written also for frames that are dropped; an uninitialised pointer over IPv6 extension headers |
| loader, `packets2postgresql.c` | its own packet count, the parameter buffers, the open transaction | options, INSERT of the file row, INSERT per packet, COMMIT every `-e` packets, UPDATE of the file row, last COMMIT | several loads at once; fatal errors and kills at any point; an answer to COMMIT that is lost; three counters (`packetnum` twice, `dnspacketnum`) that must agree |
| store, `create.sql` | `Pcap_files`, `DNS_Packets` | the commits of the loaders; SELECTs of the reports | which rows readers see of a load that runs or failed; `filename` is UNIQUE |
| domain name type, `domain-name-type/` | a table with a btree index over `domainname` | text to name, comparisons, accessors | the operators, their declared negators and commutators and the index must agree |
| cron jobs, `cron/` | `/tmp/database.lock`, `dump/`, `current/`, `backup/`, the tables of this and the last week | `dailyreport`, `weeklyrotate` | two jobs over the same tables, a lock by pid, failed loads |
| day tables, `reporting/sajat/` | `dns_packets_YYYYMMDD`, the file `temptables` | `general-page.py`, `general-plot.py`, `cleanuptables` | a table is committed before it is listed; the list is removed whatever happened; a `make clean` and a gnuplot that fail are ignored |
| report selection, `reporting/Utils.py` | none | `get_set_days` | pairing of days over files in order of addition |
| label functions, `util-functions.sql` | none | `first_label`, `last_labels`, `last_label` | off by one over labels |

All of these are modelled. The rest are single SELECTs formatted as pages and plots (`reporting/*.py`,
`reports/`), static data and one-shot SQL (`dns-parameters*`, `index.sql`, `grant.sql`,
`drop*.sql`, `delete_old_records.sql`), a vendored copy of `tablefunc.sql`, tools to
try the parser out (`test1.c`, `parse-metadata.c`, `test-disk.sh`), capture settings
and the web site. They keep no state the system depends on and are not modelled.

How the parts interact: a load calls the dissector once per stored packet and passes
it the same struct each time; loads meet only in the database; reports read what is
committed; the cron jobs start loads and rename the tables under the reports. The
domain name type is a library of PostgreSQL, used by hand-made tables.

What makes each part correct:

- dissector: its cursor over the question never far outside the capture, no legal
  question lost, no field of another frame in a returned packet, always an end;
- loader: no frame stored twice, a file row with totals means a complete load, what
  an unfinished load leaves is whole batches and recognisable, no two loads wait for
  each other for ever;
- store: readers see rows only added, never changed behind the totals;
- domain name type: one order for comparison functions, operators and index, names
  unique in it, and the same derived columns however a name got in;
- cron jobs: every capture is loaded once and counted in one week (while `mv` does its
  work), and no report runs on half-rotated tables;
- day tables: the pages of a day are whole, of that day, of one state of the database and
  not older than their `make` (behind a `make clean` that came to its end, and but for
  plots that gnuplot failed to draw); every table made is found by the next `make clean`;
- report selection: the pairs are the earliest ones, disjoint, and of neighbouring days;
- label functions: they return the labels they are named for, and group names under the
  domains the type derives.

## 2. Modules

    QuestionWalk  <-- QuestionProofs                       MCQuestionWalk
    PcapParse <-- Loader <-- LoaderProofs <-- LoaderRowsProofs   MCLoader
    PacketStore <-- (INSTANCE) Loader
    DomainName <-- DomainIndex <-- ReportNames <-- DomainProofs   MCDomainIndex
    LabelFunctions <-- (INSTANCE) ReportNames
    CronJobs <-- CronProofs                                MCCronJobs
    WeekStore <-- (INSTANCE) CronJobs
    DayTables <-- DayTablesProofs                          MCDayTables
    SetDays <-- SetDaysProofs                              MCSetDays
    NumberFacts <-- DomainProofs, SetDaysProofs

**QuestionWalk** is the byte cursor of `get_next_packet` behind the DNS header: the loop
over labels, QTYPE and QCLASS, the OPT record. `sectionptr`, `labelsize`, the length of
`fqdn` and `captured_length` are variables as in the code; a byte is chosen when the
cursor reads it, which is sound because the cursor never goes back. A label is its
length octet and the number of its bytes before the first NUL, since the string
functions see no more. `Cut` is the macro `CHECK_SECTIONPTR` with its own arithmetic.
Three history variables (`wire`, `extent`, `plain`) say what was announced on the wire,
so that properties can compare it with what the code did.

**PcapParse** is everything else of `get_next_packet`, as operators: a frame is a record
of the decisions the code takes on it, `struct dns_packet` is a record whose fields hold
the number of the frame they were last written from. That is what is needed to see a
field left over from an earlier frame. The uninitialised `where_am_i` is a choice of
outcomes: any other reading of the frame (`Readings`), the end of the process (`Die`) or
an endless loop (`Hang`).

**PacketStore** is the abstract specification of the database as readers see it: each
load publishes its file row and adds packet rows, and nothing follows the totals.

**Loader** is `main` of `packets2postgresql`, any number of executions at once, each with
its file, options and transaction. One action is one statement of the control: `Open`,
`InsertFile`, `DuplicateFile`, `Call` (entry of `get_next_packet`, where `rank` is
taken), `Grab` (one frame), `EndOfFile`, `InsertPacket` (with the decisions behind it),
`CommitBatch`, `FileEnd` (the UPDATE), `FinalCommit`. `Fail` is `fatal()` or a kill at
any point; `CommitLost` is a COMMIT whose answer is lost. Isolation, UNIQUE and COMMIT
are PostgreSQL's and external: another transaction's uncommitted name makes an INSERT
wait (`Held`), a committed one makes it fail (`Taken`).

**DomainName** is `domain-name-type/`: reading and printing, derived fields, comparison
functions and operators. A text is the sequence of its labels; `strcmp` and `strlen` are
the parameters `Before` and `Size`, a total order and a length that case does not change
and cutting dots at the end does not increase (`OrderAssumption`, `SizeAssumption`).

**DomainIndex** is a table with a UNIQUE column of that type (as `Registry` in
`test-domain-name.sql`) and its btree, where the btree uses the comparison function for
its order and the operators for its searches, as PostgreSQL does with
`domainname_ops`. A text of exactly `MAX_LENGTH` octets makes `_lower` measure its own
unterminated output; it is the action `Crash`.

**LabelFunctions** is `util-functions.sql` as operators over texts, with the SQL
functions' own loops, the NULL of an array read out of range and the error of a
`substr` of length -1. **ReportNames** puts them beside the type: the reports use both.

**WeekStore** is the abstract specification of what the rotation leaves the reports:
this week's captures and last week's, each capture once in its life, last week's
forgotten as a whole before this week's take their place. Its parameter `again` says
where a capture may enter another week (never the same one twice): where CronJobs may
have `mv` fail, or a daily job both late and overlapping (`Again`).

**CronJobs** is `dailyreport` and `weeklyrotate` with `rotate.sql` and `create.sql`: any
number of executions of each over `dump`, `current`, `backup`, the lock file and the
tables. One action is one command of the shell or one SQL statement (each a transaction,
since `psql` runs without one and goes on behind an error). A table is whether it exists
and the captures in it, and `DNS_Packets` has the table its foreign key follows. What a
load does inside its transaction is Loader's; here it is the three points where it meets
the rotation and other loads (`InsertFile`, `InsertPackets`, `CommitLoad`), with the row
locks that make a `DROP` or `RENAME` wait. The statuses of `mv` and `find` are ignored by
the script: under `"mv"` they reach any subset of their files (`Moved`) and the job goes
on. `echo $$ > file` is two steps, as the shell
opens the file before it writes. The view of `qtype_view.sql` is there or not.

**DayTables** is `reporting/sajat`: `make clean; make; make install` as cron runs it and
`make install DATE=...` as its README tells to run by hand. The scripts of pages and plots
are one program here (`general-page.py` and `general-plot.py` share the code that creates
and lists the day table); a page is the day and the load its rows are of, whether it was
written to its end, and whether it is older than a plot it depends on. make runs the
script of what is missing or older than its plots (`OutOfDate`), each once in an execution
(`made`), and looks again for `make install` (`MakeInstall`). `CREATE TABLE AS` is two
steps (`BeginCreate`, `CommitCreate`), since the table is invisible until it is committed,
and a second `CREATE` of the name waits. What fails is told apart by what the code does
about it: a recipe or a job that is killed ends the job (`Kill`, `KillInstall`); a
`make clean` that is cut short at any of its commands does not (`CutClean`:
`dailyreport:27` has no `|| error`), and a gnuplot that fails leaves a part of the plot or
none while its recipe succeeds (`PlotFails`: `general-plot.py:125`). The histories
`skipped` and `torn` say where that happened.

**SetDays** is `get_set_days`, one action per round of its loop, and the end the
generator comes to (with a `TypeError` when the query had no row).

**MCQuestionWalk, MCLoader, MCDomainIndex, MCCronJobs, MCDayTables, MCSetDays** give the
constants small values.

CronJobs and DayTables have a variable `faults`, chosen once from the constant
`Scenarios`: the set of things that may go wrong in a behaviour. It lets one run check
several combinations, and lets a property say under which of them it holds (`"late"
\notin faults => ...`). A fault that is allowed is still only possible, never forced.

The definitions whose comment says what a slip would make of the code (`CutTooLate`,
`CopiedAway`, ...) are not used by any specification.
`PROJECT.json` puts each in place of the definition behind it to see that a property
notices.

## 3. Runs

`tlc -workers 2 -config <run>.cfg <module>`; each finishes within four minutes.

| run | states | properties | bounds |
|---|---|---|---|
| `question_walk` | 49,624 | `TypeOK` `ReadsStayNear` `DroppedForCause` `LegalNameFits` `WholeName` `WalkEnds` | labels up to 3, names up to 9, 0 to 24 captured bytes |
| `loader_single` | 207,420 | `OneFramePerRow` `SealedComplete` `RanksChain` `BatchBoundary` | 1 execution, 18 kinds of frames, 6 command lines, all faults |
| `loader_race` | 156,098 | `TypeOK` `NoFrameTwice` `NoWaitInVain` `StoreSpec` `RunsEnd` `EveryFileLoaded` | 2 executions, 2 names, 2 captures, 3 command lines, all faults |
| `domain_index` | 12,294 | `TypeOK` `NamesOnce` `IndexOrdered` `SearchesAgree` `DumpRestores` `ResultsRight` `SameDomains` | 18 texts, 3 rows |
| `cron_jobs` | 2,351,204 | `TypeOK` `LoadsUndisturbed` `RotationRepairs` `FreshWeek` `PacketsOfTheirFile` `SavedUnlessFailed` `WeekStoreSpec` | 2 captures, 2 nights, 2 weeks, 8 scenarios |
| `cron_live` | 259,123 | `DailyEnds` `CurrentLoaded` | 2 captures, 2 nights, 1 week, 8 scenarios |
| `day_tables` | 722,495 | `TypeOK` `InstalledForDate` `PagesAgree` `PagesFresh` `TablesListed` `MakesEnd` | 2 nightly makes, 1 by hand, a page and its plot, 2 days, 5 scenarios |
| `setdays` | 72,208 | `EarliestPairs` `LessThanTenDays` | all orders of up to 6 files; 28 days in both orders, one missing or none |
| `loader_rank` | | `RankInFile` is violated | 1 execution |
| `loader_regdomain` | | `RegisteredDomainOfRow` is violated | 1 execution |
| `domain_greater` | | `SearchGreater` is violated | 2 rows |
| `cron_saved` | | `NewFilesSaved` is violated | 2 captures, dailyreport may fail |

Why the bounds are enough for the interesting cases:

- `question_walk`: with labels up to 3 and names up to 9 a name can end below, at and
  beyond its limit by one label or by several, and 24 bytes are more than such a name,
  its QTYPE, QCLASS and an OPT record need, so every check can fail at every byte.
  The arithmetic has no other constants; the theorems of section 4 drop the limits.
- `loader_single`: what a frame leaves behind matters for the frames after it, so all
  pairs of kinds are tried, all triples of the kinds that leave something behind, and
  a few captures long enough for two batches. The options include no batch, batches of
  one and two, `-m` at, below and above the number of packets and `-n`.
- `loader_race`: two executions on one name (one holds it, the other waits) or on two;
  in one transaction, in batches, and with `-m`. One run serves the invariants, the
  refinement and the liveness; that more executions change nothing is proved for the
  safety properties and for the two that the liveness rests on: steps run out
  (`StepsRunOut`), and nobody waits for one who waits (`NoWaitInVain`), so two executions
  make every wait there is.
- `domain_index`: the texts hold each case of the code (upper case, leading, doubled and
  trailing dots, dots alone, `fr`, a sectoral domain and names below it, lengths at and
  beyond `MAX_LENGTH`); three rows are the least with a row in the middle. The label
  functions are asked for every text, and for 0 to two more labels than it has.
- `cron_jobs`: two captures give a for loop a word behind the one that fails; two nights
  let a capture be fetched, moved away and removed (`BackupDays` is 0), and two daily
  jobs overlap; two weeks let a rotation meet what another one left. The scenarios are
  none; daily jobs that are late, with kills; daily jobs that overlap; refused
  statements with late jobs and kills; the view with kills; kills with a full disk.
  Then `late` and `overlap` together, and files that `mv` and `find` leave where they
  are, with kills: there one capture may be loaded in two weeks (`Again`), which the code
  does nothing against, but not twice in one.
  `cron_live` has one rotation, as one is enough for a daily job to wait for.
- `day_tables`: a plot is made before the day's table is there and the page it is on
  behind it, so one may be there without the other, old or torn; two nightly makes of one
  day or of neighbouring days, and one by hand behind or beside them. `MaxLoads` 1 tells
  rows before and after a load. The scenarios are loads alone, with kills and with failing
  DROPs; midnight with the make by hand and with two makes at a time.
- `setdays`: six files are two pairs with a file between; the days that matter are
  Sunday, Tuesday, another and none. Four weeks a file a day, beginning on any day of
  the week, are three pairs and both ends.

Deadlock is not checked: the walk, loads, jobs and makes end (or hang, or wait for
something that does), and a table of `MaxRows` names may take no more. That nothing
stops too early is what `WalkEnds`, `RunsEnd`, `EveryFileLoaded`, `DailyEnds`,
`CurrentLoaded` and `MakesEnd` say.

Fairness: `WF_vars(Next)` for the walk, which is a loop of one process. For the loader,
the jobs and the makes, `WF` of each process's own steps: the system schedules it, and
the server resumes a statement that waits when what it waits for ends. `StartDaily` is
fair as cron starts it every night; `StartWeekly`, arrivals, loads behind DayTables, days
that pass, and every fault are never forced. `EveryFileLoaded` and `CurrentLoaded` allow
for a failed execution, and `CurrentLoaded` does not speak of daily jobs that are both
late and overlapping; `RunsEnd` excludes only captures with IPv6 extension headers, on
which the code may really loop for ever; `DailyEnds` allows a job to wait behind a lock
file without a pid, as it really does. DomainIndex and SetDays have no fairness.

What the runs that pass show, beyond the obvious: although `CHECK_SECTIONPTR` is off by
one, no legal question at the very end of a capture is lost, and the reads it lets
through reach at most two bytes past it. Although one struct serves all frames and
dropped frames write to it, no column of a row comes from another frame, but for the
`registered_domain` below. The two packet counters of the loader and of the dissector
agree whenever a file is sealed, with `-m` on a batch boundary and with packets dropped
late. A load that failed is recognisable by its NULL totals and holds whole batches
only. Although `dailyreport` looks at the lock once and never takes it, no load runs
into a rotation unless it is still running 18 hours later; and although the two tables
are renamed one after the other, packets never point to another week's files, and the
next rotation repairs what a killed one left, as long as no statement is refused alone.
Although scripts of one `make` find and fill the day's table on their own, all pages of
it agree, and a table left over by a killed script does no harm but to be old. Although
the statuses of `make clean` and gnuplot are ignored, what that spoils is the day whose
own `make clean` was cut short and the plot whose gnuplot failed, and no other.

Findings with a run (details in `PROJECT.json`):

- `DNS_Packets.rank` is the number of the frame of the row before, not the rank of the
  packet in the file that `create.sql` promises. `RanksChain` states what it is.
- `registered_domain` of a row whose name is a sectoral domain itself (`com.fr`) is
  appended to the text of the row before.
- `domainname_gt` is true of equal names, against the index that uses it and against its
  declared negator.
- A load that fails ends `dailyreport` with the files behind it unloaded, and the next
  night moves them to `backup`: "Save content of new files into database" is not done.

Met while modelling, and visible in the models as what the properties leave out:

- `<`, `<=`, `>` and `>=` are declared as their own commutators, and the type prints
  names in lower case although its README calls it case-preserving.
- An empty lock file (a full disk, or a kill between creating and writing it) makes
  `dailyreport` test `/proc/`, which is always there: it waits for ever.
- The view of `qtype_view.sql` follows its table when it is renamed, and from then on
  keeps `DROP TABLE dns_packets_prev` from succeeding.
- When a `RENAME` is refused alone, the packets of a week point to the files of another,
  and ids that happen to be there are accepted.
- A capture is loaded twice when one `dailyreport` overlaps the next and meets the
  rotation, or when `mv` leaves its file in `current` over a rotation (its status is
  ignored, `dailyreport:14`): the name is unique in a week only. Within a week, such a
  file makes every night's loop fail at its first word.
- When `cleanuptables` or `rm` fails or is killed, `dailyreport` goes on (line 27 has no
  `|| error`, lines 28 and 31 do), `make` finds yesterday's pages up to date, and they are
  installed under today's date.
- When gnuplot fails, `make install` copies the part of the plot it left, or yesterday's
  directory keeps none (`general-plot.py:125`); without any `.png` the `cp` fails.
- `LegalNameFits` is about legal names. A longer one is checked without its dot
  (`pcap-parse.c:280`) and dropped behind the copy (line 293): when it is one octet over
  `MAX_NAME`, its NUL is written behind the end of `fqdn`; and a name of `MAX_NAME` octets
  passes, whose NUL has no place in the `malloc(MAX_NAME)` of `qname`.
- `cleanuptables` removes its list also when a `DROP` failed (`! false`), and a script
  killed behind its `CREATE` leaves a table that no list names.
- `make install DATE=...` installs the pages that are there under whatever date is given.
- `first_label` is an SQL error for a name without a dot, and `get_set_days` raises
  `TypeError` when its query returns no row.

## 4. Proofs

`tlapm <module>` checks them; nothing is left out and no axiom is used but the named
assumptions on the constants, which TLC evaluates in the runs.

**QuestionProofs** (`LimitsAssumption`, `LayoutAssumption`): for every `MAX_NAME`, label
limit, start and captured length, `TypeCorrect`, `CursorSafety` (`ReadsStayNear`),
`LegalQuestionsKept` (`DroppedForCause`), `LegalNamesFit`, `NamesCopiedWhole`
(`WholeName`) and `Progress` (each step ends the walk or moves the cursor). The invariant
adds what the properties do not say: text and name on the wire stay two apart
(`TextWithinWire`), between labels the cursor stands where the announced name ends
(`WireIsPassed`), and it never stands more than one byte behind the capture
(`CursorInside`).

**LoaderProofs** (`FramesAssumption`, `LoaderAssumption`, `NullAssumption`): for any
number of executions, names, captures and command lines and any faults,
`TypeCorrect`, `FramesStoredOnce` (`NoFrameTwice`) and `StoreImplemented` (Loader
implements PacketStore). The invariant: per execution, its rows carry its name
(`Named`), exist only while it owns a file row (`Owned`), have ascending frame numbers
below the cursor (`Dated`) and are as many as the dissector counted, the seal coming
last (`Counted`); across executions, no two own rows for one name (`Exclusive`). The
refinement needs `Counted`, because the totals come from the dissector's counter while
the rows come from the loader.

From the refinement follows what readers may count on for ever, for every sequence of
rows, which no run can list: packet rows once seen are there ever after (`RowsStay`), and
a file row with totals and its packets never change (`SealedForGood`). Two theorems carry the safety half
of `RunsEnd` over to any number of executions and frames: `NoEndlessLoop` (`StepsRunOut`)
with a measure that counts the frames left and the labels to go, and `WaitsEnd`
(`NoWaitInVain`), which needs that an execution that is over holds no name (`Released`).
The first three state more than any run's property and are stated in this module.

**LoaderRowsProofs** builds on that invariant and proves what the rows are:
`RanksAreChained`, `RowsAreOfOneFrame`, `OnlyWholeBatches` (`BatchBoundary`) and
`SealedFilesComplete`. None is inductive: the rank of the next row must be known while
its frame is still searched for (`Chained`), the struct must be known to be whole at the
one label where it becomes a row, whatever dropped frames wrote to it before (`Whole`),
`main`'s counter must be tied to the rows inserted and to `-e` and `-m` (`Tallied`), and
for completeness each frame read so far has a row if it holds a DNS packet.

**NumberFacts** holds what the proofs below need of numbers: a set of them has a least
and, when bounded, a greatest element, what `Min` and `Max` are, and induction. The
induction rules of the library take an operator and cannot be instantiated; that the
numbers are well founded (`WFMin`) is a fact about sets, and `SetInduction` derives from it
that a set with 0 and with every successor is the whole of them. A recursive function is
then reasoned about by the set of arguments at which it has its closed form.

**DomainProofs** (`TextsAssumption`, `OrderAssumption`, `SizeAssumption`,
`MaxRowsAssumption`): for any set of texts, any total order and tables of any size,
`TypeCorrect`, `OrderKept` (`IndexOrdered`), `NamesUnique` (`NamesOnce`),
and `SearchesComplete` (`SearchesAgree`). The order of the index is the inductive invariant; that an
insert keeps it rests on `SlotOrder` (what is before and behind the slot of a new name)
and on `Inserted` (the elements of `InsertAt`). `GreaterDiffersByKey` says how far the
finding about `>` goes: the row equal to the key, and no other.

The rest of the module is about texts of any length. `DumpsRestore` (`DumpRestores`) rests
on what printing gives being a fixed point of reading (`StripIsBare`, `CanonicalRead`).
`LabelFunctionsRight` (`ResultsRight`) and `DomainsAgree` (`SameDomains`) need the loop of
`last_labels`: the n-th cut behind a dot leaves the text from its n-th label on (`RestCuts`,
by `SetInduction`), the loop ends at the last label (`LoopEnds`), and so the functions
return what they are named for (`LabelsReturned`).

**CronProofs** (`CronAssumption`): for any number of captures, nights and weeks and every
scenario, `TypeCorrect`, `LockExcludes` (`LoadsUndisturbed`), `PacketsKeepTheirFile`,
`RotationsRepair`, `WeeksStartFresh` (`FreshWeek`), `NewFilesAreSaved`
(`SavedUnlessFailed`) and `WeeksImplemented` (CronJobs implements WeekStore). Each has a part of the invariant of
its own: while a rotation runs, the lock is there and no daily job is past its wait, nor
waits for another pid (`RotationLocked`); the tables that may be left behind belong
together, and what a rotation has done at each of its statements (`Together`, `HalfWay`,
`OwnFiles`); what has moved out of the way and what is created again (`Moved1`,
`Created`, `Fresh`); every capture fetched and not loaded is awaited by a daily job
(`SavedInv`). The refinement rests on the first of these and on two facts about the tables: one that
is absent has no rows (`AbsentEmpty`), and those a load has locked stay where they are
(`LoadingTables`); and on what keeps two daily jobs from the same capture
(`WordsFetched`, `WordsHeld`, `LoadsDiffer`). From it follows `NoCaptureTwice`: no capture
is in the tables of two weeks, also while a rotation runs or when one was killed, in
scenarios without `"mv"` and without `"late"` and `"overlap"` together.

**DayTablesProofs** (`DayTablesAssumption`): for any number of makes, pages, plots, days
and loads, `TypeCorrect`, `PagesAreOfTheirDay` (`InstalledForDate`), `TablesAreListed`,
`PagesAreOfOneTable` (`PagesAgree`) and `PagesAreFresh`. The invariant says which makes
may run beside each other (`Solo`) and for which day (`Dated`), which histories the faults
allow (`Failures`), that behind its `make clean` a nightly make finds pages of its day
only, unless one of that day was cut short (`DayInv`), that the list is removed behind its
tables only (`ListedInv`), that a page of a running make tells what its day's table holds
and is whole or torn (`AgreeInv`), and that this table is no older than the make
(`FreshInv`), which rests on `ListedInv`: behind `make clean` no table is left.

**SetDaysProofs** (`SetDaysAssumption`): for any number of files, of whatever days and in
any order, `PairsAreEarliest` (`EarliestPairs`) and `PairsAreNear` (`LessThanTenDays`). The
invariant is that what the loop keeps is the least row of its day behind the pair before,
and that it never keeps both. For the second theorem, a Sunday and a Tuesday ten or more
days apart have another Tuesday and another Sunday between them; both have rows between
the two rows when the days are sorted and none is missing (`DayBetween`), and whichever row
comes first, the loop would have kept the nearer one.

Every invariant and every action property of the passing runs, and both refinements, are
theorems. Only model-checked are the liveness properties, as TLAPS proves nothing under
fairness: `WalkEnds`, `RunsEnd`, `EveryFileLoaded`, `DailyEnds`, `CurrentLoaded`,
`MakesEnd`. For the first two the theorems `Progress` and `NoEndlessLoop` are the part
that needs no fairness.

## 5. What is not modelled

Beside the parts named at the end of section 1:

- dissector and loader: the text of columns, and with it the formatting of addresses,
  numbers and times; the options `-v`, `-c` and `-p` (SAMPLING metadata); failures of
  memory allocation; snapshots of readers (a reader sees the tables between two commits);
- type: the size PostgreSQL reserves for it (`internallength`, smaller than the
  structure) is below the level of the model; `are_identical`, `is_greater` and
  `length()` are not used by the operator class;
- jobs: a pid that another process has got meanwhile, the order in which `mv` takes
  several files (it is one step that reaches all of them, or any of them under `"mv"`, of
  a job that may be killed behind it), captures that are still written when they are
  moved, VACUUM FULL, which changes no rows;
- reports: the text of pages and plots, the XML templates, the report files of other
  directories; children that outlive a killed job and write beside the next one; and that
  a make which has looked at a page does not look again when another make removes it.

What is left has no state of its own, so no state machine would say more of it than its
text does: single SELECTs, static data, tools run by hand, settings of another program.

## 6. Plan

What a next round would take up, in this order:

1. For the jobs and the makes, what `NoEndlessLoop` and `WaitsEnd` are for the loader: a
   measure for their loops over files and pages, and who waits for whom.
2. SAMPLING metadata (`-p`, `parse-metadata.c`) as an operator over its records.
3. DayTables with the processes of a recipe apart, to see what a script or a gnuplot that
   outlives its make does to the next one.
