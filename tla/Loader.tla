------------------------------- MODULE Loader -------------------------------
(***************************************************************************)
(* packets2postgresql: any number of executions of the loader, each on a   *)
(* file name of its own choice, against one PostgreSQL database.           *)
(*                                                                         *)
(* An execution reads its capture frame by frame (PcapParse), inserts a    *)
(* row of DNS_Packets for each packet, and commits every commit_every      *)
(* packets (-e) and at the end.  Two executions interact only through the  *)
(* database: the rows of one are invisible to the other until they are     *)
(* committed, and the UNIQUE constraint on Pcap_files.filename makes the   *)
(* second INSERT of a name wait for the transaction of the first.          *)
(***************************************************************************)
EXTENDS PcapParse

CONSTANTS
  Procs,     (* executions of the program                                  *)
  Names,     (* file names, as realpath gives them                         *)
  Captures,  (* contents a file may have                                   *)
  Options,   (* command lines: -m, -e and -n                               *)
  Faults,    (* "fatal": an execution may fail or be killed at any point;  *)
             (* "commitLost": the answer to a COMMIT may be lost           *)
  NULL

CaptureType == [link : DataLinks, frames : Seq(Frames)]
OptionType  == [maxpackets : Nat, commit_every : Nat, dry_run : BOOLEAN]

ASSUME LoaderAssumption ==
  /\ Captures \subseteq CaptureType
  /\ Options \subseteq OptionType
  /\ Faults \subseteq {"fatal", "commitLost"}
  /\ NULL \notin Nat

VARIABLES
  capture,    (* the contents of each file; nobody writes it any more      *)
  job,        (* the file name each execution is started with              *)
  opts,       (* and its options; 0 stands for an option not given         *)
  pc,
  input,      (* pcap_parser_file                                          *)
  decoded,    (* the one struct dns_packet passed to every call            *)
  packetnum,  (* main's own count of packets stored                        *)
  regdom,     (* packet_params[25]: the frames its text is made of         *)
  pending,    (* the open transaction: file row inserted or updated, and   *)
              (* packet rows inserted                                      *)
  files,      (* committed rows of Pcap_files, by execution                *)
  packets     (* committed rows of DNS_Packets, by execution               *)

given  == <<capture, job, opts>>
local  == <<input, decoded, packetnum, regdom>>
tables == <<files, packets>>
vars   == <<given, pc, local, pending, tables>>

Store == INSTANCE PacketStore WITH Runs <- Procs

Ended == {"done", "failed", "refused", "hung"}

Idle == [file |-> NULL, rows |-> <<>>]

FramesOf(p) == capture[job[p]].frames
LinkOf(p)   == capture[job[p]].link

(* The frame pcap_next gives next.                                         *)
AtEnd(p) == input[p].packetnum = Len(FramesOf(p))
Coming(p) == FramesOf(p)[input[p].packetnum + 1]

---------------------------------------------------------------------------
(* Rows.                                                                   *)

(* The INSERT into Pcap_files leaves the columns of the UPDATE NULL.       *)
NewFileRow(p) ==
  [filename |-> job[p],
   stoppedat |-> IF opts[p].maxpackets = 0 THEN NULL ELSE opts[p].maxpackets,
   totalpackets |-> NULL, storedpackets |-> NULL,
   firstpacket |-> NULL, lastpacket |-> NULL]

(* The UPDATE: lastpacket is left NULL when -m was given.  (The first two: *)
(* the UPDATE without storedpackets, and with the totals in the wrong      *)
(* order.)                                                                 *)
SealedWithoutCount(p) ==
  [NewFileRow(p) EXCEPT !.totalpackets = input[p].packetnum]

SealedSwapped(p) ==
  [NewFileRow(p) EXCEPT !.totalpackets = input[p].dnspacketnum,
                        !.storedpackets = input[p].packetnum]

SealedRow(p) ==
  [NewFileRow(p) EXCEPT
     !.totalpackets = input[p].packetnum,
     !.storedpackets = input[p].dnspacketnum,
     !.firstpacket = input[p].first,
     !.lastpacket = IF opts[p].maxpackets = 0 THEN input[p].last ELSE NULL]

(* reg_domain overwrites the buffer it is given, but for a QNAME that is   *)
(* itself a sectoral domain, which it appends to what the buffer holds.    *)
RegDomain(old, sectoral, n) == IF sectoral THEN Append(old, n) ELSE <<n>>

(* The columns of an INSERT into DNS_Packets, as the numbers of the frames *)
(* they come from.                                                         *)
EdnsColumns(d) == IF d.edns0 THEN [size |-> d.edns0_size, do |-> d.do_dnssec] ELSE NULL

PacketRow(d, reg) ==
  [rank |-> d.rank, date |-> d.date, addr |-> d.addr, header |-> d.header,
   qname |-> d.qname, qclass |-> d.qclass, edns |-> EdnsColumns(d),
   sectoral |-> d.sectoral, registered_domain |-> reg]

---------------------------------------------------------------------------
(* Transactions.                                                           *)

(* The name is in the table already, or another transaction has inserted   *)
(* it and is still open.  (The first: were filename not UNIQUE.)           *)
TakenByNobody(p) == FALSE
Taken(p) == \E q \in Procs : files[q] # NULL /\ files[q].filename = job[p]
Held(p)  == \E q \in Procs \ {p} : pending[q].file # NULL /\ pending[q].file.filename = job[p]

(* COMMIT makes the rows of the transaction visible and ends it.           *)
Commit(p) ==
  /\ files' = [files EXCEPT ![p] = IF pending[p].file = NULL THEN @ ELSE pending[p].file]
  /\ packets' = [packets EXCEPT ![p] = @ \o pending[p].rows]
  /\ pending' = [pending EXCEPT ![p] = Idle]

(* (The first: as to a savepoint behind the file row.)                     *)
RollbackPackets(p) == pending' = [pending EXCEPT ![p].rows = <<>>]
Rollback(p)        == pending' = [pending EXCEPT ![p] = Idle]

Goto(p, label) == pc' = [pc EXCEPT ![p] = label]

---------------------------------------------------------------------------
(* One execution of main.                                                  *)

Init ==
  /\ capture \in [Names -> Captures]
  /\ job \in [Procs -> Names]
  /\ opts \in [Procs -> Options]
  /\ pc = [p \in Procs |-> "open"]
  /\ input = [p \in Procs |-> NewInput]
  /\ decoded \in [Procs -> NewPackets]
  /\ packetnum = [p \in Procs |-> 0]
  /\ regdom \in [Procs -> {<<>>, <<0>>}]
  /\ pending = [p \in Procs |-> Idle]
  /\ files = [p \in Procs |-> NULL]
  /\ packets = [p \in Procs |-> <<>>]

(* pcap_file_open, and the connection with its first BEGIN.                *)
Open(p) ==
  /\ pc[p] = "open"
  /\ Goto(p, IF opts[p].dry_run THEN "call" ELSE "insertFile")
  /\ UNCHANGED <<given, local, pending, tables>>

InsertFile(p) ==
  /\ pc[p] = "insertFile"
  /\ ~Taken(p) /\ ~Held(p)
  /\ pending' = [pending EXCEPT ![p].file = NewFileRow(p)]
  /\ Goto(p, "call")
  /\ UNCHANGED <<given, local, tables>>

(* The UNIQUE constraint refuses the name: fatal.                          *)
DuplicateFile(p) ==
  /\ pc[p] = "insertFile"
  /\ Taken(p)
  /\ Goto(p, "refused")
  /\ UNCHANGED <<given, local, pending, tables>>

(* get_next_packet is entered.                                             *)
Call(p) ==
  /\ pc[p] = "call"
  /\ decoded' = [decoded EXCEPT ![p] = AtCall(@, input[p])]
  /\ Goto(p, "grab")
  /\ UNCHANGED <<given, input, packetnum, regdom, pending, tables>>

EndOfFile(p) ==
  /\ pc[p] = "grab"
  /\ AtEnd(p)
  /\ Goto(p, "fileEnd")
  /\ UNCHANGED <<given, local, pending, tables>>

(* One round of next_packet over a frame the dissector survives.           *)
Grab(p) ==
  /\ pc[p] = "grab"
  /\ ~AtEnd(p)
  /\ LinkOf(p) # "unsupported" /\ Asserts(LinkOf(p), Coming(p))
  /\ \E f \in Readings(Coming(p)) :
       /\ decoded' = [decoded EXCEPT ![p] = Decode(@, f, input[p].packetnum + 1)]
       /\ input' = [input EXCEPT ![p] = InputAfter(@, f)]
       /\ Goto(p, IF Returned(f) THEN "insert" ELSE "grab")
  /\ UNCHANGED <<given, packetnum, regdom, pending, tables>>

(* The frame ends the process: an unknown link type is fatal, a version    *)
(* nibble that contradicts the link layer fails an assertion, and the walk *)
(* from an uninitialised pointer may crash.                                *)
Die(p) ==
  /\ pc[p] = "grab"
  /\ ~AtEnd(p)
  /\ \/ LinkOf(p) = "unsupported"
     \/ ~Asserts(LinkOf(p), Coming(p))
     \/ Walks(Coming(p))
  /\ Goto(p, "failed")
  /\ Rollback(p)
  /\ UNCHANGED <<given, local, tables>>

(* ... or find an extension header of length zero that announces another.  *)
Hang(p) ==
  /\ pc[p] = "grab"
  /\ ~AtEnd(p)
  /\ LinkOf(p) # "unsupported" /\ Asserts(LinkOf(p), Coming(p))
  /\ Walks(Coming(p))
  /\ Goto(p, "hung")
  /\ UNCHANGED <<given, local, pending, tables>>

(* The decisions behind each packet: stop at maxpackets, or commit.  (The  *)
(* second: were -e a switch.)                                              *)
MaxReached(p, n)  == opts[p].maxpackets > 0 /\ n >= opts[p].maxpackets
BatchAlways(p, n) == opts[p].commit_every # 0
BatchFull(p, n)   == opts[p].commit_every # 0 /\ n % opts[p].commit_every = 0

InsertPacket(p) ==
  LET d   == decoded[p]
      n   == packetnum[p] + 1
      reg == RegDomain(regdom[p], d.sectoral, d.qname)
  IN  /\ pc[p] = "insert"
      /\ regdom' = [regdom EXCEPT ![p] = reg]
      /\ IF opts[p].dry_run
           THEN UNCHANGED pending
           ELSE pending' = [pending EXCEPT ![p].rows = Append(@, PacketRow(d, reg))]
      /\ packetnum' = [packetnum EXCEPT ![p] = n]
      /\ Goto(p, IF MaxReached(p, n) THEN "fileEnd"
                 ELSE IF BatchFull(p, n) /\ ~opts[p].dry_run THEN "commit"
                 ELSE "call")
      /\ UNCHANGED <<given, input, decoded, tables>>

(* COMMIT and, when it succeeds, BEGIN.                                    *)
CommitBatch(p) ==
  /\ pc[p] = "commit"
  /\ Commit(p)
  /\ Goto(p, "call")
  /\ UNCHANGED <<given, local>>

(* The UPDATE of the file row, in the last transaction.                    *)
FileEnd(p) ==
  /\ pc[p] = "fileEnd"
  /\ IF opts[p].dry_run
       THEN Goto(p, "done") /\ UNCHANGED pending
       ELSE /\ pending' = [pending EXCEPT ![p].file = SealedRow(p)]
            /\ Goto(p, "finalCommit")
  /\ UNCHANGED <<given, local, tables>>

FinalCommit(p) ==
  /\ pc[p] = "finalCommit"
  /\ Commit(p)
  /\ Goto(p, "done")
  /\ UNCHANGED <<given, local>>

(* The server commits, but the loader does not hear of it.                 *)
CommitLost(p) ==
  /\ "commitLost" \in Faults
  /\ pc[p] \in {"commit", "finalCommit"}
  /\ Commit(p)
  /\ Goto(p, "failed")
  /\ UNCHANGED <<given, local>>

(* fatal() behind any system or database call, or a kill: the server rolls *)
(* the open transaction back.                                              *)
Fail(p) ==
  /\ "fatal" \in Faults
  /\ pc[p] \notin Ended
  /\ Goto(p, "failed")
  /\ Rollback(p)
  /\ UNCHANGED <<given, local, tables>>

Step(p) ==
  \/ Open(p) \/ InsertFile(p) \/ DuplicateFile(p)
  \/ Call(p) \/ EndOfFile(p) \/ Grab(p) \/ Die(p) \/ Hang(p)
  \/ InsertPacket(p) \/ CommitBatch(p) \/ FileEnd(p) \/ FinalCommit(p)

Next == \E p \in Procs : Step(p) \/ CommitLost(p) \/ Fail(p)

(* Each execution is a process of its own, which the system schedules; an  *)
(* INSERT that waits is resumed when the transaction it waits for is over. *)
Fairness == \A p \in Procs : WF_vars(Step(p))

Spec == Init /\ [][Next]_vars /\ Fairness

---------------------------------------------------------------------------
(* Properties.                                                             *)

FileRows ==
  [filename : Names, stoppedat : Nat \cup {NULL},
   totalpackets : Nat \cup {NULL}, storedpackets : Nat \cup {NULL},
   firstpacket : Nat \cup {NULL}, lastpacket : Nat \cup {NULL}]

(* NULL is not a row, nor a pair of columns.                               *)
ASSUME NullAssumption ==
  /\ NULL \notin FileRows
  /\ NULL \notin [size : Nat, do : Nat]

PacketRows ==
  [rank : Nat, date : Nat, addr : Nat, header : Nat, qname : Nat, qclass : Nat,
   edns : [size : Nat, do : Nat] \cup {NULL}, sectoral : BOOLEAN,
   registered_domain : Seq(Nat)]

Labels == {"open", "insertFile", "call", "grab", "insert", "commit",
           "fileEnd", "finalCommit"}

(* The variables stay in their types.                                      *)
TypeOK ==
  /\ capture \in [Names -> Captures]
  /\ job \in [Procs -> Names]
  /\ opts \in [Procs -> Options]
  /\ pc \in [Procs -> Labels \cup Ended]
  /\ input \in [Procs -> InputType]
  /\ decoded \in [Procs -> DnsPacketType]
  /\ packetnum \in [Procs -> Nat]
  /\ regdom \in [Procs -> Seq(Nat)]
  /\ pending \in [Procs -> [file : FileRows \cup {NULL}, rows : Seq(PacketRows)]]
  /\ files \in [Procs -> FileRows \cup {NULL}]
  /\ packets \in [Procs -> Seq(PacketRows)]

(* All rows an execution has inserted, and the last state of its file row. *)
Inserted(p) == packets[p] \o pending[p].rows
IsSealed(p) == Store!IsSealed(files[p])

(* A frame of a capture has at most one row in DNS_Packets, and a name one *)
(* row in Pcap_files, however often, and by however many executions at     *)
(* once, the file is loaded.                                               *)
NoFrameTwice ==
  /\ \A p, q \in Procs : files[p] # NULL /\ files[q] # NULL /\ job[p] = job[q] => p = q
  /\ \A p, q \in Procs : \A i \in DOMAIN packets[p], j \in DOMAIN packets[q] :
       job[p] = job[q] /\ packets[p][i].date = packets[q][j].date => p = q /\ i = j

(* What a load that has not finished, or never will, leaves in the tables: *)
(* whole batches of commit_every packets, so nothing at all without -e.    *)
BatchBoundary ==
  \A p \in Procs :
    files[p] # NULL /\ ~IsSealed(p) =>
      /\ opts[p].commit_every # 0
      /\ packets[p] # <<>>
      /\ Len(packets[p]) % opts[p].commit_every = 0
      /\ opts[p].maxpackets = 0 \/ Len(packets[p]) < opts[p].maxpackets

(* A file whose totals are filled in is completely loaded: they count the  *)
(* frames read and the rows inserted, there is a row for every DNS packet  *)
(* among those frames, and reading stopped before the end of the file only *)
(* because maxpackets rows were there.                                     *)
SealedComplete ==
  \A p \in Procs : IsSealed(p) =>
    LET f == files[p]
        dates == {packets[p][i].date : i \in DOMAIN packets[p]}
    IN  /\ f.storedpackets = Len(packets[p])
        /\ f.totalpackets <= Len(FramesOf(p))
        /\ \A n \in 1..f.totalpackets :
             ~Walks(FramesOf(p)[n]) => (n \in dates <=> Returned(FramesOf(p)[n]))
        /\ f.totalpackets < Len(FramesOf(p)) => f.storedpackets = f.stoppedat
        /\ f.stoppedat # NULL => f.storedpackets <= f.stoppedat
        /\ f.firstpacket = IF f.totalpackets = 0 THEN 0 ELSE 1
        /\ f.lastpacket = IF f.stoppedat = NULL THEN f.totalpackets ELSE NULL

(* All columns of a row come from one frame, although get_next_packet      *)
(* writes all packets, and parts of the frames it drops, into one struct:  *)
(* nothing of an earlier frame is left over, and the EDNS0 columns are     *)
(* NULL unless that very frame has an OPT record.                          *)
OneFramePerRow ==
  \A p \in Procs : \A i \in DOMAIN Inserted(p) :
    LET row == Inserted(p)[i]
        f   == FramesOf(p)[row.date]
    IN  /\ {row.addr, row.header, row.qname, row.qclass} = {row.date}
        /\ row.edns # NULL => row.edns = [size |-> row.date, do |-> row.date]
        /\ ~Walks(f) => (row.edns # NULL <=> HasOpt(f))
        /\ ~row.sectoral => row.registered_domain = <<row.date>>

(* The ranks chain the rows of a file: the rank of a row is the number of  *)
(* the frame the row before it comes from, since it is taken when          *)
(* get_next_packet is entered.  So ranks increase and never repeat.        *)
RanksChain ==
  \A p \in Procs : \A i \in DOMAIN Inserted(p) :
    /\ Inserted(p)[i].rank = IF i = 1 THEN 0 ELSE Inserted(p)[i - 1].date
    /\ Inserted(p)[i].rank < Inserted(p)[i].date

(* create.sql:16 calls the column the rank of the packet in the file:      *)
(* counted from zero or one, over all its frames or over the stored ones.  *)
RankInFile ==
  \A p \in Procs : \E c \in {0, 1} :
    \/ \A i \in DOMAIN Inserted(p) : Inserted(p)[i].rank + c = Inserted(p)[i].date
    \/ \A i \in DOMAIN Inserted(p) : Inserted(p)[i].rank + c = i

(* create.sql:47-48: the computed columns are obtained only from the       *)
(* values of their own row.                                                *)
RegisteredDomainOfRow ==
  \A p \in Procs : \A i \in DOMAIN Inserted(p) :
    Inserted(p)[i].registered_domain = <<Inserted(p)[i].qname>>

(* The commits of all executions are the steps of PacketStore.             *)
StoreSpec == Store!Spec

(* q waits for the end of p's transaction.                                 *)
WaitsFor(q, p) ==
  /\ pc[q] = "insertFile" /\ q # p
  /\ pending[p].file # NULL /\ pending[p].file.filename = job[q]

(* Who waits for a name, which is all that executions wait for, waits for  *)
(* one that is in the middle of its load (or stuck in the walk over        *)
(* extension headers), never for one that waits too or is over, however it *)
(* ended.                                                                  *)
NoWaitInVain ==
  \A p, q \in Procs :
    WaitsFor(q, p) => pc[p] \notin {"open", "insertFile", "done", "failed", "refused"}

(* Every execution ends, as long as no frame has IPv6 extension headers:   *)
(* in particular, no two of them wait for each other.                      *)
RunsEnd ==
  \A p \in Procs :
    (\A n \in DOMAIN FramesOf(p) : ~Walks(FramesOf(p)[n])) => <>(pc[p] \in Ended)

(* Every file that can be read, and that is not only tried with -n, is at  *)
(* last completely loaded by one of those who try, unless a fault strikes  *)
(* one of them: those who lose the race for the name are refused, and do   *)
(* not keep the others from it.                                            *)
Readable(p) ==
  /\ FramesOf(p) # <<>> => LinkOf(p) # "unsupported"
  /\ \A n \in DOMAIN FramesOf(p) :
       ~Walks(FramesOf(p)[n]) /\ Asserts(LinkOf(p), FramesOf(p)[n])

EveryFileLoaded ==
  \A p \in Procs : Readable(p) /\ ~opts[p].dry_run =>
    <>(\E q \in Procs : job[q] = job[p] /\ (IsSealed(q) \/ pc[q] = "failed"))
=============================================================================
