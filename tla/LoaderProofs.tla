---------------------------- MODULE LoaderProofs ----------------------------
(***************************************************************************)
(* What Loader keeps for any number of executions, files, frames and       *)
(* command lines, and under every fault.                                   *)
(***************************************************************************)
EXTENDS Loader, SequenceTheorems, TLAPS

---------------------------------------------------------------------------
(* What the operators of PcapParse return.                                 *)

LEMMA ReadingsType ==
  ASSUME NEW f \in FrameType, NEW g \in Readings(f)
  PROVE  g \in FrameType
  BY FramesAssumption DEF Readings, FrameType, Families

LEMMA InputType1 == NewInput \in InputType
  BY DEF NewInput, InputType

LEMMA InputAfterType ==
  ASSUME NEW i \in InputType, NEW f \in FrameType
  PROVE  /\ InputAfter(i, f) \in InputType
         /\ InputAfter(i, f).packetnum = i.packetnum + 1
  BY DEF InputAfter, InputType

LEMMA AtCallType ==
  ASSUME NEW d \in DnsPacketType, NEW i \in InputType
  PROVE  AtCall(d, i) \in DnsPacketType
  BY DEF AtCall, DnsPacketType, InputType

LEMMA DecodeType ==
  ASSUME NEW d \in DnsPacketType, NEW f \in FrameType, NEW n \in Nat
  PROVE  Decode(d, f, n) \in DnsPacketType /\ Decode(d, f, n).date = n
<1>1. EdnsAfter(d, f) \in BOOLEAN
  BY DEF EdnsAfter, SeesOpt, Searched, HasClass, IsDns, IsUdp, DnsPacketType, FrameType
<1>2. (IF HasName(f) THEN f.sectoral ELSE d.sectoral) \in BOOLEAN
  BY DEF DnsPacketType, FrameType
<1> QED
  BY <1>1, <1>2 DEF Decode, DnsPacketType

LEMMA NewPacketType == NewPackets \subseteq DnsPacketType
<1> SUFFICES ASSUME NEW d \in NewPackets PROVE d \in DnsPacketType
  OBVIOUS
<1>1. PICK b \in BOOLEAN :
        d = [rank |-> 0, date |-> 0, addr |-> 0, header |-> 0, qname |-> 0,
             qclass |-> 0, edns0 |-> b, edns0_size |-> 0, do_dnssec |-> 0,
             sectoral |-> FALSE]
  BY DEF NewPackets
<1> QED
  BY <1>1 DEF DnsPacketType

---------------------------------------------------------------------------
(* Types.                                                                  *)

(* pcap_next does not go past the end of the file.                         *)
CursorInFile == \A p \in Procs : input[p].packetnum <= Len(FramesOf(p))

LEMMA FramesType ==
  ASSUME TypeOK, NEW p \in Procs
  PROVE  FramesOf(p) \in Seq(FrameType) /\ Len(FramesOf(p)) \in Nat
<1>1. capture[job[p]] \in CaptureType
  BY LoaderAssumption DEF TypeOK
<1>2. FramesOf(p) \in Seq(Frames)
  BY <1>1 DEF CaptureType, FramesOf
<1> QED
  BY <1>2, FramesAssumption

LEMMA ComingType ==
  ASSUME TypeOK, CursorInFile, NEW p \in Procs, ~AtEnd(p)
  PROVE  /\ Coming(p) \in FrameType
         /\ input[p].packetnum + 1 \in 1..Len(FramesOf(p))
<1>1. input[p].packetnum \in Nat
  BY DEF TypeOK, InputType
<1>2. input[p].packetnum + 1 \in 1..Len(FramesOf(p))
  BY <1>1, FramesType DEF CursorInFile, AtEnd
<1> QED
  BY <1>2, FramesType DEF Coming

LEMMA FileRowType ==
  ASSUME TypeOK, NEW p \in Procs
  PROVE  NewFileRow(p) \in FileRows /\ SealedRow(p) \in FileRows
<1>1. /\ job[p] \in Names /\ opts[p].maxpackets \in Nat
      /\ input[p] \in InputType
  BY LoaderAssumption DEF TypeOK, OptionType
<1>2. NewFileRow(p) \in FileRows
  BY <1>1 DEF NewFileRow, FileRows
<1> QED
  BY <1>1, <1>2 DEF SealedRow, FileRows, InputType

LEMMA PacketRowType ==
  ASSUME NEW d \in DnsPacketType, NEW reg \in Seq(Nat)
  PROVE  PacketRow(d, reg) \in PacketRows
<1>1. EdnsColumns(d) \in [size : Nat, do : Nat] \cup {NULL}
  BY DEF EdnsColumns, DnsPacketType
<1> QED
  BY <1>1 DEF PacketRow, PacketRows, DnsPacketType

LEMMA RegDomainType ==
  ASSUME NEW old \in Seq(Nat), NEW s \in BOOLEAN, NEW n \in Nat
  PROVE  RegDomain(old, s, n) \in Seq(Nat)
  BY DEF RegDomain

(* A commit, or a rollback, moves rows of the right type.                  *)
LEMMA CommitType ==
  ASSUME TypeOK, NEW p \in Procs, Commit(p)
  PROVE  /\ pending' \in [Procs -> [file : FileRows \cup {NULL}, rows : Seq(PacketRows)]]
         /\ files' \in [Procs -> FileRows \cup {NULL}]
         /\ packets' \in [Procs -> Seq(PacketRows)]
<1>1. pending[p].rows \in Seq(PacketRows) /\ packets[p] \in Seq(PacketRows)
  BY DEF TypeOK
<1>2. packets[p] \o pending[p].rows \in Seq(PacketRows)
  BY <1>1
<1>3. Idle \in [file : FileRows \cup {NULL}, rows : Seq(PacketRows)]
  BY DEF Idle
<1>4. pending[p].file \in FileRows \cup {NULL}
  BY DEF TypeOK
<1> QED
  BY <1>2, <1>3, <1>4 DEF Commit, TypeOK

LEMMA RollbackType ==
  ASSUME TypeOK, NEW p \in Procs, Rollback(p)
  PROVE  pending' \in [Procs -> [file : FileRows \cup {NULL}, rows : Seq(PacketRows)]]
  BY DEF Rollback, Idle, TypeOK

LEMMA TypeInit == Init => TypeOK /\ CursorInFile
<1> SUFFICES ASSUME Init PROVE TypeOK /\ CursorInFile
  OBVIOUS
<1>1. TypeOK
  <2>1. input \in [Procs -> InputType]
    BY InputType1 DEF Init
  <2>2. decoded \in [Procs -> DnsPacketType]
    BY NewPacketType DEF Init
  <2>3. regdom \in [Procs -> Seq(Nat)]
    <3>1. <<>> \in Seq(Nat) /\ <<0>> \in Seq(Nat)
      OBVIOUS
    <3> QED
      BY <3>1 DEF Init
  <2>4. pending \in [Procs -> [file : FileRows \cup {NULL}, rows : Seq(PacketRows)]]
    BY DEF Init, Idle
  <2>5. packets \in [Procs -> Seq(PacketRows)]
    BY DEF Init
  <2> QED
    BY <2>1, <2>2, <2>3, <2>4, <2>5 DEF Init, TypeOK, Labels
<1>2. CursorInFile
  BY <1>1, FramesType DEF Init, CursorInFile, NewInput
<1> QED
  BY <1>1, <1>2

LEMMA TypeStep ==
  ASSUME TypeOK, CursorInFile, [Next]_vars
  PROVE  TypeOK' /\ CursorInFile'
<1> USE DEF given, local, tables, Goto, Labels, Ended
<1>1. ASSUME NEW p \in Procs, Open(p) \/ DuplicateFile(p) \/ EndOfFile(p) \/ Hang(p)
      PROVE  TypeOK' /\ CursorInFile'
  BY <1>1 DEF Open, DuplicateFile, EndOfFile, Hang, TypeOK, CursorInFile, FramesOf
<1>2. ASSUME NEW p \in Procs, InsertFile(p)
      PROVE  TypeOK' /\ CursorInFile'
  BY <1>2, FileRowType DEF InsertFile, TypeOK, CursorInFile, FramesOf
<1>3. ASSUME NEW p \in Procs, Call(p)
      PROVE  TypeOK' /\ CursorInFile'
  BY <1>3, AtCallType DEF Call, TypeOK, CursorInFile, FramesOf
<1>4. ASSUME NEW p \in Procs, Grab(p)
      PROVE  TypeOK' /\ CursorInFile'
  <2>1. PICK f \in Readings(Coming(p)) :
          /\ decoded' = [decoded EXCEPT ![p] = Decode(@, f, input[p].packetnum + 1)]
          /\ input' = [input EXCEPT ![p] = InputAfter(@, f)]
          /\ Goto(p, IF Returned(f) THEN "insert" ELSE "grab")
    BY <1>4 DEF Grab
  <2>2. Coming(p) \in FrameType /\ input[p].packetnum + 1 \in 1..Len(FramesOf(p))
    BY <1>4, ComingType DEF Grab
  <2>3. f \in FrameType
    BY <2>2, ReadingsType
  <2>4. decoded' \in [Procs -> DnsPacketType]
    BY <2>1, <2>2, <2>3, DecodeType, FramesType DEF TypeOK, InputType
  <2>5. input' \in [Procs -> InputType] /\ input'[p].packetnum = input[p].packetnum + 1
    BY <2>1, <2>3, InputAfterType DEF TypeOK
  <2>6. pc' \in [Procs -> Labels \cup Ended]
    BY <2>1 DEF TypeOK
  <2>7. TypeOK'
    BY <1>4, <2>4, <2>5, <2>6 DEF Grab, TypeOK
  <2>8. CursorInFile'
    BY <1>4, <2>1, <2>2, <2>5, FramesType DEF Grab, CursorInFile, FramesOf, TypeOK
  <2> QED
    BY <2>7, <2>8
<1>5. ASSUME NEW p \in Procs, Die(p) \/ Fail(p)
      PROVE  TypeOK' /\ CursorInFile'
  BY <1>5, RollbackType DEF Die, Fail, TypeOK, CursorInFile, FramesOf
<1>6. ASSUME NEW p \in Procs, InsertPacket(p)
      PROVE  TypeOK' /\ CursorInFile'
  <2> DEFINE reg == RegDomain(regdom[p], decoded[p].sectoral, decoded[p].qname)
  <2>1. decoded[p] \in DnsPacketType /\ reg \in Seq(Nat)
    BY RegDomainType DEF TypeOK, DnsPacketType
  <2>2. PacketRow(decoded[p], reg) \in PacketRows
    BY <2>1, PacketRowType
  <2>3. Append(pending[p].rows, PacketRow(decoded[p], reg)) \in Seq(PacketRows)
    BY <2>2 DEF TypeOK
  <2> HIDE DEF reg
  <2>4. /\ regdom' = [regdom EXCEPT ![p] = reg]
        /\ \/ pending' = pending
           \/ pending' = [pending EXCEPT ![p].rows =
                                   Append(pending[p].rows, PacketRow(decoded[p], reg))]
    BY <1>6 DEF InsertPacket, reg
  <2>5. pending' \in [Procs -> [file : FileRows \cup {NULL}, rows : Seq(PacketRows)]]
    <3>1. [pending[p] EXCEPT !.rows = Append(pending[p].rows, PacketRow(decoded[p], reg))]
            \in [file : FileRows \cup {NULL}, rows : Seq(PacketRows)]
      BY <2>3 DEF TypeOK
    <3> QED
      BY <2>4, <3>1, Zenon DEF TypeOK
  <2>6. regdom' \in [Procs -> Seq(Nat)]
    BY <2>1, <2>4 DEF TypeOK
  <2> QED
    BY <1>6, <2>5, <2>6 DEF InsertPacket, TypeOK, CursorInFile, FramesOf
<1>7. ASSUME NEW p \in Procs, CommitBatch(p) \/ FinalCommit(p) \/ CommitLost(p)
      PROVE  TypeOK' /\ CursorInFile'
  BY <1>7, CommitType DEF CommitBatch, FinalCommit, CommitLost, TypeOK, CursorInFile, FramesOf
<1>8. ASSUME NEW p \in Procs, FileEnd(p)
      PROVE  TypeOK' /\ CursorInFile'
  <2>1. \/ pending' = pending
        \/ pending' = [pending EXCEPT ![p].file = SealedRow(p)]
    BY <1>8 DEF FileEnd
  <2>2. pending' \in [Procs -> [file : FileRows \cup {NULL}, rows : Seq(PacketRows)]]
    <3>1. SealedRow(p) \in FileRows
      BY FileRowType
    <3>2. [pending[p] EXCEPT !.file = SealedRow(p)]
            \in [file : FileRows \cup {NULL}, rows : Seq(PacketRows)]
      BY <3>1 DEF TypeOK
    <3> QED
      BY <2>1, <3>2, Zenon DEF TypeOK
  <2>3. pc' \in [Procs -> Labels \cup Ended]
    <3>1. PICK label \in {"done", "finalCommit"} : pc' = [pc EXCEPT ![p] = label]
      BY <1>8, Zenon DEF FileEnd
    <3> QED
      BY <3>1 DEF TypeOK
  <2> QED
    BY <1>8, <2>2, <2>3 DEF FileEnd, TypeOK, CursorInFile, FramesOf
<1>9. CASE UNCHANGED vars
  BY <1>9 DEF vars, TypeOK, CursorInFile, FramesOf
<1> QED
  BY <1>1, <1>2, <1>3, <1>4, <1>5, <1>6, <1>7, <1>8, <1>9 DEF Next, Step

(* Every variable stays in its type, for any number of executions.         *)
THEOREM TypeCorrect == Spec => []TypeOK
<1>1. TypeOK /\ CursorInFile /\ [Next]_vars => (TypeOK /\ CursorInFile)'
  BY TypeStep
<1> QED
  BY <1>1, TypeInit, PTL DEF Spec

---------------------------------------------------------------------------
(* Sequences of rows.                                                      *)

LEMMA ConcatEmpty ==
  ASSUME NEW S, NEW s \in Seq(S)
  PROVE  s \o <<>> = s
  OBVIOUS

LEMMA ConcatAppend ==
  ASSUME NEW S, NEW s \in Seq(S), NEW t \in Seq(S), NEW x \in S
  PROVE  s \o Append(t, x) = Append(s \o t, x)
  OBVIOUS

LEMMA IntervalWidens ==
  ASSUME NEW m \in Nat, NEW n \in Nat
  PROVE  1..m \subseteq 1..(m + n)
  OBVIOUS

LEMMA ConcatPrefix ==
  ASSUME NEW S, NEW s \in Seq(S), NEW t \in Seq(S)
  PROVE  /\ s \o t \in Seq(S)
         /\ Len(s \o t) = Len(s) + Len(t)
         /\ Len(s) \in Nat /\ Len(t) \in Nat
         /\ \A i \in 1..Len(s) : (s \o t)[i] = s[i]
  OBVIOUS

---------------------------------------------------------------------------
(* One execution.                                                          *)

(* p has a row in Pcap_files, committed or not.                            *)
Owns(p) == files[p] # NULL \/ pending[p].file # NULL

Named(p) ==
  /\ files[p] # NULL => files[p].filename = job[p]
  /\ pending[p].file # NULL => pending[p].file.filename = job[p]

(* Rows come behind the file row they refer to, and -n inserts none.       *)
Owned(p) ==
  /\ pc[p] \in {"open", "insertFile"} =>
       pending[p] = Idle /\ files[p] = NULL /\ packets[p] = <<>>
  /\ opts[p].dry_run =>
       /\ pending[p] = Idle /\ files[p] = NULL /\ packets[p] = <<>>
       /\ pc[p] \notin {"insertFile", "commit", "finalCommit"}
  /\ ~opts[p].dry_run /\ pc[p] \in {"call", "grab", "insert", "commit", "fileEnd", "finalCommit"}
       => Owns(p)
  /\ pending[p].rows # <<>> => Owns(p)
  /\ packets[p] # <<>> => files[p] # NULL

(* The frames of the rows ascend, up to the last frame read.               *)
Dated(p) ==
  /\ \A i, j \in 1..Len(Inserted(p)) :
       i < j => Inserted(p)[i].date < Inserted(p)[j].date
  /\ \A i \in 1..Len(Inserted(p)) : Inserted(p)[i].date <= input[p].packetnum
  /\ pc[p] = "insert" =>
       /\ decoded[p].date = input[p].packetnum
       /\ \A i \in 1..Len(Inserted(p)) : Inserted(p)[i].date < input[p].packetnum

(* dnspacketnum counts the rows, and only the last commit seals the file.  *)
Counted(p) ==
  /\ pc[p] \in {"open", "insertFile"} => input[p].dnspacketnum = 0
  /\ ~opts[p].dry_run =>
       /\ pc[p] \in {"call", "grab", "commit", "fileEnd", "finalCommit"} =>
            input[p].dnspacketnum = Len(Inserted(p))
       /\ pc[p] = "insert" => input[p].dnspacketnum = Len(Inserted(p)) + 1
  /\ Store!IsSealed(pending[p].file) =>
       pc[p] = "finalCommit" /\ pending[p].file.storedpackets = Len(Inserted(p))
  /\ Store!IsSealed(files[p]) => pc[p] \in {"done", "failed"}

RunInv(p) == Named(p) /\ Owned(p) /\ Dated(p) /\ Counted(p)

(* No two executions have a row for one name, committed or not.            *)
Exclusive ==
  \A p, q \in Procs : job[p] = job[q] /\ Owns(p) /\ Owns(q) => p = q

IInv == TypeOK /\ CursorInFile /\ Exclusive /\ \A p \in Procs : RunInv(p)

(* What p's step leaves alone: everything of the other executions.         *)
SameRun(q) ==
  /\ pc'[q] = pc[q] /\ input'[q] = input[q] /\ decoded'[q] = decoded[q]
  /\ pending'[q] = pending[q] /\ files'[q] = files[q] /\ packets'[q] = packets[q]

LEMMA OtherRuns ==
  ASSUME TypeOK, NEW p \in Procs, Step(p) \/ CommitLost(p) \/ Fail(p),
         NEW q \in Procs, p # q
  PROVE  SameRun(q)
<1> USE DEF given, local, tables, Goto, TypeOK, SameRun, Commit, Rollback
<1>1. CASE Open(p) \/ InsertFile(p) \/ DuplicateFile(p) \/ Call(p) \/ EndOfFile(p)
  BY <1>1 DEF Open, InsertFile, DuplicateFile, Call, EndOfFile
<1>2. CASE Grab(p) \/ Die(p) \/ Hang(p)
  BY <1>2 DEF Grab, Die, Hang
<1>3. CASE InsertPacket(p) \/ CommitBatch(p) \/ FileEnd(p) \/ FinalCommit(p)
  BY <1>3 DEF InsertPacket, CommitBatch, FileEnd, FinalCommit
<1>4. CASE CommitLost(p) \/ Fail(p)
  BY <1>4 DEF CommitLost, Fail
<1> QED
  BY <1>1, <1>2, <1>3, <1>4 DEF Step

LEMMA SameRunInv ==
  ASSUME TypeOK, NEW q \in Procs, RunInv(q), SameRun(q), UNCHANGED given
  PROVE  RunInv(q)'
<1>1. Inserted(q)' = Inserted(q)
  BY DEF Inserted, SameRun
<1>2. Named(q)' /\ Owned(q)'
  BY DEF RunInv, Named, Owned, Owns, SameRun, given
<1>3. Dated(q)'
  BY <1>1 DEF RunInv, Dated, SameRun
<1>4. Counted(q)'
  BY <1>1 DEF RunInv, Counted, SameRun, given, Store!IsSealed
<1> QED
  BY <1>2, <1>3, <1>4 DEF RunInv

---------------------------------------------------------------------------
(* The steps of an execution, for its own rows.                            *)

LEMMA InsertedType ==
  ASSUME TypeOK, NEW p \in Procs
  PROVE  /\ packets[p] \in Seq(PacketRows) /\ pending[p].rows \in Seq(PacketRows)
         /\ Inserted(p) \in Seq(PacketRows)
         /\ Len(Inserted(p)) = Len(packets[p]) + Len(pending[p].rows)
         /\ Len(Inserted(p)) \in Nat /\ Len(packets[p]) \in Nat
         /\ Len(pending[p].rows) \in Nat
         /\ \A i \in 1..Len(packets[p]) : Inserted(p)[i] = packets[p][i]
         /\ \A i \in 1..Len(Inserted(p)) : Inserted(p)[i].date \in Nat
<1>1. packets[p] \in Seq(PacketRows) /\ pending[p].rows \in Seq(PacketRows)
  BY DEF TypeOK
<1>2. Inserted(p) \in Seq(PacketRows)
  BY <1>1, ConcatPrefix DEF Inserted
<1>3. \A i \in 1..Len(Inserted(p)) : Inserted(p)[i].date \in Nat
  <2>1. \A row \in PacketRows : row.date \in Nat
    BY DEF PacketRows
  <2>2. \A i \in 1..Len(Inserted(p)) : Inserted(p)[i] \in PacketRows
    BY <1>2
  <2> QED
    BY <2>1, <2>2
<1> QED
  BY <1>1, <1>2, <1>3, ConcatPrefix DEF Inserted

(* A commit moves the rows, all of them.                                   *)
LEMMA CommitRows ==
  ASSUME TypeOK, NEW p \in Procs, Commit(p)
  PROVE  /\ packets'[p] = Inserted(p) /\ Inserted(p)' = Inserted(p)
         /\ pending'[p] = Idle
         /\ files'[p] = IF pending[p].file = NULL THEN files[p] ELSE pending[p].file
<1>1. /\ packets'[p] = Inserted(p) /\ pending'[p] = Idle
      /\ files'[p] = IF pending[p].file = NULL THEN files[p] ELSE pending[p].file
  BY DEF Commit, TypeOK, Inserted
<1>2. Inserted(p)' = Inserted(p) \o <<>>
  <2>1. pending'[p].rows = <<>>
    BY <1>1 DEF Idle
  <2> QED
    BY <1>1, <2>1, Zenon DEF Inserted
<1>3. Inserted(p) \o <<>> = Inserted(p)
  BY InsertedType, ConcatEmpty
<1> QED
  BY <1>1, <1>2, <1>3

(* Nothing inserted: the rows stay, and the execution leaves its place.    *)
LEMMA QuietStep ==
  ASSUME TypeOK, CursorInFile, NEW p \in Procs, RunInv(p),
         Open(p) \/ DuplicateFile(p) \/ Call(p) \/ EndOfFile(p) \/ Hang(p)
  PROVE  RunInv(p)'
<1> USE DEF given, local, tables, Goto, Ended
<1>1. /\ pending' = pending /\ files' = files /\ packets' = packets /\ input' = input
      /\ job' = job /\ opts' = opts /\ pc' = [pc EXCEPT ![p] = pc'[p]]
      /\ \/ pc[p] = "open" /\ pc'[p] = "insertFile" /\ ~opts[p].dry_run
         \/ pc[p] = "open" /\ pc'[p] = "call" /\ opts[p].dry_run
         \/ pc[p] = "insertFile" /\ pc'[p] = "refused"
         \/ pc[p] = "call" /\ pc'[p] = "grab"
         \/ pc[p] = "grab" /\ pc'[p] \in {"fileEnd", "hung"}
  BY DEF Open, DuplicateFile, Call, EndOfFile, Hang, TypeOK, OptionType
<1>2. Inserted(p)' = Inserted(p)
  BY <1>1 DEF Inserted
<1>3. Named(p)' /\ Owned(p)'
  BY <1>1 DEF RunInv, Named, Owned, Owns
<1>4. Dated(p)'
  BY <1>1, <1>2 DEF RunInv, Dated
<1>5. Counted(p)'
  BY <1>1, <1>2 DEF RunInv, Counted, Store!IsSealed
<1> QED
  BY <1>3, <1>4, <1>5 DEF RunInv

LEMMA InsertFileStep ==
  ASSUME TypeOK, NEW p \in Procs, RunInv(p), InsertFile(p)
  PROVE  RunInv(p)'
<1> USE DEF given, local, tables, Goto
<1>1. /\ files' = files /\ packets' = packets /\ input' = input
      /\ job' = job /\ opts' = opts /\ pc[p] = "insertFile" /\ pc'[p] = "call"
      /\ pending'[p].file = NewFileRow(p) /\ pending'[p].rows = pending[p].rows
  BY DEF InsertFile, TypeOK
<1>2. NewFileRow(p) # NULL
  BY FileRowType, NullAssumption
<1>3. NewFileRow(p).filename = job[p] /\ ~Store!IsSealed(NewFileRow(p))
  BY DEF NewFileRow, Store!IsSealed
<1>4. Inserted(p)' = Inserted(p) /\ Inserted(p) = <<>>
  BY <1>1 DEF Inserted, RunInv, Owned, Idle
<1>5. Named(p)' /\ Owned(p)'
  BY <1>1, <1>2, <1>3 DEF RunInv, Named, Owned, Owns
<1>6. Dated(p)'
  BY <1>1, <1>4 DEF RunInv, Dated
<1>7. Counted(p)'
  BY <1>1, <1>3, <1>4 DEF RunInv, Counted, Owned
<1> QED
  BY <1>5, <1>6, <1>7 DEF RunInv

LEMMA GrabStep ==
  ASSUME TypeOK, CursorInFile, NEW p \in Procs, RunInv(p), Grab(p)
  PROVE  RunInv(p)'
<1> USE DEF given, local, tables, Goto
<1>1. PICK f \in Readings(Coming(p)) :
        /\ decoded' = [decoded EXCEPT ![p] = Decode(@, f, input[p].packetnum + 1)]
        /\ input' = [input EXCEPT ![p] = InputAfter(@, f)]
        /\ Goto(p, IF Returned(f) THEN "insert" ELSE "grab")
  BY DEF Grab
<1>2. f \in FrameType /\ input[p].packetnum \in Nat /\ input[p].dnspacketnum \in Nat
  BY ComingType, ReadingsType DEF Grab, TypeOK, InputType
<1>3. /\ decoded'[p].date = input[p].packetnum + 1
      /\ input'[p].packetnum = input[p].packetnum + 1
      /\ input'[p].dnspacketnum = IF Returned(f) THEN input[p].dnspacketnum + 1
                                                ELSE input[p].dnspacketnum
      /\ pc'[p] = IF Returned(f) THEN "insert" ELSE "grab"
      /\ pc[p] = "grab"
  BY <1>1, <1>2, DecodeType DEF Grab, TypeOK, InputAfter
<1>4. /\ pending' = pending /\ files' = files /\ packets' = packets
      /\ job' = job /\ opts' = opts
  BY DEF Grab
<1>5. Inserted(p)' = Inserted(p)
  BY <1>4 DEF Inserted
<1>6. Named(p)' /\ Owned(p)'
  BY <1>3, <1>4 DEF RunInv, Named, Owned, Owns
<1>7. Dated(p)'
  <2>1. \A i \in 1..Len(Inserted(p)) :
          Inserted(p)[i].date \in Nat /\ Inserted(p)[i].date <= input[p].packetnum
    BY InsertedType DEF RunInv, Dated
  <2>2. \A i \in 1..Len(Inserted(p)) : Inserted(p)[i].date < input'[p].packetnum
    BY <1>2, <1>3, <2>1
  <2>3. \A i \in 1..Len(Inserted(p)) : Inserted(p)[i].date <= input'[p].packetnum
    BY <1>2, <1>3, <2>1
  <2>4. \A i, j \in 1..Len(Inserted(p)) :
          i < j => Inserted(p)[i].date < Inserted(p)[j].date
    BY DEF RunInv, Dated
  <2> QED
    BY <1>3, <1>5, <2>2, <2>3, <2>4 DEF Dated
<1>8. Counted(p)'
  BY <1>2, <1>3, <1>4, <1>5, InsertedType DEF RunInv, Counted, Store!IsSealed
<1> QED
  BY <1>6, <1>7, <1>8 DEF RunInv

(* The row an INSERT stores, behind the rows before it.                    *)
NewRow(p) ==
  PacketRow(decoded[p], RegDomain(regdom[p], decoded[p].sectoral, decoded[p].qname))

LEMMA PacketInserted ==
  ASSUME TypeOK, NEW p \in Procs, InsertPacket(p), ~opts[p].dry_run,
         NEW row, row = NewRow(p)
  PROVE  /\ row \in PacketRows /\ row.date = decoded[p].date
         /\ pending'[p].rows = Append(pending[p].rows, row)
         /\ pending'[p].file = pending[p].file
         /\ Len(Inserted(p)') = Len(Inserted(p)) + 1
         /\ \A i \in 1..Len(Inserted(p)) : Inserted(p)'[i] = Inserted(p)[i]
         /\ Inserted(p)'[Len(Inserted(p)) + 1] = row
<1>1. row \in PacketRows /\ row.date = decoded[p].date
  <2>1. /\ decoded[p] \in DnsPacketType
        /\ RegDomain(regdom[p], decoded[p].sectoral, decoded[p].qname) \in Seq(Nat)
    BY RegDomainType DEF TypeOK, DnsPacketType
  <2>2. NewRow(p).date = decoded[p].date
    BY DEF NewRow, PacketRow
  <2>3. NewRow(p) \in PacketRows
    BY <2>1, PacketRowType DEF NewRow
  <2> QED
    BY <2>2, <2>3
<1>2. /\ pending'[p].rows = Append(pending[p].rows, row)
      /\ pending'[p].file = pending[p].file
      /\ packets' = packets
  BY DEF InsertPacket, TypeOK, NewRow, tables
<1>3. Inserted(p)' = Append(Inserted(p), row)
  <2>1. Inserted(p)' = packets[p] \o Append(pending[p].rows, row)
    BY <1>2, Zenon DEF Inserted
  <2>2. packets[p] \in Seq(PacketRows) /\ pending[p].rows \in Seq(PacketRows)
    BY InsertedType
  <2>3. \A s, t \in Seq(PacketRows) : \A x \in PacketRows :
          s \o Append(t, x) = Append(s \o t, x)
    BY ConcatAppend
  <2>4. packets[p] \o Append(pending[p].rows, row)
          = Append(packets[p] \o pending[p].rows, row)
    BY <1>1, <2>2, <2>3, Zenon
  <2> QED
    BY <2>1, <2>4 DEF Inserted
<1>4. /\ Len(Inserted(p)') = Len(Inserted(p)) + 1
      /\ \A i \in 1..Len(Inserted(p)) : Inserted(p)'[i] = Inserted(p)[i]
      /\ Inserted(p)'[Len(Inserted(p)) + 1] = row
  BY <1>1, <1>3, InsertedType
<1> QED
  BY <1>1, <1>2, <1>4

LEMMA InsertPacketStep ==
  ASSUME TypeOK, NEW p \in Procs, RunInv(p), InsertPacket(p)
  PROVE  RunInv(p)'
<1> USE DEF given, local, tables, Goto
<1>1. /\ files' = files /\ packets' = packets /\ input' = input /\ decoded' = decoded
      /\ job' = job /\ opts' = opts /\ pc[p] = "insert"
      /\ pc'[p] \in {"fileEnd", "call"} \/ (pc'[p] = "commit" /\ ~opts[p].dry_run)
  BY DEF InsertPacket, TypeOK
<1>2. CASE opts[p].dry_run
  <2>1. pending' = pending
    BY <1>2 DEF InsertPacket
  <2>2. Inserted(p)' = Inserted(p)
    BY <1>1, <2>1 DEF Inserted
  <2>3. Named(p)' /\ Owned(p)'
    BY <1>1, <1>2, <2>1 DEF RunInv, Named, Owned, Owns
  <2>4. Dated(p)'
    BY <1>1, <2>2 DEF RunInv, Dated
  <2>5. Counted(p)'
    BY <1>1, <1>2, <2>1, <2>2 DEF RunInv, Counted, Store!IsSealed
  <2> QED
    BY <2>3, <2>4, <2>5 DEF RunInv
<1>3. CASE ~opts[p].dry_run
  <2>1. PICK row : row = NewRow(p)
    OBVIOUS
  <2>2. /\ row.date = decoded[p].date
        /\ pending'[p].file = pending[p].file
        /\ Len(Inserted(p)') = Len(Inserted(p)) + 1
        /\ \A i \in 1..Len(Inserted(p)) : Inserted(p)'[i] = Inserted(p)[i]
        /\ Inserted(p)'[Len(Inserted(p)) + 1] = row
    BY <1>3, <2>1, PacketInserted
  <2>3. Named(p)' /\ Owned(p)'
    BY <1>1, <1>3, <2>2 DEF RunInv, Named, Owned, Owns
  <2>4. Dated(p)'
    <3>1. input[p].packetnum \in Nat /\ row.date = input[p].packetnum
      BY <1>1, <2>2 DEF RunInv, Dated, TypeOK, InputType
    <3>2. \A i \in 1..Len(Inserted(p)) :
            Inserted(p)[i].date \in Nat /\ Inserted(p)[i].date < row.date
      BY <1>1, <3>1, InsertedType DEF RunInv, Dated
    <3>3. \A i, j \in 1..Len(Inserted(p)) :
            i < j => Inserted(p)[i].date < Inserted(p)[j].date
      BY DEF RunInv, Dated
    <3>4. \A i, j \in 1..Len(Inserted(p)') :
            i < j => Inserted(p)'[i].date < Inserted(p)'[j].date
      <4> SUFFICES ASSUME NEW i \in 1..Len(Inserted(p)'), NEW j \in 1..Len(Inserted(p)'), i < j
                   PROVE  Inserted(p)'[i].date < Inserted(p)'[j].date
        OBVIOUS
      <4>1. i \in 1..Len(Inserted(p)) /\ j \in 1..Len(Inserted(p)) \cup {Len(Inserted(p)) + 1}
        BY <2>2, InsertedType
      <4> QED
        BY <2>2, <3>2, <3>3, <4>1
    <3>5. \A i \in 1..Len(Inserted(p)') : Inserted(p)'[i].date <= input[p].packetnum
      BY <2>2, <3>1, <3>2, InsertedType
    <3> QED
      BY <1>1, <3>4, <3>5 DEF Dated
  <2>5. Counted(p)'
    BY <1>1, <1>3, <2>2, InsertedType DEF RunInv, Counted, Store!IsSealed
  <2> QED
    BY <2>3, <2>4, <2>5 DEF RunInv
<1> QED
  BY <1>2, <1>3

LEMMA CommitStep ==
  ASSUME TypeOK, NEW p \in Procs, RunInv(p),
         CommitBatch(p) \/ FinalCommit(p) \/ CommitLost(p)
  PROVE  RunInv(p)'
<1> USE DEF given, local, tables, Goto
<1>1. /\ Commit(p) /\ input' = input /\ decoded' = decoded
      /\ job' = job /\ opts' = opts
      /\ \/ pc[p] = "commit" /\ pc'[p] \in {"call", "failed"}
         \/ pc[p] = "finalCommit" /\ pc'[p] \in {"done", "failed"}
  BY DEF CommitBatch, FinalCommit, CommitLost, TypeOK
<1>2. /\ packets'[p] = Inserted(p) /\ Inserted(p)' = Inserted(p)
      /\ pending'[p].file = NULL /\ pending'[p].rows = <<>>
      /\ files'[p] = IF pending[p].file = NULL THEN files[p] ELSE pending[p].file
  BY <1>1, CommitRows DEF Idle
<1>3. ~opts[p].dry_run /\ Owns(p)
  BY <1>1 DEF RunInv, Owned
<1>4. Named(p)' /\ Owned(p)'
  BY <1>1, <1>2, <1>3 DEF RunInv, Named, Owned, Owns
<1>5. Dated(p)'
  BY <1>1, <1>2 DEF RunInv, Dated
<1>6. Counted(p)'
  BY <1>1, <1>2, <1>3 DEF RunInv, Counted, Store!IsSealed
<1> QED
  BY <1>4, <1>5, <1>6 DEF RunInv

LEMMA FileEndStep ==
  ASSUME TypeOK, NEW p \in Procs, RunInv(p), FileEnd(p)
  PROVE  RunInv(p)'
<1> USE DEF given, local, tables, Goto, Ended
<1>1. /\ files' = files /\ packets' = packets /\ input' = input /\ decoded' = decoded
      /\ job' = job /\ opts' = opts /\ pc[p] = "fileEnd"
      /\ \/ opts[p].dry_run /\ pc'[p] = "done" /\ pending'[p] = pending[p]
         \/ /\ ~opts[p].dry_run /\ pc'[p] = "finalCommit"
            /\ pending'[p].file = SealedRow(p) /\ pending'[p].rows = pending[p].rows
  BY DEF FileEnd, TypeOK
<1>2. Inserted(p)' = Inserted(p)
  BY <1>1 DEF Inserted
<1>3. /\ SealedRow(p).filename = job[p]
      /\ SealedRow(p).storedpackets = input[p].dnspacketnum
      /\ SealedRow(p) # NULL
  BY FileRowType, NullAssumption DEF SealedRow, NewFileRow
<1>4. Named(p)' /\ Owned(p)'
  BY <1>1, <1>3 DEF RunInv, Named, Owned, Owns
<1>5. Dated(p)'
  BY <1>1, <1>2 DEF RunInv, Dated
<1>6. Counted(p)'
  BY <1>1, <1>2, <1>3 DEF RunInv, Counted, Owned, Store!IsSealed
<1> QED
  BY <1>4, <1>5, <1>6 DEF RunInv

(* A rollback leaves the committed rows, which come first.                 *)
LEMMA RollbackStep ==
  ASSUME TypeOK, NEW p \in Procs, RunInv(p), Die(p) \/ Fail(p)
  PROVE  RunInv(p)'
<1> USE DEF given, local, tables, Goto, Ended
<1>1. /\ files' = files /\ packets' = packets /\ input' = input /\ decoded' = decoded
      /\ job' = job /\ opts' = opts /\ pc'[p] = "failed" /\ pending'[p] = Idle
      /\ pending'[p].file = NULL /\ pending'[p].rows = <<>>
  BY DEF Die, Fail, Rollback, Idle, TypeOK
<1>2. Inserted(p)' = packets[p]
  <2>1. Inserted(p)' = packets[p] \o <<>>
    BY <1>1, Zenon DEF Inserted
  <2> QED
    BY <2>1, InsertedType, ConcatEmpty
<1>3. Named(p)' /\ Owned(p)'
  BY <1>1 DEF RunInv, Named, Owned, Owns
<1>4. Dated(p)'
  <2>1. \A i \in 1..Len(packets[p]) :
          i \in 1..Len(Inserted(p)) /\ Inserted(p)[i] = packets[p][i]
    <3>1. /\ Len(packets[p]) \in Nat /\ Len(pending[p].rows) \in Nat
          /\ Len(Inserted(p)) = Len(packets[p]) + Len(pending[p].rows)
          /\ \A i \in 1..Len(packets[p]) : Inserted(p)[i] = packets[p][i]
      BY InsertedType
    <3>2. 1..Len(packets[p]) \subseteq 1..(Len(packets[p]) + Len(pending[p].rows))
      BY <3>1, IntervalWidens
    <3>3. 1..Len(packets[p]) \subseteq 1..Len(Inserted(p))
      BY <3>1, <3>2, Zenon
    <3> QED
      BY <3>1, <3>3, Zenon
  <2>2. \A i, j \in 1..Len(packets[p]) : i < j => packets[p][i].date < packets[p][j].date
    BY <2>1 DEF RunInv, Dated
  <2>3. \A i \in 1..Len(packets[p]) : packets[p][i].date <= input[p].packetnum
    BY <2>1 DEF RunInv, Dated
  <2> QED
    BY <1>1, <1>2, <2>2, <2>3 DEF Dated
<1>5. Counted(p)'
  BY <1>1 DEF RunInv, Counted, Store!IsSealed
<1> QED
  BY <1>3, <1>4, <1>5 DEF RunInv

---------------------------------------------------------------------------
(* All executions together.                                                *)

(* Only the INSERT of the file row makes an execution an owner.            *)
LEMMA OwnerStep ==
  ASSUME TypeOK, NEW p \in Procs, RunInv(p),
         Step(p) \/ CommitLost(p) \/ Fail(p), ~InsertFile(p)
  PROVE  Owns(p)' => Owns(p)
<1> USE DEF given, local, tables, Goto, Owns, TypeOK
<1>1. CASE Open(p) \/ DuplicateFile(p) \/ Call(p) \/ EndOfFile(p) \/ Grab(p) \/ Hang(p)
  BY <1>1 DEF Open, DuplicateFile, Call, EndOfFile, Grab, Hang
<1>2. CASE Die(p) \/ Fail(p)
  BY <1>2 DEF Die, Fail, Rollback, Idle
<1>3. CASE InsertPacket(p)
  BY <1>3 DEF InsertPacket
<1>4. CASE CommitBatch(p) \/ FinalCommit(p) \/ CommitLost(p)
  BY <1>4 DEF CommitBatch, FinalCommit, CommitLost, Commit, Idle
<1>5. CASE FileEnd(p)
  BY <1>5 DEF FileEnd, RunInv, Owned
<1> QED
  BY <1>1, <1>2, <1>3, <1>4, <1>5 DEF Step

(* The UNIQUE constraint, and the wait for the transaction that may still  *)
(* be rolled back, keep names exclusive.                                   *)
LEMMA ExclusiveStep ==
  ASSUME TypeOK, Exclusive, \A q \in Procs : RunInv(q),
         NEW p \in Procs, Step(p) \/ CommitLost(p) \/ Fail(p), job' = job
  PROVE  Exclusive'
<1>1. \A q \in Procs : q # p => (Owns(q)' <=> Owns(q))
  BY OtherRuns DEF SameRun, Owns
<1>2. CASE InsertFile(p)
  <2>1. \A q \in Procs : q # p /\ job[q] = job[p] => ~Owns(q)
    BY <1>2 DEF InsertFile, Taken, Held, RunInv, Named, Owns
  <2> QED
    BY <1>1, <2>1 DEF Exclusive
<1>3. CASE ~InsertFile(p)
  <2>1. Owns(p)' => Owns(p)
    BY <1>3, OwnerStep
  <2> QED
    BY <1>1, <2>1 DEF Exclusive
<1> QED
  BY <1>2, <1>3

LEMMA InvInit == Init => IInv
<1> SUFFICES ASSUME Init PROVE IInv
  OBVIOUS
<1>1. TypeOK /\ CursorInFile
  BY TypeInit
<1>2. ASSUME NEW p \in Procs
      PROVE  RunInv(p) /\ ~Owns(p)
  <2>1. /\ pc[p] = "open" /\ pending[p] = Idle /\ files[p] = NULL /\ packets[p] = <<>>
        /\ pending[p].file = NULL /\ pending[p].rows = <<>>
        /\ input[p].dnspacketnum = 0
    BY DEF Init, Idle, NewInput
  <2>2. Inserted(p) = <<>>
    BY <2>1 DEF Inserted
  <2> QED
    BY <2>1, <2>2 DEF RunInv, Named, Owned, Owns, Dated, Counted, Store!IsSealed
<1> QED
  BY <1>1, <1>2 DEF IInv, Exclusive

LEMMA InvStep == IInv /\ [Next]_vars => IInv'
<1> SUFFICES ASSUME IInv, [Next]_vars PROVE IInv'
  OBVIOUS
<1> USE DEF IInv
<1>1. TypeOK' /\ CursorInFile'
  BY TypeStep
<1>2. ASSUME NEW p \in Procs, Step(p) \/ CommitLost(p) \/ Fail(p)
      PROVE  Exclusive' /\ \A q \in Procs : RunInv(q)'
  <2>1. UNCHANGED given
    BY <1>2 DEF Step, Open, InsertFile, DuplicateFile, Call, EndOfFile, Grab, Die, Hang,
                InsertPacket, CommitBatch, FileEnd, FinalCommit, CommitLost, Fail
  <2>2. Exclusive'
    BY <1>2, <2>1, ExclusiveStep DEF given
  <2>3. RunInv(p)'
    BY <1>2, QuietStep, InsertFileStep, GrabStep, InsertPacketStep, CommitStep,
       FileEndStep, RollbackStep DEF Step
  <2>4. ASSUME NEW q \in Procs, q # p
        PROVE  RunInv(q)'
    BY <1>2, <2>1, <2>4, OtherRuns, SameRunInv
  <2> QED
    BY <2>2, <2>3, <2>4
<1>3. CASE UNCHANGED vars
  <2>1. UNCHANGED given /\ \A q \in Procs : SameRun(q)
    BY <1>3 DEF vars, local, tables, SameRun
  <2>2. \A q \in Procs : RunInv(q)'
    BY <2>1, SameRunInv
  <2>3. Exclusive'
    BY <2>1 DEF Exclusive, Owns, SameRun, given
  <2> QED
    BY <1>1, <2>2, <2>3
<1> QED
  BY <1>1, <1>2, <1>3 DEF Next

(* The invariant holds, whatever the captures, the command lines and the   *)
(* faults are.                                                             *)
THEOREM Invariance == Spec => []IInv
  BY InvInit, InvStep, PTL DEF Spec

(* However often, and by however many executions at once, a file is        *)
(* loaded, none of its frames gets a second row.                           *)
THEOREM FramesStoredOnce == Spec => []NoFrameTwice
<1>1. IInv => NoFrameTwice
  <2> SUFFICES ASSUME IInv PROVE NoFrameTwice
    OBVIOUS
  <2> USE DEF IInv
  <2>1. ASSUME NEW p \in Procs, NEW q \in Procs,
               files[p] # NULL, files[q] # NULL, job[p] = job[q]
        PROVE  p = q
    BY <2>1 DEF Exclusive, Owns
  <2>2. ASSUME NEW p \in Procs, NEW i \in 1..Len(packets[p])
        PROVE  files[p] # NULL
    <3>1. packets[p] # <<>>
      BY InsertedType
    <3> QED
      BY <3>1 DEF RunInv, Owned
  <2>3. ASSUME NEW p \in Procs, NEW i \in 1..Len(packets[p]), NEW j \in 1..Len(packets[p]),
               packets[p][i].date = packets[p][j].date
        PROVE  i = j
    <3>1. 1..Len(packets[p]) \subseteq 1..Len(Inserted(p))
      BY InsertedType, IntervalWidens, Zenon
    <3>2. /\ Inserted(p)[i] = packets[p][i] /\ Inserted(p)[j] = packets[p][j]
          /\ Inserted(p)[i].date \in Nat /\ Inserted(p)[j].date \in Nat
      BY <3>1, InsertedType, Zenon
    <3>3. /\ i < j => Inserted(p)[i].date < Inserted(p)[j].date
          /\ j < i => Inserted(p)[j].date < Inserted(p)[i].date
      BY <3>1 DEF RunInv, Dated
    <3>4. i \in Nat /\ j \in Nat
      BY InsertedType
    <3> QED
      BY <2>3, <3>2, <3>3, <3>4
  <2>4. \A p \in Procs : DOMAIN packets[p] = 1..Len(packets[p])
    BY InsertedType
  <2> QED
    BY <2>1, <2>2, <2>3, <2>4 DEF NoFrameTwice
<1> QED
  BY <1>1, Invariance, PTL

---------------------------------------------------------------------------
(* The loader implements PacketStore.                                      *)

LEMMA PrefixOfConcat ==
  ASSUME NEW S, NEW s \in Seq(S), NEW t \in Seq(S)
  PROVE  Store!IsPrefix(s, s \o t)
  BY DEF Store!IsPrefix

(* A commit of p is a Publish of p.                                        *)
LEMMA CommitPublishes ==
  ASSUME IInv, IInv', NEW p \in Procs, Commit(p),
         pc[p] \in {"commit", "finalCommit"}, pc'[p] # "finalCommit"
  PROVE  Store!Publish(p)
<1> USE DEF IInv
<1>1. /\ packets'[p] = Inserted(p)
      /\ files'[p] = IF pending[p].file = NULL THEN files[p] ELSE pending[p].file
  BY CommitRows
<1>2. Owns(p)
  BY DEF RunInv, Owned
<1>3. ~Store!IsSealed(files[p])
  BY DEF RunInv, Counted
<1>4. /\ files' = [files EXCEPT ![p] = files'[p]]
      /\ packets' = [packets EXCEPT ![p] = packets'[p]]
  BY DEF Commit, TypeOK
<1>5. files'[p] # NULL /\ files'[p].filename = job[p]
  BY <1>1, <1>2 DEF Owns, RunInv, Named
<1>6. files[p] # NULL => files'[p].filename = files[p].filename
  BY <1>5 DEF RunInv, Named
<1>7. \A q \in Procs \ {p} : files[q] # NULL => files[q].filename # files'[p].filename
  BY <1>2, <1>5 DEF Exclusive, Owns, RunInv, Named
<1>8. Store!IsPrefix(packets[p], packets'[p])
  BY <1>1, InsertedType, PrefixOfConcat, Zenon DEF Inserted
<1>9. Store!IsSealed(files'[p]) => files'[p].storedpackets = Len(packets'[p])
  BY <1>1, <1>3 DEF RunInv, Counted
<1> QED
  BY <1>3, <1>4, <1>5, <1>6, <1>7, <1>8, <1>9 DEF Store!Publish

(* What readers of the database see is a behaviour of PacketStore: rows    *)
(* only appear behind others, and nothing changes behind the totals.       *)
THEOREM StoreImplemented == Spec => StoreSpec
<1>1. Init => Store!Init
  BY DEF Init, Store!Init
<1>2. IInv /\ IInv' /\ [Next]_vars => [Store!Next]_(Store!storeVars)
  <2> SUFFICES ASSUME IInv, IInv', [Next]_vars PROVE [Store!Next]_(Store!storeVars)
    OBVIOUS
  <2> USE DEF given, local, tables, Goto, Store!storeVars
  <2>1. ASSUME NEW p \in Procs, CommitBatch(p) \/ FinalCommit(p) \/ CommitLost(p)
        PROVE  Store!Next
    <3>1. Commit(p) /\ pc[p] \in {"commit", "finalCommit"} /\ pc'[p] # "finalCommit"
      BY <2>1 DEF CommitBatch, FinalCommit, CommitLost, IInv, TypeOK
    <3> QED
      BY <3>1, CommitPublishes DEF Store!Next
  <2>2. ASSUME NEW p \in Procs,
               \/ Open(p) \/ InsertFile(p) \/ DuplicateFile(p) \/ Call(p) \/ EndOfFile(p)
               \/ Grab(p) \/ Die(p) \/ Hang(p) \/ InsertPacket(p) \/ FileEnd(p) \/ Fail(p)
        PROVE  UNCHANGED Store!storeVars
    BY <2>2 DEF Open, InsertFile, DuplicateFile, Call, EndOfFile, Grab, Die, Hang,
                InsertPacket, FileEnd, Fail
  <2>3. CASE UNCHANGED vars
    BY <2>3 DEF vars
  <2> QED
    BY <2>1, <2>2, <2>3 DEF Next, Step
<1> QED
  BY <1>1, <1>2, Invariance, PTL DEF Spec, StoreSpec, Store!Spec

---------------------------------------------------------------------------
(* What readers may count on for ever.                                     *)

LEMMA PrefixElements ==
  ASSUME NEW S, NEW s \in Seq(S), NEW t \in Seq(S), Len(s) <= Len(t)
  PROVE  Store!IsPrefix(s, t) <=> \A i \in 1..Len(s) : s[i] = t[i]
<1>1. SubSeq(s, 1, Len(s)) = s
  OBVIOUS
<1>2. /\ SubSeq(t, 1, Len(s)) \in Seq(S)
      /\ Len(SubSeq(t, 1, Len(s))) = Len(s)
      /\ \A i \in 1..Len(s) : SubSeq(t, 1, Len(s))[i] = t[i]
  OBVIOUS
<1>3. s = SubSeq(t, 1, Len(s)) <=> \A i \in 1..Len(s) : s[i] = SubSeq(t, 1, Len(s))[i]
  BY <1>2, SeqEqual
<1> QED
  BY <1>1, <1>2, <1>3 DEF Store!IsPrefix

LEMMA PrefixTrans ==
  ASSUME NEW S, NEW r \in Seq(S), NEW s \in Seq(S), NEW t \in Seq(S),
         Store!IsPrefix(r, s), Store!IsPrefix(s, t)
  PROVE  Store!IsPrefix(r, t)
<1>1. /\ Len(r) <= Len(s) /\ Len(s) <= Len(t)
      /\ Len(r) \in Nat /\ Len(s) \in Nat /\ Len(t) \in Nat
  BY DEF Store!IsPrefix
<1>2. Len(r) <= Len(t) /\ 1..Len(r) \subseteq 1..Len(s)
  BY <1>1
<1>3. \A i \in 1..Len(r) : r[i] = s[i] /\ s[i] = t[i]
  BY <1>1, <1>2, PrefixElements
<1> QED
  BY <1>2, <1>3, PrefixElements

(* Rows of DNS_Packets that a reader has once seen are there ever after,   *)
(* before all that come later: in whichever order loads begin, fail, are   *)
(* killed or repeated, no commit takes rows of an earlier one back.        *)
THEOREM RowsStay ==
  ASSUME NEW p \in Procs, NEW seen \in Seq(PacketRows)
  PROVE  Spec => [](Store!IsPrefix(seen, packets[p]) => []Store!IsPrefix(seen, packets[p]))
<1> DEFINE Seen == Store!IsPrefix(seen, packets[p])
<1>1. IInv /\ IInv' /\ [Store!Next]_(Store!storeVars) /\ Seen => Seen'
  <2> SUFFICES ASSUME IInv, IInv', [Store!Next]_(Store!storeVars), Seen PROVE Seen'
    OBVIOUS
  <2>1. packets[p] \in Seq(PacketRows) /\ packets'[p] \in Seq(PacketRows)
    BY DEF IInv, TypeOK
  <2>2. CASE UNCHANGED Store!storeVars
    BY <2>2 DEF Store!storeVars
  <2>3. ASSUME NEW q \in Procs, Store!Publish(q) PROVE Seen'
    <3>1. CASE q # p
      BY <2>3, <3>1 DEF Store!Publish, IInv, TypeOK
    <3>2. CASE q = p
      BY <2>1, <2>3, <3>2, PrefixTrans DEF Store!Publish
    <3> QED
      BY <3>1, <3>2
  <2> QED
    BY <2>2, <2>3 DEF Store!Next
<1> HIDE DEF Seen
<1>2. Spec => [](Seen => []Seen)
  BY <1>1, Invariance, StoreImplemented, PTL DEF StoreSpec, Store!Spec
<1> QED
  BY <1>2 DEF Seen

(* A file row with totals is final, and so are the packets that belong to  *)
(* it: a report made from a complete file need not be made again.          *)
THEOREM SealedForGood ==
  ASSUME NEW p \in Procs, NEW row \in FileRows, Store!IsSealed(row),
         NEW rows \in Seq(PacketRows)
  PROVE  Spec => [](files[p] = row /\ packets[p] = rows
                      => [](files[p] = row /\ packets[p] = rows))
<1> DEFINE Final == files[p] = row /\ packets[p] = rows
<1>1. IInv /\ [Store!Next]_(Store!storeVars) /\ Final => Final'
  <2> SUFFICES ASSUME IInv, [Store!Next]_(Store!storeVars), Final PROVE Final'
    OBVIOUS
  <2>1. CASE UNCHANGED Store!storeVars
    BY <2>1 DEF Store!storeVars
  <2>2. ASSUME NEW q \in Procs, Store!Publish(q) PROVE Final'
    <3>1. q # p
      BY <2>2 DEF Store!Publish
    <3> QED
      BY <2>2, <3>1 DEF Store!Publish, IInv, TypeOK
  <2> QED
    BY <2>1, <2>2 DEF Store!Next
<1> HIDE DEF Final
<1>2. Spec => [](Final => []Final)
  BY <1>1, Invariance, StoreImplemented, PTL DEF StoreSpec, Store!Spec
<1> QED
  BY <1>2 DEF Final

---------------------------------------------------------------------------
(* What RunsEnd rests on, for any number of executions: no step can be     *)
(* repeated for ever, and nobody waits for one who waits.                  *)

(* How far it is from a label to the end when no more frames are read, ... *)
ToEnd == [l \in Labels \cup Ended |->
            CASE l = "finalCommit" -> 1
              [] l = "fileEnd" -> 2
              [] l = "grab" -> 3
              [] l = "call" -> 4
              [] l \in {"insertFile", "commit"} -> 5
              [] l \in {"open", "insert"} -> 6
              [] OTHER -> 0]

(* ... a frame leading at most from "grab" around to "grab".               *)
Left(p) == 4 * (Len(FramesOf(p)) - input[p].packetnum) + ToEnd[pc[p]]

(* Every step brings one execution nearer to its end and leaves the others *)
(* where they are: the loops over frames and batches run out, but for the  *)
(* walk over extension headers ("hung").                                   *)
StepsRunOut ==
  [][\E p \in Procs : /\ Left(p)' < Left(p)
                      /\ \A q \in Procs \ {p} : Left(q)' = Left(q)]_vars

LEMMA ToEndValues ==
  /\ ToEnd["open"] = 6 /\ ToEnd["insertFile"] = 5 /\ ToEnd["call"] = 4
  /\ ToEnd["grab"] = 3 /\ ToEnd["insert"] = 6 /\ ToEnd["commit"] = 5
  /\ ToEnd["fileEnd"] = 2 /\ ToEnd["finalCommit"] = 1
  /\ \A l \in Ended : ToEnd[l] = 0
  /\ \A l \in Labels : ToEnd[l] \in 1..6
BY DEF ToEnd, Labels, Ended

(* One execution comes nearer to its end.                                  *)
LEMMA NearerEnd ==
  ASSUME TypeOK, CursorInFile, NEW p \in Procs, Step(p) \/ CommitLost(p) \/ Fail(p)
  PROVE  Left(p)' < Left(p)
<1> DEFINE frames == Len(FramesOf(p))
           n == input[p].packetnum
<1>1. /\ frames \in Nat /\ n \in Nat /\ FramesOf(p)' = FramesOf(p)
      /\ pc[p] \in Labels \cup Ended
  <2>1. FramesOf(p)' = FramesOf(p)
    BY DEF FramesOf, Step, CommitLost, Fail, Open, InsertFile, DuplicateFile, Call,
           EndOfFile, Grab, Die, Hang, InsertPacket, CommitBatch, FileEnd, FinalCommit, given
  <2> QED
    BY <2>1, FramesType DEF TypeOK, InputType
<1>2. CASE Grab(p)
  <2>1. pc[p] = "grab" /\ pc'[p] \in {"grab", "insert"}
    BY <1>2 DEF Grab, Goto, TypeOK
  <2>2. input'[p].packetnum = n + 1
    <3>1. PICK f \in Readings(Coming(p)) : input' = [input EXCEPT ![p] = InputAfter(@, f)]
      BY <1>2 DEF Grab
    <3>2. f \in FrameType
      BY <1>2, <3>1, ComingType, ReadingsType DEF Grab
    <3> QED
      BY <3>1, <3>2, InputAfterType DEF TypeOK
  <2>3. ToEnd[pc[p]] = 3 /\ (ToEnd[pc'[p]] = 3 \/ ToEnd[pc'[p]] = 6)
    BY <2>1, ToEndValues
  <2>4. Left(p) = 4 * (frames - n) + 3
    BY <2>3 DEF Left
  <2>5. Left(p)' = 4 * (frames - (n + 1)) + ToEnd[pc'[p]]
    BY <1>1, <2>2 DEF Left, ToEnd, Labels, Ended
  <2> HIDE DEF frames, n
  <2> QED
    BY <1>1, <2>3, <2>4, <2>5
<1>3. CASE ~Grab(p)
  <2>1. input' = input
    BY <1>3 DEF Step, CommitLost, Fail, Open, InsertFile, DuplicateFile, Call, EndOfFile,
                Die, Hang, InsertPacket, CommitBatch, FileEnd, FinalCommit, local
  <2>2. /\ pc[p] \in Labels /\ pc'[p] \in Labels \cup Ended
        /\ \/ pc'[p] \in Ended
           \/ pc[p] = "open" /\ pc'[p] \in {"insertFile", "call"}
           \/ pc[p] = "insertFile" /\ pc'[p] = "call"
           \/ pc[p] = "call" /\ pc'[p] = "grab"
           \/ pc[p] = "grab" /\ pc'[p] = "fileEnd"
           \/ pc[p] = "insert" /\ pc'[p] \in {"fileEnd", "commit", "call"}
           \/ pc[p] = "commit" /\ pc'[p] = "call"
           \/ pc[p] = "fileEnd" /\ pc'[p] = "finalCommit"
    <3> USE DEF Goto, TypeOK, Labels, Ended
    <3>1. CASE Open(p) \/ InsertFile(p) \/ DuplicateFile(p) \/ Call(p) \/ EndOfFile(p)
      BY <3>1 DEF Open, InsertFile, DuplicateFile, Call, EndOfFile
    <3>2. CASE Die(p) \/ Hang(p) \/ CommitLost(p) \/ Fail(p)
      BY <3>2 DEF Die, Hang, CommitLost, Fail
    <3>3. CASE InsertPacket(p)
      BY <3>3 DEF InsertPacket
    <3>4. CASE CommitBatch(p) \/ FileEnd(p) \/ FinalCommit(p)
      BY <3>4 DEF CommitBatch, FileEnd, FinalCommit
    <3> QED
      BY <1>3, <3>1, <3>2, <3>3, <3>4 DEF Step
  <2>3. ToEnd[pc'[p]] < ToEnd[pc[p]]
    <3>1. CASE pc'[p] \in Ended
      BY <2>2, <3>1, ToEndValues
    <3>2. CASE pc'[p] \notin Ended
      BY <2>2, <3>2, ToEndValues
    <3> QED
      BY <3>1, <3>2
  <2>4. ToEnd[pc[p]] \in Nat /\ ToEnd[pc'[p]] \in Nat
    BY <2>2, ToEndValues
  <2>5. Left(p) = 4 * (frames - n) + ToEnd[pc[p]]
    BY DEF Left
  <2>6. Left(p)' = 4 * (frames - n) + ToEnd[pc'[p]]
    BY <1>1, <2>1 DEF Left, ToEnd, Labels, Ended
  <2> HIDE DEF frames, n
  <2> QED
    BY <1>1, <2>3, <2>4, <2>5, <2>6
<1> QED
  BY <1>2, <1>3

(* Every step of the system brings one execution nearer to its end and     *)
(* leaves the others where they are, and the distance is a number: however *)
(* many there are and whatever they read, their loops over frames and      *)
(* batches cannot go on for ever.  (The endless walk over IPv6 extension   *)
(* headers is the end "hung".)                                             *)
THEOREM NoEndlessLoop == Spec => StepsRunOut /\ [](\A p \in Procs : Left(p) \in Nat)
<1>1. IInv /\ [Next]_vars =>
        [\E p \in Procs : /\ Left(p)' < Left(p)
                          /\ \A q \in Procs \ {p} : Left(q)' = Left(q)]_vars
  <2> SUFFICES ASSUME IInv,
                      NEW p \in Procs, Step(p) \/ CommitLost(p) \/ Fail(p)
               PROVE  /\ Left(p)' < Left(p)
                      /\ \A q \in Procs \ {p} : Left(q)' = Left(q)
    BY DEF Next
  <2>1. Left(p)' < Left(p)
    BY NearerEnd DEF IInv
  <2>2. capture' = capture /\ job' = job
    BY DEF Step, CommitLost, Fail, Open, InsertFile, DuplicateFile, Call, EndOfFile, Grab,
           Die, Hang, InsertPacket, CommitBatch, FileEnd, FinalCommit, given
  <2>3. ASSUME NEW q \in Procs \ {p} PROVE Left(q)' = Left(q)
    <3>1. SameRun(q)
      BY OtherRuns DEF IInv
    <3> QED
      BY <2>2, <3>1 DEF SameRun, Left, FramesOf, ToEnd, Labels, Ended
  <2> QED
    BY <2>1, <2>3
<1>2. IInv => \A p \in Procs : Left(p) \in Nat
  <2> SUFFICES ASSUME IInv, NEW p \in Procs PROVE Left(p) \in Nat
    OBVIOUS
  <2> DEFINE frames == Len(FramesOf(p))
             n == input[p].packetnum
  <2>1. frames \in Nat /\ n \in Nat /\ n <= frames
    BY FramesType DEF IInv, TypeOK, InputType, CursorInFile
  <2>2. ToEnd[pc[p]] \in Nat
    <3>1. pc[p] \in Labels \cup Ended
      BY DEF IInv, TypeOK
    <3>2. ToEnd[pc[p]] = 0 \/ ToEnd[pc[p]] \in 1..6
      BY <3>1, ToEndValues
    <3> QED
      BY <3>2
  <2>3. Left(p) = 4 * (frames - n) + ToEnd[pc[p]]
    BY DEF Left
  <2> HIDE DEF frames, n
  <2> QED
    BY <2>1, <2>2, <2>3
<1> QED
  BY <1>1, <1>2, Invariance, PTL DEF Spec, StepsRunOut

(* An execution that is over holds no name, unless it is stuck in the walk *)
(* over extension headers.                                                 *)
Released == \A p \in Procs : pc[p] \in {"done", "failed", "refused"} => pending[p] = Idle

LEMMA ReleasedStep == ASSUME IInv, Released, [Next]_vars PROVE Released'
<1>1. CASE UNCHANGED vars
  BY <1>1 DEF Released, vars
<1>2. ASSUME NEW p \in Procs, Step(p) \/ CommitLost(p) \/ Fail(p) PROVE Released'
  <2>1. ASSUME NEW q \in Procs, q # p, pc'[q] \in {"done", "failed", "refused"}
        PROVE  pending'[q] = Idle
    BY <1>2, <2>1, OtherRuns DEF Released, SameRun, IInv
  <2>2. ASSUME pc'[p] \in {"done", "failed", "refused"} PROVE pending'[p] = Idle
    <3> USE DEF Goto, TypeOK, IInv
    <3>1. CASE Open(p) \/ InsertFile(p) \/ Call(p) \/ EndOfFile(p) \/ Hang(p)
      BY <2>2, <3>1 DEF Open, InsertFile, Call, EndOfFile, Hang
    <3>2. CASE Grab(p) \/ InsertPacket(p) \/ CommitBatch(p)
      BY <2>2, <3>2 DEF Grab, InsertPacket, CommitBatch
    <3>3. CASE DuplicateFile(p)
      BY <2>2, <3>3 DEF DuplicateFile, RunInv, Owned
    <3>4. CASE FileEnd(p)
      BY <2>2, <3>4 DEF FileEnd, RunInv, Owned
    <3>5. CASE Die(p) \/ Fail(p)
      BY <3>5 DEF Die, Fail, Rollback
    <3>6. CASE FinalCommit(p) \/ CommitLost(p)
      BY <3>6 DEF FinalCommit, CommitLost, Commit
    <3> QED
      BY <1>2, <3>1, <3>2, <3>3, <3>4, <3>5, <3>6 DEF Step
  <2> QED
    BY <2>1, <2>2 DEF Released
<1> QED
  BY <1>1, <1>2 DEF Next

(* Whoever waits for a name waits for a load that is under way: no number  *)
(* of loads can deadlock, and none that failed keeps others from its file. *)
THEOREM WaitsEnd == Spec => []NoWaitInVain
<1>1. Init => Released
  BY DEF Init, Released
<1>2. IInv /\ Released => NoWaitInVain
  <2> SUFFICES ASSUME IInv, Released, NEW p \in Procs, NEW q \in Procs, WaitsFor(q, p)
               PROVE  pc[p] \notin {"open", "insertFile", "done", "failed", "refused"}
    BY DEF NoWaitInVain
  <2>1. pending[p] # Idle
    BY DEF WaitsFor, Idle
  <2> QED
    BY <2>1 DEF Released, IInv, RunInv, Owned
<1> QED
  BY <1>1, <1>2, ReleasedStep, Invariance, PTL DEF Spec
=============================================================================
