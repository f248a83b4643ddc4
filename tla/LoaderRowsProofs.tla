------------------------- MODULE LoaderRowsProofs -------------------------
(***************************************************************************)
(* What the rows are that Loader stores, and when: for any number of       *)
(* executions, files, frames and command lines, and under every fault.     *)
(* It rests on the invariant of LoaderProofs.                              *)
(***************************************************************************)
EXTENDS LoaderProofs

---------------------------------------------------------------------------
(* The invariant.                                                          *)

(* Where an execution that stores packets still goes on.                   *)
Reading == {"call", "grab", "insert", "commit"}
Storing == Reading \cup {"fileEnd", "finalCommit"}

LastDate(rows) == IF Len(rows) = 0 THEN 0 ELSE rows[Len(rows)].date

(* Each rank is the frame of the row before; what the next rank will be.   *)
ChainedAt(rows, i) ==
  /\ rows[i].rank = IF i = 1 THEN 0 ELSE rows[i - 1].date
  /\ rows[i].rank < rows[i].date

Chained(p) ==
  /\ \A i \in 1..Len(Inserted(p)) : ChainedAt(Inserted(p), i)
  /\ ~opts[p].dry_run =>
       /\ pc[p] \in {"open", "insertFile", "call", "commit"} =>
            input[p].packetnum = LastDate(Inserted(p))
       /\ pc[p] \in {"grab", "insert"} => decoded[p].rank = LastDate(Inserted(p))
       /\ pc[p] = "grab" => decoded[p].rank <= input[p].packetnum
       /\ pc[p] = "insert" => decoded[p].rank < input[p].packetnum

(* A row, and the packet that is about to become one, are of one frame.    *)
OneFrame(frames, row) ==
  /\ {row.addr, row.header, row.qname, row.qclass} = {row.date}
  /\ row.edns # NULL => row.edns = [size |-> row.date, do |-> row.date]
  /\ ~Walks(frames[row.date]) => (row.edns # NULL <=> HasOpt(frames[row.date]))
  /\ ~row.sectoral => row.registered_domain = <<row.date>>

DecodedWhole(frames, d) ==
  /\ d.addr = d.date /\ d.header = d.date /\ d.qname = d.date /\ d.qclass = d.date
  /\ d.edns0 => d.edns0_size = d.date /\ d.do_dnssec = d.date
  /\ ~Walks(frames[d.date]) => (d.edns0 <=> HasOpt(frames[d.date]))

Whole(p) ==
  /\ \A i \in 1..Len(Inserted(p)) : OneFrame(FramesOf(p), Inserted(p)[i])
  /\ pc[p] = "insert" => DecodedWhole(FramesOf(p), decoded[p])

(* main's count, and what its decisions behind each packet leave.          *)
BatchesOf(p) ==
  files[p] # NULL /\ ~IsSealed(p) =>
    /\ opts[p].commit_every # 0
    /\ packets[p] # <<>>
    /\ Len(packets[p]) % opts[p].commit_every = 0
    /\ opts[p].maxpackets = 0 \/ Len(packets[p]) < opts[p].maxpackets

Tallied(p) ==
  ~opts[p].dry_run =>
    /\ pc[p] \in {"open", "insertFile"} => packetnum[p] = 0
    /\ pc[p] \in Storing => packetnum[p] = Len(Inserted(p))
    /\ pc[p] \in {"open", "insertFile"} \cup Reading =>
         opts[p].maxpackets = 0 \/ packetnum[p] < opts[p].maxpackets
    /\ pc[p] \in {"fileEnd", "finalCommit"} =>
         \/ AtEnd(p) /\ (opts[p].maxpackets = 0 \/ packetnum[p] < opts[p].maxpackets)
         \/ opts[p].maxpackets # 0 /\ packetnum[p] = opts[p].maxpackets
    /\ pc[p] = "commit" =>
         /\ opts[p].commit_every # 0
         /\ packetnum[p] > 0 /\ packetnum[p] % opts[p].commit_every = 0
    /\ pc[p] = "finalCommit" => pending[p].file = SealedRow(p)

(* There is a row for each DNS packet among the frames read.               *)
HasRow(rows, n) == \E i \in 1..Len(rows) : rows[i].date = n

Covered(p) ==
  /\ input[p].first = IF input[p].packetnum = 0 THEN 0 ELSE 1
  /\ input[p].last = input[p].packetnum
  /\ ~opts[p].dry_run /\ pc[p] \in Storing =>
       \A n \in 1..input[p].packetnum : ~Walks(FramesOf(p)[n]) =>
         (HasRow(Inserted(p), n) \/ (pc[p] = "insert" /\ n = input[p].packetnum)
            <=> Returned(FramesOf(p)[n]))

CompleteOf(p) ==
  IsSealed(p) =>
    /\ files[p].storedpackets = Len(packets[p])
    /\ files[p].totalpackets <= Len(FramesOf(p))
    /\ \A n \in 1..files[p].totalpackets : ~Walks(FramesOf(p)[n]) =>
         (HasRow(packets[p], n) <=> Returned(FramesOf(p)[n]))
    /\ files[p].totalpackets < Len(FramesOf(p)) => files[p].storedpackets = files[p].stoppedat
    /\ files[p].stoppedat # NULL => files[p].storedpackets <= files[p].stoppedat
    /\ files[p].firstpacket = IF files[p].totalpackets = 0 THEN 0 ELSE 1
    /\ files[p].lastpacket = IF files[p].stoppedat = NULL THEN files[p].totalpackets ELSE NULL

RowsInv(p) ==
  Chained(p) /\ Whole(p) /\ Tallied(p) /\ BatchesOf(p) /\ Covered(p) /\ CompleteOf(p)

---------------------------------------------------------------------------
(* What a step leaves alone.                                               *)

LEMMA GivenStays ==
  ASSUME NEW p \in Procs, UNCHANGED given
  PROVE  FramesOf(p)' = FramesOf(p) /\ opts'[p] = opts[p]
  BY DEF given, FramesOf

SameRows(q) == SameRun(q) /\ packetnum'[q] = packetnum[q]

LEMMA OtherRows ==
  ASSUME TypeOK, NEW p \in Procs, Step(p) \/ CommitLost(p) \/ Fail(p),
         NEW q \in Procs, p # q
  PROVE  SameRows(q)
<1>1. packetnum'[q] = packetnum[q]
  BY DEF Step, Open, InsertFile, DuplicateFile, Call, EndOfFile, Grab, Die, Hang, InsertPacket,
         CommitBatch, FileEnd, FinalCommit, CommitLost, Fail, local, TypeOK
<1> QED
  BY <1>1, OtherRuns DEF SameRows

LEMMA SameRowsInv ==
  ASSUME TypeOK, NEW q \in Procs, RowsInv(q), SameRows(q), UNCHANGED given
  PROVE  RowsInv(q)'
<1>1. /\ Inserted(q)' = Inserted(q) /\ FramesOf(q)' = FramesOf(q)
      /\ opts'[q] = opts[q] /\ job'[q] = job[q]
  BY GivenStays DEF Inserted, SameRows, SameRun, given
<1>2. Chained(q)' /\ Whole(q)'
  BY <1>1 DEF RowsInv, Chained, Whole, SameRows, SameRun
<1>3. Tallied(q)'
  BY <1>1 DEF RowsInv, Tallied, AtEnd, SealedRow, NewFileRow, SameRows, SameRun
<1>4. BatchesOf(q)' /\ CompleteOf(q)'
  BY <1>1 DEF RowsInv, BatchesOf, CompleteOf, IsSealed, SameRows, SameRun
<1>5. Covered(q)'
  BY <1>1 DEF RowsInv, Covered, SameRows, SameRun
<1> QED
  BY <1>2, <1>3, <1>4, <1>5 DEF RowsInv

(* The committed rows, when nothing is committed.                          *)
LEMMA StoredStays ==
  ASSUME NEW p \in Procs, BatchesOf(p), CompleteOf(p),
         UNCHANGED given, UNCHANGED files, UNCHANGED packets
  PROVE  BatchesOf(p)' /\ CompleteOf(p)'
  BY GivenStays DEF BatchesOf, CompleteOf, IsSealed

---------------------------------------------------------------------------
(* The steps of an execution, for its own rows.                            *)

LEMMA QuietRows ==
  ASSUME TypeOK, NEW p \in Procs, RowsInv(p),
         Open(p) \/ DuplicateFile(p) \/ EndOfFile(p) \/ Hang(p)
  PROVE  RowsInv(p)'
<1>1. /\ UNCHANGED <<given, local, pending, tables>>
      /\ \/ pc[p] = "open" /\ pc'[p] = "insertFile" /\ ~opts[p].dry_run
         \/ pc[p] = "open" /\ pc'[p] = "call" /\ opts[p].dry_run
         \/ pc[p] = "insertFile" /\ pc'[p] = "refused"
         \/ pc[p] = "grab" /\ pc'[p] = "fileEnd" /\ AtEnd(p)
         \/ pc[p] = "grab" /\ pc'[p] = "hung"
  BY DEF Open, DuplicateFile, EndOfFile, Hang, Goto, TypeOK, OptionType
<1>2. /\ UNCHANGED <<input, decoded, packetnum, pending, files, packets>>
      /\ FramesOf(p)' = FramesOf(p) /\ opts'[p] = opts[p]
      /\ Inserted(p)' = Inserted(p) /\ (AtEnd(p)' <=> AtEnd(p))
  BY <1>1, GivenStays DEF local, tables, Inserted, AtEnd
<1>3. Chained(p)'
  BY <1>1, <1>2 DEF RowsInv, Chained
<1>4. Whole(p)'
  BY <1>1, <1>2 DEF RowsInv, Whole
<1>5. Tallied(p)'
  BY <1>1, <1>2 DEF RowsInv, Tallied, Storing, Reading
<1>6. BatchesOf(p)' /\ CompleteOf(p)'
  BY <1>1, <1>2, StoredStays DEF RowsInv
<1>7. Covered(p)'
  BY <1>1, <1>2 DEF RowsInv, Covered, Storing, Reading
<1> QED
  BY <1>3, <1>4, <1>5, <1>6, <1>7 DEF RowsInv

LEMMA CallRows ==
  ASSUME TypeOK, NEW p \in Procs, RowsInv(p), Call(p)
  PROVE  RowsInv(p)'
<1>1. /\ UNCHANGED <<given, input, packetnum, pending, files, packets>>
      /\ pc[p] = "call" /\ pc'[p] = "grab"
      /\ decoded'[p].rank = input[p].packetnum
      /\ input[p].packetnum \in Nat
  BY DEF Call, Goto, tables, AtCall, TypeOK, DnsPacketType, InputType
<1>2. /\ FramesOf(p)' = FramesOf(p) /\ opts'[p] = opts[p]
      /\ Inserted(p)' = Inserted(p)
  BY <1>1, GivenStays DEF Inserted
<1>3. Chained(p)'
  BY <1>1, <1>2 DEF RowsInv, Chained
<1>4. Whole(p)'
  BY <1>1, <1>2 DEF RowsInv, Whole
<1>5. Tallied(p)'
  BY <1>1, <1>2 DEF RowsInv, Tallied, Storing, Reading
<1>6. BatchesOf(p)' /\ CompleteOf(p)'
  BY <1>1, <1>2, StoredStays DEF RowsInv
<1>7. Covered(p)'
  BY <1>1, <1>2 DEF RowsInv, Covered, Storing, Reading
<1> QED
  BY <1>3, <1>4, <1>5, <1>6, <1>7 DEF RowsInv

LEMMA InsertFileRows ==
  ASSUME TypeOK, NEW p \in Procs, RunInv(p), RowsInv(p), InsertFile(p)
  PROVE  RowsInv(p)'
<1>1. /\ UNCHANGED <<given, input, decoded, packetnum, files, packets>>
      /\ pc[p] = "insertFile" /\ pc'[p] = "call"
      /\ pending'[p].rows = pending[p].rows
  BY DEF InsertFile, Goto, local, tables, TypeOK
<1>2. /\ FramesOf(p)' = FramesOf(p) /\ opts'[p] = opts[p]
      /\ Inserted(p)' = Inserted(p) /\ Inserted(p) = <<>>
  BY <1>1, GivenStays DEF Inserted, RunInv, Owned, Idle
<1>3. Chained(p)'
  BY <1>1, <1>2 DEF RowsInv, Chained
<1>4. Whole(p)'
  BY <1>1, <1>2 DEF RowsInv, Whole
<1>5. Tallied(p)'
  BY <1>1, <1>2 DEF RowsInv, Tallied, Storing, Reading
<1>6. BatchesOf(p)' /\ CompleteOf(p)'
  BY <1>1, <1>2, StoredStays DEF RowsInv
<1>7. Covered(p)'
  <2>1. ~opts[p].dry_run => input[p].packetnum = 0
    BY <1>1, <1>2 DEF RowsInv, Chained, LastDate
  <2> QED
    BY <1>1, <1>2, <2>1 DEF RowsInv, Covered, Storing, Reading
<1> QED
  BY <1>3, <1>4, <1>5, <1>6, <1>7 DEF RowsInv

LEMMA GrabRows ==
  ASSUME TypeOK, CursorInFile, NEW p \in Procs, RunInv(p), RowsInv(p), Grab(p)
  PROVE  RowsInv(p)'
<1>1. PICK f \in Readings(Coming(p)) :
        /\ decoded' = [decoded EXCEPT ![p] = Decode(@, f, input[p].packetnum + 1)]
        /\ input' = [input EXCEPT ![p] = InputAfter(@, f)]
        /\ Goto(p, IF Returned(f) THEN "insert" ELSE "grab")
  BY DEF Grab
<1> DEFINE n == input[p].packetnum + 1
<1>2. /\ f \in FrameType /\ input[p] \in InputType /\ decoded[p] \in DnsPacketType
      /\ input[p].packetnum \in Nat /\ n \in 1..Len(FramesOf(p))
      /\ decoded[p].rank \in Nat
  BY ComingType, ReadingsType DEF Grab, TypeOK, InputType, DnsPacketType
<1>3. /\ UNCHANGED <<given, packetnum, pending, files, packets>>
      /\ pc[p] = "grab" /\ pc'[p] = IF Returned(f) THEN "insert" ELSE "grab"
      /\ decoded'[p] = Decode(decoded[p], f, n)
      /\ input'[p].packetnum = n /\ input'[p].last = n
      /\ input'[p].first = IF input[p].first = 0 THEN n ELSE input[p].first
  BY <1>1, <1>2 DEF Grab, Goto, tables, TypeOK, InputAfter
<1>4. /\ FramesOf(p)' = FramesOf(p) /\ opts'[p] = opts[p] /\ Inserted(p)' = Inserted(p)
      /\ (~Walks(FramesOf(p)[n]) => f = FramesOf(p)[n])
  BY <1>3, GivenStays DEF Inserted, Readings, Coming
<1> HIDE DEF n
<1>5. Chained(p)'
  <2>1. decoded'[p].rank = decoded[p].rank
    BY <1>3 DEF Decode
  <2> QED
    BY <1>2, <1>3, <1>4, <2>1 DEF RowsInv, Chained, n
<1>6. Whole(p)'
  <2>1. ASSUME Returned(f) PROVE DecodedWhole(FramesOf(p), decoded'[p])
    <3>1. IsUdp(f) /\ IsDns(f) /\ HasName(f) /\ HasClass(f)
      BY <2>1 DEF Returned, HasClass, HasName, IsDns
    <3>2. EdnsAfter(decoded[p], f) = HasOpt(f)
      BY <2>1, <3>1 DEF EdnsAfter, Returned, SeesOpt, HasOpt
    <3> QED
      BY <1>3, <1>4, <2>1, <3>1, <3>2 DEF Decode, DecodedWhole
  <2> QED
    BY <1>3, <1>4, <2>1 DEF RowsInv, Whole
<1>7. Tallied(p)'
  BY <1>3, <1>4 DEF RowsInv, Tallied, Storing, Reading
<1>8. BatchesOf(p)' /\ CompleteOf(p)'
  BY <1>3, StoredStays DEF RowsInv
<1>9. Covered(p)'
  <2>1. input'[p].first = IF n = 0 THEN 0 ELSE 1
    BY <1>2, <1>3 DEF RowsInv, Covered, n
  <2>2. ASSUME ~opts[p].dry_run, NEW m \in 1..n, ~Walks(FramesOf(p)[m])
        PROVE  HasRow(Inserted(p), m) \/ (Returned(f) /\ m = n) <=> Returned(FramesOf(p)[m])
    <3>1. CASE m = n
      <4>1. ~HasRow(Inserted(p), n)
        BY <1>2, InsertedType DEF HasRow, RunInv, Dated, n
      <4> QED
        BY <1>4, <2>2, <3>1, <4>1
    <3>2. CASE m # n
      <4>1. m \in 1..input[p].packetnum
        BY <1>2, <3>2 DEF n
      <4> QED
        BY <1>3, <2>2, <3>2, <4>1 DEF RowsInv, Covered, Storing, Reading
    <3> QED
      BY <3>1, <3>2
  <2> QED
    BY <1>3, <1>4, <2>1, <2>2 DEF Covered
<1> QED
  BY <1>5, <1>6, <1>7, <1>8, <1>9 DEF RowsInv

LEMMA InsertPacketRows ==
  ASSUME TypeOK, CursorInFile, NEW p \in Procs, RunInv(p), RowsInv(p), InsertPacket(p)
  PROVE  RowsInv(p)'
<1>1. /\ UNCHANGED <<given, input, decoded, files, packets>>
      /\ pc[p] = "insert"
      /\ packetnum'[p] = packetnum[p] + 1
      /\ pc'[p] = IF MaxReached(p, packetnum[p] + 1) THEN "fileEnd"
                  ELSE IF BatchFull(p, packetnum[p] + 1) /\ ~opts[p].dry_run THEN "commit"
                  ELSE "call"
  BY DEF InsertPacket, Goto, tables, TypeOK
<1>2. FramesOf(p)' = FramesOf(p) /\ opts'[p] = opts[p]
  BY <1>1, GivenStays
<1>3. BatchesOf(p)' /\ CompleteOf(p)'
  BY <1>1, StoredStays DEF RowsInv
<1>4. CASE opts[p].dry_run
  <2>1. Inserted(p)' = Inserted(p)
    BY <1>1, <1>4 DEF InsertPacket, Inserted
  <2>2. pc'[p] # "insert"
    BY <1>1
  <2>3. Chained(p)' /\ Whole(p)' /\ Tallied(p)' /\ Covered(p)'
    BY <1>1, <1>2, <1>4, <2>1, <2>2 DEF RowsInv, Chained, Whole, Tallied, Covered
  <2> QED
    BY <1>3, <2>3 DEF RowsInv
<1>5. CASE ~opts[p].dry_run
  <2>1. PICK row : row = NewRow(p)
    OBVIOUS
  <2>2. /\ row.date = decoded[p].date
        /\ Len(Inserted(p)') = Len(Inserted(p)) + 1
        /\ \A i \in 1..Len(Inserted(p)) : Inserted(p)'[i] = Inserted(p)[i]
        /\ Inserted(p)'[Len(Inserted(p)) + 1] = row
    BY <1>5, <2>1, PacketInserted
  <2>3. /\ Len(Inserted(p)) \in Nat /\ packetnum[p] \in Nat
        /\ input[p].packetnum \in Nat /\ input[p].packetnum = decoded[p].date
        /\ opts[p].maxpackets \in Nat /\ opts[p].commit_every \in Nat
    BY <1>1, InsertedType, LoaderAssumption DEF TypeOK, InputType, OptionType, RunInv, Dated
  <2>4. Chained(p)'
    <3>1. row.rank = LastDate(Inserted(p)) /\ row.rank < row.date
      BY <1>1, <1>5, <2>1, <2>2, <2>3 DEF NewRow, PacketRow, RowsInv, Chained
    <3>2. \A i \in 1..Len(Inserted(p)) : ChainedAt(Inserted(p)', i)
      <4> SUFFICES ASSUME NEW i \in 1..Len(Inserted(p))
                   PROVE  ChainedAt(Inserted(p)', i)
        OBVIOUS
      <4>1. ChainedAt(Inserted(p), i)
        BY DEF RowsInv, Chained
      <4>2. i # 1 => i - 1 \in 1..Len(Inserted(p))
        BY <2>3
      <4> QED
        BY <2>2, <4>1, <4>2 DEF ChainedAt
    <3>3. ChainedAt(Inserted(p)', Len(Inserted(p)) + 1)
      BY <2>2, <2>3, <3>1 DEF LastDate, ChainedAt
    <3>4. \A i \in 1..Len(Inserted(p)') : ChainedAt(Inserted(p)', i)
      BY <2>2, <2>3, <3>2, <3>3
    <3>5. input[p].packetnum = LastDate(Inserted(p)')
      BY <2>2, <2>3 DEF LastDate
    <3> QED
      BY <1>1, <1>2, <3>4, <3>5 DEF Chained
  <2>5. Whole(p)'
    <3>1. OneFrame(FramesOf(p), row)
      <4>1. /\ row.addr = row.date /\ row.header = row.date
            /\ row.qname = row.date /\ row.qclass = row.date
        BY <1>1, <2>1, <2>2 DEF NewRow, PacketRow, RowsInv, Whole, DecodedWhole
      <4>2. /\ row.edns # NULL => row.edns = [size |-> row.date, do |-> row.date]
            /\ row.edns # NULL <=> decoded[p].edns0
        <5>1. row.edns = EdnsColumns(decoded[p])
          BY <2>1 DEF NewRow, PacketRow
        <5>2. /\ decoded[p].edns0 \in BOOLEAN
              /\ [size |-> decoded[p].edns0_size, do |-> decoded[p].do_dnssec] # NULL
          BY NullAssumption DEF TypeOK, DnsPacketType
        <5> QED
          BY <1>1, <2>2, <5>1, <5>2 DEF EdnsColumns, RowsInv, Whole, DecodedWhole
      <4>3. ~Walks(FramesOf(p)[row.date]) =>
              (row.edns # NULL <=> HasOpt(FramesOf(p)[row.date]))
        BY <1>1, <2>2, <4>2 DEF RowsInv, Whole, DecodedWhole
      <4>4. ~row.sectoral => row.registered_domain = <<row.qname>>
        BY <2>1 DEF NewRow, PacketRow, RegDomain
      <4> QED
        BY <4>1, <4>2, <4>3, <4>4 DEF OneFrame
    <3>2. \A i \in 1..Len(Inserted(p)') : OneFrame(FramesOf(p), Inserted(p)'[i])
      BY <2>2, <2>3, <3>1 DEF RowsInv, Whole
    <3> QED
      BY <1>1, <1>2, <3>2 DEF Whole
  <2>6. Tallied(p)'
    BY <1>1, <1>2, <2>2, <2>3
    DEF RowsInv, Tallied, Storing, Reading, MaxReached, BatchFull, AtEnd
  <2>7. Covered(p)'
    <3>1. ASSUME NEW m \in 1..input[p].packetnum, ~Walks(FramesOf(p)[m])
          PROVE  HasRow(Inserted(p)', m) <=> Returned(FramesOf(p)[m])
      <4>1. HasRow(Inserted(p)', m) <=> HasRow(Inserted(p), m) \/ m = input[p].packetnum
        BY <2>2, <2>3 DEF HasRow
      <4> QED
        BY <1>1, <1>5, <3>1, <4>1 DEF RowsInv, Covered, Storing, Reading
    <3> QED
      BY <1>1, <1>2, <3>1 DEF RowsInv, Covered
  <2> QED
    BY <1>3, <2>4, <2>5, <2>6, <2>7 DEF RowsInv
<1> QED
  BY <1>4, <1>5

LEMMA CommittedRows ==
  ASSUME TypeOK, CursorInFile, NEW p \in Procs, RunInv(p), RowsInv(p),
         CommitBatch(p) \/ FinalCommit(p) \/ CommitLost(p)
  PROVE  RowsInv(p)'
<1>1. /\ Commit(p) /\ UNCHANGED <<given, input, decoded, packetnum>>
      /\ \/ pc[p] = "commit" /\ pc'[p] \in {"call", "failed"}
         \/ pc[p] = "finalCommit" /\ pc'[p] \in {"done", "failed"}
  BY DEF CommitBatch, FinalCommit, CommitLost, Goto, local, TypeOK
<1>2. /\ packets'[p] = Inserted(p) /\ Inserted(p)' = Inserted(p)
      /\ files'[p] = IF pending[p].file = NULL THEN files[p] ELSE pending[p].file
  BY <1>1, CommitRows
<1>3. FramesOf(p)' = FramesOf(p) /\ opts'[p] = opts[p] /\ ~opts[p].dry_run
  BY <1>1, GivenStays DEF RunInv, Owned
<1>4. Chained(p)'
  BY <1>1, <1>2, <1>3 DEF RowsInv, Chained
<1>5. Whole(p)'
  BY <1>1, <1>2, <1>3 DEF RowsInv, Whole
<1>6. Tallied(p)'
  BY <1>1, <1>2, <1>3 DEF RowsInv, Tallied, Storing, Reading
<1>7. Covered(p)'
  BY <1>1, <1>2, <1>3 DEF RowsInv, Covered, Storing, Reading
<1>8. CASE pc[p] = "commit"
  <2>1. ~IsSealed(p)'
    BY <1>2, <1>8 DEF IsSealed, RunInv, Counted, Store!IsSealed
  <2>2. /\ opts[p].commit_every # 0
        /\ Len(Inserted(p)) % opts[p].commit_every = 0
        /\ Len(Inserted(p)) > 0
        /\ opts[p].maxpackets = 0 \/ Len(Inserted(p)) < opts[p].maxpackets
    BY <1>3, <1>8 DEF RowsInv, Tallied, Storing, Reading
  <2>3. Inserted(p) # <<>>
    BY <2>2
  <2> QED
    BY <1>2, <1>3, <1>4, <1>5, <1>6, <1>7, <2>1, <2>2, <2>3 DEF RowsInv, BatchesOf, CompleteOf
<1>9. CASE pc[p] = "finalCommit"
  <2>1. files'[p] = SealedRow(p)
    <3>1. pending[p].file = SealedRow(p)
      BY <1>3, <1>9 DEF RowsInv, Tallied
    <3>2. SealedRow(p) # NULL
      BY FileRowType, NullAssumption
    <3> QED
      BY <1>2, <3>1, <3>2
  <2> DEFINE f == SealedRow(p)
             most == opts[p].maxpackets
  <2>2. /\ f.storedpackets = Len(Inserted(p)) /\ f.storedpackets \in Nat
        /\ f.totalpackets = input[p].packetnum
        /\ f.stoppedat = IF most = 0 THEN NULL ELSE most
        /\ f.firstpacket = input[p].first
        /\ f.lastpacket = IF most = 0 THEN input[p].last ELSE NULL
    <3>1. input[p].dnspacketnum = Len(Inserted(p)) /\ Len(Inserted(p)) \in Nat
      BY <1>3, <1>9, InsertedType DEF RunInv, Counted
    <3> QED
      BY <3>1 DEF SealedRow, NewFileRow
  <2>3. f # NULL /\ f.storedpackets # NULL
    BY <2>2, FileRowType, NullAssumption, LoaderAssumption
  <2>4. IsSealed(p)'
    BY <2>1, <2>3 DEF IsSealed, Store!IsSealed
  <2>5. /\ packetnum[p] = Len(Inserted(p)) /\ most \in Nat /\ packetnum[p] \in Nat
        /\ \/ AtEnd(p) /\ (most = 0 \/ packetnum[p] < most)
           \/ most # 0 /\ packetnum[p] = most
    BY <1>3, <1>9, LoaderAssumption DEF RowsInv, Tallied, Storing, TypeOK, OptionType
  <2>6. /\ input[p].packetnum <= Len(FramesOf(p)) /\ input[p].packetnum \in Nat
        /\ Len(FramesOf(p)) \in Nat
    BY FramesType DEF CursorInFile, TypeOK, InputType
  <2>7. /\ f.totalpackets <= Len(FramesOf(p))
        /\ f.totalpackets < Len(FramesOf(p)) => f.storedpackets = f.stoppedat
        /\ f.stoppedat # NULL => f.storedpackets <= f.stoppedat
    BY <2>2, <2>5, <2>6 DEF AtEnd
  <2>8. /\ f.firstpacket = IF f.totalpackets = 0 THEN 0 ELSE 1
        /\ f.lastpacket = IF f.stoppedat = NULL THEN f.totalpackets ELSE NULL
    BY <2>2, <2>5, LoaderAssumption DEF RowsInv, Covered
  <2>9. \A n \in 1..f.totalpackets : ~Walks(FramesOf(p)[n]) =>
          (HasRow(Inserted(p), n) <=> Returned(FramesOf(p)[n]))
    BY <1>3, <1>9, <2>2 DEF RowsInv, Covered, Storing
  <2>10. CompleteOf(p)'
    <3> HIDE DEF f, most
    <3>1. files'[p] = f
      BY <2>1 DEF f
    <3> QED
      BY <1>2, <1>3, <3>1, <2>2, <2>7, <2>8, <2>9 DEF CompleteOf
  <2>11. BatchesOf(p)'
    BY <2>4 DEF BatchesOf
  <2> QED
    BY <1>4, <1>5, <1>6, <1>7, <2>10, <2>11 DEF RowsInv
<1> QED
  BY <1>1, <1>8, <1>9

LEMMA FileEndRows ==
  ASSUME TypeOK, NEW p \in Procs, RowsInv(p), FileEnd(p)
  PROVE  RowsInv(p)'
<1>1. /\ UNCHANGED <<given, input, decoded, packetnum, files, packets>> /\ pc[p] = "fileEnd"
      /\ \/ opts[p].dry_run /\ pc'[p] = "done" /\ pending'[p] = pending[p]
         \/ /\ ~opts[p].dry_run /\ pc'[p] = "finalCommit"
            /\ pending'[p].file = SealedRow(p) /\ pending'[p].rows = pending[p].rows
  BY DEF FileEnd, Goto, local, tables, TypeOK
<1>2. /\ FramesOf(p)' = FramesOf(p) /\ opts'[p] = opts[p] /\ Inserted(p)' = Inserted(p)
      /\ (AtEnd(p)' <=> AtEnd(p)) /\ SealedRow(p)' = SealedRow(p)
  BY <1>1, GivenStays DEF given, Inserted, AtEnd, SealedRow, NewFileRow
<1>3. Chained(p)'
  BY <1>1, <1>2 DEF RowsInv, Chained
<1>4. Whole(p)'
  BY <1>1, <1>2 DEF RowsInv, Whole
<1>5. Tallied(p)'
  BY <1>1, <1>2 DEF RowsInv, Tallied, Storing, Reading
<1>6. BatchesOf(p)' /\ CompleteOf(p)'
  BY <1>1, StoredStays DEF RowsInv
<1>7. Covered(p)'
  BY <1>1, <1>2 DEF RowsInv, Covered, Storing, Reading
<1> QED
  BY <1>3, <1>4, <1>5, <1>6, <1>7 DEF RowsInv

LEMMA RollbackRows ==
  ASSUME TypeOK, NEW p \in Procs, RowsInv(p), Die(p) \/ Fail(p)
  PROVE  RowsInv(p)'
<1>1. /\ UNCHANGED <<given, input, decoded, packetnum, files, packets>>
      /\ pc'[p] = "failed" /\ pending'[p].rows = <<>>
  BY DEF Die, Fail, Rollback, Idle, Goto, local, tables, TypeOK
<1>2. FramesOf(p)' = FramesOf(p) /\ opts'[p] = opts[p]
  BY <1>1, GivenStays
<1>3. Inserted(p)' = packets[p]
  <2>1. Inserted(p)' = packets[p] \o <<>>
    BY <1>1, Zenon DEF Inserted
  <2> QED
    BY <2>1, InsertedType, ConcatEmpty
<1>4. \A i \in 1..Len(packets[p]) :
        i \in 1..Len(Inserted(p)) /\ Inserted(p)[i] = packets[p][i]
  <2>1. 1..Len(packets[p]) \subseteq 1..Len(Inserted(p))
    BY InsertedType, IntervalWidens, Zenon
  <2> QED
    BY <2>1, InsertedType, Zenon
<1>5. Chained(p)'
  <2>1. ASSUME NEW i \in 1..Len(packets[p])
        PROVE  ChainedAt(packets[p], i)
    <3>1. i # 1 => i - 1 \in 1..Len(packets[p])
      BY InsertedType
    <3>2. ChainedAt(Inserted(p), i)
      BY <1>4 DEF RowsInv, Chained
    <3> QED
      BY <1>4, <3>1, <3>2 DEF ChainedAt
  <2> QED
    BY <1>1, <1>3, <2>1 DEF Chained
<1>6. Whole(p)'
  BY <1>1, <1>2, <1>3, <1>4 DEF RowsInv, Whole
<1>7. Tallied(p)'
  BY <1>1 DEF Tallied, Storing, Reading
<1>8. BatchesOf(p)' /\ CompleteOf(p)'
  BY <1>1, StoredStays DEF RowsInv
<1>9. Covered(p)'
  BY <1>1 DEF RowsInv, Covered, Storing, Reading
<1> QED
  BY <1>5, <1>6, <1>7, <1>8, <1>9 DEF RowsInv

---------------------------------------------------------------------------
(* All executions together.                                                *)

AllRows == \A p \in Procs : RowsInv(p)

LEMMA RowsInit == Init => AllRows
<1> SUFFICES ASSUME Init, NEW p \in Procs PROVE RowsInv(p)
  BY DEF AllRows
<1>1. /\ pc[p] = "open" /\ pending[p] = Idle /\ files[p] = NULL /\ packets[p] = <<>>
      /\ input[p] = NewInput /\ packetnum[p] = 0 /\ pending[p].rows = <<>>
  BY DEF Init, Idle
<1>2. Inserted(p) = <<>> /\ ~IsSealed(p)
  BY <1>1 DEF Inserted, IsSealed, Store!IsSealed
<1>3. opts[p].maxpackets = 0 \/ 0 < opts[p].maxpackets
  BY LoaderAssumption DEF Init, OptionType
<1> QED
  BY <1>1, <1>2, <1>3
  DEF RowsInv, Chained, LastDate, Whole, Tallied, Storing, Reading, BatchesOf, Covered, CompleteOf,
      NewInput

LEMMA RowsStep == IInv /\ AllRows /\ [Next]_vars => AllRows'
<1> SUFFICES ASSUME IInv, AllRows, [Next]_vars PROVE AllRows'
  OBVIOUS
<1> USE DEF IInv, AllRows
<1>1. ASSUME NEW p \in Procs, Step(p) \/ CommitLost(p) \/ Fail(p)
      PROVE  AllRows'
  <2>1. UNCHANGED given
    BY <1>1 DEF Step, Open, InsertFile, DuplicateFile, Call, EndOfFile, Grab, Die, Hang,
                InsertPacket, CommitBatch, FileEnd, FinalCommit, CommitLost, Fail
  <2>2. RowsInv(p)'
    BY <1>1, QuietRows, CallRows, InsertFileRows, GrabRows, InsertPacketRows, CommittedRows,
       FileEndRows, RollbackRows DEF Step
  <2>3. ASSUME NEW q \in Procs, q # p
        PROVE  RowsInv(q)'
    BY <1>1, <2>1, <2>3, OtherRows, SameRowsInv
  <2> QED
    BY <2>2, <2>3
<1>2. CASE UNCHANGED vars
  <2>1. UNCHANGED given /\ \A q \in Procs : SameRows(q)
    BY <1>2 DEF vars, local, tables, SameRows, SameRun
  <2> QED
    BY <2>1, SameRowsInv
<1> QED
  BY <1>1, <1>2 DEF Next

(* The rows stay what they are, whatever the captures, the command lines   *)
(* and the faults.                                                         *)
THEOREM RowsInvariance == Spec => [](IInv /\ AllRows)
  BY Invariance, RowsInit, RowsStep, PTL DEF Spec

LEMMA RowsOf ==
  ASSUME IInv, NEW p \in Procs
  PROVE  /\ DOMAIN Inserted(p) = 1..Len(Inserted(p))
         /\ DOMAIN packets[p] = 1..Len(packets[p])
  BY InsertedType DEF IInv

(* Ranks of a file increase, each the number of the frame stored before.   *)
THEOREM RanksAreChained == Spec => []RanksChain
<1>1. IInv /\ AllRows => RanksChain
  BY RowsOf DEF AllRows, RowsInv, Chained, ChainedAt, RanksChain
<1> QED
  BY <1>1, RowsInvariance, PTL

(* No column of a row is left over from an earlier frame, dropped or not.  *)
THEOREM RowsAreOfOneFrame == Spec => []OneFramePerRow
<1>1. IInv /\ AllRows => OneFramePerRow
  BY RowsOf DEF AllRows, RowsInv, Whole, OneFrame, OneFramePerRow
<1> QED
  BY <1>1, RowsInvariance, PTL

(* A load that does not come to its end leaves whole batches.              *)
THEOREM OnlyWholeBatches == Spec => []BatchBoundary
<1>1. IInv /\ AllRows => BatchBoundary
  BY DEF AllRows, RowsInv, BatchesOf, BatchBoundary
<1> QED
  BY <1>1, RowsInvariance, PTL

(* The totals in Pcap_files are those of the rows that are stored, and the *)
(* rows all those the file has, up to the packet the load stopped at.      *)
THEOREM SealedFilesComplete == Spec => []SealedComplete
<1>1. IInv /\ AllRows => SealedComplete
  <2> SUFFICES ASSUME IInv, AllRows, NEW p \in Procs, IsSealed(p)
               PROVE  LET f == files[p]
                          dates == {packets[p][i].date : i \in DOMAIN packets[p]}
                      IN  /\ f.storedpackets = Len(packets[p])
                          /\ f.totalpackets <= Len(FramesOf(p))
                          /\ \A n \in 1..f.totalpackets :
                               ~Walks(FramesOf(p)[n]) =>
                                 (n \in dates <=> Returned(FramesOf(p)[n]))
                          /\ f.totalpackets < Len(FramesOf(p)) => f.storedpackets = f.stoppedat
                          /\ f.stoppedat # NULL => f.storedpackets <= f.stoppedat
                          /\ f.firstpacket = IF f.totalpackets = 0 THEN 0 ELSE 1
                          /\ f.lastpacket = IF f.stoppedat = NULL THEN f.totalpackets ELSE NULL
    BY DEF SealedComplete
  <2>1. \A n : n \in {packets[p][i].date : i \in DOMAIN packets[p]} <=> HasRow(packets[p], n)
    BY RowsOf DEF HasRow
  <2> QED
    BY <2>1 DEF AllRows, RowsInv, CompleteOf
<1> QED
  BY <1>1, RowsInvariance, PTL
=============================================================================
