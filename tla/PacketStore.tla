---------------------------- MODULE PacketStore ----------------------------
(***************************************************************************)
(* What the database promises to its readers (the reports): the committed  *)
(* rows of Pcap_files and DNS_Packets, and how they may grow.  create.sql  *)
(* declares them; which rows come together is packets2postgresql's doing.  *)
(*                                                                         *)
(* Both tables are indexed by the execution of packets2postgresql that     *)
(* inserts the rows: it inserts at most one row into Pcap_files, and its   *)
(* SERIAL id stands for the execution in DNS_Packets.file.                 *)
(***************************************************************************)
EXTENDS Naturals, Sequences, SequencesExt

CONSTANTS
  Runs,   (* executions of packets2postgresql                              *)
  NULL    (* no row, or an SQL NULL                                        *)

VARIABLES
  files,    (* the row of Pcap_files of each execution, or NULL            *)
  packets   (* its rows of DNS_Packets, in the order they were inserted    *)

storeVars == <<files, packets>>

(* The UPDATE behind the last packet fills in the totals.                  *)
IsSealed(file) == file # NULL /\ file.storedpackets # NULL

Init == /\ files = [r \in Runs |-> NULL]
        /\ packets = [r \in Runs |-> <<>>]

(* A commit of one execution: its file row appears or is completed, packet *)
(* rows are added behind the ones already there, all of them are there     *)
(* when the file is sealed, and nothing follows the seal.                  *)
Publish(r) ==
  /\ ~IsSealed(files[r])
  /\ files' = [files EXCEPT ![r] = files'[r]]
  /\ packets' = [packets EXCEPT ![r] = packets'[r]]
  /\ files'[r] # NULL
  /\ files[r] # NULL => files'[r].filename = files[r].filename
  /\ \A q \in Runs \ {r} :
       files[q] # NULL => files[q].filename # files'[r].filename
  /\ IsPrefix(packets[r], packets'[r])
  /\ IsSealed(files'[r]) => files'[r].storedpackets = Len(packets'[r])

Next == \E r \in Runs : Publish(r)

Spec == Init /\ [][Next]_storeVars
=============================================================================
