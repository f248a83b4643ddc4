------------------------------ MODULE MCLoader ------------------------------
(***************************************************************************)
(* Small instances of Loader: the kinds of frames, the captures made of    *)
(* them and the command lines.                                             *)
(***************************************************************************)
EXTENDS Loader, SequencesExt

(* A plain query over IPv4, and frames that differ from it in what decides *)
(* their fate.                                                             *)
Query == [net |-> "ipv4", version |-> "ipv4", ext |-> FALSE, udp |-> TRUE,
          dns |-> TRUE, question |-> "ok", query |-> TRUE, bare |-> TRUE,
          additional |-> "none", sectoral |-> FALSE]

Arp        == [Query EXCEPT !.net = "other"]
Tcp        == [Query EXCEPT !.udp = FALSE]
Ntp        == [Query EXCEPT !.dns = FALSE]
BadName    == [Query EXCEPT !.question = "bad"]
NoClass    == [Query EXCEPT !.question = "noClass", !.sectoral = TRUE]
Response   == [Query EXCEPT !.query = FALSE, !.additional = "opt"]
Update     == [Query EXCEPT !.bare = FALSE, !.additional = "opt"]
Edns       == [Query EXCEPT !.additional = "opt"]
Tsig       == [Query EXCEPT !.additional = "named"]
Additional == [Query EXCEPT !.additional = "other"]
CutEarly   == [Query EXCEPT !.additional = "cutEarly"]
CutLate    == [Query EXCEPT !.additional = "cutLate"]
Sectoral   == [Query EXCEPT !.sectoral = TRUE]
V6         == [Query EXCEPT !.net = "ipv6", !.version = "ipv6"]
V6Edns     == [V6 EXCEPT !.additional = "opt"]
V6Ext      == [V6 EXCEPT !.ext = TRUE]
Nibble     == [Query EXCEPT !.version = "ipv6"]

AllFrames == {Query, Arp, Tcp, Ntp, BadName, NoClass, Response, Update, Edns, Tsig,
              Additional, CutEarly, CutLate, Sectoral, V6, V6Edns, V6Ext, Nibble}

(* Frames that leave different things behind in struct dns_packet.         *)
TellingFrames == {Query, Arp, Edns, NoClass, CutLate, Sectoral, V6Ext}

Of(link, frames) == [link |-> link, frames |-> frames]

(* Every pair of frames on an Ethernet, every triple of the telling ones,  *)
(* some longer captures, and the other link types.                         *)
SingleCaptures ==
  {Of("EN10MB", s) : s \in BoundedSeq(AllFrames, 2) \cup BoundedSeq(TellingFrames, 3)}
    \cup {Of("RAW", s) : s \in BoundedSeq({Nibble, V6, Arp}, 2)}
    \cup {Of("LOOP", s) : s \in {<<V6, Nibble>>, <<V6, V6Edns, Query, Edns>>,
                                 <<Query, Arp, Query, Query, Arp>>}}
    \cup {Of("unsupported", s) : s \in {<<>>, <<Query>>}}

Option(max, every, dry) ==
  [maxpackets |-> max, commit_every |-> every, dry_run |-> dry]

SingleOptions == {Option(0, 0, FALSE), Option(0, 1, FALSE), Option(0, 2, FALSE),
                  Option(2, 0, FALSE), Option(2, 1, FALSE), Option(1, 1, TRUE)}

(* Executions that compete: a capture with a frame that is not stored, and *)
(* one that ends the process behind a packet; in one transaction, in       *)
(* batches, and with -m.                                                   *)
RaceCaptures == {Of("EN10MB", <<Query, Arp, Edns>>),
                 Of("EN10MB", <<Query, Nibble>>)}

RaceOptions == {Option(0, 0, FALSE), Option(0, 1, FALSE), Option(2, 1, FALSE)}

(* One captured query after a frame of another protocol, and one whose     *)
(* QNAME is com.fr after another query.                                    *)
RankCaptures == {Of("EN10MB", <<Query, Arp, Query, Query>>),
                 Of("EN10MB", <<Query, Query>>)}
SectoralCaptures == {Of("EN10MB", <<Query, Sectoral>>), Of("EN10MB", <<Query, Edns>>)}
PlainOptions == {Option(0, 0, FALSE), Option(0, 1, FALSE), Option(2, 0, FALSE)}

AnyFault == {"fatal", "commitLost"}
NoFault  == {}
=============================================================================
