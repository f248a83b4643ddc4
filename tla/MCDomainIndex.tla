---------------------------- MODULE MCDomainIndex ---------------------------
(***************************************************************************)
(* DomainIndex over a dozen names, in both cases, with dots at their end,  *)
(* in front and doubled, at and beyond the greatest length.                *)
(***************************************************************************)
EXTENDS ReportNames

Words == {"", "com", "example", "fr", "net", "www"}

(* No word but the empty one begins another, so strcmp orders texts as the *)
(* sequences of their labels: the empty label first, as the dot is lower   *)
(* than letters, then the capitals.                                        *)
Rank == [com |-> 1, example |-> 2, fr |-> 3, net |-> 4, www |-> 5]
LabelRank(l) == IF l = Nothing THEN 0 ELSE Rank[l.word] + (IF l.upper THEN 0 ELSE 5)

StrcmpBefore(t, u) ==
  \E n \in 0..Len(t) :
    /\ n <= Len(u) /\ \A i \in 1..n : t[i] = u[i]
    /\ n < Len(u)
    /\ n = Len(t) \/ LabelRank(t[n + 1]) < LabelRank(u[n + 1])

Typed(upper, words) == [n \in DOMAIN words |-> [word |-> words[n], upper |-> upper /\ words[n] # ""]]

(* The words of the texts: names, and the odd ones.                        *)
Spelled == {<<"example", "net">>, <<"com", "fr">>,
            <<"example", "com", "fr">>, <<"www", "example", "com", "fr">>, <<"fr">>,
            <<"", "fr">>, <<"example", "", "fr">>,
            <<"example", "net", "">>, <<"com", "fr", "", "">>,
            <<"", "", "">>,
            <<"www", "example", "com", "fr", "">>, <<"www", "example", "com", "fr", "", "">>,
            <<"example", "example", "net">>}

Capitals == {<<"example", "net">>, <<"com", "fr">>, <<"fr">>}

Mixed == <<[word |-> "www", upper |-> TRUE], [word |-> "fr", upper |-> FALSE]>>

SomeTexts == {Typed(FALSE, w) : w \in Spelled} \cup {Typed(TRUE, w) : w \in Capitals}
               \cup {Mixed, Lower(Mixed)}

WordLength == [com |-> 3, example |-> 7, fr |-> 2, net |-> 3, www |-> 3]
SizeOf(t) == Len(t) - 1
               + MapThenSumSet(LAMBDA n : IF t[n] = Nothing THEN 0 ELSE WordLength[t[n].word], DOMAIN t)
=============================================================================
