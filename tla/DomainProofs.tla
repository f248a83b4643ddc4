---------------------------- MODULE DomainProofs ----------------------------
(***************************************************************************)
(* The index of DomainIndex is ordered and complete, whatever names are    *)
(* inserted, and so are the searches through it.  The order of the entries *)
(* is the inductive invariant: uniqueness and the searches follow from it. *)
(***************************************************************************)
EXTENDS ReportNames, SequenceTheorems, NumberFacts

Name(d) == d.lcase_name

RefusedIsKnown ==
  answer = "duplicate" =>
    \E i \in DOMAIN heap : Lower(heap[i].orig_name) = Lower(Strip(asked))

IInv == TypeOK /\ IndexOrdered /\ RefusedIsKnown

(* The canonical name of a domain is a text, and the lower-case form of    *)
(* the name that is kept.                                                  *)
LEMMA DomainNames ==
  ASSUME NEW d \in Domains
  PROVE  /\ d.lcase_name \in Texts
         /\ d.lcase_name = Lower(d.orig_name)
<1>1. PICK t \in Readable : d = TextToDomain(t)
  BY DEF Domains
<1>2. t \in Texts /\ Strip(t) # <<>>
  BY DEF Readable, Valid
<1>3. Strip(t) \in Texts /\ Lower(Strip(t)) \in Texts
  BY <1>2, TextsAssumption
<1> QED
  BY <1>1, <1>3 DEF TextToDomain

(* Cmp decides the order of the canonical names.                           *)
LEMMA CmpOrder ==
  ASSUME NEW d, NEW e, Name(d) \in Texts, Name(e) \in Texts
  PROVE  /\ Cmp(d, e) = 0 <=> Name(d) = Name(e)
         /\ Cmp(d, e) = -1 <=> Before(Name(d), Name(e))
         /\ Cmp(d, e) = 1 <=> Before(Name(e), Name(d))
         /\ Cmp(d, e) \in {-1, 0, 1}
<1>1. /\ ~Before(Name(d), Name(d))
      /\ Name(d) = Name(e) \/ Before(Name(d), Name(e)) \/ Before(Name(e), Name(d))
      /\ ~(Before(Name(d), Name(e)) /\ Before(Name(e), Name(d)))
  BY OrderAssumption
<1>2. CASE Name(d) = Name(e)
  <2>1. Cmp(d, e) = 0
    BY <1>2 DEF Cmp, AreEqual, Name
  <2> QED
    BY <1>1, <1>2, <2>1
<1>3. CASE Name(d) # Name(e) /\ Before(Name(d), Name(e))
  <2>1. Cmp(d, e) = -1
    BY <1>3 DEF Cmp, AreEqual, IsLower, Name
  <2> QED
    BY <1>1, <1>3, <2>1
<1>4. CASE Name(d) # Name(e) /\ ~Before(Name(d), Name(e))
  <2>1. Cmp(d, e) = 1
    BY <1>4 DEF Cmp, AreEqual, IsLower, Name
  <2> QED
    BY <1>1, <1>4, <2>1
<1> QED
  BY <1>2, <1>3, <1>4

---------------------------------------------------------------------------
(* The invariant.                                                          *)

LEMMA InitInv == Init => IInv
<1> SUFFICES ASSUME Init PROVE IInv
  OBVIOUS
<1>1. heap = <<>> /\ index = <<>> /\ asked \in Texts /\ answer = "none"
  BY DEF Init
<1>2. DOMAIN heap = {} /\ DOMAIN index = {} /\ Len(heap) = 0 /\ Len(index) = 0
  BY <1>1
<1>3. TypeOK
  BY <1>1, <1>2, MaxRowsAssumption DEF TypeOK, Answers
<1>4. IndexOrdered
  BY <1>2 DEF IndexOrdered
<1> QED
  BY <1>1, <1>3, <1>4 DEF IInv, RefusedIsKnown

(* A sequence with an element put in at s.                                 *)
LEMMA Inserted ==
  ASSUME NEW S, NEW q \in Seq(S), NEW s \in 1..Len(q) + 1, NEW e \in S
  PROVE  /\ InsertAt(q, s, e) \in Seq(S)
         /\ Len(InsertAt(q, s, e)) = Len(q) + 1
         /\ InsertAt(q, s, e)[s] = e
         /\ \A i \in 1..Len(q) + 1 : i < s => InsertAt(q, s, e)[i] = q[i]
         /\ \A i \in 1..Len(q) + 1 : s < i => InsertAt(q, s, e)[i] = q[i - 1]
<1> DEFINE a == SubSeq(q, 1, s - 1)
           b == SubSeq(q, s, Len(q))
<1>0. s \in Int /\ Len(q) \in Nat
  OBVIOUS
<1>1. a \in Seq(S) /\ Len(a) = s - 1 /\ \A i \in 1..s - 1 : a[i] = q[i]
  BY <1>0, SubSeqProperties
<1>2. b \in Seq(S) /\ Len(b) = Len(q) + 1 - s
      /\ \A i \in 1..Len(q) + 1 - s : b[i] = q[s + i - 1]
  BY <1>0, SubSeqProperties
<1>3. <<e>> \in Seq(S) /\ Len(<<e>>) = 1 /\ <<e>>[1] = e
  OBVIOUS
<1> HIDE DEF a, b
<1> DEFINE c == a \o <<e>>
<1>4. /\ c \in Seq(S) /\ Len(c) = s
      /\ \A i \in 1..s : c[i] = IF i < s THEN a[i] ELSE e
  BY <1>0, <1>1, <1>3, ConcatProperties
<1> HIDE DEF c
<1>5. /\ c \o b \in Seq(S) /\ Len(c \o b) = Len(q) + 1
      /\ \A i \in 1..Len(q) + 1 : (c \o b)[i] = IF i <= s THEN c[i] ELSE b[i - s]
  <2>1. /\ c \o b \in Seq(S) /\ Len(c \o b) = Len(c) + Len(b)
        /\ \A i \in 1..Len(c) + Len(b) :
             (c \o b)[i] = IF i <= Len(c) THEN c[i] ELSE b[i - Len(c)]
    BY <1>2, <1>4, ConcatProperties
  <2>2. Len(c) = s /\ Len(c) + Len(b) = Len(q) + 1
    BY <1>0, <1>2, <1>4
  <2> QED
    BY <2>1, <2>2
<1>6. \A i \in 1..Len(q) + 1 :
        (c \o b)[i] = IF i < s THEN q[i] ELSE IF i = s THEN e ELSE q[i - 1]
  <2> TAKE i \in 1..Len(q) + 1
  <2>1. CASE i <= s
    BY <2>1, <1>0, <1>1, <1>4, <1>5
  <2>2. CASE i > s
    <3>1. i - s \in 1..Len(q) + 1 - s /\ s + (i - s) - 1 = i - 1 /\ ~(i <= s)
      BY <2>2, <1>0
    <3>2. (c \o b)[i] = b[i - s]
      BY <3>1, <1>5
    <3>3. b[i - s] = q[s + (i - s) - 1]
      BY <3>1, <1>2
    <3>4. (c \o b)[i] = q[i - 1]
      BY <3>1, <3>2, <3>3
    <3> QED
      BY <2>2, <3>4, <1>0
  <2>3. i <= s \/ i > s
    BY <1>0
  <2> QED
    BY <2>1, <2>2, <2>3
<1>7. InsertAt(q, s, e) = c \o b
  BY DEF a, b, c, InsertAt
<1>8. s \in 1..Len(q) + 1
  OBVIOUS
<1> QED
  BY <1>0, <1>5, <1>6, <1>7, <1>8

(* The slot of a new name: the entries in front of it are before the name, *)
(* those from it on behind the name.                                       *)
LEMMA SlotOrder ==
  ASSUME TypeOK, IndexOrdered, NEW d \in Domains, NEW s \in 1..Len(index) + 1,
         IsSlot(s, d), ~SlotHolds(s, d), NEW r \in DOMAIN index
  PROVE  IF r < s THEN Before(Name(Entry(r)), Name(d)) ELSE Before(Name(d), Name(Entry(r)))
<1>1. \A i \in DOMAIN index : Entry(i) \in Domains /\ Name(Entry(i)) \in Texts
  BY DEF TypeOK, Entry, Name
<1>2. Name(d) \in Texts
  BY DomainNames DEF Name
<1>3. DOMAIN index = 1..Len(index) /\ Len(index) \in Nat
  BY DEF TypeOK
<1>4. CASE r < s
  <2>1. Cmp(Entry(r), d) = -1
    BY <1>4 DEF IsSlot
  <2> QED
    BY <2>1, <1>1, <1>2, <1>4, CmpOrder
<1>5. CASE ~(r < s)
  <2>1. s \in DOMAIN index /\ ~(s < s)
    BY <1>3, <1>5
  <2>2. Cmp(Entry(s), d) # -1 /\ Cmp(Entry(s), d) # 0
    BY <2>1 DEF IsSlot, SlotHolds
  <2>3. Before(Name(d), Name(Entry(s)))
    BY <2>1, <2>2, <1>1, <1>2, CmpOrder
  <2>4. s = r \/ s < r
    BY <1>3, <1>5
  <2>5. s < r => Before(Name(Entry(s)), Name(Entry(r)))
    BY <2>1 DEF IndexOrdered, Name
  <2> QED
    BY <2>1, <2>3, <2>4, <2>5, <1>1, <1>2, <1>5, OrderAssumption
<1> QED
  BY <1>4, <1>5

(* An insert keeps the invariant.                                          *)
LEMMA StoreStep ==
  ASSUME IInv, NEW text \in Texts, Store(text)
  PROVE  IInv'
<1> DEFINE d == TextToDomain(text)
           n == Len(heap)
<1>1. /\ n \in Nat /\ n < MaxRows /\ Len(index) = n
      /\ DOMAIN heap = 1..n /\ DOMAIN index = 1..n
      /\ heap \in Seq(Domains) /\ index \in Seq(1..n)
      /\ \A i \in 1..n : heap[i] \in Domains /\ Name(heap[i]) \in Texts /\ index[i] \in 1..n
  <2>1. /\ heap \in Seq(Domains) /\ index \in Seq(DOMAIN heap) /\ Len(index) = Len(heap)
        /\ \A i \in DOMAIN heap : heap[i].lcase_name \in Texts
    BY DEF IInv, TypeOK
  <2>2. Len(heap) < MaxRows
    BY DEF Store
  <2>3. n \in Nat /\ DOMAIN heap = 1..n /\ DOMAIN index = 1..n
    BY <2>1
  <2>4. index \in Seq(1..n)
    BY <2>1, <2>3
  <2>5. \A i \in 1..n : heap[i] \in Domains /\ index[i] \in 1..n
    BY <2>1, <2>3, <2>4
  <2> QED
    BY <2>1, <2>2, <2>3, <2>4, <2>5 DEF Name
<1>2. d \in Domains /\ Name(d) \in Texts
  BY DomainNames DEF Store, Domains, Name
<1>3. PICK s \in 1..n + 1 :
        /\ IsSlot(s, d) /\ ~SlotHolds(s, d)
        /\ heap' = Append(heap, d)
        /\ index' = InsertAt(index, s, n + 1)
  BY <1>1 DEF Store
<1>4. asked' = text /\ answer' = "stored"
  BY DEF Store, Ask
<1> HIDE DEF d
<1>5. /\ heap' \in Seq(Domains) /\ Len(heap') = n + 1 /\ DOMAIN heap' = 1..n + 1
      /\ heap'[n + 1] = d /\ \A i \in 1..n : heap'[i] = heap[i]
  BY <1>1, <1>2, <1>3
<1>6. /\ index' \in Seq(1..n + 1) /\ Len(index') = n + 1 /\ DOMAIN index' = 1..n + 1
      /\ \A i \in 1..n + 1 :
           index'[i] = IF i < s THEN index[i] ELSE IF i = s THEN n + 1 ELSE index[i - 1]
  <2>1. s \in 1..Len(index) + 1 /\ index \in Seq(1..n + 1) /\ n + 1 \in 1..n + 1
    BY <1>1
  <2>2. /\ index' \in Seq(1..n + 1) /\ Len(index') = Len(index) + 1
        /\ index'[s] = n + 1
        /\ \A i \in 1..Len(index) + 1 : i < s => index'[i] = index[i]
        /\ \A i \in 1..Len(index) + 1 : s < i => index'[i] = index[i - 1]
    <3> DEFINE ids == 1..n + 1
               r   == InsertAt(index, s, n + 1)
    <3>1. index \in Seq(ids) /\ n + 1 \in ids
      BY <2>1
    <3> HIDE DEF ids
    <3>2. /\ r \in Seq(ids) /\ Len(r) = Len(index) + 1
          /\ r[s] = n + 1
          /\ \A i \in 1..Len(index) + 1 : i < s => r[i] = index[i]
          /\ \A i \in 1..Len(index) + 1 : s < i => r[i] = index[i - 1]
      BY <2>1, <3>1, Inserted
    <3> QED
      BY <1>3, <3>2 DEF ids
  <2> QED
    BY <1>1, <2>2
<1>7. TypeOK'
  <2>1. \A i \in 1..n + 1 : heap'[i].lcase_name \in Texts
    BY <1>5, DomainNames
  <2>2. n + 1 <= MaxRows
    BY <1>1, MaxRowsAssumption
  <2> QED
    BY <2>1, <2>2, <1>4, <1>5, <1>6 DEF TypeOK, Answers, Name
<1>8. {index'[r] : r \in DOMAIN index'} = DOMAIN heap'
  <2>1. \A r \in 1..n + 1 : index'[r] \in 1..n + 1
    BY <1>6
  <2>2. ASSUME NEW k \in 1..n + 1
        PROVE  \E r \in 1..n + 1 : index'[r] = k
    <3>1. CASE k = n + 1
      BY <3>1, <1>1, <1>6
    <3>2. CASE k # n + 1
      <4>1. k \in 1..n
        BY <3>2, <1>1
      <4>2. PICK r \in 1..n : index[r] = k
        BY <4>1, <1>1 DEF IInv, IndexOrdered
      <4>3. CASE r < s
        <5>1. r \in 1..n + 1
          BY <4>2, <1>1
        <5>2. index'[r] = index[r]
          BY <4>3, <5>1, <1>6
        <5> QED
          BY <5>1, <5>2, <4>2
      <4>4. CASE ~(r < s)
        <5>1. r + 1 \in 1..n + 1
          BY <1>1
        <5>2. PICK t \in 1..n + 1 : t = r + 1
          BY <5>1
        <5>3. ~(t < s) /\ t # s /\ t - 1 = r
          BY <4>4, <5>2, <1>1
        <5>4. index'[t] = index[t - 1]
          BY <5>3, <1>6
        <5> QED
          BY <5>2, <5>3, <5>4, <4>2
      <4> QED
        BY <4>3, <4>4
    <3> QED
      BY <3>1, <3>2
  <2> QED
    BY <2>1, <2>2, <1>5, <1>6
<1>9. ASSUME NEW i \in 1..n + 1
      PROVE  Entry(i)' = IF i < s THEN Entry(i) ELSE IF i = s THEN d ELSE Entry(i - 1)
  <2>1. CASE i < s
    <3>1. i \in 1..n /\ index'[i] = index[i]
      BY <2>1, <1>1, <1>6
    <3> QED
      BY <2>1, <3>1, <1>1, <1>5 DEF Entry
  <2>2. CASE i = s
    BY <2>2, <1>1, <1>5, <1>6 DEF Entry
  <2>3. CASE i > s
    <3>1. i - 1 \in 1..n /\ index'[i] = index[i - 1] /\ ~(i < s) /\ i # s
      BY <2>3, <1>1, <1>6
    <3> QED
      BY <3>1, <1>1, <1>5 DEF Entry
  <2>4. i < s \/ i = s \/ i > s
    BY <1>1
  <2> QED
    BY <2>1, <2>2, <2>3, <2>4
<1>10. \A r \in 1..n :
         IF r < s THEN Before(Name(Entry(r)), Name(d)) ELSE Before(Name(d), Name(Entry(r)))
  BY <1>1, <1>2, <1>3, SlotOrder DEF IInv
<1>11. \A r, t \in 1..n : r < t => Before(Name(Entry(r)), Name(Entry(t)))
  BY <1>1 DEF IInv, IndexOrdered, Name
<1>12. ASSUME NEW i \in 1..n + 1, NEW j \in 1..n + 1, i < j
       PROVE  Before(Name(Entry(i)'), Name(Entry(j)'))
  <2>1. CASE j < s
    <3>1. i \in 1..n /\ j \in 1..n /\ i < s
      BY <2>1, <1>1, <1>12
    <3> QED
      BY <2>1, <3>1, <1>9, <1>11, <1>12
  <2>2. CASE j = s
    <3>1. i \in 1..n /\ i < s /\ ~(j < s)
      BY <2>2, <1>1, <1>12
    <3>2. Entry(i)' = Entry(i) /\ Entry(j)' = d
      BY <2>2, <3>1, <1>9
    <3> QED
      BY <3>1, <3>2, <1>10
  <2>3. CASE j > s
    <3>1. j - 1 \in 1..n /\ ~(j < s) /\ j # s /\ ~(j - 1 < s)
      BY <2>3, <1>1
    <3>2. Entry(j)' = Entry(j - 1)
      BY <3>1, <1>9
    <3>3. CASE i < s
      <4>1. i \in 1..n /\ i < j - 1
        BY <3>3, <3>1, <1>1
      <4> QED
        BY <4>1, <3>1, <3>2, <3>3, <1>9, <1>11
    <3>4. CASE i = s
      <4>1. Entry(i)' = d
        BY <3>4, <1>1, <1>9
      <4> QED
        BY <4>1, <3>1, <3>2, <1>10
    <3>5. CASE i > s
      <4>1. i - 1 \in 1..n /\ i - 1 < j - 1 /\ ~(i < s) /\ i # s
        BY <3>5, <1>1, <1>12
      <4> QED
        BY <4>1, <3>1, <3>2, <1>9, <1>11
    <3>6. i < s \/ i = s \/ i > s
      BY <1>1
    <3> QED
      BY <3>3, <3>4, <3>5, <3>6
  <2>4. j < s \/ j = s \/ j > s
    BY <1>1
  <2> QED
    BY <2>1, <2>2, <2>3, <2>4
<1>13. IndexOrdered'
  BY <1>6, <1>8, <1>12 DEF IndexOrdered, Name
<1> QED
  BY <1>4, <1>7, <1>13 DEF IInv, RefusedIsKnown

(* A name that is refused is in the table.                                 *)
LEMMA RefuseKnownStep ==
  ASSUME IInv, NEW text \in Texts, RefuseKnown(text)
  PROVE  RefusedIsKnown'
<1> DEFINE d == TextToDomain(text)
<1>1. PICK s \in DOMAIN index : SlotHolds(s, d)
  BY DEF RefuseKnown
<1>2. asked' = text /\ heap' = heap /\ d \in Domains /\ d.orig_name = Strip(text)
  BY DEF RefuseKnown, Ask, Domains, TextToDomain
<1> HIDE DEF d
<1>3. index[s] \in DOMAIN heap /\ Entry(s) \in Domains /\ Entry(s) = heap[index[s]]
  BY DEF IInv, TypeOK, Entry
<1>4. Cmp(Entry(s), d) = 0
  BY <1>1 DEF SlotHolds
<1>5. Name(Entry(s)) = Name(d)
  BY <1>2, <1>3, <1>4, DomainNames, CmpOrder DEF Name
<1>6. Lower(heap[index[s]].orig_name) = Lower(Strip(text))
  BY <1>2, <1>3, <1>5, DomainNames DEF Name
<1> QED
  BY <1>2, <1>3, <1>6 DEF RefusedIsKnown

LEMMA NextInv == IInv /\ [Next]_vars => IInv'
<1> SUFFICES ASSUME IInv, [Next]_vars PROVE IInv'
  OBVIOUS
<1>1. ASSUME NEW text \in Texts, Store(text) PROVE IInv'
  BY <1>1, StoreStep
<1>2. ASSUME UNCHANGED <<heap, index>>, asked' \in Texts, answer' \in Answers
      PROVE  TypeOK' /\ IndexOrdered'
  BY <1>2 DEF IInv, TypeOK, IndexOrdered, Entry
<1>3. ASSUME NEW text \in Texts, RefuseKnown(text) PROVE IInv'
  <2>1. UNCHANGED <<heap, index>> /\ asked' \in Texts /\ answer' \in Answers
    BY <1>3 DEF RefuseKnown, Ask, Answers
  <2> QED
    BY <1>2, <1>3, <2>1, RefuseKnownStep DEF IInv
<1>4. ASSUME NEW text \in Texts, RefuseInvalid(text) PROVE IInv'
  <2>1. UNCHANGED <<heap, index>> /\ asked' \in Texts /\ answer' = "invalid"
    BY <1>4 DEF RefuseInvalid, Ask
  <2> QED
    BY <1>2, <2>1 DEF IInv, RefusedIsKnown, Answers
<1>5. ASSUME NEW text \in Texts, Crash(text) PROVE IInv'
  <2>1. UNCHANGED <<heap, index>> /\ asked' \in Texts /\ answer' = "crashed"
    BY <1>5 DEF Crash, Ask
  <2> QED
    BY <1>2, <2>1 DEF IInv, RefusedIsKnown, Answers
<1>6. CASE UNCHANGED vars
  BY <1>6 DEF vars, IInv, TypeOK, IndexOrdered, Entry, RefusedIsKnown
<1> QED
  BY <1>1, <1>3, <1>4, <1>5, <1>6 DEF Next

LEMMA Invariance == Spec => []IInv
BY InitInv, NextInv, PTL DEF Spec

---------------------------------------------------------------------------
(* What follows from it.                                                   *)

(* Rows are names, and the index has an entry for each of them.            *)
THEOREM TypeCorrect == Spec => []TypeOK
<1>1. IInv => TypeOK
  BY DEF IInv
<1> QED
  BY <1>1, Invariance, PTL

(* ORDER BY over the index of domain-name.sql is the order of the          *)
(* canonical names, and no row is missing from it.                         *)
THEOREM OrderKept == Spec => []IndexOrdered
<1>1. IInv => IndexOrdered
  BY DEF IInv
<1> QED
  BY <1>1, Invariance, PTL

(* The UNIQUE constraint of test-domain-name.sql, on which the comparison  *)
(* functions decide, lets no name in twice, whatever its case, and refuses *)
(* only names that are there.                                              *)
THEOREM NamesUnique == Spec => []NamesOnce
<1>1. IInv => NamesOnce
  <2> SUFFICES ASSUME IInv,
                      NEW i \in DOMAIN heap, NEW j \in DOMAIN heap,
                      Lower(heap[i].orig_name) = Lower(heap[j].orig_name)
               PROVE  i = j
    BY DEF NamesOnce, IInv, RefusedIsKnown
  <2>1. heap[i] \in Domains /\ heap[j] \in Domains
    BY DEF IInv, TypeOK
  <2>2. heap[i].lcase_name = heap[j].lcase_name /\ heap[i].lcase_name \in Texts
    BY <2>1, DomainNames
  <2>3. PICK r \in DOMAIN index, t \in DOMAIN index : index[r] = i /\ index[t] = j
    BY DEF IInv, IndexOrdered
  <2>4. ~Before(heap[i].lcase_name, heap[j].lcase_name)
        /\ ~Before(heap[j].lcase_name, heap[i].lcase_name)
    BY <2>2, OrderAssumption
  <2>5. ~(r < t) /\ ~(t < r)
    BY <2>3, <2>4 DEF IInv, IndexOrdered, Entry
  <2>6. r \in Int /\ t \in Int
    BY <2>3 DEF IInv, TypeOK
  <2> QED
    BY <2>3, <2>5, <2>6
<1> QED
  BY <1>1, Invariance, PTL

(* What the SQL operators other than > say, by the order of the names.     *)
LEMMA HoldsOrder ==
  ASSUME NEW d, NEW key
  PROVE  /\ Holds("<", d, key) <=> Before(Name(d), Name(key))
         /\ Holds("<=", d, key) <=> Before(Name(d), Name(key)) \/ Name(d) = Name(key)
         /\ Holds("=", d, key) <=> Name(d) = Name(key)
         /\ Holds(">=", d, key) <=> Name(d) = Name(key) \/ ~Before(Name(d), Name(key))
BY DEF Holds, DomainLt, DomainGt, AreEqual, IsLower, Name

(* The btree searches of domain-name.sql with the operators other than >   *)
(* miss no row and find none too many.                                     *)
THEOREM SearchesComplete == Spec => []SearchesAgree
<1>1. IInv => SearchesAgree
  <2> SUFFICES ASSUME IInv, NEW op \in Operators \ {">"}, NEW key \in Domains
               PROVE  IndexScan(op, key) = SeqScan(op, key)
    BY DEF SearchesAgree
  <2>1. op \in {"<", "<=", "=", ">="}
    BY DEF Operators
  <2>2. /\ \A s \in DOMAIN index : index[s] \in DOMAIN heap
        /\ \A s \in DOMAIN index : Name(Entry(s)) \in Texts
        /\ Name(key) \in Texts
    BY DomainNames DEF IInv, TypeOK, Entry, Name
  <2>3. ASSUME NEW id \in IndexScan(op, key) PROVE id \in SeqScan(op, key)
    BY <2>2 DEF IndexScan, SeqScan, From, Entry
  <2>4. ASSUME NEW id \in SeqScan(op, key) PROVE id \in IndexScan(op, key)
    <3>1. id \in DOMAIN heap /\ Holds(op, heap[id], key)
      BY DEF SeqScan
    <3>2. PICK t \in DOMAIN index : index[t] = id
      BY <3>1 DEF IInv, IndexOrdered
    <3>3. Holds(op, Entry(t), key)
      BY <3>1, <3>2 DEF Entry
    <3>4. t \in From(op, key)
      <4>1. op \in {"=", ">="} => ~Before(Name(Entry(t)), Name(key))
        BY <2>2, <3>2, <3>3, HoldsOrder, OrderAssumption
      <4>2. op \in {"=", ">="} => Cmp(Entry(t), key) # -1
        BY <2>2, <3>2, <4>1, CmpOrder
      <4> QED
        BY <2>1, <3>2, <4>2 DEF From
    <3>5. ASSUME op \in {"<", "<=", "="}, NEW r \in From(op, key), r < t
          PROVE  Holds(op, Entry(r), key)
      <4>1. r \in DOMAIN index
        BY DEF From
      <4>2. Before(Name(Entry(r)), Name(Entry(t)))
        BY <3>2, <3>5, <4>1 DEF IInv, IndexOrdered, Name
      <4>3. CASE op \in {"<", "<="}
        <5>1. Before(Name(Entry(r)), Name(key))
          BY <2>2, <3>2, <3>3, <4>1, <4>2, <4>3, HoldsOrder, OrderAssumption
        <5> QED
          BY <4>3, <5>1, HoldsOrder
      <4>4. CASE op = "="
        <5>1. Before(Name(Entry(r)), Name(key))
          BY <3>3, <4>2, <4>4, HoldsOrder
        <5>2. Cmp(Entry(r), key) = -1
          BY <2>2, <4>1, <5>1, CmpOrder
        <5>3. Cmp(Entry(r), key) # -1
          BY <4>4 DEF From
        <5> QED
          BY <5>2, <5>3
      <4> QED
        BY <3>5, <4>3, <4>4
    <3> QED
      BY <3>2, <3>3, <3>4, <3>5 DEF IndexScan
  <2> QED
    BY <2>3, <2>4
<1> QED
  BY <1>1, Invariance, PTL

(* What SearchesAgree leaves out: > finds through the index the rows whose *)
(* names are behind the key, and without it also the row equal to the key. *)
GreaterAddsEqual ==
  \A key \in Domains :
    /\ IndexScan(">", key) = {id \in DOMAIN heap : Before(Name(key), Name(heap[id]))}
    /\ SeqScan(">", key) = IndexScan(">", key) \cup SeqScan("=", key)

(* That row, which domainname_gt lets through, is the only difference: the *)
(* index never loses a row that > should return, nor does the table.       *)
THEOREM GreaterDiffersByKey == Spec => []GreaterAddsEqual
<1>1. IInv => GreaterAddsEqual
  <2> SUFFICES ASSUME IInv, NEW key \in Domains
               PROVE  /\ IndexScan(">", key) =
                           {id \in DOMAIN heap : Before(Name(key), Name(heap[id]))}
                      /\ SeqScan(">", key) = IndexScan(">", key) \cup SeqScan("=", key)
    BY DEF GreaterAddsEqual
  <2> DEFINE Behind == {id \in DOMAIN heap : Before(Name(key), Name(heap[id]))}
  <2>1. /\ \A s \in DOMAIN index : index[s] \in DOMAIN heap
        /\ \A s \in DOMAIN index : Name(Entry(s)) \in Texts
        /\ \A id \in DOMAIN heap : Name(heap[id]) \in Texts
        /\ Name(key) \in Texts
    BY DomainNames DEF IInv, TypeOK, Entry, Name
  <2>2. \A d : /\ Holds(">", d, key) <=> ~Before(Name(d), Name(key))
               /\ Holds("=", d, key) <=> Name(d) = Name(key)
    BY DEF Holds, DomainGt, AreEqual, IsLower, Name
  <2>3. \A s \in DOMAIN index : Cmp(Entry(s), key) = 1 <=> Before(Name(key), Name(Entry(s)))
    BY <2>1, CmpOrder, OrderAssumption
  <2>4. ASSUME NEW id \in IndexScan(">", key) PROVE id \in Behind
    BY <2>1, <2>3 DEF IndexScan, From, Entry
  <2>5. ASSUME NEW id \in Behind PROVE id \in IndexScan(">", key)
    <3>1. PICK t \in DOMAIN index : index[t] = id
      BY DEF IInv, IndexOrdered
    <3>2. Before(Name(key), Name(Entry(t)))
      BY <3>1 DEF Entry
    <3>3. Holds(">", Entry(t), key)
      BY <2>1, <2>2, <3>2, OrderAssumption
    <3>4. t \in From(">", key)
      BY <2>3, <3>2 DEF From
    <3> QED
      BY <3>1, <3>3, <3>4 DEF IndexScan
  <2>6. \A id \in DOMAIN heap :
          ~Before(Name(heap[id]), Name(key)) <=>
            (Before(Name(key), Name(heap[id])) \/ Name(heap[id]) = Name(key))
    BY <2>1, OrderAssumption
  <2>7. SeqScan(">", key) = Behind \cup SeqScan("=", key)
    BY <2>2, <2>6 DEF SeqScan
  <2> QED
    BY <2>4, <2>5, <2>7
<1> QED
  BY <1>1, Invariance, PTL

---------------------------------------------------------------------------
(* What is printed of a name is read as the same name.                     *)

(* Sequences without trailing dots: what Strip returns, and keeps.         *)
Bare(t) == t \in Seq(LabelType) \ {<<>>} /\ t[Len(t)] # Nothing

LEMMA StripIsBare ==
  ASSUME NEW t \in Seq(LabelType), Strip(t) # <<>>
  PROVE  Bare(Strip(t))
<1> DEFINE kept == {n \in DOMAIN t : t[n] # Nothing}
<1>1. Len(t) \in Nat /\ DOMAIN t = 1..Len(t)
  OBVIOUS
<1>2. kept # {} /\ kept \in SUBSET (0..Len(t)) /\ kept \in SUBSET Int
  BY <1>1 DEF Strip
<1>3. PICK m \in kept : \A k \in kept : k <= m
  <2> HIDE DEF kept
  <2> QED
    BY <1>1, <1>2, GreatestNat
<1>4. Max(kept) = m
  <2> HIDE DEF kept
  <2> QED
    BY <1>2, <1>3, MaxIsGreatest
<1>5. Strip(t) = SubSeq(t, 1, m)
  BY <1>2, <1>4 DEF Strip
<1>6. m \in 1..Len(t) /\ t[m] # Nothing
  BY <1>1, <1>3
<1>7. SubSeq(t, 1, m) \in Seq(LabelType) /\ Len(SubSeq(t, 1, m)) = m /\ SubSeq(t, 1, m)[m] = t[m]
  BY <1>1, <1>6
<1> QED
  BY <1>5, <1>6, <1>7 DEF Bare

LEMMA BareIsStripped ==
  ASSUME NEW t, Bare(t)
  PROVE  Strip(t) = t
<1> DEFINE kept == {n \in DOMAIN t : t[n] # Nothing}
<1>1. t \in Seq(LabelType) /\ Len(t) \in Nat /\ Len(t) >= 1 /\ DOMAIN t = 1..Len(t)
  BY DEF Bare
<1>2. kept \in SUBSET Int /\ Len(t) \in kept /\ \A k \in kept : k <= Len(t)
  BY <1>1 DEF Bare
<1>3. Max(kept) = Len(t)
  <2> HIDE DEF kept
  <2> QED
    BY <1>2, MaxIsGreatest
<1>4. SubSeq(t, 1, Len(t)) = t
  BY <1>1, SubSeqFull
<1> QED
  BY <1>2, <1>3, <1>4 DEF Strip

(* A label in lower case.                                                  *)
LEMMA LoweredLabel ==
  ASSUME NEW W, NEW l \in [word : W, upper : BOOLEAN]
  PROVE  LET low == [l EXCEPT !.upper = FALSE]
         IN  /\ low \in [word : W, upper : BOOLEAN]
             /\ low.word = l.word /\ low.word \in W /\ ~low.upper
             /\ l.upper = FALSE => low = l
             /\ [low EXCEPT !.upper = FALSE] = low
<1>1. ASSUME NEW r \in [word : W, upper : BOOLEAN]
      PROVE  /\ [r EXCEPT !.upper = FALSE] \in [word : W, upper : BOOLEAN]
             /\ [r EXCEPT !.upper = FALSE].word = r.word
             /\ [r EXCEPT !.upper = FALSE].upper = FALSE
             /\ r = [word |-> r.word, upper |-> r.upper] /\ r.word \in W
  OBVIOUS
<1> DEFINE low  == [l EXCEPT !.upper = FALSE]
           less == [low EXCEPT !.upper = FALSE]
<1>2. low \in [word : W, upper : BOOLEAN] /\ low.word = l.word /\ low.upper = FALSE
  BY <1>1
<1>3. l = [word |-> l.word, upper |-> l.upper] /\ low = [word |-> low.word, upper |-> low.upper]
  BY <1>1, <1>2
<1> HIDE DEF low
<1>4. less.word = low.word /\ less.upper = FALSE /\ less \in [word : W, upper : BOOLEAN]
  BY <1>1, <1>2
<1>5. less = [word |-> less.word, upper |-> less.upper]
  BY <1>1, <1>4
<1> HIDE DEF less
<1>6. less = low
  BY <1>2, <1>3, <1>4, <1>5
<1>7. l.upper = FALSE => low = l
  BY <1>2, <1>3
<1>8. low.word \in W
  BY <1>1, <1>2
<1> QED
  BY <1>2, <1>6, <1>7, <1>8 DEF low, less

(* _lower keeps labels and their number, and is idempotent.                *)
LEMMA LowerBare ==
  ASSUME NEW t, Bare(t)
  PROVE  /\ Bare(Lower(t)) /\ Len(Lower(t)) = Len(t)
         /\ Lower(Lower(t)) = Lower(t)
<1>1. t \in Seq(LabelType) /\ Len(t) \in Nat /\ Len(t) >= 1 /\ DOMAIN t = 1..Len(t)
  BY DEF Bare
<1>2. ASSUME NEW l \in LabelType
      PROVE  /\ [l EXCEPT !.upper = FALSE] \in LabelType
             /\ [[l EXCEPT !.upper = FALSE] EXCEPT !.upper = FALSE] = [l EXCEPT !.upper = FALSE]
             /\ l # Nothing => [l EXCEPT !.upper = FALSE] # Nothing
  <2>1. CASE l \in [word : STRING \ {""}, upper : BOOLEAN]
    <3>1. [l EXCEPT !.upper = FALSE].word # ""
      BY <2>1, LoweredLabel
    <3>2. [l EXCEPT !.upper = FALSE] # Nothing
      BY <3>1 DEF Nothing
    <3> QED
      BY <2>1, <3>2, LoweredLabel DEF LabelType
  <2>2. CASE l = Nothing
    <3>1. l \in [word : {""}, upper : BOOLEAN] /\ l = [word |-> "", upper |-> FALSE]
      BY <2>2 DEF Nothing
    <3>2. [l EXCEPT !.upper = FALSE] = l
      BY <3>1, LoweredLabel
    <3> QED
      BY <2>2, <3>2
  <2> QED
    BY <2>1, <2>2 DEF LabelType, Nothing
<1>3. /\ DOMAIN Lower(t) = 1..Len(t)
      /\ \A n \in 1..Len(t) : Lower(t)[n] = [t[n] EXCEPT !.upper = FALSE] /\ t[n] \in LabelType
  BY <1>1 DEF Lower
<1>4. Lower(t) \in Seq(LabelType) /\ Len(Lower(t)) = Len(t)
  <2>1. Lower(t) = [n \in 1..Len(t) |-> [t[n] EXCEPT !.upper = FALSE]]
    BY <1>1 DEF Lower
  <2>2. \A n \in 1..Len(t) : [t[n] EXCEPT !.upper = FALSE] \in LabelType
    BY <1>2, <1>3
  <2> QED
    BY <1>1, <2>1, <2>2
<1>5. Bare(Lower(t))
  <2>1. Len(t) \in 1..Len(t) /\ t[Len(t)] # Nothing
    BY <1>1 DEF Bare
  <2>2. Lower(t)[Len(t)] # Nothing
    BY <1>2, <1>3, <2>1
  <2> QED
    BY <1>1, <1>4, <2>2 DEF Bare
<1>6. Lower(Lower(t)) = Lower(t)
  <2>1. Lower(Lower(t)) = [n \in 1..Len(t) |-> [Lower(t)[n] EXCEPT !.upper = FALSE]]
    BY <1>3 DEF Lower
  <2>2. Lower(t) = [n \in 1..Len(t) |-> Lower(t)[n]]
    BY <1>1, <1>3 DEF Lower
  <2>3. \A n \in 1..Len(t) : [Lower(t)[n] EXCEPT !.upper = FALSE] = Lower(t)[n]
    BY <1>2, <1>3
  <2> QED
    BY <2>1, <2>2, <2>3
<1> QED
  BY <1>4, <1>5, <1>6

(* A canonical name is read again as it is.                                *)
LEMMA CanonicalRead ==
  ASSUME NEW text \in Readable
  PROVE  LET name == Lower(Strip(text))
         IN  /\ name \in Readable
             /\ Bare(name) /\ Strip(name) = name /\ Lower(name) = name
<1> DEFINE bare == Strip(text)
           name == Lower(bare)
<1>1. text \in Texts /\ text \in Seq(LabelType) /\ bare # <<>> /\ Size(text) <= MaxLength
      /\ Size(bare) # MaxLength
  BY TextsAssumption DEF Readable, Overruns, Valid
<1>2. bare \in Texts /\ name \in Texts /\ Bare(bare)
  BY <1>1, TextsAssumption, StripIsBare
<1>3. Size(text) \in Nat /\ Size(bare) \in Nat /\ MaxLength \in Nat
  BY <1>1, <1>2, TextsAssumption
<1>4. Size(name) = Size(bare) /\ Size(bare) <= Size(text)
  BY <1>1, <1>2, SizeAssumption
<1> HIDE DEF bare
<1>5. Bare(name) /\ Lower(name) = name
  BY <1>2, LowerBare
<1> HIDE DEF name
<1>6. Strip(name) = name /\ name # <<>>
  BY <1>5, BareIsStripped DEF Bare
<1>7. Size(name) <= MaxLength /\ Size(name) # MaxLength
  BY <1>1, <1>3, <1>4
<1>8. name \in Readable
  BY <1>2, <1>6, <1>7 DEF Readable, Valid, Overruns
<1> QED
  BY <1>5, <1>6, <1>8 DEF name, bare

(* A dump of the table, as domainname_out prints it, restores every row.   *)
THEOREM DumpsRestore == Spec => []DumpRestores
<1>1. IInv => DumpRestores
  <2> SUFFICES ASSUME IInv, NEW id \in DOMAIN heap
               PROVE  /\ Printed(heap[id]) \in Readable
                      /\ LET d == TextToDomain(Printed(heap[id]))
                         IN  /\ AreEqual(d, heap[id])
                             /\ <<d.tld, d.reg_domain, d.nlabels>> =
                                  <<heap[id].tld, heap[id].reg_domain, heap[id].nlabels>>
    BY DEF DumpRestores
  <2>1. PICK text \in Readable : heap[id] = TextToDomain(text)
    BY DEF IInv, TypeOK, Domains
  <2> DEFINE name == Lower(Strip(text))
  <2>2. /\ name \in Readable /\ Strip(name) = name /\ Lower(name) = name
    BY CanonicalRead
  <2>3. Len(name) = Len(Strip(text))
    <3>1. text \in Seq(LabelType) /\ Strip(text) # <<>>
      BY TextsAssumption DEF Readable, Valid
    <3> QED
      BY <3>1, StripIsBare, LowerBare
  <2>4. /\ heap[id].lcase_name = name /\ heap[id].tld = LastLabels(name, 1)
        /\ heap[id].reg_domain = RegDomain(name) /\ heap[id].nlabels = Len(name)
    BY <2>1, <2>3 DEF TextToDomain
  <2> HIDE DEF name
  <2> DEFINE d == TextToDomain(name)
  <2>5. /\ d.lcase_name = name /\ d.tld = LastLabels(name, 1)
        /\ d.reg_domain = RegDomain(name) /\ d.nlabels = Len(name)
    BY <2>2 DEF TextToDomain
  <2> QED
    BY <2>2, <2>4, <2>5 DEF Printed, AreEqual
<1> QED
  BY <1>1, Invariance, PTL

---------------------------------------------------------------------------
(* The SQL label functions.                                                *)

(* A text without its first k labels, and how many labels n cuts take off. *)
Cut(t, k) == SubSeq(t, k + 1, Len(t))
Off(t, n) == IF n < Len(t) THEN n ELSE Len(t) - 1

(* One cut more.                                                           *)
LEMMA AfterDotCuts ==
  ASSUME NEW S, NEW t \in Seq(S), t # <<>>, NEW n \in Nat
  PROVE  /\ Cut(t, Off(t, n)) \in Seq(S) /\ Len(Cut(t, Off(t, n))) = Len(t) - Off(t, n)
         /\ Cut(t, Off(t, 0)) = t
         /\ SQL!AfterDot(Cut(t, Off(t, n))) = Cut(t, Off(t, n + 1))
<1> DEFINE l == Len(t)
           k == Off(t, n)
           c == Cut(t, k)
<1>1. l \in Nat /\ l >= 1
  OBVIOUS
<1>2. k \in Nat /\ k < l
  BY <1>1 DEF Off
<1>3. c \in Seq(S) /\ Len(c) = l - k /\ \A i \in 1..(l - k) : c[i] = t[k + i]
  <2> HIDE DEF k
  <2> QED
    BY <1>1, <1>2, SubSeqProperties DEF Cut
<1>4. Cut(t, Off(t, 0)) = t
  <2>1. Off(t, 0) = 0
    BY <1>1 DEF Off
  <2> QED
    BY <1>1, <2>1, SubSeqFull DEF Cut
<1>5. CASE n + 1 < l
  <2>1. k = n /\ Off(t, n + 1) = n + 1
    BY <1>1, <1>5 DEF Off
  <2> DEFINE d == Cut(t, n + 1)
  <2>2. d \in Seq(S) /\ Len(d) = l - n - 1 /\ \A i \in 1..(l - n - 1) : d[i] = t[n + 1 + i]
    BY <1>1, <1>5, SubSeqProperties DEF Cut
  <2> HIDE DEF c, d, k, l
  <2>3. c # <<>> /\ Len(c) > 1
    BY <1>1, <1>3, <1>5, <2>1
  <2>4. Tail(c) \in Seq(S) /\ Len(Tail(c)) = l - n - 1 /\ \A i \in 1..(l - n - 1) : Tail(c)[i] = c[i + 1]
    BY <1>1, <1>3, <1>5, <2>1, <2>3, HeadTailProperties
  <2>5. \A i \in 1..(l - n - 1) : Tail(c)[i] = d[i]
    <3> TAKE i \in 1..(l - n - 1)
    <3>1. i + 1 \in 1..(l - k) /\ k + (i + 1) = n + 1 + i
      BY <1>1, <1>5, <2>1
    <3> QED
      BY <1>3, <2>2, <2>4, <3>1
  <2>6. Tail(c) = d
    BY <2>2, <2>4, <2>5, SeqEqual
  <2> QED
    BY <1>3, <1>4, <2>1, <2>3, <2>6 DEF SQL!AfterDot, SQL!Dotted, c, d, k, l
<1>6. CASE ~(n + 1 < l)
  <2>1. k = l - 1 /\ Off(t, n + 1) = l - 1
    BY <1>1, <1>6 DEF Off
  <2>2. ~(Len(c) > 1)
    BY <1>1, <1>3, <2>1
  <2> HIDE DEF c
  <2> QED
    BY <1>3, <1>4, <2>1, <2>2 DEF SQL!AfterDot, SQL!Dotted, c
<1> QED
  BY <1>5, <1>6

(* What the function of Rest computes.                                     *)
LEMMA RestCuts ==
  ASSUME NEW S, NEW t \in Seq(S), t # <<>>, NEW n \in Nat
  PROVE  SQL!Rest(t, n) = Cut(t, Off(t, n))
<1> DEFINE g == [k \in 0..n |-> Cut(t, Off(t, k))]
           f == CHOOSE rest : rest = [k \in 0..n |-> IF k = 0 THEN t ELSE SQL!AfterDot(rest[k - 1])]
<1>1. g = [k \in 0..n |-> IF k = 0 THEN t ELSE SQL!AfterDot(g[k - 1])]
  <2>1. ASSUME NEW k \in 0..n
        PROVE  g[k] = IF k = 0 THEN t ELSE SQL!AfterDot(g[k - 1])
    <3>1. CASE k = 0
      BY <3>1, AfterDotCuts
    <3>2. CASE k # 0
      <4>1. k - 1 \in Nat /\ k - 1 \in 0..n /\ (k - 1) + 1 = k
        BY <3>2
      <4>2. SQL!AfterDot(Cut(t, Off(t, k - 1))) = Cut(t, Off(t, (k - 1) + 1))
        BY <4>1, AfterDotCuts
      <4> QED
        BY <3>2, <4>1, <4>2
    <3> QED
      BY <3>1, <3>2
  <2>2. g = [k \in 0..n |-> g[k]]
    OBVIOUS
  <2> HIDE DEF g
  <2> QED
    BY <2>1, <2>2
<1> HIDE DEF g
<1>2. f = [k \in 0..n |-> IF k = 0 THEN t ELSE SQL!AfterDot(f[k - 1])]
  BY <1>1
<1>3. SQL!Rest(t, n) = f[n]
  BY DEF SQL!Rest
<1> HIDE DEF f
<1> DEFINE Same == {k \in Nat : k <= n => f[k] = g[k]}
<1>4. 0 \in Same
  BY <1>1, <1>2
<1>5. ASSUME NEW k \in Nat, k \in Same PROVE k + 1 \in Same
  <2> SUFFICES ASSUME k + 1 <= n PROVE f[k + 1] = g[k + 1]
    OBVIOUS
  <2>1. k + 1 \in 0..n /\ k + 1 # 0 /\ (k + 1) - 1 = k /\ f[k] = g[k]
    BY <1>5
  <2> HIDE DEF Same
  <2>2. f[k + 1] = SQL!AfterDot(f[k])
    BY <1>2, <2>1
  <2>3. g[k + 1] = SQL!AfterDot(g[k])
    BY <1>1, <2>1
  <2> QED
    BY <2>1, <2>2, <2>3
<1>6. n \in Same
  <2> HIDE DEF Same
  <2> QED
    BY <1>4, <1>5, SetInduction
<1>7. f[n] = g[n]
  BY <1>6
<1> QED
  BY <1>3, <1>7 DEF g

(* The loops of last_labels and last_label end at the last label.          *)
LEMMA LoopEnds ==
  ASSUME NEW S, NEW t \in Seq(S), t # <<>>
  PROVE  /\ SQL!Index(t) = Len(t)
         /\ SQL!LastLabel(t) = Cut(t, Len(t) - 1)
<1> DEFINE l == Len(t)
<1>1. l \in Nat /\ l >= 1
  OBVIOUS
<1>2. ASSUME NEW n \in Nat
      PROVE  ~SQL!Dotted(SQL!Rest(t, n)) <=> n >= l - 1
  <2>1. Len(SQL!Rest(t, n)) = l - Off(t, n)
    BY RestCuts, AfterDotCuts
  <2> QED
    BY <1>1, <2>1 DEF SQL!Dotted, Off
<1>3. SQL!Index(t) = 1 + Min({n \in 0..l : ~SQL!Dotted(SQL!Rest(t, n))})
  BY Zenon DEF SQL!Index, SQL!Min, Min
<1>4. SQL!LastLabel(t) = SQL!Rest(t, Min({n \in 1..(l + 1) : ~SQL!Dotted(SQL!Rest(t, n))}))
  BY Zenon DEF SQL!LastLabel, SQL!Min, Min
<1>5. \A n \in Nat : n >= l - 1 => Off(t, n) = l - 1
  BY <1>1 DEF Off
<1> HIDE DEF l
<1>6. SQL!Index(t) = l
  <2> DEFINE N == {n \in 0..l : ~SQL!Dotted(SQL!Rest(t, n))}
  <2>1. \A n \in 0..l : n \in N <=> n >= l - 1
    BY <1>1, <1>2
  <2>2. N \in SUBSET (0..l)
    OBVIOUS
  <2>3. SQL!Index(t) = 1 + Min(N)
    BY <1>3
  <2> HIDE DEF N
  <2>4. N \in SUBSET Int /\ l - 1 \in N /\ \A n \in N : l - 1 <= n
    BY <1>1, <2>1, <2>2
  <2>5. Min(N) = l - 1
    BY <2>4, MinIsLeast
  <2> QED
    BY <1>1, <2>3, <2>5
<1>7. SQL!LastLabel(t) = Cut(t, l - 1)
  <2> DEFINE N == {n \in 1..(l + 1) : ~SQL!Dotted(SQL!Rest(t, n))}
             m == IF l = 1 THEN 1 ELSE l - 1
  <2>1. \A n \in 1..(l + 1) : n \in N <=> n >= l - 1
    BY <1>1, <1>2
  <2>2. N \in SUBSET (1..(l + 1))
    OBVIOUS
  <2>3. SQL!LastLabel(t) = SQL!Rest(t, Min(N))
    BY <1>4
  <2> HIDE DEF N
  <2>4. N \in SUBSET Int /\ m \in N /\ \A n \in N : m <= n
    BY <1>1, <2>1, <2>2
  <2>5. m \in Nat /\ Off(t, m) = l - 1
    BY <1>1, <1>5
  <2> HIDE DEF m
  <2>6. Min(N) = m
    BY <2>4, MinIsLeast
  <2> QED
    BY <2>3, <2>5, <2>6, RestCuts
<1> QED
  BY <1>6, <1>7 DEF l

(* What the label functions return of any text with a label.               *)
LEMMA LabelsReturned ==
  ASSUME NEW S, NEW t \in Seq(S), t # <<>>
  PROVE  /\ SQL!LastLabel(t) = LastParts(t, 1)
         /\ SQL!LastLabels(t, 0) = NULL
         /\ \A n \in Nat \ {0} :
              SQL!LastLabels(t, n) = IF n > Len(t) THEN t ELSE LastParts(t, n)
<1> DEFINE l == Len(t)
<1>1. l \in Nat /\ l >= 1 /\ SQL!Index(t) = l /\ LastParts(t, l) = t
  <2>1. l - l + 1 = 1
    OBVIOUS
  <2> QED
    BY <2>1, LoopEnds, SubSeqFull DEF LastParts
<1>2. SQL!LastLabel(t) = LastParts(t, 1)
  BY LoopEnds DEF Cut, LastParts
<1>3. SQL!LastLabels(t, 0) = NULL
  BY <1>1 DEF SQL!LastLabels, SQL!Whole, SQL!Subset
<1>4. ASSUME NEW n \in Nat \ {0}
      PROVE  SQL!LastLabels(t, n) = IF n > l THEN t ELSE LastParts(t, n)
  <2>1. CASE n >= l
    <3>1. SQL!LastLabels(t, n) = t
      BY <1>1, <2>1 DEF SQL!LastLabels, SQL!Whole
    <3>2. n > l \/ n = l
      BY <1>1, <2>1
    <3> HIDE DEF l
    <3> QED
      BY <1>1, <3>1, <3>2
  <2>2. CASE ~(n >= l)
    <3>1. l - n \in 1..(l - 1) /\ l - n \in Nat /\ l - n < l
      BY <1>1, <2>2
    <3>2. SQL!LastLabels(t, n) = SQL!Rest(t, l - n)
      BY <1>1, <2>2, <3>1 DEF SQL!LastLabels, SQL!Whole, SQL!Subset
    <3>3. SQL!Rest(t, l - n) = Cut(t, l - n)
      BY <3>1, RestCuts DEF Off
    <3>4. Cut(t, l - n) = LastParts(t, n)
      BY DEF Cut, LastParts
    <3> QED
      BY <1>1, <2>2, <3>2, <3>3, <3>4
  <2> QED
    BY <2>1, <2>2
<1> QED
  BY <1>2, <1>3, <1>4

(* Whatever text is asked for, dots in front, doubled or at the end        *)
(* included, the functions of util-functions.sql return the parts their    *)
(* names promise.                                                          *)
THEOREM LabelFunctionsRight == Spec => []ResultsRight
<1>1. IInv => ResultsRight
  <2> SUFFICES ASSUME IInv PROVE ResultsRight
    OBVIOUS
  <2>1. asked \in Seq(LabelType) /\ asked # <<>>
    BY TextsAssumption DEF IInv, TypeOK
  <2>2. Len(asked) \in Nat /\ Len(asked) >= 1
    BY <2>1
  <2>3. SQL!FirstLabel(asked) = IF Len(asked) = 1 THEN ERROR ELSE SubSeq(asked, 1, 1)
    <3>1. /\ SubSeq(asked, 1, 1) \in Seq(LabelType) /\ Len(SubSeq(asked, 1, 1)) = 1
          /\ SubSeq(asked, 1, 1)[1] = asked[1]
      BY <2>1, <2>2
    <3>2. /\ <<asked[1]>> \in Seq(LabelType) /\ Len(<<asked[1]>>) = 1
          /\ <<asked[1]>>[1] = asked[1]
      BY <2>1, <2>2
    <3>3. SubSeq(asked, 1, 1) = <<asked[1]>>
      <4>1. \A i \in 1..1 : SubSeq(asked, 1, 1)[i] = <<asked[1]>>[i]
        BY <3>1, <3>2
      <4> QED
        BY <3>1, <3>2, <4>1, SeqEqual
    <3>4. CASE Len(asked) = 1
      BY <3>4 DEF SQL!FirstLabel, SQL!Dotted
    <3>5. CASE Len(asked) # 1
      <4>1. Len(asked) > 1
        <5>1. \A l \in Nat : l >= 1 /\ l # 1 => l > 1
          OBVIOUS
        <5> QED
          BY <2>2, <3>5, <5>1, Zenon
      <4> QED
        BY <3>3, <3>5, <4>1 DEF SQL!FirstLabel, SQL!Dotted
    <3> QED
      BY <3>4, <3>5
  <2>4. \A n \in 1..(Len(asked) + 2) : n \in Nat \ {0}
    BY <2>2
  <2> QED
    BY <2>1, <2>3, <2>4, LabelsReturned DEF ResultsRight
<1> QED
  BY <1>1, Invariance, PTL

(* A report that groups names with the SQL functions counts under the same *)
(* top-level and registered domains as one that groups them with the       *)
(* accessors of the type, but for names below a sectoral domain.           *)
THEOREM DomainsAgree == Spec => []SameDomains
<1>1. IInv => SameDomains
  <2> SUFFICES ASSUME IInv, NEW id \in DOMAIN heap
               PROVE  LET name == Printed(heap[id])
                      IN  /\ SQL!LastLabel(name) = heap[id].tld
                          /\ ~IsSectoral(name) => SQL!LastLabels(name, 2) = heap[id].reg_domain
                          /\ SQL!LastLabels(name, heap[id].nlabels) = name
    BY DEF SameDomains
  <2>1. PICK text \in Readable : heap[id] = TextToDomain(text)
    BY DEF IInv, TypeOK, Domains
  <2> DEFINE name == Lower(Strip(text))
  <2>2. Bare(name) /\ Len(name) = Len(Strip(text))
    <3>1. text \in Seq(LabelType) /\ Strip(text) # <<>>
      BY TextsAssumption DEF Readable, Valid
    <3> QED
      BY <3>1, StripIsBare, LowerBare
  <2>3. /\ Printed(heap[id]) = name /\ heap[id].tld = LastLabels(name, 1)
        /\ heap[id].reg_domain = RegDomain(name) /\ heap[id].nlabels = Len(name)
    BY <2>1, <2>2 DEF TextToDomain, Printed
  <2> HIDE DEF name
  <2>4. name \in Seq(LabelType) /\ name # <<>> /\ Len(name) \in Nat /\ Len(name) >= 1
    BY <2>2 DEF Bare
  <2>5. LastParts(name, Len(name)) = name
    <3>1. Len(name) - Len(name) + 1 = 1
      BY <2>4
    <3> QED
      BY <2>4, <3>1, SubSeqFull DEF LastParts
  <2>6. ASSUME NEW n \in Nat \ {0}
        PROVE  SQL!LastLabels(name, n) = LastLabels(name, n)
    <3>1. SQL!LastLabels(name, n) = IF n > Len(name) THEN name ELSE LastParts(name, n)
      BY <2>4, LabelsReturned
    <3>2. CASE n < Len(name)
      <4>1. ~(n > Len(name)) /\ ~(Len(name) <= n)
        BY <2>4, <3>2
      <4> QED
        BY <3>1, <4>1 DEF LastLabels, LastParts
    <3>3. CASE n = Len(name)
      BY <2>4, <2>5, <3>1, <3>3 DEF LastLabels
    <3>4. CASE n > Len(name)
      BY <2>4, <3>1, <3>4 DEF LastLabels
    <3> QED
      BY <2>4, <3>2, <3>3, <3>4
  <2>7. SQL!LastLabel(name) = LastLabels(name, 1)
    <3>1. SQL!LastLabel(name) = LastParts(name, 1)
      BY <2>4, LabelsReturned
    <3>2. SQL!LastLabels(name, 1) = LastParts(name, 1)
      BY <2>4, LabelsReturned
    <3> QED
      BY <2>6, <3>1, <3>2
  <2>8. ~IsSectoral(name) => RegDomain(name) = LastLabels(name, 2)
    BY DEF RegDomain
  <2>9. LastLabels(name, Len(name)) = name
    BY <2>4 DEF LastLabels
  <2> QED
    BY <2>3, <2>4, <2>6, <2>7, <2>8, <2>9
<1> QED
  BY <1>1, Invariance, PTL
=============================================================================
