--------------------------- MODULE SetDaysProofs ---------------------------
(***************************************************************************)
(* What get_set_days pairs, for any number of files in any order.          *)
(***************************************************************************)
EXTENDS SetDays, NumberFacts

---------------------------------------------------------------------------
(* The least of some rows.                                                 *)
Least(S, i) == i \in S /\ \A j \in S : i <= j

(* The rows behind `from` of a day of the week.                            *)
Behind(r, from, dow) ==
  {i \in (from + 1)..Len(r) : (IF r[i] = NULL THEN NULL ELSE r[i] % 7) = dow}

(* Each pair is the first Sunday and the first Tuesday behind `from`.      *)
FirstBehind(r, from, pair) ==
  Least(Behind(r, from, 0), pair[1]) /\ Least(Behind(r, from, 2), pair[2])

(* The row a sequence of pairs ends at, and whether each is the first.     *)
EndAt(y, k)    == IF k = 0 THEN 0 ELSE Larger(y[k])
FirstAt(r, y, k) == EndAt(y, k - 1) \in Nat /\ FirstBehind(r, EndAt(y, k - 1), y[k])

Last == EndAt(yielded, Len(yielded))

(* What the loop keeps of a day of the week.                               *)
Keeps(r, last, n, old, dow) ==
  /\ old = NULL => \A i \in Behind(r, last, dow) : i >= n
  /\ old # NULL => old < n /\ Least(Behind(r, last, dow), old)

TypeInv ==
  /\ rows \in Seq(Nat \cup {NULL})
  /\ next \in 1..(Len(rows) + 1)
  /\ sunday \in Nat \cup {NULL} /\ tuesday \in Nat \cup {NULL}
  /\ yielded \in Seq(Nat \X Nat)

IInv ==
  /\ TypeInv
  /\ Last \in Nat /\ Last < next
  /\ \A k \in 1..Len(yielded) : FirstAt(rows, yielded, k)
  /\ Keeps(rows, Last, next, sunday, 0) /\ Keeps(rows, Last, next, tuesday, 2)
  /\ sunday = NULL \/ tuesday = NULL

LEMMA InitInv == Init => IInv
<1> SUFFICES ASSUME Init PROVE IInv
  OBVIOUS
<1>1. TypeInv /\ Len(yielded) = 0
  BY SetDaysAssumption DEF Init, TypeInv
<1>2. Last = 0
  BY <1>1 DEF Last, EndAt
<1>3. next = 1 /\ sunday = NULL /\ tuesday = NULL
  BY DEF Init
<1>4. ASSUME NEW dow PROVE Keeps(rows, Last, next, NULL, dow)
  <2>1. \A i \in Behind(rows, 0, dow) : i >= 1
    BY <1>1 DEF Behind, TypeInv
  <2> QED
    BY <1>2, <1>3, <2>1 DEF Keeps
<1>5. \A k \in 1..Len(yielded) : FirstAt(rows, yielded, k)
  BY <1>1
<1> QED
  BY <1>1, <1>2, <1>3, <1>4, <1>5 DEF IInv

(* One round keeps the first of its day, or finds it.                      *)
LEMMA KeptInv ==
  ASSUME TypeInv, NEW last \in Nat, last < next, next <= Len(rows),
         NEW old \in Nat \cup {NULL}, NEW dow \in {0, 2},
         Keeps(rows, last, next, old, dow)
  PROVE  /\ Kept(old, dow, next) \in Nat \cup {NULL}
         /\ Keeps(rows, last, next + 1, Kept(old, dow, next), dow)
         /\ Kept(old, dow, next) # NULL /\ old = NULL => Kept(old, dow, next) = next
         /\ Kept(old, dow, next) # NULL => Kept(old, dow, next) <= next
<1>1. next \in Nat /\ Len(rows) \in Nat /\ next # NULL
  BY SetDaysAssumption DEF TypeInv
<1> DEFINE B == Behind(rows, last, dow)
<1>2. /\ Dow(next) = dow => next \in B
      /\ next \in B => Dow(next) = dow
  BY <1>1 DEF Behind, Dow
<1>3. \A i \in B : i \in Nat
  BY <1>1 DEF Behind
<1>4. CASE Dow(next) = dow /\ old = NULL
  <2>1. Kept(old, dow, next) = next
    BY <1>4 DEF Kept
  <2>2. \A i \in B : i >= next
    BY <1>4 DEF Keeps
  <2>3. Least(B, next)
    BY <1>1, <1>2, <1>3, <1>4, <2>2 DEF Least
  <2> QED
    BY <1>1, <2>1, <2>3 DEF Keeps
<1>5. CASE ~(Dow(next) = dow /\ old = NULL)
  <2>1. Kept(old, dow, next) = old
    BY <1>5 DEF Kept
  <2>2. CASE old = NULL
    <3>1. next \notin B
      BY <1>2, <1>5, <2>2
    <3>2. \A i \in B : i >= next
      BY <2>2 DEF Keeps
    <3>3. \A i \in B : i >= next + 1
      <4> SUFFICES ASSUME NEW i \in B PROVE i >= next + 1
        OBVIOUS
      <4>1. i # next /\ i >= next /\ i \in Nat
        BY <1>3, <3>1, <3>2
      <4> HIDE DEF B
      <4> QED
        BY <1>1, <4>1
    <3> QED
      BY <2>1, <2>2, <3>3 DEF Keeps
  <2>3. CASE old # NULL
    <3>1. old \in Nat /\ old < next /\ Least(B, old)
      BY <2>3 DEF Keeps
    <3> QED
      BY <1>1, <2>1, <2>3, <3>1 DEF Keeps
  <2> QED
    BY <2>2, <2>3
<1> QED
  BY <1>4, <1>5

(* A round that yields no pair.                                            *)
LEMMA QuietRow ==
  ASSUME IInv, Row, UNCHANGED yielded,
         sunday' = Kept(sunday, 0, next), tuesday' = Kept(tuesday, 2, next),
         sunday' = NULL \/ tuesday' = NULL
  PROVE  IInv'
<1>1. rows' = rows /\ next' = next + 1 /\ next <= Len(rows)
  BY DEF Row
<1>2. TypeInv /\ Last \in Nat /\ Last < next /\ next \in Nat /\ Len(rows) \in Nat
  BY DEF IInv, TypeInv
<1>3. /\ sunday' \in Nat \cup {NULL}
      /\ Keeps(rows, Last, next + 1, sunday', 0)
  BY <1>1, <1>2, KeptInv DEF IInv, TypeInv
<1>4. /\ tuesday' \in Nat \cup {NULL}
      /\ Keeps(rows, Last, next + 1, tuesday', 2)
  BY <1>1, <1>2, KeptInv DEF IInv, TypeInv
<1>5. Last' = Last
  BY DEF Last
<1>6. TypeInv'
  BY <1>1, <1>2, <1>3, <1>4 DEF TypeInv
<1>7. \A k \in 1..Len(yielded') : FirstAt(rows', yielded', k)
  BY <1>1 DEF IInv
<1>8. Last' \in Nat /\ Last' < next'
  BY <1>1, <1>2, <1>5
<1>9. Keeps(rows', Last', next', sunday', 0) /\ Keeps(rows', Last', next', tuesday', 2)
  BY <1>1, <1>3, <1>4, <1>5
<1> QED
  BY <1>6, <1>7, <1>8, <1>9 DEF IInv

(* What a pair more leaves of the pairs before it.                         *)
LEMMA EndsKept ==
  ASSUME NEW y \in Seq(Nat \X Nat), NEW p \in Nat \X Nat
  PROVE  /\ Append(y, p) \in Seq(Nat \X Nat) /\ Len(Append(y, p)) = Len(y) + 1
         /\ Append(y, p)[Len(y) + 1] = p
         /\ \A k \in 1..Len(y) : Append(y, p)[k] = y[k]
         /\ \A k \in 0..Len(y) : EndAt(Append(y, p), k) = EndAt(y, k)
<1> DEFINE z == Append(y, p)
<1>1. z \in Seq(Nat \X Nat) /\ Len(z) = Len(y) + 1 /\ z[Len(y) + 1] = p /\ Len(y) \in Nat
  OBVIOUS
<1>2. \A k \in 1..Len(y) : z[k] = y[k]
  OBVIOUS
<1> HIDE DEF z
<1>3. ASSUME NEW k \in 0..Len(y) PROVE EndAt(z, k) = EndAt(y, k)
  <2>1. CASE k = 0
    BY <2>1 DEF EndAt
  <2>2. CASE k # 0
    <3>1. k \in 1..Len(y)
      BY <1>1, <2>2
    <3>2. z[k] = y[k]
      BY <1>2, <3>1
    <3> QED
      BY <2>2, <3>2 DEF EndAt
  <2> QED
    BY <2>1, <2>2
<1>4. z = Append(y, p)
  BY DEF z
<1> QED
  BY <1>1, <1>2, <1>3, <1>4

(* A round that yields one.                                                *)
LEMMA PairRow ==
  ASSUME IInv, Row, NEW s \in Nat, NEW t \in Nat,
         s = Kept(sunday, 0, next), t = Kept(tuesday, 2, next),
         yielded' = Append(yielded, <<s, t>>), sunday' = NULL, tuesday' = NULL
  PROVE  IInv'
<1> DEFINE n == Len(yielded)
<1>1. /\ rows' = rows /\ next' = next + 1 /\ next <= Len(rows)
      /\ s # NULL /\ t # NULL
  BY SetDaysAssumption DEF Row
<1>2. /\ TypeInv /\ Last \in Nat /\ Last < next /\ next \in Nat /\ Len(rows) \in Nat
      /\ yielded \in Seq(Nat \X Nat) /\ n \in Nat
  BY DEF IInv, TypeInv
<1>3. /\ Keeps(rows, Last, next + 1, s, 0)
      /\ s <= next /\ (sunday = NULL => s = next)
  BY <1>1, <1>2, KeptInv DEF IInv, TypeInv
<1>4. /\ Keeps(rows, Last, next + 1, t, 2)
      /\ t <= next /\ (tuesday = NULL => t = next)
  BY <1>1, <1>2, KeptInv DEF IInv, TypeInv
<1>5. /\ yielded' \in Seq(Nat \X Nat) /\ Len(yielded') = n + 1
      /\ yielded'[n + 1] = <<s, t>>
      /\ \A k \in 1..n : yielded'[k] = yielded[k]
      /\ \A k \in 0..n : EndAt(yielded', k) = EndAt(yielded, k)
  <2>1. <<s, t>> \in Nat \X Nat
    OBVIOUS
  <2> QED
    BY <1>2, <2>1, EndsKept
<1>6. Last' = next
  <2>1. s = next \/ t = next
    BY <1>3, <1>4 DEF IInv
  <2>2. Last' = Larger(<<s, t>>)
    BY <1>2, <1>5 DEF Last, EndAt
  <2>3. Larger(<<s, t>>) = IF s > t THEN s ELSE t
    BY DEF Larger
  <2> QED
    BY <1>2, <1>3, <1>4, <2>1, <2>2, <2>3
<1>7. FirstBehind(rows, Last, <<s, t>>)
  BY <1>1, <1>3, <1>4 DEF FirstBehind, Keeps
<1>8. ASSUME NEW k \in 1..(n + 1) PROVE FirstAt(rows', yielded', k)
  <2>1. CASE k = n + 1
    <3>1. k - 1 = n /\ n \in 0..n
      BY <1>2, <2>1
    <3>2. EndAt(yielded', k - 1) = Last /\ yielded'[k] = <<s, t>>
      BY <1>5, <2>1, <3>1 DEF Last
    <3> QED
      BY <1>1, <1>2, <1>7, <3>2 DEF FirstAt
  <2>2. CASE k # n + 1
    <3>1. k \in 1..n /\ k - 1 \in 0..n
      <4>1. n \in Nat
        BY <1>2
      <4> HIDE DEF n
      <4> QED
        BY <4>1, <2>2
    <3>2. EndAt(yielded', k - 1) = EndAt(yielded, k - 1) /\ yielded'[k] = yielded[k]
      BY <1>5, <3>1
    <3>3. FirstAt(rows, yielded, k)
      BY <3>1 DEF IInv
    <3> QED
      BY <1>1, <3>2, <3>3 DEF FirstAt
  <2> QED
    BY <2>1, <2>2
<1>9. ASSUME NEW dow PROVE Keeps(rows', Last', next', NULL, dow)
  <2>1. \A i \in Behind(rows, next, dow) : i >= next + 1
    BY <1>2 DEF Behind
  <2> QED
    BY <1>1, <1>6, <2>1 DEF Keeps
<1>10. TypeInv'
  BY <1>1, <1>2, <1>5 DEF TypeInv
<1>11. Last' \in Nat /\ Last' < next'
  BY <1>1, <1>2, <1>6
<1>12. \A k \in 1..Len(yielded') : FirstAt(rows', yielded', k)
  BY <1>5, <1>8
<1> QED
  BY <1>9, <1>10, <1>11, <1>12 DEF IInv

LEMMA NextInv == IInv /\ [Next]_vars => IInv'
<1> SUFFICES ASSUME IInv, [Next]_vars PROVE IInv'
  OBVIOUS
<1> DEFINE s == Kept(sunday, 0, next)
           t == Kept(tuesday, 2, next)
<1>1. CASE UNCHANGED <<rows, next, sunday, tuesday, yielded>>
  <2>1. TypeInv' /\ Last' = Last
    BY <1>1 DEF IInv, TypeInv, Last
  <2> QED
    BY <1>1, <2>1 DEF IInv
<1>2. CASE Row
  <2>1. CASE s # NULL /\ t # NULL
    <3>1. /\ yielded' = Append(yielded, <<s, t>>)
          /\ sunday' = NULL /\ tuesday' = NULL
      BY <1>2, <2>1 DEF Row, Reset
    <3>2. s \in Nat /\ t \in Nat
      <4>1. /\ TypeInv /\ Last \in Nat /\ Last < next /\ next <= Len(rows)
            /\ sunday \in Nat \cup {NULL} /\ tuesday \in Nat \cup {NULL}
        BY <1>2 DEF IInv, TypeInv, Row
      <4>2. s \in Nat \cup {NULL}
        BY <4>1, KeptInv DEF IInv
      <4>3. t \in Nat \cup {NULL}
        BY <4>1, KeptInv DEF IInv
      <4> QED
        BY <2>1, <4>2, <4>3
    <3> QED
      BY <1>2, <3>1, <3>2, PairRow
  <2>2. CASE ~(s # NULL /\ t # NULL)
    <3>1. UNCHANGED yielded /\ sunday' = s /\ tuesday' = t
      BY <1>2, <2>2 DEF Row
    <3> QED
      BY <1>2, <2>2, <3>1, QuietRow
  <2> QED
    BY <2>1, <2>2
<1> QED
  BY <1>1, <1>2 DEF Next, Abandon, Finish, vars

(* However many files there are, of whatever days and in whatever order:   *)
(* each pair is the first Sunday and the first Tuesday behind the pair     *)
(* before it, and none is missed.                                          *)
THEOREM PairsAreEarliest == Spec => []EarliestPairs
<1>1. IInv => EarliestPairs
  <2> SUFFICES ASSUME IInv PROVE EarliestPairs
    OBVIOUS
  <2>1. ASSUME NEW k, NEW dow PROVE Since(k, dow) = Behind(rows, EndAt(yielded, k), dow)
    BY DEF Since, Behind, End, EndAt, Dow
  <2>2. ASSUME NEW k \in DOMAIN yielded
        PROVE  /\ yielded[k][1] = Min(Since(k - 1, 0))
               /\ yielded[k][2] = Min(Since(k - 1, 2))
    <3>1. k \in 1..Len(yielded)
      BY DEF IInv, TypeInv
    <3>2. EndAt(yielded, k - 1) \in Nat /\ FirstBehind(rows, EndAt(yielded, k - 1), yielded[k])
      BY <3>1 DEF IInv, FirstAt
    <3>3. ASSUME NEW dow PROVE Behind(rows, EndAt(yielded, k - 1), dow) \in SUBSET Nat
      <4>1. Len(rows) \in Nat
        BY DEF IInv, TypeInv
      <4> QED
        BY <3>2, <4>1 DEF Behind
    <3>4. yielded[k][1] = Min(Behind(rows, EndAt(yielded, k - 1), 0))
      BY <3>2, <3>3, MinIsLeast DEF FirstBehind, Least
    <3>5. yielded[k][2] = Min(Behind(rows, EndAt(yielded, k - 1), 2))
      BY <3>2, <3>3, MinIsLeast DEF FirstBehind, Least
    <3> QED
      BY <2>1, <3>4, <3>5
  <2>3. \E dow \in {0, 2} : \A i \in Since(Len(yielded), dow) : i >= next
    <3>1. CASE sunday = NULL
      BY <2>1, <3>1 DEF IInv, Keeps, Last
    <3>2. CASE tuesday = NULL
      BY <2>1, <3>2 DEF IInv, Keeps, Last
    <3> QED
      BY <3>1, <3>2 DEF IInv
  <2> QED
    BY <2>2, <2>3 DEF EarliestPairs
<1> QED
  BY <1>1, InitInv, NextInv, PTL DEF Spec
---------------------------------------------------------------------------
(* The days of a pair.                                                     *)

(* The days of sorted rows, and the Sundays and Tuesdays between two of    *)
(* them: their rows are between the rows of the two.                       *)
LEMMA DayBetween ==
  ASSUME TypeInv, NoneMissing,
         NEW i \in 1..Len(rows), NEW j \in 1..Len(rows), NEW d \in Nat,
         rows[i] < d, d < rows[j], d % 7 \in {0, 2}
  PROVE  \E k \in 1..Len(rows) :
           rows[k] = d /\ ((i < k /\ k < j) \/ (j < k /\ k < i))
<1> DEFINE n    == Len(rows)
           days == {rows[k] : k \in DOMAIN rows}
<1>1. n \in Nat /\ n >= 1 /\ DOMAIN rows = 1..n /\ 1 \in 1..n /\ n \in 1..n
  BY DEF TypeInv
<1>2. \A k \in 1..n : rows[k] \in Nat
  <2>1. NULL \notin days
    BY DEF NoneMissing
  <2>2. \A k \in 1..n : rows[k] \in days
    BY <1>1
  <2>3. \A k \in 1..n : rows[k] \in Nat \cup {NULL}
    BY DEF TypeInv
  <2> HIDE DEF days
  <2> QED
    BY <2>1, <2>2, <2>3
<1>3. days \in SUBSET Nat /\ \A k \in 1..n : rows[k] \in days
  BY <1>1, <1>2
<1>4. \/ \A k, l \in 1..n : k < l => rows[k] < rows[l]
      \/ \A k, l \in 1..n : k < l => rows[k] > rows[l]
  BY <1>1 DEF NoneMissing, Sorted
<1> HIDE DEF n
<1>5. ASSUME NEW low \in 1..n, \A k \in 1..n : rows[low] <= rows[k]
      PROVE  Min(days) = rows[low]
  <2>1. \A x \in days : rows[low] <= x
    BY <1>1, <1>5
  <2>2. rows[low] \in days /\ days \in SUBSET Int
    BY <1>3
  <2> HIDE DEF days
  <2> QED
    BY <2>1, <2>2, MinIsLeast
<1>6. ASSUME NEW top \in 1..n, \A k \in 1..n : rows[k] <= rows[top]
      PROVE  Max(days \cup {0}) = rows[top]
  <2>1. \A x \in days \cup {0} : x <= rows[top]
    BY <1>1, <1>2, <1>6
  <2>2. rows[top] \in days \cup {0} /\ days \cup {0} \in SUBSET Int
    BY <1>3
  <2> QED
    BY <2>1, <2>2, MaxIsGreatest
<1>7. \A x \in 0..Max(days \cup {0}) : x > Min(days) /\ x % 7 \in {0, 2} => x \in days
  BY DEF NoneMissing
<1>8. i \in 1..n /\ j \in 1..n
  BY DEF n
<1>9. d \in days
  <2> HIDE DEF days
  <2>1. CASE \A k, l \in 1..n : k < l => rows[k] < rows[l]
    <3>1. \A k \in 1..n : rows[1] <= rows[k] /\ rows[k] <= rows[n]
      BY <2>1, <1>1, <1>2
    <3>2. Min(days) = rows[1] /\ Max(days \cup {0}) = rows[n]
      BY <3>1, <1>1, <1>5, <1>6
    <3>3. rows[1] < d /\ d \in 0..rows[n]
      BY <3>1, <1>1, <1>2, <1>8
    <3> QED
      BY <3>2, <3>3, <1>1, <1>2, <1>7
  <2>2. CASE \A k, l \in 1..n : k < l => rows[k] > rows[l]
    <3>1. \A k \in 1..n : rows[n] <= rows[k] /\ rows[k] <= rows[1]
      BY <2>2, <1>1, <1>2
    <3>2. Min(days) = rows[n] /\ Max(days \cup {0}) = rows[1]
      BY <3>1, <1>1, <1>5, <1>6
    <3>3. rows[n] < d /\ d \in 0..rows[1]
      BY <3>1, <1>1, <1>2, <1>8
    <3> QED
      BY <3>2, <3>3, <1>1, <1>2, <1>7
  <2> QED
    BY <1>4, <2>1, <2>2
<1>10. PICK k \in 1..n : rows[k] = d
  BY <1>1, <1>9
<1>11. (i < k /\ k < j) \/ (j < k /\ k < i)
  BY <1>1, <1>2, <1>4, <1>8, <1>10
<1> QED
  BY <1>10, <1>11 DEF n

(* plot-v6.py:20 wants less than ten days in a pair: however many files    *)
(* there are, it is so when they are sorted and no Sunday or Tuesday is    *)
(* missing.                                                                *)
THEOREM PairsAreNear == Spec => []LessThanTenDays
<1>1. IInv => LessThanTenDays
  <2> SUFFICES ASSUME IInv, NoneMissing, NEW k \in DOMAIN yielded
               PROVE  rows[yielded[k][1]] - rows[yielded[k][2]] \in -9..9
    BY DEF LessThanTenDays
  <2> DEFINE s == yielded[k][1]
             t == yielded[k][2]
             e == EndAt(yielded, k - 1)
  <2>1. TypeInv
    BY DEF IInv
  <2>2. Len(rows) \in Nat /\ k \in 1..Len(yielded)
    BY <2>1 DEF TypeInv
  <2>3. e \in Nat /\ Least(Behind(rows, e, 0), s) /\ Least(Behind(rows, e, 2), t)
    BY <2>2 DEF IInv, FirstAt, FirstBehind
  <2> HIDE DEF s, t, e
  <2>4. \A i \in 1..Len(rows) : rows[i] \in Nat
    <3>1. \A i \in 1..Len(rows) : rows[i] \in Nat \cup {NULL} /\ rows[i] # NULL
      BY <2>1 DEF TypeInv, NoneMissing
    <3> QED
      BY <3>1
  <2>5. \A dow : Behind(rows, e, dow) = {i \in (e + 1)..Len(rows) : rows[i] % 7 = dow}
    BY <2>2, <2>3, <2>4, SetDaysAssumption DEF Behind
  <2>6. /\ s \in 1..Len(rows) /\ s > e /\ rows[s] % 7 = 0
        /\ \A i \in 1..Len(rows) : i > e /\ rows[i] % 7 = 0 => s <= i
    BY <2>2, <2>3, <2>5 DEF Least
  <2>7. /\ t \in 1..Len(rows) /\ t > e /\ rows[t] % 7 = 2
        /\ \A i \in 1..Len(rows) : i > e /\ rows[i] % 7 = 2 => t <= i
    BY <2>2, <2>3, <2>5 DEF Least
  <2>8. rows[s] \in Nat /\ rows[t] \in Nat
    BY <2>4, <2>6, <2>7
  <2>9. ASSUME NEW d \in Nat, d % 7 \in {0, 2},
               (rows[t] < d /\ d < rows[s]) \/ (rows[s] < d /\ d < rows[t])
        PROVE  \E i \in 1..Len(rows) :
                 rows[i] = d /\ i > e /\ ((t < i /\ i < s) \/ (s < i /\ i < t))
    <3>1. PICK i \in 1..Len(rows) : rows[i] = d /\ ((s < i /\ i < t) \/ (t < i /\ i < s))
      BY <2>1, <2>6, <2>7, <2>9, DayBetween
    <3> QED
      BY <3>1, <2>2, <2>3, <2>6, <2>7
  <2>10. \A d \in Nat : (rows[t] < d /\ d < rows[s]) \/ (rows[s] < d /\ d < rows[t]) =>
           /\ d % 7 = 0 => s < t
           /\ d % 7 = 2 => t < s
    <3> SUFFICES ASSUME NEW d \in Nat,
                        (rows[t] < d /\ d < rows[s]) \/ (rows[s] < d /\ d < rows[t])
                 PROVE  (d % 7 = 0 => s < t) /\ (d % 7 = 2 => t < s)
      OBVIOUS
    <3>1. ASSUME d % 7 \in {0, 2}
          PROVE  (d % 7 = 0 => s < t) /\ (d % 7 = 2 => t < s)
      <4>1. PICK i \in 1..Len(rows) :
              rows[i] = d /\ i > e /\ ((t < i /\ i < s) \/ (s < i /\ i < t))
        BY <2>9, <3>1
      <4>2. rows[i] % 7 = d % 7
        BY <4>1
      <4>3. i \in Int /\ s \in Int /\ t \in Int
        BY <2>6, <2>7
      <4>4. d % 7 = 0 => s <= i
        BY <2>6, <4>1, <4>2
      <4>5. d % 7 = 2 => t <= i
        BY <2>7, <4>1, <4>2
      <4> QED
        BY <4>1, <4>3, <4>4, <4>5
    <3> QED
      BY <3>1
  <2>11. ~(rows[s] - rows[t] > 9)
    <3> SUFFICES ASSUME rows[s] - rows[t] > 9 PROVE FALSE
      OBVIOUS
    <3> DEFINE x == rows[s]
               y == rows[t]
    <3>1. x \in Nat /\ y \in Nat /\ x % 7 = 0 /\ y % 7 = 2 /\ x - y > 9
      BY <2>6, <2>7, <2>8
    <3> HIDE DEF x, y
    <3>2. y + 5 \in Nat /\ (y + 5) % 7 = 0 /\ y < y + 5 /\ y + 5 < x
      BY <3>1
    <3>3. x - 5 \in Nat /\ (x - 5) % 7 = 2 /\ y < x - 5 /\ x - 5 < x
      BY <3>1
    <3>4. s < t /\ t < s
      BY <2>10, <3>2, <3>3 DEF x, y
    <3> QED
      BY <2>6, <2>7, <3>4
  <2>12. ~(rows[t] - rows[s] > 9)
    <3> SUFFICES ASSUME rows[t] - rows[s] > 9 PROVE FALSE
      OBVIOUS
    <3> DEFINE x == rows[s]
               y == rows[t]
    <3>1. x \in Nat /\ y \in Nat /\ x % 7 = 0 /\ y % 7 = 2 /\ y - x > 9
      BY <2>6, <2>7, <2>8
    <3> HIDE DEF x, y
    <3>2. y - 2 \in Nat /\ (y - 2) % 7 = 0 /\ x < y - 2 /\ y - 2 < y
      BY <3>1
    <3>3. x + 2 \in Nat /\ (x + 2) % 7 = 2 /\ x < x + 2 /\ x + 2 < y
      BY <3>1
    <3>4. s < t /\ t < s
      BY <2>10, <3>2, <3>3 DEF x, y
    <3> QED
      BY <2>6, <2>7, <3>4
  <2> QED
    BY <2>8, <2>11, <2>12 DEF s, t
<1> QED
  BY <1>1, InitInv, NextInv, PTL DEF Spec
=============================================================================
