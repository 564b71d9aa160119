--------------------------- MODULE AttemptProofs ---------------------------
(***************************************************************************)
(* For every size of a list and of the grid: the search finds a shortest   *)
(* path, and the one that the server finds; the sorts sort; the parser     *)
(* understands the fields in any order; the string holds the numbers.      *)
(*                                                                         *)
(* The queue of the search is sorted, its costs differ by one at most, and *)
(* what left it came before what is in it: so that a cell that was reached *)
(* once is never improved, and the cells of cost k are those that k steps  *)
(* lead to.                                                                *)
(***************************************************************************)
EXTENDS Attempt, FiniteSetTheorems, SequenceTheorems, WellFoundedInduction, TLAPS


Less == {ss \in Nat \X Nat : ss[1] < ss[2]}

LEMMA LessOn == IsWellFoundedOn(Less, Nat)
<1>1. Less = OpToRel(<, Nat)
  BY DEF Less, OpToRel
<1> QED BY <1>1, NatLessThanWellFounded, Zenon

\* A set of numbers that is not empty has a least one.
LEMMA Least ==
    ASSUME NEW N \in SUBSET Nat, N # {}
    PROVE  \E k \in N : \A m \in N : k <= m
<1>1. PICK k \in N : \A m \in N : <<m, k>> \notin Less
  BY LessOn, WFMin
<1>2. ASSUME NEW m \in N PROVE k <= m
  <2>1. k \in Nat /\ m \in Nat /\ (m < k => <<m, k>> \in Less)
    BY DEF Less
  <2> QED BY <1>1, <2>1
<1> QED BY <1>2

LEMMA CellsType ==
    ASSUME NEW a \in Cells
    PROVE  a[1] \in Int /\ a[2] \in Int /\ a = <<a[1], a[2]>>
  BY ShortPathAssumption DEF Cells

-----------------------------------------------------------------------------
(* The order of the queue *)

Elems(s) == {s[k] : k \in 1 .. Len(s)}

SortedBy(c, s) == \A j, k \in 1 .. Len(s) : j < k => costcmp(c, s[k], s[j])

LEMMA CostOrder ==
    ASSUME NEW c \in [Cells -> Int]
    PROVE  /\ \A a, b \in Cells : a = b \/ costcmp(c, a, b) \/ costcmp(c, b, a)
           /\ \A a, b \in Cells : ~(costcmp(c, a, b) /\ costcmp(c, b, a))
           /\ \A a, b, d \in Cells : costcmp(c, a, b) /\ costcmp(c, b, d) => costcmp(c, a, d)
<1>1. ASSUME NEW a \in Cells, NEW b \in Cells PROVE a = b \/ costcmp(c, a, b) \/ costcmp(c, b, a)
  <2>1. a[1] = b[1] /\ a[2] = b[2] => a = b
    BY CellsType
  <2>2. c[a] \in Int /\ c[b] \in Int /\ a[1] \in Int /\ a[2] \in Int /\ b[1] \in Int /\ b[2] \in Int
    BY CellsType
  <2> QED BY <2>1, <2>2 DEF costcmp
<1>2. ASSUME NEW a \in Cells, NEW b \in Cells PROVE ~(costcmp(c, a, b) /\ costcmp(c, b, a))
  <2>1. c[a] \in Int /\ c[b] \in Int /\ a[1] \in Int /\ a[2] \in Int /\ b[1] \in Int /\ b[2] \in Int
    BY CellsType
  <2> QED BY <2>1 DEF costcmp
<1>3. ASSUME NEW a \in Cells, NEW b \in Cells, NEW d \in Cells,
             costcmp(c, a, b), costcmp(c, b, d)
      PROVE  costcmp(c, a, d)
  <2>1. /\ c[a] \in Int /\ c[b] \in Int /\ c[d] \in Int
        /\ a[1] \in Int /\ a[2] \in Int /\ b[1] \in Int /\ b[2] \in Int /\ d[1] \in Int /\ d[2] \in Int
    BY CellsType
  <2> QED BY <1>3, <2>1 DEF costcmp
<1> QED BY <1>1, <1>2, <1>3

\* r is s with e at place m.
Placed(r, s, m, e) ==
    /\ Len(r) = Len(s) + 1 /\ m \in 1 .. Len(r)
    /\ \A k \in 1 .. Len(r) : r[k] = IF k < m THEN s[k] ELSE IF k = m THEN e ELSE s[k - 1]

LEMMA InsertAtPlaces ==
    ASSUME NEW S, NEW s \in Seq(S), NEW m \in 1 .. Len(s) + 1, NEW e \in S
    PROVE  InsertAt(s, m, e) \in Seq(S) /\ Placed(InsertAt(s, m, e), s, m, e)
<1> DEFINE u == SubSeq(s, 1, m - 1)
           v == SubSeq(s, m, Len(s))
           w == u \o <<e>>
<1>0. Len(s) \in Nat /\ m \in Nat /\ m >= 1 /\ m <= Len(s) + 1
  BY LenProperties
<1>1. u \in Seq(S) /\ Len(u) = m - 1 /\ \A k \in 1 .. m - 1 : u[k] = s[k]
  <2>1. \A k \in 1 .. m - 1 : s[k] \in S
    BY <1>0, ElementOfSeq
  <2>2. /\ u \in Seq(S) /\ Len(u) = IF 1 <= m - 1 THEN m - 1 - 1 + 1 ELSE 0
        /\ \A k \in 1 .. m - 1 - 1 + 1 : u[k] = s[1 + k - 1]
    BY <1>0, <2>1, SubSeqProperties
  <2>3. \A k \in 1 .. m - 1 : k \in 1 .. m - 1 - 1 + 1 /\ 1 + k - 1 = k
    BY <1>0
  <2> HIDE DEF u
  <2> QED BY <1>0, <2>2, <2>3
<1>2. v \in Seq(S) /\ Len(v) = Len(s) - m + 1 /\ \A k \in 1 .. Len(s) - m + 1 : v[k] = s[m + k - 1]
  <2>1. \A k \in m .. Len(s) : s[k] \in S
    BY <1>0, ElementOfSeq
  <2>2. /\ v \in Seq(S) /\ Len(v) = IF m <= Len(s) THEN Len(s) - m + 1 ELSE 0
        /\ \A k \in 1 .. Len(s) - m + 1 : v[k] = s[m + k - 1]
    BY <1>0, <2>1, SubSeqProperties
  <2> HIDE DEF v
  <2> QED BY <1>0, <2>2
<1> HIDE DEF u, v
<1>3. /\ w \in Seq(S) /\ Len(w) = m
      /\ \A k \in 1 .. m : w[k] = IF k < m THEN s[k] ELSE e
  <2>1. <<e>> \in Seq(S) /\ Len(<<e>>) = 1 /\ <<e>>[1] = e
    OBVIOUS
  <2> DEFINE x == <<e>>
  <2> HIDE DEF x
  <2>2. /\ u \o x \in Seq(S) /\ Len(u \o x) = Len(u) + Len(x)
        /\ \A k \in 1 .. Len(u) + Len(x) : (u \o x)[k] = IF k <= Len(u) THEN u[k] ELSE x[k - Len(u)]
    BY <1>1, <2>1, ConcatProperties DEF x
  <2>3. Len(x) = 1 /\ x[1] = e
    BY <2>1 DEF x
  <2>4. w = u \o x
    BY DEF x
  <2> HIDE DEF w
  <2> QED BY <1>0, <1>1, <2>2, <2>3, <2>4
<1> HIDE DEF w
<1>4. /\ w \o v \in Seq(S) /\ Len(w \o v) = Len(w) + Len(v)
      /\ \A k \in 1 .. Len(w) + Len(v) : (w \o v)[k] = IF k <= Len(w) THEN w[k] ELSE v[k - Len(w)]
  BY <1>2, <1>3, ConcatProperties
<1>5. PICK r : r = InsertAt(s, m, e)
  OBVIOUS
<1>6. r = w \o v
  BY <1>5 DEF InsertAt, u, v, w
<1>7. Len(r) = Len(s) + 1
  BY <1>0, <1>2, <1>3, <1>4, <1>6
<1>8. ASSUME NEW k \in 1 .. Len(r)
      PROVE  r[k] = IF k < m THEN s[k] ELSE IF k = m THEN e ELSE s[k - 1]
  <2>1. k \in 1 .. Len(w) + Len(v) /\ Len(w) = m /\ k \in Int
    BY <1>3, <1>4, <1>6, <1>8
  <2>2. r[k] = IF k <= m THEN w[k] ELSE v[k - m]
    BY <1>4, <1>6, <2>1
  <2>3. CASE k <= m
    BY <1>0, <1>3, <2>1, <2>2, <2>3
  <2>4. CASE k > m
    <3>1. k - m \in 1 .. Len(s) - m + 1 /\ m + (k - m) - 1 = k - 1
      BY <1>0, <1>7, <2>1, <2>4
    <3> QED BY <1>0, <1>2, <2>1, <2>2, <2>4, <3>1
  <2> QED BY <1>0, <2>1, <2>3, <2>4
<1>9. r \in Seq(S)
  BY <1>4, <1>6
<1>10. Placed(r, s, m, e)
  BY <1>0, <1>7, <1>8 DEF Placed
<1> QED BY <1>5, <1>9, <1>10

LEMMA PlacedElems ==
    ASSUME NEW r, NEW s \in Seq(Cells), NEW m, NEW e, Placed(r, s, m, e)
    PROVE  \A x : x \in Elems(r) <=> x \in Elems(s) \/ x = e
<1>0. Len(s) \in Nat /\ m \in Nat /\ m >= 1 /\ m <= Len(s) + 1 /\ Len(r) = Len(s) + 1
  BY LenProperties DEF Placed
<1>1. ASSUME NEW k \in 1 .. Len(r) PROVE r[k] \in Elems(s) \/ r[k] = e
  <2>1. k < m => k \in 1 .. Len(s)
    BY <1>0
  <2>2. k > m => k - 1 \in 1 .. Len(s)
    BY <1>0
  <2>3. r[k] = IF k < m THEN s[k] ELSE IF k = m THEN e ELSE s[k - 1]
    BY DEF Placed
  <2> QED BY <1>0, <2>1, <2>2, <2>3 DEF Elems
<1>2. ASSUME NEW k \in 1 .. Len(s) PROVE s[k] \in Elems(r)
  <2>1. CASE k < m
    <3>1. k \in 1 .. Len(r) /\ r[k] = s[k]
      BY <1>0, <2>1 DEF Placed
    <3> QED BY <3>1 DEF Elems
  <2>2. CASE k >= m
    <3>1. k + 1 \in 1 .. Len(r) /\ k + 1 - 1 = k /\ ~(k + 1 < m) /\ k + 1 # m
      BY <1>0, <2>2
    <3>2. r[k + 1] = s[k]
      BY <3>1 DEF Placed
    <3> QED BY <3>1, <3>2 DEF Elems
  <2> QED BY <1>0, <2>1, <2>2
<1>3. e \in Elems(r)
  <2>1. m \in 1 .. Len(r) /\ r[m] = e
    BY <1>0 DEF Placed
  <2> QED BY <2>1 DEF Elems
<1> QED BY <1>1, <1>2, <1>3 DEF Elems

LEMMA PlacedSorted ==
    ASSUME NEW c \in [Cells -> Int], NEW r, NEW s \in Seq(Cells), NEW m, NEW e \in Cells,
           Placed(r, s, m, e), SortedBy(c, s),
           \A k \in 1 .. Len(s) : IF k < m THEN costcmp(c, e, s[k]) ELSE costcmp(c, s[k], e)
    PROVE  SortedBy(c, r)
<1>0. Len(s) \in Nat /\ m \in Nat /\ m >= 1 /\ m <= Len(s) + 1 /\ Len(r) = Len(s) + 1
  BY LenProperties DEF Placed
<1> SUFFICES ASSUME NEW j \in 1 .. Len(r), NEW k \in 1 .. Len(r), j < k
             PROVE  costcmp(c, r[k], r[j])
  BY DEF SortedBy
<1>1. /\ r[k] = IF k < m THEN s[k] ELSE IF k = m THEN e ELSE s[k - 1]
      /\ r[j] = IF j < m THEN s[j] ELSE IF j = m THEN e ELSE s[j - 1]
  BY DEF Placed
<1>2. CASE k < m
  <2>1. j \in 1 .. Len(s) /\ k \in 1 .. Len(s) /\ r[j] = s[j] /\ r[k] = s[k]
    BY <1>0, <1>1, <1>2
  <2> QED BY <2>1 DEF SortedBy
<1>3. CASE k = m
  <2>1. j \in 1 .. Len(s) /\ r[j] = s[j] /\ r[k] = e /\ j < m
    BY <1>0, <1>1, <1>3
  <2> QED BY <2>1
<1>4. CASE k > m
  <2>0. k - 1 \in 1 .. Len(s) /\ r[k] = s[k - 1] /\ ~(k - 1 < m)
    BY <1>0, <1>1, <1>4
  <2>1. CASE j < m
    <3>1. j \in 1 .. Len(s) /\ r[j] = s[j] /\ j < k - 1
      BY <1>0, <1>1, <1>4, <2>1
    <3> QED BY <2>0, <3>1 DEF SortedBy
  <2>2. CASE j = m
    <3>1. r[j] = e
      BY <1>1, <2>2
    <3> QED BY <2>0, <3>1
  <2>3. CASE j > m
    <3>1. j - 1 \in 1 .. Len(s) /\ r[j] = s[j - 1] /\ j - 1 < k - 1
      BY <1>0, <1>1, <2>3
    <3> QED BY <2>0, <3>1 DEF SortedBy
  <2> QED BY <1>0, <2>1, <2>2, <2>3
<1> QED BY <1>0, <1>2, <1>3, <1>4

\* qadd puts a new cell where it belongs.
LEMMA QaddSorts ==
    ASSUME NEW c \in [Cells -> Int], NEW s \in Seq(Cells), NEW e \in Cells,
           SortedBy(c, s), e \notin Elems(s)
    PROVE  LET r == qadd(c, s, e)
           IN  /\ r \in Seq(Cells) /\ SortedBy(c, r)
               /\ \A x : x \in Elems(r) <=> x \in Elems(s) \/ x = e
<1> DEFINE after == {k \in 1 .. Len(s) : costcmp(c, s[k], e)}
<1>0. Len(s) \in Nat /\ \A k \in 1 .. Len(s) : s[k] \in Cells /\ s[k] # e
  BY ElementOfSeq, LenProperties DEF Elems
<1>1. CASE after = {}
  <2>1. PICK r : r = Append(s, e)
    OBVIOUS
  <2>2. r \in Seq(Cells) /\ Placed(r, s, Len(s) + 1, e)
    BY <1>0, <2>1, AppendProperties DEF Placed
  <2>3. \A k \in 1 .. Len(s) : costcmp(c, e, s[k])
    BY <1>0, <1>1, CostOrder
  <2>4. SortedBy(c, r)
    <3>1. \A k \in 1 .. Len(s) :
             IF k < Len(s) + 1 THEN costcmp(c, e, s[k]) ELSE costcmp(c, s[k], e)
      BY <1>0, <2>3
    <3> QED BY <2>2, <3>1, PlacedSorted
  <2>5. qadd(c, s, e) = r
    BY <1>1, <2>1 DEF qadd
  <2> QED BY <2>2, <2>4, <2>5, PlacedElems
<1>2. CASE after # {}
  <2> DEFINE m == CHOOSE k \in after : \A j \in after : k <= j
  <2>1. m \in after /\ \A j \in after : m <= j
    <3>1. after \in SUBSET Nat
      BY <1>0
    <3> HIDE DEF after
    <3> QED BY <1>2, <3>1, Least
  <2>2. PICK r : r = InsertAt(s, m, e)
    OBVIOUS
  <2>3. qadd(c, s, e) = r
    BY <1>2, <2>2 DEF qadd
  <2> HIDE DEF m
  <2>4. m \in 1 .. Len(s) /\ costcmp(c, s[m], e)
    BY <2>1
  <2>5. r \in Seq(Cells) /\ Placed(r, s, m, e)
    <3>1. m \in 1 .. Len(s) + 1
      BY <1>0, <2>4
    <3> QED BY <2>2, <3>1, InsertAtPlaces
  <2>6. ASSUME NEW k \in 1 .. Len(s)
        PROVE  IF k < m THEN costcmp(c, e, s[k]) ELSE costcmp(c, s[k], e)
    <3>1. CASE k < m
      <4>1. k \notin after
        BY <1>0, <2>1, <2>4, <3>1
      <4> QED BY <1>0, <3>1, <4>1, CostOrder
    <3>2. CASE k = m
      BY <1>0, <2>4, <3>2
    <3>3. CASE k > m
      <4>1. costcmp(c, s[k], s[m])
        BY <1>0, <2>4, <3>3 DEF SortedBy
      <4>2. s[k] \in Cells /\ s[m] \in Cells
        BY <1>0, <2>4
      <4>3. costcmp(c, s[k], e)
        BY <2>4, <4>1, <4>2, CostOrder
      <4> QED BY <1>0, <2>4, <3>3, <4>3
    <3> QED BY <1>0, <2>4, <3>1, <3>2, <3>3
  <2>7. SortedBy(c, r)
    BY <2>5, <2>6, PlacedSorted
  <2> QED BY <2>3, <2>5, <2>7, PlacedElems
<1> QED BY <1>1, <1>2

LEMMA SortedHead ==
    ASSUME NEW c \in [Cells -> Int], NEW s \in Seq(Cells), s # <<>>, SortedBy(c, s)
    PROVE  /\ Head(s) \in Cells /\ Tail(s) \in Seq(Cells) /\ SortedBy(c, Tail(s))
           /\ \A x : x \in Elems(s) <=> x = Head(s) \/ x \in Elems(Tail(s))
           /\ \A x \in Elems(Tail(s)) : costcmp(c, x, Head(s))
           /\ Head(s) \notin Elems(Tail(s))
<1>0. Len(s) \in Nat /\ Len(s) >= 1
  BY EmptySeq
<1>1. PICK t : t = Tail(s)
  OBVIOUS
<1>2. /\ t \in Seq(Cells) /\ Len(t) = Len(s) - 1
      /\ \A k \in 1 .. Len(t) : t[k] = s[k + 1]
  BY <1>1, HeadTailProperties
<1>3. Head(s) = s[1] /\ s[1] \in Cells
  BY <1>0, ElementOfSeq, 1 \in 1 .. Len(s)
<1>4. \A x \in Elems(t) : costcmp(c, x, s[1])
  <2>1. ASSUME NEW k \in 1 .. Len(t) PROVE costcmp(c, t[k], s[1])
    <3>1. k + 1 \in 1 .. Len(s) /\ 1 \in 1 .. Len(s) /\ 1 < k + 1
      BY <1>0, <1>2
    <3> QED BY <1>2, <3>1 DEF SortedBy
  <2> QED BY <2>1 DEF Elems
<1>5. SortedBy(c, t)
  <2>1. ASSUME NEW j \in 1 .. Len(t), NEW k \in 1 .. Len(t), j < k
        PROVE  costcmp(c, t[k], t[j])
    <3>1. k + 1 \in 1 .. Len(s) /\ j + 1 \in 1 .. Len(s) /\ j + 1 < k + 1
      BY <1>0, <1>2, <2>1
    <3> QED BY <1>2, <3>1 DEF SortedBy
  <2> QED BY <2>1 DEF SortedBy
<1>6. ASSUME NEW x PROVE x \in Elems(s) <=> x = s[1] \/ x \in Elems(t)
  <2>1. ASSUME NEW k \in 1 .. Len(s) PROVE s[k] = s[1] \/ s[k] \in Elems(t)
    <3>1. CASE k # 1
      <4>1. k - 1 \in 1 .. Len(t) /\ (k - 1) + 1 = k
        BY <1>0, <1>2, <3>1
      <4>2. t[k - 1] = s[k]
        BY <1>2, <4>1
      <4> QED BY <4>1, <4>2 DEF Elems
    <3> QED BY <3>1
  <2>2. ASSUME NEW k \in 1 .. Len(t) PROVE t[k] \in Elems(s)
    <3>1. k + 1 \in 1 .. Len(s)
      BY <1>0, <1>2
    <3> QED BY <1>2, <3>1 DEF Elems
  <2>3. s[1] \in Elems(s)
    BY <1>0, 1 \in 1 .. Len(s) DEF Elems
  <2> QED BY <2>1, <2>2, <2>3 DEF Elems
<1>7. s[1] \notin Elems(t)
  BY <1>3, <1>4, CostOrder
<1> QED BY <1>1, <1>2, <1>3, <1>4, <1>5, <1>6, <1>7

\* The neighbours of an inner cell, in any order.
LEMMA AroundIs ==
    ASSUME NEW c \in Inner
    PROVE  /\ \A k \in 1 .. 4 : Around(c)[k] \in Cells /\ Adjacent(c, Around(c)[k])
           /\ \A n \in Cells : Adjacent(c, n) => \E k \in 1 .. 4 : n = Around(c)[k]
<1>0. /\ c[1] \in 1 .. Size - 2 /\ c[2] \in 1 .. Size - 2 /\ Size \in Nat
      /\ 1 .. 4 = {1, 2, 3, 4}
  BY ShortPathAssumption DEF Inner
<1>1. /\ Around(c)[1] = <<c[1] + 1, c[2]>> /\ Around(c)[2] = <<c[1] - 1, c[2]>>
      /\ Around(c)[3] = <<c[1], c[2] + 1>> /\ Around(c)[4] = <<c[1], c[2] - 1>>
  BY DEF Around
<1>2. \A k \in {1, 2, 3, 4} : Around(c)[k] \in Cells /\ Adjacent(c, Around(c)[k])
  <2>1. /\ c[1] + 1 \in 0 .. Size - 1 /\ c[1] - 1 \in 0 .. Size - 1 /\ c[1] \in 0 .. Size - 1
        /\ c[2] + 1 \in 0 .. Size - 1 /\ c[2] - 1 \in 0 .. Size - 1 /\ c[2] \in 0 .. Size - 1
    BY <1>0
  <2>2. \A y, x \in 0 .. Size - 1 : <<y, x>> \in Cells
    BY DEF Cells
  <2>3. \A k \in {1, 2, 3, 4} : Around(c)[k] \in Cells
    BY <1>1, <2>1, <2>2
  <2>4. /\ Adjacent(c, <<c[1] + 1, c[2]>>) /\ Adjacent(c, <<c[1] - 1, c[2]>>)
        /\ Adjacent(c, <<c[1], c[2] + 1>>) /\ Adjacent(c, <<c[1], c[2] - 1>>)
    BY <1>0 DEF Adjacent
  <2> QED BY <1>1, <2>3, <2>4
<1>3. ASSUME NEW n \in Cells, Adjacent(c, n) PROVE \E k \in {1, 2, 3, 4} : n = Around(c)[k]
  <2>1. n = <<n[1], n[2]>> /\ n[1] \in Int /\ n[2] \in Int
    BY CellsType
  <2> QED BY <1>0, <1>1, <1>3, <2>1 DEF Adjacent
<1> QED BY <1>0, <1>2, <1>3

-----------------------------------------------------------------------------
(* The invariant of the search *)

GridOK == /\ src \in Free /\ dst \in Free /\ src # dst
          /\ Free \subseteq Inner

TypesOK == /\ cost \in [Cells -> Int]
           /\ parent \in [Cells -> Cells \cup {NoCell}]
           /\ q \in Seq(Cells)

\* The cells that were the first one, once.
Settled(x) == cost[x] >= 0 /\ x \notin Elems(q)

\* The queue is sorted, its costs are those of the head or one more, and what is
\* settled came before it.
QueueInv ==
    /\ SortedBy(cost, q)
    /\ \A x \in Elems(q) : /\ x \in Free /\ cost[x] >= 0
                           /\ cost[x] <= cost[Head(q)] + 1
                           /\ \A c \in Cells : Settled(c) => costcmp(cost, x, c)

\* A settled cell has reached its neighbours; a cell that was reached hangs on the
\* first of the nearer ones.
TreeInv ==
    /\ \A c \in Cells : cost[c] = 0 <=> c = src
    /\ cost[dst] >= 0 => dst \in Elems(q)
    /\ \A c \in Cells : Settled(c) =>
          c \in Free /\ \A n \in Free : Adjacent(c, n) => cost[n] \in 0 .. cost[c] + 1
    /\ \A c \in Cells : cost[c] > 0 =>
          LET p == parent[c]
          IN  /\ p \in Free /\ Settled(p) /\ Adjacent(p, c) /\ cost[p] = cost[c] - 1
              /\ \A n \in Free : Adjacent(n, c) /\ cost[n] = cost[p] => n = p \/ YXBefore(p, n)

Searching == /\ GridOK
             /\ TypesOK
             /\ \A c \in Cells : cost[c] >= -1
             /\ QueueInv
             /\ TreeInv

LEMMA FreeCells == \A x \in Free : x \in Cells /\ x \notin wall
  BY DEF Free

\* No cell costs more than one step from the head.
Near(c) == /\ c \in Cells /\ cost[c] >= 0
           /\ \A x \in Cells : /\ cost[x] <= cost[c] + 1
                               /\ cost[x] < 0 => x \notin Elems(Tail(q))

LEMMA HeadIsNear ==
    ASSUME Searching, q # <<>>
    PROVE  Near(Head(q)) /\ Head(q) \in Free
<1> USE DEF Searching, TypesOK, QueueInv
<1>1. /\ Head(q) \in Cells
      /\ \A x : x \in Elems(q) <=> x = Head(q) \/ x \in Elems(Tail(q))
  BY SortedHead
<1>2. Head(q) \in Free /\ cost[Head(q)] >= 0
  BY <1>1
<1>3. ASSUME NEW x \in Cells
      PROVE  cost[x] <= cost[Head(q)] + 1 /\ (cost[x] < 0 => x \notin Elems(Tail(q)))
  <2>1. cost[x] \in Int /\ cost[Head(q)] \in Int
    BY <1>1
  <2>2. CASE x \in Elems(q)
    BY <1>1, <2>1, <2>2
  <2>3. CASE Settled(x)
    <3>1. costcmp(cost, Head(q), x)
      BY <1>1, <2>3
    <3> QED BY <1>1, <2>1, <2>3, <3>1 DEF costcmp, Settled
  <2>4. CASE cost[x] < 0
    BY <1>1, <1>2, <2>1, <2>4
  <2> QED BY <2>1, <2>2, <2>3, <2>4 DEF Settled
<1> QED BY <1>1, <1>2, <1>3 DEF Near

-----------------------------------------------------------------------------
(* A turn of the search *)

Same(s, x) == /\ s.cost[x] = cost[x] /\ s.parent[x] = parent[x]
              /\ x \in Elems(s.q) <=> x \in Elems(Tail(q))

New(s, c, x) == /\ cost[x] < 0 /\ x \in Free /\ Adjacent(c, x)
                /\ s.cost[x] = cost[c] + 1 /\ s.parent[x] = c
                /\ x \in Elems(s.q)

\* The search in the midst of the neighbours of c.
Mid(s, c) == /\ s.cost \in [Cells -> Int]
             /\ s.parent \in [Cells -> Cells \cup {NoCell}]
             /\ s.q \in Seq(Cells)
             /\ SortedBy(s.cost, s.q)
             /\ \A x \in Cells : Same(s, x) \/ New(s, c, x)

\* A cell that was not reached gets its cost, its parent and its place.
Reaches(s, t, c, n) ==
    /\ t.cost = [s.cost EXCEPT ![n] = s.cost[c] + 1]
    /\ t.parent = [s.parent EXCEPT ![n] = c]
    /\ t.q = qadd(t.cost, s.q, n)

LEMMA ReachesKeeps ==
    ASSUME TypesOK, NEW c, Near(c), NEW s, NEW t, NEW n \in Free, Mid(s, c), Adjacent(c, n),
           s.cost[n] < 0, Reaches(s, t, c, n)
    PROVE  /\ Mid(t, c) /\ t.cost[n] >= 0
           /\ \A x \in Cells : s.cost[x] >= 0 => t.cost[x] >= 0
<1>0. n \in Cells /\ c \in Cells /\ cost[c] \in Int /\ cost[c] >= 0
  BY FreeCells DEF Near, TypesOK
<1>1. s.cost[c] = cost[c]
  BY <1>0 DEF Mid, Same, New
<1>2. cost[n] < 0 /\ n \notin Elems(s.q)
  <2>1. Same(s, n)
    BY <1>0 DEF Mid, New
  <2> QED BY <1>0, <2>1 DEF Same, Near
<1>3. t.cost \in [Cells -> Int] /\ t.parent \in [Cells -> Cells \cup {NoCell}]
  BY <1>0, <1>1 DEF Reaches, Mid
<1>4. SortedBy(t.cost, s.q)
  <2>1. ASSUME NEW j \in 1 .. Len(s.q), NEW k \in 1 .. Len(s.q), j < k
        PROVE  costcmp(t.cost, s.q[k], s.q[j])
    <3>1. s.q[j] \in Cells /\ s.q[k] \in Cells /\ s.q[j] # n /\ s.q[k] # n
      BY <1>2, ElementOfSeq DEF Elems, Mid
    <3>2. t.cost[s.q[j]] = s.cost[s.q[j]] /\ t.cost[s.q[k]] = s.cost[s.q[k]]
      BY <3>1 DEF Reaches, Mid
    <3>3. costcmp(s.cost, s.q[k], s.q[j])
      BY <2>1 DEF Mid, SortedBy
    <3> QED BY <3>2, <3>3 DEF costcmp
  <2> QED BY <2>1 DEF SortedBy
<1>5. /\ t.q \in Seq(Cells) /\ SortedBy(t.cost, t.q)
      /\ \A x : x \in Elems(t.q) <=> x \in Elems(s.q) \/ x = n
  <2>1. s.q \in Seq(Cells)
    BY DEF Mid
  <2>2. /\ qadd(t.cost, s.q, n) \in Seq(Cells) /\ SortedBy(t.cost, qadd(t.cost, s.q, n))
        /\ \A x : x \in Elems(qadd(t.cost, s.q, n)) <=> x \in Elems(s.q) \/ x = n
    BY <1>0, <1>2, <1>3, <1>4, <2>1, QaddSorts
  <2> QED BY <2>2 DEF Reaches
<1>6. New(t, c, n)
  BY <1>0, <1>1, <1>2, <1>5 DEF Reaches, New, Mid
<1>7. ASSUME NEW x \in Cells, x # n PROVE Same(t, x) \/ New(t, c, x)
  <2>1. t.cost[x] = s.cost[x] /\ t.parent[x] = s.parent[x]
    BY <1>7 DEF Reaches, Mid
  <2>2. x \in Elems(t.q) <=> x \in Elems(s.q)
    BY <1>5, <1>7
  <2>3. Same(s, x) \/ New(s, c, x)
    BY DEF Mid
  <2> QED BY <2>1, <2>2, <2>3 DEF Same, New
<1>8. Mid(t, c)
  BY <1>3, <1>5, <1>6, <1>7 DEF Mid
<1>9. \A x \in Cells : s.cost[x] >= 0 => t.cost[x] >= 0
  <2>1. \A x \in Cells : x # n => t.cost[x] = s.cost[x]
    BY DEF Reaches, Mid
  <2>2. t.cost[n] >= 0
    BY <1>0, <1>6 DEF New
  <2> QED BY <2>1, <2>2
<1>10. t.cost[n] >= 0
  BY <1>0, <1>6 DEF New
<1> QED BY <1>8, <1>9, <1>10

LEMMA VisitKeeps ==
    ASSUME TypesOK, NEW c, Near(c), NEW s, NEW n \in Cells, Mid(s, c), Adjacent(c, n)
    PROVE  /\ Mid(Visit(s, c, n), c)
           /\ n \in Free => Visit(s, c, n).cost[n] >= 0
           /\ \A x \in Cells : s.cost[x] >= 0 => Visit(s, c, n).cost[x] >= 0
<1>0. c \in Cells /\ cost[c] \in Int /\ cost[c] >= 0 /\ s.cost[n] \in Int
  BY DEF Near, TypesOK, Mid
<1>1. s.cost[c] = cost[c]
  BY <1>0 DEF Mid, Same, New
<1>2. s.cost[n] <= s.cost[c] + 1
  <2>1. Same(s, n) \/ New(s, c, n)
    BY DEF Mid
  <2> QED BY <1>0, <1>1, <2>1 DEF Same, New, Near
<1>3. CASE n \in wall \/ s.cost[n] >= 0
  <2>1. Visit(s, c, n) = s
    BY <1>2, <1>3 DEF Visit
  <2> QED BY <1>3, <2>1 DEF Free
<1>4. CASE n \notin wall /\ s.cost[n] < 0
  <2>1. n \in Free
    BY <1>4 DEF Free
  <2>2. qdel(s.q, n) = s.q
    <3>1. n \notin Elems(s.q)
      <4>1. Same(s, n)
        BY <1>0, <1>4 DEF Mid, New
      <4> QED BY <1>0, <1>4, <4>1 DEF Same, Near
    <3> QED BY <3>1 DEF qdel, Elems
  <2>3. PICK t : t = Visit(s, c, n)
    OBVIOUS
  <2>4. Reaches(s, t, c, n)
    BY <1>0, <1>4, <2>2, <2>3 DEF Visit, Reaches
  <2>5. /\ Mid(t, c) /\ t.cost[n] >= 0
        /\ \A x \in Cells : s.cost[x] >= 0 => t.cost[x] >= 0
    BY <1>4, <2>1, <2>4, ReachesKeeps
  <2> QED BY <2>3, <2>5
<1> QED BY <1>0, <1>3, <1>4

\* What a turn leaves: nothing changed but for the neighbours that were not reached,
\* and now all are.
Expanded(c, s) == /\ Mid(s, c)
                  /\ \A n \in Free : Adjacent(c, n) => s.cost[n] >= 0

After == [cost |-> cost', parent |-> parent', q |-> q']

LEMMA ExpandVisits ==
    ASSUME Searching, Expand
    PROVE  Expanded(Head(q), After)
<1>0. PICK c : c = Head(q)
  OBVIOUS
<1>1. TypesOK /\ Near(c) /\ c \in Inner /\ q # <<>>
  BY <1>0, HeadIsNear DEF Searching, Expand, GridOK
<1>2. /\ \A k \in 1 .. 4 : Around(c)[k] \in Cells /\ Adjacent(c, Around(c)[k])
      /\ \A n \in Cells : Adjacent(c, n) => \E k \in 1 .. 4 : n = Around(c)[k]
  BY <1>1, AroundIs
<1> DEFINE s0 == [cost |-> cost, parent |-> parent, q |-> Tail(q)]
           s1 == Visit(s0, c, Around(c)[1])
           s2 == Visit(s1, c, Around(c)[2])
           s3 == Visit(s2, c, Around(c)[3])
           s4 == Visit(s3, c, Around(c)[4])
<1>3. Mid(s0, c)
  <2>1. Tail(q) \in Seq(Cells) /\ SortedBy(cost, Tail(q))
    BY <1>1, SortedHead DEF Searching, QueueInv, TypesOK
  <2>2. \A x \in Cells : Same(s0, x)
    BY DEF Same
  <2> QED BY <1>1, <2>1, <2>2 DEF Mid, TypesOK
<1>4. cost' = s4.cost /\ parent' = s4.parent /\ q' = s4.q
  BY <1>0 DEF Expand
<1> HIDE DEF s0
<1>5. /\ Mid(s1, c)
      /\ Around(c)[1] \in Free => s1.cost[Around(c)[1]] >= 0
  BY <1>1, <1>2, <1>3, VisitKeeps
<1> HIDE DEF s1
<1>6. /\ Mid(s2, c)
      /\ Around(c)[2] \in Free => s2.cost[Around(c)[2]] >= 0
      /\ \A x \in Cells : s1.cost[x] >= 0 => s2.cost[x] >= 0
  BY <1>1, <1>2, <1>5, VisitKeeps
<1> HIDE DEF s2
<1>7. /\ Mid(s3, c)
      /\ Around(c)[3] \in Free => s3.cost[Around(c)[3]] >= 0
      /\ \A x \in Cells : s2.cost[x] >= 0 => s3.cost[x] >= 0
  BY <1>1, <1>2, <1>6, VisitKeeps
<1> HIDE DEF s3
<1>8. /\ Mid(s4, c)
      /\ Around(c)[4] \in Free => s4.cost[Around(c)[4]] >= 0
      /\ \A x \in Cells : s3.cost[x] >= 0 => s4.cost[x] >= 0
  BY <1>1, <1>2, <1>7, VisitKeeps
<1> HIDE DEF s4
<1>9. ASSUME NEW n \in Free, Adjacent(c, n) PROVE s4.cost[n] >= 0
  <2>1. PICK k \in 1 .. 4 : n = Around(c)[k]
    BY <1>2, <1>9, FreeCells
  <2>2. k = 1 \/ k = 2 \/ k = 3 \/ k = 4
    OBVIOUS
  <2>3. n \in Cells
    BY FreeCells
  <2> QED BY <1>5, <1>6, <1>7, <1>8, <2>1, <2>2, <2>3
<1>10. After.cost = s4.cost /\ After.parent = s4.parent /\ After.q = s4.q
  BY <1>4 DEF After
<1>11. Mid(After, c)
  BY <1>8, <1>10 DEF Mid, Same, New
<1>12. \A n \in Free : Adjacent(c, n) => After.cost[n] >= 0
  BY <1>9, <1>10
<1> QED BY <1>0, <1>11, <1>12 DEF Expanded

\* A cell keeps what it has, or it is new.
Kept(x) == /\ cost'[x] = cost[x] /\ parent'[x] = parent[x]
           /\ x \in Elems(q') <=> x \in Elems(q) /\ x # Head(q)

Fresh(x) == /\ cost[x] < 0 /\ x \in Free /\ Adjacent(Head(q), x)
             /\ cost'[x] = cost[Head(q)] + 1 /\ parent'[x] = Head(q)
             /\ x \in Elems(q')

LEMMA ExpandIs ==
    ASSUME Searching, Expand
    PROVE  /\ TypesOK' /\ SortedBy(cost', q')
           /\ \A x \in Cells : Kept(x) \/ Fresh(x)
           /\ \A n \in Free : Adjacent(Head(q), n) => cost'[n] >= 0
<1>1. Expanded(Head(q), After)
  BY ExpandVisits
<1>2. After.cost = cost' /\ After.parent = parent' /\ After.q = q'
  BY DEF After
<1>3. \A x : x \in Elems(Tail(q)) <=> x \in Elems(q) /\ x # Head(q)
  BY SortedHead DEF Searching, TypesOK, QueueInv, Expand
<1>4. ASSUME NEW x \in Cells PROVE Kept(x) \/ Fresh(x)
  <2>1. Same(After, x) \/ New(After, Head(q), x)
    BY <1>1 DEF Expanded, Mid
  <2> QED BY <1>2, <1>3, <2>1 DEF Same, New, Kept, Fresh
<1>5. TypesOK' /\ SortedBy(cost', q')
  BY <1>1, <1>2 DEF Expanded, Mid, TypesOK
<1>6. \A n \in Free : Adjacent(Head(q), n) => cost'[n] >= 0
  BY <1>1, <1>2 DEF Expanded
<1> QED BY <1>4, <1>5, <1>6

LEMMA ExpandSearching == ASSUME Searching, Expand PROVE Searching'
<1>0. PICK c : c = Head(q)
  OBVIOUS
<1>1. /\ Near(c) /\ c \in Free /\ c \in Cells /\ c \in Elems(q) /\ c # dst /\ q # <<>>
      /\ UNCHANGED <<wall, src, dst>>
  <2>1. Head(q) \in Elems(q)
    BY SortedHead DEF Searching, TypesOK, QueueInv, Expand
  <2> QED BY <1>0, <2>1, HeadIsNear DEF Expand, Near
<1>2. /\ TypesOK' /\ SortedBy(cost', q')
      /\ \A x \in Cells : Kept(x) \/ Fresh(x)
      /\ \A n \in Free : Adjacent(c, n) => cost'[n] >= 0
  BY <1>0, ExpandIs
<1>3. /\ cost \in [Cells -> Int] /\ cost' \in [Cells -> Int] /\ q \in Seq(Cells) /\ q' \in Seq(Cells)
      /\ \A x \in Cells : cost[x] \in Int /\ cost'[x] \in Int /\ cost[x] >= -1
  BY <1>2 DEF Searching, TypesOK
<1>4. Free' = Free
  BY <1>1 DEF Free
<1>5. GridOK'
  BY <1>1, <1>4 DEF Searching, GridOK
<1>h. PICK h : h = cost[c]
  OBVIOUS
<1>6. /\ h \in Int /\ h >= 0 /\ h = cost[c]
      /\ \A x \in Cells : cost[x] <= h + 1
  BY <1>1, <1>3, <1>h DEF Near
\* What was reached stays, what is new costs one more than c.
<1>7. ASSUME NEW x \in Cells
      PROVE  \/ Kept(x) /\ cost'[x] = cost[x]
             \/ Fresh(x) /\ cost[x] < 0 /\ cost'[x] = h + 1 /\ x # c
  BY <1>0, <1>1, <1>2, <1>3, <1>6, <1>h DEF Kept, Fresh
<1>8. \A x \in Cells : cost'[x] >= -1
  <2>1. ASSUME NEW x \in Cells PROVE cost'[x] >= -1
    <3>1. cost'[x] = cost[x] \/ cost'[x] = h + 1
      BY <1>7
    <3> QED BY <1>3, <1>6, <3>1
  <2> QED BY <2>1
<1>9. \A x \in Cells : x \in Elems(q) => cost[x] \in h .. h + 1
  <2>1. ASSUME NEW x \in Cells, x \in Elems(q) PROVE cost[x] >= h
    <3>1. x = c \/ costcmp(cost, x, c)
      BY <1>0, <1>1, <2>1, SortedHead DEF Searching, TypesOK, QueueInv
    <3> QED BY <1>3, <1>6, <3>1 DEF costcmp
  <2> QED BY <1>3, <1>6, <2>1
\* What is settled now was so before, or is c.
<1>10. \A x \in Cells : Settled(x)' <=> Settled(x) \/ x = c
  <2>1. ASSUME NEW x \in Cells PROVE Settled(x)' <=> Settled(x) \/ x = c
    <3>1. CASE Kept(x)
      BY <1>0, <1>1, <1>6, <3>1 DEF Kept, Settled
    <3>2. CASE Fresh(x)
      BY <1>0, <1>1, <1>3, <1>6, <3>2 DEF Fresh, Settled
    <3> QED BY <1>7, <3>1, <3>2
  <2> QED BY <2>1
<1>11. \A x \in Cells : Settled(x) => cost[x] \in 0 .. h /\ (x = c \/ costcmp(cost, c, x))
  <2>1. ASSUME NEW x \in Cells, Settled(x) PROVE costcmp(cost, c, x)
    BY <1>1, <2>1 DEF Searching, QueueInv
  <2> QED BY <1>3, <1>6, <2>1 DEF costcmp, Settled
<1>12. QueueInv'
  <2>1. ASSUME NEW x \in Elems(q')
        PROVE  /\ x \in Free /\ cost'[x] \in h .. h + 1
               /\ \A y \in Cells : Settled(y)' => costcmp(cost', x, y)
    <3>0. x \in Cells
      BY <1>3, <2>1, ElementOfSeq DEF Elems
    <3>1. CASE Kept(x)
      <4>1. x \in Elems(q) /\ x # c /\ cost'[x] = cost[x]
        BY <1>0, <2>1, <3>1 DEF Kept
      <4>2. costcmp(cost, x, c)
        BY <1>0, <1>1, <4>1, SortedHead DEF Searching, TypesOK, QueueInv
      <4>3. ASSUME NEW y \in Cells, Settled(y)' PROVE costcmp(cost', x, y)
        <5>1. costcmp(cost, x, y)
          BY <1>10, <4>1, <4>2, <4>3 DEF Searching, QueueInv
        <5>2. cost'[y] = cost[y]
          BY <1>1, <1>7, <1>10, <4>3 DEF Fresh, Settled
        <5> QED BY <4>1, <5>1, <5>2 DEF costcmp
      <4> QED BY <1>9, <3>0, <4>1, <4>3 DEF Searching, QueueInv
    <3>2. CASE Fresh(x)
      <4>1. x \in Free /\ cost'[x] = h + 1
        BY <1>0, <1>6, <3>2 DEF Fresh
      <4>2. ASSUME NEW y \in Cells, Settled(y)' PROVE costcmp(cost', x, y)
        <5>1. cost[y] \in 0 .. h
          BY <1>6, <1>10, <1>11, <4>2
        <5>2. cost'[y] = cost[y]
          BY <1>3, <1>7, <5>1
        <5> QED BY <1>3, <1>6, <4>1, <5>1, <5>2 DEF costcmp
      <4> QED BY <1>6, <4>1, <4>2
    <3> QED BY <1>7, <3>0, <3>1, <3>2
  <2>2. ASSUME NEW x \in Elems(q') PROVE cost'[x] >= 0 /\ cost'[x] <= cost'[Head(q')] + 1
    <3>1. q' # <<>>
      BY <2>2 DEF Elems
    <3>2. Head(q') \in Elems(q')
      BY <1>2, <1>3, <3>1, SortedHead
    <3>3. cost'[x] \in h .. h + 1 /\ cost'[Head(q')] \in h .. h + 1
      BY <2>1, <3>2
    <3> QED BY <1>6, <3>3
  <2> QED BY <1>2, <1>4, <2>1, <2>2 DEF QueueInv
<1>13. TreeInv'
  <2>0. TreeInv
    BY DEF Searching
  <2>1. \A x \in Cells : cost'[x] = 0 <=> x = src'
    BY <1>1, <1>3, <1>6, <1>7, <2>0 DEF TreeInv
  <2>2. cost'[dst'] >= 0 => dst' \in Elems(q')
    <3>1. dst \in Cells
      BY FreeCells DEF Searching, GridOK
    <3> QED BY <1>0, <1>1, <1>7, <2>0, <3>1 DEF TreeInv, Kept, Fresh
  <2>3. ASSUME NEW x \in Cells, Settled(x)'
        PROVE  x \in Free /\ \A n \in Free : Adjacent(x, n) => cost'[n] \in 0 .. cost'[x] + 1
    <3>1. CASE x = c
      <4>1. cost'[c] = h
        BY <1>1, <1>6, <1>7
      <4>2. ASSUME NEW n \in Free, Adjacent(x, n) PROVE cost'[n] \in 0 .. h + 1
        <5>1. n \in Cells /\ cost'[n] >= 0
          BY <1>2, <3>1, <4>2, FreeCells
        <5>2. cost'[n] = cost[n] \/ cost'[n] = h + 1
          BY <1>7, <5>1
        <5> QED BY <1>3, <1>6, <5>1, <5>2
      <4> QED BY <1>1, <3>1, <4>1, <4>2
    <3>2. CASE x # c
      <4>1. Settled(x)
        BY <1>10, <2>3, <3>2
      <4>2. cost'[x] = cost[x]
        BY <1>3, <1>7, <4>1 DEF Settled
      <4>3. ASSUME NEW n \in Free, Adjacent(x, n) PROVE cost'[n] \in 0 .. cost'[x] + 1
        <5>1. n \in Cells /\ cost[n] \in 0 .. cost[x] + 1
          BY <2>0, <4>1, <4>3, FreeCells DEF TreeInv
        <5>2. cost'[n] = cost[n]
          BY <1>3, <1>7, <5>1
        <5> QED BY <4>2, <5>1, <5>2
      <4> QED BY <2>0, <4>1, <4>3 DEF TreeInv
    <3> QED BY <3>1, <3>2
  <2>4. ASSUME NEW x \in Cells, cost'[x] > 0, NEW p, p = parent'[x]
        PROVE  /\ p \in Free /\ Settled(p)' /\ Adjacent(p, x) /\ cost'[p] = cost'[x] - 1
               /\ \A n \in Free : Adjacent(n, x) /\ cost'[n] = cost'[p] => n = p \/ YXBefore(p, n)
    <3>1. CASE Kept(x)
      <4>1. cost'[x] = cost[x] /\ cost[x] > 0 /\ p = parent[x]
        BY <2>4, <3>1 DEF Kept
      <4>2. /\ p \in Free /\ Settled(p) /\ Adjacent(p, x) /\ cost[p] = cost[x] - 1
            /\ \A n \in Free : Adjacent(n, x) /\ cost[n] = cost[p] => n = p \/ YXBefore(p, n)
        BY <2>0, <4>1 DEF TreeInv
      <4>3. p \in Cells /\ cost'[p] = cost[p] /\ Settled(p)'
        <5>1. p \in Cells /\ cost[p] >= 0
          BY <4>2, FreeCells DEF Settled
        <5>2. cost'[p] = cost[p]
          BY <1>3, <1>7, <5>1
        <5> QED BY <1>10, <4>2, <5>1, <5>2
      <4>4. ASSUME NEW n \in Free, Adjacent(n, x), cost'[n] = cost'[p] PROVE n = p \/ YXBefore(p, n)
        <5>1. n \in Cells /\ cost'[n] <= h
          BY <1>3, <1>6, <4>1, <4>2, <4>3, <4>4, FreeCells
        <5>2. cost[n] = cost[p]
          BY <1>3, <1>6, <1>7, <4>3, <4>4, <5>1
        <5> QED BY <4>2, <4>4, <5>2
      <4> QED BY <4>1, <4>2, <4>3, <4>4
    <3>2. CASE Fresh(x)
      <4>1. p = c /\ Adjacent(c, x) /\ cost'[x] = h + 1 /\ cost[x] < 0 /\ x \in Free
        BY <1>0, <1>6, <2>4, <3>2 DEF Fresh
      <4>2. Settled(c)' /\ cost'[c] = h
        BY <1>1, <1>6, <1>7, <1>10
      <4>3. ASSUME NEW n \in Free, Adjacent(n, x), cost'[n] = h PROVE n = c \/ YXBefore(c, n)
        <5>1. n \in Cells /\ cost[n] = h
          BY <1>3, <1>6, <1>7, <4>3, FreeCells
        <5>2. ~Settled(n)
          <6>1. ~(cost[x] \in 0 .. cost[n] + 1)
            BY <4>1, <1>3, <5>1
          <6> QED BY <2>0, <4>1, <4>3, <5>1, <6>1 DEF TreeInv
        <5>3. n \in Elems(q)
          BY <1>6, <5>1, <5>2 DEF Settled
        <5>4. n = c \/ costcmp(cost, n, c)
          BY <1>0, <1>1, <5>3, SortedHead DEF Searching, TypesOK, QueueInv
        <5> QED BY <1>6, <5>1, <5>4 DEF costcmp, YXBefore
      <4> QED BY <1>1, <1>6, <4>1, <4>2, <4>3
    <3> QED BY <1>7, <3>1, <3>2
  <2> QED BY <1>1, <1>4, <2>1, <2>2, <2>3, <2>4 DEF TreeInv
<1> QED BY <1>2, <1>5, <1>8, <1>12, <1>13 DEF Searching

LEMMA BeginSearching == ASSUME Begin PROVE Searching'
<1>1. PICK s \in Inner, d \in Inner, B \in SUBSET Inner :
          /\ s # d /\ src' = s /\ dst' = d
          /\ wall' = (Cells \ Inner) \cup (B \ {s, d})
  BY DEF Begin, popgrid
<1>2. Inner \subseteq Cells
  BY ShortPathAssumption DEF Inner, Cells
<1>3. GridOK'
  BY <1>1, <1>2 DEF GridOK, Free
<1>4. /\ cost' \in [Cells -> Int] /\ cost'[s] = 0
      /\ \A c \in Cells : c # s => cost'[c] = -1
  BY <1>1, <1>2 DEF Begin
<1>5. q' = <<s>> /\ q' \in Seq(Cells) /\ Len(q') = 1 /\ q'[1] = s /\ Head(q') = s
  BY <1>1, <1>2 DEF Begin
<1>6. \A x : x \in Elems(q') <=> x = s
  BY <1>5 DEF Elems
<1>7. TypesOK'
  BY <1>4, <1>5 DEF TypesOK, Begin
<1>8. \A c \in Cells : ~Settled(c)'
  BY <1>4, <1>6 DEF Settled
<1>9. QueueInv'
  <2>1. SortedBy(cost', q')
    BY <1>5 DEF SortedBy
  <2>2. s \in Free'
    BY <1>1, <1>2 DEF Free
  <2> QED BY <1>4, <1>5, <1>6, <1>8, <2>1, <2>2 DEF QueueInv
<1>10. TreeInv'
  <2>1. dst' \in Cells /\ dst' # s
    BY <1>1, <1>2
  <2> QED BY <1>1, <1>4, <1>8, <2>1 DEF TreeInv
<1>11. \A c \in Cells : cost'[c] >= -1
  BY <1>4
<1> QED BY <1>3, <1>7, <1>9, <1>10, <1>11 DEF Searching

SearchInv == spc = "search" => Searching

LEMMA InitSearchInv == SPInit => SearchInv
  BY DEF SPInit, SearchInv

LEMMA NextSearchInv == SearchInv /\ [SPNext \/ NoSearch]_spvars => SearchInv'
<1> SUFFICES ASSUME SearchInv, [SPNext \/ NoSearch]_spvars PROVE SearchInv'
  OBVIOUS
<1>1. CASE Begin
  BY <1>1, BeginSearching DEF SearchInv
<1>2. CASE Expand
  BY <1>2, ExpandSearching DEF SearchInv, Expand
<1>3. CASE Found \/ NotFound
  BY <1>3 DEF Found, NotFound, SearchInv
<1>4. CASE Back
  BY <1>4 DEF Back, SearchInv
<1>5. CASE Emit \/ NoSearch
  BY <1>5 DEF Emit, NoSearch, SearchInv
<1>6. CASE UNCHANGED spvars
  BY <1>6 DEF spvars, SearchInv, Searching, GridOK, TypesOK, Free, QueueInv, TreeInv, Settled
<1> QED BY <1>1, <1>2, <1>3, <1>4, <1>5, <1>6 DEF SPNext

\* On every grid, a cell's parent is the first by y, then x, of the neighbours that
\* are one step nearer, whatever the order of the directions (shortpath.c:53-62,
\* 294-307).
THEOREM ParentIsTheFirst == SPSpec => []ParentIsFirst
<1>1. SearchInv => ParentIsFirst
  <2> SUFFICES ASSUME Searching, NEW c \in Cells, cost[c] > 0, NEW p, p = parent[c]
               PROVE  /\ p \in Free /\ Adjacent(p, c) /\ cost[p] = cost[c] - 1
                      /\ \A n \in Free : Adjacent(n, c) /\ cost[n] = cost[c] - 1 /\ n # p =>
                            YXBefore(p, n)
    BY DEF SearchInv, ParentIsFirst
  <2> QED BY DEF Searching, TreeInv
<1> QED BY InitSearchInv, NextSearchInv, <1>1, PTL DEF SPSpec

\* On every grid, a cell that was reached is never improved (shortpath.c:300-307).
THEOREM CellsAreSettledOnce == SPSpec => ReachedIsSettled
<1>1. ASSUME SearchInv, [SPNext \/ NoSearch]_spvars
      PROVE  [spc = "search" /\ spc' = "search" =>
                \A c \in Cells : cost[c] >= 0 => cost'[c] = cost[c] /\ parent'[c] = parent[c]]_spvars
  <2> SUFFICES ASSUME SPNext \/ NoSearch, spc = "search", spc' = "search",
                      NEW c \in Cells, cost[c] >= 0
               PROVE  cost'[c] = cost[c] /\ parent'[c] = parent[c]
    BY <1>1
  <2>1. Expand
    BY DEF SPNext, NoSearch, Begin, Found, NotFound, Back, Emit
  <2>2. Kept(c) \/ Fresh(c)
    BY <1>1, <2>1, ExpandIs DEF SearchInv
  <2>3. cost[c] \in Int
    BY <1>1 DEF SearchInv, Searching, TypesOK
  <2> QED BY <2>2, <2>3 DEF Kept, Fresh
<1> QED BY InitSearchInv, NextSearchInv, <1>1, PTL DEF SPSpec, ReachedIsSettled

-----------------------------------------------------------------------------
(* Balls *)

Grow(b) == b \cup {c \in Free : \E x \in b : Adjacent(x, c)}

\* f is Ball up to n.
BallTo(f, n) == f[0] = {src} /\ \A k \in 1 .. n : f[k] = Grow(f[k - 1])

LEMMA BallToExists == \A n \in Nat : \E f : BallTo(f, n)
<1> DEFINE N == {n \in Nat : ~\E f : BallTo(f, n)}
<1> SUFFICES ASSUME N # {} PROVE FALSE
  OBVIOUS
<1>1. PICK n \in N : \A m \in N : n <= m
  <2>1. N \in SUBSET Nat
    OBVIOUS
  <2> HIDE DEF N
  <2> QED BY <2>1, Least
<1>2. n \in Nat /\ ~\E f : BallTo(f, n)
  OBVIOUS
<1>3. n # 0
  <2>1. PICK f : f = [k \in {0} |-> {src}]
    OBVIOUS
  <2>2. BallTo(f, 0)
    BY <2>1 DEF BallTo
  <2> QED BY <1>2, <2>2
<1>4. n - 1 \in Nat /\ n - 1 \notin N
  BY <1>1, <1>2, <1>3
<1>5. PICK f : BallTo(f, n - 1)
  BY <1>4
<1>6. PICK g : g = [k \in 0 .. n |-> IF k = n THEN Grow(f[n - 1]) ELSE f[k]]
  OBVIOUS
<1>7. /\ g[0] = f[0] /\ g[n] = Grow(f[n - 1])
      /\ \A k \in 1 .. n - 1 : g[k] = f[k]
  BY <1>2, <1>3, <1>6
<1>8. ASSUME NEW k \in 1 .. n PROVE g[k] = Grow(g[k - 1])
  <2>1. g[k - 1] = f[k - 1]
    <3>1. k - 1 \in 0 .. n /\ k - 1 # n
      BY <1>2
    <3> QED BY <1>6, <3>1
  <2>2. CASE k = n
    BY <1>7, <2>1, <2>2
  <2>3. CASE k # n
    <3>1. k \in 1 .. n - 1
      BY <1>2, <2>3
    <3> QED BY <1>5, <1>7, <2>1, <3>1 DEF BallTo
  <2> QED BY <2>2, <2>3
<1>9. BallTo(g, n)
  BY <1>5, <1>7, <1>8 DEF BallTo
<1> QED BY <1>2, <1>9

LEMMA BallToUnique ==
    ASSUME NEW f, NEW g, NEW n \in Nat, NEW m \in Nat, BallTo(f, n), BallTo(g, m)
    PROVE  \A k \in Nat : k <= n /\ k <= m => f[k] = g[k]
<1> DEFINE N == {k \in Nat : k <= n /\ k <= m /\ f[k] # g[k]}
<1> SUFFICES ASSUME N # {} PROVE FALSE
  OBVIOUS
<1>1. PICK k \in N : \A j \in N : k <= j
  <2>1. N \in SUBSET Nat
    OBVIOUS
  <2> HIDE DEF N
  <2> QED BY <2>1, Least
<1>2. k \in Nat /\ k <= n /\ k <= m /\ f[k] # g[k]
  OBVIOUS
<1>3. k # 0
  BY <1>2 DEF BallTo
<1>4. k - 1 \in Nat /\ k - 1 \notin N
  BY <1>1, <1>2, <1>3
<1>5. f[k - 1] = g[k - 1]
  BY <1>2, <1>4
<1>6. k \in 1 .. n /\ k \in 1 .. m
  BY <1>2, <1>3
<1>7. f[k] = Grow(f[k - 1]) /\ g[k] = Grow(g[k - 1])
  BY <1>6 DEF BallTo
<1> QED BY <1>2, <1>5, <1>7

LEMMA BallIs ==
    /\ Ball[0] = {src}
    /\ \A k \in Nat \ {0} : Ball[k] = Grow(Ball[k - 1])
<1> DEFINE F == [k \in Nat |-> (CHOOSE f : BallTo(f, k))[k]]
<1>1. \A k \in Nat : BallTo(CHOOSE f : BallTo(f, k), k)
  BY BallToExists
<1>2. F[0] = {src}
  BY <1>1 DEF BallTo
<1>3. ASSUME NEW k \in Nat \ {0} PROVE F[k] = Grow(F[k - 1])
  <2>1. PICK f : f = CHOOSE g : BallTo(g, k)
    OBVIOUS
  <2>2. PICK e : e = CHOOSE g : BallTo(g, k - 1)
    OBVIOUS
  <2>3. k \in Nat /\ k - 1 \in Nat /\ k - 1 <= k /\ k - 1 <= k - 1 /\ k \in 1 .. k
    OBVIOUS
  <2>4. BallTo(f, k) /\ BallTo(e, k - 1)
    BY <1>1, <2>1, <2>2, <2>3
  <2>5. f[k - 1] = e[k - 1]
    BY <2>3, <2>4, BallToUnique
  <2>6. F[k] = f[k] /\ F[k - 1] = e[k - 1]
    BY <2>1, <2>2, <2>3
  <2>7. f[k] = Grow(f[k - 1])
    BY <2>3, <2>4 DEF BallTo
  <2> QED BY <2>5, <2>6, <2>7
<1> DEFINE Rec(f) == [k \in Nat |-> IF k = 0 THEN {src} ELSE Grow(f[k - 1])]
<1>4. F = Rec(F)
  <2>1. F = [k \in Nat |-> F[k]]
    OBVIOUS
  <2> HIDE DEF F
  <2>2. \A k \in Nat : F[k] = IF k = 0 THEN {src} ELSE Grow(F[k - 1])
    BY <1>2, <1>3
  <2> QED BY <2>1, <2>2
<1>5. Ball = CHOOSE f : f = Rec(f)
  BY DEF Ball, Grow
<1>6. Ball = Rec(Ball)
  <2> HIDE DEF F, Rec
  <2> QED BY <1>4, <1>5
<1>7. \A k \in Nat : Ball[k] = IF k = 0 THEN {src} ELSE Grow(Ball[k - 1])
  <2> DEFINE b == Ball
  <2> HIDE DEF b
  <2>1. b = Rec(b)
    BY <1>6 DEF b
  <2>2. \A k \in Nat : b[k] = IF k = 0 THEN {src} ELSE Grow(b[k - 1])
    BY <2>1
  <2> QED BY <2>2 DEF b
<1> QED BY <1>7

\* When everything nearer than n is settled, the cells within k steps cost no more
\* than k, up to n.
LEMMA BallReached ==
    ASSUME Searching, NEW n \in Nat,
           \A x \in Cells : cost[x] \in 0 .. n - 1 => Settled(x)
    PROVE  \A k \in 0 .. n : \A x \in Ball[k] : x \in Cells /\ cost[x] \in 0 .. k
<1> DEFINE Good(k) == \A x \in Ball[k] : x \in Cells /\ cost[x] \in 0 .. k
           N == {k \in Nat : k <= n /\ ~Good(k)}
<1> SUFFICES ASSUME N # {} PROVE FALSE
  OBVIOUS
<1>1. PICK k \in N : \A j \in N : k <= j
  <2>1. N \in SUBSET Nat
    OBVIOUS
  <2> HIDE DEF N
  <2> QED BY <2>1, Least
<1>2. k \in Nat /\ k <= n /\ ~Good(k)
  OBVIOUS
<1>3. k # 0
  <2>1. src \in Cells /\ cost[src] = 0
    BY FreeCells DEF Searching, GridOK, TreeInv
  <2> QED BY <1>2, <2>1, BallIs
<1>4. k - 1 \in Nat /\ k - 1 <= n /\ Good(k - 1)
  BY <1>1, <1>2, <1>3
<1>5. PICK x \in Ball[k] : ~(x \in Cells /\ cost[x] \in 0 .. k)
  BY <1>2
<1>6. x \in Ball[k - 1] \/ (x \in Free /\ \E y \in Ball[k - 1] : Adjacent(y, x))
  BY <1>2, <1>3, <1>5, BallIs DEF Grow
<1>7. x \notin Ball[k - 1]
  BY <1>2, <1>4, <1>5
<1>8. PICK y \in Ball[k - 1] : x \in Free /\ Adjacent(y, x)
  BY <1>6, <1>7
<1>9. y \in Cells /\ cost[y] \in 0 .. k - 1 /\ k - 1 < n
  BY <1>2, <1>4, <1>8
<1>10. Settled(y)
  <2>1. cost[y] \in 0 .. n - 1
    BY <1>2, <1>9
  <2> QED BY <1>9, <2>1
<1>11. cost[x] \in 0 .. cost[y] + 1
  BY <1>8, <1>9, <1>10 DEF Searching, TreeInv
<1> QED BY <1>2, <1>5, <1>8, <1>9, <1>11, FreeCells

-----------------------------------------------------------------------------
(* The way back *)

\* A path to the destination.
WayFrom(s) == /\ \A k \in 1 .. Len(s) : s[k] \in Free
              /\ \A k \in 1 .. Len(s) - 1 : Adjacent(s[k], s[k + 1])
              /\ s # <<>> => s[Len(s)] = dst

\* The path is in the queue from a neighbour of cur on, at the costs that the way
\* back gives it; below the cost of cur the search's costs are still there.
Returning ==
    /\ GridOK /\ TypesOK
    /\ cur \in Free /\ cost[cur] >= 0
    /\ i = -1 - Len(q)
    /\ \A k \in 1 .. Len(q) : cost[q[k]] = i + k
    /\ WayFrom(q)
    /\ IF q = <<>> THEN cur = dst ELSE Adjacent(cur, q[1])
    /\ \A c \in Cells : cost[c] = 0 <=> c = src
    /\ \A c \in Cells : cost[c] \in 1 .. cost[cur] =>
          parent[c] \in Free /\ Adjacent(parent[c], c) /\ cost[parent[c]] = cost[c] - 1
    /\ dst \notin Ball[Len(q) + cost[cur] - 1]

Shortest(s) == /\ s # <<>> /\ s[1] = src
               /\ WayFrom(s)
               /\ dst \notin Ball[Len(s) - 2]

IInv == /\ SearchInv
        /\ spc = "draw" => src = NoCell
        /\ spc \notin {"done", "overrun"} => sol = <<>>
        /\ spc = "back" => Returning
        /\ spc = "emit" => Shortest(q)
        /\ spc \in {"done", "overrun"} /\ src # NoCell =>
              IF sol = <<>> THEN dst \notin Ball[Cardinality(Free)] ELSE Shortest(sol)

LEMMA FoundReturning == ASSUME Searching, Found PROVE Returning'
<1>1. UNCHANGED <<wall, src, dst, cost, parent>> /\ cur' = dst /\ q' = <<>> /\ i' = -1
  BY DEF Found
<1>2. Free' = Free /\ Ball' = Ball
  BY <1>1 DEF Free, Ball
<1>3. /\ dst \in Free /\ dst \in Cells /\ dst # src /\ cost[dst] \in Int /\ cost[dst] >= 0
      /\ \A x \in Cells : cost[x] \in Int
  BY HeadIsNear, FreeCells DEF Searching, GridOK, TypesOK, Found, Near
<1>4. cost[dst] > 0
  BY <1>3 DEF Searching, TreeInv
<1>5. dst \notin Ball[cost[dst] - 1]
  <2>1. PICK n \in Nat : n = cost[dst] - 1
    BY <1>3, <1>4
  <2>2. ASSUME NEW x \in Cells, cost[x] \in 0 .. n - 1 PROVE Settled(x)
    <3>1. cost[x] >= 0 /\ cost[x] < cost[dst]
      BY <1>3, <2>1, <2>2
    <3>2. SUFFICES ASSUME x \in Elems(q) PROVE FALSE
      BY <3>1 DEF Settled
    <3>3. x = dst \/ costcmp(cost, x, dst)
      BY <3>2, SortedHead DEF Searching, TypesOK, QueueInv, Found
    <3> QED BY <1>3, <3>1, <3>3 DEF costcmp
  <2>3. \A k \in 0 .. n : \A x \in Ball[k] : x \in Cells /\ cost[x] \in 0 .. k
    BY <2>2, BallReached
  <2>4. n \in 0 .. n /\ cost[dst] \notin 0 .. n
    BY <1>3, <2>1
  <2> QED BY <2>1, <2>3, <2>4
<1>6. /\ Len(q') = 0 /\ q' \in Seq(Cells)
      /\ \A k : k \notin 1 .. Len(q') /\ k \notin 1 .. Len(q') - 1
  <2>1. Len(<<>>) = 0 /\ <<>> \in Seq(Cells) /\ \A k : k \notin 1 .. 0 /\ k \notin 1 .. 0 - 1
    OBVIOUS
  <2> QED BY <1>1, <2>1
<1>7. GridOK' /\ TypesOK'
  BY <1>1, <1>2, <1>6 DEF Searching, GridOK, TypesOK
<1>8. WayFrom(q)'
  BY <1>1, <1>6 DEF WayFrom
<1>9. \A c \in Cells : cost[c] > 0 =>
         parent[c] \in Free /\ Adjacent(parent[c], c) /\ cost[parent[c]] = cost[c] - 1
  BY DEF Searching, TreeInv
<1>10. \A c \in Cells : cost'[c] \in 1 .. cost'[cur'] =>
         parent'[c] \in Free' /\ Adjacent(parent'[c], c) /\ cost'[parent'[c]] = cost'[c] - 1
  BY <1>1, <1>2, <1>3, <1>9
<1>11. dst' \notin Ball'[Len(q') + cost'[cur'] - 1]
  <2>1. Len(q') + cost'[cur'] - 1 = cost[dst] - 1
    BY <1>1, <1>3, <1>6
  <2> QED BY <1>1, <1>2, <1>5, <2>1
<1>12. i' = -1 - Len(q')
  BY <1>1, <1>6
<1>13. \A c \in Cells : cost'[c] = 0 <=> c = src'
  BY <1>1 DEF Searching, TreeInv
<1> QED BY <1>1, <1>2, <1>3, <1>6, <1>7, <1>8, <1>10, <1>11, <1>12, <1>13 DEF Returning

\* r is s with e before it.
Joined(r, e, s) == /\ Len(r) = Len(s) + 1 /\ r[1] = e
                   /\ \A k \in 1 .. Len(s) : r[k + 1] = s[k]

LEMMA QaddFirst ==
    ASSUME NEW c \in [Cells -> Int], NEW s \in Seq(Cells), NEW e \in Cells,
           \A k \in 1 .. Len(s) : costcmp(c, s[k], e)
    PROVE  qadd(c, s, e) \in Seq(Cells) /\ Joined(qadd(c, s, e), e, s)
<1> DEFINE after == {k \in 1 .. Len(s) : costcmp(c, s[k], e)}
<1>0. Len(s) \in Nat
  BY LenProperties
<1>1. PICK r : r = qadd(c, s, e)
  OBVIOUS
<1>2. CASE s = <<>>
  <2>1. Len(s) = 0 /\ after = {}
    BY <1>2
  <2>2. r = Append(s, e)
    BY <1>1, <2>1 DEF qadd
  <2>3. r \in Seq(Cells) /\ Len(r) = 1 /\ r[1] = e
    BY <1>0, <2>1, <2>2, AppendProperties
  <2> QED BY <1>1, <2>1, <2>3 DEF Joined
<1>3. CASE s # <<>>
  <2>0. Len(s) >= 1
    BY <1>3, EmptySeq
  <2>1. 1 \in after /\ \A k \in after : 1 <= k
    BY <1>0, <2>0
  <2>2. 1 = CHOOSE k \in after : \A j \in after : k <= j
    <3>1. \A k \in after : k \in Nat
      BY <1>0
    <3> HIDE DEF after
    <3>2. PICK m : m = CHOOSE k \in after : \A j \in after : k <= j
      OBVIOUS
    <3>3. m \in after /\ \A j \in after : m <= j
      BY <2>1, <3>2
    <3>4. m <= 1 /\ 1 <= m /\ m \in Nat
      BY <2>1, <3>1, <3>3
    <3> QED BY <3>2, <3>4
  <2>3. r = InsertAt(s, 1, e)
    BY <1>1, <2>1, <2>2 DEF qadd
  <2>4. r \in Seq(Cells) /\ Placed(r, s, 1, e)
    <3>1. 1 \in 1 .. Len(s) + 1
      BY <1>0
    <3> QED BY <2>3, <3>1, InsertAtPlaces
  <2>5. Len(r) = Len(s) + 1 /\ r[1] = e
    BY <1>0, <2>4 DEF Placed
  <2>6. ASSUME NEW k \in 1 .. Len(s) PROVE r[k + 1] = s[k]
    <3>1. k + 1 \in 1 .. Len(r) /\ ~(k + 1 < 1) /\ k + 1 # 1 /\ k + 1 - 1 = k
      BY <1>0, <2>5
    <3> QED BY <2>4, <3>1 DEF Placed
  <2> QED BY <1>1, <2>4, <2>5, <2>6 DEF Joined
<1> QED BY <1>2, <1>3

LEMMA JoinedWay ==
    ASSUME NEW s \in Seq(Cells), NEW r \in Seq(Cells), NEW e \in Free, Joined(r, e, s),
           WayFrom(s), IF s = <<>> THEN e = dst ELSE Adjacent(e, s[1])
    PROVE  WayFrom(r) /\ r # <<>>
<1>0. Len(s) \in Nat /\ Len(r) = Len(s) + 1 /\ Len(<<>>) = 0 /\ (s # <<>> => Len(s) >= 1)
  BY EmptySeq, LenProperties DEF Joined
<1>1. ASSUME NEW k \in 1 .. Len(r) PROVE r[k] \in Free
  <2>1. CASE k = 1
    BY <2>1 DEF Joined
  <2>2. CASE k # 1
    <3>1. k - 1 \in 1 .. Len(s) /\ (k - 1) + 1 = k
      BY <1>0, <2>2
    <3> QED BY <3>1 DEF Joined, WayFrom
  <2> QED BY <2>1, <2>2
<1>2. ASSUME NEW k \in 1 .. Len(r) - 1 PROVE Adjacent(r[k], r[k + 1])
  <2>0. k \in 1 .. Len(s) /\ s # <<>>
    BY <1>0
  <2>1. CASE k = 1
    BY <1>0, <2>0, <2>1 DEF Joined
  <2>2. CASE k # 1
    <3>1. k - 1 \in 1 .. Len(s) - 1 /\ k - 1 \in 1 .. Len(s) /\ (k - 1) + 1 = k
      BY <1>0, <2>0, <2>2
    <3>2. r[k] = s[k - 1] /\ r[k + 1] = s[k]
      BY <2>0, <3>1 DEF Joined
    <3>3. Adjacent(s[k - 1], s[k])
      BY <3>1 DEF WayFrom
    <3> QED BY <3>2, <3>3
  <2> QED BY <2>1, <2>2
<1>3. r[Len(r)] = dst
  <2>1. CASE s = <<>>
    BY <1>0, <2>1 DEF Joined
  <2>2. CASE s # <<>>
    <3>1. Len(s) \in 1 .. Len(s)
      BY <1>0, <2>2
    <3> QED BY <1>0, <2>2, <3>1 DEF Joined, WayFrom
  <2> QED BY <2>1, <2>2
<1>4. r # <<>>
  BY <1>0
<1> QED BY <1>1, <1>2, <1>3, <1>4 DEF WayFrom

\* The next cell goes before those that are in the queue.
LEMMA BackJoins ==
    ASSUME Returning, Back
    PROVE  /\ q' \in Seq(Cells) /\ Joined(q', cur, q) /\ WayFrom(q') /\ q' # <<>>
           /\ cost' \in [Cells -> Int] /\ cost'[cur] = i
           /\ \A c \in Cells : c # cur => cost'[c] = cost[c]
           /\ \A k \in 1 .. Len(q) : q[k] # cur
<1>0. /\ cur \in Cells /\ cur \in Free /\ cost \in [Cells -> Int] /\ q \in Seq(Cells)
      /\ Len(q) \in Nat /\ i = -1 - Len(q) /\ cost[cur] >= 0
  BY FreeCells, LenProperties DEF Returning, TypesOK
<1>1. /\ cost' \in [Cells -> Int] /\ cost'[cur] = i
      /\ \A c \in Cells : c # cur => cost'[c] = cost[c]
  BY <1>0 DEF Back
<1>2. ASSUME NEW k \in 1 .. Len(q)
      PROVE  q[k] \in Cells /\ q[k] # cur /\ cost'[q[k]] = i + k
  <2>1. q[k] \in Cells /\ cost[q[k]] = i + k
    BY <1>0, ElementOfSeq DEF Returning
  <2>2. i + k < 0
    BY <1>0
  <2>3. q[k] # cur
    BY <1>0, <2>1, <2>2
  <2> QED BY <1>1, <2>1, <2>3
<1>3. \A k \in 1 .. Len(q) : costcmp(cost', q[k], cur)
  <2>1. ASSUME NEW k \in 1 .. Len(q) PROVE cost'[q[k]] > cost'[cur]
    BY <1>0, <1>1, <1>2
  <2> QED BY <2>1 DEF costcmp
<1>4. qadd(cost', q, cur) \in Seq(Cells) /\ Joined(qadd(cost', q, cur), cur, q)
  BY <1>0, <1>1, <1>3, QaddFirst
<1>5. q' \in Seq(Cells) /\ Joined(q', cur, q)
  BY <1>4 DEF Back
<1>6. WayFrom(q') /\ q' # <<>>
  BY <1>0, <1>5, JoinedWay DEF Returning
<1> QED BY <1>1, <1>2, <1>5, <1>6

LEMMA BackReturning ==
    ASSUME Returning, Back
    PROVE  IF cur = src THEN spc' = "emit" /\ Shortest(q)' ELSE spc' = "back" /\ Returning'
<1>1. UNCHANGED <<wall, src, dst, parent>> /\ i' = i - 1
  BY DEF Back
<1>2. Free' = Free /\ Ball' = Ball
  BY <1>1 DEF Free, Ball
<1>3. /\ q' \in Seq(Cells) /\ Joined(q', cur, q) /\ WayFrom(q') /\ q' # <<>>
      /\ cost' \in [Cells -> Int] /\ cost'[cur] = i
      /\ \A c \in Cells : c # cur => cost'[c] = cost[c]
      /\ \A k \in 1 .. Len(q) : q[k] # cur
  BY BackJoins
<1>4. WayFrom(q)'
  BY <1>1, <1>2, <1>3 DEF WayFrom
<1>5. /\ Len(q') = Len(q) + 1 /\ Len(q) \in Nat /\ q'[1] = cur /\ i = -1 - Len(q)
      /\ cur \in Free /\ cur \in Cells /\ cost[cur] \in Int /\ cost[cur] >= 0
      /\ \A c \in Cells : cost[c] \in Int
      /\ dst \notin Ball[Len(q) + cost[cur] - 1]
  BY <1>3, FreeCells, LenProperties DEF Joined, Returning, TypesOK
<1>6. CASE cur = src
  <2>1. cost[cur] = 0
    BY <1>5, <1>6 DEF Returning
  <2>2. Len(q) + cost[cur] - 1 = Len(q') - 2
    BY <1>5, <2>1
  <2>3. dst' \notin Ball'[Len(q') - 2]
    BY <1>1, <1>2, <1>5, <2>2
  <2> QED BY <1>1, <1>3, <1>4, <1>5, <1>6, <2>3 DEF Shortest, Back
<1>7. CASE cur # src
  <2>1. spc' = "back" /\ cur' = parent[cur]
    BY <1>7 DEF Back
  <2>2. cost[cur] \in 1 .. cost[cur]
    BY <1>5, <1>7 DEF Returning
  <2>3. cur' \in Free /\ cur' \in Cells /\ Adjacent(cur', cur) /\ cost[cur'] = cost[cur] - 1
    BY <1>5, <2>1, <2>2, FreeCells DEF Returning
  <2>4. cost'[cur'] = cost[cur] - 1 /\ cost'[cur'] >= 0
    <3>1. cur' # cur
      BY <1>5, <2>3
    <3> QED BY <1>3, <1>5, <2>2, <2>3, <3>1
  <2>5. GridOK' /\ TypesOK'
    BY <1>1, <1>2, <1>3 DEF Returning, GridOK, TypesOK
  <2>6. i' = -1 - Len(q')
    BY <1>1, <1>5
  <2>7. ASSUME NEW k \in 1 .. Len(q') PROVE cost'[q'[k]] = i' + k
    <3>1. CASE k = 1
      BY <1>1, <1>3, <1>5, <3>1
    <3>2. CASE k # 1
      <4>1. k - 1 \in 1 .. Len(q) /\ (k - 1) + 1 = k /\ k \in Int /\ i \in Int
        BY <1>5, <3>2
      <4>2. q'[k] = q[k - 1] /\ q[k - 1] # cur /\ q[k - 1] \in Cells
        BY <1>3, <4>1, ElementOfSeq DEF Joined, Returning, TypesOK
      <4>3. cost[q[k - 1]] = i + (k - 1)
        BY <4>1 DEF Returning
      <4> QED BY <1>1, <1>3, <4>1, <4>2, <4>3
    <3> QED BY <3>1, <3>2
  <2>8. \A c \in Cells : cost'[c] = 0 <=> c = src'
    <3>1. i # 0
      BY <1>5
    <3> QED BY <1>1, <1>3, <1>7, <3>1 DEF Returning
  <2>9. ASSUME NEW c \in Cells, cost'[c] \in 1 .. cost'[cur']
        PROVE  parent'[c] \in Free' /\ Adjacent(parent'[c], c) /\ cost'[parent'[c]] = cost'[c] - 1
    <3>1. c # cur /\ cost'[c] = cost[c] /\ cost[c] \in 1 .. cost[cur] - 1
      BY <1>3, <1>5, <2>4, <2>9
    <3>2. parent[c] \in Free /\ Adjacent(parent[c], c) /\ cost[parent[c]] = cost[c] - 1
      BY <1>5, <3>1 DEF Returning
    <3>3. parent[c] # cur /\ parent[c] \in Cells
      BY <1>5, <3>1, <3>2, FreeCells
    <3> QED BY <1>1, <1>2, <1>3, <3>1, <3>2, <3>3
  <2>10. dst' \notin Ball'[Len(q') + cost'[cur'] - 1]
    <3>1. Len(q') + cost'[cur'] - 1 = Len(q) + cost[cur] - 1
      BY <1>5, <2>4
    <3> QED BY <1>1, <1>2, <1>5, <3>1
  <2>11. IF q' = <<>> THEN cur' = dst' ELSE Adjacent(cur', q'[1])
    BY <1>3, <1>5, <2>3
  <2>12. cur' \in Free'
    BY <1>2, <2>3
  <2>13. Returning'
    BY <1>4, <2>4, <2>5, <2>6, <2>7, <2>8, <2>9, <2>10, <2>11, <2>12 DEF Returning
  <2> QED BY <1>7, <2>1, <2>13
<1> QED BY <1>6, <1>7

LEMMA FreeFinite == Cardinality(Free) \in Nat
<1>1. IsFiniteSet(0 .. Size - 1)
  BY ShortPathAssumption, FS_Interval
<1>2. IsFiniteSet(Cells)
  BY <1>1, FS_Product DEF Cells
<1>3. Free \in SUBSET Cells
  BY DEF Free
<1>4. IsFiniteSet(Free)
  BY <1>2, <1>3, FS_Subset
<1> QED BY <1>4, FS_CardinalityType

LEMMA NotFoundNoWay == ASSUME Searching, NotFound PROVE dst \notin Ball[Cardinality(Free)]
<1>1. PICK n : n = Cardinality(Free)
  OBVIOUS
<1>2. n \in Nat
  BY <1>1, FreeFinite
<1>3. \A x : x \notin Elems(q)
  <2>1. Len(q) = 0 /\ \A k : k \notin 1 .. 0
    BY DEF NotFound
  <2> QED BY <2>1 DEF Elems
<1>4. \A x \in Cells : cost[x] \in 0 .. n - 1 => Settled(x)
  BY <1>2, <1>3 DEF Settled
<1>5. \A k \in 0 .. n : \A x \in Ball[k] : x \in Cells /\ cost[x] \in 0 .. k
  BY <1>2, <1>4, BallReached
<1>6. ~(cost[dst] >= 0) /\ cost[dst] \in Int
  BY <1>3, FreeCells DEF Searching, TreeInv, TypesOK, GridOK
<1> QED BY <1>1, <1>2, <1>5, <1>6

LEMMA InitIInv == SPInit => IInv
  BY InitSearchInv DEF SPInit, IInv

LEMMA NextIInv == IInv /\ [SPNext \/ NoSearch]_spvars => IInv'
<1> SUFFICES ASSUME IInv, [SPNext \/ NoSearch]_spvars PROVE IInv'
  OBVIOUS
<1>0. SearchInv'
  BY NextSearchInv DEF IInv
<1>1. CASE Begin
  BY <1>0, <1>1 DEF Begin, IInv
<1>2. CASE Expand
  BY <1>0, <1>2 DEF Expand, IInv
<1>3. CASE Found
  BY <1>0, <1>3, FoundReturning DEF Found, IInv, SearchInv
<1>4. CASE NotFound
  <2>1. Free' = Free /\ Ball' = Ball /\ dst' = dst
    BY <1>4 DEF NotFound, Free, Ball
  <2>2. dst \notin Ball[Cardinality(Free)]
    BY <1>4, NotFoundNoWay DEF NotFound, IInv, SearchInv
  <2>3. sol = <<>>
    BY <1>4 DEF IInv, NotFound
  <2> QED BY <1>0, <1>4, <2>1, <2>2, <2>3 DEF NotFound, IInv
<1>5. CASE Back
  <2>1. spc = "back" /\ sol' = sol
    BY <1>5 DEF Back
  <2>2. sol' = <<>> /\ Returning
    BY <2>1 DEF IInv
  <2>3. (spc' = "emit" /\ Shortest(q)') \/ (spc' = "back" /\ Returning')
    BY <1>5, <2>2, BackReturning
  <2>4. CASE spc' = "emit" /\ Shortest(q)'
    BY <1>0, <2>2, <2>4 DEF IInv
  <2>5. CASE spc' = "back" /\ Returning'
    BY <1>0, <2>2, <2>5 DEF IInv
  <2> QED BY <2>3, <2>4, <2>5
<1>6. CASE Emit
  <2>1. Shortest(q)
    BY <1>6 DEF IInv, Emit
  <2>2. Free' = Free /\ Ball' = Ball /\ dst' = dst /\ src' = src /\ sol' = q
    BY <1>6 DEF Emit, Free, Ball
  <2>3. Shortest(sol)' /\ sol' # <<>>
    BY <2>1, <2>2 DEF Shortest, WayFrom
  <2>4. spc' \in {"done", "overrun"}
    BY <1>6 DEF Emit
  <2> QED BY <1>0, <2>3, <2>4 DEF IInv
<1>7. CASE NoSearch
  BY <1>0, <1>7 DEF NoSearch, IInv
<1>8. CASE UNCHANGED spvars
  <2>1. Free' = Free /\ Ball' = Ball
    BY <1>8 DEF spvars, Free, Ball
  <2> QED BY <1>0, <1>8, <2>1 DEF spvars, IInv, Returning, Shortest, WayFrom, GridOK, TypesOK
<1> QED BY <1>1, <1>2, <1>3, <1>4, <1>5, <1>6, <1>7, <1>8 DEF SPNext

\* What the attempt hashes is a shortest path, on every grid, and nothing when there
\* is none (shortpath.c:315-352).
THEOREM PathIsShortest == SPSpec => []SolutionIsShortest
<1>1. IInv => SolutionIsShortest
  BY DEF IInv, SolutionIsShortest, Shortest, WayFrom
<1> QED BY InitIInv, NextIInv, <1>1, PTL DEF SPSpec


\* x may stand before y.
Fits(x, y) == ~Precedes(y, x)

InOrder(a, lo, hi) == \A x, y \in lo .. hi - 1 : x < y => Fits(a[x], a[y])

Count(a, S, v) == Cardinality({k \in S : a[k] = v})

Given == /\ cnt \in Nat /\ rev \in BOOLEAN
         /\ nums \in [0 .. cnt - 1 -> Nums] /\ drawn \in [0 .. cnt - 1 -> Nums]

SameNums(a) == \A v \in Nums : Count(a, 0 .. cnt - 1, v) = Count(drawn, 0 .. cnt - 1, v)

-----------------------------------------------------------------------------
(* Merge sort *)

\* Every run of w elements of a, up to the element lo, is in order.
Runs(a, w, lo) == \A m \in Nat : m * w < lo => InOrder(a, m * w, Smaller(m * w + w, cnt))

\* The elements of nums that the merge has put into mtmp.
Merged == (0 .. left - 1) \cup (Middle .. right - 1)

MergingInv ==
    /\ low < cnt
    /\ left \in low .. Middle /\ right \in Middle .. End
    /\ out = left + (right - Middle)
    /\ \A k \in 0 .. out - 1 : mtmp[k] \in Nums
    /\ InOrder(mtmp, low, out)
    /\ \A x \in low .. out - 1 : \A y \in left .. Middle - 1 : Fits(mtmp[x], nums[y])
    /\ \A x \in low .. out - 1 : \A y \in right .. End - 1 : Fits(mtmp[x], nums[y])
    /\ \A v \in Nums : Count(mtmp, 0 .. out - 1, v) = Count(nums, Merged, v)

RunsInv ==
    /\ \A k \in 0 .. Smaller(low, cnt) - 1 : mtmp[k] \in Nums
    /\ \A v \in Nums : Count(mtmp, 0 .. Smaller(low, cnt) - 1, v)
                         = Count(nums, 0 .. Smaller(low, cnt) - 1, v)

MergeInv ==
    /\ at \in {"idle", "sort", "pass", "runs", "merge", "sorted"}
    /\ at # "idle" => Given /\ SameNums(nums) /\ mtmp \in [0 .. cnt - 1 -> Nums \cup {Garbage}]
    /\ at \in {"pass", "runs", "merge"} => width \in Nat \ {0} /\ Runs(nums, width, cnt)
    /\ at \in {"runs", "merge"} => /\ low \in Nat /\ \E m \in Nat : low = m * (2 * width)
                                   /\ Runs(mtmp, 2 * width, low)
    /\ at = "runs" => RunsInv
    /\ at = "merge" => MergingInv
    /\ at = "sorted" => InOrder(nums, 0, cnt)

-----------------------------------------------------------------------------
(* Heap sort *)

Parent(c) == (c - 1) \div 2

\* The array with held in the hole.
Filled == IF at = "sink" THEN [nums EXCEPT ![hole] = held] ELSE nums

\* What is behind the heap is not before anything in front of it.
Behind(a, n) == \A x, y \in 0 .. cnt - 1 : x < y /\ y >= n => Fits(a[x], a[y])

\* Every child from top on fits before its parent, but for those of h; what is below h
\* fits before what is above it.
SinkInv(a, h) ==
    /\ \A c \in 1 .. heap - 1 : Parent(c) >= top /\ Parent(c) # h => Fits(a[c], a[Parent(c)])
    /\ h # top => Parent(h) >= top
    /\ h # top => \A c \in 1 .. heap - 1 : Parent(c) = h => Fits(a[c], a[Parent(h)])

HeapInv ==
    /\ at \in {"idle", "sort", "pick", "sink", "sorted"}
    /\ at # "idle" => Given /\ cnt > 0
    /\ at # "idle" => SameNums(Filled)
    /\ at \in {"pick", "sink"} =>
          /\ heap \in 1 .. cnt /\ top \in 0 .. cnt
          /\ top > 0 => heap = cnt
          /\ Behind(Filled, heap)
    /\ at = "pick" =>
          \A c \in 1 .. heap - 1 : Parent(c) >= top => Fits(nums[c], nums[Parent(c)])
    /\ at = "sink" => hole \in top .. heap - 1 /\ held \in Nums /\ SinkInv(Filled, hole)
    /\ at = "sorted" => InOrder(nums, 0, cnt)

-----------------------------------------------------------------------------
(* Counting *)

LEMMA CountType ==
    ASSUME NEW a, NEW S, IsFiniteSet(S), NEW v
    PROVE  Count(a, S, v) \in Nat
<1>1. IsFiniteSet({k \in S : a[k] = v})
  BY FS_Subset
<1> QED BY <1>1, FS_CardinalityType DEF Count

LEMMA CountAdd ==
    ASSUME NEW a, NEW S, IsFiniteSet(S), NEW x, x \notin S, NEW v
    PROVE  Count(a, S \cup {x}, v) = IF a[x] = v THEN Count(a, S, v) + 1 ELSE Count(a, S, v)
<1> DEFINE T == {k \in S : a[k] = v}
<1>1. IsFiniteSet(T) /\ x \notin T
  BY FS_Subset
<1>2. CASE a[x] = v
  <2>1. {k \in S \cup {x} : a[k] = v} = T \cup {x}
    BY <1>2
  <2> QED BY <1>1, <1>2, <2>1, FS_AddElement DEF Count
<1>3. CASE a[x] # v
  <2>1. {k \in S \cup {x} : a[k] = v} = T
    BY <1>3
  <2> QED BY <1>3, <2>1 DEF Count
<1> QED BY <1>2, <1>3

LEMMA CountSame ==
    ASSUME NEW a, NEW b, NEW S, NEW v, \A k \in S : a[k] = b[k]
    PROVE  Count(a, S, v) = Count(b, S, v)
<1>1. {k \in S : a[k] = v} = {k \in S : b[k] = v}
  OBVIOUS
<1> QED BY <1>1 DEF Count

\* b is a with the elements of two places exchanged.
LEMMA CountSwap ==
    ASSUME NEW a, NEW b, NEW S, IsFiniteSet(S), NEW x \in S, NEW y \in S, NEW v,
           \A k \in S \ {x, y} : a[k] = b[k], a[x] = b[y], a[y] = b[x]
    PROVE  Count(b, S, v) = Count(a, S, v)
<1>1. CASE x = y
  <2>1. \A k \in S : b[k] = a[k]
    BY <1>1
  <2> QED BY <2>1, CountSame
<1>2. CASE x # y
  <2> DEFINE R == S \ {x, y}
  <2>1. IsFiniteSet(R) /\ IsFiniteSet(R \cup {x})
    <3>1. R \subseteq S /\ R \cup {x} \subseteq S
      OBVIOUS
    <3> QED BY <3>1, FS_Subset
  <2>2. S = (R \cup {x}) \cup {y} /\ x \notin R /\ y \notin R \cup {x}
    BY <1>2
  <2>3. \A k \in R : a[k] = b[k]
    OBVIOUS
  <2>4. Count(a, R, v) = Count(b, R, v) /\ Count(a, R, v) \in Nat
    BY <2>1, <2>3, CountSame, CountType
  <2> HIDE DEF R
  <2>5. Count(a, R \cup {x}, v) = (IF a[x] = v THEN Count(a, R, v) + 1 ELSE Count(a, R, v))
    BY <2>1, <2>2, CountAdd
  <2>6. Count(b, R \cup {x}, v) = (IF b[x] = v THEN Count(b, R, v) + 1 ELSE Count(b, R, v))
    BY <2>1, <2>2, CountAdd
  <2>7. Count(a, (R \cup {x}) \cup {y}, v)
          = (IF a[y] = v THEN Count(a, R \cup {x}, v) + 1 ELSE Count(a, R \cup {x}, v))
    BY <2>1, <2>2, CountAdd
  <2>8. Count(b, (R \cup {x}) \cup {y}, v)
          = (IF b[y] = v THEN Count(b, R \cup {x}, v) + 1 ELSE Count(b, R \cup {x}, v))
    BY <2>1, <2>2, CountAdd
  <2> QED BY <2>2, <2>4, <2>5, <2>6, <2>7, <2>8
<1> QED BY <1>1, <1>2

\* b has the elements of a, and one more, which is one more of c.
LEMMA CountTake ==
    ASSUME NEW a, NEW b, NEW c, NEW S, IsFiniteSet(S), NEW T, IsFiniteSet(T), NEW x, NEW y, NEW v,
           x \notin S, y \notin T, \A k \in S : b[k] = a[k], b[x] = c[y],
           Count(a, S, v) = Count(c, T, v)
    PROVE  Count(b, S \cup {x}, v) = Count(c, T \cup {y}, v)
<1>1. Count(b, S, v) = Count(a, S, v)
  BY CountSame
<1>2. Count(b, S \cup {x}, v) = IF b[x] = v THEN Count(b, S, v) + 1 ELSE Count(b, S, v)
  BY CountAdd
<1>3. Count(c, T \cup {y}, v) = IF c[y] = v THEN Count(c, T, v) + 1 ELSE Count(c, T, v)
  BY CountAdd
<1> QED BY <1>1, <1>2, <1>3

-----------------------------------------------------------------------------
(* The order *)

LEMMA FitsOrder ==
    ASSUME rev \in BOOLEAN
    PROVE  /\ \A x \in Nat : Fits(x, x)
           /\ \A x, y \in Nat : Fits(x, y) \/ Fits(y, x)
           /\ \A x, y \in Nat : Precedes(x, y) => Fits(x, y)
           /\ \A x, y, z \in Nat : Fits(x, y) /\ Fits(y, z) => Fits(x, z)
  BY DEF Fits, Precedes

-----------------------------------------------------------------------------
(* The multiples of a width *)

LEMMA MulLess ==
    ASSUME NEW a \in Nat, NEW b \in Nat, NEW w \in Nat \ {0}
    PROVE  /\ a * w \in Nat
           /\ (a < b) <=> (a * w < b * w)
           /\ a < b => a * w + w <= b * w
  OBVIOUS

LEMMA MulTwice ==
    ASSUME NEW m \in Nat, NEW w \in Nat
    PROVE  /\ m * (2 * w) = (2 * m) * w
           /\ m * (2 * w) + w = (2 * m + 1) * w
           /\ m * (2 * w) + 2 * w = (m + 1) * (2 * w)
           /\ m * (2 * w) \in Nat
  OBVIOUS

-----------------------------------------------------------------------------
(* Merge sort *)

LEMMA SmallerIs ==
    ASSUME NEW x \in Int, NEW y \in Int
    PROVE  /\ Smaller(x, y) \in Int /\ Smaller(x, y) <= x /\ Smaller(x, y) <= y
           /\ Smaller(x, y) = x \/ Smaller(x, y) = y
  BY DEF Smaller

LEMMA InOrderSame ==
    ASSUME NEW a, NEW b, NEW lo \in Int, NEW hi \in Int,
           \A k \in lo .. hi - 1 : a[k] = b[k], InOrder(a, lo, hi)
    PROVE  InOrder(b, lo, hi)
  BY DEF InOrder

\* The two runs that are merged.
LEMMA TwoRuns ==
    ASSUME MergeInv, at \in {"runs", "merge"}, low < cnt
    PROVE  /\ Middle \in low .. cnt /\ End \in Middle .. cnt /\ low < End
           /\ InOrder(nums, low, Middle) /\ InOrder(nums, Middle, End)
           /\ End = cnt \/ End = low + 2 * width
<1>1. /\ width \in Nat \ {0} /\ Runs(nums, width, cnt) /\ low \in Nat /\ cnt \in Nat
  BY DEF MergeInv, Given
<1>2. PICK m \in Nat : low = m * (2 * width)
  BY DEF MergeInv
<1>3. /\ low = (2 * m) * width /\ low + width = (2 * m + 1) * width
      /\ 2 * m \in Nat /\ 2 * m + 1 \in Nat
  BY <1>1, <1>2, MulTwice
<1>4. InOrder(nums, low, Smaller(low + width, cnt))
  BY <1>1, <1>3 DEF Runs
<1>5. low + width < cnt => InOrder(nums, low + width, Smaller((low + width) + width, cnt))
  BY <1>1, <1>3 DEF Runs
<1>6. InOrder(nums, Middle, End)
  <2>1. CASE low + width < cnt
    <3>1. Middle = low + width /\ End = Smaller((low + width) + width, cnt)
      BY <1>1, <2>1 DEF Middle, End, Smaller
    <3> QED BY <1>5, <2>1, <3>1
  <2>2. CASE low + width >= cnt
    <3>1. Middle = cnt /\ End = cnt
      BY <1>1, <2>2 DEF Middle, End, Smaller
    <3> QED BY <1>1, <3>1 DEF InOrder
  <2> QED BY <1>1, <2>1, <2>2
<1>7. /\ Middle \in low .. cnt /\ End \in Middle .. cnt /\ low < End
      /\ End = cnt \/ End = low + 2 * width
  BY <1>1 DEF Middle, End, Smaller
<1> QED BY <1>4, <1>6, <1>7 DEF Middle

LEMMA MergeBegins ==
    ASSUME MergeInv, BeginMerge
    PROVE  MergeInv'
<1>0. /\ at = "runs" /\ low < cnt /\ at' = "merge" /\ left' = low /\ right' = Middle /\ out' = low
      /\ UNCHANGED <<sorter, drawn, cnt, rev, nums, mtmp, width, low, top, heap, hole, held>>
  BY DEF BeginMerge, argvars, heapvars, holevars
<1>1. /\ Given /\ SameNums(nums) /\ mtmp \in [0 .. cnt - 1 -> Nums \cup {Garbage}]
      /\ width \in Nat \ {0} /\ Runs(nums, width, cnt)
      /\ low \in Nat /\ (\E m \in Nat : low = m * (2 * width))
      /\ Runs(mtmp, 2 * width, low) /\ RunsInv /\ cnt \in Nat
  BY <1>0 DEF MergeInv, Given
<1>2. /\ Given' /\ SameNums(nums)' /\ (mtmp \in [0 .. cnt - 1 -> Nums \cup {Garbage}])'
      /\ (width \in Nat \ {0})' /\ Runs(nums, width, cnt)'
      /\ (low \in Nat)' /\ (\E m \in Nat : low = m * (2 * width))'
      /\ Runs(mtmp, 2 * width, low)'
  BY <1>0, <1>1 DEF Given, SameNums, Runs, InOrder, Fits, Precedes, Smaller
<1>3. /\ Middle \in low .. cnt /\ End \in Middle .. cnt
  BY <1>0, TwoRuns
<1>4. Middle' = Middle /\ End' = End
  BY <1>0 DEF Middle, End, Smaller
<1>5. Merged' = 0 .. low - 1
  BY <1>0, <1>1, <1>3, <1>4 DEF Merged
<1>6. Smaller(low, cnt) = low
  BY <1>0, <1>1 DEF Smaller
<1>7. MergingInv'
  <2>1. /\ (low < cnt)' /\ (left \in low .. Middle)' /\ (right \in Middle .. End)'
        /\ (out = left + (right - Middle))'
    BY <1>0, <1>1, <1>3, <1>4
  <2>2. (\A k \in 0 .. out - 1 : mtmp[k] \in Nums)'
    BY <1>0, <1>1, <1>6 DEF RunsInv
  <2>3. InOrder(mtmp, low, out)'
    BY <1>0, <1>1 DEF InOrder
  <2>4. /\ (\A x \in low .. out - 1 : \A y \in left .. Middle - 1 : Fits(mtmp[x], nums[y]))'
        /\ (\A x \in low .. out - 1 : \A y \in right .. End - 1 : Fits(mtmp[x], nums[y]))'
    BY <1>0, <1>1
  <2>5. (\A v \in Nums : Count(mtmp, 0 .. out - 1, v) = Count(nums, Merged, v))'
    BY <1>0, <1>1, <1>5, <1>6 DEF RunsInv
  <2> QED BY <2>1, <2>2, <2>3, <2>4, <2>5 DEF MergingInv
<1> QED BY <1>0, <1>2, <1>7 DEF MergeInv

\* One element, e at place s, goes to mtmp.
LEMMA MergeTakes ==
    ASSUME MergeInv, MergeOne,
           NEW s \in 0 .. cnt - 1, s \notin Merged, mtmp' = [mtmp EXCEPT ![out] = nums[s]],
           Merged' = Merged \cup {s}
    PROVE  /\ (\A k \in 0 .. out - 1 : mtmp[k] \in Nums)'
           /\ (\A v \in Nums : Count(mtmp, 0 .. out - 1, v) = Count(nums, Merged, v))'
           /\ out \in 0 .. cnt - 1
           /\ mtmp' \in [0 .. cnt - 1 -> Nums \cup {Garbage}]
           /\ \A k \in 0 .. out - 1 : mtmp'[k] = mtmp[k]
           /\ mtmp'[out] = nums[s]
<1>0. /\ at = "merge" /\ out < End /\ at' = "merge" /\ out' = out + 1
      /\ UNCHANGED <<sorter, drawn, cnt, rev, nums, width, low, top, heap, hole, held>>
  BY DEF MergeOne, argvars, heapvars, holevars
<1>1. /\ Given /\ mtmp \in [0 .. cnt - 1 -> Nums \cup {Garbage}]
      /\ width \in Nat \ {0} /\ low \in Nat /\ MergingInv /\ low < cnt /\ cnt \in Nat
      /\ nums \in [0 .. cnt - 1 -> Nums]
  BY <1>0 DEF MergeInv, MergingInv, Given
<1>2. Middle \in low .. cnt /\ End \in Middle .. cnt
  BY <1>0, <1>1, TwoRuns
<1>3. /\ left \in low .. Middle /\ right \in Middle .. End /\ out = left + (right - Middle)
      /\ \A k \in 0 .. out - 1 : mtmp[k] \in Nums
      /\ \A v \in Nums : Count(mtmp, 0 .. out - 1, v) = Count(nums, Merged, v)
  BY <1>1 DEF MergingInv
<1>4. out \in 0 .. cnt - 1
  BY <1>0, <1>1, <1>2, <1>3
<1>5. /\ mtmp' \in [0 .. cnt - 1 -> Nums \cup {Garbage}]
      /\ \A k \in 0 .. cnt - 1 : mtmp'[k] = IF k = out THEN nums[s] ELSE mtmp[k]
  BY <1>1, <1>4
<1>6. /\ \A k \in 0 .. out - 1 : mtmp'[k] = mtmp[k]
      /\ mtmp'[out] = nums[s] /\ nums[s] \in Nums
  BY <1>1, <1>4, <1>5
<1>7. (\A k \in 0 .. out - 1 : mtmp[k] \in Nums)'
  BY <1>0, <1>3, <1>4, <1>6
<1>8. ASSUME NEW v \in Nums PROVE Count(mtmp', 0 .. out' - 1, v) = Count(nums', Merged', v)
  <2>1. 0 .. out' - 1 = (0 .. out - 1) \cup {out} /\ out \notin 0 .. out - 1
    BY <1>0, <1>4
  <2>2. IsFiniteSet(0 .. out - 1) /\ IsFiniteSet(Merged)
    <3>1. /\ left \in Int /\ right \in Int /\ out \in Int /\ Middle \in Int
      BY <1>1, <1>2, <1>3
    <3>2. 0 \in Int /\ left - 1 \in Int /\ right - 1 \in Int /\ out - 1 \in Int
      BY <3>1
    <3>3. IsFiniteSet(0 .. left - 1) /\ IsFiniteSet(Middle .. right - 1) /\ IsFiniteSet(0 .. out - 1)
      BY <3>1, <3>2, FS_Interval
    <3> QED BY <3>3, FS_Union DEF Merged
  <2>3. \A k \in 0 .. out - 1 : mtmp'[k] = mtmp[k]
    BY <1>6
  <2>4. Count(mtmp, 0 .. out - 1, v) = Count(nums, Merged, v)
    BY <1>3
  <2>5. Count(mtmp', (0 .. out - 1) \cup {out}, v) = Count(nums, Merged \cup {s}, v)
    <3>0. PICK d, e, f, S, T, o : d = mtmp /\ e = mtmp' /\ f = nums /\ S = 0 .. out - 1 /\ T = Merged /\ o = out
      OBVIOUS
    <3>1. /\ IsFiniteSet(S) /\ IsFiniteSet(T) /\ o \notin S /\ s \notin T
          /\ (\A k \in S : e[k] = d[k]) /\ e[o] = f[s] /\ Count(d, S, v) = Count(f, T, v)
      BY <1>6, <2>1, <2>2, <2>3, <2>4, <3>0
    <3>2. Count(e, S \cup {o}, v) = Count(f, T \cup {s}, v)
      BY <3>1, CountTake
    <3> QED BY <3>0, <3>2
  <2> QED BY <1>0, <2>1, <2>5
<1> QED BY <1>0, <1>4, <1>5, <1>6, <1>7, <1>8

\* The next element of a run is not before what has been merged, and what is left of
\* both runs not before it.
LEMMA MergeOrders ==
    ASSUME MergeInv, at = "merge", NEW s \in 0 .. cnt - 1, NEW b, NEW l \in Int, NEW r \in Int,
           out < End,
           \A k \in 0 .. out - 1 : b[k] = mtmp[k], b[out] = nums[s],
           \/ s = left /\ left < Middle /\ l = left + 1 /\ r = right
           \/ s = right /\ right < End /\ l = left /\ r = right + 1,
           \A y \in l .. Middle - 1 : Fits(nums[s], nums[y]),
           \A y \in r .. End - 1 : Fits(nums[s], nums[y])
    PROVE  /\ InOrder(b, low, out + 1)
           /\ \A x \in low .. out : \A y \in l .. Middle - 1 : Fits(b[x], nums[y])
           /\ \A x \in low .. out : \A y \in r .. End - 1 : Fits(b[x], nums[y])
<1>1. /\ cnt \in Nat /\ low \in Nat /\ MergingInv /\ low < cnt
  BY DEF MergeInv, MergingInv, Given
<1>2. Middle \in low .. cnt /\ End \in Middle .. cnt
  BY <1>1, TwoRuns
<1>3. /\ left \in low .. Middle /\ right \in Middle .. End /\ out = left + (right - Middle)
      /\ InOrder(mtmp, low, out)
      /\ \A x \in low .. out - 1 : \A y \in left .. Middle - 1 : Fits(mtmp[x], nums[y])
      /\ \A x \in low .. out - 1 : \A y \in right .. End - 1 : Fits(mtmp[x], nums[y])
  BY <1>1 DEF MergingInv
<1>4. \A x \in low .. out - 1 : Fits(mtmp[x], nums[s])
  BY <1>1, <1>2, <1>3
<1>5. \A x \in low .. out - 1 : b[x] = mtmp[x]
  BY <1>1, <1>2, <1>3
<1>6. InOrder(b, low, out + 1)
  <2>1. ASSUME NEW x \in low .. (out + 1) - 1, NEW y \in low .. (out + 1) - 1, x < y
        PROVE  Fits(b[x], b[y])
    <3>1. x \in low .. out - 1 /\ (y \in low .. out - 1 \/ y = out)
      BY <1>1, <1>2, <1>3, <2>1
    <3> QED BY <1>3, <1>4, <1>5, <2>1, <3>1 DEF InOrder
  <2> QED BY <2>1 DEF InOrder
<1>7. /\ l .. Middle - 1 \subseteq left .. Middle - 1 /\ r .. End - 1 \subseteq right .. End - 1
      /\ \A x \in low .. out : x \in low .. out - 1 \/ x = out
  BY <1>1, <1>2, <1>3
<1> QED BY <1>3, <1>5, <1>6, <1>7

LEMMA NumsAre == MergeInv /\ at # "idle" => \A k \in 0 .. cnt - 1 : nums[k] \in Nat
  BY NumsAssumption DEF MergeInv, Given

LEMMA MergeSteps ==
    ASSUME MergeInv, MergeOne
    PROVE  MergeInv'
<1>0. /\ at = "merge" /\ out < End /\ at' = "merge" /\ out' = out + 1
      /\ UNCHANGED <<sorter, drawn, cnt, rev, nums, width, low, top, heap, hole, held>>
  BY DEF MergeOne, argvars, heapvars, holevars
<1>1. /\ Given /\ SameNums(nums) /\ mtmp \in [0 .. cnt - 1 -> Nums \cup {Garbage}]
      /\ width \in Nat \ {0} /\ Runs(nums, width, cnt)
      /\ low \in Nat /\ (\E m \in Nat : low = m * (2 * width))
      /\ Runs(mtmp, 2 * width, low) /\ MergingInv /\ cnt \in Nat /\ low < cnt /\ rev \in BOOLEAN
  BY <1>0 DEF MergeInv, MergingInv, Given
<1>2. /\ Middle \in low .. cnt /\ End \in Middle .. cnt
      /\ InOrder(nums, low, Middle) /\ InOrder(nums, Middle, End)
  BY <1>0, <1>1, TwoRuns
<1>3. /\ left \in low .. Middle /\ right \in Middle .. End /\ out = left + (right - Middle)
  BY <1>1 DEF MergingInv
<1>4. Middle' = Middle /\ End' = End
  BY <1>0 DEF Middle, End, Smaller
<1>5. \A k \in 0 .. cnt - 1 : nums[k] \in Nat
  BY <1>0, NumsAre
<1> DEFINE Step(s, l, r) ==
        /\ s \in 0 .. cnt - 1 /\ s \notin Merged /\ mtmp' = [mtmp EXCEPT ![out] = nums[s]]
        /\ left' = l /\ right' = r /\ l \in low .. Middle /\ r \in Middle .. End
        /\ out + 1 = l + (r - Middle)
        /\ Merged' = Merged \cup {s}
        /\ \/ s = left /\ left < Middle /\ l = left + 1 /\ r = right
           \/ s = right /\ right < End /\ l = left /\ r = right + 1
        /\ \A y \in l .. Middle - 1 : Fits(nums[s], nums[y])
        /\ \A y \in r .. End - 1 : Fits(nums[s], nums[y])
<1>6. \E s, l, r \in Int : Step(s, l, r)
  <2>1. CASE FromLeft
    <3>1. /\ left < Middle /\ mtmp' = [mtmp EXCEPT ![out] = nums[left]]
          /\ left' = left + 1 /\ right' = right
          /\ right >= End \/ Precedes(nums[left], nums[right])
      BY <2>1 DEF MergeOne, FromLeft
    <3>2. Merged' = Merged \cup {left} /\ left \notin Merged /\ left \in 0 .. cnt - 1
      BY <1>1, <1>2, <1>3, <1>4, <3>1 DEF Merged
    <3>3. \A y \in left + 1 .. Middle - 1 : Fits(nums[left], nums[y])
      BY <1>1, <1>2, <1>3, <3>1 DEF InOrder
    <3>4. ASSUME NEW y \in right .. End - 1 PROVE Fits(nums[left], nums[y])
      <4>1. right \in 0 .. cnt - 1 /\ y \in 0 .. cnt - 1 /\ left \in 0 .. cnt - 1 /\ right < End
            /\ (y = right \/ Fits(nums[right], nums[y]))
        BY <1>1, <1>2, <1>3, <3>1, <3>4 DEF InOrder
      <4>2. nums[left] \in Nat /\ nums[right] \in Nat /\ nums[y] \in Nat
        BY <1>5, <4>1
      <4>3. Fits(nums[left], nums[right])
        <5>1. Precedes(nums[left], nums[right])
          BY <1>1, <1>2, <1>3, <3>1, <4>1
        <5> QED BY <1>1, <4>2, <5>1, FitsOrder
      <4> QED BY <1>1, <4>1, <4>2, <4>3, FitsOrder
    <3>5. Step(left, left + 1, right)
      BY <1>1, <1>2, <1>3, <3>1, <3>2, <3>3, <3>4
    <3>6. left \in Int /\ left + 1 \in Int /\ right \in Int
      BY <1>1, <1>2, <1>3
    <3> HIDE DEF Step
    <3> QED BY <3>5, <3>6
  <2>2. CASE ~FromLeft
    <3>1. /\ mtmp' = [mtmp EXCEPT ![out] = nums[right]]
          /\ right' = right + 1 /\ left' = left
      BY <2>2 DEF MergeOne
    <3>2. right < End
      BY <1>0, <1>1, <1>2, <1>3, <2>2 DEF FromLeft
    <3>3. Merged' = Merged \cup {right} /\ right \notin Merged /\ right \in 0 .. cnt - 1
      BY <1>1, <1>2, <1>3, <1>4, <3>1, <3>2 DEF Merged
    <3>4. \A y \in right + 1 .. End - 1 : Fits(nums[right], nums[y])
      BY <1>1, <1>2, <1>3, <3>1, <3>2 DEF InOrder
    <3>5. ASSUME NEW y \in left .. Middle - 1 PROVE Fits(nums[right], nums[y])
      <4>1. right \in 0 .. cnt - 1 /\ y \in 0 .. cnt - 1 /\ left \in 0 .. cnt - 1 /\ left < Middle
            /\ (y = left \/ Fits(nums[left], nums[y]))
        BY <1>1, <1>2, <1>3, <3>2, <3>5 DEF InOrder
      <4>2. nums[left] \in Nat /\ nums[right] \in Nat /\ nums[y] \in Nat
        BY <1>5, <4>1
      <4>3. Fits(nums[right], nums[left])
        <5>1. ~Precedes(nums[left], nums[right])
          BY <2>2, <4>1 DEF FromLeft
        <5> QED BY <5>1 DEF Fits
      <4> QED BY <1>1, <4>1, <4>2, <4>3, FitsOrder
    <3>6. Step(right, left, right + 1)
      BY <1>1, <1>2, <1>3, <3>1, <3>2, <3>3, <3>4, <3>5
    <3>7. left \in Int /\ right \in Int /\ right + 1 \in Int
      BY <1>1, <1>2, <1>3
    <3> HIDE DEF Step
    <3> QED BY <3>6, <3>7
  <2> QED BY <2>1, <2>2
<1>7. PICK s, l, r \in Int : Step(s, l, r)
  BY <1>6
<1>8. /\ s \in 0 .. cnt - 1 /\ s \notin Merged /\ mtmp' = [mtmp EXCEPT ![out] = nums[s]]
      /\ left' = l /\ right' = r /\ l \in low .. Middle /\ r \in Middle .. End
      /\ out + 1 = l + (r - Middle)
      /\ Merged' = Merged \cup {s}
      /\ \/ s = left /\ left < Middle /\ l = left + 1 /\ r = right
         \/ s = right /\ right < End /\ l = left /\ r = right + 1
      /\ \A y \in l .. Middle - 1 : Fits(nums[s], nums[y])
      /\ \A y \in r .. End - 1 : Fits(nums[s], nums[y])
  BY <1>7
<1> HIDE DEF Step
<1>9. /\ (\A k \in 0 .. out - 1 : mtmp[k] \in Nums)'
      /\ (\A v \in Nums : Count(mtmp, 0 .. out - 1, v) = Count(nums, Merged, v))'
      /\ out \in 0 .. cnt - 1
      /\ mtmp' \in [0 .. cnt - 1 -> Nums \cup {Garbage}]
      /\ \A k \in 0 .. out - 1 : mtmp'[k] = mtmp[k]
      /\ mtmp'[out] = nums[s]
  BY <1>8, MergeTakes
<1>10. PICK b : b = mtmp'
  OBVIOUS
<1>11. /\ InOrder(b, low, out + 1)
       /\ \A x \in low .. out : \A y \in l .. Middle - 1 : Fits(b[x], nums[y])
       /\ \A x \in low .. out : \A y \in r .. End - 1 : Fits(b[x], nums[y])
  <2>1. (\A k \in 0 .. out - 1 : b[k] = mtmp[k]) /\ b[out] = nums[s]
    BY <1>9, <1>10
  <2> QED BY <1>0, <1>8, <2>1, MergeOrders
<1>12. MergingInv'
  <2>1. /\ (low < cnt)' /\ (left \in low .. Middle)' /\ (right \in Middle .. End)'
        /\ (out = left + (right - Middle))'
    BY <1>0, <1>1, <1>4, <1>8
  <2>2. InOrder(mtmp, low, out)'
    BY <1>0, <1>10, <1>11 DEF InOrder, Fits, Precedes
  <2>3. low' .. out' - 1 = low .. out
    BY <1>0, <1>9
  <2>4. /\ (\A x \in low .. out - 1 : \A y \in left .. Middle - 1 : Fits(mtmp[x], nums[y]))'
        /\ (\A x \in low .. out - 1 : \A y \in right .. End - 1 : Fits(mtmp[x], nums[y]))'
    BY <1>0, <1>4, <1>8, <1>10, <1>11, <2>3 DEF Fits, Precedes
  <2> QED BY <1>9, <2>1, <2>2, <2>4 DEF MergingInv
<1>13. Runs(mtmp, 2 * width, low)'
  <2>1. ASSUME NEW m \in Nat, m * (2 * width) < low
        PROVE  InOrder(mtmp, m * (2 * width), Smaller(m * (2 * width) + 2 * width, cnt))'
    <3>1. InOrder(mtmp, m * (2 * width), Smaller(m * (2 * width) + 2 * width, cnt))
      BY <1>1, <2>1 DEF Runs
    <3>2. m * (2 * width) + 2 * width <= low /\ m * (2 * width) \in Nat
      <4>1. PICK w \in Nat \ {0} : w = 2 * width
        BY <1>1
      <4>2. PICK m2 \in Nat : low = m2 * w
        BY <1>1, <4>1
      <4> QED BY <2>1, <4>1, <4>2, MulLess
    <3>3. Smaller(m * (2 * width) + 2 * width, cnt) <= low
      BY <1>1, <3>2 DEF Smaller
    <3>4. PICK lo \in Nat, hi \in Int : lo = m * (2 * width) /\ hi <= low
                                       /\ hi = Smaller(m * (2 * width) + 2 * width, cnt)
      BY <1>1, <3>2, <3>3 DEF Smaller
    <3>5. \A k \in lo .. hi - 1 : b[k] = mtmp[k]
      BY <1>1, <1>2, <1>3, <1>9, <1>10, <3>4
    <3>6. InOrder(b, lo, hi)
      BY <3>1, <3>4, <3>5, InOrderSame
    <3>7. (lo = m * (2 * width) /\ hi = Smaller(m * (2 * width) + 2 * width, cnt))'
      BY <1>0, <3>4 DEF Smaller
    <3> QED BY <1>0, <1>10, <3>6, <3>7 DEF InOrder, Fits, Precedes
  <2> QED BY <1>0, <2>1 DEF Runs
<1>14. /\ Given' /\ SameNums(nums)' /\ (mtmp \in [0 .. cnt - 1 -> Nums \cup {Garbage}])'
       /\ (width \in Nat \ {0})' /\ Runs(nums, width, cnt)'
       /\ (low \in Nat)' /\ (\E m \in Nat : low = m * (2 * width))'
  BY <1>0, <1>1, <1>9 DEF Given, SameNums, Runs, InOrder, Fits, Precedes, Smaller
<1> QED BY <1>0, <1>12, <1>13, <1>14 DEF MergeInv

LEMMA MergeEnds ==
    ASSUME MergeInv, EndMerge
    PROVE  MergeInv'
<1>0. /\ at = "merge" /\ out >= End /\ at' = "runs" /\ low' = low + 2 * width
      /\ UNCHANGED <<sorter, drawn, cnt, rev, nums, mtmp, width, left, right, out, top, heap, hole, held>>
  BY DEF EndMerge, argvars, heapvars, holevars
<1>1. /\ Given /\ SameNums(nums) /\ mtmp \in [0 .. cnt - 1 -> Nums \cup {Garbage}]
      /\ width \in Nat \ {0} /\ Runs(nums, width, cnt)
      /\ low \in Nat /\ Runs(mtmp, 2 * width, low) /\ MergingInv /\ cnt \in Nat /\ low < cnt
  BY <1>0 DEF MergeInv, MergingInv, Given
<1>2. /\ Middle \in low .. cnt /\ End \in Middle .. cnt /\ low < End
      /\ End = cnt \/ End = low + 2 * width
  BY <1>0, <1>1, TwoRuns
<1>3. /\ left \in low .. Middle /\ right \in Middle .. End /\ out = left + (right - Middle)
      /\ \A k \in 0 .. out - 1 : mtmp[k] \in Nums
      /\ InOrder(mtmp, low, out)
      /\ \A v \in Nums : Count(mtmp, 0 .. out - 1, v) = Count(nums, Merged, v)
  BY <1>1 DEF MergingInv
<1>4. out = End /\ left = Middle /\ right = End
  BY <1>0, <1>1, <1>2, <1>3
<1>5. Merged = 0 .. out - 1
  BY <1>1, <1>2, <1>4 DEF Merged
<1>6. Smaller(low + 2 * width, cnt) = out
  BY <1>4 DEF End
<1>7. PICK m \in Nat : low = m * (2 * width)
  BY <1>0 DEF MergeInv
<1>8. /\ low + 2 * width \in Nat /\ m + 1 \in Nat /\ low + 2 * width = (m + 1) * (2 * width)
  BY <1>1, <1>7, MulTwice
<1>9. Runs(mtmp, 2 * width, low + 2 * width)
  <2>1. PICK w \in Nat \ {0} : w = 2 * width
    BY <1>1
  <2>2. ASSUME NEW j \in Nat, j * w < low + w
        PROVE  InOrder(mtmp, j * w, Smaller(j * w + w, cnt))
    <3>1. CASE j * w < low
      BY <1>1, <2>1, <3>1 DEF Runs
    <3>2. CASE ~(j * w < low)
      <4>1. j = m
        <5>1. m * w = low /\ (m + 1) * w = low + w
          BY <1>7, <1>8, <2>1
        <5>2. ~(j < m)
          BY <2>1, <3>2, <5>1, MulLess
        <5>3. j < m + 1
          BY <2>1, <2>2, <5>1, MulLess
        <5> QED BY <5>2, <5>3
      <4> QED BY <1>3, <1>6, <1>7, <2>1, <4>1
    <3> QED BY <3>1, <3>2
  <2> QED BY <2>1, <2>2 DEF Runs
<1>10. RunsInv'
  BY <1>0, <1>3, <1>5, <1>6 DEF RunsInv, Smaller
<1>11. /\ Given' /\ SameNums(nums)' /\ (mtmp \in [0 .. cnt - 1 -> Nums \cup {Garbage}])'
       /\ (width \in Nat \ {0})' /\ Runs(nums, width, cnt)'
       /\ (low \in Nat)' /\ (\E k \in Nat : low = k * (2 * width))'
  BY <1>0, <1>1, <1>8 DEF Given, SameNums, Runs, InOrder, Fits, Precedes, Smaller
<1>12. Runs(mtmp, 2 * width, low)'
  BY <1>0, <1>9 DEF Runs, InOrder, Fits, Precedes, Smaller
<1> QED BY <1>0, <1>10, <1>11, <1>12 DEF MergeInv

LEMMA MergeCopies ==
    ASSUME MergeInv, CopyBack
    PROVE  MergeInv'
<1>0. /\ at = "runs" /\ low >= cnt /\ at' = "pass" /\ nums' = mtmp /\ width' = 2 * width
      /\ UNCHANGED <<sorter, drawn, cnt, rev, mtmp, low, left, right, out, top, heap, hole, held>>
  BY DEF CopyBack, argvars, heapvars, holevars
<1>1. /\ Given /\ SameNums(nums) /\ mtmp \in [0 .. cnt - 1 -> Nums \cup {Garbage}]
      /\ width \in Nat \ {0} /\ low \in Nat /\ Runs(mtmp, 2 * width, low) /\ RunsInv /\ cnt \in Nat
      /\ drawn \in [0 .. cnt - 1 -> Nums] /\ rev \in BOOLEAN
  BY <1>0 DEF MergeInv, Given
<1>2. Smaller(low, cnt) = cnt
  BY <1>0, <1>1 DEF Smaller
<1>3. \A k \in 0 .. cnt - 1 : mtmp[k] \in Nums
  BY <1>1, <1>2 DEF RunsInv
<1>4. mtmp \in [0 .. cnt - 1 -> Nums]
  BY <1>1, <1>3
<1>5. \A v \in Nums : Count(mtmp, 0 .. cnt - 1, v) = Count(drawn, 0 .. cnt - 1, v)
  BY <1>1, <1>2 DEF RunsInv, SameNums
<1>6. Given' /\ SameNums(nums)' /\ (mtmp \in [0 .. cnt - 1 -> Nums \cup {Garbage}])'
  BY <1>0, <1>1, <1>4, <1>5 DEF Given, SameNums
<1>7. Runs(mtmp, 2 * width, cnt)
  BY <1>0, <1>1 DEF Runs
<1>8. (width \in Nat \ {0})' /\ Runs(nums, width, cnt)'
  BY <1>0, <1>1, <1>7 DEF Runs, InOrder, Fits, Precedes, Smaller
<1> QED BY <1>0, <1>6, <1>8 DEF MergeInv

LEMMA MergePasses ==
    ASSUME MergeInv, Pass
    PROVE  MergeInv'
<1>0. /\ at = "pass"
      /\ UNCHANGED <<sorter, drawn, cnt, rev, nums, mtmp, width, left, right, out, top, heap, hole, held>>
  BY DEF Pass, argvars, heapvars, holevars
<1>1. /\ Given /\ SameNums(nums) /\ mtmp \in [0 .. cnt - 1 -> Nums \cup {Garbage}]
      /\ width \in Nat \ {0} /\ Runs(nums, width, cnt) /\ cnt \in Nat
  BY <1>0 DEF MergeInv, Given
<1>2. /\ Given' /\ SameNums(nums)' /\ (mtmp \in [0 .. cnt - 1 -> Nums \cup {Garbage}])'
      /\ (width \in Nat \ {0})' /\ Runs(nums, width, cnt)'
  BY <1>0, <1>1 DEF Given, SameNums, Runs, InOrder, Fits, Precedes, Smaller
<1>3. CASE width < cnt
  <2>1. at' = "runs" /\ low' = 0
    BY <1>3 DEF Pass
  <2>2. (low \in Nat)' /\ (\E m \in Nat : low = m * (2 * width))'
    <3>1. 0 * (2 * width) = 0
      BY <1>1
    <3> QED BY <1>0, <2>1, <3>1
  <2>3. Runs(mtmp, 2 * width, low)'
    <3>1. ASSUME NEW m \in Nat PROVE ~(m * (2 * width) < 0)
      BY <1>1, MulTwice
    <3> QED BY <1>0, <2>1, <3>1 DEF Runs
  <2>4. RunsInv'
    <3>1. Smaller(low, cnt)' = 0
      BY <1>0, <1>1, <1>3, <2>1 DEF Smaller
    <3>2. 0 .. 0 - 1 = {}
      OBVIOUS
    <3>3. ASSUME NEW a, NEW b, NEW v PROVE Count(a, {}, v) = Count(b, {}, v)
      BY CountSame
    <3> QED BY <3>1, <3>2, <3>3 DEF RunsInv
  <2> QED BY <1>2, <2>1, <2>2, <2>3, <2>4 DEF MergeInv
<1>4. CASE ~(width < cnt)
  <2>1. at' = "sorted" /\ low' = low
    BY <1>4 DEF Pass
  <2>2. InOrder(nums, 0, cnt)
    <3>1. 0 * width = 0 /\ Smaller(0 + width, cnt) = cnt
      BY <1>1, <1>4 DEF Smaller
    <3>2. 0 < cnt => InOrder(nums, 0, Smaller(0 + width, cnt))
      BY <1>1, <3>1 DEF Runs
    <3> QED BY <1>1, <3>1, <3>2 DEF InOrder
  <2>3. InOrder(nums, 0, cnt)'
    BY <1>0, <2>2 DEF InOrder, Fits, Precedes
  <2> QED BY <1>2, <2>1, <2>3 DEF MergeInv
<1> QED BY <1>3, <1>4

LEMMA MergeSets ==
    ASSUME MergeInv, mergesort64
    PROVE  MergeInv'
<1>0. /\ at = "sort" /\ at' = "pass" /\ width' = 1
      /\ UNCHANGED <<sorter, drawn, cnt, rev, nums, mtmp, low, left, right, out, top, heap, hole, held>>
  BY DEF mergesort64, argvars, heapvars, holevars
<1>1. /\ Given /\ SameNums(nums) /\ mtmp \in [0 .. cnt - 1 -> Nums \cup {Garbage}] /\ cnt \in Nat
  BY <1>0 DEF MergeInv, Given
<1>2. /\ Given' /\ SameNums(nums)' /\ (mtmp \in [0 .. cnt - 1 -> Nums \cup {Garbage}])'
  BY <1>0, <1>1 DEF Given, SameNums
<1>3. Runs(nums, 1, cnt)
  BY <1>1 DEF Runs, InOrder, Smaller
<1>4. (width \in Nat \ {0})' /\ Runs(nums, width, cnt)'
  BY <1>0, <1>3 DEF Runs, InOrder, Fits, Precedes, Smaller
<1> QED BY <1>0, <1>2, <1>4 DEF MergeInv

LEMMA MergeDraws ==
    ASSUME MergeInv, NEW n \in Nat, NEW desc \in BOOLEAN, Draw(n, desc)
    PROVE  MergeInv'
<1>0. /\ at' = "sort" /\ cnt' = n /\ rev' = desc /\ nums' \in [0 .. n - 1 -> Nums] /\ drawn' = nums'
      /\ mtmp' = [k \in 0 .. n - 1 |-> Garbage]
  BY DEF Draw
<1>1. Given' /\ SameNums(nums)' /\ (mtmp \in [0 .. cnt - 1 -> Nums \cup {Garbage}])'
  BY <1>0 DEF Given, SameNums
<1> QED BY <1>0, <1>1 DEF MergeInv

LEMMA MergeKeeps ==
    ASSUME MergeInv, MergeNext
    PROVE  MergeInv'
  BY MergeSets, MergePasses, MergeBegins, MergeCopies, MergeSteps, MergeEnds DEF MergeNext

LEMMA MergeSorts ==
    ASSUME MergeInv, at = "sorted"
    PROVE  /\ cnt \in Nat /\ nums \in [0 .. cnt - 1 -> Nums] /\ drawn \in [0 .. cnt - 1 -> Nums]
           /\ SameNums(nums) /\ InOrder(nums, 0, cnt)
  BY DEF MergeInv, Given

-----------------------------------------------------------------------------
(* Heap sort *)

LEMMA ParentIs ==
    ASSUME NEW c \in Nat \ {0}
    PROVE  /\ Parent(c) \in Nat /\ Parent(c) < c
           /\ c = 2 * Parent(c) + 1 \/ c = 2 * Parent(c) + 2
           /\ \A h \in Nat : c = 2 * h + 1 \/ c = 2 * h + 2 => Parent(c) = h
  BY DEF Parent

LEMMA KeptSwap ==
    ASSUME NEW a, NEW b, cnt \in Nat, NEW x \in 0 .. cnt - 1, NEW y \in 0 .. cnt - 1,
           \A k \in (0 .. cnt - 1) \ {x, y} : a[k] = b[k], a[x] = b[y], a[y] = b[x], SameNums(a)
    PROVE  SameNums(b)
<1>1. PICK S : S = 0 .. cnt - 1
  OBVIOUS
<1>2. IsFiniteSet(S)
  BY <1>1, FS_Interval
<1>3. ASSUME NEW v \in Nums PROVE Count(b, S, v) = Count(a, S, v)
  BY <1>1, <1>2, CountSwap
<1> QED BY <1>1, <1>3 DEF SameNums

\* Nothing of the heap comes behind the root.
LEMMA RootLast ==
    ASSUME rev \in BOOLEAN, NEW a, NEW n \in Nat, \A k \in 0 .. n - 1 : a[k] \in Nat,
           \A c \in 1 .. n - 1 : Fits(a[c], a[Parent(c)])
    PROVE  \A c \in 0 .. n - 1 : Fits(a[c], a[0])
<1> DEFINE B == {c \in 0 .. n - 1 : ~Fits(a[c], a[0])}
<1>1. ASSUME B # {} PROVE FALSE
  <2>1. PICK c \in B : \A m \in B : c <= m
    <3>1. B \in SUBSET Nat
      OBVIOUS
    <3> HIDE DEF B
    <3> QED BY <1>1, <3>1, Least
  <2>2. c \in 0 .. n - 1 /\ ~Fits(a[c], a[0]) /\ a[c] \in Nat /\ a[0] \in Nat
    OBVIOUS
  <2>3. c # 0
    BY <2>2, FitsOrder
  <2>4. c \in Nat \ {0} /\ c \in 1 .. n - 1
    BY <2>2, <2>3
  <2>5. Parent(c) \in 0 .. n - 1 /\ Parent(c) < c
    BY <2>2, <2>4, ParentIs
  <2>6. Fits(a[Parent(c)], a[0])
    BY <2>1, <2>2, <2>5
  <2>7. Fits(a[c], a[Parent(c)]) /\ a[Parent(c)] \in Nat
    BY <2>4, <2>5
  <2> QED BY <2>2, <2>6, <2>7, FitsOrder
<1> QED BY <1>1

LEMMA TailSwap ==
    ASSUME cnt \in Nat, NEW a, NEW b, NEW n \in Int, NEW x \in 0 .. n - 1, NEW y \in 0 .. n - 1,
           n <= cnt,
           \A k \in (0 .. cnt - 1) \ {x, y} : a[k] = b[k], a[x] = b[y], a[y] = b[x], Behind(a, n)
    PROVE  Behind(b, n)
<1>1. ASSUME NEW pos \in 0 .. cnt - 1, NEW j \in 0 .. cnt - 1, pos < j, j >= n
      PROVE  Fits(b[pos], b[j])
  <2>1. b[j] = a[j] /\ x < j /\ y < j /\ x \in 0 .. cnt - 1 /\ y \in 0 .. cnt - 1
    BY <1>1
  <2>2. \E m \in 0 .. cnt - 1 : b[pos] = a[m] /\ m < j
    BY <1>1, <2>1
  <2> QED BY <1>1, <2>1, <2>2 DEF Behind
<1> QED BY <1>1 DEF Behind

LEMMA SinkStep ==
    ASSUME rev \in BOOLEAN, heap \in Nat, top \in Nat, NEW h \in top .. heap - 1, NEW a, NEW b,
           NEW c \in 1 .. heap - 1, Parent(c) = h,
           \A k \in (0 .. heap - 1) \ {h, c} : a[k] = b[k], a[h] = b[c], a[c] = b[h],
           Fits(a[h], a[c]), \A o \in 1 .. heap - 1 : Parent(o) = h => Fits(a[o], a[c]),
           SinkInv(a, h)
    PROVE  SinkInv(b, c)
<1>0. h \in Nat /\ h < c /\ c \in Nat \ {0}
  BY ParentIs
<1>1. ASSUME NEW x \in 1 .. heap - 1, Parent(x) >= top, Parent(x) # c
      PROVE  Fits(b[x], b[Parent(x)])
  <2>0. x \in Nat \ {0} /\ Parent(x) \in Nat /\ Parent(x) < x /\ Parent(x) \in 0 .. heap - 1
    BY ParentIs
  <2>1. CASE x = h
    <3>1. h # top /\ Parent(h) # h /\ Parent(h) # c
      BY <1>0, <1>1, <2>0, <2>1
    <3>2. b[h] = a[c] /\ b[Parent(h)] = a[Parent(h)]
      BY <2>0, <2>1, <3>1
    <3> QED BY <2>1, <3>1, <3>2 DEF SinkInv
  <2>2. CASE x # h /\ Parent(x) = h
    <3>1. CASE x = c
      BY <2>2, <3>1
    <3>2. CASE x # c
      <4>1. b[x] = a[x]
        BY <2>0, <2>2, <3>2
      <4> QED BY <2>2, <4>1
    <3> QED BY <3>1, <3>2
  <2>3. CASE x # h /\ Parent(x) # h
    <3>1. x # c
      BY <2>3
    <3>2. b[x] = a[x] /\ b[Parent(x)] = a[Parent(x)]
      BY <1>1, <2>0, <2>3, <3>1
    <3> QED BY <1>1, <2>3, <3>2 DEF SinkInv
  <2> QED BY <2>1, <2>2, <2>3
<1>2. Parent(c) >= top
  BY <1>0
<1>3. ASSUME NEW x \in 1 .. heap - 1, Parent(x) = c PROVE Fits(b[x], b[Parent(c)])
  <2>1. x \in Nat \ {0} /\ c < x
    BY <1>3, ParentIs
  <2>2. b[x] = a[x] /\ b[h] = a[c]
    BY <1>0, <2>1
  <2>3. Fits(a[x], a[c])
    BY <1>0, <1>3 DEF SinkInv
  <2> QED BY <2>2, <2>3
<1> QED BY <1>1, <1>2, <1>3 DEF SinkInv

LEMMA HeapDraws ==
    ASSUME HeapInv, NEW n \in Nat \ {0}, NEW desc \in BOOLEAN, Draw(n, desc)
    PROVE  HeapInv'
<1>0. /\ at' = "sort" /\ cnt' = n /\ rev' = desc /\ nums' \in [0 .. n - 1 -> Nums] /\ drawn' = nums'
  BY DEF Draw
<1>1. Given' /\ (cnt > 0)' /\ SameNums(Filled)'
  BY <1>0 DEF Given, SameNums, Filled
<1> QED BY <1>0, <1>1 DEF HeapInv

LEMMA HeapSets ==
    ASSUME HeapInv, heapsort64
    PROVE  HeapInv'
<1>0. /\ at = "sort" /\ at' = "pick" /\ top' = cnt \div 2 /\ heap' = cnt
      /\ UNCHANGED <<drawn, cnt, rev, nums>>
  BY DEF heapsort64, argvars
<1>1. Given /\ SameNums(Filled) /\ cnt \in Nat \ {0}
  BY <1>0 DEF HeapInv, Given
<1>2. Given' /\ (cnt > 0)' /\ SameNums(Filled)'
  BY <1>0, <1>1 DEF Given, SameNums, Filled
<1>3. (heap \in 1 .. cnt /\ top \in 0 .. cnt /\ (top > 0 => heap = cnt))' /\ Behind(Filled, heap)'
  BY <1>0, <1>1 DEF Behind
<1>4. ASSUME NEW c \in 1 .. cnt - 1 PROVE ~(Parent(c) >= cnt \div 2)
  BY <1>1 DEF Parent
<1>5. (\A c \in 1 .. heap - 1 : Parent(c) >= top => Fits(nums[c], nums[Parent(c)]))'
  BY <1>0, <1>4 DEF Parent
<1> QED BY <1>0, <1>2, <1>3, <1>5 DEF HeapInv

LEMMA HeapPicksParent ==
    ASSUME HeapInv, PickParent
    PROVE  HeapInv'
<1>0. /\ at = "pick" /\ top > 0 /\ at' = "sink" /\ top' = top - 1 /\ hole' = top - 1
      /\ held' = nums[top - 1]
      /\ UNCHANGED <<drawn, cnt, rev, nums, heap>>
  BY DEF PickParent, argvars
<1>1. /\ Given /\ SameNums(Filled) /\ cnt \in Nat \ {0} /\ heap = cnt /\ top \in 1 .. cnt
      /\ Behind(Filled, heap) /\ nums \in [0 .. cnt - 1 -> Nums] /\ Filled = nums
      /\ \A c \in 1 .. heap - 1 : Parent(c) >= top => Fits(nums[c], nums[Parent(c)])
  BY <1>0 DEF HeapInv, Given, Filled
<1>2. Filled' = nums
  <2>1. [nums EXCEPT ![top - 1] = nums[top - 1]] = nums
    BY <1>1
  <2> QED BY <1>0, <2>1 DEF Filled
<1>3. Given' /\ (cnt > 0)' /\ SameNums(Filled)'
  BY <1>0, <1>1, <1>2 DEF Given, SameNums
<1>4. (heap \in 1 .. cnt /\ top \in 0 .. cnt /\ (top > 0 => heap = cnt))' /\ Behind(Filled, heap)'
  BY <1>0, <1>1, <1>2 DEF Behind, Fits, Precedes
<1>5. (hole \in top .. heap - 1)' /\ held' \in Nums
  BY <1>0, <1>1
<1>6. SinkInv(Filled, hole)'
  <2>1. ASSUME NEW c \in 1 .. heap - 1, Parent(c) >= top - 1, Parent(c) # top - 1
        PROVE  Fits(nums[c], nums[Parent(c)])
    <3>1. Parent(c) \in Nat
      BY ParentIs
    <3>2. Parent(c) >= top
      BY <1>1, <2>1, <3>1
    <3> QED BY <1>1, <3>2
  <2> QED BY <1>0, <1>2, <2>1 DEF SinkInv, Fits, Precedes, Parent
<1> QED BY <1>0, <1>3, <1>4, <1>5, <1>6 DEF HeapInv

LEMMA HeapPicksLast ==
    ASSUME HeapInv, PickLast
    PROVE  HeapInv'
<1>0. /\ at = "pick" /\ top = 0 /\ heap' = heap - 1 /\ top' = 0
      /\ UNCHANGED <<drawn, cnt, rev>>
  BY DEF PickLast, argvars
<1>1. /\ Given /\ SameNums(nums) /\ cnt \in Nat \ {0} /\ heap \in 1 .. cnt /\ rev \in BOOLEAN
      /\ Behind(nums, heap) /\ nums \in [0 .. cnt - 1 -> Nums] /\ drawn \in [0 .. cnt - 1 -> Nums]
      /\ \A c \in 1 .. heap - 1 : Parent(c) >= top => Fits(nums[c], nums[Parent(c)])
  BY <1>0 DEF HeapInv, Given, Filled
<1>2. CASE heap = 1
  <2>1. at' = "sorted" /\ nums' = nums
    BY <1>2 DEF PickLast
  <2>2. Given' /\ (cnt > 0)' /\ SameNums(Filled)'
    BY <1>0, <1>1, <2>1 DEF Given, SameNums, Filled
  <2>3. InOrder(nums, 0, cnt)
    <3>1. ASSUME NEW x \in 0 .. cnt - 1, NEW y \in 0 .. cnt - 1, x < y
          PROVE  Fits(nums[x], nums[y])
      BY <1>1, <1>2, <3>1 DEF Behind
    <3> QED BY <3>1 DEF InOrder
  <2>4. InOrder(nums, 0, cnt)'
    BY <1>0, <2>1, <2>3 DEF InOrder, Fits, Precedes
  <2> QED BY <2>1, <2>2, <2>4 DEF HeapInv
<1>3. CASE heap # 1
  <2>1. /\ at' = "sink" /\ hole' = 0 /\ held' = nums[heap - 1]
        /\ nums' = [nums EXCEPT ![heap - 1] = nums[0]]
    BY <1>3 DEF PickLast
  <2>2. heap - 1 \in 1 .. cnt - 1 /\ 0 \in 0 .. cnt - 1
    BY <1>1, <1>3
  <2>3. PICK b : b = [nums EXCEPT ![heap - 1] = nums[0], ![0] = nums[heap - 1]]
    OBVIOUS
  <2>4. /\ \A k \in (0 .. cnt - 1) \ {0, heap - 1} : nums[k] = b[k]
        /\ nums[0] = b[heap - 1] /\ nums[heap - 1] = b[0]
    BY <1>1, <2>2, <2>3
  <2>5. Filled' = b
    BY <1>1, <2>1, <2>3 DEF Filled
  <2>6. SameNums(b)
    <3>1. PICK y \in 0 .. cnt - 1 : y = heap - 1
      BY <2>2
    <3> QED BY <1>1, <2>2, <2>4, <3>1, KeptSwap
  <2>7. nums' \in [0 .. cnt - 1 -> Nums] /\ held' \in Nums
    BY <1>1, <2>1, <2>2
  <2>8. \A c \in 0 .. heap - 1 : Fits(nums[c], nums[0])
    <3>1. ASSUME NEW k \in 0 .. heap - 1 PROVE nums[k] \in Nat
      <4>1. nums[k] \in Nums
        BY <1>1
      <4> QED BY <4>1, NumsAssumption
    <3>2. ASSUME NEW c \in 1 .. heap - 1 PROVE Fits(nums[c], nums[Parent(c)])
      <4>1. Parent(c) \in Nat /\ Parent(c) >= top
        BY <1>0, ParentIs
      <4> QED BY <1>1, <4>1
    <3>3. PICK a : a = nums
      OBVIOUS
    <3>4. PICK n \in Nat : n = heap
      BY <1>1
    <3>5. \A c \in 0 .. n - 1 : Fits(a[c], a[0])
      BY <1>1, <3>1, <3>2, <3>3, <3>4, RootLast
    <3> QED BY <3>3, <3>4, <3>5
  <2>9. Behind(b, heap - 1)
    <3>1. ASSUME NEW x \in 0 .. cnt - 1, NEW y \in 0 .. cnt - 1, x < y, y >= heap - 1
          PROVE  Fits(b[x], b[y])
      <4>1. CASE y = heap - 1
        <5>1. b[y] = nums[0] /\ \E m \in 0 .. heap - 1 : b[x] = nums[m]
          <6>1. CASE x = 0
            BY <1>1, <2>2, <2>4, <4>1, <6>1
          <6>2. CASE x # 0
            BY <1>1, <2>2, <2>4, <3>1, <4>1, <6>2
          <6> QED BY <6>1, <6>2
        <5> QED BY <2>8, <5>1
      <4>2. CASE y # heap - 1
        <5>1. y >= heap /\ b[y] = nums[y]
          BY <1>1, <2>2, <2>4, <3>1, <4>2
        <5>2. \E m \in 0 .. cnt - 1 : b[x] = nums[m] /\ m < y
          <6>1. CASE x = 0
            BY <1>1, <2>2, <2>4, <5>1, <6>1
          <6>2. CASE x = heap - 1
            BY <1>1, <2>2, <2>4, <5>1, <6>2
          <6>3. CASE x # 0 /\ x # heap - 1
            BY <1>1, <2>2, <2>4, <3>1, <6>3
          <6> QED BY <6>1, <6>2, <6>3
        <5> QED BY <1>1, <5>1, <5>2 DEF Behind
      <4> QED BY <4>1, <4>2
    <3> QED BY <3>1 DEF Behind
  <2>10. \A c \in 1 .. heap - 2 : Parent(c) >= 0 /\ Parent(c) # 0 => Fits(b[c], b[Parent(c)])
    <3>1. ASSUME NEW c \in 1 .. heap - 2, Parent(c) # 0
          PROVE  Fits(b[c], b[Parent(c)])
      <4>1. Parent(c) \in Nat /\ Parent(c) < c
        BY ParentIs
      <4>2. b[c] = nums[c] /\ b[Parent(c)] = nums[Parent(c)] /\ c \in 1 .. heap - 1
        BY <1>1, <2>2, <2>4, <3>1, <4>1
      <4> QED BY <1>0, <1>1, <4>1, <4>2
    <3> QED BY <3>1
  <2>11. (heap \in 1 .. cnt /\ top \in 0 .. cnt /\ (top > 0 => heap = cnt))' /\ Behind(Filled, heap)'
    BY <1>0, <1>1, <2>2, <2>5, <2>9 DEF Behind, Fits, Precedes
  <2>12. (hole \in top .. heap - 1)'
    BY <1>0, <2>1, <2>2
  <2>13. SinkInv(Filled, hole)'
    <3>1. heap' - 1 = heap - 2
      BY <1>0, <1>1
    <3> QED BY <1>0, <2>1, <2>5, <2>10, <3>1 DEF SinkInv, Fits, Precedes, Parent
  <2>14. Given' /\ (cnt > 0)' /\ SameNums(Filled)'
    BY <1>0, <1>1, <2>5, <2>6, <2>7 DEF Given, SameNums
  <2> QED BY <2>1, <2>7, <2>11, <2>12, <2>13, <2>14 DEF HeapInv
<1> QED BY <1>2, <1>3

LEMMA ChildIs ==
    ASSUME rev \in BOOLEAN, heap \in Nat, hole \in Nat, 2 * hole + 1 < heap,
           \A k \in 0 .. heap - 1 : nums[k] \in Nat
    PROVE  /\ Child \in 1 .. heap - 1 /\ Parent(Child) = hole
           /\ \A o \in 1 .. heap - 1 : Parent(o) = hole => Fits(nums[o], nums[Child])
<1> DEFINE c == 2 * hole + 1
<1>1. c \in 1 .. heap - 1 /\ (Child = c \/ (Child = c + 1 /\ c + 1 \in 1 .. heap - 1))
  BY DEF Child
<1>2. Child \in 1 .. heap - 1 /\ Parent(Child) = hole
  BY <1>1, ParentIs
<1>3. ASSUME NEW o \in 1 .. heap - 1, Parent(o) = hole PROVE Fits(nums[o], nums[Child])
  <2>1. o = c \/ o = c + 1
    BY <1>3, ParentIs
  <2>2. nums[o] \in Nat /\ nums[Child] \in Nat
    BY <1>2
  <2>3. CASE o = Child
    BY <2>2, <2>3, FitsOrder
  <2>4. CASE o = c /\ Child = c + 1
    <3>1. Precedes(nums[c], nums[c + 1])
      BY <2>4 DEF Child
    <3> QED BY <2>2, <2>4, <3>1, FitsOrder
  <2>5. CASE o = c + 1 /\ Child = c
    <3>1. c + 1 < heap
      BY <2>5
    <3>2. ~Precedes(nums[c], nums[c + 1])
      BY <2>5, <3>1 DEF Child
    <3> QED BY <2>5, <3>2 DEF Fits
  <2> QED BY <1>1, <2>1, <2>3, <2>4, <2>5
<1> QED BY <1>2, <1>3

LEMMA HeapSinks ==
    ASSUME HeapInv, Sink
    PROVE  HeapInv'
<1>0. /\ at = "sink"
      /\ UNCHANGED <<drawn, cnt, rev, heap, top, held>>
  BY DEF Sink, argvars, heapvars
<1>1. /\ Given /\ SameNums(Filled) /\ cnt \in Nat \ {0} /\ heap \in 1 .. cnt /\ rev \in BOOLEAN
      /\ top \in 0 .. cnt /\ (top > 0 => heap = cnt)
      /\ Behind(Filled, heap) /\ nums \in [0 .. cnt - 1 -> Nums] /\ drawn \in [0 .. cnt - 1 -> Nums]
      /\ hole \in top .. heap - 1 /\ held \in Nums /\ SinkInv(Filled, hole)
  BY <1>0 DEF HeapInv, Given
<1>2. PICK a : a = [nums EXCEPT ![hole] = held]
  OBVIOUS
<1>3. Filled = a /\ a \in [0 .. cnt - 1 -> Nums] /\ a[hole] = held
      /\ \A k \in 0 .. cnt - 1 : k # hole => a[k] = nums[k]
  BY <1>0, <1>1, <1>2 DEF Filled
<1>4. /\ \A k \in 0 .. heap - 1 : nums[k] \in Nat
      /\ \A k \in 0 .. cnt - 1 : a[k] \in Nat
      /\ held \in Nat /\ hole \in Nat
  <2>1. ASSUME NEW k \in 0 .. cnt - 1 PROVE nums[k] \in Nat /\ a[k] \in Nat
    <3>1. nums[k] \in Nums /\ a[k] \in Nums
      BY <1>1, <1>3
    <3> QED BY <3>1, NumsAssumption
  <2>2. held \in Nat /\ hole \in Nat
    BY <1>1, NumsAssumption
  <2>3. \A k \in 0 .. heap - 1 : k \in 0 .. cnt - 1
    BY <1>1
  <2> QED BY <2>1, <2>2, <2>3
<1>5. CASE Rests
  <2>1. at' = "pick" /\ nums' = a
    BY <1>2, <1>5 DEF Sink
  <2>2. Filled' = a
    BY <2>1 DEF Filled
  <2>3. Given' /\ (cnt > 0)' /\ SameNums(Filled)'
    BY <1>0, <1>1, <1>3, <2>1, <2>2 DEF Given, SameNums
  <2>4. (heap \in 1 .. cnt /\ top \in 0 .. cnt /\ (top > 0 => heap = cnt))' /\ Behind(Filled, heap)'
    BY <1>0, <1>1, <1>3, <2>2 DEF Behind, Fits, Precedes
  <2>5. ASSUME NEW c \in 1 .. heap - 1, Parent(c) >= top PROVE Fits(a[c], a[Parent(c)])
    <3>1. CASE Parent(c) # hole
      BY <1>1, <1>3, <2>5, <3>1 DEF SinkInv
    <3>2. CASE Parent(c) = hole
      <4>0. c \in Nat \ {0} /\ hole < c /\ (c = 2 * hole + 1 \/ c = 2 * hole + 2)
        BY <3>2, ParentIs
      <4>1. 2 * hole + 1 < heap
        BY <1>1, <1>4, <4>0
      <4>2. /\ Child \in 1 .. heap - 1 /\ Parent(Child) = hole
            /\ Fits(nums[c], nums[Child])
        BY <1>1, <1>4, <3>2, <4>1, ChildIs
      <4>3. Fits(nums[Child], held)
        <5>1. IF rev THEN nums[Child] > held ELSE nums[Child] <= held
          BY <1>1, <1>4, <1>5, <4>1 DEF Rests
        <5>2. nums[Child] \in Nat
          BY <1>4, <4>2
        <5> QED BY <1>1, <1>4, <5>1, <5>2 DEF Fits, Precedes
      <4>4. nums[c] \in Nat /\ nums[Child] \in Nat /\ a[c] = nums[c]
        BY <1>1, <1>3, <1>4, <4>0, <4>2
      <4> QED BY <1>1, <1>3, <1>4, <3>2, <4>2, <4>3, <4>4, FitsOrder
    <3> QED BY <3>1, <3>2
  <2>6. (\A c \in 1 .. heap - 1 : Parent(c) >= top => Fits(nums[c], nums[Parent(c)]))'
    BY <1>0, <2>1, <2>5 DEF Fits, Precedes, Parent
  <2> QED BY <2>1, <2>3, <2>4, <2>6 DEF HeapInv
<1>6. CASE ~Rests
  <2>1. at' = "sink" /\ nums' = [nums EXCEPT ![hole] = nums[Child]] /\ hole' = Child
    BY <1>0, <1>6 DEF Sink
  <2>2. 2 * hole + 1 < heap /\ ~(IF rev THEN nums[Child] > held ELSE nums[Child] <= held)
    BY <1>1, <1>4, <1>6 DEF Rests
  <2>3. PICK c \in 1 .. heap - 1 : c = Child /\ Parent(c) = hole
           /\ \A o \in 1 .. heap - 1 : Parent(o) = hole => Fits(nums[o], nums[c])
    BY <1>1, <1>4, <2>2, ChildIs
  <2>4. hole < c /\ c \in 0 .. cnt - 1 /\ hole \in 0 .. cnt - 1 /\ c \in Nat \ {0}
    BY <1>1, <1>4, <2>3, ParentIs
  <2>5. Fits(held, nums[c])
    <3>1. nums[c] \in Nat
      BY <1>4
    <3> QED BY <1>1, <1>4, <2>2, <2>3, <3>1 DEF Fits, Precedes
  <2>6. PICK b : b = [[nums EXCEPT ![hole] = nums[c]] EXCEPT ![c] = held]
    OBVIOUS
  <2>7. Filled' = b
    BY <1>0, <2>1, <2>3, <2>6 DEF Filled
  <2>8. /\ \A k \in (0 .. cnt - 1) \ {hole, c} : a[k] = b[k]
        /\ a[hole] = b[c] /\ a[c] = b[hole]
    BY <1>1, <1>3, <2>4, <2>6
  <2>9. SameNums(b)
    <3>1. PICK h \in 0 .. cnt - 1 : h = hole
      BY <2>4
    <3>2. PICK c2 \in 0 .. cnt - 1 : c2 = c
      BY <2>4
    <3> QED BY <1>1, <1>3, <2>8, <3>1, <3>2, KeptSwap
  <2>10. Behind(b, heap)
    <3>1. PICK h \in 0 .. heap - 1 : h = hole
      BY <1>1
    <3>2. PICK c2 \in 0 .. heap - 1 : c2 = c
      OBVIOUS
    <3> QED BY <1>1, <1>3, <2>8, <3>1, <3>2, TailSwap
  <2>11. SinkInv(b, c)
    <3>1. PICK h \in top .. heap - 1 : h = hole
      BY <1>1
    <3>2. \A k \in (0 .. heap - 1) \ {h, c} : a[k] = b[k]
      BY <1>1, <2>8, <3>1
    <3>3. a[h] = b[c] /\ a[c] = b[h] /\ a[c] = nums[c] /\ a[h] = held
      BY <1>3, <2>4, <2>8, <3>1
    <3>4. ASSUME NEW o \in 1 .. heap - 1, Parent(o) = h PROVE Fits(a[o], a[c])
      <4>1. o # hole /\ o \in 0 .. cnt - 1
        BY <1>1, <1>4, <3>1, <3>4, ParentIs
      <4>2. a[o] = nums[o] /\ a[c] = nums[c]
        BY <1>3, <3>3, <4>1
      <4> QED BY <2>3, <3>1, <3>4, <4>2
    <3>5. /\ SinkInv(a, h) /\ Parent(c) = h /\ Fits(a[h], a[c])
          /\ heap \in Nat /\ top \in Nat
      <4>1. SinkInv(a, hole) /\ heap \in Nat /\ top \in Nat
        BY <1>1, <1>3
      <4>2. Fits(a[h], a[c])
        BY <2>5, <3>3
      <4> QED BY <2>3, <3>1, <4>1, <4>2
    <3> QED BY <1>1, <3>2, <3>3, <3>4, <3>5, SinkStep
  <2>12. nums' \in [0 .. cnt - 1 -> Nums]
    BY <1>1, <2>1, <2>3, <2>4
  <2>13. Given' /\ (cnt > 0)' /\ SameNums(Filled)'
    BY <1>0, <1>1, <2>7, <2>9, <2>12 DEF Given, SameNums
  <2>14. (heap \in 1 .. cnt /\ top \in 0 .. cnt /\ (top > 0 => heap = cnt))' /\ Behind(Filled, heap)'
    BY <1>0, <1>1, <2>7, <2>10 DEF Behind, Fits, Precedes
  <2>15. (hole \in top .. heap - 1)' /\ held' \in Nums
    BY <1>0, <1>1, <2>1, <2>3, <2>4
  <2>16. SinkInv(Filled, hole)'
    BY <1>0, <2>1, <2>3, <2>7, <2>11 DEF SinkInv, Fits, Precedes, Parent
  <2> QED BY <2>1, <2>13, <2>14, <2>15, <2>16 DEF HeapInv
<1> QED BY <1>5, <1>6

LEMMA HeapKeeps ==
    ASSUME HeapInv, HeapNext
    PROVE  HeapInv'
  BY HeapSets, HeapPicksParent, HeapPicksLast, HeapSinks DEF HeapNext

LEMMA HeapSorts ==
    ASSUME HeapInv, at = "sorted"
    PROVE  /\ cnt \in Nat /\ nums \in [0 .. cnt - 1 -> Nums] /\ drawn \in [0 .. cnt - 1 -> Nums]
           /\ SameNums(nums) /\ InOrder(nums, 0, cnt)
  BY DEF HeapInv, Given, Filled

-----------------------------------------------------------------------------
(* What the sorts leave *)

LEMMA SortedIs ==
    ASSUME cnt \in Nat, nums \in [0 .. cnt - 1 -> Nums], drawn \in [0 .. cnt - 1 -> Nums],
           SameNums(nums), InOrder(nums, 0, cnt)
    PROVE  SortsTheNumbers
<1>1. DOMAIN nums = 0 .. cnt - 1 /\ DOMAIN drawn = 0 .. cnt - 1
  OBVIOUS
<1>2. \A v \in Nums : Cardinality({k \in DOMAIN nums : nums[k] = v}) = Cardinality({k \in DOMAIN drawn : drawn[k] = v})
  BY <1>1 DEF SameNums, Count
<1>3. Cardinality(DOMAIN drawn) = cnt
  <2>1. PICK lo \in Int, hi \in Int : lo = 0 /\ hi = cnt - 1
    OBVIOUS
  <2>2. Cardinality(lo .. hi) = IF lo > hi THEN 0 ELSE hi - lo + 1
    BY FS_Interval
  <2> QED BY <1>1, <2>1, <2>2
<1>4. ASSUME NEW k \in 1 .. cnt - 1 PROVE ~Precedes(nums[k], nums[k - 1])
  <2>1. k \in 0 .. cnt - 1 /\ k - 1 \in 0 .. cnt - 1 /\ k - 1 < k
    OBVIOUS
  <2> QED BY <2>1 DEF InOrder, Fits
<1> QED BY <1>1, <1>2, <1>3, <1>4 DEF SortsTheNumbers

-----------------------------------------------------------------------------
(* Smooth sort *)

\* x may stand before y, in descending order when d holds.
Ordered(d, x, y) == IF d THEN y <= x ELSE x <= y

\* b and c are two successive Leonardo numbers, of which -1 is the first.
LeonardoIn(V) == \A x, y \in Int : <<x, y>> \in V =>
    \/ x = 1 /\ y \in {-1, 1}
    \/ y >= 1 /\ x - y - 1 \in 1 .. y /\ <<y, x - y - 1>> \in V
Leonardo(b, c) == b \in Int /\ c \in Int /\ \E V : <<b, c>> \in V /\ LeonardoIn(V)

\* A tree of b elements whose root is at r and fits behind all others: V holds it and
\* the trees in it.
TreesIn(V, d, a) == \A s, x, y \in Int : <<s, x, y>> \in V =>
    /\ Leonardo(x, y)
    /\ x > 1 => /\ <<s - 1, x - y - 1, 2 * y - x>> \in V /\ Ordered(d, a[s - 1], a[s])
                /\ <<s - x + y, y, x - y - 1>> \in V /\ Ordered(d, a[s - x + y], a[s])
Tree(d, a, r, b, c) ==
    /\ r \in Int /\ b \in Int /\ c \in Int
    /\ \E V : <<r, b, c>> \in V /\ TreesIn(V, d, a)

\* The two trees below the root.
Below(d, a, r, b, c) ==
    b > 1 => Tree(d, a, r - 1, b - c - 1, 2 * c - b) /\ Tree(d, a, r - b + c, c, b - c - 1)

\* The trees of p, from the one at r to the left, hold what is in 0 .. r, and their roots
\* are in order.
ForestsIn(V, d, a) == \A t, x, y, s \in Int : <<t, x, y, s>> \in V =>
    /\ t \in Nat /\ Leonardo(x, y)
    /\ t = 0 => s = -1
    /\ t > 0 => s >= 0
    /\ t > 0 /\ t % 2 = 0 => <<t \div 2, x + y + 1, x, s>> \in V
    /\ t % 2 = 1 => /\ s >= x - 1 /\ Tree(d, a, s, x, y)
                    /\ t > 1 => Ordered(d, a[s - x], a[s])
                    /\ <<t - 1, x, y, s - x>> \in V
Forest(d, a, p, b, c, r) ==
    /\ p \in Int /\ b \in Int /\ c \in Int /\ r \in Int
    /\ \E V : <<p, b, c, r>> \in V /\ ForestsIn(V, d, a)

LEMMA LeonardoIs ==
    ASSUME NEW b, NEW c, Leonardo(b, c)
    PROVE  /\ b \in Int /\ c \in Int /\ b >= 1
           /\ \/ b = 1 /\ c \in {-1, 1}
              \/ b >= 3 /\ c >= 1 /\ b - c - 1 \in 1 .. c
           /\ c >= 1 => Leonardo(c, b - c - 1)
           /\ Leonardo(b + c + 1, b)
<1>1. PICK V : <<b, c>> \in V /\ LeonardoIn(V)
  BY DEF Leonardo
<1>2. b \in Int /\ c \in Int
  BY DEF Leonardo
<1>3. \/ b = 1 /\ c \in {-1, 1}
      \/ c >= 1 /\ b - c - 1 \in 1 .. c /\ <<c, b - c - 1>> \in V
  BY <1>1, <1>2 DEF LeonardoIn
<1>4. ASSUME c >= 1 PROVE Leonardo(c, b - c - 1)
  <2>1. CASE b = 1 /\ c = 1
    <3>1. LeonardoIn({<<1, -1>>})
      BY DEF LeonardoIn
    <3>2. Leonardo(1, -1)
      BY <3>1 DEF Leonardo
    <3> QED BY <2>1, <3>2
  <2>2. CASE <<c, b - c - 1>> \in V
    BY <1>1, <1>2, <2>2 DEF Leonardo
  <2> QED BY <1>2, <1>3, <1>4, <2>1, <2>2
<1>5. Leonardo(b + c + 1, b)
  <2>1. PICK W : W = V \cup {<<b + c + 1, b>>}
    OBVIOUS
  <2>2. LeonardoIn(W)
    <3> SUFFICES ASSUME NEW x \in Int, NEW y \in Int, <<x, y>> \in W
                 PROVE  \/ x = 1 /\ y \in {-1, 1}
                        \/ y >= 1 /\ x - y - 1 \in 1 .. y /\ <<y, x - y - 1>> \in W
      BY DEF LeonardoIn
    <3>1. CASE <<x, y>> \in V
      BY <1>1, <2>1, <3>1 DEF LeonardoIn
    <3>2. CASE x = b + c + 1 /\ y = b
      <4>1. x - y - 1 = c
        BY <1>2, <3>2
      <4>2. <<y, x - y - 1>> \in W
        BY <1>1, <2>1, <3>2, <4>1
      <4>3. CASE c = -1
        BY <1>2, <1>3, <3>2, <4>3
      <4>4. CASE c # -1
        BY <1>2, <1>3, <3>2, <4>1, <4>2, <4>4
      <4> QED BY <4>3, <4>4
    <3> QED BY <2>1, <3>1, <3>2
  <2> QED BY <1>2, <2>1, <2>2 DEF Leonardo
<1>6. /\ b >= 1
      /\ \/ b = 1 /\ c \in {-1, 1}
         \/ b >= 3 /\ c >= 1 /\ b - c - 1 \in 1 .. c
  BY <1>2, <1>3
<1> QED BY <1>2, <1>4, <1>5, <1>6

LEMMA LeonardoOne == Leonardo(1, 1) /\ Leonardo(1, -1)
<1>1. LeonardoIn({<<1, 1>>}) /\ LeonardoIn({<<1, -1>>})
  BY DEF LeonardoIn
<1> QED BY <1>1 DEF Leonardo

LEMMA TreeIs ==
    ASSUME NEW d, NEW a, NEW r, NEW b, NEW c
    PROVE  Tree(d, a, r, b, c) <=>
              /\ r \in Int /\ Leonardo(b, c) /\ Below(d, a, r, b, c)
              /\ b > 1 => Ordered(d, a[r - 1], a[r]) /\ Ordered(d, a[r - b + c], a[r])
<1>1. ASSUME Tree(d, a, r, b, c)
      PROVE  /\ r \in Int /\ Leonardo(b, c) /\ Below(d, a, r, b, c)
             /\ b > 1 => Ordered(d, a[r - 1], a[r]) /\ Ordered(d, a[r - b + c], a[r])
  <2>1. r \in Int /\ b \in Int /\ c \in Int
    BY <1>1 DEF Tree
  <2>2. PICK V : <<r, b, c>> \in V /\ TreesIn(V, d, a)
    BY <1>1 DEF Tree
  <2>3. /\ Leonardo(b, c)
        /\ b > 1 => /\ <<r - 1, b - c - 1, 2 * c - b>> \in V /\ Ordered(d, a[r - 1], a[r])
                    /\ <<r - b + c, c, b - c - 1>> \in V /\ Ordered(d, a[r - b + c], a[r])
    BY <2>1, <2>2 DEF TreesIn
  <2>4. Below(d, a, r, b, c)
    <3> SUFFICES ASSUME b > 1
                 PROVE Tree(d, a, r - 1, b - c - 1, 2 * c - b) /\ Tree(d, a, r - b + c, c, b - c - 1)
      BY DEF Below
    <3>1. r - 1 \in Int /\ b - c - 1 \in Int /\ 2 * c - b \in Int /\ r - b + c \in Int
      BY <2>1
    <3> QED BY <2>1, <2>2, <2>3, <3>1 DEF Tree
  <2> QED BY <2>1, <2>3, <2>4
<1>2. ASSUME r \in Int, Leonardo(b, c), Below(d, a, r, b, c),
             b > 1 => Ordered(d, a[r - 1], a[r]) /\ Ordered(d, a[r - b + c], a[r])
      PROVE  Tree(d, a, r, b, c)
  <2>1. b \in Int /\ c \in Int
    BY <1>2, LeonardoIs
  <2>2. PICK V : /\ TreesIn(V, d, a)
                 /\ b > 1 => <<r - 1, b - c - 1, 2 * c - b>> \in V /\ <<r - b + c, c, b - c - 1>> \in V
    <3>1. CASE b > 1
      <4>1. PICK V1 : <<r - 1, b - c - 1, 2 * c - b>> \in V1 /\ TreesIn(V1, d, a)
        BY <1>2, <3>1 DEF Below, Tree
      <4>2. PICK V2 : <<r - b + c, c, b - c - 1>> \in V2 /\ TreesIn(V2, d, a)
        BY <1>2, <3>1 DEF Below, Tree
      <4>3. TreesIn(V1 \cup V2, d, a)
        <5> SUFFICES ASSUME NEW s \in Int, NEW x \in Int, NEW y \in Int, <<s, x, y>> \in V1 \cup V2
                     PROVE  /\ Leonardo(x, y)
                            /\ x > 1 => /\ <<s - 1, x - y - 1, 2 * y - x>> \in V1 \cup V2
                                        /\ Ordered(d, a[s - 1], a[s])
                                        /\ <<s - x + y, y, x - y - 1>> \in V1 \cup V2
                                        /\ Ordered(d, a[s - x + y], a[s])
          BY DEF TreesIn
        <5>1. CASE <<s, x, y>> \in V1
          BY <4>1, <5>1 DEF TreesIn
        <5>2. CASE <<s, x, y>> \in V2
          BY <4>2, <5>2 DEF TreesIn
        <5> QED BY <5>1, <5>2
      <4> QED BY <4>1, <4>2, <4>3
    <3>2. CASE ~(b > 1)
      <4>1. TreesIn({}, d, a)
        BY DEF TreesIn
      <4> QED BY <3>2, <4>1
    <3> QED BY <3>1, <3>2
  <2>3. PICK W : W = V \cup {<<r, b, c>>}
    OBVIOUS
  <2>4. TreesIn(W, d, a)
    <3> SUFFICES ASSUME NEW s \in Int, NEW x \in Int, NEW y \in Int, <<s, x, y>> \in W
                 PROVE  /\ Leonardo(x, y)
                        /\ x > 1 => /\ <<s - 1, x - y - 1, 2 * y - x>> \in W
                                    /\ Ordered(d, a[s - 1], a[s])
                                    /\ <<s - x + y, y, x - y - 1>> \in W
                                    /\ Ordered(d, a[s - x + y], a[s])
      BY DEF TreesIn
    <3>1. CASE <<s, x, y>> \in V
      BY <2>2, <2>3, <3>1 DEF TreesIn
    <3>2. CASE s = r /\ x = b /\ y = c
      BY <1>2, <2>2, <2>3, <3>2
    <3> QED BY <2>3, <3>1, <3>2
  <2> QED BY <1>2, <2>1, <2>3, <2>4 DEF Tree
<1> QED BY <1>1, <1>2

\* What the trees are is in the elements they hold.
LEMMA TreeFrame ==
    ASSUME NEW d, NEW a, NEW e, NEW r, NEW b, NEW c, Tree(d, a, r, b, c),
           \A k \in r - b + 1 .. r : e[k] = a[k]
    PROVE  Tree(d, e, r, b, c)
<1>0. r \in Int /\ b \in Int /\ c \in Int /\ b >= 1
  BY TreeIs, LeonardoIs
<1> DEFINE In(s, x, y) == Tree(d, a, s, x, y) /\ s <= r /\ s - x + 1 >= r - b + 1
<1>1. PICK V : V = {t \in Int \X Int \X Int : In(t[1], t[2], t[3])}
  OBVIOUS
<1>2. \A s, x, y \in Int : <<s, x, y>> \in V <=> In(s, x, y)
  BY <1>1
<1>3. <<r, b, c>> \in V
  BY <1>0, <1>2
<1>4. ASSUME NEW s \in Int, NEW x \in Int, NEW y \in Int, <<s, x, y>> \in V
      PROVE  /\ Leonardo(x, y)
             /\ x > 1 => /\ <<s - 1, x - y - 1, 2 * y - x>> \in V /\ Ordered(d, e[s - 1], e[s])
                         /\ <<s - x + y, y, x - y - 1>> \in V /\ Ordered(d, e[s - x + y], e[s])
  <2>1. Tree(d, a, s, x, y) /\ s <= r /\ s - x + 1 >= r - b + 1
    BY <1>2, <1>4
  <2>2. Leonardo(x, y) /\ Below(d, a, s, x, y)
    BY <2>1, TreeIs
  <2>3. CASE x > 1
    <3>1. /\ Tree(d, a, s - 1, x - y - 1, 2 * y - x) /\ Tree(d, a, s - x + y, y, x - y - 1)
          /\ Ordered(d, a[s - 1], a[s]) /\ Ordered(d, a[s - x + y], a[s])
      BY <2>1, <2>2, <2>3, TreeIs DEF Below
    <3>2. x - y - 1 \in 1 .. y
      BY <2>2, <2>3, LeonardoIs
    <3>3. In(s - 1, x - y - 1, 2 * y - x) /\ In(s - x + y, y, x - y - 1)
      BY <1>0, <2>1, <3>1, <3>2
    <3>4. <<s - 1, x - y - 1, 2 * y - x>> \in V /\ <<s - x + y, y, x - y - 1>> \in V
      <4>1. s - 1 \in Int /\ x - y - 1 \in Int /\ 2 * y - x \in Int /\ s - x + y \in Int
        OBVIOUS
      <4> HIDE DEF In
      <4> QED BY <1>2, <3>3, <4>1
    <3>5. /\ s \in r - b + 1 .. r /\ s - 1 \in r - b + 1 .. r /\ s - x + y \in r - b + 1 .. r
      BY <1>0, <2>1, <3>2
    <3> QED BY <2>2, <3>1, <3>4, <3>5
  <2> QED BY <2>2, <2>3
<1> QED BY <1>0, <1>3, <1>4 DEF Tree, TreesIn

LEMMA OrderedIs ==
    ASSUME NEW d
    PROVE  /\ \A x \in Int : Ordered(d, x, x)
           /\ \A x, y \in Int : Ordered(d, x, y) \/ Ordered(d, y, x)
           /\ \A x, y, z \in Int : Ordered(d, x, y) /\ Ordered(d, y, z) => Ordered(d, x, z)
  BY DEF Ordered

\* Nothing in a tree fits behind its root.
LEMMA TreeTop ==
    ASSUME NEW d, NEW a, NEW r, NEW b, NEW c, Tree(d, a, r, b, c),
           \A k \in r - b + 1 .. r : a[k] \in Int
    PROVE  \A k \in r - b + 1 .. r : Ordered(d, a[k], a[r])
<1>0. r \in Int /\ b \in Int /\ c \in Int /\ b >= 1
  BY TreeIs, LeonardoIs
<1> DEFINE Bad(s, x, y, k) == /\ Tree(d, a, s, x, y) /\ s <= r /\ s - x + 1 >= r - b + 1
                              /\ k \in s - x + 1 .. s /\ ~Ordered(d, a[k], a[s])
           B == {x \in Nat : \E s, y, k \in Int : Bad(s, x, y, k)}
<1>1. ASSUME B # {} PROVE FALSE
  <2>1. PICK x \in B : \A m \in B : x <= m
    <3>1. B \in SUBSET Nat
      OBVIOUS
    <3> HIDE DEF B
    <3> QED BY <1>1, <3>1, Least
  <2>2. PICK s \in Int, y \in Int, k \in Int : Bad(s, x, y, k)
    OBVIOUS
  <2>3. /\ Tree(d, a, s, x, y) /\ s <= r /\ s - x + 1 >= r - b + 1
        /\ k \in s - x + 1 .. s /\ ~Ordered(d, a[k], a[s]) /\ x \in Int
    BY <2>2
  <2>4. Leonardo(x, y) /\ Below(d, a, s, x, y)
    BY <2>3, TreeIs
  <2>5. a[k] \in Int /\ a[s] \in Int /\ k # s
    <3>1. k \in r - b + 1 .. r /\ s \in r - b + 1 .. r
      BY <1>0, <2>3
    <3>2. a[k] \in Int /\ a[s] \in Int
      BY <3>1
    <3> QED BY <2>3, <3>2, OrderedIs
  <2>6. x > 1 /\ x - y - 1 \in 1 .. y
    BY <2>3, <2>4, <2>5, LeonardoIs
  <2>7. /\ Tree(d, a, s - 1, x - y - 1, 2 * y - x) /\ Tree(d, a, s - x + y, y, x - y - 1)
        /\ Ordered(d, a[s - 1], a[s]) /\ Ordered(d, a[s - x + y], a[s])
    BY <2>3, <2>4, <2>6, TreeIs DEF Below
  <2>8. CASE k > s - x + y
    <3>1. Ordered(d, a[k], a[s - 1])
      <4>1. SUFFICES ASSUME ~Ordered(d, a[k], a[s - 1]) PROVE FALSE
        OBVIOUS
      <4>2. Bad(s - 1, x - y - 1, 2 * y - x, k)
        BY <1>0, <2>3, <2>5, <2>6, <2>7, <2>8, <4>1
      <4>3. x - y - 1 \in B
        <5>1. s - 1 \in Int /\ 2 * y - x \in Int /\ x - y - 1 \in Nat
          BY <2>6
        <5> HIDE DEF Bad
        <5> QED BY <4>2, <5>1
      <4> HIDE DEF B
      <4> QED BY <2>1, <2>3, <2>6, <4>3
    <3>2. a[s - 1] \in Int
      BY <1>0, <2>3, <2>6
    <3> QED BY <2>3, <2>5, <2>7, <3>1, <3>2, OrderedIs
  <2>9. CASE k <= s - x + y
    <3>1. Ordered(d, a[k], a[s - x + y])
      <4>1. SUFFICES ASSUME ~Ordered(d, a[k], a[s - x + y]) PROVE FALSE
        OBVIOUS
      <4>2. Bad(s - x + y, y, x - y - 1, k)
        BY <1>0, <2>3, <2>5, <2>6, <2>7, <2>9, <4>1
      <4>3. y \in B
        <5>1. s - x + y \in Int /\ x - y - 1 \in Int /\ y \in Nat
          BY <2>6
        <5> HIDE DEF Bad
        <5> QED BY <4>2, <5>1
      <4> HIDE DEF B
      <4> QED BY <2>1, <2>3, <2>6, <4>3
    <3>2. a[s - x + y] \in Int
      BY <1>0, <2>3, <2>6
    <3> QED BY <2>3, <2>5, <2>7, <3>1, <3>2, OrderedIs
  <2> QED BY <2>3, <2>8, <2>9
<1>2. ASSUME NEW k \in r - b + 1 .. r, ~Ordered(d, a[k], a[r]) PROVE FALSE
  <2>1. Bad(r, b, c, k)
    BY <1>0, <1>2
  <2>2. b \in B
    <3>1. b \in Nat /\ k \in Int
      BY <1>0
    <3> HIDE DEF Bad
    <3> QED BY <1>0, <2>1, <3>1
  <2> QED BY <1>1, <2>2
<1> QED BY <1>2

\* What a forest is at one step of its description.
Forested(d, a, p, b, c, r) ==
    /\ p \in Nat /\ Leonardo(b, c) /\ r \in Int
    /\ p = 0 => r = -1
    /\ p > 0 => r >= 0
    /\ p > 0 /\ p % 2 = 0 => Forest(d, a, p \div 2, b + c + 1, b, r)
    /\ p % 2 = 1 => /\ r >= b - 1 /\ Tree(d, a, r, b, c)
                    /\ p > 1 => Ordered(d, a[r - b], a[r])
                    /\ Forest(d, a, p - 1, b, c, r - b)

LEMMA ForestIs ==
    ASSUME NEW d, NEW a, NEW p, NEW b, NEW c, NEW r
    PROVE  Forest(d, a, p, b, c, r) <=> Forested(d, a, p, b, c, r)
<1>1. ASSUME Forest(d, a, p, b, c, r) PROVE Forested(d, a, p, b, c, r)
  <2>1. p \in Int /\ b \in Int /\ c \in Int /\ r \in Int
    BY <1>1 DEF Forest
  <2>2. PICK V : <<p, b, c, r>> \in V /\ ForestsIn(V, d, a)
    BY <1>1 DEF Forest
  <2>3. /\ p \in Nat /\ Leonardo(b, c)
        /\ p = 0 => r = -1
        /\ p > 0 => r >= 0
        /\ p > 0 /\ p % 2 = 0 => <<p \div 2, b + c + 1, b, r>> \in V
        /\ p % 2 = 1 => /\ r >= b - 1 /\ Tree(d, a, r, b, c)
                        /\ p > 1 => Ordered(d, a[r - b], a[r])
                        /\ <<p - 1, b, c, r - b>> \in V
    BY <2>1, <2>2 DEF ForestsIn
  <2>4. p > 0 /\ p % 2 = 0 => Forest(d, a, p \div 2, b + c + 1, b, r)
    <3>1. p \div 2 \in Int /\ b + c + 1 \in Int
      BY <2>1, <2>3
    <3> QED BY <2>1, <2>2, <2>3, <3>1 DEF Forest
  <2>5. p % 2 = 1 => Forest(d, a, p - 1, b, c, r - b)
    <3>1. p - 1 \in Int /\ r - b \in Int
      BY <2>1, <2>3
    <3> QED BY <2>1, <2>2, <2>3, <3>1 DEF Forest
  <2> QED BY <2>1, <2>3, <2>4, <2>5 DEF Forested
<1>2. ASSUME Forested(d, a, p, b, c, r) PROVE Forest(d, a, p, b, c, r)
  <2>1. p \in Nat /\ b \in Int /\ c \in Int /\ r \in Int
    BY <1>2, LeonardoIs DEF Forested
  <2>2. PICK V : /\ ForestsIn(V, d, a)
                 /\ p > 0 /\ p % 2 = 0 => <<p \div 2, b + c + 1, b, r>> \in V
                 /\ p % 2 = 1 => <<p - 1, b, c, r - b>> \in V
    <3>1. CASE p > 0 /\ p % 2 = 0
      BY <1>2, <3>1 DEF Forested, Forest
    <3>2. CASE p % 2 = 1
      BY <1>2, <3>2 DEF Forested, Forest
    <3>3. CASE p = 0
      <4>1. ForestsIn({}, d, a)
        BY DEF ForestsIn
      <4> QED BY <3>3, <4>1
    <3> QED BY <2>1, <3>1, <3>2, <3>3
  <2>3. PICK W : W = V \cup {<<p, b, c, r>>}
    OBVIOUS
  <2>4. ForestsIn(W, d, a)
    <3> SUFFICES ASSUME NEW t \in Int, NEW x \in Int, NEW y \in Int, NEW s \in Int, <<t, x, y, s>> \in W
                 PROVE  /\ t \in Nat /\ Leonardo(x, y)
                        /\ t = 0 => s = -1
                        /\ t > 0 => s >= 0
                        /\ t > 0 /\ t % 2 = 0 => <<t \div 2, x + y + 1, x, s>> \in W
                        /\ t % 2 = 1 => /\ s >= x - 1 /\ Tree(d, a, s, x, y)
                                        /\ t > 1 => Ordered(d, a[s - x], a[s])
                                        /\ <<t - 1, x, y, s - x>> \in W
      BY DEF ForestsIn
    <3>1. CASE <<t, x, y, s>> \in V
      BY <2>2, <2>3, <3>1 DEF ForestsIn
    <3>2. CASE t = p /\ x = b /\ y = c /\ s = r
      BY <1>2, <2>2, <2>3, <3>2 DEF Forested
    <3> QED BY <2>3, <3>1, <3>2
  <2> QED BY <2>1, <2>3, <2>4 DEF Forest
<1> QED BY <1>1, <1>2

LEMMA ForestFrame ==
    ASSUME NEW d, NEW a, NEW e, NEW p, NEW b, NEW c, NEW r, Forest(d, a, p, b, c, r),
           \A k \in 0 .. r : e[k] = a[k]
    PROVE  Forest(d, e, p, b, c, r)
<1>0. p \in Nat /\ r \in Int /\ b \in Int /\ c \in Int
  BY ForestIs, LeonardoIs DEF Forested
<1> DEFINE In(t, x, y, s) == Forest(d, a, t, x, y, s) /\ s <= r
<1>1. PICK V : V = {f \in Int \X Int \X Int \X Int : In(f[1], f[2], f[3], f[4])}
  OBVIOUS
<1>2. \A t, x, y, s \in Int : <<t, x, y, s>> \in V <=> In(t, x, y, s)
  BY <1>1
<1>3. <<p, b, c, r>> \in V
  <2>1. p \in Int /\ In(p, b, c, r)
    BY <1>0
  <2> HIDE DEF In
  <2> QED BY <1>0, <1>2, <2>1
<1>4. ASSUME NEW t \in Int, NEW x \in Int, NEW y \in Int, NEW s \in Int, <<t, x, y, s>> \in V
      PROVE  /\ t \in Nat /\ Leonardo(x, y)
             /\ t = 0 => s = -1
             /\ t > 0 => s >= 0
             /\ t > 0 /\ t % 2 = 0 => <<t \div 2, x + y + 1, x, s>> \in V
             /\ t % 2 = 1 => /\ s >= x - 1 /\ Tree(d, e, s, x, y)
                             /\ t > 1 => Ordered(d, e[s - x], e[s])
                             /\ <<t - 1, x, y, s - x>> \in V
  <2>1. Forest(d, a, t, x, y, s) /\ s <= r
    BY <1>2, <1>4
  <2>2. Forested(d, a, t, x, y, s)
    BY <2>1, ForestIs
  <2>3. x >= 1 /\ Leonardo(x, y) /\ t \in Nat
    BY <2>2, LeonardoIs DEF Forested
  <2>4. CASE t > 0 /\ t % 2 = 0
    <3>1. In(t \div 2, x + y + 1, x, s)
      BY <2>1, <2>2, <2>4 DEF Forested
    <3>2. t \div 2 \in Int /\ x + y + 1 \in Int
      BY <2>3
    <3>3. <<t \div 2, x + y + 1, x, s>> \in V
      <4> HIDE DEF In
      <4> QED BY <1>2, <3>1, <3>2
    <3>4. s >= 0 /\ t # 0 /\ ~(t % 2 = 1)
      BY <2>2, <2>4 DEF Forested
    <3> QED BY <2>3, <2>4, <3>3, <3>4
  <2>5. CASE t % 2 = 1
    <3>1. In(t - 1, x, y, s - x)
      BY <1>0, <2>1, <2>2, <2>3, <2>5 DEF Forested
    <3>2. t - 1 \in Int /\ s - x \in Int
      BY <2>3
    <3>3. <<t - 1, x, y, s - x>> \in V
      <4> HIDE DEF In
      <4> QED BY <1>2, <3>1, <3>2
    <3>4. s >= x - 1 /\ Tree(d, a, s, x, y) /\ (t > 1 => Ordered(d, a[s - x], a[s]))
      BY <2>2, <2>5 DEF Forested
    <3>5. Tree(d, e, s, x, y)
      <4>1. \A k \in s - x + 1 .. s : e[k] = a[k]
        BY <1>0, <2>1, <3>4
      <4> QED BY <3>4, <4>1, TreeFrame
    <3>6. t > 1 => Ordered(d, e[s - x], e[s])
      <4> SUFFICES ASSUME t > 1 PROVE Ordered(d, e[s - x], e[s])
        OBVIOUS
      <4>1. Forested(d, a, t - 1, x, y, s - x)
        BY <3>1, ForestIs
      <4>2. s - x >= 0
        BY <2>3, <4>1 DEF Forested
      <4>3. e[s - x] = a[s - x] /\ e[s] = a[s]
        BY <1>0, <2>1, <2>3, <4>2
      <4> QED BY <3>4, <4>3
    <3> QED BY <2>2, <2>5, <3>3, <3>4, <3>5, <3>6 DEF Forested
  <2>6. CASE t = 0
    BY <2>2, <2>6 DEF Forested
  <2> QED BY <2>3, <2>4, <2>5, <2>6
<1> QED BY <1>0, <1>3, <1>4 DEF Forest, ForestsIn

\* Nothing in a forest fits behind its last root.
LEMMA ForestTop ==
    ASSUME NEW d, NEW a, NEW p, NEW b, NEW c, NEW r, Forest(d, a, p, b, c, r), p > 0,
           \A k \in 0 .. r : a[k] \in Int
    PROVE  \A k \in 0 .. r : Ordered(d, a[k], a[r])
<1>0. p \in Nat /\ r \in Int /\ b \in Int /\ c \in Int
  BY ForestIs, LeonardoIs DEF Forested
<1> DEFINE Bad(t, x, y, s, k) == /\ Forest(d, a, t, x, y, s) /\ s <= r /\ t > 0
                                 /\ k \in 0 .. s /\ ~Ordered(d, a[k], a[s])
           B == {t \in Nat : \E x, y, s, k \in Int : Bad(t, x, y, s, k)}
<1>1. ASSUME B # {} PROVE FALSE
  <2>1. PICK t \in B : \A m \in B : t <= m
    <3>1. B \in SUBSET Nat
      OBVIOUS
    <3> HIDE DEF B
    <3> QED BY <1>1, <3>1, Least
  <2>2. PICK x \in Int, y \in Int, s \in Int, k \in Int : Bad(t, x, y, s, k)
    OBVIOUS
  <2>3. /\ Forest(d, a, t, x, y, s) /\ s <= r /\ t > 0 /\ t \in Nat
        /\ k \in 0 .. s /\ ~Ordered(d, a[k], a[s])
    BY <2>2
  <2>4. Forested(d, a, t, x, y, s)
    BY <2>3, ForestIs
  <2>5. x >= 1
    BY <2>4, LeonardoIs DEF Forested
  <2>6. CASE t % 2 = 0
    <3>1. Bad(t \div 2, x + y + 1, x, s, k)
      BY <2>3, <2>4, <2>6 DEF Forested
    <3>2. t \div 2 \in B
      <4>1. t \div 2 \in Nat /\ x + y + 1 \in Int
        BY <2>3
      <4> HIDE DEF Bad
      <4> QED BY <3>1, <4>1
    <3> HIDE DEF B
    <3> QED BY <2>1, <2>3, <2>6, <3>2
  <2>7. CASE t % 2 = 1
    <3>1. /\ s >= x - 1 /\ Tree(d, a, s, x, y) /\ (t > 1 => Ordered(d, a[s - x], a[s]))
          /\ Forest(d, a, t - 1, x, y, s - x)
      BY <2>4, <2>7 DEF Forested
    <3>2. CASE k > s - x
      <4>1. \A m \in s - x + 1 .. s : a[m] \in Int
        BY <1>0, <2>3, <3>1
      <4>2. \A m \in s - x + 1 .. s : Ordered(d, a[m], a[s])
        BY <3>1, <4>1, TreeTop
      <4> QED BY <2>3, <3>2, <4>2
    <3>3. CASE k <= s - x
      <4>1. t > 1
        <5>1. Forested(d, a, t - 1, x, y, s - x)
          BY <3>1, ForestIs
        <5> QED BY <2>3, <3>3, <5>1 DEF Forested
      <4>2. Ordered(d, a[k], a[s - x])
        <5>1. SUFFICES ASSUME ~Ordered(d, a[k], a[s - x]) PROVE FALSE
          OBVIOUS
        <5>2. Bad(t - 1, x, y, s - x, k)
          BY <1>0, <2>3, <2>5, <3>1, <3>3, <4>1, <5>1
        <5>3. t - 1 \in B
          <6>1. t - 1 \in Nat /\ s - x \in Int
            BY <2>3
          <6> HIDE DEF Bad
          <6> QED BY <5>2, <6>1
        <5> HIDE DEF B
        <5> QED BY <2>1, <2>3, <5>3
      <4>3. a[k] \in Int /\ a[s - x] \in Int /\ a[s] \in Int
        BY <1>0, <2>3, <2>5, <3>3
      <4> QED BY <2>3, <3>1, <4>1, <4>2, <4>3, OrderedIs
    <3> QED BY <2>3, <3>2, <3>3
  <2> QED BY <2>3, <2>6, <2>7
<1>2. ASSUME NEW k \in 0 .. r, ~Ordered(d, a[k], a[r]) PROVE FALSE
  <2>1. Bad(p, b, c, r, k)
    BY <1>0, <1>2
  <2>2. p \in B
    <3> HIDE DEF Bad
    <3> QED BY <1>0, <2>1
  <2> QED BY <1>1, <2>2
<1> QED BY <1>2

\* One tree may be thought of as lying under a 0 of p.
LEMMA ForestNone ==
    ASSUME NEW d, NEW a, NEW b, NEW c, Leonardo(b, c), NEW r
    PROVE  Forest(d, a, 0, b, c, r) <=> r = -1
<1>1. PICK p : p = 0
  OBVIOUS
<1>2. Forested(d, a, p, b, c, r) <=> r = -1
  BY <1>1 DEF Forested
<1> QED BY <1>1, <1>2, ForestIs

LEMMA ForestDouble ==
    ASSUME NEW d, NEW a, NEW p \in Nat, NEW b, NEW c, NEW r, Leonardo(b, c)
    PROVE  Forest(d, a, 2 * p, b, c, r) <=> Forest(d, a, p, b + c + 1, b, r)
<1>1. PICK t, x : t = 2 * p /\ x = b + c + 1
  OBVIOUS
<1>2. Leonardo(x, b)
  BY <1>1, LeonardoIs
<1>3. CASE p = 0
  BY <1>1, <1>2, <1>3, ForestNone
<1>4. CASE p # 0
  <2>1. t \in Nat /\ t > 0 /\ t % 2 = 0 /\ ~(t % 2 = 1) /\ t \div 2 = p /\ t # 0
    BY <1>1, <1>4
  <2>2. Forest(d, a, p, x, b, r) => r \in Int /\ r >= 0
    <3>1. Forest(d, a, p, x, b, r) => Forested(d, a, p, x, b, r)
      BY ForestIs
    <3> QED BY <1>4, <3>1 DEF Forested
  <2>3. Forested(d, a, t, b, c, r) <=> Forest(d, a, p, x, b, r)
    BY <1>1, <2>1, <2>2 DEF Forested
  <2> QED BY <1>1, <2>3, ForestIs
<1> QED BY <1>3, <1>4

LEMMA ForestTree ==
    ASSUME NEW d, NEW a, NEW p, NEW b, NEW c, NEW r, p \in Nat, p % 2 = 1,
           Tree(d, a, r, b, c), Forest(d, a, p - 1, b, c, r - b),
           p > 1 => Ordered(d, a[r - b], a[r])
    PROVE  Forest(d, a, p, b, c, r)
<1>1. r \in Int /\ Leonardo(b, c) /\ b \in Int /\ b >= 1
  BY TreeIs, LeonardoIs
<1>2. r - b >= -1
  <2>1. Forested(d, a, p - 1, b, c, r - b)
    BY ForestIs
  <2> QED BY <1>1, <2>1 DEF Forested
<1>3. p # 0 /\ p > 0 /\ ~(p % 2 = 0) /\ r >= b - 1 /\ r >= 0
  BY <1>1, <1>2
<1>4. Forested(d, a, p, b, c, r)
  BY <1>1, <1>3 DEF Forested
<1> QED BY <1>4, ForestIs

-----------------------------------------------------------------------------
(* The trees while they are built *)

\* The roots are only put in order from where nothing but small trees will follow: when
\* there will not be n elements with the next tree.  No two sizes follow one another.
PartForestsIn(V, d, n, a) == \A t, x, y, s \in Int : <<t, x, y, s>> \in V =>
    /\ t \in Nat /\ Leonardo(x, y)
    /\ n <= s + 1 + y => Forest(d, a, t, x, y, s)
    /\ t = 0 => s = -1
    /\ t > 0 => s >= 0
    /\ t > 0 /\ t % 2 = 0 => <<t \div 2, x + y + 1, x, s>> \in V
    /\ t % 2 = 1 => t % 4 = 1 /\ s >= x - 1 /\ Tree(d, a, s, x, y) /\ <<t - 1, x, y, s - x>> \in V
PartForest(d, n, a, p, b, c, r) ==
    /\ p \in Int /\ b \in Int /\ c \in Int /\ r \in Int
    /\ \E V : <<p, b, c, r>> \in V /\ PartForestsIn(V, d, n, a)

Built(d, n, a, p, b, c, r) ==
    /\ p \in Nat /\ Leonardo(b, c) /\ r \in Int
    /\ n <= r + 1 + c => Forest(d, a, p, b, c, r)
    /\ p = 0 => r = -1
    /\ p > 0 => r >= 0
    /\ p > 0 /\ p % 2 = 0 => PartForest(d, n, a, p \div 2, b + c + 1, b, r)
    /\ p % 2 = 1 => /\ p % 4 = 1 /\ r >= b - 1 /\ Tree(d, a, r, b, c)
                    /\ PartForest(d, n, a, p - 1, b, c, r - b)

LEMMA PartForestIs ==
    ASSUME NEW d, NEW n, NEW a, NEW p, NEW b, NEW c, NEW r
    PROVE  PartForest(d, n, a, p, b, c, r) <=> Built(d, n, a, p, b, c, r)
<1>1. ASSUME PartForest(d, n, a, p, b, c, r) PROVE Built(d, n, a, p, b, c, r)
  <2>1. p \in Int /\ b \in Int /\ c \in Int /\ r \in Int
    BY <1>1 DEF PartForest
  <2>2. PICK V : <<p, b, c, r>> \in V /\ PartForestsIn(V, d, n, a)
    BY <1>1 DEF PartForest
  <2>3. /\ p \in Nat /\ Leonardo(b, c)
        /\ n <= r + 1 + c => Forest(d, a, p, b, c, r)
        /\ p = 0 => r = -1
        /\ p > 0 => r >= 0
        /\ p > 0 /\ p % 2 = 0 => <<p \div 2, b + c + 1, b, r>> \in V
        /\ p % 2 = 1 => p % 4 = 1 /\ r >= b - 1 /\ Tree(d, a, r, b, c) /\ <<p - 1, b, c, r - b>> \in V
    BY <2>1, <2>2 DEF PartForestsIn
  <2>4. p > 0 /\ p % 2 = 0 => PartForest(d, n, a, p \div 2, b + c + 1, b, r)
    <3>1. p \div 2 \in Int /\ b + c + 1 \in Int
      BY <2>1, <2>3
    <3> QED BY <2>1, <2>2, <2>3, <3>1 DEF PartForest
  <2>5. p % 2 = 1 => PartForest(d, n, a, p - 1, b, c, r - b)
    <3>1. p - 1 \in Int /\ r - b \in Int
      BY <2>1, <2>3
    <3> QED BY <2>1, <2>2, <2>3, <3>1 DEF PartForest
  <2> QED BY <2>1, <2>3, <2>4, <2>5 DEF Built
<1>2. ASSUME Built(d, n, a, p, b, c, r) PROVE PartForest(d, n, a, p, b, c, r)
  <2>1. p \in Nat /\ b \in Int /\ c \in Int /\ r \in Int
    BY <1>2, LeonardoIs DEF Built
  <2>2. PICK V : /\ PartForestsIn(V, d, n, a)
                 /\ p > 0 /\ p % 2 = 0 => <<p \div 2, b + c + 1, b, r>> \in V
                 /\ p % 2 = 1 => <<p - 1, b, c, r - b>> \in V
    <3>1. CASE p > 0 /\ p % 2 = 0
      BY <1>2, <3>1 DEF Built, PartForest
    <3>2. CASE p % 2 = 1
      BY <1>2, <3>2 DEF Built, PartForest
    <3>3. CASE p = 0
      <4>1. PartForestsIn({}, d, n, a)
        BY DEF PartForestsIn
      <4> QED BY <3>3, <4>1
    <3> QED BY <2>1, <3>1, <3>2, <3>3
  <2>3. PICK W : W = V \cup {<<p, b, c, r>>}
    OBVIOUS
  <2>4. PartForestsIn(W, d, n, a)
    <3> SUFFICES ASSUME NEW t \in Int, NEW x \in Int, NEW y \in Int, NEW s \in Int, <<t, x, y, s>> \in W
                 PROVE  /\ t \in Nat /\ Leonardo(x, y)
                        /\ n <= s + 1 + y => Forest(d, a, t, x, y, s)
                        /\ t = 0 => s = -1
                        /\ t > 0 => s >= 0
                        /\ t > 0 /\ t % 2 = 0 => <<t \div 2, x + y + 1, x, s>> \in W
                        /\ t % 2 = 1 => /\ t % 4 = 1 /\ s >= x - 1 /\ Tree(d, a, s, x, y)
                                        /\ <<t - 1, x, y, s - x>> \in W
      BY DEF PartForestsIn
    <3>1. CASE <<t, x, y, s>> \in V
      BY <2>2, <2>3, <3>1 DEF PartForestsIn
    <3>2. CASE t = p /\ x = b /\ y = c /\ s = r
      BY <1>2, <2>2, <2>3, <3>2 DEF Built
    <3> QED BY <2>3, <3>1, <3>2
  <2> QED BY <2>1, <2>3, <2>4 DEF PartForest
<1> QED BY <1>1, <1>2

\* Two arrays whose first elements are the same, or the one in order.
LEMMA PartForestFrame ==
    ASSUME NEW d, NEW n, NEW a, NEW e, NEW p, NEW b, NEW c, NEW r, PartForest(d, n, a, p, b, c, r),
           \/ \A k \in 0 .. r : e[k] = a[k]
           \/ Forest(d, e, p, b, c, r)
    PROVE  PartForest(d, n, e, p, b, c, r)
<1>0. p \in Nat /\ r \in Int /\ b \in Int /\ c \in Int
  BY PartForestIs, LeonardoIs DEF Built
<1> DEFINE Still(s) == s <= r /\ \A k \in 0 .. r : e[k] = a[k]
           In(t, x, y, s) == /\ PartForest(d, n, a, t, x, y, s)
                             /\ Still(s) \/ Forest(d, e, t, x, y, s)
<1>1. PICK V : V = {f \in Int \X Int \X Int \X Int : In(f[1], f[2], f[3], f[4])}
  OBVIOUS
<1>2. \A t, x, y, s \in Int : <<t, x, y, s>> \in V <=> In(t, x, y, s)
  BY <1>1
<1>3. <<p, b, c, r>> \in V
  BY <1>0, <1>2
<1>4. ASSUME NEW t \in Int, NEW x \in Int, NEW y \in Int, NEW s \in Int, <<t, x, y, s>> \in V
      PROVE  /\ t \in Nat /\ Leonardo(x, y)
             /\ n <= s + 1 + y => Forest(d, e, t, x, y, s)
             /\ t = 0 => s = -1
             /\ t > 0 => s >= 0
             /\ t > 0 /\ t % 2 = 0 => <<t \div 2, x + y + 1, x, s>> \in V
             /\ t % 2 = 1 => /\ t % 4 = 1 /\ s >= x - 1 /\ Tree(d, e, s, x, y)
                             /\ <<t - 1, x, y, s - x>> \in V
  <2>1. PartForest(d, n, a, t, x, y, s) /\ (Still(s) \/ Forest(d, e, t, x, y, s))
    BY <1>2, <1>4
  <2>2. Built(d, n, a, t, x, y, s)
    BY <2>1, PartForestIs
  <2>3. /\ x >= 1 /\ Leonardo(x, y) /\ t \in Nat
        /\ t = 0 => s = -1
        /\ t > 0 => s >= 0
    BY <2>2, LeonardoIs DEF Built
  <2>4. Forest(d, e, t, x, y, s) => Forested(d, e, t, x, y, s)
    BY ForestIs
  <2>5. n <= s + 1 + y => Forest(d, e, t, x, y, s)
    <3> SUFFICES ASSUME n <= s + 1 + y, Still(s) PROVE Forest(d, e, t, x, y, s)
      BY <2>1
    <3>1. Forest(d, a, t, x, y, s)
      BY <2>2 DEF Built
    <3>2. \A k \in 0 .. s : e[k] = a[k]
      BY <1>0
    <3> QED BY <3>1, <3>2, ForestFrame
  <2>6. ASSUME t > 0 /\ t % 2 = 0 PROVE <<t \div 2, x + y + 1, x, s>> \in V
    <3>1. PartForest(d, n, a, t \div 2, x + y + 1, x, s)
      BY <2>2, <2>6 DEF Built
    <3>2. Still(s) \/ Forest(d, e, t \div 2, x + y + 1, x, s)
      BY <2>1, <2>4, <2>6 DEF Forested
    <3>3. t \div 2 \in Int /\ x + y + 1 \in Int
      BY <2>3
    <3> HIDE DEF Still
    <3>4. In(t \div 2, x + y + 1, x, s)
      BY <3>1, <3>2
    <3> HIDE DEF In
    <3> QED BY <1>2, <3>3, <3>4
  <2>7. ASSUME t % 2 = 1
        PROVE  t % 4 = 1 /\ s >= x - 1 /\ Tree(d, e, s, x, y) /\ <<t - 1, x, y, s - x>> \in V
    <3>1. t % 4 = 1 /\ s >= x - 1 /\ Tree(d, a, s, x, y) /\ PartForest(d, n, a, t - 1, x, y, s - x)
      BY <2>2, <2>7 DEF Built
    <3>2. Tree(d, e, s, x, y)
      <4>1. CASE Still(s)
        <5>1. \A k \in s - x + 1 .. s : e[k] = a[k]
          BY <1>0, <3>1, <4>1
        <5> QED BY <3>1, <5>1, TreeFrame
      <4>2. CASE Forest(d, e, t, x, y, s)
        BY <2>4, <2>7, <4>2 DEF Forested
      <4> QED BY <2>1, <4>1, <4>2
    <3>3. Still(s - x) \/ Forest(d, e, t - 1, x, y, s - x)
      <4>1. CASE Still(s)
        BY <1>0, <2>3, <4>1
      <4>2. CASE Forest(d, e, t, x, y, s)
        BY <2>4, <2>7, <4>2 DEF Forested
      <4> QED BY <2>1, <4>1, <4>2
    <3>4. t - 1 \in Int /\ s - x \in Int
      OBVIOUS
    <3> HIDE DEF Still
    <3>5. In(t - 1, x, y, s - x)
      BY <3>1, <3>3
    <3> HIDE DEF In
    <3> QED BY <1>2, <3>1, <3>2, <3>4, <3>5
  <2> QED BY <2>3, <2>5, <2>6, <2>7
<1> QED BY <1>0, <1>3, <1>4 DEF PartForest, PartForestsIn

LEMMA PartForestNone ==
    ASSUME NEW d, NEW n, NEW a, NEW b, NEW c, Leonardo(b, c), NEW r
    PROVE  PartForest(d, n, a, 0, b, c, r) <=> r = -1
<1>1. PICK p : p = 0
  OBVIOUS
<1>2. Built(d, n, a, p, b, c, r) <=> r = -1
  BY <1>1, ForestNone DEF Built
<1> QED BY <1>1, <1>2, PartForestIs

LEMMA PartForestDouble ==
    ASSUME NEW d, NEW n \in Int, NEW a, NEW p \in Nat, NEW b, NEW c, NEW r, Leonardo(b, c)
    PROVE  PartForest(d, n, a, 2 * p, b, c, r) <=> PartForest(d, n, a, p, b + c + 1, b, r)
<1>1. PICK t, x : t = 2 * p /\ x = b + c + 1
  OBVIOUS
<1>2. Leonardo(x, b) /\ b \in Int /\ c \in Int /\ c <= b
  BY <1>1, LeonardoIs
<1>3. CASE p = 0
  BY <1>1, <1>2, <1>3, PartForestNone
<1>4. CASE p # 0
  <2>1. t \in Nat /\ t > 0 /\ t % 2 = 0 /\ ~(t % 2 = 1) /\ t \div 2 = p /\ t # 0
    BY <1>1, <1>4
  <2>2. ASSUME PartForest(d, n, a, p, x, b, r)
        PROVE  r \in Int /\ r >= 0 /\ (n <= r + 1 + c => Forest(d, a, t, b, c, r))
    <3>1. Built(d, n, a, p, x, b, r)
      BY <2>2, PartForestIs
    <3>2. r \in Int /\ r >= 0 /\ (n <= r + 1 + b => Forest(d, a, p, x, b, r))
      BY <1>4, <3>1 DEF Built
    <3>3. Forest(d, a, p, x, b, r) => Forest(d, a, t, b, c, r)
      BY <1>1, ForestDouble
    <3> QED BY <1>2, <3>2, <3>3
  <2>3. Built(d, n, a, t, b, c, r) <=> PartForest(d, n, a, p, x, b, r)
    BY <1>1, <2>1, <2>2 DEF Built
  <2> QED BY <1>1, <2>3, PartForestIs
<1> QED BY <1>3, <1>4

LEMMA PartForestTree ==
    ASSUME NEW d, NEW n, NEW a, NEW p, NEW b, NEW c, NEW r, p \in Nat, p % 4 = 1,
           Tree(d, a, r, b, c), PartForest(d, n, a, p - 1, b, c, r - b),
           n <= r + 1 + c => Forest(d, a, p, b, c, r)
    PROVE  PartForest(d, n, a, p, b, c, r)
<1>1. r \in Int /\ Leonardo(b, c) /\ b \in Int /\ b >= 1
  BY TreeIs, LeonardoIs
<1>2. r - b >= -1
  <2>1. Built(d, n, a, p - 1, b, c, r - b)
    BY PartForestIs
  <2> QED BY <1>1, <2>1 DEF Built
<1>3. p # 0 /\ p > 0 /\ ~(p % 2 = 0) /\ r >= b - 1 /\ r >= 0
  BY <1>1, <1>2
<1>4. Built(d, n, a, p, b, c, r)
  BY <1>1, <1>3 DEF Built
<1> QED BY <1>4, PartForestIs

-----------------------------------------------------------------------------
(* sift *)

Arrays(n) == [0 .. n - 1 -> Nat]

\* e is a, but for the order of what is in lo .. hi.
Rearranged(n, e, a, lo, hi) ==
    /\ \A k \in 0 .. n - 1 : k < lo \/ k > hi => e[k] = a[k]
    /\ \A k \in lo .. hi : \E j \in lo .. hi : e[k] = a[j]
    /\ \A k \in lo .. hi : \E j \in lo .. hi : a[k] = e[j]

LEMMA RearrangedSelf ==
    ASSUME NEW n, NEW a, NEW lo, NEW hi
    PROVE  Rearranged(n, a, a, lo, hi)
  BY DEF Rearranged

LEMMA RearrangedWider ==
    ASSUME NEW n \in Nat, NEW e, NEW m, NEW a, NEW lo \in Int, NEW hi \in Int,
           NEW lo2 \in Int, NEW hi2 \in Int, 0 <= lo2, lo2 <= lo, hi <= hi2, hi2 < n,
           Rearranged(n, e, m, lo, hi), Rearranged(n, m, a, lo2, hi2)
    PROVE  Rearranged(n, e, a, lo2, hi2)
<1>1. \A k \in 0 .. n - 1 : k < lo2 \/ k > hi2 => e[k] = a[k]
  BY DEF Rearranged
<1>2. ASSUME NEW k \in lo2 .. hi2 PROVE \E j \in lo2 .. hi2 : e[k] = m[j]
  <2>1. CASE k \in lo .. hi
    <3>1. PICK j \in lo .. hi : e[k] = m[j]
      BY <2>1 DEF Rearranged
    <3>2. j \in lo2 .. hi2
      OBVIOUS
    <3> QED BY <3>1, <3>2
  <2>2. CASE k \notin lo .. hi
    BY <2>2 DEF Rearranged
  <2> QED BY <2>1, <2>2
<1>3. ASSUME NEW k \in lo2 .. hi2 PROVE \E j \in lo2 .. hi2 : m[k] = e[j]
  <2>1. CASE k \in lo .. hi
    <3>1. PICK j \in lo .. hi : m[k] = e[j]
      BY <2>1 DEF Rearranged
    <3>2. j \in lo2 .. hi2
      OBVIOUS
    <3> QED BY <3>1, <3>2
  <2>2. CASE k \notin lo .. hi
    BY <2>2 DEF Rearranged
  <2> QED BY <2>1, <2>2
<1>4. \A k \in lo2 .. hi2 : \E j \in lo2 .. hi2 : e[k] = a[j]
  BY <1>2 DEF Rearranged
<1>5. \A k \in lo2 .. hi2 : \E j \in lo2 .. hi2 : a[k] = e[j]
  BY <1>3 DEF Rearranged
<1> QED BY <1>1, <1>4, <1>5 DEF Rearranged

\* e is a with what is at x and at y exchanged.
Swapped(n, e, a, x, y) == /\ \A k \in 0 .. n - 1 : k # x /\ k # y => e[k] = a[k]
                          /\ e[x] = a[y] /\ e[y] = a[x]

LEMMA RearrangedSwap ==
    ASSUME NEW n \in Nat, NEW e, NEW a, NEW lo \in Int, NEW hi \in Int, 0 <= lo, hi < n,
           NEW x \in lo .. hi, NEW y \in lo .. hi, Swapped(n, e, a, x, y)
    PROVE  Rearranged(n, e, a, lo, hi)
  BY DEF Swapped, Rearranged

\* What stays in front of the root, and a root behind which all of it fits.
LEMMA BelowFrame ==
    ASSUME NEW d, NEW a, NEW e, NEW r \in Int, NEW b, NEW c, Leonardo(b, c), Below(d, a, r, b, c),
           \A k \in r - b + 1 .. r - 1 : e[k] = a[k]
    PROVE  Below(d, e, r, b, c)
<1>1. b \in Int /\ c \in Int
  BY LeonardoIs
<1>2. SUFFICES ASSUME b > 1
               PROVE  Tree(d, e, r - 1, b - c - 1, 2 * c - b) /\ Tree(d, e, r - b + c, c, b - c - 1)
  BY DEF Below
<1>3. Tree(d, a, r - 1, b - c - 1, 2 * c - b) /\ Tree(d, a, r - b + c, c, b - c - 1)
  BY <1>2 DEF Below
<1>4. b >= 3 /\ c >= 1 /\ b - c - 1 \in 1 .. c
  BY <1>2, LeonardoIs
<1>5. Tree(d, e, r - 1, b - c - 1, 2 * c - b)
  <2>1. PICK s \in Int, x \in Int, y \in Int : s = r - 1 /\ x = b - c - 1 /\ y = 2 * c - b
    BY <1>1
  <2>2. \A k \in s - x + 1 .. s : e[k] = a[k]
    BY <1>1, <1>4, <2>1
  <2> QED BY <1>3, <2>1, <2>2, TreeFrame
<1>6. Tree(d, e, r - b + c, c, b - c - 1)
  <2>1. PICK s \in Int, y \in Int : s = r - b + c /\ y = b - c - 1
    BY <1>1
  <2>2. \A k \in s - c + 1 .. s : e[k] = a[k]
    BY <1>1, <1>4, <2>1
  <2> QED BY <1>3, <2>1, <2>2, TreeFrame
<1> QED BY <1>5, <1>6

\* A greater root makes no difference to a tree.
LEMMA TreeRaise ==
    ASSUME NEW d, NEW a, NEW e, NEW r \in Int, NEW b, NEW c, Tree(d, a, r, b, c),
           \A k \in r - b + 1 .. r - 1 : e[k] = a[k], \A k \in r - b + 1 .. r : a[k] \in Int,
           e[r] \in Int, Ordered(d, a[r], e[r])
    PROVE  Tree(d, e, r, b, c)
<1>1. /\ Leonardo(b, c) /\ Below(d, a, r, b, c)
      /\ b > 1 => Ordered(d, a[r - 1], a[r]) /\ Ordered(d, a[r - b + c], a[r])
  BY TreeIs
<1>2. Below(d, e, r, b, c)
  BY <1>1, BelowFrame
<1>3. ASSUME b > 1 PROVE Ordered(d, e[r - 1], e[r]) /\ Ordered(d, e[r - b + c], e[r])
  <2>1. b \in Int /\ c \in Int /\ b >= 3 /\ c >= 1 /\ b - c - 1 \in 1 .. c
    BY <1>1, <1>3, LeonardoIs
  <2>2. PICK s \in Int : s = r - b + c
    BY <2>1
  <2>3. s \in r - b + 1 .. r - 1 /\ r - 1 \in r - b + 1 .. r - 1 /\ r \in r - b + 1 .. r
    BY <2>1, <2>2
  <2>4. e[s] = a[s] /\ e[r - 1] = a[r - 1] /\ a[s] \in Int /\ a[r - 1] \in Int /\ a[r] \in Int
    BY <2>1, <2>3
  <2> QED BY <1>1, <1>3, <2>2, <2>4, OrderedIs
<1> QED BY <1>1, <1>2, <1>3, TreeIs

\* The greater one g of the roots below h, and the sizes of its tree.
Largest(d, a, h, b, c, g, x, y) ==
    /\ \/ g = h - 1 /\ x = b - c - 1 /\ y = 2 * c - b
       \/ g = h - b + c /\ x = c /\ y = b - c - 1
    /\ Ordered(d, a[h - 1], a[g]) /\ Ordered(d, a[h - b + c], a[g])

\* When what was at h has sunk to its place below g, there is a tree at h.
Sinks(n, d, e, m, a, h, b, c, g, x, y) ==
    e \in Arrays(n) /\ Rearranged(n, e, m, g - x + 1, g) /\ Tree(d, e, g, x, y)
        => /\ Rearranged(n, e, a, h - b + 1, h) /\ Tree(d, e, h, b, c) /\ e[h] = a[g]

LEMMA SiftDown ==
    ASSUME NEW n \in Nat, NEW d, NEW a \in Arrays(n), NEW h \in 0 .. n - 1, NEW b, NEW c,
           Leonardo(b, c), b > 1, h - b + 1 >= 0, Below(d, a, h, b, c),
           NEW g, NEW x, NEW y, Largest(d, a, h, b, c, g, x, y), Ordered(d, a[h], a[g]),
           NEW m \in Arrays(n), Swapped(n, m, a, h, g)
    PROVE  /\ g \in 0 .. n - 1 /\ g < h /\ g - x + 1 >= h - b + 1 /\ Leonardo(x, y)
           /\ Below(d, m, g, x, y)
           /\ \A e : Sinks(n, d, e, m, a, h, b, c, g, x, y)
<1>1. b \in Int /\ c \in Int /\ b >= 3 /\ c >= 1 /\ b - c - 1 \in 1 .. c
  BY LeonardoIs
<1>2. g \in Int /\ x \in Int /\ y \in Int /\ g < h /\ g - x + 1 >= h - b + 1 /\ x >= 1
  BY <1>1 DEF Largest
<1>3. Tree(d, a, h - 1, b - c - 1, 2 * c - b) /\ Tree(d, a, h - b + c, c, b - c - 1)
  BY DEF Below
<1>4. Tree(d, a, g, x, y) /\ Leonardo(x, y) /\ Below(d, a, g, x, y)
  BY <1>3, TreeIs DEF Largest
<1>5. Below(d, m, g, x, y)
  <2>1. \A k \in g - x + 1 .. g - 1 : m[k] = a[k]
    BY <1>1, <1>2 DEF Swapped
  <2> QED BY <1>2, <1>4, <2>1, BelowFrame
<1>6. ASSUME NEW e PROVE Sinks(n, d, e, m, a, h, b, c, g, x, y)
  <2>0. SUFFICES ASSUME e \in Arrays(n), Rearranged(n, e, m, g - x + 1, g), Tree(d, e, g, x, y)
                 PROVE  Rearranged(n, e, a, h - b + 1, h) /\ Tree(d, e, h, b, c) /\ e[h] = a[g]
    BY DEF Sinks
  <2>1. Rearranged(n, m, a, h - b + 1, h)
    <3>1. PICK lo \in Int, hi \in Int : lo = h - b + 1 /\ hi = h
      BY <1>1
    <3>2. PICK u \in lo .. hi, v \in lo .. hi : u = h /\ v = g
      BY <1>1, <1>2, <3>1
    <3> QED BY <1>1, <3>1, <3>2, RearrangedSwap
  <2>2. Rearranged(n, e, a, h - b + 1, h)
    <3>1. PICK lo \in Int, hi \in Int, lo2 \in Int : lo = g - x + 1 /\ hi = g /\ lo2 = h - b + 1
      BY <1>1, <1>2
    <3>2. PICK hi2 \in Int : hi2 = h
      OBVIOUS
    <3> QED BY <1>1, <1>2, <2>0, <2>1, <3>1, <3>2, RearrangedWider
  <2>3. e[h] = a[g]
    BY <1>1, <1>2, <2>0 DEF Rearranged, Swapped
  <2>4. \A k \in h - b + 1 .. h - 1 : k < g - x + 1 \/ k > g => e[k] = a[k]
    BY <1>1, <1>2, <2>0 DEF Rearranged, Swapped
  <2>5. Ordered(d, e[g], a[g])
    <3>1. PICK j \in g - x + 1 .. g : e[g] = m[j]
      BY <1>2, <2>0 DEF Rearranged
    <3>2. CASE j = g
      BY <3>1, <3>2 DEF Swapped
    <3>3. CASE j # g
      <4>1. m[j] = a[j]
        BY <1>1, <1>2, <3>1, <3>3 DEF Swapped
      <4>2. \A k \in g - x + 1 .. g : a[k] \in Int
        BY <1>1, <1>2 DEF Arrays
      <4> QED BY <1>2, <1>4, <3>1, <4>1, <4>2, TreeTop
    <3> QED BY <3>2, <3>3
  <2>6. Ordered(d, e[h - 1], a[g]) /\ Ordered(d, e[h - b + c], a[g])
         /\ Tree(d, e, h - 1, b - c - 1, 2 * c - b) /\ Tree(d, e, h - b + c, c, b - c - 1)
    <3>1. CASE g = h - 1 /\ x = b - c - 1 /\ y = 2 * c - b
      <4>1. PICK s \in Int, z \in Int : s = h - b + c /\ z = b - c - 1
        BY <1>1
      <4>2. \A k \in s - c + 1 .. s : e[k] = a[k]
        BY <1>1, <2>4, <3>1, <4>1
      <4>3. e[s] = a[s]
        BY <1>1, <4>2
      <4>4. Tree(d, e, s, c, z)
        BY <1>3, <4>1, <4>2, TreeFrame
      <4>5. Ordered(d, a[s], a[g])
        BY <4>1 DEF Largest
      <4> QED BY <2>0, <2>5, <3>1, <4>1, <4>3, <4>4, <4>5
    <3>2. CASE g = h - b + c /\ x = c /\ y = b - c - 1
      <4>0. h - 1 \in Int /\ b - c - 1 \in Int /\ 2 * c - b \in Int
        BY <1>1
      <4>1. PICK s \in Int, z \in Int, w \in Int : s = h - 1 /\ z = b - c - 1 /\ w = 2 * c - b
        BY <4>0
      <4>2. \A k \in s - z + 1 .. s : e[k] = a[k]
        BY <1>1, <2>4, <3>2, <4>1
      <4>3. e[s] = a[s]
        BY <1>1, <4>1, <4>2
      <4>4. Tree(d, e, s, z, w)
        BY <1>3, <4>1, <4>2, TreeFrame
      <4>5. Ordered(d, a[s], a[g])
        BY <4>1 DEF Largest
      <4> QED BY <2>0, <2>5, <3>2, <4>1, <4>3, <4>4, <4>5
    <3> QED BY <3>1, <3>2 DEF Largest
  <2>7. Tree(d, e, h, b, c)
    <3>1. Below(d, e, h, b, c)
      BY <2>6 DEF Below
    <3> QED BY <2>3, <2>6, <3>1, TreeIs
  <2> QED BY <2>2, <2>3, <2>7
<1> QED BY <1>1, <1>2, <1>4, <1>5, <1>6

\* S holds every array that sift may leave when what is at h sinks in its tree.
Sifting(n, d, S, a, h, b, c) ==
    /\ Leonardo(b, c) /\ h \in 0 .. n - 1 /\ h - b + 1 >= 0 /\ Below(d, a, h, b, c)
    /\ \A e \in Arrays(n) : Rearranged(n, e, a, h - b + 1, h) /\ Tree(d, e, h, b, c) => e \in S

LEMMA SiftRests ==
    ASSUME NEW n \in Nat, NEW d, NEW S, NEW a \in Arrays(n), NEW h, NEW b, NEW c,
           Sifting(n, d, S, a, h, b, c),
           b > 1 => Ordered(d, a[h - 1], a[h]) /\ Ordered(d, a[h - b + c], a[h])
    PROVE  a \in S
<1>1. Leonardo(b, c) /\ h \in Int /\ Below(d, a, h, b, c)
  BY DEF Sifting
<1>2. Tree(d, a, h, b, c)
  BY <1>1, TreeIs
<1>3. PICK lo, hi : lo = h - b + 1 /\ hi = h
  OBVIOUS
<1>4. Rearranged(n, a, a, lo, hi)
  BY RearrangedSelf
<1> QED BY <1>2, <1>3, <1>4 DEF Sifting

LEMMA SiftMoves ==
    ASSUME NEW n \in Nat, NEW d, NEW S, NEW a \in Arrays(n), NEW h, NEW b, NEW c,
           Sifting(n, d, S, a, h, b, c), b > 1,
           NEW g, NEW x, NEW y, Largest(d, a, h, b, c, g, x, y), Ordered(d, a[h], a[g]),
           NEW m \in Arrays(n), Swapped(n, m, a, h, g)
    PROVE  Sifting(n, d, S, m, g, x, y)
<1>1. Leonardo(b, c) /\ h \in 0 .. n - 1 /\ h - b + 1 >= 0 /\ Below(d, a, h, b, c)
  BY DEF Sifting
<1>2. /\ g \in 0 .. n - 1 /\ g < h /\ g - x + 1 >= h - b + 1 /\ Leonardo(x, y)
      /\ Below(d, m, g, x, y)
      /\ \A e : Sinks(n, d, e, m, a, h, b, c, g, x, y)
  BY <1>1, SiftDown
<1>3. ASSUME NEW e \in Arrays(n), Rearranged(n, e, m, g - x + 1, g), Tree(d, e, g, x, y)
      PROVE  e \in S
  <2>1. Rearranged(n, e, a, h - b + 1, h) /\ Tree(d, e, h, b, c)
    BY <1>2, <1>3 DEF Sinks
  <2> QED BY <2>1 DEF Sifting
<1>4. g - x + 1 >= 0
  <2>1. b \in Int /\ x \in Int
    BY <1>1, <1>2, LeonardoIs
  <2> QED BY <1>1, <1>2, <2>1
<1> QED BY <1>2, <1>3, <1>4 DEF Sifting

-----------------------------------------------------------------------------
(* trinkle *)

\* A forest but for what is at h, its last root.
But(d, a, p, b, c, h) ==
    IF p % 2 = 1 THEN /\ h >= b - 1 /\ Below(d, a, h, b, c)
                      /\ Forest(d, a, p - 1, b, c, h - b)
    ELSE \E e : (\A k \in 0 .. h - 1 : e[k] = a[k]) /\ Forest(d, e, p, b, c, h)

\* S holds every array that trinkle may leave.
Trinkling(n, d, S, a, p, h, b, c) ==
    /\ p \in Nat /\ p > 0 /\ Leonardo(b, c) /\ h \in 0 .. n - 1 /\ But(d, a, p, b, c, h)
    /\ \A e \in Arrays(n) : Rearranged(n, e, a, 0, h) /\ Forest(d, e, p, b, c, h) => e \in S

LEMMA ButOf ==
    ASSUME NEW d, NEW a, NEW e, NEW p, NEW b, NEW c, NEW h, p > 0,
           Forest(d, e, p, b, c, h), \A k \in 0 .. h - 1 : e[k] = a[k]
    PROVE  But(d, a, p, b, c, h)
<1>1. Forested(d, e, p, b, c, h)
  BY ForestIs
<1>2. /\ p \in Nat /\ Leonardo(b, c) /\ h \in Int /\ b \in Int /\ b >= 1 /\ c \in Int
  BY <1>1, LeonardoIs DEF Forested
<1>3. CASE p % 2 = 1
  <2>1. h >= b - 1 /\ Tree(d, e, h, b, c) /\ Forest(d, e, p - 1, b, c, h - b)
    BY <1>1, <1>3 DEF Forested
  <2>2. Below(d, a, h, b, c)
    <3>1. Below(d, e, h, b, c)
      BY <2>1, TreeIs
    <3>2. \A k \in h - b + 1 .. h - 1 : a[k] = e[k]
      BY <1>2, <2>1
    <3> QED BY <1>2, <3>1, <3>2, BelowFrame
  <2>3. Forest(d, a, p - 1, b, c, h - b)
    <3>1. PICK t \in Int, s \in Int : t = p - 1 /\ s = h - b
      BY <1>2
    <3>2. \A k \in 0 .. s : a[k] = e[k]
      BY <1>2, <3>1
    <3> QED BY <2>1, <3>1, <3>2, ForestFrame
  <2> QED BY <1>3, <2>1, <2>2, <2>3 DEF But
<1>4. CASE p % 2 # 1
  BY <1>4 DEF But
<1> QED BY <1>3, <1>4

\* An even p may be halved, and doubled.
LEMMA TrinkleUp ==
    ASSUME NEW n \in Nat, NEW d, NEW S, NEW a \in Arrays(n), NEW p, NEW h, NEW b, NEW c,
           Trinkling(n, d, S, a, p, h, b, c), p % 2 = 0
    PROVE  Trinkling(n, d, S, a, p \div 2, h, b + c + 1, b)
<1>1. /\ p \in Nat /\ p > 0 /\ Leonardo(b, c) /\ h \in 0 .. n - 1 /\ But(d, a, p, b, c, h)
      /\ \A e \in Arrays(n) : Rearranged(n, e, a, 0, h) /\ Forest(d, e, p, b, c, h) => e \in S
  BY DEF Trinkling
<1>2. PICK l \in Nat, x \in Int : l = p \div 2 /\ p = 2 * l /\ l > 0 /\ x = b + c + 1
  BY <1>1, LeonardoIs
<1>3. Leonardo(x, b)
  BY <1>1, <1>2, LeonardoIs
<1>4. PICK e : (\A k \in 0 .. h - 1 : e[k] = a[k]) /\ Forest(d, e, p, b, c, h)
  BY <1>1 DEF But
<1>5. But(d, a, l, x, b, h)
  <2>1. Forest(d, e, l, x, b, h)
    BY <1>1, <1>2, <1>4, ForestDouble
  <2> QED BY <1>2, <1>4, <2>1, ButOf
<1>6. ASSUME NEW f \in Arrays(n), Rearranged(n, f, a, 0, h), Forest(d, f, l, x, b, h)
      PROVE  f \in S
  <2>1. Forest(d, f, p, b, c, h)
    BY <1>1, <1>2, <1>6, ForestDouble
  <2> QED BY <1>1, <1>6, <2>1
<1>7. Trinkling(n, d, S, a, l, h, x, b)
  BY <1>1, <1>2, <1>3, <1>5, <1>6 DEF Trinkling
<1> QED BY <1>2, <1>7

LEMMA TrinkleDown ==
    ASSUME NEW n \in Nat, NEW d, NEW S, NEW a \in Arrays(n), NEW p, NEW h, NEW b, NEW c,
           Trinkling(n, d, S, a, p, h, b, c), p % 2 = 0, b > 1
    PROVE  Trinkling(n, d, S, a, 2 * p, h, c, b - c - 1)
<1>1. /\ p \in Nat /\ p > 0 /\ Leonardo(b, c) /\ h \in 0 .. n - 1 /\ But(d, a, p, b, c, h)
      /\ \A e \in Arrays(n) : Rearranged(n, e, a, 0, h) /\ Forest(d, e, p, b, c, h) => e \in S
  BY DEF Trinkling
<1>2. b \in Int /\ c \in Int /\ Leonardo(c, b - c - 1)
  BY <1>1, LeonardoIs
<1>3. PICK l \in Nat, y \in Int : l = 2 * p /\ y = b - c - 1 /\ b = c + y + 1 /\ l > 0 /\ l % 2 = 0
  BY <1>1, <1>2
<1>4. PICK e : (\A k \in 0 .. h - 1 : e[k] = a[k]) /\ Forest(d, e, p, b, c, h)
  BY <1>1 DEF But
<1>5. But(d, a, l, c, y, h)
  <2>1. Forest(d, e, l, c, y, h)
    BY <1>1, <1>2, <1>3, <1>4, ForestDouble
  <2> QED BY <1>3, <1>4, <2>1 DEF But
<1>6. ASSUME NEW f \in Arrays(n), Rearranged(n, f, a, 0, h), Forest(d, f, l, c, y, h)
      PROVE  f \in S
  <2>1. Forest(d, f, p, b, c, h)
    BY <1>1, <1>2, <1>3, <1>6, ForestDouble
  <2> QED BY <1>1, <1>6, <2>1
<1>7. Trinkling(n, d, S, a, l, h, c, y)
  BY <1>1, <1>2, <1>3, <1>5, <1>6 DEF Trinkling
<1> QED BY <1>3, <1>7

\* What is left of the last tree sinks: the root before it may stand there.
LEMMA TrinkleStops ==
    ASSUME NEW n \in Nat, NEW d, NEW S, NEW a \in Arrays(n), NEW p, NEW h, NEW b, NEW c,
           Trinkling(n, d, S, a, p, h, b, c), p % 2 = 1,
           p > 1 => Ordered(d, a[h - b], a[h])
    PROVE  Sifting(n, d, S, a, h, b, c)
<1>1. /\ p \in Nat /\ p > 0 /\ Leonardo(b, c) /\ h \in 0 .. n - 1
      /\ h >= b - 1 /\ Below(d, a, h, b, c) /\ Forest(d, a, p - 1, b, c, h - b)
      /\ \A e \in Arrays(n) : Rearranged(n, e, a, 0, h) /\ Forest(d, e, p, b, c, h) => e \in S
  BY DEF Trinkling, But
<1>2. b \in Int /\ c \in Int /\ b >= 1
  BY <1>1, LeonardoIs
<1>3. ASSUME NEW e \in Arrays(n), Rearranged(n, e, a, h - b + 1, h), Tree(d, e, h, b, c)
      PROVE  e \in S
  <2>1. Forest(d, e, p - 1, b, c, h - b)
    <3>1. PICK t \in Int, s \in Int : t = p - 1 /\ s = h - b
      BY <1>1, <1>2
    <3>2. \A k \in 0 .. s : e[k] = a[k]
      BY <1>1, <1>2, <1>3, <3>1 DEF Rearranged
    <3> QED BY <1>1, <3>1, <3>2, ForestFrame
  <2>2. ASSUME p > 1 PROVE Ordered(d, e[h - b], e[h])
    <3>1. h - b >= 0
      <4>1. Forested(d, a, p - 1, b, c, h - b)
        BY <1>1, ForestIs
      <4> QED BY <1>1, <2>2, <4>1 DEF Forested
    <3>2. e[h - b] = a[h - b] /\ a[h - b] \in Int /\ a[h] \in Int
      BY <1>1, <1>2, <1>3, <3>1 DEF Rearranged, Arrays
    <3>3. PICK j \in h - b + 1 .. h : a[h] = e[j]
      BY <1>1, <1>2, <1>3 DEF Rearranged
    <3>4. \A k \in h - b + 1 .. h : e[k] \in Int
      BY <1>1, <1>2 DEF Arrays
    <3>5. Ordered(d, e[j], e[h])
      BY <1>3, <3>3, <3>4, TreeTop
    <3>6. e[j] \in Int /\ e[h] \in Int
      BY <1>1, <1>2, <3>3, <3>4
    <3> QED BY <2>2, <3>2, <3>3, <3>5, <3>6, OrderedIs
  <2>3. Forest(d, e, p, b, c, h)
    BY <1>1, <1>3, <2>1, <2>2, ForestTree
  <2>4. Rearranged(n, e, a, 0, h)
    <3>1. PICK lo \in Int, hi \in Int, lo2 \in Int : lo = h - b + 1 /\ hi = h /\ lo2 = 0
      BY <1>1, <1>2
    <3>2. Rearranged(n, a, a, lo2, hi)
      BY RearrangedSelf
    <3> QED BY <1>1, <1>2, <1>3, <3>1, <3>2, RearrangedWider
  <2> QED BY <1>1, <2>3, <2>4
<1> QED BY <1>1, <1>2, <1>3 DEF Sifting

\* The root before it is greater, and greater than what is below: it comes to h.
LEMMA TrinkleLeft ==
    ASSUME NEW n \in Nat, NEW d, NEW S, NEW a \in Arrays(n), NEW p, NEW h, NEW b, NEW c,
           Trinkling(n, d, S, a, p, h, b, c), p % 2 = 1, p > 1, Ordered(d, a[h], a[h - b]),
           b > 1 => Ordered(d, a[h - 1], a[h - b]) /\ Ordered(d, a[h - b + c], a[h - b]),
           NEW m \in Arrays(n), Swapped(n, m, a, h, h - b)
    PROVE  Trinkling(n, d, S, m, p - 1, h - b, b, c)
<1>1. /\ p \in Nat /\ Leonardo(b, c) /\ h \in 0 .. n - 1
      /\ h >= b - 1 /\ Below(d, a, h, b, c) /\ Forest(d, a, p - 1, b, c, h - b)
      /\ \A e \in Arrays(n) : Rearranged(n, e, a, 0, h) /\ Forest(d, e, p, b, c, h) => e \in S
  BY DEF Trinkling, But
<1>2. b \in Int /\ c \in Int /\ b >= 1 /\ (b > 1 => b >= 3 /\ c >= 1 /\ b - c - 1 \in 1 .. c)
  <2>1. Leonardo(b, c)
    BY <1>1
  <2>2. /\ b \in Int /\ c \in Int /\ b >= 1
        /\ \/ b = 1 /\ c \in {-1, 1}
           \/ b >= 3 /\ c >= 1 /\ b - c - 1 \in 1 .. c
    BY <2>1, LeonardoIs
  <2> QED BY <2>2
<1>3. PICK l \in Nat, g \in Int : l = p - 1 /\ g = h - b /\ l > 0
  BY <1>1, <1>2
<1>4. g \in 0 .. n - 1 /\ g < h
  <2>1. g >= 0
    BY <1>1, <1>3, ForestIs DEF Forested
  <2> QED BY <1>1, <1>2, <1>3, <2>1
<1>5. But(d, m, l, b, c, g)
  <2>1. \A k \in 0 .. g - 1 : a[k] = m[k]
    BY <1>1, <1>3, <1>4 DEF Swapped
  <2> QED BY <1>1, <1>3, <2>1, ButOf
<1>6. \A k \in 0 .. g : Ordered(d, a[k], a[g])
  <2>1. \A k \in 0 .. g : a[k] \in Int
    BY <1>1, <1>4 DEF Arrays
  <2> QED BY <1>1, <1>3, <2>1, ForestTop
<1>7. ASSUME NEW e \in Arrays(n), Rearranged(n, e, m, 0, g), Forest(d, e, l, b, c, g)
      PROVE  e \in S
  <2>1. Rearranged(n, e, a, 0, h)
    <3>1. PICK lo \in Int, hi \in Int : lo = 0 /\ hi = h
      BY <1>1
    <3>2. PICK x \in lo .. hi, y \in lo .. hi : x = h /\ y = g
      BY <1>1, <1>4, <3>1
    <3>3. Rearranged(n, m, a, lo, hi)
      BY <1>1, <1>3, <3>1, <3>2, RearrangedSwap
    <3> QED BY <1>1, <1>3, <1>4, <1>7, <3>1, <3>3, RearrangedWider
  <2>2. e[h] = a[g] /\ \A k \in g + 1 .. h - 1 : e[k] = a[k]
    <3>1. m[h] = a[g] /\ \A k \in g + 1 .. h - 1 : m[k] = a[k]
      <4>1. Swapped(n, m, a, h, g)
        BY <1>3
      <4>2. m[h] = a[g] /\ \A k \in 0 .. n - 1 : k # h /\ k # g => m[k] = a[k]
        BY <4>1 DEF Swapped
      <4>3. \A k \in g + 1 .. h - 1 : k \in 0 .. n - 1 /\ k # h /\ k # g
        BY <1>1, <1>4
      <4> QED BY <4>2, <4>3
    <3>2. \A k \in g + 1 .. h : e[k] = m[k]
      <4>1. \A k \in 0 .. n - 1 : k < 0 \/ k > g => e[k] = m[k]
        BY <1>7 DEF Rearranged
      <4>2. \A k \in g + 1 .. h : k \in 0 .. n - 1 /\ k > g
        BY <1>1, <1>4
      <4> QED BY <4>1, <4>2
    <3>3. h \in g + 1 .. h
      BY <1>1, <1>4
    <3> QED BY <1>1, <1>4, <3>1, <3>2, <3>3
  <2>3. Ordered(d, e[g], e[h])
    <3>1. PICK j \in 0 .. g : e[g] = m[j]
      BY <1>4, <1>7 DEF Rearranged
    <3>2. CASE j = g
      BY <1>3, <2>2, <3>1, <3>2 DEF Swapped
    <3>3. CASE j # g
      <4>1. m[j] = a[j]
        BY <1>1, <1>3, <1>4, <3>3 DEF Swapped
      <4> QED BY <1>6, <2>2, <3>1, <4>1
    <3> QED BY <3>2, <3>3
  <2>4. Tree(d, e, h, b, c)
    <3>1. Below(d, e, h, b, c)
      <4>1. \A k \in h - b + 1 .. h - 1 : e[k] = a[k]
        BY <1>2, <1>3, <2>2
      <4> QED BY <1>1, <4>1, BelowFrame
    <3>2. ASSUME b > 1 PROVE Ordered(d, e[h - 1], e[h]) /\ Ordered(d, e[h - b + c], e[h])
      <4>0. h - b + c \in Int
        BY <1>1, <1>2
      <4>1. PICK s \in Int : s = h - b + c
        BY <4>0
      <4>2. e[h - 1] = a[h - 1] /\ e[s] = a[s]
        <5>1. h - 1 \in g + 1 .. h - 1 /\ s \in g + 1 .. h - 1
          BY <1>1, <1>2, <1>3, <3>2, <4>1
        <5> QED BY <2>2, <5>1
      <4> QED BY <1>3, <2>2, <3>2, <4>1, <4>2
    <3> QED BY <1>1, <3>1, <3>2, TreeIs
  <2>5. Forest(d, e, p, b, c, h)
    BY <1>1, <1>3, <1>7, <2>3, <2>4, ForestTree
  <2> QED BY <1>1, <2>1, <2>5
<1>8. Trinkling(n, d, S, m, l, g, b, c)
  BY <1>1, <1>3, <1>4, <1>5, <1>7 DEF Trinkling
<1> QED BY <1>3, <1>8

\* It is greater, but one of the two below is not lesser: that one comes to h.
LEMMA TrinkleChild ==
    ASSUME NEW n \in Nat, NEW d, NEW S, NEW a \in Arrays(n), NEW p, NEW h, NEW b, NEW c,
           Trinkling(n, d, S, a, p, h, b, c), p % 2 = 1, p > 1, b > 1,
           NEW g, NEW x, NEW y, Largest(d, a, h, b, c, g, x, y),
           Ordered(d, a[h], a[h - b]), Ordered(d, a[h - b], a[g]),
           NEW m \in Arrays(n), Swapped(n, m, a, h, g)
    PROVE  Sifting(n, d, S, m, g, x, y)
<1>1. /\ p \in Nat /\ Leonardo(b, c) /\ h \in 0 .. n - 1
      /\ h >= b - 1 /\ Below(d, a, h, b, c) /\ Forest(d, a, p - 1, b, c, h - b)
      /\ \A e \in Arrays(n) : Rearranged(n, e, a, 0, h) /\ Forest(d, e, p, b, c, h) => e \in S
  BY DEF Trinkling, But
<1>2. b \in Int /\ c \in Int /\ b >= 3 /\ c >= 1 /\ b - c - 1 \in 1 .. c
  <2>1. Leonardo(b, c)
    BY <1>1
  <2> QED BY <2>1, LeonardoIs
<1>3. h - b >= 0
  <2>1. Forested(d, a, p - 1, b, c, h - b)
    BY <1>1, ForestIs
  <2> QED BY <1>1, <2>1 DEF Forested
<1>4. g \in 0 .. n - 1
  BY <1>1, <1>2, <1>3 DEF Largest
<1>5. Ordered(d, a[h], a[g])
  <2>1. a[h] \in Int /\ a[g] \in Int /\ a[h - b] \in Int
    BY <1>1, <1>2, <1>3, <1>4 DEF Arrays
  <2> QED BY <2>1, OrderedIs
<1>6. /\ g < h /\ g - x + 1 >= h - b + 1 /\ Leonardo(x, y)
      /\ Below(d, m, g, x, y)
      /\ \A e : Sinks(n, d, e, m, a, h, b, c, g, x, y)
  <2>1. h - b + 1 >= 0
    BY <1>1, <1>2
  <2> QED BY <1>1, <1>5, <2>1, SiftDown
<1>7. ASSUME NEW e \in Arrays(n), Rearranged(n, e, m, g - x + 1, g), Tree(d, e, g, x, y)
      PROVE  e \in S
  <2>1. Rearranged(n, e, a, h - b + 1, h) /\ Tree(d, e, h, b, c) /\ e[h] = a[g]
    BY <1>6, <1>7 DEF Sinks
  <2>2. \A k \in 0 .. h - b : e[k] = a[k]
    BY <1>1, <1>2, <2>1 DEF Rearranged
  <2>3. Ordered(d, e[h - b], e[h])
    BY <1>1, <1>2, <1>3, <2>1, <2>2
  <2>4. Forest(d, e, p - 1, b, c, h - b)
    <3>1. PICK t \in Int, s \in Int : t = p - 1 /\ s = h - b
      BY <1>1, <1>2
    <3> QED BY <1>1, <2>2, <3>1, ForestFrame
  <2>5. Forest(d, e, p, b, c, h)
    BY <1>1, <2>1, <2>3, <2>4, ForestTree
  <2>6. Rearranged(n, e, a, 0, h)
    <3>1. PICK lo \in Int, hi \in Int, lo2 \in Int : lo = h - b + 1 /\ hi = h /\ lo2 = 0
      BY <1>1, <1>2
    <3>2. Rearranged(n, a, a, lo2, hi)
      BY RearrangedSelf
    <3> QED BY <1>1, <1>2, <2>1, <3>1, <3>2, RearrangedWider
  <2> QED BY <1>1, <2>5, <2>6
<1>8. g - x + 1 >= 0
  <2>1. x \in Int
    BY <1>6, LeonardoIs
  <2> QED BY <1>1, <1>2, <1>4, <1>6, <2>1
<1> QED BY <1>4, <1>6, <1>7, <1>8 DEF Sifting

-----------------------------------------------------------------------------
(* semitrinkle *)

\* A tree behind a forest: c is one of the sizes.
LEMMA RootStays ==
    ASSUME NEW d, NEW a, NEW p, NEW b, NEW c, NEW h, Forest(d, a, p, b, c, h), c >= 1,
           Tree(d, a, h + c, c, b - c - 1), p > 0 => Ordered(d, a[h], a[h + c])
    PROVE  Forest(d, a, 2 * p + 1, c, b - c - 1, h + c)
<1>1. p \in Nat /\ Leonardo(b, c) /\ h \in Int
  BY ForestIs DEF Forested
<1>2. b \in Int /\ c \in Int /\ Leonardo(c, b - c - 1)
  BY <1>1, LeonardoIs
<1>3. PICK l \in Nat, y \in Int, r \in Int : l = 2 * p /\ y = b - c - 1 /\ r = h + c /\ b = c + y + 1
  BY <1>1, <1>2
<1>4. Forest(d, a, l, c, y, h)
  BY <1>1, <1>2, <1>3, ForestDouble
<1>5. PICK t \in Nat : t = l + 1 /\ t % 2 = 1 /\ t - 1 = l /\ r - c = h /\ (t > 1 => p > 0)
  BY <1>1, <1>2, <1>3
<1>6. Forest(d, a, t, c, y, r)
  BY <1>3, <1>4, <1>5, ForestTree
<1> QED BY <1>3, <1>5, <1>6

\* The root of the forest is greater than the one of the tree: they are exchanged, and
\* the lesser one may sink.
LEMMA RootGoes ==
    ASSUME NEW n \in Nat, NEW d, NEW a \in Arrays(n), NEW p, NEW b, NEW c, NEW h,
           Forest(d, a, p, b, c, h), p > 0, c >= 1, h + c < n, Tree(d, a, h + c, c, b - c - 1),
           Ordered(d, a[h + c], a[h]), NEW m \in Arrays(n), Swapped(n, m, a, h + c, h)
    PROVE  /\ But(d, m, p, b, c, h)
           /\ \A e \in Arrays(n) : Rearranged(n, e, m, 0, h) /\ Forest(d, e, p, b, c, h)
                => /\ Rearranged(n, e, a, 0, h + c) /\ Forest(d, e, 2 * p + 1, c, b - c - 1, h + c)
<1>1. p \in Nat /\ Leonardo(b, c) /\ h \in Int /\ h >= 0
  BY ForestIs DEF Forested
<1>2. b \in Int /\ c \in Int
  BY <1>1, LeonardoIs
<1>3. PICK r \in Int, y \in Int : r = h + c /\ y = b - c - 1
  BY <1>1, <1>2
<1>4. r \in 0 .. n - 1 /\ h \in 0 .. n - 1 /\ h < r
  BY <1>1, <1>2, <1>3
<1>5. m[r] = a[h] /\ m[h] = a[r] /\ \A k \in 0 .. n - 1 : k # r /\ k # h => m[k] = a[k]
  BY <1>3 DEF Swapped
<1>6. But(d, m, p, b, c, h)
  <2>1. \A k \in 0 .. h - 1 : a[k] = m[k]
    BY <1>4, <1>5
  <2> QED BY <2>1, ButOf
<1>7. \A k \in 0 .. h : Ordered(d, a[k], a[h])
  <2>1. \A k \in 0 .. h : a[k] \in Int
    BY <1>4 DEF Arrays
  <2> QED BY <2>1, ForestTop
<1>8. ASSUME NEW e \in Arrays(n), Rearranged(n, e, m, 0, h), Forest(d, e, p, b, c, h)
      PROVE  Rearranged(n, e, a, 0, r) /\ Forest(d, e, 2 * p + 1, c, y, r)
  <2>1. Rearranged(n, e, a, 0, r)
    <3>1. PICK lo \in Int, hi \in Int : lo = 0 /\ hi = r
      OBVIOUS
    <3>2. PICK u \in lo .. hi, v \in lo .. hi : u = r /\ v = h
      BY <1>4, <3>1
    <3>3. Rearranged(n, m, a, lo, hi)
      BY <1>3, <1>4, <3>1, <3>2, RearrangedSwap
    <3> QED BY <1>1, <1>4, <1>8, <3>1, <3>3, RearrangedWider
  <2>2. \A k \in 0 .. n - 1 : k > h => e[k] = m[k]
    BY <1>8 DEF Rearranged
  <2>3. e[r] = a[h]
    BY <1>4, <1>5, <2>2
  <2>4. Tree(d, e, r, c, y)
    <3>1. \A k \in r - c + 1 .. r - 1 : k \in 0 .. n - 1 /\ k > h /\ k # r
      BY <1>1, <1>2, <1>3, <1>4
    <3>2. \A k \in r - c + 1 .. r - 1 : e[k] = a[k]
      BY <1>4, <1>5, <2>2, <3>1
    <3>3. \A k \in r - c + 1 .. r : a[k] \in Int
      BY <1>1, <1>2, <1>3, <1>4 DEF Arrays
    <3>4. e[r] \in Int /\ Ordered(d, a[r], e[r])
      BY <1>3, <1>4, <2>3 DEF Arrays
    <3> QED BY <1>3, <3>2, <3>3, <3>4, TreeRaise
  <2>5. Ordered(d, e[h], e[r])
    <3>1. PICK j \in 0 .. h : e[h] = m[j]
      BY <1>4, <1>8 DEF Rearranged
    <3>2. CASE j = h
      BY <1>3, <1>5, <2>3, <3>1, <3>2
    <3>3. CASE j # h
      <4>1. m[j] = a[j]
        BY <1>4, <1>5, <3>3
      <4> QED BY <1>7, <2>3, <3>1, <4>1
    <3> QED BY <3>2, <3>3
  <2>6. Forest(d, e, 2 * p + 1, c, y, r)
    BY <1>3, <1>8, <2>4, <2>5, RootStays
  <2> QED BY <2>1, <2>6
<1> QED BY <1>3, <1>6, <1>8

-----------------------------------------------------------------------------
(* What is true where smooth sort stands *)

\* From element l on, nothing but what is greater.
InPlace(n, d, a, l) == \A x, y \in 0 .. n - 1 : x < y /\ y >= l => Ordered(d, a[x], a[y])

LEMMA LastRearranged ==
    ASSUME NEW n \in Nat, NEW d, NEW a, NEW e, NEW l \in Int, InPlace(n, d, a, l),
           NEW lo \in Int, NEW hi \in Int, 0 <= lo, hi < l, hi < n, Rearranged(n, e, a, lo, hi)
    PROVE  InPlace(n, d, e, l)
<1>1. ASSUME NEW x \in 0 .. n - 1, NEW y \in 0 .. n - 1, x < y, y >= l
      PROVE  Ordered(d, e[x], e[y])
  <2>1. e[y] = a[y]
    BY <1>1 DEF Rearranged
  <2>2. PICK j \in 0 .. n - 1 : e[x] = a[j] /\ j < y
    <3>1. CASE x < lo \/ x > hi
      <4>1. e[x] = a[x]
        BY <3>1 DEF Rearranged
      <4> QED BY <1>1, <4>1
    <3>2. CASE x \in lo .. hi
      <4>1. PICK j \in lo .. hi : e[x] = a[j]
        BY <3>2 DEF Rearranged
      <4>2. j \in 0 .. n - 1 /\ j < y
        BY <1>1
      <4> QED BY <4>1, <4>2
    <3> QED BY <3>1, <3>2
  <2> QED BY <1>1, <2>1, <2>2 DEF InPlace
<1> QED BY <1>1 DEF InPlace

Places == {"build", "join", "descend", "take", "shift", "second", "taken"}

\* The next tree is about to get its root, which is at r.
Building(n, d, a, p, b, c, r) ==
    /\ p % 2 = 1 /\ Below(d, a, r, b, c)
    /\ PartForest(d, n, a, p - 1, b, c, r - b) /\ (p % 4 = 1 => c # -1)

\* The last two trees will have one root.
Joining(n, d, a, p, b, c, r) ==
    /\ p % 8 = 3 /\ Tree(d, a, r, b, c) /\ PartForest(d, n, a, p - 1, b, c, r - b)

\* There will be one more tree.
Descending(n, d, a, p, b, c, r) ==
    /\ p > 0 /\ PartForest(d, n, a, p, b, c, r) /\ c # -1 /\ (b = 1 => p % 2 = 1)

\* Of the last tree, the root is in its place, and its first subtree is in the forest.
TakingSecond(n, d, a, p, b, c, r) ==
    /\ b > 1 /\ Forest(d, a, 2 * p + 1, c, b - c - 1, r)
    /\ Tree(d, a, r + (b - c - 1), b - c - 1, 2 * c - b)

\* a is what there may be in the array where smooth sort stands, or where a call returns.
Goal(place, n, d, a, p, b, c, r, l) ==
    /\ place \in Places
    /\ p \in Nat /\ Leonardo(b, c) /\ r \in 0 .. n - 1 /\ l \in 1 .. n
    /\ l = IF place = "second" THEN r + b - c ELSE r + 1
    /\ place = "build" => Building(n, d, a, p, b, c, r)
    /\ place = "join" => l < n /\ Joining(n, d, a, p, b, c, r)
    /\ place = "descend" => l < n /\ Descending(n, d, a, p, b, c, r)
    /\ place = "take" => p % 2 = 1 /\ Forest(d, a, p, b, c, r) /\ InPlace(n, d, a, l)
    /\ place = "shift" => p > 0 /\ Forest(d, a, p, b, c, r) /\ InPlace(n, d, a, l)
    /\ place = "second" => TakingSecond(n, d, a, p, b, c, r) /\ InPlace(n, d, a, l)
    /\ place = "taken" => /\ c >= 1 /\ Forest(d, a, 2 * p + 1, c, b - c - 1, r)
                          /\ InPlace(n, d, a, l)

Aim(place, n, d, p, b, c, r, l) == {e \in Arrays(n) : Goal(place, n, d, e, p, b, c, r, l)}

LEMMA SmoothBegins ==
    ASSUME NEW n \in Nat, n > 0, NEW d, NEW a
    PROVE  Goal("build", n, d, a, 1, 1, 1, 0, 1)
<1>1. Leonardo(1, 1)
  BY LeonardoOne
<1>2. PICK p, r, o : p = 0 /\ r = -1 /\ o = 1
  OBVIOUS
<1>3. PartForest(d, n, a, p, o, o, r)
  BY <1>1, <1>2, PartForestNone
<1>4. Below(d, a, 0, 1, 1)
  BY DEF Below
<1>5. Building(n, d, a, 1, 1, 1, 0)
  BY <1>2, <1>3, <1>4 DEF Building
<1> QED BY <1>1, <1>5 DEF Goal, Places

-----------------------------------------------------------------------------
(* The trees are built *)

LEMMA LeonardoLeast ==
    ASSUME NEW b, NEW c, Leonardo(b, c)
    PROVE  b \in Int /\ b >= 1 /\ c \in Int /\ c >= -1
<1>1. /\ b \in Int /\ c \in Int /\ b >= 1
      /\ \/ b = 1 /\ c \in {-1, 1}
         \/ b >= 3 /\ c >= 1 /\ b - c - 1 \in 1 .. c
  BY LeonardoIs
<1> QED BY <1>1

LEMMA LeonardoMore ==
    ASSUME NEW b, NEW c, Leonardo(b, c), b > 1
    PROVE  b \in Int /\ b >= 3 /\ c \in Int /\ c >= 1 /\ b - c - 1 \in 1 .. c
<1>1. /\ b \in Int /\ c \in Int
      /\ \/ b = 1 /\ c \in {-1, 1}
         \/ b >= 3 /\ c >= 1 /\ b - c - 1 \in 1 .. c
  BY LeonardoIs
<1> QED BY <1>1

LEMMA BuildingIs ==
    ASSUME NEW n, NEW d, NEW a, NEW p, NEW b, NEW c, NEW r, NEW l,
           Goal("build", n, d, a, p, b, c, r, l)
    PROVE  /\ p \in Nat /\ p % 2 = 1 /\ b \in Int /\ b >= 1 /\ c \in Int /\ c >= -1 /\ Leonardo(b, c)
           /\ r \in 0 .. n - 1 /\ l = r + 1 /\ l \in 1 .. n /\ r - b + 1 >= 0
           /\ Below(d, a, r, b, c) /\ PartForest(d, n, a, p - 1, b, c, r - b)
           /\ p % 4 = 1 => c # -1
<1>1. /\ p \in Nat /\ p % 2 = 1 /\ Leonardo(b, c) /\ r \in 0 .. n - 1 /\ l = r + 1 /\ l \in 1 .. n
      /\ Below(d, a, r, b, c) /\ PartForest(d, n, a, p - 1, b, c, r - b)
      /\ p % 4 = 1 => c # -1
  BY DEF Goal, Building
<1>2. b \in Int /\ b >= 1 /\ c \in Int /\ c >= -1
  BY <1>1, LeonardoLeast
<1>3. PICK t \in Nat, s \in Int : t = p - 1 /\ s = r - b
  BY <1>1, <1>2
<1>4. Built(d, n, a, t, b, c, s)
  BY <1>1, <1>3, PartForestIs
<1>5. s = -1 \/ s >= 0
  <2>1. (t = 0 => s = -1) /\ (t > 0 => s >= 0)
    BY <1>4 DEF Built
  <2>2. t = 0 \/ t > 0
    OBVIOUS
  <2> QED BY <2>1, <2>2
<1> QED BY <1>1, <1>2, <1>3, <1>5

LEMMA BuildsJoined ==
    ASSUME NEW n \in Nat, NEW d, NEW a, NEW p, NEW b, NEW c, NEW r, NEW l,
           Goal("build", n, d, a, p, b, c, r, l), l < n, p % 8 = 3
    PROVE  Sifting(n, d, Aim("join", n, d, p, b, c, r, l), a, r, b, c)
<1>1. /\ p \in Nat /\ p % 2 = 1 /\ b \in Int /\ b >= 1 /\ c \in Int /\ Leonardo(b, c)
      /\ r \in 0 .. n - 1 /\ l = r + 1 /\ l \in 1 .. n /\ r - b + 1 >= 0
      /\ Below(d, a, r, b, c) /\ PartForest(d, n, a, p - 1, b, c, r - b)
  BY BuildingIs
<1>2. ASSUME NEW e \in Arrays(n), Rearranged(n, e, a, r - b + 1, r), Tree(d, e, r, b, c)
      PROVE  e \in Aim("join", n, d, p, b, c, r, l)
  <2>1. PICK t \in Nat, s \in Int : t = p - 1 /\ s = r - b
    BY <1>1
  <2>2. \A k \in 0 .. s : e[k] = a[k]
    BY <1>1, <1>2, <2>1 DEF Rearranged
  <2>3. PartForest(d, n, e, t, b, c, s)
    BY <1>1, <2>1, <2>2, PartForestFrame
  <2>4. Joining(n, d, e, p, b, c, r)
    BY <1>2, <2>1, <2>3 DEF Joining
  <2> QED BY <1>1, <2>4 DEF Aim, Goal, Places
<1> QED BY <1>1, <1>2 DEF Sifting

LEMMA BuildsLater ==
    ASSUME NEW n \in Nat, NEW d, NEW a, NEW p, NEW b, NEW c, NEW r, NEW l,
           Goal("build", n, d, a, p, b, c, r, l), l + c < n, p % 4 = 1
    PROVE  Sifting(n, d, Aim("descend", n, d, p, b, c, r, l), a, r, b, c)
<1>1. /\ p \in Nat /\ p % 2 = 1 /\ b \in Int /\ b >= 1 /\ c \in Int /\ Leonardo(b, c)
      /\ r \in 0 .. n - 1 /\ l = r + 1 /\ l \in 1 .. n /\ r - b + 1 >= 0 /\ c # -1
      /\ Below(d, a, r, b, c) /\ PartForest(d, n, a, p - 1, b, c, r - b) /\ c >= -1
  BY BuildingIs
<1>2. l < n
  BY <1>1, LeonardoIs
<1>3. ASSUME NEW e \in Arrays(n), Rearranged(n, e, a, r - b + 1, r), Tree(d, e, r, b, c)
      PROVE  e \in Aim("descend", n, d, p, b, c, r, l)
  <2>1. PICK t \in Nat, s \in Int : t = p - 1 /\ s = r - b
    BY <1>1
  <2>2. \A k \in 0 .. s : e[k] = a[k]
    BY <1>1, <1>3, <2>1 DEF Rearranged
  <2>3. PartForest(d, n, e, t, b, c, s)
    BY <1>1, <2>1, <2>2, PartForestFrame
  <2>4. PartForest(d, n, e, p, b, c, r)
    <3>1. ~(n <= r + 1 + c)
      BY <1>1
    <3> QED BY <1>1, <1>3, <2>1, <2>3, <3>1, PartForestTree
  <2>5. Descending(n, d, e, p, b, c, r)
    BY <1>1, <2>4 DEF Descending
  <2> QED BY <1>1, <1>2, <2>5 DEF Aim, Goal, Places
<1> QED BY <1>1, <1>3 DEF Sifting

\* Where nothing but small trees will follow, the roots are in order up to the last.
LEMMA RootsOrdered ==
    ASSUME NEW n \in Nat, NEW d, NEW a, NEW p \in Nat, NEW b, NEW c, NEW r, Leonardo(b, c),
           \/ p % 4 = 1 /\ n <= r + 1 + (b + c + 1)
           \/ p % 4 = 3 /\ n <= r + 1 + b,
           PartForest(d, n, a, p - 1, b, c, r)
    PROVE  Forest(d, a, p - 1, b, c, r)
<1>1. b \in Int /\ c \in Int /\ Leonardo(b + c + 1, b) /\ r \in Int
  BY LeonardoIs, PartForestIs DEF Built
<1>2. PICK m \in Nat, x \in Int : p - 1 = 2 * m /\ x = b + c + 1 /\ Leonardo(x, b)
  <2>1. p % 4 = 1 \/ p % 4 = 3
    OBVIOUS
  <2>2. (p - 1) \div 2 \in Nat /\ p - 1 = 2 * ((p - 1) \div 2)
    BY <2>1
  <2> QED BY <1>1, <2>2
<1>3. PartForest(d, n, a, m, x, b, r)
  BY <1>2, PartForestDouble
<1>4. SUFFICES Forest(d, a, m, x, b, r)
  BY <1>2, ForestDouble
<1>5. CASE p % 4 = 3
  <2>1. n <= r + 1 + b
    BY <1>5
  <2> QED BY <1>3, <2>1, PartForestIs DEF Built
<1>6. CASE p % 4 = 1
  <2>1. PICK k \in Nat, y \in Int : m = 2 * k /\ y = x + b + 1
    BY <1>1, <1>2, <1>6
  <2>2. PartForest(d, n, a, k, y, x, r)
    BY <1>2, <1>3, <2>1, PartForestDouble
  <2>3. n <= r + 1 + x
    BY <1>1, <1>2, <1>6
  <2>4. Forest(d, a, k, y, x, r)
    BY <2>2, <2>3, PartForestIs DEF Built
  <2> QED BY <1>2, <2>1, <2>4, ForestDouble
<1> QED BY <1>5, <1>6

LEMMA BuildsNow ==
    ASSUME NEW n \in Nat, NEW d, NEW a, NEW p, NEW b, NEW c, NEW r, NEW l,
           Goal("build", n, d, a, p, b, c, r, l), l < n, l + c >= n, p % 4 = 1
    PROVE  Trinkling(n, d, Aim("descend", n, d, p, b, c, r, l), a, p, r, b, c)
<1>1. /\ p \in Nat /\ p % 2 = 1 /\ b \in Int /\ b >= 1 /\ c \in Int /\ Leonardo(b, c)
      /\ r \in 0 .. n - 1 /\ l = r + 1 /\ l \in 1 .. n /\ r - b + 1 >= 0 /\ c # -1
      /\ Below(d, a, r, b, c) /\ PartForest(d, n, a, p - 1, b, c, r - b)
  BY BuildingIs
<1>2. PICK s \in Int, t \in Nat : s = r - b /\ t = p - 1
  BY <1>1
<1>3. Forest(d, a, t, b, c, s)
  <2>1. n <= s + 1 + (b + c + 1)
    BY <1>1, <1>2
  <2> QED BY <1>1, <1>2, <2>1, RootsOrdered
<1>4. But(d, a, p, b, c, r)
  BY <1>1, <1>2, <1>3 DEF But
<1>5. ASSUME NEW e \in Arrays(n), Forest(d, e, p, b, c, r)
      PROVE  e \in Aim("descend", n, d, p, b, c, r, l)
  <2>1. Tree(d, e, r, b, c) /\ Forest(d, e, t, b, c, s)
    BY <1>1, <1>2, <1>5, ForestIs DEF Forested
  <2>2. PartForest(d, n, e, t, b, c, s)
    BY <1>1, <1>2, <2>1, PartForestFrame
  <2>3. PartForest(d, n, e, p, b, c, r)
    BY <1>1, <1>2, <1>5, <2>1, <2>2, PartForestTree
  <2>4. Descending(n, d, e, p, b, c, r)
    BY <1>1, <2>3 DEF Descending
  <2> QED BY <1>1, <2>4 DEF Aim, Goal, Places
<1> QED BY <1>1, <1>4, <1>5 DEF Trinkling

LEMMA BuildsLast ==
    ASSUME NEW n \in Nat, NEW d, NEW a, NEW p, NEW b, NEW c, NEW r, NEW l,
           Goal("build", n, d, a, p, b, c, r, l), l >= n
    PROVE  Trinkling(n, d, Aim("take", n, d, p, b, c, r, l), a, p, r, b, c)
<1>1. /\ p \in Nat /\ p % 2 = 1 /\ b \in Int /\ b >= 1 /\ c \in Int /\ c >= -1 /\ Leonardo(b, c)
      /\ r \in 0 .. n - 1 /\ l = r + 1 /\ l \in 1 .. n /\ r - b + 1 >= 0
      /\ Below(d, a, r, b, c) /\ PartForest(d, n, a, p - 1, b, c, r - b)
  BY BuildingIs
<1>2. PICK s \in Int, t \in Nat : s = r - b /\ t = p - 1
  BY <1>1
<1>3. Forest(d, a, t, b, c, s)
  <2>1. n <= s + 1 + (b + c + 1) /\ n <= s + 1 + b
    BY <1>1, <1>2
  <2>2. p % 4 = 1 \/ p % 4 = 3
    BY <1>1
  <2> QED BY <1>1, <1>2, <2>1, <2>2, RootsOrdered
<1>4. But(d, a, p, b, c, r)
  BY <1>1, <1>2, <1>3 DEF But
<1>5. ASSUME NEW e \in Arrays(n), Forest(d, e, p, b, c, r)
      PROVE  e \in Aim("take", n, d, p, b, c, r, l)
  <2>1. InPlace(n, d, e, l)
    BY <1>1 DEF InPlace
  <2> QED BY <1>1, <1>5, <2>1 DEF Aim, Goal, Places
<1> QED BY <1>1, <1>4, <1>5 DEF Trinkling

\* The last two trees are those below the next root.
LEMMA JoinedTree ==
    ASSUME NEW n \in Nat, NEW d, NEW a, NEW p, NEW b, NEW c, NEW r, NEW l,
           Goal("join", n, d, a, p, b, c, r, l)
    PROVE  Goal("build", n, d, a, (p + 1) \div 4, b + (b + c + 1) + 1, b + c + 1, r + 1, l + 1)
<1>1. /\ p \in Nat /\ p % 8 = 3 /\ Leonardo(b, c) /\ r \in 0 .. n - 1 /\ l = r + 1 /\ l \in 1 .. n
      /\ l < n /\ Tree(d, a, r, b, c) /\ PartForest(d, n, a, p - 1, b, c, r - b)
  BY DEF Goal, Joining
<1>2. b \in Int /\ b >= 1 /\ c \in Int /\ c >= -1 /\ Leonardo(b + c + 1, b)
  BY <1>1, LeonardoLeast, LeonardoIs
<1>3. PICK m \in Nat : p = 8 * m + 3
  BY <1>1
<1>4. PICK x \in Int, s \in Int, t \in Nat : x = b + c + 1 /\ s = r - b /\ t = 4 * m + 1
  BY <1>2, <1>1, <1>3
<1>5. PartForest(d, n, a, t, x, b, s)
  <2>1. p - 1 = 2 * t
    BY <1>3, <1>4
  <2> QED BY <1>1, <1>4, <2>1, PartForestDouble
<1>6. PICK u \in Int, v \in Nat : u = s - x /\ v = 4 * m
  BY <1>3, <1>4
<1>7. Tree(d, a, s, x, b) /\ PartForest(d, n, a, v, x, b, u)
  <2>1. t % 2 = 1 /\ t - 1 = v
    BY <1>3, <1>4, <1>6
  <2>2. Built(d, n, a, t, x, b, s)
    BY <1>5, PartForestIs
  <2>3. Tree(d, a, s, x, b) /\ PartForest(d, n, a, t - 1, x, b, s - x)
    BY <2>1, <2>2 DEF Built
  <2> QED BY <1>6, <2>1, <2>3
<1>8. PICK y \in Int, w \in Nat : y = x + b + 1 /\ w = 2 * m /\ v = 2 * w
  BY <1>2, <1>3, <1>4, <1>6
<1>9. Leonardo(x, b) /\ Leonardo(y, x)
  BY <1>2, <1>4, <1>8, LeonardoIs
<1>10. PartForest(d, n, a, w, y, x, u)
  BY <1>7, <1>8, <1>9, PartForestDouble
<1>0. PICK z \in Nat : z = w + 1 /\ z - 1 = w
  BY <1>8
<1>11. /\ (p + 1) \div 4 = z /\ b + (b + c + 1) + 1 = y /\ z % 2 = 1
       /\ u = r + 1 - y /\ x # -1
  BY <1>0, <1>1, <1>2, <1>3, <1>4, <1>6, <1>8
<1>12. Below(d, a, r + 1, y, x)
  <2>1. /\ r + 1 - 1 = r /\ y - x - 1 = b /\ 2 * x - y = c /\ r + 1 - y + x = s
    BY <1>1, <1>2, <1>4, <1>8
  <2> QED BY <1>1, <1>7, <2>1 DEF Below
<1>13. PICK o \in Int : o = r + 1 /\ u = o - y
  BY <1>1, <1>11
<1>15. Building(n, d, a, z, y, x, o)
  <2>1. z % 2 = 1 /\ Below(d, a, o, y, x) /\ (z % 4 = 1 => x # -1)
    BY <1>11, <1>12, <1>13
  <2>2. PartForest(d, n, a, z - 1, y, x, o - y)
    BY <1>0, <1>10, <1>13
  <2> QED BY <2>1, <2>2 DEF Building
<1>14. /\ r + 1 \in 0 .. n - 1 /\ l + 1 \in 1 .. n /\ l + 1 = r + 1 + 1
  BY <1>1, <1>3, <1>8
<1> QED BY <1>4, <1>9, <1>11, <1>13, <1>14, <1>15 DEF Goal, Places

LEMMA Descended ==
    ASSUME NEW n \in Nat, NEW d, NEW a, NEW p, NEW b, NEW c, NEW r, NEW l,
           Goal("descend", n, d, a, p, b, c, r, l)
    PROVE  IF c > 1 THEN Goal("descend", n, d, a, 2 * p, c, b - c - 1, r, l)
           ELSE Goal("build", n, d, a, 2 * p + 1, c, b - c - 1, r + 1, l + 1)
<1>1. /\ p \in Nat /\ p > 0 /\ Leonardo(b, c) /\ r \in 0 .. n - 1 /\ l = r + 1 /\ l \in 1 .. n
      /\ l < n /\ PartForest(d, n, a, p, b, c, r) /\ c # -1 /\ (b = 1 => p % 2 = 1)
  BY DEF Goal, Descending
<1>2. b \in Int /\ c \in Int /\ c >= 1 /\ (b = 1 \/ b - c - 1 >= 1) /\ b - c - 1 <= c
  BY <1>1, LeonardoIs
<1>3. PICK y \in Int, t \in Nat : y = b - c - 1 /\ b = c + y + 1 /\ t = 2 * p
  BY <1>1, <1>2
<1>4. Leonardo(c, y)
  BY <1>1, <1>2, <1>3, LeonardoIs
<1>5. PartForest(d, n, a, t, c, y, r)
  BY <1>1, <1>3, <1>4, PartForestDouble
<1>6. CASE c > 1
  <2>1. y # -1 /\ t > 0 /\ c # 1
    BY <1>1, <1>2, <1>3, <1>6, <1>4, LeonardoIs
  <2>2. Descending(n, d, a, t, c, y, r)
    BY <1>5, <2>1 DEF Descending
  <2> QED BY <1>1, <1>3, <1>4, <1>6, <2>2 DEF Goal, Places
<1>7. CASE ~(c > 1)
  <2>1. c = 1
    BY <1>2, <1>7
  <2>2. PICK u \in Nat, o \in Int : u = t + 1 /\ u % 2 = 1 /\ u - 1 = t /\ o = r + 1 /\ o - c = r
    BY <1>1, <1>3, <2>1
  <2>3. Below(d, a, o, c, y)
    BY <2>1 DEF Below
  <2>4. u % 4 = 1 => y # -1
    BY <1>1, <1>2, <1>3, <2>1, <2>2
  <2>5. Building(n, d, a, u, c, y, o)
    BY <1>5, <2>2, <2>3, <2>4 DEF Building
  <2>6. o \in 0 .. n - 1 /\ l + 1 \in 1 .. n /\ l + 1 = o + 1
    BY <1>1, <2>2
  <2> QED BY <1>3, <1>4, <1>7, <2>2, <2>5, <2>6 DEF Goal, Places
<1> QED BY <1>6, <1>7

-----------------------------------------------------------------------------
(* The trees are taken apart *)

LEMMA TakingIs ==
    ASSUME NEW n, NEW d, NEW a, NEW p, NEW b, NEW c, NEW r, NEW l,
           Goal("take", n, d, a, p, b, c, r, l)
    PROVE  /\ p \in Nat /\ p % 2 = 1 /\ b \in Int /\ b >= 1 /\ c \in Int /\ Leonardo(b, c)
           /\ r \in 0 .. n - 1 /\ l = r + 1 /\ l \in 1 .. n /\ r >= b - 1
           /\ Tree(d, a, r, b, c) /\ Forest(d, a, p - 1, b, c, r - b)
           /\ Forest(d, a, p, b, c, r) /\ InPlace(n, d, a, l)
<1>1. /\ p \in Nat /\ p % 2 = 1 /\ Leonardo(b, c) /\ r \in 0 .. n - 1 /\ l = r + 1 /\ l \in 1 .. n
      /\ Forest(d, a, p, b, c, r) /\ InPlace(n, d, a, l)
  BY DEF Goal
<1>2. b \in Int /\ b >= 1 /\ c \in Int
  BY <1>1, LeonardoLeast
<1>3. Forested(d, a, p, b, c, r)
  BY <1>1, ForestIs
<1>4. r >= b - 1 /\ Tree(d, a, r, b, c) /\ Forest(d, a, p - 1, b, c, r - b)
  BY <1>1, <1>3 DEF Forested
<1> QED BY <1>1, <1>2, <1>4

LEMMA TakesAll ==
    ASSUME NEW n \in Nat, NEW d, NEW a, NEW p, NEW b, NEW c, NEW r, NEW l,
           Goal("take", n, d, a, p, b, c, r, l), l <= 1
    PROVE  \A x, y \in 0 .. n - 1 : x < y => Ordered(d, a[x], a[y])
<1>1. l \in 1 .. n /\ InPlace(n, d, a, l)
  BY TakingIs
<1> QED BY <1>1 DEF InPlace

LEMMA TakesOne ==
    ASSUME NEW n \in Nat, NEW d, NEW a \in Arrays(n), NEW p, NEW b, NEW c, NEW r, NEW l,
           Goal("take", n, d, a, p, b, c, r, l), l > 1, b = 1
    PROVE  Goal("shift", n, d, a, p - 1, b, c, r - 1, l - 1)
<1>1. /\ p \in Nat /\ p % 2 = 1 /\ Leonardo(b, c)
      /\ r \in 0 .. n - 1 /\ l = r + 1 /\ l \in 1 .. n
      /\ Forest(d, a, p - 1, b, c, r - b) /\ Forest(d, a, p, b, c, r) /\ InPlace(n, d, a, l)
  BY TakingIs
<1>2. PICK t \in Nat, s \in Int, u \in Int : t = p - 1 /\ s = r - 1 /\ s = r - b /\ u = l - 1
  BY <1>1
<1>3. s \in 0 .. n - 1 /\ u = s + 1 /\ u \in 1 .. n /\ u = r
  BY <1>1, <1>2
<1>4. Forest(d, a, t, b, c, s)
  BY <1>1, <1>2
<1>5. t > 0
  <2>1. t = 0 => s = -1
    <3>1. Forested(d, a, t, b, c, s)
      BY <1>4, ForestIs
    <3> QED BY <3>1 DEF Forested
  <2>2. t = 0 \/ t > 0
    OBVIOUS
  <2> QED BY <1>3, <2>1, <2>2
<1>6. \A k \in 0 .. r : Ordered(d, a[k], a[r])
  <2>1. \A k \in 0 .. r : a[k] \in Int
    BY <1>1 DEF Arrays
  <2>2. p > 0
    BY <1>1
  <2> QED BY <1>1, <2>1, <2>2, ForestTop
<1>7. InPlace(n, d, a, u)
  <2>1. ASSUME NEW x \in 0 .. n - 1, NEW y \in 0 .. n - 1, x < y, y >= u
        PROVE  Ordered(d, a[x], a[y])
    <3>1. CASE y = r
      BY <1>1, <1>6, <2>1, <3>1
    <3>2. CASE y # r
      <4>1. y >= l
        BY <1>1, <1>3, <2>1, <3>2
      <4> QED BY <1>1, <2>1, <4>1 DEF InPlace
    <3> QED BY <3>1, <3>2
  <2> QED BY <2>1 DEF InPlace
<1> QED BY <1>1, <1>2, <1>3, <1>4, <1>5, <1>7 DEF Goal, Places

LEMMA Shifted ==
    ASSUME NEW n \in Nat, NEW d, NEW a, NEW p, NEW b, NEW c, NEW r, NEW l,
           Goal("shift", n, d, a, p, b, c, r, l)
    PROVE  IF p % 2 = 0 THEN Goal("shift", n, d, a, p \div 2, b + c + 1, b, r, l)
           ELSE Goal("take", n, d, a, p, b, c, r, l)
<1>1. /\ p \in Nat /\ p > 0 /\ Leonardo(b, c) /\ r \in 0 .. n - 1 /\ l \in 1 .. n /\ l = r + 1
      /\ Forest(d, a, p, b, c, r) /\ InPlace(n, d, a, l)
  BY DEF Goal
<1>2. CASE p % 2 = 0
  <2>1. PICK m \in Nat : m = p \div 2 /\ p = 2 * m /\ m > 0
    BY <1>1, <1>2
  <2>2. Forest(d, a, m, b + c + 1, b, r) /\ Leonardo(b + c + 1, b)
    BY <1>1, <2>1, ForestDouble, LeonardoIs
  <2> QED BY <1>1, <1>2, <2>1, <2>2 DEF Goal, Places
<1>3. CASE p % 2 # 0
  <2>1. p % 2 = 1
    BY <1>1, <1>3
  <2> QED BY <1>1, <1>3, <2>1 DEF Goal, Places
<1> QED BY <1>2, <1>3

\* The first of the two trees below the last root follows the forest.  m is the array
\* when the two roots have been exchanged.
LEMMA TakesFirst ==
    ASSUME NEW n \in Nat, NEW d, NEW a \in Arrays(n), NEW p, NEW b, NEW c, NEW r, NEW l,
           Goal("take", n, d, a, p, b, c, r, l), b > 1,
           NEW t, NEW o, t = p - 1, o = r - b + c
    PROVE  /\ o \in 0 .. n - 1 /\ l - 1 \in 1 .. n /\ (t > 0 => o - c \in 0 .. n - 1) /\ t \in Nat
           /\ (t > 0 => Ordered(d, a[o - c], a[o])) => Goal("second", n, d, a, t, b, c, o, l - 1)
           /\ \A m \in Arrays(n) : t > 0 /\ Swapped(n, m, a, o, o - c) /\ Ordered(d, a[o], a[o - c])
                => Trinkling(n, d, Aim("second", n, d, t, b, c, o, l - 1), m, t, o - c, b, c)
<1>1. /\ p \in Nat /\ p % 2 = 1 /\ b \in Int /\ c \in Int /\ Leonardo(b, c)
      /\ r \in 0 .. n - 1 /\ l = r + 1 /\ l \in 1 .. n /\ r >= b - 1
      /\ Tree(d, a, r, b, c) /\ Forest(d, a, p - 1, b, c, r - b) /\ InPlace(n, d, a, l)
      /\ Forest(d, a, p, b, c, r)
  BY TakingIs
<1>2. c >= 1 /\ b - c - 1 \in 1 .. c
  <2>1. Leonardo(b, c)
    BY <1>1
  <2> QED BY <2>1, LeonardoIs
<1>0. r - b \in Int /\ b - c - 1 \in Int /\ 2 * c - b \in Int /\ l - 1 \in Int
  BY <1>1
<1>3. PICK h \in Int, y \in Int, z \in Int, u \in Int :
         h = r - b /\ y = b - c - 1 /\ z = 2 * c - b /\ u = l - 1
  BY <1>0
<1>4. /\ o \in Int /\ o = h + c /\ o - c = h /\ t \in Nat /\ u = r /\ u \in 1 .. n
      /\ r - 1 = o + y /\ o \in 0 .. n - 1 /\ u = o + b - c /\ o < u
      /\ h + c < n
  BY <1>1, <1>2, <1>3
<1>5. Forest(d, a, t, b, c, h) /\ Tree(d, a, o, c, y) /\ Tree(d, a, o + y, y, z)
  <2>1. Below(d, a, r, b, c)
    BY <1>1, TreeIs
  <2>2. Tree(d, a, r - 1, b - c - 1, 2 * c - b) /\ Tree(d, a, r - b + c, c, b - c - 1)
    BY <2>1 DEF Below
  <2> QED BY <1>1, <1>3, <1>4, <2>2
<1>6. t > 0 => h \in 0 .. n - 1
  <2>1. t > 0 => h >= 0
    BY <1>5, ForestIs DEF Forested
  <2> QED BY <1>1, <1>3, <2>1
<1>7. InPlace(n, d, a, u)
  <2>1. \A k \in 0 .. r : Ordered(d, a[k], a[r])
    <3>1. \A k \in 0 .. r : a[k] \in Int
      BY <1>1 DEF Arrays
    <3>2. p > 0
      BY <1>1
    <3> QED BY <1>1, <3>1, <3>2, ForestTop
  <2>2. ASSUME NEW x \in 0 .. n - 1, NEW w \in 0 .. n - 1, x < w, w >= u
        PROVE  Ordered(d, a[x], a[w])
    <3>1. CASE w = r
      BY <1>1, <2>1, <2>2, <3>1
    <3>2. CASE w # r
      <4>1. w >= l
        BY <1>1, <1>4, <2>2, <3>2
      <4> QED BY <1>1, <2>2, <4>1 DEF InPlace
    <3> QED BY <3>1, <3>2
  <2> QED BY <2>2 DEF InPlace
<1>8. ASSUME NEW e, Forest(d, e, 2 * t + 1, c, y, o), Tree(d, e, o + y, y, z), InPlace(n, d, e, u)
      PROVE  Goal("second", n, d, e, t, b, c, o, u)
  <2>1. TakingSecond(n, d, e, t, b, c, o)
    BY <1>3, <1>8 DEF TakingSecond
  <2> QED BY <1>1, <1>4, <1>8, <2>1 DEF Goal, Places
<1>9. ASSUME t > 0 => Ordered(d, a[o - c], a[o]) PROVE Goal("second", n, d, a, t, b, c, o, u)
  <2>1. Forest(d, a, 2 * t + 1, c, y, o)
    BY <1>2, <1>3, <1>4, <1>5, <1>9, RootStays
  <2> QED BY <1>5, <1>7, <1>8, <2>1
<1>10. ASSUME NEW m \in Arrays(n), t > 0, Swapped(n, m, a, o, o - c), Ordered(d, a[o], a[o - c])
       PROVE  Trinkling(n, d, Aim("second", n, d, t, b, c, o, u), m, t, h, b, c)
  <2>1. /\ But(d, m, t, b, c, h)
        /\ \A e \in Arrays(n) : Rearranged(n, e, m, 0, h) /\ Forest(d, e, t, b, c, h)
             => /\ Rearranged(n, e, a, 0, o) /\ Forest(d, e, 2 * t + 1, c, y, o)
    <3>1. Tree(d, a, h + c, c, b - c - 1) /\ Swapped(n, m, a, h + c, h) /\ Ordered(d, a[h + c], a[h])
      BY <1>3, <1>4, <1>5, <1>10
    <3>2. /\ But(d, m, t, b, c, h)
          /\ \A e \in Arrays(n) : Rearranged(n, e, m, 0, h) /\ Forest(d, e, t, b, c, h)
               => /\ Rearranged(n, e, a, 0, h + c) /\ Forest(d, e, 2 * t + 1, c, b - c - 1, h + c)
      BY <1>2, <1>4, <1>5, <1>10, <3>1, RootGoes
    <3> QED BY <1>3, <1>4, <3>2
  <2>2. ASSUME NEW e \in Arrays(n), Rearranged(n, e, m, 0, h), Forest(d, e, t, b, c, h)
        PROVE  e \in Aim("second", n, d, t, b, c, o, u)
    <3>1. Rearranged(n, e, a, 0, o) /\ Forest(d, e, 2 * t + 1, c, y, o)
      BY <2>1, <2>2
    <3>2. InPlace(n, d, e, u)
      <4>1. PICK lo \in Int : lo = 0
        OBVIOUS
      <4> QED BY <1>4, <1>7, <3>1, <4>1, LastRearranged
    <3>3. Tree(d, e, o + y, y, z)
      <4>1. PICK s \in Int : s = o + y
        BY <1>4
      <4>2. \A k \in s - y + 1 .. s : e[k] = a[k]
        <5>1. \A k \in s - y + 1 .. s : k \in 0 .. n - 1 /\ k > o
          BY <1>1, <1>4, <4>1
        <5> QED BY <3>1, <5>1 DEF Rearranged
      <4> QED BY <1>5, <4>1, <4>2, TreeFrame
    <3> QED BY <1>8, <3>1, <3>2, <3>3 DEF Aim
  <2>3. h \in 0 .. n - 1
    BY <1>6, <1>10
  <2> QED BY <1>1, <1>4, <1>10, <2>1, <2>2, <2>3 DEF Trinkling
<1> QED BY <1>3, <1>4, <1>6, <1>9, <1>10

\* The second one follows it.
LEMMA TakesSecond ==
    ASSUME NEW n \in Nat, NEW d, NEW a \in Arrays(n), NEW p, NEW b, NEW c, NEW r, NEW l,
           Goal("second", n, d, a, p, b, c, r, l),
           NEW t, NEW y, NEW o, t = 2 * p + 1, y = b - c - 1, o = r + y
    PROVE  /\ o \in 0 .. n - 1 /\ o - y \in 0 .. n - 1
           /\ Ordered(d, a[o - y], a[o]) => Goal("taken", n, d, a, t, c, y, o, l)
           /\ \A m \in Arrays(n) : Swapped(n, m, a, o, o - y) /\ Ordered(d, a[o], a[o - y])
                => Trinkling(n, d, Aim("taken", n, d, t, c, y, o, l), m, t, o - y, c, y)
<1>1. /\ p \in Nat /\ Leonardo(b, c) /\ r \in 0 .. n - 1 /\ l \in 1 .. n /\ l = r + b - c
      /\ b > 1 /\ Forest(d, a, 2 * p + 1, c, b - c - 1, r) /\ InPlace(n, d, a, l)
      /\ Tree(d, a, r + (b - c - 1), b - c - 1, 2 * c - b)
  BY DEF Goal, TakingSecond
<1>2. b \in Int /\ c \in Int /\ c >= 1 /\ b - c - 1 \in 1 .. c /\ Leonardo(c, b - c - 1)
  BY <1>1, LeonardoIs
<1>3. /\ t \in Nat /\ t > 0 /\ y \in Int /\ y >= 1 /\ o \in 0 .. n - 1 /\ o - y = r /\ l = o + 1
      /\ r + y = o /\ Leonardo(c, y) /\ o < l /\ r + y < n
  BY <1>1, <1>2
<1>4. PICK z \in Int : z = c - y - 1 /\ z = 2 * c - b
  <2>1. c - y - 1 \in Int /\ c - y - 1 = 2 * c - b
    BY <1>2
  <2> QED BY <2>1
<1>5. Forest(d, a, t, c, y, r) /\ Tree(d, a, o, y, z)
  BY <1>1, <1>3, <1>4
<1>6. ASSUME NEW e, Forest(d, e, 2 * t + 1, y, z, o), InPlace(n, d, e, l)
      PROVE  Goal("taken", n, d, e, t, c, y, o, l)
  BY <1>1, <1>3, <1>4, <1>6 DEF Goal, Places
<1>7. ASSUME Ordered(d, a[o - y], a[o]) PROVE Goal("taken", n, d, a, t, c, y, o, l)
  <2>1. Forest(d, a, 2 * t + 1, y, z, o)
    BY <1>3, <1>4, <1>5, <1>7, RootStays
  <2> QED BY <1>1, <1>6, <2>1
<1>8. ASSUME NEW m \in Arrays(n), Swapped(n, m, a, o, o - y), Ordered(d, a[o], a[o - y])
      PROVE  Trinkling(n, d, Aim("taken", n, d, t, c, y, o, l), m, t, r, c, y)
  <2>1. /\ But(d, m, t, c, y, r)
        /\ \A e \in Arrays(n) : Rearranged(n, e, m, 0, r) /\ Forest(d, e, t, c, y, r)
             => /\ Rearranged(n, e, a, 0, o) /\ Forest(d, e, 2 * t + 1, y, z, o)
    <3>1. Tree(d, a, r + y, y, c - y - 1) /\ Swapped(n, m, a, r + y, r) /\ Ordered(d, a[r + y], a[r])
      BY <1>3, <1>4, <1>5, <1>8
    <3>2. /\ But(d, m, t, c, y, r)
          /\ \A e \in Arrays(n) : Rearranged(n, e, m, 0, r) /\ Forest(d, e, t, c, y, r)
               => /\ Rearranged(n, e, a, 0, r + y) /\ Forest(d, e, 2 * t + 1, y, c - y - 1, r + y)
      BY <1>3, <1>5, <1>8, <3>1, RootGoes
    <3> QED BY <1>3, <1>4, <3>2
  <2>2. ASSUME NEW e \in Arrays(n), Rearranged(n, e, m, 0, r), Forest(d, e, t, c, y, r)
        PROVE  e \in Aim("taken", n, d, t, c, y, o, l)
    <3>1. Rearranged(n, e, a, 0, o) /\ Forest(d, e, 2 * t + 1, y, z, o)
      BY <2>1, <2>2
    <3>2. InPlace(n, d, e, l)
      <4>1. PICK lo \in Int : lo = 0
        OBVIOUS
      <4> QED BY <1>1, <1>3, <3>1, <4>1, LastRearranged
    <3> QED BY <1>6, <3>1, <3>2 DEF Aim
  <2> QED BY <1>1, <1>3, <2>1, <2>2 DEF Trinkling
<1> QED BY <1>1, <1>3, <1>7, <1>8

LEMMA TakenBoth ==
    ASSUME NEW n, NEW d, NEW a, NEW p, NEW b, NEW c, NEW r, NEW l,
           Goal("taken", n, d, a, p, b, c, r, l)
    PROVE  Goal("take", n, d, a, 2 * p + 1, c, b - c - 1, r, l)
<1>1. /\ p \in Nat /\ Leonardo(b, c) /\ r \in 0 .. n - 1 /\ l \in 1 .. n /\ l = r + 1 /\ c >= 1
      /\ Forest(d, a, 2 * p + 1, c, b - c - 1, r) /\ InPlace(n, d, a, l)
  BY DEF Goal
<1>2. Leonardo(c, b - c - 1) /\ 2 * p + 1 \in Nat /\ (2 * p + 1) % 2 = 1
  BY <1>1, LeonardoIs
<1> QED BY <1>1, <1>2 DEF Goal, Places

-----------------------------------------------------------------------------
(* The array of a call, and its steps *)

\* The array with held in its place.
Whole == IF at \in {"sift", "trinkle"} THEN [nums EXCEPT ![hole] = held] ELSE nums

\* Where a call is in its loops: p is what is left of the trees.
Loops(place, n, d, S, a, p, h, b, c) ==
    /\ place = "sift" => Sifting(n, d, S, a, h, b, c)
    /\ place = "trinkle" => p \in Nat /\ IF p = 0 THEN Sifting(n, d, S, a, h, b, c)
                                         ELSE Trinkling(n, d, S, a, p, h, b, c)

SmoothInv ==
    /\ at \in {"idle", "sort", "sift", "trinkle", "sorted"} \cup Places
    /\ at # "idle" => Given /\ cnt > 0 /\ SameNums(Whole)
    /\ at \in Places => Goal(at, cnt, rev, nums, trees, big, small, root, seen)
    /\ at \in {"sift", "trinkle"} =>
          /\ held \in Nums /\ hole \in 0 .. cnt - 1
          /\ Loops(at, cnt, rev, Aim(then, cnt, rev, trees, big, small, root, seen), Whole,
                   ttrees, hole, tbig, tsmall)
    /\ at = "sorted" => InOrder(nums, 0, cnt)

LEMMA PrecedesIs ==
    ASSUME NEW x \in Nat, NEW y \in Nat
    PROVE  /\ Precedes(x, y) => Ordered(rev, x, y)
           /\ ~Precedes(x, y) => Ordered(rev, y, x)
           /\ Fits(x, y) <=> Ordered(rev, x, y)
  BY DEF Precedes, Fits, Ordered

LEMMA GivenIs ==
    ASSUME Given
    PROVE  /\ cnt \in Nat /\ nums \in Arrays(cnt)
           /\ \A k \in 0 .. cnt - 1 : nums[k] \in Nums /\ nums[k] \in Nat
<1>1. cnt \in Nat /\ nums \in [0 .. cnt - 1 -> Nums]
  BY DEF Given
<1>2. \A k \in 0 .. cnt - 1 : nums[k] \in Nums /\ nums[k] \in Nat
  BY <1>1, NumsAssumption
<1>3. nums \in [0 .. cnt - 1 -> Nat]
  BY <1>1, <1>2
<1> QED BY <1>1, <1>2, <1>3 DEF Arrays

\* Smooth sort stands at a place, the array as it was.
LEMMA Stands ==
    ASSUME Given, cnt > 0, SameNums(nums), UNCHANGED <<drawn, cnt, rev, nums>>, at' \in Places,
           Goal(at', cnt, rev, nums, trees', big', small', root', seen')
    PROVE  SmoothInv'
<1>1. Given' /\ (cnt > 0)' /\ SameNums(nums)'
  BY DEF Given, SameNums, Count
<1>2. at' \notin {"idle", "sort", "sift", "trinkle", "sorted"}
  BY DEF Places
<1>3. Whole' = nums'
  BY <1>2 DEF Whole
<1>4. SameNums(Whole)'
  BY <1>1, <1>3 DEF SameNums, Count
<1> QED BY <1>1, <1>2, <1>4 DEF SmoothInv

\* A call is made, or goes on.
LEMMA Calls ==
    ASSUME Given, cnt > 0, UNCHANGED <<drawn, cnt, rev>>, nums' \in [0 .. cnt - 1 -> Nums],
           held' \in Nums, hole' \in 0 .. cnt - 1, at' \in {"sift", "trinkle"},
           NEW m, m = [nums' EXCEPT ![hole'] = held'], SameNums(m),
           Loops(at', cnt, rev, Aim(then', cnt, rev, trees', big', small', root', seen'), m,
                 ttrees', hole', tbig', tsmall')
    PROVE  SmoothInv'
<1>1. Given' /\ (cnt > 0)'
  BY DEF Given
<1>2. at' \notin Places /\ at' \notin {"idle", "sort", "sorted"}
  BY DEF Places
<1>3. Whole' = m
  BY DEF Whole
<1>4. SameNums(Whole)'
  BY <1>3 DEF SameNums, Count
<1>5. Loops(at, cnt, rev, Aim(then, cnt, rev, trees, big, small, root, seen), Whole,
            ttrees, hole, tbig, tsmall)'
  BY <1>3
<1> QED BY <1>1, <1>2, <1>4, <1>5 DEF SmoothInv

\* held and what is at g change places.
LEMMA HoleMoves ==
    ASSUME Given, held \in Nums, hole \in 0 .. cnt - 1, NEW g \in 0 .. cnt - 1, g # hole,
           NEW a, a = [nums EXCEPT ![hole] = held],
           NEW e, e = [nums EXCEPT ![hole] = nums[g]], NEW m, m = [e EXCEPT ![g] = held]
    PROVE  /\ e \in [0 .. cnt - 1 -> Nums] /\ a \in Arrays(cnt) /\ m \in Arrays(cnt)
           /\ Swapped(cnt, m, a, hole, g) /\ (SameNums(a) => SameNums(m))
<1>1. /\ cnt \in Nat /\ nums \in [0 .. cnt - 1 -> Nums] /\ nums[g] \in Nums /\ nums \in Arrays(cnt)
      /\ nums[g] \in Nat /\ held \in Nat
  BY GivenIs, NumsAssumption DEF Given
<1>2. e \in [0 .. cnt - 1 -> Nums]
  BY <1>1
<1>3. /\ a[hole] = held /\ a[g] = nums[g] /\ m[g] = held /\ m[hole] = nums[g]
      /\ \A k \in 0 .. cnt - 1 : k # hole /\ k # g => m[k] = a[k]
  BY <1>1
<1>4. a \in Arrays(cnt) /\ m \in Arrays(cnt)
  BY <1>1 DEF Arrays
<1>5. Swapped(cnt, m, a, hole, g)
  BY <1>3 DEF Swapped
<1>6. SameNums(a) => SameNums(m)
  <2>1. PICK h \in 0 .. cnt - 1 : h = hole
    OBVIOUS
  <2>2. \A k \in (0 .. cnt - 1) \ {h, g} : a[k] = m[k]
    BY <1>3, <2>1
  <2> QED BY <1>1, <1>3, <2>1, <2>2, KeptSwap
<1> QED BY <1>2, <1>4, <1>5, <1>6

\* The one of the two roots below the hole that is greater.
LEMMA GreaterIs ==
    ASSUME Given, Leonardo(tbig, tsmall), tbig > 1, hole \in 0 .. cnt - 1, hole - tbig + 1 >= 0,
           NEW a, a = [nums EXCEPT ![hole] = held],
           NEW x, NEW y, <<x, y>> = Down(HalfOf[1], HalfOf[2])
    PROVE  /\ Greater \in 0 .. cnt - 1 /\ Greater # hole /\ a[Greater] = nums[Greater]
           /\ nums[Greater] \in Nat
           /\ Largest(rev, a, hole, tbig, tsmall, Greater, x, y)
<1>1. /\ tbig \in Int /\ tsmall \in Int /\ tbig >= 3 /\ tsmall >= 1
      /\ tbig - tsmall - 1 \in 1 .. tsmall
  BY LeonardoIs
<1>2. PICK s : s = hole - tbig + tsmall
  OBVIOUS
<1>3. /\ s \in 0 .. cnt - 1 /\ hole - 1 \in 0 .. cnt - 1 /\ s # hole /\ hole - 1 # hole
      /\ cnt \in Nat
  BY <1>1, <1>2, GivenIs
<1>4. /\ nums[s] \in Nat /\ nums[hole - 1] \in Nat /\ a[s] = nums[s] /\ a[hole - 1] = nums[hole - 1]
  BY <1>3, GivenIs DEF Given
<1>5. Second = s
  BY <1>2 DEF Second
<1>6. CASE LastIsGreater
  <2>1. Greater = hole - 1 /\ HalfOf = <<tsmall, tbig - tsmall - 1>>
    BY <1>6 DEF Greater, HalfOf, Down
  <2>2. x = tbig - tsmall - 1 /\ y = 2 * tsmall - tbig
    BY <1>1, <2>1 DEF Down
  <2>3. Ordered(rev, nums[s], nums[hole - 1])
    <3>1. ~Precedes(nums[hole - 1], nums[s])
      BY <1>5, <1>6 DEF LastIsGreater
    <3> QED BY <1>4, <3>1, PrecedesIs
  <2>4. Ordered(rev, a[hole - 1], a[hole - 1])
    BY <1>4, OrderedIs
  <2> QED BY <1>2, <1>3, <1>4, <2>1, <2>2, <2>3, <2>4 DEF Largest
<1>7. CASE ~LastIsGreater
  <2>1. Greater = s /\ HalfOf = <<tbig, tsmall>>
    BY <1>5, <1>7 DEF Greater, HalfOf
  <2>2. x = tsmall /\ y = tbig - tsmall - 1
    BY <2>1 DEF Down
  <2>3. Ordered(rev, nums[hole - 1], nums[s])
    <3>1. Precedes(nums[hole - 1], nums[s])
      BY <1>5, <1>7 DEF LastIsGreater
    <3> QED BY <1>4, <3>1, PrecedesIs
  <2>4. Ordered(rev, a[s], a[s])
    BY <1>4, OrderedIs
  <2> QED BY <1>2, <1>3, <1>4, <2>1, <2>2, <2>3, <2>4 DEF Largest
<1> QED BY <1>6, <1>7

-----------------------------------------------------------------------------
(* The steps of smooth sort *)

LEMMA AtPlace ==
    ASSUME SmoothInv, at \in Places
    PROVE  /\ Given /\ cnt \in Nat /\ cnt > 0 /\ SameNums(nums) /\ nums \in Arrays(cnt)
           /\ Goal(at, cnt, rev, nums, trees, big, small, root, seen)
           /\ root \in 0 .. cnt - 1 /\ trees \in Nat /\ big \in Int /\ small \in Int
           /\ seen \in 1 .. cnt
<1>1. at \notin {"idle", "sift", "trinkle"}
  BY DEF Places
<1>2. Given /\ cnt > 0 /\ SameNums(nums) /\ Goal(at, cnt, rev, nums, trees, big, small, root, seen)
  BY <1>1 DEF SmoothInv, Whole
<1>3. root \in 0 .. cnt - 1 /\ trees \in Nat /\ Leonardo(big, small) /\ seen \in 1 .. cnt
  BY <1>2 DEF Goal
<1>4. big \in Int /\ small \in Int
  BY <1>3, LeonardoLeast
<1> QED BY <1>2, <1>3, <1>4, GivenIs

LEMMA SiftCalls ==
    ASSUME SmoothInv, at \in Places, NEW place, CallSift(place), UNCHANGED <<argvars, forestvars>>,
           Sifting(cnt, rev, Aim(place, cnt, rev, trees, big, small, root, seen), nums, root, big, small)
    PROVE  SmoothInv'
<1>1. /\ Given /\ cnt > 0 /\ SameNums(nums) /\ root \in 0 .. cnt - 1
      /\ nums[root] \in Nums /\ nums \in [0 .. cnt - 1 -> Nums]
  BY AtPlace, GivenIs DEF Given
<1>2. /\ at' = "sift" /\ then' = place /\ hole' = root /\ held' = nums[root] /\ tbig' = big
      /\ tsmall' = small /\ nums' = nums /\ UNCHANGED <<drawn, cnt, rev, trees, big, small, root, seen>>
  BY DEF CallSift, argvars, forestvars
<1>3. PICK m : m = [nums' EXCEPT ![hole'] = held']
  OBVIOUS
<1>4. m = nums
  BY <1>1, <1>2, <1>3
<1>5. Loops(at', cnt, rev, Aim(then', cnt, rev, trees', big', small', root', seen'), m,
            ttrees', hole', tbig', tsmall')
  BY <1>2, <1>4 DEF Loops
<1> QED BY <1>1, <1>2, <1>3, <1>4, <1>5, Calls

LEMMA TrinkleCalls ==
    ASSUME SmoothInv, at \in Places, NEW place, CallTrinkle(place), UNCHANGED <<argvars, forestvars>>,
           Trinkling(cnt, rev, Aim(place, cnt, rev, trees, big, small, root, seen), nums, trees, root,
                     big, small)
    PROVE  SmoothInv'
<1>1. /\ Given /\ cnt > 0 /\ SameNums(nums) /\ root \in 0 .. cnt - 1
      /\ nums[root] \in Nums /\ nums \in [0 .. cnt - 1 -> Nums]
  BY AtPlace, GivenIs DEF Given
<1>2. /\ at' = "trinkle" /\ then' = place /\ hole' = root /\ held' = nums[root] /\ tbig' = big
      /\ tsmall' = small /\ nums' = nums /\ ttrees' = trees
      /\ UNCHANGED <<drawn, cnt, rev, trees, big, small, root, seen>>
  BY DEF CallTrinkle, argvars, forestvars
<1>3. PICK m : m = [nums' EXCEPT ![hole'] = held']
  OBVIOUS
<1>4. m = nums
  BY <1>1, <1>2, <1>3
<1>5. trees \in Nat /\ trees # 0
  BY DEF Trinkling
<1>6. Loops(at', cnt, rev, Aim(then', cnt, rev, trees', big', small', root', seen'), m,
            ttrees', hole', tbig', tsmall')
  BY <1>2, <1>4, <1>5 DEF Loops
<1> QED BY <1>1, <1>2, <1>3, <1>4, <1>6, Calls

LEMMA SmoothSets == ASSUME SmoothInv, smoothsort64 PROVE SmoothInv'
<1>1. /\ at = "sort" /\ at' = "build" /\ trees' = 1 /\ big' = 1 /\ small' = 1 /\ root' = 0 /\ seen' = 1
      /\ UNCHANGED <<drawn, cnt, rev, nums>>
  BY DEF smoothsort64, argvars
<1>2. Given /\ cnt > 0 /\ SameNums(nums) /\ cnt \in Nat
  BY <1>1 DEF SmoothInv, Whole, Given
<1>3. PICK n \in Nat : n = cnt /\ n > 0
  BY <1>2
<1>4. Goal("build", n, rev, nums, 1, 1, 1, 0, 1)
  BY <1>3, SmoothBegins
<1>5. at' \in Places
  BY <1>1 DEF Places
<1> QED BY <1>1, <1>2, <1>3, <1>4, <1>5, Stands

LEMMA SmoothBuilds == ASSUME SmoothInv, BuildJoins \/ BuildAdds \/ BuildEnds PROVE SmoothInv'
<1>1. at = "build" /\ at \in Places /\ UNCHANGED <<argvars, forestvars>>
  BY DEF BuildJoins, BuildAdds, BuildEnds, Places
<1>2. /\ cnt \in Nat /\ Goal("build", cnt, rev, nums, trees, big, small, root, seen)
      /\ seen \in Int /\ small \in Int /\ nums \in Arrays(cnt)
  BY <1>1, AtPlace
<1>3. PICK n, d, a, p, b, c, r, l :
         /\ n = cnt /\ n \in Nat
         /\ d = rev /\ a = nums /\ p = trees /\ b = big /\ c = small /\ r = root /\ l = seen
         /\ Goal("build", n, d, a, p, b, c, r, l)
  BY <1>2
<1>4. CASE BuildJoins
  <2>1. l < n /\ p % 8 = 3 /\ CallSift("join")
    BY <1>3, <1>4 DEF BuildJoins
  <2>2. Sifting(n, d, Aim("join", n, d, p, b, c, r, l), a, r, b, c)
    BY <1>3, <2>1, BuildsJoined
  <2> QED BY <1>1, <1>3, <2>1, <2>2, SiftCalls
<1>5. CASE BuildAdds /\ l + c < n
  <2>1. p % 4 = 1 /\ CallSift("descend")
    BY <1>3, <1>5 DEF BuildAdds
  <2>2. Sifting(n, d, Aim("descend", n, d, p, b, c, r, l), a, r, b, c)
    BY <1>3, <1>5, <2>1, BuildsLater
  <2> QED BY <1>1, <1>3, <2>1, <2>2, SiftCalls
<1>6. CASE BuildAdds /\ ~(l + c < n)
  <2>1. p % 4 = 1 /\ l < n /\ CallTrinkle("descend")
    BY <1>3, <1>6 DEF BuildAdds
  <2>2. l + c >= n
    BY <1>2, <1>3, <1>6
  <2>3. Trinkling(n, d, Aim("descend", n, d, p, b, c, r, l), a, p, r, b, c)
    BY <1>3, <2>1, <2>2, BuildsNow
  <2> QED BY <1>1, <1>3, <2>1, <2>3, TrinkleCalls
<1>7. CASE BuildEnds
  <2>1. l >= n /\ CallTrinkle("take")
    BY <1>3, <1>7 DEF BuildEnds
  <2>2. Trinkling(n, d, Aim("take", n, d, p, b, c, r, l), a, p, r, b, c)
    BY <1>3, <2>1, BuildsLast
  <2> QED BY <1>1, <1>3, <2>1, <2>2, TrinkleCalls
<1> QED BY <1>4, <1>5, <1>6, <1>7

LEMMA SmoothGrows == ASSUME SmoothInv, Join \/ Descend PROVE SmoothInv'
<1>1. /\ at \in {"join", "descend"} /\ at \in Places /\ UNCHANGED <<drawn, cnt, rev, nums>>
  BY DEF Join, Descend, Places, argvars
<1>2. /\ Given /\ cnt > 0 /\ SameNums(nums) /\ cnt \in Nat
      /\ Goal(at, cnt, rev, nums, trees, big, small, root, seen)
  BY <1>1, AtPlace
<1>3. PICK n, d, a, p, b, c, r, l :
         /\ n = cnt /\ n \in Nat
         /\ d = rev /\ a = nums /\ p = trees /\ b = big /\ c = small /\ r = root /\ l = seen
         /\ Goal(at, n, d, a, p, b, c, r, l)
  BY <1>2
<1>4. CASE Join
  <2>1. /\ at = "join" /\ at' = "build" /\ trees' = (p + 1) \div 4
        /\ big' = b + (b + c + 1) + 1 /\ small' = b + c + 1 /\ seen' = l + 1 /\ root' = r + 1
    <3>1. LET sum == big + small + 1 IN big' = big + sum + 1 /\ small' = sum
      BY <1>4 DEF Join
    <3> QED BY <1>3, <1>4, <3>1 DEF Join
  <2>2. Goal("build", n, d, a, (p + 1) \div 4, b + (b + c + 1) + 1, b + c + 1, r + 1, l + 1)
    BY <1>3, <2>1, JoinedTree
  <2>3. at' \in Places
    BY <2>1 DEF Places
  <2> QED BY <1>1, <1>2, <1>3, <2>1, <2>2, <2>3, Stands
<1>5. CASE Descend
  <2>1. /\ at = "descend" /\ big' = c /\ small' = b - c - 1
        /\ IF c > 1 THEN trees' = 2 * p /\ at' = "descend" /\ seen' = l /\ root' = r
           ELSE at' = "build" /\ trees' = 2 * p + 1 /\ seen' = l + 1 /\ root' = r + 1
    BY <1>3, <1>5 DEF Descend, Down
  <2>2. IF c > 1 THEN Goal("descend", n, d, a, 2 * p, c, b - c - 1, r, l)
        ELSE Goal("build", n, d, a, 2 * p + 1, c, b - c - 1, r + 1, l + 1)
    BY <1>3, <2>1, Descended
  <2>3. at' \in Places
    BY <2>1 DEF Places
  <2>4. Goal(at', n, d, a, trees', big', small', root', seen')
    BY <2>1, <2>2
  <2> QED BY <1>1, <1>2, <1>3, <2>3, <2>4, Stands
<1> QED BY <1>4, <1>5

LEMMA SmoothTakes == ASSUME SmoothInv, TakeDone \/ TakeLeaf \/ TakeShifts \/ Taken PROVE SmoothInv'
<1>1. /\ at \in {"take", "shift", "taken"} /\ at \in Places /\ UNCHANGED <<drawn, cnt, rev, nums>>
  BY DEF TakeDone, TakeLeaf, TakeShifts, Taken, Places, argvars
<1>2. /\ Given /\ cnt > 0 /\ SameNums(nums) /\ cnt \in Nat /\ nums \in Arrays(cnt)
      /\ Goal(at, cnt, rev, nums, trees, big, small, root, seen)
  BY <1>1, AtPlace
<1>3. PICK n, d, a, p, b, c, r, l :
         /\ n = cnt /\ n \in Nat
         /\ d = rev /\ a = nums /\ p = trees /\ b = big /\ c = small /\ r = root /\ l = seen
         /\ Goal(at, n, d, a, p, b, c, r, l) /\ a \in Arrays(n)
  BY <1>2
<1>4. CASE TakeDone
  <2>1. at = "take" /\ l <= 1 /\ at' = "sorted"
    BY <1>3, <1>4 DEF TakeDone
  <2>2. \A x, y \in 0 .. n - 1 : x < y => Ordered(d, a[x], a[y])
    BY <1>3, <2>1, TakesAll
  <2>3. InOrder(nums, 0, cnt)
    <3>1. ASSUME NEW x \in 0 .. cnt - 1, NEW y \in 0 .. cnt - 1, x < y
          PROVE  Fits(nums[x], nums[y])
      <4>1. nums[x] \in Nat /\ nums[y] \in Nat
        BY <1>2, GivenIs
      <4>2. Ordered(rev, nums[x], nums[y])
        BY <1>3, <2>2, <3>1
      <4> QED BY <4>1, <4>2, PrecedesIs
    <3> QED BY <3>1 DEF InOrder
  <2>4. Given' /\ (cnt > 0)' /\ SameNums(Whole)' /\ InOrder(nums, 0, cnt)'
    <3>1. Whole' = nums
      BY <1>1, <2>1 DEF Whole
    <3> QED BY <1>1, <1>2, <2>3, <3>1 DEF Given, SameNums, Count, InOrder, Fits, Precedes
  <2>5. at' \notin Places /\ at' \notin {"sift", "trinkle"}
    BY <2>1 DEF Places
  <2> QED BY <2>1, <2>4, <2>5 DEF SmoothInv
<1>5. CASE TakeLeaf
  <2>1. /\ at = "take" /\ l > 1 /\ b = 1 /\ at' = "shift" /\ trees' = p - 1 /\ big' = b /\ small' = c
        /\ root' = r - 1 /\ seen' = l - 1
    BY <1>3, <1>5 DEF TakeLeaf
  <2>2. Goal("shift", n, d, a, p - 1, b, c, r - 1, l - 1)
    BY <1>3, <2>1, TakesOne
  <2>3. at' \in Places
    BY <2>1 DEF Places
  <2> QED BY <1>1, <1>2, <1>3, <2>1, <2>2, <2>3, Stands
<1>6. CASE TakeShifts
  <2>1. /\ at = "shift" /\ root' = r /\ seen' = l
        /\ IF p % 2 = 0 THEN trees' = p \div 2 /\ big' = b + c + 1 /\ small' = b /\ at' = "shift"
           ELSE at' = "take" /\ trees' = p /\ big' = b /\ small' = c
    BY <1>3, <1>6 DEF TakeShifts, Up
  <2>2. IF p % 2 = 0 THEN Goal("shift", n, d, a, p \div 2, b + c + 1, b, r, l)
        ELSE Goal("take", n, d, a, p, b, c, r, l)
    BY <1>3, <2>1, Shifted
  <2>3. at' \in Places
    BY <2>1 DEF Places
  <2>4. Goal(at', n, d, a, trees', big', small', root', seen')
    BY <2>1, <2>2
  <2> QED BY <1>1, <1>2, <1>3, <2>3, <2>4, Stands
<1>7. CASE Taken
  <2>1. /\ at = "taken" /\ at' = "take" /\ trees' = 2 * p + 1 /\ big' = c /\ small' = b - c - 1
        /\ root' = r /\ seen' = l
    BY <1>3, <1>7 DEF Taken, Down
  <2>2. Goal("take", n, d, a, 2 * p + 1, c, b - c - 1, r, l)
    BY <1>3, <2>1, TakenBoth
  <2>3. at' \in Places
    BY <2>1 DEF Places
  <2> QED BY <1>1, <1>2, <1>3, <2>1, <2>2, <2>3, Stands
<1> QED BY <1>4, <1>5, <1>6, <1>7

LEMMA SemiCalls ==
    ASSUME SmoothInv, at \in Places, UNCHANGED <<drawn, cnt, rev>>, NEW place \in Places,
           NEW p, NEW b, NEW c, NEW o \in 0 .. cnt - 1, NEW h \in 0 .. cnt - 1, h = o - c, h # o,
           p \in Nat, p > 0, semitrinkle(p, b, c, o, place),
           Ordered(rev, nums[h], nums[o])
              => Goal(place, cnt, rev, nums, trees', big', small', root', seen'),
           \A m \in Arrays(cnt) : Swapped(cnt, m, nums, o, h) /\ Ordered(rev, nums[o], nums[h])
              => Trinkling(cnt, rev, Aim(place, cnt, rev, trees', big', small', root', seen'),
                           m, p, h, b, c)
    PROVE  SmoothInv'
<1>1. /\ Given /\ cnt > 0 /\ SameNums(nums) /\ cnt \in Nat /\ nums \in [0 .. cnt - 1 -> Nums]
      /\ \A k \in 0 .. cnt - 1 : nums[k] \in Nums /\ nums[k] \in Nat
  BY AtPlace, GivenIs DEF Given
<1>2. CASE Precedes(nums[h], nums[o])
  <2>1. at' = place /\ nums' = nums
    BY <1>2 DEF semitrinkle
  <2>2. Ordered(rev, nums[h], nums[o])
    BY <1>1, <1>2, PrecedesIs
  <2> QED BY <1>1, <2>1, <2>2, Stands
<1>3. CASE ~Precedes(nums[h], nums[o])
  <2>1. /\ at' = "trinkle" /\ then' = place /\ hole' = h /\ held' = nums[o] /\ ttrees' = p
        /\ tbig' = b /\ tsmall' = c
    BY <1>3 DEF semitrinkle
  <2>2. nums' = [nums EXCEPT ![o] = nums[h], ![h] = nums[o]]
    BY <1>3 DEF semitrinkle
  <2>3. PICK m : m = [nums' EXCEPT ![hole'] = held']
    OBVIOUS
  <2>4. /\ nums' \in [0 .. cnt - 1 -> Nums] /\ m = nums' /\ m[o] = nums[h] /\ m[h] = nums[o]
        /\ \A k \in 0 .. cnt - 1 : k # o /\ k # h => m[k] = nums[k]
    BY <1>1, <2>1, <2>2, <2>3
  <2>5. m \in Arrays(cnt) /\ Swapped(cnt, m, nums, o, h)
    BY <2>4, NumsAssumption DEF Arrays, Swapped
  <2>6. SameNums(m)
    <3>1. \A k \in (0 .. cnt - 1) \ {o, h} : nums[k] = m[k]
      BY <2>4
    <3>2. PICK a : a = nums
      OBVIOUS
    <3> QED BY <1>1, <2>4, <3>1, <3>2, KeptSwap
  <2>7. Ordered(rev, nums[o], nums[h])
    BY <1>1, <1>3, PrecedesIs
  <2>8. Trinkling(cnt, rev, Aim(place, cnt, rev, trees', big', small', root', seen'), m, p, h, b, c)
    BY <2>5, <2>7
  <2>9. Loops(at', cnt, rev, Aim(then', cnt, rev, trees', big', small', root', seen'), m,
              ttrees', hole', tbig', tsmall')
    BY <2>1, <2>8 DEF Loops
  <2> QED BY <1>1, <2>1, <2>3, <2>4, <2>6, <2>9, Calls
<1> QED BY <1>2, <1>3

LEMMA SmoothTakesTwo == ASSUME SmoothInv, TakeFirst \/ TakeSecond PROVE SmoothInv'
<1>1. /\ at \in {"take", "second"} /\ at \in Places /\ UNCHANGED <<drawn, cnt, rev>>
  BY DEF TakeFirst, TakeSecond, Places, argvars
<1>2. /\ Given /\ cnt > 0 /\ SameNums(nums) /\ cnt \in Nat /\ nums \in Arrays(cnt)
      /\ Goal(at, cnt, rev, nums, trees, big, small, root, seen)
      /\ root \in 0 .. cnt - 1 /\ trees \in Nat /\ big \in Int /\ small \in Int
  BY <1>1, AtPlace
<1>3. PICK n, d, a, p, b, c, r, l :
         /\ n = cnt /\ n \in Nat
         /\ d = rev /\ a = nums /\ p = trees /\ b = big /\ c = small /\ r = root /\ l = seen
         /\ Goal(at, n, d, a, p, b, c, r, l) /\ a \in Arrays(n)
  BY <1>2
<1>4. CASE TakeFirst
  <2>1. /\ at = "take" /\ b > 1 /\ big' = b /\ small' = c /\ seen' = l - 1 /\ trees' = p - 1
        /\ root' = r - b + c
    BY <1>3, <1>4 DEF TakeFirst
  <2>2. IF p - 1 > 0 THEN semitrinkle(trees', b, c, root', "second")
        ELSE at' = "second" /\ nums' = nums
    BY <1>3, <1>4 DEF TakeFirst
  <2>3. PICK t, o, u : t = p - 1 /\ o = r - b + c /\ u = l - 1
    OBVIOUS
  <2>4. /\ o \in 0 .. n - 1 /\ (t > 0 => o - c \in 0 .. n - 1) /\ t \in Nat
        /\ (t > 0 => Ordered(d, a[o - c], a[o])) => Goal("second", n, d, a, t, b, c, o, u)
        /\ \A m \in Arrays(n) : t > 0 /\ Swapped(n, m, a, o, o - c) /\ Ordered(d, a[o], a[o - c])
             => Trinkling(n, d, Aim("second", n, d, t, b, c, o, u), m, t, o - c, b, c)
    BY <1>3, <2>1, <2>3, TakesFirst
  <2>5. "second" \in Places
    BY DEF Places
  <2>6. CASE t > 0
    <3>1. PICK h \in 0 .. n - 1 : h = o - c
      BY <2>4, <2>6
    <3>2. h # o
      <4>1. Leonardo(b, c)
        BY <1>3, <2>1, TakingIs
      <4>2. c >= 1 /\ c \in Int
        BY <2>1, <4>1, LeonardoMore
      <4> QED BY <2>4, <3>1, <4>2
    <3>3. semitrinkle(t, b, c, o, "second")
      BY <2>1, <2>2, <2>3, <2>6
    <3>4. Ordered(d, a[h], a[o]) => Goal("second", n, d, a, trees', big', small', root', seen')
      BY <2>1, <2>3, <2>4, <3>1
    <3>5. \A m \in Arrays(n) : Swapped(n, m, a, o, h) /\ Ordered(d, a[o], a[h])
             => Trinkling(n, d, Aim("second", n, d, trees', big', small', root', seen'), m, t, h, b, c)
      BY <2>1, <2>3, <2>4, <2>6, <3>1
    <3> QED BY <1>1, <1>3, <2>4, <2>5, <2>6, <3>1, <3>2, <3>3, <3>4, <3>5, SemiCalls
  <2>7. CASE ~(t > 0)
    <3>1. at' = "second" /\ nums' = nums
      BY <2>2, <2>3, <2>7
    <3>2. Goal("second", n, d, a, t, b, c, o, u)
      BY <2>4, <2>7
    <3> QED BY <1>1, <1>2, <1>3, <2>1, <2>3, <2>5, <3>1, <3>2, Stands
  <2> QED BY <2>6, <2>7
<1>5. CASE TakeSecond
  <2>1. PICK t, y, o : t = 2 * p + 1 /\ y = b - c - 1 /\ o = r + y
    OBVIOUS
  <2>2. /\ at = "second" /\ big' = c /\ small' = y /\ trees' = t /\ root' = o /\ seen' = l
        /\ semitrinkle(t, c, y, o, "taken")
    BY <1>3, <1>5, <2>1 DEF TakeSecond, Down
  <2>3. /\ o \in 0 .. n - 1 /\ o - y \in 0 .. n - 1
        /\ Ordered(d, a[o - y], a[o]) => Goal("taken", n, d, a, t, c, y, o, l)
        /\ \A m \in Arrays(n) : Swapped(n, m, a, o, o - y) /\ Ordered(d, a[o], a[o - y])
             => Trinkling(n, d, Aim("taken", n, d, t, c, y, o, l), m, t, o - y, c, y)
    <3>1. n \in Nat /\ a \in Arrays(n) /\ Goal("second", n, d, a, p, b, c, r, l)
      BY <1>3, <2>2
    <3> QED BY <2>1, <3>1, TakesSecond
  <2>4. "taken" \in Places
    BY DEF Places
  <2>5. PICK h \in 0 .. n - 1 : h = o - y
    BY <2>3
  <2>6. h # o /\ t \in Nat /\ t > 0
    <3>1. Leonardo(b, c) /\ b > 1
      BY <1>3, <2>2 DEF Goal, TakingSecond
    <3>2. b - c - 1 \in 1 .. c /\ b \in Int /\ c \in Int
      BY <3>1, LeonardoMore
    <3>3. y \in Int /\ y >= 1
      BY <2>1, <3>2
    <3> QED BY <1>2, <1>3, <2>1, <2>3, <2>5, <3>3
  <2>7. Ordered(d, a[h], a[o]) => Goal("taken", n, d, a, trees', big', small', root', seen')
    BY <2>2, <2>3, <2>5
  <2>8. \A m \in Arrays(n) : Swapped(n, m, a, o, h) /\ Ordered(d, a[o], a[h])
           => Trinkling(n, d, Aim("taken", n, d, trees', big', small', root', seen'), m, t, h, c, y)
    BY <2>2, <2>3, <2>5
  <2> QED BY <1>1, <1>3, <2>2, <2>3, <2>4, <2>5, <2>6, <2>7, <2>8, SemiCalls
<1> QED BY <1>4, <1>5

-----------------------------------------------------------------------------
(* The steps of a call *)

LEMMA InCall ==
    ASSUME SmoothInv, at \in {"sift", "trinkle"}
    PROVE  /\ Given /\ cnt \in Nat /\ cnt > 0 /\ held \in Nums /\ held \in Nat /\ hole \in 0 .. cnt - 1
           /\ nums \in [0 .. cnt - 1 -> Nums] /\ \A k \in 0 .. cnt - 1 : nums[k] \in Nat
           /\ Whole = [nums EXCEPT ![hole] = held] /\ SameNums(Whole) /\ Whole \in Arrays(cnt)
           /\ Whole[hole] = held /\ \A k \in 0 .. cnt - 1 : k # hole => Whole[k] = nums[k]
           /\ Loops(at, cnt, rev, Aim(then, cnt, rev, trees, big, small, root, seen), Whole,
                    ttrees, hole, tbig, tsmall)
<1>1. /\ Given /\ cnt > 0 /\ SameNums(Whole) /\ held \in Nums /\ hole \in 0 .. cnt - 1
      /\ Loops(at, cnt, rev, Aim(then, cnt, rev, trees, big, small, root, seen), Whole,
               ttrees, hole, tbig, tsmall)
  BY DEF SmoothInv
<1>2. /\ cnt \in Nat /\ nums \in [0 .. cnt - 1 -> Nums] /\ nums \in Arrays(cnt) /\ held \in Nat
      /\ \A k \in 0 .. cnt - 1 : nums[k] \in Nat
  BY <1>1, GivenIs, NumsAssumption DEF Given
<1>3. Whole = [nums EXCEPT ![hole] = held]
  BY DEF Whole
<1>4. Whole \in Arrays(cnt)
  BY <1>1, <1>2, <1>3 DEF Arrays
<1>5. Whole[hole] = held /\ \A k \in 0 .. cnt - 1 : k # hole => Whole[k] = nums[k]
  BY <1>1, <1>2, <1>3
<1> QED BY <1>1, <1>2, <1>3, <1>4, <1>5

LEMMA CallSteps ==
    ASSUME SmoothInv, at \in {"sift", "trinkle"}, UNCHANGED <<argvars, forestvars, held, then>>,
           at' \in {"sift", "trinkle"}, NEW S, S = Aim(then, cnt, rev, trees, big, small, root, seen),
           \/ /\ hole' = hole /\ \/ nums' = nums
                                 \/ nums' = [nums EXCEPT ![hole] = held]
              /\ Loops(at', cnt, rev, S, Whole, ttrees', hole, tbig', tsmall')
           \/ \E g \in 0 .. cnt - 1 :
                 /\ g # hole /\ hole' = g /\ nums' = [nums EXCEPT ![hole] = nums[g]]
                 /\ \A m \in Arrays(cnt) : Swapped(cnt, m, Whole, hole, g)
                       => Loops(at', cnt, rev, S, m, ttrees', g, tbig', tsmall')
    PROVE  SmoothInv'
<1>1. /\ Given /\ cnt \in Nat /\ cnt > 0 /\ held \in Nums /\ hole \in 0 .. cnt - 1
      /\ nums \in [0 .. cnt - 1 -> Nums] /\ Whole = [nums EXCEPT ![hole] = held] /\ SameNums(Whole)
  BY InCall
<1>2. UNCHANGED <<drawn, cnt, rev, trees, big, small, root, seen, held, then>>
  BY DEF argvars, forestvars
<1>3. PICK m : m = [nums' EXCEPT ![hole'] = held']
  OBVIOUS
<1>4. CASE /\ hole' = hole /\ \/ nums' = nums
                              \/ nums' = [nums EXCEPT ![hole] = held]
           /\ Loops(at', cnt, rev, S, Whole, ttrees', hole, tbig', tsmall')
  <2>1. m = Whole /\ nums' \in [0 .. cnt - 1 -> Nums]
    BY <1>1, <1>2, <1>3, <1>4
  <2>2. Loops(at', cnt, rev, Aim(then', cnt, rev, trees', big', small', root', seen'), m,
              ttrees', hole', tbig', tsmall')
    BY <1>2, <1>4, <2>1
  <2> QED BY <1>1, <1>2, <1>3, <1>4, <2>1, <2>2, Calls
<1>5. CASE \E g \in 0 .. cnt - 1 :
             /\ g # hole /\ hole' = g /\ nums' = [nums EXCEPT ![hole] = nums[g]]
             /\ \A e \in Arrays(cnt) : Swapped(cnt, e, Whole, hole, g)
                   => Loops(at', cnt, rev, S, e, ttrees', g, tbig', tsmall')
  <2>1. PICK g \in 0 .. cnt - 1 :
           /\ g # hole /\ hole' = g /\ nums' = [nums EXCEPT ![hole] = nums[g]]
           /\ \A e \in Arrays(cnt) : Swapped(cnt, e, Whole, hole, g)
                 => Loops(at', cnt, rev, S, e, ttrees', g, tbig', tsmall')
    BY <1>5
  <2>2. PICK a, e : a = Whole /\ e = nums'
    OBVIOUS
  <2>3. /\ e \in [0 .. cnt - 1 -> Nums] /\ m \in Arrays(cnt)
        /\ Swapped(cnt, m, a, hole, g) /\ (SameNums(a) => SameNums(m))
    <3>1. m = [e EXCEPT ![g] = held]
      BY <1>2, <1>3, <2>1, <2>2
    <3> QED BY <1>1, <2>1, <2>2, <3>1, HoleMoves
  <2>4. Loops(at', cnt, rev, Aim(then', cnt, rev, trees', big', small', root', seen'), m,
              ttrees', hole', tbig', tsmall')
    BY <1>2, <2>1, <2>2, <2>3
  <2> QED BY <1>1, <1>2, <1>3, <2>1, <2>2, <2>3, <2>4, Calls
<1> QED BY <1>4, <1>5

LEMMA SmoothSifts == ASSUME SmoothInv, sift PROVE SmoothInv'
<1>1. at = "sift" /\ UNCHANGED <<argvars, forestvars, held, ttrees, then>>
  BY DEF sift
<1>2. PICK S : S = Aim(then, cnt, rev, trees, big, small, root, seen)
  OBVIOUS
<1>3. /\ Given /\ cnt \in Nat /\ held \in Nat /\ hole \in 0 .. cnt - 1
      /\ Whole \in Arrays(cnt) /\ Whole = [nums EXCEPT ![hole] = held]
      /\ Whole[hole] = held /\ \A k \in 0 .. cnt - 1 : k # hole => Whole[k] = nums[k]
      /\ Loops(at, cnt, rev, S, Whole, ttrees, hole, tbig, tsmall)
  BY <1>1, <1>2, InCall
<1>4. Sifting(cnt, rev, S, Whole, hole, tbig, tsmall)
  BY <1>1, <1>3 DEF Loops
<1>5. Leonardo(tbig, tsmall) /\ hole - tbig + 1 >= 0
  BY <1>4 DEF Sifting
<1>6. tbig \in Int /\ (tbig <= 2 \/ tbig > 1)
  BY <1>5, LeonardoLeast
<1>7. PICK g, x, y : g = Greater /\ <<x, y>> = Down(HalfOf[1], HalfOf[2])
  BY DEF Down
<1>8. ASSUME tbig > 1
      PROVE  /\ g \in 0 .. cnt - 1 /\ g # hole /\ Whole[g] = nums[g] /\ nums[g] \in Nat
             /\ Largest(rev, Whole, hole, tbig, tsmall, g, x, y)
  <2>1. PICK a : a = Whole
    OBVIOUS
  <2> QED BY <1>3, <1>5, <1>7, <1>8, <2>1, GreaterIs
<1>9. CASE tbig <= 2 \/ Precedes(nums[Greater], held)
  <2>1. at' = then /\ nums' = Whole
    BY <1>3, <1>9 DEF sift
  <2>2. tbig > 1 => /\ Ordered(rev, Whole[hole - 1], Whole[hole])
                    /\ Ordered(rev, Whole[hole - tbig + tsmall], Whole[hole])
    <3>1. SUFFICES ASSUME tbig > 1
                   PROVE  /\ Ordered(rev, Whole[hole - 1], Whole[hole])
                          /\ Ordered(rev, Whole[hole - tbig + tsmall], Whole[hole])
      OBVIOUS
    <3>2. tbig >= 3 /\ tsmall \in Int /\ tsmall >= 1 /\ tbig - tsmall - 1 \in 1 .. tsmall
      BY <1>5, <3>1, LeonardoMore
    <3>3. PICK s \in 0 .. cnt - 1, w \in 0 .. cnt - 1 : s = hole - tbig + tsmall /\ w = hole - 1
      <4>1. hole - tbig + tsmall \in 0 .. cnt - 1 /\ hole - 1 \in 0 .. cnt - 1
        BY <1>3, <1>5, <1>6, <3>2
      <4> QED BY <4>1
    <3>4. Ordered(rev, Whole[w], Whole[g]) /\ Ordered(rev, Whole[s], Whole[g])
      BY <1>8, <3>1, <3>3 DEF Largest
    <3>5. Ordered(rev, Whole[g], Whole[hole])
      <4>1. Precedes(nums[g], held)
        BY <1>6, <1>7, <1>9, <3>2
      <4> QED BY <1>3, <1>8, <3>1, <4>1, PrecedesIs
    <3>6. Whole[s] \in Int /\ Whole[w] \in Int /\ Whole[g] \in Int /\ Whole[hole] \in Int
      BY <1>3, <1>8, <3>1 DEF Arrays
    <3> QED BY <3>3, <3>4, <3>5, <3>6, OrderedIs
  <2>3. Whole \in S
    <3>1. PICK a, n : a = Whole /\ n = cnt /\ n \in Nat
      BY <1>3
    <3> QED BY <1>3, <1>4, <2>2, <3>1, SiftRests
  <2>4. Goal(then, cnt, rev, Whole, trees, big, small, root, seen)
    BY <1>2, <2>3 DEF Aim
  <2>5. at' \in Places
    BY <2>1, <2>4 DEF Goal
  <2>6. /\ Given' /\ (cnt > 0)' /\ SameNums(Whole)'
    <3>1. Whole' = nums'
      BY <2>5 DEF Whole, Places
    <3>2. SameNums(Whole) /\ cnt > 0 /\ nums' \in [0 .. cnt - 1 -> Nums]
      BY <1>1, <1>3, <2>1, InCall
    <3>3. SameNums(Whole)'
      BY <1>1, <2>1, <3>1, <3>2 DEF SameNums, Count, argvars
    <3> QED BY <1>1, <1>3, <3>2, <3>3 DEF Given, argvars
  <2>7. Goal(at, cnt, rev, nums, trees, big, small, root, seen)'
    BY <1>1, <2>1, <2>4 DEF argvars, forestvars
  <2>8. at' \notin {"sift", "trinkle", "sorted", "idle"}
    BY <2>5 DEF Places
  <2> QED BY <2>5, <2>6, <2>7, <2>8 DEF SmoothInv
<1>10. CASE ~(tbig <= 2 \/ Precedes(nums[Greater], held))
  <2>1. /\ at' = "sift" /\ hole' = g /\ nums' = [nums EXCEPT ![hole] = nums[g]]
        /\ tbig' = x /\ tsmall' = y
    BY <1>1, <1>7, <1>10 DEF sift, MoveTo
  <2>2. tbig > 1 /\ ~Precedes(nums[g], held)
    BY <1>6, <1>7, <1>10
  <2>3. Ordered(rev, Whole[hole], Whole[g])
    BY <1>3, <1>8, <2>2, PrecedesIs
  <2>4. ASSUME NEW m \in Arrays(cnt), Swapped(cnt, m, Whole, hole, g)
        PROVE  Loops(at', cnt, rev, S, m, ttrees', g, tbig', tsmall')
    <3>1. PICK a, n : a = Whole /\ n = cnt /\ n \in Nat
      BY <1>3
    <3>2. Sifting(n, rev, S, m, g, x, y)
      BY <1>3, <1>4, <1>8, <2>2, <2>3, <2>4, <3>1, SiftMoves
    <3> QED BY <2>1, <3>1, <3>2 DEF Loops
  <2> QED BY <1>1, <1>2, <1>8, <2>1, <2>2, <2>4, CallSteps
<1> QED BY <1>9, <1>10

LEMMA SmoothShifts == ASSUME SmoothInv, TrinkleShifts \/ TrinkleSifts PROVE SmoothInv'
<1>1. /\ at = "trinkle" /\ UNCHANGED <<argvars, forestvars, held, then, hole>>
  BY DEF TrinkleShifts, TrinkleSifts, holevars, smoothvars, callvars
<1>2. PICK S : S = Aim(then, cnt, rev, trees, big, small, root, seen)
  OBVIOUS
<1>3. /\ cnt \in Nat /\ Whole \in Arrays(cnt)
      /\ Loops(at, cnt, rev, S, Whole, ttrees, hole, tbig, tsmall)
  BY <1>1, <1>2, InCall
<1>4. CASE TrinkleShifts
  <2>1. /\ at' = "trinkle" /\ nums' = nums /\ ttrees > 0 /\ ttrees % 2 = 0 /\ ttrees' = ttrees \div 2
        /\ tbig' = tbig + tsmall + 1 /\ tsmall' = tbig
    BY <1>1, <1>4 DEF TrinkleShifts, Up
  <2>2. Trinkling(cnt, rev, S, Whole, ttrees, hole, tbig, tsmall)
    BY <1>1, <1>3, <2>1 DEF Loops
  <2>3. PICK a, n, p : a = Whole /\ n = cnt /\ n \in Nat /\ p = ttrees
    BY <1>3
  <2>4. Trinkling(n, rev, S, a, p \div 2, hole, tbig + tsmall + 1, tbig)
    BY <1>3, <2>1, <2>2, <2>3, TrinkleUp
  <2>5. p \div 2 \in Nat /\ p \div 2 # 0
    BY <2>4 DEF Trinkling
  <2>6. Loops(at', cnt, rev, S, Whole, ttrees', hole, tbig', tsmall')
    BY <2>1, <2>3, <2>4, <2>5 DEF Loops
  <2> QED BY <1>1, <1>2, <2>1, <2>6, CallSteps
<1>5. CASE TrinkleSifts
  <2>1. /\ at' = "sift" /\ nums' = [nums EXCEPT ![hole] = held] /\ ttrees = 0 /\ ttrees' = ttrees
        /\ tbig' = tbig /\ tsmall' = tsmall
    BY <1>5 DEF TrinkleSifts, smoothvars, callvars
  <2>2. Sifting(cnt, rev, S, Whole, hole, tbig, tsmall)
    BY <1>1, <1>3, <2>1 DEF Loops
  <2>3. Loops(at', cnt, rev, S, Whole, ttrees', hole, tbig', tsmall')
    BY <2>1, <2>2 DEF Loops
  <2> QED BY <1>1, <1>2, <2>1, <2>3, CallSteps
<1> QED BY <1>4, <1>5

LEMMA SmoothMoves == ASSUME SmoothInv, TrinkleMoves PROVE SmoothInv'
<1>1. /\ at = "trinkle" /\ at' = "trinkle" /\ ttrees % 2 = 1
      /\ UNCHANGED <<argvars, forestvars, held, then>>
  BY DEF TrinkleMoves
<1>2. PICK S : S = Aim(then, cnt, rev, trees, big, small, root, seen)
  OBVIOUS
<1>3. /\ Given /\ cnt \in Nat /\ held \in Nat /\ hole \in 0 .. cnt - 1
      /\ Whole \in Arrays(cnt) /\ Whole = [nums EXCEPT ![hole] = held]
      /\ Whole[hole] = held /\ \A k \in 0 .. cnt - 1 : k # hole => Whole[k] = nums[k]
      /\ \A k \in 0 .. cnt - 1 : nums[k] \in Nat
      /\ Loops(at, cnt, rev, S, Whole, ttrees, hole, tbig, tsmall)
  BY <1>1, <1>2, InCall
<1>4. Trinkling(cnt, rev, S, Whole, ttrees, hole, tbig, tsmall) /\ ttrees \in Nat
  BY <1>1, <1>3 DEF Loops
<1>5. /\ Leonardo(tbig, tsmall) /\ hole >= tbig - 1
      /\ Forest(rev, Whole, ttrees - 1, tbig, tsmall, hole - tbig)
  BY <1>1, <1>4 DEF Trinkling, But
<1>6. tbig \in Int /\ tbig >= 1 /\ tsmall \in Int
  BY <1>5, LeonardoLeast
<1>7. PICK g, x, y : g = Greater /\ <<x, y>> = Down(HalfOf[1], HalfOf[2])
  BY DEF Down
<1>8. ASSUME tbig > 1
      PROVE  /\ g \in 0 .. cnt - 1 /\ g # hole /\ Whole[g] = nums[g] /\ nums[g] \in Nat
             /\ Largest(rev, Whole, hole, tbig, tsmall, g, x, y)
  <2>1. PICK a : a = Whole
    OBVIOUS
  <2>2. hole - tbig + 1 >= 0
    BY <1>3, <1>5, <1>6
  <2> QED BY <1>3, <1>5, <1>7, <1>8, <2>1, <2>2, GreaterIs
<1>9. PICK l : l = hole - tbig
  OBVIOUS
<1>10. PICK a, n, p : a = Whole /\ n = cnt /\ n \in Nat /\ p = ttrees
  BY <1>3
<1>11. ASSUME p > 1 PROVE l \in 0 .. n - 1 /\ l # hole /\ a[l] = nums[l] /\ nums[l] \in Nat
  <2>1. l >= 0
    <3>1. Forested(rev, Whole, ttrees - 1, tbig, tsmall, l)
      BY <1>5, <1>9, ForestIs
    <3>2. ttrees - 1 > 0
      BY <1>4, <1>10, <1>11
    <3> QED BY <3>1, <3>2 DEF Forested
  <2>2. l \in 0 .. n - 1 /\ l # hole
    BY <1>3, <1>6, <1>9, <1>10, <2>1
  <2> QED BY <1>3, <1>10, <2>2
<1>12. CASE p = 1 \/ Precedes(nums[l], held)
  <2>1. ttrees' = 0 /\ UNCHANGED <<nums, hole, tbig, tsmall>>
    BY <1>9, <1>10, <1>12 DEF TrinkleMoves
  <2>2. p > 1 => Ordered(rev, a[l], a[hole])
    <3>1. SUFFICES ASSUME p > 1 PROVE Ordered(rev, a[l], a[hole])
      OBVIOUS
    <3>2. Precedes(nums[l], held)
      BY <1>12, <3>1
    <3> QED BY <1>3, <1>10, <1>11, <3>1, <3>2, PrecedesIs
  <2>3. Sifting(n, rev, S, a, hole, tbig, tsmall)
    BY <1>1, <1>3, <1>4, <1>9, <1>10, <2>2, TrinkleStops
  <2>4. Loops(at', cnt, rev, S, Whole, ttrees', hole, tbig', tsmall')
    BY <1>1, <1>10, <2>1, <2>3 DEF Loops
  <2> QED BY <1>1, <1>2, <2>1, <2>4, CallSteps
<1>13. CASE ~(p = 1 \/ Precedes(nums[l], held))
  <2>1. p > 1 /\ ttrees > 1
    BY <1>1, <1>4, <1>10, <1>13
  <2>2. Ordered(rev, a[hole], a[l])
    BY <1>3, <1>10, <1>11, <1>13, <2>1, PrecedesIs
  <2>3. CASE tbig = 1
    <3>1. /\ ttrees' = p - 1 /\ hole' = l /\ nums' = [nums EXCEPT ![hole] = nums[l]]
          /\ tbig' = tbig /\ tsmall' = tsmall
      BY <1>9, <1>10, <1>13, <2>3 DEF TrinkleMoves, MoveTo
    <3>2. ASSUME NEW m \in Arrays(cnt), Swapped(cnt, m, Whole, hole, l)
          PROVE  Loops(at', cnt, rev, S, m, ttrees', l, tbig', tsmall')
      <4>1. ~(tbig > 1)
        BY <2>3
      <4>2. Trinkling(n, rev, S, m, p - 1, l, tbig, tsmall)
        BY <1>1, <1>3, <1>4, <1>9, <1>10, <2>1, <2>2, <3>2, <4>1, TrinkleLeft
      <4>3. p - 1 \in Nat /\ p - 1 # 0
        BY <4>2 DEF Trinkling
      <4> QED BY <1>1, <1>10, <3>1, <4>2, <4>3 DEF Loops
    <3> QED BY <1>1, <1>2, <1>10, <1>11, <2>1, <3>1, <3>2, CallSteps
  <2>4. CASE tbig # 1 /\ Precedes(nums[Greater], nums[l])
    <3>0. tbig > 1
      BY <1>6, <2>4
    <3>1. /\ ttrees' = IF LastIsGreater THEN 2 * (p - 1) ELSE p - 1
          /\ hole' = l /\ nums' = [nums EXCEPT ![hole] = nums[l]]
          /\ tbig' = HalfOf[1] /\ tsmall' = HalfOf[2]
      BY <1>9, <1>10, <1>13, <2>4 DEF TrinkleMoves, MoveTo
    <3>2. /\ Ordered(rev, a[hole - 1], a[l])
          /\ Ordered(rev, a[hole - tbig + tsmall], a[l])
      <4>1. Ordered(rev, a[g], a[l])
        BY <1>3, <1>7, <1>8, <1>10, <1>11, <2>1, <2>4, <3>0, PrecedesIs
      <4>2. tbig >= 3 /\ tsmall >= 1 /\ tbig - tsmall - 1 \in 1 .. tsmall
        BY <1>5, <3>0, LeonardoMore
      <4>3. PICK s \in 0 .. cnt - 1, w \in 0 .. cnt - 1 : s = hole - tbig + tsmall /\ w = hole - 1
        <5>1. hole - tbig + tsmall \in 0 .. cnt - 1 /\ hole - 1 \in 0 .. cnt - 1
          BY <1>3, <1>5, <1>6, <4>2
        <5> QED BY <5>1
      <4>4. Ordered(rev, a[w], a[g]) /\ Ordered(rev, a[s], a[g])
        BY <1>8, <1>10, <3>0, <4>3 DEF Largest
      <4>5. a[w] \in Int /\ a[s] \in Int /\ a[g] \in Int /\ a[l] \in Int
        BY <1>3, <1>8, <1>10, <1>11, <2>1, <3>0 DEF Arrays
      <4> QED BY <4>1, <4>3, <4>4, <4>5, OrderedIs
    <3>3. ASSUME NEW m \in Arrays(cnt), Swapped(cnt, m, Whole, hole, l)
          PROVE  Loops(at', cnt, rev, S, m, ttrees', l, tbig', tsmall')
      <4>1. Trinkling(n, rev, S, m, p - 1, l, tbig, tsmall)
        BY <1>1, <1>3, <1>4, <1>9, <1>10, <2>1, <2>2, <3>2, <3>3, TrinkleLeft
      <4>2. PICK t \in Nat : t = p - 1 /\ t > 0 /\ t % 2 = 0
        BY <1>1, <1>4, <1>10, <2>1
      <4>3. CASE LastIsGreater
        <5>1. Trinkling(n, rev, S, m, 2 * t, l, tsmall, tbig - tsmall - 1)
          BY <1>10, <3>0, <3>3, <4>1, <4>2, TrinkleDown
        <5>2. ttrees' = 2 * t /\ tbig' = tsmall /\ tsmall' = tbig - tsmall - 1
          BY <3>1, <4>2, <4>3 DEF HalfOf, Down
        <5>3. 2 * t \in Nat /\ 2 * t # 0
          BY <4>2
        <5> QED BY <1>1, <1>10, <5>1, <5>2, <5>3 DEF Loops
      <4>4. CASE ~LastIsGreater
        <5>1. ttrees' = t /\ tbig' = tbig /\ tsmall' = tsmall
          BY <3>1, <4>2, <4>4 DEF HalfOf
        <5> QED BY <1>1, <1>10, <4>1, <4>2, <5>1 DEF Loops
      <4> QED BY <4>3, <4>4
    <3> QED BY <1>1, <1>2, <1>10, <1>11, <2>1, <3>1, <3>3, CallSteps
  <2>5. CASE tbig # 1 /\ ~Precedes(nums[Greater], nums[l])
    <3>0. tbig > 1
      BY <1>6, <2>5
    <3>1. /\ ttrees' = 0 /\ hole' = g /\ nums' = [nums EXCEPT ![hole] = nums[g]]
          /\ tbig' = x /\ tsmall' = y
      BY <1>7, <1>9, <1>10, <1>13, <2>5 DEF TrinkleMoves, MoveTo
    <3>2. Ordered(rev, a[l], a[g])
      BY <1>3, <1>7, <1>8, <1>10, <1>11, <2>1, <2>5, <3>0, PrecedesIs
    <3>3. ASSUME NEW m \in Arrays(cnt), Swapped(cnt, m, Whole, hole, g)
          PROVE  Loops(at', cnt, rev, S, m, ttrees', g, tbig', tsmall')
      <4>1. Sifting(n, rev, S, m, g, x, y)
        BY <1>1, <1>3, <1>4, <1>8, <1>9, <1>10, <2>1, <2>2, <3>0, <3>2, <3>3, TrinkleChild
      <4> QED BY <1>1, <1>10, <3>1, <4>1 DEF Loops
    <3> QED BY <1>1, <1>2, <1>8, <3>0, <3>1, <3>3, CallSteps
  <2> QED BY <2>3, <2>4, <2>5
<1> QED BY <1>12, <1>13

LEMMA SmoothKeeps == SmoothInv /\ SmoothNext => SmoothInv'
  BY SmoothSets, SmoothBuilds, SmoothGrows, SmoothTakes, SmoothTakesTwo, SmoothSifts, SmoothShifts,
     SmoothMoves DEF SmoothNext

LEMMA SmoothDraws ==
    ASSUME SmoothInv, NEW n \in Nat \ {0}, NEW desc \in BOOLEAN, Draw(n, desc)
    PROVE  SmoothInv'
<1>0. /\ at' = "sort" /\ cnt' = n /\ rev' = desc /\ nums' \in [0 .. n - 1 -> Nums] /\ drawn' = nums'
  BY DEF Draw
<1>1. Given' /\ (cnt > 0)' /\ SameNums(Whole)'
  BY <1>0 DEF Given, SameNums, Whole
<1>2. at' \notin Places
  BY <1>0 DEF Places
<1> QED BY <1>0, <1>1, <1>2 DEF SmoothInv

LEMMA SmoothSorts ==
    ASSUME SmoothInv, at = "sorted"
    PROVE  /\ cnt \in Nat /\ nums \in [0 .. cnt - 1 -> Nums] /\ drawn \in [0 .. cnt - 1 -> Nums]
           /\ SameNums(nums) /\ InOrder(nums, 0, cnt)
  BY DEF SmoothInv, Given, Whole

LEMMA SmoothInvStays == ASSUME SmoothInv, UNCHANGED sortvars, UNCHANGED smoothvars PROVE SmoothInv'
<1>1. /\ UNCHANGED <<sorter, drawn, cnt, rev, at, nums, hole, held>>
      /\ UNCHANGED <<trees, big, small, root, seen, ttrees, tbig, tsmall, then>>
  BY DEF sortvars, argvars, holevars, smoothvars, forestvars, callvars
<1>2. Whole' = Whole
  BY <1>1 DEF Whole
<1>3. (Given <=> Given') /\ (SameNums(Whole) <=> SameNums(Whole)')
  BY <1>1, <1>2 DEF Given, SameNums, Count
<1>4. InOrder(nums, 0, cnt)' <=> InOrder(nums, 0, cnt)
  BY <1>1 DEF InOrder, Fits, Precedes
<1>5. /\ Goal(at, cnt, rev, nums, trees, big, small, root, seen)'
         <=> Goal(at, cnt, rev, nums, trees, big, small, root, seen)
      /\ Loops(at, cnt, rev, Aim(then, cnt, rev, trees, big, small, root, seen), Whole,
               ttrees, hole, tbig, tsmall)'
         <=> Loops(at, cnt, rev, Aim(then, cnt, rev, trees, big, small, root, seen), Whole,
                   ttrees, hole, tbig, tsmall)
  BY <1>1, <1>2
<1> QED BY <1>1, <1>2, <1>3, <1>4, <1>5 DEF SmoothInv

-----------------------------------------------------------------------------
(* The parser *)

LEMMA StateIs ==
    ASSUME NEW d, NEW k, NEW v, NEW c, NEW r
    PROVE  /\ State(d, k, v, c, r).d = d /\ State(d, k, v, c, r).k = k
           /\ State(d, k, v, c, r).v = v /\ State(d, k, v, c, r).chal = c
           /\ State(d, k, v, c, r).ret = r
  BY DEF State

\* From the state s the tokens of u take the parser to t.
Parses(s, u, t) ==
    \E f : /\ f[0] = s /\ f[Len(u)] = t
           /\ \A k \in 1 .. Len(u) : f[k] = Turn(f[k - 1], u[k])

LEMMA ParsesTwo ==
    ASSUME NEW s, NEW x, NEW y
    PROVE  Parses(s, <<x, y>>, Turn(Turn(s, x), y))
<1>1. PICK f : f = [k \in 0 .. 2 |-> IF k = 0 THEN s ELSE IF k = 1 THEN Turn(s, x)
                                     ELSE Turn(Turn(s, x), y)]
  OBVIOUS
<1>2. f[0] = s /\ f[1] = Turn(s, x) /\ f[2] = Turn(Turn(s, x), y)
  BY <1>1
<1>3. PICK u : u = <<x, y>>
  OBVIOUS
<1>4. Len(u) = 2 /\ u[1] = x /\ u[2] = y
  BY <1>3
<1>5. ASSUME NEW k \in 1 .. 2 PROVE f[k] = Turn(f[k - 1], u[k])
  <2>1. k = 1 \/ k = 2
    OBVIOUS
  <2> QED BY <1>2, <1>4, <2>1
<1> QED BY <1>2, <1>3, <1>4, <1>5 DEF Parses

LEMMA ParsesOne ==
    ASSUME NEW s, NEW x
    PROVE  Parses(s, <<x>>, Turn(s, x))
<1>1. PICK f : f = [k \in 0 .. 1 |-> IF k = 0 THEN s ELSE Turn(s, x)]
  OBVIOUS
<1>2. f[0] = s /\ f[1] = Turn(s, x)
  BY <1>1
<1>3. PICK u : u = <<x>>
  OBVIOUS
<1>4. Len(u) = 1 /\ u[1] = x
  BY <1>3
<1>5. ASSUME NEW k \in 1 .. 1 PROVE f[k] = Turn(f[k - 1], u[k])
  <2>1. k = 1
    OBVIOUS
  <2> QED BY <1>2, <1>4, <2>1
<1> QED BY <1>2, <1>3, <1>4, <1>5 DEF Parses

LEMMA ParsesThen ==
    ASSUME NEW S, NEW u \in Seq(S), NEW w \in Seq(S), NEW s, NEW t, NEW r,
           Parses(s, u, t), Parses(t, w, r)
    PROVE  Parses(s, u \o w, r)
<1>0. Len(u) \in Nat /\ Len(w) \in Nat
  BY LenProperties
<1>1. PICK n \in Nat, m \in Nat : n = Len(u) /\ m = Len(w)
  BY <1>0
<1>2. PICK f : /\ f[0] = s /\ f[n] = t /\ \A k \in 1 .. n : f[k] = Turn(f[k - 1], u[k])
  BY <1>1 DEF Parses
<1>3. PICK g : /\ g[0] = t /\ g[m] = r /\ \A k \in 1 .. m : g[k] = Turn(g[k - 1], w[k])
  BY <1>1 DEF Parses
<1>4. PICK h : h = [k \in 0 .. n + m |-> IF k <= n THEN f[k] ELSE g[k - n]]
  OBVIOUS
<1>5. PICK v : v = u \o w
  OBVIOUS
<1>6. Len(v) = n + m /\ \A k \in 1 .. n + m : v[k] = IF k <= n THEN u[k] ELSE w[k - n]
  BY <1>1, <1>5, ConcatProperties
<1>7. \A k \in 0 .. n : h[k] = f[k]
  BY <1>4
<1>8. \A k \in 0 .. m : h[n + k] = g[k]
  <2>1. ASSUME NEW k \in 0 .. m PROVE h[n + k] = g[k]
    <3>1. CASE k = 0
      BY <1>2, <1>3, <1>7, <3>1
    <3>2. CASE k # 0
      <4>1. n + k \in 0 .. n + m /\ ~(n + k <= n) /\ (n + k) - n = k
        BY <3>2
      <4> QED BY <1>4, <4>1
    <3> QED BY <3>1, <3>2
  <2> QED BY <2>1
<1>9. ASSUME NEW k \in 1 .. n + m PROVE h[k] = Turn(h[k - 1], v[k])
  <2>1. CASE k <= n
    <3>1. k \in 1 .. n /\ k \in 0 .. n /\ k - 1 \in 0 .. n
      BY <2>1
    <3> QED BY <1>2, <1>6, <1>7, <2>1, <3>1
  <2>2. CASE k > n
    <3>1. PICK j \in 1 .. m : j = k - n
      BY <2>2
    <3>2. k = n + j /\ k - 1 = n + (j - 1) /\ j \in 0 .. m /\ j - 1 \in 0 .. m /\ ~(k <= n)
      BY <2>2, <3>1
    <3>3. h[k] = g[j] /\ h[k - 1] = g[j - 1]
      BY <1>8, <3>2
    <3>4. v[k] = w[j]
      BY <1>6, <3>1, <3>2
    <3> QED BY <1>3, <3>3, <3>4
  <2> QED BY <2>1, <2>2
<1>10. h[0] = s /\ h[n + m] = r
  BY <1>2, <1>3, <1>7, <1>8
<1> QED BY <1>5, <1>6, <1>9, <1>10 DEF Parses

\* The states of the parser are the ones that parse_toks goes through.
LEMMA ParseIs ==
    ASSUME NEW S, NEW u \in Seq(S), Len(u) >= 1, u[1] = Obj, NEW t, Parses(Start, u, t)
    PROVE  parse_toks(u) = t
<1>0. PICK n \in Nat : n = Len(u) - 1
  BY LenProperties
<1>1. PICK f : /\ f[0] = Start /\ f[n + 1] = t
               /\ \A k \in 1 .. n + 1 : f[k] = Turn(f[k - 1], u[k])
  <2>1. Len(u) = n + 1
    BY <1>0, LenProperties
  <2> QED BY <2>1 DEF Parses
<1>2. f[1] = Start
  <2>1. f[1] = Turn(f[0], u[1])
    BY <1>1
  <2>2. Turn(Start, Obj) = Start
    <3>1. Start.d = 0 /\ Start.ret = 0 /\ Obj.type = "JSMN_OBJECT"
      BY DEF Start, State, Obj
    <3>2. Token(Start, Obj) = Start
      <4>1. Token(Start, Obj) = State(0, Start.k, Start.v, Start.chal, 0)
        BY <3>1 DEF Token
      <4>2. Start.k = <<"text", "">> /\ Start.v = <<"text", "">> /\ Start.chal = NoChallenge
        BY Zenon DEF Start, State
      <4> QED BY <4>1, <4>2 DEF Start
    <3> QED BY <3>1, <3>2 DEF Turn
  <2> QED BY <1>1, <2>1, <2>2
<1> DEFINE Rec(F) == F = [k \in 0 .. n |-> IF k = 0 THEN Start ELSE Turn(F[k - 1], u[k + 1])]
<1>3. PICK g : g = [k \in 0 .. n |-> f[k + 1]]
  OBVIOUS
<1>4. ASSUME NEW k \in 0 .. n
      PROVE  f[k + 1] = IF k = 0 THEN Start ELSE Turn(g[k - 1], u[k + 1])
  <2>1. CASE k = 0
    BY <1>2, <2>1
  <2>2. CASE k # 0
    <3>1. k - 1 \in 0 .. n /\ (k - 1) + 1 = k /\ k + 1 \in 1 .. n + 1 /\ (k + 1) - 1 = k
      BY <2>2
    <3>2. g[k - 1] = f[k]
      BY <1>3, <3>1
    <3>3. f[k + 1] = Turn(f[k], u[k + 1])
      BY <1>1, <3>1
    <3> QED BY <2>2, <3>2, <3>3
  <2> QED BY <2>1, <2>2
<1>5. Rec(g)
  BY <1>3, <1>4
<1>6. PICK F : F = CHOOSE E : Rec(E)
  OBVIOUS
<1>7. Rec(F)
  BY <1>5, <1>6
<1>8. parse_toks(u) = F[n]
  <2>1. F = CHOOSE E : E = [k \in 0 .. Len(u) - 1 |-> IF k = 0 THEN Start ELSE Turn(E[k - 1], u[k + 1])]
    BY <1>0, <1>6
  <2> QED BY <1>0, <2>1 DEF parse_toks
<1>9. \A k \in 0 .. n : F[k] = g[k]
  <2> DEFINE N == {k \in Nat : k <= n /\ F[k] # g[k]}
  <2>1. ASSUME N # {} PROVE FALSE
    <3>1. PICK k \in N : \A j \in N : k <= j
      <4>1. N \in SUBSET Nat
        OBVIOUS
      <4> HIDE DEF N
      <4> QED BY <2>1, <4>1, Least
    <3>2. k \in 0 .. n /\ F[k] # g[k]
      OBVIOUS
    <3>3. k # 0
      BY <1>5, <1>7, <3>2
    <3>4. k - 1 \in 0 .. n /\ F[k - 1] = g[k - 1]
      BY <3>1, <3>2, <3>3
    <3> QED BY <1>5, <1>7, <3>2, <3>3, <3>4
  <2> QED BY <2>1
<1> QED BY <1>1, <1>3, <1>8, <1>9

\* The parser between two pairs, and with a pair.
Between(k, v, c) == State(0, k, v, c, 0)
Paired(k, v, c) == State(2, k, v, c, 0)

LEMMA TurnsKey ==
    ASSUME NEW k, NEW v, NEW c, NEW key
    PROVE  Turn(Between(k, v, c), Str(key)) = State(1, <<"text", key>>, v, c, 0)
<1> DEFINE s == State(0, k, v, c, 0)
           t == State(1, <<"text", key>>, v, c, 0)
<1>0. Str(key).type = "JSMN_STRING" /\ Str(key).says = <<"text", key>>
  BY DEF Str
<1>1. Token(s, Str(key)) = t
  BY <1>0, StateIs DEF Token
<1>2. s.ret = 0 /\ t.d = 1
  BY StateIs
<1> QED BY <1>1, <1>2 DEF Turn, Between

LEMMA TurnsPair ==
    ASSUME NEW k, NEW v, NEW c, NEW key, NEW tok,
           tok.type \in {"JSMN_STRING", "JSMN_PRIMITIVE"}
    PROVE  Turn(Turn(Between(k, v, c), Str(key)), tok)
             = __parse_toks(Paired(<<"text", key>>, tok.says, c))
<1> DEFINE s == State(1, <<"text", key>>, v, c, 0)
           t == Paired(<<"text", key>>, tok.says, c)
<1>1. Turn(Between(k, v, c), Str(key)) = s
  BY TurnsKey
<1>2. Token(s, tok) = t
  <2>1. CASE tok.type = "JSMN_STRING"
    BY <2>1, StateIs DEF Token, Paired
  <2>2. CASE tok.type = "JSMN_PRIMITIVE"
    BY <2>2, StateIs DEF Token, Paired
  <2> QED BY <2>1, <2>2
<1>3. s.ret = 0 /\ t.d = 2 /\ t.ret = 0
  BY StateIs DEF Paired
<1> QED BY <1>1, <1>2, <1>3 DEF Turn

-----------------------------------------------------------------------------
(* What each key does *)

LEMMA PairIs ==
    ASSUME NEW k, NEW v, NEW c
    PROVE  /\ Paired(k, v, c).k = k /\ Paired(k, v, c).v = v /\ Paired(k, v, c).chal = c
  BY StateIs DEF Paired

Key(key) == <<"text", key>>

Pair(key, tok) == <<Str(key), tok>>

\* The pair of key and v makes x of c.
Sets(key, v, c, x) == __parse_toks(Paired(Key(key), v, c)) = Between(Key(key), v, x)

LEMMA PairedIs ==
    ASSUME NEW key, NEW v, NEW c
    PROVE  \E s : /\ s = Paired(Key(key), v, c)
                  /\ s.k = Key(key) /\ s.k[2] = key /\ s.v = v /\ s.chal = c
<1>1. PICK s : s = Paired(Key(key), v, c)
  OBVIOUS
<1>2. s.k = Key(key) /\ s.v = v /\ s.chal = c
  BY <1>1, PairIs
<1>3. Key(key)[2] = key
  BY DEF Key
<1> QED BY <1>1, <1>2, <1>3

LEMMA IgnoredSets ==
    ASSUME NEW c, NEW v
    PROVE  Sets("type", v, c, c) /\ Sets("nb_solvers", v, c, c)
<1>1. Sets("type", v, c, c)
  <2>1. PICK s : s = Paired(Key("type"), v, c) /\ s.k = Key("type") /\ s.k[2] = "type" /\ s.v = v /\ s.chal = c
    BY PairedIs
  <2> QED BY <2>1 DEF __parse_toks, Between, Sets
<1>2. Sets("nb_solvers", v, c, c)
  <2>1. PICK s : s = Paired(Key("nb_solvers"), v, c) /\ s.k = Key("nb_solvers") /\ s.k[2] = "nb_solvers" /\ s.v = v /\ s.chal = c
    BY PairedIs
  <2> QED BY <2>1 DEF __parse_toks, Between, Sets
<1> QED BY <1>1, <1>2

LEMMA LeftSets ==
    ASSUME NEW c, NEW n, NEW x, x = [c EXCEPT !.left = n]
    PROVE  Sets("time_left", <<"num", n>>, c, x)
<1>1. PICK v : v = <<"num", n>>
  OBVIOUS
<1>2. PICK s : s = Paired(Key("time_left"), v, c) /\ s.k = Key("time_left") /\ s.k[2] = "time_left" /\ s.v = v /\ s.chal = c
  BY PairedIs
<1>3. strtol(v) = n
  BY <1>1 DEF strtol
<1>4. __parse_toks(s) = Between(Key("time_left"), v, x)
  BY <1>2, <1>3 DEF __parse_toks, Between
<1> QED BY <1>1, <1>2, <1>4 DEF Sets

LEMMA IdSets ==
    ASSUME NEW c, NEW n, NEW x, x = [c EXCEPT !.id = n]
    PROVE  Sets("challenge_id", <<"num", n>>, c, x)
<1>1. PICK v : v = <<"num", n>>
  OBVIOUS
<1>2. PICK s : s = Paired(Key("challenge_id"), v, c) /\ s.k = Key("challenge_id") /\ s.k[2] = "challenge_id" /\ s.v = v /\ s.chal = c
  BY PairedIs
<1>3. strtol(v) = n
  BY <1>1 DEF strtol
<1>4. __parse_toks(s) = Between(Key("challenge_id"), v, x)
  BY <1>2, <1>3 DEF __parse_toks, Between
<1> QED BY <1>1, <1>2, <1>4 DEF Sets

LEMMA ElementsSets ==
    ASSUME NEW c, NEW n, NEW x, x = [c EXCEPT !.size = n]
    PROVE  Sets("nb_elements", <<"num", n>>, c, x)
<1>1. PICK v : v = <<"num", n>>
  OBVIOUS
<1>2. PICK s : s = Paired(Key("nb_elements"), v, c) /\ s.k = Key("nb_elements") /\ s.k[2] = "nb_elements" /\ s.v = v /\ s.chal = c
  BY PairedIs
<1>3. strtol(v) = n
  BY <1>1 DEF strtol
<1>4. __parse_toks(s) = Between(Key("nb_elements"), v, x)
  BY <1>2, <1>3 DEF __parse_toks, Between
<1> QED BY <1>1, <1>2, <1>4 DEF Sets

LEMMA GridSets ==
    ASSUME NEW c, NEW n, NEW x, x = [c EXCEPT !.size = n]
    PROVE  Sets("grid_size", <<"num", n>>, c, x)
<1>1. PICK v : v = <<"num", n>>
  OBVIOUS
<1>2. PICK s : s = Paired(Key("grid_size"), v, c) /\ s.k = Key("grid_size") /\ s.k[2] = "grid_size" /\ s.v = v /\ s.chal = c
  BY PairedIs
<1>3. strtol(v) = n
  BY <1>1 DEF strtol
<1>4. __parse_toks(s) = Between(Key("grid_size"), v, x)
  BY <1>2, <1>3 DEF __parse_toks, Between
<1> QED BY <1>1, <1>2, <1>4 DEF Sets

LEMMA BlockersSets ==
    ASSUME NEW c, NEW n, NEW x, x = [c EXCEPT !.nblks = n]
    PROVE  Sets("nb_blockers", <<"num", n>>, c, x)
<1>1. PICK v : v = <<"num", n>>
  OBVIOUS
<1>2. PICK s : s = Paired(Key("nb_blockers"), v, c) /\ s.k = Key("nb_blockers") /\ s.k[2] = "nb_blockers" /\ s.v = v /\ s.chal = c
  BY PairedIs
<1>3. strtol(v) = n
  BY <1>1 DEF strtol
<1>4. __parse_toks(s) = Between(Key("nb_blockers"), v, x)
  BY <1>2, <1>3 DEF __parse_toks, Between
<1> QED BY <1>1, <1>2, <1>4 DEF Sets

LEMMA PrefixSets ==
    ASSUME NEW c, NEW n, NEW x, x = [c EXCEPT !.pfix = hex2bin(n)]
    PROVE  Sets("hash_prefix", <<"hex", n>>, c, x)
<1>1. PICK v : v = <<"hex", n>>
  OBVIOUS
<1>2. PICK s : s = Paired(Key("hash_prefix"), v, c) /\ s.k = Key("hash_prefix") /\ s.k[2] = "hash_prefix" /\ s.v = v /\ s.chal = c
  BY PairedIs
<1>3. v[2] = n
  BY <1>1 DEF strtol
<1>4. __parse_toks(s) = Between(Key("hash_prefix"), v, x)
  BY <1>2, <1>3 DEF __parse_toks, Between
<1> QED BY <1>1, <1>2, <1>4 DEF Sets

LEMMA HashSets ==
    ASSUME NEW c, NEW n, NEW x, x = [c EXCEPT !.lhash = n]
    PROVE  Sets("last_solution_hash", <<"text", n>>, c, x)
<1>1. PICK v : v = <<"text", n>>
  OBVIOUS
<1>2. PICK s : s = Paired(Key("last_solution_hash"), v, c) /\ s.k = Key("last_solution_hash") /\ s.k[2] = "last_solution_hash" /\ s.v = v /\ s.chal = c
  BY PairedIs
<1>3. v[2] = n
  BY <1>1 DEF strtol
<1>4. __parse_toks(s) = Between(Key("last_solution_hash"), v, x)
  BY <1>2, <1>3 DEF __parse_toks, Between
<1> QED BY <1>1, <1>2, <1>4 DEF Sets

\* Every name of a challenge is that of one type.
LEMMA NameSets ==
    ASSUME NEW c, NEW n \in Types, NEW x, x = [c EXCEPT !.type = n]
    PROVE  Sets("challenge_name", <<"text", Name[n]>>, c, x)
<1>1. PICK v : v = <<"text", Name[n]>>
  OBVIOUS
<1>2. PICK s : s = Paired(Key("challenge_name"), v, c) /\ s.k = Key("challenge_name")
               /\ s.k[2] = "challenge_name" /\ s.v = v /\ s.chal = c
  BY PairedIs
<1>3. \A t \in Types : v = <<"text", Name[t]>> <=> t = n
  BY <1>1 DEF Types, Name
<1>4. PICK m : m = CHOOSE t \in Types : v = <<"text", Name[t]>>
  OBVIOUS
<1>5. m = n
  BY <1>3, <1>4
<1>6. __parse_toks(s) = Between(Key("challenge_name"), v, [c EXCEPT !.type = m])
  BY <1>2, <1>3, <1>4 DEF __parse_toks, Between
<1>7. __parse_toks(s) = Between(Key("challenge_name"), v, x)
  BY <1>5, <1>6
<1> QED BY <1>1, <1>2, <1>7 DEF Sets

LEMMA NameFails ==
    ASSUME NEW c, NEW v, \A t \in Types : v # <<"text", Name[t]>>
    PROVE  __parse_toks(Paired(Key("challenge_name"), v, c)).ret # 0
<1>1. PICK s : s = Paired(Key("challenge_name"), v, c) /\ s.k = Key("challenge_name")
               /\ s.k[2] = "challenge_name" /\ s.v = v /\ s.chal = c
  BY PairedIs
<1>2. __parse_toks(s) = State(2, s.k, v, s.chal, -1)
  BY <1>1 DEF __parse_toks
<1> QED BY <1>1, <1>2, StateIs

-----------------------------------------------------------------------------
(* Hexadecimal digits *)

LEMMA DigitReads == ASSUME NEW n \in Nat PROVE x2b(b2x(n)) = n % 16
<1>1. PICK m \in 0 .. 15 : m = n % 16
  OBVIOUS
<1>2. CASE m < 10
  <2>1. b2x(n) = 48 + m
    BY <1>1, <1>2 DEF b2x
  <2>2. (48 + m) % 16 = m
    BY <1>1, <1>2
  <2> QED BY <1>1, <1>2, <2>1, <2>2 DEF x2b
<1>3. CASE ~(m < 10)
  <2>1. b2x(n) = 87 + m
    BY <1>1, <1>3 DEF b2x
  <2>2. (87 + m + 9) % 16 = m
    BY <1>1, <1>3
  <2> QED BY <1>1, <1>3, <2>1, <2>2 DEF x2b
<1> QED BY <1>2, <1>3

LEMMA ByteReads ==
    ASSUME NEW c \in 0 .. 255
    PROVE  x2b(b2x(c \div 16)) * 16 + x2b(b2x(c)) = c
<1>1. c \in Nat /\ c \div 16 \in 0 .. 15 /\ c % 16 = c - 16 * (c \div 16)
  OBVIOUS
<1>2. PICK d \in 0 .. 15 : d = c \div 16
  BY <1>1
<1>3. x2b(b2x(d)) = d
  <2>1. d % 16 = d /\ d \in Nat
    OBVIOUS
  <2> QED BY <2>1, DigitReads
<1>4. x2b(b2x(c)) = c - 16 * d
  BY <1>1, <1>2, DigitReads
<1>5. d * 16 + (c - 16 * d) = c
  OBVIOUS
<1> QED BY <1>2, <1>3, <1>4, <1>5

\* The bytes that bin2hex writes are those that hex2bin reads.
LEMMA HexReads ==
    ASSUME NEW b \in Seq(0 .. 255)
    PROVE  hex2bin(bin2hex(b)) = b
<1>1. PICK n \in Nat : n = Len(b)
  BY LenProperties
<1>2. b = [j \in 1 .. n |-> b[j]] /\ \A j \in 1 .. n : b[j] \in 0 .. 255
  <2>1. b \in [1 .. n -> 0 .. 255]
    BY <1>1, LenProperties
  <2> QED BY <2>1
<1>3. PICK h : h = bin2hex(b)
  OBVIOUS
<1>4. h = [j \in 1 .. 2 * n |-> IF j % 2 = 1 THEN b2x(b[(j + 1) \div 2] \div 16) ELSE b2x(b[j \div 2])]
  BY <1>1, <1>3 DEF bin2hex
<1>5. Len(h) = 2 * n
  BY <1>4
<1>6. (2 * n) \div 2 = n
  OBVIOUS
<1>7. ASSUME NEW j \in 1 .. n PROVE x2b(h[2 * j - 1]) * 16 + x2b(h[2 * j]) = b[j]
  <2>1. /\ 2 * j - 1 \in 1 .. 2 * n /\ (2 * j - 1) % 2 = 1 /\ ((2 * j - 1) + 1) \div 2 = j
        /\ 2 * j \in 1 .. 2 * n /\ (2 * j) % 2 = 0 /\ (2 * j) \div 2 = j
    OBVIOUS
  <2>2. PICK y : y = 2 * j - 1
    OBVIOUS
  <2>3. h[2 * j - 1] = b2x(b[j] \div 16)
    <3>1. y \in 1 .. 2 * n /\ y % 2 = 1 /\ (y + 1) \div 2 = j
      BY <2>1, <2>2
    <3>2. h[y] = b2x(b[j] \div 16)
      BY <1>4, <3>1
    <3> QED BY <2>2, <3>2
  <2>4. PICK z : z = 2 * j
    OBVIOUS
  <2>5. h[2 * j] = b2x(b[j])
    <3>1. z \in 1 .. 2 * n /\ z % 2 # 1 /\ z \div 2 = j
      BY <2>1, <2>4
    <3>2. h[z] = b2x(b[j])
      BY <1>4, <3>1
    <3> QED BY <2>4, <3>2
  <2> QED BY <1>2, <2>3, <2>5, ByteReads
<1>8. hex2bin(h) = [j \in 1 .. n |-> x2b(h[2 * j - 1]) * 16 + x2b(h[2 * j])]
  BY <1>5, <1>6 DEF hex2bin
<1>9. hex2bin(h) = [j \in 1 .. n |-> b[j]]
  BY <1>7, <1>8
<1> QED BY <1>2, <1>3, <1>9

-----------------------------------------------------------------------------
(* The fields *)

\* What the fields of S make of the challenge.
Partial(c, S) ==
    [type |-> IF 3 \in S THEN c.type ELSE "unset", id |-> IF 2 \in S THEN c.id ELSE Unset,
     left |-> IF 4 \in S THEN c.left ELSE Unset, pfix |-> IF 5 \in S THEN c.pfix ELSE <<>>,
     lhash |-> IF 6 \in S THEN c.lhash ELSE "unset", size |-> IF 7 \in S THEN c.size ELSE Unset,
     nblks |-> IF 7 \in S /\ c.type = "CHAL_SPATH" THEN c.nblks ELSE Unset]

Good(s, c, S) == \E k, v : s = Between(k, v, Partial(c, S))

\* The tokens of the answers.
Tok(c) == {Str("type"), Str("challenge"), Str("challenge_id"), Prim(c.id), Str("challenge_name"),
           Str(Name[c.type]), Str("time_left"), Prim(c.left), Str("hash_prefix"),
           HexStr(bin2hex(c.pfix)), Str("last_solution_hash"), Str(c.lhash), Str("parameters"),
           Str("nb_elements"), Str("grid_size"), Prim(c.size), Str("nb_blockers"), Prim(c.nblks),
           Str("nb_solvers"), Prim(3), Str("solvers"), Str("coloring"), Obj, Arr}

LEMMA PairParses ==
    ASSUME NEW k, NEW v, NEW c, NEW x, NEW key, NEW tok,
           tok.type \in {"JSMN_STRING", "JSMN_PRIMITIVE"}, Sets(key, tok.says, c, x)
    PROVE  Parses(Between(k, v, c), Pair(key, tok), Between(Key(key), tok.says, x))
  BY TurnsPair, ParsesTwo DEF Sets, Pair, Key

LEMMA TokensAre ==
    /\ \A s : Str(s).type = "JSMN_STRING" /\ Str(s).says = <<"text", s>>
    /\ \A s : HexStr(s).type = "JSMN_STRING" /\ HexStr(s).says = <<"hex", s>>
    /\ \A s : Prim(s).type = "JSMN_PRIMITIVE" /\ Prim(s).says = <<"num", s>>
  BY DEF Str, HexStr, Prim

\* A challenge that the CA may describe.
IsMeant(c) == /\ c.type \in Types /\ c.id \in Int /\ c.left \in Int
              /\ c.size \in Nat \ {0} /\ c.nblks \in Int
              /\ c.pfix \in Seq(0 .. 255)

LEMMA MeantIs ==
    ASSUME NEW c \in Challenges
    PROVE  IsMeant(c)
<1>1. PICK t \in Types, n \in Nat \ {0} : c = Meant(t, n)
  BY ShortPathAssumption, AttemptAssumption DEF Challenges, Types
<1>2. Prefix \in Seq(0 .. 255)
  BY DEF Prefix
<1>3. /\ c.type = t /\ c.id = 7 /\ c.left = 60 /\ c.pfix = Prefix /\ c.lhash = "lhash"
      /\ c.size = n /\ c.nblks = MaxBlks
  BY <1>1 DEF Meant
<1>4. c.type \in Types /\ c.id \in Int /\ c.left \in Int /\ c.size \in Nat \ {0} /\ c.nblks \in Int
  BY <1>1, <1>3, ShortPathAssumption
<1>5. c.pfix \in Seq(0 .. 255)
  BY <1>2, <1>3
<1> QED BY <1>4, <1>5 DEF IsMeant

LEMMA FieldParses ==
    ASSUME NEW c, IsMeant(c), NEW p \in Parameters(c), NEW S, NEW j \in 1 .. 6,
           NEW s, Good(s, c, S)
    PROVE  \E t : Parses(s, Fields(c, p)[j], t) /\ Good(t, c, S \cup {j})
<1>0. PICK k, v, e : s = Between(k, v, e) /\ e = Partial(c, S)
  BY DEF Good
<1>1. ASSUME NEW key, NEW tok, tok.type \in {"JSMN_STRING", "JSMN_PRIMITIVE"},
             Fields(c, p)[j] = Pair(key, tok), NEW x, x = Partial(c, S \cup {j}),
             Sets(key, tok.says, e, x)
      PROVE  \E t : Parses(s, Fields(c, p)[j], t) /\ Good(t, c, S \cup {j})
  <2>1. Parses(Between(k, v, e), Pair(key, tok), Between(Key(key), tok.says, x))
    BY <1>1, PairParses
  <2>2. Parses(s, Fields(c, p)[j], Between(Key(key), tok.says, x))
    BY <1>0, <1>1, <2>1
  <2>3. Good(Between(Key(key), tok.says, x), c, S \cup {j})
    BY <1>1 DEF Good
  <2> QED BY <2>2, <2>3
<1>2. CASE j = 1
  <2>1. PICK tok : tok = Str("challenge")
    OBVIOUS
  <2>2. Fields(c, p)[j] = Pair("type", tok)
    BY <1>2, <2>1 DEF Fields, Pair
  <2>3. tok.type \in {"JSMN_STRING", "JSMN_PRIMITIVE"}
    BY <2>1, TokensAre
  <2>4. e = Partial(c, S \cup {j})
    BY <1>0, <1>2 DEF Partial
  <2>5. Sets("type", tok.says, e, e)
    BY IgnoredSets
  <2> QED BY <1>1, <2>2, <2>3, <2>4, <2>5
<1>3. CASE j = 2
  <2>1. PICK tok : tok = Prim(c.id)
    OBVIOUS
  <2>2. Fields(c, p)[j] = Pair("challenge_id", tok)
    BY <1>3, <2>1 DEF Fields, Pair
  <2>3. tok.type \in {"JSMN_STRING", "JSMN_PRIMITIVE"} /\ tok.says = <<"num", c.id>>
    BY <2>1, TokensAre
  <2>4. PICK x : x = [e EXCEPT !.id = c.id]
    OBVIOUS
  <2>5. x = Partial(c, S \cup {j})
    BY <1>0, <1>3, <2>4 DEF Partial
  <2>6. Sets("challenge_id", <<"num", c.id>>, e, x)
    BY <2>4, IdSets
  <2>7. Sets("challenge_id", tok.says, e, x)
    BY <2>3, <2>6
  <2> QED BY <1>1, <2>2, <2>3, <2>5, <2>7
<1>4. CASE j = 3
  <2>1. PICK tok : tok = Str(Name[c.type])
    OBVIOUS
  <2>2. Fields(c, p)[j] = Pair("challenge_name", tok)
    BY <1>4, <2>1 DEF Fields, Pair
  <2>3. tok.type \in {"JSMN_STRING", "JSMN_PRIMITIVE"} /\ tok.says = <<"text", Name[c.type]>>
    BY <2>1, TokensAre
  <2>4. PICK x : x = [e EXCEPT !.type = c.type]
    OBVIOUS
  <2>5. x = Partial(c, S \cup {j})
    BY <1>0, <1>4, <2>4 DEF Partial
  <2>6. Sets("challenge_name", <<"text", Name[c.type]>>, e, x)
    BY <2>4, NameSets DEF IsMeant
  <2>7. Sets("challenge_name", tok.says, e, x)
    BY <2>3, <2>6
  <2> QED BY <1>1, <2>2, <2>3, <2>5, <2>7
<1>5. CASE j = 4
  <2>1. PICK tok : tok = Prim(c.left)
    OBVIOUS
  <2>2. Fields(c, p)[j] = Pair("time_left", tok)
    BY <1>5, <2>1 DEF Fields, Pair
  <2>3. tok.type \in {"JSMN_STRING", "JSMN_PRIMITIVE"} /\ tok.says = <<"num", c.left>>
    BY <2>1, TokensAre
  <2>4. PICK x : x = [e EXCEPT !.left = c.left]
    OBVIOUS
  <2>5. x = Partial(c, S \cup {j})
    BY <1>0, <1>5, <2>4 DEF Partial
  <2>6. Sets("time_left", <<"num", c.left>>, e, x)
    BY <2>4, LeftSets
  <2>7. Sets("time_left", tok.says, e, x)
    BY <2>3, <2>6
  <2> QED BY <1>1, <2>2, <2>3, <2>5, <2>7
<1>6. CASE j = 5
  <2>1. PICK tok : tok = HexStr(bin2hex(c.pfix))
    OBVIOUS
  <2>2. Fields(c, p)[j] = Pair("hash_prefix", tok)
    BY <1>6, <2>1 DEF Fields, Pair
  <2>3. tok.type \in {"JSMN_STRING", "JSMN_PRIMITIVE"} /\ tok.says = <<"hex", bin2hex(c.pfix)>>
    BY <2>1, TokensAre
  <2>4. PICK x : x = [e EXCEPT !.pfix = c.pfix]
    OBVIOUS
  <2>5. x = Partial(c, S \cup {j})
    BY <1>0, <1>6, <2>4 DEF Partial
  <2>6. Sets("hash_prefix", <<"hex", bin2hex(c.pfix)>>, e, x)
    BY <2>4, PrefixSets, HexReads DEF IsMeant
  <2>7. Sets("hash_prefix", tok.says, e, x)
    BY <2>3, <2>6
  <2> QED BY <1>1, <2>2, <2>3, <2>5, <2>7
<1>7. CASE j = 6
  <2>1. PICK tok : tok = Str(c.lhash)
    OBVIOUS
  <2>2. Fields(c, p)[j] = Pair("last_solution_hash", tok)
    BY <1>7, <2>1 DEF Fields, Pair
  <2>3. tok.type \in {"JSMN_STRING", "JSMN_PRIMITIVE"} /\ tok.says = <<"text", c.lhash>>
    BY <2>1, TokensAre
  <2>4. PICK x : x = [e EXCEPT !.lhash = c.lhash]
    OBVIOUS
  <2>5. x = Partial(c, S \cup {j})
    BY <1>0, <1>7, <2>4 DEF Partial
  <2>6. Sets("last_solution_hash", <<"text", c.lhash>>, e, x)
    BY <2>4, HashSets
  <2>7. Sets("last_solution_hash", tok.says, e, x)
    BY <2>3, <2>6
  <2> QED BY <1>1, <2>2, <2>3, <2>5, <2>7
<1> QED BY <1>2, <1>3, <1>4, <1>5, <1>6, <1>7

\* The parameters: the object is no value, and what follows is one pair, or two.
LEMMA ObjectTurns ==
    ASSUME NEW k, NEW v, NEW c, NEW key
    PROVE  Turn(Turn(Between(k, v, c), Str(key)), Obj) = Between(Key(key), v, c)
<1>1. PICK s : s = State(1, Key(key), v, c, 0)
  OBVIOUS
<1>2. Turn(Between(k, v, c), Str(key)) = s
  BY <1>1, TurnsKey DEF Key
<1>3. s.d = 1 /\ s.k = Key(key) /\ s.v = v /\ s.chal = c /\ s.ret = 0
  BY <1>1, StateIs
<1>4. Token(s, Obj) = State(0, Key(key), v, c, 0)
  BY <1>3 DEF Token, Obj
<1>5. State(0, Key(key), v, c, 0).d = 0
  BY StateIs
<1>6. Turn(s, Obj) = State(0, Key(key), v, c, 0)
  BY <1>3, <1>4, <1>5 DEF Turn
<1> QED BY <1>2, <1>6 DEF Between

LEMMA ParametersParse ==
    ASSUME NEW c, IsMeant(c), NEW p \in Parameters(c), NEW S, NEW s, Good(s, c, S)
    PROVE  \E t : Parses(s, Fields(c, p)[7], t) /\ Good(t, c, S \cup {7})
<1>0. PICK k, v, e : s = Between(k, v, e) /\ e = Partial(c, S)
  BY DEF Good
<1>1. PICK u : u = <<Str("parameters"), Obj>>
  OBVIOUS
<1>2. u \in Seq(Tok(c))
  BY <1>1 DEF Tok
<1>3. Fields(c, p)[7] = u \o p
  BY <1>1 DEF Fields
<1>4. PICK s1 : s1 = Between(Key("parameters"), v, e)
  OBVIOUS
<1>5. Parses(s, u, s1)
  BY <1>0, <1>1, <1>4, ObjectTurns, ParsesTwo
<1>6. PICK nel : nel = Pair("nb_elements", Prim(c.size))
  OBVIOUS
<1>7. PICK size : size = Pair("grid_size", Prim(c.size))
  OBVIOUS
<1>8. PICK nblks : nblks = Pair("nb_blockers", Prim(c.nblks))
  OBVIOUS
<1>9. nel \in Seq(Tok(c)) /\ size \in Seq(Tok(c)) /\ nblks \in Seq(Tok(c))
  BY <1>6, <1>7, <1>8 DEF Tok, Pair
<1>10. PICK n, b : n = Prim(c.size) /\ b = Prim(c.nblks)
  OBVIOUS
<1>11. /\ n.type \in {"JSMN_STRING", "JSMN_PRIMITIVE"} /\ n.says = <<"num", c.size>>
       /\ b.type \in {"JSMN_STRING", "JSMN_PRIMITIVE"} /\ b.says = <<"num", c.nblks>>
  BY <1>10, TokensAre
<1>12. CASE c.type # "CHAL_SPATH"
  <2>1. p = nel
    BY <1>6, <1>12 DEF Parameters, Pair
  <2>2. PICK x : x = [e EXCEPT !.size = c.size]
    OBVIOUS
  <2>3. x = Partial(c, S \cup {7})
    BY <1>0, <1>12, <2>2 DEF Partial
  <2>4. Sets("nb_elements", <<"num", c.size>>, e, x)
    BY <2>2, ElementsSets
  <2>5. Sets("nb_elements", n.says, e, x)
    BY <1>11, <2>4
  <2>6. Parses(s1, Pair("nb_elements", n), Between(Key("nb_elements"), n.says, x))
    BY <1>4, <1>11, <2>5, PairParses
  <2>7. Parses(s, u \o p, Between(Key("nb_elements"), n.says, x))
    BY <1>2, <1>5, <1>6, <1>9, <1>10, <2>1, <2>6, ParsesThen
  <2>8. Good(Between(Key("nb_elements"), n.says, x), c, S \cup {7})
    BY <2>3 DEF Good
  <2> QED BY <1>3, <2>7, <2>8
<1>13. CASE c.type = "CHAL_SPATH"
  <2>1. p \in {size \o nblks, nblks \o size}
    BY <1>7, <1>8, <1>13 DEF Parameters, Pair
  <2>2. size \o nblks \in Seq(Tok(c)) /\ nblks \o size \in Seq(Tok(c))
    BY <1>9, ConcatProperties
  <2>3. ASSUME NEW ee, NEW kk, NEW vv, NEW x, x = [ee EXCEPT !.size = c.size]
        PROVE  Parses(Between(kk, vv, ee), size, Between(Key("grid_size"), n.says, x))
    <3>1. Sets("grid_size", <<"num", c.size>>, ee, x)
      BY <2>3, GridSets
    <3>2. Sets("grid_size", n.says, ee, x)
      BY <1>11, <3>1
    <3> QED BY <1>7, <1>10, <1>11, <3>2, PairParses
  <2>4. ASSUME NEW ee, NEW kk, NEW vv, NEW x, x = [ee EXCEPT !.nblks = c.nblks]
        PROVE  Parses(Between(kk, vv, ee), nblks, Between(Key("nb_blockers"), b.says, x))
    <3>1. Sets("nb_blockers", <<"num", c.nblks>>, ee, x)
      BY <2>4, BlockersSets
    <3>2. Sets("nb_blockers", b.says, ee, x)
      BY <1>11, <3>1
    <3> QED BY <1>8, <1>10, <1>11, <3>2, PairParses
  <2>5. CASE p = size \o nblks
    <3>1. PICK x : x = [e EXCEPT !.size = c.size]
      OBVIOUS
    <3>2. PICK y : y = [x EXCEPT !.nblks = c.nblks]
      OBVIOUS
    <3>3. y = Partial(c, S \cup {7})
      <4>1. x = [type |-> IF 3 \in S THEN c.type ELSE "unset", id |-> IF 2 \in S THEN c.id ELSE Unset,
          left |-> IF 4 \in S THEN c.left ELSE Unset, pfix |-> IF 5 \in S THEN c.pfix ELSE <<>>,
          lhash |-> IF 6 \in S THEN c.lhash ELSE "unset", size |-> c.size, nblks |-> IF 7 \in S THEN c.nblks ELSE Unset]
        BY <1>0, <1>13, <3>1 DEF Partial
      <4>2. y = [type |-> IF 3 \in S THEN c.type ELSE "unset", id |-> IF 2 \in S THEN c.id ELSE Unset,
          left |-> IF 4 \in S THEN c.left ELSE Unset, pfix |-> IF 5 \in S THEN c.pfix ELSE <<>>,
          lhash |-> IF 6 \in S THEN c.lhash ELSE "unset", size |-> c.size, nblks |-> c.nblks]
        BY <3>2, <4>1
      <4> QED BY <1>13, <4>2 DEF Partial
    <3>4. Parses(s1, size, Between(Key("grid_size"), n.says, x))
      BY <1>4, <2>3, <3>1
    <3>5. Parses(Between(Key("grid_size"), n.says, x), nblks, Between(Key("nb_blockers"), b.says, y))
      BY <2>4, <3>2
    <3>6. Parses(s1, p, Between(Key("nb_blockers"), b.says, y))
      BY <1>9, <2>5, <3>4, <3>5, ParsesThen
    <3>7. Parses(s, u \o p, Between(Key("nb_blockers"), b.says, y))
      BY <1>2, <1>5, <2>2, <2>5, <3>6, ParsesThen
    <3>8. Good(Between(Key("nb_blockers"), b.says, y), c, S \cup {7})
      BY <3>3 DEF Good
    <3> QED BY <1>3, <3>7, <3>8
  <2>6. CASE p = nblks \o size
    <3>1. PICK x : x = [e EXCEPT !.nblks = c.nblks]
      OBVIOUS
    <3>2. PICK y : y = [x EXCEPT !.size = c.size]
      OBVIOUS
    <3>3. y = Partial(c, S \cup {7})
      <4>1. x = [type |-> IF 3 \in S THEN c.type ELSE "unset", id |-> IF 2 \in S THEN c.id ELSE Unset,
          left |-> IF 4 \in S THEN c.left ELSE Unset, pfix |-> IF 5 \in S THEN c.pfix ELSE <<>>,
          lhash |-> IF 6 \in S THEN c.lhash ELSE "unset", size |-> IF 7 \in S THEN c.size ELSE Unset, nblks |-> c.nblks]
        BY <1>0, <1>13, <3>1 DEF Partial
      <4>2. y = [type |-> IF 3 \in S THEN c.type ELSE "unset", id |-> IF 2 \in S THEN c.id ELSE Unset,
          left |-> IF 4 \in S THEN c.left ELSE Unset, pfix |-> IF 5 \in S THEN c.pfix ELSE <<>>,
          lhash |-> IF 6 \in S THEN c.lhash ELSE "unset", size |-> c.size, nblks |-> c.nblks]
        BY <3>2, <4>1
      <4> QED BY <1>13, <4>2 DEF Partial
    <3>4. Parses(s1, nblks, Between(Key("nb_blockers"), b.says, x))
      BY <1>4, <2>4, <3>1
    <3>5. Parses(Between(Key("nb_blockers"), b.says, x), size, Between(Key("grid_size"), n.says, y))
      BY <2>3, <3>2
    <3>6. Parses(s1, p, Between(Key("grid_size"), n.says, y))
      BY <1>9, <2>6, <3>4, <3>5, ParsesThen
    <3>7. Parses(s, u \o p, Between(Key("grid_size"), n.says, y))
      BY <1>2, <1>5, <2>2, <2>6, <3>6, ParsesThen
    <3>8. Good(Between(Key("grid_size"), n.says, y), c, S \cup {7})
      BY <3>3 DEF Good
    <3> QED BY <1>3, <3>7, <3>8
  <2> QED BY <2>1, <2>5, <2>6
<1> QED BY <1>12, <1>13

-----------------------------------------------------------------------------
(* The answer *)

\* n tokens u of an answer about c, with the fields of S.
Sent(c, u, S, n) == /\ u \in Seq(Tok(c)) /\ Len(u) = n /\ n \in Nat \ {0} /\ u[1] = Obj
                    /\ \E s : Parses(Start, u, s) /\ Good(s, c, S)

LEMMA SentBegins == ASSUME NEW c PROVE Sent(c, <<Obj>>, {}, 1)
<1>1. PICK u : u = <<Obj>>
  OBVIOUS
<1>2. u \in Seq(Tok(c)) /\ Len(u) = 1 /\ u[1] = Obj
  BY <1>1 DEF Tok
<1>3. Turn(Start, Obj) = Start
  <2>1. Start.d = 0 /\ Start.ret = 0 /\ Obj.type = "JSMN_OBJECT"
    BY DEF Start, State, Obj
  <2>2. Token(Start, Obj) = Start
    <3>1. Token(Start, Obj) = State(0, Start.k, Start.v, Start.chal, 0)
      BY <2>1 DEF Token
    <3>2. Start.k = <<"text", "">> /\ Start.v = <<"text", "">> /\ Start.chal = NoChallenge
      BY Zenon DEF Start, State
    <3> QED BY <3>1, <3>2 DEF Start
  <2> QED BY <2>1, <2>2 DEF Turn
<1>4. Parses(Start, u, Start)
  BY <1>1, <1>3, ParsesOne
<1>5. Partial(c, {}) = NoChallenge
  BY DEF Partial, NoChallenge
<1>6. Good(Start, c, {})
  BY <1>5 DEF Good, Start, Between
<1> QED BY <1>1, <1>2, <1>4, <1>6 DEF Sent

LEMMA SentWith ==
    ASSUME NEW c, NEW u, NEW S, NEW n, Sent(c, u, S, n), NEW w \in Seq(Tok(c)), NEW T,
           \A s : Good(s, c, S) => \E t : Parses(s, w, t) /\ Good(t, c, T)
    PROVE  Sent(c, u \o w, T, n + Len(w))
<1>1. u \in Seq(Tok(c)) /\ Len(u) = n /\ n \in Nat \ {0} /\ u[1] = Obj /\ Len(w) \in Nat
  BY LenProperties DEF Sent
<1>2. PICK v : v = u \o w
  OBVIOUS
<1>3. v \in Seq(Tok(c)) /\ Len(v) = n + Len(w) /\ v[1] = Obj /\ n + Len(w) \in Nat \ {0}
  <2>1. /\ v \in Seq(Tok(c)) /\ Len(v) = Len(u) + Len(w)
        /\ \A k \in 1 .. Len(u) + Len(w) : v[k] = IF k <= Len(u) THEN u[k] ELSE w[k - Len(u)]
    BY <1>1, <1>2, ConcatProperties
  <2>2. 1 \in 1 .. Len(u) + Len(w) /\ 1 <= Len(u)
    BY <1>1
  <2> QED BY <1>1, <2>1, <2>2
<1>4. PICK s, t : Parses(Start, u, s) /\ Parses(s, w, t) /\ Good(t, c, T)
  BY DEF Sent
<1>5. Parses(Start, v, t)
  BY <1>1, <1>2, <1>4, ParsesThen
<1> QED BY <1>2, <1>3, <1>4, <1>5 DEF Sent

LEMMA ParametersAre ==
    ASSUME NEW c, IsMeant(c), NEW p \in Parameters(c)
    PROVE  p \in Seq(Tok(c)) /\ Len(p) = IF c.type # "CHAL_SPATH" THEN 2 ELSE 4
<1>1. CASE c.type # "CHAL_SPATH"
  <2>1. p = <<Str("nb_elements"), Prim(c.size)>>
    BY <1>1 DEF Parameters
  <2> QED BY <1>1, <2>1 DEF Tok
<1>2. CASE c.type = "CHAL_SPATH"
  <2>1. PICK size : size = <<Str("grid_size"), Prim(c.size)>>
    OBVIOUS
  <2>2. PICK nblks : nblks = <<Str("nb_blockers"), Prim(c.nblks)>>
    OBVIOUS
  <2>3. p \in {size \o nblks, nblks \o size}
    BY <1>2, <2>1, <2>2 DEF Parameters
  <2>4. /\ size \in Seq(Tok(c)) /\ nblks \in Seq(Tok(c)) /\ Len(size) = 2 /\ Len(nblks) = 2
    BY <2>1, <2>2 DEF Tok
  <2>5. /\ size \o nblks \in Seq(Tok(c)) /\ Len(size \o nblks) = Len(size) + Len(nblks)
        /\ nblks \o size \in Seq(Tok(c)) /\ Len(nblks \o size) = Len(nblks) + Len(size)
    BY <2>4, ConcatProperties
  <2>6. Len(size) + Len(nblks) = 4 /\ Len(nblks) + Len(size) = 4
    BY <2>4
  <2>7. p \in Seq(Tok(c)) /\ Len(p) = 4
    BY <2>3, <2>5, <2>6
  <2> QED BY <1>2, <2>7
<1> QED BY <1>1, <1>2

FieldLen(c, j) == IF j # 7 THEN 2 ELSE IF c.type # "CHAL_SPATH" THEN 4 ELSE 6

LEMMA FieldsAre ==
    ASSUME NEW c, IsMeant(c), NEW p \in Parameters(c), NEW j \in 1 .. 7
    PROVE  Fields(c, p)[j] \in Seq(Tok(c)) /\ Len(Fields(c, p)[j]) = FieldLen(c, j)
<1>1. CASE j = 7
  <2>1. PICK u : u = <<Str("parameters"), Obj>>
    OBVIOUS
  <2>2. u \in Seq(Tok(c)) /\ Len(u) = 2
    BY <2>1 DEF Tok
  <2>3. Fields(c, p)[j] = u \o p
    BY <1>1, <2>1 DEF Fields
  <2>4. p \in Seq(Tok(c)) /\ Len(p) = IF c.type # "CHAL_SPATH" THEN 2 ELSE 4
    BY ParametersAre
  <2>5. u \o p \in Seq(Tok(c)) /\ Len(u \o p) = Len(u) + Len(p)
    BY <2>2, <2>4, ConcatProperties
  <2> QED BY <1>1, <2>2, <2>3, <2>4, <2>5 DEF FieldLen
<1>2. ASSUME NEW x \in Tok(c), NEW y \in Tok(c), Fields(c, p)[j] = <<x, y>>, j # 7
      PROVE  Fields(c, p)[j] \in Seq(Tok(c)) /\ Len(Fields(c, p)[j]) = FieldLen(c, j)
  <2>1. <<x, y>> \in Seq(Tok(c)) /\ Len(<<x, y>>) = 2
    OBVIOUS
  <2> QED BY <1>2, <2>1 DEF FieldLen
<1>3. CASE j = 1
  BY <1>2, <1>3 DEF Fields, Tok
<1>4. CASE j = 2
  BY <1>2, <1>4 DEF Fields, Tok
<1>5. CASE j = 3
  BY <1>2, <1>5 DEF Fields, Tok
<1>6. CASE j = 4
  BY <1>2, <1>6 DEF Fields, Tok
<1>7. CASE j = 5
  BY <1>2, <1>7 DEF Fields, Tok
<1>8. CASE j = 6
  BY <1>2, <1>8 DEF Fields, Tok
<1> QED BY <1>1, <1>3, <1>4, <1>5, <1>6, <1>7, <1>8

LEMMA SentField ==
    ASSUME NEW c, IsMeant(c), NEW p \in Parameters(c), NEW u, NEW S, NEW n, Sent(c, u, S, n),
           NEW j \in 1 .. 7
    PROVE  Sent(c, u \o Fields(c, p)[j], S \cup {j}, n + FieldLen(c, j))
<1>1. ASSUME NEW s, Good(s, c, S)
      PROVE  \E t : Parses(s, Fields(c, p)[j], t) /\ Good(t, c, S \cup {j})
  <2>1. CASE j = 7
    BY <1>1, <2>1, ParametersParse
  <2>2. CASE j \in 1 .. 6
    BY <1>1, <2>2, FieldParses
  <2> QED BY <2>1, <2>2
<1>2. PICK w : w = Fields(c, p)[j]
  OBVIOUS
<1>3. w \in Seq(Tok(c)) /\ Len(w) = FieldLen(c, j)
  BY <1>2, FieldsAre
<1>4. Sent(c, u \o w, S \cup {j}, n + Len(w))
  BY <1>1, <1>2, <1>3, SentWith
<1> QED BY <1>2, <1>3, <1>4

\* An order of the fields is a permutation of them.
LEMMA OrderIs ==
    ASSUME NEW o \in [1 .. 7 -> 1 .. 7], \A j \in 1 .. 7 : \E k \in 1 .. 7 : o[k] = j
    PROVE  \A j, k \in 1 .. 7 : o[j] = o[k] => j = k
<1>1. ASSUME NEW a \in 1 .. 7, NEW b \in 1 .. 7, a # b, o[a] = o[b] PROVE FALSE
  <2>1. PICK T : T = (1 .. 7) \ {b}
    OBVIOUS
  <2>2. \A j \in 1 .. 7 : \E k \in T : o[k] = j
    BY <1>1, <2>1
  <2>3. PICK g : g = [j \in 1 .. 7 |-> CHOOSE k \in T : o[k] = j]
    OBVIOUS
  <2>4. \A j \in 1 .. 7 : g[j] \in T /\ o[g[j]] = j
    BY <2>2, <2>3
  <2>5. g \in [1 .. 7 -> T]
    BY <2>3, <2>4
  <2>6. IsFiniteSet(1 .. 7) /\ Cardinality(1 .. 7) = 7
    <3>1. PICK n \in Nat, m \in Nat : m = 1 /\ n = 7
      OBVIOUS
    <3>2. IsFiniteSet(m .. n) /\ Cardinality(m .. n) = IF m > n THEN 0 ELSE n - m + 1
      BY FS_Interval
    <3> QED BY <3>1, <3>2
  <2>7. IsFiniteSet(T) /\ Cardinality(T) = 6
    BY <1>1, <2>1, <2>6, FS_RemoveElement
  <2>8. PICK x, y \in 1 .. 7 : x # y /\ g[x] = g[y]
    BY <2>5, <2>6, <2>7, FS_PigeonHole
  <2> QED BY <2>4, <2>8
<1> QED BY <1>1

LEMMA SentAll ==
    ASSUME NEW c, IsMeant(c), NEW p \in Parameters(c), NEW o \in [1 .. 7 -> 1 .. 7],
           \A j \in 1 .. 7 : \E k \in 1 .. 7 : o[k] = j
    PROVE  \E u, S : /\ Sent(c, u, S, IF c.type # "CHAL_SPATH" THEN 17 ELSE 19)
                     /\ 1 .. 7 \subseteq S
                     /\ \A x : Answer(c, p, o, x) = u \o x
<1> DEFINE f == Fields(c, p)
           u0 == <<Obj>>
           u1 == u0 \o f[o[1]]
           u2 == u1 \o f[o[2]]
           u3 == u2 \o f[o[3]]
           u4 == u3 \o f[o[4]]
           u5 == u4 \o f[o[5]]
           u6 == u5 \o f[o[6]]
           u7 == u6 \o f[o[7]]
           L(k) == FieldLen(c, o[k])
<1>1. \A x : Answer(c, p, o, x) = u7 \o x
  BY DEF Answer
<1>2. ASSUME NEW k \in 1 .. 7, NEW u, NEW T, NEW m, Sent(c, u, T, m)
      PROVE  Sent(c, u \o f[o[k]], T \cup {o[k]}, m + L(k))
  <2>1. PICK j \in 1 .. 7 : j = o[k]
    OBVIOUS
  <2>2. Sent(c, u \o Fields(c, p)[j], T \cup {j}, m + FieldLen(c, j))
    BY <1>2, SentField
  <2> QED BY <2>1, <2>2
<1>3. Sent(c, u0, {}, 1)
  BY SentBegins
<1>4. PICK l1, l2, l3, l4, l5, l6, l7 :
         l1 = L(1) /\ l2 = L(2) /\ l3 = L(3) /\ l4 = L(4) /\ l5 = L(5) /\ l6 = L(6) /\ l7 = L(7)
  OBVIOUS
<1>5. /\ l1 \in Nat /\ l2 \in Nat /\ l3 \in Nat /\ l4 \in Nat /\ l5 \in Nat /\ l6 \in Nat /\ l7 \in Nat
      /\ 1 + l1 + l2 + l3 + l4 + l5 + l6 + l7 = IF c.type # "CHAL_SPATH" THEN 17 ELSE 19
  <2>1. PICK k \in 1 .. 7 : o[k] = 7
    OBVIOUS
  <2>2. \A j \in 1 .. 7 : j # k => o[j] # 7
    BY <2>1, OrderIs
  <2>3. \A j \in 1 .. 7 : L(j) = IF j # k THEN 2 ELSE IF c.type # "CHAL_SPATH" THEN 4 ELSE 6
    BY <2>1, <2>2 DEF FieldLen
  <2> HIDE DEF L
  <2> QED BY <1>4, <2>3
<1> HIDE DEF f, L
<1>6. PICK s1 : s1 = {} \cup {o[1]}
  OBVIOUS
<1>7. Sent(c, u1, s1, 1 + l1)
  BY <1>2, <1>3, <1>4, <1>6
<1>8. PICK s2 : s2 = s1 \cup {o[2]}
  OBVIOUS
<1>9. Sent(c, u2, s2, 1 + l1 + l2)
  BY <1>2, <1>4, <1>7, <1>8
<1>10. PICK s3 : s3 = s2 \cup {o[3]}
  OBVIOUS
<1>11. Sent(c, u3, s3, 1 + l1 + l2 + l3)
  BY <1>2, <1>4, <1>9, <1>10
<1>12. PICK s4 : s4 = s3 \cup {o[4]}
  OBVIOUS
<1>13. Sent(c, u4, s4, 1 + l1 + l2 + l3 + l4)
  BY <1>2, <1>4, <1>11, <1>12
<1>14. PICK s5 : s5 = s4 \cup {o[5]}
  OBVIOUS
<1>15. Sent(c, u5, s5, 1 + l1 + l2 + l3 + l4 + l5)
  BY <1>2, <1>4, <1>13, <1>14
<1>16. PICK s6 : s6 = s5 \cup {o[6]}
  OBVIOUS
<1>17. Sent(c, u6, s6, 1 + l1 + l2 + l3 + l4 + l5 + l6)
  BY <1>2, <1>4, <1>15, <1>16
<1>18. PICK s7 : s7 = s6 \cup {o[7]}
  OBVIOUS
<1>19. Sent(c, u7, s7, 1 + l1 + l2 + l3 + l4 + l5 + l6 + l7)
  BY <1>2, <1>4, <1>17, <1>18
<1>20. 1 .. 7 \subseteq s7
  <2>1. \A k \in 1 .. 7 : o[k] \in s7
    BY <1>6, <1>8, <1>10, <1>12, <1>14, <1>16, <1>18
  <2> QED BY <2>1
<1> QED BY <1>1, <1>5, <1>19, <1>20

\* A pair with an unknown key is passed over, an array and an unknown name are refused.
LEMMA Followed ==
    ASSUME NEW c, IsMeant(c), NEW S, NEW s, Good(s, c, S)
    PROVE  /\ \E t : Parses(s, Unknown, t) /\ Good(t, c, S)
           /\ \E t : Parses(s, <<Str("solvers"), Arr>>, t) /\ t.ret # 0
           /\ \E t : Parses(s, <<Str("challenge_name"), Str("coloring")>>, t) /\ t.ret # 0
<1>0. PICK k, v, e : s = Between(k, v, e) /\ e = Partial(c, S)
  BY DEF Good
<1>1. \E t : Parses(s, Unknown, t) /\ Good(t, c, S)
  <2>1. PICK tok : tok = Prim(3)
    OBVIOUS
  <2>2. Unknown = Pair("nb_solvers", tok)
    BY <2>1 DEF Unknown, Pair
  <2>3. tok.type \in {"JSMN_STRING", "JSMN_PRIMITIVE"}
    BY <2>1, TokensAre
  <2>4. Sets("nb_solvers", tok.says, e, e)
    BY IgnoredSets
  <2>5. Parses(s, Unknown, Between(Key("nb_solvers"), tok.says, e))
    BY <1>0, <2>2, <2>3, <2>4, PairParses
  <2>6. Good(Between(Key("nb_solvers"), tok.says, e), c, S)
    BY <1>0 DEF Good
  <2> QED BY <2>5, <2>6
<1>2. \E t : Parses(s, <<Str("solvers"), Arr>>, t) /\ t.ret # 0
  <2>1. PICK s1 : s1 = State(1, Key("solvers"), v, e, 0)
    OBVIOUS
  <2>2. Turn(s, Str("solvers")) = s1
    BY <1>0, <2>1, TurnsKey DEF Key
  <2>3. s1.d = 1 /\ s1.k = Key("solvers") /\ s1.v = v /\ s1.chal = e /\ s1.ret = 0
    BY <2>1, StateIs
  <2>4. Token(s1, Arr) = State(1, Key("solvers"), v, e, -1)
    BY <2>3 DEF Token, Arr
  <2>5. Turn(s1, Arr).ret = -1
    BY <2>3, <2>4, StateIs DEF Turn
  <2>6. Parses(s, <<Str("solvers"), Arr>>, Turn(s1, Arr))
    BY <2>2, ParsesTwo
  <2> QED BY <2>5, <2>6
<1>3. \E t : Parses(s, <<Str("challenge_name"), Str("coloring")>>, t) /\ t.ret # 0
  <2>1. PICK tok : tok = Str("coloring")
    OBVIOUS
  <2>2. tok.type \in {"JSMN_STRING", "JSMN_PRIMITIVE"} /\ tok.says = <<"text", "coloring">>
    BY <2>1, TokensAre
  <2>3. Turn(Turn(s, Str("challenge_name")), tok)
        = __parse_toks(Paired(Key("challenge_name"), tok.says, e))
    BY <1>0, <2>2, TurnsPair DEF Key
  <2>4. \A t \in Types : tok.says # <<"text", Name[t]>>
    <3>1. \A t \in Types : Name[t] # "coloring"
      BY DEF Types, Name
    <3>2. \A x : tok.says = <<"text", x>> => x = "coloring"
      BY <2>2
    <3> QED BY <3>1, <3>2
  <2>5. Turn(Turn(s, Str("challenge_name")), tok).ret # 0
    BY <2>3, <2>4, NameFails
  <2> QED BY <2>1, <2>5, ParsesTwo
<1> QED BY <1>1, <1>2, <1>3

-----------------------------------------------------------------------------
(* What is parsed *)

Described(c) == [c EXCEPT !.nblks = IF c.type = "CHAL_SPATH" THEN @ ELSE Unset]

IsUnderstood(c, x) == x = <<>> \/ (x = Unknown /\ c.type # "CHAL_SPATH")

Permuted == {o \in [1 .. 7 -> 1 .. 7] : \A j \in 1 .. 7 : \E k \in 1 .. 7 : o[k] = j}

LEMMA PartialIs ==
    ASSUME NEW c \in Challenges, NEW S, 1 .. 7 \subseteq S
    PROVE  Partial(c, S) = Described(c)
<1>1. PICK t \in Types, n \in Nat : c = Meant(t, n)
  BY ShortPathAssumption, AttemptAssumption DEF Challenges, Types
<1>2. 2 \in S /\ 3 \in S /\ 4 \in S /\ 5 \in S /\ 6 \in S /\ 7 \in S
  OBVIOUS
<1>3. Partial(c, S) = [type |-> c.type, id |-> c.id, left |-> c.left, pfix |-> c.pfix,
                       lhash |-> c.lhash, size |-> c.size,
                       nblks |-> IF c.type = "CHAL_SPATH" THEN c.nblks ELSE Unset]
  BY <1>2 DEF Partial
<1>4. PICK b : b = IF c.type = "CHAL_SPATH" THEN c.nblks ELSE Unset
  OBVIOUS
<1>5. Described(c) = [c EXCEPT !.nblks = b]
  BY <1>4 DEF Described
<1>6. [c EXCEPT !.nblks = b] = [type |-> c.type, id |-> c.id, left |-> c.left, pfix |-> c.pfix,
                                lhash |-> c.lhash, size |-> c.size, nblks |-> b]
  BY <1>1 DEF Meant
<1> QED BY <1>3, <1>4, <1>5, <1>6

LEMMA GoodIs ==
    ASSUME NEW c, NEW S, NEW t, Good(t, c, S)
    PROVE  t.ret = 0 /\ t.chal = Partial(c, S)
  BY StateIs DEF Good, Between

\* The parser of an answer, whatever the order of its fields and parameters, has what it
\* describes, or refuses it when it holds what the parser does not know (parse.c:66-121).
THEOREM AnswerIs ==
    ASSUME NEW c \in Challenges, NEW p \in Parameters(c), NEW o \in Permuted, NEW x \in Extras
    PROVE  /\ Answer(c, p, o, x) # <<>>
           /\ IsUnderstood(c, x) => /\ chal_parse(Answer(c, p, o, x)).ret = 0
                                    /\ chal_parse(Answer(c, p, o, x)).chal = Described(c)
           /\ ~IsUnderstood(c, x) => chal_parse(Answer(c, p, o, x)).ret # 0
<1>0. IsMeant(c)
  BY MeantIs
<1>1. PICK m : m = IF c.type # "CHAL_SPATH" THEN 17 ELSE 19
  OBVIOUS
<1>2. PICK u, S : /\ Sent(c, u, S, m) /\ 1 .. 7 \subseteq S
                  /\ \A y : Answer(c, p, o, y) = u \o y
  <2>1. o \in [1 .. 7 -> 1 .. 7] /\ \A j \in 1 .. 7 : \E k \in 1 .. 7 : o[k] = j
    BY DEF Permuted
  <2>2. PICK u, S : /\ Sent(c, u, S, IF c.type # "CHAL_SPATH" THEN 17 ELSE 19)
                    /\ 1 .. 7 \subseteq S /\ \A y : Answer(c, p, o, y) = u \o y
    BY <1>0, <2>1, SentAll
  <2> QED BY <1>1, <2>2
<1>3. /\ u \in Seq(Tok(c)) /\ Len(u) = m /\ u[1] = Obj
      /\ \E s : Parses(Start, u, s) /\ Good(s, c, S)
  BY <1>2 DEF Sent
<1>4. PICK s : Parses(Start, u, s) /\ Good(s, c, S)
  BY <1>3
<1>5. Partial(c, S) = Described(c)
  BY <1>2, PartialIs
<1>6. PICK a : a = u \o x
  OBVIOUS
<1>7. Answer(c, p, o, x) = a
  BY <1>2, <1>6
<1>8. MAX_TOKENS = 19
  BY DEF MAX_TOKENS
<1>9. CASE x = <<>>
  <2>1. a = u
    BY <1>3, <1>6, <1>9, ConcatEmptySeq
  <2>2. Len(a) >= 1 /\ ~(Len(a) > MAX_TOKENS) /\ a[1] = Obj
    <3>1. Len(a) = m /\ a[1] = Obj
      BY <1>3, <2>1
    <3>2. m \in 17 .. 19
      BY <1>1
    <3> QED BY <1>8, <3>1, <3>2
  <2>3. parse_toks(a) = s
    BY <1>3, <1>4, <2>1, <2>2, ParseIs
  <2>4. chal_parse(a) = s
    BY <2>2, <2>3 DEF chal_parse
  <2>5. s.ret = 0 /\ s.chal = Described(c)
    BY <1>4, <1>5, GoodIs
  <2>6. a # <<>>
    BY <2>2
  <2>7. IsUnderstood(c, x)
    BY <1>9 DEF IsUnderstood
  <2> QED BY <1>7, <2>4, <2>5, <2>6, <2>7
<1>10. ASSUME NEW w1 \in Tok(c), NEW w2 \in Tok(c), x = <<w1, w2>>
       PROVE  /\ x \in Seq(Tok(c)) /\ x # <<>> /\ Len(a) = m + 2 /\ a[1] = Obj /\ a # <<>>
              /\ \A t : Parses(s, x, t) => parse_toks(a) = t
  <2>1. x \in Seq(Tok(c)) /\ Len(x) = 2
    BY <1>10
  <2>2. /\ a \in Seq(Tok(c)) /\ Len(a) = Len(u) + Len(x)
        /\ \A k \in 1 .. Len(u) + Len(x) : a[k] = IF k <= Len(u) THEN u[k] ELSE x[k - Len(u)]
    BY <1>3, <1>6, <2>1, ConcatProperties
  <2>3. 1 \in 1 .. Len(u) + Len(x) /\ 1 <= Len(u)
    BY <1>1, <1>3, <2>1
  <2>4. a[1] = Obj
    BY <1>3, <2>2, <2>3
  <2>5. Len(a) = m + 2 /\ Len(a) >= 1
    BY <1>1, <1>3, <2>1, <2>2
  <2>6. ASSUME NEW t, Parses(s, x, t) PROVE parse_toks(a) = t
    <3>1. Parses(Start, a, t)
      BY <1>3, <1>4, <1>6, <2>1, <2>6, ParsesThen
    <3> QED BY <2>2, <2>4, <2>5, <3>1, ParseIs
  <2>7. x # <<>>
    <3>1. Len(x) = 2
      BY <2>1
    <3>2. Len(<<>>) = 0
      OBVIOUS
    <3> QED BY ONLY <3>1, <3>2
  <2>8. a # <<>>
    BY <2>5
  <2> QED BY <2>1, <2>4, <2>5, <2>6, <2>7, <2>8
<1>11. CASE x = Unknown
  <2>1. /\ x \in Seq(Tok(c)) /\ x # <<>> /\ Len(a) = m + 2 /\ a[1] = Obj /\ a # <<>>
        /\ \A t : Parses(s, x, t) => parse_toks(a) = t
    BY <1>10, <1>11 DEF Unknown, Tok
  <2>2. CASE c.type # "CHAL_SPATH"
    <3>1. ~(Len(a) > MAX_TOKENS)
      BY <1>1, <1>8, <2>1, <2>2
    <3>2. PICK t : Parses(s, x, t) /\ Good(t, c, S)
      BY <1>0, <1>4, <1>11, Followed
    <3>3. chal_parse(a) = t
      BY <2>1, <3>1, <3>2 DEF chal_parse
    <3>4. t.ret = 0 /\ t.chal = Described(c)
      BY <1>5, <3>2, GoodIs
    <3>5. IsUnderstood(c, x)
      BY <1>11, <2>2 DEF IsUnderstood
    <3> QED BY <1>7, <2>1, <3>3, <3>4, <3>5
  <2>3. CASE c.type = "CHAL_SPATH"
    <3>1. Len(a) > MAX_TOKENS
      BY <1>1, <1>8, <2>1, <2>3
    <3>2. chal_parse(a) = [Start EXCEPT !.ret = -1]
      BY <3>1 DEF chal_parse
    <3>3. [Start EXCEPT !.ret = -1].ret = -1
      BY DEF Start, State
    <3>4. ~IsUnderstood(c, x)
      BY <2>1, <2>3 DEF IsUnderstood
    <3> QED BY <1>7, <2>1, <3>2, <3>3, <3>4
  <2> QED BY <2>2, <2>3
<1>12. ASSUME x # Unknown, NEW w1 \in Tok(c), NEW w2 \in Tok(c), x = <<w1, w2>>,
              NEW t, Parses(s, x, t), t.ret # 0
       PROVE  a # <<>> /\ ~IsUnderstood(c, x) /\ chal_parse(a).ret # 0
  <2>1. /\ x \in Seq(Tok(c)) /\ x # <<>> /\ Len(a) = m + 2 /\ a[1] = Obj /\ a # <<>>
        /\ \A r : Parses(s, x, r) => parse_toks(a) = r
    BY <1>10, <1>12
  <2>2. ~IsUnderstood(c, x)
    BY <1>12, <2>1 DEF IsUnderstood
  <2>3. chal_parse(a).ret # 0
    <3>1. CASE Len(a) > MAX_TOKENS
      <4>1. chal_parse(a) = [Start EXCEPT !.ret = -1]
        BY <3>1 DEF chal_parse
      <4>2. [Start EXCEPT !.ret = -1].ret = -1
        BY DEF Start, State
      <4> QED BY <4>1, <4>2
    <3>2. CASE ~(Len(a) > MAX_TOKENS)
      BY <1>12, <2>1, <3>2 DEF chal_parse
    <3> QED BY <3>1, <3>2
  <2> QED BY <2>1, <2>2, <2>3
<1>13. CASE x = <<Str("solvers"), Arr>>
  <2>1. PICK t : Parses(s, x, t) /\ t.ret # 0
    BY <1>0, <1>4, <1>13, Followed
  <2>2. x # Unknown
    <3>1. x[1] = Str("solvers") /\ Unknown[1] = Str("nb_solvers")
      BY <1>13 DEF Unknown
    <3>2. Str("solvers") # Str("nb_solvers")
      BY DEF Str
    <3> QED BY <3>1, <3>2
  <2>3. Str("solvers") \in Tok(c) /\ Arr \in Tok(c)
    BY DEF Tok
  <2> QED BY <1>7, <1>12, <1>13, <2>1, <2>2, <2>3
<1>14. CASE x = <<Str("challenge_name"), Str("coloring")>>
  <2>1. PICK t : Parses(s, x, t) /\ t.ret # 0
    BY <1>0, <1>4, <1>14, Followed
  <2>2. x # Unknown
    <3>1. x[1] = Str("challenge_name") /\ Unknown[1] = Str("nb_solvers")
      BY <1>14 DEF Unknown
    <3>2. Str("challenge_name") # Str("nb_solvers")
      BY DEF Str
    <3> QED BY <3>1, <3>2
  <2>3. Str("challenge_name") \in Tok(c) /\ Str("coloring") \in Tok(c)
    BY DEF Tok
  <2> QED BY <1>7, <1>12, <1>14, <2>1, <2>2, <2>3
<1> QED BY <1>9, <1>11, <1>13, <1>14 DEF Extras

-----------------------------------------------------------------------------
\* The answer is one about meant until it is parsed.
ParseInv == /\ meant \in Challenges /\ extra \in Extras
            /\ reply # <<>> => \E p \in Parameters(meant), o \in Permuted : reply = Answer(meant, p, o, extra)
            /\ reply = <<>> => IF IsUnderstood(meant, extra) THEN chal = Described(meant) ELSE refused

LEMMA OrdersAre == \A c : Orders(c) \subseteq Permuted /\ AsListed \in Permuted
<1>1. AsListed \in Permuted
  BY DEF AsListed, Permuted
<1>2. AnyOrder \subseteq Permuted
  BY DEF AnyOrder, Permuted
<1> QED BY <1>1, <1>2 DEF Orders

LEMMA ParseInvInit == Init => ParseInv
<1> SUFFICES ASSUME Init PROVE ParseInv
  OBVIOUS
<1>1. meant \in Challenges /\ extra \in Extras
  BY DEF Init
<1>2. PICK p \in Parameters(meant), o \in Permuted : reply = Answer(meant, p, o, extra)
  BY OrdersAre DEF Init
<1>3. reply # <<>>
  BY <1>1, <1>2, AnswerIs
<1> QED BY <1>1, <1>2, <1>3 DEF ParseInv

LEMMA ParseInvNext == ParseInv /\ [Next]_vars => ParseInv'
<1> SUFFICES ASSUME ParseInv, [Next]_vars PROVE ParseInv'
  OBVIOUS
<1>1. CASE NewChallenge
  <2>0. meant' = meant /\ extra' = extra /\ reply' = <<>>
    BY <1>1 DEF NewChallenge
  <2>1. PICK p \in Parameters(meant), o \in Permuted : reply = Answer(meant, p, o, extra)
    BY <1>1 DEF NewChallenge, ParseInv
  <2>2. meant \in Challenges /\ extra \in Extras
    BY DEF ParseInv
  <2>3. PICK st : st = chal_parse(reply)
    OBVIOUS
  <2>4. /\ refused' = (st.ret # 0) /\ chal' = IF st.ret # 0 THEN NoChallenge ELSE st.chal
    BY <1>1, <2>3 DEF NewChallenge
  <2>5. /\ IsUnderstood(meant, extra) => st.ret = 0 /\ st.chal = Described(meant)
        /\ ~IsUnderstood(meant, extra) => st.ret # 0
    BY <2>1, <2>2, <2>3, AnswerIs
  <2>6. IF IsUnderstood(meant, extra) THEN chal' = Described(meant) ELSE refused'
    BY <2>4, <2>5
  <2> QED BY <2>0, <2>2, <2>6 DEF ParseInv
<1>2. CASE UNCHANGED chalvars
  BY <1>2 DEF chalvars, ParseInv
<1>3. CASE DrawNums
  BY <1>2, <1>3 DEF DrawNums
<1>4. CASE SortNums
  BY <1>2, <1>4 DEF SortNums
<1>5. CASE HashNums
  BY <1>2, <1>5 DEF HashNums
<1>6. CASE Search
  BY <1>2, <1>6 DEF Search
<1>7. CASE UNCHANGED vars
  BY <1>2, <1>7 DEF vars
<1> QED BY <1>1, <1>3, <1>4, <1>5, <1>6, <1>7 DEF Next, Done

LEMMA ParseInvIs == Spec => []ParseInv
<1>1. Init => ParseInv
  BY ParseInvInit
<1>2. ParseInv /\ [Next]_vars => ParseInv'
  BY ParseInvNext
<1> QED BY <1>1, <1>2, PTL DEF Spec

\* In whatever order the CA names the fields and the parameters, for every size of a list
\* and of the grid, the solvers get the challenge that it describes, and an answer with
\* an unknown name, an array or too many tokens is refused (parse.c:18-155).
THEOREM AnyOrderParsed == Spec => []ParsesAnyOrder
<1>1. ParseInv => ParsesAnyOrder
  BY DEF ParseInv, ParsesAnyOrder, Understood, IsUnderstood, Described
<1> QED BY <1>1, ParseInvIs, PTL

-----------------------------------------------------------------------------
(* Functions that are defined by recursion *)

Follows(f, n, a, g) == f[0] = a /\ \A k \in 1 .. n : f[k] = g[<<k, f[k - 1]>>]

\* There is one that follows g from a on.
LEMMA FollowedBy ==
    ASSUME NEW n \in Nat, NEW S, NEW a \in S, NEW g \in [(1 .. n) \X S -> S]
    PROVE  \E f \in [0 .. n -> S] : Follows(f, n, a, g)
<1> USE DEF Follows
<1> DEFINE N == {m \in Nat : m <= n /\ ~\E f \in [0 .. m -> S] : Follows(f, m, a, g)}
<1>1. ASSUME N # {} PROVE FALSE
  <2>1. PICK m \in N : \A j \in N : m <= j
    <3>1. N \in SUBSET Nat
      OBVIOUS
    <3> HIDE DEF N
    <3> QED BY <1>1, <3>1, Least
  <2>2. m \in Nat /\ m <= n /\ ~\E f \in [0 .. m -> S] : Follows(f, m, a, g)
    OBVIOUS
  <2>3. CASE m = 0
    <3>1. PICK f : f = [k \in 0 .. 0 |-> a]
      OBVIOUS
    <3>2. f \in [0 .. 0 -> S] /\ f[0] = a
      BY <3>1
    <3> QED BY <2>2, <2>3, <3>2
  <2>4. CASE m # 0
    <3>0. m - 1 \in Nat
      BY <2>2, <2>4
    <3>1. m - 1 \in Nat /\ m - 1 \notin N
      <4> HIDE DEF N
      <4> QED BY <2>1, <2>2, <3>0
    <3>2. PICK f \in [0 .. m - 1 -> S] : Follows(f, m - 1, a, g)
      BY <2>2, <3>1
    <3>3. PICK e : e = g[<<m, f[m - 1]>>]
      OBVIOUS
    <3>4. e \in S
      <4>1. m \in 1 .. n /\ m - 1 \in 0 .. m - 1
        BY <2>2, <2>4
      <4>2. <<m, f[m - 1]>> \in (1 .. n) \X S
        BY <4>1
      <4> QED BY <3>3, <4>2
    <3>5. PICK h : h = [k \in 0 .. m |-> IF k = m THEN e ELSE f[k]]
      OBVIOUS
    <3>6. h[m] = e /\ \A k \in 0 .. m - 1 : h[k] = f[k]
      BY <2>2, <3>5
    <3>7. h \in [0 .. m -> S]
      <4>1. \A k \in 0 .. m : k # m => k \in 0 .. m - 1
        BY <2>2
      <4> QED BY <3>4, <3>5, <4>1
    <3>8. ASSUME NEW k \in 1 .. m PROVE h[k] = g[<<k, h[k - 1]>>]
      <4>1. CASE k = m
        <5>1. m - 1 \in 0 .. m - 1
          BY <2>2, <2>4
        <5> QED BY <3>3, <3>6, <4>1, <5>1
      <4>2. CASE k # m
        <5>1. k \in 1 .. m - 1 /\ k \in 0 .. m - 1 /\ k - 1 \in 0 .. m - 1
          BY <2>2, <4>2
        <5> QED BY <3>2, <3>6, <5>1
      <4> QED BY <4>1, <4>2
    <3>9. h[0] = a
      <4>1. 0 \in 0 .. m - 1
        BY <2>2, <2>4
      <4> QED BY <3>2, <3>6, <4>1
    <3> QED BY <2>2, <3>7, <3>8, <3>9
  <2> QED BY <2>3, <2>4
<1>2. n \notin N
  BY <1>1
<1> QED BY <1>2

LEMMA PowerIs ==
    /\ Power10[0] = 1
    /\ \A k \in 1 .. U64STRLEN : Power10[k] = 10 * Power10[k - 1]
    /\ \A k \in 0 .. U64STRLEN : Power10[k] \in Nat \ {0}
<1> DEFINE Rec(F) == F = [k \in 0 .. U64STRLEN |-> IF k = 0 THEN 1 ELSE 10 * F[k - 1]]
           P == Nat \ {0}
<1>0. U64STRLEN \in Nat
  BY AttemptAssumption
<1>1. PICK g : g = [x \in (1 .. U64STRLEN) \X P |-> 10 * x[2]]
  OBVIOUS
<1>2. g \in [(1 .. U64STRLEN) \X P -> P]
  <2>1. \A x \in (1 .. U64STRLEN) \X P : 10 * x[2] \in P
    OBVIOUS
  <2> QED BY <1>1, <2>1
<1>3. PICK f \in [0 .. U64STRLEN -> P] :
         f[0] = 1 /\ \A k \in 1 .. U64STRLEN : f[k] = g[<<k, f[k - 1]>>]
  <2>1. PICK Q : Q = P
    OBVIOUS
  <2>2. g \in [(1 .. U64STRLEN) \X Q -> Q] /\ 1 \in Q
    BY <1>2, <2>1
  <2>3. \E f \in [0 .. U64STRLEN -> Q] : Follows(f, U64STRLEN, 1, g)
    BY <1>0, <2>2, FollowedBy
  <2> QED BY <2>1, <2>3 DEF Follows
<1>4. \A k \in 1 .. U64STRLEN : f[k] = 10 * f[k - 1]
  <2>1. ASSUME NEW k \in 1 .. U64STRLEN PROVE f[k] = 10 * f[k - 1]
    <3>1. k - 1 \in 0 .. U64STRLEN
      BY <1>0
    <3>2. <<k, f[k - 1]>> \in (1 .. U64STRLEN) \X P
      BY <3>1
    <3> QED BY <1>1, <1>3, <3>2
  <2> QED BY <2>1
<1>5. Rec(f)
  <2>1. \A k \in 0 .. U64STRLEN : f[k] = IF k = 0 THEN 1 ELSE 10 * f[k - 1]
    BY <1>0, <1>3, <1>4
  <2> QED BY <2>1
<1>6. Rec(Power10)
  <2>1. Power10 = CHOOSE F : Rec(F)
    BY DEF Power10
  <2> HIDE DEF Rec
  <2> QED BY <1>5, <2>1
<1>7. \A k \in 0 .. U64STRLEN : Power10[k] = IF k = 0 THEN 1 ELSE 10 * Power10[k - 1]
  BY <1>6
<1>8. Power10[0] = 1 /\ \A k \in 1 .. U64STRLEN : Power10[k] = 10 * Power10[k - 1]
  BY <1>0, <1>7
<1>9. \A k \in 0 .. U64STRLEN : Power10[k] \in P
  <2> DEFINE N == {k \in Nat : k <= U64STRLEN /\ Power10[k] \notin P}
  <2>1. ASSUME N # {} PROVE FALSE
    <3>1. PICK k \in N : \A j \in N : k <= j
      <4>1. N \in SUBSET Nat
        OBVIOUS
      <4> HIDE DEF N
      <4> QED BY <2>1, <4>1, Least
    <3>2. k \in Nat /\ k <= U64STRLEN /\ Power10[k] \notin P
      OBVIOUS
    <3>3. k # 0
      BY <1>8, <3>2
    <3>4. k - 1 \in Nat /\ k - 1 \notin N /\ k \in 1 .. U64STRLEN
      BY <1>0, <3>1, <3>2, <3>3
    <3>5. Power10[k - 1] \in P
      BY <1>0, <3>2, <3>4
    <3> QED BY <1>8, <3>2, <3>4, <3>5
  <2> QED BY <1>0, <2>1
<1> QED BY <1>8, <1>9

-----------------------------------------------------------------------------
(* Digits *)

LEMMA Tenth ==
    ASSUME NEW n \in Nat, NEW b \in Nat \ {0}
    PROVE  /\ n \div 10 \in Nat /\ 10 * (n \div 10) <= n /\ n < 10 * (n \div 10) + 10
           /\ (n \div 10) \div b = n \div (10 * b)
           /\ 10 * b <= n <=> b <= n \div 10
<1>1. n \div 10 \in Nat /\ 10 * (n \div 10) <= n /\ n < 10 * (n \div 10) + 10
  OBVIOUS
<1>2. (n \div 10) \div b = n \div (10 * b)
  OBVIOUS
<1>3. 10 * b <= n <=> b <= n \div 10
  BY <1>1
<1> QED BY <1>1, <1>2, <1>3

\* The recursion of Digits.
OfRec(D, n) == D = [v \in 0 .. n |-> IF v = 0 THEN <<>> ELSE <<48 + (v % 10)>> \o D[v \div 10]]

LEMMA DigitsExist == \A n \in Nat : \E D : OfRec(D, n)
<1> DEFINE N == {n \in Nat : ~\E D : OfRec(D, n)}
<1>1. ASSUME N # {} PROVE FALSE
  <2>1. PICK n \in N : \A j \in N : n <= j
    <3>1. N \in SUBSET Nat
      OBVIOUS
    <3> HIDE DEF N
    <3> QED BY <1>1, <3>1, Least
  <2>2. n \in Nat /\ ~\E D : OfRec(D, n)
    OBVIOUS
  <2>3. CASE n = 0
    <3>1. PICK D : D = [v \in 0 .. 0 |-> <<>>]
      OBVIOUS
    <3>2. D = [v \in 0 .. 0 |-> IF v = 0 THEN <<>> ELSE <<48 + (v % 10)>> \o D[v \div 10]]
      BY <3>1
    <3> QED BY <2>2, <2>3, <3>2 DEF OfRec
  <2>4. CASE n # 0
    <3>1. n - 1 \in Nat /\ n - 1 \notin N
      BY <2>1, <2>2, <2>4
    <3>2. PICK D : OfRec(D, n - 1)
      BY <3>1
    <3>3. PICK e : e = <<48 + (n % 10)>> \o D[n \div 10]
      OBVIOUS
    <3>4. PICK E : E = [v \in 0 .. n |-> IF v = n THEN e ELSE D[v]]
      OBVIOUS
    <3>5. \A v \in 0 .. n - 1 : E[v] = D[v]
      BY <2>2, <3>4
    <3>6. \A v \in Nat \ {0} : v <= n => v \div 10 \in 0 .. n - 1
      <4>1. ASSUME NEW v \in Nat \ {0}, v <= n PROVE v \div 10 \in 0 .. n - 1
        <5>1. v \div 10 \in Nat /\ 10 * (v \div 10) <= v
          BY Tenth
        <5> QED BY <2>2, <4>1, <5>1
      <4> QED BY <4>1
    <3>7. ASSUME NEW v \in 0 .. n
          PROVE  E[v] = IF v = 0 THEN <<>> ELSE <<48 + (v % 10)>> \o E[v \div 10]
      <4>1. CASE v = n
        <5>1. E[v] = e /\ v # 0 /\ v \div 10 \in 0 .. n - 1
          BY <2>2, <2>4, <3>4, <3>6, <4>1
        <5>2. E[v \div 10] = D[v \div 10]
          BY <3>5, <5>1
        <5> QED BY <3>3, <4>1, <5>1, <5>2
      <4>2. CASE v # n
        <5>1. v \in 0 .. n - 1 /\ E[v] = D[v]
          BY <2>2, <3>5, <4>2
        <5>2. D[v] = IF v = 0 THEN <<>> ELSE <<48 + (v % 10)>> \o D[v \div 10]
          BY <3>2, <5>1 DEF OfRec
        <5>3. CASE v = 0
          BY <5>1, <5>2, <5>3
        <5>4. CASE v # 0
          <6>1. v \div 10 \in 0 .. n - 1
            BY <2>2, <3>6, <5>4
          <6>2. E[v \div 10] = D[v \div 10]
            BY <3>5, <6>1
          <6> QED BY <5>1, <5>2, <6>2
        <5> QED BY <5>3, <5>4
      <4> QED BY <4>1, <4>2
    <3>8. DOMAIN E = 0 .. n
      BY <3>4
    <3>9. OfRec(E, n)
      <4>1. E = [v \in 0 .. n |-> E[v]]
        BY <3>4
      <4> QED BY <3>7, <4>1 DEF OfRec
    <3> QED BY <2>2, <3>9
  <2> QED BY <2>3, <2>4
<1> QED BY <1>1

\* What the digits of v are, from the last one on.
AreDigits(d, v) ==
    /\ d \in Seq(Nat) /\ Len(d) <= U64STRLEN
    /\ \A k \in 0 .. U64STRLEN : Power10[k] <= v <=> k < Len(d)
    /\ \A j \in 1 .. Len(d) : d[j] = 48 + ((v \div Power10[j - 1]) % 10)

LEMMA NoDigits == AreDigits(<<>>, 0)
<1>1. PICK d : d = <<>>
  OBVIOUS
<1>2. d \in Seq(Nat) /\ Len(d) = 0
  BY <1>1
<1>3. \A k \in 0 .. U64STRLEN : Power10[k] \in Nat \ {0}
  BY PowerIs
<1>4. \A k \in 0 .. U64STRLEN : ~(Power10[k] <= 0) /\ ~(k < Len(d))
  BY <1>2, <1>3, AttemptAssumption
<1>5. Len(d) <= U64STRLEN
  BY <1>2, AttemptAssumption
<1>6. \A j \in 1 .. Len(d) : FALSE
  BY <1>2
<1> QED BY <1>1, <1>2, <1>4, <1>5, <1>6 DEF AreDigits

LEMMA OneDigitMore ==
    ASSUME NEW v \in Nat \ {0}, v < Power10[U64STRLEN], NEW d, AreDigits(d, v \div 10)
    PROVE  AreDigits(<<48 + (v % 10)>> \o d, v)
<1>0. U64STRLEN \in Nat \ {0}
  BY AttemptAssumption
<1>1. PICK e : e = <<48 + (v % 10)>>
  OBVIOUS
<1>2. PICK s : s = e \o d
  OBVIOUS
<1>3. e \in Seq(Nat) /\ Len(e) = 1 /\ e[1] = 48 + (v % 10)
  <2>1. 48 + (v % 10) \in Nat
    OBVIOUS
  <2> QED BY <1>1, <2>1
<1>4. d \in Seq(Nat) /\ Len(d) \in Nat
  BY LenProperties DEF AreDigits
<1>5. /\ s \in Seq(Nat) /\ Len(s) = Len(e) + Len(d)
      /\ \A pos \in 1 .. Len(e) + Len(d) : s[pos] = IF pos <= Len(e) THEN e[pos] ELSE d[pos - Len(e)]
  BY <1>2, <1>3, <1>4, ConcatProperties
<1>6. PICK n \in Nat : n = Len(d)
  BY <1>4
<1>7. Len(s) = n + 1 /\ s[1] = 48 + (v % 10) /\ \A pos \in 2 .. n + 1 : s[pos] = d[pos - 1]
  BY <1>3, <1>5, <1>6
<1>8. /\ \A k \in 0 .. U64STRLEN : Power10[k] <= v \div 10 <=> k < n
      /\ \A j \in 1 .. n : d[j] = 48 + (((v \div 10) \div Power10[j - 1]) % 10)
      /\ n <= U64STRLEN
  BY <1>6 DEF AreDigits
<1>9. \A k \in 0 .. U64STRLEN : Power10[k] <= v <=> k < n + 1
  <2>1. ASSUME NEW k \in 0 .. U64STRLEN PROVE Power10[k] <= v <=> k < n + 1
    <3>1. CASE k = 0
      BY <3>1, PowerIs
    <3>2. CASE k # 0
      <4>1. k - 1 \in 0 .. U64STRLEN /\ k \in 1 .. U64STRLEN
        BY <1>0, <3>2
      <4>2. PICK b \in Nat \ {0} : b = Power10[k - 1] /\ Power10[k] = 10 * b
        BY <4>1, PowerIs
      <4>3. 10 * b <= v <=> b <= v \div 10
        BY Tenth
      <4>4. b <= v \div 10 <=> k - 1 < n
        BY <1>8, <4>1, <4>2
      <4>5. k - 1 < n <=> k < n + 1
        OBVIOUS
      <4> QED BY <4>2, <4>3, <4>4, <4>5
    <3> QED BY <3>1, <3>2
  <2> QED BY <2>1
<1>10. n + 1 <= U64STRLEN
  <2>1. ~(Power10[U64STRLEN] <= v)
    <3>1. Power10[U64STRLEN] \in Nat
      BY <1>0, PowerIs
    <3> QED BY <3>1
  <2>2. U64STRLEN \in 0 .. U64STRLEN
    BY <1>0
  <2>3. ~(U64STRLEN < n + 1)
    BY <1>9, <2>1, <2>2
  <2> QED BY <1>0, <2>3
<1>11. ASSUME NEW j \in 1 .. n + 1 PROVE s[j] = 48 + ((v \div Power10[j - 1]) % 10)
  <2>1. CASE j = 1
    <3>1. Power10[j - 1] = 1
      BY <2>1, PowerIs
    <3>2. v \div 1 = v
      OBVIOUS
    <3> QED BY <1>7, <2>1, <3>1, <3>2
  <2>2. CASE j # 1
    <3>1. j \in 2 .. n + 1 /\ j - 1 \in 1 .. n /\ j - 1 \in 1 .. U64STRLEN /\ (j - 1) - 1 \in 0 .. U64STRLEN
      BY <1>0, <1>8, <2>2
    <3>2. PICK b \in Nat \ {0} : b = Power10[(j - 1) - 1] /\ Power10[j - 1] = 10 * b
      BY <3>1, PowerIs
    <3>3. d[j - 1] = 48 + (((v \div 10) \div b) % 10)
      BY <1>8, <3>1, <3>2
    <3>4. (v \div 10) \div b = v \div (10 * b)
      BY Tenth
    <3>5. s[j] = d[j - 1]
      BY <1>7, <3>1
    <3> QED BY <3>2, <3>3, <3>4, <3>5
  <2> QED BY <2>1, <2>2
<1>12. Len(s) <= U64STRLEN
  BY <1>7, <1>10
<1>13. \A k \in 0 .. U64STRLEN : Power10[k] <= v <=> k < Len(s)
  BY <1>7, <1>9
<1>14. \A j \in 1 .. Len(s) : s[j] = 48 + ((v \div Power10[j - 1]) % 10)
  BY <1>7, <1>11
<1>15. AreDigits(s, v)
  BY <1>5, <1>12, <1>13, <1>14 DEF AreDigits
<1> QED BY <1>1, <1>2, <1>15

LEMMA DigitsAre ==
    ASSUME NEW n \in Nat, n < Power10[U64STRLEN]
    PROVE  AreDigits(Digits(n), n)
<1>1. PICK D : D = CHOOSE E : OfRec(E, n)
  OBVIOUS
<1>2. OfRec(D, n)
  BY <1>1, DigitsExist
<1>3. Digits(n) = D[n]
  BY <1>1 DEF Digits, OfRec
<1>4. Power10[U64STRLEN] \in Nat
  BY PowerIs, AttemptAssumption
<1> DEFINE N == {v \in Nat : v <= n /\ ~AreDigits(D[v], v)}
<1>5. ASSUME N # {} PROVE FALSE
  <2>1. PICK v \in N : \A w \in N : v <= w
    <3>1. N \in SUBSET Nat
      OBVIOUS
    <3> HIDE DEF N
    <3> QED BY <1>5, <3>1, Least
  <2>2. v \in 0 .. n /\ ~AreDigits(D[v], v)
    OBVIOUS
  <2>3. D[v] = IF v = 0 THEN <<>> ELSE <<48 + (v % 10)>> \o D[v \div 10]
    BY <1>2, <2>2 DEF OfRec
  <2>4. v # 0
    BY <2>2, <2>3, NoDigits
  <2>5. v \div 10 \in Nat /\ v \div 10 < v
    <3>1. v \div 10 \in Nat /\ 10 * (v \div 10) <= v
      BY <2>2, Tenth
    <3> QED BY <2>2, <2>4, <3>1
  <2>6. AreDigits(D[v \div 10], v \div 10)
    BY <2>1, <2>2, <2>5
  <2>7. v < Power10[U64STRLEN]
    BY <1>4, <2>2
  <2> QED BY <2>2, <2>3, <2>4, <2>6, <2>7, OneDigitMore
<1> QED BY <1>3, <1>5

LEMMA DecimalIs ==
    ASSUME NEW n \in Nums
    PROVE  /\ u64str(n) = Decimal(n) /\ Decimal(n) \in Seq(Int)
           /\ Len(Decimal(n)) \in 0 .. U64STRLEN
<1>0. U64STRLEN \in Nat \ {0} /\ n \in Nat /\ n < Power10[U64STRLEN]
  <2>1. U64STRLEN \in Nat \ {0} /\ n \in 0 .. Power10[U64STRLEN] - 1
    BY AttemptAssumption
  <2>2. Power10[U64STRLEN] \in Nat
    BY <2>1, PowerIs
  <2> QED BY <2>1, <2>2
<1>1. PICK d : d = Digits(n)
  OBVIOUS
<1>2. AreDigits(d, n)
  BY <1>0, <1>1, DigitsAre
<1>3. PICK m \in Nat : m = Len(d)
  BY <1>2, LenProperties DEF AreDigits
<1>4. /\ m <= U64STRLEN
      /\ \A k \in 0 .. U64STRLEN : Power10[k] <= n <=> k < m
      /\ \A j \in 1 .. m : d[j] = 48 + ((n \div Power10[j - 1]) % 10)
  BY <1>2, <1>3 DEF AreDigits
<1>5. Cardinality({k \in 0 .. U64STRLEN : Power10[k] <= n}) = m
  <2>1. {k \in 0 .. U64STRLEN : Power10[k] <= n} = 0 .. m - 1
    BY <1>0, <1>4
  <2>2. Cardinality(0 .. m - 1) = m
    <3>1. PICK a \in Int, b \in Int : a = 0 /\ b = m - 1
      OBVIOUS
    <3>2. Cardinality(a .. b) = IF a > b THEN 0 ELSE b - a + 1
      BY FS_Interval
    <3> QED BY <3>1, <3>2
  <2> QED BY <2>1, <2>2
<1>6. Decimal(n) = [k \in 1 .. m |-> 48 + ((n \div Power10[m - k]) % 10)]
  BY <1>5 DEF Decimal
<1>7. u64str(n) = [k \in 1 .. m |-> d[m + 1 - k]]
  BY <1>1, <1>3 DEF u64str, strnrev
<1>8. ASSUME NEW k \in 1 .. m
      PROVE  /\ d[m + 1 - k] = 48 + ((n \div Power10[m - k]) % 10)
             /\ 48 + ((n \div Power10[m - k]) % 10) \in Int
  <2>1. PICK j \in 1 .. m : j = m + 1 - k
    OBVIOUS
  <2>2. j - 1 = m - k /\ j - 1 \in 0 .. U64STRLEN
    BY <1>0, <1>4, <2>1
  <2>3. PICK b \in Nat \ {0} : b = Power10[j - 1]
    BY <2>2, PowerIs
  <2>4. (n \div b) \in Int
    BY <1>0
  <2>5. 48 + ((n \div b) % 10) \in Int
    BY <2>4
  <2>6. Power10[m - k] = b /\ d[m + 1 - k] = d[j]
    BY <2>1, <2>2, <2>3
  <2>7. d[j] = 48 + ((n \div b) % 10)
    BY <1>4, <2>3
  <2> QED BY <2>5, <2>6, <2>7
<1>9. u64str(n) = Decimal(n)
  BY <1>6, <1>7, <1>8
<1>10. Decimal(n) \in Seq(Int)
  BY <1>6, <1>8
<1>11. Len(Decimal(n)) = m
  BY <1>6
<1> QED BY <1>0, <1>4, <1>9, <1>10, <1>11

-----------------------------------------------------------------------------
(* The string *)

\* The recursions of mku64str and of HashesTheNumbers.
WrittenRec(W, a, n) == W = [k \in 0 .. n |-> IF k = 0 THEN <<>> ELSE W[k - 1] \o u64str(a[k - 1])]
BeforeRec(B, a, n) == B = [k \in 0 .. n |-> IF k = 0 THEN 0 ELSE B[k - 1] + Len(Decimal(a[k - 1]))]

LEMMA WrittenExists ==
    ASSUME NEW n \in Nat, NEW a, \A k \in 0 .. n - 1 : a[k] \in Nums
    PROVE  \E W : WrittenRec(W, a, n)
<1>1. PICK S : S = Seq(Int)
  OBVIOUS
<1>2. PICK g : g = [x \in (1 .. n) \X S |-> x[2] \o u64str(a[x[1] - 1])]
  OBVIOUS
<1>3. ASSUME NEW k \in 1 .. n, NEW w \in S
      PROVE  g[<<k, w>>] = w \o u64str(a[k - 1]) /\ g[<<k, w>>] \in S
  <2>1. g[<<k, w>>] = w \o u64str(a[k - 1])
    BY <1>2
  <2>2. k - 1 \in 0 .. n - 1
    OBVIOUS
  <2>3. PICK u : u = u64str(a[k - 1])
    OBVIOUS
  <2>4. u \in Seq(Int)
    BY <2>2, <2>3, DecimalIs
  <2>5. w \o u \in Seq(Int)
    BY <1>1, <2>4, ConcatProperties
  <2> QED BY <1>1, <2>1, <2>3, <2>5
<1>4. g \in [(1 .. n) \X S -> S]
  <2>1. \A x \in (1 .. n) \X S : g[x] \in S
    <3>1. ASSUME NEW x \in (1 .. n) \X S PROVE g[x] \in S
      <4>1. PICK k \in 1 .. n, w \in S : x = <<k, w>>
        OBVIOUS
      <4> QED BY <1>3, <4>1
    <3> QED BY <3>1
  <2> QED BY <1>2, <2>1
<1>5. <<>> \in S
  BY <1>1
<1>6. PICK W \in [0 .. n -> S] : Follows(W, n, <<>>, g)
  BY <1>4, <1>5, FollowedBy
<1>7. W[0] = <<>> /\ \A k \in 1 .. n : W[k] = g[<<k, W[k - 1]>>]
  BY <1>6 DEF Follows
<1>8. ASSUME NEW k \in 0 .. n
      PROVE  W[k] = IF k = 0 THEN <<>> ELSE W[k - 1] \o u64str(a[k - 1])
  <2>1. CASE k = 0
    BY <1>7, <2>1
  <2>2. CASE k # 0
    <3>1. k \in 1 .. n /\ k - 1 \in 0 .. n
      BY <2>2
    <3>2. W[k - 1] \in S
      BY <1>6, <3>1
    <3> QED BY <1>3, <1>7, <2>2, <3>1, <3>2
  <2> QED BY <2>1, <2>2
<1>9. W = [k \in 0 .. n |-> W[k]]
  BY <1>6
<1> QED BY <1>8, <1>9 DEF WrittenRec

LEMMA BeforeExists ==
    ASSUME NEW n \in Nat, NEW a, \A k \in 0 .. n - 1 : a[k] \in Nums
    PROVE  \E B : BeforeRec(B, a, n)
<1>2. PICK g : g = [x \in (1 .. n) \X Int |-> x[2] + Len(Decimal(a[x[1] - 1]))]
  OBVIOUS
<1>3. ASSUME NEW k \in 1 .. n, NEW w \in Int
      PROVE  g[<<k, w>>] = w + Len(Decimal(a[k - 1])) /\ g[<<k, w>>] \in Int
  <2>1. g[<<k, w>>] = w + Len(Decimal(a[k - 1]))
    BY <1>2
  <2>2. k - 1 \in 0 .. n - 1
    OBVIOUS
  <2>3. PICK u : u = Len(Decimal(a[k - 1]))
    OBVIOUS
  <2>4. u \in Int
    BY <2>2, <2>3, DecimalIs, AttemptAssumption
  <2> QED BY <2>1, <2>3, <2>4
<1>4. g \in [(1 .. n) \X Int -> Int]
  <2>1. \A x \in (1 .. n) \X Int : g[x] \in Int
    <3>1. ASSUME NEW x \in (1 .. n) \X Int PROVE g[x] \in Int
      <4>1. PICK k \in 1 .. n, w \in Int : x = <<k, w>>
        OBVIOUS
      <4> QED BY <1>3, <4>1
    <3> QED BY <3>1
  <2> QED BY <1>2, <2>1
<1>5. PICK Q : Q = Int
  OBVIOUS
<1>6. PICK B \in [0 .. n -> Int] : Follows(B, n, 0, g)
  <2>1. 0 \in Q /\ g \in [(1 .. n) \X Q -> Q]
    BY <1>4, <1>5
  <2>2. \E B \in [0 .. n -> Q] : Follows(B, n, 0, g)
    BY <2>1, FollowedBy
  <2> QED BY <1>5, <2>2
<1>7. B[0] = 0 /\ \A k \in 1 .. n : B[k] = g[<<k, B[k - 1]>>]
  BY <1>6 DEF Follows
<1>8. ASSUME NEW k \in 0 .. n
      PROVE  B[k] = IF k = 0 THEN 0 ELSE B[k - 1] + Len(Decimal(a[k - 1]))
  <2>1. CASE k = 0
    BY <1>7, <2>1
  <2>2. CASE k # 0
    <3>1. k \in 1 .. n /\ k - 1 \in 0 .. n
      BY <2>2
    <3>2. B[k - 1] \in Int
      BY <1>6, <3>1
    <3> QED BY <1>3, <1>7, <2>2, <3>1, <3>2
  <2> QED BY <2>1, <2>2
<1>9. B = [k \in 0 .. n |-> B[k]]
  BY <1>6
<1> QED BY <1>8, <1>9 DEF BeforeRec

\* u begins with the first n numbers of a, where B says that they begin.
Written(u, B, a, n) ==
    /\ u \in Seq(Int) /\ Len(u) = B[n] /\ B[n] \in 0 .. n * U64STRLEN
    /\ \A k \in 1 .. n : /\ B[k - 1] \in Nat /\ B[k] = B[k - 1] + Len(Decimal(a[k - 1])) /\ B[k] <= B[n]
                         /\ \A pos \in 1 .. Len(Decimal(a[k - 1])) :
                               u[B[k - 1] + pos] = Decimal(a[k - 1])[pos]

LEMMA WrittenOn ==
    ASSUME NEW n \in Nat \ {0}, NEW a, a[n - 1] \in Nums, NEW B, NEW u, Written(u, B, a, n - 1),
           B[n] = B[n - 1] + Len(Decimal(a[n - 1]))
    PROVE  Written(u \o u64str(a[n - 1]), B, a, n)
<1>1. PICK d : d = Decimal(a[n - 1])
  OBVIOUS
<1>2. d = u64str(a[n - 1]) /\ d \in Seq(Int) /\ Len(d) \in 0 .. U64STRLEN /\ U64STRLEN \in Nat
  BY <1>1, DecimalIs, AttemptAssumption
<1>3. PICK l \in 0 .. U64STRLEN : l = Len(d)
  BY <1>2
<1>4. PICK b \in 0 .. (n - 1) * U64STRLEN : b = B[n - 1] /\ Len(u) = b /\ u \in Seq(Int)
  BY DEF Written
<1>5. PICK w : w = u \o d
  OBVIOUS
<1>6. /\ w \in Seq(Int) /\ Len(w) = Len(u) + Len(d)
      /\ \A pos \in 1 .. Len(u) + Len(d) : w[pos] = IF pos <= Len(u) THEN u[pos] ELSE d[pos - Len(u)]
  BY <1>2, <1>4, <1>5, ConcatProperties
<1>7. Len(w) = b + l /\ \A pos \in 1 .. b + l : w[pos] = IF pos <= b THEN u[pos] ELSE d[pos - b]
  BY <1>3, <1>4, <1>6
<1>8. B[n] = b + l
  BY <1>1, <1>3, <1>4
<1>9. b + l \in 0 .. n * U64STRLEN
  <2>1. PICK x \in Nat, y \in Nat : x = (n - 1) * U64STRLEN /\ y = n * U64STRLEN
    BY <1>2
  <2>2. y = x + U64STRLEN
    BY <1>2, <2>1
  <2>3. b \in 0 .. x
    BY <1>4, <2>1
  <2>4. b + l \in 0 .. y
    BY <1>2, <1>3, <2>2, <2>3
  <2> QED BY <2>1, <2>4
<1>10. ASSUME NEW k \in 1 .. n
       PROVE  /\ B[k - 1] \in Nat /\ B[k] = B[k - 1] + Len(Decimal(a[k - 1])) /\ B[k] <= B[n]
              /\ \A pos \in 1 .. Len(Decimal(a[k - 1])) : w[B[k - 1] + pos] = Decimal(a[k - 1])[pos]
  <2>1. CASE k = n
    <3>1. B[k - 1] = b /\ B[k] = b + l /\ Decimal(a[k - 1]) = d /\ b \in Nat
      BY <1>1, <1>4, <1>8, <2>1, <1>2
    <3>2. ASSUME NEW pos \in 1 .. l PROVE w[b + pos] = d[pos]
      <4>1. PICK j \in 1 .. b + l : j = b + pos /\ ~(j <= b) /\ j - b = pos
        BY <1>2, <1>3, <3>1
      <4> QED BY <1>7, <4>1
    <3>3. B[k] <= B[n]
      BY <1>3, <2>1, <3>1
    <3>4. \A pos \in 1 .. Len(d) : w[b + pos] = d[pos]
      BY <1>3, <3>2
    <3>5. B[k] = b + Len(d)
      BY <1>3, <3>1
    <3> QED BY <3>1, <3>3, <3>4, <3>5
  <2>2. CASE k # n
    <3>1. k \in 1 .. n - 1
      BY <2>2
    <3>2. PICK e : e = Decimal(a[k - 1])
      OBVIOUS
    <3>3. /\ B[k - 1] \in Nat /\ B[k] = B[k - 1] + Len(e) /\ B[k] <= b
          /\ \A pos \in 1 .. Len(e) : u[B[k - 1] + pos] = e[pos]
      BY <1>4, <3>1, <3>2 DEF Written
    <3>4. B[k] \in Int /\ b \in Nat
      <4>1. Len(e) \in Int
        <5>1. b \in Nat
          BY <1>2, <1>4
        <5> QED BY <3>3, LenProperties
      <4> QED BY <1>2, <1>4, <3>3, <4>1
    <3>5. B[k] <= B[n]
      BY <1>3, <1>8, <3>3, <3>4, <1>2
    <3>6. ASSUME NEW pos \in 1 .. Len(e) PROVE w[B[k - 1] + pos] = e[pos]
      <4>1. PICK j \in Int : j = B[k - 1] + pos
        BY <3>3
      <4>2. j \in 1 .. b + l /\ j <= b
        <5>1. PICK x \in Nat : x = B[k - 1]
          BY <3>3
        <5>2. PICK m \in Int : m = Len(e)
          BY <3>2, <3>1, <1>2, <3>3, <3>4
        <5>3. x + m <= b /\ pos \in 1 .. m /\ j = x + pos
          BY <3>3, <3>6, <4>1, <5>1, <5>2
        <5>4. b \in Nat /\ l \in Nat
          BY <1>2, <1>3, <3>4
        <5>5. PICK y \in Int : y = pos
          OBVIOUS
        <5>6. 1 <= y /\ y <= m /\ j = x + y /\ x + m <= b
          BY <5>3, <5>5
        <5>7. 1 <= j /\ j <= b
          BY ONLY <5>1, <5>2, <5>4, <5>5, <5>6
        <5> QED BY <4>1, <5>4, <5>7
      <4>3. w[j] = u[j]
        BY <1>7, <4>2
      <4>4. u[j] = e[pos]
        BY <3>3, <4>1
      <4> QED BY <4>1, <4>3, <4>4
    <3> QED BY <3>2, <3>3, <3>5, <3>6
  <2> QED BY <2>1, <2>2
<1>11. Len(w) = B[n] /\ B[n] \in 0 .. n * U64STRLEN /\ w \in Seq(Int)
  BY <1>6, <1>7, <1>8, <1>9
<1>12. Written(w, B, a, n)
  BY <1>10, <1>11 DEF Written
<1> QED BY <1>2, <1>5, <1>12

LEMMA WrittenIs ==
    ASSUME NEW n \in Nat, NEW a, \A k \in 0 .. n - 1 : a[k] \in Nums,
           NEW W, WrittenRec(W, a, n), NEW B, BeforeRec(B, a, n)
    PROVE  Written(W[n], B, a, n)
<1>0. /\ W[0] = <<>> /\ B[0] = 0
      /\ \A k \in 1 .. n : /\ W[k] = W[k - 1] \o u64str(a[k - 1])
                           /\ B[k] = B[k - 1] + Len(Decimal(a[k - 1]))
  <2>1. ASSUME NEW k \in 0 .. n
        PROVE  /\ W[k] = IF k = 0 THEN <<>> ELSE W[k - 1] \o u64str(a[k - 1])
               /\ B[k] = IF k = 0 THEN 0 ELSE B[k - 1] + Len(Decimal(a[k - 1]))
    BY DEF WrittenRec, BeforeRec
  <2>2. W[0] = <<>> /\ B[0] = 0
    <3>1. 0 \in 0 .. n
      OBVIOUS
    <3> QED BY <2>1, <3>1
  <2>3. ASSUME NEW k \in 1 .. n
        PROVE  W[k] = W[k - 1] \o u64str(a[k - 1]) /\ B[k] = B[k - 1] + Len(Decimal(a[k - 1]))
    <3>1. k \in 0 .. n /\ k # 0
      OBVIOUS
    <3> QED BY <2>1, <3>1
  <2> QED BY <2>2, <2>3
<1> DEFINE N == {k \in Nat : k <= n /\ ~Written(W[k], B, a, k)}
<1>1. ASSUME N # {} PROVE FALSE
  <2>1. PICK m \in N : \A k \in N : m <= k
    <3>1. N \in SUBSET Nat
      OBVIOUS
    <3> HIDE DEF N
    <3> QED BY <1>1, <3>1, Least
  <2>2. m \in Nat /\ m <= n /\ ~Written(W[m], B, a, m)
    OBVIOUS
  <2>3. CASE m = 0
    <3>1. <<>> \in Seq(Int) /\ Len(<<>>) = 0
      OBVIOUS
    <3>2. 0 \in 0 .. 0 * U64STRLEN
      BY AttemptAssumption
    <3>3. Written(<<>>, B, a, 0)
      BY <1>0, <3>1, <3>2 DEF Written
    <3> QED BY <1>0, <2>2, <2>3, <3>3
  <2>4. CASE m # 0
    <3>1. m \in Nat \ {0} /\ m \in 1 .. n /\ m - 1 \in 0 .. n - 1 /\ m - 1 \in Nat
      BY <2>2, <2>4
    <3>2. m - 1 \notin N
      <4> HIDE DEF N
      <4> QED BY <2>1, <3>1
    <3>3. Written(W[m - 1], B, a, m - 1)
      BY <3>1, <3>2
    <3>4. Written(W[m - 1] \o u64str(a[m - 1]), B, a, m)
      BY <1>0, <3>1, <3>3, WrittenOn
    <3> QED BY <1>0, <2>2, <3>1, <3>4
  <2> QED BY <2>3, <2>4
<1> QED BY <1>1

\* The string holds the numbers, each where it begins.
LEMMA StringIs ==
    ASSUME NEW n \in Nat \ {0}, NEW a, \A k \in 0 .. n - 1 : a[k] \in Nums,
           NEW B, B = CHOOSE F : BeforeRec(F, a, n), NEW s, s = mku64str(a, n)
    PROVE  /\ Len(s) = B[n] /\ Len(s) < (n + 1) * U64STRLEN
           /\ \A k \in 1 .. n : SubSeq(s, B[k - 1] + 1, B[k]) = Decimal(a[k - 1])
<1>1. BeforeRec(B, a, n)
  BY BeforeExists
<1>2. PICK W : W = CHOOSE F : WrittenRec(F, a, n)
  OBVIOUS
<1>3. WrittenRec(W, a, n)
  BY <1>2, WrittenExists
<1>4. s = W[n]
  BY <1>2 DEF mku64str, WrittenRec
<1>5. Written(s, B, a, n)
  BY <1>1, <1>3, <1>4, WrittenIs
<1>6. Len(s) = B[n] /\ B[n] \in 0 .. n * U64STRLEN /\ s \in Seq(Int)
  BY <1>5 DEF Written
<1>7. B[n] < (n + 1) * U64STRLEN
  <2>1. U64STRLEN \in Nat \ {0}
    BY AttemptAssumption
  <2>2. PICK x \in Nat, y \in Nat : x = n * U64STRLEN /\ y = (n + 1) * U64STRLEN
    BY <2>1
  <2>3. y = x + U64STRLEN
    BY <2>1, <2>2
  <2> QED BY <1>6, <2>1, <2>2, <2>3
<1>8. ASSUME NEW k \in 1 .. n PROVE SubSeq(s, B[k - 1] + 1, B[k]) = Decimal(a[k - 1])
  <2>1. PICK d : d = Decimal(a[k - 1])
    OBVIOUS
  <2>2. d \in Seq(Int) /\ Len(d) \in Nat
    <3>1. k - 1 \in 0 .. n - 1
      OBVIOUS
    <3>2. d \in Seq(Int)
      BY <2>1, <3>1, DecimalIs
    <3> QED BY <3>2, LenProperties
  <2>3. PICK b \in Nat, l \in Nat : b = B[k - 1] /\ l = Len(d)
    BY <1>5, <2>2 DEF Written
  <2>4. B[k] = b + l /\ b + l <= Len(s) /\ \A pos \in 1 .. l : s[b + pos] = d[pos]
    BY <1>5, <1>6, <2>1, <2>3 DEF Written
  <2>5. PICK m \in Int, e \in Int : m = b + 1 /\ e = b + l
    OBVIOUS
  <2>6. \A pos \in m .. e : s[pos] \in Int
    <3>1. Len(s) \in Nat /\ \A pos \in 1 .. Len(s) : s[pos] \in Int
      BY <1>6, LenProperties
    <3>2. m .. e \subseteq 1 .. Len(s)
      BY <2>4, <2>5, <3>1
    <3> QED BY <3>1, <3>2
  <2>7. PICK t : t = SubSeq(s, m, e)
    OBVIOUS
  <2>8. /\ t \in Seq(Int) /\ Len(t) = IF m <= e THEN e - m + 1 ELSE 0
        /\ \A pos \in 1 .. e - m + 1 : t[pos] = s[m + pos - 1]
    BY <2>6, <2>7, SubSeqProperties
  <2>9. Len(t) = l
    BY <2>5, <2>8
  <2>10. ASSUME NEW pos \in 1 .. l PROVE t[pos] = d[pos]
    <3>1. pos \in 1 .. e - m + 1 /\ m + pos - 1 = b + pos
      BY <2>5
    <3> QED BY <2>4, <2>8, <3>1
  <2>11. t = d
    BY <2>2, <2>3, <2>8, <2>9, <2>10, SeqEqual
  <2>12. B[k - 1] + 1 = m /\ B[k] = e
    BY <2>3, <2>4, <2>5
  <2> QED BY <2>1, <2>7, <2>11, <2>12
<1> QED BY <1>6, <1>7, <1>8

LEMMA HashIs ==
    ASSUME NEW n \in Nat \ {0}, chal.size = n, \A k \in 0 .. n - 1 : nums[k] \in Nums
    PROVE  HashesTheNumbers
<1>0. PICK a : a = nums
  OBVIOUS
<1>1. PICK B : B = CHOOSE F : BeforeRec(F, a, n)
  OBVIOUS
<1>2. PICK s : s = mku64str(a, n)
  OBVIOUS
<1>3. /\ Len(s) = B[n] /\ Len(s) < (n + 1) * U64STRLEN
      /\ \A k \in 1 .. n : SubSeq(s, B[k - 1] + 1, B[k]) = Decimal(a[k - 1])
  <2>1. \A k \in 0 .. n - 1 : a[k] \in Nums
    BY <1>0
  <2> QED BY <1>1, <1>2, <2>1, StringIs
<1>4. Hashed = s
  BY <1>0, <1>2 DEF Hashed
<1>5. PICK C : C = CHOOSE F : F = [k \in 0 .. chal.size |-> IF k = 0 THEN 0 ELSE F[k - 1] + Len(Decimal(nums[k - 1]))]
  OBVIOUS
<1>6. C = B
  BY <1>0, <1>1, <1>5 DEF BeforeRec
<1> QED BY <1>0, <1>3, <1>4, <1>5, <1>6 DEF HashesTheNumbers

-----------------------------------------------------------------------------
(* The attempt *)

SortInv == /\ sorter \in {"merge", "heap", "smooth"}
           /\ at # "idle" => chal.size = cnt /\ cnt \in Nat \ {0} /\ reply = <<>>
           /\ sorter = "merge" => MergeInv
           /\ sorter = "heap" => HeapInv
           /\ sorter = "smooth" => SmoothInv

LEMMA DrawSizes ==
    ASSUME ParseInv, DrawNums
    PROVE  /\ chal.size \in Nat \ {0} /\ (chal.type = "CHAL_RSORT") \in BOOLEAN
           /\ Draw(chal.size, chal.type = "CHAL_RSORT")
<1>1. reply = <<>> /\ ~refused /\ Draw(chal.size, chal.type = "CHAL_RSORT")
  BY DEF DrawNums, Started
<1>2. meant \in Challenges /\ chal = Described(meant)
  BY <1>1 DEF ParseInv
<1>3. chal.size = meant.size
  <2>1. PICK t \in Types, n \in Nat : meant = Meant(t, n)
    BY <1>2, ShortPathAssumption, AttemptAssumption DEF Challenges, Types
  <2>2. PICK b : b = IF meant.type = "CHAL_SPATH" THEN meant.nblks ELSE Unset
    OBVIOUS
  <2>3. chal = [meant EXCEPT !.nblks = b]
    BY <1>2, <2>2 DEF Described
  <2> QED BY <2>1, <2>3 DEF Meant
<1>4. meant.size \in Nat \ {0}
  BY <1>2, MeantIs DEF IsMeant
<1> QED BY <1>1, <1>3, <1>4

LEMMA SortInvInit == Init => SortInv
<1> SUFFICES ASSUME Init PROVE SortInv
  OBVIOUS
<1>1. sorter \in {"merge", "heap", "smooth"} /\ at = "idle"
  BY DEF Init, SortInit
<1>2. MergeInv /\ HeapInv /\ SmoothInv
  BY <1>1 DEF MergeInv, HeapInv, SmoothInv, Places
<1> QED BY <1>1, <1>2 DEF SortInv

LEMMA MergeInvStays == ASSUME MergeInv, UNCHANGED sortvars PROVE MergeInv'
<1>1. /\ UNCHANGED <<sorter, drawn, cnt, rev, at, nums, mtmp, width, low, left, right, out>>
  BY DEF sortvars, argvars, mergevars
<1>2. (Given <=> Given') /\ (SameNums(nums) <=> SameNums(nums)')
  BY <1>1 DEF Given, SameNums, Count
<1>3. /\ Runs(nums, width, cnt)' <=> Runs(nums, width, cnt)
      /\ Runs(mtmp, 2 * width, low)' <=> Runs(mtmp, 2 * width, low)
      /\ InOrder(nums, 0, cnt)' <=> InOrder(nums, 0, cnt)
  BY <1>1 DEF Runs, InOrder, Fits, Precedes, Smaller
<1>4. RunsInv' <=> RunsInv
  BY <1>1 DEF RunsInv, Smaller, Count
<1>5. MergingInv' <=> MergingInv
  BY <1>1 DEF MergingInv, Middle, End, Smaller, InOrder, Fits, Precedes, Count, Merged
<1> QED BY <1>1, <1>2, <1>3, <1>4, <1>5 DEF MergeInv

LEMMA HeapInvStays == ASSUME HeapInv, UNCHANGED sortvars PROVE HeapInv'
<1>1. /\ UNCHANGED <<sorter, drawn, cnt, rev, at, nums, top, heap, hole, held>>
  BY DEF sortvars, argvars, heapvars, holevars
<1>2. Filled' = Filled
  BY <1>1 DEF Filled
<1>3. (Given <=> Given') /\ (SameNums(Filled) <=> SameNums(Filled)')
  BY <1>1, <1>2 DEF Given, SameNums, Count
<1>4. /\ Behind(Filled, heap)' <=> Behind(Filled, heap)
      /\ SinkInv(Filled, hole)' <=> SinkInv(Filled, hole)
      /\ InOrder(nums, 0, cnt)' <=> InOrder(nums, 0, cnt)
  BY <1>1, <1>2 DEF Behind, SinkInv, InOrder, Fits, Precedes
<1>5. (\A c \in 1 .. heap - 1 : Parent(c) >= top => Fits(nums[c], nums[Parent(c)]))'
      <=> \A c \in 1 .. heap - 1 : Parent(c) >= top => Fits(nums[c], nums[Parent(c)])
  BY <1>1 DEF Fits, Precedes
<1> QED BY <1>1, <1>2, <1>3, <1>4, <1>5 DEF HeapInv

LEMMA SortInvStays ==
    ASSUME SortInv, UNCHANGED sortvars, UNCHANGED smoothvars,
           at # "idle" => reply' = <<>> /\ chal.size' = chal.size
    PROVE  SortInv'
<1>1. sorter' = sorter /\ at' = at /\ cnt' = cnt
  BY DEF sortvars, argvars
<1>2. sorter' = "merge" => MergeInv'
  BY <1>1, MergeInvStays DEF SortInv
<1>3. sorter' = "heap" => HeapInv'
  BY <1>1, HeapInvStays DEF SortInv
<1>4. sorter' = "smooth" => SmoothInv'
  BY <1>1, SmoothInvStays DEF SortInv
<1> QED BY <1>1, <1>2, <1>3, <1>4 DEF SortInv

LEMMA SortInvNext == ParseInv /\ SortInv /\ [Next]_vars => SortInv'
<1> SUFFICES ASSUME ParseInv, SortInv, [Next]_vars PROVE SortInv'
  OBVIOUS
<1>1. CASE NewChallenge
  <2>1. at = "idle" /\ UNCHANGED sortvars /\ UNCHANGED smoothvars
    BY <1>1 DEF NewChallenge, SortInv
  <2> QED BY <2>1, SortInvStays
<1>2. CASE DrawNums
  <2>1. PICK n \in Nat \ {0}, d \in BOOLEAN : n = chal.size /\ Draw(n, d)
    BY <1>2, DrawSizes
  <2>2. at' = "sort" /\ cnt' = n /\ sorter' = sorter /\ UNCHANGED <<chal, reply>> /\ reply = <<>>
    BY <1>2, <2>1 DEF Draw, DrawNums, chalvars, Started
  <2>3. sorter' = "merge" => MergeInv'
    BY <2>1, <2>2, MergeDraws DEF SortInv
  <2>4. sorter' = "heap" => HeapInv'
    BY <2>1, <2>2, HeapDraws DEF SortInv
  <2>5. sorter' = "smooth" => SmoothInv'
    BY <2>1, <2>2, SmoothDraws DEF SortInv
  <2> QED BY <2>1, <2>2, <2>3, <2>4, <2>5 DEF SortInv
<1>3. CASE SortNums
  <2>1. UNCHANGED <<chal, reply>>
    BY <1>3 DEF SortNums, chalvars
  <2>2. MergeNext \/ HeapNext \/ SmoothNext
    BY <1>3 DEF SortNums, Sorting
  <2>3. sorter' = sorter /\ cnt' = cnt /\ at # "idle"
    BY <2>2 DEF MergeNext, HeapNext, SmoothNext, mergesort64, Pass, BeginMerge, CopyBack, MergeOne,
                EndMerge, heapsort64, PickParent, PickLast, Sink, smoothsort64, sift, TrinkleShifts,
                TrinkleMoves, TrinkleSifts, BuildJoins, BuildAdds, BuildEnds, Join, Descend, TakeDone,
                TakeLeaf, TakeShifts, TakeFirst, TakeSecond, Taken, argvars
  <2>4. CASE sorter = "merge"
    <3>1. MergeInv
      BY <2>4 DEF SortInv
    <3>2. at \in {"sort", "pass", "runs", "merge", "sorted"}
      BY <2>3, <3>1 DEF MergeInv
    <3>3. ~HeapNext /\ ~SmoothNext
      BY <2>4, <3>2 DEF HeapNext, SmoothNext, heapsort64, PickParent, PickLast, Sink, smoothsort64, sift,
                TrinkleShifts, TrinkleMoves, TrinkleSifts, BuildJoins, BuildAdds, BuildEnds, Join,
                Descend, TakeDone, TakeLeaf, TakeShifts, TakeFirst, TakeSecond, Taken
    <3>4. MergeInv' /\ at' # "idle"
      <4>1. MergeInv'
        BY <2>2, <3>1, <3>3, MergeKeeps
      <4>2. at' # "idle"
        BY <2>2, <3>3 DEF MergeNext, mergesort64, Pass, BeginMerge, CopyBack, MergeOne, EndMerge
      <4> QED BY <4>1, <4>2
    <3> QED BY <2>1, <2>3, <2>4, <3>4 DEF SortInv
  <2>5. CASE sorter = "heap"
    <3>1. HeapInv
      BY <2>5 DEF SortInv
    <3>2. at \in {"sort", "pick", "sink", "sorted"}
      BY <2>3, <3>1 DEF HeapInv
    <3>3. ~MergeNext /\ ~SmoothNext
      BY <2>5, <3>2 DEF MergeNext, SmoothNext, mergesort64, Pass, BeginMerge, CopyBack, MergeOne,
                EndMerge, smoothsort64, sift,
                TrinkleShifts, TrinkleMoves, TrinkleSifts, BuildJoins, BuildAdds, BuildEnds, Join,
                Descend, TakeDone, TakeLeaf, TakeShifts, TakeFirst, TakeSecond, Taken
    <3>4. HeapInv'
      BY <2>2, <3>1, <3>3, HeapKeeps
    <3> QED BY <2>1, <2>3, <2>5, <3>4 DEF SortInv
  <2>6. CASE sorter = "smooth"
    <3>1. SmoothInv
      BY <2>6 DEF SortInv
    <3>2. at \in {"sort", "sift", "trinkle", "sorted"} \cup Places
      BY <2>3, <3>1 DEF SmoothInv
    <3>3. ~MergeNext /\ ~HeapNext
      BY <2>6, <3>2 DEF Places, MergeNext, HeapNext, mergesort64, Pass, BeginMerge, CopyBack, MergeOne,
                EndMerge, heapsort64, PickParent, PickLast, Sink
    <3>4. SmoothInv'
      BY <2>2, <3>1, <3>3, SmoothKeeps
    <3> QED BY <2>1, <2>3, <2>6, <3>4 DEF SortInv
  <2> QED BY <2>4, <2>5, <2>6 DEF SortInv
<1>4. CASE UNCHANGED <<chalvars, sortvars, smoothvars>>
  <2>1. UNCHANGED sortvars /\ UNCHANGED smoothvars /\ UNCHANGED <<chal, reply>>
    BY <1>4 DEF chalvars
  <2>2. at # "idle" => reply' = <<>> /\ chal'.size = chal.size
    BY <2>1 DEF SortInv
  <2> QED BY <2>1, <2>2, SortInvStays
<1>5. CASE HashNums
  BY <1>4, <1>5 DEF HashNums
<1>6. CASE Search
  BY <1>4, <1>6 DEF Search
<1>7. CASE UNCHANGED vars
  BY <1>4, <1>7 DEF vars
<1> QED BY <1>1, <1>2, <1>3, <1>5, <1>6, <1>7 DEF Next, Done

LEMMA SortInvIs == Spec => [](ParseInv /\ SortInv)
<1>1. Init => ParseInv /\ SortInv
  BY ParseInvInit, SortInvInit
<1>2. ParseInv /\ SortInv /\ [Next]_vars => (ParseInv /\ SortInv)'
  BY ParseInvNext, SortInvNext
<1> QED BY <1>1, <1>2, PTL DEF Spec

-----------------------------------------------------------------------------
(* The theorems about an attempt *)

\* Each step of an attempt is one of the search's, or leaves the search alone: what is
\* shown of the search holds of the attempt (solver.c:64-83).
THEOREM AttemptSearches == Spec => SPSpec
<1>1. Init => SPInit
  BY DEF Init
<1>2. [Next]_vars => [SPNext \/ NoSearch]_spvars
  BY DEF Next, vars, NewChallenge, DrawNums, SortNums, HashNums, Search, Done
<1> QED BY <1>1, <1>2, PTL DEF Spec, SPSpec

\* Each of the three sorts puts any numbers in the order that the challenge asks for, and
\* neither loses nor invents one (sortlist.c:55-86).
THEOREM ListIsSorted == Spec => []SortsTheNumbers
<1>1. SortInv => SortsTheNumbers
  <2> SUFFICES ASSUME SortInv, at = "sorted" PROVE SortsTheNumbers
    BY DEF SortsTheNumbers
  <2>1. /\ cnt \in Nat /\ nums \in [0 .. cnt - 1 -> Nums] /\ drawn \in [0 .. cnt - 1 -> Nums]
        /\ SameNums(nums) /\ InOrder(nums, 0, cnt)
    BY MergeSorts, HeapSorts, SmoothSorts DEF SortInv
  <2> QED BY <2>1, SortedIs
<1> QED BY <1>1, SortInvIs, PTL

\* The string that is hashed holds every number but 0 in decimal, one after the other, and
\* fits (u64str.c:17-28, mku64str.c:13-26, sortlist.c:143-148).
THEOREM StringHoldsNumbers == Spec => []HashesTheNumbers
<1>1. SortInv => HashesTheNumbers
  <2> SUFFICES ASSUME SortInv, at = "sorted" PROVE HashesTheNumbers
    BY DEF HashesTheNumbers
  <2>1. PICK n \in Nat \ {0} : n = cnt /\ chal.size = n
    BY DEF SortInv
  <2>2. nums \in [0 .. cnt - 1 -> Nums]
    BY MergeSorts, HeapSorts, SmoothSorts DEF SortInv
  <2>3. \A k \in 0 .. n - 1 : nums[k] \in Nums
    BY <2>1, <2>2
  <2> QED BY <2>1, <2>3, HashIs
<1> QED BY <1>1, SortInvIs, PTL

=============================================================================
