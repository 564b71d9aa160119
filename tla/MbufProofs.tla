----------------------------- MODULE MbufProofs -----------------------------
(***************************************************************************)
(* The buffers are what Mailbox promises, and only commands are lost, for  *)
(* any number of slots and of buffers and any messages.                    *)
(*                                                                         *)
(* The memory is a heap: of every queue there is a chain of taken buffers, *)
(* and no two chains meet.  The first part is about any heap, the second   *)
(* follows the steps of Mbuf.                                              *)
(***************************************************************************)
EXTENDS Mbuf, FiniteSetTheorems, SequenceTheorems, WellFoundedInduction, TLAPS

LEMMA SizesType == NBufs \in Nat \ {0} /\ MaxLen \in Nat \ {0}
  BY MbufAssumption

LEMMA BufsType ==
    /\ Null \in Nat /\ NBufs \in Nat \ {0} /\ MaxLen \in Nat \ {0}
    /\ Null \notin Bufs /\ Bufs \subseteq Nat
  BY SizesType DEF Bufs, Null

LEMMA BufsFinite == IsFiniteSet(Bufs) /\ Cardinality(Bufs) = NBufs
<1>1. 0 \in Int /\ NBufs - 1 \in Int
  BY SizesType
<1>2. IsFiniteSet(0 .. NBufs - 1) /\ Cardinality(0 .. NBufs - 1) = NBufs
  <2>1. /\ IsFiniteSet(0 .. NBufs - 1)
        /\ Cardinality(0 .. NBufs - 1) = IF 0 > NBufs - 1 THEN 0 ELSE NBufs - 1 - 0 + 1
    BY <1>1, FS_Interval, Zenon
  <2> QED BY <2>1, SizesType
<1> QED BY <1>2, SizesType DEF Bufs, Null

USE BufsType

(* Chains *)

Elems(c) == {c[k] : k \in 1 .. Len(c)}

\* IsChain in a memory m.
Linked(m, c, h) == /\ h = IF c = <<>> THEN Null ELSE c[1]
                   /\ \A k \in 1 .. Len(c) :
                         m[c[k]].next = IF k = Len(c) THEN Null ELSE c[k + 1]

ChainOf(m, h) == CHOOSE c \in Chains : Linked(m, c, h)

LEMMA ChainsType ==
    ASSUME NEW c \in Chains
    PROVE  /\ c \in Seq(Bufs) /\ Len(c) \in 0 .. NBufs
           /\ \A i, j \in 1 .. Len(c) : c[i] = c[j] => i = j
<1>1. PICK n \in 0 .. NBufs : /\ c \in [1 .. n -> Bufs]
                              /\ \A i, j \in 1 .. n : c[i] = c[j] => i = j
  BY DEF Chains
<1>2. c \in Seq(Bufs) /\ Len(c) = n
  BY <1>1
<1> QED BY <1>1, <1>2

LEMMA IsAChain ==
    ASSUME NEW c \in Seq(Bufs), Len(c) <= NBufs,
           \A i, j \in 1 .. Len(c) : c[i] = c[j] => i = j
    PROVE  c \in Chains
<1>1. Len(c) \in 0 .. NBufs /\ c \in [1 .. Len(c) -> Bufs]
  BY LenProperties
<1>2. c \in {d \in [1 .. Len(c) -> Bufs] : \A i, j \in 1 .. Len(c) : d[i] = d[j] => i = j}
  BY <1>1
<1>3. \E n \in 0 .. NBufs : c \in {d \in [1 .. n -> Bufs] : \A i, j \in 1 .. n : d[i] = d[j] => i = j}
  BY <1>1, <1>2, Zenon
<1> QED BY <1>3 DEF Chains

LEMMA EmptyChain == <<>> \in Chains /\ \A m : Linked(m, <<>>, Null)
<1>1. <<>> \in Seq(Bufs) /\ Len(<<>>) = 0
  OBVIOUS
<1>2. Len(<<>>) <= NBufs /\ \A i, j \in 1 .. Len(<<>>) : <<>>[i] = <<>>[j] => i = j
  BY <1>1
<1>3. <<>> \in Chains
  <2> DEFINE e == <<>>
  <2>1. e \in Seq(Bufs) /\ Len(e) <= NBufs /\ \A i, j \in 1 .. Len(e) : e[i] = e[j] => i = j
    BY <1>1, <1>2
  <2> HIDE DEF e
  <2>2. e \in Chains
    BY <2>1, IsAChain
  <2> QED BY <2>2 DEF e
<1> QED BY <1>1, <1>3 DEF Linked

Less == {ss \in Nat \X Nat : ss[1] < ss[2]}

LEMMA LessOn == IsWellFoundedOn(Less, Nat)
<1>1. Less = OpToRel(<, Nat)
  BY DEF Less, OpToRel
<1> QED BY <1>1, NatLessThanWellFounded, Zenon

\* A head has one chain: look at the first place where two would differ.
LEMMA ChainUnique ==
    ASSUME NEW m, NEW h, NEW c \in Chains, NEW d \in Chains, Linked(m, c, h), Linked(m, d, h)
    PROVE  c = d
<1>1. /\ c \in Seq(Bufs) /\ d \in Seq(Bufs) /\ Len(c) \in Nat /\ Len(d) \in Nat
      /\ \A k \in 1 .. Len(c) : c[k] \in Bufs
      /\ \A k \in 1 .. Len(d) : d[k] \in Bufs
  BY ChainsType
<1> DEFINE Same(k) == k <= Len(c) /\ k <= Len(d) /\ c[k] = d[k]
           D == {k \in Nat \ {0} : (k <= Len(c) \/ k <= Len(d)) /\ ~Same(k)}
<1>2. CASE D = {}
  <2>1. \A k \in 1 .. Len(c) : k <= Len(d) /\ c[k] = d[k]
    BY <1>1, <1>2
  <2>2. \A k \in 1 .. Len(d) : k <= Len(c)
    BY <1>1, <1>2
  <2>3. Len(c) = Len(d)
    BY <1>1, <2>1, <2>2
  <2>4. \A k \in 1 .. Len(c) : c[k] = d[k]
    BY <2>1
  <2> HIDE DEF D
  <2> QED BY <1>1, <2>3, <2>4, SeqEqual
<1>3. CASE D # {}
  <2>1. PICK k \in D : \A j \in D : <<j, k>> \notin Less
    <3>1. D \in SUBSET Nat
      OBVIOUS
    <3> HIDE DEF D
    <3> QED BY <1>3, <3>1, LessOn, WFMin
  <2>2. k \in Nat \ {0} /\ (k <= Len(c) \/ k <= Len(d)) /\ ~Same(k)
    OBVIOUS
  <2>3. CASE k = 1
    <3>1. c = <<>> <=> Len(c) = 0
      BY <1>1
    <3>2. d = <<>> <=> Len(d) = 0
      BY <1>1
    <3>3. (c = <<>> /\ d = <<>>) \/ (c # <<>> /\ d # <<>> /\ c[1] = d[1])
      BY <1>1, <3>1, <3>2 DEF Linked
    <3> QED BY <1>1, <2>2, <2>3, <3>1, <3>2, <3>3
  <2>4. CASE k # 1
    <3> DEFINE j == k - 1
    <3>1. j \in Nat \ {0} /\ (j <= Len(c) \/ j <= Len(d)) /\ <<j, k>> \in Less
      BY <1>1, <2>2, <2>4 DEF Less
    <3>2. Same(j)
      BY <2>1, <3>1
    <3>3. /\ m[c[j]].next = IF j = Len(c) THEN Null ELSE c[k]
          /\ m[d[j]].next = IF j = Len(d) THEN Null ELSE d[k]
      <4>1. j \in 1 .. Len(c) /\ j \in 1 .. Len(d) /\ j + 1 = k
        BY <1>1, <2>2, <3>1, <3>2
      <4> HIDE DEF j
      <4> QED BY <4>1 DEF Linked
    <3>4. k <= Len(c) => c[k] \in Bufs /\ j # Len(c)
      BY <1>1, <2>2
    <3>5. k <= Len(d) => d[k] \in Bufs /\ j # Len(d)
      BY <1>1, <2>2
    <3>6. /\ j <= Len(c) => (j = Len(c) <=> ~(k <= Len(c)))
          /\ j <= Len(d) => (j = Len(d) <=> ~(k <= Len(d)))
      BY <1>1, <2>2
    <3> HIDE DEF j
    <3> QED BY <2>2, <3>2, <3>3, <3>4, <3>5, <3>6
  <2> QED BY <2>3, <2>4
<1> QED BY <1>2, <1>3

LEMMA ChainOfIs ==
    ASSUME NEW m, NEW h, NEW c \in Chains, Linked(m, c, h)
    PROVE  ChainOf(m, h) = c
<1>1. ChainOf(m, h) \in Chains /\ Linked(m, ChainOf(m, h), h)
  BY DEF ChainOf
<1> QED BY <1>1, ChainUnique

\* There is room in a chain for a buffer that is not in it.
LEMMA RoomForOne ==
    ASSUME NEW c \in Chains, NEW b \in Bufs, b \notin Elems(c)
    PROVE  Len(c) < NBufs
<1>1. /\ c \in Seq(Bufs) /\ Len(c) \in Nat
      /\ \A i, j \in 1 .. Len(c) : c[i] = c[j] => i = j
  BY ChainsType
<1> SUFFICES ASSUME ~(Len(c) < NBufs) PROVE FALSE
  OBVIOUS
<1> DEFINE S == 1 .. Len(c)
           T == Bufs \ {b}
<1>2. IsFiniteSet(S) /\ Cardinality(S) = Len(c)
  <2>1. 1 \in Int /\ Len(c) \in Int
    BY <1>1
  <2>2. IsFiniteSet(S) /\ Cardinality(S) = IF 1 > Len(c) THEN 0 ELSE Len(c) - 1 + 1
    BY <2>1, FS_Interval, Zenon
  <2> QED BY <1>1, <2>2
<1>3. IsFiniteSet(T) /\ Cardinality(T) = NBufs - 1
  BY BufsFinite, FS_RemoveElement, Zenon
<1>4. c \in [S -> T]
  BY <1>1 DEF Elems
<1>5. Cardinality(T) < Cardinality(S)
  BY <1>1, <1>2, <1>3
<1>6. \E i, j \in S : i # j /\ c[i] = c[j]
  <2> HIDE DEF S, T
  <2> QED BY <1>2, <1>3, <1>4, <1>5, FS_PigeonHole
<1> QED BY <1>1, <1>6

\* A chain is the same in a memory with the same next.
SameNext(m, n, c) == \A x \in Elems(c) : n[x].next = m[x].next

LEMMA ChainKept ==
    ASSUME NEW m, NEW n, NEW h, NEW c \in Chains, Linked(m, c, h),
           SameNext(m, n, c)
    PROVE  Linked(n, c, h)
<1>1. \A k \in 1 .. Len(c) : c[k] \in Elems(c)
  BY DEF Elems
<1> QED BY <1>1 DEF Linked, SameNext

LEMMA HeadOfChain ==
    ASSUME NEW m, NEW h, NEW c \in Chains, Linked(m, c, h)
    PROVE  /\ h = Null <=> c = <<>>
           /\ h # Null => c # <<>> /\ h = c[1] /\ h \in Elems(c) /\ h \in Bufs
           /\ Elems(c) \subseteq Bufs
           /\ h \in Bufs \cup {Null}
<1>1. c \in Seq(Bufs) /\ \A k \in 1 .. Len(c) : c[k] \in Bufs
  BY ChainsType
<1>2. c # <<>> => 1 \in 1 .. Len(c)
  BY <1>1
<1> QED BY <1>1, <1>2 DEF Linked, Elems

\* The next of n with b behind the last buffer of c.
Appended(m, n, c, b) ==
    /\ n[b].next = Null
    /\ \A x \in Elems(c) : n[x].next = IF x = c[Len(c)] THEN b ELSE m[x].next

LEMMA AppendToChain ==
    ASSUME NEW m, NEW n, NEW h, NEW c \in Chains, Linked(m, c, h),
           NEW b \in Bufs, b \notin Elems(c), Appended(m, n, c, b)
    PROVE  /\ Append(c, b) \in Chains
           /\ Linked(n, Append(c, b), HeadWith(h, b))
           /\ \A x : x \in Elems(Append(c, b)) <=> x = b \/ x \in Elems(c)
<1> DEFINE d == Append(c, b)
           z == Len(c)
<1>1. /\ c \in Seq(Bufs) /\ z \in Nat
      /\ \A i, j \in 1 .. z : c[i] = c[j] => i = j
      /\ \A k \in 1 .. z : c[k] \in Bufs /\ c[k] \in Elems(c) /\ c[k] # b
  BY ChainsType DEF Elems
<1>2. /\ d \in Seq(Bufs) /\ d # <<>> /\ Len(d) = z + 1 /\ d[z + 1] = b
      /\ \A k \in 1 .. z : d[k] = c[k]
  BY <1>1, AppendProperties
<1>3. z < NBufs
  BY RoomForOne
<1>4. h = IF c = <<>> THEN Null ELSE c[1]
  BY DEF Linked
<1>5. c = <<>> <=> z = 0
  BY <1>1
<1>6. \A k \in 1 .. z : m[c[k]].next = IF k = z THEN Null ELSE c[k + 1]
  BY DEF Linked
<1> HIDE DEF d, z
<1>7. \A i, j \in 1 .. z + 1 : d[i] = d[j] => i = j
  BY <1>1, <1>2
<1>8. d \in Chains
  BY <1>1, <1>2, <1>3, <1>7, IsAChain
<1>9. HeadWith(h, b) = d[1]
  BY <1>1, <1>2, <1>4, <1>5 DEF HeadWith
<1>a. /\ n[b].next = Null
      /\ \A x \in Elems(c) : n[x].next = IF x = c[Len(c)] THEN b ELSE m[x].next
  BY DEF Appended
<1>10. \A k \in 1 .. z + 1 : n[d[k]].next = IF k = z + 1 THEN Null ELSE d[k + 1]
  <2> TAKE k \in 1 .. z + 1
  <2>1. CASE k = z + 1
    BY <1>2, <1>a, <2>1
  <2>2. CASE k # z + 1
    <3>1. k \in 1 .. z /\ (k # z => k + 1 \in 1 .. z) /\ z \in 1 .. z
      BY <1>1, <2>2
    <3>2. n[c[k]].next = IF c[k] = c[z] THEN b ELSE m[c[k]].next
      BY <1>1, <1>a, <3>1 DEF z
    <3>3. c[k] = c[z] <=> k = z
      BY <1>1, <3>1
    <3>4. CASE k = z
      BY <1>2, <3>1, <3>2, <3>4, <2>2
    <3>5. CASE k # z
      BY <1>2, <1>6, <3>1, <3>2, <3>3, <3>5, <2>2
    <3> QED BY <3>4, <3>5
  <2> QED BY <2>1, <2>2
<1>11. Linked(n, d, HeadWith(h, b))
  BY <1>2, <1>9, <1>10 DEF Linked
<1>12. Elems(d) = Elems(c) \cup {b}
  <2>1. \A k \in 1 .. z + 1 : k \in 1 .. z \/ k = z + 1
    BY <1>1
  <2>2. \A k \in 1 .. z : k \in 1 .. z + 1
    BY <1>1
  <2>3. z + 1 \in 1 .. z + 1
    BY <1>1
  <2>4. Elems(d) = {d[k] : k \in 1 .. z + 1} /\ Elems(c) = {c[k] : k \in 1 .. z}
    BY <1>2 DEF Elems, z
  <2> QED BY <1>2, <2>1, <2>2, <2>3, <2>4
<1>13. \A x : x \in Elems(d) <=> x = b \/ x \in Elems(c)
  BY <1>12
<1> QED BY <1>8, <1>11, <1>13 DEF d

LEMMA TailOfChain ==
    ASSUME NEW m, NEW n, NEW h, NEW c \in Chains, Linked(m, c, h), h # Null,
           SameNext(m, n, c)
    PROVE  /\ Tail(c) \in Chains
           /\ Linked(n, Tail(c), m[h].next)
           /\ Elems(Tail(c)) = Elems(c) \ {h}
<1> DEFINE d == Tail(c)
           z == Len(c)
<1>1. /\ c \in Seq(Bufs) /\ z \in 0 .. NBufs
      /\ \A i, j \in 1 .. z : c[i] = c[j] => i = j
      /\ \A k \in 1 .. z : c[k] \in Bufs /\ c[k] \in Elems(c)
  BY ChainsType DEF Elems
<1>2. c # <<>> /\ h = c[1]
  BY HeadOfChain
<1>3. z > 0
  BY <1>1, <1>2
<1>4. /\ d \in Seq(Bufs) /\ Len(d) = z - 1
      /\ \A k \in 1 .. z - 1 : d[k] = c[k + 1]
  BY <1>1, <1>2, HeadTailProperties
<1>5. \A k \in 1 .. z : n[c[k]].next = IF k = z THEN Null ELSE c[k + 1]
  <2> SUFFICES ASSUME NEW k \in 1 .. z
               PROVE  n[c[k]].next = IF k = z THEN Null ELSE c[k + 1]
    OBVIOUS
  <2>1. n[c[k]].next = m[c[k]].next
    BY <1>1 DEF SameNext
  <2> QED BY <2>1 DEF Linked
<1>6. m[h].next = IF z = 1 THEN Null ELSE c[2]
  <2>1. 1 \in 1 .. z
    BY <1>1, <1>3
  <2>2. m[c[1]].next = IF 1 = z THEN Null ELSE c[1 + 1]
    BY <2>1 DEF Linked
  <2>3. c[1 + 1] = c[2]
    OBVIOUS
  <2> QED BY <1>2, <2>2, <2>3
<1> HIDE DEF d, z
<1>7. \A i, j \in 1 .. z - 1 : d[i] = d[j] => i = j
  BY <1>1, <1>3, <1>4
<1>8. d \in Chains
  BY <1>1, <1>3, <1>4, <1>7, IsAChain
<1>9. d = <<>> <=> z = 1
  BY <1>1, <1>3, <1>4
<1>10. m[h].next = IF d = <<>> THEN Null ELSE d[1]
  BY <1>1, <1>3, <1>4, <1>6, <1>9
<1>11. \A k \in 1 .. z - 1 : n[d[k]].next = IF k = z - 1 THEN Null ELSE d[k + 1]
  <2> TAKE k \in 1 .. z - 1
  <2>1. k + 1 \in 1 .. z /\ (k + 1 = z <=> k = z - 1) /\ (k # z - 1 => k + 1 \in 1 .. z - 1)
    BY <1>1, <1>3
  <2> QED BY <1>4, <1>5, <2>1
<1>12. Linked(n, d, m[h].next)
  BY <1>4, <1>10, <1>11 DEF Linked
<1>13. Elems(d) = Elems(c) \ {h}
  <2>1. Elems(d) = {d[k] : k \in 1 .. z - 1} /\ Elems(c) = {c[k] : k \in 1 .. z}
    BY <1>4 DEF Elems, z
  <2>2. \A k \in 1 .. z - 1 : k + 1 \in 1 .. z /\ k + 1 # 1
    BY <1>1
  <2>3. \A k \in 1 .. z : k = 1 \/ (k - 1 \in 1 .. z - 1 /\ c[k] = d[k - 1])
    BY <1>1, <1>4
  <2>4. 1 \in 1 .. z
    BY <1>1, <1>3
  <2>5. \A x \in Elems(d) : x \in Elems(c) /\ x # h
    <3>1. \A k \in 1 .. z - 1 : d[k] \in Elems(c) /\ d[k] # h
      <4> TAKE k \in 1 .. z - 1
      <4>1. d[k] = c[k + 1] /\ k + 1 \in 1 .. z /\ k + 1 # 1
        BY <1>4, <2>2
      <4> QED BY <1>1, <1>2, <2>4, <4>1
    <3> QED BY <2>1, <3>1
  <2>6. \A x \in Elems(c) : x # h => x \in Elems(d)
    BY <1>2, <2>1, <2>3
  <2> QED BY <2>5, <2>6
<1> QED BY <1>8, <1>12, <1>13 DEF d

\* As many buffers as places.
LEMMA ElemsOfChain ==
    ASSUME NEW c \in Chains
    PROVE  IsFiniteSet(Elems(c)) /\ Cardinality(Elems(c)) = Len(c)
<1>1. /\ Len(c) \in Nat /\ c \in [1 .. Len(c) -> Elems(c)]
      /\ \A i, j \in 1 .. Len(c) : c[i] = c[j] => i = j
      /\ Elems(c) \subseteq Bufs
  BY ChainsType DEF Elems
<1>2. c \in Bijection(1 .. Len(c), Elems(c))
  BY <1>1 DEF Bijection, Injection, Surjection, IsInjective, Elems
<1>3. ExistsBijection(1 .. Len(c), Elems(c))
  BY <1>2 DEF ExistsBijection
<1>4. Cardinality(Elems(c)) = Len(c)
  BY <1>1, <1>3, FS_CountingElements, Zenon
<1>5. IsFiniteSet(Elems(c))
  BY <1>1, BufsFinite, FS_Subset, Zenon
<1> QED BY <1>4, <1>5

-----------------------------------------------------------------------------
(* The heap: the queues, with a head and a chain of taken buffers each. *)

Queues == Slots \X {"in", "out"}

Cell == [buf : Seq(STRING), next : Bufs \cup {Null}]

FreeIn(m) == {b \in Bufs : m[b].buf = <<>>}

Heap(m, hd, ch) ==
    /\ m \in [Bufs -> Cell]
    /\ \A q \in Queues : ch[q] \in Chains /\ Linked(m, ch[q], hd[q])
    /\ \A q \in Queues : \A x \in Elems(ch[q]) : m[x].buf # <<>>
    /\ \A p, q \in Queues : p # q => Elems(ch[p]) \cap Elems(ch[q]) = {}

\* f and g differ in q only, where g is v.
Changed(f, g, q, v) == g[q] = v /\ \A p \in Queues \ {q} : g[p] = f[p]

\* The chain of q gains b, loses b, becomes empty; the other ones are the same.
Gains(ch, e, q, b) == /\ \A p \in Queues \ {q} : e[p] = ch[p]
                      /\ \A x : x \in Elems(e[q]) <=> x = b \/ x \in Elems(ch[q])
Loses(ch, e, q, b) == /\ \A p \in Queues \ {q} : e[p] = ch[p]
                      /\ \A x : x \in Elems(e[q]) <=> x # b /\ x \in Elems(ch[q])
Empties(ch, e, q) == /\ \A p \in Queues \ {q} : e[p] = ch[p]
                     /\ Elems(e[q]) = {}

BufsOf(m, c) == [k \in 1 .. Len(c) |-> m[c[k]].buf]

ContentsOf(m, h) == BufsOf(m, ChainOf(m, h))

\* The contents of q get t at the end; the other ones are the same.
BoxGains(m, hd, n, g, q, t) ==
    /\ ContentsOf(n, g[q]) = Append(ContentsOf(m, hd[q]), t)
    /\ \A p \in Queues \ {q} : ContentsOf(n, g[p]) = ContentsOf(m, hd[p])

LEMMA HeapContents ==
    ASSUME NEW m, NEW hd, NEW ch, Heap(m, hd, ch), NEW q \in Queues
    PROVE  /\ ChainOf(m, hd[q]) = ch[q]
           /\ ContentsOf(m, hd[q]) = BufsOf(m, ch[q])
           /\ ContentsOf(m, hd[q]) \in Seq(Seq(STRING))
           /\ Len(ContentsOf(m, hd[q])) = Len(ch[q])
           /\ hd[q] = Null <=> ContentsOf(m, hd[q]) = <<>>
<1>1. ch[q] \in Chains /\ Linked(m, ch[q], hd[q])
  BY DEF Heap
<1>2. ChainOf(m, hd[q]) = ch[q]
  BY <1>1, ChainOfIs
<1> DEFINE c == ch[q]
           f == [k \in 1 .. Len(c) |-> m[c[k]].buf]
<1>3. Len(c) \in Nat /\ \A k \in 1 .. Len(c) : c[k] \in Bufs
  BY <1>1, ChainsType
<1>4. \A k \in 1 .. Len(c) : m[c[k]].buf \in Seq(STRING)
  BY <1>3 DEF Heap, Cell
<1>5. hd[q] = Null <=> c = <<>>
  BY <1>1, HeadOfChain
<1>6. c = <<>> <=> Len(c) = 0
  BY <1>1, ChainsType
<1>7. ContentsOf(m, hd[q]) = f
  BY <1>2 DEF ContentsOf, BufsOf
<1>8. f \in Seq(Seq(STRING)) /\ Len(f) = Len(c)
  BY <1>3, <1>4
<1>9. f = <<>> <=> Len(c) = 0
  BY <1>3, <1>8
<1>10. f = BufsOf(m, ch[q])
  BY DEF BufsOf
<1> HIDE DEF f
<1> QED BY <1>2, <1>5, <1>6, <1>7, <1>8, <1>9, <1>10

LEMMA HeapType ==
    ASSUME NEW m, NEW hd, NEW ch, Heap(m, hd, ch)
    PROVE  /\ \A p \in Queues : ch[p] \in Chains /\ Linked(m, ch[p], hd[p])
           /\ \A p \in Queues : Elems(ch[p]) \subseteq Bufs
           /\ \A p \in Queues : hd[p] # Null => hd[p] \in Elems(ch[p])
           /\ \A p \in Queues : hd[p] \in Bufs \cup {Null}
<1>1. \A p \in Queues : ch[p] \in Chains /\ Linked(m, ch[p], hd[p])
  BY DEF Heap
<1> QED BY <1>1, HeadOfChain

\* There is a function that differs from f in q only.
LEMMA ChangeIt ==
    ASSUME NEW f, NEW q \in Queues, NEW v
    PROVE  \E g : Changed(f, g, q, v)
<1>1. PICK g : g = [p \in Queues |-> IF p = q THEN v ELSE f[p]]
  OBVIOUS
<1> QED BY <1>1 DEF Changed

\* The chain of q becomes d, and the other ones stay what they are.
LEMMA HeapStep ==
    ASSUME NEW m, NEW hd, NEW ch, Heap(m, hd, ch), NEW q \in Queues,
           NEW n \in [Bufs -> Cell], NEW d \in Chains, NEW h, Linked(n, d, h),
           \A x \in Elems(d) : n[x].buf # <<>>,
           \A p \in Queues \ {q} : Elems(d) \cap Elems(ch[p]) = {},
           \A p \in Queues \ {q} : \A x \in Elems(ch[p]) : n[x] = m[x],
           NEW g, Changed(hd, g, q, h)
    PROVE  /\ \E e : Heap(n, g, e) /\ Changed(ch, e, q, d)
           /\ ContentsOf(n, g[q]) = BufsOf(n, d)
           /\ \A p \in Queues \ {q} : ContentsOf(n, g[p]) = ContentsOf(m, hd[p])
<1>1. /\ \A p \in Queues : ch[p] \in Chains /\ Linked(m, ch[p], hd[p])
      /\ \A p \in Queues : \A x \in Elems(ch[p]) : m[x].buf # <<>>
      /\ \A p, r \in Queues : p # r => Elems(ch[p]) \cap Elems(ch[r]) = {}
  BY DEF Heap
<1>3. PICK e : Changed(ch, e, q, d)
  BY ChangeIt
<1>4. /\ e[q] = d /\ g[q] = h
      /\ \A p \in Queues \ {q} : e[p] = ch[p] /\ g[p] = hd[p]
  BY <1>3 DEF Changed
<1>5. \A p \in Queues : e[p] \in Chains /\ Linked(n, e[p], g[p])
  <2> TAKE p \in Queues
  <2>1. CASE p = q
    BY <1>4, <2>1
  <2>2. CASE p # q
    <3>1. ch[p] \in Chains /\ Linked(m, ch[p], hd[p]) /\ e[p] = ch[p] /\ g[p] = hd[p]
      BY <1>1, <1>4, <2>2
    <3>2. SameNext(m, n, ch[p])
      BY <2>2 DEF SameNext
    <3>3. Linked(n, ch[p], hd[p])
      BY <3>1, <3>2, ChainKept
    <3> QED BY <3>1, <3>3
  <2> QED BY <2>1, <2>2
<1>6. \A p \in Queues : \A x \in Elems(e[p]) : n[x].buf # <<>>
  <2> TAKE p \in Queues
  <2>1. CASE p = q
    BY <1>4, <2>1
  <2>2. CASE p # q
    BY <1>1, <1>4, <2>2
  <2> QED BY <2>1, <2>2
<1>7. \A p, r \in Queues : p # r => Elems(e[p]) \cap Elems(e[r]) = {}
  <2> SUFFICES ASSUME NEW p \in Queues, NEW r \in Queues, p # r
               PROVE  Elems(e[p]) \cap Elems(e[r]) = {}
    OBVIOUS
  <2>1. CASE p = q
    BY <1>4, <2>1
  <2>2. CASE r = q
    BY <1>4, <2>2
  <2>3. CASE p # q /\ r # q
    BY <1>1, <1>4, <2>3
  <2> QED BY <2>1, <2>2, <2>3
<1>8. Heap(n, g, e)
  BY <1>5, <1>6, <1>7 DEF Heap
<1>9. ContentsOf(n, g[q]) = BufsOf(n, d)
  <2>1. ContentsOf(n, g[q]) = BufsOf(n, e[q])
    BY <1>8, HeapContents
  <2> QED BY <1>4, <2>1
<1>10. \A p \in Queues \ {q} : ContentsOf(n, g[p]) = ContentsOf(m, hd[p])
  <2> SUFFICES ASSUME NEW p \in Queues \ {q} PROVE ContentsOf(n, g[p]) = ContentsOf(m, hd[p])
    OBVIOUS
  <2>1. ContentsOf(n, g[p]) = BufsOf(n, e[p])
    BY <1>8, HeapContents
  <2>2. ContentsOf(m, hd[p]) = BufsOf(m, ch[p])
    BY HeapContents
  <2>3. \A k \in 1 .. Len(ch[p]) : n[ch[p][k]].buf = m[ch[p][k]].buf
    <3>1. \A k \in 1 .. Len(ch[p]) : ch[p][k] \in Elems(ch[p])
      BY DEF Elems
    <3> QED BY <3>1
  <2>4. e[p] = ch[p]
    BY <1>4
  <2>5. BufsOf(n, ch[p]) = BufsOf(m, ch[p])
    BY <2>3 DEF BufsOf
  <2> QED BY <2>1, <2>2, <2>4, <2>5
<1> QED BY <1>3, <1>8, <1>9, <1>10

\* What mbuf() and mbufq() write: last is the end of the queue from h.
Stored(m, n, b, t, h, last) ==
    /\ n \in [Bufs -> Cell]
    /\ n[b] = Filled(b, t)
    /\ h # Null => n[last].buf = m[last].buf /\ n[last].next = b
    /\ \A x \in Bufs \ {b} : h = Null \/ x # last => n[x] = m[x]

\* A buffer that was free is put behind the chain of q.
LEMMA HeapEnqueue ==
    ASSUME NEW m, NEW hd, NEW ch, Heap(m, hd, ch), NEW q \in Queues,
           NEW b \in Bufs, m[b].buf = <<>>, NEW t \in Seq(STRING), t # <<>>,
           NEW h, h = hd[q], NEW last, last = ch[q][Len(ch[q])],
           NEW n, Stored(m, n, b, t, h, last),
           NEW g, Changed(hd, g, q, HeadWith(h, b))
    PROVE  \E e : Heap(n, g, e) /\ Gains(ch, e, q, b) /\ BoxGains(m, hd, n, g, q, t)
<1>1. PICK c : c = ch[q]
  OBVIOUS
<1>2. PICK z : z = Len(c)
  OBVIOUS
<1>3. PICK d : d = Append(c, b)
  OBVIOUS
<1>l. last = c[z]
  BY <1>1, <1>2
<1>s. /\ n \in [Bufs -> Cell]
      /\ n[b] = Filled(b, t)
      /\ h # Null => n[last].buf = m[last].buf /\ n[last].next = b
      /\ \A x \in Bufs \ {b} : h = Null \/ x # last => n[x] = m[x]
  BY DEF Stored
<1>4. c \in Chains /\ Linked(m, c, h) /\ Elems(c) \subseteq Bufs
  BY <1>1, HeapType
<1>5. /\ c \in Seq(Bufs) /\ z \in Nat /\ \A k \in 1 .. z : c[k] \in Elems(c) /\ c[k] \in Bufs
  BY <1>2, <1>4, ChainsType DEF Elems
<1>6. (h = Null <=> c = <<>>) /\ (c = <<>> <=> z = 0)
  BY <1>2, <1>4, <1>5, HeadOfChain
<1>7. m \in [Bufs -> Cell]
  BY DEF Heap
<1>8. \A p \in Queues : b \notin Elems(ch[p])
  BY DEF Heap
<1>9. h # Null => last = c[z] /\ last \in Elems(c) /\ last \in Bufs /\ last # b
  <2>1. h # Null => z \in 1 .. z
    BY <1>5, <1>6
  <2> QED BY <1>1, <1>l, <1>5, <1>8, <2>1
<1>10. \A x \in Bufs \ {b} : n[x].buf = m[x].buf
  BY <1>9, <1>s
<1>11. \A x \in Bufs \ {b} : n[x].next = IF h # Null /\ x = last THEN b ELSE m[x].next
  BY <1>9, <1>s
<1>12. h = Null => Elems(c) = {}
  BY <1>2, <1>5, <1>6 DEF Elems
<1>13. d \in Chains /\ Linked(n, d, HeadWith(h, b)) /\ Elems(d) = Elems(c) \cup {b}
  <2>1. n[b].next = Null
    BY <1>s DEF Filled
  <2>2. \A x \in Elems(c) : n[x].next = IF x = c[Len(c)] THEN b ELSE m[x].next
    <3> SUFFICES ASSUME NEW x \in Elems(c) PROVE n[x].next = IF x = c[Len(c)] THEN b ELSE m[x].next
      OBVIOUS
    <3>1. x \in Bufs \ {b}
      BY <1>1, <1>4, <1>8
    <3>2. h # Null
      BY <1>12
    <3> QED BY <1>2, <1>9, <1>11, <3>1, <3>2
  <2>3. b \notin Elems(c)
    BY <1>1, <1>8
  <2>4. Appended(m, n, c, b)
    BY <2>1, <2>2 DEF Appended
  <2>5. /\ Append(c, b) \in Chains /\ Linked(n, Append(c, b), HeadWith(h, b))
        /\ \A x : x \in Elems(Append(c, b)) <=> x = b \/ x \in Elems(c)
    BY <1>4, <2>3, <2>4, AppendToChain
  <2> QED BY <1>3, <2>5
<1>14. \A p \in Queues \ {q} : Elems(c) \cap Elems(ch[p]) = {}
  BY <1>1 DEF Heap
<1>15. /\ \E e : Heap(n, g, e) /\ Changed(ch, e, q, d)
       /\ ContentsOf(n, g[q]) = BufsOf(n, d)
       /\ \A p \in Queues \ {q} : ContentsOf(n, g[p]) = ContentsOf(m, hd[p])
  <2>1. \A x \in Elems(d) : n[x].buf # <<>>
    <3>1. \A x \in Elems(c) : m[x].buf # <<>>
      BY <1>1 DEF Heap
    <3>2. n[b].buf # <<>>
      BY <1>s DEF Filled
    <3>3. \A x \in Elems(c) : n[x].buf # <<>>
      BY <1>1, <1>4, <1>8, <1>10, <3>1
    <3> QED BY <1>13, <3>2, <3>3
  <2>2. \A p \in Queues \ {q} : Elems(d) \cap Elems(ch[p]) = {}
    BY <1>8, <1>13, <1>14
  <2>3. \A p \in Queues \ {q} : \A x \in Elems(ch[p]) : n[x] = m[x]
    <3> SUFFICES ASSUME NEW p \in Queues \ {q}, NEW x \in Elems(ch[p]) PROVE n[x] = m[x]
      OBVIOUS
    <3>1. x \in Bufs \ {b} /\ x \notin Elems(c)
      BY <1>8, <1>14, HeapType
    <3> QED BY <1>9, <1>s, <3>1
  <2> QED BY <1>s, <1>13, <2>1, <2>2, <2>3, HeapStep
<1>e. PICK e : Heap(n, g, e) /\ Changed(ch, e, q, d)
  BY <1>15
<1>16. ContentsOf(n, g[q]) = Append(ContentsOf(m, hd[q]), t)
  <2>1. PICK f : f = ContentsOf(m, hd[q])
    OBVIOUS
  <2>2. PICK u : u = ContentsOf(n, g[q])
    OBVIOUS
  <2>3. f = BufsOf(m, c) /\ f \in Seq(Seq(STRING)) /\ Len(f) = z
    BY <1>1, <1>2, <2>1, HeapContents
  <2>4. /\ Len(d) = z + 1 /\ d[z + 1] = b /\ \A k \in 1 .. z : d[k] = c[k]
    BY <1>2, <1>3, <1>5, AppendProperties
  <2>5. /\ Append(f, t) \in Seq(Seq(STRING)) /\ Len(Append(f, t)) = z + 1 /\ Append(f, t)[z + 1] = t
        /\ \A k \in 1 .. z : Append(f, t)[k] = f[k]
    BY <1>5, <2>3, AppendProperties
  <2>6. u = [k \in 1 .. z + 1 |-> n[d[k]].buf]
    BY <1>15, <2>2, <2>4 DEF BufsOf
  <2>7. \A k \in 1 .. z + 1 : u[k] = Append(f, t)[k]
    <3> SUFFICES ASSUME NEW k \in 1 .. z + 1 PROVE u[k] = Append(f, t)[k]
      OBVIOUS
    <3>1. CASE k = z + 1
      <4>1. n[b].buf = t
        BY <1>s DEF Filled
      <4> QED BY <4>1, <2>4, <2>5, <2>6, <3>1
    <3>2. CASE k # z + 1
      <4>1. k \in 1 .. z
        BY <1>5, <3>2
      <4>2. u[k] = n[c[k]].buf
        BY <2>4, <2>6, <4>1
      <4>3. Append(f, t)[k] = m[c[k]].buf
        BY <1>2, <2>3, <2>5, <4>1 DEF BufsOf
      <4>4. c[k] \in Bufs \ {b}
        BY <1>1, <1>5, <1>8, <4>1
      <4> QED BY <1>10, <4>2, <4>3, <4>4
    <3> QED BY <3>1, <3>2
  <2>8. u \in Seq(Seq(STRING)) /\ Len(u) = z + 1
    <3>1. e[q] = d
      BY <1>e DEF Changed
    <3>2. u \in Seq(Seq(STRING)) /\ Len(u) = Len(d)
      BY <1>e, <2>2, <3>1, HeapContents
    <3> QED BY <2>4, <3>2
  <2>9. u = Append(f, t)
    BY <2>5, <2>7, <2>8, SeqEqual
  <2> QED BY <2>1, <2>2, <2>9
<1>17. \A x : x \in Elems(e[q]) <=> x = b \/ x \in Elems(ch[q])
  BY <1>1, <1>13, <1>e DEF Changed
<1>18. \A p \in Queues \ {q} : e[p] = ch[p]
  BY <1>e DEF Changed
<1>19. Gains(ch, e, q, b)
  BY <1>17, <1>18 DEF Gains
<1>20. BoxGains(m, hd, n, g, q, t)
  BY <1>15, <1>16 DEF BoxGains
<1> QED BY <1>19, <1>20, <1>e

\* The first buffer of the chain of q is freed.
LEMMA HeapDequeue ==
    ASSUME NEW m, NEW hd, NEW ch, Heap(m, hd, ch), NEW q \in Queues, NEW b, b = hd[q], b # Null,
           NEW n \in [Bufs -> Cell],
           n[b].buf = <<>>, n[b].next = m[b].next, \A x \in Bufs \ {b} : n[x] = m[x],
           NEW g, Changed(hd, g, q, m[b].next)
    PROVE  /\ \E e : Heap(n, g, e) /\ Loses(ch, e, q, b)
           /\ ContentsOf(m, hd[q]) # <<>>
           /\ ContentsOf(n, g[q]) = Tail(ContentsOf(m, hd[q]))
           /\ \A p \in Queues \ {q} : ContentsOf(n, g[p]) = ContentsOf(m, hd[p])
<1>1. PICK c : c = ch[q]
  OBVIOUS
<1>2. PICK z : z = Len(c)
  OBVIOUS
<1>3. PICK d : d = Tail(c)
  OBVIOUS
<1>4. c \in Chains /\ Linked(m, c, b) /\ Elems(c) \subseteq Bufs /\ b \in Elems(c)
  BY <1>1, HeapType
<1>5. c # <<>> /\ b = c[1]
  BY <1>4, HeadOfChain
<1>6. /\ c \in Seq(Bufs) /\ z \in Nat /\ z > 0
      /\ \A k \in 1 .. z : c[k] \in Elems(c) /\ c[k] \in Bufs
      /\ \A i, j \in 1 .. z : c[i] = c[j] => i = j
  <2>1. c \in Seq(Bufs) /\ z \in Nat /\ \A i, j \in 1 .. z : c[i] = c[j] => i = j
    BY <1>2, <1>4, ChainsType
  <2>2. z # 0
    BY <1>2, <1>5, <2>1
  <2> QED BY <1>2, <2>1, <2>2 DEF Elems
<1>7. /\ d \in Seq(Bufs) /\ Len(d) = z - 1 /\ \A k \in 1 .. z - 1 : d[k] = c[k + 1]
  BY <1>2, <1>3, <1>5, <1>6, HeadTailProperties
<1>8. d \in Chains /\ Linked(n, d, m[b].next) /\ Elems(d) = Elems(c) \ {b}
  <2>1. SameNext(m, n, c)
    BY <1>4 DEF SameNext
  <2>2. Tail(c) \in Chains /\ Linked(n, Tail(c), m[b].next) /\ Elems(Tail(c)) = Elems(c) \ {b}
    BY <1>4, <2>1, TailOfChain
  <2> QED BY <1>3, <2>2
<1>9. \A p \in Queues \ {q} : Elems(c) \cap Elems(ch[p]) = {}
  BY <1>1 DEF Heap
<1>10. /\ \E e : Heap(n, g, e) /\ Changed(ch, e, q, d)
       /\ ContentsOf(n, g[q]) = BufsOf(n, d)
       /\ \A p \in Queues \ {q} : ContentsOf(n, g[p]) = ContentsOf(m, hd[p])
  <2>1. \A x \in Elems(d) : n[x].buf # <<>>
    <3>1. \A x \in Elems(c) : m[x].buf # <<>>
      BY <1>1 DEF Heap
    <3> QED BY <1>4, <1>8, <3>1
  <2>2. \A p \in Queues \ {q} : Elems(d) \cap Elems(ch[p]) = {}
    BY <1>8, <1>9
  <2>3. \A p \in Queues \ {q} : \A x \in Elems(ch[p]) : n[x] = m[x]
    <3> SUFFICES ASSUME NEW p \in Queues \ {q}, NEW x \in Elems(ch[p]) PROVE n[x] = m[x]
      OBVIOUS
    <3>1. x \in Bufs \ {b}
      BY <1>4, <1>9, HeapType
    <3> QED BY <3>1
  <2> QED BY <1>8, <2>1, <2>2, <2>3, HeapStep
<1>e. PICK e : Heap(n, g, e) /\ Changed(ch, e, q, d)
  BY <1>10
<1>11. ContentsOf(m, hd[q]) # <<>> /\ ContentsOf(n, g[q]) = Tail(ContentsOf(m, hd[q]))
  <2>1. PICK f : f = ContentsOf(m, hd[q])
    OBVIOUS
  <2>2. PICK u : u = ContentsOf(n, g[q])
    OBVIOUS
  <2>3. f = BufsOf(m, c) /\ f \in Seq(Seq(STRING)) /\ Len(f) = z
    BY <1>1, <1>2, <2>1, HeapContents
  <2>4. f # <<>>
    BY <1>6, <2>3
  <2>5. /\ Tail(f) \in Seq(Seq(STRING)) /\ Len(Tail(f)) = z - 1
        /\ \A k \in 1 .. z - 1 : Tail(f)[k] = f[k + 1]
    BY <1>6, <2>3, <2>4, HeadTailProperties
  <2>6. u = [k \in 1 .. z - 1 |-> n[d[k]].buf]
    BY <1>7, <1>10, <2>2 DEF BufsOf
  <2>7. \A k \in 1 .. z - 1 : u[k] = Tail(f)[k]
    <3> SUFFICES ASSUME NEW k \in 1 .. z - 1 PROVE u[k] = Tail(f)[k]
      OBVIOUS
    <3>1. k + 1 \in 1 .. z /\ 1 \in 1 .. z /\ k + 1 # 1
      BY <1>6
    <3>2. u[k] = n[c[k + 1]].buf
      BY <1>7, <2>6
    <3>3. Tail(f)[k] = m[c[k + 1]].buf
      BY <1>2, <2>3, <2>5, <3>1 DEF BufsOf
    <3>4. c[k + 1] \in Bufs \ {b}
      BY <1>5, <1>6, <3>1
    <3> QED BY <3>2, <3>3, <3>4
  <2>8. u \in Seq(Seq(STRING)) /\ Len(u) = z - 1
    <3>1. e[q] = d
      BY <1>e DEF Changed
    <3>2. u \in Seq(Seq(STRING)) /\ Len(u) = Len(d)
      BY <1>e, <2>2, <3>1, HeapContents
    <3> QED BY <1>7, <3>2
  <2>9. u = Tail(f)
    BY <2>5, <2>7, <2>8, SeqEqual
  <2> QED BY <2>1, <2>2, <2>4, <2>9
<1>12. \A x : x \in Elems(e[q]) <=> x # b /\ x \in Elems(ch[q])
  BY <1>1, <1>8, <1>e DEF Changed
<1>13. \A p \in Queues \ {q} : e[p] = ch[p]
  BY <1>e DEF Changed
<1>14. Loses(ch, e, q, b)
  BY <1>12, <1>13 DEF Loses
<1> QED BY <1>10, <1>11, <1>14, <1>e

\* The chain of q is given up.
LEMMA HeapEmpty ==
    ASSUME NEW m, NEW hd, NEW ch, Heap(m, hd, ch), NEW q \in Queues,
           NEW n \in [Bufs -> Cell], \A p \in Queues \ {q} : \A x \in Elems(ch[p]) : n[x] = m[x],
           NEW g, Changed(hd, g, q, Null)
    PROVE  /\ \E e : Heap(n, g, e) /\ Empties(ch, e, q)
           /\ ContentsOf(n, g[q]) = <<>>
           /\ \A p \in Queues \ {q} : ContentsOf(n, g[p]) = ContentsOf(m, hd[p])
<1>1. PICK d : d = <<>>
  OBVIOUS
<1>2. d \in Chains /\ Linked(n, d, Null) /\ Elems(d) = {} /\ Len(d) = 0
  BY <1>1, EmptyChain DEF Elems
<1>4. /\ \E e : Heap(n, g, e) /\ Changed(ch, e, q, d)
      /\ ContentsOf(n, g[q]) = BufsOf(n, d)
      /\ \A p \in Queues \ {q} : ContentsOf(n, g[p]) = ContentsOf(m, hd[p])
  BY <1>2, HeapStep
<1>e. PICK e : Heap(n, g, e) /\ Changed(ch, e, q, d)
  BY <1>4
<1>5. /\ e[q] = d /\ g[q] = Null
      /\ \A p \in Queues \ {q} : e[p] = ch[p]
  BY <1>e DEF Changed
<1>6. ContentsOf(n, g[q]) = <<>>
  BY <1>e, <1>5, HeapContents
<1>7. Empties(ch, e, q)
  BY <1>2, <1>5 DEF Empties
<1> QED BY <1>4, <1>6, <1>7, <1>e

\* Nothing is freed and no queue changes.
LEMMA HeapSame ==
    ASSUME NEW m, NEW hd, NEW ch, Heap(m, hd, ch), NEW g, \A q \in Queues : g[q] = hd[q]
    PROVE  /\ Heap(m, g, ch)
           /\ \A q \in Queues : ContentsOf(m, g[q]) = ContentsOf(m, hd[q])
BY DEF Heap

-----------------------------------------------------------------------------
(* The heap of a state. *)

InQ(s) == <<s, "in">>
OutQ(s) == <<s, "out">>

Hd == [q \in Queues |-> IF q[2] = "in" THEN iq[q[1]] ELSE oq[q[1]]]

In == [s \in Slots |-> Contents(iq[s])]
Out == [s \in Slots |-> Contents(oq[s])]
Left == Cardinality(Free)

LEMMA QueuesType ==
    /\ \A s \in Slots : InQ(s) \in Queues /\ OutQ(s) \in Queues
    /\ \A s, r \in Slots : InQ(s) # OutQ(r)
    /\ \A s, r \in Slots : (InQ(s) = InQ(r) => s = r) /\ (OutQ(s) = OutQ(r) => s = r)
    /\ \A q \in Queues : \E s \in Slots : q = InQ(s) \/ q = OutQ(s)
BY DEF Queues, InQ, OutQ

LEMMA HdIs ==
    ASSUME NEW s \in Slots
    PROVE  /\ Hd[InQ(s)] = iq[s] /\ Hd[OutQ(s)] = oq[s]
           /\ Hd'[InQ(s)] = iq'[s] /\ Hd'[OutQ(s)] = oq'[s]
<1>1. /\ InQ(s) \in Queues /\ InQ(s)[1] = s /\ InQ(s)[2] = "in"
      /\ OutQ(s) \in Queues /\ OutQ(s)[1] = s /\ OutQ(s)[2] # "in"
  BY DEF Queues, InQ, OutQ
<1> QED BY <1>1 DEF Hd

LEMMA ContentsIs ==
    /\ In = [s \in Slots |-> ContentsOf(mem, Hd[InQ(s)])]
    /\ Out = [s \in Slots |-> ContentsOf(mem, Hd[OutQ(s)])]
    /\ In' = [s \in Slots |-> ContentsOf(mem', Hd'[InQ(s)])]
    /\ Out' = [s \in Slots |-> ContentsOf(mem', Hd'[OutQ(s)])]
<1>1. \A h : Contents(h) = ContentsOf(mem, h)
  BY DEF Contents, ContentsOf, BufsOf, Chain, ChainOf, IsChain, Linked
<1>2. /\ In' = [s \in Slots |-> ContentsOf(mem', iq'[s])]
      /\ Out' = [s \in Slots |-> ContentsOf(mem', oq'[s])]
  BY DEF In, Out, Contents, ContentsOf, BufsOf, Chain, ChainOf, IsChain, Linked
<1>3. /\ In = [s \in Slots |-> ContentsOf(mem, iq[s])]
      /\ Out = [s \in Slots |-> ContentsOf(mem, oq[s])]
  BY <1>1 DEF In, Out
<1> QED BY <1>2, <1>3, HdIs

\* What a step does to the boxes, from what it does to one queue.
LEMMA InChanges ==
    ASSUME NEW s \in Slots,
           \A p \in Queues \ {InQ(s)} : ContentsOf(mem', Hd'[p]) = ContentsOf(mem, Hd[p])
    PROVE  In' = [In EXCEPT ![s] = ContentsOf(mem', Hd'[InQ(s)])] /\ Out' = Out
<1>1. \A r \in Slots : /\ OutQ(r) \in Queues \ {InQ(s)}
                       /\ r # s => InQ(r) \in Queues \ {InQ(s)}
  BY QueuesType
<1>2. Out' = Out
  BY <1>1, ContentsIs
<1>3. \A r \in Slots : r # s => ContentsOf(mem', Hd'[InQ(r)]) = ContentsOf(mem, Hd[InQ(r)])
  BY <1>1
<1> QED BY <1>2, <1>3, ContentsIs

LEMMA OutChanges ==
    ASSUME NEW s \in Slots,
           \A p \in Queues \ {OutQ(s)} : ContentsOf(mem', Hd'[p]) = ContentsOf(mem, Hd[p])
    PROVE  Out' = [Out EXCEPT ![s] = ContentsOf(mem', Hd'[OutQ(s)])] /\ In' = In
<1>1. \A r \in Slots : /\ InQ(r) \in Queues \ {OutQ(s)}
                       /\ r # s => OutQ(r) \in Queues \ {OutQ(s)}
  BY QueuesType
<1>2. In' = In
  BY <1>1, ContentsIs
<1>3. \A r \in Slots : r # s => ContentsOf(mem', Hd'[OutQ(r)]) = ContentsOf(mem, Hd[OutQ(r)])
  BY <1>1
<1> QED BY <1>2, <1>3, ContentsIs

LEMMA BoxesKept ==
    ASSUME UNCHANGED <<mem, iq, oq>>
    PROVE  Hd' = Hd /\ In' = In /\ Out' = Out /\ Free' = Free /\ Left' = Left
<1>1. Hd' = Hd
  BY DEF Hd
<1>2. In' = In /\ Out' = Out
  BY <1>1, ContentsIs
<1> QED BY <1>1, <1>2 DEF Free, Left

LEMMA InHeadChanges ==
    ASSUME NEW s \in Slots, NEW h, DOMAIN iq = Slots, iq' = [iq EXCEPT ![s] = h], UNCHANGED oq
    PROVE  Changed(Hd, Hd', InQ(s), h)
<1>1. Hd'[InQ(s)] = h
  BY HdIs
<1>2. \A r \in Slots : Hd'[OutQ(r)] = Hd[OutQ(r)] /\ (r # s => Hd'[InQ(r)] = Hd[InQ(r)])
  BY HdIs
<1> QED BY <1>1, <1>2, QueuesType DEF Changed

LEMMA OutHeadChanges ==
    ASSUME NEW s \in Slots, NEW h, DOMAIN oq = Slots, oq' = [oq EXCEPT ![s] = h], UNCHANGED iq
    PROVE  Changed(Hd, Hd', OutQ(s), h)
<1>1. Hd'[OutQ(s)] = h
  BY HdIs
<1>2. \A r \in Slots : Hd'[InQ(r)] = Hd[InQ(r)] /\ (r # s => Hd'[OutQ(r)] = Hd[OutQ(r)])
  BY HdIs
<1> QED BY <1>1, <1>2, QueuesType DEF Changed

LEMMA FreeType == Free = FreeIn(mem) /\ Free' = FreeIn(mem') /\ IsFiniteSet(Free) /\ Left \in Nat
<1>1. Free \subseteq Bufs
  BY DEF Free
<1>2. IsFiniteSet(Free)
  BY <1>1, BufsFinite, FS_Subset, Zenon
<1>3. Left \in Nat
  BY <1>2, FS_CardinalityType DEF Left
<1> QED BY <1>2, <1>3 DEF Free, FreeIn

\* mbuf() and mbufq() of a message t.
LEMMA EnqueueStep ==
    ASSUME NEW ch, Heap(mem, Hd, ch), NEW q \in Queues, NEW h, h = Hd[q],
           NEW b \in Bufs, FirstFree(b), NEW t \in Seq(STRING), t # <<>>, Enqueue(b, t, h),
           Changed(Hd, Hd', q, HeadWith(h, b))
    PROVE  /\ \E e : Heap(mem', Hd', e) /\ Gains(ch, e, q, b)
           /\ ContentsOf(mem', Hd'[q]) = Append(ContentsOf(mem, Hd[q]), t)
           /\ \A p \in Queues \ {q} : ContentsOf(mem', Hd'[p]) = ContentsOf(mem, Hd[p])
           /\ \A x \in Bufs : mem'[x].buf = IF x = b THEN t ELSE mem[x].buf
           /\ Left > 0 /\ Left' = Left - 1
<1>1. mem[b].buf = <<>> /\ b \in Free
  BY DEF FirstFree, Free
<1>2. mem \in [Bufs -> Cell]
  BY DEF Heap
<1>3. PICK c : c = ch[q]
  OBVIOUS
<1>4. c \in Chains /\ Linked(mem, c, h) /\ Elems(c) \subseteq Bufs /\ b \notin Elems(c)
  <2>1. b \notin Elems(ch[q])
    BY <1>1 DEF Heap
  <2> QED BY <1>3, <2>1, HeapType
<1>5. Chain(h) = c
  <2>1. ChainOf(mem, h) = c
    BY <1>4, ChainOfIs
  <2> QED BY <2>1 DEF Chain, ChainOf, IsChain, Linked
<1>6. PICK last : last = c[Len(c)]
  OBVIOUS
<1>7. h # Null => last \in Elems(c) /\ last \in Bufs /\ last # b
  <2>1. h # Null => c # <<>>
    BY <1>4, HeadOfChain
  <2>2. Len(c) \in Nat /\ c \in Seq(Bufs)
    BY <1>4, ChainsType
  <2>3. h # Null => Len(c) \in 1 .. Len(c)
    BY <2>1, <2>2
  <2>4. h # Null => last \in Elems(c)
    BY <1>6, <2>3 DEF Elems
  <2> QED BY <1>4, <2>4
<1>8. Filled(b, t) \in Cell /\ Filled(b, t).buf = t
  BY DEF Filled, Cell
<1>9. /\ mem' \in [Bufs -> Cell]
      /\ mem'[b] = Filled(b, t)
      /\ h # Null => mem'[last].buf = mem[last].buf /\ mem'[last].next = b
      /\ \A x \in Bufs \ {b} : h = Null \/ x # last => mem'[x] = mem[x]
  <2>1. CASE h = Null
    <3>1. mem' = [mem EXCEPT ![b] = Filled(b, t)]
      BY <2>1 DEF Enqueue
    <3> QED BY <1>2, <1>8, <2>1, <3>1
  <2>2. CASE h # Null
    <3>1. mem' = [mem EXCEPT ![b] = Filled(b, t), ![last].next = b]
      BY <1>5, <1>6, <2>2 DEF Enqueue
    <3>2. PICK f : f = [mem EXCEPT ![b] = Filled(b, t)]
      OBVIOUS
    <3>3. f \in [Bufs -> Cell] /\ f[b] = Filled(b, t) /\ \A x \in Bufs \ {b} : f[x] = mem[x]
      BY <1>2, <1>8, <3>2
    <3>4. mem' = [f EXCEPT ![last].next = b]
      BY <3>1, <3>2
    <3>5. PICK v : v = [f[last] EXCEPT !.next = b]
      OBVIOUS
    <3>6. v \in Cell /\ v.buf = f[last].buf /\ v.next = b
      BY <1>7, <2>2, <3>3, <3>5 DEF Cell
    <3>7. mem' = [f EXCEPT ![last] = v]
      BY <3>4, <3>5
    <3>8. last \in Bufs \ {b}
      BY <1>7, <2>2
    <3> QED BY <2>2, <3>3, <3>6, <3>7, <3>8
  <2> QED BY <2>1, <2>2
<1>10. \A x \in Bufs : mem'[x].buf = IF x = b THEN t ELSE mem[x].buf
  BY <1>8, <1>9
<1>11. Stored(mem, mem', b, t, h, last)
  BY <1>9 DEF Stored
<1>12. last = ch[q][Len(ch[q])]
  BY <1>3, <1>6
<1>13. Left > 0 /\ Left' = Left - 1
  <2>1. Free' = Free \ {b}
    BY <1>10, FreeType DEF Free, FreeIn
  <2>2. Cardinality(Free') = Left - 1
    BY <1>1, <2>1, FreeType, FS_RemoveElement DEF Left
  <2>3. Left # 0
    BY <1>1, FreeType, FS_EmptySet DEF Left
  <2> QED BY <2>2, <2>3, FreeType DEF Left
<1>14. \E e : Heap(mem', Hd', e) /\ Gains(ch, e, q, b) /\ BoxGains(mem, Hd, mem', Hd', q, t)
  BY <1>1, <1>11, <1>12, HeapEnqueue
<1> QED BY <1>10, <1>13, <1>14 DEF BoxGains

\* mbufp() of the first buffer from h.
LEMMA DequeueStep ==
    ASSUME NEW ch, Heap(mem, Hd, ch), NEW q \in Queues, NEW h, h = Hd[q], h # Null, Dequeue(h),
           Changed(Hd, Hd', q, mem[h].next)
    PROVE  /\ \E e : Heap(mem', Hd', e) /\ Loses(ch, e, q, h)
           /\ ContentsOf(mem, Hd[q]) # <<>>
           /\ ContentsOf(mem', Hd'[q]) = Tail(ContentsOf(mem, Hd[q]))
           /\ \A p \in Queues \ {q} : ContentsOf(mem', Hd'[p]) = ContentsOf(mem, Hd[p])
           /\ \A x \in Bufs : mem'[x].buf = IF x = h THEN <<>> ELSE mem[x].buf
           /\ h \in Bufs /\ mem[h].next \in Bufs \cup {Null}
           /\ Left' = Left + 1
<1>1. mem \in [Bufs -> Cell]
  BY DEF Heap
<1>2. h \in Bufs /\ h \in Elems(ch[q]) /\ mem[h].buf # <<>>
  <2>1. h \in Elems(ch[q])
    BY HeapType
  <2>2. h \in Bufs
    BY <2>1, HeapType
  <2>3. mem[h].buf # <<>>
    BY <2>1 DEF Heap
  <2> QED BY <2>1, <2>2, <2>3
<1>3. PICK v : v = [mem[h] EXCEPT !.buf = <<>>]
  OBVIOUS
<1>4. v \in Cell /\ v.buf = <<>> /\ v.next = mem[h].next /\ mem[h].next \in Bufs \cup {Null}
  <2>1. mem[h] \in Cell
    BY <1>1, <1>2
  <2>2. <<>> \in Seq(STRING)
    OBVIOUS
  <2> QED BY <1>3, <2>1, <2>2 DEF Cell
<1>5. mem' = [mem EXCEPT ![h] = v]
  BY <1>3 DEF Dequeue
<1>6. /\ mem' \in [Bufs -> Cell]
      /\ mem'[h] = v /\ \A x \in Bufs \ {h} : mem'[x] = mem[x]
  BY <1>1, <1>2, <1>4, <1>5
<1>7. mem'[h].buf = <<>> /\ mem'[h].next = mem[h].next
  BY <1>4, <1>6
<1>8. \A x \in Bufs : mem'[x].buf = IF x = h THEN <<>> ELSE mem[x].buf
  BY <1>6, <1>7
<1>9. \E e : Heap(mem', Hd', e) /\ Loses(ch, e, q, h)
  BY <1>6, <1>7, HeapDequeue
<1>10. ContentsOf(mem, Hd[q]) # <<>> /\ ContentsOf(mem', Hd'[q]) = Tail(ContentsOf(mem, Hd[q]))
  BY <1>6, <1>7, HeapDequeue
<1>11. \A p \in Queues \ {q} : ContentsOf(mem', Hd'[p]) = ContentsOf(mem, Hd[p])
  BY <1>6, <1>7, HeapDequeue
<1>12. Left' = Left + 1
  <2>1. Free' = Free \cup {h} /\ h \notin Free
    BY <1>2, <1>8, FreeType DEF Free, FreeIn
  <2>2. Cardinality(Free') = Left + 1
    BY <2>1, FreeType, FS_AddElement DEF Left
  <2> QED BY <2>2 DEF Left
<1> QED BY <1>2, <1>4, <1>8, <1>9, <1>10, <1>11, <1>12

\* mbufp() of all the buffers from h.
LEMMA DrainStep ==
    ASSUME NEW ch, Heap(mem, Hd, ch), NEW q \in Queues, NEW h, h = Hd[q], Drain(h),
           Changed(Hd, Hd', q, Null)
    PROVE  /\ \E e : Heap(mem', Hd', e) /\ Empties(ch, e, q)
           /\ ContentsOf(mem', Hd'[q]) = <<>>
           /\ \A p \in Queues \ {q} : ContentsOf(mem', Hd'[p]) = ContentsOf(mem, Hd[p])
           /\ \A x \in Bufs : mem'[x].buf = IF x \in Elems(ch[q]) THEN <<>> ELSE mem[x].buf
           /\ Left' = Left + Len(ContentsOf(mem, Hd[q]))
<1>1. mem \in [Bufs -> Cell]
  BY DEF Heap
<1>2. PICK c : c = ch[q]
  OBVIOUS
<1>3. c \in Chains /\ Linked(mem, c, h) /\ Elems(c) \subseteq Bufs
  BY <1>2, HeapType
<1>4. Chain(h) = c
  <2>1. ChainOf(mem, h) = c
    BY <1>3, ChainOfIs
  <2> QED BY <2>1 DEF Chain, ChainOf, IsChain, Linked
<1>5. mem' = [b \in Bufs |-> IF b \in Elems(c) THEN [mem[b] EXCEPT !.buf = <<>>] ELSE mem[b]]
  <2>1. \A b : (\E k \in 1 .. Len(c) : c[k] = b) <=> b \in Elems(c)
    BY DEF Elems
  <2>2. mem' = [b \in Bufs |-> IF \E k \in 1 .. Len(c) : c[k] = b
                               THEN [mem[b] EXCEPT !.buf = <<>>] ELSE mem[b]]
    BY <1>4 DEF Drain
  <2> QED BY <2>1, <2>2
<1>6. \A x \in Bufs : /\ mem'[x] \in Cell
                      /\ mem'[x].buf = IF x \in Elems(c) THEN <<>> ELSE mem[x].buf
                      /\ x \notin Elems(c) => mem'[x] = mem[x]
  <2> TAKE x \in Bufs
  <2>1. CASE x \in Elems(c)
    <3>1. mem[x] \in Cell
      BY <1>1
    <3>2. mem'[x] = [mem[x] EXCEPT !.buf = <<>>]
      BY <1>5, <2>1
    <3>3. <<>> \in Seq(STRING)
      OBVIOUS
    <3> QED BY <2>1, <3>1, <3>2, <3>3 DEF Cell
  <2>2. CASE x \notin Elems(c)
    BY <1>1, <1>5, <2>2
  <2> QED BY <2>1, <2>2
<1>7. mem' \in [Bufs -> Cell]
  BY <1>5, <1>6
<1>8. \A p \in Queues \ {q} : \A x \in Elems(ch[p]) : mem'[x] = mem[x]
  <2> SUFFICES ASSUME NEW p \in Queues \ {q}, NEW x \in Elems(ch[p]) PROVE mem'[x] = mem[x]
    OBVIOUS
  <2>1. x \in Bufs /\ x \notin Elems(c)
    BY <1>2, HeapType DEF Heap
  <2> QED BY <1>6, <2>1
<1>9. \E e : Heap(mem', Hd', e) /\ Empties(ch, e, q)
  BY <1>7, <1>8, HeapEmpty
<1>10. ContentsOf(mem', Hd'[q]) = <<>>
  BY <1>7, <1>8, HeapEmpty
<1>11. \A p \in Queues \ {q} : ContentsOf(mem', Hd'[p]) = ContentsOf(mem, Hd[p])
  BY <1>7, <1>8, HeapEmpty
<1>12. Left' = Left + Len(ContentsOf(mem, Hd[q]))
  <2>1. Len(ContentsOf(mem, Hd[q])) = Len(c)
    BY <1>2, HeapContents
  <2>2. \A x \in Elems(c) : mem[x].buf # <<>>
    BY <1>2 DEF Heap
  <2>3. \A x \in Bufs : x \in Free' <=> x \in Free \/ x \in Elems(c)
    BY <1>6, FreeType DEF Free, FreeIn
  <2>4. Free' \subseteq Bufs /\ Free \subseteq Bufs /\ Free \cap Elems(c) = {}
    BY <1>3, <2>2, FreeType DEF Free, FreeIn
  <2>5. Free' = Free \cup Elems(c)
    BY <1>3, <2>3, <2>4
  <2>6. IsFiniteSet(Elems(c)) /\ Cardinality(Elems(c)) = Len(c) /\ Len(c) \in Nat
    BY <1>3, ElemsOfChain, ChainsType
  <2>7. Cardinality(Free \cup Elems(c)) = Left + Len(c) - Cardinality({})
    BY <2>4, <2>6, FreeType, FS_Union DEF Left
  <2>8. Cardinality({}) = 0
    BY FS_EmptySet
  <2> QED BY <2>1, <2>5, <2>6, <2>7, <2>8, FreeType DEF Left
<1> QED BY <1>2, <1>6, <1>9, <1>10, <1>11, <1>12

-----------------------------------------------------------------------------
(* The invariant. *)

\* A taken buffer holds a command, or is in a queue to the user.
Lost(ch) == \A b \in Bufs : \/ mem[b].buf = <<>> \/ mem[b].buf \in Cmds
                            \/ \E s \in Slots : b \in Elems(ch[InQ(s)])

HeapInv == \E ch : Heap(mem, Hd, ch) /\ Lost(ch)

Shape ==
    /\ id \in [Slots -> BOOLEAN] /\ ws \in [Slots -> BOOLEAN] /\ up \in BOOLEAN
    /\ coming \in [Slots -> Texts \cup {Nothing}]
    /\ got \in [Slots -> 0 .. MaxLen] /\ fb \in [Slots -> Seq(STRING)]
    /\ iq \in [Slots -> Bufs \cup {Null}] /\ oq \in [Slots -> Bufs \cup {Null}]
    /\ cur \in Bufs

\* The fragments are what has arrived of the message; a queue to the user belongs
\* to a connection.
SlotInv(s) ==
    /\ Len(fb[s]) <= MaxLen
    /\ ws[s] => got[s] <= Len(coming[s]) /\ fb[s] = SubSeq(coming[s], 1, got[s])
    /\ ~ws[s] => iq[s] = Null

Inv == Shape /\ (\A s \in Slots : SlotInv(s)) /\ HeapInv

LEMMA HeapKept ==
    ASSUME HeapInv, UNCHANGED <<mem, iq, oq>>
    PROVE  HeapInv'
<1>1. PICK ch : Heap(mem, Hd, ch) /\ Lost(ch)
  BY DEF HeapInv
<1>2. Hd' = Hd
  BY BoxesKept
<1>3. Heap(mem', Hd', ch) /\ Lost(ch)'
  BY <1>1, <1>2 DEF Lost
<1> QED BY <1>3 DEF HeapInv

LEMMA OutEnqueue ==
    ASSUME HeapInv, NEW s \in Slots, NEW b \in Bufs, FirstFree(b), NEW t \in Cmds,
           Enqueue(b, t, oq[s]), DOMAIN oq = Slots,
           oq' = [oq EXCEPT ![s] = HeadWith(@, b)], UNCHANGED iq
    PROVE  /\ HeapInv'
           /\ Out' = [Out EXCEPT ![s] = Append(@, t)] /\ In' = In
           /\ Left > 0 /\ Left' = Left - 1
<1>1. PICK ch : Heap(mem, Hd, ch) /\ Lost(ch)
  BY DEF HeapInv
<1>2. PICK q : q = OutQ(s)
  OBVIOUS
<1>3. q \in Queues /\ oq[s] = Hd[q] /\ \A r \in Slots : InQ(r) \in Queues \ {q}
  BY <1>2, HdIs, QueuesType
<1>4. t \in Seq(STRING) /\ t # <<>>
  BY MbufAssumption
<1>5. Changed(Hd, Hd', q, HeadWith(oq[s], b))
  BY <1>2, OutHeadChanges
<1>6. /\ \E e : Heap(mem', Hd', e) /\ Gains(ch, e, q, b)
      /\ ContentsOf(mem', Hd'[q]) = Append(ContentsOf(mem, Hd[q]), t)
      /\ \A p \in Queues \ {q} : ContentsOf(mem', Hd'[p]) = ContentsOf(mem, Hd[p])
      /\ \A x \in Bufs : mem'[x].buf = IF x = b THEN t ELSE mem[x].buf
      /\ Left > 0 /\ Left' = Left - 1
  BY <1>1, <1>3, <1>4, <1>5, EnqueueStep
<1>7. PICK e : Heap(mem', Hd', e) /\ Gains(ch, e, q, b)
  BY <1>6
<1>8. \A r \in Slots : e[InQ(r)] = ch[InQ(r)]
  BY <1>3, <1>7 DEF Gains
<1>9. Lost(e)'
  BY <1>1, <1>6, <1>8 DEF Lost
<1>10. HeapInv'
  BY <1>7, <1>9 DEF HeapInv
<1>11. Out[s] = ContentsOf(mem, Hd[q])
  BY <1>2, ContentsIs
<1>12. Out' = [Out EXCEPT ![s] = ContentsOf(mem', Hd'[q])] /\ In' = In
  BY <1>2, <1>6, OutChanges
<1> QED BY <1>6, <1>10, <1>11, <1>12

LEMMA InEnqueue ==
    ASSUME HeapInv, NEW s \in Slots, NEW b \in Bufs, FirstFree(b),
           NEW t \in Seq(STRING), t # <<>>,
           Enqueue(b, t, iq[s]), DOMAIN iq = Slots,
           iq' = [iq EXCEPT ![s] = HeadWith(@, b)], UNCHANGED oq
    PROVE  /\ HeapInv'
           /\ In' = [In EXCEPT ![s] = Append(@, t)] /\ Out' = Out
           /\ Left > 0 /\ Left' = Left - 1
<1>1. PICK ch : Heap(mem, Hd, ch) /\ Lost(ch)
  BY DEF HeapInv
<1>2. PICK q : q = InQ(s)
  OBVIOUS
<1>3. q \in Queues /\ iq[s] = Hd[q] /\ \A r \in Slots : InQ(r) \in Queues
  BY <1>2, HdIs, QueuesType
<1>5. Changed(Hd, Hd', q, HeadWith(iq[s], b))
  BY <1>2, InHeadChanges
<1>6. /\ \E e : Heap(mem', Hd', e) /\ Gains(ch, e, q, b)
      /\ ContentsOf(mem', Hd'[q]) = Append(ContentsOf(mem, Hd[q]), t)
      /\ \A p \in Queues \ {q} : ContentsOf(mem', Hd'[p]) = ContentsOf(mem, Hd[p])
      /\ \A x \in Bufs : mem'[x].buf = IF x = b THEN t ELSE mem[x].buf
      /\ Left > 0 /\ Left' = Left - 1
  BY <1>1, <1>3, <1>5, EnqueueStep
<1>7. PICK e : Heap(mem', Hd', e) /\ Gains(ch, e, q, b)
  BY <1>6
<1>8. \A r \in Slots : \A x \in Elems(ch[InQ(r)]) : x \in Elems(e[InQ(r)])
  BY <1>3, <1>7 DEF Gains
<1>9. Lost(e)'
  <2> SUFFICES ASSUME NEW x \in Bufs
               PROVE  \/ mem'[x].buf = <<>> \/ mem'[x].buf \in Cmds
                      \/ \E r \in Slots : x \in Elems(e[InQ(r)])
    BY DEF Lost
  <2>1. CASE x = b
    <3>1. x \in Elems(e[InQ(s)])
      BY <1>2, <1>7, <2>1 DEF Gains
    <3> QED BY <3>1
  <2>2. CASE x # b
    BY <1>1, <1>6, <1>8, <2>2 DEF Lost
  <2> QED BY <2>1, <2>2
<1>10. HeapInv'
  BY <1>7, <1>9 DEF HeapInv
<1>11. In[s] = ContentsOf(mem, Hd[q])
  BY <1>2, ContentsIs
<1>12. In' = [In EXCEPT ![s] = ContentsOf(mem', Hd'[q])] /\ Out' = Out
  BY <1>2, <1>6, InChanges
<1> QED BY <1>6, <1>10, <1>11, <1>12

LEMMA OutDequeue ==
    ASSUME HeapInv, NEW s \in Slots, oq[s] # Null, Dequeue(oq[s]), DOMAIN oq = Slots,
           oq' = [oq EXCEPT ![s] = mem[@].next], UNCHANGED iq
    PROVE  /\ HeapInv'
           /\ Out[s] # <<>> /\ Out' = [Out EXCEPT ![s] = Tail(@)] /\ In' = In
           /\ mem[oq[s]].next \in Bufs \cup {Null} /\ Left' = Left + 1
<1>1. PICK ch : Heap(mem, Hd, ch) /\ Lost(ch)
  BY DEF HeapInv
<1>2. PICK q : q = OutQ(s)
  OBVIOUS
<1>3. q \in Queues /\ oq[s] = Hd[q] /\ \A r \in Slots : InQ(r) \in Queues \ {q}
  BY <1>2, HdIs, QueuesType
<1>4. PICK h : h = oq[s]
  OBVIOUS
<1>5. Changed(Hd, Hd', q, mem[h].next)
  BY <1>2, <1>4, OutHeadChanges
<1>6. /\ \E e : Heap(mem', Hd', e) /\ Loses(ch, e, q, h)
      /\ ContentsOf(mem, Hd[q]) # <<>>
      /\ ContentsOf(mem', Hd'[q]) = Tail(ContentsOf(mem, Hd[q]))
      /\ \A p \in Queues \ {q} : ContentsOf(mem', Hd'[p]) = ContentsOf(mem, Hd[p])
      /\ \A x \in Bufs : mem'[x].buf = IF x = h THEN <<>> ELSE mem[x].buf
      /\ mem[h].next \in Bufs \cup {Null}
      /\ Left' = Left + 1
  BY <1>1, <1>3, <1>4, <1>5, DequeueStep
<1>7. PICK e : Heap(mem', Hd', e) /\ Loses(ch, e, q, h)
  BY <1>6
<1>8. \A r \in Slots : e[InQ(r)] = ch[InQ(r)]
  BY <1>3, <1>7 DEF Loses
<1>9. Lost(e)'
  BY <1>1, <1>6, <1>8 DEF Lost
<1>10. HeapInv'
  BY <1>7, <1>9 DEF HeapInv
<1>11. Out[s] = ContentsOf(mem, Hd[q])
  BY <1>2, ContentsIs
<1>12. Out' = [Out EXCEPT ![s] = ContentsOf(mem', Hd'[q])] /\ In' = In
  BY <1>2, <1>6, OutChanges
<1> QED BY <1>4, <1>6, <1>10, <1>11, <1>12

LEMMA InDequeue ==
    ASSUME HeapInv, NEW s \in Slots, iq[s] # Null, Dequeue(iq[s]), DOMAIN iq = Slots,
           iq' = [iq EXCEPT ![s] = mem[@].next], UNCHANGED oq
    PROVE  /\ HeapInv'
           /\ In[s] # <<>> /\ In' = [In EXCEPT ![s] = Tail(@)] /\ Out' = Out
           /\ mem[iq[s]].next \in Bufs \cup {Null} /\ Left' = Left + 1
<1>1. PICK ch : Heap(mem, Hd, ch) /\ Lost(ch)
  BY DEF HeapInv
<1>2. PICK q : q = InQ(s)
  OBVIOUS
<1>3. q \in Queues /\ iq[s] = Hd[q] /\ \A r \in Slots : InQ(r) \in Queues
  BY <1>2, HdIs, QueuesType
<1>4. PICK h : h = iq[s]
  OBVIOUS
<1>5. Changed(Hd, Hd', q, mem[h].next)
  BY <1>2, <1>4, InHeadChanges
<1>6. /\ \E e : Heap(mem', Hd', e) /\ Loses(ch, e, q, h)
      /\ ContentsOf(mem, Hd[q]) # <<>>
      /\ ContentsOf(mem', Hd'[q]) = Tail(ContentsOf(mem, Hd[q]))
      /\ \A p \in Queues \ {q} : ContentsOf(mem', Hd'[p]) = ContentsOf(mem, Hd[p])
      /\ \A x \in Bufs : mem'[x].buf = IF x = h THEN <<>> ELSE mem[x].buf
      /\ mem[h].next \in Bufs \cup {Null}
      /\ Left' = Left + 1
  BY <1>1, <1>3, <1>4, <1>5, DequeueStep
<1>7. PICK e : Heap(mem', Hd', e) /\ Loses(ch, e, q, h)
  BY <1>6
<1>8. \A r \in Slots : \A x \in Elems(ch[InQ(r)]) : x # h => x \in Elems(e[InQ(r)])
  BY <1>3, <1>7 DEF Loses
<1>9. Lost(e)'
  BY <1>1, <1>6, <1>8 DEF Lost
<1>10. HeapInv'
  BY <1>7, <1>9 DEF HeapInv
<1>11. In[s] = ContentsOf(mem, Hd[q])
  BY <1>2, ContentsIs
<1>12. In' = [In EXCEPT ![s] = ContentsOf(mem', Hd'[q])] /\ Out' = Out
  BY <1>2, <1>6, InChanges
<1> QED BY <1>4, <1>6, <1>10, <1>11, <1>12

LEMMA InDrain ==
    ASSUME HeapInv, NEW s \in Slots, Drain(iq[s]), DOMAIN iq = Slots,
           iq' = [iq EXCEPT ![s] = Null], UNCHANGED oq
    PROVE  /\ HeapInv'
           /\ In' = [In EXCEPT ![s] = <<>>] /\ Out' = Out
           /\ Left' = Left + Len(In[s])
<1>1. PICK ch : Heap(mem, Hd, ch) /\ Lost(ch)
  BY DEF HeapInv
<1>2. PICK q : q = InQ(s)
  OBVIOUS
<1>3. q \in Queues /\ iq[s] = Hd[q] /\ \A r \in Slots : InQ(r) \in Queues
  BY <1>2, HdIs, QueuesType
<1>5. Changed(Hd, Hd', q, Null)
  BY <1>2, InHeadChanges
<1>6. /\ \E e : Heap(mem', Hd', e) /\ Empties(ch, e, q)
      /\ ContentsOf(mem', Hd'[q]) = <<>>
      /\ \A p \in Queues \ {q} : ContentsOf(mem', Hd'[p]) = ContentsOf(mem, Hd[p])
      /\ \A x \in Bufs : mem'[x].buf = IF x \in Elems(ch[q]) THEN <<>> ELSE mem[x].buf
      /\ Left' = Left + Len(ContentsOf(mem, Hd[q]))
  BY <1>1, <1>3, <1>5, DrainStep
<1>7. PICK e : Heap(mem', Hd', e) /\ Empties(ch, e, q)
  BY <1>6
<1>8. \A r \in Slots : InQ(r) = q \/ e[InQ(r)] = ch[InQ(r)]
  BY <1>3, <1>7 DEF Empties
<1>9. Lost(e)'
  BY <1>1, <1>6, <1>8 DEF Lost
<1>10. HeapInv'
  BY <1>7, <1>9 DEF HeapInv
<1>11. In[s] = ContentsOf(mem, Hd[q])
  BY <1>2, ContentsIs
<1>12. In' = [In EXCEPT ![s] = ContentsOf(mem', Hd'[q])] /\ Out' = Out
  BY <1>2, <1>6, InChanges
<1> QED BY <1>6, <1>10, <1>11, <1>12

\* A new connection forgets what the last one did not send.
LEMMA OutForget ==
    ASSUME HeapInv, NEW s \in Slots, iq[s] = Null, DOMAIN iq = Slots, DOMAIN oq = Slots,
           oq' = [oq EXCEPT ![s] = Null], iq' = [iq EXCEPT ![s] = Null], UNCHANGED mem,
           iq \in [Slots -> Bufs \cup {Null}]
    PROVE  /\ HeapInv'
           /\ In' = [In EXCEPT ![s] = <<>>] /\ Out' = [Out EXCEPT ![s] = <<>>]
           /\ Left' = Left
<1>1. PICK ch : Heap(mem, Hd, ch) /\ Lost(ch)
  BY DEF HeapInv
<1>2. PICK q : q = OutQ(s)
  OBVIOUS
<1>3. q \in Queues /\ \A r \in Slots : InQ(r) \in Queues \ {q}
  BY <1>2, QueuesType
<1>4. UNCHANGED iq
  OBVIOUS
<1>5. Changed(Hd, Hd', q, Null)
  BY <1>2, <1>4, OutHeadChanges
<1>6. mem \in [Bufs -> Cell] /\ \A p \in Queues \ {q} : \A x \in Elems(ch[p]) : mem'[x] = mem[x]
  BY <1>1 DEF Heap
<1>7. /\ \E e : Heap(mem, Hd', e) /\ Empties(ch, e, q)
      /\ ContentsOf(mem, Hd'[q]) = <<>>
      /\ \A p \in Queues \ {q} : ContentsOf(mem, Hd'[p]) = ContentsOf(mem, Hd[p])
  BY <1>1, <1>3, <1>5, <1>6, HeapEmpty
<1>8. PICK e : Heap(mem, Hd', e) /\ Empties(ch, e, q)
  BY <1>7
<1>9. \A r \in Slots : e[InQ(r)] = ch[InQ(r)]
  BY <1>3, <1>8 DEF Empties
<1>10. Lost(e)'
  BY <1>1, <1>9 DEF Lost
<1>11. HeapInv'
  BY <1>8, <1>10 DEF HeapInv
<1>12. Out' = [Out EXCEPT ![s] = ContentsOf(mem', Hd'[q])] /\ In' = In
  BY <1>2, <1>7, OutChanges
<1>13. In[s] = <<>>
  <2>1. InQ(s) \in Queues /\ Hd[InQ(s)] = Null
    BY QueuesType, HdIs
  <2>2. ContentsOf(mem, Hd[InQ(s)]) = <<>>
    BY <1>1, <2>1, HeapContents
  <2> QED BY <2>2, ContentsIs
<1>14. In' = [In EXCEPT ![s] = <<>>]
  BY <1>12, <1>13 DEF In
<1>15. Left' = Left
  BY DEF Left, Free
<1> QED BY <1>7, <1>11, <1>12, <1>14, <1>15

-----------------------------------------------------------------------------
(* The steps: each keeps the invariant and is a step of Mailbox. *)

LEMMA TextsType ==
    ASSUME NEW t \in Texts \cup {Nothing}
    PROVE  /\ t \in Seq(STRING) /\ Len(t) \in Nat
           /\ t \in Texts => t # Nothing
           /\ t # Nothing => Len(t) > 0
           /\ t = Nothing => Len(t) = 0
<1>1. t \in Seq(STRING) /\ (t \in Texts => t # <<>>)
  <2>1. CASE t \in Texts
    BY <2>1, MbufAssumption
  <2>2. CASE t \notin Texts
    <3>1. t = <<>> /\ <<>> \in Seq(STRING)
      BY <2>2 DEF Nothing
    <3> QED BY <2>2, <3>1
  <2> QED BY <2>1, <2>2
<1>2. Len(t) \in Nat /\ (t = <<>> <=> Len(t) = 0)
  BY <1>1
<1> QED BY <1>1, <1>2 DEF Nothing

LEMMA InitInv == Init => Inv /\ Mail!Init
<1> SUFFICES ASSUME Init PROVE Inv /\ Mail!Init
  OBVIOUS
<1> USE DEF Init
<1>1. Shape
  <2>1. 0 \in Bufs /\ <<>> \in Seq(STRING) /\ 0 \in 0 .. MaxLen
    BY DEF Bufs
  <2> QED BY <2>1 DEF Shape
<1>2. \A s \in Slots : SlotInv(s)
  <2>1. Len(<<>>) <= MaxLen
    OBVIOUS
  <2> QED BY <2>1 DEF SlotInv
<1>3. PICK ch : ch = [q \in Queues |-> <<>>]
  OBVIOUS
<1>4. \A q \in Queues : ch[q] = <<>> /\ Elems(ch[q]) = {} /\ Hd[q] = Null
  <2>1. \A q \in Queues : ch[q] = <<>> /\ Elems(ch[q]) = {}
    BY <1>3 DEF Elems
  <2>2. \A q \in Queues : Hd[q] = Null
    BY HdIs, QueuesType
  <2> QED BY <2>1, <2>2
<1>5. Heap(mem, Hd, ch)
  <2>1. mem \in [Bufs -> Cell]
    <3>1. 0 \in Bufs \cup {Null} /\ <<>> \in Seq(STRING)
      BY DEF Bufs
    <3> QED BY <3>1 DEF Cell
  <2>2. \A q \in Queues : ch[q] \in Chains /\ Linked(mem, ch[q], Hd[q])
    BY <1>4, EmptyChain
  <2> QED BY <1>4, <2>1, <2>2 DEF Heap
<1>6. HeapInv
  BY <1>5 DEF HeapInv, Lost
<1>7. In = [s \in Slots |-> <<>>] /\ Out = [s \in Slots |-> <<>>]
  <2>1. \A q \in Queues : ContentsOf(mem, Hd[q]) = <<>>
    BY <1>4, <1>5, HeapContents
  <2> QED BY <2>1, ContentsIs, QueuesType
<1>8. Left = NBufs
  <2>1. Free = Bufs
    BY DEF Free
  <2> QED BY <2>1, BufsFinite DEF Left
<1>9. Mail!Init
  BY <1>7, <1>8 DEF Mail!Init, In, Out, Left, Mail!Nothing, Nothing
<1> QED BY <1>1, <1>2, <1>6, <1>9 DEF Inv

\* Nothing but the life of the process changes.
LEMMA PanicStep ==
    ASSUME Inv, panic
    PROVE  Inv' /\ In' = In /\ Out' = Out /\ Left' = Left /\ up' = FALSE /\ UNCHANGED <<id, ws, coming>>
<1> USE DEF panic
<1>1. HeapInv'
  BY HeapKept DEF Inv
<1>2. Shape' /\ \A s \in Slots : SlotInv(s)'
  BY DEF Inv, Shape, SlotInv
<1> QED BY <1>1, <1>2, BoxesKept DEF Inv

LEMMA ConnectStep ==
    ASSUME Inv, NEW s \in Slots, ws_connect(s)
    PROVE  Inv' /\ Mail!Connect(s)
<1> USE DEF ws_connect, newuconn
<1>1. /\ iq[s] = Null /\ DOMAIN iq = Slots /\ DOMAIN oq = Slots /\ iq \in [Slots -> Bufs \cup {Null}]
      /\ oq' = [oq EXCEPT ![s] = Null] /\ iq' = [iq EXCEPT ![s] = Null]
  BY DEF Inv, Shape, SlotInv
<1>2. /\ HeapInv'
      /\ In' = [In EXCEPT ![s] = <<>>] /\ Out' = [Out EXCEPT ![s] = <<>>] /\ Left' = Left
  BY <1>1, OutForget DEF Inv
<1>3. <<>> \in Seq(STRING) /\ Len(<<>>) = 0 /\ Len(<<>>) <= MaxLen /\ SubSeq(<<>>, 1, 0) = <<>>
  OBVIOUS
<1>4. Shape'
  BY <1>3 DEF Inv, Shape
<1>5. \A r \in Slots : SlotInv(r)'
  <2> TAKE r \in Slots
  <2>1. CASE r = s
    <3>1. fb'[s] = <<>> /\ coming'[s] = <<>> /\ got'[s] = 0 /\ ws'[s]
      BY DEF Inv, Shape, Nothing
    <3>2. Len(fb'[s]) <= MaxLen /\ got'[s] <= Len(coming'[s])
      BY <1>3, <3>1
    <3>3. fb'[s] = SubSeq(coming'[s], 1, got'[s])
      BY <1>3, <3>1
    <3> QED BY <2>1, <3>1, <3>2, <3>3 DEF SlotInv
  <2>2. CASE r # s
    BY <2>2 DEF Inv, Shape, SlotInv
  <2> QED BY <2>1, <2>2
<1> QED BY <1>2, <1>4, <1>5 DEF Inv, Mail!Connect, In, Out, Left, Mail!Nothing, Nothing

LEMMA CloseStep ==
    ASSUME Inv, NEW s \in Slots, ws_close(s)
    PROVE  Inv' /\ Mail!Close(s)
<1> USE DEF ws_close
<1>1. HeapInv' /\ In' = In /\ Out' = Out /\ Left' = Left
  BY HeapKept, BoxesKept DEF Inv
<1>2. Shape' /\ \A r \in Slots : SlotInv(r)'
  BY DEF Inv, Shape, SlotInv
<1> QED BY <1>1, <1>2 DEF Inv, Mail!Close, In, Out, Left

LEMMA SendStep ==
    ASSUME Inv, NEW s \in Slots, NEW c \in Cmds, ws_send(s, c)
    PROVE  Inv' /\ Mail!Send(s, c)
<1>1. up /\ id[s] /\ ws[s]
  BY DEF ws_send
<1>2. CASE Free = {} /\ panic
  <2>1. Left = 0
    BY <1>2, FS_EmptySet DEF Left
  <2>2. Inv' /\ In' = In /\ Out' = Out /\ Left' = Left /\ up' = FALSE /\ UNCHANGED <<id, ws, coming>>
    BY <1>2, PanicStep
  <2>3. Mail!Panic
    BY <2>2 DEF Mail!Panic, In, Out, Left
  <2> QED BY <1>1, <2>1, <2>2, <2>3 DEF Mail!Send, Left
<1>3. ASSUME NEW b \in Bufs,
             /\ FirstFree(b)
             /\ Cursor(b)
             /\ Enqueue(b, c, oq[s])
             /\ oq' = [oq EXCEPT ![s] = HeadWith(@, b)]
             /\ UNCHANGED <<id, ws, coming, up, got, iq, fb>>
      PROVE  Inv' /\ Mail!Send(s, c)
  <2>1. DOMAIN oq = Slots
    BY DEF Inv, Shape
  <2>2. /\ HeapInv'
        /\ Out' = [Out EXCEPT ![s] = Append(@, c)] /\ In' = In
        /\ Left > 0 /\ Left' = Left - 1
    BY <1>3, <2>1, OutEnqueue DEF Inv
  <2>3. Shape'
    <3>1. HeadWith(oq[s], b) \in Bufs \cup {Null}
      BY DEF HeadWith, Inv, Shape
    <3> QED BY <1>3, <3>1 DEF Inv, Shape, Cursor
  <2>4. \A r \in Slots : SlotInv(r)'
    BY <1>3 DEF Inv, SlotInv
  <2> QED BY <1>1, <1>3, <2>2, <2>3, <2>4 DEF Inv, Mail!Send, In, Out, Left
<1> QED BY <1>2, <1>3 DEF ws_send

LEMMA RecvStep ==
    ASSUME Inv, NEW s \in Slots, ws_recv(s)
    PROVE  Inv' /\ Mail!Recv(s)
<1> USE DEF ws_recv
<1>1. DOMAIN iq = Slots
  BY DEF Inv, Shape
<1>2. /\ HeapInv'
      /\ In[s] # <<>> /\ In' = [In EXCEPT ![s] = Tail(@)] /\ Out' = Out
      /\ mem[iq[s]].next \in Bufs \cup {Null} /\ Left' = Left + 1
  BY <1>1, InDequeue DEF Inv
<1>3. Shape'
  BY <1>2 DEF Inv, Shape
<1>4. ws[s]
  BY DEF Inv, Shape, SlotInv
<1>5. \A r \in Slots : SlotInv(r)'
  BY <1>4 DEF Inv, Shape, SlotInv
<1> QED BY <1>2, <1>3, <1>5 DEF Inv, Mail!Recv, In, Out, Left

LEMMA RelayStep ==
    ASSUME Inv, NEW s \in Slots, relayca(s)
    PROVE  Inv' /\ Mail!Relay(s)
<1> USE DEF relayca
<1>1. DOMAIN oq = Slots
  BY DEF Inv, Shape
<1>2. /\ HeapInv'
      /\ Out[s] # <<>> /\ Out' = [Out EXCEPT ![s] = Tail(@)] /\ In' = In
      /\ mem[oq[s]].next \in Bufs \cup {Null} /\ Left' = Left + 1
  BY <1>1, OutDequeue DEF Inv
<1>3. Shape'
  BY <1>2 DEF Inv, Shape
<1>4. \A r \in Slots : SlotInv(r)'
  BY DEF Inv, SlotInv
<1> QED BY <1>2, <1>3, <1>4 DEF Inv, Mail!Relay, In, Out, Left

LEMMA EndStep ==
    ASSUME Inv, NEW s \in Slots, Destroyed(s)
    PROVE  Inv' /\ Mail!End(s)
<1> USE DEF Destroyed
<1>1. DOMAIN iq = Slots
  BY DEF Inv, Shape
<1>2. /\ HeapInv'
      /\ In' = [In EXCEPT ![s] = <<>>] /\ Out' = Out /\ Left' = Left + Len(In[s])
  BY <1>1, InDrain DEF Inv
<1>3. Shape'
  BY DEF Inv, Shape
<1>4. \A r \in Slots : SlotInv(r)'
  <2> TAKE r \in Slots
  <2>1. CASE r = s
    BY <2>1 DEF Inv, Shape, SlotInv
  <2>2. CASE r # s
    BY <2>2 DEF Inv, Shape, SlotInv
  <2> QED BY <2>1, <2>2
<1> QED BY <1>2, <1>3, <1>4 DEF Inv, Mail!End, In, Out, Left, Mail!Nothing, Nothing

LEMMA BeginStep ==
    ASSUME Inv, NEW s \in Slots, NEW t \in Texts, Arrives(s, t)
    PROVE  Inv' /\ Mail!Begin(s, t)
<1> USE DEF Arrives
<1>1. HeapInv' /\ In' = In /\ Out' = Out /\ Left' = Left
  BY HeapKept, BoxesKept DEF Inv
<1>2. Shape'
  BY DEF Inv, Shape
<1>3. \A r \in Slots : SlotInv(r)'
  <2> TAKE r \in Slots
  <2>1. CASE r = s
    <3>1. got[s] = 0 /\ fb[s] = <<>> /\ iq' = iq /\ ws' = ws
      <4>1. got[s] \in Nat /\ got[s] <= Len(Nothing) /\ fb[s] = SubSeq(Nothing, 1, got[s])
        BY DEF Inv, Shape, SlotInv
      <4>2. Len(<<>>) = 0 /\ SubSeq(<<>>, 1, 0) = <<>>
        OBVIOUS
      <4>3. got[s] = 0
        BY <4>1, <4>2 DEF Nothing
      <4> QED BY <4>1, <4>2, <4>3 DEF Nothing
    <3>2. t \in Seq(STRING) /\ Len(t) \in Nat
      BY TextsType
    <3>3. SubSeq(t, 1, 0) = <<>>
      BY <3>2
    <3>4. coming'[s] = t
      BY DEF Inv, Shape
    <3> QED BY <2>1, <3>1, <3>2, <3>3, <3>4 DEF Inv, SlotInv
  <2>2. CASE r # s
    BY <2>2 DEF Inv, Shape, SlotInv
  <2> QED BY <2>1, <2>2
<1> QED BY <1>1, <1>2, <1>3 DEF Inv, Mail!Begin, In, Out, Left, Mail!Nothing, Nothing

\* The fragments with the next n bytes are the message up to there.
LEMMA WithIs ==
    ASSUME Inv, NEW s \in Slots, ws[s], NEW n \in 1 .. MaxLen, Remaining(s, n) >= 0
    PROVE  /\ With(s, n) = SubSeq(coming[s], 1, got[s] + n)
           /\ Len(fb[s]) = got[s] /\ Len(With(s, n)) = got[s] + n
           /\ With(s, n) \in Seq(STRING)
           /\ got[s] \in Nat /\ coming[s] \in Seq(STRING) /\ Len(coming[s]) \in Nat
           /\ got[s] + n <= Len(coming[s])
<1>1. PICK t : t = coming[s]
  OBVIOUS
<1>2. PICK g : g = got[s]
  OBVIOUS
<1>3. /\ t \in Seq(STRING) /\ Len(t) \in Nat /\ g \in Nat /\ g <= Len(t)
      /\ fb[s] = SubSeq(t, 1, g)
  <2>1. t \in Texts \cup {Nothing} /\ g \in Nat
    BY <1>1, <1>2 DEF Inv, Shape
  <2> QED BY <1>1, <1>2, <2>1, TextsType DEF Inv, SlotInv
<1>4. g + n <= Len(t)
  BY <1>1, <1>2, <1>3 DEF Remaining
<1>5. SubSeq(t, 1, g) \o SubSeq(t, g + 1, g + n) = SubSeq(t, 1, g + n)
  <2>1. 1 \in 1 .. Len(t) + 1 /\ g \in 1 - 1 .. Len(t) /\ g + n \in g .. Len(t)
    BY <1>3, <1>4
  <2> QED BY <1>3, <2>1, ConcatAdjacentSubSeq
<1>6. Len(SubSeq(t, 1, g)) = g
  BY <1>3
<1>7. SubSeq(t, 1, g + n) \in Seq(STRING) /\ Len(SubSeq(t, 1, g + n)) = g + n
  BY <1>3, <1>4
<1> QED BY <1>1, <1>2, <1>3, <1>4, <1>5, <1>6, <1>7 DEF With

LEMMA FragmentStep ==
    ASSUME Inv, NEW s \in Slots, NEW n \in 1 .. MaxLen, Fragment(s, n)
    PROVE  Inv' /\ UNCHANGED <<id, ws, coming, In, Out, Left, up>>
<1> USE DEF Fragment
<1>1. HeapInv' /\ In' = In /\ Out' = Out /\ Left' = Left
  BY HeapKept, BoxesKept DEF Inv
<1>2. /\ With(s, n) = SubSeq(coming[s], 1, got[s] + n)
      /\ Len(fb[s]) = got[s] /\ Len(With(s, n)) = got[s] + n
      /\ With(s, n) \in Seq(STRING)
      /\ got[s] \in Nat /\ coming[s] \in Seq(STRING) /\ Len(coming[s]) \in Nat
      /\ got[s] + n <= Len(coming[s])
  <2>1. coming[s] \in Seq(STRING) /\ Len(coming[s]) \in Nat /\ got[s] \in Nat
    BY TextsType DEF Inv, Shape
  <2>2. Remaining(s, n) >= 0
    BY <2>1 DEF Remaining
  <2> QED BY <2>2, WithIs
<1>3. got[s] + n <= MaxLen
  <2>1. PICK r : r = Remaining(s, n)
    OBVIOUS
  <2>2. r > 0 /\ r \in Int /\ got[s] + n + r <= MaxLen
    BY <1>2, <2>1 DEF Remaining
  <2> QED BY <1>2, <2>2
<1>4. Shape'
  BY <1>2, <1>3 DEF Inv, Shape
<1>5. \A r \in Slots : SlotInv(r)'
  <2> TAKE r \in Slots
  <2>1. CASE r = s
    <3>1. fb'[s] = With(s, n) /\ got'[s] = got[s] + n
      BY DEF Inv, Shape
    <3> QED BY <1>2, <1>3, <2>1, <3>1 DEF Inv, SlotInv
  <2>2. CASE r # s
    BY <2>2 DEF Inv, Shape, SlotInv
  <2> QED BY <2>1, <2>2
<1> QED BY <1>1, <1>4, <1>5 DEF Inv

LEMMA LongerByOne ==
    ASSUME NEW S, NEW c \in Seq(S), NEW x \in S
    PROVE  Append(c, x) \in Seq(S) /\ Append(c, x) # <<>> /\ Len(Append(c, x)) = Len(c) + 1
BY AppendProperties

LEMMA DeliverStep ==
    ASSUME Inv, NEW s \in Slots, NEW n \in 1 .. MaxLen, LastFragment(s, n)
    PROVE  Inv' /\ Mail!Deliver(s)
<1>1. PICK m : m = Append(With(s, n), Nul)
  OBVIOUS
<1>2. /\ up /\ ws[s] /\ coming[s] # Nothing /\ Remaining(s, n) = 0
      /\ Len(fb[s]) + n <= MaxLen
  BY DEF LastFragment
<1>3. /\ With(s, n) = coming[s] /\ Len(coming[s]) <= MaxLen
      /\ coming[s] \in Seq(STRING) /\ Len(coming[s]) \in Nat
  <2>1. /\ With(s, n) = SubSeq(coming[s], 1, got[s] + n)
        /\ Len(fb[s]) = got[s] /\ got[s] \in Nat
        /\ coming[s] \in Seq(STRING) /\ Len(coming[s]) \in Nat
    <3>1. Remaining(s, n) >= 0
      BY <1>2
    <3> QED BY <1>2, <3>1, WithIs
  <2>2. got[s] + n = Len(coming[s])
    <3>1. Len(coming[s]) - got[s] - n = 0
      BY <1>2 DEF Remaining
    <3>2. \A l, g \in Nat : l - g - n = 0 => g + n = l
      OBVIOUS
    <3> QED BY <2>1, <3>1, <3>2
  <2>3. SubSeq(coming[s], 1, Len(coming[s])) = coming[s]
    BY <2>1, SubSeqFull
  <2> QED BY <1>2, <2>1, <2>2, <2>3
<1>4. m = Append(coming[s], Nul) /\ m \in Seq(STRING) /\ m # <<>> /\ Len(m) = Len(coming[s]) + 1
  <2>1. m = Append(coming[s], Nul)
    BY <1>1, <1>3
  <2>2. Nul \in STRING
    BY MbufAssumption
  <2> QED BY <1>3, <2>1, <2>2, LongerByOne
<1>5. CASE (Len(m) > MaxLen \/ Free = {}) /\ panic
  <2>1. Len(coming[s]) = MaxLen \/ Left = 0
    <3>1. Free = {} => Left = 0
      BY FS_EmptySet DEF Left
    <3> QED BY <1>3, <1>4, <1>5, <3>1
  <2>2. Inv' /\ In' = In /\ Out' = Out /\ Left' = Left /\ up' = FALSE /\ UNCHANGED <<id, ws, coming>>
    BY <1>5, PanicStep
  <2>3. Mail!Panic
    BY <2>2 DEF Mail!Panic, In, Out, Left
  <2> QED BY <1>2, <1>3, <2>1, <2>2, <2>3 DEF Mail!Deliver, Left, Mail!Nothing, Nothing
<1>6. ASSUME NEW b \in Bufs,
             /\ Len(m) <= MaxLen /\ FirstFree(b)
             /\ Cursor(b)
             /\ Enqueue(b, m, iq[s])
             /\ iq' = [iq EXCEPT ![s] = HeadWith(@, b)]
             /\ Emptied(s)
             /\ coming' = [coming EXCEPT ![s] = Nothing]
             /\ got' = [got EXCEPT ![s] = 0]
             /\ UNCHANGED <<id, ws, up, oq>>
      PROVE  Inv' /\ Mail!Deliver(s)
  <2>1. DOMAIN iq = Slots
    BY DEF Inv, Shape
  <2>2. /\ HeapInv'
        /\ In' = [In EXCEPT ![s] = Append(@, m)] /\ Out' = Out
        /\ Left > 0 /\ Left' = Left - 1
    BY <1>4, <1>6, <2>1, InEnqueue DEF Inv
  <2>3. <<>> \in Seq(STRING) /\ Len(<<>>) = 0 /\ Len(<<>>) <= MaxLen /\ SubSeq(<<>>, 1, 0) = <<>>
    OBVIOUS
  <2>4. Shape'
    <3>1. HeadWith(iq[s], b) \in Bufs \cup {Null}
      BY DEF HeadWith, Inv, Shape
    <3> QED BY <1>6, <2>3, <3>1 DEF Inv, Shape, Cursor, Emptied
  <2>5. \A r \in Slots : SlotInv(r)'
    <3> TAKE r \in Slots
    <3>1. CASE r = s
      <4>1. fb'[s] = <<>> /\ coming'[s] = <<>> /\ got'[s] = 0 /\ ws'[s]
        BY <1>2, <1>6 DEF Inv, Shape, Nothing, Emptied
      <4> QED BY <2>3, <3>1, <4>1 DEF SlotInv
    <3>2. CASE r # s
      BY <1>6, <3>2 DEF Inv, Shape, SlotInv, Emptied
    <3> QED BY <3>1, <3>2
  <2>6. Len(coming[s]) < MaxLen
    BY <1>3, <1>4, <1>6
  <2>7. In' = [In EXCEPT ![s] = Append(@, Append(coming[s], Nul))]
    BY <1>4, <2>2
  <2>8. Mail!Deliver(s)
    BY <1>2, <1>3, <1>6, <2>2, <2>6, <2>7
       DEF Mail!Deliver, In, Out, Left, Mail!Nothing, Nothing
  <2> QED BY <2>2, <2>4, <2>5, <2>8 DEF Inv
<1> QED BY <1>1, <1>5, <1>6 DEF LastFragment

LEMMA NextStep == Inv /\ [Next]_vars => Inv' /\ [Mail!Next]_Mail!mvars
<1> SUFFICES ASSUME Inv, [Next]_vars PROVE Inv' /\ [Mail!Next]_Mail!mvars
  OBVIOUS
<1>1. ASSUME NEW s \in Slots, ws_connect(s) PROVE Inv' /\ Mail!Next
  BY <1>1, ConnectStep DEF Mail!Next
<1>2. ASSUME NEW s \in Slots, ws_close(s) PROVE Inv' /\ Mail!Next
  BY <1>2, CloseStep DEF Mail!Next
<1>3. ASSUME NEW s \in Slots, ws_recv(s) PROVE Inv' /\ Mail!Next
  BY <1>3, RecvStep DEF Mail!Next
<1>4. ASSUME NEW s \in Slots, relayca(s) PROVE Inv' /\ Mail!Next
  BY <1>4, RelayStep DEF Mail!Next
<1>5. ASSUME NEW s \in Slots, Destroyed(s) PROVE Inv' /\ Mail!Next
  BY <1>5, EndStep DEF Mail!Next
<1>6. ASSUME NEW s \in Slots, TooLarge(s) PROVE Inv' /\ Mail!Next
  BY <1>5, <1>6 DEF TooLarge
<1>7. ASSUME NEW s \in Slots, NEW c \in Cmds, ws_send(s, c) PROVE Inv' /\ Mail!Next
  BY <1>7, SendStep DEF Mail!Next
<1>8. ASSUME NEW s \in Slots, NEW t \in Texts, Arrives(s, t) PROVE Inv' /\ Mail!Next
  BY <1>8, BeginStep DEF Mail!Next
<1>9. ASSUME NEW s \in Slots, NEW n \in 1 .. MaxLen, Fragment(s, n)
      PROVE  Inv' /\ UNCHANGED Mail!mvars
  BY <1>9, FragmentStep DEF Mail!mvars, In, Out, Left
<1>10. ASSUME NEW s \in Slots, NEW n \in 1 .. MaxLen, LastFragment(s, n) PROVE Inv' /\ Mail!Next
  BY <1>10, DeliverStep DEF Mail!Next
<1>11. CASE UNCHANGED vars
  <2> USE <1>11 DEF vars
  <2>1. HeapInv' /\ In' = In /\ Out' = Out /\ Left' = Left
    BY HeapKept, BoxesKept DEF Inv
  <2>2. Shape' /\ \A s \in Slots : SlotInv(s)'
    BY DEF Inv, Shape, SlotInv
  <2> QED BY <2>1, <2>2 DEF Inv, Mail!mvars, In, Out, Left
<1> QED BY <1>1, <1>2, <1>3, <1>4, <1>5, <1>6, <1>7, <1>8, <1>9, <1>10, <1>11 DEF Next, Received

\* Every chain of a state is the one that the invariant speaks of.
LEMMA InvQueued ==
    ASSUME Inv
    PROVE  OnlyCommandsAreLost
<1>1. PICK ch : Heap(mem, Hd, ch) /\ Lost(ch)
  BY DEF Inv, HeapInv
<1> SUFFICES ASSUME NEW b \in Bufs, mem[b].buf # <<>>, mem[b].buf \notin Cmds
             PROVE  Queued(b)
  BY DEF OnlyCommandsAreLost
<1>2. PICK s \in Slots : b \in Elems(ch[InQ(s)])
  BY <1>1 DEF Lost
<1>3. Chain(iq[s]) = ch[InQ(s)]
  <2>1. InQ(s) \in Queues /\ Hd[InQ(s)] = iq[s]
    BY QueuesType, HdIs
  <2>2. ChainOf(mem, iq[s]) = ch[InQ(s)]
    BY <1>1, <2>1, HeapContents
  <2> QED BY <2>2 DEF Chain, ChainOf, IsChain, Linked
<1>4. \E k \in 1 .. Len(ch[InQ(s)]) : ch[InQ(s)][k] = b
  BY <1>2 DEF Elems
<1> QED BY <1>3, <1>4 DEF Queued

LEMMA InvType == Inv => TypeOK
<1> SUFFICES ASSUME Inv PROVE TypeOK
  OBVIOUS
<1>1. mem \in [Bufs -> [buf : Seq(STRING), next : Bufs \cup {Null}]]
  BY DEF Inv, HeapInv, Heap, Cell
<1> QED BY <1>1 DEF Inv, Shape, SlotInv, TypeOK

LEMMA InvHolds == Spec => []Inv
<1>1. Init => Inv
  BY InitInv
<1>2. Inv /\ [Next]_vars => Inv'
  BY NextStep
<1> QED BY <1>1, <1>2, PTL DEF Spec

\* The buffers hold whole messages, and the fragments never more than MaxLen bytes
\* (mbuf.c:23-60, ws.c:197-293).
THEOREM MbufTypeCorrect == Spec => []TypeOK
BY InvHolds, InvType, PTL

\* A message of the CA always gives its buffer back, whatever ends the connection:
\* a taken buffer outside the queues holds a command (ws.c:94-95, 336-341).
THEOREM MessagesAreNotLost == Spec => []OnlyCommandsAreLost
BY InvHolds, InvQueued, PTL

\* The array, the cursor, the links and the fragments are, for the threads that use
\* them one at a time, queues of whole messages over NBufs places
\* (mbuf.c:23-90, ws.c:82-101, 197-293, 335-341).
THEOREM BuffersAreMailbox == Spec => ImplementsMailbox
<1>1. Init => Mail!Init
  BY InitInv
<1>2. Inv /\ [Next]_vars => [Mail!Next]_Mail!mvars
  BY NextStep
<1> QED BY <1>1, <1>2, InvHolds, PTL DEF Spec, ImplementsMailbox, Mail!Spec
=============================================================================
