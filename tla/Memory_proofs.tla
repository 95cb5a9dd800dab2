--------------------------- MODULE Memory_proofs ---------------------------
(***************************************************************************)
(* The allocators, for every size of memory whose pages have a number, and *)
(* of the blocks asked for, less than a word included.                     *)
(* A list is reasoned about as a set of nodes, each of which points to the *)
(* next larger one; that the walk along the pointers finds exactly these   *)
(* nodes is the one induction that is needed.                              *)
(***************************************************************************)
EXTENDS Libc, FiniteSetTheorems, SequenceTheorems, TLAPS

-----------------------------------------------------------------------------
(* Where everything is.                                                    *)

LEMMA Layout ==
  /\ PageWords \in Nat /\ PageWords > 5 /\ InitBegin = PageWords
  /\ InitWords \in Nat /\ InitWords > 1
  /\ MemoryStart \in Nat /\ InitBegin + InitWords < MemoryStart
  /\ MemoryEnd \in Nat /\ MemoryStart + RamPages * PageWords = MemoryEnd
  /\ RamPages \in Nat \ {0} /\ PageWords <= RamPages * PageWords
  /\ Addr = 0..MemoryEnd
  /\ MaxNodes \in Nat /\ InitBegin + 2 * MaxNodes >= MemoryEnd - 1
<1>1. /\ PageWords \in Nat /\ PageWords > 5 /\ InitBegin = PageWords
      /\ InitWords \in Nat /\ InitWords > 1 /\ RamPages \in Nat \ {0}
  BY MemoryAssumption DEF InitBegin
<1>2. BssStart \in Nat /\ InitBegin + InitWords <= BssStart
  <2> DEFINE x == InitBegin + InitWords + PageWords - 1
             y == x \div PageWords
  <2>1. x \in Nat
    BY <1>1
  <2>2. BssStart = y * PageWords
    BY Zenon DEF BssStart
  <2> HIDE DEF x
  <2>3. y \in Nat /\ x - (PageWords - 1) <= PageWords * y
    <3>1. x = PageWords * y + (x % PageWords) /\ x % PageWords \in 0..(PageWords - 1) /\ y \in Nat
      BY <1>1, <2>1
    <3> HIDE DEF y
    <3>2. PageWords * y \in Nat
      BY <1>1, <3>1
    <3>3. QED
      BY <1>1, <2>1, <3>1, <3>2
  <2> HIDE DEF y
  <2>4. y * PageWords = PageWords * y /\ PageWords * y \in Nat
    BY <1>1, <2>3
  <2>5. QED
    BY <1>1, <2>2, <2>3, <2>4 DEF x
<1>3. RamPages * PageWords \in Nat /\ PageWords <= RamPages * PageWords
  BY <1>1
<1>4. /\ MemoryStart \in Nat /\ InitBegin + InitWords < MemoryStart
      /\ MemoryEnd \in Nat /\ MemoryStart + RamPages * PageWords = MemoryEnd
  BY <1>1, <1>2, <1>3 DEF MemoryStart, MemoryEnd
<1>5. MaxNodes \in Nat /\ InitBegin + 2 * MaxNodes >= MemoryEnd - 1
  <2>1. MemoryEnd - InitBegin \in Nat
    BY <1>1, <1>3, <1>4
  <2>2. MaxNodes = (MemoryEnd - InitBegin) \div 2
    BY DEF MaxNodes, FreeBlock
  <2>3. QED
    BY <1>1, <1>4, <2>1, <2>2
<1>6. QED
  BY <1>1, <1>3, <1>4, <1>5 DEF Addr

-----------------------------------------------------------------------------
(* The walk along a list.                                                  *)

Last(head, s) == IF s = <<>> THEN head ELSE s[Len(s)]

\* One turn of the walk; e is the memory and the head.
WalkOp(e, s, k) ==
  LET p == e[1][Last(e[2], s) + 1]
  IN  IF p = 0 THEN s ELSE Append(s, p)

Any(e, s) == TRUE

WalkFold == INSTANCE Fold_proofs WITH Op <- WalkOp, Good <- Any

\* Every list has a walk: the recursive function of List exists.
LEMMA ListWalk ==
  ASSUME NEW m, NEW head
  PROVE  \E w : /\ w[0] = <<>>
                /\ \A k \in 1..MaxNodes : w[k] = WalkOp(<<m, head>>, w[k - 1], k)
                /\ List(m, head) = w[MaxNodes]
<1>0. 1..MaxNodes \subseteq 0..MaxNodes /\ 0 \notin 1..MaxNodes
  BY Layout
<1> DEFINE e == <<m, head>>
           F(w) == [k \in 0..MaxNodes |->
                     IF k = 0 THEN <<>>
                     ELSE LET s == w[k - 1]
                              p == m[(IF s = <<>> THEN head ELSE s[Len(s)]) + 1]
                          IN  IF p = 0 THEN s ELSE Append(s, p)]
           c == CHOOSE w : w = F(w)
<1>1. List(m, head) = c[MaxNodes]
  BY Zenon DEF List
<1>2. \E w : w = F(w)
  <2> DEFINE seq == [i \in 1..MaxNodes |-> i]
  <2>1. seq \in Seq(Nat) /\ Len(seq) = MaxNodes
    BY Layout
  <2> HIDE DEF seq
  <2>2. PICK r : WalkFold!IsRun(e, r, <<>>, seq)
    BY <2>1, WalkFold!FoldRun DEF WalkFold!HasRun
  <2>3. r[0] = <<>> /\ \A k \in 1..MaxNodes : r[k] = WalkOp(e, r[k - 1], k)
    BY <2>1, <2>2 DEF WalkFold!IsRun, WalkOp
  <2> DEFINE w == [k \in 0..MaxNodes |-> r[k]]
  <2>4. \A k \in 1..MaxNodes : k - 1 \in 0..MaxNodes /\ w[k - 1] = r[k - 1]
    BY Layout
  <2>5. ASSUME NEW k \in 0..MaxNodes
        PROVE  w[k] = F(w)[k]
    <3>1. CASE k = 0
      BY <2>3, <3>1
    <3>2. CASE k # 0
      <4>1. k \in 1..MaxNodes /\ w[k] = r[k]
        BY <3>2, Layout
      <4>2. e[1] = m /\ e[2] = head
        OBVIOUS
      <4> HIDE DEF w, e
      <4>3. w[k] = WalkOp(e, w[k - 1], k)
        BY <2>3, <2>4, <4>1
      <4>4. QED
        BY <3>2, <4>2, <4>3, Zenon DEF WalkOp, Last
    <3>3. QED
      BY <3>1, <3>2
  <2>6. w = F(w)
    BY <2>5, ZenonT(40)
  <2>7. QED
    BY <2>6
<1>3. c = F(c)
  BY <1>2
<1> HIDE DEF c
<1>4. c[0] = <<>>
  BY <1>3, Layout
<1>5. ASSUME NEW k \in 1..MaxNodes
      PROVE  c[k] = WalkOp(e, c[k - 1], k)
  <2>1. k \in 0..MaxNodes /\ k # 0
    BY <1>0, Zenon
  <2>2. c[k] = F(c)[k]
    BY <1>3, Zenon
  <2>3. e[1] = m /\ e[2] = head
    OBVIOUS
  <2> HIDE DEF e
  <2>4. QED
    BY <2>1, <2>2, <2>3, Zenon DEF WalkOp, Last
<1>6. QED
  BY <1>1, <1>4, <1>5

-----------------------------------------------------------------------------
(* A list as a set of nodes.                                               *)

Heads == {pages_head, blocks_head}

\* How far the node at a reaches, in a list with lengths in units of u words.
Size(m, u, a) == m[a] * u

Nodes(m, F, u) ==
  \A a \in F :
    /\ a \in Nat /\ InitBegin <= a /\ m[a] \in Nat \ {0}
    /\ Size(m, u, a) \in Nat /\ 2 <= Size(m, u, a) /\ a + Size(m, u, a) <= MemoryEnd

\* b is the node behind a, or null.
IsNext(F, a, b) ==
  \/ b = 0 /\ \A c \in F : c <= a
  \/ b \in F /\ a < b /\ \A c \in F : a < c => b <= c

\* The nodes F are a list in address order, merged where they can be.
ListOK(m, head, F, u) ==
  /\ m[head] = 0
  /\ Nodes(m, F, u)
  /\ \A a \in F \cup {head} : IsNext(F, a, m[a + 1])
  /\ \A a, c \in F : a < c => a + Size(m, u, a) < c

Ordered(s) == \A i, j \in 1..Len(s) : i < j => s[i] < s[j]

\* s are the nodes F in order.
Enumerates(m, head, F, s) ==
  /\ s \in Seq(F) /\ Ordered(s)
  /\ \A a \in F : \E i \in 1..Len(s) : s[i] = a
  /\ \A i \in 1..Len(s) : m[Pred(head, s, i) + 1] = s[i]

\* What the walk has found after k turns.
Found_k(m, head, F, s, k) ==
  /\ s \in Seq(F) /\ Len(s) <= k /\ Ordered(s)
  /\ \A i \in 1..Len(s) : m[Pred(head, s, i) + 1] = s[i]
  /\ \A a \in F : a <= Last(head, s) => \E i \in 1..Len(s) : s[i] = a
  /\ InitBegin + 2 * Len(s) <= Last(head, s) + 2 \/ s = <<>>
  /\ Len(s) = k \/ m[Last(head, s) + 1] = 0

\* One turn finds one more, or has found all.
LEMMA WalkTurn ==
  ASSUME NEW m, NEW head \in Heads, NEW F, NEW u, ListOK(m, head, F, u),
         NEW k \in Nat, NEW s, Found_k(m, head, F, s, k)
  PROVE  Found_k(m, head, F, WalkOp(<<m, head>>, s, k + 1), k + 1)
<1> DEFINE l == Last(head, s)
           p == m[l + 1]
           t == Append(s, p)
<1>1. s \in Seq(F) /\ Len(s) \in Nat /\ Len(s) <= k
  BY DEF Found_k
<1>2. l \in F \cup {head}
  BY <1>1 DEF Last
<1>3. l \in Nat /\ head \in Nat /\ head < InitBegin /\ InitBegin \in Nat
      /\ \A a \in F : a \in Nat /\ InitBegin <= a
  BY <1>2, Layout DEF Heads, pages_head, blocks_head, ListOK, Nodes
<1>4. IsNext(F, l, p)
  BY <1>2 DEF ListOK
<1>5. WalkOp(<<m, head>>, s, k + 1) = IF p = 0 THEN s ELSE t
  BY Zenon DEF WalkOp
<1> HIDE DEF l, p, t
<1>6. CASE p = 0
  <2>1. Found_k(m, head, F, s, k + 1)
    BY <1>1, <1>6 DEF Found_k, l, p
  <2>2. QED
    BY <1>5, <1>6, <2>1
<1>7. CASE p # 0
  <2>1. p \in F /\ l < p /\ \A c \in F : l < c => p <= c
    BY <1>4, <1>7 DEF IsNext
  <2>2. /\ t \in Seq(F) /\ Len(t) = Len(s) + 1 /\ t[Len(s) + 1] = p
        /\ \A i \in 1..Len(s) : t[i] = s[i]
        /\ t # <<>> /\ Last(head, t) = p
    BY <1>1, <2>1 DEF t, Last
  <2>3. \A i \in 1..Len(s) : s[i] <= l /\ s[i] \in F
    <3>1. ASSUME NEW i \in 1..Len(s)
          PROVE  s[i] <= l /\ s[i] \in F
      <4>1. s # <<>> /\ l = s[Len(s)] /\ s[i] \in F /\ Len(s) \in 1..Len(s)
        BY <1>1 DEF l, Last
      <4>2. i = Len(s) \/ s[i] < s[Len(s)]
        BY <1>1, <4>1 DEF Found_k, Ordered
      <4>3. QED
        BY <1>3, <4>1, <4>2
    <3>2. QED
      BY <3>1
  <2>4. Ordered(t)
    <3>1. ASSUME NEW i \in 1..Len(t), NEW j \in 1..Len(t), i < j
          PROVE  t[i] < t[j]
      <4>1. CASE j = Len(s) + 1
        <5>1. i \in 1..Len(s)
          BY <1>1, <2>2, <3>1, <4>1
        <5>2. t[i] = s[i] /\ t[j] = p
          BY <2>2, <4>1, <5>1
        <5>3. QED
          BY <1>3, <2>1, <2>3, <5>1, <5>2
      <4>2. CASE j # Len(s) + 1
        <5>1. i \in 1..Len(s) /\ j \in 1..Len(s)
          BY <1>1, <2>2, <3>1, <4>2
        <5>2. QED
          BY <2>2, <3>1, <5>1 DEF Found_k, Ordered
      <4>3. QED
        BY <4>1, <4>2
    <3>2. QED
      BY <3>1 DEF Ordered
  <2>5. \A i \in 1..Len(t) : m[Pred(head, t, i) + 1] = t[i]
    <3>1. ASSUME NEW i \in 1..Len(t)
          PROVE  m[Pred(head, t, i) + 1] = t[i]
      <4>1. CASE i = Len(s) + 1
        <5>1. Pred(head, t, i) = l
          <6>1. CASE s = <<>>
            BY <1>1, <4>1, <6>1 DEF Pred, l, Last
          <6>2. CASE s # <<>>
            <7>1. Len(s) \in 1..Len(s) /\ i # 1 /\ i - 1 = Len(s)
              BY <1>1, <4>1, <6>2
            <7>2. QED
              BY <2>2, <6>2, <7>1 DEF Pred, l, Last
          <6>3. QED
            BY <6>1, <6>2
        <5>2. QED
          BY <2>2, <4>1, <5>1 DEF p
      <4>2. CASE i # Len(s) + 1
        <5>1. i \in 1..Len(s) /\ (i # 1 => i - 1 \in 1..Len(s))
          BY <1>1, <2>2, <4>2
        <5>2. Pred(head, t, i) = Pred(head, s, i)
          BY <2>2, <5>1 DEF Pred
        <5>3. QED
          BY <2>2, <5>1, <5>2 DEF Found_k
      <4>3. QED
        BY <4>1, <4>2
    <3>2. QED
      BY <3>1
  <2>6. \A a \in F : a <= Last(head, t) => \E i \in 1..Len(t) : t[i] = a
    <3>1. ASSUME NEW a \in F, a <= p
          PROVE  \E i \in 1..Len(t) : t[i] = a
      <4>1. CASE a = p
        <5>1. Len(s) + 1 \in 1..Len(t)
          BY <1>1, <2>2
        <5>2. QED
          BY <2>2, <4>1, <5>1
      <4>2. CASE a # p
        <5>1. a <= l
          BY <1>3, <2>1, <3>1, <4>2
        <5>2. PICK i \in 1..Len(s) : s[i] = a
          BY <5>1 DEF Found_k, l
        <5>3. i \in 1..Len(t)
          BY <1>1, <2>2
        <5>4. QED
          BY <2>2, <5>2, <5>3
      <4>3. QED
        BY <4>1, <4>2
    <3>2. QED
      BY <2>2, <3>1
  <2>7. InitBegin + 2 * Len(t) <= Last(head, t) + 2
    <3>1. CASE s = <<>>
      <4>1. Len(t) = 1
        BY <2>2, <3>1
      <4>2. QED
        <5>1. p \in Nat /\ InitBegin <= p
          BY <1>3, <2>1
        <5>2. Last(head, t) = p
          BY <2>2
        <5>3. QED
          BY <1>3, <4>1, <5>1, <5>2
    <3>2. CASE s # <<>>
      <4>1. l \in F /\ InitBegin + 2 * Len(s) <= l + 2
        BY <1>1, <3>2 DEF Found_k, l, Last
      <4>2. l + Size(m, u, l) < p /\ Size(m, u, l) \in Nat /\ 2 <= Size(m, u, l)
        BY <2>1, <4>1 DEF ListOK, Nodes
      <4>3. l + 2 <= p
        BY <1>3, <2>1, <4>1, <4>2
      <4>4. QED
        BY <1>1, <1>3, <2>1, <2>2, <4>1, <4>3
    <3>3. QED
      BY <3>1, <3>2
  <2>8. CASE Len(s) = k
    <3>1. Len(t) = k + 1
      BY <2>2, <2>8
    <3>2. Found_k(m, head, F, t, k + 1)
      BY <2>2, <2>4, <2>5, <2>6, <2>7, <3>1 DEF Found_k
    <3>3. QED
      BY <1>5, <1>7, <3>2
  <2>9. QED
    BY <1>7, <2>8 DEF Found_k, l, p
<1>8. QED
  BY <1>6, <1>7

\* List finds the nodes of a list, in order.
LEMMA ListNodes ==
  ASSUME NEW m, NEW head \in Heads, NEW F, NEW u, ListOK(m, head, F, u)
  PROVE  Enumerates(m, head, F, List(m, head))
<1>1. PICK w : /\ w[0] = <<>>
               /\ \A k \in 1..MaxNodes : w[k] = WalkOp(<<m, head>>, w[k - 1], k)
               /\ List(m, head) = w[MaxNodes]
  BY ListWalk
<1> DEFINE T == {k \in Nat : k <= MaxNodes => Found_k(m, head, F, w[k], k)}
<1>2. head \in Nat /\ head < InitBegin /\ InitBegin \in Nat
  BY Layout DEF Heads, pages_head, blocks_head
<1>3. 0 \in T
  <2>1. <<>> \in Seq(F) /\ Len(<<>>) = 0 /\ Last(head, <<>>) = head
    BY DEF Last
  <2>2. \A a \in F : ~(a <= head)
    BY <1>2 DEF ListOK, Nodes
  <2>3. Found_k(m, head, F, <<>>, 0)
    BY <2>1, <2>2 DEF Found_k, Ordered
  <2>4. QED
    BY <1>1, <2>3
<1>4. ASSUME NEW k \in T
      PROVE  k + 1 \in T
  <2>1. SUFFICES ASSUME k + 1 <= MaxNodes
                 PROVE  Found_k(m, head, F, w[k + 1], k + 1)
    OBVIOUS
  <2>2. k \in Nat /\ k + 1 \in 1..MaxNodes /\ k + 1 - 1 = k
    BY <2>1, Layout
  <2>3. Found_k(m, head, F, w[k], k)
    BY <2>1, Layout
  <2>4. w[k + 1] = WalkOp(<<m, head>>, w[k], k + 1)
    BY <1>1, <2>2
  <2> HIDE DEF T
  <2>5. QED
    BY <2>2, <2>3, <2>4, WalkTurn
<1>5. MaxNodes \in T
  <2>1. T \subseteq Nat
    OBVIOUS
  <2> HIDE DEF T
  <2>2. Nat \subseteq T
    BY <1>3, <1>4, <2>1, WalkFold!Induction
  <2>3. QED
    BY <2>2, Layout
<1> DEFINE s == w[MaxNodes]
           l == Last(head, s)
           p == m[l + 1]
<1>6. Found_k(m, head, F, s, MaxNodes)
  BY <1>5
<1> HIDE DEF T, s
<1>7. s \in Seq(F) /\ l \in F \cup {head}
  BY <1>6 DEF Found_k, Last
<1>8. p = 0
  <2> SUFFICES ASSUME p # 0
               PROVE  FALSE
    OBVIOUS
  <2>1. Len(s) = MaxNodes
    BY <1>6 DEF Found_k
  <2>2. p \in F /\ l < p
    BY <1>7 DEF ListOK, IsNext
  <2>3. p \in Nat /\ InitBegin <= p /\ p + 2 <= MemoryEnd
    <3>1. p \in Nat /\ InitBegin <= p /\ Size(m, u, p) \in Nat /\ 2 <= Size(m, u, p)
          /\ p + Size(m, u, p) <= MemoryEnd
      BY <2>2 DEF ListOK, Nodes
    <3> HIDE DEF p
    <3>2. QED
      BY <3>1, Layout
  <2>4. InitBegin + 2 * MaxNodes <= p
    <3>1. CASE s = <<>>
      <4>1. MaxNodes = 0
        BY <2>1, <3>1
      <4>2. QED
        BY <1>2, <2>3, <4>1
    <3>2. CASE s # <<>>
      <4>1. l \in F /\ InitBegin + 2 * MaxNodes <= l + 2
        BY <1>6, <1>7, <2>1, <3>2 DEF Found_k, Last
      <4>2. l + Size(m, u, l) < p /\ Size(m, u, l) \in Nat /\ 2 <= Size(m, u, l) /\ l \in Nat
        BY <2>2, <4>1 DEF ListOK, Nodes
      <4> HIDE DEF l, p
      <4>3. QED
        BY <1>2, <2>3, <4>1, <4>2, Layout
    <3>3. QED
      BY <3>1, <3>2
  <2> HIDE DEF p, l
  <2>5. QED
    BY <2>3, <2>4, Layout
<1>9. \A a \in F : \E i \in 1..Len(s) : s[i] = a
  <2>1. \A a \in F : a <= l
    <3>1. IsNext(F, l, 0) /\ 0 \notin F
      BY <1>2, <1>7, <1>8 DEF ListOK, Nodes
    <3>2. QED
      BY <3>1, Zenon DEF IsNext
  <2>2. QED
    BY <1>6, <2>1 DEF Found_k
<1>10. QED
  BY <1>1, <1>6, <1>9 DEF Found_k, Enumerates, s

-----------------------------------------------------------------------------
(* Looking for a place in a list.                                          *)

\* A set of positions that has everything before what it has.
LEMMA InitialPart ==
  ASSUME NEW n \in Nat, NEW D \in SUBSET (1..n), \A i \in D : \A j \in 1..i : j \in D
  PROVE  \E k \in 0..n : D = 1..k
<1> DEFINE Closed(S) == \A i \in S : \A j \in 1..i : j \in S
           T == {k \in Nat : \A S \in SUBSET (1..k) : Closed(S) => \E l \in 0..k : S = 1..l}
<1>1. 0 \in T
  <2>1. \A S \in SUBSET (1..0) : S = 1..0
    OBVIOUS
  <2>2. 0 \in 0..0
    OBVIOUS
  <2> HIDE DEF Closed
  <2>3. QED
    BY <2>1, <2>2
<1>2. ASSUME NEW k \in T
      PROVE  k + 1 \in T
  <2> SUFFICES ASSUME NEW S \in SUBSET (1..(k + 1)), Closed(S)
               PROVE  \E l \in 0..(k + 1) : S = 1..l
    OBVIOUS
  <2>1. CASE k + 1 \in S
    <3>1. S = 1..(k + 1)
      BY <2>1
    <3>2. QED
      BY <3>1
  <2>2. CASE k + 1 \notin S
    <3>1. S \in SUBSET (1..k)
      BY <2>2
    <3>2. PICK l \in 0..k : S = 1..l
      BY <3>1
    <3>3. l \in 0..(k + 1)
      OBVIOUS
    <3>4. QED
      BY <3>2, <3>3
  <2>3. QED
    BY <2>1, <2>2
<1>3. n \in T
  <2>1. T \subseteq Nat
    OBVIOUS
  <2> HIDE DEF T
  <2>2. Nat \subseteq T
    BY <1>1, <1>2, <2>1, WalkFold!Induction
  <2>3. QED
    BY <2>2
<1>4. QED
  BY <1>3

\* A set of numbers that is not empty has a least one.
LEMMA LeastExists ==
  ASSUME NEW S \in SUBSET Nat, S # {}
  PROVE  \E i \in S : \A j \in S : i <= j
<1> SUFFICES ASSUME \A i \in S : \E j \in S : ~(i <= j)
             PROVE  FALSE
  OBVIOUS
<1> DEFINE T == {n \in Nat : \A i \in S : n < i}
<1>1. 0 \in T
  OBVIOUS
<1>2. ASSUME NEW n \in T
      PROVE  n + 1 \in T
  OBVIOUS
<1>3. Nat \subseteq T
  <2>1. T \subseteq Nat
    OBVIOUS
  <2> HIDE DEF T
  <2>2. QED
    BY <1>1, <1>2, <2>1, WalkFold!Induction
<1>4. PICK i \in S : TRUE
  OBVIOUS
<1>5. QED
  BY <1>3, <1>4

\* FirstFit finds a node that is long enough, or says that there is none.
LEMMA FirstFitFits ==
  ASSUME NEW m, NEW X, NEW s \in Seq(X), NEW least, FirstFit(m, s, least) # 0
  PROVE  /\ FirstFit(m, s, least) \in 1..Len(s)
         /\ m[s[FirstFit(m, s, least)]] >= least
<1> DEFINE fits == {i \in DOMAIN s : m[s[i]] >= least}
<1>1. FirstFit(m, s, least) = IF fits = {} THEN 0
                              ELSE CHOOSE i \in fits : \A j \in fits : i <= j
  BY Zenon DEF FirstFit
<1>2. fits \in SUBSET Nat /\ fits # {}
  BY <1>1
<1>3. DOMAIN s = 1..Len(s)
  OBVIOUS
<1>4. \A i \in fits : i \in DOMAIN s /\ m[s[i]] >= least
  OBVIOUS
<1> HIDE DEF fits
<1>5. FirstFit(m, s, least) \in fits
  <2>1. \E i \in fits : \A j \in fits : i <= j
    BY <1>2, LeastExists
  <2>2. QED
    BY <1>1, <1>2, <2>1
<1>6. QED
  BY <1>3, <1>4, <1>5

\* The node behind which Liberate puts what it frees.
Before(m, head, cur) ==
  LET s == List(m, head)
      below == {i \in DOMAIN s : \A j \in 1..i : s[j] <= cur}
  IN  Pred(head, s, Cardinality(below) + 1)

\* It is the last one in front of cur.
LEMMA BeforeIs ==
  ASSUME NEW m, NEW head \in Heads, NEW F, NEW u, ListOK(m, head, F, u),
         NEW cur \in Nat, InitBegin <= cur
  PROVE  /\ Before(m, head, cur) \in F \cup {head} /\ Before(m, head, cur) <= cur
         /\ \A c \in F : c <= cur => c <= Before(m, head, cur)
<1> DEFINE s == List(m, head)
           below == {i \in DOMAIN s : \A j \in 1..i : s[j] <= cur}
           q == Pred(head, s, Cardinality(below) + 1)
<1>1. Enumerates(m, head, F, s)
  BY ListNodes
<1>2. Before(m, head, cur) = q
  BY Zenon DEF Before
<1> HIDE DEF s
<1>3. s \in Seq(F) /\ DOMAIN s = 1..Len(s) /\ Len(s) \in Nat
  BY <1>1 DEF Enumerates
<1>4. \A i \in 1..Len(s) : s[i] \in F /\ s[i] \in Nat
  BY <1>3 DEF ListOK, Nodes
<1>5. head \in Nat /\ head < InitBegin /\ InitBegin \in Nat
  BY Layout DEF Heads, pages_head, blocks_head
<1>6. PICK k \in 0..Len(s) : below = 1..k
  <2>1. below \in SUBSET (1..Len(s))
    BY <1>3
  <2>2. \A i \in below : \A j \in 1..i : j \in below
    BY <1>3
  <2> HIDE DEF below
  <2>3. QED
    BY <1>3, <2>1, <2>2, InitialPart
<1>7. Cardinality(below) = k
  <2>1. Cardinality(1..k) = IF 1 > k THEN 0 ELSE k - 1 + 1
    BY <1>3, FS_Interval
  <2>2. k \in Nat
    BY <1>3
  <2> HIDE DEF below
  <2>3. QED
    BY <1>6, <2>1, <2>2
<1>8. \A i \in 1..Len(s) : i <= k <=> s[i] <= cur
  <2>1. ASSUME NEW i \in 1..Len(s), i <= k
        PROVE  s[i] <= cur
    <3>1. i \in below /\ i \in 1..i
      BY <1>6, <2>1
    <3>2. QED
      BY <3>1
  <2>2. ASSUME NEW i \in 1..Len(s), s[i] <= cur
        PROVE  i <= k
    <3>1. \A j \in 1..i : s[j] <= cur
      <4>1. ASSUME NEW j \in 1..i
            PROVE  s[j] <= cur
        <5>1. j \in 1..Len(s) /\ (j = i \/ j < i)
          BY <1>3
        <5>2. j = i \/ s[j] < s[i]
          BY <1>1, <5>1 DEF Enumerates, Ordered
        <5>3. QED
          BY <1>4, <2>2, <5>1, <5>2
      <4>2. QED
        BY <4>1
    <3>2. i \in below
      BY <1>3, <3>1
    <3>3. QED
      BY <1>6, <3>2
  <2>3. QED
    BY <2>1, <2>2
<1> HIDE DEF below
<1>9. q = IF k = 0 THEN head ELSE s[k]
  BY <1>6, <1>7 DEF Pred
<1> HIDE DEF q
<1>10. q \in F \cup {head} /\ q <= cur
  BY <1>3, <1>4, <1>5, <1>8, <1>9
<1>11. ASSUME NEW c \in F, c <= cur
       PROVE  c <= q
  <2>1. PICK i \in 1..Len(s) : s[i] = c
    BY <1>1 DEF Enumerates
  <2>2. i <= k
    BY <1>8, <1>11, <2>1
  <2>3. k # 0 /\ k \in 1..Len(s) /\ (i = k \/ i < k)
    BY <1>3, <2>2
  <2>4. c = s[k] \/ c < s[k]
    BY <1>1, <2>1, <2>3 DEF Enumerates, Ordered
  <2>5. QED
    BY <1>4, <1>9, <2>1, <2>3, <2>4
<1>12. QED
  BY <1>2, <1>10, <1>11

-----------------------------------------------------------------------------
(* Putting a free piece of memory into a list.                             *)

\* The word x is in one of the nodes F.
Holds(m, F, u, x) == \E a \in F : a <= x /\ x < a + Size(m, u, a)

\* The list does not have the n units at cur.
Placeable(m, head, F, u, cur, n) ==
  /\ ListOK(m, head, F, u)
  /\ cur \in Nat /\ InitBegin <= cur /\ n \in Nat \ {0}
  /\ n * u \in Nat \ {0} /\ cur + n * u <= MemoryEnd
  /\ \A a \in F : a + Size(m, u, a) <= cur \/ cur + n * u <= a

\* They may be put into it: there is room for a node, or there will be, with
\* the node that follows.
Freeable(m, head, F, u, cur, n) ==
  /\ Placeable(m, head, F, u, cur, n)
  /\ 2 <= n * u \/ cur + n * u \in F

\* B3: with the node p behind it, if they touch.
Joins(m, u, cur, n, p) == p # 0 /\ cur + n * u = p
Rest(m, F, u, cur, n, p) == IF Joins(m, u, cur, n, p) THEN F \ {p} ELSE F
Total(m, u, cur, n, p) == IF Joins(m, u, cur, n, p) THEN n + m[p] ELSE n
Onward(m, u, cur, n, p) == IF Joins(m, u, cur, n, p) THEN m[p + 1] ELSE p

\* What holds after B3: the nodes G are the list without what is freed, which
\* is now len units long and belongs between q and nxt.
AfterB3(m, head, F, u, cur, n, q, G, len, nxt) ==
  /\ G \subseteq F /\ q \in G \cup {head}
  /\ len \in Nat \ {0} /\ len * u \in Nat /\ n * u <= len * u /\ cur + len * u <= MemoryEnd
  /\ 2 <= len * u
  /\ IsNext(G, cur, nxt) /\ IsNext(G, q, nxt)
  /\ \A a \in G \cup {head} : a # q => IsNext(G, a, m[a + 1])
  /\ \A c \in G : IF c < cur THEN c <= q /\ c + Size(m, u, c) <= cur ELSE cur + len * u < c
  /\ \A x \in Int :
       Holds(m, F, u, x) \/ (cur <= x /\ x < cur + n * u)
       <=> Holds(m, G, u, x) \/ (cur <= x /\ x < cur + len * u)

\* Step B3.
LEMMA StepB3 ==
  ASSUME NEW m, NEW head \in Heads, NEW F, NEW u \in Nat \ {0}, NEW cur, NEW n,
         Freeable(m, head, F, u, cur, n),
         NEW q \in F \cup {head}, q <= cur, \A c \in F : c <= cur => c <= q
  PROVE  LET p == m[q + 1]
         IN  AfterB3(m, head, F, u, cur, n, q, Rest(m, F, u, cur, n, p),
                     Total(m, u, cur, n, p), Onward(m, u, cur, n, p))
<1> DEFINE p == m[q + 1]
           N == n * u
           L(a) == Size(m, u, a)
<1>1. /\ cur \in Nat /\ InitBegin \in Nat /\ InitBegin <= cur /\ n \in Nat \ {0}
      /\ N \in Nat \ {0} /\ cur + N <= MemoryEnd /\ MemoryEnd \in Nat
      /\ 2 <= N \/ cur + N \in F
  BY Layout DEF Freeable, Placeable
<1>2. \A a \in F : /\ a \in Nat /\ InitBegin <= a /\ m[a] \in Nat \ {0}
                   /\ L(a) \in Nat /\ 2 <= L(a) /\ a + L(a) <= MemoryEnd
                   /\ a + L(a) <= cur \/ cur + N <= a
  BY DEF Freeable, Placeable, ListOK, Nodes
<1>3. \A a \in F \cup {head} : IsNext(F, a, m[a + 1])
  BY DEF Freeable, Placeable, ListOK
<1>4. \A a, c \in F : a < c => a + L(a) < c
  BY DEF Freeable, Placeable, ListOK
<1>5. head \in Nat /\ head < InitBegin /\ head \notin F
  BY <1>1, <1>2, Layout DEF Heads, pages_head, blocks_head
<1>6. IsNext(F, q, p) /\ q \in Nat /\ q < cur
  <2>1. q \in Nat /\ q # cur
    BY <1>1, <1>2, <1>5
  <2>2. QED
    BY <1>1, <1>3, <2>1
<1>7. \A c \in F : IF c < cur THEN c <= q /\ c + L(c) <= cur ELSE cur + N <= c /\ q < c /\ cur < c
  <2>1. ASSUME NEW c \in F, c < cur
        PROVE  c <= q /\ c + L(c) <= cur
    BY <1>1, <1>2, <2>1
  <2>2. ASSUME NEW c \in F, ~(c < cur)
        PROVE  cur + N <= c /\ q < c /\ cur < c
    BY <1>1, <1>2, <1>6, <2>2
  <2>3. QED
    BY <2>1, <2>2
<1>8. p # 0 => p \in F /\ cur + N <= p
  <2>1. p # 0 => p \in F /\ q < p
    BY <1>6 DEF IsNext
  <2> HIDE DEF p
  <2>2. p # 0 => ~(p <= q)
    <3>1. p \in F => p \in Nat
      BY <1>2
    <3>2. QED
      BY <1>6, <2>1, <3>1
  <2>3. QED
    BY <1>7, <2>1, <2>2
<1>9. \A c \in F : c > cur => p # 0 /\ p <= c
  <2>1. \A c \in F : c > cur => q < c
    BY <1>1, <1>2, <1>7
  <2>2. 0 \notin F
    BY <1>1, <1>2, Layout
  <2>3. \A c \in F : q < c => p # 0 /\ p <= c
    <3>1. ASSUME NEW c \in F, q < c
          PROVE  p # 0 /\ p <= c
      BY <1>2, <1>6, <2>2, <3>1 DEF IsNext
    <3>2. QED
      BY <3>1
  <2>4. QED
    BY <2>1, <2>3
<1> HIDE DEF p, N, L
<1>10. CASE ~(p # 0 /\ cur + N = p)
  <2>1. /\ Rest(m, F, u, cur, n, p) = F /\ Total(m, u, cur, n, p) = n
        /\ Onward(m, u, cur, n, p) = p
    BY <1>10 DEF Rest, Total, Onward, Joins, N
  <2>2. IsNext(F, cur, p)
    <3>1. CASE p = 0
      <4>1. \A c \in F : c <= cur
        BY <1>1, <1>2, <1>9, <3>1
      <4>2. QED
        BY <3>1, <4>1 DEF IsNext
    <3>2. CASE p # 0
      <4>1. p \in F /\ cur < p
        BY <1>1, <1>2, <1>8, <3>2
      <4>2. QED
        BY <1>9, <4>1 DEF IsNext
    <3>3. QED
      BY <3>1, <3>2
  <2>3. \A c \in F : IF c < cur THEN c <= q /\ c + L(c) <= cur ELSE cur + N < c
    <3>1. ASSUME NEW c \in F, ~(c < cur)
          PROVE  cur + N < c
      <4>1. p # 0 /\ p <= c /\ cur + N <= p /\ p \in F
        BY <1>1, <1>2, <1>7, <1>8, <1>9, <3>1
      <4>2. cur + N # p
        BY <1>10, <4>1
      <4>3. QED
        BY <1>1, <1>2, <4>1, <4>2
    <3>2. QED
      BY <1>7, <3>1
  <2>4. AfterB3(m, head, F, u, cur, n, q, F, n, p)
    <3>1. N <= N /\ 2 <= N
      <4>1. cur + N \in F => p # 0 /\ p <= cur + N /\ cur + N <= p /\ p \in F
        BY <1>1, <1>8, <1>9
      <4>2. cur + N \notin F
        BY <1>1, <1>2, <1>10, <4>1
      <4>3. QED
        BY <1>1, <4>2
    <3>2. QED
      BY <1>1, <1>3, <1>6, <2>2, <2>3, <3>1, Zenon DEF AfterB3, N, L
  <2>5. QED
    BY <2>1, <2>4 DEF p
<1>11. CASE p # 0 /\ cur + N = p
  <2> DEFINE G == F \ {p}
             len == n + m[p]
             K == N + L(p)
             nxt == m[p + 1]
  <2>1. /\ Rest(m, F, u, cur, n, p) = G /\ Total(m, u, cur, n, p) = len
        /\ Onward(m, u, cur, n, p) = nxt
    BY <1>11 DEF Rest, Total, Onward, Joins, N
  <2>2. p \in F /\ p \in Nat /\ m[p] \in Nat \ {0} /\ L(p) \in Nat /\ p + L(p) <= MemoryEnd
        /\ 2 <= L(p)
    BY <1>2, <1>8, <1>11
  <2>3. /\ len \in Nat \ {0} /\ len * u = K /\ K \in Nat /\ N <= K /\ cur + K = p + L(p)
    <3>1. (n + m[p]) * u = n * u + m[p] * u
      BY <1>1, <2>2
    <3>2. len * u = K
      BY <3>1 DEF N, L, Size
    <3>3. len \in Nat \ {0}
      BY <1>1, <2>2
    <3>4. K \in Nat /\ N <= K /\ cur + K = p + L(p)
      BY <1>1, <1>11, <2>2
    <3>5. QED
      BY <3>2, <3>3, <3>4
  <2>4. IsNext(F, p, nxt)
    BY <1>3, <2>2
  <2> HIDE DEF nxt, len, K
  <2>5. IsNext(G, p, nxt) /\ (nxt # 0 => nxt \in G)
    <3>1. nxt # p
      <4>1. p # 0 /\ ~(p < p)
        BY <1>1, <1>11, <2>2
      <4>2. QED
        BY <2>4, <4>1, Zenon DEF IsNext
    <3>2. QED
      BY <2>4, <3>1 DEF IsNext
  <2>6. \A c \in G : c > cur => p < c
    BY <1>2, <1>9, <2>2
  <2>7. \A c \in G : c <= cur => c < p
    BY <1>1, <1>2, <1>11, <2>2
  <2>8. \A a \in Nat : a < p /\ (\A c \in G : a < c => p < c) => IsNext(G, a, nxt)
    <3> SUFFICES ASSUME NEW a \in Nat, a < p, \A c \in G : a < c => p < c
                 PROVE  IsNext(G, a, nxt)
      OBVIOUS
    <3>1. CASE nxt = 0
      <4>1. \A c \in G : ~(p < c)
        <5>1. IsNext(G, p, 0) /\ 0 \notin G
          BY <1>1, <1>2, <2>5, <3>1, Layout
        <5>2. \A c \in G : c <= p
          BY <5>1, Zenon DEF IsNext
        <5>3. QED
          BY <1>2, <2>2, <5>2
      <4>2. \A c \in G : c <= a
        BY <1>2, <4>1
      <4>3. QED
        BY <3>1, <4>2 DEF IsNext
    <3>2. CASE nxt # 0
      <4>1. nxt \in G /\ p < nxt /\ \A c \in G : p < c => nxt <= c
        BY <2>5, <3>2, Zenon DEF IsNext
      <4>2. a < nxt
        BY <1>2, <2>2, <4>1
      <4>3. QED
        BY <4>1, <4>2, Zenon DEF IsNext
    <3>3. QED
      BY <3>1, <3>2
  <2>9. IsNext(G, cur, nxt)
    <3>1. cur < p /\ \A c \in G : cur < c => p < c
      BY <1>1, <1>2, <1>11, <2>6
    <3>2. QED
      BY <1>1, <2>8, <3>1
  <2>10. IsNext(G, q, nxt)
    <3>1. q < p /\ \A c \in G : q < c => p < c
      <4>1. ASSUME NEW c \in G, q < c
            PROVE  p < c
        BY <1>1, <1>2, <1>6, <1>7, <2>6, <4>1
      <4>2. QED
        BY <1>1, <1>6, <1>11, <2>2, <4>1
    <3>2. QED
      BY <1>6, <2>8, <3>1
  <2>11. ASSUME NEW a \in G \cup {head}, a # q
         PROVE  IsNext(G, a, m[a + 1])
    <3>1. IsNext(F, a, m[a + 1]) /\ a \in Nat
      BY <1>2, <1>3, <1>5, <2>11
    <3>2. m[a + 1] # p
      <4> SUFFICES ASSUME m[a + 1] = p
                   PROVE  FALSE
        OBVIOUS
      <4>1. a < p /\ \A c \in F : a < c => p <= c
        BY <1>1, <1>11, <2>2, <3>1 DEF IsNext
      <4>2. CASE a < q
        <5>1. q \in F
          <6>1. a \in F \cup {head} /\ (a \in F => InitBegin <= a)
            BY <1>2, <2>11
          <6>2. head <= a
            BY <1>1, <1>5, <3>1, <6>1
          <6>3. q # head
            BY <1>5, <1>6, <3>1, <4>2, <6>2
          <6>4. QED
            BY <6>3
        <5>2. p <= q
          BY <4>1, <4>2, <5>1
        <5>3. QED
          BY <1>1, <1>6, <1>11, <2>2, <5>2
      <4>3. CASE q < a
        <5>1. a \in F
          <6>1. q \in F => InitBegin <= q
            BY <1>2
          <6>2. head <= q
            BY <1>1, <1>5, <1>6, <6>1
          <6>3. a # head
            BY <1>5, <1>6, <3>1, <4>3, <6>2
          <6>4. QED
            BY <2>11, <6>3
        <5>2. ~(a < cur)
          BY <1>1, <1>2, <1>6, <1>7, <4>3, <5>1
        <5>3. cur + N <= a
          BY <1>7, <5>1, <5>2
        <5>4. QED
          BY <1>1, <1>11, <2>2, <3>1, <4>1, <5>3
      <4>4. QED
        BY <1>6, <2>11, <3>1, <4>2, <4>3
    <3>3. QED
      BY <3>1, <3>2, Zenon DEF IsNext
  <2>12. q \in G \cup {head} /\ G \subseteq F
    BY <1>1, <1>6, <1>11, <2>2
  <2>13. \A c \in G : IF c < cur THEN c <= q /\ c + L(c) <= cur ELSE cur + K < c
    <3>1. ASSUME NEW c \in G, ~(c < cur)
          PROVE  cur + K < c
      <4>1. p < c
        BY <1>1, <1>2, <1>7, <2>6, <3>1
      <4>2. p + L(p) < c
        BY <1>4, <2>2, <4>1
      <4>3. QED
        BY <2>3, <4>2
    <3>2. QED
      BY <1>7, <3>1
  <2>14. ASSUME NEW x \in Int
         PROVE  Holds(m, F, u, x) \/ (cur <= x /\ x < cur + N)
                <=> Holds(m, G, u, x) \/ (cur <= x /\ x < cur + K)
    <3>1. (cur <= x /\ x < cur + N) \/ (p <= x /\ x < p + L(p)) <=> cur <= x /\ x < cur + K
      BY <1>1, <1>11, <2>2, <2>3
    <3>2. Holds(m, F, u, x) <=> Holds(m, G, u, x) \/ (p <= x /\ x < p + L(p))
      BY <2>2, Zenon DEF Holds, L
    <3>3. QED
      BY <3>1, <3>2
  <2>15. /\ len * u \in Nat /\ n * u <= len * u /\ cur + len * u <= MemoryEnd /\ len \in Nat \ {0}
         /\ 2 <= len * u
    <3>1. 2 <= K
      BY <1>1, <1>11, <2>2, <2>3
    <3>2. QED
      BY <1>1, <2>2, <2>3, <3>1 DEF N
  <2>16. AfterB3(m, head, F, u, cur, n, q, G, len, nxt)
    BY <2>3, <2>9, <2>10, <2>11, <2>12, <2>13, <2>14, <2>15, Zenon DEF AfterB3, N, L
  <2>17. QED
    BY <2>1, <2>16 DEF p
<1>12. QED
  BY <1>10, <1>11

\* What steps B1 to B4 store: nxt behind the node at q, which grows by len
\* units, or the node cur, with len units, behind q.
Stored(m, m2, q, u, cur, len, nxt) ==
  /\ m2 \in [Addr -> Int]
  /\ IF q + m[q] * u = cur
       THEN \A x \in Addr : m2[x] = IF x = q + 1 \/ x = cur + 1 THEN nxt
                                    ELSE IF x = q THEN m[q] + len ELSE m[x]
       ELSE \A x \in Addr : m2[x] = IF x = q + 1 THEN cur
                                    ELSE IF x = cur THEN len
                                    ELSE IF x = cur + 1 THEN nxt ELSE m[x]

\* Two words of a node, or of a head, are in memory.
LEMMA NodeWords ==
  ASSUME NEW m, NEW head \in Heads, NEW F, NEW u, ListOK(m, head, F, u),
         NEW a \in F \cup {head}
  PROVE  a \in Addr /\ a + 1 \in Addr /\ a \in Nat /\ (a \in F => a + 2 <= MemoryEnd)
<1>1. CASE a = head
  BY <1>1, Layout DEF Heads, pages_head, blocks_head
<1>2. CASE a \in F
  <2>1. a \in Nat /\ Size(m, u, a) \in Nat /\ 2 <= Size(m, u, a) /\ a + Size(m, u, a) <= MemoryEnd
    BY <1>2 DEF ListOK, Nodes
  <2>2. QED
    BY <2>1, Layout
<1>3. QED
  BY <1>1, <1>2

LEMMA LiberateStores ==
  ASSUME NEW m \in [Addr -> Int], NEW head \in Heads, NEW F, NEW u \in Nat \ {0}, NEW cur, NEW n,
         Placeable(m, head, F, u, cur, n)
  PROVE  LET q == Before(m, head, cur)
             p == m[q + 1]
         IN  Stored(m, Liberate(m, head, cur, n, u), q, u, cur,
                    Total(m, u, cur, n, p), Onward(m, u, cur, n, p))
<1> DEFINE q == Before(m, head, cur)
           p == m[q + 1]
           len == Total(m, u, cur, n, p)
           nxt == Onward(m, u, cur, n, p)
           m1 == [m EXCEPT ![cur + 1] = nxt]
           m3 == [m1 EXCEPT ![q] = @ + len]
           m4 == [m3 EXCEPT ![q + 1] = m1[cur + 1]]
           m5 == [m1 EXCEPT ![q + 1] = cur]
           m6 == [m5 EXCEPT ![cur] = len]
<1>1. Liberate(m, head, cur, n, u) = IF q + m1[q] * u = cur THEN m4 ELSE m6
  BY Zenon DEF Liberate, Before, Total, Onward, Joins
<1>2. /\ ListOK(m, head, F, u) /\ cur \in Nat /\ InitBegin <= cur /\ n \in Nat \ {0}
      /\ n * u \in Nat \ {0} /\ cur + n * u <= MemoryEnd
      /\ \A a \in F : a + Size(m, u, a) <= cur \/ cur + n * u <= a
  BY DEF Placeable
<1>3. q \in F \cup {head} /\ q <= cur
  BY <1>2, BeforeIs
<1> HIDE DEF q
<1>4. q \in Addr /\ q + 1 \in Addr /\ q \in Nat
  BY <1>2, <1>3, NodeWords
<1>5. cur \in Addr /\ cur + 1 \in Addr
  BY <1>2, Layout
<1>6. q + 1 < cur
  <2>1. CASE q = head
    BY <1>2, <2>1, Layout DEF Heads, pages_head, blocks_head
  <2>2. CASE q \in F
    <3>1. Size(m, u, q) \in Nat /\ 2 <= Size(m, u, q)
      BY <1>2, <2>2 DEF ListOK, Nodes
    <3>2. q + Size(m, u, q) <= cur \/ cur + n * u <= q
      BY <1>2, <2>2
    <3>3. QED
      BY <1>2, <1>3, <1>4, <3>1, <3>2
  <2>3. QED
    BY <1>3, <2>1, <2>2
<1>7. p \in Int /\ (p # 0 => p \in F)
  BY <1>2, <1>3, <1>4 DEF ListOK, IsNext
<1>8. p # 0 => p \in Addr /\ p + 1 \in Addr
  BY <1>2, <1>7, NodeWords
<1>9. len \in Int /\ nxt \in Int
  <2>1. p # 0 => m[p] \in Int /\ m[p + 1] \in Int
    BY <1>8
  <2> HIDE DEF p
  <2>2. QED
    BY <1>2, <1>7, <2>1 DEF Total, Onward, Joins
<1> HIDE DEF len, nxt, p
<1>10. m1 \in [Addr -> Int] /\ m1[cur + 1] = nxt /\ \A x \in Addr : x # cur + 1 => m1[x] = m[x]
  BY <1>5, <1>9
<1>11. m1[q] = m[q] /\ m[q] \in Int
  BY <1>2, <1>4, <1>6, <1>10
<1> HIDE DEF m1
<1>12. m3 \in [Addr -> Int] /\ m3[q] = m[q] + len /\ \A x \in Addr : x # q => m3[x] = m1[x]
  BY <1>4, <1>9, <1>10, <1>11
<1>13. m5 \in [Addr -> Int] /\ m5[q + 1] = cur /\ \A x \in Addr : x # q + 1 => m5[x] = m1[x]
  BY <1>2, <1>4, <1>10
<1> HIDE DEF m3, m5
<1>14. m4 \in [Addr -> Int] /\ m4[q + 1] = nxt /\ \A x \in Addr : x # q + 1 => m4[x] = m3[x]
  BY <1>4, <1>9, <1>10, <1>12
<1>15. m6 \in [Addr -> Int] /\ m6[cur] = len /\ \A x \in Addr : x # cur => m6[x] = m5[x]
  BY <1>5, <1>9, <1>13
<1> HIDE DEF m4, m6
<1>16. CASE q + m[q] * u = cur
  <2>1. Liberate(m, head, cur, n, u) = m4
    BY <1>1, <1>11, <1>16
  <2>2. ASSUME NEW x \in Addr
        PROVE  m4[x] = IF x = q + 1 \/ x = cur + 1 THEN nxt
                       ELSE IF x = q THEN m[q] + len ELSE m[x]
    BY <1>2, <1>4, <1>6, <1>10, <1>12, <1>14
  <2>3. Stored(m, m4, q, u, cur, len, nxt)
    BY <1>14, <1>16, <2>2, Zenon DEF Stored
  <2>4. QED
    BY <2>1, <2>3 DEF q, p, len, nxt
<1>17. CASE q + m[q] * u # cur
  <2>1. Liberate(m, head, cur, n, u) = m6
    BY <1>1, <1>11, <1>17
  <2>2. ASSUME NEW x \in Addr
        PROVE  m6[x] = IF x = q + 1 THEN cur ELSE IF x = cur THEN len
                       ELSE IF x = cur + 1 THEN nxt ELSE m[x]
    BY <1>2, <1>4, <1>6, <1>10, <1>13, <1>15
  <2>3. Stored(m, m6, q, u, cur, len, nxt)
    BY <1>15, <1>17, <2>2, Zenon DEF Stored
  <2>4. QED
    BY <2>1, <2>3 DEF q, p, len, nxt
<1>18. QED
  BY <1>16, <1>17

\* The list G of m2 is the list F of m and the N words from cur on; nothing
\* else has changed but the head.
IsFreed(m, m2, head, F, G, u, cur, N) ==
  /\ m2 \in [Addr -> Int]
  /\ ListOK(m2, head, G, u)
  /\ \A x \in Int : Holds(m2, G, u, x) <=> Holds(m, F, u, x) \/ (cur <= x /\ x < cur + N)
  /\ \A x \in Addr :
       x # head + 1 /\ ~Holds(m, F, u, x) /\ ~(cur <= x /\ x < cur + N) => m2[x] = m[x]

\* B4 when what is freed becomes a part of the node at q.
LEMMA StepB4Merge ==
  ASSUME NEW m \in [Addr -> Int], NEW head \in Heads, NEW F, NEW u \in Nat \ {0},
         NEW cur \in Nat, NEW n \in Nat \ {0}, NEW q, NEW G, NEW len, NEW nxt, NEW m2,
         Freeable(m, head, F, u, cur, n), q < cur,
         AfterB3(m, head, F, u, cur, n, q, G, len, nxt),
         Stored(m, m2, q, u, cur, len, nxt), q + m[q] * u = cur
  PROVE  IsFreed(m, m2, head, F, G, u, cur, n * u)
<1> DEFINE K == len * u
           L(a) == Size(m, u, a)
<1>1. /\ ListOK(m, head, F, u) /\ InitBegin \in Nat /\ InitBegin <= cur
      /\ n * u \in Nat \ {0} /\ MemoryEnd \in Nat /\ head \in Nat /\ head + 1 < InitBegin
  BY Layout DEF Freeable, Placeable, Heads, pages_head, blocks_head
<1>2. /\ G \subseteq F /\ q \in G \cup {head}
      /\ len \in Nat \ {0} /\ K \in Nat /\ n * u <= K /\ cur + K <= MemoryEnd /\ 2 <= K
      /\ IsNext(G, cur, nxt) /\ IsNext(G, q, nxt)
      /\ \A a \in G \cup {head} : a # q => IsNext(G, a, m[a + 1])
      /\ \A c \in G : IF c < cur THEN c <= q /\ c + L(c) <= cur ELSE cur + K < c
      /\ \A x \in Int : Holds(m, F, u, x) \/ (cur <= x /\ x < cur + n * u)
                        <=> Holds(m, G, u, x) \/ (cur <= x /\ x < cur + K)
  BY Zenon DEF AfterB3
<1>3. /\ m2 \in [Addr -> Int]
      /\ \A x \in Addr : m2[x] = IF x = q + 1 \/ x = cur + 1 THEN nxt
                                 ELSE IF x = q THEN m[q] + len ELSE m[x]
  BY Zenon DEF Stored
<1>4. \A a \in G : /\ a \in Nat /\ InitBegin <= a /\ m[a] \in Nat \ {0} /\ a \in F
                   /\ L(a) \in Nat /\ 2 <= L(a) /\ a + L(a) <= MemoryEnd
                   /\ a \in Addr /\ a + 1 \in Addr
  <2>1. ASSUME NEW a \in G
        PROVE  /\ a \in Nat /\ InitBegin <= a /\ m[a] \in Nat \ {0} /\ a \in F
               /\ L(a) \in Nat /\ 2 <= L(a) /\ a + L(a) <= MemoryEnd
    BY <1>1, <1>2 DEF ListOK, Nodes
  <2>2. ASSUME NEW a \in G
        PROVE  a \in Addr /\ a + 1 \in Addr
    BY <1>1, <1>2, NodeWords
  <2>3. QED
    BY <2>1, <2>2
<1>5. head \in Addr /\ head + 1 \in Addr /\ m[head] = 0 /\ 0 * u = 0
  BY <1>1, NodeWords DEF ListOK
<1>6. \A a, c \in G : a < c => a + L(a) < c
  BY <1>1, <1>2 DEF ListOK
<1> HIDE DEF K, L
<1>7. q # head /\ q \in G
  BY <1>1, <1>2, <1>5
<1>8. q + L(q) = cur /\ q \in Nat /\ q + 2 <= cur /\ m[q] \in Nat /\ q \in Addr /\ q + 1 \in Addr
  <2>1. q + L(q) = cur
    BY DEF L, Size
  <2>2. QED
    BY <1>4, <1>7, <2>1
<1>9. m2[q] = m[q] + len /\ m2[q + 1] = nxt
  BY <1>3, <1>8
<1>10. \A a \in G : a # q => m2[a] = m[a] /\ m2[a + 1] = m[a + 1]
  <2>1. ASSUME NEW a \in G, a # q
        PROVE  m2[a] = m[a] /\ m2[a + 1] = m[a + 1]
    <3>1. a < q => a + L(a) < q
      BY <1>6, <1>7
    <3>2. IF a < cur THEN a <= q /\ a + L(a) <= cur ELSE cur + K < a
      BY <1>2
    <3>3. a # q + 1 /\ a # cur + 1 /\ a + 1 # q /\ a # cur
      BY <1>1, <1>2, <1>4, <1>8, <2>1, <3>1, <3>2
    <3>4. QED
      BY <1>3, <1>4, <1>8, <2>1, <3>3
  <2>2. QED
    BY <2>1
<1>11. m2[head] = 0 /\ m2[head + 1] = m[head + 1]
  BY <1>1, <1>3, <1>4, <1>5, <1>7
<1>12. \A a \in G : Size(m2, u, a) = IF a = q THEN L(q) + K ELSE L(a)
  <2>1. (m[q] + len) * u = m[q] * u + len * u
    BY <1>2, <1>8
  <2>2. QED
    BY <1>9, <1>10, <2>1 DEF Size, L, K
<1>13. Nodes(m2, G, u)
  <2>1. ASSUME NEW a \in G
        PROVE  /\ a \in Nat /\ InitBegin <= a /\ m2[a] \in Nat \ {0}
               /\ Size(m2, u, a) \in Nat /\ 2 <= Size(m2, u, a) /\ a + Size(m2, u, a) <= MemoryEnd
    <3>1. CASE a = q
      <4>1. m2[a] \in Nat \ {0}
        BY <1>2, <1>8, <1>9, <3>1
      <4>2. Size(m2, u, a) = L(a) + K
        BY <1>7, <1>12, <3>1
      <4>3. QED
        BY <1>1, <1>2, <1>4, <1>8, <3>1, <4>1, <4>2
    <3>2. CASE a # q
      BY <1>4, <1>10, <1>12, <3>2
    <3>3. QED
      BY <3>1, <3>2
  <2>2. QED
    BY <2>1 DEF Nodes
<1>14. \A a \in G \cup {head} : IsNext(G, a, m2[a + 1])
  <2>1. ASSUME NEW a \in G \cup {head}
        PROVE  IsNext(G, a, m2[a + 1])
    <3>1. CASE a = q
      BY <1>2, <1>9, <3>1
    <3>2. CASE a # q
      <4>1. m2[a + 1] = m[a + 1]
        BY <1>10, <1>11, <3>2
      <4>2. QED
        BY <1>2, <3>2, <4>1
    <3>3. QED
      BY <3>1, <3>2
  <2>2. QED
    BY <2>1
<1>15. \A a, c \in G : a < c => a + Size(m2, u, a) < c
  <2>1. ASSUME NEW a \in G, NEW c \in G, a < c
        PROVE  a + Size(m2, u, a) < c
    <3>1. CASE a = q
      <4>1. ~(c <= q)
        BY <1>4, <1>8, <2>1, <3>1
      <4>2. cur + K < c
        BY <1>2, <4>1
      <4>3. Size(m2, u, a) = L(q) + K /\ L(q) \in Nat
        BY <1>4, <1>7, <1>12, <3>1
      <4>4. QED
        BY <1>2, <1>4, <1>8, <3>1, <4>2, <4>3
    <3>2. CASE a # q
      BY <1>6, <1>12, <2>1, <3>2
    <3>3. QED
      BY <3>1, <3>2
  <2>2. QED
    BY <2>1
<1>16. ListOK(m2, head, G, u)
  BY <1>11, <1>13, <1>14, <1>15, Zenon DEF ListOK
<1>17. ASSUME NEW x \in Int
       PROVE  Holds(m2, G, u, x) <=> Holds(m, G, u, x) \/ (cur <= x /\ x < cur + K)
  <2>1. ASSUME NEW a \in G
        PROVE  a <= x /\ x < a + Size(m2, u, a)
               <=> (a <= x /\ x < a + L(a)) \/ (a = q /\ cur <= x /\ x < cur + K)
    <3>1. CASE a = q
      <4>1. Size(m2, u, a) = L(q) + K /\ L(q) \in Nat
        BY <1>4, <1>7, <1>12, <3>1
      <4>2. QED
        BY <1>2, <1>8, <3>1, <4>1
    <3>2. CASE a # q
      BY <1>12, <3>2
    <3>3. QED
      BY <3>1, <3>2
  <2>2. QED
    BY <1>7, <2>1, Zenon DEF Holds, L
<1>18. ASSUME NEW x \in Addr, x # head + 1, ~Holds(m, F, u, x), ~(cur <= x /\ x < cur + n * u)
       PROVE  m2[x] = m[x]
  <2>1. ~(q <= x /\ x < q + L(q))
    BY <1>4, <1>7, <1>18, Zenon DEF Holds, L
  <2>2. x \in Nat
    BY <1>1, Layout
  <2>3. x # q /\ x # q + 1 /\ x # cur + 1
    <3>1. 2 <= L(q) /\ L(q) \in Nat
      BY <1>4, <1>7
    <3>2. ~(cur <= x /\ x < cur + K)
      BY <1>2, <1>18, <2>2
    <3>3. QED
      BY <1>1, <1>2, <1>8, <1>18, <2>1, <2>2, <3>1, <3>2
  <2>4. QED
    BY <1>3, <2>3
<1>19. QED
  BY <1>2, <1>3, <1>16, <1>17, <1>18 DEF IsFreed

\* B4 when what is freed becomes a node of its own.
LEMMA StepB4New ==
  ASSUME NEW m \in [Addr -> Int], NEW head \in Heads, NEW F, NEW u \in Nat \ {0},
         NEW cur \in Nat, NEW n \in Nat \ {0}, NEW q, NEW G, NEW len, NEW nxt, NEW m2,
         Freeable(m, head, F, u, cur, n), q < cur,
         AfterB3(m, head, F, u, cur, n, q, G, len, nxt),
         Stored(m, m2, q, u, cur, len, nxt), q + m[q] * u # cur
  PROVE  IsFreed(m, m2, head, F, G \cup {cur}, u, cur, n * u)
<1> DEFINE K == len * u
           L(a) == Size(m, u, a)
           H == G \cup {cur}
<1>1. /\ ListOK(m, head, F, u) /\ InitBegin \in Nat /\ InitBegin <= cur
      /\ n * u \in Nat \ {0} /\ MemoryEnd \in Nat /\ head \in Nat /\ head + 1 < InitBegin
      /\ cur + n * u <= MemoryEnd
  BY Layout DEF Freeable, Placeable, Heads, pages_head, blocks_head
<1>2. /\ G \subseteq F /\ q \in G \cup {head}
      /\ len \in Nat \ {0} /\ K \in Nat /\ n * u <= K /\ cur + K <= MemoryEnd /\ 2 <= K
      /\ IsNext(G, cur, nxt) /\ IsNext(G, q, nxt)
      /\ \A a \in G \cup {head} : a # q => IsNext(G, a, m[a + 1])
      /\ \A c \in G : IF c < cur THEN c <= q /\ c + L(c) <= cur ELSE cur + K < c
      /\ \A x \in Int : Holds(m, F, u, x) \/ (cur <= x /\ x < cur + n * u)
                        <=> Holds(m, G, u, x) \/ (cur <= x /\ x < cur + K)
  BY Zenon DEF AfterB3
<1>3. /\ m2 \in [Addr -> Int]
      /\ \A x \in Addr : m2[x] = IF x = q + 1 THEN cur
                                 ELSE IF x = cur THEN len
                                 ELSE IF x = cur + 1 THEN nxt ELSE m[x]
  BY Zenon DEF Stored
<1>4. \A a \in G : /\ a \in Nat /\ InitBegin <= a /\ m[a] \in Nat \ {0} /\ a \in F
                   /\ L(a) \in Nat /\ 2 <= L(a) /\ a + L(a) <= MemoryEnd
                   /\ a \in Addr /\ a + 1 \in Addr
  <2>1. ASSUME NEW a \in G
        PROVE  /\ a \in Nat /\ InitBegin <= a /\ m[a] \in Nat \ {0} /\ a \in F
               /\ L(a) \in Nat /\ 2 <= L(a) /\ a + L(a) <= MemoryEnd
    BY <1>1, <1>2 DEF ListOK, Nodes
  <2>2. ASSUME NEW a \in G
        PROVE  a \in Addr /\ a + 1 \in Addr
    BY <1>1, <1>2, NodeWords
  <2>3. QED
    BY <2>1, <2>2
<1>5. head \in Addr /\ head + 1 \in Addr /\ m[head] = 0
  BY <1>1, NodeWords DEF ListOK
<1>6. \A a, c \in G : a < c => a + L(a) < c
  BY <1>1, <1>2 DEF ListOK
<1>7. cur \in Addr /\ cur + 1 \in Addr
  BY <1>1, <1>2, Layout
<1>8. q + L(q) # cur
  BY DEF L, Size
<1> HIDE DEF K, L
<1>9. q \in Nat /\ q + 1 < cur /\ q \in Addr /\ q + 1 \in Addr
  <2>1. CASE q = head
    BY <1>1, <1>5, <2>1
  <2>2. CASE q \in G
    BY <1>1, <1>2, <1>4, <2>2
  <2>3. QED
    BY <1>2, <2>1, <2>2
<1>10. cur \notin G /\ head \notin G
  <2>1. \A c \in G : c # cur /\ c # head
    BY <1>1, <1>2, <1>4
  <2>2. QED
    BY <2>1
<1>11. m2[q + 1] = cur /\ m2[cur] = len /\ m2[cur + 1] = nxt
  BY <1>3, <1>7, <1>9
<1>12. \A a \in G : m2[a] = m[a] /\ (a # q => m2[a + 1] = m[a + 1])
  <2>1. ASSUME NEW a \in G
        PROVE  m2[a] = m[a] /\ (a # q => m2[a + 1] = m[a + 1])
    <3>1. q \in G => (a < q => a + L(a) < q) /\ (q < a => q + L(q) < a) /\ 2 <= L(q) /\ L(q) \in Nat
      BY <1>4, <1>6
    <3>2. IF a < cur THEN a <= q /\ a + L(a) <= cur ELSE cur + K < a
      BY <1>2
    <3>3. a # q + 1
      BY <1>1, <1>2, <1>4, <1>9, <3>1
    <3>4. a # cur /\ a # cur + 1 /\ a + 1 # cur
      BY <1>1, <1>2, <1>4, <1>9, <3>2
    <3>5. m2[a] = m[a]
      BY <1>3, <1>4, <3>3, <3>4
    <3>6. a # q => a + 1 # q + 1 /\ a + 1 # cur + 1
      BY <1>1, <1>4, <1>9, <3>4
    <3>7. QED
      BY <1>3, <1>4, <3>4, <3>5, <3>6
  <2>2. QED
    BY <2>1
<1>13. m2[head] = 0 /\ (head # q => m2[head + 1] = m[head + 1])
  <2>1. head # q + 1 /\ head # cur /\ head # cur + 1 /\ head + 1 # cur /\ head + 1 # cur + 1
    BY <1>1, <1>2, <1>4, <1>9
  <2>2. head # q => head + 1 # q + 1
    BY <1>1, <1>9
  <2>3. QED
    BY <1>3, <1>5, <2>1, <2>2
<1>14. (\A a \in G : Size(m2, u, a) = L(a)) /\ Size(m2, u, cur) = K
  BY <1>11, <1>12 DEF Size, L, K
<1>15. Nodes(m2, H, u)
  <2>1. ASSUME NEW a \in H
        PROVE  /\ a \in Nat /\ InitBegin <= a /\ m2[a] \in Nat \ {0}
               /\ Size(m2, u, a) \in Nat /\ 2 <= Size(m2, u, a) /\ a + Size(m2, u, a) <= MemoryEnd
    <3>1. CASE a = cur
      BY <1>1, <1>2, <1>11, <1>14, <3>1
    <3>2. CASE a \in G
      BY <1>4, <1>12, <1>14, <3>2
    <3>3. QED
      BY <3>1, <3>2
  <2>2. QED
    BY <2>1 DEF Nodes
<1>16. \A a \in G \cup {head} : a # q => IF a < cur THEN a < q ELSE cur < a
  <2>1. ASSUME NEW a \in G, a # q
        PROVE  IF a < cur THEN a < q ELSE cur < a
    <3>1. IF a < cur THEN a <= q ELSE cur + K < a
      BY <1>2
    <3>2. QED
      BY <1>2, <1>4, <1>9, <2>1, <3>1
  <2>2. head # q => head < cur /\ head < q
    BY <1>1, <1>2, <1>4
  <2>3. QED
    BY <1>1, <2>1, <2>2
<1>17. \A a \in H \cup {head} : IsNext(H, a, m2[a + 1])
  <2>1. ASSUME NEW a \in H \cup {head}
        PROVE  IsNext(H, a, m2[a + 1])
    <3>1. CASE a = q
      <4>1. \A c \in H : q < c => cur <= c
        <5>1. ASSUME NEW c \in G, q < c
              PROVE  cur <= c
          <6>1. IF c < cur THEN c <= q ELSE cur + K < c
            BY <1>2
          <6>2. QED
            BY <1>2, <1>4, <1>9, <5>1, <6>1
        <5>2. QED
          BY <5>1
      <4>2. q < cur /\ cur \in H
        OBVIOUS
      <4>3. QED
        BY <1>11, <3>1, <4>1, <4>2, Zenon DEF IsNext
    <3>2. CASE a = cur
      <4>1. IsNext(H, cur, nxt)
        <5>1. ~(cur < cur) /\ cur <= cur
          OBVIOUS
        <5>2. QED
          BY <1>2, <5>1, Zenon DEF IsNext
      <4>2. QED
        BY <1>11, <3>2, <4>1
    <3>3. CASE a # q /\ a # cur
      <4>1. a \in G \cup {head} /\ IsNext(G, a, m[a + 1]) /\ m2[a + 1] = m[a + 1]
        BY <1>2, <1>12, <1>13, <3>3
      <4>2. IF a < cur THEN a < q ELSE cur < a
        BY <1>16, <3>3, <4>1
      <4> DEFINE b == m[a + 1]
      <4>3. a \in Nat
        BY <1>1, <1>4, <4>1
      <4> HIDE DEF b
      <4>4. CASE a < cur
        <5>1. a < q /\ q \in G
          BY <1>1, <1>2, <1>4, <4>1, <4>2, <4>3, <4>4
        <5>2. ~(q <= a)
          BY <1>9, <4>3, <5>1
        <5>3. b \in G /\ a < b /\ (\A c \in G : a < c => b <= c)
          BY <4>1, <5>1, <5>2, Zenon DEF IsNext, b
        <5>4. b <= q /\ b \in Nat
          BY <1>4, <5>1, <5>3
        <5>5. b <= cur
          BY <1>9, <5>4
        <5>6. \A c \in H : a < c => b <= c
          BY <5>3, <5>5
        <5>7. QED
          BY <4>1, <5>3, <5>6, Zenon DEF IsNext, b
      <4>5. CASE ~(a < cur)
        <5>1. ~(a < cur) /\ cur <= a
          BY <4>2, <4>3, <4>5
        <5>2. QED
          BY <4>1, <5>1, Zenon DEF IsNext, b
      <4>6. QED
        BY <4>4, <4>5
    <3>4. QED
      BY <3>1, <3>2, <3>3
  <2>2. QED
    BY <2>1
<1>18. \A a, c \in H : a < c => a + Size(m2, u, a) < c
  <2>1. ASSUME NEW a \in H, NEW c \in H, a < c
        PROVE  a + Size(m2, u, a) < c
    <3>1. CASE a \in G /\ c \in G
      BY <1>6, <1>14, <2>1, <3>1
    <3>2. CASE a = cur /\ c \in G
      <4>1. IF c < cur THEN c <= q ELSE cur + K < c
        BY <1>2, <3>2
      <4>2. cur + K < c
        BY <1>4, <2>1, <3>2, <4>1
      <4>3. QED
        BY <1>14, <3>2, <4>2
    <3>3. CASE a \in G /\ c = cur
      <4>1. a + L(a) <= cur /\ a <= q
        BY <1>2, <2>1, <3>3
      <4>2. a + L(a) # cur
        <5>1. CASE a = q
          BY <1>8, <5>1
        <5>2. CASE a # q
          <6>1. q \in G
            BY <1>1, <1>2, <1>4, <3>3, <4>1
          <6>2. a + L(a) < q
            BY <1>4, <1>6, <1>9, <3>3, <4>1, <5>2, <6>1
          <6>3. QED
            BY <1>4, <1>9, <3>3, <6>2
        <5>3. QED
          BY <5>1, <5>2
      <4>3. QED
        BY <1>4, <1>14, <3>3, <4>1, <4>2
    <3>4. QED
      BY <2>1, <3>1, <3>2, <3>3
  <2>2. QED
    BY <2>1
<1>19. ListOK(m2, head, H, u)
  BY <1>13, <1>15, <1>17, <1>18, Zenon DEF ListOK
<1>20. ASSUME NEW x \in Int
       PROVE  Holds(m2, H, u, x) <=> Holds(m, G, u, x) \/ (cur <= x /\ x < cur + K)
  <2>1. Holds(m2, H, u, x) <=> Holds(m2, G, u, x) \/ (cur <= x /\ x < cur + Size(m2, u, cur))
    BY Zenon DEF Holds
  <2>2. Holds(m2, G, u, x) <=> Holds(m, G, u, x)
    BY <1>14, Zenon DEF Holds, L
  <2>3. QED
    BY <1>14, <2>1, <2>2
<1>21. ASSUME NEW x \in Addr, x # head + 1, ~Holds(m, F, u, x), ~(cur <= x /\ x < cur + n * u)
       PROVE  m2[x] = m[x]
  <2>1. x \in Nat
    BY <1>1, Layout
  <2>2. q \in G => ~(q <= x /\ x < q + L(q)) /\ 2 <= L(q) /\ L(q) \in Nat
    BY <1>4, <1>21, Zenon DEF Holds, L
  <2>3. x # q + 1
    BY <1>2, <1>9, <1>21, <2>1, <2>2
  <2>4. x # cur /\ x # cur + 1
    <3>1. ~(cur <= x /\ x < cur + K)
      BY <1>2, <1>21, <2>1
    <3>2. QED
      BY <1>1, <1>2, <2>1, <3>1
  <2>5. QED
    BY <1>3, <2>3, <2>4
<1>22. QED
  BY <1>2, <1>3, <1>19, <1>20, <1>21 DEF IsFreed

\* What is freed is in the list afterwards, and the list is as it should be.
LEMMA LiberateList ==
  ASSUME NEW m \in [Addr -> Int], NEW head \in Heads, NEW F, NEW u \in Nat \ {0}, NEW cur, NEW n,
         Freeable(m, head, F, u, cur, n)
  PROVE  \E G : IsFreed(m, Liberate(m, head, cur, n, u), head, F, G, u, cur, n * u)
<1> DEFINE q == Before(m, head, cur)
           p == m[q + 1]
           G == Rest(m, F, u, cur, n, p)
           len == Total(m, u, cur, n, p)
           nxt == Onward(m, u, cur, n, p)
           m2 == Liberate(m, head, cur, n, u)
<1>1. /\ ListOK(m, head, F, u) /\ cur \in Nat /\ InitBegin <= cur /\ n \in Nat \ {0}
      /\ n * u \in Nat \ {0} /\ Placeable(m, head, F, u, cur, n)
      /\ \A a \in F : a + Size(m, u, a) <= cur \/ cur + n * u <= a
  BY DEF Freeable, Placeable
<1>2. q \in F \cup {head} /\ q <= cur /\ \A c \in F : c <= cur => c <= q
  BY <1>1, BeforeIs
<1>3. Stored(m, m2, q, u, cur, len, nxt)
  BY <1>1, LiberateStores
<1> HIDE DEF q
<1>4. AfterB3(m, head, F, u, cur, n, q, G, len, nxt)
  BY <1>2, StepB3
<1>5. q < cur
  <2>1. q \in Nat
    BY <1>1, <1>2, NodeWords
  <2>2. q # cur
    <3>1. q = head => q < InitBegin
      BY Layout DEF Heads, pages_head, blocks_head
    <3>2. q \in F => Size(m, u, q) \in Nat /\ 2 <= Size(m, u, q)
      BY <1>1 DEF ListOK, Nodes
    <3>3. q \in F => q + Size(m, u, q) <= cur \/ cur + n * u <= q
      BY <1>1
    <3>4. InitBegin \in Nat
      BY Layout
    <3>5. QED
      BY <1>1, <1>2, <2>1, <3>1, <3>2, <3>3, <3>4
  <2>3. QED
    BY <1>1, <1>2, <2>1, <2>2
<1> HIDE DEF p, G, len, nxt, m2
<1>6. CASE q + m[q] * u = cur
  <2>1. IsFreed(m, m2, head, F, G, u, cur, n * u)
    BY <1>1, <1>3, <1>4, <1>5, <1>6, StepB4Merge
  <2>2. QED
    BY <2>1 DEF m2
<1>7. CASE q + m[q] * u # cur
  <2>1. IsFreed(m, m2, head, F, G \cup {cur}, u, cur, n * u)
    BY <1>1, <1>3, <1>4, <1>5, <1>7, StepB4New
  <2>2. QED
    BY <2>1 DEF m2
<1>8. QED
  BY <1>6, <1>7

-----------------------------------------------------------------------------
(* Taking memory out of a list.                                            *)

\* A list is untouched by what happens outside it.
LEMMA ListFrame ==
  ASSUME NEW m, NEW m2, NEW head \in Heads, NEW F, NEW u, ListOK(m, head, F, u),
         m2[head] = m[head], m2[head + 1] = m[head + 1],
         \A x \in Addr : Holds(m, F, u, x) => m2[x] = m[x]
  PROVE  ListOK(m2, head, F, u) /\ \A x : Holds(m2, F, u, x) <=> Holds(m, F, u, x)
<1>1. ASSUME NEW a \in F
      PROVE  m2[a] = m[a] /\ m2[a + 1] = m[a + 1]
  <2>1. a \in Addr /\ a + 1 \in Addr /\ a \in Nat
    BY NodeWords
  <2>2. Size(m, u, a) \in Nat /\ 2 <= Size(m, u, a)
    BY DEF ListOK, Nodes
  <2>3. a <= a /\ a < a + Size(m, u, a) /\ a <= a + 1 /\ a + 1 < a + Size(m, u, a)
    BY <2>1, <2>2
  <2>4. Holds(m, F, u, a) /\ Holds(m, F, u, a + 1)
    BY <2>3, Zenon DEF Holds
  <2>5. QED
    BY <2>1, <2>4
<1>2. \A a \in F : Size(m2, u, a) = Size(m, u, a)
  BY <1>1 DEF Size
<1>3. Nodes(m2, F, u)
  BY <1>1, <1>2, Zenon DEF ListOK, Nodes
<1>4. \A a \in F \cup {head} : IsNext(F, a, m2[a + 1])
  <2>1. \A a \in F \cup {head} : m2[a + 1] = m[a + 1]
    BY <1>1
  <2>2. QED
    BY <2>1 DEF ListOK
<1>5. ListOK(m2, head, F, u)
  BY <1>2, <1>3, <1>4, Zenon DEF ListOK
<1>6. \A x : Holds(m2, F, u, x) <=> Holds(m, F, u, x)
  BY <1>2, Zenon DEF Holds
<1>7. QED
  BY <1>5, <1>6

\* The list G of m2 is the list F of m without the N words from cur on;
\* nothing else has changed but the head.
IsTaken(m, m2, head, F, G, u, cur, N) ==
  /\ m2 \in [Addr -> Int]
  /\ ListOK(m2, head, G, u)
  /\ \A x \in Int : cur <= x /\ x < cur + N => Holds(m, F, u, x)
  /\ \A x \in Int : Holds(m2, G, u, x) <=> Holds(m, F, u, x) /\ ~(cur <= x /\ x < cur + N)
  /\ \A x \in Addr : x # head + 1 /\ ~Holds(m, F, u, x) => m2[x] = m[x]

\* The end of the node at p is taken: k units of it stay.
LEMMA TakeEnd ==
  ASSUME NEW m \in [Addr -> Int], NEW head \in Heads, NEW F, NEW u \in Nat \ {0},
         ListOK(m, head, F, u), NEW p \in F, NEW k \in Nat \ {0}, NEW n \in Nat \ {0},
         m[p] = k + n, 2 <= k * u
  PROVE  IsTaken(m, [m EXCEPT ![p] = k], head, F, F, u, p + k * u, n * u)
<1> DEFINE m2 == [m EXCEPT ![p] = k]
           L(a) == Size(m, u, a)
           K == k * u
           N == n * u
<1>1. K \in Nat /\ N \in Nat /\ L(p) = K + N
  <2>1. (k + n) * u = k * u + n * u
    OBVIOUS
  <2>2. k * u \in Nat /\ n * u \in Nat
    OBVIOUS
  <2>3. QED
    BY <2>1, <2>2 DEF Size
<1>2. \A a \in F : /\ a \in Nat /\ InitBegin <= a /\ m[a] \in Nat \ {0}
                   /\ L(a) \in Nat /\ 2 <= L(a) /\ a + L(a) <= MemoryEnd
  BY DEF ListOK, Nodes
<1>3. \A a \in F : a \in Addr /\ a + 1 \in Addr
  BY NodeWords
<1>4. /\ InitBegin \in Nat /\ MemoryEnd \in Nat
      /\ head \in Nat /\ head + 1 < InitBegin /\ head \in Addr /\ head + 1 \in Addr
  BY NodeWords, Layout DEF Heads, pages_head, blocks_head
<1>5. \A a, c \in F : a < c => a + L(a) < c
  BY DEF ListOK
<1>6. m2 \in [Addr -> Int] /\ m2[p] = k /\ \A x \in Addr : x # p => m2[x] = m[x]
  BY <1>3
<1> HIDE DEF m2, L, K, N
<1>7. \A a \in F \cup {head} : m2[a + 1] = m[a + 1]
  <2>1. ASSUME NEW a \in F
        PROVE  a + 1 # p
    <3>1. a < p => a + L(a) < p
      BY <1>5
    <3>2. QED
      BY <1>2, <3>1
  <2>2. head + 1 # p
    BY <1>2, <1>4
  <2>3. QED
    BY <1>3, <1>4, <1>6, <2>1, <2>2
<1>8. \A a \in F : a # p => m2[a] = m[a]
  BY <1>3, <1>6
<1>9. (\A a \in F : a # p => Size(m2, u, a) = L(a)) /\ Size(m2, u, p) = K
  BY <1>6, <1>8 DEF Size, L, K
<1>10. Nodes(m2, F, u)
  <2>1. ASSUME NEW a \in F
        PROVE  /\ a \in Nat /\ InitBegin <= a /\ m2[a] \in Nat \ {0}
               /\ Size(m2, u, a) \in Nat /\ 2 <= Size(m2, u, a) /\ a + Size(m2, u, a) <= MemoryEnd
    <3>1. CASE a = p
      <4>1. 2 <= K
        BY DEF K
      <4>2. QED
        BY <1>1, <1>2, <1>4, <1>6, <1>9, <3>1, <4>1
    <3>2. CASE a # p
      BY <1>2, <1>8, <1>9, <3>2
    <3>3. QED
      BY <3>1, <3>2
  <2>2. QED
    BY <2>1 DEF Nodes
<1>11. \A a, c \in F : a < c => a + Size(m2, u, a) < c
  <2>1. ASSUME NEW a \in F, NEW c \in F, a < c
        PROVE  a + Size(m2, u, a) < c
    <3>1. a + L(a) < c
      BY <1>5, <2>1
    <3>2. Size(m2, u, a) \in Nat /\ Size(m2, u, a) <= L(a)
      BY <1>1, <1>2, <1>9
    <3>3. QED
      BY <1>2, <3>1, <3>2
  <2>2. QED
    BY <2>1
<1>12. m2[head] = 0
  BY <1>2, <1>4, <1>6 DEF ListOK
<1>13. ListOK(m2, head, F, u)
  BY <1>7, <1>10, <1>11, <1>12, Zenon DEF ListOK
<1>14. ASSUME NEW x \in Int, p + K <= x, x < p + K + N
       PROVE  Holds(m, F, u, x)
  <2>1. p <= x /\ x < p + L(p)
    BY <1>1, <1>2, <1>14
  <2>2. QED
    BY <2>1, Zenon DEF Holds, L
<1>15. ASSUME NEW x \in Int
       PROVE  Holds(m2, F, u, x) <=> Holds(m, F, u, x) /\ ~(p + K <= x /\ x < p + K + N)
  <2>1. ASSUME NEW a \in F
        PROVE  a <= x /\ x < a + Size(m2, u, a)
               <=> a <= x /\ x < a + L(a) /\ ~(p + K <= x /\ x < p + K + N)
    <3>1. CASE a = p
      BY <1>1, <1>2, <1>9, <3>1
    <3>2. CASE a # p
      <4>1. (a < p => a + L(a) < p) /\ (p < a => p + L(p) < a)
        BY <1>5
      <4>2. a <= x /\ x < a + L(a) => ~(p + K <= x /\ x < p + K + N)
        BY <1>1, <1>2, <3>2, <4>1
      <4>3. QED
        BY <1>9, <3>2, <4>2
    <3>3. QED
      BY <3>1, <3>2
  <2>2. QED
    BY <2>1, Zenon DEF Holds, L
<1>16. ASSUME NEW x \in Addr, ~Holds(m, F, u, x)
       PROVE  m2[x] = m[x]
  <2>1. p <= p /\ p < p + L(p)
    BY <1>2
  <2>2. Holds(m, F, u, p)
    BY <2>1, Zenon DEF Holds, L
  <2>3. QED
    BY <1>6, <1>16, <2>2
<1>17. p + K + N = (p + K) + N
  OBVIOUS
<1>18. IsTaken(m, m2, head, F, F, u, p + K, N)
  BY <1>6, <1>13, <1>14, <1>15, <1>16 DEF IsTaken
<1>19. QED
  BY <1>18 DEF K, N, m2

\* The node at p, which is behind the one at r, is taken.
LEMMA TakeNode ==
  ASSUME NEW m \in [Addr -> Int], NEW head \in Heads, NEW F, NEW u \in Nat \ {0},
         ListOK(m, head, F, u), NEW p \in F, NEW r \in F \cup {head}, m[r + 1] = p,
         NEW m2 \in [Addr -> Int], m2[r + 1] = m[p + 1],
         \A x \in Addr : x # r + 1 /\ x # p => m2[x] = m[x]
  PROVE  IsTaken(m, m2, head, F, F \ {p}, u, p, m[p] * u)
<1> DEFINE L(a) == Size(m, u, a)
           G == F \ {p}
           nxt == m[p + 1]
<1>1. L(p) = m[p] * u
  BY DEF Size
<1>2. \A a \in F : /\ a \in Nat /\ InitBegin <= a /\ m[a] \in Nat \ {0}
                   /\ L(a) \in Nat /\ 2 <= L(a) /\ a + L(a) <= MemoryEnd
  BY DEF ListOK, Nodes
<1>3. \A a \in F : a \in Addr /\ a + 1 \in Addr
  BY NodeWords
<1>4. /\ InitBegin \in Nat /\ InitBegin > 0 /\ MemoryEnd \in Nat
      /\ head \in Nat /\ head + 1 < InitBegin /\ head \in Addr /\ head + 1 \in Addr
  BY NodeWords, Layout DEF Heads, pages_head, blocks_head
<1>5. \A a, c \in F : a < c => a + L(a) < c
  BY DEF ListOK
<1>6. \A a \in F \cup {head} : IsNext(F, a, m[a + 1])
  BY DEF ListOK
<1>7. p # 0 /\ r \in Nat
  BY <1>2, <1>4
<1>8. r < p /\ \A c \in F : r < c => p <= c
  BY <1>6, <1>7, Zenon DEF IsNext
<1>9. IsNext(F, p, nxt)
  BY <1>6
<1> HIDE DEF L, nxt
<1>10. IsNext(G, r, nxt)
  <2>1. \A c \in G : r < c => p < c
    BY <1>2, <1>8
  <2>2. CASE nxt = 0
    <3>1. \A c \in F : c <= p
      <4>1. 0 \notin F
        BY <1>2, <1>4
      <4>2. QED
        BY <1>9, <2>2, <4>1, Zenon DEF IsNext
    <3>2. \A c \in G : c <= r
      <4>1. ASSUME NEW c \in G
            PROVE  c <= r
        <5>1. c <= p /\ c \in Nat
          BY <1>2, <3>1
        <5>2. ~(p < c)
          BY <1>2, <5>1
        <5>3. QED
          BY <1>7, <2>1, <5>1, <5>2
      <4>2. QED
        BY <4>1
    <3>3. QED
      BY <2>2, <3>2 DEF IsNext
  <2>3. CASE nxt # 0
    <3>1. nxt \in F /\ p < nxt /\ \A c \in F : p < c => nxt <= c
      BY <1>9, <2>3, Zenon DEF IsNext
    <3>2. nxt \in G /\ r < nxt
      BY <1>2, <1>7, <1>8, <3>1
    <3>3. \A c \in G : r < c => nxt <= c
      BY <2>1, <3>1
    <3>4. QED
      BY <3>2, <3>3 DEF IsNext
  <2>4. QED
    BY <2>2, <2>3
<1>11. ASSUME NEW a \in G \cup {head}, a # r
       PROVE  IsNext(G, a, m[a + 1])
  <2>1. IsNext(F, a, m[a + 1]) /\ a \in Nat
    BY <1>2, <1>4, <1>6
  <2>2. m[a + 1] # p
    <3> SUFFICES ASSUME m[a + 1] = p
                 PROVE  FALSE
      OBVIOUS
    <3>1. a < p /\ \A c \in F : a < c => p <= c
      BY <1>7, <2>1, Zenon DEF IsNext
    <3>2. CASE a < r
      <4>1. r \in F
        BY <1>2, <1>4, <1>7, <3>2
      <4>2. p <= r
        BY <3>1, <3>2, <4>1
      <4>3. QED
        BY <1>2, <1>7, <1>8, <4>2
    <3>3. CASE r < a
      <4>1. a \in F
        BY <1>2, <1>4, <1>7, <3>3
      <4>2. p <= a
        BY <1>8, <3>3, <4>1
      <4>3. QED
        BY <1>2, <2>1, <3>1, <4>2
    <3>4. QED
      BY <1>7, <1>11, <2>1, <3>2, <3>3
  <2>3. QED
    BY <2>1, <2>2, Zenon DEF IsNext
<1>12. \A a \in G : m2[a] = m[a] /\ (a # r => m2[a + 1] = m[a + 1])
  <2>1. ASSUME NEW a \in G
        PROVE  m2[a] = m[a] /\ (a # r => m2[a + 1] = m[a + 1])
    <3>1. (a < p => a + L(a) < p) /\ (r \in F /\ r < a => r + L(r) < a)
      BY <1>5
    <3>2. a # p /\ a + 1 # p
      BY <1>2, <3>1
    <3>3. a # r + 1
      <4>1. CASE r = head
        BY <1>2, <1>4, <4>1
      <4>2. CASE r \in F
        BY <1>2, <3>1, <4>2
      <4>3. QED
        BY <4>1, <4>2
    <3>4. a # r => a + 1 # r + 1
      BY <1>2, <1>7
    <3>5. QED
      BY <1>3, <3>2, <3>3, <3>4
  <2>2. QED
    BY <2>1
<1>13. m2[head] = 0 /\ (head # r => m2[head + 1] = m[head + 1])
  <2>1. head # r + 1 /\ head # p /\ head + 1 # p
    BY <1>2, <1>4
  <2>2. head # r => head + 1 # r + 1
    BY <1>4, <1>7
  <2>3. m[head] = 0
    BY DEF ListOK
  <2>4. QED
    BY <1>4, <2>1, <2>2, <2>3
<1>14. \A a \in G : Size(m2, u, a) = L(a)
  BY <1>12 DEF Size, L
<1>15. Nodes(m2, G, u)
  BY <1>2, <1>12, <1>14 DEF Nodes
<1>16. \A a \in G \cup {head} : IsNext(G, a, m2[a + 1])
  <2>1. ASSUME NEW a \in G \cup {head}
        PROVE  IsNext(G, a, m2[a + 1])
    <3>1. CASE a = r
      BY <1>10, <3>1 DEF nxt
    <3>2. CASE a # r
      <4>1. m2[a + 1] = m[a + 1]
        BY <1>12, <1>13, <3>2
      <4>2. QED
        BY <1>11, <3>2, <4>1
    <3>3. QED
      BY <3>1, <3>2
  <2>2. QED
    BY <2>1
<1>17. \A a, c \in G : a < c => a + Size(m2, u, a) < c
  BY <1>5, <1>14
<1>18. ListOK(m2, head, G, u)
  BY <1>13, <1>15, <1>16, <1>17, Zenon DEF ListOK
<1>19. ASSUME NEW x \in Int, p <= x, x < p + L(p)
       PROVE  Holds(m, F, u, x)
  BY <1>19, Zenon DEF Holds, L
<1>20. ASSUME NEW x \in Int
       PROVE  Holds(m2, G, u, x) <=> Holds(m, F, u, x) /\ ~(p <= x /\ x < p + L(p))
  <2>1. ASSUME NEW a \in G, a <= x, x < a + L(a)
        PROVE  ~(p <= x /\ x < p + L(p))
    <3>1. (a < p => a + L(a) < p) /\ (p < a => p + L(p) < a) /\ a # p
      BY <1>5
    <3>2. QED
      BY <1>2, <2>1, <3>1
  <2>2. Holds(m2, G, u, x) <=> \E a \in G : a <= x /\ x < a + L(a)
    BY <1>14, Zenon DEF Holds
  <2>3. Holds(m, F, u, x) <=> (\E a \in G : a <= x /\ x < a + L(a)) \/ (p <= x /\ x < p + L(p))
    BY Zenon DEF Holds, L
  <2>4. QED
    BY <2>1, <2>2, <2>3
<1>21. ASSUME NEW x \in Addr, x # head + 1, ~Holds(m, F, u, x)
       PROVE  m2[x] = m[x]
  <2>1. ASSUME NEW a \in F
        PROVE  Holds(m, F, u, a) /\ Holds(m, F, u, a + 1)
    <3>1. a <= a /\ a < a + L(a) /\ a <= a + 1 /\ a + 1 < a + L(a)
      BY <1>2
    <3>2. QED
      BY <3>1, Zenon DEF Holds, L
  <2>2. x # p /\ x # r + 1
    BY <1>21, <2>1
  <2>3. QED
    BY <2>2
<1>22. IsTaken(m, m2, head, F, G, u, p, L(p))
  BY <1>18, <1>19, <1>20, <1>21 DEF IsTaken
<1>23. QED
  BY <1>1, <1>22

-----------------------------------------------------------------------------
(* The whole heap: two lists and the allocated blocks, apart from each     *)
(* other.                                                                  *)

\* The word x is in the block b, or its header.
InBlock(b, x) == b.at - BlockHeader <= x /\ x < b.at + b.n

\* The word x is in one of the blocks K.
Held(K, x) == \E b \in K : InBlock(b, x)

IsBlock(m, b) ==
  /\ b \in [at : Nat, n : Nat]
  /\ InitBegin <= b.at - BlockHeader /\ b.at + b.n <= MemoryEnd
  /\ m[b.at - BlockHeader] = b.n

\* The runs of free pages P, the free blocks B and the allocated blocks K have
\* the words R between them, and no word twice.
Partition(m, K, P, B, R) ==
  /\ m \in [Addr -> Int]
  /\ ListOK(m, pages_head, P, PageWords)
  /\ ListOK(m, blocks_head, B, 1)
  /\ \A b \in K : IsBlock(m, b)
  /\ \A b, c \in K : \A x \in Int : InBlock(b, x) /\ InBlock(c, x) => b = c
  /\ \A x \in Int : /\ ~(Holds(m, P, PageWords, x) /\ Holds(m, B, 1, x))
                    /\ ~(Holds(m, P, PageWords, x) /\ Held(K, x))
                    /\ ~(Holds(m, B, 1, x) /\ Held(K, x))
  /\ \A x \in Int : x \in R <=> Holds(m, P, PageWords, x) \/ Holds(m, B, 1, x) \/ Held(K, x)

LEMMA HeadsApart ==
  /\ pages_head = 1 /\ blocks_head = 3 /\ pages_head \in Heads /\ blocks_head \in Heads
  /\ 6 <= InitBegin /\ InitBegin \in Nat /\ PageWords \in Nat \ {0} /\ MemoryEnd \in Nat
  /\ 1 \in Nat \ {0}
  BY Layout DEF pages_head, blocks_head, Heads

\* Everything that is owned is behind the list heads.
LEMMA OwnedAbove ==
  ASSUME NEW m, NEW K, NEW P, NEW B, NEW R, Partition(m, K, P, B, R),
         NEW x \in Int,
         Holds(m, P, PageWords, x) \/ Holds(m, B, 1, x) \/ Held(K, x)
  PROVE  InitBegin <= x
<1>1. CASE Holds(m, P, PageWords, x)
  <2>1. PICK a \in P : a <= x
    BY <1>1 DEF Holds
  <2>2. a \in Nat /\ InitBegin <= a
    BY DEF Partition, ListOK, Nodes
  <2>3. QED
    BY <2>1, <2>2, HeadsApart
<1>2. CASE Holds(m, B, 1, x)
  <2>1. PICK a \in B : a <= x
    BY <1>2 DEF Holds
  <2>2. a \in Nat /\ InitBegin <= a
    BY DEF Partition, ListOK, Nodes
  <2>3. QED
    BY <2>1, <2>2, HeadsApart
<1>3. CASE Held(K, x)
  <2>1. PICK b \in K : b.at - BlockHeader <= x
    BY <1>3 DEF Held, InBlock
  <2>2. b.at - BlockHeader \in Int /\ InitBegin <= b.at - BlockHeader
    BY DEF Partition, IsBlock, BlockHeader
  <2>3. QED
    BY <2>1, <2>2, HeadsApart
<1>4. QED
  BY <1>1, <1>2, <1>3

\* Whatever is in the blocks K is there in m2 as in m.
Kept(m, m2, K) == \A x \in Addr : Held(K, x) => m2[x] = m[x]

\* A block's header is a word of the block.
LEMMA HeaderHeld ==
  ASSUME NEW m, NEW K, NEW b \in K, IsBlock(m, b)
  PROVE  /\ b.at - BlockHeader \in Addr /\ Held(K, b.at - BlockHeader)
         /\ b.at \in Nat /\ b.n \in Nat /\ b.at - 1 = b.at - BlockHeader
<1>1. /\ b.at \in Nat /\ b.n \in Nat /\ InitBegin <= b.at - BlockHeader
      /\ b.at + b.n <= MemoryEnd /\ BlockHeader = 1
  BY DEF IsBlock, BlockHeader
<1>2. InBlock(b, b.at - BlockHeader)
  BY <1>1 DEF InBlock
<1>3. b.at - BlockHeader \in Addr
  BY <1>1, Layout
<1>4. b.at - 1 = b.at - BlockHeader
  BY <1>1
<1>5. Held(K, b.at - BlockHeader)
  BY <1>2, Zenon DEF Held
<1>6. QED
  BY <1>1, <1>3, <1>4, <1>5, Zenon

\* The heap is as it was when nothing of it has changed.
LEMMA HeapFrame ==
  ASSUME NEW m, NEW K, NEW P, NEW B, NEW R, Partition(m, K, P, B, R), NEW m2 \in [Addr -> Int],
         \A x \in Addr : x < InitBegin \/ x \in R => m2[x] = m[x]
  PROVE  Partition(m2, K, P, B, R)
<1>1. \A x \in Int : x \in R <=> Holds(m, P, PageWords, x) \/ Holds(m, B, 1, x) \/ Held(K, x)
  BY DEF Partition
<1>2. \A x \in Addr : x \in Int
  BY Layout
<1>3. /\ m2[pages_head] = m[pages_head] /\ m2[pages_head + 1] = m[pages_head + 1]
      /\ m2[blocks_head] = m[blocks_head] /\ m2[blocks_head + 1] = m[blocks_head + 1]
  BY Layout, HeadsApart
<1>4. ListOK(m, pages_head, P, PageWords) /\ ListOK(m, blocks_head, B, 1)
  BY DEF Partition
<1>5. /\ ListOK(m2, pages_head, P, PageWords)
      /\ \A x : Holds(m2, P, PageWords, x) <=> Holds(m, P, PageWords, x)
  BY <1>1, <1>2, <1>3, <1>4, HeadsApart, ListFrame, ZenonT(40)
<1>6. /\ ListOK(m2, blocks_head, B, 1)
      /\ \A x : Holds(m2, B, 1, x) <=> Holds(m, B, 1, x)
  BY <1>1, <1>2, <1>3, <1>4, HeadsApart, ListFrame, ZenonT(40)
<1>7. ASSUME NEW b \in K
      PROVE  IsBlock(m2, b)
  <2>1. IsBlock(m, b)
    BY DEF Partition
  <2>2. m2[b.at - BlockHeader] = m[b.at - BlockHeader]
    BY <1>1, <1>2, <2>1, HeaderHeld
  <2>3. QED
    BY <2>1, <2>2 DEF IsBlock
<1>8. QED
  BY <1>5, <1>6, <1>7, Zenon DEF Partition

\* A block that is not allocated any more is nobody's.
LEMMA DropBlock ==
  ASSUME NEW m, NEW K, NEW P, NEW B, NEW R, Partition(m, K, P, B, R), NEW b \in K,
         NEW S, \A x \in Int : x \in S <=> x \in R /\ ~InBlock(b, x)
  PROVE  Partition(m, K \ {b}, P, B, S)
<1>1. \A c \in K : \A x \in Int : InBlock(b, x) /\ InBlock(c, x) => b = c
  BY DEF Partition
<1>2. ASSUME NEW x \in Int
      PROVE  Held(K \ {b}, x) <=> Held(K, x) /\ ~InBlock(b, x)
  BY <1>1, Zenon DEF Held
<1>3. ASSUME NEW x \in Int
      PROVE  /\ ~(Holds(m, P, PageWords, x) /\ Holds(m, B, 1, x))
             /\ ~(Holds(m, P, PageWords, x) /\ Held(K, x))
             /\ ~(Holds(m, B, 1, x) /\ Held(K, x))
             /\ x \in R <=> Holds(m, P, PageWords, x) \/ Holds(m, B, 1, x) \/ Held(K, x)
  BY DEF Partition
<1>4. ASSUME NEW x \in Int
      PROVE  InBlock(b, x) => Held(K, x)
  BY Zenon DEF Held
<1>5. \A x \in Int : x \in S <=> Holds(m, P, PageWords, x) \/ Holds(m, B, 1, x) \/ Held(K \ {b}, x)
  BY <1>2, <1>3, <1>4
<1>6. QED
  BY <1>2, <1>3, <1>5, Zenon DEF Partition

\* The list of free blocks does not have memory that is nobody's.
LEMMA PlaceInHeap ==
  ASSUME NEW m, NEW K, NEW P, NEW B, NEW R, Partition(m, K, P, B, R),
         NEW cur \in Nat, NEW n \in Nat \ {0}, InitBegin <= cur, cur + n <= MemoryEnd,
         \A x \in Int : cur <= x /\ x < cur + n => x \notin R
  PROVE  Placeable(m, blocks_head, B, 1, cur, n)
<1>1. ListOK(m, blocks_head, B, 1)
  BY DEF Partition
<1>2. n * 1 = n
  OBVIOUS
<1>3. ASSUME NEW a \in B
      PROVE  a + Size(m, 1, a) <= cur \/ cur + n * 1 <= a
  <2> DEFINE N == Size(m, 1, a)
             x == IF a <= cur THEN cur ELSE a
  <2>1. a \in Nat /\ N \in Nat /\ 2 <= N
    BY <1>1 DEF ListOK, Nodes
  <2> HIDE DEF N
  <2>2. x \in Int /\ a <= x /\ cur <= x /\ (x < cur + n \/ cur + n <= a) /\ (x < a + N \/ a + N <= cur)
    BY <2>1
  <2> HIDE DEF x
  <2>3. cur <= x /\ x < cur + n => ~Holds(m, B, 1, x)
    BY <2>2 DEF Partition
  <2>4. a <= x /\ x < a + N => Holds(m, B, 1, x)
    BY Zenon DEF Holds, N
  <2>5. QED
    BY <1>2, <2>2, <2>3, <2>4 DEF N
<1>4. QED
  BY <1>1, <1>2, <1>3 DEF Placeable

\* Memory that is nobody's is put into the list of free blocks.
LEMMA FreeToHeap ==
  ASSUME NEW m, NEW K, NEW P, NEW B, NEW R, Partition(m, K, P, B, R),
         NEW cur \in Nat, NEW n \in Nat \ {0}, 2 <= n \/ cur + n \in B,
         InitBegin <= cur, cur + n <= MemoryEnd,
         \A x \in Int : cur <= x /\ x < cur + n => x \notin R,
         NEW S, \A x \in Int : x \in S <=> x \in R \/ (cur <= x /\ x < cur + n)
  PROVE  /\ \E C : Partition(Liberate(m, blocks_head, cur, n, 1), K, P, C, S)
         /\ Kept(m, Liberate(m, blocks_head, cur, n, 1), K)
<1> DEFINE m2 == Liberate(m, blocks_head, cur, n, 1)
<1>1. /\ m \in [Addr -> Int]
      /\ ListOK(m, pages_head, P, PageWords) /\ ListOK(m, blocks_head, B, 1)
      /\ \A b \in K : IsBlock(m, b)
      /\ \A b, c \in K : \A x \in Int : InBlock(b, x) /\ InBlock(c, x) => b = c
  BY DEF Partition
<1>2. ASSUME NEW x \in Int
      PROVE  /\ ~(Holds(m, P, PageWords, x) /\ Holds(m, B, 1, x))
             /\ ~(Holds(m, P, PageWords, x) /\ Held(K, x))
             /\ ~(Holds(m, B, 1, x) /\ Held(K, x))
             /\ x \in R <=> Holds(m, P, PageWords, x) \/ Holds(m, B, 1, x) \/ Held(K, x)
  BY DEF Partition
<1>3. n * 1 = n /\ n \in Nat \ {0}
  OBVIOUS
<1>4. Freeable(m, blocks_head, B, 1, cur, n)
  BY <1>3, PlaceInHeap DEF Freeable
<1>5. PICK C : IsFreed(m, m2, blocks_head, B, C, 1, cur, n * 1)
  BY <1>1, <1>4, HeadsApart, LiberateList
<1> HIDE DEF m2
<1>6. /\ m2 \in [Addr -> Int] /\ ListOK(m2, blocks_head, C, 1)
      /\ \A x \in Int : Holds(m2, C, 1, x) <=> Holds(m, B, 1, x) \/ (cur <= x /\ x < cur + n)
      /\ \A x \in Addr : x # blocks_head + 1 /\ ~Holds(m, B, 1, x) /\ ~(cur <= x /\ x < cur + n)
                         => m2[x] = m[x]
  BY <1>3, <1>5, Zenon DEF IsFreed
<1>7. \A x \in Addr : x \in Int
  BY Layout
<1>8. \A x \in Addr : Holds(m, P, PageWords, x) \/ Held(K, x) => m2[x] = m[x]
  <2>1. ASSUME NEW x \in Addr, Holds(m, P, PageWords, x) \/ Held(K, x)
        PROVE  m2[x] = m[x]
    <3>1. InitBegin <= x /\ x \in R /\ ~Holds(m, B, 1, x)
      BY <1>2, <1>7, <2>1, OwnedAbove
    <3>2. x # blocks_head + 1 /\ ~(cur <= x /\ x < cur + n)
      BY <1>7, <3>1, HeadsApart
    <3>3. QED
      BY <1>6, <3>1, <3>2
  <2>2. QED
    BY <2>1
<1>9. m2[pages_head] = m[pages_head] /\ m2[pages_head + 1] = m[pages_head + 1]
  <2>1. ASSUME NEW x \in {1, 2}
        PROVE  m2[x] = m[x]
    <3>1. x \in Addr /\ x < InitBegin /\ x \in Int /\ x # blocks_head + 1
      BY Layout, HeadsApart
    <3>2. ~Holds(m, B, 1, x) /\ ~(cur <= x /\ x < cur + n)
      BY <3>1, OwnedAbove, HeadsApart
    <3>3. QED
      BY <1>6, <3>1, <3>2
  <2>2. QED
    BY <2>1, HeadsApart
<1>10. /\ ListOK(m2, pages_head, P, PageWords)
       /\ \A x : Holds(m2, P, PageWords, x) <=> Holds(m, P, PageWords, x)
  BY <1>1, <1>8, <1>9, HeadsApart, ListFrame
<1>11. ASSUME NEW b \in K
       PROVE  IsBlock(m2, b)
  <2>1. IsBlock(m, b)
    BY <1>1
  <2>2. m2[b.at - BlockHeader] = m[b.at - BlockHeader]
    BY <1>8, <2>1, HeaderHeld
  <2>3. QED
    BY <2>1, <2>2 DEF IsBlock
<1>12. ASSUME NEW x \in Int
       PROVE  /\ ~(Holds(m2, P, PageWords, x) /\ Holds(m2, C, 1, x))
              /\ ~(Holds(m2, P, PageWords, x) /\ Held(K, x))
              /\ ~(Holds(m2, C, 1, x) /\ Held(K, x))
              /\ x \in S <=> Holds(m2, P, PageWords, x) \/ Holds(m2, C, 1, x) \/ Held(K, x)
  <2>1. Holds(m2, C, 1, x) <=> Holds(m, B, 1, x) \/ (cur <= x /\ x < cur + n)
    BY <1>6
  <2>2. Holds(m2, P, PageWords, x) <=> Holds(m, P, PageWords, x)
    BY <1>10
  <2>3. x \in S <=> x \in R \/ (cur <= x /\ x < cur + n)
    OBVIOUS
  <2>4. cur <= x /\ x < cur + n => x \notin R
    OBVIOUS
  <2>5. QED
    BY <1>2, <2>1, <2>2, <2>3, <2>4, Zenon
<1>13. Partition(m2, K, P, C, S)
  BY <1>1, <1>6, <1>10, <1>11, <1>12, Zenon DEF Partition
<1>14. Kept(m, m2, K)
  BY <1>8 DEF Kept
<1>15. QED
  BY <1>13, <1>14 DEF m2

\* The pages that are taken are nobody's then.
LEMMA PagesFromHeap ==
  ASSUME NEW m, NEW K, NEW P, NEW B, NEW R, Partition(m, K, P, B, R),
         NEW m2, NEW Q, NEW cur, NEW N, IsTaken(m, m2, pages_head, P, Q, PageWords, cur, N),
         NEW S, \A x \in Int : x \in S <=> x \in R /\ ~(cur <= x /\ x < cur + N)
  PROVE  Partition(m2, K, Q, B, S) /\ Kept(m, m2, K)
<1>1. /\ m \in [Addr -> Int]
      /\ ListOK(m, pages_head, P, PageWords) /\ ListOK(m, blocks_head, B, 1)
      /\ \A b \in K : IsBlock(m, b)
      /\ \A b, c \in K : \A x \in Int : InBlock(b, x) /\ InBlock(c, x) => b = c
  BY DEF Partition
<1>2. ASSUME NEW x \in Int
      PROVE  /\ ~(Holds(m, P, PageWords, x) /\ Holds(m, B, 1, x))
             /\ ~(Holds(m, P, PageWords, x) /\ Held(K, x))
             /\ ~(Holds(m, B, 1, x) /\ Held(K, x))
             /\ x \in R <=> Holds(m, P, PageWords, x) \/ Holds(m, B, 1, x) \/ Held(K, x)
  BY DEF Partition
<1>3. /\ m2 \in [Addr -> Int] /\ ListOK(m2, pages_head, Q, PageWords)
      /\ \A x \in Int : cur <= x /\ x < cur + N => Holds(m, P, PageWords, x)
      /\ \A x \in Int : Holds(m2, Q, PageWords, x)
                        <=> Holds(m, P, PageWords, x) /\ ~(cur <= x /\ x < cur + N)
      /\ \A x \in Addr : x # pages_head + 1 /\ ~Holds(m, P, PageWords, x) => m2[x] = m[x]
  BY Zenon DEF IsTaken
<1>4. \A x \in Addr : x \in Int
  BY Layout
<1>5. \A x \in Addr : Holds(m, B, 1, x) \/ Held(K, x) => m2[x] = m[x]
  <2>1. ASSUME NEW x \in Addr, Holds(m, B, 1, x) \/ Held(K, x)
        PROVE  m2[x] = m[x]
    <3>1. InitBegin <= x /\ ~Holds(m, P, PageWords, x)
      BY <1>2, <1>4, <2>1, OwnedAbove
    <3>2. x # pages_head + 1
      BY <3>1, HeadsApart
    <3>3. QED
      BY <1>3, <3>1, <3>2
  <2>2. QED
    BY <2>1
<1>6. m2[blocks_head] = m[blocks_head] /\ m2[blocks_head + 1] = m[blocks_head + 1]
  <2>1. ASSUME NEW x \in {3, 4}
        PROVE  m2[x] = m[x]
    <3>1. x \in Addr /\ x < InitBegin /\ x \in Int /\ x # pages_head + 1
      BY Layout, HeadsApart
    <3>2. ~Holds(m, P, PageWords, x)
      BY <3>1, OwnedAbove, HeadsApart
    <3>3. QED
      BY <1>3, <3>1, <3>2
  <2>2. QED
    BY <2>1, HeadsApart
<1>7. /\ ListOK(m2, blocks_head, B, 1)
      /\ \A x : Holds(m2, B, 1, x) <=> Holds(m, B, 1, x)
  BY <1>1, <1>5, <1>6, HeadsApart, ListFrame
<1>8. ASSUME NEW b \in K
      PROVE  IsBlock(m2, b)
  <2>1. IsBlock(m, b)
    BY <1>1
  <2>2. m2[b.at - BlockHeader] = m[b.at - BlockHeader]
    BY <1>5, <2>1, HeaderHeld
  <2>3. QED
    BY <2>1, <2>2 DEF IsBlock
<1>9. ASSUME NEW x \in Int
      PROVE  /\ ~(Holds(m2, Q, PageWords, x) /\ Holds(m2, B, 1, x))
             /\ ~(Holds(m2, Q, PageWords, x) /\ Held(K, x))
             /\ ~(Holds(m2, B, 1, x) /\ Held(K, x))
             /\ x \in S <=> Holds(m2, Q, PageWords, x) \/ Holds(m2, B, 1, x) \/ Held(K, x)
  <2>1. Holds(m2, Q, PageWords, x)
        <=> Holds(m, P, PageWords, x) /\ ~(cur <= x /\ x < cur + N)
    BY <1>3
  <2>2. Holds(m2, B, 1, x) <=> Holds(m, B, 1, x)
    BY <1>7
  <2>3. x \in S <=> x \in R /\ ~(cur <= x /\ x < cur + N)
    OBVIOUS
  <2>4. cur <= x /\ x < cur + N => Holds(m, P, PageWords, x)
    BY <1>3
  <2>5. QED
    BY <1>2, <2>1, <2>2, <2>3, <2>4, Zenon
<1>10. Kept(m, m2, K)
  BY <1>5 DEF Kept
<1>11. QED
  BY <1>1, <1>3, <1>7, <1>8, <1>9, <1>10, Zenon DEF Partition

\* kalloc takes a run of pages that is long enough.
LEMMA PageTakenIs ==
  ASSUME NEW m \in [Addr -> Int], NEW P, ListOK(m, pages_head, P, PageWords),
         NEW count \in Nat \ {0}, NEW i, i = FirstFit(m, List(m, pages_head), count), i # 0
  PROVE  LET s   == List(m, pages_head)
             m1  == PageTaken(m, i, count)
             cur == s[i] + m1[s[i]] * PageWords
         IN  /\ cur \in Nat /\ InitBegin <= cur /\ s[i] \in P /\ m1[s[i]] \in Nat
             /\ \E Q \in SUBSET P :
                  IsTaken(m, m1, pages_head, P, Q, PageWords, cur, count * PageWords)
<1> DEFINE s == List(m, pages_head)
           p == s[i]
           r == Pred(pages_head, s, i)
           m3 == [m EXCEPT ![p] = @ - count]
           m4 == [m3 EXCEPT ![r + 1] = m3[p + 1]]
           k == m[p] - count
           m1 == PageTaken(m, i, count)
<1>1. Enumerates(m, pages_head, P, s)
  BY HeadsApart, ListNodes
<1>2. m1 = IF m3[p] = 0 THEN m4 ELSE m3
  BY Zenon DEF PageTaken
<1> HIDE DEF s, m1
<1>3. s \in Seq(P) /\ \A j \in 1..Len(s) : m[Pred(pages_head, s, j) + 1] = s[j]
  BY <1>1 DEF Enumerates
<1>4. i \in 1..Len(s) /\ m[p] >= count
  BY <1>3, FirstFitFits DEF s
<1>5. p \in P /\ m[r + 1] = p
  BY <1>3, <1>4
<1>6. r \in P \cup {pages_head}
  <2>1. i # 1 => i - 1 \in 1..Len(s)
    BY <1>4
  <2>2. QED
    BY <1>3, <2>1 DEF Pred
<1> HIDE DEF p, r
<1>7. /\ p \in Addr /\ p + 1 \in Addr /\ p \in Nat /\ InitBegin <= p
      /\ r \in Addr /\ r + 1 \in Addr /\ r \in Nat
  <2>1. pages_head \in Heads /\ p \in P \cup {pages_head}
    BY <1>5, HeadsApart
  <2>2. /\ p \in Addr /\ p + 1 \in Addr /\ p \in Nat
        /\ r \in Addr /\ r + 1 \in Addr /\ r \in Nat
    BY <1>6, <2>1, NodeWords
  <2>3. InitBegin <= p
    BY <1>5 DEF ListOK, Nodes
  <2>4. QED
    BY <2>2, <2>3
<1>8. m[p] \in Nat \ {0} /\ k \in Nat /\ k + count = m[p] /\ PageWords \in Nat \ {0}
  <2>1. m[p] \in Nat \ {0}
    BY <1>5 DEF ListOK, Nodes
  <2>2. QED
    BY <1>4, <2>1, HeadsApart
<1>9. m3 = [m EXCEPT ![p] = k]
  OBVIOUS
<1> HIDE DEF m3, k
<1>10. m3 \in [Addr -> Int] /\ m3[p] = k /\ \A x \in Addr : x # p => m3[x] = m[x]
  BY <1>7, <1>8, <1>9
<1>11. CASE k # 0
  <2>1. m1 = m3 /\ k \in Nat \ {0}
    BY <1>2, <1>8, <1>10, <1>11
  <2>2. 2 <= k * PageWords /\ k * PageWords \in Nat
    <3>1. PageWords > 5 /\ k * PageWords >= PageWords
      BY <1>8, <2>1, Layout
    <3>2. k * PageWords \in Nat
      BY <1>8
    <3>3. QED
      BY <1>8, <3>1, <3>2
  <2>3. m[p] = k + count
    BY <1>8
  <2>4. IsTaken(m, m3, pages_head, P, P, PageWords, p + k * PageWords, count * PageWords)
    BY <1>5, <1>8, <1>9, <2>1, <2>2, <2>3, HeadsApart, TakeEnd
  <2>5. p + k * PageWords \in Nat /\ InitBegin <= p + k * PageWords
    BY <1>7, <2>2, HeadsApart
  <2>6. P \in SUBSET P
    OBVIOUS
  <2>7. QED
    BY <1>5, <1>8, <1>10, <2>1, <2>4, <2>5, <2>6, Zenon DEF m1, p, s
<1>12. CASE k = 0
  <2>1. m1 = m4
    BY <1>2, <1>10, <1>12
  <2>2. r + 1 # p
    <3>1. CASE r = pages_head
      BY <1>7, <3>1, HeadsApart
    <3>2. CASE r \in P
      <4>1. IsNext(P, r, p) /\ p # 0
        BY <1>5, <1>7, <3>2, HeadsApart DEF ListOK
      <4>2. r < p
        BY <4>1 DEF IsNext
      <4>3. r + Size(m, PageWords, r) < p /\ Size(m, PageWords, r) \in Nat /\ 2 <= Size(m, PageWords, r)
        BY <1>5, <3>2, <4>2 DEF ListOK, Nodes
      <4>4. QED
        BY <1>7, <4>3
    <3>3. QED
      BY <1>6, <3>1, <3>2
  <2>3. m3[p + 1] = m[p + 1] /\ m[p + 1] \in Int
    BY <1>7, <1>10
  <2>4. /\ m4 \in [Addr -> Int] /\ m4[r + 1] = m[p + 1]
        /\ \A x \in Addr : x # r + 1 => m4[x] = m3[x]
    BY <1>7, <1>10, <2>3
  <2> HIDE DEF m4
  <2>5. \A x \in Addr : x # r + 1 /\ x # p => m4[x] = m[x]
    BY <1>10, <2>4
  <2>6. IsTaken(m, m4, pages_head, P, P \ {p}, PageWords, p, m[p] * PageWords)
    BY <1>5, <1>6, <2>4, <2>5, HeadsApart, TakeNode, ZenonT(40)
  <2>7. m4[p] = 0 /\ m[p] = count
    BY <1>7, <1>8, <1>10, <1>12, <2>2, <2>4
  <2>8. p + m4[p] * PageWords = p
    BY <1>7, <2>7, HeadsApart
  <2>9. P \ {p} \in SUBSET P
    OBVIOUS
  <2>10. m4[p] \in Nat
    BY <2>7
  <2>11. QED
    BY <1>5, <1>7, <2>1, <2>6, <2>7, <2>8, <2>9, <2>10, Zenon DEF m1, p, s
<1>13. QED
  BY <1>11, <1>12

\* KallocGrow keeps the heap: the pages become a free block.
LEMMA GrowHeap ==
  ASSUME NEW m, NEW K, NEW P, NEW B, NEW R, Partition(m, K, P, B, R),
         NEW count \in Nat \ {0}, NEW i, i = FirstFit(m, List(m, pages_head), count), i # 0
  PROVE  LET s  == List(m, pages_head)
             m1 == PageTaken(m, i, count)
             m2 == Liberate(m1, blocks_head, s[i] + m1[s[i]] * PageWords, count * PageWords, 1)
         IN  /\ s[i] \in P /\ m1[s[i]] \in Nat /\ s[i] + m1[s[i]] * PageWords < MemoryEnd
             /\ \E Q \in SUBSET P : \E C : Partition(m2, K, Q, C, R)
             /\ Kept(m, m2, K)
<1> DEFINE s   == List(m, pages_head)
           m1  == PageTaken(m, i, count)
           cur == s[i] + m1[s[i]] * PageWords
           N   == count * PageWords
           S   == {x \in R : ~(x \in Int /\ cur <= x /\ x < cur + N)}
<1>1. /\ m \in [Addr -> Int] /\ ListOK(m, pages_head, P, PageWords)
      /\ \A x \in Int : x \in R <=> Holds(m, P, PageWords, x) \/ Holds(m, B, 1, x) \/ Held(K, x)
  BY DEF Partition
<1>2. /\ cur \in Nat /\ InitBegin <= cur
      /\ s[i] \in P /\ m1[s[i]] \in Nat
      /\ \E Q \in SUBSET P : IsTaken(m, m1, pages_head, P, Q, PageWords, cur, N)
  BY <1>1, PageTakenIs, Zenon
<1> HIDE DEF s, m1, cur
<1>3. PICK Q \in SUBSET P : IsTaken(m, m1, pages_head, P, Q, PageWords, cur, N)
  BY <1>2
<1>4. N \in Nat \ {0} /\ 2 <= N
  <2>1. PageWords > 5 /\ count * PageWords >= PageWords /\ PageWords \in Nat
    BY HeadsApart, Layout
  <2>2. QED
    BY <2>1
<1> HIDE DEF N
<1>5. \A x \in Int : cur <= x /\ x < cur + N => Holds(m, P, PageWords, x)
  BY <1>3 DEF IsTaken
<1>6. cur + N <= MemoryEnd
  <2>1. Holds(m, P, PageWords, cur + N - 1)
    BY <1>2, <1>4, <1>5
  <2>2. PICK a \in P : cur + N - 1 < a + Size(m, PageWords, a)
    BY <2>1 DEF Holds
  <2>3. a \in Nat /\ Size(m, PageWords, a) \in Nat /\ a + Size(m, PageWords, a) <= MemoryEnd
    BY <1>1 DEF ListOK, Nodes
  <2>4. QED
    BY <1>2, <1>4, <2>2, <2>3, HeadsApart
<1>7. \A x \in Int : x \in S <=> x \in R /\ ~(cur <= x /\ x < cur + N)
  OBVIOUS
<1>8. \A x \in Int : cur <= x /\ x < cur + N => x \notin S
  BY <1>7
<1>9. \A x \in Int : x \in R <=> x \in S \/ (cur <= x /\ x < cur + N)
  BY <1>1, <1>5, <1>7
<1> HIDE DEF S
<1>10. Partition(m1, K, Q, B, S) /\ Kept(m, m1, K)
  BY <1>3, <1>7, PagesFromHeap
<1> DEFINE m2 == Liberate(m1, blocks_head, cur, N, 1)
<1>11. (\E C : Partition(m2, K, Q, C, R)) /\ Kept(m1, m2, K)
  BY <1>2, <1>4, <1>6, <1>8, <1>9, <1>10, FreeToHeap
<1> HIDE DEF m2
<1>12. Kept(m, m2, K)
  BY <1>10, <1>11 DEF Kept
<1>13. cur < MemoryEnd
  BY <1>2, <1>4, <1>6, HeadsApart
<1>14. QED
  BY <1>2, <1>3, <1>11, <1>12, <1>13, Zenon DEF m2, cur, N, s, m1

\* The end of a free block that is taken is nobody's then.
LEMMA BlockFromHeap ==
  ASSUME NEW m, NEW K, NEW P, NEW B, NEW R, Partition(m, K, P, B, R),
         NEW m2, NEW C, NEW cur, NEW N, IsTaken(m, m2, blocks_head, B, C, 1, cur, N),
         NEW S, \A x \in Int : x \in S <=> x \in R /\ ~(cur <= x /\ x < cur + N)
  PROVE  Partition(m2, K, P, C, S) /\ Kept(m, m2, K)
<1>1. /\ m \in [Addr -> Int]
      /\ ListOK(m, pages_head, P, PageWords) /\ ListOK(m, blocks_head, B, 1)
      /\ \A b \in K : IsBlock(m, b)
      /\ \A b, c \in K : \A x \in Int : InBlock(b, x) /\ InBlock(c, x) => b = c
  BY DEF Partition
<1>2. ASSUME NEW x \in Int
      PROVE  /\ ~(Holds(m, P, PageWords, x) /\ Holds(m, B, 1, x))
             /\ ~(Holds(m, P, PageWords, x) /\ Held(K, x))
             /\ ~(Holds(m, B, 1, x) /\ Held(K, x))
             /\ x \in R <=> Holds(m, P, PageWords, x) \/ Holds(m, B, 1, x) \/ Held(K, x)
  BY DEF Partition
<1>3. /\ m2 \in [Addr -> Int] /\ ListOK(m2, blocks_head, C, 1)
      /\ \A x \in Int : cur <= x /\ x < cur + N => Holds(m, B, 1, x)
      /\ \A x \in Int : Holds(m2, C, 1, x)
                        <=> Holds(m, B, 1, x) /\ ~(cur <= x /\ x < cur + N)
      /\ \A x \in Addr : x # blocks_head + 1 /\ ~Holds(m, B, 1, x) => m2[x] = m[x]
  BY Zenon DEF IsTaken
<1>4. \A x \in Addr : x \in Int
  BY Layout
<1>5. \A x \in Addr : Holds(m, P, PageWords, x) \/ Held(K, x) => m2[x] = m[x]
  <2>1. ASSUME NEW x \in Addr, Holds(m, P, PageWords, x) \/ Held(K, x)
        PROVE  m2[x] = m[x]
    <3>1. InitBegin <= x /\ ~Holds(m, B, 1, x)
      BY <1>2, <1>4, <2>1, OwnedAbove
    <3>2. x # blocks_head + 1
      BY <3>1, HeadsApart
    <3>3. QED
      BY <1>3, <3>1, <3>2
  <2>2. QED
    BY <2>1
<1>6. m2[pages_head] = m[pages_head] /\ m2[pages_head + 1] = m[pages_head + 1]
  <2>1. ASSUME NEW x \in {1, 2}
        PROVE  m2[x] = m[x]
    <3>1. x \in Addr /\ x < InitBegin /\ x \in Int /\ x # blocks_head + 1
      BY Layout, HeadsApart
    <3>2. ~Holds(m, B, 1, x)
      BY <3>1, OwnedAbove, HeadsApart
    <3>3. QED
      BY <1>3, <3>1, <3>2
  <2>2. QED
    BY <2>1, HeadsApart
<1>7. /\ ListOK(m2, pages_head, P, PageWords)
      /\ \A x : Holds(m2, P, PageWords, x) <=> Holds(m, P, PageWords, x)
  BY <1>1, <1>5, <1>6, HeadsApart, ListFrame
<1>8. ASSUME NEW b \in K
      PROVE  IsBlock(m2, b)
  <2>1. IsBlock(m, b)
    BY <1>1
  <2>2. m2[b.at - BlockHeader] = m[b.at - BlockHeader]
    BY <1>5, <2>1, HeaderHeld
  <2>3. QED
    BY <2>1, <2>2 DEF IsBlock
<1>9. ASSUME NEW x \in Int
      PROVE  /\ ~(Holds(m2, C, 1, x) /\ Holds(m2, P, PageWords, x))
             /\ ~(Holds(m2, C, 1, x) /\ Held(K, x))
             /\ ~(Holds(m2, P, PageWords, x) /\ Held(K, x))
             /\ x \in S <=> Holds(m2, C, 1, x) \/ Holds(m2, P, PageWords, x) \/ Held(K, x)
  <2>1. Holds(m2, C, 1, x)
        <=> Holds(m, B, 1, x) /\ ~(cur <= x /\ x < cur + N)
    BY <1>3
  <2>2. Holds(m2, P, PageWords, x) <=> Holds(m, P, PageWords, x)
    BY <1>7
  <2>3. x \in S <=> x \in R /\ ~(cur <= x /\ x < cur + N)
    OBVIOUS
  <2>4. cur <= x /\ x < cur + N => Holds(m, B, 1, x)
    BY <1>3
  <2>5. QED
    BY <1>2, <2>1, <2>2, <2>3, <2>4, Zenon
<1>10. Kept(m, m2, K)
  BY <1>5 DEF Kept
<1>11. QED
  BY <1>1, <1>3, <1>7, <1>8, <1>9, <1>10, Zenon DEF Partition

\* Memory that is nobody's becomes an allocated block.
LEMMA AddBlock ==
  ASSUME NEW m, NEW K, NEW P, NEW B, NEW R, Partition(m, K, P, B, R), NEW b, IsBlock(m, b),
         \A x \in Int : InBlock(b, x) => x \notin R,
         NEW S, \A x \in Int : x \in S <=> x \in R \/ InBlock(b, x)
  PROVE  Partition(m, K \cup {b}, P, B, S)
<1>1. ASSUME NEW x \in Int
      PROVE  /\ ~(Holds(m, P, PageWords, x) /\ Holds(m, B, 1, x))
             /\ ~(Holds(m, P, PageWords, x) /\ Held(K, x))
             /\ ~(Holds(m, B, 1, x) /\ Held(K, x))
             /\ x \in R <=> Holds(m, P, PageWords, x) \/ Holds(m, B, 1, x) \/ Held(K, x)
  BY DEF Partition
<1>2. \A x \in Int : Held(K \cup {b}, x) <=> Held(K, x) \/ InBlock(b, x)
  BY Zenon DEF Held
<1>3. ASSUME NEW c \in K \cup {b}, NEW d \in K \cup {b}, NEW x \in Int, InBlock(c, x), InBlock(d, x)
      PROVE  c = d
  <2>1. c \in K /\ d \in K => c = d
    BY <1>3, Zenon DEF Partition
  <2>2. ASSUME NEW e \in K, InBlock(e, x)
        PROVE  ~InBlock(b, x)
    <3>1. Held(K, x)
      BY <2>2, Zenon DEF Held
    <3>2. QED
      BY <1>1, <3>1
  <2>3. QED
    BY <1>3, <2>1, <2>2
<1>4. \A c \in K \cup {b} : IsBlock(m, c)
  BY DEF Partition
<1>5. ASSUME NEW x \in Int
      PROVE  /\ ~(Holds(m, P, PageWords, x) /\ Holds(m, B, 1, x))
             /\ ~(Holds(m, P, PageWords, x) /\ Held(K \cup {b}, x))
             /\ ~(Holds(m, B, 1, x) /\ Held(K \cup {b}, x))
             /\ x \in S <=> Holds(m, P, PageWords, x) \/ Holds(m, B, 1, x) \/ Held(K \cup {b}, x)
  BY <1>1, <1>2
<1>6. QED
  BY <1>3, <1>4, <1>5, Zenon DEF Partition

\* KallocTake keeps the heap: the end of a free block becomes an allocated one
\* of w words.
LEMMA TakeHeap ==
  ASSUME NEW m, NEW K, NEW P, NEW B, NEW R, Partition(m, K, P, B, R),
         NEW p \in B, NEW w \in Nat, NEW k \in Nat, 2 <= k, m[p] = k + (w + 1)
  PROVE  LET m2 == [[m EXCEPT ![p] = k] EXCEPT ![p + k] = w]
         IN  /\ Partition(m2, K \cup {[at |-> p + k + 1, n |-> w]}, P, B, R)
             /\ Kept(m, m2, K)
<1> DEFINE m1 == [m EXCEPT ![p] = k]
           m2 == [m1 EXCEPT ![p + k] = w]
           b  == [at |-> p + k + 1, n |-> w]
           n  == w + 1
           S  == {x \in R : ~(x \in Int /\ p + k <= x /\ x < p + k + n)}
<1>1. /\ m \in [Addr -> Int] /\ ListOK(m, blocks_head, B, 1)
      /\ \A x \in Int : x \in R <=> Holds(m, P, PageWords, x) \/ Holds(m, B, 1, x) \/ Held(K, x)
  BY DEF Partition
<1>2. n \in Nat \ {0} /\ k \in Nat \ {0} /\ k * 1 = k /\ n * 1 = n /\ m[p] = k + n
  OBVIOUS
<1> HIDE DEF n
<1>3. IsTaken(m, m1, blocks_head, B, B, 1, p + k, n)
  <2>1. IsTaken(m, [m EXCEPT ![p] = k], blocks_head, B, B, 1, p + k * 1, n * 1)
    BY <1>1, <1>2, HeadsApart, TakeEnd
  <2>2. QED
    BY <1>2, <2>1
<1>4. m1 \in [Addr -> Int] /\ \A x \in Int : p + k <= x /\ x < p + k + n => Holds(m, B, 1, x)
  BY <1>3 DEF IsTaken
<1>5. p \in Nat /\ InitBegin <= p /\ p + k + n <= MemoryEnd /\ p + k \in Addr
  <2>1. p \in Nat /\ InitBegin <= p /\ p + Size(m, 1, p) <= MemoryEnd
    BY <1>1 DEF ListOK, Nodes
  <2>2. Size(m, 1, p) = k + n
    BY <1>2 DEF Size
  <2>3. QED
    BY <1>2, <2>1, <2>2, HeadsApart, Layout
<1> HIDE DEF m1
<1>6. m2 \in [Addr -> Int] /\ m2[p + k] = w /\ \A x \in Addr : x # p + k => m2[x] = m1[x]
  BY <1>4, <1>5
<1>7. b.at = p + k + 1 /\ b.n = w /\ b.at \in Nat /\ b.at - BlockHeader = p + k
      /\ b \in [at : Nat, n : Nat] /\ b.at + b.n = p + k + n
  BY <1>2, <1>5 DEF BlockHeader, n
<1> HIDE DEF m2, b
<1>8. \A x \in Int : x \in S <=> x \in R /\ ~(p + k <= x /\ x < p + k + n)
  OBVIOUS
<1>9. \A x \in Int : InBlock(b, x) <=> p + k <= x /\ x < p + k + n
  BY <1>7 DEF InBlock
<1>10. \A x \in Int : InBlock(b, x) => x \notin S
  BY <1>8, <1>9
<1>11. \A x \in Int : x \in R <=> x \in S \/ InBlock(b, x)
  BY <1>1, <1>4, <1>8, <1>9
<1>12. p + k \notin S /\ ~(p + k < InitBegin)
  BY <1>2, <1>5, <1>8, HeadsApart
<1> HIDE DEF S
<1>13. Partition(m1, K, P, B, S) /\ Kept(m, m1, K)
  BY <1>3, <1>8, BlockFromHeap
<1>14. Partition(m2, K, P, B, S)
  <2>1. \A x \in Addr : x < InitBegin \/ x \in S => m2[x] = m1[x]
    BY <1>6, <1>12
  <2>2. QED
    BY <1>6, <1>13, <2>1, HeapFrame
<1>15. IsBlock(m2, b)
  <2>1. InitBegin <= p + k
    BY <1>2, <1>5, HeadsApart
  <2>2. QED
    BY <1>5, <1>6, <1>7, <2>1, Zenon DEF IsBlock
<1>16. Partition(m2, K \cup {b}, P, B, R)
  BY <1>10, <1>11, <1>14, <1>15, AddBlock
<1>17. Kept(m, m2, K)
  <2>1. p + k \in Int /\ ~Held(K, p + k)
    BY <1>5, <1>12, <1>13 DEF Partition
  <2>2. QED
    BY <1>6, <1>13, <2>1 DEF Kept
<1>18. QED
  BY <1>16, <1>17 DEF m1, m2, b

-----------------------------------------------------------------------------
(* The invariant.                                                          *)

\* The words that have an owner.
Ram(f) == MemoryStart..(MemoryEnd - 1) \cup (IF f THEN Words(InitBegin, InitWords) ELSE {})

TypeOK ==
  /\ want \in Sizes \cup {Nothing}
  /\ init_free \in BOOLEAN /\ released \in BOOLEAN /\ panicked \in BOOLEAN
  /\ clobbered \in Nat /\ IsFiniteSet(blocks)

\* Runs of pages are whole pages.
Aligned(P) == \A p \in P : \E q \in Nat : p = q * PageWords

HeapOK ==
  Running => \E P, B : Partition(mem, blocks, P, B, Ram(init_free)) /\ Aligned(P)

\* What holds of the headers is needed by itself: it outlives the partition.
Inv == TypeOK /\ HeapOK /\ HeadersIntact

\* The headers of the blocks K, the one at c excepted, are in m.
HeadersIn(m, K, c) == \A b \in K : b.at - BlockHeader # c => m[b.at - BlockHeader] = b.n

\* The contents of the blocks K are in m2 as in m.
BodiesKept(m, m2, K) == \A b \in K : \A x \in Int : b.at <= x /\ x < b.at + b.n => m2[x] = m[x]

LEMMA PartitionHeaders ==
  ASSUME NEW m, NEW K, NEW P, NEW B, NEW R, Partition(m, K, P, B, R), NEW c
  PROVE  HeadersIn(m, K, c)
BY DEF Partition, IsBlock, HeadersIn

\* When there is no whole page to give back, mem_free gives none back.
LEMMA ReleaseNone ==
  ASSUME NEW m, NEW start
  PROVE  ReleasePages(m, start, 0) = m
<1> DEFINE F(r) == [k \in 0..0 |-> IF k = 0 THEN m ELSE page_release(r[k - 1], Short(start + k - 1))]
           c == CHOOSE r : r = F(r)
           w == [k \in 0..0 |-> m]
<1>1. ReleasePages(m, start, 0) = c[0]
  BY Zenon DEF ReleasePages
<1>2. w = F(w)
  <2>1. \A k \in 0..0 : k = 0
    OBVIOUS
  <2>2. F(w) = [k \in 0..0 |-> m]
    BY <2>1
  <2>3. QED
    BY <2>2
<1>3. c = F(c)
  BY <1>2
<1> HIDE DEF c
<1>4. F(c)[0] = m
  OBVIOUS
<1>5. QED
  BY <1>1, <1>3, <1>4

\* The number of whole pages is a number.
LEMMA WholePagesNat ==
  ASSUME NEW m \in [Addr -> Int], NEW cur \in Addr
  PROVE  WholePages(m, cur) \in Nat
<1> DEFINE y == FirstPage(cur)
           x == cur + PageWords - 1
           size == m[cur] - (y * PageWords - cur)
<1>1. PageWords \in Nat /\ PageWords > 5 /\ cur \in Nat /\ m[cur] \in Int
  BY Layout
<1>2. y = x \div PageWords
  BY DEF FirstPage
<1>3. x \in Nat
  BY <1>1
<1>4. x = PageWords * y + (x % PageWords) /\ x % PageWords \in 0..(PageWords - 1) /\ y \in Nat
  BY <1>1, <1>2, <1>3
<1>5. PageWords * y \in Nat /\ y * PageWords = PageWords * y
  BY <1>1, <1>4
<1>6. y * PageWords - cur <= PageWords - 1
  BY <1>1, <1>4, <1>5
<1>7. WholePages(m, cur) = IF m[cur] >= PageWords THEN size \div PageWords ELSE 0
  BY Zenon DEF WholePages
<1> HIDE DEF y, x
<1>8. m[cur] >= PageWords => size \in Nat
  BY <1>1, <1>5, <1>6
<1> HIDE DEF size
<1>9. m[cur] >= PageWords => size \div PageWords \in Nat
  BY <1>1, <1>8
<1>10. QED
  BY <1>7, <1>9

\* The free pages and the free blocks are the nodes of the two lists.
LEMMA ListRange ==
  ASSUME NEW m, NEW head \in Heads, NEW F, NEW u, ListOK(m, head, F, u)
  PROVE  Range(List(m, head)) = F
<1> DEFINE s == List(m, head)
<1>1. s \in Seq(F) /\ \A a \in F : \E i \in 1..Len(s) : s[i] = a
  BY ListNodes DEF Enumerates
<1> HIDE DEF s
<1>2. DOMAIN s = 1..Len(s) /\ \A i \in 1..Len(s) : s[i] \in F
  BY <1>1
<1>3. Range(s) = F
  BY <1>1, <1>2 DEF Range
<1>4. QED
  BY <1>3 DEF s

\* Different nodes make different stretches of memory.
\* Every word of a block's contents is in memory, and in the block.
LEMMA BodyHeld ==
  ASSUME NEW m, NEW K, NEW P, NEW B, NEW R, Partition(m, K, P, B, R), NEW b \in K,
         NEW a \in Int, b.at <= a, a < b.at + b.n
  PROVE  a \in Addr /\ InBlock(b, a) /\ Held(K, a)
<1>1. IsBlock(m, b)
  BY DEF Partition
<1>2. /\ b.at \in Nat /\ b.n \in Nat /\ b.at + b.n <= MemoryEnd
      /\ b.at - BlockHeader = b.at - 1
  BY <1>1 DEF IsBlock, BlockHeader
<1>3. a \in Addr
  BY <1>2, Layout
<1>4. InBlock(b, a)
  BY <1>2 DEF InBlock
<1>5. QED
  BY <1>3, <1>4, Zenon DEF Held

\* What is in the blocks is kept when they are.
LEMMA KeptBodies ==
  ASSUME NEW m, NEW K, NEW P, NEW B, NEW R, Partition(m, K, P, B, R),
         NEW m2, NEW L \in SUBSET K, Kept(m, m2, K)
  PROVE  BodiesKept(m, m2, L)
<1>1. ASSUME NEW b \in L, NEW x \in Int, b.at <= x, x < b.at + b.n
      PROVE  m2[x] = m[x]
  <2>1. x \in Addr /\ Held(K, x)
    BY <1>1, BodyHeld
  <2>2. QED
    BY <2>1 DEF Kept
<1>2. QED
  BY <1>1 DEF BodiesKept

\* mem_free keeps the heap, or gives pages back.
LEMMA MemFree ==
  ASSUME NEW K, NEW P, NEW B, NEW R, Partition(mem, K, P, B, R),
         NEW cur \in Nat, NEW n \in Nat \ {0}, 2 <= n \/ cur + n \in B,
         InitBegin <= cur, cur + n <= MemoryEnd,
         \A x \in Int : cur <= x /\ x < cur + n => x \notin R,
         NEW S, \A x \in Int : x \in S <=> x \in R \/ (cur <= x /\ x < cur + n),
         mem_free(cur, n)
  PROVE  /\ released' \in BOOLEAN /\ clobbered' = 0
         /\ ~released' => (\E C : Partition(mem', K, P, C, S)) /\ Kept(mem, mem', K)
<1> DEFINE m1 == Liberate(mem, blocks_head, cur, n, 1)
           c  == WholePages(m1, cur)
<1>1. PICK C : Partition(m1, K, P, C, S) /\ Kept(mem, m1, K)
  BY FreeToHeap
<1>2. /\ mem' = ReleasePages(m1, FirstPage(cur), c) /\ released' = (c > 0)
      /\ clobbered' = IF Clobbers(cur, n) THEN cur + n ELSE 0
  BY Zenon DEF mem_free
<1>3. m1 \in [Addr -> Int] /\ cur \in Addr
  BY <1>1, Layout DEF Partition
<1> HIDE DEF m1
<1>4. c \in Nat
  BY <1>3, WholePagesNat
<1> HIDE DEF c
<1>5. released' \in BOOLEAN
  BY <1>2
<1>6. ~released' => c = 0
  <2>1. ~(c > 0) => c = 0
    BY <1>4
  <2>2. QED
    BY <1>2, <2>1, Zenon
<1>7. ~released' => mem' = m1
  BY <1>2, <1>6, ReleaseNone
<1>8. clobbered' = 0
  <2>1. Range(List(mem, blocks_head)) = B
    BY HeadsApart, ListRange DEF Partition
  <2>2. ~Clobbers(cur, n)
    BY <2>1 DEF Clobbers, FreeBlock
  <2>3. QED
    BY <1>2, <2>2
<1>9. QED
  BY <1>1, <1>5, <1>7, <1>8

\* When a block is freed that is too short for a node, and no free block
\* follows, the word behind it is all that is lost to others.
LEMMA MemClobber ==
  ASSUME NEW K, NEW P, NEW B, NEW R, Partition(mem, K, P, B, R),
         NEW b \in K, b.n = 0, b.at \notin B, mem_free(b.at - 1, 1)
  PROVE  /\ released' \in BOOLEAN /\ clobbered' = b.at
         /\ ~released' => HeadersIn(mem', K \ {b}, b.at) /\ BodiesKept(mem, mem', K \ {b})
<1> DEFINE h  == b.at - 1
           m1 == Liberate(mem, blocks_head, h, 1, 1)
           c  == WholePages(m1, h)
           q  == Before(mem, blocks_head, h)
           S  == {x \in R : ~InBlock(b, x)}
<1>1. IsBlock(mem, b)
  BY DEF Partition
<1>2. /\ b.at \in Nat /\ h \in Nat /\ h \in Addr /\ h + 1 = b.at /\ InitBegin <= h /\ h + 1 <= MemoryEnd
      /\ \A x \in Int : InBlock(b, x) <=> h <= x /\ x < h + 1
  <2>1. b.at \in Nat /\ InitBegin <= b.at - 1 /\ b.at <= MemoryEnd
    BY <1>1 DEF IsBlock, BlockHeader
  <2>2. QED
    BY <2>1, Layout DEF InBlock, BlockHeader
<1>3. /\ mem' = ReleasePages(m1, FirstPage(h), c) /\ released' = (c > 0)
      /\ clobbered' = IF Clobbers(h, 1) THEN h + 1 ELSE 0
  BY Zenon DEF mem_free
<1>4. clobbered' = b.at
  <2>1. Range(List(mem, blocks_head)) = B
    BY HeadsApart, ListRange DEF Partition
  <2> HIDE DEF h
  <2>2. Clobbers(h, 1)
    BY <1>2, <2>1 DEF Clobbers, FreeBlock
  <2>3. QED
    BY <1>2, <1>3, <2>2
<1> HIDE DEF h
<1>5. Partition(mem, K \ {b}, P, B, S)
  <2>1. \A x \in Int : x \in S <=> x \in R /\ ~InBlock(b, x)
    OBVIOUS
  <2> HIDE DEF S
  <2>2. QED
    BY <2>1, DropBlock
<1>6. Placeable(mem, blocks_head, B, 1, h, 1)
  <2>1. \A x \in Int : h <= x /\ x < h + 1 => x \notin S
    BY <1>2
  <2> HIDE DEF S
  <2>2. QED
    BY <1>2, <1>5, <2>1, PlaceInHeap
<1>7. mem \in [Addr -> Int] /\ ListOK(mem, blocks_head, B, 1)
  BY DEF Partition
<1>8. \E len, nxt : Stored(mem, m1, q, 1, h, len, nxt)
  BY <1>6, <1>7, HeadsApart, LiberateStores
<1>9. q \in B \cup {blocks_head} /\ q \in Nat /\ q + 1 \in Addr
  <2>1. q \in B \cup {blocks_head}
    BY <1>2, <1>7, HeadsApart, BeforeIs
  <2> HIDE DEF q
  <2>2. QED
    BY <1>7, <2>1, HeadsApart, NodeWords
<1> HIDE DEF m1, q
<1>10. m1 \in [Addr -> Int] /\ \A x \in Addr : x \notin {q, q + 1, h, h + 1} => m1[x] = mem[x]
  BY <1>8 DEF Stored
<1>11. ASSUME NEW x \in Addr, Held(K \ {b}, x), x # h + 1
       PROVE  m1[x] = mem[x]
  <2>1. x \in Int
    BY Layout
  <2>2. x # h
    <3>1. PICK d \in K \ {b} : InBlock(d, x)
      BY <1>11 DEF Held
    <3>2. x = h => InBlock(b, x)
      BY <1>2
    <3>3. QED
      BY <2>1, <3>1, <3>2 DEF Partition
  <2>3. x # q /\ x # q + 1
    <3>1. CASE q = blocks_head
      <4>1. InitBegin <= x
        BY <1>5, <1>11, <2>1, OwnedAbove
      <4>2. QED
        BY <2>1, <3>1, <4>1, HeadsApart
    <3>2. CASE q \in B
      <4>1. Size(mem, 1, q) \in Nat /\ 2 <= Size(mem, 1, q)
        BY <1>7, <3>2 DEF ListOK, Nodes
      <4>2. q <= q /\ q < q + Size(mem, 1, q) /\ q <= q + 1 /\ q + 1 < q + Size(mem, 1, q)
        BY <1>9, <4>1
      <4>3. Holds(mem, B, 1, q) /\ Holds(mem, B, 1, q + 1)
        BY <3>2, <4>2, Zenon DEF Holds
      <4>4. ~Holds(mem, B, 1, x)
        BY <1>5, <1>11, <2>1 DEF Partition
      <4>5. QED
        BY <4>3, <4>4
    <3>3. QED
      BY <1>9, <3>1, <3>2
  <2>4. QED
    BY <1>10, <1>11, <2>2, <2>3
<1>12. c \in Nat
  BY <1>2, <1>10, WholePagesNat
<1> HIDE DEF c
<1>13. released' \in BOOLEAN
  BY <1>3
<1>14. ~released' => mem' = m1
  <2>1. ~(c > 0) => c = 0
    BY <1>12
  <2>2. ~released' => c = 0
    BY <1>3, <2>1, Zenon
  <2>3. QED
    BY <1>3, <2>2, ReleaseNone
<1>15. HeadersIn(m1, K \ {b}, b.at)
  <2>1. ASSUME NEW d \in K \ {b}, d.at - BlockHeader # b.at
        PROVE  m1[d.at - BlockHeader] = d.n
    <3>1. IsBlock(mem, d)
      BY DEF Partition
    <3>2. d.at - BlockHeader \in Addr /\ Held(K \ {b}, d.at - BlockHeader)
      BY <3>1, HeaderHeld
    <3>3. m1[d.at - BlockHeader] = mem[d.at - BlockHeader]
      BY <1>2, <1>11, <2>1, <3>2
    <3>4. QED
      BY <3>1, <3>3 DEF IsBlock
  <2>2. QED
    BY <2>1 DEF HeadersIn
<1>16. BodiesKept(mem, m1, K \ {b})
  <2>1. ASSUME NEW d \in K \ {b}, NEW x \in Int, d.at <= x, x < d.at + d.n
        PROVE  m1[x] = mem[x]
    <3>1. x \in Addr /\ InBlock(d, x) /\ Held(K \ {b}, x)
      BY <1>5, <2>1, BodyHeld
    <3>2. x # h + 1
      <4>1. IsBlock(mem, d)
        BY DEF Partition
      <4>2. d.at \in Nat /\ d.n \in Nat
        BY <4>1, HeaderHeld
      <4>3. x = h + 1 => InBlock(d, h)
        BY <1>2, <2>1, <4>2 DEF InBlock, BlockHeader
      <4>4. InBlock(b, h) /\ h \in Int
        BY <1>2
      <4>5. ~InBlock(d, h)
        BY <4>4 DEF Partition
      <4>6. QED
        BY <4>3, <4>5
    <3>3. QED
      BY <1>11, <3>1, <3>2
  <2>2. QED
    BY <2>1 DEF BodiesKept
<1>17. QED
  BY <1>4, <1>13, <1>14, <1>15, <1>16

\* A product with the size of a page is larger when the other factor is.
LEMMA Multiples ==
  ASSUME NEW a \in Nat, NEW b \in Nat
  PROVE  /\ a * PageWords \in Nat /\ (a + b) * PageWords = a * PageWords + b * PageWords
         /\ a < b <=> a * PageWords < b * PageWords
<1>1. PageWords \in Nat /\ PageWords > 5
  BY Layout
<1>2. a * PageWords \in Nat /\ (a + b) * PageWords = a * PageWords + b * PageWords
  BY <1>1
<1>3. a < b => a * PageWords < b * PageWords
  BY <1>1
<1>4. b <= a => b * PageWords <= a * PageWords
  BY <1>1
<1>5. b * PageWords \in Nat
  BY <1>1
<1>6. QED
  BY <1>2, <1>3, <1>4, <1>5

\* Every page has a number of its own, which an unsigned short can hold.
LEMMA PageNumber ==
  ASSUME NEW p, NEW q \in Nat, p = q * PageWords, NEW k \in Nat, p + k * PageWords < MemoryEnd
  PROVE  page_to_addr(Short(addr_to_page(p) + k)) = p + k * PageWords
<1>1. PageWords \in Nat /\ PageWords > 5 /\ PageNumbers \in Nat /\ MemoryEnd \in Nat
      /\ MemoryEnd <= PageNumbers * PageWords /\ PageNumbers * PageWords \in Nat
  BY Layout, MemoryAssumption, LibcAssumption
<1>2. p \in Nat /\ q + k \in Nat /\ (q + k) * PageWords = p + k * PageWords
  BY Multiples
<1>3. p \div PageWords = q
  <2> DEFINE y == p \div PageWords
  <2>1. p = PageWords * y + (p % PageWords) /\ p % PageWords \in 0..(PageWords - 1) /\ y \in Nat
    BY <1>1, <1>2
  <2> HIDE DEF y
  <2>2. PageWords * y = y * PageWords /\ y * PageWords \in Nat
    BY <1>1, <2>1
  <2>3. y * PageWords <= p /\ p < y * PageWords + PageWords
    BY <1>1, <1>2, <2>1, <2>2
  <2>4. ~(q < y)
    <3>1. q < y => q * PageWords < y * PageWords
      BY <2>1, Multiples
    <3>2. QED
      BY <1>2, <2>2, <2>3, <3>1
  <2>5. y + 1 \in Nat /\ (y + 1) * PageWords = y * PageWords + PageWords
    BY <1>1, <2>1
  <2>6. ~(y + 1 < q)
    <3>1. y + 1 < q => (y + 1) * PageWords < q * PageWords
      BY <2>5, Multiples
    <3>2. QED
      BY <1>1, <1>2, <2>2, <2>3, <2>5, <3>1
  <2>7. q # y + 1
    BY <1>1, <1>2, <2>2, <2>3, <2>5
  <2>8. y = q
    BY <2>1, <2>4, <2>6, <2>7
  <2>9. QED
    BY <2>8 DEF y
<1>4. q + k < PageNumbers
  <2>1. (q + k) * PageWords < PageNumbers * PageWords
    BY <1>1, <1>2
  <2>2. QED
    BY <1>1, <1>2, <2>1, Multiples
<1>5. Short(q) = q /\ Short(q + k) = q + k
  BY <1>1, <1>4 DEF Short
<1>6. QED
  BY <1>2, <1>3, <1>5 DEF page_to_addr, addr_to_page

\* Memory has fewer pages than there are numbers for pages.
LEMMA PagesCounted ==
  Short(RamPages) = RamPages
<1>1. /\ PageWords \in Nat /\ PageNumbers \in Nat /\ RamPages \in Nat
      /\ RamPages * PageWords < PageNumbers * PageWords
  <2>1. /\ PageNumbers \in Nat /\ MemoryEnd <= PageNumbers * PageWords
        /\ MemoryStart \in Nat /\ MemoryStart > 0 /\ MemoryStart + RamPages * PageWords = MemoryEnd
        /\ RamPages \in Nat /\ PageWords \in Nat
    BY Layout, MemoryAssumption, LibcAssumption
  <2>2. RamPages * PageWords \in Nat /\ PageNumbers * PageWords \in Nat
    BY <2>1
  <2>3. QED
    BY <2>1, <2>2
<1>2. RamPages < PageNumbers
  BY <1>1, Multiples
<1>3. QED
  BY <1>1, <1>2 DEF Short

\* The pages that kalloc needs for a block are as many as it asks for.
LEMMA PagesAsked ==
  ASSUME want \in Sizes
  PROVE  PageCount = NewPages /\ NewPages \in Nat \ {0}
<1> DEFINE x == want + PageWords
           y == x \div PageWords
<1>1. /\ PageWords \in Nat /\ PageWords > 5 /\ PageNumbers \in Nat /\ want \in Nat
      /\ want + 1 + PageWords <= PageNumbers * PageWords /\ PageNumbers * PageWords \in Nat
  BY Layout, MemoryAssumption, LibcAssumption DEF BlockHeader
<1>2. NewPages = y
  <2>1. RealSize + PageWords - 1 = want + PageWords
    BY <1>1 DEF RealSize, BlockHeader
  <2>2. QED
    BY <2>1 DEF NewPages
<1>3. x \in Nat /\ x >= PageWords /\ x < PageNumbers * PageWords
  BY <1>1
<1> HIDE DEF x
<1>4. x = PageWords * y + (x % PageWords) /\ x % PageWords \in 0..(PageWords - 1) /\ y \in Nat
  BY <1>1, <1>3
<1> HIDE DEF y
<1>5. PageWords * y = y * PageWords /\ y * PageWords \in Nat
  BY <1>1, <1>4
<1>6. y # 0
  BY <1>1, <1>3, <1>4
<1>7. y < PageNumbers
  <2>1. y * PageWords < PageNumbers * PageWords
    BY <1>1, <1>3, <1>4, <1>5
  <2>2. QED
    BY <1>1, <1>4, <2>1, Multiples
<1>8. Short(y) = y
  BY <1>1, <1>4, <1>7 DEF Short
<1>9. QED
  BY <1>2, <1>4, <1>6, <1>8 DEF PageCount

\* The run of pages after the kernel begins with a page.
LEMMA StartAligned ==
  Aligned({MemoryStart})
<1> DEFINE y == (InitBegin + InitWords + PageWords - 1) \div PageWords
<1>1. PageWords \in Nat \ {0} /\ InitBegin + InitWords + PageWords - 1 \in Nat
  BY Layout
<1>2. y \in Nat
  BY <1>1
<1>3. MemoryStart = y * PageWords + PageWords
  BY Zenon DEF MemoryStart, BssStart
<1> HIDE DEF y
<1>4. y + 1 \in Nat /\ MemoryStart = (y + 1) * PageWords
  BY <1>1, <1>2, <1>3
<1>5. QED
  BY <1>4 DEF Aligned

LEMMA RamWords ==
  /\ \A x \in Int : x \in Ram(FALSE) <=> MemoryStart <= x /\ x < MemoryEnd
  /\ \A x \in Int : x \in Ram(TRUE) <=> x \in Ram(FALSE)
                                        \/ (InitBegin <= x /\ x < InitBegin + InitWords)
<1> DEFINE A == Ram(FALSE)
<1>1. A = MemoryStart..(MemoryEnd - 1)
  BY DEF Ram
<1>2. Ram(TRUE) = A \cup InitBegin..(InitBegin + InitWords - 1)
  BY DEF Ram, Words
<1> HIDE DEF A
<1>3. \A x \in Int : x \in A <=> MemoryStart <= x /\ x < MemoryEnd
  <2>1. MemoryStart \in Int /\ MemoryEnd \in Int
    BY Layout
  <2>2. QED
    BY <1>1, <2>1
<1>4. \A x \in Int : x \in InitBegin..(InitBegin + InitWords - 1)
                     <=> InitBegin <= x /\ x < InitBegin + InitWords
  BY Layout
<1>5. \A x \in Int : x \in Ram(TRUE) <=> x \in A \/ (InitBegin <= x /\ x < InitBegin + InitWords)
  BY <1>2, <1>4, Zenon
<1>6. QED
  BY <1>3, <1>5, Zenon DEF A

LEMMA InitHeap ==
  ASSUME Init
  PROVE  Inv
<1> DEFINE P == {MemoryStart}
<1>1. /\ mem = [a \in Addr |-> CASE a = pages_head + 1 -> MemoryStart
                                 [] a = MemoryStart    -> RamPages
                                 [] OTHER              -> 0]
      /\ blocks = {} /\ want = Nothing /\ init_free = FALSE /\ released = FALSE /\ clobbered = 0
      /\ panicked = FALSE
  BY PagesCounted DEF Init
<1>2. /\ MemoryStart \in Nat /\ InitBegin < MemoryStart /\ RamPages \in Nat \ {0}
      /\ MemoryStart + RamPages * PageWords = MemoryEnd /\ MemoryEnd \in Nat
      /\ PageWords <= RamPages * PageWords /\ RamPages * PageWords \in Nat
      /\ PageWords > 5 /\ PageWords \in Nat /\ Addr = 0..MemoryEnd
  BY Layout
<1>3. /\ 1 \in Addr /\ 2 \in Addr /\ 3 \in Addr /\ 4 \in Addr
      /\ MemoryStart \in Addr /\ MemoryStart + 1 \in Addr /\ MemoryStart > 6
  BY <1>2, HeadsApart
<1>4. mem \in [Addr -> Int]
  <2>1. ASSUME NEW a \in Addr
        PROVE  (CASE a = pages_head + 1 -> MemoryStart
                  [] a = MemoryStart    -> RamPages
                  [] OTHER              -> 0) \in Int
    BY <1>2
  <2>2. QED
    BY <1>1, <2>1
<1>5. /\ mem[1] = 0 /\ mem[2] = MemoryStart /\ mem[3] = 0 /\ mem[4] = 0
      /\ mem[MemoryStart] = RamPages /\ mem[MemoryStart + 1] = 0
  <2>1. ASSUME NEW a \in Addr
        PROVE  /\ a = 2 => mem[a] = MemoryStart
               /\ a = MemoryStart => mem[a] = RamPages
               /\ a # 2 /\ a # MemoryStart => mem[a] = 0
    BY <1>1, <1>3, HeadsApart
  <2>2. QED
    BY <1>2, <1>3, <2>1
<1>6. Size(mem, PageWords, MemoryStart) = RamPages * PageWords
  BY <1>5 DEF Size
<1>7. ListOK(mem, pages_head, P, PageWords)
  <2>1. Nodes(mem, P, PageWords)
    <3>1. ASSUME NEW a \in P
          PROVE  /\ a \in Nat /\ InitBegin <= a /\ mem[a] \in Nat \ {0}
                 /\ Size(mem, PageWords, a) \in Nat /\ 2 <= Size(mem, PageWords, a)
                 /\ a + Size(mem, PageWords, a) <= MemoryEnd
      <4>1. a = MemoryStart
        OBVIOUS
      <4>2. QED
        BY <1>2, <1>5, <1>6, <4>1, HeadsApart
    <3>2. QED
      BY <3>1 DEF Nodes
  <2>2. IsNext(P, MemoryStart, 0) /\ IsNext(P, 1, MemoryStart)
    BY <1>2, <1>3 DEF IsNext
  <2>3. \A a \in P \cup {1} : IsNext(P, a, mem[a + 1])
    BY <1>5, <2>2
  <2>4. \A a, c \in P : ~(a < c)
    BY <1>2
  <2>5. QED
    BY <1>5, <2>1, <2>3, <2>4, HeadsApart DEF ListOK
<1>8. ListOK(mem, blocks_head, {}, 1)
  BY <1>5, HeadsApart DEF ListOK, Nodes, IsNext
<1>9. \A x \in Int : Holds(mem, P, PageWords, x) <=> MemoryStart <= x /\ x < MemoryEnd
  BY <1>2, <1>6 DEF Holds
<1>10. \A x \in Int : ~Holds(mem, {}, 1, x) /\ ~Held({}, x)
  BY DEF Holds, Held
<1>11. Partition(mem, {}, P, {}, Ram(FALSE))
  BY <1>4, <1>7, <1>8, <1>9, <1>10, RamWords DEF Partition
<1>12. IsFiniteSet({})
  BY FS_EmptySet
<1>13. HeadersIntact
  BY <1>1 DEF HeadersIntact
<1>14. TypeOK
  BY <1>1, <1>12 DEF TypeOK
<1>15. HeapOK
  BY <1>1, <1>11, StartAligned DEF HeapOK
<1>16. QED
  BY <1>13, <1>14, <1>15 DEF Inv

\* What is in a block stays there.
StillThere == ~released' /\ ~panicked' => BodiesKept(mem, mem', blocks \cap blocks')

LEMMA StepHeap ==
  ASSUME Inv, [Next]_vars
  PROVE  Inv' /\ StillThere
<1>1. TypeOK /\ HeapOK /\ HeadersIntact
  BY DEF Inv
<1>2. ASSUME NEW k \in Sizes, Kalloc(k)
      PROVE  Inv' /\ StillThere
  <2>1. k \in Sizes
    BY <1>2
  <2>2. want' = k /\ UNCHANGED <<mem, blocks, init_free, released, clobbered, panicked>>
    BY <1>2 DEF Kalloc
  <2>3. TypeOK'
    BY <1>1, <2>1, <2>2 DEF TypeOK
  <2>4. HeapOK'
    BY <1>1, <2>2 DEF HeapOK, Running
  <2>5. HeadersIntact'
    BY <1>1, <2>2 DEF HeadersIntact
  <2>6. StillThere
    BY <2>2 DEF StillThere, BodiesKept
  <2>7. QED
    BY <2>3, <2>4, <2>5, <2>6 DEF Inv
<1>3. CASE KallocGrow
  <2> DEFINE s == List(mem, pages_head)
             i == FirstFit(mem, s, PageCount)
             m1 == PageTaken(mem, i, PageCount)
             page == Short(addr_to_page(s[i]) + m1[s[i]])
             at == s[i] + m1[s[i]] * PageWords
  <2>1. Running /\ want # Nothing /\ UNCHANGED <<blocks, want, init_free, released, clobbered>>
    BY <1>3 DEF KallocGrow
  <2>2. \/ /\ i # 0 /\ UNCHANGED panicked
           /\ mem' = Liberate(m1, blocks_head, page_to_addr(page), NewPages * PageWords, 1)
        \/ panicked' = TRUE /\ UNCHANGED mem
    BY <1>3, Zenon DEF KallocGrow
  <2>3. TypeOK'
    BY <1>1, <2>1, <2>2 DEF TypeOK
  <2>4. PageCount = NewPages /\ PageCount \in Nat \ {0}
    BY <1>1, <2>1, PagesAsked DEF TypeOK
  <2>5. HeapOK' /\ HeadersIntact' /\ StillThere
    <3>1. CASE i # 0 /\ mem' = Liberate(m1, blocks_head, page_to_addr(page), NewPages * PageWords, 1)
      <4>1. PICK P, B : Partition(mem, blocks, P, B, Ram(init_free)) /\ Aligned(P)
        BY <1>1, <2>1 DEF HeapOK
      <4> DEFINE m2 == Liberate(m1, blocks_head, at, PageCount * PageWords, 1)
      <4>2. /\ s[i] \in P /\ m1[s[i]] \in Nat /\ at < MemoryEnd
            /\ \E Q \in SUBSET P : \E C : Partition(m2, blocks, Q, C, Ram(init_free))
            /\ Kept(mem, m2, blocks)
        BY <2>4, <3>1, <4>1, GrowHeap
      <4>3. page_to_addr(page) = at
        <5> HIDE DEF s, i, m1
        <5>1. PICK q \in Nat : s[i] = q * PageWords
          BY <4>1, <4>2 DEF Aligned
        <5>2. QED
          BY <4>2, <5>1, PageNumber
      <4>4. mem' = m2
        BY <2>4, <3>1, <4>3, Zenon
      <4>5. \A Q \in SUBSET P : Aligned(Q)
        BY <4>1 DEF Aligned
      <4> HIDE DEF m2
      <4>6. PICK Q \in SUBSET P : \E C : Partition(m2, blocks, Q, C, Ram(init_free))
        BY <4>2
      <4>7. PICK C : Partition(m2, blocks, Q, C, Ram(init_free))
        BY <4>6
      <4>8. HeapOK'
        BY <2>1, <4>4, <4>5, <4>7 DEF HeapOK
      <4>9. HeadersIn(mem', blocks, clobbered')
        BY <4>4, <4>7, PartitionHeaders
      <4>10. blocks \cap blocks' = blocks
        BY <2>1
      <4>11. BodiesKept(mem, mem', blocks)
        BY <4>1, <4>2, <4>4, KeptBodies
      <4>12. QED
        BY <2>1, <4>8, <4>9, <4>10, <4>11 DEF HeadersIntact, HeadersIn, StillThere
    <3>2. CASE panicked' = TRUE
      BY <3>2 DEF HeapOK, HeadersIntact, StillThere, Running
    <3>3. QED
      BY <2>2, <3>1, <3>2
  <2>6. QED
    BY <2>3, <2>5 DEF Inv
<1>4. CASE KallocTake
  <2> DEFINE s == List(mem, blocks_head)
             p == s[Found]
             k == mem[p] - RealSize
             m1 == IF k = 0
                     THEN [mem EXCEPT ![Pred(blocks_head, s, Found) + 1] = mem[p + 1]]
                     ELSE [mem EXCEPT ![p] = k]
             b  == [at |-> p + k + BlockHeader, n |-> want]
  <2>1. /\ Running /\ want # Nothing /\ Found # 0 /\ want' = Nothing
        /\ UNCHANGED <<init_free, released, clobbered, panicked>>
    BY <1>4 DEF KallocTake
  <2>2. mem' = [m1 EXCEPT ![p + k] = want] /\ blocks' = blocks \cup {b}
    BY <1>4, Zenon DEF KallocTake, HeaderWord
  <2>3. PICK P, B : Partition(mem, blocks, P, B, Ram(init_free)) /\ Aligned(P)
    BY <1>1, <2>1 DEF HeapOK
  <2>4. want \in Nat /\ RealSize = want + 1
    BY <1>1, <2>1, MemoryAssumption DEF TypeOK, RealSize, BlockHeader
  <2>5. ListOK(mem, blocks_head, B, 1)
    BY <2>3 DEF Partition
  <2>6. Enumerates(mem, blocks_head, B, s)
    BY <2>5, HeadsApart, ListNodes
  <2>7. s \in Seq(B)
    BY <2>6 DEF Enumerates
  <2>8. Found \in 1..Len(s) /\ mem[p] >= RealSize + FreeBlock
    <3>1. Found = FirstFit(mem, s, RealSize + FreeBlock)
      BY Zenon DEF Found
    <3> HIDE DEF s
    <3>2. QED
      BY <2>1, <2>7, <3>1, FirstFitFits
  <2> HIDE DEF s
  <2>9. p \in B
    BY <2>7, <2>8
  <2> HIDE DEF p
  <2>10. mem[p] \in Nat
    BY <2>5, <2>9 DEF ListOK, Nodes
  <2>11. k \in Nat /\ 2 <= k /\ mem[p] = k + (want + 1)
    BY <2>4, <2>8, <2>10 DEF FreeBlock
  <2> HIDE DEF k
  <2>12. m1 = [mem EXCEPT ![p] = k]
    BY <2>11
  <2> HIDE DEF m1
  <2> DEFINE m2 == [[mem EXCEPT ![p] = k] EXCEPT ![p + k] = want]
  <2>13. /\ Partition(m2, blocks \cup {[at |-> p + k + 1, n |-> want]}, P, B, Ram(init_free))
         /\ Kept(mem, m2, blocks)
    BY <2>3, <2>4, <2>9, <2>11, TakeHeap
  <2>14. Partition(mem', blocks', P, B, Ram(init_free)) /\ Kept(mem, mem', blocks)
    <3>1. b = [at |-> p + k + 1, n |-> want]
      BY DEF BlockHeader
    <3> HIDE DEF b
    <3>2. QED
      BY <2>2, <2>12, <2>13, <3>1
  <2>15. TypeOK'
    <3>1. IsFiniteSet(blocks \cup {b})
      BY <1>1, FS_AddElement DEF TypeOK
    <3> HIDE DEF b
    <3>2. QED
      BY <1>1, <2>1, <2>2, <3>1 DEF TypeOK
  <2>16. StillThere
    <3>1. BodiesKept(mem, mem', blocks \cap blocks')
      BY <2>3, <2>14, KeptBodies
    <3>2. QED
      BY <3>1 DEF StillThere
  <2>17. HeapOK'
    BY <2>1, <2>3, <2>14 DEF HeapOK
  <2>18. HeadersIntact'
    <3>1. HeadersIn(mem', blocks', clobbered')
      BY <2>14, PartitionHeaders
    <3>2. QED
      BY <3>1 DEF HeadersIn, HeadersIntact
  <2>19. QED
    BY <2>15, <2>16, <2>17, <2>18 DEF Inv
<1>5. ASSUME NEW b \in blocks, Kfree(b)
      PROVE  Inv' /\ StillThere
  <2> DEFINE h == b.at - BlockHeader
             n == mem[h] + BlockHeader
             R == Ram(init_free)
             S == {x \in R : ~InBlock(b, x)}
  <2>1. /\ Running /\ mem_free(h, n) /\ blocks' = blocks \ {b}
        /\ UNCHANGED <<want, init_free, panicked>>
    BY <1>5, Zenon DEF Kfree
  <2>2. PICK P, B : Partition(mem, blocks, P, B, R) /\ Aligned(P)
    BY <1>1, <2>1 DEF HeapOK
  <2>3. IsBlock(mem, b)
    BY <2>2 DEF Partition
  <2>4. b.at \in Nat /\ b.n \in Nat /\ h \in Addr /\ b.at - 1 = h
    BY <2>3, HeaderHeld
  <2>5. /\ h \in Nat /\ n \in Nat \ {0} /\ n = b.n + 1 /\ h + n = b.at + b.n
        /\ InitBegin <= h /\ h + n <= MemoryEnd
    <3>1. mem[h] = b.n /\ InitBegin <= h /\ b.at + b.n <= MemoryEnd
      BY <2>3 DEF IsBlock
    <3>2. n = b.n + 1
      BY <3>1 DEF BlockHeader
    <3>3. h \in Nat
      BY <2>4, Layout
    <3> HIDE DEF h, n
    <3>4. QED
      BY <2>4, <3>1, <3>2, <3>3
  <2>6. \A x \in Int : InBlock(b, x) <=> h <= x /\ x < h + n
    BY <2>5 DEF InBlock
  <2> HIDE DEF h, n
  <2>7. \A x \in Int : x \in S <=> x \in R /\ ~InBlock(b, x)
    OBVIOUS
  <2>8. \A x \in Int : InBlock(b, x) => x \in R
    <3>1. \A x \in Int : InBlock(b, x) => Held(blocks, x)
      BY Zenon DEF Held
    <3>2. QED
      BY <2>2, <3>1 DEF Partition
  <2> HIDE DEF S, R
  <2>9. Partition(mem, blocks \ {b}, P, B, S)
    BY <2>2, <2>7, DropBlock
  <2>10. \A x \in Int : h <= x /\ x < h + n => x \notin S
    BY <2>6, <2>7
  <2>11. \A x \in Int : x \in R <=> x \in S \/ (h <= x /\ x < h + n)
    BY <2>6, <2>7, <2>8
  <2>12. blocks \cap blocks' = blocks \ {b}
    BY <2>1
  <2>13. IsFiniteSet(blocks \ {b})
    BY <1>1, FS_RemoveElement DEF TypeOK
  <2>14. CASE 2 <= n \/ h + n \in B
    <3>1. /\ released' \in BOOLEAN /\ clobbered' = 0
          /\ ~released' => (\E C : Partition(mem', blocks \ {b}, P, C, R))
                           /\ Kept(mem, mem', blocks \ {b})
      BY <2>1, <2>5, <2>9, <2>10, <2>11, <2>14, MemFree
    <3>2. TypeOK'
      BY <1>1, <2>1, <2>13, <3>1 DEF TypeOK
    <3>3. HeapOK'
      BY <2>1, <2>2, <3>1, Zenon DEF HeapOK, Running, R
    <3>4. StillThere
      <4>1. ~released' => BodiesKept(mem, mem', blocks \ {b})
        BY <2>9, <3>1, KeptBodies
      <4>2. QED
        BY <2>12, <4>1, Zenon DEF StillThere
    <3>5. HeadersIntact'
      <4>1. ~released' => HeadersIn(mem', blocks', clobbered')
        BY <2>1, <3>1, PartitionHeaders
      <4>2. QED
        BY <4>1 DEF HeadersIntact, HeadersIn
    <3>6. QED
      BY <3>2, <3>3, <3>4, <3>5 DEF Inv
  <2>15. CASE ~(2 <= n \/ h + n \in B)
    <3>1. n = 1 /\ b.n = 0 /\ b.at \notin B
      BY <2>4, <2>5, <2>15
    <3>2. mem_free(b.at - 1, 1)
      BY <2>1, <2>4, <3>1, Zenon
    <3>3. /\ released' \in BOOLEAN /\ clobbered' = b.at
          /\ ~released' => /\ HeadersIn(mem', blocks \ {b}, b.at)
                           /\ BodiesKept(mem, mem', blocks \ {b})
      BY <2>2, <3>1, <3>2, MemClobber
    <3>4. TypeOK'
      BY <1>1, <2>1, <2>4, <2>13, <3>3 DEF TypeOK
    <3>5. HeapOK'
      <4>1. b.at # 0
        BY <2>4, <2>5, HeadsApart
      <4>2. QED
        BY <3>3, <4>1 DEF HeapOK, Running
    <3>6. StillThere
      BY <2>12, <3>3, Zenon DEF StillThere
    <3>7. HeadersIntact'
      BY <2>1, <3>3 DEF HeadersIntact, HeadersIn
    <3>8. QED
      BY <3>4, <3>5, <3>6, <3>7 DEF Inv
  <2>16. QED
    BY <2>14, <2>15
<1>6. CASE FreeInit
  <2>1. /\ Running /\ init_free = FALSE /\ mem_free(InitBegin, InitWords) /\ init_free' = TRUE
        /\ UNCHANGED <<blocks, want, panicked>>
    BY <1>1, <1>6 DEF FreeInit, TypeOK
  <2>2. PICK P, B : Partition(mem, blocks, P, B, Ram(FALSE)) /\ Aligned(P)
    BY <1>1, <2>1 DEF HeapOK
  <2>3. /\ InitBegin \in Nat /\ InitWords \in Nat \ {0} /\ 2 <= InitWords /\ InitBegin <= InitBegin
        /\ InitBegin + InitWords < MemoryStart /\ InitBegin + InitWords <= MemoryEnd
        /\ MemoryStart \in Nat
    BY Layout
  <2>4. \A x \in Int : InitBegin <= x /\ x < InitBegin + InitWords => x \notin Ram(FALSE)
    <3>1. \A x \in Int : InitBegin <= x /\ x < InitBegin + InitWords
                          => ~(MemoryStart <= x /\ x < MemoryEnd)
      BY <2>3
    <3>2. QED
      BY <3>1, RamWords, Zenon
  <2>5. \A x \in Int : x \in Ram(TRUE) <=> x \in Ram(FALSE)
                                           \/ (InitBegin <= x /\ x < InitBegin + InitWords)
    BY RamWords
  <2>6. /\ released' \in BOOLEAN /\ clobbered' = 0
        /\ ~released' => (\E C : Partition(mem', blocks, P, C, Ram(TRUE))) /\ Kept(mem, mem', blocks)
    BY <2>1, <2>2, <2>3, <2>4, <2>5, MemFree
  <2>7. TypeOK'
    BY <1>1, <2>1, <2>6 DEF TypeOK
  <2>8. HeapOK'
    BY <2>1, <2>2, <2>6, Zenon DEF HeapOK, Running
  <2>9. StillThere
    <3>1. blocks \cap blocks' = blocks
      BY <2>1
    <3>2. ~released' => BodiesKept(mem, mem', blocks)
      BY <2>2, <2>6, KeptBodies
    <3>3. QED
      BY <3>1, <3>2, Zenon DEF StillThere
  <2>10. HeadersIntact'
    <3>1. ~released' => HeadersIn(mem', blocks', clobbered')
      BY <2>1, <2>6, PartitionHeaders
    <3>2. QED
      BY <3>1 DEF HeadersIntact, HeadersIn
  <2>11. QED
    BY <2>7, <2>8, <2>9, <2>10 DEF Inv
<1>7. CASE UNCHANGED vars
  BY <1>1, <1>7 DEF vars, Inv, TypeOK, HeapOK, HeadersIntact, Running, StillThere, BodiesKept
<1>8. QED
  BY <1>2, <1>3, <1>4, <1>5, <1>6, <1>7 DEF Next

-----------------------------------------------------------------------------
(* What the invariant means.                                               *)

LEMMA ImageCard ==
  ASSUME NEW S, IsFiniteSet(S), NEW T, NEW f \in [S -> T],
         \A x, y \in S : f[x] = f[y] => x = y, \A t \in T : \E x \in S : f[x] = t
  PROVE  IsFiniteSet(T) /\ Cardinality(T) = Cardinality(S)
<1>1. f \in Surjection(S, T)
  BY DEF Surjection
<1>2. f \in Injection(S, T)
  BY DEF Injection, IsInjective
<1>3. QED
  BY <1>1, <1>2, FS_Surjection

\* Three sets that have nothing in common.
LEMMA CardOfThree ==
  ASSUME NEW S, NEW T, NEW U, IsFiniteSet(S), IsFiniteSet(T), IsFiniteSet(U),
         S \cap T = {}, S \cap U = {}, T \cap U = {}
  PROVE  Cardinality(S \cup T \cup U) = Cardinality(S) + Cardinality(T) + Cardinality(U)
<1>1. Cardinality({}) = 0
  BY FS_EmptySet
<1>2. Cardinality(S) \in Nat /\ Cardinality(T) \in Nat /\ Cardinality(U) \in Nat
  BY FS_CardinalityType
<1>3. /\ IsFiniteSet(S \cup T)
      /\ Cardinality(S \cup T) = Cardinality(S) + Cardinality(T) - Cardinality(S \cap T)
  BY FS_Union
<1>4. Cardinality((S \cup T) \cup U)
      = Cardinality(S \cup T) + Cardinality(U) - Cardinality((S \cup T) \cap U)
  BY <1>3, FS_Union
<1>5. (S \cup T) \cap U = {}
  OBVIOUS
<1>6. Cardinality(S \cup T) = Cardinality(S) + Cardinality(T)
  <2>1. Cardinality(S \cap T) = 0
    BY <1>1, Zenon
  <2>2. QED
    BY <1>2, <1>3, <2>1
<1>7. Cardinality((S \cup T) \cap U) = 0
  BY <1>1, <1>5, Zenon
<1>8. QED
  BY <1>2, <1>4, <1>6, <1>7

\* The word x is in the node at a.
InNode(m, u, a, x) == a <= x /\ x < a + Size(m, u, a)

\* The words of the nodes of a list.
LEMMA NodesApart ==
  ASSUME NEW m, NEW head, NEW F, NEW u, ListOK(m, head, F, u)
  PROVE  /\ IsFiniteSet(F)
         /\ \A a \in F : a \in Nat /\ Size(m, u, a) \in Nat /\ a < a + Size(m, u, a)
         /\ \A a, c \in F : \A x \in Int : InNode(m, u, a, x) /\ InNode(m, u, c, x) => a = c
<1>1. \A a \in F : /\ a \in Nat /\ Size(m, u, a) \in Nat /\ 2 <= Size(m, u, a)
                   /\ a + Size(m, u, a) <= MemoryEnd
  BY DEF ListOK, Nodes
<1>2. IsFiniteSet(F)
  <2>1. F \in SUBSET Nat /\ \A a \in F : a <= MemoryEnd
    BY <1>1, HeadsApart
  <2>2. QED
    BY <2>1, HeadsApart, FS_BoundedSetOfNaturals
<1>3. \A a, c \in F : \A x \in Int : InNode(m, u, a, x) /\ InNode(m, u, c, x) => a = c
  <2> SUFFICES ASSUME NEW a \in F, NEW c \in F, NEW x \in Int,
                      a <= x, x < a + Size(m, u, a), c <= x, x < c + Size(m, u, c)
               PROVE  a = c
    BY Zenon DEF InNode
  <2>1. (a < c => a + Size(m, u, a) < c) /\ (c < a => c + Size(m, u, c) < a)
    BY DEF ListOK
  <2>2. QED
    BY <1>1, <2>1
<1>4. \A a \in F : a \in Nat /\ Size(m, u, a) \in Nat /\ a < a + Size(m, u, a)
  BY <1>1
<1>5. QED
  BY <1>2, <1>3, <1>4, Zenon

\* The stretches T are apart, and one for each of S.
Apart(T, S) ==
  /\ \A e, f \in T : \A x : x \in e /\ x \in f => e = f
  /\ \A e \in T : e # {}
  /\ IsFiniteSet(T) /\ Cardinality(T) = Cardinality(S)

\* T are the stretches of the nodes F, and they have their words.
OfNodes(T, m, F, u) == \A e : e \in T <=> \E a \in F : e = Words(a, m[a] * u)
NodesHave(T, m, F, u) == \A x : (\E e \in T : x \in e) <=> x \in Int /\ Holds(m, F, u, x)

LEMMA NodeExtents ==
  ASSUME NEW m, NEW head, NEW F, NEW u, ListOK(m, head, F, u),
         NEW T, OfNodes(T, m, F, u)
  PROVE  NodesHave(T, m, F, u) /\ Apart(T, F)
<1> DEFINE W(a) == Words(a, m[a] * u)
           g == [a \in F |-> W(a)]
<1>1. /\ IsFiniteSet(F)
      /\ \A a \in F : a \in Nat /\ Size(m, u, a) \in Nat /\ a < a + Size(m, u, a)
      /\ \A a, c \in F : \A x \in Int : InNode(m, u, a, x) /\ InNode(m, u, c, x) => a = c
  BY NodesApart
<1>2. ASSUME NEW a \in F, NEW x
      PROVE  x \in W(a) <=> x \in Int /\ a <= x /\ x < a + Size(m, u, a)
  <2>1. a \in Nat /\ m[a] * u = Size(m, u, a) /\ Size(m, u, a) \in Nat
    BY <1>1 DEF Size
  <2>2. QED
    BY <2>1 DEF Words
<1>3. \A a \in F : a \in W(a)
  BY <1>1, <1>2
<1>4. T = {W(a) : a \in F}
  <2>1. \A e : e \in T <=> \E a \in F : e = W(a)
    BY DEF OfNodes
  <2> HIDE DEF W
  <2>2. QED
    BY <2>1
<1> HIDE DEF W
<1>5. \A a, c \in F : \A x : x \in W(a) /\ x \in W(c) => a = c
  BY <1>1, <1>2, Zenon DEF InNode
<1>6. g \in [F -> T] /\ (\A x, y \in F : g[x] = g[y] => x = y) /\ \A t \in T : \E x \in F : g[x] = t
  BY <1>3, <1>4, <1>5
<1> HIDE DEF g
<1>7. IsFiniteSet(T) /\ Cardinality(T) = Cardinality(F)
  BY <1>1, <1>6, ImageCard
<1>8. ASSUME NEW x
      PROVE  (\E e \in T : x \in e) <=> x \in Int /\ Holds(m, F, u, x)
  BY <1>2, <1>4, Zenon DEF Holds
<1>9. ASSUME NEW e \in T, NEW f \in T, NEW x, x \in e, x \in f
      PROVE  e = f
  <2>1. PICK a \in F : e = W(a)
    BY <1>4
  <2>2. PICK c \in F : f = W(c)
    BY <1>4
  <2>3. a = c
    BY <1>5, <1>9, <2>1, <2>2
  <2>4. QED
    BY <2>1, <2>2, <2>3
<1>10. \A e \in T : e # {}
  BY <1>3, <1>4
<1>11. QED
  BY <1>7, <1>8, <1>9, <1>10, Zenon DEF NodesHave, Apart

\* T are the stretches of the blocks K, and they have their words.
OfBlocks(T, K) == \A e : e \in T <=> \E b \in K : e = Words(b.at - BlockHeader, b.n + BlockHeader)
BlocksHave(T, K) == \A x : (\E e \in T : x \in e) <=> x \in Int /\ Held(K, x)

LEMMA BlockExtents ==
  ASSUME NEW m, NEW K, IsFiniteSet(K), \A b \in K : IsBlock(m, b),
         \A b, c \in K : \A x \in Int : InBlock(b, x) /\ InBlock(c, x) => b = c,
         NEW T, OfBlocks(T, K)
  PROVE  BlocksHave(T, K) /\ Apart(T, K)
<1> DEFINE W(b) == Words(b.at - BlockHeader, b.n + BlockHeader)
           g == [b \in K |-> W(b)]
<1>1. ASSUME NEW b \in K, NEW x
      PROVE  x \in W(b) <=> x \in Int /\ InBlock(b, x)
  <2>1. b.at \in Nat /\ b.n \in Nat
    BY DEF IsBlock
  <2>2. QED
    BY <2>1 DEF Words, InBlock, BlockHeader
<1>2. \A b \in K : b.at - 1 \in W(b)
  <2>1. ASSUME NEW b \in K
        PROVE  b.at - 1 \in Int /\ InBlock(b, b.at - 1)
    <3>1. b.at \in Nat /\ b.n \in Nat
      BY DEF IsBlock
    <3>2. QED
      BY <3>1 DEF InBlock, BlockHeader
  <2> HIDE DEF W
  <2>2. QED
    BY <1>1, <2>1
<1>3. T = {W(b) : b \in K}
  <2>1. \A e : e \in T <=> \E b \in K : e = W(b)
    BY DEF OfBlocks
  <2> HIDE DEF W
  <2>2. QED
    BY <2>1
<1> HIDE DEF W
<1>4. \A b, c \in K : \A x : x \in W(b) /\ x \in W(c) => b = c
  BY <1>1
<1>5. g \in [K -> T] /\ (\A x, y \in K : g[x] = g[y] => x = y) /\ \A t \in T : \E x \in K : g[x] = t
  BY <1>2, <1>3, <1>4
<1> HIDE DEF g
<1>6. IsFiniteSet(T) /\ Cardinality(T) = Cardinality(K)
  BY <1>5, ImageCard
<1>7. ASSUME NEW x
      PROVE  (\E e \in T : x \in e) <=> x \in Int /\ Held(K, x)
  <2>1. (\E e \in T : x \in e) <=> \E b \in K : x \in W(b)
    BY <1>3, Zenon
  <2>2. QED
    BY <1>1, <2>1, Zenon DEF Held
<1>8. ASSUME NEW e \in T, NEW f \in T, NEW x, x \in e, x \in f
      PROVE  e = f
  <2>1. PICK b \in K : e = W(b)
    BY <1>3
  <2>2. PICK c \in K : f = W(c)
    BY <1>3
  <2>3. b = c
    BY <1>4, <1>8, <2>1, <2>2
  <2>4. QED
    BY <2>1, <2>2, <2>3
<1>9. \A e \in T : e # {}
  BY <1>2, <1>3
<1>10. QED
  BY <1>6, <1>7, <1>8, <1>9, Zenon DEF BlocksHave, Apart

\* The lists and the allocated blocks share out memory.
LEMMA PartitionMeans ==
  ASSUME NEW P, NEW B, Partition(mem, blocks, P, B, Ram(init_free)), IsFiniteSet(blocks)
  PROVE  MemoryPartitioned
<1> DEFINE EP == {Words(a, mem[a] * PageWords) : a \in P}
           EB == {Words(a, mem[a]) : a \in B}
           EK == {Words(b.at - BlockHeader, b.n + BlockHeader) : b \in blocks}
           R  == Ram(init_free)
<1>1. /\ ListOK(mem, pages_head, P, PageWords) /\ ListOK(mem, blocks_head, B, 1)
      /\ \A b \in blocks : IsBlock(mem, b)
      /\ \A b, c \in blocks : \A x \in Int : InBlock(b, x) /\ InBlock(c, x) => b = c
  BY DEF Partition
<1>2. ASSUME NEW x \in Int
      PROVE  /\ ~(Holds(mem, P, PageWords, x) /\ Holds(mem, B, 1, x))
             /\ ~(Holds(mem, P, PageWords, x) /\ Held(blocks, x))
             /\ ~(Holds(mem, B, 1, x) /\ Held(blocks, x))
             /\ x \in R <=> Holds(mem, P, PageWords, x) \/ Holds(mem, B, 1, x) \/ Held(blocks, x)
  BY DEF Partition
<1>3. FreePages = P /\ FreeBlocks = B
  BY <1>1, HeadsApart, ListRange DEF FreePages, FreeBlocks
<1>4. NodesHave(EP, mem, P, PageWords) /\ Apart(EP, P)
  <2>1. OfNodes(EP, mem, P, PageWords)
    BY DEF OfNodes
  <2> HIDE DEF EP
  <2>2. QED
    BY <1>1, <2>1, NodeExtents, Zenon
<1>5. NodesHave(EB, mem, B, 1) /\ Apart(EB, B)
  <2>1. \A a \in B : mem[a] * 1 = mem[a]
    BY <1>1 DEF ListOK, Nodes
  <2>2. OfNodes(EB, mem, B, 1)
    BY <2>1 DEF OfNodes
  <2> HIDE DEF EB
  <2>3. QED
    BY <1>1, <2>2, NodeExtents, Zenon
<1>6. BlocksHave(EK, blocks) /\ Apart(EK, blocks)
  <2>1. OfBlocks(EK, blocks)
    BY DEF OfBlocks
  <2> HIDE DEF EK
  <2>2. QED
    BY <1>1, <2>1, BlockExtents, Zenon
<1>7. Extents(P, B) = EP \cup EB \cup EK
  BY DEF Extents
<1>8. R = MemoryStart..(MemoryEnd - 1) \cup
            (IF init_free THEN Words(InitBegin, InitWords) ELSE {})
  BY DEF Ram
<1>9. \A x : x \in R => x \in Int
  <2>1. MemoryStart..(MemoryEnd - 1) \subseteq Int /\ Words(InitBegin, InitWords) \subseteq Int
    BY Layout DEF Words
  <2> HIDE DEF R
  <2>2. QED
    BY <1>8, <2>1
<1> HIDE DEF EP, EB, EK, R
<1> DEFINE E == EP \cup EB \cup EK
<1>10. UNION E = R
  <2>1. ASSUME NEW x
        PROVE  x \in UNION E <=> x \in R
    <3>1. x \in UNION E <=> (\E e \in EP : x \in e) \/ (\E e \in EB : x \in e) \/ (\E e \in EK : x \in e)
      BY Zenon
    <3>2. CASE x \in Int
      BY <1>2, <1>4, <1>5, <1>6, <3>1, <3>2, Zenon DEF NodesHave, BlocksHave
    <3>3. CASE x \notin Int
      BY <1>4, <1>5, <1>6, <1>9, <3>1, <3>3, Zenon DEF NodesHave, BlocksHave
    <3>4. QED
      BY <3>2, <3>3
  <2> HIDE DEF E
  <2>2. QED
    BY <2>1
<1>11. /\ \A e \in EP, f \in EB : \A x : ~(x \in e /\ x \in f)
       /\ \A e \in EP, f \in EK : \A x : ~(x \in e /\ x \in f)
       /\ \A e \in EB, f \in EK : \A x : ~(x \in e /\ x \in f)
  <2>1. \A e \in EP : \A x : x \in e => x \in Int /\ Holds(mem, P, PageWords, x)
    BY <1>4, Zenon DEF NodesHave
  <2>2. \A e \in EB : \A x : x \in e => x \in Int /\ Holds(mem, B, 1, x)
    BY <1>5, Zenon DEF NodesHave
  <2>3. \A e \in EK : \A x : x \in e => x \in Int /\ Held(blocks, x)
    BY <1>6, Zenon DEF BlocksHave
  <2>4. QED
    BY <1>2, <2>1, <2>2, <2>3
<1>12. \A e, f \in E : e # f => e \cap f = {}
  <2> SUFFICES ASSUME NEW e \in E, NEW f \in E, NEW x, x \in e, x \in f
               PROVE  e = f
    <3> HIDE DEF E
    <3>1. QED
      OBVIOUS
  <2>1. (e \in EP \/ e \in EB \/ e \in EK) /\ (f \in EP \/ f \in EB \/ f \in EK)
    OBVIOUS
  <2> HIDE DEF E
  <2>2. CASE e \in EP
    BY <1>4, <1>11, <2>1, <2>2, Zenon DEF Apart
  <2>3. CASE e \in EB
    BY <1>5, <1>11, <2>1, <2>3, Zenon DEF Apart
  <2>4. CASE e \in EK
    BY <1>6, <1>11, <2>1, <2>4, Zenon DEF Apart
  <2>5. QED
    BY <2>1, <2>2, <2>3, <2>4
<1>13. Cardinality(E) = Cardinality(P) + Cardinality(B) + Cardinality(blocks)
  <2>1. EP \cap EB = {}
    BY <1>4, <1>11 DEF Apart
  <2>2. EP \cap EK = {}
    BY <1>4, <1>11 DEF Apart
  <2>3. EB \cap EK = {}
    BY <1>5, <1>11 DEF Apart
  <2>4. Cardinality(E) = Cardinality(EP) + Cardinality(EB) + Cardinality(EK)
    BY <1>4, <1>5, <1>6, <2>1, <2>2, <2>3, CardOfThree DEF Apart
  <2> HIDE DEF E
  <2>5. QED
    BY <1>4, <1>5, <1>6, <2>4, Zenon DEF Apart
<1>14. E = Extents(P, B)
  BY <1>7
<1> HIDE DEF E
<1>15. QED
  BY <1>3, <1>8, <1>10, <1>12, <1>13, <1>14, Zenon DEF MemoryPartitioned

LEMMA CoalescedMeans ==
  ASSUME NEW head \in Heads, NEW F, NEW u, ListOK(mem, head, F, u)
  PROVE  Coalesced(head, u)
<1> DEFINE s == List(mem, head)
<1>1. s \in Seq(F) /\ Ordered(s)
  BY ListNodes DEF Enumerates
<1> HIDE DEF s
<1>2. DOMAIN s = 1..Len(s) /\ Len(s) \in Nat /\ \A i \in 1..Len(s) : s[i] \in F
  BY <1>1
<1>3. \A i \in DOMAIN s : mem[s[i]] > 0
  <2>1. \A a \in F : mem[a] \in Nat \ {0}
    BY DEF ListOK, Nodes
  <2>2. QED
    BY <1>2, <2>1
<1>4. \A i \in 1..(Len(s) - 1) : s[i] + mem[s[i]] * u < s[i + 1]
  <2>1. ASSUME NEW i \in 1..(Len(s) - 1)
        PROVE  s[i] + mem[s[i]] * u < s[i + 1]
    <3>1. i \in 1..Len(s) /\ i + 1 \in 1..Len(s) /\ i < i + 1
      BY <1>2
    <3>2. s[i] \in F /\ s[i + 1] \in F /\ s[i] < s[i + 1]
      BY <1>1, <1>2, <3>1 DEF Ordered
    <3>3. QED
      BY <3>2 DEF ListOK, Size
  <2>2. QED
    BY <2>1
<1>5. QED
  BY <1>3, <1>4 DEF Coalesced, s

LEMMA InvMeans ==
  ASSUME Inv
  PROVE  MemoryPartitioned /\ ListsCoalesced /\ HeadersIntact
<1>1. CASE ~Running
  BY <1>1 DEF Inv, MemoryPartitioned, ListsCoalesced
<1>2. CASE Running
  <2>1. IsFiniteSet(blocks)
    BY DEF Inv, TypeOK
  <2>2. PICK P, B : Partition(mem, blocks, P, B, Ram(init_free))
    BY <1>2 DEF Inv, HeapOK
  <2>3. MemoryPartitioned
    BY <2>1, <2>2, PartitionMeans
  <2>4. /\ ListOK(mem, pages_head, P, PageWords) /\ ListOK(mem, blocks_head, B, 1)
        /\ \A b \in blocks : IsBlock(mem, b)
    BY <2>2 DEF Partition
  <2>5. ListsCoalesced
    BY <2>4, HeadsApart, CoalescedMeans DEF ListsCoalesced
  <2>6. HeadersIntact
    BY DEF Inv
  <2>7. QED
    BY <2>3, <2>5, <2>6
<1>3. QED
  BY <1>1, <1>2

\* Whatever calls kalloc and kfree: until a page is given back or cur->next is
\* stored past the end of a freed block, the lists and the allocated blocks share
\* out memory and the lists stay in order and merged; and that store costs no
\* header but the one it hits.
THEOREM AllocatorsCorrect == Spec => [](MemoryPartitioned /\ ListsCoalesced /\ HeadersIntact)
<1>1. Init => Inv
  BY InitHeap
<1>2. Inv /\ [Next]_vars => Inv'
  BY StepHeap
<1>3. Inv => MemoryPartitioned /\ ListsCoalesced /\ HeadersIntact
  BY InvMeans
<1>4. QED
  BY <1>1, <1>2, <1>3, PTL DEF Spec

-----------------------------------------------------------------------------
(* The heap functions on top of it.                                        *)

HeapFunctions == {"none", "malloc", "calloc", "realloc", "qsort", "free"}

\* A heap function works on allocated blocks; the one it has just allocated is
\* not yet watched.
CallOK ==
  /\ call \in [f : HeapFunctions, old : SUBSET blocks, new : SUBSET blocks]
  /\ call.old \cap call.new = {}

Watched(m, w) == \A a \in Words(w.b.at, w.len) : m[a] = w.v

WatchOK ==
  /\ \A w \in watched : /\ w \in [b : blocks, v : Int, len : Nat]
                        /\ w.len <= w.b.n /\ w.b \notin call.new
  /\ ~released /\ ~panicked => \A w \in watched : Watched(mem, w)

LibcInv == Inv /\ CallOK /\ WatchOK

LEMMA WordsAre ==
  ASSUME NEW a \in Int, NEW n \in Int
  PROVE  \A x : x \in Words(a, n) <=> x \in Int /\ a <= x /\ x < a + n
BY DEF Words

LEMMA ShorterIs ==
  ASSUME NEW m \in Nat, NEW n \in Nat
  PROVE  Shorter(m, n) \in Nat /\ Shorter(m, n) <= m /\ Shorter(m, n) <= n
BY DEF Shorter

\* Where the word comes from that realloc puts at a.
LEMMA CopySource ==
  ASSUME NEW from \in Nat, NEW to \in Nat, NEW len \in Nat, NEW max \in Nat, NEW n \in Nat,
         len <= max, max <= n, NEW a \in Int, to <= a, a < to + len
  PROVE  /\ from + a - to \in Int /\ from <= from + a - to
         /\ from + a - to < from + max /\ from + a - to < from + n
OBVIOUS

\* A store into a block's contents leaves the heap as it is, and all else.
LEMMA StoreInBlock ==
  ASSUME NEW m, NEW K, NEW P, NEW B, NEW R, Partition(m, K, P, B, R), NEW b \in K,
         NEW m2 \in [Addr -> Int],
         \A x \in Addr : ~(b.at <= x /\ x < b.at + b.n) => m2[x] = m[x]
  PROVE  Partition(m2, K, P, B, R) /\ Kept(m, m2, K \ {b})
<1>1. /\ ListOK(m, pages_head, P, PageWords) /\ ListOK(m, blocks_head, B, 1)
      /\ \A c \in K : IsBlock(m, c)
      /\ \A c, d \in K : \A x \in Int : InBlock(c, x) /\ InBlock(d, x) => c = d
      /\ \A x \in Int : /\ ~(Holds(m, P, PageWords, x) /\ Held(K, x))
                        /\ ~(Holds(m, B, 1, x) /\ Held(K, x))
  BY DEF Partition
<1>2. \A x \in Addr : x \in Int
  BY Layout
<1>3. \A x \in Addr : b.at <= x /\ x < b.at + b.n => InBlock(b, x) /\ Held(K, x) /\ InitBegin <= x
  <2>1. ASSUME NEW x \in Addr, b.at <= x, x < b.at + b.n
        PROVE  InBlock(b, x) /\ Held(K, x) /\ InitBegin <= x
    <3>1. InBlock(b, x) /\ Held(K, x)
      BY <1>2, <2>1, BodyHeld
    <3>2. QED
      BY <1>2, <3>1, OwnedAbove
  <2>2. QED
    BY <2>1
<1>4. /\ m2[pages_head] = m[pages_head] /\ m2[pages_head + 1] = m[pages_head + 1]
      /\ m2[blocks_head] = m[blocks_head] /\ m2[blocks_head + 1] = m[blocks_head + 1]
  <2>1. ASSUME NEW x \in {1, 2, 3, 4}
        PROVE  m2[x] = m[x]
    <3>1. x \in Addr /\ ~(InitBegin <= x)
      BY Layout, HeadsApart
    <3>2. QED
      BY <1>3, <3>1
  <2>2. QED
    BY <2>1, HeadsApart
<1>5. /\ ListOK(m2, pages_head, P, PageWords)
      /\ \A x : Holds(m2, P, PageWords, x) <=> Holds(m, P, PageWords, x)
  <2>1. \A x \in Addr : Holds(m, P, PageWords, x) => m2[x] = m[x]
    BY <1>1, <1>2, <1>3
  <2>2. QED
    BY <1>1, <1>4, <2>1, HeadsApart, ListFrame
<1>6. /\ ListOK(m2, blocks_head, B, 1)
      /\ \A x : Holds(m2, B, 1, x) <=> Holds(m, B, 1, x)
  <2>1. \A x \in Addr : Holds(m, B, 1, x) => m2[x] = m[x]
    BY <1>1, <1>2, <1>3
  <2>2. QED
    BY <1>1, <1>4, <2>1, HeadsApart, ListFrame
<1>7. ASSUME NEW c \in K
      PROVE  IsBlock(m2, c)
  <2>1. IsBlock(m, c)
    BY <1>1
  <2> DEFINE h == c.at - BlockHeader
  <2>2. h \in Addr /\ h \in Int /\ InBlock(c, h) /\ c.at - 1 = h /\ c.at \in Nat
    <3>1. h \in Addr /\ c.at \in Nat /\ c.n \in Nat /\ c.at - 1 = h
      BY <2>1, HeaderHeld
    <3>2. InBlock(c, h)
      BY <3>1 DEF InBlock
    <3>3. QED
      BY <1>2, <3>1, <3>2
  <2>3. ~(b.at <= h /\ h < b.at + b.n)
    <3>1. CASE c = b
      <4>1. ~(b.at <= h)
        BY <2>2, <3>1
      <4>2. QED
        BY <4>1
    <3>2. CASE c # b
      BY <1>1, <1>3, <2>2, <3>2
    <3>3. QED
      BY <3>1, <3>2
  <2>4. m2[h] = m[h]
    BY <2>2, <2>3
  <2>5. QED
    BY <2>1, <2>4 DEF IsBlock
<1>8. Kept(m, m2, K \ {b})
  <2>1. ASSUME NEW x \in Addr, Held(K \ {b}, x)
        PROVE  ~InBlock(b, x)
    <3>1. PICK c \in K \ {b} : InBlock(c, x)
      BY <2>1 DEF Held
    <3>2. QED
      BY <1>1, <1>2, <3>1
  <2>2. QED
    BY <1>3, <2>1 DEF Kept
<1>9. QED
  BY <1>5, <1>6, <1>7, <1>8, Zenon DEF Partition

\* What is watched in a block that is kept is still there.
LEMMA WatchedKept ==
  ASSUME NEW m, NEW m2, NEW K, NEW P, NEW B, NEW R, Partition(m, K, P, B, R),
         NEW L \in SUBSET K, Kept(m, m2, L), NEW w, w.b \in L, w.len \in Nat, w.len <= w.b.n,
         Watched(m, w)
  PROVE  Watched(m2, w)
<1>1. IsBlock(m, w.b)
  BY DEF Partition
<1>2. w.b.at \in Nat /\ w.b.n \in Nat
  BY <1>1 DEF IsBlock
<1>3. ASSUME NEW a \in Words(w.b.at, w.len)
      PROVE  m2[a] = w.v
  <2>1. a \in Int /\ w.b.at <= a /\ a < w.b.at + w.b.n
    BY <1>2 DEF Words
  <2>2. a \in Addr /\ InBlock(w.b, a)
    BY <2>1, BodyHeld
  <2>3. Held(L, a)
    BY <2>2, Zenon DEF Held
  <2>4. QED
    BY <2>2, <2>3 DEF Kept, Watched
<1>4. QED
  BY <1>3 DEF Watched

\* What is watched outlives every step of the allocators that leaves the block.
LEMMA StayWatched ==
  ASSUME LibcInv, [Next]_vars, ~released', ~panicked', NEW w \in watched, w.b \in blocks'
  PROVE  Watched(mem', w)
<1>1. CASE UNCHANGED vars
  BY <1>1 DEF vars, LibcInv, WatchOK, Watched
<1>2. CASE Next
  <2>1. Running
    BY <1>2 DEF Next, Kalloc, KallocGrow, KallocTake, Kfree, FreeInit
  <2>2. PICK P, B : Partition(mem, blocks, P, B, Ram(init_free))
    BY <2>1 DEF LibcInv, Inv, HeapOK
  <2>3. BodiesKept(mem, mem', blocks \cap blocks')
    BY StepHeap DEF LibcInv, StillThere
  <2>4. w.b \in blocks /\ w.len \in Nat /\ w.len <= w.b.n /\ Watched(mem, w)
    BY <2>1 DEF LibcInv, WatchOK, Running
  <2>5. IsBlock(mem, w.b)
    BY <2>2, <2>4 DEF Partition
  <2>6. w.b.at \in Nat /\ w.b.n \in Nat
    BY <2>5 DEF IsBlock
  <2>7. ASSUME NEW a \in Words(w.b.at, w.len)
        PROVE  mem'[a] = w.v
    <3>1. a \in Int /\ w.b.at <= a /\ a < w.b.at + w.b.n
      BY <2>4, <2>6 DEF Words
    <3>2. mem'[a] = mem[a]
      BY <2>3, <2>4, <3>1 DEF BodiesKept
    <3>3. QED
      BY <2>4, <3>2 DEF Watched
  <2>8. QED
    BY <2>7 DEF Watched
<1>3. QED
  BY <1>1, <1>2

\* A step of the allocators in which no watched block is freed, and after
\* which the new blocks were not there before.
LEMMA AllocatorStep ==
  ASSUME LibcInv, [Next]_vars, UNCHANGED watched,
         \A w \in watched : w.b \in blocks' /\ w.b \notin call'.new
  PROVE  WatchOK'
<1>1. \A w \in watched : w \in [b : blocks, v : Int, len : Nat] /\ w.len <= w.b.n
  BY DEF LibcInv, WatchOK
<1>2. \A w \in watched : w \in [b : blocks', v : Int, len : Nat]
  BY <1>1
<1>3. ~released' /\ ~panicked' => \A w \in watched : Watched(mem', w)
  BY StayWatched
<1>4. QED
  BY <1>1, <1>2, <1>3, Zenon DEF WatchOK

\* The same when a block is freed and nothing of it is watched any more.
LEMMA ForgetStep ==
  ASSUME LibcInv, NEW b \in blocks, Kfree(b), Forget(b) \/ (UNCHANGED watched /\ b \in call.new),
         call' = Idle
  PROVE  LibcInv'
<1>1. Next
  BY DEF Next
<1>2. Inv' /\ blocks' = blocks \ {b}
  BY <1>1, StepHeap DEF LibcInv, Kfree
<1>3. CallOK'
  BY DEF CallOK, Idle, HeapFunctions
<1>4. \A w \in watched' : w \in watched /\ w.b # b
  BY DEF Forget, LibcInv, WatchOK
<1>5. \A w \in watched' : w \in [b : blocks', v : Int, len : Nat] /\ w.len <= w.b.n /\ w.b \in blocks'
  <2>1. \A w \in watched : w \in [b : blocks, v : Int, len : Nat] /\ w.len <= w.b.n
    BY DEF LibcInv, WatchOK
  <2>2. QED
    BY <1>2, <1>4, <2>1
<1>6. \A w \in watched' : w.b \notin call'.new
  BY DEF Idle
<1>7. ~released' /\ ~panicked' => \A w \in watched' : Watched(mem', w)
  BY <1>1, <1>4, <1>5, StayWatched
<1>8. WatchOK'
  BY <1>5, <1>6, <1>7, Zenon DEF WatchOK
<1>9. QED
  BY <1>2, <1>3, <1>8 DEF LibcInv

\* malloc and calloc: the block is filled, and may be watched.
LEMMA FillStep ==
  ASSUME LibcInv, Running, NEW b \in call.new, NEW v \in {0, -1},
         mem' = Fill(b, v), MayWatch(b, v), call' = Idle,
         UNCHANGED <<blocks, want, init_free, released, clobbered, panicked>>
  PROVE  LibcInv'
<1>1. PICK P, B : Partition(mem, blocks, P, B, Ram(init_free)) /\ Aligned(P)
  BY DEF LibcInv, Inv, HeapOK
<1>2. b \in blocks
  BY DEF LibcInv, CallOK
<1>3. IsBlock(mem, b) /\ mem \in [Addr -> Int]
  BY <1>1, <1>2 DEF Partition
<1>4. b.at \in Nat /\ b.n \in Nat
  BY <1>3 DEF IsBlock
<1>5. \A x \in Addr : x \in Words(b.at, b.n) <=> b.at <= x /\ x < b.at + b.n
  BY <1>4, Layout DEF Words
<1>6. /\ mem' \in [Addr -> Int]
      /\ \A x \in Addr : mem'[x] = IF x \in Words(b.at, b.n) THEN v ELSE mem[x]
  BY <1>3 DEF Fill
<1>7. Partition(mem', blocks, P, B, Ram(init_free)) /\ Kept(mem, mem', blocks \ {b})
  BY <1>1, <1>2, <1>5, <1>6, StoreInBlock
<1>8. Inv'
  <2>1. TypeOK' /\ HeapOK'
    BY <1>1, <1>7 DEF LibcInv, Inv, TypeOK, HeapOK, Running
  <2>2. HeadersIn(mem', blocks, clobbered')
    BY <1>7, PartitionHeaders
  <2>3. HeadersIntact'
    BY <2>2 DEF HeadersIntact, HeadersIn
  <2>4. QED
    BY <2>1, <2>3 DEF Inv
<1>9. CallOK'
  BY DEF CallOK, Idle, HeapFunctions
<1>10. \A w \in watched : /\ w \in [b : blocks, v : Int, len : Nat] /\ w.len <= w.b.n
                          /\ w.b # b /\ Watched(mem', w)
  <2>1. ASSUME NEW w \in watched
        PROVE  /\ w \in [b : blocks, v : Int, len : Nat] /\ w.len <= w.b.n
               /\ w.b # b /\ Watched(mem, w)
    BY DEF LibcInv, WatchOK, Running
  <2>2. ASSUME NEW w \in watched
        PROVE  Watched(mem', w)
    <3>1. w.b \in blocks \ {b} /\ w.len \in Nat
      BY <2>1
    <3>2. QED
      BY <1>1, <1>7, <2>1, <3>1, WatchedKept
  <2>3. QED
    BY <2>1, <2>2
<1> DEFINE z == [b |-> b, v |-> v, len |-> b.n]
<1>11. z \in [b : blocks, v : Int, len : Nat] /\ z.b = b /\ z.len <= z.b.n /\ Watched(mem', z)
  <2>1. z.b = b /\ z.v = v /\ z.len = b.n /\ z \in [b : blocks, v : Int, len : Nat]
    BY <1>2, <1>4
  <2> HIDE DEF z
  <2>2. \A a \in Words(b.at, b.n) : mem'[a] = v
    <3>1. \A a \in Words(b.at, b.n) : a \in Addr
      <4>1. ASSUME NEW a \in Words(b.at, b.n)
            PROVE  a \in Addr
        <5>1. a \in Int /\ b.at <= a /\ a < b.at + b.n
          BY <1>4 DEF Words
        <5>2. QED
          BY <1>1, <1>2, <5>1, BodyHeld
      <4>2. QED
        BY <4>1
    <3>2. QED
      BY <1>6, <3>1
  <2>3. QED
    BY <1>4, <2>1, <2>2 DEF Watched
<1>12. \A w \in watched' : w \in watched \/ w = z
  BY DEF MayWatch
<1> HIDE DEF z
<1>13. \A w \in watched' : /\ w \in [b : blocks', v : Int, len : Nat] /\ w.len <= w.b.n
                           /\ w.b \notin call'.new /\ Watched(mem', w)
  BY <1>10, <1>11, <1>12 DEF Idle
<1>14. WatchOK'
  BY <1>13, Zenon DEF WatchOK
<1>15. QED
  BY <1>8, <1>9, <1>14 DEF LibcInv

\* What is watched after realloc has copied.
Moved(w, b, old) ==
  IF w.b = old THEN [w EXCEPT !.b = b, !.len = Shorter(@, b.n)] ELSE w

\* realloc: the contents are copied, and what was watched in the old block is
\* watched in the new one.
LEMMA CopyStep ==
  ASSUME LibcInv, Running, NEW b \in call.new, NEW old \in call.old,
         mem' = Copied(b, old),
         \A y \in watched' : \E w \in watched : y = Moved(w, b, old),
         call' = [f |-> "free", old |-> call.old, new |-> {}],
         UNCHANGED <<blocks, want, init_free, released, clobbered, panicked>>
  PROVE  LibcInv'
<1>1. PICK P, B : Partition(mem, blocks, P, B, Ram(init_free)) /\ Aligned(P)
  BY DEF LibcInv, Inv, HeapOK
<1>2. b \in blocks /\ old \in blocks
  BY DEF LibcInv, CallOK
<1>3. IsBlock(mem, b) /\ IsBlock(mem, old) /\ mem \in [Addr -> Int]
  BY <1>1, <1>2 DEF Partition
<1>4. b.at \in Nat /\ b.n \in Nat /\ old.at \in Nat /\ old.n \in Nat
  BY <1>3 DEF IsBlock
<1>5. \A x \in Addr : x \in Words(b.at, b.n) <=> b.at <= x /\ x < b.at + b.n
  <2>1. \A x \in Addr : x \in Int
    BY Layout
  <2>2. b.at \in Int /\ b.n \in Int
    BY <1>4
  <2>3. QED
    BY <2>1, <2>2, WordsAre
<1>6. /\ mem' \in [Addr -> Int]
      /\ \A x \in Addr : mem'[x] = IF x \in Words(b.at, b.n) THEN Read(old.at + x - b.at) ELSE mem[x]
  <2>1. ASSUME NEW x
        PROVE  Read(x) \in Int
    <3>1. CASE x \in Addr
      BY <1>3, <3>1, Zenon DEF Read
    <3>2. CASE x \notin Addr
      <4>1. -1 \in Int
        OBVIOUS
      <4>2. QED
        BY <3>2, <4>1, Zenon DEF Read
    <3>3. QED
      BY <3>1, <3>2
  <2>2. QED
    BY <1>3, <2>1 DEF Copied
<1>7. Partition(mem', blocks, P, B, Ram(init_free)) /\ Kept(mem, mem', blocks \ {b})
  BY <1>1, <1>2, <1>5, <1>6, StoreInBlock
<1>8. Inv'
  <2>1. TypeOK' /\ HeapOK'
    BY <1>1, <1>7 DEF LibcInv, Inv, TypeOK, HeapOK, Running
  <2>2. HeadersIn(mem', blocks, clobbered')
    BY <1>7, PartitionHeaders
  <2>3. HeadersIntact'
    BY <2>2 DEF HeadersIntact, HeadersIn
  <2>4. QED
    BY <2>1, <2>3 DEF Inv
<1>9. CallOK' /\ call'.new = {}
  BY DEF LibcInv, CallOK, Idle, HeapFunctions
<1>10. ASSUME NEW w \in watched
       PROVE  /\ w \in [b : blocks, v : Int, len : Nat] /\ w.len <= w.b.n
              /\ w.b # b /\ Watched(mem, w)
  BY DEF LibcInv, WatchOK, Running
<1>11. ASSUME NEW w \in watched, w.b # old
       PROVE  Watched(mem', w)
  <2>1. w.b \in blocks \ {b} /\ w.len \in Nat
    BY <1>10
  <2>2. QED
    BY <1>1, <1>7, <1>10, <2>1, WatchedKept
<1>12. ASSUME NEW w \in watched, w.b = old,
              NEW z, z = [w EXCEPT !.b = b, !.len = Shorter(@, b.n)]
       PROVE  z \in [b : blocks, v : Int, len : Nat] /\ z.len <= z.b.n /\ Watched(mem', z)
  <2>1. w \in [b : blocks, v : Int, len : Nat] /\ w.len <= old.n /\ Watched(mem, w)
    BY <1>10, <1>12
  <2>2. Shorter(w.len, b.n) \in Nat /\ Shorter(w.len, b.n) <= w.len /\ Shorter(w.len, b.n) <= b.n
    <3>1. w.len \in Nat /\ b.n \in Nat
      BY <1>4, <2>1
    <3>2. QED
      BY <3>1, ShorterIs
  <2> DEFINE len == Shorter(w.len, b.n)
  <2>3. z = [b |-> b, v |-> w.v, len |-> len]
    <3>1. len = Shorter(w.len, b.n)
      OBVIOUS
    <3> HIDE DEF len
    <3>2. QED
      BY <1>12, <2>1, <3>1
  <2> HIDE DEF len
  <2>4. z.b = b /\ z.v = w.v /\ z.len = len /\ len \in Nat /\ len <= w.len /\ len <= b.n
        /\ z \in [b : blocks, v : Int, len : Nat]
    BY <1>2, <2>1, <2>2, <2>3 DEF len
  <2>5. ASSUME NEW a \in Words(b.at, len)
        PROVE  mem'[a] = w.v
    <3>1. a \in Int /\ b.at <= a /\ a < b.at + len
      <4>1. b.at \in Int /\ len \in Int
        BY <1>4, <2>4
      <4>2. QED
        BY <2>5, <4>1, WordsAre
    <3>2. a < b.at + b.n
      <4>1. b.at \in Nat /\ b.n \in Nat /\ len \in Nat /\ len <= b.n
        BY <1>4, <2>4
      <4>2. QED
        BY <3>1, <4>1
    <3>3. a \in Addr
      BY <1>1, <1>2, <3>1, <3>2, BodyHeld
    <3>4. mem'[a] = Read(old.at + a - b.at)
      BY <1>5, <1>6, <3>1, <3>2, <3>3
    <3> DEFINE c == old.at + a - b.at
    <3>5. c \in Int /\ old.at <= c /\ c < old.at + w.len /\ c < old.at + old.n
      <4>1. w.len \in Nat /\ w.len <= old.n /\ len \in Nat /\ len <= w.len
        BY <2>1, <2>4
      <4>2. old.at \in Nat /\ old.n \in Nat /\ b.at \in Nat
        BY <1>4
      <4>3. QED
        BY <3>1, <4>1, <4>2, CopySource
    <3> HIDE DEF c
    <3>6. c \in Addr
      BY <1>1, <1>2, <3>5, BodyHeld
    <3>7. c \in Words(w.b.at, w.len)
      <4>1. old.at \in Int /\ w.len \in Int
        BY <1>4, <2>1
      <4>2. QED
        BY <1>12, <3>5, <4>1, WordsAre
    <3>8. mem[c] = w.v
      BY <2>1, <3>7 DEF Watched
    <3>9. QED
      BY <3>4, <3>6, <3>8 DEF Read, c
  <2>6. Watched(mem', z)
    BY <2>4, <2>5 DEF Watched
  <2>7. QED
    BY <2>4, <2>6
<1>13. ASSUME NEW y \in watched'
       PROVE  y \in [b : blocks, v : Int, len : Nat] /\ y.len <= y.b.n /\ Watched(mem', y)
  <2>1. PICK w \in watched : y = Moved(w, b, old)
    OBVIOUS
  <2>2. CASE w.b = old
    BY <1>12, <2>1, <2>2, Zenon DEF Moved
  <2>3. CASE w.b # old
    <3>1. y = w
      BY <2>1, <2>3, Zenon DEF Moved
    <3>2. QED
      BY <1>10, <1>11, <2>3, <3>1
  <2>4. QED
    BY <2>2, <2>3
<1>14. \A y \in watched' : /\ y \in [b : blocks', v : Int, len : Nat] /\ y.len <= y.b.n
                           /\ y.b \notin call'.new /\ Watched(mem', y)
  BY <1>9, <1>13
<1>15. WatchOK'
  BY <1>14, Zenon DEF WatchOK
<1>16. QED
  BY <1>8, <1>9, <1>15 DEF LibcInv

\* A step that the heap functions do not see.
LEMMA QuietStep ==
  ASSUME LibcInv, [Next]_vars, UNCHANGED <<blocks, call, watched>>
  PROVE  LibcInv'
<1>1. Inv'
  BY StepHeap DEF LibcInv
<1>2. CallOK'
  BY DEF LibcInv, CallOK
<1>3. \A w \in watched : w.b \in blocks' /\ w.b \notin call'.new
  BY DEF LibcInv, WatchOK
<1>4. QED
  BY <1>1, <1>2, <1>3, AllocatorStep DEF LibcInv

\* The beginning of a heap function.
LEMMA BeginStep ==
  ASSUME LibcInv, NEW f \in HeapFunctions, NEW n \in Sizes, NEW old \in SUBSET blocks,
         Begin(f, n, old)
  PROVE  LibcInv'
<1>1. /\ Kalloc(n) /\ call' = [Idle EXCEPT !.f = f, !.old = old] /\ UNCHANGED <<blocks, watched>>
  BY DEF Begin, Kalloc
<1>2. Next
  BY <1>1 DEF Next
<1>3. Inv'
  BY <1>2, StepHeap DEF LibcInv
<1>4. CallOK' /\ call'.new = {}
  BY <1>1 DEF CallOK, Idle
<1>5. \A w \in watched : w.b \in blocks' /\ w.b \notin call'.new
  BY <1>1, <1>4 DEF LibcInv, WatchOK
<1>6. QED
  BY <1>1, <1>2, <1>3, <1>4, <1>5, AllocatorStep DEF LibcInv

\* The end of kalloc.
LEMMA TakeStep ==
  ASSUME LibcInv, Take
  PROVE  LibcInv'
<1>1. /\ KallocTake /\ call' = [call EXCEPT !.new = blocks' \ blocks] /\ UNCHANGED watched
      /\ blocks \subseteq blocks'
  BY DEF Take, KallocTake
<1>2. Next
  BY <1>1 DEF Next
<1>3. Inv'
  BY <1>2, StepHeap DEF LibcInv
<1>4. CallOK' /\ call'.new = blocks' \ blocks
  BY <1>1 DEF LibcInv, CallOK
<1>5. \A w \in watched : w.b \in blocks' /\ w.b \notin call'.new
  <2>1. \A w \in watched : w.b \in blocks
    BY DEF LibcInv, WatchOK
  <2>2. QED
    BY <1>1, <1>4, <2>1
<1>6. QED
  BY <1>1, <1>2, <1>3, <1>4, <1>5, AllocatorStep DEF LibcInv

LEMMA FinishStep ==
  ASSUME LibcInv, Finish
  PROVE  LibcInv'
<1>1. Running /\ UNCHANGED <<blocks, want, init_free, released, clobbered, panicked, errno, result>>
  BY Zenon DEF Finish
<1>2. PICK b \in call.new :
        \/ mem' = Fill(b, -1) /\ MayWatch(b, -1) /\ call' = Idle
        \/ mem' = Fill(b, 0) /\ MayWatch(b, 0) /\ call' = Idle
        \/ /\ call' = [Idle EXCEPT !.f = "free", !.old = call.old]
           /\ \E old \in call.old :
                /\ mem' = Copied(b, old)
                /\ watched' = {Moved(w, b, old) : w \in watched}
  BY Zenon DEF Finish, Moved
<1>3. CASE mem' = Fill(b, -1) /\ MayWatch(b, -1) /\ call' = Idle
  BY <1>1, <1>3, FillStep
<1>4. CASE mem' = Fill(b, 0) /\ MayWatch(b, 0) /\ call' = Idle
  BY <1>1, <1>4, FillStep
<1>5. ASSUME NEW old \in call.old, mem' = Copied(b, old),
             watched' = {Moved(w, b, old) : w \in watched},
             call' = [Idle EXCEPT !.f = "free", !.old = call.old]
      PROVE  LibcInv'
  <2>1. \A y \in watched' : \E w \in watched : y = Moved(w, b, old)
    BY <1>5, Zenon
  <2>2. call' = [f |-> "free", old |-> call.old, new |-> {}]
    BY <1>5 DEF Idle
  <2>3. QED
    BY <1>1, <1>5, <2>1, <2>2, CopyStep
<1>6. QED
  BY <1>2, <1>3, <1>4, <1>5

\* A pure function changes nothing of the heap.
LEMMA PureStep ==
  ASSUME LibcInv, Pure
  PROVE  LibcInv'
<1>1. CASE exit
  <2>1. /\ panicked' = TRUE /\ UNCHANGED <<mem, blocks, want, init_free, released, clobbered, call, watched>>
    BY <1>1 DEF exit
  <2>2. Inv'
    BY <2>1 DEF LibcInv, Inv, TypeOK, HeapOK, HeadersIntact, Running
  <2>3. CallOK' /\ WatchOK'
    BY <2>1 DEF LibcInv, CallOK, WatchOK, Running
  <2>4. QED
    BY <2>2, <2>3 DEF LibcInv
<1>2. CASE UNCHANGED <<vars, call, watched>>
  BY <1>2, QuietStep DEF vars
<1>3. QED
  <2>1. ASSUME NEW r, NEW e, Returns(r, e)
        PROVE  UNCHANGED <<vars, call, watched>>
    BY <2>1, Zenon DEF Returns
  <2>2. exit \/ \E r, e : Returns(r, e)
    BY Zenon DEF Pure, sprintf, sprintfText, sprintfAny, CallStrtoul, CallCompare, CallSearch,
                 CallFopen, Stub
  <2>3. QED
    BY <1>1, <1>2, <2>1, <2>2

LEMMA LibcStep ==
  ASSUME LibcInv, [LibcNext]_<<vars, libcVars>>
  PROVE  LibcInv'
<1>1. ASSUME NEW n \in Sizes, malloc(n) \/ calloc(n) \/ qsort(n)
      PROVE  LibcInv'
  <2>1. \E f \in HeapFunctions : Begin(f, n, {})
    BY <1>1 DEF malloc, calloc, qsort, HeapFunctions
  <2>2. {} \in SUBSET blocks
    OBVIOUS
  <2>3. QED
    BY <2>1, <2>2, BeginStep
<1>2. ASSUME NEW b \in blocks, NEW n \in Sizes, realloc(b, n)
      PROVE  LibcInv'
  <2>1. Begin("realloc", n, {b}) /\ "realloc" \in HeapFunctions /\ {b} \in SUBSET blocks
    BY <1>2 DEF realloc, HeapFunctions
  <2>2. QED
    BY <2>1, BeginStep
<1>3. ASSUME NEW b \in blocks, free(b)
      PROVE  LibcInv'
  <2>1. Kfree(b) /\ Forget(b) /\ call' = Idle
    BY <1>3 DEF free
  <2>2. QED
    BY <2>1, ForgetStep
<1>4. CASE Grow
  <2>1. KallocGrow /\ UNCHANGED <<blocks, call, watched>>
    BY <1>4 DEF Grow, KallocGrow, libcVars
  <2>2. QED
    BY <2>1, QuietStep DEF Next
<1>5. CASE ReallocFree
  <2>1. PICK b \in call.old : Kfree(b) /\ Forget(b) /\ call' = Idle
    BY <1>5 DEF ReallocFree
  <2>2. b \in blocks
    BY DEF LibcInv, CallOK
  <2>3. QED
    BY <2>1, <2>2, ForgetStep
<1>6. CASE QsortEnd
  <2>1. PICK b \in call.new : Kfree(b) /\ UNCHANGED watched /\ call' = Idle
    BY <1>6 DEF QsortEnd
  <2>2. b \in blocks
    BY DEF LibcInv, CallOK
  <2>3. QED
    BY <2>1, <2>2, ForgetStep
<1>7. CASE InitFreed
  <2>1. FreeInit /\ UNCHANGED <<blocks, call, watched>>
    BY <1>7 DEF InitFreed, FreeInit, libcVars
  <2>2. QED
    BY <2>1, QuietStep DEF Next
<1>8. CASE UNCHANGED <<vars, libcVars>>
  BY <1>8, QuietStep DEF vars, libcVars
<1>9. CASE Heap
  BY <1>1, <1>2, <1>3, <1>4, <1>5, <1>6, <1>7, <1>9, TakeStep, FinishStep, Zenon DEF Heap
<1>10. QED
  BY <1>8, <1>9, PureStep DEF LibcNext

LEMMA LibcInitInv ==
  ASSUME LibcInit
  PROVE  LibcInv
<1>1. Init /\ call = Idle /\ watched = {}
  BY DEF LibcInit
<1>2. CallOK /\ WatchOK
  BY <1>1 DEF CallOK, WatchOK, Idle, HeapFunctions
<1>3. QED
  BY <1>1, <1>2, InitHeap DEF LibcInv

\* However the C library and the kernel allocate, grow, reallocate and free:
\* while the model runs the two lists and the allocated blocks share out memory,
\* and what is watched is where it was written.
THEOREM LibcInvariant == LibcSpec => []LibcInv
<1>1. LibcInit => LibcInv
  BY LibcInitInv
<1>2. LibcInv /\ [LibcNext]_<<vars, libcVars>> => LibcInv'
  BY LibcStep
<1>3. QED
  BY <1>1, <1>2, PTL DEF LibcSpec

\* kalloc, kfree and mem_free hand out every word once and lose none, until a page
\* is given back or a block too short for a list node is freed in front of
\* something that is not free.
THEOREM MemoryPartitionedCorrect == LibcSpec => []MemoryPartitioned
<1>1. LibcInv => MemoryPartitioned
  BY InvMeans DEF LibcInv
<1>2. QED
  BY <1>1, LibcInvariant, PTL

\* page_release and mem_free keep both lists in order and merged, as long.
THEOREM ListsCoalescedCorrect == LibcSpec => []ListsCoalesced
<1>1. LibcInv => ListsCoalesced
  BY InvMeans DEF LibcInv
<1>2. QED
  BY <1>1, LibcInvariant, PTL

\* kfree finds in the header of a block what kalloc has put there, but for the one
\* header over which mem_free stores cur->next.
THEOREM HeadersIntactCorrect == LibcSpec => []HeadersIntact
<1>1. LibcInv => HeadersIntact
  BY InvMeans DEF LibcInv
<1>2. QED
  BY <1>1, LibcInvariant, PTL

\* What the owner of a block wrote, or calloc or realloc put there, stays, also when
\* mem_free stores cur->next past the end of what it frees.
THEOREM ContentsKeptCorrect == LibcSpec => []ContentsKept
<1>1. LibcInv => ContentsKept
  BY DEF LibcInv, WatchOK, Watched, ContentsKept
<1>2. QED
  BY <1>1, LibcInvariant, PTL
=============================================================================
