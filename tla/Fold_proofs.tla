----------------------------- MODULE Fold_proofs -----------------------------
(***************************************************************************)
(* Induction over the numbers, stated with a set in place of a predicate,  *)
(* and what it says about FoldLeft: a fold is the last value of a run that *)
(* starts with the base and takes one element at a time.                   *)
(*                                                                         *)
(* Op is a parameter of the module, so that a fold is reasoned about by    *)
(* instantiating the module with its operator.  The first argument of Op   *)
(* is what the operator uses besides; it stays the same in a fold.         *)
(***************************************************************************)
EXTENDS Integers, Sequences, WellFoundedInduction, TLAPS

CONSTANTS Op(_, _, _), Good(_, _)

\* A set of numbers with 0 and every successor has them all.
LEMMA Induction ==
  ASSUME NEW T, T \subseteq Nat, 0 \in T, \A n \in T : n + 1 \in T
  PROVE  Nat \subseteq T
<1> DEFINE U == Nat \ T
           L == {ss \in Nat \X Nat : ss[1] < ss[2]}
<1> SUFFICES ASSUME U # {}
             PROVE  FALSE
  OBVIOUS
<1>1. IsWellFoundedOn(L, Nat)
  BY NatLessThanWellFounded DEF OpToRel
<1>2. U \subseteq Nat
  OBVIOUS
<1>3. PICK x \in U : \A y \in U : ~(<<y, x>> \in L)
  <2> HIDE DEF L, U
  <2>1. QED
    BY <1>1, <1>2, WFMin
<1>4. x # 0 /\ x - 1 \in Nat /\ x - 1 \notin T
  BY Z3
<1>5. <<x - 1, x>> \in L
  BY <1>4
<1>6. QED
  BY <1>3, <1>4, <1>5

\* The highest of some positions, and whether there is one.
Highest(s) == CHOOSE x \in s : \A y \in s : x >= y
HasMax(s) == \E x \in s : \A y \in s : x >= y

\* A set of positions that is not empty has a last one, which Highest names.
LEMMA MaxExists ==
  ASSUME NEW n \in Nat, NEW s \in SUBSET (1..n), s # {}
  PROVE  Highest(s) \in s /\ \A y \in s : Highest(s) >= y
<1> DEFINE T == {m \in Nat : \A t \in SUBSET (1..m) : t = {} \/ HasMax(t)}
<1>1. 0 \in T
  <2>1. \A t \in SUBSET (1..0) : t = {}
    OBVIOUS
  <2>2. QED
    BY <2>1
<1>2. ASSUME NEW m \in T
      PROVE  m + 1 \in T
  <2> SUFFICES ASSUME NEW t \in SUBSET (1..(m + 1)), t # {}
               PROVE  HasMax(t)
    OBVIOUS
  <2>1. CASE m + 1 \in t
    BY <2>1 DEF HasMax
  <2>2. CASE m + 1 \notin t
    <3>1. t \in SUBSET (1..m)
      BY <2>2
    <3>2. QED
      BY <3>1
  <2>3. QED
    BY <2>1, <2>2
<1>3. Nat \subseteq T
  <2>1. T \subseteq Nat
    OBVIOUS
  <2> HIDE DEF T
  <2>2. \A m \in T : m + 1 \in T
    BY <1>2
  <2>3. QED
    BY <1>1, <2>1, <2>2, Induction
<1>4. HasMax(s)
  BY <1>3
<1>5. QED
  BY <1>4 DEF Highest, HasMax

\* The value of the fold's recursive function f for the positions s.
Step(e, f, base, seq, s) == IF s = {} THEN base ELSE Op(e, f[s \ {Highest(s)}], seq[Highest(s)])

Steps(e, f, base, seq, n) ==
  /\ f = [s \in SUBSET (1..n) |-> f[s]]
  /\ \A s \in SUBSET (1..n) : f[s] = Step(e, f, base, seq, s)

HasSteps(e, base, seq, n) == \E f : Steps(e, f, base, seq, n)

\* The function that FoldLeft chooses exists: from m positions to m + 1 ...
LEMMA StepsGrow ==
  ASSUME NEW e, NEW base, NEW seq, NEW m \in Nat, HasSteps(e, base, seq, m)
  PROVE  HasSteps(e, base, seq, m + 1)
<1>1. PICK f : Steps(e, f, base, seq, m)
  BY DEF HasSteps
<1> DEFINE g == [s \in SUBSET (1..(m + 1)) |->
                   IF m + 1 \in s THEN Op(e, f[s \ {m + 1}], seq[m + 1]) ELSE f[s]]
<1>2. \A s \in SUBSET (1..(m + 1)) :
        s \ {m + 1} \in SUBSET (1..m) /\ (m + 1 \notin s => s \in SUBSET (1..m))
  OBVIOUS
<1>3. g = [s \in SUBSET (1..(m + 1)) |-> g[s]]
  OBVIOUS
<1>4. ASSUME NEW s \in SUBSET (1..(m + 1))
      PROVE  g[s] = Step(e, g, base, seq, s)
  <2>1. CASE m + 1 \in s
    <3>1. Highest(s) = m + 1
      <4>1. m + 1 \in Nat /\ s # {}
        BY <2>1
      <4>2. Highest(s) \in s /\ \A y \in s : Highest(s) >= y
        BY <4>1, MaxExists
      <4>3. Highest(s) >= m + 1 /\ Highest(s) \in 1..(m + 1)
        BY <2>1, <4>2
      <4>4. QED
        BY <4>3
    <3>2. g[s] = Op(e, f[s \ {m + 1}], seq[m + 1])
      BY <2>1
    <3>3. s \ {m + 1} \in SUBSET (1..(m + 1)) /\ g[s \ {m + 1}] = f[s \ {m + 1}]
      BY <1>2
    <3>4. s # {}
      BY <2>1
    <3> HIDE DEF g
    <3>5. QED
      BY <3>1, <3>2, <3>3, <3>4 DEF Step
  <2>2. CASE m + 1 \notin s /\ s # {}
    <3>1. s \in SUBSET (1..m) /\ Highest(s) \in s
      BY <1>2, <2>2, MaxExists
    <3>2. /\ s \ {Highest(s)} \in SUBSET (1..m) /\ m + 1 \notin s \ {Highest(s)}
          /\ s \ {Highest(s)} \in SUBSET (1..(m + 1))
      BY <2>2, <3>1
    <3>3. g[s] = f[s] /\ g[s \ {Highest(s)}] = f[s \ {Highest(s)}]
      BY <2>2, <3>2
    <3> HIDE DEF g
    <3>4. QED
      BY <1>1, <2>2, <3>1, <3>3 DEF Step, Steps
  <2>3. CASE s = {}
    <3>1. g[s] = f[s] /\ s \in SUBSET (1..m)
      BY <1>2, <2>3
    <3> HIDE DEF g
    <3>2. QED
      BY <1>1, <2>3, <3>1 DEF Step, Steps
  <2>4. QED
    BY <2>1, <2>2, <2>3
<1> HIDE DEF g
<1>5. QED
  BY <1>3, <1>4 DEF HasSteps, Steps

\* ... and so for any number of them.
LEMMA StepsExist ==
  ASSUME NEW e, NEW base, NEW seq, NEW n \in Nat
  PROVE  HasSteps(e, base, seq, n)
<1> DEFINE T == {m \in Nat : HasSteps(e, base, seq, m)}
<1>1. HasSteps(e, base, seq, 0)
  <2> DEFINE f == [s \in SUBSET (1..0) |-> base]
  <2>1. \A s \in SUBSET (1..0) : s = {}
    OBVIOUS
  <2>2. f = [s \in SUBSET (1..0) |-> f[s]] /\ \A s \in SUBSET (1..0) : f[s] = base
    OBVIOUS
  <2> HIDE DEF f
  <2>3. QED
    BY <2>1, <2>2 DEF HasSteps, Steps, Step
<1>2. ASSUME NEW m \in T
      PROVE  m + 1 \in T
  BY StepsGrow
<1>3. Nat \subseteq T
  <2>1. T \subseteq Nat /\ 0 \in T
    BY <1>1
  <2> HIDE DEF T
  <2>2. \A m \in T : m + 1 \in T
    BY <1>2
  <2>3. QED
    BY <2>1, <2>2, Induction
<1>4. QED
  BY <1>3

-----------------------------------------------------------------------------
\* FoldLeft of SequencesExt with its definitions expanded: an instance of this
\* module does not bring those modules along.
Result(e, base, seq) ==
  LET iter[s \in SUBSET (DOMAIN seq)] ==
        IF s = {} THEN base ELSE LET x == Highest(s) IN Op(e, iter[s \ {x}], seq[x])
  IN  iter[DOMAIN seq]

\* r is the fold of seq with all its values on the way.
IsRun(e, r, base, seq) ==
  /\ r[0] = base
  /\ \A k \in 1..Len(seq) : r[k] = Op(e, r[k - 1], seq[k])
  /\ r[Len(seq)] = Result(e, base, seq)

HasRun(e, base, seq) == \E r : IsRun(e, r, base, seq)

(* Every fold of a sequence has a run.                                     *)
THEOREM FoldRun ==
  ASSUME NEW e, NEW C, NEW base, NEW seq \in Seq(C)
  PROVE  HasRun(e, base, seq)
<1> DEFINE n == Len(seq)
           iter == CHOOSE f : f = [s \in SUBSET (DOMAIN seq) |->
                     IF s = {} THEN base ELSE LET x == Highest(s) IN Op(e, f[s \ {x}], seq[x])]
<1>1. Result(e, base, seq) = iter[DOMAIN seq]
  BY DEF Result
<1>2. DOMAIN seq = 1..n /\ n \in Nat
  OBVIOUS
<1>3. PICK f : Steps(e, f, base, seq, n)
  BY <1>2, StepsExist DEF HasSteps
<1>4. f = [s \in SUBSET (DOMAIN seq) |->
            IF s = {} THEN base ELSE LET x == Highest(s) IN Op(e, f[s \ {x}], seq[x])]
  <2>1. f = [s \in SUBSET (1..n) |-> f[s]]
    BY <1>3 DEF Steps
  <2>2. [s \in SUBSET (1..n) |-> f[s]] = [s \in SUBSET (DOMAIN seq) |-> Step(e, f, base, seq, s)]
    BY <1>2, <1>3 DEF Steps
  <2>3. QED
    BY <2>1, <2>2 DEF Step
<1>5. iter = [s \in SUBSET (DOMAIN seq) |->
               IF s = {} THEN base ELSE LET x == Highest(s) IN Op(e, iter[s \ {x}], seq[x])]
  BY <1>4, Zenon
<1> HIDE DEF iter
<1>6. \A s \in SUBSET (1..n) : iter[s] = Step(e, iter, base, seq, s)
  BY <1>2, <1>5 DEF Step
<1>7. ASSUME NEW k \in 1..n
      PROVE  iter[1..k] = Op(e, iter[1..(k - 1)], seq[k])
  <2>1. k \in Nat /\ 1..k \in SUBSET (1..n) /\ 1..k \in SUBSET (1..k) /\ 1..k # {} /\ k \in 1..k
    <3>1. k \in Nat /\ k <= n /\ k >= 1
      BY <1>2
    <3>2. k \in 1..k
      BY <3>1
    <3>3. \A i \in 1..k : i \in 1..n
      BY <1>2, <3>1
    <3>4. QED
      BY <3>1, <3>2, <3>3
  <2>2. Highest(1..k) \in 1..k /\ Highest(1..k) >= k
    BY <2>1, MaxExists
  <2>3. Highest(1..k) = k /\ (1..k) \ {k} = 1..(k - 1)
    BY <2>1, <2>2
  <2>4. QED
    BY <1>6, <2>1, <2>3 DEF Step
<1>8. iter[1..0] = base
  <2>1. 1..0 = {} /\ 1..0 \in SUBSET (1..n)
    BY <1>2
  <2>2. QED
    BY <1>6, <2>1 DEF Step
<1> DEFINE r == [k \in 0..n |-> iter[1..k]]
<1>9. r[0] = base /\ r[n] = Result(e, base, seq)
  BY <1>1, <1>2, <1>8
<1>10. ASSUME NEW k \in 1..n
       PROVE  r[k] = Op(e, r[k - 1], seq[k])
  <2>1. k \in 0..n /\ k - 1 \in 0..n
    BY <1>2
  <2>2. r[k] = iter[1..k] /\ r[k - 1] = iter[1..(k - 1)]
    BY <2>1
  <2>3. QED
    BY <1>7, <2>2
<1> HIDE DEF r
<1>11. QED
  BY <1>9, <1>10 DEF HasRun, IsRun

(* What holds of the base and is kept by every element holds of the fold.  *)
THEOREM FoldInvariant ==
  ASSUME NEW e, NEW C, NEW base, NEW seq \in Seq(C), Good(e, base),
         \A s, c : Good(e, s) /\ c \in C => Good(e, Op(e, s, c))
  PROVE  Good(e, Result(e, base, seq))
<1>1. PICK r : IsRun(e, r, base, seq)
  BY FoldRun DEF HasRun
<1> DEFINE T == {k \in Nat : k <= Len(seq) => Good(e, r[k])}
<1>2. T \subseteq Nat /\ 0 \in T
  BY <1>1 DEF IsRun
<1>3. ASSUME NEW k \in T
      PROVE  k + 1 \in T
  <2> SUFFICES ASSUME k + 1 <= Len(seq)
               PROVE  Good(e, r[k + 1])
    OBVIOUS
  <2>1. k + 1 \in 1..Len(seq) /\ k + 1 - 1 = k /\ Good(e, r[k]) /\ seq[k + 1] \in C
    OBVIOUS
  <2>2. r[k + 1] = Op(e, r[k], seq[k + 1])
    BY <1>1, <2>1 DEF IsRun
  <2>3. QED
    BY <2>1, <2>2
<1>4. Nat \subseteq T
  <2> HIDE DEF T
  <2>1. \A k \in T : k + 1 \in T
    BY <1>3
  <2>2. QED
    BY <1>2, <2>1, Induction
<1>5. Len(seq) \in T
  BY <1>4
<1>6. QED
  BY <1>1, <1>5 DEF IsRun

\* r runs through the first n elements.
Runs(e, r, seq, n) == \A k \in 1..n : r[k] = Op(e, r[k - 1], seq[k])

\* Two runs over the same elements are the same.
LEMMA RunsAgree ==
  ASSUME NEW e, NEW r, NEW q, NEW seq, NEW n \in Nat,
         r[0] = q[0], Runs(e, r, seq, n), Runs(e, q, seq, n)
  PROVE  r[n] = q[n]
<1> DEFINE T == {k \in Nat : k <= n => r[k] = q[k]}
<1>1. T \subseteq Nat /\ 0 \in T
  OBVIOUS
<1>2. ASSUME NEW k \in T
      PROVE  k + 1 \in T
  <2> SUFFICES ASSUME k + 1 <= n
               PROVE  r[k + 1] = q[k + 1]
    OBVIOUS
  <2>1. k + 1 \in 1..n /\ k + 1 - 1 = k /\ r[k] = q[k]
    OBVIOUS
  <2>2. r[k + 1] = Op(e, r[k], seq[k + 1]) /\ q[k + 1] = Op(e, q[k], seq[k + 1])
    BY <2>1 DEF Runs
  <2>3. QED
    BY <2>1, <2>2
<1>3. Nat \subseteq T
  <2> HIDE DEF T
  <2>1. \A k \in T : k + 1 \in T
    BY <1>2
  <2>2. QED
    BY <1>1, <2>1, Induction
<1>4. QED
  BY <1>3

(* A fold of two sequences, one after the other.                           *)
THEOREM FoldConcat ==
  ASSUME NEW e, NEW C, NEW base, NEW seq \in Seq(C), NEW more \in Seq(C)
  PROVE  Result(e, base, seq \o more) = Result(e, Result(e, base, seq), more)
<1> DEFINE n == Len(seq)
           m == Len(more)
           all == seq \o more
<1>1. /\ all \in Seq(C) /\ Len(all) = n + m /\ n \in Nat /\ m \in Nat
      /\ \A k \in 1..n : all[k] = seq[k]
      /\ \A k \in 1..m : all[n + k] = more[k]
  OBVIOUS
<1> HIDE DEF all
<1>2. PICK r : IsRun(e, r, base, all)
  BY <1>1, FoldRun DEF HasRun
<1>3. PICK p : IsRun(e, p, base, seq)
  BY FoldRun DEF HasRun
<1>4. PICK q : IsRun(e, q, Result(e, base, seq), more)
  BY FoldRun DEF HasRun
<1>5. r[n] = p[n]
  <2>1. Runs(e, r, seq, n) /\ Runs(e, p, seq, n)
    BY <1>1, <1>2, <1>3 DEF IsRun, Runs
  <2>2. r[0] = p[0]
    BY <1>2, <1>3 DEF IsRun
  <2>3. QED
    BY <1>1, <2>1, <2>2, RunsAgree
<1> DEFINE s == [k \in 0..m |-> r[n + k]]
<1>6. s[m] = q[m]
  <2>1. s[0] = r[n] /\ s[m] = r[n + m]
    BY <1>1
  <2>2. s[0] = q[0]
    BY <1>3, <1>4, <1>5, <2>1 DEF IsRun
  <2>3. ASSUME NEW k \in 1..m
        PROVE  s[k] = Op(e, s[k - 1], more[k]) /\ q[k] = Op(e, q[k - 1], more[k])
    <3>1. /\ k \in 0..m /\ k - 1 \in 0..m /\ n + k \in 1..(n + m)
          /\ n + k - 1 = n + (k - 1)
      BY <1>1
    <3>2. s[k] = r[n + k] /\ s[k - 1] = r[n + (k - 1)]
      BY <3>1
    <3>3. r[n + k] = Op(e, r[n + k - 1], all[n + k])
      BY <1>1, <1>2, <3>1 DEF IsRun
    <3> HIDE DEF s
    <3>4. QED
      BY <1>1, <1>4, <3>1, <3>2, <3>3 DEF IsRun
  <2> HIDE DEF s
  <2>4. Runs(e, s, more, m) /\ Runs(e, q, more, m)
    BY <2>3 DEF Runs
  <2>5. QED
    BY <1>1, <2>2, <2>4, RunsAgree
<1>7. s[m] = r[n + m]
  BY <1>1
<1> HIDE DEF s
<1>8. QED
  BY <1>1, <1>2, <1>4, <1>6, <1>7 DEF IsRun, all

(* The fold of nothing.                                                    *)
THEOREM FoldEmpty ==
  ASSUME NEW e, NEW base
  PROVE  Result(e, base, <<>>) = base
<1>1. <<>> \in Seq({}) /\ Len(<<>>) = 0
  OBVIOUS
<1>2. PICK r : IsRun(e, r, base, <<>>)
  BY <1>1, FoldRun DEF HasRun
<1>3. QED
  BY <1>1, <1>2 DEF IsRun

(* One element more.                                                       *)
THEOREM FoldAppend ==
  ASSUME NEW e, NEW C, NEW base, NEW seq \in Seq(C), NEW c \in C
  PROVE  Result(e, base, Append(seq, c)) = Op(e, Result(e, base, seq), c)
<1> DEFINE one == <<c>>
           r == Result(e, base, seq)
<1>1. one \in Seq(C) /\ Len(one) = 1 /\ one[1] = c /\ seq \o one = Append(seq, c)
  OBVIOUS
<1> HIDE DEF one
<1>2. Result(e, base, seq \o one) = Result(e, r, one)
  <2>1. one \in Seq(C)
    BY <1>1
  <2>2. QED
    BY <2>1, FoldConcat
<1> HIDE DEF r
<1>3. PICK q : IsRun(e, q, r, one)
  BY <1>1, FoldRun DEF HasRun
<1>4. q[0] = r /\ q[1] = Op(e, q[0], one[1]) /\ q[1] = Result(e, r, one)
  <2>1. 1 \in 1..Len(one) /\ 1 - 1 = 0
    BY <1>1
  <2>2. q[1] = Op(e, q[1 - 1], one[1])
    BY <1>3, <2>1 DEF IsRun
  <2>3. QED
    BY <1>1, <1>3, <2>1, <2>2 DEF IsRun
<1>5. Result(e, base, Append(seq, c)) = Op(e, r, c)
  BY <1>1, <1>2, <1>4
<1>6. QED
  BY <1>5 DEF r
=============================================================================
