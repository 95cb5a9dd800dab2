-------------------------------- MODULE Ring --------------------------------
(***************************************************************************)
(* The doubly linked circular lists of kernel/task.c.  The run list, the   *)
(* task list and every wait queue are kept by the same few pointer         *)
(* assignments around an anchor (idle_task, or the first task of a queue): *)
(* a new element goes in before the anchor, that is, at the end of the     *)
(* list.  A list is a pair of functions next and prev; an anchor that is   *)
(* alone may still have the null links it was born with.                   *)
(***************************************************************************)
CONSTANT NULL

\* x goes in before the anchor a: the new next links.
InsertNext(next, prev, a, x) ==
  IF next[a] = NULL
    THEN [next EXCEPT ![a] = x, ![x] = a]
    ELSE [next EXCEPT ![prev[a]] = x, ![x] = a]

\* x goes in before the anchor a: the new prev links.
InsertPrev(next, prev, a, x) ==
  IF next[a] = NULL
    THEN [prev EXCEPT ![a] = x, ![x] = a]
    ELSE [prev EXCEPT ![x] = prev[a], ![a] = x]

\* Mutant: x keeps its next link.
RemoveNext_Kept(next, prev, x) ==
  [next EXCEPT ![prev[x]] = next[x]]

\* x leaves the list and its own links are cleared.
RemoveNext(next, prev, x) ==
  [next EXCEPT ![prev[x]] = next[x], ![x] = NULL]

RemovePrev(next, prev, x) ==
  [prev EXCEPT ![next[x]] = prev[x], ![x] = NULL]

-----------------------------------------------------------------------------
\* next and prev are inverse to each other on S.
Linked(next, prev, S) ==
  \A x \in S : /\ next[x] \in S /\ prev[next[x]] = x
               /\ prev[x] \in S /\ next[prev[x]] = x

\* Following next from a visits all of S: a set that holds a and is closed
\* under next is S itself.
Connected(next, S, a) ==
  \A C \in SUBSET S : (a \in C /\ \A x \in C : next[x] \in C) => C = S

\* The list anchored at a is one ring, with exactly the elements of S.
IsRing(next, prev, S, a) ==
  /\ a \in S
  /\ \/ S = {a} /\ next[a] = NULL /\ prev[a] = NULL
     \/ Linked(next, prev, S) /\ Connected(next, S, a)
=============================================================================
