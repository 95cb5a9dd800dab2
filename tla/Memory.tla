------------------------------- MODULE Memory -------------------------------
(***************************************************************************)
(* The two allocators of kernel/memory.c: the list of free pages and, on   *)
(* top of it, the list of free blocks behind kalloc and kfree.  Both lists *)
(* live in the free memory itself, so memory is modelled: a function from  *)
(* addresses to words, in units of 4 bytes.  A list node at address a has  *)
(* its length in word a (`pages' or `size') and its next pointer in word   *)
(* a + 1; a block header is the one word in front of the block.            *)
(*                                                                         *)
(* Address 0 is the null pointer.  Page 0 stands for the kernel's data,    *)
(* where the two list heads are; the init segment, a page of BSS and the   *)
(* free RAM follow, each on a page boundary (vmkernel.lds).                *)
(* Nothing in the code rounds a size, so the one size that is not a number *)
(* of words and matters is one of less than a word: 0 words stand for 0 to *)
(* 3 bytes.  Such a block is, with its header, shorter than a list node.   *)
(*                                                                         *)
(* The model ends with the first page that mem_free gives back (released), *)
(* with a list node that is stored past the end of what is freed           *)
(* (clobbered), or with a panic.                                           *)
(***************************************************************************)
EXTENDS Integers, Sequences, FiniteSets, Functions

CONSTANTS
  PageWords,  \* words in a page (1024 in the code)
  InitWords,  \* words from __init_begin to __init_end
  RamPages,   \* pages from memory_start to memory_end
  PageNumbers, \* values of the unsigned shorts that number and count pages (65536)
  Sizes,      \* block sizes asked for, in words; 0 for less than a word
  MaxBlocks   \* bound: blocks allocated at a time

ASSUME MemoryAssumption ==
  /\ PageWords \in Nat /\ PageWords > 5
  /\ InitWords \in Nat /\ InitWords > 1 /\ RamPages \in Nat \ {0}
  /\ PageNumbers \in Nat \ {0}
  /\ Sizes \subseteq Nat
  /\ MaxBlocks \in Nat

pages_head  == 1
blocks_head == 3
FreeBlock   == 2   \* sizeof(struct freeblock)
BlockHeader == 1   \* sizeof(struct blockheader)
InitBegin   == PageWords
BssStart    == ((InitBegin + InitWords + PageWords - 1) \div PageWords) * PageWords
MemoryStart == BssStart + PageWords
MemoryEnd   == MemoryStart + RamPages * PageWords
Addr        == 0..MemoryEnd   \* a node at the end of the RAM may reach past it

\* A page number, or a number of pages, that is stored or passed on.
Short(n) == n % PageNumbers

page_to_addr(page) == page * PageWords
addr_to_page(a)    == Short(a \div PageWords)

VARIABLES
  mem,       \* address -> word
  blocks,    \* the blocks that are allocated: {[at, n]}, without header
  want,      \* the size kalloc is looking for, or Nothing
  init_free, \* has kernel_init given the init segment back?
  released,  \* has mem_free given a page back?
  clobbered, \* the word that mem_free has stored past what it frees, or 0
  panicked

vars == <<mem, blocks, want, init_free, released, clobbered, panicked>>

\* kalloc is not running.
Nothing == -1

\* kalloc_init: one run of free pages, no free block.
Init ==
  /\ mem = [a \in Addr |-> CASE a = pages_head + 1 -> MemoryStart
                             [] a = MemoryStart    -> Short(RamPages)
                             [] OTHER              -> 0]
  /\ blocks = {}
  /\ want = Nothing
  /\ init_free = FALSE /\ released = FALSE /\ clobbered = 0 /\ panicked = FALSE

-----------------------------------------------------------------------------
(* Walking a list.                                                         *)

\* Free memory has room for so many nodes, so a walk is over after as many.
MaxNodes == (MemoryEnd - InitBegin) \div FreeBlock

\* The nodes of the list behind head, in order: from the last one found, or
\* from head, on to the next until that is null.
List(m, head) ==
  LET walk[k \in 0..MaxNodes] ==
        IF k = 0 THEN <<>>
        ELSE LET s == walk[k - 1]
                 p == m[(IF s = <<>> THEN head ELSE s[Len(s)]) + 1]
             IN  IF p = 0 THEN s ELSE Append(s, p)
  IN  walk[MaxNodes]

\* The node before the i-th node of the list s.
Pred(head, s, i) == IF i = 1 THEN head ELSE s[i - 1]

\* The position of the first node that is at least `least' long; 0 if none.
FirstFit(m, s, least) ==
  LET fits == {i \in DOMAIN s : m[s[i]] >= least}
  IN  IF fits = {} THEN 0 ELSE CHOOSE i \in fits : \A j \in fits : i <= j

\* Mutant: B3 is left out, what is freed is not merged with what follows it.
Liberate_NotMerged(m, head, cur, n, unit) ==
  LET s == List(m, head)
      below == {i \in DOMAIN s : \A j \in 1..i : s[j] <= cur}
      q == Pred(head, s, Cardinality(below) + 1)
      m1 == [m EXCEPT ![cur + 1] = m[q + 1]]
  IN  IF q + m1[q] * unit = cur
        THEN [m1 EXCEPT ![q] = @ + n, ![q + 1] = m1[cur + 1]]
        ELSE [m1 EXCEPT ![q + 1] = cur, ![cur] = n]

\* Steps B1 to B4 of page_release and of mem_free: put n units at cur into the
\* list, which is in address order, and merge with what lies next to them.
Liberate(m, head, cur, n, unit) ==
  LET s == List(m, head)
      below == {i \in DOMAIN s : \A j \in 1..i : s[j] <= cur}
      q == Pred(head, s, Cardinality(below) + 1)
      p == m[q + 1]
      joins == p # 0 /\ cur + n * unit = p
      m1 == [m EXCEPT ![cur + 1] = IF joins THEN m[p + 1] ELSE p]
      len == IF joins THEN n + m[p] ELSE n
  IN  IF q + m1[q] * unit = cur
        THEN [m1 EXCEPT ![q] = @ + len, ![q + 1] = m1[cur + 1]]
        ELSE [m1 EXCEPT ![q + 1] = cur, ![cur] = len]

-----------------------------------------------------------------------------
(* Pages.                                                                  *)

page_release(m, page) == Liberate(m, pages_head, page_to_addr(page), 1, PageWords)

\* page_allocate_consecutive takes the pages from the end of the first run
\* that is long enough; here the i-th on the list.
PageTaken(m, i, count) ==
  LET s == List(m, pages_head)
      m1 == [m EXCEPT ![s[i]] = @ - count]
  IN  IF m1[s[i]] = 0
        THEN [m1 EXCEPT ![Pred(pages_head, s, i) + 1] = m1[s[i] + 1]]
        ELSE m1

\* Releasing c pages from page `start' on, one at a time.
ReleasePages(m, start, c) ==
  LET r[k \in 0..c] == IF k = 0 THEN m ELSE page_release(r[k - 1], Short(start + k - 1))
  IN  r[c]

-----------------------------------------------------------------------------
(* Blocks.                                                                 *)

\* The whole pages mem_free gives back after it has freed cur: those in the
\* m[cur] words from cur on.
FirstPage(cur) == (cur + PageWords - 1) \div PageWords
WholePages(m, cur) ==
  LET size == m[cur] - (FirstPage(cur) * PageWords - cur)
  IN  IF m[cur] >= PageWords THEN size \div PageWords ELSE 0

\* Less is freed than a list node takes, and what lies behind is not free:
\* cur->next is stored over the first word of that, the header of a block, the
\* length of a run of free pages, or the word behind the RAM.
Clobbers(cur, n) == n < FreeBlock /\ cur + n \notin Range(List(mem, blocks_head))

mem_free(cur, n) ==
  LET m1 == Liberate(mem, blocks_head, cur, n, 1)
      c  == WholePages(m1, cur)
  IN  /\ mem' = ReleasePages(m1, FirstPage(cur), c)
      /\ released' = (c > 0)
      /\ clobbered' = IF Clobbers(cur, n) THEN cur + n ELSE 0

Running == ~released /\ ~panicked /\ clobbered = 0

\* kalloc(n) starts its search.
Kalloc(n) ==
  /\ Running /\ want = Nothing
  /\ Cardinality(blocks) < MaxBlocks
  /\ want' = n
  /\ UNCHANGED <<mem, blocks, init_free, released, clobbered, panicked>>

RealSize == want + BlockHeader

\* Mutant: a block that is just large enough, or leaves one word, is taken.
Found_Exact == FirstFit(mem, List(mem, blocks_head), RealSize)

\* The block kalloc's search stops at.
Found == FirstFit(mem, List(mem, blocks_head), RealSize + FreeBlock)

\* The pages kalloc needs for its block, and what page_allocate_consecutive is
\* asked for.
NewPages  == (RealSize + PageWords - 1) \div PageWords
PageCount == Short(NewPages)

\* The parameter check, the runtime check and the logic check of
\* page_allocate_consecutive, for the list of pages s.
PageChecks(s) == PageCount > 0 /\ s # <<>> /\ mem[s[1]] # 0

\* No block is large enough: kalloc takes new pages, or panics, adds them to
\* its list, and searches again from the start.
KallocGrow ==
  /\ Running /\ want # Nothing /\ Found = 0
  /\ LET s == List(mem, pages_head)
         i == FirstFit(mem, s, PageCount)
     IN  \/ /\ PageChecks(s) /\ i # 0
            /\ LET m1   == PageTaken(mem, i, PageCount)
                   page == Short(addr_to_page(s[i]) + m1[s[i]])
               IN  mem' = Liberate(m1, blocks_head, page_to_addr(page), NewPages * PageWords, 1)
            /\ UNCHANGED panicked
         \/ /\ ~PageChecks(s) \/ i = 0
            /\ panicked' = TRUE /\ UNCHANGED mem
  /\ UNCHANGED <<blocks, want, init_free, released, clobbered>>

\* Mutant: the header counts itself.
HeaderWord_RealSize == RealSize

\* What kalloc stores in the header, `h->size = n'.
HeaderWord == want

\* A4: the end of the block that was found is the caller's.
KallocTake ==
  /\ Running /\ want # Nothing /\ Found # 0
  /\ LET s == List(mem, blocks_head)
         p == s[Found]
         k == mem[p] - RealSize
         m1 == IF k = 0
                 THEN [mem EXCEPT ![Pred(blocks_head, s, Found) + 1] = mem[p + 1]]
                 ELSE [mem EXCEPT ![p] = k]
     IN  /\ mem' = [m1 EXCEPT ![p + k] = HeaderWord]
         /\ blocks' = blocks \cup {[at |-> p + k + BlockHeader, n |-> want]}
  /\ want' = Nothing
  /\ UNCHANGED <<init_free, released, clobbered, panicked>>

Kfree(b) ==
  /\ Running /\ want = Nothing
  /\ LET h == b.at - BlockHeader
     IN  mem_free(h, mem[h] + BlockHeader)
  /\ blocks' = blocks \ {b}
  /\ UNCHANGED <<want, init_free, panicked>>

\* kernel_init: mem_free(&__init_begin, &__init_end - &__init_begin, 1).
FreeInit ==
  /\ Running /\ want = Nothing /\ ~init_free
  /\ mem_free(InitBegin, InitWords)
  /\ init_free' = TRUE
  /\ UNCHANGED <<blocks, want, panicked>>

Next ==
  \/ \E n \in Sizes : Kalloc(n)
  \/ KallocGrow \/ KallocTake
  \/ \E b \in blocks : Kfree(b)
  \/ FreeInit

Spec == Init /\ [][Next]_vars

-----------------------------------------------------------------------------
FreePages  == Range(List(mem, pages_head))
FreeBlocks == Range(List(mem, blocks_head))

Words(a, n) == a..(a + n - 1)

\* Every stretch of memory somebody owns: the runs of free pages P, the free
\* blocks B, the allocated blocks with their headers.
Extents(P, B) ==
  {Words(a, mem[a] * PageWords) : a \in P}
    \cup {Words(a, mem[a]) : a \in B}
    \cup {Words(b.at - BlockHeader, b.n + BlockHeader) : b \in blocks}

\* Until a page is given back or a node stored past what is freed, every word
\* of RAM, and of the init segment once it is freed, has exactly one owner: no
\* two blocks overlap, no list reaches into an allocated block, nothing leaks.
\* A block of less than a word that touches a free block behind it is freed
\* without harm; one that does not breaks the lists.
MemoryPartitioned ==
  Running =>
    LET P == FreePages
        B == FreeBlocks
        extents == Extents(P, B)
    IN  /\ UNION extents = MemoryStart..(MemoryEnd - 1) \cup
                             (IF init_free THEN Words(InitBegin, InitWords) ELSE {})
        /\ \A e, f \in extents : e # f => e \cap f = {}
        /\ Cardinality(extents) = Cardinality(P) + Cardinality(B) + Cardinality(blocks)

\* Both lists are in address order, with no node empty and none that should
\* have been merged with the next.
Coalesced(head, unit) ==
  LET s == List(mem, head)
  IN  /\ \A i \in DOMAIN s : mem[s[i]] > 0
      /\ \A i \in 1..(Len(s) - 1) : s[i] + mem[s[i]] * unit < s[i + 1]

ListsCoalesced ==
  Running => Coalesced(pages_head, PageWords) /\ Coalesced(blocks_head, 1)

\* A block keeps its size in its header until it is freed, whatever is
\* allocated and freed around it, with one exception: the header that follows a
\* block of less than a word is overwritten when that block is freed.
HeadersIntact ==
  ~released /\ ~panicked =>
    \A b \in blocks : b.at - BlockHeader # clobbered => mem[b.at - BlockHeader] = b.n

\* setup.c: the init segment has whole pages `so the init stuff can be freed
\* cleanly later'.  What mem_free frees is free once: no page is on the list of
\* free pages and in a free block at the same time.
FreedOnce ==
  \A a \in FreePages, f \in FreeBlocks :
    Words(a, mem[a] * PageWords) \cap Words(f, mem[f]) = {}
=============================================================================
