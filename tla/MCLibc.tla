------------------------------- MODULE MCLibc -------------------------------
(* Libc for TLC: directives and strings to call the pure functions with.   *)
(*                                                                         *)
(* A word that is neither in a list node nor in the header of a block, nor *)
(* in an allocated block, is never read before it is written again but by  *)
(* realloc's copy, and no property reads what that copies from there, so   *)
(* states that differ in such words alone are explored once.  The contents *)
(* of the blocks are in the view by whether they are what their owners     *)
(* wrote.  After a node has been stored past what was freed, all of memory *)
(* is in the view.                                                         *)
EXTENDS Libc

LiveWords ==
  IF clobbered # 0 THEN Addr ELSE
  LET nodes == FreePages \cup FreeBlocks
  IN  {pages_head + 1, blocks_head + 1} \cup nodes \cup {a + 1 : a \in nodes}
        \cup {b.at - BlockHeader : b \in blocks}

LiveView ==
  <<[a \in LiveWords |-> mem[a]], blocks, want, init_free, released, clobbered, panicked,
    errno, call, watched, result, ContentsKept>>

Texts(S, n) == UNION {[1..k -> S] : k \in 0..n}

MCDirectives ==
  [flags : {<<>>, <<"-">>, <<"0">>, <<"+">>, <<" ", "0">>, <<"#">>, <<"0", "#">>},
   width : {-1, 6}, precision : {-1, 3}, qualifier : {"none", "h", "L", "Z"},
   conv  : {"d", "u", "o", "x", "X"}]
  \cup
  [flags : {<<>>, <<"-">>, <<"#">>}, width : {-1, 6}, precision : {-1, 0, 3},
   qualifier : {"none"}, conv : {"p", "s"}]

MCFormats == Texts({"%", "-", "5", "*", ".", "l", "d", "a"}, 4)
MCNumbers == Texts({" ", "-", "+", "0", "1", "f", "x"}, 4)
MCStrings == Texts({"a", "b"}, 3)
=============================================================================
