------------------------------ MODULE MCTerminal -----------------------------
(* Terminal for TLC: lines with and without a level, unfinished ones, two    *)
(* lines in one call, a line longer than a chunk, a level alone, a         *)
(* carriage return.                                                        *)
EXTENDS Terminal

Messages ==
  {<<"a", "\n">>,
   <<"<", "6", ">", "b", "\n">>,
   <<"c">>,
   <<"<", "7", ">", "d">>,
   <<"e", "\n", "<", "2", ">", "f", "\n">>,
   <<"<", "6", ">">>,
   <<"g", "g", "g", "g", "g", "\n">>,
   <<"h", "\r">>}

\* A process's line, the echo of a tab and of a newline, a carriage return.
Outputs == {<<"x", "y", "\n">>, <<"\t">>, <<"\n">>, <<"\r", "z">>}
=============================================================================
