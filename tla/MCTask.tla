------------------------------- MODULE MCTask -------------------------------
(* Task and its refinement mapping for TLC: init and two processes that    *)
(* read the keyboard.                                                      *)
EXTENDS TaskSched
=============================================================================
