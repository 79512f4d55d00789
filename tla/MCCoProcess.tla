---------------------------- MODULE MCCoProcess ----------------------------
(* CoProcess for TLC: the code's budget of three restarts, and enough      *)
(* calls to spend it and to see what a failed call does to the next ones.  *)
EXTENDS CoProcess
=============================================================================
