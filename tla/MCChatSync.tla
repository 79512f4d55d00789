----------------------------- MODULE MCChatSync -----------------------------
(* ChatSync for TLC: conversations as model values, a queue shorter than   *)
(* the events a run may push, one restart and one more.                    *)
EXTENDS ChatSync
=============================================================================
