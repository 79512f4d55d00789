---------------------------- MODULE MCDeltaCore ----------------------------
(* DeltaCore for TLC: two messages, so that one may be sent while another  *)
(* comes; two databases, so that one may replace the other.                *)
EXTENDS DeltaCore
=============================================================================
