-------------------------- MODULE MCIrcConnection --------------------------
(* IrcConnection for TLC: two addresses, two typed lines, two generations  *)
(* outstanding, delays that stop growing after the second attempt.         *)
EXTENDS IrcConnection
=============================================================================
