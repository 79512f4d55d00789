----------------------------- MODULE MCNotices ------------------------------
(* Notices for TLC: two tvchats, which share an inbox and both write into  *)
(* tvmail's, and a tvmail.                                                 *)
EXTENDS Notices

CONSTANTS c1, c2, m1
MCProcs == {c1, c2, m1}
MCApps == {"tvmail", "tvchat"}
MCApp == [p \in MCProcs |-> IF p = m1 THEN "tvmail" ELSE "tvchat"]
MCPeers == [a \in MCApps |-> IF a = "tvmail" THEN <<"tvchat">> ELSE <<"tvmail">>]
=============================================================================
