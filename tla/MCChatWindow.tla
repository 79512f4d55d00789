---------------------------- MODULE MCChatWindow ----------------------------
(* ChatWindow for TLC.                                                      *)
EXTENDS ChatWindow
CONSTANTS i1, i2
MCAccts == <<1, 2>>
MCConvs == <<1, 2, 3>>
MCAcctOf == <<1, 1, 2>>
MCToConv == (i1 :> 2) @@ (i2 :> 3)
B(s, p, c, t, m, a, r, v) ==
    [says |-> s, pasts |-> p, convs |-> c, texts |-> t, moves |-> m,
     asks |-> a, resets |-> r, invites |-> v]
MCBudgets ==
    {B(3, 1, 0, 0, 2, 0, 0, 0), B(1, 0, 1, 2, 2, 1, 0, 0), B(1, 0, 1, 1, 1, 1, 1, 0),
     B(0, 0, 1, 0, 1, 1, 0, 2), B(0, 0, 0, 0, 0, 1, 1, 1), B(2, 1, 1, 0, 0, 1, 0, 0)}
=============================================================================
