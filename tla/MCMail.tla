------------------------------- MODULE MCMail -------------------------------
(* tvmail's two kinds of window for TLC.  They share nothing but the       *)
(* program: a run is about the main window or about the compose windows.   *)
EXTENDS MailWindow, MailCompose
CONSTANTS a, b, c, w1, w2
VARIABLE writing    \* which of the two

B(outside, faults, pulls, marks, views, asks) ==
    [outside |-> outside, faults |-> faults, pulls |-> pulls, marks |-> marks,
     views |-> views, asks |-> asks]
MCBudgets == {B(1, 0, 0, 1, 1, 1), B(0, 0, 0, 1, 2, 0), B(1, 0, 2, 1, 0, 0),
              B(0, 1, 2, 1, 0, 0), B(0, 1, 0, 0, 0, 2)}
MCFirstDrafts == <<1, 2>>

Init == MailInit /\ ComposeInit /\ writing \in BOOLEAN
        /\ (writing => budget = B(0, 1, 0, 0, 0, 2) /\ unread = {} /\ arrived = {a})
Next == /\ UNCHANGED writing
        /\ \/ ~writing /\ MailNext /\ UNCHANGED composeVars
           \/ writing /\ ComposeNext /\ UNCHANGED mailVars
Spec == Init /\ [][Next]_<<mailVars, composeVars, writing>>
=============================================================================
