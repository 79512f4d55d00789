---------------------------- MODULE MCCalWindow -----------------------------
(* tvcal for TLC: the window, about 2024-02-28, or a walk along the days.  *)
EXTENDS CalWindow
VARIABLE walking    \* which of the two

MCStarts ==
    {[day |-> -25568, date |-> Ymd(1899, 12, 31), weekday |-> 6],
     [day |-> -2, date |-> Ymd(1969, 12, 30), weekday |-> 1],
     [day |-> 10956, date |-> Ymd(1999, 12, 31), weekday |-> 4],
     [day |-> 19722, date |-> Ymd(2023, 12, 31), weekday |-> 6],
     [day |-> 47481, date |-> Ymd(2099, 12, 31), weekday |-> 3]}
Today == 19781
MCTargets == {Today, Today + 85, Today + 366, Today + 476}
MCPlacements == {{Today, Today + 85}, {Today + 476}}
B(m, a, o, p, n, f) ==
    [moves |-> m, asks |-> a, outside |-> o, polls |-> p, nights |-> n, faults |-> f]
MCBudgets == {B(3, 0, 0, 1, 0, 1), B(2, 1, 0, 1, 0, 0), B(1, 1, 1, 1, 0, 0), B(0, 1, 2, 1, 0, 1),
              B(0, 2, 1, 1, 0, 1), B(0, 0, 1, 3, 2, 1), B(0, 0, 3, 2, 0, 0)}

Init == CalInit /\ WalkInit /\ walking \in BOOLEAN
        /\ (walking => budget = B(3, 0, 0, 1, 0, 1) /\ ev[1] = {Today + 476})
        /\ (~walking => walk = -2)
Next == /\ UNCHANGED walking
        /\ \/ walking /\ WalkOn /\ UNCHANGED calVars
           \/ ~walking /\ CalNext /\ UNCHANGED walkVars
Spec == Init /\ [][Next]_<<calVars, walkVars, walking>>
=============================================================================
