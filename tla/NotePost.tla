------------------------------ MODULE NotePost ------------------------------
(***************************************************************************)
(* What the spool between the programs promises of a note (spool.cpp,      *)
(* lines 1-23), whatever the number of programs that write and read it:    *)
(* a note waits until it is taken or its time is up; what was taken is     *)
(* shown, unless whoever took it dies first.  Notices implements it.       *)
(***************************************************************************)
CONSTANTS Ids, Procs

VARIABLES fate, due, running

Fates == {"none", "waiting", "taken", "shown", "expired", "lost"}

Init == /\ fate = [n \in Ids |-> "none"]
        /\ due = [n \in Ids |-> FALSE]
        /\ running \in SUBSET Procs

Goes(n, from, to) == fate[n] = from /\ fate' = [fate EXCEPT ![n] = to]

Write(n) == Goes(n, "none", "waiting") /\ UNCHANGED <<due, running>>
Take(n) == Goes(n, "waiting", "taken") /\ UNCHANGED <<due, running>>
Show(n) == Goes(n, "taken", "shown") /\ UNCHANGED <<due, running>>

\* A reader drops one, a sender sweeps many: those in T out of the hands of
\* readers that have their text already
Expire(S, T) ==
    /\ S \cap T = {} /\ \A n \in S \cup T : fate[n] = "waiting" /\ due[n]
    /\ fate' = [n \in Ids |-> IF n \in S THEN "expired"
                             ELSE IF n \in T THEN "taken" ELSE fate[n]]
    /\ UNCHANGED <<due, running>>

\* Held by a reader when another removed it, and its time was up
Drop(n) == due[n] /\ Goes(n, "taken", "expired") /\ UNCHANGED <<due, running>>

Time == /\ \A n \in Ids : due[n] => due'[n]
        /\ UNCHANGED <<fate, running>>

Start(p) == running' = running \cup {p} /\ UNCHANGED <<fate, due>>

Crash(p) ==
    /\ p \in running /\ running' = running \ {p}
    /\ \E S \in SUBSET {n \in Ids : fate[n] = "taken"} :
         \E D \in SUBSET {n \in S : due[n]} :
            fate' = [n \in Ids |-> IF n \in D THEN "expired"
                                   ELSE IF n \in S THEN "lost" ELSE fate[n]]
    /\ UNCHANGED due

Next ==
    \/ \E n \in Ids : \/ Write(n) \/ Take(n) \/ Show(n) \/ Drop(n)
    \/ \E S, T \in SUBSET Ids : Expire(S, T)
    \/ Time
    \/ \E p \in Procs : Start(p) \/ Crash(p)

Spec == Init /\ [][Next]_<<fate, due, running>>
=============================================================================
