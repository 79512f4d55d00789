------------------------------ MODULE Notices -------------------------------
(***************************************************************************)
(* Notes between tvmail, tvchat and tvcal, each shown as a toast:          *)
(* tvcommon/src/spool.cpp and notify.cpp.                                  *)
(*                                                                         *)
(* An inbox is a directory that several processes write and read without   *)
(* a lock: every sender lists it, sweeps it, counts it and then writes;    *)
(* every reader lists it, and reads, removes and shows one note at a time. *)
(* A program may run more than once and may die between any two steps.     *)
(*                                                                         *)
(* A unit of time is the two seconds of spoolTick; how long a note lives   *)
(* (`ttl`) and how long a text is remembered (30 s) are scaled to it.      *)
(* Writing one text to every peer takes less than a unit.                  *)
(***************************************************************************)
EXTENDS Integers, Sequences, FiniteSets, SequencesExt

CONSTANTS
    Procs,       \* processes
    Apps,        \* programs
    App,         \* process -> gSelf
    Peers,       \* program -> gPeers, a sequence
    Texts,
    InboxMax,    \* kInboxMax
    Burst,       \* notes shown in one tick
    Ttl,         \* how long a note lives
    Window,      \* 30 s
    MaxRecent,   \* gRecent is cleared when it holds more
    MaxNotes,    \* bound: notes ever written
    MaxCrashes   \* bound: processes that die

ASSUME ConstantsOK ==
    /\ IsFiniteSet(Procs) /\ App \in [Procs -> Apps]
    /\ Peers \in [Apps -> Seq(Apps)] /\ \A a \in Apps : IsInjective(Peers[a])
    /\ {InboxMax, Burst, Ttl, Window} \subseteq Nat \ {0}
    /\ {MaxRecent, MaxNotes, MaxCrashes} \subseteq Nat

VARIABLES
    running,     \* processes that run
    note,        \* notes ever written
    inbox,       \* program -> the notes in its directory
    recent,      \* gRecent: text -> age
    sending,     \* process -> spoolSend under way, or NoSend
    reading,     \* process -> spoolTick under way, or NoRead
    rested,      \* processes whose gLastTick is old enough
    shown,       \* history: notes a user has seen
    dropped,     \* history: notes removed unseen, their time being up
    crashes

vars == <<running, note, inbox, recent, sending, reading, rested, shown,
          dropped, crashes>>

Ids == 1 .. MaxNotes
NoSend == [text |-> "", own |-> TRUE, peers |-> <<>>, write |-> FALSE]
NoRead == [todo |-> <<>>, old |-> {}, held |-> 0, gone |-> FALSE, count |-> 0]
Idle(p) == sending[p] = NoSend /\ reading[p] = NoRead
Expired(n) == note[n].left = 0
Holds(p, n) == reading[p].held = n /\ ~reading[p].gone

Init ==
    /\ running = Procs /\ note = <<>> /\ inbox = [a \in Apps |-> {}]
    /\ recent = [p \in Procs |-> [t \in {} |-> 0]]
    /\ sending = [p \in Procs |-> NoSend] /\ reading = [p \in Procs |-> NoRead]
    /\ rested = Procs
    /\ shown = {} /\ dropped = {} /\ crashes = 0

-----------------------------------------------------------------------------
(* Sending.                                                                *)

\* spoolSend(), its early returns: gOff and gMin are the conf's, `goes` says
\* the level is high enough or it is sent whatever its level
WantsEcho(p, text, goes, gReading) ==         \* mutant: what was read is sent on
    /\ goes /\ Peers[App[p]] # <<>>
    /\ text \in DOMAIN recent[p] => recent[p][text] >= Window
WantsAgain(p, text, goes, gReading) ==        \* mutant: gRecent is not asked
    goes /\ ~gReading /\ Peers[App[p]] # <<>>
Wants(p, text, goes, gReading) ==
    /\ goes /\ ~gReading /\ Peers[App[p]] # <<>>
    /\ text \in DOMAIN recent[p] => recent[p][text] >= Window

\* The text is remembered as sent before anything is written
spoolSend(p, text, own, goes, gReading) ==
    IF Wants(p, text, goes, gReading)
    THEN LET clear == Cardinality(DOMAIN recent[p]) > MaxRecent
             kept == IF clear THEN {} ELSE DOMAIN recent[p]
         IN /\ recent' = [recent EXCEPT ![p] =
                 [t \in kept \cup {text} |-> IF t = text THEN 0 ELSE recent[p][t]]]
            /\ note' = IF clear THEN [n \in DOMAIN note |->
                                 IF note[n].pid = p THEN [note[n] EXCEPT !.known = FALSE]
                                 ELSE note[n]]
                       ELSE note
            /\ sending' = [sending EXCEPT ![p] =
                 [text |-> text, own |-> own, peers |-> Peers[App[p]], write |-> FALSE]]
    ELSE UNCHANGED <<recent, note, sending>>

\* The directory of the next peer is listed, swept and counted
SendUncounted(p) ==                           \* mutant: kInboxMax is forgotten
    /\ sending[p].peers # <<>> /\ ~sending[p].write
    /\ sending' = [sending EXCEPT ![p].write = TRUE]
    /\ UNCHANGED <<running, note, inbox, recent, reading, rested, shown,
                   dropped, crashes>>
SendCount(p) ==
    /\ sending[p].peers # <<>> /\ ~sending[p].write
    /\ LET a == Head(sending[p].peers)
           old == {n \in inbox[a] : Expired(n)}
           full == Cardinality(inbox[a] \ old) >= InboxMax
           rest == Tail(sending[p].peers)
       IN /\ inbox' = [inbox EXCEPT ![a] = @ \ old]
          /\ dropped' = dropped \cup {n \in old : \A q \in running : ~Holds(q, n)}
          /\ sending' = [sending EXCEPT ![p] =
               IF ~full THEN [@ EXCEPT !.write = TRUE]
               ELSE IF rest = <<>> THEN NoSend ELSE [@ EXCEPT !.peers = rest]]
    /\ UNCHANGED <<running, note, recent, reading, rested, shown, crashes>>

\* ... and the note written there under a temporary name and renamed
SendWrite(p) ==
    /\ sending[p].write
    /\ LET a == Head(sending[p].peers)
           n == Len(note) + 1
           rest == Tail(sending[p].peers)
       IN /\ note' = Append(note, [pid |-> p, to |-> a, text |-> sending[p].text,
                                   own |-> sending[p].own, left |-> Ttl, age |-> 0,
                                   known |-> TRUE])
          /\ inbox' = [inbox EXCEPT ![a] = @ \cup {n}]
          /\ sending' = [sending EXCEPT ![p] =
               IF rest = <<>> THEN NoSend
               ELSE [@ EXCEPT !.peers = rest, !.write = FALSE]]
    /\ UNCHANGED <<running, recent, reading, rested, shown, dropped, crashes>>

\* notify(): a toast over the desktop (its drawing is left out) and a note to
\* the peers
notify(p, text, own, goes, gReading) == spoolSend(p, text, own, goes, gReading)

\* bound: room for what is on its way
Room(p) == Len(note) + Len(Peers[App[p]])
             + MapThenSumSet(LAMBDA q : Len(sending[q].peers), Procs) <= MaxNotes

\* The program has something to say: an error, or news it wants told whatever
\* the level, goes to the others; anything less is announced here only
Say(p, text) ==
    /\ p \in running /\ Idle(p) /\ Room(p)
    /\ \E goes \in BOOLEAN : notify(p, text, TRUE, goes, FALSE)
    /\ UNCHANGED <<running, inbox, reading, rested, shown, dropped, crashes>>

-----------------------------------------------------------------------------
(* Reading.                                                                *)

\* A directory in order of the names, which begin with the time of expiry
Before(m, n) == \/ note[m].left < note[n].left
                \/ note[m].left = note[n].left /\ m < n
Sorted(dir) ==
    {q \in [1 .. Cardinality(dir) -> dir] :
       \A i, j \in DOMAIN q : i < j => Before(q[i], q[j])}

\* spoolTick(): the time is read once
spoolTick(p) ==
    /\ p \in running /\ Idle(p) /\ p \in rested /\ inbox[App[p]] # {}
    /\ rested' = rested \ {p}
    /\ \E names \in Sorted(inbox[App[p]]) :
         reading' = [reading EXCEPT ![p] =
           [NoRead EXCEPT !.todo = names, !.old = {n \in inbox[App[p]] : Expired(n)}]]
    /\ UNCHANGED <<running, note, inbox, recent, sending, shown, dropped, crashes>>

\* The next one's text is read: empty when another reader or a sender has
\* removed it since
ReadNext(p) ==
    LET r == reading[p]
    IN /\ sending[p] = NoSend /\ r.todo # <<>> /\ r.held = 0 /\ r.count < Burst
       /\ reading' = [reading EXCEPT ![p] =
            [r EXCEPT !.todo = Tail(r.todo), !.held = Head(r.todo),
                      !.gone = Head(r.todo) \notin inbox[App[p]]]]
       /\ UNCHANGED <<running, note, inbox, recent, sending, rested, shown,
                      dropped, crashes>>

\* It is removed and, if its time was up or there was nothing in it, passed over
PassOver(p) == [reading EXCEPT ![p].held = 0]
UnlinkKeepsOld(p) ==                          \* mutant: an expired one is left there
    LET n == reading[p].held
    IN /\ n \in inbox[App[p]]
       /\ IF n \in reading[p].old
          THEN reading' = PassOver(p) /\ UNCHANGED inbox
          ELSE inbox' = [inbox EXCEPT ![App[p]] = @ \ {n}] /\ UNCHANGED reading
       /\ UNCHANGED <<running, note, recent, sending, rested, shown, dropped, crashes>>
Unlink(p) ==
    LET n == reading[p].held
    IN /\ n \in inbox[App[p]]
       /\ inbox' = [inbox EXCEPT ![App[p]] = @ \ {n}]
       /\ IF n \in reading[p].old
          THEN dropped' = dropped \cup {n} /\ reading' = PassOver(p)
          ELSE UNCHANGED <<dropped, reading>>
       /\ UNCHANGED <<running, note, recent, sending, rested, shown, crashes>>

\* ... and there was nothing left to remove
Nothing(p) ==
    LET n == reading[p].held
    IN /\ n # 0 /\ n \notin inbox[App[p]]
       /\ reading[p].gone \/ n \in reading[p].old
       /\ dropped' = IF reading[p].gone THEN dropped ELSE dropped \cup {n}
       /\ reading' = PassOver(p)
       /\ UNCHANGED <<running, note, inbox, recent, sending, rested, shown, crashes>>

\* It is shown, gReading keeping notify() from sending it on
Show(p) ==
    LET r == reading[p]
        n == r.held
    IN /\ Holds(p, n) /\ n # 0 /\ n \notin inbox[App[p]] /\ n \notin r.old
       /\ reading' = [reading EXCEPT ![p] = [r EXCEPT !.held = 0, !.count = r.count + 1]]
       /\ shown' = shown \cup {n}
       /\ notify(p, note[n].text, FALSE, TRUE, TRUE)
       /\ UNCHANGED <<running, inbox, rested, dropped, crashes>>

ReadEndClears(p) ==                           \* mutant: what is left is removed too
    LET r == reading[p]
    IN /\ r # NoRead /\ sending[p] = NoSend /\ r.held = 0
       /\ r.todo = <<>> \/ r.count >= Burst
       /\ reading' = [reading EXCEPT ![p] = NoRead]
       /\ inbox' = [inbox EXCEPT ![App[p]] = @ \ ToSet(r.todo)]
       /\ UNCHANGED <<running, note, recent, sending, rested, shown, dropped, crashes>>
ReadEnd(p) ==
    LET r == reading[p]
    IN /\ r # NoRead /\ sending[p] = NoSend /\ r.held = 0
       /\ r.todo = <<>> \/ r.count >= Burst
       /\ reading' = [reading EXCEPT ![p] = NoRead]
       /\ UNCHANGED <<running, note, inbox, recent, sending, rested, shown,
                      dropped, crashes>>

Step(p) == \/ SendCount(p) \/ SendWrite(p) \/ ReadNext(p) \/ Unlink(p)
           \/ Nothing(p) \/ Show(p) \/ ReadEnd(p)

-----------------------------------------------------------------------------
Older(n, cap) == IF n < cap THEN n + 1 ELSE cap
Sooner(n) == IF n > 0 THEN n - 1 ELSE 0

\* Two seconds
Tick ==
    /\ \A p \in Procs : sending[p] = NoSend
    /\ note' = [n \in DOMAIN note |-> [note[n] EXCEPT !.left = Sooner(@),
                                                      !.age = Older(@, Window)]]
    /\ recent' = [p \in Procs |-> [t \in DOMAIN recent[p] |-> Older(recent[p][t], Window)]]
    /\ rested' = Procs
    /\ UNCHANGED <<running, inbox, sending, reading, shown, dropped, crashes>>

Crash(p) ==
    /\ p \in running /\ crashes < MaxCrashes
    /\ running' = running \ {p} /\ crashes' = crashes + 1
    /\ recent' = [recent EXCEPT ![p] = <<>>]
    /\ sending' = [sending EXCEPT ![p] = NoSend]
    /\ reading' = [reading EXCEPT ![p] = NoRead]
    /\ note' = [n \in DOMAIN note |-> IF note[n].pid = p
                                      THEN [note[n] EXCEPT !.known = FALSE] ELSE note[n]]
    /\ UNCHANGED <<inbox, rested, shown, dropped>>

Start(p) ==
    /\ p \notin running /\ running' = running \cup {p}
    /\ UNCHANGED <<note, inbox, recent, sending, reading, rested, shown,
                   dropped, crashes>>

Next ==
    \/ \E p \in Procs : \/ spoolTick(p) \/ Step(p) \/ Crash(p) \/ Start(p)
    \/ \E p \in Procs, t \in Texts : Say(p, t)
    \/ Tick

(* A program that runs goes through its idle loop for ever, and time passes. *)
Fairness == /\ WF_vars(Tick)
            /\ \A p \in Procs : WF_vars(Step(p) \/ spoolTick(p))
Spec == Init /\ [][Next]_vars /\ Fairness

-----------------------------------------------------------------------------
(* Properties.                                                             *)

\* spool.cpp: "What was read is never sent on" - or two programs would tell
\* each other the same news for ever, each time with one more name before it.
NeverSentOn == \A n \in DOMAIN note : note[n].own

\* spool.cpp: "the same text is sent once per 30 s" - as long as gRecent
\* remembers, which a new process does not, nor one that has cleared it.
OncePerWindow ==
    \A m, n \in DOMAIN note :
       /\ note[m].pid = note[n].pid /\ note[m].to = note[n].to
       /\ note[m].text = note[n].text
       /\ m < n /\ note[n].age = 0
       => note[m].age >= Window \/ ~note[m].known

\* kInboxMax, counted by each sender for itself: it is overshot by the other
\* senders at most.
InboxIsBounded ==
    \A a \in Apps :
       LET live == {n \in inbox[a] : ~Expired(n)}
           senders == {p \in Procs : a \in ToSet(Peers[App[p]])}
       IN senders # {} =>
            Cardinality(live) <= InboxMax - 1 + Cardinality(senders)

\* A note whose program runs does not wait for ever.
NotesAreTaken ==
    \A n \in Ids : []<>(n \in DOMAIN note /\ n \in inbox[note[n].to] =>
                          \A p \in running : App[p] # note[n].to)

\* NotePost: nothing vanishes between writing and showing but by expiry or
\* the death of the process that had taken it.
Fate(n) ==
    IF n \notin DOMAIN note THEN "none"
    ELSE IF n \in inbox[note[n].to] THEN "waiting"
    ELSE IF n \in shown THEN "shown"
    ELSE IF \E p \in running : Holds(p, n) THEN "taken"
    ELSE IF n \in dropped THEN "expired"
    ELSE "lost"
Post == INSTANCE NotePost WITH
    fate <- [n \in Ids |-> Fate(n)],
    due <- [n \in Ids |-> n \in DOMAIN note /\ Expired(n)]
NothingVanishes == Post!Spec

\* However many programs talk at once they stay quiet: nothing is passed on,
\* nothing repeated, and an inbox fills to its limit and no further.
NotesStayFew == NeverSentOn /\ OncePerWindow /\ InboxIsBounded
=============================================================================
