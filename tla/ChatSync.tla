------------------------------ MODULE ChatSync ------------------------------
(***************************************************************************)
(* How tvchat's windows come to know what tvchat-backend knows.  The       *)
(* backend (tvchat/backend/tvchat-backend) keeps accounts and              *)
(* conversations and pushes an event for every change into an EventQueue   *)
(* of bounded length; the program's ChatClient (tvchat/src/chat.cpp) reads *)
(* a snapshot in four requests - events, accounts, convs, roles - and from *)
(* then on polls the queue and applies what is newer than lastSeq.         *)
(*                                                                         *)
(* Each request is answered in one step of the backend's loop, but the     *)
(* backend lives on between two of them: it changes, it dies and is        *)
(* replaced by CoProcess, it may not answer at all.                        *)
(*                                                                         *)
(* Accounts do not touch each other; one account stands for all.           *)
(***************************************************************************)
EXTENDS Integers, Sequences, SequencesExt, Lists

CONSTANTS
    Convs,       \* conversation ids
    MaxUnread,   \* bound: messages that can be unread
    EventCap,    \* EVENT_CAP
    MaxEvents,   \* bound: events pushed
    MaxStarts    \* bound: children started (CoProcess::generation)

ASSUME ConstantsOK ==
    /\ MaxUnread \in Nat /\ MaxEvents \in Nat
    /\ EventCap \in Nat \ {0} /\ MaxStarts \in Nat \ {0}

VARIABLES
    truth,       \* the backend's account state and conversations
    seq, items,  \* its EventQueue
    alive,       \* the child is there
    generation,  \* chatBackend().generation()
    givenUp,     \* CoProcess has spent its restarts
    pc,          \* the request ChatClient waits for, or "idle"
    isStarted, lastSeq, gen,      \* ChatClient's fields
    model,       \* ... its accts and convMap
    gap,         \* history: an event the client had not seen went first
    torn         \* history: the last snapshot is not one child's, or a part
                 \* of it was never answered

vars == <<truth, seq, items, alive, generation, givenUp, pc, isStarted,
          lastSeq, gen, model, gap, torn>>
backend == <<truth, seq, items, alive, generation, givenUp>>
client == <<pc, isStarted, lastSeq, gen, model>>

Off == 0          \* "disconnected"; no role
On == 1           \* "connected"; an operator
Nobody == <<>>    \* no conversations
Fresh == [acct |-> Off, convs |-> Nobody]
Conv == [unread : 0 .. MaxUnread, role : {Off, On}]

\* f with v at c
With(f, c, v) == [d \in DOMAIN f \cup {c} |-> IF d = c THEN v ELSE f[d]]
\* drain(): of a queue, what is newer
Newer(q, after) == Keep(q, {e \in Range(q) : e.seq > after})
Newest(q) == IF q = <<>> THEN -1 ELSE Last(q).seq
Asking == {"events", "accounts", "convs", "roles"}     \* sync()

Init ==
    /\ truth = Fresh /\ seq = 0 /\ items = <<>>
    /\ alive = FALSE /\ generation = 0 /\ givenUp = FALSE
    /\ pc = "idle" /\ isStarted = FALSE /\ lastSeq = -1 /\ gen = 0
    /\ model = Fresh /\ gap = FALSE /\ torn = FALSE

-----------------------------------------------------------------------------
(* The backend: a change and its event are one step.                       *)

\* EventQueue.push(): past the cap the oldest goes
PushNewestOut(type, conv, n) ==     \* mutant: the new event is the one dropped
    /\ alive /\ seq < MaxEvents
    /\ seq' = seq + 1
    /\ items' = IF Len(items) = EventCap THEN items
                ELSE Append(items, [seq |-> seq', type |-> type, conv |-> conv, n |-> n])
    /\ gap' = (gap \/ (Len(items) = EventCap /\ Head(items).seq > lastSeq))
    /\ UNCHANGED <<alive, generation, givenUp, client, torn>>
Push(type, conv, n) ==
    /\ alive /\ seq < MaxEvents
    /\ seq' = seq + 1
    /\ LET q == Append(items, [seq |-> seq', type |-> type, conv |-> conv, n |-> n])
           full == Len(q) > EventCap
       IN /\ items' = IF full THEN Tail(q) ELSE q
          /\ gap' = (gap \/ (full /\ Head(q).seq > lastSeq))
    /\ UNCHANGED <<alive, generation, givenUp, client, torn>>

Change(c, field, n) == truth' = [truth EXCEPT !.convs[c][field] = n]

set_state(s) ==
    /\ truth' = [truth EXCEPT !.acct = s]
    /\ Push("state", "", s)

ensure_conv(c) ==
    /\ c \notin DOMAIN truth.convs
    /\ truth' = [truth EXCEPT !.convs = With(@, c, [unread |-> 0, role |-> Off])]
    /\ Push("conv-new", c, 0)

remove_conv(c) ==
    /\ c \in DOMAIN truth.convs
    /\ truth' = [truth EXCEPT !.convs = Restrict(@, DOMAIN @ \ {c})]
    /\ Push("conv-gone", c, 0)

add_message(c) ==
    /\ c \in DOMAIN truth.convs
    /\ truth.convs[c].unread < MaxUnread        \* bound
    /\ Change(c, "unread", truth.convs[c].unread + 1)
    /\ Push("unread", c, truth.convs[c].unread + 1)

mark_read(c) ==
    /\ c \in DOMAIN truth.convs /\ truth.convs[c].unread > 0
    /\ Change(c, "unread", 0)
    /\ Push("unread", c, 0)

role_check(c, role) ==
    /\ c \in DOMAIN truth.convs /\ truth.convs[c].role # role
    /\ Change(c, "role", role)
    /\ Push("role", c, role)

Backend ==
    \/ \E s \in {Off, On} : set_state(s)
    \/ \E c \in Convs : \/ ensure_conv(c) \/ remove_conv(c)
                        \/ add_message(c) \/ mark_read(c)
    \/ \E c \in Convs, role \in {Off, On} : role_check(c, role)

-----------------------------------------------------------------------------
(* CoProcess, as ChatClient sees it.                                       *)

Crash ==
    /\ alive
    /\ alive' = FALSE
    /\ UNCHANGED <<truth, seq, items, generation, givenUp, client, gap, torn>>

\* A new child: it knows nothing; its numbers are higher than any before,
\* as they start from the clock
NewChild ==
    /\ generation < MaxStarts                    \* bound
    /\ alive' = TRUE
    /\ generation' = generation + 1
    /\ truth' = Fresh /\ items' = <<>>
    /\ torn' = (torn \/ pc \in Asking \ {"events"})
    /\ UNCHANGED <<seq, givenUp, gap>>

\* A request - the client's own, or a window's between two of them - finds
\* the child dead and is asked of a new one
Respawn ==
    /\ ~alive /\ ~givenUp
    /\ pc # "idle" \/ isStarted
    /\ NewChild
    /\ UNCHANGED client

GiveUp ==
    /\ ~alive /\ ~givenUp
    /\ pc # "idle" \/ isStarted
    /\ givenUp' = TRUE
    /\ UNCHANGED <<truth, seq, items, alive, generation, client, gap, torn>>

-----------------------------------------------------------------------------
(* ChatClient.                                                             *)

\* sync() begins: lastSeq = -1, and the first of its requests is made
Resync ==
    /\ pc' = "events"
    /\ lastSeq' = -1
    /\ UNCHANGED <<gen, model>>

start ==
    /\ pc = "idle" /\ ~isStarted /\ ~givenUp
    /\ Resync
    /\ UNCHANGED <<backend, isStarted, gap, torn>>

\* The reply to "events": everything up to its newest is in the snapshot
EventsReply ==
    /\ pc = "events" /\ alive
    /\ lastSeq' = Newest(items)
    /\ pc' = "accounts"
    /\ gap' = FALSE /\ torn' = FALSE
    /\ UNCHANGED <<backend, isStarted, gen, model>>

AccountsReply ==
    /\ pc = "accounts" /\ alive
    /\ model' = [acct |-> truth.acct, convs |-> Nobody]
    /\ pc' = "convs"
    /\ UNCHANGED <<backend, isStarted, lastSeq, gen, gap, torn>>

ConvsReply ==
    /\ pc = "convs" /\ alive
    /\ model' = [model EXCEPT !.convs =
                   [c \in DOMAIN truth.convs |-> [truth.convs[c] EXCEPT !.role = Off]]]
    /\ pc' = "roles"
    /\ UNCHANGED <<backend, isStarted, lastSeq, gen, gap, torn>>

\* The reply to "roles" is the last: sync() returns true
SyncDone ==
    /\ gen' = generation
    /\ isStarted' = TRUE
    /\ pc' = "idle"

RolesReplyDrains ==                  \* mutant: the queue is drained last
    /\ pc = "roles" /\ alive
    /\ model' = [model EXCEPT !.convs =
                   [c \in DOMAIN @ |->
                      IF c \in DOMAIN truth.convs /\ truth.convs[c].role # Off
                      THEN [@[c] EXCEPT !.role = truth.convs[c].role] ELSE @[c]]]
    /\ SyncDone
    /\ lastSeq' = Newest(items)
    /\ UNCHANGED <<backend, gap, torn>>
RolesReply ==
    /\ pc = "roles" /\ alive
    /\ model' = [model EXCEPT !.convs =
                   [c \in DOMAIN @ |->
                      IF c \in DOMAIN truth.convs /\ truth.convs[c].role # Off
                      THEN [@[c] EXCEPT !.role = truth.convs[c].role] ELSE @[c]]]
    /\ SyncDone
    /\ UNCHANGED <<backend, lastSeq, gap, torn>>

\* ChatClient::apply()
apply(m, e) ==
    CASE e.type = "state" -> [m EXCEPT !.acct = e.n]
      [] e.type = "conv-new" ->
           [m EXCEPT !.convs = With(@, e.conv, [unread |-> e.n, role |-> Off])]
      [] e.type = "conv-gone" -> [m EXCEPT !.convs = Restrict(@, DOMAIN @ \ {e.conv})]
      [] e.type \in {"unread", "role"} /\ e.conv \in DOMAIN m.convs ->
           [m EXCEPT !.convs[e.conv][e.type] = e.n]
      [] OTHER -> m

\* The events of a queue, one after the other
Applied(m, q) ==
    LET after[i \in 0 .. Len(q)] ==
            IF i = 0 THEN m ELSE apply(after[i - 1], q[i])
    IN  after[Len(q)]

\* The timer: 250 ms or 2 s, but always while isStarted
poll ==
    /\ pc = "idle" /\ isStarted
    /\ pc' = "poll"
    /\ UNCHANGED <<backend, isStarted, lastSeq, gen, model, gap, torn>>

\* The reply to "events --after lastSeq" (no --after when lastSeq < 0), which
\* also drops what the client has.  From another child than the one the
\* model was read from, it is thrown away and everything is read again.
PollReplyTrusts ==                  \* mutant: the generation is not looked at
    /\ pc = "poll" /\ alive
    /\ items' = Newer(items, lastSeq)
    /\ model' = Applied(model, items')
    /\ lastSeq' = IF items' = <<>> THEN lastSeq ELSE Newest(items')
    /\ pc' = "idle"
    /\ UNCHANGED gen
    /\ UNCHANGED <<truth, seq, alive, generation, givenUp, isStarted, gap, torn>>
PollReply ==
    /\ pc = "poll" /\ alive
    /\ items' = Newer(items, lastSeq)
    /\ \/ generation # gen /\ Resync
       \/ /\ generation = gen
          /\ model' = Applied(model, items')
          /\ lastSeq' = IF items' = <<>> THEN lastSeq ELSE Newest(items')
          /\ pc' = "idle"
          /\ UNCHANGED gen
    /\ UNCHANGED <<truth, seq, alive, generation, givenUp, isStarted, gap, torn>>

\* call() returns false: sync() fails at its first two requests, goes on
\* without the last two, and a poll from the child it knows turns chat off
Unanswered ==
    \/ /\ pc \in {"events", "accounts"}
       /\ isStarted' = FALSE /\ pc' = "idle"
       /\ UNCHANGED <<lastSeq, gen>>
       /\ model' = model
    \/ /\ pc = "convs"
       /\ pc' = "roles"
       /\ UNCHANGED <<isStarted, lastSeq, gen, model>>
    \/ /\ pc = "roles"
       /\ SyncDone
       /\ UNCHANGED <<lastSeq, model>>
    \/ /\ pc = "poll"
       /\ \/ /\ generation' # gen
             /\ Resync
             /\ UNCHANGED isStarted
          \/ /\ generation' = gen
             /\ isStarted' = FALSE /\ pc' = "idle"
             /\ UNCHANGED <<lastSeq, gen, model>>

NoReply ==
    \/ /\ givenUp                          \* no child, and none will come
       /\ torn' = (torn \/ pc \in {"convs", "roles"})
       /\ UNCHANGED <<backend, gap>>
       /\ Unanswered
    \/ /\ ~givenUp /\ pc # "idle"          \* replaced, and the second did not
       /\ NewChild                         \* answer either
       /\ Unanswered

\* reload-config between two polls: an account that changed loses its
\* conversations without a word, and resync() reads everything again
reload_config ==
    /\ pc = "idle" /\ isStarted /\ alive
    /\ truth' = Fresh
    /\ Resync
    /\ UNCHANGED <<seq, items, alive, generation, givenUp, isStarted, gap, torn>>

Client ==
    \/ EventsReply \/ AccountsReply \/ ConvsReply \/ RolesReply
    \/ PollReply \/ NoReply

Next == Backend \/ Crash \/ Respawn \/ GiveUp \/ start \/ poll \/ Client \/ reload_config
Spec == Init /\ [][Next]_vars

(* The client polls for as long as it is started, CoProcess does something *)
(* about a dead child, and a request is answered or fails.                 *)
Fairness ==
    /\ WF_vars(poll)
    /\ WF_vars(Respawn \/ GiveUp)
    /\ WF_vars(Client)
FairSpec == Spec /\ Fairness

-----------------------------------------------------------------------------
(* Properties.                                                             *)

TypeOK ==
    /\ {truth.acct, model.acct} \subseteq {Off, On}
    /\ \A s \in {truth, model} : /\ DOMAIN s.convs \subseteq Convs
                                 /\ \A c \in DOMAIN s.convs : s.convs[c] \in Conv
    /\ seq \in 0 .. MaxEvents /\ lastSeq \in -1 .. seq
    /\ Len(items) <= EventCap
    /\ \A i \in DOMAIN items : items[i].seq = seq - (Len(items) - i)
    /\ alive \in BOOLEAN /\ givenUp \in BOOLEAN /\ isStarted \in BOOLEAN
    /\ generation \in 0 .. MaxStarts /\ gen \in 0 .. generation
    /\ pc \in Asking \cup {"idle", "poll"}
    /\ gap \in BOOLEAN /\ torn \in BOOLEAN

\* The client has its model from the child that is there, and waits for the
\* next poll
Settled == pc = "idle" /\ isStarted /\ alive /\ gen = generation

\* "so no event can fall between snapshot and queue": what the windows show,
\* once the events still queued are applied, is what the backend has.
NothingFallsBetween ==
    Settled /\ ~gap /\ ~torn => Applied(model, Newer(items, lastSeq)) = truth

\* When changes and crashes stop, the windows come to show what is, or chat
\* goes off.
WindowsCatchUp == <>[](isStarted /\ ~gap /\ ~torn => model = truth)

\* chat.cpp: "the generation is read last: a restart during the calls above
\* shows up as a mismatch on the next poll and the model is read again".
RestartNoticed == pc = "idle" /\ isStarted /\ torn => gen # generation

\* The queue is numbered without a hole (TypeOK), and with what it holds the
\* windows' copy is the backend's (EventQueue, sync, apply).
NothingIsMissed == TypeOK /\ NothingFallsBetween
=============================================================================
