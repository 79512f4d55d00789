---------------------------- MODULE IrcKeepalive ----------------------------
(***************************************************************************)
(* The keepalive of an IRC connection that is up: IrcAdapter._keepalive    *)
(* and what _on_read does to it, on the timed side of the selectors loop   *)
(* (Loop.run_once: select, the ready sockets' handlers, then the timers    *)
(* that are due).                                                          *)
(*                                                                         *)
(* Time counts in ticks.  What makes this subtle is that nothing is        *)
(* prompt: a handler of any other connection may hold the loop up for Busy *)
(* ticks between the select and the timers, and bytes that arrive in that  *)
(* time lie unread in the socket when the keepalive looks at its clock.    *)
(***************************************************************************)
EXTENDS Integers

CONSTANTS
    PING_IDLE,   \* silence after which we send a PING
    PING_GRACE,  \* silence after it that is taken for death
    Busy,        \* most the handlers of one round take
    Rtt,         \* most a living server takes to answer a PING
    MaxTime      \* bound: the clock stops there

ASSUME ConstantsOK ==
    /\ PING_IDLE \in Nat /\ PING_GRACE \in Nat /\ PING_GRACE <= PING_IDLE
    /\ Busy \in Nat /\ Rtt \in Nat /\ MaxTime \in Nat

\* What the answers' promptness has to do with the loop's: see
\* OnlyTheDeadAreDropped.
PromptEnough == Rtt + Busy < PING_GRACE

VARIABLES
    now,         \* loop.clock()
    up,          \* phase = "up": not given up as dead
    t_in,        \* when bytes were last read
    ping_out,    \* when the PING was sent that nothing has answered, or None
    due,         \* when the keepalive timer is due
    selecting,   \* the loop waits in select()
    t0,          \* when select() last returned
    ready,       \* the socket was ready then and is not read yet
    arrived,     \* bytes lie unread in the socket
    answerBy,    \* when the server will have answered, or None
    serverUp     \* the server, and the way there and back

vars == <<now, up, t_in, ping_out, due, selecting, t0, ready, arrived,
          answerBy, serverUp>>

None == -1

\* on_welcome() read 001 and called _keepalive()
Init ==
    /\ now = 0 /\ up = TRUE /\ t_in = 0 /\ ping_out = None /\ due = PING_IDLE
    /\ selecting = TRUE /\ t0 = 0 /\ ready = FALSE
    /\ arrived = FALSE /\ answerBy = None /\ serverUp = TRUE

-----------------------------------------------------------------------------
(* The loop.                                                               *)

\* select() returns: something is ready, or the next timer is due
Select ==
    /\ up /\ selecting
    /\ selecting' = FALSE
    /\ t0' = now
    /\ ready' = arrived
    /\ UNCHANGED <<now, up, t_in, ping_out, due, arrived, answerBy, serverUp>>

\* _on_read() drains the socket; anything at all answers a keepalive
ReadKeepsPing ==                    \* mutant: only a PONG would
    /\ up /\ ready
    /\ ready' = FALSE
    /\ arrived' = FALSE
    /\ t_in' = now
    /\ UNCHANGED <<now, up, ping_out, due, selecting, t0, answerBy, serverUp>>
Read ==
    /\ up /\ ready
    /\ ready' = FALSE
    /\ arrived' = FALSE
    /\ t_in' = now
    /\ ping_out' = None
    /\ UNCHANGED <<now, up, due, selecting, t0, answerBy, serverUp>>

\* _keepalive(), run by run_due().  That a PING is out and its grace not
\* over is never so when the timer runs: see TypeOK.
KeepaliveRestarts ==                \* mutant: each silence is a new one
    \/ /\ ping_out # None /\ now - ping_out >= PING_GRACE
       /\ up' = FALSE
       /\ UNCHANGED <<ping_out, due, answerBy>>
    \/ /\ ping_out = None \/ now - ping_out < PING_GRACE
       /\ ping_out' = now
       /\ answerBy' = now + Rtt
       /\ due' = now + PING_IDLE
       /\ UNCHANGED up
Keepalive ==
    \/ /\ ping_out # None /\ now - ping_out >= PING_GRACE
       /\ up' = FALSE                                      \* _lost()
       /\ UNCHANGED <<ping_out, due, answerBy>>
    \/ /\ ping_out = None /\ now - t_in >= PING_IDLE
       /\ ping_out' = now                                  \* PING :tvchat
       /\ answerBy' = now + Rtt
       /\ due' = now + PING_GRACE
       /\ UNCHANGED up
    \/ /\ ping_out = None /\ now - t_in < PING_IDLE
       /\ due' = t_in + PING_IDLE
       /\ UNCHANGED <<up, ping_out, answerBy>>

\* The round's handlers are through: run_due(), and back to select()
RunDueFirst ==                      \* mutant: the timers before the sockets
    /\ up /\ ~selecting
    /\ selecting' = TRUE
    /\ ready' = FALSE
    /\ \/ now >= due /\ Keepalive
       \/ now < due /\ UNCHANGED <<up, ping_out, due, answerBy>>
    /\ UNCHANGED <<now, t_in, t0, arrived, serverUp>>
RunDue ==
    /\ up /\ ~selecting /\ ~ready
    /\ selecting' = TRUE
    /\ \/ now >= due /\ Keepalive
       \/ now < due /\ UNCHANGED <<up, ping_out, due, answerBy>>
    /\ UNCHANGED <<now, t_in, t0, ready, arrived, serverUp>>

-----------------------------------------------------------------------------
(* The server, the network and the clock.                                  *)

\* Bytes arrive: the answer, or anything else
Arrive ==
    /\ serverUp
    /\ arrived' = TRUE
    /\ answerBy' \in {answerBy, None}
    /\ UNCHANGED <<now, up, t_in, ping_out, due, selecting, t0, ready, serverUp>>

\* A NAT that forgot the connection, a host that went: nothing comes any more
GoSilent ==
    /\ serverUp
    /\ serverUp' = FALSE
    /\ UNCHANGED <<now, up, t_in, ping_out, due, selecting, t0, ready, arrived,
                   answerBy>>

\* Time passes: not while select() has cause to return, not beyond Busy in
\* the handlers, not past the moment the server has answered
Tick ==
    /\ now < MaxTime
    /\ selecting => ~arrived /\ now < due
    /\ ~selecting => now < t0 + Busy
    /\ serverUp /\ answerBy # None => now < answerBy
    /\ now' = now + 1
    /\ UNCHANGED <<up, t_in, ping_out, due, selecting, t0, ready, arrived,
                   answerBy, serverUp>>

Next == Select \/ Read \/ RunDue \/ Arrive \/ GoSilent \/ Tick
Spec == Init /\ [][Next]_vars

-----------------------------------------------------------------------------
(* Properties.                                                             *)

FlagsOK ==
    /\ up \in BOOLEAN /\ selecting \in BOOLEAN /\ ready \in BOOLEAN
    /\ arrived \in BOOLEAN /\ serverUp \in BOOLEAN

ClocksOK ==
    /\ now \in Nat /\ t_in \in Nat /\ due \in Nat /\ t0 \in Nat
    /\ ping_out \in Nat \cup {None} /\ answerBy \in Nat \cup {None}
    /\ ping_out # None => due = ping_out + PING_GRACE

\* Every variable has its type, and while a PING is out the timer is due
\* when its grace is over.
TypeOK == FlagsOK /\ ClocksOK

\* A connection that has been silent is noticed: none is still taken to be
\* up when the last byte is this long past - the two waits, and what the
\* loop may be late for each.
SilenceIsNoticed ==
    up => now <= t_in + PING_IDLE + PING_GRACE + 2 * Busy

\* A server that answers is never taken for dead, although its answer may
\* lie unread in the socket when the timer runs - so long as the answer's
\* way and the loop's longest round fit in the grace together.
OnlyTheDeadAreDropped == PromptEnough => (~up => ~serverUp)
=============================================================================
