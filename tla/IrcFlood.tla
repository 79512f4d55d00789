------------------------------- MODULE IrcFlood -------------------------------
(***************************************************************************)
(* Flood control: the token bucket of IrcAdapter.send_raw and _pump, in    *)
(* integers.  A token is RATE ticks of credit; the code's tokens is        *)
(* credit / RATE.  Only lines queued while up pass through it - what       *)
(* registration sends, PONG, our PING and QUIT do not.                     *)
(*                                                                         *)
(* The loop may run a due timer late, by up to Late ticks; a line may be   *)
(* typed at any moment, the one the timer is due included.                 *)
(***************************************************************************)
EXTENDS Integers

CONSTANTS
    BURST,       \* lines at once
    RATE,        \* ticks a line then takes
    Late,        \* most a timer runs late
    FloodTime,   \* bound: the clock stops there
    MaxQueue     \* bound: lines waiting

ASSUME FloodConstantsOK ==
    /\ BURST \in Nat \ {0} /\ RATE \in Nat \ {0}
    /\ Late \in Nat /\ FloodTime \in Nat /\ MaxQueue \in Nat \ {0}

VARIABLES
    clock,       \* loop.clock()
    credit,      \* self.tokens * RATE, as of t_tok
    t_tok,       \* when it was last reckoned
    outq,        \* len(self.outq)
    pumpDue,     \* when pump_timer is due, or NoTimer
    from, count, \* history: a moment, chosen freely, and the lines moved to
                 \* the socket since
    waits        \* history: since when the oldest queued line has been it

floodVars == <<clock, credit, t_tok, outq, pumpDue, from, count, waits>>

NoTimer == -1
Full == BURST * RATE

\* on_welcome()
FloodInit ==
    /\ clock = 0 /\ credit = Full /\ t_tok = 0 /\ outq = 0 /\ pumpDue = NoTimer
    /\ from = 0 /\ count = 0 /\ waits = 0

\* _pump() with q lines queued: n go, as many as there are tokens for
PumpUncapped(q) ==                  \* mutant: idle time saves up without end
    LET all == credit + clock - t_tok
        c == all
    IN \E n \in 0 .. q :
         /\ n * RATE <= c
         /\ n < q => c < (n + 1) * RATE
         /\ t_tok' = clock
         /\ credit' = c - n * RATE
         /\ outq' = q - n
         /\ pumpDue' = IF n = q THEN NoTimer ELSE clock + RATE - credit'
         /\ count' = count + n
         /\ waits' = IF n > 0 \/ outq = 0 THEN clock ELSE waits
PumpUnarmed(q) ==                   \* mutant: only the first to wait arms the timer
    LET all == credit + clock - t_tok
        c == IF all > Full THEN Full ELSE all
    IN \E n \in 0 .. q :
         /\ n * RATE <= c
         /\ n < q => c < (n + 1) * RATE
         /\ t_tok' = clock
         /\ credit' = c - n * RATE
         /\ outq' = q - n
         /\ pumpDue' = IF n = q \/ outq > 0 THEN NoTimer ELSE clock + RATE - credit'
         /\ count' = count + n
         /\ waits' = IF n > 0 \/ outq = 0 THEN clock ELSE waits
Pump(q) ==
    LET all == credit + clock - t_tok
        c == IF all > Full THEN Full ELSE all
    IN \E n \in 0 .. q :
         /\ n * RATE <= c
         /\ n < q => c < (n + 1) * RATE
         /\ t_tok' = clock
         /\ credit' = c - n * RATE
         /\ outq' = q - n
         /\ pumpDue' = IF n = q THEN NoTimer ELSE clock + RATE - credit'
         /\ count' = count + n
         /\ waits' = IF n > 0 \/ outq = 0 THEN clock ELSE waits

\* send_raw() while up
Send ==
    /\ outq < MaxQueue
    /\ Pump(outq + 1)
    /\ UNCHANGED <<clock, from>>

\* The timer
PumpTimer ==
    /\ pumpDue # NoTimer /\ clock >= pumpDue
    /\ Pump(outq)
    /\ UNCHANGED <<clock, from>>

FloodTick ==
    /\ clock < FloodTime
    /\ pumpDue # NoTimer => clock < pumpDue + Late
    /\ clock' = clock + 1
    /\ UNCHANGED <<credit, t_tok, outq, pumpDue, from, count, waits>>

\* History: the count begins here
Watch ==
    /\ from' = clock /\ count' = 0
    /\ UNCHANGED <<clock, credit, t_tok, outq, pumpDue, waits>>

FloodNext == Send \/ PumpTimer \/ FloodTick \/ Watch
FloodSpec == FloodInit /\ [][FloodNext]_floodVars

-----------------------------------------------------------------------------
(* Properties.                                                             *)

\* Types, and the timer is there exactly while lines wait, due when the next
\* token is.
FloodTypeOK ==
    /\ clock \in Nat /\ t_tok \in Nat /\ from \in Nat /\ waits \in Nat
    /\ credit \in 0 .. Full /\ outq \in 0 .. MaxQueue /\ count \in Nat
    /\ t_tok <= clock /\ from <= clock /\ waits <= clock
    /\ IF outq = 0 THEN pumpDue = NoTimer ELSE pumpDue = t_tok + RATE - credit

\* "a burst of this many lines, then one every RATE seconds": from any
\* moment on, no more lines have gone to the socket than a full bucket and
\* the time since allow.
NeverFloods == count * RATE <= Full + (clock - from)

\* Nor fewer: the line at the head of the queue is there no longer than one
\* takes, and what the loop is late.
HeadMovesOn == outq > 0 => clock <= waits + RATE + Late
=============================================================================
