---------------------------- MODULE IrcConnection ----------------------------
(***************************************************************************)
(* The life of one IRC account's connection, as IrcAdapter in              *)
(* tvchat/backend/tvchat-backend runs it: connect, look up, try the        *)
(* addresses in turn, TLS, register, up; a connection that fails or is     *)
(* lost; the wait and the retry; the user's connect and disconnect at any  *)
(* moment; and what becomes of the lines flood control still holds.        *)
(*                                                                         *)
(* Everything runs on one selectors loop, so a handler is one step.  What  *)
(* interleaves is the order of the loop's callbacks: socket readiness,     *)
(* timers, the getaddrinfo thread's answer, and the UI's requests.         *)
(* Time is abstract here: a live timer may fire at any moment.             *)
(***************************************************************************)
EXTENDS Integers, Sequences, FiniteSets

CONSTANTS
    MaxAddrs,    \* most addresses a lookup returns
    MaxLines,    \* bound: lines the user types
    GenCount,    \* bound: generations are counted modulo GenCount
    AttemptCap   \* attempts from which the delay is RETRY_MAX anyway

ASSUME ConstantsOK ==
    /\ MaxAddrs \in Nat \ {0}
    /\ MaxLines \in Nat
    /\ GenCount \in Nat /\ GenCount > 1
    /\ AttemptCap \in Nat \ {0}

VARIABLES
    phase,        \* self.phase
    acct,         \* account.state, what the UI shows
    gen,          \* self.gen: bumped by _close(), stale callbacks no-op
    auto,         \* self.auto: reconnecting by ourselves
    attempt,      \* self.attempt, saturated at AttemptCap
    retryTimer,   \* self.retry_timer is not None
    liveRetries,  \* how many _reconnect timers are live in the loop's heap
    deadlines,    \* generations whose TIMEOUT timer is live in the heap
    lookups,      \* generations whose getaddrinfo thread has not answered
    addrs,        \* len(self.addrs): addresses still to try
    outq,         \* self.outq: lines waiting for flood control
    pumpTimer,    \* self.pump_timer is live
    wbuf,         \* self.wbuf, as whole lines
    stable,       \* up for RETRY_STABLE seconds or more
    tls,          \* self.tls (configuration)
    hasPassword,  \* environment: find_password_where() finds one
    reach,        \* environment: the server can be reached and answers
    typed,        \* history: lines accepted so far; a line is its number
    sent,         \* history: lines given to the socket, in order
    noted         \* history: lines the user was told were not sent

vars == <<phase, acct, gen, auto, attempt, retryTimer, liveRetries, deadlines,
          lookups, addrs, outq, pumpTimer, wbuf, stable, tls, hasPassword,
          reach, typed, sent, noted>>

envVars == <<tls, hasPassword, reach>>
lineVars == <<outq, pumpTimer, wbuf, typed, sent, noted>>
retryVars == <<auto, attempt, retryTimer, liveRetries>>

Gens == 0 .. GenCount - 1
Attempting == {"resolving", "connecting", "tls", "registering"}
Phases == {"down", "up"} \cup Attempting
States == {"disconnected", "connecting", "connected", "error"}
Lines(q) == {q[i] : i \in DOMAIN q}
NextGen == (gen + 1) % GenCount

Init ==
    /\ phase = "down" /\ acct = "disconnected"
    /\ gen = 0 /\ auto = FALSE /\ attempt = 0
    /\ retryTimer = FALSE /\ liveRetries = 0
    /\ deadlines = {} /\ lookups = {} /\ addrs = 0
    /\ outq = <<>> /\ pumpTimer = FALSE /\ wbuf = <<>> /\ stable = FALSE
    /\ tls \in BOOLEAN /\ hasPassword \in BOOLEAN /\ reach \in BOOLEAN
    /\ typed = 0 /\ sent = <<>> /\ noted = {}

-----------------------------------------------------------------------------
(* What the handlers share.                                                *)

\* loop.cancel(self.retry_timer); self.retry_timer = None
CancelRetryForgets ==   \* mutant: the handle is dropped, the timer stays live
    /\ retryTimer' = FALSE
    /\ liveRetries' = liveRetries
CancelRetry ==
    /\ retryTimer' = FALSE
    /\ liveRetries' = IF retryTimer THEN liveRetries - 1 ELSE liveRetries

\* _close() and the _reset() it ends with.  `timers`: the deadlines live as
\* the handler starts; the connection's own is cancelled.
CloseKeepsDeadline(timers) ==   \* mutant: the TIMEOUT timer is not cancelled
    /\ NextGen \notin lookups      \* bound: fewer than GenCount lookups
    /\ gen' = NextGen
    /\ phase' = "down"
    /\ deadlines' = timers
    /\ addrs' = 0
    /\ outq' = <<>> /\ pumpTimer' = FALSE /\ wbuf' = <<>>
    /\ stable' = FALSE
CloseKeepsQueue(timers) ==      \* mutant: _reset() leaves outq as it was
    /\ NextGen \notin lookups      \* bound: fewer than GenCount lookups
    /\ gen' = NextGen
    /\ phase' = "down"
    /\ deadlines' = timers \ {gen}
    /\ addrs' = 0
    /\ outq' = outq /\ pumpTimer' = FALSE /\ wbuf' = <<>>
    /\ stable' = FALSE
Close(timers) ==
    /\ NextGen \notin lookups      \* bound: fewer than GenCount lookups
    /\ gen' = NextGen
    /\ phase' = "down"
    /\ deadlines' = timers \ {gen}
    /\ addrs' = 0
    /\ outq' = <<>> /\ pumpTimer' = FALSE /\ wbuf' = <<>>
    /\ stable' = FALSE

\* _drop_queue(): the lines still queued are said not to be sent
DropQueueSilently == noted' = noted      \* mutant: no note
DropQueue == noted' = noted \cup Lines(outq)

\* _retry(), `n` being self.attempt when it is called
RetryForgetsAuto(n) ==        \* mutant: not marked as our own reconnecting
    /\ attempt' = IF n < AttemptCap THEN n + 1 ELSE n
    /\ acct' = "connecting"
    /\ retryTimer' = TRUE
    /\ liveRetries' = liveRetries + 1
    /\ UNCHANGED auto
Retry(n) ==
    /\ attempt' = IF n < AttemptCap THEN n + 1 ELSE n
    /\ auto' = TRUE
    /\ acct' = "connecting"
    /\ retryTimer' = TRUE
    /\ liveRetries' = liveRetries + 1

\* _fail(): an attempt that did not get through
FailForgetsState(timers) ==   \* mutant: the account is left "connecting"
    /\ DropQueue
    /\ Close(timers)
    /\ \/ auto /\ Retry(attempt)
       \/ ~auto /\ UNCHANGED <<acct, retryVars>>
    /\ UNCHANGED <<envVars, typed, sent>>
Fail(timers) ==
    /\ DropQueue
    /\ Close(timers)
    /\ \/ auto /\ Retry(attempt)
       \/ ~auto /\ acct' = "error" /\ UNCHANGED retryVars
    /\ UNCHANGED <<envVars, typed, sent>>

\* _lost(): a connection that was made and is gone
LostAlwaysStartsOver ==       \* mutant: the count restarts at every loss
    /\ DropQueue
    /\ Close(deadlines)
    /\ \/ (phase = "up" \/ auto) /\ Retry(0)
       \/ /\ phase # "up" /\ ~auto
          /\ attempt' = 0
          /\ acct' = "disconnected"
          /\ UNCHANGED <<auto, retryTimer, liveRetries>>
    /\ UNCHANGED <<envVars, lookups, typed, sent>>
Lost ==
    LET n == IF stable THEN 0 ELSE attempt IN
    /\ DropQueue
    /\ Close(deadlines)
    /\ \/ (phase = "up" \/ auto) /\ Retry(n)
       \/ /\ phase # "up" /\ ~auto
          /\ attempt' = n
          /\ acct' = "disconnected"
          /\ UNCHANGED <<auto, retryTimer, liveRetries>>
    /\ UNCHANGED <<envVars, lookups, typed, sent>>

\* connect() once it has what it needs: the deadline and the lookup thread
BeginWithoutTimer ==          \* mutant: nothing bounds the attempt
    /\ phase' = "resolving"
    /\ acct' = "connecting"
    /\ lookups' = lookups \cup {gen}
    /\ UNCHANGED <<gen, deadlines, addrs, stable>>
BeginAttempt ==
    /\ phase' = "resolving"
    /\ acct' = "connecting"
    /\ deadlines' = deadlines \cup {gen}
    /\ lookups' = lookups \cup {gen}
    /\ UNCHANGED <<gen, addrs, stable>>

\* _try_next() with k addresses left: the first that begins to connect, or
\* none does.  A reachable server has an address that works, the last one.
TryNext(k) ==
    \/ /\ \E left \in 0 .. k - 1 : addrs' = left
       /\ phase' = "connecting"
       /\ acct' = "connecting"
       /\ UNCHANGED <<gen, retryVars, deadlines, lineVars, stable, envVars>>
    \/ /\ ~reach
       /\ Fail(deadlines)

\* _register(): CAP LS, NICK and USER go out (IrcRegistration takes it on)
Register ==
    /\ phase' = "registering"
    /\ acct' = "connecting"
    /\ UNCHANGED <<gen, retryVars, deadlines, lookups, addrs, lineVars, stable,
                   envVars>>

\* _pump() with `q` queued: flood control lets n lines through; if some must
\* wait, a timer comes back for them
PumpOnce(q, n) ==               \* mutant: nobody comes back for the rest
    /\ wbuf' = wbuf \o SubSeq(q, 1, n)
    /\ outq' = SubSeq(q, n + 1, Len(q))
    /\ pumpTimer' = FALSE
PumpLines(q, n) ==
    /\ wbuf' = wbuf \o SubSeq(q, 1, n)
    /\ outq' = SubSeq(q, n + 1, Len(q))
    /\ pumpTimer' = (n < Len(q))

-----------------------------------------------------------------------------
(* What the user asks for.                                                 *)

\* The connect verb: Chat.connect() around IrcAdapter.connect().  With no
\* password it is refused and the account shows the error.
Connect ==
    /\ phase = "down"
    /\ CancelRetry
    /\ \/ /\ hasPassword
          /\ BeginAttempt
          /\ UNCHANGED <<auto, attempt, lineVars, envVars>>
       \/ /\ ~hasPassword
          /\ acct' = "error"
          /\ UNCHANGED <<phase, gen, auto, attempt, deadlines, lookups, addrs,
                         lineVars, stable, envVars>>

\* The disconnect verb.  What is queued or buffered is pushed out once, as
\* far as the socket takes it.
Disconnect ==
    LET rest == wbuf \o outq IN
    /\ \E n \in 0 .. Len(rest) : sent' = sent \o SubSeq(rest, 1, n)
    /\ CancelRetry
    /\ auto' = FALSE /\ attempt' = 0
    /\ Close(deadlines)
    /\ acct' = IF phase # "down" \/ retryTimer \/ auto THEN "disconnected" ELSE acct
    /\ UNCHANGED <<lookups, envVars, typed, noted>>

\* A line typed while up: send_raw() queues it and pumps
Send ==
    /\ phase = "up" /\ typed < MaxLines
    /\ typed' = typed + 1
    /\ LET q == Append(outq, typed + 1) IN
         \E n \in 0 .. Len(q) : PumpLines(q, n)
    /\ UNCHANGED <<phase, acct, gen, retryVars, deadlines, lookups, addrs,
                   stable, envVars, sent, noted>>

-----------------------------------------------------------------------------
(* What the loop calls back.                                               *)

\* The retry timer fires: _reconnect().  Its return for a timer that finds
\* us up, or no longer retrying, is never taken: see OneRetryTimer.
Reconnect ==
    /\ liveRetries > 0
    /\ liveRetries' = liveRetries - 1
    /\ retryTimer' = FALSE
    /\ \/ /\ auto /\ phase = "down" /\ hasPassword
          /\ BeginAttempt
          /\ UNCHANGED <<auto, attempt>>
       \/ /\ auto /\ phase = "down" /\ ~hasPassword
          /\ auto' = FALSE /\ attempt' = 0
          /\ acct' = "error"
          /\ UNCHANGED <<phase, gen, deadlines, lookups, addrs, stable>>
    /\ UNCHANGED <<lineVars, envVars>>

\* getaddrinfo answered: _resolved(), if the connection is still the one
\* that asked; else the answer is dropped
LookupDoneUnchecked(g) ==      \* mutant: no generation check
    /\ g \in lookups
    /\ lookups' = lookups \ {g}
    /\ \E k \in 1 .. MaxAddrs : TryNext(k)
LookupDone(g) ==
    /\ g \in lookups
    /\ lookups' = lookups \ {g}
    /\ \/ /\ g = gen
          /\ \/ \E k \in 1 .. MaxAddrs : TryNext(k)
             \/ ~reach /\ Fail(deadlines)
       \/ /\ g # gen
          /\ UNCHANGED <<phase, acct, gen, retryVars, deadlines, addrs,
                         lineVars, stable, envVars>>

\* The socket became writable: _connected(), well or not
Connected ==
    /\ phase = "connecting"
    /\ \/ (~reach \/ addrs > 0) /\ TryNext(addrs) /\ UNCHANGED lookups
       \/ ~tls /\ Register
       \/ tls /\ ~reach /\ Fail(deadlines) /\ UNCHANGED lookups
       \/ /\ tls
          /\ phase' = "tls"
          /\ UNCHANGED <<acct, gen, retryVars, deadlines, lookups, addrs,
                         lineVars, stable, envVars>>

\* _handshake() ends
Handshake ==
    /\ phase = "tls"
    /\ \/ Register
       \/ ~reach /\ Fail(deadlines) /\ UNCHANGED lookups

\* Numeric 001: on_welcome()
Welcome ==
    /\ phase = "registering"
    /\ phase' = "up"
    /\ acct' = "connected"
    /\ deadlines' = deadlines \ {gen}
    /\ auto' = FALSE
    /\ UNCHANGED <<gen, attempt, retryTimer, liveRetries, lookups, addrs,
                   lineVars, stable, envVars>>

\* RETRY_STABLE seconds up
BecomeStable ==
    /\ phase = "up" /\ ~stable
    /\ stable' = TRUE
    /\ UNCHANGED <<phase, acct, gen, retryVars, deadlines, lookups, addrs,
                   lineVars, envVars>>

\* The pump timer fires (rounding may leave it just short of a whole token)
Pump ==
    /\ pumpTimer
    /\ \E n \in 0 .. Len(outq) : PumpLines(outq, n)
    /\ UNCHANGED <<phase, acct, gen, retryVars, deadlines, lookups, addrs,
                   stable, envVars, typed, sent, noted>>

\* _on_write(): the socket takes some of the buffer
Write ==
    /\ phase = "up" /\ wbuf # <<>>
    /\ \E n \in 1 .. Len(wbuf) :
         /\ sent' = sent \o SubSeq(wbuf, 1, n)
         /\ wbuf' = SubSeq(wbuf, n + 1, Len(wbuf))
    /\ UNCHANGED <<phase, acct, gen, retryVars, deadlines, lookups, addrs, outq,
                   pumpTimer, stable, envVars, typed, noted>>

\* The connection ends: a read or write error, the server's hang-up, its
\* ERROR line, or a keepalive nobody answered
ConnectionLost ==
    /\ phase \in {"registering", "up"} /\ ~reach
    /\ Lost

\* The TIMEOUT timer of connect() fires.  It has no generation check.
Deadline(g) ==
    /\ g \in deadlines /\ ~reach
    /\ Fail(deadlines \ {g})
    /\ UNCHANGED lookups

\* The world around: the network and the password files
NetworkChanges ==
    /\ reach' = ~reach
    /\ UNCHANGED <<phase, acct, gen, retryVars, deadlines, lookups, addrs,
                   lineVars, stable, tls, hasPassword>>
PasswordChanges ==
    /\ hasPassword' = ~hasPassword
    /\ UNCHANGED <<phase, acct, gen, retryVars, deadlines, lookups, addrs,
                   lineVars, stable, tls, reach>>

\* What a server that answers and a ready socket do for the attempt
Progress == Connected \/ Handshake \/ Welcome

TimedOut == \E g \in Gens : Deadline(g)

Next ==
    \/ Connect \/ Disconnect \/ Send
    \/ Reconnect \/ Connected \/ Handshake \/ Welcome \/ BecomeStable
    \/ Pump \/ Write \/ ConnectionLost
    \/ \E g \in Gens : LookupDone(g) \/ Deadline(g)
    \/ NetworkChanges \/ PasswordChanges

Spec == Init /\ [][Next]_vars

(* Fairness is the loop's, which serves every ready key and every due      *)
(* timer each round: a retry timer fires; a getaddrinfo call returns; a     *)
(* server that stays reachable gets the attempt through; and an attempt it  *)
(* cannot get through is found out by the TIMEOUT timer - strongly fair, as *)
(* the timer's 60 s run on while the network comes and goes.                *)
Fairness ==
    /\ WF_vars(Reconnect)
    /\ \A g \in Gens : WF_vars(LookupDone(g))
    /\ WF_vars(reach /\ Progress)
    /\ SF_vars(TimedOut)

FairSpec == Spec /\ Fairness

-----------------------------------------------------------------------------
(* Properties.                                                             *)

FlagsOK ==
    /\ auto \in BOOLEAN /\ retryTimer \in BOOLEAN /\ stable \in BOOLEAN
    /\ pumpTimer \in BOOLEAN
    /\ tls \in BOOLEAN /\ hasPassword \in BOOLEAN /\ reach \in BOOLEAN

ControlTypeOK ==
    /\ phase \in Phases /\ acct \in States /\ gen \in Gens
    /\ attempt \in 0 .. AttemptCap /\ liveRetries \in Nat
    /\ deadlines \subseteq Gens /\ lookups \subseteq Gens
    /\ addrs \in 0 .. MaxAddrs

LinesTypeOK ==
    /\ typed \in 0 .. MaxLines
    /\ outq \in Seq(1 .. MaxLines) /\ wbuf \in Seq(1 .. MaxLines)
    /\ sent \in Seq(1 .. MaxLines) /\ noted \subseteq 1 .. typed

\* Every variable has its type.
TypeOK == FlagsOK /\ ControlTypeOK /\ LinesTypeOK

\* What the UI shows of an account is true: "connected" exactly while the
\* connection is up, "connecting" exactly while an attempt is under way or a
\* retry is coming.  The UI polls fast, and lists the account under
\* Disconnect, by this state alone.
StateTellsTruth ==
    /\ acct = "connected" <=> phase = "up"
    /\ acct = "connecting" <=> phase \in Attempting \/ retryTimer

\* There is never more than one retry timer, it is the one disconnect() can
\* cancel, and it is only there while the adapter is down and retrying by
\* itself - so a timer can never dial a second time behind a connection.
OneRetryTimer ==
    /\ liveRetries = IF retryTimer THEN 1 ELSE 0
    /\ retryTimer => auto /\ phase = "down"

\* Every attempt in progress has its TIMEOUT timer, and no other TIMEOUT
\* timer is live: it has no generation check, so one left over would cut a
\* later connection.
DeadlineIsOurs ==
    deadlines = IF phase \in Attempting THEN {gen} ELSE {}

\* Only the lookup of the attempt under way can move it: while looking up
\* our own answer is still to come, and in the later phases it has come.
LookupIsOurs ==
    (gen \in lookups) <=> (phase = "resolving")

\* So no callback of a connection that is over, timer or lookup, ever touches
\* a later one, although only some of them check the generation.
NothingStale == OneRetryTimer /\ DeadlineIsOurs /\ LookupIsOurs

\* Lines leave in the order they were typed, each at most once, and one the
\* user was told was not sent is never sent after all: what went out, what
\* the socket's buffer holds and what waits are, in that order, increasing
\* line numbers, and none of them was reported.
Pipeline == sent \o wbuf \o outq
LinesHonest ==
    /\ \A i, j \in DOMAIN Pipeline : i < j => Pipeline[i] < Pipeline[j]
    /\ Lines(Pipeline) \subseteq (1 .. typed) \ noted

\* While a line waits for flood control a timer is coming for it; with the
\* connection gone nothing waits.
QueueIsServed ==
    /\ outq # <<>> => pumpTimer
    /\ phase # "up" => outq = <<>> /\ wbuf = <<>> /\ ~pumpTimer

\* A queued line never vanishes: each step leaves it queued, passes it to
\* the socket, or tells the user - but for a disconnect the user asked for,
\* which pushes out what it can.
QueueNeverVanishes ==
    [][ acct' # "disconnected" =>
        Lines(outq) \subseteq Lines(outq') \cup Lines(wbuf') \cup noted' ]_vars

\* The backoff starts over only after a connection that stayed up
\* RETRY_STABLE seconds, or when retrying is given up: a server that takes
\* us and drops us at once is not hammered.
BackoffKept ==
    [][ attempt' < attempt => stable \/ acct' \in {"disconnected", "error"} ]_vars

\* An attempt always comes to an end (the TIMEOUT timer sees to it).
AttemptEnds == phase \in Attempting ~> phase \in {"down", "up"}

\* Once the network stays up (and the password stays there), an account that
\* is waiting to reconnect gets connected again, unless the user stops it.
ReconnectsInTheEnd ==
    <>[](reach /\ hasPassword) =>
        (retryTimer ~> acct \in {"connected", "disconnected", "error"})

\* What a step may never do: lose a typed line unsaid, or forget the backoff.
QueueAndBackoffKept == QueueNeverVanishes /\ BackoffKept

\* What must come in the end: of an attempt its end, of waiting a connection.
EndsConnected == AttemptEnds /\ ReconnectsInTheEnd
=============================================================================
