----------------------------- MODULE DeltaCore -----------------------------
(***************************************************************************)
(* A Delta Chat account, as DeltaChatAdapter in tvchat-backend runs it: a  *)
(* core (deltachat-rpc-server) as a child process, asked over its pipes.   *)
(* Slow requests leave a callback in self.pending - one of them, the       *)
(* get_next_event that brings every event, is outstanding at all times -   *)
(* and the others wait for their answer in call(), which keeps the rest of *)
(* what arrives for later.  A core that exits is started again; a second   *)
(* device may be given the account, or the account be fetched from one.    *)
(*                                                                         *)
(* The backend is one thread, so a handler is one step, its calls          *)
(* included: each of these is answered, refused (or out of patience), or   *)
(* cut off by the end of the core.  The core is another process: it        *)
(* answers in any order and may exit between any two steps.                *)
(*                                                                         *)
(* Abstracted: what messages say (a message is its id in the core's        *)
(* database), all chats but one (and that one is shorter than              *)
(* HISTORY_LOAD), delays, the mail servers' connectivity, an account on a  *)
(* gateway (dcgw), the offers' events at the master Floyd, invitations.    *)
(***************************************************************************)
EXTENDS Naturals, Sequences, FiniteSets, SequencesExt

CONSTANTS
    MaxMsgs,      \* bound: messages in a database
    MaxLoose,     \* bound: retry timers nobody can cancel, when one is added
    MaxEvents,    \* bound: events queued in the core when one is added
    MaxOffers     \* bound: offers not quite over when one is made, and that one

ASSUME DeltaAssumption ==
    /\ MaxMsgs \in Nat \ {0} /\ MaxLoose \in Nat
    /\ MaxEvents \in Nat \ {0} /\ MaxOffers \in Nat \ {0}

VARIABLES
    phase, acct, auto,   \* self.phase, account.state, self.auto
    retryTimer,          \* the timer self.retry_timer names is to fire
    loose,               \* retry timers to fire that it does not name
    deadline,            \* self.timer (START_ or SETUP_TIMEOUT) is to fire
    core,                \* self.proc: none, running, or gone and not yet noticed
    pending,             \* self.pending: callbacks waiting, for each request
    toUs,                \* the core's lines we have not dealt with
    want,                \* self.want_backup
    offer,               \* self.offer: the code is shown
    account,             \* the core's directory: nothing, a bare account, ours
    db,                  \* its messages are 1 .. db
    io,                  \* the core does its mail: on, off, or off since it refused to
    evq,                 \* events it has not delivered
    shown,               \* conv.history: how often it has each msgid
    left,                \* ghost: msgids in it that are another database's
    missed               \* ghost: messages whose event ended in a failed call

adapter == <<phase, acct, auto, retryTimer, loose, deadline>>
rpc == <<core, pending, toUs>>
device == <<want, offer>>
store == <<account, db>>
view == <<shown, left, missed>>
vars == <<adapter, rpc, device, store, io, evq, view>>

Msgs == 1 .. MaxMsgs
NoMsg == 0
Kinds == {"info", "event", "setup", "backup", "offer", "io"}
Nothing == [k \in Kinds |-> 0]
Answer(k, ok, m) == [to |-> k, ok |-> ok, msg |-> m]

\* Requests the core has not answered
Answered(k) == Cardinality({i \in DOMAIN toUs : toUs[i].to = k})
AtCore(k) == pending[k] > Answered(k)

Init ==
    /\ phase = "down" /\ acct = "disconnected" /\ auto = FALSE
    /\ retryTimer = FALSE /\ loose = 0 /\ deadline = FALSE
    /\ core = "none" /\ pending = Nothing /\ toUs = <<>>
    /\ want = FALSE /\ offer = FALSE
    /\ account \in {"none", "bare", "ours"} /\ db \in 0 .. MaxMsgs
    /\ account # "ours" => db = 0
    /\ io = "off" /\ evq = <<>>
    /\ shown = [m \in Msgs |-> 0] /\ left = {} /\ missed = {}

-----------------------------------------------------------------------------
(* Starting, stopping, trying again                                        *)

\* _close() and _reset(): the core is told to go and waited for.  What is asked
\* after that, by a handler that goes on, waits for the next core.
CloseThenAsk(asked) ==
    /\ deadline' = FALSE
    /\ core' = "none" /\ pending' = asked /\ toUs' = <<>>
    /\ want' = FALSE /\ offer' = FALSE
    /\ io' = "off" /\ evq' = <<>>
_close == CloseThenAsk(Nothing)

\* _retry(): self.retry_timer names the new timer only
_retry ==
    /\ auto' = TRUE /\ acct' = "connecting" /\ retryTimer' = TRUE
    /\ loose' = IF retryTimer THEN loose + 1 ELSE loose

GiveUp(state) == acct' = state /\ UNCHANGED <<auto, retryTimer, loose>>

\* _fail(): a start that did not get through
_fail ==
    /\ phase' = "down" /\ _close
    /\ IF auto THEN _retry ELSE GiveUp("error")

\* _lost(): the core is gone; one that was up is started again.  `was` is
\* the phase the handler had got to.
LostThenAsk(was, asked) ==
    /\ phase' = "down" /\ CloseThenAsk(asked)
    /\ IF was = "up" \/ auto THEN _retry ELSE GiveUp("disconnected")
_lost(was) == LostThenAsk(was, Nothing)

\* connect(): the core is started and asked who it is, after what was asked
\* when there was none
Start(asked) ==
    /\ phase' = "starting" /\ acct' = "connecting" /\ deadline' = TRUE
    /\ core' = "running" /\ toUs' = <<>>
    /\ pending' = [asked EXCEPT !["info"] = 1]

\* ... or there is no core to start, or starting it fails and closes it
NoStart ==
    /\ UNCHANGED phase
    /\ UNCHANGED <<deadline, rpc, want>> \/ _close

\* The connect verb, with a core to start or without
connect ==
    /\ phase = "down"
    /\ retryTimer => loose < MaxLoose                        \* bound
    /\ \/ Start(pending) /\ UNCHANGED want
       \/ acct' = "error" /\ NoStart
    /\ UNCHANGED <<auto, retryTimer, loose, offer, store, io, evq, view>>

\* A retry timer fires: _reconnect().  Whichever it was, self.retry_timer
\* names none afterwards.
_reconnect ==
    /\ \/ retryTimer /\ UNCHANGED loose
       \/ loose > 0 /\ loose' = IF retryTimer THEN loose ELSE loose - 1
    /\ retryTimer' = FALSE
    /\ \/ (~auto \/ phase # "down") /\ UNCHANGED <<phase, acct, auto, deadline, rpc, want>>
       \/ auto /\ phase = "down" /\ Start(pending) /\ UNCHANGED <<auto, want>>
       \/ auto /\ phase = "down" /\ acct' = "error" /\ auto' = FALSE /\ NoStart
    /\ UNCHANGED <<offer, store, io, evq, view>>

\* disconnect(), as far as retrying goes: it is stopped first, and a core
\* that is gone without our knowing is found out, and to be started again,
\* by the write that should let it finish.
StopsRetrying ==
    LET broken == phase = "up" /\ core = "gone" IN
      auto' = broken /\ retryTimer' = broken /\ UNCHANGED loose

Disconnected == IF phase # "down" \/ retryTimer \/ auto THEN "disconnected" ELSE acct

disconnect ==
    /\ phase' = "down" /\ _close /\ StopsRetrying
    /\ acct' = Disconnected
    /\ UNCHANGED <<store, view>>

\* START_TIMEOUT or SETUP_TIMEOUT
TimedOut ==
    /\ deadline
    /\ _fail
    /\ UNCHANGED <<store, view>>

\* The core's end is read (lines that a call() held back go with it)
EndOfCore ==
    /\ core = "gone"
    /\ _lost(phase)
    /\ UNCHANGED <<store, view>>

-----------------------------------------------------------------------------
(* What the core answers: _process()                                       *)

Hears(k) == phase # "down" /\ toUs # <<>> /\ Head(toUs).to = k
\* Mutant: the callback of a line that was dealt with stays.
HeardKept(more) ==
    /\ toUs' = Tail(toUs)
    /\ pending' = [k \in Kinds |-> pending[k] + (IF k \in more THEN 1 ELSE 0)]

\* A line is taken out, and its callback, which may ask for `more`
Heard(more) ==
    /\ toUs' = Tail(toUs)
    /\ pending' = [k \in Kinds |-> pending[k] + (IF k \in more THEN 1 ELSE 0)
                                     - (IF k = Head(toUs).to THEN 1 ELSE 0)]

\* One more of what there are n of; a bound: 2 stands for every number above 1
Once(n) == IF n = 0 THEN 1 ELSE 2

\* Mutant: everything in the database is added.
AllLoaded(h) == [m \in Msgs |-> IF m <= db THEN Once(h[m]) ELSE h[m]]

\* merge_history() of a chat's messages, each msgid once
Loaded(h) == [m \in Msgs |-> IF m <= db /\ h[m] = 0 THEN 1 ELSE h[m]]

\* _go(), by a handler in phase `was` that has `more` to ask: mail starts,
\* the chats are shown, the connectivity is told - or a call fails or is cut
\* off before (the chats shown or not).
_go(was, more) ==
    \/ /\ phase' = "up" /\ acct' = "connected"
       /\ deadline' = FALSE /\ io' = "on" /\ shown' = Loaded(shown)
       /\ Heard(more)
       /\ UNCHANGED <<auto, retryTimer, loose, core, device, evq>>
    \/ _fail /\ shown' \in {shown, Loaded(shown)}
    \/ _lost(was) /\ UNCHANGED shown
    \/ _lost("up") /\ shown' \in {shown, Loaded(shown)}

\* Mutant: setting up has no limit.
SetupUntimed(how) ==
    /\ phase' = "setup" /\ acct' = "connecting" /\ deadline' = FALSE
    /\ want' = FALSE
    /\ Heard({"event", how})
    /\ UNCHANGED <<auto, retryTimer, loose, core, offer, io, evq, shown>>

\* _receive_backup() or _configure() asks for `how` and sets its deadline
Setup(how) ==
    /\ phase' = "setup" /\ acct' = "connecting" /\ deadline' = TRUE
    /\ want' = FALSE
    /\ Heard({"event", how})
    /\ UNCHANGED <<auto, retryTimer, loose, core, offer, io, evq, shown>>

\* The first answer: _started() asks for the first event, then whose account
\* this is
_started ==
    /\ Hears("info")
    /\ LET ok == Head(toUs).ok /\ core = "running" IN
         \/ ~Head(toUs).ok /\ _fail /\ UNCHANGED <<account, shown>>
         \/ Head(toUs).ok /\ _lost(phase) /\ UNCHANGED shown
            /\ account' \in {account, IF account = "none" THEN "bare" ELSE account}
         \/ ok /\ _fail /\ UNCHANGED shown   \* a call fails, no password, or want and ours
            /\ account' \in {account, IF account = "none" THEN "bare" ELSE account}
         \/ ok /\ want /\ account # "ours" /\ Setup("backup") /\ account' = "bare"
         \/ ok /\ ~want /\ account # "ours" /\ Setup("setup") /\ account' = "bare"
         \/ ok /\ ~want /\ account = "ours" /\ _go(phase, {"event"}) /\ UNCHANGED account
    /\ missed' = IF phase' = "up" THEN {} ELSE missed
    /\ UNCHANGED <<db, left>>

\* The account is set up (_configured) or received (_backup_done), or not
SetupDone ==
    /\ \E k \in {"setup", "backup"} : Hears(k)
    /\ \/ ~Head(toUs).ok /\ _fail /\ UNCHANGED shown
       \/ Head(toUs).ok /\ core = "running" /\ _go(phase, {})
       \/ Head(toUs).ok /\ _lost(phase) /\ UNCHANGED shown
    /\ missed' = IF phase' = "up" THEN {} ELSE missed
    /\ UNCHANGED <<store, left>>

\* Mutant: an event that could not be dealt with ends the asking.
EventGivesUp ==
    /\ Hears("event") /\ Head(toUs).ok /\ core = "running"
    /\ LET m == Head(toUs).msg IN
         IF phase # "up" \/ shown[m] > 0 THEN Heard({"event"}) /\ UNCHANGED view
         ELSE /\ \/ shown' = [shown EXCEPT ![m] = 1] /\ missed' = missed \ {m}
                    /\ Heard({"event"})
                 \/ missed' = missed \cup {m} /\ UNCHANGED shown /\ Heard({})
              /\ UNCHANGED left
    /\ UNCHANGED <<adapter, core, device, store, io, evq>>

\* _on_event(): the event is dealt with - a message not shown yet is fetched
\* and shown, unless that call fails - and the next one asked for
EventHandled ==
    /\ Hears("event") /\ Head(toUs).ok /\ core = "running"
    /\ Heard({"event"})
    /\ LET m == Head(toUs).msg IN
         IF phase # "up" \/ shown[m] > 0 THEN UNCHANGED view
         ELSE /\ \/ shown' = [shown EXCEPT ![m] = 1] /\ missed' = missed \ {m}
                 \/ missed' = missed \cup {m} /\ UNCHANGED shown
              /\ UNCHANGED left
    /\ UNCHANGED <<adapter, core, device, store, io, evq>>

\* ... or the core is gone, in a call or at the asking; or it refuses
EventLosesCore ==
    /\ Hears("event")
    /\ _lost(phase)
    /\ UNCHANGED <<store, view>>

-----------------------------------------------------------------------------
(* A second device                                                         *)

\* device_offer(): provide_backup is asked for, and its code fetched.  If
\* there is none, the core is told to stop.  A core that is lost at the first
\* of its calls is not noticed: what is asked for waits for the next one.
device_offer ==
    /\ phase = "up" /\ ~offer
    /\ pending["offer"] + pending["io"] < MaxOffers          \* bound
    /\ \/ /\ core = "running"
          /\ pending' = [pending EXCEPT !["offer"] = @ + 1] /\ io' = "off"
          /\ offer' \in BOOLEAN
          /\ UNCHANGED <<adapter, core, toUs, want, evq>>
       \/ _lost(phase)
       \/ LostThenAsk(phase, [Nothing EXCEPT !["offer"] = 1])
    /\ UNCHANGED <<store, view>>

Ends(k, ok) == toUs' = Append(toUs, Answer(k, ok, NoMsg))

\* device_cancel(): the core is told to stop, and does unless the call fails
device_cancel ==
    /\ phase = "up" /\ offer
    /\ \/ core = "running" /\ AtCore("offer") /\ Ends("offer", FALSE)
          /\ UNCHANGED <<adapter, core, pending, device, io, evq>>
       \/ _lost(phase)
    /\ UNCHANGED <<store, view>>

\* Mutant: mail starts again only after an offer that was taken.
OfferDoneIfTaken ==
    /\ Hears("offer")
    /\ offer' = FALSE
    /\ Heard(IF phase = "up" /\ Head(toUs).ok THEN {"io"} ELSE {})
    /\ UNCHANGED <<adapter, core, want, store, io, evq, view>>

\* _offer_done(): the offer is taken, cancelled or failed, and mail starts
\* again.
_offer_done ==
    /\ Hears("offer")
    /\ \/ /\ offer' = FALSE
          /\ core = "running"
          /\ Heard(IF phase = "up" THEN {"io"} ELSE {})
          /\ UNCHANGED <<adapter, core, want, io, evq>>
       \/ core = "gone" /\ _lost(phase)
    /\ UNCHANGED <<store, view>>

\* connect() for device_use(), with a core to start or without
StartsAnew(asked, state) ==
    /\ \/ Start(asked) /\ want' = TRUE
       \/ phase' = "down" /\ acct' = state /\ deadline' = FALSE
          /\ core' = "none" /\ toUs' = <<>>
          /\ \/ pending' = asked /\ want' = TRUE
             \/ pending' = Nothing /\ want' = FALSE
    /\ offer' = FALSE
    /\ io' = "off" /\ evq' = <<>> /\ missed' = {} /\ UNCHANGED shown

\* device_use(): the account of another device.  What is there is set aside
\* first, the core stopped; the conversations on the screen stay.
\* (When it cannot be set aside, this was a disconnect.)
device_use ==
    /\ loose < MaxLoose                                      \* bound
    /\ IF phase = "down" /\ account = "none"
       THEN StartsAnew(pending, acct) /\ UNCHANGED <<auto, retryTimer, loose, store, left>>
       ELSE /\ StopsRetrying /\ StartsAnew(Nothing, Disconnected)
            /\ account' = "none" /\ db' = 0
            /\ left' = {m \in Msgs : shown[m] > 0}

-----------------------------------------------------------------------------
(* Messages                                                                *)

MsgsChanged(m) == evq' = Append(evq, m)
QueueRoom == Len(evq) < MaxEvents

\* speak(): the core sends and stores the message, and the program fetches
\* and shows it - or the call fails, the message sent or not
speak ==
    /\ phase = "up" /\ db < MaxMsgs /\ QueueRoom
    /\ \/ /\ core = "running"
          /\ db' = db + 1 /\ MsgsChanged(db')
          /\ \/ shown' = [shown EXCEPT ![db'] = Once(@)]
             \/ UNCHANGED shown
          /\ UNCHANGED <<adapter, rpc, device, account, io, left, missed>>
       \/ _lost(phase) /\ db' \in {db, db + 1} /\ UNCHANGED <<account, view>>

\* Any other request of the user's during which the core goes
CallLosesCore ==
    /\ phase = "up"
    /\ _lost(phase)
    /\ UNCHANGED <<store, view>>

-----------------------------------------------------------------------------
(* The core                                                                *)

CoreExits ==
    /\ core = "running"
    /\ core' = "gone" /\ io' = "off" /\ evq' = <<>>
    /\ UNCHANGED <<adapter, pending, toUs, device, store, view>>

\* Mail after start_io was answered: while the account is offered it waits
MailAfter(ok) ==
    IF AtCore("offer") THEN io
    ELSE IF ok THEN "on" ELSE IF io = "off" THEN "refused" ELSE io

\* It answers; what it answers well has an effect
CoreAnswers(k) ==
    /\ core = "running" /\ k # "event" /\ AtCore(k)
    /\ \E ok \in BOOLEAN :
         /\ Ends(k, ok)
         /\ account' = IF ok /\ k \in {"setup", "backup"} THEN "ours" ELSE account
         /\ db' \in IF ok /\ k = "backup" THEN 0 .. MaxMsgs ELSE {db}
         /\ io' = IF k = "io" THEN MailAfter(ok) ELSE io
    /\ UNCHANGED <<adapter, core, pending, device, evq, view>>

CoreTellsEvent ==
    /\ core = "running" /\ AtCore("event") /\ evq # <<>>
    /\ toUs' = Append(toUs, Answer("event", TRUE, Head(evq)))
    /\ evq' = Tail(evq)
    /\ UNCHANGED <<adapter, core, pending, device, store, io, view>>

\* A message comes by mail: IncomingMsg, then MsgsChanged
MessageComes ==
    /\ core = "running" /\ io = "on" /\ account = "ours" /\ db < MaxMsgs /\ QueueRoom
    /\ db' = db + 1
    /\ evq' = evq \o <<db', db'>>
    /\ UNCHANGED <<adapter, rpc, device, account, io, view>>

-----------------------------------------------------------------------------
\* start_io's answer: mail is on again - or it is not, and nobody looks
IoAnswered ==
    /\ Hears("io")
    /\ Heard({})
    /\ UNCHANGED <<adapter, core, device, store, io, evq, view>>

_process ==
    \/ _started \/ SetupDone \/ EventHandled \/ EventLosesCore
    \/ _offer_done \/ IoAnswered

Next ==
    \/ connect \/ _reconnect \/ disconnect \/ TimedOut \/ EndOfCore
    \/ _process
    \/ device_offer \/ device_cancel \/ _offer_done \/ device_use
    \/ speak \/ CallLosesCore
    \/ CoreExits \/ CoreTellsEvent \/ MessageComes
    \/ \E k \in Kinds : CoreAnswers(k)

Spec == Init /\ [][Next]_vars

(* The loop reads what is there and fires what is due.  Of the core nothing *)
(* is asked.                                                               *)
FairSpec ==
    /\ Spec
    /\ WF_vars(TimedOut) /\ WF_vars(EndOfCore) /\ WF_vars(_process)

-----------------------------------------------------------------------------
(* Properties                                                              *)

\* Every variable has its type.
TypeOK ==
    /\ phase \in {"down", "starting", "setup", "up"}
    /\ acct \in {"disconnected", "connecting", "connected", "error"}
    /\ auto \in BOOLEAN /\ retryTimer \in BOOLEAN /\ loose \in Nat
    /\ deadline \in BOOLEAN
    /\ core \in {"none", "running", "gone"}
    /\ pending \in [Kinds -> 0 .. MaxOffers]
    /\ toUs \in Seq([to : Kinds, ok : BOOLEAN, msg : 0 .. MaxMsgs])
    /\ want \in BOOLEAN /\ offer \in BOOLEAN
    /\ account \in {"none", "bare", "ours"}
    /\ db \in 0 .. MaxMsgs /\ io \in {"on", "off", "refused"} /\ evq \in Seq(Msgs)
    /\ shown \in [Msgs -> 0 .. 2] /\ left \subseteq Msgs /\ missed \subseteq Msgs

\* The phase says what is outstanding.  A start or set-up under way has its
\* one request and its one deadline, and nothing else is timed (a deadline
\* that outlived its start would cut the connection it led to).  From the
\* core's first answer on exactly one get_next_event is "outstanding at all
\* times": with none the account would show as connected and be deaf.
PhaseIsTrue ==
    LET one(b) == IF b THEN 1 ELSE 0 IN
      /\ deadline <=> phase \in {"starting", "setup"}
      /\ pending["info"] = one(phase = "starting")
      /\ pending["setup"] + pending["backup"] = one(phase = "setup")
      /\ pending["event"] = one(phase \in {"setup", "up"})
      /\ phase = "down" <=> core = "none"

\* While the account is up, a message the core has is shown, or its event is
\* still to come, or dealing with that failed; and no message is shown twice
\* - by its event, its sending and the loading of its chat, across restarts.
\* After another account took the place of one whose chats were shown it is
\* not so: they stay, and the same msgids are taken for the same messages.
EveryMessageOnce ==
    phase = "up" /\ core = "running" =>
        \A m \in (1 .. db) \ left :
            \/ shown[m] = 1
            \/ shown[m] = 0 /\ \/ m \in Range(evq) \cup missed
                                  \/ \E a \in Range(toUs) : a.to = "event" /\ a.msg = m

\* Mail stops only for an offer to a second device, and is started again when
\* that ends, however it ends: while the account is up and mail is stopped,
\* the core is offering it, or has just ended that, or is to start its mail -
\* or has refused to.  That answer is not looked at (`lambda r, e: None`), and
\* the account then shows as connected and gets no mail, until it is offered
\* again or its core restarted.
MailFlows ==
    phase = "up" /\ core = "running" /\ io = "off" => pending["offer"] > 0 \/ AtCore("io")

\* A start always comes to an end, even of a core that says nothing.
StartEnds == phase \in {"starting", "setup"} ~> phase \in {"down", "up"}

\* "Disconnect stops the retrying for good" (test_chat_backend.py): an
\* account shown as disconnected is not connected again by itself.
DisconnectStops == acct = "disconnected" => ~auto

\* Requests, deadline and phase are in step with the core, whatever it answers
\* and whenever it exits.
CoreInStep == TypeOK /\ PhaseIsTrue
=============================================================================
