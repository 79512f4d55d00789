------------------------------ MODULE TalkCalls ------------------------------
(***************************************************************************)
(* The calls of one talk account, as TalkAdapter in tvchat-backend keeps   *)
(* them: a control connection to talkd, on which calls ring and are made,  *)
(* answered and given up; for each call that is answered a connection of   *)
(* its own (ATTACH), which outlives the control connection; and the        *)
(* conversations, one for each person, that show the state of "their"      *)
(* call.  What goes wrong is order: two people call each other at once, a  *)
(* hang-up crosses an answer, the control connection goes and comes back   *)
(* while a call goes on, and a talkd that was restarted counts its calls   *)
(* from one again.                                                         *)
(*                                                                         *)
(* Abstracted: what is said in a call (TalkLines has it), the lookup of    *)
(* talkd's name (as for IRC, a stale callback does nothing), and talkd,    *)
(* which may ring, connect or end any call it knows, in the protocol that  *)
(* the adapter's comment gives.                                            *)
(***************************************************************************)
EXTENDS Lists, FiniteSets, SequencesExt, TalkLines

CONSTANTS
    Peers,         \* the people
    NumbersReused, \* a restarted talkd counts its calls from one again
    NoPeer,        \* no person
    MaxCalls,      \* bound: calls in all
    MaxWire        \* bound: lines under way when a user or talkd adds one

ASSUME TalkAssumption ==
    /\ NumbersReused \in BOOLEAN
    /\ NoPeer \notin Peers
    /\ MaxCalls \in Nat /\ MaxWire \in Nat \ {0}

VARIABLES
    auto_answer, \* self.auto_answer: the central Floyd picks up
    phase,     \* self.phase
    acct,      \* account.state
    objs,      \* every TalkCall made so far, in order
    calls,     \* self.calls: the TalkCalls in it, in the dict's order
    state,     \* conv.state of each person's conversation
    open,      \* people with a conversation listed
    nextT,     \* talkd: the number of the next call that rings
    lines,     \* talkd: the calls it keeps for our control connection
    toTalkd,   \* what we said and talkd has not read
    toUs,      \* what talkd said and we have not read
    crossed,   \* ghost: people in whose conversation two calls have met
    mixed      \* ghost: numbers talkd gave again while a call had them

adapter == <<auto_answer, phase, acct>>
callVars == <<objs, calls, state, open, crossed, mixed>>
talkd == <<nextT, lines>>
talkVars == <<adapter, callVars, talkd, toTalkd, toUs>>

Shown == {"", "calling", "ringing", "incoming", "connected", "ended"}
Say(w, t, p) == [word |-> w, tid |-> t, peer |-> p]
Speak(w, t) == Say(w, t, NoPeer)

\* A TalkCall; `live` is ~done, `accepted` (ghost) that we have said ACCEPT.
TalkCall(p, t, out) ==
    [conv |-> p, tid |-> t, outgoing |-> out, data |-> FALSE, live |-> TRUE,
     accepted |-> FALSE]
Over(o) == [o EXCEPT !.live = FALSE, !.data = FALSE]

TalkInit ==
    /\ auto_answer \in BOOLEAN
    /\ phase = "down" /\ acct = "disconnected"
    /\ objs = <<>> /\ calls = <<>>
    /\ state = [p \in Peers |-> ""] /\ open = {}
    /\ nextT = 1 /\ lines = {} /\ toTalkd = <<>> /\ toUs = <<>>
    /\ crossed = {} /\ mixed = {}

-----------------------------------------------------------------------------
(* What the handlers share                                                 *)

Calls == Range(calls)
CallsOf(t) == {c \in Calls : objs[c].tid = t}
Ringing(c) == ~objs[c].outgoing /\ ~objs[c].data
Live == {c \in DOMAIN objs : objs[c].live}
LiveWith(p) == {c \in Live : objs[c].conv = p}

\* call_of(): the first call in the dict that is the conversation's, if any
FirstOf(cs, os, p) ==
    LET theirs == Keep(cs, {c \in DOMAIN os : os[c].conv = p})
    IN  IF theirs = <<>> THEN {} ELSE {Head(theirs)}
call_of(p) == FirstOf(calls, objs, p)

\* Mutant: a list, where the code has a dict.
InList(c, t) == Append(calls, c)

\* self.calls[tid] = call: a number already there keeps its place
InDict(c, t) ==
    IF CallsOf(t) = {} THEN Append(calls, c)
    ELSE [i \in DOMAIN calls |-> IF calls[i] \in CallsOf(t) THEN c ELSE calls[i]]

\* Mutant: the conversation is told only of calls that were answered.
EndedSilently(es) ==
    /\ objs' = [c \in DOMAIN objs |-> IF c \in es THEN Over(objs[c]) ELSE objs[c]]
    /\ calls' = Keep(calls, {c \in DOMAIN objs : \A e \in es : objs[c].tid # objs[e].tid})
    /\ state' = [p \in Peers |-> IF \E e \in es : objs[e].conv = p /\ objs[e].data
                                 THEN "ended" ELSE state[p]]
    /\ crossed' = {p \in crossed : LiveWith(p) \ es # {}}
    /\ UNCHANGED mixed

\* Mutant: the calls are kept by conversation.
EndedByPeer(es) ==
    /\ objs' = [c \in DOMAIN objs |-> IF c \in es THEN Over(objs[c]) ELSE objs[c]]
    /\ calls' = Keep(calls, {c \in DOMAIN objs : \A e \in es : objs[c].conv # objs[e].conv})
    /\ state' = [p \in Peers |-> IF \E e \in es : objs[e].conv = p
                                 THEN "ended" ELSE state[p]]
    /\ crossed' = {p \in crossed : LiveWith(p) \ es # {}}
    /\ UNCHANGED mixed

\* _ended() for each of `es`: its connection is closed, the dict loses what
\* it has under the call's NUMBER, and the conversation shows "ended".
_ended(es) ==
    /\ objs' = [c \in DOMAIN objs |-> IF c \in es THEN Over(objs[c]) ELSE objs[c]]
    /\ calls' = Keep(calls, {c \in DOMAIN objs : \A e \in es : objs[c].tid # objs[e].tid})
    /\ state' = [p \in Peers |-> IF \E e \in es : objs[e].conv = p
                                 THEN "ended" ELSE state[p]]
    /\ crossed' = {p \in crossed : LiveWith(p) \ es # {}}
    /\ UNCHANGED mixed

\* _close(): a last HANGUP or DECLINE is pushed out; to talkd the connection
\* is gone, and with it every call that rings on it.
_close ==
    /\ phase' = "down" /\ UNCHANGED auto_answer
    /\ lines' = {} /\ toTalkd' = <<>> /\ toUs' = <<>>
    /\ \/ UNCHANGED nextT
       \/ NumbersReused /\ nextT' = 1

-----------------------------------------------------------------------------
(* The control connection                                                  *)

connect ==
    /\ phase = "down"
    /\ phase' = "connecting" /\ acct' = "connecting"
    /\ UNCHANGED <<auto_answer, callVars, talkd, toTalkd, toUs>>

\* _connected(): HELLO goes out
_connected ==
    /\ phase = "connecting"
    /\ phase' = "hello"
    /\ UNCHANGED <<auto_answer, acct, callVars, talkd, toTalkd, toUs>>

\* talkd's OK
Greeted ==
    /\ phase = "hello"
    /\ phase' = "up" /\ acct' = "connected"
    /\ UNCHANGED <<auto_answer, callVars, talkd, toTalkd, toUs>>

\* _fail(): no such host, refused, talkd's ERR, or TALK_TIMEOUT.  It ends no
\* call: none rings before talkd's OK, and those in progress carry on.
_fail ==
    /\ phase \in {"connecting", "hello"}
    /\ _close
    /\ acct' = "error"
    /\ UNCHANGED callVars

\* Mutant: calls still ringing are forgotten with the rest.
LostKeepsRinging ==
    /\ phase \in {"hello", "up"}
    /\ _close
    /\ acct' = "disconnected"
    /\ UNCHANGED callVars

\* _lost(): calls still ringing die with the connection, those in progress
\* carry on.
_lost ==
    /\ phase \in {"hello", "up"}
    /\ _ended({c \in Calls : ~objs[c].data})
    /\ _close
    /\ acct' = "disconnected"
    /\ UNCHANGED open

\* The disconnect verb: every call is declined or hung up.
disconnect ==
    /\ _ended(Calls)
    /\ _close
    /\ acct' = IF phase = "down" THEN acct ELSE "disconnected"
    /\ UNCHANGED open

-----------------------------------------------------------------------------
(* What the user asks for                                                  *)

Fits == Len(toTalkd) < MaxWire
Rings(wire) == {i \in DOMAIN wire : wire[i].word = "RING"}
Room == Len(objs) + Cardinality(Rings(toUs)) < MaxCalls

\* say("ACCEPT") for one call
Accept(c) ==
    /\ Fits
    /\ toTalkd' = Append(toTalkd, Speak("ACCEPT", objs[c].tid))
    /\ objs' = [objs EXCEPT ![c].accepted = TRUE]
    /\ state' = [state EXCEPT ![objs[c].conv] = "incoming"]
    /\ UNCHANGED <<adapter, calls, open, crossed, mixed, talkd, toUs>>

\* `answer`: the conversation's call, if it is one that rings here
answer(p) ==
    /\ phase = "up" /\ p \in open
    /\ \E c \in call_of(p) : Ringing(c) /\ Accept(c)

\* `join`: with a call there already, one that rings is answered and nothing
\* else is done (Answering is `answer`); else they are called.
join(p) ==
    /\ phase = "up" /\ Fits /\ Room
    /\ call_of(p) = {}
    /\ LET t == <<"c", Len(objs) + 1>> IN
         /\ objs' = Append(objs, TalkCall(p, t, TRUE))
         /\ calls' = InDict(Len(objs) + 1, t)
         /\ toTalkd' = Append(toTalkd, Say("CALL", t, p))
    /\ open' = open \cup {p}
    /\ state' = [state EXCEPT ![p] = "calling"]
    /\ crossed' = IF LiveWith(p) = {} THEN crossed ELSE crossed \cup {p}
    /\ UNCHANGED <<adapter, mixed, talkd, toUs>>

\* Mutant: a call that was never answered is dropped without a word.
PartUnsaid(p) ==
    /\ p \in open
    /\ \E c \in call_of(p) :
         /\ phase = "up" => Fits
         /\ toTalkd' = IF phase = "up" /\ objs[c].data
                       THEN Append(toTalkd, Speak("HANGUP", objs[c].tid)) ELSE toTalkd
         /\ _ended({c})
    /\ UNCHANGED <<adapter, open, talkd, toUs>>

\* `part` with a call: talkd is told, if it is there to be told
part(p) ==
    /\ p \in open
    /\ \E c \in call_of(p) :
         /\ phase = "up" => Fits
         /\ toTalkd' = IF phase # "up" THEN toTalkd
                       ELSE Append(toTalkd, Speak(IF Ringing(c) THEN "DECLINE" ELSE "HANGUP",
                                                  objs[c].tid))
         /\ _ended({c})
    /\ UNCHANGED <<adapter, open, talkd, toUs>>

\* `part` without one: the conversation is removed, from under a call that
\* is no longer listed too (what it shows later, nobody sees)
Leave(p) ==
    /\ p \in open
    /\ call_of(p) = {}
    /\ open' = open \ {p}
    /\ state' = [state EXCEPT ![p] = ""]
    /\ objs' = [c \in DOMAIN objs |->
                  IF objs[c].conv = p THEN [objs[c] EXCEPT !.conv = NoPeer] ELSE objs[c]]
    /\ crossed' = crossed \ {p}
    /\ UNCHANGED <<adapter, calls, mixed, talkd, toTalkd, toUs>>

-----------------------------------------------------------------------------
(* What talkd says: _line()                                                *)

Hears(w) == phase = "up" /\ toUs # <<>> /\ Head(toUs).word = w /\ toUs' = Tail(toUs)

\* RING: _incoming(); the central Floyd answers at once - the first call of
\* the conversation, or none when that one is not ringing.
_incoming ==
    /\ Hears("RING")
    /\ LET p == Head(toUs).peer
           t == Head(toUs).tid
           os == Append(objs, TalkCall(p, t, FALSE))
           cs == InDict(Len(os), t)
           up == {c \in FirstOf(cs, os, p) : auto_answer /\ ~os[c].outgoing /\ ~os[c].data}
       IN  /\ objs' = [c \in DOMAIN os |->
                         IF c \in up THEN [os[c] EXCEPT !.accepted = TRUE] ELSE os[c]]
           /\ calls' = cs
           /\ \/ up = {} /\ UNCHANGED toTalkd
              \/ \E c \in up : toTalkd' = Append(toTalkd, Speak("ACCEPT", os[c].tid))
           /\ open' = open \cup {p}
           /\ state' = [state EXCEPT ![p] = "incoming"]
           /\ crossed' = IF LiveWith(p) = {} THEN crossed ELSE crossed \cup {p}
    /\ UNCHANGED <<adapter, mixed, talkd>>

\* STATE: how far a call of ours has got
State ==
    /\ Hears("STATE")
    /\ \E st \in {"calling", "ringing"} :
         state' = [p \in Peers |-> IF \E c \in CallsOf(Head(toUs).tid) : objs[c].conv = p
                                   THEN st ELSE state[p]]
    /\ UNCHANGED <<adapter, objs, calls, open, crossed, mixed, talkd, toTalkd>>

\* CONNECT: _attach() opens the call's own connection, or cannot
Attached(cs) ==
    /\ objs' = [c \in DOMAIN objs |->
                  IF c \in cs THEN [objs[c] EXCEPT !.data = TRUE] ELSE objs[c]]
    /\ state' = [p \in Peers |-> IF \E c \in cs : objs[c].conv = p
                                 THEN "connected" ELSE state[p]]
    /\ UNCHANGED <<calls, crossed, mixed>>
_attach ==
    /\ Hears("CONNECT")
    /\ LET cs == CallsOf(Head(toUs).tid) IN Attached(cs) \/ _ended(cs)
    /\ UNCHANGED <<adapter, open, talkd, toTalkd>>

\* Mutant: only calls of ours can be gone.
GoneOfOurs ==
    /\ Hears("GONE")
    /\ _ended({c \in CallsOf(Head(toUs).tid) : objs[c].outgoing \/ objs[c].data})
    /\ UNCHANGED <<adapter, open, talkd, toTalkd>>

\* GONE: the call is over, or was never answered
Gone ==
    /\ Hears("GONE")
    /\ _ended(CallsOf(Head(toUs).tid))
    /\ UNCHANGED <<adapter, open, talkd, toTalkd>>

\* A call's own connection ends: _data_read() or _data_write()
SessionEnds(c) ==
    /\ c \in Live /\ objs[c].data
    /\ _ended({c})
    /\ UNCHANGED <<adapter, open, talkd, toTalkd, toUs>>

-----------------------------------------------------------------------------
(* talkd, as the protocol has it                                           *)

TalkdSays(s) == toUs' = Append(toUs, s)
TalkdMay == Len(toUs) < MaxWire        \* bound
Line(t, p, st) == [tid |-> t, peer |-> p, st |-> st]
Answered(ln) == IF ln.st = "offered" THEN [ln EXCEPT !.st = "answered"] ELSE ln

\* What is on its way to talkd or from it about a call
OnWire(wire, ws, t) == \E i \in DOMAIN wire : wire[i].word \in ws /\ wire[i].tid = t

\* Somebody calls
TalkdRings(p) ==
    /\ phase = "up" /\ TalkdMay /\ Room /\ nextT <= MaxCalls
    /\ LET t == <<"t", nextT>> IN
         /\ TalkdSays(Say("RING", t, p))
         /\ lines' = lines \cup {Line(t, p, "offered")}
         /\ mixed' = IF (\E c \in Live : objs[c].tid = t) \/ OnWire(toTalkd, {"HANGUP"}, t)
                     THEN mixed \cup {t} ELSE mixed
    /\ nextT' = nextT + 1
    /\ UNCHANGED <<adapter, objs, calls, state, open, crossed, toTalkd>>

TalkdReads ==
    /\ toTalkd # <<>>
    /\ toTalkd' = Tail(toTalkd)
    /\ LET said == Head(toTalkd)
           its == {ln \in lines : ln.tid = said.tid}
       IN  lines' = CASE said.word = "CALL" -> lines \cup {Line(said.tid, said.peer, "calling")}
                      [] said.word = "ACCEPT" ->
                           (lines \ its) \cup {Answered(ln) : ln \in its}
                      [] OTHER -> lines \ its
    /\ UNCHANGED <<adapter, callVars, nextT, toUs>>

\* Progress of a call of ours
TalkdTells(ln) ==
    /\ ln.st = "calling" /\ TalkdMay
    /\ TalkdSays(Speak("STATE", ln.tid))
    /\ UNCHANGED <<adapter, callVars, talkd, toTalkd>>

\* A call that was answered, here or there, is connected
TalkdConnects(ln) ==
    /\ ln.st \in {"calling", "answered"}
    /\ TalkdSays(Speak("CONNECT", ln.tid))
    /\ lines' = (lines \ {ln}) \cup {[ln EXCEPT !.st = "linked"]}
    /\ UNCHANGED <<adapter, callVars, nextT, toTalkd>>

\* The other side gives up, hangs up, or cannot be reached
TalkdEnds(ln) ==
    /\ TalkdSays(Speak("GONE", ln.tid))
    /\ lines' = lines \ {ln}
    /\ UNCHANGED <<adapter, callVars, nextT, toTalkd>>

TalkdSettles == \E ln \in lines : ln.st = "answered" /\ (TalkdConnects(ln) \/ TalkdEnds(ln))

-----------------------------------------------------------------------------
_line == _incoming \/ State \/ _attach \/ Gone

TalkNext ==
    \/ connect \/ _connected \/ Greeted \/ _fail \/ _lost \/ disconnect
    \/ \E p \in Peers : answer(p) \/ join(p) \/ part(p) \/ Leave(p) \/ TalkdRings(p)
    \/ _incoming \/ State \/ _attach \/ Gone
    \/ \E c \in 1 .. MaxCalls : SessionEnds(c)
    \/ TalkdReads
    \/ \E ln \in lines : TalkdTells(ln) \/ TalkdConnects(ln) \/ TalkdEnds(ln)

TalkSpec == TalkInit /\ [][TalkNext]_talkVars

(* The loop reads what talkd says, talkd what we say, and talkd does not    *)
(* leave a call that was answered hanging: it connects it or says it is     *)
(* gone.                                                                    *)
FairTalk == TalkSpec /\ WF_talkVars(_line) /\ WF_talkVars(TalkdReads) /\ WF_talkVars(TalkdSettles)

-----------------------------------------------------------------------------
(* Properties                                                              *)

Tids == {"c", "t"} \X (1 .. MaxCalls)
Words == {"CALL", "ACCEPT", "DECLINE", "HANGUP", "RING", "STATE", "CONNECT", "GONE"}
Wire == Seq([word : Words, tid : Tids, peer : Peers \cup {NoPeer}])

\* Every variable has its type; only calls not ended are in the dict, each
\* number once.
TalkTypeOK ==
    /\ auto_answer \in BOOLEAN
    /\ phase \in {"down", "connecting", "hello", "up"}
    /\ acct \in {"disconnected", "connecting", "connected", "error"}
    /\ objs \in Seq([conv : Peers \cup {NoPeer}, tid : Tids, outgoing : BOOLEAN,
                     data : BOOLEAN, live : BOOLEAN, accepted : BOOLEAN])
    /\ Len(objs) <= MaxCalls
    /\ calls \in Seq(Live) /\ \A i, j \in DOMAIN calls :
         objs[calls[i]].tid = objs[calls[j]].tid => i = j
    /\ state \in [Peers -> Shown] /\ open \subseteq Peers
    /\ nextT \in Nat \ {0}
    /\ lines \subseteq [tid : Tids, peer : Peers,
                        st : {"offered", "calling", "answered", "linked"}]
    /\ toTalkd \in Wire /\ toUs \in Wire
    /\ crossed \subseteq Peers /\ mixed \subseteq Tids

\* The call state a conversation shows - by which the window lets the user
\* type, offers to answer, or calls - is its call's, for everybody with whom
\* no two calls have met and none was lost from the list.
ShownIsTrue ==
    \A p \in Peers \ crossed : LiveWith(p) \subseteq Calls =>
        CASE call_of(p) = {} -> state[p] \in {"", "ended"}
          [] OTHER -> \A c \in call_of(p) :
               state[p] \in IF objs[c].data THEN {"connected"}
                            ELSE IF objs[c].outgoing THEN {"calling", "ringing"}
                            ELSE {"incoming"}

\* A call that has not ended is listed, so that it can be spoken in, hung up
\* or answered, however often the control connection went meanwhile - unless
\* talkd gave its number to another.
CallsAreListed == \A c \in Live : c \in Calls \/ objs[c].tid \in mixed

Known(t) == \E ln \in lines : ln.tid = t

\* A call shown as calling or ringing is one that talkd has, will hear of,
\* or has ended and said so: nobody is left looking at a call that is not
\* (with the same exception).
RingIsReal ==
    \A c \in Calls : ~objs[c].data /\ objs[c].tid \notin mixed =>
        /\ phase = "up"
        /\ LET t == objs[c].tid IN
             Known(t) \/ OnWire(toTalkd, {"CALL"}, t) \/ OnWire(toUs, {"CONNECT", "GONE"}, t)

\* A call that waits in talkd is one the user can see, or is about to see,
\* or has refused: nobody out there waits for ever - unless talkd gave its
\* number to two.
NobodyWaitsUnseen ==
    \A ln \in lines : ln.st # "linked" =>
        \/ \E c \in CallsOf(ln.tid) : ~objs[c].data
        \/ OnWire(toUs, {"RING"}, ln.tid)
        \/ OnWire(toTalkd, {"DECLINE", "HANGUP"}, ln.tid)
        \/ ln.tid \in mixed

\* A call that was answered is connected in the end, or ends (or talkd gives
\* its number to two).
AnsweredSettles ==
    \A c \in 1 .. MaxCalls :
        (c \in Calls /\ objs[c].accepted /\ ~objs[c].data)
          ~> (c \notin Calls \/ objs[c].data \/ objs[c].tid \in mixed)

\* In a call in progress nothing that one end sends is lost, doubled or put in
\* another order in the other's log, and the line both show as unfinished is
\* the same, whatever was erased, cut or ended.  The logs are alike but for two
\* things that speak() does: a whole line longer than LineMax is one line in
\* the log here and pieces of LineMax characters in the log there (AsRead), and
\* what is said on top of an unfinished line is joined to it there (Tidy).
LogsAgree == (\E c \in Live : objs[c].data) => SameLinesAlways

\* The four records of a call - the conversation's state, the adapter's dict,
\* talkd's lines and the wire between - agree.
CallsAgree ==
    TalkTypeOK /\ ShownIsTrue /\ CallsAreListed /\ RingIsReal /\ NobodyWaitsUnseen
=============================================================================
