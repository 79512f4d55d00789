# TUIs: specification and verification

TUIs is a family of terminal programs: `tvmail`, `tvchat` and `tvcal`, C++
interfaces each of which keeps a Python backend as a helper process, and
`tvcommon`, what they share. These TLA+ modules model the parts in which
things can happen in an order nobody planned, TLC checks them on small
instances, and TLAPS proves the most important facts for every instance.

Run, in this directory: `tlc -config X.cfg M` for a row of the table under
*What the runs show*, `tlapm M.tla` for a module whose name ends in `Proofs`.
`PROJECT.json` maps every definition to its lines of source.

## 1. Inventory

### How the parts talk

    tvchat (C++)  --CoProcess: request line / framed reply-->  tvchat-backend
      ChatClient model  <--- events, polled once a second ---   Chat, EventQueue
                                                                 | one selectors loop
                  IRC server <-- IrcAdapter <--------------------+-- FloydAdapter
                  talkd      <-- TalkAdapter                     +-- MailAdapter
                  Delta Chat core <-- DeltaChatAdapter (dcgw)    +-- LhcAdapter
    tvmail (C++)  --CoProcess-->  tvmail-backend    (mailbox files, spool)
    tvcal  (C++)  --CoProcess-->  tvcal-backend     (calendar files, alarms)
    tvmail, tvchat, tvcal  <-- request files in a directory, notes in a spool --> each other

The terminal programs are single-threaded, but little of what they show is
their own: a list is a copy of a mailbox, of the backend's lists or of calendar
files, taken a while ago and named by position; a dialog is a loop of its own in
which time goes on; events are told one by one after all of them have been
applied; and a call to the backend is a moment in which everybody else has
moved. A backend serves one request at a
time; tvchat-backend alone also lives between requests, on one loop that runs
socket handlers and timers, so that a handler is one step and what interleaves
is the order of handlers. Threads only look up names and post the result to
the loop.

### Components

| Component (source) | State | Operations | Hard behaviour | What makes it correct |
|---|---|---|---|---|
| IRC connection (`IrcAdapter` connect .. `_on_write`) | phase, gen, retry timer, `auto`, `attempt`, address list, `outq` | connect, disconnect, send, lookup, socket and timer callbacks | stale callbacks, losses at any point, backoff, lines caught in the queue | the state shown is true; no callback of an old connection acts; lines are said to be lost or are sent once |
| IRC keepalive (`_keepalive`, `_on_read`, `Loop.run_once`) | `t_in`, `ping_out`, timer | bytes in, timer | timers are late, an answer may lie unread | a dead server is noticed in bounded time, a living one is never dropped |
| IRC flood control (`send_raw`, `_pump`) | tokens, `t_tok`, timer | send, timer | fractional refill, late timers | never more than burst and rate; no queue stands still |
| IRC channels (`on_JOIN`, `part`, `on_KICK`, `on_INVITE` ...) | conversations, autojoin, `vetting` | join, part, invite, kick | lines cross on the wire, then the connection goes | shown = joined once settled; a kicked bot stays out |
| IRC history (`fetch_history`, `on_BATCH`, `on_FAIL`) | `fetching`, `history_done`, ring | join, history, /clear | answers carry no label; leave and rejoin | "asking" means asked; "nothing older" means so |
| IRC registration (`on_CAP` ...) | offered, caps, `cap_done` | CAP, SASL numerics | split lists, several ways to end, on every connection anew | one CAP END, after the login; nobody waits for the other |
| Event queue and client model (`EventQueue`, `Chat`, `ChatClient`) | events with numbers; the client's copy of accounts and conversations | push, drain, sync, poll, apply, reload | changes between the four requests of a snapshot, backend replaced, queue full | copy + queued events = truth |
| Co-process (`coprocess.cpp`, `cmd_serve`) | pid, pipes, restart budget | call, restart, stop, giveUp | child dies, hangs, answers late | bounded executions, no orphan, replies match requests |
| Event loop (`Loop`) | timers, watched sockets, posted callbacks | run_once | lateness, cancelled timers | (in the modules above) |
| Talk (`TalkAdapter`, `TalkCall`) | calls by id, sockets | call, answer, hang up | calls crossing, second connection | one conversation, one call |
| Delta Chat (`DeltaChatAdapter`) | phase, RPCs pending, retry and deadline timers, offer, chats; the core's account and messages | connect, disconnect, events, send, offer to and take from another device, invitations | answers out of order, the core exits anywhere, also inside a call | one event asked for at all times; every message shown once; mail flows again; disconnect is for good |
| Delta Chat gateway (`dcgw`) | sessions, cores of its users | park, push, sweep | clients come and go while cores die | one core for a user, each answer to its asker |
| Floyd (`FloydAdapter`, `tvfloyd.py`, daemon) | where he listens, levels, what he answered | hear, attach, level, reload | several adapters hear the same line | answers once, never himself |
| Mail, Live Helper Chat adapters | spool position, chat claims | poll, answer | crash between answer and mark | answered once |
| Chat: shares, requests, reload | shares, request files | share, request, reload_config | crash between acting and unlinking | carried out once |
| tvmail backend | mailbox files, locks, drafts | verbs of `cmd_serve` | two programs on one mailbox | nothing lost |
| tvcal backend | calendar files, pending.json, fired.json | verbs, requests, due | recurrence arithmetic, two writers, a crash between two files | every reminder once, no request lost |
| Notices and spool (`notify.cpp`, `spool.cpp`) | inbox directories, texts sent lately | spoolSend, spoolTick | several writers and readers without a lock, crash between two steps | nothing vanishes, nothing is repeated |
| tvchat's window (`chatwin.cpp`, `app.cpp`) | account and conversation shown, log, drafts, lists, dialogs | keys, menu, dialogs, events | events arrive late and in bunches, dialogs hold positions, lists reorder | the log is the conversation; text and requests go where the screen says |
| tvmail's windows (`mailwin.cpp`, `app.cpp`, `compose.cpp`) | list, view, highlight, counts, pull; compose windows and their drafts | commands on a message, sort, filter, pull; send, save, discard, quit | the mailbox changes under a list addressed by position; a quit is called off | the message named is the one acted on; nothing written is lost |
| tvcal's window (`calwin.cpp`, `cal.cpp`) | day, month, agenda, to-dos, requests waiting | moves, dialogs, poll | midnight, other programs, calls that fail, two windows of days | panes of one day; asked and reminded once |
| Widgets, shell, configuration dialogs, scripts | - | - | sequential | - |

The hazards in `PROJECT.json`, each at its line, are what the properties were
chosen for.

## 2. The modules

What can lose or repeat what the user typed comes first; then what can act on
the wrong thing.

| Module | Models | Proofs |
|---|---|---|
| `IrcConnection` | one IRC connection's life | `IrcConnectionProofs` |
| `CoProcess` | the client of a helper and the helper's serve loop | `TvcommonProofs` |
| `ChatSync` | the backend's event queue and lists, the windows' copy | `TvchatProofs` |
| `IrcKeepalive` | the PING timer on the timed loop | `IrcPartsProofs` |
| `IrcFlood` | the token bucket on the timed loop | `IrcPartsProofs` |
| `IrcChannels` | channel lists on both sides of the wire | `IrcPartsProofs` |
| `IrcHistory` | CHATHISTORY requests and the memory of them | `IrcPartsProofs` |
| `IrcRegistration` | CAP, SASL, nick, welcome, over connections that come and go | `IrcPartsProofs` |
| `TalkCalls` | the calls of a talk account, on two kinds of connection | `TvchatProofs` |
| `DeltaCore` | a Delta Chat account and its core process | `ChatEndsProofs` |
| `TalkLines` | the lines both ends of a call make of the keys, and of texts said whole (no behaviour) | `TvchatProofs` |
| `NotePost` | what the spool of notes promises, abstractly | |
| `Notices` | the spool: senders, readers, sweeps, crashes; implements `NotePost` | `TvcommonProofs` |
| `ChatWindow` | tvchat's window, its dialogs and its timer, over the backend's lists and events | `ChatEndsProofs` |
| `MailWindow` | tvmail's list, commands, questions, counts and pull | `MailProofs` |
| `MailCompose` | its compose windows and Drafts | `MailProofs` |
| `CalWindow` | tvcal's panes, dialogs, requests and reminders | `CalProofs` |
| `CalDates` | its arithmetic on dates, and a walk along the calendar | `CalProofs` |
| `Lists` | `Keep`, a list comprehension: what is kept of a list, in order | `ListProofs` |

`MC*` modules only instantiate these for TLC. Three of them put several modules
side by side that share no state: a behaviour of `MCIrcParts` is one of the
keepalive, of flood control, of the channels, of the history or of
registration, one of `MCMail` is of the main window or of the compose windows,
and one of `MCCalWindow` of the window or of the walk along the dates. A
definition defined just before the one it resembles and marked *mutant* is a
plausible bug in that definition; it is not part of any specification and is
there so that each property can be seen to fail.

**IrcConnection.** Variables are the adapter's fields of the same name, plus
the sets of live TIMEOUT timers and of lookups under way by generation, which
in the code live in the loop's heap and in threads. Each handler of the code
(connect, `_resolved`, `_try_next`, `_connected`, `_handshake`, `on_welcome`,
`_fail`, `_lost`, `_reconnect`, disconnect, `_pump`, `_on_write`) is an action
with all it calls. Time is abstract: a live timer may fire at any moment.
Generations are counted modulo `GenCount`, which is *more* than the code needs
(its numbers never wrap) and still never confuses two connections, since the
invariant leaves one number in use at a time. Registration is one
step here and has a module of its own.

**IrcKeepalive, IrcFlood.** Here time counts in ticks, because the properties
are about durations. A round of the loop is select, the ready sockets'
handlers (up to `Busy` ticks, other connections' included), the due timers.
Tokens are kept as credit in integers, one token being `RATE` ticks.

**IrcChannels.** `convs`, `channels` and `vetting` are the program's;
`inChan` the server's; `outbound` and `inbound` are the lines between, in
order, `online` is that the connection is registered, and `rejoin` what
`on_welcome` does.
`part` and `join` change the lists when they send and the echo changes them
again. `ServerAdmits`, `ServerIgnoresJoin`, `ServerParts`,
`ServerAnswersWhois` and `ServerTells` are the server, from what the handlers
expect of it. One administrator invites; a stranger's invitation changes
nothing. The ghost `away` remembers who was kicked or left; it marks a kick
when the handler recognises it (the conversation is listed) and no JOIN of our
own is still on the way - a JOIN typed before the kick arrives may well bring
a bot back, and that is the server's business.

**IrcHistory.** A channel's past is a few pages and `oldest` says how far back
the ring reaches; `fetching` and `done` are the code's. The server answers
lines in order, so a request and its answer are one entry of `wire`. As four
other parts of the adapter stand beside it in `MCIrcParts`, its handlers have
names of their own (`joinAll` is `on_welcome`, `closeHist` is `_close`,
`Spoken` is `on_PRIVMSG`). The ghost
`spoilt` says why a conversation's memory may be off (left, cleared, refused,
swept up in another's refusal).

**IrcRegistration.** `offered`, `lsAcc`, `caps` and `capDone` are the
adapter's, the two streams are lines in order, and `server` is a server that
knows capability negotiation or ignores it, may list in one line or two, grant
or refuse, refuse a login in one numeric or two, refuse a nick, and withdraw a
capability at any moment. A request fits one line, as WANT_CAPS does, and is
answered by one. A connection may be lost at any point; the next one starts
over. Once up the user may ask for the capabilities again with `/quote`.

**TalkCalls, TalkLines.** `calls` is the adapter's dict in its order, as
`call_of` takes the first; `objs` are the TalkCall objects, which may outlive
their place in it; `_ended` takes out what the dict has under the call's
number, as the code does. A call's own connection is its `data`. talkd is
modelled from the protocol comment (2315-2322): it rings, connects and ends
calls as it likes, and what both say is in order. Two things can go wrong and
are set apart by ghosts rather than assumed away: `crossed`, a conversation in
which two calls have met (each calls the other at once; the state shown is then
the later one's), and `mixed`, a number that a restarted talkd gave again
while a call in progress still had it. `TalkLines` is a recursive
function of a script, checked in the same run; the property is about
states with a call in progress, though no state is part of it. A step of the
script is a key, or a text that `speak()` sends and logs as it is, however
long: the reader cuts it where a line is full, so that one line here is several
at the other end. `LogsAgree` says which: the reader's log is the writer's with
each line cut (`AsRead`), and a line that was typed is never longer than that.

**ChatSync.** `truth`, `seq`, `items` are the backend's; `model`, `lastSeq`,
`gen`, `isStarted` are `ChatClient`'s. `sync()` is four requests, each an
action of its own, between which the backend changes, dies and is replaced.
One account stands for all; topics, titles and history are left out.
There are two ways in which the copy can silently go wrong, and the history
variables `gap` (an unseen event was dropped from the full queue) and `torn` (a
snapshot is two children's) say whether either has happened.
`NothingFallsBetween` and `WindowsCatchUp` except them.

**CoProcess.** The client is in one of start's banner, a write, a read, or
stop's waitpid; the child is booting, idle, at a request, hanging or gone.
A request is its number, a reply the number it answers. `stranded` remembers
that a call failed on both attempts and left its child running: from then on
replies may be one call late, and `OurReply` promises nothing.

**DeltaCore.** `pending` counts the callbacks that wait, for each kind of
request; what the core says and we have not dealt with is `toUs`. The calls a
handler makes and waits for are part of its step, and each may be refused, run
out of patience or find the core gone, so that `_go`, `_started`, `speak` and
the event handler end in every one of those ways; `_lost` and `_fail` are the
code's, `_close` included. The retry timer that `self.retry_timer` names and
the ones nobody can cancel any more (`loose`: connecting by hand leaves the
timer, and the next loss sets another) are kept apart. The database is the
numbers `1 .. db`; `shown` counts how often the conversation has each. Ghosts:
`left`, what is on the screen from a database that `device_use` has replaced,
whose numbers the new one gives again; `missed`, a message whose `get_message`
failed (it is shown after the next restart). The core is modelled from how the
adapter uses it: it answers in any order, but nothing before the asking, and may
refuse anything. `io` is its mail: on, off, or off since it refused to start it
(`refused`), an answer the adapter does not look at (3707). A handler that loses
the core in the middle may go on and ask once more: what is asked of a core
that is not there waits for the next one (`CloseThenAsk`).

**Notices, NotePost.** `inbox` is the directories; `sending` and `reading` say
where a process is in `spoolSend` and `spoolTick`, whose file operations are
one action each, so that any number of them interleave: one sender counts
while another writes, a note is removed between a reader's listing and its
reading, two processes of one program read the same one. A crash forgets what
a process had in hand and what it had sent lately. `NotePost` knows only the
fate of a note - waiting, taken, shown, expired, lost - and when each may
become the next; `Notices` maps its files and readers to that by `Fate`, and
every step of it is a step of `NotePost` or none.

**ChatWindow.** The backend is a ring of messages, unread counts and
invitations; a poll takes the queue, applies it to `model` at once and leaves
`batch`, told one event after another, during which the backend is ahead of
both. Each function of the window (`setIds`, `showConv`, `loadHistory`,
`refreshLists`, `markRead`) is an operator from the window as it is to
the window as it will be, composed as the code calls them. `goTo` may come with
the window in the background, and reads what it shows on the way as well as at
its end, so it is three steps: `ToFront`, `ToAccount` or `GoesToAccount`, and
`GoesToConv`. `todo` is what a
function still does after the poll in its middle (the code's stack). A dialog
keeps `idx`, the place in the list, or the conversation itself, as the code
does; `Target` is what the request that follows names. A text is a number with
a fate. How the client learns of a new backend is `ChatSync`'s. `Classic` is the
conversations shown in talk's classic pane. It is one of the chat panes
(`inChatPane`, 742), but the handler of `cmPaneFocused` (1436-1441) marks read
only for the input line and the log. Three variables
only remember, for the properties. `slipped`: the classic pane took the focus
with something unread in it, and nothing was marked read since. `dropped`: the invitations whose event
`sync()` drained unread (chat.cpp:84; what the queue held is in the lists read
next, but an invitation is in none of them), so that they are asked about with
the next one or from the menu only. `reborn`: the conversations that were left
with messages still to be told. Opened again before those are told, one may
show a message of its former life, of which the backend's ring has nothing.

**MailWindow, MailCompose.** A mailbox is a sequence, and the program tells the
backend a position in it. `gAll` is the copy, `gRows` the filtered and sorted
view, `focused` a row of that. Other programs and the pull add, read and
remove; `shifted` remembers that one was removed since the list was read: then
a position may be another message's, in the code too. A compose window's
text is a number; `dropSourceDraft` is the two or three requests it makes, and
between them others change Drafts (`raced`).

**CalWindow, CalDates.** `win` holds what the three panes show and the window
of days the agenda was fetched for; the functions are operators as above.
`files`, `pend` and `fired` are the request files, pending.json and fired.json.
`inbox` is the list `incoming()` goes through, one dialog each, while another
tvcal or a failed call changes what is pending. An `add-event` is carried out
once or, its reply lost and the call written again (coprocess.cpp:27-30),
twice, each time with an identifier of its own (`AddsEvents`); the second reply
may be lost too, and then the request is kept although its event was made
(`IncomingUnheard`). `unheard` counts, of each request, the events whose reply
was lost. The dates are the code's
formulas with C++'s division (`Trunc`), compared with a walk that knows only
how long months are. Months are moved by down to year 0: before it
`ymdAddMonths` divides a negative number of months and asks for the length of
a month there is none of.

## 3. What the runs show

| Run (cfg) | Checked | Result |
|---|---|---|
| `MCIrcConnection` | `StateTellsTruth`, `NothingStale`, `LinesHonest`, `QueueIsServed`; `QueueAndBackoffKept`; `EndsConnected` | hold |
| `MCCoProcess` | `BudgetHolds`, `NoOrphan`; `OurReply`; `CallEndsUnlessWedged` | hold |
| `MCChatSync` | `NothingIsMissed`; `WindowsCatchUp` | hold |
| `MCChatSync` with `MCChatSyncRestart.cfg` | `RestartNoticed` | violated: the generation is read last |
| `MCIrcParts` | keepalive: `SilenceIsNoticed`, `OnlyTheDeadAreDropped`; flood control: `NeverFloods`, `HeadMovesOn`; channels: `ChannelsAgree`; history: `HistoryIsHonest`; registration: `RegistrationEnds` | hold |
| `MCTalkCalls` | `CallsAgree`, `LogsAgree`; `AnsweredSettles` | hold |
| `MCDeltaCore` | `CoreInStep`, `EveryMessageOnce`, `MailFlows`; `StartEnds` | hold |
| `MCDeltaCore` with `MCDeltaCoreStop.cfg` | `DisconnectStops` | violated: the last write of disconnect() finds the core gone and starts the retrying again |
| `MCNotices` | `NotesStayFew`; `NothingVanishes` (the refinement); `NotesAreTaken` | hold |
| `MCChatWindow` | `LogIsRun`, `TextStays`, `PanesAndDialogsAgree`, `NothingWaitsUnseen` | hold |
| `MCMail` | `MessageInHand`, `UnsentIsKept`; `ListStepsAreTrue`, `DraftsAreOwn` | hold |
| `MCCalWindow` | `PanesAndDialogsAreTrue`, `AskedAndRemindedOnce`, `DatesAreRight` | hold |

A property is often the conjunction of a few named parts, defined before it
with a comment each: `BudgetHolds` is the types, `AtMostTwice` and
`BudgetIsForARow`; `NothingIsMissed` the types and `NothingFallsBetween`;
`ChannelsAgree` `EveryChannelListed`, `PartTakes` and `KickedStaysOut`;
`HistoryIsHonest` `AskingUnlessLeft` and `DoneUnlessSpoilt`; `CallsAgree` the
types, `ShownIsTrue`, `CallsAreListed`, `RingIsReal` and `NobodyWaitsUnseen`;
`CoreInStep` the types and `PhaseIsTrue`; `NotesStayFew` `NeverSentOn`,
`OncePerWindow` and `InboxIsBounded`.

Where the types of a module are proved for every instance they are not checked
again. A violated property is what a comment or a test of the source says of
the program (quoted under "findings" in `PROJECT.json`); where a weaker
property holds, it is checked beside it, and says exactly what is left of the
claim: `NothingFallsBetween` for `RestartNoticed`.

One more disagreement is known and has no run. coprocess.cpp:218-219 says that
a bounded wait keeps a wedged backend from freezing the UI. `readFrame` does
give up after eight seconds, but then `call` runs `restart` and that `stop`,
whose `waitpid` waits for the child without end, and nothing signals it.
`CallEndsUnlessWedged` is what is left: a call ends if the child does not hang
for ever.

Some smaller things the models contain, and no property claims otherwise: an
attempt the user asks for may be retried by itself when an earlier reconnect
was refused for want of a password (`auto` stays set); a channel that was left
is joined again if a late line reopened its conversation and the connection
went before the PART was echoed, and, where it is a person's and not a bot's, a
kick that crosses the leaving keeps that reopened conversation open; an
invitation to a channel whose conversation is open - after a refused JOIN, or a
kick - is announced and not taken; one channel's refused history request marks
the others' as used up (`spoilt`); history asked for when a channel is left is
not asked for again after joining it anew, until the connection goes; two
people who call each other at once may see "ended" or "incoming" over a call
that is on (`crossed`); a whole line said on top of an unfinished one is one
line at the other end and two here; a refused `start_io` is not looked at, and
the account is then shown as connected and gets no mail until it is offered
again or its core restarted (`refused`); a Delta Chat account that was replaced by
another device's leaves the old messages on the screen, and new ones with their
numbers are not shown (`left`). Three more are excepted in properties and
contradict a comment each: events dropped from the backend's queue are not
noticed, although "the UI re-requests accounts/convs when it sees a gap"
(`gap`; tvchat-backend:142); after a call of the co-process that failed twice
the next call reads the late reply (`stranded`; coprocess.h:5 promises a
request line, then its reply); and Tab or Enter into talk's classic pane marks
nothing read, although a conversation is "read once you actually look", which
is that "the chat pane has the focus and the window is in front" (`slipped`;
chatwin.cpp:937-938).

And in the windows, each excepted by a history variable in the property
concerned: a command on a message after another program, or the pull while a
question was up, has removed one before it may act on the message that has
taken its place (`shifted`); mail that is read or filed while other mail comes
cancels out in what is announced, and a listing that fails reads as an empty
inbox, after which old mail is announced as new (`lowered`, `excused`); a draft
may be removed for another's when Drafts changes between the comparison and
the removal (`raced`); text typed while no conversation is shown is thrown away
by the first one that comes; a day picked in the agenda more than ninety days
on loses the highlight at the next reading, and the agenda may be empty then
(`scrolled`; `buildAgenda` draws ninety of the hundred and twenty days fetched); a request whose event was
added and whose `pending-drop` failed is offered again, an Add whose reply is
lost is carried out again and makes a second event, or is offered again though
its event is there (`unheard`: one event more for each such reply, no more), one that two tvcals
look at may be added twice, and request files are removed before pending.json
is written, so that a backend that dies between loses them (`excused`); `due`
marks a reminder as given before its reply is on the way (`missed`).

### Bounds

The bounds are TLC's: what section 4 lists is proved for every value of them, so
that they matter only to what is not listed there.

- *IrcConnection*: two addresses (a failed one, then another), two lines (an
  order to keep), three generations (the current, the one before, and one
  between), attempts counted up to the cap.
- *IrcKeepalive, IrcFlood* (in `MCIrcParts`): ticks, with the waits a few ticks
  long but in the code's order of size, and time for
  several periods.
- *CoProcess*: four calls with the code's budget of three restarts: enough to
  spend the budget in a row, and to have a good reply between.
- *ChatSync*: two conversations, a queue of three and four events, so that the
  queue overflows; two children, so that one is replaced at every point
  of a snapshot.
- *IrcChannels*: two channels, one configured; two lines under way in each
  direction, so that every pair of lines can cross.
- *IrcRegistration*: the login and one other capability, one nick refused; the
  protocol bounds the lines under way by itself.
- *IrcHistory*: two channels, as refusals cross from one to another; two pages,
  a middle and an end; two lines under way.

- *TalkCalls*: two people, two calls in all, talkd's numbers one and two: two
  calls meet in one conversation, or in one number, or pass each other. RING,
  STATE and what the user says wait while a line is under way; CONNECT, GONE
  and an automatic ACCEPT do not, so that no bound holds a call up.
- *DeltaCore*: two messages, one sent while another comes; one retry timer
  beside the named one; one event waiting when another is added (a message
  brings two); two offers, one not quite over when the next is made. Any answer may be a
  refusal.
- *TalkLines*: scripts of up to five steps, each one of nine keys or one of four
  texts said, lines cut at three: each edit character after a space, after a
  letter, and at the cut; a text shorter than a line, one as long as a line can
  be, one that is a character longer, and one that is cut more than once.
- *Notices*: two tvchats that share an inbox and both write into tvmail's, and a
  tvmail; two notes, one text, one crash; an inbox of one, so that both senders
  overshoot it, and one note shown at a time. Texts are too few for the clearing
  of the texts sent lately.
- *ChatWindow*: two accounts, three conversations, pages of two messages, two
  invitations. What comes is bounded by budgets, and a run has one of six:
  many messages and pages; texts with conversations that come and go; a new
  backend or configuration under a dialog; invitations under everything; an
  invitation under a new backend or configuration; messages in a conversation
  that is left and opened again. One of the three conversations is shown in
  talk's classic pane, so that every way of reaching it is walked. At most a page of messages of one conversation
  comes between two polls (`Few`, in the proofs too): more, and `history` gives
  the last of them while the events still bring the first.
- *MailWindow*: three messages, of which one is matched by the filter and one
  is spam; budgets of two pulls, two changes of view, a mark, two questions, one
  doing of others and one missed reply, in five combinations. *MailCompose*: two
  windows, two drafts, two more texts: enough for each to be the other's.
- *CalWindow*: four days: today, one inside what is fetched and near its
  margin, one beyond, and one that, seen from there, is between the ninety days
  drawn and the hundred and twenty fetched; two events, two to-dos, three requests for two
  places; two midnights. Seven combinations of budgets: each lets two or
  three of moving, dialogs, others' changes, polls and failed calls meet; a lost
  reply is paid for like a failed call, and an event may be removed first, so that a
  request can be made into two.
  *CalDates*: eight hundred days from five starts, over 1900 (no leap year),
  1970, 2000, 2024 and 2100.

`CHECK_DEADLOCK FALSE` stands where the model stops because a bound is reached
(calls made, events pushed, time) and nowhere else.

### Fairness

- *IrcConnection*: the loop serves every ready socket and every due timer each
  round, so a retry timer fires, a lookup answers (getaddrinfo returns), and a
  reachable server gets the attempt a step on: weak fairness. The 60-second
  TIMEOUT is strongly fair: its time runs on while the network comes and goes.
- *ChatSync*: the program polls every second, the co-process replaces a dead
  child when it is next called, and a request under way is answered or fails.
- *CoProcess*: the client's step is always taken (it is one thread in a bounded
  wait), and a child that is not hanging goes on. Nothing is assumed of a
  child that hangs.

- *DeltaCore*: the loop reads what is there and fires the deadline; nothing is
  assumed of the core, which may hang for ever: that is what the deadline is for.
- *TalkCalls*: the loop reads what talkd says, talkd what we say, and a call
  that was answered is connected or said to be gone. The last is talkd's part
  of the protocol, and without it a call may well stay "answering".

- *Notices*: a program that runs goes through its idle loop for ever, and time
  passes. A program that is not running reads nothing, and `NotesAreTaken` says
  nothing of its inbox.

No fairness is assumed of the user, of any other server, or of a crash.

## 4. What is proved

The theorems hold for every value of the constants, under the modules'
`ASSUME`s alone: bounds are naturals (some not zero), and what the code's own
data say - `Configured` is finite, as are the programs of `Notices`, whose peer
lists name nobody twice (spoolFromConf), the login is one of the capabilities,
"no one" is not a window, tvchat's window begins with a conversation that is
listed, events are finitely many, and the almanac's days are
Gregorian dates of the third year or later. In each module one inductive invariant carries
the theorems; TLC checked it on the run's instance before it was proved.

- `IrcConnectionProofs`. `Control`, the conjunction of the types,
  `StateTellsTruth` and the three parts of `NothingStale` (`OneRetryTimer`,
  `DeadlineIsOurs`, `LookupIsOurs`), is inductive: none of its parts is
  without the others, as whether a stale timer acts depends on the phase, and
  the phase on which timers are left. Each way out of an attempt (`Fail`,
  `Lost`, `Disconnect`) has a lemma, each action a step. On top of it the
  lines move along one pipeline - typed, queued, buffered, sent - and every
  handler moves them along it or drops its tail and says so:
  `LinesAlwaysHonest`. The queue has a timer as long as it is not empty
  (`QueueAlwaysServed`), and with both `QueueAndBackoffAlwaysKept` says of
  every step that it loses no typed line unsaid, nor forgets the backoff.
- `TvcommonProofs`, the co-process and the notes, which share nothing else.
  *The co-process* (`CoProcess`, whose specification's parts have names that
  begin with `Co` for the other's sake): `Hold` says what child the client has at each point of a
  call, `Count` that a loss is met before its restart is counted. A child gets
  a request once at most and a request is written to two children at most, so
  it is carried out twice at most (`Executions`): `BudgetAlwaysHolds`. A client
  that has given up holds no child, `GivenUpLeavesNone`. While no failed call
  has left a child behind only the request being asked is under way
  (`Conversing`), so the reply read is its own, `ReplyIsOurs`.
- `TvchatProofs`, what the windows know and the calls of talk, which share
  nothing else. *The queue* (`ChatSync`): a snapshot is read in pieces while the backend goes on, and
  the events it has overtaken are applied once more. So of each piece - the
  account's state, which conversations there are, what is unread, the roles -
  the invariant says what a copy that agrees with the backend in that piece
  *now* will be once the queued events are applied (`AcctFrom`, `HasFrom`,
  `UnreadFrom`, `RoleFrom`); when a piece is read the model is such a copy. One
  event keeps all of them (`FromNow`): what a copy lacks that was to be like the
  backend, the event does to both. `NothingIsEverMissed`. `drain()` and the
  events' application are recursive functions, and what they compute for every
  queue is proved by induction over the naturals.
  *The calls* (`TalkCalls`, whose specification's parts have `Talk` in their
  names for the other's sake) are followed by their numbers: those that wait to
  be connected (`Waiting`), those in progress (`Joined`), all that have not
  ended (`Held`) and all ever given (`Given`). `CallPart` is about the adapter:
  the dict has live calls only, one for a number, and what a conversation shows
  is its call's state. `WirePart` says of each number where it is between the
  adapter and talkd: a CALL on its way is of a call that still waits or is
  followed by its HANGUP, and talkd knows nothing of it yet (`Asked`); a RING is
  of a call that talkd has or has since ended (`RingKnown`); a CONNECT or GONE
  is the last that was said of it (`SaidLast`, `Progress`); and where two calls
  have one number, talkd gave it twice (`SameNumber`). What the adapter shows as
  ringing (`Real`) and what waits in talkd (`Unseen`) are then the two sides of
  the same ledger. A handler is what it does to the calls - one more, some
  ended, some otherwise changed (`AddedCalls`, `EndedCalls`, `ReshapedCalls`) -
  and what it puts on the wire or takes from it, each with its lemma:
  `CallsAlwaysAgree`. *The lines* (`TalkLines`): of the writer's state and of
  what the reader makes of the bytes sent so far `ReadsAlike` says that they are
  the same line and the same log; each key keeps it (`KeyFollowed`), a return
  the reader waits behind included. A text said whole is read piece by piece:
  while that goes on the log, with the pieces of what is still to come, is the
  log there will be, and the reader's line is the piece under way (`Midway`,
  `OneMoreRead`); the newline finishes the last (`LineEnds`, `LineFollowed`). What
  a log is when each line is cut grows with the log (`AsReadAppend`), and a line
  that was typed is left as it is (`CutLeaves`). Induction over the script gives
  `ReadsAlike` for all of them: `LinesAlwaysSame`, of which `LogsAlwaysAgree` is a corollary.
- `ListProofs` has what the others need for that: `SetInduction`, which is
  induction with the set of good numbers for the usual operator, from the
  well-foundedness of `<`; and with it what `Keep` returns for every list: a
  list of those that belong, in their order, each as often as it was there
  (`KeepPlaces`, `KeepMembers`, `KeepOnce`, `KeepFirst`, `KeepAppend`).
- `IrcPartsProofs`, five components, each of its own. *Keepalive*: the strengthening says when
  an answer must have been asked for and by when it lies in the socket
  (`Answering`), and how the timer relates to the clocks (`Timely`).
  `LivingNeverDropped` needs the answer's time and a round of the loop to fit
  in the grace (`PromptEnough`, a premise inside the property); the code's 30
  seconds leave that to the network. *Flood control*: a balance - lines sent
  since any moment, times `RATE`, plus the credit left, is at most a full
  bucket plus the time since. `FloodNeverFloods` is its corollary and
  `PumpKeeps` the whole of the arithmetic. *Registration*: the negotiation is a
  game of turns: until CAP END one line of it is under way, in one direction,
  and which line it is says how far the login has come (`Stage`). Beside it a
  nick is under way, refused or the server's (`NickFollowed`), and the last
  line to us that names a capability says whether it is enabled
  (`CapFollowed`): `RegistrationAlwaysEnds`. *Channels*: of each channel,
  what the two streams end in decides. Where the server has us
  and no PART is on its way, the conversation is listed or will be, as what
  is still to be read opens it last (`Listed`); of a channel that was left the
  PART is the last word, or we are out and do not ask to come back (`Going`,
  `ShutOut`). A kick still to be read is followed by our own return or by
  silence, and where a bot was put out nothing under way leads back
  (`KickTold`, `KickedOut`). This is an invariant of one channel at a time, and
  each handler moves one line of one: `ChannelsAlwaysAgree`. *History*: an
  answer carries no label; it is taken for what it is
  only while a conversation has one request under way at most, that one being
  what `fetching` says, asked for what comes before the ring as it still is
  (`Known`). Of a conversation that was not left, what is remembered as asked
  was asked (`Followed`): `HistoryAlwaysHonest`.
- `ChatEndsProofs`. *The core*: it answers no request it was not asked
  (`Counted`), which keeps the outstanding requests of each kind at their
  number (`Outstanding`); what is known of the account at each point
  (`Account`) says when its database may change under the windows. With it
  each message not left from an older database is shown, to be shown or
  missed (`View`, `Followed`), and mail that no answer has refused is stopped
  only with an offer or its end under way (`MailOn`): `CoreAlwaysInStep`, `MessagesAlwaysOnce`,
  `MailAlwaysFlows`.
  *The window* (`ChatWindow`). `WindowAlwaysFollows` is its invariant
  `WinInv`; the properties are about the window and the backend, and what
  relates the two is what lies between them, which none of them mentions.
  A conversation is in three places: in the ring, in the events still to be
  told, and in the log. Each is a run of numbers without a gap (`RingRuns`,
  `PendingRuns`, `LogRuns`); ring and events go up to the last message there is,
  no event is older than the log's first, and all between the log's last and
  the last there is are still to be told. So a page that is put before the log,
  a history read anew and an event told twice each leave a run, and
  `LogAlwaysRun` follows; `Few` is what makes a page that is read reach back to
  the oldest event that is still to come. The functions of the window are shown
  once to keep what the window says of itself (`Fresh`): rows of one account, the
  highlight on what is shown, each text with its conversation (`TextsAt`), and
  a log that is the one it had or the latest page; every action is a
  composition of them: `TextsAlwaysStay`, `PanesAndDialogsAlwaysAgree`, the latter
  with `AtWork`: under a dialog nothing is polled. `Synced` says that the model
  is what the backend has once the queue is applied to it (`Applied`, a
  recursive function that is followed by induction over the queue); since the
  window asks by the model and the backend answers by what it has, only this
  says that `markRead()` acts when there is something to read. What is unread
  in view has its event in the queue, or in the batch with the model knowing of
  it (`Noticed`), unless the classic pane took the focus in front of it
  (`Attends`), and an invitation its event, the flag, or a question
  (`InvitesFollowed`): `NothingEverWaitsUnseen`. The proof found three flaws of
  the model that the run's bounds hid: invitations lost when everything is read
  anew, and messages of a former life (`dropped`, `reborn`, above), neither of which
  the properties excepted; and the accounts of a configuration without any,
  of which the head was taken. The run has a budget for each now.
- `TvcommonProofs`, *the notes*. Notes lie where they were written to (`Filed`), readers and
  senders hold what is theirs (`Reading`, `Sending`), and a process forgets a
  text only when the notes it knows with it are old (`Recalled`), so a text
  goes to a peer once in a window. What keeps an inbox bounded is that whoever
  has counted it and not yet written is counted with it (`Counted`): its live
  notes and its writers together are fewer than `InboxMax` plus its senders.
  `NotesAlwaysFew`. `NotesNeverVanish` is the refinement, step by step:
  each action of `Notices` is a step of `NotePost` on the fates of its notes,
  or a stutter. The proof showed `NotePost` to be too narrow for more than the
  run's two notes: one sweep of a sender expires some notes and leaves others,
  whose text a reader already has, in that reader's hands. `Expire(S, T)` says
  so now.
- `MailProofs`, tvmail's two kinds of window. *Compose windows*: of every text
  that a window may still need it says where it is: what a window was opened or
  last saved with is kept (`Windows`), and what it goes with while its draft is
  being dropped (`Dropping`), and what every window holds that has answered the
  quit (`Quitting`); and while one is asked nothing else goes on (`Asking`).
  `UnsentAlwaysKept`, and of every step `DraftsAlwaysOwn`. *The main window*:
  whatever filter and order made them, the rows are a view of the list
  (`RowsAreView`), and while nobody else has removed a message what was listed,
  or asked about, lies where it was listed (`ListHolds`):
  `MessageAlwaysInHand`. What a pull announces is the difference of two numbers
  counted at different times, so the invariant bounds each number from both
  sides (`Counts`): what is unread now and has not become so since the last
  pull was counted then, and if nothing was read or removed all that was
  counted is still unread, apart from what arrived. Every action but the end of
  a pull keeps the unread of the inbox between those bounds (`Steady`), which
  needs a message to be in one place and listed once (`Placed`, `ListedOnce`):
  `ListStepsAlwaysTrue`.
- `CalProofs`, tvcal. *Dates*: that the two formulas with their divisions by 4,
  100 and 400 are each other's inverse is shown by the days before a year and a
  month, counted in years that begin in March (`Days`); each step of the walk
  then takes both sides a day on, and a month further or the grid's first day
  is a sum of such steps. The walk sets out from days of an almanac
  (`AlmanacAssumption`) and may be of any length: `DatesAlwaysRight`. *What is
  asked and reminded*: a reminder is told in the same step that finds it not
  fired (`RemindInv`); a request that is being answered, or that the loop over
  the requests still holds, is accounted for by where it waits and by how many
  events were made of it, against how many of those the program was not told of
  (`AskedInv`): `AlwaysAskedAndRemindedOnce`. *The panes*: a window
  agrees with itself (`Agree`) - its rows are those that the occurrences and
  the day picked make (`RowsFrom`), its highlight is on a row, the grid is of
  its month - and, unless it was scrolled, the day picked is among the days
  fetched and drawn (`Held`, `Shows`). Each function of the window takes a window
  that agrees to another (`Fetched`, `Built`, `GridRefreshed`, `TodosRefreshed`,
  `AllRefreshed`, `DayPicked`), so each action does: the agenda's rows are a
  recursive function of the days, whose rows are followed by induction.
  `DialogInv` says that what a dialog names cannot change under it:
  `PanesAndDialogsAlwaysTrue`. The proof showed `PanesAgree` to promise too
  much: where the day picked lies beyond the ninety days drawn and none of
  these has anything, nor is today, a new reading leaves no row at all and so no
  highlight. It excepts that now, and the run has days for it.

### Only model-checked

- Every liveness property: fairness and ENABLED are out of the prover's reach.
- Nothing else: of every invariant and every action property of the passing runs
  there is a theorem. The step from a module to an `MC` module, which gives the
  constants values and puts modules side by side that share no variable, is
  none of the theorems'.

## 5. Not modelled, and the plan

Not modelled because nothing in it interleaves or fails halfway: the widgets,
shell and configuration dialogs, drawing, menus, formatting, help texts, build
and deploy scripts. Of the windows the parts named in `PROJECT.json` are left
out: dialogs that only gather what to put on one command line, the search, and
what is text. Floyd's answers are text. The Delta Chat gateway, the Live Helper
Chat extension and the sync of calendars with a server talk to programs that
are not in this repository, and little would be left of them but those.

Next, in this order:

1. `ChatRequests`: tvchat's requests directory and shares; carried out at most
   once unless a crash falls between acting and unlinking (tvchat-backend:7298).
2. `DeltaInvites`: the invitations in the mailbox and SecureJoin, over
   `DeltaCore`'s life. An offer that ends with its core is not retracted at the
   master (tvchat-backend:3699), which belongs there.
3. `FloydHears`: several adapters, levels, quieting; a line answered once where
   several hear it, and never his own (tvchat-backend:4691).
4. Mailbox locks of tvmail; recurrence as a pure function against a reference.
