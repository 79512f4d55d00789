----------------------------- MODULE ChatWindow -----------------------------
(***************************************************************************)
(* tvchat's window (tvchat/src/chatwin.cpp) and the timer that feeds it    *)
(* (app.cpp).  The window shows one conversation of one account: the last  *)
(* of its messages, read when it is shown, and those that come as events   *)
(* from then on.  A poll applies all it got to the model first and tells   *)
(* the window one event at a time after that; everything the window asks   *)
(* meanwhile is answered by a backend that is further on than both.        *)
(*                                                                         *)
(* A dialog stops the timer.  What it took from the model or the window    *)
(* when it was opened - an index, a conversation - is used when it is      *)
(* answered; what it asks for is followed by a poll, which may put the     *)
(* questions about invitations on top of whatever is going on.             *)
(*                                                                         *)
(* Messages are numbered in a conversation, the oldest the server has      *)
(* being 1.  How the client comes to know of a new backend is ChatSync's   *)
(* subject: here a poll reads everything again in one step.  Left out are  *)
(* what is typed into talk's split screen (its classic pane) and switching *)
(* to it, topics, roles, selections and the shape of a line.               *)
(***************************************************************************)
EXTENDS Lists, FiniteSets, SequencesExt

CONSTANTS
    AcctList, ConvList,      \* accounts, conversations (numbers) in their order
    AcctOf,                  \* whose a conversation is
    Classic,                 \* talk conversations shown in talk's classic pane
    Page,                    \* messages `history` gives at most
    Invites, ToConv,         \* invitations, and the conversation each leads to
    Budgets                  \* bounds: how often a run may do what, one of these

Accts == ToSet(AcctList)
Convs == ToSet(ConvList)
Bounded == {"says", "pasts", "convs", "texts", "moves", "asks", "resets", "invites"}
ASSUME ConstantsOK ==
    /\ AcctList \in Seq(Nat \ {0}) /\ ConvList \in Seq(Nat \ {0}) /\ 1 \in Convs
    /\ AcctOf \in [Convs -> Accts] /\ Classic \subseteq Convs /\ ToConv \in [Invites -> Convs]
    /\ Page \in Nat \ {0} /\ Budgets \subseteq [Bounded -> Nat]

VARIABLES
    bAccts, bConvs, ring, last, unread, gotAll, asking, waiting,  \* the backend
    queue, gen,              \* its events not yet polled; which child it is
    model, mAccts, cgen,     \* ChatClient's
    batch, polling, invited, \* chatEvents() under way: events not yet told, ...
    win, pane, front,        \* the window; its chat pane has the focus; it is in front
    slipped,                 \* history: the pane took the focus in front of unread
                             \* messages, and nothing is marked read since
    dlg, todo,               \* the dialog; what goes on once the poll is over
    texts, asked,            \* history: what was typed, where it went; the
                             \* invitations the user was asked about
    dropped, reborn,         \* those whose event was dropped unread; conversations
                             \* removed with messages still to be told
    budget                   \* what is left of the bounds

backend == <<bAccts, bConvs, ring, last, unread, gotAll, asking, waiting, queue, gen>>
client == <<model, mAccts, cgen, batch, polling, invited>>
window == <<win, pane, front, slipped>>
history == <<texts, asked, dropped, reborn>>
winVars == <<backend, client, window, dlg, todo, history, budget>>

None == 0
NoDialog == [op |-> "none", idx |-> 0, named |-> None]
Event(t, c, n) == [t |-> t, c |-> c, n |-> n]
Spend(what) == budget[what] > 0 /\ budget' = [budget EXCEPT ![what] = @ - 1]
NewestOf(S, n) == {m \in S : Cardinality({k \in S : k > m}) < n}

\* The program waits for the user, and for the timer
Idle == batch = <<>> /\ polling = "no" /\ dlg = NoDialog /\ todo = <<>>

-----------------------------------------------------------------------------
(* The backend.                                                            *)

ToTell == batch \o queue
Pending(c) == {i \in DOMAIN ToTell : ToTell[i].t = "msg" /\ ToTell[i].c = c}
\* At most Page messages of one conversation come between two polls (bound).
Few(c) == \A i \in Pending(c) : last[c] + 1 < ToTell[i].n + Page

\* add_message(): another's counts as unread, our own does not
Added(c, counts) ==
    /\ Few(c)
    /\ last' = [last EXCEPT ![c] = @ + 1]
    /\ ring' = [ring EXCEPT ![c] = @ \cup {last'[c]}]
    /\ unread' = IF counts THEN [unread EXCEPT ![c] = @ + 1] ELSE unread
    /\ queue' = queue \o <<Event("msg", c, last'[c])>>
                      \o (IF counts THEN <<Event("unread", c, unread'[c])>> ELSE <<>>)

add_message(c) ==
    /\ c \in bConvs /\ Spend("says") /\ Added(c, TRUE)
    /\ UNCHANGED <<bAccts, bConvs, gotAll, asking, waiting, gen, client, window, dlg, todo, history>>

\* The server's own history: all of it, on joining
MergesLatest(c) ==
    /\ c \in bConvs /\ Spend("pasts")
    /\ ring' = [ring EXCEPT ![c] = 1 .. last[c]]
    /\ queue' = Append(queue, Event("history latest", c, 0))
    /\ UNCHANGED <<bAccts, bConvs, last, unread, gotAll, asking, waiting, gen,
                   client, window, dlg, todo, history>>

\* ... or what PgUp asked for, which may be nothing more
MergesBefore(c) ==
    /\ c \in asking
    /\ asking' = asking \ {c}
    /\ ring' = [ring EXCEPT ![c] = 1 .. last[c]]
    /\ gotAll' = IF ring' = ring THEN gotAll \cup {c} ELSE gotAll
    /\ queue' = Append(queue, Event("history before", c, 0))
    /\ UNCHANGED <<bAccts, bConvs, last, unread, waiting, gen,
                   client, window, dlg, todo, history, budget>>

Opened(c) ==                                  \* ensure_conv()
    /\ bConvs' = bConvs \cup {c}
    /\ queue' = IF c \in bConvs THEN queue ELSE Append(queue, Event("conv-new", c, 0))
    /\ UNCHANGED <<ring, unread, gotAll, asking, reborn>>
Removed(c) ==                                 \* remove_conv()
    /\ bConvs' = bConvs \ {c}
    /\ queue' = IF c \in bConvs THEN Append(queue, Event("conv-gone", c, 0)) ELSE queue
    /\ ring' = [ring EXCEPT ![c] = {}] /\ unread' = [unread EXCEPT ![c] = 0]
    /\ gotAll' = gotAll \ {c} /\ asking' = asking \ {c}
    /\ reborn' = IF Pending(c) = {} THEN reborn ELSE reborn \cup {c}

ConvComesOrGoes(c) ==
    /\ Spend("convs") /\ AcctOf[c] \in ToSet(bAccts)
    /\ IF c \in bConvs THEN Removed(c) ELSE Opened(c)
    /\ UNCHANGED <<bAccts, last, waiting, gen, client, window, dlg, todo, texts, asked, dropped>>

AccountState(a) ==
    /\ Spend("convs") /\ a \in ToSet(bAccts)
    /\ queue' = Append(queue, Event("state", a, 0))
    /\ UNCHANGED <<bAccts, bConvs, ring, last, unread, gotAll, asking, waiting, gen,
                   client, window, dlg, todo, history>>

InviteComes(i) ==
    /\ i \notin waiting \cup asked /\ Spend("invites")
    /\ waiting' = waiting \cup {i}
    /\ queue' = Append(queue, Event("invite", i, 0))
    /\ UNCHANGED <<bAccts, bConvs, ring, last, unread, gotAll, asking, gen,
                   client, window, dlg, todo, history>>

\* Without the accounts of S.  What was told of their conversations is lost.
ReadsConfig(S) ==
    /\ bAccts' = Keep(bAccts, Accts \ S)
    /\ bConvs' = {c \in bConvs : AcctOf[c] \notin S}
    /\ ring' = [c \in Convs |-> IF c \in bConvs' THEN ring[c] ELSE {}]
    /\ unread' = [c \in Convs |-> IF c \in bConvs' THEN unread[c] ELSE 0]
    /\ gotAll' = gotAll \cap bConvs' /\ asking' = asking \cap bConvs'
    /\ UNCHANGED <<last, waiting>>

\* The child dies and another is started, which reads the configuration anew
Restart ==
    /\ Spend("resets") /\ gen' = gen + 1
    /\ bAccts' \in {bAccts} \cup {Tail(bAccts) : i \in DOMAIN bAccts}
    /\ bConvs' = {} /\ ring' = [c \in Convs |-> {}] /\ unread' = [c \in Convs |-> 0]
    /\ gotAll' = {} /\ asking' = {} /\ waiting' = {} /\ queue' = <<>>
    /\ UNCHANGED <<last, client, window, dlg, todo, history>>

-----------------------------------------------------------------------------
(* The window's own functions, as it would be after them.                  *)

convsOf(m, a) == Keep(ConvList, {c \in DOMAIN m : AcctOf[c] = a})

\* TChatList::setIds(): the highlight stays on `keep`, else goes to the first
setIds(w, ids, keep) ==
    [w EXCEPT !.rows = ids,
              !.hi = IF keep \in ToSet(ids) THEN keep
                     ELSE IF ids = <<>> THEN None ELSE Head(ids)]

\* `history`: messages of a conversation, by their numbers
InOrder(S, c) == Keep([m \in 1 .. last[c] |-> m], S)
LatestOf(c) == IF c \in bConvs THEN InOrder(NewestOf(ring[c], Page), c) ELSE <<>>

\* loadHistory(): with no conversation, or one the backend does not know, a
\* note instead
loadHistory(w) ==
    [w EXCEPT !.log = LatestOf(w.conv), !.notes = w.conv \notin bConvs, !.noOlder = FALSE]

\* showConv(): the text typed stays behind with its conversation
Shown(w, c) == c = w.conv /\ (w.log # <<>> \/ w.notes)
showConvLate(w, c) ==                         \* mutant: put away after the switch
    IF Shown(w, c) THEN w
    ELSE loadHistory([w EXCEPT
           !.conv = c,
           !.drafts = IF c = None THEN @ ELSE [@ EXCEPT ![c] = w.input],
           !.lastConv = IF w.acct = None THEN @ ELSE [@ EXCEPT ![w.acct] = c],
           !.input = IF c = None \/ c = w.conv THEN w.input ELSE w.drafts[c]])
showConv(w, c) ==
    IF Shown(w, c) THEN w
    ELSE LET put == IF w.conv = None THEN w.drafts
                    ELSE [w.drafts EXCEPT ![w.conv] = w.input]
         IN loadHistory([w EXCEPT
              !.drafts = put, !.conv = c,
              !.lastConv = IF w.acct = None THEN @ ELSE [@ EXCEPT ![w.acct] = c],
              !.input = IF c = None THEN None ELSE put[c]])

showAccount(w, m, a) ==
    LET listed == setIds([w EXCEPT !.acct = a], convsOf(m, a),
                         IF a = None THEN None ELSE w.lastConv[a])
    IN showConv(listed, listed.hi)

\* refreshLists(): both lists from the model, staying on what is shown; `follow`
\* when that is gone
refreshListsFirst(w, m, as, follow) ==        \* mutant: the highlight is not kept
    LET a == IF w.acct \in ToSet(as) THEN w.acct ELSE IF as = <<>> THEN None ELSE Head(as)
        listed == setIds([w EXCEPT !.acct = a], convsOf(m, a), None)
    IN IF follow /\ w.conv \notin ToSet(listed.rows) /\ listed.hi # w.conv
       THEN showConv(listed, listed.hi) ELSE listed
refreshLists(w, m, as, follow) ==
    LET a == IF w.acct \in ToSet(as) THEN w.acct ELSE IF as = <<>> THEN None ELSE Head(as)
        listed == setIds([w EXCEPT !.acct = a], convsOf(m, a), w.conv)
    IN IF follow /\ w.conv \notin ToSet(listed.rows) /\ listed.hi # w.conv
       THEN showConv(listed, listed.hi) ELSE listed

\* cmChatReset: the history is read again, of the same conversation
Reset(w, m, as) ==
    LET r == refreshLists(w, m, as, FALSE)
    IN showConv([r EXCEPT !.log = <<>>, !.notes = FALSE], r.conv)

\* markRead(), by what the model says is unread; `c` may be gone at the backend
Unseen(w, m) == w.conv \in DOMAIN m \cap bConvs /\ m[w.conv] > 0
markRead(w, m, looking, q) ==
    /\ IF looking /\ Unseen(w, m)
       THEN /\ unread' = [unread EXCEPT ![w.conv] = 0]
            /\ queue' = IF unread[w.conv] > 0 THEN Append(q, Event("unread", w.conv, 0)) ELSE q
       ELSE unread' = unread /\ queue' = q
    /\ slipped' = IF looking THEN FALSE ELSE slipped
Looking == front /\ pane

\* The chat pane takes the focus, and cmPaneFocused says so.  That of the input
\* line and the log has it read, that of the classic pane does not.
paneFocused(w, looking) ==
    IF w.conv \in Classic /\ looking
    THEN UNCHANGED <<unread, queue>> /\ slipped' = Unseen(w, model)
    ELSE markRead(w, model, looking, queue)

\* The window changes to w, and what it shows then is read if looked at
Shows(w) == win' = w /\ markRead(w, model, Looking, queue)

BackendButReads == UNCHANGED <<bAccts, bConvs, ring, last, gotAll, asking, waiting, gen>>

-----------------------------------------------------------------------------
(* chatEvents().                                                           *)

Apply(m, e) ==
    CASE e.t = "conv-new" -> [c \in DOMAIN m \cup {e.c} |-> IF c = e.c THEN e.n ELSE m[c]]
      [] e.t = "conv-gone" -> [c \in DOMAIN m \ {e.c} |-> m[c]]
      [] e.t = "unread" /\ e.c \in DOMAIN m -> [m EXCEPT ![e.c] = e.n]
      [] OTHER -> m
Applied(m, q) ==
    LET after[i \in 0 .. Len(q)] == IF i = 0 THEN m ELSE Apply(after[i - 1], q[i])
    IN  after[Len(q)]
Truth == [c \in bConvs |-> unread[c]]

\* sync() reads what has happened, not what was told of it
Drained ==
    /\ dropped' = dropped \cup {queue[i].c : i \in {j \in DOMAIN queue : queue[j].t = "invite"}}
    /\ reborn' = {}

\* ChatClient::poll(), and the reset a new backend is announced with
Poll ==
    \/ /\ gen = cgen
       /\ batch' = queue /\ queue' = <<>>
       /\ model' = Applied(model, queue)
       /\ UNCHANGED <<unread, mAccts, cgen, win, slipped, dropped, reborn>>
    \/ /\ gen # cgen
       /\ cgen' = gen /\ mAccts' = bAccts /\ model' = Truth /\ batch' = <<>>
       /\ win' = Reset(win, Truth, bAccts)
       /\ Drained /\ markRead(win', Truth, Looking, <<>>)

\* idle(): not while a menu or a dialog is up
idlePolls ==                                  \* mutant: under dialogs too
    /\ batch = <<>> /\ polling = "no" /\ todo = <<>>
    /\ queue # <<>> \/ gen # cgen
    /\ Poll /\ polling' = "told"
    /\ BackendButReads
    /\ UNCHANGED <<invited, pane, front, dlg, todo, texts, asked, budget>>
idle ==
    /\ Idle /\ (queue # <<>> \/ gen # cgen)
    /\ Poll /\ polling' = "told"
    /\ BackendButReads
    /\ UNCHANGED <<invited, pane, front, dlg, todo, texts, asked, budget>>

\* pollNow(), after a request
pollNow ==
    /\ polling = "due"
    /\ Poll /\ polling' = "told"
    /\ BackendButReads
    /\ UNCHANGED <<invited, pane, front, dlg, todo, texts, asked, budget>>

\* loadOlder(): the page before the oldest shown.  When the ring has no more
\* the backend asks the server, and says so.
Oldest == Head(win.log)
Older == {m \in ring[win.conv] : m < Oldest}
loadOlder ==
    IF win.noOlder \/ win.log = <<>> \/ win.conv \notin bConvs
    THEN UNCHANGED <<win, asking>>
    ELSE IF Older = {} /\ Oldest \in ring[win.conv] /\ win.conv \notin gotAll
    THEN asking' = asking \cup {win.conv} /\ UNCHANGED win
    ELSE LET more == IF Oldest \in ring[win.conv] THEN NewestOf(Older, Page) ELSE {}
         IN /\ win' = IF more = {} THEN [win EXCEPT !.noOlder = TRUE]
                      ELSE [win EXCEPT !.log = InOrder(more, win.conv) \o @]
            /\ UNCHANGED asking

Tells(t) == batch # <<>> /\ Head(batch).t = t /\ batch' = Tail(batch)
            /\ UNCHANGED <<model, mAccts, cgen, polling, pane, front, dlg, todo, history, budget>>
Here == Head(batch).c = win.conv
Reads == BackendButReads /\ UNCHANGED invited
Only == UNCHANGED <<backend, invited, slipped>>

\* onEvent().  A message comes in the history and in an event: by its id, once
MsgEventBlind ==                              \* mutant: the id is not looked at
    /\ Tells("msg")
    /\ win' = IF Here THEN [win EXCEPT !.log = Append(@, Head(batch).n)] ELSE win
    /\ Only
MsgEvent ==
    /\ Tells("msg")
    /\ win' = IF Here /\ Head(batch).n \notin ToSet(win.log)
              THEN [win EXCEPT !.log = Append(@, Head(batch).n)] ELSE win
    /\ Only

UnreadEventDrawn ==                           \* mutant: the lists are drawn, no more
    /\ Tells("unread")
    /\ Only /\ UNCHANGED win
UnreadEvent ==
    /\ Tells("unread")
    /\ IF Here /\ Head(batch).n > 0 THEN Shows(win) ELSE UNCHANGED <<unread, queue, win, slipped>>
    /\ Reads

ConvNewEvent == Tells("conv-new") /\ win' = refreshLists(win, model, mAccts, FALSE) /\ Only
\* What follows one that is gone is read if looked at
ConvGoneEvent ==
    /\ Tells("conv-gone")
    /\ LET w == refreshLists([win EXCEPT !.notes = @ \/ Here], model, mAccts, Here)
       IN IF w.conv = win.conv THEN win' = w /\ UNCHANGED <<unread, queue, slipped>> ELSE Shows(w)
    /\ Reads

HistoryEvent ==
    /\ Tells("history latest")
    /\ win' = IF Here THEN loadHistory(win) ELSE win
    /\ Only
OlderEvent ==
    /\ Tells("history before")
    /\ IF Here THEN loadOlder ELSE UNCHANGED <<win, asking>>
    /\ UNCHANGED <<bAccts, bConvs, ring, last, unread, gotAll, waiting, queue, gen,
                   invited, slipped>>

StateEvent ==
    /\ Tells("state")
    /\ win' = IF win.conv # None /\ AcctOf[win.conv] = Head(batch).c
              THEN [win EXCEPT !.notes = TRUE]
              ELSE IF win.conv = None /\ win.acct = Head(batch).c THEN loadHistory(win) ELSE win
    /\ Only

InviteEvent ==
    /\ Tells("invite") /\ invited' = TRUE
    /\ UNCHANGED <<backend, win, slipped>>

\* All told: with an invitation among them, acceptInviteDialog()
AsksInvites == todo' = IF waiting = {} THEN todo
                       ELSE <<[k |-> "invites", left |-> waiting]>> \o todo
chatEventsOnce ==                             \* mutant: not over another question
    /\ polling = "told" /\ batch = <<>>
    /\ polling' = "no" /\ invited' = FALSE
    /\ IF invited /\ todo = <<>> THEN AsksInvites ELSE UNCHANGED todo
    /\ UNCHANGED <<backend, model, mAccts, cgen, batch, window, dlg, history, budget>>
chatEvents ==
    /\ polling = "told" /\ batch = <<>>
    /\ polling' = "no" /\ invited' = FALSE
    /\ IF invited THEN AsksInvites ELSE UNCHANGED todo
    /\ UNCHANGED <<backend, model, mAccts, cgen, batch, window, dlg, history, budget>>

-----------------------------------------------------------------------------
(* What goes on once a poll is over.                                       *)

Goes == batch = <<>> /\ polling = "no" /\ todo # <<>> /\ dlg = NoDialog
Top == Head(todo)

\* showChatWindow(): in front first
ToFront ==
    /\ Goes /\ Top.k \in {"conv", "account"} /\ ~front
    /\ front' = TRUE /\ markRead(win, model, pane, queue)
    /\ BackendButReads /\ UNCHANGED <<client, win, pane, dlg, todo, history, budget>>

\* goTo(): the lists as they are now, and the account shown if it is another, with
\* what it shows read
ShowsAccount(a) ==
    LET r == refreshLists(win, model, mAccts, FALSE)
    IN IF r.acct = a THEN win' = r /\ UNCHANGED <<unread, queue, slipped>>
       ELSE /\ win' = showAccount(r, model, a)
            /\ markRead(win', model, pane /\ ~Shown(r, win'.conv), queue)
GoesToAccount ==
    /\ Goes /\ Top.k = "account" /\ front
    /\ ShowsAccount(Top.a) /\ pane' = FALSE  \* the focus goes to the list
    /\ todo' = Tail(todo)
    /\ BackendButReads /\ UNCHANGED <<client, front, dlg, history, budget>>
ToAccount ==
    /\ Goes /\ Top.k = "conv" /\ front
    /\ ShowsAccount(AcctOf[Top.c])
    /\ todo' = <<[k |-> "there", c |-> Top.c]>> \o Tail(todo)
    /\ BackendButReads /\ UNCHANGED <<client, pane, front, dlg, history, budget>>

\* ... then a conversation, one just joined and not listed yet perhaps.  It is read
\* when another was shown in its pane, or by the focus coming to it
GoesToConv ==
    /\ Goes /\ Top.k = "there"
    /\ win' = showConv(setIds(win, win.rows, Top.c), Top.c) /\ pane' = TRUE
    /\ IF ~pane THEN paneFocused(win', TRUE)
       ELSE markRead(win', model, ~Shown(win, Top.c), queue)
    /\ todo' = Tail(todo)
    /\ BackendButReads /\ UNCHANGED <<client, front, dlg, history, budget>>

\* acceptInviteDialog(): a question for each of a list that was read once
Question(i) == Goes /\ Top.k = "invites" /\ i \in Top.left /\ asked' = asked \cup {i}
OthersLeft(i) == <<[Top EXCEPT !.left = @ \ {i}]>> \o Tail(todo)

AcceptInvite(i) ==
    /\ Question(i)
    /\ \/ /\ i \in waiting /\ AcctOf[ToConv[i]] \in ToSet(bAccts)
          /\ waiting' = waiting \ {i}
          /\ Opened(ToConv[i])
          /\ polling' = "due"
          /\ todo' = <<[k |-> "conv", c |-> ToConv[i]]>> \o OthersLeft(i)
       \/ /\ ~(i \in waiting /\ AcctOf[ToConv[i]] \in ToSet(bAccts))
          /\ todo' = OthersLeft(i)
          /\ UNCHANGED <<waiting, bConvs, ring, unread, gotAll, asking, queue, polling, reborn>>
    /\ UNCHANGED <<bAccts, last, gen, model, mAccts, cgen, batch, invited, window, dlg,
                   texts, dropped, budget>>

DeclineInvite(i) ==
    /\ Question(i)
    /\ waiting' = waiting \ {i} /\ todo' = OthersLeft(i)
    /\ UNCHANGED <<bAccts, bConvs, ring, last, unread, gotAll, asking, queue, gen,
                   client, window, dlg, texts, dropped, reborn, budget>>

\* Cancel leaves the rest for later
InvitesDone ==
    /\ Goes /\ Top.k = "invites"
    /\ asked' = asked \cup Top.left
    /\ todo' = Tail(todo) /\ polling' = "due"
    /\ UNCHANGED <<backend, model, mAccts, cgen, batch, invited, window, dlg,
                   texts, dropped, reborn, budget>>

-----------------------------------------------------------------------------
(* The user.                                                               *)

\* The lists, and Tab and the mouse between the panes
PickAccount(a) ==
    /\ Idle /\ Spend("moves") /\ a \in ToSet(mAccts) \ {win.acct}
    /\ win' = showAccount(win, model, a) /\ pane' = FALSE
    /\ UNCHANGED <<backend, client, front, slipped, dlg, todo, history>>
PickConv(c) ==
    /\ Idle /\ Spend("moves") /\ c \in ToSet(win.rows) \ {win.hi}
    /\ win' = showConv([win EXCEPT !.hi = c], c) /\ pane' = FALSE
    /\ UNCHANGED <<backend, client, front, slipped, dlg, todo, history>>
PaneFocused ==
    /\ Idle /\ Spend("moves") /\ pane' = ~pane
    /\ paneFocused(win, front /\ pane')
    /\ BackendButReads /\ UNCHANGED <<client, win, front, dlg, todo, history>>
OtherWindow ==                                \* setState()
    /\ Idle /\ Spend("moves") /\ front' = ~front
    /\ markRead(win, model, front' /\ pane, queue)
    /\ BackendButReads /\ UNCHANGED <<client, win, pane, dlg, todo, history>>
PgUp ==
    /\ Idle /\ Spend("moves") /\ loadOlder
    /\ UNCHANGED <<bAccts, bConvs, ring, last, unread, gotAll, waiting, queue, gen,
                   client, pane, front, slipped, dlg, todo, history>>

\* The Chat menu's accounts: connected first, if it is not
accountItem(a) ==
    /\ Idle /\ Spend("moves") /\ a \in ToSet(mAccts)
    /\ todo' = <<[k |-> "account", a |-> a]>> /\ polling' \in {"no", "due"}
    /\ UNCHANGED <<backend, model, mAccts, cgen, batch, invited, window, dlg, history>>

\* File > Reload
cmReload ==
    /\ Idle /\ Spend("moves")
    /\ Shows(Reset(win, model, mAccts)) /\ Reads
    /\ UNCHANGED <<model, mAccts, cgen, batch, polling, pane, front, dlg, todo, history>>

\* editConfig(): the backend reads the new file, and the client reads it
editConfig ==
    /\ Idle /\ gen = cgen /\ Spend("resets")
    /\ \E S \in {{}} \cup {{bAccts[i]} : i \in DOMAIN bAccts} : ReadsConfig(S)
    /\ mAccts' = bAccts' /\ model' = [c \in bConvs' |-> unread[c]]
    /\ Drained /\ queue' = <<>> /\ polling' = "reset"
    /\ UNCHANGED <<gen, cgen, batch, invited, window, dlg, todo, texts, asked>>
ConfigReset ==
    /\ polling = "reset" /\ polling' = "no"
    /\ Shows(Reset(win, model, mAccts)) /\ Reads
    /\ UNCHANGED <<model, mAccts, cgen, batch, pane, front, dlg, todo, history, budget>>

\* The input line: a text is a number, and each change makes a new one
Type ==
    /\ Idle /\ Looking /\ win.conv \notin Classic /\ Spend("texts")
    /\ texts' = Append(IF win.input = None THEN texts
                       ELSE [texts EXCEPT ![win.input].fate = "gone"],
                       [for |-> win.conv, fate |-> "kept", to |-> None])
    /\ win' = [win EXCEPT !.input = Len(texts')]
    /\ UNCHANGED <<backend, client, pane, front, slipped, dlg, todo, asked, dropped, reborn>>

\* sendInput(): refused, it stays in the line; sent, ours comes back as an event
sendInput ==
    /\ Idle /\ Looking /\ win.input # None
    /\ win.conv \in bConvs \ Classic
    /\ Added(win.conv, FALSE)
    /\ texts' = [texts EXCEPT ![win.input].fate = "sent", ![win.input].to = win.conv]
    /\ win' = [win EXCEPT !.input = None, !.drafts[win.conv] = None]
    /\ polling' = "due"
    /\ UNCHANGED <<bAccts, bConvs, gotAll, asking, waiting, gen, model, mAccts, cgen, batch,
                   invited, pane, front, slipped, dlg, todo, asked, dropped, reborn, budget>>
SendRefused ==
    /\ Idle /\ Looking /\ win.input # None /\ win.conv \notin Classic /\ Spend("moves")
    /\ win' = [win EXCEPT !.notes = TRUE]
    /\ UNCHANGED <<backend, client, pane, front, slipped, dlg, todo, history>>

\* valid(cmQuit): "Discard the chat messages you have not sent?" - Yes; the
\* quit is then called off by another window, or it is the end
cmQuit ==
    /\ Idle /\ front /\ Spend("moves")          \* asked in front (OtherWindow)
    /\ win' = [win EXCEPT !.input = None, !.drafts = [c \in Convs |-> None]]
    /\ texts' = [t \in DOMAIN texts |->
                   IF texts[t].fate = "kept" THEN [texts[t] EXCEPT !.fate = "gone"] ELSE texts[t]]
    /\ UNCHANGED <<backend, client, pane, front, slipped, dlg, todo, asked, dropped, reborn>>

-----------------------------------------------------------------------------
(* The dialogs.  One about an account remembers its place in accounts().   *)

OfAccount(op) ==
    /\ Idle /\ Spend("asks")
    /\ \E i \in DOMAIN mAccts : dlg' = [op |-> op, idx |-> i, named |-> mAccts[i]]
    /\ UNCHANGED <<backend, client, window, todo, history>>
\* One about the conversation shown, by its name
OfConv(op) ==
    /\ Idle /\ front /\ win.conv # None /\ Spend("asks")
    /\ dlg' = [op |-> op, idx |-> 0, named |-> win.conv]
    /\ UNCHANGED <<backend, client, window, todo, history>>

connectDialog == OfAccount("connect")
disconnectDialog == OfAccount("disconnect")
joinDialog == OfAccount("join")
inviteDialog == OfAccount("invite")
deviceAddDialog == OfAccount("device-add")
deviceUseDialog == OfAccount("device-use")
newGroupDialog == OfAccount("new-group")
groupAddDialog == OfConv("group-add")
groupRemoveDialog == OfConv("group-remove")
groupRenameDialog == OfConv("group-rename")
mailSelectionDialog == OfConv("mail-chat")
leaveShown == OfConv("part")
acceptInviteDialog ==                         \* from the menu
    /\ Idle /\ Spend("asks")
    /\ AsksInvites
    /\ UNCHANGED <<backend, client, window, dlg, history>>

\* What the request names when the dialog is answered: leaveShown() reads the
\* conversation again, and all about an account but a device's look it up again
Target ==
    IF dlg.idx # 0 /\ dlg.op \notin {"device-add", "device-use"}
    THEN IF dlg.idx \in DOMAIN mAccts THEN mAccts[dlg.idx] ELSE None
    ELSE IF dlg.op = "part" THEN win.conv ELSE dlg.named

AnswerDialog ==
    /\ dlg # NoDialog /\ dlg' = NoDialog
    /\ \/ /\ dlg.op \in {"join", "new-group"}
          /\ \E c \in Convs :
               /\ AcctOf[c] = Target /\ Target \in ToSet(bAccts)
               /\ Opened(c)
               /\ todo' = <<[k |-> "conv", c |-> c]>>
       \/ dlg.op = "part" /\ Target \in bConvs /\ Removed(Target) /\ UNCHANGED todo
       \/ dlg.op \notin {"join", "new-group", "part"}
          /\ UNCHANGED <<bConvs, ring, unread, gotAll, asking, queue, todo, reborn>>
    /\ polling' = IF dlg.op = "mail-chat" THEN polling ELSE "due"
    /\ UNCHANGED <<bAccts, last, waiting, gen, model, mAccts, cgen, batch, invited, window,
                   texts, asked, dropped, budget>>

\* An invitation may go out as a message of ours, in the chat shown or in one
\* with somebody of the channel shown, opened if need be
InviteSent ==
    /\ dlg.op = "invite" /\ dlg' = NoDialog
    /\ \E c \in Convs :
         /\ AcctOf[c] \in ToSet(bAccts) /\ Few(c)
         /\ bConvs' = bConvs \cup {c}
         /\ last' = [last EXCEPT ![c] = @ + 1]
         /\ ring' = [ring EXCEPT ![c] = @ \cup {last'[c]}]
         /\ queue' = queue \o (IF c \in bConvs THEN <<>> ELSE <<Event("conv-new", c, 0)>>)
                           \o <<Event("msg", c, last'[c])>>
    /\ polling' = "due"
    /\ UNCHANGED <<bAccts, unread, gotAll, asking, waiting, gen, model, mAccts, cgen, batch,
                   invited, window, todo, history, budget>>

\* Cancelled, or refused by the backend
DialogEnds ==
    /\ dlg # NoDialog /\ dlg' = NoDialog
    /\ UNCHANGED <<backend, client, window, todo, history, budget>>

-----------------------------------------------------------------------------
\* The constructor, with one conversation there
WinInit ==
    /\ bAccts = AcctList /\ bConvs = {1}
    /\ ring = [c \in Convs |-> {}] /\ last = [c \in Convs |-> 1]
    /\ unread = [c \in Convs |-> 0] /\ gotAll = {} /\ asking = {} /\ waiting = {}
    /\ queue = <<>> /\ gen = 0
    /\ model = Truth /\ mAccts = bAccts /\ cgen = 0
    /\ batch = <<>> /\ polling = "no" /\ invited = FALSE
    /\ win = [acct |-> AcctOf[1], conv |-> 1, rows |-> <<1>>, hi |-> 1,
              lastConv |-> [a \in Accts |-> IF a = AcctOf[1] THEN 1 ELSE None],
              drafts |-> [c \in Convs |-> None], input |-> None,
              log |-> <<>>, notes |-> FALSE, noOlder |-> FALSE]
    /\ pane = FALSE /\ front = TRUE /\ slipped = FALSE /\ dlg = NoDialog /\ todo = <<>>
    /\ texts = <<>> /\ asked = {} /\ dropped = {} /\ reborn = {}
    /\ budget \in Budgets

WinEvents == MsgEvent \/ UnreadEvent \/ ConvNewEvent \/ ConvGoneEvent
          \/ HistoryEvent \/ OlderEvent \/ StateEvent \/ InviteEvent

WinNext ==
    \/ \E c \in Convs : add_message(c) \/ MergesLatest(c) \/ MergesBefore(c)
                        \/ ConvComesOrGoes(c) \/ PickConv(c)
    \/ \E a \in Accts : AccountState(a) \/ PickAccount(a) \/ accountItem(a)
    \/ \E i \in Invites : InviteComes(i) \/ AcceptInvite(i) \/ DeclineInvite(i)
    \/ Restart \/ idle \/ pollNow \/ WinEvents \/ chatEvents
    \/ ToFront \/ ToAccount \/ GoesToConv \/ GoesToAccount \/ InvitesDone
    \/ PaneFocused \/ OtherWindow \/ PgUp \/ cmReload \/ editConfig \/ ConfigReset
    \/ Type \/ sendInput \/ SendRefused \/ cmQuit
    \/ connectDialog \/ disconnectDialog \/ joinDialog \/ inviteDialog
    \/ deviceAddDialog \/ deviceUseDialog \/ newGroupDialog
    \/ groupAddDialog \/ groupRemoveDialog \/ groupRenameDialog
    \/ mailSelectionDialog \/ leaveShown \/ acceptInviteDialog
    \/ AnswerDialog \/ InviteSent \/ DialogEnds

WinSpec == WinInit /\ [][WinNext]_winVars

-----------------------------------------------------------------------------
(* Properties.                                                             *)

\* The messages of c still to be told
ToCome(c) == {ToTell[i].n : i \in Pending(c)}

\* The log is in order, has each message once, and none is missing between the
\* first it shows and the newest, but those still to be told - unless the window
\* is about to read it anew, or the conversation was left and opened again with
\* messages of its former life still to be told.
LogIsRun ==
    LET log == win.log
    IN gen = cgen /\ polling # "reset" /\ log # <<>> /\ win.conv \notin reborn =>
         /\ \A i, j \in DOMAIN log : i < j => log[i] < log[j]
         /\ \A m \in ring[win.conv] : m > Head(log) => m \in ToSet(log) \cup ToCome(win.conv)

\* chatwin.cpp: "Text typed and not sent stays with its conversation when you
\* pick another" - or are taken to another by an event, a dialog, a new
\* backend - and goes nowhere else.
TextStays ==
    \A t \in DOMAIN texts : texts[t].for # None =>
       /\ texts[t].fate = "kept" =>
            IF win.conv = texts[t].for THEN win.input = t ELSE win.drafts[texts[t].for] = t
       /\ texts[t].fate = "sent" => texts[t].to = texts[t].for

\* What is highlighted in the lists is what the chat pane shows and the input
\* line writes to, once it is listed.
HighlightIsShown ==
    win.conv \in ToSet(win.rows) => win.hi = win.conv /\ win.acct = AcctOf[win.conv]

\* The request that follows a dialog is about what the dialog showed.
RightTarget == dlg # NoDialog => Target = dlg.named

\* Once all has been told, the user has been asked about every invitation that
\* is waiting, those that came while others were being answered included - but
\* for those whose event was dropped when everything was read anew.
EveryInviteIsAsked ==
    Idle /\ ~(\E i \in DOMAIN queue : queue[i].t = "invite") => waiting \subseteq asked \cup dropped

\* Once all has been told, a conversation that is looked at is read: whatever
\* brought it in front - the list, Tab, a dialog, an event, a new backend.  Not
\* so talk's classic pane when it takes the focus (cmPaneFocused is handled for
\* the input line and the log, where "Read once you actually look" says the
\* chat pane): what was unread then stays so until something else marks it.
LookedAtIsRead ==
    Idle /\ gen = cgen /\ queue = <<>> /\ Looking /\ ~slipped /\ win.conv # None =>
        unread[win.conv] = 0

\* The lists, the chat pane and a dialog that is up name the same conversation.
PanesAndDialogsAgree == HighlightIsShown /\ RightTarget

\* With everything told, nothing is left waiting for the user unseen.
NothingWaitsUnseen == EveryInviteIsAsked /\ LookedAtIsRead
=============================================================================
