------------------------------ MODULE CalWindow -----------------------------
(***************************************************************************)
(* tvcal's window (tvcal/src/calwin.cpp): the month, the agenda and the    *)
(* to-do list, the dialogs that change an event or a to-do, what other     *)
(* programs ask to add, and the poll that reads all of it again.           *)
(*                                                                         *)
(* The three panes are about one day, `sel`.  The agenda has fetched       *)
(* FetchDays from agLo on and shows ShowDays of them, from the day picked, *)
(* or - when everything is read again - from agLo.  The calendar is in     *)
(* files that the server, Floyd and another tvcal change too.              *)
(*                                                                         *)
(* A day is its number (CalDates).  An event is the set of days it occurs  *)
(* on, a to-do is open or done; events are numbers below those of to-dos.  *)
(***************************************************************************)
EXTENDS CalDates, Lists, FiniteSets, SequencesExt, FiniteSetsExt

CONSTANTS
    Uids, Todos,             \* events, to-dos: numbers
    Reqs,                    \* requests of other programs: numbers, in their files' order
    FirstDay, Targets, Placements,  \* today; days picked; where an event may be
    PendingMax,              \* requests waiting at most
    Budgets                  \* bounds: how often a run may do what, one of these

Bounded == {"moves", "asks", "outside", "polls", "nights", "faults"}
ASSUME ConstantsOK ==
    /\ Uids \cup Todos \cup Reqs \subseteq Nat \ {0} /\ Uids \cap Todos = {}
    /\ IsFiniteSet(Uids)
    /\ FirstDay \in Nat /\ Targets \subseteq Nat /\ Placements \subseteq SUBSET Targets
    /\ PendingMax \in Nat /\ Budgets \subseteq [Bounded -> Nat]

FetchDays == 120
ShowDays == 90
Margin == 30

VARIABLES
    day, ev, todos,          \* today; the events, {} if not there; the to-dos
    files, pend, fired,      \* request files; pending.json; fired.json
    win, pane,               \* the window; "agenda", "todo" or "month" has the focus
    gIncoming,               \* the status line's number
    dlg, inbox,              \* the dialog; incoming(): what is left of its list
    acted,                   \* what a command last acted on, and meant
    scrolled,                \* history: the day was picked in the agenda beyond
                             \* what a new reading shows
    asked, added, unheard,   \* history: requests made; events made of each,
                             \* and of these, with the reply lost
    settled, excused,        \* history: discarded or turned away; seen to by
                             \* others, lost
    told, missed,            \* history: reminders told, how often; replies lost
    budget                   \* what is left of the bounds

store == <<day, ev, todos>>
asking == <<files, pend, gIncoming, inbox, asked, added, unheard, settled, excused>>
reminding == <<fired, told, missed>>
calVars == <<store, win, pane, dlg, acted, scrolled, asking, reminding, budget>>

None == 0
NoDialog == [op |-> "none", uid |-> None, named |-> None]
NoInbox == <<None>>
Calls == {"agenda", "todos"}                  \* the calls a refresh makes
Spend(S) == /\ budget' = [k \in Bounded |-> budget[k] - (IF k \in S THEN 1 ELSE 0)]
            /\ \A k \in S : budget[k] > 0
Cost(up) == IF up = Calls THEN {} ELSE {"faults"}
Ups == {Calls, Calls \ {"agenda"}, Calls \ {"todos"}}
Idle == dlg = NoDialog /\ inbox = NoInbox
Sorted(S) == [i \in 1 .. Cardinality(S) |-> CHOOSE x \in S : Cardinality({y \in S : y < x}) = i - 1]
Month(d) == LET t == civilFromDays(d) IN <<t.y, t.m>>

-----------------------------------------------------------------------------
(* The panes, as they would be after each function.  `e` and `t` are the   *)
(* events and to-dos then, `up` the calls that are answered.               *)

Row(kind, d, u) == [kind |-> kind, date |-> d, uid |-> u]
Current(w) == w.at \in DOMAIN w.rows
eventShown(w) == IF Current(w) THEN w.rows[w.at].uid ELSE None
todoShown(w) == IF w.tat \in DOMAIN w.items THEN w.items[w.tat].uid ELSE None

fetchAgenda(w, from, e, up) ==
    [w EXCEPT !.lo = from,
              !.occ = IF "agenda" \notin up THEN {}
                      ELSE UNION {{<<d, u>> : d \in {x \in e[u] : from <= x /\ x <= from + FetchDays}}
                                  : u \in Uids}]

\* Of a day that has something, the day picked and today: a heading, and the
\* events or that there are none
agendaDay(occ, d) ==
    LET on == Sorted({u \in Uids : <<d, u>> \in occ})
    IN <<Row("head", d, None)>>
       \o (IF on = <<>> THEN <<Row("none", d, None)>>
           ELSE [i \in DOMAIN on |-> Row("event", d, on[i])])
agendaRows(occ, days) ==
    LET rows[i \in 0 .. Len(days)] ==
            IF i = 0 THEN <<>> ELSE rows[i - 1] \o agendaDay(occ, days[i])
    IN rows[Len(days)]

\* buildAgenda(): the highlight on the picked day's heading, or the event `keep`
\* on it
buildAgenda(w, from, keep) ==
    LET last == IF w.lo + FetchDays < from + ShowDays THEN w.lo + FetchDays ELSE from + ShowDays
        shown == {d \in {o[1] : o \in w.occ} \cup {w.sel, w.today} : from <= d /\ d <= last}
        rows == agendaRows(w.occ, Sorted(shown))
        kept == {k \in DOMAIN rows : rows[k] = Row("event", w.sel, keep)}
        heads == {k \in DOMAIN rows : rows[k] = Row("head", w.sel, None)}
    IN [w EXCEPT !.rows = rows,
                 !.at = IF kept # {} THEN Min(kept) ELSE IF heads # {} THEN Min(heads) ELSE 1]

refreshGrid(w) == [w EXCEPT !.grid = Month(w.sel)]

\* refreshTodos(): the open ones first; the highlight stays on its to-do
refreshTodos(w, t, up) ==
    LET item(u) == [uid |-> u, done |-> t[u] = "done"]
        open == Sorted({u \in Todos : t[u] = "open"})
        done == IF w.showDone THEN Sorted({u \in Todos : t[u] = "done"}) ELSE <<>>
        listed == IF "todos" \in up THEN open \o done ELSE <<>>
        at == {i \in DOMAIN listed : listed[i] = todoShown(w)}
    IN [w EXCEPT !.items = [i \in DOMAIN listed |-> item(listed[i])],
                 !.tat = IF at = {} THEN 1 ELSE Max(at)]

refreshAll(w, top, e, t, up) ==
    LET from == IF top THEN w.sel ELSE w.lo
        fetched == fetchAgenda([w EXCEPT !.today = day], from, e, up)
    IN refreshTodos(refreshGrid(buildAgenda(fetched, from, eventShown(w))), t, up)

\* setSel(): the agenda is built anew from the day, fetched anew where it would
\* run out within Margin days - unless the user moved in the agenda itself
setSelLate(w, d, fromAgenda, up) ==           \* mutant: fetched only when outside
    LET to == [w EXCEPT !.sel = d, !.today = day]
        have == IF d < w.lo \/ w.lo + FetchDays < d THEN fetchAgenda(to, d, ev, up) ELSE to
        made == IF fromAgenda THEN to ELSE buildAgenda(have, d, None)
    IN IF Month(d) # Month(w.sel) THEN refreshGrid(made) ELSE made
setSel(w, d, fromAgenda, up) ==
    LET to == [w EXCEPT !.sel = d, !.today = day]
        have == IF d < w.lo \/ w.lo + FetchDays < d + Margin THEN fetchAgenda(to, d, ev, up)
                ELSE to
        made == IF fromAgenda THEN to ELSE buildAgenda(have, d, None)
    IN IF Month(d) # Month(w.sel) THEN refreshGrid(made) ELSE made

\* What a command ends with
Refreshed(e, up) ==
    Spend(Cost(up)) /\ win' = refreshAll(win, FALSE, e, todos, up)

-----------------------------------------------------------------------------
(* The user moves about.                                                   *)

Picks(d) ==
    /\ Idle
    /\ \E up \in Ups : /\ Spend({"moves"} \cup Cost(up))
                       /\ win' = setSel(win, d, FALSE, up)
    /\ scrolled' = FALSE
    /\ UNCHANGED <<store, pane, dlg, acted, asking, reminding>>

moveDays == \E n \in {-7, -1, 1, 7} : Picks(win.sel + n)
\* ... down to year 0 (bound), before which ymdAddMonths() has no month's length
moveMonths ==
    \E n \in {-1, 1} :
       LET t == civilFromDays(win.sel)
       IN t.y * 12 + (t.m - 1) + n >= 0 /\ Picks(daysFromCivil(ymdAddMonths(t, n)))
goToday == Picks(day)
clicked ==
    LET first == daysFromCivil(gridStart(civilFromDays(win.sel), TRUE))
    IN \E d \in Targets : d \in first .. first + 41 /\ Picks(d)
gotoDate == \E d \in Targets : Picks(d)

AgendaMoved ==
    /\ Idle /\ Spend({"moves"})
    /\ \E k \in DOMAIN win.rows \ {win.at} :
         LET d == win.rows[k].date
         IN /\ win' = setSel([win EXCEPT !.at = k], d, TRUE, Calls)
            /\ scrolled' = (d > win.lo + ShowDays)
    /\ UNCHANGED <<store, pane, dlg, acted, asking, reminding>>
TodoMoved ==
    /\ Idle /\ \E k \in DOMAIN win.items \ {win.tat} : win' = [win EXCEPT !.tat = k]
    /\ Spend({"moves"})
    /\ UNCHANGED <<store, pane, dlg, acted, scrolled, asking, reminding>>
focusPane ==
    /\ Idle /\ pane' \in {"month", "agenda", "todo"} \ {pane} /\ Spend({"moves"})
    /\ UNCHANGED <<store, win, dlg, acted, scrolled, asking, reminding>>
setShowDone ==
    /\ Idle
    /\ \E up \in Ups \ {Calls \ {"agenda"}} :
         /\ Spend({"moves"} \cup Cost(up))
         /\ win' = refreshTodos([win EXCEPT !.showDone = ~@], todos, up)
    /\ UNCHANGED <<store, pane, dlg, acted, scrolled, asking, reminding>>

-----------------------------------------------------------------------------
(* The dialogs.  What is edited, removed or shared is fixed when it is     *)
(* asked about, but for deleteTodo(), which looks at its list again.       *)

Asks(op, u) ==
    /\ Idle /\ Spend({"asks"})
    /\ dlg' = [op |-> op, uid |-> u, named |-> u]
    /\ UNCHANGED <<store, win, pane, acted, scrolled, asking, reminding>>

newEvent == Asks("new event", None)
newTodo == Asks("new to-do", None)
editEvent == eventShown(win) # None /\ ev[eventShown(win)] # {} /\ Asks("edit", eventShown(win))
deleteEvent == eventShown(win) # None /\ Asks("rm", eventShown(win))
editTodo == todoShown(win) # None /\ todos[todoShown(win)] # "none"
            /\ Asks("edit to-do", todoShown(win))
deleteTodo == todoShown(win) # None /\ Asks("rm to-do", todoShown(win))

\* shareTarget(): the to-do if that pane has the focus, else the event shown
shareTarget == IF pane = "todo" /\ todoShown(win) # None THEN todoShown(win) ELSE eventShown(win)
mailInvite == shareTarget # None /\ Asks("mail", shareTarget)
shareInChat ==
    /\ Idle /\ shareTarget # None /\ Spend({"asks"})
    /\ acted' = [meant |-> shareTarget, got |-> shareTarget]
    /\ UNCHANGED <<store, win, pane, dlg, scrolled, asking, reminding>>

Target == IF dlg.op = "rm to-do" THEN todoShown(win) ELSE dlg.uid
There(u) == IF u \in Uids THEN ev[u] # {} ELSE u \in Todos /\ todos[u] # "none"
Answers(ops) == dlg.op \in ops /\ dlg' = NoDialog

\* add-event, n times carried out: each time a new event
AddsEvents(n, days) ==
    \E us \in kSubset(n, {u \in Uids : ev[u] = {}}) :
       ev' = [u \in Uids |-> IF u \in us THEN days ELSE ev[u]]

\* OK, Delete or Yes.  The backend does it, or does not: what is gone is an
\* error, after which deletions alone read everything again
AnswerNew ==
    /\ Answers({"new event"})
    /\ \E n \in {1, 2}, d \in Targets, up \in Ups :
         /\ AddsEvents(n, {d})
         /\ Spend(Cost(up) \cup IF n = 1 THEN {} ELSE {"faults"})
         /\ win' = refreshAll([win EXCEPT !.sel = d], TRUE, ev', todos, up)
    /\ scrolled' = FALSE
    /\ UNCHANGED <<day, todos, pane, acted, asking, reminding>>
AnswerEdit ==
    /\ Answers({"edit"}) /\ There(Target)
    /\ acted' = [meant |-> dlg.named, got |-> Target]
    /\ \E p \in Placements, up \in Ups : /\ ev' = [ev EXCEPT ![Target] = p]
                                         /\ Refreshed(ev', up)
    /\ UNCHANGED <<day, todos, pane, scrolled, asking, reminding>>
AnswerEditWithDelete ==
    /\ dlg.op \in {"edit", "edit to-do"}
    /\ LET u == IF dlg.op = "edit" THEN eventShown(win) ELSE todoShown(win)
       IN dlg' = [op |-> IF dlg.op = "edit" THEN "rm" ELSE "rm to-do", uid |-> u, named |-> u]
    /\ UNCHANGED <<store, win, pane, acted, scrolled, asking, reminding, budget>>
AnswerRemove ==
    /\ Answers({"rm"})
    /\ acted' = [meant |-> dlg.named, got |-> Target]
    /\ ev' = [ev EXCEPT ![Target] = {}]
    /\ \E up \in Ups : Refreshed(ev', up)
    /\ UNCHANGED <<day, todos, pane, scrolled, asking, reminding>>
AnswerNewTodo ==
    /\ Answers({"new to-do"})
    /\ \E u \in Todos : todos[u] = "none" /\ todos' = [todos EXCEPT ![u] = "open"]
    /\ win' = refreshGrid(refreshTodos(win, todos', Calls))
    /\ UNCHANGED <<day, ev, pane, acted, scrolled, asking, reminding, budget>>
AnswerRemoveTodo ==
    /\ Answers({"rm to-do"}) /\ Target # None
    /\ acted' = [meant |-> dlg.named, got |-> Target]
    /\ todos' = [todos EXCEPT ![Target] = "none"]
    /\ win' = refreshTodos(win, todos', Calls)
    /\ UNCHANGED <<day, ev, pane, scrolled, asking, reminding, budget>>
AnswerOther ==
    /\ Answers({"mail", "edit to-do"})        \* such an edit changes the text only
    /\ acted' = [meant |-> dlg.named, got |-> Target]
    /\ win' = IF dlg.op = "mail" THEN win ELSE refreshTodos(win, todos, Calls)
    /\ UNCHANGED <<store, pane, scrolled, asking, reminding, budget>>
\* Cancel, No, or the backend has refused
AnswerNo ==
    /\ dlg # NoDialog /\ dlg' = NoDialog
    /\ UNCHANGED <<store, win, pane, acted, scrolled, asking, reminding, budget>>

toggleTodo ==
    /\ Idle /\ todoShown(win) # None /\ Spend({"asks"})
    /\ LET u == todoShown(win)
       IN todos' = IF todos[u] = "none" THEN todos
                   ELSE [todos EXCEPT ![u] = IF win.items[win.tat].done THEN "open" ELSE "done"]
    /\ win' = refreshTodos(win, todos', Calls)
    /\ UNCHANGED <<day, ev, pane, dlg, acted, scrolled, asking, reminding>>

\* An import, or Floyd, from this program: read again at once
Changes ==
    \/ \E u \in Uids, p \in Placements \cup {{}} : ev' = [ev EXCEPT ![u] = p] /\ UNCHANGED todos
    \/ \E u \in Todos, s \in {"none", "open", "done"} :
         todos' = [todos EXCEPT ![u] = s] /\ UNCHANGED ev
ImportOrFloyd ==
    /\ Idle
    /\ \E up \in Ups : /\ Spend({"asks"} \cup Cost(up)) /\ Changes
                       /\ win' = refreshAll(win, FALSE, ev', todos', up)
    /\ UNCHANGED <<day, pane, dlg, acted, scrolled, asking, reminding>>

\* Anybody else's change is seen when the window next reads
OthersChange ==
    /\ Spend({"outside"}) /\ Changes
    /\ UNCHANGED <<day, win, pane, dlg, acted, scrolled, asking, reminding>>
Midnight ==
    /\ Spend({"nights"}) /\ day' = day + 1
    /\ UNCHANGED <<ev, todos, win, pane, dlg, acted, scrolled, asking, reminding>>

-----------------------------------------------------------------------------
(* Requests of other programs: files, taken into a list when polled for,   *)
(* gone through in a loop of dialogs.                                      *)

OtherAsks ==
    /\ \E r \in Reqs \ asked : files' = files \cup {r} /\ asked' = asked \cup {r}
    /\ Spend({"outside"})
    /\ UNCHANGED <<store, win, pane, dlg, acted, scrolled, pend, gIncoming, inbox,
                   added, unheard, settled, excused, reminding>>

\* requests_once() of the backend: the files are removed as they are read, the
\* list written once; beyond PendingMax they are turned away with a notice
TakesIn ==
    LET new == Sorted(files)
        room == PendingMax - Len(pend)
        fit == SubSeq(new, 1, IF room < Len(new) THEN room ELSE Len(new))
    IN /\ pend' = pend \o fit
       /\ settled' = settled \cup (files \ ToSet(fit))
       /\ files' = {} /\ UNCHANGED excused
CrashesTakingIn ==
    /\ files # {} /\ files' = {} /\ excused' = excused \cup files
    /\ UNCHANGED <<pend, settled>>

\* Another tvcal has it answered
AnotherAnswers ==
    /\ \E r \in ToSet(pend) :
         /\ pend' = Keep(pend, Reqs \ {r})
         /\ excused' = excused \cup {r}
    /\ Spend({"outside"})
    /\ UNCHANGED <<asked, store, win, pane, dlg, acted, scrolled, files, gIncoming,
                   inbox, added, unheard, settled, reminding>>

incoming ==
    /\ Idle /\ pend # <<>> /\ Spend({"asks"})
    /\ inbox' = pend
    /\ UNCHANGED <<asked, store, win, pane, dlg, acted, scrolled, files, pend,
                   gIncoming, added, unheard, settled, excused, reminding>>

Req == Head(inbox)
Open == inbox # NoInbox /\ inbox # <<>> /\ Req \in ToSet(pend)
Dropped(ok) == pend' = IF ok THEN Keep(pend, Reqs \ {Req}) ELSE pend
UndroppedCost(ok) == IF ok THEN {} ELSE {"faults"}

IncomingGone ==                               \* pending-get: skipped without a word
    /\ inbox # NoInbox /\ inbox # <<>> /\ Req \notin ToSet(pend)
    /\ inbox' = Tail(inbox)
    /\ UNCHANGED <<asked, store, win, pane, dlg, acted, scrolled, files, pend,
                   gIncoming, added, unheard, settled, excused, reminding, budget>>

\* Add: the event made, then the request dropped.  The call is written again when
\* its reply is lost, and makes another event then
IncomingAdded ==
    /\ Open
    /\ \E n \in {1, 2}, p \in Placements, ok \in BOOLEAN :
         /\ AddsEvents(n, p)
         /\ Dropped(ok) /\ Spend(IF n = 1 /\ ok THEN {} ELSE {"faults"})
         /\ added' = [added EXCEPT ![Req] = @ + n]
         /\ unheard' = [unheard EXCEPT ![Req] = @ + (n - 1)]
         /\ excused' = IF ok THEN excused ELSE excused \cup {Req}
    /\ inbox' = Tail(inbox)
    /\ UNCHANGED <<asked, day, todos, win, pane, dlg, acted, scrolled, files, gIncoming, settled,
                   reminding>>
\* ... or with no reply to either: kept, like what was refused, though it was made
IncomingUnheard ==
    /\ Open /\ Spend({"faults"})
    /\ \E n \in {1, 2}, p \in Placements :
         /\ AddsEvents(n, p)
         /\ added' = [added EXCEPT ![Req] = @ + n]
         /\ unheard' = [unheard EXCEPT ![Req] = @ + n]
    /\ inbox' \in {Tail(inbox), <<>>}
    /\ UNCHANGED <<asked, day, todos, win, pane, dlg, acted, scrolled, files, pend, gIncoming,
                   settled, excused, reminding>>
\* ... or refused, and kept for another time, like Skip; then perhaps no more
IncomingKeptDrops ==                          \* mutant: dropped all the same
    /\ Open
    /\ inbox' \in {Tail(inbox), <<>>}
    /\ Dropped(TRUE)
    /\ UNCHANGED <<asked, store, win, pane, dlg, acted, scrolled, files, gIncoming,
                   added, unheard, settled, excused, reminding, budget>>
IncomingKept ==
    /\ Open
    /\ inbox' \in {Tail(inbox), <<>>}
    /\ UNCHANGED <<asked, store, win, pane, dlg, acted, scrolled, files, pend,
                   gIncoming, added, unheard, settled, excused, reminding, budget>>
IncomingDiscarded ==
    /\ Open
    /\ \E ok \in BOOLEAN : Dropped(ok) /\ Spend(UndroppedCost(ok))
    /\ settled' = settled \cup {Req}
    /\ inbox' = Tail(inbox)
    /\ UNCHANGED <<asked, store, win, pane, dlg, acted, scrolled, files, gIncoming,
                   added, unheard, excused, reminding>>
IncomingEnds ==
    /\ inbox = <<>> /\ inbox' = NoInbox
    /\ gIncoming' = Len(pend)                 \* incomingRefresh()
    /\ \E up \in Ups : Refreshed(ev, up)
    /\ UNCHANGED <<asked, store, pane, dlg, acted, scrolled, files, pend, added,
                   unheard, settled, excused, reminding>>

-----------------------------------------------------------------------------
(* The poll, when no menu and no dialog is up.                             *)

\* What `due` reports: today's events and open to-dos, each once a day
Due == {<<u, day>> : u \in {x \in Uids : day \in ev[x]} \cup {x \in Todos : todos[x] = "open"}}

remindersForget(heard) ==                     \* mutant: fired.json is not written
    /\ told' = [k \in DOMAIN told \cup Due |->
                  (IF k \in DOMAIN told THEN told[k] ELSE 0)
                  + (IF k \in Due \ fired THEN 1 ELSE 0)]
    /\ UNCHANGED <<fired, missed>>
\* reminders(): marked before the reply is sent
reminders(heard) ==
    LET new == Due \ fired
    IN /\ fired' = fired \cup new
       /\ told' = IF heard THEN [k \in DOMAIN told \cup new |->
                                   (IF k \in DOMAIN told THEN told[k] ELSE 0)
                                   + (IF k \in new THEN 1 ELSE 0)]
                  ELSE told
       /\ missed' = IF heard THEN missed ELSE missed \cup new

\* calPoll(): each part when its time has come
calPollAnyTime ==                             \* mutant: under dialogs too
    /\ inbox = NoInbox
    /\ Spend({"polls"}) /\ win' = refreshAll(win, FALSE, ev, todos, Calls)
    /\ UNCHANGED <<store, pane, dlg, acted, scrolled, asking, reminding>>
calPoll ==
    /\ Idle
    /\ \E times \in SUBSET {"requests", "due", "refresh"} \ {{}} :
       \E what \in {"all", "agenda", "todos", "requests", "due"} :
         LET up == Calls \ {what}
         IN /\ Spend({"polls"} \cup (IF what = "all" THEN {} ELSE {"faults"}))
            /\ what = "all" \/ what \in times \/ (what \in Calls /\ "refresh" \in times)
            /\ IF "requests" \notin times THEN UNCHANGED <<files, pend, gIncoming, settled, excused>>
               ELSE IF what = "requests"
                    THEN (CrashesTakingIn \/ TakesIn) /\ UNCHANGED gIncoming
               ELSE /\ TakesIn
                    /\ gIncoming' = IF files = {} THEN gIncoming ELSE Len(pend')
            /\ IF "due" \in times THEN reminders(what # "due") ELSE UNCHANGED reminding
            /\ win' = IF "refresh" \in times THEN refreshAll(win, FALSE, ev, todos, up) ELSE win
    /\ UNCHANGED <<store, pane, dlg, acted, scrolled, inbox, asked, added, unheard>>

\* The constructor and calOpenWindow()
CalInit ==
    /\ day = FirstDay
    /\ \E p \in Placements : ev = [u \in Uids |-> IF u = Min(Uids) THEN p ELSE {}]
    /\ todos = [u \in Todos |-> "open"]
    /\ files = {} /\ pend = <<>>
    /\ win = refreshAll([sel |-> day, today |-> day, lo |-> day, occ |-> {}, rows |-> <<>>,
                         at |-> 1, items |-> <<>>, tat |-> 1, showDone |-> FALSE,
                         grid |-> <<0, 0>>], TRUE, ev, todos, Calls)
    /\ fired = Due /\ told = [k \in Due |-> 1] /\ missed = {}
    /\ pane = "month" /\ gIncoming = 0 /\ dlg = NoDialog /\ inbox = NoInbox
    /\ acted = [meant |-> None, got |-> None] /\ scrolled = FALSE
    /\ asked = {} /\ added = [r \in Reqs |-> 0] /\ unheard = [r \in Reqs |-> 0]
    /\ settled = {} /\ excused = {}
    /\ budget \in Budgets

CalNext ==
    \/ moveDays \/ moveMonths \/ goToday \/ clicked \/ gotoDate
    \/ AgendaMoved \/ TodoMoved \/ focusPane \/ setShowDone
    \/ newEvent \/ newTodo \/ editEvent \/ deleteEvent \/ editTodo \/ deleteTodo
    \/ mailInvite \/ shareInChat \/ toggleTodo \/ ImportOrFloyd
    \/ AnswerNew \/ AnswerEdit \/ AnswerEditWithDelete \/ AnswerRemove
    \/ AnswerNewTodo \/ AnswerRemoveTodo \/ AnswerOther \/ AnswerNo
    \/ OthersChange \/ Midnight \/ OtherAsks \/ AnotherAnswers
    \/ incoming \/ IncomingGone \/ IncomingAdded \/ IncomingUnheard \/ IncomingKept
    \/ IncomingDiscarded \/ IncomingEnds \/ calPoll

CalSpec == CalInit /\ [][CalNext]_calVars

-----------------------------------------------------------------------------
(* Properties.                                                             *)

\* The three panes are about the same day: the month is that of the day picked,
\* and the highlight of the agenda is on it.  Reading everything again loses
\* the highlight, and may leave the agenda empty, when the day was picked in the
\* agenda further on than a new reading shows.
PanesAgree ==
    /\ win.grid = Month(win.sel)
    /\ scrolled \/ (Current(win) /\ win.rows[win.at].date = win.sel)

\* What is edited, removed, mailed or shared is what the dialog named.
RightItem == acted.got = acted.meant

\* A request is in its file, waiting, made an event of, or was refused by somebody
\* - but for a crash of the backend as it takes it in, and for one whose removal
\* from the list failed, or that another tvcal has seen to, after it was added.
\* One event is made of it, and one more for every reply to the Add that was lost:
\* the call is repeated, or the request kept, though the event was made.
NoRequestLostOrTwice ==
    \A r \in Reqs \ excused :
       /\ added[r] <= unheard[r] + 1
       /\ added[r] > unheard[r] => r \notin ToSet(pend) \cup files
       /\ r \in asked => r \in files \cup ToSet(pend) \cup settled \/ added[r] > unheard[r]

\* A reminder marked as given was given, once, unless the reply was lost.
RemindedOnce ==
    /\ \A k \in DOMAIN told : told[k] = 1
    /\ fired \subseteq DOMAIN told \cup missed

\* The panes are about one day, and a dialog's answer about the item it named.
PanesAndDialogsAreTrue == PanesAgree /\ RightItem

\* What others ask and what time brings is put to the user, once - with what
\* NoRequestLostOrTwice says of lost replies.
AskedAndRemindedOnce == NoRequestLostOrTwice /\ RemindedOnce
=============================================================================
