----------------------------- MODULE MailWindow -----------------------------
(***************************************************************************)
(* tvmail's three-pane window (tvmail/src/mailwin.cpp) and the commands of *)
(* its menus that act on the highlighted message (app.cpp).                *)
(*                                                                         *)
(* The window holds a copy of one mailbox, gAll, and shows a view of it,   *)
(* gRows.  A message has no name: it is the n-th of its mailbox, and every *)
(* command to the backend says so, although the mailbox is anybody's: mail *)
(* arrives, another client reads and removes, the pull that runs beside    *)
(* the program files spam.  A question stays open while all that goes on.  *)
(*                                                                         *)
(* Two mailboxes are enough: the inbox and the trash.  Of the four orders  *)
(* two are kept, the mailbox's own and the one that depends on a flag; the *)
(* filter is one text, found in the messages of Matching.                  *)
(***************************************************************************)
EXTENDS Integers, Sequences, FiniteSets, SequencesExt, Lists

CONSTANTS
    Msgs, Matching, Spam,  \* messages; those the filter finds; those the pull files
    Budgets      \* bounds: how often a run may do what, one of these

Bounded == {"outside", "faults", "pulls", "marks", "views", "asks"}
ASSUME ConstantsOK ==
    /\ Matching \subseteq Msgs /\ Spam \subseteq Msgs
    /\ Budgets \subseteq [Bounded -> Nat]

VARIABLES
    box, unread,             \* the mailboxes, and the flags, as they are
    gMbox, gAll,             \* the window's folder and what was listed of it
    gFilter, gSort, gSortRev,
    gRows, focused,          \* indices into gAll; the highlighted row
    body,                    \* the message in the body pane
    gUnread,                 \* the folder pane's numbers, -1 unknown
    ask,                     \* the question on the screen
    handed,                  \* the message a command last took, and meant
    pull,                    \* "no", "runs", "exited" (nobody has reaped it)
    unreadBefore, lastUnread,
    shifted,                 \* history: somebody else removed a message since
                             \* the list was read
    fresh, became,           \* history: arrived, become unread since a pull
    lowered, excused,        \* history: one was read or removed; a reply missed
    arrived,                 \* the messages there have been
    budget                   \* what is left of the bounds

mailbox == <<box, unread, arrived>>
list == <<gMbox, gAll, gFilter, gSort, gSortRev, gRows, focused, body, gUnread>>
pulling == <<pull, unreadBefore, lastUnread>>
history == <<shifted, fresh, became, lowered, excused>>
mailVars == <<mailbox, list, ask, handed, pulling, history, budget>>

Folders == {"spool", "trash"}
Nothing == [op |-> "none"]
NoMsg == "no message"
Other(f) == IF f = "spool" THEN "trash" ELSE "spool"
NewIn(b, u) == Cardinality({i \in DOMAIN b : b[i] \in u})
NewRows(all) == Cardinality({i \in DOMAIN all : all[i].new})
Ids(all) == [i \in DOMAIN all |-> all[i].id]
Spend(what) == budget[what] > 0 /\ budget' = [budget EXCEPT ![what] = @ - 1]

-----------------------------------------------------------------------------
(* The list.                                                               *)

\* applyView(): the filter, then a stable sort, then the reversal
applyView(all, filter, sort, rev) ==
    LET places == [i \in DOMAIN all |-> i]
        shown == Keep(places, {i \in DOMAIN all : filter => all[i].id \in Matching})
        first == Keep(shown, {i \in DOMAIN all : all[i].new})
        rest == Keep(shown, {i \in DOMAIN all : ~all[i].new})
        rows == IF sort = "unread" THEN first \o rest ELSE shown
    IN IF rev THEN Reverse(rows) ELSE rows

\* startRow(): the newest message in mailbox order, else the first row
startRow(rows, sort) ==
    IF sort # "date" \/ rows = <<>> THEN 1
    ELSE CHOOSE k \in DOMAIN rows : \A j \in DOMAIN rows : rows[j] <= rows[k]

Clamp(k, rows) == IF k > Len(rows) THEN (IF rows = <<>> THEN 1 ELSE Len(rows)) ELSE k

\* The row of gAll's index i, or `otherwise`
RowOf(i, rows, otherwise) ==
    IF \E k \in DOMAIN rows : rows[k] = i THEN CHOOSE k \in DOMAIN rows : rows[k] = i
    ELSE otherwise

\* loadContent(): the body is fetched by its place in the mailbox as it is now
loadContent(b, rows, k) ==
    IF k \notin DOMAIN rows THEN NoMsg
    ELSE IF rows[k] \in DOMAIN b THEN b[rows[k]] ELSE NoMsg

\* viewChanged(): the view is made anew of the same list
viewChangedOnly(all, filter, sort, rev, resetSel) ==   \* mutant: the body is left
    /\ gRows' = applyView(all, filter, sort, rev)
    /\ focused' = IF ~resetSel /\ focused \in DOMAIN gRows
                  THEN RowOf(gRows[focused], gRows', startRow(gRows', sort))
                  ELSE startRow(gRows', sort)
    /\ UNCHANGED body
viewChangedToStart(all, filter, sort, rev, resetSel) ==   \* mutant: as for a filter
    /\ gRows' = applyView(all, filter, sort, rev)
    /\ focused' = startRow(gRows', sort)
    /\ body' = loadContent(box[gMbox], gRows', focused')
viewChanged(all, filter, sort, rev, resetSel) ==
    /\ gRows' = applyView(all, filter, sort, rev)
    /\ focused' = IF ~resetSel /\ focused \in DOMAIN gRows
                  THEN RowOf(gRows[focused], gRows', startRow(gRows', sort))
                  ELSE startRow(gRows', sort)
    /\ body' = loadContent(box[gMbox], gRows', focused')

\* loadFolder(): read the list again; `b` and `u` are the mailboxes then.  A
\* backend that does not answer lists nothing.
loadFolder(f, filter, keep, b, u, ok, counts) ==
    /\ gMbox' = f /\ gFilter' = filter
    /\ gAll' = IF ok THEN [i \in DOMAIN b[f] |-> [id |-> b[f][i], new |-> b[f][i] \in u]]
               ELSE <<>>
    /\ gRows' = applyView(gAll', filter, gSort, gSortRev)
    /\ focused' = Clamp(IF keep /\ focused \in DOMAIN gRows
                        THEN RowOf(gRows[focused], gRows', focused)
                        ELSE startRow(gRows', gSort), gRows')
    /\ body' = loadContent(b[f], gRows', focused')
    /\ gUnread' = [counts EXCEPT ![f] = NewRows(gAll')]
    /\ shifted' = FALSE
    /\ excused' = (excused \/ ~ok)
    /\ UNCHANGED <<gSort, gSortRev>>

\* loadCounts()
loadCounts(b, u, ok) == [f \in Folders |-> IF ok THEN NewIn(b[f], u) ELSE -1]

\* reloadFolder(), mailReload(): the same folder, staying on the same message
reloadFolder(b, u, ok) == loadFolder(gMbox, gFilter, TRUE, b, u, ok, loadCounts(b, u, ok))

Answers(ok) == IF ok THEN UNCHANGED budget ELSE Spend("faults")

cmFolderPicked ==
    /\ ask = Nothing
    /\ \E ok \in BOOLEAN :
         /\ loadFolder(Other(gMbox), FALSE, FALSE, box, unread, ok, gUnread)
         /\ Answers(ok)
    /\ UNCHANGED <<mailbox, ask, handed, pulling, fresh, became, lowered>>

cmMsgPicked ==
    /\ ask = Nothing
    /\ \E k \in DOMAIN gRows \ {focused} :
         focused' = k /\ body' = loadContent(box[gMbox], gRows, k)
    /\ UNCHANGED <<mailbox, gMbox, gAll, gFilter, gSort, gSortRev, gRows, gUnread,
                   ask, handed, pulling, history, budget>>

\* filterKey(), cmClearFilter
cmFilterChanged ==
    /\ ask = Nothing /\ Spend("views")
    /\ gFilter' = ~gFilter
    /\ viewChanged(gAll, gFilter', gSort, gSortRev, TRUE)
    /\ UNCHANGED <<mailbox, gMbox, gAll, gSort, gSortRev, gUnread, ask, handed, pulling, history>>

\* The sort commands: the same key again turns the order round
cmSort ==
    /\ ask = Nothing /\ Spend("views")
    /\ \E k \in {"date", "unread"} :
         /\ gSort' = k
         /\ gSortRev' = IF k = gSort THEN ~gSortRev ELSE FALSE
         /\ viewChanged(gAll, gFilter, k, gSortRev', FALSE)
    /\ UNCHANGED <<mailbox, gMbox, gAll, gFilter, gUnread, ask, handed, pulling, history>>

cmReload ==
    /\ ask = Nothing
    /\ \E ok \in BOOLEAN : reloadFolder(box, unread, ok) /\ Answers(ok)
    /\ UNCHANGED <<mailbox, ask, handed, pulling, fresh, became, lowered>>

\* The flags of the real message at place i
Marked(i, read) ==
    IF i \notin DOMAIN box[gMbox] THEN unread
    ELSE IF read THEN unread \ {box[gMbox][i]} ELSE unread \cup {box[gMbox][i]}

\* markFocused(): the body pane has been entered, or Mark read, Mark unread.
\* The mark may miss; what is shown is changed all the same.
markFocusedOnly(read) ==                      \* mutant: the numbers are forgotten
    /\ ask = Nothing /\ Spend("marks")
    /\ focused \in DOMAIN gRows /\ gAll[gRows[focused]].new = read
    /\ unread' = Marked(gRows[focused], read)
    /\ gAll' = [gAll EXCEPT ![gRows[focused]].new = ~read]
    /\ UNCHANGED <<box, arrived, gMbox, gFilter, gSort, gSortRev, gRows, focused, body, gUnread,
                   ask, handed, pulling, history>>
markFocused(read) ==
    /\ ask = Nothing /\ Spend("marks")
    /\ focused \in DOMAIN gRows
    /\ LET i == gRows[focused]
           hit == i \in DOMAIN box[gMbox] /\ box[gMbox][i] = gAll[i].id
       IN /\ gAll[i].new = read
          /\ unread' = Marked(i, read)
          /\ gAll' = [gAll EXCEPT ![i].new = ~read]
          /\ gUnread' = IF gUnread[gMbox] < 0 THEN gUnread
                        ELSE [gUnread EXCEPT ![gMbox] = IF read /\ @ > 0 THEN @ - 1
                                                        ELSE IF read THEN 0 ELSE @ + 1]
          /\ IF gSort = "unread" THEN viewChanged(gAll', gFilter, gSort, gSortRev, FALSE)
                                 ELSE UNCHANGED <<gRows, focused, body>>
          /\ excused' = (excused \/ ~hit)
          /\ became' = IF gMbox = "spool" THEN became \cup (unread' \ unread) ELSE became
          /\ lowered' = (lowered \/ unread' # unread)
    /\ UNCHANGED <<box, arrived, gMbox, gFilter, gSort, gSortRev, ask, handed, pulling, shifted, fresh>>

-----------------------------------------------------------------------------
(* Commands on the highlighted message.                                    *)

\* gRows[row].idx, by which the backend is told which one
IndexIsRow == focused                         \* mutant: the row's own number
Index == gRows[focused]

Took(op, i, id, sure) ==
    [op |-> op, meant |-> id, sure |-> sure,
     got |-> IF i \in DOMAIN box[gMbox] THEN box[gMbox][i] ELSE NoMsg]

\* The whole message, asked of the backend: into a window, into a reply, into
\* a request for tvchat or tvcal
Fetch(op) ==
    /\ ask = Nothing /\ focused \in DOMAIN gRows /\ Spend("asks")
    /\ handed' = Took(op, Index, gAll[gRows[focused]].id, ~shifted)
    /\ UNCHANGED <<mailbox, list, ask, pulling, history>>
viewSource == Fetch("source")
viewParts == Fetch("parts")
replyOrCompose == Fetch("reply")
forwardMsg == Fetch("forward")
chatWithSender == Fetch("chat")
openChatInvite == Fetch("invite")
eventToCalendar == Fetch("event")

\* What the list itself tells of it: sender and subject
FromList(op) ==
    /\ ask = Nothing /\ focused \in DOMAIN gRows /\ Spend("asks")
    /\ handed' = [op |-> op, meant |-> gAll[gRows[focused]].id, sure |-> TRUE,
                  got |-> gAll[Index].id]
    /\ UNCHANGED <<mailbox, list, ask, pulling, history>>
shareInChat == FromList("share")
toCalendar == FromList("todo") \/ eventToCalendar

\* deleteMsg(), moveMsg() and saveMsg() put a question first: the index is read
\* before it and used when it is answered.  The message is named by its subject.
AskAbout(op) ==
    /\ ask = Nothing /\ focused \in DOMAIN gRows /\ Spend("asks")
    /\ ask' = [op |-> op, idx |-> Index, id |-> gAll[gRows[focused]].id]
    /\ UNCHANGED <<mailbox, list, handed, pulling, history>>
deleteMsg == AskAbout("delete")
moveMsg == gMbox = "trash" /\ AskAbout("move")   \* to the trash: the same as delete
saveMsg == AskAbout("save")

\* purgeDialog(), here of the messages that were read, and emptyTrash(): what
\* would go is counted first, and nothing is asked when that is nothing
Purged(op) == IF op = "purge" THEN Keep(box[gMbox], Msgs \ unread)
              ELSE box["trash"]
AskToPurge(op) ==
    /\ ask = Nothing /\ Purged(op) # <<>> /\ Spend("asks")
    /\ ask' = [op |-> op, n |-> Len(Purged(op))]
    /\ UNCHANGED <<mailbox, list, handed, pulling, history>>
purgeDialog == AskToPurge("purge")
emptyTrash == AskToPurge("empty")

Without(b, S) == Keep(b, Msgs \ S)
Agreed(op, gone, to) ==
    /\ box' = [f \in Folders |->
                 IF f = to THEN Without(box[f], ToSet(gone)) \o gone
                 ELSE Without(box[f], ToSet(gone))]
    /\ lowered' = (lowered \/ ToSet(gone) \cap unread # {})
    /\ became' = IF to = "spool" THEN became \cup (ToSet(gone) \cap unread) ELSE became
    /\ UNCHANGED <<unread, arrived>>

About == ask.op \in {"delete", "move", "save"}

\* Yes: the backend does it and the folder is read again
AnswerYes ==
    /\ ask # Nothing /\ ask.op # "save"
    /\ LET here == box[gMbox]
           gone == IF ~About THEN Purged(ask.op)
                   ELSE IF ask.idx \in DOMAIN here THEN <<here[ask.idx]>> ELSE <<>>
           to == CASE ask.op = "delete" -> IF gMbox = "trash" THEN "nowhere" ELSE "trash"
                   [] ask.op = "move" -> "spool"
                   [] ask.op = "purge" -> "trash"
                   [] OTHER -> "nowhere"
       IN Agreed(ask.op, gone, to)
    /\ handed' = IF About THEN Took(ask.op, ask.idx, ask.id, ~shifted) ELSE handed
    /\ ask' = Nothing
    /\ \E ok \in BOOLEAN : reloadFolder(box', unread', ok) /\ Answers(ok)
    /\ UNCHANGED <<pulling, fresh>>

\* A file name was given: the whole message goes there
AnswerPath ==
    /\ ask # Nothing /\ ask.op = "save" /\ ask' = Nothing
    /\ handed' = Took("save", ask.idx, ask.id, ~shifted)
    /\ UNCHANGED <<mailbox, list, pulling, history, budget>>

AnswerNo ==
    /\ ask # Nothing /\ ask' = Nothing
    /\ UNCHANGED <<mailbox, list, handed, pulling, history, budget>>

-----------------------------------------------------------------------------
(* The pull, a process of its own.                                         *)

\* pullMail(), by hand (a menu is gone before its command comes) or by the timer
pullMailCounts ==                             \* mutant: only the folder pane's number
    /\ ask = Nothing /\ pull = "no" /\ Spend("pulls")
    /\ pull' = "runs" /\ unreadBefore' = gUnread["spool"]
    /\ UNCHANGED <<mailbox, list, ask, handed, lastUnread, history>>
pullMailZero ==                               \* mutant: lastUnread begins at 0
    /\ ask = Nothing /\ pull = "no" /\ Spend("pulls")
    /\ pull' = "runs" /\ unreadBefore' = IF lastUnread < 0 THEN 0 ELSE lastUnread
    /\ UNCHANGED <<mailbox, list, ask, handed, lastUnread, history>>
pullMail ==
    /\ ask = Nothing /\ pull = "no" /\ Spend("pulls")
    /\ pull' = "runs"
    /\ unreadBefore' = IF 0 <= lastUnread /\ lastUnread < gUnread["spool"]
                       THEN lastUnread ELSE gUnread["spool"]
    /\ fresh' = IF lastUnread < 0 THEN {} ELSE fresh  \* the first has no pull before it
    /\ UNCHANGED <<mailbox, list, ask, handed, lastUnread, shifted, became, lowered, excused>>

\* It delivers, and files spam
PullFiles ==
    /\ pull = "runs"
    /\ \E m \in Spam \cap ToSet(box["spool"]) :
         /\ box' = [box EXCEPT !["spool"] = Without(@, {m})]
         /\ fresh' = fresh \ {m}
         /\ shifted' = (shifted \/ gMbox = "spool")
         /\ lowered' = (lowered \/ m \in unread)
    /\ UNCHANGED <<unread, arrived, list, ask, handed, pulling, became, excused, budget>>

PullExits ==
    /\ pull = "runs" /\ pull' = "exited"
    /\ UNCHANGED <<mailbox, list, ask, handed, unreadBefore, lastUnread, history, budget>>

\* idle() reaps it - not under a dialog - and pullFinished() reads the folder
\* again and says what is new
pullFinished ==
    /\ ask = Nothing /\ pull = "exited"
    /\ pull' = "no"
    /\ \E ok \in BOOLEAN : reloadFolder(box, unread, ok) /\ Answers(ok)
    /\ lastUnread' = gUnread'["spool"]
    /\ unreadBefore' = -1
    /\ fresh' = {} /\ became' = {} /\ lowered' = FALSE
    /\ UNCHANGED <<mailbox, ask, handed>>

-----------------------------------------------------------------------------
(* Everybody else.                                                         *)

Arrives ==
    /\ \E m \in Msgs \ arrived :
         /\ box' = [box EXCEPT !["spool"] = Append(@, m)]
         /\ unread' = unread \cup {m} /\ arrived' = arrived \cup {m}
         /\ fresh' = fresh \cup {m} /\ became' = became \cup {m}
    /\ UNCHANGED <<list, ask, handed, pulling, shifted, lowered, excused, budget>>

OthersRead ==
    /\ Spend("outside")
    /\ \E m \in unread \cap ToSet(box["spool"]) : unread' = unread \ {m}
    /\ lowered' = TRUE
    /\ UNCHANGED <<box, arrived, list, ask, handed, pulling, shifted, fresh, became, excused>>

OthersRemove ==
    /\ Spend("outside")
    /\ \E m \in ToSet(box["spool"]) :
         /\ box' = [box EXCEPT !["spool"] = Without(@, {m})]
         /\ lowered' = (lowered \/ m \in unread)
    /\ shifted' = (shifted \/ gMbox = "spool")
    /\ UNCHANGED <<unread, arrived, list, ask, handed, pulling, fresh, became, excused>>

\* The constructor has read the inbox
MailInit ==
    /\ \E m \in Msgs \ Spam : box = [f \in Folders |-> IF f = "spool" THEN <<m>> ELSE <<>>]
    /\ unread \in SUBSET ToSet(box["spool"])
    /\ gMbox = "spool"
    /\ gAll = [i \in DOMAIN box["spool"] |->
                 [id |-> box["spool"][i], new |-> box["spool"][i] \in unread]]
    /\ gFilter = FALSE /\ gSort = "date" /\ gSortRev = FALSE
    /\ gRows = <<1>> /\ focused = 1 /\ body = gAll[1].id
    /\ gUnread = [f \in Folders |-> NewIn(box[f], unread)]
    /\ ask = Nothing /\ handed = [op |-> "none", meant |-> NoMsg, got |-> NoMsg, sure |-> TRUE]
    /\ pull = "no" /\ unreadBefore = -1 /\ lastUnread = -1
    /\ shifted = FALSE /\ fresh = {} /\ became = {} /\ lowered = FALSE /\ excused = FALSE
    /\ arrived = ToSet(box["spool"]) /\ budget \in Budgets

MailNext ==
    \/ cmFolderPicked \/ cmMsgPicked \/ cmFilterChanged \/ cmSort \/ cmReload
    \/ \E read \in BOOLEAN : markFocused(read)
    \/ viewSource \/ viewParts \/ replyOrCompose \/ forwardMsg
    \/ chatWithSender \/ openChatInvite \/ shareInChat \/ toCalendar
    \/ deleteMsg \/ moveMsg \/ saveMsg \/ purgeDialog \/ emptyTrash
    \/ AnswerYes \/ AnswerPath \/ AnswerNo
    \/ pullMail \/ PullFiles \/ PullExits \/ pullFinished
    \/ Arrives \/ OthersRead \/ OthersRemove
MailSpec == MailInit /\ [][MailNext]_mailVars

-----------------------------------------------------------------------------
(* Properties.                                                             *)

\* What a command takes, prints, hands on or removes is the message that was
\* highlighted when it was given and that its question named - as long as
\* nobody else has removed one since the list was read.
RightMessage == handed.sure => handed.got = handed.meant

\* The body pane shows the highlighted message, whatever the filter, the
\* order and the folder have been in between.
BodyIsOfTheRow ==
    ~shifted /\ focused \in DOMAIN gRows => body = gAll[gRows[focused]].id

\* The folder pane's number is the number of rows shown as new.
CountsAgree == gUnread[gMbox] = NewRows(gAll)

\* mailwin.cpp: "stay on the same message if it is still shown" when the order
\* changes under it, by a command or by a mark.
HighlightStays ==
    [][Ids(gAll') = Ids(gAll) /\ gMbox' = gMbox /\ gFilter' = gFilter /\ gRows' # gRows
         => gRows'[focused'] = gRows[focused]]_mailVars

\* The number in "n new messages in the inbox"
Announced == LET now == gUnread'["spool"]
             IN IF unreadBefore >= 0 /\ now > unreadBefore THEN now - unreadBefore ELSE 0

\* A pull does not announce more than has become unread since the last one,
\* unless a list or a mark of the program's own went wrong.
AnnouncedWereNew ==
    [][pullFinished => Announced <= Cardinality(became) \/ excused']_mailVars

\* ... and announces something when mail came.  Not when an unread message was
\* read or went since the last pull, too: the numbers then cancel out.
NewMailIsTold ==
    [][pullFinished /\ fresh \cap unread \cap ToSet(box["spool"]) # {}
         => Announced > 0 \/ lowered \/ unreadBefore < 0 \/ excused']_mailVars

\* The three places that name a message - the list, the body and the counts -
\* agree with each other and with what a command acts on.
MessageInHand == RightMessage /\ BodyIsOfTheRow /\ CountsAgree

\* What a step may never do to the list and to the news about it: move the
\* highlight, announce old mail, or keep quiet about new.
ListStepsAreTrue == HighlightStays /\ AnnouncedWereNew /\ NewMailIsTold
=============================================================================
