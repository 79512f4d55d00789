----------------------------- MODULE MailCompose ----------------------------
(***************************************************************************)
(* tvmail's compose windows (tvmail/src/compose.cpp): writing, sending,    *)
(* keeping what is not sent as a draft, and doing away with the draft a    *)
(* window was opened from, which other programs may move or remove         *)
(* between any two requests to the backend.                                *)
(*                                                                         *)
(* A text stands for header fields and body together; every change makes a *)
(* text there has not been before.  A draft is its text.                   *)
(***************************************************************************)
EXTENDS Integers, Sequences, FiniteSets, SequencesExt

CONSTANTS
    Wins,        \* compose windows
    FirstDrafts, \* the drafts there are at first, a sequence of texts
    MaxTexts,    \* bound: texts
    MaxOpens,    \* bound: windows opened
    MaxOthers    \* bound: things other programs do to the drafts

NoOne == "none"

ASSUME ComposeOK ==
    /\ NoOne \notin Wins
    /\ MaxTexts \in Nat /\ MaxOpens \in Nat /\ MaxOthers \in Nat
    /\ FirstDrafts \in Seq(1 .. MaxTexts)

VARIABLES
    drafts, sentMail,        \* Drafts; what has gone out
    win,                     \* the windows
    asking,                  \* the question "save as draft?": window and command
    dropping,                \* dropSourceDraft() under way
    quitting,                \* cmQuit: the windows still to be asked, or NotQuitting
    ended,                   \* the program has
    lastText,                \* the newest text
    discarded,               \* history: given up, superseded, "sent" without a word
    raced, others, opened    \* history: Drafts changed while one was dropped;
                             \* others' doings; windows opened

composeVars == <<drafts, sentMail, win, asking, dropping, quitting, ended, lastText,
                 discarded, raced, others, opened>>

Blank == 0
Closed == [open |-> FALSE, text |-> Blank, init |-> Blank, idx |-> 0, raw |-> Blank,
           sent |-> FALSE, kept |-> Blank]   \* kept: history, saved by it
NoDrop == [w |-> NoOne, victim |-> 0, then |-> "stay"]
NotQuitting == {NoOne}
Free == asking = NoOne /\ dropping = NoDrop /\ quitting = NotQuitting /\ ~ended
        /\ \A w \in Wins : ~win[w].sent

ComposeInit ==
    /\ drafts = FirstDrafts /\ sentMail = {}
    /\ win = [w \in Wins |-> Closed]
    /\ asking = NoOne /\ dropping = NoDrop /\ quitting = NotQuitting /\ ended = FALSE
    /\ lastText = Len(FirstDrafts)
    /\ discarded = {} /\ raced = FALSE /\ others = 0 /\ opened = 0

Quiet == UNCHANGED <<drafts, sentMail, asking, dropping, quitting, ended, discarded,
                     raced, others>>
MayOpen == Free /\ opened < MaxOpens /\ opened' = opened + 1

-----------------------------------------------------------------------------
\* openCompose(): a blank one, a reply or a forward - a text of nobody's yet -
openCompose(w) ==
    /\ MayOpen /\ ~win[w].open
    /\ win' = [win EXCEPT ![w] = [Closed EXCEPT !.open = TRUE]]
    /\ Quiet /\ UNCHANGED lastText

\* ... or a draft, as the backend gives it under the index of the list's row,
\* to which the window is linked
editDraft(w) ==
    /\ MayOpen /\ ~win[w].open
    /\ \E i \in DOMAIN drafts :
         win' = [win EXCEPT ![w] = [open |-> TRUE, text |-> drafts[i], init |-> drafts[i],
                                    idx |-> i, raw |-> drafts[i], sent |-> FALSE,
                                    kept |-> Blank]]
    /\ Quiet /\ UNCHANGED lastText

Type(w) ==
    /\ Free /\ win[w].open /\ lastText < MaxTexts
    /\ lastText' = lastText + 1
    /\ win' = [win EXCEPT ![w].text = lastText']
    /\ Quiet /\ UNCHANGED opened

\* dirty(): any field, or the body, is not what it was
dirty(w) == win[w].text # win[w].init

-----------------------------------------------------------------------------
(* dropSourceDraft(), in three requests: the raw text at the index, or of  *)
(* every draft in turn, and the removal.                                   *)

Drop(w, then) == dropping' = [w |-> w, victim |-> -1, then |-> then]

DropFindBlind ==                              \* mutant: whatever is at the index
    /\ dropping.w # NoOne /\ dropping.victim = -1
    /\ LET w == dropping.w
       IN /\ dropping' = [dropping EXCEPT !.victim = win[w].idx]
          /\ win' = [win EXCEPT ![w].idx = 0]
    /\ raced' = FALSE
    /\ UNCHANGED <<drafts, sentMail, asking, quitting, ended, lastText, discarded,
                   others, opened>>
DropFind ==
    /\ dropping.w # NoOne /\ dropping.victim = -1
    /\ LET w == dropping.w
           i == win[w].idx
           same == {j \in DOMAIN drafts : drafts[j] = win[w].raw}
           first == {j \in same : \A k \in same : j <= k}
       IN /\ \E v \in IF i = 0 \/ same = {} THEN {0} ELSE IF i \in same THEN {i} ELSE first :
               dropping' = [dropping EXCEPT !.victim = v]
          /\ win' = [win EXCEPT ![w].idx = 0]
    /\ raced' = FALSE
    /\ UNCHANGED <<drafts, sentMail, asking, quitting, ended, lastText, discarded,
                   others, opened>>

Closing(w, then) ==
    IF then = "close" THEN [win EXCEPT ![w].open = FALSE] ELSE win

\* The removal, by index; then the window closes, or goes on with the quit
DropDelete ==
    /\ dropping.w # NoOne /\ dropping.victim # -1
    /\ drafts' = IF dropping.victim \in DOMAIN drafts
                 THEN RemoveAt(drafts, dropping.victim) ELSE drafts
    /\ win' = [Closing(dropping.w, dropping.then) EXCEPT ![dropping.w].sent = FALSE]
    /\ dropping' = NoDrop
    /\ discarded' = discarded \cup {win[dropping.w].raw}
                     \cup (IF raced THEN ToSet(drafts) \ ToSet(drafts') ELSE {})
    /\ UNCHANGED <<sentMail, asking, quitting, ended, lastText,
                   raced, others, opened>>

-----------------------------------------------------------------------------
\* doSend(): "sent", or nothing at all, is taken for sent; the source draft
\* goes and the window closes.  Anything else leaves all as it was.
doSend(w) ==
    /\ Free /\ win[w].open
    /\ \E went, word \in BOOLEAN :
         /\ word => went
         /\ sentMail' = IF went THEN sentMail \cup {win[w].text} ELSE sentMail
         /\ discarded' = IF word THEN discarded ELSE discarded \cup {win[w].text}
    /\ win' = [win EXCEPT ![w].sent = TRUE]
    /\ Drop(w, "close")
    /\ UNCHANGED <<drafts, asking, quitting, ended, lastText, raced, others, opened>>

\* valid(cmClose): with something unsent, the question
cmClose(w) ==
    /\ Free /\ win[w].open
    /\ IF dirty(w) THEN asking' = w /\ UNCHANGED win
                   ELSE win' = [win EXCEPT ![w].open = FALSE] /\ UNCHANGED asking
    /\ UNCHANGED <<drafts, sentMail, dropping, quitting, ended, lastText, discarded,
                   raced, others, opened>>

cmQuit ==
    /\ Free
    /\ quitting' = {w \in Wins : win[w].open}
    /\ UNCHANGED <<drafts, sentMail, win, asking, dropping, ended, lastText, discarded,
                   raced, others, opened>>

\* valid(cmQuit) of the next window
AskedToQuitLazy(w) ==                         \* mutant: only cmClose asks
    /\ quitting # NotQuitting /\ w \in quitting /\ asking = NoOne /\ dropping = NoDrop
    /\ quitting' = quitting \ {w}
    /\ UNCHANGED <<drafts, sentMail, win, asking, dropping, ended, lastText, discarded,
                   raced, others, opened>>
AskedToQuit(w) ==
    /\ quitting # NotQuitting /\ w \in quitting /\ asking = NoOne /\ dropping = NoDrop
    /\ IF dirty(w) THEN asking' = w /\ UNCHANGED quitting
                   ELSE quitting' = quitting \ {w} /\ UNCHANGED asking
    /\ UNCHANGED <<drafts, sentMail, win, dropping, ended, lastText, discarded,
                   raced, others, opened>>

\* All of them would go: so they do
Quit ==
    /\ quitting = {} /\ dropping = NoDrop
    /\ ended' = TRUE /\ quitting' = NotQuitting
    /\ win' = [w \in Wins |-> [win[w] EXCEPT !.open = FALSE]]
    /\ UNCHANGED <<drafts, sentMail, asking, dropping, lastText, discarded,
                   raced, others, opened>>

Then == IF quitting = NotQuitting THEN "close" ELSE "stay"
Answered(w) == asking = w /\ asking' = NoOne
               /\ quitting' = IF quitting = NotQuitting THEN NotQuitting ELSE quitting \ {w}

\* Yes: saved, so not dirty any more, and the source draft dropped
SaveDraftForgets(w) ==                        \* mutant: still dirty
    /\ Answered(w)
    /\ drafts' = Append(drafts, win[w].text)
    /\ win' = [win EXCEPT ![w].kept = win[w].text]
    /\ Drop(w, Then)
    /\ UNCHANGED <<sentMail, ended, lastText, discarded, raced, others, opened>>
SaveDraft(w) ==
    /\ Answered(w)
    /\ drafts' = Append(drafts, win[w].text)
    /\ win' = [win EXCEPT ![w].init = win[w].text, ![w].kept = win[w].text]
    /\ Drop(w, Then)
    /\ UNCHANGED <<sentMail, ended, lastText, discarded, raced, others, opened>>

\* No
Discard(w) ==
    /\ Answered(w)
    /\ discarded' = discarded \cup {win[w].text}
    /\ win' = Closing(w, Then)
    /\ UNCHANGED <<drafts, sentMail, dropping, ended, lastText, raced, others, opened>>

\* Cancel, or the backend could not save it: the window stays and a quit is off
CalledOff(w) ==
    /\ asking = w /\ asking' = NoOne /\ quitting' = NotQuitting
    /\ UNCHANGED <<drafts, sentMail, win, dropping, ended, lastText, discarded,
                   raced, others, opened>>

\* Another program removes or files a draft
OthersTake ==
    /\ others < MaxOthers /\ others' = others + 1
    /\ \E i \in DOMAIN drafts :
         /\ drafts' = RemoveAt(drafts, i)
         /\ discarded' = discarded \cup {drafts[i]}
    /\ raced' = (raced \/ dropping # NoDrop)
    /\ UNCHANGED <<sentMail, win, asking, dropping, quitting, ended, lastText, opened>>

ComposeNext ==
    \/ \E w \in Wins : \/ openCompose(w) \/ editDraft(w) \/ Type(w) \/ doSend(w)
                       \/ cmClose(w) \/ AskedToQuit(w)
                       \/ SaveDraft(w) \/ Discard(w) \/ CalledOff(w)
    \/ DropFind \/ DropDelete \/ cmQuit \/ Quit \/ OthersTake

ComposeSpec == ComposeInit /\ [][ComposeNext]_composeVars

-----------------------------------------------------------------------------
(* Properties.                                                             *)

\* compose.cpp: "only delete a message whose raw text is still the one we
\* opened" - unless Drafts changes between the comparison and the removal.
OnlyItsOwnDraft ==
    [][DropDelete /\ drafts' # drafts
         => raced \/ drafts[dropping.victim] = win[dropping.w].raw]_composeVars

\* What was written when a window went is sent, in Drafts, or given up by
\* somebody - or by the race above.  A backend that sends nothing and says
\* nothing is believed.
UnsentIsKept ==
    \A w \in Wins :
       LET t == win[w].text
       IN ~win[w].open /\ t # Blank
            => t \in sentMail \cup ToSet(drafts) \cup discarded

\* compose.cpp: "if a quit is called off by another window, this one stays
\* open and must not save the same draft again".
SavedOnce ==
    [][\A w \in Wins : SaveDraft(w) => win[w].text # win[w].kept]_composeVars

\* Drafts are removed for, and saved by, the window they belong to, once.
DraftsAreOwn == OnlyItsOwnDraft /\ SavedOnce
=============================================================================
