------------------------------ MODULE MailProofs ------------------------------
(***************************************************************************)
(* tvmail's two kinds of window.                                           *)
(*                                                                         *)
(* What a compose window does with a text (MailCompose), for any number of *)
(* windows, drafts, texts and doings of other programs: no text is lost    *)
(* (UnsentIsKept), and a window saves, and removes, only its own draft     *)
(* (DraftsAreOwn).                                                         *)
(*                                                                         *)
(* And the main window (MailWindow), for any messages, filter, spam and    *)
(* doings of other programs: the list, the body, the counts and what a     *)
(* command acts on agree (MessageInHand); and no step moves the highlight, *)
(* announces old mail or keeps quiet about new (ListStepsAreTrue).         *)
(***************************************************************************)
EXTENDS MailCompose, MailWindow, ListProofs, SequenceTheorems, FiniteSetTheorems

-----------------------------------------------------------------------------
(* Compose windows.                                                        *)
(*                                                                         *)
(* The argument says of every text a window may still need where it is:    *)
(* what it was opened or last saved with is kept (Windows), so is what it  *)
(* is going with while its draft is being dropped (Dropping), and so is    *)
(* what every window that has answered cmQuit holds (Quitting).  A window  *)
(* in question is dirty, and nothing else goes on meanwhile (Asking).      *)

Window == [open : BOOLEAN, text : Nat, init : Nat, idx : Nat, raw : Nat,
           sent : BOOLEAN, kept : Nat]

TypeOK ==
    /\ drafts \in Seq(Nat) /\ lastText \in Nat
    /\ win \in [Wins -> Window]
    /\ asking \in Wins \cup {NoOne}
    /\ dropping \in [w : Wins \cup {NoOne}, victim : Nat \cup {-1}, then : {"stay", "close"}]
    /\ raced \in BOOLEAN

\* A text that is not lost
Safe(t) == t = Blank \/ t \in sentMail \/ t \in ToSet(drafts) \/ t \in discarded

WindowOK(w) ==
    /\ Safe(win[w].init)
    /\ ~win[w].open => Safe(win[w].text)
    /\ win[w].kept \in {Blank, win[w].init}
    /\ dirty(w) => win[w].text # Blank
Windows == \A w \in Wins : WindowOK(w)

\* The draft found is the window's, unless others have changed Drafts since.
Dropping ==
    /\ dropping.w = NoOne => dropping = NoDrop
    /\ dropping.w # NoOne => Safe(win[dropping.w].text)
    /\ ~raced /\ dropping.victim \notin {-1, 0} =>
         /\ dropping.victim \in DOMAIN drafts
         /\ drafts[dropping.victim] = win[dropping.w].raw

Asking ==
    asking # NoOne =>
      /\ dirty(asking) /\ dropping = NoDrop
      /\ quitting = NotQuitting \/ asking \in quitting

Quitting ==
    quitting # NotQuitting =>
      \A w \in Wins \ quitting : win[w].open => Safe(win[w].text)

CInv == TypeOK /\ Windows /\ Dropping /\ Asking /\ Quitting

-----------------------------------------------------------------------------
(* Drafts.                                                                 *)

LEMMA Saved ==
    ASSUME NEW s \in Seq(Nat), NEW t \in Nat
    PROVE  /\ Append(s, t) \in Seq(Nat)
           /\ t \in ToSet(Append(s, t)) /\ ToSet(s) \subseteq ToSet(Append(s, t))
<1>1. /\ Append(s, t) \in Seq(Nat) /\ Len(s) + 1 \in DOMAIN Append(s, t)
      /\ Append(s, t)[Len(s) + 1] = t
      /\ \A i \in DOMAIN s : i \in DOMAIN Append(s, t) /\ Append(s, t)[i] = s[i]
  OBVIOUS
<1> QED BY <1>1 DEF ToSet

LEMMA Removed ==
    ASSUME NEW s \in Seq(Nat), NEW i \in DOMAIN s
    PROVE  /\ RemoveAt(s, i) \in Seq(Nat)
           /\ ToSet(s) \subseteq ToSet(RemoveAt(s, i)) \cup {s[i]}
<1> DEFINE a == SubSeq(s, 1, i - 1)
           b == SubSeq(s, i + 1, Len(s))
           z == a \o b
<1>1. /\ i \in 1 .. Len(s) /\ Len(s) \in Nat /\ DOMAIN s = 1 .. Len(s)
      /\ \A j \in 1 .. Len(s) : s[j] \in Nat
  OBVIOUS
<1>0. i \in Nat /\ 1 <= i /\ i <= Len(s) /\ Len(s) \in Nat
  BY <1>1
<1>2. /\ a \in Seq(Nat) /\ Len(a) = i - 1
      /\ \A j \in 1 .. i - 1 : a[j] = s[j]
  <2>1. /\ 1 \in Int /\ i - 1 \in Int /\ \A j \in 1 .. i - 1 : s[j] \in Nat
    BY <1>1
  <2>2. /\ a \in Seq(Nat) /\ Len(a) = IF 1 <= i - 1 THEN (i - 1) - 1 + 1 ELSE 0
        /\ \A j \in 1 .. (i - 1) - 1 + 1 : a[j] = s[1 + j - 1]
    BY <2>1, SubSeqProperties
  <2> HIDE DEF a
  <2> QED BY <1>1, <2>2
<1>3. /\ b \in Seq(Nat) /\ Len(b) = Len(s) - i
      /\ \A j \in 1 .. Len(s) - i : b[j] = s[i + j]
  <2>1. /\ i + 1 \in Int /\ Len(s) \in Int /\ \A j \in i + 1 .. Len(s) : s[j] \in Nat
    BY <1>1
  <2>2. /\ b \in Seq(Nat) /\ Len(b) = IF i + 1 <= Len(s) THEN Len(s) - (i + 1) + 1 ELSE 0
        /\ \A j \in 1 .. Len(s) - (i + 1) + 1 : b[j] = s[(i + 1) + j - 1]
    BY <2>1, SubSeqProperties
  <2> HIDE DEF b
  <2>3. Len(b) = Len(s) - i
    BY <1>0, <2>2
  <2>4. ASSUME NEW j \in 1 .. Len(s) - i PROVE b[j] = s[i + j]
    <3>1. j \in 1 .. Len(s) - (i + 1) + 1 /\ (i + 1) + j - 1 = i + j
      BY <1>0
    <3> QED BY <2>2, <3>1
  <2> QED BY <2>2, <2>3, <2>4
<1> HIDE DEF a, b
<1>4. /\ z \in Seq(Nat) /\ Len(z) = Len(s) - 1 /\ DOMAIN z = 1 .. Len(s) - 1
      /\ \A j \in 1 .. i - 1 : z[j] = s[j]
      /\ \A j \in i .. Len(s) - 1 : z[j] = s[j + 1]
  <2>1. /\ z \in Seq(Nat) /\ Len(z) = Len(a) + Len(b)
        /\ \A j \in 1 .. Len(a) + Len(b) : z[j] = IF j <= Len(a) THEN a[j] ELSE b[j - Len(a)]
    BY <1>2, <1>3, ConcatProperties
  <2> HIDE DEF z
  <2>2. Len(a) + Len(b) = Len(s) - 1 /\ DOMAIN z = 1 .. Len(s) - 1 /\ Len(z) = Len(s) - 1
    BY <1>1, <1>2, <1>3, <2>1
  <2>3. \A j \in 1 .. i - 1 : z[j] = s[j]
    <3> TAKE j \in 1 .. i - 1
    <3>1. j \in 1 .. Len(a) + Len(b) /\ j <= Len(a)
      BY <1>0, <1>2, <2>2
    <3> QED BY <1>2, <2>1, <3>1
  <2>4. \A j \in i .. Len(s) - 1 : z[j] = s[j + 1]
    <3> TAKE j \in i .. Len(s) - 1
    <3>0. j \in Nat /\ i <= j /\ j <= Len(s) - 1
      BY <1>0
    <3>1. /\ j \in 1 .. Len(a) + Len(b) /\ ~(j <= Len(a))
          /\ j - Len(a) \in 1 .. Len(s) - i /\ i + (j - Len(a)) = j + 1
      <4>1. /\ j \in 1 .. Len(s) - 1 /\ ~(j <= i - 1)
            /\ j - (i - 1) \in 1 .. Len(s) - i /\ i + (j - (i - 1)) = j + 1
        BY <1>0, <3>0
      <4> QED BY <1>2, <2>2, <4>1
    <3>2. z[j] = b[j - Len(a)]
      BY <2>1, <3>1
    <3> QED BY <1>3, <3>1, <3>2
  <2> QED BY <2>1, <2>2, <2>3, <2>4
<1> HIDE DEF z
<1>5. ASSUME NEW j \in DOMAIN s, j # i PROVE \E k \in DOMAIN z : z[k] = s[j]
  <2>1. CASE j < i
    <3>1. j \in 1 .. i - 1 /\ j \in DOMAIN z
      BY <1>1, <1>4, <1>5, <2>1
    <3> QED BY <1>4, <3>1
  <2>2. CASE j > i
    <3>1. j \in Nat /\ j <= Len(s)
      BY <1>1
    <3>2. j - 1 \in i .. Len(s) - 1 /\ j - 1 \in 1 .. Len(s) - 1 /\ (j - 1) + 1 = j
      BY <1>0, <2>2, <3>1
    <3> QED BY <1>4, <3>2
  <2> QED BY <1>1, <1>5, <2>1, <2>2
<1>6. RemoveAt(s, i) = z
  BY DEF RemoveAt, z, a, b
<1>7. \A x \in ToSet(s) : x = s[i] \/ x \in ToSet(z)
  BY <1>5 DEF ToSet
<1> QED BY <1>4, <1>6, <1>7

-----------------------------------------------------------------------------
(* Types.                                                                  *)

LEMMA TypeStep ==
    ASSUME TypeOK, [ComposeNext]_composeVars
    PROVE  TypeOK'
<1>1. win \in [Wins -> Window] /\ Closed \in Window
  BY DEF TypeOK, Closed, Window, Blank
<1>2. ASSUME NEW w \in Wins, openCompose(w) PROVE TypeOK'
  <2>1. [Closed EXCEPT !.open = TRUE] \in Window
    BY <1>1 DEF Window
  <2> QED BY <1>1, <1>2, <2>1 DEF openCompose, Quiet, TypeOK
<1>3. ASSUME NEW w \in Wins, editDraft(w) PROVE TypeOK'
  <2>1. PICK i \in DOMAIN drafts :
          win' = [win EXCEPT ![w] = [open |-> TRUE, text |-> drafts[i], init |-> drafts[i],
                                     idx |-> i, raw |-> drafts[i], sent |-> FALSE,
                                     kept |-> Blank]]
    BY <1>3 DEF editDraft
  <2>2. i \in Nat /\ drafts[i] \in Nat
    BY DEF TypeOK
  <2>3. [open |-> TRUE, text |-> drafts[i], init |-> drafts[i], idx |-> i, raw |-> drafts[i],
         sent |-> FALSE, kept |-> Blank] \in Window
    BY <2>2 DEF Window, Blank
  <2> QED BY <1>1, <1>3, <2>1, <2>3 DEF editDraft, Quiet, TypeOK
<1>4. ASSUME NEW w \in Wins, Type(w) PROVE TypeOK'
  <2>1. lastText' \in Nat /\ win' = [win EXCEPT ![w].text = lastText']
    BY <1>4 DEF Type, TypeOK
  <2>2. win' \in [Wins -> Window]
    BY <1>1, <2>1 DEF Window
  <2> QED BY <1>4, <2>1, <2>2 DEF Type, Quiet, TypeOK
<1>5. CASE DropFind
  <2>1. dropping.w \in Wins
    BY <1>5 DEF DropFind, TypeOK
  <2>2. win' \in [Wins -> Window]
    BY <1>1, <1>5, <2>1 DEF DropFind, Window
  <2>3. PICK v \in {0} \cup {win[dropping.w].idx} \cup DOMAIN drafts :
          dropping' = [dropping EXCEPT !.victim = v]
    BY <1>5, Zenon DEF DropFind
  <2>4. v \in Nat
    BY <1>1, <2>1 DEF TypeOK, Window
  <2> QED BY <1>5, <2>2, <2>3, <2>4 DEF DropFind, TypeOK
<1>6. CASE DropDelete
  <2>1. dropping.w \in Wins /\ dropping.victim \in Nat \cup {-1}
    BY <1>6 DEF DropDelete, TypeOK
  <2>2. win' \in [Wins -> Window]
    <3> DEFINE closed == Closing(dropping.w, dropping.then)
    <3>1. closed \in [Wins -> Window]
      BY <1>1, <2>1 DEF Closing, Window
    <3>2. win' = [closed EXCEPT ![dropping.w].sent = FALSE]
      BY <1>6 DEF DropDelete
    <3> HIDE DEF closed
    <3> QED BY <2>1, <3>1, <3>2 DEF Window
  <2>3. drafts' \in Seq(Nat)
    BY <1>6, Removed DEF DropDelete, TypeOK
  <2> QED BY <1>6, <2>2, <2>3 DEF DropDelete, TypeOK, NoDrop
<1>7. ASSUME NEW w \in Wins, doSend(w) PROVE TypeOK'
  BY <1>1, <1>7 DEF doSend, Drop, TypeOK, Window
<1>8. ASSUME NEW w \in Wins, cmClose(w) PROVE TypeOK'
  <2>1. win' \in [Wins -> Window]
    BY <1>1, <1>8 DEF cmClose, Window
  <2> QED BY <1>8, <2>1 DEF cmClose, TypeOK
<1>9. ASSUME NEW w \in Wins, AskedToQuit(w) PROVE TypeOK'
  BY <1>9 DEF AskedToQuit, TypeOK
<1>10. CASE Quit
  <2>1. \A w \in Wins : [win[w] EXCEPT !.open = FALSE] \in Window
    BY <1>1 DEF Window
  <2> QED BY <1>10, <2>1 DEF Quit, TypeOK
<1>11. ASSUME NEW w \in Wins, SaveDraft(w) PROVE TypeOK'
  <2>1. win[w].text \in Nat /\ win' \in [Wins -> Window]
    BY <1>1, <1>11 DEF SaveDraft, Window
  <2>2. drafts' \in Seq(Nat)
    BY <1>11, <2>1, Saved DEF SaveDraft, TypeOK
  <2> QED BY <1>11, <2>1, <2>2 DEF SaveDraft, Answered, Drop, Then, TypeOK
<1>12. ASSUME NEW w \in Wins, Discard(w) PROVE TypeOK'
  <2>1. win' \in [Wins -> Window]
    BY <1>1, <1>12 DEF Discard, Closing, Window
  <2> QED BY <1>12, <2>1 DEF Discard, Answered, TypeOK
<1>13. ASSUME NEW w \in Wins, CalledOff(w) PROVE TypeOK'
  BY <1>13 DEF CalledOff, TypeOK
<1>14. CASE cmQuit
  BY <1>14 DEF cmQuit, TypeOK
<1>15. CASE OthersTake
  <2>1. drafts' \in Seq(Nat)
    BY <1>15, Removed DEF OthersTake, TypeOK
  <2>2. raced' \in BOOLEAN
    BY <1>15, Zenon DEF OthersTake
  <2> QED BY <1>15, <2>1, <2>2 DEF OthersTake, TypeOK
<1>16. CASE UNCHANGED composeVars
  BY <1>16 DEF composeVars, TypeOK
<1> QED BY <1>2, <1>3, <1>4, <1>5, <1>6, <1>7, <1>8, <1>9, <1>10, <1>11, <1>12, <1>13,
           <1>14, <1>15, <1>16 DEF ComposeNext

(* No text that was kept is lost: a draft that is removed was sent or saved *)
(* anew, unless somebody else moved it there.                              *)
LEMMA StaysKept ==
    ASSUME TypeOK, Dropping, [ComposeNext]_composeVars
    PROVE  \A t : Safe(t) => Safe(t)'
<1>1. ASSUME UNCHANGED <<drafts, sentMail>>, discarded \subseteq discarded'
      PROVE  \A t : Safe(t) => Safe(t)'
  BY <1>1 DEF Safe
<1>2. ASSUME NEW w \in Wins, doSend(w) PROVE \A t : Safe(t) => Safe(t)'
  BY <1>2 DEF doSend, Safe
<1>3. ASSUME NEW w \in Wins, SaveDraft(w) PROVE \A t : Safe(t) => Safe(t)'
  <2>1. win[w].text \in Nat /\ drafts \in Seq(Nat)
    BY DEF TypeOK, Window
  <2> QED BY <1>3, <2>1, Saved DEF SaveDraft, Safe
<1>4. CASE OthersTake
  <2>1. PICK i \in DOMAIN drafts :
          drafts' = RemoveAt(drafts, i) /\ discarded' = discarded \cup {drafts[i]}
    BY <1>4 DEF OthersTake
  <2>2. ToSet(drafts) \subseteq ToSet(RemoveAt(drafts, i)) \cup {drafts[i]}
    BY Removed DEF TypeOK
  <2> QED BY <1>4, <2>1, <2>2 DEF OthersTake, Safe
<1>5. CASE DropDelete
  <2>1. CASE dropping.victim \notin DOMAIN drafts
    BY <1>5, <2>1 DEF DropDelete, Safe
  <2>2. CASE raced
    BY <1>5, <2>2 DEF DropDelete, Safe
  <2>3. CASE dropping.victim \in DOMAIN drafts /\ ~raced
    <3>1. dropping.victim \notin {-1, 0}
      BY <2>3 DEF TypeOK
    <3>2. drafts[dropping.victim] = win[dropping.w].raw
      BY <2>3, <3>1 DEF Dropping
    <3>3. ToSet(drafts) \subseteq ToSet(RemoveAt(drafts, dropping.victim))
                                  \cup {drafts[dropping.victim]}
      BY <2>3, Removed DEF TypeOK
    <3> QED BY <1>5, <2>3, <3>2, <3>3 DEF DropDelete, Safe
  <2> QED BY <2>1, <2>2, <2>3
<1>6. CASE DropFind \/ cmQuit \/ Quit \/ UNCHANGED composeVars
  BY <1>1, <1>6 DEF DropFind, cmQuit, Quit, composeVars
<1>7. ASSUME NEW w \in Wins,
             openCompose(w) \/ editDraft(w) \/ Type(w) \/ cmClose(w) \/ AskedToQuit(w)
               \/ Discard(w) \/ CalledOff(w)
      PROVE  \A t : Safe(t) => Safe(t)'
  BY <1>1, <1>7 DEF openCompose, editDraft, Type, cmClose, AskedToQuit, Discard, CalledOff,
     Quiet
<1> QED BY <1>2, <1>3, <1>4, <1>5, <1>6, <1>7 DEF ComposeNext

-----------------------------------------------------------------------------
(* Each window.                                                            *)

\* What a window that a step leaves alone keeps
Alone(w) == win[w]' = win[w]

LEMMA AloneStays ==
    ASSUME NEW w \in Wins, Alone(w), WindowOK(w), \A t : Safe(t) => Safe(t)'
    PROVE  WindowOK(w)'
BY DEF Alone, WindowOK, dirty

LEMMA WindowsStep ==
    ASSUME TypeOK, Windows, Dropping, Quitting, [ComposeNext]_composeVars
    PROVE  Windows'
<1>0. \A t : Safe(t) => Safe(t)'
  BY StaysKept
<1>1. win \in [Wins -> Window] /\ \A w \in Wins : WindowOK(w)
  BY DEF TypeOK, Windows
<1>2. ASSUME NEW w \in Wins, WindowOK(w)', \A v \in Wins \ {w} : Alone(v) PROVE Windows'
  BY <1>0, <1>1, <1>2, AloneStays DEF Windows
<1>3. ASSUME NEW w \in Wins, openCompose(w) PROVE Windows'
  <2>1. win'[w] = [Closed EXCEPT !.open = TRUE] /\ \A v \in Wins \ {w} : Alone(v)
    BY <1>1, <1>3 DEF openCompose, Alone
  <2>2. /\ win'[w].init = Blank /\ win'[w].text = Blank /\ win'[w].kept = Blank
        /\ win'[w].open
    BY <2>1 DEF Closed
  <2>3. WindowOK(w)'
    BY <2>2 DEF WindowOK, dirty, Safe
  <2> QED BY <1>2, <2>1, <2>3
<1>4. ASSUME NEW w \in Wins, editDraft(w) PROVE Windows'
  <2>1. PICK i \in DOMAIN drafts :
          win' = [win EXCEPT ![w] = [open |-> TRUE, text |-> drafts[i], init |-> drafts[i],
                                     idx |-> i, raw |-> drafts[i], sent |-> FALSE,
                                     kept |-> Blank]]
    BY <1>4 DEF editDraft
  <2>2. /\ win'[w].init = drafts[i] /\ win'[w].text = drafts[i] /\ win'[w].kept = Blank
        /\ win'[w].open /\ \A v \in Wins \ {w} : Alone(v)
    BY <1>1, <2>1 DEF Alone
  <2>3. drafts' = drafts /\ drafts[i] \in ToSet(drafts)
    BY <1>4 DEF editDraft, Quiet, ToSet
  <2>4. WindowOK(w)'
    BY <2>2, <2>3 DEF WindowOK, dirty, Safe
  <2> QED BY <1>2, <2>2, <2>4
<1>5. ASSUME NEW w \in Wins, Type(w) PROVE Windows'
  <2>1. /\ win'[w].init = win[w].init /\ win'[w].text = lastText + 1
        /\ win'[w].kept = win[w].kept /\ win'[w].open = win[w].open
        /\ \A v \in Wins \ {w} : Alone(v)
    BY <1>1, <1>5 DEF Type, Alone, Window
  <2>2. lastText + 1 # Blank /\ win[w].open
    BY <1>5 DEF Type, TypeOK, Blank
  <2>3. WindowOK(w)'
    BY <1>0, <1>1, <2>1, <2>2 DEF WindowOK, dirty
  <2> QED BY <1>2, <2>1, <2>3
<1>6. CASE DropFind
  <2>0. dropping.w \in Wins
    BY <1>6 DEF DropFind, TypeOK
  <2>1. PICK w \in Wins : w = dropping.w
    BY <2>0
  <2>2. /\ win'[w].init = win[w].init /\ win'[w].text = win[w].text
        /\ win'[w].kept = win[w].kept /\ win'[w].open = win[w].open
        /\ \A v \in Wins \ {w} : Alone(v)
    BY <1>1, <1>6, <2>1 DEF DropFind, Alone, Window
  <2>3. WindowOK(w)'
    BY <1>0, <1>1, <2>2 DEF WindowOK, dirty
  <2> QED BY <1>2, <2>2, <2>3
<1>7. CASE DropDelete
  <2>0. dropping.w \in Wins
    BY <1>7 DEF DropDelete, TypeOK
  <2>1. PICK w \in Wins : w = dropping.w
    BY <2>0
  <2>2. /\ win'[w].init = win[w].init /\ win'[w].text = win[w].text
        /\ win'[w].kept = win[w].kept
        /\ \A v \in Wins \ {w} : Alone(v)
    BY <1>1, <1>7, <2>1 DEF DropDelete, Closing, Alone, Window
  <2>3. Safe(win[w].text)
    BY <1>7, <2>1 DEF DropDelete, Dropping
  <2>4. WindowOK(w)'
    BY <1>0, <1>1, <2>2, <2>3 DEF WindowOK, dirty
  <2> QED BY <1>2, <2>2, <2>4
<1>8. ASSUME NEW w \in Wins, doSend(w) PROVE Windows'
  <2>1. /\ win'[w].init = win[w].init /\ win'[w].text = win[w].text
        /\ win'[w].kept = win[w].kept /\ win'[w].open = win[w].open
        /\ \A v \in Wins \ {w} : Alone(v)
    BY <1>1, <1>8 DEF doSend, Alone, Window
  <2>2. WindowOK(w)'
    BY <1>0, <1>1, <2>1 DEF WindowOK, dirty
  <2> QED BY <1>2, <2>1, <2>2
<1>9. ASSUME NEW w \in Wins, cmClose(w) PROVE Windows'
  <2>1. /\ win'[w].init = win[w].init /\ win'[w].text = win[w].text
        /\ win'[w].kept = win[w].kept
        /\ dirty(w) => win'[w].open = win[w].open
        /\ \A v \in Wins \ {w} : Alone(v)
    BY <1>1, <1>9 DEF cmClose, Alone, Window
  <2>2. WindowOK(w)'
    BY <1>0, <1>1, <2>1 DEF WindowOK, dirty
  <2> QED BY <1>2, <2>1, <2>2
<1>10. CASE Quit
  <2> SUFFICES ASSUME NEW w \in Wins PROVE WindowOK(w)'
    BY DEF Windows
  <2>1. /\ win'[w].init = win[w].init /\ win'[w].text = win[w].text
        /\ win'[w].kept = win[w].kept
    BY <1>1, <1>10 DEF Quit, Window
  <2>2. quitting # NotQuitting /\ quitting = {}
    BY <1>10 DEF Quit, NotQuitting
  <2>3. win[w].open => Safe(win[w].text)
    BY <2>2 DEF Quitting
  <2> QED BY <1>0, <1>1, <2>1, <2>3 DEF WindowOK, dirty
<1>11. ASSUME NEW w \in Wins, SaveDraft(w) PROVE Windows'
  <2>1. /\ win'[w].init = win[w].text /\ win'[w].text = win[w].text
        /\ win'[w].kept = win[w].text /\ win'[w].open = win[w].open
        /\ \A v \in Wins \ {w} : Alone(v)
    BY <1>1, <1>11 DEF SaveDraft, Alone, Window
  <2>2. win[w].text \in Nat
    BY <1>1 DEF Window
  <2>3. win[w].text \in ToSet(drafts')
    BY <1>11, <2>2, Saved DEF SaveDraft, TypeOK
  <2>4. WindowOK(w)'
    BY <2>1, <2>3 DEF WindowOK, dirty, Safe
  <2> QED BY <1>2, <2>1, <2>4
<1>12. ASSUME NEW w \in Wins, Discard(w) PROVE Windows'
  <2>1. /\ win'[w].init = win[w].init /\ win'[w].text = win[w].text
        /\ win'[w].kept = win[w].kept
        /\ \A v \in Wins \ {w} : Alone(v)
    BY <1>1, <1>12 DEF Discard, Closing, Alone, Window
  <2>2. win[w].text \in discarded'
    BY <1>12 DEF Discard
  <2>3. WindowOK(w)'
    BY <1>0, <1>1, <2>1, <2>2 DEF WindowOK, dirty, Safe
  <2> QED BY <1>2, <2>1, <2>3
<1>13. ASSUME \A w \in Wins : Alone(w) PROVE Windows'
  BY <1>0, <1>1, <1>13, AloneStays DEF Windows
<1>14. ASSUME NEW w \in Wins, AskedToQuit(w) \/ CalledOff(w) PROVE Windows'
  BY <1>13, <1>14 DEF AskedToQuit, CalledOff, Alone
<1>15. CASE cmQuit \/ OthersTake \/ UNCHANGED composeVars
  BY <1>13, <1>15 DEF cmQuit, OthersTake, composeVars, Alone
<1> QED BY <1>3, <1>4, <1>5, <1>6, <1>7, <1>8, <1>9, <1>10, <1>11, <1>12, <1>14, <1>15
        DEF ComposeNext

-----------------------------------------------------------------------------
(* The draft being dropped, the question, and the quit.                    *)

\* A step that is not about the draft being dropped
Elsewhere ==
    /\ UNCHANGED <<dropping, drafts, raced>>
    /\ dropping.w # NoOne => /\ win'[dropping.w].text = win[dropping.w].text
                             /\ win'[dropping.w].raw = win[dropping.w].raw

LEMMA DroppingStep ==
    ASSUME CInv, [ComposeNext]_composeVars
    PROVE  Dropping'
<1>0. /\ \A t : Safe(t) => Safe(t)'
      /\ TypeOK /\ win \in [Wins -> Window] /\ Dropping
  BY StaysKept DEF CInv, TypeOK
<1>1. ASSUME Elsewhere PROVE Dropping'
  <2>1. dropping.w # NoOne => Safe(win[dropping.w].text)'
    BY <1>0, <1>1 DEF Elsewhere, Dropping
  <2>2. ~raced' /\ dropping'.victim \notin {-1, 0} =>
          /\ dropping'.victim \in DOMAIN drafts'
          /\ drafts'[dropping'.victim] = win'[dropping'.w].raw
    <3>1. dropping.w = NoOne => dropping.victim = 0
      BY <1>0 DEF Dropping, NoDrop
    <3> QED BY <1>0, <1>1, <3>1 DEF Elsewhere, Dropping
  <2> QED BY <1>0, <1>1, <2>1, <2>2 DEF Elsewhere, Dropping
<1>2. ASSUME dropping = NoDrop, UNCHANGED <<dropping, drafts, raced>> PROVE Dropping'
  BY <1>1, <1>2 DEF Elsewhere, NoDrop
<1>3. ASSUME NEW w \in Wins, NEW then \in {"stay", "close"}, Drop(w, then),
             win'[w].text = win[w].text,
             Safe(win[w].text)'
      PROVE  Dropping'
  <2>1. w # NoOne
    BY ComposeOK
  <2>2. dropping'.w = w /\ dropping'.victim = -1
    BY <1>3 DEF Drop
  <2>3. Safe(win[w].text)' <=> Safe(win[dropping.w].text)'
    BY <2>2
  <2> QED BY <1>3, <2>1, <2>2, <2>3 DEF Dropping
<1>4. ASSUME NEW w \in Wins, openCompose(w) \/ editDraft(w) \/ Type(w) PROVE Dropping'
  BY <1>2, <1>4 DEF openCompose, editDraft, Type, Quiet, Free, MayOpen
<1>5. CASE DropFind
  <2>0. dropping.w \in Wins
    BY <1>5 DEF DropFind, CInv, TypeOK
  <2>1. PICK w \in Wins : w = dropping.w
    BY <2>0
  <2>2. /\ win'[w].text = win[w].text /\ win'[w].raw = win[w].raw
        /\ drafts' = drafts
    BY <1>0, <1>5, <2>1 DEF DropFind, Window
  <2>3. PICK v \in {0} \cup {j \in DOMAIN drafts : drafts[j] = win[w].raw} :
          dropping' = [dropping EXCEPT !.victim = v]
    BY <1>5, <2>1, Zenon DEF DropFind
  <2>4. dropping'.w = w /\ dropping'.victim = v
    BY <1>0, <2>1, <2>3 DEF TypeOK
  <2>5. Safe(win[w].text)
    BY <1>0, <1>5, <2>1 DEF DropFind, Dropping
  <2>6. Safe(win[dropping.w].text)'
    <3>1. Safe(win[w].text)'
      BY <1>0, <2>2, <2>5
    <3>2. Safe(win[w].text)' <=> Safe(win[dropping.w].text)'
      BY <2>4
    <3> QED BY <3>1, <3>2
  <2>7. w # NoOne
    BY ComposeOK
  <2> QED BY <2>2, <2>3, <2>4, <2>6, <2>7 DEF Dropping
<1>6. CASE DropDelete
  BY <1>6 DEF DropDelete, Dropping, NoDrop
<1>7. ASSUME NEW w \in Wins, doSend(w) PROVE Dropping'
  <2>1. win'[w].text = win[w].text
    BY <1>0, <1>7 DEF doSend, Window
  <2>2. Safe(win[w].text)'
    <3>1. win[w].text \in sentMail' \/ win[w].text \in discarded'
      BY <1>7 DEF doSend
    <3> QED BY <2>1, <3>1 DEF Safe
  <2> QED BY <1>3, <1>7, <2>1, <2>2 DEF doSend
<1>8. ASSUME NEW w \in Wins, cmClose(w) PROVE Dropping'
  BY <1>2, <1>8 DEF cmClose, Free
<1>9. ASSUME NEW w \in Wins, AskedToQuit(w) \/ CalledOff(w) PROVE Dropping'
  BY <1>1, <1>9 DEF AskedToQuit, CalledOff, Elsewhere
<1>10. CASE Quit
  BY <1>2, <1>10 DEF Quit
<1>11. ASSUME NEW w \in Wins, SaveDraft(w) PROVE Dropping'
  <2>1. win'[w].text = win[w].text /\ win[w].text \in Nat
    BY <1>0, <1>11 DEF SaveDraft, Window
  <2>2. win[w].text \in ToSet(drafts')
    BY <1>0, <1>11, <2>1, Saved DEF SaveDraft, TypeOK
  <2>3. Safe(win[w].text)'
    BY <2>1, <2>2 DEF Safe
  <2>4. Then \in {"stay", "close"} /\ Drop(w, Then)
    BY <1>11 DEF SaveDraft, Then
  <2> QED BY <1>3, <2>1, <2>3, <2>4
<1>12. ASSUME NEW w \in Wins, Discard(w) PROVE Dropping'
  <2>1. asking = w /\ w # NoOne
    BY <1>12, ComposeOK DEF Discard, Answered
  <2>2. dropping = NoDrop
    BY <2>1 DEF CInv, Asking
  <2> QED BY <1>2, <1>12, <2>2 DEF Discard
<1>13. CASE OthersTake
  <2>1. CASE dropping = NoDrop
    BY <1>13, <2>1 DEF OthersTake, Dropping, NoDrop
  <2>2. CASE dropping # NoDrop
    <3>1. raced' /\ UNCHANGED <<dropping, win>>
      BY <1>13, <2>2 DEF OthersTake
    <3>2. dropping.w # NoOne => Safe(win[dropping.w].text)'
      BY <1>0, <3>1 DEF Dropping
    <3>3. dropping.w = NoOne => dropping = NoDrop
      BY <1>0 DEF Dropping
    <3> QED BY <3>1, <3>2, <3>3 DEF Dropping, NoDrop
  <2> QED BY <2>1, <2>2
<1>14. CASE cmQuit \/ UNCHANGED composeVars
  BY <1>1, <1>14 DEF cmQuit, composeVars, Elsewhere
<1> QED BY <1>4, <1>5, <1>6, <1>7, <1>8, <1>9, <1>10, <1>11, <1>12, <1>13, <1>14
        DEF ComposeNext

LEMMA AskingStep ==
    ASSUME CInv, [ComposeNext]_composeVars
    PROVE  Asking'
<1>0. TypeOK /\ win \in [Wins -> Window] /\ Asking
  BY DEF CInv, TypeOK
<1>1. ASSUME asking' = NoOne PROVE Asking'
  BY <1>1 DEF Asking
<1>2. ASSUME UNCHANGED <<asking, win, dropping, quitting>> PROVE Asking'
  BY <1>0, <1>2 DEF Asking, dirty
<1>3. ASSUME NEW w \in Wins, openCompose(w) \/ editDraft(w) \/ Type(w) \/ doSend(w)
      PROVE  Asking'
  BY <1>1, <1>3 DEF openCompose, editDraft, Type, doSend, MayOpen, Free, Quiet
<1>4. ASSUME NEW w \in Wins, cmClose(w) PROVE Asking'
  <2>1. asking' = NoOne \/ (asking' = w /\ dirty(w) /\ UNCHANGED win)
    BY <1>4 DEF cmClose, Free
  <2>2. dropping' = NoDrop /\ quitting' = NotQuitting
    BY <1>4 DEF cmClose, Free
  <2> QED BY <2>1, <2>2 DEF Asking, dirty
<1>5. ASSUME NEW w \in Wins, AskedToQuit(w) PROVE Asking'
  <2>1. asking' = NoOne \/ (asking' = w /\ dirty(w) /\ w \in quitting')
    BY <1>5 DEF AskedToQuit
  <2>2. dropping' = NoDrop /\ UNCHANGED win
    BY <1>5 DEF AskedToQuit
  <2> QED BY <2>1, <2>2 DEF Asking, dirty
<1>6. ASSUME NEW w \in Wins, SaveDraft(w) \/ Discard(w) \/ CalledOff(w) PROVE Asking'
  BY <1>1, <1>6 DEF SaveDraft, Discard, CalledOff, Answered
<1>7. CASE DropFind \/ DropDelete
  <2>1. dropping # NoDrop
    BY <1>7 DEF DropFind, DropDelete, NoDrop
  <2>2. asking = NoOne /\ asking' = asking
    BY <1>0, <1>7, <2>1 DEF Asking, DropFind, DropDelete
  <2> QED BY <1>1, <2>2
<1>8. CASE Quit
  <2>1. quitting = {} /\ quitting # NotQuitting /\ asking' = asking
    BY <1>8 DEF Quit, NotQuitting
  <2> QED BY <1>0, <1>1, <2>1 DEF Asking
<1>9. CASE cmQuit
  BY <1>1, <1>9 DEF cmQuit, Free
<1>10. CASE OthersTake \/ UNCHANGED composeVars
  BY <1>2, <1>10 DEF OthersTake, composeVars
<1> QED BY <1>3, <1>4, <1>5, <1>6, <1>7, <1>8, <1>9, <1>10 DEF ComposeNext

LEMMA QuittingStep ==
    ASSUME CInv, [ComposeNext]_composeVars
    PROVE  Quitting'
<1>0. /\ \A t : Safe(t) => Safe(t)'
      /\ TypeOK /\ win \in [Wins -> Window] /\ Quitting /\ Windows
  BY StaysKept DEF CInv, TypeOK
\* No window's text changes, none opens, and one goes from those still to be
\* asked, whose text is kept.
<1>1. ASSUME quitting # NotQuitting,
             \A v \in Wins : /\ win'[v].text = win[v].text
                             /\ win'[v].open => win[v].open,
             \A v \in (Wins \ quitting') \cap quitting : Safe(win[v].text)'
      PROVE  Quitting'
  <2> SUFFICES ASSUME NEW v \in Wins \ quitting', win'[v].open PROVE Safe(win[v].text)'
    BY DEF Quitting
  <2>1. CASE v \in quitting
    BY <1>1, <2>1
  <2>2. CASE v \notin quitting
    <3>1. Safe(win[v].text)
      BY <1>0, <1>1, <2>2 DEF Quitting
    <3> QED BY <1>0, <1>1, <3>1
  <2> QED BY <2>1, <2>2
<1>2. ASSUME quitting' = NotQuitting PROVE Quitting'
  BY <1>2 DEF Quitting
<1>3. ASSUME UNCHANGED <<win, quitting>> PROVE Quitting'
  BY <1>1, <1>2, <1>3
<1>4. ASSUME NEW w \in Wins, openCompose(w) \/ editDraft(w) \/ Type(w) \/ doSend(w) \/ cmClose(w)
      PROVE  Quitting'
  BY <1>2, <1>4 DEF openCompose, editDraft, Type, doSend, cmClose, MayOpen, Free, Quiet
<1>5. ASSUME NEW w \in Wins, AskedToQuit(w) PROVE Quitting'
  <2>1. UNCHANGED <<win, drafts, sentMail, discarded>> /\ quitting # NotQuitting
    BY <1>5 DEF AskedToQuit
  <2>2. ~dirty(w) => Safe(win[w].text)'
    BY <1>0, <2>1 DEF Windows, WindowOK, dirty
  <2>3. quitting' = quitting \/ (~dirty(w) /\ quitting' = quitting \ {w})
    BY <1>5 DEF AskedToQuit
  <2> QED BY <1>1, <2>1, <2>2, <2>3
<1>6. ASSUME NEW w \in Wins, SaveDraft(w) \/ Discard(w) PROVE Quitting'
  <2>1. CASE quitting = NotQuitting
    BY <1>2, <1>6, <2>1 DEF SaveDraft, Discard, Answered
  <2>2. CASE quitting # NotQuitting
    <3>1. quitting' = quitting \ {w}
      BY <1>6, <2>2 DEF SaveDraft, Discard, Answered
    <3>2. \A v \in Wins : win'[v].text = win[v].text /\ (win'[v].open => win[v].open)
      <4>1. CASE SaveDraft(w)
        BY <1>0, <4>1 DEF SaveDraft, Window
      <4>2. CASE Discard(w)
        <5>1. win' = win
          BY <2>2, <4>2 DEF Discard, Closing, Then
        <5> QED BY <5>1
      <4> QED BY <1>6, <4>1, <4>2
    <3>3. Safe(win[w].text)'
      <4>1. CASE SaveDraft(w)
        <5>1. win[w].text \in Nat
          BY <1>0 DEF Window
        <5>2. win[w].text \in ToSet(drafts')
          BY <1>0, <4>1, <5>1, Saved DEF SaveDraft, TypeOK
        <5> QED BY <3>2, <5>2 DEF Safe
      <4>2. CASE Discard(w)
        <5>1. win[w].text \in discarded'
          BY <4>2 DEF Discard
        <5> QED BY <3>2, <5>1 DEF Safe
      <4> QED BY <1>6, <4>1, <4>2
    <3> QED BY <1>1, <2>2, <3>1, <3>2, <3>3
  <2> QED BY <2>1, <2>2
<1>7. ASSUME NEW w \in Wins, CalledOff(w) PROVE Quitting'
  BY <1>2, <1>7 DEF CalledOff
<1>8. CASE DropFind \/ DropDelete
  <2>0. dropping.w \in Wins
    BY <1>0, <1>8 DEF DropFind, DropDelete, TypeOK
  <2>1. PICK w \in Wins : w = dropping.w
    BY <2>0
  <2>2. \A v \in Wins : win'[v].text = win[v].text /\ (win'[v].open => win[v].open)
    <3>1. CASE DropFind
      BY <1>0, <2>1, <3>1 DEF DropFind, Window
    <3>2. CASE DropDelete
      BY <1>0, <2>1, <3>2 DEF DropDelete, Closing, Window
    <3> QED BY <1>8, <3>1, <3>2
  <2>3. quitting' = quitting
    BY <1>8 DEF DropFind, DropDelete
  <2> QED BY <1>1, <1>2, <2>2, <2>3
<1>9. CASE Quit
  BY <1>2, <1>9 DEF Quit
<1>10. CASE cmQuit
  <2>1. UNCHANGED win /\ quitting' = {w \in Wins : win[w].open}
    BY <1>10 DEF cmQuit
  <2> QED BY <2>1 DEF Quitting
<1>11. CASE OthersTake \/ UNCHANGED composeVars
  BY <1>3, <1>11 DEF OthersTake, composeVars
<1> QED BY <1>4, <1>5, <1>6, <1>7, <1>8, <1>9, <1>10, <1>11 DEF ComposeNext

-----------------------------------------------------------------------------
(* The invariant and the theorems.                                         *)

LEMMA CInvInit == ComposeInit => CInv
<1> SUFFICES ASSUME ComposeInit PROVE CInv
  OBVIOUS
<1>1. TypeOK
  <2>1. drafts \in Seq(Nat)
    <3>1. /\ drafts = FirstDrafts /\ Len(FirstDrafts) \in Nat
          /\ DOMAIN FirstDrafts = 1 .. Len(FirstDrafts)
          /\ \A i \in 1 .. Len(FirstDrafts) : FirstDrafts[i] \in Nat
          /\ FirstDrafts = [i \in 1 .. Len(FirstDrafts) |-> FirstDrafts[i]]
      BY ComposeOK DEF ComposeInit
    <3> QED BY <3>1, SeqDef
  <2>2. Closed \in Window
    BY DEF Closed, Window, Blank
  <2>3. lastText \in Nat
    BY ComposeOK DEF ComposeInit
  <2> QED BY <2>1, <2>2, <2>3 DEF ComposeInit, TypeOK, NoDrop
<1>2. Windows
  BY DEF ComposeInit, Windows, WindowOK, Closed, Safe, dirty
<1>3. Dropping /\ Asking /\ Quitting
  BY DEF ComposeInit, Dropping, Asking, Quitting, NoDrop
<1> QED BY <1>1, <1>2, <1>3 DEF CInv

LEMMA CInvStep == CInv /\ [ComposeNext]_composeVars => CInv'
BY TypeStep, WindowsStep, DroppingStep, AskingStep, QuittingStep DEF CInv

(* However windows are opened, written in, sent, closed and quit, and      *)
(* whatever others do to Drafts meanwhile, what was written in a window    *)
(* that has gone is sent, in Drafts, or was given up (valid, doSend,       *)
(* doSaveDraft, dropSourceDraft).                                          *)
THEOREM UnsentAlwaysKept == ComposeSpec => []UnsentIsKept
<1>1. CInv => UnsentIsKept
  BY DEF CInv, Windows, WindowOK, Safe, UnsentIsKept
<1> QED BY <1>1, CInvInit, CInvStep, PTL DEF ComposeSpec

(* A removal takes the draft its window was opened from, unless Drafts     *)
(* changed after the two were compared, and no window saves twice what it  *)
(* holds (dropSourceDraft, valid).                                         *)
THEOREM DraftsAlwaysOwn == ComposeSpec => DraftsAreOwn
<1>1. ASSUME CInv, DropDelete, drafts' # drafts
      PROVE  raced \/ drafts[dropping.victim] = win[dropping.w].raw
  <2>1. dropping.victim \in DOMAIN drafts
    BY <1>1 DEF DropDelete
  <2>2. dropping.victim \notin {-1, 0}
    BY <1>1, <2>1 DEF CInv, TypeOK
  <2> QED BY <1>1, <2>2 DEF CInv, Dropping
<1>2. ASSUME CInv, NEW w \in Wins, SaveDraft(w) PROVE win[w].text # win[w].kept
  <2>1. asking = w /\ w # NoOne
    BY <1>2, ComposeOK DEF SaveDraft, Answered
  <2>2. dirty(w)
    BY <1>2, <2>1 DEF CInv, Asking
  <2> QED BY <1>2, <2>2 DEF CInv, Windows, WindowOK, dirty
<1>3. CInv /\ [ComposeNext]_composeVars =>
        /\ [DropDelete /\ drafts' # drafts
              => raced \/ drafts[dropping.victim] = win[dropping.w].raw]_composeVars
        /\ [\A w \in Wins : SaveDraft(w) => win[w].text # win[w].kept]_composeVars
  BY <1>1, <1>2
<1> QED BY <1>3, CInvInit, CInvStep, PTL
        DEF ComposeSpec, DraftsAreOwn, OnlyItsOwnDraft, SavedOnce

-----------------------------------------------------------------------------
(* The main window.                                                        *)
(*                                                                         *)
(* The rows are a view of the list (RowsAreView), and unless somebody else *)
(* removed a message, what was listed, or asked about, is still where it   *)
(* was listed (ListHolds): so a place read before a question, and used     *)
(* after it, is that of the message meant.                                 *)

Listed == [id : Msgs, new : BOOLEAN]

MailTypes ==
    /\ box \in [Folders -> Seq(Msgs)] /\ unread \subseteq Msgs /\ arrived \subseteq Msgs
    /\ gMbox \in Folders /\ gAll \in Seq(Listed)
    /\ gFilter \in BOOLEAN /\ gSort \in {"date", "unread"} /\ gSortRev \in BOOLEAN
    /\ gRows \in Seq(DOMAIN gAll) /\ focused \in Nat \ {0}
    /\ gUnread \in [Folders -> Int]
    /\ shifted \in BOOLEAN /\ lowered \in BOOLEAN /\ excused \in BOOLEAN
    /\ became \subseteq Msgs /\ fresh \subseteq became
    /\ pull \in {"no", "runs", "exited"} /\ unreadBefore \in Int /\ lastUnread \in Int

\* Shown are those that the filter finds, and one of them is highlighted.
IsView(rows, all, filter) ==
    /\ rows \in Seq(DOMAIN all)
    /\ \A i \in DOMAIN all :
         (\E k \in DOMAIN rows : rows[k] = i) <=> (filter => all[i].id \in Matching)
RowsAreView == IsView(gRows, gAll, gFilter) /\ (gRows # <<>> => focused \in DOMAIN gRows)

\* Unless something was removed, what was listed is where it was listed.
Held(i, id) == i \in DOMAIN box[gMbox] /\ box[gMbox][i] = id
ListHolds ==
    ~shifted => /\ \A i \in DOMAIN gAll : Held(i, gAll[i].id)
                /\ About => Held(ask.idx, ask.id)

HandInv == MailTypes /\ RowsAreView /\ ListHolds /\ MessageInHand

-----------------------------------------------------------------------------
(* The view.                                                               *)

LEMMA ViewIs ==
    ASSUME NEW all \in Seq(Listed), NEW filter, NEW sort, NEW rev
    PROVE  IsView(applyView(all, filter, sort, rev), all, filter)
<1> DEFINE P == DOMAIN all
           A == {i \in P : filter => all[i].id \in Matching}
           N == {i \in P : all[i].new}
           O == {i \in P : ~all[i].new}
           places == [i \in P |-> i]
<1>1. /\ P = 1 .. Len(all) /\ Len(all) \in Nat /\ A \subseteq P
      /\ \A i \in P : i \in N \/ i \in O
      /\ \A i \in P : i \in A <=> (filter => all[i].id \in Matching)
  OBVIOUS
<1>2. places \in Seq(P) /\ DOMAIN places = P /\ \A i \in P : places[i] = i
  BY <1>1, IsASeq
<1>11. PICK shown : shown = Keep(places, A)
  OBVIOUS
<1>12. PICK first : first = Keep(shown, N)
  OBVIOUS
<1>13. PICK rest : rest = Keep(shown, O)
  OBVIOUS
<1> DEFINE rows == IF sort = "unread" THEN first \o rest ELSE shown
<1>3. applyView(all, filter, sort, rev) = IF rev THEN Reverse(rows) ELSE rows
  BY <1>11, <1>12, <1>13, Zenon DEF applyView
<1> HIDE DEF places, N, O, A
<1>4. /\ shown \in Seq(A)
      /\ \A i \in A : \E k \in DOMAIN shown : shown[k] = i
  <2>1. /\ shown \in Seq(P \cap A)
        /\ \A j \in DOMAIN places :
             places[j] \in A => \E k \in DOMAIN shown : shown[k] = places[j]
    BY <1>2, <1>11, KeepMembers
  <2>2. P \cap A = A
    BY <1>1
  <2> QED BY <1>1, <1>2, <2>1, <2>2
<1>5. /\ first \in Seq(A \cap N) /\ rest \in Seq(A \cap O)
      /\ \A j \in DOMAIN shown : shown[j] \in N => \E k \in DOMAIN first : first[k] = shown[j]
      /\ \A j \in DOMAIN shown : shown[j] \in O => \E k \in DOMAIN rest : rest[k] = shown[j]
  <2>1. /\ first \in Seq(A \cap N)
        /\ \A j \in DOMAIN shown : shown[j] \in N => \E k \in DOMAIN first : first[k] = shown[j]
    BY <1>4, <1>12, KeepMembers
  <2>2. /\ rest \in Seq(A \cap O)
        /\ \A j \in DOMAIN shown : shown[j] \in O => \E k \in DOMAIN rest : rest[k] = shown[j]
    BY <1>4, <1>13, KeepMembers
  <2> QED BY <2>1, <2>2
<1> HIDE DEF P
<1>6. /\ rows \in Seq(A)
      /\ \A i \in A : \E k \in DOMAIN rows : rows[k] = i
  <2>1. CASE sort # "unread"
    BY <1>4, <2>1
  <2>2. CASE sort = "unread"
    <3>1. first \in Seq(A) /\ rest \in Seq(A)
      BY <1>5
    <3>2. PICK q : q = first \o rest
      OBVIOUS
    <3>3. /\ q \in Seq(A) /\ Len(q) = Len(first) + Len(rest)
          /\ \A k \in 1 .. Len(first) : q[k] = first[k]
          /\ \A k \in 1 .. Len(rest) : q[Len(first) + k] = rest[k]
      BY <3>1, <3>2
    <3>4. ASSUME NEW i \in A PROVE \E k \in DOMAIN q : q[k] = i
      <4>1. PICK j \in DOMAIN shown : shown[j] = i
        BY <1>4
      <4>2. i \in N \/ i \in O
        BY <1>1
      <4>3. CASE i \in N
        <5>1. PICK k \in DOMAIN first : first[k] = i
          BY <1>5, <4>1, <4>3
        <5>2. k \in 1 .. Len(first) /\ k \in DOMAIN q
          BY <3>1, <3>3
        <5> QED BY <3>3, <5>1, <5>2
      <4>4. CASE i \in O
        <5>1. PICK k \in DOMAIN rest : rest[k] = i
          BY <1>5, <4>1, <4>4
        <5>2. k \in 1 .. Len(rest) /\ Len(first) + k \in DOMAIN q
          BY <3>1, <3>3
        <5> QED BY <3>3, <5>1, <5>2
      <4> QED BY <4>2, <4>3, <4>4
    <3> QED BY <2>2, <3>2, <3>3, <3>4
  <2> QED BY <2>1, <2>2
<1> HIDE DEF rows
<1>7. PICK v : v = applyView(all, filter, sort, rev)
  OBVIOUS
<1>8. v \in Seq(A) /\ \A i \in A : \E k \in DOMAIN v : v[k] = i
  <2>1. CASE ~rev
    BY <1>3, <1>6, <1>7, <2>1
  <2>2. CASE rev
    <3>1. v = [k \in 1 .. Len(rows) |-> rows[Len(rows) - k + 1]]
      BY <1>3, <1>7, <2>2 DEF Reverse
    <3>2. /\ Len(rows) \in Nat /\ DOMAIN rows = 1 .. Len(rows)
          /\ \A k \in 1 .. Len(rows) : rows[k] \in A /\ Len(rows) - k + 1 \in 1 .. Len(rows)
      BY <1>6
    <3>3. v \in Seq(A) /\ DOMAIN v = 1 .. Len(rows)
      BY <3>1, <3>2, IsASeq
    <3>4. ASSUME NEW i \in A PROVE \E k \in DOMAIN v : v[k] = i
      <4>1. PICK k \in 1 .. Len(rows) : rows[k] = i
        BY <1>6, <3>2
      <4>2. PICK j : j = Len(rows) - k + 1
        OBVIOUS
      <4>3. j \in 1 .. Len(rows) /\ Len(rows) - j + 1 = k
        BY <3>2, <4>2
      <4> QED BY <3>1, <3>3, <4>1, <4>3
    <3> QED BY <3>3, <3>4
  <2> QED BY <2>1, <2>2
<1>9. v \in Seq(DOMAIN all)
  BY <1>1, <1>8 DEF P
<1>10. ASSUME NEW i \in DOMAIN all
       PROVE  (\E k \in DOMAIN v : v[k] = i) <=> (filter => all[i].id \in Matching)
  <2>1. (filter => all[i].id \in Matching) <=> i \in A
    BY <1>1 DEF P
  <2>2. \A k \in DOMAIN v : v[k] \in A
    BY <1>8
  <2> QED BY <1>8, <2>1, <2>2
<1> QED BY <1>7, <1>9, <1>10 DEF IsView

\* One of a list of numbers is the largest.
LEMMA LargestOf ==
    ASSUME NEW q \in Seq(Nat), q # <<>>
    PROVE  \E k \in DOMAIN q : \A j \in DOMAIN q : q[j] <= q[k]
<1> DEFINE T == {n \in Nat : n \in 1 .. Len(q) =>
                               \E k \in 1 .. n : \A j \in 1 .. n : q[j] <= q[k]}
<1>1. Len(q) \in Nat \ {0} /\ DOMAIN q = 1 .. Len(q) /\ \A i \in 1 .. Len(q) : q[i] \in Nat
  OBVIOUS
<1>2. 0 \in T
  OBVIOUS
<1>3. ASSUME NEW n \in Nat, n \in T PROVE n + 1 \in T
  <2> SUFFICES ASSUME n + 1 \in 1 .. Len(q)
               PROVE  \E k \in 1 .. n + 1 : \A j \in 1 .. n + 1 : q[j] <= q[k]
    OBVIOUS
  <2>1. CASE n = 0
    BY <1>1, <2>1
  <2>2. CASE n # 0
    <3>1. PICK k \in 1 .. n : \A j \in 1 .. n : q[j] <= q[k]
      BY <1>1, <1>3, <2>2
    <3>2. /\ k \in 1 .. n + 1 /\ n + 1 \in 1 .. n + 1
          /\ \A j \in 1 .. n + 1 : (j \in 1 .. n \/ j = n + 1) /\ q[j] \in Nat
      BY <1>1
    <3>3. CASE q[n + 1] <= q[k]
      BY <3>1, <3>2, <3>3
    <3>4. CASE ~(q[n + 1] <= q[k])
      <4>1. \A j \in 1 .. n + 1 : q[j] <= q[n + 1]
        BY <3>1, <3>2, <3>4
      <4> QED BY <3>2, <4>1
    <3> QED BY <3>3, <3>4
  <2> QED BY <2>1, <2>2
<1> HIDE DEF T
<1>4. \A n \in Nat : n \in T
  BY <1>2, <1>3, SetInduction
<1>5. Len(q) \in T
  BY <1>1, <1>4
<1>6. \E k \in 1 .. Len(q) : \A j \in 1 .. Len(q) : q[j] <= q[k]
  BY <1>1, <1>5 DEF T
<1> QED BY <1>1, <1>6

LEMMA StartRowIs ==
    ASSUME NEW rows \in Seq(Nat), NEW sort
    PROVE  /\ startRow(rows, sort) \in Nat \ {0}
           /\ rows # <<>> => startRow(rows, sort) \in DOMAIN rows
<1>1. CASE sort # "date" \/ rows = <<>>
  <2>1. startRow(rows, sort) = 1
    BY <1>1 DEF startRow
  <2> QED BY <2>1
<1>2. CASE ~(sort # "date" \/ rows = <<>>)
  <2>1. startRow(rows, sort) = CHOOSE k \in DOMAIN rows : \A j \in DOMAIN rows : rows[j] <= rows[k]
    BY <1>2 DEF startRow
  <2>2. startRow(rows, sort) \in DOMAIN rows
    BY <1>2, <2>1, LargestOf
  <2> QED BY <2>2
<1> QED BY <1>1, <1>2

LEMMA RowOfIs ==
    ASSUME NEW rows \in Seq(Nat), NEW i, NEW otherwise \in Nat \ {0}
    PROVE  /\ RowOf(i, rows, otherwise) \in Nat \ {0}
           /\ (\E k \in DOMAIN rows : rows[k] = i) =>
                /\ RowOf(i, rows, otherwise) \in DOMAIN rows
                /\ rows[RowOf(i, rows, otherwise)] = i
           /\ otherwise \in DOMAIN rows => RowOf(i, rows, otherwise) \in DOMAIN rows
<1>1. CASE \E k \in DOMAIN rows : rows[k] = i
  <2>1. PICK r : r = RowOf(i, rows, otherwise)
    OBVIOUS
  <2>2. r = CHOOSE k \in DOMAIN rows : rows[k] = i
    BY <1>1, <2>1 DEF RowOf
  <2>3. r \in DOMAIN rows /\ rows[r] = i
    BY <1>1, <2>2
  <2> QED BY <2>1, <2>3
<1>2. CASE ~\E k \in DOMAIN rows : rows[k] = i
  <2>1. RowOf(i, rows, otherwise) = otherwise
    BY <1>2 DEF RowOf
  <2> QED BY <1>2, <2>1
<1> QED BY <1>1, <1>2

Stays(rows, k) ==
    focused \in DOMAIN gRows /\ (\E j \in DOMAIN rows : rows[j] = gRows[focused])
    => rows[k] = gRows[focused]

LEMMA Viewed ==
    ASSUME NEW all \in Seq(Listed), NEW filter, NEW sort, NEW rev, NEW reset,
           viewChanged(all, filter, sort, rev, reset)
    PROVE  /\ IsView(gRows', all, filter)
           /\ focused' \in Nat \ {0} /\ (gRows' # <<>> => focused' \in DOMAIN gRows')
           /\ body' = loadContent(box[gMbox], gRows', focused')
           /\ reset \/ Stays(gRows', focused')
<1>1. PICK rows : rows = gRows'
  OBVIOUS
<1>2. /\ rows = applyView(all, filter, sort, rev)
      /\ focused' = IF ~reset /\ focused \in DOMAIN gRows
                    THEN RowOf(gRows[focused], rows, startRow(rows, sort))
                    ELSE startRow(rows, sort)
      /\ body' = loadContent(box[gMbox], rows, focused')
  BY <1>1 DEF viewChanged
<1>3. IsView(rows, all, filter)
  BY <1>2, ViewIs
<1>4. rows \in Seq(Nat)
  <2>1. rows \in Seq(DOMAIN all) /\ DOMAIN all \subseteq Nat
    BY <1>3 DEF IsView
  <2> QED BY <2>1
<1>5. PICK s : s = startRow(rows, sort)
  OBVIOUS
<1>6. s \in Nat \ {0} /\ (rows # <<>> => s \in DOMAIN rows)
  BY <1>4, <1>5, StartRowIs
<1>7. CASE ~reset /\ focused \in DOMAIN gRows
  <2>1. PICK r : r = RowOf(gRows[focused], rows, s)
    OBVIOUS
  <2>2. focused' = r
    BY <1>2, <1>5, <1>7, <2>1
  <2>3. /\ r \in Nat \ {0} /\ (s \in DOMAIN rows => r \in DOMAIN rows)
        /\ (\E k \in DOMAIN rows : rows[k] = gRows[focused]) => rows[r] = gRows[focused]
    BY <1>4, <1>6, <2>1, RowOfIs
  <2> QED BY <1>1, <1>2, <1>3, <1>6, <2>2, <2>3, Zenon DEF Stays
<1>8. CASE ~(~reset /\ focused \in DOMAIN gRows)
  <2>1. focused' = s
    BY <1>2, <1>5, <1>8
  <2> QED BY <1>1, <1>2, <1>3, <1>6, <1>8, <2>1, Zenon DEF Stays
<1> QED BY <1>7, <1>8

\* What the mailbox is read as
Copy(b, u, f) == [i \in DOMAIN b[f] |-> [id |-> b[f][i], new |-> b[f][i] \in u]]

LEMMA CopyIs ==
    ASSUME NEW b \in [Folders -> Seq(Msgs)], NEW u, NEW f \in Folders
    PROVE  /\ Copy(b, u, f) \in Seq(Listed) /\ DOMAIN Copy(b, u, f) = DOMAIN b[f]
           /\ \A i \in DOMAIN b[f] : /\ Copy(b, u, f)[i].id = b[f][i]
                                     /\ Copy(b, u, f)[i].new <=> b[f][i] \in u
<1>1. PICK q \in Seq(Msgs) : q = b[f]
  OBVIOUS
<1>2. Copy(b, u, f) = [i \in 1 .. Len(q) |-> [id |-> q[i], new |-> q[i] \in u]]
  BY <1>1 DEF Copy
<1>3. \A i \in 1 .. Len(q) : q[i] \in Msgs
  BY <1>1
<1>4. \A i \in 1 .. Len(q) : [id |-> q[i], new |-> q[i] \in u] \in Listed
  BY <1>3 DEF Listed
<1>5. Len(q) \in Nat
  BY <1>1
<1>6. [i \in 1 .. Len(q) |-> [id |-> q[i], new |-> q[i] \in u]] \in Seq(Listed)
  BY <1>4, <1>5, IsASeq
<1>7. PICK c : c = [i \in 1 .. Len(q) |-> [id |-> q[i], new |-> q[i] \in u]]
  OBVIOUS
<1>8. DOMAIN c = 1 .. Len(q) /\ DOMAIN q = 1 .. Len(q)
  BY <1>1, <1>7
<1>9. \A i \in 1 .. Len(q) : c[i].id = q[i] /\ (c[i].new <=> q[i] \in u)
  BY <1>7
<1>10. c = Copy(b, u, f) /\ c \in Seq(Listed)
  BY <1>2, <1>6, <1>7
<1> QED BY <1>1, <1>8, <1>9, <1>10

LEMMA Loaded ==
    ASSUME NEW f \in Folders, NEW filter, NEW keep, NEW b \in [Folders -> Seq(Msgs)], NEW u,
           NEW ok, NEW counts \in [Folders -> Int], focused \in Nat \ {0},
           loadFolder(f, filter, keep, b, u, ok, counts)
    PROVE  /\ gMbox' = f /\ gFilter' = filter /\ gAll' \in Seq(Listed)
           /\ gAll' = Copy(b, u, f) \/ (gAll' = <<>> /\ ~ok)
           /\ IsView(gRows', gAll', filter)
           /\ focused' \in Nat \ {0} /\ (gRows' # <<>> => focused' \in DOMAIN gRows')
           /\ body' = loadContent(b[f], gRows', focused')
           /\ gUnread' = [counts EXCEPT ![f] = NewRows(gAll')]
           /\ shifted' = FALSE /\ UNCHANGED <<gSort, gSortRev>>
           /\ ~keep \/ Stays(gRows', focused')
<1>1. PICK rows : rows = gRows'
  OBVIOUS
<1>2. PICK all : all = gAll'
  OBVIOUS
<1>3. PICK s : s = startRow(rows, gSort')
  OBVIOUS
<1>4. PICK k : k = IF keep /\ focused \in DOMAIN gRows
                   THEN RowOf(gRows[focused], rows, focused) ELSE s
  OBVIOUS
<1>5. /\ gMbox' = f /\ gFilter' = filter /\ gSort' = gSort /\ gSortRev' = gSortRev
      /\ all = IF ok THEN Copy(b, u, f) ELSE <<>>
      /\ rows = applyView(all, filter, gSort, gSortRev)
      /\ focused' = Clamp(k, rows)
      /\ body' = loadContent(b[f], rows, focused')
      /\ gUnread' = [counts EXCEPT ![f] = NewRows(all)]
      /\ shifted' = FALSE
  BY <1>1, <1>2, <1>3, <1>4 DEF loadFolder, Copy
<1>6. all \in Seq(Listed) /\ (all = Copy(b, u, f) \/ (all = <<>> /\ ~ok))
  <2>1. Copy(b, u, f) \in Seq(Listed) /\ <<>> \in Seq(Listed)
    BY CopyIs
  <2> QED BY <1>5, <2>1
<1>7. IsView(rows, all, filter)
  BY <1>5, <1>6, ViewIs
<1>8. rows \in Seq(Nat)
  <2>1. rows \in Seq(DOMAIN all) /\ DOMAIN all \subseteq Nat
    BY <1>6, <1>7 DEF IsView
  <2> QED BY <2>1
<1>9. s \in Nat \ {0}
  BY <1>3, <1>8, StartRowIs
<1>10. /\ k \in Nat \ {0}
       /\ keep /\ focused \in DOMAIN gRows /\ (\E j \in DOMAIN rows : rows[j] = gRows[focused])
            => k \in DOMAIN rows /\ rows[k] = gRows[focused]
  <2>1. PICK r : r = RowOf(gRows[focused], rows, focused)
    OBVIOUS
  <2>2. /\ r \in Nat \ {0}
        /\ (\E j \in DOMAIN rows : rows[j] = gRows[focused])
             => r \in DOMAIN rows /\ rows[r] = gRows[focused]
    BY <1>8, <2>1, RowOfIs
  <2> QED BY <1>4, <1>9, <2>1, <2>2
<1>11. /\ focused' \in Nat \ {0} /\ (rows # <<>> => focused' \in DOMAIN rows)
       /\ k \in DOMAIN rows => focused' = k
  <2>1. /\ Len(rows) \in Nat /\ DOMAIN rows = 1 .. Len(rows) /\ (rows = <<>> <=> Len(rows) = 0)
    BY <1>8
  <2>2. focused' = IF k > Len(rows) THEN (IF rows = <<>> THEN 1 ELSE Len(rows)) ELSE k
    BY <1>5 DEF Clamp
  <2>3. k \in Nat \ {0}
    BY <1>10
  <2>4. PICK n : n = Len(rows)
    OBVIOUS
  <2>5. CASE k > n
    <3>1. ~(k \in DOMAIN rows)
      BY <2>1, <2>3, <2>4, <2>5
    <3>2. CASE rows = <<>>
      BY <2>2, <2>4, <2>5, <3>1, <3>2
    <3>3. CASE rows # <<>>
      <4>1. focused' = n /\ n \in Nat \ {0} /\ n \in 1 .. n
        BY <2>1, <2>2, <2>4, <2>5, <3>3
      <4> QED BY <2>1, <2>4, <3>1, <4>1
    <3> QED BY <3>2, <3>3
  <2>6. CASE ~(k > n)
    BY <2>1, <2>2, <2>3, <2>4, <2>6
  <2> QED BY <2>5, <2>6
<1>12. ~keep \/ Stays(rows, focused')
  BY <1>10, <1>11 DEF Stays
<1> QED BY <1>1, <1>2, <1>5, <1>6, <1>7, <1>11, <1>12

LEMMA BodyIs ==
    ASSUME NEW all, NEW b, NEW rows \in Seq(DOMAIN all), NEW k \in DOMAIN rows,
           \A i \in DOMAIN all : i \in DOMAIN b /\ b[i] = all[i].id
    PROVE  loadContent(b, rows, k) = all[rows[k]].id
<1>1. rows[k] \in DOMAIN all
  OBVIOUS
<1> QED BY <1>1 DEF loadContent

-----------------------------------------------------------------------------
(* The list is left as it is.                                              *)

\* Nobody else has removed one, and those that were there are where they were.
Grown ==
    ~shifted' => /\ ~shifted
                 /\ \A i \in DOMAIN box[gMbox] : i \in DOMAIN box'[gMbox]
                                                 /\ box'[gMbox][i] = box[gMbox][i]

LEMMA ListLeft ==
    ASSUME HandInv, UNCHANGED list, Grown, UNCHANGED ask \/ ~About' \/ ListHolds',
           RightMessage'
    PROVE  RowsAreView' /\ ListHolds' /\ MessageInHand'
<1>1. /\ gMbox' = gMbox /\ gAll' = gAll /\ gFilter' = gFilter /\ gRows' = gRows
      /\ focused' = focused /\ body' = body /\ gUnread' = gUnread
  BY DEF list
<1>2. RowsAreView'
  BY <1>1 DEF HandInv, RowsAreView, IsView
<1>3. ListHolds'
  <2>1. CASE ListHolds'
    BY <2>1
  <2>2. CASE ~ListHolds'
    <3> SUFFICES ASSUME ~shifted'
                 PROVE  /\ \A i \in DOMAIN gAll' : Held(i, gAll[i].id)'
                        /\ About' => Held(ask.idx, ask.id)'
      BY DEF ListHolds
    <3>1. /\ \A i \in DOMAIN gAll : Held(i, gAll[i].id)
          /\ About => Held(ask.idx, ask.id)
      BY DEF HandInv, ListHolds, Grown
    <3>2. ASSUME NEW i, NEW id, Held(i, id)
          PROVE  i \in DOMAIN box'[gMbox'] /\ box'[gMbox'][i] = id
      BY <1>1, <3>2 DEF Held, Grown
    <3>3. \A i \in DOMAIN gAll' : Held(i, gAll[i].id)'
      BY <1>1, <3>1, <3>2 DEF Held
    <3>4. About' => Held(ask.idx, ask.id)'
      <4>1. CASE UNCHANGED ask
        BY <3>1, <3>2, <4>1 DEF About, Held
      <4>2. CASE ~About'
        BY <4>2
      <4> QED BY <2>2, <4>1, <4>2
    <3> QED BY <3>3, <3>4
  <2> QED BY <2>1, <2>2
<1>4. BodyIsOfTheRow' /\ CountsAgree'
  BY <1>1 DEF HandInv, MessageInHand, BodyIsOfTheRow, CountsAgree, Grown, NewRows
<1> QED BY <1>2, <1>3, <1>4 DEF MessageInHand

\* What a command takes by a place that is held is what it meant.
LEMMA TakenIsMeant ==
    ASSUME NEW op, NEW i, NEW id, ~shifted => Held(i, id), handed' = Took(op, i, id, ~shifted)
    PROVE  RightMessage'
BY DEF Took, Held, RightMessage

\* The highlighted message is one of the list, and held.
LEMMA FocusedIs ==
    ASSUME HandInv, focused \in DOMAIN gRows
    PROVE  /\ Index \in DOMAIN gAll /\ gAll[Index].id \in Msgs
           /\ ~shifted => Held(Index, gAll[gRows[focused]].id)
<1>1. gRows \in Seq(DOMAIN gAll) /\ gAll \in Seq(Listed)
  BY DEF HandInv, MailTypes
<1>2. Index \in DOMAIN gAll /\ Index = gRows[focused]
  BY <1>1 DEF Index
<1>3. gAll[Index].id \in Msgs
  <2>1. gAll[Index] \in Listed
    BY <1>1, <1>2
  <2> QED BY <2>1 DEF Listed
<1> QED BY <1>2, <1>3 DEF HandInv, ListHolds

LEMMA FetchKeeps == ASSUME HandInv, NEW op, Fetch(op) PROVE HandInv'
<1>1. /\ UNCHANGED <<mailbox, list, ask, pulling, history>> /\ focused \in DOMAIN gRows
      /\ handed' = Took(op, Index, gAll[gRows[focused]].id, ~shifted)
  BY DEF Fetch
<1>2. RightMessage'
  BY <1>1, FocusedIs, TakenIsMeant
<1>3. Grown
  BY <1>1 DEF Grown, mailbox, list, history
<1>4. RowsAreView' /\ ListHolds' /\ MessageInHand'
  BY <1>1, <1>2, <1>3, ListLeft
<1>5. MailTypes'
  BY <1>1 DEF HandInv, MailTypes, mailbox, list, pulling, history
<1> QED BY <1>4, <1>5 DEF HandInv

LEMMA FromListKeeps == ASSUME HandInv, NEW op, FromList(op) PROVE HandInv'
<1>1. /\ UNCHANGED <<mailbox, list, ask, pulling, history>>
      /\ handed' = [op |-> op, meant |-> gAll[gRows[focused]].id, sure |-> TRUE,
                    got |-> gAll[Index].id]
  BY DEF FromList
<1>2. RightMessage'
  BY <1>1 DEF RightMessage, Index
<1>3. Grown
  BY <1>1 DEF Grown, mailbox, list, history
<1>4. RowsAreView' /\ ListHolds' /\ MessageInHand'
  BY <1>1, <1>2, <1>3, ListLeft
<1>5. MailTypes'
  BY <1>1 DEF HandInv, MailTypes, mailbox, list, pulling, history
<1> QED BY <1>4, <1>5 DEF HandInv

LEMMA AskAboutKeeps == ASSUME HandInv, NEW op, AskAbout(op) PROVE HandInv'
<1>1. /\ UNCHANGED <<mailbox, list, handed, pulling, history>> /\ focused \in DOMAIN gRows
      /\ ask' = [op |-> op, idx |-> Index, id |-> gAll[gRows[focused]].id]
  BY DEF AskAbout
<1>2. RightMessage'
  BY <1>1 DEF HandInv, MessageInHand, RightMessage
<1>3. Grown
  BY <1>1 DEF Grown, mailbox, list, history
<1>4. ListHolds'
  <2>1. ~shifted => Held(ask'.idx, ask'.id)
    BY <1>1, FocusedIs
  <2>2. UNCHANGED <<box, gMbox, gAll, shifted>>
    BY <1>1 DEF mailbox, list, history
  <2> QED BY <2>1, <2>2 DEF HandInv, ListHolds, Held
<1>5. RowsAreView' /\ ListHolds' /\ MessageInHand'
  BY <1>1, <1>2, <1>3, <1>4, ListLeft
<1>6. MailTypes'
  BY <1>1 DEF HandInv, MailTypes, mailbox, list, pulling, history
<1> QED BY <1>5, <1>6 DEF HandInv

LEMMA AskToPurgeKeeps ==
    ASSUME HandInv, NEW op \in {"purge", "empty"}, AskToPurge(op) PROVE HandInv'
<1>1. /\ UNCHANGED <<mailbox, list, handed, pulling, history>>
      /\ ask' = [op |-> op, n |-> Len(Purged(op))]
  BY DEF AskToPurge
<1>2. RightMessage'
  BY <1>1 DEF HandInv, MessageInHand, RightMessage
<1>3. Grown
  BY <1>1 DEF Grown, mailbox, list, history
<1>4. ~About'
  BY <1>1 DEF About
<1>5. RowsAreView' /\ ListHolds' /\ MessageInHand'
  BY <1>1, <1>2, <1>3, <1>4, ListLeft
<1>6. MailTypes'
  BY <1>1 DEF HandInv, MailTypes, mailbox, list, pulling, history
<1> QED BY <1>5, <1>6 DEF HandInv

LEMMA AnswerKeeps == ASSUME HandInv, AnswerPath \/ AnswerNo PROVE HandInv'
<1>1. /\ UNCHANGED <<mailbox, list, pulling, history>> /\ ask' = Nothing
  BY DEF AnswerPath, AnswerNo
<1>2. RightMessage'
  <2>1. CASE AnswerNo
    BY <2>1 DEF AnswerNo, HandInv, MessageInHand, RightMessage
  <2>2. CASE AnswerPath
    <3>1. ~shifted => Held(ask.idx, ask.id)
      BY <2>2 DEF AnswerPath, HandInv, ListHolds, About
    <3> QED BY <2>2, <3>1, TakenIsMeant DEF AnswerPath
  <2> QED BY <2>1, <2>2
<1>3. Grown
  BY <1>1 DEF Grown, mailbox, list, history
<1>4. ~About'
  BY <1>1 DEF About, Nothing
<1>5. RowsAreView' /\ ListHolds' /\ MessageInHand'
  BY <1>1, <1>2, <1>3, <1>4, ListLeft
<1>6. MailTypes'
  BY <1>1 DEF HandInv, MailTypes, mailbox, list, pulling, history
<1> QED BY <1>5, <1>6 DEF HandInv

\* The pull begins or exits; nothing is read again yet.
LEMMA PullKeeps == ASSUME HandInv, pullMail \/ PullExits PROVE HandInv'
<1>1. /\ UNCHANGED <<mailbox, list, ask, handed, lastUnread, shifted, became, lowered, excused>>
      /\ fresh' \subseteq fresh /\ pull' \in {"runs", "exited"}
      /\ unreadBefore' \in {unreadBefore, lastUnread, gUnread["spool"]}
  BY DEF pullMail, PullExits, history
<1>2. RightMessage'
  BY <1>1 DEF HandInv, MessageInHand, RightMessage
<1>3. Grown
  BY <1>1 DEF Grown, mailbox, list
<1>4. RowsAreView' /\ ListHolds' /\ MessageInHand'
  BY <1>1, <1>2, <1>3, ListLeft
<1>5. gUnread["spool"] \in Int
  BY DEF HandInv, MailTypes, Folders
<1>6. MailTypes'
  BY <1>1, <1>5 DEF HandInv, MailTypes, mailbox, list
<1> QED BY <1>4, <1>6 DEF HandInv

-----------------------------------------------------------------------------
(* The mailboxes change.                                                   *)

\* What Without leaves
LEMMA WithoutIs ==
    ASSUME NEW q \in Seq(Msgs), NEW S
    PROVE  /\ Without(q, S) \in Seq(Msgs)
           /\ \A i \in DOMAIN Without(q, S) : \E j \in DOMAIN q :
                Without(q, S)[i] = q[j] /\ q[j] \notin S
           /\ \A j \in DOMAIN q :
                q[j] \notin S => \E i \in DOMAIN Without(q, S) : Without(q, S)[i] = q[j]
<1>1. PICK R : R = Msgs \ S
  OBVIOUS
<1>2. PICK k : k = Keep(q, R)
  OBVIOUS
<1>3. /\ k \in Seq(Msgs \cap R)
      /\ \A i \in DOMAIN k : \E j \in DOMAIN q : k[i] = q[j]
      /\ \A j \in DOMAIN q : q[j] \in R => \E i \in DOMAIN k : k[i] = q[j]
  BY <1>2, KeepMembers
<1>4. Msgs \cap R = R
  BY <1>1
<1>5. k \in Seq(Msgs) /\ \A i \in DOMAIN k : k[i] \in R
  BY <1>1, <1>3, <1>4
<1>6. \A j \in DOMAIN q : q[j] \in Msgs
  OBVIOUS
<1>7. k = Without(q, S)
  BY <1>1, <1>2 DEF Without
<1> QED BY <1>1, <1>3, <1>5, <1>6, <1>7

LEMMA BoxKeeps ==
    ASSUME HandInv, Arrives \/ OthersRead \/ OthersRemove \/ PullFiles PROVE HandInv'
<1>1. UNCHANGED <<list, ask, handed, pulling, excused>>
  BY DEF Arrives, OthersRead, OthersRemove, PullFiles
<1>2. RightMessage'
  BY <1>1 DEF HandInv, MessageInHand, RightMessage
<1>3. /\ box \in [Folders -> Seq(Msgs)] /\ gMbox \in Folders /\ "spool" \in Folders
      /\ shifted \in BOOLEAN /\ lowered \in BOOLEAN /\ fresh \subseteq became
      /\ became \subseteq Msgs /\ unread \subseteq Msgs /\ arrived \subseteq Msgs
  BY DEF HandInv, MailTypes, Folders
<1>4. /\ box' \in [Folders -> Seq(Msgs)] /\ unread' \subseteq Msgs /\ arrived' \subseteq Msgs
      /\ shifted' \in BOOLEAN /\ lowered' \in BOOLEAN /\ fresh' \subseteq became'
      /\ became' \subseteq Msgs
      /\ Grown
  <2>1. CASE Arrives
    <3>1. PICK m \in Msgs :
            /\ box' = [box EXCEPT !["spool"] = Append(@, m)]
            /\ unread' = unread \cup {m} /\ arrived' = arrived \cup {m}
            /\ fresh' = fresh \cup {m} /\ became' = became \cup {m}
      BY <2>1 DEF Arrives
    <3>2. UNCHANGED <<shifted, lowered>>
      BY <2>1 DEF Arrives
    <3>3. PICK q \in Seq(Msgs) : q = box["spool"]
      BY <1>3
    <3>4. /\ Append(q, m) \in Seq(Msgs)
          /\ \A i \in DOMAIN q : i \in DOMAIN Append(q, m) /\ Append(q, m)[i] = q[i]
      OBVIOUS
    <3>5. box' \in [Folders -> Seq(Msgs)]
      BY <1>3, <3>1, <3>3, <3>4
    <3>6. Grown
      BY <1>3, <3>1, <3>2, <3>3, <3>4 DEF Grown
    <3> QED BY <1>3, <3>1, <3>2, <3>5, <3>6
  <2>2. CASE OthersRead
    <3>1. /\ UNCHANGED <<box, arrived, shifted, fresh, became>> /\ lowered' = TRUE
          /\ unread' \subseteq unread
      BY <2>2 DEF OthersRead
    <3>2. Grown
      BY <3>1 DEF Grown
    <3> QED BY <1>3, <3>1, <3>2
  <2>3. CASE OthersRemove \/ PullFiles
    <3>1. PICK m :
            /\ box' = [box EXCEPT !["spool"] = Without(@, {m})]
            /\ lowered' = (lowered \/ m \in unread)
            /\ fresh' \subseteq fresh
      BY <2>3 DEF OthersRemove, PullFiles
    <3>2. /\ UNCHANGED <<unread, arrived, became>>
          /\ shifted' = (shifted \/ gMbox = "spool")
      BY <2>3 DEF OthersRemove, PullFiles
    <3>3. Without(box["spool"], {m}) \in Seq(Msgs)
      BY <1>3, WithoutIs
    <3>4. box' \in [Folders -> Seq(Msgs)]
      BY <1>3, <3>1, <3>3
    <3>5. Grown
      BY <1>3, <3>1, <3>2 DEF Grown
    <3> QED BY <1>3, <3>1, <3>2, <3>4, <3>5
  <2> QED BY <2>1, <2>2, <2>3
<1>5. RowsAreView' /\ ListHolds' /\ MessageInHand'
  BY <1>1, <1>2, <1>4, ListLeft
<1>6. MailTypes'
  BY <1>1, <1>4 DEF HandInv, MailTypes, list, pulling
<1> QED BY <1>5, <1>6 DEF HandInv

-----------------------------------------------------------------------------
(* The view changes.                                                       *)

LEMMA PickedKeeps == ASSUME HandInv, cmMsgPicked PROVE HandInv'
<1>1. /\ UNCHANGED <<mailbox, gMbox, gAll, gFilter, gSort, gSortRev, gRows, gUnread,
                     ask, handed, pulling, history>>
      /\ focused' \in DOMAIN gRows /\ body' = loadContent(box[gMbox], gRows, focused')
  BY DEF cmMsgPicked
<1>2. gRows \in Seq(DOMAIN gAll)
  BY DEF HandInv, MailTypes
<1>3. MailTypes'
  <2>1. focused' \in Nat \ {0}
    BY <1>1, <1>2
  <2> QED BY <1>1, <2>1 DEF HandInv, MailTypes, mailbox, pulling, history
<1>4. RowsAreView'
  BY <1>1 DEF HandInv, RowsAreView, IsView
<1>5. ListHolds'
  BY <1>1 DEF HandInv, ListHolds, Held, About, mailbox, history
<1>6. BodyIsOfTheRow'
  <2> SUFFICES ASSUME ~shifted PROVE body' = gAll[gRows[focused']].id
    BY <1>1 DEF BodyIsOfTheRow, history
  <2>1. \A i \in DOMAIN gAll : i \in DOMAIN box[gMbox] /\ box[gMbox][i] = gAll[i].id
    BY DEF HandInv, ListHolds, Held
  <2> QED BY <1>1, <1>2, <2>1, BodyIs
<1>7. RightMessage' /\ CountsAgree'
  BY <1>1 DEF HandInv, MessageInHand, RightMessage, CountsAgree, NewRows
<1> QED BY <1>3, <1>4, <1>5, <1>6, <1>7 DEF HandInv, MessageInHand

LEMMA ViewKeeps == ASSUME HandInv, cmFilterChanged \/ cmSort PROVE HandInv'
<1>1. /\ UNCHANGED <<mailbox, gMbox, gAll, gUnread, ask, handed, pulling, history>>
      /\ gFilter' \in BOOLEAN /\ gSort' \in {"date", "unread"} /\ gSortRev' \in BOOLEAN
  BY DEF cmFilterChanged, cmSort, HandInv, MailTypes
<1>2. gAll \in Seq(Listed)
  BY DEF HandInv, MailTypes
<1>3. /\ IsView(gRows', gAll, gFilter')
      /\ focused' \in Nat \ {0} /\ (gRows' # <<>> => focused' \in DOMAIN gRows')
      /\ body' = loadContent(box[gMbox], gRows', focused')
  <2>1. CASE cmFilterChanged
    <3>1. viewChanged(gAll, gFilter', gSort, gSortRev, TRUE)
      BY <2>1 DEF cmFilterChanged
    <3> QED BY <1>2, <3>1, Viewed
  <2>2. CASE cmSort
    <3>1. gFilter' = gFilter
      BY <2>2 DEF cmSort
    <3>2. PICK k : viewChanged(gAll, gFilter, k, gSortRev', FALSE)
      BY <2>2 DEF cmSort
    <3> QED BY <1>2, <3>1, <3>2, Viewed
  <2> QED BY <2>1, <2>2
<1>4. gRows' \in Seq(DOMAIN gAll)
  BY <1>3 DEF IsView
<1>5. MailTypes'
  BY <1>1, <1>3, <1>4 DEF HandInv, MailTypes, mailbox, pulling, history
<1>6. RowsAreView'
  BY <1>1, <1>3 DEF RowsAreView
<1>7. ListHolds'
  BY <1>1 DEF HandInv, ListHolds, Held, About, mailbox, history
<1>8. BodyIsOfTheRow'
  <2> SUFFICES ASSUME ~shifted, focused' \in DOMAIN gRows'
               PROVE  body' = gAll[gRows'[focused']].id
    BY <1>1 DEF BodyIsOfTheRow, history
  <2>1. \A i \in DOMAIN gAll : i \in DOMAIN box[gMbox] /\ box[gMbox][i] = gAll[i].id
    BY DEF HandInv, ListHolds, Held
  <2> QED BY <1>3, <1>4, <2>1, BodyIs
<1>9. RightMessage' /\ CountsAgree'
  BY <1>1 DEF HandInv, MessageInHand, RightMessage, CountsAgree, NewRows
<1> QED BY <1>5, <1>6, <1>7, <1>8, <1>9 DEF HandInv, MessageInHand

\* The list with one message shown as read, or as new
Flagged(i, new) == [gAll EXCEPT ![i].new = new]

LEMMA FlaggedIs ==
    ASSUME HandInv, NEW i \in DOMAIN gAll, NEW new \in BOOLEAN
    PROVE  /\ Flagged(i, new) \in Seq(Listed) /\ DOMAIN Flagged(i, new) = DOMAIN gAll
           /\ \A j \in DOMAIN gAll :
                /\ Flagged(i, new)[j].id = gAll[j].id
                /\ Flagged(i, new)[j].new = IF j = i THEN new ELSE gAll[j].new
<1>1. gAll \in Seq(Listed)
  BY DEF HandInv, MailTypes
<1>2. PICK e \in Listed : e = gAll[i]
  BY <1>1
<1>3. PICK d : d = [e EXCEPT !.new = new]
  OBVIOUS
<1>4. d \in Listed /\ d.id = e.id /\ d.new = new
  BY <1>3 DEF Listed
<1>5. PICK q : q = [gAll EXCEPT ![i] = d]
  OBVIOUS
<1>6. Flagged(i, new) = q
  BY <1>2, <1>3, <1>5 DEF Flagged
<1>7. q \in Seq(Listed) /\ DOMAIN q = DOMAIN gAll
      /\ \A j \in DOMAIN gAll : q[j] = IF j = i THEN d ELSE gAll[j]
  BY <1>1, <1>4, <1>5
<1>8. \A j \in DOMAIN gAll : q[j].id = gAll[j].id
  BY <1>2, <1>4, <1>7
<1>9. \A j \in DOMAIN gAll : q[j].new = IF j = i THEN new ELSE gAll[j].new
  BY <1>4, <1>7
<1> QED BY <1>6, <1>7, <1>8, <1>9

\* One less is shown as new, or one more.
LEMMA NewRowsChange ==
    ASSUME HandInv, NEW i \in DOMAIN gAll, NEW read \in BOOLEAN, gAll[i].new = read
    PROVE  /\ NewRows(gAll) \in Nat /\ (read => NewRows(gAll) > 0)
           /\ NewRows(Flagged(i, ~read)) = IF read THEN NewRows(gAll) - 1 ELSE NewRows(gAll) + 1
<1>1. PICK S : S = {j \in DOMAIN gAll : gAll[j].new}
  OBVIOUS
<1>2. IsFiniteSet(DOMAIN gAll)
  <2>1. gAll \in Seq(Listed)
    BY DEF HandInv, MailTypes
  <2>2. DOMAIN gAll = 1 .. Len(gAll) /\ Len(gAll) \in Int
    BY <2>1
  <2> QED BY <2>2, FS_Interval
<1>3. IsFiniteSet(S) /\ Cardinality(S) \in Nat
  <2>1. S \in SUBSET DOMAIN gAll
    BY <1>1
  <2> QED BY <1>2, <2>1, FS_Subset, FS_CardinalityType
<1>4. NewRows(gAll) = Cardinality(S)
  BY <1>1 DEF NewRows
<1>5. PICK q : q = Flagged(i, ~read)
  OBVIOUS
<1>6. DOMAIN q = DOMAIN gAll
      /\ \A j \in DOMAIN gAll : q[j].new = IF j = i THEN ~read ELSE gAll[j].new
  BY <1>5, FlaggedIs
<1>7. CASE read
  <2>1. i \in S
    BY <1>1, <1>7
  <2>2. {j \in DOMAIN q : q[j].new} = S \ {i}
    BY <1>1, <1>6, <1>7
  <2>3. NewRows(q) = Cardinality(S) - 1
    BY <1>3, <2>1, <2>2, FS_RemoveElement DEF NewRows
  <2>4. Cardinality(S) # 0
    BY <1>3, <2>1, FS_EmptySet
  <2> QED BY <1>3, <1>4, <1>5, <1>7, <2>3, <2>4
<1>8. CASE ~read
  <2>1. i \notin S
    BY <1>1, <1>8
  <2>2. {j \in DOMAIN q : q[j].new} = S \cup {i}
    BY <1>1, <1>6, <1>8
  <2>3. NewRows(q) = Cardinality(S) + 1
    BY <1>3, <2>1, <2>2, FS_AddElement DEF NewRows
  <2> QED BY <1>3, <1>4, <1>5, <1>8, <2>3
<1> QED BY <1>7, <1>8

\* A filter finds messages, however they are shown.
LEMMA SameView ==
    ASSUME NEW rows, NEW all, NEW other, NEW filter, IsView(rows, all, filter),
           DOMAIN other = DOMAIN all, \A j \in DOMAIN all : other[j].id = all[j].id
    PROVE  IsView(rows, other, filter)
BY DEF IsView

LEMMA MarkKeeps == ASSUME HandInv, NEW read \in BOOLEAN, markFocused(read) PROVE HandInv'
<1>1. PICK i : i = gRows[focused]
  OBVIOUS
<1>2. /\ focused \in DOMAIN gRows /\ gAll[i].new = read
      /\ gAll' = Flagged(i, ~read)
      /\ unread' = Marked(i, read)
      /\ gUnread' = IF gUnread[gMbox] < 0 THEN gUnread
                    ELSE [gUnread EXCEPT ![gMbox] = IF read /\ @ > 0 THEN @ - 1
                                                    ELSE IF read THEN 0 ELSE @ + 1]
      /\ IF gSort = "unread" THEN viewChanged(gAll', gFilter, gSort, gSortRev, FALSE)
                             ELSE UNCHANGED <<gRows, focused, body>>
      /\ became' = IF gMbox = "spool" THEN became \cup (unread' \ unread) ELSE became
      /\ lowered' = (lowered \/ unread' # unread)
      /\ UNCHANGED <<box, arrived, gMbox, gFilter, gSort, gSortRev, ask, handed, pulling,
                     shifted, fresh>>
  BY <1>1 DEF markFocused, Flagged
<1>3. excused' \in BOOLEAN
  <2>1. PICK hit \in BOOLEAN : excused' = (excused \/ ~hit)
    BY <1>1 DEF markFocused
  <2> QED BY <2>1 DEF HandInv, MailTypes
<1>4. /\ i \in DOMAIN gAll /\ gMbox \in Folders /\ box[gMbox] \in Seq(Msgs)
      /\ gUnread \in [Folders -> Int] /\ gRows \in Seq(DOMAIN gAll)
  <2>1. gRows \in Seq(DOMAIN gAll)
    BY DEF HandInv, MailTypes
  <2> QED BY <1>1, <1>2, <2>1 DEF HandInv, MailTypes
<1>5. /\ gAll' \in Seq(Listed) /\ DOMAIN gAll' = DOMAIN gAll
      /\ \A j \in DOMAIN gAll : gAll'[j].id = gAll[j].id
  BY <1>2, <1>4, FlaggedIs
<1>6. /\ IsView(gRows', gAll', gFilter) /\ focused' \in Nat \ {0}
      /\ (gRows' # <<>> => focused' \in DOMAIN gRows')
  <2>1. CASE gSort = "unread"
    BY <1>2, <1>5, <2>1, Viewed
  <2>2. CASE gSort # "unread"
    <3>1. IsView(gRows, gAll', gFilter)
      BY <1>5, SameView DEF HandInv, RowsAreView
    <3> QED BY <1>2, <2>2, <3>1 DEF HandInv, RowsAreView, MailTypes
  <2> QED BY <2>1, <2>2
<1>7. gRows' \in Seq(DOMAIN gAll')
  BY <1>6 DEF IsView
<1>8. unread' \subseteq Msgs /\ became' \subseteq Msgs /\ fresh' \subseteq became'
  <2>1. unread \subseteq Msgs /\ became \subseteq Msgs /\ fresh \subseteq became
    BY DEF HandInv, MailTypes
  <2>2. unread' \subseteq Msgs
    <3>1. i \in DOMAIN box[gMbox] => box[gMbox][i] \in Msgs
      BY <1>4
    <3> QED BY <1>2, <2>1, <3>1 DEF Marked
  <2> QED BY <1>2, <2>1, <2>2
<1>9. gUnread' \in [Folders -> Int] /\ gUnread'[gMbox] = NewRows(gAll')
  <2>1. gUnread[gMbox] = NewRows(gAll)
    BY DEF HandInv, MessageInHand, CountsAgree
  <2>2. /\ NewRows(gAll) \in Nat /\ (read => NewRows(gAll) > 0)
        /\ NewRows(Flagged(i, ~read)) = IF read THEN NewRows(gAll) - 1 ELSE NewRows(gAll) + 1
    BY <1>2, <1>4, NewRowsChange
  <2>3. gUnread' = [gUnread EXCEPT ![gMbox] = NewRows(Flagged(i, ~read))]
    <3>1. PICK n : n = gUnread[gMbox]
      OBVIOUS
    <3>2. PICK k : k = NewRows(Flagged(i, ~read))
      OBVIOUS
    <3>3. n \in Nat /\ (read => n > 0) /\ k = IF read THEN n - 1 ELSE n + 1
      BY <2>1, <2>2, <3>1, <3>2
    <3>4. gUnread' = [gUnread EXCEPT ![gMbox] = IF read /\ n > 0 THEN n - 1
                                               ELSE IF read THEN 0 ELSE n + 1]
      BY <1>2, <3>1, <3>3
    <3>5. (IF read /\ n > 0 THEN n - 1 ELSE IF read THEN 0 ELSE n + 1) = k
      BY <3>3
    <3> QED BY <3>2, <3>4, <3>5
  <2>4. NewRows(Flagged(i, ~read)) \in Int
    BY <2>2
  <2> QED BY <1>2, <1>4, <2>3, <2>4
<1>10. MailTypes'
  <2>1. lowered' \in BOOLEAN
    BY <1>2 DEF HandInv, MailTypes
  <2> QED BY <1>2, <1>3, <1>5, <1>6, <1>7, <1>8, <1>9, <2>1 DEF HandInv, MailTypes, pulling
<1>11. RowsAreView'
  BY <1>2, <1>6 DEF RowsAreView
<1>12. ListHolds'
  BY <1>2, <1>5 DEF HandInv, ListHolds, Held, About
<1>13. BodyIsOfTheRow'
  <2> SUFFICES ASSUME ~shifted, focused' \in DOMAIN gRows'
               PROVE  body' = gAll'[gRows'[focused']].id
    BY <1>2 DEF BodyIsOfTheRow
  <2>1. \A j \in DOMAIN gAll' : j \in DOMAIN box[gMbox] /\ box[gMbox][j] = gAll'[j].id
    BY <1>5 DEF HandInv, ListHolds, Held
  <2>2. CASE gSort = "unread"
    <3>1. body' = loadContent(box[gMbox], gRows', focused')
      BY <1>2, <1>5, <2>2, Viewed
    <3> QED BY <1>7, <2>1, <3>1, BodyIs
  <2>3. CASE gSort # "unread"
    <3>1. UNCHANGED <<gRows, focused, body>>
      BY <1>2, <2>3
    <3>2. gRows[focused] \in DOMAIN gAll
      BY <1>4, <3>1
    <3> QED BY <1>5, <3>1, <3>2 DEF HandInv, MessageInHand, BodyIsOfTheRow
  <2> QED BY <2>2, <2>3
<1>14. RightMessage' /\ CountsAgree'
  <2>1. RightMessage'
    BY <1>2 DEF HandInv, MessageInHand, RightMessage
  <2>2. CountsAgree'
    BY <1>2, <1>9 DEF CountsAgree
  <2> QED BY <2>1, <2>2
<1> QED BY <1>10, <1>11, <1>12, <1>13, <1>14 DEF HandInv, MessageInHand

-----------------------------------------------------------------------------
(* The list is read again.                                                 *)

\* What is read is what is there, and its number is what is counted.
LEMMA LoadedKeeps ==
    ASSUME HandInv, NEW f \in Folders, NEW filter \in BOOLEAN, NEW keep, NEW u, NEW ok,
           NEW counts \in [Folders -> Int], box' \in [Folders -> Seq(Msgs)],
           loadFolder(f, filter, keep, box', u, ok, counts), RightMessage', ~About'
    PROVE  /\ RowsAreView' /\ ListHolds' /\ MessageInHand'
           /\ gMbox' \in Folders /\ gAll' \in Seq(Listed) /\ gFilter' \in BOOLEAN
           /\ gRows' \in Seq(DOMAIN gAll') /\ focused' \in Nat \ {0}
           /\ gUnread' \in [Folders -> Int] /\ shifted' \in BOOLEAN
<1>1. PICK b \in [Folders -> Seq(Msgs)] : b = box'
  OBVIOUS
<1>2. focused \in Nat \ {0}
  BY DEF HandInv, MailTypes
<1>3. /\ gMbox' = f /\ gFilter' = filter /\ gAll' \in Seq(Listed)
      /\ gAll' = Copy(b, u, f) \/ gAll' = <<>>
      /\ IsView(gRows', gAll', filter)
      /\ focused' \in Nat \ {0} /\ (gRows' # <<>> => focused' \in DOMAIN gRows')
      /\ body' = loadContent(b[f], gRows', focused')
      /\ gUnread' = [counts EXCEPT ![f] = NewRows(gAll')]
      /\ shifted' = FALSE
  <2>1. loadFolder(f, filter, keep, b, u, ok, counts)
    BY <1>1
  <2> QED BY <1>2, <2>1, Loaded
<1>4. gRows' \in Seq(DOMAIN gAll')
  BY <1>3 DEF IsView
<1>5. \A i \in DOMAIN gAll' : i \in DOMAIN b[f] /\ b[f][i] = gAll'[i].id
  <2>1. CASE gAll' = Copy(b, u, f)
    <3>1. PICK c : c = Copy(b, u, f)
      OBVIOUS
    <3>2. /\ c \in Seq(Listed) /\ DOMAIN c = DOMAIN b[f]
          /\ \A i \in DOMAIN b[f] : c[i].id = b[f][i] /\ (c[i].new <=> b[f][i] \in u)
      BY <1>1, <3>1, CopyIs
    <3> QED BY <2>1, <3>1, <3>2
  <2>2. CASE gAll' = <<>>
    BY <2>2
  <2> QED BY <1>3, <2>1, <2>2
<1>6. RowsAreView'
  BY <1>3 DEF RowsAreView
<1>7. ListHolds'
  BY <1>1, <1>3, <1>5 DEF ListHolds, Held
<1>8. BodyIsOfTheRow'
  <2>1. focused' \in DOMAIN gRows' => body' = gAll'[gRows'[focused']].id
    BY <1>3, <1>4, <1>5, BodyIs
  <2> QED BY <2>1 DEF BodyIsOfTheRow
<1>9. NewRows(gAll') \in Nat
  <2>1. PICK S : S = {j \in DOMAIN gAll' : gAll'[j].new}
    OBVIOUS
  <2>2. DOMAIN gAll' = 1 .. Len(gAll') /\ Len(gAll') \in Int
    BY <1>3
  <2>3. IsFiniteSet(S)
    BY <2>1, <2>2, FS_Interval, FS_Subset
  <2> QED BY <2>1, <2>3, FS_CardinalityType DEF NewRows
<1>10. gUnread' \in [Folders -> Int] /\ CountsAgree'
  BY <1>3, <1>9 DEF CountsAgree
<1> QED BY <1>3, <1>4, <1>6, <1>7, <1>8, <1>10 DEF MessageInHand

LEMMA CountsTyped == ASSUME NEW b, NEW u, NEW ok,
    \A f \in Folders : NewIn(b[f], u) \in Int
  PROVE loadCounts(b, u, ok) \in [Folders -> Int]
BY DEF loadCounts

LEMMA NewInTyped == ASSUME NEW q \in Seq(Msgs), NEW u PROVE NewIn(q, u) \in Nat
<1>1. PICK S : S = {i \in DOMAIN q : q[i] \in u}
  OBVIOUS
<1>2. DOMAIN q = 1 .. Len(q) /\ Len(q) \in Int
  OBVIOUS
<1>3. IsFiniteSet(S)
  BY <1>1, <1>2, FS_Interval, FS_Subset
<1> QED BY <1>1, <1>3, FS_CardinalityType DEF NewIn

LEMMA ReloadedKeeps ==
    ASSUME HandInv, NEW u, NEW ok, box' \in [Folders -> Seq(Msgs)],
           reloadFolder(box', u, ok), RightMessage', ~About'
    PROVE  /\ RowsAreView' /\ ListHolds' /\ MessageInHand'
           /\ gMbox' \in Folders /\ gAll' \in Seq(Listed) /\ gFilter' \in BOOLEAN
           /\ gRows' \in Seq(DOMAIN gAll') /\ focused' \in Nat \ {0}
           /\ gUnread' \in [Folders -> Int] /\ shifted' \in BOOLEAN
<1>1. PICK counts : counts = loadCounts(box', u, ok)
  OBVIOUS
<1>2. counts \in [Folders -> Int]
  BY <1>1, NewInTyped, CountsTyped
<1>3. loadFolder(gMbox, gFilter, TRUE, box', u, ok, counts)
  BY <1>1 DEF reloadFolder
<1>4. gMbox \in Folders /\ gFilter \in BOOLEAN
  BY DEF HandInv, MailTypes
<1> QED BY <1>2, <1>3, <1>4, LoadedKeeps

\* The actions that read the folder again
LEMMA ReadKeeps == ASSUME HandInv, cmFolderPicked \/ cmReload \/ pullFinished PROVE HandInv'
<1>1. /\ ask = Nothing /\ UNCHANGED <<mailbox, ask, handed>>
      /\ pull' \in {"no", pull} /\ unreadBefore' \in {-1, unreadBefore}
      /\ lastUnread' \in {lastUnread, gUnread'["spool"]}
      /\ (fresh' = fresh /\ became' = became) \/ (fresh' = {} /\ became' = {})
      /\ lowered' \in {lowered, FALSE}
  BY DEF cmFolderPicked, cmReload, pullFinished, pulling
<1>2. RightMessage'
  BY <1>1 DEF HandInv, MessageInHand, RightMessage
<1>3. ~About'
  BY <1>1 DEF About, Nothing
<1>4. box' = box /\ box' \in [Folders -> Seq(Msgs)] /\ gUnread \in [Folders -> Int]
  BY <1>1 DEF HandInv, MailTypes, mailbox
<1>5. /\ RowsAreView' /\ ListHolds' /\ MessageInHand'
      /\ gMbox' \in Folders /\ gAll' \in Seq(Listed) /\ gFilter' \in BOOLEAN
      /\ gRows' \in Seq(DOMAIN gAll') /\ focused' \in Nat \ {0}
      /\ gUnread' \in [Folders -> Int] /\ shifted' \in BOOLEAN
  <2>1. CASE cmFolderPicked
    <3>1. PICK ok \in BOOLEAN : loadFolder(Other(gMbox), FALSE, FALSE, box, unread, ok, gUnread)
      BY <2>1 DEF cmFolderPicked
    <3>2. loadFolder(Other(gMbox), FALSE, FALSE, box', unread, ok, gUnread)
      BY <1>4, <3>1
    <3>3. Other(gMbox) \in Folders
      BY DEF Other, Folders
    <3> QED BY <1>2, <1>3, <1>4, <3>2, <3>3, LoadedKeeps
  <2>2. CASE cmReload \/ pullFinished
    <3>1. PICK ok \in BOOLEAN : reloadFolder(box, unread, ok)
      BY <2>2 DEF cmReload, pullFinished
    <3>2. reloadFolder(box', unread, ok)
      BY <1>4, <3>1
    <3> QED BY <1>2, <1>3, <1>4, <3>2, ReloadedKeeps
  <2> QED BY <2>1, <2>2
<1>6. UNCHANGED <<gSort, gSortRev>> /\ excused' \in BOOLEAN
  <2>1. PICK ok \in BOOLEAN : excused' = (excused \/ ~ok) /\ UNCHANGED <<gSort, gSortRev>>
    BY DEF cmFolderPicked, cmReload, pullFinished, reloadFolder, loadFolder
  <2>2. excused \in BOOLEAN
    BY DEF HandInv, MailTypes
  <2> QED BY <2>1, <2>2
<1>7. gUnread'["spool"] \in Int
  BY <1>5 DEF Folders
<1>8. MailTypes'
  <2>1. /\ unread \subseteq Msgs /\ arrived \subseteq Msgs
        /\ gSort \in {"date", "unread"} /\ gSortRev \in BOOLEAN /\ lowered \in BOOLEAN
        /\ became \subseteq Msgs /\ fresh \subseteq became
        /\ pull \in {"no", "runs", "exited"} /\ unreadBefore \in Int /\ lastUnread \in Int
    BY DEF HandInv, MailTypes
  <2>2. became' \subseteq Msgs /\ fresh' \subseteq became' /\ lowered' \in BOOLEAN
    BY <1>1, <2>1
  <2>3. /\ pull' \in {"no", "runs", "exited"} /\ unreadBefore' \in Int
        /\ lastUnread' \in Int
    BY <1>1, <1>7, <2>1
  <2>4. UNCHANGED <<unread, arrived>>
    BY <1>1 DEF mailbox
  <2> QED BY <1>4, <1>5, <1>6, <2>1, <2>2, <2>3, <2>4 DEF MailTypes
<1> QED BY <1>5, <1>8 DEF HandInv

\* What an answer takes away, and where to
Gone == IF ~About THEN Purged(ask.op)
        ELSE IF ask.idx \in DOMAIN box[gMbox] THEN <<box[gMbox][ask.idx]>> ELSE <<>>
To == CASE ask.op = "delete" -> IF gMbox = "trash" THEN "nowhere" ELSE "trash"
        [] ask.op = "move" -> "spool"
        [] ask.op = "purge" -> "trash"
        [] OTHER -> "nowhere"

LEMMA AnsweredYes ==
    ASSUME AnswerYes
    PROVE  /\ Agreed(ask.op, Gone, To)
           /\ handed' = IF About THEN Took(ask.op, ask.idx, ask.id, ~shifted) ELSE handed
           /\ ask' = Nothing /\ UNCHANGED <<pulling, fresh>>
           /\ \E ok \in BOOLEAN : reloadFolder(box', unread', ok) /\ Answers(ok)
BY Zenon DEF AnswerYes, Gone, To

LEMMA GoneIs ==
    ASSUME HandInv
    PROVE  /\ Gone \in Seq(Msgs)
           /\ \E f \in Folders : \A i \in DOMAIN Gone : \E j \in DOMAIN box[f] : Gone[i] = box[f][j]
<1>1. box \in [Folders -> Seq(Msgs)] /\ gMbox \in Folders /\ "trash" \in Folders
  BY DEF HandInv, MailTypes, Folders
<1>2. CASE ~About /\ ask.op = "purge"
  <2>1. PICK q \in Seq(Msgs) : q = box[gMbox]
    BY <1>1
  <2>2. PICK R : R = Msgs \ unread
    OBVIOUS
  <2>3. PICK k : k = Keep(q, R)
    OBVIOUS
  <2>4. k \in Seq(Msgs \cap R) /\ \A i \in DOMAIN k : \E j \in DOMAIN q : k[i] = q[j]
    BY <2>3, KeepMembers
  <2>5. k \in Seq(Msgs)
    BY <2>4
  <2>6. Gone = k
    BY <1>2, <2>1, <2>2, <2>3 DEF Gone, Purged
  <2> QED BY <1>1, <2>1, <2>4, <2>5, <2>6
<1>3. CASE ~About /\ ask.op # "purge"
  <2>1. Gone = box["trash"]
    BY <1>3 DEF Gone, Purged
  <2> QED BY <1>1, <2>1
<1>4. CASE About
  <2>1. Gone = IF ask.idx \in DOMAIN box[gMbox] THEN <<box[gMbox][ask.idx]>> ELSE <<>>
    BY <1>4 DEF Gone
  <2>2. CASE ask.idx \in DOMAIN box[gMbox]
    <3>1. PICK m \in Msgs : m = box[gMbox][ask.idx]
      BY <1>1, <2>2
    <3>2. Gone = <<m>>
      BY <2>1, <2>2, <3>1
    <3>3. <<m>> \in Seq(Msgs) /\ DOMAIN <<m>> = {1} /\ <<m>>[1] = m
      OBVIOUS
    <3> QED BY <1>1, <2>2, <3>1, <3>2, <3>3
  <2>3. CASE ask.idx \notin DOMAIN box[gMbox]
    BY <1>1, <2>1, <2>3
  <2> QED BY <2>2, <2>3
<1> QED BY <1>2, <1>3, <1>4

LEMMA AnswerYesKeeps == ASSUME HandInv, AnswerYes PROVE HandInv'
<1>1. /\ box \in [Folders -> Seq(Msgs)] /\ unread \subseteq Msgs /\ Gone \in Seq(Msgs)
      /\ became \subseteq Msgs /\ fresh \subseteq became /\ lowered \in BOOLEAN
  BY GoneIs DEF HandInv, MailTypes
<1>2. PICK g \in Seq(Msgs) : g = Gone
  BY <1>1
<1>3. PICK to : to = To
  OBVIOUS
<1>4. Agreed(ask.op, g, to)
  BY <1>2, <1>3, AnsweredYes
<1>5. /\ box' = [f \in Folders |-> IF f = to THEN Without(box[f], ToSet(g)) \o g
                                   ELSE Without(box[f], ToSet(g))]
      /\ lowered' = (lowered \/ ToSet(g) \cap unread # {})
      /\ became' = IF to = "spool" THEN became \cup (ToSet(g) \cap unread) ELSE became
      /\ UNCHANGED <<unread, arrived>>
  BY <1>4, Zenon DEF Agreed
<1>6. box' \in [Folders -> Seq(Msgs)]
  <2>1. ASSUME NEW f \in Folders
        PROVE  /\ Without(box[f], ToSet(g)) \in Seq(Msgs)
               /\ Without(box[f], ToSet(g)) \o g \in Seq(Msgs)
    BY <1>1, WithoutIs
  <2> QED BY <1>5, <2>1
<1>7. RightMessage'
  <2>1. handed' = IF About THEN Took(ask.op, ask.idx, ask.id, ~shifted) ELSE handed
    BY AnsweredYes
  <2>2. CASE About
    BY <2>1, <2>2, TakenIsMeant DEF HandInv, ListHolds
  <2>3. CASE ~About
    BY <2>1, <2>3 DEF HandInv, MessageInHand, RightMessage
  <2> QED BY <2>2, <2>3
<1>8. ~About'
  <2>1. ask' = Nothing
    BY AnsweredYes
  <2> QED BY <2>1 DEF About, Nothing
<1>9. PICK ok \in BOOLEAN : reloadFolder(box', unread', ok)
  BY AnsweredYes
<1>10. /\ RowsAreView' /\ ListHolds' /\ MessageInHand'
       /\ gMbox' \in Folders /\ gAll' \in Seq(Listed) /\ gFilter' \in BOOLEAN
       /\ gRows' \in Seq(DOMAIN gAll') /\ focused' \in Nat \ {0}
       /\ gUnread' \in [Folders -> Int] /\ shifted' \in BOOLEAN
  BY <1>6, <1>7, <1>8, <1>9, ReloadedKeeps
<1>11. UNCHANGED <<gSort, gSortRev>> /\ excused' = (excused \/ ~ok)
  BY <1>9 DEF reloadFolder, loadFolder
<1>12. /\ unread' \subseteq Msgs /\ became' \subseteq Msgs /\ fresh' \subseteq became'
       /\ lowered' \in BOOLEAN /\ excused' \in BOOLEAN /\ fresh' = fresh
       /\ UNCHANGED <<pulling, arrived>>
  <2>1. ToSet(g) \subseteq Msgs
    BY <1>2 DEF ToSet
  <2>2. excused' \in BOOLEAN
    BY <1>11 DEF HandInv, MailTypes
  <2>3. fresh' = fresh /\ UNCHANGED pulling
    BY AnsweredYes
  <2> QED BY <1>1, <1>5, <2>2, <2>3
<1>13. MailTypes'
  BY <1>6, <1>10, <1>11, <1>12 DEF HandInv, MailTypes, pulling
<1> QED BY <1>10, <1>13 DEF HandInv

-----------------------------------------------------------------------------
LEMMA HandInit == MailInit => HandInv
<1> SUFFICES ASSUME MailInit PROVE HandInv
  OBVIOUS
<1>1. PICK m \in Msgs \ Spam : box = [f \in Folders |-> IF f = "spool" THEN <<m>> ELSE <<>>]
  BY DEF MailInit
<1>2. /\ box["spool"] = <<m>> /\ box["trash"] = <<>> /\ "spool" \in Folders
      /\ ToSet(box["spool"]) = {m}
  BY <1>1 DEF Folders, ToSet
<1>3. PICK e : e = [id |-> m, new |-> m \in unread]
  OBVIOUS
<1>4. gAll = <<e>>
  BY <1>2, <1>3 DEF MailInit
<1>5. /\ DOMAIN gAll = {1} /\ gAll \in Seq(Listed)
      /\ gAll[1].id = m /\ (gAll[1].new <=> m \in unread)
  <2>1. e.id = m /\ (e.new <=> m \in unread)
    BY <1>3
  <2>2. m \in unread \/ m \notin unread
    OBVIOUS
  <2>3. e \in Listed
    BY <1>1, <1>3 DEF Listed
  <2> QED BY <1>4, <2>1, <2>3
<1>6. /\ gMbox = "spool" /\ gFilter = FALSE /\ gRows = <<1>> /\ focused = 1 /\ body = m
      /\ ask = Nothing
  BY <1>5 DEF MailInit
<1>7. gUnread \in [Folders -> Int] /\ gUnread["spool"] = NewRows(gAll)
  <2>1. \A f \in Folders : NewIn(box[f], unread) \in Int
    <3>1. \A f \in Folders : box[f] \in Seq(Msgs)
      BY <1>1
    <3> QED BY <3>1, NewInTyped
  <2>2. gUnread \in [Folders -> Int] /\ gUnread["spool"] = NewIn(<<m>>, unread)
    BY <1>2, <2>1 DEF MailInit
  <2>3. {i \in DOMAIN <<m>> : <<m>>[i] \in unread} = {i \in DOMAIN gAll : gAll[i].new}
    <3>1. DOMAIN <<m>> = {1} /\ <<m>>[1] = m
      OBVIOUS
    <3> QED BY <1>5, <3>1
  <2> QED BY <2>2, <2>3 DEF NewIn, NewRows
<1>8. MailTypes
  <2>1. box \in [Folders -> Seq(Msgs)]
    BY <1>1
  <2>2. unread \subseteq Msgs /\ arrived \subseteq Msgs
    BY <1>1, <1>2 DEF MailInit
  <2>3. gRows \in Seq(DOMAIN gAll)
    BY <1>5, <1>6
  <2>4. /\ gSort \in {"date", "unread"} /\ pull \in {"no", "runs", "exited"}
        /\ unreadBefore \in Int /\ lastUnread \in Int /\ fresh \subseteq became
        /\ became \subseteq Msgs
    BY DEF MailInit
  <2>5. /\ gFilter \in BOOLEAN /\ gSortRev \in BOOLEAN /\ shifted \in BOOLEAN
        /\ lowered \in BOOLEAN /\ excused \in BOOLEAN
    BY DEF MailInit
  <2>6. gAll \in Seq(Listed) /\ gMbox \in Folders /\ focused \in Nat \ {0}
    BY <1>2, <1>5, <1>6
  <2> QED BY <1>7, <2>1, <2>2, <2>3, <2>4, <2>5, <2>6 DEF MailTypes
<1>9. RowsAreView
  <2>1. IsView(gRows, gAll, gFilter)
    BY <1>5, <1>6 DEF IsView
  <2> QED BY <1>6, <2>1 DEF RowsAreView
<1>10. ListHolds
  BY <1>2, <1>5, <1>6 DEF ListHolds, Held, About, Nothing
<1>11. MessageInHand
  <2>1. RightMessage
    BY DEF MailInit, RightMessage
  <2>2. BodyIsOfTheRow
    BY <1>5, <1>6 DEF BodyIsOfTheRow
  <2>3. CountsAgree
    BY <1>6, <1>7 DEF CountsAgree
  <2> QED BY <2>1, <2>2, <2>3 DEF MessageInHand
<1> QED BY <1>8, <1>9, <1>10, <1>11 DEF HandInv

\* Commands about the highlighted message, and questions
LEMMA CommandKeeps ==
    ASSUME HandInv,
           \/ viewSource \/ viewParts \/ replyOrCompose \/ forwardMsg
           \/ chatWithSender \/ openChatInvite \/ shareInChat \/ toCalendar
           \/ deleteMsg \/ moveMsg \/ saveMsg \/ purgeDialog \/ emptyTrash
    PROVE  HandInv'
<1>1. CASE \/ viewSource \/ viewParts \/ replyOrCompose \/ forwardMsg
           \/ chatWithSender \/ openChatInvite \/ eventToCalendar
  BY <1>1, FetchKeeps DEF viewSource, viewParts, replyOrCompose, forwardMsg, chatWithSender,
                          openChatInvite, eventToCalendar
<1>2. CASE shareInChat \/ FromList("todo")
  BY <1>2, FromListKeeps DEF shareInChat
<1>3. CASE deleteMsg \/ moveMsg \/ saveMsg
  BY <1>3, AskAboutKeeps DEF deleteMsg, moveMsg, saveMsg
<1>4. CASE purgeDialog \/ emptyTrash
  BY <1>4, AskToPurgeKeeps DEF purgeDialog, emptyTrash
<1> QED BY <1>1, <1>2, <1>3, <1>4 DEF toCalendar

LEMMA HandStep == HandInv /\ [MailNext]_mailVars => HandInv'
<1> SUFFICES ASSUME HandInv, [MailNext]_mailVars PROVE HandInv'
  OBVIOUS
<1>1. CASE MailNext
  BY <1>1, ReadKeeps, PickedKeeps, ViewKeeps, MarkKeeps, CommandKeeps, AnswerYesKeeps,
     AnswerKeeps, PullKeeps, BoxKeeps DEF MailNext
<1>2. CASE UNCHANGED mailVars
  <2>1. UNCHANGED <<mailbox, list, ask, handed, pulling, history>>
    BY <1>2 DEF mailVars
  <2>2. Grown
    BY <2>1 DEF Grown, mailbox, list, history
  <2>3. RightMessage'
    BY <2>1 DEF HandInv, MessageInHand, RightMessage
  <2>4. RowsAreView' /\ ListHolds' /\ MessageInHand'
    BY <2>1, <2>2, <2>3, ListLeft
  <2>5. MailTypes'
    BY <2>1 DEF HandInv, MailTypes, mailbox, list, pulling, history
  <2> QED BY <2>4, <2>5 DEF HandInv
<1> QED BY <1>1, <1>2

\* The list, the body and the counts agree with each other and with what a
\* command acts on.
THEOREM MessageAlwaysInHand == MailSpec => []MessageInHand
<1>1. HandInv => MessageInHand
  BY DEF HandInv
<1> QED BY <1>1, HandInit, HandStep, PTL DEF MailSpec

-----------------------------------------------------------------------------
(* News of mail.                                                           *)
(*                                                                         *)
(* Numbers are compared that were counted at different times.  What is     *)
(* unread in the inbox now and has not become so since the last pull was   *)
(* counted then; and if nothing was read or removed in between, all that   *)
(* was counted is still unread, apart from what arrived (Counts).          *)

\* A message is in one place, and has arrived; it is listed once.
Apart(b) ==
    \A f, g \in Folders : \A i \in DOMAIN b[f], j \in DOMAIN b[g] :
      b[f][i] = b[g][j] => f = g /\ i = j
Placed ==
    /\ \A f \in Folders : \A i \in DOMAIN box[f] : box[f][i] \in arrived
    /\ Apart(box)
ListedOnce == \A i, j \in DOMAIN gAll : gAll[i].id = gAll[j].id => i = j

InboxUnread == ToSet(box["spool"]) \cap unread
ShownNew(all) == {all[i].id : i \in {j \in DOMAIN all : all[j].new}}
Counts(n) ==
    /\ Cardinality(InboxUnread \ became) <= n
    /\ ~lowered => n <= Cardinality(InboxUnread \ fresh)
InboxShown ==
    gMbox = "spool" => /\ InboxUnread \ became \subseteq ShownNew(gAll)
                       /\ ~lowered => ShownNew(gAll) \subseteq InboxUnread
InboxCounted ==
    /\ Cardinality(InboxUnread \ became) <= gUnread["spool"]
    /\ ~lowered => gUnread["spool"] <= Cardinality(InboxUnread)
PullCounted ==
    /\ lastUnread >= 0 => Counts(lastUnread)
    /\ unreadBefore >= 0 => Counts(unreadBefore)
NewsInv ==
    /\ HandInv /\ Placed /\ ListedOnce
    /\ ~excused => InboxShown /\ InboxCounted /\ PullCounted

LEMMA MembersFinite ==
    ASSUME NEW S, NEW q \in Seq(S) PROVE IsFiniteSet(ToSet(q)) /\ IsFiniteSet(DOMAIN q)
<1>1. DOMAIN q = 1 .. Len(q) /\ Len(q) \in Int
  OBVIOUS
<1>2. IsFiniteSet(DOMAIN q)
  BY <1>1, FS_Interval
<1>3. [i \in DOMAIN q |-> q[i]] \in Surjection(DOMAIN q, ToSet(q))
  BY DEF Surjection, ToSet
<1> QED BY <1>2, <1>3, FS_Surjection

\* Where none comes twice, places and members are as many.
LEMMA AsMany ==
    ASSUME NEW S, IsFiniteSet(S), NEW T, NEW f \in [S -> T],
           \A i, j \in S : f[i] = f[j] => i = j, \A t \in T : \E i \in S : f[i] = t
    PROVE  IsFiniteSet(T) /\ Cardinality(T) = Cardinality(S)
<1>1. f \in Bijection(S, T)
  BY DEF Bijection, Injection, Surjection, IsInjective
<1> QED BY <1>1, FS_Bijection DEF ExistsBijection

LEMMA NewInIs ==
    ASSUME NEW q \in Seq(Msgs), \A i, j \in DOMAIN q : q[i] = q[j] => i = j, NEW u
    PROVE  NewIn(q, u) = Cardinality(ToSet(q) \cap u)
<1>1. PICK S : S = {i \in DOMAIN q : q[i] \in u}
  OBVIOUS
<1>2. PICK T : T = ToSet(q) \cap u
  OBVIOUS
<1>3. IsFiniteSet(S)
  BY <1>1, MembersFinite, FS_Subset
<1>4. PICK f : f = [i \in S |-> q[i]]
  OBVIOUS
<1>5. f \in [S -> T]
  BY <1>1, <1>2, <1>4 DEF ToSet
<1>6. \A i, j \in S : f[i] = f[j] => i = j
  BY <1>1, <1>4
<1>7. \A t \in T : \E i \in S : f[i] = t
  BY <1>1, <1>2, <1>4 DEF ToSet
<1>8. Cardinality(T) = Cardinality(S)
  BY <1>3, <1>5, <1>6, <1>7, AsMany
<1> QED BY <1>1, <1>2, <1>8 DEF NewIn

LEMMA NewRowsIs ==
    ASSUME NEW all \in Seq(Listed), \A i, j \in DOMAIN all : all[i].id = all[j].id => i = j
    PROVE  /\ NewRows(all) = Cardinality(ShownNew(all)) /\ IsFiniteSet(ShownNew(all))
<1>1. PICK S : S = {i \in DOMAIN all : all[i].new}
  OBVIOUS
<1>2. PICK T : T = ShownNew(all)
  OBVIOUS
<1>3. IsFiniteSet(S)
  BY <1>1, MembersFinite, FS_Subset
<1>4. PICK f : f = [i \in S |-> all[i].id]
  OBVIOUS
<1>5. f \in [S -> T]
  BY <1>1, <1>2, <1>4 DEF ShownNew
<1>6. \A i, j \in S : f[i] = f[j] => i = j
  BY <1>1, <1>4
<1>7. \A t \in T : \E i \in S : f[i] = t
  BY <1>1, <1>2, <1>4 DEF ShownNew
<1>8. IsFiniteSet(T) /\ Cardinality(T) = Cardinality(S)
  BY <1>3, <1>5, <1>6, <1>7, AsMany
<1> QED BY <1>1, <1>2, <1>8 DEF NewRows

\* What a copy of a mailbox shows as new is what is unread in it.
LEMMA CopyShows ==
    ASSUME NEW b \in [Folders -> Seq(Msgs)], Apart(b), NEW u, NEW f \in Folders,
           NEW all, all = Copy(b, u, f)
    PROVE  /\ \A i, j \in DOMAIN all : all[i].id = all[j].id => i = j
           /\ ShownNew(all) = ToSet(b[f]) \cap u
<1>1. /\ all \in Seq(Listed) /\ DOMAIN all = DOMAIN b[f]
      /\ \A i \in DOMAIN b[f] : all[i].id = b[f][i] /\ (all[i].new <=> b[f][i] \in u)
  BY CopyIs
<1>2. \A i, j \in DOMAIN all : all[i].id = all[j].id => i = j
  BY <1>1 DEF Apart
<1>3. ASSUME NEW m PROVE m \in ShownNew(all) <=> m \in ToSet(b[f]) \cap u
  BY <1>1 DEF ShownNew, ToSet
<1> QED BY <1>2, <1>3

-----------------------------------------------------------------------------
(* Steps.                                                                  *)

\* What a step but pullFinished does to the unread in the inbox: more of them
\* have become so; and fewer are a fact that is remembered.
Steady ==
    /\ InboxUnread' \ became' \subseteq InboxUnread \ became
    /\ ~lowered' => /\ ~lowered /\ InboxUnread \subseteq InboxUnread'
                    /\ InboxUnread \ fresh \subseteq InboxUnread' \ fresh'

LEMMA UnreadFinite == ASSUME HandInv PROVE IsFiniteSet(InboxUnread)
<1>1. box["spool"] \in Seq(Msgs)
  BY DEF HandInv, MailTypes, Folders
<1> QED BY <1>1, MembersFinite, FS_Subset DEF InboxUnread

LEMMA UnreadFiniteNext == ASSUME HandInv' PROVE IsFiniteSet(InboxUnread')
<1>1. box'["spool"] \in Seq(Msgs)
  BY DEF HandInv, MailTypes, Folders
<1>2. IsFiniteSet(ToSet(box'["spool"]))
  BY <1>1, MembersFinite
<1>3. InboxUnread' = ToSet(box'["spool"]) \cap unread'
  BY DEF InboxUnread
<1> QED BY <1>2, <1>3, FS_Subset

\* More members, a larger number
LEMMA Larger ==
    ASSUME NEW T, IsFiniteSet(T), NEW S \in SUBSET T
    PROVE  /\ Cardinality(S) <= Cardinality(T) /\ Cardinality(S) \in Nat
           /\ Cardinality(T) \in Nat /\ IsFiniteSet(S)
BY FS_Subset, FS_CardinalityType

LEMMA SteadyCounts ==
    ASSUME HandInv, HandInv', Steady, NEW n \in Int, Counts(n)
    PROVE  /\ Cardinality(InboxUnread' \ became') <= n
           /\ ~lowered' => n <= Cardinality(InboxUnread' \ fresh')
<1>1. IsFiniteSet(InboxUnread) /\ IsFiniteSet(InboxUnread')
  BY UnreadFinite, UnreadFiniteNext
<1>2. Cardinality(InboxUnread' \ became') <= n
  <2>1. IsFiniteSet(InboxUnread \ became)
    BY <1>1, Larger
  <2>2. /\ Cardinality(InboxUnread' \ became') <= Cardinality(InboxUnread \ became)
        /\ Cardinality(InboxUnread' \ became') \in Nat /\ Cardinality(InboxUnread \ became) \in Nat
    BY <2>1, Larger DEF Steady
  <2> QED BY <2>2 DEF Counts
<1>3. ASSUME ~lowered' PROVE n <= Cardinality(InboxUnread' \ fresh')
  <2>1. IsFiniteSet(InboxUnread' \ fresh')
    BY <1>1, Larger
  <2>2. /\ Cardinality(InboxUnread \ fresh) <= Cardinality(InboxUnread' \ fresh')
        /\ Cardinality(InboxUnread' \ fresh') \in Nat /\ Cardinality(InboxUnread \ fresh) \in Nat
    BY <1>3, <2>1, Larger DEF Steady
  <2>3. n <= Cardinality(InboxUnread \ fresh)
    BY <1>3 DEF Counts, Steady
  <2> QED BY <2>2, <2>3
<1> QED BY <1>2, <1>3

LEMMA SteadyPull ==
    ASSUME HandInv, HandInv', Steady, PullCounted, UNCHANGED <<lastUnread, unreadBefore>>
    PROVE  PullCounted'
<1>1. lastUnread \in Int /\ unreadBefore \in Int
  BY DEF HandInv, MailTypes
<1>2. ASSUME lastUnread >= 0 PROVE Counts(lastUnread)'
  <2>1. Counts(lastUnread)
    BY <1>2 DEF PullCounted
  <2> QED BY <1>1, <2>1, SteadyCounts DEF Counts
<1>3. ASSUME unreadBefore >= 0 PROVE Counts(unreadBefore)'
  <2>1. Counts(unreadBefore)
    BY <1>3 DEF PullCounted
  <2> QED BY <1>1, <2>1, SteadyCounts DEF Counts
<1> QED BY <1>2, <1>3 DEF PullCounted

LEMMA SteadyInbox ==
    ASSUME HandInv, HandInv', Steady, InboxCounted, gUnread'["spool"] = gUnread["spool"]
    PROVE  InboxCounted'
<1>1. IsFiniteSet(InboxUnread) /\ IsFiniteSet(InboxUnread') /\ gUnread["spool"] \in Int
  BY UnreadFinite, UnreadFiniteNext DEF HandInv, MailTypes, Folders
<1>2. Cardinality(InboxUnread' \ became') <= gUnread["spool"]
  <2>1. IsFiniteSet(InboxUnread \ became)
    BY <1>1, Larger
  <2>2. /\ Cardinality(InboxUnread' \ became') <= Cardinality(InboxUnread \ became)
        /\ Cardinality(InboxUnread' \ became') \in Nat /\ Cardinality(InboxUnread \ became) \in Nat
    BY <2>1, Larger DEF Steady
  <2> QED BY <1>1, <2>2 DEF InboxCounted
<1>3. ASSUME ~lowered' PROVE gUnread["spool"] <= Cardinality(InboxUnread')
  <2>1. /\ Cardinality(InboxUnread) <= Cardinality(InboxUnread')
        /\ Cardinality(InboxUnread') \in Nat /\ Cardinality(InboxUnread) \in Nat
    BY <1>1, <1>3, Larger DEF Steady
  <2>2. gUnread["spool"] <= Cardinality(InboxUnread)
    BY <1>3 DEF InboxCounted, Steady
  <2> QED BY <1>1, <2>1, <2>2
<1> QED BY <1>2, <1>3 DEF InboxCounted

\* Nothing of it changes.
LEMMA NewsLeft ==
    ASSUME NewsInv, HandInv',
           UNCHANGED <<box, unread, arrived, gMbox, gAll, gUnread, fresh, became, lowered, excused,
                       lastUnread, unreadBefore>>
    PROVE  NewsInv'
<1>1. Placed' /\ ListedOnce'
  BY DEF NewsInv, Placed, Apart, ListedOnce
<1>2. InboxUnread' = InboxUnread
  BY DEF InboxUnread
<1>3. ~excused' => InboxShown' /\ InboxCounted' /\ PullCounted'
  BY <1>2 DEF NewsInv, InboxShown, InboxCounted, PullCounted, Counts, ShownNew
<1> QED BY <1>1, <1>3 DEF NewsInv

LEMMA CommandNews ==
    ASSUME NewsInv, HandInv',
           \/ viewSource \/ viewParts \/ replyOrCompose \/ forwardMsg
           \/ chatWithSender \/ openChatInvite \/ shareInChat \/ toCalendar
           \/ deleteMsg \/ moveMsg \/ saveMsg \/ purgeDialog \/ emptyTrash
           \/ AnswerPath \/ AnswerNo \/ PullExits
           \/ cmMsgPicked \/ cmFilterChanged \/ cmSort \/ UNCHANGED mailVars
    PROVE  NewsInv'
<1>1. CASE \/ viewSource \/ viewParts \/ replyOrCompose \/ forwardMsg
           \/ chatWithSender \/ openChatInvite \/ shareInChat \/ toCalendar
  <2>1. UNCHANGED <<mailbox, list, pulling, history>>
    BY <1>1 DEF viewSource, viewParts, replyOrCompose, forwardMsg, chatWithSender,
                openChatInvite, shareInChat, toCalendar, eventToCalendar, Fetch, FromList
  <2> QED BY <2>1, NewsLeft DEF mailbox, list, pulling, history
<1>2. CASE \/ deleteMsg \/ moveMsg \/ saveMsg \/ purgeDialog \/ emptyTrash
           \/ AnswerPath \/ AnswerNo
  <2>1. UNCHANGED <<mailbox, list, pulling, history>>
    BY <1>2 DEF deleteMsg, moveMsg, saveMsg, purgeDialog, emptyTrash, AnswerPath, AnswerNo,
                AskAbout, AskToPurge
  <2> QED BY <2>1, NewsLeft DEF mailbox, list, pulling, history
<1>3. CASE PullExits
  BY <1>3, NewsLeft DEF PullExits, mailbox, list, history
<1>4. CASE cmMsgPicked \/ cmFilterChanged \/ cmSort
  BY <1>4, NewsLeft DEF cmMsgPicked, cmFilterChanged, cmSort, mailbox, pulling, history
<1>5. CASE UNCHANGED mailVars
  BY <1>5, NewsLeft DEF mailVars, mailbox, list, pulling, history
<1> QED BY <1>1, <1>2, <1>3, <1>4, <1>5

\* The pull begins with the lower of two numbers.
LEMMA PullNews == ASSUME NewsInv, HandInv', pullMail PROVE NewsInv'
<1>1. /\ unreadBefore' = IF 0 <= lastUnread /\ lastUnread < gUnread["spool"]
                         THEN lastUnread ELSE gUnread["spool"]
      /\ fresh' = IF lastUnread < 0 THEN {} ELSE fresh
      /\ UNCHANGED <<mailbox, list, ask, handed, lastUnread, shifted, became, lowered, excused>>
  BY DEF pullMail
<1>2. Placed' /\ ListedOnce'
  BY <1>1 DEF NewsInv, Placed, Apart, ListedOnce, mailbox, list
<1>3. InboxUnread' = InboxUnread /\ gAll' = gAll /\ gMbox' = gMbox /\ gUnread' = gUnread
  BY <1>1 DEF InboxUnread, mailbox, list
<1>4. ASSUME ~excused' PROVE InboxShown' /\ InboxCounted' /\ PullCounted'
  <2>1. InboxShown /\ InboxCounted /\ PullCounted
    BY <1>1, <1>4 DEF NewsInv
  <2>2. InboxShown' /\ InboxCounted'
    BY <1>1, <1>3, <2>1 DEF InboxShown, InboxCounted, ShownNew
  <2>3. lastUnread \in Int /\ gUnread["spool"] \in Int
    BY DEF NewsInv, HandInv, MailTypes, Folders
  <2>4. /\ Cardinality(InboxUnread) \in Nat /\ Cardinality(InboxUnread \ fresh) \in Nat
        /\ Cardinality(InboxUnread \ became) \in Nat
    BY UnreadFinite, Larger, FS_CardinalityType DEF NewsInv
  <2>5. lastUnread >= 0 => Counts(lastUnread) /\ fresh' = fresh
    BY <1>1, <2>1, <2>3 DEF PullCounted
  <2>6. Counts(unreadBefore)'
    <3>1. /\ Cardinality(InboxUnread \ became) <= unreadBefore'
      BY <1>1, <2>1, <2>3, <2>4, <2>5 DEF InboxCounted, Counts
    <3>2. ASSUME ~lowered PROVE unreadBefore' <= Cardinality(InboxUnread \ fresh')
      <4>1. gUnread["spool"] <= Cardinality(InboxUnread)
        BY <2>1, <3>2 DEF InboxCounted
      <4>2. CASE lastUnread >= 0
        BY <1>1, <2>3, <2>4, <2>5, <3>2, <4>2 DEF Counts
      <4>3. CASE lastUnread < 0
        <5>1. fresh' = {} /\ unreadBefore' = gUnread["spool"]
          BY <1>1, <2>3, <4>3
        <5>2. InboxUnread \ fresh' = InboxUnread
          BY <5>1
        <5> QED BY <4>1, <5>1, <5>2
      <4> QED BY <2>3, <4>2, <4>3
    <3> QED BY <1>1, <1>3, <3>1, <3>2 DEF Counts
  <2>7. lastUnread' >= 0 => Counts(lastUnread)'
    BY <1>1, <1>3, <2>5 DEF Counts
  <2> QED BY <2>2, <2>6, <2>7 DEF PullCounted
<1> QED BY <1>2, <1>4 DEF NewsInv

\* The mailboxes change and the list is left.
LEMMA SteadyNews ==
    ASSUME NewsInv, HandInv', Steady, Placed', UNCHANGED <<list, pulling, excused>>
    PROVE  NewsInv'
<1>1. UNCHANGED <<gMbox, gAll, gUnread, lastUnread, unreadBefore>>
  BY DEF list, pulling
<1>2. ListedOnce'
  BY <1>1 DEF NewsInv, ListedOnce
<1>3. ASSUME ~excused' PROVE InboxShown' /\ InboxCounted' /\ PullCounted'
  <2>1. InboxShown /\ InboxCounted /\ PullCounted /\ HandInv
    BY <1>3 DEF NewsInv
  <2>2. InboxShown'
    BY <1>1, <2>1 DEF InboxShown, Steady, ShownNew
  <2>3. InboxCounted'
    BY <1>1, <2>1, SteadyInbox
  <2>4. PullCounted'
    BY <1>1, <2>1, SteadyPull
  <2> QED BY <2>2, <2>3, <2>4
<1> QED BY <1>2, <1>3 DEF NewsInv

LEMMA ArrivesNews == ASSUME NewsInv, HandInv', Arrives PROVE NewsInv'
<1>1. PICK m \in Msgs \ arrived :
        /\ box' = [box EXCEPT !["spool"] = Append(@, m)]
        /\ unread' = unread \cup {m} /\ arrived' = arrived \cup {m}
        /\ fresh' = fresh \cup {m} /\ became' = became \cup {m}
  BY DEF Arrives
<1>2. UNCHANGED <<list, ask, handed, pulling, shifted, lowered, excused, budget>>
  BY DEF Arrives
<1>3. box \in [Folders -> Seq(Msgs)] /\ "spool" \in Folders
  BY DEF NewsInv, HandInv, MailTypes, Folders
<1>4. PICK q \in Seq(Msgs) : q = box["spool"]
  BY <1>3
<1>5. PICK z : z = Append(q, m)
  OBVIOUS
<1>6. /\ DOMAIN q = 1 .. Len(q) /\ DOMAIN z = 1 .. Len(q) + 1 /\ Len(q) \in Nat
      /\ z[Len(q) + 1] = m /\ \A i \in DOMAIN q : z[i] = q[i]
  BY <1>4, <1>5
<1>7. \A f \in Folders : box'[f] = IF f = "spool" THEN z ELSE box[f]
  BY <1>1, <1>3, <1>4, <1>5
<1>8. \A f \in Folders : \A i \in DOMAIN box[f] : box[f][i] \in arrived
  BY DEF NewsInv, Placed
<1>9. Placed'
  <2>1. ASSUME NEW f \in Folders, NEW i \in DOMAIN box'[f] PROVE box'[f][i] \in arrived'
    <3>1. CASE f = "spool"
      BY <1>1, <1>3, <1>4, <1>6, <1>7, <1>8, <2>1, <3>1
    <3>2. CASE f # "spool"
      BY <1>1, <1>7, <1>8, <2>1, <3>2
    <3> QED BY <3>1, <3>2
  <2>2. ASSUME NEW f \in Folders, NEW g \in Folders, NEW i \in DOMAIN box'[f],
               NEW j \in DOMAIN box'[g], box'[f][i] = box'[g][j]
        PROVE  f = g /\ i = j
    <3>1. ASSUME NEW h \in Folders, NEW k \in DOMAIN box'[h], box'[h][k] # m
          PROVE  k \in DOMAIN box[h] /\ box'[h][k] = box[h][k]
      BY <1>4, <1>6, <1>7, <3>1
    <3>2. ASSUME NEW h \in Folders, NEW k \in DOMAIN box'[h], box'[h][k] = m
          PROVE  h = "spool" /\ k = Len(q) + 1
      <4>1. m \notin arrived
        BY <1>1
      <4>2. CASE h # "spool"
        BY <1>7, <1>8, <3>2, <4>1, <4>2
      <4>3. CASE h = "spool" /\ k \in DOMAIN q
        BY <1>3, <1>4, <1>6, <1>7, <1>8, <3>2, <4>1, <4>3
      <4>4. CASE h = "spool" /\ k \notin DOMAIN q
        BY <1>3, <1>6, <1>7, <3>2, <4>4
      <4> QED BY <4>2, <4>3, <4>4
    <3>3. CASE box'[f][i] = m
      BY <2>2, <3>2, <3>3
    <3>4. CASE box'[f][i] # m
      BY <2>2, <3>1, <3>4 DEF NewsInv, Placed, Apart
    <3> QED BY <3>3, <3>4
  <2> QED BY <2>1, <2>2 DEF Placed, Apart
<1>10. Steady
  <2>1. ToSet(box'["spool"]) = ToSet(box["spool"]) \cup {m}
    BY <1>3, <1>4, <1>6, <1>7 DEF ToSet
  <2>2. m \notin ToSet(box["spool"])
    BY <1>1, <1>3, <1>8 DEF ToSet
  <2>3. InboxUnread' = InboxUnread \cup {m} /\ m \notin InboxUnread
    BY <1>1, <2>1, <2>2 DEF InboxUnread
  <2> QED BY <1>1, <1>2, <2>3 DEF Steady
<1> QED BY <1>2, <1>9, <1>10, SteadyNews

LEMMA OthersReadNews == ASSUME NewsInv, HandInv', OthersRead PROVE NewsInv'
<1>1. /\ UNCHANGED <<box, arrived, list, pulling, fresh, became, excused>>
      /\ lowered' = TRUE /\ unread' \subseteq unread
  BY DEF OthersRead
<1>2. Placed'
  BY <1>1 DEF NewsInv, Placed, Apart
<1>3. Steady
  BY <1>1 DEF Steady, InboxUnread
<1> QED BY <1>1, <1>2, <1>3, SteadyNews

\* What is taken out of the mailboxes leaves the rest in its one place.
LEMMA WithoutOnce ==
    ASSUME NEW q \in Seq(Msgs), NEW S, \A i, j \in DOMAIN q : q[i] = q[j] => i = j
    PROVE  \A i, j \in DOMAIN Without(q, S) : Without(q, S)[i] = Without(q, S)[j] => i = j
<1>1. PICK R : R = Msgs \ S
  OBVIOUS
<1>2. PICK k : k = Keep(q, R)
  OBVIOUS
<1>3. \A i, j \in DOMAIN k : k[i] = k[j] => i = j
  BY <1>2, KeepOnce
<1> QED BY <1>1, <1>2, <1>3 DEF Without

LEMMA RemovedNews == ASSUME NewsInv, HandInv', OthersRemove \/ PullFiles PROVE NewsInv'
<1>1. PICK m :
        /\ box' = [box EXCEPT !["spool"] = Without(@, {m})]
        /\ lowered' = (lowered \/ m \in unread)
        /\ fresh' \in {fresh, fresh \ {m}}
  BY DEF OthersRemove, PullFiles
<1>2. UNCHANGED <<unread, arrived, became, list, pulling, excused>>
  BY DEF OthersRemove, PullFiles
<1>3. box \in [Folders -> Seq(Msgs)] /\ "spool" \in Folders
  BY DEF NewsInv, HandInv, MailTypes, Folders
<1>4. PICK q \in Seq(Msgs) : q = box["spool"]
  BY <1>3
<1>5. PICK z : z = Without(q, {m})
  OBVIOUS
<1>6. /\ \A i \in DOMAIN z : \E j \in DOMAIN q : z[i] = q[j] /\ q[j] # m
      /\ \A j \in DOMAIN q : q[j] # m => \E i \in DOMAIN z : z[i] = q[j]
  <2>1. PICK S : S = {m}
    OBVIOUS
  <2>2. PICK y : y = Without(q, S)
    OBVIOUS
  <2>3. /\ \A i \in DOMAIN y : \E j \in DOMAIN q : y[i] = q[j] /\ q[j] \notin S
        /\ \A j \in DOMAIN q : q[j] \notin S => \E i \in DOMAIN y : y[i] = q[j]
    BY <1>4, <2>2, WithoutIs
  <2>4. z = y
    BY <1>5, <2>1, <2>2
  <2> QED BY <2>1, <2>3, <2>4
<1>7. \A i, j \in DOMAIN z : z[i] = z[j] => i = j
  <2>1. \A i, j \in DOMAIN q : q[i] = q[j] => i = j
    BY <1>3, <1>4 DEF NewsInv, Placed, Apart
  <2> QED BY <1>4, <1>5, <2>1, WithoutOnce
<1>8. \A f \in Folders : box'[f] = IF f = "spool" THEN z ELSE box[f]
  BY <1>1, <1>3, <1>4, <1>5
<1>9. Placed'
  <2>1. ASSUME NEW f \in Folders, NEW i \in DOMAIN box'[f]
        PROVE  \E j \in DOMAIN box[f] : box'[f][i] = box[f][j]
    BY <1>4, <1>6, <1>8
  <2>2. \A f \in Folders : \A i \in DOMAIN box'[f] : box'[f][i] \in arrived'
    BY <1>2, <2>1 DEF NewsInv, Placed
  <2>3. ASSUME NEW f \in Folders, NEW g \in Folders, NEW i \in DOMAIN box'[f],
               NEW j \in DOMAIN box'[g], box'[f][i] = box'[g][j]
        PROVE  f = g /\ i = j
    <3>1. f = g
      <4>1. PICK k \in DOMAIN box[f] : box'[f][i] = box[f][k]
        BY <2>1
      <4>2. PICK l \in DOMAIN box[g] : box'[g][j] = box[g][l]
        BY <2>1
      <4> QED BY <2>3, <4>1, <4>2 DEF NewsInv, Placed, Apart
    <3>2. CASE f = "spool"
      BY <1>7, <1>8, <2>3, <3>1, <3>2
    <3>3. CASE f # "spool"
      BY <1>8, <2>3, <3>1, <3>3 DEF NewsInv, Placed, Apart
    <3> QED BY <3>1, <3>2, <3>3
  <2> QED BY <2>2, <2>3 DEF Placed, Apart
<1>10. Steady
  <2>1. ToSet(box'["spool"]) = ToSet(box["spool"]) \ {m}
    BY <1>3, <1>4, <1>6, <1>8 DEF ToSet
  <2>2. InboxUnread' = InboxUnread \ {m}
    BY <1>2, <2>1 DEF InboxUnread
  <2>3. ~lowered' => ~lowered /\ m \notin InboxUnread
    BY <1>1 DEF InboxUnread
  <2> QED BY <1>1, <1>2, <2>2, <2>3 DEF Steady
<1> QED BY <1>2, <1>9, <1>10, SteadyNews

\* The folder pane's number is of the rows shown as new.
LEMMA CountedAsShown ==
    ASSUME HandInv', ListedOnce', InboxShown', gMbox' = "spool"
    PROVE  InboxCounted'
<1>1. PICK all \in Seq(Listed) : all = gAll'
  BY DEF HandInv, MailTypes
<1>2. \A i, j \in DOMAIN all : all[i].id = all[j].id => i = j
  BY <1>1 DEF ListedOnce
<1>3. NewRows(all) = Cardinality(ShownNew(all)) /\ IsFiniteSet(ShownNew(all))
  BY <1>2, NewRowsIs
<1>4. gUnread'["spool"] = Cardinality(ShownNew(all))
  BY <1>1, <1>3 DEF HandInv, MessageInHand, CountsAgree
<1>5. /\ InboxUnread' \ became' \subseteq ShownNew(all)
      /\ ~lowered' => ShownNew(all) \subseteq InboxUnread'
  BY <1>1 DEF InboxShown, ShownNew
<1>6. IsFiniteSet(InboxUnread')
  BY UnreadFiniteNext
<1>7. Cardinality(InboxUnread' \ became') <= gUnread'["spool"]
  BY <1>3, <1>4, <1>5, Larger
<1>8. ~lowered' => gUnread'["spool"] <= Cardinality(InboxUnread')
  BY <1>4, <1>5, <1>6, Larger
<1> QED BY <1>7, <1>8 DEF InboxCounted

LEMMA MarkNews ==
    ASSUME NewsInv, HandInv', NEW read \in BOOLEAN, markFocused(read) PROVE NewsInv'
<1>1. PICK i : i = gRows[focused]
  OBVIOUS
<1>2. PICK hit : hit = (i \in DOMAIN box[gMbox] /\ box[gMbox][i] = gAll[i].id)
  OBVIOUS
<1>3. /\ focused \in DOMAIN gRows /\ gAll[i].new = read
      /\ gAll' = Flagged(i, ~read)
      /\ unread' = Marked(i, read)
      /\ gUnread' = IF gUnread[gMbox] < 0 THEN gUnread
                    ELSE [gUnread EXCEPT ![gMbox] = IF read /\ @ > 0 THEN @ - 1
                                                    ELSE IF read THEN 0 ELSE @ + 1]
      /\ became' = IF gMbox = "spool" THEN became \cup (unread' \ unread) ELSE became
      /\ lowered' = (lowered \/ unread' # unread)
      /\ UNCHANGED <<box, arrived, gMbox, pulling, fresh>>
  BY <1>1 DEF markFocused, Flagged
<1>4. excused' = (excused \/ ~hit)
  BY <1>1, <1>2 DEF markFocused
<1>5. HandInv /\ i \in DOMAIN gAll /\ gMbox \in Folders
  <2>1. gRows \in Seq(DOMAIN gAll) /\ gMbox \in Folders
    BY DEF NewsInv, HandInv, MailTypes
  <2> QED BY <1>1, <1>3, <2>1 DEF NewsInv
<1>6. PICK all : all = gAll'
  OBVIOUS
<1>7. /\ DOMAIN all = DOMAIN gAll
      /\ \A j \in DOMAIN gAll : all[j].id = gAll[j].id
      /\ \A j \in DOMAIN gAll : all[j].new = IF j = i THEN ~read ELSE gAll[j].new
  BY <1>3, <1>5, <1>6, FlaggedIs
<1>8. Placed'
  BY <1>3 DEF NewsInv, Placed, Apart
<1>9. ListedOnce'
  BY <1>6, <1>7 DEF NewsInv, ListedOnce
<1>10. ASSUME ~excused' PROVE InboxShown' /\ InboxCounted' /\ PullCounted'
  <2>1. PICK m : m = gAll[i].id
    OBVIOUS
  <2>2. i \in DOMAIN box[gMbox] /\ box[gMbox][i] = m
    BY <1>2, <1>4, <1>10, <2>1
  <2>3. InboxShown /\ InboxCounted /\ PullCounted
    BY <1>4, <1>10 DEF NewsInv
  <2>4. unread' = IF read THEN unread \ {m} ELSE unread \cup {m}
    BY <1>3, <2>2 DEF Marked
  <2>5. UNCHANGED <<lastUnread, unreadBefore>>
    BY <1>3 DEF pulling
  <2>6. CASE gMbox = "spool"
    <3>1. m \in ToSet(box["spool"])
      BY <2>2, <2>6 DEF ToSet
    <3>2. InboxUnread' = IF read THEN InboxUnread \ {m} ELSE InboxUnread \cup {m}
      BY <1>3, <2>4, <3>1 DEF InboxUnread
    <3>3. ShownNew(all) = IF read THEN ShownNew(gAll) \ {m} ELSE ShownNew(gAll) \cup {m}
      <4>1. \A j \in DOMAIN gAll : gAll[j].id = m => j = i
        BY <1>5, <2>1 DEF NewsInv, ListedOnce
      <4>2. CASE read
        BY <1>5, <1>7, <2>1, <4>1, <4>2 DEF ShownNew
      <4>3. CASE ~read
        BY <1>5, <1>7, <2>1, <4>1, <4>3 DEF ShownNew
      <4> QED BY <4>2, <4>3
    <3>4. /\ InboxUnread \ became \subseteq ShownNew(gAll)
          /\ ~lowered => ShownNew(gAll) \subseteq InboxUnread
      BY <2>3, <2>6 DEF InboxShown
    <3>5. /\ became' = became \cup (unread' \ unread)
          /\ ~lowered' => ~lowered /\ unread' = unread
          /\ fresh' = fresh
      BY <1>3, <2>6
    <3>6. m \in InboxUnread <=> m \in unread
      BY <3>1 DEF InboxUnread
    <3>7. Steady
      <4>1. CASE read
        BY <2>4, <3>2, <3>5, <3>6, <4>1 DEF Steady
      <4>2. CASE ~read
        BY <2>4, <3>2, <3>5, <3>6, <4>2 DEF Steady
      <4> QED BY <4>1, <4>2
    <3>8. /\ InboxUnread' \ became' \subseteq ShownNew(all)
          /\ ~lowered' => ShownNew(all) \subseteq InboxUnread'
      <4>1. CASE read
        BY <2>4, <3>2, <3>3, <3>4, <3>5, <3>6, <4>1
      <4>2. CASE ~read
        BY <2>4, <3>2, <3>3, <3>4, <3>5, <3>6, <4>2
      <4> QED BY <4>1, <4>2
    <3>9. InboxShown'
      BY <1>6, <3>8 DEF InboxShown, ShownNew
    <3>10. InboxCounted'
      BY <1>3, <1>9, <2>6, <3>9, CountedAsShown
    <3>11. PullCounted'
      BY <1>5, <2>3, <2>5, <3>7, SteadyPull
    <3> QED BY <3>9, <3>10, <3>11
  <2>7. CASE gMbox # "spool"
    <3>1. "spool" \in Folders
      BY DEF Folders
    <3>2. m \notin ToSet(box["spool"])
      BY <1>5, <2>2, <2>7, <3>1 DEF NewsInv, Placed, Apart, ToSet
    <3>3. InboxUnread' = InboxUnread
      BY <1>3, <2>4, <3>2 DEF InboxUnread
    <3>4. Steady
      BY <1>3, <2>7, <3>3 DEF Steady
    <3>5. gUnread'["spool"] = gUnread["spool"]
      <4>1. gUnread \in [Folders -> Int]
        BY <1>5 DEF HandInv, MailTypes
      <4> QED BY <1>3, <2>7, <3>1, <4>1
    <3>6. InboxShown'
      BY <1>3, <2>7 DEF InboxShown
    <3> QED BY <1>5, <2>3, <2>5, <3>4, <3>5, <3>6, SteadyInbox, SteadyPull
  <2> QED BY <2>6, <2>7
<1> QED BY <1>8, <1>9, <1>10 DEF NewsInv

\* What is read again is shown as it is.
LEMMA ReadAgainIs ==
    ASSUME HandInv, HandInv', Placed', NEW f \in Folders, NEW filter, NEW keep, NEW ok \in BOOLEAN,
           NEW counts \in [Folders -> Int], loadFolder(f, filter, keep, box', unread', ok, counts)
    PROVE  /\ ListedOnce' /\ excused' = (excused \/ ~ok)
           /\ ok => InboxShown' /\ (f = "spool" => gUnread'["spool"] = Cardinality(InboxUnread'))
           /\ f # "spool" => gUnread'["spool"] = counts["spool"]
<1>1. PICK b : b = box'
  OBVIOUS
<1>2. PICK u : u = unread'
  OBVIOUS
<1>3. /\ loadFolder(f, filter, keep, b, u, ok, counts)
      /\ b \in [Folders -> Seq(Msgs)] /\ Apart(b) /\ focused \in Nat \ {0}
  <2>1. loadFolder(f, filter, keep, b, u, ok, counts)
    BY <1>1, <1>2
  <2>2. b \in [Folders -> Seq(Msgs)]
    BY <1>1 DEF HandInv, MailTypes
  <2>3. focused \in Nat \ {0}
    BY DEF HandInv, MailTypes
  <2>4. Apart(b)
    BY <1>1 DEF Placed, Apart
  <2> QED BY <2>1, <2>2, <2>3, <2>4
<1>4. /\ gAll' = Copy(b, u, f) \/ (gAll' = <<>> /\ ~ok)
      /\ gMbox' = f
      /\ gUnread' = [counts EXCEPT ![f] = NewRows(gAll')]
  BY <1>3, Loaded
<1>5. PICK all : all = Copy(b, u, f)
  OBVIOUS
<1>6. /\ \A i, j \in DOMAIN all : all[i].id = all[j].id => i = j
      /\ ShownNew(all) = ToSet(b[f]) \cap u
  BY <1>3, <1>5, CopyShows
<1>7. ListedOnce'
  BY <1>4, <1>5, <1>6 DEF ListedOnce
<1>8. excused' = (excused \/ ~ok)
  BY <1>3 DEF loadFolder
<1>9. f # "spool" => gUnread'["spool"] = counts["spool"]
  BY <1>4 DEF Folders
<1>10. ASSUME ok PROVE InboxShown' /\ (f = "spool" => gUnread'["spool"] = Cardinality(InboxUnread'))
  <2>1. CASE f # "spool"
    BY <1>4, <2>1 DEF InboxShown
  <2>2. CASE f = "spool"
    <3>1. gAll' = all /\ gMbox' = "spool"
      BY <1>4, <1>5, <1>10, <2>2
    <3>2. ShownNew(all) = InboxUnread'
      BY <1>1, <1>2, <1>6, <2>2 DEF InboxUnread
    <3>3. InboxShown'
      BY <3>1, <3>2 DEF InboxShown, ShownNew
    <3>4. all \in Seq(Listed)
      BY <3>1 DEF HandInv, MailTypes
    <3>5. NewRows(all) = Cardinality(ShownNew(all))
      BY <1>6, <3>4, NewRowsIs
    <3>6. gUnread'["spool"] = Cardinality(InboxUnread')
      BY <3>1, <3>2, <3>5 DEF HandInv, MessageInHand, CountsAgree
    <3> QED BY <3>3, <3>6
  <2> QED BY <2>1, <2>2
<1> QED BY <1>7, <1>8, <1>9, <1>10

\* The folder pane was read again, too.
LEMMA ReloadedNews ==
    ASSUME HandInv, HandInv', Placed', NEW ok \in BOOLEAN, reloadFolder(box', unread', ok)
    PROVE  /\ ListedOnce' /\ excused' = (excused \/ ~ok)
           /\ ok => InboxShown' /\ gUnread'["spool"] = Cardinality(InboxUnread')
<1>1. PICK counts : counts = loadCounts(box', unread', ok)
  OBVIOUS
<1>2. /\ loadFolder(gMbox, gFilter, TRUE, box', unread', ok, counts) /\ gMbox \in Folders
      /\ box' \in [Folders -> Seq(Msgs)] /\ "spool" \in Folders
  BY <1>1 DEF reloadFolder, HandInv, MailTypes, Folders
<1>3. counts \in [Folders -> Int]
  BY <1>1, <1>2, NewInTyped, CountsTyped
<1>4. /\ ListedOnce' /\ excused' = (excused \/ ~ok)
      /\ ok => InboxShown' /\ (gMbox = "spool" => gUnread'["spool"] = Cardinality(InboxUnread'))
      /\ gMbox # "spool" => gUnread'["spool"] = counts["spool"]
  BY <1>2, <1>3, ReadAgainIs
<1>5. ok => counts["spool"] = Cardinality(InboxUnread')
  <2>1. PICK q \in Seq(Msgs) : q = box'["spool"]
    BY <1>2
  <2>2. PICK u : u = unread'
    OBVIOUS
  <2>3. \A i, j \in DOMAIN q : q[i] = q[j] => i = j
    BY <1>2, <2>1 DEF Placed, Apart
  <2>4. NewIn(q, u) = Cardinality(ToSet(q) \cap u)
    BY <2>3, NewInIs
  <2>5. ToSet(q) \cap u = InboxUnread'
    BY <2>1, <2>2 DEF InboxUnread
  <2>6. ok => counts["spool"] = NewIn(q, u)
    BY <1>1, <1>2, <2>1, <2>2 DEF loadCounts
  <2> QED BY <2>4, <2>5, <2>6
<1> QED BY <1>4, <1>5

\* Then the number is right.
LEMMA CountedRight ==
    ASSUME HandInv', gUnread'["spool"] = Cardinality(InboxUnread')
    PROVE  InboxCounted'
<1>1. IsFiniteSet(InboxUnread')
  BY UnreadFiniteNext
<1>2. /\ Cardinality(InboxUnread' \ became') <= Cardinality(InboxUnread')
      /\ Cardinality(InboxUnread') \in Nat
  BY <1>1, Larger
<1> QED BY <1>2 DEF InboxCounted

LEMMA ReadAgainNews ==
    ASSUME NewsInv, HandInv', cmFolderPicked \/ cmReload \/ pullFinished PROVE NewsInv'
<1>1. UNCHANGED <<box, unread, arrived>> /\ HandInv
  BY DEF cmFolderPicked, cmReload, pullFinished, mailbox, NewsInv
<1>2. Placed'
  BY <1>1 DEF NewsInv, Placed, Apart
<1>3. InboxUnread' = InboxUnread
  BY <1>1 DEF InboxUnread
<1>4. CASE cmFolderPicked
  <2>1. /\ UNCHANGED <<pulling, fresh, became, lowered>>
        /\ \E ok \in BOOLEAN : loadFolder(Other(gMbox), FALSE, FALSE, box, unread, ok, gUnread)
    BY <1>4 DEF cmFolderPicked
  <2>2. PICK ok \in BOOLEAN : loadFolder(Other(gMbox), FALSE, FALSE, box', unread', ok, gUnread)
    BY <1>1, <2>1
  <2>3. Other(gMbox) \in Folders /\ gUnread \in [Folders -> Int]
    BY <1>1 DEF Other, Folders, HandInv, MailTypes
  <2>4. PICK f \in Folders : f = Other(gMbox)
    BY <2>3
  <2>5. loadFolder(f, FALSE, FALSE, box', unread', ok, gUnread)
    BY <2>2, <2>4
  <2>6. /\ ListedOnce' /\ excused' = (excused \/ ~ok)
        /\ ok => InboxShown' /\ (f = "spool" => gUnread'["spool"] = Cardinality(InboxUnread'))
        /\ f # "spool" => gUnread'["spool"] = gUnread["spool"]
    BY <1>1, <1>2, <2>3, <2>5, ReadAgainIs
  <2>7. Steady
    BY <1>3, <2>1 DEF Steady
  <2>8. ASSUME ~excused' PROVE InboxShown' /\ InboxCounted' /\ PullCounted'
    <3>1. ok /\ InboxCounted /\ PullCounted
      BY <2>6, <2>8 DEF NewsInv
    <3>2. InboxCounted'
      <4>1. CASE f = "spool"
        BY <2>6, <3>1, <4>1, CountedRight
      <4>2. CASE f # "spool"
        BY <1>1, <2>6, <2>7, <3>1, <4>2, SteadyInbox
      <4> QED BY <4>1, <4>2
    <3>3. PullCounted'
      BY <1>1, <2>1, <2>7, <3>1, SteadyPull DEF pulling
    <3> QED BY <2>6, <3>1, <3>2, <3>3
  <2> QED BY <1>2, <2>6, <2>8 DEF NewsInv
<1>5. CASE cmReload \/ pullFinished
  <2>1. PICK ok \in BOOLEAN : reloadFolder(box', unread', ok)
    BY <1>1, <1>5 DEF cmReload, pullFinished
  <2>2. /\ ListedOnce' /\ excused' = (excused \/ ~ok)
        /\ ok => InboxShown' /\ gUnread'["spool"] = Cardinality(InboxUnread')
    BY <1>1, <1>2, <2>1, ReloadedNews
  <2>3. ASSUME ~excused' PROVE InboxShown' /\ InboxCounted' /\ PullCounted'
    <3>1. ok /\ PullCounted /\ InboxShown' /\ gUnread'["spool"] = Cardinality(InboxUnread')
      BY <2>2, <2>3 DEF NewsInv
    <3>2. InboxCounted'
      BY <3>1, CountedRight
    <3>3. PullCounted'
      <4>1. CASE cmReload
        <5>1. UNCHANGED <<pulling, fresh, became, lowered>>
          BY <4>1 DEF cmReload
        <5>2. Steady
          BY <1>3, <5>1 DEF Steady
        <5> QED BY <1>1, <3>1, <5>1, <5>2, SteadyPull DEF pulling
      <4>2. CASE pullFinished
        <5>1. /\ lastUnread' = gUnread'["spool"] /\ unreadBefore' = -1
              /\ fresh' = {} /\ became' = {}
          BY <4>2 DEF pullFinished
        <5>2. InboxUnread' \ became' = InboxUnread' /\ InboxUnread' \ fresh' = InboxUnread'
          BY <5>1
        <5>3. Cardinality(InboxUnread') \in Nat
          BY UnreadFiniteNext, FS_CardinalityType
        <5>4. Counts(lastUnread)'
          BY <3>1, <5>1, <5>2, <5>3 DEF Counts
        <5> QED BY <5>1, <5>4 DEF PullCounted
      <4> QED BY <1>5, <4>1, <4>2
    <3> QED BY <3>1, <3>2, <3>3
  <2> QED BY <1>2, <2>2, <2>3 DEF NewsInv
<1> QED BY <1>4, <1>5

\* What an answer takes away is taken once.
LEMMA GoneOnce ==
    ASSUME HandInv, Placed
    PROVE  \A i, j \in DOMAIN Gone : Gone[i] = Gone[j] => i = j
<1>1. /\ box \in [Folders -> Seq(Msgs)] /\ gMbox \in Folders /\ "trash" \in Folders
      /\ \A f \in Folders : \A i, j \in DOMAIN box[f] : box[f][i] = box[f][j] => i = j
  BY DEF HandInv, MailTypes, Folders, Placed, Apart
<1>2. CASE ~About /\ ask.op = "purge"
  <2>1. PICK q \in Seq(Msgs) : q = box[gMbox]
    BY <1>1
  <2>2. PICK R : R = Msgs \ unread
    OBVIOUS
  <2>3. PICK k : k = Keep(q, R)
    OBVIOUS
  <2>4. \A i, j \in DOMAIN q : q[i] = q[j] => i = j
    BY <1>1, <2>1
  <2>5. \A i, j \in DOMAIN k : k[i] = k[j] => i = j
    BY <2>3, <2>4, KeepOnce
  <2>6. Gone = k
    BY <1>2, <2>1, <2>2, <2>3 DEF Gone, Purged
  <2> QED BY <2>5, <2>6
<1>3. CASE ~About /\ ask.op # "purge"
  <2>1. Gone = box["trash"]
    BY <1>3 DEF Gone, Purged
  <2> QED BY <1>1, <2>1
<1>4. CASE About
  <2>1. Gone = <<box[gMbox][ask.idx]>> \/ Gone = <<>>
    BY <1>4 DEF Gone
  <2> QED BY <2>1
<1> QED BY <1>2, <1>3, <1>4

\* `g` goes from where it is in `b` to `to`: `c` is left.
Moved(c, b, g, to) ==
    \A f \in Folders : c[f] = IF f = to THEN Without(b[f], ToSet(g)) \o g
                              ELSE Without(b[f], ToSet(g))
MovedIs(c, b, g, to) ==
    /\ \A f \in Folders : \A i \in DOMAIN c[f] :
         (\E j \in DOMAIN b[f] : c[f][i] = b[f][j])
         \/ (f = to /\ \E j \in DOMAIN g : c[f][i] = g[j])
    /\ \A f \in Folders : \A j \in DOMAIN b[f] :
         b[f][j] \notin ToSet(g) => \E i \in DOMAIN c[f] : c[f][i] = b[f][j]
Once(g) == \A i, j \in DOMAIN g : g[i] = g[j] => i = j

LEMMA MovedApart ==
    ASSUME NEW b \in [Folders -> Seq(Msgs)], NEW g \in Seq(Msgs), NEW to, NEW c,
           Apart(b), Once(g), Moved(c, b, g, to)
    PROVE  Apart(c) /\ MovedIs(c, b, g, to)
<1>1. PICK G : G = ToSet(g)
  OBVIOUS
<1>2. PICK w : w = [f \in Folders |-> Without(b[f], G)]
  OBVIOUS
<1>3. \A f \in Folders : c[f] = IF f = to THEN w[f] \o g ELSE w[f]
  BY <1>1, <1>2 DEF Moved
<1>4. ASSUME NEW f \in Folders
      PROVE  /\ w[f] \in Seq(Msgs)
             /\ \A i \in DOMAIN w[f] : \E j \in DOMAIN b[f] : w[f][i] = b[f][j] /\ b[f][j] \notin G
             /\ \A j \in DOMAIN b[f] :
                  b[f][j] \notin G => \E i \in DOMAIN w[f] : w[f][i] = b[f][j]
             /\ \A i, j \in DOMAIN w[f] : w[f][i] = w[f][j] => i = j
  <2>1. PICK q \in Seq(Msgs) : q = b[f]
    OBVIOUS
  <2>2. \A i, j \in DOMAIN q : q[i] = q[j] => i = j
    BY <2>1 DEF Apart
  <2>3. PICK y : y = Without(q, G)
    OBVIOUS
  <2>4. /\ y \in Seq(Msgs)
        /\ \A i \in DOMAIN y : \E j \in DOMAIN q : y[i] = q[j] /\ q[j] \notin G
        /\ \A j \in DOMAIN q : q[j] \notin G => \E i \in DOMAIN y : y[i] = q[j]
    BY <2>3, WithoutIs
  <2>5. \A i, j \in DOMAIN y : y[i] = y[j] => i = j
    BY <2>2, <2>3, WithoutOnce
  <2>6. w[f] = y
    BY <1>2, <2>1, <2>3
  <2> QED BY <2>1, <2>4, <2>5, <2>6
<1>5. ASSUME NEW f \in Folders, NEW i \in DOMAIN c[f]
      PROVE  \/ i \in DOMAIN w[f] /\ c[f][i] = w[f][i]
             \/ f = to /\ i - Len(w[f]) \in DOMAIN g /\ c[f][i] = g[i - Len(w[f])] /\ i \in Int
  <2>1. CASE f # to
    BY <1>3, <1>5, <2>1
  <2>2. CASE f = to
    <3>1. PICK y \in Seq(Msgs) : y = w[f]
      BY <1>4
    <3>2. c[f] = y \o g
      BY <1>3, <2>2, <3>1
    <3> QED BY <1>5, <2>2, <3>1, <3>2
  <2> QED BY <2>1, <2>2
<1>6. ASSUME NEW f \in Folders, NEW i \in DOMAIN w[f]
      PROVE  i \in DOMAIN c[f] /\ c[f][i] = w[f][i]
  <2>1. PICK y \in Seq(Msgs) : y = w[f]
    BY <1>4
  <2>2. /\ i \in DOMAIN y /\ i \in DOMAIN (y \o g) /\ (y \o g)[i] = y[i]
    BY <1>6, <2>1
  <2>3. c[f] = y \o g \/ c[f] = y
    BY <1>3, <2>1
  <2> QED BY <2>1, <2>2, <2>3
<1>7. \A f \in Folders : Len(w[f]) \in Nat
  BY <1>4
<1>8. ASSUME NEW f \in Folders, NEW h \in Folders, NEW i \in DOMAIN c[f], NEW j \in DOMAIN c[h],
             c[f][i] = c[h][j]
      PROVE  f = h /\ i = j
  <2>1. ASSUME i \in DOMAIN w[f], c[f][i] = w[f][i], j \in DOMAIN w[h], c[h][j] = w[h][j]
        PROVE  f = h /\ i = j
    <3>1. PICK k \in DOMAIN b[f] : w[f][i] = b[f][k]
      BY <1>4, <2>1
    <3>2. PICK l \in DOMAIN b[h] : w[h][j] = b[h][l]
      BY <1>4, <2>1
    <3>3. b[f][k] = b[h][l]
      BY <1>8, <2>1, <3>1, <3>2
    <3>4. f = h
      BY <3>3 DEF Apart
    <3>5. w[f][i] = w[f][j] /\ j \in DOMAIN w[f]
      BY <1>8, <2>1, <3>4
    <3> QED BY <1>4, <2>1, <3>4, <3>5
  <2>2. \A k \in DOMAIN w[f] : w[f][k] \notin G
    BY <1>4
  <2>3. \A k \in DOMAIN w[h] : w[h][k] \notin G
    BY <1>4
  <2>4. \A k \in DOMAIN g : g[k] \in G
    BY <1>1 DEF ToSet
  <2>5. ASSUME f = to, i - Len(w[f]) \in DOMAIN g, c[f][i] = g[i - Len(w[f])], i \in Int,
               h = to, j - Len(w[h]) \in DOMAIN g, c[h][j] = g[j - Len(w[h])], j \in Int
        PROVE  f = h /\ i = j
    <3>1. i - Len(w[f]) = j - Len(w[f])
      BY <1>8, <2>5 DEF Once
    <3> QED BY <1>7, <2>5, <3>1
  <2>6. \/ i \in DOMAIN w[f] /\ c[f][i] = w[f][i]
        \/ f = to /\ i - Len(w[f]) \in DOMAIN g /\ c[f][i] = g[i - Len(w[f])] /\ i \in Int
    BY <1>5
  <2>7. \/ j \in DOMAIN w[h] /\ c[h][j] = w[h][j]
        \/ h = to /\ j - Len(w[h]) \in DOMAIN g /\ c[h][j] = g[j - Len(w[h])] /\ j \in Int
    BY <1>5
  <2>8. ~(c[f][i] \in G /\ i \in DOMAIN w[f] /\ c[f][i] = w[f][i])
    BY <2>2
  <2>9. ~(c[h][j] \in G /\ j \in DOMAIN w[h] /\ c[h][j] = w[h][j])
    BY <2>3
  <2>10. CASE c[f][i] \in G
    <3>1. c[h][j] \in G
      BY <1>8, <2>10
    <3>2. f = to /\ i - Len(w[f]) \in DOMAIN g /\ c[f][i] = g[i - Len(w[f])] /\ i \in Int
      BY <2>6, <2>8, <2>10
    <3>3. h = to /\ j - Len(w[h]) \in DOMAIN g /\ c[h][j] = g[j - Len(w[h])] /\ j \in Int
      BY <2>7, <2>9, <3>1
    <3> QED BY <2>5, <3>2, <3>3
  <2>11. CASE c[f][i] \notin G
    <3>1. c[h][j] \notin G
      BY <1>8, <2>11
    <3>2. i \in DOMAIN w[f] /\ c[f][i] = w[f][i]
      BY <2>4, <2>6, <2>11
    <3>3. j \in DOMAIN w[h] /\ c[h][j] = w[h][j]
      BY <2>4, <2>7, <3>1
    <3> QED BY <2>1, <3>2, <3>3
  <2> QED BY <2>10, <2>11
<1>9. ASSUME NEW f \in Folders, NEW i \in DOMAIN c[f]
      PROVE  \/ \E j \in DOMAIN b[f] : c[f][i] = b[f][j]
             \/ f = to /\ \E j \in DOMAIN g : c[f][i] = g[j]
  <2>1. CASE i \in DOMAIN w[f] /\ c[f][i] = w[f][i]
    BY <1>4, <2>1
  <2>2. CASE f = to /\ i - Len(w[f]) \in DOMAIN g /\ c[f][i] = g[i - Len(w[f])] /\ i \in Int
    BY <2>2
  <2> QED BY <1>5, <2>1, <2>2
<1>10. ASSUME NEW f \in Folders, NEW j \in DOMAIN b[f], b[f][j] \notin ToSet(g)
       PROVE  \E i \in DOMAIN c[f] : c[f][i] = b[f][j]
  <2>1. PICK i \in DOMAIN w[f] : w[f][i] = b[f][j]
    BY <1>1, <1>4, <1>10
  <2>2. i \in DOMAIN c[f] /\ c[f][i] = w[f][i]
    BY <1>6
  <2> QED BY <2>1, <2>2
<1> QED BY <1>8, <1>9, <1>10 DEF Apart, MovedIs

LEMMA AnswerYesNews == ASSUME NewsInv, HandInv', AnswerYes PROVE NewsInv'
<1>1. HandInv /\ Placed /\ Gone \in Seq(Msgs) /\ box \in [Folders -> Seq(Msgs)]
  BY GoneIs DEF NewsInv, HandInv, MailTypes
<1>2. PICK g \in Seq(Msgs) : g = Gone
  BY <1>1
<1>3. PICK to : to = To
  OBVIOUS
<1>4. Agreed(ask.op, g, to)
  BY <1>2, <1>3, AnsweredYes
<1>5. /\ box' = [f \in Folders |-> IF f = to THEN Without(box[f], ToSet(g)) \o g
                                   ELSE Without(box[f], ToSet(g))]
      /\ lowered' = (lowered \/ ToSet(g) \cap unread # {})
      /\ became' = IF to = "spool" THEN became \cup (ToSet(g) \cap unread) ELSE became
      /\ UNCHANGED <<unread, arrived>>
  BY <1>4, Zenon DEF Agreed
<1>6. UNCHANGED <<pulling, fresh>>
  BY AnsweredYes
<1>7. PICK c : c = box'
  OBVIOUS
<1>8. \A i, j \in DOMAIN g : g[i] = g[j] => i = j
  BY <1>1, <1>2, GoneOnce
<1>9. Apart(box)
  BY <1>1 DEF Placed
<1>10. \A f \in Folders : c[f] = IF f = to THEN Without(box[f], ToSet(g)) \o g
                                 ELSE Without(box[f], ToSet(g))
  BY <1>5, <1>7
<1>11. /\ Apart(c)
       /\ \A f \in Folders : \A i \in DOMAIN c[f] :
            (\E j \in DOMAIN box[f] : c[f][i] = box[f][j])
            \/ (f = to /\ \E j \in DOMAIN g : c[f][i] = g[j])
       /\ \A f \in Folders : \A j \in DOMAIN box[f] :
            box[f][j] \notin ToSet(g) => \E i \in DOMAIN c[f] : c[f][i] = box[f][j]
  <2>1. PICK b \in [Folders -> Seq(Msgs)] : b = box
    BY <1>1
  <2>2. Apart(b) /\ Once(g) /\ Moved(c, b, g, to)
    BY <1>8, <1>9, <1>10, <2>1 DEF Moved, Once
  <2>3. Apart(c) /\ MovedIs(c, b, g, to)
    BY <2>2, MovedApart
  <2> QED BY <2>1, <2>3 DEF MovedIs
<1>12. Placed'
  <2>1. \A i \in DOMAIN g : g[i] \in arrived
    BY <1>1, <1>2, GoneIs DEF Placed
  <2>2. \A f \in Folders : \A i \in DOMAIN c[f] : c[f][i] \in arrived
    BY <1>1, <1>11, <2>1 DEF Placed
  <2>3. Apart(box)'
    BY <1>7, <1>11 DEF Apart
  <2> QED BY <1>5, <1>7, <2>2, <2>3 DEF Placed
<1>13. Steady
  <2>1. "spool" \in Folders
    BY DEF Folders
  <2>2. InboxUnread' \ became' \subseteq InboxUnread \ became
    <3>1. ASSUME NEW m \in InboxUnread' \ became' PROVE m \in InboxUnread \ became
      <4>1. m \in unread /\ m \notin became' /\ \E i \in DOMAIN c["spool"] : c["spool"][i] = m
        BY <1>5, <1>7, <3>1 DEF InboxUnread, ToSet
      <4>2. \/ \E j \in DOMAIN box["spool"] : box["spool"][j] = m
            \/ to = "spool" /\ m \in ToSet(g)
        BY <1>11, <2>1, <4>1 DEF ToSet
      <4>3. m \notin became /\ ~(to = "spool" /\ m \in ToSet(g))
        BY <1>5, <4>1
      <4> QED BY <4>1, <4>2, <4>3 DEF InboxUnread, ToSet
    <3> QED BY <3>1
  <2>3. ASSUME ~lowered' PROVE ~lowered /\ InboxUnread \subseteq InboxUnread'
    <3>1. ~lowered /\ ToSet(g) \cap unread = {}
      BY <1>5, <2>3
    <3>2. ASSUME NEW m \in InboxUnread PROVE m \in InboxUnread'
      <4>1. PICK j \in DOMAIN box["spool"] : box["spool"][j] = m
        BY <3>2 DEF InboxUnread, ToSet
      <4>2. m \in unread /\ m \notin ToSet(g)
        BY <3>1, <3>2 DEF InboxUnread
      <4>3. \E i \in DOMAIN c["spool"] : c["spool"][i] = m
        BY <1>11, <2>1, <4>1, <4>2
      <4> QED BY <1>5, <1>7, <4>2, <4>3 DEF InboxUnread, ToSet
    <3> QED BY <3>1, <3>2
  <2> QED BY <1>6, <2>2, <2>3 DEF Steady
<1>14. PICK ok \in BOOLEAN : reloadFolder(box', unread', ok)
  BY AnsweredYes
<1>15. /\ ListedOnce' /\ excused' = (excused \/ ~ok)
       /\ ok => InboxShown' /\ gUnread'["spool"] = Cardinality(InboxUnread')
  BY <1>1, <1>12, <1>14, ReloadedNews
<1>16. ASSUME ~excused' PROVE InboxShown' /\ InboxCounted' /\ PullCounted'
  <2>1. ok /\ PullCounted
    BY <1>15, <1>16 DEF NewsInv
  <2>2. PullCounted'
    BY <1>1, <1>6, <1>13, <2>1, SteadyPull DEF pulling
  <2> QED BY <1>15, <2>1, <2>2, CountedRight
<1> QED BY <1>12, <1>15, <1>16 DEF NewsInv

LEMMA NewsInit == MailInit => NewsInv
<1> SUFFICES ASSUME MailInit PROVE NewsInv
  OBVIOUS
<1>1. HandInv
  BY HandInit
<1>2. PICK m \in Msgs : box = [f \in Folders |-> IF f = "spool" THEN <<m>> ELSE <<>>]
  BY DEF MailInit
<1>3. /\ box["spool"] = <<m>> /\ "spool" \in Folders /\ ToSet(box["spool"]) = {m}
      /\ \A f \in Folders : DOMAIN box[f] = IF f = "spool" THEN {1} ELSE {}
      /\ box["spool"][1] = m
  BY <1>2 DEF Folders, ToSet
<1>4. arrived = {m} /\ unread \subseteq {m}
  BY <1>3 DEF MailInit
<1>5. Placed
  BY <1>3, <1>4 DEF Placed, Apart
<1>6. PICK b \in [Folders -> Seq(Msgs)] : b = box
  BY <1>1 DEF HandInv, MailTypes
<1>7. PICK all : all = Copy(b, unread, "spool")
  OBVIOUS
<1>8. gAll = all /\ gMbox = "spool"
  BY <1>6, <1>7 DEF MailInit, Copy
<1>9. Apart(b)
  BY <1>5, <1>6 DEF Placed
<1>10. /\ \A i, j \in DOMAIN all : all[i].id = all[j].id => i = j
       /\ ShownNew(all) = ToSet(b["spool"]) \cap unread
  BY <1>3, <1>7, <1>9, CopyShows
<1>11. ListedOnce
  BY <1>8, <1>10 DEF ListedOnce
<1>12. ShownNew(gAll) = InboxUnread
  BY <1>6, <1>8, <1>10 DEF InboxUnread
<1>13. InboxShown
  BY <1>12 DEF InboxShown
<1>14. InboxCounted
  <2>1. gAll \in Seq(Listed) /\ gUnread[gMbox] = NewRows(gAll)
    BY <1>1 DEF HandInv, MailTypes, MessageInHand, CountsAgree
  <2>2. NewRows(gAll) = Cardinality(ShownNew(gAll))
    BY <1>11, <2>1, NewRowsIs DEF ListedOnce
  <2>3. gUnread["spool"] = Cardinality(InboxUnread)
    BY <1>8, <1>12, <2>1, <2>2
  <2>4. IsFiniteSet(InboxUnread)
    BY <1>1, UnreadFinite
  <2>5. /\ Cardinality(InboxUnread \ became) <= Cardinality(InboxUnread)
        /\ Cardinality(InboxUnread) \in Nat
    BY <2>4, Larger
  <2> QED BY <2>3, <2>5 DEF InboxCounted
<1>15. PullCounted
  BY DEF MailInit, PullCounted
<1> QED BY <1>1, <1>5, <1>11, <1>13, <1>14, <1>15 DEF NewsInv

LEMMA NewsStep == ASSUME NewsInv, HandInv', [MailNext]_mailVars PROVE NewsInv'
<1>1. CASE MailNext
  BY <1>1, CommandNews, PullNews, ArrivesNews, OthersReadNews, RemovedNews, MarkNews, ReadAgainNews,
     AnswerYesNews DEF MailNext
<1>2. CASE UNCHANGED mailVars
  BY <1>2, CommandNews
<1> QED BY <1>1, <1>2

\* Those that have become unread are some.
BecameSome == IsFiniteSet(became)

LEMMA BecameStep == ASSUME HandInv, BecameSome, [MailNext]_mailVars PROVE BecameSome'
<1>1. CASE UNCHANGED became
  BY <1>1 DEF BecameSome
<1>2. ASSUME NEW m, became' \subseteq became \cup {m} PROVE BecameSome'
  <2>1. IsFiniteSet(became \cup {m})
    BY FS_AddElement DEF BecameSome
  <2> QED BY <1>2, <2>1, FS_Subset DEF BecameSome
<1>3. CASE pullFinished
  BY <1>3, FS_EmptySet DEF pullFinished, BecameSome
<1>4. CASE Arrives
  <2>1. PICK m : became' = became \cup {m}
    BY <1>4 DEF Arrives
  <2> QED BY <1>2, <2>1
<1>5. CASE AnswerYes
  <2>1. Agreed(ask.op, Gone, To) /\ Gone \in Seq(Msgs)
    BY <1>5, AnsweredYes, GoneIs
  <2>2. PICK g \in Seq(Msgs) : g = Gone
    BY <2>1
  <2>3. became' \subseteq became \cup ToSet(g)
    <3>1. PICK to : to = To
      OBVIOUS
    <3>2. Agreed(ask.op, g, to)
      BY <2>1, <2>2, <3>1
    <3>3. became' = IF to = "spool" THEN became \cup (ToSet(g) \cap unread) ELSE became
      BY <3>2, Zenon DEF Agreed
    <3> QED BY <3>3
  <2>4. IsFiniteSet(became \cup ToSet(g))
    BY MembersFinite, FS_Union DEF BecameSome
  <2> QED BY <2>3, <2>4, FS_Subset DEF BecameSome
<1>6. ASSUME NEW read \in BOOLEAN, markFocused(read) PROVE BecameSome'
  <2>1. PICK i : i = gRows[focused]
    OBVIOUS
  <2>2. /\ unread' = Marked(i, read)
        /\ became' = IF gMbox = "spool" THEN became \cup (unread' \ unread) ELSE became
    BY <1>6, <2>1 DEF markFocused
  <2>3. PICK m : m = box[gMbox][i]
    OBVIOUS
  <2>4. unread' \subseteq unread \cup {m}
    BY <2>2, <2>3 DEF Marked
  <2> QED BY <1>2, <2>2, <2>4
<1>7. CASE pullMail \/ PullFiles \/ cmFolderPicked \/ cmReload \/ OthersRead \/ OthersRemove
  BY <1>1, <1>7 DEF pullMail, PullFiles, cmFolderPicked, cmReload, OthersRead, OthersRemove
<1>8. CASE \/ cmMsgPicked \/ cmFilterChanged \/ cmSort \/ PullExits \/ AnswerPath \/ AnswerNo
  BY <1>1, <1>8 DEF cmMsgPicked, cmFilterChanged, cmSort, PullExits, AnswerPath, AnswerNo, history
<1>9. CASE \/ viewSource \/ viewParts \/ replyOrCompose \/ forwardMsg
           \/ chatWithSender \/ openChatInvite \/ shareInChat \/ toCalendar
  BY <1>1, <1>9 DEF viewSource, viewParts, replyOrCompose, forwardMsg, chatWithSender,
                    openChatInvite, shareInChat, toCalendar, eventToCalendar, Fetch, FromList, history
<1>10. CASE deleteMsg \/ moveMsg \/ saveMsg \/ purgeDialog \/ emptyTrash
  BY <1>1, <1>10 DEF deleteMsg, moveMsg, saveMsg, purgeDialog, emptyTrash, AskAbout, AskToPurge,
                     history
<1>11. CASE UNCHANGED mailVars
  BY <1>1, <1>11 DEF mailVars, history
<1> QED BY <1>3, <1>4, <1>5, <1>6, <1>7, <1>8, <1>9, <1>10, <1>11 DEF MailNext

-----------------------------------------------------------------------------
(* What a step may never do.                                               *)

\* The same messages are found in the same list, so the highlighted one is.
LEMMA StaysHighlighted ==
    ASSUME HandInv, HandInv', Ids(gAll') = Ids(gAll), gFilter' = gFilter, gRows' # gRows,
           Stays(gRows', focused')
    PROVE  gRows'[focused'] = gRows[focused]
<1>1. /\ IsView(gRows, gAll, gFilter) /\ (gRows # <<>> => focused \in DOMAIN gRows)
  BY DEF HandInv, RowsAreView
<1>2. PICK all : all = gAll'
  OBVIOUS
<1>3. PICK rows : rows = gRows'
  OBVIOUS
<1>4. IsView(rows, all, gFilter)
  BY <1>2, <1>3 DEF HandInv, RowsAreView
<1>5. DOMAIN all = DOMAIN gAll /\ \A i \in DOMAIN all : all[i].id = gAll[i].id
  <2>1. Ids(all) = Ids(gAll)
    BY <1>2
  <2>2. DOMAIN Ids(all) = DOMAIN all /\ DOMAIN Ids(gAll) = DOMAIN gAll
    BY DEF Ids
  <2>3. \A i \in DOMAIN all : Ids(all)[i] = all[i].id
    BY DEF Ids
  <2>4. \A i \in DOMAIN gAll : Ids(gAll)[i] = gAll[i].id
    BY DEF Ids
  <2> QED BY <2>1, <2>2, <2>3, <2>4
<1>6. \A i \in DOMAIN all :
        (\E k \in DOMAIN rows : rows[k] = i) <=> (\E k \in DOMAIN gRows : gRows[k] = i)
  BY <1>1, <1>4, <1>5 DEF IsView
<1>7. rows \in Seq(DOMAIN all) /\ gRows \in Seq(DOMAIN all)
  BY <1>1, <1>4, <1>5 DEF IsView
<1>8. gRows # <<>>
  <2> SUFFICES ASSUME gRows = <<>> PROVE FALSE
    OBVIOUS
  <2>1. rows # <<>>
    BY <1>3
  <2>2. 1 \in DOMAIN rows /\ rows[1] \in DOMAIN all
    BY <1>7, <2>1
  <2> QED BY <1>6, <2>2
<1>9. focused \in DOMAIN gRows /\ gRows[focused] \in DOMAIN all
  BY <1>1, <1>7, <1>8
<1>10. \E j \in DOMAIN rows : rows[j] = gRows[focused]
  BY <1>6, <1>9
<1> QED BY <1>3, <1>9, <1>10 DEF Stays

LEMMA ReloadStays ==
    ASSUME HandInv, NEW b \in [Folders -> Seq(Msgs)], NEW u, NEW ok, reloadFolder(b, u, ok)
    PROVE  Stays(gRows', focused')
<1>1. PICK counts : counts = loadCounts(b, u, ok)
  OBVIOUS
<1>2. counts \in [Folders -> Int]
  BY <1>1, NewInTyped, CountsTyped
<1>3. loadFolder(gMbox, gFilter, TRUE, b, u, ok, counts)
  BY <1>1 DEF reloadFolder
<1>4. gMbox \in Folders /\ gFilter \in BOOLEAN /\ focused \in Nat \ {0}
  BY DEF HandInv, MailTypes
<1> QED BY <1>2, <1>3, <1>4, Loaded

LEMMA HighlightStep ==
    ASSUME HandInv, HandInv', [MailNext]_mailVars,
           Ids(gAll') = Ids(gAll), gMbox' = gMbox, gFilter' = gFilter, gRows' # gRows
    PROVE  gRows'[focused'] = gRows[focused]
<1> SUFFICES Stays(gRows', focused')
  BY StaysHighlighted
<1>1. gAll \in Seq(Listed) /\ gMbox \in Folders /\ gFilter \in BOOLEAN
      /\ box \in [Folders -> Seq(Msgs)]
  BY DEF HandInv, MailTypes
<1>2. CASE cmFolderPicked
  <2>1. gMbox' = Other(gMbox)
    BY <1>2 DEF cmFolderPicked, loadFolder
  <2> QED BY <1>1, <2>1 DEF Other, Folders
<1>3. CASE cmFilterChanged
  <2>1. gFilter' = ~gFilter
    BY <1>3 DEF cmFilterChanged
  <2>2. gFilter = ~gFilter
    BY <2>1
  <2> QED BY <1>1, <2>2
<1>4. CASE cmSort
  <2>1. PICK k : viewChanged(gAll, gFilter, k, gSortRev', FALSE)
    BY <1>4 DEF cmSort
  <2> QED BY <1>1, <2>1, Viewed
<1>5. CASE cmReload \/ pullFinished
  <2>1. PICK ok \in BOOLEAN : reloadFolder(box, unread, ok)
    BY <1>5 DEF cmReload, pullFinished
  <2>2. PICK b \in [Folders -> Seq(Msgs)] : b = box
    BY <1>1
  <2>3. reloadFolder(b, unread, ok)
    BY <2>1, <2>2
  <2> QED BY <2>3, ReloadStays
<1>6. CASE AnswerYes
  <2>1. PICK ok \in BOOLEAN : reloadFolder(box', unread', ok)
    BY <1>6, AnsweredYes
  <2>2. PICK b \in [Folders -> Seq(Msgs)] : b = box'
    BY DEF HandInv, MailTypes
  <2>3. reloadFolder(b, unread', ok)
    BY <2>1, <2>2
  <2> QED BY <2>3, ReloadStays
<1>7. ASSUME NEW read \in BOOLEAN, markFocused(read) PROVE Stays(gRows', focused')
  <2>1. IF gSort = "unread" THEN viewChanged(gAll', gFilter, gSort, gSortRev, FALSE)
                            ELSE UNCHANGED <<gRows, focused, body>>
    BY <1>7 DEF markFocused
  <2>2. viewChanged(gAll', gFilter, gSort, gSortRev, FALSE)
    BY <2>1
  <2>3. PICK all \in Seq(Listed) : all = gAll'
    BY DEF HandInv, MailTypes
  <2>4. viewChanged(all, gFilter, gSort, gSortRev, FALSE)
    BY <2>2, <2>3
  <2> QED BY <2>4, Viewed
<1>8. CASE \/ cmMsgPicked \/ pullMail \/ PullFiles \/ PullExits \/ Arrives \/ OthersRead
           \/ OthersRemove \/ AnswerPath \/ AnswerNo
  BY <1>8 DEF cmMsgPicked, pullMail, PullFiles, PullExits, Arrives, OthersRead, OthersRemove,
              AnswerPath, AnswerNo, list
<1>9. CASE \/ viewSource \/ viewParts \/ replyOrCompose \/ forwardMsg
           \/ chatWithSender \/ openChatInvite \/ shareInChat \/ toCalendar
  BY <1>9 DEF viewSource, viewParts, replyOrCompose, forwardMsg, chatWithSender,
              openChatInvite, shareInChat, toCalendar, eventToCalendar, Fetch, FromList, list
<1>10. CASE deleteMsg \/ moveMsg \/ saveMsg \/ purgeDialog \/ emptyTrash
  BY <1>10 DEF deleteMsg, moveMsg, saveMsg, purgeDialog, emptyTrash, AskAbout, AskToPurge, list
<1>11. CASE UNCHANGED mailVars
  BY <1>11 DEF mailVars, list
<1> QED BY <1>2, <1>3, <1>4, <1>5, <1>6, <1>7, <1>8, <1>9, <1>10, <1>11 DEF MailNext

\* What is announced is the difference of two numbers, both of the inbox.
LEMMA FinishedIs ==
    ASSUME NewsInv, NewsInv', pullFinished, ~excused'
    PROVE  /\ PullCounted /\ IsFiniteSet(InboxUnread) /\ Cardinality(InboxUnread) \in Nat
           /\ gUnread'["spool"] = Cardinality(InboxUnread)
           /\ unreadBefore \in Int
<1>1. PICK ok \in BOOLEAN : reloadFolder(box, unread, ok)
  BY DEF pullFinished
<1>2. UNCHANGED <<box, unread>>
  BY DEF pullFinished, mailbox
<1>3. reloadFolder(box', unread', ok)
  BY <1>1, <1>2
<1>4. /\ excused' = (excused \/ ~ok)
      /\ ok => gUnread'["spool"] = Cardinality(InboxUnread')
  BY <1>3, ReloadedNews DEF NewsInv
<1>5. InboxUnread' = InboxUnread
  BY <1>2 DEF InboxUnread
<1>6. IsFiniteSet(InboxUnread)
  BY UnreadFinite DEF NewsInv
<1>7. ~excused /\ ok
  BY <1>4
<1> QED BY <1>4, <1>5, <1>6, <1>7, FS_CardinalityType DEF NewsInv, HandInv, MailTypes

LEMMA AnnouncedStep ==
    ASSUME NewsInv, NewsInv', BecameSome, pullFinished, ~excused'
    PROVE  Announced <= Cardinality(became)
<1>1. /\ PullCounted /\ IsFiniteSet(InboxUnread) /\ Cardinality(InboxUnread) \in Nat
      /\ gUnread'["spool"] = Cardinality(InboxUnread) /\ unreadBefore \in Int
  BY FinishedIs
<1>2. Cardinality(became) \in Nat
  BY FS_CardinalityType DEF BecameSome
<1>3. Cardinality(InboxUnread \ became) = Cardinality(InboxUnread) - Cardinality(InboxUnread \cap became)
  BY <1>1, FS_Difference
<1>4. /\ Cardinality(InboxUnread \cap became) <= Cardinality(became)
      /\ Cardinality(InboxUnread \cap became) \in Nat
  BY Larger DEF BecameSome
<1>5. ASSUME unreadBefore >= 0 PROVE Cardinality(InboxUnread \ became) <= unreadBefore
  BY <1>1, <1>5 DEF PullCounted, Counts
<1> QED BY <1>1, <1>2, <1>3, <1>4, <1>5 DEF Announced

LEMMA ToldStep ==
    ASSUME NewsInv, NewsInv', pullFinished, ~excused', ~lowered, unreadBefore >= 0,
           fresh \cap unread \cap ToSet(box["spool"]) # {}
    PROVE  Announced > 0
<1>1. /\ PullCounted /\ IsFiniteSet(InboxUnread) /\ Cardinality(InboxUnread) \in Nat
      /\ gUnread'["spool"] = Cardinality(InboxUnread) /\ unreadBefore \in Int
  BY FinishedIs
<1>2. Cardinality(InboxUnread \ fresh) = Cardinality(InboxUnread) - Cardinality(InboxUnread \cap fresh)
  BY <1>1, FS_Difference
<1>3. InboxUnread \cap fresh # {}
  BY DEF InboxUnread
<1>4. /\ Cardinality(InboxUnread \cap fresh) \in Nat /\ IsFiniteSet(InboxUnread \cap fresh)
  BY <1>1, Larger
<1>5. Cardinality(InboxUnread \cap fresh) # 0
  BY <1>3, <1>4, FS_EmptySet
<1>6. unreadBefore <= Cardinality(InboxUnread \ fresh)
  BY <1>1 DEF PullCounted, Counts
<1> QED BY <1>1, <1>2, <1>4, <1>5, <1>6 DEF Announced

\* A step never moves the highlight, announces old mail or keeps quiet about new.
THEOREM ListStepsAlwaysTrue == MailSpec => ListStepsAreTrue
<1> DEFINE I == NewsInv /\ BecameSome
<1>1. MailInit => I
  <2>1. MailInit => BecameSome
    BY FS_EmptySet DEF MailInit, BecameSome
  <2> QED BY <2>1, NewsInit
<1>2. I /\ [MailNext]_mailVars => I'
  <2> SUFFICES ASSUME I, [MailNext]_mailVars PROVE I'
    OBVIOUS
  <2>1. HandInv
    BY DEF NewsInv
  <2>2. HandInv'
    BY <2>1, HandStep
  <2> QED BY <2>1, <2>2, NewsStep, BecameStep
<1>3. I /\ I' /\ [MailNext]_mailVars
        => [Ids(gAll') = Ids(gAll) /\ gMbox' = gMbox /\ gFilter' = gFilter /\ gRows' # gRows
              => gRows'[focused'] = gRows[focused]]_mailVars
  BY HighlightStep DEF NewsInv
<1>4. I /\ I' /\ [MailNext]_mailVars
        => [pullFinished => Announced <= Cardinality(became) \/ excused']_mailVars
  BY AnnouncedStep
<1>5. I /\ I' /\ [MailNext]_mailVars
        => [pullFinished /\ fresh \cap unread \cap ToSet(box["spool"]) # {}
              => Announced > 0 \/ lowered \/ unreadBefore < 0 \/ excused']_mailVars
  <2> SUFFICES ASSUME I, I', pullFinished, fresh \cap unread \cap ToSet(box["spool"]) # {},
                      ~lowered, ~(unreadBefore < 0), ~excused'
               PROVE  Announced > 0
    OBVIOUS
  <2>1. unreadBefore >= 0
    BY DEF NewsInv, HandInv, MailTypes
  <2> QED BY <2>1, ToldStep
<1> QED BY <1>1, <1>2, <1>3, <1>4, <1>5, PTL
        DEF MailSpec, ListStepsAreTrue, HighlightStays, AnnouncedWereNew, NewMailIsTold
===============================================================================
