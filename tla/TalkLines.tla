------------------------------ MODULE TalkLines ------------------------------
(***************************************************************************)
(* What is said in a talk call, as two tvchats see it: the keystrokes of   *)
(* one go out raw, erase and newline included, and each end makes lines of *)
(* them by itself - the one who types for its own log (keys, speak), the   *)
(* one who reads as they arrive (_data_read), with the edit characters     *)
(* that the other side sent first.  Nothing compares the two logs.         *)
(*                                                                         *)
(* A character is one of Chars; a line that is typed or read is cut when it *)
(* has LineMax of them, one that is said goes out, and into our log, whole. *)
(* Functions of a script of keys and of lines said; no behaviour.          *)
(***************************************************************************)
EXTENDS Naturals, Sequences, SequencesExt

CONSTANTS
    LineMax,   \* TALK_LINE_MAX
    ScriptMax, \* bound: length of the scripts checked
    Texts      \* bound: the whole lines said

\* A text said is never empty and holds no newline: send() splits it at those.
ASSUME LinesAssumption ==
    /\ LineMax \in Nat \ {0} /\ ScriptMax \in Nat
    /\ \A text \in Texts : text \in Seq({"x", "space"}) /\ text # <<>>

\* "x" stands for every printing character, "bell" for those that show nothing
Chars == {"x", "space", "erase", "kill", "werase", "backspace", "return",
          "newline", "bell"}

Nothing == <<>>
Edited(ln) == [line |-> ln, done |-> Nothing]
Finished(ln) == [line |-> Nothing, done |-> ln]

\* A line without the spaces it ends in, and up to and with its last space
RStrip(ln) ==
    LET last == {i \in DOMAIN ln : ln[i] # "space"}
    IN  SubSeq(ln, 1, CHOOSE n \in {0} \cup last : \A i \in last : i <= n)
ToLastSpace(ln) ==
    LET spaces == {i \in DOMAIN ln : ln[i] = "space"}
    IN  SubSeq(ln, 1, CHOOSE n \in {0} \cup spaces : \A i \in spaces : i <= n)

\* _edit_line(): one character applied to an unfinished line
_edit_line(line, ch) ==
    CASE ch \in {"return", "newline"} -> Finished(line)
      [] ch \in {"erase", "backspace"} ->
           Edited(IF line = Nothing THEN line ELSE Front(line))
      [] ch = "kill" -> Edited(Nothing)
      [] ch = "werase" -> Edited(ToLastSpace(RStrip(line)))
      [] ch \in {"x", "space"} ->
           IF Len(line) + 1 >= LineMax THEN Finished(Append(line, ch))
           ELSE Edited(Append(line, ch))
      [] OTHER -> Edited(line)

\* A log keeps the lines that are not empty
Logged(log, done) == IF done = Nothing THEN log ELSE Append(log, done)

-----------------------------------------------------------------------------
(* The one who types                                                       *)

Writer == [mine |-> Nothing, log |-> <<>>, wire |-> <<>>]

\* keys(): a ^H goes out as our erase character
keys(w, ch) ==
    LET sent == IF ch = "backspace" THEN "erase" ELSE ch
        e == _edit_line(w.mine, sent)
    IN  [mine |-> e.line, log |-> Logged(w.log, e.done), wire |-> Append(w.wire, sent)]

\* speak(): a whole line; it is in the log at once, the unfinished line stays
speak(w, text) ==
    [w EXCEPT !.log = Append(@, text), !.wire = @ \o Append(text, "newline")]

Keystrokes == {[by |-> "key", text |-> <<ch>>] : ch \in Chars}
Sayings == {[by |-> "say", text |-> text] : text \in Texts}
Typed(w, op) == IF op.by = "say" THEN speak(w, op.text) ELSE keys(w, op.text[1])

\* The writer after each step of the script
WrittenTo(script) ==
    LET w[n \in 0 .. Len(script)] == IF n = 0 THEN Writer ELSE Typed(w[n - 1], script[n])
    IN  w
Written(script) == WrittenTo(script)[Len(script)]

-----------------------------------------------------------------------------
(* The one who reads                                                       *)

Reader == [theirs |-> Nothing, afterCr |-> FALSE, log |-> <<>>]

\* Mutant: after_cr is never reset.
ReadOneKeepsCr(r, ch) ==
    IF ch = "newline" /\ r.afterCr THEN r
    ELSE LET e == _edit_line(r.theirs, ch)
         IN  [theirs |-> e.line, afterCr |-> r.afterCr \/ ch = "return",
              log |-> Logged(r.log, e.done)]

\* _data_read(): a newline right after a return is the same newline
ReadOne(r, ch) ==
    IF ch = "newline" /\ r.afterCr THEN [r EXCEPT !.afterCr = FALSE]
    ELSE LET e == _edit_line(r.theirs, ch)
         IN  [theirs |-> e.line, afterCr |-> ch = "return", log |-> Logged(r.log, e.done)]

ReadTo(wire) ==
    LET r[n \in 0 .. Len(wire)] == IF n = 0 THEN Reader ELSE ReadOne(r[n - 1], wire[n])
    IN  r
Read(wire) == ReadTo(wire)[Len(wire)]

-----------------------------------------------------------------------------
(* What the two make of a script                                           *)

Scripts == UNION {[1 .. n -> Keystrokes \cup Sayings] : n \in 0 .. ScriptMax}

\* A whole line is said only where no line was left unfinished.
Tidy(script) ==
    \A i \in DOMAIN script :
        script[i].by = "say" => WrittenTo(script)[i - 1].mine = Nothing

\* A text in pieces of LineMax characters, the last one shorter: rest[i] are the
\* pieces of what comes after its first i characters.
Cut(text) ==
    LET rest[i \in 0 .. Len(text)] ==
            IF Len(text) - i <= LineMax
            THEN IF i = Len(text) THEN <<>> ELSE <<SubSeq(text, i + 1, Len(text))>>
            ELSE <<SubSeq(text, i + 1, i + LineMax)>> \o rest[i + LineMax]
    IN  rest[0]

\* A log with each of its lines cut
AsRead(log) ==
    LET first[n \in 0 .. Len(log)] ==
            IF n = 0 THEN <<>> ELSE first[n - 1] \o Cut(log[n])
    IN  first[Len(log)]

\* A line that was typed is never longer than LineMax, so that cutting leaves it.
SameLines(script) ==
    LET w == Written(script)
        r == Read(w.wire)
    IN  r.log = AsRead(w.log) /\ r.theirs = w.mine
SameLinesAlways == \A script \in Scripts : Tidy(script) => SameLines(script)
=============================================================================
