----------------------------- MODULE IrcHistory -----------------------------
(***************************************************************************)
(* Server-side history in the IRC adapter of tvchat-backend (CHATHISTORY): *)
(* a request carries no label, so the program remembers in `fetching`      *)
(* which kind it asked for a conversation and reads an answer by that.     *)
(* What is asked and what the memory says drift apart when a conversation  *)
(* is left and joined again, cleared, or when another one is refused.      *)
(*                                                                         *)
(* A channel's past is Pages pages; `oldest` is the oldest page its ring   *)
(* holds, Pages + 1 when it holds none.  The server answers the lines of a *)
(* connection in order, so `wire` holds the lines it has not yet answered, *)
(* and reading an answer is one step on the head.  Abstracted: messages    *)
(* inside a page, msgids, merging by time; every joined channel is one the *)
(* user lists, and the server admits every JOIN.                           *)
(***************************************************************************)
EXTENDS Naturals, Sequences, SequencesExt

CONSTANTS
    Convs,      \* channels
    Pages,      \* bound: pages of past each has on the server
    MaxWire     \* bound: lines the server has not answered

ASSUME HistoryAssumption ==
    /\ Pages \in Nat \ {0}
    /\ MaxWire \in Nat \ {0}

VARIABLES
    live,       \* phase = "up"
    listed,     \* conversations listed (account.convs)
    joined,     \* channels the server has us in, where its answers have got to
    oldest,     \* oldest page held; conv.history
    done,       \* conv.history_done
    fetching,   \* "no", or what was asked for the conversation
    wire,       \* lines not yet answered
    waiting,    \* ghost: the user was told "asking the server", no answer yet
    spoilt      \* ghost: why a conversation's memory may be off

histVars == <<live, listed, joined, oldest, done, fetching, wire, waiting, spoilt>>

HistLine(cmd, c, p) == [cmd |-> cmd, conv |-> c, page |-> p]
Empty == Pages + 1
Latest == Empty     \* a LATEST request asks for what comes before nothing

HistInit ==
    /\ live = FALSE /\ listed = {} /\ joined = {} /\ wire = <<>> /\ waiting = {}
    /\ oldest = [c \in Convs |-> Empty]
    /\ done = [c \in Convs |-> FALSE]
    /\ fetching = [c \in Convs |-> "no"]
    /\ spoilt = [c \in Convs |-> {}]

-----------------------------------------------------------------------------
HasRoom == Len(wire) < MaxWire

\* fetch_history: nothing when something is being asked already.
fetch_history(c, which, page, w) ==
    IF fetching[c] = "no"
      THEN /\ fetching' = [fetching EXCEPT ![c] = which]
           /\ wire' = Append(w, HistLine("CHATHISTORY", c, page))
      ELSE UNCHANGED fetching /\ wire' = w

\* on_welcome asks for every channel still open.
joinAll ==
    /\ ~live
    /\ live' = TRUE
    /\ wire' = [i \in DOMAIN SetToSeq(listed) |->
                  HistLine("JOIN", SetToSeq(listed)[i], 0)]
    /\ UNCHANGED <<listed, joined, oldest, done, fetching, waiting, spoilt>>

\* Mutant: the requests go with the connection, the memory of them stays.
CloseRemembers ==
    /\ live
    /\ live' = FALSE
    /\ wire' = <<>>
    /\ waiting' = {}
    /\ joined' = {}
    /\ spoilt' = [c \in Convs |-> IF c \in listed THEN spoilt[c] ELSE {}]
    /\ UNCHANGED <<listed, oldest, done, fetching>>

\* _close and _reset: the requests and the memory of them go together.
closeHist ==
    /\ live
    /\ live' = FALSE
    /\ wire' = <<>>
    /\ fetching' = [c \in Convs |-> "no"]
    /\ waiting' = {}
    /\ joined' = {}
    /\ spoilt' = [c \in Convs |-> IF c \in listed THEN spoilt[c] ELSE {}]
    /\ UNCHANGED <<listed, oldest, done>>

\* A conversation opened anew has an empty ring (Conversation.__init__).
conv_for(c) ==
    /\ listed' = listed \cup {c}
    /\ IF c \in listed
         THEN UNCHANGED <<oldest, done>>
         ELSE /\ oldest' = [oldest EXCEPT ![c] = Empty]
              /\ done' = [done EXCEPT ![c] = FALSE]

\* join: the conversation is opened when the JOIN is sent.
joinChan(c) ==
    /\ live /\ HasRoom
    /\ wire' = Append(wire, HistLine("JOIN", c, 0))
    /\ conv_for(c)
    /\ UNCHANGED <<live, joined, fetching, waiting, spoilt>>

\* part: the conversation is closed when the PART is sent.
partChan(c) ==
    /\ live /\ c \in listed /\ HasRoom
    /\ wire' = Append(wire, HistLine("PART", c, 0))
    /\ listed' = listed \ {c}
    /\ waiting' = waiting \ {c}
    /\ spoilt' = [spoilt EXCEPT ![c] = @ \cup {"left"}]
    /\ UNCHANGED <<live, joined, oldest, done, fetching>>

\* on_PRIVMSG: somebody speaks, in the newest page, in a conversation opened if need be.
Spoken(c) ==
    /\ live /\ c \in joined
    /\ listed' = listed \cup {c}
    /\ oldest' = [oldest EXCEPT ![c] = IF c \in listed /\ @ # Empty THEN @ ELSE Pages]
    /\ done' = [done EXCEPT ![c] = c \in listed /\ @]
    /\ UNCHANGED <<live, joined, fetching, wire, waiting, spoilt>>

\* /clear: the ring is emptied.
_clear_cmd(c) ==
    /\ live /\ c \in listed
    /\ oldest' = [oldest EXCEPT ![c] = Empty]
    /\ done' = [done EXCEPT ![c] = FALSE]
    /\ spoilt' = [spoilt EXCEPT ![c] = @ \cup {"cleared"}]
    /\ UNCHANGED <<live, listed, joined, fetching, wire, waiting>>

\* `history CONV --before`, the ring used up: told "asking the server" when a
\* "before" is under way (a note in the ring, as joining leaves one, is enough to
\* ask) or one could be sent (it takes a server's message to be before).
cmd_history(c) ==
    /\ live /\ c \in listed /\ ~done[c] /\ HasRoom
    /\ \/ fetching[c] = "before" /\ c \in joined /\ UNCHANGED <<fetching, wire>>
       \/ /\ fetching[c] = "no" /\ oldest[c] # Empty
          /\ fetch_history(c, "before", oldest[c], wire)
    /\ waiting' = waiting \cup {c}
    /\ UNCHANGED <<live, listed, joined, oldest, done, spoilt>>

-----------------------------------------------------------------------------
(* Answers                                                                 *)

Answers(cmd, c) == wire # <<>> /\ Head(wire).cmd = cmd /\ Head(wire).conv = c

\* on_JOIN: the server lets us in, and the latest page is asked for.
JoinAnswered(c) ==
    /\ Answers("JOIN", c) /\ c \notin joined
    /\ joined' = joined \cup {c}
    /\ conv_for(c)
    /\ fetch_history(c, "latest", Latest, Tail(wire))
    /\ UNCHANGED <<live, waiting, spoilt>>

\* A JOIN to where we are already: the server says nothing.
JoinedTwice(c) ==
    /\ Answers("JOIN", c) /\ c \in joined
    /\ wire' = Tail(wire)
    /\ UNCHANGED <<live, listed, joined, oldest, done, fetching, waiting, spoilt>>

\* on_PART: the echo of our leaving.
PartAnswered(c) ==
    /\ Answers("PART", c)
    /\ wire' = Tail(wire)
    /\ joined' = joined \ {c}
    /\ listed' = IF c \in joined THEN listed \ {c} ELSE listed
    /\ waiting' = IF c \in joined THEN waiting \ {c} ELSE waiting
    /\ spoilt' = [spoilt EXCEPT ![c] = @ \cup {"left"}]
    /\ UNCHANGED <<live, oldest, done, fetching>>

\* What the page asked for adds to the ring: at the start of the past, none.
New(c, page) == page > 1 /\ page - 1 < oldest[c]
Held(c, page) == IF New(c, page) THEN page - 1 ELSE oldest[c]

\* Mutant: history_done as soon as the answer to anything is empty.
SettleAny(c, which, page) ==
    done' = [done EXCEPT ![c] = @ \/ ~New(c, page)]

\* Only an empty answer to a "before" says that there is nothing older.
Settle(c, which, page) ==
    done' = [done EXCEPT ![c] = @ \/ (which = "before" /\ ~New(c, page))]

\* The end of a batch.  "left meanwhile": the batch is dropped, and only that.
on_BATCH(c) ==
    /\ Answers("CHATHISTORY", c) /\ c \in joined
    /\ wire' = Tail(wire)
    /\ IF c \notin listed
         THEN UNCHANGED <<oldest, done, fetching, waiting>>
         ELSE LET which == IF fetching[c] = "no" THEN "latest" ELSE fetching[c]
                  page == Head(wire).page
              IN /\ fetching' = [fetching EXCEPT ![c] = "no"]
                 /\ oldest' = [oldest EXCEPT ![c] = Held(c, page)]
                 /\ Settle(c, which, page)
                 /\ waiting' = IF which = "before" THEN waiting \ {c} ELSE waiting
    /\ UNCHANGED <<live, listed, joined, spoilt>>

BeingAsked == {c \in Convs : fetching[c] # "no"}
AskedBefore == {c \in Convs : fetching[c] = "before"}

\* Mutant: the requests are forgotten, and nobody is told.
FailTellsNobody(c) ==
    /\ Answers("CHATHISTORY", c)
    /\ wire' = Tail(wire)
    /\ fetching' = [d \in Convs |-> "no"]
    /\ spoilt' = [d \in Convs |-> spoilt[d] \cup
                    IF d = c THEN {"refused"}
                    ELSE IF d \in BeingAsked THEN {"swept"} ELSE {}]
    /\ UNCHANGED <<live, listed, joined, oldest, done, waiting>>

\* A refusal names its channel, but every request under way is taken as
\* refused.
on_FAIL(c) ==
    /\ Answers("CHATHISTORY", c)
    /\ wire' = Tail(wire)
    /\ fetching' = [d \in Convs |-> "no"]
    /\ done' = [d \in Convs |-> done[d] \/ d \in AskedBefore \cap listed]
    /\ waiting' = waiting \ AskedBefore
    /\ spoilt' = [d \in Convs |-> spoilt[d] \cup
                    IF d = c THEN {"refused"}
                    ELSE IF d \in BeingAsked THEN {"swept"} ELSE {}]
    /\ UNCHANGED <<live, listed, joined, oldest>>

HistNext ==
    \/ joinAll \/ closeHist
    \/ \E c \in Convs :
         \/ joinChan(c) \/ partChan(c) \/ Spoken(c) \/ _clear_cmd(c) \/ cmd_history(c)
         \/ JoinAnswered(c) \/ JoinedTwice(c) \/ PartAnswered(c)
         \/ on_BATCH(c) \/ on_FAIL(c)

HistSpec == HistInit /\ [][HistNext]_histVars

-----------------------------------------------------------------------------
(* Properties                                                              *)

Requested(c) ==
    \E i \in DOMAIN wire : wire[i].cmd = "CHATHISTORY" /\ wire[i].conv = c

\* While a connection is down nothing is remembered as asked (_reset).
HistTypes ==
    /\ live \in BOOLEAN /\ listed \subseteq Convs /\ waiting \subseteq listed
    /\ joined \subseteq Convs
    /\ oldest \in [Convs -> 1..Empty] /\ done \in [Convs -> BOOLEAN]
    /\ fetching \in [Convs -> {"no", "latest", "before"}]
    /\ wire \in Seq([cmd : {"JOIN", "PART", "CHATHISTORY"}, conv : Convs,
                     page : 0..Empty])
    /\ spoilt \in [Convs -> SUBSET {"left", "cleared", "refused", "swept"}]
    /\ ~live => BeingAsked = {} /\ wire = <<>> /\ joined = {}

\* Whoever was told "asking the server for older messages..." is waiting for
\* an answer that is still to come: "The answer comes later, as a 'history
\* CONV before' event" (cmd_history, on_BATCH, on_FAIL) - but for conversations
\* that were left while connected, where it is not so.
AskingUnlessLeft ==
    \A c \in waiting : "left" \notin spoilt[c] => Requested(c)

\* history_done: "the server has nothing older to give".  Whenever the program
\* says so of a conversation it is so, unless that conversation was left,
\* cleared or refused, or swept up in another's refusal - which on_FAIL takes
\* for a refusal of every request under way (on_BATCH, on_FAIL).
DoneUnlessSpoilt == \A c \in listed : done[c] /\ spoilt[c] = {} => oldest[c] = 1

\* Who was told that the server is being asked has a request under way, and
\* "nothing older" is said only when it is so, but for conversations left,
\* cleared or refused meanwhile.
HistoryIsHonest == AskingUnlessLeft /\ DoneUnlessSpoilt
=============================================================================
