---------------------------- MODULE IrcPartsProofs ----------------------------
(***************************************************************************)
(* Five parts of an IRC connection, each of its own, as in MCIrcParts.     *)
(*                                                                         *)
(* The two timers: IrcKeepalive's invariants, for every length of the      *)
(* waits, of a round of the loop and of the server's answer; and flood     *)
(* control's, which paces for every burst, rate, queue and lateness.       *)
(* Registration: RegistrationEnds, for any capabilities and any number of  *)
(* refused nicks.  The conversations: ChannelsAgree, for any channels,     *)
(* configuration and policy, and any number of lines under way; and        *)
(* HistoryIsHonest, for any channels, pages of past and lines unanswered.  *)
(***************************************************************************)
EXTENDS IrcKeepalive, IrcFlood, IrcRegistration, IrcChannels, IrcHistory,
        TLAPS, SequenceTheorems, FiniteSetTheorems

-----------------------------------------------------------------------------
(* The keepalive.                                                          *)

(* What the clock may have run to: the timer is never behind the silence   *)
(* it is to notice, and the clock never ahead of the timer by more than    *)
(* what a round takes.                                                     *)
Timely ==
    /\ t_in <= now
    /\ ping_out = None => due <= t_in + PING_IDLE
    /\ ping_out # None => ping_out <= now /\ ping_out <= t_in + PING_IDLE + Busy
    /\ up /\ selecting => now <= due
    /\ up /\ ~selecting => t0 <= now /\ t0 <= due /\ now <= t0 + Busy

(* A PING that a living server has not answered: either what it sent is in *)
(* the socket, or it still has time; and if select() did not see it, that  *)
(* select() was before the answer was to be there.                         *)
Answering ==
    up /\ serverUp /\ ping_out # None =>
       /\ arrived \/ (answerBy = ping_out + Rtt /\ now <= answerBy)
       /\ ~selecting /\ ~ready => t0 <= ping_out + Rtt

KInv == TypeOK /\ Timely /\ Answering /\ OnlyTheDeadAreDropped

LEMMA KeepaliveInit == Init => KInv
<1> SUFFICES ASSUME Init PROVE KInv
  OBVIOUS
<1>1. FlagsOK
  BY Zenon DEF Init, FlagsOK
<1>2. ClocksOK /\ Timely /\ Answering /\ OnlyTheDeadAreDropped
  BY ConstantsOK DEF Init, ClocksOK, Timely, Answering, OnlyTheDeadAreDropped, None
<1> QED BY <1>1, <1>2 DEF KInv, TypeOK

LEMMA FlagsStep == FlagsOK /\ [Next]_vars => FlagsOK'
<1> SUFFICES ASSUME FlagsOK, [Next]_vars PROVE FlagsOK'
  OBVIOUS
<1>1. CASE Select
  BY <1>1, Zenon DEF FlagsOK, Select
<1>2. CASE Read
  BY <1>2, Zenon DEF FlagsOK, Read
<1>3. CASE RunDue
  BY <1>3, Zenon DEF FlagsOK, RunDue, Keepalive
<1>4. CASE Arrive
  BY <1>4, Zenon DEF FlagsOK, Arrive
<1>5. CASE GoSilent
  BY <1>5, Zenon DEF FlagsOK, GoSilent
<1>6. CASE Tick
  BY <1>6, Zenon DEF FlagsOK, Tick
<1>7. CASE UNCHANGED vars
  BY <1>7, Zenon DEF FlagsOK, vars
<1> QED BY <1>1, <1>2, <1>3, <1>4, <1>5, <1>6, <1>7 DEF Next

KClocks == ClocksOK /\ Timely /\ Answering /\ OnlyTheDeadAreDropped

(* The timer runs: the one step that may give the connection up.           *)
LEMMA RunDueKeeps == KClocks /\ RunDue => KClocks'
<1> SUFFICES ASSUME KClocks, RunDue PROVE KClocks'
  OBVIOUS
<1> USE ConstantsOK DEF KClocks, ClocksOK, None
<1> DEFINE Waits == now < due /\ ping_out' = ping_out /\ due' = due
           Drops == up' = FALSE /\ ping_out' = ping_out /\ due' = due
           Pings == /\ ping_out = None /\ ping_out' = now /\ due' = now + PING_GRACE
           Rearms == /\ ping_out = None /\ now - t_in < PING_IDLE
                     /\ ping_out' = None /\ due' = t_in + PING_IDLE
<1>a. now' = now /\ t_in' = t_in /\ t0' = t0 /\ selecting' = TRUE
  BY Zenon DEF RunDue
<1>b. \/ Waits /\ answerBy' = answerBy
      \/ Drops /\ answerBy' = answerBy
      \/ Pings /\ answerBy' = now + Rtt
      \/ Rearms /\ answerBy' = answerBy
  BY Zenon DEF RunDue, Keepalive
<1>c. now <= t0 + Busy /\ t0 <= due /\ t0 <= now
  BY DEF RunDue, Timely
<1>1. ClocksOK'
  BY ONLY <1>a, <1>b, ClocksOK, ConstantsOK DEF ClocksOK, None
<1>2. Timely'
  BY ONLY <1>a, <1>b, <1>c, ClocksOK, Timely, ConstantsOK DEF ClocksOK, Timely, None
<1> USE DEF RunDue
<1>3. Answering'
  BY DEF Answering, Timely, Keepalive
<1>4. OnlyTheDeadAreDropped'
  <2>1. CASE PromptEnough /\ ~up' /\ serverUp
    <3>1. ping_out # None /\ now - ping_out >= PING_GRACE /\ ~selecting /\ ~ready /\ up
      BY <2>1 DEF Keepalive
    <3>2. t0 <= ping_out + Rtt /\ now <= t0 + Busy
      BY <3>1, <2>1 DEF Answering, Timely
    <3>3. FALSE
      BY <3>1, <3>2, <2>1 DEF PromptEnough
    <3> QED BY <3>3
  <2>2. CASE ~(PromptEnough /\ ~up' /\ serverUp)
    BY <2>2 DEF OnlyTheDeadAreDropped, PromptEnough
  <2> QED BY <2>1, <2>2
<1> QED BY <1>1, <1>2, <1>3, <1>4

LEMMA KeepaliveStep == KInv /\ [Next]_vars => KInv'
<1> SUFFICES ASSUME KInv, [Next]_vars PROVE KInv'
  OBVIOUS
<1>0. FlagsOK' /\ KClocks
  BY FlagsStep DEF KInv, TypeOK, KClocks
<1>8. KClocks'
  <2> USE ConstantsOK, <1>0 DEF KClocks, ClocksOK, Timely, Answering,
          OnlyTheDeadAreDropped, PromptEnough, None
  <2>1. CASE Select
    BY <2>1 DEF Select
  <2>2. CASE Read
    BY <2>2 DEF Read
  <2>3. CASE RunDue
    BY <2>3, RunDueKeeps
  <2>4. CASE Arrive
    BY <2>4 DEF Arrive
  <2>5. CASE GoSilent
    BY <2>5 DEF GoSilent
  <2>6. CASE Tick
    BY <2>6 DEF Tick
  <2>7. CASE UNCHANGED vars
    BY <2>7 DEF vars
  <2> QED BY <2>1, <2>2, <2>3, <2>4, <2>5, <2>6, <2>7 DEF Next
<1> QED BY <1>0, <1>8 DEF KInv, KClocks, TypeOK

LEMMA KInvBounds == KInv => SilenceIsNoticed
  BY ConstantsOK DEF KInv, TypeOK, ClocksOK, Timely, SilenceIsNoticed, None

(* The types, and the timer with the PING it is for.                       *)
THEOREM KeepaliveTypeCorrect == Spec => []TypeOK
<1>1. KInv => TypeOK
  BY DEF KInv
<1> QED BY <1>1, KeepaliveInit, KeepaliveStep, PTL DEF Spec

(* _keepalive(): a dead connection is given up in bounded time, whatever   *)
(* the loop is busy with.                                                  *)
THEOREM SilenceAlwaysNoticed == Spec => []SilenceIsNoticed
  BY KeepaliveInit, KeepaliveStep, KInvBounds, PTL DEF Spec

(* _keepalive() and run_once()'s order - sockets, then timers: a server    *)
(* that answers is never given up.                                         *)
THEOREM LivingNeverDropped == Spec => []OnlyTheDeadAreDropped
<1>1. KInv => OnlyTheDeadAreDropped
  BY DEF KInv
<1> QED BY <1>1, KeepaliveInit, KeepaliveStep, PTL DEF Spec

-----------------------------------------------------------------------------
(* Flood control.                                                          *)

(* What has gone since the moment watched, and what the bucket holds, came *)
(* out of one full bucket and the time reckoned since.                     *)
Balance ==
    /\ t_tok >= from => count * RATE + credit <= Full + (t_tok - from)
    /\ t_tok < from => count = 0

(* The timer is due within a line's time of the head's coming to be head,  *)
(* and the loop is late for it by Late at most.                            *)
Served ==
    outq > 0 => credit < RATE /\ pumpDue <= waits + RATE /\ clock <= pumpDue + Late

FInv == FloodTypeOK /\ Balance /\ Served

LEMMA FullIsLine == Full \in Nat /\ RATE <= Full
  BY FloodConstantsOK DEF Full

LEMMA FloodInitial == FloodInit => FInv
  BY FloodConstantsOK, FullIsLine DEF FloodInit, FInv, FloodTypeOK, Balance, Served, NoTimer

(* The whole of the arithmetic: a pump of q lines, q one more than outq    *)
(* when a line is sent and outq when the timer runs.                       *)
LEMMA PumpKeeps ==
    ASSUME FInv, NEW q \in 0 .. MaxQueue, q = outq + 1 \/ (q = outq /\ outq > 0),
           Pump(q), clock' = clock, from' = from
    PROVE  FInv'
<1> DEFINE all == credit + clock - t_tok
           c == IF all > Full THEN Full ELSE all
<1> USE FloodConstantsOK, FullIsLine
<1>1. PICK n \in 0 .. q :
         /\ n * RATE <= c
         /\ n < q => c < (n + 1) * RATE
         /\ t_tok' = clock
         /\ credit' = c - n * RATE
         /\ outq' = q - n
         /\ pumpDue' = IF n = q THEN NoTimer ELSE clock + RATE - credit'
         /\ count' = count + n
         /\ waits' = IF n > 0 \/ outq = 0 THEN clock ELSE waits
  BY DEF Pump
<1>2. c \in Nat /\ c <= Full /\ c <= all /\ n \in Nat /\ n * RATE \in Nat
  BY DEF FInv, FloodTypeOK
<1>3. (n + 1) * RATE = n * RATE + RATE /\ count' * RATE = count * RATE + n * RATE
      /\ count * RATE \in Nat
  BY <1>1, <1>2 DEF FInv, FloodTypeOK
<1>4. n < q => c - n * RATE < RATE
  BY <1>1, <1>2, <1>3
<1>5. FloodTypeOK'
  BY <1>1, <1>2 DEF FInv, FloodTypeOK, NoTimer
<1>6. Balance'
  <2> HIDE DEF c
  <2> DEFINE spent == n * RATE
             before == count * RATE
  <2>1. spent \in Nat /\ before \in Nat /\ count' * RATE = before + spent
        /\ credit' = c - spent
    BY <1>1, <1>2, <1>3
  <2> HIDE DEF spent, before
  <2>2. t_tok' = clock /\ from' = from /\ from <= clock
    BY <1>1 DEF FInv, FloodTypeOK
  <2>3. CASE t_tok >= from
    <3>1. before + credit <= Full + (t_tok - from)
      BY <2>3 DEF FInv, Balance, before
    <3> QED BY <3>1, <2>1, <2>2, <1>2 DEF Balance, FInv, FloodTypeOK
  <2>4. CASE t_tok < from
    <3>1. before = 0
      BY <2>4, FloodConstantsOK DEF FInv, Balance, before
    <3> QED BY <3>1, <2>1, <2>2, <1>2 DEF Balance, FInv, FloodTypeOK
  <2> QED BY <2>3, <2>4 DEF FInv, FloodTypeOK
<1>7. Served'
  <2>1. CASE n = q
    BY <2>1, <1>1 DEF Served
  <2>2. CASE n < q /\ (n > 0 \/ outq = 0)
    BY <2>2, <1>1, <1>2, <1>4 DEF Served, FInv, FloodTypeOK
  <2>3. CASE n < q /\ n = 0 /\ outq > 0
    <3>1. credit' = c /\ c = all /\ credit' < RATE
      BY <2>3, <1>1, <1>2, <1>4
    <3>2. pumpDue' = pumpDue /\ waits' = waits
      BY <3>1, <2>3, <1>1 DEF FInv, FloodTypeOK
    <3>3. pumpDue <= waits + RATE /\ clock <= pumpDue + Late
      BY <2>3 DEF FInv, Served
    <3>4. pumpDue' <= waits' + RATE /\ clock' <= pumpDue' + Late
      BY <3>2, <3>3
    <3> QED BY <3>1, <3>4 DEF Served
  <2>4. outq \in Nat /\ n \in Nat /\ q \in Nat /\ n <= q
    BY DEF FInv, FloodTypeOK
  <2> QED BY <2>1, <2>2, <2>3, <2>4
<1> QED BY <1>5, <1>6, <1>7 DEF FInv

LEMMA FloodStep == FInv /\ [FloodNext]_floodVars => FInv'
<1> SUFFICES ASSUME FInv, [FloodNext]_floodVars PROVE FInv'
  OBVIOUS
<1>1. CASE Send
  <2>1. outq + 1 \in 0 .. MaxQueue
    BY <1>1, FloodConstantsOK DEF Send, FInv, FloodTypeOK
  <2> QED BY <1>1, <2>1, PumpKeeps DEF Send
<1>2. CASE PumpTimer
  <2>1. outq \in 0 .. MaxQueue /\ outq > 0
    BY <1>2, FloodConstantsOK DEF PumpTimer, FInv, FloodTypeOK, NoTimer
  <2> QED BY <1>2, <2>1, PumpKeeps DEF PumpTimer
<1>3. CASE FloodTick
  <2>1. FloodTypeOK'
    BY <1>3, FloodConstantsOK, FullIsLine DEF FloodTick, FInv, FloodTypeOK, NoTimer
  <2>2. Balance'
    BY <1>3 DEF FloodTick, FInv, Balance
  <2>3. Served'
    BY <1>3, FloodConstantsOK, FullIsLine DEF FloodTick, FInv, FloodTypeOK, Served, NoTimer
  <2> QED BY <2>1, <2>2, <2>3 DEF FInv
<1>4. CASE Watch
  BY <1>4, FloodConstantsOK, FullIsLine DEF Watch, FInv, FloodTypeOK, Balance, Served, NoTimer
<1>5. CASE UNCHANGED floodVars
  BY <1>5 DEF floodVars, FInv, FloodTypeOK, Balance, Served, Full, NoTimer
<1> QED BY <1>1, <1>2, <1>3, <1>4, <1>5 DEF FloodNext

(* Types, and the pump's timer with the queue it serves.                   *)
THEOREM FloodTypeCorrect == FloodSpec => []FloodTypeOK
<1>1. FInv => FloodTypeOK
  BY DEF FInv
<1> QED BY <1>1, FloodInitial, FloodStep, PTL DEF FloodSpec

(* _pump(): from no moment on do more lines go than a burst and the rate.  *)
THEOREM FloodNeverFloods == FloodSpec => []NeverFloods
<1>1. FInv => NeverFloods
  <2> SUFFICES ASSUME FInv PROVE NeverFloods
    OBVIOUS
  <2> DEFINE gone == count * RATE
  <2>1. gone \in Nat
    BY FloodConstantsOK DEF FInv, FloodTypeOK
  <2> HIDE DEF gone
  <2>2. t_tok < from => gone = 0
    BY FloodConstantsOK DEF FInv, Balance, gone
  <2>3. t_tok >= from => gone + credit <= Full + (t_tok - from)
    BY DEF FInv, Balance, gone
  <2>4. gone <= Full + (clock - from)
    BY <2>1, <2>2, <2>3, FullIsLine DEF FInv, FloodTypeOK
  <2> QED BY <2>4 DEF NeverFloods, gone
<1> QED BY <1>1, FloodInitial, FloodStep, PTL DEF FloodSpec

(* _pump(): no line waits at the head longer than a line's time.           *)
THEOREM FloodHeadMovesOn == FloodSpec => []HeadMovesOn
<1>1. FInv => HeadMovesOn
  BY FloodConstantsOK, FullIsLine DEF FInv, FloodTypeOK, Served, HeadMovesOn, NoTimer
<1> QED BY <1>1, FloodInitial, FloodStep, PTL DEF FloodSpec

-----------------------------------------------------------------------------
(* Registration.                                                           *)
(*                                                                         *)
(* The negotiation is a game of turns: until CAP END is sent, one line of  *)
(* it is under way, in one direction or the other, and what line it is     *)
(* tells how far the login is (Stage).  Apart from it, a nick is either    *)
(* under way, refused or taken (NickFollowed), and for each capability the *)
(* last line on its way to us that names it tells whether it is enabled    *)
(* (CapFollowed).                                                          *)

Words == {"LS *", "LS", "ACK", "NAK", "DEL", "+", "903", "904", "433", "001",
          "REQ", "AUTHENTICATE PLAIN", "AUTHENTICATE", "END"}
FromServer == [cmd : Words, what : SUBSET Caps]
FromClient == FromServer \cup [cmd : {"NICK"}, what : Nat]

RegTypes ==
    /\ phase \in {"down", "registering", "up"}
    /\ offered \subseteq Caps /\ lsAcc \subseteq Caps /\ caps \subseteq Caps
    /\ login \in BOOLEAN /\ nick \in Nat
    /\ toServer \in Seq(FromClient) /\ toClient \in Seq(FromServer)
    /\ server \in [offer : SUBSET Caps, enabled : SUBSET Caps, nick : Nat,
                   negotiation : {"none", "open", "ended"},
                   auth : {"no", "acked", "asked", "answered"}]

\* All of a queue is of these commands; or all but one of it, and that of those
Only(q, S) == \A i \in DOMAIN q : q[i].cmd \in S
One(q, X, S) ==
    \E i \in DOMAIN q : q[i].cmd \in X /\ \A j \in DOMAIN q \ {i} : q[j].cmd \in S

Nicks == {"NICK"}
Aside == {"433", "DEL", "LS *"}         \* lines that move no negotiation on
Verdicts == {"903", "904"}
Rest == Aside \cup Verdicts             \* ... once CAP END is sent
Welcoming(S) == S \cup {"001"}

\* The first lines of a connection, unread
Fresh(ts, tc, srv, ended) ==
    /\ ts = <<Bare("LS"), Line("NICK", 0)>> /\ tc = <<>>
    /\ srv = NewServer /\ ~ended

\* A server that knows no capabilities
Unheeded(ts, tc, srv, ended) ==
    /\ Only(ts, Nicks) /\ Only(tc, Welcoming(Aside))
    /\ srv.negotiation = "none" /\ srv.auth = "no" /\ ~ended

\* It is for us to say the next word, after this line
OurTurn(tc, srv) ==
    \/ One(tc, {"LS", "NAK"}, Aside) /\ srv.auth = "no"
    \/ /\ One(tc, {"ACK"}, Aside)
       /\ srv.auth \in {"no", "acked"}
       /\ srv.auth = "acked" =>
            \A i \in DOMAIN tc : tc[i].cmd = "ACK" => "sasl" \in tc[i].what
    \/ One(tc, {"+"}, Aside)
    \/ One(tc, Verdicts, Rest) /\ srv.auth = "answered"

\* ... or for the server
ServersTurn(ts, srv) ==
    \/ One(ts, {"REQ"}, Nicks) /\ srv.auth = "no"
    \/ One(ts, {"AUTHENTICATE PLAIN", "AUTHENTICATE"}, Nicks)

Open(ts, tc, srv, ended) ==
    /\ srv.negotiation = "open" /\ ~ended
    /\ \/ Only(ts, Nicks) /\ OurTurn(tc, srv)
       \/ ServersTurn(ts, srv) /\ Only(tc, Aside)

\* CAP END is sent, or read
Over(ts, tc, srv, ended) ==
    /\ ended /\ srv.auth \in {"no", "answered"}
    /\ \/ One(ts, {"END"}, Nicks) /\ Only(tc, Rest) /\ srv.negotiation = "open"
       \/ Only(ts, Nicks) /\ Only(tc, Welcoming(Rest)) /\ srv.negotiation = "ended"

Stage(ts, tc, srv, ended) ==
    \/ Fresh(ts, tc, srv, ended) \/ Unheeded(ts, tc, srv, ended)
    \/ Open(ts, tc, srv, ended) \/ Over(ts, tc, srv, ended)

\* Once up, what is asked for again needs no login and no CAP END
RegSettled(ts, tc, srv, ended) ==
    /\ ended /\ srv.auth \in {"no", "answered"} /\ srv.negotiation # "open"
    /\ Only(ts, Nicks \cup {"LS", "REQ"})
    /\ Only(tc, Rest \cup {"LS", "ACK", "NAK", "001"})

Unconnected ==
    /\ toServer = <<>> /\ toClient = <<>> /\ server = NewServer
    /\ caps = {} /\ ~capDone /\ nick = 0 /\ ends = 0

StageOK ==
    /\ phase = "down" => Unconnected
    /\ phase = "registering" => Stage(toServer, toClient, server, capDone)
    /\ phase = "up" => RegSettled(toServer, toClient, server, capDone)

EndsCounted == ends \in {0, 1} /\ (ends = 1 => capDone)

\* The last nick asked for is under way, refused or the server's
LastNick(q, n) ==
    \E i \in DOMAIN q : /\ q[i] = Line("NICK", n)
                        /\ \A k \in DOMAIN q : k > i => q[k].cmd # "NICK"
NoNick(q) == \A i \in DOMAIN q : q[i].cmd # "NICK"
Refused(q) == \E i \in DOMAIN q : q[i].cmd = "433"
NickFollowed ==
    LastNick(toServer, nick) \/ Refused(toClient) \/ (server.nick = nick /\ NoNick(toServer))

\* The last line to us that names a capability tells whether it is enabled
Names(line, c) == line.cmd \in {"ACK", "DEL"} /\ c \in line.what
CapFollowed(c, tc, mine, theirs) ==
    \/ /\ \A i \in DOMAIN tc : ~Names(tc[i], c)
       /\ c \in mine <=> c \in theirs
    \/ \E i \in DOMAIN tc :
         /\ Names(tc[i], c)
         /\ \A j \in DOMAIN tc : j > i => ~Names(tc[j], c)
         /\ c \in theirs <=> tc[i].cmd = "ACK"
CapsFollowed == \A c : CapFollowed(c, toClient, caps, server.enabled)

RInv ==
    /\ RegTypes /\ StageOK /\ EndsCounted /\ CapsFollowed
    /\ phase = "registering" => NickFollowed

-----------------------------------------------------------------------------
(* What a queue holds when a line joins it.                                *)
LEMMA Joined ==
    ASSUME NEW L, NEW q \in Seq(L), NEW e \in L, NEW S, NEW X
    PROVE  /\ Append(q, e) \in Seq(L)
           /\ Only(q, S) /\ e.cmd \in S => Only(Append(q, e), S)
           /\ Only(q, S) /\ e.cmd \in X => One(Append(q, e), X, S)
           /\ One(q, X, S) /\ e.cmd \in S => One(Append(q, e), X, S)
<1> DEFINE z == Append(q, e)
<1>1. /\ z \in Seq(L) /\ Len(q) \in Nat /\ DOMAIN q = 1 .. Len(q)
      /\ DOMAIN z = 1 .. Len(q) + 1 /\ z[Len(q) + 1] = e
      /\ \A i \in 1 .. Len(q) : z[i] = q[i]
  OBVIOUS
<1> HIDE DEF z
<1>2. /\ \A i \in DOMAIN q : i \in DOMAIN z /\ z[i] = q[i] /\ i # Len(q) + 1
      /\ \A i \in DOMAIN z : i \in DOMAIN q \/ i = Len(q) + 1
      /\ Len(q) + 1 \in DOMAIN z
  BY <1>1
<1>3. Only(q, S) /\ e.cmd \in S => Only(z, S)
  BY <1>1, <1>2 DEF Only
<1>4. Only(q, S) /\ e.cmd \in X => One(z, X, S)
  BY <1>1, <1>2 DEF Only, One
<1>5. One(q, X, S) /\ e.cmd \in S => One(z, X, S)
  BY <1>1, <1>2 DEF One
<1> QED BY <1>1, <1>3, <1>4, <1>5 DEF z

(* What is left of a queue when its first line is read.                    *)
LEMMA Left ==
    ASSUME NEW L, NEW q \in Seq(L), q # <<>>, NEW S, NEW X
    PROVE  /\ Tail(q) \in Seq(L) /\ Head(q) \in L
           /\ Only(q, S) => Head(q).cmd \in S /\ Only(Tail(q), S)
           /\ One(q, X, S) =>
                \/ Head(q).cmd \in X /\ Only(Tail(q), S)
                \/ Head(q).cmd \in S /\ One(Tail(q), X, S)
<1> DEFINE t == Tail(q)
           n == Len(q)
<1>1. /\ t \in Seq(L) /\ n \in Nat \ {0} /\ DOMAIN q = 1 .. n /\ DOMAIN t = 1 .. n - 1
      /\ Head(q) = q[1] /\ Head(q) \in L
  OBVIOUS
<1>2. \A i \in 1 .. n - 1 : t[i] = q[i + 1]
  OBVIOUS
<1> HIDE DEF t, n
<1>3. \A i \in DOMAIN t : i + 1 \in DOMAIN q /\ t[i] = q[i + 1] /\ i + 1 # 1
  BY <1>1, <1>2
<1>4. 1 \in DOMAIN q
  BY <1>1
<1>5. Only(q, S) => Head(q).cmd \in S /\ Only(t, S)
  BY <1>1, <1>3, <1>4 DEF Only
<1>6. ASSUME One(q, X, S)
      PROVE  \/ Head(q).cmd \in X /\ Only(t, S)
             \/ Head(q).cmd \in S /\ One(t, X, S)
  <2>1. PICK i \in DOMAIN q : q[i].cmd \in X /\ \A j \in DOMAIN q \ {i} : q[j].cmd \in S
    BY <1>6 DEF One
  <2>2. CASE i = 1
    BY <1>1, <1>3, <2>1, <2>2 DEF Only
  <2>3. CASE i # 1
    <3>1. i - 1 \in DOMAIN t /\ t[i - 1] = q[i]
      BY <1>1, <1>2, <2>3
    <3>2. \A j \in DOMAIN t \ {i - 1} : t[j].cmd \in S
      BY <1>1, <1>3, <2>1
    <3> QED BY <1>1, <1>4, <2>1, <2>3, <3>1, <3>2 DEF One
  <2> QED BY <2>2, <2>3
<1> QED BY <1>1, <1>5, <1>6 DEF t

(* What may be in a queue may be in a wider one; nothing is in an empty.   *)
LEMMA Wider ==
    ASSUME NEW q, NEW S, NEW T, S \subseteq T, NEW X, X \subseteq T
    PROVE  /\ Only(q, S) => Only(q, T)
           /\ One(q, X, S) => Only(q, T)
           /\ Only(<<>>, S) /\ ~One(<<>>, X, S)
BY DEF Only, One

(* Answers of one line and of two.                                         *)
LEMMA RegAnswers ==
    ASSUME NEW L, NEW q \in Seq(L), NEW a \in L, NEW b \in L
    PROVE  q \o <<a>> = Append(q, a) /\ q \o <<a, b>> = Append(Append(q, a), b)
OBVIOUS

-----------------------------------------------------------------------------
(* Whose turn it is, by the line that is read.                             *)

\* The stage once the first lines are read
Begun(ts, tc, srv, ended) ==
    \/ Unheeded(ts, tc, srv, ended) \/ Open(ts, tc, srv, ended) \/ Over(ts, tc, srv, ended)

\* Nothing that matters is under way
Still(ts, tc) == Only(ts, Nicks) /\ Only(tc, Aside)

(* A line from the server, read while registering.                         *)
LEMMA WeRead ==
    ASSUME RegTypes, Stage(toServer, toClient, server, capDone), toClient # <<>>,
           NEW x, x = Head(toClient), NEW t, t = Tail(toClient)
    PROVE  /\ x.cmd \in Aside => Begun(toServer, t, server, capDone)
           /\ x.cmd \in {"LS", "NAK", "ACK", "+"} =>
                server.negotiation = "open" /\ ~capDone /\ Still(toServer, t)
           /\ x.cmd \in {"LS", "NAK"} => server.auth = "no"
           /\ x.cmd = "ACK" => server.auth = "no" \/ (server.auth = "acked" /\ "sasl" \in x.what)
           /\ x.cmd \in {"903", "904"} =>
                \/ Over(toServer, t, server, capDone)
                \/ /\ server.negotiation = "open" /\ ~capDone /\ server.auth = "answered"
                   /\ Only(toServer, Nicks) /\ Only(t, Rest)
           /\ x.cmd = "001" =>
                /\ server.negotiation # "open" /\ server.auth \in {"no", "answered"}
                /\ Only(toServer, Nicks) /\ Only(t, Welcoming(Rest))
<1> DEFINE L == FromServer
<1>1. toClient \in Seq(L)
  BY DEF RegTypes
<1>2. \A S, X : /\ Only(toClient, S) => x.cmd \in S /\ Only(t, S)
                /\ One(toClient, X, S) => \/ x.cmd \in X /\ Only(t, S)
                                          \/ x.cmd \in S /\ One(t, X, S)
  BY <1>1, Left
<1>3. /\ Only(toClient, Aside) => x.cmd \in Aside /\ Only(t, Aside)
      /\ Only(toClient, Rest) => x.cmd \in Rest /\ Only(t, Rest)
      /\ Only(toClient, Welcoming(Aside)) => x.cmd \in Welcoming(Aside) /\ Only(t, Welcoming(Aside))
      /\ Only(toClient, Welcoming(Rest)) => x.cmd \in Welcoming(Rest) /\ Only(t, Welcoming(Rest))
  BY <1>2
<1>4. \A X : One(toClient, X, Aside) => \/ x.cmd \in X /\ Only(t, Aside)
                                        \/ x.cmd \in Aside /\ One(t, X, Aside)
  BY <1>2
<1>5. One(toClient, Verdicts, Rest) => \/ x.cmd \in Verdicts /\ Only(t, Rest)
                                       \/ x.cmd \in Rest /\ One(t, Verdicts, Rest)
  BY <1>2
<1>6. /\ Only(t, Welcoming(Aside)) => Only(t, Welcoming(Rest))
      /\ Only(t, Aside) => Only(t, Rest)
      /\ One(t, Verdicts, Rest) => Only(t, Rest)
  BY DEF Only, One, Welcoming, Rest
<1>7. /\ x.cmd \in Aside <=> x.cmd \in {"433", "DEL", "LS *"}
      /\ x.cmd \in Rest <=> x.cmd \in {"433", "DEL", "LS *", "903", "904"}
      /\ x.cmd \in Verdicts <=> x.cmd \in {"903", "904"}
      /\ x.cmd \in Welcoming(Aside) <=> x.cmd \in {"433", "DEL", "LS *", "001"}
      /\ x.cmd \in Welcoming(Rest) <=> x.cmd \in {"433", "DEL", "LS *", "903", "904", "001"}
  BY DEF Aside, Rest, Verdicts, Welcoming
<1>8. CASE Fresh(toServer, toClient, server, capDone)
  BY <1>8 DEF Fresh
<1>9. CASE Unheeded(toServer, toClient, server, capDone)
  BY <1>3, <1>6, <1>7, <1>9 DEF Unheeded, Begun
<1>10. CASE Over(toServer, toClient, server, capDone)
  BY <1>3, <1>6, <1>7, <1>10 DEF Over, Begun
<1>11. CASE Open(toServer, toClient, server, capDone)
  <2>0. server.negotiation = "open" /\ ~capDone
    BY <1>11 DEF Open
  <2>1. CASE ServersTurn(toServer, server) /\ Only(toClient, Aside)
    BY <1>3, <1>7, <2>0, <2>1 DEF Open, Begun
  <2>2. ASSUME Only(toServer, Nicks), OurTurn(t, server)
        PROVE  Begun(toServer, t, server, capDone)
    BY <2>0, <2>2 DEF Begun, Open
  <2>3. CASE Only(toServer, Nicks) /\ One(toClient, {"LS", "NAK"}, Aside) /\ server.auth = "no"
    <3>1. CASE x.cmd \in {"LS", "NAK"} /\ Only(t, Aside)
      BY <1>7, <2>0, <2>3, <3>1 DEF Still
    <3>2. CASE x.cmd \in Aside /\ One(t, {"LS", "NAK"}, Aside)
      BY <1>7, <2>2, <2>3, <3>2 DEF OurTurn
    <3> QED BY <1>4, <2>3, <3>1, <3>2
  <2>4. CASE /\ Only(toServer, Nicks) /\ One(toClient, {"ACK"}, Aside)
             /\ server.auth \in {"no", "acked"}
             /\ server.auth = "acked" =>
                  \A i \in DOMAIN toClient :
                     toClient[i].cmd = "ACK" => "sasl" \in toClient[i].what
    <3>1. 1 \in DOMAIN toClient /\ x = toClient[1]
      BY <1>1
    <3>2. \A i \in DOMAIN t : i + 1 \in DOMAIN toClient /\ t[i] = toClient[i + 1]
      BY <1>1
    <3>3. CASE x.cmd \in {"ACK"} /\ Only(t, Aside)
      BY <1>7, <2>0, <2>4, <3>1, <3>3 DEF Still
    <3>4. CASE x.cmd \in Aside /\ One(t, {"ACK"}, Aside)
      <4>1. server.auth = "acked" =>
              \A i \in DOMAIN t : t[i].cmd = "ACK" => "sasl" \in t[i].what
        BY <2>4, <3>2
      <4>2. OurTurn(t, server)
        BY <2>4, <3>4, <4>1 DEF OurTurn
      <4> QED BY <1>7, <2>2, <2>4, <3>4, <4>2
    <3> QED BY <1>4, <2>4, <3>3, <3>4
  <2>5. CASE Only(toServer, Nicks) /\ One(toClient, {"+"}, Aside)
    <3>1. CASE x.cmd \in {"+"} /\ Only(t, Aside)
      BY <1>7, <2>0, <2>5, <3>1 DEF Still
    <3>2. CASE x.cmd \in Aside /\ One(t, {"+"}, Aside)
      BY <1>7, <2>2, <2>5, <3>2 DEF OurTurn
    <3> QED BY <1>4, <2>5, <3>1, <3>2
  <2>6. CASE Only(toServer, Nicks) /\ One(toClient, Verdicts, Rest) /\ server.auth = "answered"
    <3>1. CASE x.cmd \in Verdicts /\ Only(t, Rest)
      BY <1>7, <2>0, <2>6, <3>1
    <3>2. CASE x.cmd \in Rest /\ One(t, Verdicts, Rest)
      BY <1>6, <1>7, <2>0, <2>2, <2>6, <3>2 DEF OurTurn
    <3> QED BY <1>5, <2>6, <3>1, <3>2
  <2> QED BY <1>11, <2>1, <2>3, <2>4, <2>5, <2>6 DEF Open, OurTurn
<1> QED BY <1>8, <1>9, <1>10, <1>11 DEF Stage

(* A line from us, read by the server while we are registering.            *)
LEMMA ServerReads ==
    ASSUME RegTypes, Stage(toServer, toClient, server, capDone), toServer # <<>>,
           NEW x, x = Head(toServer), NEW t, t = Tail(toServer)
    PROVE  /\ x.cmd = "NICK" => Begun(t, toClient, server, capDone)
           /\ x.cmd = "LS" => Fresh(toServer, toClient, server, capDone)
           /\ x.cmd \in {"REQ", "AUTHENTICATE PLAIN", "AUTHENTICATE"} =>
                server.negotiation = "open" /\ ~capDone /\ Still(t, toClient)
           /\ x.cmd = "REQ" => server.auth = "no"
           /\ x.cmd = "END" =>
                /\ capDone /\ server.auth \in {"no", "answered"}
                /\ Only(t, Nicks) /\ Only(toClient, Rest)
<1>1. toServer \in Seq(FromClient)
  BY DEF RegTypes
<1>2. /\ Only(toServer, Nicks) => x.cmd \in Nicks /\ Only(t, Nicks)
      /\ \A X : One(toServer, X, Nicks) => \/ x.cmd \in X /\ Only(t, Nicks)
                                           \/ x.cmd \in Nicks /\ One(t, X, Nicks)
  BY <1>1, Left
<1>3. x.cmd \in Nicks <=> x.cmd = "NICK"
  BY DEF Nicks
<1>4. CASE Fresh(toServer, toClient, server, capDone)
  <2>1. x = Bare("LS")
    BY <1>4 DEF Fresh
  <2>2. x.cmd = "LS"
    BY <2>1 DEF Bare, Line
  <2> QED BY <1>4, <2>2
<1>5. CASE Unheeded(toServer, toClient, server, capDone)
  BY <1>2, <1>3, <1>5 DEF Unheeded, Begun
<1>6. CASE Over(toServer, toClient, server, capDone)
  <2>1. CASE One(toServer, {"END"}, Nicks)
    BY <1>2, <1>3, <1>6, <2>1 DEF Over, Begun
  <2>2. CASE Only(toServer, Nicks)
    BY <1>2, <1>3, <1>6, <2>2 DEF Over, Begun
  <2> QED BY <1>6, <2>1, <2>2 DEF Over
<1>7. CASE Open(toServer, toClient, server, capDone)
  <2>0. server.negotiation = "open" /\ ~capDone
    BY <1>7 DEF Open
  <2>1. CASE Only(toServer, Nicks) /\ OurTurn(toClient, server)
    BY <1>2, <1>3, <2>0, <2>1 DEF Open, Begun
  <2>2. CASE One(toServer, {"REQ"}, Nicks) /\ server.auth = "no" /\ Only(toClient, Aside)
    BY <1>2, <1>3, <2>0, <2>2 DEF Open, Begun, ServersTurn, Still
  <2>3. CASE One(toServer, {"AUTHENTICATE PLAIN", "AUTHENTICATE"}, Nicks) /\ Only(toClient, Aside)
    BY <1>2, <1>3, <2>0, <2>3 DEF Open, Begun, ServersTurn, Still
  <2> QED BY <1>7, <2>1, <2>2, <2>3 DEF Open, ServersTurn
<1> QED BY <1>4, <1>5, <1>6, <1>7 DEF Stage

(* What joins a queue beside the negotiation leaves it as it was.          *)
LEMMA AsideJoins ==
    ASSUME NEW ts \in Seq(FromClient), NEW tc \in Seq(FromServer), NEW srv, NEW ended,
           Begun(ts, tc, srv, ended), NEW e \in FromServer, e.cmd \in Aside
    PROVE  Begun(ts, Append(tc, e), srv, ended)
<1> DEFINE z == Append(tc, e)
<1>1. /\ Only(tc, Aside) => Only(z, Aside)
      /\ Only(tc, Welcoming(Aside)) => Only(z, Welcoming(Aside))
      /\ Only(tc, Rest) => Only(z, Rest)
      /\ Only(tc, Welcoming(Rest)) => Only(z, Welcoming(Rest))
      /\ \A X : One(tc, X, Aside) => One(z, X, Aside)
      /\ One(tc, Verdicts, Rest) => One(z, Verdicts, Rest)
  <2>1. e.cmd \in Rest /\ e.cmd \in Welcoming(Aside) /\ e.cmd \in Welcoming(Rest)
    BY DEF Rest, Welcoming
  <2> QED BY <2>1, Joined
<1>2. \A i \in DOMAIN z : z[i] = e \/ (i \in DOMAIN tc /\ z[i] = tc[i])
  OBVIOUS
<1>0. e.cmd # "ACK"
  BY DEF Aside
<1> SUFFICES Begun(ts, z, srv, ended)
  OBVIOUS
<1> HIDE DEF z
<1>3. OurTurn(tc, srv) => OurTurn(z, srv)
  BY <1>0, <1>1, <1>2 DEF OurTurn
<1>4. CASE Unheeded(ts, tc, srv, ended)
  BY <1>1, <1>4 DEF Unheeded, Begun
<1>5. CASE Open(ts, tc, srv, ended)
  BY <1>1, <1>3, <1>5 DEF Open, Begun
<1>6. CASE Over(ts, tc, srv, ended)
  BY <1>1, <1>6 DEF Over, Begun
<1> QED BY <1>4, <1>5, <1>6 DEF Begun

(* Nor does a nick on its way to the server.                               *)
LEMMA NickJoins ==
    ASSUME NEW ts \in Seq(FromClient), NEW tc \in Seq(FromServer), NEW srv, NEW ended,
           Begun(ts, tc, srv, ended), NEW e \in FromClient, e.cmd = "NICK"
    PROVE  Begun(Append(ts, e), tc, srv, ended)
<1> DEFINE z == Append(ts, e)
<1>1. \A X : /\ Only(ts, Nicks) => Only(z, Nicks)
             /\ One(ts, X, Nicks) => One(z, X, Nicks)
  BY Joined DEF Nicks
<1> HIDE DEF z
<1> QED BY <1>1 DEF Unheeded, Open, Over, Begun, ServersTurn, z

(* Nicks, as lines come and go.                                            *)
LEMMA NicksJoin ==
    ASSUME NEW L, NEW q \in Seq(L), NEW e \in L, NEW n
    PROVE  /\ e.cmd # "NICK" /\ LastNick(q, n) => LastNick(Append(q, e), n)
           /\ e.cmd # "NICK" /\ NoNick(q) => NoNick(Append(q, e))
           /\ e = Line("NICK", n) => LastNick(Append(q, e), n)
           /\ Refused(q) \/ e.cmd = "433" => Refused(Append(q, e))
<1> DEFINE z == Append(q, e)
<1>1. /\ Len(q) \in Nat /\ DOMAIN q = 1 .. Len(q)
      /\ DOMAIN z = 1 .. Len(q) + 1 /\ z[Len(q) + 1] = e
      /\ \A i \in 1 .. Len(q) : z[i] = q[i]
  OBVIOUS
<1> HIDE DEF z
<1>2. e.cmd # "NICK" /\ LastNick(q, n) => LastNick(z, n)
  BY <1>1 DEF LastNick
<1>3. e.cmd # "NICK" /\ NoNick(q) => NoNick(z)
  BY <1>1 DEF NoNick
<1>4. e = Line("NICK", n) => LastNick(z, n)
  BY <1>1 DEF LastNick
<1>5. Refused(q) \/ e.cmd = "433" => Refused(z)
  BY <1>1 DEF Refused
<1> QED BY <1>2, <1>3, <1>4, <1>5 DEF z

(* ... and when the server reads its first line.                           *)
LEMMA NicksLeave ==
    ASSUME NEW L, NEW q \in Seq(L), q # <<>>, NEW n
    PROVE  /\ Head(q).cmd # "NICK" /\ LastNick(q, n) => LastNick(Tail(q), n)
           /\ NoNick(q) => NoNick(Tail(q)) /\ Head(q).cmd # "NICK"
           /\ LastNick(q, n) => \/ LastNick(Tail(q), n)
                                \/ Head(q) = Line("NICK", n) /\ NoNick(Tail(q))
           /\ Head(q).cmd # "433" /\ Refused(q) => Refused(Tail(q))
<1> DEFINE t == Tail(q)
           h == Head(q)
           m == Len(q)
<1>1. /\ m \in Nat \ {0} /\ DOMAIN q = 1 .. m /\ DOMAIN t = 1 .. m - 1 /\ h = q[1]
  OBVIOUS
<1>2. \A i \in 1 .. m - 1 : t[i] = q[i + 1]
  OBVIOUS
<1> HIDE DEF t, h, m
<1>3. \A i \in 2 .. m : i - 1 \in 1 .. m - 1 /\ t[i - 1] = q[i]
  BY <1>1, <1>2
<1>4. \A i \in 1 .. m - 1 : i + 1 \in 1 .. m /\ i + 1 \in 2 .. m
  BY <1>1
<1>5. LastNick(q, n) => LastNick(t, n) \/ (h = Line("NICK", n) /\ NoNick(t))
  <2> SUFFICES ASSUME NEW i \in 1 .. m, q[i] = Line("NICK", n),
                      \A k \in 1 .. m : k > i => q[k].cmd # "NICK"
               PROVE  LastNick(t, n) \/ (h = Line("NICK", n) /\ NoNick(t))
    BY <1>1 DEF LastNick
  <2>1. CASE i = 1
    BY <1>1, <1>2, <1>4, <2>1 DEF NoNick
  <2>2. CASE i # 1
    <3>1. i - 1 \in 1 .. m - 1 /\ t[i - 1] = Line("NICK", n)
      BY <1>1, <1>3, <2>2
    <3>2. \A k \in 1 .. m - 1 : k > i - 1 => t[k].cmd # "NICK"
      BY <1>1, <1>2, <1>4
    <3> QED BY <1>1, <3>1, <3>2 DEF LastNick
  <2> QED BY <2>1, <2>2
<1>6. h = Line("NICK", n) => h.cmd = "NICK"
  BY DEF Line
<1>7. NoNick(q) => NoNick(t) /\ h.cmd # "NICK"
  <2>1. 1 \in DOMAIN q
    BY <1>1
  <2>2. \A k \in DOMAIN t : k + 1 \in DOMAIN q /\ t[k] = q[k + 1]
    BY <1>1, <1>2, <1>4
  <2> QED BY <1>1, <2>1, <2>2 DEF NoNick
<1>8. h.cmd # "433" /\ Refused(q) => Refused(t)
  <2> SUFFICES ASSUME NEW i \in 1 .. m, q[i].cmd = "433", h.cmd # "433" PROVE Refused(t)
    BY <1>1 DEF Refused
  <2>1. i \in 2 .. m
    BY <1>1
  <2> QED BY <1>1, <1>3, <2>1 DEF Refused
<1> QED BY <1>5, <1>6, <1>7, <1>8 DEF t, h

(* Capabilities, as the server answers and as we read it.                  *)
LEMMA CapAnswered ==
    ASSUME NEW L, NEW q \in Seq(L), NEW e \in L, NEW c, NEW mine, NEW theirs, NEW theirs2,
           CapFollowed(c, q, mine, theirs),
           Names(e, c) => (c \in theirs2 <=> e.cmd = "ACK"),
           ~Names(e, c) => (c \in theirs2 <=> c \in theirs)
    PROVE  CapFollowed(c, Append(q, e), mine, theirs2)
<1> DEFINE z == Append(q, e)
<1>1. /\ Len(q) \in Nat /\ DOMAIN q = 1 .. Len(q)
      /\ DOMAIN z = 1 .. Len(q) + 1 /\ z[Len(q) + 1] = e
      /\ \A i \in 1 .. Len(q) : z[i] = q[i]
  OBVIOUS
<1> SUFFICES CapFollowed(c, z, mine, theirs2)
  OBVIOUS
<1> HIDE DEF z
<1>2. CASE Names(e, c)
  BY <1>1, <1>2 DEF CapFollowed
<1>3. CASE ~Names(e, c) /\ \A i \in DOMAIN q : ~Names(q[i], c)
  BY <1>1, <1>3 DEF CapFollowed
<1>4. CASE ~Names(e, c) /\ \E i \in DOMAIN q : Names(q[i], c)
  BY <1>1, <1>4 DEF CapFollowed
<1> QED BY <1>2, <1>3, <1>4

(* ... and when we read the first, and do what it says.                    *)
LEMMA CapRead ==
    ASSUME NEW L, NEW q \in Seq(L), q # <<>>, NEW c, NEW mine, NEW theirs, NEW mine2,
           CapFollowed(c, q, mine, theirs),
           Names(Head(q), c) => (c \in mine2 <=> Head(q).cmd = "ACK"),
           ~Names(Head(q), c) => (c \in mine2 <=> c \in mine)
    PROVE  CapFollowed(c, Tail(q), mine2, theirs)
<1> DEFINE t == Tail(q)
           m == Len(q)
<1>1. /\ m \in Nat \ {0} /\ DOMAIN q = 1 .. m /\ DOMAIN t = 1 .. m - 1 /\ Head(q) = q[1]
  OBVIOUS
<1>2. \A i \in 1 .. m - 1 : t[i] = q[i + 1]
  OBVIOUS
<1> SUFFICES CapFollowed(c, t, mine2, theirs)
  OBVIOUS
<1> HIDE DEF t, m
<1>3. \A i \in 2 .. m : i - 1 \in 1 .. m - 1 /\ t[i - 1] = q[i]
  BY <1>1, <1>2
<1>4. \A i \in 1 .. m - 1 : i + 1 \in 1 .. m /\ i + 1 \in 2 .. m
  BY <1>1
<1>5. CASE \A i \in DOMAIN q : ~Names(q[i], c)
  <2>1. 1 \in DOMAIN q
    BY <1>1
  <2>2. \A k \in DOMAIN t : k + 1 \in DOMAIN q /\ t[k] = q[k + 1]
    BY <1>1, <1>2, <1>4
  <2>3. \A k \in DOMAIN t : ~Names(t[k], c)
    BY <1>5, <2>2
  <2> QED BY <1>1, <1>5, <2>1, <2>3 DEF CapFollowed
<1>6. ASSUME NEW i \in 1 .. m, Names(q[i], c), \A k \in 1 .. m : k > i => ~Names(q[k], c),
             c \in theirs <=> q[i].cmd = "ACK"
      PROVE  CapFollowed(c, t, mine2, theirs)
  <2>1. CASE i = 1
    <3>1. \A k \in 1 .. m - 1 : ~Names(t[k], c)
      BY <1>1, <1>2, <1>4, <1>6, <2>1
    <3> QED BY <1>1, <1>6, <2>1, <3>1 DEF CapFollowed
  <2>2. CASE i # 1
    <3>1. i - 1 \in 1 .. m - 1 /\ t[i - 1] = q[i]
      BY <1>1, <1>3, <2>2
    <3>2. \A k \in 1 .. m - 1 : k > i - 1 => ~Names(t[k], c)
      BY <1>1, <1>2, <1>4, <1>6
    <3> QED BY <1>1, <1>6, <3>1, <3>2 DEF CapFollowed
  <2> QED BY <2>1, <2>2
<1> QED BY <1>1, <1>5, <1>6 DEF CapFollowed

-----------------------------------------------------------------------------
(* The steps.                                                              *)

(* Lines are lines.                                                        *)
LEMMA LinesTyped ==
    /\ \A cmd \in Words : Bare(cmd) \in FromServer /\ Bare(cmd) \in FromClient
    /\ \A cmd \in Words, w \in SUBSET Caps :
         Line(cmd, w) \in FromServer /\ Line(cmd, w) \in FromClient
    /\ \A n \in Nat : Line("NICK", n) \in FromClient
    /\ \A cmd, w : Line(cmd, w).cmd = cmd /\ Line(cmd, w).what = w
    /\ \A cmd : Bare(cmd).cmd = cmd /\ Bare(cmd).what = {}
<1>1. \A cmd, w : Line(cmd, w).cmd = cmd /\ Line(cmd, w).what = w
  BY DEF Line
<1>2. \A cmd : Bare(cmd).cmd = cmd /\ Bare(cmd).what = {}
  BY DEF Bare, Line
<1>3. \A cmd \in Words, w \in SUBSET Caps : Line(cmd, w) \in FromServer
  BY DEF Line, FromServer
<1>4. \A n \in Nat : Line("NICK", n) \in FromClient
  BY DEF Line, FromClient
<1>5. \A cmd \in Words : Bare(cmd) \in FromServer
  BY <1>3 DEF Bare
<1> QED BY <1>1, <1>2, <1>3, <1>4, <1>5 DEF FromClient

(* What reading a line leaves.                                             *)
LEMMA TakeLeaves ==
    ASSUME RegTypes, NEW cmd, Take(cmd)
    PROVE  /\ toClient # <<>> /\ toClient' = Tail(toClient)
           /\ toClient' \in Seq(FromServer) /\ Head(toClient) \in FromServer
           /\ Given \subseteq Caps /\ Head(toClient).cmd = cmd
           /\ UNCHANGED <<login, server>> /\ phase # "down"
<1>1. toClient \in Seq(FromServer) /\ toClient # <<>>
  BY DEF RegTypes, Take
<1>2. Tail(toClient) \in Seq(FromServer) /\ Head(toClient) \in FromServer
  BY <1>1, Left
<1> QED BY <1>1, <1>2 DEF Take, Given, FromServer

(* ... and what it leaves alone.                                           *)
LEMMA TakeKeeps ==
    ASSUME RegTypes, NEW cmd, Take(cmd), NEW S, Only(toClient, S)
    PROVE  cmd \in S /\ Only(toClient', S)
<1>1. toClient \in Seq(FromServer)
  BY DEF RegTypes
<1>2. /\ toClient # <<>> /\ toClient' = Tail(toClient) /\ Head(toClient).cmd = cmd
  BY TakeLeaves
<1>3. Head(toClient).cmd \in S /\ Only(Tail(toClient), S)
  BY <1>1, <1>2, Left
<1> QED BY <1>2, <1>3

(* What the server's reading of a line leaves of the queue to it,          *)
LEMMA ReadLeaves ==
    ASSUME RegTypes, NEW cmd, ServerTakes(cmd)
    PROVE  /\ toServer # <<>> /\ toServer' = Tail(toServer)
           /\ toServer' \in Seq(FromClient) /\ Head(toServer) \in FromClient
           /\ Head(toServer).cmd = cmd
           /\ UNCHANGED <<phase, login, offered, lsAcc, caps, capDone, nick, ends>>
<1>1. toServer \in Seq(FromClient) /\ toServer # <<>>
  BY DEF RegTypes, ServerTakes
<1>2. Tail(toServer) \in Seq(FromClient) /\ Head(toServer) \in FromClient
  BY <1>1, Left
<1> QED BY <1>1, <1>2 DEF ServerTakes, negVars

(* ... and what it leaves alone.                                           *)
LEMMA ReadKeeps ==
    ASSUME RegTypes, NEW cmd, ServerTakes(cmd), NEW S, Only(toServer, S)
    PROVE  cmd \in S /\ Only(toServer', S)
<1>1. toServer \in Seq(FromClient)
  BY DEF RegTypes
<1>2. /\ toServer # <<>> /\ toServer' = Tail(toServer) /\ Head(toServer).cmd = cmd
  BY ReadLeaves
<1>3. Head(toServer).cmd \in S /\ Only(Tail(toServer), S)
  BY <1>1, <1>2, Left
<1> QED BY <1>2, <1>3

(* CAP END is said once, or was.                                           *)
LEMMA CapEndSays ==
    ASSUME RegTypes, cap_end
    PROVE  \/ /\ ~capDone /\ phase = "registering" /\ capDone' /\ ends' = ends + 1
              /\ toServer' = Append(toServer, Bare("END"))
           \/ (capDone \/ phase # "registering") /\ UNCHANGED <<capDone, toServer, ends>>
BY DEF cap_end, Say

(* What saying a line leaves.                                              *)
LEMMA SayLeaves ==
    ASSUME RegTypes
    PROVE  /\ \A e \in FromClient : Say(e) => toServer' \in Seq(FromClient)
           /\ cap_end => toServer' \in Seq(FromClient)
<1>1. toServer \in Seq(FromClient)
  BY DEF RegTypes
<1>2. \A e \in FromClient : Append(toServer, e) \in Seq(FromClient)
  BY <1>1, AppendProperties
<1>3. Bare("END") \in FromClient
  BY LinesTyped DEF Words
<1> QED BY <1>1, <1>2, <1>3, CapEndSays DEF Say

(* What answering leaves.                                                  *)
LEMMA AnswerLeaves ==
    ASSUME RegTypes, NEW a \in FromServer, NEW b \in FromServer
    PROVE  /\ Answer(<<a>>) => toClient' = Append(toClient, a) /\ toClient' \in Seq(FromServer)
           /\ Answer(<<a, b>>) => /\ toClient' = Append(Append(toClient, a), b)
                                  /\ toClient' \in Seq(FromServer)
<1>1. toClient \in Seq(FromServer)
  BY DEF RegTypes
<1>2. Append(toClient, a) \in Seq(FromServer)
  BY <1>1, AppendProperties
<1>3. Append(Append(toClient, a), b) \in Seq(FromServer)
  BY <1>2, AppendProperties
<1> QED BY <1>1, <1>2, <1>3, RegAnswers DEF Answer

(* Types.                                                                  *)
LEMMA TypeStep ==
    ASSUME RegTypes, [RegNext]_regVars PROVE RegTypes'
<1> USE DEF negVars
<1>1. ASSUME phase' \in {"down", "registering", "up"}, login' \in BOOLEAN,
             offered' \subseteq Caps, lsAcc' \subseteq Caps, caps' \subseteq Caps,
             nick' \in Nat, toServer' \in Seq(FromClient), toClient' \in Seq(FromServer),
             server' = server \/ server' = NewServer
      PROVE  RegTypes'
  <2>1. NewServer \in [offer : SUBSET Caps, enabled : SUBSET Caps, nick : Nat,
                       negotiation : {"none", "open", "ended"},
                       auth : {"no", "acked", "asked", "answered"}]
    BY RegistrationAssumption DEF NewServer
  <2> QED BY <1>1, <2>1 DEF RegTypes
<1>2. ASSUME NEW cmd, Take(cmd)
      PROVE  /\ login' \in BOOLEAN /\ toClient' \in Seq(FromServer) /\ server' = server
             /\ Given \subseteq Caps
  BY <1>2, TakeLeaves DEF RegTypes
<1>3. /\ phase \in {"down", "registering", "up"} /\ login \in BOOLEAN
      /\ offered \subseteq Caps /\ lsAcc \subseteq Caps /\ caps \subseteq Caps /\ nick \in Nat
      /\ toServer \in Seq(FromClient) /\ toClient \in Seq(FromServer)
  BY DEF RegTypes
<1>4. CASE _register
  <2>1. Bare("LS") \in FromClient /\ Line("NICK", nick) \in FromClient
    BY <1>3, LinesTyped DEF Words
  <2>2. toServer' \in Seq(FromClient)
    BY <1>4, <2>1 DEF _register
  <2> QED BY <1>1, <1>3, <1>4, <2>2 DEF _register
<1>5. CASE _reset
  BY <1>1, <1>3, <1>5 DEF _reset
<1>6. CASE on_CAP_LS_more
  BY <1>1, <1>2, <1>3, <1>6 DEF on_CAP_LS_more
<1>7. CASE on_CAP_LS
  <2>1. offered' \subseteq Caps
    BY <1>2, <1>3, <1>7 DEF on_CAP_LS
  <2>2. Line("REQ", offered' \ (IF login THEN {} ELSE {"sasl"})) \in FromClient
    BY <2>1, LinesTyped DEF Words
  <2>3. toServer' \in Seq(FromClient)
    BY <1>7, <2>2, SayLeaves DEF on_CAP_LS
  <2> QED BY <1>1, <1>2, <1>3, <1>7, <2>1, <2>3 DEF on_CAP_LS
<1>8. CASE on_CAP_ACK
  <2>1. Bare("AUTHENTICATE PLAIN") \in FromClient
    BY LinesTyped DEF Words
  <2>2. toServer' \in Seq(FromClient)
    BY <1>8, <2>1, SayLeaves DEF on_CAP_ACK
  <2> QED BY <1>1, <1>2, <1>3, <1>8, <2>2 DEF on_CAP_ACK
<1>9. CASE on_CAP_NAK \/ on_SASL
  BY <1>1, <1>2, <1>3, <1>9, SayLeaves DEF on_CAP_NAK, on_SASL
<1>10. CASE on_CAP_DEL
  BY <1>1, <1>2, <1>3, <1>10 DEF on_CAP_DEL
<1>11. CASE on_AUTHENTICATE
  <2>1. Bare("AUTHENTICATE") \in FromClient
    BY LinesTyped DEF Words
  <2> QED BY <1>1, <1>2, <1>3, <1>11, <2>1, SayLeaves DEF on_AUTHENTICATE
<1>12. CASE on_433
  <2>1. Line("NICK", nick') \in FromClient
    BY <1>3, <1>12, LinesTyped DEF on_433
  <2> QED BY <1>1, <1>2, <1>3, <1>12, <2>1, SayLeaves DEF on_433
<1>13. CASE on_welcome
  BY <1>1, <1>2, <1>3, <1>13 DEF on_welcome
<1>14. CASE c_quote
  <2>1. Bare("LS") \in FromClient
    BY LinesTyped DEF Words
  <2> QED BY <1>1, <1>3, <1>14, <2>1, SayLeaves DEF c_quote
<1>15. CASE Server
  <2>1. ASSUME toServer' \in Seq(FromClient), toClient' \in Seq(FromServer),
               UNCHANGED <<phase, login, negVars, nick>>,
               server' \in [offer : SUBSET Caps, enabled : SUBSET Caps, nick : Nat,
                            negotiation : {"none", "open", "ended"},
                            auth : {"no", "acked", "asked", "answered"}]
        PROVE  RegTypes'
    BY <2>1 DEF RegTypes
  <2>2. server \in [offer : SUBSET Caps, enabled : SUBSET Caps, nick : Nat,
                    negotiation : {"none", "open", "ended"},
                    auth : {"no", "acked", "asked", "answered"}]
    BY DEF RegTypes
  <2>3. ASSUME NEW cmd, ServerTakes(cmd)
        PROVE  toServer' \in Seq(FromClient) /\ UNCHANGED <<phase, login, negVars, nick>>
    BY <2>3, ReadLeaves
  <2>4. CASE ServerLists
    <3>1. ServerTakes("LS")
      BY <2>4 DEF ServerLists
    <3>2. CASE UNCHANGED <<server, toClient>>
      BY <1>3, <2>1, <2>2, <2>3, <3>1, <3>2
    <3>3. ASSUME NEW offer \in SUBSET (IF phase = "up" THEN server.offer ELSE Caps),
                 NEW first \in SUBSET Caps, first \subseteq offer,
                 server' = [server EXCEPT !.offer = offer,
                              !.negotiation = IF phase = "up" THEN @ ELSE "open"],
                 \/ Answer(<<Line("LS *", first), Line("LS", offer \ first)>>)
                 \/ first = offer /\ Answer(<<Line("LS", offer)>>)
          PROVE  RegTypes'
      <4>1. offer \subseteq Caps
        BY <2>2
      <4>2. /\ Line("LS *", first) \in FromServer /\ Line("LS", offer \ first) \in FromServer
            /\ Line("LS", offer) \in FromServer
        BY <4>1, LinesTyped DEF Words
      <4>3. toClient' \in Seq(FromServer)
        BY <3>3, <4>2, AnswerLeaves
      <4> QED BY <2>1, <2>2, <2>3, <3>1, <3>3, <4>1, <4>3
    <3> QED BY <2>4, <3>2, <3>3 DEF ServerLists
  <2>5. CASE ServerGrants
    <3>1. ServerTakes("REQ")
      BY <2>5 DEF ServerGrants
    <3>2. CASE Answer(<<Bare("NAK")>>) /\ UNCHANGED server
      <4>1. Bare("NAK") \in FromServer
        BY LinesTyped DEF Words
      <4> QED BY <2>1, <2>2, <2>3, <3>1, <3>2, <4>1, AnswerLeaves
    <3>3. CASE /\ Asked \subseteq server.offer
               /\ server' = [server EXCEPT !.enabled = @ \cup Asked,
                    !.auth = IF "sasl" \in Asked /\ server.negotiation = "open" THEN "acked" ELSE @]
               /\ Answer(<<Line("ACK", Asked)>>)
      <4>1. Asked \in SUBSET Caps
        BY <2>2, <3>3
      <4>2. Line("ACK", Asked) \in FromServer
        BY <4>1, LinesTyped DEF Words
      <4> QED BY <2>1, <2>2, <2>3, <3>1, <3>3, <4>1, <4>2, AnswerLeaves
    <3> QED BY <2>5, <3>2, <3>3 DEF ServerGrants
  <2>6. CASE ServerLogsIn
    <3>1. Bare("+") \in FromServer /\ Bare("903") \in FromServer /\ Bare("904") \in FromServer
      BY LinesTyped DEF Words
    <3>2. PICK cmd : ServerTakes(cmd)
      BY <2>6 DEF ServerLogsIn
    <3>3. toClient' \in Seq(FromServer)
      BY <2>6, <3>1, AnswerLeaves DEF ServerLogsIn, Refusal
    <3> QED BY <2>1, <2>2, <2>3, <2>6, <3>2, <3>3 DEF ServerLogsIn
  <2>7. CASE ServerReadsNick
    <3>1. ServerTakes("NICK") /\ Bare("433") \in FromServer
      BY <2>7, LinesTyped DEF ServerReadsNick, Words
    <3>2. toClient' \in Seq(FromServer)
      BY <1>3, <2>7, <3>1, AnswerLeaves DEF ServerReadsNick
    <3>3. Asked \in Nat
      <4>1. Head(toServer) \in FromClient /\ Head(toServer).cmd = "NICK"
        BY <3>1, ReadLeaves
      <4>2. "NICK" \notin Words
        BY DEF Words
      <4>3. \A e \in FromServer : e.cmd \in Words
        BY DEF FromServer
      <4>4. Head(toServer) \in [cmd : {"NICK"}, what : Nat]
        BY <4>1, <4>2, <4>3 DEF FromClient
      <4> QED BY <4>4 DEF Asked
    <3>4. server' = server \/ server' = [server EXCEPT !.nick = Asked]
      BY <2>7 DEF ServerReadsNick, Asked
    <3> QED BY <2>1, <2>2, <2>3, <3>1, <3>2, <3>3, <3>4
  <2>8. CASE ServerReadsEnd
    BY <1>3, <2>1, <2>2, <2>3, <2>8 DEF ServerReadsEnd
  <2>9. CASE ServerWithdraws
    <3>1. PICK c \in server.offer :
            /\ server' = [server EXCEPT !.offer = @ \ {c}, !.enabled = @ \ {c}]
            /\ Answer(<<Line("DEL", {c})>>)
      BY <2>9 DEF ServerWithdraws
    <3>2. Line("DEL", {c}) \in FromServer
      BY <2>2, LinesTyped DEF Words
    <3>3. UNCHANGED <<phase, login, negVars, nick, toServer>>
      BY <2>9 DEF ServerWithdraws
    <3> QED BY <1>3, <2>1, <2>2, <3>1, <3>2, <3>3, AnswerLeaves
  <2>10. CASE ServerWelcomes
    <3>1. Bare("001") \in FromServer
      BY LinesTyped DEF Words
    <3> QED BY <1>3, <2>1, <2>2, <2>10, <3>1, AnswerLeaves DEF ServerWelcomes
  <2> QED BY <1>15, <2>4, <2>5, <2>6, <2>7, <2>8, <2>9, <2>10 DEF Server
<1>16. CASE UNCHANGED regVars
  BY <1>1, <1>3, <1>16 DEF regVars
<1> QED BY <1>4, <1>5, <1>6, <1>7, <1>8, <1>9, <1>10, <1>11, <1>12, <1>13, <1>14,
           <1>15, <1>16 DEF RegNext

(* Our turn: we pass the word on.                                          *)
LEMMA WePass ==
    ASSUME RegTypes, phase = "registering", phase' = "registering", server' = server,
           server.negotiation = "open", ~capDone', Only(toServer, Nicks),
           NEW e \in FromClient, Say(e), Only(toClient', Aside),
           \/ e.cmd = "REQ" /\ server.auth = "no"
           \/ e.cmd \in {"AUTHENTICATE PLAIN", "AUTHENTICATE"}
    PROVE  StageOK'
<1>1. \A X : e.cmd \in X => One(toServer', X, Nicks)
  BY Joined DEF Say, RegTypes
<1>2. ServersTurn(toServer', server')
  BY <1>1 DEF ServersTurn
<1> QED BY <1>2 DEF StageOK, Stage, Open

(* ... or end the negotiation.                                             *)
LEMMA WeEnd ==
    ASSUME RegTypes, phase = "registering", phase' = "registering", server' = server,
           server.negotiation = "open", ~capDone, Only(toServer, Nicks), cap_end,
           server.auth \in {"no", "answered"}, Only(toClient', Rest)
    PROVE  StageOK'
<1>1. capDone' /\ toServer' = Append(toServer, Bare("END"))
  BY CapEndSays
<1>2. Bare("END") \in FromClient /\ Bare("END").cmd = "END"
  BY LinesTyped DEF Words
<1>3. One(toServer', {"END"}, Nicks)
  BY <1>1, <1>2, Joined DEF RegTypes
<1> QED BY <1>1, <1>3 DEF StageOK, Stage, Over

(* A line that moves no negotiation on is read.                            *)
LEMMA AsideTaken ==
    ASSUME RegTypes, StageOK, NEW cmd \in Aside, Take(cmd), UNCHANGED <<phase, capDone>>,
           \/ toServer' = toServer
           \/ phase = "registering" /\ \E n \in Nat : Say(Line("NICK", n))
    PROVE  StageOK'
<1>1. /\ toClient # <<>> /\ toClient' = Tail(toClient) /\ toClient' \in Seq(FromServer)
      /\ Head(toClient).cmd = cmd /\ server' = server /\ phase # "down"
  BY TakeLeaves
<1>2. CASE phase = "registering"
  <2>1. Begun(toServer, toClient', server, capDone)
    BY <1>1, <1>2, WeRead DEF StageOK
  <2>2. CASE toServer' = toServer
    BY <1>1, <1>2, <2>1, <2>2 DEF StageOK, Stage, Begun
  <2>3. CASE \E n \in Nat : Say(Line("NICK", n))
    <3>1. PICK n \in Nat : toServer' = Append(toServer, Line("NICK", n))
      BY <2>3 DEF Say
    <3>2. Line("NICK", n) \in FromClient /\ Line("NICK", n).cmd = "NICK"
      BY LinesTyped
    <3>3. Begun(toServer', toClient', server, capDone)
      BY <1>1, <2>1, <3>1, <3>2, NickJoins DEF RegTypes
    <3> QED BY <1>1, <1>2, <3>3 DEF StageOK, Stage, Begun
  <2> QED BY <2>2, <2>3
<1>3. CASE phase = "up"
  <2>1. Only(toClient, Rest \cup {"LS", "ACK", "NAK", "001"}) =>
          Only(Tail(toClient), Rest \cup {"LS", "ACK", "NAK", "001"})
    BY <1>1, Left DEF RegTypes
  <2> QED BY <1>1, <1>3, <2>1 DEF StageOK, RegSettled
<1> QED BY <1>1, <1>2, <1>3 DEF RegTypes

(* Once up, lines are read and asked as the user likes.                    *)
LEMMA UpTakes ==
    ASSUME RegTypes, StageOK, phase = "up", NEW cmd, Take(cmd),
           phase' = "up", capDone' = capDone,
           \/ toServer' = toServer
           \/ \E w \in SUBSET Caps : Say(Line("REQ", w))
    PROVE  cmd # "+" /\ StageOK'
<1> DEFINE Far == Rest \cup {"LS", "ACK", "NAK", "001"}
           Near == Nicks \cup {"LS", "REQ"}
<1>1. /\ toClient # <<>> /\ toClient' = Tail(toClient)
      /\ Head(toClient).cmd = cmd /\ server' = server
  BY TakeLeaves
<1>2. Only(toClient, Far) => cmd \in Far /\ Only(toClient', Far)
  BY <1>1, Left DEF RegTypes
<1>3. Only(toServer, Near) => Only(toServer', Near)
  <2>1. ASSUME NEW w \in SUBSET Caps, Say(Line("REQ", w))
        PROVE  Only(toServer, Near) => Only(toServer', Near)
    <3>1. Line("REQ", w) \in FromClient /\ Line("REQ", w).cmd = "REQ"
      BY LinesTyped DEF Words
    <3> QED BY <2>1, <3>1, Joined DEF Say, RegTypes
  <2> QED BY <2>1
<1>4. "+" \notin Far
  BY DEF Rest, Aside, Verdicts
<1> HIDE DEF Far, Near
<1>5. /\ capDone /\ server.auth \in {"no", "answered"} /\ server.negotiation # "open"
      /\ Only(toServer, Near) /\ Only(toClient, Far)
  BY DEF StageOK, RegSettled, Far, Near
<1>6. RegSettled(toServer', toClient', server', capDone')
  BY <1>1, <1>2, <1>3, <1>5 DEF RegSettled, Far, Near
<1> QED BY <1>2, <1>4, <1>5, <1>6 DEF StageOK

(* The stage, as we act.                                                   *)
LEMMA OurStage ==
    ASSUME RegTypes, StageOK, RegNext, ~Server PROVE StageOK'
<1>0. phase \in {"down", "registering", "up"}
  BY DEF RegTypes
<1>1. CASE _register
  BY <1>1 DEF _register, StageOK, Unconnected, Stage, Fresh
<1>2. CASE _reset
  BY <1>2 DEF _reset, StageOK, Unconnected, negVars
<1>3. CASE on_CAP_LS_more \/ on_CAP_DEL
  BY <1>3, AsideTaken DEF on_CAP_LS_more, on_CAP_DEL, Aside
<1>4. CASE on_433
  <2>1. nick' \in Nat /\ Take("433") /\ phase = "registering" /\ Say(Line("NICK", nick'))
        /\ UNCHANGED <<phase, capDone>> /\ "433" \in Aside
    BY <1>4 DEF on_433, RegTypes, Aside
  <2> QED BY <2>1, AsideTaken
<1>5. ASSUME NEW cmd, Take(cmd), phase = "registering"
      PROVE  /\ cmd \in {"LS", "NAK", "ACK", "+"} =>
                  server.negotiation = "open" /\ ~capDone /\ Still(toServer, toClient')
             /\ cmd \in {"LS", "NAK"} => server.auth = "no"
             /\ cmd = "ACK" => server.auth = "no" \/ (server.auth = "acked" /\ "sasl" \in Given)
             /\ cmd \in {"903", "904"} =>
                  \/ Over(toServer, toClient', server, capDone)
                  \/ /\ server.negotiation = "open" /\ ~capDone /\ server.auth = "answered"
                     /\ Only(toServer, Nicks) /\ Only(toClient', Rest)
             /\ cmd = "001" =>
                  /\ server.negotiation # "open" /\ server.auth \in {"no", "answered"}
                  /\ Only(toServer, Nicks) /\ Only(toClient', Welcoming(Rest))
             /\ toClient # <<>> /\ server' = server /\ Given \subseteq Caps
  BY <1>5, TakeLeaves, WeRead DEF StageOK, Given
<1>6. Still(toServer, toClient') => /\ Only(toServer, Nicks) /\ Only(toClient', Aside)
                                    /\ Only(toClient', Rest)
  BY DEF Still, Only, Rest
<1>7. CASE on_CAP_LS
  <2> DEFINE want == offered' \ (IF login THEN {} ELSE {"sasl"})
  <2>1. Take("LS") /\ phase' = phase
    BY <1>7 DEF on_CAP_LS
  <2>2. Line("REQ", want) \in FromClient /\ Line("REQ", want).cmd = "REQ" /\ want \in SUBSET Caps
    <3>1. offered' \subseteq Caps
      BY <1>7, <2>1, TakeLeaves DEF on_CAP_LS, RegTypes
    <3> QED BY <3>1, LinesTyped DEF Words
  <2>3. (Say(Line("REQ", want)) /\ UNCHANGED capDone) \/ cap_end
    BY <1>7 DEF on_CAP_LS
  <2> HIDE DEF want
  <2>4. CASE phase = "registering"
    <3>1. /\ server.negotiation = "open" /\ ~capDone /\ server.auth = "no" /\ server' = server
          /\ Still(toServer, toClient')
      BY <1>5, <2>1, <2>4
    <3>2. CASE Say(Line("REQ", want)) /\ UNCHANGED capDone
      BY <1>6, <2>1, <2>2, <2>4, <3>1, <3>2, WePass
    <3>3. CASE cap_end
      BY <1>6, <2>1, <2>4, <3>1, <3>3, WeEnd
    <3> QED BY <2>3, <3>2, <3>3
  <2>5. CASE phase = "up"
    <3>1. CASE Say(Line("REQ", want)) /\ UNCHANGED capDone
      BY <2>1, <2>2, <2>5, <3>1, UpTakes
    <3>2. CASE cap_end
      BY <2>1, <2>5, <3>2, UpTakes, CapEndSays
    <3> QED BY <2>3, <3>1, <3>2
  <2> QED BY <1>0, <2>1, <2>4, <2>5, TakeLeaves
<1>8. CASE on_CAP_ACK
  <2> DEFINE plain == Bare("AUTHENTICATE PLAIN")
  <2>1. Take("ACK") /\ phase' = phase /\ caps' = caps \cup Given
    BY <1>8 DEF on_CAP_ACK
  <2>2. plain \in FromClient /\ plain.cmd = "AUTHENTICATE PLAIN"
    BY LinesTyped DEF Words
  <2>3. \/ "sasl" \in caps' /\ phase = "registering" /\ Say(plain) /\ UNCHANGED capDone
        \/ ~("sasl" \in caps' /\ phase = "registering" /\ ~capDone) /\ cap_end
    BY <1>8 DEF on_CAP_ACK
  <2> HIDE DEF plain
  <2>4. CASE phase = "registering"
    <3>1. /\ server.negotiation = "open" /\ ~capDone /\ server' = server
          /\ Still(toServer, toClient')
          /\ server.auth = "no" \/ (server.auth = "acked" /\ "sasl" \in Given)
      BY <1>5, <2>1, <2>4
    <3>2. CASE Say(plain) /\ UNCHANGED capDone
      BY <1>6, <2>1, <2>2, <2>4, <3>1, <3>2, WePass
    <3>3. CASE "sasl" \notin caps' /\ cap_end
      BY <1>6, <2>1, <2>4, <3>1, <3>3, WeEnd
    <3> QED BY <2>3, <2>4, <3>1, <3>2, <3>3
  <2>5. CASE phase = "up"
    BY <2>1, <2>3, <2>5, UpTakes, CapEndSays
  <2> QED BY <1>0, <2>1, <2>4, <2>5, TakeLeaves
<1>9. CASE on_CAP_NAK
  <2>1. Take("NAK") /\ phase' = phase /\ cap_end
    BY <1>9 DEF on_CAP_NAK
  <2>2. CASE phase = "registering"
    BY <1>5, <1>6, <2>1, <2>2, WeEnd
  <2>3. CASE phase = "up"
    BY <2>1, <2>3, UpTakes, CapEndSays
  <2> QED BY <1>0, <2>1, <2>2, <2>3, TakeLeaves
<1>10. CASE on_AUTHENTICATE
  <2> DEFINE blob == Bare("AUTHENTICATE")
  <2>1. Take("+") /\ phase' = phase /\ Say(blob) /\ UNCHANGED capDone
    BY <1>10 DEF on_AUTHENTICATE
  <2>2. blob \in FromClient /\ blob.cmd = "AUTHENTICATE"
    BY LinesTyped DEF Words
  <2> HIDE DEF blob
  <2>3. CASE phase = "registering"
    BY <1>5, <1>6, <2>1, <2>2, <2>3, WePass
  <2>4. CASE phase = "up"
    <3>1. Only(toClient, Rest \cup {"LS", "ACK", "NAK", "001"})
      BY <2>4 DEF StageOK, RegSettled
    <3>2. "+" \in Rest \cup {"LS", "ACK", "NAK", "001"}
      BY <2>1, <3>1, TakeKeeps
    <3> QED BY <3>2 DEF Rest, Aside, Verdicts
  <2> QED BY <1>0, <2>1, <2>3, <2>4, TakeLeaves
<1>11. CASE on_SASL
  <2>1. PICK cmd \in {"903", "904"} : Take(cmd)
    BY <1>11 DEF on_SASL
  <2>2. phase' = phase /\ cap_end
    BY <1>11 DEF on_SASL
  <2>3. CASE phase = "registering"
    <3>1. CASE Over(toServer, toClient', server, capDone)
      <4>1. capDone
        BY <3>1 DEF Over
      <4>2. UNCHANGED <<capDone, toServer>> /\ server' = server
        BY <1>5, <2>1, <2>2, <2>3, <4>1, CapEndSays
      <4> QED BY <2>2, <2>3, <3>1, <4>2 DEF StageOK, Stage
    <3>2. CASE /\ server.negotiation = "open" /\ ~capDone /\ server.auth = "answered"
               /\ Only(toServer, Nicks) /\ Only(toClient', Rest)
      BY <1>5, <2>1, <2>2, <2>3, <3>2, WeEnd
    <3> QED BY <1>5, <2>1, <2>3, <3>1, <3>2
  <2>4. CASE phase = "up"
    BY <2>1, <2>2, <2>4, UpTakes, CapEndSays
  <2> QED BY <1>0, <2>1, <2>3, <2>4, TakeLeaves
<1>12. CASE on_welcome
  <2>1. Take("001") /\ phase' = "up" /\ capDone' = TRUE /\ UNCHANGED toServer
    BY <1>12 DEF on_welcome
  <2>2. CASE phase = "registering"
    <3>1. Only(toServer, Nicks) => Only(toServer, Nicks \cup {"LS", "REQ"})
      BY DEF Only
    <3>2. Only(toClient', Welcoming(Rest)) =>
            Only(toClient', Rest \cup {"LS", "ACK", "NAK", "001"})
      BY DEF Only, Welcoming
    <3> QED BY <1>5, <2>1, <2>2, <3>1, <3>2 DEF StageOK, RegSettled
  <2>3. CASE phase = "up"
    <3>1. Only(toClient, Rest \cup {"LS", "ACK", "NAK", "001"}) =>
            Only(toClient', Rest \cup {"LS", "ACK", "NAK", "001"})
      BY <2>1, TakeKeeps
    <3> QED BY <2>1, <2>3, <3>1, TakeLeaves DEF StageOK, RegSettled
  <2> QED BY <1>0, <2>1, <2>2, <2>3, TakeLeaves
<1>13. CASE c_quote
  <2>1. Bare("LS") \in FromClient /\ Bare("LS").cmd = "LS"
    BY LinesTyped DEF Words
  <2>2. Only(toServer, Nicks \cup {"LS", "REQ"}) => Only(toServer', Nicks \cup {"LS", "REQ"})
    BY <1>13, <2>1, Joined DEF c_quote, Say, RegTypes
  <2> QED BY <1>13, <2>2 DEF c_quote, StageOK, RegSettled
<1> QED BY <1>1, <1>2, <1>3, <1>4, <1>7, <1>8, <1>9, <1>10, <1>11, <1>12, <1>13 DEF RegNext

(* The stage, as the server answers.                                       *)
LEMMA ServersStage ==
    ASSUME RegTypes, StageOK, Server PROVE StageOK'
<1> DEFINE Far == Rest \cup {"LS", "ACK", "NAK", "001"}
           Near == Nicks \cup {"LS", "REQ"}
<1>0. /\ phase \in {"down", "registering", "up"} /\ phase' = phase /\ capDone' = capDone
      /\ toClient \in Seq(FromServer) /\ toServer \in Seq(FromClient)
  <2>1. CASE ServerWithdraws \/ ServerWelcomes
    BY <2>1 DEF ServerWithdraws, ServerWelcomes, RegTypes
  <2>2. CASE \E cmd : ServerTakes(cmd)
    BY <2>2, ReadLeaves DEF RegTypes
  <2>3. ServerLists \/ ServerGrants \/ ServerLogsIn \/ ServerReadsNick \/ ServerReadsEnd
          => \E cmd : ServerTakes(cmd)
    BY DEF ServerLists, ServerGrants, ServerLogsIn, ServerReadsNick, ServerReadsEnd
  <2> QED BY <2>1, <2>2, <2>3 DEF Server
<1>1. ASSUME NEW cmd, ServerTakes(cmd), phase = "registering"
      PROVE  /\ cmd = "NICK" => Begun(toServer', toClient, server, capDone)
             /\ cmd = "LS" => Fresh(toServer, toClient, server, capDone)
             /\ cmd \in {"REQ", "AUTHENTICATE PLAIN", "AUTHENTICATE"} =>
                  /\ server.negotiation = "open" /\ ~capDone
                  /\ Only(toServer', Nicks) /\ Only(toClient, Aside)
             /\ cmd = "REQ" => server.auth = "no"
             /\ cmd = "END" => /\ capDone /\ server.auth \in {"no", "answered"}
                               /\ Only(toServer', Nicks) /\ Only(toClient, Rest)
  <2>1. Stage(toServer, toClient, server, capDone)
    BY <1>1 DEF StageOK
  <2>2. /\ toServer # <<>> /\ toServer' = Tail(toServer) /\ Head(toServer).cmd = cmd
    BY <1>1, ReadLeaves
  <2> QED BY <2>1, <2>2, ServerReads DEF Still
<1>2. ASSUME NEW cmd, ServerTakes(cmd), phase = "up"
      PROVE  /\ cmd \in {"NICK", "LS", "REQ"} /\ Only(toServer', Near) /\ Only(toClient, Far)
             /\ capDone /\ server.auth \in {"no", "answered"} /\ server.negotiation # "open"
  <2>1. Only(toServer, Near) => cmd \in Near /\ Only(toServer', Near)
    BY <1>2, ReadKeeps
  <2>2. cmd \in Near => cmd \in {"NICK", "LS", "REQ"}
    BY DEF Nicks
  <2> QED BY <1>2, <2>1, <2>2 DEF StageOK, RegSettled
<1>3. ASSUME NEW cmd, ServerTakes(cmd) PROVE phase # "down"
  BY <1>3, ReadLeaves DEF StageOK, Unconnected
<1>4. ASSUME Only(toServer', Near), Only(toClient', Far), phase = "up", capDone,
             server'.auth \in {"no", "answered"}, server'.negotiation # "open"
      PROVE  StageOK'
  BY <1>0, <1>4 DEF StageOK, RegSettled
<1>5. ASSUME NEW e \in FromServer, Append(toClient, e) = toClient', e.cmd \in Far
      PROVE  Only(toClient, Far) => Only(toClient', Far)
  BY <1>0, <1>5, Joined
<1>6. ASSUME phase = "registering", Begun(toServer', toClient', server', capDone)
      PROVE  StageOK'
  BY <1>0, <1>6 DEF StageOK, Stage, Begun
<1>7. {"433", "DEL", "LS *", "LS", "ACK", "NAK", "001"} \subseteq Far
  BY DEF Rest, Aside
<1> HIDE DEF Far, Near
<1>8. CASE ServerLists
  <2>1. ServerTakes("LS")
    BY <1>8 DEF ServerLists
  <2>2. CASE phase = "registering"
    <3>1. /\ toServer' = <<Line("NICK", 0)>> /\ toClient = <<>> /\ server = NewServer /\ ~capDone
      <4>1. Fresh(toServer, toClient, server, capDone) /\ toServer' = Tail(toServer)
        BY <1>1, <2>1, <2>2, ReadLeaves
      <4>2. \A a, b : Tail(<<a, b>>) = <<b>>
        OBVIOUS
      <4> QED BY <4>1, <4>2 DEF Fresh
    <3>2. Only(toServer', Nicks)
      BY <3>1, LinesTyped DEF Only, Nicks
    <3>3. CASE UNCHANGED <<server, toClient>>
      BY <1>6, <2>2, <3>1, <3>2, <3>3 DEF Begun, Unheeded, Only, NewServer
    <3>4. ASSUME NEW offer \in SUBSET Caps, NEW first \in SUBSET Caps,
                 server' = [server EXCEPT !.offer = offer, !.negotiation = "open"],
                 \/ Answer(<<Line("LS *", first), Line("LS", offer \ first)>>)
                 \/ Answer(<<Line("LS", offer)>>)
          PROVE  StageOK'
      <4> DEFINE more == Line("LS *", first)
                 most == Line("LS", offer \ first)
                 all == Line("LS", offer)
      <4>1. /\ more \in FromServer /\ most \in FromServer /\ all \in FromServer
            /\ more.cmd = "LS *" /\ most.cmd = "LS" /\ all.cmd = "LS"
        BY LinesTyped DEF Words
      <4> HIDE DEF more, most, all
      <4>2. server'.negotiation = "open" /\ server'.auth = "no"
        BY <3>1, <3>4 DEF NewServer
      <4>3. Only(toClient, Aside)
        BY <3>1 DEF Only
      <4>4. One(toClient', {"LS", "NAK"}, Aside)
        <5>1. CASE toClient' = Append(toClient, all)
          BY <1>0, <4>1, <4>3, <5>1, Joined
        <5>2. CASE toClient' = Append(Append(toClient, more), most)
          <6>1. Append(toClient, more) \in Seq(FromServer) /\ Only(Append(toClient, more), Aside)
            <7>1. "LS *" \in Aside
              BY DEF Aside
            <7> QED BY <1>0, <4>1, <4>3, <7>1, Joined
          <6> QED BY <4>1, <5>2, <6>1, Joined
        <5> QED BY <3>4, <4>1, <5>1, <5>2, AnswerLeaves DEF more, most, all
      <4> QED BY <1>6, <2>2, <3>1, <3>2, <4>2, <4>4 DEF Begun, Open, OurTurn
    <3> QED BY <2>2, <1>8, <3>3, <3>4 DEF ServerLists
  <2>3. CASE phase = "up"
    <3>1. CASE UNCHANGED <<server, toClient>>
      BY <1>2, <1>4, <2>1, <2>3, <3>1
    <3>2. ASSUME NEW offer \in SUBSET server.offer, NEW first \in SUBSET Caps,
                 server' = [server EXCEPT !.offer = offer, !.negotiation = @],
                 \/ Answer(<<Line("LS *", first), Line("LS", offer \ first)>>)
                 \/ Answer(<<Line("LS", offer)>>)
          PROVE  StageOK'
      <4> DEFINE more == Line("LS *", first)
                 most == Line("LS", offer \ first)
                 all == Line("LS", offer)
      <4>0. offer \subseteq Caps
        BY <3>2 DEF RegTypes
      <4>1. /\ more \in FromServer /\ most \in FromServer /\ all \in FromServer
            /\ more.cmd \in Far /\ most.cmd \in Far /\ all.cmd \in Far
        <5>1. {"LS", "LS *"} \subseteq Words
          BY DEF Words
        <5>2. /\ more.cmd = "LS *" /\ most.cmd = "LS" /\ all.cmd = "LS"
          BY LinesTyped
        <5> QED BY <1>7, <4>0, <5>1, <5>2, LinesTyped
      <4> HIDE DEF more, most, all
      <4>2. server'.negotiation = server.negotiation /\ server'.auth = server.auth
        BY <3>2 DEF RegTypes
      <4>3. Only(toClient', Far)
        <5>1. CASE toClient' = Append(toClient, all)
          BY <1>2, <1>5, <2>1, <2>3, <4>1, <5>1
        <5>2. CASE toClient' = Append(Append(toClient, more), most)
          <6>1. Append(toClient, more) \in Seq(FromServer) /\ Only(Append(toClient, more), Far)
            BY <1>0, <1>2, <2>1, <2>3, <4>1, Joined
          <6> QED BY <4>1, <5>2, <6>1, Joined
        <5> QED BY <3>2, <4>1, <5>1, <5>2, AnswerLeaves DEF more, most, all
      <4> QED BY <1>2, <1>4, <2>1, <2>3, <4>2, <4>3
    <3> QED BY <2>3, <1>8, <3>1, <3>2 DEF ServerLists
  <2> QED BY <1>0, <1>3, <2>1, <2>2, <2>3
<1>9. CASE ServerGrants
  <2>1. ServerTakes("REQ")
    BY <1>9 DEF ServerGrants
  <2>2. CASE Answer(<<Bare("NAK")>>) /\ UNCHANGED server
    <3>1. Bare("NAK") \in FromServer /\ Bare("NAK").cmd = "NAK"
      BY LinesTyped DEF Words
    <3>2. toClient' = Append(toClient, Bare("NAK"))
      BY <2>2, <3>1, AnswerLeaves
    <3>3. CASE phase = "registering"
      <4>1. Only(toClient, Aside) => One(toClient', {"LS", "NAK"}, Aside)
        BY <1>0, <3>1, <3>2, Joined
      <4> QED BY <1>1, <1>6, <2>1, <2>2, <3>3, <4>1 DEF Begun, Open, OurTurn
    <3>4. CASE phase = "up"
      BY <1>2, <1>4, <1>5, <1>7, <2>1, <2>2, <3>1, <3>2, <3>4
    <3> QED BY <1>0, <1>3, <2>1, <3>3, <3>4
  <2>3. CASE /\ Asked \subseteq server.offer
             /\ server' = [server EXCEPT !.enabled = @ \cup Asked,
                  !.auth = IF "sasl" \in Asked /\ server.negotiation = "open" THEN "acked" ELSE @]
             /\ Answer(<<Line("ACK", Asked)>>)
    <3> DEFINE e == Line("ACK", Asked)
    <3>1. Asked \in SUBSET Caps
      BY <2>3 DEF RegTypes
    <3>2. e \in FromServer /\ e.cmd = "ACK" /\ e.what = Asked
      BY <3>1, LinesTyped DEF Words
    <3>3. toClient' = Append(toClient, e)
      BY <2>3, <3>2, AnswerLeaves
    <3> HIDE DEF e
    <3>4. /\ server'.negotiation = server.negotiation
          /\ server'.auth = IF "sasl" \in Asked /\ server.negotiation = "open"
                              THEN "acked" ELSE server.auth
      BY <2>3 DEF RegTypes
    <3>5. CASE phase = "registering"
      <4>1. Only(toClient, Aside) /\ server.auth = "no" /\ server.negotiation = "open"
            /\ ~capDone /\ Only(toServer', Nicks)
        BY <1>1, <2>1, <3>5
      <4>2. One(toClient', {"ACK"}, Aside)
        BY <1>0, <3>2, <3>3, <4>1, Joined
      <4>3. \A i \in DOMAIN toClient' :
               toClient'[i] = e \/ (i \in DOMAIN toClient /\ toClient'[i] = toClient[i])
        BY <1>0, <3>3
      <4>4. \A i \in DOMAIN toClient' : toClient'[i].cmd = "ACK" => toClient'[i] = e
        BY <4>1, <4>3 DEF Only, Aside
      <4>5. OurTurn(toClient', server')
        BY <3>2, <3>4, <4>1, <4>2, <4>4 DEF OurTurn
      <4> QED BY <1>6, <3>4, <3>5, <4>1, <4>5 DEF Begun, Open
    <3>6. CASE phase = "up"
      BY <1>2, <1>4, <1>5, <1>7, <2>1, <3>2, <3>3, <3>4, <3>6
    <3> QED BY <1>0, <1>3, <2>1, <3>5, <3>6
  <2> QED BY <1>9, <2>2, <2>3 DEF ServerGrants
<1>10. CASE ServerLogsIn
  <2>1. PICK cmd \in {"AUTHENTICATE PLAIN", "AUTHENTICATE"} : ServerTakes(cmd)
    BY <1>10 DEF ServerLogsIn
  <2>2. phase = "registering"
    BY <1>0, <1>2, <1>3, <2>1
  <2>3. /\ server.negotiation = "open" /\ ~capDone
        /\ Only(toServer', Nicks) /\ Only(toClient, Aside) /\ Only(toClient, Rest)
    <3>1. Only(toClient, Aside) => Only(toClient, Rest)
      BY DEF Only, Rest
    <3> QED BY <1>1, <2>1, <2>2, <3>1
  <2>4. /\ Bare("+") \in FromServer /\ Bare("903") \in FromServer /\ Bare("904") \in FromServer
        /\ Bare("+").cmd = "+" /\ Bare("903").cmd \in Verdicts /\ Bare("904").cmd \in Verdicts
    BY LinesTyped DEF Words, Verdicts
  <2>5. CASE Answer(<<Bare("+")>>) /\ server' = [server EXCEPT !.auth = "asked"]
    <3>1. One(toClient', {"+"}, Aside)
      <4>1. toClient' = Append(toClient, Bare("+"))
        BY <2>4, <2>5, AnswerLeaves
      <4> QED BY <1>0, <2>3, <2>4, <4>1, Joined
    <3> QED BY <1>6, <2>2, <2>3, <2>5, <3>1 DEF Begun, Open, OurTurn, RegTypes
  <2>6. ASSUME NEW r \in Refusal \cup {<<Bare("903")>>}, Answer(r),
               server' = [server EXCEPT !.auth = "answered"]
        PROVE  StageOK'
    <3>1. One(toClient', Verdicts, Rest)
      <4>1. ASSUME NEW e \in {Bare("903"), Bare("904")}, r = <<e>>
            PROVE  One(toClient', Verdicts, Rest)
        <5>1. toClient' = Append(toClient, e)
          BY <2>4, <2>6, <4>1, AnswerLeaves
        <5> QED BY <1>0, <2>3, <2>4, <4>1, <5>1, Joined
      <4>2. CASE r = <<Bare("904"), Bare("904")>>
        <5>1. toClient' = Append(Append(toClient, Bare("904")), Bare("904"))
          BY <2>4, <2>6, <4>2, AnswerLeaves
        <5>2. Append(toClient, Bare("904")) \in Seq(FromServer)
              /\ Only(Append(toClient, Bare("904")), Rest)
          <6>1. Bare("904").cmd \in Rest
            BY <2>4 DEF Rest
          <6> QED BY <1>0, <2>3, <2>4, <6>1, Joined
        <5> QED BY <2>4, <5>1, <5>2, Joined
      <4> QED BY <4>1, <4>2 DEF Refusal
    <3>2. server'.negotiation = "open" /\ server'.auth = "answered"
      BY <2>3, <2>6 DEF RegTypes
    <3> QED BY <1>6, <2>2, <2>3, <3>1, <3>2 DEF Begun, Open, OurTurn
  <2> QED BY <1>10, <2>5, <2>6 DEF ServerLogsIn
<1>11. CASE ServerReadsNick
  <2>1. ServerTakes("NICK")
    BY <1>11 DEF ServerReadsNick
  <2>2. CASE server' = [server EXCEPT !.nick = Head(toServer).what] /\ UNCHANGED toClient
    <3>1. server'.negotiation = server.negotiation /\ server'.auth = server.auth
      BY <2>2 DEF RegTypes
    <3>2. CASE phase = "registering"
      BY <1>1, <1>6, <2>1, <2>2, <3>1, <3>2 DEF Begun, Unheeded, Open, OurTurn, ServersTurn, Over
    <3>3. CASE phase = "up"
      BY <1>2, <1>4, <2>1, <2>2, <3>1, <3>3
    <3> QED BY <1>0, <1>3, <2>1, <3>2, <3>3
  <2>3. CASE Answer(<<Bare("433")>>) /\ UNCHANGED server
    <3>1. Bare("433") \in FromServer /\ Bare("433").cmd = "433"
      BY LinesTyped DEF Words
    <3>2. toClient' = Append(toClient, Bare("433"))
      BY <2>3, <3>1, AnswerLeaves
    <3>3. CASE phase = "registering"
      BY <1>0, <1>1, <1>6, <2>1, <2>3, <3>1, <3>2, <3>3, AsideJoins, ReadLeaves DEF Aside
    <3>4. CASE phase = "up"
      BY <1>2, <1>4, <1>5, <1>7, <2>1, <2>3, <3>1, <3>2, <3>4
    <3> QED BY <1>0, <1>3, <2>1, <3>3, <3>4
  <2> QED BY <1>11, <2>2, <2>3 DEF ServerReadsNick
<1>12. CASE ServerReadsEnd
  <2>1. ServerTakes("END") /\ server' = [server EXCEPT !.negotiation = "ended"] /\ UNCHANGED toClient
    BY <1>12 DEF ServerReadsEnd
  <2>2. phase = "registering"
    BY <1>0, <1>2, <1>3, <2>1
  <2>3. server'.negotiation = "ended" /\ server'.auth = server.auth
    BY <2>1 DEF RegTypes
  <2>4. Only(toClient, Rest) => Only(toClient, Welcoming(Rest))
    BY DEF Only, Welcoming
  <2> QED BY <1>1, <1>6, <2>1, <2>2, <2>3, <2>4 DEF Begun, Over
<1>13. CASE ServerWithdraws
  <2>1. PICK c \in server.offer :
          /\ server' = [server EXCEPT !.offer = @ \ {c}, !.enabled = @ \ {c}]
          /\ Answer(<<Line("DEL", {c})>>)
    BY <1>13 DEF ServerWithdraws
  <2>2. Line("DEL", {c}) \in FromServer /\ Line("DEL", {c}).cmd = "DEL"
    <3>1. {c} \in SUBSET Caps
      BY DEF RegTypes
    <3> QED BY <3>1, LinesTyped DEF Words
  <2>3. toClient' = Append(toClient, Line("DEL", {c})) /\ UNCHANGED toServer
    BY <1>13, <2>1, <2>2, AnswerLeaves DEF ServerWithdraws
  <2>4. server'.negotiation = server.negotiation /\ server'.auth = server.auth
    BY <2>1 DEF RegTypes
  <2>5. server # NewServer
    BY DEF NewServer
  <2>6. CASE phase = "registering"
    <3>1. Begun(toServer, toClient, server, capDone)
      BY <2>5, <2>6 DEF StageOK, Stage, Begun, Fresh
    <3>2. Begun(toServer, toClient', server, capDone)
      BY <1>0, <2>2, <2>3, <3>1, AsideJoins DEF Aside
    <3> QED BY <1>6, <2>3, <2>4, <2>6, <3>2
            DEF Begun, Unheeded, Open, OurTurn, ServersTurn, Over
  <2>7. CASE phase = "up"
    <3>1. Only(toServer, Near) /\ Only(toClient, Far) /\ capDone
          /\ server.auth \in {"no", "answered"} /\ server.negotiation # "open"
      BY <2>7 DEF StageOK, RegSettled, Near, Far
    <3> QED BY <1>4, <1>5, <1>7, <2>2, <2>3, <2>4, <2>7, <3>1
  <2> QED BY <1>0, <2>5, <2>6, <2>7 DEF StageOK, Unconnected
<1>14. CASE ServerWelcomes
  <2>1. /\ phase = "registering" /\ server.nick <= MaxNick /\ server.negotiation # "open"
        /\ Answer(<<Bare("001")>>) /\ UNCHANGED <<toServer, server>>
    BY <1>14 DEF ServerWelcomes
  <2>2. Bare("001") \in FromServer /\ Bare("001").cmd = "001"
    BY LinesTyped DEF Words
  <2>3. toClient' = Append(toClient, Bare("001"))
    BY <2>1, <2>2, AnswerLeaves
  <2>4. ~Fresh(toServer, toClient, server, capDone)
    BY <2>1, RegistrationAssumption DEF Fresh, NewServer
  <2>5. \A S : Only(toClient, Welcoming(S)) => Only(toClient', Welcoming(S))
    <3>1. \A S : "001" \in Welcoming(S)
      BY DEF Welcoming
    <3> QED BY <1>0, <2>2, <2>3, <3>1, Joined
  <2>6. \/ Unheeded(toServer, toClient, server, capDone)
        \/ Over(toServer, toClient, server, capDone)
    BY <2>1, <2>4 DEF StageOK, Stage, Open
  <2> QED BY <1>6, <2>1, <2>5, <2>6 DEF Begun, Unheeded, Over
<1> QED BY <1>8, <1>9, <1>10, <1>11, <1>12, <1>13, <1>14 DEF Server

(* CAP END is said once a connection.                                      *)
LEMMA EndsStep ==
    ASSUME RegTypes, StageOK, EndsCounted, [RegNext]_regVars PROVE EndsCounted'
<1>1. ASSUME cap_end PROVE EndsCounted'
  BY <1>1, CapEndSays DEF EndsCounted
<1>2. UNCHANGED <<capDone, ends>> => EndsCounted'
  BY DEF EndsCounted
<1>3. CASE on_CAP_LS \/ on_CAP_ACK \/ on_CAP_NAK \/ on_SASL
  BY <1>1, <1>2, <1>3 DEF on_CAP_LS, on_CAP_ACK, on_CAP_NAK, on_SASL
<1>4. CASE _register \/ on_CAP_LS_more \/ on_CAP_DEL \/ on_AUTHENTICATE \/ on_433 \/ c_quote
  BY <1>2, <1>4 DEF _register, on_CAP_LS_more, on_CAP_DEL, on_AUTHENTICATE, on_433, c_quote
<1>5. CASE on_welcome \/ _reset
  BY <1>5 DEF on_welcome, _reset, EndsCounted
<1>6. CASE Server
  BY <1>2, <1>6 DEF Server, ServerLists, ServerGrants, ServerLogsIn, ServerReadsNick,
                    ServerReadsEnd, ServerWithdraws, ServerWelcomes, ServerTakes
<1>7. CASE UNCHANGED regVars
  BY <1>2, <1>7 DEF regVars
<1> QED BY <1>3, <1>4, <1>5, <1>6, <1>7 DEF RegNext

(* The nick asked for is never forgotten.                                  *)
LEMMA NickStep ==
    ASSUME RegTypes, StageOK, phase = "registering" => NickFollowed, [RegNext]_regVars,
           phase' = "registering"
    PROVE  NickFollowed'
<1>1. /\ toServer \in Seq(FromClient) /\ toClient \in Seq(FromServer)
      /\ phase = "registering" => NickFollowed
  BY DEF RegTypes
<1>2. CASE _register
  <2>1. Bare("LS") \in FromClient /\ Line("NICK", nick) \in FromClient
    BY LinesTyped DEF RegTypes, Words
  <2>2. ASSUME NEW a \in FromClient, NEW b \in FromClient
        PROVE  <<a>> \in Seq(FromClient) /\ <<a, b>> = Append(<<a>>, b)
    OBVIOUS
  <2>3. LastNick(<<Bare("LS"), Line("NICK", nick)>>, nick)
    <3>1. LastNick(Append(<<Bare("LS")>>, Line("NICK", nick)), nick)
      BY <2>1, <2>2, NicksJoin
    <3> QED BY <2>1, <2>2, <3>1
  <2>4. LastNick(toServer', nick)
    BY <1>2, <2>3 DEF _register
  <2> QED BY <1>2, <2>4 DEF _register, NickFollowed
<1>3. ASSUME NEW cmd, cmd # "433", Take(cmd), UNCHANGED <<phase, nick>>,
             toServer' = toServer \/
               \E e \in FromClient : e.cmd # "NICK" /\ toServer' = Append(toServer, e)
      PROVE  NickFollowed'
  <2>1. /\ toClient # <<>> /\ toClient' = Tail(toClient) /\ Head(toClient).cmd = cmd
        /\ server' = server
    BY <1>3, TakeLeaves
  <2>2. Refused(toClient) => Refused(toClient')
    BY <1>1, <1>3, <2>1, NicksLeave
  <2>3. /\ LastNick(toServer, nick) => LastNick(toServer', nick)
        /\ NoNick(toServer) => NoNick(toServer')
    BY <1>1, <1>3, NicksJoin
  <2> QED BY <1>1, <1>3, <2>1, <2>2, <2>3 DEF NickFollowed
<1>4. ASSUME cap_end
      PROVE  toServer' = toServer \/
               \E e \in FromClient : e.cmd # "NICK" /\ toServer' = Append(toServer, e)
  <2>1. Bare("END") \in FromClient /\ Bare("END").cmd = "END"
    BY LinesTyped DEF Words
  <2> QED BY <1>4, <2>1, CapEndSays
<1>5. CASE on_CAP_LS
  <2> DEFINE req == Line("REQ", offered' \ (IF login THEN {} ELSE {"sasl"}))
  <2>1. Take("LS") /\ UNCHANGED <<phase, nick>> /\ (Say(req) \/ cap_end)
    BY <1>5 DEF on_CAP_LS
  <2>2. req \in FromClient /\ req.cmd = "REQ"
    <3>1. offered' \subseteq Caps
      BY <1>5, <2>1, TakeLeaves DEF on_CAP_LS, RegTypes
    <3> QED BY <3>1, LinesTyped DEF Words
  <2> HIDE DEF req
  <2> QED BY <1>3, <1>4, <2>1, <2>2 DEF Say
<1>6. CASE on_CAP_ACK
  <2> DEFINE plain == Bare("AUTHENTICATE PLAIN")
  <2>1. Take("ACK") /\ UNCHANGED <<phase, nick>> /\ (Say(plain) \/ cap_end)
    BY <1>6 DEF on_CAP_ACK
  <2>2. plain \in FromClient /\ plain.cmd = "AUTHENTICATE PLAIN"
    BY LinesTyped DEF Words
  <2> HIDE DEF plain
  <2> QED BY <1>3, <1>4, <2>1, <2>2 DEF Say
<1>7. CASE on_CAP_NAK
  BY <1>3, <1>4, <1>7 DEF on_CAP_NAK
<1>8. CASE on_SASL
  <2>1. PICK cmd \in {"903", "904"} : Take(cmd)
    BY <1>8 DEF on_SASL
  <2> QED BY <1>3, <1>4, <1>8, <2>1 DEF on_SASL
<1>9. CASE on_CAP_LS_more \/ on_CAP_DEL
  BY <1>3, <1>9 DEF on_CAP_LS_more, on_CAP_DEL
<1>10. CASE on_AUTHENTICATE
  <2>1. Bare("AUTHENTICATE") \in FromClient /\ Bare("AUTHENTICATE").cmd = "AUTHENTICATE"
    BY LinesTyped DEF Words
  <2>2. Take("+") /\ UNCHANGED <<phase, nick>>
        /\ toServer' = Append(toServer, Bare("AUTHENTICATE"))
    BY <1>10 DEF on_AUTHENTICATE, Say
  <2> QED BY <1>3, <2>1, <2>2
<1>11. CASE on_433
  <2>1. nick' \in Nat /\ toServer' = Append(toServer, Line("NICK", nick'))
    BY <1>11 DEF on_433, Say, RegTypes
  <2>2. LastNick(toServer', nick')
    BY <1>1, <2>1, LinesTyped, NicksJoin
  <2> QED BY <2>2 DEF NickFollowed
<1>12. CASE on_welcome \/ _reset \/ c_quote
  BY <1>12 DEF on_welcome, _reset, c_quote
<1>13. ASSUME UNCHANGED <<nick, phase>>, server'.nick = server.nick,
              \/ UNCHANGED toServer
              \/ \E cmd : ServerTakes(cmd) /\ cmd # "NICK",
              \/ UNCHANGED toClient
              \/ \E e \in FromServer : toClient' = Append(toClient, e)
              \/ \E e, f \in FromServer : toClient' = Append(Append(toClient, e), f)
       PROVE  NickFollowed'
  <2>1. /\ LastNick(toServer, nick) => LastNick(toServer', nick)
        /\ NoNick(toServer) => NoNick(toServer')
    <3>1. ASSUME NEW cmd, ServerTakes(cmd), cmd # "NICK"
          PROVE  /\ LastNick(toServer, nick) => LastNick(toServer', nick)
                 /\ NoNick(toServer) => NoNick(toServer')
      <4>1. toServer # <<>> /\ toServer' = Tail(toServer) /\ Head(toServer).cmd = cmd
        BY <3>1, ReadLeaves
      <4> QED BY <1>1, <3>1, <4>1, NicksLeave
    <3> QED BY <1>13, <3>1
  <2>2. Refused(toClient) => Refused(toClient')
    <3>1. ASSUME NEW e \in FromServer PROVE
             /\ Append(toClient, e) \in Seq(FromServer)
             /\ Refused(toClient) => Refused(Append(toClient, e))
      BY <1>1, AppendProperties, NicksJoin
    <3>2. ASSUME NEW e \in FromServer, NEW f \in FromServer
          PROVE  Refused(toClient) => Refused(Append(Append(toClient, e), f))
      BY <3>1, NicksJoin
    <3> QED BY <1>13, <3>1, <3>2
  <2> QED BY <1>1, <1>13, <2>1, <2>2 DEF NickFollowed
<1>14. ASSUME NEW cmd, ServerTakes(cmd) PROVE UNCHANGED <<nick, phase>>
  BY <1>14, ReadLeaves
<1>15. CASE ServerLists
  <2>1. ServerTakes("LS")
    BY <1>15 DEF ServerLists
  <2>2. server'.nick = server.nick
    BY <1>15 DEF ServerLists, RegTypes
  <2>3. ASSUME NEW offer \in SUBSET Caps, NEW first \in SUBSET Caps,
               \/ Answer(<<Line("LS *", first), Line("LS", offer \ first)>>)
               \/ Answer(<<Line("LS", offer)>>)
        PROVE  \/ \E e \in FromServer : toClient' = Append(toClient, e)
               \/ \E e, f \in FromServer : toClient' = Append(Append(toClient, e), f)
    <3>1. /\ Line("LS *", first) \in FromServer /\ Line("LS", offer \ first) \in FromServer
          /\ Line("LS", offer) \in FromServer
      BY LinesTyped DEF Words
    <3> QED BY <2>3, <3>1, AnswerLeaves
  <2>4. SUBSET (IF phase = "up" THEN server.offer ELSE Caps) \subseteq SUBSET Caps
    BY DEF RegTypes
  <2>5. \/ UNCHANGED toClient
        \/ \E e \in FromServer : toClient' = Append(toClient, e)
        \/ \E e, f \in FromServer : toClient' = Append(Append(toClient, e), f)
    <3>1. CASE UNCHANGED toClient
      BY <3>1
    <3>2. ASSUME NEW offer \in SUBSET (IF phase = "up" THEN server.offer ELSE Caps),
                 NEW first \in SUBSET Caps,
                 \/ Answer(<<Line("LS *", first), Line("LS", offer \ first)>>)
                 \/ Answer(<<Line("LS", offer)>>)
          PROVE  \/ \E e \in FromServer : toClient' = Append(toClient, e)
                 \/ \E e, f \in FromServer : toClient' = Append(Append(toClient, e), f)
      BY <2>3, <2>4, <3>2
    <3> QED BY <1>15, <3>1, <3>2 DEF ServerLists
  <2> QED BY <1>13, <1>14, <2>1, <2>2, <2>5
<1>16. CASE ServerGrants
  <2>1. ServerTakes("REQ")
    BY <1>16 DEF ServerGrants
  <2>2. server'.nick = server.nick
    BY <1>16 DEF ServerGrants, RegTypes
  <2>3. \E e \in FromServer : toClient' = Append(toClient, e)
    <3>1. Asked \subseteq server.offer => Line("ACK", Asked) \in FromServer
      BY LinesTyped DEF RegTypes, Words
    <3>2. Bare("NAK") \in FromServer
      BY LinesTyped DEF Words
    <3> QED BY <1>16, <3>1, <3>2, AnswerLeaves DEF ServerGrants
  <2> QED BY <1>13, <1>14, <2>1, <2>2, <2>3
<1>17. CASE ServerLogsIn
  <2>1. PICK cmd \in {"AUTHENTICATE PLAIN", "AUTHENTICATE"} : ServerTakes(cmd)
    BY <1>17 DEF ServerLogsIn
  <2>2. server'.nick = server.nick
    BY <1>17 DEF ServerLogsIn, RegTypes
  <2>3. Bare("+") \in FromServer /\ Bare("903") \in FromServer /\ Bare("904") \in FromServer
    BY LinesTyped DEF Words
  <2>4. \/ \E e \in FromServer : toClient' = Append(toClient, e)
        \/ \E e, f \in FromServer : toClient' = Append(Append(toClient, e), f)
    BY <1>17, <2>3, AnswerLeaves DEF ServerLogsIn, Refusal
  <2> QED BY <1>13, <1>14, <2>1, <2>2, <2>4
<1>18. CASE ServerReadsNick
  <2> DEFINE h == Head(toServer)
  <2>1. /\ toServer # <<>> /\ toServer' = Tail(toServer) /\ h.cmd = "NICK"
        /\ UNCHANGED <<nick, phase>>
    BY <1>18, ReadLeaves DEF ServerReadsNick
  <2>2. /\ ~NoNick(toServer)
        /\ LastNick(toServer, nick) =>
             \/ LastNick(toServer', nick)
             \/ h = Line("NICK", nick) /\ NoNick(toServer')
    BY <1>1, <2>1, NicksLeave
  <2>3. CASE server' = [server EXCEPT !.nick = h.what] /\ UNCHANGED toClient
    <3>1. h = Line("NICK", nick) => server'.nick = nick
      BY <2>3 DEF Line, RegTypes
    <3> QED BY <1>1, <2>1, <2>2, <2>3, <3>1 DEF NickFollowed
  <2>4. CASE Answer(<<Bare("433")>>)
    <3>1. Bare("433") \in FromServer /\ Bare("433").cmd = "433"
      BY LinesTyped DEF Words
    <3>2. Refused(toClient')
      <4>1. toClient' = Append(toClient, Bare("433"))
        BY <2>4, <3>1, AnswerLeaves
      <4> QED BY <1>1, <3>1, <4>1, NicksJoin
    <3> QED BY <3>2 DEF NickFollowed
  <2> QED BY <1>18, <2>3, <2>4 DEF ServerReadsNick
<1>19. CASE ServerReadsEnd
  <2>1. ServerTakes("END") /\ UNCHANGED toClient
    BY <1>19 DEF ServerReadsEnd
  <2>2. server'.nick = server.nick
    BY <1>19 DEF ServerReadsEnd, RegTypes
  <2> QED BY <1>13, <1>14, <2>1, <2>2
<1>20. CASE ServerWithdraws
  <2>1. PICK c \in server.offer :
          /\ server' = [server EXCEPT !.offer = @ \ {c}, !.enabled = @ \ {c}]
          /\ Answer(<<Line("DEL", {c})>>)
    BY <1>20 DEF ServerWithdraws
  <2>2. Line("DEL", {c}) \in FromServer
    <3>1. {c} \in SUBSET Caps
      BY DEF RegTypes
    <3> QED BY <3>1, LinesTyped DEF Words
  <2>3. UNCHANGED <<nick, phase, toServer>> /\ server'.nick = server.nick
    BY <1>20, <2>1 DEF ServerWithdraws, RegTypes
  <2> QED BY <1>13, <2>1, <2>2, <2>3, AnswerLeaves
<1>21. CASE ServerWelcomes
  <2>1. Bare("001") \in FromServer
    BY LinesTyped DEF Words
  <2> QED BY <1>13, <1>21, <2>1, AnswerLeaves DEF ServerWelcomes
<1>22. CASE UNCHANGED regVars
  BY <1>1, <1>22 DEF regVars, NickFollowed
<1> QED BY <1>2, <1>5, <1>6, <1>7, <1>8, <1>9, <1>10, <1>11, <1>12, <1>15, <1>16, <1>17,
           <1>18, <1>19, <1>20, <1>21, <1>22 DEF RegNext, Server

(* Capabilities are what the lines to us will make of them.                *)
LEMMA CapsStep ==
    ASSUME RegTypes, StageOK, CapsFollowed, [RegNext]_regVars PROVE CapsFollowed'
<1> SUFFICES ASSUME NEW c PROVE CapFollowed(c, toClient', caps', server'.enabled)
  BY DEF CapsFollowed
<1>1. toClient \in Seq(FromServer) /\ CapFollowed(c, toClient, caps, server.enabled)
  BY DEF RegTypes, CapsFollowed
<1> DEFINE Good == CapFollowed(c, toClient', caps', server'.enabled)
<1>2. ASSUME NEW cmd, Take(cmd),
             Names(Head(toClient), c) => (c \in caps' <=> cmd = "ACK"),
             ~Names(Head(toClient), c) => (c \in caps' <=> c \in caps)
      PROVE  Good
  <2>1. toClient # <<>> /\ toClient' = Tail(toClient) /\ Head(toClient).cmd = cmd
        /\ server' = server
    BY <1>2, TakeLeaves
  <2> QED BY <1>1, <1>2, <2>1, CapRead
<1>3. ASSUME NEW cmd, Take(cmd), cmd \notin {"ACK", "DEL"}, caps' = caps PROVE Good
  <2>1. ~Names(Head(toClient), c)
    BY <1>3, TakeLeaves DEF Names
  <2> QED BY <1>2, <1>3, <2>1
<1>4. ASSUME NEW cmd \in {"ACK", "DEL"}, Take(cmd)
      PROVE  Names(Head(toClient), c) <=> c \in Given
  BY <1>4, TakeLeaves DEF Names, Given
<1>5. CASE on_CAP_ACK
  BY <1>2, <1>4, <1>5 DEF on_CAP_ACK
<1>6. CASE on_CAP_DEL
  BY <1>2, <1>4, <1>6 DEF on_CAP_DEL
<1>7. CASE on_SASL
  <2>1. PICK cmd \in {"903", "904"} : Take(cmd)
    BY <1>7 DEF on_SASL
  <2> QED BY <1>3, <1>7, <2>1 DEF on_SASL, negVars
<1>8. CASE on_CAP_LS_more \/ on_CAP_LS \/ on_CAP_NAK \/ on_AUTHENTICATE \/ on_433 \/ on_welcome
  BY <1>3, <1>8 DEF on_CAP_LS_more, on_CAP_LS, on_CAP_NAK, on_AUTHENTICATE, on_433,
                    on_welcome, negVars
<1>9. CASE _reset
  BY <1>9 DEF _reset, CapFollowed, NewServer
<1>10. CASE _register \/ c_quote \/ UNCHANGED regVars
  BY <1>1, <1>10 DEF _register, c_quote, regVars, negVars
<1>11. ASSUME NEW e \in FromServer, toClient' = Append(toClient, e), caps' = caps,
              Names(e, c) => (c \in server'.enabled <=> e.cmd = "ACK"),
              ~Names(e, c) => (c \in server'.enabled <=> c \in server.enabled)
       PROVE  Good
  BY <1>1, <1>11, CapAnswered
<1>12. ASSUME NEW e \in FromServer, toClient' = Append(toClient, e), caps' = caps,
              e.cmd \notin {"ACK", "DEL"}, server'.enabled = server.enabled
       PROVE  Good
  BY <1>11, <1>12 DEF Names
<1>13. ASSUME NEW e \in FromServer, NEW f \in FromServer,
              toClient' = Append(Append(toClient, e), f), caps' = caps,
              e.cmd \notin {"ACK", "DEL"}, f.cmd \notin {"ACK", "DEL"},
              server'.enabled = server.enabled
       PROVE  Good
  <2>1. CapFollowed(c, Append(toClient, e), caps, server.enabled)
        /\ Append(toClient, e) \in Seq(FromServer)
    BY <1>1, <1>13, CapAnswered, AppendProperties DEF Names
  <2> QED BY <1>13, <2>1, CapAnswered DEF Names
<1>14. ASSUME UNCHANGED toClient, caps' = caps, server'.enabled = server.enabled PROVE Good
  BY <1>1, <1>14
<1>15. ASSUME NEW cmd, ServerTakes(cmd) PROVE caps' = caps
  BY <1>15, ReadLeaves
<1> SUFFICES Good
  OBVIOUS
<1> HIDE DEF Good
<1>16. CASE ServerLists
  <2>1. caps' = caps
    BY <1>15, <1>16 DEF ServerLists
  <2>2. server'.enabled = server.enabled
    BY <1>16 DEF ServerLists, RegTypes
  <2>3. ASSUME NEW offer \in SUBSET (IF phase = "up" THEN server.offer ELSE Caps),
               NEW first \in SUBSET Caps,
               \/ Answer(<<Line("LS *", first), Line("LS", offer \ first)>>)
               \/ Answer(<<Line("LS", offer)>>)
        PROVE  Good
    <3>1. offer \subseteq Caps
      BY DEF RegTypes
    <3> DEFINE more == Line("LS *", first)
               most == Line("LS", offer \ first)
               all == Line("LS", offer)
    <3>2. /\ more \in FromServer /\ most \in FromServer /\ all \in FromServer
          /\ more.cmd = "LS *" /\ most.cmd = "LS" /\ all.cmd = "LS"
      BY <3>1, LinesTyped DEF Words
    <3>3. \/ toClient' = Append(Append(toClient, more), most)
          \/ toClient' = Append(toClient, all)
      BY <2>3, <3>2, AnswerLeaves
    <3> HIDE DEF more, most, all
    <3> QED BY <1>12, <1>13, <2>1, <2>2, <3>2, <3>3
  <2> QED BY <1>14, <1>16, <2>1, <2>2, <2>3 DEF ServerLists
<1>17. CASE ServerGrants
  <2>1. caps' = caps
    BY <1>15, <1>17 DEF ServerGrants
  <2>2. CASE Answer(<<Bare("NAK")>>) /\ UNCHANGED server
    <3>1. Bare("NAK") \in FromServer /\ Bare("NAK").cmd = "NAK"
      BY LinesTyped DEF Words
    <3> QED BY <1>12, <2>1, <2>2, <3>1, AnswerLeaves
  <2>3. CASE /\ Asked \subseteq server.offer
             /\ server' = [server EXCEPT !.enabled = @ \cup Asked,
                  !.auth = IF "sasl" \in Asked /\ server.negotiation = "open" THEN "acked" ELSE @]
             /\ Answer(<<Line("ACK", Asked)>>)
    <3> DEFINE e == Line("ACK", Asked)
    <3>1. Asked \in SUBSET Caps
      BY <2>3 DEF RegTypes
    <3>2. e \in FromServer /\ e.cmd = "ACK" /\ e.what = Asked
      BY <3>1, LinesTyped DEF Words
    <3>3. toClient' = Append(toClient, e)
      BY <2>3, <3>2, AnswerLeaves
    <3> HIDE DEF e
    <3>4. server'.enabled = server.enabled \cup Asked
      BY <2>3 DEF RegTypes
    <3> QED BY <1>11, <2>1, <3>2, <3>3, <3>4 DEF Names
  <2> QED BY <1>17, <2>2, <2>3 DEF ServerGrants
<1>18. CASE ServerLogsIn
  <2>1. caps' = caps
    BY <1>15, <1>18 DEF ServerLogsIn
  <2>2. server'.enabled = server.enabled
    BY <1>18 DEF ServerLogsIn, RegTypes
  <2>3. \A cmd \in {"+", "903", "904"} :
          Bare(cmd) \in FromServer /\ Bare(cmd).cmd \notin {"ACK", "DEL"}
    BY LinesTyped DEF Words
  <2>4. \/ \E e \in {Bare("+"), Bare("903"), Bare("904")} : Answer(<<e>>)
        \/ Answer(<<Bare("904"), Bare("904")>>)
    BY <1>18 DEF ServerLogsIn, Refusal
  <2> QED BY <1>12, <1>13, <2>1, <2>2, <2>3, <2>4, AnswerLeaves
<1>19. CASE ServerReadsNick
  <2>1. caps' = caps
    BY <1>15, <1>19 DEF ServerReadsNick
  <2>2. server'.enabled = server.enabled
    BY <1>19 DEF ServerReadsNick, RegTypes
  <2>3. Bare("433") \in FromServer /\ Bare("433").cmd = "433"
    BY LinesTyped DEF Words
  <2>4. UNCHANGED toClient \/ toClient' = Append(toClient, Bare("433"))
    BY <1>19, <2>3, AnswerLeaves DEF ServerReadsNick
  <2> QED BY <1>12, <1>14, <2>1, <2>2, <2>3, <2>4
<1>20. CASE ServerReadsEnd
  <2>1. caps' = caps /\ UNCHANGED toClient
    BY <1>15, <1>20 DEF ServerReadsEnd
  <2>2. server'.enabled = server.enabled
    BY <1>20 DEF ServerReadsEnd, RegTypes
  <2> QED BY <1>14, <2>1, <2>2
<1>21. CASE ServerWithdraws
  <2>1. PICK d \in server.offer :
          /\ server' = [server EXCEPT !.offer = @ \ {d}, !.enabled = @ \ {d}]
          /\ Answer(<<Line("DEL", {d})>>)
    BY <1>21 DEF ServerWithdraws
  <2> DEFINE e == Line("DEL", {d})
  <2>2. e \in FromServer /\ e.cmd = "DEL" /\ e.what = {d}
    <3>1. {d} \in SUBSET Caps
      BY DEF RegTypes
    <3> QED BY <3>1, LinesTyped DEF Words
  <2>3. toClient' = Append(toClient, e) /\ caps' = caps
    BY <1>21, <2>1, <2>2, AnswerLeaves DEF ServerWithdraws, negVars
  <2> HIDE DEF e
  <2>4. server'.enabled = server.enabled \ {d}
    BY <2>1 DEF RegTypes
  <2> QED BY <1>11, <2>2, <2>3, <2>4 DEF Names
<1>22. CASE ServerWelcomes
  <2>1. Bare("001") \in FromServer /\ Bare("001").cmd = "001"
    BY LinesTyped DEF Words
  <2>2. toClient' = Append(toClient, Bare("001")) /\ caps' = caps /\ server' = server
    BY <1>22, <2>1, AnswerLeaves DEF ServerWelcomes, negVars
  <2> QED BY <1>12, <2>1, <2>2
<1> QED BY <1>5, <1>6, <1>7, <1>8, <1>9, <1>10, <1>16, <1>17, <1>18, <1>19, <1>20, <1>21,
           <1>22 DEF RegNext, Server, Good

-----------------------------------------------------------------------------
(* Before the first connection.                                            *)
LEMMA RegistrationInit == RegInit => RInv
<1> SUFFICES ASSUME RegInit PROVE RInv
  OBVIOUS
<1>1. RegTypes
  <2>1. login \in BOOLEAN /\ capDone \in BOOLEAN
    BY DEF RegInit
  <2>2. NewServer \in [offer : SUBSET Caps, enabled : SUBSET Caps, nick : Nat,
                       negotiation : {"none", "open", "ended"},
                       auth : {"no", "acked", "asked", "answered"}]
    BY RegistrationAssumption DEF NewServer
  <2> QED BY <2>1, <2>2, EmptySeq DEF RegInit, RegTypes
<1>2. StageOK
  BY DEF RegInit, StageOK, Unconnected
<1>3. EndsCounted /\ phase # "registering"
  BY DEF RegInit, EndsCounted
<1>4. CapsFollowed
  BY DEF RegInit, CapsFollowed, CapFollowed, NewServer
<1> QED BY <1>1, <1>2, <1>3, <1>4 DEF RInv

(* Each step.                                                              *)
LEMMA RegistrationStep == RInv /\ [RegNext]_regVars => RInv'
<1> SUFFICES ASSUME RInv, [RegNext]_regVars PROVE RInv'
  OBVIOUS
<1>1. RegTypes /\ StageOK /\ EndsCounted /\ CapsFollowed /\ (phase = "registering" => NickFollowed)
  BY DEF RInv
<1>2. StageOK'
  <2>1. CASE UNCHANGED regVars
    BY <1>1, <2>1 DEF regVars, negVars, StageOK, Unconnected, Stage, Fresh, Unheeded, Open,
       OurTurn, ServersTurn, Over, RegSettled
  <2> QED BY <1>1, <2>1, OurStage, ServersStage
<1> QED BY <1>1, <1>2, TypeStep, EndsStep, CapsStep, NickStep DEF RInv

(* Registration ends with one CAP END, after the login, never with both    *)
(* sides waiting - for CAP END or for a nick - and with the capabilities   *)
(* the server has enabled (_register, on_CAP, on_AUTHENTICATE, on_numeric, *)
(* cap_end, _reset): whatever the server answers, withdraws and repeats.   *)
THEOREM RegistrationAlwaysEnds == RegSpec => []RegistrationEnds
<1>1. RInv => RegistrationEnds
  <2> SUFFICES ASSUME RInv PROVE RegistrationEnds
    OBVIOUS
  <2>0. RegTypes /\ StageOK /\ EndsCounted /\ CapsFollowed /\ (phase = "registering" => NickFollowed)
    BY DEF RInv
  <2>1. EndsOnce
    BY <2>0 DEF EndsOnce, EndsCounted
  <2>2. NotStuck
    <3> SUFFICES ASSUME Quiet, phase = "registering"
                 PROVE  server.negotiation # "open" /\ server.nick = nick
      BY DEF NotStuck
    <3>1. toServer = <<>> /\ toClient = <<>>
      BY DEF Quiet
    <3>2. \A X, S : ~One(<<>>, X, S)
      BY DEF One
    <3>3. server.negotiation # "open"
      BY <2>0, <3>1, <3>2 DEF StageOK, Stage, Fresh, Unheeded, Open, OurTurn, ServersTurn, Over,
         NewServer
    <3>4. ~LastNick(<<>>, nick) /\ ~Refused(<<>>)
      BY DEF LastNick, Refused
    <3> QED BY <2>0, <3>1, <3>3, <3>4 DEF NickFollowed
  <2>3. LoginComesFirst
    BY <2>0 DEF LoginComesFirst, StageOK, Unconnected, Stage, Fresh, Unheeded, Open, Over,
       RegSettled, NewServer, RegTypes
  <2>4. CapsAgree
    <3>1. \A c : toClient = <<>> => (c \in caps <=> c \in server.enabled)
      BY <2>0 DEF CapsFollowed, CapFollowed
    <3> QED BY <3>1 DEF CapsAgree, Quiet
  <2> QED BY <2>1, <2>2, <2>3, <2>4 DEF RegistrationEnds
<1> QED BY <1>1, RegistrationInit, RegistrationStep, PTL DEF RegSpec

-----------------------------------------------------------------------------
(* The channels.                                                           *)
(*                                                                         *)
(* What will be listed once the lines under way are read is decided by the *)
(* last of them that opens or closes the conversation (OpensLast,          *)
(* ShutsLast), and what the server will have us in by the last that we     *)
(* sent (LeavesLast).  The invariant relates those ends of the two streams *)
(* to the server's side as it is now; a kick that is still to be read is   *)
(* followed by our own return, or by silence (Returned, Silent).           *)

Lines == [cmd : {"JOIN", "PART", "WHOIS", "PRIVMSG", "KICK", "INVITE", "INVITE-bare", "330", "318"},
          chan : Chans]

\* Lines that open and close a conversation when read.
Opener(ln, c) == ln \in {ChanLine("JOIN", c), ChanLine("PRIVMSG", c)}
Closer(ln, c) == ln = ChanLine("PART", c) \/ (Bot /\ ln = ChanLine("KICK", c))

Has(q, ln) == \E i \in DOMAIN q : q[i] = ln
Opens(q, c) == \E i \in DOMAIN q : Opener(q[i], c)
Shuts(q, c) == \E i \in DOMAIN q : Closer(q[i], c)
OpensLast(q, c) == \A i \in DOMAIN q : Closer(q[i], c) => \E j \in DOMAIN q : i < j /\ Opener(q[j], c)
ShutsLast(q, c) == \A i \in DOMAIN q : Opener(q[i], c) => \E j \in DOMAIN q : i < j /\ Closer(q[j], c)
LeavesLast(q, c) ==
    \E i \in DOMAIN q : /\ q[i] = ChanLine("PART", c)
                        /\ \A j \in DOMAIN q : i < j => q[j] # ChanLine("JOIN", c)
Returned(q, c) ==
    \A i \in DOMAIN q : q[i] = ChanLine("KICK", c) =>
        \E j \in DOMAIN q : i < j /\ q[j] = ChanLine("JOIN", c)
Silent(q, c) ==
    \A i, k \in DOMAIN q : q[i] = ChanLine("KICK", c) /\ i < k /\ q[k] = ChanLine("PRIVMSG", c) =>
        \E j \in DOMAIN q : i < j /\ q[j] = ChanLine("JOIN", c)

-----------------------------------------------------------------------------
(* The ends of a stream when a line is added to it, or taken from it.      *)

LEMMA Apart == \A a, b, c, d : ChanLine(a, c) = ChanLine(b, d) <=> a = b /\ c = d
<1> TAKE a, b, c, d
<1>1. ChanLine(a, c).cmd = a /\ ChanLine(a, c).chan = c /\ ChanLine(b, d).cmd = b /\ ChanLine(b, d).chan = d
  BY DEF ChanLine
<1> QED BY <1>1

LEMMA AddedAt ==
    ASSUME NEW q \in Seq(Lines), NEW ln
    PROVE  \E n : /\ n \in Nat /\ n \in DOMAIN Append(q, ln) /\ Append(q, ln)[n] = ln
                  /\ \A i \in DOMAIN q : /\ i \in DOMAIN Append(q, ln) /\ Append(q, ln)[i] = q[i]
                                         /\ i < n /\ i \in Nat
                  /\ \A i \in DOMAIN Append(q, ln) : i = n \/ i \in DOMAIN q
<1>1. DOMAIN q = 1 .. Len(q) /\ Len(q) \in Nat /\ DOMAIN Append(q, ln) = 1 .. Len(q) + 1
  OBVIOUS
<1>2. Append(q, ln)[Len(q) + 1] = ln /\ \A i \in DOMAIN q : Append(q, ln)[i] = q[i]
  OBVIOUS
<1>3. \A i \in 1 .. Len(q) + 1 : i = Len(q) + 1 \/ i \in 1 .. Len(q)
  BY <1>1
<1> WITNESS Len(q) + 1
<1> QED BY <1>1, <1>2, <1>3

LEMMA TakenFrom ==
    ASSUME NEW q \in Seq(Lines), q # <<>>
    PROVE  /\ Head(q) \in Lines /\ Tail(q) \in Seq(Lines)
           /\ 1 \in DOMAIN q /\ q[1] = Head(q)
           /\ \A i \in DOMAIN Tail(q) : /\ i + 1 \in DOMAIN q /\ Tail(q)[i] = q[i + 1]
                                        /\ i \in Nat /\ 1 < i + 1
           /\ \A i \in DOMAIN q : /\ i \in Nat
                                  /\ i = 1 \/ (1 < i /\ i - 1 \in DOMAIN Tail(q) /\ Tail(q)[i - 1] = q[i])
  OBVIOUS

LEMMA EmptyEnds ==
    \A c : /\ OpensLast(<<>>, c) /\ ShutsLast(<<>>, c) /\ Returned(<<>>, c) /\ Silent(<<>>, c)
           /\ ~LeavesLast(<<>>, c) /\ ~Opens(<<>>, c) /\ ~Shuts(<<>>, c)
           /\ \A ln : ~Has(<<>>, ln)
  BY DEF OpensLast, ShutsLast, Returned, Silent, LeavesLast, Opens, Shuts, Has

LEMMA AddedEnds ==
    ASSUME NEW q \in Seq(Lines), NEW a, NEW c
    PROVE  /\ \A ln : Has(Append(q, a), ln) <=> Has(q, ln) \/ a = ln
           /\ Opens(Append(q, a), c) <=> Opens(q, c) \/ Opener(a, c)
           /\ Shuts(Append(q, a), c) <=> Shuts(q, c) \/ Closer(a, c)
           /\ OpensLast(Append(q, a), c) <=> Opener(a, c) \/ (OpensLast(q, c) /\ ~Closer(a, c))
           /\ ShutsLast(Append(q, a), c) <=> Closer(a, c) \/ (ShutsLast(q, c) /\ ~Opener(a, c))
           /\ LeavesLast(Append(q, a), c) <=>
                 a = ChanLine("PART", c) \/ (LeavesLast(q, c) /\ a # ChanLine("JOIN", c))
           /\ Returned(q, c) /\ a # ChanLine("KICK", c) => Returned(Append(q, a), c)
           /\ a = ChanLine("JOIN", c) => Returned(Append(q, a), c)
           /\ Silent(q, c) /\ (a = ChanLine("PRIVMSG", c) => Returned(q, c)) => Silent(Append(q, a), c)
<1> DEFINE z == Append(q, a)
<1>1. PICK n : /\ n \in Nat /\ n \in DOMAIN z /\ z[n] = a
               /\ \A i \in DOMAIN q : i \in DOMAIN z /\ z[i] = q[i] /\ i < n /\ i \in Nat
               /\ \A i \in DOMAIN z : i = n \/ i \in DOMAIN q
  BY AddedAt
<1> HIDE DEF z
<1>2. ~(Opener(a, c) /\ Closer(a, c))
  BY Apart DEF Opener, Closer
<1>3. ChanLine("PART", c) # ChanLine("JOIN", c) /\ ChanLine("KICK", c) # ChanLine("PRIVMSG", c)
  BY Apart
<1>4. \A ln : Has(z, ln) <=> Has(q, ln) \/ a = ln
  BY <1>1 DEF Has
<1>5. /\ Opens(z, c) <=> Opens(q, c) \/ Opener(a, c)
      /\ Shuts(z, c) <=> Shuts(q, c) \/ Closer(a, c)
  BY <1>1 DEF Opens, Shuts
<1>6. OpensLast(z, c) <=> Opener(a, c) \/ (OpensLast(q, c) /\ ~Closer(a, c))
  BY <1>1, <1>2 DEF OpensLast
<1>7. ShutsLast(z, c) <=> Closer(a, c) \/ (ShutsLast(q, c) /\ ~Opener(a, c))
  BY <1>1, <1>2 DEF ShutsLast
<1>8. LeavesLast(z, c) <=> a = ChanLine("PART", c) \/ (LeavesLast(q, c) /\ a # ChanLine("JOIN", c))
  BY <1>1, <1>3 DEF LeavesLast
<1>9. /\ Returned(q, c) /\ a # ChanLine("KICK", c) => Returned(z, c)
      /\ a = ChanLine("JOIN", c) => Returned(z, c)
  <2>1. ChanLine("KICK", c) # ChanLine("JOIN", c)
    BY Apart
  <2> QED BY <1>1, <2>1 DEF Returned
<1>10. Silent(q, c) /\ (a = ChanLine("PRIVMSG", c) => Returned(q, c)) => Silent(z, c)
  <2> SUFFICES ASSUME Silent(q, c), a = ChanLine("PRIVMSG", c) => Returned(q, c),
                      NEW i \in DOMAIN z, NEW k \in DOMAIN z,
                      z[i] = ChanLine("KICK", c), i < k, z[k] = ChanLine("PRIVMSG", c)
               PROVE  \E j \in DOMAIN z : i < j /\ z[j] = ChanLine("JOIN", c)
    BY DEF Silent
  <2>1. i \in DOMAIN q
    BY <1>1
  <2>2. CASE k = n
    BY <1>1, <2>1, <2>2 DEF Returned
  <2>3. CASE k \in DOMAIN q
    BY <1>1, <2>1, <2>3 DEF Silent
  <2> QED BY <1>1, <2>2, <2>3
<1> QED BY <1>4, <1>5, <1>6, <1>7, <1>8, <1>9, <1>10 DEF z

LEMMA TakenEnds ==
    ASSUME NEW q \in Seq(Lines), q # <<>>, NEW c
    PROVE  /\ \A ln : Has(q, ln) <=> Head(q) = ln \/ Has(Tail(q), ln)
           /\ Opens(q, c) <=> Opener(Head(q), c) \/ Opens(Tail(q), c)
           /\ Shuts(q, c) <=> Closer(Head(q), c) \/ Shuts(Tail(q), c)
           /\ OpensLast(q, c) => /\ OpensLast(Tail(q), c)
                                 /\ Closer(Head(q), c) => Opens(Tail(q), c)
           /\ ShutsLast(q, c) => /\ ShutsLast(Tail(q), c)
                                 /\ Opener(Head(q), c) => Shuts(Tail(q), c)
           /\ LeavesLast(q, c) => \/ LeavesLast(Tail(q), c)
                                  \/ Head(q) = ChanLine("PART", c) /\ ~Has(Tail(q), ChanLine("JOIN", c))
           /\ Returned(q, c) => /\ Returned(Tail(q), c)
                                /\ Head(q) = ChanLine("KICK", c) => Has(Tail(q), ChanLine("JOIN", c))
           /\ Silent(q, c) => /\ Silent(Tail(q), c)
                              /\ Head(q) = ChanLine("KICK", c) /\ Has(Tail(q), ChanLine("PRIVMSG", c)) =>
                                    Has(Tail(q), ChanLine("JOIN", c))
<1> DEFINE t == Tail(q)
<1>1. /\ 1 \in DOMAIN q /\ q[1] = Head(q)
      /\ \A i \in DOMAIN t : i + 1 \in DOMAIN q /\ t[i] = q[i + 1] /\ i \in Nat /\ 1 < i + 1
      /\ \A i \in DOMAIN q : /\ i \in Nat
                             /\ i = 1 \/ (1 < i /\ i - 1 \in DOMAIN t /\ t[i - 1] = q[i])
  BY TakenFrom
<1> HIDE DEF t
<1>2. \A i, j \in DOMAIN t : i < j <=> i + 1 < j + 1
  BY <1>1
<1>3. \A i, j \in DOMAIN q : 1 < i /\ 1 < j => (i < j <=> i - 1 < j - 1)
  BY <1>1
<1>4. \A ln : Has(q, ln) <=> Head(q) = ln \/ Has(t, ln)
  BY <1>1 DEF Has
<1>5. /\ Opens(q, c) <=> Opener(Head(q), c) \/ Opens(t, c)
      /\ Shuts(q, c) <=> Closer(Head(q), c) \/ Shuts(t, c)
  BY <1>1 DEF Opens, Shuts
<1>6. OpensLast(q, c) => OpensLast(t, c) /\ (Closer(Head(q), c) => Opens(t, c))
  <2> SUFFICES ASSUME OpensLast(q, c) PROVE OpensLast(t, c) /\ (Closer(Head(q), c) => Opens(t, c))
    OBVIOUS
  <2>1. ASSUME Closer(Head(q), c) PROVE Opens(t, c)
    <3>1. PICK k \in DOMAIN q : 1 < k /\ Opener(q[k], c)
      BY <1>1, <2>1 DEF OpensLast
    <3>2. k - 1 \in DOMAIN t /\ t[k - 1] = q[k]
      BY <1>1, <3>1
    <3> QED BY <3>1, <3>2 DEF Opens
  <2>2. ASSUME NEW i \in DOMAIN t, Closer(t[i], c) PROVE \E j \in DOMAIN t : i < j /\ Opener(t[j], c)
    <3>1. PICK k \in DOMAIN q : i + 1 < k /\ Opener(q[k], c)
      BY <1>1, <2>2 DEF OpensLast
    <3>2. k - 1 \in DOMAIN t /\ i < k - 1 /\ t[k - 1] = q[k]
      BY <1>1, <3>1
    <3> QED BY <3>1, <3>2
  <2> QED BY <2>1, <2>2 DEF OpensLast
<1>7. ShutsLast(q, c) => ShutsLast(t, c) /\ (Opener(Head(q), c) => Shuts(t, c))
  <2> SUFFICES ASSUME ShutsLast(q, c) PROVE ShutsLast(t, c) /\ (Opener(Head(q), c) => Shuts(t, c))
    OBVIOUS
  <2>1. ASSUME Opener(Head(q), c) PROVE Shuts(t, c)
    <3>1. PICK k \in DOMAIN q : 1 < k /\ Closer(q[k], c)
      BY <1>1, <2>1 DEF ShutsLast
    <3>2. k - 1 \in DOMAIN t /\ t[k - 1] = q[k]
      BY <1>1, <3>1
    <3> QED BY <3>1, <3>2 DEF Shuts
  <2>2. ASSUME NEW i \in DOMAIN t, Opener(t[i], c) PROVE \E j \in DOMAIN t : i < j /\ Closer(t[j], c)
    <3>1. PICK k \in DOMAIN q : i + 1 < k /\ Closer(q[k], c)
      BY <1>1, <2>2 DEF ShutsLast
    <3>2. k - 1 \in DOMAIN t /\ i < k - 1 /\ t[k - 1] = q[k]
      BY <1>1, <3>1
    <3> QED BY <3>1, <3>2
  <2> QED BY <2>1, <2>2 DEF ShutsLast
<1>8. LeavesLast(q, c) => \/ LeavesLast(t, c)
                          \/ Head(q) = ChanLine("PART", c) /\ ~Has(t, ChanLine("JOIN", c))
  <2> SUFFICES ASSUME LeavesLast(q, c)
               PROVE  \/ LeavesLast(t, c)
                      \/ Head(q) = ChanLine("PART", c) /\ ~Has(t, ChanLine("JOIN", c))
    OBVIOUS
  <2>1. PICK i \in DOMAIN q : /\ q[i] = ChanLine("PART", c)
                              /\ \A j \in DOMAIN q : i < j => q[j] # ChanLine("JOIN", c)
    BY DEF LeavesLast
  <2>2. CASE i = 1
    BY <1>1, <2>1, <2>2 DEF Has
  <2>3. CASE i # 1
    <3>1. i - 1 \in DOMAIN t /\ t[i - 1] = ChanLine("PART", c)
      BY <1>1, <2>1, <2>3
    <3>2. \A j \in DOMAIN t : i - 1 < j => t[j] # ChanLine("JOIN", c)
      BY <1>1, <2>1
    <3> QED BY <3>1, <3>2 DEF LeavesLast
  <2> QED BY <2>2, <2>3
<1>9. Returned(q, c) => /\ Returned(t, c)
                        /\ Head(q) = ChanLine("KICK", c) => Has(t, ChanLine("JOIN", c))
  <2> SUFFICES ASSUME Returned(q, c)
               PROVE  Returned(t, c) /\ (Head(q) = ChanLine("KICK", c) => Has(t, ChanLine("JOIN", c)))
    OBVIOUS
  <2>1. ASSUME Head(q) = ChanLine("KICK", c) PROVE Has(t, ChanLine("JOIN", c))
    <3>1. PICK k \in DOMAIN q : 1 < k /\ q[k] = ChanLine("JOIN", c)
      BY <1>1, <2>1 DEF Returned
    <3>2. k - 1 \in DOMAIN t /\ t[k - 1] = q[k]
      BY <1>1, <3>1
    <3> QED BY <3>1, <3>2 DEF Has
  <2>2. ASSUME NEW i \in DOMAIN t, t[i] = ChanLine("KICK", c)
        PROVE  \E j \in DOMAIN t : i < j /\ t[j] = ChanLine("JOIN", c)
    <3>1. PICK k \in DOMAIN q : i + 1 < k /\ q[k] = ChanLine("JOIN", c)
      BY <1>1, <2>2 DEF Returned
    <3>2. k - 1 \in DOMAIN t /\ i < k - 1 /\ t[k - 1] = q[k]
      BY <1>1, <3>1
    <3> QED BY <3>1, <3>2
  <2> QED BY <2>1, <2>2 DEF Returned
<1>10. Silent(q, c) => /\ Silent(t, c)
                       /\ Head(q) = ChanLine("KICK", c) /\ Has(t, ChanLine("PRIVMSG", c)) =>
                             Has(t, ChanLine("JOIN", c))
  <2> SUFFICES ASSUME Silent(q, c)
               PROVE  /\ Silent(t, c)
                      /\ Head(q) = ChanLine("KICK", c) /\ Has(t, ChanLine("PRIVMSG", c)) =>
                             Has(t, ChanLine("JOIN", c))
    OBVIOUS
  <2>1. Head(q) = ChanLine("KICK", c) /\ Has(t, ChanLine("PRIVMSG", c)) => Has(t, ChanLine("JOIN", c))
    BY <1>1 DEF Silent, Has
  <2>2. ASSUME NEW i \in DOMAIN t, NEW m \in DOMAIN t, t[i] = ChanLine("KICK", c), i < m,
               t[m] = ChanLine("PRIVMSG", c)
        PROVE  \E j \in DOMAIN t : i < j /\ t[j] = ChanLine("JOIN", c)
    <3>1. PICK k \in DOMAIN q : i + 1 < k /\ q[k] = ChanLine("JOIN", c)
      BY <1>1, <1>2, <2>2 DEF Silent
    <3>2. k - 1 \in DOMAIN t /\ i < k - 1 /\ t[k - 1] = q[k]
      BY <1>1, <3>1
    <3> QED BY <3>1, <3>2
  <2> QED BY <2>1, <2>2 DEF Silent
<1> QED BY <1>4, <1>5, <1>6, <1>7, <1>8, <1>9, <1>10 DEF t

-----------------------------------------------------------------------------
(* The invariant, for each channel.                                        *)

Types == ChannelTypes /\ IsFiniteSet(convs) /\ IsFiniteSet(channels)

\* Where the server has us, and we do not ask to leave, it will be listed.
Listed(c) ==
    c \in inChan /\ ~Has(outbound, ChanLine("PART", c)) =>
        OpensLast(inbound, c) /\ (c \in convs \/ Opens(inbound, c))

\* A channel that was left is being left; or we are out of it and do not ask
\* to come back, and what is still to be read shuts its conversation.
Going(c) ==
    online /\ away[c] = "left" =>
        /\ LeavesLast(outbound, c) \/ (c \notin inChan /\ ~Has(outbound, ChanLine("JOIN", c)))
        /\ Bot /\ c \notin inChan => (c \in convs => Shuts(inbound, c))
ShutOut(c) == Bot /\ c \notin inChan => ShutsLast(inbound, c)

\* After a kick nothing of the channel comes but through our coming back.
KickTold(c) == (c \in inChan => Returned(inbound, c)) /\ Silent(inbound, c)
KickedOut(c) ==
    away[c] = "kicked" =>
        /\ c \notin convs \cup channels \cup inChan
        /\ ~Has(outbound, ChanLine("JOIN", c))
        /\ ~Has(inbound, ChanLine("JOIN", c)) /\ ~Has(inbound, ChanLine("PRIVMSG", c))

Agreed(c) == Listed(c) /\ Going(c) /\ ShutOut(c) /\ KickTold(c) /\ KickedOut(c)

-----------------------------------------------------------------------------
(* The ends of the two streams after each kind of step.                    *)

LEMMA ConvLinesTyped ==
    ASSUME Types
    PROVE  outbound \in Seq(Lines) /\ inbound \in Seq(Lines) /\ Bot \in BOOLEAN
<1>1. ToServer \subseteq Lines /\ ToClient \subseteq Lines
  BY DEF ToServer, ToClient, Lines
<1>2. outbound \in Seq(ToServer) /\ inbound \in Seq(ToClient)
  BY DEF Types, ChannelTypes
<1> QED BY <1>1, <1>2, ChannelsAssumption

LEMMA Kinds ==
    ASSUME NEW cmd, NEW c, NEW d
    PROVE  /\ Opener(ChanLine(cmd, c), d) <=> c = d /\ cmd \in {"JOIN", "PRIVMSG"}
           /\ Closer(ChanLine(cmd, c), d) <=> c = d /\ (cmd = "PART" \/ (Bot /\ cmd = "KICK"))
  BY Apart DEF Opener, Closer

LEMMA OutSaid ==
    ASSUME Types, NEW cmd, NEW c, Queue(ChanLine(cmd, c)), NEW d
    PROVE  /\ Has(outbound', ChanLine("JOIN", d)) <=> Has(outbound, ChanLine("JOIN", d)) \/ (c = d /\ cmd = "JOIN")
           /\ Has(outbound', ChanLine("PART", d)) <=> Has(outbound, ChanLine("PART", d)) \/ (c = d /\ cmd = "PART")
           /\ LeavesLast(outbound', d) <=> (c = d /\ cmd = "PART") \/ (LeavesLast(outbound, d) /\ ~(c = d /\ cmd = "JOIN"))
<1> DEFINE a == ChanLine(cmd, c)
<1>1. outbound \in Seq(Lines) /\ outbound' = Append(outbound, a)
  BY ConvLinesTyped DEF Queue
<1>2. \A k : a = ChanLine(k, d) <=> c = d /\ cmd = k
  BY Apart
<1> HIDE DEF a
<1>3. /\ \A ln : Has(outbound', ln) <=> Has(outbound, ln) \/ a = ln
      /\ LeavesLast(outbound', d) <=>
            a = ChanLine("PART", d) \/ (LeavesLast(outbound, d) /\ a # ChanLine("JOIN", d))
  BY <1>1, AddedEnds
<1> QED BY <1>2, <1>3

LEMMA OutRead ==
    ASSUME Types, NEW cmd, Reads(cmd), NEW d
    PROVE  \E c \in Chans :
             /\ Head(outbound) = ChanLine(cmd, c) /\ Head(outbound).chan = c
             /\ Has(outbound, ChanLine("JOIN", d)) <=> Has(outbound', ChanLine("JOIN", d)) \/ (c = d /\ cmd = "JOIN")
             /\ Has(outbound, ChanLine("PART", d)) <=> Has(outbound', ChanLine("PART", d)) \/ (c = d /\ cmd = "PART")
             /\ LeavesLast(outbound, d) =>
                   LeavesLast(outbound', d) \/ (c = d /\ cmd = "PART" /\ ~Has(outbound', ChanLine("JOIN", d)))
<1>1. outbound \in Seq(Lines) /\ outbound # <<>> /\ outbound' = Tail(outbound) /\ Head(outbound).cmd = cmd
  BY ConvLinesTyped DEF Reads
<1>2. Head(outbound) \in Lines
  BY <1>1, TakenFrom
<1>3. PICK c \in Chans : c = Head(outbound).chan
  BY <1>2 DEF Lines
<1>4. Head(outbound) = ChanLine(cmd, c)
  BY <1>1, <1>2, <1>3 DEF Lines, ChanLine
<1> WITNESS c \in Chans
<1> QED BY <1>1, <1>3, <1>4, TakenEnds, Apart

LEMMA InTold ==
    ASSUME Types, NEW cmd, NEW c, Tells(ChanLine(cmd, c)), NEW d
    PROVE  /\ Has(inbound', ChanLine("JOIN", d)) <=> Has(inbound, ChanLine("JOIN", d)) \/ (c = d /\ cmd = "JOIN")
           /\ Has(inbound', ChanLine("PRIVMSG", d)) <=>
                 Has(inbound, ChanLine("PRIVMSG", d)) \/ (c = d /\ cmd = "PRIVMSG")
           /\ Opens(inbound', d) <=> Opens(inbound, d) \/ (c = d /\ cmd \in {"JOIN", "PRIVMSG"})
           /\ Shuts(inbound', d) <=> Shuts(inbound, d) \/ (c = d /\ (cmd = "PART" \/ (Bot /\ cmd = "KICK")))
           /\ OpensLast(inbound', d) <=>
                 \/ c = d /\ cmd \in {"JOIN", "PRIVMSG"}
                 \/ OpensLast(inbound, d) /\ ~(c = d /\ (cmd = "PART" \/ (Bot /\ cmd = "KICK")))
           /\ ShutsLast(inbound', d) <=>
                 \/ c = d /\ (cmd = "PART" \/ (Bot /\ cmd = "KICK"))
                 \/ ShutsLast(inbound, d) /\ ~(c = d /\ cmd \in {"JOIN", "PRIVMSG"})
           /\ Returned(inbound, d) /\ ~(c = d /\ cmd = "KICK") => Returned(inbound', d)
           /\ c = d /\ cmd = "JOIN" => Returned(inbound', d)
           /\ Silent(inbound, d) /\ (c = d /\ cmd = "PRIVMSG" => Returned(inbound, d)) => Silent(inbound', d)
<1> DEFINE a == ChanLine(cmd, c)
<1>1. inbound \in Seq(Lines) /\ inbound' = Append(inbound, a)
  BY ConvLinesTyped DEF Tells
<1>2. \A k : a = ChanLine(k, d) <=> c = d /\ cmd = k
  BY Apart
<1>3. /\ Opener(a, d) <=> c = d /\ cmd \in {"JOIN", "PRIVMSG"}
      /\ Closer(a, d) <=> c = d /\ (cmd = "PART" \/ (Bot /\ cmd = "KICK"))
  BY Kinds
<1> HIDE DEF a
<1>4. /\ \A ln : Has(inbound', ln) <=> Has(inbound, ln) \/ a = ln
      /\ Opens(inbound', d) <=> Opens(inbound, d) \/ Opener(a, d)
      /\ Shuts(inbound', d) <=> Shuts(inbound, d) \/ Closer(a, d)
      /\ OpensLast(inbound', d) <=> Opener(a, d) \/ (OpensLast(inbound, d) /\ ~Closer(a, d))
      /\ ShutsLast(inbound', d) <=> Closer(a, d) \/ (ShutsLast(inbound, d) /\ ~Opener(a, d))
  BY <1>1, AddedEnds
<1>5. /\ Returned(inbound, d) /\ a # ChanLine("KICK", d) => Returned(inbound', d)
      /\ a = ChanLine("JOIN", d) => Returned(inbound', d)
      /\ Silent(inbound, d) /\ (a = ChanLine("PRIVMSG", d) => Returned(inbound, d)) => Silent(inbound', d)
  BY <1>1, AddedEnds
<1>6. Has(inbound', ChanLine("JOIN", d)) <=> Has(inbound, ChanLine("JOIN", d)) \/ (c = d /\ cmd = "JOIN")
  BY <1>2, <1>4
<1>7. Has(inbound', ChanLine("PRIVMSG", d)) <=>
                 Has(inbound, ChanLine("PRIVMSG", d)) \/ (c = d /\ cmd = "PRIVMSG")
  BY <1>2, <1>4
<1>8. Opens(inbound', d) <=> Opens(inbound, d) \/ (c = d /\ cmd \in {"JOIN", "PRIVMSG"})
  BY <1>3, <1>4
<1>9. Shuts(inbound', d) <=> Shuts(inbound, d) \/ (c = d /\ (cmd = "PART" \/ (Bot /\ cmd = "KICK")))
  BY <1>3, <1>4
<1>10. OpensLast(inbound', d) <=>
          \/ c = d /\ cmd \in {"JOIN", "PRIVMSG"}
          \/ OpensLast(inbound, d) /\ ~(c = d /\ (cmd = "PART" \/ (Bot /\ cmd = "KICK")))
  BY <1>3, <1>4
<1>11. ShutsLast(inbound', d) <=>
          \/ c = d /\ (cmd = "PART" \/ (Bot /\ cmd = "KICK"))
          \/ ShutsLast(inbound, d) /\ ~(c = d /\ cmd \in {"JOIN", "PRIVMSG"})
  BY <1>3, <1>4
<1>12. Returned(inbound, d) /\ ~(c = d /\ cmd = "KICK") => Returned(inbound', d)
  BY <1>2, <1>5
<1>13. c = d /\ cmd = "JOIN" => Returned(inbound', d)
  BY <1>2, <1>5
<1>14. Silent(inbound, d) /\ (c = d /\ cmd = "PRIVMSG" => Returned(inbound, d)) => Silent(inbound', d)
  BY <1>2, <1>5
<1> QED BY <1>6, <1>7, <1>8, <1>9, <1>10, <1>11, <1>12, <1>13, <1>14

LEMMA InRead ==
    ASSUME Types, NEW cmd, NEW c, Gets(cmd, c), NEW d
    PROVE  /\ Has(inbound, ChanLine("JOIN", d)) <=> Has(inbound', ChanLine("JOIN", d)) \/ (c = d /\ cmd = "JOIN")
           /\ Has(inbound, ChanLine("PRIVMSG", d)) <=>
                 Has(inbound', ChanLine("PRIVMSG", d)) \/ (c = d /\ cmd = "PRIVMSG")
           /\ Opens(inbound, d) <=> Opens(inbound', d) \/ (c = d /\ cmd \in {"JOIN", "PRIVMSG"})
           /\ Shuts(inbound, d) <=> Shuts(inbound', d) \/ (c = d /\ (cmd = "PART" \/ (Bot /\ cmd = "KICK")))
           /\ OpensLast(inbound, d) =>
                 OpensLast(inbound', d) /\ (c = d /\ (cmd = "PART" \/ (Bot /\ cmd = "KICK")) => Opens(inbound', d))
           /\ ShutsLast(inbound, d) =>
                 ShutsLast(inbound', d) /\ (c = d /\ cmd \in {"JOIN", "PRIVMSG"} => Shuts(inbound', d))
           /\ Returned(inbound, d) =>
                 Returned(inbound', d) /\ (c = d /\ cmd = "KICK" => Has(inbound', ChanLine("JOIN", d)))
           /\ Silent(inbound, d) =>
                 /\ Silent(inbound', d)
                 /\ c = d /\ cmd = "KICK" /\ Has(inbound', ChanLine("PRIVMSG", d)) => Has(inbound', ChanLine("JOIN", d))
<1> DEFINE a == ChanLine(cmd, c)
<1>1. inbound \in Seq(Lines) /\ inbound # <<>> /\ inbound' = Tail(inbound) /\ Head(inbound) = a
  BY ConvLinesTyped DEF Gets
<1>2. \A k : a = ChanLine(k, d) <=> c = d /\ cmd = k
  BY Apart
<1>3. /\ Opener(a, d) <=> c = d /\ cmd \in {"JOIN", "PRIVMSG"}
      /\ Closer(a, d) <=> c = d /\ (cmd = "PART" \/ (Bot /\ cmd = "KICK"))
  BY Kinds
<1> HIDE DEF a
<1>4. /\ \A ln : Has(inbound, ln) <=> a = ln \/ Has(inbound', ln)
      /\ Opens(inbound, d) <=> Opener(a, d) \/ Opens(inbound', d)
      /\ Shuts(inbound, d) <=> Closer(a, d) \/ Shuts(inbound', d)
      /\ OpensLast(inbound, d) => OpensLast(inbound', d) /\ (Closer(a, d) => Opens(inbound', d))
      /\ ShutsLast(inbound, d) => ShutsLast(inbound', d) /\ (Opener(a, d) => Shuts(inbound', d))
  BY <1>1, TakenEnds
<1>5. /\ Returned(inbound, d) =>
            Returned(inbound', d) /\ (a = ChanLine("KICK", d) => Has(inbound', ChanLine("JOIN", d)))
      /\ Silent(inbound, d) =>
            /\ Silent(inbound', d)
            /\ a = ChanLine("KICK", d) /\ Has(inbound', ChanLine("PRIVMSG", d)) =>
                  Has(inbound', ChanLine("JOIN", d))
  BY <1>1, TakenEnds
<1>6. Has(inbound, ChanLine("JOIN", d)) <=> Has(inbound', ChanLine("JOIN", d)) \/ (c = d /\ cmd = "JOIN")
  BY <1>2, <1>4
<1>7. Has(inbound, ChanLine("PRIVMSG", d)) <=>
                 Has(inbound', ChanLine("PRIVMSG", d)) \/ (c = d /\ cmd = "PRIVMSG")
  BY <1>2, <1>4
<1>8. Opens(inbound, d) <=> Opens(inbound', d) \/ (c = d /\ cmd \in {"JOIN", "PRIVMSG"})
  BY <1>3, <1>4
<1>9. Shuts(inbound, d) <=> Shuts(inbound', d) \/ (c = d /\ (cmd = "PART" \/ (Bot /\ cmd = "KICK")))
  BY <1>3, <1>4
<1>10. OpensLast(inbound, d) =>
          OpensLast(inbound', d) /\ (c = d /\ (cmd = "PART" \/ (Bot /\ cmd = "KICK")) => Opens(inbound', d))
  BY <1>3, <1>4
<1>11. ShutsLast(inbound, d) =>
          ShutsLast(inbound', d) /\ (c = d /\ cmd \in {"JOIN", "PRIVMSG"} => Shuts(inbound', d))
  BY <1>3, <1>4
<1>12. Returned(inbound, d) =>
          Returned(inbound', d) /\ (c = d /\ cmd = "KICK" => Has(inbound', ChanLine("JOIN", d)))
  BY <1>2, <1>5
<1>13. Silent(inbound, d) =>
          /\ Silent(inbound', d)
          /\ c = d /\ cmd = "KICK" /\ Has(inbound', ChanLine("PRIVMSG", d)) => Has(inbound', ChanLine("JOIN", d))
  BY <1>2, <1>5
<1> QED BY <1>6, <1>7, <1>8, <1>9, <1>10, <1>11, <1>12, <1>13

-----------------------------------------------------------------------------
(* The lists, and the lines of a new connection.                           *)

LEMMA InOrder ==
    ASSUME NEW S, IsFiniteSet(S)
    PROVE  Cardinality(S) \in Nat /\ SetToSeq(S) \in [1 .. Cardinality(S) -> S]
<1>1. Cardinality(S) \in Nat /\ ExistsBijection(1 .. Cardinality(S), S)
  BY FS_CardinalityType
<1>2. \E f \in [1 .. Cardinality(S) -> S] : IsInjective(f)
  BY <1>1 DEF ExistsBijection, Bijection, Injection
<1> QED BY <1>1, <1>2 DEF SetToSeq

LEMMA Rejoined ==
    ASSUME Types, rejoin
    PROVE  /\ outbound' \in Seq(ToServer)
           /\ \A i \in DOMAIN outbound' : \E c \in channels \cup convs : outbound'[i] = ChanLine("JOIN", c)
<1> DEFINE q == SetToSeq(channels \cup convs)
<1>1. IsFiniteSet(channels \cup convs)
  BY FS_Union DEF Types
<1>2. PICK n \in Nat : q \in [1 .. n -> channels \cup convs]
  BY <1>1, InOrder
<1>3. outbound' = [i \in DOMAIN q |-> ChanLine("JOIN", q[i])]
  BY DEF rejoin
<1> HIDE DEF q
<1>4. DOMAIN q = 1 .. n /\ outbound' = [i \in 1 .. n |-> ChanLine("JOIN", q[i])]
  BY <1>2, <1>3
<1>5. \A i \in 1 .. n : q[i] \in channels \cup convs /\ outbound'[i] = ChanLine("JOIN", q[i])
  BY <1>2, <1>4
<1>6. \A i \in 1 .. n : outbound'[i] \in ToServer
  <2>1. channels \cup convs \subseteq Chans
    BY DEF Types, ChannelTypes
  <2>2. \A c \in Chans : ChanLine("JOIN", c) \in ToServer
    BY DEF ToServer, ChanLine
  <2> QED BY <1>5, <2>1, <2>2
<1>7. outbound' \in Seq(ToServer)
  BY <1>4, <1>6
<1>8. DOMAIN outbound' = 1 .. n
  BY <1>4
<1> QED BY <1>5, <1>7, <1>8

LEMMA FewListed ==
    ASSUME Types, NEW c
    PROVE  /\ IsFiniteSet(convs \cup {c}) /\ IsFiniteSet(convs \ {c})
           /\ IsFiniteSet(channels \cup {c}) /\ IsFiniteSet(channels \ {c})
  BY FS_AddElement, FS_RemoveElement DEF Types

LEMMA LinesMade ==
    ASSUME Types, NEW c \in Chans
    PROVE  /\ \A k \in {"JOIN", "PART", "WHOIS"} : Append(outbound, ChanLine(k, c)) \in Seq(ToServer)
           /\ \A k \in {"JOIN", "PART", "PRIVMSG", "KICK", "INVITE", "INVITE-bare", "330", "318"} :
                 Append(inbound, ChanLine(k, c)) \in Seq(ToClient)
<1>1. /\ \A k \in {"JOIN", "PART", "WHOIS"} : ChanLine(k, c) \in ToServer
      /\ \A k \in {"JOIN", "PART", "PRIVMSG", "KICK", "INVITE", "INVITE-bare", "330", "318"} :
            ChanLine(k, c) \in ToClient
  BY DEF ToServer, ToClient, ChanLine
<1>2. outbound \in Seq(ToServer) /\ inbound \in Seq(ToClient)
  BY DEF Types, ChannelTypes
<1> QED BY <1>1, <1>2

LEMMA LinesGone ==
    ASSUME Types
    PROVE  /\ outbound # <<>> => Tail(outbound) \in Seq(ToServer)
           /\ inbound # <<>> => Tail(inbound) \in Seq(ToClient)
<1>1. outbound \in Seq(ToServer) /\ inbound \in Seq(ToClient)
  BY DEF Types, ChannelTypes
<1> QED BY <1>1

LEMMA TypesKept ==
    ASSUME Types, [ChannelsNext]_chanVars
    PROVE  Types'
<1> USE DEF Types, ChannelTypes
<1>1. CASE UNCHANGED chanVars
  BY <1>1 DEF chanVars
<1>2. CASE rejoin
  <2>1. away' \in [Chans -> {"no", "kicked", "left"}]
    BY <1>2 DEF rejoin
  <2> QED BY <1>2, <2>1, Rejoined DEF rejoin
<1>3. CASE _close
  <2>1. <<>> \in Seq(ToServer) /\ <<>> \in Seq(ToClient)
    OBVIOUS
  <2>2. /\ convs' = convs /\ channels' = channels /\ vetting' = vetting /\ away' = away
        /\ online' = FALSE /\ inChan' = {} /\ outbound' = <<>> /\ inbound' = <<>>
    BY <1>3 DEF _close, local
  <2> QED BY <2>1, <2>2
<1>4. CASE ServerAdmits \/ ServerIgnoresJoin \/ ServerParts \/ ServerAnswersWhois
  <2>1. PICK cmd \in {"JOIN", "PART", "WHOIS"} : Reads(cmd)
    BY <1>4 DEF ServerAdmits, ServerIgnoresJoin, ServerParts, ServerAnswersWhois
  <2>2. PICK c \in Chans : Head(outbound) = ChanLine(cmd, c) /\ Head(outbound).chan = c
    BY <2>1, OutRead
  <2>3. online /\ outbound' \in Seq(ToServer)
    BY <2>1, LinesGone DEF Reads
  <2>4. CASE ServerAdmits
    BY <2>2, <2>3, <2>4, LinesMade DEF ServerAdmits, Tells, local, Reads, ChanLine
  <2>5. CASE ServerIgnoresJoin
    BY <2>3, <2>5 DEF ServerIgnoresJoin, local
  <2>6. CASE ServerParts
    BY <2>2, <2>3, <2>6, LinesMade DEF ServerParts, Tells, local, Reads, ChanLine
  <2>7. CASE ServerAnswersWhois
    BY <2>2, <2>3, <2>7, LinesMade DEF ServerAnswersWhois, Tells, local
  <2> QED BY <1>4, <2>4, <2>5, <2>6, <2>7
<1>5. ASSUME NEW c \in Chans,
             join(c) \/ accept_invite(c) \/ part(c) \/ _part_cmd(c)
      PROVE  Types'
  <2>1. CASE join(c)
    BY <2>1, FewListed, LinesMade DEF join, Queue, AskedBack
  <2>2. CASE accept_invite(c)
    BY <2>2, FewListed DEF accept_invite, AskedBack
  <2>3. CASE part(c)
    BY <2>3, FewListed, LinesMade DEF part, Queue
  <2>4. CASE _part_cmd(c)
    BY <2>4, FewListed, LinesMade DEF _part_cmd, Queue
  <2> QED BY <1>5, <2>1, <2>2, <2>3, <2>4
<1>6. ASSUME NEW c \in Chans, NEW cmd \in {"PRIVMSG", "KICK", "INVITE", "INVITE-bare"}, ServerTells(cmd, c)
      PROVE  Types'
  BY <1>6, LinesMade DEF ServerTells, Tells, local
<1>7. ASSUME NEW c \in Chans, on_JOIN(c) \/ on_PART(c) \/ on_PRIVMSG(c)
      PROVE  Types'
  BY <1>7, FewListed, LinesGone DEF on_JOIN, on_PART, on_PRIVMSG, Gets
<1>8. ASSUME NEW c \in Chans, on_KICK(c) PROVE Types'
  BY <1>8, FewListed, LinesGone DEF on_KICK, Gets, forget_channel
<1>9. ASSUME NEW c \in Chans, TakeInvite(c), inbound # <<>>
      PROVE  /\ outbound' \in Seq(ToServer)
             /\ away' \in [Chans -> {"no", "kicked", "left"}]
  BY <1>9, LinesMade DEF TakeInvite, AskedBack, Queue
<1>10. ASSUME NEW c \in Chans, on_INVITE(c) PROVE Types'
  BY <1>9, <1>10, LinesGone DEF on_INVITE, Gets
<1>11. ASSUME NEW c \in Chans, on_INVITE_bare(c) PROVE Types'
  BY <1>11, LinesMade, LinesGone DEF on_INVITE_bare, Gets, Queue
<1>12. CASE on_330
  BY <1>9, <1>12, LinesGone DEF on_330, Gets
<1>13. CASE on_318
  BY <1>13, LinesGone DEF on_318, Gets
<1> QED BY <1>1, <1>2, <1>3, <1>4, <1>5, <1>6, <1>7, <1>8, <1>10, <1>11, <1>12, <1>13 DEF ChannelsNext

-----------------------------------------------------------------------------
(* Every step keeps what is agreed of a channel.                           *)

\* The streams as they were.
LEMMA OutSame ==
    ASSUME outbound' = outbound, NEW d
    PROVE  /\ \A ln : Has(outbound', ln) <=> Has(outbound, ln)
           /\ LeavesLast(outbound', d) <=> LeavesLast(outbound, d)
  BY DEF Has, LeavesLast

LEMMA InSame ==
    ASSUME inbound' = inbound, NEW d
    PROVE  /\ \A ln : Has(inbound', ln) <=> Has(inbound, ln)
           /\ Opens(inbound', d) <=> Opens(inbound, d)
           /\ Shuts(inbound', d) <=> Shuts(inbound, d)
           /\ OpensLast(inbound', d) <=> OpensLast(inbound, d)
           /\ ShutsLast(inbound', d) <=> ShutsLast(inbound, d)
           /\ Returned(inbound', d) <=> Returned(inbound, d)
           /\ Silent(inbound', d) <=> Silent(inbound, d)
  BY DEF Has, Opens, Shuts, OpensLast, ShutsLast, Returned, Silent

LEMMA AgreedKept ==
    ASSUME Types, Types', NEW d \in Chans, Agreed(d), [ChannelsNext]_chanVars
    PROVE  Agreed(d)'
<1> USE DEF Agreed, Listed, Going, ShutOut, KickTold, KickedOut
<1>a. away \in [Chans -> {"no", "kicked", "left"}] /\ Bot \in BOOLEAN
  BY ChannelsAssumption DEF Types, ChannelTypes
<1>1. CASE UNCHANGED chanVars
  BY <1>1, OutSame, InSame DEF chanVars
<1>2. CASE rejoin
  <2>1. /\ ~Has(outbound', ChanLine("PART", d))
        /\ Has(outbound', ChanLine("JOIN", d)) => d \in channels \cup convs
        /\ inChan' = {} /\ inbound' = <<>>
    <3>1. inChan' = {} /\ inbound' = <<>>
      BY <1>2 DEF Types, ChannelTypes, rejoin
    <3>2. \A i \in DOMAIN outbound' : \E c \in channels \cup convs : outbound'[i] = ChanLine("JOIN", c)
      BY <1>2, Rejoined
    <3>3. ~Has(outbound', ChanLine("PART", d))
      BY <3>2, Apart DEF Has
    <3>4. Has(outbound', ChanLine("JOIN", d)) => d \in channels \cup convs
      BY <3>2, Apart DEF Has
    <3> QED BY <3>1, <3>3, <3>4
  <2>2. away'[d] # "left" /\ (away'[d] = "kicked" => away[d] = "kicked")
    BY <1>2, <1>a DEF rejoin
  <2> QED BY <1>2, <2>1, <2>2, EmptyEnds DEF rejoin
<1>3. CASE _close
  BY <1>3, EmptyEnds DEF _close, local
<1>4. CASE ServerAdmits
  <2>1. PICK c \in Chans : /\ Head(outbound) = ChanLine("JOIN", c) /\ Head(outbound).chan = c
                           /\ Has(outbound, ChanLine("JOIN", d)) <=> Has(outbound', ChanLine("JOIN", d)) \/ c = d
                           /\ Has(outbound, ChanLine("PART", d)) <=> Has(outbound', ChanLine("PART", d))
                           /\ LeavesLast(outbound, d) => LeavesLast(outbound', d)
    BY <1>4, OutRead DEF ServerAdmits
  <2>2. Tells(ChanLine("JOIN", c)) /\ inChan' = inChan \cup {c} /\ c \notin inChan
    BY <1>4, <2>1 DEF ServerAdmits
  <2> QED BY <1>4, <2>1, <2>2, InTold DEF ServerAdmits, local
<1>5. CASE ServerIgnoresJoin
  <2>1. PICK c \in Chans : /\ Has(outbound, ChanLine("JOIN", d)) <=> Has(outbound', ChanLine("JOIN", d)) \/ c = d
                           /\ Has(outbound, ChanLine("PART", d)) <=> Has(outbound', ChanLine("PART", d))
                           /\ LeavesLast(outbound, d) => LeavesLast(outbound', d)
    BY <1>5, OutRead DEF ServerIgnoresJoin
  <2> QED BY <1>5, <2>1, InSame DEF ServerIgnoresJoin, local
<1>6. CASE ServerParts
  <2>1. PICK c \in Chans : /\ Head(outbound) = ChanLine("PART", c) /\ Head(outbound).chan = c
                           /\ Has(outbound, ChanLine("JOIN", d)) <=> Has(outbound', ChanLine("JOIN", d))
                           /\ Has(outbound, ChanLine("PART", d)) <=> Has(outbound', ChanLine("PART", d)) \/ c = d
                           /\ LeavesLast(outbound, d) =>
                                 LeavesLast(outbound', d) \/ (c = d /\ ~Has(outbound', ChanLine("JOIN", d)))
    BY <1>6, OutRead DEF ServerParts
  <2>2. inChan' = inChan \ {c} /\ UNCHANGED local /\ online' = online
    BY <1>6, <2>1 DEF ServerParts
  <2>3. CASE c \in inChan
    <3>1. Tells(ChanLine("PART", c))
      BY <1>6, <2>1, <2>3 DEF ServerParts
    <3> QED BY <2>1, <2>2, <2>3, <3>1, InTold DEF local
  <2>4. CASE c \notin inChan
    <3>1. inbound' = inbound /\ inChan' = inChan
      BY <1>6, <2>1, <2>2, <2>4 DEF ServerParts
    <3> QED BY <2>1, <2>2, <2>4, <3>1, InSame DEF local
  <2> QED BY <2>3, <2>4
<1>7. CASE ServerAnswersWhois
  <2>1. PICK c \in Chans : /\ Head(outbound).chan = c
                           /\ Has(outbound, ChanLine("JOIN", d)) <=> Has(outbound', ChanLine("JOIN", d))
                           /\ Has(outbound, ChanLine("PART", d)) <=> Has(outbound', ChanLine("PART", d))
                           /\ LeavesLast(outbound, d) => LeavesLast(outbound', d)
    BY <1>7, OutRead DEF ServerAnswersWhois
  <2>2. PICK n \in {"330", "318"} : Tells(ChanLine(n, c))
    BY <1>7, <2>1 DEF ServerAnswersWhois
  <2> QED BY <1>7, <2>1, <2>2, InTold DEF ServerAnswersWhois, local
<1>8. ASSUME NEW c \in Chans, NEW cmd \in {"PRIVMSG", "KICK", "INVITE", "INVITE-bare"}, ServerTells(cmd, c)
      PROVE  Agreed(d)'
  <2>1. Tells(ChanLine(cmd, c)) /\ outbound' = outbound /\ UNCHANGED local /\ online' = online
    BY <1>8 DEF ServerTells
  <2>2. CASE cmd = "PRIVMSG"
    BY <1>8, <2>1, <2>2, OutSame, InTold DEF ServerTells, local
  <2>3. CASE cmd = "KICK"
    BY <1>8, <2>1, <2>3, OutSame, InTold DEF ServerTells, local
  <2>4. CASE cmd \in {"INVITE", "INVITE-bare"}
    BY <1>8, <2>1, <2>4, OutSame, InTold DEF ServerTells, local
  <2> QED BY <2>2, <2>3, <2>4
<1>9. ASSUME NEW c \in Chans, join(c) PROVE Agreed(d)'
  BY <1>9, <1>a, OutSaid, InSame DEF join, AskedBack
<1>10. ASSUME NEW c \in Chans, accept_invite(c) PROVE Agreed(d)'
  BY <1>10, <1>a, OutSame, InSame DEF accept_invite, AskedBack
<1>11. ASSUME NEW c \in Chans, part(c) PROVE Agreed(d)'
  <2>1. CASE online
    BY <1>11, <1>a, <2>1, OutSaid, InSame DEF part
  <2>2. CASE ~online
    BY <1>11, <1>a, <2>2, OutSame, InSame DEF part, Types, ChannelTypes
  <2> QED BY <2>1, <2>2
<1>12. ASSUME NEW c \in Chans, _part_cmd(c) PROVE Agreed(d)'
  BY <1>12, OutSaid, InSame DEF _part_cmd
<1>13. ASSUME NEW c \in Chans, on_JOIN(c) PROVE Agreed(d)'
  BY <1>13, OutSame, InRead DEF on_JOIN
<1>14. ASSUME NEW c \in Chans, on_PART(c) PROVE Agreed(d)'
  BY <1>14, OutSame, InRead DEF on_PART
<1>15. ASSUME NEW c \in Chans, on_PRIVMSG(c) PROVE Agreed(d)'
  BY <1>15, OutSame, InRead DEF on_PRIVMSG
<1>16. ASSUME NEW c \in Chans, on_KICK(c) PROVE Agreed(d)'
  <2>1. Gets("KICK", c) /\ outbound' = outbound /\ inChan' = inChan /\ online' = online /\ inbound' = Tail(inbound)
    BY <1>16 DEF on_KICK, Gets
  <2>2. CASE ~(Bot /\ c \in convs)
    <3>1. convs' = convs /\ channels' = channels /\ away' = away
      BY <1>16, <2>2 DEF on_KICK
    <3> QED BY <2>1, <2>2, <3>1, OutSame, InRead
  <2>3. CASE Bot /\ c \in convs
    <3>1. convs' = convs \ {c} /\ channels' = channels \ {c}
      BY <1>16, <2>3 DEF on_KICK, forget_channel
    <3>2. IF Has(outbound, ChanLine("JOIN", c)) \/ Has(inbound', ChanLine("JOIN", c))
            THEN away' = away ELSE away' = [away EXCEPT ![c] = "kicked"]
      BY <1>16, <2>1, <2>3 DEF on_KICK, Sent, Has, Range
    <3>3. CASE c = d
      BY <1>a, <2>1, <2>3, <3>1, <3>2, <3>3, OutSame, InRead
    <3>4. CASE c # d
      <4>1. away'[d] = away[d]
        BY <1>a, <3>2, <3>4
      <4> QED BY <2>1, <3>1, <3>4, <4>1, OutSame, InRead
    <3> QED BY <3>3, <3>4
  <2> QED BY <2>2, <2>3
<1>17. ASSUME NEW k \in {"INVITE", "INVITE-bare", "330"}, NEW b, Gets(k, b), NEW c \in Chans,
              TakeInvite(c) \/ UNCHANGED <<outbound, away>>, UNCHANGED <<online, convs, channels, inChan>>
       PROVE  Agreed(d)'
  <2>1. /\ outbound' = outbound \/ Queue(ChanLine("JOIN", c))
        /\ away' = away \/ away' = [away EXCEPT ![c] = "no"]
        /\ Queue(ChanLine("JOIN", c)) => away' = [away EXCEPT ![c] = "no"]
    BY <1>17 DEF TakeInvite, AskedBack, Queue
  <2>2. CASE outbound' = outbound
    BY <1>17, <1>a, <2>1, <2>2, OutSame, InRead
  <2>3. CASE Queue(ChanLine("JOIN", c))
    BY <1>17, <1>a, <2>1, <2>3, OutSaid, InRead
  <2> QED BY <2>1, <2>2, <2>3
<1>18. ASSUME NEW c \in Chans, on_INVITE(c) PROVE Agreed(d)'
  BY <1>17, <1>18 DEF on_INVITE
<1>19. ASSUME NEW c \in Chans, on_INVITE_bare(c) PROVE Agreed(d)'
  BY <1>19, OutSaid, InRead DEF on_INVITE_bare
<1>20. CASE on_330
  <2>1. PICK b \in Chans : Gets("330", b)
    BY <1>20 DEF on_330
  <2>2. TakeInvite(vetting) \/ UNCHANGED <<outbound, away>>
    BY <1>20 DEF on_330
  <2>3. vetting \in Chans \/ UNCHANGED <<outbound, away>>
    BY <1>20 DEF on_330, Types, ChannelTypes
  <2>4. UNCHANGED <<online, convs, channels, inChan>>
    BY <1>20 DEF on_330
  <2> QED BY <1>17, <2>1, <2>2, <2>3, <2>4
<1>21. CASE on_318
  BY <1>21, OutSame, InRead DEF on_318
<1> QED BY <1>1, <1>2, <1>3, <1>4, <1>5, <1>6, <1>7, <1>8, <1>9, <1>10, <1>11, <1>12, <1>13, <1>14, <1>15, <1>16,
           <1>18, <1>19, <1>20, <1>21 DEF ChannelsNext

-----------------------------------------------------------------------------
ChannelsInv == Types /\ \A c \in Chans : Agreed(c)

LEMMA ChannelsInvKept == ChannelsSpec => []ChannelsInv
<1>1. ChannelsInit => ChannelsInv
  <2> SUFFICES ASSUME ChannelsInit PROVE ChannelsInv
    OBVIOUS
  <2>1. Types
    <3>1. <<>> \in Seq(ToServer) /\ <<>> \in Seq(ToClient)
      OBVIOUS
    <3> QED BY <3>1, ChannelsAssumption, FS_EmptySet DEF ChannelsInit, Types, ChannelTypes
  <2>2. ASSUME NEW c \in Chans PROVE Agreed(c)
    BY EmptyEnds DEF ChannelsInit, Agreed, Listed, Going, ShutOut, KickTold, KickedOut
  <2> QED BY <2>1, <2>2 DEF ChannelsInv
<1>2. ChannelsInv /\ [ChannelsNext]_chanVars => ChannelsInv'
  <2> SUFFICES ASSUME ChannelsInv, [ChannelsNext]_chanVars PROVE ChannelsInv'
    OBVIOUS
  <2>1. Types'
    BY TypesKept DEF ChannelsInv
  <2>2. ASSUME NEW c \in Chans PROVE Agreed(c)'
    BY <2>1, AgreedKept DEF ChannelsInv
  <2> QED BY <2>1, <2>2 DEF ChannelsInv
<1> QED BY <1>1, <1>2, PTL DEF ChannelsSpec

\* Whatever crossed on the wire, what the server has us in is listed once the
\* streams are read, what was left on this connection is left, and a kicked
\* bot stays out until it is asked or invited again.
THEOREM ChannelsAlwaysAgree == ChannelsSpec => []ChannelsAgree
<1>1. ChannelsInv => ChannelsAgree
  <2> SUFFICES ASSUME ChannelsInv PROVE ChannelsAgree
    OBVIOUS
  <2> USE DEF ChannelsInv, Agreed
  <2>1. inChan \subseteq Chans
    BY DEF Types, ChannelTypes
  <2>2. EveryChannelListed
    BY <2>1, EmptyEnds DEF EveryChannelListed, Settled, Listed
  <2>3. PartTakes
    BY EmptyEnds DEF PartTakes, Settled, Going
  <2>4. KickedStaysOut
    <3>1. \A ln, q : ln \in Range(q) <=> Has(q, ln)
      BY DEF Range, Has
    <3> QED BY <3>1 DEF KickedStaysOut, KickedOut
  <2> QED BY <2>2, <2>3, <2>4 DEF ChannelsAgree
<1> QED BY <1>1, ChannelsInvKept, PTL

-----------------------------------------------------------------------------
(* The history.                                                            *)
(*                                                                         *)
(* An answer carries no label, so what it is taken for is right only while *)
(* a conversation has one request under way at most, and that one is what  *)
(* `fetching` says and asked for what comes before the ring as it still is *)
(* (Known): true until the conversation is left, cleared, refused or swept *)
(* up.  Of one that was not left, what is remembered as asked was asked,   *)
(* and who waits, waits for a "before" (Followed).                         *)

HistLines == [cmd : {"JOIN", "PART", "CHATHISTORY"}, conv : Convs, page : 0 .. Empty]

IsReq(l, c) == l.cmd = "CHATHISTORY" /\ l.conv = c
Asks(q, c) == \E i \in DOMAIN q : IsReq(q[i], c)
Once(q, c) == \A i, j \in DOMAIN q : IsReq(q[i], c) /\ IsReq(q[j], c) => i = j
PageIs(q, c, p) == \A i \in DOMAIN q : IsReq(q[i], c) => q[i].page = p

-----------------------------------------------------------------------------
(* The requests of a stream when a line is added to it, or taken from it.  *)

LEMMA EmptyWire == \A c, p : ~Asks(<<>>, c) /\ Once(<<>>, c) /\ PageIs(<<>>, c, p)
  BY DEF Asks, Once, PageIs

LEMMA AddedLine ==
    ASSUME NEW q \in Seq(HistLines), NEW l, NEW c, NEW p
    PROVE  /\ Asks(Append(q, l), c) <=> Asks(q, c) \/ IsReq(l, c)
           /\ Once(q, c) /\ (IsReq(l, c) => ~Asks(q, c)) => Once(Append(q, l), c)
           /\ PageIs(q, c, p) /\ (IsReq(l, c) => l.page = p) => PageIs(Append(q, l), c, p)
<1> DEFINE z == Append(q, l)
           n == Len(q) + 1
<1>1. n \in DOMAIN z /\ z[n] = l
  OBVIOUS
<1>2. \A i \in DOMAIN q : i \in DOMAIN z /\ z[i] = q[i] /\ i # n
  OBVIOUS
<1>3. \A i \in DOMAIN z : i = n \/ i \in DOMAIN q
  OBVIOUS
<1> HIDE DEF z, n
<1>4. Asks(z, c) <=> Asks(q, c) \/ IsReq(l, c)
  BY <1>1, <1>2, <1>3 DEF Asks
<1>5. Once(q, c) /\ (IsReq(l, c) => ~Asks(q, c)) => Once(z, c)
  BY <1>1, <1>2, <1>3 DEF Asks, Once
<1>6. PageIs(q, c, p) /\ (IsReq(l, c) => l.page = p) => PageIs(z, c, p)
  BY <1>1, <1>2, <1>3 DEF PageIs
<1> QED BY <1>4, <1>5, <1>6 DEF z

LEMMA TakenLine ==
    ASSUME NEW q \in Seq(HistLines), q # <<>>, NEW c, NEW p
    PROVE  /\ Tail(q) \in Seq(HistLines) /\ Head(q) \in HistLines
           /\ Asks(q, c) <=> IsReq(Head(q), c) \/ Asks(Tail(q), c)
           /\ Once(q, c) => Once(Tail(q), c) /\ (IsReq(Head(q), c) => ~Asks(Tail(q), c))
           /\ PageIs(q, c, p) => PageIs(Tail(q), c, p) /\ (IsReq(Head(q), c) => Head(q).page = p)
<1> DEFINE t == Tail(q)
<1>1. t \in Seq(HistLines) /\ Head(q) \in HistLines /\ 1 \in DOMAIN q /\ q[1] = Head(q)
  OBVIOUS
<1>2. \A i \in DOMAIN t : i + 1 \in DOMAIN q /\ t[i] = q[i + 1] /\ i \in Nat /\ i + 1 # 1
  OBVIOUS
<1>3. \A i \in DOMAIN q : i = 1 \/ (i - 1 \in DOMAIN t /\ t[i - 1] = q[i])
  OBVIOUS
<1> HIDE DEF t
<1>4. Asks(q, c) <=> IsReq(Head(q), c) \/ Asks(t, c)
  BY <1>1, <1>2, <1>3 DEF Asks
<1>5. Once(q, c) => Once(t, c) /\ (IsReq(Head(q), c) => ~Asks(t, c))
  <2> SUFFICES ASSUME Once(q, c) PROVE Once(t, c) /\ (IsReq(Head(q), c) => ~Asks(t, c))
    OBVIOUS
  <2>1. ASSUME NEW i \in DOMAIN t, NEW j \in DOMAIN t, IsReq(t[i], c), IsReq(t[j], c) PROVE i = j
    <3>1. i + 1 = j + 1
      BY <1>2, <2>1 DEF Once
    <3> QED BY <1>2, <3>1
  <2>2. IsReq(Head(q), c) => ~Asks(t, c)
    BY <1>1, <1>2 DEF Once, Asks
  <2> QED BY <2>1, <2>2 DEF Once
<1>6. PageIs(q, c, p) => PageIs(t, c, p) /\ (IsReq(Head(q), c) => Head(q).page = p)
  BY <1>1, <1>2 DEF PageIs
<1> QED BY <1>1, <1>4, <1>5, <1>6 DEF t

-----------------------------------------------------------------------------
(* The invariant, for each conversation.                                   *)

RingTypes ==
    /\ live \in BOOLEAN /\ listed \subseteq Convs /\ joined \subseteq Convs
    /\ IsFiniteSet(listed)
    /\ oldest \in [Convs -> 1 .. Empty] /\ done \in [Convs -> BOOLEAN]
    /\ fetching \in [Convs -> {"no", "latest", "before"}]
    /\ wire \in Seq(HistLines)
    /\ spoilt \in [Convs -> SUBSET {"left", "cleared", "refused", "swept"}]
    /\ waiting \subseteq listed

Down == ~live => /\ joined = {} /\ wire = <<>> /\ waiting = {}
               /\ \A c \in Convs : fetching[c] = "no"

Followed(c) ==
    "left" \notin spoilt[c] =>
        /\ fetching[c] # "no" => Asks(wire, c)
        /\ c \in waiting => fetching[c] = "before"
        /\ c \in joined => c \in listed
        /\ c \notin listed => fetching[c] = "no"

Known(c) ==
    spoilt[c] = {} =>
        /\ Once(wire, c)
        /\ fetching[c] = "no" => ~Asks(wire, c)
        /\ fetching[c] = "latest" => PageIs(wire, c, Latest)
        /\ fetching[c] = "before" => PageIs(wire, c, oldest[c]) /\ oldest[c] # Empty
        /\ c \in listed /\ done[c] => oldest[c] = 1

Honest(c) == Followed(c) /\ Known(c)
HistoryInv == RingTypes /\ Down /\ \A c \in Convs : Honest(c)

LEMMA PagesCounted ==
    Pages \in Nat /\ Pages > 0 /\ Empty = Pages + 1 /\ Latest = Pages + 1
  BY HistoryAssumption DEF Empty, Latest

LEMMA LineMade ==
    ASSUME NEW cmd, NEW c, NEW p
    PROVE  /\ HistLine(cmd, c, p).page = p /\ HistLine(cmd, c, p).conv = c /\ HistLine(cmd, c, p).cmd = cmd
           /\ \A d : IsReq(HistLine(cmd, c, p), d) <=> cmd = "CHATHISTORY" /\ c = d
           /\ cmd \in {"JOIN", "PART", "CHATHISTORY"} /\ c \in Convs /\ p \in 0 .. Empty =>
                 HistLine(cmd, c, p) \in HistLines
  BY DEF HistLine, IsReq, HistLines

LEMMA InTurn ==
    ASSUME NEW S, IsFiniteSet(S)
    PROVE  Cardinality(S) \in Nat /\ SetToSeq(S) \in [1 .. Cardinality(S) -> S]
<1>1. Cardinality(S) \in Nat /\ ExistsBijection(1 .. Cardinality(S), S)
  BY FS_CardinalityType
<1>2. \E f \in [1 .. Cardinality(S) -> S] : IsInjective(f)
  BY <1>1 DEF ExistsBijection, Bijection, Injection
<1> QED BY <1>1, <1>2 DEF SetToSeq

LEMMA WelcomeJoins ==
    ASSUME RingTypes, joinAll
    PROVE  wire' \in Seq(HistLines) /\ \A i \in DOMAIN wire' : \A d : ~IsReq(wire'[i], d)
<1> DEFINE q == SetToSeq(listed)
<1>1. PICK n \in Nat : q \in [1 .. n -> listed]
  BY InTurn DEF RingTypes
<1>2. wire' = [i \in DOMAIN q |-> HistLine("JOIN", q[i], 0)]
  BY DEF joinAll
<1> HIDE DEF q
<1>3. DOMAIN q = 1 .. n /\ wire' = [i \in 1 .. n |-> HistLine("JOIN", q[i], 0)]
  BY <1>1, <1>2
<1>4. \A i \in 1 .. n : q[i] \in Convs /\ wire'[i] = HistLine("JOIN", q[i], 0)
  BY <1>1, <1>3 DEF RingTypes
<1>5. 0 \in 0 .. Empty
  BY PagesCounted
<1>6. \A i \in 1 .. n : wire'[i] \in HistLines
  BY <1>4, <1>5, LineMade
<1>7. wire' \in Seq(HistLines) /\ DOMAIN wire' = 1 .. n
  BY <1>3, <1>6
<1>8. \A c, d : ~IsReq(HistLine("JOIN", c, 0), d)
  BY LineMade
<1> QED BY <1>4, <1>7, <1>8

-----------------------------------------------------------------------------
(* What each step does to the wire, as the requests of one conversation d  *)
(* see it.                                                                 *)

\* A line other than a request is sent.
LEMMA OtherSent ==
    ASSUME RingTypes, NEW cmd \in {"JOIN", "PART"}, NEW c \in Convs,
           wire' = Append(wire, HistLine(cmd, c, 0)), NEW d, NEW p
    PROVE  /\ wire' \in Seq(HistLines)
           /\ Asks(wire', d) <=> Asks(wire, d)
           /\ Once(wire, d) => Once(wire', d)
           /\ PageIs(wire, d, p) => PageIs(wire', d, p)
<1>1. wire \in Seq(HistLines) /\ HistLine(cmd, c, 0) \in HistLines
  <2>1. 0 \in 0 .. Empty
    BY PagesCounted
  <2> QED BY <2>1, LineMade DEF RingTypes
<1>2. ~IsReq(HistLine(cmd, c, 0), d)
  BY LineMade
<1> QED BY <1>1, <1>2, AddedLine

\* The head of the wire is answered, a request of c or none.
LEMMA HeadAnswered ==
    ASSUME RingTypes, NEW cmd, NEW c, Answers(cmd, c), NEW d, NEW p
    PROVE  /\ Tail(wire) \in Seq(HistLines) /\ Head(wire).page \in 0 .. Empty
           /\ Asks(wire, d) <=> (cmd = "CHATHISTORY" /\ c = d) \/ Asks(Tail(wire), d)
           /\ Once(wire, d) => Once(Tail(wire), d)
           /\ Once(wire, d) /\ cmd = "CHATHISTORY" /\ c = d => ~Asks(Tail(wire), d)
           /\ PageIs(wire, d, p) => PageIs(Tail(wire), d, p)
           /\ PageIs(wire, d, p) /\ cmd = "CHATHISTORY" /\ c = d => Head(wire).page = p
<1>1. wire \in Seq(HistLines) /\ wire # <<>> /\ Head(wire).cmd = cmd /\ Head(wire).conv = c
  BY DEF RingTypes, Answers
<1>2. IsReq(Head(wire), d) <=> cmd = "CHATHISTORY" /\ c = d
  BY <1>1 DEF IsReq
<1>3. Head(wire) \in HistLines
  BY <1>1, TakenLine
<1>4. Head(wire).page \in 0 .. Empty
  BY <1>3 DEF HistLines
<1> QED BY <1>1, <1>2, <1>4, TakenLine

\* History is asked for, or something is being asked already.
LEMMA Fetched ==
    ASSUME RingTypes, NEW c \in Convs, NEW which \in {"latest", "before"},
           NEW page \in 0 .. Empty, NEW w \in Seq(HistLines), fetch_history(c, which, page, w),
           NEW d \in Convs, NEW p
    PROVE  /\ wire' \in Seq(HistLines) /\ fetching' \in [Convs -> {"no", "latest", "before"}]
           /\ c # d \/ fetching[c] # "no" =>
                 /\ fetching'[d] = fetching[d]
                 /\ Asks(wire', d) <=> Asks(w, d)
                 /\ Once(w, d) => Once(wire', d)
                 /\ PageIs(w, d, p) => PageIs(wire', d, p)
           /\ c = d /\ fetching[c] = "no" =>
                 /\ fetching'[d] = which
                 /\ Asks(wire', d)
                 /\ ~Asks(w, d) => PageIs(wire', d, page)
                 /\ Once(w, d) /\ ~Asks(w, d) => Once(wire', d)
<1> DEFINE l == HistLine("CHATHISTORY", c, page)
<1>1. l \in HistLines /\ l.page = page /\ (IsReq(l, d) <=> c = d)
  BY LineMade
<1>2. fetching \in [Convs -> {"no", "latest", "before"}]
  BY DEF RingTypes
<1> HIDE DEF l
<1>3. CASE fetching[c] # "no"
  <2>1. fetching' = fetching /\ wire' = w
    BY <1>3 DEF fetch_history
  <2> QED BY <1>2, <1>3, <2>1
<1>4. CASE fetching[c] = "no"
  <2>1. fetching' = [fetching EXCEPT ![c] = which] /\ wire' = Append(w, l)
    BY <1>4 DEF fetch_history, l
  <2>2. wire' \in Seq(HistLines) /\ fetching' \in [Convs -> {"no", "latest", "before"}]
    BY <1>1, <1>2, <2>1
  <2>3. /\ Asks(wire', d) <=> Asks(w, d) \/ c = d
        /\ Once(w, d) /\ (c = d => ~Asks(w, d)) => Once(wire', d)
        /\ PageIs(w, d, p) /\ c # d => PageIs(wire', d, p)
    BY <1>1, <2>1, AddedLine
  <2>4. PageIs(w, d, page) => PageIs(wire', d, page)
    BY <1>1, <2>1, AddedLine
  <2>5. ~Asks(w, d) => PageIs(w, d, page)
    BY DEF Asks, PageIs
  <2>6. c # d => fetching'[d] = fetching[d]
    BY <1>2, <2>1
  <2>7. c = d => fetching'[d] = which
    BY <1>2, <2>1
  <2> QED BY <1>4, <2>2, <2>3, <2>4, <2>5, <2>6, <2>7
<1> QED BY <1>3, <1>4

-----------------------------------------------------------------------------
(* Every step keeps the invariant.                                         *)

LEMMA HistoryBegins == HistInit => HistoryInv
<1> SUFFICES ASSUME HistInit PROVE HistoryInv
  OBVIOUS
<1>1. RingTypes
  <2>1. <<>> \in Seq(HistLines) /\ IsFiniteSet({})
    BY FS_EmptySet
  <2>2. Empty \in 1 .. Empty
    BY PagesCounted
  <2> QED BY <2>1, <2>2 DEF HistInit, RingTypes
<1>2. Down
  BY DEF HistInit, Down
<1>3. ASSUME NEW c \in Convs PROVE Honest(c)
  BY EmptyWire DEF HistInit, Honest, Followed, Known
<1> QED BY <1>1, <1>2, <1>3 DEF HistoryInv

LEMMA FewKnown ==
    ASSUME RingTypes, NEW c
    PROVE  IsFiniteSet(listed \cup {c}) /\ IsFiniteSet(listed \ {c})
  BY FS_AddElement, FS_RemoveElement DEF RingTypes

LEMMA Reopened ==
    ASSUME RingTypes, NEW c \in Convs, conv_for(c)
    PROVE  /\ listed' = listed \cup {c} /\ IsFiniteSet(listed') /\ listed' \subseteq Convs
           /\ oldest' \in [Convs -> 1 .. Empty] /\ done' \in [Convs -> BOOLEAN]
           /\ \A d \in Convs : d # c \/ c \in listed => oldest'[d] = oldest[d] /\ done'[d] = done[d]
           /\ c \notin listed => ~done'[c]
<1>1. Empty \in 1 .. Empty
  BY PagesCounted
<1>2. listed' = listed \cup {c} /\ IsFiniteSet(listed') /\ listed' \subseteq Convs
  BY FewKnown DEF RingTypes, conv_for
<1>3. CASE c \in listed
  BY <1>2, <1>3 DEF RingTypes, conv_for
<1>4. CASE c \notin listed
  <2>1. oldest' = [oldest EXCEPT ![c] = Empty] /\ done' = [done EXCEPT ![c] = FALSE]
    BY <1>4 DEF conv_for
  <2>2. oldest' \in [Convs -> 1 .. Empty] /\ \A d \in Convs : d # c => oldest'[d] = oldest[d]
    BY <1>1, <2>1 DEF RingTypes
  <2>3. done' \in [Convs -> BOOLEAN] /\ (\A d \in Convs : d # c => done'[d] = done[d]) /\ ~done'[c]
    BY <2>1 DEF RingTypes
  <2> QED BY <1>2, <1>4, <2>2, <2>3
<1> QED BY <1>3, <1>4

LEMMA WelcomeKept ==
    ASSUME HistoryInv, joinAll PROVE HistoryInv'
<1>1. wire' \in Seq(HistLines) /\ \A d : ~Asks(wire', d) /\ Once(wire', d)
  BY WelcomeJoins DEF HistoryInv, Asks, Once
<1>2. RingTypes'
  BY <1>1 DEF HistoryInv, RingTypes, joinAll
<1>3. Down'
  BY DEF Down, joinAll
<1>4. ASSUME NEW d \in Convs PROVE Honest(d)'
  <2>1. fetching[d] = "no" /\ waiting = {} /\ joined = {}
    BY DEF HistoryInv, Down, joinAll
  <2> QED BY <1>1, <2>1 DEF joinAll, HistoryInv, Honest, Followed, Known
<1> QED BY <1>2, <1>3, <1>4 DEF HistoryInv

LEMMA CloseKept ==
    ASSUME HistoryInv, closeHist PROVE HistoryInv'
<1> USE DEF HistoryInv, closeHist
<1>1. RingTypes'
  <2>1. <<>> \in Seq(HistLines)
    OBVIOUS
  <2>2. fetching' \in [Convs -> {"no", "latest", "before"}]
    OBVIOUS
  <2>3. spoilt' \in [Convs -> SUBSET {"left", "cleared", "refused", "swept"}]
    BY DEF RingTypes
  <2>4. /\ live' = FALSE /\ listed' = listed /\ joined' = {} /\ oldest' = oldest /\ done' = done
        /\ wire' = <<>> /\ waiting' = {}
    OBVIOUS
  <2> QED BY <2>1, <2>2, <2>3, <2>4 DEF RingTypes
<1>2. Down'
  BY DEF Down
<1>3. ASSUME NEW d \in Convs PROVE Honest(d)'
  <2>1. fetching'[d] = "no" /\ waiting' = {} /\ joined' = {} /\ wire' = <<>>
    OBVIOUS
  <2>2. d \in listed => spoilt'[d] = spoilt[d]
    BY DEF RingTypes
  <2> QED BY <2>1, <2>2, EmptyWire DEF Honest, Followed, Known
<1> QED BY <1>1, <1>2, <1>3

LEMMA JoinKept ==
    ASSUME HistoryInv, NEW c \in Convs, joinChan(c) PROVE HistoryInv'
<1>1. RingTypes /\ conv_for(c) /\ wire' = Append(wire, HistLine("JOIN", c, 0)) /\ live /\ live' = live
      /\ UNCHANGED <<joined, fetching, waiting, spoilt>>
  BY DEF HistoryInv, joinChan
<1>2. RingTypes'
  BY <1>1, Reopened, OtherSent DEF RingTypes
<1>3. Down'
  BY <1>1 DEF Down
<1>4. ASSUME NEW d \in Convs PROVE Honest(d)'
  <2>1. /\ listed' = listed \cup {c}
        /\ d # c \/ c \in listed => oldest'[d] = oldest[d] /\ done'[d] = done[d]
        /\ c \notin listed => ~done'[c]
    BY <1>1, Reopened
  <2>2. /\ Asks(wire', d) <=> Asks(wire, d)
        /\ Once(wire, d) => Once(wire', d)
        /\ \A p : PageIs(wire, d, p) => PageIs(wire', d, p)
    BY <1>1, OtherSent
  <2>3. Followed(d) /\ Known(d)
    BY DEF HistoryInv, Honest
  <2>4. Followed(d)'
    BY <1>1, <2>1, <2>2, <2>3 DEF Followed
  <2>5. Known(d)'
    <3>1. CASE d # c \/ c \in listed
      BY <1>1, <2>1, <2>2, <2>3, <3>1 DEF Known
    <3>2. CASE d = c /\ c \notin listed
      BY <1>1, <2>1, <2>2, <2>3, <3>2 DEF Known, Followed
    <3> QED BY <3>1, <3>2
  <2> QED BY <2>4, <2>5 DEF Honest
<1> QED BY <1>2, <1>3, <1>4 DEF HistoryInv

LEMMA PartKept ==
    ASSUME HistoryInv, NEW c \in Convs, partChan(c) PROVE HistoryInv'
<1>1. /\ RingTypes /\ wire' = Append(wire, HistLine("PART", c, 0)) /\ live /\ live' = live
      /\ listed' = listed \ {c} /\ waiting' = waiting \ {c} /\ IsFiniteSet(listed')
      /\ spoilt' = [spoilt EXCEPT ![c] = @ \cup {"left"}]
      /\ UNCHANGED <<joined, oldest, done, fetching>>
  BY FewKnown DEF HistoryInv, partChan
<1>2. spoilt' \in [Convs -> SUBSET {"left", "cleared", "refused", "swept"}] /\ "left" \in spoilt'[c]
      /\ \A d \in Convs : d # c => spoilt'[d] = spoilt[d]
  BY <1>1 DEF RingTypes
<1>3. RingTypes'
  BY <1>1, <1>2, OtherSent DEF RingTypes
<1>4. Down'
  BY <1>1 DEF Down
<1>5. ASSUME NEW d \in Convs PROVE Honest(d)'
  BY <1>1, <1>2, OtherSent DEF HistoryInv, Honest, Followed, Known
<1> QED BY <1>3, <1>4, <1>5 DEF HistoryInv

LEMMA SpokenKept ==
    ASSUME HistoryInv, NEW c \in Convs, Spoken(c) PROVE HistoryInv'
<1> DEFINE first == IF c \in listed /\ oldest[c] # Empty THEN oldest[c] ELSE Pages
<1>1. /\ RingTypes /\ live /\ c \in joined /\ listed' = listed \cup {c} /\ IsFiniteSet(listed')
      /\ UNCHANGED <<live, joined, fetching, wire, waiting, spoilt>>
      /\ oldest' = [oldest EXCEPT ![c] = first] /\ done' = [done EXCEPT ![c] = c \in listed /\ @]
  BY FewKnown DEF HistoryInv, Spoken
<1>2. first \in 1 .. Empty /\ 1 # Empty
  BY PagesCounted DEF HistoryInv, RingTypes
<1>3. /\ oldest' \in [Convs -> 1 .. Empty] /\ oldest'[c] = first
      /\ \A d \in Convs : d # c => oldest'[d] = oldest[d]
  BY <1>1, <1>2 DEF RingTypes
<1>4. done' \in [Convs -> BOOLEAN] /\ \A d \in Convs : done'[d] => done[d]
  BY <1>1 DEF RingTypes
<1>5. RingTypes'
  BY <1>1, <1>3, <1>4 DEF RingTypes
<1>6. Down'
  BY <1>1 DEF Down
<1>7. ASSUME NEW d \in Convs PROVE Honest(d)'
  <2>1. Followed(d) /\ Known(d)
    BY DEF HistoryInv, Honest
  <2>2. Followed(d)'
    BY <1>1, <2>1 DEF Followed
  <2>3. Known(d)'
    <3>1. CASE d # c
      <4>1. oldest'[d] = oldest[d] /\ (d \in listed' /\ done'[d] => d \in listed /\ done[d])
        BY <1>1, <1>3, <1>4, <3>1
      <4> QED BY <1>1, <2>1, <4>1 DEF Known
    <3>2. CASE d = c
      <4> SUFFICES ASSUME spoilt[d] = {} PROVE Known(d)'
        BY <1>1 DEF Known
      <4>1. d \in listed
        BY <1>1, <2>1, <3>2 DEF Followed
      <4>2. oldest[d] # Empty => oldest'[d] = oldest[d]
        BY <1>3, <3>2, <4>1
      <4>3. done'[d] => done[d]
        BY <1>4
      <4> QED BY <1>1, <1>2, <2>1, <4>1, <4>2, <4>3 DEF Known
    <3> QED BY <3>1, <3>2
  <2> QED BY <2>2, <2>3 DEF Honest
<1> QED BY <1>5, <1>6, <1>7 DEF HistoryInv

LEMMA ClearKept ==
    ASSUME HistoryInv, NEW c \in Convs, _clear_cmd(c) PROVE HistoryInv'
<1>1. /\ RingTypes /\ live /\ UNCHANGED <<live, listed, joined, fetching, wire, waiting>>
      /\ oldest' = [oldest EXCEPT ![c] = Empty] /\ done' = [done EXCEPT ![c] = FALSE]
      /\ spoilt' = [spoilt EXCEPT ![c] = @ \cup {"cleared"}]
  BY DEF HistoryInv, _clear_cmd
<1>2. oldest' \in [Convs -> 1 .. Empty] /\ \A d \in Convs : d # c => oldest'[d] = oldest[d]
  <2>1. Empty \in 1 .. Empty
    BY PagesCounted
  <2> QED BY <1>1, <2>1 DEF RingTypes
<1>3. done' \in [Convs -> BOOLEAN] /\ \A d \in Convs : d # c => done'[d] = done[d]
  BY <1>1 DEF RingTypes
<1>4. /\ spoilt' \in [Convs -> SUBSET {"left", "cleared", "refused", "swept"}] /\ spoilt'[c] # {}
      /\ \A d \in Convs : d # c => spoilt'[d] = spoilt[d]
      /\ \A d \in Convs : "left" \in spoilt'[d] <=> "left" \in spoilt[d]
  BY <1>1 DEF RingTypes
<1>5. RingTypes'
  BY <1>1, <1>2, <1>3, <1>4 DEF RingTypes
<1>6. Down'
  BY <1>1 DEF Down
<1>7. ASSUME NEW d \in Convs PROVE Honest(d)'
  <2>1. Followed(d) /\ Known(d)
    BY DEF HistoryInv, Honest
  <2>2. Followed(d)'
    BY <1>1, <1>4, <2>1 DEF Followed
  <2>3. CASE d = c
    BY <1>4, <2>2, <2>3 DEF Honest, Known
  <2>4. CASE d # c
    <3>1. oldest'[d] = oldest[d] /\ done'[d] = done[d] /\ spoilt'[d] = spoilt[d]
      BY <1>2, <1>3, <1>4, <2>4
    <3> QED BY <1>1, <2>1, <2>2, <3>1 DEF Honest, Known
  <2> QED BY <2>3, <2>4
<1> QED BY <1>5, <1>6, <1>7 DEF HistoryInv

LEMMA AskKept ==
    ASSUME HistoryInv, NEW c \in Convs, cmd_history(c) PROVE HistoryInv'
<1>1. /\ RingTypes /\ live /\ c \in listed /\ waiting' = waiting \cup {c}
      /\ UNCHANGED <<live, listed, joined, oldest, done, spoilt>>
  BY DEF HistoryInv, cmd_history
<1>2. CASE fetching[c] = "before" /\ UNCHANGED <<fetching, wire>>
  <2>1. RingTypes'
    BY <1>1, <1>2 DEF RingTypes
  <2>2. Down'
    BY <1>1 DEF Down
  <2>3. ASSUME NEW d \in Convs PROVE Honest(d)'
    BY <1>1, <1>2 DEF HistoryInv, Honest, Followed, Known
  <2> QED BY <2>1, <2>2, <2>3 DEF HistoryInv
<1>3. CASE fetching[c] = "no" /\ oldest[c] # Empty /\ fetch_history(c, "before", oldest[c], wire)
  <2>1. oldest[c] \in 0 .. Empty /\ wire \in Seq(HistLines)
    BY <1>1, PagesCounted DEF RingTypes
  <2>2. wire' \in Seq(HistLines) /\ fetching' \in [Convs -> {"no", "latest", "before"}]
    BY <1>1, <1>3, <2>1, Fetched
  <2>3. RingTypes'
    BY <1>1, <2>2 DEF RingTypes
  <2>4. Down'
    BY <1>1 DEF Down
  <2>5. ASSUME NEW d \in Convs PROVE Honest(d)'
    <3>1. Followed(d) /\ Known(d)
      BY DEF HistoryInv, Honest
    <3>2. CASE d = c
      <4>1. fetching'[d] = "before" /\ Asks(wire', d) /\ (~Asks(wire, d) => PageIs(wire', d, oldest[c]))
            /\ (Once(wire, d) /\ ~Asks(wire, d) => Once(wire', d))
        BY <1>1, <1>3, <2>1, <3>2, Fetched
      <4> QED BY <1>1, <1>3, <3>1, <3>2, <4>1 DEF Honest, Followed, Known
    <3>3. CASE d # c
      <4>1. /\ fetching'[d] = fetching[d] /\ (Asks(wire', d) <=> Asks(wire, d))
            /\ Once(wire, d) => Once(wire', d)
            /\ \A p : PageIs(wire, d, p) => PageIs(wire', d, p)
        BY <1>1, <1>3, <2>1, <3>3, Fetched
      <4> QED BY <1>1, <3>1, <3>3, <4>1 DEF Honest, Followed, Known
    <3> QED BY <3>2, <3>3
  <2> QED BY <2>3, <2>4, <2>5 DEF HistoryInv
<1> QED BY <1>2, <1>3 DEF cmd_history

LEMMA JoinedTwiceKept ==
    ASSUME HistoryInv, NEW c \in Convs, JoinedTwice(c) PROVE HistoryInv'
<1>1. /\ RingTypes /\ Answers("JOIN", c) /\ wire # <<>> /\ wire' = Tail(wire)
      /\ UNCHANGED <<live, listed, joined, oldest, done, fetching, waiting, spoilt>>
  BY DEF HistoryInv, JoinedTwice, Answers
<1>2. RingTypes'
  BY <1>1, HeadAnswered DEF RingTypes
<1>3. Down'
  BY <1>1 DEF HistoryInv, Down
<1>4. ASSUME NEW d \in Convs PROVE Honest(d)'
  BY <1>1, HeadAnswered DEF HistoryInv, Honest, Followed, Known
<1> QED BY <1>2, <1>3, <1>4 DEF HistoryInv

LEMMA PartedKept ==
    ASSUME HistoryInv, NEW c \in Convs, PartAnswered(c) PROVE HistoryInv'
<1>1. /\ RingTypes /\ Answers("PART", c) /\ wire # <<>> /\ wire' = Tail(wire)
      /\ joined' = joined \ {c} /\ listed' \in {listed, listed \ {c}}
      /\ IsFiniteSet(listed') /\ waiting' \subseteq waiting /\ waiting' \subseteq listed'
      /\ spoilt' = [spoilt EXCEPT ![c] = @ \cup {"left"}]
      /\ UNCHANGED <<live, oldest, done, fetching>>
  BY FewKnown DEF HistoryInv, RingTypes, PartAnswered, Answers
<1>2. /\ spoilt' \in [Convs -> SUBSET {"left", "cleared", "refused", "swept"}] /\ "left" \in spoilt'[c]
      /\ \A d \in Convs : d # c => spoilt'[d] = spoilt[d]
  BY <1>1 DEF RingTypes
<1>3. RingTypes'
  BY <1>1, <1>2, HeadAnswered DEF RingTypes
<1>4. Down'
  BY <1>1 DEF HistoryInv, Down
<1>5. ASSUME NEW d \in Convs PROVE Honest(d)'
  <2>1. CASE d = c
    BY <1>2, <2>1 DEF Honest, Followed, Known
  <2>2. CASE d # c
    BY <1>1, <1>2, <2>2, HeadAnswered DEF HistoryInv, Honest, Followed, Known
  <2> QED BY <2>1, <2>2
<1> QED BY <1>3, <1>4, <1>5 DEF HistoryInv

LEMMA AdmittedKept ==
    ASSUME HistoryInv, NEW c \in Convs, JoinAnswered(c) PROVE HistoryInv'
<1> DEFINE w == Tail(wire)
<1>1. /\ RingTypes /\ Answers("JOIN", c) /\ wire # <<>> /\ joined' = joined \cup {c} /\ conv_for(c)
      /\ fetch_history(c, "latest", Latest, w) /\ UNCHANGED <<live, waiting, spoilt>>
  BY DEF HistoryInv, JoinAnswered, Answers
<1>2. w \in Seq(HistLines) /\ Latest \in 0 .. Empty
  BY <1>1, HeadAnswered, PagesCounted
<1>3. \A d : /\ Asks(wire, d) <=> Asks(w, d)
             /\ Once(wire, d) => Once(w, d)
             /\ \A p : PageIs(wire, d, p) => PageIs(w, d, p)
  BY <1>1, HeadAnswered
<1> HIDE DEF w
<1>4. live /\ live' = live
  BY <1>1 DEF HistoryInv, Down
<1>5. RingTypes'
  <2>1. /\ listed' = listed \cup {c} /\ IsFiniteSet(listed') /\ listed' \subseteq Convs
        /\ oldest' \in [Convs -> 1 .. Empty] /\ done' \in [Convs -> BOOLEAN]
    BY <1>1, Reopened
  <2>2. wire' \in Seq(HistLines) /\ fetching' \in [Convs -> {"no", "latest", "before"}]
    BY <1>1, <1>2, Fetched
  <2> QED BY <1>1, <1>4, <2>1, <2>2 DEF RingTypes
<1>6. Down'
  BY <1>4 DEF Down
<1>7. ASSUME NEW d \in Convs PROVE Honest(d)'
  <2>1. Followed(d) /\ Known(d)
    BY DEF HistoryInv, Honest
  <2>2. /\ listed' = listed \cup {c}
        /\ d # c \/ c \in listed => oldest'[d] = oldest[d] /\ done'[d] = done[d]
        /\ c \notin listed => ~done'[c]
    BY <1>1, Reopened
  <2>3. CASE d # c \/ fetching[c] # "no"
    <3>1. /\ fetching'[d] = fetching[d] /\ (Asks(wire', d) <=> Asks(w, d))
          /\ Once(w, d) => Once(wire', d)
          /\ \A p : PageIs(w, d, p) => PageIs(wire', d, p)
      BY <1>1, <1>2, <2>3, Fetched
    <3>2. Followed(d)'
      BY <1>1, <1>3, <2>1, <2>2, <3>1 DEF Followed
    <3>3. Known(d)'
      <4>1. CASE d # c \/ c \in listed
        BY <1>1, <1>3, <2>1, <2>2, <3>1, <4>1 DEF Known
      <4>2. CASE d = c /\ c \notin listed
        BY <1>1, <2>1, <2>3, <4>2 DEF Known, Followed
      <4> QED BY <4>1, <4>2
    <3> QED BY <3>2, <3>3 DEF Honest
  <2>4. CASE d = c /\ fetching[c] = "no"
    <3>1. fetching'[d] = "latest" /\ Asks(wire', d) /\ (~Asks(w, d) => PageIs(wire', d, Latest))
          /\ (Once(w, d) /\ ~Asks(w, d) => Once(wire', d))
      BY <1>1, <1>2, <2>4, Fetched
    <3>2. Followed(d)'
      BY <1>1, <2>1, <2>2, <2>4, <3>1 DEF Followed
    <3>3. d \in listed' /\ done'[d] => d \in listed /\ done[d] /\ oldest'[d] = oldest[d]
      BY <2>2, <2>4
    <3>4. Known(d)'
      BY <1>1, <1>3, <2>1, <2>4, <3>1, <3>3 DEF Known
    <3> QED BY <3>2, <3>4 DEF Honest
  <2> QED BY <2>3, <2>4
<1> QED BY <1>5, <1>6, <1>7 DEF HistoryInv

\* An answer to c's request: of an unspoilt one, the page it asked for.
LEMMA BatchKept ==
    ASSUME HistoryInv, NEW c \in Convs, on_BATCH(c) PROVE HistoryInv'
<1> DEFINE page == Head(wire).page
           which == IF fetching[c] = "no" THEN "latest" ELSE fetching[c]
<1>1. /\ RingTypes /\ Answers("CHATHISTORY", c) /\ wire # <<>> /\ wire' = Tail(wire) /\ c \in joined
      /\ UNCHANGED <<live, listed, joined, spoilt>>
  BY DEF HistoryInv, on_BATCH, Answers
<1>2. /\ wire' \in Seq(HistLines) /\ page \in 0 .. Empty
      /\ \A d : /\ Asks(wire, d) <=> c = d \/ Asks(wire', d)
                /\ Once(wire, d) => Once(wire', d) /\ (c = d => ~Asks(wire', d))
                /\ \A p : PageIs(wire, d, p) => PageIs(wire', d, p) /\ (c = d => page = p)
  BY <1>1, HeadAnswered
<1>3. Down'
  BY <1>1 DEF HistoryInv, Down
<1>4. \A d \in Convs : Followed(d) /\ Known(d)
  BY DEF HistoryInv, Honest
<1>5. CASE c \notin listed
  <2>1. UNCHANGED <<oldest, done, fetching, waiting>>
    BY <1>5 DEF on_BATCH
  <2>2. RingTypes'
    BY <1>1, <1>2, <2>1 DEF RingTypes
  <2>3. "left" \in spoilt[c]
    BY <1>1, <1>4, <1>5 DEF Followed
  <2>4. ASSUME NEW d \in Convs PROVE Honest(d)'
    <3>1. CASE d = c
      BY <1>1, <2>3, <3>1 DEF Honest, Followed, Known
    <3>2. CASE d # c
      BY <1>1, <1>2, <1>4, <2>1, <3>2 DEF Honest, Followed, Known
    <3> QED BY <3>1, <3>2
  <2> QED BY <1>3, <2>2, <2>4 DEF HistoryInv
<1>6. CASE c \in listed
  <2>1. /\ fetching' = [fetching EXCEPT ![c] = "no"]
        /\ oldest' = [oldest EXCEPT ![c] = Held(c, page)]
        /\ done' = [done EXCEPT ![c] = @ \/ (which = "before" /\ ~New(c, page))]
        /\ waiting' = IF which = "before" THEN waiting \ {c} ELSE waiting
    BY <1>6 DEF on_BATCH, Settle
  <2>2. fetching' \in [Convs -> {"no", "latest", "before"}] /\ fetching'[c] = "no"
        /\ \A d \in Convs : d # c => fetching'[d] = fetching[d]
    BY <1>1, <2>1 DEF RingTypes
  <2>3. Pages \in Nat /\ Empty = Pages + 1 /\ Latest = Empty /\ page \in Nat /\ oldest[c] \in 1 .. Empty
    BY <1>1, <1>2, PagesCounted DEF RingTypes
  <2>4. Held(c, page) \in 1 .. Empty
    BY <1>2, <2>3 DEF Held, New
  <2>5. /\ oldest' \in [Convs -> 1 .. Empty] /\ oldest'[c] = Held(c, page)
        /\ \A d \in Convs : d # c => oldest'[d] = oldest[d]
    BY <1>1, <2>1, <2>4 DEF RingTypes
  <2>6. /\ done' \in [Convs -> BOOLEAN]
        /\ done'[c] => done[c] \/ (which = "before" /\ ~New(c, page))
        /\ \A d \in Convs : d # c => done'[d] = done[d]
    BY <1>1, <2>1 DEF RingTypes
  <2>7. waiting' \subseteq waiting /\ \A d : d \in waiting' /\ d = c => which # "before"
    BY <2>1
  <2>8. RingTypes'
    BY <1>1, <1>2, <2>2, <2>5, <2>6, <2>7 DEF RingTypes
  <2>9. ASSUME NEW d \in Convs PROVE Honest(d)'
    <3>1. CASE d # c
      <4>1. fetching'[d] = fetching[d] /\ oldest'[d] = oldest[d] /\ done'[d] = done[d]
            /\ (d \in waiting' => d \in waiting)
        BY <2>2, <2>5, <2>6, <2>7, <3>1
      <4> QED BY <1>1, <1>2, <1>4, <3>1, <4>1 DEF Honest, Followed, Known
    <3>2. CASE d = c
      <4>1. Followed(d)'
        BY <1>1, <1>4, <1>6, <2>2, <2>7, <3>2 DEF Followed
      <4>2. Known(d)'
        <5> SUFFICES ASSUME spoilt[c] = {} PROVE Known(d)'
          BY <1>1, <3>2 DEF Known
        <5>1. Asks(wire, c) /\ Once(wire, c)
          BY <1>2, <1>4 DEF Known
        <5>2. fetching[c] = "before" => page = oldest[c] /\ oldest[c] # Empty
          BY <1>2, <1>4 DEF Known
        <5>3. fetching[c] # "no"
          BY <1>4, <5>1 DEF Known
        <5>4. ~Asks(wire', d) /\ Once(wire', d)
          BY <1>2, <3>2, <5>1
        <5>5. ASSUME done'[c] PROVE oldest'[c] = 1
          <6>1. CASE done[c]
            <7>1. oldest[c] = 1
              BY <1>4, <1>6, <6>1 DEF Known
            <7>2. ~New(c, page)
              BY <2>3, <7>1 DEF New
            <7> QED BY <2>5, <7>1, <7>2 DEF Held
          <6>2. CASE which = "before" /\ ~New(c, page)
            <7>1. page = oldest[c]
              BY <5>2, <6>2
            <7>2. oldest[c] = 1
              BY <2>3, <6>2, <7>1 DEF New
            <7> QED BY <2>5, <6>2, <7>2 DEF Held
          <6> QED BY <2>6, <5>5, <6>1, <6>2
        <5> QED BY <2>2, <3>2, <5>4, <5>5 DEF Known
      <4> QED BY <4>1, <4>2 DEF Honest
    <3> QED BY <3>1, <3>2
  <2> QED BY <1>3, <2>8, <2>9 DEF HistoryInv
<1> QED BY <1>5, <1>6

\* A refusal: whatever was asked is forgotten, and the conversation spoilt.
LEMMA RefusalKept ==
    ASSUME HistoryInv, NEW c \in Convs, on_FAIL(c) PROVE HistoryInv'
<1>1. /\ RingTypes /\ Answers("CHATHISTORY", c) /\ wire # <<>> /\ wire' = Tail(wire)
      /\ fetching' = [d \in Convs |-> "no"]
      /\ done' = [d \in Convs |-> done[d] \/ d \in AskedBefore \cap listed]
      /\ waiting' = waiting \ AskedBefore
      /\ UNCHANGED <<live, listed, joined, oldest>>
  BY DEF HistoryInv, on_FAIL, Answers
<1>2. /\ spoilt' \in [Convs -> SUBSET {"left", "cleared", "refused", "swept"}]
      /\ \A d \in Convs : "left" \in spoilt'[d] <=> "left" \in spoilt[d]
      /\ \A d \in Convs : spoilt'[d] = {} => spoilt[d] = {} /\ d # c /\ fetching[d] = "no"
  BY DEF HistoryInv, RingTypes, on_FAIL, BeingAsked
<1>3. /\ done' \in [Convs -> BOOLEAN]
      /\ \A d \in Convs : fetching[d] = "no" => (done'[d] <=> done[d])
  BY <1>1 DEF RingTypes, AskedBefore
<1>4. fetching' \in [Convs -> {"no", "latest", "before"}] /\ \A d \in Convs : fetching'[d] = "no"
  BY <1>1
<1>5. /\ wire' \in Seq(HistLines)
      /\ \A d : /\ Asks(wire, d) <=> c = d \/ Asks(wire', d)
                /\ Once(wire, d) => Once(wire', d)
  BY <1>1, HeadAnswered
<1>6. RingTypes'
  BY <1>1, <1>2, <1>3, <1>4, <1>5 DEF RingTypes
<1>7. Down'
  BY <1>1 DEF HistoryInv, Down
<1>8. ASSUME NEW d \in Convs PROVE Honest(d)'
  <2>1. Followed(d) /\ Known(d)
    BY DEF HistoryInv, Honest
  <2>2. d \in waiting' => d \in waiting /\ fetching[d] # "before"
    BY <1>1 DEF AskedBefore
  <2>3. Followed(d)'
    BY <1>1, <1>2, <1>4, <2>1, <2>2 DEF Followed
  <2>4. Known(d)'
    <3> SUFFICES ASSUME spoilt'[d] = {} PROVE Known(d)'
      BY DEF Known
    <3>1. spoilt[d] = {} /\ d # c /\ fetching[d] = "no" /\ (done'[d] <=> done[d])
      BY <1>2, <1>3
    <3> QED BY <1>1, <1>4, <1>5, <2>1, <3>1 DEF Known
  <2> QED BY <2>3, <2>4 DEF Honest
<1> QED BY <1>6, <1>7, <1>8 DEF HistoryInv

LEMMA HistoryStep == HistoryInv /\ [HistNext]_histVars => HistoryInv'
<1> SUFFICES ASSUME HistoryInv, [HistNext]_histVars PROVE HistoryInv'
  OBVIOUS
<1>1. CASE UNCHANGED histVars
  <2>1. RingTypes' /\ Down'
    BY <1>1 DEF histVars, HistoryInv, RingTypes, Down
  <2>2. ASSUME NEW d \in Convs PROVE Honest(d)'
    BY <1>1 DEF histVars, HistoryInv, Honest, Followed, Known
  <2> QED BY <2>1, <2>2 DEF HistoryInv
<1>2. ASSUME NEW c \in Convs,
             \/ joinChan(c) \/ partChan(c) \/ Spoken(c) \/ _clear_cmd(c) \/ cmd_history(c)
             \/ JoinAnswered(c) \/ JoinedTwice(c) \/ PartAnswered(c) \/ on_BATCH(c) \/ on_FAIL(c)
      PROVE  HistoryInv'
  BY <1>2, JoinKept, PartKept, SpokenKept, ClearKept, AskKept, AdmittedKept, JoinedTwiceKept, PartedKept,
     BatchKept, RefusalKept
<1> QED BY <1>1, <1>2, WelcomeKept, CloseKept DEF HistNext

\* HistoryIsHonest (cmd_history, on_BATCH, on_FAIL), for any channels, pages
\* and lines unanswered: whoever was told that the server is being asked has a
\* request under way, unless the conversation was left; and history_done says
\* that nothing is older only when it is so, unless it was left, cleared,
\* refused or swept up in a refusal.
THEOREM HistoryAlwaysHonest ==
    HistSpec => []HistoryIsHonest
<1>1. HistoryInv => HistoryIsHonest
  <2> SUFFICES ASSUME HistoryInv PROVE HistoryIsHonest
    OBVIOUS
  <2>1. AskingUnlessLeft
    <3> SUFFICES ASSUME NEW c \in waiting, "left" \notin spoilt[c] PROVE Requested(c)
      BY DEF AskingUnlessLeft
    <3>1. c \in Convs
      BY DEF HistoryInv, RingTypes
    <3>2. Asks(wire, c)
      BY <3>1 DEF HistoryInv, Honest, Followed
    <3> QED BY <3>2 DEF Asks, IsReq, Requested
  <2>2. DoneUnlessSpoilt
    BY DEF HistoryInv, RingTypes, Honest, Known, DoneUnlessSpoilt
  <2> QED BY <2>1, <2>2 DEF HistoryIsHonest
<1>2. HistInit => HistoryInv
  BY HistoryBegins
<1>3. HistoryInv /\ [HistNext]_histVars => HistoryInv'
  BY HistoryStep
<1> QED BY <1>1, <1>2, <1>3, PTL DEF HistSpec
==============================================================================
