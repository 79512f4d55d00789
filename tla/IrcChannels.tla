---------------------------- MODULE IrcChannels ----------------------------
(***************************************************************************)
(* Which channels the IRC adapter of tvchat-backend is in, is on its way   *)
(* into or out of, and will go back to: the conversations the program      *)
(* lists, the autojoin list, the server's own membership, and the two FIFO *)
(* streams of lines between them.  The program updates its lists when it   *)
(* SENDS a line (part, join) and again when the server's echo comes back;  *)
(* in between, lines written before the server saw ours still arrive, and  *)
(* the connection may go.                                                  *)
(*                                                                         *)
(* Abstracted: nicks (one administrator invites), message texts, members   *)
(* and roles, the greeting and the refusal a bot says (they change nothing *)
(* here), server-side history (IrcHistory) and the phases of a connection  *)
(* (IrcConnection): here it is up or down, and a new one starts empty.     *)
(* outbound is flood control's queue and the wire together.                *)
(***************************************************************************)
EXTENDS Naturals, Sequences, FiniteSets, SequencesExt

CONSTANTS
    Chans,          \* the channels
    Configured,     \* channels = in the configuration: joined on connecting
    Bot,            \* bot = yes
    Policy,         \* invite_policy(): "any", "no" or "ops"
    NoChan,         \* no invitation is being weighed
    MaxToServer,    \* bound: lines on their way to the server
    MaxToClient     \* bound: lines on their way to the program

ASSUME ChannelsAssumption ==
    /\ Configured \subseteq Chans /\ IsFiniteSet(Configured)
    /\ Bot \in BOOLEAN
    /\ Policy \in {"any", "no", "ops"}
    /\ NoChan \notin Chans
    /\ MaxToServer \in Nat \ {0} /\ MaxToClient \in Nat \ {0}

VARIABLES
    online,     \* phase = "up": registered
    convs,      \* channels with an open conversation (account.convs)
    channels,   \* the autojoin list (self.channels)
    vetting,    \* the channel whose invitation awaits a WHOIS, or NoChan
    inChan,     \* the server's side: channels we are in
    outbound,   \* lines sent and not yet read by the server
    inbound,    \* lines the server sent and we have not yet read
    away        \* ghost: "kicked" (a bot was put out), "left" (we left), "no"

chanVars == <<online, convs, channels, vetting, inChan, outbound, inbound, away>>
local == <<convs, channels, vetting, away>>

ChanLine(cmd, c) == [cmd |-> cmd, chan |-> c]
Sent(c) == ChanLine("JOIN", c) \in Range(outbound)
Fits == Len(outbound) < MaxToServer
Queue(ln) == outbound' = Append(outbound, ln)
AskedBack(c) == away' = [away EXCEPT ![c] = "no"]

ChannelsInit ==
    /\ online = FALSE
    /\ convs = {} /\ channels = Configured /\ vetting = NoChan
    /\ inChan = {} /\ outbound = <<>> /\ inbound = <<>>
    /\ away = [c \in Chans |-> "no"]

-----------------------------------------------------------------------------
(* The connection                                                          *)

\* on_welcome: the autojoin list, then every channel still open.
rejoin ==
    /\ ~online
    /\ online' = TRUE
    /\ outbound' = [i \in DOMAIN SetToSeq(channels \cup convs) |->
                      ChanLine("JOIN", SetToSeq(channels \cup convs)[i])]
    /\ away' = [c \in Chans |-> IF away[c] = "left" THEN "no" ELSE away[c]]
    /\ UNCHANGED <<convs, channels, vetting, inChan, inbound>>

\* Mutant: The old connection's lines stay in flood control's queue.
CloseKeepsQueue ==
    /\ online
    /\ online' = FALSE
    /\ inChan' = {} /\ inbound' = <<>>
    /\ UNCHANGED <<outbound, local>>

\* The connection is lost, or given up by the user: what was on the wire or
\* in flood control's queue is gone.  Conversations stay open.
_close ==
    /\ online
    /\ online' = FALSE
    /\ inChan' = {} /\ outbound' = <<>> /\ inbound' = <<>>
    /\ UNCHANGED local

-----------------------------------------------------------------------------
(* What the user asks for                                                  *)

\* `join` and a typed /join: the conversation is opened before any answer.
join(c) ==
    /\ online /\ Fits
    /\ Queue(ChanLine("JOIN", c))
    /\ convs' = convs \cup {c}
    /\ AskedBack(c)
    /\ UNCHANGED <<online, channels, vetting, inChan, inbound>>

\* An invitation accepted while down: joined once registered.
accept_invite(c) ==
    /\ ~online
    /\ channels' = channels \cup {c}
    /\ AskedBack(c)
    /\ UNCHANGED <<online, convs, vetting, inChan, outbound, inbound>>

\* `part`: a bot also forgets the autojoin entry.
part(c) ==
    /\ c \in convs
    /\ online => Fits
    /\ IF online THEN Queue(ChanLine("PART", c)) ELSE UNCHANGED outbound
    /\ channels' = IF Bot THEN channels \ {c} ELSE channels
    /\ convs' = convs \ {c}
    /\ away' = [away EXCEPT ![c] = "left"]
    /\ UNCHANGED <<online, vetting, inChan, inbound>>

\* A typed /leave: the same without forgetting.
_part_cmd(c) ==
    /\ online /\ c \in convs /\ Fits
    /\ Queue(ChanLine("PART", c))
    /\ convs' = convs \ {c}
    /\ UNCHANGED <<online, channels, vetting, inChan, inbound, away>>

-----------------------------------------------------------------------------
(* The server: reads our lines in order, and tells what happens            *)

Reads(cmd) == outbound # <<>> /\ Head(outbound).cmd = cmd
              /\ Len(inbound) < MaxToClient /\ outbound' = Tail(outbound)
Tells(ln) == inbound' = Append(inbound, ln)

ServerAdmits ==
    /\ Reads("JOIN") /\ Head(outbound).chan \notin inChan
    /\ inChan' = inChan \cup {Head(outbound).chan}
    /\ Tells(Head(outbound))
    /\ UNCHANGED <<online, local>>

\* Already in, or refused (+i, +k, +b, ...): at most a numeric for the server
\* window.
ServerIgnoresJoin ==
    /\ Reads("JOIN")
    /\ UNCHANGED <<online, local, inChan, inbound>>

ServerParts ==
    /\ Reads("PART")
    /\ inChan' = inChan \ {Head(outbound).chan}
    /\ IF Head(outbound).chan \in inChan THEN Tells(Head(outbound))
                                         ELSE UNCHANGED inbound
    /\ UNCHANGED <<online, local>>

\* 330: the inviter's services account; only 318 (the end): not logged in.
ServerAnswersWhois ==
    /\ Reads("WHOIS")
    /\ \E n \in {"330", "318"} : Tells(ChanLine(n, Head(outbound).chan))
    /\ UNCHANGED <<online, local, inChan>>

\* Someone speaks in a channel, an operator kicks us, the administrator
\* invites us: with the services account on the line (INVITE) or without
\* (INVITE-bare).
ServerTells(cmd, c) ==
    /\ online /\ Len(inbound) < MaxToClient
    /\ \/ cmd = "PRIVMSG" /\ c \in inChan /\ UNCHANGED inChan
       \/ cmd = "KICK" /\ c \in inChan /\ inChan' = inChan \ {c}
       \/ cmd \in {"INVITE", "INVITE-bare"} /\ c \notin inChan /\ UNCHANGED inChan
    /\ Tells(ChanLine(cmd, c))
    /\ UNCHANGED <<online, outbound, local>>

-----------------------------------------------------------------------------
(* The program reads a line                                                *)

Gets(cmd, c) == inbound # <<>> /\ Head(inbound) = ChanLine(cmd, c)
                /\ inbound' = Tail(inbound)

\* Mutant: on_JOIN looks the conversation up and opens none.
JoinEchoFinds(c) ==
    /\ Gets("JOIN", c)
    /\ UNCHANGED <<online, convs, channels, vetting, inChan, outbound, away>>

on_JOIN(c) ==
    /\ Gets("JOIN", c)
    /\ convs' = convs \cup {c}
    /\ UNCHANGED <<online, channels, vetting, inChan, outbound, away>>

\* Mutant: on_PART pops nothing: part() already did.
PartEchoIgnored(c) ==
    /\ Gets("PART", c)
    /\ UNCHANGED <<online, convs, channels, vetting, inChan, outbound, away>>

on_PART(c) ==
    /\ Gets("PART", c)
    /\ convs' = convs \ {c}
    /\ UNCHANGED <<online, channels, vetting, inChan, outbound, away>>

\* What the server writes to a channel opens its conversation.
on_PRIVMSG(c) ==
    /\ Gets("PRIVMSG", c)
    /\ convs' = convs \cup {c}
    /\ UNCHANGED <<online, channels, vetting, inChan, outbound, away>>

\* Mutant: Only the conversation goes, not the autojoin entry.
ForgetConvOnly(c) ==
    /\ channels' = channels
    /\ convs' = convs \ {c}

forget_channel(c) ==
    /\ channels' = channels \ {c}
    /\ convs' = convs \ {c}

\* The ghost marks a bot that was put out and has not asked, or been asked,
\* to come back: no JOIN of its own is still on the way.
on_KICK(c) ==
    /\ Gets("KICK", c)
    /\ IF Bot /\ c \in convs
         THEN /\ forget_channel(c)
              /\ IF Sent(c) \/ ChanLine("JOIN", c) \in Range(Tail(inbound))
                   THEN UNCHANGED away
                   ELSE away' = [away EXCEPT ![c] = "kicked"]
         ELSE UNCHANGED <<convs, channels, away>>
    /\ UNCHANGED <<online, vetting, inChan, outbound>>

\* An invitation that is taken: a JOIN, unless a conversation is open.
TakeInvite(c) ==
    /\ AskedBack(c)
    /\ IF c \in convs THEN UNCHANGED outbound
                      ELSE Fits /\ Queue(ChanLine("JOIN", c))

on_INVITE(c) ==
    /\ Gets("INVITE", c) \/ (Policy # "ops" /\ Gets("INVITE-bare", c))
    /\ IF Policy = "no" THEN UNCHANGED <<outbound, away>> ELSE TakeInvite(c)
    /\ UNCHANGED <<online, convs, channels, vetting, inChan>>

\* No account tag: ask the server who that is.
on_INVITE_bare(c) ==
    /\ Gets("INVITE-bare", c) /\ Policy = "ops" /\ Fits
    /\ vetting' = c
    /\ Queue(ChanLine("WHOIS", c))
    /\ UNCHANGED <<online, convs, channels, inChan, away>>

\* vet_invite of the channel being weighed, if one still is: taken on a 330,
\* refused when the WHOIS ends without one.
on_330 ==
    /\ \E c \in Chans : Gets("330", c)
    /\ IF vetting = NoChan THEN UNCHANGED <<outbound, away>> ELSE TakeInvite(vetting)
    /\ vetting' = NoChan
    /\ UNCHANGED <<online, convs, channels, inChan>>

on_318 ==
    /\ \E c \in Chans : Gets("318", c)
    /\ vetting' = NoChan
    /\ UNCHANGED <<online, convs, channels, inChan, outbound, away>>

-----------------------------------------------------------------------------
ChannelsNext ==
    \/ rejoin \/ _close
    \/ ServerAdmits \/ ServerIgnoresJoin \/ ServerParts \/ ServerAnswersWhois
    \/ on_330 \/ on_318
    \/ \E c \in Chans :
         \/ join(c) \/ accept_invite(c) \/ part(c) \/ _part_cmd(c)
         \/ \E cmd \in {"PRIVMSG", "KICK", "INVITE", "INVITE-bare"} :
              ServerTells(cmd, c)
         \/ on_JOIN(c) \/ on_PART(c) \/ on_PRIVMSG(c) \/ on_KICK(c)
         \/ on_INVITE(c) \/ on_INVITE_bare(c)

ChannelsSpec == ChannelsInit /\ [][ChannelsNext]_chanVars

-----------------------------------------------------------------------------
(* Properties                                                              *)

ToServer == [cmd : {"JOIN", "PART", "WHOIS"}, chan : Chans]
ToClient == [cmd : {"JOIN", "PART", "PRIVMSG", "KICK", "INVITE",
                    "INVITE-bare", "330", "318"}, chan : Chans]

\* Nothing is on the way in a connection that is down: the lists alone decide
\* what the next one asks for (_reset).
ChannelTypes ==
    /\ online \in BOOLEAN
    /\ convs \subseteq Chans /\ channels \subseteq Chans /\ inChan \subseteq Chans
    /\ vetting \in Chans \cup {NoChan}
    /\ outbound \in Seq(ToServer) /\ inbound \in Seq(ToClient)
    /\ away \in [Chans -> {"no", "kicked", "left"}]
    /\ ~online => inChan = {} /\ outbound = <<>> /\ inbound = <<>>

Settled == online /\ outbound = <<>> /\ inbound = <<>>

\* Once both streams are read, every channel the server has us in has a
\* conversation: whatever order joins, leaves, kicks and messages crossed in,
\* nobody speaks in a room we do not show (on_JOIN, on_PART, part).
EveryChannelListed == Settled => inChan \subseteq convs

\* A channel left on this connection is left on the server once both streams
\* are read, and is not listed either, even when messages written meanwhile
\* reopened its conversation (part, on_PRIVMSG, on_PART).  A kick that crosses
\* the leaving puts an end to the latter but where a bot is kicked: a person's
\* conversation stays open.
PartTakes ==
    Settled => \A c \in Chans :
        away[c] = "left" => c \notin inChan /\ (Bot => c \notin convs)

\* A bot that was kicked is not listed, not on its way and not going back at
\* any later connect until it is asked or invited again: "never back unless
\* invited again" (on_KICK, forget_channel).
KickedStaysOut ==
    \A c \in Chans : away[c] = "kicked" =>
        /\ c \notin convs \cup channels \cup inChan
        /\ ChanLine("JOIN", c) \notin Range(outbound) \cup Range(inbound)

\* Whatever crossed on the wire, what the server has us in is listed, what was
\* left on this connection is left, and where a bot was kicked it stays out
\* until it is asked or invited again.
ChannelsAgree == EveryChannelListed /\ PartTakes /\ KickedStaysOut
=============================================================================
