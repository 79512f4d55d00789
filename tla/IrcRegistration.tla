-------------------------- MODULE IrcRegistration --------------------------
(***************************************************************************)
(* Registration in the IRC adapter of tvchat-backend: CAP LS in one or     *)
(* several lines, REQ, ACK or NAK, the SASL login, and the CAP END that    *)
(* the server waits for before it welcomes us.  Several answers may end    *)
(* the negotiation, some of them twice, and a capability may be withdrawn  *)
(* at any moment; a lost connection starts all over.                       *)
(*                                                                         *)
(* The two streams keep their order.  A capability that is offered is one  *)
(* of WANT_CAPS; "sasl" offered without PLAIN counts as not offered, as    *)
(* on_CAP takes it out again.  The pieces of the AUTHENTICATE blob are one *)
(* line, and 903 stands for 903 and 907, 904 for 902, 904 to 906 and 908.  *)
(***************************************************************************)
EXTENDS Naturals, Sequences

CONSTANTS
    Caps,       \* WANT_CAPS, "sasl" among them
    MaxNick     \* bound: nicks the server refuses on one connection

ASSUME RegistrationAssumption == "sasl" \in Caps /\ MaxNick \in Nat

VARIABLES
    phase,      \* "down", "registering" or "up"
    login,      \* sasl_user and password: connect() found both
    offered, lsAcc, caps, capDone,  \* self.offered, ls_acc, caps, cap_done
    nick,       \* underscores added to want_nick
    toServer, toClient,             \* lines under way
    server,     \* the server's side of this connection
    ends        \* ghost: CAP ENDs sent on this connection

negVars == <<offered, lsAcc, caps>>
regVars == <<phase, login, offered, lsAcc, caps, capDone, nick, toServer, toClient,
             server, ends>>

Line(cmd, what) == [cmd |-> cmd, what |-> what]
Bare(cmd) == Line(cmd, {})

\* Registration is held up while negotiation = "open"; auth is the SASL login:
\* "no", "acked" (the capability is), "asked" (AUTHENTICATE read), "answered".
NewServer == [offer |-> {}, enabled |-> {}, negotiation |-> "none",
              auth |-> "no", nick |-> MaxNick + 1]

RegInit ==
    /\ phase = "down" /\ login = FALSE
    /\ offered = {} /\ lsAcc = {} /\ caps = {} /\ capDone = FALSE /\ nick = 0
    /\ toServer = <<>> /\ toClient = <<>> /\ server = NewServer /\ ends = 0

-----------------------------------------------------------------------------
\* The connection is up, over TLS or not.
_register ==
    /\ phase = "down"
    /\ phase' = "registering"
    /\ login' \in BOOLEAN
    /\ toServer' = <<Bare("LS"), Line("NICK", nick)>>
    /\ UNCHANGED <<negVars, capDone, nick, toClient, server, ends>>

\* Mutant: cap_done is not among what is reset.
ResetKeepsDone ==
    /\ phase # "down"
    /\ phase' = "down"
    /\ offered' = {} /\ lsAcc' = {} /\ caps' = {} /\ nick' = 0
    /\ toServer' = <<>> /\ toClient' = <<>> /\ server' = NewServer /\ ends' = 0
    /\ UNCHANGED <<login, capDone>>

\* Lost, refused, too slow or disconnected: _close.
_reset ==
    /\ phase # "down"
    /\ phase' = "down"
    /\ offered' = {} /\ lsAcc' = {} /\ caps' = {} /\ nick' = 0
    /\ capDone' = FALSE
    /\ toServer' = <<>> /\ toClient' = <<>> /\ server' = NewServer /\ ends' = 0
    /\ UNCHANGED login

Say(line) == toServer' = Append(toServer, line)

\* Mutant: whatever ends the negotiation says so.
CapEndAgain ==
    IF phase = "registering"
      THEN capDone' = TRUE /\ Say(Bare("END")) /\ ends' = ends + 1
      ELSE UNCHANGED <<capDone, toServer, ends>>

cap_end ==
    IF ~capDone /\ phase = "registering"
      THEN capDone' = TRUE /\ Say(Bare("END")) /\ ends' = ends + 1
      ELSE UNCHANGED <<capDone, toServer, ends>>

\* One line from the server, which the handlers below take.
Take(cmd) ==
    /\ phase # "down" /\ toClient # <<>> /\ Head(toClient).cmd = cmd
    /\ toClient' = Tail(toClient)
    /\ UNCHANGED <<login, server>>

Given == Head(toClient).what

on_CAP_LS_more ==
    /\ Take("LS *")
    /\ lsAcc' = lsAcc \cup Given
    /\ UNCHANGED <<phase, offered, caps, capDone, nick, toServer, ends>>

on_CAP_LS ==
    /\ Take("LS")
    /\ offered' = offered \cup lsAcc \cup Given
    /\ lsAcc' = {}
    /\ LET want == offered' \ (IF login THEN {} ELSE {"sasl"})
       IN IF want # {}
            THEN Say(Line("REQ", want)) /\ UNCHANGED <<capDone, ends>>
            ELSE cap_end
    /\ UNCHANGED <<phase, caps, nick>>

\* Mutant: a request that was granted ends the negotiation.
AckEnds ==
    /\ Take("ACK")
    /\ caps' = caps \cup Given
    /\ cap_end
    /\ UNCHANGED <<phase, offered, lsAcc, nick>>

on_CAP_ACK ==
    /\ Take("ACK")
    /\ caps' = caps \cup Given
    /\ IF "sasl" \in caps' /\ phase = "registering" /\ ~capDone
         THEN Say(Bare("AUTHENTICATE PLAIN")) /\ UNCHANGED <<capDone, ends>>
         ELSE cap_end
    /\ UNCHANGED <<phase, offered, lsAcc, nick>>

on_CAP_NAK == Take("NAK") /\ cap_end /\ UNCHANGED <<phase, negVars, nick>>

on_CAP_DEL ==
    /\ Take("DEL")
    /\ caps' = caps \ Given
    /\ UNCHANGED <<phase, offered, lsAcc, capDone, nick, toServer, ends>>

on_AUTHENTICATE ==
    /\ Take("+")
    /\ Say(Bare("AUTHENTICATE"))
    /\ UNCHANGED <<phase, negVars, capDone, nick, ends>>

on_SASL ==
    /\ Take("903") \/ Take("904")
    /\ cap_end
    /\ UNCHANGED <<phase, negVars, nick>>

\* 432, 433, 436, 437; once up, a refused nick is only shown.
on_433 ==
    /\ phase = "registering" /\ Take("433")
    /\ nick' = nick + 1
    /\ Say(Line("NICK", nick'))
    /\ UNCHANGED <<phase, negVars, capDone, ends>>

on_welcome ==
    /\ Take("001")
    /\ phase' = "up"
    /\ capDone' = TRUE
    /\ UNCHANGED <<negVars, nick, toServer, ends>>

\* /quote CAP LS 302, which asks again for everything.
c_quote ==
    /\ phase = "up" /\ toServer = <<>> /\ toClient = <<>>
    /\ Say(Bare("LS"))
    /\ UNCHANGED <<phase, login, negVars, capDone, nick, toClient, server, ends>>

-----------------------------------------------------------------------------
\* The server, with capability negotiation or without.
ServerTakes(cmd) ==
    /\ toServer # <<>> /\ Head(toServer).cmd = cmd
    /\ toServer' = Tail(toServer)
    /\ UNCHANGED <<phase, login, negVars, capDone, nick, ends>>

Asked == Head(toServer).what
Answer(lines) == toClient' = toClient \o lines

ServerLists ==
    /\ ServerTakes("LS")
    /\ \/ server.negotiation = "none" /\ UNCHANGED <<server, toClient>>
       \/ \E offer \in SUBSET (IF phase = "up" THEN server.offer ELSE Caps), first \in SUBSET Caps :
            /\ first \subseteq offer
            /\ server' = [server EXCEPT !.offer = offer,
                 !.negotiation = IF phase = "up" THEN @ ELSE "open"]
            /\ \/ Answer(<<Line("LS *", first), Line("LS", offer \ first)>>)
               \/ first = offer /\ Answer(<<Line("LS", offer)>>)

ServerGrants ==
    /\ ServerTakes("REQ")
    /\ \/ /\ Asked \subseteq server.offer
          /\ server' = [server EXCEPT !.enabled = @ \cup Asked,
               !.auth = IF "sasl" \in Asked /\ server.negotiation = "open" THEN "acked" ELSE @]
          /\ Answer(<<Line("ACK", Asked)>>)
       \/ Answer(<<Bare("NAK")>>) /\ UNCHANGED server

\* It may say what mechanisms it has (908) before it refuses.
Refusal == {<<Bare("904")>>, <<Bare("904"), Bare("904")>>}

ServerLogsIn ==
    \/ /\ ServerTakes("AUTHENTICATE PLAIN")
       /\ \/ Answer(<<Bare("+")>>) /\ server' = [server EXCEPT !.auth = "asked"]
          \/ \E r \in Refusal : Answer(r) /\ server' = [server EXCEPT !.auth = "answered"]
    \/ /\ ServerTakes("AUTHENTICATE")
       /\ \E r \in Refusal \cup {<<Bare("903")>>} : Answer(r)
       /\ server' = [server EXCEPT !.auth = "answered"]

ServerReadsNick ==
    /\ ServerTakes("NICK")
    /\ \/ server' = [server EXCEPT !.nick = Head(toServer).what] /\ UNCHANGED toClient
       \/ Head(toServer).what < MaxNick /\ Answer(<<Bare("433")>>) /\ UNCHANGED server

ServerReadsEnd ==
    /\ ServerTakes("END")
    /\ server' = [server EXCEPT !.negotiation = "ended"]
    /\ UNCHANGED toClient

ServerWithdraws ==
    /\ \E c \in server.offer :
         /\ server' = [server EXCEPT !.offer = @ \ {c}, !.enabled = @ \ {c}]
         /\ Answer(<<Line("DEL", {c})>>)
    /\ UNCHANGED <<phase, login, negVars, capDone, nick, toServer, ends>>

\* Once, when it has a nick and no negotiation is open.
ServerWelcomes ==
    /\ phase = "registering" /\ server.nick <= MaxNick
    /\ server.negotiation # "open"
    /\ Bare("001") \notin {toClient[i] : i \in DOMAIN toClient}
    /\ Answer(<<Bare("001")>>)
    /\ UNCHANGED <<phase, login, negVars, capDone, nick, toServer, server, ends>>

Server == \/ ServerLists \/ ServerGrants \/ ServerLogsIn \/ ServerReadsNick
          \/ ServerReadsEnd \/ ServerWithdraws \/ ServerWelcomes

RegNext ==
    \/ _register \/ _reset
    \/ on_CAP_LS_more \/ on_CAP_LS \/ on_CAP_ACK \/ on_CAP_NAK \/ on_CAP_DEL
    \/ on_AUTHENTICATE \/ on_SASL \/ on_433 \/ on_welcome
    \/ c_quote
    \/ Server

RegSpec == RegInit /\ [][RegNext]_regVars

-----------------------------------------------------------------------------
Quiet == phase # "down" /\ toServer = <<>> /\ toClient = <<>>

\* However a negotiation ends - nothing wanted, granted, refused, logged in, the
\* login refused in two lines - CAP END is said once (cap_end).
EndsOnce == ends <= 1

\* Once both streams are read it is for the server to welcome us: it waits
\* neither for a CAP END nor for another nick, on this connection as on the
\* ones before it (on_CAP, on_numeric, _reset).
NotStuck ==
    Quiet /\ phase = "registering" => server.negotiation # "open" /\ server.nick = nick

\* A login that was granted is over, one way or the other, before the server
\* reads CAP END, which would abort it (on_CAP, on_numeric).
LoginComesFirst ==
    server.negotiation = "ended" => server.auth \in {"no", "answered"}

\* Once both streams are read the capabilities we act upon are those the server
\* has enabled, withdrawn and asked for again as they may be (on_CAP).
CapsAgree == Quiet => caps = server.enabled

\* So registration ends, with one CAP END, after the login and not before it,
\* never with both sides waiting, on every connection; and the capabilities are
\* then those the server has enabled.
RegistrationEnds == EndsOnce /\ NotStuck /\ LoginComesFirst /\ CapsAgree
=============================================================================
