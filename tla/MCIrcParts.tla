----------------------------- MODULE MCIrcParts -----------------------------
(* Five parts of the IRC adapter for TLC, which share no state: a behaviour *)
(* is one of the keepalive, of flood control, of the channels, of the      *)
(* server-side history or of registration.                                 *)
(*                                                                         *)
(* Keepalive: a tick is ten seconds; the code's 90 and 30 seconds, a loop  *)
(* up to ten seconds late, answers within ten.  Flood control: a burst of  *)
(* two, three ticks a line, a loop one tick late, and time to empty the    *)
(* bucket and fill it again.  Channels: two, one of them configured, and   *)
(* two lines under way in each direction, so that every pair of lines can  *)
(* cross.  History: two channels with two pages of past each, and up to    *)
(* two lines unanswered, so that a refusal and a request can cross.        *)
(* Registration: the login and one other capability, and a nick refused.   *)
EXTENDS IrcKeepalive, IrcFlood, IrcRegistration, IrcChannels, IrcHistory

VARIABLE which      \* which of the five

PartsInit ==
    /\ Init /\ FloodInit /\ ChannelsInit /\ HistInit /\ RegInit
    /\ which \in {"keepalive", "flood", "channels", "history", "registration"}

PartsNext ==
    \/ which = "keepalive" /\ Next /\ UNCHANGED <<which, floodVars, chanVars, histVars, regVars>>
    \/ which = "flood" /\ FloodNext /\ UNCHANGED <<which, vars, chanVars, histVars, regVars>>
    \/ which = "channels" /\ ChannelsNext /\ UNCHANGED <<which, vars, floodVars, histVars, regVars>>
    \/ which = "history" /\ HistNext /\ UNCHANGED <<which, vars, floodVars, chanVars, regVars>>
    \/ which = "registration" /\ RegNext
       /\ UNCHANGED <<which, vars, floodVars, chanVars, histVars>>
    \* the clocks of the first two stop at their bounds
    \/ which \in {"keepalive", "flood"}
       /\ UNCHANGED <<which, vars, floodVars, chanVars, histVars, regVars>>

PartsSpec == PartsInit /\ [][PartsNext]_<<which, vars, floodVars, chanVars, histVars, regVars>>
=============================================================================
