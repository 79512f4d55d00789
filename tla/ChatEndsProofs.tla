--------------------------- MODULE ChatEndsProofs ---------------------------
(***************************************************************************)
(* The safety of the two ends of tvchat: the Delta Chat core it keeps      *)
(* running (DeltaCore) and the window (ChatWindow), for any numbers of     *)
(* messages, conversations, accounts, invitations and of everything the    *)
(* user, the servers and the timers do.                                    *)
(*                                                                         *)
(* DeltaCore: requests, deadline and phase are in step with the core       *)
(* (CoreInStep), no message is lost or shown twice (EveryMessageOnce), and *)
(* mail stops for an offer only, or is refused (MailFlows).                *)
(* The core answers no request it was not asked (Counted), which is what   *)
(* keeps the outstanding requests of each kind at their number.  What is   *)
(* known of the account the core has - by the phase, by what it is asked   *)
(* and by what it has answered (Account) - says when its database may      *)
(* change under the windows, and so that a message shown once is one of    *)
(* the database that is there (View).                                      *)
(*                                                                         *)
(* ChatWindow: the log lacks no message but what is to be told (LogIsRun), *)
(* what was typed goes where it was typed for (TextStays), the panes and   *)
(* the dialogs name what they act on (PanesAndDialogsAgree), and nothing   *)
(* is left unnoticed (NothingWaitsUnseen).  The invariant (WinInv) says    *)
(* how three stages of one conversation fit together: what the backend     *)
(* keeps (RingRuns), the events not told yet (PendingRuns) and the log     *)
(* (LogRuns) are runs of numbers, each of which ends where the next begins *)
(* or further on; that the model becomes the backend's truth once all      *)
(* events are applied (Synced); and that what is unread in view, and an    *)
(* invitation, has an event, a dialog or a task that will see to it        *)
(* (Noticed, InvitesFollowed) - but for what talk's classic pane took the  *)
(* focus in front of (Attends).                                            *)
(***************************************************************************)
EXTENDS DeltaCore, ChatWindow, ListProofs, SequenceTheorems, FiniteSetTheorems

Lines == [to : Kinds, ok : BOOLEAN, msg : 0 .. MaxMsgs]
LinesTo(q, k) == {i \in DOMAIN q : q[i].to = k}
Count(q, k) == Cardinality(LinesTo(q, k))

Settings ==
    /\ acct \in {"disconnected", "connecting", "connected", "error"}
    /\ auto \in BOOLEAN /\ retryTimer \in BOOLEAN /\ loose \in Nat
    /\ want \in BOOLEAN /\ offer \in BOOLEAN /\ io \in {"on", "off", "refused"}

Queues ==
    /\ pending \in [Kinds -> Nat]
    /\ toUs \in Seq(Lines) /\ evq \in Seq(Msgs)

Outstanding ==
    /\ phase \in {"down", "starting", "setup", "up"}
    /\ core \in {"none", "running", "gone"} /\ deadline \in BOOLEAN
    /\ deadline <=> phase \in {"starting", "setup"}
    /\ pending["info"] = IF phase = "starting" THEN 1 ELSE 0
    /\ pending["setup"] + pending["backup"] = IF phase = "setup" THEN 1 ELSE 0
    /\ pending["event"] = IF phase \in {"setup", "up"} THEN 1 ELSE 0
    /\ phase = "down" <=> core = "none"
    /\ pending["offer"] + pending["io"] <= MaxOffers

\* The core has answered none but what it was asked.
Counted == \A k \in Kinds : Count(toUs, k) <= pending[k]

\* Only our account has messages; to be up is to have it, and while a backup
\* is still being asked for we have none.
Account ==
    /\ account \in {"none", "bare", "ours"} /\ db \in 0 .. MaxMsgs
    /\ account # "ours" => db = 0
    /\ phase = "up" => account = "ours"
    /\ Count(toUs, "backup") < pending["backup"] => account = "bare"
    /\ \A i \in DOMAIN toUs :
         toUs[i].to \in {"setup", "backup"} /\ toUs[i].ok => account = "ours"

\* Events are about messages of the database.
Events ==
    /\ \A i \in DOMAIN evq : evq[i] \in 1 .. db
    /\ \A i \in DOMAIN toUs : toUs[i].to = "event" => toUs[i].msg \in 1 .. db

View ==
    /\ shown \in [Msgs -> 0 .. 2] /\ left \subseteq Msgs /\ missed \subseteq Msgs
    /\ \A m \in Msgs \ left : shown[m] = 0 \/ (shown[m] = 1 /\ m <= db)

\* A message is shown, or its event to come or to be dealt with, or missed.
Due(m) ==
    \/ m \in missed
    \/ \E i \in DOMAIN evq : evq[i] = m
    \/ \E i \in DOMAIN toUs : toUs[i].to = "event" /\ toUs[i].msg = m

Followed ==
    phase = "up" /\ core = "running" =>
        \A m \in Msgs : m <= db => m \in left \/ shown[m] # 0 \/ Due(m)

MailOn ==
    phase = "up" /\ core = "running" /\ io = "off" =>
        pending["offer"] > 0 \/ Count(toUs, "io") < pending["io"]

CoreInv ==
    /\ Settings /\ Queues /\ Outstanding /\ Counted /\ Account /\ Events /\ View
    /\ Followed /\ MailOn

-----------------------------------------------------------------------------
(* How many lines there are of each kind.                                  *)

LEMMA CountNat ==
    ASSUME NEW q \in Seq(Lines), NEW k
    PROVE  /\ IsFiniteSet(LinesTo(q, k)) /\ Count(q, k) \in Nat
           /\ \A i \in DOMAIN q : q[i].to = k => Count(q, k) > 0
<1>1. IsFiniteSet(DOMAIN q)
  <2>1. DOMAIN q = 1 .. Len(q) /\ Len(q) \in Int /\ 1 \in Int
    OBVIOUS
  <2> QED BY <2>1, FS_Interval
<1>2. LinesTo(q, k) \in SUBSET (DOMAIN q)
  BY DEF LinesTo
<1>3. IsFiniteSet(LinesTo(q, k))
  BY <1>1, <1>2, FS_Subset
<1>4. Count(q, k) \in Nat
  BY <1>3, FS_CardinalityType DEF Count
<1>5. ASSUME NEW i \in DOMAIN q, q[i].to = k PROVE Count(q, k) > 0
  <2>1. LinesTo(q, k) # {}
    BY <1>5 DEF LinesTo
  <2>2. Count(q, k) # 0
    BY <1>3, <2>1, FS_EmptySet DEF Count
  <2> QED BY <1>4, <2>2
<1> QED BY <1>3, <1>4, <1>5

LEMMA CountNone == \A k : Count(<<>>, k) = 0
<1>1. \A k : LinesTo(<<>>, k) = {}
  BY DEF LinesTo
<1> QED BY <1>1, FS_EmptySet DEF Count

LEMMA CountJoined ==
    ASSUME NEW q \in Seq(Lines), NEW a \in Lines, NEW k
    PROVE  Count(Append(q, a), k) = IF a.to = k THEN Count(q, k) + 1 ELSE Count(q, k)
<1> DEFINE z == Append(q, a)
           n == Len(q) + 1
<1>1. z[n] = a /\ \A i \in DOMAIN q : z[i] = q[i]
  OBVIOUS
<1>2. n \notin DOMAIN q /\ DOMAIN z = DOMAIN q \cup {n}
  <2>1. DOMAIN q = 1 .. Len(q) /\ DOMAIN z = 1 .. n /\ Len(q) \in Nat
    OBVIOUS
  <2> QED BY <2>1
<1> HIDE DEF z, n
<1>3. LinesTo(z, k) = IF a.to = k THEN LinesTo(q, k) \cup {n} ELSE LinesTo(q, k)
  BY <1>1, <1>2 DEF LinesTo
<1>4. n \notin LinesTo(q, k)
  BY <1>2 DEF LinesTo
<1> QED BY <1>3, <1>4, CountNat, FS_AddElement DEF Count, z

LEMMA CountLeft ==
    ASSUME NEW q \in Seq(Lines), q # <<>>, NEW k
    PROVE  Count(Tail(q), k) = IF Head(q).to = k THEN Count(q, k) - 1 ELSE Count(q, k)
<1> DEFINE t == Tail(q)
           n == Len(q)
           S == LinesTo(t, k)
           T == LinesTo(q, k) \ {1}
           f == [i \in S |-> i + 1]
<1>1. /\ t \in Seq(Lines) /\ n \in Nat \ {0} /\ DOMAIN q = 1 .. n /\ DOMAIN t = 1 .. n - 1
      /\ Head(q) = q[1]
  OBVIOUS
<1>2. \A i \in 1 .. n - 1 : t[i] = q[i + 1]
  OBVIOUS
<1> HIDE DEF t, n
<1>3. f \in Bijection(S, T)
  <2>1. \A i \in S : i \in Int /\ i + 1 \in T
    BY <1>1, <1>2 DEF LinesTo
  <2>2. ASSUME NEW j \in T PROVE j - 1 \in S /\ (j - 1) + 1 = j
    <3>1. j \in 2 .. n /\ q[j].to = k
      BY <1>1 DEF LinesTo
    <3>2. j - 1 \in 1 .. n - 1 /\ (j - 1) + 1 = j
      BY <1>1, <3>1
    <3> QED BY <1>1, <1>2, <3>1, <3>2 DEF LinesTo
  <2> HIDE DEF S, T
  <2>3. f \in [S -> T] /\ \A i \in S : f[i] = i + 1
    BY <2>1
  <2> HIDE DEF f
  <2>4. DOMAIN f = S /\ \A a, b \in S : f[a] = f[b] => a = b
    BY <2>1, <2>3
  <2>5. \A j \in T : f[j - 1] = j
    BY <2>2, <2>3
  <2> QED BY <2>2, <2>3, <2>4, <2>5 DEF Bijection, Injection, Surjection, IsInjective
<1>4. IsFiniteSet(S)
  BY <1>1, CountNat DEF S
<1>5. Cardinality(T) = Cardinality(S)
  BY <1>3, <1>4, FS_Bijection DEF ExistsBijection
<1>6. IsFiniteSet(LinesTo(q, k)) /\ (1 \in LinesTo(q, k) <=> Head(q).to = k)
  <2>1. IsFiniteSet(LinesTo(q, k))
    BY CountNat
  <2>2. 1 \in DOMAIN q
    BY <1>1
  <2> QED BY <1>1, <2>1, <2>2 DEF LinesTo
<1>7. Cardinality(T) = IF Head(q).to = k THEN Count(q, k) - 1 ELSE Count(q, k)
  BY <1>6, FS_RemoveElement DEF Count, T
<1> QED BY <1>5, <1>7 DEF Count, S, t

LEMMA AtCoreIs == \A k : AtCore(k) <=> Count(toUs, k) < pending[k]
<1>1. \A k : Answered(k) = Count(toUs, k)
  BY DEF Answered, Count, LinesTo
<1> QED BY <1>1 DEF AtCore

-----------------------------------------------------------------------------
(* A line taken out with its callback, and a line added.                   *)

LEMMA HeardIs ==
    ASSUME Queues, Counted, NEW k \in Kinds, Hears(k), NEW more \in SUBSET Kinds, Heard(more)
    PROVE  /\ phase # "down" /\ pending[k] > 0
           /\ 1 \in DOMAIN toUs /\ toUs[1] = Head(toUs) /\ Head(toUs) \in Lines /\ Head(toUs).to = k
           /\ pending' \in [Kinds -> Nat] /\ toUs' \in Seq(Lines) /\ Counted'
           /\ \A j \in Kinds : pending'[j] = pending[j] + (IF j \in more THEN 1 ELSE 0)
                                                    - (IF j = k THEN 1 ELSE 0)
           /\ \A j \in Kinds : Count(toUs', j) = Count(toUs, j) - (IF j = k THEN 1 ELSE 0)
           /\ \A i \in DOMAIN toUs' : i + 1 \in DOMAIN toUs /\ toUs'[i] = toUs[i + 1]
           /\ \A i \in DOMAIN toUs : i = 1 \/ (i - 1 \in DOMAIN toUs' /\ toUs'[i - 1] = toUs[i])
<1>1. /\ phase # "down" /\ toUs # <<>> /\ toUs \in Seq(Lines) /\ Head(toUs).to = k
      /\ pending \in [Kinds -> Nat] /\ toUs' = Tail(toUs)
  BY DEF Hears, Heard, Queues
<1>2. 1 \in DOMAIN toUs /\ toUs[1] = Head(toUs) /\ Head(toUs) \in Lines /\ toUs' \in Seq(Lines)
  BY <1>1
<1>3. /\ \A i \in DOMAIN toUs' : i + 1 \in DOMAIN toUs /\ toUs'[i] = toUs[i + 1]
      /\ \A i \in DOMAIN toUs : i = 1 \/ (i - 1 \in DOMAIN toUs' /\ toUs'[i - 1] = toUs[i])
  BY <1>1
<1>4. \A j \in Kinds : Count(toUs', j) = IF j = k THEN Count(toUs, j) - 1 ELSE Count(toUs, j)
  BY <1>1, CountLeft
<1>5. Count(toUs, k) > 0 /\ \A j \in Kinds : Count(toUs, j) \in Nat /\ Count(toUs', j) \in Nat
  BY <1>1, <1>2, CountNat
<1>6. \A j \in Kinds : Count(toUs, j) <= pending[j] /\ pending[j] \in Nat
  BY <1>1 DEF Counted
<1>7. pending' = [j \in Kinds |-> pending[j] + (IF j \in more THEN 1 ELSE 0)
                                            - (IF j = k THEN 1 ELSE 0)]
  BY <1>1 DEF Heard
<1>8. \A j \in Kinds :
          /\ pending'[j] = pending[j] + (IF j \in more THEN 1 ELSE 0) - (IF j = k THEN 1 ELSE 0)
          /\ pending'[j] \in Nat /\ Count(toUs', j) <= pending'[j]
          /\ Count(toUs', j) = Count(toUs, j) - (IF j = k THEN 1 ELSE 0)
  <2> TAKE j \in Kinds
  <2>1. pending'[j] = pending[j] + (IF j \in more THEN 1 ELSE 0) - (IF j = k THEN 1 ELSE 0)
    BY <1>7
  <2>2. CASE j = k
    BY <2>1, <2>2, <1>4, <1>5, <1>6
  <2>3. CASE j # k
    BY <2>1, <2>3, <1>4, <1>5, <1>6
  <2> QED BY <2>2, <2>3
<1>9. pending' \in [Kinds -> Nat]
  BY <1>7, <1>8
<1>10. Counted'
  BY <1>8 DEF Counted
<1>11. pending[k] > 0
  BY <1>5, <1>6
<1> QED BY <1>1, <1>2, <1>3, <1>8, <1>9, <1>10, <1>11

LEMMA ToldIs ==
    ASSUME Queues, Counted, NEW a \in Lines, toUs' = Append(toUs, a), pending' = pending,
           AtCore(a.to), a.to \in Kinds
    PROVE  /\ toUs' \in Seq(Lines) /\ Counted'
           /\ \A j \in Kinds : /\ Count(toUs, j) \in Nat
                              /\ Count(toUs', j) = IF a.to = j THEN Count(toUs, j) + 1 ELSE Count(toUs, j)
           /\ \A i \in DOMAIN toUs' : toUs'[i] = a \/ (i \in DOMAIN toUs /\ toUs'[i] = toUs[i])
           /\ \A i \in DOMAIN toUs : i \in DOMAIN toUs' /\ toUs'[i] = toUs[i]
           /\ \E i \in DOMAIN toUs' : toUs'[i] = a
<1>1. toUs \in Seq(Lines) /\ pending \in [Kinds -> Nat] /\ Count(toUs, a.to) < pending[a.to]
  BY AtCoreIs DEF Queues
<1>2. \A j \in Kinds : Count(toUs', j) = IF a.to = j THEN Count(toUs, j) + 1 ELSE Count(toUs, j)
  BY <1>1, CountJoined
<1>3. \A j \in Kinds : Count(toUs, j) \in Nat
  BY <1>1, CountNat
<1>4. \A j \in Kinds : pending'[j] \in Nat /\ Count(toUs, j) <= pending'[j]
  BY <1>1 DEF Counted
<1>5. \A j \in Kinds : Count(toUs', j) <= pending'[j]
  BY <1>1, <1>2, <1>3, <1>4
<1>6. toUs' \in Seq(Lines)
  BY <1>1
<1>7. /\ \A i \in DOMAIN toUs' : toUs'[i] = a \/ (i \in DOMAIN toUs /\ toUs'[i] = toUs[i])
      /\ \A i \in DOMAIN toUs : i \in DOMAIN toUs' /\ toUs'[i] = toUs[i]
  BY <1>1
<1>8. Len(toUs) + 1 \in DOMAIN toUs' /\ toUs'[Len(toUs) + 1] = a
  BY <1>1
<1>9. Counted'
  BY <1>5 DEF Counted
<1> QED BY <1>2, <1>3, <1>6, <1>7, <1>8, <1>9

-----------------------------------------------------------------------------
(* What leaves the account down, and what starts a core.                   *)

Holding == account \in {"none", "bare", "ours"} /\ db \in 0 .. MaxMsgs /\ (account # "ours" => db = 0)

\* What may be asked of a core that is not there yet: offers, mail.
NoneOut(wanted) ==
    /\ wanted \in [Kinds -> Nat]
    /\ wanted["info"] = 0 /\ wanted["event"] = 0 /\ wanted["setup"] = 0 /\ wanted["backup"] = 0
    /\ wanted["offer"] + wanted["io"] <= MaxOffers

LEMMA IdleAsked ==
    /\ NoneOut(Nothing)
    /\ NoneOut([Nothing EXCEPT !["offer"] = 1])
<1>1. /\ Nothing \in [Kinds -> Nat] /\ \A k \in Kinds : Nothing[k] = 0
  BY DEF Nothing
<1>2. NoneOut(Nothing)
  BY <1>1, DeltaAssumption DEF NoneOut, Kinds
<1>3. PICK p : p = [Nothing EXCEPT !["offer"] = 1]
  OBVIOUS
<1>4. p \in [Kinds -> Nat] /\ \A k \in Kinds : p[k] = IF k = "offer" THEN 1 ELSE 0
  BY <1>1, <1>3 DEF Kinds
<1>5. NoneOut(p)
  BY <1>4, DeltaAssumption DEF NoneOut, Kinds
<1> QED BY <1>2, <1>3, <1>5

LEMMA IdleDown ==
    ASSUME CoreInv, phase = "down"
    PROVE  NoneOut(pending)
<1>1. pending \in [Kinds -> Nat]
  BY DEF CoreInv, Queues
<1>2. /\ pending["setup"] \in Nat /\ pending["backup"] \in Nat
  BY <1>1 DEF Kinds
<1>3. /\ pending["info"] = 0 /\ pending["event"] = 0
      /\ pending["setup"] + pending["backup"] = 0
      /\ pending["offer"] + pending["io"] <= MaxOffers
  BY DEF CoreInv, Outstanding
<1>4. pending["setup"] = 0 /\ pending["backup"] = 0
  BY <1>2, <1>3
<1> QED BY <1>1, <1>3, <1>4 DEF NoneOut

LEMMA Closed ==
    ASSUME CoreInv, phase' = "down", deadline' = FALSE, core' = "none",
           NoneOut(pending'), toUs' = <<>>, evq' = <<>>, Settings', Holding', View'
    PROVE  CoreInv'
<1>1. /\ core' = "none" /\ deadline' = FALSE
      /\ toUs' = <<>> /\ evq' = <<>> /\ phase' = "down"
  OBVIOUS
<1>2. /\ pending' \in [Kinds -> Nat]
      /\ pending'["info"] = 0 /\ pending'["event"] = 0
      /\ pending'["setup"] = 0 /\ pending'["backup"] = 0
      /\ pending'["offer"] + pending'["io"] <= MaxOffers
  BY DEF NoneOut
<1>3. Queues'
  BY <1>1, <1>2 DEF Queues
<1>4. Outstanding'
  <2>1. pending'["setup"] + pending'["backup"] = 0
    BY <1>2
  <2>2. /\ deadline' \in BOOLEAN /\ (deadline' <=> phase' \in {"starting", "setup"})
        /\ (phase' = "down" <=> core' = "none")
    BY <1>1
  <2> QED BY <1>1, <1>2, <2>1, <2>2 DEF Outstanding
<1>5. \A k : Count(toUs', k) = 0
  BY <1>1, CountNone
<1>6. Counted'
  BY <1>2, <1>5 DEF Counted
<1>7. Account'
  BY <1>1, <1>2, <1>5 DEF Account, Holding
<1>8. Events'
  BY <1>1 DEF Events
<1>9. Followed' /\ MailOn'
  BY <1>1 DEF Followed, MailOn
<1> QED BY <1>3, <1>4, <1>6, <1>7, <1>8, <1>9 DEF CoreInv

LEMMA Started ==
    ASSUME CoreInv, NEW wanted, NoneOut(wanted), Start(wanted), Settings', Holding', View',
           evq' \in Seq(Msgs), \A i \in DOMAIN evq' : evq'[i] \in 1 .. db'
    PROVE  CoreInv'
<1>1. /\ core' = "running" /\ deadline' = TRUE /\ toUs' = <<>> /\ phase' = "starting"
      /\ pending' = [wanted EXCEPT !["info"] = 1]
  BY DEF Start
<1>2. /\ pending' \in [Kinds -> Nat]
      /\ pending'["info"] = 1 /\ pending'["event"] = 0
      /\ pending'["setup"] = 0 /\ pending'["backup"] = 0
      /\ pending'["offer"] + pending'["io"] <= MaxOffers
  BY <1>1 DEF NoneOut, Kinds
<1>3. Queues'
  BY <1>1, <1>2 DEF Queues
<1>4. Outstanding'
  <2>1. pending'["setup"] + pending'["backup"] = 0
    BY <1>2
  <2>2. /\ deadline' \in BOOLEAN /\ (deadline' <=> phase' \in {"starting", "setup"})
        /\ (phase' = "down" <=> core' = "none")
    BY <1>1
  <2> QED BY <1>1, <1>2, <2>1, <2>2 DEF Outstanding
<1>5. \A k : Count(toUs', k) = 0
  BY <1>1, CountNone
<1>6. Counted'
  BY <1>2, <1>5 DEF Counted
<1>7. Account'
  BY <1>1, <1>2, <1>5 DEF Account, Holding
<1>8. Events'
  BY <1>1 DEF Events
<1>9. Followed' /\ MailOn'
  BY <1>1 DEF Followed, MailOn
<1> QED BY <1>3, <1>4, <1>6, <1>7, <1>8, <1>9 DEF CoreInv

\* A start that failed, a core that was lost: what is asked after that waits.
LEMMA LostAsking ==
    ASSUME CoreInv, NEW was, NEW wanted, NoneOut(wanted), (_fail /\ wanted = Nothing) \/ LostThenAsk(was, wanted),
           Holding', View'
    PROVE  CoreInv'
<1>1. /\ phase' = "down" /\ want' = FALSE /\ offer' = FALSE /\ io' = "off"
      /\ deadline' = FALSE /\ core' = "none" /\ pending' = wanted /\ toUs' = <<>> /\ evq' = <<>>
  BY DEF _fail, LostThenAsk, _close, CloseThenAsk
<1>2. /\ acct' \in {"disconnected", "connecting", "connected", "error"}
      /\ auto' \in BOOLEAN /\ retryTimer' \in BOOLEAN /\ loose' \in Nat
  <2>1. /\ acct \in {"disconnected", "connecting", "connected", "error"}
        /\ auto \in BOOLEAN /\ retryTimer \in BOOLEAN /\ loose \in Nat
    BY DEF CoreInv, Settings
  <2>2. _retry \/ GiveUp("error") \/ GiveUp("disconnected")
    BY DEF _fail, LostThenAsk
  <2>3. /\ loose' = loose \/ loose' = loose + 1
        /\ auto' = auto \/ auto' = TRUE
        /\ retryTimer' = retryTimer \/ retryTimer' = TRUE
        /\ acct' \in {"disconnected", "connecting", "error"}
    BY <2>2, Zenon DEF _retry, GiveUp
  <2>4. loose' \in Nat
    BY <2>1, <2>3
  <2> QED BY <2>1, <2>3, <2>4, Zenon
<1>3. Settings'
  BY <1>1, <1>2 DEF Settings
<1>4. NoneOut(pending')
  BY <1>1
<1> QED BY <1>1, <1>3, <1>4, Closed

LEMMA FailedOrLost ==
    ASSUME CoreInv, NEW was, _fail \/ _lost(was), Holding', View'
    PROVE  CoreInv'
<1>1. (_fail /\ Nothing = Nothing) \/ LostThenAsk(was, Nothing)
  BY DEF _lost
<1> QED BY <1>1, IdleAsked, LostAsking

LEMMA FailedOrLostStill ==
    ASSUME CoreInv, NEW was, _fail \/ _lost(was), UNCHANGED <<store, view>>
    PROVE  CoreInv'
<1> /\ account' = account /\ db' = db /\ shown' = shown /\ left' = left /\ missed' = missed
  BY DEF store, view
<1>1. Holding'
  BY DEF CoreInv, Account, Holding
<1>2. View'
  BY DEF CoreInv, View
<1>3. Holding' /\ View' /\ (_fail \/ _lost(was))
  BY <1>1, <1>2
<1> QED BY <1>3, FailedOrLost

-----------------------------------------------------------------------------
(* The handlers that leave the core running, one by one.                   *)

LEMMA SettingsOnly ==
    ASSUME CoreInv, Settings', UNCHANGED <<phase, deadline, core, pending, toUs, io, evq, store, view>>
    PROVE  CoreInv'
<1> /\ phase' = phase /\ deadline' = deadline /\ core' = core /\ pending' = pending /\ toUs' = toUs
    /\ io' = io /\ evq' = evq /\ account' = account /\ db' = db
    /\ shown' = shown /\ left' = left /\ missed' = missed
  BY DEF store, view
<1>1. Queues' /\ Outstanding' /\ Counted'
  BY DEF CoreInv, Queues, Outstanding, Counted
<1>2. Account' /\ Events' /\ View'
  BY DEF CoreInv, Account, Events, View
<1>3. (\A m : Due(m)' <=> Due(m))
  BY DEF Due
<1>4. Followed' /\ MailOn'
  BY <1>3 DEF CoreInv, Followed, MailOn
<1> QED BY <1>1, <1>2, <1>4 DEF CoreInv

LEMMA Numbers ==
    ASSUME CoreInv
    PROVE  /\ \A k \in Kinds : pending[k] \in Nat /\ Count(toUs, k) \in Nat /\ Count(toUs, k) <= pending[k]
           /\ pending["info"] \in Nat /\ pending["event"] \in Nat /\ pending["setup"] \in Nat
           /\ pending["backup"] \in Nat /\ pending["offer"] \in Nat /\ pending["io"] \in Nat
           /\ phase \in {"down", "starting", "setup", "up"}
           /\ pending["info"] = IF phase = "starting" THEN 1 ELSE 0
           /\ pending["setup"] + pending["backup"] = IF phase = "setup" THEN 1 ELSE 0
           /\ pending["event"] = IF phase \in {"setup", "up"} THEN 1 ELSE 0
           /\ pending["offer"] + pending["io"] <= MaxOffers
<1>1. \A k \in Kinds : pending[k] \in Nat /\ Count(toUs, k) \in Nat /\ Count(toUs, k) <= pending[k]
  BY CountNat DEF CoreInv, Queues, Counted
<1>2. /\ pending["info"] \in Nat /\ pending["event"] \in Nat /\ pending["setup"] \in Nat
      /\ pending["backup"] \in Nat /\ pending["offer"] \in Nat /\ pending["io"] \in Nat
  BY <1>1 DEF Kinds
<1>3. /\ phase \in {"down", "starting", "setup", "up"}
      /\ pending["info"] = IF phase = "starting" THEN 1 ELSE 0
      /\ pending["setup"] + pending["backup"] = IF phase = "setup" THEN 1 ELSE 0
      /\ pending["event"] = IF phase \in {"setup", "up"} THEN 1 ELSE 0
      /\ pending["offer"] + pending["io"] <= MaxOffers
  BY DEF CoreInv, Outstanding
<1> QED BY <1>1, <1>2, <1>3

LEMMA GoneUp ==
    ASSUME CoreInv, NEW k \in {"info", "setup", "backup"}, Hears(k), account = "ours", core = "running",
           Heard(IF k = "info" THEN {"event"} ELSE {}),
           phase' = "up", acct' = "connected", deadline' = FALSE, io' = "on",
           shown' = Loaded(shown), missed' = {},
           UNCHANGED <<auto, retryTimer, loose, core, device, evq, store, left>>
    PROVE  CoreInv'
<1> DEFINE more == IF k = "info" THEN {"event"} ELSE {}
<1> /\ auto' = auto /\ retryTimer' = retryTimer /\ loose' = loose /\ core' = core
    /\ want' = want /\ offer' = offer /\ evq' = evq /\ account' = account /\ db' = db /\ left' = left
  BY DEF store, device
<1>0. k \in Kinds /\ more \in SUBSET Kinds /\ Heard(more) /\ Queues /\ Counted
  BY DEF Kinds, CoreInv
<1> HIDE DEF more
<1>1. /\ pending[k] > 0
      /\ pending' \in [Kinds -> Nat] /\ toUs' \in Seq(Lines) /\ Counted'
      /\ \A j \in Kinds : pending'[j] = pending[j] + (IF j \in more THEN 1 ELSE 0)
                                              - (IF j = k THEN 1 ELSE 0)
      /\ \A i \in DOMAIN toUs' : i + 1 \in DOMAIN toUs /\ toUs'[i] = toUs[i + 1]
  BY <1>0, HeardIs
<1>2. Settings'
  BY DEF CoreInv, Settings
<1>3. Queues'
  BY <1>1 DEF CoreInv, Queues
<1>4. \A j \in Kinds : pending[j] \in Nat /\ pending'[j] \in Nat
  BY <1>1 DEF CoreInv, Queues
<1>a. /\ pending["info"] \in Nat /\ pending["event"] \in Nat /\ pending["setup"] \in Nat
      /\ pending["backup"] \in Nat /\ pending["offer"] \in Nat /\ pending["io"] \in Nat
      /\ pending'["setup"] \in Nat /\ pending'["backup"] \in Nat
  BY <1>4 DEF Kinds
<1>b. /\ phase \in {"down", "starting", "setup", "up"}
      /\ pending["info"] = IF phase = "starting" THEN 1 ELSE 0
      /\ pending["setup"] + pending["backup"] = IF phase = "setup" THEN 1 ELSE 0
      /\ pending["event"] = IF phase \in {"setup", "up"} THEN 1 ELSE 0
  BY DEF CoreInv, Outstanding
<1>5. /\ pending'["info"] = 0 /\ pending'["event"] = 1
      /\ pending'["setup"] + pending'["backup"] = 0
      /\ pending'["offer"] = pending["offer"] /\ pending'["io"] = pending["io"]
  <2>1. CASE k = "info"
    <3>1. phase = "starting"
      BY <1>1, <1>b, <2>1
    <3>2. more = {"event"}
      BY <2>1 DEF more
    <3>3. /\ pending'["info"] = pending["info"] + 0 - 1 /\ pending'["event"] = pending["event"] + 1 - 0
          /\ pending'["setup"] = pending["setup"] + 0 - 0 /\ pending'["backup"] = pending["backup"] + 0 - 0
          /\ pending'["offer"] = pending["offer"] + 0 - 0 /\ pending'["io"] = pending["io"] + 0 - 0
      BY <1>1, <2>1, <3>2 DEF Kinds
    <3>4. pending["info"] = 1 /\ pending["setup"] + pending["backup"] = 0 /\ pending["event"] = 0
      BY <1>b, <3>1
    <3>5. pending'["info"] = 0 /\ pending'["event"] = 1
      BY <3>3, <3>4
    <3>6. pending'["setup"] = pending["setup"] /\ pending'["backup"] = pending["backup"]
      BY <1>a, <3>3
    <3>7. pending'["offer"] = pending["offer"] /\ pending'["io"] = pending["io"]
      BY <1>a, <3>3
    <3> QED BY <3>4, <3>5, <3>6, <3>7
  <2>2. CASE k # "info"
    <3>1. phase = "setup"
      BY <1>1, <1>a, <1>b, <2>2
    <3>2. more = {}
      BY <2>2 DEF more
    <3>3. /\ pending'["info"] = pending["info"] + 0 - 0 /\ pending'["event"] = pending["event"] + 0 - 0
          /\ pending'["setup"] = pending["setup"] + 0 - (IF k = "setup" THEN 1 ELSE 0)
          /\ pending'["backup"] = pending["backup"] + 0 - (IF k = "backup" THEN 1 ELSE 0)
          /\ pending'["offer"] = pending["offer"] + 0 - 0 /\ pending'["io"] = pending["io"] + 0 - 0
      BY <1>1, <2>2, <3>2 DEF Kinds
    <3>4. pending["info"] = 0 /\ pending["setup"] + pending["backup"] = 1 /\ pending["event"] = 1
      BY <1>b, <3>1
    <3>5. k = "setup" \/ k = "backup"
      BY <2>2
    <3> QED BY <1>a, <3>3, <3>4, <3>5
  <2> QED BY <2>1, <2>2
<1>6. Outstanding'
  BY <1>5 DEF CoreInv, Outstanding
<1>7. Account'
  <2>1. Count(toUs', "backup") \in Nat
    BY <1>1, CountNat
  <2>2. ~(Count(toUs', "backup") < pending'["backup"])
    BY <1>a, <1>5, <2>1
  <2> QED BY <1>1, <2>2 DEF CoreInv, Account
<1>8. Events'
  BY <1>1 DEF CoreInv, Events
<1>9. \A m \in Msgs : /\ shown[m] \in 0 .. 2
                      /\ shown'[m] = IF m <= db /\ shown[m] = 0 THEN 1 ELSE shown[m]
  BY DEF CoreInv, View, Loaded
<1>10. shown' \in [Msgs -> 0 .. 2]
  BY <1>9 DEF Loaded
<1>11. View'
  BY <1>9, <1>10 DEF CoreInv, View
<1>12. Followed'
  BY <1>9 DEF Followed
<1>13. MailOn'
  BY DEF MailOn
<1> QED BY <1>1, <1>2, <1>3, <1>6, <1>7, <1>8, <1>11, <1>12, <1>13 DEF CoreInv

LEMMA BeingSetUp ==
    ASSUME CoreInv, NEW how \in {"setup", "backup"}, Hears("info"), Setup(how), core = "running",
           account # "ours", account' = "bare", UNCHANGED <<db, left, missed>>
    PROVE  CoreInv'
<1> /\ auto' = auto /\ retryTimer' = retryTimer /\ loose' = loose /\ core' = core
    /\ want' = FALSE /\ offer' = offer /\ evq' = evq /\ db' = db /\ left' = left
    /\ phase' = "setup" /\ acct' = "connecting" /\ deadline' = TRUE
    /\ io' = io /\ shown' = shown /\ missed' = missed
  BY DEF Setup
<1>0. {"event", how} \in SUBSET Kinds /\ "info" \in Kinds /\ Heard({"event", how}) /\ Queues /\ Counted
  BY DEF Kinds, CoreInv, Setup
<1>1. /\ pending["info"] > 0
      /\ pending' \in [Kinds -> Nat] /\ toUs' \in Seq(Lines) /\ Counted'
      /\ \A j \in Kinds : pending'[j] = pending[j] + (IF j \in {"event", how} THEN 1 ELSE 0)
                                              - (IF j = "info" THEN 1 ELSE 0)
      /\ \A i \in DOMAIN toUs' : i + 1 \in DOMAIN toUs /\ toUs'[i] = toUs[i + 1]
  BY <1>0, HeardIs
<1>2. Settings'
  BY DEF CoreInv, Settings
<1>3. Queues'
  BY <1>1 DEF CoreInv, Queues
<1>4. \A j \in Kinds : pending[j] \in Nat /\ pending'[j] \in Nat
  BY <1>1 DEF CoreInv, Queues
<1>a. /\ pending["info"] \in Nat /\ pending["event"] \in Nat /\ pending["setup"] \in Nat
      /\ pending["backup"] \in Nat /\ pending["offer"] \in Nat /\ pending["io"] \in Nat
      /\ pending'["setup"] \in Nat /\ pending'["backup"] \in Nat
  BY <1>4 DEF Kinds
<1>b. /\ phase \in {"down", "starting", "setup", "up"}
      /\ pending["info"] = IF phase = "starting" THEN 1 ELSE 0
      /\ pending["setup"] + pending["backup"] = IF phase = "setup" THEN 1 ELSE 0
      /\ pending["event"] = IF phase \in {"setup", "up"} THEN 1 ELSE 0
  BY DEF CoreInv, Outstanding
<1>5. phase = "starting"
  BY <1>1, <1>b
<1>6. /\ pending'["info"] = 0 /\ pending'["event"] = 1
      /\ pending'["setup"] + pending'["backup"] = 1
      /\ pending'["offer"] = pending["offer"] /\ pending'["io"] = pending["io"]
  <2>1. /\ pending'["info"] = pending["info"] + 0 - 1 /\ pending'["event"] = pending["event"] + 1 - 0
        /\ pending'["setup"] = pending["setup"] + (IF how = "setup" THEN 1 ELSE 0) - 0
        /\ pending'["backup"] = pending["backup"] + (IF how = "backup" THEN 1 ELSE 0) - 0
        /\ pending'["offer"] = pending["offer"] + 0 - 0 /\ pending'["io"] = pending["io"] + 0 - 0
    BY <1>1 DEF Kinds
  <2> QED BY <1>a, <1>b, <1>5, <2>1
<1>7. Outstanding'
  BY <1>6 DEF CoreInv, Outstanding
<1>8. db = 0
  BY DEF CoreInv, Account
<1>9. Account'
  BY <1>1, <1>8, DeltaAssumption DEF CoreInv, Account
<1>10. Events'
  BY <1>1 DEF CoreInv, Events
<1>11. View' /\ Followed' /\ MailOn'
  BY DEF CoreInv, View, Followed, MailOn
<1> QED BY <1>1, <1>2, <1>3, <1>7, <1>9, <1>10, <1>11 DEF CoreInv

LEMMA EventKeeps ==
    ASSUME CoreInv, EventHandled
    PROVE  CoreInv'
<1> DEFINE m == Head(toUs).msg
<1> /\ auto' = auto /\ retryTimer' = retryTimer /\ loose' = loose /\ core' = core
    /\ phase' = phase /\ acct' = acct /\ deadline' = deadline /\ io' = io /\ left' = left
    /\ want' = want /\ offer' = offer /\ evq' = evq /\ account' = account /\ db' = db
  BY DEF EventHandled, adapter, device, store, view
<1>0. /\ "event" \in Kinds /\ {"event"} \in SUBSET Kinds /\ Hears("event") /\ Heard({"event"})
      /\ Queues /\ Counted
  BY DEF EventHandled, Kinds, CoreInv
<1>1. /\ 1 \in DOMAIN toUs /\ toUs[1] = Head(toUs) /\ Head(toUs).to = "event"
      /\ pending' \in [Kinds -> Nat] /\ toUs' \in Seq(Lines) /\ Counted'
      /\ \A j \in Kinds : pending'[j] = pending[j] + (IF j \in {"event"} THEN 1 ELSE 0)
                                              - (IF j = "event" THEN 1 ELSE 0)
      /\ \A j \in Kinds : Count(toUs', j) = Count(toUs, j) - (IF j = "event" THEN 1 ELSE 0)
      /\ \A i \in DOMAIN toUs' : i + 1 \in DOMAIN toUs /\ toUs'[i] = toUs[i + 1]
      /\ \A i \in DOMAIN toUs : i = 1 \/ (i - 1 \in DOMAIN toUs' /\ toUs'[i - 1] = toUs[i])
  BY <1>0, HeardIs
<1>2. \A j \in Kinds : pending[j] \in Nat /\ Count(toUs, j) \in Nat
  BY Numbers
<1>3. \A j \in Kinds : pending'[j] = pending[j]
  BY <1>1, <1>2
<1>4. \A j \in Kinds : j # "event" => Count(toUs', j) = Count(toUs, j)
  BY <1>1, <1>2
<1>5. m \in 1 .. db /\ m \in Msgs
  <2>1. m \in 1 .. db
    BY <1>1 DEF CoreInv, Events
  <2>2. db \in 0 .. MaxMsgs /\ MaxMsgs \in Nat
    BY DeltaAssumption DEF CoreInv, Account
  <2> HIDE DEF m
  <2> QED BY <2>1, <2>2 DEF Msgs
<1> HIDE DEF m
<1>6. \/ (phase # "up" \/ shown[m] > 0) /\ shown' = shown /\ missed' = missed
      \/ shown[m] = 0 /\ shown' = [shown EXCEPT ![m] = 1] /\ missed' = missed \ {m}
      \/ shown[m] = 0 /\ missed' = missed \cup {m} /\ shown' = shown
  <2>1. shown[m] \in Nat
    BY <1>5 DEF CoreInv, View
  <2> QED BY <2>1 DEF EventHandled, m, view
<1>7. shown \in [Msgs -> 0 .. 2] /\ missed \subseteq Msgs
  BY DEF CoreInv, View
<1>8. Settings' /\ Queues'
  BY <1>1 DEF CoreInv, Settings, Queues
<1>9. Outstanding'
  BY <1>3 DEF CoreInv, Outstanding, Kinds
<1>10. Account'
  BY <1>1, <1>3, <1>4 DEF CoreInv, Account, Kinds
<1>11. Events'
  BY <1>1 DEF CoreInv, Events
<1>12. View'
  <2>a. shown' = shown \/ shown' = [shown EXCEPT ![m] = 1]
    BY <1>6
  <2>b. shown' \in [Msgs -> 0 .. 2]
    BY <1>7, <2>a
  <2>1. shown' \in [Msgs -> 0 .. 2] /\ missed' \subseteq Msgs
    BY <1>5, <1>6, <1>7, <2>b
  <2>2. \A x \in Msgs \ left : shown'[x] = shown[x] \/ (shown'[x] = 1 /\ x = m)
    BY <1>5, <1>6, <1>7
  <2>3. m <= db
    BY <1>5
  <2> QED BY <2>1, <2>2, <2>3 DEF CoreInv, View
<1>13. Followed'
  <2> SUFFICES ASSUME phase = "up", core = "running", NEW x \in Msgs, x <= db, x \notin left, shown'[x] = 0
               PROVE  Due(x)'
    BY DEF Followed
  <2>1. shown[x] = 0 /\ (x # m \/ x \in missed')
    BY <1>6, <1>7, <1>5
  <2>2. Due(x)
    BY <2>1 DEF CoreInv, Followed
  <2>3. CASE x \in missed
    BY <1>6, <2>1, <2>3 DEF Due
  <2>4. CASE \E i \in DOMAIN evq : evq[i] = x
    BY <2>4 DEF Due
  <2>5. CASE \E i \in DOMAIN toUs : toUs[i].to = "event" /\ toUs[i].msg = x
    <3> PICK i \in DOMAIN toUs : toUs[i].to = "event" /\ toUs[i].msg = x
      BY <2>5
    <3>1. CASE i = 1
      BY <1>1, <2>1, <3>1 DEF Due, m
    <3>2. CASE i # 1
      BY <1>1, <3>2 DEF Due
    <3> QED BY <3>1, <3>2
  <2> QED BY <2>2, <2>3, <2>4, <2>5 DEF Due
<1>14. MailOn'
  BY <1>3, <1>4 DEF CoreInv, MailOn, Kinds
<1> QED BY <1>1, <1>8, <1>9, <1>10, <1>11, <1>12, <1>13, <1>14 DEF CoreInv

\* An offer that is over asks for the mail; an answer about the mail, for nothing.
LEMMA OfferOrMail ==
    ASSUME CoreInv, NEW k \in {"offer", "io"}, Hears(k),
           Heard(IF k = "offer" /\ phase = "up" THEN {"io"} ELSE {}),
           offer' \in BOOLEAN, UNCHANGED <<adapter, core, want, store, io, evq, view>>
    PROVE  CoreInv'
<1> DEFINE more == IF k = "offer" /\ phase = "up" THEN {"io"} ELSE {}
<1> /\ auto' = auto /\ retryTimer' = retryTimer /\ loose' = loose /\ core' = core
    /\ phase' = phase /\ acct' = acct /\ deadline' = deadline /\ io' = io /\ left' = left
    /\ want' = want /\ evq' = evq /\ account' = account /\ db' = db
    /\ shown' = shown /\ missed' = missed
  BY DEF adapter, store, view
<1>0. /\ k \in Kinds /\ more \in SUBSET Kinds /\ Hears(k) /\ Heard(more) /\ Queues /\ Counted
  BY DEF Kinds, CoreInv
<1> HIDE DEF more
<1>1. /\ 1 \in DOMAIN toUs /\ toUs[1] = Head(toUs) /\ Head(toUs).to = k /\ pending[k] > 0
      /\ pending' \in [Kinds -> Nat] /\ toUs' \in Seq(Lines) /\ Counted'
      /\ \A j \in Kinds : pending'[j] = pending[j] + (IF j \in more THEN 1 ELSE 0)
                                              - (IF j = k THEN 1 ELSE 0)
      /\ \A j \in Kinds : Count(toUs', j) = Count(toUs, j) - (IF j = k THEN 1 ELSE 0)
      /\ \A i \in DOMAIN toUs' : i + 1 \in DOMAIN toUs /\ toUs'[i] = toUs[i + 1]
      /\ \A i \in DOMAIN toUs : i = 1 \/ (i - 1 \in DOMAIN toUs' /\ toUs'[i - 1] = toUs[i])
  BY <1>0, HeardIs
<1>2. \A j \in Kinds : pending[j] \in Nat /\ Count(toUs, j) \in Nat /\ Count(toUs, j) <= pending[j]
  BY Numbers
<1>3. \A j \in Kinds : j \notin {"offer", "io"} => pending'[j] = pending[j] /\ Count(toUs', j) = Count(toUs, j)
  <2> TAKE j \in Kinds
  <2> HAVE j \notin {"offer", "io"}
  <2>1. j # k /\ j \notin more
    BY DEF more
  <2> QED BY <1>1, <1>2, <2>1
<1>4. /\ pending["offer"] \in Nat /\ pending["io"] \in Nat
      /\ Count(toUs, "offer") \in Nat /\ Count(toUs, "io") \in Nat /\ Count(toUs, "io") <= pending["io"]
  BY <1>2 DEF Kinds
<1>5. ASSUME k = "offer"
     PROVE  /\ pending'["offer"] + pending'["io"] <= pending["offer"] + pending["io"]
            /\ phase = "up" /\ (pending["offer"] > 0 \/ Count(toUs, "io") < pending["io"]) =>
                 pending'["offer"] > 0 \/ Count(toUs', "io") < pending'["io"]
  <2>1. /\ pending'["offer"] = pending["offer"] + 0 - 1
        /\ pending'["io"] = pending["io"] + (IF phase = "up" THEN 1 ELSE 0) - 0
        /\ Count(toUs', "io") = Count(toUs, "io") - 0
    BY <1>1, <1>5 DEF more, Kinds
  <2>2. pending'["offer"] + pending'["io"] <= pending["offer"] + pending["io"]
    BY <1>4, <2>1
  <2>3. phase = "up" => Count(toUs', "io") < pending'["io"]
    BY <1>4, <2>1
  <2> QED BY <2>2, <2>3
<1>6. ASSUME k = "io"
     PROVE  /\ pending'["offer"] + pending'["io"] <= pending["offer"] + pending["io"]
            /\ phase = "up" /\ (pending["offer"] > 0 \/ Count(toUs, "io") < pending["io"]) =>
                 pending'["offer"] > 0 \/ Count(toUs', "io") < pending'["io"]
  <2>1. /\ pending'["offer"] = pending["offer"] + 0 - 0
        /\ pending'["io"] = pending["io"] + 0 - 1
        /\ Count(toUs', "io") = Count(toUs, "io") - 1
    BY <1>1, <1>6 DEF more, Kinds
  <2>2. pending'["offer"] + pending'["io"] <= pending["offer"] + pending["io"]
    BY <1>4, <2>1
  <2>3. pending["offer"] > 0 \/ Count(toUs, "io") < pending["io"] =>
          pending'["offer"] > 0 \/ Count(toUs', "io") < pending'["io"]
    BY <1>4, <2>1
  <2> QED BY <2>2, <2>3
<1>7. Settings' /\ Queues'
  BY <1>1 DEF CoreInv, Settings, Queues
<1>8. Outstanding'
  <2>1. pending'["offer"] + pending'["io"] <= pending["offer"] + pending["io"]
    BY <1>5, <1>6
  <2>2. /\ pending'["offer"] \in Nat /\ pending'["io"] \in Nat
    BY <1>1 DEF Kinds
  <2>3. pending["offer"] + pending["io"] <= MaxOffers
    BY Numbers
  <2>4. pending'["offer"] + pending'["io"] <= MaxOffers
    BY <1>4, <2>1, <2>2, <2>3, DeltaAssumption
  <2> QED BY <1>3, <2>4 DEF CoreInv, Outstanding, Kinds
<1>9. Account'
  BY <1>1, <1>3 DEF CoreInv, Account, Kinds
<1>10. Events'
  BY <1>1 DEF CoreInv, Events
<1>11. View'
  BY DEF CoreInv, View
<1>12. \A x : Due(x) => Due(x)'
  <2> TAKE x
  <2> HAVE Due(x)
  <2>1. CASE \E i \in DOMAIN toUs : toUs[i].to = "event" /\ toUs[i].msg = x
    <3> PICK i \in DOMAIN toUs : toUs[i].to = "event" /\ toUs[i].msg = x
      BY <2>1
    <3>1. i # 1
      BY <1>1
    <3> QED BY <1>1, <3>1 DEF Due
  <2> QED BY <2>1 DEF Due
<1>13. Followed'
  BY <1>12 DEF CoreInv, Followed
<1>14. MailOn'
  BY <1>5, <1>6 DEF CoreInv, MailOn
<1> QED BY <1>1, <1>7, <1>8, <1>9, <1>10, <1>11, <1>13, <1>14 DEF CoreInv

\* An offer is made: mail stops, for as long as it is outstanding.
LEMMA Offered ==
    ASSUME CoreInv, phase = "up", pending["offer"] + pending["io"] < MaxOffers,
           pending' = [pending EXCEPT !["offer"] = @ + 1], io' = "off", offer' \in BOOLEAN,
           UNCHANGED <<adapter, core, toUs, want, evq, store, view>>
    PROVE  CoreInv'
<1> /\ auto' = auto /\ retryTimer' = retryTimer /\ loose' = loose /\ core' = core
    /\ phase' = phase /\ acct' = acct /\ deadline' = deadline /\ left' = left
    /\ want' = want /\ evq' = evq /\ account' = account /\ db' = db
    /\ shown' = shown /\ missed' = missed /\ toUs' = toUs
  BY DEF adapter, store, view
<1>1. pending \in [Kinds -> Nat] /\ \A k \in Kinds : Count(toUs, k) \in Nat /\ Count(toUs, k) <= pending[k]
  BY Numbers DEF CoreInv, Queues
<1>2. \A k \in Kinds : pending'[k] = IF k = "offer" THEN pending[k] + 1 ELSE pending[k]
  BY <1>1 DEF Kinds
<1>3. pending' \in [Kinds -> Nat]
  <2>1. \A k \in Kinds : pending'[k] \in Nat
    BY <1>1, <1>2
  <2> QED BY <1>1, <2>1
<1>4. Settings' /\ Queues'
  BY <1>3 DEF CoreInv, Settings, Queues
<1>5. pending["offer"] \in Nat /\ pending["io"] \in Nat
  BY Numbers
<1>6. pending'["offer"] = pending["offer"] + 1 /\ pending'["offer"] > 0
  BY <1>2, <1>5 DEF Kinds
<1>7. pending'["offer"] + pending'["io"] <= MaxOffers
  BY <1>2, <1>5, <1>6, DeltaAssumption DEF Kinds
<1>8. Outstanding'
  BY <1>2, <1>7 DEF CoreInv, Outstanding, Kinds
<1>9. Counted'
  <2> SUFFICES ASSUME NEW k \in Kinds PROVE Count(toUs', k) <= pending'[k]
    BY DEF Counted
  <2>1. Count(toUs, k) \in Nat /\ Count(toUs, k) <= pending[k] /\ pending[k] \in Nat
    BY <1>1
  <2> QED BY <1>2, <2>1
<1>10. Account' /\ Events' /\ View'
  BY <1>2 DEF CoreInv, Account, Events, View, Kinds
<1>11. Followed' /\ MailOn'
  BY <1>6 DEF CoreInv, Followed, Due, MailOn
<1> QED BY <1>4, <1>8, <1>9, <1>10, <1>11 DEF CoreInv

\* The core answers what it was asked; what an answer says of the account, and
\* of the mail, is so from then on.
LEMMA Answers ==
    ASSUME CoreInv, NEW k \in Kinds, k # "event", core = "running", AtCore(k), NEW ok \in BOOLEAN, Ends(k, ok),
           account' = IF ok /\ k \in {"setup", "backup"} THEN "ours" ELSE account,
           db' \in IF ok /\ k = "backup" THEN 0 .. MaxMsgs ELSE {db},
           io' \in {"on", "off", "refused"}, io' = "off" => io = "off" /\ (k = "io" => AtCore("offer")),
           UNCHANGED <<adapter, core, pending, device, evq, view>>
    PROVE  CoreInv'
<1> DEFINE a == Answer(k, ok, NoMsg)
<1> /\ auto' = auto /\ retryTimer' = retryTimer /\ loose' = loose /\ core' = core
    /\ phase' = phase /\ acct' = acct /\ deadline' = deadline /\ left' = left
    /\ want' = want /\ offer' = offer /\ evq' = evq /\ pending' = pending
    /\ shown' = shown /\ missed' = missed
  BY DEF adapter, device, view
<1>1. a \in Lines /\ a.to = k /\ a.ok = ok /\ toUs' = Append(toUs, a)
  BY DeltaAssumption DEF Answer, Lines, NoMsg, Ends
<1> HIDE DEF a
<1>2. Queues /\ Counted
  BY DEF CoreInv
<1>3. /\ toUs' \in Seq(Lines) /\ Counted'
      /\ \A j \in Kinds : /\ Count(toUs, j) \in Nat
                         /\ Count(toUs', j) = IF k = j THEN Count(toUs, j) + 1 ELSE Count(toUs, j)
      /\ \A i \in DOMAIN toUs' : toUs'[i] = a \/ (i \in DOMAIN toUs /\ toUs'[i] = toUs[i])
      /\ \A i \in DOMAIN toUs : i \in DOMAIN toUs' /\ toUs'[i] = toUs[i]
  BY <1>1, <1>2, ToldIs
<1>4. Count(toUs, k) < pending[k] /\ Count(toUs, k) \in Nat /\ pending[k] \in Nat
  BY <1>2, <1>3, AtCoreIs DEF Queues
<1>5. pending[k] > 0
  BY <1>4
<1>6. k \in {"setup", "backup"} => phase = "setup" /\ pending["setup"] + pending["backup"] = 1
  BY <1>5, Numbers
<1>7. k = "backup" => account = "bare"
  BY <1>4 DEF CoreInv, Account
<1>8. Count(toUs', "backup") < pending["backup"] =>
         (Count(toUs, "backup") < pending["backup"]) /\ k # "backup" /\ k # "setup"
  <2>1. "backup" \in Kinds /\ Count(toUs, "backup") \in Nat /\ pending["setup"] \in Nat /\ pending["backup"] \in Nat
    BY <1>3, Numbers DEF Kinds
  <2>2. CASE k = "backup"
    <3>1. Count(toUs', "backup") = Count(toUs, "backup") + 1 /\ pending["backup"] <= 1
      BY <1>3, <1>6, <2>1, <2>2
    <3> QED BY <2>1, <3>1
  <2>3. CASE k = "setup"
    <3>1. Count(toUs', "backup") = Count(toUs, "backup") /\ pending["backup"] = 0
      BY <1>3, <1>5, <1>6, <2>1, <2>3
    <3> QED BY <2>1, <3>1
  <2>4. CASE k \notin {"setup", "backup"}
    BY <1>3, <2>1, <2>4
  <2> QED BY <2>2, <2>3, <2>4
<1>9. Settings' /\ Queues' /\ Outstanding'
  BY <1>3 DEF CoreInv, Settings, Queues, Outstanding
<1>10. ok /\ k \in {"setup", "backup"} => account' = "ours"
  OBVIOUS
<1>11. account' = account \/ (account' = "ours" /\ k \in {"setup", "backup"})
  OBVIOUS
<1>12. db' = db \/ (k = "backup" /\ db' \in 0 .. MaxMsgs /\ account' = "ours")
  BY <1>10
<1>13. Account'
  <2>1. account' \in {"none", "bare", "ours"} /\ db' \in 0 .. MaxMsgs
    BY <1>11, <1>12 DEF CoreInv, Account
  <2>2. account' # "ours" => db' = 0
    BY <1>11, <1>12 DEF CoreInv, Account
  <2>3. phase' = "up" => account' = "ours"
    BY <1>11 DEF CoreInv, Account
  <2>4. Count(toUs', "backup") < pending'["backup"] => account' = "bare"
    BY <1>8, <1>11 DEF CoreInv, Account
  <2>5. ASSUME NEW i \in DOMAIN toUs', toUs'[i].to \in {"setup", "backup"}, toUs'[i].ok
        PROVE  account' = "ours"
    <3>1. CASE toUs'[i] = a
      BY <1>1, <1>10, <2>5, <3>1
    <3>2. CASE i \in DOMAIN toUs /\ toUs'[i] = toUs[i]
      BY <1>11, <2>5, <3>2 DEF CoreInv, Account
    <3> QED BY <1>3, <3>1, <3>2
  <2> QED BY <2>1, <2>2, <2>3, <2>4, <2>5 DEF Account
<1>14. db' = db \/ db = 0
  BY <1>7, <1>12 DEF CoreInv, Account
<1>15. Events'
  BY <1>1, <1>3, <1>14 DEF CoreInv, Events
<1>16. View'
  <2>1. ASSUME NEW x \in Msgs \ left, db = 0 PROVE shown[x] = 0
    BY <2>1 DEF CoreInv, View, Msgs
  <2> QED BY <1>14, <2>1 DEF CoreInv, View
<1>17. Followed'
  <2> SUFFICES ASSUME phase = "up" PROVE Followed'
    BY DEF Followed
  <2>1. db' = db
    BY <1>6, <1>12
  <2>2. \A x : Due(x) => Due(x)'
    BY <1>3 DEF Due
  <2> QED BY <2>1, <2>2 DEF CoreInv, Followed
<1>18. MailOn'
  <2> SUFFICES ASSUME phase = "up", io' = "off" PROVE pending["offer"] > 0 \/ Count(toUs', "io") < pending["io"]
    BY DEF MailOn
  <2>1. CASE k = "io"
    <3>1. Count(toUs, "offer") < pending["offer"] /\ Count(toUs, "offer") \in Nat /\ pending["offer"] \in Nat
      BY <1>3, <2>1, AtCoreIs, Numbers DEF Kinds
    <3> QED BY <3>1
  <2>2. CASE k # "io"
    BY <1>3, <2>2 DEF CoreInv, MailOn, Kinds
  <2> QED BY <2>1, <2>2
<1> QED BY <1>3, <1>9, <1>13, <1>15, <1>16, <1>17, <1>18 DEF CoreInv

LEMMA EventTold ==
    ASSUME CoreInv, CoreTellsEvent
    PROVE  CoreInv'
<1> DEFINE a == Answer("event", TRUE, Head(evq))
<1> /\ auto' = auto /\ retryTimer' = retryTimer /\ loose' = loose /\ core' = core
    /\ phase' = phase /\ acct' = acct /\ deadline' = deadline /\ left' = left
    /\ want' = want /\ offer' = offer /\ pending' = pending /\ io' = io
    /\ shown' = shown /\ missed' = missed /\ account' = account /\ db' = db
  BY DEF CoreTellsEvent, adapter, device, view, store
<1>1. evq \in Seq(Msgs) /\ evq # <<>> /\ evq' = Tail(evq)
  BY DEF CoreTellsEvent, CoreInv, Queues
<1>2. /\ 1 \in DOMAIN evq /\ evq[1] = Head(evq) /\ Head(evq) \in Msgs /\ evq' \in Seq(Msgs)
      /\ \A i \in DOMAIN evq' : i + 1 \in DOMAIN evq /\ evq'[i] = evq[i + 1]
      /\ \A i \in DOMAIN evq : i = 1 \/ (i - 1 \in DOMAIN evq' /\ evq'[i - 1] = evq[i])
  BY <1>1
<1>3. Head(evq) \in 0 .. MaxMsgs /\ "event" \in Kinds
  BY <1>2, DeltaAssumption DEF Msgs, Kinds
<1>4. /\ a \in Lines /\ a.to = "event" /\ a.msg = Head(evq) /\ toUs' = Append(toUs, a)
  BY <1>3 DEF Answer, Lines, CoreTellsEvent
<1> HIDE DEF a
<1>5. Queues /\ Counted /\ AtCore(a.to) /\ a.to \in Kinds
  BY <1>3, <1>4 DEF CoreInv, CoreTellsEvent
<1>6. /\ toUs' \in Seq(Lines) /\ Counted'
      /\ \A j \in Kinds : /\ Count(toUs, j) \in Nat
                         /\ Count(toUs', j) = IF a.to = j THEN Count(toUs, j) + 1 ELSE Count(toUs, j)
      /\ \A i \in DOMAIN toUs' : toUs'[i] = a \/ (i \in DOMAIN toUs /\ toUs'[i] = toUs[i])
      /\ \A i \in DOMAIN toUs : i \in DOMAIN toUs' /\ toUs'[i] = toUs[i]
      /\ \E i \in DOMAIN toUs' : toUs'[i] = a
  BY <1>4, <1>5, ToldIs
<1>7. Settings' /\ Queues' /\ Outstanding'
  BY <1>2, <1>6 DEF CoreInv, Settings, Queues, Outstanding
<1>8. \A j \in Kinds : j # "event" => Count(toUs', j) = Count(toUs, j)
  BY <1>4, <1>6
<1>9. Account'
  BY <1>4, <1>6, <1>8 DEF CoreInv, Account, Kinds
<1>10. Events'
  BY <1>2, <1>4, <1>6 DEF CoreInv, Events
<1>11. View' /\ MailOn'
  BY <1>8 DEF CoreInv, View, MailOn, Kinds
<1>12. \A x : Due(x) => Due(x)'
  <2> TAKE x
  <2> HAVE Due(x)
  <2>1. CASE \E i \in DOMAIN evq : evq[i] = x
    <3> PICK i \in DOMAIN evq : evq[i] = x
      BY <2>1
    <3>1. CASE i = 1
      BY <1>2, <1>4, <1>6, <3>1 DEF Due
    <3>2. CASE i # 1
      BY <1>2, <3>2 DEF Due
    <3> QED BY <3>1, <3>2
  <2>2. CASE x \in missed \/ \E i \in DOMAIN toUs : toUs[i].to = "event" /\ toUs[i].msg = x
    BY <1>6, <2>2 DEF Due
  <2> QED BY <2>1, <2>2 DEF Due
<1>13. Followed'
  BY <1>12 DEF CoreInv, Followed
<1> QED BY <1>6, <1>7, <1>9, <1>10, <1>11, <1>13 DEF CoreInv

LEMMA MessageAdded ==
    ASSUME CoreInv, account = "ours", db < MaxMsgs, db' = db + 1,
           evq' = evq \o <<db', db'>> \/ evq' = Append(evq, db'),
           shown' = shown \/ shown' = [shown EXCEPT ![db'] = Once(@)],
           UNCHANGED <<adapter, rpc, device, account, io, left, missed>>
    PROVE  CoreInv'
<1> /\ auto' = auto /\ retryTimer' = retryTimer /\ loose' = loose /\ core' = core
    /\ phase' = phase /\ acct' = acct /\ deadline' = deadline /\ left' = left
    /\ want' = want /\ offer' = offer /\ pending' = pending /\ io' = io
    /\ missed' = missed /\ account' = account /\ toUs' = toUs
  BY DEF adapter, rpc, device
<1>1. db \in Nat /\ db' \in Msgs /\ db' \in 0 .. MaxMsgs /\ evq \in Seq(Msgs)
  BY DeltaAssumption DEF CoreInv, Account, Queues, Msgs
<1>2. PICK n \in Msgs : n = db'
  BY <1>1
<1>3. evq' = evq \o <<n, n>> \/ evq' = Append(evq, n)
  BY <1>2
<1>4. /\ evq' \in Seq(Msgs)
      /\ \A i \in DOMAIN evq : i \in DOMAIN evq' /\ evq'[i] = evq[i]
      /\ \A i \in DOMAIN evq' : evq'[i] = n \/ (i \in DOMAIN evq /\ evq'[i] = evq[i])
      /\ \E i \in DOMAIN evq' : evq'[i] = n
  <2>1. CASE evq' = Append(evq, n)
    <3>1. Len(evq) + 1 \in DOMAIN evq' /\ evq'[Len(evq) + 1] = n
      BY <1>1, <2>1
    <3> QED BY <1>1, <2>1, <3>1
  <2>2. CASE evq' = evq \o <<n, n>>
    <3>1. Len(evq) + 1 \in DOMAIN evq' /\ evq'[Len(evq) + 1] = n
      BY <1>1, <2>2
    <3>2. /\ evq' \in Seq(Msgs) /\ Len(evq') = Len(evq) + 2 /\ Len(evq) \in Nat
          /\ DOMAIN evq' = 1 .. Len(evq') /\ DOMAIN evq = 1 .. Len(evq)
          /\ \A i \in DOMAIN evq : evq'[i] = evq[i]
      BY <1>1, <2>2
    <3>3. evq'[Len(evq) + 2] = n
      BY <1>1, <2>2
    <3>4. \A i \in DOMAIN evq' : i \in DOMAIN evq \/ i = Len(evq) + 1 \/ i = Len(evq) + 2
      BY <3>2
    <3> QED BY <3>1, <3>2, <3>3, <3>4
  <2> QED BY <1>3, <2>1, <2>2
<1>5. Settings' /\ Queues' /\ Outstanding' /\ Counted'
  BY <1>4 DEF CoreInv, Settings, Queues, Outstanding, Counted
<1>6. Account'
  BY <1>1 DEF CoreInv, Account
<1>7. Events'
  <2>1. \A x \in 1 .. db : x \in 1 .. db'
    BY <1>1
  <2>2. n \in 1 .. db'
    BY <1>1, <1>2
  <2> QED BY <1>4, <2>1, <2>2 DEF CoreInv, Events
<1>8. shown \in [Msgs -> 0 .. 2] /\ (n \notin left => shown[n] = 0)
  BY <1>1, <1>2 DEF CoreInv, View
<1>9. /\ shown' \in [Msgs -> 0 .. 2]
      /\ \A x \in Msgs : shown'[x] = shown[x] \/ (x = n /\ shown'[x] = Once(shown[x]))
  <2>1. Once(shown[n]) \in 0 .. 2
    BY DEF Once
  <2> QED BY <1>2, <1>8, <2>1
<1>10. View'
  <2> SUFFICES ASSUME NEW x \in Msgs \ left PROVE shown'[x] = 0 \/ (shown'[x] = 1 /\ x <= db')
    BY <1>9 DEF CoreInv, View
  <2>1. CASE shown'[x] = shown[x]
    BY <1>1, <2>1 DEF CoreInv, View, Msgs
  <2>2. CASE x = n /\ shown'[x] = Once(shown[x])
    BY <1>1, <1>2, <1>8, <2>2 DEF Once
  <2> QED BY <1>9, <2>1, <2>2
<1>11. Followed'
  <2> SUFFICES ASSUME phase = "up", core = "running", NEW x \in Msgs, x <= db', x \notin left, shown'[x] = 0
               PROVE  Due(x)'
    BY DEF Followed
  <2>1. CASE x = n
    BY <1>4, <2>1 DEF Due
  <2>2. CASE x # n
    <3>1. x <= db /\ shown[x] = 0
      BY <1>1, <1>2, <1>9, <2>2 DEF Msgs
    <3>2. Due(x)
      BY <3>1 DEF CoreInv, Followed
    <3> QED BY <1>4, <3>2 DEF Due
  <2> QED BY <2>1, <2>2
<1>12. MailOn'
  BY DEF CoreInv, MailOn
<1> QED BY <1>5, <1>6, <1>7, <1>10, <1>11, <1>12 DEF CoreInv

-----------------------------------------------------------------------------
(* Every step.                                                             *)

LEMMA AtInit == Init => CoreInv
<1> SUFFICES ASSUME Init PROVE CoreInv
  OBVIOUS
<1>1. Settings /\ Queues
  <2>1. pending \in [Kinds -> Nat]
    BY DEF Init, Nothing
  <2>2. toUs \in Seq(Lines) /\ evq \in Seq(Msgs)
    BY DEF Init
  <2> QED BY <2>1, <2>2 DEF Init, Settings, Queues
<1>2. \A k \in Kinds : pending[k] = 0 /\ Count(toUs, k) = 0
  BY CountNone DEF Init, Nothing
<1>3. /\ pending["info"] = 0 /\ pending["event"] = 0
      /\ pending["setup"] + pending["backup"] = 0
      /\ pending["offer"] + pending["io"] <= MaxOffers
  BY <1>2, DeltaAssumption DEF Kinds
<1>4. Outstanding
  BY <1>3 DEF Init, Outstanding
<1>5. Counted
  BY <1>2 DEF Counted
<1>6. Account
  BY <1>2 DEF Init, Account, Kinds
<1>7. Events /\ View /\ Followed /\ MailOn
  BY DEF Init, Events, View, Followed, MailOn
<1> QED BY <1>1, <1>4, <1>5, <1>6, <1>7 DEF CoreInv

LEMMA Connecting ==
    ASSUME CoreInv, connect \/ _reconnect
    PROVE  CoreInv'
<1> /\ account' = account /\ db' = db /\ shown' = shown /\ left' = left /\ missed' = missed
    /\ io' = io /\ evq' = evq /\ offer' = offer
  BY DEF connect, _reconnect, store, view
<1>1. \/ UNCHANGED <<phase, deadline, core, pending, toUs, want>> /\ (acct' = acct \/ acct' = "error")
      \/ phase = "down" /\ Start(pending) /\ want' = want
      \/ phase = "down" /\ NoStart /\ acct' = "error"
  BY DEF connect, _reconnect, rpc
<1>2. /\ acct' = acct \/ acct' \in {"connecting", "error"}
      /\ auto' = auto \/ auto' = FALSE
      /\ retryTimer' = retryTimer \/ retryTimer' = FALSE
      /\ want' = want \/ want' = FALSE
  <2>1. acct' = acct \/ acct' \in {"connecting", "error"}
    BY <1>1 DEF Start
  <2>2. want' = want \/ want' = FALSE
    BY <1>1 DEF NoStart, _close, CloseThenAsk
  <2>3. (auto' = auto \/ auto' = FALSE) /\ (retryTimer' = retryTimer \/ retryTimer' = FALSE)
    BY DEF connect, _reconnect
  <2> QED BY <2>1, <2>2, <2>3
<1>3. loose' \in Nat
  <2>1. loose \in Nat
    BY DEF CoreInv, Settings
  <2>2. loose' = loose \/ (loose > 0 /\ loose' = loose - 1)
    BY Zenon DEF connect, _reconnect
  <2> QED BY <2>1, <2>2
<1>4. Settings'
  BY <1>2, <1>3, Zenon DEF CoreInv, Settings
<1>5. /\ Holding' /\ View' /\ evq' \in Seq(Msgs) /\ \A i \in DOMAIN evq' : evq'[i] \in 1 .. db'
  BY DEF CoreInv, Account, Holding, View, Queues, Events
<1>6. CASE phase = "down" /\ Start(pending)
  <2>1. PICK wanted : wanted = pending
    OBVIOUS
  <2>2. NoneOut(wanted) /\ Start(wanted)
    BY <1>6, <2>1, IdleDown
  <2> QED BY <1>4, <1>5, <2>2, Started
<1>7. CASE UNCHANGED <<phase, deadline, core, pending, toUs>>
  <2>1. UNCHANGED <<phase, deadline, core, pending, toUs, io, evq, store, view>>
    BY <1>7 DEF store, view
  <2> QED BY <1>4, <2>1, SettingsOnly
<1>8. CASE phase = "down" /\ UNCHANGED phase /\ _close
  <2>1. /\ phase' = "down" /\ deadline' = FALSE /\ core' = "none" /\ pending' = Nothing /\ toUs' = <<>>
        /\ evq' = <<>>
    BY <1>8 DEF _close, CloseThenAsk
  <2>2. NoneOut(pending')
    BY <2>1, IdleAsked
  <2> QED BY <1>4, <1>5, <2>1, <2>2, Closed
<1>9. CASE phase = "down" /\ NoStart
  BY <1>7, <1>8, <1>9 DEF NoStart, rpc
<1> QED BY <1>1, <1>6, <1>7, <1>9

LEMMA Stopping ==
    ASSUME CoreInv, disconnect \/ device_use
    PROVE  CoreInv'
<1>1. /\ loose' = loose
      /\ auto' \in BOOLEAN /\ retryTimer' \in BOOLEAN
      /\ want' \in BOOLEAN /\ offer' = FALSE /\ io' = "off"
      /\ acct' \in {"disconnected", "connecting", "connected", "error"}
  <2>1. Settings
    BY DEF CoreInv
  <2>2. CASE disconnect
    BY <2>1, <2>2, Zenon DEF Settings, disconnect, _close, CloseThenAsk, StopsRetrying, Disconnected
  <2>3. CASE device_use
    <3>1. want' \in BOOLEAN /\ offer' = FALSE /\ io' = "off"
      BY <2>3, Zenon DEF device_use, StartsAnew
    <3>2. (StopsRetrying \/ UNCHANGED <<auto, retryTimer, loose>>) /\ (StartsAnew(pending, acct) \/ StartsAnew(Nothing, Disconnected))
      BY <2>3, Zenon DEF device_use
    <3>3. loose' = loose /\ auto' \in BOOLEAN /\ retryTimer' \in BOOLEAN
      BY <2>1, <3>2 DEF Settings, StopsRetrying
    <3>4. acct' = "connecting" \/ acct' = acct \/ acct' = "disconnected"
      BY <3>2 DEF StartsAnew, Start, Disconnected
    <3> QED BY <2>1, <3>1, <3>3, <3>4 DEF Settings
  <2> QED BY <2>2, <2>3
<1>2. Settings'
  BY <1>1 DEF CoreInv, Settings
<1>3. Holding' /\ View'
  <2>1. CASE disconnect
    BY <2>1 DEF CoreInv, Account, Holding, View, disconnect, store, view
  <2>2. CASE device_use
    <3>1. missed' = {} /\ shown' = shown
      BY <2>2, Zenon DEF device_use, StartsAnew
    <3>2. \/ account' = account /\ db' = db /\ left' = left
          \/ account' = "none" /\ db' = 0 /\ left' = {m \in Msgs : shown[m] > 0}
      BY <2>2 DEF device_use, store
    <3>3. Holding'
      BY <3>2, DeltaAssumption DEF CoreInv, Account, Holding
    <3>4. View'
      <4>1. CASE left' = left /\ db' = db
        BY <3>1, <4>1 DEF CoreInv, View
      <4>2. CASE left' = {m \in Msgs : shown[m] > 0}
        BY <3>1, <4>2 DEF CoreInv, View
      <4> QED BY <3>2, <4>1, <4>2
    <3> QED BY <3>3, <3>4
  <2> QED BY <2>1, <2>2
<1>4. evq' = <<>>
  BY DEF disconnect, device_use, _close, CloseThenAsk, StartsAnew
<1>5. PICK wanted :
        /\ NoneOut(wanted)
        /\ \/ Start(wanted)
           \/ /\ phase' = "down" /\ deadline' = FALSE /\ core' = "none" /\ toUs' = <<>>
              /\ pending' = wanted \/ pending' = Nothing
  <2>1. CASE disconnect
    <3>1. phase' = "down" /\ deadline' = FALSE /\ core' = "none" /\ toUs' = <<>> /\ pending' = Nothing
      BY <2>1 DEF disconnect, _close, CloseThenAsk
    <3> QED BY <3>1, IdleAsked
  <2>2. CASE phase = "down" /\ StartsAnew(pending, acct)
    <3>1. PICK wanted : wanted = pending
      OBVIOUS
    <3>2. NoneOut(wanted) /\ StartsAnew(wanted, acct)
      BY <2>2, <3>1, IdleDown
    <3> QED BY <3>2, Zenon DEF StartsAnew
  <2>3. CASE StartsAnew(Nothing, Disconnected)
    BY <2>3, IdleAsked, Zenon DEF StartsAnew
  <2> QED BY <2>1, <2>2, <2>3, Zenon DEF device_use
<1>6. CASE Start(wanted)
  <2>1. NoneOut(wanted) /\ Start(wanted) /\ Settings' /\ Holding' /\ View' /\ evq' \in Seq(Msgs)
        /\ \A i \in DOMAIN evq' : evq'[i] \in 1 .. db'
    BY <1>2, <1>3, <1>4, <1>5, <1>6
  <2> QED BY <2>1, Started
<1>7. CASE ~Start(wanted)
  <2>1. /\ phase' = "down" /\ deadline' = FALSE /\ core' = "none" /\ toUs' = <<>>
        /\ pending' = wanted \/ pending' = Nothing
    BY <1>5, <1>7
  <2>2. NoneOut(pending')
    BY <1>5, <2>1, IdleAsked
  <2> QED BY <1>2, <1>3, <1>4, <2>1, <2>2, Closed
<1> QED BY <1>6, <1>7

LEMMA AnswersHeard ==
    ASSUME CoreInv, _started \/ SetupDone
    PROVE  CoreInv'
<1> left' = left /\ db' = db
  BY DEF _started, SetupDone, store
<1>1. missed' = missed \/ missed' = {}
  BY DEF _started, SetupDone
<1>2. toUs # <<>> /\ toUs \in Seq(Lines) /\ 1 \in DOMAIN toUs /\ toUs[1] = Head(toUs)
  BY DEF CoreInv, Queues, _started, SetupDone, Hears
<1>3. \A m \in Msgs : /\ shown[m] \in 0 .. 2
                      /\ Loaded(shown)[m] = IF m <= db /\ shown[m] = 0 THEN 1 ELSE shown[m]
  BY DEF CoreInv, View, Loaded
<1>4. Loaded(shown) \in [Msgs -> 0 .. 2]
  BY <1>3 DEF Loaded
<1>5. ASSUME shown' = shown \/ shown' = Loaded(shown) PROVE View'
  <2>1. shown' \in [Msgs -> 0 .. 2] /\ missed' \subseteq Msgs
    BY <1>1, <1>4, <1>5 DEF CoreInv, View
  <2>2. \A m \in Msgs \ left : shown'[m] = 0 \/ (shown'[m] = 1 /\ m <= db)
    BY <1>3, <1>5 DEF CoreInv, View
  <2> QED BY <2>1, <2>2 DEF CoreInv, View
<1>6. ASSUME NEW was, _fail \/ _lost(was), shown' = shown \/ shown' = Loaded(shown),
             account' = account \/ (account = "none" /\ account' = "bare")
      PROVE  CoreInv'
  <2>1. Holding'
    BY <1>6 DEF CoreInv, Account, Holding
  <2>2. View'
    BY <1>5, <1>6
  <2>3. (_fail \/ _lost(was)) /\ Holding' /\ View'
    BY <1>6, <2>1, <2>2
  <2> QED BY <2>3, FailedOrLost
<1>7. ASSUME NEW k \in {"info", "setup", "backup"}, Hears(k), account = "ours", account' = account,
             core = "running", _go(phase, IF k = "info" THEN {"event"} ELSE {}),
             missed' = IF phase' = "up" THEN {} ELSE missed
      PROVE  CoreInv'
  <2> DEFINE more == IF k = "info" THEN {"event"} ELSE {}
  <2>1. CASE /\ phase' = "up" /\ acct' = "connected"
             /\ deadline' = FALSE /\ io' = "on" /\ shown' = Loaded(shown)
             /\ Heard(more)
             /\ UNCHANGED <<auto, retryTimer, loose, core, device, evq>>
    <3>1. UNCHANGED <<auto, retryTimer, loose, core, device, evq, store, left>>
      BY <1>7, <2>1 DEF store
    <3>2. missed' = {}
      BY <1>7, <2>1
    <3> QED BY <1>7, <2>1, <3>1, <3>2, GoneUp
  <2>2. CASE _fail /\ shown' \in {shown, Loaded(shown)}
    <3>1. shown' = shown \/ shown' = Loaded(shown)
      BY <2>2
    <3> QED BY <1>6, <1>7, <2>2, <3>1
  <2>3. CASE _lost(phase) /\ UNCHANGED shown
    BY <1>6, <1>7, <2>3
  <2>4. CASE _lost("up") /\ shown' \in {shown, Loaded(shown)}
    <3>1. shown' = shown \/ shown' = Loaded(shown)
      BY <2>4
    <3> QED BY <1>6, <1>7, <2>4, <3>1
  <2> QED BY <1>7, <2>1, <2>2, <2>3, <2>4 DEF _go
<1>8. CASE _started
  <2>1. Hears("info") /\ missed' = IF phase' = "up" THEN {} ELSE missed
    BY <1>8 DEF _started
  <2>2. CASE /\ _fail \/ _lost(phase)
             /\ UNCHANGED shown
             /\ account' \in {account, IF account = "none" THEN "bare" ELSE account}
    <3>1. account' = account \/ (account = "none" /\ account' = "bare")
      BY <2>2
    <3> QED BY <1>6, <2>2, <3>1
  <2>3. ASSUME NEW how \in {"setup", "backup"}, Setup(how), account # "ours", account' = "bare", core = "running"
        PROVE  CoreInv'
    <3>1. phase' = "setup"
      BY <2>3 DEF Setup
    <3>2. UNCHANGED <<db, left, missed>>
      BY <2>1, <3>1
    <3> QED BY <2>1, <2>3, <3>2, BeingSetUp
  <2>4. CASE core = "running" /\ account = "ours" /\ _go(phase, {"event"}) /\ UNCHANGED account
    <3>1. _go(phase, IF "info" = "info" THEN {"event"} ELSE {}) /\ "info" \in {"info", "setup", "backup"}
      BY <2>4
    <3> QED BY <1>7, <2>1, <2>4, <3>1
  <2> QED BY <1>8, <2>2, <2>3, <2>4 DEF _started
<1>9. CASE SetupDone
  <2>1. PICK k \in {"setup", "backup"} : Hears(k)
    BY <1>9 DEF SetupDone
  <2>2. account' = account /\ missed' = IF phase' = "up" THEN {} ELSE missed
    BY <1>9 DEF SetupDone, store
  <2>3. CASE (_fail \/ _lost(phase)) /\ UNCHANGED shown
    BY <1>6, <2>2, <2>3
  <2>4. CASE Head(toUs).ok /\ core = "running" /\ _go(phase, {})
    <3>1. account = "ours"
      BY <1>2, <2>1, <2>4 DEF CoreInv, Account, Hears
    <3>2. _go(phase, IF k = "info" THEN {"event"} ELSE {}) /\ k \in {"info", "setup", "backup"}
      BY <2>1, <2>4
    <3> QED BY <1>7, <2>1, <2>2, <2>4, <3>1, <3>2
  <2> QED BY <1>9, <2>3, <2>4 DEF SetupDone
<1> QED BY <1>8, <1>9

LEMMA EveryStep == CoreInv /\ [Next]_vars => CoreInv'
<1> SUFFICES ASSUME CoreInv, [Next]_vars PROVE CoreInv'
  OBVIOUS
<1>1. CASE connect \/ _reconnect
  BY <1>1, Connecting
<1>2. CASE disconnect \/ device_use
  BY <1>2, Stopping
<1>3. CASE TimedOut \/ EndOfCore \/ EventLosesCore \/ CallLosesCore
  <2>1. (_fail \/ _lost(phase)) /\ UNCHANGED <<store, view>>
    BY <1>3 DEF TimedOut, EndOfCore, EventLosesCore, CallLosesCore
  <2> QED BY <2>1, FailedOrLostStill
<1>4. CASE _started \/ SetupDone
  BY <1>4, AnswersHeard
<1>5. CASE EventHandled
  BY <1>5, EventKeeps
<1>6. CASE _offer_done
  <2>1. CASE _lost(phase)
    <3>1. UNCHANGED <<store, view>>
      BY <1>6 DEF _offer_done
    <3> QED BY <2>1, <3>1, FailedOrLostStill
  <2>2. CASE ~_lost(phase)
    <3>1. /\ "offer" \in {"offer", "io"} /\ Hears("offer")
          /\ Heard(IF phase = "up" THEN {"io"} ELSE {})
          /\ offer' \in BOOLEAN /\ UNCHANGED <<adapter, core, want, store, io, evq, view>>
      BY <1>6, <2>2 DEF _offer_done
    <3>2. Heard(IF "offer" = "offer" /\ phase = "up" THEN {"io"} ELSE {})
      BY <3>1
    <3> QED BY <3>1, <3>2, OfferOrMail
  <2> QED BY <2>1, <2>2
<1>7. CASE IoAnswered
  <2>1. /\ "io" \in {"offer", "io"} /\ Hears("io") /\ Heard({})
        /\ offer' = offer /\ UNCHANGED <<adapter, core, want, store, io, evq, view>>
    BY <1>7 DEF IoAnswered, device
  <2>2. Heard(IF "io" = "offer" /\ phase = "up" THEN {"io"} ELSE {}) /\ offer' \in BOOLEAN
    BY <2>1 DEF CoreInv, Settings
  <2> QED BY <2>1, <2>2, OfferOrMail
<1>8. CASE device_offer
  <2>1. CASE _lost(phase)
    <3>1. UNCHANGED <<store, view>>
      BY <1>8 DEF device_offer
    <3> QED BY <2>1, <3>1, FailedOrLostStill
  <2>2. CASE LostThenAsk(phase, [Nothing EXCEPT !["offer"] = 1])
    <3>1. /\ account' = account /\ db' = db /\ shown' = shown /\ left' = left /\ missed' = missed
      BY <1>8 DEF device_offer, store, view
    <3>2. Holding' /\ View'
      BY <3>1 DEF CoreInv, Account, Holding, View
    <3>3. PICK wanted : wanted = [Nothing EXCEPT !["offer"] = 1]
      OBVIOUS
    <3>4. NoneOut(wanted) /\ ((_fail /\ wanted = Nothing) \/ LostThenAsk(phase, wanted))
      BY <2>2, <3>3, IdleAsked
    <3> QED BY <3>2, <3>4, LostAsking
  <2>3. CASE ~_lost(phase) /\ ~LostThenAsk(phase, [Nothing EXCEPT !["offer"] = 1])
    <3>1. /\ phase = "up" /\ pending["offer"] + pending["io"] < MaxOffers
          /\ pending' = [pending EXCEPT !["offer"] = @ + 1] /\ io' = "off" /\ offer' \in BOOLEAN
          /\ UNCHANGED <<adapter, core, toUs, want, evq, store, view>>
      BY <1>8, <2>3 DEF device_offer
    <3> QED BY <3>1, Offered
  <2> QED BY <2>1, <2>2, <2>3
<1>9. CASE device_cancel
  <2>1. CASE _lost(phase)
    <3>1. UNCHANGED <<store, view>>
      BY <1>9 DEF device_cancel
    <3> QED BY <2>1, <3>1, FailedOrLostStill
  <2>2. CASE ~_lost(phase)
    <3>1. /\ "offer" \in Kinds /\ core = "running" /\ AtCore("offer") /\ Ends("offer", FALSE)
          /\ UNCHANGED <<adapter, core, pending, device, evq, view>> /\ account' = account /\ db' = db /\ io' = io
      BY <1>9, <2>2 DEF device_cancel, store, Kinds
    <3>2. /\ FALSE \in BOOLEAN
          /\ account' = IF FALSE /\ "offer" \in {"setup", "backup"} THEN "ours" ELSE account
          /\ db' \in IF FALSE /\ "offer" = "backup" THEN 0 .. MaxMsgs ELSE {db}
          /\ io' \in {"on", "off", "refused"}
          /\ io' = "off" => io = "off" /\ ("offer" = "io" => AtCore("offer"))
      BY <3>1 DEF CoreInv, Settings
    <3> QED BY <3>1, <3>2, Answers
  <2> QED BY <2>1, <2>2
<1>10. CASE speak
  <2>1. CASE _lost(phase)
    <3>1. /\ phase = "up" /\ db < MaxMsgs /\ account' = account
          /\ db' = db \/ db' = db + 1
          /\ shown' = shown /\ left' = left /\ missed' = missed
      BY <1>10, <2>1 DEF speak, _lost, LostThenAsk, CloseThenAsk, view, rpc
    <3>2. Holding' /\ View'
      BY <3>1, DeltaAssumption DEF CoreInv, Account, Holding, View, Msgs
    <3> QED BY <2>1, <3>2, FailedOrLost
  <2>2. CASE ~_lost(phase)
    <3>1. /\ phase = "up" /\ db < MaxMsgs /\ db' = db + 1 /\ evq' = Append(evq, db')
          /\ shown' = shown \/ shown' = [shown EXCEPT ![db'] = Once(@)]
          /\ UNCHANGED <<adapter, rpc, device, account, io, left, missed>>
      BY <1>10, <2>2 DEF speak, MsgsChanged
    <3>2. account = "ours"
      BY <3>1 DEF CoreInv, Account
    <3> QED BY <3>1, <3>2, MessageAdded
  <2> QED BY <2>1, <2>2
<1>11. CASE CoreExits
  <2>1. /\ core = "running" /\ core' = "gone" /\ io' = "off" /\ evq' = <<>>
        /\ auto' = auto /\ retryTimer' = retryTimer /\ loose' = loose
        /\ phase' = phase /\ acct' = acct /\ deadline' = deadline /\ left' = left
        /\ want' = want /\ offer' = offer /\ account' = account /\ db' = db
        /\ pending' = pending /\ toUs' = toUs /\ shown' = shown /\ missed' = missed
    BY <1>11 DEF CoreExits, adapter, device, store, view
  <2>2. Settings' /\ Queues' /\ Counted'
    <3>1. Settings'
      BY <2>1, Zenon DEF CoreInv, Settings
    <3> QED BY <2>1, <3>1 DEF CoreInv, Queues, Counted
  <2>3. phase # "down"
    BY <2>1 DEF CoreInv, Outstanding
  <2>4. Outstanding'
    BY <2>1, <2>3 DEF CoreInv, Outstanding
  <2>5. Account' /\ Events' /\ View' /\ Followed' /\ MailOn'
    BY <2>1 DEF CoreInv, Account, Events, View, Followed, MailOn
  <2> QED BY <2>2, <2>4, <2>5 DEF CoreInv
<1>12. CASE CoreTellsEvent
  BY <1>12, EventTold
<1>13. CASE MessageComes
  <2>1. /\ account = "ours" /\ db < MaxMsgs /\ db' = db + 1 /\ evq' = evq \o <<db', db'>>
        /\ shown' = shown
        /\ UNCHANGED <<adapter, rpc, device, account, io, left, missed>>
    BY <1>13 DEF MessageComes, view
  <2> QED BY <2>1, MessageAdded
<1>14. ASSUME NEW k \in Kinds, CoreAnswers(k) PROVE CoreInv'
  <2>1. PICK ok \in BOOLEAN :
          /\ Ends(k, ok)
          /\ account' = IF ok /\ k \in {"setup", "backup"} THEN "ours" ELSE account
          /\ db' \in IF ok /\ k = "backup" THEN 0 .. MaxMsgs ELSE {db}
          /\ io' = IF k = "io" THEN MailAfter(ok) ELSE io
    BY <1>14 DEF CoreAnswers
  <2>2. /\ k # "event" /\ core = "running" /\ AtCore(k)
        /\ UNCHANGED <<adapter, core, pending, device, evq, view>>
    BY <1>14 DEF CoreAnswers
  <2>3. io \in {"on", "off", "refused"}
    BY DEF CoreInv, Settings
  <2>4. io' \in {"on", "off", "refused"} /\ (io' = "off" => io = "off" /\ (k = "io" => AtCore("offer")))
    BY <2>1, <2>3 DEF MailAfter
  <2> QED BY <2>1, <2>2, <2>3, <2>4, Answers
<1>15. CASE UNCHANGED vars
  <2>1. UNCHANGED <<phase, deadline, core, pending, toUs, io, evq, store, view>> /\ Settings'
    BY <1>15 DEF vars, adapter, rpc, device, CoreInv, Settings
  <2> QED BY <2>1, SettingsOnly
<1> QED BY <1>1, <1>2, <1>3, <1>4, <1>5, <1>6, <1>7, <1>8, <1>9, <1>10, <1>11, <1>12, <1>13, <1>14, <1>15
        DEF Next, _process

LEMMA CoreInvKept == Spec => []CoreInv
<1> QED BY AtInit, EveryStep, PTL DEF Spec

-----------------------------------------------------------------------------
(* The theorems.                                                           *)

LEMMA InStepThen == CoreInv => CoreInStep
<1> SUFFICES ASSUME CoreInv PROVE CoreInStep
  OBVIOUS
<1>1. PhaseIsTrue
  BY DEF CoreInv, Outstanding, PhaseIsTrue
<1>2. \A k \in Kinds : pending[k] \in 0 .. MaxOffers
  <2>1. MaxOffers \in Nat /\ MaxOffers >= 1
    BY DeltaAssumption
  <2>2. /\ pending["info"] <= 1 /\ pending["event"] <= 1 /\ pending["setup"] <= 1 /\ pending["backup"] <= 1
        /\ pending["offer"] <= MaxOffers /\ pending["io"] <= MaxOffers
    BY <2>1, Numbers
  <2> QED BY <2>1, <2>2, Numbers DEF Kinds
<1>3. pending \in [Kinds -> 0 .. MaxOffers]
  BY <1>2 DEF CoreInv, Queues
<1>4. TypeOK
  BY <1>3 DEF CoreInv, Settings, Queues, Outstanding, Account, View, TypeOK, Lines
<1> QED BY <1>1, <1>4 DEF CoreInStep

\* DeltaCore's CoreInStep: whatever the core answers and whenever it exits,
\* _process, _fail, _lost and the timers leave a start or set-up with its one
\* request and deadline, and an account that is up with one get_next_event.
THEOREM CoreAlwaysInStep == Spec => []CoreInStep
<1> QED BY CoreInvKept, InStepThen, PTL

LEMMA OnceFollowed == CoreInv => EveryMessageOnce
<1> SUFFICES ASSUME CoreInv, phase = "up", core = "running", NEW m \in (1 .. db) \ left
             PROVE  \/ shown[m] = 1
                    \/ shown[m] = 0 /\ \/ m \in Range(evq) \cup missed
                                        \/ \E a \in Range(toUs) : a.to = "event" /\ a.msg = m
  BY DEF EveryMessageOnce
<1>1. m \in Msgs /\ m <= db
  BY DeltaAssumption DEF CoreInv, Account, Msgs
<1>2. shown[m] = 0 \/ shown[m] = 1
  BY <1>1 DEF CoreInv, View
<1>3. shown[m] # 0 \/ Due(m)
  BY <1>1 DEF CoreInv, Followed
<1> QED BY <1>2, <1>3 DEF Due, Range

\* DeltaCore's EveryMessageOnce: while the account is up, what the core has is
\* shown once, is still to come, or was missed in a call that failed - through
\* _on_event, speak, merge_history and the starting again of the core.
THEOREM MessagesAlwaysOnce == Spec => []EveryMessageOnce
<1> QED BY CoreInvKept, OnceFollowed, PTL

LEMMA MailThenFlows == CoreInv => MailFlows
<1> QED BY AtCoreIs DEF CoreInv, MailOn, MailFlows

\* DeltaCore's MailFlows: device_offer stops the mail, and every way that
\* offer ends (_offer_done, device_cancel, a start over) has it start again.
THEOREM MailAlwaysFlows == Spec => []MailFlows
<1> QED BY CoreInvKept, MailThenFlows, PTL

-----------------------------------------------------------------------------
(* tvchat's window: the invariant                                          *)

Happenings == [t : {"msg", "unread", "conv-new", "conv-gone", "history latest",
                    "history before", "state", "invite"},
               c : Convs \cup Accts \cup Invites, n : Nat]
Known(e) == /\ e.t \notin {"state", "invite"} => e.c \in Convs
            /\ e.t = "conv-new" => e.n = 0
Tasks == [k : {"invites"}, left : SUBSET Invites] \cup [k : {"conv", "there"}, c : Convs]
           \cup [k : {"account"}, a : Accts]
Text == [for : Convs \cup {None}, fate : {"kept", "sent", "gone"}, to : Convs \cup {None}]
Windows == [acct : Accts \cup {None}, conv : Convs \cup {None}, rows : Seq(Convs),
            hi : Convs \cup {None}, lastConv : [Accts -> Convs \cup {None}],
            drafts : [Convs -> Nat], input : Nat, log : Seq(Nat),
            notes : BOOLEAN, noOlder : BOOLEAN]

\* The types of what each side has.
BackendTypes ==
    /\ bAccts \in Seq(Accts) /\ bConvs \subseteq Convs
    /\ ring \in [Convs -> SUBSET Nat] /\ last \in [Convs -> Nat] /\ unread \in [Convs -> Nat]
    /\ asking \subseteq bConvs /\ waiting \subseteq Invites /\ gen \in Nat
    /\ queue \in Seq(Happenings) /\ \A i \in DOMAIN queue : Known(queue[i])
ClientTypes ==
    /\ DOMAIN model \subseteq Convs /\ model \in [DOMAIN model -> Nat]
    /\ mAccts \in Seq(Accts) /\ cgen \in Nat /\ cgen <= gen
    /\ batch \in Seq(Happenings) /\ \A i \in DOMAIN batch : Known(batch[i])
    /\ polling \in {"no", "due", "told", "reset"} /\ invited \in BOOLEAN
WindowTypes ==
    /\ win \in Windows /\ pane \in BOOLEAN /\ front \in BOOLEAN
    /\ todo \in Seq(Tasks) /\ texts \in Seq(Text)
    /\ reborn \subseteq Convs

\* Who is at work: the user in a dialog, or a poll.
AtWork ==
    /\ batch # <<>> => polling = "told"
    /\ invited => polling = "told"
    /\ dlg # NoDialog => batch = <<>> /\ polling = "no" /\ todo = <<>>

-----------------------------------------------------------------------------
(* What a window says of itself                                            *)

\* The rows are of one account, and the highlight is on what is shown.
RowsOf(w) == \A i \in DOMAIN w.rows : AcctOf[w.rows[i]] = w.acct
Lit(w) == w.conv \in ToSet(w.rows) => w.hi = w.conv /\ w.acct = AcctOf[w.conv]

\* Where the texts are: a line or a draft is of the conversation it is with.
TextsAt(w, ts) ==
    /\ w.input \in 0 .. Len(ts) /\ (w.input # None => ts[w.input].for = w.conv)
    /\ \A c \in Convs : /\ w.drafts[c] \in 0 .. Len(ts)
                        /\ w.drafts[c] # None => ts[w.drafts[c]].for = c
    /\ \A t \in DOMAIN ts : ts[t].for # None /\ ts[t].fate = "kept" =>
         IF w.conv = ts[t].for THEN w.input = t ELSE w.drafts[ts[t].for] = t
SentHome == \A t \in DOMAIN texts : texts[t].for # None /\ texts[t].fate = "sent" =>
                                      texts[t].to = texts[t].for
\* Whatever the window becomes, the texts are where they were, and its log is
\* the one it had or has just been read.
FromLog(w, v) == (v.conv = w.conv /\ v.log = w.log) \/ v.log = LatestOf(v.conv)
Carried(w, v) == /\ v \in Windows /\ FromLog(w, v)
                 /\ \A ts \in Seq(Text) : TextsAt(w, ts) => TextsAt(v, ts)
Window == RowsOf(win) /\ Lit(win) /\ TextsAt(win, texts) /\ SentHome

\* A dialog names what it will ask for.
DialogNames == dlg # NoDialog => Target = dlg.named

-----------------------------------------------------------------------------
(* The messages                                                            *)

MsgOf(e, c) == e.t = "msg" /\ e.c = c
ToldIn(q, c, m) == \E j \in DOMAIN q : MsgOf(q[j], c) /\ q[j].n = m

\* What the server has of a conversation goes up to its last message.
RingRuns == \A c \in Convs : /\ c \notin bConvs => ring[c] = {} /\ unread[c] = 0
                             /\ \A m \in ring[c] : m \in 1 .. last[c] /\ m .. last[c] \subseteq ring[c]

\* So do the messages still to be told, a page of them at most.
Runs(q, c, l) ==
    /\ \A i \in DOMAIN q : MsgOf(q[i], c) =>
         /\ q[i].n \in 1 .. l /\ l < q[i].n + Page
         /\ \A m \in q[i].n .. l : ToldIn(q, c, m)
    /\ \A i, j \in DOMAIN q : MsgOf(q[i], c) /\ MsgOf(q[j], c) /\ i < j => q[i].n < q[j].n
Within(q, c, r) == \A i \in DOMAIN q : MsgOf(q[i], c) => q[i].n \in r
Pend(q, l, r, rb) == \A c \in Convs : Runs(q, c, l[c]) /\ (c \notin rb => Within(q, c, r[c]))
PendingRuns == gen = cgen => Pend(ToTell, last, ring, reborn)

\* The log is a run, too, and what it lacks at its end is still to be told.
LogRuns(log, q, c, l) ==
    log # <<>> =>
      /\ c \in Convs /\ log[1] \in Nat \ {0} /\ log[1] + Len(log) <= l + 1
      /\ \A i \in DOMAIN log : log[i] = log[1] + i - 1
      /\ \A i \in DOMAIN q : MsgOf(q[i], c) => log[1] <= q[i].n
      /\ \A m \in log[1] + Len(log) .. l : ToldIn(q, c, m)
Follow(w, q, l, rb) == w.conv \notin rb => LogRuns(w.log, q, w.conv, l[w.conv])
LogFollows == gen = cgen /\ polling # "reset" => Follow(win, ToTell, last, reborn)

-----------------------------------------------------------------------------
(* What is unread, and the invitations                                     *)

\* The model, once all is told, has what the backend has.
TruthOf(B, u) == [c \in B |-> u[c]]
Meets(m, q, B, u) == Applied(m, q) = TruthOf(B, u)
Synced == gen = cgen => Meets(model, queue, bConvs, unread)

Rises(e, c) == e.t = "unread" /\ e.c = c /\ e.n > 0
RisesIn(q, c) == \E i \in DOMAIN q : Rises(q[i], c)
\* What is looked at and unread will be heard of.
Comes(c, m, b, q) == RisesIn(q, c) \/ (c \in DOMAIN m /\ m[c] > 0 /\ RisesIn(b, c))
Attends == Looking /\ ~slipped
Noticed ==
    gen = cgen /\ polling # "reset" /\ Attends /\ win.conv # None /\ unread[win.conv] > 0 =>
      Comes(win.conv, model, batch, queue)

InviteIn(q, i) == \E j \in DOMAIN q : q[j].t = "invite" /\ q[j].c = i
LeftIn(td, i) == \E k \in DOMAIN td : td[k].k = "invites" /\ i \in td[k].left
\* An invitation that waits was asked about, will be, or will be heard of.
InvitesFollowed ==
    \A i \in waiting \ (asked \cup dropped) :
      InviteIn(queue, i) \/ InviteIn(batch, i) \/ invited \/ LeftIn(todo, i)

WinInv == /\ BackendTypes /\ ClientTypes /\ WindowTypes /\ AtWork /\ Window /\ DialogNames
          /\ RingRuns /\ PendingRuns /\ LogFollows /\ Synced /\ Noticed /\ InvitesFollowed

-----------------------------------------------------------------------------
(* The recursion of Applied.                                               *)

\* What the model is after each of a queue's events
Path(f, m, q, n) ==
    f = [i \in 0 .. n |-> IF i = 0 THEN m ELSE Apply(f[i - 1], q[i])]

LEMMA PathStarts == ASSUME NEW m, NEW q PROVE \E f : Path(f, m, q, 0)
<1>1. Path([i \in {0} |-> m], m, q, 0)
  BY DEF Path
<1> QED BY <1>1

LEMMA PathGoesOn ==
    ASSUME NEW m, NEW q, NEW n \in Nat, NEW f, Path(f, m, q, n)
    PROVE  Path([i \in 0 .. n + 1 |-> IF i = n + 1 THEN Apply(f[n], q[n + 1]) ELSE f[i]],
                m, q, n + 1)
<1> DEFINE g == [i \in 0 .. n + 1 |-> IF i = n + 1 THEN Apply(f[n], q[n + 1]) ELSE f[i]]
<1>1. ASSUME NEW i \in 0 .. n + 1 PROVE g[i] = IF i = 0 THEN m ELSE Apply(g[i - 1], q[i])
  BY DEF Path
<1> QED BY <1>1 DEF Path

LEMMA PathExists == ASSUME NEW m, NEW q PROVE \A n \in Nat : \E f : Path(f, m, q, n)
<1> DEFINE T == {n \in Nat : \E f : Path(f, m, q, n)}
<1>1. 0 \in T
  BY PathStarts
<1>2. ASSUME NEW n \in Nat, n \in T PROVE n + 1 \in T
  <2>1. PICK f : Path(f, m, q, n)
    BY <1>2
  <2>2. \E g : Path(g, m, q, n + 1)
    BY <2>1, PathGoesOn
  <2> QED BY <2>2
<1> HIDE DEF T
<1>3. \A n \in Nat : n \in T
  BY <1>1, <1>2, SetInduction
<1> QED BY <1>3 DEF T

LEMMA PathIsOne ==
    ASSUME NEW m, NEW q, NEW n \in Nat, NEW f, NEW g, Path(f, m, q, n), Path(g, m, q, n)
    PROVE  f = g
<1> DEFINE T == {i \in Nat : i <= n => f[i] = g[i]}
<1>1. 0 \in T
  BY DEF Path
<1>2. ASSUME NEW i \in Nat, i \in T PROVE i + 1 \in T
  BY <1>2 DEF Path
<1> HIDE DEF T
<1>3. \A i \in Nat : i \in T
  BY <1>1, <1>2, SetInduction
<1>4. \A i \in 0 .. n : f[i] = g[i]
  BY <1>3 DEF T
<1>5. DOMAIN f = 0 .. n /\ DOMAIN g = 0 .. n /\ f = [i \in DOMAIN f |-> f[i]]
      /\ g = [i \in DOMAIN g |-> g[i]]
  BY DEF Path
<1> QED BY <1>4, <1>5

LEMMA PathApplied ==
    ASSUME NEW m, NEW q, Len(q) \in Nat, NEW f, Path(f, m, q, Len(q))
    PROVE  Applied(m, q) = f[Len(q)]
<1>1. Path(CHOOSE g : Path(g, m, q, Len(q)), m, q, Len(q))
  BY PathExists
<1>2. Applied(m, q) = (CHOOSE g : Path(g, m, q, Len(q)))[Len(q)]
  BY DEF Applied, Path
<1> QED BY <1>1, <1>2, PathIsOne

\* No event changes nothing; one more is applied to what there was.
LEMMA AppliedNone == ASSUME NEW m PROVE Applied(m, <<>>) = m
<1>1. PICK f : Path(f, m, <<>>, 0)
  BY PathStarts
<1> QED BY <1>1, PathApplied DEF Path

LEMMA AppliedMore ==
    ASSUME NEW S, NEW m, NEW q \in Seq(S), NEW e \in S
    PROVE  Applied(m, Append(q, e)) = Apply(Applied(m, q), e)
<1> DEFINE n == Len(q)
           z == Append(q, e)
<1>1. n \in Nat /\ Len(z) = n + 1 /\ z[n + 1] = e /\ \A i \in 1 .. n : z[i] = q[i]
  OBVIOUS
<1>2. PICK f : Path(f, m, q, n)
  BY <1>1, PathExists
<1>3. Path(f, m, z, n)
  <2>1. \A i \in 0 .. n : i # 0 => z[i] = q[i]
    BY <1>1
  <2> HIDE DEF z, n
  <2> QED BY <1>2, <2>1 DEF Path
<1> DEFINE g == [i \in 0 .. n + 1 |-> IF i = n + 1 THEN Apply(f[n], z[n + 1]) ELSE f[i]]
<1>4. Path(g, m, z, n + 1)
  <2> HIDE DEF z
  <2> QED BY <1>1, <1>3, PathGoesOn
<1>5. g[n + 1] = Apply(f[n], e)
  BY <1>1
<1>6. Applied(m, z) = g[n + 1]
  <2> HIDE DEF g, z, n
  <2> QED BY <1>1, <1>4, PathApplied
<1>7. Applied(m, q) = f[n]
  BY <1>1, <1>2, PathApplied
<1> QED BY <1>5, <1>6, <1>7

\* A conversation without anything unread has none until an event says so.
Low(m, c) == c \in DOMAIN m => m[c] = 0
LEMMA ApplyLow ==
    ASSUME NEW m, NEW e \in Happenings, Known(e), NEW c, Low(m, c), ~Rises(e, c)
    PROVE  Low(Apply(m, e), c)
<1>1. PICK k : k = Apply(m, e)
  OBVIOUS
<1>2. e.n \in Nat
  BY DEF Happenings
<1>3. CASE e.t = "conv-new"
  <2>1. k = [d \in DOMAIN m \cup {e.c} |-> IF d = e.c THEN e.n ELSE m[d]]
    BY <1>1, <1>3 DEF Apply
  <2> QED BY <1>1, <1>3, <2>1 DEF Known, Low
<1>4. CASE e.t = "conv-gone"
  <2>1. k = [d \in DOMAIN m \ {e.c} |-> m[d]]
    BY <1>1, <1>4 DEF Apply
  <2> QED BY <1>1, <2>1 DEF Low
<1>5. CASE e.t = "unread" /\ e.c \in DOMAIN m
  <2>1. k = [m EXCEPT ![e.c] = e.n]
    BY <1>1, <1>5 DEF Apply
  <2>2. DOMAIN k = DOMAIN m
    BY <2>1
  <2>3. e.c = c => e.n = 0
    BY <1>2, <1>5 DEF Rises
  <2>4. ASSUME c \in DOMAIN m PROVE k[c] = 0
    <3>1. CASE e.c = c
      BY <1>5, <2>1, <2>3, <3>1
    <3>2. CASE e.c # c
      BY <2>1, <2>4, <3>2 DEF Low
    <3> QED BY <3>1, <3>2
  <2> QED BY <1>1, <2>2, <2>4 DEF Low
<1>6. CASE e.t \notin {"conv-new", "conv-gone"} /\ ~(e.t = "unread" /\ e.c \in DOMAIN m)
  <2>1. k = m
    BY <1>1, <1>6 DEF Apply
  <2> QED BY <1>1, <2>1
<1> QED BY <1>3, <1>4, <1>5, <1>6

LEMMA AppliedLow ==
    ASSUME NEW m, NEW q \in Seq(Happenings), \A i \in DOMAIN q : Known(q[i]),
           NEW c, Low(m, c), ~RisesIn(q, c)
    PROVE  Low(Applied(m, q), c)
<1>1. PICK n \in Nat : n = Len(q) /\ DOMAIN q = 1 .. n
  OBVIOUS
<1>2. PICK f : Path(f, m, q, n)
  BY PathExists
<1> DEFINE T == {i \in Nat : i <= n => Low(f[i], c)}
<1>3. 0 \in T
  BY <1>2 DEF Path
<1>4. ASSUME NEW i \in Nat, i \in T PROVE i + 1 \in T
  <2> SUFFICES ASSUME i + 1 <= n PROVE Low(f[i + 1], c)
    OBVIOUS
  <2>1. PICK j : j = i + 1
    OBVIOUS
  <2>2. j \in 1 .. n /\ j \in 0 .. n /\ j # 0 /\ j - 1 = i /\ Low(f[i], c)
    BY <1>4, <2>1
  <2>3. q[j] \in Happenings /\ Known(q[j]) /\ ~Rises(q[j], c)
    BY <1>1, <2>2 DEF RisesIn
  <2>4. f[j] = Apply(f[j - 1], q[j])
    BY <1>2, <2>2 DEF Path
  <2> QED BY <2>1, <2>2, <2>3, <2>4, ApplyLow
<1> HIDE DEF T
<1>5. \A i \in Nat : i \in T
  BY <1>3, <1>4, SetInduction
<1>6. Low(f[n], c)
  BY <1>5 DEF T
<1>7. Applied(m, q) = f[n]
  BY <1>1, <1>2, PathApplied
<1> QED BY <1>6, <1>7

-----------------------------------------------------------------------------
(* Lists of numbers                                                        *)

\* A list in which each number is greater than the one before, and which leaves
\* none out, is the numbers from the first on.
OneByOne(k, n, a, b) == /\ \A i \in 1 .. n : k[i] \in a .. b
                        /\ \A i, j \in 1 .. n : i < j => k[i] < k[j]
                        /\ \A m \in a .. b : \E i \in 1 .. n : k[i] = m
LEMMA NoneLeftOut ==
    ASSUME NEW k, NEW n \in Nat, NEW a \in Nat, NEW b \in Nat, OneByOne(k, n, a, b)
    PROVE  \A i \in 1 .. n : k[i] = a + i - 1
<1>0. /\ \A i \in 1 .. n : k[i] \in a .. b
      /\ \A i, j \in 1 .. n : i < j => k[i] < k[j]
      /\ \A m \in a .. b : \E i \in 1 .. n : k[i] = m
  BY DEF OneByOne
<1> DEFINE T == {i \in Nat : i + 1 <= n => k[i + 1] = a + i}
<1>1. 0 \in T
  <2> SUFFICES ASSUME 1 <= n PROVE k[1] = a
    OBVIOUS
  <2>1. 1 \in 1 .. n /\ k[1] \in a .. b /\ a \in a .. b
    BY <1>0
  <2>2. PICK i \in 1 .. n : k[i] = a
    BY <1>0, <2>1
  <2>3. i # 1 => k[1] < k[i]
    BY <1>0, <2>1
  <2> QED BY <2>1, <2>2, <2>3
<1>2. ASSUME NEW i \in Nat, i \in T PROVE i + 1 \in T
  <2> SUFFICES ASSUME (i + 1) + 1 <= n PROVE k[(i + 1) + 1] = a + (i + 1)
    OBVIOUS
  <2>1. PICK x : x = i + 1
    OBVIOUS
  <2>2. PICK y : y = x + 1
    OBVIOUS
  <2>3. x \in 1 .. n /\ y \in 1 .. n /\ x < y /\ k[x] = a + i
    BY <1>2, <2>1, <2>2
  <2>4. k[x] < k[y] /\ k[y] \in a .. b
    BY <1>0, <2>3
  <2>5. a + i + 1 \in a .. b
    BY <2>3, <2>4
  <2>6. PICK j \in 1 .. n : k[j] = a + i + 1
    BY <1>0, <2>5
  <2>7. ~(j < x)
    BY <1>0, <2>3, <2>6
  <2>8. j # x
    BY <2>3, <2>6
  <2>9. j = y \/ y < j
    BY <2>2, <2>3, <2>7, <2>8
  <2>10. y < j => k[y] < k[j]
    BY <1>0, <2>3
  <2>11. k[y] = a + i + 1
    BY <2>3, <2>4, <2>6, <2>9, <2>10
  <2> QED BY <2>1, <2>2, <2>11
<1> HIDE DEF T
<1>3. \A i \in Nat : i \in T
  BY <1>1, <1>2, SetInduction
<1>4. ASSUME NEW i \in 1 .. n PROVE k[i] = a + i - 1
  <2>1. PICK x : x = i - 1
    OBVIOUS
  <2>2. x \in Nat /\ x + 1 = i
    BY <2>1
  <2>3. x + 1 <= n => k[x + 1] = a + x
    BY <1>3, <2>2 DEF T
  <2> QED BY <2>1, <2>2, <2>3
<1> QED BY <1>4

\* The numbers from a to b of a conversation's, in their order
LEMMA InOrderRun ==
    ASSUME NEW c, last[c] \in Nat, NEW a \in Nat \ {0}, NEW b \in Nat, b <= last[c], a <= b
    PROVE  /\ InOrder(a .. b, c) \in Seq(Nat) /\ Len(InOrder(a .. b, c)) = b - a + 1
           /\ \A i \in DOMAIN InOrder(a .. b, c) : InOrder(a .. b, c)[i] = a + i - 1
<1>1. PICK l \in Nat : l = last[c]
  OBVIOUS
<1>2. PICK q : q = [m \in 1 .. l |-> m]
  OBVIOUS
<1>3. q \in Seq(Nat) /\ Len(q) = l /\ DOMAIN q = 1 .. l /\ \A m \in 1 .. l : q[m] = m
  BY <1>2
<1>4. PICK k : k = Keep(q, a .. b)
  OBVIOUS
<1>5. k = InOrder(a .. b, c)
  BY <1>1, <1>2, <1>4 DEF InOrder
<1>6. PICK e : Places(e, k, q, l, a .. b)
  BY <1>3, <1>4, KeepPlaces
<1>7. /\ k \in Seq(a .. b) /\ Len(k) \in Nat /\ DOMAIN k = 1 .. Len(k)
      /\ e \in [1 .. Len(k) -> 1 .. l]
      /\ \A i, j \in 1 .. Len(k) : i < j => e[i] < e[j]
      /\ \A i \in 1 .. Len(k) : k[i] = q[e[i]]
      /\ \A j \in 1 .. l : q[j] \in a .. b => \E i \in 1 .. Len(k) : e[i] = j
  BY <1>6 DEF Places
<1>0. PICK n \in Nat : n = Len(k)
  BY <1>7
<1>8. \A i \in 1 .. n : k[i] = e[i] /\ k[i] \in a .. b
  <2> TAKE i \in 1 .. n
  <2>1. e[i] \in 1 .. l /\ i \in DOMAIN k
    BY <1>0, <1>7
  <2>2. q[e[i]] = e[i]
    BY <1>3, <2>1
  <2> QED BY <1>0, <1>7, <2>1, <2>2
<1>9. \A i, j \in 1 .. n : i < j => k[i] < k[j]
  BY <1>0, <1>7, <1>8
<1>10. \A m \in a .. b : \E i \in 1 .. n : k[i] = m
  <2> TAKE m \in a .. b
  <2>1. m \in 1 .. l /\ q[m] = m
    BY <1>1, <1>3
  <2> QED BY <1>0, <1>7, <1>8, <2>1
<1>11. \A i \in 1 .. n : k[i] = a + i - 1
  <2>1. a \in Nat /\ OneByOne(k, n, a, b)
    BY <1>8, <1>9, <1>10 DEF OneByOne
  <2> QED BY <2>1, NoneLeftOut
<1>12. n = b - a + 1
  <2>1. PICK i \in 1 .. n : k[i] = b
    BY <1>10
  <2>2. b = a + i - 1
    BY <1>11, <2>1
  <2>3. n \in 1 .. n
    OBVIOUS
  <2>4. k[n] \in a .. b /\ k[n] = a + n - 1
    BY <1>8, <1>11, <2>3
  <2>5. i <= n /\ a + n - 1 <= b
    BY <2>4
  <2> QED BY <2>2, <2>5
<1>13. k \in Seq(Nat)
  BY <1>7
<1> QED BY <1>0, <1>5, <1>7, <1>11, <1>12, <1>13

\* A set that has all from any of its members up to b is a run of numbers.
LEMMA UpToIsRun ==
    ASSUME NEW S, NEW b \in Nat, S # {}, \A m \in S : m \in 1 .. b /\ m .. b \subseteq S
    PROVE  \E a \in 1 .. b : S = a .. b
<1> SUFFICES ASSUME \A a \in 1 .. b : S # a .. b PROVE FALSE
  OBVIOUS
<1> DEFINE T == {n \in Nat : \A m \in S : n < m}
<1>1. 0 \in T
  OBVIOUS
<1>2. ASSUME NEW n \in Nat, n \in T PROVE n + 1 \in T
  <2>1. CASE n + 1 \in S
    <3>1. n + 1 \in 1 .. b /\ (n + 1) .. b \subseteq S
      BY <2>1
    <3>2. \A m \in S : m \in (n + 1) .. b
      BY <1>2
    <3>3. S = (n + 1) .. b
      BY <3>1, <3>2
    <3> QED BY <3>1, <3>3
  <2>2. CASE n + 1 \notin S
    BY <1>2, <2>2
  <2> QED BY <2>1, <2>2
<1> HIDE DEF T
<1>3. \A n \in Nat : n \in T
  BY <1>1, <1>2, SetInduction
<1>4. PICK x \in S : TRUE
  OBVIOUS
<1>5. x \in Nat
  BY <1>4
<1>6. x \in T
  BY <1>3, <1>5
<1> QED BY <1>4, <1>5, <1>6 DEF T

\* The newest n of a run are a run, up to the same end.
LEMMA NewestRun ==
    ASSUME NEW a \in Nat, NEW b \in Nat, a <= b, NEW n \in Nat \ {0}
    PROVE  \E x \in a .. b : /\ NewestOf(a .. b, n) = x .. b /\ b < x + n
                             /\ x = a \/ x + n = b + 1
<1>1. ASSUME NEW m \in a .. b PROVE Cardinality({k \in a .. b : k > m}) = b - m
  <2>1. {k \in a .. b : k > m} = m + 1 .. b
    OBVIOUS
  <2>2. PICK s : s = m + 1 .. b
    OBVIOUS
  <2>3. m + 1 \in Int /\ b \in Int
    OBVIOUS
  <2>4. Cardinality(s) = IF m + 1 > b THEN 0 ELSE b - (m + 1) + 1
    BY <2>2, <2>3, FS_Interval
  <2>5. Cardinality(s) = b - m
    BY <2>4
  <2> QED BY <2>1, <2>2, <2>5
<1>2. \A m \in a .. b : m \in NewestOf(a .. b, n) <=> b - m < n
  BY <1>1 DEF NewestOf
<1>3. NewestOf(a .. b, n) \subseteq a .. b
  BY DEF NewestOf
<1>4. PICK x : x = IF b < a + n THEN a ELSE b - n + 1
  OBVIOUS
<1>5. x \in a .. b /\ b < x + n /\ (x = a \/ x + n = b + 1)
  BY <1>4
<1>6. \A m \in a .. b : b - m < n <=> m \in x .. b
  BY <1>4
<1>7. NewestOf(a .. b, n) = x .. b
  <2>1. \A m \in a .. b : m \in NewestOf(a .. b, n) <=> m \in x .. b
    BY <1>2, <1>6
  <2>2. PICK N : N = NewestOf(a .. b, n)
    OBVIOUS
  <2>3. x .. b \subseteq a .. b /\ N \subseteq a .. b
    BY <1>3, <1>5, <2>2
  <2>4. N = x .. b
    BY <2>1, <2>2, <2>3
  <2> QED BY <2>2, <2>4
<1> QED BY <1>5, <1>7

LEMMA ConvsAre == /\ None \notin Convs /\ Convs \subseteq Nat /\ Convs # {} /\ Accts \subseteq Nat
                  /\ None \notin Accts /\ ConvList \in Seq(Convs) /\ AcctList \in Seq(Accts)
                  /\ Page \in Nat \ {0} /\ AcctOf \in [Convs -> Accts]
                  /\ ToConv \in [Invites -> Convs] /\ 1 \in Convs
<1>1. ConvList \in Seq(Nat \ {0}) /\ AcctList \in Seq(Nat \ {0})
  BY ConstantsOK
<1>2. Convs = {ConvList[i] : i \in DOMAIN ConvList} /\ Accts = {AcctList[i] : i \in DOMAIN AcctList}
  BY DEF Convs, Accts, ToSet
<1>3. \A x \in Convs : x \in Nat \ {0}
  BY <1>1, <1>2
<1>4. \A x \in Accts : x \in Nat \ {0}
  BY <1>1, <1>2
<1>5. ConvList \in Seq(Convs) /\ AcctList \in Seq(Accts)
  BY <1>1, <1>2
<1> QED BY <1>3, <1>4, <1>5, ConstantsOK DEF None

\* What `history` gives is a list of numbers ...
LEMMA InOrderNumbers ==
    ASSUME NEW S, NEW c, last[c] \in Nat PROVE InOrder(S, c) \in Seq(Nat)
<1>1. PICK l \in Nat : l = last[c]
  OBVIOUS
<1>2. PICK q : q = [m \in 1 .. l |-> m]
  OBVIOUS
<1>3. q \in Seq(Nat)
  BY <1>2
<1>4. Keep(q, S) \in Seq(Nat \cap S)
  BY <1>3, KeepMembers
<1>5. Keep(q, S) \in Seq(Nat)
  BY <1>4
<1> QED BY <1>1, <1>2, <1>5 DEF InOrder

\* ... and a run, a page of them at most.
LogIsFrom(log, x, l) == /\ log \in Seq(Nat) /\ Len(log) = l - x + 1
                        /\ \A i \in DOMAIN log : log[i] = x + i - 1
LEMMA NewestInOrder ==
    ASSUME NEW c, last[c] \in Nat, NEW a \in Nat \ {0}, NEW b \in Nat, a <= b, b <= last[c],
           NEW S, S = a .. b
    PROVE  \E x \in a .. b : /\ LogIsFrom(InOrder(NewestOf(S, Page), c), x, b)
                             /\ b < x + Page /\ (x = a \/ x + Page = b + 1)
<1>1. Page \in Nat \ {0}
  BY ConvsAre
<1>2. PICK x \in a .. b : NewestOf(a .. b, Page) = x .. b /\ b < x + Page
                          /\ (x = a \/ x + Page = b + 1)
  BY <1>1, NewestRun
<1>3. x \in Nat \ {0} /\ x <= b
  OBVIOUS
<1>4. LogIsFrom(InOrder(x .. b, c), x, b)
  BY <1>3, InOrderRun DEF LogIsFrom
<1> QED BY <1>2, <1>4

LEMMA LatestNumbers ==
    ASSUME BackendTypes, NEW c \in Convs \cup {None}
    PROVE  LatestOf(c) \in Seq(Nat)
<1>1. CASE c \in bConvs
  <2>1. last[c] \in Nat
    BY <1>1 DEF BackendTypes
  <2> QED BY <1>1, <2>1, InOrderNumbers DEF LatestOf
<1>2. CASE c \notin bConvs
  BY <1>2 DEF LatestOf
<1> QED BY <1>1, <1>2

LEMMA LatestRuns ==
    ASSUME BackendTypes, RingRuns, NEW c \in Convs \cup {None}, NEW q \in Seq(Happenings),
           c # None => Runs(q, c, last[c]) /\ Within(q, c, ring[c])
    PROVE  LogRuns(LatestOf(c), q, c, last[c])
<1>1. PICK log : log = LatestOf(c)
  OBVIOUS
<1> SUFFICES ASSUME log # <<>> PROVE LogRuns(log, q, c, last[c])
  BY <1>1 DEF LogRuns
<1>2. c \in bConvs /\ c \in Convs /\ c # None /\ log = InOrder(NewestOf(ring[c], Page), c)
  BY <1>1, ConvsAre DEF LatestOf, BackendTypes
<1>3. PICK l \in Nat : l = last[c]
  BY <1>2 DEF BackendTypes
<1>4. PICK S : S = ring[c]
  OBVIOUS
<1>5. S # {}
  <2>1. ASSUME S = {} PROVE FALSE
    <3>1. NewestOf(S, Page) = {}
      BY <2>1 DEF NewestOf
    <3>2. [m \in 1 .. l |-> m] \in Seq(Nat)
      OBVIOUS
    <3>3. Keep([m \in 1 .. l |-> m], {}) = <<>>
      BY <3>2, KeepFirst
    <3> QED BY <1>2, <1>3, <1>4, <3>1, <3>3 DEF InOrder
  <2> QED BY <2>1
<1>6. \A m \in S : m \in 1 .. l /\ m .. l \subseteq S
  BY <1>2, <1>3, <1>4 DEF RingRuns
<1>7. PICK a \in 1 .. l : S = a .. l
  BY <1>5, <1>6, UpToIsRun
<1>8. Page \in Nat \ {0}
  BY ConvsAre
<1>9. PICK x \in a .. l : LogIsFrom(log, x, l) /\ l < x + Page /\ (x = a \/ x + Page = l + 1)
  <2>1. last[c] \in Nat /\ a \in Nat \ {0} /\ a <= l /\ l <= last[c] /\ log = InOrder(NewestOf(S, Page), c)
    BY <1>2, <1>3, <1>4
  <2> QED BY <1>7, <2>1, NewestInOrder
<1>10. /\ log \in Seq(Nat) /\ Len(log) = l - x + 1
       /\ \A i \in DOMAIN log : log[i] = x + i - 1
  BY <1>9 DEF LogIsFrom
<1>11. log[1] = x /\ x \in Nat \ {0} /\ log[1] + Len(log) = l + 1
  <2>1. PICK n \in Nat : n = Len(log) /\ DOMAIN log = 1 .. n
    BY <1>10
  <2>2. 1 \in DOMAIN log /\ x \in Nat \ {0}
    BY <1>10, <2>1
  <2>3. log[1] = x + 1 - 1
    BY <1>10, <2>2
  <2>4. l \in Nat /\ Len(log) = l - x + 1
    BY <1>10
  <2> QED BY <2>2, <2>3, <2>4
<1>12. ASSUME NEW i \in DOMAIN q, MsgOf(q[i], c) PROVE x <= q[i].n
  <2>1. q[i].n \in S /\ l < q[i].n + Page
    BY <1>2, <1>3, <1>4, <1>12 DEF Within, Runs
  <2>2. q[i].n \in a .. l
    BY <1>7, <2>1
  <2> QED BY <1>8, <1>9, <2>1, <2>2
<1>13. log[1] + Len(log) .. l = {}
  BY <1>11
<1>14. LogRuns(log, q, c, l)
  BY <1>2, <1>10, <1>11, <1>12, <1>13 DEF LogRuns
<1> QED BY <1>3, <1>14

\* An event more at the end of a queue, or one less at its head
LEMMA Appended ==
    ASSUME NEW q \in Seq(Happenings), NEW e \in Happenings
    PROVE  /\ Append(q, e) \in Seq(Happenings) /\ Len(q) \in Nat
           /\ DOMAIN q = 1 .. Len(q) /\ DOMAIN Append(q, e) = 1 .. Len(q) + 1
           /\ Append(q, e)[Len(q) + 1] = e
           /\ \A i \in 1 .. Len(q) : Append(q, e)[i] = q[i]
OBVIOUS

LEMMA Shortened ==
    ASSUME NEW q \in Seq(Happenings), q # <<>>
    PROVE  /\ Tail(q) \in Seq(Happenings) /\ Len(q) \in Nat \ {0} /\ Head(q) = q[1]
           /\ Head(q) \in Happenings
           /\ DOMAIN q = 1 .. Len(q) /\ DOMAIN Tail(q) = 1 .. Len(q) - 1
           /\ \A i \in 1 .. Len(q) - 1 : Tail(q)[i] = q[i + 1]
OBVIOUS

LEMMA ToldAppended ==
    ASSUME NEW q \in Seq(Happenings), NEW e \in Happenings, NEW c, NEW m
    PROVE  ToldIn(Append(q, e), c, m) <=> ToldIn(q, c, m) \/ (MsgOf(e, c) /\ e.n = m)
<1>1. PICK z : z = Append(q, e)
  OBVIOUS
<1>2. PICK n \in Nat : n = Len(q)
  BY Appended
<1>3. /\ DOMAIN q = 1 .. n /\ DOMAIN z = 1 .. n + 1 /\ z[n + 1] = e
      /\ \A i \in 1 .. n : z[i] = q[i]
  BY <1>1, <1>2, Appended
<1>4. ASSUME ToldIn(z, c, m) PROVE ToldIn(q, c, m) \/ (MsgOf(e, c) /\ e.n = m)
  <2>1. PICK j \in 1 .. n + 1 : MsgOf(z[j], c) /\ z[j].n = m
    BY <1>3, <1>4 DEF ToldIn
  <2> QED BY <1>3, <2>1 DEF ToldIn
<1>5. ASSUME ToldIn(q, c, m) PROVE ToldIn(z, c, m)
  <2>1. PICK j \in 1 .. n : MsgOf(q[j], c) /\ q[j].n = m
    BY <1>3, <1>5 DEF ToldIn
  <2> QED BY <1>3, <2>1 DEF ToldIn
<1>6. ASSUME MsgOf(e, c), e.n = m PROVE ToldIn(z, c, m)
  BY <1>3, <1>6 DEF ToldIn
<1> QED BY <1>1, <1>4, <1>5, <1>6

LEMMA ToldShortened ==
    ASSUME NEW q \in Seq(Happenings), q # <<>>, NEW c, NEW m
    PROVE  ToldIn(q, c, m) <=> ToldIn(Tail(q), c, m) \/ (MsgOf(Head(q), c) /\ Head(q).n = m)
<1>1. PICK z : z = Tail(q)
  OBVIOUS
<1>2. PICK n \in Nat \ {0} : n = Len(q)
  BY Shortened
<1>3. /\ DOMAIN q = 1 .. n /\ DOMAIN z = 1 .. n - 1 /\ Head(q) = q[1]
      /\ \A i \in 1 .. n - 1 : z[i] = q[i + 1]
  BY <1>1, <1>2, Shortened
<1>4. ASSUME ToldIn(q, c, m) PROVE ToldIn(z, c, m) \/ (MsgOf(Head(q), c) /\ Head(q).n = m)
  <2>1. PICK j \in 1 .. n : MsgOf(q[j], c) /\ q[j].n = m
    BY <1>3, <1>4 DEF ToldIn
  <2>2. CASE j = 1
    BY <1>3, <2>1, <2>2
  <2>3. CASE j # 1
    <3>1. PICK i : i = j - 1
      OBVIOUS
    <3>2. i \in 1 .. n - 1 /\ z[i] = q[j]
      BY <1>3, <2>1, <2>3, <3>1
    <3> QED BY <1>3, <2>1, <3>2 DEF ToldIn
  <2> QED BY <2>2, <2>3
<1>5. ASSUME ToldIn(z, c, m) PROVE ToldIn(q, c, m)
  <2>1. PICK j \in 1 .. n - 1 : MsgOf(z[j], c) /\ z[j].n = m
    BY <1>3, <1>5 DEF ToldIn
  <2>2. PICK i : i = j + 1
    OBVIOUS
  <2>3. i \in 1 .. n /\ q[i] = z[j]
    BY <1>3, <2>1, <2>2
  <2> QED BY <1>3, <2>1, <2>3 DEF ToldIn
<1>6. ASSUME MsgOf(Head(q), c), Head(q).n = m PROVE ToldIn(q, c, m)
  <2>1. 1 \in DOMAIN q
    BY <1>3
  <2> QED BY <1>3, <1>6, <2>1 DEF ToldIn
<1> QED BY <1>1, <1>4, <1>5, <1>6

-----------------------------------------------------------------------------
(* What a queue says of a conversation's messages, with an event more      *)

LEMMA RunsQuiet ==
    ASSUME NEW q \in Seq(Happenings), NEW e \in Happenings, NEW c, NEW l, ~MsgOf(e, c), Runs(q, c, l)
    PROVE  Runs(Append(q, e), c, l)
<1>1. PICK z : z = Append(q, e)
  OBVIOUS
<1>2. PICK n \in Nat : n = Len(q)
  BY Appended
<1>3. /\ DOMAIN q = 1 .. n /\ DOMAIN z = 1 .. n + 1 /\ z[n + 1] = e
      /\ \A i \in 1 .. n : z[i] = q[i]
  BY <1>1, <1>2, Appended
<1>4. \A i \in DOMAIN z : MsgOf(z[i], c) => i \in 1 .. n /\ z[i] = q[i]
  BY <1>3
<1>5. \A m : ToldIn(q, c, m) => ToldIn(z, c, m)
  BY <1>1, ToldAppended
<1>6. \A i \in DOMAIN z : MsgOf(z[i], c) =>
         /\ z[i].n \in 1 .. l /\ l < z[i].n + Page
         /\ \A m \in z[i].n .. l : ToldIn(z, c, m)
  BY <1>3, <1>4, <1>5 DEF Runs
<1>7. \A i, j \in DOMAIN z : MsgOf(z[i], c) /\ MsgOf(z[j], c) /\ i < j => z[i].n < z[j].n
  BY <1>3, <1>4 DEF Runs
<1> QED BY <1>1, <1>6, <1>7 DEF Runs

LEMMA RunsOneMore ==
    ASSUME NEW q \in Seq(Happenings), NEW e \in Happenings, NEW c, NEW l \in Nat, MsgOf(e, c),
           e.n = l + 1, Runs(q, c, l),
           \A i \in DOMAIN q : MsgOf(q[i], c) => l + 1 < q[i].n + Page
    PROVE  Runs(Append(q, e), c, l + 1)
<1>1. PICK z : z = Append(q, e)
  OBVIOUS
<1>2. PICK n \in Nat : n = Len(q)
  BY Appended
<1>3. /\ DOMAIN q = 1 .. n /\ DOMAIN z = 1 .. n + 1 /\ z[n + 1] = e
      /\ \A i \in 1 .. n : z[i] = q[i]
  BY <1>1, <1>2, Appended
<1>4. \A m : ToldIn(q, c, m) => ToldIn(z, c, m)
  BY <1>1, ToldAppended
<1>5. ToldIn(z, c, l + 1)
  BY <1>1, ToldAppended
<1>0. Page \in Nat \ {0}
  BY ConvsAre
<1>6. ASSUME NEW i \in DOMAIN z, MsgOf(z[i], c)
      PROVE  /\ z[i].n \in 1 .. l + 1 /\ l + 1 < z[i].n + Page
             /\ \A m \in z[i].n .. l + 1 : ToldIn(z, c, m)
  <2>1. CASE i = n + 1
    <3>1. z[i].n = l + 1
      BY <1>3, <2>1
    <3>2. \A m \in z[i].n .. l + 1 : m = l + 1
      BY <3>1
    <3> QED BY <1>0, <1>5, <3>1, <3>2
  <2>2. CASE i # n + 1
    <3>1. i \in DOMAIN q /\ z[i] = q[i]
      BY <1>3, <2>2
    <3>2. q[i].n \in 1 .. l /\ l + 1 < q[i].n + Page /\ \A m \in q[i].n .. l : ToldIn(q, c, m)
      BY <1>6, <3>1 DEF Runs
    <3>3. ASSUME NEW m \in q[i].n .. l + 1 PROVE ToldIn(z, c, m)
      <4>1. m \in q[i].n .. l \/ m = l + 1
        BY <3>2
      <4> QED BY <1>4, <1>5, <3>2, <4>1
    <3> QED BY <3>1, <3>2, <3>3
  <2> QED BY <2>1, <2>2
<1>7. ASSUME NEW i \in DOMAIN z, NEW j \in DOMAIN z, MsgOf(z[i], c), MsgOf(z[j], c), i < j
      PROVE  z[i].n < z[j].n
  <2>1. i \in DOMAIN q /\ z[i] = q[i]
    BY <1>3, <1>7
  <2>2. CASE j = n + 1
    <3>1. q[i].n \in 1 .. l
      BY <1>7, <2>1 DEF Runs
    <3> QED BY <1>3, <2>1, <2>2, <3>1
  <2>3. CASE j # n + 1
    <3>1. j \in DOMAIN q /\ z[j] = q[j]
      BY <1>3, <2>3
    <3> QED BY <1>7, <2>1, <3>1 DEF Runs
  <2> QED BY <2>2, <2>3
<1> QED BY <1>1, <1>6, <1>7 DEF Runs

LEMMA WithinMore ==
    ASSUME NEW q \in Seq(Happenings), NEW e \in Happenings, NEW c, NEW r, NEW s, r \subseteq s,
           MsgOf(e, c) => e.n \in s, Within(q, c, r)
    PROVE  Within(Append(q, e), c, s)
<1>1. PICK z : z = Append(q, e)
  OBVIOUS
<1>2. PICK n \in Nat : n = Len(q)
  BY Appended
<1>3. /\ DOMAIN q = 1 .. n /\ DOMAIN z = 1 .. n + 1 /\ z[n + 1] = e
      /\ \A i \in 1 .. n : z[i] = q[i]
  BY <1>1, <1>2, Appended
<1>4. \A i \in DOMAIN z : MsgOf(z[i], c) => z[i].n \in s
  BY <1>3 DEF Within
<1> QED BY <1>1, <1>4 DEF Within

LEMMA LogQuiet ==
    ASSUME NEW q \in Seq(Happenings), NEW e \in Happenings, NEW c, NEW l, NEW log,
           ~MsgOf(e, c), LogRuns(log, q, c, l)
    PROVE  LogRuns(log, Append(q, e), c, l)
<1> SUFFICES ASSUME log # <<>> PROVE LogRuns(log, Append(q, e), c, l)
  BY DEF LogRuns
<1>1. PICK z : z = Append(q, e)
  OBVIOUS
<1>2. PICK n \in Nat : n = Len(q)
  BY Appended
<1>3. /\ DOMAIN q = 1 .. n /\ DOMAIN z = 1 .. n + 1 /\ z[n + 1] = e
      /\ \A i \in 1 .. n : z[i] = q[i]
  BY <1>1, <1>2, Appended
<1>4. \A m : ToldIn(q, c, m) => ToldIn(z, c, m)
  BY <1>1, ToldAppended
<1>5. \A i \in DOMAIN z : MsgOf(z[i], c) => log[1] <= z[i].n
  BY <1>3 DEF LogRuns
<1>6. \A m \in log[1] + Len(log) .. l : ToldIn(z, c, m)
  BY <1>4 DEF LogRuns
<1> QED BY <1>1, <1>5, <1>6 DEF LogRuns

LEMMA LogOneMore ==
    ASSUME NEW q \in Seq(Happenings), NEW e \in Happenings, NEW c, NEW l \in Nat,
           NEW log \in Seq(Nat), MsgOf(e, c), e.n = l + 1, LogRuns(log, q, c, l)
    PROVE  LogRuns(log, Append(q, e), c, l + 1)
<1> SUFFICES ASSUME log # <<>> PROVE LogRuns(log, Append(q, e), c, l + 1)
  BY DEF LogRuns
<1>1. PICK z : z = Append(q, e)
  OBVIOUS
<1>2. PICK n \in Nat : n = Len(q)
  BY Appended
<1>3. /\ DOMAIN q = 1 .. n /\ DOMAIN z = 1 .. n + 1 /\ z[n + 1] = e
      /\ \A i \in 1 .. n : z[i] = q[i]
  BY <1>1, <1>2, Appended
<1>4. \A m : ToldIn(q, c, m) => ToldIn(z, c, m)
  BY <1>1, ToldAppended
<1>5. ToldIn(z, c, l + 1)
  BY <1>1, ToldAppended
<1>6. PICK k \in Nat \ {0} : k = Len(log)
  OBVIOUS
<1>7. /\ c \in Convs /\ log[1] \in Nat \ {0} /\ log[1] + k <= l + 1
      /\ \A i \in DOMAIN log : log[i] = log[1] + i - 1
      /\ \A i \in DOMAIN q : MsgOf(q[i], c) => log[1] <= q[i].n
      /\ \A m \in log[1] + k .. l : ToldIn(q, c, m)
  BY <1>6 DEF LogRuns
<1>8. ASSUME NEW i \in DOMAIN z, MsgOf(z[i], c) PROVE log[1] <= z[i].n
  <2>1. log[1] <= l + 1
    BY <1>7
  <2>2. CASE i = n + 1
    BY <1>3, <2>1, <2>2
  <2>3. CASE i # n + 1
    <3>1. i \in DOMAIN q /\ z[i] = q[i]
      BY <1>3, <2>3
    <3> QED BY <1>7, <1>8, <3>1
  <2> QED BY <2>2, <2>3
<1>9. ASSUME NEW m \in log[1] + k .. l + 1 PROVE ToldIn(z, c, m)
  <2>1. m = l + 1 \/ m \in log[1] + k .. l
    BY <1>7
  <2> QED BY <1>4, <1>5, <1>7, <2>1
<1>10. log[1] + Len(log) <= (l + 1) + 1
  BY <1>6, <1>7
<1> QED BY <1>1, <1>6, <1>7, <1>8, <1>9, <1>10 DEF LogRuns

-----------------------------------------------------------------------------
(* ... and with one less                                                   *)

LEMMA RunsLess ==
    ASSUME NEW q \in Seq(Happenings), q # <<>>, NEW c, NEW l \in Nat, Runs(q, c, l)
    PROVE  Runs(Tail(q), c, l)
<1>1. PICK z : z = Tail(q)
  OBVIOUS
<1>2. PICK n \in Nat \ {0} : n = Len(q)
  BY Shortened
<1>3. /\ DOMAIN q = 1 .. n /\ DOMAIN z = 1 .. n - 1 /\ Head(q) = q[1]
      /\ \A i \in 1 .. n - 1 : z[i] = q[i + 1]
  BY <1>1, <1>2, Shortened
<1>4. ASSUME NEW i \in DOMAIN z, MsgOf(z[i], c)
      PROVE  /\ z[i].n \in 1 .. l /\ l < z[i].n + Page
             /\ \A m \in z[i].n .. l : ToldIn(z, c, m)
  <2>1. PICK j : j = i + 1
    OBVIOUS
  <2>2. j \in DOMAIN q /\ z[i] = q[j] /\ 1 \in DOMAIN q /\ 1 < j
    BY <1>3, <2>1
  <2>3. q[j].n \in 1 .. l /\ l < q[j].n + Page /\ \A m \in q[j].n .. l : ToldIn(q, c, m)
    BY <1>4, <2>2 DEF Runs
  <2>4. MsgOf(Head(q), c) => Head(q).n \in 1 .. l /\ Head(q).n < q[j].n
    BY <1>3, <1>4, <2>2 DEF Runs
  <2>5. ASSUME NEW m \in q[j].n .. l PROVE ToldIn(z, c, m)
    <3>1. ToldIn(q, c, m)
      BY <2>3
    <3>2. MsgOf(Head(q), c) => Head(q).n # m
      BY <2>3, <2>4
    <3> QED BY <1>1, <3>1, <3>2, ToldShortened
  <2> QED BY <2>2, <2>3, <2>5
<1>5. ASSUME NEW i \in DOMAIN z, NEW j \in DOMAIN z, MsgOf(z[i], c), MsgOf(z[j], c), i < j
      PROVE  z[i].n < z[j].n
  <2>1. PICK x : x = i + 1
    OBVIOUS
  <2>2. PICK y : y = j + 1
    OBVIOUS
  <2>3. x \in DOMAIN q /\ z[i] = q[x] /\ y \in DOMAIN q /\ z[j] = q[y] /\ x < y
    BY <1>3, <1>5, <2>1, <2>2
  <2> QED BY <1>5, <2>3 DEF Runs
<1> QED BY <1>1, <1>4, <1>5 DEF Runs

LEMMA WithinLess ==
    ASSUME NEW q \in Seq(Happenings), q # <<>>, NEW c, NEW r, Within(q, c, r)
    PROVE  Within(Tail(q), c, r)
<1>1. PICK z : z = Tail(q)
  OBVIOUS
<1>2. PICK n \in Nat \ {0} : n = Len(q)
  BY Shortened
<1>3. /\ DOMAIN q = 1 .. n /\ DOMAIN z = 1 .. n - 1
      /\ \A i \in 1 .. n - 1 : z[i] = q[i + 1]
  BY <1>1, <1>2, Shortened
<1>4. ASSUME NEW i \in DOMAIN z PROVE \E j \in DOMAIN q : z[i] = q[j]
  <2>1. PICK j : j = i + 1
    OBVIOUS
  <2>2. j \in DOMAIN q /\ z[i] = q[j]
    BY <1>3, <2>1
  <2> QED BY <2>2
<1> QED BY <1>1, <1>4 DEF Within

LEMMA LogLess ==
    ASSUME NEW q \in Seq(Happenings), q # <<>>, NEW c, NEW l, NEW log \in Seq(Nat),
           LogRuns(log, q, c, l),
           MsgOf(Head(q), c) => Head(q).n \in ToSet(log)
    PROVE  LogRuns(log, Tail(q), c, l)
<1> SUFFICES ASSUME log # <<>> PROVE LogRuns(log, Tail(q), c, l)
  BY DEF LogRuns
<1>1. PICK z : z = Tail(q)
  OBVIOUS
<1>2. PICK n \in Nat \ {0} : n = Len(q)
  BY Shortened
<1>3. /\ DOMAIN q = 1 .. n /\ DOMAIN z = 1 .. n - 1
      /\ \A i \in 1 .. n - 1 : z[i] = q[i + 1]
  BY <1>1, <1>2, Shortened
<1>4. PICK k \in Nat \ {0} : k = Len(log)
  OBVIOUS
<1>5. /\ c \in Convs /\ log[1] \in Nat \ {0} /\ log[1] + k <= l + 1
      /\ \A i \in DOMAIN log : log[i] = log[1] + i - 1
      /\ \A i \in DOMAIN q : MsgOf(q[i], c) => log[1] <= q[i].n
      /\ \A m \in log[1] + k .. l : ToldIn(q, c, m)
  BY <1>4 DEF LogRuns
<1>6. ASSUME NEW i \in DOMAIN z, MsgOf(z[i], c) PROVE log[1] <= z[i].n
  <2>1. PICK j : j = i + 1
    OBVIOUS
  <2>2. j \in DOMAIN q /\ z[i] = q[j]
    BY <1>3, <2>1
  <2> QED BY <1>5, <1>6, <2>2
<1>7. ASSUME NEW m \in log[1] + k .. l PROVE ToldIn(z, c, m)
  <2>1. ASSUME MsgOf(Head(q), c), Head(q).n = m PROVE FALSE
    <3>1. PICK i \in DOMAIN log : log[i] = m
      BY <2>1 DEF ToSet
    <3>2. m = log[1] + i - 1 /\ i <= k
      BY <1>4, <1>5, <3>1
    <3> QED BY <1>5, <3>2
  <2>2. ToldIn(q, c, m)
    BY <1>5
  <2> QED BY <1>1, <2>1, <2>2, ToldShortened
<1> QED BY <1>1, <1>4, <1>5, <1>6, <1>7 DEF LogRuns

\* The message told next is the one after the last shown.
LEMMA LogGrows ==
    ASSUME NEW q \in Seq(Happenings), q # <<>>, NEW c \in Convs, NEW l \in Nat, NEW log \in Seq(Nat),
           Runs(q, c, l), LogRuns(log, q, c, l), MsgOf(Head(q), c), Head(q).n \notin ToSet(log)
    PROVE  LogRuns(Append(log, Head(q).n), Tail(q), c, l)
<1>1. PICK z : z = Tail(q)
  OBVIOUS
<1>2. PICK n \in Nat \ {0} : n = Len(q)
  BY Shortened
<1>3. /\ DOMAIN q = 1 .. n /\ DOMAIN z = 1 .. n - 1 /\ Head(q) = q[1]
      /\ \A i \in 1 .. n - 1 : z[i] = q[i + 1]
  BY <1>1, <1>2, Shortened
<1>4. PICK k \in Nat : k = Len(log)
  OBVIOUS
<1>5. PICK x : x = Head(q).n
  OBVIOUS
<1>6. 1 \in DOMAIN q /\ x = q[1].n /\ MsgOf(q[1], c)
  BY <1>3, <1>5
<1>7. x \in 1 .. l /\ \A m \in x .. l : ToldIn(q, c, m)
  BY <1>6 DEF Runs
<1>8. ASSUME NEW i \in DOMAIN z, MsgOf(z[i], c) PROVE x < z[i].n
  <2>1. PICK j : j = i + 1
    OBVIOUS
  <2>2. j \in DOMAIN q /\ z[i] = q[j] /\ 1 < j
    BY <1>3, <2>1
  <2> QED BY <1>6, <1>8, <2>2 DEF Runs
<1>80. \A i \in DOMAIN z : z[i].n \in Nat
  <2>1. z \in Seq(Happenings)
    BY <1>1, Shortened
  <2>2. \A i \in DOMAIN z : z[i] \in Happenings
    BY <2>1
  <2> QED BY <2>2 DEF Happenings
<1>9. \A m \in x + 1 .. l : ToldIn(z, c, m)
  <2> TAKE m \in x + 1 .. l
  <2>1. m \in x .. l /\ x # m
    BY <1>7
  <2> QED BY <1>1, <1>5, <1>7, <2>1, ToldShortened
<1>10. PICK g : g = Append(log, x)
  OBVIOUS
<1>11. /\ g \in Seq(Nat) /\ g # <<>> /\ Len(g) = k + 1 /\ DOMAIN g = 1 .. k + 1 /\ g[k + 1] = x
       /\ \A i \in 1 .. k : g[i] = log[i]
  BY <1>4, <1>7, <1>10
<1>12. CASE log = <<>>
  <2>1. k = 0 /\ g[1] = x /\ DOMAIN g = 1 .. 1 /\ Len(g) = 1
    BY <1>4, <1>11, <1>12
  <2>2. \A i \in DOMAIN g : g[i] = g[1] + i - 1
    BY <1>7, <2>1
  <2>3. \A i \in DOMAIN z : MsgOf(z[i], c) => g[1] <= z[i].n
    <3> TAKE i \in DOMAIN z
    <3> HAVE MsgOf(z[i], c)
    <3>1. x < z[i].n
      BY <1>8
    <3>2. z[i].n \in Nat
      BY <1>80
    <3> QED BY <1>7, <2>1, <3>1, <3>2
  <2>4. g[1] \in Nat \ {0} /\ g[1] + Len(g) <= l + 1 /\ g[1] + Len(g) = x + 1
    BY <1>7, <2>1
  <2> QED BY <1>1, <1>5, <1>9, <1>10, <2>2, <2>3, <2>4 DEF LogRuns
<1>13. CASE log # <<>>
  <2>1. /\ log[1] \in Nat \ {0} /\ log[1] + k <= l + 1 /\ k # 0 /\ 1 \in 1 .. k
        /\ DOMAIN log = 1 .. k
        /\ \A i \in DOMAIN log : log[i] = log[1] + i - 1
        /\ \A i \in DOMAIN q : MsgOf(q[i], c) => log[1] <= q[i].n
        /\ \A m \in log[1] + k .. l : ToldIn(q, c, m)
    BY <1>4, <1>13 DEF LogRuns
  <2>2. log[1] <= x
    BY <1>6, <2>1
  <2>3. ~(x < log[1] + k)
    <3>1. ASSUME x < log[1] + k PROVE FALSE
      <4>1. PICK i : i = x - log[1] + 1
        OBVIOUS
      <4>2. i \in 1 .. k /\ log[1] + i - 1 = x
        <5>1. PICK a \in Nat : a = log[1]
          BY <2>1
        <5>2. x \in Nat /\ a <= x /\ x < a + k /\ i = x - a + 1
          BY <1>7, <2>2, <3>1, <4>1, <5>1
        <5>3. i \in 1 .. k /\ a + i - 1 = x
          BY <5>2
        <5> QED BY <5>1, <5>3
      <4>3. log[i] = x
        BY <2>1, <4>2
      <4> QED BY <1>5, <2>1, <4>2, <4>3 DEF ToSet
    <3> QED BY <3>1
  <2>4. x = log[1] + k
    <3>1. PICK m : m = log[1] + k
      OBVIOUS
    <3>2. m \in log[1] + k .. l /\ m <= x
      BY <1>7, <2>1, <2>3, <3>1
    <3>3. PICK j \in DOMAIN q : MsgOf(q[j], c) /\ q[j].n = m
      BY <2>1, <3>2 DEF ToldIn
    <3>4. CASE j = 1
      BY <1>6, <3>1, <3>3, <3>4
    <3>5. CASE j # 1
      <4>1. 1 < j
        BY <1>3, <3>3, <3>5
      <4>2. x < m
        BY <1>6, <3>3, <4>1 DEF Runs
      <4> QED BY <1>7, <2>1, <3>1, <3>2, <4>2
    <3> QED BY <3>4, <3>5
  <2>5. g[1] = log[1]
    BY <1>11, <2>1
  <2>6. ASSUME NEW i \in DOMAIN g PROVE g[i] = g[1] + i - 1
    <3>1. CASE i = k + 1
      BY <1>11, <2>1, <2>4, <2>5, <3>1
    <3>2. CASE i # k + 1
      <4>1. i \in 1 .. k
        BY <1>11, <3>2
      <4> QED BY <1>11, <2>1, <2>5, <4>1
    <3> QED BY <3>1, <3>2
  <2>7. ASSUME NEW i \in DOMAIN z, MsgOf(z[i], c) PROVE g[1] <= z[i].n
    <3>1. x < z[i].n
      BY <1>8, <2>7
    <3>2. z[i].n \in Nat
      BY <1>80
    <3> QED BY <1>7, <2>1, <2>2, <2>5, <3>1, <3>2
  <2>8. g[1] + Len(g) = x + 1 /\ g[1] + Len(g) <= l + 1
    BY <1>7, <1>11, <2>1, <2>4, <2>5
  <2> QED BY <1>1, <1>5, <1>9, <1>10, <2>1, <2>5, <2>6, <2>7, <2>8 DEF LogRuns
<1> QED BY <1>12, <1>13

LEMMA CarriedNone == ASSUME NEW w \in Windows PROVE Carried(w, w)
BY DEF Carried, FromLog

LEMMA CarriedOn ==
    ASSUME NEW w, NEW v, NEW u, Carried(w, v), Carried(v, u) PROVE Carried(w, u)
<1>1. FromLog(w, u)
  BY DEF Carried, FromLog
<1>2. \A ts \in Seq(Text) : TextsAt(w, ts) => TextsAt(u, ts)
  BY Zenon DEF Carried
<1>3. u \in Windows
  BY DEF Carried
<1> QED BY <1>1, <1>2, <1>3 DEF Carried

\* What is shown does not change: nothing of it is carried anywhere.
LEMMA CarriedSame ==
    ASSUME NEW w, NEW v \in Windows, v.conv = w.conv, v.log = w.log, v.input = w.input,
           v.drafts = w.drafts
    PROVE  Carried(w, v)
<1>1. FromLog(w, v)
  BY DEF FromLog
<1>2. ASSUME NEW ts \in Seq(Text), TextsAt(w, ts) PROVE TextsAt(v, ts)
  BY <1>2 DEF TextsAt
<1> QED BY <1>1, <1>2 DEF Carried

\* The rows of an account are its conversations.
RowsFor(r, a) == r \in Seq(Convs) /\ \A i \in DOMAIN r : AcctOf[r[i]] = a
LEMMA ConvsOfAre ==
    ASSUME NEW m, DOMAIN m \subseteq Convs, NEW a PROVE RowsFor(convsOf(m, a), a)
<1>1. PICK S : S = {c \in DOMAIN m : AcctOf[c] = a}
  OBVIOUS
<1>2. PICK k : k = Keep(ConvList, S)
  OBVIOUS
<1>3. ConvList \in Seq(Convs)
  BY ConvsAre
<1>4. k \in Seq(Convs \cap S)
  BY <1>2, <1>3, KeepMembers
<1>5. k \in Seq(Convs) /\ \A i \in DOMAIN k : k[i] \in S
  BY <1>4
<1>6. \A i \in DOMAIN k : AcctOf[k[i]] = a
  BY <1>1, <1>5
<1> QED BY <1>1, <1>2, <1>5, <1>6 DEF convsOf, RowsFor

\* setIds() changes the list and its highlight, and nothing else.
Listed(w, v, ids, keep) ==
    /\ v \in Windows /\ v.rows = ids /\ v.hi \in Convs \cup {None}
    /\ v.acct = w.acct /\ v.conv = w.conv /\ v.log = w.log /\ v.notes = w.notes
    /\ v.input = w.input /\ v.drafts = w.drafts /\ v.lastConv = w.lastConv
    /\ keep \in ToSet(ids) => v.hi = keep
    /\ v.hi \in ToSet(ids) \/ v.hi = None
LEMMA SetIdsIs ==
    ASSUME NEW w \in Windows, NEW ids \in Seq(Convs), NEW keep
    PROVE  Listed(w, setIds(w, ids, keep), ids, keep)
<1>1. PICK h : h = IF keep \in ToSet(ids) THEN keep ELSE IF ids = <<>> THEN None ELSE Head(ids)
  OBVIOUS
<1>2. \A x \in ToSet(ids) : x \in Convs
  BY DEF ToSet
<1>3. ids # <<>> => Head(ids) \in ToSet(ids)
  <2>1. ids # <<>> => 1 \in DOMAIN ids /\ Head(ids) = ids[1]
    OBVIOUS
  <2> QED BY <2>1 DEF ToSet
<1>4. h \in Convs \cup {None} /\ (keep \in ToSet(ids) => h = keep) /\ (h \in ToSet(ids) \/ h = None)
  BY <1>1, <1>2, <1>3
<1>5. PICK v : v = [w EXCEPT !.rows = ids, !.hi = h]
  OBVIOUS
<1>6. v \in Windows /\ v.rows = ids /\ v.hi = h
  BY <1>4, <1>5 DEF Windows
<1>7. /\ v.acct = w.acct /\ v.conv = w.conv /\ v.log = w.log /\ v.notes = w.notes
      /\ v.input = w.input /\ v.drafts = w.drafts /\ v.lastConv = w.lastConv
  BY <1>5 DEF Windows
<1>8. v = setIds(w, ids, keep)
  BY <1>1, <1>5 DEF setIds
<1> QED BY <1>4, <1>6, <1>7, <1>8 DEF Listed

\* showConv(): another conversation, with what was typed for it, and its log.
ShownAs(w, v, c) ==
    /\ Carried(w, v) /\ v.conv = c /\ v.rows = w.rows /\ v.hi = w.hi /\ v.acct = w.acct
    /\ w.log = <<>> /\ ~w.notes => v.log = LatestOf(c)
LEMMA ShowConvIs ==
    ASSUME BackendTypes, NEW w \in Windows, NEW c \in Convs \cup {None}
    PROVE  ShownAs(w, showConv(w, c), c)
<1>1. CASE c = w.conv /\ (w.log # <<>> \/ w.notes)
  <2>1. showConv(w, c) = w
    BY <1>1 DEF showConv, Shown
  <2> QED BY <1>1, <2>1, CarriedNone DEF ShownAs
<1>2. CASE ~(c = w.conv /\ (w.log # <<>> \/ w.notes))
  <2>1. PICK put : put = IF w.conv = None THEN w.drafts ELSE [w.drafts EXCEPT ![w.conv] = w.input]
    OBVIOUS
  <2>2. PICK lc : lc = IF w.acct = None THEN w.lastConv ELSE [w.lastConv EXCEPT ![w.acct] = c]
    OBVIOUS
  <2>3. PICK inp : inp = IF c = None THEN None ELSE put[c]
    OBVIOUS
  <2>4. PICK u : u = [w EXCEPT !.drafts = put, !.conv = c, !.lastConv = lc, !.input = inp]
    OBVIOUS
  <2>5. PICK nt \in BOOLEAN : nt = (c \notin bConvs)
    OBVIOUS
  <2>6. PICK log : log = LatestOf(c)
    OBVIOUS
  <2>7. PICK v : v = [u EXCEPT !.log = log, !.notes = nt, !.noOlder = FALSE]
    OBVIOUS
  <2>8. /\ w.acct \in Accts \cup {None} /\ w.conv \in Convs \cup {None} /\ w.rows \in Seq(Convs)
        /\ w.hi \in Convs \cup {None} /\ w.lastConv \in [Accts -> Convs \cup {None}]
        /\ w.drafts \in [Convs -> Nat] /\ w.input \in Nat
    BY DEF Windows
  <2>9. put \in [Convs -> Nat] /\ lc \in [Accts -> Convs \cup {None}]
    BY <2>1, <2>2, <2>8
  <2>10. inp \in Nat
    BY <2>3, <2>9 DEF None
  <2>11. log \in Seq(Nat)
    BY <2>6, LatestNumbers
  <2>12. u \in Windows /\ u.conv = c /\ u.rows = w.rows /\ u.hi = w.hi /\ u.acct = w.acct
         /\ u.input = inp /\ u.drafts = put
    BY <2>4, <2>9, <2>10 DEF Windows
  <2>13. /\ v \in Windows /\ v.conv = c /\ v.rows = w.rows /\ v.hi = w.hi /\ v.acct = w.acct
         /\ v.input = inp /\ v.drafts = put /\ v.log = log
    BY <2>5, <2>7, <2>11, <2>12 DEF Windows
  <2>14. v = showConv(w, c)
    <3>1. showConv(w, c) = loadHistory(u)
      BY <1>2, <2>1, <2>2, <2>3, <2>4 DEF showConv, Shown
    <3>2. loadHistory(u) = v
      BY <2>5, <2>6, <2>7, <2>12, Zenon DEF loadHistory
    <3> QED BY <3>1, <3>2
  <2>15. ASSUME NEW ts \in Seq(Text), TextsAt(w, ts) PROVE TextsAt(v, ts)
    <3>1. /\ w.input \in 0 .. Len(ts) /\ (w.input # None => ts[w.input].for = w.conv)
          /\ \A d \in Convs : /\ w.drafts[d] \in 0 .. Len(ts)
                              /\ w.drafts[d] # None => ts[w.drafts[d]].for = d
          /\ \A t \in DOMAIN ts : ts[t].for # None /\ ts[t].fate = "kept" =>
               IF w.conv = ts[t].for THEN w.input = t ELSE w.drafts[ts[t].for] = t
      BY <2>15 DEF TextsAt
    <3>2. ASSUME NEW d \in Convs
          PROVE  put[d] \in 0 .. Len(ts) /\ (put[d] # None => ts[put[d]].for = d)
      BY <2>1, <2>8, <3>1
    <3>3. inp \in 0 .. Len(ts) /\ (inp # None => ts[inp].for = c)
      <4>1. CASE c = None
        <5>1. inp = 0 /\ Len(ts) \in Nat
          BY <2>3, <4>1 DEF None
        <5> QED BY <5>1 DEF None
      <4>2. CASE c # None
        BY <2>3, <3>2, <4>2
      <4> QED BY <4>1, <4>2
    <3>4. ASSUME NEW t \in DOMAIN ts, ts[t].for # None, ts[t].fate = "kept"
          PROVE  IF c = ts[t].for THEN inp = t ELSE put[ts[t].for] = t
      <4>1. PICK f \in Convs : f = ts[t].for
        <5>1. ts[t] \in Text
          OBVIOUS
        <5>2. ts[t].for \in Convs \cup {None}
          BY <5>1 DEF Text
        <5> QED BY <3>4, <5>2
      <4>2. put[f] = t
        <5>1. IF w.conv = f THEN w.input = t ELSE w.drafts[f] = t
          BY <3>1, <3>4, <4>1
        <5>2. CASE w.conv = f
          BY <2>1, <2>8, <3>4, <4>1, <5>1, <5>2
        <5>3. CASE w.conv # f
          BY <2>1, <2>8, <5>1, <5>3
        <5> QED BY <5>2, <5>3
      <4> QED BY <2>3, <3>4, <4>1, <4>2
    <3> QED BY <2>13, <3>2, <3>3, <3>4 DEF TextsAt
  <2>16. FromLog(w, v)
    BY <2>6, <2>13 DEF FromLog
  <2> QED BY <2>6, <2>13, <2>14, <2>15, <2>16 DEF ShownAs, Carried
<1> QED BY <1>1, <1>2

\* What the window's own functions promise of what it shows.
Well(w) == RowsOf(w) /\ Lit(w)
Fresh(w, v) == Carried(w, v) /\ Well(v)

LEMMA WellShown ==
    ASSUME NEW v \in Windows, RowsFor(v.rows, v.acct), v.hi = v.conv
    PROVE  Well(v)
<1>1. RowsOf(v)
  BY DEF RowsFor, RowsOf
<1>2. Lit(v)
  BY DEF RowsFor, Lit, ToSet
<1> QED BY <1>1, <1>2 DEF Well

LEMMA InAccount ==
    ASSUME NEW w \in Windows, NEW a \in Accts \cup {None}
    PROVE  /\ [w EXCEPT !.acct = a] \in Windows /\ [w EXCEPT !.acct = a].acct = a
           /\ Carried(w, [w EXCEPT !.acct = a]) /\ [w EXCEPT !.acct = a].conv = w.conv
           /\ [w EXCEPT !.acct = a].log = w.log /\ [w EXCEPT !.acct = a].notes = w.notes
<1>1. PICK v : v = [w EXCEPT !.acct = a]
  OBVIOUS
<1>2. v \in Windows
  BY <1>1 DEF Windows
<1>3. v.acct = a /\ v.conv = w.conv /\ v.log = w.log /\ v.input = w.input /\ v.drafts = w.drafts
      /\ v.notes = w.notes
  BY <1>1 DEF Windows
<1> QED BY <1>1, <1>2, <1>3, CarriedSame

LEMMA ShowAccountIs ==
    ASSUME BackendTypes, NEW w \in Windows, NEW m, DOMAIN m \subseteq Convs,
           NEW a \in Accts \cup {None}
    PROVE  Fresh(w, showAccount(w, m, a))
<1>1. PICK keep : keep = IF a = None THEN None ELSE w.lastConv[a]
  OBVIOUS
<1>2. PICK x : x = [w EXCEPT !.acct = a]
  OBVIOUS
<1>3. x \in Windows /\ x.acct = a /\ Carried(w, x)
  BY <1>2, InAccount
<1>4. PICK ids : ids = convsOf(m, a)
  OBVIOUS
<1>5. RowsFor(ids, a) /\ ids \in Seq(Convs)
  BY <1>4, ConvsOfAre DEF RowsFor
<1>6. PICK y : y = setIds(x, ids, keep)
  OBVIOUS
<1>7. Listed(x, y, ids, keep)
  BY <1>3, <1>5, <1>6, SetIdsIs
<1>8. y \in Windows /\ y.rows = ids /\ y.acct = a /\ y.hi \in Convs \cup {None} /\ Carried(x, y)
  BY <1>3, <1>7, CarriedSame DEF Listed
<1>9. PICK v : v = showConv(y, y.hi)
  OBVIOUS
<1>10. ShownAs(y, v, y.hi)
  BY <1>8, <1>9, ShowConvIs
<1>11. Carried(y, v) /\ v \in Windows /\ v.conv = v.hi /\ v.rows = ids /\ v.acct = a
  BY <1>8, <1>10 DEF ShownAs, Carried
<1>12. Carried(w, v)
  BY <1>3, <1>8, <1>11, CarriedOn
<1>13. Well(v)
  BY <1>5, <1>11, WellShown
<1>14. v = showAccount(w, m, a)
  BY <1>1, <1>2, <1>4, <1>6, <1>9 DEF showAccount
<1> QED BY <1>12, <1>13, <1>14 DEF Fresh

LEMMA HeadIn == ASSUME NEW S, NEW q \in Seq(S), q # <<>> PROVE Head(q) \in S
OBVIOUS

LEMMA RefreshListsIs ==
    ASSUME BackendTypes, NEW w \in Windows, NEW m, DOMAIN m \subseteq Convs,
           NEW al \in Seq(Accts), NEW follow \in BOOLEAN
    PROVE  /\ Fresh(w, refreshLists(w, m, al, follow))
           /\ ~follow => /\ refreshLists(w, m, al, follow).conv = w.conv
                         /\ refreshLists(w, m, al, follow).log = w.log
                         /\ refreshLists(w, m, al, follow).notes = w.notes
<1>1. PICK a : a = IF w.acct \in ToSet(al) THEN w.acct ELSE IF al = <<>> THEN None ELSE Head(al)
  OBVIOUS
<1>2. a \in Accts \cup {None}
  <2>1. w.acct \in Accts \cup {None}
    BY DEF Windows
  <2>2. al # <<>> => Head(al) \in Accts
    BY HeadIn
  <2> QED BY <1>1, <2>1, <2>2
<1>3. PICK x : x = [w EXCEPT !.acct = a]
  OBVIOUS
<1>4. x \in Windows /\ x.acct = a /\ Carried(w, x) /\ x.conv = w.conv /\ x.log = w.log
      /\ x.notes = w.notes
  BY <1>2, <1>3, InAccount
<1>5. PICK ids : ids = convsOf(m, a)
  OBVIOUS
<1>6. RowsFor(ids, a) /\ ids \in Seq(Convs)
  BY <1>5, ConvsOfAre DEF RowsFor
<1>7. PICK y : y = setIds(x, ids, w.conv)
  OBVIOUS
<1>8. Listed(x, y, ids, w.conv)
  BY <1>4, <1>6, <1>7, SetIdsIs
<1>9. y \in Windows /\ y.rows = ids /\ y.acct = a /\ y.hi \in Convs \cup {None} /\ Carried(x, y)
      /\ y.conv = w.conv /\ y.log = w.log /\ y.notes = w.notes
      /\ (w.conv \in ToSet(ids) => y.hi = w.conv)
  BY <1>4, <1>8, CarriedSame DEF Listed
<1>10. Carried(w, y)
  BY <1>4, <1>9, CarriedOn
<1>11. PICK v : v = refreshLists(w, m, al, follow)
  OBVIOUS
<1>12. v = IF follow /\ y.conv \notin ToSet(y.rows) /\ y.hi # y.conv THEN showConv(y, y.hi) ELSE y
  <2>1. refreshLists(w, m, al, follow)
          = IF follow /\ w.conv \notin ToSet(y.rows) /\ y.hi # w.conv THEN showConv(y, y.hi) ELSE y
    BY <1>1, <1>3, <1>5, <1>7, Zenon DEF refreshLists
  <2> QED BY <1>9, <1>11, <2>1
<1>13. CASE v = y
  <2>1. RowsOf(y)
    BY <1>6, <1>9 DEF RowsFor, RowsOf
  <2>2. Lit(y)
    BY <1>6, <1>9 DEF RowsFor, Lit, ToSet
  <2>3. Fresh(w, v)
    BY <1>10, <1>13, <2>1, <2>2 DEF Fresh, Well
  <2> QED BY <1>9, <1>11, <1>13, <2>3
<1>14. CASE follow /\ v = showConv(y, y.hi)
  <2>1. ShownAs(y, v, y.hi)
    BY <1>9, <1>14, ShowConvIs
  <2>2. Carried(y, v) /\ v \in Windows /\ v.conv = v.hi /\ v.rows = ids /\ v.acct = a
    BY <1>9, <2>1 DEF ShownAs, Carried
  <2>3. Carried(w, v)
    BY <1>10, <2>2, CarriedOn
  <2>4. Well(v)
    BY <1>6, <2>2, WellShown
  <2> QED BY <1>11, <1>14, <2>3, <2>4 DEF Fresh
<1> QED BY <1>12, <1>13, <1>14

LEMMA FromListIs ==
    ASSUME BackendTypes, NEW w \in Windows, Well(w), NEW c \in Convs
    PROVE  Fresh(w, showConv(setIds(w, w.rows, c), c))
<1>1. w.rows \in Seq(Convs)
  BY DEF Windows
<1>2. PICK y : y = setIds(w, w.rows, c)
  OBVIOUS
<1>3. Listed(w, y, w.rows, c)
  BY <1>1, <1>2, SetIdsIs
<1>4. y \in Windows /\ y.rows = w.rows /\ y.acct = w.acct /\ Carried(w, y)
      /\ (c \in ToSet(y.rows) => y.hi = c)
  BY <1>3, CarriedSame DEF Listed
<1>5. PICK v : v = showConv(y, c)
  OBVIOUS
<1>6. ShownAs(y, v, c)
  BY <1>4, <1>5, ShowConvIs
<1>7. Carried(y, v) /\ v.conv = c /\ v.rows = w.rows /\ v.acct = w.acct /\ v.hi = y.hi
  BY <1>4, <1>6 DEF ShownAs
<1>8. Carried(w, v)
  BY <1>4, <1>7, CarriedOn
<1>9. RowsOf(v)
  BY <1>7 DEF Well, RowsOf
<1>10. Lit(v)
  <2>1. ASSUME c \in ToSet(v.rows) PROVE v.hi = c /\ v.acct = AcctOf[c]
    <3>1. v.hi = c
      BY <1>4, <1>7, <2>1
    <3>2. PICK i \in DOMAIN v.rows : v.rows[i] = c
      BY <2>1 DEF ToSet
    <3> QED BY <1>9, <3>1, <3>2 DEF RowsOf
  <2> QED BY <1>7, <2>1 DEF Lit
<1> QED BY <1>2, <1>5, <1>8, <1>9, <1>10 DEF Fresh, Well

\* The log is read again, whatever it was.
LEMMA ResetIs ==
    ASSUME BackendTypes, NEW w \in Windows, NEW m, DOMAIN m \subseteq Convs,
           NEW al \in Seq(Accts)
    PROVE  /\ Fresh(w, Reset(w, m, al)) /\ Reset(w, m, al).conv = w.conv
           /\ Reset(w, m, al).log = LatestOf(w.conv)
<1>1. PICK r : r = refreshLists(w, m, al, FALSE)
  OBVIOUS
<1>2. Fresh(w, r) /\ r.conv = w.conv
  BY <1>1, RefreshListsIs
<1>3. r \in Windows /\ Carried(w, r) /\ Well(r)
  BY <1>2 DEF Fresh, Carried
<1>4. PICK x : x = [r EXCEPT !.log = <<>>, !.notes = FALSE]
  OBVIOUS
<1>5. x \in Windows
  <2>1. <<>> \in Seq(Nat)
    OBVIOUS
  <2> QED BY <1>3, <1>4, <2>1 DEF Windows
<1>6. /\ x.conv = r.conv /\ x.log = <<>> /\ x.notes = FALSE /\ x.input = r.input
      /\ x.drafts = r.drafts /\ x.rows = r.rows /\ x.hi = r.hi /\ x.acct = r.acct
  BY <1>3, <1>4 DEF Windows
<1>7. r.conv \in Convs \cup {None}
  BY <1>3 DEF Windows
<1>8. PICK v : v = showConv(x, r.conv)
  OBVIOUS
<1>9. ShownAs(x, v, r.conv)
  BY <1>5, <1>7, <1>8, ShowConvIs
<1>10. /\ Carried(x, v) /\ v.conv = r.conv /\ v.rows = r.rows /\ v.hi = r.hi /\ v.acct = r.acct
       /\ v.log = LatestOf(v.conv)
  BY <1>6, <1>9 DEF ShownAs
<1>11. ASSUME NEW ts \in Seq(Text), TextsAt(w, ts) PROVE TextsAt(v, ts)
  <2>1. TextsAt(r, ts)
    BY <1>3, <1>11 DEF Carried
  <2>2. TextsAt(x, ts)
    BY <1>6, <2>1 DEF TextsAt
  <2> QED BY <1>10, <2>2 DEF Carried
<1>12. Carried(w, v)
  BY <1>10, <1>11 DEF Carried, FromLog
<1>13. Well(v)
  BY <1>3, <1>10 DEF Well, RowsOf, Lit
<1>14. v = Reset(w, m, al)
  BY <1>1, <1>4, <1>8 DEF Reset
<1> QED BY <1>2, <1>10, <1>12, <1>13, <1>14 DEF Fresh

LEMMA LoadHistoryIs ==
    ASSUME BackendTypes, NEW w \in Windows, Well(w)
    PROVE  Fresh(w, loadHistory(w)) /\ loadHistory(w).conv = w.conv
<1>1. PICK log : log = LatestOf(w.conv)
  OBVIOUS
<1>2. PICK nt \in BOOLEAN : nt = (w.conv \notin bConvs)
  OBVIOUS
<1>3. PICK v : v = [w EXCEPT !.log = log, !.notes = nt, !.noOlder = FALSE]
  OBVIOUS
<1>4. v = loadHistory(w)
  BY <1>1, <1>2, <1>3, Zenon DEF loadHistory
<1>5. log \in Seq(Nat)
  BY <1>1, LatestNumbers DEF Windows
<1>6. v \in Windows
  BY <1>2, <1>3, <1>5 DEF Windows
<1>7. /\ v.conv = w.conv /\ v.log = log /\ v.input = w.input
      /\ v.drafts = w.drafts /\ v.rows = w.rows /\ v.hi = w.hi /\ v.acct = w.acct
  BY <1>3 DEF Windows
<1>8. \A ts \in Seq(Text) : TextsAt(w, ts) => TextsAt(v, ts)
  BY <1>7 DEF TextsAt
<1>9. FromLog(w, v)
  BY <1>1, <1>7 DEF FromLog
<1>10. Well(v)
  BY <1>7 DEF Well, RowsOf, Lit
<1> QED BY <1>4, <1>6, <1>7, <1>8, <1>9, <1>10 DEF Fresh, Carried

-----------------------------------------------------------------------------
(* An event more, and what the model will be                               *)

LEMMA EventIs ==
    ASSUME NEW t, t \in {"msg", "unread", "conv-new", "conv-gone", "history latest",
                         "history before", "state", "invite"},
           NEW c \in Convs \cup Accts \cup Invites, NEW n \in Nat
    PROVE  /\ Event(t, c, n) \in Happenings /\ Event(t, c, n).t = t
           /\ Event(t, c, n).c = c /\ Event(t, c, n).n = n
BY DEF Event, Happenings

LEMMA AppliedQuiet ==
    ASSUME NEW m, NEW q \in Seq(Happenings), NEW e \in Happenings,
           e.t \notin {"conv-new", "conv-gone", "unread"}
    PROVE  Applied(m, Append(q, e)) = Applied(m, q)
<1>1. Applied(m, Append(q, e)) = Apply(Applied(m, q), e)
  BY AppliedMore
<1>2. PICK k : k = Applied(m, q)
  OBVIOUS
<1>3. Apply(k, e) = k
  BY DEF Apply
<1> QED BY <1>1, <1>2, <1>3

LEMMA AppliedUnread ==
    ASSUME NEW m, NEW q \in Seq(Happenings), NEW B \in SUBSET Convs, NEW u \in [Convs -> Nat],
           NEW c \in B, NEW n \in Nat, NEW v, v = [u EXCEPT ![c] = n],
           Meets(m, q, B, u),
           NEW e \in Happenings, e.t = "unread", e.c = c, e.n = n
    PROVE  Meets(m, Append(q, e), B, v)
<1>2. Applied(m, Append(q, e)) = Apply(Applied(m, q), e)
  BY AppliedMore
<1>3. PICK k : k = TruthOf(B, u)
  OBVIOUS
<1>4. k = [d \in B |-> u[d]] /\ c \in DOMAIN k
  BY <1>3 DEF TruthOf
<1>5. Apply(k, e) = [k EXCEPT ![c] = n]
  BY <1>4 DEF Apply
<1>6. [k EXCEPT ![c] = n] = TruthOf(B, v)
  BY <1>4 DEF TruthOf
<1> QED BY <1>2, <1>3, <1>5, <1>6 DEF Meets

LEMMA AppliedNew ==
    ASSUME NEW m, NEW q \in Seq(Happenings), NEW B \in SUBSET Convs, NEW u \in [Convs -> Nat],
           NEW c \in Convs \ B, u[c] = 0, Meets(m, q, B, u),
           NEW e \in Happenings, e.t = "conv-new", e.c = c, e.n = 0
    PROVE  Meets(m, Append(q, e), B \cup {c}, u)
<1>2. Applied(m, Append(q, e)) = Apply(Applied(m, q), e)
  BY AppliedMore
<1>3. PICK k : k = TruthOf(B, u)
  OBVIOUS
<1>4. k = [d \in B |-> u[d]]
  BY <1>3 DEF TruthOf
<1>5. Apply(k, e) = [d \in DOMAIN k \cup {c} |-> IF d = c THEN 0 ELSE k[d]]
  BY DEF Apply
<1>6. [d \in DOMAIN k \cup {c} |-> IF d = c THEN 0 ELSE k[d]] = TruthOf(B \cup {c}, u)
  BY <1>4 DEF TruthOf
<1> QED BY <1>2, <1>3, <1>5, <1>6 DEF Meets

LEMMA AppliedGone ==
    ASSUME NEW m, NEW q \in Seq(Happenings), NEW B \in SUBSET Convs, NEW u \in [Convs -> Nat],
           NEW c \in B, NEW v, v = [u EXCEPT ![c] = 0], Meets(m, q, B, u),
           NEW e \in Happenings, e.t = "conv-gone", e.c = c
    PROVE  Meets(m, Append(q, e), B \ {c}, v)
<1>2. Applied(m, Append(q, e)) = Apply(Applied(m, q), e)
  BY AppliedMore
<1>3. PICK k : k = TruthOf(B, u)
  OBVIOUS
<1>4. k = [d \in B |-> u[d]]
  BY <1>3 DEF TruthOf
<1>5. Apply(k, e) = [d \in DOMAIN k \ {c} |-> k[d]]
  BY DEF Apply
<1>6. [d \in DOMAIN k \ {c} |-> k[d]] = TruthOf(B \ {c}, v)
  BY <1>4 DEF TruthOf
<1> QED BY <1>2, <1>3, <1>5, <1>6 DEF Meets

-----------------------------------------------------------------------------
(* What is said in a queue with an event more, or one less                 *)

LEMMA SomeAppended ==
    ASSUME NEW q \in Seq(Happenings), NEW e \in Happenings
    PROVE  /\ \A c : RisesIn(Append(q, e), c) <=> RisesIn(q, c) \/ Rises(e, c)
           /\ \A i : InviteIn(Append(q, e), i) <=> InviteIn(q, i) \/ (e.t = "invite" /\ e.c = i)
           /\ (\A i \in DOMAIN q : Known(q[i])) /\ Known(e) =>
                \A i \in DOMAIN Append(q, e) : Known(Append(q, e)[i])
<1>1. PICK z : z = Append(q, e)
  OBVIOUS
<1>2. PICK n \in Nat : n = Len(q)
  BY Appended
<1>3. /\ DOMAIN q = 1 .. n /\ DOMAIN z = 1 .. n + 1 /\ z[n + 1] = e
      /\ \A i \in 1 .. n : z[i] = q[i]
  BY <1>1, <1>2, Appended
<1>4. n + 1 \in DOMAIN z /\ \A i \in DOMAIN z : (i \in DOMAIN q /\ z[i] = q[i]) \/ z[i] = e
  BY <1>3
<1>5. \A i \in DOMAIN q : i \in DOMAIN z /\ z[i] = q[i]
  BY <1>3
<1>6. \A c : RisesIn(z, c) <=> RisesIn(q, c) \/ Rises(e, c)
  BY <1>3, <1>4, <1>5, Zenon DEF RisesIn
<1>7. \A i : InviteIn(z, i) <=> InviteIn(q, i) \/ (e.t = "invite" /\ e.c = i)
  BY <1>3, <1>4, <1>5 DEF InviteIn
<1>8. (\A i \in DOMAIN q : Known(q[i])) /\ Known(e) => \A i \in DOMAIN z : Known(z[i])
  BY <1>4
<1> QED BY <1>1, <1>6, <1>7, <1>8

LEMMA SomeShortened ==
    ASSUME NEW q \in Seq(Happenings), q # <<>>
    PROVE  /\ \A c : RisesIn(q, c) <=> RisesIn(Tail(q), c) \/ Rises(Head(q), c)
           /\ \A i : InviteIn(q, i) <=> InviteIn(Tail(q), i) \/ (Head(q).t = "invite" /\ Head(q).c = i)
           /\ (\A i \in DOMAIN q : Known(q[i])) =>
                Known(Head(q)) /\ \A i \in DOMAIN Tail(q) : Known(Tail(q)[i])
<1>1. PICK z : z = Tail(q)
  OBVIOUS
<1>2. PICK n \in Nat \ {0} : n = Len(q)
  BY Shortened
<1>3. /\ DOMAIN q = 1 .. n /\ DOMAIN z = 1 .. n - 1 /\ Head(q) = q[1]
      /\ \A i \in 1 .. n - 1 : z[i] = q[i + 1]
  BY <1>1, <1>2, Shortened
<1>4. 1 \in DOMAIN q /\ Head(q) = q[1]
  BY <1>3
<1>5. ASSUME NEW i \in DOMAIN z PROVE \E j \in DOMAIN q : z[i] = q[j]
  <2>1. PICK j : j = i + 1
    OBVIOUS
  <2>2. j \in DOMAIN q /\ z[i] = q[j]
    BY <1>3, <2>1
  <2> QED BY <2>2
<1>6. ASSUME NEW j \in DOMAIN q PROVE q[j] = Head(q) \/ \E i \in DOMAIN z : q[j] = z[i]
  <2>1. CASE j = 1
    BY <1>3, <2>1
  <2>2. CASE j # 1
    <3>1. PICK i : i = j - 1
      OBVIOUS
    <3>2. i \in DOMAIN z /\ z[i] = q[j]
      BY <1>3, <2>2, <3>1
    <3> QED BY <3>2
  <2> QED BY <2>1, <2>2
<1>7. \A c : RisesIn(q, c) <=> RisesIn(z, c) \/ Rises(Head(q), c)
  <2> TAKE c
  <2>1. ASSUME RisesIn(q, c) PROVE RisesIn(z, c) \/ Rises(Head(q), c)
    <3>1. PICK j \in DOMAIN q : Rises(q[j], c)
      BY <2>1 DEF RisesIn
    <3> QED BY <1>6, <3>1 DEF RisesIn
  <2>2. ASSUME RisesIn(z, c) PROVE RisesIn(q, c)
    <3>1. PICK j \in DOMAIN z : Rises(z[j], c)
      BY <2>2 DEF RisesIn
    <3> QED BY <1>5, <3>1 DEF RisesIn
  <2>3. ASSUME Rises(Head(q), c) PROVE RisesIn(q, c)
    BY <1>4, <2>3 DEF RisesIn
  <2> QED BY <2>1, <2>2, <2>3
<1>8. \A i : InviteIn(q, i) <=> InviteIn(z, i) \/ (Head(q).t = "invite" /\ Head(q).c = i)
  <2> TAKE i
  <2>1. ASSUME InviteIn(q, i) PROVE InviteIn(z, i) \/ (Head(q).t = "invite" /\ Head(q).c = i)
    <3>1. PICK j \in DOMAIN q : q[j].t = "invite" /\ q[j].c = i
      BY <2>1 DEF InviteIn
    <3> QED BY <1>6, <3>1 DEF InviteIn
  <2>2. ASSUME InviteIn(z, i) PROVE InviteIn(q, i)
    <3>1. PICK j \in DOMAIN z : z[j].t = "invite" /\ z[j].c = i
      BY <2>2 DEF InviteIn
    <3> QED BY <1>5, <3>1 DEF InviteIn
  <2>3. ASSUME Head(q).t = "invite", Head(q).c = i PROVE InviteIn(q, i)
    BY <1>4, <2>3 DEF InviteIn
  <2> QED BY <2>1, <2>2, <2>3
<1>9. (\A i \in DOMAIN q : Known(q[i])) => Known(Head(q)) /\ \A i \in DOMAIN z : Known(z[i])
  BY <1>4, <1>5
<1> QED BY <1>1, <1>7, <1>8, <1>9

\* What will be unread once all is told, and is not yet, is told.
LEMMA HeardOf ==
    ASSUME NEW m, NEW q \in Seq(Happenings), \A i \in DOMAIN q : Known(q[i]),
           NEW B \in SUBSET Convs, NEW u \in [Convs -> Nat], Meets(m, q, B, u),
           NEW c \in B, u[c] > 0, c \in DOMAIN m => ~(m[c] > 0), m \in [DOMAIN m -> Nat]
    PROVE  RisesIn(q, c)
<1> SUFFICES ASSUME ~RisesIn(q, c) PROVE FALSE
  OBVIOUS
<1>1. Low(m, c)
  BY DEF Low
<1>2. Low(Applied(m, q), c)
  BY <1>1, AppliedLow
<1>3. PICK k : k = Applied(m, q)
  OBVIOUS
<1>4. k = [d \in B |-> u[d]]
  BY <1>3 DEF Meets, TruthOf
<1>5. k[c] = 0
  BY <1>2, <1>3, <1>4 DEF Low
<1> QED BY <1>4, <1>5

-----------------------------------------------------------------------------
(* All conversations' messages, and the log                                *)

LEMMA JoinSeq ==
    ASSUME NEW b \in Seq(Happenings), NEW q \in Seq(Happenings) PROVE b \o q \in Seq(Happenings)
OBVIOUS

LEMMA JoinMore ==
    ASSUME NEW b \in Seq(Happenings), NEW q \in Seq(Happenings), NEW e \in Happenings
    PROVE  b \o q \in Seq(Happenings) /\ b \o Append(q, e) = Append(b \o q, e)
OBVIOUS

LEMMA JoinLess ==
    ASSUME NEW b \in Seq(Happenings), NEW q \in Seq(Happenings), b # <<>>
    PROVE  b \o q # <<>> /\ Head(b \o q) = Head(b) /\ Tail(b) \o q = Tail(b \o q)
OBVIOUS

LEMMA PendQuiet ==
    ASSUME NEW q \in Seq(Happenings), NEW e \in Happenings, e.t # "msg", NEW l, NEW r, NEW rb,
           Pend(q, l, r, rb)
    PROVE  Pend(Append(q, e), l, r, rb)
<1> SUFFICES ASSUME NEW c \in Convs
             PROVE  /\ Runs(Append(q, e), c, l[c])
                    /\ c \notin rb => Within(Append(q, e), c, r[c])
  BY DEF Pend
<1>1. ~MsgOf(e, c) /\ Runs(q, c, l[c]) /\ (c \notin rb => Within(q, c, r[c]))
  BY DEF MsgOf, Pend
<1>2. Runs(Append(q, e), c, l[c])
  BY <1>1, RunsQuiet
<1>3. ASSUME c \notin rb PROVE Within(Append(q, e), c, r[c])
  BY <1>1, <1>3, WithinMore
<1> QED BY <1>2, <1>3

LEMMA PendRing ==
    ASSUME NEW q, NEW l, NEW r, NEW rb, NEW s, NEW sb, Pend(q, l, r, rb),
           \A c \in Convs : c \notin sb => \/ c \notin rb /\ r[c] \subseteq s[c]
                                           \/ \A i \in DOMAIN q : ~MsgOf(q[i], c)
    PROVE  Pend(q, l, s, sb)
<1> SUFFICES ASSUME NEW c \in Convs PROVE c \notin sb => Within(q, c, s[c])
  BY DEF Pend
<1> QED BY DEF Pend, Within

LEMMA PendLess ==
    ASSUME NEW q \in Seq(Happenings), q # <<>>, NEW l \in [Convs -> Nat], NEW r, NEW rb,
           Pend(q, l, r, rb)
    PROVE  Pend(Tail(q), l, r, rb)
<1> SUFFICES ASSUME NEW c \in Convs
             PROVE  Runs(Tail(q), c, l[c]) /\ (c \notin rb => Within(Tail(q), c, r[c]))
  BY DEF Pend
<1>1. Runs(q, c, l[c]) /\ (c \notin rb => Within(q, c, r[c])) /\ l[c] \in Nat
  BY DEF Pend
<1> QED BY <1>1, RunsLess, WithinLess

LEMMA PendMsg ==
    ASSUME NEW q \in Seq(Happenings), NEW l \in [Convs -> Nat], NEW r \in [Convs -> SUBSET Nat],
           NEW rb, NEW c \in Convs, Pend(q, l, r, rb),
           \A i \in DOMAIN q : MsgOf(q[i], c) => l[c] + 1 < q[i].n + Page,
           NEW e \in Happenings, e.t = "msg", e.c = c, e.n = l[c] + 1,
           NEW k, k = [l EXCEPT ![c] = l[c] + 1], NEW s, s = [r EXCEPT ![c] = r[c] \cup {l[c] + 1}]
    PROVE  Pend(Append(q, e), k, s, rb)
<1> SUFFICES ASSUME NEW d \in Convs
             PROVE  /\ Runs(Append(q, e), d, k[d])
                    /\ d \notin rb => Within(Append(q, e), d, s[d])
  BY DEF Pend
<1>5. Runs(q, d, l[d]) /\ (d \notin rb => Within(q, d, r[d])) /\ l[d] \in Nat
  BY DEF Pend
<1>6. CASE d = c
  <2>1. MsgOf(e, d) /\ e.n = l[d] + 1 /\ k[d] = l[d] + 1 /\ r[d] \subseteq s[d] /\ l[d] + 1 \in s[d]
    BY <1>6 DEF MsgOf
  <2>2. Runs(Append(q, e), d, l[d] + 1)
    BY <1>5, <1>6, <2>1, RunsOneMore
  <2>3. ASSUME d \notin rb PROVE Within(Append(q, e), d, s[d])
    BY <1>5, <2>1, <2>3, WithinMore
  <2> QED BY <2>1, <2>2, <2>3
<1>7. CASE d # c
  <2>1. ~MsgOf(e, d) /\ k[d] = l[d] /\ s[d] = r[d]
    BY <1>7 DEF MsgOf
  <2>2. Runs(Append(q, e), d, l[d])
    BY <1>5, <2>1, RunsQuiet
  <2>3. ASSUME d \notin rb PROVE Within(Append(q, e), d, s[d])
    BY <1>5, <2>1, <2>3, WithinMore
  <2> QED BY <2>1, <2>2, <2>3
<1> QED BY <1>6, <1>7

LEMMA FollowQuiet ==
    ASSUME NEW q \in Seq(Happenings), NEW e \in Happenings, e.t # "msg", NEW w, NEW l, NEW rb,
           Follow(w, q, l, rb)
    PROVE  Follow(w, Append(q, e), l, rb)
<1>1. ~MsgOf(e, w.conv)
  BY DEF MsgOf
<1> QED BY <1>1, LogQuiet DEF Follow

LEMMA FollowLess ==
    ASSUME NEW q \in Seq(Happenings), q # <<>>, Head(q).t # "msg", NEW w \in Windows, NEW l, NEW rb,
           Follow(w, q, l, rb)
    PROVE  Follow(w, Tail(q), l, rb)
<1>1. ~MsgOf(Head(q), w.conv) /\ w.log \in Seq(Nat)
  BY DEF MsgOf, Windows
<1> QED BY <1>1, LogLess DEF Follow

LEMMA FollowMsg ==
    ASSUME NEW q \in Seq(Happenings), NEW w \in Windows, NEW l \in [Convs -> Nat], NEW rb,
           NEW c \in Convs, Follow(w, q, l, rb),
           NEW e \in Happenings, e.t = "msg", e.c = c, e.n = l[c] + 1,
           NEW k, k = [l EXCEPT ![c] = l[c] + 1]
    PROVE  Follow(w, Append(q, e), k, rb)
<1> SUFFICES ASSUME w.conv \notin rb, w.log # <<>>
             PROVE  LogRuns(w.log, Append(q, e), w.conv, k[w.conv])
  BY DEF Follow, LogRuns
<1>3. LogRuns(w.log, q, w.conv, l[w.conv]) /\ w.log \in Seq(Nat)
  BY DEF Follow, Windows
<1>4. w.conv \in Convs /\ l[w.conv] \in Nat
  BY <1>3 DEF LogRuns
<1>5. CASE w.conv = c
  <2>1. MsgOf(e, w.conv)
    BY <1>5 DEF MsgOf
  <2>2. LogRuns(w.log, Append(q, e), w.conv, l[w.conv] + 1)
    BY <1>3, <1>4, <1>5, <2>1, LogOneMore
  <2> QED BY <1>4, <1>5, <2>2
<1>6. CASE w.conv # c
  <2>1. ~MsgOf(e, w.conv)
    BY <1>6 DEF MsgOf
  <2>2. LogRuns(w.log, Append(q, e), w.conv, l[w.conv])
    BY <1>3, <2>1, LogQuiet
  <2>3. k[w.conv] = l[w.conv]
    BY <1>4, <1>6
  <2> QED BY <2>2, <2>3
<1> QED BY <1>5, <1>6

-----------------------------------------------------------------------------
(* Steps that say nothing of a message                                     *)

\* An event more, but not a message
More(q, z) == z = q \/ \E e \in Happenings : Known(e) /\ e.t # "msg" /\ z = Append(q, e)

LEMMA LogCarried ==
    ASSUME BackendTypes, ClientTypes, RingRuns, PendingRuns, gen = cgen, NEW v \in Windows,
           FromLog(win, v),
           v.log = LatestOf(v.conv) \/ (polling # "reset" /\ LogFollows)
    PROVE  Follow(v, ToTell, last, reborn)
<1>1. PICK q \in Seq(Happenings) : q = ToTell
  <2>1. batch \in Seq(Happenings) /\ queue \in Seq(Happenings)
    BY DEF ClientTypes, BackendTypes
  <2> QED BY <2>1, JoinSeq DEF ToTell
<1>2. Pend(q, last, ring, reborn)
  BY <1>1 DEF PendingRuns
<1>3. CASE v.log = LatestOf(v.conv)
  <2> SUFFICES ASSUME v.conv \notin reborn PROVE LogRuns(v.log, q, v.conv, last[v.conv])
    BY <1>1 DEF Follow
  <2>1. v.conv \in Convs \cup {None}
    BY DEF Windows
  <2>2. v.conv # None => Runs(q, v.conv, last[v.conv]) /\ Within(q, v.conv, ring[v.conv])
    BY <1>2, <2>1 DEF Pend
  <2> QED BY <1>3, <2>1, <2>2, LatestRuns
<1>4. CASE v.log # LatestOf(v.conv)
  <2>1. v.conv = win.conv /\ v.log = win.log
    BY <1>4 DEF FromLog
  <2>2. Follow(win, q, last, reborn)
    BY <1>1, <1>4 DEF LogFollows
  <2> QED BY <1>1, <2>1, <2>2 DEF Follow
<1> QED BY <1>3, <1>4

Quieter(b, c) == c = b \/ (b # <<>> /\ Head(b).t # "msg" /\ c = Tail(b))
LEMMA TellsQuietly ==
    ASSUME NEW b \in Seq(Happenings), NEW q \in Seq(Happenings), NEW c, NEW z,
           Quieter(b, c), More(q, z), NEW l \in [Convs -> Nat], NEW r, NEW rb, NEW w \in Windows,
           Pend(b \o q, l, r, rb)
    PROVE  Pend(c \o z, l, r, rb) /\ (Follow(w, b \o q, l, rb) => Follow(w, c \o z, l, rb))
<1>1. PICK t \in Seq(Happenings) : t = b \o q
  BY JoinSeq
<1>2. c \in Seq(Happenings) /\ c \o q \in Seq(Happenings)
  <2>1. Tail(b) \in Seq(Happenings) \/ b = <<>>
    BY Shortened
  <2>2. c \in Seq(Happenings)
    BY <2>1 DEF Quieter
  <2> QED BY <2>2
<1>3. Pend(c \o q, l, r, rb) /\ (Follow(w, t, l, rb) => Follow(w, c \o q, l, rb))
  <2>1. CASE c = b
    BY <1>1, <2>1
  <2>2. CASE c # b
    <3>1. b # <<>> /\ Head(b).t # "msg" /\ c = Tail(b)
      BY <2>2 DEF Quieter
    <3>2. t # <<>> /\ Head(t) = Head(b) /\ c \o q = Tail(t)
      BY <1>1, <3>1, JoinLess
    <3>3. Pend(Tail(t), l, r, rb)
      BY <1>1, <3>2, PendLess
    <3>4. Follow(w, t, l, rb) => Follow(w, Tail(t), l, rb)
      BY <1>1, <3>1, <3>2, FollowLess
    <3> QED BY <1>1, <3>2, <3>3, <3>4
  <2> QED BY <2>1, <2>2
<1>4. CASE z = q
  BY <1>1, <1>3, <1>4
<1>5. CASE z # q
  <2>1. PICK e \in Happenings : e.t # "msg" /\ z = Append(q, e)
    BY <1>5 DEF More
  <2>2. PICK u \in Seq(Happenings) : u = c \o q
    BY <1>2
  <2>3. c \o z = Append(u, e)
    BY <1>2, <2>1, <2>2, JoinMore
  <2>4. Pend(Append(u, e), l, r, rb)
    BY <1>3, <2>1, <2>2, PendQuiet
  <2>5. Follow(w, u, l, rb) => Follow(w, Append(u, e), l, rb)
    BY <2>1, FollowQuiet
  <2> QED BY <1>1, <1>3, <2>2, <2>3, <2>4, <2>5
<1> QED BY <1>4, <1>5

LEMMA QuietStep ==
    ASSUME BackendTypes, ClientTypes, RingRuns, PendingRuns, LogFollows,
           UNCHANGED <<gen, cgen, last, reborn>>, More(queue, queue'), Quieter(batch, batch'),
           \A c \in Convs : ring[c] \subseteq ring'[c],
           win' \in Windows, FromLog(win, win'),
           polling' = "reset" \/ polling # "reset" \/ win'.log = LatestOf(win'.conv)
    PROVE  PendingRuns' /\ LogFollows'
<1> SUFFICES ASSUME gen = cgen
             PROVE  /\ Pend(batch' \o queue', last', ring', reborn')
                    /\ polling' # "reset" => Follow(win', batch' \o queue', last', reborn')
  BY DEF PendingRuns, LogFollows, ToTell
<1>1. PICK b \in Seq(Happenings) : b = batch
  BY DEF ClientTypes
<1>2. PICK q \in Seq(Happenings) : q = queue
  BY DEF BackendTypes
<1>3. PICK c : c = batch'
  OBVIOUS
<1>4. PICK z : z = queue'
  OBVIOUS
<1>5. PICK l \in [Convs -> Nat] : l = last
  BY DEF BackendTypes
<1>6. PICK w : w = win'
  OBVIOUS
<1>7. PICK s : s = ring'
  OBVIOUS
<1>8. PICK rb : rb = reborn
  OBVIOUS
<1>9. PICK r : r = ring
  OBVIOUS
<1>10. Quieter(b, c) /\ More(q, z) /\ FromLog(win, w) /\ w \in Windows
  BY <1>1, <1>2, <1>3, <1>4, <1>6
<1>11. Pend(b \o q, l, r, rb)
  BY <1>1, <1>2, <1>5, <1>8, <1>9 DEF PendingRuns, ToTell
<1>12. Pend(c \o z, l, r, rb) /\ (Follow(w, b \o q, l, rb) => Follow(w, c \o z, l, rb))
  BY <1>10, <1>11, TellsQuietly
<1>13. Pend(c \o z, l, s, rb)
  <2>1. \A d \in Convs : r[d] \subseteq s[d]
    BY <1>7, <1>9
  <2> QED BY <1>12, <2>1, PendRing
<1>14. ASSUME polling' # "reset" PROVE Follow(w, b \o q, l, rb)
  <2>1. w.log = LatestOf(w.conv) \/ (polling # "reset" /\ LogFollows)
    BY <1>6, <1>14
  <2>2. Follow(w, ToTell, last, reborn)
    BY <1>10, <2>1, LogCarried
  <2> QED BY <1>1, <1>2, <1>5, <1>8, <2>2 DEF ToTell
<1> QED BY <1>3, <1>4, <1>5, <1>6, <1>7, <1>8, <1>12, <1>13, <1>14

LEMMA MoreHas ==
    ASSUME NEW q \in Seq(Happenings), \A i \in DOMAIN q : Known(q[i]), NEW z, More(q, z)
    PROVE  /\ z \in Seq(Happenings) /\ \A i \in DOMAIN z : Known(z[i])
           /\ \A c : RisesIn(q, c) => RisesIn(z, c)
           /\ \A i : InviteIn(q, i) => InviteIn(z, i)
<1>1. CASE z = q
  BY <1>1
<1>2. CASE z # q
  <2>1. PICK e \in Happenings : Known(e) /\ z = Append(q, e)
    BY <1>2 DEF More
  <2>2. z \in Seq(Happenings)
    BY <2>1, Appended
  <2>3. \A i \in DOMAIN z : Known(z[i])
    BY <2>1, SomeAppended
  <2>4. \A c : RisesIn(q, c) => RisesIn(z, c)
    BY <2>1, SomeAppended
  <2>5. \A i : InviteIn(q, i) => InviteIn(z, i)
    BY <2>1, SomeAppended
  <2> QED BY <2>2, <2>3, <2>4, <2>5
<1> QED BY <1>1, <1>2

\* What is looked at is read, and that it is read is told.
Read(c, q) ==
    \/ unread' = unread /\ queue' = q
    \/ /\ c \in bConvs /\ unread' = [unread EXCEPT ![c] = 0]
       /\ queue' = Append(q, Event("unread", c, 0))

LEMMA ReadIs ==
    ASSUME unread \in [Convs -> Nat], bConvs \subseteq Convs, NEW w, NEW m, NEW q,
           NEW looking \in BOOLEAN, markRead(w, m, looking, q)
    PROVE  /\ Read(w.conv, q)
           /\ looking /\ w.conv \in DOMAIN m \cap bConvs /\ m[w.conv] > 0 => unread'[w.conv] = 0
<1>1. CASE looking /\ w.conv \in DOMAIN m \cap bConvs /\ m[w.conv] > 0
  <2>1. /\ unread' = [unread EXCEPT ![w.conv] = 0]
        /\ queue' = IF unread[w.conv] > 0 THEN Append(q, Event("unread", w.conv, 0)) ELSE q
    BY <1>1 DEF markRead, Unseen
  <2>2. w.conv \in bConvs /\ w.conv \in Convs /\ unread[w.conv] \in Nat
    BY <1>1
  <2>3. unread'[w.conv] = 0
    BY <2>1, <2>2
  <2>4. CASE unread[w.conv] > 0
    BY <2>1, <2>2, <2>3, <2>4 DEF Read
  <2>5. CASE ~(unread[w.conv] > 0)
    <3>1. unread' = unread
      BY <2>1, <2>2, <2>5
    <3> QED BY <2>1, <2>3, <2>5, <3>1 DEF Read
  <2> QED BY <2>4, <2>5
<1>2. CASE ~(looking /\ w.conv \in DOMAIN m \cap bConvs /\ m[w.conv] > 0)
  <2>1. unread' = unread /\ queue' = q
    BY <1>2, Zenon DEF markRead, Unseen
  <2> QED BY <1>2, <2>1 DEF Read
<1> QED BY <1>1, <1>2

LEMMA ReadOf ==
    ASSUME BackendTypes, NEW q \in Seq(Happenings), \A i \in DOMAIN q : Known(q[i]), NEW c, Read(c, q)
    PROVE  /\ unread' \in [Convs -> Nat] /\ More(q, queue')
           /\ queue' \in Seq(Happenings) /\ \A i \in DOMAIN queue' : Known(queue'[i])
           /\ \A d : RisesIn(q, d) => RisesIn(queue', d)
           /\ \A i : InviteIn(q, i) => InviteIn(queue', i)
           /\ \A d \in Convs : unread'[d] = unread[d] \/ unread'[d] = 0
<1>1. More(q, queue')
  <2>1. CASE queue' = q
    BY <2>1 DEF More
  <2>2. CASE queue' # q
    <3>1. c \in Convs /\ queue' = Append(q, Event("unread", c, 0))
      BY <2>2 DEF Read, BackendTypes
    <3>2. PICK e : e = Event("unread", c, 0)
      OBVIOUS
    <3>3. e \in Happenings /\ e.t = "unread" /\ e.c = c
      BY <3>1, <3>2 DEF Event, Happenings
    <3>4. Known(e)
      BY <3>1, <3>3 DEF Known
    <3> QED BY <3>1, <3>2, <3>3, <3>4 DEF More
  <2> QED BY <2>1, <2>2
<1>2. PICK z : z = queue'
  OBVIOUS
<1>3. /\ z \in Seq(Happenings) /\ \A i \in DOMAIN z : Known(z[i])
      /\ \A d : RisesIn(q, d) => RisesIn(z, d)
      /\ \A i : InviteIn(q, i) => InviteIn(z, i)
  BY <1>1, <1>2, MoreHas
<1>4. /\ unread' \in [Convs -> Nat]
      /\ \A d \in Convs : unread'[d] = unread[d] \/ unread'[d] = 0
  <2>1. unread \in [Convs -> Nat]
    BY DEF BackendTypes
  <2>2. unread' = unread \/ unread' = [unread EXCEPT ![c] = 0]
    BY DEF Read
  <2> QED BY <2>1, <2>2
<1> QED BY <1>1, <1>2, <1>3, <1>4

LEMMA ReadQueue ==
    ASSUME BackendTypes, NEW c, Read(c, queue)
    PROVE  /\ unread' \in [Convs -> Nat] /\ More(queue, queue')
           /\ queue' \in Seq(Happenings) /\ \A i \in DOMAIN queue' : Known(queue'[i])
           /\ \A d : RisesIn(queue, d) => RisesIn(queue', d)
           /\ \A i : InviteIn(queue, i) => InviteIn(queue', i)
           /\ \A d \in Convs : unread'[d] = unread[d] \/ unread'[d] = 0
<1>1. PICK q \in Seq(Happenings) : q = queue /\ \A i \in DOMAIN q : Known(q[i])
  BY DEF BackendTypes
<1>2. Read(c, q)
  BY <1>1
<1> QED BY <1>1, <1>2, ReadOf

LEMMA ReadSynced ==
    ASSUME BackendTypes, NEW c, NEW q \in Seq(Happenings), Read(c, q), NEW m,
           Meets(m, q, bConvs, unread)
    PROVE  Meets(m, queue', bConvs, unread')
<1>1. CASE unread' = unread /\ queue' = q
  BY <1>1
<1>2. CASE ~(unread' = unread /\ queue' = q)
  <2>1. /\ c \in bConvs /\ unread' = [unread EXCEPT ![c] = 0]
        /\ queue' = Append(q, Event("unread", c, 0))
    BY <1>2 DEF Read
  <2>2. PICK B \in SUBSET Convs : B = bConvs
    BY DEF BackendTypes
  <2>3. PICK u \in [Convs -> Nat] : u = unread
    BY DEF BackendTypes
  <2>4. c \in B /\ 0 \in Nat /\ Meets(m, q, B, u)
    BY <2>1, <2>2, <2>3
  <2>5. PICK v : v = [u EXCEPT ![c] = 0]
    OBVIOUS
  <2>6. PICK e : e = Event("unread", c, 0)
    OBVIOUS
  <2>7. e \in Happenings /\ e.t = "unread" /\ e.c = c /\ e.n = 0
    BY <2>4, <2>6 DEF Event, Happenings
  <2>8. Meets(m, Append(q, e), B, v)
    BY <2>4, <2>5, <2>7, AppliedUnread
  <2> QED BY <2>1, <2>2, <2>3, <2>5, <2>6, <2>8
<1> QED BY <1>1, <1>2

\* Once it has been read, only what is still to be told makes it unread.
LEMMA ReadThen ==
    ASSUME BackendTypes, ClientTypes, RingRuns, Synced, gen = cgen, NEW c \in Convs,
           Read(c, queue), unread'[c] > 0,
           c \in DOMAIN model \cap bConvs /\ model[c] > 0 => unread'[c] = 0
    PROVE  RisesIn(queue', c)
<1>1. unread'[c] \in Nat /\ unread[c] \in Nat
  BY ReadQueue DEF BackendTypes
<1>2. unread[c] > 0
  BY <1>1, ReadQueue
<1>3. c \in bConvs
  BY <1>2 DEF RingRuns
<1>4. PICK q \in Seq(Happenings) : q = queue /\ \A i \in DOMAIN q : Known(q[i])
  BY DEF BackendTypes
<1>5. PICK B \in SUBSET Convs : B = bConvs
  BY DEF BackendTypes
<1>6. PICK u \in [Convs -> Nat] : u = unread
  BY DEF BackendTypes
<1>7. PICK m : m = model
  OBVIOUS
<1>8. Meets(m, q, B, u) /\ m \in [DOMAIN m -> Nat]
  BY <1>4, <1>5, <1>6, <1>7 DEF Synced, ClientTypes
<1>9. c \in B /\ u[c] > 0 /\ (c \in DOMAIN m => ~(m[c] > 0))
  BY <1>1, <1>2, <1>3, <1>5, <1>6, <1>7
<1>10. RisesIn(q, c)
  BY <1>4, <1>8, <1>9, HeardOf
<1> QED BY <1>4, <1>10, ReadQueue

-----------------------------------------------------------------------------
(* What a step that leaves something alone keeps                           *)

LEMMA RingKept ==
    ASSUME BackendTypes, RingRuns, UNCHANGED <<bConvs, ring, last>>,
           \A d \in Convs : unread'[d] = unread[d] \/ unread'[d] = 0
    PROVE  RingRuns'
BY DEF RingRuns, BackendTypes

LEMMA NoticedKept ==
    ASSUME BackendTypes, ClientTypes, WindowTypes, Noticed, UNCHANGED <<gen, cgen, model>>,
           Attends' => Attends, win'.conv = win.conv,
           win.conv \in Convs => \/ unread'[win.conv] = unread[win.conv] \/ unread'[win.conv] = 0
                                 \/ RisesIn(queue', win.conv),
           RisesIn(queue, win.conv) => RisesIn(queue', win.conv),
           RisesIn(batch, win.conv) => RisesIn(batch', win.conv),
           polling' # "reset" => polling # "reset"
    PROVE  Noticed'
<1> SUFFICES ASSUME gen = cgen, polling' # "reset", Attends', win.conv # None, unread'[win.conv] > 0
             PROVE  Comes(win.conv, model, batch', queue')
  BY DEF Noticed
<1>1. win.conv \in Convs
  BY DEF WindowTypes, Windows
<1>2. CASE RisesIn(queue', win.conv)
  BY <1>2 DEF Comes
<1>3. CASE ~RisesIn(queue', win.conv)
  <2>1. unread[win.conv] > 0
    BY <1>1, <1>3
  <2>2. Comes(win.conv, model, batch, queue)
    BY <2>1 DEF Noticed
  <2> QED BY <1>3, <2>2 DEF Comes
<1> QED BY <1>2, <1>3

LEMMA NoticedRead ==
    ASSUME BackendTypes, ClientTypes, RingRuns, Synced, UNCHANGED <<gen, cgen, model>>,
           win' \in Windows, Read(win'.conv, queue),
           Attends' /\ win'.conv \in DOMAIN model \cap bConvs /\ model[win'.conv] > 0 =>
             unread'[win'.conv] = 0
    PROVE  Noticed'
<1> SUFFICES ASSUME gen = cgen, Attends', win'.conv # None, unread'[win'.conv] > 0
             PROVE  Comes(win'.conv, model', batch', queue')
  BY DEF Noticed
<1>1. PICK c : c = win'.conv
  OBVIOUS
<1>2. c \in Convs
  BY <1>1 DEF Windows
<1>3. RisesIn(queue', c)
  BY <1>1, <1>2, ReadThen
<1> QED BY <1>1, <1>3 DEF Comes

LEMMA InvitesKept ==
    ASSUME InvitesFollowed, waiting' \ (asked' \cup dropped') \subseteq waiting \ (asked \cup dropped),
           \A i : InviteIn(queue, i) => InviteIn(queue', i),
           \A i : InviteIn(batch, i) => InviteIn(batch', i) \/ invited',
           invited => invited',
           \A i : LeftIn(todo, i) => LeftIn(todo', i) \/ i \in asked'
    PROVE  InvitesFollowed'
<1> SUFFICES ASSUME NEW i \in waiting' \ (asked' \cup dropped')
             PROVE  InviteIn(queue', i) \/ InviteIn(batch', i) \/ invited' \/ LeftIn(todo', i)
  BY DEF InvitesFollowed
<1>1. InviteIn(queue, i) \/ InviteIn(batch, i) \/ invited \/ LeftIn(todo, i)
  BY DEF InvitesFollowed
<1> QED BY <1>1

-----------------------------------------------------------------------------
(* The window changes, and what it shows then is read if looked at.        *)

\* It is read where somebody attends to it, or it is what was shown before.
Minded ==
    \/ Attends' /\ win'.conv \in DOMAIN model \cap bConvs /\ model[win'.conv] > 0 =>
         unread'[win'.conv] = 0
    \/ /\ win'.conv = win.conv /\ UNCHANGED <<unread, queue, batch>> /\ (Attends' => Attends)
       /\ polling # "reset"

LEMMA ShowStep ==
    ASSUME WinInv, BackendButReads, UNCHANGED <<model, cgen, texts, reborn>>,
           Quieter(batch, batch'), Carried(win, win'), Well(win'), Read(win'.conv, queue), Minded,
           polling' = "reset" \/ polling # "reset" \/ win'.log = LatestOf(win'.conv)
    PROVE  /\ BackendTypes' /\ RingRuns' /\ PendingRuns' /\ LogFollows' /\ Synced' /\ Noticed'
           /\ Window'
           /\ \A i : InviteIn(queue, i) => InviteIn(queue', i)
<1>1. /\ BackendTypes /\ ClientTypes /\ WindowTypes /\ Window /\ RingRuns /\ PendingRuns
      /\ LogFollows /\ Synced
  BY DEF WinInv
<1>2. UNCHANGED <<bAccts, bConvs, ring, last, asking, waiting, gen>>
  BY DEF BackendButReads
<1>3. /\ unread' \in [Convs -> Nat] /\ More(queue, queue')
      /\ queue' \in Seq(Happenings) /\ \A i \in DOMAIN queue' : Known(queue'[i])
      /\ \A i : InviteIn(queue, i) => InviteIn(queue', i)
      /\ \A d \in Convs : unread'[d] = unread[d] \/ unread'[d] = 0
  BY <1>1, ReadQueue
<1>4. BackendTypes'
  BY <1>1, <1>2, <1>3 DEF BackendTypes
<1>5. RingRuns'
  BY <1>1, <1>2, <1>3, RingKept
<1>6. win' \in Windows /\ FromLog(win, win')
  BY DEF Carried
<1>7. PendingRuns' /\ LogFollows'
  BY <1>1, <1>2, <1>3, <1>6, QuietStep
<1>8. Synced'
  <2> SUFFICES ASSUME gen = cgen PROVE Meets(model, queue', bConvs, unread')
    BY <1>2 DEF Synced
  <2>1. PICK q \in Seq(Happenings) : q = queue
    BY <1>1 DEF BackendTypes
  <2>2. PICK m : m = model
    OBVIOUS
  <2>3. PICK c : c = win'.conv
    OBVIOUS
  <2>4. Read(c, q) /\ Meets(m, q, bConvs, unread)
    BY <1>1, <2>1, <2>2, <2>3 DEF Synced
  <2> QED BY <1>1, <2>2, <2>4, ReadSynced
<1>9. Noticed'
  <2>1. CASE Attends' /\ win'.conv \in DOMAIN model \cap bConvs /\ model[win'.conv] > 0 =>
               unread'[win'.conv] = 0
    BY <1>1, <1>2, <1>6, <2>1, NoticedRead
  <2>2. CASE /\ win'.conv = win.conv /\ UNCHANGED <<unread, queue, batch>> /\ (Attends' => Attends)
             /\ polling # "reset"
    <3>1. Noticed
      BY DEF WinInv
    <3> QED BY <1>1, <1>2, <2>2, <3>1, NoticedKept
  <2> QED BY <2>1, <2>2 DEF Minded
<1>10. Window'
  <2>1. RowsOf(win') /\ Lit(win')
    BY DEF Well
  <2>2. PICK ts \in Seq(Text) : ts = texts
    BY <1>1 DEF WindowTypes
  <2>3. TextsAt(win', ts)
    BY <1>1, <2>2 DEF Carried, Window
  <2>4. SentHome'
    BY <1>1 DEF Window, SentHome
  <2> QED BY <2>1, <2>2, <2>3, <2>4 DEF Window
<1> QED BY <1>3, <1>4, <1>5, <1>7, <1>8, <1>9, <1>10

-----------------------------------------------------------------------------
(* The backend goes on: nobody else does.                                  *)

LEMMA OthersStay ==
    ASSUME WinInv, UNCHANGED <<client, window, dlg, todo, texts>>, gen' \in Nat, gen <= gen',
           reborn' \subseteq Convs
    PROVE  ClientTypes' /\ WindowTypes' /\ AtWork' /\ Window' /\ DialogNames'
<1>1. ClientTypes /\ WindowTypes /\ AtWork /\ Window /\ DialogNames
  BY DEF WinInv
<1>2. UNCHANGED <<model, mAccts, cgen, batch, polling, invited, win, pane, front, slipped, dlg, todo, texts>>
  BY DEF client, window
<1>3. ClientTypes'
  <2>1. cgen \in Nat /\ cgen <= gen /\ gen \in Nat
    BY DEF WinInv, ClientTypes, BackendTypes
  <2>2. cgen <= gen'
    BY <2>1
  <2> QED BY <1>1, <1>2, <2>2 DEF ClientTypes
<1>4. WindowTypes'
  BY <1>1, <1>2 DEF WindowTypes
<1>5. AtWork'
  BY <1>1, <1>2 DEF AtWork
<1>6. Window'
  BY <1>1, <1>2 DEF Window, SentHome
<1>7. DialogNames'
  BY <1>1, <1>2 DEF DialogNames, Target
<1> QED BY <1>3, <1>4, <1>5, <1>6, <1>7

\* An event of a kind the model does not take anything from
LEMMA TellsStep ==
    ASSUME WinInv, UNCHANGED <<bAccts, bConvs, last, unread, gen, client, window, dlg, todo, history>>,
           ring' \in [Convs -> SUBSET Nat], \A d \in Convs : ring[d] \subseteq ring'[d],
           RingRuns', asking' \subseteq bConvs, waiting' \subseteq Invites,
           NEW e \in Happenings, Known(e), e.t \notin {"msg", "conv-new", "conv-gone", "unread"},
           queue' = Append(queue, e),
           \A i \in waiting' : i \in waiting \/ (e.t = "invite" /\ e.c = i)
    PROVE  WinInv'
<1>1. /\ BackendTypes /\ ClientTypes /\ WindowTypes /\ Window /\ RingRuns /\ PendingRuns
      /\ LogFollows /\ Synced /\ Noticed /\ InvitesFollowed
  BY DEF WinInv
<1>2. UNCHANGED <<model, mAccts, cgen, batch, polling, invited, win, pane, front, slipped, dlg, todo, texts,
                  asked, dropped, reborn>>
  BY DEF client, window, history
<1>3. PICK q \in Seq(Happenings) : q = queue /\ \A i \in DOMAIN q : Known(q[i])
  BY <1>1 DEF BackendTypes
<1>4. PICK z : z = Append(q, e)
  OBVIOUS
<1>5. More(q, z)
  BY <1>4 DEF More
<1>6. /\ z \in Seq(Happenings) /\ \A i \in DOMAIN z : Known(z[i])
      /\ \A d : RisesIn(q, d) => RisesIn(z, d)
      /\ \A i : InviteIn(q, i) => InviteIn(z, i)
  BY <1>3, <1>5, MoreHas
<1>7. queue' = z
  BY <1>3, <1>4
<1>8. BackendTypes'
  BY <1>1, <1>2, <1>6, <1>7 DEF BackendTypes
<1>9. ClientTypes' /\ WindowTypes' /\ AtWork' /\ Window' /\ DialogNames'
  <2>1. gen' \in Nat /\ gen <= gen' /\ reborn' \subseteq Convs
    BY <1>1, <1>2 DEF BackendTypes, WindowTypes
  <2>2. UNCHANGED <<client, window, dlg, todo, texts>>
    BY <1>2
  <2> QED BY <2>1, <2>2, OthersStay
<1>10. PendingRuns' /\ LogFollows'
  <2>1. win' \in Windows /\ FromLog(win, win')
    BY <1>1, <1>2 DEF WindowTypes, FromLog
  <2>2. Quieter(batch, batch') /\ More(queue, queue')
    BY <1>2, <1>3, <1>5, <1>7 DEF Quieter
  <2> QED BY <1>1, <1>2, <2>1, <2>2, QuietStep
<1>11. Synced'
  <2>1. PICK m : m = model
    OBVIOUS
  <2>2. Applied(m, z) = Applied(m, q)
    BY <1>4, AppliedQuiet
  <2> QED BY <1>1, <1>2, <1>3, <1>7, <2>1, <2>2 DEF Synced, Meets
<1>12. Noticed'
  <2>1. Attends' => Attends
    BY <1>2 DEF Attends, Looking
  <2> QED BY <1>1, <1>2, <1>3, <1>6, <1>7, <2>1, NoticedKept
<1>13. InvitesFollowed'
  <2> SUFFICES ASSUME NEW i \in waiting' \ (asked \cup dropped)
               PROVE  InviteIn(z, i) \/ InviteIn(batch, i) \/ invited \/ LeftIn(todo, i)
    BY <1>2, <1>7 DEF InvitesFollowed
  <2>1. CASE i \in waiting
    BY <1>1, <1>3, <1>6, <2>1 DEF InvitesFollowed
  <2>2. CASE e.t = "invite" /\ e.c = i
    <3>1. InviteIn(z, i)
      BY <1>3, <1>4, <2>2, SomeAppended
    <3> QED BY <3>1
  <2> QED BY <2>1, <2>2
<1> QED BY <1>8, <1>9, <1>10, <1>11, <1>12, <1>13 DEF WinInv

LEMMA RingMerged ==
    ASSUME BackendTypes, RingRuns, NEW c \in bConvs, UNCHANGED <<bConvs, last, unread>>,
           ring' = [ring EXCEPT ![c] = 1 .. last[c]]
    PROVE  ring' \in [Convs -> SUBSET Nat] /\ (\A d \in Convs : ring[d] \subseteq ring'[d]) /\ RingRuns'
<1>1. c \in Convs /\ last[c] \in Nat /\ 1 .. last[c] \subseteq Nat
  BY DEF BackendTypes
<1>2. ring' \in [Convs -> SUBSET Nat]
  BY <1>1 DEF BackendTypes
<1>3. ASSUME NEW d \in Convs PROVE ring[d] \subseteq ring'[d]
  <2>1. \A m \in ring[d] : m \in 1 .. last[d]
    BY DEF RingRuns
  <2>2. ring'[d] = IF d = c THEN 1 .. last[c] ELSE ring[d]
    BY DEF BackendTypes
  <2> QED BY <2>1, <2>2
<1>4. ASSUME NEW d \in Convs
      PROVE  /\ d \notin bConvs => ring'[d] = {} /\ unread[d] = 0
             /\ \A m \in ring'[d] : m \in 1 .. last[d] /\ m .. last[d] \subseteq ring'[d]
  <2>1. CASE d = c
    <3>1. ring'[d] = 1 .. last[d]
      BY <1>1, <2>1 DEF BackendTypes
    <3>2. last[d] \in Nat
      BY DEF BackendTypes
    <3> QED BY <2>1, <3>1, <3>2
  <2>2. CASE d # c
    <3>1. ring'[d] = ring[d]
      BY <2>2 DEF BackendTypes
    <3> QED BY <3>1 DEF RingRuns
  <2> QED BY <2>1, <2>2
<1> QED BY <1>2, <1>3, <1>4 DEF RingRuns

LEMMA RingSame ==
    ASSUME BackendTypes, RingRuns, UNCHANGED <<bConvs, last, unread, ring>>
    PROVE  ring' \in [Convs -> SUBSET Nat] /\ (\A d \in Convs : ring[d] \subseteq ring'[d]) /\ RingRuns'
BY DEF RingRuns, BackendTypes

LEMMA MergesLatestKeeps ==
    ASSUME WinInv, NEW c \in Convs, MergesLatest(c) PROVE WinInv'
<1>1. BackendTypes /\ RingRuns
  BY DEF WinInv
<1>2. /\ c \in bConvs /\ ring' = [ring EXCEPT ![c] = 1 .. last[c]]
      /\ queue' = Append(queue, Event("history latest", c, 0))
      /\ UNCHANGED <<bAccts, bConvs, last, unread, asking, waiting, gen, client, window, dlg, todo, history>>
  BY DEF MergesLatest
<1>3. PICK e : e = Event("history latest", c, 0)
  OBVIOUS
<1>4. e \in Happenings /\ Known(e) /\ e.t = "history latest"
  BY <1>3 DEF Event, Happenings, Known
<1>5. asking' \subseteq bConvs /\ waiting' \subseteq Invites
  BY <1>1, <1>2 DEF BackendTypes
<1>6. ring' \in [Convs -> SUBSET Nat] /\ (\A d \in Convs : ring[d] \subseteq ring'[d]) /\ RingRuns'
  BY <1>1, <1>2, RingMerged
<1> QED BY <1>2, <1>3, <1>4, <1>5, <1>6, TellsStep

LEMMA MergesBeforeKeeps ==
    ASSUME WinInv, NEW c \in Convs, MergesBefore(c) PROVE WinInv'
<1>1. BackendTypes /\ RingRuns
  BY DEF WinInv
<1>2. /\ c \in asking /\ asking' = asking \ {c} /\ ring' = [ring EXCEPT ![c] = 1 .. last[c]]
      /\ queue' = Append(queue, Event("history before", c, 0))
      /\ UNCHANGED <<bAccts, bConvs, last, unread, waiting, gen, client, window, dlg, todo, history>>
  BY DEF MergesBefore
<1>3. PICK e : e = Event("history before", c, 0)
  OBVIOUS
<1>4. e \in Happenings /\ Known(e) /\ e.t = "history before"
  BY <1>3 DEF Event, Happenings, Known
<1>5. c \in bConvs /\ asking' \subseteq bConvs /\ waiting' \subseteq Invites
  BY <1>1, <1>2 DEF BackendTypes
<1>6. ring' \in [Convs -> SUBSET Nat] /\ (\A d \in Convs : ring[d] \subseteq ring'[d]) /\ RingRuns'
  BY <1>1, <1>2, <1>5, RingMerged
<1> QED BY <1>2, <1>3, <1>4, <1>5, <1>6, TellsStep

LEMMA AccountStateKeeps ==
    ASSUME WinInv, NEW a \in Accts, AccountState(a) PROVE WinInv'
<1>1. BackendTypes /\ RingRuns
  BY DEF WinInv
<1>2. /\ queue' = Append(queue, Event("state", a, 0))
      /\ UNCHANGED <<bAccts, bConvs, ring, last, unread, asking, waiting, gen, client, window, dlg, todo, history>>
  BY DEF AccountState
<1>3. PICK e : e = Event("state", a, 0)
  OBVIOUS
<1>4. e \in Happenings /\ Known(e) /\ e.t = "state"
  BY <1>3 DEF Event, Happenings, Known
<1>5. asking' \subseteq bConvs /\ waiting' \subseteq Invites
  BY <1>1, <1>2 DEF BackendTypes
<1>6. ring' \in [Convs -> SUBSET Nat] /\ (\A d \in Convs : ring[d] \subseteq ring'[d]) /\ RingRuns'
  BY <1>1, <1>2, RingSame
<1> QED BY <1>2, <1>3, <1>4, <1>5, <1>6, TellsStep

LEMMA InviteComesKeeps ==
    ASSUME WinInv, NEW i \in Invites, InviteComes(i) PROVE WinInv'
<1>1. BackendTypes /\ RingRuns
  BY DEF WinInv
<1>2. /\ waiting' = waiting \cup {i} /\ queue' = Append(queue, Event("invite", i, 0))
      /\ UNCHANGED <<bAccts, bConvs, ring, last, unread, asking, gen, client, window, dlg, todo, history>>
  BY DEF InviteComes
<1>3. PICK e : e = Event("invite", i, 0)
  OBVIOUS
<1>4. e \in Happenings /\ Known(e) /\ e.t = "invite" /\ e.c = i
  BY <1>3 DEF Event, Happenings, Known
<1>5. asking' \subseteq bConvs /\ waiting' \subseteq Invites
  BY <1>1, <1>2 DEF BackendTypes
<1>6. ring' \in [Convs -> SUBSET Nat] /\ (\A d \in Convs : ring[d] \subseteq ring'[d]) /\ RingRuns'
  BY <1>1, <1>2, RingSame
<1> QED BY <1>2, <1>3, <1>4, <1>5, <1>6, TellsStep

-----------------------------------------------------------------------------
(* A conversation comes or goes.                                           *)

LEMMA EventMore ==
    ASSUME BackendTypes, NEW e \in Happenings, Known(e), e.t # "msg", queue' = Append(queue, e)
    PROVE  /\ More(queue, queue') /\ queue' \in Seq(Happenings)
           /\ \A i \in DOMAIN queue' : Known(queue'[i])
           /\ \A d : RisesIn(queue, d) => RisesIn(queue', d)
           /\ \A i : InviteIn(queue, i) => InviteIn(queue', i)
<1>1. PICK q \in Seq(Happenings) : q = queue /\ \A i \in DOMAIN q : Known(q[i])
  BY DEF BackendTypes
<1>2. PICK z : z = queue'
  OBVIOUS
<1>3. More(q, z)
  BY <1>1, <1>2 DEF More
<1>4. /\ z \in Seq(Happenings) /\ \A i \in DOMAIN z : Known(z[i])
      /\ \A d : RisesIn(q, d) => RisesIn(z, d)
      /\ \A i : InviteIn(q, i) => InviteIn(z, i)
  BY <1>1, <1>3, MoreHas
<1> QED BY <1>1, <1>2, <1>3, <1>4

LEMMA SameQueue ==
    ASSUME BackendTypes, queue' = queue
    PROVE  /\ More(queue, queue') /\ queue' \in Seq(Happenings)
           /\ \A i \in DOMAIN queue' : Known(queue'[i])
           /\ \A d : RisesIn(queue, d) => RisesIn(queue', d)
           /\ \A i : InviteIn(queue, i) => InviteIn(queue', i)
BY DEF BackendTypes, More

Aside == UNCHANGED <<bAccts, last, gen, model, cgen, batch, win, pane, front, slipped>>
         /\ waiting' \subseteq waiting /\ (polling' = polling \/ polling # "reset")

LEMMA OpenedStep ==
    ASSUME WinInv, NEW c \in Convs, Opened(c), Aside
    PROVE  /\ BackendTypes' /\ RingRuns' /\ PendingRuns' /\ LogFollows' /\ Synced' /\ Noticed'
           /\ \A i : InviteIn(queue, i) => InviteIn(queue', i)
<1>1. /\ BackendTypes /\ ClientTypes /\ WindowTypes /\ RingRuns /\ PendingRuns
      /\ LogFollows /\ Synced /\ Noticed
  BY DEF WinInv
<1>2. /\ bConvs' = bConvs \cup {c} /\ UNCHANGED <<ring, unread, gotAll, asking, reborn>>
      /\ queue' = IF c \in bConvs THEN queue ELSE Append(queue, Event("conv-new", c, 0))
  BY DEF Opened
<1>3. UNCHANGED <<bAccts, last, gen, model, cgen, batch, win, pane, front, slipped>>
      /\ waiting' \subseteq waiting /\ (polling' = polling \/ polling # "reset")
  BY DEF Aside
<1>4. PICK e : e = Event("conv-new", c, 0)
  OBVIOUS
<1>5. e \in Happenings /\ e.t = "conv-new" /\ e.c = c /\ e.n = 0
  BY <1>4 DEF Event, Happenings
<1>6. Known(e)
  BY <1>5 DEF Known
<1>7. /\ More(queue, queue') /\ queue' \in Seq(Happenings)
      /\ \A i \in DOMAIN queue' : Known(queue'[i])
      /\ \A d : RisesIn(queue, d) => RisesIn(queue', d)
      /\ \A i : InviteIn(queue, i) => InviteIn(queue', i)
  <2>1. CASE c \in bConvs
    BY <1>1, <1>2, <2>1, SameQueue
  <2>2. CASE c \notin bConvs
    BY <1>1, <1>2, <1>4, <1>5, <1>6, <2>2, EventMore
  <2> QED BY <2>1, <2>2
<1>8. BackendTypes'
  BY <1>1, <1>2, <1>3, <1>7 DEF BackendTypes
<1>9. RingRuns'
  BY <1>1, <1>2, <1>3 DEF RingRuns
<1>10. PendingRuns' /\ LogFollows'
  <2>1. win' \in Windows /\ FromLog(win, win')
    BY <1>1, <1>3 DEF WindowTypes, FromLog
  <2>2. Quieter(batch, batch') /\ \A d \in Convs : ring[d] \subseteq ring'[d]
    BY <1>2, <1>3 DEF Quieter
  <2> QED BY <1>1, <1>2, <1>3, <1>7, <2>1, <2>2, QuietStep
<1>11. Synced'
  <2> SUFFICES ASSUME gen = cgen PROVE Meets(model, queue', bConvs', unread)
    BY <1>2, <1>3 DEF Synced
  <2>1. CASE c \in bConvs
    <3>1. bConvs' = bConvs
      BY <1>2, <2>1
    <3> QED BY <1>1, <1>2, <2>1, <3>1 DEF Synced
  <2>2. CASE c \notin bConvs
    <3>1. PICK q \in Seq(Happenings) : q = queue
      BY <1>1 DEF BackendTypes
    <3>2. PICK B \in SUBSET Convs : B = bConvs
      BY <1>1 DEF BackendTypes
    <3>3. PICK u \in [Convs -> Nat] : u = unread
      BY <1>1 DEF BackendTypes
    <3>4. PICK m : m = model
      OBVIOUS
    <3>5. Meets(m, q, B, u) /\ c \in Convs \ B /\ u[c] = 0
      BY <1>1, <2>2, <3>1, <3>2, <3>3, <3>4 DEF Synced, RingRuns
    <3>6. Meets(m, Append(q, e), B \cup {c}, u)
      BY <1>5, <3>5, AppliedNew
    <3> QED BY <1>2, <1>4, <2>2, <3>1, <3>2, <3>3, <3>4, <3>6
  <2> QED BY <2>1, <2>2
<1>12. Noticed'
  <2>1. Attends' => Attends
    BY <1>3 DEF Attends, Looking
  <2> QED BY <1>1, <1>2, <1>3, <1>7, <2>1, NoticedKept
<1> QED BY <1>7, <1>8, <1>9, <1>10, <1>11, <1>12

LEMMA RemovedStep ==
    ASSUME WinInv, NEW c \in bConvs, Removed(c), Aside
    PROVE  /\ BackendTypes' /\ RingRuns' /\ PendingRuns' /\ LogFollows' /\ Synced' /\ Noticed'
           /\ \A i : InviteIn(queue, i) => InviteIn(queue', i)
           /\ reborn' \subseteq Convs
<1>1. /\ BackendTypes /\ ClientTypes /\ WindowTypes /\ RingRuns /\ PendingRuns
      /\ LogFollows /\ Synced /\ Noticed
  BY DEF WinInv
<1>2. /\ bConvs' = bConvs \ {c} /\ queue' = Append(queue, Event("conv-gone", c, 0))
      /\ ring' = [ring EXCEPT ![c] = {}] /\ unread' = [unread EXCEPT ![c] = 0]
      /\ asking' = asking \ {c}
      /\ reborn' = IF Pending(c) = {} THEN reborn ELSE reborn \cup {c}
  BY DEF Removed
<1>3. UNCHANGED <<bAccts, last, gen, model, cgen, batch, win, pane, front, slipped>>
      /\ waiting' \subseteq waiting /\ (polling' = polling \/ polling # "reset")
  BY DEF Aside
<1>0. c \in Convs /\ bConvs \subseteq Convs
  BY <1>1 DEF BackendTypes
<1>4. PICK e : e = Event("conv-gone", c, 0)
  OBVIOUS
<1>5. e \in Happenings /\ e.t = "conv-gone" /\ e.c = c
  BY <1>0, <1>4 DEF Event, Happenings
<1>6. Known(e)
  BY <1>0, <1>5 DEF Known
<1>7. /\ More(queue, queue') /\ queue' \in Seq(Happenings)
      /\ \A i \in DOMAIN queue' : Known(queue'[i])
      /\ \A d : RisesIn(queue, d) => RisesIn(queue', d)
      /\ \A i : InviteIn(queue, i) => InviteIn(queue', i)
  BY <1>1, <1>2, <1>4, <1>5, <1>6, EventMore
<1>8. BackendTypes'
  <2>1. ring' \in [Convs -> SUBSET Nat] /\ unread' \in [Convs -> Nat] /\ bConvs' \subseteq Convs
        /\ asking' \subseteq bConvs'
    BY <1>0, <1>1, <1>2 DEF BackendTypes
  <2> QED BY <1>1, <1>3, <1>7, <2>1 DEF BackendTypes
<1>9. RingRuns'
  <2>1. ASSUME NEW d \in Convs
        PROVE  /\ d \notin bConvs' => ring'[d] = {} /\ unread'[d] = 0
               /\ \A m \in ring'[d] : m \in 1 .. last[d] /\ m .. last[d] \subseteq ring'[d]
    <3>1. CASE d = c
      <4>1. ring'[d] = {} /\ unread'[d] = 0
        BY <1>0, <1>1, <1>2, <3>1 DEF BackendTypes
      <4> QED BY <4>1
    <3>2. CASE d # c
      <4>1. ring'[d] = ring[d] /\ unread'[d] = unread[d] /\ (d \in bConvs' <=> d \in bConvs)
        BY <1>0, <1>1, <1>2, <3>2 DEF BackendTypes
      <4> QED BY <1>1, <4>1 DEF RingRuns
    <3> QED BY <3>1, <3>2
  <2> QED BY <1>3, <2>1 DEF RingRuns
<1>10. PendingRuns' /\ LogFollows'
  <2> SUFFICES ASSUME gen = cgen
               PROVE  /\ Pend(batch \o queue', last, ring', reborn')
                      /\ polling' # "reset" => Follow(win, batch \o queue', last, reborn')
    BY <1>3 DEF PendingRuns, LogFollows, ToTell
  <2>1. PICK b \in Seq(Happenings) : b = batch
    BY <1>1 DEF ClientTypes
  <2>2. PICK q \in Seq(Happenings) : q = queue
    BY <1>1 DEF BackendTypes
  <2>3. PICK l \in [Convs -> Nat] : l = last
    BY <1>1 DEF BackendTypes
  <2>4. PICK w \in Windows : w = win
    BY <1>1 DEF WindowTypes
  <2>5. PICK rb : rb = reborn'
    OBVIOUS
  <2>6. PICK r : r = ring'
    OBVIOUS
  <2>7. PICK z : z = queue'
    OBVIOUS
  <2>8. Pend(b \o q, l, r, rb)
    <3>1. Pend(b \o q, l, ring, reborn)
      BY <1>1, <2>1, <2>2, <2>3 DEF PendingRuns, ToTell
    <3>2. ASSUME NEW d \in Convs, d \notin rb
          PROVE  \/ d \notin reborn /\ ring[d] \subseteq r[d]
                 \/ \A i \in DOMAIN (b \o q) : ~MsgOf((b \o q)[i], d)
      <4>1. CASE d = c
        <5>1. Pending(d) = {}
          BY <1>2, <2>5, <3>2, <4>1
        <5> QED BY <2>1, <2>2, <5>1 DEF Pending, MsgOf, ToTell
      <4>2. CASE d # c
        <5>1. d \notin reborn
          BY <1>2, <2>5, <3>2
        <5>2. r[d] = ring[d]
          BY <1>1, <1>2, <2>6, <4>2 DEF BackendTypes
        <5> QED BY <5>1, <5>2
      <4> QED BY <4>1, <4>2
    <3>3. PICK t : t = b \o q
      OBVIOUS
    <3>4. PICK ro : ro = reborn
      OBVIOUS
    <3>5. PICK so : so = ring
      OBVIOUS
    <3> QED BY <3>1, <3>2, <3>3, <3>4, <3>5, PendRing
  <2>9. Quieter(b, b) /\ More(q, z)
    BY <1>7, <2>2, <2>7 DEF Quieter
  <2>10. Pend(b \o z, l, r, rb) /\ (Follow(w, b \o q, l, rb) => Follow(w, b \o z, l, rb))
    BY <2>8, <2>9, TellsQuietly
  <2>11. polling' # "reset" => Follow(w, b \o q, l, rb)
    <3>1. polling' # "reset" => Follow(win, batch \o queue, last, reborn)
      BY <1>1, <1>3 DEF LogFollows, ToTell
    <3>2. reborn \subseteq rb
      BY <1>2, <2>5
    <3> QED BY <2>1, <2>2, <2>3, <2>4, <3>1, <3>2 DEF Follow
  <2> QED BY <2>1, <2>3, <2>4, <2>5, <2>6, <2>7, <2>10, <2>11
<1>11. Synced'
  <2> SUFFICES ASSUME gen = cgen PROVE Meets(model, queue', bConvs', unread')
    BY <1>3 DEF Synced
  <2>1. PICK q \in Seq(Happenings) : q = queue
    BY <1>1 DEF BackendTypes
  <2>2. PICK B \in SUBSET Convs : B = bConvs
    BY <1>1 DEF BackendTypes
  <2>3. PICK u \in [Convs -> Nat] : u = unread
    BY <1>1 DEF BackendTypes
  <2>4. PICK m : m = model
    OBVIOUS
  <2>5. PICK v : v = [u EXCEPT ![c] = 0]
    OBVIOUS
  <2>6. Meets(m, q, B, u) /\ c \in B
    BY <1>1, <2>1, <2>2, <2>3, <2>4 DEF Synced
  <2>7. Meets(m, Append(q, e), B \ {c}, v)
    BY <1>5, <2>5, <2>6, AppliedGone
  <2> QED BY <1>2, <1>4, <2>1, <2>2, <2>3, <2>4, <2>5, <2>7
<1>12. Noticed'
  <2>1. Attends' => Attends
    BY <1>3 DEF Attends, Looking
  <2>2. \A d \in Convs : unread'[d] = unread[d] \/ unread'[d] = 0
    BY <1>1, <1>2 DEF BackendTypes
  <2> QED BY <1>1, <1>3, <1>7, <2>1, <2>2, NoticedKept
<1>13. reborn' \subseteq Convs
  BY <1>0, <1>1, <1>2 DEF WindowTypes
<1> QED BY <1>7, <1>8, <1>9, <1>10, <1>11, <1>12, <1>13

LEMMA ConvComesOrGoesKeeps ==
    ASSUME WinInv, NEW c \in Convs, ConvComesOrGoes(c) PROVE WinInv'
<1>1. UNCHANGED <<bAccts, last, waiting, gen, client, window, dlg, todo, texts, asked, dropped>>
  BY DEF ConvComesOrGoes
<1>2. UNCHANGED <<model, mAccts, cgen, batch, polling, invited, win, pane, front, slipped>>
  BY <1>1 DEF client, window
<1>3. Aside
  BY <1>1, <1>2 DEF Aside
<1>4. /\ BackendTypes' /\ RingRuns' /\ PendingRuns' /\ LogFollows' /\ Synced' /\ Noticed'
      /\ \A i : InviteIn(queue, i) => InviteIn(queue', i)
      /\ reborn' \subseteq Convs
  <2>1. CASE c \in bConvs
    <3>1. Removed(c)
      BY <2>1 DEF ConvComesOrGoes
    <3> QED BY <1>3, <2>1, <3>1, RemovedStep
  <2>2. CASE c \notin bConvs
    <3>1. Opened(c)
      BY <2>2 DEF ConvComesOrGoes
    <3>2. reborn' \subseteq Convs
      BY <3>1 DEF Opened, WinInv, WindowTypes
    <3> QED BY <1>3, <3>1, <3>2, OpenedStep
  <2> QED BY <2>1, <2>2
<1>5. ClientTypes' /\ WindowTypes' /\ AtWork' /\ Window' /\ DialogNames'
  <2>1. gen' \in Nat /\ gen <= gen'
    BY <1>1 DEF WinInv, BackendTypes
  <2>2. UNCHANGED <<client, window, dlg, todo, texts>>
    BY <1>1
  <2> QED BY <1>4, <2>1, <2>2, OthersStay
<1>6. InvitesFollowed'
  <2>1. InvitesFollowed
    BY DEF WinInv
  <2> QED BY <1>1, <1>2, <1>4, <2>1, InvitesKept
<1> QED BY <1>4, <1>5, <1>6 DEF WinInv

-----------------------------------------------------------------------------
(* A message comes.                                                        *)

LEMMA WithinQuiet ==
    ASSUME NEW b \in Seq(Happenings), NEW q \in Seq(Happenings), NEW z, More(q, z), NEW c, NEW r,
           Within(b \o q, c, r)
    PROVE  Within(b \o z, c, r)
<1>1. CASE z = q
  BY <1>1
<1>2. CASE z # q
  <2>1. PICK e \in Happenings : e.t # "msg" /\ z = Append(q, e)
    BY <1>2 DEF More
  <2>2. PICK t \in Seq(Happenings) : t = b \o q
    BY JoinSeq
  <2>3. b \o z = Append(t, e)
    BY <2>1, <2>2, JoinMore
  <2>4. ~MsgOf(e, c)
    BY <2>1 DEF MsgOf
  <2>5. Within(Append(t, e), c, r)
    BY <2>2, <2>4, WithinMore
  <2> QED BY <2>3, <2>5
<1> QED BY <1>1, <1>2

\* Its event may have others before and after it: q is the queue until then.
Says(c, q, e) ==
    /\ Few(c) /\ More(queue, q) /\ More(Append(q, e), queue')
    /\ Known(e) /\ e.t = "msg" /\ e.c = c /\ e.n = last[c] + 1
    /\ last' = [last EXCEPT ![c] = last[c] + 1]
    /\ ring' = [ring EXCEPT ![c] = ring[c] \cup {last[c] + 1}]
    /\ bConvs' = bConvs \cup {c}

LEMMA SaysRing ==
    ASSUME BackendTypes, RingRuns, NEW c \in Convs, NEW q, NEW e \in Happenings, Says(c, q, e),
           \A d \in Convs : d \notin bConvs' => unread'[d] = 0
    PROVE  /\ last' \in [Convs -> Nat] /\ ring' \in [Convs -> SUBSET Nat] /\ RingRuns'
           /\ bConvs' \subseteq Convs /\ bConvs \subseteq bConvs'
<1>1. /\ last' = [last EXCEPT ![c] = last[c] + 1]
      /\ ring' = [ring EXCEPT ![c] = ring[c] \cup {last[c] + 1}]
      /\ bConvs' = bConvs \cup {c}
  BY DEF Says
<1>2. last[c] \in Nat /\ ring[c] \subseteq Nat
  BY DEF BackendTypes
<1>3. last' \in [Convs -> Nat] /\ ring' \in [Convs -> SUBSET Nat]
  BY <1>1, <1>2 DEF BackendTypes
<1>4. ASSUME NEW d \in Convs
      PROVE  /\ d \notin bConvs' => ring'[d] = {} /\ unread'[d] = 0
             /\ \A m \in ring'[d] : m \in 1 .. last'[d] /\ m .. last'[d] \subseteq ring'[d]
  <2>1. CASE d = c
    <3>1. PICK l \in Nat : l = last[c]
      BY <1>2
    <3>2. PICK r : r = ring[c]
      OBVIOUS
    <3>3. ring'[d] = r \cup {l + 1} /\ last'[d] = l + 1 /\ d \in bConvs'
      BY <1>1, <2>1, <3>1, <3>2 DEF BackendTypes
    <3>4. \A m \in r : m \in 1 .. l /\ m .. l \subseteq r
      BY <3>1, <3>2 DEF RingRuns
    <3>5. ASSUME NEW m \in r \cup {l + 1}
          PROVE  m \in 1 .. l + 1 /\ m .. l + 1 \subseteq r \cup {l + 1}
      <4>1. CASE m = l + 1
        BY <4>1
      <4>2. CASE m \in r
        <5>1. m \in 1 .. l /\ m .. l \subseteq r
          BY <3>4, <4>2
        <5>2. \A k \in m .. l + 1 : k = l + 1 \/ k \in m .. l
          BY <5>1
        <5> QED BY <5>1, <5>2
      <4> QED BY <4>1, <4>2
    <3> QED BY <3>3, <3>5
  <2>2. CASE d # c
    <3>1. ring'[d] = ring[d] /\ last'[d] = last[d]
      BY <1>1, <2>2 DEF BackendTypes
    <3>2. d \notin bConvs' => d \notin bConvs
      BY <1>1
    <3> QED BY <3>1, <3>2 DEF RingRuns
  <2> QED BY <2>1, <2>2
<1>5. bConvs' \subseteq Convs /\ bConvs \subseteq bConvs'
  BY <1>1 DEF BackendTypes
<1> QED BY <1>3, <1>4, <1>5 DEF RingRuns

LEMMA SaysQueue ==
    ASSUME BackendTypes, NEW c \in Convs, NEW q, NEW e \in Happenings, Says(c, q, e)
    PROVE  /\ q \in Seq(Happenings) /\ Append(q, e) \in Seq(Happenings)
           /\ queue' \in Seq(Happenings) /\ \A i \in DOMAIN queue' : Known(queue'[i])
           /\ \A d : RisesIn(queue, d) => RisesIn(queue', d)
           /\ \A i : InviteIn(queue, i) => InviteIn(queue', i)
<1>1. PICK p \in Seq(Happenings) : p = queue /\ \A i \in DOMAIN p : Known(p[i])
  BY DEF BackendTypes
<1>2. More(p, q) /\ More(Append(q, e), queue') /\ Known(e)
  BY <1>1 DEF Says
<1>3. /\ q \in Seq(Happenings) /\ \A i \in DOMAIN q : Known(q[i])
      /\ \A d : RisesIn(p, d) => RisesIn(q, d)
      /\ \A i : InviteIn(p, i) => InviteIn(q, i)
  BY <1>1, <1>2, MoreHas
<1>4. PICK y : y = Append(q, e)
  OBVIOUS
<1>5. y \in Seq(Happenings)
  BY <1>3, <1>4, Appended
<1>6. /\ \A i \in DOMAIN y : Known(y[i])
      /\ \A d : RisesIn(q, d) => RisesIn(y, d)
      /\ \A i : InviteIn(q, i) => InviteIn(y, i)
  BY <1>2, <1>3, <1>4, SomeAppended
<1>7. PICK z : z = queue'
  OBVIOUS
<1>8. More(y, z)
  BY <1>2, <1>4, <1>7
<1>9. /\ z \in Seq(Happenings) /\ \A i \in DOMAIN z : Known(z[i])
      /\ \A d : RisesIn(y, d) => RisesIn(z, d)
      /\ \A i : InviteIn(y, i) => InviteIn(z, i)
  BY <1>5, <1>6, <1>8, MoreHas
<1> QED BY <1>1, <1>3, <1>4, <1>5, <1>6, <1>7, <1>9

LEMMA MoreIsLess ==
    ASSUME NEW b \in Seq(Happenings), NEW q \in Seq(Happenings), NEW z, More(q, z),
           NEW l \in [Convs -> Nat], NEW r, NEW rb, NEW w \in Windows, Pend(b \o q, l, r, rb)
    PROVE  Pend(b \o z, l, r, rb) /\ (Follow(w, b \o q, l, rb) => Follow(w, b \o z, l, rb))
<1>1. Quieter(b, b)
  BY DEF Quieter
<1> QED BY <1>1, TellsQuietly

LEMMA SaysMessages ==
    ASSUME BackendTypes, ClientTypes, WindowTypes, PendingRuns, LogFollows,
           NEW c \in Convs, NEW q, NEW e \in Happenings, Says(c, q, e),
           UNCHANGED <<gen, cgen, batch, reborn>>,
           win' \in Windows, win'.conv = win.conv, win'.log = win.log,
           polling' = polling \/ polling # "reset"
    PROVE  PendingRuns' /\ LogFollows'
<1> SUFFICES ASSUME gen = cgen
             PROVE  /\ Pend(batch \o queue', last', ring', reborn)
                    /\ polling' # "reset" => Follow(win', batch \o queue', last', reborn)
  BY DEF PendingRuns, LogFollows, ToTell
<1>1. PICK b \in Seq(Happenings) : b = batch
  BY DEF ClientTypes
<1>2. PICK p \in Seq(Happenings) : p = queue
  BY DEF BackendTypes
<1>3. PICK l \in [Convs -> Nat] : l = last
  BY DEF BackendTypes
<1>4. PICK r \in [Convs -> SUBSET Nat] : r = ring
  BY DEF BackendTypes
<1>5. PICK rb : rb = reborn
  OBVIOUS
<1>6. PICK w \in Windows : w = win'
  OBVIOUS
<1>7. PICK k : k = last'
  OBVIOUS
<1>8. PICK s : s = ring'
  OBVIOUS
<1>9. PICK z : z = queue'
  OBVIOUS
<1>10. q \in Seq(Happenings) /\ Append(q, e) \in Seq(Happenings)
  BY SaysQueue
<1>11. /\ More(p, q) /\ More(Append(q, e), z) /\ e.t = "msg" /\ e.c = c /\ e.n = l[c] + 1
       /\ k = [l EXCEPT ![c] = l[c] + 1] /\ s = [r EXCEPT ![c] = r[c] \cup {l[c] + 1}]
  BY <1>2, <1>3, <1>4, <1>7, <1>8, <1>9 DEF Says
<1>12. Quieter(b, b)
  BY DEF Quieter
<1>13. Pend(b \o p, l, r, rb)
  BY <1>1, <1>2, <1>3, <1>4, <1>5 DEF PendingRuns, ToTell
<1>14. polling' # "reset" => Follow(w, b \o p, l, rb)
  <2>1. polling' # "reset" => Follow(win, b \o p, l, rb)
    BY <1>1, <1>2, <1>3, <1>5 DEF LogFollows, ToTell
  <2> QED BY <1>6, <2>1 DEF Follow
<1>15. Pend(b \o q, l, r, rb) /\ (Follow(w, b \o p, l, rb) => Follow(w, b \o q, l, rb))
  BY <1>11, <1>12, <1>13, TellsQuietly
<1>16. PICK t \in Seq(Happenings) : t = b \o q
  BY <1>10, JoinSeq
<1>17. \A i \in DOMAIN t : MsgOf(t[i], c) => l[c] + 1 < t[i].n + Page
  <2> DEFINE F == {n \in Nat : l[c] + 1 < n + Page}
  <2>1. PICK u \in Seq(Happenings) : u = b \o p
    BY JoinSeq
  <2>2. \A i \in DOMAIN u : MsgOf(u[i], c) => l[c] + 1 < u[i].n + Page
    BY <1>1, <1>2, <1>3, <2>1 DEF Says, Few, Pending, ToTell, MsgOf
  <2>3. \A i \in DOMAIN u : u[i].n \in Nat
    <3>1. \A i \in DOMAIN u : u[i] \in Happenings
      OBVIOUS
    <3> QED BY <3>1 DEF Happenings
  <2>4. Within(u, c, F)
    BY <2>2, <2>3 DEF Within
  <2> HIDE DEF F
  <2>5. Within(t, c, F)
    BY <1>10, <1>11, <1>16, <2>1, <2>4, WithinQuiet
  <2> QED BY <2>5 DEF Within, F
<1>18. Pend(Append(t, e), k, s, rb)
  BY <1>11, <1>15, <1>16, <1>17, PendMsg
<1>19. Follow(w, t, l, rb) => Follow(w, Append(t, e), k, rb)
  BY <1>11, FollowMsg
<1>20. PICK y \in Seq(Happenings) : y = Append(q, e)
  BY <1>10
<1>21. b \o y = Append(t, e) /\ k \in [Convs -> Nat]
  <2>1. b \o y = Append(t, e)
    BY <1>10, <1>16, <1>20, JoinMore
  <2>2. l[c] + 1 \in Nat
    OBVIOUS
  <2> QED BY <1>11, <2>1, <2>2
<1>22. Pend(b \o z, k, s, rb) /\ (Follow(w, b \o y, k, rb) => Follow(w, b \o z, k, rb))
  <2>1. Pend(b \o y, k, s, rb) /\ More(y, z)
    BY <1>11, <1>18, <1>20, <1>21
  <2>2. PICK h \in [Convs -> Nat] : h = k
    BY <1>21
  <2>3. Pend(b \o y, h, s, rb)
    BY <2>1, <2>2
  <2>4. Pend(b \o z, h, s, rb) /\ (Follow(w, b \o y, h, rb) => Follow(w, b \o z, h, rb))
    BY <2>1, <2>3, MoreIsLess
  <2> QED BY <2>2, <2>4
<1> QED BY <1>1, <1>5, <1>6, <1>7, <1>8, <1>9, <1>14, <1>15, <1>16, <1>19, <1>21, <1>22

LEMMA SaidEvent ==
    ASSUME BackendTypes, NEW c \in Convs
    PROVE  /\ Event("msg", c, last[c] + 1) \in Happenings /\ Known(Event("msg", c, last[c] + 1))
           /\ Event("msg", c, last[c] + 1).t = "msg" /\ Event("msg", c, last[c] + 1).c = c
           /\ Event("msg", c, last[c] + 1).n = last[c] + 1
<1>1. last[c] + 1 \in Nat
  BY DEF BackendTypes
<1> QED BY <1>1 DEF Event, Happenings, Known

\* Another's message counts as unread, and that is told after it.
LEMMA add_messageKeeps ==
    ASSUME WinInv, NEW c \in Convs, add_message(c) PROVE WinInv'
<1>1. /\ BackendTypes /\ ClientTypes /\ WindowTypes /\ RingRuns /\ PendingRuns
      /\ LogFollows /\ Synced /\ Noticed /\ InvitesFollowed
  BY DEF WinInv
<1>2. PICK q \in Seq(Happenings) : q = queue /\ \A i \in DOMAIN q : Known(q[i])
  BY <1>1 DEF BackendTypes
<1>3. PICK e \in Happenings : e = Event("msg", c, last[c] + 1) /\ Known(e) /\ e.t = "msg" /\ e.c = c
                              /\ e.n = last[c] + 1
  BY <1>1, SaidEvent
<1>4. last[c] \in Nat /\ unread[c] + 1 \in Nat /\ unread[c] \in Nat
  BY <1>1 DEF BackendTypes
<1>5. PICK f : f = Event("unread", c, unread[c] + 1)
  OBVIOUS
<1>6. f \in Happenings /\ f.t = "unread" /\ f.c = c /\ f.n = unread[c] + 1
  BY <1>4, <1>5 DEF Event, Happenings
<1>7. Known(f)
  BY <1>6 DEF Known
<1>8. /\ c \in bConvs /\ Few(c) /\ last' = [last EXCEPT ![c] = last[c] + 1]
      /\ ring' = [ring EXCEPT ![c] = ring[c] \cup {last'[c]}]
      /\ unread' = [unread EXCEPT ![c] = unread[c] + 1]
      /\ queue' = (queue \o <<Event("msg", c, last'[c])>>) \o <<Event("unread", c, unread'[c])>>
      /\ UNCHANGED <<bAccts, bConvs, gotAll, asking, waiting, gen, client, window, dlg, todo, history>>
  BY DEF add_message, Added
<1>9. last'[c] = last[c] + 1 /\ unread'[c] = unread[c] + 1
  BY <1>1, <1>8 DEF BackendTypes
<1>10. PICK y \in Seq(Happenings) : y = Append(q, e)
  BY Appended
<1>11. queue' = Append(y, f)
  <2>1. queue' = (q \o <<e>>) \o <<f>>
    BY <1>2, <1>3, <1>5, <1>8, <1>9
  <2>2. q \o <<e>> = Append(q, e)
    OBVIOUS
  <2>3. y \o <<f>> = Append(y, f)
    BY <1>6
  <2> QED BY <1>10, <2>1, <2>2, <2>3
<1>12. UNCHANGED <<model, mAccts, cgen, batch, polling, invited, win, pane, front, slipped, dlg, todo, texts,
                   asked, dropped, reborn>>
  BY <1>8 DEF client, window, history
<1>13. Says(c, q, e)
  <2>1. More(q, q) /\ More(Append(q, e), queue')
    BY <1>6, <1>7, <1>10, <1>11 DEF More
  <2>2. bConvs' = bConvs \cup {c}
    BY <1>8
  <2> QED BY <1>2, <1>3, <1>8, <1>9, <2>1, <2>2 DEF Says
<1>14. /\ last' \in [Convs -> Nat] /\ ring' \in [Convs -> SUBSET Nat] /\ RingRuns'
       /\ bConvs' \subseteq Convs /\ bConvs \subseteq bConvs'
  <2>1. \A d \in Convs : d \notin bConvs' => unread'[d] = 0
    BY <1>1, <1>8 DEF BackendTypes, RingRuns
  <2> QED BY <1>1, <1>13, <2>1, SaysRing
<1>15. /\ queue' \in Seq(Happenings) /\ \A i \in DOMAIN queue' : Known(queue'[i])
       /\ \A d : RisesIn(queue, d) => RisesIn(queue', d)
       /\ \A i : InviteIn(queue, i) => InviteIn(queue', i)
  BY <1>1, <1>13, SaysQueue
<1>16. BackendTypes'
  <2>1. unread' \in [Convs -> Nat]
    BY <1>1, <1>4, <1>8 DEF BackendTypes
  <2> QED BY <1>1, <1>8, <1>14, <1>15, <2>1 DEF BackendTypes
<1>17. ClientTypes' /\ WindowTypes' /\ AtWork' /\ Window' /\ DialogNames'
  <2>1. gen' \in Nat /\ gen <= gen' /\ reborn' \subseteq Convs
    BY <1>1, <1>8, <1>12 DEF BackendTypes, WindowTypes
  <2>2. UNCHANGED <<client, window, dlg, todo, texts>>
    BY <1>8, <1>12
  <2> QED BY <2>1, <2>2, OthersStay
<1>18. PendingRuns' /\ LogFollows'
  <2>1. win' \in Windows /\ win'.conv = win.conv /\ win'.log = win.log
    BY <1>1, <1>12 DEF WindowTypes
  <2> QED BY <1>1, <1>8, <1>12, <1>13, <2>1, SaysMessages
<1>19. Synced'
  <2> SUFFICES ASSUME gen = cgen PROVE Meets(model, queue', bConvs, unread')
    BY <1>8, <1>12 DEF Synced
  <2>1. PICK B \in SUBSET Convs : B = bConvs
    BY <1>1 DEF BackendTypes
  <2>2. PICK u \in [Convs -> Nat] : u = unread
    BY <1>1 DEF BackendTypes
  <2>3. PICK m : m = model
    OBVIOUS
  <2>4. PICK v : v = [u EXCEPT ![c] = unread[c] + 1]
    OBVIOUS
  <2>5. Applied(m, y) = Applied(m, q)
    BY <1>3, <1>10, AppliedQuiet
  <2>6. Meets(m, y, B, u) /\ c \in B
    BY <1>1, <1>2, <1>8, <2>1, <2>2, <2>3, <2>5 DEF Synced, Meets
  <2>7. PICK n \in Nat : n = unread[c] + 1
    BY <1>4
  <2>8. Meets(m, Append(y, f), B, v)
    BY <1>6, <2>4, <2>6, <2>7, AppliedUnread
  <2> QED BY <1>8, <1>11, <2>1, <2>2, <2>3, <2>4, <2>8
<1>20. Noticed'
  <2>1. Attends' => Attends
    BY <1>12 DEF Attends, Looking
  <2>2. RisesIn(queue', c)
    <3>1. Rises(f, c)
      BY <1>4, <1>6 DEF Rises
    <3> QED BY <1>6, <1>11, <3>1, SomeAppended
  <2>3. \A d \in Convs : unread'[d] = unread[d] \/ RisesIn(queue', d)
    BY <1>1, <1>8, <2>2 DEF BackendTypes
  <2> QED BY <1>1, <1>8, <1>12, <1>15, <2>1, <2>3, NoticedKept
<1>21. InvitesFollowed'
  BY <1>1, <1>8, <1>12, <1>15, InvitesKept
<1> QED BY <1>14, <1>16, <1>17, <1>18, <1>19, <1>20, <1>21 DEF WinInv

-----------------------------------------------------------------------------
(* Another child, of which the client knows nothing yet                    *)

LEMMA RestartKeeps == ASSUME WinInv, Restart PROVE WinInv'
<1>1. BackendTypes /\ ClientTypes /\ WindowTypes
  BY DEF WinInv
<1>2. /\ gen' = gen + 1 /\ bConvs' = {} /\ ring' = [c \in Convs |-> {}]
      /\ unread' = [c \in Convs |-> 0] /\ asking' = {} /\ waiting' = {} /\ queue' = <<>>
      /\ bAccts' \in {bAccts} \cup {Tail(bAccts) : i \in DOMAIN bAccts}
      /\ UNCHANGED <<last, client, window, dlg, todo, history>>
  BY DEF Restart
<1>3. UNCHANGED <<model, mAccts, cgen, batch, polling, invited, win, pane, front, slipped, dlg, todo, texts,
                   asked, dropped, reborn>>
  BY <1>2 DEF client, window, history
<1>4. gen \in Nat /\ cgen \in Nat /\ cgen <= gen
  BY <1>1 DEF BackendTypes, ClientTypes
<1>5. gen' # cgen'
  BY <1>2, <1>3, <1>4
<1>6. BackendTypes'
  <2>1. bAccts' \in Seq(Accts)
    <3>1. bAccts \in Seq(Accts)
      BY <1>1 DEF BackendTypes
    <3>2. DOMAIN bAccts # {} => Tail(bAccts) \in Seq(Accts)
      BY <3>1
    <3> QED BY <1>2, <3>1, <3>2
  <2>2. <<>> \in Seq(Happenings) /\ DOMAIN <<>> = {}
    OBVIOUS
  <2>3. ring' \in [Convs -> SUBSET Nat] /\ unread' \in [Convs -> Nat] /\ last' \in [Convs -> Nat]
    BY <1>1, <1>2 DEF BackendTypes
  <2> QED BY <1>2, <1>4, <2>1, <2>2, <2>3 DEF BackendTypes
<1>7. ClientTypes' /\ WindowTypes' /\ AtWork' /\ Window' /\ DialogNames'
  <2>1. gen' \in Nat /\ gen <= gen' /\ reborn' \subseteq Convs
    BY <1>1, <1>2, <1>3, <1>4 DEF WindowTypes
  <2>2. UNCHANGED <<client, window, dlg, todo, texts>>
    BY <1>2, <1>3
  <2> QED BY <2>1, <2>2, OthersStay
<1>8. RingRuns'
  BY <1>2 DEF RingRuns
<1>9. PendingRuns' /\ LogFollows' /\ Synced' /\ Noticed'
  BY <1>5 DEF PendingRuns, LogFollows, Synced, Noticed
<1>10. InvitesFollowed'
  BY <1>2 DEF InvitesFollowed
<1> QED BY <1>6, <1>7, <1>8, <1>9, <1>10 DEF WinInv

-----------------------------------------------------------------------------
(* A poll, and a new backend                                               *)

LEMMA LookingIs == ASSUME WindowTypes PROVE Looking \in BOOLEAN
BY DEF WindowTypes, Looking

LEMMA TruthIs ==
    ASSUME BackendTypes
    PROVE  /\ TruthOf(bConvs, unread) = Truth
           /\ DOMAIN Truth = bConvs /\ Truth \in [bConvs -> Nat]
           /\ \A c \in bConvs : Truth[c] = unread[c]
<1>1. TruthOf(bConvs, unread) = Truth
  BY DEF Truth, TruthOf
<1>2. Truth = [c \in bConvs |-> unread[c]] /\ \A c \in bConvs : unread[c] \in Nat
  BY DEF Truth, BackendTypes
<1> QED BY <1>1, <1>2

LEMMA NothingTold ==
    /\ <<>> \in Seq(Happenings) /\ DOMAIN <<>> = {} /\ <<>> \o <<>> = <<>>
    /\ \A l, r, rb : Pend(<<>>, l, r, rb)
    /\ \A i : ~InviteIn(<<>>, i) /\ ~RisesIn(<<>>, i)
    /\ \A i \in DOMAIN <<>> : Known(<<>>[i])
    /\ \A q \in Seq(Happenings) : <<>> \o q = q /\ q \o <<>> = q
<1>1. <<>> \in Seq(Happenings) /\ DOMAIN <<>> = {} /\ <<>> \o <<>> = <<>>
  OBVIOUS
<1>2. \A l, r, rb : Pend(<<>>, l, r, rb)
  BY <1>1 DEF Pend, Runs, Within
<1>3. \A i : ~InviteIn(<<>>, i) /\ ~RisesIn(<<>>, i)
  BY <1>1 DEF InviteIn, RisesIn
<1>4. \A q \in Seq(Happenings) : <<>> \o q = q /\ q \o <<>> = q
  OBVIOUS
<1> QED BY <1>1, <1>2, <1>3, <1>4

PolledSo == /\ polling' = "told" /\ batch = <<>> /\ polling \in {"no", "due"}
            /\ dlg = NoDialog /\ ~invited
            /\ UNCHANGED <<bAccts, bConvs, ring, last, asking, waiting, gen, invited,
                           pane, front, dlg, todo, texts, asked>>

LEMMA PolledTypes ==
    ASSUME WinInv, PolledSo PROVE AtWork' /\ DialogNames'
<1>1. polling' = "told" /\ dlg' = NoDialog
  BY DEF PolledSo
<1> QED BY <1>1 DEF AtWork, DialogNames

LEMMA PolledOn ==
    ASSUME WinInv, PolledSo, gen = cgen, batch' = queue, queue' = <<>>,
           model' = Applied(model, queue), UNCHANGED <<unread, mAccts, cgen, win, slipped, dropped, reborn>>
    PROVE  WinInv'
<1>1. /\ BackendTypes /\ ClientTypes /\ WindowTypes /\ AtWork /\ Window /\ RingRuns /\ PendingRuns
      /\ LogFollows /\ Synced /\ Noticed /\ InvitesFollowed
  BY DEF WinInv
<1>2. /\ polling' = "told" /\ batch = <<>> /\ polling \in {"no", "due"} /\ ~invited
      /\ UNCHANGED <<bAccts, bConvs, ring, last, asking, waiting, gen, invited,
                     pane, front, dlg, todo, texts, asked>>
  BY DEF PolledSo
<1>3. PICK q \in Seq(Happenings) : q = queue /\ \A i \in DOMAIN q : Known(q[i])
  BY <1>1 DEF BackendTypes
<1>4. model' = Truth
  BY <1>1, TruthIs DEF Synced, Meets
<1>5. BackendTypes'
  BY <1>1, <1>2, NothingTold DEF BackendTypes
<1>6. ClientTypes'
  <2>1. DOMAIN model' = bConvs /\ model' \in [bConvs -> Nat] /\ bConvs \subseteq Convs
    BY <1>1, <1>4, TruthIs DEF BackendTypes
  <2> QED BY <1>1, <1>2, <1>3, <2>1 DEF ClientTypes
<1>7. WindowTypes'
  BY <1>1, <1>2 DEF WindowTypes
<1>8. Window'
  BY <1>1, <1>2 DEF Window, SentHome
<1>9. RingRuns'
  BY <1>1, <1>2 DEF RingRuns
<1>10. batch' \o queue' = batch \o queue
  BY <1>2, <1>3, NothingTold
<1>11. PendingRuns'
  BY <1>1, <1>2, <1>10 DEF PendingRuns, ToTell
<1>12. LogFollows'
  BY <1>1, <1>2, <1>10 DEF LogFollows, ToTell
<1>13. Synced'
  <2>1. Applied(Truth, <<>>) = Truth
    BY AppliedNone
  <2>2. Meets(Truth, <<>>, bConvs, unread)
    BY <1>1, <2>1, TruthIs DEF Meets
  <2>3. Meets(model', <<>>, bConvs, unread)
    BY <1>4, <2>2
  <2> QED BY <1>2, <2>3 DEF Synced
<1>14. Noticed'
  <2> SUFFICES ASSUME Attends, win.conv # None, unread[win.conv] > 0
               PROVE  Comes(win.conv, model', batch', queue')
    BY <1>2 DEF Noticed, Attends, Looking
  <2>1. win.conv \in Convs
    BY <1>1 DEF WindowTypes, Windows
  <2>2. win.conv \in bConvs
    BY <1>1, <2>1 DEF RingRuns
  <2>3. RisesIn(queue, win.conv)
    BY <1>1, <1>2, NothingTold DEF Noticed, Comes
  <2>4. win.conv \in DOMAIN model' /\ model'[win.conv] > 0
    BY <1>1, <1>4, <2>2, TruthIs
  <2> QED BY <2>3, <2>4 DEF Comes
<1>15. InvitesFollowed'
  BY <1>1, <1>2, NothingTold DEF InvitesFollowed
<1> QED BY <1>5, <1>6, <1>7, <1>8, <1>9, <1>11, <1>12, <1>13, <1>14, <1>15, PolledTypes DEF WinInv

LEMMA PolledAnew ==
    ASSUME WinInv, PolledSo, gen # cgen, cgen' = gen, mAccts' = bAccts, model' = Truth,
           batch' = <<>>, win' = Reset(win, Truth, bAccts), Drained,
           markRead(win', Truth, Looking, <<>>)
    PROVE  WinInv'
<1>1. /\ BackendTypes /\ ClientTypes /\ WindowTypes /\ AtWork /\ Window /\ RingRuns
      /\ InvitesFollowed
  BY DEF WinInv
<1>2. /\ polling' = "told" /\ batch = <<>> /\ polling \in {"no", "due"} /\ ~invited
      /\ UNCHANGED <<bAccts, bConvs, ring, last, asking, waiting, gen, invited,
                     pane, front, dlg, todo, texts, asked>>
  BY DEF PolledSo
<1>3. /\ dropped' = dropped \cup {queue[i].c : i \in {j \in DOMAIN queue : queue[j].t = "invite"}}
      /\ reborn' = {}
  BY DEF Drained
<1>4. PICK m : m = Truth
  OBVIOUS
<1>5. PICK v : v = win'
  OBVIOUS
<1>6. DOMAIN m = bConvs /\ m \in [bConvs -> Nat] /\ bConvs \subseteq Convs
      /\ \A c \in bConvs : m[c] = unread[c]
  BY <1>1, <1>4, TruthIs DEF BackendTypes
<1>7. Fresh(win, v) /\ v.conv = win.conv /\ v.log = LatestOf(v.conv)
  <2>1. bAccts \in Seq(Accts) /\ win \in Windows /\ DOMAIN m \subseteq Convs
    BY <1>1, <1>6 DEF BackendTypes, WindowTypes
  <2>2. v = Reset(win, m, bAccts)
    BY <1>4, <1>5
  <2> QED BY <1>1, <2>1, <2>2, ResetIs
<1>8. Carried(win, v) /\ Well(v) /\ v \in Windows
  BY <1>7 DEF Fresh, Carried
<1>9. PICK looking \in BOOLEAN : looking = Looking
  BY <1>1, LookingIs
<1>10. /\ Read(v.conv, <<>>)
       /\ Looking /\ v.conv \in bConvs /\ m[v.conv] > 0 => unread'[v.conv] = 0
  <2>1. unread \in [Convs -> Nat] /\ bConvs \subseteq Convs
    BY <1>1 DEF BackendTypes
  <2>2. markRead(v, m, looking, <<>>)
    BY <1>4, <1>5, <1>9
  <2> QED BY <1>6, <1>9, <2>1, <2>2, ReadIs
<1>11. /\ unread' \in [Convs -> Nat] /\ More(<<>>, queue')
       /\ queue' \in Seq(Happenings) /\ \A i \in DOMAIN queue' : Known(queue'[i])
       /\ \A d \in Convs : unread'[d] = unread[d] \/ unread'[d] = 0
  BY <1>1, <1>10, NothingTold, ReadOf
<1>12. BackendTypes'
  BY <1>1, <1>2, <1>11 DEF BackendTypes
<1>13. ClientTypes'
  <2>1. bAccts \in Seq(Accts) /\ gen \in Nat
    BY <1>1 DEF BackendTypes
  <2>2. DOMAIN model' = bConvs /\ model' \in [bConvs -> Nat]
    BY <1>4, <1>6
  <2> QED BY <1>1, <1>2, <1>6, <2>1, <2>2, NothingTold DEF ClientTypes
<1>14. WindowTypes'
  BY <1>1, <1>2, <1>3, <1>5, <1>8 DEF WindowTypes
<1>15. Window'
  <2>1. RowsOf(v) /\ Lit(v)
    BY <1>8 DEF Well
  <2>2. PICK ts \in Seq(Text) : ts = texts
    BY <1>1 DEF WindowTypes
  <2>3. TextsAt(v, ts)
    BY <1>1, <1>8, <2>2 DEF Carried, Window
  <2>4. SentHome'
    BY <1>1, <1>2 DEF Window, SentHome
  <2> QED BY <1>2, <1>5, <2>1, <2>2, <2>3, <2>4 DEF Window
<1>16. RingRuns'
  BY <1>1, <1>2, <1>11, RingKept
<1>17. /\ Pend(<<>> \o queue', last, ring, {})
       /\ Follow(v, <<>> \o queue', last, {})
  <2>1. PICK z : z = queue'
    OBVIOUS
  <2>2. PICK l \in [Convs -> Nat] : l = last
    BY <1>1 DEF BackendTypes
  <2>3. PICK r : r = ring
    OBVIOUS
  <2>4. PICK b \in Seq(Happenings) : b = <<>>
    BY NothingTold
  <2>5. Pend(b \o b, l, r, {}) /\ b \o b = b
    BY <2>4, NothingTold
  <2>6. Follow(v, b, l, {})
    <3>1. v.conv \in Convs \cup {None}
      BY <1>8 DEF Windows
    <3>2. v.conv # None => Runs(b, v.conv, l[v.conv]) /\ Within(b, v.conv, r[v.conv])
      BY <2>4, NothingTold DEF Runs, Within
    <3>3. LogRuns(LatestOf(v.conv), b, v.conv, last[v.conv])
      BY <1>1, <2>2, <2>3, <3>1, <3>2, LatestRuns
    <3> QED BY <1>7, <2>2, <3>3 DEF Follow
  <2>7. Quieter(b, b) /\ More(b, z)
    BY <1>11, <2>1, <2>4 DEF Quieter
  <2>8. Pend(b \o z, l, r, {}) /\ (Follow(v, b \o b, l, {}) => Follow(v, b \o z, l, {}))
    BY <1>8, <2>5, <2>7, TellsQuietly
  <2> QED BY <2>1, <2>2, <2>3, <2>4, <2>5, <2>6, <2>8
<1>18. PendingRuns' /\ LogFollows'
  BY <1>2, <1>3, <1>5, <1>17 DEF PendingRuns, LogFollows, ToTell
<1>19. Synced'
  <2>1. Applied(m, <<>>) = m
    BY AppliedNone
  <2>2. Meets(m, <<>>, bConvs, unread)
    BY <1>1, <1>4, <2>1, TruthIs DEF Meets
  <2>3. Meets(m, queue', bConvs, unread')
    BY <1>1, <1>10, <2>2, NothingTold, ReadSynced
  <2> QED BY <1>2, <1>4, <2>3 DEF Synced
<1>20. Noticed'
  <2> SUFFICES ASSUME Looking, v.conv # None, unread'[v.conv] > 0 PROVE FALSE
    BY <1>2, <1>5 DEF Noticed, Attends, Looking
  <2>1. v.conv \in Convs
    BY <1>8 DEF Windows
  <2>2. unread[v.conv] > 0
    BY <1>11, <2>1
  <2>3. v.conv \in bConvs
    BY <1>1, <2>1, <2>2 DEF RingRuns
  <2> QED BY <1>6, <1>10, <2>2, <2>3
<1>21. InvitesFollowed'
  <2> SUFFICES ASSUME NEW i \in waiting \ (asked \cup dropped') PROVE LeftIn(todo, i)
    BY <1>2 DEF InvitesFollowed
  <2>1. ~InviteIn(queue, i)
    BY <1>3 DEF InviteIn
  <2>2. ~InviteIn(batch, i)
    BY <1>2, NothingTold
  <2> QED BY <1>1, <1>2, <1>3, <2>1, <2>2 DEF InvitesFollowed
<1> QED BY <1>12, <1>13, <1>14, <1>15, <1>16, <1>18, <1>19, <1>20, <1>21, PolledTypes DEF WinInv

LEMMA PollKeeps ==
    ASSUME WinInv, PolledSo, Poll PROVE WinInv'
<1>1. CASE gen = cgen
  BY <1>1, PolledOn DEF Poll
<1>2. CASE gen # cgen
  BY <1>2, PolledAnew DEF Poll
<1> QED BY <1>1, <1>2

\* By the timer, or after a request
LEMMA idleKeeps == ASSUME WinInv, idle PROVE WinInv'
<1>1. PolledSo
  BY DEF WinInv, AtWork, ClientTypes, idle, Idle, BackendButReads, PolledSo
<1> QED BY <1>1, PollKeeps DEF idle

LEMMA pollNowKeeps == ASSUME WinInv, pollNow PROVE WinInv'
<1>1. PolledSo
  BY DEF WinInv, AtWork, ClientTypes, pollNow, BackendButReads, PolledSo
<1> QED BY <1>1, PollKeeps DEF pollNow

-----------------------------------------------------------------------------
(* The window is told an event.                                            *)

ToldSo(t) == /\ batch # <<>> /\ Head(batch).t = t /\ batch' = Tail(batch)
             /\ IF t = "invite" THEN invited' = TRUE ELSE invited' = invited
             /\ UNCHANGED <<model, mAccts, cgen, polling, pane, front, dlg, todo, texts, asked,
                            dropped, reborn, gen>>

LEMMA TellsIs ==
    ASSUME NEW t, Tells(t), UNCHANGED gen,
           IF t = "invite" THEN invited' = TRUE ELSE invited' = invited
    PROVE  ToldSo(t)
BY DEF Tells, ToldSo, history

LEMMA ToldOthers ==
    ASSUME WinInv, NEW t, ToldSo(t), win' \in Windows
    PROVE  /\ ClientTypes' /\ WindowTypes' /\ AtWork' /\ DialogNames'
           /\ polling = "told" /\ polling' = "told" /\ batch \in Seq(Happenings) /\ batch # <<>>
           /\ Head(batch) \in Happenings /\ Known(Head(batch)) /\ batch' \in Seq(Happenings)
           /\ \A c : RisesIn(batch, c) <=> RisesIn(batch', c) \/ Rises(Head(batch), c)
           /\ \A i : InviteIn(batch, i) => InviteIn(batch', i) \/ (t = "invite" /\ Head(batch).c = i)
<1>1. ClientTypes /\ WindowTypes /\ AtWork
  BY DEF WinInv
<1>2. /\ batch # <<>> /\ Head(batch).t = t /\ batch' = Tail(batch)
      /\ UNCHANGED <<model, mAccts, cgen, polling, pane, front, dlg, todo, texts, asked,
                     dropped, reborn, gen>>
  BY DEF ToldSo
<1>3. PICK b \in Seq(Happenings) : b = batch /\ \A i \in DOMAIN b : Known(b[i])
  BY <1>1 DEF ClientTypes
<1>4. polling = "told" /\ dlg = NoDialog
  BY <1>1, <1>2 DEF AtWork
<1>5. b # <<>>
  BY <1>2, <1>3
<1>6. /\ \A c : RisesIn(b, c) <=> RisesIn(Tail(b), c) \/ Rises(Head(b), c)
      /\ \A i : InviteIn(b, i) <=> InviteIn(Tail(b), i) \/ (Head(b).t = "invite" /\ Head(b).c = i)
      /\ Known(Head(b)) /\ \A i \in DOMAIN Tail(b) : Known(Tail(b)[i])
  BY <1>3, <1>5, SomeShortened
<1>7. Tail(b) \in Seq(Happenings) /\ Head(b) \in Happenings
  BY <1>5, Shortened
<1>8. invited' \in BOOLEAN
  BY <1>1 DEF ToldSo, ClientTypes
<1>9. ClientTypes'
  BY <1>1, <1>2, <1>3, <1>6, <1>7, <1>8 DEF ClientTypes
<1>10. WindowTypes'
  BY <1>1, <1>2 DEF WindowTypes
<1>11. AtWork' /\ DialogNames'
  BY <1>2, <1>4 DEF AtWork, DialogNames
<1> QED BY <1>2, <1>3, <1>4, <1>5, <1>6, <1>7, <1>9, <1>10, <1>11

LEMMA ToldInvites ==
    ASSUME WinInv, NEW t, ToldSo(t), win' \in Windows, waiting' = waiting,
           \A i : InviteIn(queue, i) => InviteIn(queue', i)
    PROVE  InvitesFollowed'
<1>1. InvitesFollowed
  BY DEF WinInv
<1>2. UNCHANGED <<todo, asked, dropped>> /\ IF t = "invite" THEN invited' = TRUE ELSE invited' = invited
  BY DEF ToldSo
<1>3. \A i : InviteIn(batch, i) => InviteIn(batch', i) \/ t = "invite"
  BY ToldOthers
<1>4. \A i : InviteIn(batch, i) => InviteIn(batch', i) \/ invited'
  BY <1>2, <1>3
<1>5. invited => invited'
  BY <1>2
<1> QED BY <1>1, <1>2, <1>4, <1>5, InvitesKept

\* Nothing is read of it ...
LEMMA ToldQuietly ==
    ASSUME WinInv, NEW t, ToldSo(t), t # "msg", ~Rises(Head(batch), win.conv),
           UNCHANGED <<bAccts, bConvs, ring, last, unread, waiting, queue>>, asking' \subseteq bConvs,
           Carried(win, win'), Well(win'), win'.conv = win.conv, slipped' = slipped
    PROVE  WinInv'
<1>1. /\ BackendTypes /\ ClientTypes /\ WindowTypes /\ Window /\ RingRuns /\ PendingRuns
      /\ LogFollows /\ Synced /\ Noticed
  BY DEF WinInv
<1>2. /\ batch # <<>> /\ Head(batch).t = t /\ batch' = Tail(batch)
      /\ UNCHANGED <<model, mAccts, cgen, polling, pane, front, dlg, todo, texts, asked,
                     dropped, reborn, gen>>
  BY DEF ToldSo
<1>3. win' \in Windows /\ FromLog(win, win')
  BY DEF Carried
<1>4. /\ ClientTypes' /\ WindowTypes' /\ AtWork' /\ DialogNames'
      /\ polling = "told" /\ polling' = "told"
      /\ \A c : RisesIn(batch, c) <=> RisesIn(batch', c) \/ Rises(Head(batch), c)
  BY <1>3, ToldOthers
<1>5. InvitesFollowed'
  BY <1>3, ToldInvites
<1>6. BackendTypes'
  BY <1>1, <1>2 DEF BackendTypes
<1>7. RingRuns'
  BY <1>1 DEF RingRuns
<1>8. PendingRuns' /\ LogFollows'
  <2>1. More(queue, queue') /\ Quieter(batch, batch') /\ \A c \in Convs : ring[c] \subseteq ring'[c]
    BY <1>2 DEF More, Quieter
  <2> QED BY <1>1, <1>2, <1>3, <1>4, <2>1, QuietStep
<1>9. Synced'
  BY <1>1, <1>2 DEF Synced, Meets
<1>10. Noticed'
  <2>1. Attends' => Attends
    BY <1>2 DEF Attends, Looking
  <2> QED BY <1>1, <1>2, <1>4, <2>1, NoticedKept
<1>11. Window'
  <2>1. RowsOf(win') /\ Lit(win')
    BY DEF Well
  <2>2. PICK ts \in Seq(Text) : ts = texts
    BY <1>1 DEF WindowTypes
  <2>3. TextsAt(win', ts)
    BY <1>1, <2>2 DEF Carried, Window
  <2>4. SentHome'
    BY <1>1, <1>2 DEF Window, SentHome
  <2> QED BY <1>2, <2>1, <2>2, <2>3, <2>4 DEF Window
<1> QED BY <1>4, <1>5, <1>6, <1>7, <1>8, <1>9, <1>10, <1>11 DEF WinInv

\* ... or what is shown after it is, if looked at.
LEMMA ToldAndRead ==
    ASSUME WinInv, NEW t, ToldSo(t), t # "msg", NEW w, Carried(win, w), Well(w), Shows(w),
           BackendButReads
    PROVE  WinInv'
<1>1. BackendTypes /\ WindowTypes
  BY DEF WinInv
<1>2. /\ batch # <<>> /\ Head(batch).t = t /\ batch' = Tail(batch)
      /\ UNCHANGED <<model, cgen, polling, pane, front, texts, reborn>>
  BY DEF ToldSo
<1>3. w \in Windows /\ win' = w /\ markRead(w, model, Looking, queue)
  BY DEF Carried, Shows
<1>4. Carried(win, win') /\ Well(win')
  BY <1>3
<1>5. PICK looking \in BOOLEAN : looking = Looking
  BY <1>1, LookingIs
<1>6. /\ Read(w.conv, queue)
      /\ looking /\ w.conv \in DOMAIN model \cap bConvs /\ model[w.conv] > 0 => unread'[w.conv] = 0
  BY <1>1, <1>3, <1>5, ReadIs DEF BackendTypes
<1>7. Looking' = looking
  BY <1>2, <1>5 DEF Looking
<1>8. Quieter(batch, batch')
  BY <1>2 DEF Quieter
<1>9. /\ ClientTypes' /\ WindowTypes' /\ AtWork' /\ DialogNames' /\ polling = "told"
  BY <1>3, ToldOthers
<1>10. /\ BackendTypes' /\ RingRuns' /\ PendingRuns' /\ LogFollows' /\ Synced' /\ Noticed'
       /\ Window'
       /\ \A i : InviteIn(queue, i) => InviteIn(queue', i)
  <2>1. Minded
    BY <1>3, <1>6, <1>7 DEF Minded, Attends
  <2> QED BY <1>2, <1>3, <1>4, <1>6, <1>8, <1>9, <2>1, ShowStep
<1>11. InvitesFollowed'
  <2>1. waiting' = waiting
    BY DEF BackendButReads
  <2> QED BY <1>3, <1>10, <2>1, ToldInvites
<1> QED BY <1>9, <1>10, <1>11 DEF WinInv

LEMMA WindowIs ==
    ASSUME WinInv PROVE win \in Windows /\ Well(win) /\ Carried(win, win) /\ BackendTypes
BY CarriedNone DEF WinInv, WindowTypes, Window, Well

LEMMA ModelIs ==
    ASSUME WinInv PROVE DOMAIN model \subseteq Convs /\ mAccts \in Seq(Accts)
BY DEF WinInv, ClientTypes

LEMMA UnreadEventKeeps == ASSUME WinInv, UnreadEvent PROVE WinInv'
<1>1. Tells("unread") /\ BackendButReads /\ invited' = invited
  BY DEF UnreadEvent, Reads
<1>2. UNCHANGED <<bAccts, bConvs, ring, last, gotAll, asking, waiting, gen>>
  BY <1>1 DEF BackendButReads
<1>3. ToldSo("unread")
  BY <1>1, <1>2, TellsIs
<1>4. CASE Here /\ Head(batch).n > 0
  <2>1. Shows(win)
    BY <1>4 DEF UnreadEvent
  <2> QED BY <1>1, <1>3, <2>1, WindowIs, ToldAndRead
<1>5. CASE ~(Here /\ Head(batch).n > 0)
  <2>1. UNCHANGED <<unread, queue, win, slipped>>
    BY <1>5 DEF UnreadEvent
  <2>2. ~Rises(Head(batch), win.conv)
    BY <1>5 DEF Rises, Here
  <2>3. Carried(win, win') /\ Well(win') /\ win'.conv = win.conv
    BY <2>1, WindowIs
  <2>4. asking' \subseteq bConvs
    BY <1>2, WindowIs DEF BackendTypes
  <2> QED BY <1>2, <1>3, <2>1, <2>2, <2>3, <2>4, ToldQuietly
<1> QED BY <1>4, <1>5

LEMMA ConvNewEventKeeps == ASSUME WinInv, ConvNewEvent PROVE WinInv'
<1>1. Tells("conv-new") /\ win' = refreshLists(win, model, mAccts, FALSE)
      /\ UNCHANGED <<backend, invited, slipped>>
  BY DEF ConvNewEvent, Only
<1>2. UNCHANGED <<bAccts, bConvs, ring, last, unread, gotAll, asking, waiting, queue, gen>>
  BY <1>1 DEF backend
<1>3. ToldSo("conv-new")
  BY <1>1, <1>2, TellsIs
<1>4. ~Rises(Head(batch), win.conv)
  BY <1>1 DEF Rises, Tells
<1>5. PICK w : w = refreshLists(win, model, mAccts, FALSE)
  OBVIOUS
<1>6. Carried(win, w) /\ Well(w) /\ w.conv = win.conv
  BY <1>5, WindowIs, ModelIs, RefreshListsIs DEF Fresh
<1>7. asking' \subseteq bConvs
  BY <1>2, WindowIs DEF BackendTypes
<1> QED BY <1>1, <1>2, <1>3, <1>4, <1>5, <1>6, <1>7, ToldQuietly

LEMMA Noted ==
    ASSUME NEW w \in Windows, Well(w), NEW b \in BOOLEAN, NEW v, v = [w EXCEPT !.notes = b]
    PROVE  Carried(w, v) /\ Well(v) /\ v.conv = w.conv /\ v \in Windows
<1>1. v \in Windows /\ v.conv = w.conv /\ v.log = w.log /\ v.input = w.input /\ v.drafts = w.drafts
  BY DEF Windows
<1>2. v.rows = w.rows /\ v.acct = w.acct /\ v.hi = w.hi
  BY DEF Windows
<1>3. Carried(w, v)
  BY <1>1, CarriedSame
<1>4. Well(v)
  BY <1>1, <1>2 DEF Well, RowsOf, Lit
<1> QED BY <1>1, <1>3, <1>4

LEMMA ConvGoneEventKeeps == ASSUME WinInv, ConvGoneEvent PROVE WinInv'
<1>1. PICK here \in BOOLEAN : here = Here
  BY DEF Here
<1>2. PICK b \in BOOLEAN : b = (win.notes \/ here)
  BY WindowIs DEF Windows
<1>3. PICK v : v = [win EXCEPT !.notes = b]
  OBVIOUS
<1>4. v = [win EXCEPT !.notes = @ \/ Here]
  BY <1>1, <1>2, <1>3, WindowIs, Zenon
<1>5. PICK w : w = refreshLists(v, model, mAccts, here)
  OBVIOUS
<1>6. /\ Tells("conv-gone") /\ BackendButReads /\ invited' = invited
      /\ IF w.conv = win.conv THEN win' = w /\ UNCHANGED <<unread, queue, slipped>> ELSE Shows(w)
  BY <1>1, <1>4, <1>5 DEF ConvGoneEvent, Reads
<1>7. UNCHANGED <<bAccts, bConvs, ring, last, gotAll, asking, waiting, gen>>
  BY <1>6 DEF BackendButReads
<1>8. ToldSo("conv-gone")
  BY <1>6, <1>7, TellsIs
<1>9. Carried(win, v) /\ v \in Windows
  BY <1>3, WindowIs, Noted
<1>10. Fresh(v, w)
  BY <1>5, <1>9, WindowIs, ModelIs, RefreshListsIs
<1>11. Carried(win, w) /\ Well(w)
  BY <1>9, <1>10, CarriedOn DEF Fresh
<1>12. CASE w.conv = win.conv
  <2>1. win' = w /\ UNCHANGED <<unread, queue, slipped>>
    BY <1>6, <1>12
  <2>2. ~Rises(Head(batch), win.conv)
    BY <1>6 DEF Rises, Tells
  <2>3. asking' \subseteq bConvs
    BY <1>7, WindowIs DEF BackendTypes
  <2> QED BY <1>7, <1>8, <1>11, <1>12, <2>1, <2>2, <2>3, ToldQuietly
<1>13. CASE w.conv # win.conv
  <2>1. Shows(w)
    BY <1>6, <1>13
  <2> QED BY <1>6, <1>8, <1>11, <2>1, ToldAndRead
<1> QED BY <1>12, <1>13

LEMMA HistoryEventKeeps == ASSUME WinInv, HistoryEvent PROVE WinInv'
<1>1. Tells("history latest") /\ UNCHANGED <<backend, invited, slipped>>
      /\ (win' = loadHistory(win) \/ win' = win)
  BY DEF HistoryEvent, Only
<1>2. UNCHANGED <<bAccts, bConvs, ring, last, unread, gotAll, asking, waiting, queue, gen>>
  BY <1>1 DEF backend
<1>3. ToldSo("history latest")
  BY <1>1, <1>2, TellsIs
<1>4. ~Rises(Head(batch), win.conv)
  BY <1>1 DEF Rises, Tells
<1>5. Carried(win, win') /\ Well(win') /\ win'.conv = win.conv
  BY <1>1, WindowIs, LoadHistoryIs DEF Fresh
<1>6. asking' \subseteq bConvs
  BY <1>2, WindowIs DEF BackendTypes
<1> QED BY <1>1, <1>2, <1>3, <1>4, <1>5, <1>6, ToldQuietly

LEMMA StateEventKeeps == ASSUME WinInv, StateEvent PROVE WinInv'
<1>1. /\ Tells("state") /\ UNCHANGED <<backend, invited, slipped>>
      /\ win' = [win EXCEPT !.notes = TRUE] \/ win' = loadHistory(win) \/ win' = win
  BY DEF StateEvent, Only
<1>2. UNCHANGED <<bAccts, bConvs, ring, last, unread, gotAll, asking, waiting, queue, gen>>
  BY <1>1 DEF backend
<1>3. ToldSo("state")
  BY <1>1, <1>2, TellsIs
<1>4. ~Rises(Head(batch), win.conv)
  BY <1>1 DEF Rises, Tells
<1>5. Carried(win, win') /\ Well(win') /\ win'.conv = win.conv
  <2>1. CASE win' = [win EXCEPT !.notes = TRUE]
    BY <2>1, WindowIs, Noted
  <2>2. CASE win' # [win EXCEPT !.notes = TRUE]
    BY <1>1, <2>2, WindowIs, LoadHistoryIs DEF Fresh
  <2> QED BY <2>1, <2>2
<1>6. asking' \subseteq bConvs
  BY <1>2, WindowIs DEF BackendTypes
<1> QED BY <1>1, <1>2, <1>3, <1>4, <1>5, <1>6, ToldQuietly

LEMMA InviteEventKeeps == ASSUME WinInv, InviteEvent PROVE WinInv'
<1>1. Tells("invite") /\ UNCHANGED <<backend, win, slipped>> /\ invited' = TRUE
  BY DEF InviteEvent
<1>2. UNCHANGED <<bAccts, bConvs, ring, last, unread, gotAll, asking, waiting, queue, gen>>
  BY <1>1 DEF backend
<1>3. ToldSo("invite")
  BY <1>1, <1>2, TellsIs
<1>4. ~Rises(Head(batch), win.conv)
  BY <1>1 DEF Rises, Tells
<1>5. Carried(win, win') /\ Well(win') /\ win'.conv = win.conv
  BY <1>1, WindowIs
<1>6. asking' \subseteq bConvs
  BY <1>2, WindowIs DEF BackendTypes
<1> QED BY <1>1, <1>2, <1>3, <1>4, <1>5, <1>6, ToldQuietly

-----------------------------------------------------------------------------
(* A message is told, and the pages before those shown.                    *)

\* A log of the same conversation moves no text.
LEMMA LogOnly ==
    ASSUME WinInv, NEW log \in Seq(Nat), NEW b \in BOOLEAN,
           win' = [win EXCEPT !.log = log, !.noOlder = b], UNCHANGED texts
    PROVE  /\ win' \in Windows /\ win'.conv = win.conv /\ win'.log = log /\ Window'
<1>1. win \in Windows /\ Window
  BY DEF WinInv, WindowTypes
<1>2. /\ win' \in Windows /\ win'.conv = win.conv /\ win'.log = log
      /\ win'.rows = win.rows /\ win'.acct = win.acct /\ win'.hi = win.hi
      /\ win'.input = win.input /\ win'.drafts = win.drafts
  BY <1>1 DEF Windows
<1>3. RowsOf(win') /\ Lit(win')
  BY <1>1, <1>2 DEF Window, RowsOf, Lit
<1>4. TextsAt(win', texts)
  BY <1>1, <1>2 DEF Window, TextsAt
<1>5. SentHome'
  BY <1>1 DEF Window, SentHome
<1> QED BY <1>2, <1>3, <1>4, <1>5 DEF Window

\* The message told is in the log, or is put there.
LEMMA FollowTold ==
    ASSUME NEW q \in Seq(Happenings), q # <<>>, NEW l \in [Convs -> Nat], NEW r, NEW rb,
           Pend(q, l, r, rb), NEW w \in Windows, NEW v \in Windows, v.conv = w.conv,
           v.log = IF MsgOf(Head(q), w.conv) /\ Head(q).n \notin ToSet(w.log)
                   THEN Append(w.log, Head(q).n) ELSE w.log,
           Known(Head(q)), Head(q).t = "msg", Follow(w, q, l, rb)
    PROVE  Follow(v, Tail(q), l, rb)
<1> SUFFICES ASSUME v.conv \notin rb PROVE LogRuns(v.log, Tail(q), v.conv, l[v.conv])
  BY DEF Follow
<1>1. LogRuns(w.log, q, w.conv, l[w.conv]) /\ w.log \in Seq(Nat)
  BY DEF Follow, Windows
<1>2. CASE MsgOf(Head(q), w.conv) /\ Head(q).n \notin ToSet(w.log)
  <2>1. w.conv \in Convs /\ l[w.conv] \in Nat
    BY <1>2 DEF MsgOf, Known
  <2>2. Runs(q, w.conv, l[w.conv])
    BY <2>1 DEF Pend
  <2>3. LogRuns(Append(w.log, Head(q).n), Tail(q), w.conv, l[w.conv])
    BY <1>1, <1>2, <2>1, <2>2, LogGrows
  <2> QED BY <1>2, <2>3
<1>3. CASE ~(MsgOf(Head(q), w.conv) /\ Head(q).n \notin ToSet(w.log))
  <2>1. v.log = w.log
    BY <1>3
  <2>2. LogRuns(w.log, Tail(q), w.conv, l[w.conv])
    BY <1>1, <1>3, LogLess
  <2> QED BY <2>1, <2>2
<1> QED BY <1>2, <1>3

LEMMA MsgEventKeeps == ASSUME WinInv, MsgEvent PROVE WinInv'
<1>1. /\ BackendTypes /\ ClientTypes /\ WindowTypes /\ Window /\ RingRuns /\ PendingRuns
      /\ LogFollows /\ Synced /\ Noticed
  BY DEF WinInv
<1>2. Tells("msg") /\ UNCHANGED <<backend, invited, slipped>>
  BY DEF MsgEvent, Only
<1>3. UNCHANGED <<bAccts, bConvs, ring, last, unread, gotAll, asking, waiting, queue, gen>>
  BY <1>2 DEF backend
<1>4. ToldSo("msg")
  BY <1>2, <1>3, TellsIs
<1>5. /\ batch # <<>> /\ Head(batch).t = "msg" /\ batch' = Tail(batch)
      /\ UNCHANGED <<model, mAccts, cgen, polling, pane, front, dlg, todo, texts, asked,
                     dropped, reborn>>
  BY <1>4 DEF ToldSo
<1>6. PICK b \in Seq(Happenings) : b = batch /\ \A i \in DOMAIN b : Known(b[i])
  BY <1>1 DEF ClientTypes
<1>7. Head(b) \in Happenings /\ Head(b) = b[1] /\ Known(Head(b)) /\ Head(b).n \in Nat
  <2>1. b # <<>>
    BY <1>5, <1>6
  <2>2. Head(b) \in Happenings /\ Known(Head(b))
    BY <1>6, <2>1, SomeShortened, Shortened
  <2>3. Head(b) = b[1]
    OBVIOUS
  <2> QED BY <2>2, <2>3 DEF Happenings
<1>8. PICK log : log = IF MsgOf(Head(b), win.conv) /\ Head(b).n \notin ToSet(win.log)
                       THEN Append(win.log, Head(b).n) ELSE win.log
  OBVIOUS
<1>9. win \in Windows /\ win.log \in Seq(Nat) /\ log \in Seq(Nat) /\ win.noOlder \in BOOLEAN
  BY <1>1, <1>7, <1>8 DEF WindowTypes, Windows
<1>10. win' = [win EXCEPT !.log = log, !.noOlder = win.noOlder]
  <2>1. MsgOf(Head(b), win.conv) <=> Here
    BY <1>5, <1>6 DEF MsgOf, Here
  <2>2. CASE MsgOf(Head(b), win.conv) /\ Head(b).n \notin ToSet(win.log)
    <3>1. win' = [win EXCEPT !.log = Append(win.log, Head(b).n)]
      BY <1>6, <2>1, <2>2 DEF MsgEvent
    <3> QED BY <1>8, <1>9, <2>2, <3>1 DEF Windows
  <2>3. CASE ~(MsgOf(Head(b), win.conv) /\ Head(b).n \notin ToSet(win.log))
    <3>1. win' = win
      BY <1>6, <2>1, <2>3 DEF MsgEvent
    <3> QED BY <1>8, <1>9, <2>3, <3>1 DEF Windows
  <2> QED BY <2>2, <2>3
<1>11. win' \in Windows /\ win'.conv = win.conv /\ win'.log = log /\ Window'
  BY <1>5, <1>9, <1>10, LogOnly
<1>12. /\ ClientTypes' /\ WindowTypes' /\ AtWork' /\ DialogNames'
       /\ polling = "told" /\ polling' = "told"
       /\ \A c : RisesIn(batch, c) <=> RisesIn(batch', c) \/ Rises(Head(batch), c)
  BY <1>4, <1>11, ToldOthers
<1>13. InvitesFollowed'
  BY <1>3, <1>4, <1>11, ToldInvites
<1>14. BackendTypes' /\ RingRuns'
  BY <1>1, <1>3 DEF BackendTypes, RingRuns
<1>15. PendingRuns' /\ LogFollows'
  <2> SUFFICES ASSUME gen = cgen
               PROVE  /\ Pend(batch' \o queue, last, ring, reborn)
                      /\ Follow(win', batch' \o queue, last, reborn)
    BY <1>3, <1>5 DEF PendingRuns, LogFollows, ToTell
  <2>1. PICK q \in Seq(Happenings) : q = queue
    BY <1>1 DEF BackendTypes
  <2>2. PICK t \in Seq(Happenings) : t = b \o q
    BY JoinSeq
  <2>3. t # <<>> /\ Head(t) = Head(b) /\ Tail(b) \o q = Tail(t)
    BY <1>5, <1>6, <2>2, JoinLess
  <2>4. PICK l \in [Convs -> Nat] : l = last
    BY <1>1 DEF BackendTypes
  <2>5. PICK v \in Windows : v = win'
    BY <1>11
  <2>6. Pend(t, l, ring, reborn) /\ Follow(win, t, l, reborn)
    BY <1>1, <1>6, <1>12, <2>1, <2>2, <2>4 DEF PendingRuns, LogFollows, ToTell
  <2>7. Pend(Tail(t), l, ring, reborn)
    BY <2>3, <2>6, PendLess
  <2>8. v.conv = win.conv
        /\ v.log = IF MsgOf(Head(t), win.conv) /\ Head(t).n \notin ToSet(win.log)
                   THEN Append(win.log, Head(t).n) ELSE win.log
    BY <1>8, <1>11, <2>3, <2>5
  <2>9. Follow(v, Tail(t), l, reborn)
    BY <1>5, <1>6, <1>7, <1>9, <2>3, <2>6, <2>8, FollowTold
  <2> QED BY <1>5, <1>6, <2>1, <2>3, <2>4, <2>5, <2>7, <2>9
<1>16. Synced'
  BY <1>1, <1>3, <1>5 DEF Synced, Meets
<1>17. Noticed'
  <2>1. Attends' => Attends
    BY <1>2, <1>5 DEF Attends, Looking
  <2>2. ~Rises(Head(batch), win.conv)
    BY <1>5 DEF Rises
  <2> QED BY <1>1, <1>3, <1>5, <1>11, <1>12, <2>1, <2>2, NoticedKept
<1> QED BY <1>11, <1>12, <1>13, <1>14, <1>15, <1>16, <1>17 DEF WinInv

-----------------------------------------------------------------------------
(* loadOlder()                                                             *)

\* A run before a run
LEMMA Prepended ==
    ASSUME NEW k \in Seq(Nat), NEW log \in Seq(Nat), NEW x \in Nat \ {0}, NEW o \in Nat,
           x < o, LogIsFrom(k, x, o - 1), log # <<>>, log[1] = o,
           NEW c, NEW q \in Seq(Happenings), NEW l \in Nat, LogRuns(log, q, c, l)
    PROVE  LogRuns(k \o log, q, c, l)
<1>1. PICK n \in Nat : n = Len(k) /\ n = o - x /\ DOMAIN k = 1 .. n
  BY DEF LogIsFrom
<1>2. PICK m \in Nat : m = Len(log) /\ DOMAIN log = 1 .. m
  OBVIOUS
<1>3. PICK z : z = k \o log
  OBVIOUS
<1>4. z \in Seq(Nat) /\ Len(z) = n + m /\ DOMAIN z = 1 .. n + m
      /\ \A i \in 1 .. n + m : z[i] = IF i <= n THEN k[i] ELSE log[i - n]
  <2>1. /\ k \o log \in Seq(Nat) /\ Len(k \o log) = Len(k) + Len(log)
        /\ \A i \in 1 .. Len(k) + Len(log) :
             (k \o log)[i] = IF i <= Len(k) THEN k[i] ELSE log[i - Len(k)]
    BY ConcatProperties
  <2>2. z \in Seq(Nat) /\ Len(z) = n + m
    BY <1>1, <1>2, <1>3, <2>1
  <2>3. DOMAIN z = 1 .. n + m
    BY <2>2
  <2>4. \A i \in 1 .. n + m : z[i] = IF i <= n THEN k[i] ELSE log[i - n]
    BY <1>1, <1>2, <1>3, <2>1
  <2> QED BY <2>2, <2>3, <2>4
<1>5. \A i \in 1 .. n + m : z[i] = IF i <= n THEN k[i] ELSE log[i - n]
  BY <1>4
<1>6. /\ c \in Convs /\ o + m <= l + 1 /\ \A i \in 1 .. m : log[i] = o + i - 1
      /\ \A i \in DOMAIN q : MsgOf(q[i], c) => o <= q[i].n
      /\ \A j \in o + m .. l : ToldIn(q, c, j)
  BY <1>2 DEF LogRuns
<1>7. \A i \in 1 .. n : k[i] = x + i - 1
  BY <1>1 DEF LogIsFrom
<1>8. \A i \in 1 .. n + m : z[i] = x + i - 1
  <2> TAKE i \in 1 .. n + m
  <2>1. CASE i <= n
    BY <1>5, <1>7, <2>1
  <2>2. CASE ~(i <= n)
    <3>1. i - n \in 1 .. m /\ z[i] = log[i - n]
      BY <1>5, <2>2
    <3>2. log[i - n] = o + (i - n) - 1
      BY <1>6, <3>1
    <3> QED BY <1>1, <3>1, <3>2
  <2> QED BY <2>1, <2>2
<1>9. z[1] = x /\ z # <<>>
  <2>1. 1 \in 1 .. n + m
    BY <1>1
  <2> QED BY <1>4, <1>8, <2>1
<1>10. x + (n + m) = o + m
  BY <1>1
<1>11. \A i \in DOMAIN q : MsgOf(q[i], c) => x <= q[i].n
  <2> SUFFICES ASSUME NEW i \in DOMAIN q, MsgOf(q[i], c), o <= q[i].n PROVE x <= q[i].n
    BY <1>6
  <2>1. q[i].n \in Nat
    <3>1. q[i] \in Happenings
      OBVIOUS
    <3> QED BY <3>1 DEF Happenings
  <2> QED BY <2>1
<1> QED BY <1>3, <1>4, <1>6, <1>8, <1>9, <1>10, <1>11 DEF LogRuns

\* What loadOlder() puts before a log, it puts there without a gap.
Lengthens(log) == \A q \in Seq(Happenings) :
    LogRuns(win.log, q, win.conv, last[win.conv]) => LogRuns(log, q, win.conv, last[win.conv])

LEMMA OlderRun ==
    ASSUME BackendTypes, RingRuns, win \in Windows, win.log # <<>>, win.conv \in bConvs,
           Oldest \in ring[win.conv], NewestOf(Older, Page) # {}
    PROVE  /\ InOrder(NewestOf(Older, Page), win.conv) \o win.log \in Seq(Nat)
           /\ Lengthens(InOrder(NewestOf(Older, Page), win.conv) \o win.log)
<1>1. PICK c \in Convs : c = win.conv
  BY DEF BackendTypes
<1>2. PICK l \in Nat : l = last[c]
  BY <1>1 DEF BackendTypes
<1>3. PICK S : S = ring[c]
  OBVIOUS
<1>4. PICK log \in Seq(Nat) : log = win.log
  BY DEF Windows
<1>5. PICK o \in Nat : o = log[1] /\ o = Oldest
  <2>1. log # <<>>
    BY <1>4
  <2>2. Head(log) = log[1] /\ log[1] \in Nat
    BY <2>1
  <2> QED BY <1>4, <2>2 DEF Oldest
<1>6. o \in S /\ \A m \in S : m \in 1 .. l /\ m .. l \subseteq S
  BY <1>1, <1>2, <1>3, <1>5 DEF RingRuns
<1>7. PICK a \in 1 .. l : S = a .. l
  BY <1>6, UpToIsRun
<1>8. Older = a .. o - 1
  <2>1. Older = {m \in S : m < o}
    BY <1>1, <1>3, <1>5 DEF Older
  <2>2. \A m \in Nat : m \in a .. l /\ m < o <=> m \in a .. o - 1
    BY <1>6, <1>7
  <2>3. S \subseteq Nat /\ a .. o - 1 \subseteq Nat
    BY <1>7
  <2> QED BY <1>7, <2>1, <2>2, <2>3
<1>9. a <= o - 1 /\ o - 1 \in Nat /\ o - 1 <= l
  <2>1. Older # {}
    BY DEF NewestOf
  <2>2. PICK m : m \in a .. o - 1
    BY <1>8, <2>1
  <2> QED BY <1>6, <1>7, <2>2
<1>10. PICK x \in a .. o - 1 : LogIsFrom(InOrder(NewestOf(Older, Page), c), x, o - 1)
  <2>1. last[c] \in Nat /\ a \in Nat \ {0} /\ o - 1 <= last[c]
    BY <1>2, <1>9
  <2> QED BY <1>8, <1>9, <2>1, NewestInOrder
<1>11. PICK k : k = InOrder(NewestOf(Older, Page), c)
  OBVIOUS
<1>12. k \in Seq(Nat) /\ LogIsFrom(k, x, o - 1)
  BY <1>10, <1>11 DEF LogIsFrom
<1>13. k \o log \in Seq(Nat)
  BY <1>12, ConcatProperties
<1>14. x \in Nat \ {0} /\ x < o /\ log # <<>> /\ log[1] = o
  BY <1>4, <1>5, <1>9
<1>15. \A q \in Seq(Happenings) : LogRuns(log, q, c, l) => LogRuns(k \o log, q, c, l)
  BY <1>12, <1>14, Prepended
<1> QED BY <1>1, <1>2, <1>4, <1>11, <1>13, <1>15 DEF Lengthens

LEMMA LoadOlderIs ==
    ASSUME WinInv, loadOlder
    PROVE  /\ asking' \subseteq bConvs
           /\ \E log \in Seq(Nat), b \in BOOLEAN :
                win' = [win EXCEPT !.log = log, !.noOlder = b] /\ Lengthens(log)
<1>1. BackendTypes /\ RingRuns /\ win \in Windows
  BY DEF WinInv, WindowTypes
<1>2. win.log \in Seq(Nat) /\ win.noOlder \in BOOLEAN /\ asking \subseteq bConvs
  BY <1>1 DEF Windows, BackendTypes
<1>3. win = [win EXCEPT !.log = win.log, !.noOlder = win.noOlder] /\ Lengthens(win.log)
  BY <1>1 DEF Windows, Lengthens
<1>4. CASE win.noOlder \/ win.log = <<>> \/ win.conv \notin bConvs
  <2>1. win' = win /\ asking' = asking
    BY <1>4 DEF loadOlder
  <2> QED BY <1>2, <1>3, <2>1
<1>5. CASE ~(win.noOlder \/ win.log = <<>> \/ win.conv \notin bConvs)
  <2>1. CASE Older = {} /\ Oldest \in ring[win.conv] /\ win.conv \notin gotAll
    <3>1. win' = win /\ asking' = asking \cup {win.conv}
      BY <1>5, <2>1 DEF loadOlder
    <3>2. asking' \subseteq bConvs
      BY <1>2, <1>5, <3>1
    <3> QED BY <1>2, <1>3, <3>1, <3>2
  <2>2. CASE ~(Older = {} /\ Oldest \in ring[win.conv] /\ win.conv \notin gotAll)
    <3>1. PICK more : more = IF Oldest \in ring[win.conv] THEN NewestOf(Older, Page) ELSE {}
      OBVIOUS
    <3>2. /\ asking' = asking
          /\ win' = IF more = {} THEN [win EXCEPT !.noOlder = TRUE]
                    ELSE [win EXCEPT !.log = InOrder(more, win.conv) \o win.log]
      BY <1>5, <2>2, <3>1 DEF loadOlder
    <3>3. CASE more = {}
      <4>1. win' = [win EXCEPT !.log = win.log, !.noOlder = TRUE]
        BY <1>1, <3>2, <3>3 DEF Windows
      <4> QED BY <1>2, <1>3, <3>2, <4>1
    <3>4. CASE more # {}
      <4>1. more = NewestOf(Older, Page) /\ Oldest \in ring[win.conv]
        BY <3>1, <3>4
      <4>2. PICK log : log = InOrder(more, win.conv) \o win.log
        OBVIOUS
      <4>3. log \in Seq(Nat) /\ Lengthens(log)
        BY <1>1, <1>5, <3>4, <4>1, <4>2, OlderRun
      <4>4. win' = [win EXCEPT !.log = log, !.noOlder = win.noOlder]
        BY <1>1, <3>2, <3>4, <4>2 DEF Windows
      <4> QED BY <1>2, <3>2, <4>3, <4>4
    <3> QED BY <3>3, <3>4
  <2> QED BY <2>1, <2>2
<1> QED BY <1>4, <1>5

LEMMA OlderStep ==
    ASSUME WinInv, loadOlder, UNCHANGED <<gen, cgen, last, ring, bConvs, queue, reborn, polling, texts>>,
           Quieter(batch, batch')
    PROVE  /\ asking' \subseteq bConvs /\ win' \in Windows /\ win'.conv = win.conv
           /\ Window' /\ PendingRuns' /\ LogFollows'
<1>1. /\ BackendTypes /\ ClientTypes /\ WindowTypes /\ PendingRuns /\ LogFollows
  BY DEF WinInv
<1>2. PICK log \in Seq(Nat), b \in BOOLEAN :
        win' = [win EXCEPT !.log = log, !.noOlder = b] /\ Lengthens(log)
  BY LoadOlderIs
<1>3. win' \in Windows /\ win'.conv = win.conv /\ win'.log = log /\ Window'
  BY <1>2, LogOnly
<1>4. asking' \subseteq bConvs
  BY LoadOlderIs
<1>5. ASSUME gen = cgen
      PROVE  /\ Pend(batch' \o queue, last, ring, reborn)
             /\ polling # "reset" => Follow(win', batch' \o queue, last, reborn)
  <2>1. PICK b0 \in Seq(Happenings) : b0 = batch
    BY <1>1 DEF ClientTypes
  <2>2. PICK q \in Seq(Happenings) : q = queue
    BY <1>1 DEF BackendTypes
  <2>3. PICK c : c = batch'
    OBVIOUS
  <2>4. PICK l \in [Convs -> Nat] : l = last
    BY <1>1 DEF BackendTypes
  <2>5. PICK w \in Windows : w = win'
    BY <1>3
  <2>6. Pend(b0 \o q, l, ring, reborn)
    BY <1>1, <1>5, <2>1, <2>2, <2>4 DEF PendingRuns, ToTell
  <2>7. polling # "reset" => Follow(w, b0 \o q, l, reborn)
    <3>1. PICK t \in Seq(Happenings) : t = b0 \o q
      BY JoinSeq
    <3>2. polling # "reset" => Follow(win, t, l, reborn)
      BY <1>1, <1>5, <2>1, <2>2, <2>4, <3>1 DEF LogFollows, ToTell
    <3>3. polling # "reset" => Follow(w, t, l, reborn)
      BY <1>2, <1>3, <2>4, <2>5, <3>2 DEF Follow, Lengthens
    <3> QED BY <3>1, <3>3
  <2>8. Quieter(b0, c) /\ More(q, q)
    BY <2>1, <2>3 DEF More
  <2>9. Pend(c \o q, l, ring, reborn) /\ (Follow(w, b0 \o q, l, reborn) => Follow(w, c \o q, l, reborn))
    BY <2>6, <2>8, TellsQuietly
  <2> QED BY <2>2, <2>3, <2>4, <2>5, <2>7, <2>9
<1>6. PendingRuns' /\ LogFollows'
  BY <1>5 DEF PendingRuns, LogFollows, ToTell
<1> QED BY <1>3, <1>4, <1>6

LEMMA OlderEventKeeps == ASSUME WinInv, OlderEvent PROVE WinInv'
<1>1. /\ BackendTypes /\ ClientTypes /\ WindowTypes /\ RingRuns /\ Synced /\ Noticed
  BY DEF WinInv
<1>2. /\ Tells("history before")
      /\ UNCHANGED <<bAccts, bConvs, ring, last, unread, gotAll, waiting, queue, gen, invited, slipped>>
  BY DEF OlderEvent
<1>3. ToldSo("history before")
  BY <1>2, TellsIs
<1>4. ~Rises(Head(batch), win.conv)
  BY <1>2 DEF Rises, Tells
<1>5. CASE ~Here
  <2>1. win' = win /\ asking' = asking
    BY <1>5 DEF OlderEvent
  <2>2. Carried(win, win') /\ Well(win') /\ win'.conv = win.conv
    BY <2>1, WindowIs
  <2>3. asking' \subseteq bConvs
    BY <1>1, <2>1 DEF BackendTypes
  <2> QED BY <1>2, <1>3, <1>4, <2>2, <2>3, ToldQuietly
<1>6. CASE Here
  <2>1. loadOlder
    BY <1>6 DEF OlderEvent
  <2>2. /\ batch # <<>> /\ Head(batch).t = "history before" /\ batch' = Tail(batch)
        /\ UNCHANGED <<model, mAccts, cgen, polling, pane, front, dlg, todo, texts, asked,
                       dropped, reborn>>
    BY <1>3 DEF ToldSo
  <2>3. Quieter(batch, batch')
    BY <2>2 DEF Quieter
  <2>4. /\ asking' \subseteq bConvs /\ win' \in Windows /\ win'.conv = win.conv
        /\ Window' /\ PendingRuns' /\ LogFollows'
    BY <1>2, <2>1, <2>2, <2>3, OlderStep
  <2>5. /\ ClientTypes' /\ WindowTypes' /\ AtWork' /\ DialogNames'
        /\ polling = "told" /\ polling' = "told"
        /\ \A c : RisesIn(batch, c) <=> RisesIn(batch', c) \/ Rises(Head(batch), c)
    BY <1>3, <2>4, ToldOthers
  <2>6. InvitesFollowed'
    BY <1>2, <1>3, <2>4, ToldInvites
  <2>7. BackendTypes' /\ RingRuns'
    BY <1>1, <1>2, <2>4 DEF BackendTypes, RingRuns
  <2>8. Synced'
    BY <1>1, <1>2, <2>2 DEF Synced, Meets
  <2>9. Noticed'
    <3>1. Attends' => Attends
      BY <1>2, <2>2 DEF Attends, Looking
    <3> QED BY <1>1, <1>2, <1>4, <2>2, <2>4, <2>5, <3>1, NoticedKept
  <2> QED BY <2>4, <2>5, <2>6, <2>7, <2>8, <2>9 DEF WinInv
<1> QED BY <1>5, <1>6

LEMMA PgUpKeeps == ASSUME WinInv, PgUp PROVE WinInv'
<1>1. /\ BackendTypes /\ ClientTypes /\ WindowTypes /\ RingRuns /\ Synced /\ Noticed /\ AtWork
      /\ InvitesFollowed
  BY DEF WinInv
<1>2. /\ loadOlder /\ dlg = NoDialog
      /\ UNCHANGED <<bAccts, bConvs, ring, last, unread, gotAll, waiting, queue, gen,
                     client, pane, front, slipped, dlg, todo, history>>
  BY DEF PgUp, Idle
<1>3. UNCHANGED <<model, mAccts, cgen, batch, polling, invited, texts, asked, dropped, reborn>>
  BY <1>2 DEF client, history
<1>4. /\ asking' \subseteq bConvs /\ win' \in Windows /\ win'.conv = win.conv
      /\ Window' /\ PendingRuns' /\ LogFollows'
  <2>1. Quieter(batch, batch')
    BY <1>3 DEF Quieter
  <2> QED BY <1>2, <1>3, <2>1, OlderStep
<1>5. BackendTypes' /\ RingRuns'
  BY <1>1, <1>2, <1>4 DEF BackendTypes, RingRuns
<1>6. ClientTypes' /\ AtWork' /\ DialogNames'
  BY <1>1, <1>2, <1>3 DEF ClientTypes, AtWork, DialogNames
<1>7. WindowTypes'
  BY <1>1, <1>2, <1>3, <1>4 DEF WindowTypes
<1>8. Synced'
  BY <1>1, <1>2, <1>3 DEF Synced, Meets
<1>9. Noticed'
  <2>1. Attends' => Attends
    BY <1>2 DEF Attends, Looking
  <2> QED BY <1>1, <1>2, <1>3, <1>4, <2>1, NoticedKept
<1>10. InvitesFollowed'
  BY <1>1, <1>2, <1>3, InvitesKept
<1> QED BY <1>4, <1>5, <1>6, <1>7, <1>8, <1>9, <1>10 DEF WinInv

-----------------------------------------------------------------------------
(* What goes on once a poll is over, and the user                          *)

LEMMA TodoLess ==
    ASSUME NEW td \in Seq(Tasks), td # <<>>
    PROVE  /\ Head(td) \in Tasks /\ Tail(td) \in Seq(Tasks)
           /\ \A i : LeftIn(td, i) =>
                LeftIn(Tail(td), i) \/ (Head(td).k = "invites" /\ i \in Head(td).left)
<1>1. PICK n \in Nat \ {0} : n = Len(td) /\ DOMAIN td = 1 .. n
  OBVIOUS
<1>2. PICK z : z = Tail(td)
  OBVIOUS
<1>3. /\ z \in Seq(Tasks) /\ DOMAIN z = 1 .. n - 1 /\ Head(td) = td[1] /\ Head(td) \in Tasks
      /\ \A j \in 1 .. n - 1 : z[j] = td[j + 1]
  BY <1>1, <1>2
<1>4. ASSUME NEW i, LeftIn(td, i)
      PROVE  LeftIn(z, i) \/ (Head(td).k = "invites" /\ i \in Head(td).left)
  <2>1. PICK j \in 1 .. n : td[j].k = "invites" /\ i \in td[j].left
    BY <1>1, <1>4 DEF LeftIn
  <2>2. CASE j = 1
    BY <1>3, <2>1, <2>2
  <2>3. CASE j # 1
    <3>1. j - 1 \in 1 .. n - 1 /\ z[j - 1] = td[j]
      BY <1>3, <2>3
    <3> QED BY <1>3, <2>1, <3>1 DEF LeftIn
  <2> QED BY <2>2, <2>3
<1> QED BY <1>2, <1>3, <1>4

LEMMA TodoMore ==
    ASSUME NEW td \in Seq(Tasks), NEW x \in Tasks
    PROVE  /\ <<x>> \o td \in Seq(Tasks)
           /\ \A i : LeftIn(td, i) => LeftIn(<<x>> \o td, i)
           /\ \A i : x.k = "invites" /\ i \in x.left => LeftIn(<<x>> \o td, i)
<1>1. PICK n \in Nat : n = Len(td) /\ DOMAIN td = 1 .. n
  OBVIOUS
<1>2. PICK z : z = <<x>> \o td
  OBVIOUS
<1>3. /\ z \in Seq(Tasks) /\ DOMAIN z = 1 .. n + 1 /\ z[1] = x
      /\ \A j \in 1 .. n : z[j + 1] = td[j]
  BY <1>1, <1>2
<1>4. ASSUME NEW i, LeftIn(td, i) PROVE LeftIn(z, i)
  <2>1. PICK j \in 1 .. n : td[j].k = "invites" /\ i \in td[j].left
    BY <1>1, <1>4 DEF LeftIn
  <2>2. j + 1 \in 1 .. n + 1 /\ z[j + 1] = td[j]
    BY <1>3
  <2> QED BY <1>3, <2>1, <2>2 DEF LeftIn
<1>5. ASSUME NEW i, x.k = "invites", i \in x.left PROVE LeftIn(z, i)
  <2>1. 1 \in 1 .. n + 1
    OBVIOUS
  <2> QED BY <1>3, <1>5, <2>1 DEF LeftIn
<1> QED BY <1>2, <1>3, <1>4, <1>5

\* The user, with nothing of the backend's or the window's changed
LEMMA UserActs ==
    ASSUME WinInv, UNCHANGED <<bAccts, bConvs, ring, last, unread, asking, queue, gen,
                               model, mAccts, cgen, batch, win, pane, front, slipped, texts, dropped, reborn>>,
           waiting' \subseteq waiting, todo' \in Seq(Tasks),
           polling' \in {"no", "due", "told", "reset"}, invited' \in BOOLEAN,
           polling' = "reset" <=> polling = "reset",
           AtWork', DialogNames', InvitesFollowed'
    PROVE  WinInv'
<1>1. /\ BackendTypes /\ ClientTypes /\ WindowTypes /\ Window /\ RingRuns /\ PendingRuns
      /\ LogFollows /\ Synced /\ Noticed
  BY DEF WinInv
<1>2. BackendTypes' /\ ClientTypes' /\ WindowTypes'
  BY <1>1 DEF BackendTypes, ClientTypes, WindowTypes
<1>3. Window' /\ RingRuns'
  BY <1>1 DEF Window, SentHome, RingRuns
<1>4. PendingRuns' /\ LogFollows' /\ Synced' /\ Noticed'
  BY <1>1 DEF PendingRuns, LogFollows, Synced, Noticed, ToTell, Attends, Looking
<1> QED BY <1>2, <1>3, <1>4 DEF WinInv

\* ... or with something else shown, which is read if looked at
LEMMA UserShows ==
    ASSUME WinInv, dlg' = NoDialog, BackendButReads,
           UNCHANGED <<model, mAccts, cgen, batch, invited, texts, asked, dropped, reborn>>,
           pane' \in BOOLEAN, front' \in BOOLEAN,
           todo' \in Seq(Tasks), \A i : LeftIn(todo, i) => LeftIn(todo', i),
           polling' \in {"no", "due", "told", "reset"}, batch = <<>>, ~invited,
           Carried(win, win'), Well(win'), Read(win'.conv, queue), Minded,
           polling' = "reset" \/ polling # "reset" \/ win'.log = LatestOf(win'.conv)
    PROVE  WinInv'
<1>1. /\ BackendTypes /\ ClientTypes /\ WindowTypes /\ AtWork /\ InvitesFollowed
  BY DEF WinInv
<1>2. Quieter(batch, batch')
  BY DEF Quieter
<1>3. /\ BackendTypes' /\ RingRuns' /\ PendingRuns' /\ LogFollows' /\ Synced' /\ Noticed'
      /\ Window'
      /\ \A i : InviteIn(queue, i) => InviteIn(queue', i)
  BY <1>2, ShowStep
<1>4. waiting' = waiting /\ gen' = gen
  BY DEF BackendButReads
<1>5. ClientTypes'
  BY <1>1, <1>4 DEF ClientTypes
<1>6. WindowTypes'
  BY <1>1 DEF WindowTypes, Carried
<1>7. AtWork' /\ DialogNames'
  BY DEF AtWork, DialogNames
<1>8. InvitesFollowed'
  BY <1>1, <1>3, <1>4, InvitesKept
<1> QED BY <1>3, <1>5, <1>6, <1>7, <1>8 DEF WinInv

\* When it is the user's turn.
LEMMA GoesIs ==
    ASSUME WinInv, Goes
    PROVE  /\ batch = <<>> /\ ~invited /\ polling = "no" /\ dlg = NoDialog /\ todo # <<>>
           /\ todo \in Seq(Tasks) /\ Top \in Tasks /\ Tail(todo) \in Seq(Tasks)
           /\ \A i : LeftIn(todo, i) => LeftIn(Tail(todo), i) \/ (Top.k = "invites" /\ i \in Top.left)
<1>1. batch = <<>> /\ ~invited /\ polling = "no" /\ dlg = NoDialog /\ todo # <<>>
  BY DEF WinInv, AtWork, Goes
<1>2. todo \in Seq(Tasks)
  BY DEF WinInv, WindowTypes
<1> QED BY <1>1, <1>2, TodoLess DEF Top

LEMMA IdleIs ==
    ASSUME WinInv, Idle
    PROVE  batch = <<>> /\ ~invited /\ polling = "no" /\ dlg = NoDialog /\ todo = <<>> /\ todo \in Seq(Tasks)
BY DEF WinInv, AtWork, WindowTypes, Idle

\* showChatWindow(): in front, and read
LEMMA ToFrontKeeps == ASSUME WinInv, ToFront PROVE WinInv'
<1>1. /\ Goes /\ front' = TRUE /\ markRead(win, model, pane, queue) /\ BackendButReads
      /\ UNCHANGED <<client, win, pane, dlg, todo, history, budget>>
  BY DEF ToFront
<1>2. UNCHANGED <<model, mAccts, cgen, batch, polling, invited, texts, asked, dropped, reborn>>
  BY <1>1 DEF client, history
<1>3. batch = <<>> /\ ~invited /\ polling = "no" /\ dlg = NoDialog /\ todo \in Seq(Tasks)
  BY <1>1, GoesIs
<1>4. pane' \in BOOLEAN /\ front' \in BOOLEAN
  BY <1>1 DEF WinInv, WindowTypes
<1>5. PICK looking \in BOOLEAN : looking = pane
  BY DEF WinInv, WindowTypes
<1>6. /\ Read(win.conv, queue)
      /\ looking /\ win.conv \in DOMAIN model \cap bConvs /\ model[win.conv] > 0 => unread'[win.conv] = 0
  BY <1>1, <1>5, WindowIs, ReadIs DEF BackendTypes
<1>7. Minded
  BY <1>1, <1>5, <1>6 DEF Minded, Attends, Looking
<1> QED BY <1>1, <1>2, <1>3, <1>4, <1>6, <1>7, WindowIs, UserShows

\* The account, with what it shows read; the lists alone, if it is shown
LEMMA ShowsAccountIs ==
    ASSUME WinInv, NEW a \in Accts, ShowsAccount(a),
           UNCHANGED <<batch, front>>, polling = "no", pane' = FALSE \/ pane' = pane
    PROVE  Carried(win, win') /\ Well(win') /\ Read(win'.conv, queue) /\ Minded
<1>1. PICK r : r = refreshLists(win, model, mAccts, FALSE)
  OBVIOUS
<1>2. IF r.acct = a THEN win' = r /\ UNCHANGED <<unread, queue, slipped>>
      ELSE /\ win' = showAccount(r, model, a)
           /\ markRead(win', model, pane /\ ~Shown(r, win'.conv), queue)
  BY <1>1 DEF ShowsAccount
<1>3. Fresh(win, r) /\ r.conv = win.conv
  BY <1>1, WindowIs, ModelIs, RefreshListsIs
<1>4. Carried(win, r) /\ Well(r) /\ r \in Windows
  BY <1>3 DEF Fresh, Carried
<1>5. CASE r.acct = a
  <2>1. win' = r /\ UNCHANGED <<unread, queue, slipped>>
    BY <1>2, <1>5
  <2>2. Read(win'.conv, queue)
    BY <2>1 DEF Read
  <2>3. Minded
    BY <1>3, <2>1 DEF Minded, Attends, Looking
  <2> QED BY <1>4, <2>1, <2>2, <2>3
<1>6. CASE r.acct # a
  <2>1. PICK w : w = win'
    OBVIOUS
  <2>2. w = showAccount(r, model, a) /\ markRead(w, model, pane /\ ~Shown(r, w.conv), queue)
    BY <1>2, <1>6, <2>1
  <2>3. Fresh(r, w)
    BY <1>4, <2>2, WindowIs, ModelIs, ShowAccountIs
  <2>4. Carried(win, w) /\ Well(w)
    BY <1>4, <2>3, CarriedOn DEF Fresh
  <2>5. PICK looking \in BOOLEAN : looking = (pane /\ ~Shown(r, w.conv))
    OBVIOUS
  <2>6. /\ Read(w.conv, queue)
        /\ looking /\ w.conv \in DOMAIN model \cap bConvs /\ model[w.conv] > 0 => unread'[w.conv] = 0
    BY <2>2, <2>5, WindowIs, ReadIs DEF BackendTypes
  <2>7. Minded
    <3>1. CASE looking
      BY <2>1, <2>6, <3>1 DEF Minded
    <3>2. CASE ~looking /\ ~pane
      BY <3>2 DEF Minded, Attends, Looking
    <3>3. CASE ~looking /\ Shown(r, w.conv)
      <4>1. w.conv = win.conv
        BY <1>3, <3>3 DEF Shown
      <4>2. UNCHANGED <<unread, queue, slipped>>
        BY <2>2, <2>5, <3>3, Zenon DEF markRead
      <4> QED BY <2>1, <4>1, <4>2 DEF Minded, Attends, Looking
    <3> QED BY <2>5, <3>1, <3>2, <3>3
  <2> QED BY <2>1, <2>4, <2>6, <2>7
<1> QED BY <1>5, <1>6

LEMMA GoesToAccountKeeps == ASSUME WinInv, GoesToAccount PROVE WinInv'
<1>1. /\ Goes /\ Top.k = "account" /\ ShowsAccount(Top.a) /\ pane' = FALSE /\ todo' = Tail(todo)
      /\ BackendButReads /\ UNCHANGED <<client, front, dlg, history, budget>>
  BY DEF GoesToAccount
<1>2. UNCHANGED <<model, mAccts, cgen, batch, polling, invited, texts, asked, dropped, reborn>>
  BY <1>1 DEF client, history
<1>3. /\ batch = <<>> /\ ~invited /\ polling = "no" /\ dlg = NoDialog /\ Top \in Tasks
      /\ Tail(todo) \in Seq(Tasks)
      /\ \A i : LeftIn(todo, i) => LeftIn(Tail(todo), i) \/ (Top.k = "invites" /\ i \in Top.left)
  BY <1>1, GoesIs
<1>4. Top.a \in Accts
  BY <1>1, <1>3 DEF Tasks
<1>5. Carried(win, win') /\ Well(win') /\ Read(win'.conv, queue) /\ Minded
  BY <1>1, <1>2, <1>3, <1>4, ShowsAccountIs
<1>6. pane' \in BOOLEAN /\ front' \in BOOLEAN
  BY <1>1 DEF WinInv, WindowTypes
<1> QED BY <1>1, <1>2, <1>3, <1>5, <1>6, UserShows

LEMMA ToAccountKeeps == ASSUME WinInv, ToAccount PROVE WinInv'
<1>1. /\ Goes /\ Top.k = "conv" /\ ShowsAccount(AcctOf[Top.c])
      /\ todo' = <<[k |-> "there", c |-> Top.c]>> \o Tail(todo)
      /\ BackendButReads /\ UNCHANGED <<client, pane, front, dlg, history, budget>>
  BY DEF ToAccount
<1>2. UNCHANGED <<model, mAccts, cgen, batch, polling, invited, texts, asked, dropped, reborn>>
  BY <1>1 DEF client, history
<1>3. /\ batch = <<>> /\ ~invited /\ polling = "no" /\ dlg = NoDialog /\ Top \in Tasks
      /\ Tail(todo) \in Seq(Tasks)
      /\ \A i : LeftIn(todo, i) => LeftIn(Tail(todo), i) \/ (Top.k = "invites" /\ i \in Top.left)
  BY <1>1, GoesIs
<1>4. PICK c \in Convs : c = Top.c
  BY <1>1, <1>3 DEF Tasks
<1>5. PICK a \in Accts : a = AcctOf[c]
  BY ConvsAre
<1>6. Carried(win, win') /\ Well(win') /\ Read(win'.conv, queue) /\ Minded
  <2>1. ShowsAccount(a)
    BY <1>1, <1>4, <1>5
  <2> QED BY <1>1, <1>2, <1>3, <2>1, ShowsAccountIs
<1>7. pane' \in BOOLEAN /\ front' \in BOOLEAN
  BY <1>1 DEF WinInv, WindowTypes
<1>8. todo' \in Seq(Tasks) /\ \A i : LeftIn(todo, i) => LeftIn(todo', i)
  <2>1. PICK x : x = [k |-> "there", c |-> c]
    OBVIOUS
  <2>2. x \in Tasks
    BY <2>1 DEF Tasks
  <2>3. PICK td \in Seq(Tasks) : td = Tail(todo)
    BY <1>3
  <2>4. todo' = <<x>> \o td
    BY <1>1, <1>4, <2>1, <2>3
  <2>5. <<x>> \o td \in Seq(Tasks) /\ \A i : LeftIn(td, i) => LeftIn(<<x>> \o td, i)
    BY <2>2, TodoMore
  <2>6. \A i : LeftIn(todo, i) => LeftIn(td, i)
    BY <1>1, <1>3, <2>3
  <2> QED BY <2>4, <2>5, <2>6
<1> QED BY <1>1, <1>2, <1>3, <1>6, <1>7, <1>8, UserShows

\* Where the focus comes to is read, but for talk's classic pane.
FocusReads(w, looking) ==
    looking /\ ~slipped' /\ w.conv \in DOMAIN model \cap bConvs /\ model[w.conv] > 0 =>
      unread'[w.conv] = 0
LEMMA FocusIs ==
    ASSUME BackendTypes, NEW w, NEW looking \in BOOLEAN, paneFocused(w, looking)
    PROVE  Read(w.conv, queue) /\ FocusReads(w, looking)
<1>1. CASE w.conv \in Classic /\ looking
  <2>1. PICK un \in BOOLEAN : un = Unseen(w, model)
    BY DEF Unseen
  <2>2. UNCHANGED <<unread, queue>> /\ slipped' = un
    BY <1>1, <2>1, Zenon DEF paneFocused
  <2> QED BY <2>1, <2>2 DEF Read, FocusReads, Unseen
<1>2. CASE ~(w.conv \in Classic /\ looking)
  <2>1. markRead(w, model, looking, queue)
    BY <1>2, Zenon DEF paneFocused
  <2>2. unread \in [Convs -> Nat] /\ bConvs \subseteq Convs
    BY DEF BackendTypes
  <2> QED BY <2>1, <2>2, ReadIs DEF FocusReads
<1> QED BY <1>1, <1>2

LEMMA GoesToConvKeeps == ASSUME WinInv, GoesToConv PROVE WinInv'
<1>1. /\ Goes /\ Top.k = "there"
      /\ win' = showConv(setIds(win, win.rows, Top.c), Top.c) /\ pane' = TRUE
      /\ todo' = Tail(todo)
      /\ BackendButReads /\ UNCHANGED <<client, front, dlg, history, budget>>
  BY DEF GoesToConv
<1>2. UNCHANGED <<model, mAccts, cgen, batch, polling, invited, texts, asked, dropped, reborn>>
  BY <1>1 DEF client, history
<1>3. /\ batch = <<>> /\ ~invited /\ polling = "no" /\ dlg = NoDialog /\ Top \in Tasks
      /\ Tail(todo) \in Seq(Tasks)
      /\ \A i : LeftIn(todo, i) => LeftIn(Tail(todo), i) \/ (Top.k = "invites" /\ i \in Top.left)
  BY <1>1, GoesIs
<1>4. PICK c \in Convs : c = Top.c
  BY <1>1, <1>3 DEF Tasks
<1>5. PICK w : w = showConv(setIds(win, win.rows, c), c)
  OBVIOUS
<1>6. Fresh(win, w) /\ w.conv = c
  <2>1. setIds(win, win.rows, c) \in Windows
    BY WindowIs, SetIdsIs DEF Listed, Windows
  <2>2. c \in Convs \cup {None}
    OBVIOUS
  <2> QED BY <1>5, <2>1, <2>2, WindowIs, FromListIs, ShowConvIs DEF ShownAs
<1>7. Carried(win, w) /\ Well(w) /\ win' = w
  BY <1>1, <1>4, <1>5, <1>6 DEF Fresh
<1>8. pane' \in BOOLEAN /\ front' \in BOOLEAN
  BY <1>1 DEF WinInv, WindowTypes
<1>9. Read(w.conv, queue) /\ Minded
  <2>1. CASE ~pane
    <3>1. paneFocused(w, TRUE)
      BY <1>7, <2>1 DEF GoesToConv
    <3>2. Read(w.conv, queue) /\ FocusReads(w, TRUE)
      BY <3>1, WindowIs, FocusIs
    <3> QED BY <1>7, <3>2 DEF Minded, FocusReads, Attends
  <2>2. CASE pane
    <3>1. PICK looking \in BOOLEAN : looking = ~Shown(win, c)
      OBVIOUS
    <3>2. markRead(w, model, looking, queue)
      BY <1>4, <1>7, <2>2, <3>1 DEF GoesToConv
    <3>3. /\ Read(w.conv, queue)
          /\ looking /\ w.conv \in DOMAIN model \cap bConvs /\ model[w.conv] > 0 => unread'[w.conv] = 0
      BY <3>2, WindowIs, ReadIs DEF BackendTypes
    <3>4. CASE looking
      BY <1>7, <3>3, <3>4 DEF Minded
    <3>5. CASE ~looking
      <4>1. w.conv = win.conv
        BY <1>6, <3>1, <3>5 DEF Shown
      <4>2. UNCHANGED <<unread, queue, slipped>>
        BY <3>2, <3>5, Zenon DEF markRead
      <4> QED BY <1>1, <1>2, <1>3, <1>7, <2>2, <3>3, <4>1, <4>2 DEF Minded, Attends, Looking
    <3> QED BY <3>3, <3>4, <3>5
  <2> QED BY <2>1, <2>2 DEF WinInv, WindowTypes
<1> QED BY <1>1, <1>2, <1>3, <1>7, <1>8, <1>9, UserShows

LEMMA InvitesDoneKeeps == ASSUME WinInv, InvitesDone PROVE WinInv'
<1>1. /\ Goes /\ Top.k = "invites" /\ asked' = asked \cup Top.left /\ todo' = Tail(todo)
      /\ polling' = "due"
      /\ UNCHANGED <<backend, model, mAccts, cgen, batch, invited, window, dlg,
                     texts, dropped, reborn, budget>>
  BY DEF InvitesDone
<1>2. UNCHANGED <<bAccts, bConvs, ring, last, unread, gotAll, asking, waiting, queue, gen, win, pane, front, slipped>>
  BY <1>1 DEF backend, window
<1>3. /\ batch = <<>> /\ ~invited /\ polling = "no" /\ dlg = NoDialog
      /\ Tail(todo) \in Seq(Tasks)
      /\ \A i : LeftIn(todo, i) => LeftIn(Tail(todo), i) \/ (Top.k = "invites" /\ i \in Top.left)
  BY <1>1, GoesIs
<1>4. AtWork' /\ DialogNames'
  BY <1>1, <1>3 DEF AtWork, DialogNames
<1>5. InvitesFollowed'
  <2>1. InvitesFollowed
    BY DEF WinInv
  <2> QED BY <1>1, <1>2, <1>3, <2>1, InvitesKept
<1>6. invited' \in BOOLEAN
  BY <1>1 DEF WinInv, ClientTypes
<1> QED BY <1>1, <1>2, <1>3, <1>4, <1>5, <1>6, UserActs

\* All told
LEMMA AskingIs ==
    ASSUME WinInv, AsksInvites
    PROVE  /\ todo' \in Seq(Tasks) /\ \A i : LeftIn(todo, i) => LeftIn(todo', i)
           /\ \A i \in waiting : LeftIn(todo', i)
<1>1. todo \in Seq(Tasks) /\ waiting \subseteq Invites
  BY DEF WinInv, WindowTypes, BackendTypes
<1>2. CASE waiting = {}
  BY <1>1, <1>2 DEF AsksInvites
<1>3. CASE waiting # {}
  <2>1. PICK x : x = [k |-> "invites", left |-> waiting]
    OBVIOUS
  <2>2. x \in Tasks /\ x.k = "invites" /\ x.left = waiting
    BY <1>1, <2>1 DEF Tasks
  <2>3. todo' = <<x>> \o todo
    BY <1>3, <2>1 DEF AsksInvites
  <2> QED BY <1>1, <2>2, <2>3, TodoMore
<1> QED BY <1>2, <1>3

LEMMA chatEventsKeeps == ASSUME WinInv, chatEvents PROVE WinInv'
<1>1. /\ polling = "told" /\ batch = <<>> /\ polling' = "no" /\ invited' = FALSE
      /\ (invited => AsksInvites) /\ (~invited => todo' = todo)
      /\ UNCHANGED <<backend, model, mAccts, cgen, batch, window, dlg, history, budget>>
  BY DEF chatEvents, WinInv, ClientTypes
<1>2. /\ UNCHANGED <<bAccts, bConvs, ring, last, unread, gotAll, asking, waiting, queue, gen, win, pane, front, slipped>>
      /\ UNCHANGED <<texts, asked, dropped, reborn>>
  BY <1>1 DEF backend, window, history
<1>3. dlg = NoDialog
  BY <1>1 DEF WinInv, AtWork
<1>4. AtWork' /\ DialogNames'
  BY <1>1, <1>3 DEF AtWork, DialogNames
<1>5. todo' \in Seq(Tasks) /\ (\A i : LeftIn(todo, i) => LeftIn(todo', i))
      /\ (invited => \A i \in waiting : LeftIn(todo', i))
  <2>1. todo \in Seq(Tasks)
    BY DEF WinInv, WindowTypes
  <2> QED BY <1>1, <2>1, AskingIs
<1>6. InvitesFollowed'
  <2>1. InvitesFollowed
    BY DEF WinInv
  <2> QED BY <1>1, <1>2, <1>5, <2>1 DEF InvitesFollowed
<1> QED BY <1>1, <1>2, <1>4, <1>5, <1>6, UserActs

-----------------------------------------------------------------------------
(* Questions about invitations                                             *)

LEMMA OthersLeftIs ==
    ASSUME WinInv, Goes, Top.k = "invites", NEW i
    PROVE  /\ OthersLeft(i) \in Seq(Tasks)
           /\ \A k : LeftIn(todo, k) => LeftIn(OthersLeft(i), k) \/ k = i
<1>1. /\ todo # <<>> /\ todo \in Seq(Tasks) /\ Top \in Tasks /\ Tail(todo) \in Seq(Tasks)
      /\ \A k : LeftIn(todo, k) => LeftIn(Tail(todo), k) \/ (Top.k = "invites" /\ k \in Top.left)
  BY GoesIs
<1>2. PICK x : x = [Top EXCEPT !.left = @ \ {i}]
  OBVIOUS
<1>3. x \in Tasks /\ x.k = "invites" /\ x.left = Top.left \ {i}
  BY <1>1, <1>2 DEF Tasks
<1>4. OthersLeft(i) = <<x>> \o Tail(todo)
  BY <1>2 DEF OthersLeft
<1> QED BY <1>1, <1>3, <1>4, TodoMore

LEMMA DeclineInviteKeeps == ASSUME WinInv, NEW i \in Invites, DeclineInvite(i) PROVE WinInv'
<1>1. /\ Goes /\ Top.k = "invites" /\ asked' = asked \cup {i}
      /\ waiting' = waiting \ {i} /\ todo' = OthersLeft(i)
      /\ UNCHANGED <<bAccts, bConvs, ring, last, unread, gotAll, asking, queue, gen,
                     client, window, dlg, texts, dropped, reborn, budget>>
  BY DEF DeclineInvite, Question
<1>2. UNCHANGED <<model, mAccts, cgen, batch, polling, invited, win, pane, front, slipped>>
  BY <1>1 DEF client, window
<1>3. /\ batch = <<>> /\ ~invited /\ polling = "no" /\ dlg = NoDialog
  BY <1>1, GoesIs
<1>4. /\ todo' \in Seq(Tasks) /\ \A k : LeftIn(todo, k) => LeftIn(todo', k) \/ k = i
  BY <1>1, OthersLeftIs
<1>5. AtWork' /\ DialogNames'
  BY <1>1, <1>2, <1>3 DEF AtWork, DialogNames
<1>6. InvitesFollowed'
  <2>1. InvitesFollowed
    BY DEF WinInv
  <2> QED BY <1>1, <1>2, <1>4, <2>1, InvitesKept
<1>7. invited' \in BOOLEAN
  BY <1>2 DEF WinInv, ClientTypes
<1> QED BY <1>1, <1>2, <1>3, <1>4, <1>5, <1>6, <1>7, UserActs

LEMMA AcceptInviteKeeps == ASSUME WinInv, NEW i \in Invites, AcceptInvite(i) PROVE WinInv'
<1>1. /\ Goes /\ Top.k = "invites" /\ asked' = asked \cup {i}
      /\ UNCHANGED <<bAccts, last, gen, model, mAccts, cgen, batch, invited, window, dlg,
                     texts, dropped, budget>>
  BY DEF AcceptInvite, Question
<1>2. UNCHANGED <<win, pane, front, slipped>>
  BY <1>1 DEF window
<1>3. /\ batch = <<>> /\ ~invited /\ polling = "no" /\ dlg = NoDialog
  BY <1>1, GoesIs
<1>4. invited' \in BOOLEAN
  BY <1>1 DEF WinInv, ClientTypes
<1>5. /\ OthersLeft(i) \in Seq(Tasks)
      /\ \A k : LeftIn(todo, k) => LeftIn(OthersLeft(i), k) \/ k = i
  BY <1>1, OthersLeftIs
<1>6. CASE i \in waiting /\ AcctOf[ToConv[i]] \in ToSet(bAccts)
  <2>1. PICK c \in Convs : c = ToConv[i]
    BY ConvsAre
  <2>2. /\ waiting' = waiting \ {i} /\ Opened(c) /\ polling' = "due"
        /\ todo' = <<[k |-> "conv", c |-> c]>> \o OthersLeft(i)
    BY <1>6, <2>1 DEF AcceptInvite
  <2>3. reborn' = reborn
    BY <2>2 DEF Opened
  <2>4. Aside
    BY <1>1, <1>2, <1>3, <2>2 DEF Aside
  <2>5. /\ BackendTypes' /\ RingRuns' /\ PendingRuns' /\ LogFollows' /\ Synced' /\ Noticed'
        /\ \A k : InviteIn(queue, k) => InviteIn(queue', k)
    BY <2>2, <2>4, OpenedStep
  <2>6. PICK x : x = [k |-> "conv", c |-> c]
    OBVIOUS
  <2>7. x \in Tasks
    BY <2>6 DEF Tasks
  <2>8. PICK td \in Seq(Tasks) : td = OthersLeft(i)
    BY <1>5
  <2>9. todo' \in Seq(Tasks) /\ \A k : LeftIn(todo, k) => LeftIn(todo', k) \/ k = i
    <3>1. <<x>> \o td \in Seq(Tasks) /\ \A k : LeftIn(td, k) => LeftIn(<<x>> \o td, k)
      BY <2>7, TodoMore
    <3> QED BY <1>5, <2>2, <2>6, <2>8, <3>1
  <2>10. ClientTypes' /\ WindowTypes'
    <3>1. gen' = gen
      BY <1>1
    <3> QED BY <1>1, <1>2, <1>4, <2>2, <2>3, <2>9, <3>1 DEF WinInv, ClientTypes, WindowTypes
  <2>11. AtWork' /\ DialogNames'
    BY <1>1, <1>3, <2>2 DEF AtWork, DialogNames
  <2>12. Window'
    BY <1>1, <1>2 DEF WinInv, Window, SentHome
  <2>13. InvitesFollowed'
    <3>1. InvitesFollowed
      BY DEF WinInv
    <3> QED BY <1>1, <2>2, <2>5, <2>9, <3>1, InvitesKept
  <2> QED BY <2>5, <2>10, <2>11, <2>12, <2>13 DEF WinInv
<1>7. CASE ~(i \in waiting /\ AcctOf[ToConv[i]] \in ToSet(bAccts))
  <2>1. /\ todo' = OthersLeft(i)
        /\ UNCHANGED <<waiting, bConvs, ring, unread, gotAll, asking, queue, polling, reborn>>
    BY <1>7 DEF AcceptInvite
  <2>2. todo' \in Seq(Tasks) /\ \A k : LeftIn(todo, k) => LeftIn(todo', k) \/ k = i
    BY <1>5, <2>1
  <2>3. AtWork' /\ DialogNames'
    BY <1>1, <1>3, <2>1 DEF AtWork, DialogNames
  <2>4. InvitesFollowed'
    <3>1. InvitesFollowed
      BY DEF WinInv
    <3> QED BY <1>1, <2>1, <2>2, <3>1, InvitesKept
  <2> QED BY <1>1, <1>2, <1>3, <1>4, <2>1, <2>2, <2>3, <2>4, UserActs
<1> QED BY <1>6, <1>7

-----------------------------------------------------------------------------
(* The lists, the panes, the windows                                       *)

LEMMA PickAccountKeeps == ASSUME WinInv, NEW a \in Accts, PickAccount(a) PROVE WinInv'
<1>1. /\ Idle /\ win' = showAccount(win, model, a) /\ pane' = FALSE
      /\ UNCHANGED <<backend, client, front, dlg, todo, history>>
  BY DEF PickAccount
<1>2. UNCHANGED <<model, mAccts, cgen, batch, polling, invited, texts, asked, dropped, reborn>>
  BY <1>1 DEF client, history
<1>3. batch = <<>> /\ ~invited /\ polling = "no" /\ dlg = NoDialog /\ todo \in Seq(Tasks)
  BY <1>1, IdleIs
<1>4. PICK w : w = showAccount(win, model, a)
  OBVIOUS
<1>5. Carried(win, w) /\ Well(w)
  BY <1>4, WindowIs, ModelIs, ShowAccountIs DEF Fresh
<1>6. BackendButReads /\ unread' = unread /\ queue' = queue /\ front' \in BOOLEAN
  BY <1>1 DEF backend, BackendButReads, WinInv, WindowTypes
<1>7. Read(win'.conv, queue) /\ Minded
  BY <1>1, <1>6 DEF Read, Minded, Attends, Looking
<1> QED BY <1>1, <1>2, <1>3, <1>4, <1>5, <1>6, <1>7, UserShows

LEMMA PickConvKeeps == ASSUME WinInv, NEW c \in Convs, PickConv(c) PROVE WinInv'
<1>1. /\ Idle /\ c \in ToSet(win.rows) /\ win' = showConv([win EXCEPT !.hi = c], c) /\ pane' = FALSE
      /\ UNCHANGED <<backend, client, front, dlg, todo, history>>
  BY DEF PickConv
<1>2. UNCHANGED <<model, mAccts, cgen, batch, polling, invited, texts, asked, dropped, reborn>>
  BY <1>1 DEF client, history
<1>3. batch = <<>> /\ ~invited /\ polling = "no" /\ dlg = NoDialog /\ todo \in Seq(Tasks)
  BY <1>1, IdleIs
<1>4. PICK v : v = [win EXCEPT !.hi = c]
  OBVIOUS
<1>5. /\ v \in Windows /\ v.conv = win.conv /\ v.log = win.log /\ v.input = win.input
      /\ v.drafts = win.drafts /\ v.rows = win.rows /\ v.acct = win.acct /\ v.hi = c
  BY <1>4, WindowIs DEF Windows
<1>6. Carried(win, v)
  BY <1>5, CarriedSame
<1>7. PICK w : w = showConv(v, c)
  OBVIOUS
<1>8. Carried(v, w) /\ w.conv = c /\ w.rows = v.rows /\ w.hi = c /\ w.acct = v.acct
  <2>1. c \in Convs \cup {None}
    OBVIOUS
  <2> QED BY <1>5, <1>7, <2>1, WindowIs, ShowConvIs DEF ShownAs
<1>9. Carried(win, w) /\ w \in Windows
  BY <1>6, <1>8, CarriedOn DEF Carried
<1>10. Well(w)
  <2>1. win.rows \in Seq(Convs) /\ \A i \in DOMAIN win.rows : AcctOf[win.rows[i]] = win.acct
    BY WindowIs DEF Windows, Well, RowsOf
  <2>2. RowsFor(w.rows, w.acct)
    BY <1>5, <1>8, <2>1 DEF RowsFor
  <2> QED BY <1>8, <1>9, <2>2, WellShown
<1>11. BackendButReads /\ unread' = unread /\ queue' = queue /\ front' \in BOOLEAN
  BY <1>1 DEF backend, BackendButReads, WinInv, WindowTypes
<1>12. Read(win'.conv, queue) /\ Minded
  BY <1>1, <1>11 DEF Read, Minded, Attends, Looking
<1> QED BY <1>1, <1>2, <1>3, <1>4, <1>7, <1>9, <1>10, <1>11, <1>12, UserShows

LEMMA PaneFocusedKeeps == ASSUME WinInv, PaneFocused PROVE WinInv'
<1>1. /\ Idle /\ pane' = ~pane /\ paneFocused(win, front /\ pane') /\ BackendButReads
      /\ UNCHANGED <<client, win, front, dlg, todo, history>>
  BY DEF PaneFocused
<1>2. UNCHANGED <<model, mAccts, cgen, batch, polling, invited, texts, asked, dropped, reborn>>
  BY <1>1 DEF client, history
<1>3. batch = <<>> /\ ~invited /\ polling = "no" /\ dlg = NoDialog /\ todo \in Seq(Tasks)
  BY <1>1, IdleIs
<1>4. pane' \in BOOLEAN /\ front' \in BOOLEAN
  BY <1>1 DEF WinInv, WindowTypes
<1>5. PICK looking \in BOOLEAN : looking = (front /\ pane')
  BY DEF WinInv, WindowTypes
<1>6. Read(win.conv, queue) /\ FocusReads(win, looking)
  BY <1>1, <1>5, WindowIs, FocusIs
<1>7. Minded
  BY <1>1, <1>5, <1>6 DEF Minded, FocusReads, Attends, Looking
<1> QED BY <1>1, <1>2, <1>3, <1>4, <1>6, <1>7, WindowIs, UserShows

LEMMA OtherWindowKeeps == ASSUME WinInv, OtherWindow PROVE WinInv'
<1>1. /\ Idle /\ front' = ~front /\ markRead(win, model, front' /\ pane, queue) /\ BackendButReads
      /\ UNCHANGED <<client, win, pane, dlg, todo, history>>
  BY DEF OtherWindow
<1>2. UNCHANGED <<model, mAccts, cgen, batch, polling, invited, texts, asked, dropped, reborn>>
  BY <1>1 DEF client, history
<1>3. batch = <<>> /\ ~invited /\ polling = "no" /\ dlg = NoDialog /\ todo \in Seq(Tasks)
  BY <1>1, IdleIs
<1>4. pane' \in BOOLEAN /\ front' \in BOOLEAN
  BY <1>1 DEF WinInv, WindowTypes
<1>5. PICK looking \in BOOLEAN : looking = (front' /\ pane)
  BY DEF WinInv, WindowTypes
<1>6. /\ Read(win.conv, queue)
      /\ looking /\ win.conv \in DOMAIN model \cap bConvs /\ model[win.conv] > 0 => unread'[win.conv] = 0
  BY <1>1, <1>5, WindowIs, ReadIs DEF BackendTypes
<1>7. Minded
  BY <1>1, <1>5, <1>6 DEF Minded, Attends, Looking
<1> QED BY <1>1, <1>2, <1>3, <1>4, <1>6, <1>7, WindowIs, UserShows

LEMMA accountItemKeeps == ASSUME WinInv, NEW a \in Accts, accountItem(a) PROVE WinInv'
<1>1. /\ Idle /\ todo' = <<[k |-> "account", a |-> a]>> /\ polling' \in {"no", "due"}
      /\ UNCHANGED <<backend, model, mAccts, cgen, batch, invited, window, dlg, history>>
  BY DEF accountItem
<1>2. /\ UNCHANGED <<bAccts, bConvs, ring, last, unread, gotAll, asking, waiting, queue, gen, win, pane, front, slipped>>
      /\ UNCHANGED <<texts, asked, dropped, reborn>>
  BY <1>1 DEF backend, window, history
<1>3. batch = <<>> /\ ~invited /\ polling = "no" /\ dlg = NoDialog /\ todo = <<>>
  BY <1>1, IdleIs
<1>4. todo' \in Seq(Tasks)
  <2>1. [k |-> "account", a |-> a] \in Tasks
    BY DEF Tasks
  <2> QED BY <1>1, <2>1
<1>5. AtWork' /\ DialogNames'
  BY <1>1, <1>3 DEF AtWork, DialogNames
<1>6. InvitesFollowed'
  <2>1. InvitesFollowed
    BY DEF WinInv
  <2>2. DOMAIN <<>> = {}
    OBVIOUS
  <2>3. \A i : ~LeftIn(todo, i)
    BY <1>3, <2>2 DEF LeftIn
  <2> QED BY <1>1, <1>2, <2>1, <2>3, InvitesKept
<1>7. invited' \in BOOLEAN
  BY <1>1 DEF WinInv, ClientTypes
<1> QED BY <1>1, <1>2, <1>3, <1>4, <1>5, <1>6, <1>7, UserActs

-----------------------------------------------------------------------------
(* Everything is read again.                                               *)

LEMMA cmReloadKeeps == ASSUME WinInv, cmReload PROVE WinInv'
<1>1. PICK w : w = Reset(win, model, mAccts)
  OBVIOUS
<1>2. /\ Idle /\ win' = w /\ markRead(w, model, Looking, queue) /\ BackendButReads /\ invited' = invited
      /\ UNCHANGED <<model, mAccts, cgen, batch, polling, pane, front, dlg, todo, history>>
  BY <1>1 DEF cmReload, Reads, Shows
<1>3. UNCHANGED <<texts, asked, dropped, reborn>>
  BY <1>2 DEF history
<1>4. batch = <<>> /\ ~invited /\ polling = "no" /\ dlg = NoDialog /\ todo \in Seq(Tasks)
  BY <1>2, IdleIs
<1>5. Carried(win, w) /\ Well(w)
  BY <1>1, WindowIs, ModelIs, ResetIs DEF Fresh
<1>6. pane' \in BOOLEAN /\ front' \in BOOLEAN
  BY <1>2 DEF WinInv, WindowTypes
<1>7. PICK looking \in BOOLEAN : looking = Looking
  BY LookingIs DEF WinInv
<1>8. /\ Read(w.conv, queue)
      /\ looking /\ w.conv \in DOMAIN model \cap bConvs /\ model[w.conv] > 0 => unread'[w.conv] = 0
  BY <1>2, <1>7, WindowIs, ReadIs DEF BackendTypes
<1>9. Minded
  BY <1>2, <1>7, <1>8 DEF Minded, Attends, Looking
<1> QED BY <1>2, <1>3, <1>4, <1>5, <1>6, <1>8, <1>9, UserShows

LEMMA ConfigResetKeeps == ASSUME WinInv, ConfigReset PROVE WinInv'
<1>1. PICK w : w = Reset(win, model, mAccts)
  OBVIOUS
<1>2. /\ polling = "reset" /\ polling' = "no"
      /\ win' = w /\ markRead(w, model, Looking, queue) /\ BackendButReads /\ invited' = invited
      /\ UNCHANGED <<model, mAccts, cgen, batch, pane, front, dlg, todo, history>>
  BY <1>1 DEF ConfigReset, Reads, Shows
<1>3. UNCHANGED <<texts, asked, dropped, reborn>>
  BY <1>2 DEF history
<1>4. batch = <<>> /\ ~invited /\ dlg = NoDialog /\ todo \in Seq(Tasks)
  BY <1>2 DEF WinInv, AtWork, WindowTypes
<1>5. Carried(win, w) /\ Well(w) /\ w.log = LatestOf(w.conv)
  BY <1>1, WindowIs, ModelIs, ResetIs DEF Fresh
<1>6. pane' \in BOOLEAN /\ front' \in BOOLEAN
  BY <1>2 DEF WinInv, WindowTypes
<1>7. PICK looking \in BOOLEAN : looking = Looking
  BY LookingIs DEF WinInv
<1>8. /\ Read(w.conv, queue)
      /\ looking /\ w.conv \in DOMAIN model \cap bConvs /\ model[w.conv] > 0 => unread'[w.conv] = 0
  BY <1>2, <1>7, WindowIs, ReadIs DEF BackendTypes
<1>9. Minded
  BY <1>2, <1>7, <1>8 DEF Minded, Attends, Looking
<1>10. win'.log = LatestOf(win'.conv)
  BY <1>2, <1>5
<1> QED BY <1>2, <1>3, <1>4, <1>5, <1>6, <1>8, <1>9, <1>10, UserShows

\* editConfig(): what was still to be told is of the old file.
LEMMA editConfigKeeps == ASSUME WinInv, editConfig PROVE WinInv'
<1>1. /\ BackendTypes /\ ClientTypes /\ WindowTypes /\ Window /\ RingRuns /\ InvitesFollowed
  BY DEF WinInv
<1>2. PICK S : ReadsConfig(S)
  BY DEF editConfig
<1>3. /\ Idle /\ gen = cgen /\ mAccts' = bAccts' /\ model' = [c \in bConvs' |-> unread[c]]
      /\ Drained /\ queue' = <<>> /\ polling' = "reset"
      /\ UNCHANGED <<gen, cgen, batch, invited, window, dlg, todo, texts, asked>>
  BY DEF editConfig
<1>4. /\ bAccts' = Keep(bAccts, Accts \ S)
      /\ bConvs' = {c \in bConvs : AcctOf[c] \notin S}
      /\ ring' = [c \in Convs |-> IF c \in bConvs' THEN ring[c] ELSE {}]
      /\ unread' = [c \in Convs |-> IF c \in bConvs' THEN unread[c] ELSE 0]
      /\ asking' = asking \cap bConvs' /\ last' = last /\ waiting' = waiting
  BY <1>2 DEF ReadsConfig
<1>5. /\ dropped' = dropped \cup {queue[i].c : i \in {j \in DOMAIN queue : queue[j].t = "invite"}}
      /\ reborn' = {}
  BY <1>3 DEF Drained
<1>6. batch = <<>> /\ ~invited /\ dlg = NoDialog /\ todo = <<>>
  BY <1>3, IdleIs
<1>7. UNCHANGED <<win, pane, front, slipped>>
  BY <1>3 DEF window
<1>8. bAccts' \in Seq(Accts)
  <2>1. bAccts \in Seq(Accts)
    BY <1>1 DEF BackendTypes
  <2>2. Keep(bAccts, Accts \ S) \in Seq(Accts \cap (Accts \ S))
    BY <2>1, KeepMembers
  <2> QED BY <1>4, <2>2
<1>9. BackendTypes' /\ bConvs' \subseteq Convs
  <2>1. unread' \in [Convs -> Nat] /\ ring' \in [Convs -> SUBSET Nat]
    BY <1>1, <1>4 DEF BackendTypes
  <2> QED BY <1>1, <1>3, <1>4, <1>8, <2>1, NothingTold DEF BackendTypes
<1>10. ClientTypes'
  <2>1. DOMAIN model' = bConvs' /\ model' \in [bConvs' -> Nat]
    BY <1>1, <1>3, <1>9 DEF BackendTypes
  <2> QED BY <1>1, <1>3, <1>8, <1>9, <2>1 DEF ClientTypes
<1>11. WindowTypes'
  BY <1>1, <1>3, <1>5, <1>7 DEF WindowTypes
<1>12. AtWork' /\ DialogNames'
  BY <1>3, <1>6 DEF AtWork, DialogNames
<1>13. Window'
  BY <1>1, <1>3, <1>7 DEF Window, SentHome
<1>14. RingRuns'
  BY <1>1, <1>4 DEF RingRuns
<1>15. PendingRuns'
  BY <1>3, <1>6, NothingTold DEF PendingRuns, ToTell
<1>16. LogFollows' /\ Noticed'
  BY <1>3 DEF LogFollows, Noticed
<1>17. Synced'
  <2>1. PICK m : m = [c \in bConvs' |-> unread[c]]
    OBVIOUS
  <2>2. m = TruthOf(bConvs', unread')
    BY <1>4, <1>9, <2>1 DEF TruthOf
  <2>3. Applied(m, <<>>) = m
    BY AppliedNone
  <2>4. Meets(m, <<>>, bConvs', unread')
    BY <2>2, <2>3 DEF Meets
  <2> QED BY <1>3, <2>1, <2>4 DEF Synced
<1>18. InvitesFollowed'
  <2> SUFFICES ASSUME NEW i \in waiting \ (asked \cup dropped') PROVE FALSE
    BY <1>3, <1>4 DEF InvitesFollowed
  <2>1. ~InviteIn(queue, i)
    BY <1>5 DEF InviteIn
  <2>2. ~InviteIn(batch, i)
    BY <1>6, NothingTold
  <2>3. ~LeftIn(todo, i)
    BY <1>6, NothingTold DEF LeftIn
  <2> QED BY <1>1, <1>5, <1>6, <2>1, <2>2, <2>3 DEF InvitesFollowed
<1> QED BY <1>9, <1>10, <1>11, <1>12, <1>13, <1>14, <1>15, <1>16, <1>17, <1>18 DEF WinInv

-----------------------------------------------------------------------------
(* The input line                                                          *)

LEMMA UserTypes ==
    ASSUME WinInv, Idle, UNCHANGED <<backend, client, pane, front, slipped, dlg, todo, asked, dropped, reborn>>,
           win' \in Windows, win'.conv = win.conv, win'.log = win.log, texts' \in Seq(Text), Window'
    PROVE  WinInv'
<1>1. /\ BackendTypes /\ ClientTypes /\ WindowTypes /\ RingRuns /\ PendingRuns /\ AtWork
      /\ LogFollows /\ Synced /\ Noticed /\ InvitesFollowed
  BY DEF WinInv
<1>2. UNCHANGED <<bAccts, bConvs, ring, last, unread, asking, waiting, queue, gen,
                  model, mAccts, cgen, batch, polling, invited>>
  BY DEF backend, client
<1>3. BackendTypes' /\ ClientTypes' /\ WindowTypes' /\ RingRuns'
  BY <1>1, <1>2 DEF BackendTypes, ClientTypes, WindowTypes, RingRuns
<1>4. AtWork' /\ DialogNames'
  <2>1. dlg' = NoDialog
    BY IdleIs
  <2> QED BY <1>1, <1>2, <2>1 DEF AtWork, DialogNames
<1>5. PendingRuns' /\ Synced'
  BY <1>1, <1>2 DEF PendingRuns, Synced, ToTell
<1>6. LogFollows'
  BY <1>1, <1>2 DEF LogFollows, ToTell, Follow
<1>7. Noticed'
  BY <1>1, <1>2 DEF Noticed, Attends, Looking
<1>8. InvitesFollowed'
  BY <1>1, <1>2 DEF InvitesFollowed
<1> QED BY <1>3, <1>4, <1>5, <1>6, <1>7, <1>8 DEF WinInv

\* The history of the texts, for what follows.
Home(ts) == \A t \in DOMAIN ts : ts[t].for # None /\ ts[t].fate = "sent" => ts[t].to = ts[t].for

LEMMA WindowWith ==
    ASSUME WinInv, win' \in Windows, win'.conv = win.conv, win'.rows = win.rows,
           win'.hi = win.hi, win'.acct = win.acct, TextsAt(win', texts'), Home(texts')
    PROVE  Window'
<1>1. RowsOf(win') /\ Lit(win')
  BY DEF WinInv, Window, RowsOf, Lit
<1>2. SentHome'
  BY DEF SentHome, Home
<1> QED BY <1>1, <1>2 DEF Window

LEMMA SendRefusedKeeps == ASSUME WinInv, SendRefused PROVE WinInv'
<1>1. /\ Idle /\ win' = [win EXCEPT !.notes = TRUE]
      /\ UNCHANGED <<backend, client, pane, front, slipped, dlg, todo, history>>
  BY DEF SendRefused
<1>2. UNCHANGED <<texts, asked, dropped, reborn>> /\ texts \in Seq(Text) /\ Window
  BY <1>1 DEF history, WinInv, WindowTypes
<1>3. /\ win' \in Windows /\ win'.conv = win.conv /\ win'.log = win.log /\ win'.rows = win.rows
      /\ win'.hi = win.hi /\ win'.acct = win.acct /\ win'.input = win.input /\ win'.drafts = win.drafts
  BY <1>1, WindowIs DEF Windows
<1>4. TextsAt(win', texts') /\ Home(texts')
  BY <1>2, <1>3 DEF Window, TextsAt, SentHome, Home
<1>5. Window'
  BY <1>3, <1>4, WindowWith
<1> QED BY <1>1, <1>2, <1>3, <1>5, UserTypes

LEMMA TypeKeeps == ASSUME WinInv, Type PROVE WinInv'
<1>1. /\ Idle /\ UNCHANGED <<backend, client, pane, front, slipped, dlg, todo, asked, dropped, reborn>>
  BY DEF Type
<1>2. win \in Windows /\ Window /\ texts \in Seq(Text)
  BY DEF WinInv, WindowTypes
<1>3. win.conv \in Convs \cup {None} /\ win.input \in Nat
  BY <1>2 DEF Windows
<1>4. PICK n \in Nat : n = Len(texts) /\ DOMAIN texts = 1 .. n
  BY <1>2
<1>5. PICK old : old = IF win.input = None THEN texts ELSE [texts EXCEPT ![win.input].fate = "gone"]
  OBVIOUS
<1>6. /\ old \in Seq(Text) /\ Len(old) = n
      /\ \A t \in 1 .. n : /\ old[t].for = texts[t].for /\ old[t].to = texts[t].to
                           /\ old[t].fate = IF t = win.input THEN "gone" ELSE texts[t].fate
  <2>1. CASE win.input = None
    <3>1. \A t \in 1 .. n : t # win.input
      BY <2>1 DEF None
    <3> QED BY <1>2, <1>4, <1>5, <2>1, <3>1
  <2>2. CASE win.input # None
    <3>1. win.input \in 1 .. n
      BY <1>2, <1>3, <1>4, <2>2 DEF Window, TextsAt, None
    <3>2. old = [texts EXCEPT ![win.input] = [texts[win.input] EXCEPT !.fate = "gone"]]
      BY <1>5, <2>2
    <3>3. texts[win.input] \in Text /\ [texts[win.input] EXCEPT !.fate = "gone"] \in Text
      <4>1. PICK y \in Text : y = texts[win.input]
        BY <1>2, <1>4, <3>1
      <4>2. [y EXCEPT !.fate = "gone"] \in Text
        BY DEF Text
      <4> QED BY <4>1, <4>2
    <3>4. old \in Seq(Text) /\ Len(old) = n
      BY <1>2, <1>4, <3>1, <3>2, <3>3
    <3>5. \A t \in 1 .. n : texts[t] \in Text
      BY <1>2, <1>4
    <3> QED BY <1>4, <3>1, <3>2, <3>4, <3>5 DEF Text
  <2> QED BY <2>1, <2>2
<1>7. PICK x : x = [for |-> win.conv, fate |-> "kept", to |-> None]
  OBVIOUS
<1>8. x \in Text /\ x.for = win.conv /\ x.fate = "kept"
  BY <1>3, <1>7 DEF Text
<1>9. texts' = Append(old, x) /\ win' = [win EXCEPT !.input = Len(texts')]
  BY <1>5, <1>7 DEF Type
<1>10. PICK ts : ts = texts'
  OBVIOUS
<1>11. /\ ts \in Seq(Text) /\ Len(ts) = n + 1 /\ DOMAIN ts = 1 .. n + 1 /\ ts[n + 1] = x
       /\ \A t \in 1 .. n : ts[t] = old[t]
  BY <1>6, <1>8, <1>9, <1>10
<1>12. /\ win' \in Windows /\ win'.conv = win.conv /\ win'.log = win.log /\ win'.rows = win.rows
       /\ win'.hi = win.hi /\ win'.acct = win.acct /\ win'.input = n + 1 /\ win'.drafts = win.drafts
  <2>1. win' = [win EXCEPT !.input = n + 1]
    BY <1>9, <1>10, <1>11
  <2>2. n + 1 \in Nat
    OBVIOUS
  <2> QED BY <1>2, <2>1, <2>2 DEF Windows
<1>13. TextsAt(win, texts) /\ Home(texts)
  BY <1>2 DEF Window, SentHome, Home
<1>14. TextsAt(win', ts)
  <2>1. win'.input \in 0 .. Len(ts) /\ ts[win'.input].for = win'.conv
    BY <1>8, <1>11, <1>12
  <2>2. ASSUME NEW c \in Convs
        PROVE  win.drafts[c] \in 0 .. Len(ts) /\ (win.drafts[c] # None => ts[win.drafts[c]].for = c)
    <3>1. win.drafts[c] \in 0 .. n /\ (win.drafts[c] # None => texts[win.drafts[c]].for = c)
      BY <1>4, <1>13 DEF TextsAt
    <3> QED BY <1>6, <1>11, <3>1 DEF None
  <2>3. ASSUME NEW t \in 1 .. n + 1, ts[t].for # None, ts[t].fate = "kept"
        PROVE  IF win.conv = ts[t].for THEN n + 1 = t ELSE win.drafts[ts[t].for] = t
    <3>1. CASE t = n + 1
      BY <1>8, <1>11, <3>1
    <3>2. CASE t # n + 1
      <4>1. t \in 1 .. n /\ ts[t] = old[t]
        BY <1>11, <3>2
      <4>2. texts[t].for = ts[t].for /\ t # win.input /\ texts[t].fate = "kept"
        BY <1>6, <2>3, <4>1
      <4>3. IF win.conv = texts[t].for THEN win.input = t ELSE win.drafts[texts[t].for] = t
        BY <1>4, <1>13, <2>3, <4>1, <4>2 DEF TextsAt
      <4> QED BY <4>2, <4>3
    <3> QED BY <3>1, <3>2
  <2> QED BY <1>11, <1>12, <2>1, <2>2, <2>3 DEF TextsAt
<1>15. Home(ts)
  <2> SUFFICES ASSUME NEW t \in 1 .. n + 1, ts[t].for # None, ts[t].fate = "sent"
               PROVE  ts[t].to = ts[t].for
    BY <1>11 DEF Home
  <2>1. t # n + 1
    BY <1>8, <1>11
  <2>2. t \in 1 .. n /\ ts[t] = old[t]
    BY <1>11, <2>1
  <2>3. texts[t].for = ts[t].for /\ texts[t].fate = "sent" /\ texts[t].to = ts[t].to
    BY <1>6, <2>2
  <2> QED BY <1>4, <1>13, <2>2, <2>3 DEF Home
<1>16. Window'
  BY <1>10, <1>12, <1>14, <1>15, WindowWith
<1> QED BY <1>1, <1>10, <1>11, <1>12, <1>16, UserTypes

LEMMA cmQuitKeeps == ASSUME WinInv, cmQuit PROVE WinInv'
<1>1. /\ Idle /\ win' = [win EXCEPT !.input = None, !.drafts = [c \in Convs |-> None]]
      /\ UNCHANGED <<backend, client, pane, front, slipped, dlg, todo, asked, dropped, reborn>>
  BY DEF cmQuit
<1>2. win \in Windows /\ Window /\ texts \in Seq(Text)
  BY DEF WinInv, WindowTypes
<1>3. PICK n \in Nat : n = Len(texts) /\ DOMAIN texts = 1 .. n
  BY <1>2
<1>4. PICK ts : ts = texts'
  OBVIOUS
<1>5. ts = [t \in 1 .. n |-> IF texts[t].fate = "kept" THEN [texts[t] EXCEPT !.fate = "gone"] ELSE texts[t]]
  BY <1>3, <1>4 DEF cmQuit
<1>6. ASSUME NEW t \in 1 .. n
      PROVE  /\ ts[t] \in Text /\ ts[t].fate # "kept" /\ ts[t].for = texts[t].for /\ ts[t].to = texts[t].to
             /\ ts[t].fate = "sent" => texts[t].fate = "sent"
  <2>1. texts[t] \in Text
    BY <1>2, <1>3
  <2>2. ts[t] = IF texts[t].fate = "kept" THEN [texts[t] EXCEPT !.fate = "gone"] ELSE texts[t]
    BY <1>5
  <2> QED BY <2>1, <2>2 DEF Text
<1>7. ts \in Seq(Text) /\ Len(ts) = n /\ DOMAIN ts = 1 .. n
  <2>1. ts \in [1 .. n -> Text]
    BY <1>5, <1>6
  <2> QED BY <2>1
<1>8. /\ win' \in Windows /\ win'.conv = win.conv /\ win'.log = win.log /\ win'.rows = win.rows
      /\ win'.hi = win.hi /\ win'.acct = win.acct /\ win'.input = None
      /\ win'.drafts = [c \in Convs |-> None]
  <2>1. None \in Nat
    BY DEF None
  <2> QED BY <1>1, <1>2, <2>1 DEF Windows
<1>9. TextsAt(win', ts)
  <2>1. None \in 0 .. Len(ts)
    BY <1>7 DEF None
  <2> QED BY <1>6, <1>7, <1>8, <2>1 DEF TextsAt
<1>10. Home(ts)
  BY <1>2, <1>3, <1>6, <1>7 DEF Home, Window, SentHome
<1>11. Window'
  BY <1>4, <1>8, <1>9, <1>10, WindowWith
<1> QED BY <1>1, <1>4, <1>7, <1>8, <1>11, UserTypes

-----------------------------------------------------------------------------
(* sendInput(): ours is told after what is told already.                   *)

LEMMA SentText ==
    ASSUME WinInv, win.input # None, win.conv \in Convs,
           texts' = [texts EXCEPT ![win.input].fate = "sent", ![win.input].to = win.conv],
           win' = [win EXCEPT !.input = None, !.drafts[win.conv] = None]
    PROVE  /\ win' \in Windows /\ win'.conv = win.conv /\ win'.log = win.log
           /\ texts' \in Seq(Text) /\ Window'
<1>1. win \in Windows /\ Window /\ texts \in Seq(Text) /\ win.input \in Nat
  BY WindowIs DEF WinInv, WindowTypes, Windows
<1>2. PICK n \in Nat : n = Len(texts) /\ DOMAIN texts = 1 .. n
  BY <1>1
<1>3. TextsAt(win, texts) /\ Home(texts)
  BY <1>1 DEF Window, SentHome, Home
<1>4. PICK i \in 1 .. n : i = win.input
  BY <1>1, <1>2, <1>3 DEF TextsAt, None
<1>5. PICK y \in Text : y = texts[i]
  BY <1>1, <1>2
<1>6. PICK x : x = [y EXCEPT !.fate = "sent", !.to = win.conv]
  OBVIOUS
<1>7. x \in Text /\ x.for = y.for /\ x.fate = "sent" /\ x.to = win.conv
  BY <1>6 DEF Text
<1>8. y.for = win.conv
  BY <1>3, <1>4, <1>5 DEF TextsAt
<1>9. PICK ts : ts = texts'
  OBVIOUS
<1>10. ts = [texts EXCEPT ![i] = x]
  BY <1>1, <1>2, <1>4, <1>5, <1>6, <1>9
<1>11. /\ ts \in Seq(Text) /\ Len(ts) = n /\ DOMAIN ts = 1 .. n
       /\ \A t \in 1 .. n : ts[t] = IF t = i THEN x ELSE texts[t]
  BY <1>1, <1>2, <1>7, <1>10
<1>12. /\ win' \in Windows /\ win'.conv = win.conv /\ win'.log = win.log /\ win'.rows = win.rows
       /\ win'.hi = win.hi /\ win'.acct = win.acct /\ win'.input = None
       /\ win'.drafts = [win.drafts EXCEPT ![win.conv] = None]
  <2>1. None \in Nat
    BY DEF None
  <2> QED BY <1>1, <2>1 DEF Windows
<1>13. win.drafts \in [Convs -> Nat]
  BY <1>1 DEF Windows
<1>14. TextsAt(win', ts)
  <2>1. ASSUME NEW c \in Convs
        PROVE  win'.drafts[c] \in 0 .. n /\ (win'.drafts[c] # None => ts[win'.drafts[c]].for = c)
    <3>1. CASE c = win.conv
      BY <1>12, <1>13, <3>1 DEF None
    <3>2. CASE c # win.conv
      <4>1. win'.drafts[c] = win.drafts[c]
        BY <1>12, <1>13, <3>2
      <4>2. win.drafts[c] \in 0 .. n /\ (win.drafts[c] # None => texts[win.drafts[c]].for = c)
        BY <1>2, <1>3 DEF TextsAt
      <4> QED BY <1>5, <1>7, <1>11, <4>1, <4>2 DEF None
    <3> QED BY <3>1, <3>2
  <2>2. ASSUME NEW t \in 1 .. n, ts[t].for # None, ts[t].fate = "kept"
        PROVE  IF win.conv = ts[t].for THEN None = t ELSE win'.drafts[ts[t].for] = t
    <3>1. t # i /\ ts[t] = texts[t]
      BY <1>7, <1>11, <2>2
    <3>2. IF win.conv = texts[t].for THEN win.input = t ELSE win.drafts[texts[t].for] = t
      BY <1>2, <1>3, <2>2, <3>1 DEF TextsAt
    <3>3. texts[t].for \in Convs
      <4>1. texts[t] \in Text
        BY <1>1, <1>2
      <4> QED BY <2>2, <3>1, <4>1 DEF Text
    <3> QED BY <1>4, <1>12, <1>13, <3>1, <3>2, <3>3
  <2>3. win'.input \in 0 .. Len(ts) /\ win'.input = None
    BY <1>11, <1>12 DEF None
  <2> QED BY <1>11, <1>12, <2>1, <2>2, <2>3 DEF TextsAt
<1>15. Home(ts)
  BY <1>2, <1>3, <1>5, <1>7, <1>8, <1>11 DEF Home
<1>16. Window'
  BY <1>9, <1>12, <1>14, <1>15, WindowWith
<1> QED BY <1>9, <1>11, <1>12, <1>16

LEMMA sendInputKeeps == ASSUME WinInv, sendInput PROVE WinInv'
<1>1. /\ BackendTypes /\ ClientTypes /\ WindowTypes /\ RingRuns /\ PendingRuns /\ AtWork
      /\ LogFollows /\ Synced /\ Noticed /\ InvitesFollowed
  BY DEF WinInv
<1>2. PICK c \in Convs : c = win.conv
  BY <1>1 DEF sendInput, BackendTypes
<1>3. /\ Idle /\ c \in bConvs /\ win.input # None
      /\ Few(c) /\ last' = [last EXCEPT ![c] = last[c] + 1]
      /\ ring' = [ring EXCEPT ![c] = ring[c] \cup {last'[c]}]
      /\ unread' = unread
      /\ queue' = (queue \o <<Event("msg", c, last'[c])>>) \o <<>>
      /\ texts' = [texts EXCEPT ![win.input].fate = "sent", ![win.input].to = win.conv]
      /\ win' = [win EXCEPT !.input = None, !.drafts[win.conv] = None]
      /\ polling' = "due"
      /\ UNCHANGED <<bAccts, bConvs, gotAll, asking, waiting, gen, model, mAccts, cgen, batch,
                     invited, pane, front, slipped, dlg, todo, asked, dropped, reborn, budget>>
  BY <1>2 DEF sendInput, Added
<1>4. batch = <<>> /\ ~invited /\ polling = "no" /\ dlg = NoDialog /\ todo = <<>>
  BY <1>3, IdleIs
<1>5. last[c] \in Nat /\ last'[c] = last[c] + 1
  BY <1>1, <1>3 DEF BackendTypes
<1>6. PICK q \in Seq(Happenings) : q = queue
  BY <1>1 DEF BackendTypes
<1>7. PICK e \in Happenings : e = Event("msg", c, last[c] + 1) /\ Known(e) /\ e.t = "msg" /\ e.c = c
                              /\ e.n = last[c] + 1
  BY <1>1, SaidEvent
<1>8. queue' = Append(q, e)
  <2>1. queue' = (q \o <<e>>) \o <<>>
    BY <1>3, <1>5, <1>6, <1>7
  <2>2. (q \o <<e>>) \o <<>> = Append(q, e)
    OBVIOUS
  <2> QED BY <2>1, <2>2
<1>9. Says(c, q, e)
  <2>1. More(q, q) /\ More(Append(q, e), queue')
    BY <1>8 DEF More
  <2>2. bConvs' = bConvs \cup {c}
    BY <1>3
  <2> QED BY <1>3, <1>5, <1>6, <1>7, <2>1, <2>2 DEF Says
<1>10. /\ last' \in [Convs -> Nat] /\ ring' \in [Convs -> SUBSET Nat] /\ RingRuns'
  <2>1. \A d \in Convs : d \notin bConvs' => unread'[d] = 0
    BY <1>1, <1>3 DEF RingRuns
  <2> QED BY <1>1, <1>9, <2>1, SaysRing
<1>11. /\ queue' \in Seq(Happenings) /\ \A i \in DOMAIN queue' : Known(queue'[i])
       /\ \A d : RisesIn(queue, d) => RisesIn(queue', d)
       /\ \A i : InviteIn(queue, i) => InviteIn(queue', i)
  BY <1>1, <1>9, SaysQueue
<1>12. BackendTypes'
  BY <1>1, <1>3, <1>10, <1>11 DEF BackendTypes
<1>13. /\ win' \in Windows /\ win'.conv = win.conv /\ win'.log = win.log
       /\ texts' \in Seq(Text) /\ Window'
  BY <1>2, <1>3, SentText
<1>14. ClientTypes' /\ WindowTypes'
  BY <1>1, <1>3, <1>13 DEF ClientTypes, WindowTypes
<1>15. AtWork' /\ DialogNames'
  BY <1>3, <1>4 DEF AtWork, DialogNames
<1>16. PendingRuns' /\ LogFollows'
  BY <1>1, <1>3, <1>4, <1>9, <1>13, SaysMessages
<1>17. Synced'
  <2>1. PICK m : m = model
    OBVIOUS
  <2>2. Applied(m, Append(q, e)) = Applied(m, q)
    BY <1>7, AppliedQuiet
  <2> QED BY <1>1, <1>3, <1>6, <1>8, <2>1, <2>2 DEF Synced, Meets
<1>18. Noticed'
  <2>1. Attends' => Attends
    BY <1>3 DEF Attends, Looking
  <2> QED BY <1>1, <1>3, <1>4, <1>11, <1>13, <2>1, NoticedKept
<1>19. InvitesFollowed'
  BY <1>1, <1>3, <1>11, InvitesKept
<1> QED BY <1>10, <1>12, <1>13, <1>14, <1>15, <1>16, <1>17, <1>18, <1>19 DEF WinInv

-----------------------------------------------------------------------------
(* Dialogs                                                                 *)

LEMMA DialogOpens ==
    ASSUME WinInv, Idle, UNCHANGED <<backend, client, window, todo, history>>, DialogNames'
    PROVE  WinInv'
<1>1. batch = <<>> /\ ~invited /\ polling = "no" /\ todo = <<>> /\ todo \in Seq(Tasks)
  BY IdleIs
<1>2. /\ UNCHANGED <<bAccts, bConvs, ring, last, unread, gotAll, asking, waiting, queue, gen>>
      /\ UNCHANGED <<model, mAccts, cgen, batch, polling, invited, win, pane, front, slipped>>
      /\ UNCHANGED <<texts, asked, dropped, reborn>>
  BY DEF backend, client, window, history
<1>3. AtWork'
  BY <1>1, <1>2 DEF AtWork
<1>4. InvitesFollowed'
  BY <1>2 DEF WinInv, InvitesFollowed
<1>5. invited' \in BOOLEAN
  BY <1>2 DEF WinInv, ClientTypes
<1> QED BY <1>1, <1>2, <1>3, <1>4, <1>5, UserActs

LEMMA OfAccountKeeps == ASSUME WinInv, NEW op, op # "part", OfAccount(op) PROVE WinInv'
<1>1. Idle /\ UNCHANGED <<backend, client, window, todo, history>>
  BY DEF OfAccount
<1>2. PICK i \in DOMAIN mAccts : dlg' = [op |-> op, idx |-> i, named |-> mAccts[i]]
  BY DEF OfAccount
<1>3. DialogNames'
  <2>1. mAccts' = mAccts
    BY <1>1 DEF client
  <2>2. dlg'.op = op /\ dlg'.idx = i /\ dlg'.named = mAccts[i]
    BY <1>2
  <2> QED BY <2>1, <2>2 DEF DialogNames, Target
<1> QED BY <1>1, <1>3, DialogOpens

LEMMA OfConvKeeps == ASSUME WinInv, NEW op, OfConv(op) PROVE WinInv'
<1>1. Idle /\ UNCHANGED <<backend, client, window, todo, history>>
      /\ dlg' = [op |-> op, idx |-> 0, named |-> win.conv]
  BY DEF OfConv
<1>2. DialogNames'
  <2>1. win' = win
    BY <1>1 DEF window
  <2>2. dlg'.op = op /\ dlg'.idx = 0 /\ dlg'.named = win.conv
    BY <1>1
  <2> QED BY <2>1, <2>2 DEF DialogNames, Target
<1> QED BY <1>1, <1>2, DialogOpens

LEMMA DialogsKeep ==
    ASSUME WinInv,
           \/ connectDialog \/ disconnectDialog \/ joinDialog \/ inviteDialog
           \/ deviceAddDialog \/ deviceUseDialog \/ newGroupDialog
           \/ groupAddDialog \/ groupRemoveDialog \/ groupRenameDialog
           \/ mailSelectionDialog \/ leaveShown
    PROVE  WinInv'
<1>1. \/ \E op \in {"connect", "disconnect", "join", "invite", "device-add", "device-use", "new-group"} :
           OfAccount(op)
      \/ \E op \in {"group-add", "group-remove", "group-rename", "mail-chat", "part"} : OfConv(op)
  BY Zenon DEF connectDialog, disconnectDialog, joinDialog, inviteDialog, deviceAddDialog,
     deviceUseDialog, newGroupDialog, groupAddDialog, groupRemoveDialog, groupRenameDialog,
     mailSelectionDialog, leaveShown
<1>2. CASE \E op \in {"connect", "disconnect", "join", "invite", "device-add", "device-use", "new-group"} :
             OfAccount(op)
  <2>1. PICK op \in {"connect", "disconnect", "join", "invite", "device-add", "device-use", "new-group"} :
               OfAccount(op)
    BY <1>2
  <2>2. op # "part"
    OBVIOUS
  <2> QED BY <2>1, <2>2, OfAccountKeeps
<1>3. CASE \E op \in {"group-add", "group-remove", "group-rename", "mail-chat", "part"} : OfConv(op)
  BY <1>3, OfConvKeeps
<1> QED BY <1>1, <1>2, <1>3

LEMMA acceptInviteDialogKeeps == ASSUME WinInv, acceptInviteDialog PROVE WinInv'
<1>1. Idle /\ AsksInvites /\ UNCHANGED <<backend, client, window, dlg, history>>
  BY DEF acceptInviteDialog
<1>2. batch = <<>> /\ ~invited /\ polling = "no" /\ dlg = NoDialog
  BY <1>1, IdleIs
<1>3. /\ UNCHANGED <<bAccts, bConvs, ring, last, unread, gotAll, asking, waiting, queue, gen>>
      /\ UNCHANGED <<model, mAccts, cgen, batch, polling, invited, win, pane, front, slipped>>
      /\ UNCHANGED <<texts, asked, dropped, reborn>>
  BY <1>1 DEF backend, client, window, history
<1>4. todo' \in Seq(Tasks) /\ \A i : LeftIn(todo, i) => LeftIn(todo', i)
  BY <1>1, AskingIs
<1>5. AtWork' /\ DialogNames'
  BY <1>1, <1>2, <1>3 DEF AtWork, DialogNames
<1>6. InvitesFollowed'
  BY <1>3, <1>4 DEF WinInv, InvitesFollowed
<1>7. invited' \in BOOLEAN
  BY <1>3 DEF WinInv, ClientTypes
<1> QED BY <1>2, <1>3, <1>4, <1>5, <1>6, <1>7, UserActs

LEMMA DialogUp ==
    ASSUME WinInv, dlg # NoDialog
    PROVE  batch = <<>> /\ ~invited /\ polling = "no" /\ todo = <<>> /\ todo \in Seq(Tasks)
BY DEF WinInv, AtWork, WindowTypes

LEMMA DialogEndsKeeps == ASSUME WinInv, DialogEnds PROVE WinInv'
<1>1. dlg # NoDialog /\ dlg' = NoDialog /\ UNCHANGED <<backend, client, window, todo, history, budget>>
  BY DEF DialogEnds
<1>2. batch = <<>> /\ ~invited /\ polling = "no" /\ todo = <<>> /\ todo \in Seq(Tasks)
  BY <1>1, DialogUp
<1>3. /\ UNCHANGED <<bAccts, bConvs, ring, last, unread, gotAll, asking, waiting, queue, gen>>
      /\ UNCHANGED <<model, mAccts, cgen, batch, polling, invited, win, pane, front, slipped>>
      /\ UNCHANGED <<texts, asked, dropped, reborn>>
  BY <1>1 DEF backend, client, window, history
<1>4. AtWork' /\ DialogNames'
  BY <1>1, <1>2, <1>3 DEF AtWork, DialogNames
<1>5. InvitesFollowed'
  BY <1>1, <1>3 DEF WinInv, InvitesFollowed
<1>6. invited' \in BOOLEAN
  BY <1>3 DEF WinInv, ClientTypes
<1> QED BY <1>1, <1>2, <1>3, <1>4, <1>5, <1>6, UserActs

\* What a dialog asked for is done, and a poll follows.
LEMMA AnsweredKeeps ==
    ASSUME WinInv, Aside, dlg # NoDialog, dlg' = NoDialog,
           UNCHANGED <<mAccts, invited, texts, asked, dropped>>,
           BackendTypes', RingRuns', PendingRuns', LogFollows', Synced', Noticed',
           \A i : InviteIn(queue, i) => InviteIn(queue', i),
           reborn' \subseteq Convs, todo' \in Seq(Tasks), polling' \in {"no", "due"}
    PROVE  WinInv'
<1>1. batch = <<>> /\ ~invited /\ polling = "no" /\ todo = <<>>
  BY DialogUp
<1>2. /\ UNCHANGED <<bAccts, last, gen, model, cgen, batch, win, pane, front, slipped>>
      /\ waiting' \subseteq waiting
  BY DEF Aside
<1>3. ClientTypes' /\ WindowTypes'
  BY <1>2 DEF WinInv, ClientTypes, WindowTypes
<1>4. AtWork' /\ DialogNames'
  BY <1>1, <1>2 DEF AtWork, DialogNames
<1>5. Window'
  BY <1>2 DEF WinInv, Window, SentHome
<1>6. InvitesFollowed'
  <2>1. InvitesFollowed
    BY DEF WinInv
  <2>2. \A i : ~LeftIn(todo, i)
    BY <1>1, NothingTold DEF LeftIn
  <2> QED BY <1>2, <2>1, <2>2, InvitesKept
<1> QED BY <1>3, <1>4, <1>5, <1>6 DEF WinInv

LEMMA AnswerDialogKeeps == ASSUME WinInv, AnswerDialog PROVE WinInv'
<1>1. /\ dlg # NoDialog /\ dlg' = NoDialog
      /\ UNCHANGED <<bAccts, last, waiting, gen, model, mAccts, cgen, batch, invited, window,
                     texts, asked, dropped, budget>>
  BY DEF AnswerDialog
<1>2. batch = <<>> /\ ~invited /\ polling = "no" /\ todo = <<>> /\ todo \in Seq(Tasks)
  BY <1>1, DialogUp
<1>3. UNCHANGED <<win, pane, front, slipped>>
  BY <1>1 DEF window
<1>4. polling' \in {"no", "due"}
  BY <1>2 DEF AnswerDialog
<1>5. Aside
  BY <1>1, <1>2, <1>3 DEF Aside
<1>6. CASE \E c \in Convs : Opened(c) /\ todo' = <<[k |-> "conv", c |-> c]>>
  <2>1. PICK c \in Convs : Opened(c) /\ todo' = <<[k |-> "conv", c |-> c]>>
    BY <1>6
  <2>2. /\ BackendTypes' /\ RingRuns' /\ PendingRuns' /\ LogFollows' /\ Synced' /\ Noticed'
        /\ \A i : InviteIn(queue, i) => InviteIn(queue', i)
    BY <1>5, <2>1, OpenedStep
  <2>3. [k |-> "conv", c |-> c] \in Tasks
    BY DEF Tasks
  <2>4. todo' \in Seq(Tasks)
    BY <2>1, <2>3
  <2>5. reborn' \subseteq Convs
    BY <2>1 DEF Opened, WinInv, WindowTypes
  <2> QED BY <1>1, <1>4, <1>5, <2>2, <2>4, <2>5, AnsweredKeeps
<1>7. CASE Target \in bConvs /\ Removed(Target) /\ UNCHANGED todo
  <2>1. PICK c \in bConvs : c = Target
    BY <1>7
  <2>2. Removed(c)
    BY <1>7, <2>1
  <2>3. /\ BackendTypes' /\ RingRuns' /\ PendingRuns' /\ LogFollows' /\ Synced' /\ Noticed'
        /\ \A i : InviteIn(queue, i) => InviteIn(queue', i)
        /\ reborn' \subseteq Convs
    BY <1>5, <2>2, RemovedStep
  <2> QED BY <1>1, <1>2, <1>4, <1>5, <1>7, <2>3, AnsweredKeeps
<1>8. CASE UNCHANGED <<bConvs, ring, unread, gotAll, asking, queue, todo, reborn>>
  <2>1. todo' \in Seq(Tasks) /\ invited' \in BOOLEAN
    BY <1>1, <1>2, <1>8 DEF WinInv, ClientTypes
  <2>2. AtWork' /\ DialogNames'
    BY <1>1, <1>2 DEF AtWork, DialogNames
  <2>3. InvitesFollowed'
    BY <1>1, <1>8 DEF WinInv, InvitesFollowed
  <2> QED BY <1>1, <1>2, <1>3, <1>4, <1>8, <2>1, <2>2, <2>3, UserActs
<1> QED BY <1>6, <1>7, <1>8 DEF AnswerDialog

\* Ours again, in a conversation opened for it perhaps
LEMMA SentSynced ==
    ASSUME BackendTypes, RingRuns, NEW m, NEW c \in Convs, NEW q, NEW e \in Happenings, e.t = "msg",
           Meets(m, queue, bConvs, unread),
           \/ c \in bConvs /\ q = queue
           \/ /\ c \notin bConvs
              /\ \E f \in Happenings : f.t = "conv-new" /\ f.c = c /\ f.n = 0 /\ q = Append(queue, f)
    PROVE  Meets(m, Append(q, e), bConvs \cup {c}, unread)
<1>1. PICK p \in Seq(Happenings) : p = queue
  BY DEF BackendTypes
<1>2. PICK B \in SUBSET Convs : B = bConvs
  BY DEF BackendTypes
<1>3. PICK u \in [Convs -> Nat] : u = unread
  BY DEF BackendTypes
<1>4. CASE c \in bConvs /\ q = queue
  <2>1. Applied(m, Append(p, e)) = Applied(m, p)
    BY AppliedQuiet
  <2>2. bConvs \cup {c} = bConvs
    BY <1>4
  <2> QED BY <1>1, <1>4, <2>1, <2>2 DEF Meets
<1>5. CASE c \notin bConvs
  <2>1. PICK f \in Happenings : f.t = "conv-new" /\ f.c = c /\ f.n = 0 /\ q = Append(p, f)
    BY <1>1, <1>5
  <2>2. u[c] = 0 /\ c \in Convs \ B /\ Meets(m, p, B, u)
    BY <1>1, <1>2, <1>3, <1>5 DEF RingRuns
  <2>3. Meets(m, Append(p, f), B \cup {c}, u)
    BY <2>1, <2>2, AppliedNew
  <2>4. PICK y \in Seq(Happenings) : y = Append(p, f)
    BY Appended
  <2>5. Applied(m, Append(y, e)) = Applied(m, y)
    BY AppliedQuiet
  <2> QED BY <1>2, <1>3, <2>1, <2>3, <2>4, <2>5 DEF Meets
<1> QED BY <1>4, <1>5

LEMMA InviteSentKeeps == ASSUME WinInv, InviteSent PROVE WinInv'
<1>1. /\ BackendTypes /\ ClientTypes /\ WindowTypes /\ Window /\ RingRuns /\ PendingRuns /\ AtWork
      /\ LogFollows /\ Synced /\ Noticed /\ InvitesFollowed
  BY DEF WinInv
<1>2. PICK c \in Convs :
         /\ Few(c) /\ bConvs' = bConvs \cup {c} /\ last' = [last EXCEPT ![c] = last[c] + 1]
         /\ ring' = [ring EXCEPT ![c] = ring[c] \cup {last'[c]}]
         /\ queue' = (queue \o (IF c \in bConvs THEN <<>> ELSE <<Event("conv-new", c, 0)>>))
                           \o <<Event("msg", c, last'[c])>>
  BY DEF InviteSent
<1>3. /\ dlg.op = "invite" /\ dlg' = NoDialog /\ polling' = "due"
      /\ UNCHANGED <<bAccts, unread, gotAll, asking, waiting, gen, model, mAccts, cgen, batch,
                     invited, window, todo, history, budget>>
  BY DEF InviteSent
<1>4. UNCHANGED <<win, pane, front, slipped, texts, asked, dropped, reborn>>
  BY <1>3 DEF window, history
<1>5. dlg # NoDialog
  BY <1>3 DEF NoDialog
<1>6. batch = <<>> /\ ~invited /\ polling = "no" /\ todo = <<>>
  BY <1>5, DialogUp
<1>7. last[c] \in Nat /\ last'[c] = last[c] + 1
  BY <1>1, <1>2 DEF BackendTypes
<1>8. PICK e \in Happenings : e = Event("msg", c, last[c] + 1) /\ Known(e) /\ e.t = "msg" /\ e.c = c
                              /\ e.n = last[c] + 1
  BY <1>1, SaidEvent
<1>9. PICK p \in Seq(Happenings) : p = queue
  BY <1>1 DEF BackendTypes
<1>10. PICK f : f = Event("conv-new", c, 0)
  OBVIOUS
<1>11. f \in Happenings /\ f.t = "conv-new" /\ f.c = c /\ f.n = 0 /\ Known(f)
  BY <1>10 DEF Event, Happenings, Known
<1>12. PICK q : q = IF c \in bConvs THEN p ELSE Append(p, f)
  OBVIOUS
<1>13. More(p, q)
  BY <1>11, <1>12 DEF More
<1>14. q \in Seq(Happenings)
  BY <1>11, <1>12, Appended
<1>15. queue' = Append(q, e)
  <2>1. queue' = (p \o (IF c \in bConvs THEN <<>> ELSE <<f>>)) \o <<e>>
    BY <1>2, <1>7, <1>8, <1>9, <1>10
  <2>2. p \o (IF c \in bConvs THEN <<>> ELSE <<f>>) = q
    <3>1. p \o <<>> = p /\ p \o <<f>> = Append(p, f)
      BY <1>11
    <3> QED BY <1>12, <3>1
  <2>3. q \o <<e>> = Append(q, e)
    BY <1>14
  <2> QED BY <2>1, <2>2, <2>3
<1>16. Says(c, q, e)
  <2>1. More(Append(q, e), queue')
    BY <1>15 DEF More
  <2> QED BY <1>2, <1>7, <1>8, <1>9, <1>13, <2>1 DEF Says
<1>17. /\ last' \in [Convs -> Nat] /\ ring' \in [Convs -> SUBSET Nat] /\ RingRuns'
       /\ bConvs' \subseteq Convs /\ bConvs \subseteq bConvs'
  <2>1. \A d \in Convs : d \notin bConvs' => unread'[d] = 0
    BY <1>1, <1>2, <1>3 DEF RingRuns
  <2> QED BY <1>1, <1>16, <2>1, SaysRing
<1>18. /\ queue' \in Seq(Happenings) /\ \A i \in DOMAIN queue' : Known(queue'[i])
       /\ \A d : RisesIn(queue, d) => RisesIn(queue', d)
       /\ \A i : InviteIn(queue, i) => InviteIn(queue', i)
  BY <1>1, <1>16, SaysQueue
<1>19. BackendTypes'
  BY <1>1, <1>3, <1>17, <1>18 DEF BackendTypes
<1>20. ClientTypes' /\ WindowTypes' /\ Window'
  BY <1>1, <1>3, <1>4 DEF ClientTypes, WindowTypes, Window, SentHome
<1>21. AtWork' /\ DialogNames'
  BY <1>3, <1>6 DEF AtWork, DialogNames
<1>22. PendingRuns' /\ LogFollows'
  <2>1. win' \in Windows /\ win'.conv = win.conv /\ win'.log = win.log
    BY <1>1, <1>4 DEF WindowTypes
  <2> QED BY <1>1, <1>3, <1>4, <1>6, <1>16, <2>1, SaysMessages
<1>23. Synced'
  <2> SUFFICES ASSUME gen = cgen PROVE Meets(model, queue', bConvs', unread)
    BY <1>3 DEF Synced
  <2>1. Meets(model, queue, bConvs, unread)
    BY <1>1 DEF Synced
  <2>2. PICK m : m = model
    OBVIOUS
  <2>3. Meets(m, Append(q, e), bConvs \cup {c}, unread)
    BY <1>1, <1>8, <1>9, <1>11, <1>12, <2>1, <2>2, SentSynced
  <2> QED BY <1>2, <1>15, <2>2, <2>3
<1>24. Noticed'
  <2>1. Attends' => Attends
    BY <1>4 DEF Attends, Looking
  <2> QED BY <1>1, <1>3, <1>4, <1>6, <1>18, <2>1, NoticedKept
<1>25. InvitesFollowed'
  BY <1>1, <1>3, <1>4, <1>18, InvitesKept
<1> QED BY <1>17, <1>19, <1>20, <1>21, <1>22, <1>23, <1>24, <1>25 DEF WinInv

-----------------------------------------------------------------------------
(* The invariant                                                           *)

LEMMA WinStarts == ASSUME WinInit PROVE WinInv
<1>1. /\ bAccts = AcctList /\ bConvs = {1}
      /\ ring = [c \in Convs |-> {}] /\ last = [c \in Convs |-> 1]
      /\ unread = [c \in Convs |-> 0] /\ gotAll = {} /\ asking = {} /\ waiting = {}
      /\ queue = <<>> /\ gen = 0
      /\ model = Truth /\ mAccts = bAccts /\ cgen = 0
      /\ batch = <<>> /\ polling = "no" /\ invited = FALSE
      /\ win = [acct |-> AcctOf[1], conv |-> 1, rows |-> <<1>>, hi |-> 1,
                lastConv |-> [a \in Accts |-> IF a = AcctOf[1] THEN 1 ELSE None],
                drafts |-> [c \in Convs |-> None], input |-> None,
                log |-> <<>>, notes |-> FALSE, noOlder |-> FALSE]
      /\ pane = FALSE /\ front = TRUE /\ slipped = FALSE /\ dlg = NoDialog /\ todo = <<>>
      /\ texts = <<>> /\ asked = {} /\ dropped = {} /\ reborn = {}
  BY DEF WinInit
<1>2. 1 \in Convs /\ AcctOf[1] \in Accts /\ AcctList \in Seq(Accts) /\ None \in Nat
  BY ConvsAre DEF None
<1>3. /\ <<>> \in Seq(Nat) /\ <<>> \in Seq(Tasks) /\ <<>> \in Seq(Text) /\ DOMAIN <<>> = {}
      /\ Len(<<>>) = 0 /\ <<1>> \in Seq(Convs) /\ DOMAIN <<1>> = 1 .. 1 /\ <<1>>[1] = 1
  BY <1>2
<1>4. BackendTypes
  BY <1>1, <1>2, NothingTold DEF BackendTypes
<1>5. ClientTypes
  <2>1. DOMAIN model = {1} /\ model \in [{1} -> Nat]
    BY <1>1, <1>4, TruthIs
  <2>2. DOMAIN model \subseteq Convs /\ model \in [DOMAIN model -> Nat]
    BY <1>2, <2>1
  <2>3. mAccts \in Seq(Accts) /\ cgen \in Nat /\ cgen <= gen
    BY <1>1, <1>2
  <2>4. batch \in Seq(Happenings) /\ \A i \in DOMAIN batch : Known(batch[i])
    BY <1>1, NothingTold
  <2> QED BY <1>1, <2>2, <2>3, <2>4 DEF ClientTypes
<1>6. win \in Windows
  <2>1. win.lastConv \in [Accts -> Convs \cup {None}] /\ win.drafts \in [Convs -> Nat]
    BY <1>1, <1>2
  <2> QED BY <1>1, <1>2, <1>3, <2>1 DEF Windows
<1>7. WindowTypes /\ AtWork /\ DialogNames
  BY <1>1, <1>3, <1>6 DEF WindowTypes, AtWork, DialogNames
<1>8. Window
  <2>1. RowsOf(win)
    BY <1>1, <1>3 DEF RowsOf
  <2>2. Lit(win)
    BY <1>1 DEF Lit
  <2>3. TextsAt(win, texts)
    <3>1. win.input = None /\ \A c \in Convs : win.drafts[c] = None
      BY <1>1
    <3>2. DOMAIN texts = {} /\ Len(texts) = 0
      BY <1>1, <1>3
    <3> QED BY <3>1, <3>2 DEF TextsAt, None
  <2>4. SentHome
    BY <1>1, <1>3 DEF SentHome
  <2> QED BY <2>1, <2>2, <2>3, <2>4 DEF Window
<1>9. RingRuns
  BY <1>1 DEF RingRuns
<1>10. PendingRuns
  BY <1>1, NothingTold DEF PendingRuns, ToTell
<1>11. LogFollows
  BY <1>1 DEF LogFollows, Follow, LogRuns
<1>12. Synced
  <2>1. Applied(model, <<>>) = model
    BY AppliedNone
  <2> QED BY <1>1, <1>4, <2>1, TruthIs DEF Synced, Meets
<1>13. Noticed
  <2>1. win.conv = 1 /\ unread[1] = 0
    BY <1>1, <1>2
  <2> QED BY <2>1 DEF Noticed
<1>14. InvitesFollowed
  BY <1>1 DEF InvitesFollowed
<1> QED BY <1>4, <1>5, <1>7, <1>8, <1>9, <1>10, <1>11, <1>12, <1>13, <1>14 DEF WinInv

LEMMA WinStutters == ASSUME WinInv, UNCHANGED winVars PROVE WinInv'
<1>1. /\ UNCHANGED <<bAccts, bConvs, ring, last, unread, gotAll, asking, waiting, queue, gen>>
      /\ UNCHANGED <<model, mAccts, cgen, batch, polling, invited, win, pane, front, slipped, dlg, todo>>
      /\ UNCHANGED <<texts, asked, dropped, reborn>>
  BY DEF winVars, backend, client, window, history
<1>2. todo' \in Seq(Tasks) /\ invited' \in BOOLEAN /\ polling' \in {"no", "due", "told", "reset"}
  BY <1>1 DEF WinInv, WindowTypes, ClientTypes
<1>3. AtWork' /\ DialogNames' /\ InvitesFollowed'
  BY <1>1 DEF WinInv, AtWork, DialogNames, Target, InvitesFollowed
<1> QED BY <1>1, <1>2, <1>3, UserActs

LEMMA WinSteps == ASSUME WinInv, WinNext PROVE WinInv'
<1>1. CASE \E c \in Convs : add_message(c) \/ MergesLatest(c) \/ MergesBefore(c)
                            \/ ConvComesOrGoes(c) \/ PickConv(c)
  BY <1>1, add_messageKeeps, MergesLatestKeeps, MergesBeforeKeeps, ConvComesOrGoesKeeps, PickConvKeeps
<1>2. CASE \E a \in Accts : AccountState(a) \/ PickAccount(a) \/ accountItem(a)
  BY <1>2, AccountStateKeeps, PickAccountKeeps, accountItemKeeps
<1>3. CASE \E i \in Invites : InviteComes(i) \/ AcceptInvite(i) \/ DeclineInvite(i)
  BY <1>3, InviteComesKeeps, AcceptInviteKeeps, DeclineInviteKeeps
<1>4. CASE Restart \/ idle \/ pollNow \/ chatEvents
  BY <1>4, RestartKeeps, idleKeeps, pollNowKeeps, chatEventsKeeps
<1>5. CASE WinEvents
  BY <1>5, MsgEventKeeps, UnreadEventKeeps, ConvNewEventKeeps, ConvGoneEventKeeps,
     HistoryEventKeeps, OlderEventKeeps, StateEventKeeps, InviteEventKeeps DEF WinEvents
<1>6. CASE ToFront \/ ToAccount \/ GoesToConv \/ GoesToAccount \/ InvitesDone
  BY <1>6, ToFrontKeeps, ToAccountKeeps, GoesToConvKeeps, GoesToAccountKeeps, InvitesDoneKeeps
<1>7. CASE PaneFocused \/ OtherWindow \/ PgUp \/ cmReload \/ editConfig \/ ConfigReset
  BY <1>7, PaneFocusedKeeps, OtherWindowKeeps, PgUpKeeps, cmReloadKeeps, editConfigKeeps, ConfigResetKeeps
<1>8. CASE Type \/ sendInput \/ SendRefused \/ cmQuit
  BY <1>8, TypeKeeps, sendInputKeeps, SendRefusedKeeps, cmQuitKeeps
<1>9. CASE \/ connectDialog \/ disconnectDialog \/ joinDialog \/ inviteDialog
           \/ deviceAddDialog \/ deviceUseDialog \/ newGroupDialog
           \/ groupAddDialog \/ groupRemoveDialog \/ groupRenameDialog
           \/ mailSelectionDialog \/ leaveShown
  BY <1>9, DialogsKeep
<1>10. CASE acceptInviteDialog \/ AnswerDialog \/ InviteSent \/ DialogEnds
  BY <1>10, acceptInviteDialogKeeps, AnswerDialogKeeps, InviteSentKeeps, DialogEndsKeeps
<1> QED BY Zenon, <1>1, <1>2, <1>3, <1>4, <1>5, <1>6, <1>7, <1>8, <1>9, <1>10 DEF WinNext

\* The client, its model and the window agree with the backend but for what is
\* still to be told, whatever comes between a question and its answer.
THEOREM WindowAlwaysFollows == WinSpec => []WinInv
<1>1. WinInit => WinInv
  BY WinStarts
<1>2. WinInv /\ [WinNext]_winVars => WinInv'
  BY WinSteps, WinStutters
<1> QED BY <1>1, <1>2, PTL DEF WinSpec

-----------------------------------------------------------------------------
(* What it says                                                            *)

LEMMA InvLog == ASSUME WinInv PROVE LogIsRun
<1> SUFFICES ASSUME gen = cgen, polling # "reset", win.log # <<>>, win.conv \notin reborn
             PROVE  /\ \A i, j \in DOMAIN win.log : i < j => win.log[i] < win.log[j]
                    /\ \A m \in ring[win.conv] :
                         m > Head(win.log) => m \in ToSet(win.log) \cup ToCome(win.conv)
  BY DEF LogIsRun
<1>1. PICK c : c = win.conv
  OBVIOUS
<1>2. PICK log \in Seq(Nat) : log = win.log
  BY WindowIs DEF Windows
<1>3. PICK q : q = ToTell
  OBVIOUS
<1>4. LogRuns(log, q, c, last[c])
  BY <1>1, <1>2, <1>3 DEF WinInv, LogFollows, Follow
<1>5. c \in Convs
  BY <1>2, <1>4 DEF LogRuns
<1>6. PICK l \in Nat : l = last[c]
  BY <1>5 DEF WinInv, BackendTypes
<1>7. PICK n \in Nat \ {0} : n = Len(log) /\ DOMAIN log = 1 .. n
  BY <1>2
<1>8. PICK a \in Nat : a = log[1] /\ a = Head(win.log)
  BY <1>2, <1>7
<1>9. \A i \in 1 .. n : log[i] = a + i - 1
  BY <1>2, <1>4, <1>7, <1>8 DEF LogRuns
<1>10. \A m \in a + n .. l : ToldIn(q, c, m)
  BY <1>2, <1>4, <1>6, <1>7, <1>8 DEF LogRuns
<1>11. \A i, j \in DOMAIN log : i < j => log[i] < log[j]
  BY <1>7, <1>9
<1>12. ASSUME NEW m \in ring[c], m > a PROVE m \in ToSet(log) \cup ToCome(c)
  <2>1. m \in 1 .. l
    BY <1>5, <1>6 DEF WinInv, RingRuns
  <2>2. CASE m < a + n
    <3>1. m - a + 1 \in 1 .. n
      BY <1>12, <2>1, <2>2
    <3>2. log[m - a + 1] = m
      BY <1>9, <2>1, <3>1
    <3> QED BY <1>7, <3>1, <3>2 DEF ToSet
  <2>3. CASE ~(m < a + n)
    <3>1. ToldIn(q, c, m)
      BY <1>10, <2>1, <2>3
    <3> QED BY <1>3, <3>1 DEF ToldIn, MsgOf, ToCome, Pending
  <2> QED BY <2>2, <2>3
<1> QED BY <1>1, <1>2, <1>8, <1>11, <1>12

LEMMA InvTexts == ASSUME WinInv PROVE TextStays
BY DEF WinInv, Window, TextsAt, SentHome, TextStays

LEMMA InvPanes == ASSUME WinInv PROVE PanesAndDialogsAgree
BY DEF WinInv, Window, Lit, DialogNames, PanesAndDialogsAgree, HighlightIsShown, RightTarget

LEMMA InvUnseen == ASSUME WinInv PROVE NothingWaitsUnseen
<1>1. EveryInviteIsAsked
  <2> SUFFICES ASSUME Idle, ~(\E j \in DOMAIN queue : queue[j].t = "invite"),
                      NEW i \in waiting, i \notin asked \cup dropped
               PROVE  FALSE
    BY DEF EveryInviteIsAsked
  <2>1. batch = <<>> /\ ~invited /\ todo = <<>>
    BY IdleIs
  <2>2. ~InviteIn(queue, i)
    BY DEF InviteIn
  <2>3. ~InviteIn(batch, i) /\ ~LeftIn(todo, i)
    BY <2>1, NothingTold DEF LeftIn
  <2> QED BY <2>1, <2>2, <2>3 DEF WinInv, InvitesFollowed
<1>2. LookedAtIsRead
  <2> SUFFICES ASSUME Idle, gen = cgen, queue = <<>>, Attends, win.conv # None, unread[win.conv] # 0
               PROVE  FALSE
    BY DEF LookedAtIsRead, Attends
  <2>1. win.conv \in Convs
    BY WindowIs DEF Windows
  <2>2. unread[win.conv] > 0
    BY <2>1 DEF WinInv, BackendTypes
  <2>3. batch = <<>> /\ polling = "no"
    BY IdleIs
  <2>4. Comes(win.conv, model, batch, queue)
    BY <2>2, <2>3 DEF WinInv, Noticed
  <2> QED BY <2>3, <2>4, NothingTold DEF Comes
<1> QED BY <1>1, <1>2 DEF NothingWaitsUnseen

\* The log is in order, has each message once and lacks only what is to come.
THEOREM LogAlwaysRun == WinSpec => []LogIsRun
BY WindowAlwaysFollows, InvLog, PTL

\* What was typed stays with its conversation and is sent to no other.
THEOREM TextsAlwaysStay == WinSpec => []TextStays
BY WindowAlwaysFollows, InvTexts, PTL

\* What is highlighted is what is shown; a dialog asks for what it named.
THEOREM PanesAndDialogsAlwaysAgree == WinSpec => []PanesAndDialogsAgree
BY WindowAlwaysFollows, InvPanes, PTL

\* Once all is told, no invitation and no message in view is left unnoticed.
THEOREM NothingEverWaitsUnseen == WinSpec => []NothingWaitsUnseen
BY WindowAlwaysFollows, InvUnseen, PTL
=============================================================================
