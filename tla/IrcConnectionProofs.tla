------------------------ MODULE IrcConnectionProofs ------------------------
(***************************************************************************)
(* Proofs about IrcConnection, for any number of addresses, lines,         *)
(* generations and attempts.                                               *)
(*                                                                         *)
(* The argument has two layers.  Control is what connects the phase, the   *)
(* account's state, the timers and the lookups; it is inductive on its     *)
(* own.  The lines (queue, buffer, what was sent) ride on top of it: every *)
(* handler moves them along one pipeline or throws away its tail.          *)
(***************************************************************************)
EXTENDS IrcConnection, TLAPS, SequenceTheorems

Control ==
    /\ FlagsOK
    /\ ControlTypeOK
    /\ StateTellsTruth
    /\ OneRetryTimer
    /\ DeadlineIsOurs
    /\ LookupIsOurs

USE DEF Phases, States, Attempting

(* The next generation is a generation, and another one.                   *)
LEMMA NextGenOther ==
    ASSUME gen \in Gens
    PROVE  NextGen \in Gens /\ NextGen # gen
<1> USE ConstantsOK DEF Gens, NextGen
<1>1. CASE gen = GenCount - 1
  <2>1. (gen + 1) % GenCount = 0  BY <1>1
  <2> QED BY <1>1, <2>1
<1>2. CASE gen # GenCount - 1
  <2>1. (gen + 1) % GenCount = gen + 1  BY <1>2
  <2> QED BY <1>2, <2>1
<1> QED BY <1>1, <1>2

(* Initially nothing is going on.                                          *)
LEMMA ControlInit == Init => Control
<1> SUFFICES ASSUME Init PROVE Control  OBVIOUS
<1> USE DEF Init
<1>1. FlagsOK  BY Zenon DEF FlagsOK
<1>2. ControlTypeOK  BY ConstantsOK DEF ControlTypeOK, Gens
<1>3. StateTellsTruth  BY DEF StateTellsTruth
<1>4. OneRetryTimer  BY DEF OneRetryTimer
<1>5. DeadlineIsOurs  BY DEF DeadlineIsOurs
<1>6. LookupIsOurs  BY DEF LookupIsOurs
<1> QED BY <1>1, <1>2, <1>3, <1>4, <1>5, <1>6 DEF Control

(* Ending an attempt leaves the controls right: the timer cancelled, the   *)
(* state "error" or a retry set up.  `timers` are the deadlines live when  *)
(* the handler starts, `lookups'` what it leaves of the lookups.           *)
LEMMA FailKeepsControl ==
    ASSUME Control, NEW timers, timers \in {deadlines, deadlines \ {gen}},
           phase \in Attempting, Fail(timers),
           lookups' \subseteq lookups
    PROVE  Control'
<1> USE DEF Control, Fail, Close, Retry, retryVars, envVars
<1> USE NextGenOther
<1>1. FlagsOK'
  BY Zenon DEF FlagsOK
<1>2. ControlTypeOK'
  BY ConstantsOK DEF ControlTypeOK, OneRetryTimer
<1>3. StateTellsTruth'
  BY DEF StateTellsTruth, OneRetryTimer
<1>4. OneRetryTimer'
  BY DEF OneRetryTimer, ControlTypeOK
<1>5. DeadlineIsOurs'
  BY DEF DeadlineIsOurs, ControlTypeOK
<1>6. LookupIsOurs'
  BY DEF LookupIsOurs, ControlTypeOK
<1> QED BY <1>1, <1>2, <1>3, <1>4, <1>5, <1>6

(* The same for a connection that is lost.                                 *)
LEMMA LostKeepsControl ==
    ASSUME Control, phase \in {"registering", "up"}, Lost
    PROVE  Control'
<1> USE DEF Control, Lost, Close, Retry, envVars
<1>1. FlagsOK'
  BY Zenon DEF FlagsOK
<1>2. ControlTypeOK'
  BY ConstantsOK, NextGenOther DEF ControlTypeOK, OneRetryTimer, Gens
<1>3. StateTellsTruth'
  BY DEF StateTellsTruth, OneRetryTimer
<1>4. OneRetryTimer'
  BY DEF OneRetryTimer, ControlTypeOK
<1>5. DeadlineIsOurs'
  BY NextGenOther DEF DeadlineIsOurs, ControlTypeOK
<1>6. LookupIsOurs'
  BY NextGenOther DEF LookupIsOurs, ControlTypeOK
<1> QED BY <1>1, <1>2, <1>3, <1>4, <1>5, <1>6

(* What neither the phase, the account nor the timers see changes nothing. *)
LEMMA QuietKeepsControl ==
    ASSUME Control, FlagsOK',
           UNCHANGED <<phase, acct, gen, retryVars, deadlines, lookups, addrs>>
    PROVE  Control'
<1> USE DEF Control, retryVars
<1>1. ControlTypeOK'
  BY DEF ControlTypeOK
<1>2. StateTellsTruth'
  BY DEF StateTellsTruth
<1>3. OneRetryTimer'
  BY DEF OneRetryTimer
<1>4. DeadlineIsOurs'
  BY DEF DeadlineIsOurs
<1>5. LookupIsOurs'
  BY DEF LookupIsOurs
<1> QED BY <1>1, <1>2, <1>3, <1>4, <1>5

(* The next address is tried, or the attempt fails.                        *)
LEMMA TryNextKeepsControl ==
    ASSUME Control, NEW k \in 0 .. MaxAddrs, phase \in Attempting, TryNext(k),
           lookups' = IF phase = "resolving" THEN lookups \ {gen} ELSE lookups
    PROVE  Control'
<1>1. CASE ~reach /\ Fail(deadlines)
  BY <1>1, FailKeepsControl DEF Control, DeadlineIsOurs
<1>2. CASE ~(~reach /\ Fail(deadlines))
  <2> USE <1>2 DEF Control, TryNext, retryVars, envVars, lineVars
  <2>1. FlagsOK'
    BY Zenon DEF FlagsOK
  <2>2. ControlTypeOK'
    <3>1. addrs' \in 0 .. MaxAddrs
      BY ConstantsOK
    <3> QED BY <3>1 DEF ControlTypeOK
  <2>3. StateTellsTruth'
    BY DEF StateTellsTruth, OneRetryTimer
  <2>4. OneRetryTimer'
    BY DEF OneRetryTimer, ControlTypeOK
  <2>5. DeadlineIsOurs'
    BY NextGenOther DEF DeadlineIsOurs, ControlTypeOK
  <2>6. LookupIsOurs'
    BY NextGenOther DEF LookupIsOurs, ControlTypeOK
  <2> QED BY <2>1, <2>2, <2>3, <2>4, <2>5, <2>6
<1> QED BY <1>1, <1>2

(* Every step keeps it.                                                    *)
LEMMA ControlStep == Control /\ [Next]_vars => Control'
<1> SUFFICES ASSUME Control, [Next]_vars PROVE Control'  OBVIOUS
<1> USE DEF Control, retryVars, envVars, lineVars
<1>1. CASE Connect
  <2> USE <1>1 DEF Connect, CancelRetry, BeginAttempt
  <2>1. FlagsOK'
    BY Zenon DEF FlagsOK
  <2>2. ControlTypeOK'
    <3>1. liveRetries' \in Nat
      BY DEF OneRetryTimer
    <3>2. attempt' \in 0 .. AttemptCap
      BY ConstantsOK DEF ControlTypeOK
    <3> QED BY <3>1, <3>2 DEF ControlTypeOK
  <2>3. StateTellsTruth'
    BY DEF StateTellsTruth, OneRetryTimer
  <2>4. OneRetryTimer'
    BY DEF OneRetryTimer, ControlTypeOK
  <2>5. DeadlineIsOurs'
    BY NextGenOther DEF DeadlineIsOurs, ControlTypeOK
  <2>6. LookupIsOurs'
    BY NextGenOther DEF LookupIsOurs, ControlTypeOK
  <2> QED BY <2>1, <2>2, <2>3, <2>4, <2>5, <2>6
<1>2. CASE Disconnect
  <2> USE <1>2 DEF Disconnect, CancelRetry, Close
  <2>1. FlagsOK'
    BY Zenon DEF FlagsOK
  <2>2. ControlTypeOK'
    BY ConstantsOK, NextGenOther DEF ControlTypeOK, OneRetryTimer, Gens
  <2>3. StateTellsTruth'
    BY DEF StateTellsTruth, OneRetryTimer
  <2>4. OneRetryTimer'
    BY DEF OneRetryTimer, ControlTypeOK
  <2>5. DeadlineIsOurs'
    BY NextGenOther DEF DeadlineIsOurs, ControlTypeOK
  <2>6. LookupIsOurs'
    BY NextGenOther DEF LookupIsOurs, ControlTypeOK
  <2> QED BY <2>1, <2>2, <2>3, <2>4, <2>5, <2>6
<1>3. CASE Send
  <2>1. pumpTimer' \in BOOLEAN
    BY <1>3 DEF Send, PumpLines
  <2>2. FlagsOK'
    BY <1>3, <2>1, Zenon DEF FlagsOK, Send
  <2> QED BY <1>3, <2>2, QuietKeepsControl DEF Send
<1>4. CASE Reconnect
  <2> USE <1>4 DEF Reconnect, BeginAttempt
  <2>1. FlagsOK'
    BY Zenon DEF FlagsOK
  <2>2. ControlTypeOK'
    <3>1. liveRetries' \in Nat
      BY DEF OneRetryTimer
    <3>2. attempt' \in 0 .. AttemptCap
      BY ConstantsOK DEF ControlTypeOK
    <3> QED BY <3>1, <3>2 DEF ControlTypeOK
  <2>3. StateTellsTruth'
    BY DEF StateTellsTruth, OneRetryTimer
  <2>4. OneRetryTimer'
    BY DEF OneRetryTimer, ControlTypeOK
  <2>5. DeadlineIsOurs'
    BY NextGenOther DEF DeadlineIsOurs, ControlTypeOK
  <2>6. LookupIsOurs'
    BY NextGenOther DEF LookupIsOurs, ControlTypeOK
  <2> QED BY <2>1, <2>2, <2>3, <2>4, <2>5, <2>6
<1>5. CASE Connected
  <2>1. CASE (~reach \/ addrs > 0) /\ TryNext(addrs) /\ UNCHANGED lookups
    BY <1>5, <2>1, TryNextKeepsControl DEF Connected, ControlTypeOK
  <2>2. CASE ~tls /\ Register
    <3> USE <1>5, <2>2 DEF Connected, Register
    <3>1. FlagsOK'
      BY Zenon DEF FlagsOK
    <3>2. ControlTypeOK'
      BY ConstantsOK, NextGenOther DEF ControlTypeOK, OneRetryTimer, Gens
    <3>3. StateTellsTruth'
      BY DEF StateTellsTruth, OneRetryTimer
    <3>4. OneRetryTimer'
      BY DEF OneRetryTimer, ControlTypeOK
    <3>5. DeadlineIsOurs'
      BY NextGenOther DEF DeadlineIsOurs, ControlTypeOK
    <3>6. LookupIsOurs'
      BY NextGenOther DEF LookupIsOurs, ControlTypeOK
    <3> QED BY <3>1, <3>2, <3>3, <3>4, <3>5, <3>6
  <2>3. CASE tls /\ ~reach /\ Fail(deadlines) /\ UNCHANGED lookups
    BY <1>5, <2>3, FailKeepsControl DEF Connected
  <2>4. CASE /\ tls
             /\ phase' = "tls"
             /\ UNCHANGED <<acct, gen, retryVars, deadlines, lookups, addrs,
                            lineVars, stable, envVars>>
    <3> USE <1>5, <2>4 DEF Connected
    <3>1. FlagsOK'
      BY Zenon DEF FlagsOK
    <3>2. ControlTypeOK'
      BY ConstantsOK, NextGenOther DEF ControlTypeOK, OneRetryTimer, Gens
    <3>3. StateTellsTruth'
      BY DEF StateTellsTruth, OneRetryTimer
    <3>4. OneRetryTimer'
      BY DEF OneRetryTimer, ControlTypeOK
    <3>5. DeadlineIsOurs'
      BY NextGenOther DEF DeadlineIsOurs, ControlTypeOK
    <3>6. LookupIsOurs'
      BY NextGenOther DEF LookupIsOurs, ControlTypeOK
    <3> QED BY <3>1, <3>2, <3>3, <3>4, <3>5, <3>6
  <2> QED BY <1>5, <2>1, <2>2, <2>3, <2>4 DEF Connected
<1>6. CASE Handshake
  <2>1. CASE Register
    <3> USE <1>6, <2>1 DEF Handshake, Register
    <3>1. FlagsOK'
      BY Zenon DEF FlagsOK
    <3>2. ControlTypeOK'
      BY ConstantsOK, NextGenOther DEF ControlTypeOK, OneRetryTimer, Gens
    <3>3. StateTellsTruth'
      BY DEF StateTellsTruth, OneRetryTimer
    <3>4. OneRetryTimer'
      BY DEF OneRetryTimer, ControlTypeOK
    <3>5. DeadlineIsOurs'
      BY NextGenOther DEF DeadlineIsOurs, ControlTypeOK
    <3>6. LookupIsOurs'
      BY NextGenOther DEF LookupIsOurs, ControlTypeOK
    <3> QED BY <3>1, <3>2, <3>3, <3>4, <3>5, <3>6
  <2>2. CASE ~reach /\ Fail(deadlines) /\ UNCHANGED lookups
    BY <1>6, <2>2, FailKeepsControl DEF Handshake
  <2> QED BY <1>6, <2>1, <2>2 DEF Handshake
<1>7. CASE Welcome
  <2> USE <1>7 DEF Welcome
  <2>1. FlagsOK'
    BY Zenon DEF FlagsOK
  <2>2. ControlTypeOK'
    BY ConstantsOK, NextGenOther DEF ControlTypeOK, OneRetryTimer, Gens
  <2>3. StateTellsTruth'
    BY DEF StateTellsTruth, OneRetryTimer
  <2>4. OneRetryTimer'
    BY DEF OneRetryTimer, ControlTypeOK
  <2>5. DeadlineIsOurs'
    BY NextGenOther DEF DeadlineIsOurs, ControlTypeOK
  <2>6. LookupIsOurs'
    BY NextGenOther DEF LookupIsOurs, ControlTypeOK
  <2> QED BY <2>1, <2>2, <2>3, <2>4, <2>5, <2>6
<1>8. CASE BecomeStable
  <2>1. FlagsOK'
    BY <1>8, Zenon DEF FlagsOK, BecomeStable
  <2> QED BY <1>8, <2>1, QuietKeepsControl DEF BecomeStable
<1>9. CASE Pump
  <2>1. pumpTimer' \in BOOLEAN
    BY <1>9 DEF Pump, PumpLines
  <2>2. FlagsOK'
    BY <1>9, <2>1, Zenon DEF FlagsOK, Pump
  <2> QED BY <1>9, <2>2, QuietKeepsControl DEF Pump
<1>10. CASE Write
  <2>1. FlagsOK'
    BY <1>10, Zenon DEF FlagsOK, Write
  <2> QED BY <1>10, <2>1, QuietKeepsControl DEF Write
<1>11. CASE ConnectionLost
  BY <1>11, LostKeepsControl DEF ConnectionLost
<1>12. ASSUME NEW g \in Gens, LookupDone(g) PROVE Control'
  <2>1. CASE g = gen /\ \E k \in 1 .. MaxAddrs : TryNext(k)
    <3>1. phase = "resolving" /\ lookups' = lookups \ {gen}
      BY <1>12, <2>1 DEF LookupDone, LookupIsOurs
    <3> QED BY <2>1, <3>1, TryNextKeepsControl, ConstantsOK
  <2>2. CASE g = gen /\ ~reach /\ Fail(deadlines)
    <3>1. phase = "resolving" /\ lookups' = lookups \ {gen}
      BY <1>12, <2>2 DEF LookupDone, LookupIsOurs
    <3> QED BY <2>2, <3>1, FailKeepsControl
  <2>3. CASE g # gen
    <3> USE <1>12, <2>3 DEF LookupDone
    <3>1. FlagsOK'
      BY Zenon DEF FlagsOK
    <3>2. ControlTypeOK'
      BY ConstantsOK, NextGenOther DEF ControlTypeOK, OneRetryTimer, Gens
    <3>3. StateTellsTruth'
      BY DEF StateTellsTruth, OneRetryTimer
    <3>4. OneRetryTimer'
      BY DEF OneRetryTimer, ControlTypeOK
    <3>5. DeadlineIsOurs'
      BY NextGenOther DEF DeadlineIsOurs, ControlTypeOK
    <3>6. LookupIsOurs'
      BY NextGenOther DEF LookupIsOurs, ControlTypeOK
    <3> QED BY <3>1, <3>2, <3>3, <3>4, <3>5, <3>6
  <2> QED BY <1>12, <2>1, <2>2, <2>3 DEF LookupDone
<1>13. ASSUME NEW g \in Gens, Deadline(g) PROVE Control'
  <2>1. g = gen /\ phase \in Attempting
    BY <1>13 DEF Deadline, DeadlineIsOurs
  <2> QED BY <1>13, <2>1, FailKeepsControl DEF Deadline
<1>14. CASE NetworkChanges
  <2>1. FlagsOK'
    BY <1>14, Zenon DEF FlagsOK, NetworkChanges
  <2> QED BY <1>14, <2>1, QuietKeepsControl DEF NetworkChanges
<1>15. CASE PasswordChanges
  <2>1. FlagsOK'
    BY <1>15, Zenon DEF FlagsOK, PasswordChanges
  <2> QED BY <1>15, <2>1, QuietKeepsControl DEF PasswordChanges
<1>16. CASE UNCHANGED vars
  <2>1. FlagsOK'
    BY <1>16, Zenon DEF FlagsOK, vars
  <2> QED BY <1>16, <2>1, QuietKeepsControl DEF vars
<1> QED
  BY <1>1, <1>2, <1>3, <1>4, <1>5, <1>6, <1>7, <1>8, <1>9, <1>10, <1>11,
     <1>12, <1>13, <1>14, <1>15, <1>16, Zenon DEF Next

-----------------------------------------------------------------------------
(* The lines.                                                              *)

Increasing(s) == \A i, j \in DOMAIN s : i < j => s[i] < s[j]

(* Taking the first n lines of a queue away leaves the others, in order.  *)
LEMMA SplitLines ==
    ASSUME NEW S, NEW b \in Seq(S), NEW n \in 0 .. Len(b)
    PROVE  /\ SubSeq(b, 1, n) \in Seq(S)
           /\ SubSeq(b, n + 1, Len(b)) \in Seq(S)
           /\ SubSeq(b, 1, n) \o SubSeq(b, n + 1, Len(b)) = b
<1>1. Len(b) \in Nat /\ \A i \in 1 .. Len(b) : b[i] \in S
  BY LenProperties, ElementOfSeq
<1>2. SubSeq(b, 1, n) \in Seq(S)
  BY <1>1, SubSeqProperties
<1>3. SubSeq(b, n + 1, Len(b)) \in Seq(S)
  BY <1>1, SubSeqProperties
<1>4. SubSeq(b, 1, n) \o SubSeq(b, n + 1, Len(b)) = SubSeq(b, 1, Len(b))
  <2>1. 1 \in 1 .. Len(b) + 1 /\ n \in 1 - 1 .. Len(b) /\ Len(b) \in n .. Len(b)
    BY <1>1
  <2> QED BY <2>1, ConcatAdjacentSubSeq, Zenon
<1>5. SubSeq(b, 1, Len(b)) = b
  BY SubSeqFull, Zenon
<1> QED BY <1>2, <1>3, <1>4, <1>5, Zenon

(* _pump() moves lines from the queue to the buffer, in order.             *)
LEMMA PumpMoves ==
    ASSUME NEW S, NEW b \in Seq(S), NEW n \in 0 .. Len(b), PumpLines(b, n),
           sent \in Seq(S), wbuf \in Seq(S)
    PROVE  /\ wbuf' \in Seq(S) /\ outq' \in Seq(S)
           /\ (sent \o wbuf') \o outq' = (sent \o wbuf) \o b
<1>1. PICK f : f = SubSeq(b, 1, n)
  OBVIOUS
<1>2. PICK a : a = sent \o wbuf
  OBVIOUS
<1>3. f \in Seq(S) /\ outq' \in Seq(S) /\ f \o outq' = b /\ wbuf' = wbuf \o f
  BY <1>1, SplitLines DEF PumpLines
<1>4. a \in Seq(S) /\ wbuf \o f \in Seq(S)
  BY <1>2, <1>3, ConcatProperties
<1>5. (sent \o wbuf) \o f = sent \o (wbuf \o f)
  <2>1. sent \in Seq(S) /\ wbuf \in Seq(S) /\ f \in Seq(S)
    BY <1>3
  <2> QED BY ONLY <2>1, ConcatAssociative, SMTT(60)
<1>6. (a \o f) \o outq' = a \o (f \o outq')
  <2>1. PICK r : r = outq'
    OBVIOUS
  <2>2. a \in Seq(S) /\ f \in Seq(S) /\ r \in Seq(S)
    BY <1>3, <1>4, <2>1
  <2>3. (a \o f) \o r = a \o (f \o r)
    BY ONLY <2>2, ConcatAssociative, SMTT(60)
  <2> QED BY <2>1, <2>3
<1> QED BY <1>2, <1>3, <1>4, <1>5, <1>6

(* What is queued last is among all the lines.                             *)
LEMMA SuffixLines ==
    ASSUME NEW S, NEW a \in Seq(S), NEW b \in Seq(S)
    PROVE  Lines(b) \subseteq Lines(a \o b)
<1>1. /\ Len(a) \in Nat /\ Len(b) \in Nat /\ DOMAIN b = 1 .. Len(b)
      /\ DOMAIN (a \o b) = 1 .. Len(a) + Len(b)
  BY LenProperties, ConcatProperties
<1>2. ASSUME NEW i \in DOMAIN b PROVE b[i] \in Lines(a \o b)
  <2>1. /\ Len(a) + i \in 1 .. Len(a) + Len(b) /\ ~(Len(a) + i <= Len(a))
        /\ (Len(a) + i) - Len(a) = i
    BY <1>1
  <2>2. (a \o b)[Len(a) + i] = b[i]
    BY <2>1, ConcatProperties
  <2> QED BY <1>1, <2>1, <2>2 DEF Lines
<1> QED BY <1>2 DEF Lines

(* What is in two queues put together is in one of them.                   *)
LEMMA ConcatLines ==
    ASSUME NEW S, NEW a \in Seq(S), NEW b \in Seq(S)
    PROVE  Lines(a \o b) \subseteq Lines(a) \cup Lines(b)
<1> SUFFICES ASSUME NEW i \in DOMAIN (a \o b)
             PROVE  (a \o b)[i] \in Lines(a) \cup Lines(b)
  BY DEF Lines
<1>1. /\ Len(a) \in Nat /\ Len(b) \in Nat
      /\ DOMAIN a = 1 .. Len(a) /\ DOMAIN b = 1 .. Len(b)
      /\ i \in 1 .. Len(a) + Len(b)
      /\ (a \o b)[i] = IF i <= Len(a) THEN a[i] ELSE b[i - Len(a)]
  BY LenProperties, ConcatProperties
<1>2. CASE i <= Len(a)
  <2>1. i \in DOMAIN a
    BY <1>1, <1>2
  <2> QED BY <1>1, <1>2, <2>1 DEF Lines
<1>3. CASE ~(i <= Len(a))
  <2>1. i - Len(a) \in DOMAIN b
    BY <1>1, <1>3
  <2> QED BY <1>1, <1>3, <2>1 DEF Lines
<1> QED BY <1>2, <1>3

(* A line appended keeps increasing lines increasing if it is a new one.   *)
LEMMA AppendIncreasing ==
    ASSUME NEW p \in Seq(Nat), NEW e \in Nat, Increasing(p),
           \A i \in DOMAIN p : p[i] < e
    PROVE  /\ Increasing(Append(p, e))
           /\ Lines(Append(p, e)) = Lines(p) \cup {e}
<1> DEFINE z == Append(p, e)
<1>1. /\ Len(p) \in Nat /\ DOMAIN p = 1 .. Len(p)
      /\ \A i \in DOMAIN p : p[i] \in Nat
  BY LenProperties, ElementOfSeq
<1>2. /\ DOMAIN z = 1 .. Len(p) + 1
      /\ \A i \in 1 .. Len(p) : z[i] = p[i]
      /\ z[Len(p) + 1] = e
  BY <1>1, AppendProperties, LenProperties
<1> HIDE DEF z
<1>3. ASSUME NEW i \in DOMAIN z, NEW j \in DOMAIN z, i < j PROVE z[i] < z[j]
  <2>1. i \in 1 .. Len(p)
    BY <1>1, <1>2, <1>3
  <2>2. CASE j = Len(p) + 1
    BY <1>1, <1>2, <2>1, <2>2
  <2>3. CASE j \in 1 .. Len(p)
    BY <1>1, <1>2, <1>3, <2>1, <2>3 DEF Increasing
  <2> QED BY <1>1, <1>2, <2>2, <2>3
<1>4. Lines(z) = Lines(p) \cup {e}
  <2>1. ASSUME NEW i \in DOMAIN z PROVE z[i] \in Lines(p) \cup {e}
    BY <1>1, <1>2 DEF Lines
  <2>2. ASSUME NEW i \in DOMAIN p PROVE i \in DOMAIN z /\ z[i] = p[i]
    BY <1>1, <1>2
  <2>3. Len(p) + 1 \in DOMAIN z
    BY <1>1, <1>2
  <2> QED BY <1>2, <2>1, <2>2, <2>3 DEF Lines
<1> QED BY <1>3, <1>4 DEF Increasing, z

(* A prefix of increasing lines is increasing and shares none with the     *)
(* rest.                                                                   *)
LEMMA PrefixIncreasing ==
    ASSUME NEW a \in Seq(Nat), NEW b \in Seq(Nat), Increasing(a \o b)
    PROVE  /\ Increasing(a)
           /\ Lines(a) \subseteq Lines(a \o b)
           /\ Lines(a) \cap Lines(b) = {}
<1>1. /\ DOMAIN a = 1 .. Len(a) /\ DOMAIN b = 1 .. Len(b)
      /\ Len(a) \in Nat /\ Len(b) \in Nat
      /\ \A i \in DOMAIN a : a[i] \in Nat
      /\ \A i \in DOMAIN b : b[i] \in Nat
  BY LenProperties, ElementOfSeq
<1>2. /\ DOMAIN (a \o b) = 1 .. Len(a) + Len(b)
      /\ \A i \in 1 .. Len(a) : (a \o b)[i] = a[i]
      /\ \A i \in 1 .. Len(b) : (a \o b)[Len(a) + i] = b[i]
  <2>1. a \o b \in Seq(Nat) /\ Len(a \o b) = Len(a) + Len(b)
    BY ConcatProperties, Zenon
  <2>2. DOMAIN (a \o b) = 1 .. Len(a) + Len(b)
    BY <2>1, LenProperties, Zenon
  <2>3. \A i \in 1 .. Len(a) + Len(b) :
          (a \o b)[i] = IF i <= Len(a) THEN a[i] ELSE b[i - Len(a)]
    BY ConcatProperties, Zenon
  <2> DEFINE c == a \o b
  <2>4. \A i \in 1 .. Len(a) + Len(b) : c[i] = IF i <= Len(a) THEN a[i] ELSE b[i - Len(a)]
    BY <2>3
  <2>5. DOMAIN c = 1 .. Len(a) + Len(b)
    BY <2>2
  <2> HIDE DEF c
  <2>6. ASSUME NEW i \in 1 .. Len(a) PROVE c[i] = a[i]
    <3>1. i \in 1 .. Len(a) + Len(b) /\ i <= Len(a)
      BY <1>1
    <3> QED BY <2>4, <3>1
  <2>7. ASSUME NEW i \in 1 .. Len(b) PROVE c[Len(a) + i] = b[i]
    <3>1. /\ Len(a) + i \in 1 .. Len(a) + Len(b) /\ ~(Len(a) + i <= Len(a))
          /\ (Len(a) + i) - Len(a) = i
      BY <1>1
    <3> QED BY <2>4, <3>1
  <2> QED BY <2>5, <2>6, <2>7 DEF c
<1>3. Increasing(a)
  <2> SUFFICES ASSUME NEW i \in DOMAIN a, NEW j \in DOMAIN a, i < j
               PROVE  a[i] < a[j]
    BY DEF Increasing
  <2>1. i \in DOMAIN (a \o b) /\ j \in DOMAIN (a \o b)
    BY <1>1, <1>2
  <2>2. (a \o b)[i] < (a \o b)[j]
    BY <2>1 DEF Increasing
  <2> QED BY <2>2, <1>1, <1>2
<1>4. Lines(a) \subseteq Lines(a \o b)
  <2> SUFFICES ASSUME NEW i \in DOMAIN a PROVE a[i] \in Lines(a \o b)
    BY DEF Lines
  <2>1. i \in DOMAIN (a \o b) /\ a[i] = (a \o b)[i]
    BY <1>1, <1>2
  <2> QED BY <2>1 DEF Lines
<1>5. Lines(a) \cap Lines(b) = {}
  <2> SUFFICES ASSUME NEW i \in DOMAIN a, NEW j \in DOMAIN b, a[i] = b[j]
               PROVE  FALSE
    BY DEF Lines
  <2>1. /\ i \in DOMAIN (a \o b) /\ Len(a) + j \in DOMAIN (a \o b)
        /\ i < Len(a) + j
    BY <1>1, <1>2
  <2>2. (a \o b)[i] < (a \o b)[Len(a) + j]
    BY <2>1 DEF Increasing
  <2>3. a[i] < b[j]
    BY <2>2, <1>1, <1>2
  <2> QED BY <2>3, <1>1
<1> QED BY <1>3, <1>4, <1>5

\* What becomes of the lines when a connection is closed under them
Dropped ==
    /\ noted' = noted \cup Lines(outq)
    /\ outq' = <<>> /\ wbuf' = <<>>
    /\ UNCHANGED <<typed, sent>>

(* No other handler touches the lines.                                     *)
LEMMA LinesCases ==
    ASSUME [Next]_vars
    PROVE  \/ Send \/ Pump \/ Write \/ Disconnect
           \/ Dropped
           \/ UNCHANGED <<outq, wbuf, typed, sent, noted>>
<1> DEFINE Quiet == UNCHANGED <<outq, wbuf, typed, sent, noted>>
<1>1. ASSUME NEW timers, Fail(timers) PROVE Dropped
  BY <1>1 DEF Fail, DropQueue, Close, Dropped
<1>2. ASSUME NEW k, TryNext(k) PROVE Dropped \/ Quiet
  BY <1>1, <1>2 DEF TryNext, lineVars
<1>3. Register => Quiet
  BY DEF Register, lineVars
<1>4. Connect \/ Reconnect \/ Welcome \/ BecomeStable => Quiet
  BY DEF Connect, Reconnect, Welcome, BecomeStable, lineVars
<1>5. Connected \/ Handshake => Dropped \/ Quiet
  BY <1>1, <1>2, <1>3 DEF Connected, Handshake, lineVars
<1>6. ConnectionLost => Dropped
  BY DEF ConnectionLost, Lost, DropQueue, Close, Dropped
<1>7. ASSUME NEW g \in Gens, LookupDone(g) PROVE Dropped \/ Quiet
  BY <1>1, <1>2, <1>7 DEF LookupDone, lineVars
<1>8. ASSUME NEW g \in Gens, Deadline(g) PROVE Dropped
  BY <1>1, <1>8 DEF Deadline
<1>9. NetworkChanges \/ PasswordChanges \/ UNCHANGED vars => Quiet
  BY DEF NetworkChanges, PasswordChanges, vars, lineVars
<1> QED
  BY <1>4, <1>5, <1>6, <1>7, <1>8, <1>9 DEF Next

(* Every step keeps the lines typed, in order, and honestly reported.      *)
LinesInv ==
    /\ LinesTypeOK
    /\ LinesHonest

LEMMA LinesInit == Init => LinesInv
<1> SUFFICES ASSUME Init PROVE LinesInv  OBVIOUS
<1>1. Pipeline = <<>>
  BY DEF Init, Pipeline
<1> QED BY <1>1, ConstantsOK DEF Init, LinesInv, LinesTypeOK, LinesHonest, Lines

LEMMA LinesStep == LinesInv /\ [Next]_vars => LinesInv'
<1> SUFFICES ASSUME LinesInv, [Next]_vars PROVE LinesInv'
  OBVIOUS
<1> DEFINE S == 1 .. MaxLines
<1>1. /\ outq \in Seq(S) /\ wbuf \in Seq(S) /\ sent \in Seq(S)
      /\ typed \in 0 .. MaxLines /\ noted \subseteq 1 .. typed
      /\ Increasing(Pipeline) /\ Lines(Pipeline) \subseteq (1 .. typed) \ noted
  BY DEF LinesInv, LinesTypeOK, LinesHonest, Increasing
<1>2. sent \o wbuf \in Seq(S)
  BY <1>1, ConcatProperties
<1>3. ASSUME LinesTypeOK', Pipeline' = Pipeline, typed' = typed, noted' = noted
      PROVE  LinesInv'
  BY <1>1, <1>3 DEF LinesInv, LinesHonest, Increasing
<1>4. ASSUME LinesTypeOK', NEW r \in Seq(S), Pipeline = Pipeline' \o r,
             Pipeline' \in Seq(S), typed' = typed,
             noted' \subseteq noted \cup Lines(r)
      PROVE  LinesInv'
  <2>1. Pipeline' \in Seq(Nat) /\ r \in Seq(Nat)
    BY <1>4, SeqMonotonic, ConstantsOK
  <2>2. /\ Increasing(Pipeline')
        /\ Lines(Pipeline') \subseteq Lines(Pipeline)
        /\ Lines(Pipeline') \cap Lines(r) = {}
    BY <1>1, <1>4, <2>1, PrefixIncreasing
  <2> QED BY <1>1, <1>4, <2>2 DEF LinesInv, LinesHonest, Increasing
<1> HIDE DEF S
<1>5. CASE Send
  <2> DEFINE q == Append(outq, typed + 1)
  <2>1. PICK n \in 0 .. Len(q) : PumpLines(q, n)
    BY <1>5 DEF Send
  <2>2. q \in Seq(S) /\ typed + 1 \in S /\ typed' = typed + 1 /\ typed' \in 0 .. MaxLines
        /\ sent' = sent /\ noted' = noted
    BY <1>1, <1>5, ConstantsOK DEF Send, S
  <2>3. PumpLines(q, n) /\ Len(q) \in Nat
    BY <2>1, <2>2, LenProperties
  <2> HIDE DEF q
  <2>4. /\ wbuf' \in Seq(S) /\ outq' \in Seq(S)
        /\ (sent \o wbuf') \o outq' = (sent \o wbuf) \o q
    BY <1>1, <2>2, <2>3, PumpMoves
  <2>5. LinesTypeOK'
    BY <1>1, <2>2, <2>4 DEF LinesTypeOK, S
  <2>6. Pipeline \in Seq(S) /\ Pipeline' = Append(Pipeline, typed + 1)
    <3>1. Pipeline \in Seq(S)
      BY <1>1, <1>2, ConcatProperties, Zenon DEF Pipeline
    <3>2. q = outq \o <<typed + 1>> /\ <<typed + 1>> \in Seq(S)
      BY <1>1, <2>2, AppendIsConcat DEF q
    <3>3. (sent \o wbuf) \o q = ((sent \o wbuf) \o outq) \o <<typed + 1>>
      <4>1. outq \in Seq(S) /\ <<typed + 1>> \in Seq(S) /\ sent \o wbuf \in Seq(S)
        BY <1>1, <1>2, <3>2
      <4> DEFINE a == sent \o wbuf
                 e == <<typed + 1>>
      <4>2. a \in Seq(S) /\ e \in Seq(S)
        BY <4>1
      <4> HIDE DEF a, e
      <4>3. (a \o outq) \o e = a \o (outq \o e)
        BY ONLY <4>1, <4>2, ConcatAssociative, SMTT(60)
      <4>4. ((sent \o wbuf) \o outq) \o <<typed + 1>>
              = (sent \o wbuf) \o (outq \o <<typed + 1>>)
        BY ONLY <4>3 DEF a, e
      <4> QED BY <4>4, <3>2
    <3>4. Pipeline \o <<typed + 1>> = Append(Pipeline, typed + 1)
      BY <2>2, <3>1, AppendIsConcat, Zenon
    <3> QED BY <2>2, <2>4, <3>1, <3>3, <3>4 DEF Pipeline
  <2>7. /\ Pipeline \in Seq(Nat) /\ typed + 1 \in Nat
        /\ \A i \in DOMAIN Pipeline : Pipeline[i] < typed + 1
    <3>1. Pipeline \in Seq(Nat)
      BY <2>6, SeqMonotonic, ConstantsOK DEF S
    <3> QED BY <1>1, <3>1, SMTT(30) DEF Lines
  <2>8. /\ Increasing(Pipeline')
        /\ Lines(Pipeline') = Lines(Pipeline) \cup {typed + 1}
    BY <1>1, <2>6, <2>7, AppendIncreasing
  <2>9. Lines(Pipeline') \subseteq (1 .. typed') \ noted'
    BY <1>1, <2>2, <2>8 DEF S
  <2> QED BY <2>5, <2>8, <2>9 DEF LinesInv, LinesHonest, Increasing
<1>6. CASE Pump
  <2>1. PICK n \in 0 .. Len(outq) : PumpLines(outq, n)
    BY <1>6 DEF Pump
  <2>2. sent' = sent /\ typed' = typed /\ noted' = noted
    BY <1>6 DEF Pump
  <2>3. /\ wbuf' \in Seq(S) /\ outq' \in Seq(S)
        /\ (sent \o wbuf') \o outq' = (sent \o wbuf) \o outq
    BY <1>1, <2>1, PumpMoves
  <2>4. LinesTypeOK'
    BY <1>1, <2>2, <2>3 DEF LinesTypeOK, S
  <2> QED BY <1>3, <2>2, <2>3, <2>4 DEF Pipeline
<1>7. CASE Write
  <2>1. PICK n \in 1 .. Len(wbuf) : /\ sent' = sent \o SubSeq(wbuf, 1, n)
                                    /\ wbuf' = SubSeq(wbuf, n + 1, Len(wbuf))
    BY <1>7 DEF Write
  <2>2. outq' = outq /\ typed' = typed /\ noted' = noted
    BY <1>7 DEF Write
  <2> DEFINE f == SubSeq(wbuf, 1, n)
             r == SubSeq(wbuf, n + 1, Len(wbuf))
  <2>3. f \in Seq(S) /\ r \in Seq(S) /\ f \o r = wbuf
    <3>1. n \in 0 .. Len(wbuf)
      BY <2>1
    <3> QED BY <1>1, <3>1, SplitLines
  <2>4. sent' = sent \o f /\ wbuf' = r
    BY <2>1
  <2> HIDE DEF f, r
  <2>5. sent' \in Seq(S) /\ sent' \o wbuf' = sent \o wbuf
    <3>1. sent \o f \in Seq(S)
      BY <1>1, <2>3, ConcatProperties
    <3>2. (sent \o f) \o r = sent \o (f \o r)
      <4>1. sent \in Seq(S) /\ f \in Seq(S) /\ r \in Seq(S)
        BY <1>1, <2>3
      <4> QED BY ONLY <4>1, ConcatAssociative, SMTT(60)
    <3> QED BY <2>3, <2>4, <3>1, <3>2
  <2>6. LinesTypeOK'
    BY <1>1, <2>2, <2>3, <2>4, <2>5 DEF LinesTypeOK, S
  <2> QED BY <1>3, <2>2, <2>5, <2>6 DEF Pipeline
<1>8. CASE Disconnect
  <2> DEFINE rest == wbuf \o outq
  <2>1. PICK n \in 0 .. Len(rest) : sent' = sent \o SubSeq(rest, 1, n)
    BY <1>8 DEF Disconnect
  <2>2. outq' = <<>> /\ wbuf' = <<>> /\ typed' = typed /\ noted' = noted
    BY <1>8 DEF Disconnect, Close
  <2>3. rest \in Seq(S)
    BY <1>1, ConcatProperties
  <2>4. Pipeline = sent \o rest
    BY <1>1, ConcatAssociative, SMTT(60) DEF Pipeline
  <2> HIDE DEF rest
  <2> DEFINE f == SubSeq(rest, 1, n)
             r == SubSeq(rest, n + 1, Len(rest))
  <2>5. f \in Seq(S) /\ r \in Seq(S) /\ f \o r = rest
    BY <2>3, SplitLines
  <2>6. sent' = sent \o f
    BY <2>1
  <2> HIDE DEF f, r
  <2>7. sent' \in Seq(S) /\ Pipeline' = sent' /\ Pipeline = Pipeline' \o r
    <3>1. sent \o f \in Seq(S)
      BY <1>1, <2>5, ConcatProperties
    <3>2. (sent \o f) \o r = sent \o (f \o r)
      <4>1. sent \in Seq(S) /\ f \in Seq(S) /\ r \in Seq(S)
        BY <1>1, <2>5
      <4> QED BY ONLY <4>1, ConcatAssociative, SMTT(60)
    <3>3. (sent' \o <<>>) \o <<>> = sent'
      BY <2>6, <3>1, ConcatEmptySeq
    <3> QED BY <2>2, <2>4, <2>5, <2>6, <3>1, <3>2, <3>3 DEF Pipeline
  <2>8. LinesTypeOK'
    BY <1>1, <2>2, <2>7 DEF LinesTypeOK, S
  <2> QED BY <1>4, <2>2, <2>5, <2>7, <2>8
<1>9. CASE Dropped
  <2> DEFINE r == wbuf \o outq
  <2>1. r \in Seq(S) /\ Lines(outq) \subseteq Lines(r)
    BY <1>1, ConcatProperties, SuffixLines
  <2>2. Pipeline = sent \o r
    BY <1>1, ConcatAssociative, SMTT(60) DEF Pipeline
  <2>3. Lines(outq) \subseteq Lines(Pipeline)
    BY <1>1, <1>2, SuffixLines DEF Pipeline
  <2> HIDE DEF r
  <2>4. Pipeline' = sent
    <3>1. (sent \o <<>>) \o <<>> = sent
      BY <1>1, ConcatEmptySeq
    <3> QED BY <1>9, <3>1 DEF Pipeline, Dropped
  <2>5. typed' = typed /\ noted' \subseteq 1 .. typed
    BY <1>1, <1>9, <2>3 DEF Dropped
  <2>6. LinesTypeOK'
    <3>1. <<>> \in Seq(S)
      BY EmptySeq
    <3> QED BY <1>1, <1>9, <2>5, <3>1 DEF LinesTypeOK, Dropped, S
  <2> QED BY <1>1, <1>4, <1>9, <2>1, <2>2, <2>4, <2>6 DEF Dropped
<1>10. CASE UNCHANGED <<outq, wbuf, typed, sent, noted>>
  BY <1>3, <1>10 DEF LinesInv, LinesTypeOK, Pipeline
<1> QED BY <1>5, <1>6, <1>7, <1>8, <1>9, <1>10, LinesCases

-----------------------------------------------------------------------------
(* The queue is served, and what is in it is not forgotten.                *)

\* What a handler that closes the connection leaves of the queue
Closed == outq' = <<>> /\ wbuf' = <<>> /\ ~pumpTimer'

(* The ways a connection comes to be closed.                               *)
LEMMA ClosingCloses ==
    /\ \A timers : Fail(timers) => Closed
    /\ Disconnect => Closed
    /\ ConnectionLost => Closed
BY DEF Fail, Disconnect, ConnectionLost, Lost, Close, Closed

(* What flood control leaves in the queue has a timer.                     *)
LEMMA PumpServes ==
    ASSUME NEW S, NEW q \in Seq(S), NEW n \in 0 .. Len(q), PumpLines(q, n)
    PROVE  outq' # <<>> => pumpTimer'
<1>1. Len(q) \in Nat
  BY LenProperties
<1>2. CASE n = Len(q)
  <2>1. SubSeq(q, n + 1, Len(q)) = <<>>
    BY <1>1, <1>2, SubSeqEmpty
  <2> QED BY <2>1 DEF PumpLines
<1>3. CASE n < Len(q)
  BY <1>3 DEF PumpLines
<1> QED BY <1>1, <1>2, <1>3

(* Every step leaves the queue served.                                     *)
LEMMA ServedStep ==
    Control /\ LinesTypeOK /\ QueueIsServed /\ [Next]_vars => QueueIsServed'
<1> SUFFICES ASSUME Control, LinesTypeOK, QueueIsServed, [Next]_vars PROVE QueueIsServed'
  OBVIOUS
<1> DEFINE Kept == UNCHANGED lineVars /\ (phase = "up" => phase' = "up")
<1>1. Closed => QueueIsServed'
  BY DEF Closed, QueueIsServed
<1>2. Kept => QueueIsServed'
  BY DEF QueueIsServed, lineVars
<1>3. Send => QueueIsServed'
  <2> SUFFICES ASSUME Send PROVE QueueIsServed'
    OBVIOUS
  <2> DEFINE q == Append(outq, typed + 1)
  <2>1. q \in Seq(1 .. MaxLines) /\ phase' = "up"
    BY AppendProperties, ConstantsOK DEF Send, LinesTypeOK
  <2>2. PICK n \in 0 .. Len(q) : PumpLines(q, n)
    BY DEF Send
  <2> HIDE DEF q
  <2> QED BY <2>1, <2>2, PumpServes DEF QueueIsServed
<1>4. Pump => QueueIsServed'
  BY PumpServes DEF Pump, LinesTypeOK, QueueIsServed
<1>5. Write => QueueIsServed'
  BY DEF Write, QueueIsServed
<1>6. ASSUME NEW k, phase # "up", TryNext(k) PROVE Closed \/ Kept
  BY <1>6, ClosingCloses DEF TryNext
<1>7. Connected \/ Handshake => Closed \/ Kept
  BY <1>6, ClosingCloses DEF Connected, Handshake, Register
<1>8. Connect \/ Reconnect \/ Welcome \/ BecomeStable => Kept
  BY DEF Connect, Reconnect, Welcome, BecomeStable, BeginAttempt
<1>9. ASSUME NEW g \in Gens, LookupDone(g) PROVE Closed \/ Kept
  <2>1. CASE g = gen
    <3>1. phase # "up"
      BY <1>9, <2>1 DEF LookupDone, Control, LookupIsOurs
    <3> QED BY <1>6, <1>9, <2>1, <3>1, ClosingCloses DEF LookupDone
  <2>2. CASE g # gen
    BY <1>9, <2>2 DEF LookupDone
  <2> QED BY <2>1, <2>2
<1>10. NetworkChanges \/ PasswordChanges \/ UNCHANGED vars => Kept
  BY DEF NetworkChanges, PasswordChanges, vars, lineVars, envVars, retryVars
<1>11. ASSUME NEW g \in Gens, Deadline(g) PROVE Closed
  BY <1>11, ClosingCloses DEF Deadline
<1> QED BY <1>1, <1>2, <1>3, <1>4, <1>5, <1>7, <1>8, <1>9, <1>10, <1>11,
           ClosingCloses, Zenon DEF Next

(* A step takes lines off the queue only to the socket or to the user.     *)
LEMMA NothingVanishesStep ==
    ASSUME Control, LinesTypeOK, QueueIsServed, [Next]_vars, acct' # "disconnected"
    PROVE  Lines(outq) \subseteq Lines(outq') \cup Lines(wbuf') \cup noted'
<1> DEFINE S == 1 .. MaxLines
<1>1. outq \in Seq(S) /\ wbuf \in Seq(S)
  BY DEF LinesTypeOK
<1>2. ASSUME NEW q \in Seq(S), NEW n \in 0 .. Len(q), PumpLines(q, n)
      PROVE  Lines(q) \subseteq Lines(outq') \cup Lines(wbuf')
  <2> DEFINE f == SubSeq(q, 1, n)
             r == SubSeq(q, n + 1, Len(q))
  <2>1. f \in Seq(S) /\ r \in Seq(S) /\ f \o r = q
    BY SplitLines
  <2>2. wbuf' = wbuf \o f /\ outq' = r
    BY <1>2 DEF PumpLines
  <2> HIDE DEF f, r
  <2>3. Lines(f) \subseteq Lines(wbuf')
    BY <1>1, <2>1, <2>2, SuffixLines
  <2>4. Lines(q) \subseteq Lines(f) \cup Lines(r)
    BY <2>1, ConcatLines
  <2> QED BY <2>2, <2>3, <2>4
<1> HIDE DEF S
<1>3. CASE Send
  <2> DEFINE q == Append(outq, typed + 1)
  <2>1. q \in Seq(S) /\ Lines(outq) \subseteq Lines(q)
    <3>1. q \in Seq(S)
      BY <1>1, <1>3, AppendProperties, ConstantsOK DEF Send, LinesTypeOK, S
    <3>2. \A i \in DOMAIN outq : i \in DOMAIN q /\ q[i] = outq[i]
      BY <1>1, AppendProperties, LenProperties
    <3> QED BY <3>1, <3>2 DEF Lines
  <2>2. PICK n \in 0 .. Len(q) : PumpLines(q, n)
    BY <1>3 DEF Send
  <2> HIDE DEF q
  <2> QED BY <1>2, <2>1, <2>2
<1>4. CASE Pump
  <2>1. PICK n \in 0 .. Len(outq) : PumpLines(outq, n)
    BY <1>4 DEF Pump
  <2> QED BY <1>1, <1>2, <2>1
<1>5. CASE Write
  BY <1>5 DEF Write
<1>6. CASE Disconnect
  <2>1. phase = "down"
    BY <1>6 DEF Disconnect
  <2>2. outq = <<>>
    BY <2>1 DEF QueueIsServed
  <2> QED BY <2>2 DEF Lines
<1>7. CASE Dropped
  BY <1>7 DEF Dropped
<1>8. CASE UNCHANGED <<outq, wbuf, typed, sent, noted>>
  BY <1>8
<1> QED BY <1>3, <1>4, <1>5, <1>6, <1>7, <1>8, LinesCases

(* The count of attempts goes down only after a stable connection or with  *)
(* the retrying.                                                           *)
LEMMA BackoffStep ==
    ASSUME Control, [Next]_vars, attempt' < attempt
    PROVE  stable \/ acct' \in {"disconnected", "error"}
<1> DEFINE Good == stable \/ acct' \in {"disconnected", "error"}
<1>1. attempt \in Nat /\ ~(attempt' = attempt) /\ AttemptCap \in Nat
  BY ConstantsOK DEF Control, ControlTypeOK
<1>2. ASSUME Retry(attempt) PROVE FALSE
  BY <1>1, <1>2 DEF Retry
<1>3. ASSUME NEW timers, Fail(timers) PROVE Good
  BY <1>1, <1>2, <1>3 DEF Fail, retryVars
<1>4. ASSUME NEW k, TryNext(k) PROVE Good
  BY <1>1, <1>3, <1>4 DEF TryNext, retryVars
<1>5. CASE Connected \/ Handshake
  BY <1>1, <1>3, <1>4, <1>5 DEF Connected, Handshake, Register, retryVars
<1>6. CASE ConnectionLost
  BY <1>1, <1>2, <1>6 DEF ConnectionLost, Lost
<1>7. CASE Disconnect
  BY <1>7 DEF Disconnect, Control, StateTellsTruth, ControlTypeOK
<1>8. ASSUME NEW g \in Gens, LookupDone(g) \/ Deadline(g) PROVE Good
  BY <1>1, <1>3, <1>4, <1>8 DEF LookupDone, Deadline, retryVars
<1>9. CASE Connect \/ Reconnect \/ Welcome \/ BecomeStable \/ Send \/ Pump \/ Write
  BY <1>1, <1>9 DEF Connect, Reconnect, Welcome, BecomeStable, Send, Pump, Write, retryVars
<1>10. CASE NetworkChanges \/ PasswordChanges \/ UNCHANGED vars
  BY <1>1, <1>10 DEF NetworkChanges, PasswordChanges, vars, retryVars
<1> QED BY <1>5, <1>6, <1>7, <1>8, <1>9, <1>10 DEF Next

-----------------------------------------------------------------------------
(* The theorems.                                                           *)

LEMMA ControlAlways == Spec => []Control
<1>1. Init => Control  BY ControlInit
<1>2. Control /\ [Next]_vars => Control'  BY ControlStep
<1> QED BY <1>1, <1>2, PTL DEF Spec

LEMMA LinesAlways == Spec => []LinesInv
<1>1. Init => LinesInv  BY LinesInit
<1>2. LinesInv /\ [Next]_vars => LinesInv'  BY LinesStep
<1> QED BY <1>1, <1>2, PTL DEF Spec

(* The queue is served, always.                                            *)
LEMMA ServedAlways == Spec => []QueueIsServed
<1>1. Init => QueueIsServed  BY DEF Init, QueueIsServed
<1>2. LinesInv => LinesTypeOK  BY DEF LinesInv
<1> QED BY <1>1, <1>2, ServedStep, ControlAlways, LinesAlways, PTL DEF Spec

(* Every variable keeps its type: in particular `attempt` never passes its *)
(* cap and no retry timer is cancelled twice (IrcAdapter, all handlers).   *)
THEOREM TypeCorrect == Spec => []TypeOK
<1>1. Control /\ LinesInv => TypeOK
  BY DEF Control, LinesInv, TypeOK
<1> QED BY <1>1, ControlAlways, LinesAlways, PTL

(* The state the UI shows is the connection's: set_state() is called with  *)
(* the right state on every path of every handler.                         *)
THEOREM StateAlwaysTrue == Spec => []StateTellsTruth
<1>1. Control => StateTellsTruth  BY DEF Control
<1> QED BY <1>1, ControlAlways, PTL

(* No timer or lookup of a connection that is over touches a later one:   *)
(* _retry() sets a timer only where connect() or disconnect() cancelled    *)
(* the last; the TIMEOUT timer, which has no generation check, never       *)
(* outlives its attempt, and every attempt has one; a getaddrinfo answer   *)
(* of an earlier connection is never taken for ours.                       *)
THEOREM NothingEverStale == Spec => []NothingStale
<1>1. Control => NothingStale  BY DEF Control, NothingStale
<1> QED BY <1>1, ControlAlways, PTL

(* No line overtakes another, goes out twice, or goes out after the user   *)
(* was told it did not (send_raw, _pump, _on_write, disconnect, and        *)
(* _drop_queue on every way a connection ends).                            *)
THEOREM LinesAlwaysHonest == Spec => []LinesHonest
<1>1. LinesInv => LinesHonest  BY DEF LinesInv
<1> QED BY <1>1, LinesAlways, PTL

(* While a line waits a timer is coming for it, and nothing waits behind a *)
(* connection that is gone (send_raw, _pump, _close, _reset).              *)
THEOREM QueueAlwaysServed == Spec => []QueueIsServed
BY ServedAlways

(* Unless the user disconnects, a line leaves the queue only for the socket*)
(* or with a note, and the backoff starts over only after a connection     *)
(* that stayed up, or when retrying is given up (_pump, _drop_queue on     *)
(* every way a connection ends, _retry, _lost, disconnect).                *)
THEOREM QueueAndBackoffAlwaysKept == Spec => QueueAndBackoffKept
<1>1. Control /\ LinesInv /\ QueueIsServed /\ [Next]_vars
        => [acct' # "disconnected" =>
             Lines(outq) \subseteq Lines(outq') \cup Lines(wbuf') \cup noted']_vars
  BY NothingVanishesStep DEF LinesInv
<1>2. Control /\ [Next]_vars
        => [attempt' < attempt => stable \/ acct' \in {"disconnected", "error"}]_vars
  BY BackoffStep
<1>3. Spec => QueueNeverVanishes
  BY <1>1, ServedAlways, ControlAlways, LinesAlways, PTL DEF Spec, QueueNeverVanishes
<1>4. Spec => BackoffKept
  BY <1>2, ControlAlways, PTL DEF Spec, BackoffKept
<1> QED BY <1>3, <1>4 DEF QueueAndBackoffKept
=============================================================================
