--------------------------- MODULE TvcommonProofs ---------------------------
(***************************************************************************)
(* What is proved of tvcommon: of its co-processes (CoProcess), for every  *)
(* number of calls and every restart budget, and of the notes between the  *)
(* programs (Notices), for any number of programs, peers, texts and notes. *)
(* The two share nothing but this module.                                  *)
(***************************************************************************)
EXTENDS CoProcess, Notices, TLAPS, SequenceTheorems, FiniteSetTheorems

-----------------------------------------------------------------------------
(* The co-process.                                                         *)
(*                                                                         *)
(* Three things are followed through every step: what the client is at and *)
(* the child it then has (Hold), the restarts against the losses (Count),  *)
(* and where a request is - written, in the child's hands, carried out.    *)
(* A child is given a request once at most, and a request is written to    *)
(* two children at most, so it is carried out at most twice (Executions);  *)
(* and as long as no failed call has left one behind, only the request     *)
(* being asked is under way, so its reply is the one read (Conversing).    *)

Elems(q) == {q[i] : i \in DOMAIN q}
Increasing(q) == \A i, j \in DOMAIN q : i < j => q[i] < q[j]

\* What the client is at, and the child it has then.
Hold ==
    /\ pc = "idle" => (up <=> child # "none") /\ (permFail => ~up)
    /\ pc # "idle" => child # "none" /\ calls > 0
    /\ pc = "starting" => ~up /\ ~permFail /\ ~stranded
    /\ pc \in {"writing", "reading"} => up /\ ~permFail
    /\ pc = "stopping" => (permFail <=> ~up) /\ (up => retrying)
    /\ up /\ pc # "stopping" => child # "booting"

\* A loss is met before its restart is counted.
Count ==
    /\ restarts <= losses
    /\ pc = "stopping" /\ ~permFail => restarts < losses

\* A child has its requests in the order they were asked, each once.
Piped ==
    /\ child \in {"working", "wedged"} => work \in 1 .. calls
    /\ child \in {"booting", "waiting"} => work = None
    /\ child \in {"booting", "none"} => inPipe = <<>>
    /\ Increasing(inPipe)
    /\ \A r \in Elems(inPipe) : r \in 1 .. calls /\ work < r

Pending(r) == child \in Alive /\ (work = r \/ r \in Elems(inPipe))

\* How often a request has been carried out, by where its call is: never
\* before it is written, once at most before the second writing, twice in
\* all; what a child still has to do is one of those.
Asking(r) ==
    /\ pc \in {"starting", "writing"} => ~Pending(r) /\ (~retrying => done[r] = 0)
    /\ pc \in {"starting", "writing", "stopping"} \/ (pc = "reading" /\ ~retrying) =>
         done[r] <= 1 /\ (Pending(r) => done[r] = 0)
Carried(r) ==
    /\ done[r] <= 2
    /\ Pending(r) => done[r] <= 1
    /\ r > calls => done[r] = 0
    /\ r = calls => Asking(r)
Executions == \A r \in Requests : Carried(r)

\* Unless a failed call has left something behind, a booting child has said
\* nothing but its banner, and only the request being asked is under way.
Conversing ==
    /\ pc = "starting" =>
         /\ child \in {"booting", "waiting", "exited"}
         /\ inPipe = <<>>
         /\ outPipe = <<>> \/ (child # "booting" /\ outPipe = <<Ready>>)
         /\ child = "waiting" => outPipe = <<Ready>>
    /\ ~stranded /\ up /\ pc \in {"idle", "writing"} =>
         outPipe = <<>> /\ (child \in Alive => child = "waiting" /\ inPipe = <<>>)
    /\ ~stranded /\ pc = "reading" =>
         /\ outPipe = <<>> \/ (outPipe = <<calls>> /\ done[calls] > 0)
         /\ child \in Alive =>
              \/ child = "waiting" /\ inPipe = <<calls>> /\ outPipe = <<>>
              \/ child \in {"working", "wedged"} /\ work = calls /\ inPipe = <<>> /\ outPipe = <<>>
              \/ child = "waiting" /\ inPipe = <<>> /\ outPipe = <<calls>>

CInv == FlagsOK /\ PipesOK /\ ControlOK /\ Hold /\ Count /\ Piped /\ Executions /\ Conversing

-----------------------------------------------------------------------------
(* What is in a queue of requests.                                         *)
LEMMA EmptyElems == Elems(<<>>) = {} /\ Increasing(<<>>)
BY DEF Elems, Increasing

(* A later request goes to the end of an increasing queue.                 *)
LEMMA AppendElems ==
    ASSUME NEW S \in SUBSET Int, NEW q \in Seq(S), NEW e \in S,
           Increasing(q), \A r \in Elems(q) : r < e
    PROVE  Increasing(Append(q, e)) /\ Elems(Append(q, e)) = Elems(q) \cup {e}
<1> DEFINE z == Append(q, e)
<1>1. /\ Len(q) \in Nat /\ DOMAIN q = 1 .. Len(q) /\ DOMAIN z = 1 .. Len(q) + 1
      /\ z[Len(q) + 1] = e
  OBVIOUS
<1>2. \A i \in 1 .. Len(q) : z[i] = q[i]
  OBVIOUS
<1>3. \A i \in 1 .. Len(q) : q[i] \in Int /\ q[i] < e
  BY <1>1, ElementOfSeq DEF Elems
<1> HIDE DEF z
<1>4. ASSUME NEW i \in 1 .. Len(q) + 1, NEW j \in 1 .. Len(q) + 1, i < j
      PROVE  z[i] < z[j]
  <2>1. i \in 1 .. Len(q)
    BY <1>1, <1>4
  <2>2. CASE j = Len(q) + 1
    BY <1>1, <1>2, <1>3, <2>1, <2>2
  <2>3. CASE j \in 1 .. Len(q)
    BY <1>1, <1>2, <1>4, <2>1, <2>3 DEF Increasing
  <2> QED BY <1>1, <2>2, <2>3
<1>5. Elems(z) = Elems(q) \cup {e}
  <2>1. ASSUME NEW i \in 1 .. Len(q) + 1 PROVE z[i] \in Elems(q) \cup {e}
    BY <1>1, <1>2 DEF Elems
  <2>2. ASSUME NEW i \in 1 .. Len(q) PROVE i \in 1 .. Len(q) + 1 /\ z[i] = q[i]
    BY <1>1, <1>2
  <2>3. Len(q) + 1 \in 1 .. Len(q) + 1
    BY <1>1
  <2> QED BY <1>1, <2>1, <2>2, <2>3 DEF Elems
<1> QED BY <1>1, <1>4, <1>5 DEF Increasing, z

(* The first of an increasing queue is earlier than the rest.              *)
LEMMA TailElems ==
    ASSUME NEW S \in SUBSET Int, NEW q \in Seq(S), q # <<>>, Increasing(q)
    PROVE  /\ Head(q) \in S /\ Tail(q) \in Seq(S)
           /\ Head(q) \in Elems(q) /\ Increasing(Tail(q))
           /\ \A r \in Elems(Tail(q)) : r \in Elems(q) /\ Head(q) < r
<1> DEFINE t == Tail(q)
           n == Len(q)
<1>1. /\ n \in Nat \ {0} /\ DOMAIN q = 1 .. n /\ DOMAIN t = 1 .. n - 1
      /\ Head(q) = q[1] /\ Head(q) \in S /\ t \in Seq(S)
  OBVIOUS
<1>2. \A i \in 1 .. n - 1 : t[i] = q[i + 1]
  OBVIOUS
<1>3. \A i \in 1 .. n : q[i] \in Int
  BY ElementOfSeq
<1> HIDE DEF t, n
<1>4. ASSUME NEW i \in 1 .. n - 1, NEW j \in 1 .. n - 1, i < j PROVE t[i] < t[j]
  <2>1. i + 1 \in 1 .. n /\ j + 1 \in 1 .. n /\ i + 1 < j + 1
    BY <1>1, <1>4
  <2> QED BY <1>1, <1>2, <2>1 DEF Increasing
<1>5. ASSUME NEW i \in 1 .. n - 1 PROVE t[i] \in Elems(q) /\ Head(q) < t[i]
  <2>1. i + 1 \in 1 .. n /\ 1 \in 1 .. n /\ 1 < i + 1
    BY <1>1
  <2> QED BY <1>1, <1>2, <2>1 DEF Increasing, Elems
<1>6. Head(q) \in Elems(q)
  <2>1. 1 \in 1 .. n
    BY <1>1
  <2> QED BY <1>1, <2>1 DEF Elems
<1>7. Increasing(t)
  BY <1>1, <1>4 DEF Increasing
<1>8. \A r \in Elems(t) : r \in Elems(q) /\ Head(q) < r
  BY <1>1, <1>5 DEF Elems
<1> QED BY <1>1, <1>6, <1>7, <1>8 DEF t

(* Flags stay flags.                                                       *)
LEMMA FlagsStep ==
    FlagsOK /\ [CoNext]_coVars => FlagsOK'
<1> SUFFICES ASSUME FlagsOK, [CoNext]_coVars
             PROVE  FlagsOK'
  OBVIOUS
<1>1. CASE Call
  BY <1>1, Zenon DEF FlagsOK, Call, Fork, childVars
<1>2. CASE Started
  BY <1>2, Zenon DEF FlagsOK, Started, childVars
<1>3. CASE StartFailed
  BY <1>3, Zenon DEF FlagsOK, StartFailed, BeginStop, childVars
<1>4. CASE Write
  BY <1>4, Zenon DEF FlagsOK, Write, AttemptFailed, BeginStop, CallFails, childVars
<1>5. CASE Read
  BY <1>5, Zenon DEF FlagsOK, Read, childVars
<1>6. CASE ReadFailed
  BY <1>6, Zenon DEF FlagsOK, ReadFailed, AttemptFailed, BeginStop, CallFails, childVars
<1>7. CASE Stopped
  BY <1>7, Zenon DEF FlagsOK, Stopped, Fork, childVars
<1>8. CASE Boot
  BY <1>8, Zenon DEF FlagsOK, Boot, clientVars
<1>9. CASE Take
  BY <1>9, Zenon DEF FlagsOK, Take, clientVars
<1>10. CASE Finish
  BY <1>10, Zenon DEF FlagsOK, Finish, clientVars
<1>11. CASE Leave
  BY <1>11, Zenon DEF FlagsOK, Leave, clientVars
<1>12. CASE Die
  BY <1>12, Zenon DEF FlagsOK, Die, clientVars
<1>13. CASE Wedge
  BY <1>13, Zenon DEF FlagsOK, Wedge, clientVars
<1>14. CASE UNCHANGED coVars
  BY <1>14, Zenon DEF FlagsOK, coVars
<1> QED BY <1>1, <1>2, <1>3, <1>4, <1>5, <1>6, <1>7, <1>8, <1>9, <1>10, <1>11, <1>12, <1>13, <1>14
     DEF CoNext, Client, Child

(* The pipes hold requests.                                                *)
LEMMA PipesStep ==
    PipesOK /\ ControlOK /\ Hold /\ Piped /\ [CoNext]_coVars => PipesOK'
<1> SUFFICES ASSUME PipesOK, ControlOK, Hold, Piped, [CoNext]_coVars
             PROVE  PipesOK'
  OBVIOUS
<1> USE DEF PipesOK, Alive
<1>1. CASE Call
  BY <1>1, EmptySeq DEF Call, Fork, childVars
<1>2. CASE Started
  BY <1>2, HeadTailProperties DEF Started, childVars
<1>3. CASE StartFailed
  BY <1>3 DEF StartFailed, BeginStop, childVars
<1>4. CASE Write
  <2>1. Append(inPipe, calls) \in Seq(Requests)
    BY <1>4, AppendProperties DEF Write, Hold, ControlOK, Requests
  <2> QED BY <1>4, <2>1 DEF Write
<1>5. CASE Read
  BY <1>5, HeadTailProperties DEF Read, childVars
<1>6. CASE ReadFailed
  BY <1>6 DEF ReadFailed, AttemptFailed, BeginStop, CallFails, childVars
<1>7. CASE Stopped
  BY <1>7, EmptySeq DEF Stopped, Fork
<1>8. CASE Boot
  BY <1>8, AppendProperties DEF Boot, clientVars
<1>9. CASE Take
  BY <1>9, HeadTailProperties DEF Take, clientVars
<1>10. CASE Finish
  <2>1. work \in Requests
    BY <1>10, CoConstantsOK DEF Finish, Piped, ControlOK, Requests
  <2>2. Append(outPipe, work) \in Seq(Requests \cup {Ready})
    BY <2>1, AppendProperties
  <2> QED BY <1>10, <2>2 DEF Finish, clientVars
<1>11. CASE Leave
  BY <1>11 DEF Leave, clientVars
<1>12. CASE Die
  BY <1>12 DEF Die, clientVars
<1>13. CASE Wedge
  BY <1>13 DEF Wedge, clientVars
<1>14. CASE UNCHANGED coVars
  BY <1>14 DEF coVars
<1> QED BY <1>1, <1>2, <1>3, <1>4, <1>5, <1>6, <1>7, <1>8, <1>9, <1>10, <1>11, <1>12, <1>13, <1>14
     DEF CoNext, Client, Child

(* Types.  Only a restart that is made counts towards the budget.          *)
LEMMA ControlStep ==
    PipesOK /\ ControlOK /\ Hold /\ Piped /\ [CoNext]_coVars => ControlOK'
<1> SUFFICES ASSUME PipesOK, ControlOK, Hold, Piped, [CoNext]_coVars
             PROVE  ControlOK'
  OBVIOUS
<1> USE CoConstantsOK DEF ControlOK, Alive, Ready, None
<1>1. CASE Call
  BY <1>1 DEF Call, Fork, childVars
<1>2. CASE Started
  BY <1>2 DEF Started, childVars
<1>3. CASE StartFailed
  BY <1>3 DEF StartFailed, BeginStop, childVars
<1>4. CASE Write
  BY <1>4 DEF Write, AttemptFailed, BeginStop, CallFails, childVars
<1>5. CASE Read
  BY <1>5, HeadTailProperties DEF Read, PipesOK
<1>6. CASE ReadFailed
  BY <1>6 DEF ReadFailed, AttemptFailed, BeginStop, CallFails, childVars
<1>7. CASE Stopped
  <2>1. CASE ~permFail /\ restarts < Budget /\ restarts' = restarts + 1
             /\ Fork /\ UNCHANGED permFail
    BY <1>7, <2>1 DEF Stopped, Fork
  <2>2. CASE permFail' = TRUE /\ restarts' = IF permFail THEN restarts ELSE restarts + 1
    <3>1. restarts' \in 0 .. Budget + 1
      BY <2>2
    <3>2. UNCHANGED <<starts, calls, answer, done, losses>> /\ pc' = "idle" /\ child' = "none"
          /\ work' = None
      BY <1>7, <2>2 DEF Stopped, Fork
    <3> QED BY <2>2, <3>1, <3>2
  <2> QED BY <1>7, <2>1, <2>2 DEF Stopped
<1>8. CASE Boot
  BY <1>8 DEF Boot, clientVars
<1>9. CASE Take
  BY <1>9, HeadTailProperties DEF Take, clientVars, PipesOK
<1>10. CASE Finish
  <2>1. work \in Requests
    BY <1>10 DEF Finish, Piped, Requests
  <2> QED BY <1>10, <2>1 DEF Finish, clientVars
<1>11. CASE Leave
  BY <1>11 DEF Leave, clientVars
<1>12. CASE Die
  <2>1. child = "working" => work \in Requests
    BY DEF Piped, Requests
  <2> QED BY <1>12, <2>1 DEF Die, clientVars
<1>13. CASE Wedge
  BY <1>13 DEF Wedge, clientVars
<1>14. CASE UNCHANGED coVars
  BY <1>14 DEF coVars
<1> QED BY <1>1, <1>2, <1>3, <1>4, <1>5, <1>6, <1>7, <1>8, <1>9, <1>10, <1>11, <1>12, <1>13, <1>14
     DEF CoNext, Client, Child

(* What the client has.                                                    *)
LEMMA HoldStep ==
    FlagsOK /\ ControlOK /\ PipesOK /\ Hold /\ Conversing /\ [CoNext]_coVars => Hold'
<1> SUFFICES ASSUME FlagsOK, ControlOK, PipesOK, Hold, Conversing, [CoNext]_coVars
             PROVE  Hold'
  OBVIOUS
<1> USE CoConstantsOK DEF FlagsOK, ControlOK, Hold, Alive
<1>1. CASE Call
  BY <1>1 DEF Call, Fork, childVars
<1>2. CASE Started
  BY <1>2 DEF Started, childVars, Conversing
<1>3. CASE StartFailed
  BY <1>3 DEF StartFailed, BeginStop, childVars
<1>4. CASE Write
  BY <1>4 DEF Write, AttemptFailed, BeginStop, CallFails, childVars
<1>5. CASE Read
  BY <1>5 DEF Read, childVars
<1>6. CASE ReadFailed
  BY <1>6 DEF ReadFailed, AttemptFailed, BeginStop, CallFails, childVars
<1>7. CASE Stopped
  BY <1>7 DEF Stopped, Fork, childVars
<1>8. CASE Boot
  BY <1>8 DEF Boot, clientVars
<1>9. CASE Take
  BY <1>9 DEF Take, clientVars
<1>10. CASE Finish
  BY <1>10 DEF Finish, clientVars
<1>11. CASE Leave
  BY <1>11 DEF Leave, clientVars
<1>12. CASE Die
  BY <1>12 DEF Die, clientVars
<1>13. CASE Wedge
  BY <1>13 DEF Wedge, clientVars
<1>14. CASE UNCHANGED coVars
  BY <1>14 DEF coVars
<1> QED BY <1>1, <1>2, <1>3, <1>4, <1>5, <1>6, <1>7, <1>8, <1>9, <1>10, <1>11, <1>12, <1>13, <1>14
     DEF CoNext, Client, Child

(* The budget is for losses in a row.                                      *)
LEMMA CountStep ==
    FlagsOK /\ ControlOK /\ PipesOK /\ Hold /\ Count /\ [CoNext]_coVars => Count'
<1> SUFFICES ASSUME FlagsOK, ControlOK, PipesOK, Hold, Count, [CoNext]_coVars
             PROVE  Count'
  OBVIOUS
<1> USE CoConstantsOK DEF FlagsOK, ControlOK, Hold, Count
<1>1. CASE Call
  BY <1>1 DEF Call, Fork, childVars
<1>2. CASE Started
  BY <1>2 DEF Started, childVars
<1>3. CASE StartFailed
  BY <1>3 DEF StartFailed, BeginStop, childVars
<1>4. CASE Write
  BY <1>4 DEF Write, AttemptFailed, BeginStop, CallFails, childVars
<1>5. CASE Read
  BY <1>5 DEF Read, childVars
<1>6. CASE ReadFailed
  BY <1>6 DEF ReadFailed, AttemptFailed, BeginStop, CallFails, childVars
<1>7. CASE Stopped
  BY <1>7 DEF Stopped, Fork, childVars
<1>8. CASE Boot
  BY <1>8 DEF Boot, clientVars
<1>9. CASE Take
  BY <1>9 DEF Take, clientVars
<1>10. CASE Finish
  BY <1>10 DEF Finish, clientVars
<1>11. CASE Leave
  BY <1>11 DEF Leave, clientVars
<1>12. CASE Die
  BY <1>12 DEF Die, clientVars
<1>13. CASE Wedge
  BY <1>13 DEF Wedge, clientVars
<1>14. CASE UNCHANGED coVars
  BY <1>14 DEF coVars
<1> QED BY <1>1, <1>2, <1>3, <1>4, <1>5, <1>6, <1>7, <1>8, <1>9, <1>10, <1>11, <1>12, <1>13, <1>14
     DEF CoNext, Client, Child

(* A request is its number.                                                *)
LEMMA ReqsAreInts == Requests \in SUBSET Int
BY CoConstantsOK DEF Requests

(* The request written is the last of what the child has to take.           *)
LEMMA WriteElems ==
    ASSUME PipesOK, ControlOK, Hold, Piped, Executions, pc = "writing", child \in Alive
    PROVE  /\ Increasing(Append(inPipe, calls))
           /\ Elems(Append(inPipe, calls)) = Elems(inPipe) \cup {calls}
           /\ calls \in Requests /\ work < calls
<1>1. calls \in Requests
  BY DEF ControlOK, Hold, Requests
<1>2. work # calls /\ \A r \in Elems(inPipe) : r # calls
  BY <1>1 DEF Executions, Carried, Asking, Pending
<1>3. \A r \in Elems(inPipe) : r < calls
  BY <1>1, <1>2 DEF Piped, Requests
<1>4. work < calls
  BY <1>1, <1>2 DEF Piped, Alive, None, Requests
<1> QED BY <1>1, <1>3, <1>4, ReqsAreInts, AppendElems DEF PipesOK, Piped

(* Requests reach a child in order, each once.                             *)
LEMMA PipedStep ==
    ControlOK /\ PipesOK /\ Hold /\ Piped /\ Executions /\ [CoNext]_coVars => Piped'
<1> SUFFICES ASSUME ControlOK, PipesOK, Hold, Piped, Executions, [CoNext]_coVars
             PROVE  Piped'
  OBVIOUS
<1>1. CASE Call
  BY <1>1, EmptyElems DEF Call, Fork, childVars, Piped, ControlOK, Hold, None
<1>2. CASE Started
  BY <1>2 DEF Started, childVars, Piped
<1>3. CASE StartFailed
  BY <1>3 DEF StartFailed, BeginStop, childVars, Piped
<1>4. CASE Write
  <2>1. CASE child \in Alive /\ inPipe' = Append(inPipe, calls) /\ UNCHANGED child
    <3>1. /\ calls \in Requests /\ work < calls /\ Increasing(inPipe')
          /\ Elems(inPipe') = Elems(inPipe) \cup {calls}
      BY <1>4, <2>1, WriteElems DEF Write
    <3>5. \A r \in Elems(inPipe') : r \in 1 .. calls /\ work < r
      BY <1>4, <3>1 DEF Write, Piped, Requests
    <3>6. child' \notin {"booting", "none"}
      BY <1>4, <2>1 DEF Write, Hold, Alive
    <3> QED BY <1>4, <2>1, <3>1, <3>5, <3>6 DEF Write, Piped
  <2>2. CASE inPipe' = inPipe
    BY <1>4, <2>2 DEF Write, Piped
  <2> QED BY <1>4, <2>1, <2>2 DEF Write
<1>5. CASE Read
  BY <1>5 DEF Read, childVars, Piped
<1>6. CASE ReadFailed
  BY <1>6 DEF ReadFailed, AttemptFailed, BeginStop, CallFails, childVars, Piped
<1>7. CASE Stopped
  BY <1>7, EmptyElems DEF Stopped, Fork, childVars, Piped
<1>8. CASE Boot
  BY <1>8 DEF Boot, clientVars, Piped
<1>9. CASE Take
  <2>1. /\ Head(inPipe) \in 1 .. calls /\ Increasing(Tail(inPipe))
        /\ \A r \in Elems(Tail(inPipe)) : r \in Elems(inPipe) /\ Head(inPipe) < r
    BY <1>9, ReqsAreInts, TailElems DEF Take, PipesOK, Piped
  <2> QED BY <1>9, <2>1 DEF Take, Piped, clientVars
<1>10. CASE Finish
  <2>1. \A r \in Elems(inPipe) : r \in 1 .. calls /\ None < r
    BY ReqsAreInts DEF Piped, None
  <2> QED BY <1>10, <2>1 DEF Finish, Piped, clientVars
<1>11. CASE Leave
  BY <1>11 DEF Leave, clientVars, Piped
<1>12. CASE Die
  BY <1>12 DEF Die, clientVars, Piped
<1>13. CASE Wedge
  BY <1>13 DEF Wedge, clientVars, Piped
<1>14. CASE UNCHANGED coVars
  BY <1>14 DEF coVars, Piped
<1> QED BY <1>1, <1>2, <1>3, <1>4, <1>5, <1>6, <1>7, <1>8, <1>9, <1>10, <1>11, <1>12, <1>13, <1>14
     DEF CoNext, Client, Child

(* How often a request is carried out.                                     *)
LEMMA ExecutionsStep ==
    FlagsOK /\ PipesOK /\ ControlOK /\ Hold /\ Piped /\ Executions /\ [CoNext]_coVars => Executions'
<1> SUFFICES ASSUME FlagsOK, PipesOK, ControlOK, Hold, Piped, Executions, [CoNext]_coVars
             PROVE  Executions'
  OBVIOUS
<1> SUFFICES ASSUME NEW r \in Requests PROVE Carried(r)'
  BY DEF Executions, Requests
<1>a. Carried(r) /\ r \in Nat /\ calls \in Nat /\ done[r] \in Nat
  BY DEF Executions, ControlOK, Requests
<1>b. Pending(r) => r <= calls
  BY <1>a DEF Pending, Piped, Alive, None, Requests
<1>1. CASE Call
  <2>1. Pending(r)' => Pending(r)
    BY <1>1, EmptyElems DEF Call, Fork, childVars, Pending, None, Requests
  <2> QED BY <1>1, <1>a, <1>b, <2>1 DEF Call, Carried, Asking, childVars, Fork
<1>2. CASE Started
  BY <1>2, <1>a DEF Carried, Asking, Pending, Alive, Started, childVars
<1>3. CASE StartFailed
  BY <1>3, <1>a DEF Carried, Asking, Pending, Alive, StartFailed, BeginStop, childVars
<1>4. CASE Write
  <2>1. CASE child \in Alive /\ inPipe' = Append(inPipe, calls) /\ pc' = "reading"
             /\ UNCHANGED retrying
    <3>1. Elems(inPipe') = Elems(inPipe) \cup {calls}
      BY <1>4, <2>1, WriteElems DEF Write
    <3>2. Pending(r)' => Pending(r) \/ r = calls
      BY <1>4, <2>1, <3>1 DEF Write, Pending
    <3>3. UNCHANGED <<calls, done>> /\ pc = "writing"
      BY <1>4 DEF Write
    <3> QED BY <1>a, <2>1, <3>2, <3>3 DEF Carried, Asking
  <2>2. CASE child = "exited" /\ AttemptFailed
    <3>1. UNCHANGED <<calls, done, child>> /\ pc = "writing"
      BY <1>4 DEF Write
    <3>2. pc' = "idle" \/ pc' = "stopping"
      BY <2>2 DEF AttemptFailed, BeginStop, CallFails
    <3>3. ~Pending(r)'
      BY <2>2, <3>1 DEF Pending, Alive
    <3> QED BY <1>a, <2>2, <3>1, <3>2, <3>3 DEF Carried, Asking
  <2> QED BY <1>4, <2>1, <2>2 DEF Write
<1>5. CASE Read
  BY <1>5, <1>a DEF Carried, Asking, Pending, Alive, Read, childVars
<1>6. CASE ReadFailed
  BY <1>6, <1>a DEF Carried, Asking, Pending, Alive, ReadFailed, AttemptFailed, BeginStop, CallFails, childVars
<1>7. CASE Stopped
  <2>1. ~Pending(r)'
    BY <1>7, EmptyElems DEF Stopped, Fork, Pending, Alive, None, Requests
  <2>2. UNCHANGED <<calls, done, retrying>> /\ pc = "stopping"
        /\ (pc' = "idle" \/ (pc' = "starting" /\ retrying))
    BY <1>7 DEF Stopped, Fork, Hold, FlagsOK
  <2> QED BY <1>a, <2>1, <2>2 DEF Carried, Asking
<1>8. CASE Boot
  BY <1>8, <1>a DEF Carried, Asking, Pending, Alive, Boot, clientVars
<1>9. CASE Take
  <2>1. Head(inPipe) \in Elems(inPipe) /\ Elems(Tail(inPipe)) \subseteq Elems(inPipe)
    BY <1>9, ReqsAreInts, TailElems DEF Take, PipesOK, Piped
  <2>2. Pending(r)' => Pending(r)
    BY <1>9, <2>1 DEF Take, Pending, Alive
  <2>3. UNCHANGED <<calls, done, pc, retrying>>
    BY <1>9 DEF Take, clientVars
  <2> QED BY <1>a, <2>2, <2>3 DEF Carried, Asking
<1>10. CASE Finish
  <2>1. work \in 1 .. calls /\ work \in Requests /\ child \in Alive
    BY <1>10, CoConstantsOK DEF Finish, Piped, ControlOK, Requests, Alive
  <2>2. Pending(r)' => Pending(r) /\ r # work
    BY <1>10, <2>1 DEF Finish, Pending, Piped, None, Requests, Alive
  <2>3. UNCHANGED <<calls, pc, retrying>> /\ done'[r] = IF r = work THEN done[r] + 1 ELSE done[r]
    BY <1>10, <2>1 DEF Finish, clientVars, ControlOK
  <2>4. r = work => Pending(r)
    BY <2>1 DEF Pending
  <2> QED BY <1>a, <2>1, <2>2, <2>3, <2>4 DEF Carried, Asking
<1>11. CASE Leave
  BY <1>11, <1>a DEF Carried, Asking, Pending, Alive, Leave, clientVars
<1>12. CASE Die
  <2>1. child = "working" => work \in Requests /\ Pending(work)
    BY CoConstantsOK DEF Piped, ControlOK, Requests, Pending, Alive
  <2>2. ~Pending(r)'
    BY <1>12 DEF Die, Pending, Alive
  <2>3. UNCHANGED <<calls, pc, retrying>>
    BY <1>12 DEF Die, clientVars
  <2>4. CASE done'[r] = done[r]
    BY <1>a, <2>2, <2>3, <2>4 DEF Carried, Asking
  <2>5. CASE done'[r] # done[r]
    <3>1. Pending(r) /\ done'[r] = done[r] + 1
      BY <1>12, <1>a, <2>1, <2>5 DEF Die, ControlOK
    <3> QED BY <1>a, <1>b, <2>2, <2>3, <3>1 DEF Carried, Asking
  <2> QED BY <2>4, <2>5
<1>13. CASE Wedge
  BY <1>13, <1>a DEF Carried, Asking, Pending, Alive, Wedge, clientVars
<1>14. CASE UNCHANGED coVars
  BY <1>14, <1>a DEF Carried, Asking, Pending, Alive, coVars
<1> QED BY <1>1, <1>2, <1>3, <1>4, <1>5, <1>6, <1>7, <1>8, <1>9, <1>10, <1>11, <1>12, <1>13, <1>14
     DEF CoNext, Client, Child

(* Queues of one.                                                          *)
LEMMA OneElement ==
    ASSUME NEW e
    PROVE  /\ Append(<<>>, e) = <<e>> /\ <<e>> # <<>>
           /\ Head(<<e>>) = e /\ Tail(<<e>>) = <<>>
OBVIOUS

(* Whose reply is read.                                                    *)
LEMMA ConversingStep ==
    FlagsOK /\ ControlOK /\ Hold /\ Piped /\ Conversing /\ [CoNext]_coVars => Conversing'
<1> SUFFICES ASSUME FlagsOK, ControlOK, Hold, Piped, Conversing, [CoNext]_coVars
             PROVE  Conversing'
  OBVIOUS
<1> USE DEF Conversing, Alive, Ready
<1>1. CASE Call
  BY <1>1 DEF Call, Fork, childVars
<1>2. CASE Started
  <2>1. outPipe = <<Ready>> /\ child # "booting" /\ outPipe' = <<>>
    BY <1>2, OneElement DEF Started
  <2> QED BY <1>2, <2>1 DEF Started, Hold
<1>3. CASE StartFailed
  BY <1>3 DEF StartFailed, BeginStop, childVars
<1>4. CASE Write
  <2>1. CASE child \in Alive /\ inPipe' = Append(inPipe, calls) /\ pc' = "reading"
             /\ UNCHANGED stranded
    <3>1. ~stranded => inPipe = <<>> /\ outPipe = <<>> /\ child = "waiting"
      BY <1>4, <2>1 DEF Write, Hold
    <3>2. ~stranded => inPipe' = <<calls>>
      BY <2>1, <3>1, OneElement
    <3> QED BY <1>4, <2>1, <3>1, <3>2 DEF Write
  <2>2. CASE child = "exited" /\ AttemptFailed
    BY <1>4, <2>2 DEF Write, AttemptFailed, BeginStop, CallFails
  <2> QED BY <1>4, <2>1, <2>2 DEF Write
<1>5. CASE Read
  <2>1. ~stranded => outPipe = <<calls>> /\ outPipe' = <<>>
    BY <1>5, OneElement DEF Read
  <2> QED BY <1>5, <2>1, OneElement DEF Read
<1>6. CASE ReadFailed
  BY <1>6 DEF ReadFailed, AttemptFailed, BeginStop, CallFails, childVars
<1>7. CASE Stopped
  BY <1>7 DEF Stopped, Fork, childVars
<1>8. CASE Boot
  <2>1. pc = "starting" => outPipe' = <<Ready>>
    BY <1>8, OneElement DEF Boot
  <2> QED BY <1>8, <2>1 DEF Boot, clientVars, Hold
<1>9. CASE Take
  BY <1>9 DEF Take, clientVars
<1>10. CASE Finish
  <2>1. pc # "starting" /\ UNCHANGED <<clientVars, inPipe>>
    BY <1>10 DEF Finish
  <2>2. CASE ~stranded /\ pc = "reading"
    <3>1. work = calls /\ outPipe = <<>> /\ inPipe = <<>> /\ calls \in Requests
      BY <1>10, <2>2, CoConstantsOK DEF Finish, Hold, ControlOK, Requests
    <3>2. outPipe' = <<calls>> /\ child' = "waiting"
      BY <1>10, <2>2, <3>1, OneElement DEF Finish
    <3>3. done'[calls] > 0
      BY <1>10, <3>1 DEF Finish, ControlOK
    <3> QED BY <2>1, <2>2, <3>1, <3>2, <3>3 DEF clientVars
  <2>3. CASE ~(~stranded /\ pc = "reading")
    BY <1>10, <2>1, <2>3 DEF Finish, clientVars
  <2> QED BY <2>2, <2>3
<1>11. CASE Leave
  BY <1>11 DEF Leave, clientVars
<1>12. CASE Die
  BY <1>12 DEF Die, clientVars
<1>13. CASE Wedge
  BY <1>13 DEF Wedge, clientVars
<1>14. CASE UNCHANGED coVars
  BY <1>14 DEF coVars
<1> QED BY <1>1, <1>2, <1>3, <1>4, <1>5, <1>6, <1>7, <1>8, <1>9, <1>10, <1>11, <1>12, <1>13, <1>14
     DEF CoNext, Client, Child

(* Before the first call.                                                  *)
LEMMA CInit == CoInit => CInv
<1> SUFFICES ASSUME CoInit PROVE CInv
  OBVIOUS
<1> USE CoConstantsOK DEF CoInit
<1>1. FlagsOK
  BY Zenon DEF FlagsOK
<1>2. PipesOK /\ ControlOK
  BY EmptySeq DEF PipesOK, ControlOK, None, Alive
<1>3. Hold /\ Count /\ Conversing
  BY DEF Hold, Count, Conversing
<1>4. Piped
  BY EmptyElems DEF Piped, None
<1>5. Executions
  BY EmptyElems DEF Executions, Carried, Asking, Pending, None, Requests, Alive
<1> QED BY <1>1, <1>2, <1>3, <1>4, <1>5 DEF CInv

(* Client and child, step by step.                                         *)
LEMMA CStep == CInv /\ [CoNext]_coVars => CInv'
BY FlagsStep, PipesStep, ControlStep, HoldStep, CountStep, PipedStep,
   ExecutionsStep, ConversingStep DEF CInv

(* What client, child and pipes are to each other, always.                 *)
LEMMA CInvariant == CoSpec => []CInv
BY CInit, CStep, PTL DEF CoSpec

-----------------------------------------------------------------------------
(* A request is carried out at most twice and asked of a replacement only  *)
(* within the budget, which counts losses in a row (call, restart): for    *)
(* any number of calls and any budget.                                     *)
THEOREM BudgetAlwaysHolds == CoSpec => []BudgetHolds
<1>1. CInv => BudgetHolds
  BY DEF CInv, BudgetHolds, CoTypeOK, AtMostTwice, BudgetIsForARow, Count, Executions, Carried
<1> QED BY <1>1, CInvariant, PTL

(* Given up, no child is left, running or unreaped (giveUp, stop).         *)
THEOREM GivenUpLeavesNone == CoSpec => []NoOrphan
<1>1. CInv => NoOrphan
  BY DEF CInv, NoOrphan, Hold, FlagsOK
<1> QED BY <1>1, CInvariant, PTL

(* Unless a failed call has left its child with a request, the reply that  *)
(* is read answers the request that was asked, and that was carried out    *)
(* (call, readFrame).                                                      *)
THEOREM ReplyIsOurs == CoSpec => OurReply
<1>1. CInv /\ [CoNext]_coVars => [Read /\ ~stranded => answer' = calls /\ done[calls] > 0]_coVars
  <2> SUFFICES ASSUME CInv, Read, ~stranded
               PROVE  answer' = calls /\ done[calls] > 0
    BY Zenon
  <2>1. outPipe = <<calls>> /\ done[calls] > 0
    BY DEF Read, CInv, Conversing
  <2> QED BY <2>1, OneElement DEF Read
<1> QED BY <1>1, CInvariant, PTL DEF CoSpec, OurReply
-----------------------------------------------------------------------------
(* The notes: they stay few (NotesStayFew), and none vanishes              *)
(* (NothingVanishes: Notices implements NotePost).                         *)

Note == [pid : Procs, to : Apps, text : Texts, own : BOOLEAN, left : Nat, age : Nat,
         known : BOOLEAN]
Sends == [text : Texts \cup {""}, own : BOOLEAN, peers : Seq(Apps), write : BOOLEAN]
Reads == [todo : Seq(Nat), old : SUBSET Nat, held : Nat, gone : BOOLEAN, count : Nat]
Ages == UNION {[S -> Nat] : S \in SUBSET Texts}

TypeOK ==
    /\ running \subseteq Procs
    /\ note \in Seq(Note) /\ inbox \in [Apps -> SUBSET Nat]
    /\ recent \in [Procs -> Ages]
    /\ sending \in [Procs -> Sends] /\ reading \in [Procs -> Reads]

-----------------------------------------------------------------------------
(* The constants, one by one.                                              *)
LEMMA Constants ==
    /\ \A p \in Procs : App[p] \in Apps /\ Peers[App[p]] \in Seq(Apps)
    /\ \A a \in Apps : Peers[a] \in Seq(Apps) /\ IsInjective(Peers[a])
    /\ InboxMax \in Nat \ {0} /\ Ttl \in Nat \ {0} /\ Window \in Nat \ {0}
    /\ IsFiniteSet(Procs)
BY ConstantsOK

\* The notes are the same, but for those that are forgotten
Kept ==
    /\ note' \in Seq(Note) /\ DOMAIN note' = DOMAIN note
    /\ \A n \in DOMAIN note :
         /\ note'[n].pid = note[n].pid /\ note'[n].to = note[n].to
         /\ note'[n].text = note[n].text /\ note'[n].own = note[n].own
         /\ note'[n].left = note[n].left /\ note'[n].age = note[n].age
         /\ note'[n].known => note[n].known

(* What is left of the notes when process p's are forgotten.               *)
LEMMA Forgotten ==
    ASSUME note \in Seq(Note), NEW p,
           note' = [n \in DOMAIN note |-> IF note[n].pid = p
                                          THEN [note[n] EXCEPT !.known = FALSE] ELSE note[n]]
    PROVE  /\ Kept
           /\ \A n \in DOMAIN note : note[n].pid = p => ~note'[n].known
<1>1. DOMAIN note = 1 .. Len(note) /\ Len(note) \in Nat
  OBVIOUS
<1>2. \A n \in DOMAIN note : note[n] \in Note
  BY <1>1, ElementOfSeq
<1> DEFINE lost(m) == [m EXCEPT !.known = FALSE]
<1>3. \A m \in Note : /\ lost(m) \in Note /\ ~lost(m).known
                      /\ lost(m).pid = m.pid /\ lost(m).to = m.to /\ lost(m).text = m.text
                      /\ lost(m).own = m.own /\ lost(m).left = m.left /\ lost(m).age = m.age
  BY DEF Note
<1>4. /\ DOMAIN note' = DOMAIN note
      /\ \A n \in DOMAIN note : note'[n] = IF note[n].pid = p THEN lost(note[n]) ELSE note[n]
  OBVIOUS
<1> HIDE DEF lost
<1>5. \A n \in DOMAIN note : note'[n] \in Note
  BY <1>2, <1>3, <1>4
<1>6. note' \in [1 .. Len(note) -> Note]
  <2>1. note' = [n \in 1 .. Len(note) |-> note'[n]]
    BY <1>1
  <2> QED BY <1>1, <1>4, <1>5, <2>1
<1>7. note' \in Seq(Note)
  BY <1>1, <1>6, SeqDef
<1> QED BY <1>2, <1>3, <1>4, <1>7 DEF Kept

(* A tick, for the notes.                                                  *)
LEMMA Ticked ==
    ASSUME note \in Seq(Note), Tick
    PROVE  /\ note' \in Seq(Note) /\ DOMAIN note' = DOMAIN note
           /\ \A n \in DOMAIN note :
                /\ note'[n].pid = note[n].pid /\ note'[n].to = note[n].to
                /\ note'[n].text = note[n].text /\ note'[n].own = note[n].own
                /\ note'[n].known = note[n].known
                /\ note'[n].left = Sooner(note[n].left)
                /\ note'[n].age = Older(note[n].age, Window)
<1>1. DOMAIN note = 1 .. Len(note) /\ Len(note) \in Nat
  OBVIOUS
<1>2. \A n \in DOMAIN note : note[n] \in Note
  BY <1>1, ElementOfSeq
<1> DEFINE later(m) == [m EXCEPT !.left = Sooner(@), !.age = Older(@, Window)]
<1>3. \A k \in Nat : Sooner(k) \in Nat /\ Older(k, Window) \in Nat
  BY Constants DEF Sooner, Older
<1>4. \A m \in Note : /\ later(m) \in Note /\ later(m).known = m.known
                      /\ later(m).pid = m.pid /\ later(m).to = m.to
                      /\ later(m).text = m.text /\ later(m).own = m.own
                      /\ later(m).left = Sooner(m.left) /\ later(m).age = Older(m.age, Window)
  BY <1>3 DEF Note
<1>5. /\ DOMAIN note' = DOMAIN note
      /\ \A n \in DOMAIN note : note'[n] = later(note[n])
  BY DEF Tick
<1> HIDE DEF later
<1>6. \A n \in DOMAIN note : note'[n] \in Note
  BY <1>2, <1>4, <1>5
<1>7. note' \in [1 .. Len(note) -> Note]
  <2>1. note' = [n \in 1 .. Len(note) |-> note'[n]]
    BY <1>1 DEF Tick
  <2> QED BY <1>1, <1>5, <1>6, <2>1
<1>8. note' \in Seq(Note)
  BY <1>1, <1>7, SeqDef
<1> QED BY <1>2, <1>4, <1>5, <1>8

(* A note more.                                                            *)
LEMMA Written ==
    ASSUME note \in Seq(Note), NEW m \in Note, note' = Append(note, m)
    PROVE  /\ note' \in Seq(Note) /\ DOMAIN note' = DOMAIN note \cup {Len(note) + 1}
           /\ Len(note) + 1 \notin DOMAIN note /\ note'[Len(note) + 1] = m
           /\ \A n \in DOMAIN note : note'[n] = note[n]
           /\ DOMAIN note = 1 .. Len(note) /\ Len(note) \in Nat
<1>1. DOMAIN note = 1 .. Len(note) /\ Len(note) \in Nat
  OBVIOUS
<1>2. note' \in Seq(Note) /\ Len(note') = Len(note) + 1
  BY AppendProperties
<1>3. DOMAIN note' = 1 .. Len(note')
  BY <1>2
<1> QED BY <1>1, <1>2, <1>3, AppendProperties

(* What a process that has something to say leaves.                        *)
LEMMA Announced ==
    ASSUME TypeOK, NEW p \in Procs, NEW text \in Texts, Say(p, text)
    PROVE  \/ UNCHANGED <<recent, note, sending>>
           \/ /\ text \in DOMAIN recent[p] => recent[p][text] >= Window
              /\ sending' = [sending EXCEPT ![p] =
                   [text |-> text, own |-> TRUE, peers |-> Peers[App[p]], write |-> FALSE]]
              /\ sending' \in [Procs -> Sends]
              /\ recent' \in [Procs -> Ages]
              /\ text \in DOMAIN recent'[p] /\ recent'[p][text] = 0
              /\ \A q \in Procs \ {p} : recent'[q] = recent[q]
              /\ Kept
              /\ \/ \A n \in DOMAIN note : note[n].pid = p => ~note'[n].known
                 \/ /\ note' = note
                    /\ \A t \in DOMAIN recent[p] :
                         /\ t \in DOMAIN recent'[p]
                         /\ t # text => recent'[p][t] = recent[p][t]
<1> DEFINE clear == Cardinality(DOMAIN recent[p]) > MaxRecent
           before == IF clear THEN {} ELSE DOMAIN recent[p]
           ages == [t \in before \cup {text} |-> IF t = text THEN 0 ELSE recent[p][t]]
           saying == [text |-> text, own |-> TRUE, peers |-> Peers[App[p]], write |-> FALSE]
<1>1. \/ UNCHANGED <<recent, note, sending>>
      \/ /\ text \in DOMAIN recent[p] => recent[p][text] >= Window
         /\ recent' = [recent EXCEPT ![p] = ages]
         /\ sending' = [sending EXCEPT ![p] = saying]
         /\ IF clear THEN note' = [n \in DOMAIN note |-> IF note[n].pid = p
                                   THEN [note[n] EXCEPT !.known = FALSE] ELSE note[n]]
                     ELSE note' = note
  BY DEF Say, notify, spoolSend, Wants
<1>2. PICK S \in SUBSET Texts : recent[p] \in [S -> Nat]
  BY DEF TypeOK, Ages
<1>3. before \subseteq S
  BY <1>2
<1> HIDE DEF clear
<1>4. ages \in [before \cup {text} -> Nat]
  BY <1>2, <1>3
<1>5. ages \in Ages
  BY <1>3, <1>4 DEF Ages
<1>6. text \in DOMAIN ages /\ ages[text] = 0
  OBVIOUS
<1>7. ~clear => \A t \in DOMAIN recent[p] :
                  t \in DOMAIN ages /\ (t # text => ages[t] = recent[p][t])
  OBVIOUS
<1> HIDE DEF before, ages
<1>8. recent' = [recent EXCEPT ![p] = ages]
      => /\ recent' \in [Procs -> Ages] /\ recent'[p] = ages
         /\ \A q \in Procs \ {p} : recent'[q] = recent[q]
  BY <1>5 DEF TypeOK
<1>9. saying \in Sends
  <2>1. TRUE \in BOOLEAN /\ FALSE \in BOOLEAN
    OBVIOUS
  <2> QED BY <2>1, Constants DEF Sends
<1>10. sending' = [sending EXCEPT ![p] = saying] => sending' \in [Procs -> Sends]
  <2> HIDE DEF saying
  <2> QED BY <1>9 DEF TypeOK
<1>11. note \in Seq(Note)
  BY DEF TypeOK
<1>12. SUFFICES ASSUME ~UNCHANGED <<recent, note, sending>>
                PROVE  Kept /\ \/ \A n \in DOMAIN note : note[n].pid = p => ~note'[n].known
                               \/ note' = note /\ ~clear
  BY <1>1, <1>6, <1>7, <1>8, <1>10
<1>13. CASE clear
  BY <1>1, <1>11, <1>12, <1>13, Forgotten
<1>14. CASE ~clear
  BY <1>1, <1>11, <1>12, <1>14 DEF Kept
<1> QED BY <1>13, <1>14

(* A sender goes on to its next peer, or has told them all.                *)
LEMMA PeersLeft ==
    ASSUME TypeOK, NEW p \in Procs, sending[p].peers # <<>>
    PROVE  LET a == Head(sending[p].peers)
               rest == Tail(sending[p].peers)
               next == IF rest = <<>> THEN NoSend
                       ELSE [sending[p] EXCEPT !.peers = rest, !.write = FALSE]
           IN /\ a \in Apps /\ rest \in Seq(Apps) /\ next \in Sends
              /\ [sending[p] EXCEPT !.write = TRUE] \in Sends
              /\ [sending[p] EXCEPT !.peers = rest] \in Sends
<1> DEFINE s == sending[p]
           a == Head(s.peers)
           rest == Tail(s.peers)
<1>1. s \in Sends
  BY DEF TypeOK
<1>2. s.peers \in Seq(Apps) /\ s.text \in Texts \cup {""} /\ s.own \in BOOLEAN
  BY <1>1 DEF Sends
<1>3. a \in Apps /\ rest \in Seq(Apps)
  BY <1>2, HeadTailProperties
<1> HIDE DEF a, rest
<1>4. NoSend \in Sends
  BY EmptySeq DEF NoSend, Sends
<1>5. [s EXCEPT !.peers = rest, !.write = FALSE] \in Sends
  BY <1>1, <1>3 DEF Sends
<1>6. [s EXCEPT !.write = TRUE] \in Sends /\ [s EXCEPT !.peers = rest] \in Sends
  BY <1>1, <1>3 DEF Sends
<1> QED BY <1>3, <1>4, <1>5, <1>6 DEF a, rest

(* The names in a directory, in order.                                     *)
LEMMA Listed ==
    ASSUME NEW dir \in SUBSET Nat, IsFiniteSet(dir), NEW names \in Sorted(dir)
    PROVE  /\ names \in Seq(Nat)
           /\ \A i \in DOMAIN names : names[i] \in dir
<1>1. Cardinality(dir) \in Nat
  BY FS_CardinalityType
<1>2. names \in [1 .. Cardinality(dir) -> dir]
  BY DEF Sorted
<1>3. names \in [1 .. Cardinality(dir) -> Nat]
  BY <1>2
<1> QED BY <1>1, <1>2, <1>3, SeqDef

-----------------------------------------------------------------------------
\* Notes are in the inboxes they are written to, and what is shown is in none
Filed ==
    /\ \A a \in Apps : \A n \in inbox[a] : n \in DOMAIN note /\ note[n].to = a
    /\ \A n \in shown : n \in DOMAIN note /\ n \notin inbox[note[n].to]
    /\ \A n \in dropped : n \in DOMAIN note /\ Expired(n)

\* A reader reads its own program's notes, and those whose time was up are old
Ours(p, n) == n \in DOMAIN note /\ note[n].to = App[p]
ReaderOK(p) ==
    /\ reading[p] # NoRead => p \in running
    /\ \A i \in DOMAIN reading[p].todo : Ours(p, reading[p].todo[i])
    /\ reading[p].held # 0 => Ours(p, reading[p].held)
    /\ reading[p].gone => reading[p].held \notin inbox[App[p]]
    /\ \A n \in reading[p].old : n \in DOMAIN note /\ Expired(n)
Reading == \A p \in Procs : ReaderOK(p)

\* A sender has peers to tell, each once, something of its own
SenderOK(p) ==
    /\ sending[p] # NoSend => p \in running
    /\ sending[p].peers # <<>> => sending[p].text \in Texts
    /\ sending[p].write => sending[p].peers # <<>>
    /\ IsInjective(sending[p].peers)
    /\ \A i \in DOMAIN sending[p].peers : sending[p].peers[i] \in ToSet(Peers[App[p]])
    /\ sending[p].own
Sending == \A p \in Procs : SenderOK(p)

(* Notes are numbered from 1, and an inbox is finite.                      *)
LEMMA NotesTyped ==
    ASSUME TypeOK, Filed
    PROVE  /\ DOMAIN note = 1 .. Len(note) /\ Len(note) \in Nat
           /\ \A n \in DOMAIN note : note[n] \in Note
           /\ \A a \in Apps : inbox[a] \in SUBSET Nat /\ IsFiniteSet(inbox[a])
<1>1. DOMAIN note = 1 .. Len(note) /\ Len(note) \in Nat
  BY DEF TypeOK
<1>2. ASSUME NEW n \in DOMAIN note PROVE note[n] \in Note
  BY <1>1, ElementOfSeq DEF TypeOK
<1>3. ASSUME NEW a \in Apps PROVE inbox[a] \in SUBSET Nat /\ IsFiniteSet(inbox[a])
  <2>1. inbox[a] \in SUBSET Nat /\ \A n \in inbox[a] : n <= Len(note)
    BY <1>1 DEF TypeOK, Filed
  <2> QED BY <1>1, <2>1, FS_BoundedSetOfNaturals
<1> QED BY <1>1, <1>2, <1>3

(* Types.                                                                  *)
LEMMA TypeStep == ASSUME TypeOK, Filed, Sending, [Next]_vars PROVE TypeOK'
<1>1. ASSUME NEW p \in Procs, NEW text \in Texts, Say(p, text) PROVE TypeOK'
  <2>1. note' \in Seq(Note) /\ recent' \in [Procs -> Ages] /\ sending' \in [Procs -> Sends]
    BY <1>1, Announced DEF TypeOK, Kept
  <2> QED BY <1>1, <2>1 DEF TypeOK, Say
<1>2. ASSUME NEW p \in Procs, SendCount(p) PROVE TypeOK'
  <2> DEFINE a == Head(sending[p].peers)
             old == {n \in inbox[a] : Expired(n)}
             rest == Tail(sending[p].peers)
  <2>1. a \in Apps /\ NoSend \in Sends /\ [sending[p] EXCEPT !.write = TRUE] \in Sends
        /\ [sending[p] EXCEPT !.peers = rest] \in Sends
    BY <1>2, PeersLeft, EmptySeq DEF SendCount, NoSend, Sends
  <2>2. sending' \in [Procs -> Sends]
    BY <1>2, <2>1 DEF SendCount, TypeOK
  <2>3. inbox' = [inbox EXCEPT ![a] = @ \ old]
    BY <1>2 DEF SendCount
  <2> HIDE DEF a, old
  <2>4. inbox' \in [Apps -> SUBSET Nat]
    BY <2>1, <2>3 DEF TypeOK
  <2> QED BY <1>2, <2>2, <2>4 DEF TypeOK, SendCount
<1>3. ASSUME NEW p \in Procs, SendWrite(p) PROVE TypeOK'
  <2> DEFINE a == Head(sending[p].peers)
             rest == Tail(sending[p].peers)
             m == [pid |-> p, to |-> a, text |-> sending[p].text, own |-> sending[p].own,
                   left |-> Ttl, age |-> 0, known |-> TRUE]
             next == IF rest = <<>> THEN NoSend
                     ELSE [sending[p] EXCEPT !.peers = rest, !.write = FALSE]
  <2>1. sending[p].peers # <<>> /\ sending[p].text \in Texts
    BY <1>3 DEF SendWrite, Sending, SenderOK
  <2>2. a \in Apps /\ next \in Sends
    BY <2>1, PeersLeft
  <2>3. m \in Note
    <3>1. sending[p].own \in BOOLEAN
      BY DEF TypeOK, Sends
    <3> QED BY <2>1, <2>2, <3>1, Constants DEF Note
  <2>4. /\ note' = Append(note, m)
        /\ inbox' = [inbox EXCEPT ![a] = @ \cup {Len(note) + 1}]
        /\ sending' = [sending EXCEPT ![p] = next]
    BY <1>3 DEF SendWrite
  <2> HIDE DEF a, m, next
  <2>5. note' \in Seq(Note) /\ Len(note) + 1 \in Nat
    BY <2>3, <2>4, Written DEF TypeOK
  <2>6. sending' \in [Procs -> Sends]
    BY <2>2, <2>4 DEF TypeOK
  <2>7. inbox' \in [Apps -> SUBSET Nat]
    BY <2>2, <2>4, <2>5 DEF TypeOK
  <2> QED BY <1>3, <2>5, <2>6, <2>7 DEF TypeOK, SendWrite
<1>4. ASSUME NEW p \in Procs, spoolTick(p) PROVE TypeOK'
  <2>1. PICK names \in Sorted(inbox[App[p]]) :
          reading' = [reading EXCEPT ![p] =
             [NoRead EXCEPT !.todo = names, !.old = {n \in inbox[App[p]] : Expired(n)}]]
    BY <1>4 DEF spoolTick
  <2> DEFINE old == {n \in inbox[App[p]] : Expired(n)}
  <2>2. names \in Seq(Nat) /\ old \in SUBSET Nat
    BY NotesTyped, Listed, Constants
  <2> HIDE DEF old
  <2>3. [NoRead EXCEPT !.todo = names, !.old = old] \in Reads
    BY <2>2 DEF NoRead, Reads
  <2>4. reading' \in [Procs -> Reads]
    BY <2>1, <2>3 DEF TypeOK, old
  <2> QED BY <1>4, <2>4 DEF TypeOK, spoolTick
<1>5. ASSUME NEW p \in Procs, ReadNext(p) PROVE TypeOK'
  <2> DEFINE r == reading[p]
             g == Head(r.todo) \notin inbox[App[p]]
             next == [r EXCEPT !.todo = Tail(r.todo), !.held = Head(r.todo), !.gone = g]
  <2>1. r \in Reads /\ r.todo # <<>>
    BY <1>5 DEF TypeOK, ReadNext
  <2>2. r.todo \in Seq(Nat)
    BY <2>1 DEF Reads
  <2>3. Head(r.todo) \in Nat /\ Tail(r.todo) \in Seq(Nat)
    BY <2>1, <2>2, HeadTailProperties
  <2>4. g \in BOOLEAN
    OBVIOUS
  <2>5. reading' = [reading EXCEPT ![p] = next]
    BY <1>5 DEF ReadNext
  <2> HIDE DEF g
  <2>6. next \in Reads
    BY <2>1, <2>3, <2>4 DEF Reads
  <2>7. reading' \in [Procs -> Reads]
    BY <2>5, <2>6 DEF TypeOK
  <2> QED BY <1>5, <2>7 DEF TypeOK, ReadNext
<1>6. ASSUME NEW p \in Procs, reading' = PassOver(p) PROVE reading' \in [Procs -> Reads]
  <2>1. [reading[p] EXCEPT !.held = 0] \in Reads
    BY DEF TypeOK, Reads
  <2>2. reading' = [reading EXCEPT ![p] = [reading[p] EXCEPT !.held = 0]]
    BY <1>6 DEF PassOver
  <2> QED BY <2>1, <2>2 DEF TypeOK
<1>7. ASSUME NEW p \in Procs, Unlink(p) PROVE TypeOK'
  <2>1. reading' \in [Procs -> Reads]
    BY <1>6, <1>7 DEF Unlink, TypeOK
  <2>2. inbox' \in [Apps -> SUBSET Nat]
    BY <1>7 DEF Unlink, TypeOK
  <2> QED BY <1>7, <2>1, <2>2 DEF TypeOK, Unlink
<1>8. ASSUME NEW p \in Procs, Nothing(p) PROVE TypeOK'
  BY <1>6, <1>8 DEF Nothing, TypeOK
<1>9. ASSUME NEW p \in Procs, Show(p) PROVE TypeOK'
  <2> DEFINE next == [reading[p] EXCEPT !.held = 0, !.count = reading[p].count + 1]
  <2>1. next \in Reads
    <3>1. reading[p] \in Reads
      BY DEF TypeOK
    <3>2. reading[p].count + 1 \in Nat
      BY <3>1 DEF Reads
    <3> QED BY <3>1, <3>2 DEF Reads
  <2>2. reading' = [reading EXCEPT ![p] = next]
    BY <1>9 DEF Show
  <2> HIDE DEF next
  <2>3. reading' \in [Procs -> Reads]
    BY <2>1, <2>2 DEF TypeOK
  <2>4. UNCHANGED <<recent, note, sending>>
    BY <1>9 DEF Show, notify, spoolSend, Wants
  <2> QED BY <1>9, <2>3, <2>4 DEF TypeOK, Show
<1>10. ASSUME NEW p \in Procs, ReadEnd(p) PROVE TypeOK'
  <2>1. NoRead \in Reads
    BY EmptySeq DEF NoRead, Reads
  <2> QED BY <1>10, <2>1 DEF TypeOK, ReadEnd
<1>11. CASE Tick
  <2>1. note' \in Seq(Note)
    BY <1>11, Ticked DEF TypeOK
  <2>2. recent' \in [Procs -> Ages]
    <3>1. ASSUME NEW p \in Procs PROVE recent'[p] \in Ages
      <4>1. PICK S \in SUBSET Texts : recent[p] \in [S -> Nat]
        BY DEF TypeOK, Ages
      <4>2. \A k \in Nat : Older(k, Window) \in Nat
        BY Constants DEF Older
      <4>3. recent'[p] = [t \in S |-> Older(recent[p][t], Window)]
        BY <1>11, <4>1 DEF Tick
      <4>4. recent'[p] \in [S -> Nat]
        BY <4>1, <4>2, <4>3
      <4> QED BY <4>4 DEF Ages
    <3>2. recent' = [p \in Procs |-> recent'[p]]
      BY <1>11 DEF Tick
    <3> QED BY <3>1, <3>2
  <2> QED BY <1>11, <2>1, <2>2 DEF TypeOK, Tick
<1>14. ASSUME NEW p \in Procs, Crash(p) PROVE TypeOK'
  <2>1. note' \in Seq(Note)
    BY <1>14, Forgotten DEF TypeOK, Crash, Kept
  <2>2. NoRead \in Reads /\ NoSend \in Sends
    BY EmptySeq DEF NoRead, Reads, NoSend, Sends
  <2>3. <<>> \in Ages
    <3>1. <<>> \in [{} -> Nat]
      OBVIOUS
    <3> QED BY <3>1 DEF Ages
  <2>4. recent' \in [Procs -> Ages]
    BY <1>14, <2>3 DEF Crash, TypeOK
  <2> QED BY <1>14, <2>1, <2>2, <2>4 DEF TypeOK, Crash
<1>12. ASSUME NEW p \in Procs, Start(p) PROVE TypeOK'
  BY <1>12 DEF Start, TypeOK
<1>13. CASE UNCHANGED vars
  BY <1>13 DEF vars, TypeOK
<1> QED BY <1>1, <1>2, <1>3, <1>4, <1>5, <1>7, <1>8, <1>9, <1>10, <1>11, <1>12, <1>13, <1>14
        DEF Next, Step

-----------------------------------------------------------------------------
\* A note stays, where it was written to, and once its time is up it stays up
Lasts ==
    /\ DOMAIN note \subseteq DOMAIN note'
    /\ \A n \in DOMAIN note : note'[n].to = note[n].to /\ (Expired(n) => Expired(n)')

(* What the steps leave of the notes.                                      *)
LEMMA SayKeeps ==
    ASSUME TypeOK, NEW p \in Procs, NEW text \in Texts, Say(p, text) PROVE Kept
<1>1. note' = note => Kept
  BY DEF TypeOK, Kept
<1> QED BY <1>1, Announced

(* What is shown here is not sent on.                                      *)
LEMMA ShowKeeps == ASSUME NEW p \in Procs, Show(p) PROVE UNCHANGED <<recent, note, sending>>
BY DEF Show, notify, spoolSend, Wants

(* A note stays.                                                           *)
LEMMA NotesLast == ASSUME TypeOK, Filed, Sending, [Next]_vars PROVE Lasts
<1>1. Kept => Lasts
  BY DEF Kept, Lasts, Expired
<1>2. note' = note => Lasts
  BY DEF Lasts, Expired
<1>3. ASSUME NEW p \in Procs, SendWrite(p) PROVE Lasts
  <2> DEFINE m == [pid |-> p, to |-> Head(sending[p].peers), text |-> sending[p].text,
                   own |-> sending[p].own, left |-> Ttl, age |-> 0, known |-> TRUE]
  <2>1. /\ note' = Append(note, m) /\ DOMAIN note = 1 .. Len(note)
        /\ note \in Seq(Note)
    BY <1>3, NotesTyped DEF SendWrite, TypeOK
  <2> HIDE DEF m
  <2>2. \A n \in DOMAIN note : n \in DOMAIN note' /\ note'[n] = note[n]
    BY <2>1
  <2> QED BY <2>2 DEF Lasts, Expired
<1>4. CASE Tick
  <2>1. \A n \in DOMAIN note : n \in DOMAIN note' /\ note'[n].to = note[n].to
                               /\ note'[n].left = Sooner(note[n].left)
    BY <1>4, Ticked DEF TypeOK
  <2>2. Sooner(0) = 0
    BY DEF Sooner
  <2> QED BY <2>1, <2>2 DEF Lasts, Expired
<1>5. ASSUME NEW p \in Procs, Crash(p) PROVE Kept
  BY <1>5, Forgotten DEF Crash, TypeOK
<1>6. ASSUME NEW p \in Procs, \/ SendCount(p) \/ ReadNext(p) \/ Unlink(p) \/ Nothing(p)
                              \/ ReadEnd(p) \/ spoolTick(p) \/ Start(p)
      PROVE  note' = note
  BY <1>6 DEF SendCount, ReadNext, Unlink, Nothing, ReadEnd, spoolTick, Start
<1>7. UNCHANGED vars => note' = note
  BY DEF vars
<1> QED BY <1>1, <1>2, <1>3, <1>4, <1>5, <1>6, <1>7, SayKeeps, ShowKeeps DEF Next, Step

(* Notes stay where they are written, and what is shown is taken out.      *)
LEMMA FiledStep ==
    ASSUME TypeOK, Filed, Reading, Sending, [Next]_vars PROVE Filed'
<1>1. Lasts
  BY NotesLast
<1>2. ASSUME \A a \in Apps : inbox'[a] \subseteq inbox[a],
             \A n \in shown' \ shown : n \in DOMAIN note /\ n \notin inbox'[note[n].to],
             \A n \in dropped' \ dropped : n \in DOMAIN note /\ Expired(n)
      PROVE  Filed'
  <2>1. \A n \in DOMAIN note : note[n].to \in Apps
    BY NotesTyped DEF Note
  <2> QED BY <1>1, <1>2, <2>1 DEF Filed, Lasts
<1>3. UNCHANGED <<inbox, shown, dropped>> => Filed'
  <2>1. \A n \in DOMAIN note : note[n].to \in Apps
    BY NotesTyped DEF Note
  <2> QED BY <1>1, <2>1 DEF Filed, Lasts
<1>4. ASSUME NEW p \in Procs, SendCount(p) PROVE Filed'
  <2> DEFINE a == Head(sending[p].peers)
             old == {n \in inbox[a] : Expired(n)}
  <2>1. a \in Apps
    BY <1>4, PeersLeft DEF SendCount
  <2>2. /\ inbox' = [inbox EXCEPT ![a] = @ \ old] /\ shown' = shown
        /\ dropped' \subseteq dropped \cup old
    BY <1>4 DEF SendCount
  <2>3. \A n \in old : n \in DOMAIN note /\ Expired(n)
    BY <2>1 DEF Filed
  <2> HIDE DEF a, old
  <2>4. \A b \in Apps : inbox'[b] \subseteq inbox[b]
    BY <2>1, <2>2 DEF TypeOK
  <2> QED BY <1>2, <2>2, <2>3, <2>4
<1>5. ASSUME NEW p \in Procs, SendWrite(p) PROVE Filed'
  <2> DEFINE a == Head(sending[p].peers)
             k == Len(note) + 1
             m == [pid |-> p, to |-> a, text |-> sending[p].text, own |-> sending[p].own,
                   left |-> Ttl, age |-> 0, known |-> TRUE]
  <2>1. sending[p].peers # <<>>
    BY <1>5 DEF SendWrite, Sending, SenderOK
  <2>2. a \in Apps
    BY <2>1, PeersLeft
  <2>3. /\ note' = Append(note, m) /\ inbox' = [inbox EXCEPT ![a] = @ \cup {k}]
        /\ UNCHANGED <<shown, dropped>> /\ m.to = a
    BY <1>5 DEF SendWrite
  <2>4. DOMAIN note = 1 .. Len(note) /\ Len(note) \in Nat
    BY NotesTyped
  <2> HIDE DEF a, m
  <2>5. k \in DOMAIN note' /\ note'[k] = m /\ k \notin DOMAIN note
    BY <2>3, <2>4 DEF TypeOK
  <2> HIDE DEF k
  <2>6. \A b \in Apps : inbox'[b] = IF b = a THEN inbox[b] \cup {k} ELSE inbox[b]
    BY <2>2, <2>3 DEF TypeOK
  <2>7. \A n \in DOMAIN note : note[n].to \in Apps
    BY NotesTyped DEF Note
  <2> QED BY <1>1, <2>3, <2>5, <2>6, <2>7 DEF Filed, Lasts
<1>6. ASSUME NEW p \in Procs, Unlink(p) PROVE Filed'
  <2>1. /\ inbox' = [inbox EXCEPT ![App[p]] = @ \ {reading[p].held}] /\ shown' = shown
        /\ dropped' \subseteq dropped \cup reading[p].old
    BY <1>6 DEF Unlink
  <2>2. \A b \in Apps : inbox'[b] \subseteq inbox[b]
    BY <2>1 DEF TypeOK
  <2> QED BY <1>2, <2>1, <2>2 DEF Reading, ReaderOK
<1>7. ASSUME NEW p \in Procs, Nothing(p) PROVE Filed'
  <2>1. UNCHANGED <<inbox, shown>> /\ dropped' \subseteq dropped \cup reading[p].old
    BY <1>7 DEF Nothing
  <2> QED BY <1>2, <2>1 DEF Reading, ReaderOK
<1>8. ASSUME NEW p \in Procs, Show(p) PROVE Filed'
  <2>1. /\ UNCHANGED <<inbox, dropped>> /\ shown' \subseteq shown \cup {reading[p].held}
        /\ reading[p].held # 0 /\ reading[p].held \notin inbox[App[p]]
    BY <1>8 DEF Show
  <2> QED BY <1>2, <2>1 DEF Reading, ReaderOK, Ours
<1>9. ASSUME NEW p \in Procs, NEW text \in Texts, Say(p, text) PROVE Filed'
  BY <1>3, <1>9 DEF Say
<1>10. ASSUME NEW p \in Procs, ReadNext(p) \/ ReadEnd(p) \/ spoolTick(p) \/ Start(p)
                               \/ Crash(p)
       PROVE  Filed'
  BY <1>3, <1>10 DEF ReadNext, ReadEnd, spoolTick, Start, Crash
<1>11. CASE Tick
  BY <1>3, <1>11 DEF Tick
<1>12. CASE UNCHANGED vars
  BY <1>3, <1>12 DEF vars
<1> QED BY <1>4, <1>5, <1>6, <1>7, <1>8, <1>9, <1>10, <1>11, <1>12 DEF Next, Step

(* Readers read what is theirs.                                            *)
LEMMA ReadingStep ==
    ASSUME TypeOK, Filed, Reading, Sending, [Next]_vars PROVE Reading'
<1>1. Lasts
  BY NotesLast
<1> DEFINE Fewer == \A a \in Apps : \A n \in inbox'[a] : n \in inbox[a] \/ n = Len(note) + 1
<1>2. ASSUME NEW p \in Procs, NEW n, Ours(p, n) PROVE Ours(p, n)'
  BY <1>1, <1>2 DEF Ours, Lasts
<1>3. \A n : n \in DOMAIN note /\ Expired(n) => (n \in DOMAIN note /\ Expired(n))'
  BY <1>1 DEF Lasts
<1>4. DOMAIN note = 1 .. Len(note) /\ Len(note) \in Nat
  BY NotesTyped
<1>5. \A p \in Procs : App[p] \in Apps
  BY Constants
<1>6. ASSUME Fewer, NEW p \in Procs, reading'[p] = reading[p], p \in running => p \in running'
      PROVE  ReaderOK(p)'
  <2>1. reading[p].held = 0 \/ reading[p].held \in DOMAIN note
    BY DEF Reading, ReaderOK, Ours
  <2>2. reading[p].held # Len(note) + 1
    BY <1>4, <2>1
  <2>3. (reading[p].gone => reading[p].held \notin inbox[App[p]])'
    BY <1>5, <1>6, <2>2 DEF Reading, ReaderOK
  <2> QED BY <1>2, <1>3, <1>6, <2>3 DEF Reading, ReaderOK
<1>7. UNCHANGED inbox => Fewer
  OBVIOUS
<1>8. ASSUME NEW p \in Procs, \/ reading' = [reading EXCEPT ![p] = reading'[p]]
             \/ reading' = PassOver(p), running' = running, Fewer, ReaderOK(p)'
      PROVE  Reading'
  <2>1. \A q \in Procs \ {p} : reading'[q] = reading[q]
    BY <1>8 DEF TypeOK, PassOver
  <2> QED BY <1>6, <1>8, <2>1 DEF Reading
<1>9. ASSUME NEW p \in Procs, NEW text \in Texts, Say(p, text) PROVE Reading'
  BY <1>6, <1>7, <1>9 DEF Say, Reading
<1>10. ASSUME NEW p \in Procs, SendCount(p) PROVE Reading'
  <2>1. Fewer
    <3>1. Head(sending[p].peers) \in Apps
      BY <1>10, PeersLeft DEF SendCount
    <3> QED BY <1>10, <3>1 DEF SendCount, TypeOK
  <2> QED BY <1>6, <1>10, <2>1 DEF SendCount, Reading
<1>11. ASSUME NEW p \in Procs, SendWrite(p) PROVE Reading'
  <2>1. Fewer
    <3>1. Head(sending[p].peers) \in Apps
      BY <1>11, PeersLeft DEF SendWrite, Sending, SenderOK
    <3> QED BY <1>11, <3>1 DEF SendWrite, TypeOK
  <2> QED BY <1>6, <1>11, <2>1 DEF SendWrite, Reading
<1>12. ASSUME NEW p \in Procs, spoolTick(p) PROVE Reading'
  <2>1. PICK names \in Sorted(inbox[App[p]]) :
          reading' = [reading EXCEPT ![p] =
             [NoRead EXCEPT !.todo = names, !.old = {n \in inbox[App[p]] : Expired(n)}]]
    BY <1>12 DEF spoolTick
  <2>2. /\ p \in running /\ UNCHANGED <<inbox, note, running>> /\ App[p] \in Apps
    BY <1>12, <1>5 DEF spoolTick
  <2>3. \A i \in DOMAIN names : names[i] \in inbox[App[p]]
    BY <2>2, NotesTyped, Listed
  <2>4. /\ reading'[p].todo = names /\ reading'[p].held = 0 /\ ~reading'[p].gone
        /\ reading'[p].old = {n \in inbox[App[p]] : Expired(n)}
    BY <2>1 DEF NoRead, TypeOK
  <2>5. reading' = [reading EXCEPT ![p] = reading'[p]]
    BY <2>1 DEF TypeOK
  <2>6. ReaderOK(p)'
    BY <2>2, <2>3, <2>4, <1>3 DEF ReaderOK, Filed, Ours
  <2> QED BY <1>7, <1>8, <2>2, <2>5, <2>6
<1>13. ASSUME NEW p \in Procs, ReadNext(p) PROVE Reading'
  <2> DEFINE r == reading[p]
  <2>1. r.todo \in Seq(Nat) /\ r.todo # <<>> /\ r \in Reads
    BY <1>13 DEF ReadNext, TypeOK, Reads
  <2>2. /\ UNCHANGED <<inbox, note, running>>
        /\ reading' = [reading EXCEPT ![p] = [r EXCEPT !.todo = Tail(r.todo),
              !.held = Head(r.todo), !.gone = Head(r.todo) \notin inbox[App[p]]]]
    BY <1>13 DEF ReadNext
  <2>3. /\ reading'[p].todo = Tail(r.todo) /\ reading'[p].held = Head(r.todo)
        /\ reading'[p].gone = (Head(r.todo) \notin inbox[App[p]])
        /\ reading'[p].old = r.old /\ reading' = [reading EXCEPT ![p] = reading'[p]]
    BY <2>1, <2>2 DEF TypeOK, Reads
  <2>4. /\ 1 \in DOMAIN r.todo /\ Head(r.todo) = r.todo[1]
        /\ \A i \in DOMAIN Tail(r.todo) : /\ i + 1 \in DOMAIN r.todo
                                          /\ Tail(r.todo)[i] = r.todo[i + 1]
    BY <2>1, HeadTailProperties
  <2>5. p \in running
    <3>1. r # NoRead
      BY <2>1 DEF NoRead
    <3> QED BY <3>1 DEF Reading, ReaderOK
  <2>6. ReaderOK(p)'
    <3>1. \A n : Ours(p, n) => Ours(p, n)'
      BY <1>2
    <3>2. \A n \in r.old : n \in DOMAIN note /\ Expired(n)
      BY DEF Reading, ReaderOK
    <3>3. \A i \in DOMAIN r.todo : Ours(p, r.todo[i])
      BY DEF Reading, ReaderOK
    <3> DEFINE t == r.todo
               o == r.old
    <3>4. /\ Ours(p, Head(t))
          /\ \A i \in DOMAIN Tail(t) : Ours(p, Tail(t)[i])
      BY <2>4, <3>3
    <3> HIDE DEF r
    <3>5. (\A i \in DOMAIN reading[p].todo : Ours(p, reading[p].todo[i]))'
      <4>1. \A i \in DOMAIN Tail(t) : \A n : n = Tail(t)[i] => Ours(p, n)'
        BY <3>1, <3>4
      <4> QED BY <2>3, <4>1 DEF Ours
    <3>6. Ours(p, reading[p].held)'
      <4>1. \A n : n = Head(t) => Ours(p, n)'
        BY <3>1, <3>4
      <4> QED BY <2>3, <4>1 DEF Ours
    <3>7. (\A n \in reading[p].old : n \in DOMAIN note /\ Expired(n))'
      BY <1>3, <2>3, <3>2
    <3>8. (reading[p].gone => reading[p].held \notin inbox[App[p]])'
      BY <2>2, <2>3
    <3> QED BY <2>2, <2>5, <3>5, <3>6, <3>7, <3>8 DEF ReaderOK
  <2> QED BY <1>7, <1>8, <2>2, <2>3, <2>6
<1>14. ASSUME NEW p \in Procs, reading' = PassOver(p), reading[p].held # 0, UNCHANGED running, Fewer
       PROVE  Reading'
  <2>1. /\ reading'[p].todo = reading[p].todo /\ reading'[p].held = 0
        /\ reading'[p].gone = reading[p].gone /\ reading'[p].old = reading[p].old
    BY <1>14 DEF PassOver, TypeOK, Reads
  <2>2. 0 \notin inbox'[App[p]]
    <3>1. 0 \notin inbox[App[p]]
      BY <1>4, <1>5 DEF Filed
    <3> QED BY <1>4, <1>5, <1>14, <3>1
  <2>3. p \in running
    <3>1. reading[p] # NoRead
      BY <1>14 DEF NoRead
    <3> QED BY <3>1 DEF Reading, ReaderOK
  <2>4. ReaderOK(p)'
    BY <1>2, <1>3, <1>14, <2>1, <2>2, <2>3 DEF Reading, ReaderOK
  <2> QED BY <1>8, <1>14, <2>4
<1>15. ASSUME NEW p \in Procs, Unlink(p) PROVE Reading'
  <2>1. Fewer /\ running' = running
    BY <1>5, <1>15 DEF Unlink, TypeOK
  <2>2. reading[p].held # 0
    BY <1>4, <1>5, <1>15 DEF Unlink, Filed
  <2>3. CASE reading' = PassOver(p)
    BY <1>14, <2>1, <2>2, <2>3
  <2>4. CASE reading' = reading
    BY <1>6, <2>1, <2>4 DEF Reading
  <2> QED BY <1>15, <2>3, <2>4 DEF Unlink
<1>16. ASSUME NEW p \in Procs, Nothing(p) PROVE Reading'
  BY <1>7, <1>14, <1>16 DEF Nothing
<1>17. ASSUME NEW p \in Procs, Show(p) PROVE Reading'
  <2> DEFINE r == reading[p]
  <2>1. /\ UNCHANGED <<inbox, running>> /\ r.held # 0 /\ ~r.gone /\ r \in Reads
        /\ reading' = [reading EXCEPT ![p] = [r EXCEPT !.held = 0, !.count = r.count + 1]]
    BY <1>17 DEF Show, Holds, TypeOK
  <2>2. /\ reading'[p].todo = r.todo /\ reading'[p].held = 0
        /\ reading'[p].gone = r.gone /\ reading'[p].old = r.old
        /\ reading' = [reading EXCEPT ![p] = reading'[p]]
    BY <2>1 DEF TypeOK, Reads
  <2>3. p \in running
    <3>1. r # NoRead
      BY <2>1 DEF NoRead
    <3> QED BY <3>1 DEF Reading, ReaderOK
  <2>4. ReaderOK(p)'
    BY <1>2, <1>3, <2>1, <2>2, <2>3 DEF Reading, ReaderOK
  <2> QED BY <1>7, <1>8, <2>1, <2>2, <2>4
<1>18. ASSUME NEW p \in Procs, reading' = [reading EXCEPT ![p] = NoRead]
       PROVE  /\ \A q \in Procs \ {p} : reading'[q] = reading[q]
              /\ ReaderOK(p)'
  <2>1. reading'[p] = NoRead /\ \A q \in Procs \ {p} : reading'[q] = reading[q]
    BY <1>18 DEF TypeOK
  <2>2. /\ NoRead.todo = <<>> /\ NoRead.held = 0 /\ ~NoRead.gone /\ NoRead.old = {}
    BY DEF NoRead
  <2> QED BY <2>1, <2>2 DEF ReaderOK
<1>19. ASSUME NEW p \in Procs, ReadEnd(p) PROVE Reading'
  BY <1>6, <1>7, <1>18, <1>19 DEF ReadEnd, Reading
<1>20. ASSUME NEW p \in Procs, Crash(p) PROVE Reading'
  <2>1. \A q \in Procs \ {p} : q \in running => q \in running'
    BY <1>20 DEF Crash
  <2> QED BY <1>6, <1>7, <1>18, <1>20, <2>1 DEF Crash, Reading
<1>21. ASSUME NEW p \in Procs, Start(p) PROVE Reading'
  BY <1>6, <1>7, <1>21 DEF Start, Reading
<1>22. CASE Tick
  BY <1>6, <1>7, <1>22 DEF Tick, Reading
<1>23. CASE UNCHANGED vars
  BY <1>6, <1>7, <1>23 DEF vars, Reading
<1> QED BY <1>9, <1>10, <1>11, <1>12, <1>13, <1>15, <1>16, <1>17, <1>19, <1>20, <1>21, <1>22,
           <1>23 DEF Next, Step

(* What a sender that has dealt with a peer has left: the peers after it.  *)
LEMMA PeersKept ==
    ASSUME TypeOK, NEW p \in Procs, SenderOK(p), sending[p].peers # <<>>
    PROVE  LET a == Head(sending[p].peers)
               rest == Tail(sending[p].peers)
           IN /\ a \in ToSet(Peers[App[p]]) /\ IsInjective(rest)
              /\ \A i \in DOMAIN rest : /\ rest[i] \in ToSet(Peers[App[p]])
                                        /\ rest[i] # a
                                        /\ \E j \in DOMAIN sending[p].peers :
                                             rest[i] = sending[p].peers[j]
              /\ \E j \in DOMAIN sending[p].peers : a = sending[p].peers[j]
<1> DEFINE q == sending[p].peers
           rest == Tail(q)
<1>1. q \in Seq(Apps) /\ q # <<>>
  BY DEF TypeOK, Sends
<1>2. /\ 1 \in DOMAIN q /\ Head(q) = q[1]
      /\ \A i \in DOMAIN rest : i + 1 \in DOMAIN q /\ i + 1 # 1 /\ rest[i] = q[i + 1]
  BY <1>1, HeadTailProperties
<1>3. \A i, j \in DOMAIN rest : i + 1 = j + 1 => i = j
  BY <1>1, HeadTailProperties
<1>4. /\ \A i, j \in DOMAIN q : q[i] = q[j] => i = j
      /\ \A i \in DOMAIN q : q[i] \in ToSet(Peers[App[p]])
  BY DEF SenderOK, IsInjective
<1> HIDE DEF q, rest
<1>5. IsInjective(rest)
  BY <1>2, <1>3, <1>4 DEF IsInjective
<1> QED BY <1>2, <1>4, <1>5 DEF q, rest

(* Senders have something of their own to send, to each peer once.         *)
LEMMA SendingStep == ASSUME TypeOK, Sending, [Next]_vars PROVE Sending'
<1>1. ASSUME NEW p \in Procs, sending'[p] = sending[p], p \in running => p \in running'
      PROVE  SenderOK(p)'
  BY <1>1 DEF Sending, SenderOK
<1>2. ASSUME sending' = sending, running \subseteq running' PROVE Sending'
  BY <1>1, <1>2 DEF Sending
<1>3. ASSUME NEW p \in Procs, NEW s, sending' = [sending EXCEPT ![p] = s], running' = running,
             SenderOK(p)'
      PROVE  Sending'
  <2>1. \A q \in Procs \ {p} : sending'[q] = sending[q]
    BY <1>3 DEF TypeOK
  <2> QED BY <1>1, <1>3, <2>1 DEF Sending
<1>4. ASSUME NEW p \in Procs, sending' = [sending EXCEPT ![p] = NoSend] PROVE SenderOK(p)'
  <2>1. sending'[p] = NoSend
    BY <1>4 DEF TypeOK
  <2>2. NoSend.peers = <<>> /\ ~NoSend.write /\ NoSend.own
    BY DEF NoSend
  <2>3. DOMAIN <<>> = {}
    OBVIOUS
  <2> QED BY <2>1, <2>2, <2>3 DEF SenderOK, IsInjective
<1>5. ASSUME NEW p \in Procs, NEW text \in Texts, Say(p, text) PROVE Sending'
  <2>2. p \in running /\ running' = running
    BY <1>5 DEF Say
  <2>3. CASE UNCHANGED sending
    BY <1>2, <2>2, <2>3
  <2> DEFINE s == [text |-> text, own |-> TRUE, peers |-> Peers[App[p]], write |-> FALSE]
  <2>4. CASE sending' = [sending EXCEPT ![p] = s]
    <3>1. sending'[p] = s
      BY <2>4 DEF TypeOK
    <3>2. /\ s.text = text /\ s.own /\ ~s.write /\ s.peers = Peers[App[p]]
      OBVIOUS
    <3> HIDE DEF s
    <3>3. SenderOK(p)'
      BY <2>2, <3>1, <3>2, Constants DEF SenderOK, ToSet
    <3> QED BY <1>3, <2>2, <2>4, <3>3
  <2> QED BY <1>5, <2>3, <2>4, Announced
<1>6. ASSUME NEW p \in Procs, sending[p].peers # <<>>
      PROVE  p \in running
  <2>1. NoSend.peers = <<>>
    BY DEF NoSend
  <2> QED BY <1>6, <2>1 DEF Sending, SenderOK
<1>7. ASSUME NEW p \in Procs, SendCount(p) PROVE Sending'
  <2> DEFINE s == sending[p]
             rest == Tail(sending[p].peers)
             more == [s EXCEPT !.write = TRUE]
             less == [s EXCEPT !.peers = rest]
  <2>1. s \in Sends /\ s.peers # <<>> /\ ~s.write /\ running' = running /\ p \in running
    BY <1>6, <1>7 DEF TypeOK, SendCount
  <2>2. /\ more.peers = s.peers /\ more.text = s.text /\ more.own = s.own
        /\ less.peers = rest /\ less.text = s.text /\ less.own = s.own /\ less.write = s.write
    BY <2>1 DEF Sends
  <2>3. \/ sending' = [sending EXCEPT ![p] = more]
        \/ sending' = [sending EXCEPT ![p] = NoSend]
        \/ rest # <<>> /\ sending' = [sending EXCEPT ![p] = less]
    BY <1>7 DEF SendCount
  <2>4. SenderOK(p)
    BY DEF Sending
  <2> HIDE DEF more, less
  <2>5. CASE sending' = [sending EXCEPT ![p] = more]
    <3>1. sending'[p] = more
      BY <2>5 DEF TypeOK
    <3>2. SenderOK(p)'
      BY <2>1, <2>2, <2>4, <3>1 DEF SenderOK
    <3> QED BY <1>3, <2>1, <2>5, <3>2
  <2>6. CASE rest # <<>> /\ sending' = [sending EXCEPT ![p] = less]
    <3>1. sending'[p] = less
      BY <2>6 DEF TypeOK
    <3>2. IsInjective(rest) /\ \A i \in DOMAIN rest : rest[i] \in ToSet(Peers[App[p]])
      BY <2>1, <2>4, PeersKept
    <3> HIDE DEF rest
    <3>3. SenderOK(p)'
      BY <2>1, <2>2, <2>4, <2>6, <3>1, <3>2 DEF SenderOK
    <3> QED BY <1>3, <2>1, <2>6, <3>3
  <2> QED BY <1>3, <1>4, <2>1, <2>3, <2>5, <2>6
<1>8. ASSUME NEW p \in Procs, SendWrite(p) PROVE Sending'
  <2> DEFINE s == sending[p]
             rest == Tail(sending[p].peers)
             less == [s EXCEPT !.peers = rest, !.write = FALSE]
  <2>1. SenderOK(p)
    BY DEF Sending
  <2>2. s \in Sends /\ s.peers # <<>> /\ running' = running
    BY <1>8, <2>1 DEF TypeOK, SendWrite, SenderOK
  <2>3. less.peers = rest /\ less.text = s.text /\ less.own = s.own /\ ~less.write
    BY <2>2 DEF Sends
  <2>4. \/ sending' = [sending EXCEPT ![p] = NoSend]
        \/ rest # <<>> /\ sending' = [sending EXCEPT ![p] = less]
    BY <1>8 DEF SendWrite
  <2> HIDE DEF less
  <2>5. CASE rest # <<>> /\ sending' = [sending EXCEPT ![p] = less]
    <3>1. sending'[p] = less
      BY <2>5 DEF TypeOK
    <3>2. IsInjective(rest) /\ \A i \in DOMAIN rest : rest[i] \in ToSet(Peers[App[p]])
      BY <2>1, <2>2, PeersKept
    <3>3. p \in running
      BY <1>6, <2>2
    <3> HIDE DEF rest
    <3>4. SenderOK(p)'
      BY <2>1, <2>2, <2>3, <2>5, <3>1, <3>2, <3>3 DEF SenderOK
    <3> QED BY <1>3, <2>2, <2>5, <3>4
  <2> QED BY <1>3, <1>4, <2>2, <2>4, <2>5
<1>9. ASSUME NEW p \in Procs, \/ spoolTick(p) \/ ReadNext(p) \/ Unlink(p) \/ Nothing(p)
                              \/ ReadEnd(p) \/ Start(p)
      PROVE  Sending'
  BY <1>2, <1>9 DEF spoolTick, ReadNext, Unlink, Nothing, ReadEnd, Start
<1>10. ASSUME NEW p \in Procs, Show(p) PROVE Sending'
  BY <1>2, <1>10, ShowKeeps DEF Show
<1>11. ASSUME NEW p \in Procs, Crash(p) PROVE Sending'
  <2>1. \A q \in Procs \ {p} : sending'[q] = sending[q] /\ (q \in running => q \in running')
    BY <1>11 DEF Crash, TypeOK
  <2>2. sending' = [sending EXCEPT ![p] = NoSend]
    BY <1>11 DEF Crash
  <2> QED BY <1>1, <1>4, <2>1, <2>2 DEF Sending
<1>12. CASE Tick
  BY <1>2, <1>12 DEF Tick
<1>13. CASE UNCHANGED vars
  BY <1>2, <1>13 DEF vars
<1> QED BY <1>5, <1>7, <1>8, <1>9, <1>10, <1>11, <1>12, <1>13 DEF Next, Step

-----------------------------------------------------------------------------
\* What a process remembers of the texts it has sent is no older than the notes
\* it remembers; a text under way has just been sent; and a note with it that is
\* not old has been written to a peer that is dealt with
Recalled ==
    /\ \A p \in Procs : sending[p].peers # <<>> =>
         sending[p].text \in DOMAIN recent[p] /\ recent[p][sending[p].text] = 0
    /\ \A n \in DOMAIN note : note[n].known =>
         /\ note[n].text \in DOMAIN recent[note[n].pid]
         /\ recent[note[n].pid][note[n].text] <= note[n].age
    /\ \A p \in Procs : \A n \in DOMAIN note :
         /\ note[n].pid = p /\ note[n].text = sending[p].text
         /\ note[n].known /\ note[n].age < Window
         => \A i \in DOMAIN sending[p].peers : sending[p].peers[i] # note[n].to

(* gRecent and the notes.                                                  *)
LEMMA RecalledStep ==
    ASSUME TypeOK, Filed, Sending, Recalled, [Next]_vars PROVE Recalled'
<1>1. \A n \in DOMAIN note : note[n] \in Note
  BY NotesTyped
<1>2. \A n \in DOMAIN note : note[n].pid \in Procs /\ note[n].age \in Nat
  BY <1>1 DEF Note
<1>3. \A p \in Procs : \A t \in DOMAIN recent[p] : recent[p][t] \in Nat
  BY DEF TypeOK, Ages
<1>4. ASSUME UNCHANGED <<note, recent>>,
             \A p \in Procs : \/ sending'[p].peers = <<>>
                              \/ /\ sending[p].peers # <<>>
                                 /\ sending'[p].text = sending[p].text
                                 /\ \A i \in DOMAIN sending'[p].peers :
                                      \E j \in DOMAIN sending[p].peers :
                                        sending'[p].peers[i] = sending[p].peers[j]
      PROVE  Recalled'
  <2>1. DOMAIN <<>> = {}
    OBVIOUS
  <2> QED BY <1>4, <2>1 DEF Recalled
<1>5. CASE UNCHANGED <<note, recent, sending>>
  BY <1>5 DEF Recalled
<1>6. ASSUME NEW p \in Procs, NEW text \in Texts, Say(p, text) PROVE Recalled'
  <2> DEFINE s == [text |-> text, own |-> TRUE, peers |-> Peers[App[p]], write |-> FALSE]
  <2>3. \/ UNCHANGED <<recent, note, sending>>
        \/ /\ text \in DOMAIN recent[p] => recent[p][text] >= Window
           /\ sending' = [sending EXCEPT ![p] = s]
           /\ text \in DOMAIN recent'[p] /\ recent'[p][text] = 0
           /\ \A q \in Procs \ {p} : recent'[q] = recent[q]
           /\ Kept
           /\ \/ \A n \in DOMAIN note : note[n].pid = p => ~note'[n].known
              \/ /\ note' = note
                 /\ \A t \in DOMAIN recent[p] :
                      /\ t \in DOMAIN recent'[p]
                      /\ t # text => recent'[p][t] = recent[p][t]
    <3>1. \/ UNCHANGED <<recent, note, sending>>
          \/ /\ text \in DOMAIN recent[p] => recent[p][text] >= Window
             /\ sending' = [sending EXCEPT ![p] = s]
             /\ sending' \in [Procs -> Sends]
             /\ recent' \in [Procs -> Ages]
             /\ text \in DOMAIN recent'[p] /\ recent'[p][text] = 0
             /\ \A q \in Procs \ {p} : recent'[q] = recent[q]
             /\ Kept
             /\ \/ \A n \in DOMAIN note : note[n].pid = p => ~note'[n].known
                \/ /\ note' = note
                   /\ \A t \in DOMAIN recent[p] :
                        /\ t \in DOMAIN recent'[p]
                        /\ t # text => recent'[p][t] = recent[p][t]
      BY <1>6, Announced
    <3> QED BY <3>1
  <2>4. s.text = text
    OBVIOUS
  <2> HIDE DEF s
  <2>5. SUFFICES ASSUME ~UNCHANGED <<recent, note, sending>> PROVE Recalled'
    BY <1>5
  <2>6. sending'[p] = s /\ \A q \in Procs \ {p} : sending'[q] = sending[q]
    BY <2>3, <2>5 DEF TypeOK
  <2>7. \A q \in Procs : sending'[q].peers # <<>> =>
          sending'[q].text \in DOMAIN recent'[q] /\ recent'[q][sending'[q].text] = 0
    BY <2>3, <2>4, <2>5, <2>6 DEF Recalled
  <2>8. ASSUME NEW n \in DOMAIN note', note'[n].known
        PROVE  /\ note'[n].text \in DOMAIN recent'[note'[n].pid]
               /\ recent'[note'[n].pid][note'[n].text] <= note'[n].age
    <3>1. /\ n \in DOMAIN note /\ note[n].known /\ note'[n].pid = note[n].pid
          /\ note'[n].text = note[n].text /\ note'[n].age = note[n].age
      BY <2>3, <2>5, <2>8 DEF Kept
    <3>2. CASE note[n].pid # p
      BY <1>2, <2>3, <2>5, <3>1, <3>2 DEF Recalled
    <3>3. CASE note[n].pid = p
      BY <1>2, <2>3, <2>5, <2>8, <3>1, <3>3 DEF Recalled
    <3> QED BY <3>2, <3>3
  <2>9. ASSUME NEW q \in Procs, NEW n \in DOMAIN note', note'[n].pid = q,
               note'[n].text = sending'[q].text, note'[n].known, note'[n].age < Window,
               NEW i \in DOMAIN sending'[q].peers
        PROVE  sending'[q].peers[i] # note'[n].to
    <3>1. /\ n \in DOMAIN note /\ note[n].known /\ note'[n].pid = note[n].pid
          /\ note'[n].text = note[n].text /\ note'[n].age = note[n].age
          /\ note'[n].to = note[n].to
      BY <2>3, <2>5, <2>9 DEF Kept
    <3>2. CASE q # p
      BY <2>6, <2>9, <3>1, <3>2 DEF Recalled
    <3>3. CASE q = p
      <4>1. text \in DOMAIN recent[p] /\ recent[p][text] <= note[n].age /\ note[n].age < Window
        <5>1. note[n].text = text /\ note[n].pid = p /\ note[n].age < Window
          BY <2>4, <2>6, <2>9, <3>1, <3>3
        <5> QED BY <3>1, <5>1 DEF Recalled
      <4>2. recent[p][text] \in Nat /\ note[n].age \in Nat
        BY <1>2, <1>3, <3>1, <4>1
      <4>3. recent[p][text] >= Window
        BY <2>3, <2>5, <4>1
      <4> QED BY <4>1, <4>2, <4>3, Constants
    <3> QED BY <3>2, <3>3
  <2> QED BY <2>7, <2>8, <2>9 DEF Recalled
<1>7. ASSUME NEW p \in Procs, SendCount(p) PROVE Recalled'
  <2> DEFINE s == sending[p]
             rest == Tail(sending[p].peers)
             more == [s EXCEPT !.write = TRUE]
             less == [s EXCEPT !.peers = rest]
  <2>1. s \in Sends /\ s.peers # <<>> /\ SenderOK(p) /\ UNCHANGED <<note, recent>>
    BY <1>7 DEF TypeOK, SendCount, Sending
  <2>2. /\ more.peers = s.peers /\ more.text = s.text
        /\ less.peers = rest /\ less.text = s.text /\ NoSend.peers = <<>>
    BY <2>1 DEF Sends, NoSend
  <2>3. \/ sending' = [sending EXCEPT ![p] = more]
        \/ sending' = [sending EXCEPT ![p] = NoSend]
        \/ sending' = [sending EXCEPT ![p] = less]
    BY <1>7 DEF SendCount
  <2>4. \A i \in DOMAIN rest : \E j \in DOMAIN s.peers : rest[i] = s.peers[j]
    BY <2>1, PeersKept
  <2> HIDE DEF more, less, rest
  <2>5. /\ \A q \in Procs \ {p} : sending'[q] = sending[q]
        /\ sending'[p] \in {more, NoSend, less}
    BY <2>3 DEF TypeOK
  <2>6. ASSUME NEW q \in Procs
        PROVE  \/ sending'[q].peers = <<>>
               \/ /\ sending[q].peers # <<>>
                  /\ sending'[q].text = sending[q].text
                  /\ \A i \in DOMAIN sending'[q].peers :
                       \E j \in DOMAIN sending[q].peers :
                         sending'[q].peers[i] = sending[q].peers[j]
    <3>1. CASE q = p
      BY <2>1, <2>2, <2>4, <2>5, <3>1
    <3>2. CASE q # p /\ sending[q].peers = <<>>
      BY <2>5, <3>2
    <3>3. CASE q # p /\ sending[q].peers # <<>>
      BY <2>5, <3>3
    <3> QED BY <3>1, <3>2, <3>3
  <2> QED BY <1>4, <2>1, <2>6
<1>8. ASSUME NEW p \in Procs, SendWrite(p) PROVE Recalled'
  <2> DEFINE s == sending[p]
             a == Head(sending[p].peers)
             rest == Tail(sending[p].peers)
             less == [s EXCEPT !.peers = rest, !.write = FALSE]
             k == Len(note) + 1
             m == [pid |-> p, to |-> a, text |-> s.text, own |-> s.own,
                   left |-> Ttl, age |-> 0, known |-> TRUE]
  <2>1. SenderOK(p)
    BY DEF Sending
  <2>2. s \in Sends /\ s.peers # <<>> /\ recent' = recent /\ note' = Append(note, m)
    BY <1>8, <2>1 DEF TypeOK, SendWrite, SenderOK
  <2>3. /\ less.peers = rest /\ less.text = s.text /\ NoSend.peers = <<>>
        /\ m.pid = p /\ m.to = a /\ m.text = s.text /\ m.age = 0
    BY <2>2 DEF Sends, NoSend
  <2>4. \/ sending' = [sending EXCEPT ![p] = NoSend]
        \/ sending' = [sending EXCEPT ![p] = less]
    BY <1>8 DEF SendWrite
  <2>5. \A i \in DOMAIN rest : /\ rest[i] # a
                               /\ \E j \in DOMAIN s.peers : rest[i] = s.peers[j]
    BY <2>1, <2>2, PeersKept
  <2> HIDE DEF less, rest, a, m
  <2>6. /\ DOMAIN note' = DOMAIN note \cup {k} /\ note'[k] = m
        /\ \A n \in DOMAIN note : note'[n] = note[n]
    <3>1. DOMAIN note = 1 .. Len(note) /\ note \in Seq(Note)
      BY NotesTyped DEF TypeOK
    <3> QED BY <2>2, <3>1
  <2> HIDE DEF k
  <2>7. /\ \A q \in Procs \ {p} : sending'[q] = sending[q]
        /\ sending'[p] \in {NoSend, less}
    BY <2>4 DEF TypeOK
  <2>8. s.text \in DOMAIN recent[p] /\ recent[p][s.text] = 0
    BY <2>2 DEF Recalled
  <2>9. DOMAIN <<>> = {}
    OBVIOUS
  <2>10. \A q \in Procs : sending'[q].peers # <<>> =>
           sending'[q].text \in DOMAIN recent'[q] /\ recent'[q][sending'[q].text] = 0
    BY <2>2, <2>3, <2>7, <2>8 DEF Recalled
  <2>11. \A n \in DOMAIN note' : note'[n].known =>
           /\ note'[n].text \in DOMAIN recent'[note'[n].pid]
           /\ recent'[note'[n].pid][note'[n].text] <= note'[n].age
    BY <2>2, <2>3, <2>6, <2>8 DEF Recalled
  <2>12. ASSUME NEW q \in Procs, NEW n \in DOMAIN note', note'[n].pid = q,
                note'[n].text = sending'[q].text, note'[n].known, note'[n].age < Window,
                NEW i \in DOMAIN sending'[q].peers
         PROVE  sending'[q].peers[i] # note'[n].to
    <3>1. CASE n = k
      <4>1. q = p /\ note'[n].to = a
        BY <2>3, <2>6, <2>12, <3>1
      <4> QED BY <2>3, <2>5, <2>7, <2>9, <2>12, <4>1
    <3>2. CASE n \in DOMAIN note /\ q = p
      BY <2>3, <2>5, <2>6, <2>7, <2>9, <2>12, <3>2 DEF Recalled
    <3>3. CASE n \in DOMAIN note /\ q # p
      BY <2>6, <2>7, <2>12, <3>3 DEF Recalled
    <3> QED BY <2>6, <3>1, <3>2, <3>3
  <2> QED BY <2>10, <2>11, <2>12 DEF Recalled
<1>9. ASSUME NEW p \in Procs, \/ spoolTick(p) \/ ReadNext(p) \/ Unlink(p) \/ Nothing(p)
                              \/ ReadEnd(p) \/ Start(p) \/ Show(p)
      PROVE  Recalled'
  BY <1>5, <1>9, ShowKeeps DEF spoolTick, ReadNext, Unlink, Nothing, ReadEnd, Start
<1>10. ASSUME NEW p \in Procs, Crash(p) PROVE Recalled'
  <2>1. Kept /\ \A n \in DOMAIN note : note[n].pid = p => ~note'[n].known
    BY <1>10, Forgotten DEF Crash, TypeOK
  <2>2. /\ sending'[p] = NoSend
        /\ \A q \in Procs \ {p} : sending'[q] = sending[q] /\ recent'[q] = recent[q]
    BY <1>10 DEF Crash, TypeOK
  <2>3. NoSend.peers = <<>> /\ DOMAIN <<>> = {}
    BY DEF NoSend
  <2>4. \A q \in Procs : sending'[q].peers # <<>> =>
           sending'[q].text \in DOMAIN recent'[q] /\ recent'[q][sending'[q].text] = 0
    BY <2>2, <2>3 DEF Recalled
  <2>5. \A n \in DOMAIN note' : note'[n].known =>
           /\ note'[n].text \in DOMAIN recent'[note'[n].pid]
           /\ recent'[note'[n].pid][note'[n].text] <= note'[n].age
    BY <1>2, <2>1, <2>2 DEF Recalled, Kept
  <2>6. ASSUME NEW q \in Procs, NEW n \in DOMAIN note', note'[n].pid = q,
               note'[n].text = sending'[q].text, note'[n].known, note'[n].age < Window,
               NEW i \in DOMAIN sending'[q].peers
        PROVE  sending'[q].peers[i] # note'[n].to
    <3>1. q # p
      BY <2>2, <2>3, <2>6
    <3> QED BY <2>1, <2>2, <2>6, <3>1 DEF Recalled, Kept
  <2> QED BY <2>4, <2>5, <2>6 DEF Recalled
<1>11. CASE Tick
  <2>1. \A p \in Procs : sending'[p].peers = <<>>
    <3>1. NoSend.peers = <<>>
      BY DEF NoSend
    <3> QED BY <1>11, <3>1 DEF Tick
  <2>2. DOMAIN <<>> = {}
    OBVIOUS
  <2>3. /\ DOMAIN note' = DOMAIN note
        /\ \A n \in DOMAIN note :
             /\ note'[n].pid = note[n].pid /\ note'[n].text = note[n].text
             /\ note'[n].known = note[n].known
             /\ note'[n].age = Older(note[n].age, Window)
    BY <1>11, Ticked DEF TypeOK
  <2>4. \A p \in Procs : /\ DOMAIN recent'[p] = DOMAIN recent[p]
                         /\ \A t \in DOMAIN recent[p] :
                              recent'[p][t] = Older(recent[p][t], Window)
    BY <1>11 DEF Tick
  <2>5. \A j, k \in Nat : j <= k => Older(j, Window) <= Older(k, Window)
    BY Constants DEF Older
  <2>6. ASSUME NEW n \in DOMAIN note', note'[n].known
        PROVE  /\ note'[n].text \in DOMAIN recent'[note'[n].pid]
               /\ recent'[note'[n].pid][note'[n].text] <= note'[n].age
    <3> DEFINE p == note[n].pid
               t == note[n].text
    <3>1. /\ n \in DOMAIN note /\ note[n].known /\ note'[n].pid = p /\ note'[n].text = t
          /\ note'[n].age = Older(note[n].age, Window) /\ p \in Procs
          /\ note[n].age \in Nat
      BY <1>2, <2>3, <2>6
    <3>2. t \in DOMAIN recent[p] /\ recent[p][t] <= note[n].age
      BY <3>1 DEF Recalled
    <3>3. t \in DOMAIN recent'[p] /\ recent'[p][t] = Older(recent[p][t], Window)
      BY <2>4, <3>1, <3>2
    <3>4. recent[p][t] \in Nat
      BY <1>3, <3>1, <3>2
    <3> HIDE DEF p, t
    <3> QED BY <2>5, <3>1, <3>2, <3>3, <3>4
  <2> QED BY <2>1, <2>2, <2>6 DEF Recalled
<1>12. CASE UNCHANGED vars
  BY <1>5, <1>12 DEF vars
<1> QED BY <1>6, <1>7, <1>8, <1>9, <1>10, <1>11, <1>12 DEF Next, Step

(* The same text from the same process to the same peer, once a window.    *)
LEMMA OnceStep ==
    ASSUME TypeOK, Filed, Sending, Recalled, OncePerWindow, [Next]_vars PROVE OncePerWindow'
<1>1. ASSUME Kept PROVE OncePerWindow'
  BY <1>1 DEF Kept, OncePerWindow
<1>2. note' = note => Kept
  BY DEF TypeOK, Kept
<1>3. ASSUME NEW p \in Procs, SendWrite(p) PROVE OncePerWindow'
  <2> DEFINE s == sending[p]
             a == Head(sending[p].peers)
             k == Len(note) + 1
             new == [pid |-> p, to |-> a, text |-> s.text, own |-> s.own,
                     left |-> Ttl, age |-> 0, known |-> TRUE]
  <2>1. s.peers # <<>> /\ SenderOK(p) /\ note' = Append(note, new)
    BY <1>3 DEF SendWrite, Sending, SenderOK
  <2>2. \E j \in DOMAIN s.peers : a = s.peers[j]
    BY <2>1, PeersKept
  <2>3. new.pid = p /\ new.to = a /\ new.text = s.text
    OBVIOUS
  <2> HIDE DEF new, a
  <2>4. /\ DOMAIN note' = DOMAIN note \cup {k} /\ note'[k] = new
        /\ \A n \in DOMAIN note : note'[n] = note[n]
        /\ \A n \in DOMAIN note : n < k /\ n \in Nat
    <3>1. DOMAIN note = 1 .. Len(note) /\ note \in Seq(Note)
      BY NotesTyped DEF TypeOK
    <3> QED BY <2>1, <3>1
  <2>5. ~(k < k) /\ \A n \in DOMAIN note : ~(k < n)
    <3>1. DOMAIN note = 1 .. Len(note) /\ Len(note) \in Nat
      BY NotesTyped
    <3> QED BY <3>1
  <2> HIDE DEF k
  <2>6. ASSUME NEW m \in DOMAIN note', NEW n \in DOMAIN note',
               note'[m].pid = note'[n].pid, note'[m].to = note'[n].to,
               note'[m].text = note'[n].text, m < n, note'[n].age = 0, note'[m].known
        PROVE  note'[m].age >= Window
    <3>1. CASE m \in DOMAIN note /\ n \in DOMAIN note
      BY <2>4, <2>6, <3>1 DEF OncePerWindow
    <3>2. CASE m \in DOMAIN note /\ n = k
      <4>1. note[m].age \in Nat /\ note'[m] = note[m]
        BY <2>4, <3>2, NotesTyped DEF Note
      <4>2. note[m].pid = p /\ note[m].text = s.text /\ note[m].to = a /\ note[m].known
        BY <2>3, <2>4, <2>6, <3>2, <4>1
      <4>3. ~(note[m].age < Window)
        BY <2>2, <3>2, <4>2 DEF Recalled
      <4> QED BY <4>1, <4>3, Constants
    <3> QED BY <2>4, <2>5, <2>6, <3>1, <3>2
  <2> QED BY <2>6 DEF OncePerWindow
<1>4. CASE Tick
  <2>1. \A k \in Nat : Older(k, Window) # 0
    BY Constants DEF Older
  <2>2. \A n \in DOMAIN note' : note'[n].age # 0
    BY <1>4, <2>1, Ticked, NotesTyped DEF TypeOK, Note
  <2> QED BY <2>2 DEF OncePerWindow
<1>5. ASSUME NEW p \in Procs, Crash(p) PROVE Kept
  BY <1>5, Forgotten DEF Crash, TypeOK
<1>6. ASSUME NEW p \in Procs, \/ SendCount(p) \/ ReadNext(p) \/ Unlink(p) \/ Nothing(p)
                              \/ ReadEnd(p) \/ spoolTick(p) \/ Start(p) \/ Show(p)
      PROVE  note' = note
  BY <1>6, ShowKeeps DEF SendCount, ReadNext, Unlink, Nothing, ReadEnd, spoolTick, Start
<1>7. UNCHANGED vars => note' = note
  BY DEF vars
<1> QED BY <1>1, <1>2, <1>3, <1>4, <1>5, <1>6, <1>7, SayKeeps DEF Next, Step

-----------------------------------------------------------------------------
\* Who has counted an inbox and not yet written is one more than there are in it
Senders(a) == {p \in Procs : a \in ToSet(Peers[App[p]])}
Live(a) == {n \in inbox[a] : ~Expired(n)}
Writers(a) == {p \in Procs : /\ sending[p].write /\ sending[p].peers # <<>>
                             /\ Head(sending[p].peers) = a}
Counted ==
    \A a \in Apps : Cardinality(Live(a)) + Cardinality(Writers(a))
                      <= InboxMax - 1 + Cardinality(Senders(a))

(* The sets that are counted are finite.                                   *)
LEMMA Countable ==
    ASSUME TypeOK, Filed, Sending, NEW a \in Apps
    PROVE  /\ IsFiniteSet(Live(a)) /\ IsFiniteSet(Senders(a)) /\ IsFiniteSet(Writers(a))
           /\ Cardinality(Live(a)) \in Nat /\ Cardinality(Senders(a)) \in Nat
           /\ Cardinality(Writers(a)) \in Nat
           /\ Writers(a) \subseteq Senders(a)
<1>1. IsFiniteSet(Live(a))
  <2>1. Live(a) \in SUBSET inbox[a]
    BY DEF Live
  <2> QED BY <2>1, NotesTyped, FS_Subset
<1>2. IsFiniteSet(Senders(a)) /\ IsFiniteSet(Writers(a))
  <2>1. Senders(a) \in SUBSET Procs /\ Writers(a) \in SUBSET Procs
    BY DEF Senders, Writers
  <2> QED BY <2>1, Constants, FS_Subset
<1>3. ASSUME NEW p \in Writers(a) PROVE p \in Senders(a)
  <2>1. p \in Procs /\ sending[p].peers # <<>> /\ Head(sending[p].peers) = a
    BY DEF Writers
  <2> QED BY <2>1, PeersKept DEF Sending, Senders
<1> QED BY <1>1, <1>2, <1>3, FS_CardinalityType

(* An inbox is overshot by its other senders at most.                      *)
LEMMA CountedStep ==
    ASSUME TypeOK, Filed, Reading, Sending, Counted, [Next]_vars PROVE Counted'
<1>1. TypeOK' /\ Filed' /\ Sending'
  BY TypeStep, FiledStep, SendingStep
<1>2. \A a \in Apps : /\ IsFiniteSet(Live(a)) /\ IsFiniteSet(Senders(a))
                      /\ IsFiniteSet(Writers(a))
                      /\ Cardinality(Live(a)) \in Nat /\ Cardinality(Senders(a)) \in Nat
                      /\ Cardinality(Writers(a)) \in Nat
                      /\ Writers(a) \subseteq Senders(a)
  BY Countable
<1>3. Lasts
  BY NotesLast
<1> DEFINE Within(a) == Cardinality(Live(a)') + Cardinality(Writers(a)')
                          <= InboxMax - 1 + Cardinality(Senders(a))
<1>4. ASSUME \A a \in Apps : Within(a) PROVE Counted'
  BY <1>4 DEF Counted, Senders
<1>5. ASSUME NEW a \in Apps, Live(a)' \subseteq Live(a), Writers(a)' \subseteq Writers(a)
      PROVE  Within(a)
  <2>1. /\ Cardinality(Live(a)') <= Cardinality(Live(a))
        /\ Cardinality(Writers(a)') <= Cardinality(Writers(a))
        /\ Cardinality(Live(a)') \in Nat /\ Cardinality(Writers(a)') \in Nat
    BY <1>2, <1>5, FS_Subset, FS_CardinalityType
  <2>2. Cardinality(Live(a)) + Cardinality(Writers(a)) <= InboxMax - 1 + Cardinality(Senders(a))
    BY DEF Counted
  <2> QED BY <1>2, <2>1, <2>2, Constants
<1>6. ASSUME NEW a \in Apps, inbox'[a] \subseteq inbox[a] PROVE Live(a)' \subseteq Live(a)
  BY <1>3, <1>6 DEF Live, Lasts, Filed
<1>7. ASSUME NEW a \in Apps,
             \A q \in Procs : \/ sending'[q] = sending[q]
                              \/ ~sending'[q].write \/ sending'[q].peers = <<>>
      PROVE  Writers(a)' \subseteq Writers(a)
  BY <1>7 DEF Writers
<1>8. ASSUME UNCHANGED sending, \A a \in Apps : inbox'[a] \subseteq inbox[a] PROVE Counted'
  BY <1>4, <1>5, <1>6, <1>7, <1>8
<1>9. ASSUME NEW p \in Procs, NEW text \in Texts, Say(p, text) PROVE Counted'
  <2> DEFINE s == [text |-> text, own |-> TRUE, peers |-> Peers[App[p]], write |-> FALSE]
  <2>1. /\ inbox' = inbox
        /\ sending' = sending \/ sending' = [sending EXCEPT ![p] = s]
    BY <1>9, Announced DEF Say
  <2>2. ~s.write
    OBVIOUS
  <2> HIDE DEF s
  <2>3. \A q \in Procs : sending'[q] = sending[q] \/ ~sending'[q].write
    BY <2>1, <2>2 DEF TypeOK
  <2> QED BY <1>4, <1>5, <1>6, <1>7, <2>1, <2>3
<1>10. ASSUME NEW p \in Procs, SendCount(p) PROVE Counted'
  <2>0. PICK a \in Apps : a = Head(sending[p].peers)
    BY <1>10, PeersLeft DEF SendCount
  <2> DEFINE s == sending[p]
             old == {n \in inbox[a] : Expired(n)}
             rest == Tail(sending[p].peers)
             more == [s EXCEPT !.write = TRUE]
             less == [s EXCEPT !.peers = rest]
  <2>1. s \in Sends /\ s.peers # <<>> /\ ~s.write /\ note' = note
    BY <1>10 DEF TypeOK, SendCount
  <2>2. /\ ~less.write /\ NoSend.peers = <<>>
    BY <2>1 DEF Sends, NoSend
  <2>3. /\ inbox' = [inbox EXCEPT ![a] = @ \ old]
        /\ \/ sending' = [sending EXCEPT ![p] = NoSend]
           \/ sending' = [sending EXCEPT ![p] = less]
           \/ /\ sending' = [sending EXCEPT ![p] = more]
              /\ ~(Cardinality(inbox[a] \ old) >= InboxMax)
    BY <1>10, <2>0 DEF SendCount
  <2>4. Live(a) = inbox[a] \ old
    BY DEF Live
  <2> HIDE DEF more, less, rest, old
  <2>5. \A b \in Apps : inbox'[b] \subseteq inbox[b]
    BY <2>1, <2>3 DEF TypeOK
  <2>6. CASE \/ sending' = [sending EXCEPT ![p] = NoSend]
             \/ sending' = [sending EXCEPT ![p] = less]
    <3>1. \A q \in Procs : \/ sending'[q] = sending[q]
                           \/ ~sending'[q].write \/ sending'[q].peers = <<>>
      BY <2>2, <2>6 DEF TypeOK
    <3> QED BY <1>4, <1>5, <1>6, <1>7, <2>5, <3>1
  <2>7. CASE /\ sending' = [sending EXCEPT ![p] = more]
             /\ ~(Cardinality(inbox[a] \ old) >= InboxMax)
    <3>1. Within(a)
      <4>1. Live(a)' \subseteq Live(a)
        BY <1>6, <2>5
      <4>0. Cardinality(Live(a)) <= InboxMax - 1
        <5>1. ~(Cardinality(Live(a)) >= InboxMax)
          BY <2>4, <2>7
        <5>2. Cardinality(Live(a)) \in Nat
          BY <1>2
        <5> QED BY <5>1, <5>2, Constants
      <4>2. Writers(a)' \subseteq Senders(a)
        <5>1. SUFFICES ASSUME NEW q \in Procs, sending'[q].peers # <<>>,
                              Head(sending'[q].peers) = a
                       PROVE  a \in ToSet(Peers[App[q]])
          BY DEF Writers, Senders
        <5>2. /\ sending'[q].peers \in Seq(Apps)
              /\ \A i \in DOMAIN sending'[q].peers :
                   sending'[q].peers[i] \in ToSet(Peers[App[q]])
          BY <1>1 DEF TypeOK, Sends, Sending, SenderOK
        <5>3. 1 \in DOMAIN sending'[q].peers /\ sending'[q].peers[1] = a
          BY <5>1, <5>2
        <5> QED BY <5>2, <5>3
      <4>3. /\ Cardinality(Live(a)') <= Cardinality(Live(a))
            /\ Cardinality(Writers(a)') <= Cardinality(Senders(a))
            /\ Cardinality(Live(a)') \in Nat /\ Cardinality(Writers(a)') \in Nat
        BY <1>2, <2>1, <4>1, <4>2, FS_Subset, FS_CardinalityType
      <4> QED BY <1>2, <4>0, <4>3, Constants
    <3>2. ASSUME NEW b \in Apps, b # a PROVE Within(b)
      <4>1. more.peers = s.peers
        BY <2>1 DEF Sends, more
      <4>2. /\ \A q \in Procs \ {p} : sending'[q] = sending[q]
            /\ sending'[p] = more
        BY <2>7 DEF TypeOK
      <4>3. Writers(b)' \subseteq Writers(b)
        <5>1. SUFFICES ASSUME NEW q \in Procs, sending'[q].write, sending'[q].peers # <<>>,
                              Head(sending'[q].peers) = b
                       PROVE  q # p /\ sending'[q] = sending[q]
          BY DEF Writers
        <5> QED BY <2>0, <3>2, <4>1, <4>2, <5>1
      <4> QED BY <1>5, <1>6, <2>5, <4>3
    <3>3. \A b \in Apps : Within(b)
      BY <3>1, <3>2
    <3> QED BY <1>4, <3>3
  <2> QED BY <2>3, <2>6, <2>7
<1>11. ASSUME NEW p \in Procs, SendWrite(p) PROVE Counted'
  <2>1. sending[p] \in Sends /\ sending[p].peers # <<>> /\ sending[p].write
    BY <1>11 DEF TypeOK, SendWrite, Sending, SenderOK
  <2>0. PICK a \in Apps : a = Head(sending[p].peers)
    BY <2>1, PeersLeft
  <2> DEFINE s == sending[p]
             rest == Tail(sending[p].peers)
             less == [s EXCEPT !.peers = rest, !.write = FALSE]
             k == Len(note) + 1
             m == [pid |-> p, to |-> a, text |-> s.text, own |-> s.own,
                   left |-> Ttl, age |-> 0, known |-> TRUE]
  <2>2. ~less.write /\ ~NoSend.write
    BY <2>1 DEF Sends, NoSend
  <2>3. /\ inbox' = [inbox EXCEPT ![a] = @ \cup {k}] /\ note' = Append(note, m)
        /\ \/ sending' = [sending EXCEPT ![p] = NoSend]
           \/ sending' = [sending EXCEPT ![p] = less]
    BY <1>11, <2>0 DEF SendWrite
  <2>4. p \in Writers(a)
    BY <2>0, <2>1 DEF Writers
  <2> HIDE DEF m, less, rest
  <2>5. \A n \in DOMAIN note : note'[n] = note[n]
    <3>1. note \in Seq(Note)
      BY DEF TypeOK
    <3> QED BY <2>3, <3>1
  <2> HIDE DEF k
  <2>6. \A q \in Procs : IF q = p THEN ~sending'[q].write ELSE sending'[q] = sending[q]
    BY <2>2, <2>3 DEF TypeOK
  <2>7. \A b \in Apps : inbox'[b] = IF b = a THEN inbox[b] \cup {k} ELSE inbox[b]
    BY <2>1, <2>3 DEF TypeOK
  <2>8. \A b \in Apps : Writers(b)' \subseteq Writers(b) \ {p}
    BY <2>6 DEF Writers
  <2>9. Within(a)
    <3>1. Live(a)' \subseteq Live(a) \cup {k}
      BY <2>1, <2>5, <2>7 DEF Live, Expired, Filed
    <3>2. /\ IsFiniteSet(Live(a) \cup {k})
          /\ Cardinality(Live(a) \cup {k}) <= Cardinality(Live(a)) + 1
          /\ Cardinality(Live(a) \cup {k}) \in Nat
      <4>1. /\ IsFiniteSet(Live(a)) /\ Cardinality(Live(a)) \in Nat
        BY <1>2
      <4>2. /\ IsFiniteSet(Live(a) \cup {k})
            /\ \/ Cardinality(Live(a) \cup {k}) = Cardinality(Live(a))
               \/ Cardinality(Live(a) \cup {k}) = Cardinality(Live(a)) + 1
        BY <4>1, FS_AddElement
      <4> QED BY <4>1, <4>2
    <3>3. /\ IsFiniteSet(Writers(a) \ {p})
          /\ Cardinality(Writers(a) \ {p}) = Cardinality(Writers(a)) - 1
      BY <1>2, <2>1, <2>4, FS_RemoveElement
    <3>4. /\ Cardinality(Live(a)') <= Cardinality(Live(a)) + 1
          /\ Cardinality(Live(a)') \in Nat
      <4>1. /\ Cardinality(Live(a)') <= Cardinality(Live(a) \cup {k})
            /\ Cardinality(Live(a)') \in Nat
        BY <3>1, <3>2, FS_Subset, FS_CardinalityType
      <4> QED BY <1>2, <2>1, <3>2, <4>1
    <3>5. /\ Cardinality(Writers(a)') <= Cardinality(Writers(a)) - 1
          /\ Cardinality(Writers(a)') \in Nat
      BY <2>1, <2>8, <3>3, FS_Subset, FS_CardinalityType
    <3>6. Cardinality(Live(a)) + Cardinality(Writers(a))
            <= InboxMax - 1 + Cardinality(Senders(a))
      BY <2>1 DEF Counted
    <3> QED BY <1>2, <2>1, <3>4, <3>5, <3>6, Constants
  <2>10. ASSUME NEW b \in Apps, b # a PROVE Within(b)
    <3>1. inbox'[b] \subseteq inbox[b]
      BY <2>7, <2>10
    <3>2. Writers(b)' \subseteq Writers(b)
      BY <2>8
    <3> QED BY <1>5, <1>6, <3>1, <3>2
  <2>11. \A b \in Apps : Within(b)
    BY <2>9, <2>10
  <2> QED BY <1>4, <2>11
<1>12. ASSUME NEW p \in Procs, \/ spoolTick(p) \/ ReadNext(p) \/ Unlink(p) \/ Nothing(p)
                               \/ ReadEnd(p) \/ Start(p) \/ Show(p)
       PROVE  Counted'
  <2>1. UNCHANGED sending
    BY <1>12, ShowKeeps DEF spoolTick, ReadNext, Unlink, Nothing, ReadEnd, Start
  <2>2. \A a \in Apps : inbox'[a] \subseteq inbox[a]
    BY <1>12 DEF spoolTick, ReadNext, Unlink, Nothing, ReadEnd, Start, Show, TypeOK
  <2> QED BY <1>8, <2>1, <2>2
<1>13. CASE Tick
  BY <1>8, <1>13 DEF Tick
<1>14. ASSUME NEW p \in Procs, Crash(p) PROVE Counted'
  <2>1. /\ inbox' = inbox /\ sending'[p] = NoSend
        /\ \A q \in Procs \ {p} : sending'[q] = sending[q]
    BY <1>14 DEF Crash, TypeOK
  <2>2. NoSend.peers = <<>>
    BY DEF NoSend
  <2> QED BY <1>4, <1>5, <1>6, <1>7, <2>1, <2>2
<1>15. CASE UNCHANGED vars
  BY <1>8, <1>15 DEF vars
<1> QED BY <1>9, <1>10, <1>11, <1>12, <1>13, <1>14, <1>15 DEF Next, Step

-----------------------------------------------------------------------------
NInv == /\ TypeOK /\ Filed /\ Reading /\ Sending /\ Recalled /\ Counted
        /\ NeverSentOn /\ OncePerWindow

(* What a sender has counted bounds what lies in the inbox.                *)
LEMMA CountedBounds ==
    ASSUME TypeOK, Filed, Sending, Counted PROVE InboxIsBounded
<1>1. SUFFICES ASSUME NEW a \in Apps
               PROVE  Cardinality(Live(a)) <= InboxMax - 1 + Cardinality(Senders(a))
  BY DEF InboxIsBounded, Live, Senders
<1>2. /\ Cardinality(Live(a)) \in Nat /\ Cardinality(Writers(a)) \in Nat
      /\ Cardinality(Senders(a)) \in Nat
  BY Countable
<1> QED BY <1>2, Constants DEF Counted

(* All that is written is the program's own.                               *)
LEMMA OwnStep == ASSUME TypeOK, Filed, Sending, NeverSentOn, [Next]_vars PROVE NeverSentOn'
<1>1. ASSUME Kept PROVE NeverSentOn'
  BY <1>1 DEF Kept, NeverSentOn
<1>2. note' = note => NeverSentOn'
  BY DEF NeverSentOn
<1>3. ASSUME NEW p \in Procs, SendWrite(p) PROVE NeverSentOn'
  <2> DEFINE m == [pid |-> p, to |-> Head(sending[p].peers), text |-> sending[p].text,
                   own |-> sending[p].own, left |-> Ttl, age |-> 0, known |-> TRUE]
  <2>1. /\ note' = Append(note, m) /\ DOMAIN note = 1 .. Len(note)
        /\ note \in Seq(Note) /\ m.own
    BY <1>3, NotesTyped DEF SendWrite, TypeOK, Sending, SenderOK
  <2> HIDE DEF m
  <2>2. /\ DOMAIN note' = DOMAIN note \cup {Len(note) + 1} /\ note'[Len(note) + 1] = m
        /\ \A n \in DOMAIN note : note'[n] = note[n]
    BY <2>1
  <2> QED BY <2>1, <2>2 DEF NeverSentOn
<1>4. CASE Tick
  BY <1>4, Ticked DEF TypeOK, NeverSentOn
<1>5. ASSUME NEW p \in Procs, Crash(p) PROVE Kept
  BY <1>5, Forgotten DEF Crash, TypeOK
<1>6. ASSUME NEW p \in Procs, \/ SendCount(p) \/ ReadNext(p) \/ Unlink(p) \/ Nothing(p)
                              \/ ReadEnd(p) \/ spoolTick(p) \/ Start(p) \/ Show(p)
      PROVE  note' = note
  BY <1>6, ShowKeeps DEF SendCount, ReadNext, Unlink, Nothing, ReadEnd, spoolTick, Start
<1>7. UNCHANGED vars => note' = note
  BY DEF vars
<1> QED BY <1>1, <1>2, <1>3, <1>4, <1>5, <1>6, <1>7, SayKeeps DEF Next, Step

(* At first there is no note and nothing under way.                        *)
LEMMA NInit == Init => NInv
<1> SUFFICES ASSUME Init PROVE NInv
  OBVIOUS
<1>1. /\ DOMAIN note = {} /\ note \in Seq(Note)
      /\ \A a \in Apps : inbox[a] = {}
      /\ \A p \in Procs : sending[p] = NoSend /\ reading[p] = NoRead
  BY EmptySeq DEF Init
<1>2. NoRead \in Reads /\ NoSend \in Sends
  BY EmptySeq DEF NoRead, Reads, NoSend, Sends
<1>3. /\ NoSend.peers = <<>> /\ ~NoSend.write /\ NoSend.own
      /\ NoRead.todo = <<>> /\ NoRead.held = 0 /\ ~NoRead.gone /\ NoRead.old = {}
  BY DEF NoSend, NoRead
<1>4. DOMAIN <<>> = {}
  OBVIOUS
<1>5. TypeOK
  <2>1. recent \in [Procs -> Ages]
    <3>1. [t \in {} |-> 0] \in [{} -> Nat]
      OBVIOUS
    <3>2. [t \in {} |-> 0] \in Ages
      BY <3>1 DEF Ages
    <3> QED BY <3>2 DEF Init
  <2>2. sending \in [Procs -> Sends] /\ reading \in [Procs -> Reads]
    BY <1>2 DEF Init
  <2> QED BY <1>1, <2>1, <2>2 DEF Init, TypeOK
<1>6. Filed
  BY <1>1 DEF Init, Filed
<1>7. Reading
  BY <1>1, <1>3, <1>4 DEF Reading, ReaderOK
<1>8. Sending
  <2>1. IsInjective(<<>>)
    BY <1>4 DEF IsInjective
  <2> QED BY <1>1, <1>3, <1>4, <2>1 DEF Sending, SenderOK
<1>9. Recalled /\ NeverSentOn /\ OncePerWindow
  BY <1>1, <1>3, <1>4 DEF Recalled, NeverSentOn, OncePerWindow
<1>10. Counted
  <2>1. SUFFICES ASSUME NEW a \in Apps
                 PROVE  Cardinality(Live(a)) + Cardinality(Writers(a))
                          <= InboxMax - 1 + Cardinality(Senders(a))
    BY DEF Counted
  <2>2. Live(a) = {} /\ Writers(a) = {}
    BY <1>1, <1>3 DEF Live, Writers
  <2>3. Cardinality(Senders(a)) \in Nat
    BY <1>5, <1>6, <1>8, Countable
  <2> QED BY <2>2, <2>3, Constants, FS_EmptySet
<1> QED BY <1>5, <1>6, <1>7, <1>8, <1>9, <1>10 DEF NInv

(* Every step keeps all of it.                                             *)
LEMMA NStep == NInv /\ [Next]_vars => NInv'
BY TypeStep, FiledStep, ReadingStep, SendingStep, RecalledStep, CountedStep, OwnStep, OnceStep
   DEF NInv

(* The inductive invariant always holds.                                   *)
LEMMA NInvariant == Spec => []NInv
BY NInit, NStep, PTL DEF Spec

(* However many programs talk at once, whatever is read, shown or swept    *)
(* meanwhile, and whoever dies: nothing that was read is sent on, no text  *)
(* goes twice to a program within its window, and an inbox holds no more   *)
(* than its limit and one note for each other sender (spoolSend,           *)
(* spoolTick).                                                             *)
THEOREM NotesAlwaysFew == Spec => []NotesStayFew
<1>1. NInv => NotesStayFew
  BY CountedBounds DEF NInv, NotesStayFew
<1> QED BY <1>1, NInvariant, PTL

-----------------------------------------------------------------------------
(* Notices implements NotePost.                                            *)

Held(n) == \E p \in running : Holds(p, n)
Due(n) == n \in DOMAIN note /\ Expired(n)
Posted == <<[n \in Ids |-> Fate(n)], [n \in Ids |-> Due(n)], running>>
Same == DOMAIN note' = DOMAIN note /\ \A n \in DOMAIN note : note'[n].to = note[n].to

(* What one note's fate depends on.                                        *)
LEMMA FateKept ==
    ASSUME Same, NEW n,
           n \in DOMAIN note => (n \in inbox'[note[n].to] <=> n \in inbox[note[n].to]),
           n \in shown' <=> n \in shown, n \in DOMAIN note => (Held(n)' <=> Held(n)),
           n \in dropped' <=> n \in dropped
    PROVE  Fate(n)' = Fate(n)
BY DEF Same, Fate, Held

(* One note's fate changes.                                                *)
LEMMA Moved ==
    ASSUME NEW n \in Ids, NEW from, NEW to, Fate(n) = from, Fate(n)' = to,
           \A m \in Ids \ {n} : Fate(m)' = Fate(m)
    PROVE  Post!Goes(n, from, to)
BY DEF Post!Goes

(* Every step is one of NotePost's, or none.                               *)
LEMMA PostStep ==
    ASSUME TypeOK, Filed, Reading, Sending, [Next]_vars PROVE [Post!Next]_Posted
<1>1. /\ DOMAIN note = 1 .. Len(note) /\ Len(note) \in Nat /\ 0 \notin DOMAIN note
      /\ \A n \in DOMAIN note : note[n].to \in Apps
  BY NotesTyped DEF Note
<1>2. ASSUME Same, UNCHANGED <<inbox, shown, dropped>>,
             \A n \in DOMAIN note : Held(n)' <=> Held(n)
      PROVE  \A n \in Ids : Fate(n)' = Fate(n)
  BY <1>2, FateKept
<1>3. ASSUME Kept PROVE Same /\ \A n \in Ids : Due(n)' = Due(n)
  BY <1>3 DEF Kept, Same, Due, Expired
<1>4. note' = note => Kept
  BY DEF TypeOK, Kept
<1>5. ASSUME \A n \in Ids : Fate(n)' = Fate(n), \A n \in Ids : Due(n)' = Due(n), running' = running
      PROVE  [Post!Next]_Posted
  BY <1>5 DEF Posted
<1>6. ASSUME NEW p \in Procs, \A q \in Procs \ {p} : reading'[q] = reading[q], running' = running,
             NEW n, Holds(p, n)' <=> Holds(p, n)
      PROVE  Held(n)' <=> Held(n)
  BY <1>6 DEF Held, Holds, TypeOK
\* The steps that NotePost does not see
<1>7. ASSUME NEW p \in Procs, NEW text \in Texts, Say(p, text) PROVE [Post!Next]_Posted
  <2>1. Kept /\ UNCHANGED <<running, inbox, reading, shown, dropped>>
    BY <1>7, SayKeeps DEF Say
  <2>2. \A n \in DOMAIN note : Held(n)' <=> Held(n)
    BY <2>1 DEF Held, Holds
  <2> QED BY <1>2, <1>3, <1>5, <2>1, <2>2
<1>8. ASSUME NEW p \in Procs, spoolTick(p) \/ ReadNext(p) \/ ReadEnd(p)
      PROVE  [Post!Next]_Posted
  <2>1. UNCHANGED <<running, note, inbox, shown, dropped>>
        /\ \A q \in Procs \ {p} : reading'[q] = reading[q]
    BY <1>8 DEF spoolTick, ReadNext, ReadEnd, TypeOK
  <2>2. ASSUME NEW n \in DOMAIN note, n \notin inbox[note[n].to]
        PROVE  Held(n)' <=> Held(n)
    <3>1. NoRead.held = 0
      BY DEF NoRead
    <3>2. CASE ReadNext(p)
      <4> DEFINE r == reading[p]
      <4>1. /\ r.todo \in Seq(Nat) /\ r.todo # <<>> /\ r.held = 0 /\ r \in Reads
            /\ reading' = [reading EXCEPT ![p] = [r EXCEPT !.todo = Tail(r.todo),
                  !.held = Head(r.todo), !.gone = Head(r.todo) \notin inbox[App[p]]]]
        BY <3>2 DEF ReadNext, TypeOK, Reads
      <4>2. /\ reading'[p].held = Head(r.todo)
            /\ reading'[p].gone = (Head(r.todo) \notin inbox[App[p]])
        BY <4>1 DEF TypeOK, Reads
      <4>3. 1 \in DOMAIN r.todo /\ Head(r.todo) = r.todo[1]
        BY <4>1
      <4>4. note[Head(r.todo)].to = App[p]
        BY <4>3 DEF Reading, ReaderOK, Ours
      <4>5. ~Holds(p, n) /\ ~Holds(p, n)'
        BY <1>1, <2>2, <4>1, <4>2, <4>4 DEF Holds
      <4> QED BY <1>6, <2>1, <4>5
    <3>3. CASE spoolTick(p)
      <4>1. reading[p].held = 0
        BY <3>1, <3>3 DEF spoolTick, Idle
      <4>2. reading'[p].held = 0
        <5>1. PICK names :
                reading' = [reading EXCEPT ![p] = [NoRead EXCEPT !.todo = names,
                                      !.old = {m \in inbox[App[p]] : Expired(m)}]]
          BY <3>3 DEF spoolTick
        <5> QED BY <5>1 DEF NoRead, TypeOK
      <4>3. ~Holds(p, n) /\ ~Holds(p, n)'
        BY <1>1, <2>2, <4>1, <4>2 DEF Holds
      <4> QED BY <1>6, <2>1, <4>3
    <3>4. CASE ReadEnd(p)
      <4>1. reading[p].held = 0 /\ reading'[p].held = 0
        BY <3>1, <3>4 DEF ReadEnd, TypeOK
      <4>2. ~Holds(p, n) /\ ~Holds(p, n)'
        BY <1>1, <2>2, <4>1 DEF Holds
      <4> QED BY <1>6, <2>1, <4>2
    <3> QED BY <1>8, <3>2, <3>3, <3>4
  <2>3. \A n \in Ids : Fate(n)' = Fate(n)
    BY <2>1, <2>2 DEF Fate, Held
  <2> QED BY <1>3, <1>4, <1>5, <2>1, <2>3
\* The others
<1>9. ASSUME NEW p \in Procs, SendCount(p) PROVE [Post!Next]_Posted
  <2>1. PICK a \in Apps : a = Head(sending[p].peers)
    BY <1>9, PeersLeft DEF SendCount
  <2>2. PICK old : old = {n \in inbox[a] : Expired(n)}
    OBVIOUS
  <2>3. /\ UNCHANGED <<running, note, reading, shown>>
        /\ inbox' = [inbox EXCEPT ![a] = @ \ old]
        /\ dropped' = dropped \cup {n \in old : \A q \in running : ~Holds(q, n)}
    BY <1>9, <2>1, <2>2 DEF SendCount
  <2>4. \A b \in Apps : inbox'[b] = IF b = a THEN inbox[b] \ old ELSE inbox[b]
    BY <2>3 DEF TypeOK
  <2>5. \A n \in old : /\ n \in inbox[a] /\ n \in DOMAIN note /\ note[n].to = a
                       /\ n \notin shown /\ Expired(n)
    BY <2>2 DEF Filed
  <2>6. \A n : (Held(n)' <=> Held(n)) /\ (Held(n) <=> ~\A q \in running : ~Holds(q, n))
    BY <2>3 DEF Held, Holds
  <2>7. \A n \in Ids \ old : Fate(n)' = Fate(n)
    BY <1>1, <1>3, <1>4, <2>3, <2>4, <2>5, <2>6, FateKept
  <2>8. \A n \in old : /\ Fate(n) = "waiting" /\ Due(n)
                       /\ Fate(n)' = IF Held(n) THEN "taken" ELSE "expired"
    BY <2>3, <2>4, <2>5, <2>6 DEF Fate, Due, Held
  <2>9. \A n \in Ids : Due(n)' = Due(n)
    BY <1>3, <1>4, <2>3
  <2> DEFINE S == {n \in Ids \cap old : ~Held(n)}
             T == {n \in Ids \cap old : Held(n)}
  <2>10. Post!Expire(S, T)
    BY <2>3, <2>7, <2>8, <2>9 DEF Post!Expire, Due
  <2> QED BY <2>10 DEF Post!Next
<1>10. ASSUME NEW p \in Procs, SendWrite(p) PROVE [Post!Next]_Posted
  <2>1. sending[p].peers # <<>>
    BY <1>10 DEF SendWrite, Sending, SenderOK
  <2>2. PICK a \in Apps : a = Head(sending[p].peers)
    BY <2>1, PeersLeft
  <2>3. PICK m : m = [pid |-> p, to |-> a, text |-> sending[p].text,
                      own |-> sending[p].own, left |-> Ttl, age |-> 0, known |-> TRUE]
    OBVIOUS
  <2>4. PICK k : k = Len(note) + 1
    OBVIOUS
  <2>5. /\ UNCHANGED <<running, reading, shown, dropped>> /\ note' = Append(note, m)
        /\ inbox' = [inbox EXCEPT ![a] = @ \cup {k}] /\ m.to = a /\ m.left = Ttl
    BY <1>10, <2>2, <2>3, <2>4 DEF SendWrite
  <2>6. /\ DOMAIN note' = DOMAIN note \cup {k} /\ note'[k] = m /\ k \notin DOMAIN note
        /\ \A n \in DOMAIN note : note'[n] = note[n]
    BY <1>1, <2>4, <2>5 DEF TypeOK
  <2>7. \A b \in Apps : inbox'[b] = IF b = a THEN inbox[b] \cup {k} ELSE inbox[b]
    BY <2>5 DEF TypeOK
  <2>8. Fate(k) = "none" /\ Fate(k)' = "waiting" /\ Due(k)' = Due(k)
    <3>1. k \in DOMAIN note' /\ note'[k].to = a /\ note'[k].left # 0 /\ k \in inbox'[a]
      <4>1. Ttl # 0
        BY Constants
      <4>2. k \in DOMAIN note' /\ note'[k].to = a /\ note'[k].left = Ttl
        BY <2>5, <2>6
      <4> QED BY <2>7, <4>1, <4>2
    <3> QED BY <2>6, <3>1 DEF Fate, Due, Expired
  <2>9. \A n : Held(n)' <=> Held(n)
    BY <2>5 DEF Held, Holds
  <2>10. \A n \in Ids \ {k} : Fate(n)' = Fate(n) /\ Due(n)' = Due(n)
    <3>1. SUFFICES ASSUME NEW n \in Ids \ {k}
                   PROVE  Fate(n)' = Fate(n) /\ Due(n)' = Due(n)
      OBVIOUS
    <3>2. CASE n \in DOMAIN note
      <4>1. /\ n \in DOMAIN note' /\ note'[n] = note[n]
            /\ n \in inbox'[note'[n].to] <=> n \in inbox[note[n].to]
        BY <1>1, <2>6, <2>7, <3>1, <3>2
      <4> QED BY <2>5, <2>9, <3>2, <4>1 DEF Fate, Held, Due, Expired
    <3>3. CASE n \notin DOMAIN note
      BY <2>6, <3>1, <3>3 DEF Fate, Due
    <3> QED BY <3>2, <3>3
  <2>11. CASE k \in Ids
    <3>1. Post!Goes(k, "none", "waiting")
      BY <2>8, <2>10, <2>11, Moved
    <3>2. \A n \in Ids : Due(n)' = Due(n)
      BY <2>8, <2>10
    <3>3. Post!Write(k)
      BY <2>5, <3>1, <3>2 DEF Post!Write, Due
    <3> QED BY <2>11, <3>3 DEF Post!Next
  <2>12. CASE k \notin Ids
    BY <1>5, <2>5, <2>10, <2>12
  <2> QED BY <2>11, <2>12
<1>11. ASSUME NEW p \in Procs, Unlink(p) PROVE [Post!Next]_Posted
  <2>1. PICK n : n = reading[p].held
    OBVIOUS
  <2>2. /\ UNCHANGED <<running, note, shown>> /\ n \in inbox[App[p]] /\ App[p] \in Apps
        /\ inbox' = [inbox EXCEPT ![App[p]] = @ \ {n}]
        /\ \/ /\ n \in reading[p].old /\ dropped' = dropped \cup {n}
              /\ reading' = PassOver(p)
           \/ UNCHANGED <<dropped, reading>>
    BY <1>11, <2>1, Constants DEF Unlink
  <2>3. n \in DOMAIN note /\ note[n].to = App[p] /\ n \notin shown /\ n # 0
    BY <1>1, <2>2 DEF Filed
  <2>4. p \in running /\ ~reading[p].gone /\ (n \in reading[p].old => Expired(n))
    <3>1. reading[p] # NoRead
      BY <2>1, <2>3 DEF NoRead
    <3> QED BY <2>1, <2>2, <3>1 DEF Reading, ReaderOK
  <2>5. \A b \in Apps : inbox'[b] = IF b = App[p] THEN inbox[b] \ {n} ELSE inbox[b]
    BY <2>2 DEF TypeOK
  <2>6. Fate(n) = "waiting" /\ Held(n)
    BY <2>1, <2>2, <2>3, <2>4 DEF Fate, Held, Holds
  <2>7. reading' = PassOver(p) =>
           reading'[p].held = 0 /\ \A q \in Procs \ {p} : reading'[q] = reading[q]
    BY DEF PassOver, TypeOK, Reads
  <2>8. ASSUME NEW m \in DOMAIN note, m # n PROVE Held(m)' <=> Held(m)
    <3>1. CASE reading' = PassOver(p)
      <4>1. ~Holds(p, m) /\ ~Holds(p, m)'
        BY <1>1, <2>1, <2>7, <2>8, <3>1 DEF Holds
      <4> QED BY <1>6, <2>2, <2>7, <3>1, <4>1
    <3>2. CASE reading' = reading
      BY <2>2, <3>2 DEF Held, Holds
    <3> QED BY <2>2, <3>1, <3>2
  <2>9. \A m \in Ids \ {n} : Fate(m)' = Fate(m)
    BY <1>1, <1>3, <1>4, <2>2, <2>5, <2>8, FateKept
  <2>10. \A m \in Ids : Due(m)' = Due(m)
    BY <1>3, <1>4, <2>2
  <2>11. \/ Fate(n)' = "taken"
         \/ Fate(n)' = "expired" /\ Due(n)
    <3>1. CASE n \in reading[p].old /\ dropped' = dropped \cup {n}
      BY <2>2, <2>3, <2>4, <2>5, <3>1 DEF Fate, Due
    <3>2. CASE UNCHANGED <<dropped, reading>>
      <4>1. Held(n)'
        BY <2>2, <2>6, <3>2 DEF Held, Holds
      <4> QED BY <2>2, <2>3, <2>5, <4>1 DEF Fate, Held
    <3> QED BY <2>2, <3>1, <3>2
  <2>12. CASE n \in Ids /\ Fate(n)' = "taken"
    <3>1. Post!Goes(n, "waiting", "taken")
      BY <2>6, <2>9, <2>12, Moved
    <3>2. Post!Take(n)
      BY <2>2, <2>10, <3>1 DEF Post!Take, Due
    <3> QED BY <2>12, <3>2 DEF Post!Next
  <2>13. CASE n \in Ids /\ Fate(n)' = "expired" /\ Due(n)
    <3>1. Post!Expire({n}, {})
      BY <2>2, <2>6, <2>9, <2>10, <2>13 DEF Post!Expire, Due
    <3> QED BY <2>13, <3>1 DEF Post!Next
  <2>14. CASE n \notin Ids
    BY <1>5, <2>2, <2>9, <2>10, <2>14
  <2> QED BY <2>11, <2>12, <2>13, <2>14
<1>12. ASSUME NEW p \in Procs, Nothing(p) PROVE [Post!Next]_Posted
  <2>1. PICK n : n = reading[p].held
    OBVIOUS
  <2>2. /\ UNCHANGED <<running, note, inbox, shown>> /\ n # 0 /\ n \notin inbox[App[p]]
        /\ reading' = PassOver(p)
        /\ \/ reading[p].gone /\ dropped' = dropped
           \/ ~reading[p].gone /\ n \in reading[p].old /\ dropped' = dropped \cup {n}
    BY <1>12, <2>1 DEF Nothing
  <2>3. p \in running /\ n \in DOMAIN note /\ note[n].to = App[p]
        /\ (n \in reading[p].old => Expired(n))
    <3>1. reading[p] # NoRead
      BY <2>1, <2>2 DEF NoRead
    <3> QED BY <2>1, <2>2, <3>1 DEF Reading, ReaderOK, Ours
  <2>4. reading'[p].held = 0 /\ \A q \in Procs \ {p} : reading'[q] = reading[q]
    BY <2>2 DEF PassOver, TypeOK, Reads
  <2>5. \A m \in DOMAIN note : ~Holds(p, m)'
    BY <1>1, <2>4 DEF Holds
  <2>6. \A m \in Ids : Due(m)' = Due(m)
    BY <1>3, <1>4, <2>2
  <2>7. CASE reading[p].gone /\ dropped' = dropped
    <3>1. \A m \in DOMAIN note : ~Holds(p, m)
      BY <2>7 DEF Holds
    <3>2. \A m \in DOMAIN note : Held(m)' <=> Held(m)
      BY <1>6, <2>2, <2>4, <2>5, <3>1
    <3> QED BY <1>2, <1>3, <1>4, <1>5, <2>2, <2>6, <2>7, <3>2
  <2>8. CASE ~reading[p].gone /\ n \in reading[p].old /\ dropped' = dropped \cup {n}
    <3>1. \A m \in DOMAIN note \ {n} : Held(m)' <=> Held(m)
      <4>1. \A m \in DOMAIN note \ {n} : ~Holds(p, m)
        BY <2>1 DEF Holds
      <4> QED BY <1>6, <2>2, <2>4, <2>5, <4>1
    <3>2. \A m \in Ids \ {n} : Fate(m)' = Fate(m)
      BY <1>3, <1>4, <2>2, <2>8, <3>1, FateKept
    <3>3. Held(n) /\ Due(n)
      BY <2>1, <2>3, <2>8 DEF Held, Holds, Due
    <3>4. \/ Fate(n)' = Fate(n)
          \/ Fate(n) = "taken" /\ Fate(n)' = "expired"
      <4>1. Fate(n) = IF n \in shown THEN "shown" ELSE "taken"
        BY <2>2, <2>3, <3>3 DEF Fate, Held
      <4>2. Fate(n)' = IF n \in shown THEN "shown" ELSE IF Held(n)' THEN "taken" ELSE "expired"
        BY <2>2, <2>3, <2>8 DEF Fate, Held
      <4> QED BY <4>1, <4>2
    <3>5. CASE n \notin Ids \/ Fate(n)' = Fate(n)
      BY <1>5, <2>2, <2>6, <3>2, <3>5
    <3>6. CASE n \in Ids /\ Fate(n) = "taken" /\ Fate(n)' = "expired"
      <4>1. Post!Goes(n, "taken", "expired")
        BY <3>2, <3>6, Moved
      <4>2. Post!Drop(n)
        BY <2>2, <2>6, <3>3, <3>6, <4>1 DEF Post!Drop, Due
      <4> QED BY <3>6, <4>2 DEF Post!Next
    <3> QED BY <3>4, <3>5, <3>6
  <2> QED BY <2>2, <2>7, <2>8
<1>13. ASSUME NEW p \in Procs, Show(p) PROVE [Post!Next]_Posted
  <2>1. PICK n : n = reading[p].held
    OBVIOUS
  <2>2. /\ UNCHANGED <<running, note, inbox, dropped>> /\ Holds(p, n) /\ n # 0
        /\ n \notin inbox[App[p]] /\ shown' = shown \cup {n}
        /\ reading' = [reading EXCEPT ![p] = [reading[p] EXCEPT !.held = 0,
                                                     !.count = reading[p].count + 1]]
    BY <1>13, <2>1, ShowKeeps DEF Show
  <2>3. p \in running /\ n \in DOMAIN note /\ note[n].to = App[p]
    <3>1. reading[p] # NoRead
      BY <2>1, <2>2 DEF NoRead
    <3> QED BY <2>1, <2>2, <3>1 DEF Reading, ReaderOK, Ours
  <2>4. reading'[p].held = 0 /\ \A q \in Procs \ {p} : reading'[q] = reading[q]
    BY <2>2 DEF TypeOK, Reads
  <2>5. \A m \in DOMAIN note \ {n} : Held(m)' <=> Held(m)
    <3>1. \A m \in DOMAIN note \ {n} : ~Holds(p, m) /\ ~Holds(p, m)'
      BY <1>1, <2>1, <2>4 DEF Holds
    <3> QED BY <1>6, <2>2, <2>4, <3>1
  <2>6. \A m \in Ids \ {n} : Fate(m)' = Fate(m)
    BY <1>3, <1>4, <2>2, <2>5, FateKept
  <2>7. \A m \in Ids : Due(m)' = Due(m)
    BY <1>3, <1>4, <2>2
  <2>8. Fate(n) \in {"taken", "shown"} /\ Fate(n)' = "shown"
    <3>1. Held(n)
      BY <2>2, <2>3 DEF Held
    <3> QED BY <2>2, <2>3, <3>1 DEF Fate, Held
  <2>9. CASE n \notin Ids \/ Fate(n) = "shown"
    BY <1>5, <2>2, <2>6, <2>7, <2>8, <2>9
  <2>10. CASE n \in Ids /\ Fate(n) = "taken"
    <3>1. Post!Goes(n, "taken", "shown")
      BY <2>6, <2>8, <2>10, Moved
    <3>2. Post!Show(n)
      BY <2>2, <2>7, <3>1 DEF Post!Show, Due
    <3> QED BY <2>10, <3>2 DEF Post!Next
  <2> QED BY <2>8, <2>9, <2>10
<1>14. CASE Tick
  <2>1. Same /\ \A n \in DOMAIN note : note'[n].left = Sooner(note[n].left)
    BY <1>14, Ticked DEF TypeOK, Same
  <2>2. \A n \in Ids : Fate(n)' = Fate(n)
    <3>1. \A n \in DOMAIN note : Held(n)' <=> Held(n)
      BY <1>14 DEF Tick, Held, Holds
    <3> QED BY <1>2, <1>14, <2>1, <3>1 DEF Tick
  <2>3. \A n \in Ids : Due(n) => Due(n)'
    BY <2>1 DEF Same, Due, Expired, Sooner
  <2>4. Post!Time
    BY <1>14, <2>2, <2>3 DEF Post!Time, Tick, Due
  <2> QED BY <2>4 DEF Post!Next
<1>15. ASSUME NEW p \in Procs, Crash(p) PROVE [Post!Next]_Posted
  <2>1. /\ p \in running /\ running' = running \ {p} /\ UNCHANGED <<inbox, shown, dropped>>
        /\ \A q \in Procs \ {p} : reading'[q] = reading[q]
    BY <1>15 DEF Crash, TypeOK
  <2>2. Kept
    BY <1>15, Forgotten DEF Crash, TypeOK
  <2>3. Same /\ \A n \in Ids : Due(n)' = Due(n)
    BY <1>3, <2>2
  <2>4. \A n : Held(n)' => Held(n)
    BY <2>1 DEF Held, Holds, TypeOK
  <2>5. PICK S : S = {n \in Ids : Fate(n) = "taken" /\ ~Held(n)'}
    OBVIOUS
  <2>6. PICK D : D = {n \in S : n \in dropped}
    OBVIOUS
  <2>7. \A n \in D : Due(n)
    BY <2>6 DEF Due, Filed
  <2>8. ASSUME NEW n \in Ids
        PROVE  Fate(n)' = IF n \in D THEN "expired"
                          ELSE IF n \in S THEN "lost" ELSE Fate(n)
    <3>1. CASE n \in S
      BY <2>1, <2>3, <2>5, <2>6, <3>1 DEF Fate, Held, Same
    <3>2. CASE n \notin S
      BY <2>1, <2>3, <2>4, <2>5, <2>6, <2>8, <3>2 DEF Fate, Held, Same
    <3> QED BY <3>1, <3>2
  <2>9. /\ S \in SUBSET {n \in Ids : [m \in Ids |-> Fate(m)][n] = "taken"}
        /\ D \in SUBSET {n \in S : [m \in Ids |-> m \in DOMAIN note /\ Expired(m)][n]}
    BY <2>5, <2>6, <2>7 DEF Due
  <2>10. Post!Crash(p)
    <3>1. [n \in Ids |-> Fate(n)]' =
            [n \in Ids |-> IF n \in D THEN "expired" ELSE IF n \in S THEN "lost"
                          ELSE [m \in Ids |-> Fate(m)][n]]
      BY <2>8
    <3>2. UNCHANGED [n \in Ids |-> n \in DOMAIN note /\ Expired(n)]
      BY <2>3 DEF Due
    <3> QED BY <2>1, <2>9, <3>1, <3>2 DEF Post!Crash
  <2> QED BY <2>10 DEF Post!Next
<1>16. ASSUME NEW p \in Procs, Start(p) PROVE [Post!Next]_Posted
  <2>1. /\ running' = running \cup {p} /\ p \notin running
        /\ UNCHANGED <<note, inbox, reading, shown, dropped>>
    BY <1>16 DEF Start
  <2>2. reading[p] = NoRead /\ NoRead.held = 0
    BY <2>1 DEF Reading, ReaderOK, NoRead
  <2>3. \A n \in DOMAIN note : Held(n)' <=> Held(n)
    BY <1>1, <2>1, <2>2 DEF Held, Holds
  <2>4. \A n \in Ids : Fate(n)' = Fate(n) /\ Due(n)' = Due(n)
    BY <1>2, <1>3, <1>4, <2>1, <2>3
  <2>5. Post!Start(p)
    BY <2>1, <2>4 DEF Post!Start, Due
  <2> QED BY <2>5 DEF Post!Next
<1>17. CASE UNCHANGED vars
  <2>1. \A n \in DOMAIN note : Held(n)' <=> Held(n)
    BY <1>17 DEF vars, Held, Holds
  <2> QED BY <1>2, <1>3, <1>4, <1>5, <1>17, <2>1 DEF vars
<1> QED BY <1>7, <1>8, <1>9, <1>10, <1>11, <1>12, <1>13, <1>14, <1>15, <1>16, <1>17
        DEF Next, Step

(* At first no note is written.                                            *)
LEMMA PostInit == Init => Post!Init
<1> SUFFICES ASSUME Init PROVE Post!Init
  OBVIOUS
<1>1. note = <<>> /\ DOMAIN <<>> = {} /\ running = Procs
  BY DEF Init
<1>2. \A n \in Ids : Fate(n) = "none" /\ ~Due(n)
  BY <1>1 DEF Fate, Due
<1> QED BY <1>1, <1>2 DEF Post!Init, Due

(* Whatever is written waits until it is taken or its time is up, and what *)
(* is taken is shown: nothing vanishes but by expiry or with the process   *)
(* that had taken it (spoolSend's sweep, spoolTick).                       *)
THEOREM NotesNeverVanish == Spec => NothingVanishes
<1>1. NInv /\ [Next]_vars => [Post!Next]_Posted
  BY PostStep DEF NInv
<1>2. NInv /\ [Next]_vars =>
        [Post!Next]_<<[n \in Ids |-> Fate(n)],
                      [n \in Ids |-> n \in DOMAIN note /\ Expired(n)], running>>
  BY <1>1 DEF Posted, Due
<1> QED BY <1>2, PostInit, NInvariant, PTL DEF Spec, NothingVanishes, Post!Spec
=============================================================================
