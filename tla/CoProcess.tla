----------------------------- MODULE CoProcess -----------------------------
(***************************************************************************)
(* tvcommon's CoProcess (tvcommon/src/coprocess.cpp): one helper program   *)
(* kept alive in "serve" mode and asked over a pair of pipes, as tvmail,   *)
(* tvchat and tvcal do.  A call writes one request line and reads one      *)
(* framed reply; a child that has died, or says nothing for 8 seconds, is  *)
(* stopped and replaced and the request is asked once more; after three    *)
(* replacements without a good reply the co-process is given up for good.  *)
(*                                                                         *)
(* The client is one thread, the child another process: what interleaves   *)
(* is where the child is (booting, working, wedged, dying) when the client *)
(* writes, reads, runs out of patience or waits for it to exit.  The child *)
(* is cmd_serve() of the three backends: banner, then one reply for each   *)
(* request in order, and exit at end of input.                             *)
(***************************************************************************)
EXTENDS Integers, Sequences, SequencesExt

CONSTANTS
    MaxCalls,    \* bound: calls made
    Budget,      \* restarts allowed in a row (3 in the code)
    MayWedge     \* may the child hang in a request for ever?

ASSUME CoConstantsOK ==
    /\ MaxCalls \in Nat \ {0}
    /\ Budget \in Nat \ {0}
    /\ MayWedge \in BOOLEAN

VARIABLES
    pc,          \* what the client is in: nothing, start()'s banner, a write,
                 \* a read, or stop()'s waitpid
    retrying,    \* call() is at its second attempt
    up, permFail, restarts, starts,      \* CoProcess's own fields
    calls,       \* history: calls made; a request is its number
    answer,      \* history: what the last call that succeeded returned
    child,       \* the child process
    inPipe,      \* requests written and not read by the child
    outPipe,     \* frames the child has written and nobody has read
    work,        \* the request the child is at
    done,        \* history: how often each request was carried out
    stranded,    \* history: a call failed and left this child running
    losses       \* history: first attempts failed since the last good reply

coVars == <<pc, retrying, up, permFail, restarts, starts, calls, answer, child,
          inPipe, outPipe, work, done, stranded, losses>>

clientVars == <<pc, retrying, up, permFail, restarts, starts, calls, answer,
                stranded, losses>>
childVars == <<child, inPipe, outPipe, work, done>>

Ready == 0                         \* the banner, in outPipe
Requests == 1 .. MaxCalls
None == -1                         \* no answer yet; no work
Alive == {"booting", "waiting", "working", "wedged"}

CoInit ==
    /\ pc = "idle" /\ retrying = FALSE
    /\ up = FALSE /\ permFail = FALSE /\ restarts = 0 /\ starts = 0
    /\ calls = 0 /\ answer = None
    /\ child = "none" /\ inPipe = <<>> /\ outPipe = <<>> /\ work = None
    /\ done = [r \in Requests |-> 0] /\ stranded = FALSE /\ losses = 0

-----------------------------------------------------------------------------
(* The client.                                                             *)

\* fork and exec, over new pipes
Fork ==
    /\ pc' = "starting"
    /\ child' = "booting"
    /\ inPipe' = <<>> /\ outPipe' = <<>> /\ work' = None
    /\ stranded' = FALSE

\* call() returns false, and leaves the child it has as it is
CallFails ==
    /\ pc' = "idle"
    /\ stranded' = TRUE

\* stop() as restart() and a failed start() call it: the pipes are closed,
\* then the child is waited for
BeginStop == pc' = "stopping"

\* A request is asked
Call ==
    /\ pc = "idle" /\ ~permFail /\ calls < MaxCalls
    /\ calls' = calls + 1
    /\ retrying' = FALSE
    /\ \/ /\ up
          /\ pc' = "writing"
          /\ UNCHANGED <<childVars, stranded>>
          /\ UNCHANGED permFail
       \/ /\ ~up
          /\ Fork
          /\ UNCHANGED <<done, permFail>>
       \/ /\ ~up                       \* no pipe or no process to be had
          /\ permFail' = TRUE
          /\ UNCHANGED <<pc, childVars, stranded>>
    /\ UNCHANGED <<up, restarts, starts, answer, losses>>

\* start() reads the banner
Started ==
    /\ pc = "starting" /\ outPipe # <<>> /\ Head(outPipe) = Ready
    /\ outPipe' = Tail(outPipe)
    /\ up' = TRUE
    /\ starts' = starts + 1
    /\ pc' = "writing"
    /\ UNCHANGED <<retrying, permFail, restarts, calls, answer, child, inPipe,
                   work, done, stranded, losses>>

\* ... or nothing comes: it died, or 8 seconds are over.  giveUp().
StartFailedLeaves ==            \* mutant: giveUp() without stop()
    /\ pc = "starting" /\ outPipe = <<>>
    /\ permFail' = TRUE
    /\ pc' = "idle"
    /\ UNCHANGED <<retrying, up, restarts, starts, calls, answer, childVars,
                   stranded, losses>>
StartFailed ==
    /\ pc = "starting" /\ outPipe = <<>>
    /\ permFail' = TRUE
    /\ BeginStop
    /\ UNCHANGED <<retrying, up, restarts, starts, calls, answer, childVars,
                   stranded, losses>>

\* call()'s first attempt failed: restart(), which begins with stop().  The
\* second attempt's failure is the call's.
RetryForEver ==                 \* mutant: it tries again and again
    /\ BeginStop
    /\ retrying' = TRUE
    /\ losses' = losses + 1
    /\ UNCHANGED stranded
AttemptFailed ==
    \/ /\ ~retrying
       /\ BeginStop
       /\ retrying' = TRUE
       /\ losses' = losses + 1
       /\ UNCHANGED stranded
    \/ /\ retrying
       /\ CallFails
       /\ UNCHANGED <<retrying, losses>>

\* writeLine(): a child that is gone gives EPIPE
Write ==
    /\ pc = "writing"
    /\ \/ /\ child \in Alive
          /\ inPipe' = Append(inPipe, calls)
          /\ pc' = "reading"
          /\ UNCHANGED <<retrying, stranded, losses>>
       \/ /\ child = "exited"
          /\ AttemptFailed
          /\ UNCHANGED inPipe
    /\ UNCHANGED <<up, permFail, restarts, starts, calls, answer, child,
                   outPipe, work, done>>

\* readFrame() finds a frame: the call is over, the budget whole again
ReadKeepsBudget ==              \* mutant: hiccups add up over the session
    /\ pc = "reading" /\ outPipe # <<>>
    /\ answer' = Head(outPipe)
    /\ outPipe' = Tail(outPipe)
    /\ losses' = 0
    /\ pc' = "idle"
    /\ UNCHANGED <<retrying, up, permFail, restarts, starts, calls, child, inPipe,
                   work, done, stranded>>
Read ==
    /\ pc = "reading" /\ outPipe # <<>>
    /\ answer' = Head(outPipe)
    /\ outPipe' = Tail(outPipe)
    /\ restarts' = 0 /\ losses' = 0
    /\ pc' = "idle"
    /\ UNCHANGED <<retrying, up, permFail, starts, calls, child, inPipe, work,
                   done, stranded>>

\* readFrame() finds none: end of file, or 8 seconds without a byte
TimeoutReturns ==               \* mutant: a timeout just fails the call
    /\ pc = "reading" /\ outPipe = <<>>
    /\ pc' = "idle"
    /\ UNCHANGED <<retrying, up, permFail, restarts, starts, calls, answer,
                   childVars, stranded, losses>>
ReadFailed ==
    /\ pc = "reading" /\ outPipe = <<>>
    /\ AttemptFailed
    /\ UNCHANGED <<up, permFail, restarts, starts, calls, answer, childVars>>

\* waitpid returns: stop() is over.  restart() goes on to start() unless
\* the budget is spent; a start that failed has given up already.
StoppedUncounted ==             \* mutant: the budget is counted, not kept
    /\ pc = "stopping" /\ child = "exited"
    /\ up' = FALSE
    /\ restarts' = restarts + 1
    /\ Fork
    /\ UNCHANGED <<permFail, retrying, starts, calls, answer, done, losses>>
Stopped ==
    /\ pc = "stopping" /\ child = "exited"
    /\ up' = FALSE
    /\ \/ /\ ~permFail /\ restarts < Budget
          /\ restarts' = restarts + 1
          /\ Fork
          /\ UNCHANGED permFail
       \/ /\ permFail' = TRUE              \* spent, or no process to be had
          /\ restarts' = IF permFail THEN restarts ELSE restarts + 1
          /\ child' = "none"
          /\ inPipe' = <<>> /\ outPipe' = <<>> /\ work' = None
          /\ pc' = "idle" /\ stranded' = FALSE
    /\ UNCHANGED <<retrying, starts, calls, answer, done, losses>>

-----------------------------------------------------------------------------
(* The child.                                                              *)

Boot ==
    /\ child = "booting"
    /\ child' = "waiting"
    /\ outPipe' = Append(outPipe, Ready)
    /\ UNCHANGED <<clientVars, inPipe, work, done>>

Take ==
    /\ child = "waiting" /\ inPipe # <<>>
    /\ child' = "working"
    /\ work' = Head(inPipe)
    /\ inPipe' = Tail(inPipe)
    /\ UNCHANGED <<clientVars, outPipe, done>>

\* The request is carried out and answered; with the client's end closed
\* the answer is a broken pipe, which ends tvmail's and tvcal's child at
\* once and tvchat's when it comes to the end of its input
Finish ==
    /\ child = "working"
    /\ done' = [done EXCEPT ![work] = @ + 1]
    /\ work' = None
    /\ \/ /\ pc # "stopping"
          /\ child' = "waiting"
          /\ outPipe' = Append(outPipe, work)
       \/ /\ pc = "stopping"
          /\ child' \in {"waiting", "exited"}
          /\ UNCHANGED outPipe
    /\ UNCHANGED <<clientVars, inPipe>>

\* End of input: it leaves
LeaveBooting ==                 \* mutant: on_stdin() returns and the loop goes on
    /\ child = "booting" /\ inPipe = <<>> /\ pc = "stopping"
    /\ child' = "exited"
    /\ UNCHANGED <<clientVars, inPipe, outPipe, work, done>>
Leave ==
    /\ child \in {"booting", "waiting"} /\ inPipe = <<>> /\ pc = "stopping"
    /\ child' = "exited"
    /\ UNCHANGED <<clientVars, inPipe, outPipe, work, done>>

\* It dies of its own accord, before or after what it was at took effect
Die ==
    /\ child \in Alive
    /\ child' = "exited"
    /\ \/ UNCHANGED done
       \/ child = "working" /\ done' = [done EXCEPT ![work] = @ + 1]
    /\ UNCHANGED <<clientVars, inPipe, outPipe, work>>

\* It hangs in a request (a dead NFS server, a lock nobody releases)
Wedge ==
    /\ MayWedge /\ child = "working"
    /\ child' = "wedged"
    /\ UNCHANGED <<clientVars, inPipe, outPipe, work, done>>

Client == Call \/ Started \/ StartFailed \/ Write \/ Read \/ ReadFailed \/ Stopped
Child == Boot \/ Take \/ Finish \/ Leave \/ Die \/ Wedge

CoNext == Client \/ Child
CoSpec == CoInit /\ [][CoNext]_coVars

(* The client is an ordinary thread; a child that is neither dead nor      *)
(* wedged goes on with what it is at.                                      *)
CoFairness ==
    /\ WF_coVars(Started \/ StartFailed \/ Write \/ Read \/ ReadFailed \/ Stopped)
    /\ WF_coVars(Boot \/ Take \/ Finish \/ Leave)
FairSpec == CoSpec /\ CoFairness

-----------------------------------------------------------------------------
(* Properties.                                                             *)

\* The types, in three parts: flags, pipes (requests and the banner), and the
\* rest; only a co-process that is given up has met one restart too many.
FlagsOK ==
    /\ retrying \in BOOLEAN /\ up \in BOOLEAN /\ permFail \in BOOLEAN
    /\ stranded \in BOOLEAN

PipesOK ==
    inPipe \in Seq(Requests) /\ outPipe \in Seq(Requests \cup {Ready})

ControlOK ==
    /\ pc \in {"idle", "starting", "writing", "reading", "stopping"}
    /\ restarts \in 0 .. Budget + 1 /\ (~permFail => restarts <= Budget)
    /\ starts \in Nat /\ losses \in Nat
    /\ calls \in 0 .. MaxCalls /\ answer \in Requests \cup {None, Ready}
    /\ child \in Alive \cup {"none", "exited"} /\ work \in Requests \cup {None}
    /\ done \in [Requests -> Nat]

CoTypeOK == FlagsOK /\ PipesOK /\ ControlOK

\* The reply a call returns answers the request it wrote, and the request
\* had been carried out - as long as no earlier call failed and left its
\* child running.
OurReply ==
    [][ Read /\ ~stranded => answer' = calls /\ done[calls] > 0 ]_coVars

\* One request is carried out at most twice, however often the child dies:
\* call() asks once more, never again.
AtMostTwice == \A r \in Requests : done[r] <= 2

\* Given up, nothing is left behind: no child, running or unreaped.
NoOrphan == permFail /\ pc = "idle" => child = "none" /\ ~up

\* "the restart budget is for a backend that keeps dying, not for three
\* hiccups spread over a long session": what has been used of it are losses
\* in a row, with no good reply between them.
BudgetIsForARow == restarts <= losses

\* A call comes to an end unless the child hangs: dying at any point, starting
\* badly or answering late never keeps the caller (call, start, stop).
CallEndsUnlessWedged == pc # "idle" ~> pc = "idle" \/ child = "wedged"

\* Retries are few whatever the child does: the restarts stay within the budget
\* (CoTypeOK), which counts losses in a row, and a request is written twice at most.
BudgetHolds == CoTypeOK /\ AtMostTwice /\ BudgetIsForARow
=============================================================================
