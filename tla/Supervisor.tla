----------------------------- MODULE Supervisor -----------------------------
(***************************************************************************)
(* The FFmpeg process supervisor (src/internal/supervisor/supervisor.go):  *)
(* one goroutine per profile keeps one FFmpeg process alive, while         *)
(* RestartProfile, StopProfile and StopAll stop and replace workers under  *)
(* the mutex s.mu.                                                         *)
(*                                                                         *)
(* A worker is a number: the n-th call of startWorkerLocked makes worker   *)
(* n.  Its goroutine is a program counter over the points where another    *)
(* goroutine can see a difference.  The stop protocol runs against it,     *)
(* one lock section, channel wait or signal at a time; a timer may fire at *)
(* any moment of the wait it bounds.                                       *)
(*                                                                         *)
(* Left out: the FFmpeg argument list, the text of the logs, and           *)
(* profileWorker.restarts, a counter that only Status reports.             *)
(***************************************************************************)
EXTENDS Naturals

CONSTANTS
  Profile,     \* the profile tokens
  MaxWorkers   \* bound: workers ever created in a behaviour

ASSUME SupervisorAssumption ==
  /\ Profile # {}
  /\ MaxWorkers \in Nat

Worker   == 1 .. MaxWorkers
NoWorker == 0

VARIABLES
  configured,  \* tokens the configuration manager holds
  workers,     \* s.workers: the current worker of each token, or NoWorker
  spawned,     \* number of workers created so far
  token,       \* token[w]: the profile a worker was created for
  pc,          \* pc[w]: where the goroutine of w is
  proc,        \* w.proc # nil
  stopping,    \* w.stopping
  cancelled,   \* w.cancel() was called
  os,          \* the operating system's view of the process of w
  op,          \* the call that holds s.mu and how far it is
  closing,     \* progress of StopAll
  returned,    \* history: workers on which stopWorker has returned
  gaveUp       \* history: ... after killGrace, with the goroutine still running

goroutineVars == <<token, pc, proc>>
stopVars      == <<stopping, cancelled, returned, gaveUp>>
vars == <<configured, workers, spawned, token, pc, proc, stopping, cancelled,
          os, op, closing, returned, gaveUp>>

-----------------------------------------------------------------------------
(* State predicates and the signals.                                       *)

\* The goroutine holds a process it has started and not yet waited for.
HasProcess == {"publish", "selfKill", "wait"}

PcSet   == {"unborn", "top", "command", "forking", "reaped", "sleep", "done"}
             \cup HasProcess
OsSet   == {"none", "alive", "termed", "killed", "dead"}
StepSet == {"idle", "boot", "mark", "cancel", "term", "grace", "last", "after"}
Stopping == {"mark", "cancel", "term", "grace", "last"}

Running(w) == os[w] \in {"alive", "termed", "killed"}

\* Mutants: contexts that do not derive from the supervisor's, or are shared.
CtxDone_Detached(w) == cancelled[w]
CtxDone_Shared(w) == closing # "no" \/ \E v \in Worker : cancelled[v]

\* ctx.Err() # nil in the goroutine of w: its own context was cancelled, or
\* the supervisor's context it derives from.
CtxDone(w) == cancelled[w] \/ closing # "no"

\* Signals have no effect on a process that has exited.
Term(s) == IF s = "alive" THEN "termed" ELSE s

\* Mutant: SIGTERM sent where SIGKILL is meant.
Kill_Term(s) == Term(s)

Kill(s) == IF s \in {"alive", "termed"} THEN "killed" ELSE s

Goto(w, label) == pc' = [pc EXCEPT ![w] = label]

NoOp == [kind |-> "none", target |-> NoWorker, step |-> "idle", proc |-> FALSE]

-----------------------------------------------------------------------------
(* Creating a worker, and Start().                                         *)

StartWorkerLocked(p) ==
  LET w == spawned + 1 IN
  /\ spawned' = w
  /\ workers' = [workers EXCEPT ![p] = w]
  /\ token'   = [token EXCEPT ![w] = p]
  /\ Goto(w, "top")
  /\ UNCHANGED <<proc, stopping, cancelled, os>>

\* main() has constructed the supervisor and Start() is running; nothing else
\* calls it before Start returns.
Init ==
  /\ configured \in SUBSET Profile \ {{}}
  /\ workers   = [p \in Profile |-> NoWorker]
  /\ spawned   = 0
  /\ \E p \in Profile : token = [w \in Worker |-> p]  \* not read before w exists
  /\ pc        = [w \in Worker |-> "unborn"]
  /\ proc      = [w \in Worker |-> FALSE]
  /\ stopping  = [w \in Worker |-> FALSE]
  /\ cancelled = [w \in Worker |-> FALSE]
  /\ os        = [w \in Worker |-> "none"]
  /\ op        = [NoOp EXCEPT !.kind = "start", !.step = "boot"]
  /\ closing   = "no"
  /\ returned  = {}
  /\ gaveUp    = {}

StartNext(p) ==
  /\ op.kind = "start"
  /\ p \in configured /\ workers[p] = NoWorker
  /\ spawned < MaxWorkers
  /\ StartWorkerLocked(p)
  /\ UNCHANGED <<configured, op, closing, returned, gaveUp>>

StartReturn ==
  /\ op.kind = "start"
  /\ \A p \in configured : workers[p] # NoWorker
  /\ op' = NoOp
  /\ UNCHANGED <<configured, workers, spawned, goroutineVars, stopVars, os, closing>>

-----------------------------------------------------------------------------
(* runWorkerLoop, the goroutine of worker w.                               *)

LoopTop(w) ==
  /\ pc[w] = "top"
  /\ Goto(w, IF CtxDone(w) \/ stopping[w] THEN "done" ELSE "command")
  /\ UNCHANGED <<configured, workers, spawned, token, proc, stopVars, os, op, closing>>

\* cmd.Start() refuses at once when the context is already done.
StartCommand(w) ==
  /\ pc[w] = "command"
  /\ Goto(w, IF CtxDone(w) THEN "sleep" ELSE "forking")
  /\ UNCHANGED <<configured, workers, spawned, token, proc, stopVars, os, op, closing>>

ForkOk(w) ==
  /\ pc[w] = "forking"
  /\ Goto(w, "publish")
  /\ os' = [os EXCEPT ![w] = "alive"]
  /\ UNCHANGED <<configured, workers, spawned, token, proc, stopVars, op, closing>>

ForkFails(w) ==
  /\ pc[w] = "forking"
  /\ Goto(w, "sleep")
  /\ UNCHANGED <<configured, workers, spawned, token, proc, stopVars, os, op, closing>>

\* Mutant: publishes the handle without looking at w.stopping.
Publish_Unchecked(w) ==
  /\ pc[w] = "publish"
  /\ proc' = [proc EXCEPT ![w] = TRUE]
  /\ Goto(w, "wait")
  /\ UNCHANGED <<configured, workers, spawned, token, stopVars, os, op, closing>>

\* The lock section that publishes cmd.Process and reads w.stopping.
Publish(w) ==
  /\ pc[w] = "publish"
  /\ proc' = [proc EXCEPT ![w] = TRUE]
  /\ Goto(w, IF stopping[w] THEN "selfKill" ELSE "wait")
  /\ UNCHANGED <<configured, workers, spawned, token, stopVars, os, op, closing>>

SelfKill(w) ==
  /\ pc[w] = "selfKill"
  /\ os' = [os EXCEPT ![w] = Kill(@)]
  /\ Goto(w, "wait")
  /\ UNCHANGED <<configured, workers, spawned, token, proc, stopVars, op, closing>>

WaitReturns(w) ==
  /\ pc[w] = "wait" /\ os[w] = "dead"
  /\ os' = [os EXCEPT ![w] = "none"]
  /\ Goto(w, "reaped")
  /\ UNCHANGED <<configured, workers, spawned, token, proc, stopVars, op, closing>>

\* Mutant: a process that died is never replaced.
Reap_Ends(w) ==
  /\ pc[w] = "reaped"
  /\ proc' = [proc EXCEPT ![w] = FALSE]
  /\ Goto(w, "done")
  /\ UNCHANGED <<configured, workers, spawned, token, stopVars, os, op, closing>>

Reap(w) ==
  /\ pc[w] = "reaped"
  /\ proc' = [proc EXCEPT ![w] = FALSE]
  /\ Goto(w, IF stopping[w] \/ CtxDone(w) THEN "done" ELSE "sleep")
  /\ UNCHANGED <<configured, workers, spawned, token, stopVars, os, op, closing>>

\* sleepCtx, after a failed start or an exit: cut short by the context, or
\* the delay elapses and the loop goes round.
SleepCut(w) ==
  /\ pc[w] = "sleep" /\ CtxDone(w)
  /\ Goto(w, "done")
  /\ UNCHANGED <<configured, workers, spawned, token, proc, stopVars, os, op, closing>>

SleepElapsed(w) ==
  /\ pc[w] = "sleep"
  /\ Goto(w, "top")
  /\ UNCHANGED <<configured, workers, spawned, token, proc, stopVars, os, op, closing>>

Goroutine(w) ==
  \/ LoopTop(w) \/ StartCommand(w) \/ ForkOk(w) \/ ForkFails(w) \/ Publish(w)
  \/ SelfKill(w) \/ WaitReturns(w) \/ Reap(w) \/ SleepCut(w) \/ SleepElapsed(w)

-----------------------------------------------------------------------------
(* The process, and the goroutine of os/exec that watches the context of a *)
(* command made by exec.CommandContext.                                    *)

ProcessExits(w) ==
  /\ os[w] \in {"alive", "termed"}
  /\ os' = [os EXCEPT ![w] = "dead"]
  /\ UNCHANGED <<configured, workers, spawned, goroutineVars, stopVars, op, closing>>

KilledDies(w) ==
  /\ os[w] = "killed"
  /\ os' = [os EXCEPT ![w] = "dead"]
  /\ UNCHANGED <<configured, workers, spawned, goroutineVars, stopVars, op, closing>>

ContextKill(w) ==
  /\ CtxDone(w) /\ os[w] \in {"alive", "termed"}
  /\ os' = [os EXCEPT ![w] = Kill(@)]
  /\ UNCHANGED <<configured, workers, spawned, goroutineVars, stopVars, op, closing>>

-----------------------------------------------------------------------------
(* stopWorker(op.target), called with s.mu held.                           *)

StopMark ==
  /\ op.step = "mark"
  /\ stopping' = [stopping EXCEPT ![op.target] = TRUE]
  /\ op' = [op EXCEPT !.step = "cancel", !.proc = proc[op.target]]
  /\ UNCHANGED <<configured, workers, spawned, goroutineVars, cancelled, returned,
                 gaveUp, os, closing>>

StopCancel ==
  /\ op.step = "cancel"
  /\ cancelled' = [cancelled EXCEPT ![op.target] = TRUE]
  /\ op' = [op EXCEPT !.step = IF op.proc THEN "term" ELSE "last"]
  /\ UNCHANGED <<configured, workers, spawned, goroutineVars, stopping, returned,
                 gaveUp, os, closing>>

StopTerm ==
  /\ op.step = "term"
  /\ os' = [os EXCEPT ![op.target] = Term(@)]
  /\ op' = [op EXCEPT !.step = "grace"]
  /\ UNCHANGED <<configured, workers, spawned, goroutineVars, stopVars, closing>>

StopGraceExpires ==
  /\ op.step = "grace"
  /\ os' = [os EXCEPT ![op.target] = Kill(@)]
  /\ op' = [op EXCEPT !.step = "last"]
  /\ UNCHANGED <<configured, workers, spawned, goroutineVars, stopVars, closing>>

\* <-w.done in either select.
StopSeesDone ==
  /\ op.step \in {"grace", "last"}
  /\ pc[op.target] = "done"
  /\ returned' = returned \cup {op.target}
  /\ op' = [op EXCEPT !.step = "after"]
  /\ UNCHANGED <<configured, workers, spawned, goroutineVars, stopping, cancelled,
                 gaveUp, os, closing>>

StopGivesUp ==
  /\ op.step = "last"
  /\ returned' = returned \cup {op.target}
  /\ gaveUp'   = IF pc[op.target] = "done" THEN gaveUp ELSE gaveUp \cup {op.target}
  /\ op' = [op EXCEPT !.step = "after"]
  /\ UNCHANGED <<configured, workers, spawned, goroutineVars, stopping, cancelled,
                 os, closing>>

StopWorker == StopMark \/ StopCancel \/ StopTerm \/ StopGraceExpires
                \/ StopSeesDone \/ StopGivesUp

-----------------------------------------------------------------------------
(* RestartProfile and StopProfile.                                         *)

\* Mutant: goes on without stopping the worker.
BeginStop_NoStop(kind, p) ==
  /\ op.kind = "none"
  /\ workers[p] # NoWorker
  /\ op' = [kind |-> kind, target |-> workers[p], step |-> "after", proc |-> FALSE]
  /\ UNCHANGED <<configured, workers, spawned, goroutineVars, stopVars, os, closing>>

\* A call for a profile that has a worker stops it first.
BeginStop(kind, p) ==
  /\ op.kind = "none"
  /\ workers[p] # NoWorker
  /\ op' = [kind |-> kind, target |-> workers[p], step |-> "mark", proc |-> FALSE]
  /\ UNCHANGED <<configured, workers, spawned, goroutineVars, stopVars, os, closing>>

\* An unknown token makes RestartProfile return an error and change nothing.
RestartProfile(p) ==
  /\ p \in configured
  /\ spawned < MaxWorkers
  /\ \/ BeginStop("restart", p)
     \/ /\ op.kind = "none" /\ workers[p] = NoWorker
        /\ StartWorkerLocked(p)
        /\ UNCHANGED <<configured, op, closing, returned, gaveUp>>

RestartFinish ==
  /\ op.kind = "restart" /\ op.step = "after"
  /\ StartWorkerLocked(token[op.target])
  /\ op' = NoOp
  /\ UNCHANGED <<configured, closing, returned, gaveUp>>

StopProfile(p) == BeginStop("stop", p)

StopFinish ==
  /\ op.kind = "stop" /\ op.step = "after"
  /\ workers' = [workers EXCEPT ![token[op.target]] = NoWorker]
  /\ op' = NoOp
  /\ UNCHANGED <<configured, spawned, goroutineVars, stopVars, os, closing>>

-----------------------------------------------------------------------------
(* StopAll: cancels before it takes s.mu, waits for the goroutines after   *)
(* it has released it.                                                     *)

StopAllCancel ==
  /\ closing = "no" /\ op.kind # "start"
  /\ closing' = "cancelled"
  /\ UNCHANGED <<configured, workers, spawned, goroutineVars, stopVars, os, op>>

StopAllLock ==
  /\ closing = "cancelled" /\ op.kind = "none"
  /\ op' = [NoOp EXCEPT !.kind = "all", !.step = "after"]
  /\ UNCHANGED <<configured, workers, spawned, goroutineVars, stopVars, os, closing>>

StopAllNext(p) ==
  /\ op.kind = "all" /\ op.step = "after"
  /\ workers[p] \notin returned \cup {NoWorker}
  /\ op' = [op EXCEPT !.target = workers[p], !.step = "mark", !.proc = FALSE]
  /\ UNCHANGED <<configured, workers, spawned, goroutineVars, stopVars, os, closing>>

StopAllClear ==
  /\ op.kind = "all" /\ op.step = "after"
  /\ \A p \in Profile : workers[p] \in returned \cup {NoWorker}
  /\ workers' = [p \in Profile |-> NoWorker]
  /\ op' = NoOp
  /\ closing' = "waiting"
  /\ UNCHANGED <<configured, spawned, goroutineVars, stopVars, os>>

\* Mutant: without s.wg.Wait().
StopAllReturn_NoWait ==
  /\ closing = "waiting"
  /\ closing' = "done"
  /\ UNCHANGED <<configured, workers, spawned, goroutineVars, stopVars, os, op>>

StopAllReturn ==
  /\ closing = "waiting"
  /\ \A w \in Worker : pc[w] \in {"unborn", "done"}
  /\ closing' = "done"
  /\ UNCHANGED <<configured, workers, spawned, goroutineVars, stopVars, os, op>>

StopAll == StopAllLock \/ (\E p \in Profile : StopAllNext(p)) \/ StopAllClear \/ StopAllReturn

-----------------------------------------------------------------------------
(* The configuration the supervisor reads: tokens come and go, one always  *)
(* stays.  The HTTP server that changes it starts after Start returned.    *)

AddProfile(p) ==
  /\ op.kind # "start" /\ p \notin configured
  /\ configured' = configured \cup {p}
  /\ UNCHANGED <<workers, spawned, goroutineVars, stopVars, os, op, closing>>

DeleteProfile(p) ==
  /\ op.kind # "start" /\ p \in configured /\ configured # {p}
  /\ configured' = configured \ {p}
  /\ UNCHANGED <<workers, spawned, goroutineVars, stopVars, os, op, closing>>

-----------------------------------------------------------------------------

Next ==
  \/ \E p \in Profile :
       \/ StartNext(p) \/ RestartProfile(p) \/ StopProfile(p)
       \/ AddProfile(p) \/ DeleteProfile(p)
  \/ StartReturn \/ RestartFinish \/ StopFinish
  \/ StopWorker \/ StopAllCancel \/ StopAll
  \/ \E w \in Worker :
       Goroutine(w) \/ ProcessExits(w) \/ KilledDies(w) \/ ContextKill(w)

\* Goroutines are scheduled, timers fire, SIGKILL takes effect, mutexes do not
\* starve a waiter (sync.Mutex hands the lock over after 1 ms), and a fork is
\* not refused for ever.
Fairness ==
  /\ WF_vars(StartReturn) /\ \A p \in Profile : WF_vars(StartNext(p))
  /\ WF_vars(StopWorker)
  /\ WF_vars(RestartFinish) /\ WF_vars(StopFinish)
  /\ SF_vars(StopAll)
  /\ \A w \in Worker :
       /\ WF_vars(Goroutine(w))
       /\ WF_vars(KilledDies(w))
       /\ WF_vars(ContextKill(w))
       /\ SF_vars(ForkOk(w))

Spec == Init /\ [][Next]_vars
FairSpec == Spec /\ Fairness

-----------------------------------------------------------------------------
(* Properties.                                                             *)

TypeOK ==
  /\ configured \subseteq Profile
  /\ workers   \in [Profile -> 0 .. spawned]
  /\ spawned   \in 0 .. MaxWorkers
  /\ token     \in [Worker -> Profile]
  /\ pc        \in [Worker -> PcSet]
  /\ proc      \in [Worker -> BOOLEAN]
  /\ stopping  \in [Worker -> BOOLEAN]
  /\ cancelled \in [Worker -> BOOLEAN]
  /\ os        \in [Worker -> OsSet]
  /\ op        \in [kind   : {"none", "start", "restart", "stop", "all"},
                    target : 0 .. spawned, step : StepSet, proc : BOOLEAN]
  /\ closing   \in {"no", "cancelled", "waiting", "done"}
  /\ returned  \subseteq Worker
  /\ gaveUp    \subseteq Worker

\* Once stopWorker has returned, even by giving up, a process its worker sits
\* waiting for has been killed or has exited: neither a start that raced with
\* the stop (the handle not yet published) nor a process that ignores SIGTERM
\* is left to run on.
StoppedProcessIsDoomed ==
  \A w \in returned : pc[w] = "wait" => os[w] \in {"killed", "dead"}

\* Every goroutine still running belongs to the worker the map holds for its
\* profile, unless stopWorker logged "did not exit in time" for it: so a
\* profile has one FFmpeg, and never a forgotten second one, as long as no
\* stop ran into killGrace.
NoOrphanWorker ==
  \A w \in Worker : pc[w] \in {"unborn", "done"} \/ w \in gaveUp \/ workers[token[w]] = w

\* After StopAll has returned no FFmpeg runs, although RestartProfile may be
\* called later and by then creates a worker as always.
NoProcessAfterStopAll ==
  closing = "done" => \A w \in Worker : ~Running(w)

\* A process is signalled only if its own worker is being stopped or the
\* whole supervisor is: a hot reload leaves the other profiles alone.
SignalsStayWithTheStop ==
  [][\A w \in Worker :
       os[w] = "alive" /\ os'[w] \in {"termed", "killed"}
         => stopping[w] \/ closing # "no"]_vars

\* A worker on which stopWorker returned ends, whatever it was doing then.
StoppedWorkerEnds ==
  \A w \in Worker : (w \in returned) ~> (pc[w] = "done")

\* StopAll returns, with calls of RestartProfile and StopProfile competing
\* for s.mu and with processes that ignore SIGTERM.
StopAllReturns == (closing = "cancelled") ~> (closing = "done")

\* A worker whose FFmpeg died runs a new one, unless it is being stopped.
DeadProcessIsReplaced ==
  \A w \in Worker :
    (pc[w] = "reaped") ~> (os[w] = "alive" \/ stopping[w] \/ CtxDone(w))

-----------------------------------------------------------------------------
(* The inductive invariant behind the safety properties; SupervisorProofs  *)
(* proves it.                                                              *)

\* How a worker's handle and process follow its goroutine.
ProcessInv ==
  \A w \in Worker :
    /\ (pc[w] = "unborn") <=> (w > spawned)
    /\ (os[w] # "none") <=> (pc[w] \in HasProcess)
    /\ proc[w] <=> (pc[w] \in {"selfKill", "wait", "reaped"})
    /\ pc[w] = "selfKill" => stopping[w]
    /\ cancelled[w] => stopping[w]

\* The call that holds s.mu: which steps it can be at, and what it has already
\* done to the worker it stops.
CallInv ==
  /\ (op.kind = "none" <=> op.step = "idle") /\ (op.kind = "start" <=> op.step = "boot")
  /\ op.step \in Stopping => op.target # NoWorker /\ op.target \notin returned
  /\ op.kind \in {"restart", "stop"} \/ op.step \in Stopping
        => op.target # NoWorker /\ workers[token[op.target]] = op.target
  /\ op.step \in Stopping \ {"mark"} => stopping[op.target]
  /\ op.kind \in {"restart", "stop"} /\ op.step = "after" => op.target \in returned
  /\ op.kind = "restart" => spawned < MaxWorkers
  /\ op.kind = "all" => closing = "cancelled"

\* A stopped worker in cmd.Wait is only left alone while the stop that holds
\* its handle has SIGKILL still to send.
StopInv ==
  \A w \in Worker :
    pc[w] = "wait" /\ stopping[w] /\ os[w] \notin {"killed", "dead"}
      => op.target = w /\ op.proc /\ op.step \in {"cancel", "term", "grace"}

ReturnedInv ==
  \A w \in returned :
    /\ w <= spawned /\ stopping[w]
    /\ pc[w] = "done" \/ w \in gaveUp

\* The map never keeps a worker whose stop has returned, except inside the call
\* that is about to remove it.
MapInv ==
  \A p \in Profile :
    workers[p] # NoWorker =>
      /\ token[workers[p]] = p
      /\ workers[p] \in returned =>
           op.kind = "all" \/ (op.step = "after" /\ op.target = workers[p])

ClosedInv == closing = "done" => \A w \in Worker : pc[w] \in {"unborn", "top", "done"}

IInv ==
  /\ TypeOK /\ ProcessInv /\ CallInv /\ StopInv
  /\ ReturnedInv /\ MapInv /\ ClosedInv /\ NoOrphanWorker

=============================================================================
