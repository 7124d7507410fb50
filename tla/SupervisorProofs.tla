-------------------------- MODULE SupervisorProofs --------------------------
(***************************************************************************)
(* Proofs about Supervisor, for every set of profiles and every bound on   *)
(* the number of workers.                                                  *)
(***************************************************************************)
EXTENDS SupervisorRefinement, TLAPS

\* The supervisor starts in the invariant.
LEMMA InitIInv == Init => IInv
  <1> SUFFICES ASSUME Init PROVE IInv
    OBVIOUS
  <1> USE SupervisorAssumption DEF Init, Worker, NoWorker, NoOp
  <1>1. TypeOK
    <2>1. configured \subseteq Profile /\ workers \in [Profile -> 0 .. spawned] /\ spawned \in 0 .. MaxWorkers
      OBVIOUS
    <2>2. /\ token \in [Worker -> Profile] /\ proc \in [Worker -> BOOLEAN]
          /\ stopping \in [Worker -> BOOLEAN] /\ cancelled \in [Worker -> BOOLEAN]
          /\ returned \subseteq Worker /\ gaveUp \subseteq Worker
      OBVIOUS
    <2>3. pc \in [Worker -> PcSet] /\ os \in [Worker -> OsSet]
      BY DEF PcSet, OsSet
    <2>4. op = [kind |-> "start", target |-> 0, step |-> "boot", proc |-> FALSE]
      OBVIOUS
    <2>5. QED
      BY <2>1, <2>2, <2>3, <2>4 DEF TypeOK, StepSet
  <1>2. ProcessInv /\ CallInv /\ StopInv
    BY DEF ProcessInv, CallInv, StopInv, HasProcess, Stopping
  <1>3. ReturnedInv /\ MapInv /\ ClosedInv /\ NoOrphanWorker
    BY DEF ReturnedInv, MapInv, ClosedInv, NoOrphanWorker
  <1>4. QED
    BY <1>1, <1>2, <1>3 DEF IInv

\* Every step of a worker's goroutine keeps the invariant.
LEMMA GoroutineStep ==
  ASSUME IInv, NEW w \in Worker, Goroutine(w)
  PROVE  IInv'
  <1> USE SupervisorAssumption DEF IInv, Worker, NoWorker, goroutineVars, stopVars, Goto
  <1>1. CASE LoopTop(w)
    <2>1. TypeOK'
      BY <1>1 DEF LoopTop, TypeOK, PcSet, OsSet, StepSet, HasProcess
    <2>2. ProcessInv' /\ CallInv' /\ StopInv'
      BY <1>1 DEF LoopTop, TypeOK, ProcessInv, CallInv, StopInv, HasProcess, Stopping
    <2>3. ReturnedInv' /\ MapInv' /\ ClosedInv' /\ NoOrphanWorker'
      BY <1>1 DEF LoopTop, TypeOK, ReturnedInv, MapInv, ClosedInv, NoOrphanWorker, CtxDone
    <2>4. QED
      BY <2>1, <2>2, <2>3 DEF IInv
  <1>2. CASE StartCommand(w)
    <2>1. TypeOK'
      BY <1>2 DEF StartCommand, TypeOK, PcSet, OsSet, StepSet, HasProcess
    <2>2. ProcessInv' /\ CallInv' /\ StopInv'
      BY <1>2 DEF StartCommand, TypeOK, ProcessInv, CallInv, StopInv, HasProcess, Stopping
    <2>3. ReturnedInv' /\ MapInv' /\ ClosedInv' /\ NoOrphanWorker'
      BY <1>2 DEF StartCommand, TypeOK, ReturnedInv, MapInv, ClosedInv, NoOrphanWorker, CtxDone
    <2>4. QED
      BY <2>1, <2>2, <2>3 DEF IInv
  <1>3. CASE ForkOk(w)
    <2>1. TypeOK'
      BY <1>3 DEF ForkOk, TypeOK, PcSet, OsSet, StepSet, HasProcess
    <2>2. ProcessInv' /\ CallInv' /\ StopInv'
      BY <1>3 DEF ForkOk, TypeOK, ProcessInv, CallInv, StopInv, HasProcess, Stopping
    <2>3. ReturnedInv' /\ MapInv' /\ ClosedInv' /\ NoOrphanWorker'
      BY <1>3 DEF ForkOk, TypeOK, ReturnedInv, MapInv, ClosedInv, NoOrphanWorker
    <2>4. QED
      BY <2>1, <2>2, <2>3 DEF IInv
  <1>4. CASE ForkFails(w)
    <2>1. TypeOK'
      BY <1>4 DEF ForkFails, TypeOK, PcSet, OsSet, StepSet, HasProcess
    <2>2. ProcessInv' /\ CallInv' /\ StopInv'
      BY <1>4 DEF ForkFails, TypeOK, ProcessInv, CallInv, StopInv, HasProcess, Stopping
    <2>3. ReturnedInv' /\ MapInv' /\ ClosedInv' /\ NoOrphanWorker'
      BY <1>4 DEF ForkFails, TypeOK, ReturnedInv, MapInv, ClosedInv, NoOrphanWorker
    <2>4. QED
      BY <2>1, <2>2, <2>3 DEF IInv
  <1>5. CASE Publish(w)
    <2>1. TypeOK'
      BY <1>5 DEF Publish, TypeOK, PcSet, OsSet, StepSet, HasProcess
    <2>2. ProcessInv' /\ CallInv' /\ StopInv'
      BY <1>5 DEF Publish, TypeOK, ProcessInv, CallInv, StopInv, HasProcess, Stopping
    <2>3. ReturnedInv' /\ MapInv' /\ ClosedInv' /\ NoOrphanWorker'
      BY <1>5 DEF Publish, TypeOK, ReturnedInv, MapInv, ClosedInv, NoOrphanWorker
    <2>4. QED
      BY <2>1, <2>2, <2>3 DEF IInv
  <1>6. CASE SelfKill(w)
    <2>1. TypeOK'
      BY <1>6 DEF SelfKill, Kill, TypeOK, PcSet, OsSet, StepSet, HasProcess
    <2>2. /\ os[w] # "none" /\ os' = [os EXCEPT ![w] = os'[w]]
          /\ os'[w] \in {"killed", "dead"}
      BY <1>6 DEF SelfKill, Kill, TypeOK, ProcessInv, HasProcess, OsSet
    <2>3. ProcessInv' /\ CallInv' /\ StopInv'
      BY <1>6, <2>2 DEF SelfKill, TypeOK, ProcessInv, CallInv, StopInv, HasProcess, Stopping
    <2>4. ReturnedInv' /\ MapInv' /\ ClosedInv' /\ NoOrphanWorker'
      BY <1>6 DEF SelfKill, Kill, TypeOK, ReturnedInv, MapInv, ClosedInv, NoOrphanWorker
    <2>5. QED
      BY <2>1, <2>3, <2>4 DEF IInv
  <1>7. CASE WaitReturns(w)
    <2>1. TypeOK'
      BY <1>7 DEF WaitReturns, TypeOK, PcSet, OsSet, StepSet, HasProcess
    <2>2. ProcessInv' /\ CallInv' /\ StopInv'
      BY <1>7 DEF WaitReturns, TypeOK, ProcessInv, CallInv, StopInv, HasProcess, Stopping
    <2>3. ReturnedInv' /\ MapInv' /\ ClosedInv' /\ NoOrphanWorker'
      BY <1>7 DEF WaitReturns, TypeOK, ReturnedInv, MapInv, ClosedInv, NoOrphanWorker
    <2>4. QED
      BY <2>1, <2>2, <2>3 DEF IInv
  <1>8. CASE Reap(w)
    <2>1. TypeOK'
      BY <1>8 DEF Reap, TypeOK, PcSet, OsSet, StepSet, HasProcess
    <2>2. ProcessInv' /\ CallInv' /\ StopInv'
      BY <1>8 DEF Reap, TypeOK, ProcessInv, CallInv, StopInv, HasProcess, Stopping
    <2>3. ReturnedInv' /\ MapInv' /\ ClosedInv' /\ NoOrphanWorker'
      BY <1>8 DEF Reap, TypeOK, ReturnedInv, MapInv, ClosedInv, NoOrphanWorker, CtxDone
    <2>4. QED
      BY <2>1, <2>2, <2>3 DEF IInv
  <1>9. CASE SleepCut(w)
    <2>1. TypeOK'
      BY <1>9 DEF SleepCut, TypeOK, PcSet, OsSet, StepSet, HasProcess
    <2>2. ProcessInv' /\ CallInv' /\ StopInv'
      BY <1>9 DEF SleepCut, TypeOK, ProcessInv, CallInv, StopInv, HasProcess, Stopping
    <2>3. ReturnedInv' /\ MapInv' /\ ClosedInv' /\ NoOrphanWorker'
      BY <1>9 DEF SleepCut, TypeOK, ReturnedInv, MapInv, ClosedInv, NoOrphanWorker
    <2>4. QED
      BY <2>1, <2>2, <2>3 DEF IInv
  <1>10. CASE SleepElapsed(w)
    <2>1. TypeOK'
      BY <1>10 DEF SleepElapsed, TypeOK, PcSet, OsSet, StepSet, HasProcess
    <2>2. ProcessInv' /\ CallInv' /\ StopInv'
      BY <1>10 DEF SleepElapsed, TypeOK, ProcessInv, CallInv, StopInv, HasProcess, Stopping
    <2>3. ReturnedInv' /\ MapInv' /\ ClosedInv' /\ NoOrphanWorker'
      BY <1>10 DEF SleepElapsed, TypeOK, ReturnedInv, MapInv, ClosedInv, NoOrphanWorker
    <2>4. QED
      BY <2>1, <2>2, <2>3 DEF IInv
  <1>11. QED
    BY <1>1, <1>2, <1>3, <1>4, <1>5, <1>6, <1>7, <1>8, <1>9, <1>10 DEF Goroutine

\* So does the process, left alone or killed through its context.
LEMMA ProcessStep ==
  ASSUME IInv, NEW w \in Worker, ProcessExits(w) \/ KilledDies(w) \/ ContextKill(w)
  PROVE  IInv'
  <1> USE SupervisorAssumption DEF IInv, Worker, NoWorker, goroutineVars, stopVars
  <1>1. CASE ProcessExits(w)
    <2>1. TypeOK'
      BY <1>1 DEF ProcessExits, TypeOK, PcSet, OsSet, StepSet, HasProcess
    <2>2. ProcessInv' /\ CallInv' /\ StopInv'
      BY <1>1 DEF ProcessExits, TypeOK, ProcessInv, CallInv, StopInv, HasProcess, Stopping
    <2>3. ReturnedInv' /\ MapInv' /\ ClosedInv' /\ NoOrphanWorker'
      BY <1>1 DEF ProcessExits, TypeOK, ReturnedInv, MapInv, ClosedInv, NoOrphanWorker
    <2>4. QED
      BY <2>1, <2>2, <2>3 DEF IInv
  <1>2. CASE KilledDies(w)
    <2>1. TypeOK'
      BY <1>2 DEF KilledDies, TypeOK, PcSet, OsSet, StepSet, HasProcess
    <2>2. ProcessInv' /\ CallInv' /\ StopInv'
      BY <1>2 DEF KilledDies, TypeOK, ProcessInv, CallInv, StopInv, HasProcess, Stopping
    <2>3. ReturnedInv' /\ MapInv' /\ ClosedInv' /\ NoOrphanWorker'
      BY <1>2 DEF KilledDies, TypeOK, ReturnedInv, MapInv, ClosedInv, NoOrphanWorker
    <2>4. QED
      BY <2>1, <2>2, <2>3 DEF IInv
  <1>3. CASE ContextKill(w)
    <2>1. TypeOK'
      BY <1>3 DEF ContextKill, Kill, TypeOK, PcSet, OsSet, StepSet, HasProcess
    <2>2. ProcessInv' /\ CallInv' /\ StopInv'
      BY <1>3 DEF ContextKill, Kill, TypeOK, ProcessInv, CallInv, StopInv, HasProcess, Stopping
    <2>3. ReturnedInv' /\ MapInv' /\ ClosedInv' /\ NoOrphanWorker'
      BY <1>3 DEF ContextKill, Kill, TypeOK, ReturnedInv, MapInv, ClosedInv, NoOrphanWorker
    <2>4. QED
      BY <2>1, <2>2, <2>3 DEF IInv
  <1>4. QED
    BY <1>1, <1>2, <1>3

\* So does every step of stopWorker.
LEMMA StopWorkerStep ==
  ASSUME IInv, StopWorker
  PROVE  IInv'
  <1> USE SupervisorAssumption DEF IInv, Worker, NoWorker, goroutineVars, stopVars
  <1>0. op.step \in Stopping => op.target \in Worker
    BY DEF TypeOK, CallInv
  <1>1. CASE StopMark
    <2>1. TypeOK'
      BY <1>1, <1>0 DEF StopMark, TypeOK, StepSet, Stopping
    <2>2. ProcessInv' /\ CallInv' /\ StopInv'
      BY <1>1 DEF StopMark, TypeOK, ProcessInv, CallInv, StopInv, HasProcess, Stopping
    <2>3. ReturnedInv' /\ MapInv' /\ ClosedInv' /\ NoOrphanWorker'
      BY <1>1 DEF StopMark, TypeOK, ReturnedInv, MapInv, ClosedInv, NoOrphanWorker
    <2>4. QED
      BY <2>1, <2>2, <2>3 DEF IInv
  <1>2. CASE StopCancel
    <2>1. TypeOK'
      BY <1>2 DEF StopCancel, TypeOK, PcSet, OsSet, StepSet, HasProcess
    <2>2. ProcessInv' /\ CallInv' /\ StopInv'
      BY <1>2 DEF StopCancel, TypeOK, ProcessInv, CallInv, StopInv, HasProcess, Stopping
    <2>3. ReturnedInv' /\ MapInv' /\ ClosedInv' /\ NoOrphanWorker'
      BY <1>2 DEF StopCancel, TypeOK, ReturnedInv, MapInv, ClosedInv, NoOrphanWorker
    <2>4. QED
      BY <2>1, <2>2, <2>3 DEF IInv
  <1>3. CASE StopTerm
    <2>1. TypeOK'
      BY <1>3 DEF StopTerm, Term, TypeOK, PcSet, OsSet, StepSet, HasProcess
    <2>2. ProcessInv' /\ CallInv' /\ StopInv'
      BY <1>3 DEF StopTerm, Term, TypeOK, ProcessInv, CallInv, StopInv, HasProcess, Stopping
    <2>3. ReturnedInv' /\ MapInv' /\ ClosedInv' /\ NoOrphanWorker'
      BY <1>3 DEF StopTerm, Term, TypeOK, ReturnedInv, MapInv, ClosedInv, NoOrphanWorker
    <2>4. QED
      BY <2>1, <2>2, <2>3 DEF IInv
  <1>4. CASE StopGraceExpires
    <2>1. TypeOK'
      BY <1>4 DEF StopGraceExpires, Kill, TypeOK, PcSet, OsSet, StepSet, HasProcess, CallInv, Stopping
    <2>2. /\ os' = [os EXCEPT ![op.target] = os'[op.target]]
          /\ os'[op.target] \in {"none", "killed", "dead"}
          /\ os[op.target] = "none" <=> os'[op.target] = "none"
      BY <1>4, <1>0 DEF StopGraceExpires, Kill, TypeOK, OsSet, Stopping
    <2>3. ProcessInv' /\ CallInv' /\ StopInv'
      BY <1>4, <1>0, <2>2 DEF StopGraceExpires, TypeOK, ProcessInv, CallInv, StopInv, HasProcess, Stopping
    <2>4. ReturnedInv' /\ MapInv' /\ ClosedInv' /\ NoOrphanWorker'
      BY <1>4 DEF StopGraceExpires, Kill, TypeOK, ReturnedInv, MapInv, ClosedInv, NoOrphanWorker
    <2>5. QED
      BY <2>1, <2>3, <2>4 DEF IInv
  <1>5. CASE StopSeesDone
    <2>1. TypeOK'
      BY <1>5, <1>0 DEF StopSeesDone, TypeOK, StepSet, Stopping
    <2>2. ProcessInv' /\ CallInv' /\ StopInv'
      BY <1>5 DEF StopSeesDone, TypeOK, ProcessInv, CallInv, StopInv, HasProcess, Stopping
    <2>3. ReturnedInv' /\ MapInv' /\ ClosedInv' /\ NoOrphanWorker'
      BY <1>5 DEF StopSeesDone, TypeOK, ReturnedInv, MapInv, ClosedInv, NoOrphanWorker, CallInv, Stopping
    <2>4. QED
      BY <2>1, <2>2, <2>3 DEF IInv
  <1>6. CASE StopGivesUp
    <2>1. TypeOK'
      BY <1>6, <1>0 DEF StopGivesUp, TypeOK, StepSet, Stopping
    <2>2. ProcessInv' /\ CallInv' /\ StopInv'
      BY <1>6 DEF StopGivesUp, TypeOK, ProcessInv, CallInv, StopInv, HasProcess, Stopping
    <2>3. ReturnedInv' /\ MapInv' /\ ClosedInv' /\ NoOrphanWorker'
      BY <1>6 DEF StopGivesUp, TypeOK, ReturnedInv, MapInv, ClosedInv, NoOrphanWorker, CallInv, Stopping
    <2>4. QED
      BY <2>1, <2>2, <2>3 DEF IInv
  <1>7. QED
    BY <1>1, <1>2, <1>3, <1>4, <1>5, <1>6 DEF StopWorker

\* Taking s.mu to stop the worker of a profile keeps the invariant.
LEMMA BeginStopStep ==
  ASSUME IInv, NEW p \in Profile, NEW kind \in {"restart", "stop"},
         kind = "restart" => spawned < MaxWorkers, BeginStop(kind, p)
  PROVE  IInv'
  <1> USE DEF IInv, NoWorker, goroutineVars, stopVars
  <1>1. /\ workers[p] \in 1 .. spawned /\ token[workers[p]] = p
        /\ workers[p] \notin returned
    BY DEF BeginStop, TypeOK, MapInv, CallInv
  <1>2. TypeOK'
    BY <1>1 DEF BeginStop, TypeOK, StepSet
  <1>3. ProcessInv' /\ CallInv' /\ StopInv'
    BY <1>1 DEF BeginStop, TypeOK, ProcessInv, CallInv, StopInv, Stopping
  <1>4. ReturnedInv' /\ MapInv' /\ ClosedInv' /\ NoOrphanWorker'
    BY <1>1 DEF BeginStop, TypeOK, CallInv, ReturnedInv, MapInv, ClosedInv, NoOrphanWorker
  <1>5. QED
    BY <1>2, <1>3, <1>4

\* So do the calls that create and replace workers, and configuration changes.
LEMMA CallStep ==
  ASSUME IInv, NEW p \in Profile,
         \/ StartNext(p) \/ StartReturn \/ RestartProfile(p) \/ RestartFinish
         \/ StopProfile(p) \/ StopFinish \/ AddProfile(p) \/ DeleteProfile(p)
  PROVE  IInv'
  <1> USE SupervisorAssumption DEF IInv, Worker, NoWorker, goroutineVars, stopVars
  <1>1. CASE StartNext(p)
    <2>1. TypeOK'
      BY <1>1 DEF StartNext, StartWorkerLocked, Goto, TypeOK, PcSet, OsSet, StepSet, HasProcess
    <2>2. ProcessInv' /\ CallInv' /\ StopInv'
      BY <1>1 DEF StartNext, StartWorkerLocked, Goto, TypeOK, ProcessInv, CallInv, StopInv, HasProcess, Stopping
    <2>3. ReturnedInv' /\ MapInv' /\ ClosedInv' /\ NoOrphanWorker'
      BY <1>1 DEF StartNext, StartWorkerLocked, Goto, TypeOK, ReturnedInv, MapInv, ClosedInv, NoOrphanWorker
    <2>4. QED
      BY <2>1, <2>2, <2>3 DEF IInv
  <1>2. CASE StartReturn
    <2>1. TypeOK'
      BY <1>2 DEF StartReturn, NoOp, TypeOK, PcSet, OsSet, StepSet, HasProcess
    <2>2. ProcessInv' /\ CallInv' /\ StopInv'
      BY <1>2 DEF StartReturn, NoOp, TypeOK, ProcessInv, CallInv, StopInv, HasProcess, Stopping
    <2>3. ReturnedInv' /\ MapInv' /\ ClosedInv' /\ NoOrphanWorker'
      BY <1>2 DEF StartReturn, NoOp, TypeOK, ReturnedInv, MapInv, ClosedInv, NoOrphanWorker, CallInv, Stopping
    <2>4. QED
      BY <2>1, <2>2, <2>3 DEF IInv
  <1>3. CASE RestartProfile(p)
    <2>1. CASE BeginStop("restart", p)
      BY <1>3, <2>1, BeginStopStep DEF RestartProfile
    <2>2. CASE ~BeginStop("restart", p)
      <3>1. /\ op.kind = "none" /\ workers[p] = NoWorker /\ spawned < MaxWorkers
            /\ StartWorkerLocked(p)
            /\ UNCHANGED <<configured, op, closing, returned, gaveUp>>
        BY <1>3, <2>2 DEF RestartProfile
      <3>2. TypeOK'
        BY <3>1 DEF StartWorkerLocked, Goto, TypeOK, PcSet
      <3>3. ProcessInv' /\ CallInv' /\ StopInv'
        BY <3>1 DEF StartWorkerLocked, Goto, TypeOK, ProcessInv, CallInv, StopInv, HasProcess, Stopping
      <3>4. ReturnedInv' /\ MapInv' /\ ClosedInv' /\ NoOrphanWorker'
        BY <3>1 DEF StartWorkerLocked, Goto, TypeOK, ProcessInv, CallInv, ReturnedInv, MapInv, ClosedInv, NoOrphanWorker
      <3>5. QED
        BY <3>2, <3>3, <3>4
    <2>3. QED
      BY <2>1, <2>2
  <1>4. CASE RestartFinish
    <2>1. TypeOK'
      <3>1. op.target \in Worker /\ spawned < MaxWorkers
        BY <1>4 DEF RestartFinish, TypeOK, CallInv
      <3>2. /\ workers' \in [Profile -> 0 .. spawned'] /\ spawned' \in 0 .. MaxWorkers
            /\ token' \in [Worker -> Profile] /\ pc' \in [Worker -> PcSet]
        BY <1>4, <3>1 DEF RestartFinish, StartWorkerLocked, Goto, TypeOK, PcSet
      <3>3. QED
        BY <1>4, <3>2 DEF RestartFinish, StartWorkerLocked, NoOp, TypeOK, StepSet
    <2>2. ProcessInv' /\ CallInv' /\ StopInv'
      BY <1>4 DEF RestartFinish, StartWorkerLocked, Goto, NoOp, TypeOK, ProcessInv, CallInv, StopInv, HasProcess, Stopping
    <2>3. ReturnedInv' /\ MapInv' /\ ClosedInv' /\ NoOrphanWorker'
      BY <1>4 DEF RestartFinish, StartWorkerLocked, Goto, NoOp, TypeOK, ReturnedInv, MapInv, ClosedInv, NoOrphanWorker, CallInv, Stopping, ProcessInv
    <2>4. QED
      BY <2>1, <2>2, <2>3 DEF IInv
  <1>5. CASE StopProfile(p)
    BY <1>5, BeginStopStep DEF StopProfile
  <1>6. CASE StopFinish
    <2>1. TypeOK'
      <3>1. op.target \in Worker
        BY <1>6 DEF StopFinish, TypeOK, CallInv
      <3>2. workers' \in [Profile -> 0 .. spawned]
        BY <1>6, <3>1 DEF StopFinish, TypeOK
      <3>3. QED
        BY <1>6, <3>2 DEF StopFinish, NoOp, TypeOK, StepSet
    <2>2. ProcessInv' /\ CallInv' /\ StopInv'
      BY <1>6 DEF StopFinish, NoOp, TypeOK, ProcessInv, CallInv, StopInv, HasProcess, Stopping
    <2>3. ReturnedInv' /\ MapInv' /\ ClosedInv' /\ NoOrphanWorker'
      BY <1>6 DEF StopFinish, NoOp, TypeOK, ReturnedInv, MapInv, ClosedInv, NoOrphanWorker, CallInv, Stopping
    <2>4. QED
      BY <2>1, <2>2, <2>3 DEF IInv
  <1>7. CASE AddProfile(p)
    <2>1. TypeOK'
      BY <1>7 DEF AddProfile, TypeOK, PcSet, OsSet, StepSet, HasProcess
    <2>2. ProcessInv' /\ CallInv' /\ StopInv'
      BY <1>7 DEF AddProfile, TypeOK, ProcessInv, CallInv, StopInv, HasProcess, Stopping
    <2>3. ReturnedInv' /\ MapInv' /\ ClosedInv' /\ NoOrphanWorker'
      BY <1>7 DEF AddProfile, TypeOK, ReturnedInv, MapInv, ClosedInv, NoOrphanWorker
    <2>4. QED
      BY <2>1, <2>2, <2>3 DEF IInv
  <1>8. CASE DeleteProfile(p)
    <2>1. TypeOK'
      BY <1>8 DEF DeleteProfile, TypeOK, PcSet, OsSet, StepSet, HasProcess
    <2>2. ProcessInv' /\ CallInv' /\ StopInv'
      BY <1>8 DEF DeleteProfile, TypeOK, ProcessInv, CallInv, StopInv, HasProcess, Stopping
    <2>3. ReturnedInv' /\ MapInv' /\ ClosedInv' /\ NoOrphanWorker'
      BY <1>8 DEF DeleteProfile, TypeOK, ReturnedInv, MapInv, ClosedInv, NoOrphanWorker
    <2>4. QED
      BY <2>1, <2>2, <2>3 DEF IInv
  <1>9. QED
    BY <1>1, <1>2, <1>3, <1>4, <1>5, <1>6, <1>7, <1>8

\* So does StopAll.
LEMMA StopAllStep ==
  ASSUME IInv, StopAllCancel \/ StopAll
  PROVE  IInv'
  <1> USE SupervisorAssumption DEF IInv, Worker, NoWorker, goroutineVars, stopVars
  <1>1. CASE StopAllCancel
    <2>1. TypeOK'
      BY <1>1 DEF StopAllCancel, TypeOK, PcSet, OsSet, StepSet, HasProcess
    <2>2. ProcessInv' /\ CallInv' /\ StopInv'
      BY <1>1 DEF StopAllCancel, TypeOK, ProcessInv, CallInv, StopInv, HasProcess, Stopping
    <2>3. ReturnedInv' /\ MapInv' /\ ClosedInv' /\ NoOrphanWorker'
      BY <1>1 DEF StopAllCancel, TypeOK, ReturnedInv, MapInv, ClosedInv, NoOrphanWorker
    <2>4. QED
      BY <2>1, <2>2, <2>3 DEF IInv
  <1>2. CASE StopAllLock
    <2>1. TypeOK'
      <3>1. op' = [kind |-> "all", target |-> 0, step |-> "after", proc |-> FALSE]
        BY <1>2 DEF StopAllLock, NoOp
      <3>2. op' \in [kind : {"none", "start", "restart", "stop", "all"},
                      target : 0 .. spawned, step : StepSet, proc : BOOLEAN]
        BY <3>1 DEF TypeOK, StepSet
      <3>3. QED
        BY <1>2, <3>2 DEF StopAllLock, TypeOK
    <2>2. ProcessInv' /\ CallInv' /\ StopInv'
      BY <1>2 DEF StopAllLock, NoOp, TypeOK, ProcessInv, CallInv, StopInv, HasProcess, Stopping
    <2>3. ReturnedInv' /\ MapInv' /\ ClosedInv' /\ NoOrphanWorker'
      BY <1>2 DEF StopAllLock, NoOp, TypeOK, ReturnedInv, MapInv, ClosedInv, NoOrphanWorker
    <2>4. QED
      BY <2>1, <2>2, <2>3 DEF IInv
  <1>3. CASE \E p \in Profile : StopAllNext(p)
    <2>1. TypeOK'
      <3>1. op' \in [kind : {"none", "start", "restart", "stop", "all"},
                      target : 0 .. spawned, step : StepSet, proc : BOOLEAN]
        BY <1>3 DEF StopAllNext, TypeOK, StepSet
      <3>2. QED
        BY <1>3, <3>1 DEF StopAllNext, TypeOK
    <2>2. ProcessInv' /\ CallInv' /\ StopInv'
      <3>1. ProcessInv' /\ StopInv'
        BY <1>3 DEF StopAllNext, TypeOK, ProcessInv, CallInv, StopInv, HasProcess, Stopping, MapInv
      <3>2. CallInv'
        BY <1>3 DEF StopAllNext, TypeOK, CallInv, Stopping, MapInv, ProcessInv
      <3>3. QED
        BY <3>1, <3>2
    <2>3. ReturnedInv' /\ MapInv' /\ ClosedInv' /\ NoOrphanWorker'
      BY <1>3 DEF StopAllNext, TypeOK, ReturnedInv, MapInv, ClosedInv, NoOrphanWorker
    <2>4. QED
      BY <2>1, <2>2, <2>3 DEF IInv
  <1>4. CASE StopAllClear
    <2>1. TypeOK'
      BY <1>4 DEF StopAllClear, NoOp, TypeOK, PcSet, OsSet, StepSet, HasProcess
    <2>2. ProcessInv' /\ CallInv' /\ StopInv'
      BY <1>4 DEF StopAllClear, NoOp, TypeOK, ProcessInv, CallInv, StopInv, HasProcess, Stopping
    <2>3. ReturnedInv' /\ MapInv' /\ ClosedInv' /\ NoOrphanWorker'
      BY <1>4 DEF StopAllClear, NoOp, TypeOK, ReturnedInv, MapInv, ClosedInv, NoOrphanWorker
    <2>4. QED
      BY <2>1, <2>2, <2>3 DEF IInv
  <1>5. CASE StopAllReturn
    <2>1. TypeOK'
      BY <1>5 DEF StopAllReturn, TypeOK, PcSet, OsSet, StepSet, HasProcess
    <2>2. ProcessInv' /\ CallInv' /\ StopInv'
      BY <1>5 DEF StopAllReturn, TypeOK, ProcessInv, CallInv, StopInv, HasProcess, Stopping
    <2>3. ReturnedInv' /\ MapInv' /\ ClosedInv' /\ NoOrphanWorker'
      BY <1>5 DEF StopAllReturn, TypeOK, ReturnedInv, MapInv, ClosedInv, NoOrphanWorker
    <2>4. QED
      BY <2>1, <2>2, <2>3 DEF IInv
  <1>6. QED
    BY <1>1, <1>2, <1>3, <1>4, <1>5 DEF StopAll

\* Every step of the specification keeps the invariant: the cases above.
LEMMA StepIInv == IInv /\ [Next]_vars => IInv'
  <1> SUFFICES ASSUME IInv, [Next]_vars PROVE IInv'
    OBVIOUS
  <1>1. CASE UNCHANGED vars
    BY <1>1 DEF vars, IInv, TypeOK, ProcessInv, CallInv, StopInv, ReturnedInv, MapInv,
                ClosedInv, NoOrphanWorker
  <1>2. CASE Next
    <2>1. CASE \E w \in Worker : Goroutine(w)
      BY <2>1, GoroutineStep
    <2>2. CASE \E w \in Worker : ProcessExits(w) \/ KilledDies(w) \/ ContextKill(w)
      BY <2>2, ProcessStep
    <2>3. CASE StopWorker
      BY <2>3, StopWorkerStep
    <2>4. CASE StopAllCancel \/ StopAll
      BY <2>4, StopAllStep
    <2>5. CASE \E p \in Profile : \/ StartNext(p) \/ RestartProfile(p) \/ StopProfile(p)
                                 \/ AddProfile(p) \/ DeleteProfile(p)
      BY <2>5, CallStep
    <2>6. CASE StartReturn \/ RestartFinish \/ StopFinish
      <3>1. PICK p \in Profile : TRUE
        BY SupervisorAssumption
      <3>2. QED
        BY <2>6, <3>1, CallStep
    <2>7. QED
      BY <1>2, <2>1, <2>2, <2>3, <2>4, <2>5, <2>6 DEF Next
  <1>3. QED
    BY <1>1, <1>2

\* The inductive invariant holds in every reachable state.
THEOREM SupervisorInvariant == Spec => []IInv
  BY InitIInv, StepIInv, PTL DEF Spec

\* Type correctness of the supervisor.
THEOREM SupervisorTypeOK == Spec => []TypeOK
  <1>1. IInv => TypeOK
    BY DEF IInv
  <1>2. QED
    BY <1>1, SupervisorInvariant, PTL

\* A stop leaves no process behind that nobody has killed, however it raced
\* with the start of the process.
THEOREM StopIsFinal == Spec => []StoppedProcessIsDoomed
  <1>1. IInv => StoppedProcessIsDoomed
    BY DEF IInv, CallInv, StopInv, ReturnedInv, StoppedProcessIsDoomed, TypeOK, Stopping
  <1>2. QED
    BY <1>1, SupervisorInvariant, PTL

\* No goroutine is forgotten: it is the map's, or its stop timed out.
THEOREM NoOrphan == Spec => []NoOrphanWorker
  <1>1. IInv => NoOrphanWorker
    BY DEF IInv
  <1>2. QED
    BY <1>1, SupervisorInvariant, PTL

\* No FFmpeg runs once StopAll has returned.
THEOREM ShutdownIsComplete == Spec => []NoProcessAfterStopAll
  <1>1. IInv => NoProcessAfterStopAll
    BY DEF IInv, ClosedInv, ProcessInv, HasProcess, NoProcessAfterStopAll, Running
  <1>2. QED
    BY <1>1, SupervisorInvariant, PTL

\* A call that stops or reloads one profile signals no other one's process.
THEOREM StopsAreIsolated == Spec => SignalsStayWithTheStop
  <1> DEFINE Isolated ==
        \A w \in Worker : os[w] = "alive" /\ os'[w] \in {"termed", "killed"}
                           => stopping[w] \/ closing # "no"
  <1>1. IInv /\ Next => Isolated
    <2> SUFFICES ASSUME IInv, Next, NEW w \in Worker,
                        os[w] = "alive", os'[w] \in {"termed", "killed"}
                 PROVE  stopping[w] \/ closing # "no"
      OBVIOUS
    <2> USE DEF IInv, TypeOK, ProcessInv, CallInv, Stopping, stopVars, goroutineVars
    <2>1. CASE \E v \in Worker : Goroutine(v)
      BY <2>1 DEF Goroutine, LoopTop, StartCommand, ForkOk, ForkFails, Publish, SelfKill,
                  WaitReturns, Reap, SleepCut, SleepElapsed
    <2>2. CASE \E v \in Worker : ProcessExits(v) \/ KilledDies(v) \/ ContextKill(v)
      BY <2>2 DEF ProcessExits, KilledDies, ContextKill, CtxDone
    <2>3. CASE StopWorker
      BY <2>3 DEF StopWorker, StopMark, StopCancel, StopTerm, StopGraceExpires,
                  StopSeesDone, StopGivesUp
    <2>4. CASE StopAllCancel \/ StopAll
      BY <2>4 DEF StopAllCancel, StopAll, StopAllLock, StopAllNext, StopAllClear, StopAllReturn
    <2>5. CASE \/ StartReturn \/ RestartFinish \/ StopFinish
               \/ \E p \in Profile : \/ StartNext(p) \/ RestartProfile(p) \/ StopProfile(p)
                                     \/ AddProfile(p) \/ DeleteProfile(p)
      BY <2>5 DEF StartReturn, RestartFinish, StopFinish, StartNext, RestartProfile,
                  StopProfile, BeginStop, StartWorkerLocked, AddProfile, DeleteProfile
    <2>6. QED
      BY <2>1, <2>2, <2>3, <2>4, <2>5 DEF Next
  <1>2. IInv /\ [Next]_vars => [Isolated]_vars
    BY <1>1
  <1>3. QED
    BY <1>2, SupervisorInvariant, PTL DEF Spec, SignalsStayWithTheStop

-----------------------------------------------------------------------------
(* The refinement of WorkerPool.                                           *)

\* What a stop has returned for, and what is not installed at all, is none of the
\* processes the pool still answers for.
LEMMA StoppedIsQuiet ==
  ASSUME IInv, NEW p \in Profile, workers[p] \in returned \cup {NoWorker}
  PROVE  Pool!Quiet(p)
  BY DEF Pool!Quiet, Running, IInv, TypeOK, ProcessInv, HasProcess, ReturnedInv, Worker, NoWorker

\* A signal does not end a process, and the rest of a goroutine's steps leaves it.
LEMMA ProcessMapsToPool ==
  ASSUME IInv, NEW w \in Worker,
         Goroutine(w) \/ ProcessExits(w) \/ KilledDies(w) \/ ContextKill(w)
  PROVE  Pool!Next \/ UNCHANGED Pool!vars
  <1> USE DEF IInv, TypeOK, ProcessInv, HasProcess, Running, goroutineVars, stopVars, Goto, Pool!vars
  <1>1. CASE ForkOk(w)
    <2>1. closing # "done" /\ ~Running(w)
      BY <1>1 DEF ForkOk, ClosedInv
    <2>2. w \in gaveUp \/ \E p \in Profile : workers[p] = w
      BY <1>1 DEF ForkOk, NoOrphanWorker
    <2>3. {v \in Worker : Running(v)'} = {v \in Worker : Running(v)} \cup {w}
      BY <1>1 DEF ForkOk
    <2>4. Pool!Up(w)
      BY <1>1, <2>1, <2>2, <2>3 DEF ForkOk, Pool!Up
    <2>5. QED
      BY <2>4 DEF Pool!Next, Pool!Worker, Worker
  <1>2. CASE ProcessExits(w) \/ KilledDies(w)
    <2>1. {v \in Worker : Running(v)'} = {v \in Worker : Running(v)} \ {w}
      BY <1>2 DEF ProcessExits, KilledDies
    <2>2. Pool!Down(w)
      BY <1>2, <2>1 DEF ProcessExits, KilledDies, Pool!Down
    <2>3. QED
      BY <2>2 DEF Pool!Next, Pool!Worker, Worker
  <1>3. CASE SelfKill(w) \/ ContextKill(w) \/ WaitReturns(w)
    <2>1. \A v \in Worker : Running(v)' = Running(v)
      BY <1>3 DEF SelfKill, ContextKill, WaitReturns, Kill, OsSet
    <2>2. UNCHANGED <<workers, spawned, gaveUp, closing>>
      BY <1>3 DEF SelfKill, ContextKill, WaitReturns
    <2>3. QED
      BY <2>1, <2>2
  <1>4. CASE LoopTop(w) \/ StartCommand(w) \/ ForkFails(w) \/ Publish(w) \/ Reap(w) \/ SleepCut(w) \/ SleepElapsed(w)
    BY <1>4 DEF LoopTop, StartCommand, ForkFails, Publish, Reap, SleepCut, SleepElapsed
  <1>5. QED
    BY <1>1, <1>2, <1>3, <1>4 DEF Goroutine

\* Of a stop the pool sees only that it gave up.
LEMMA StopMapsToPool ==
  ASSUME IInv, StopWorker
  PROVE  Pool!Next \/ UNCHANGED Pool!vars
  <1> USE DEF IInv, TypeOK, goroutineVars, stopVars, Pool!vars
  <1>1. CASE StopMark \/ StopCancel \/ StopSeesDone
    BY <1>1 DEF StopMark, StopCancel, StopSeesDone, Running
  <1>2. CASE StopTerm \/ StopGraceExpires
    <2>1. \A v \in Worker : Running(v)' = Running(v)
      BY <1>2 DEF StopTerm, StopGraceExpires, Term, Kill, Running, OsSet
    <2>2. UNCHANGED <<workers, spawned, gaveUp, closing>>
      BY <1>2 DEF StopTerm, StopGraceExpires
    <2>3. QED
      BY <2>1, <2>2
  <1>3. CASE StopGivesUp
    <2>1. op.target \in Worker /\ workers[token[op.target]] = op.target
      <3>1. op.target # NoWorker /\ workers[token[op.target]] = op.target
        BY <1>3 DEF StopGivesUp, CallInv, Stopping
      <3>2. op.target \in 0 .. spawned /\ spawned \in 0 .. MaxWorkers
        OBVIOUS
      <3>3. QED
        BY <3>1, <3>2, SupervisorAssumption DEF Worker, NoWorker
    <2>2. token[op.target] \in Profile
      BY <2>1
    <2>3. CASE pc[op.target] = "done"
      BY <1>3, <2>3 DEF StopGivesUp, Running
    <2>4. CASE pc[op.target] # "done"
      <3>1. Pool!Report(token[op.target])
        BY <1>3, <2>1, <2>4 DEF StopGivesUp, Running, Pool!Report, Pool!NoWorker, Worker
      <3>2. QED
        BY <2>2, <3>1 DEF Pool!Next
    <2>5. QED
      BY <2>3, <2>4
  <1>4. QED
    BY <1>1, <1>2, <1>3 DEF StopWorker

\* A worker is installed where the pool is quiet, whichever call installs it.
LEMMA InstallMapsToPool ==
  ASSUME IInv, NEW p \in Profile, spawned < MaxWorkers, StartWorkerLocked(p),
         workers[p] \in returned \cup {NoWorker}, UNCHANGED <<gaveUp, closing>>
  PROVE  Pool!Next
  <1>1. Pool!Install(p)
    BY StoppedIsQuiet DEF StartWorkerLocked, Pool!Install, Running
  <1>2. QED
    BY <1>1 DEF Pool!Next

\* The calls install and remove workers, and StopAll closes the pool.
LEMMA CallMapsToPool ==
  ASSUME IInv, NEW p \in Profile,
         \/ StartNext(p) \/ RestartProfile(p) \/ StopProfile(p) \/ AddProfile(p) \/ DeleteProfile(p)
         \/ StartReturn \/ RestartFinish \/ StopFinish \/ StopAllCancel \/ StopAll
  PROVE  Pool!Next \/ UNCHANGED Pool!vars
  <1> USE DEF IInv, goroutineVars, stopVars
  <1>1. CASE StartNext(p)
    BY <1>1, InstallMapsToPool DEF StartNext
  <1>2. ASSUME NEW kind, BeginStop(kind, p) PROVE UNCHANGED Pool!vars
    BY <1>2 DEF BeginStop, Pool!vars, Running
  <1>3. CASE RestartProfile(p) \/ StopProfile(p)
    BY <1>2, <1>3, InstallMapsToPool DEF RestartProfile, StopProfile
  <1>4. CASE AddProfile(p) \/ DeleteProfile(p) \/ StartReturn \/ StopAllCancel
    BY <1>4 DEF AddProfile, DeleteProfile, StartReturn, StopAllCancel, Pool!vars, Running
  <1>5. ASSUME RestartFinish \/ StopFinish
        PROVE  /\ token[op.target] \in Profile /\ workers[token[op.target]] = op.target
               /\ op.target \in returned
    BY <1>5 DEF RestartFinish, StopFinish, CallInv, TypeOK, Worker, NoWorker
  <1>6. CASE RestartFinish
    <2>1. spawned < MaxWorkers
      BY <1>6 DEF RestartFinish, CallInv
    <2>2. QED
      BY <1>5, <1>6, <2>1, InstallMapsToPool DEF RestartFinish
  <1>7. CASE StopFinish
    <2>1. Pool!Remove({token[op.target]})
      <3>1. Pool!Quiet(token[op.target])
        BY <1>5, <1>7, StoppedIsQuiet
      <3>2. workers' = [q \in Profile |-> IF q \in {token[op.target]} THEN NoWorker ELSE workers[q]]
        BY <1>7 DEF StopFinish, TypeOK
      <3>3. QED
        BY <1>7, <3>1, <3>2 DEF StopFinish, Pool!Remove, Pool!NoWorker, NoWorker, Running
    <2>2. QED
      BY <1>5, <1>7, <2>1 DEF Pool!Next
  <1>8. CASE StopAllLock \/ \E q \in Profile : StopAllNext(q)
    BY <1>8 DEF StopAllLock, StopAllNext, Pool!vars, Running
  <1>9. CASE StopAllClear
    <2>1. \A q \in Profile : Pool!Quiet(q)
      BY <1>9, StoppedIsQuiet DEF StopAllClear
    <2>2. closing # "done" /\ closing' # "done"
      BY <1>9 DEF StopAllClear, CallInv
    <2>3. Pool!Remove(Profile)
      BY <1>9, <2>1, <2>2 DEF StopAllClear, Pool!Remove, Pool!NoWorker, NoWorker, Running
    <2>4. QED
      BY <2>3 DEF Pool!Next
  <1>10. CASE StopAllReturn
    <2>1. \A w \in Worker : ~Running(w)
      BY <1>10 DEF StopAllReturn, ProcessInv, HasProcess, Running
    <2>2. Pool!Close
      BY <1>10, <2>1 DEF StopAllReturn, Pool!Close, Running
    <2>3. QED
      BY <2>2 DEF Pool!Next
  <1>11. QED
    BY <1>1, <1>3, <1>4, <1>6, <1>7, <1>8, <1>9, <1>10 DEF StopAll

\* The supervisor, with its goroutines, signals and time-outs, does step by step
\* what the worker pool promises.
THEOREM SupervisorIsWorkerPool == Spec => ImplementsWorkerPool
  <1>1. Init => Pool!Init
    BY DEF Init, Pool!Init, Pool!NoWorker, NoWorker, Running
  <1>2. IInv /\ [Next]_vars => [Pool!Next]_(Pool!vars)
    <2> SUFFICES ASSUME IInv, [Next]_vars PROVE Pool!Next \/ UNCHANGED Pool!vars
      OBVIOUS
    <2>1. CASE UNCHANGED vars
      BY <2>1 DEF vars, Pool!vars, Running
    <2>2. CASE Next
      <3>1. PICK p \in Profile : TRUE
        BY SupervisorAssumption
      <3>2. QED
        BY <2>2, <3>1, ProcessMapsToPool, StopMapsToPool, CallMapsToPool DEF Next
    <2>3. QED
      BY <2>1, <2>2
  <1>3. QED
    BY <1>1, <1>2, SupervisorInvariant, PTL DEF Spec, ImplementsWorkerPool, Pool!Spec

=============================================================================
