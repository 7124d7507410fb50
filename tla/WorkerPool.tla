----------------------------- MODULE WorkerPool -----------------------------
(***************************************************************************)
(* What the rest of the program may rely on about the supervisor, without  *)
(* goroutines, contexts, signals and timers: every profile has at most one *)
(* worker, processes run only for a worker that is installed or that the   *)
(* supervisor has reported as not exiting in time, a worker is replaced    *)
(* only after its process is gone or so reported, and once the pool is     *)
(* closed nothing runs any more.                                           *)
(***************************************************************************)
EXTENDS Naturals

CONSTANTS Profile, MaxWorkers

Worker   == 1 .. MaxWorkers
NoWorker == 0

VARIABLES
  owner,   \* the installed worker of each profile
  used,    \* workers installed so far
  live,    \* workers whose process runs
  lost,    \* workers reported as not exiting in time
  closed

vars == <<owner, used, live, lost, closed>>

Init ==
  /\ owner = [p \in Profile |-> NoWorker]
  /\ used = 0 /\ live = {} /\ lost = {} /\ closed = FALSE

\* No process of profile p is running that the pool still answers for.
Quiet(p) == owner[p] \notin live \ lost

Install(p) ==
  /\ used < MaxWorkers /\ Quiet(p)
  /\ used' = used + 1
  /\ owner' = [owner EXCEPT ![p] = used + 1]
  /\ UNCHANGED <<live, lost, closed>>

Remove(S) ==
  /\ \A p \in S : Quiet(p)
  /\ owner' = [p \in Profile |-> IF p \in S THEN NoWorker ELSE owner[p]]
  /\ UNCHANGED <<used, live, lost, closed>>

Report(p) ==
  /\ owner[p] # NoWorker
  /\ lost' = lost \cup {owner[p]}
  /\ UNCHANGED <<owner, used, live, closed>>

Up(w) ==
  /\ ~closed /\ w \notin live
  /\ w \in lost \/ \E p \in Profile : owner[p] = w
  /\ live' = live \cup {w}
  /\ UNCHANGED <<owner, used, lost, closed>>

Down(w) ==
  /\ w \in live
  /\ live' = live \ {w}
  /\ UNCHANGED <<owner, used, lost, closed>>

Close ==
  /\ live = {} /\ closed' = TRUE
  /\ UNCHANGED <<owner, used, live, lost>>

Next ==
  \/ \E p \in Profile : Install(p) \/ Report(p)
  \/ \E S \in SUBSET Profile : Remove(S)
  \/ \E w \in Worker : Up(w) \/ Down(w)
  \/ Close

Spec == Init /\ [][Next]_vars

=============================================================================
