------------------------ MODULE SupervisorRefinement ------------------------
(* The supervisor implements the worker pool.                              *)
EXTENDS Supervisor

Pool == INSTANCE WorkerPool WITH
          owner  <- workers,
          used   <- spawned,
          live   <- {w \in Worker : Running(w)},
          lost   <- gaveUp,
          closed <- closing = "done"

\* Start, RestartProfile, StopProfile, StopAll and the goroutines implement the
\* pool's promise step by step: no second process for a profile, none that
\* outlives its worker unreported, none after the pool is closed.
ImplementsWorkerPool == Pool!Spec

=============================================================================
