SPECIFICATION Spec
CONSTANTS
  Profile = {p1, p2}
  MaxWorkers = 3
SYMMETRY Symmetry
INVARIANTS StoppedProcessIsDoomed NoOrphanWorker NoProcessAfterStopAll
PROPERTIES SignalsStayWithTheStop ImplementsWorkerPool
