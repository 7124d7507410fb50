\* The program may stop: after StopAll every goroutine is done.
CHECK_DEADLOCK FALSE
SPECIFICATION FairSpec
CONSTANTS
  Profile = {p1}
  MaxWorkers = 3
PROPERTIES StoppedWorkerEnds StopAllReturns DeadProcessIsReplaced
