SPECIFICATION Spec
CONSTANTS
  ThreadCount = 3
  MaxJobs = 5
  CreateMayFail = TRUE
  MainSpurious = FALSE
  WorkerSpurious = FALSE
INVARIANTS ReturnsWhenDone OneWorkerPerJob
PROPERTIES CallsComeBack ImplementsPool
CHECK_DEADLOCK FALSE
