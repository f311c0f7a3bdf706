SPECIFICATION Spec
CONSTANTS
  Workers = {"w1", "w2"}
  Tasks <- ChainTasks
  Owner <- ChainOwner
  Deps <- ChainDeps
  Quantum = 2
  Block = 4
  Latency = 12
  Banks = 5
  EndFrames = {3, 17}
  Failures = {"Quantum"}
  MaxFrame = 2
  NoTask = NoTask
  NoFrame = NoFrame
INVARIANT FaultEndsGeneration
CHECK_DEADLOCK FALSE
