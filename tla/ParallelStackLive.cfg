SPECIFICATION FairSpec
CONSTANTS
  Workers = {"w1", "w2"}
  Tasks <- ChainTasks
  Owner <- ChainOwner
  Deps <- ChainDeps
  Quantum = 4
  Block = 4
  Latency = 12
  Banks = 5
  EndFrames = {}
  Failures = {"Crash", "Throw", "Dispose", "Quantum"}
  MaxFrame = 8
  NoTask = NoTask
  NoFrame = NoFrame
PROPERTIES EndsForGood PublishedGetsDone WorkersLeave
CHECK_DEADLOCK FALSE
