SPECIFICATION Spec
CONSTANTS
  Workers = {"w1", "w2"}
  Tasks <- MixTasks
  Owner <- MixOwner
  Deps <- MixDeps
  Quantum = 1
  Block = 2
  Latency = 6
  Banks = 5
  EndFrames = {7}
  Failures = {}
  MaxFrame = 11
  NoTask = NoTask
  NoFrame = NoFrame
INVARIANTS TypeOK OwnPlanesOnly
PROPERTIES ImplementsPipeline
CHECK_DEADLOCK FALSE
