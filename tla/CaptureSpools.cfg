SPECIFICATION Spec
CONSTANTS
  Tabs = {A, B}
  Recorder = A
  StreamCount = 2
  Chunks = 2
  MaxPackets = 2
  None = None
INVARIANTS ToldIsKept TailsAreJournalled NeverRefused SealedIsSettled NoCircularWait
PROPERTIES ImplementsLog
