SPECIFICATION SourcesSpec
CONSTANTS
  \* eventfd, signalfd
  Threads = {r1, r2}
  MaxCounter = 2
  Signals = {1, 2}
  NoOwner = NoOwner
  Room = 2
  \* timerfd
  Readers = {r1}
  MaxTime = 4
  Offsets = {1, 3}
  Values = {0, 1, 3}
  Intervals = {0, 2}
  \* the step detector
  Timers = {f1, f2}
  MaxOffset = 3
  MaxGeneration = 2
  \* a node
  Kinds = {"socket", "in", "out", "inout", "other"}
  Interests = {{}, {"IN"}, {"RDHUP"}, {"OUT"}, {"IN", "OUT"}, {"OUT", "RDHUP"}, {"IN", "OUT", "RDHUP"}}
  \* ppoll
  Caught = {1}
  Restarted = {2}
INVARIANTS CounterReadable PendingReadable EventArmed OneDetector DueReadable ReportsTrue SignalEndsWait
PROPERTIES ImplementsCounter ExpirationsExact StepTold PassEnds
CHECK_DEADLOCK FALSE
