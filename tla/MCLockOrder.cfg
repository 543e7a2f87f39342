SPECIFICATION FairSpec
CONSTANTS
  Threads = {t1, t2, t3}
  EpollFds = {0, 1}
  SignalFds = {2}
  TimerFds = {}
  NoDesc = NoDesc
  NoOwner = NoOwner
PROPERTIES CallsReturn
