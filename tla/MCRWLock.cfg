SPECIFICATION FairSpec
CONSTANTS
  Threads = {t1, t2, t3, t4}
  MaxReaders = 8
  NoOwner = NoOwner
INVARIANTS MutualExclusion Accounting
PROPERTIES ImplementsRWLock EveryoneEnters
