SPECIFICATION Spec
CONSTANTS
  Threads = {t1, t2}
  Fds = {0, 1, 2}
  AppFds = {2}
  Descs = {d1, d2}
  NoDesc = NoDesc
  NoNode = NoNode
  NoOwner = NoOwner
INVARIANTS ReferencesCounted MutexOutlivesOwner ClosedForgotten
SYMMETRY Symmetry
