\* A poll-only descriptor and one of the kqueue, two waiting threads.
SPECIFICATION Spec
CONSTANTS
  Waiters = {w1, w2}
  Controllers = {c}
  Fds = {p, k}
  PollOnly = {p}
  Modes = {"level", "edge", "oneshot"}
  MaxEvents = 1
  NoOwner = NoOwner
INVARIANTS PollersCurrent OneshotOnce
SYMMETRY Symmetry
