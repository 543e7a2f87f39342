\* As MCEpollWait, one-shot registrations only, under fairness.
SPECIFICATION FairSpec
CONSTANTS
  Waiters = {w1, w2}
  Controllers = {c}
  Fds = {p, k}
  PollOnly = {p}
  Modes = {"oneshot"}
  MaxEvents = 1
  NoOwner = NoOwner
PROPERTIES WaiterServed RepollEnds
