---------------------------- MODULE EventSources -----------------------------
(***************************************************************************)
(* What a descriptor can be whose readiness an event loop waits for: an    *)
(* eventfd, a signalfd, a timerfd with the detector of clock steps behind  *)
(* it, or a file of the kernel's own, whose readiness the epoll instance   *)
(* translates; and the ppoll the loop waits in.  A behaviour is about one  *)
(* of them, which the first step chooses; the state of the others stays as *)
(* it is initially.  Descriptors share no state but the table and the      *)
(* kqueues they are in, which FdTable.tla and EpollWait.tla model.         *)
(***************************************************************************)
EXTENDS EventFd, Integers, Sequences, FiniteSets

VARIABLES
  source,                                                          \* the choice
  sigs, pending, observed, mutex, caller, got,                     \* signalfd
  now, offset, exists, timer, kq, reader, inside, lost, tally,     \* timerfd
  open, abstime, known, change, nr_fds, generation, detectors,     \* the step detector
  failed, missed,
  file, node, knote, user, kevs, revents, got_evfilt, at, unseen,  \* a node of an instance
  held,
  blocked, posted, due, call, kqueued, fired, handled              \* ppoll

CONSTANTS
  Signals, NoOwner, Room,                        \* of SignalFd
  Readers, MaxTime, Offsets, Values, Intervals,  \* of TimerFd
  Timers, MaxOffset, MaxGeneration,              \* of StepDetector
  Kinds, Interests,                              \* of EpollNode
  Caught, Restarted                              \* of CompatPpoll

ASSUME EventSourcesAssumption ==
  /\ Room \in Nat \ {0} /\ NoOwner \notin Threads /\ IsFiniteSet(Timers)
  /\ {MaxTime, MaxOffset, MaxGeneration} \cup Values \cup Intervals \subseteq Nat
  /\ Offsets \subseteq Nat \ {0} /\ 1 \in Offsets
  /\ \A events \in Interests : events \subseteq {"IN", "OUT", "RDHUP"}

\* The kinds of descriptors share the names of O_NONBLOCK and the kqueue event, a timerfd
\* and the detector the clock; where their callers are has a name for each.
Signal   == INSTANCE SignalFd WITH pc <- caller
Timer    == INSTANCE TimerFd WITH pc <- reader
Detector == INSTANCE StepDetector
Node     == INSTANCE EpollNode
Ppoll    == INSTANCE CompatPpoll

signalvars   == <<sigs, pending, observed, mutex, caller, got>>
timervars    == <<now, exists, timer, kq, reader, inside, lost, tally>>
detectorvars == <<open, abstime, known, change, nr_fds, generation, detectors, failed, missed>>
nodevars     == <<file, node, knote, user, kevs, revents, got_evfilt, at, unseen, held>>
ppollvars    == <<blocked, posted, due, call, kqueued, fired, handled>>
eventvars    == <<installed, semaphore, counter, value>>
allvars == <<source, vars, signalvars, timervars, offset, detectorvars, nodevars, ppollvars>>

SourcesInit ==
  /\ source = "none"
  /\ Init /\ Signal!Init /\ offset = 1 /\ Timer!Init /\ Detector!Init
  /\ Node!Init /\ Ppoll!Init

Sources == {"eventfd", "signalfd", "timerfd", "step detector", "node", "ppoll"}
Choose == source = "none" /\ source' \in Sources
          /\ UNCHANGED <<vars, signalvars, timervars, offset, detectorvars, nodevars, ppollvars>>

Only(kind) == source = kind /\ UNCHANGED source

SourcesNext ==
  \/ Choose
  \/ Only("eventfd") /\ Next
     /\ UNCHANGED <<signalvars, timervars, offset, detectorvars, nodevars, ppollvars>>
  \/ Only("signalfd") /\ Signal!Next
     /\ UNCHANGED <<eventvars, pc, timervars, offset, detectorvars, nodevars, ppollvars>>
  \/ Only("timerfd") /\ Timer!Next
     /\ UNCHANGED <<eventvars, event, pc, signalvars, detectorvars, nodevars, ppollvars>>
  \/ Only("step detector") /\ Detector!Next
     /\ UNCHANGED <<vars, signalvars, timervars, nodevars, ppollvars>>
  \/ Only("node") /\ Node!Next
     /\ UNCHANGED <<vars, signalvars, timervars, offset, detectorvars, ppollvars>>
  \/ Only("ppoll") /\ Ppoll!Next
     /\ UNCHANGED <<vars, signalvars, timervars, offset, detectorvars, nodevars>>

\* Before the choice, and in the components it does not name, nothing is enabled that
\* these speak of.
SourcesFairness ==
  Fairness /\ Detector!Fairness /\ Node!Fairness

SourcesSpec == SourcesInit /\ [][SourcesNext]_allvars /\ SourcesFairness
-----------------------------------------------------------------------------
(* The properties of the components, under the names their modules give them. *)

PendingReadable   == Signal!PendingReadable
EventArmed        == Timer!EventArmed
ExpirationsExact  == Timer!ExpirationsExact
OneDetector       == Detector!OneDetector
StepTold          == Detector!StepTold
DueReadable       == Node!DueReadable
ReportsTrue       == Node!ReportsTrue
PassEnds          == Node!PassEnds
SignalEndsWait    == Ppoll!SignalEndsWait
=============================================================================
