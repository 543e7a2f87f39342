------------------------------ MODULE EpollWait -----------------------------
(***************************************************************************)
(* One epoll instance of the shim: threads that wait for events            *)
(* (epollfd_ctx_wait_or_block in epoll.c, epollfd_ctx_wait in              *)
(* epollfd_ctx.c) while others add, modify and delete descriptors.         *)
(*                                                                         *)
(* Most descriptors are registered with the kqueue behind the instance.    *)
(* Those that kqueue refuses are poll-only: a waiting thread passes them   *)
(* to ppoll together with the kqueue.  A change of their list must reach   *)
(* the threads already inside ppoll, which trigger_repoll does: it makes   *)
(* the kqueue readable and waits, with the instance's mutex, until all     *)
(* have left.  The only event is readability.                              *)
(***************************************************************************)
EXTENDS Integers, FiniteSets, FiniteSetsExt

CONSTANTS
  Waiters, Controllers,  \* threads that call epoll_wait, epoll_ctl
  Fds, PollOnly,         \* descriptors, those that kqueue refuses
  Modes,                 \* how descriptors are registered
  MaxEvents,             \* the size of the array given to epoll_wait
  NoOwner

ASSUME EpollWaitAssumption ==
  /\ IsFiniteSet(Waiters \cup Controllers) /\ Waiters \cap Controllers = {}
  /\ IsFiniteSet(Fds) /\ PollOnly \subseteq Fds
  /\ Modes \subseteq {"level", "edge", "oneshot"}
  /\ MaxEvents \in Nat \ {0} /\ NoOwner \notin Waiters \cup Controllers

Threads == Waiters \cup Controllers
NoNode  == [mode |-> "none", armed |-> FALSE]

VARIABLES
  file,      \* what each descriptor is: "idle", "ready", "closed"
  node,      \* registered_fds: the mode, and whether it is in poll_fds or the kqueue
  knote,     \* events that stay active in the kqueue until retrieved (EV_CLEAR)
  self,      \* is the instance's own event (ident 0) active?
  reported,  \* was an event returned since the last edge, add or mod?
  mutex,     \* the owner of the description's mutex
  nr_polling_threads,
  pfds,      \* what each thread passed to ppoll besides the kqueue
  expired,   \* has the thread's timeout passed?
  pc, next   \* next: where the thread goes on after repoll or ppoll

vars == <<file, node, knote, self, reported, mutex, nr_polling_threads, pfds, expired,
          pc, next>>
kqueue == <<knote, self>>

Init ==
  /\ file = [fd \in Fds |-> "idle"]
  /\ node = [fd \in Fds |-> NoNode]
  /\ knote = [fd \in Fds |-> FALSE]
  /\ self = FALSE
  /\ reported = [fd \in Fds |-> FALSE]
  /\ mutex = NoOwner
  /\ nr_polling_threads = 0
  /\ pfds = [t \in Threads |-> {}]
  /\ expired = [t \in Threads |-> FALSE]
  /\ pc = [t \in Threads |-> "idle"]
  /\ next = [t \in Threads |-> "idle"]

Goto(t, l) == pc' = [pc EXCEPT ![t] = l]

PollList == {fd \in PollOnly : node[fd].armed}

\* The knotes with an event; that of a level-triggered one is its file's state.
Active == {fd \in Fds : knote[fd]}
          \cup {fd \in Fds \ PollOnly : node[fd] = [mode |-> "level", armed |-> TRUE]
                                        /\ file[fd] = "ready"}
KqReadable == self \/ Active # {}
-----------------------------------------------------------------------------
(* The files: data arrives and is read; a poll-only descriptor is closed
   behind the shim's back, and its number opened again. *)

Rise(fd) ==
  /\ file[fd] = "idle"
  /\ file' = [file EXCEPT ![fd] = "ready"]
  /\ knote' = [knote EXCEPT ![fd] = @ \/ (fd \notin PollOnly /\ node[fd].armed
                                         /\ node[fd].mode # "level")]
  /\ reported' = [reported EXCEPT ![fd] = @ /\ node[fd].mode # "edge"]
  /\ UNCHANGED <<node, self, mutex, nr_polling_threads, pfds, expired, pc, next>>

\* A knote of the file itself is active only while the file is ready.
Fall(fd) ==
  /\ file[fd] = "ready"
  /\ file' = [file EXCEPT ![fd] = "idle"]
  /\ knote' = [knote EXCEPT ![fd] = @ /\ fd \in PollOnly]
  /\ UNCHANGED <<node, self, reported, mutex, nr_polling_threads, pfds, expired, pc, next>>

CloseFile(fd) ==
  /\ fd \in PollOnly /\ file[fd] # "closed"
  /\ file' = [file EXCEPT ![fd] = "closed"]
  /\ UNCHANGED <<node, kqueue, reported, mutex, nr_polling_threads, pfds, expired, pc, next>>

OpenFile(fd) ==
  /\ file[fd] = "closed" /\ node[fd] = NoNode
  /\ file' = [file EXCEPT ![fd] = "idle"]
  /\ UNCHANGED <<node, kqueue, reported, mutex, nr_polling_threads, pfds, expired, pc, next>>
-----------------------------------------------------------------------------
(* Under the mutex t has made its changes and goes on at l, "idle" being the
   return.  If it changed poll_fds it first makes the threads in ppoll leave. *)

Leave(t, l) == Goto(t, l) /\ mutex' = IF l = "idle" THEN NoOwner ELSE t

\* Mutant: the threads in ppoll are woken but not waited for.
MutRepoll(t, changed, l, triggered) ==
  /\ self' = (triggered \/ (changed /\ nr_polling_threads > 0))
  /\ Leave(t, l)
  /\ next' = next

Repoll(t, changed, l, triggered) ==
  IF changed /\ nr_polling_threads > 0
  THEN /\ self' = TRUE
       /\ Goto(t, "repoll") /\ mutex' = t
       /\ next' = [next EXCEPT ![t] = l]
  ELSE /\ self' = triggered
       /\ Leave(t, l)
       /\ next' = next

Repolled(t) ==
  /\ pc[t] = "repoll"
  /\ nr_polling_threads = 0
  /\ Leave(t, next[t])
  /\ UNCHANGED <<file, node, kqueue, reported, nr_polling_threads, pfds, expired, next>>
-----------------------------------------------------------------------------
(* epoll_ctl *)

\* Mutant: the threads in ppoll are not told of a new poll-only descriptor.
MutRegister(t, fd, mode) ==
  /\ node' = [node EXCEPT ![fd] = [mode |-> mode, armed |-> TRUE]]
  /\ knote' = [knote EXCEPT ![fd] = IF fd \in PollOnly THEN @
                                    ELSE mode # "level" /\ file[fd] = "ready"]
  /\ reported' = [reported EXCEPT ![fd] = FALSE]
  /\ Repoll(t, FALSE, "idle", self)

\* Registering again makes the event of a file that is ready active again.
Register(t, fd, mode) ==
  /\ node' = [node EXCEPT ![fd] = [mode |-> mode, armed |-> TRUE]]
  /\ knote' = [knote EXCEPT ![fd] = IF fd \in PollOnly THEN @
                                    ELSE mode # "level" /\ file[fd] = "ready"]
  /\ reported' = [reported EXCEPT ![fd] = FALSE]
  /\ Repoll(t, fd \in PollOnly, "idle", self)

Remove(t, fds, l) ==
  /\ node' = [fd \in Fds |-> IF fd \in fds THEN NoNode ELSE node[fd]]
  /\ knote' = [fd \in Fds |-> knote[fd] /\ fd \notin fds]
  /\ Repoll(t, fds \cap PollList # {}, l, self)

epoll_ctl(t) ==
  /\ pc[t] = "idle" /\ mutex = NoOwner
  /\ \E fd \in Fds :
       IF file[fd] = "closed"
       THEN Remove(t, {fd}, "idle") /\ UNCHANGED reported
       ELSE \/ node[fd] = NoNode /\ \E mode \in Modes : Register(t, fd, mode)  \* ADD
            \/ node[fd] # NoNode /\ \E mode \in Modes : Register(t, fd, mode)  \* MOD
            \/ Remove(t, {fd}, "idle") /\ UNCHANGED reported                   \* DEL
  /\ UNCHANGED <<file, nr_polling_threads, pfds, expired>>
-----------------------------------------------------------------------------
(* epoll_wait *)

\* With any timeout: zero has passed already.
epoll_wait(t) ==
  /\ pc[t] = "idle"
  /\ \E zero \in BOOLEAN : expired' = [expired EXCEPT ![t] = zero]
  /\ Goto(t, "wait")
  /\ UNCHANGED <<file, node, kqueue, reported, mutex, nr_polling_threads, pfds, next>>

\* No event: give up or block.
NoEvent(t) ==
  /\ mutex' = NoOwner
  /\ Goto(t, IF expired[t] THEN "idle" ELSE "block")

\* epollfd_ctx_wait up to the kevent call: poll everything without blocking,
\* remove the poll-only nodes that are closed, trigger those that are ready.
WaitPoll(t) ==
  /\ pc[t] = "wait" /\ mutex = NoOwner
  /\ LET closed == {fd \in PollList : file[fd] = "closed"}
         ready  == {fd \in PollList : file[fd] = "ready"}
     IN IF ~KqReadable /\ closed \cup ready = {}
        THEN NoEvent(t) /\ UNCHANGED <<node, kqueue, next>>
        ELSE /\ node' = [fd \in Fds |-> IF fd \in closed THEN NoNode ELSE node[fd]]
             /\ knote' = [fd \in Fds |-> (knote[fd] \/ fd \in ready) /\ fd \notin closed]
             /\ Repoll(t, closed # {}, "retrieve", self)
  /\ UNCHANGED <<file, reported, nr_polling_threads, pfds, expired>>

\* kevent returns as many active events as there is room for; the array has room
\* for all of them when it has for all registered descriptors.
Room ==
  LET all == Cardinality(Active) + (IF self THEN 1 ELSE 0)
  IN IF MaxEvents >= Cardinality({fd \in Fds : node[fd] # NoNode}) THEN all
     ELSE Min({MaxEvents, all})

Retrieves(events, own) ==
  /\ own => self
  /\ Cardinality(events) + (IF own THEN 1 ELSE 0) = Room
  /\ knote' = [fd \in Fds |-> knote[fd] /\ fd \notin events]

NoneActive(t) ==
  /\ pc[t] = "retrieve" /\ ~KqReadable
  /\ NoEvent(t)
  /\ UNCHANGED <<file, node, kqueue, reported, nr_polling_threads, pfds, expired, next>>

\* Only the instance's own event, or files no longer ready: kevent again.
Again(t) ==
  /\ pc[t] = "retrieve" /\ KqReadable
  /\ \E events \in SUBSET Active, own \in BOOLEAN :
       /\ Retrieves(events, own)
       /\ \A fd \in events : file[fd] # "ready"
       /\ self' = (self /\ ~own)
  /\ UNCHANGED <<file, node, reported, mutex, nr_polling_threads, pfds, expired, pc, next>>

\* Mutant: one-shot descriptors stay registered.
MutDisarmed(fds) == node

\* A one-shot descriptor that was reported leaves the kqueue or poll_fds.
Disarmed(fds) ==
  [fd \in Fds |-> IF fd \in fds /\ node[fd].mode = "oneshot"
                  THEN [node[fd] EXCEPT !.armed = FALSE] ELSE node[fd]]

Report(t) ==
  /\ pc[t] = "retrieve"
  /\ \E events \in SUBSET Active, own \in BOOLEAN :
       LET found == {fd \in events : file[fd] = "ready"}
           off   == {fd \in found \cap PollList : node[fd].mode = "oneshot"}
       IN /\ Retrieves(events, own)
          /\ found # {}
          /\ reported' = [fd \in Fds |-> reported[fd] \/ fd \in found]
          /\ node' = Disarmed(found)
          /\ Repoll(t, off # {}, "idle", self /\ ~own)
  /\ UNCHANGED <<file, nr_polling_threads, pfds, expired>>

Block(t) ==
  /\ pc[t] = "block" /\ mutex = NoOwner
  /\ pfds' = [pfds EXCEPT ![t] = PollList]
  /\ nr_polling_threads' = nr_polling_threads + 1
  /\ Goto(t, "ppoll")
  /\ UNCHANGED <<file, node, kqueue, reported, mutex, expired, next>>

\* Mutant: only the descriptors wake the thread.
MutWake(t) ==
  /\ pc[t] = "ppoll"
  /\ \/ Active # {}
     \/ \E fd \in pfds[t] : file[fd] # "idle"
  /\ Goto(t, "woken") /\ next' = [next EXCEPT ![t] = "wait"]
  /\ UNCHANGED <<file, node, kqueue, reported, mutex, nr_polling_threads, pfds, expired>>

Wake(t) ==
  /\ pc[t] = "ppoll"
  /\ KqReadable \/ \E fd \in pfds[t] : file[fd] # "idle"
  /\ Goto(t, "woken") /\ next' = [next EXCEPT ![t] = "wait"]
  /\ UNCHANGED <<file, node, kqueue, reported, mutex, nr_polling_threads, pfds, expired>>

Timeout(t) ==
  /\ pc[t] = "ppoll"
  /\ expired' = [expired EXCEPT ![t] = TRUE]
  /\ Goto(t, "woken") /\ next' = [next EXCEPT ![t] = "wait"]
  /\ UNCHANGED <<file, node, kqueue, reported, mutex, nr_polling_threads, pfds>>

\* A signal: ppoll fails and epoll_wait with it.
Interrupt(t) ==
  /\ pc[t] = "ppoll"
  /\ Goto(t, "woken") /\ next' = [next EXCEPT ![t] = "idle"]
  /\ UNCHANGED <<file, node, kqueue, reported, mutex, nr_polling_threads, pfds, expired>>

Depart(t) ==
  /\ pc[t] = "woken"
  /\ nr_polling_threads' = nr_polling_threads - 1
  /\ pfds' = [pfds EXCEPT ![t] = {}]
  /\ Goto(t, next[t])
  /\ UNCHANGED <<file, node, kqueue, reported, mutex, expired, next>>
-----------------------------------------------------------------------------
Running(t) == Repolled(t) \/ NoneActive(t) \/ Again(t) \/ Report(t) \/ Wake(t) \/ Depart(t)
Locking(t) == WaitPoll(t) \/ Block(t)

Next ==
  \/ \E fd \in Fds : Rise(fd) \/ Fall(fd) \/ CloseFile(fd) \/ OpenFile(fd)
  \/ \E t \in Controllers : epoll_ctl(t)
  \/ \E t \in Waiters : epoll_wait(t) \/ Locking(t) \/ Timeout(t) \/ Interrupt(t)
  \/ \E t \in Threads : Running(t)

Spec == Init /\ [][Next]_vars

\* Threads in the shim go on; a mutex that is free again and again is obtained.
FairSpec ==
  /\ Spec
  /\ \A t \in Threads : WF_vars(Running(t)) /\ SF_vars(Locking(t))
-----------------------------------------------------------------------------
\* When epoll_ctl, a close or a one-shot report has changed the poll-only
\* descriptors and let go of the mutex, every thread inside ppoll polls exactly the
\* new ones: none is left with a removed number, none misses an added one.
PollersCurrent ==
  mutex = NoOwner => \A t \in Threads : pc[t] = "ppoll" => pfds[t] = PollList

\* A one-shot descriptor that was reported, to whichever thread, is out of the
\* kqueue and poll_fds until it is modified.
OneshotOnce ==
  \A fd \in Fds : node[fd].mode = "oneshot" /\ reported[fd] => ~node[fd].armed

\* An event that a waiting thread must get.
Due(fd) == node[fd].armed /\ file[fd] = "ready" /\ (node[fd].mode = "level" \/ ~reported[fd])

\* A thread does not stay in epoll_wait while an event remains due, whatever other
\* threads take, add and delete meanwhile: no wakeup is lost.
WaiterServed ==
  \A t \in Waiters, fd \in Fds : []<>(pc[t] = "idle" \/ ~Due(fd))

\* The thread that makes the others leave ppoll gets to go on.
RepollEnds == \A t \in Threads : pc[t] = "repoll" ~> pc[t] # "repoll"
=============================================================================
