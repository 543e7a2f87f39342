-------------------------- MODULE EpollWait_proofs --------------------------
(***************************************************************************)
(* Proofs about EpollWait, for every set of threads and descriptors: the   *)
(* handshake of trigger_repoll keeps what the threads inside ppoll poll    *)
(* equal to the instance's list, and a one-shot descriptor is reported     *)
(* once.  RepollInv is the inductive invariant.                            *)
(***************************************************************************)
EXTENDS EpollWait, FiniteSetTheorems, TLAPS

Nodes == [mode : {"none", "level", "edge", "oneshot"}, armed : BOOLEAN]

\* The threads counted in nr_polling_threads.
Inside == {t \in Threads : pc[t] \in {"ppoll", "woken"}}

Shape ==
  /\ node \in [Fds -> Nodes]
  /\ nr_polling_threads \in Nat
  /\ pc \in [Threads -> {"idle", "wait", "block", "ppoll", "woken", "repoll", "retrieve"}]
  /\ pfds \in [Threads -> SUBSET Fds]
  /\ DOMAIN next = Threads

\* Where a thread goes on after it has waited or has left ppoll.
NextPlaced ==
  \A t \in Threads : /\ pc[t] = "repoll" => next[t] \in {"idle", "retrieve"}
                     /\ pc[t] = "woken" => next[t] \in {"idle", "wait"}

\* The mutex is held where the code holds it.
Holding == \A t \in Threads : pc[t] \in {"repoll", "retrieve"} => mutex = t

Counted == nr_polling_threads = Cardinality(Inside)

\* Only while a thread waits in trigger_repoll may a list be out of date.
Current ==
  \/ \A t \in Threads : pc[t] = "ppoll" => pfds[t] = PollList
  \/ \E t \in Threads : pc[t] = "repoll"

RepollInv == Shape /\ NextPlaced /\ Holding /\ Counted /\ Current
-----------------------------------------------------------------------------
(* Lemmas *)

LEMMA ThreadsFinite == IsFiniteSet(Threads) /\ NoOwner \notin Threads
BY EpollWaitAssumption DEF EpollWaitAssumption, Threads

LEMMA InsideFinite == IsFiniteSet(Inside) /\ Cardinality(Inside) \in Nat
BY ThreadsFinite, FS_Subset, FS_CardinalityType DEF Inside

\* Nobody is inside ppoll when the counter is zero.
LEMMA NobodyInside ==
  ASSUME RepollInv, nr_polling_threads = 0
  PROVE  \A t \in Threads : pc[t] \notin {"ppoll", "woken"}
<1>1. Inside = {}
  BY InsideFinite, FS_EmptySet DEF RepollInv, Counted
<1> QED
  BY <1>1 DEF Inside

\* A step between two places outside ppoll, or two inside it, keeps the count.
LEMMA InsideKept ==
  ASSUME Shape, NEW t \in Threads, NEW l, Goto(t, l),
         pc[t] \in {"ppoll", "woken"} <=> l \in {"ppoll", "woken"}
  PROVE  Inside' = Inside
BY DEF Shape, Goto, Inside

LEMMA MutexFree ==
  ASSUME RepollInv, mutex = NoOwner
  PROVE  /\ \A t \in Threads : pc[t] \notin {"repoll", "retrieve"}
         /\ \A t \in Threads : pc[t] = "ppoll" => pfds[t] = PollList
BY ThreadsFinite DEF RepollInv, Holding, Current

\* The thread that holds the mutex is alone with it.
LEMMA AloneWithMutex ==
  ASSUME RepollInv, NEW t \in Threads, mutex = NoOwner \/ pc[t] \in {"repoll", "retrieve"}
  PROVE  \A u \in Threads \ {t} : pc[u] \notin {"repoll", "retrieve"}
BY ThreadsFinite DEF RepollInv, Holding

\* What trigger_repoll does, called by the thread that has the mutex: it waits for
\* the threads inside ppoll, or nobody there has an old list.
Waits(t, l) ==
  Goto(t, "repoll") /\ mutex' = t /\ next' = [next EXCEPT ![t] = l]

Passes(t, l) ==
  /\ Leave(t, l) /\ next' = next
  /\ PollList' = PollList \/ ~(nr_polling_threads > 0)

LEMMA RepollKeeps ==
  ASSUME RepollInv, NEW t \in Threads, NEW l \in {"idle", "retrieve"},
         pc[t] \in {"idle", "wait", "retrieve"},
         mutex = NoOwner \/ pc[t] = "retrieve",
         node' \in [Fds -> Nodes], UNCHANGED <<nr_polling_threads, pfds>>,
         Waits(t, l) \/ Passes(t, l)
  PROVE  RepollInv'
<1>1. \A u \in Threads \ {t} : pc[u] \notin {"repoll", "retrieve"}
  BY AloneWithMutex
<1>2. \A u \in Threads : pc[u] = "ppoll" => pfds[u] = PollList
  BY <1>1 DEF RepollInv, Current
<1>3. CASE Waits(t, l)
  <2>1. Goto(t, "repoll") /\ mutex' = t /\ next' = [next EXCEPT ![t] = l]
    BY <1>3 DEF Waits
  <2>2. Inside' = Inside
    BY <2>1, InsideKept DEF RepollInv
  <2>3. pc' = [pc EXCEPT ![t] = "repoll"]
    BY <2>1 DEF Goto
  <2>4. Shape' /\ Counted'
    BY <2>1, <2>2, <2>3 DEF RepollInv, Shape, Counted
  <2>5. NextPlaced' /\ Holding'
    BY <1>1, <2>1, <2>3 DEF RepollInv, Shape, NextPlaced, Holding
  <2>6. Current'
    BY <2>3 DEF RepollInv, Shape, Current
  <2> QED
    BY <2>4, <2>5, <2>6 DEF RepollInv
<1>4. CASE Passes(t, l)
  <2>1. Goto(t, l) /\ (l = "retrieve" => mutex' = t) /\ next' = next
    BY <1>4 DEF Passes, Leave
  <2>2. Inside' = Inside
    BY <2>1, InsideKept DEF RepollInv
  <2>3. pc' = [pc EXCEPT ![t] = l]
    BY <2>1 DEF Goto
  <2>4. Shape' /\ Counted'
    BY <2>1, <2>2, <2>3 DEF RepollInv, Shape, Counted
  <2>5. NextPlaced' /\ Holding'
    BY <1>1, <2>1, <2>3 DEF RepollInv, Shape, NextPlaced, Holding
  <2>6. Current'
    <3>1. CASE PollList' = PollList
      BY <1>2, <2>3, <3>1 DEF RepollInv, Shape, Current
    <3>2. CASE nr_polling_threads = 0
      BY <2>3, <3>2, NobodyInside DEF RepollInv, Shape, Current
    <3> QED
      BY <1>4, <3>1, <3>2 DEF RepollInv, Shape, Passes
  <2> QED
    BY <2>4, <2>5, <2>6 DEF RepollInv
<1> QED
  BY <1>3, <1>4

\* A step between places where a thread neither polls nor holds the mutex.
LEMMA MoveKeeps ==
  ASSUME RepollInv, NEW t \in Threads, NEW l \in {"idle", "wait", "block"}, Goto(t, l),
         pc[t] \in {"idle", "wait", "block", "retrieve"},
         mutex' = mutex \/ (mutex' = NoOwner /\ (mutex = NoOwner \/ pc[t] = "retrieve")),
         UNCHANGED <<node, nr_polling_threads, pfds, next>>
  PROVE  RepollInv'
<1>1. pc' = [pc EXCEPT ![t] = l]
  BY DEF Goto
<1>2. Inside' = Inside /\ PollList' = PollList
  BY InsideKept DEF RepollInv, PollList
<1>3. Shape' /\ Counted'
  BY <1>1, <1>2 DEF RepollInv, Shape, Counted
<1>4. NextPlaced'
  BY <1>1 DEF RepollInv, Shape, NextPlaced
<1>5. Holding'
  <2>1. CASE mutex' = mutex
    BY <1>1, <2>1 DEF RepollInv, Shape, Holding
  <2>2. CASE mutex' = NoOwner /\ (mutex = NoOwner \/ pc[t] = "retrieve")
    BY <1>1, <2>2, AloneWithMutex DEF RepollInv, Shape, Holding
  <2> QED
    BY <2>1, <2>2
<1>6. Current'
  BY <1>1, <1>2 DEF RepollInv, Shape, Current
<1> QED
  BY <1>3, <1>4, <1>5, <1>6 DEF RepollInv
-----------------------------------------------------------------------------
(* The actions *)

LEMMA InitRepoll == Init => RepollInv
<1> SUFFICES ASSUME Init PROVE RepollInv
  OBVIOUS
<1>1. Inside = {}
  BY DEF Init, Inside
<1>2. Counted
  BY <1>1, FS_EmptySet DEF Init, Counted
<1>3. Shape
  BY DEF Init, Shape, Nodes, NoNode
<1> QED
  BY <1>2, <1>3 DEF Init, RepollInv, NextPlaced, Holding, Current

LEMMA FileRepoll ==
  ASSUME RepollInv,
         UNCHANGED <<node, mutex, nr_polling_threads, pfds, pc, next>>
  PROVE  RepollInv'
BY DEF RepollInv, Shape, NextPlaced, Holding, Counted, Inside, Current, PollList

LEMMA RepolledRepoll ==
  ASSUME RepollInv, NEW t \in Threads, Repolled(t)
  PROVE  RepollInv'
<1>1. /\ pc[t] = "repoll" /\ nr_polling_threads = 0 /\ mutex = t
      /\ next[t] \in {"idle", "retrieve"}
      /\ pc' = [pc EXCEPT ![t] = next[t]]
      /\ mutex' = IF next[t] = "idle" THEN NoOwner ELSE t
      /\ UNCHANGED <<node, nr_polling_threads, pfds, next>>
  BY DEF Repolled, Leave, Goto, RepollInv, Holding, NextPlaced
<1>2. \A u \in Threads : pc[u] \notin {"ppoll", "woken"}
  BY <1>1, NobodyInside
<1>3. \A u \in Threads \ {t} : pc[u] \notin {"repoll", "retrieve"}
  BY <1>1, AloneWithMutex
<1>4. Inside' = Inside
  BY <1>1, InsideKept DEF RepollInv, Goto
<1>5. Shape' /\ Counted' /\ NextPlaced'
  BY <1>1, <1>4 DEF RepollInv, Shape, Counted, NextPlaced
<1>6. Holding' /\ Current'
  BY <1>1, <1>2, <1>3 DEF RepollInv, Shape, Holding, Current
<1> QED
  BY <1>5, <1>6 DEF RepollInv

LEMMA RegisterRepoll ==
  ASSUME RepollInv, NEW t \in Threads, pc[t] = "idle", mutex = NoOwner, NEW fd \in Fds,
         NEW mode \in Modes, Register(t, fd, mode), UNCHANGED <<nr_polling_threads, pfds>>
  PROVE  RepollInv'
<1>1. node' = [node EXCEPT ![fd] = [mode |-> mode, armed |-> TRUE]]
      /\ Repoll(t, fd \in PollOnly, "idle", self)
  BY DEF Register
<1>2. [mode |-> mode, armed |-> TRUE] \in Nodes
  BY EpollWaitAssumption DEF EpollWaitAssumption, Nodes
<1>3. node' \in [Fds -> Nodes]
  BY <1>1, <1>2 DEF RepollInv, Shape
<1>4. fd \notin PollOnly => PollList' = PollList
  BY <1>1 DEF RepollInv, Shape, PollList
<1>5. Waits(t, "idle") \/ Passes(t, "idle")
  BY <1>1, <1>4 DEF Repoll, Waits, Passes
<1> QED
  BY <1>3, <1>5, RepollKeeps

LEMMA RemoveNodes ==
  ASSUME RepollInv, NEW STATE fds,
         node' = [fd \in Fds |-> IF fd \in fds THEN NoNode ELSE node[fd]]
  PROVE  /\ node' \in [Fds -> Nodes]
         /\ fds \cap PollList = {} => PollList' = PollList
<1>1. node' \in [Fds -> Nodes]
  BY DEF RepollInv, Shape, Nodes, NoNode
<1>2. PollList' = PollList \ fds
  BY EpollWaitAssumption DEF EpollWaitAssumption, PollList, NoNode
<1> QED
  BY <1>1, <1>2

LEMMA RemoveRepoll ==
  ASSUME RepollInv, NEW t \in Threads, pc[t] = "idle", mutex = NoOwner, NEW STATE fds,
         Remove(t, fds, "idle"), UNCHANGED <<nr_polling_threads, pfds>>
  PROVE  RepollInv'
<1>1. Repoll(t, fds \cap PollList # {}, "idle", self)
  BY DEF Remove
<1>2. /\ node' \in [Fds -> Nodes]
      /\ fds \cap PollList = {} => PollList' = PollList
  BY RemoveNodes DEF Remove
<1>3. Waits(t, "idle") \/ Passes(t, "idle")
  BY <1>1, <1>2 DEF Repoll, Waits, Passes
<1> QED
  BY <1>2, <1>3, RepollKeeps

LEMMA CtlRepoll ==
  ASSUME RepollInv, NEW t \in Threads, epoll_ctl(t)
  PROVE  RepollInv'
<1>1. pc[t] = "idle" /\ mutex = NoOwner /\ UNCHANGED <<nr_polling_threads, pfds>>
  BY DEF epoll_ctl
<1>2. \/ \E fd \in Fds : Remove(t, {fd}, "idle")
      \/ \E fd \in Fds, mode \in Modes : Register(t, fd, mode)
  BY DEF epoll_ctl
<1> QED
  BY <1>1, <1>2, RemoveRepoll, RegisterRepoll

LEMMA WaitPollRepoll ==
  ASSUME RepollInv, NEW t \in Threads, WaitPoll(t)
  PROVE  RepollInv'
<1> DEFINE closed == {fd \in PollList : file[fd] = "closed"}
<1>1. pc[t] = "wait" /\ mutex = NoOwner /\ UNCHANGED <<nr_polling_threads, pfds>>
  BY DEF WaitPoll
<1>2. CASE NoEvent(t) /\ UNCHANGED <<node, kqueue, next>>
  BY <1>1, <1>2, MoveKeeps DEF NoEvent
<1>3. CASE /\ node' = [fd \in Fds |-> IF fd \in closed THEN NoNode ELSE node[fd]]
           /\ Repoll(t, closed # {}, "retrieve", self)
  <2>1. closed \cap PollList = closed
    OBVIOUS
  <2> HIDE DEF closed
  <2>2. node' \in [Fds -> Nodes] /\ (closed = {} => PollList' = PollList)
    BY <1>3, <2>1, RemoveNodes
  <2>3. Waits(t, "retrieve") \/ Passes(t, "retrieve")
    BY <1>3, <2>2 DEF Repoll, Waits, Passes
  <2> QED
    BY <1>1, <2>2, <2>3, RepollKeeps
<1> QED
  BY <1>2, <1>3 DEF WaitPoll

LEMMA ReportRepoll ==
  ASSUME RepollInv, NEW t \in Threads, Report(t)
  PROVE  RepollInv'
<1>1. pc[t] = "retrieve" /\ UNCHANGED <<nr_polling_threads, pfds>>
  BY DEF Report
<1>2. PICK events \in SUBSET Active, own \in BOOLEAN :
        LET found == {fd \in events : file[fd] = "ready"}
            off   == {fd \in found \cap PollList : node[fd].mode = "oneshot"}
        IN node' = Disarmed(found) /\ Repoll(t, off # {}, "idle", self /\ ~own)
  BY DEF Report
<1> DEFINE found == {fd \in events : file[fd] = "ready"}
           off   == {fd \in found \cap PollList : node[fd].mode = "oneshot"}
<1>3. node' = Disarmed(found) /\ Repoll(t, off # {}, "idle", self /\ ~own)
  BY <1>2
<1>4. \A fd \in PollList : fd \in found /\ node[fd].mode = "oneshot" => fd \in off
  OBVIOUS
<1> HIDE DEF found, off
<1>5. node' \in [Fds -> Nodes]
  BY <1>3 DEF RepollInv, Shape, Disarmed, Nodes
<1>6. off = {} => PollList' = PollList
  <2> SUFFICES ASSUME off = {} PROVE PollList' = PollList
    OBVIOUS
  <2>1. \A fd \in Fds : node[fd].armed /\ fd \in PollOnly => node'[fd] = node[fd]
    BY <1>3, <1>4 DEF Disarmed, PollList, RepollInv, Shape
  <2>2. \A fd \in Fds : ~node[fd].armed => ~node'[fd].armed
    BY <1>3 DEF Disarmed, RepollInv, Shape, Nodes
  <2> QED
    BY <2>1, <2>2, EpollWaitAssumption DEF EpollWaitAssumption, PollList
<1>7. Waits(t, "idle") \/ Passes(t, "idle")
  BY <1>3, <1>6 DEF Repoll, Waits, Passes
<1> QED
  BY <1>1, <1>5, <1>7, RepollKeeps

LEMMA BlockRepoll ==
  ASSUME RepollInv, NEW t \in Threads, Block(t)
  PROVE  RepollInv'
<1>1. /\ pc[t] = "block" /\ mutex = NoOwner
      /\ pfds' = [pfds EXCEPT ![t] = PollList]
      /\ nr_polling_threads' = nr_polling_threads + 1
      /\ pc' = [pc EXCEPT ![t] = "ppoll"]
      /\ UNCHANGED <<node, mutex, next>>
  BY DEF Block, Goto
<1>2. Inside' = Inside \cup {t} /\ t \notin Inside
  BY <1>1 DEF RepollInv, Shape, Inside
<1>3. Counted'
  BY <1>1, <1>2, InsideFinite, FS_AddElement DEF RepollInv, Counted
<1>4. Shape' /\ NextPlaced'
  BY <1>1, EpollWaitAssumption DEF EpollWaitAssumption, RepollInv, Shape, NextPlaced, PollList
<1>5. Holding' /\ Current'
  BY <1>1, MutexFree DEF RepollInv, Shape, Holding, Current, PollList
<1> QED
  BY <1>3, <1>4, <1>5 DEF RepollInv

\* The descriptors, the timeout or a signal wake a thread in ppoll.
LEMMA WokenRepoll ==
  ASSUME RepollInv, NEW t \in Threads, NEW l \in {"idle", "wait"}, pc[t] = "ppoll",
         Goto(t, "woken"), next' = [next EXCEPT ![t] = l],
         UNCHANGED <<node, mutex, nr_polling_threads, pfds>>
  PROVE  RepollInv'
<1>1. pc' = [pc EXCEPT ![t] = "woken"]
  BY DEF Goto
<1>2. Inside' = Inside /\ PollList' = PollList
  BY InsideKept DEF RepollInv, PollList
<1>3. Shape' /\ Counted' /\ NextPlaced'
  BY <1>1, <1>2 DEF RepollInv, Shape, Counted, NextPlaced
<1>4. Holding' /\ Current'
  BY <1>1, <1>2 DEF RepollInv, Shape, Holding, Current
<1> QED
  BY <1>3, <1>4 DEF RepollInv

LEMMA DepartRepoll ==
  ASSUME RepollInv, NEW t \in Threads, Depart(t)
  PROVE  RepollInv'
<1>1. /\ pc[t] = "woken"
      /\ nr_polling_threads' = nr_polling_threads - 1
      /\ pfds' = [pfds EXCEPT ![t] = {}]
      /\ pc' = [pc EXCEPT ![t] = next[t]] /\ next[t] \in {"idle", "wait"}
      /\ UNCHANGED <<node, mutex, next>>
  BY DEF Depart, Goto, RepollInv, NextPlaced
<1>2. Inside' = Inside \ {t} /\ t \in Inside
  BY <1>1 DEF RepollInv, Shape, Inside
<1>3. Counted' /\ nr_polling_threads' \in Nat
  BY <1>1, <1>2, InsideFinite, FS_RemoveElement, FS_CardinalityType, FS_EmptySet
  DEF RepollInv, Counted
<1>4. Shape' /\ NextPlaced'
  BY <1>1, <1>3 DEF RepollInv, Shape, NextPlaced
<1>5. Holding' /\ Current'
  BY <1>1 DEF RepollInv, Shape, Holding, Current, PollList
<1> QED
  BY <1>3, <1>4, <1>5 DEF RepollInv
-----------------------------------------------------------------------------
(* The theorems *)

\* The invariant of the handshake holds in every reachable state.
THEOREM RepollInvariant == Spec => []RepollInv
<1>1. RepollInv /\ [Next]_vars => RepollInv'
  <2> SUFFICES ASSUME RepollInv, [Next]_vars PROVE RepollInv'
    OBVIOUS
  <2>1. ASSUME NEW fd \in Fds, Rise(fd) \/ Fall(fd) \/ CloseFile(fd) \/ OpenFile(fd)
        PROVE  RepollInv'
    BY <2>1, FileRepoll DEF Rise, Fall, CloseFile, OpenFile
  <2>2. ASSUME NEW t \in Controllers, epoll_ctl(t) PROVE RepollInv'
    BY <2>2, CtlRepoll DEF Threads
  <2>3. ASSUME NEW t \in Waiters, epoll_wait(t) PROVE RepollInv'
    BY <2>3, MoveKeeps DEF epoll_wait, Threads
  <2>4. ASSUME NEW t \in Waiters, Locking(t) PROVE RepollInv'
    BY <2>4, WaitPollRepoll, BlockRepoll DEF Locking, Threads
  <2>5. ASSUME NEW t \in Waiters, Timeout(t) \/ Interrupt(t) PROVE RepollInv'
    BY <2>5, WokenRepoll DEF Timeout, Interrupt, Threads
  <2>6. ASSUME NEW t \in Threads, Running(t) PROVE RepollInv'
    <3>1. CASE Repolled(t)
      BY <3>1, RepolledRepoll
    <3>2. CASE NoneActive(t)
      BY <3>2, MoveKeeps DEF NoneActive, NoEvent
    <3>3. CASE Again(t)
      BY <3>3, FileRepoll DEF Again
    <3>4. CASE Report(t)
      BY <3>4, ReportRepoll
    <3>5. CASE Wake(t)
      BY <3>5, WokenRepoll DEF Wake
    <3>6. CASE Depart(t)
      BY <3>6, DepartRepoll
    <3> QED
      BY <2>6, <3>1, <3>2, <3>3, <3>4, <3>5, <3>6 DEF Running
  <2>7. CASE UNCHANGED vars
    BY <2>7, FileRepoll DEF vars
  <2> QED
    BY <2>1, <2>2, <2>3, <2>4, <2>5, <2>6, <2>7 DEF Next
<1> QED
  BY <1>1, InitRepoll, PTL DEF Spec

\* A thread that waits in trigger_repoll holds the mutex, so when it is free every
\* thread inside ppoll polls exactly the instance's poll-only descriptors
\* (epollfd_ctx.c: trigger_repoll, epoll.c: epollfd_ctx_wait_or_block).
THEOREM PollersCurrentInvariant == Spec => []PollersCurrent
<1>1. RepollInv => PollersCurrent
  BY MutexFree DEF PollersCurrent
<1> QED
  BY <1>1, RepollInvariant, PTL

\* A one-shot descriptor that was reported stays out of the kqueue and of poll_fds
\* until it is modified, with any number of threads waiting on the instance
\* (epollfd_ctx.c: epollfd_ctx_wait, the EPOLLONESHOT branches).
THEOREM OneshotOnceInvariant == Spec => []OneshotOnce
<1> DEFINE Inv == DOMAIN reported = Fds /\ OneshotOnce
<1>1. Init => Inv
  BY DEF Init, OneshotOnce, NoNode
<1>2. RepollInv /\ Inv /\ [Next]_vars => Inv'
  <2> SUFFICES ASSUME RepollInv, Inv, [Next]_vars PROVE Inv'
    OBVIOUS
  <2>1. CASE UNCHANGED <<node, reported>>
    BY <2>1 DEF OneshotOnce
  <2>2. ASSUME NEW fd \in Fds, Rise(fd) PROVE Inv'
    <3>1. /\ reported' = [reported EXCEPT ![fd] = reported[fd] /\ node[fd].mode # "edge"]
          /\ node' = node
      BY <2>2 DEF Rise
    <3>2. \A f \in Fds : reported'[f] => reported[f]
      <4>1. \A f \in Fds \ {fd} : reported'[f] = reported[f]
        BY <3>1
      <4>2. reported'[fd] = (reported[fd] /\ node[fd].mode # "edge")
        BY <3>1
      <4> QED
        BY <4>1, <4>2, Zenon
    <3> QED
      BY <3>1, <3>2 DEF OneshotOnce
  <2>3. ASSUME NEW t, NEW fds, NEW l, Remove(t, fds, l), UNCHANGED reported PROVE Inv'
    BY <2>3 DEF Remove, OneshotOnce, NoNode
  <2>4. ASSUME NEW t, NEW fd \in Fds, NEW mode, Register(t, fd, mode) PROVE Inv'
    BY <2>4 DEF Register, OneshotOnce, RepollInv, Shape
  <2>5. ASSUME NEW t \in Threads, WaitPoll(t) PROVE Inv'
    <3>1. \A fd \in Fds : node'[fd] = node[fd] \/ node'[fd] = NoNode
      BY <2>5 DEF WaitPoll
    <3>2. UNCHANGED reported
      BY <2>5 DEF WaitPoll
    <3> QED
      BY <3>1, <3>2 DEF OneshotOnce, NoNode
  <2>6. ASSUME NEW t \in Threads, Report(t) PROVE Inv'
    <3>1. PICK found : /\ reported' = [fd \in Fds |-> reported[fd] \/ fd \in found]
                       /\ node' = Disarmed(found)
      BY <2>6 DEF Report
    <3>2. ASSUME NEW fd \in Fds, node'[fd].mode = "oneshot", reported'[fd]
          PROVE  ~node'[fd].armed
      <4>1. CASE fd \in found /\ node[fd].mode = "oneshot"
        BY <3>1, <4>1 DEF Disarmed, RepollInv, Shape, Nodes
      <4>2. CASE ~(fd \in found /\ node[fd].mode = "oneshot")
        <5>1. node'[fd] = node[fd]
          BY <3>1, <4>2 DEF Disarmed
        <5>2. reported[fd]
          BY <3>1, <3>2, <4>2, <5>1
        <5> QED
          BY <3>2, <5>1, <5>2 DEF OneshotOnce
      <4> QED
        BY <4>1, <4>2
    <3> QED
      BY <3>1, <3>2 DEF OneshotOnce
  <2>7. ASSUME NEW t \in Controllers, epoll_ctl(t) PROVE Inv'
    BY <2>3, <2>4, <2>7 DEF epoll_ctl
  <2> QED
    BY <2>1, <2>2, <2>5, <2>6, <2>7
    DEF Next, Threads, vars, Fall, CloseFile, OpenFile, epoll_wait, Locking, Block, Timeout,
        Interrupt, Running, Repolled, NoneActive, Again, Wake, Depart
<1>3. Inv => OneshotOnce
  OBVIOUS
<1> QED
  BY <1>1, <1>2, <1>3, RepollInvariant, PTL DEF Spec
=============================================================================
