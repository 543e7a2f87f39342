----------------------------- MODULE LockOrder ------------------------------
(***************************************************************************)
(* Who waits for whom in the epoll shim: the calls of epoll_shim_ctx.c,    *)
(* epoll.c, epollfd_ctx.c, signalfd.c and timerfd.c as the locks they take *)
(* and what they wait for with these held.  FdTable and EpollWait say what *)
(* the calls do under their locks.  The order is                           *)
(*                                                                         *)
(*   the table's lock, the mutexes of the epollfds by their numbers,       *)
(*   the mutex of a signalfd or timerfd;                                   *)
(*                                                                         *)
(* besides, a thread waits for others to leave ppoll, or for a signal.     *)
(* nr_polling_threads_mutex and step_detector_mutex are left out: whoever  *)
(* has one waits for no other lock.                                        *)
(*                                                                         *)
(* A section that waits for nothing while it has a lock is one step, taken *)
(* when it could get the lock.  A description stands for its number.       *)
(* Which pollables are registered with which epollfd is FdTable's matter:  *)
(* here a call on an epollfd may poll any of them.                         *)
(***************************************************************************)
EXTENDS Integers, FiniteSetsExt

CONSTANTS
  Threads,
  EpollFds,   \* the numbers of epollfds
  SignalFds,  \* the numbers of signalfds
  TimerFds,   \* the numbers of timerfds
  NoDesc,     \* no description
  NoOwner     \* a mutex nobody holds

VARIABLES
  open_files,  \* the numbers whose description is in the table
  readers,     \* the threads that keep the table's read lock over a wait
  mutex,       \* owner of each description's mutex
  pc,
  desc,        \* the description each thread's call is about
  todo         \* the descriptions a call has still to poll, or to wait for

vars == <<open_files, readers, mutex, pc, desc, todo>>

Pollables == SignalFds \cup TimerFds
Descs     == EpollFds \cup Pollables

Goto(t, l) == pc' = [pc EXCEPT ![t] = l]
Desc(t, d) == desc' = [desc EXCEPT ![t] = d]
Todo(t, s) == todo' = [todo EXCEPT ![t] = s]
Take(d, t) == mutex[d] = NoOwner /\ mutex' = [mutex EXCEPT ![d] = t]
Give(d)    == mutex' = [mutex EXCEPT ![d] = NoOwner]
Return(t)  == Goto(t, "idle") /\ Desc(t, NoDesc)

\* rwlock_lock_read waits for a writer that has announced itself, rwlock_lock_write
\* for the writer before it and then for the readers.
MayRead  == \A t \in Threads : pc[t] # "announced"
MayWrite == readers = {}

Init ==
  /\ open_files = {}
  /\ readers = {}
  /\ mutex = [d \in Descs |-> NoOwner]
  /\ pc = [t \in Threads |-> "idle"]
  /\ desc = [t \in Threads |-> NoDesc]
  /\ todo = [t \in Threads |-> {}]

\* A call starts and wants the table's lock.
Starts(t) ==
  /\ pc[t] = "idle"
  /\ Goto(t, "read") \/ Goto(t, "write")
  /\ UNCHANGED <<open_files, readers, mutex, desc, todo>>
-----------------------------------------------------------------------------
(* Creating a descriptor, and epoll_shim_ctx_remove_desc: unlist, downgrade, lock
   all epollfds of the table, remove the number from each (which may make it wait
   for the threads inside ppoll), unlock. *)

Announces(t) ==
  /\ pc[t] = "write"
  /\ MayRead
  /\ Goto(t, "announced")
  /\ UNCHANGED <<open_files, readers, mutex, desc, todo>>

\* create_desc to install_desc or drop_desc.  A number is created again when no
\* call is left on its old description.
Creates(t) ==
  /\ pc[t] = "announced"
  /\ MayWrite
  /\ \E d \in Descs \ open_files :
       /\ mutex[d] = NoOwner /\ \A u \in Threads : desc[u] # d
       /\ open_files' \in {open_files, open_files \cup {d}}
  /\ Return(t)
  /\ UNCHANGED <<readers, mutex, todo>>

\* The number closed may have no description.
Unlists(t) ==
  /\ pc[t] = "announced"
  /\ MayWrite
  /\ \E d \in Descs : open_files' = open_files \ {d}
  /\ readers' = readers \cup {t}
  /\ Goto(t, "lockall")
  /\ UNCHANGED <<mutex, desc, todo>>

ToLock(t) == {d \in open_files \cap EpollFds : mutex[d] # t}

LocksNext(t) ==
  /\ pc[t] = "lockall"
  /\ ToLock(t) # {}
  /\ Take(Min(ToLock(t)), t)
  /\ UNCHANGED <<open_files, readers, pc, desc, todo>>

Removes(t) ==
  /\ pc[t] = "lockall"
  /\ ToLock(t) = {}
  /\ \E s \in SUBSET (open_files \cap EpollFds) : Todo(t, s)
  /\ Goto(t, "repollall")
  /\ UNCHANGED <<open_files, readers, mutex, desc>>

UnlocksAll(t) ==
  /\ pc[t] = "repollall"
  /\ todo[t] = {}
  /\ mutex' = [d \in Descs |-> IF mutex[d] = t THEN NoOwner ELSE mutex[d]]
  /\ readers' = readers \ {t}
  /\ Return(t)
  /\ UNCHANGED <<open_files, todo>>
-----------------------------------------------------------------------------
(* One pass of epoll_shim_ppoll over the descriptors it is given, or of the step
   detector over the timerfds: each one's mutex under the table's read lock. *)

Passes(t) ==
  /\ pc[t] = "read"
  /\ MayRead
  /\ readers' = readers \cup {t}
  /\ \E s \in SUBSET (open_files \cap Pollables) : Todo(t, s)
  /\ Goto(t, "pollall")
  /\ UNCHANGED <<open_files, mutex, desc>>

EndsPass(t) ==
  /\ pc[t] = "pollall"
  /\ todo[t] = {}
  /\ readers' = readers \ {t}
  /\ Return(t)
  /\ UNCHANGED <<open_files, mutex, todo>>

\* pollable_desc_poll, poll_fun and realtime_change_fun: lock, look, unlock.
Polls(t) ==
  /\ pc[t] \in {"poll", "pollall"}
  /\ \E d \in todo[t] : mutex[d] = NoOwner /\ Todo(t, todo[t] \ {d})
  /\ UNCHANGED <<open_files, readers, mutex, pc, desc>>
-----------------------------------------------------------------------------
(* Calls on one description: read, write, settime, epoll_ctl, epoll_wait. *)

\* epoll_shim_ctx_find_desc; EPOLL_CTL_ADD looks its target up as well.  A number
\* without a description goes to the kernel.
Finds(t) ==
  /\ pc[t] = "read"
  /\ MayRead
  /\ \/ \E d \in open_files : Desc(t, d) /\ Goto(t, "lock")
     \/ \E d \in open_files \cap EpollFds : Desc(t, d) /\ Goto(t, "find_target")
     \/ Return(t)
  /\ UNCHANGED <<open_files, readers, mutex, todo>>

\* Mutant: EPOLL_CTL_ADD looks its target up with the instance locked.
MutFindsTarget(t) ==
  /\ pc[t] = "find_target"
  /\ \/ /\ Take(desc[t], t)
        /\ UNCHANGED pc
     \/ /\ mutex[desc[t]] = t /\ MayRead
        /\ Goto(t, "poll")
        /\ UNCHANGED mutex
  /\ UNCHANGED <<open_files, readers, desc, todo>>

FindsTarget(t) ==
  /\ pc[t] = "find_target"
  /\ MayRead
  /\ Goto(t, "lock")
  /\ UNCHANGED <<open_files, readers, mutex, desc, todo>>

\* What follows with the mutex held: on an epollfd, polling targets (epoll_ctl one,
\* epoll_wait those with events) or trigger_repoll; on a signalfd, sigwait for a
\* signal that another thread may have taken; or nothing that waits.
LocksDesc(t) ==
  /\ pc[t] = "lock"
  /\ Take(desc[t], t)
  /\ \/ Goto(t, "poll") /\ UNCHANGED todo
     \/ desc[t] \in SignalFds /\ Goto(t, "sigwait") /\ UNCHANGED todo
     \/ /\ desc[t] \in EpollFds
        /\ \/ Goto(t, "poll") /\ \E s \in SUBSET Pollables : Todo(t, s)
           \/ Goto(t, "repoll") /\ Todo(t, {desc[t]})
  /\ UNCHANGED <<open_files, readers, desc>>

\* The call ends, or an epoll_wait without events goes into ppoll.
Unlocks(t) ==
  /\ pc[t] \in {"poll", "repoll"}
  /\ todo[t] = {}
  /\ Give(desc[t])
  /\ \/ Return(t)
     \/ /\ pc[t] = "poll" /\ desc[t] \in EpollFds
        /\ Goto(t, "ppoll") /\ UNCHANGED desc
  /\ UNCHANGED <<open_files, readers, todo>>

\* epollfd_ctx__trigger_repoll: those inside ppoll have left.
Repolled(t) ==
  /\ pc[t] \in {"repoll", "repollall"}
  /\ \E e \in todo[t] :
       /\ \A u \in Threads : ~(pc[u] = "ppoll" /\ desc[u] = e)
       /\ Todo(t, todo[t] \ {e})
  /\ UNCHANGED <<open_files, readers, mutex, pc, desc>>

\* An epoll_wait leaves ppoll, counts itself out and looks again, or returns.
Leaves(t) ==
  /\ pc[t] = "ppoll"
  /\ Return(t) \/ (Goto(t, "lock") /\ UNCHANGED desc)
  /\ UNCHANGED <<open_files, readers, mutex, todo>>

\* The signal comes; the read takes it and ends.
Signalled(t) ==
  /\ pc[t] = "sigwait"
  /\ Give(desc[t])
  /\ Return(t)
  /\ UNCHANGED <<open_files, readers, todo>>
-----------------------------------------------------------------------------
\* The steps that wait for a lock, and those of a thread that has what it needs.
Acquires(t) ==
  \/ Announces(t) \/ Creates(t) \/ Unlists(t) \/ LocksNext(t) \/ Passes(t)
  \/ Polls(t) \/ Finds(t) \/ FindsTarget(t) \/ LocksDesc(t)

Proceeds(t) ==
  \/ Removes(t) \/ UnlocksAll(t) \/ EndsPass(t) \/ Unlocks(t) \/ Repolled(t)

Next == \E t \in Threads :
  Starts(t) \/ Acquires(t) \/ Proceeds(t) \/ Leaves(t) \/ Signalled(t)

Spec == Init /\ [][Next]_vars

\* Somebody has triggered the kqueue of the instance t sleeps on.
Triggered(t) ==
  \E u \in Threads : pc[u] \in {"repoll", "repollall"} /\ desc[t] \in todo[u]

\* A lock that is free again and again is obtained (RWLock's EveryoneEnters, and
\* pthread mutexes that starve nobody); a thread that waits for nothing goes on;
\* one whose kqueue is triggered leaves ppoll (EpollWait's RepollEnds).  Nothing
\* makes calls start, files ready, or signals come.
Fairness == \A t \in Threads :
  SF_vars(Acquires(t)) /\ WF_vars(Proceeds(t)) /\ WF_vars(Triggered(t) /\ Leaves(t))

FairSpec == Spec /\ Fairness
-----------------------------------------------------------------------------
\* In no call, or in one that waits for its own events or signals.
Resting(t) == pc[t] \in {"idle", "ppoll", "sigwait"}

\* No call waits for ever for a lock or for other threads to leave ppoll, the
\* epoll_shim_close that locks all epollfds at once included, unless some reader
\* of a signalfd stays in sigwait for ever with its mutex held.
CallsReturn ==
  \/ \E t \in Threads : <>[](pc[t] = "sigwait")
  \/ \A t \in Threads : ~Resting(t) ~> Resting(t)
=============================================================================
