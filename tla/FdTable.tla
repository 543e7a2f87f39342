------------------------------ MODULE FdTable -------------------------------
(***************************************************************************)
(* The descriptor table of the epoll shim (epoll_shim_ctx.c) and the life  *)
(* of the reference-counted file descriptions in it, with the calls that   *)
(* use them: creating a descriptor, epoll_ctl (epoll.c), epoll_shim_close, *)
(* and any call that finds a description, locks it and works on it (read,  *)
(* write, poll, fcntl, epoll_wait).  The application may also call the     *)
(* plain close() on some numbers, behind the shim's back.                  *)
(*                                                                         *)
(* The table's lock is AbstractRWLock, which RWLock.tla implements.  A     *)
(* section that only reads under the read lock is one step, taken when a   *)
(* reader may hold the lock; every other lock, unlock, reference and       *)
(* release is a step of its own.  When the last reference goes, the        *)
(* description is destroyed in the same step by its only owner.  The       *)
(* growth of the table is left out: a slot beyond it reads NULL.  So are   *)
(* the waits of calls that hold a mutex (for a target's mutex, for threads *)
(* inside ppoll, for a signal): here they may end at any time, which only  *)
(* adds behaviours; LockOrder has them.                                    *)
(***************************************************************************)
EXTENDS Integers, FiniteSets, FiniteSetsExt

CONSTANTS
  Threads,
  Fds,       \* the descriptor numbers, 0 .. n
  AppFds,    \* the numbers the application opens and closes without the shim
  Descs,     \* the addresses malloc has for descriptions
  NoDesc,    \* NULL
  NoNode,    \* no node in an epollfd's registered_fds
  NoOwner    \* a mutex nobody holds

ASSUME FdTableAssumption ==
  /\ IsFiniteSet(Threads) /\ IsFiniteSet(Descs) /\ IsFiniteSet(Fds)
  /\ Fds \subseteq Nat /\ AppFds \subseteq Fds
  /\ NoDesc \notin Descs /\ NoNode \notin Descs \cup {NoDesc}
  /\ NoOwner \notin Threads

VARIABLES
  kernel,      \* what the kernel has at each number: "closed", "kqueue", "other"
  open_files,  \* the table: Fds -> description or NULL
  refcount,    \* of each description; 0: its memory is free
  vtable,      \* "NULL" until the creator sets it, then the kind
  registered,  \* registered_fds of each epollfd: Fds -> NoNode, NULL or its pollable
  mutex,       \* owner of each description's mutex
  held,        \* what each thread holds of the table's lock
  pc,
  call         \* arguments and locals of each thread's call

vars == <<kernel, open_files, refcount, vtable, registered, mutex, held, pc, call>>
memory == <<refcount, vtable, registered>>

Lock == INSTANCE AbstractRWLock

CtlOps  == {"add", "mod", "del"}
NoCall  == [op |-> "none", fd |-> 0, fd2 |-> 0, desc |-> NoDesc, desc2 |-> NoDesc]
NoNodes == [fd \in Fds |-> NoNode]
Free    == {d \in Descs : refcount[d] = 0}

Goto(t, l)           == pc' = [pc EXCEPT ![t] = l]
Local(t, name, d)    == call' = [call EXCEPT ![t][name] = d]
Return(t)            == Goto(t, "idle") /\ call' = [call EXCEPT ![t] = NoCall]

\* The epollfds of the table, by number.
EpollFds == {fd \in Fds : open_files[fd] # NoDesc /\ vtable[open_files[fd]] = "epollfd"}

Init ==
  /\ kernel = [fd \in Fds |-> "closed"]
  /\ open_files = [fd \in Fds |-> NoDesc]
  /\ refcount = [d \in Descs |-> 0]
  /\ vtable = [d \in Descs |-> "NULL"]
  /\ registered = [d \in Descs |-> NoNodes]
  /\ mutex = [d \in Descs |-> NoOwner]
  /\ held = [t \in Threads |-> "none"]
  /\ pc = [t \in Threads |-> "idle"]
  /\ call = [t \in Threads |-> NoCall]
-----------------------------------------------------------------------------
(* References *)

\* The nodes that refer to d, among those of the given epollfds and numbers.
Nodes(nodes, places, d) == Cardinality({x \in places : nodes[x[1]][x[2]] = d})
One(d) == [x \in Descs |-> IF x = d THEN 1 ELSE 0]

\* The reference counts after file_description_unref of drop[d] references to
\* each d: destroying an epollfd also releases the descriptions of its nodes.
Remaining(nodes, drop) ==
  LET gone == {d \in Descs : drop[d] > 0 /\ refcount[d] = drop[d]}
  IN [d \in Descs |-> refcount[d] - drop[d] - Nodes(nodes, gone \X Fds, d)]

\* The memory once the counts are count and the nodes of the epollfds nodes.
Memory(nodes, count) ==
  /\ refcount' = count
  /\ vtable' = [d \in Descs |-> IF count[d] = 0 THEN "NULL" ELSE vtable[d]]
  /\ registered' = [d \in Descs |-> IF count[d] = 0 THEN NoNodes ELSE nodes[d]]

Unref(d) == Memory(registered, Remaining(registered, One(d)))
Ref(d)   == refcount' = [x \in Descs |-> refcount[x] + One(d)[x]]

\* Take the node of fd out of each epollfd of the set es.
RemoveNodes(es, fd) ==
  LET left == [d \in Descs |->
                 IF d \in es THEN [registered[d] EXCEPT ![fd] = NoNode] ELSE registered[d]]
      drop == [d \in Descs |-> Nodes(registered, es \X {fd}, d)]
  IN Memory(left, Remaining(left, drop))
-----------------------------------------------------------------------------
(* Creating a descriptor: epoll_shim_ctx_create_desc keeps the write lock for
   the caller, who initialises the description and installs or drops it. *)

CreateLock(t) ==
  /\ pc[t] = "idle"
  /\ Lock!AcquireWrite(t)
  /\ Goto(t, "create")
  /\ UNCHANGED <<kernel, open_files, memory, mutex, call>>

\* A description still in the table at the new number was closed with plain close().
OpenKqueue(t) ==
  /\ pc[t] = "create"
  /\ \E fd \in {n \in Fds : kernel[n] = "closed"} :
       /\ kernel' = [kernel EXCEPT ![fd] = "kqueue"]
       /\ Unref(open_files[fd])
       /\ open_files' = [open_files EXCEPT ![fd] = NoDesc]
       /\ call' = [call EXCEPT ![t].fd = fd]
  /\ Goto(t, "alloc")
  /\ UNCHANGED <<mutex, held>>

CreateDesc(t) ==
  /\ pc[t] = "alloc"
  /\ \E d \in Free : Ref(d) /\ Local(t, "desc", d)
  /\ Goto(t, "install")
  /\ UNCHANGED <<kernel, open_files, vtable, registered, mutex, held>>

\* malloc or realloc fails.
CreateFails(t) ==
  /\ pc[t] = "alloc"
  /\ kernel' = [kernel EXCEPT ![call[t].fd] = "closed"]
  /\ Lock!Release(t)
  /\ Return(t)
  /\ UNCHANGED <<open_files, memory, mutex>>

\* kqueue1 fails.
NoKqueue(t) ==
  /\ pc[t] = "create"
  /\ Lock!Release(t)
  /\ Return(t)
  /\ UNCHANGED <<kernel, open_files, memory, mutex>>

InstallDesc(t, kind) ==
  /\ pc[t] = "install"
  /\ vtable' = [vtable EXCEPT ![call[t].desc] = kind]
  /\ open_files' = [open_files EXCEPT ![call[t].fd] = call[t].desc]
  /\ Lock!Release(t)
  /\ Return(t)
  /\ UNCHANGED <<kernel, refcount, registered, mutex>>

DropDesc(t) ==
  /\ pc[t] = "install"
  /\ Unref(call[t].desc)
  /\ kernel' = [kernel EXCEPT ![call[t].fd] = "closed"]
  /\ Lock!Release(t)
  /\ Return(t)
  /\ UNCHANGED <<open_files, mutex>>
-----------------------------------------------------------------------------
(* Calls that find a description.  FindDesc is epoll_shim_ctx_find_desc for
   the first argument: a call on a number with no description goes to the
   kernel and touches nothing here. *)

FindDesc(t, op, fd, fd2) ==
  /\ pc[t] = "idle"
  /\ Lock!CanRead
  /\ open_files[fd] # NoDesc
  /\ LET d == open_files[fd] IN
       /\ Ref(d)
       /\ call' = [call EXCEPT ![t] = [NoCall EXCEPT !.op = op, !.fd2 = fd2, !.desc = d]]
       /\ Goto(t, IF op \in CtlOps /\ vtable[d] # "epollfd" THEN "unref"
                  ELSE IF op = "add" THEN "find2" ELSE "lock")
  /\ UNCHANGED <<kernel, open_files, vtable, registered, mutex, held>>

\* epoll_ctl refuses fd = fd2 without any effect of its own.
EpollCtl(t) == \E op \in CtlOps, fd, fd2 \in Fds : fd # fd2 /\ FindDesc(t, op, fd, fd2)
Use(t)      == \E fd \in Fds : FindDesc(t, "use", fd, 0)

\* The second lookup of EPOLL_CTL_ADD.
FindTarget(t) ==
  /\ pc[t] = "find2"
  /\ Lock!CanRead
  /\ Ref(open_files[call[t].fd2])
  /\ Local(t, "desc2", open_files[call[t].fd2])
  /\ Goto(t, "lock")
  /\ UNCHANGED <<kernel, open_files, vtable, registered, mutex, held>>

LockDesc(t) ==
  /\ pc[t] = "lock"
  /\ mutex[call[t].desc] = NoOwner
  /\ mutex' = [mutex EXCEPT ![call[t].desc] = t]
  /\ Goto(t, IF call[t].op = "use" THEN "work" ELSE "ctl")
  /\ UNCHANGED <<kernel, open_files, memory, held, call>>

\* The work of the description's own module under its mutex, as one step that may
\* come at any time or never: a poll of targets, trigger_repoll and sigwait wait in it.
Work(t) ==
  /\ pc[t] = "work"
  /\ mutex' = [mutex EXCEPT ![call[t].desc] = NoOwner]
  /\ Goto(t, "unref")
  /\ UNCHANGED <<kernel, open_files, memory, held, call>>

\* Mutant: the node takes no reference to its pollable description.
MutAddNode(e, fd2, desc2) ==
  LET p == IF kernel[fd2] = "kqueue" /\ desc2 # NoDesc /\ vtable[desc2] = "pollable"
           THEN desc2 ELSE NoDesc
  IN /\ registered[e][fd2] = NoNode
     /\ registered' = [registered EXCEPT ![e][fd2] = p]
     /\ UNCHANGED <<refcount, vtable>>

\* epollfd_ctx_ctl: fstat, then the operation; registering with the kqueue may
\* fail, which removes the node again.  A pollable target is polled at once, under
\* its own mutex (LockOrder): no reference changes.
AddNode(e, fd2, desc2) ==
  LET p == IF kernel[fd2] = "kqueue" /\ desc2 # NoDesc /\ vtable[desc2] = "pollable"
           THEN desc2 ELSE NoDesc
  IN /\ registered[e][fd2] = NoNode
     /\ registered' = [registered EXCEPT ![e][fd2] = p]
     /\ Ref(p)
     /\ UNCHANGED vtable

CtlEffect(op, e, fd2, desc2) ==
  IF kernel[fd2] = "closed" THEN RemoveNodes({e}, fd2)
  ELSE \/ op = "add" /\ AddNode(e, fd2, desc2)
       \/ op \in {"mod", "del"} /\ RemoveNodes({e}, fd2)
       \/ op \in {"add", "mod"} /\ UNCHANGED memory

Ctl(t) ==
  /\ pc[t] = "ctl"
  /\ CtlEffect(call[t].op, call[t].desc, call[t].fd2, call[t].desc2)
  /\ mutex' = [mutex EXCEPT ![call[t].desc] = NoOwner]
  /\ Goto(t, IF call[t].desc2 # NoDesc THEN "unref2" ELSE "unref")
  /\ UNCHANGED <<kernel, open_files, held, call>>

UnrefTarget(t) ==
  /\ pc[t] = "unref2"
  /\ Unref(call[t].desc2)
  /\ Local(t, "desc2", NoDesc)
  /\ Goto(t, "unref")
  /\ UNCHANGED <<kernel, open_files, mutex, held>>

UnrefDesc(t) ==
  /\ pc[t] = "unref"
  /\ Unref(call[t].desc)
  /\ Return(t)
  /\ UNCHANGED <<kernel, open_files, mutex, held>>
-----------------------------------------------------------------------------
(* epoll_shim_close: unlist the number under the write lock, downgrade, lock
   every epollfd of the table in ascending order, take the number out of each,
   release the description, close the number, unlock. *)

Close(t, fd) ==
  /\ pc[t] = "idle"
  /\ call' = [call EXCEPT ![t] = [NoCall EXCEPT !.op = "close", !.fd = fd]]
  /\ Goto(t, "close")
  /\ UNCHANGED <<kernel, open_files, memory, mutex, held>>

CloseLock(t) ==
  /\ pc[t] = "close"
  /\ Lock!AcquireWrite(t)
  /\ Goto(t, "unlist")
  /\ UNCHANGED <<kernel, open_files, memory, mutex, call>>

\* Mutant: the number stays in the table.
MutUnlist(t) ==
  /\ pc[t] = "unlist"
  /\ Local(t, "desc", open_files[call[t].fd])
  /\ Lock!Downgrade(t)
  /\ Goto(t, "lockall")
  /\ UNCHANGED <<kernel, open_files, memory, mutex>>

Unlist(t) ==
  /\ pc[t] = "unlist"
  /\ Local(t, "desc", open_files[call[t].fd])
  /\ open_files' = [open_files EXCEPT ![call[t].fd] = NoDesc]
  /\ Lock!Downgrade(t)
  /\ Goto(t, "lockall")
  /\ UNCHANGED <<kernel, memory, mutex>>

\* The epollfds of the table t has not locked yet.
ToLock(t) == {fd \in EpollFds : mutex[open_files[fd]] # t}

LockEpollFd(t) ==
  /\ pc[t] = "lockall"
  /\ ToLock(t) # {}
  /\ LET e == open_files[Min(ToLock(t))] IN
       /\ mutex[e] = NoOwner
       /\ mutex' = [mutex EXCEPT ![e] = t]
  /\ UNCHANGED <<kernel, open_files, memory, held, pc, call>>

RemoveFd(t) ==
  /\ pc[t] = "lockall"
  /\ ToLock(t) = {}
  /\ RemoveNodes({open_files[fd] : fd \in EpollFds}, call[t].fd)
  /\ Goto(t, "unrefclosed")
  /\ UNCHANGED <<kernel, open_files, mutex, held, call>>

Unlocked(t) == [d \in Descs |-> IF mutex[d] = t THEN NoOwner ELSE mutex[d]]

\* Mutant: the epollfds are unlocked before the number is closed.
MutUnrefClosed(t) ==
  /\ pc[t] = "unrefclosed"
  /\ Unref(call[t].desc)
  /\ Local(t, "desc", NoDesc)
  /\ mutex' = Unlocked(t)
  /\ Goto(t, "realclose")
  /\ UNCHANGED <<kernel, open_files, held>>

UnrefClosed(t) ==
  /\ pc[t] = "unrefclosed"
  /\ Unref(call[t].desc)
  /\ Local(t, "desc", NoDesc)
  /\ Goto(t, "realclose")
  /\ UNCHANGED <<kernel, open_files, mutex, held>>

RealClose(t) ==
  /\ pc[t] = "realclose"
  /\ kernel' = [kernel EXCEPT ![call[t].fd] = "closed"]
  /\ Goto(t, "unlockall")
  /\ UNCHANGED <<open_files, memory, mutex, held, call>>

UnlockAll(t) ==
  /\ pc[t] = "unlockall"
  /\ mutex' = Unlocked(t)
  /\ Lock!Release(t)
  /\ Return(t)
  /\ UNCHANGED <<kernel, open_files, memory>>
-----------------------------------------------------------------------------
(* The application and the kernel, without the shim: a plain close() of a
   number, and the opening of a descriptor that is none of the shim's. *)

PlainClose ==
  /\ \E fd \in AppFds :
       /\ kernel[fd] # "closed"
       /\ \A t \in Threads : pc[t] \in {"alloc", "install"} => call[t].fd # fd
       /\ kernel' = [kernel EXCEPT ![fd] = "closed"]
  /\ UNCHANGED <<open_files, memory, mutex, held, pc, call>>

OpenOther ==
  /\ \E fd \in AppFds :
       /\ kernel[fd] = "closed"
       /\ kernel' = [kernel EXCEPT ![fd] = "other"]
  /\ UNCHANGED <<open_files, memory, mutex, held, pc, call>>
-----------------------------------------------------------------------------
Start(t) ==
  \/ CreateLock(t) \/ Use(t) \/ EpollCtl(t)
  \/ \E fd \in Fds : Close(t, fd)

Creating(t) ==
  \/ OpenKqueue(t) \/ CreateDesc(t) \/ CreateFails(t) \/ NoKqueue(t) \/ DropDesc(t)
  \/ \E kind \in {"epollfd", "pollable"} : InstallDesc(t, kind)

Acquiring(t) == FindTarget(t) \/ LockDesc(t) \/ CloseLock(t) \/ LockEpollFd(t)

Working(t) ==
  \/ Work(t) \/ Ctl(t) \/ UnrefTarget(t) \/ UnrefDesc(t)
  \/ Unlist(t) \/ RemoveFd(t) \/ UnrefClosed(t) \/ RealClose(t) \/ UnlockAll(t)

Next ==
  \/ \E t \in Threads : Start(t) \/ Creating(t) \/ Acquiring(t) \/ Working(t)
  \/ PlainClose \/ OpenOther

Spec == Init /\ [][Next]_vars
-----------------------------------------------------------------------------
\* The references to d: its place in the table, the nodes of the epollfds it is
\* registered with, and the calls that found, created or unlisted it.
References(d) ==
    Cardinality({fd \in Fds : open_files[fd] = d})
  + Nodes(registered, Descs \X Fds, d)
  + Cardinality({t \in Threads : call[t].desc = d})
  + Cardinality({t \in Threads : call[t].desc2 = d})

\* A description is destroyed exactly when nothing refers to it any more: no
\* thread, table slot or epollfd is left with freed memory, and none leaks.
ReferencesCounted == \A d \in Descs : refcount[d] = References(d)

\* No mutex is destroyed while a thread holds it, in particular not by the
\* closer that holds the mutexes of all epollfds without references to them.
MutexOutlivesOwner == \A d \in Descs : mutex[d] # NoOwner => refcount[d] > 0

\* From the moment epoll_shim_close closes a number until it returns, no epollfd
\* of the table has the number registered and the table does not have it, whatever
\* epoll_ctl runs meanwhile: afterwards fstat refuses the number.
ClosedForgotten ==
  \A t \in Threads : pc[t] \in {"realclose", "unlockall"} =>
    /\ open_files[call[t].fd] = NoDesc
    /\ \A e \in EpollFds : registered[open_files[e]][call[t].fd] = NoNode
=============================================================================
