--------------------------- MODULE AbstractRWLock ---------------------------
(***************************************************************************)
(* What a reader/writer lock promises its callers: a thread holds nothing, *)
(* the read lock or the write lock; the write lock is exclusive; a writer  *)
(* may turn its lock into a read lock without letting another writer in.   *)
(* RWLock.tla, the lock of the epoll shim, implements this module, and     *)
(* FdTable.tla uses it as the lock of the descriptor table.                *)
(***************************************************************************)
CONSTANT Threads

VARIABLE held   \* held[t]: what thread t holds

Modes == {"none", "read", "write"}

\* A reader may enter when nobody writes, a writer when nobody holds the lock.
CanRead  == \A u \in Threads : held[u] # "write"
CanWrite == \A u \in Threads : held[u] = "none"

Init == held = [t \in Threads |-> "none"]

AcquireRead(t) ==
  /\ held[t] = "none"
  /\ CanRead
  /\ held' = [held EXCEPT ![t] = "read"]

AcquireWrite(t) ==
  /\ held[t] = "none"
  /\ CanWrite
  /\ held' = [held EXCEPT ![t] = "write"]

Release(t) ==
  /\ held[t] # "none"
  /\ held' = [held EXCEPT ![t] = "none"]

Downgrade(t) ==
  /\ held[t] = "write"
  /\ held' = [held EXCEPT ![t] = "read"]

Next == \E t \in Threads : AcquireRead(t) \/ AcquireWrite(t) \/ Release(t) \/ Downgrade(t)

Spec == Init /\ [][Next]_held
=============================================================================
