------------------------------- MODULE RWLock -------------------------------
(***************************************************************************)
(* The reader/writer lock of the epoll shim (rwlock.c): two C11 atomics,   *)
(* two counting semaphores and a mutex between writers.  Each atomic       *)
(* read-modify-write, each semaphore operation and each mutex operation is *)
(* one step, so that every interleaving the code allows is a behaviour.    *)
(***************************************************************************)
EXTENDS Integers, FiniteSets

CONSTANTS
  Threads,     \* the threads that use the lock
  MaxReaders,  \* MAX_READERS: the bias a writer subtracts
  NoOwner      \* nobody holds the mutex

\* Fewer threads than the bias: otherwise num_pending could not tell a writer's
\* bias from readers.  MAX_READERS is 2^30, far above any thread count.
ASSUME ThreadsAssumption ==
  /\ IsFiniteSet(Threads)
  /\ MaxReaders \in Nat
  /\ Cardinality(Threads) < MaxReaders
  /\ NoOwner \notin Threads

VARIABLES
  num_pending,        \* readers inside or waiting, minus MaxReaders under a writer
  readers_departing,  \* readers the pending writer still waits for
  reader_wait,        \* value of the semaphore blocked readers wait on
  writer_wait,        \* value of the semaphore the pending writer waits on
  mutex,              \* owner of the writers' mutex
  pc,                 \* where each thread is
  r                   \* the local r of the thread that holds the mutex

shared == <<num_pending, readers_departing, reader_wait, writer_wait, mutex>>
vars   == <<shared, pc, r>>

ReaderPCs == {"reading", "rwait", "rdepart", "rpost"}
WriterPCs == {"wsub", "wadd", "wwait", "writing", "wpost", "dpost"}
PCs       == {"idle", "wlock"} \cup ReaderPCs \cup WriterPCs

Goto(t, l) == pc' = [pc EXCEPT ![t] = l]

Init ==
  /\ num_pending = 0
  /\ readers_departing = 0
  /\ reader_wait = 0
  /\ writer_wait = 0
  /\ mutex = NoOwner
  /\ pc = [t \in Threads |-> "idle"]
  /\ r = 0
-----------------------------------------------------------------------------
(* rwlock_lock_read *)

LockRead(t) ==
  /\ pc[t] = "idle"
  /\ num_pending' = num_pending + 1
  /\ Goto(t, IF num_pending + 1 < 0 THEN "rwait" ELSE "reading")
  /\ UNCHANGED <<readers_departing, reader_wait, writer_wait, mutex, r>>

ReaderWakes(t) ==
  /\ pc[t] = "rwait"
  /\ reader_wait > 0
  /\ reader_wait' = reader_wait - 1
  /\ Goto(t, "reading")
  /\ UNCHANGED <<num_pending, readers_departing, writer_wait, mutex, r>>

(* rwlock_unlock_read: leave; under a writer count the departure; the last
   departing reader posts the writer's semaphore. *)

UnlockRead(t) ==
  /\ pc[t] = "reading"
  /\ num_pending' = num_pending - 1
  /\ Goto(t, IF num_pending - 1 < 0 THEN "rdepart" ELSE "idle")
  /\ UNCHANGED <<readers_departing, reader_wait, writer_wait, mutex, r>>

\* Mutant: every departure after the writer stopped waiting posts again.
MutDepart(t) ==
  /\ pc[t] = "rdepart"
  /\ readers_departing' = readers_departing - 1
  /\ Goto(t, IF readers_departing - 1 <= 0 THEN "rpost" ELSE "idle")
  /\ UNCHANGED <<num_pending, reader_wait, writer_wait, mutex, r>>

Depart(t) ==
  /\ pc[t] = "rdepart"
  /\ readers_departing' = readers_departing - 1
  /\ Goto(t, IF readers_departing - 1 = 0 THEN "rpost" ELSE "idle")
  /\ UNCHANGED <<num_pending, reader_wait, writer_wait, mutex, r>>

PostWriter(t) ==
  /\ pc[t] = "rpost"
  /\ writer_wait' = writer_wait + 1
  /\ Goto(t, "idle")
  /\ UNCHANGED <<num_pending, readers_departing, reader_wait, mutex, r>>

(* rwlock_lock_write *)

LockWrite(t) ==
  /\ pc[t] = "idle"
  /\ Goto(t, "wlock")
  /\ UNCHANGED <<shared, r>>

LockMutex(t) ==
  /\ pc[t] = "wlock"
  /\ mutex = NoOwner
  /\ mutex' = t
  /\ Goto(t, "wsub")
  /\ UNCHANGED <<num_pending, readers_departing, reader_wait, writer_wait, r>>

Announce(t) ==
  /\ pc[t] = "wsub"
  /\ r' = num_pending
  /\ num_pending' = num_pending - MaxReaders
  /\ Goto(t, IF num_pending # 0 THEN "wadd" ELSE "writing")
  /\ UNCHANGED <<readers_departing, reader_wait, writer_wait, mutex>>

\* Mutant: the writer does not wait for the readers it found.
MutNoWait(t) ==
  /\ pc[t] = "wadd"
  /\ readers_departing' = readers_departing + r
  /\ Goto(t, "writing")
  /\ UNCHANGED <<num_pending, reader_wait, writer_wait, mutex, r>>

CountReaders(t) ==
  /\ pc[t] = "wadd"
  /\ readers_departing' = readers_departing + r
  /\ Goto(t, IF readers_departing + r # 0 THEN "wwait" ELSE "writing")
  /\ UNCHANGED <<num_pending, reader_wait, writer_wait, mutex, r>>

WriterWakes(t) ==
  /\ pc[t] = "wwait"
  /\ writer_wait > 0
  /\ writer_wait' = writer_wait - 1
  /\ Goto(t, "writing")
  /\ UNCHANGED <<num_pending, readers_departing, reader_wait, mutex, r>>

(* rwlock_unlock_common: remove the bias (keeping one read lock when
   downgrading), post reader_wait once per reader that was waiting, unlock the
   mutex.  From here on r counts the posts still to be made. *)

\* Mutant: the loop starts at 0 even when one lock is kept: a token too many.
MutUnbias(t, keep_reading) ==
  /\ pc[t] = "writing"
  /\ num_pending' = num_pending + MaxReaders + keep_reading
  /\ r' = num_pending + MaxReaders + keep_reading
  /\ Goto(t, IF keep_reading = 1 THEN "dpost" ELSE "wpost")
  /\ UNCHANGED <<readers_departing, reader_wait, writer_wait, mutex>>

\* Mutant: the waiting readers are not posted.
MutForgetReaders(t, keep_reading) ==
  /\ pc[t] = "writing"
  /\ num_pending' = num_pending + MaxReaders + keep_reading
  /\ r' = 0
  /\ Goto(t, IF keep_reading = 1 THEN "dpost" ELSE "wpost")
  /\ UNCHANGED <<readers_departing, reader_wait, writer_wait, mutex>>

Unbias(t, keep_reading) ==
  /\ pc[t] = "writing"
  /\ num_pending' = num_pending + MaxReaders + keep_reading
  /\ r' = num_pending + MaxReaders
  /\ Goto(t, IF keep_reading = 1 THEN "dpost" ELSE "wpost")
  /\ UNCHANGED <<readers_departing, reader_wait, writer_wait, mutex>>

UnlockWrite(t) == Unbias(t, 0)
Downgrade(t)   == Unbias(t, 1)

PostReader(t) ==
  /\ pc[t] \in {"wpost", "dpost"}
  /\ r > 0
  /\ reader_wait' = reader_wait + 1
  /\ r' = r - 1
  /\ UNCHANGED <<num_pending, readers_departing, writer_wait, mutex, pc>>

UnlockMutex(t) ==
  /\ pc[t] \in {"wpost", "dpost"}
  /\ r <= 0
  /\ mutex' = NoOwner
  /\ Goto(t, IF pc[t] = "dpost" THEN "reading" ELSE "idle")
  /\ UNCHANGED <<num_pending, readers_departing, reader_wait, writer_wait, r>>
-----------------------------------------------------------------------------
\* The steps of a call in progress; the caller is free to start none.
Progress(t) ==
  \/ ReaderWakes(t) \/ Depart(t) \/ PostWriter(t)
  \/ LockMutex(t) \/ Announce(t) \/ CountReaders(t) \/ WriterWakes(t)
  \/ PostReader(t) \/ UnlockMutex(t)

\* Every critical section of the shim ends: its holders unlock or downgrade.
Leave(t) == UnlockRead(t) \/ UnlockWrite(t) \/ Downgrade(t)

Next == \E t \in Threads : LockRead(t) \/ LockWrite(t) \/ Progress(t) \/ Leave(t)

Spec == Init /\ [][Next]_vars

\* A thread that waits for a semaphore or the mutex may be overtaken, but gets it
\* if it could again and again: sem_wait and pthread_mutex_lock starve nobody.
Fairness == \A t \in Threads :
  /\ WF_vars(Progress(t)) /\ WF_vars(Leave(t))
  /\ SF_vars(ReaderWakes(t)) /\ SF_vars(LockMutex(t))

FairSpec == Spec /\ Fairness
-----------------------------------------------------------------------------
(* Types and invariants *)

\* The ranges of the counters: none of them can leave the range of int_fast32_t.
TypeOK ==
  /\ num_pending \in -MaxReaders .. Cardinality(Threads)
  /\ readers_departing \in -Cardinality(Threads) .. Cardinality(Threads)
  /\ reader_wait \in 0 .. Cardinality(Threads)
  /\ writer_wait \in 0 .. 1
  /\ mutex \in Threads \cup {NoOwner}
  /\ pc \in [Threads -> PCs]
  /\ r \in 0 .. Cardinality(Threads)

\* What a thread holds, seen from its caller: between the removal of the bias
\* and the end of a downgrade the thread already holds a read lock.
Holds(t) == IF pc[t] = "writing" THEN "write"
            ELSE IF pc[t] \in {"reading", "dpost"} THEN "read"
            ELSE "none"

\* A thread inside lock_write .. unlock_write excludes every reader and every
\* other writer, whatever the order of their atomic steps.
MutualExclusion ==
  \A t, u \in Threads : t # u /\ Holds(t) = "write" => Holds(u) = "none"

\* How many threads are at l.
CountIn(at, l) == Cardinality({t \in Threads : at[t] = l})
Count(l) == CountIn(pc, l)

Inside    == Count("reading") + Count("dpost")
Waiting   == Count("rwait")
Departing == Count("rdepart")
Posting   == Count("rpost")

\* Where the thread that owns the mutex is, and the readers a writer waits for:
\* those that hold the lock and those already granted a token.
WriterPC == IF mutex = NoOwner THEN "none" ELSE pc[mutex]
Biased   == {"wadd", "wwait", "writing"}
Active   == Inside + reader_wait

\* num_pending is the readers inside or waiting, less the bias of the writer.
PendingCounts ==
  num_pending = Inside + Waiting - (IF WriterPC \in Biased THEN MaxReaders ELSE 0)

\* No writer has announced itself: each waiting reader has its token posted or
\* about to be, and nothing of an earlier writer's wait is left behind.
Unannounced ==
  WriterPC \notin Biased =>
    /\ Waiting = reader_wait + (IF WriterPC \in {"wpost", "dpost"} THEN r ELSE 0)
    /\ Departing = 0 /\ Posting = 0 /\ writer_wait = 0 /\ readers_departing = 0

\* A writer has announced itself: readers_departing converges to the readers it
\* still waits for, and exactly the last of them posts its semaphore.
Announced ==
  WriterPC \in Biased =>
    /\ reader_wait <= Waiting
    /\ WriterPC = "wadd" =>
         /\ r + readers_departing = Active + Departing
         /\ readers_departing <= 0
         /\ Posting = 0 /\ writer_wait = 0
    /\ WriterPC = "wwait" =>
         /\ readers_departing = Active + Departing
         /\ Posting + writer_wait = (IF readers_departing = 0 THEN 1 ELSE 0)
    /\ WriterPC = "writing" =>
         /\ Active = 0 /\ Departing = 0 /\ Posting = 0
         /\ writer_wait = 0 /\ readers_departing = 0

\* The counters and semaphores account for every thread, so that no wake-up is
\* lost, duplicated or left over for a later writer: mutual exclusion rests on it.
Accounting ==
  /\ \A t \in Threads : pc[t] \in WriterPCs <=> t = mutex
  /\ PendingCounts
  /\ Unannounced
  /\ Announced

\* The lock implements the abstract reader/writer lock.
Abstract == INSTANCE AbstractRWLock WITH held <- [t \in Threads |-> Holds(t)]
ImplementsRWLock == Abstract!Spec

\* Each thread that calls lock_write enters: it gets the mutex, readers that arrive
\* later queue behind it, and the last reader it waits for wakes it.
WriterEnters(t) == pc[t] = "wlock" ~> pc[t] = "writing"

\* Each reader that is put to sleep gets a token, from the writer it found or a
\* later one, although other readers may take the one that was posted for it.
ReaderEnters(t) == pc[t] = "rwait" ~> pc[t] = "reading"

\* Whoever waits gets in itself, whatever order the others come and go in.
EveryoneEnters == \A t \in Threads : WriterEnters(t) /\ ReaderEnters(t)
=============================================================================
