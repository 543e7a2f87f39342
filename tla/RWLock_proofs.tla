---------------------------- MODULE RWLock_proofs ----------------------------
(***************************************************************************)
(* The lock is correct for every finite set of threads smaller than the    *)
(* bias: its types, its accounting, mutual exclusion, and that it          *)
(* implements AbstractRWLock.                                              *)
(***************************************************************************)
EXTENDS RWLock, TLAPS, FiniteSetTheorems

\* A count is a natural number, and no larger than the number of threads.
LEMMA CountType ==
  ASSUME NEW at, NEW l
  PROVE  CountIn(at, l) \in Nat /\ CountIn(at, l) <= Cardinality(Threads)
<1>1. {t \in Threads : at[t] = l} \subseteq Threads
  OBVIOUS
<1>2. IsFiniteSet({t \in Threads : at[t] = l})
  BY <1>1, ThreadsAssumption, FS_Subset
<1>3. QED
  BY <1>1, <1>2, ThreadsAssumption, FS_Subset, FS_CardinalityType DEF CountIn

\* A count is zero exactly when no thread is there.
LEMMA CountZero ==
  ASSUME NEW at, NEW l
  PROVE  CountIn(at, l) = 0 <=> \A t \in Threads : at[t] # l
<1>1. IsFiniteSet({t \in Threads : at[t] = l})
  BY ThreadsAssumption, FS_Subset
<1>2. QED
  BY <1>1, FS_EmptySet DEF CountIn

\* Moving one thread from a to b moves one unit of count, and no other.
LEMMA CountMove ==
  ASSUME NEW at \in [Threads -> PCs], NEW t \in Threads, NEW b \in PCs, at[t] # b
  PROVE  LET next == [at EXCEPT ![t] = b]
         IN  /\ CountIn(next, at[t]) = CountIn(at, at[t]) - 1
             /\ CountIn(next, b) = CountIn(at, b) + 1
             /\ \A c : c # at[t] /\ c # b => CountIn(next, c) = CountIn(at, c)
<1> DEFINE S(f, c) == {u \in Threads : f[u] = c}
           next == [at EXCEPT ![t] = b]
           a    == at[t]
<1>1. \A f, c : IsFiniteSet(S(f, c)) /\ CountIn(f, c) = Cardinality(S(f, c))
  BY ThreadsAssumption, FS_Subset DEF CountIn
<1>2. S(next, a) = S(at, a) \ {t} /\ t \in S(at, a)
  OBVIOUS
<1>3. S(next, b) = S(at, b) \cup {t} /\ t \notin S(at, b)
  OBVIOUS
<1>4. \A c : c # a /\ c # b => S(next, c) = S(at, c)
  OBVIOUS
<1> HIDE DEF S, next, a
<1>5. Cardinality(S(next, a)) = Cardinality(S(at, a)) - 1
  BY <1>1, <1>2, FS_RemoveElement
<1>6. Cardinality(S(next, b)) = Cardinality(S(at, b)) + 1
  BY <1>1, <1>3, FS_AddElement
<1>7. /\ CountIn(next, a) = CountIn(at, a) - 1
      /\ CountIn(next, b) = CountIn(at, b) + 1
      /\ \A c : c # a /\ c # b => CountIn(next, c) = CountIn(at, c)
  BY <1>1, <1>4, <1>5, <1>6
<1>8. QED
  BY <1>7 DEF next, a

\* The size of a union of disjoint sets.
LEMMA DisjointUnion ==
  ASSUME NEW A, IsFiniteSet(A), NEW B, IsFiniteSet(B), A \cap B = {}
  PROVE  /\ IsFiniteSet(A \cup B)
         /\ Cardinality(A \cup B) = Cardinality(A) + Cardinality(B)
<1>1. /\ IsFiniteSet(A \cup B)
      /\ Cardinality(A \cup B) = Cardinality(A) + Cardinality(B) - Cardinality(A \cap B)
  BY FS_Union
<1>2. Cardinality(A \cap B) = 0
  BY FS_EmptySet
<1>3. Cardinality(A) \in Nat /\ Cardinality(B) \in Nat
  BY FS_CardinalityType
<1>4. QED
  BY <1>1, <1>2, <1>3

\* The readers inside, the waiting and the departing ones are different threads.
LEMMA CountSum ==
  ASSUME NEW at
  PROVE  CountIn(at, "reading") + CountIn(at, "dpost") + CountIn(at, "rwait")
           + CountIn(at, "rdepart") <= Cardinality(Threads)
<1> DEFINE S(c) == {u \in Threads : at[u] = c}
           S2 == S("reading") \cup S("dpost")
           S3 == S2 \cup S("rwait")
           S4 == S3 \cup S("rdepart")
<1>1. \A c : IsFiniteSet(S(c)) /\ CountIn(at, c) = Cardinality(S(c))
  BY ThreadsAssumption, FS_Subset DEF CountIn
<1>2. /\ S("reading") \cap S("dpost") = {} /\ S2 \cap S("rwait") = {}
      /\ S3 \cap S("rdepart") = {} /\ S4 \subseteq Threads
  OBVIOUS
<1>3. IsFiniteSet(S2) /\ Cardinality(S2) = Cardinality(S("reading")) + Cardinality(S("dpost"))
  <2> HIDE DEF S
  <2>1. QED BY <1>1, <1>2, DisjointUnion
<1>4. IsFiniteSet(S3) /\ Cardinality(S3) = Cardinality(S2) + Cardinality(S("rwait"))
  <2> HIDE DEF S, S2
  <2>1. QED BY <1>1, <1>2, <1>3, DisjointUnion
<1>5. IsFiniteSet(S4) /\ Cardinality(S4) = Cardinality(S3) + Cardinality(S("rdepart"))
  <2> HIDE DEF S, S3
  <2>1. QED BY <1>1, <1>2, <1>4, DisjointUnion
<1>6. Cardinality(S4) <= Cardinality(Threads)
  <2> HIDE DEF S4
  <2>1. QED BY <1>2, ThreadsAssumption, FS_Subset
<1>7. \A c : CountIn(at, c) \in Nat
  BY CountType
<1>8. Cardinality(Threads) \in Nat
  BY ThreadsAssumption, FS_CardinalityType
<1> HIDE DEF S, S2, S3, S4
<1>9. QED
  BY <1>1, <1>3, <1>4, <1>5, <1>6, <1>7, <1>8
-----------------------------------------------------------------------------
\* The inductive invariant: the types and the accounting.
IInv == TypeOK /\ Accounting

\* What is known of the counts of any assignment of threads to places.
LEMMA CountFacts ==
  ASSUME NEW at
  PROVE  /\ \A l : CountIn(at, l) \in Nat
         /\ CountIn(at, "reading") + CountIn(at, "dpost") + CountIn(at, "rwait")
              + CountIn(at, "rdepart") <= Cardinality(Threads)
         /\ \A l : CountIn(at, l) = 0 <=> \A t \in Threads : at[t] # l
BY CountType, CountZero, CountSum

LEMMA ConstantFacts ==
  /\ Cardinality(Threads) \in Nat /\ MaxReaders \in Nat
  /\ Cardinality(Threads) < MaxReaders /\ NoOwner \notin Threads
BY ThreadsAssumption, FS_CardinalityType

\* The counts of a state, as numbers.
CountsOK ==
  /\ Inside \in Nat /\ Waiting \in Nat /\ Departing \in Nat /\ Posting \in Nat
  /\ Inside + Waiting + Departing <= Cardinality(Threads)

LEMMA CountsNow == CountsOK
<1>1. \A l : Count(l) \in Nat
  BY CountFacts DEF Count
<1>2. Count("reading") + Count("dpost") + Count("rwait") + Count("rdepart")
        <= Cardinality(Threads)
  BY CountFacts DEF Count
<1>3. QED
  BY <1>1, <1>2 DEF CountsOK, Inside, Waiting, Departing, Posting

LEMMA CountsNext == CountsOK'
<1>1. \A l : Count(l)' \in Nat
  BY CountFacts DEF Count
<1>2. (Count("reading") + Count("dpost") + Count("rwait") + Count("rdepart"))'
        <= Cardinality(Threads)
  BY CountFacts DEF Count
<1>3. QED
  BY <1>1, <1>2 DEF CountsOK, Inside, Waiting, Departing, Posting

\* One thread moves from a to b.
LEMMA Move ==
  ASSUME TypeOK, NEW t \in Threads, NEW a, NEW b \in PCs, pc[t] = a, a # b, Goto(t, b)
  PROVE  /\ Count(a) \in Nat \ {0}
         /\ Count(a)' = Count(a) - 1
         /\ Count(b)' = Count(b) + 1
         /\ \A c : c # a /\ c # b => Count(c)' = Count(c)
         /\ \A c : Count(c) \in Nat
         /\ pc' \in [Threads -> PCs]
<1>1. pc \in [Threads -> PCs] /\ pc' = [pc EXCEPT ![t] = b]
  BY DEF TypeOK, Goto
<1>2. pc[t] # b
  OBVIOUS
<1>3. LET next == [pc EXCEPT ![t] = b]
      IN  /\ CountIn(next, pc[t]) = CountIn(pc, pc[t]) - 1
          /\ CountIn(next, b) = CountIn(pc, b) + 1
          /\ \A c : c # pc[t] /\ c # b => CountIn(next, c) = CountIn(pc, c)
  BY <1>1, <1>2, CountMove, Zenon
<1>4. Count(a) \in Nat \ {0} /\ \A c : Count(c) \in Nat
  BY CountFacts DEF Count
<1>5. /\ Count(a)' = Count(a) - 1
      /\ Count(b)' = Count(b) + 1
      /\ \A c : c # a /\ c # b => Count(c)' = Count(c)
  BY <1>1, <1>3 DEF Count
<1>6. QED
  BY <1>1, <1>4, <1>5

\* Readers inside hold the lock by lock_read or by a downgrade in progress.
LEMMA ReaderLeaves ==
  ASSUME TypeOK, NEW t \in Threads, NEW b \in PCs \ {"reading", "dpost"},
         pc[t] = "reading", Goto(t, b)
  PROVE  Inside > 0 /\ Inside' = Inside - 1
<1> DEFINE x == Count("reading")
           y == Count("dpost")
<1>1. x \in Nat \ {0} /\ y \in Nat /\ x' = x - 1 /\ y' = y
  BY Move
<1>2. Inside = x + y /\ Inside' = x' + y'
  BY DEF Inside
<1> HIDE DEF x, y
<1>3. QED
  BY <1>1, <1>2

LEMMA InitIInv == Init => IInv
<1> SUFFICES ASSUME Init PROVE IInv
  OBVIOUS
<1>1. Inside = 0 /\ Waiting = 0 /\ Departing = 0 /\ Posting = 0
  <2>1. \A l : l # "idle" => Count(l) = 0
    BY CountZero DEF Init, Count
  <2>2. QED
    BY <2>1 DEF Inside, Waiting, Departing, Posting
<1>2. TypeOK
  BY ConstantFacts DEF Init, TypeOK, PCs
<1>3. PendingCounts /\ Unannounced /\ Announced
  BY <1>1 DEF Init, PendingCounts, Unannounced, Announced, WriterPC, Biased
<1>4. \A t \in Threads : pc[t] \in WriterPCs <=> t = mutex
  BY ConstantFacts DEF Init, WriterPCs
<1>5. QED
  BY <1>2, <1>3, <1>4 DEF IInv, Accounting

\* Who owns the mutex, and where the owner is.
Owners == \A u \in Threads : pc[u] \in WriterPCs <=> u = mutex

\* A step of a thread that does not own the mutex leaves the writer alone.
LEMMA ReaderMove ==
  ASSUME IInv, NEW t \in Threads, NEW b \in ReaderPCs \cup {"idle", "wlock"},
         pc[t] \in ReaderPCs \cup {"idle"}, Goto(t, b), mutex' = mutex, pc[t] # b
  PROVE  WriterPC' = WriterPC /\ Owners'
<1>1. mutex # t /\ (mutex = NoOwner \/ mutex \in Threads)
  BY DEF IInv, TypeOK, Accounting, ReaderPCs, WriterPCs
<1>2. /\ pc'[t] = b
      /\ \A u \in Threads : u # t => pc'[u] = pc[u]
  BY DEF Goto, IInv, TypeOK
<1>3. QED
  BY <1>1, <1>2 DEF WriterPC, Owners, IInv, Accounting, ReaderPCs, WriterPCs

\* A step of the owner of the mutex from one of the writer's places to another.
LEMMA WriterMove ==
  ASSUME IInv, NEW t \in Threads, NEW b \in WriterPCs,
         pc[t] \in WriterPCs, Goto(t, b), mutex' = mutex
  PROVE  /\ mutex = t /\ WriterPC = pc[t] /\ WriterPC' = b /\ Owners'
<1>1. mutex = t /\ t # NoOwner
  BY ConstantFacts DEF IInv, Accounting
<1>2. /\ pc'[t] = b
      /\ \A u \in Threads : u # t => pc'[u] = pc[u]
  BY DEF Goto, IInv, TypeOK
<1>3. QED
  BY <1>1, <1>2 DEF WriterPC, Owners, IInv, Accounting

\* The ranges of the counters, as in TypeOK.
Ranges ==
  /\ num_pending \in -MaxReaders .. Cardinality(Threads)
  /\ readers_departing \in -Cardinality(Threads) .. Cardinality(Threads)
  /\ reader_wait \in 0 .. Cardinality(Threads)
  /\ writer_wait \in 0 .. 1
  /\ r \in 0 .. Cardinality(Threads)

LEMMA Assemble ==
  ASSUME Ranges', PendingCounts', Unannounced', Announced', Owners', mutex' \in Threads \cup {NoOwner},
         pc' \in [Threads -> PCs]
  PROVE  IInv'
BY DEF IInv, TypeOK, Accounting, Ranges, Owners


\* A reader arrives.
LEMMA LockReadIInv ==
  ASSUME IInv, NEW t \in Threads, LockRead(t)
  PROVE  IInv'
<1>1. CASE num_pending + 1 < 0
  <2>1. Goto(t, "rwait") /\ pc[t] = "idle" /\ mutex' = mutex
    BY <1>1 DEF LockRead, IInv, TypeOK
  <2>2. WriterPC' = WriterPC /\ Owners'
    BY <2>1, ReaderMove DEF ReaderPCs, WriterPCs
  <2>3. /\ Inside' = Inside /\ Waiting' = Waiting + 1 /\ Departing' = Departing /\ Posting' = Posting
        /\ pc' \in [Threads -> PCs]
    BY <2>1, Move, CountsNow DEF IInv, PCs, ReaderPCs, WriterPCs, Inside, Waiting, Departing, Posting, CountsOK
  <2>4. Ranges /\ PendingCounts /\ Unannounced /\ Announced
    BY DEF IInv, TypeOK, Accounting, Ranges
  <2>5. PendingCounts'
    BY <1>1, <2>1, <2>2, <2>3, <2>4, CountsNow, ConstantFacts
    DEF PendingCounts, Biased, CountsOK, Ranges, LockRead
  <2>6. Unannounced'
    BY <1>1, <2>1, <2>2, <2>3, <2>4, CountsNow, ConstantFacts
    DEF PendingCounts, Unannounced, Announced, Active, Biased, CountsOK, Ranges, LockRead
  <2>7. Announced'
    BY <1>1, <2>1, <2>2, <2>3, <2>4, CountsNow, ConstantFacts
    DEF PendingCounts, Unannounced, Announced, Active, Biased, CountsOK, Ranges, LockRead
  <2>8. Ranges'
    BY <1>1, <2>1, <2>2, <2>3, <2>4, <2>5, CountsNow, CountsNext, ConstantFacts
    DEF PendingCounts, Unannounced, Announced, Active, Biased, CountsOK, Ranges, LockRead
  <2>9. QED
    BY <2>1, <2>2, <2>3, <2>5, <2>6, <2>7, <2>8, Assemble DEF IInv, TypeOK
<1>2. CASE ~(num_pending + 1 < 0)
  <2>1. Goto(t, "reading") /\ pc[t] = "idle" /\ mutex' = mutex
    BY <1>2 DEF LockRead, IInv, TypeOK
  <2>2. WriterPC' = WriterPC /\ Owners'
    BY <2>1, ReaderMove DEF ReaderPCs, WriterPCs
  <2>3. /\ Inside' = Inside + 1 /\ Waiting' = Waiting /\ Departing' = Departing /\ Posting' = Posting
        /\ pc' \in [Threads -> PCs]
    BY <2>1, Move, CountsNow DEF IInv, PCs, ReaderPCs, WriterPCs, Inside, Waiting, Departing, Posting, CountsOK
  <2>4. Ranges /\ PendingCounts /\ Unannounced /\ Announced
    BY DEF IInv, TypeOK, Accounting, Ranges
  <2>5. WriterPC \notin Biased
    BY <1>2, <2>3, <2>4, CountsNow, CountsNext, ConstantFacts DEF PendingCounts, CountsOK, Ranges
  <2>6. PendingCounts'
    BY <1>2, <2>1, <2>2, <2>3, <2>4, <2>5, CountsNow, ConstantFacts
    DEF PendingCounts, Biased, CountsOK, Ranges, LockRead
  <2>7. Unannounced'
    BY <1>2, <2>1, <2>2, <2>3, <2>4, <2>5, CountsNow, ConstantFacts
    DEF PendingCounts, Unannounced, Announced, Active, Biased, CountsOK, Ranges, LockRead
  <2>8. Announced'
    BY <1>2, <2>1, <2>2, <2>3, <2>4, <2>5, CountsNow, ConstantFacts
    DEF PendingCounts, Unannounced, Announced, Active, Biased, CountsOK, Ranges, LockRead
  <2>9. Ranges'
    BY <1>2, <2>1, <2>2, <2>3, <2>4, <2>5, <2>6, CountsNow, CountsNext, ConstantFacts
    DEF PendingCounts, Unannounced, Announced, Active, Biased, CountsOK, Ranges, LockRead
  <2>10. QED
    BY <2>1, <2>2, <2>3, <2>6, <2>7, <2>8, <2>9, Assemble DEF IInv, TypeOK
<1>3. QED
  BY <1>1, <1>2 DEF IInv, TypeOK, LockRead


\* A waiting reader takes a token.
LEMMA ReaderWakesIInv ==
  ASSUME IInv, NEW t \in Threads, ReaderWakes(t)
  PROVE  IInv'
<1>1. Goto(t, "reading") /\ pc[t] = "rwait" /\ mutex' = mutex
  BY DEF ReaderWakes, IInv, TypeOK
<1>2. WriterPC' = WriterPC /\ Owners'
  BY <1>1, ReaderMove DEF ReaderPCs, WriterPCs
<1>3. /\ Inside' = Inside + 1 /\ Waiting' = Waiting - 1 /\ Departing' = Departing /\ Posting' = Posting
      /\ pc' \in [Threads -> PCs] /\ Waiting > 0
  BY <1>1, Move, CountsNow DEF IInv, PCs, ReaderPCs, WriterPCs, Inside, Waiting, Departing, Posting, CountsOK
<1>4. Ranges /\ PendingCounts /\ Unannounced /\ Announced
  BY DEF IInv, TypeOK, Accounting, Ranges
<1>5. PendingCounts'
  BY <1>1, <1>2, <1>3, <1>4, CountsNow, ConstantFacts
  DEF PendingCounts, Biased, CountsOK, Ranges, ReaderWakes
<1>6. Unannounced'
  BY <1>1, <1>2, <1>3, <1>4, CountsNow, ConstantFacts
  DEF PendingCounts, Unannounced, Announced, Active, Biased, CountsOK, Ranges, ReaderWakes
<1>7. Announced'
  BY <1>1, <1>2, <1>3, <1>4, CountsNow, ConstantFacts
  DEF PendingCounts, Unannounced, Announced, Active, Biased, CountsOK, Ranges, ReaderWakes
<1>8. Ranges'
  BY <1>1, <1>2, <1>3, <1>4, <1>5, CountsNow, CountsNext, ConstantFacts
  DEF PendingCounts, Unannounced, Announced, Active, Biased, CountsOK, Ranges, ReaderWakes
<1>9. QED
  BY <1>1, <1>2, <1>3, <1>5, <1>6, <1>7, <1>8, Assemble DEF IInv, TypeOK


\* A reader leaves.
LEMMA UnlockReadIInv ==
  ASSUME IInv, NEW t \in Threads, UnlockRead(t)
  PROVE  IInv'
<1>1. CASE num_pending - 1 < 0
  <2>1. Goto(t, "rdepart") /\ pc[t] = "reading" /\ mutex' = mutex
    BY <1>1 DEF UnlockRead, IInv, TypeOK
  <2>2. WriterPC' = WriterPC /\ Owners'
    BY <2>1, ReaderMove DEF ReaderPCs, WriterPCs
  <2>3. /\ Inside' = Inside - 1 /\ Waiting' = Waiting /\ Departing' = Departing + 1 /\ Posting' = Posting
        /\ pc' \in [Threads -> PCs] /\ Inside > 0
    BY <2>1, Move, ReaderLeaves, CountsNow DEF IInv, PCs, ReaderPCs, WriterPCs, Inside, Waiting, Departing, Posting, CountsOK
  <2>4. Ranges /\ PendingCounts /\ Unannounced /\ Announced
    BY DEF IInv, TypeOK, Accounting, Ranges
  <2>5. PendingCounts'
    BY <1>1, <2>1, <2>2, <2>3, <2>4, CountsNow, ConstantFacts
    DEF PendingCounts, Biased, CountsOK, Ranges, UnlockRead
  <2>6. Unannounced'
    BY <1>1, <2>1, <2>2, <2>3, <2>4, CountsNow, ConstantFacts
    DEF PendingCounts, Unannounced, Announced, Active, Biased, CountsOK, Ranges, UnlockRead
  <2>7. Announced'
    BY <1>1, <2>1, <2>2, <2>3, <2>4, CountsNow, ConstantFacts
    DEF PendingCounts, Unannounced, Announced, Active, Biased, CountsOK, Ranges, UnlockRead
  <2>8. Ranges'
    BY <1>1, <2>1, <2>2, <2>3, <2>4, <2>5, CountsNow, CountsNext, ConstantFacts
    DEF PendingCounts, Unannounced, Announced, Active, Biased, CountsOK, Ranges, UnlockRead
  <2>9. QED
    BY <2>1, <2>2, <2>3, <2>5, <2>6, <2>7, <2>8, Assemble DEF IInv, TypeOK
<1>2. CASE ~(num_pending - 1 < 0)
  <2>1. Goto(t, "idle") /\ pc[t] = "reading" /\ mutex' = mutex
    BY <1>2 DEF UnlockRead, IInv, TypeOK
  <2>2. WriterPC' = WriterPC /\ Owners'
    BY <2>1, ReaderMove DEF ReaderPCs, WriterPCs
  <2>3. /\ Inside' = Inside - 1 /\ Waiting' = Waiting /\ Departing' = Departing /\ Posting' = Posting
        /\ pc' \in [Threads -> PCs] /\ Inside > 0
    BY <2>1, Move, ReaderLeaves, CountsNow DEF IInv, PCs, ReaderPCs, WriterPCs, Inside, Waiting, Departing, Posting, CountsOK
  <2>4. Ranges /\ PendingCounts /\ Unannounced /\ Announced
    BY DEF IInv, TypeOK, Accounting, Ranges
  <2>5. PendingCounts'
    BY <1>2, <2>1, <2>2, <2>3, <2>4, CountsNow, ConstantFacts
    DEF PendingCounts, Biased, CountsOK, Ranges, UnlockRead
  <2>6. Unannounced'
    BY <1>2, <2>1, <2>2, <2>3, <2>4, CountsNow, ConstantFacts
    DEF PendingCounts, Unannounced, Announced, Active, Biased, CountsOK, Ranges, UnlockRead
  <2>7. Announced'
    BY <1>2, <2>1, <2>2, <2>3, <2>4, CountsNow, ConstantFacts
    DEF PendingCounts, Unannounced, Announced, Active, Biased, CountsOK, Ranges, UnlockRead
  <2>8. Ranges'
    BY <1>2, <2>1, <2>2, <2>3, <2>4, <2>5, CountsNow, CountsNext, ConstantFacts
    DEF PendingCounts, Unannounced, Announced, Active, Biased, CountsOK, Ranges, UnlockRead
  <2>9. QED
    BY <2>1, <2>2, <2>3, <2>5, <2>6, <2>7, <2>8, Assemble DEF IInv, TypeOK
<1>3. QED
  BY <1>1, <1>2 DEF IInv, TypeOK, UnlockRead


\* A departing reader is counted.
LEMMA DepartIInv ==
  ASSUME IInv, NEW t \in Threads, Depart(t)
  PROVE  IInv'
<1>1. CASE readers_departing - 1 = 0
  <2>1. Goto(t, "rpost") /\ pc[t] = "rdepart" /\ mutex' = mutex
    BY <1>1 DEF Depart, IInv, TypeOK
  <2>2. WriterPC' = WriterPC /\ Owners'
    BY <2>1, ReaderMove DEF ReaderPCs, WriterPCs
  <2>3. /\ Inside' = Inside /\ Waiting' = Waiting /\ Departing' = Departing - 1 /\ Posting' = Posting + 1
        /\ pc' \in [Threads -> PCs] /\ Departing > 0
    BY <2>1, Move, CountsNow DEF IInv, PCs, ReaderPCs, WriterPCs, Inside, Waiting, Departing, Posting, CountsOK
  <2>4. Ranges /\ PendingCounts /\ Unannounced /\ Announced
    BY DEF IInv, TypeOK, Accounting, Ranges
  <2>5. PendingCounts'
    BY <1>1, <2>1, <2>2, <2>3, <2>4, CountsNow, ConstantFacts
    DEF PendingCounts, Biased, CountsOK, Ranges, Depart
  <2>6. Unannounced'
    BY <1>1, <2>1, <2>2, <2>3, <2>4, CountsNow, ConstantFacts
    DEF PendingCounts, Unannounced, Announced, Active, Biased, CountsOK, Ranges, Depart
  <2>7. Announced'
    BY <1>1, <2>1, <2>2, <2>3, <2>4, CountsNow, ConstantFacts
    DEF PendingCounts, Unannounced, Announced, Active, Biased, CountsOK, Ranges, Depart
  <2>8. Ranges'
    BY <1>1, <2>1, <2>2, <2>3, <2>4, <2>5, CountsNow, CountsNext, ConstantFacts
    DEF PendingCounts, Unannounced, Announced, Active, Biased, CountsOK, Ranges, Depart
  <2>9. QED
    BY <2>1, <2>2, <2>3, <2>5, <2>6, <2>7, <2>8, Assemble DEF IInv, TypeOK
<1>2. CASE readers_departing - 1 # 0
  <2>1. Goto(t, "idle") /\ pc[t] = "rdepart" /\ mutex' = mutex
    BY <1>2 DEF Depart, IInv, TypeOK
  <2>2. WriterPC' = WriterPC /\ Owners'
    BY <2>1, ReaderMove DEF ReaderPCs, WriterPCs
  <2>3. /\ Inside' = Inside /\ Waiting' = Waiting /\ Departing' = Departing - 1 /\ Posting' = Posting
        /\ pc' \in [Threads -> PCs] /\ Departing > 0
    BY <2>1, Move, CountsNow DEF IInv, PCs, ReaderPCs, WriterPCs, Inside, Waiting, Departing, Posting, CountsOK
  <2>4. Ranges /\ PendingCounts /\ Unannounced /\ Announced
    BY DEF IInv, TypeOK, Accounting, Ranges
  <2>5. PendingCounts'
    BY <1>2, <2>1, <2>2, <2>3, <2>4, CountsNow, ConstantFacts
    DEF PendingCounts, Biased, CountsOK, Ranges, Depart
  <2>6. Unannounced'
    BY <1>2, <2>1, <2>2, <2>3, <2>4, CountsNow, ConstantFacts
    DEF PendingCounts, Unannounced, Announced, Active, Biased, CountsOK, Ranges, Depart
  <2>7. Announced'
    BY <1>2, <2>1, <2>2, <2>3, <2>4, CountsNow, ConstantFacts
    DEF PendingCounts, Unannounced, Announced, Active, Biased, CountsOK, Ranges, Depart
  <2>8. Ranges'
    BY <1>2, <2>1, <2>2, <2>3, <2>4, <2>5, CountsNow, CountsNext, ConstantFacts
    DEF PendingCounts, Unannounced, Announced, Active, Biased, CountsOK, Ranges, Depart
  <2>9. QED
    BY <2>1, <2>2, <2>3, <2>5, <2>6, <2>7, <2>8, Assemble DEF IInv, TypeOK
<1>3. QED
  BY <1>1, <1>2 DEF IInv, TypeOK, Depart


\* The last departing reader wakes the writer.
LEMMA PostWriterIInv ==
  ASSUME IInv, NEW t \in Threads, PostWriter(t)
  PROVE  IInv'
<1>1. Goto(t, "idle") /\ pc[t] = "rpost" /\ mutex' = mutex
  BY DEF PostWriter, IInv, TypeOK
<1>2. WriterPC' = WriterPC /\ Owners'
  BY <1>1, ReaderMove DEF ReaderPCs, WriterPCs
<1>3. /\ Inside' = Inside /\ Waiting' = Waiting /\ Departing' = Departing /\ Posting' = Posting - 1
      /\ pc' \in [Threads -> PCs] /\ Posting > 0
  BY <1>1, Move, CountsNow DEF IInv, PCs, ReaderPCs, WriterPCs, Inside, Waiting, Departing, Posting, CountsOK
<1>4. Ranges /\ PendingCounts /\ Unannounced /\ Announced
  BY DEF IInv, TypeOK, Accounting, Ranges
<1>5. PendingCounts'
  BY <1>1, <1>2, <1>3, <1>4, CountsNow, ConstantFacts
  DEF PendingCounts, Biased, CountsOK, Ranges, PostWriter
<1>6. Unannounced'
  BY <1>1, <1>2, <1>3, <1>4, CountsNow, ConstantFacts
  DEF PendingCounts, Unannounced, Announced, Active, Biased, CountsOK, Ranges, PostWriter
<1>7. Announced'
  BY <1>1, <1>2, <1>3, <1>4, CountsNow, ConstantFacts
  DEF PendingCounts, Unannounced, Announced, Active, Biased, CountsOK, Ranges, PostWriter
<1>8. Ranges'
  BY <1>1, <1>2, <1>3, <1>4, <1>5, CountsNow, CountsNext, ConstantFacts
  DEF PendingCounts, Unannounced, Announced, Active, Biased, CountsOK, Ranges, PostWriter
<1>9. QED
  BY <1>1, <1>2, <1>3, <1>5, <1>6, <1>7, <1>8, Assemble DEF IInv, TypeOK


\* A writer announces itself.
LEMMA AnnounceIInv ==
  ASSUME IInv, NEW t \in Threads, Announce(t)
  PROVE  IInv'
<1>1. CASE num_pending # 0
  <2>1. Goto(t, "wadd") /\ pc[t] = "wsub" /\ mutex' = mutex
    BY <1>1 DEF Announce, IInv, TypeOK
  <2>2. mutex = t /\ WriterPC = "wsub" /\ WriterPC' = "wadd" /\ Owners'
    BY <2>1, WriterMove DEF ReaderPCs, WriterPCs
  <2>3. /\ Inside' = Inside /\ Waiting' = Waiting /\ Departing' = Departing /\ Posting' = Posting
        /\ pc' \in [Threads -> PCs]
    BY <2>1, Move, CountsNow DEF IInv, PCs, ReaderPCs, WriterPCs, Inside, Waiting, Departing, Posting, CountsOK
  <2>4. Ranges /\ PendingCounts /\ Unannounced /\ Announced
    BY DEF IInv, TypeOK, Accounting, Ranges
  <2>5. PendingCounts'
    BY <1>1, <2>1, <2>2, <2>3, <2>4, CountsNow, ConstantFacts
    DEF PendingCounts, Biased, CountsOK, Ranges, Announce
  <2>6. Unannounced'
    BY <1>1, <2>1, <2>2, <2>3, <2>4, CountsNow, ConstantFacts
    DEF PendingCounts, Unannounced, Announced, Active, Biased, CountsOK, Ranges, Announce
  <2>7. Announced'
    BY <1>1, <2>1, <2>2, <2>3, <2>4, CountsNow, ConstantFacts
    DEF PendingCounts, Unannounced, Announced, Active, Biased, CountsOK, Ranges, Announce
  <2>8. Ranges'
    BY <1>1, <2>1, <2>2, <2>3, <2>4, <2>5, CountsNow, CountsNext, ConstantFacts
    DEF PendingCounts, Unannounced, Announced, Active, Biased, CountsOK, Ranges, Announce
  <2>9. QED
    BY <2>1, <2>2, <2>3, <2>5, <2>6, <2>7, <2>8, Assemble DEF IInv, TypeOK
<1>2. CASE num_pending = 0
  <2>1. Goto(t, "writing") /\ pc[t] = "wsub" /\ mutex' = mutex
    BY <1>2 DEF Announce, IInv, TypeOK
  <2>2. mutex = t /\ WriterPC = "wsub" /\ WriterPC' = "writing" /\ Owners'
    BY <2>1, WriterMove DEF ReaderPCs, WriterPCs
  <2>3. /\ Inside' = Inside /\ Waiting' = Waiting /\ Departing' = Departing /\ Posting' = Posting
        /\ pc' \in [Threads -> PCs]
    BY <2>1, Move, CountsNow DEF IInv, PCs, ReaderPCs, WriterPCs, Inside, Waiting, Departing, Posting, CountsOK
  <2>4. Ranges /\ PendingCounts /\ Unannounced /\ Announced
    BY DEF IInv, TypeOK, Accounting, Ranges
  <2>5. PendingCounts'
    BY <1>2, <2>1, <2>2, <2>3, <2>4, CountsNow, ConstantFacts
    DEF PendingCounts, Biased, CountsOK, Ranges, Announce
  <2>6. Unannounced'
    BY <1>2, <2>1, <2>2, <2>3, <2>4, CountsNow, ConstantFacts
    DEF PendingCounts, Unannounced, Announced, Active, Biased, CountsOK, Ranges, Announce
  <2>7. Announced'
    BY <1>2, <2>1, <2>2, <2>3, <2>4, CountsNow, ConstantFacts
    DEF PendingCounts, Unannounced, Announced, Active, Biased, CountsOK, Ranges, Announce
  <2>8. Ranges'
    BY <1>2, <2>1, <2>2, <2>3, <2>4, <2>5, CountsNow, CountsNext, ConstantFacts
    DEF PendingCounts, Unannounced, Announced, Active, Biased, CountsOK, Ranges, Announce
  <2>9. QED
    BY <2>1, <2>2, <2>3, <2>5, <2>6, <2>7, <2>8, Assemble DEF IInv, TypeOK
<1>3. QED
  BY <1>1, <1>2 DEF IInv, TypeOK, Announce


\* The writer adds the readers it found.
LEMMA CountReadersIInv ==
  ASSUME IInv, NEW t \in Threads, CountReaders(t)
  PROVE  IInv'
<1>1. CASE readers_departing + r # 0
  <2>1. Goto(t, "wwait") /\ pc[t] = "wadd" /\ mutex' = mutex
    BY <1>1 DEF CountReaders, IInv, TypeOK
  <2>2. mutex = t /\ WriterPC = "wadd" /\ WriterPC' = "wwait" /\ Owners'
    BY <2>1, WriterMove DEF ReaderPCs, WriterPCs
  <2>3. /\ Inside' = Inside /\ Waiting' = Waiting /\ Departing' = Departing /\ Posting' = Posting
        /\ pc' \in [Threads -> PCs]
    BY <2>1, Move, CountsNow DEF IInv, PCs, ReaderPCs, WriterPCs, Inside, Waiting, Departing, Posting, CountsOK
  <2>4. Ranges /\ PendingCounts /\ Unannounced /\ Announced
    BY DEF IInv, TypeOK, Accounting, Ranges
  <2>5. PendingCounts'
    BY <1>1, <2>1, <2>2, <2>3, <2>4, CountsNow, ConstantFacts
    DEF PendingCounts, Biased, CountsOK, Ranges, CountReaders
  <2>6. Unannounced'
    BY <1>1, <2>1, <2>2, <2>3, <2>4, CountsNow, ConstantFacts
    DEF PendingCounts, Unannounced, Announced, Active, Biased, CountsOK, Ranges, CountReaders
  <2>7. Announced'
    BY <1>1, <2>1, <2>2, <2>3, <2>4, CountsNow, ConstantFacts
    DEF PendingCounts, Unannounced, Announced, Active, Biased, CountsOK, Ranges, CountReaders
  <2>8. Ranges'
    BY <1>1, <2>1, <2>2, <2>3, <2>4, <2>5, CountsNow, CountsNext, ConstantFacts
    DEF PendingCounts, Unannounced, Announced, Active, Biased, CountsOK, Ranges, CountReaders
  <2>9. QED
    BY <2>1, <2>2, <2>3, <2>5, <2>6, <2>7, <2>8, Assemble DEF IInv, TypeOK
<1>2. CASE readers_departing + r = 0
  <2>1. Goto(t, "writing") /\ pc[t] = "wadd" /\ mutex' = mutex
    BY <1>2 DEF CountReaders, IInv, TypeOK
  <2>2. mutex = t /\ WriterPC = "wadd" /\ WriterPC' = "writing" /\ Owners'
    BY <2>1, WriterMove DEF ReaderPCs, WriterPCs
  <2>3. /\ Inside' = Inside /\ Waiting' = Waiting /\ Departing' = Departing /\ Posting' = Posting
        /\ pc' \in [Threads -> PCs]
    BY <2>1, Move, CountsNow DEF IInv, PCs, ReaderPCs, WriterPCs, Inside, Waiting, Departing, Posting, CountsOK
  <2>4. Ranges /\ PendingCounts /\ Unannounced /\ Announced
    BY DEF IInv, TypeOK, Accounting, Ranges
  <2>5. PendingCounts'
    BY <1>2, <2>1, <2>2, <2>3, <2>4, CountsNow, ConstantFacts
    DEF PendingCounts, Biased, CountsOK, Ranges, CountReaders
  <2>6. Unannounced'
    BY <1>2, <2>1, <2>2, <2>3, <2>4, CountsNow, ConstantFacts
    DEF PendingCounts, Unannounced, Announced, Active, Biased, CountsOK, Ranges, CountReaders
  <2>7. Announced'
    BY <1>2, <2>1, <2>2, <2>3, <2>4, CountsNow, ConstantFacts
    DEF PendingCounts, Unannounced, Announced, Active, Biased, CountsOK, Ranges, CountReaders
  <2>8. Ranges'
    BY <1>2, <2>1, <2>2, <2>3, <2>4, <2>5, CountsNow, CountsNext, ConstantFacts
    DEF PendingCounts, Unannounced, Announced, Active, Biased, CountsOK, Ranges, CountReaders
  <2>9. QED
    BY <2>1, <2>2, <2>3, <2>5, <2>6, <2>7, <2>8, Assemble DEF IInv, TypeOK
<1>3. QED
  BY <1>1, <1>2 DEF IInv, TypeOK, CountReaders


\* The writer wakes.
LEMMA WriterWakesIInv ==
  ASSUME IInv, NEW t \in Threads, WriterWakes(t)
  PROVE  IInv'
<1>1. Goto(t, "writing") /\ pc[t] = "wwait" /\ mutex' = mutex
  BY DEF WriterWakes, IInv, TypeOK
<1>2. mutex = t /\ WriterPC = "wwait" /\ WriterPC' = "writing" /\ Owners'
  BY <1>1, WriterMove DEF ReaderPCs, WriterPCs
<1>3. /\ Inside' = Inside /\ Waiting' = Waiting /\ Departing' = Departing /\ Posting' = Posting
      /\ pc' \in [Threads -> PCs]
  BY <1>1, Move, CountsNow DEF IInv, PCs, ReaderPCs, WriterPCs, Inside, Waiting, Departing, Posting, CountsOK
<1>4. Ranges /\ PendingCounts /\ Unannounced /\ Announced
  BY DEF IInv, TypeOK, Accounting, Ranges
<1>5. PendingCounts'
  BY <1>1, <1>2, <1>3, <1>4, CountsNow, ConstantFacts
  DEF PendingCounts, Biased, CountsOK, Ranges, WriterWakes
<1>6. Unannounced'
  BY <1>1, <1>2, <1>3, <1>4, CountsNow, ConstantFacts
  DEF PendingCounts, Unannounced, Announced, Active, Biased, CountsOK, Ranges, WriterWakes
<1>7. Announced'
  BY <1>1, <1>2, <1>3, <1>4, CountsNow, ConstantFacts
  DEF PendingCounts, Unannounced, Announced, Active, Biased, CountsOK, Ranges, WriterWakes
<1>8. Ranges'
  BY <1>1, <1>2, <1>3, <1>4, <1>5, CountsNow, CountsNext, ConstantFacts
  DEF PendingCounts, Unannounced, Announced, Active, Biased, CountsOK, Ranges, WriterWakes
<1>9. QED
  BY <1>1, <1>2, <1>3, <1>5, <1>6, <1>7, <1>8, Assemble DEF IInv, TypeOK


\* The writer removes its bias.
LEMMA UnlockWriteIInv ==
  ASSUME IInv, NEW t \in Threads, UnlockWrite(t)
  PROVE  IInv'
<1>1. Goto(t, "wpost") /\ pc[t] = "writing" /\ mutex' = mutex
  BY DEF UnlockWrite, Unbias, IInv, TypeOK
<1>2. mutex = t /\ WriterPC = "writing" /\ WriterPC' = "wpost" /\ Owners'
  BY <1>1, WriterMove DEF ReaderPCs, WriterPCs
<1>3. /\ Inside' = Inside /\ Waiting' = Waiting /\ Departing' = Departing /\ Posting' = Posting
      /\ pc' \in [Threads -> PCs]
  BY <1>1, Move, CountsNow DEF IInv, PCs, ReaderPCs, WriterPCs, Inside, Waiting, Departing, Posting, CountsOK
<1>4. Ranges /\ PendingCounts /\ Unannounced /\ Announced
  BY DEF IInv, TypeOK, Accounting, Ranges
<1>5. PendingCounts'
  BY <1>1, <1>2, <1>3, <1>4, CountsNow, ConstantFacts
  DEF PendingCounts, Biased, CountsOK, Ranges, UnlockWrite, Unbias
<1>6. Unannounced'
  BY <1>1, <1>2, <1>3, <1>4, CountsNow, ConstantFacts
  DEF PendingCounts, Unannounced, Announced, Active, Biased, CountsOK, Ranges, UnlockWrite, Unbias
<1>7. Announced'
  BY <1>1, <1>2, <1>3, <1>4, CountsNow, ConstantFacts
  DEF PendingCounts, Unannounced, Announced, Active, Biased, CountsOK, Ranges, UnlockWrite, Unbias
<1>8. Ranges'
  BY <1>1, <1>2, <1>3, <1>4, <1>5, CountsNow, CountsNext, ConstantFacts
  DEF PendingCounts, Unannounced, Announced, Active, Biased, CountsOK, Ranges, UnlockWrite, Unbias
<1>9. QED
  BY <1>1, <1>2, <1>3, <1>5, <1>6, <1>7, <1>8, Assemble DEF IInv, TypeOK


\* The writer removes its bias and stays as a reader.
LEMMA DowngradeIInv ==
  ASSUME IInv, NEW t \in Threads, Downgrade(t)
  PROVE  IInv'
<1>1. Goto(t, "dpost") /\ pc[t] = "writing" /\ mutex' = mutex
  BY DEF Downgrade, Unbias, IInv, TypeOK
<1>2. mutex = t /\ WriterPC = "writing" /\ WriterPC' = "dpost" /\ Owners'
  BY <1>1, WriterMove DEF ReaderPCs, WriterPCs
<1>3. /\ Inside' = Inside + 1 /\ Waiting' = Waiting /\ Departing' = Departing /\ Posting' = Posting
      /\ pc' \in [Threads -> PCs]
  <2>1. /\ Count("dpost")' = Count("dpost") + 1 /\ Count("dpost") \in Nat
        /\ \A c \in {"reading", "rwait", "rdepart", "rpost"} : Count(c)' = Count(c) /\ Count(c) \in Nat
        /\ pc' \in [Threads -> PCs]
    BY <1>1, Move DEF IInv, PCs, WriterPCs
  <2>2. QED
    BY <2>1 DEF Inside, Waiting, Departing, Posting
<1>4. Ranges /\ PendingCounts /\ Unannounced /\ Announced
  BY DEF IInv, TypeOK, Accounting, Ranges
<1>5. PendingCounts'
  BY <1>1, <1>2, <1>3, <1>4, CountsNow, ConstantFacts
  DEF PendingCounts, Biased, CountsOK, Ranges, Downgrade, Unbias
<1>6. Unannounced'
  BY <1>1, <1>2, <1>3, <1>4, CountsNow, ConstantFacts
  DEF PendingCounts, Unannounced, Announced, Active, Biased, CountsOK, Ranges, Downgrade, Unbias
<1>7. Announced'
  BY <1>1, <1>2, <1>3, <1>4, CountsNow, ConstantFacts
  DEF PendingCounts, Unannounced, Announced, Active, Biased, CountsOK, Ranges, Downgrade, Unbias
<1>8. Ranges'
  BY <1>1, <1>2, <1>3, <1>4, <1>5, CountsNow, CountsNext, ConstantFacts
  DEF PendingCounts, Unannounced, Announced, Active, Biased, CountsOK, Ranges, Downgrade, Unbias
<1>9. QED
  BY <1>1, <1>2, <1>3, <1>5, <1>6, <1>7, <1>8, Assemble DEF IInv, TypeOK

\* A writer calls lock_write; nothing is counted before it has the mutex.
LEMMA LockWriteIInv ==
  ASSUME IInv, NEW t \in Threads, LockWrite(t)
  PROVE  IInv'
<1>1. Goto(t, "wlock") /\ pc[t] = "idle" /\ mutex' = mutex
  BY DEF LockWrite, shared
<1>2. WriterPC' = WriterPC /\ Owners'
  BY <1>1, ReaderMove DEF ReaderPCs, WriterPCs
<1>3. /\ Inside' = Inside /\ Waiting' = Waiting /\ Departing' = Departing /\ Posting' = Posting
      /\ pc' \in [Threads -> PCs]
  BY <1>1, Move DEF IInv, PCs, ReaderPCs, WriterPCs, Inside, Waiting, Departing, Posting
<1>4. Ranges /\ PendingCounts /\ Unannounced /\ Announced
  BY DEF IInv, TypeOK, Accounting, Ranges
<1>5. Ranges' /\ PendingCounts' /\ Unannounced' /\ Announced'
  BY <1>1, <1>2, <1>3, <1>4
  DEF LockWrite, shared, Ranges, PendingCounts, Unannounced, Announced, Active
<1>6. QED
  BY <1>1, <1>2, <1>3, <1>5, Assemble DEF IInv, TypeOK

\* A writer takes the mutex.
LEMMA LockMutexIInv ==
  ASSUME IInv, NEW t \in Threads, LockMutex(t)
  PROVE  IInv'
<1>1. Goto(t, "wsub") /\ pc[t] = "wlock" /\ mutex = NoOwner /\ mutex' = t
  BY DEF LockMutex
<1>2. /\ Inside' = Inside /\ Waiting' = Waiting /\ Departing' = Departing /\ Posting' = Posting
      /\ pc' \in [Threads -> PCs]
  BY <1>1, Move DEF IInv, PCs, ReaderPCs, WriterPCs, Inside, Waiting, Departing, Posting
<1>3. WriterPC = "none" /\ WriterPC' = "wsub" /\ Owners'
  BY <1>1, ConstantFacts DEF IInv, Accounting, TypeOK, Goto, WriterPC, Owners, WriterPCs
<1>4. Ranges /\ PendingCounts /\ Unannounced /\ Announced
  BY DEF IInv, TypeOK, Accounting, Ranges
<1>5. Ranges' /\ PendingCounts' /\ Unannounced' /\ Announced'
  BY <1>2, <1>3, <1>4 DEF LockMutex, Ranges, PendingCounts, Unannounced, Announced, Biased
<1>6. QED
  BY <1>1, <1>2, <1>3, <1>5, Assemble

\* The leaving writer grants one waiting reader.
LEMMA PostReaderIInv ==
  ASSUME IInv, NEW t \in Threads, PostReader(t)
  PROVE  IInv'
<1>1. /\ Inside' = Inside /\ Waiting' = Waiting /\ Departing' = Departing /\ Posting' = Posting
      /\ WriterPC' = WriterPC /\ Owners'
  BY DEF PostReader, Inside, Waiting, Departing, Posting, Count, WriterPC, Owners, IInv, Accounting
<1>2. WriterPC \in {"wpost", "dpost"}
  BY ConstantFacts DEF PostReader, IInv, Accounting, WriterPCs, WriterPC
<1>3. Ranges /\ PendingCounts /\ Unannounced /\ Announced
  BY DEF IInv, TypeOK, Accounting, Ranges
<1>4. reader_wait' = reader_wait + 1 /\ r' = r - 1 /\ r > 0
  BY DEF PostReader
<1>5. Waiting = reader_wait + r
  BY <1>2, <1>3 DEF Unannounced, Biased
<1>6. Unannounced'
  BY <1>1, <1>2, <1>3, <1>4, <1>5, CountsNow, ConstantFacts
  DEF Unannounced, Biased, PostReader, Ranges, CountsOK
<1>7. PendingCounts' /\ Announced'
  BY <1>1, <1>2, <1>3 DEF PendingCounts, Announced, Biased, PostReader
<1>8. Ranges'
  BY <1>3, <1>4, <1>5, CountsNow, ConstantFacts DEF Ranges, PostReader, CountsOK
<1>9. QED
  BY <1>1, <1>6, <1>7, <1>8, Assemble DEF IInv, TypeOK, PostReader

\* The leaving writer gives the mutex back.
LEMMA UnlockMutexIInv ==
  ASSUME IInv, NEW t \in Threads, UnlockMutex(t)
  PROVE  IInv'
<1> DEFINE b == IF pc[t] = "dpost" THEN "reading" ELSE "idle"
<1>1. Goto(t, b) /\ pc[t] \in {"wpost", "dpost"} /\ mutex' = NoOwner /\ b \in PCs /\ pc[t] # b
  BY DEF UnlockMutex, PCs, ReaderPCs
<1>2. mutex = t /\ t # NoOwner
  BY <1>1, ConstantFacts DEF IInv, Accounting, WriterPCs
<1>3. Waiting' = Waiting /\ Departing' = Departing /\ Posting' = Posting
  BY <1>1, Move DEF IInv, Waiting, Departing, Posting
<1>4. Inside' = Inside
  <2> DEFINE x == Count("reading")
             y == Count("dpost")
  <2>1. x \in Nat /\ y \in Nat
    BY <1>1, Move DEF IInv
  <2>2. x' + y' = x + y
    <3>1. CASE pc[t] = "dpost"
      <4>1. x' = x + 1 /\ y' = y - 1
        BY <1>1, <3>1, Move DEF IInv
      <4> HIDE DEF x, y
      <4>2. QED BY <2>1, <4>1
    <3>2. CASE pc[t] = "wpost"
      <4>1. x' = x /\ y' = y
        BY <1>1, <3>2, Move DEF IInv
      <4>2. QED BY <4>1
    <3>3. QED BY <1>1, <3>1, <3>2
  <2>3. QED
    BY <2>2 DEF Inside
<1>5. pc' \in [Threads -> PCs]
  BY <1>1, Move DEF IInv
<1>6. WriterPC = pc[t] /\ WriterPC' = "none" /\ Owners'
  <2>1. b \notin WriterPCs
    BY DEF WriterPCs
  <2>2. QED
    BY <1>1, <1>2, <2>1, ConstantFacts DEF IInv, TypeOK, Accounting, WriterPC, Owners, Goto
<1>7. Ranges /\ PendingCounts /\ Unannounced /\ Announced
  BY DEF IInv, TypeOK, Accounting, Ranges
<1>8. r = 0
  BY <1>7, ConstantFacts DEF UnlockMutex, Ranges
<1>9. Waiting = reader_wait + r
  BY <1>1, <1>6, <1>7 DEF Unannounced, Biased
<1>10. Unannounced'
  BY <1>1, <1>3, <1>6, <1>7, <1>8, <1>9 DEF UnlockMutex, Unannounced, Biased, Ranges
<1>11. Ranges' /\ PendingCounts' /\ Announced'
  BY <1>1, <1>3, <1>4, <1>6, <1>7 DEF UnlockMutex, Ranges, PendingCounts, Announced, Biased
<1>12. QED
  BY <1>1, <1>5, <1>6, <1>10, <1>11, Assemble

\* Every step preserves the inductive invariant.
LEMMA NextIInv == IInv /\ [Next]_vars => IInv'
<1> SUFFICES ASSUME IInv, [Next]_vars PROVE IInv'
  OBVIOUS
<1>1. ASSUME NEW t \in Threads, LockRead(t) PROVE IInv'
  BY <1>1, LockReadIInv
<1>2. ASSUME NEW t \in Threads, LockWrite(t) PROVE IInv'
  BY <1>2, LockWriteIInv
<1>3. ASSUME NEW t \in Threads, Leave(t) PROVE IInv'
  BY <1>3, UnlockReadIInv, UnlockWriteIInv, DowngradeIInv DEF Leave
<1>4. ASSUME NEW t \in Threads, Progress(t) PROVE IInv'
  BY <1>4, ReaderWakesIInv, DepartIInv, PostWriterIInv, LockMutexIInv, AnnounceIInv, CountReadersIInv,
     WriterWakesIInv, PostReaderIInv, UnlockMutexIInv DEF Progress
<1>5. CASE UNCHANGED vars
  BY <1>5 DEF vars, shared, IInv, TypeOK, Accounting, PendingCounts, Unannounced, Announced,
    Inside, Waiting, Departing, Posting, Active, Count, WriterPC
<1>6. QED
  BY <1>1, <1>2, <1>3, <1>4, <1>5 DEF Next

\* The types and the accounting of tokens hold in every reachable state.
THEOREM AccountingInvariant == Spec => [](TypeOK /\ Accounting)
<1>1. Spec => []IInv
  BY InitIInv, NextIInv, PTL DEF Spec
<1>2. QED
  BY <1>1, PTL DEF IInv
-----------------------------------------------------------------------------
\* A thread at "writing" leaves nobody inside.
LEMMA WritingAlone ==
  ASSUME IInv, NEW t \in Threads, pc[t] = "writing", NEW u \in Threads, u # t
  PROVE  pc[u] \notin {"writing", "reading", "dpost"}
<1>1. mutex = t /\ t # NoOwner /\ WriterPC = "writing" /\ pc[u] \notin WriterPCs
  BY ConstantFacts DEF IInv, Accounting, WriterPCs, WriterPC
<1>2. Inside = 0
  BY <1>1, CountsNow, ConstantFacts
  DEF IInv, TypeOK, Accounting, Announced, Biased, Active, CountsOK
<1>3. Count("reading") = 0
  <2> DEFINE x == Count("reading")
             y == Count("dpost")
  <2>1. x \in Nat /\ y \in Nat /\ x + y = 0
    BY <1>2, CountFacts DEF Count, Inside
  <2> HIDE DEF x, y
  <2>2. x = 0
    BY <2>1
  <2>3. QED BY <2>2 DEF x
<1>4. pc[u] # "reading"
  BY <1>3, CountFacts DEF Count
<1>5. QED
  BY <1>1, <1>4 DEF WriterPCs

LEMMA IInvExcludes == IInv => MutualExclusion
BY WritingAlone DEF MutualExclusion, Holds

\* A writer excludes every other holder, whatever the number of threads.
THEOREM MutualExclusionInvariant == Spec => []MutualExclusion
<1>1. Spec => []IInv
  BY InitIInv, NextIInv, PTL DEF Spec
<1>2. QED
  BY <1>1, IInvExcludes, PTL
-----------------------------------------------------------------------------
(* Refinement: what the steps do to what the threads hold. *)

\* A reader that gets in finds no writer inside.
LEMMA ReaderFindsNoWriter ==
  ASSUME IInv, IInv', NEW t \in Threads,
         (LockRead(t) /\ ~(num_pending + 1 < 0)) \/ ReaderWakes(t)
  PROVE  \A u \in Threads : Holds(u) # "write"
<1>1. pc[t] # "writing" /\ pc'[t] = "reading" /\ \A u \in Threads : u # t => pc'[u] = pc[u]
  BY DEF LockRead, ReaderWakes, Goto, IInv, TypeOK
<1>2. MutualExclusion'
  BY IInvExcludes, PTL
<1>3. \A u \in Threads : pc'[u] # "writing"
  BY <1>1, <1>2 DEF MutualExclusion, Holds
<1>4. QED
  BY <1>1, <1>3 DEF Holds

\* A writer that gets in finds nobody inside.
LEMMA WriterFindsNobody ==
  ASSUME IInv, IInv', NEW t \in Threads, pc[t] \in {"wsub", "wadd", "wwait"}, Goto(t, "writing")
  PROVE  \A u \in Threads : Holds(u) = "none"
<1>1. pc'[t] = "writing" /\ \A u \in Threads : u # t => pc'[u] = pc[u]
  BY DEF Goto, IInv, TypeOK
<1>2. MutualExclusion'
  BY IInvExcludes, PTL
<1>3. \A u \in Threads : u # t => Holds(u)' = "none"
  BY <1>1, <1>2 DEF MutualExclusion, Holds
<1>4. \A u \in Threads : u # t => Holds(u) = "none"
  BY <1>1, <1>3 DEF Holds
<1>5. QED
  BY <1>4 DEF Holds

held == [t \in Threads |-> Holds(t)]

\* A thread that moves from a to b changes what it holds, and nothing else.
LEMMA HeldMove ==
  ASSUME IInv, NEW t \in Threads, NEW b, Goto(t, b)
  PROVE  held' = [held EXCEPT ![t] = IF b = "writing" THEN "write"
                                     ELSE IF b \in {"reading", "dpost"} THEN "read" ELSE "none"]
BY DEF Goto, held, Holds, IInv, TypeOK

\* A move between two places at which a thread holds the same changes nothing.
LEMMA HeldSame ==
  ASSUME IInv, NEW t \in Threads, NEW b, Goto(t, b),
         Holds(t) = IF b = "writing" THEN "write"
                    ELSE IF b \in {"reading", "dpost"} THEN "read" ELSE "none"
  PROVE  UNCHANGED held
<1>1. held' = [held EXCEPT ![t] = held[t]]
  BY HeldMove DEF held
<1>2. QED
  BY <1>1 DEF held

\* Every step of the lock is a step of the abstract lock or changes nothing held.
LEMMA StepRefines ==
  ASSUME IInv, IInv', Next
  PROVE  Abstract!Next \/ UNCHANGED held
<1> USE DEF Abstract!Next
<1>1. PICK t \in Threads : LockRead(t) \/ LockWrite(t) \/ Progress(t) \/ Leave(t)
  BY DEF Next
<1>2. CASE LockRead(t)
  <2>1. CASE num_pending + 1 < 0
    BY <1>2, <2>1, HeldSame DEF LockRead, Holds
  <2>2. CASE ~(num_pending + 1 < 0)
    <3>1. Goto(t, "reading") /\ held[t] = "none"
      BY <1>2, <2>2 DEF LockRead, held, Holds, IInv, TypeOK
    <3>2. Abstract!AcquireRead(t)
      BY <3>1, <1>2, <2>2, HeldMove, ReaderFindsNoWriter
      DEF Abstract!AcquireRead, Abstract!CanRead, held
    <3>3. QED BY <3>2
  <2>3. QED BY <2>1, <2>2
<1>3. CASE ReaderWakes(t)
  <2>1. Goto(t, "reading") /\ held[t] = "none"
    BY <1>3 DEF ReaderWakes, held, Holds
  <2>2. Abstract!AcquireRead(t)
    BY <2>1, <1>3, HeldMove, ReaderFindsNoWriter
    DEF Abstract!AcquireRead, Abstract!CanRead, held
  <2>3. QED BY <2>2
<1>4. CASE pc[t] \in {"wsub", "wadd", "wwait"} /\ Goto(t, "writing")
  <2>1. held[t] = "none"
    BY <1>4 DEF held, Holds
  <2>2. Abstract!AcquireWrite(t)
    BY <2>1, <1>4, HeldMove, WriterFindsNobody
    DEF Abstract!AcquireWrite, Abstract!CanWrite, held
  <2>3. QED BY <2>2
<1>5. CASE UnlockRead(t) \/ UnlockWrite(t)
  <2>1. PICK b \in {"idle", "rdepart", "wpost"} : Goto(t, b)
    BY <1>5 DEF UnlockRead, UnlockWrite, Unbias
  <2>2. held[t] # "none"
    BY <1>5 DEF UnlockRead, UnlockWrite, Unbias, held, Holds
  <2>3. Abstract!Release(t)
    BY <2>1, <2>2, HeldMove DEF Abstract!Release, held
  <2>4. QED BY <2>3
<1>6. CASE Downgrade(t)
  <2>1. Goto(t, "dpost") /\ held[t] = "write"
    BY <1>6 DEF Downgrade, Unbias, held, Holds
  <2>2. Abstract!Downgrade(t)
    BY <2>1, HeldMove DEF Abstract!Downgrade, held
  <2>3. QED BY <2>2
<1>7. CASE /\ ~(pc[t] \in {"wsub", "wadd", "wwait"} /\ Goto(t, "writing"))
           /\ \/ LockWrite(t) \/ LockMutex(t) \/ Depart(t) \/ PostWriter(t) \/ Announce(t)
              \/ CountReaders(t) \/ WriterWakes(t) \/ UnlockMutex(t)
  <2>1. PICK b \in {"wlock", "wsub", "rpost", "idle", "wadd", "wwait", "reading"} :
          Goto(t, b) /\ (b = "reading" <=> pc[t] = "dpost")
                     /\ pc[t] \notin {"reading", "writing"}
    BY <1>7 DEF LockWrite, LockMutex, Depart, PostWriter, Announce, CountReaders, WriterWakes, UnlockMutex
  <2>2. UNCHANGED held
    BY <2>1, HeldSame DEF Holds
  <2>3. QED BY <2>2
<1>8. CASE PostReader(t)
  BY <1>8 DEF PostReader, held, Holds
<1>9. QED
  BY <1>1, <1>2, <1>3, <1>4, <1>5, <1>6, <1>7, <1>8 DEF Progress, Leave

\* rwlock.c implements the abstract reader/writer lock.
THEOREM Refinement == Spec => ImplementsRWLock
<1>1. Init => Abstract!Init
  BY DEF Init, Abstract!Init, Holds
<1>2. IInv /\ IInv' /\ [Next]_vars => [Abstract!Next]_held
  <2>1. IInv /\ UNCHANGED vars => UNCHANGED held
    BY DEF vars, held, Holds
  <2>2. QED
    BY <2>1, StepRefines
<1>3. Spec => []IInv
  BY InitIInv, NextIInv, PTL DEF Spec
<1>4. QED
  BY <1>1, <1>2, <1>3, PTL DEF Spec, ImplementsRWLock, Abstract!Spec, held
=============================================================================
