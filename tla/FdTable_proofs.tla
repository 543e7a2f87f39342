--------------------------- MODULE FdTable_proofs ---------------------------
(***************************************************************************)
(* Proofs about FdTable for any number of threads, descriptor numbers and  *)
(* descriptions, whatever numbers the application closes behind the shim's *)
(* back: a description is destroyed exactly when nothing refers to it, no  *)
(* mutex is destroyed while it is held, and a number that epoll_shim_close *)
(* has closed is registered nowhere.                                       *)
(***************************************************************************)
EXTENDS FdTable, FiniteSetTheorems, TLAPS

\* The steps of a thread by what it holds of the table's lock: a creator or a
\* closer that has not unlisted its number yet, a closer that has, anyone else.
Writing == {"create", "alloc", "install", "unlist"}
Closing == {"lockall", "unrefclosed", "realclose", "unlockall"}
Others  == {"idle", "find2", "lock", "work", "ctl", "unref2", "unref", "close"}

\* The steps where call[t].desc is NULL, and where it is a description.
Without == {"idle", "create", "alloc", "close", "unlist", "realclose", "unlockall"}
With    == {"install", "find2", "lock", "work", "ctl", "unref2", "unref"}

Calls == [op : CtlOps \cup {"none", "use", "close"}, fd : Nat, fd2 : Nat,
          desc : Descs \cup {NoDesc}, desc2 : Descs \cup {NoDesc}]

Kinds == {"NULL", "epollfd", "pollable"}

TypeOK ==
  /\ kernel \in [Fds -> {"closed", "kqueue", "other"}]
  /\ open_files \in [Fds -> Descs \cup {NoDesc}]
  /\ refcount \in [Descs -> Nat]
  /\ vtable \in [Descs -> Kinds]
  /\ registered \in [Descs -> [Fds -> Descs \cup {NoDesc, NoNode}]]
  /\ mutex \in [Descs -> Threads \cup {NoOwner}]
  /\ held \in [Threads -> Lock!Modes]
  /\ pc \in [Threads -> Writing \cup Closing \cup Others]
  /\ call \in [Threads -> Calls]

\* The table's lock: the steps that hold it, and nobody else does.
LockHeld ==
  /\ \A t \in Threads :
       held[t] = IF pc[t] \in Writing THEN "write"
                 ELSE IF pc[t] \in Closing THEN "read" ELSE "none"
  /\ \A t, u \in Threads : held[t] # "none" /\ held[u] # "none" => t = u

\* What a call refers to at each of its steps, and the kind of its description.
CallOf(t) ==
  /\ pc[t] \in Without => call[t].desc = NoDesc
  /\ pc[t] \in With => call[t].desc \in Descs
  /\ pc[t] \in {"alloc", "install", "close", "unlist"} \cup Closing => call[t].fd \in Fds
  /\ pc[t] = "find2" => call[t].op = "add"
  /\ pc[t] = "ctl" => call[t].op # "use"
  /\ pc[t] \in {"find2", "lock", "ctl"} /\ call[t].op # "use" =>
       call[t].fd2 \in Fds /\ vtable[call[t].desc] = "epollfd"
  /\ pc[t] = "install" => vtable[call[t].desc] = "NULL"
  /\ call[t].desc2 # NoDesc => call[t].op = "add" /\ pc[t] \in {"lock", "ctl", "unref2"}

\* Only epollfds have nodes, and the nodes refer to pollable descriptions.
NodesInv ==
  /\ \A d \in Descs : refcount[d] = 0 => vtable[d] = "NULL"
  /\ \A e \in Descs, fd \in Fds :
       /\ registered[e][fd] # NoNode => vtable[e] = "epollfd"
       /\ registered[e][fd] \in Descs => vtable[registered[e][fd]] = "pollable"

\* A mutex t holds is that of the description its call works on or, when it
\* closes a number, of an epollfd of the table; a closer has them all in the end.
MutexOf(t) ==
  /\ \A d \in Descs : mutex[d] = t =>
       \/ pc[t] \in {"work", "ctl"} /\ call[t].desc = d
       \/ pc[t] \in Closing /\ \E fd \in EpollFds : open_files[fd] = d
  /\ pc[t] \in {"work", "ctl"} => mutex[call[t].desc] = t
  /\ pc[t] \in Closing \ {"lockall"} => ToLock(t) = {}

\* ClosedForgotten for t, from the step that makes each part of it true on; a
\* number that t is creating is not in the table either.
ForgottenOf(t) ==
  /\ pc[t] \in {"alloc", "install"} \cup Closing => open_files[call[t].fd] = NoDesc
  /\ pc[t] \in Closing \ {"lockall"} =>
       \A e \in EpollFds : registered[open_files[e]][call[t].fd] = NoNode

FdInv ==
  /\ TypeOK /\ LockHeld /\ NodesInv /\ ReferencesCounted
  /\ \A t \in Threads : CallOf(t) /\ MutexOf(t) /\ ForgottenOf(t)
-----------------------------------------------------------------------------
(* Counting references *)

Is(x, d) == IF x = d THEN 1 ELSE 0

InTable(d)  == Cardinality({fd \in Fds : open_files[fd] = d})
InNodes(d)  == Nodes(registered, Descs \X Fds, d)
InCalls(d)  == Cardinality({t \in Threads : call[t].desc = d})
InCalls2(d) == Cardinality({t \in Threads : call[t].desc2 = d})

Count(S, f, d) == Cardinality({x \in S : f[x] = d})

\* f and g are the same on S except at s.
SameBut(S, s, f, g) == \A x \in S \ {s} : g[x] = f[x]

\* Two functions that differ in one place at most.
LEMMA CountChange ==
  ASSUME NEW S, IsFiniteSet(S), NEW f, NEW g, NEW s \in S, NEW d,
         SameBut(S, s, f, g)
  PROVE  Count(S, g, d) = Count(S, f, d) - Is(f[s], d) + Is(g[s], d)
<1> DEFINE A == {x \in S : f[x] = d}
           B == {x \in S : g[x] = d}
<1>0. A \in SUBSET S /\ B \in SUBSET S
  OBVIOUS
<1>2. (s \in A <=> f[s] = d) /\ (s \in B <=> g[s] = d)
  OBVIOUS
<1>a. A \ {s} = B \ {s}
  <2>1. \A x : x \in A \ {s} <=> x \in B \ {s}
    BY DEF SameBut
  <2> HIDE DEF A, B
  <2> QED
    BY <2>1
<1> HIDE DEF A, B
<1>1. /\ IsFiniteSet(A) /\ Cardinality(A) \in Nat
      /\ IsFiniteSet(B) /\ Cardinality(B) \in Nat
  BY <1>0, FS_Subset, FS_CardinalityType
<1>3. Cardinality(A \ {s}) = IF s \in A THEN Cardinality(A) - 1 ELSE Cardinality(A)
  BY <1>1, FS_RemoveElement
<1>4. Cardinality(B \ {s}) = IF s \in B THEN Cardinality(B) - 1 ELSE Cardinality(B)
  BY <1>1, FS_RemoveElement
<1>5. Cardinality(A \ {s}) = Cardinality(B \ {s})
  BY <1>a
<1>6. Cardinality(B) = Cardinality(A) - Is(f[s], d) + Is(g[s], d)
  <2>1. CASE f[s] = d /\ g[s] = d
    BY <1>1, <1>2, <1>3, <1>4, <1>5, <2>1 DEF Is
  <2>2. CASE f[s] # d /\ g[s] = d
    BY <1>1, <1>2, <1>3, <1>4, <1>5, <2>2 DEF Is
  <2>3. CASE f[s] = d /\ g[s] # d
    BY <1>1, <1>2, <1>3, <1>4, <1>5, <2>3 DEF Is
  <2>4. CASE f[s] # d /\ g[s] # d
    BY <1>1, <1>2, <1>3, <1>4, <1>5, <2>4 DEF Is
  <2> QED
    BY <2>1, <2>2, <2>3, <2>4
<1> QED
  BY <1>6 DEF A, B, Count

\* The counts are natural numbers, and they are not 0 where there is a reference.
LEMMA CountTypes ==
  ASSUME NEW d
  PROVE  /\ InTable(d) \in Nat /\ InNodes(d) \in Nat
         /\ InCalls(d) \in Nat /\ InCalls2(d) \in Nat
         /\ References(d) = InTable(d) + InNodes(d) + InCalls(d) + InCalls2(d)
         /\ (\E fd \in Fds : open_files[fd] = d) => InTable(d) > 0
         /\ (\E e \in Descs, fd \in Fds : registered[e][fd] = d) => InNodes(d) > 0
         /\ (\E t \in Threads : call[t].desc = d) => InCalls(d) > 0
         /\ (\E t \in Threads : call[t].desc2 = d) => InCalls2(d) > 0
<1>0. /\ IsFiniteSet(Fds) /\ IsFiniteSet(Threads)
      /\ IsFiniteSet(Descs \X Fds)
  BY FdTableAssumption, FS_Product
<1>1. ASSUME NEW S, IsFiniteSet(S), NEW T \in SUBSET S
      PROVE  Cardinality(T) \in Nat /\ (T # {} => Cardinality(T) > 0)
  <2>1. IsFiniteSet(T) /\ Cardinality(T) \in Nat
    BY <1>1, FS_Subset, FS_CardinalityType
  <2> QED
    BY <2>1, FS_EmptySet
<1>2. InTable(d) \in Nat /\ ((\E fd \in Fds : open_files[fd] = d) => InTable(d) > 0)
  BY <1>0, <1>1 DEF InTable
<1>3. InCalls(d) \in Nat /\ ((\E t \in Threads : call[t].desc = d) => InCalls(d) > 0)
  BY <1>0, <1>1 DEF InCalls
<1>4. InCalls2(d) \in Nat /\ ((\E t \in Threads : call[t].desc2 = d) => InCalls2(d) > 0)
  BY <1>0, <1>1 DEF InCalls2
<1>5. /\ InNodes(d) \in Nat
      /\ (\E e \in Descs, fd \in Fds : registered[e][fd] = d) => InNodes(d) > 0
  <2> DEFINE N == {x \in Descs \X Fds : registered[x[1]][x[2]] = d}
  <2>1. InNodes(d) = Cardinality(N) /\ N \subseteq Descs \X Fds
    BY DEF InNodes, Nodes
  <2>2. ASSUME NEW e \in Descs, NEW fd \in Fds, registered[e][fd] = d PROVE <<e, fd>> \in N
    BY <2>2
  <2> QED
    BY <1>0, <1>1, <2>1, <2>2
<1>6. References(d) = InTable(d) + InNodes(d) + InCalls(d) + InCalls2(d)
  BY DEF References, InTable, InNodes, InCalls, InCalls2
<1> QED
  BY <1>2, <1>3, <1>4, <1>5, <1>6

\* A step that writes one slot of the table, or one thread's call.
LEMMA TableChange ==
  ASSUME NEW fd \in Fds, NEW d, \A n \in Fds \ {fd} : open_files'[n] = open_files[n]
  PROVE  InTable(d)' = InTable(d) - Is(open_files[fd], d) + Is(open_files'[fd], d)
<1>1. IsFiniteSet(Fds)
  BY FdTableAssumption
<1>a. SameBut(Fds, fd, open_files, open_files')
  BY DEF SameBut
<1>2. Count(Fds, open_files', d) = Count(Fds, open_files, d) - Is(open_files[fd], d) + Is(open_files'[fd], d)
  BY <1>1, <1>a, CountChange
<1> QED
  BY <1>2 DEF InTable, Count

LEMMA CallsChange ==
  ASSUME NEW t \in Threads, NEW d, \A u \in Threads \ {t} : call'[u] = call[u]
  PROVE  /\ InCalls(d)' = InCalls(d) - Is(call[t].desc, d) + Is(call'[t].desc, d)
         /\ InCalls2(d)' = InCalls2(d) - Is(call[t].desc2, d) + Is(call'[t].desc2, d)
<1> DEFINE f == [u \in Threads |-> call[u].desc]
           g == [u \in Threads |-> call'[u].desc]
           f2 == [u \in Threads |-> call[u].desc2]
           g2 == [u \in Threads |-> call'[u].desc2]
<1>1. IsFiniteSet(Threads)
  BY FdTableAssumption
<1>2. SameBut(Threads, t, f, g) /\ SameBut(Threads, t, f2, g2)
  BY DEF SameBut
<1>3. /\ InCalls(d) = Count(Threads, f, d)
      /\ InCalls(d)' = Count(Threads, g, d)
      /\ InCalls2(d) = Count(Threads, f2, d)
      /\ InCalls2(d)' = Count(Threads, g2, d)
  BY DEF InCalls, InCalls2, Count
<1>4. /\ f[t] = call[t].desc /\ g[t] = call'[t].desc
      /\ f2[t] = call[t].desc2 /\ g2[t] = call'[t].desc2
  OBVIOUS
<1> HIDE DEF f, g, f2, g2
<1>5. Count(Threads, g, d) = Count(Threads, f, d) - Is(f[t], d) + Is(g[t], d)
  BY <1>1, <1>2, CountChange
<1>6. Count(Threads, g2, d) = Count(Threads, f2, d) - Is(f2[t], d) + Is(g2[t], d)
  BY <1>1, <1>2, CountChange
<1> QED
  BY <1>3, <1>4, <1>5, <1>6

\* A step that takes away the nodes of some places, and no others.
LEMMA NodesTaken ==
  ASSUME NEW places \in SUBSET (Descs \X Fds), NEW d,
         \A e \in Descs, fd \in Fds :
           registered'[e][fd] = d <=> registered[e][fd] = d /\ <<e, fd>> \notin places
  PROVE  /\ Nodes(registered, places, d) \in Nat
         /\ InNodes(d)' = InNodes(d) - Nodes(registered, places, d)
<1> DEFINE A == {x \in Descs \X Fds : registered[x[1]][x[2]] = d}
           B == {x \in Descs \X Fds : registered'[x[1]][x[2]] = d}
           C == {x \in places : registered[x[1]][x[2]] = d}
<1>1. A \in SUBSET (Descs \X Fds) /\ C \in SUBSET A
  OBVIOUS
<1>2. B = A \ C
  <2>1. \A x \in Descs \X Fds : x[1] \in Descs /\ x[2] \in Fds /\ x = <<x[1], x[2]>>
    OBVIOUS
  <2>2. \A x : x \in B <=> x \in A \ C
    BY <2>1
  <2> HIDE DEF A, B, C
  <2> QED
    BY <2>2
<1>3. IsFiniteSet(Descs \X Fds)
  BY FdTableAssumption, FS_Product
<1>4. /\ InNodes(d) = Cardinality(A) /\ InNodes(d)' = Cardinality(B)
      /\ Nodes(registered, places, d) = Cardinality(C)
  BY DEF InNodes, Nodes
<1> HIDE DEF A, B, C
<1>5. IsFiniteSet(A) /\ IsFiniteSet(C)
  BY <1>1, <1>3, FS_Subset
<1>6. Cardinality(A) \in Nat /\ Cardinality(C) \in Nat
  BY <1>5, FS_CardinalityType
<1>7. A \cap C = C
  BY <1>1
<1>8. Cardinality(A \ C) = Cardinality(A) - Cardinality(A \cap C)
  BY <1>5, FS_Difference
<1> QED
  BY <1>2, <1>4, <1>6, <1>7, <1>8

\* The descriptions that are there after a step keep their kind and lose nodes at most.
Kept ==
  /\ refcount' \in [Descs -> Int] /\ vtable' \in [Descs -> Kinds]
  /\ registered' \in [Descs -> [Fds -> Descs \cup {NoDesc, NoNode}]]
  /\ \A d \in Descs : refcount'[d] = 0 => vtable'[d] = "NULL" /\ registered'[d] = NoNodes
  /\ \A d \in Descs : refcount'[d] # 0 => vtable'[d] = vtable[d]
  /\ \A e \in Descs, fd \in Fds : registered'[e][fd] \in {registered[e][fd], NoNode}

\* Releasing one reference to d, or none if d is NULL.
LEMMA UnrefStep ==
  ASSUME FdInv, NEW x \in Descs \cup {NoDesc}, x \in Descs => refcount[x] # 0, Unref(x)
  PROVE  /\ Kept
         /\ \A d \in Descs : /\ refcount'[d] \in Int
                             /\ refcount'[d] - InNodes(d)' = refcount[d] - InNodes(d) - Is(x, d)
<1> DEFINE drop == One(x)
           gone == {d \in Descs : drop[d] > 0 /\ refcount[d] = drop[d]}
           G(d) == Nodes(registered, gone \X Fds, d)
<1>1. \A d \in Descs : drop[d] = Is(x, d)
  BY DEF One, Is
<1>2. \A d \in Descs : d \in gone <=> d = x /\ refcount[d] = 1
  BY <1>1 DEF Is
<1>3. /\ refcount' = [d \in Descs |-> refcount[d] - drop[d] - G(d)]
      /\ \A d \in Descs : refcount'[d] = 0 => vtable'[d] = "NULL" /\ registered'[d] = NoNodes
      /\ \A d \in Descs : refcount'[d] # 0 => vtable'[d] = vtable[d] /\ registered'[d] = registered[d]
  BY DEF Unref, Remaining, Memory
<1>4. gone \X Fds \in SUBSET (Descs \X Fds)
  OBVIOUS
<1>5. ASSUME NEW d \in Descs, vtable[d] = "epollfd" PROVE G(d) = 0
  <2>1. \A p \in gone \X Fds : registered[p[1]][p[2]] # d
    BY <1>5 DEF FdInv, NodesInv
  <2>2. {p \in gone \X Fds : registered[p[1]][p[2]] = d} = {}
    BY <2>1
  <2> QED
    BY <2>2, FS_EmptySet DEF Nodes
<1> HIDE DEF G, gone, drop
<1>6. ASSUME NEW e \in Descs, vtable[e] = "epollfd"
      PROVE  /\ e \in gone => registered'[e] = NoNodes
             /\ e \notin gone => registered'[e] = registered[e]
  <2>1. refcount[e] \in Nat /\ refcount[e] # 0
    BY <1>6 DEF FdInv, TypeOK, NodesInv
  <2>2. refcount'[e] = refcount[e] - Is(x, e)
    BY <1>1, <1>3, <1>5, <1>6, <2>1 DEF Is
  <2>3. CASE e \in gone
    BY <1>2, <1>3, <2>1, <2>2, <2>3 DEF Is
  <2>4. CASE e \notin gone
    BY <1>2, <1>3, <2>1, <2>2, <2>4 DEF Is
  <2> QED
    BY <2>3, <2>4
<1>7. ASSUME NEW d \in Descs, NEW e \in Descs, NEW fd \in Fds
      PROVE  registered'[e][fd] = d <=> registered[e][fd] = d /\ <<e, fd>> \notin gone \X Fds
  <2>1. d # NoNode /\ NoNodes[fd] = NoNode
    BY FdTableAssumption DEF NoNodes
  <2>2. CASE vtable[e] = "epollfd"
    BY <1>6, <2>1, <2>2
  <2>3. CASE vtable[e] # "epollfd"
    <3>1. registered[e][fd] = NoNode
      BY <2>3 DEF FdInv, NodesInv
    <3>2. registered'[e] \in {NoNodes, registered[e]}
      BY <1>3
    <3> QED
      BY <2>1, <3>1, <3>2
  <2> QED
    BY <2>2, <2>3
<1>8. ASSUME NEW d \in Descs
      PROVE  /\ refcount'[d] \in Int
             /\ refcount'[d] - InNodes(d)' = refcount[d] - InNodes(d) - Is(x, d)
  <2>1. G(d) \in Nat /\ InNodes(d)' = InNodes(d) - G(d)
    BY <1>4, <1>7, NodesTaken DEF G
  <2>2. InNodes(d) \in Nat
    BY CountTypes
  <2>3. refcount'[d] = refcount[d] - Is(x, d) - G(d) /\ refcount[d] \in Nat
    BY <1>1, <1>3 DEF FdInv, TypeOK
  <2>4. Is(x, d) \in Nat
    BY DEF Is
  <2> QED
    BY <2>1, <2>2, <2>3, <2>4
<1>9. Kept
  <2>1. \A fd \in Fds : NoNodes[fd] = NoNode
    BY DEF NoNodes
  <2>2. /\ vtable' \in [Descs -> Kinds]
        /\ registered' \in [Descs -> [Fds -> Descs \cup {NoDesc, NoNode}]]
    BY DEF Unref, Memory, NoNodes, FdInv, TypeOK, Kinds
  <2>3. refcount' \in [Descs -> Int]
    BY <1>3, <1>8
  <2> QED
    BY <1>3, <2>1, <2>2, <2>3 DEF Kept
<1> QED
  BY <1>8, <1>9

\* Taking the nodes of a number out of a set of epollfds.
LEMMA RemoveNodesStep ==
  ASSUME FdInv, NEW es \in SUBSET Descs, NEW fd \in Fds, RemoveNodes(es, fd)
  PROVE  /\ Kept
         /\ \A e \in es : registered'[e][fd] = NoNode
         /\ \A d \in Descs : /\ refcount'[d] \in Int
                             /\ refcount'[d] - InNodes(d)' = refcount[d] - InNodes(d)
<1> DEFINE left == [d \in Descs |->
                 IF d \in es THEN [registered[d] EXCEPT ![fd] = NoNode] ELSE registered[d]]
           places == es \X {fd}
           drop == [d \in Descs |-> Nodes(registered, places, d)]
           gone == {d \in Descs : drop[d] > 0 /\ refcount[d] = drop[d]}
           G(d) == Nodes(left, gone \X Fds, d)
<1>1. /\ refcount' = [d \in Descs |-> refcount[d] - drop[d] - G(d)]
      /\ \A d \in Descs : refcount'[d] = 0 => vtable'[d] = "NULL" /\ registered'[d] = NoNodes
      /\ \A d \in Descs : refcount'[d] # 0 => vtable'[d] = vtable[d] /\ registered'[d] = left[d]
  BY DEF RemoveNodes, Remaining, Memory
<1>2. places \in SUBSET (Descs \X Fds) /\ IsFiniteSet(places)
  <2>1. places \in SUBSET (Descs \X Fds) /\ IsFiniteSet(Descs \X Fds)
    BY FdTableAssumption, FS_Product
  <2> QED
    BY <2>1, FS_Subset
<1>3. \A e \in Descs, n \in Fds :
        left[e][n] = IF e \in es /\ n = fd THEN NoNode ELSE registered[e][n]
  BY DEF FdInv, TypeOK
<1>4. ASSUME NEW d \in Descs, vtable[d] # "pollable" PROVE drop[d] = 0
  <2>1. \A p \in places : registered[p[1]][p[2]] # d
    BY <1>4 DEF FdInv, NodesInv
  <2>2. {p \in places : registered[p[1]][p[2]] = d} = {}
    BY <2>1
  <2> QED
    BY <2>2, FS_EmptySet DEF Nodes
<1>5. ASSUME NEW d \in Descs PROVE G(d) = 0
  <2>1. \A e \in gone, n \in Fds : registered[e][n] = NoNode
    <3>1. \A e \in gone : e \in Descs /\ vtable[e] = "pollable"
      BY <1>4
    <3> QED
      BY <3>1 DEF FdInv, NodesInv
  <2>2. \A p \in gone \X Fds : left[p[1]][p[2]] # d
    BY <1>3, <2>1, FdTableAssumption
  <2>3. {p \in gone \X Fds : left[p[1]][p[2]] = d} = {}
    BY <2>2
  <2> QED
    BY <2>3, FS_EmptySet DEF Nodes
<1>6. \A d \in Descs : drop[d] = Nodes(registered, places, d)
  OBVIOUS
<1> HIDE DEF G, gone, drop, left
<1>7. \A n \in Fds : NoNodes[n] = NoNode
  BY DEF NoNodes
<1>8. ASSUME NEW d \in Descs, NEW e \in Descs, NEW n \in Fds
      PROVE  registered'[e][n] = d <=> registered[e][n] = d /\ <<e, n>> \notin places
  <2>1. d # NoNode
    BY FdTableAssumption
  <2>2. CASE vtable[e] = "epollfd"
    <3>1. refcount[e] \in Nat /\ refcount[e] # 0 /\ refcount'[e] = refcount[e]
      BY <1>1, <1>4, <1>5, <2>2 DEF FdInv, TypeOK, NodesInv
    <3> QED
      BY <1>1, <1>3, <2>1, <3>1
  <2>3. CASE vtable[e] # "epollfd"
    <3>1. registered[e][n] = NoNode
      BY <2>3 DEF FdInv, NodesInv
    <3>2. registered'[e] \in {NoNodes, left[e]}
      BY <1>1
    <3> QED
      BY <1>3, <1>7, <2>1, <3>1, <3>2
  <2> QED
    BY <2>2, <2>3
<1>9. ASSUME NEW d \in Descs
      PROVE  /\ refcount'[d] \in Int
             /\ refcount'[d] - InNodes(d)' = refcount[d] - InNodes(d)
  <2>1. drop[d] \in Nat /\ InNodes(d)' = InNodes(d) - drop[d]
    BY <1>2, <1>6, <1>8, NodesTaken
  <2>2. InNodes(d) \in Nat
    BY CountTypes
  <2>3. refcount'[d] = refcount[d] - drop[d] - G(d) /\ refcount[d] \in Nat
    BY <1>1 DEF FdInv, TypeOK
  <2> QED
    BY <1>5, <2>1, <2>2, <2>3
<1>10. Kept
  <2>1. ASSUME NEW e \in Descs, NEW n \in Fds
        PROVE  registered'[e][n] \in {registered[e][n], NoNode}
    <3>1. registered'[e] \in {NoNodes, left[e]}
      BY <1>1
    <3> QED
      BY <1>3, <1>7, <3>1
  <2>2. left \in [Descs -> [Fds -> Descs \cup {NoDesc, NoNode}]]
    BY DEF left, FdInv, TypeOK
  <2>3. /\ vtable' \in [Descs -> Kinds]
        /\ registered' \in [Descs -> [Fds -> Descs \cup {NoDesc, NoNode}]]
    <3>1. /\ vtable' = [d \in Descs |-> IF refcount'[d] = 0 THEN "NULL" ELSE vtable[d]]
          /\ registered' = [d \in Descs |-> IF refcount'[d] = 0 THEN NoNodes ELSE left[d]]
      BY DEF RemoveNodes, Memory, left
    <3> QED
      BY <2>2, <3>1 DEF NoNodes, FdInv, TypeOK, Kinds
  <2>4. refcount' \in [Descs -> Int]
    BY <1>1, <1>9
  <2> QED
    BY <1>1, <2>1, <2>3, <2>4 DEF Kept
<1>11. ASSUME NEW e \in es PROVE registered'[e][fd] = NoNode
  <2>1. registered'[e] \in {NoNodes, left[e]}
    BY <1>1
  <2> QED
    BY <1>3, <1>7, <2>1
<1> QED
  BY <1>9, <1>10, <1>11
-----------------------------------------------------------------------------
(* What a step of one thread leaves alone *)

\* What is referred to after a step is not freed by it.
Present ==
  \A d \in Descs :
    /\ (\E fd \in Fds : open_files[fd] = d) => refcount[d] # 0
    /\ (\E e \in Descs, fd \in Fds : registered[e][fd] = d) => refcount[d] # 0
    /\ (\E t \in Threads : call[t].desc = d \/ call[t].desc2 = d) => refcount[d] # 0

LEMMA CountedIsPresent == ReferencesCounted => Present
<1> SUFFICES ASSUME ReferencesCounted, NEW d \in Descs
             PROVE  /\ (\E fd \in Fds : open_files[fd] = d) => refcount[d] # 0
                    /\ (\E e \in Descs, fd \in Fds : registered[e][fd] = d) => refcount[d] # 0
                    /\ (\E t \in Threads : call[t].desc = d \/ call[t].desc2 = d) => refcount[d] # 0
  BY DEF Present
<1>1. refcount[d] = References(d)
  BY DEF ReferencesCounted
<1>2. /\ InTable(d) \in Nat /\ InNodes(d) \in Nat
      /\ InCalls(d) \in Nat /\ InCalls2(d) \in Nat
      /\ References(d) = InTable(d) + InNodes(d) + InCalls(d) + InCalls2(d)
  BY CountTypes
<1>3. (\E fd \in Fds : open_files[fd] = d) => InTable(d) > 0
  BY CountTypes
<1>4. (\E e \in Descs, fd \in Fds : registered[e][fd] = d) => InNodes(d) > 0
  BY CountTypes
<1>5. (\E t \in Threads : call[t].desc = d) => InCalls(d) > 0
  BY CountTypes
<1>6. (\E t \in Threads : call[t].desc2 = d) => InCalls2(d) > 0
  BY CountTypes
<1> QED
  BY <1>1, <1>2, <1>3, <1>4, <1>5, <1>6

\* The kinds and nodes stay as NodesInv wants them.
LEMMA KeptNodes ==
  ASSUME FdInv, Kept, ReferencesCounted' PROVE NodesInv'
<1>1. Present'
  BY CountedIsPresent, PTL
<1>2. ASSUME NEW e \in Descs, NEW fd \in Fds, registered'[e][fd] # NoNode
      PROVE  /\ vtable'[e] = "epollfd"
             /\ registered'[e][fd] \in Descs => vtable'[registered'[e][fd]] = "pollable"
  <2>1. registered'[e][fd] = registered[e][fd] /\ refcount'[e] # 0
    BY <1>2 DEF Kept, NoNodes
  <2>2. vtable[e] = "epollfd" /\ vtable'[e] = vtable[e]
    BY <1>2, <2>1 DEF Kept, FdInv, NodesInv
  <2>3. ASSUME registered'[e][fd] \in Descs PROVE vtable'[registered'[e][fd]] = "pollable"
    <3>1. refcount'[registered'[e][fd]] # 0
      BY <1>1, <2>3 DEF Present
    <3> QED
      BY <2>1, <2>3, <3>1 DEF Kept, FdInv, NodesInv
  <2> QED
    BY <2>2, <2>3
<1>3. ASSUME NEW d \in Descs, refcount'[d] = 0 PROVE vtable'[d] = "NULL"
  BY <1>3 DEF Kept
<1>4. NoNode \notin Descs
  BY FdTableAssumption
<1> QED
  BY <1>2, <1>3, <1>4 DEF NodesInv

\* A step of t: the other calls stay where they are with the mutexes they hold,
\* the table changes under the write lock only, a kind only when t installs the
\* description, and nodes are added only to an epollfd whose mutex t holds.
StepOf(t) ==
  /\ \A u \in Threads \ {t} :
       /\ pc'[u] = pc[u] /\ call'[u] = call[u]
       /\ \A d \in Descs : mutex'[d] = u <=> mutex[d] = u
  /\ pc[t] \notin Writing => open_files' = open_files
  /\ \A d \in Descs : refcount'[d] # 0 =>
       vtable'[d] = vtable[d] \/ (pc[t] = "install" /\ vtable[d] = "NULL")
  /\ \A e \in Descs, fd \in Fds :
       registered'[e][fd] \in {registered[e][fd], NoNode} \/ mutex[e] = t

LEMMA Frame ==
  ASSUME FdInv, NEW t \in Threads, StepOf(t),
         TypeOK', LockHeld', ReferencesCounted', NodesInv',
         CallOf(t)', MutexOf(t)', ForgottenOf(t)'
  PROVE  FdInv'
<1>1. Present'
  BY CountedIsPresent, PTL
<1>2. ASSUME NEW u \in Threads \ {t} PROVE CallOf(u)' /\ MutexOf(u)' /\ ForgottenOf(u)'
  <2>0. /\ pc'[u] = pc[u] /\ call'[u] = call[u]
        /\ \A d \in Descs : mutex'[d] = u <=> mutex[d] = u
    BY <1>2 DEF StepOf
  <2>1. CallOf(u) /\ MutexOf(u) /\ ForgottenOf(u)
    BY <1>2 DEF FdInv
  <2>2. pc[u] \in Writing \cup Closing => pc[t] \notin Writing \cup Closing
    BY <1>2 DEF FdInv, LockHeld, Writing, Closing
  <2>3. CallOf(u)'
    <3>1. call[u].desc \in Descs => refcount'[call[u].desc] # 0
      BY <1>1, <1>2, <2>0 DEF Present
    <3>2. pc[u] = "install" => vtable'[call[u].desc] = "NULL"
      BY <2>1, <2>2, <3>1 DEF CallOf, StepOf, Writing, With
    <3>3. pc[u] \in {"find2", "lock", "ctl"} /\ call[u].op # "use" =>
            call[u].fd2 \in Fds /\ vtable'[call[u].desc] = "epollfd"
      BY <2>1, <3>1 DEF CallOf, StepOf, With
    <3> QED
      BY <2>0, <2>1, <3>2, <3>3 DEF CallOf
  <2>4. ASSUME pc[u] \in Closing
        PROVE  open_files' = open_files /\ EpollFds' = EpollFds
    <3>1. open_files' = open_files /\ pc[t] # "install"
      BY <2>2, <2>4 DEF StepOf, Writing
    <3>2. ASSUME NEW fd \in Fds, open_files[fd] # NoDesc
          PROVE  vtable'[open_files[fd]] = vtable[open_files[fd]]
      <4>1. open_files[fd] \in Descs
        BY <3>2 DEF FdInv, TypeOK
      <4>2. refcount'[open_files[fd]] # 0
        BY <1>1, <3>1, <4>1 DEF Present
      <4> QED
        BY <3>1, <4>1, <4>2 DEF StepOf
    <3> QED
      BY <3>1, <3>2 DEF EpollFds
  <2>5. MutexOf(u)'
    <3>1. ASSUME NEW d \in Descs, mutex'[d] = u
          PROVE  \/ pc[u] \in {"work", "ctl"} /\ call[u].desc = d
                 \/ pc[u] \in Closing /\ \E fd \in EpollFds' : open_files'[fd] = d
      <4>1. \/ pc[u] \in {"work", "ctl"} /\ call[u].desc = d
            \/ pc[u] \in Closing /\ \E fd \in EpollFds : open_files[fd] = d
        BY <2>0, <2>1, <3>1 DEF MutexOf
      <4> QED
        BY <2>4, <4>1
    <3>2. pc[u] \in {"work", "ctl"} => mutex'[call[u].desc] = u
      BY <2>0, <2>1 DEF MutexOf, CallOf, With
    <3>3. ASSUME pc[u] \in Closing \ {"lockall"}, NEW fd \in EpollFds'
          PROVE  mutex'[open_files'[fd]] = u
      <4>1. fd \in EpollFds /\ open_files'[fd] = open_files[fd] /\ open_files[fd] \in Descs
        BY <2>4, <3>3 DEF EpollFds, FdInv, TypeOK
      <4>2. mutex[open_files[fd]] = u
        BY <2>1, <3>3, <4>1 DEF MutexOf, ToLock
      <4> QED
        BY <2>0, <4>1, <4>2
    <3> QED
      BY <2>0, <3>1, <3>2, <3>3 DEF MutexOf, ToLock
  <2>6. ForgottenOf(u)'
    <3>1. pc[u] \in {"alloc", "install"} \cup Closing => open_files'[call[u].fd] = NoDesc
      BY <2>1, <2>2 DEF ForgottenOf, StepOf, Writing
    <3>2. ASSUME pc[u] \in Closing \ {"lockall"}, NEW fd \in EpollFds'
          PROVE  registered'[open_files'[fd]][call[u].fd] = NoNode
      <4>1. fd \in EpollFds /\ open_files'[fd] = open_files[fd] /\ open_files[fd] \in Descs
        BY <2>4, <3>2 DEF EpollFds, FdInv, TypeOK
      <4>2. mutex[open_files[fd]] = u /\ registered[open_files[fd]][call[u].fd] = NoNode
        BY <2>1, <3>2, <4>1 DEF MutexOf, ToLock, ForgottenOf
      <4>3. call[u].fd \in Fds
        BY <2>1, <3>2 DEF CallOf
      <4> QED
        BY <1>2, <4>1, <4>2, <4>3 DEF StepOf
    <3> QED
      BY <2>0, <3>1, <3>2 DEF ForgottenOf
  <2> QED
    BY <2>3, <2>5, <2>6
<1> QED
  BY <1>2 DEF FdInv

\* Taking a reference to x, or none if x is NULL, and leaving the memory alone.
LEMMA RefStep ==
  ASSUME FdInv, NEW x, Ref(x), UNCHANGED <<vtable, registered>>
  PROVE  /\ Kept
         /\ \A d \in Descs : /\ refcount'[d] \in Int
                             /\ refcount'[d] - InNodes(d)' = refcount[d] - InNodes(d) + Is(x, d)
<1>1. ASSUME NEW d \in Descs
      PROVE  refcount[d] \in Nat /\ refcount'[d] = refcount[d] + Is(x, d) /\ Is(x, d) \in {0, 1}
  BY DEF Ref, One, Is, FdInv, TypeOK
<1>2. ASSUME NEW d \in Descs PROVE InNodes(d)' = InNodes(d) /\ InNodes(d) \in Nat
  <2>1. InNodes(d) \in Nat
    BY CountTypes
  <2> QED
    BY <2>1 DEF InNodes, Nodes
<1>3. ASSUME NEW d \in Descs, refcount'[d] = 0
      PROVE  vtable'[d] = "NULL" /\ registered'[d] = NoNodes
  <2>1. refcount[d] = 0 /\ vtable[d] = "NULL"
    BY <1>1, <1>3 DEF FdInv, NodesInv
  <2>2. registered[d] \in [Fds -> Descs \cup {NoDesc, NoNode}]
    BY DEF FdInv, TypeOK
  <2>3. \A fd \in Fds : registered[d][fd] = NoNode
    BY <2>1 DEF FdInv, NodesInv
  <2> QED
    BY <2>1, <2>2, <2>3 DEF NoNodes
<1>4. /\ refcount' \in [Descs -> Int] /\ vtable' \in [Descs -> Kinds]
      /\ registered' \in [Descs -> [Fds -> Descs \cup {NoDesc, NoNode}]]
  BY DEF Ref, One, FdInv, TypeOK
<1>5. Kept
  BY <1>3, <1>4 DEF Kept
<1>6. ASSUME NEW d \in Descs
      PROVE  /\ refcount'[d] \in Int
             /\ refcount'[d] - InNodes(d)' = refcount[d] - InNodes(d) + Is(x, d)
  BY <1>1, <1>2
<1> QED
  BY <1>5, <1>6

\* A step that leaves the memory alone.
LEMMA SameMemory ==
  ASSUME FdInv, UNCHANGED memory
  PROVE  /\ Kept
         /\ \A d \in Descs : /\ refcount'[d] \in Int
                             /\ refcount'[d] - InNodes(d)' = refcount[d] - InNodes(d)
<1>1. NoDesc \notin Descs
  BY FdTableAssumption
<1>2. Ref(NoDesc)
  <2>1. \A d \in Descs : refcount[d] \in Nat /\ One(NoDesc)[d] = 0
    BY <1>1 DEF One, FdInv, TypeOK
  <2>2. refcount \in [Descs -> Nat] /\ refcount' = refcount
    BY DEF FdInv, TypeOK, memory
  <2> QED
    BY <2>1, <2>2 DEF Ref
<1>3. UNCHANGED <<vtable, registered>>
  BY DEF memory
<1>4. /\ Kept
      /\ \A d \in Descs : /\ refcount'[d] \in Int
                          /\ refcount'[d] - InNodes(d)' = refcount[d] - InNodes(d) + Is(NoDesc, d)
  BY <1>2, <1>3, RefStep
<1>5. \A d \in Descs : Is(NoDesc, d) = 0 /\ InNodes(d) \in Nat /\ refcount[d] \in Nat
  BY <1>1, CountTypes DEF Is, FdInv, TypeOK
<1> QED
  BY <1>4, <1>5

\* The counts agree after a step if what they gain is what the references gain.
LEMMA Recount ==
  ASSUME FdInv,
         \A d \in Descs :
           /\ refcount'[d] \in Int
           /\ refcount'[d] - InNodes(d)' = refcount[d] - InNodes(d)
                + (InTable(d)' - InTable(d)) + (InCalls(d)' - InCalls(d))
                + (InCalls2(d)' - InCalls2(d))
  PROVE  ReferencesCounted' /\ \A d \in Descs : refcount'[d] \in Nat
<1> SUFFICES ASSUME NEW d \in Descs PROVE refcount'[d] = References(d)' /\ refcount'[d] \in Nat
  BY DEF ReferencesCounted
<1> DEFINE Sums == /\ InTable(d) \in Nat /\ InNodes(d) \in Nat
                   /\ InCalls(d) \in Nat /\ InCalls2(d) \in Nat
                   /\ References(d) = InTable(d) + InNodes(d) + InCalls(d) + InCalls2(d)
<1>1. Sums
  BY CountTypes
<1>2. Sums'
  BY CountTypes, PTL
<1>3. refcount[d] = References(d)
  BY DEF FdInv, ReferencesCounted
<1> QED
  BY <1>1, <1>2, <1>3

\* The references to d that the call of t gains in a step.
Gain(t, d) ==
  (Is(call'[t].desc, d) - Is(call[t].desc, d)) + (Is(call'[t].desc2, d) - Is(call[t].desc2, d))

\* The same when only the call of t changes.
LEMMA RecountCall ==
  ASSUME FdInv, NEW t \in Threads, open_files' = open_files,
         \A u \in Threads \ {t} : call'[u] = call[u],
         \A d \in Descs :
           /\ refcount'[d] \in Int
           /\ refcount'[d] - InNodes(d)' = refcount[d] - InNodes(d) + Gain(t, d)
  PROVE  ReferencesCounted' /\ \A d \in Descs : refcount'[d] \in Nat
<1> SUFFICES ASSUME NEW d \in Descs
             PROVE  /\ refcount'[d] \in Int
                    /\ refcount'[d] - InNodes(d)' = refcount[d] - InNodes(d)
                         + (InTable(d)' - InTable(d)) + (InCalls(d)' - InCalls(d))
                         + (InCalls2(d)' - InCalls2(d))
  BY Recount
<1>1. InTable(d)' = InTable(d)
  BY DEF InTable
<1>2. /\ InCalls(d)' = InCalls(d) - Is(call[t].desc, d) + Is(call'[t].desc, d)
      /\ InCalls2(d)' = InCalls2(d) - Is(call[t].desc2, d) + Is(call'[t].desc2, d)
  BY CallsChange
<1>3. InTable(d) \in Nat /\ InCalls(d) \in Nat /\ InCalls2(d) \in Nat /\ InNodes(d) \in Nat
  BY CountTypes
<1>4. /\ Is(call[t].desc, d) \in Int /\ Is(call'[t].desc, d) \in Int
      /\ Is(call[t].desc2, d) \in Int /\ Is(call'[t].desc2, d) \in Int
      /\ refcount[d] \in Int
  BY DEF Is, FdInv, TypeOK
<1> QED
  BY <1>1, <1>2, <1>3, <1>4 DEF Gain
-----------------------------------------------------------------------------
(* Steps that change no mutex and lead neither to the work under one nor to a
   closer's later steps *)

Quiet == (Writing \cup Others) \ {"work", "ctl"}

\* t goes to step l, and takes, leaves or keeps the table's lock as l wants.
Moves(t, l) ==
  /\ pc' = [pc EXCEPT ![t] = l]
  /\ l \in Writing \cup Closing \cup Others
  /\ \/ UNCHANGED held /\ (l \in Writing <=> pc[t] \in Writing) /\ (l \in Closing <=> pc[t] \in Closing)
     \/ Lock!AcquireWrite(t) /\ l \in Writing
     \/ Lock!Release(t) /\ l \in Others
     \/ Lock!Downgrade(t) /\ l \in Closing

LEMMA LockStep ==
  ASSUME TypeOK, LockHeld, NEW t \in Threads, NEW l, Moves(t, l)
  PROVE  /\ LockHeld' /\ held' \in [Threads -> Lock!Modes]
         /\ pc' \in [Threads -> Writing \cup Closing \cup Others]
<1>1. /\ \A u \in Threads : held[u] = IF pc[u] \in Writing THEN "write"
                                    ELSE IF pc[u] \in Closing THEN "read" ELSE "none"
      /\ \A u, v \in Threads : held[u] # "none" /\ held[v] # "none" => u = v
      /\ held \in [Threads -> Lock!Modes] /\ pc \in [Threads -> Writing \cup Closing \cup Others]
  BY DEF LockHeld, TypeOK
<1>2. \A x : /\ ~(x \in Writing /\ x \in Closing)
             /\ x \in Others => x \notin Writing /\ x \notin Closing
  BY DEF Writing, Closing, Others
<1>3. l \in Writing \cup Closing \cup Others /\ pc' = [pc EXCEPT ![t] = l]
  BY DEF Moves
<1>4. /\ pc'[t] = l /\ \A u \in Threads \ {t} : pc'[u] = pc[u]
      /\ pc' \in [Threads -> Writing \cup Closing \cup Others]
  BY <1>1, <1>3
<1>5. CASE UNCHANGED held /\ (l \in Writing <=> pc[t] \in Writing) /\ (l \in Closing <=> pc[t] \in Closing)
  BY <1>1, <1>4, <1>5 DEF LockHeld
<1>6. CASE Lock!AcquireWrite(t) /\ l \in Writing
  BY <1>1, <1>2, <1>4, <1>6 DEF LockHeld, Lock!AcquireWrite, Lock!CanWrite, Lock!Modes
<1>7. CASE Lock!Release(t) /\ l \in Others
  BY <1>1, <1>2, <1>4, <1>7 DEF LockHeld, Lock!Release, Lock!Modes
<1>8. CASE Lock!Downgrade(t) /\ l \in Closing
  BY <1>1, <1>2, <1>4, <1>8 DEF LockHeld, Lock!Downgrade, Lock!Modes
<1> QED
  BY <1>5, <1>6, <1>7, <1>8 DEF Moves

LEMMA QuietStep ==
  ASSUME FdInv, NEW t \in Threads, NEW l \in Quiet, pc[t] \in Quiet,
         pc' = [pc EXCEPT ![t] = l],
         mutex' = mutex, \A u \in Threads \ {t} : call'[u] = call[u],
         pc[t] \notin Writing => open_files' = open_files,
         l \in {"alloc", "install"} => open_files'[call'[t].fd] = NoDesc,
         Kept, TypeOK', LockHeld', ReferencesCounted', CallOf(t)'
  PROVE  FdInv'
<1>1. /\ pc'[t] = l /\ \A u \in Threads \ {t} : pc'[u] = pc[u]
      /\ l \notin Closing \cup {"work", "ctl"} /\ pc[t] \notin Closing \cup {"work", "ctl"}
  BY DEF FdInv, TypeOK, Quiet, Writing, Others, Closing
<1>2. StepOf(t)
  BY <1>1 DEF StepOf, Kept
<1>3. NodesInv'
  BY KeptNodes
<1>4. \A d \in Descs : mutex[d] # t
  BY <1>1 DEF FdInv, MutexOf
<1>5. MutexOf(t)'
  BY <1>1, <1>4 DEF MutexOf
<1>6. ForgottenOf(t)'
  BY <1>1 DEF ForgottenOf
<1> QED
  BY <1>2, <1>3, <1>5, <1>6, Frame

\* A quiet step that leaves the table alone: its references are those of the call.
LEMMA CallStep ==
  ASSUME FdInv, NEW t \in Threads, NEW l \in Quiet, pc[t] \in Quiet, Moves(t, l),
         mutex' = mutex, open_files' = open_files,
         kernel' \in [Fds -> {"closed", "kqueue", "other"}],
         call' \in [Threads -> Calls], \A u \in Threads \ {t} : call'[u] = call[u],
         l \in {"alloc", "install"} => open_files[call'[t].fd] = NoDesc,
         Kept,
         \A d \in Descs :
           /\ refcount'[d] \in Int
           /\ refcount'[d] - InNodes(d)' = refcount[d] - InNodes(d) + Gain(t, d),
         CallOf(t)'
  PROVE  FdInv'
<1>1. ReferencesCounted' /\ \A d \in Descs : refcount'[d] \in Nat
  BY RecountCall
<1>2. LockHeld' /\ held' \in [Threads -> Lock!Modes] /\ pc' \in [Threads -> Writing \cup Closing \cup Others]
  BY LockStep DEF FdInv
<1>3. refcount' \in [Descs -> Nat]
  BY <1>1 DEF Kept
<1>4. TypeOK'
  BY <1>2, <1>3 DEF TypeOK, FdInv, Kept
<1>5. pc' = [pc EXCEPT ![t] = l]
  BY DEF Moves
<1> QED
  BY <1>1, <1>2, <1>4, <1>5, QuietStep
-----------------------------------------------------------------------------
(* The actions *)

LEMMA InitStep == Init => FdInv
<1> SUFFICES ASSUME Init PROVE FdInv
  OBVIOUS
<1> USE DEF Init
<1>0. NoNode \notin Descs /\ NoDesc \notin Descs /\ NoOwner \notin Threads
  BY FdTableAssumption
<1>1. TypeOK
  BY DEF TypeOK, NoNodes, NoCall, Calls, Lock!Modes, Others, Kinds
<1>2. LockHeld
  BY DEF LockHeld, Writing, Closing
<1>3. NodesInv
  BY <1>0 DEF NodesInv, NoNodes
<1>4. ReferencesCounted
  <2> SUFFICES ASSUME NEW d \in Descs PROVE References(d) = 0
    BY DEF ReferencesCounted
  <2>1. {fd \in Fds : open_files[fd] = d} = {}
    BY <1>0
  <2>2. {t \in Threads : call[t].desc = d} = {} /\ {t \in Threads : call[t].desc2 = d} = {}
    BY <1>0 DEF NoCall
  <2>3. {x \in Descs \X Fds : registered[x[1]][x[2]] = d} = {}
    BY <1>0 DEF NoNodes
  <2> HIDE DEF Init
  <2>4. /\ Cardinality({fd \in Fds : open_files[fd] = d}) = 0
        /\ Cardinality({t \in Threads : call[t].desc = d}) = 0
        /\ Cardinality({t \in Threads : call[t].desc2 = d}) = 0
        /\ Nodes(registered, Descs \X Fds, d) = 0
    BY <2>1, <2>2, <2>3, FS_EmptySet DEF Nodes
  <2> QED
    BY <2>4 DEF References
<1>5. ASSUME NEW t \in Threads PROVE CallOf(t) /\ MutexOf(t) /\ ForgottenOf(t)
  BY <1>0 DEF CallOf, MutexOf, ForgottenOf, NoCall, Without, With, Closing
<1> QED
  BY <1>1, <1>2, <1>3, <1>4, <1>5 DEF FdInv


LEMMA IsValues ==
  ASSUME NEW x, NEW d \in Descs
  PROVE  Is(x, d) \in {0, 1} /\ Is(NoDesc, d) = 0
  BY FdTableAssumption DEF Is

\* What every action starts from.
LEMMA Facts ==
  ASSUME FdInv, NEW t \in Threads
  PROVE  /\ CallOf(t) /\ MutexOf(t) /\ ForgottenOf(t)
         /\ call \in [Threads -> Calls] /\ kernel \in [Fds -> {"closed", "kqueue", "other"}]
         /\ call[t].desc \in Descs \cup {NoDesc} /\ call[t].desc2 \in Descs \cup {NoDesc}
         /\ pc[t] \in Writing \cup Closing \cup Others
         /\ pc \in [Threads -> Writing \cup Closing \cup Others]
         /\ \A d \in Descs : refcount[d] \in Nat /\ InNodes(d) \in Nat
         /\ call[t].desc2 # NoDesc => pc[t] \in {"lock", "ctl", "unref2"}
<1>1. \A d \in Descs : refcount[d] \in Nat /\ InNodes(d) \in Nat
  BY CountTypes DEF FdInv, TypeOK
<1> QED
  BY <1>1 DEF FdInv, TypeOK, Calls, CallOf

\* A call that has returned.
LEMMA Returned ==
  ASSUME FdInv, NEW t \in Threads, pc' = [pc EXCEPT ![t] = "idle"], call' = [call EXCEPT ![t] = NoCall]
  PROVE  /\ CallOf(t)' /\ call' \in [Threads -> Calls] /\ call'[t] = NoCall
         /\ \A u \in Threads \ {t} : call'[u] = call[u]
         /\ call[t].desc2 = NoDesc => \A d \in Descs : Gain(t, d) = 0 - Is(call[t].desc, d)
         /\ call[t].desc = NoDesc /\ call[t].desc2 = NoDesc => \A d \in Descs : Gain(t, d) = 0
<1>1. call \in [Threads -> Calls] /\ pc \in [Threads -> Writing \cup Closing \cup Others]
  BY Facts
<1>2. call'[t] = NoCall /\ pc'[t] = "idle" /\ call' \in [Threads -> Calls]
  BY <1>1 DEF NoCall, Calls
<1>3. CallOf(t)'
  BY <1>2 DEF CallOf, NoCall, Without, With, Closing
<1>4. ASSUME call[t].desc2 = NoDesc, NEW d \in Descs
      PROVE  /\ Gain(t, d) = 0 - Is(call[t].desc, d)
             /\ call[t].desc = NoDesc => Gain(t, d) = 0
  <2>1. Is(call[t].desc, d) \in {0, 1} /\ Is(NoDesc, d) = 0
    BY IsValues
  <2>2. Gain(t, d) = (Is(NoDesc, d) - Is(call[t].desc, d)) + (Is(NoDesc, d) - Is(NoDesc, d))
    BY <1>2, <1>4 DEF Gain, NoCall
  <2> QED
    BY <2>1, <2>2
<1> QED
  BY <1>1, <1>2, <1>3, <1>4

LEMMA CreateLockStep ==
  ASSUME FdInv, NEW t \in Threads, CreateLock(t) PROVE FdInv'
<1> USE DEF CreateLock, Goto
<1>1. Moves(t, "create") /\ "create" \in Quiet /\ pc[t] \in Quiet
  BY DEF Moves, Writing, Closing, Others, Quiet
<1>2. /\ Kept
      /\ \A d \in Descs : /\ refcount'[d] \in Int
                          /\ refcount'[d] - InNodes(d)' = refcount[d] - InNodes(d)
  BY SameMemory
<1>3. CallOf(t)'
  BY Facts DEF CallOf, Without, With, Closing
<1>4. \A d \in Descs : Gain(t, d) = 0
  BY IsValues DEF Gain
<1> QED
  BY <1>1, <1>2, <1>3, <1>4, Facts, CallStep

LEMMA NoKqueueStep ==
  ASSUME FdInv, NEW t \in Threads, NoKqueue(t) PROVE FdInv'
<1> USE DEF NoKqueue, Goto, Return
<1>1. Moves(t, "idle") /\ "idle" \in Quiet /\ pc[t] \in Quiet
  BY DEF Moves, Writing, Closing, Others, Quiet
<1>2. /\ Kept
      /\ \A d \in Descs : /\ refcount'[d] \in Int
                          /\ refcount'[d] - InNodes(d)' = refcount[d] - InNodes(d)
  BY SameMemory
<1>3. call[t].desc = NoDesc /\ call[t].desc2 = NoDesc
  BY Facts DEF CallOf, Without
<1>4. \A d \in Descs : Gain(t, d) = 0
  BY <1>3, Returned
<1>5. /\ CallOf(t)' /\ call' \in [Threads -> Calls]
      /\ \A u \in Threads \ {t} : call'[u] = call[u]
  BY Returned
<1> QED
  BY <1>1, <1>2, <1>4, <1>5, Facts, CallStep

LEMMA CreateFailsStep ==
  ASSUME FdInv, NEW t \in Threads, CreateFails(t) PROVE FdInv'
<1> USE DEF CreateFails, Goto, Return
<1>1. Moves(t, "idle") /\ "idle" \in Quiet /\ pc[t] \in Quiet
  BY DEF Moves, Writing, Closing, Others, Quiet
<1>2. /\ Kept
      /\ \A d \in Descs : /\ refcount'[d] \in Int
                          /\ refcount'[d] - InNodes(d)' = refcount[d] - InNodes(d)
  BY SameMemory
<1>3. call[t].desc = NoDesc /\ call[t].desc2 = NoDesc
  BY Facts DEF CallOf, Without
<1>4. \A d \in Descs : Gain(t, d) = 0
  BY <1>3, Returned
<1>5. /\ CallOf(t)' /\ call' \in [Threads -> Calls]
      /\ \A u \in Threads \ {t} : call'[u] = call[u]
  BY Returned
<1>6. kernel' \in [Fds -> {"closed", "kqueue", "other"}]
  BY Facts
<1> QED
  BY <1>1, <1>2, <1>4, <1>5, <1>6, Facts, CallStep

LEMMA CreateDescStep ==
  ASSUME FdInv, NEW t \in Threads, CreateDesc(t) PROVE FdInv'
<1> USE DEF CreateDesc, Goto, Local
<1>1. Moves(t, "install") /\ "install" \in Quiet /\ pc[t] \in Quiet
  BY DEF Moves, Writing, Closing, Others, Quiet
<1>2. PICK x \in Free : Ref(x) /\ call' = [call EXCEPT ![t].desc = x]
  OBVIOUS
<1>3. x \in Descs /\ vtable[x] = "NULL"
  BY DEF Free, FdInv, NodesInv
<1>4. /\ Kept
      /\ \A d \in Descs : /\ refcount'[d] \in Int
                          /\ refcount'[d] - InNodes(d)' = refcount[d] - InNodes(d) + Is(x, d)
  BY <1>2, RefStep
<1>5. /\ call'[t] = [call[t] EXCEPT !.desc = x] /\ call' \in [Threads -> Calls]
      /\ \A u \in Threads \ {t} : call'[u] = call[u]
      /\ call'[t].desc = x /\ call'[t].desc2 = call[t].desc2 /\ call'[t].fd = call[t].fd
  BY <1>2, <1>3, Facts DEF Calls
<1>6. /\ call[t].desc = NoDesc /\ call[t].desc2 = NoDesc /\ call[t].fd \in Fds
      /\ open_files[call[t].fd] = NoDesc
  BY Facts DEF CallOf, Without, ForgottenOf
<1>7. \A d \in Descs : Gain(t, d) = Is(x, d)
  BY <1>5, <1>6, IsValues DEF Gain
<1>8. CallOf(t)'
  BY <1>3, <1>5, <1>6, Facts DEF CallOf, Without, With, Closing
<1>9. \A d \in Descs : /\ refcount'[d] \in Int
                       /\ refcount'[d] - InNodes(d)' = refcount[d] - InNodes(d) + Gain(t, d)
  BY <1>4, <1>7
<1> QED
  BY <1>1, <1>4, <1>5, <1>6, <1>8, <1>9, Facts, CallStep

LEMMA DropDescStep ==
  ASSUME FdInv, NEW t \in Threads, DropDesc(t) PROVE FdInv'
<1> USE DEF DropDesc, Goto, Return
<1>1. Moves(t, "idle") /\ "idle" \in Quiet /\ pc[t] \in Quiet
  BY DEF Moves, Writing, Closing, Others, Quiet
<1>2. PICK x \in Descs : x = call[t].desc
  BY Facts DEF CallOf, With
<1>3. refcount[x] # 0
  BY <1>2, CountedIsPresent DEF FdInv, Present
<1>4. /\ Kept
      /\ \A d \in Descs : /\ refcount'[d] \in Int
                          /\ refcount'[d] - InNodes(d)' = refcount[d] - InNodes(d) - Is(x, d)
  BY <1>2, <1>3, UnrefStep
<1>5. call[t].desc2 = NoDesc
  BY Facts
<1>6. \A d \in Descs : Gain(t, d) = 0 - Is(x, d)
  BY <1>2, <1>5, Returned
<1>7. /\ CallOf(t)' /\ call' \in [Threads -> Calls]
      /\ \A u \in Threads \ {t} : call'[u] = call[u]
  BY Returned
<1>8. kernel' \in [Fds -> {"closed", "kqueue", "other"}]
  BY Facts
<1>9. \A d \in Descs : /\ refcount'[d] \in Int
                       /\ refcount'[d] - InNodes(d)' = refcount[d] - InNodes(d) + Gain(t, d)
  BY <1>4, <1>6, Facts, IsValues
<1> QED
  BY <1>1, <1>4, <1>7, <1>8, <1>9, Facts, CallStep

LEMMA FindDescStep ==
  ASSUME FdInv, NEW t \in Threads, NEW op \in CtlOps \cup {"use"}, NEW fd \in Fds, NEW fd2 \in Nat,
         op # "use" => fd2 \in Fds, FindDesc(t, op, fd, fd2)
  PROVE  FdInv'
<1> USE DEF FindDesc, Goto
<1>1. PICK x \in Descs : x = open_files[fd]
  BY DEF FdInv, TypeOK
<1> DEFINE l == IF op \in CtlOps /\ vtable[x] # "epollfd" THEN "unref"
                ELSE IF op = "add" THEN "find2" ELSE "lock"
           c == [NoCall EXCEPT !.op = op, !.fd2 = fd2, !.desc = x]
<1>2. /\ pc[t] = "idle" /\ Ref(x) /\ UNCHANGED <<kernel, open_files, vtable, registered, mutex, held>>
      /\ call' = [call EXCEPT ![t] = c] /\ pc' = [pc EXCEPT ![t] = l]
  BY <1>1
<1>3. /\ c \in Calls /\ c.op = op /\ c.fd2 = fd2 /\ c.desc = x /\ c.desc2 = NoDesc
  BY <1>1 DEF Calls, NoCall
<1>4. /\ l \in {"unref", "find2", "lock"} /\ (l = "find2" => op = "add")
      /\ l # "unref" /\ op # "use" => vtable[x] = "epollfd" /\ fd2 \in Fds
  OBVIOUS
<1> HIDE DEF l, c
<1>5. Moves(t, l) /\ l \in Quiet /\ pc[t] \in Quiet
  BY <1>2, <1>4 DEF Moves, Writing, Closing, Others, Quiet
<1>6. /\ Kept
      /\ \A d \in Descs : /\ refcount'[d] \in Int
                          /\ refcount'[d] - InNodes(d)' = refcount[d] - InNodes(d) + Is(x, d)
  BY <1>2, RefStep
<1>7. /\ call'[t] = c /\ call' \in [Threads -> Calls] /\ \A u \in Threads \ {t} : call'[u] = call[u]
      /\ pc'[t] = l
  BY <1>2, <1>3, Facts
<1>8. call[t].desc = NoDesc /\ call[t].desc2 = NoDesc
  BY <1>2, Facts DEF CallOf, Without
<1>9. \A d \in Descs : Gain(t, d) = Is(x, d)
  <2> TAKE d \in Descs
  <2>1. Is(x, d) \in {0, 1} /\ Is(NoDesc, d) = 0
    BY IsValues
  <2>2. Gain(t, d) = (Is(x, d) - Is(NoDesc, d)) + (Is(NoDesc, d) - Is(NoDesc, d))
    BY <1>3, <1>7, <1>8 DEF Gain
  <2> QED
    BY <2>1, <2>2
<1>10. CallOf(t)'
  BY <1>2, <1>3, <1>4, <1>7 DEF CallOf, Without, With, Closing
<1>11. \A d \in Descs : /\ refcount'[d] \in Int
                        /\ refcount'[d] - InNodes(d)' = refcount[d] - InNodes(d) + Gain(t, d)
  BY <1>6, <1>9
<1> QED
  BY <1>2, <1>5, <1>6, <1>7, <1>10, <1>11, Facts, CallStep

LEMMA FindTargetStep ==
  ASSUME FdInv, NEW t \in Threads, FindTarget(t) PROVE FdInv'
<1> USE DEF FindTarget, Goto, Local
<1>1. CallOf(t) /\ call[t] \in Calls
  BY Facts
<1>2. PICK x \in Descs \cup {NoDesc} : x = open_files[call[t].fd2]
  BY <1>1 DEF CallOf, FdInv, TypeOK
<1>3. Moves(t, "lock") /\ "lock" \in Quiet /\ pc[t] \in Quiet
  BY DEF Moves, Writing, Closing, Others, Quiet
<1>4. /\ Kept
      /\ \A d \in Descs : /\ refcount'[d] \in Int
                          /\ refcount'[d] - InNodes(d)' = refcount[d] - InNodes(d) + Is(x, d)
  BY <1>2, RefStep
<1>5. call[t].desc2 = NoDesc
  BY Facts
<1>6. /\ call'[t] = [call[t] EXCEPT !.desc2 = x] /\ call' \in [Threads -> Calls]
      /\ \A u \in Threads \ {t} : call'[u] = call[u]
      /\ call'[t].desc2 = x /\ call'[t].desc = call[t].desc /\ call'[t].fd2 = call[t].fd2
      /\ call'[t].op = call[t].op
  BY <1>2, Facts DEF Calls
<1>7. \A d \in Descs : Gain(t, d) = Is(x, d)
  <2> TAKE d \in Descs
  <2>1. Is(x, d) \in {0, 1} /\ Is(call[t].desc, d) \in {0, 1} /\ Is(NoDesc, d) = 0
    BY IsValues
  <2> QED
    BY <1>5, <1>6, <2>1 DEF Gain
<1>8. CallOf(t)'
  BY <1>1, <1>6, Facts DEF CallOf, Without, With, Closing
<1>9. \A d \in Descs : /\ refcount'[d] \in Int
                       /\ refcount'[d] - InNodes(d)' = refcount[d] - InNodes(d) + Gain(t, d)
  BY <1>4, <1>7
<1> QED
  BY <1>3, <1>4, <1>6, <1>8, <1>9, Facts, CallStep

LEMMA UnrefTargetStep ==
  ASSUME FdInv, NEW t \in Threads, UnrefTarget(t) PROVE FdInv'
<1> USE DEF UnrefTarget, Goto, Local
<1>1. PICK x \in Descs \cup {NoDesc} : x = call[t].desc2
  BY Facts
<1>2. Moves(t, "unref") /\ "unref" \in Quiet /\ pc[t] \in Quiet
  BY DEF Moves, Writing, Closing, Others, Quiet
<1>3. x \in Descs => refcount[x] # 0
  BY <1>1, CountedIsPresent DEF FdInv, Present
<1>4. /\ Kept
      /\ \A d \in Descs : /\ refcount'[d] \in Int
                          /\ refcount'[d] - InNodes(d)' = refcount[d] - InNodes(d) - Is(x, d)
  BY <1>1, <1>3, UnrefStep
<1>5. /\ call'[t] = [call[t] EXCEPT !.desc2 = NoDesc] /\ call' \in [Threads -> Calls]
      /\ \A u \in Threads \ {t} : call'[u] = call[u]
      /\ call'[t].desc2 = NoDesc /\ call'[t].desc = call[t].desc
  BY Facts DEF Calls
<1>6. \A d \in Descs : Gain(t, d) = 0 - Is(x, d)
  <2> TAKE d \in Descs
  <2>1. Is(x, d) \in {0, 1} /\ Is(call[t].desc, d) \in {0, 1} /\ Is(NoDesc, d) = 0
    BY IsValues
  <2> QED
    BY <1>1, <1>5, <2>1 DEF Gain
<1>7. CallOf(t)'
  BY <1>5, Facts DEF CallOf, Without, With, Closing
<1>8. \A d \in Descs : /\ refcount'[d] \in Int
                       /\ refcount'[d] - InNodes(d)' = refcount[d] - InNodes(d) + Gain(t, d)
  BY <1>4, <1>6, Facts, IsValues
<1> QED
  BY <1>2, <1>4, <1>5, <1>7, <1>8, Facts, CallStep

LEMMA UnrefDescStep ==
  ASSUME FdInv, NEW t \in Threads, UnrefDesc(t) PROVE FdInv'
<1> USE DEF UnrefDesc, Goto, Return
<1>1. Moves(t, "idle") /\ "idle" \in Quiet /\ pc[t] \in Quiet
  BY DEF Moves, Writing, Closing, Others, Quiet
<1>2. PICK x \in Descs : x = call[t].desc
  BY Facts DEF CallOf, With
<1>3. refcount[x] # 0
  BY <1>2, CountedIsPresent DEF FdInv, Present
<1>4. /\ Kept
      /\ \A d \in Descs : /\ refcount'[d] \in Int
                          /\ refcount'[d] - InNodes(d)' = refcount[d] - InNodes(d) - Is(x, d)
  BY <1>2, <1>3, UnrefStep
<1>5. call[t].desc2 = NoDesc
  BY Facts
<1>6. \A d \in Descs : Gain(t, d) = 0 - Is(x, d)
  BY <1>2, <1>5, Returned
<1>7. /\ CallOf(t)' /\ call' \in [Threads -> Calls]
      /\ \A u \in Threads \ {t} : call'[u] = call[u]
  BY Returned
<1>8. \A d \in Descs : /\ refcount'[d] \in Int
                       /\ refcount'[d] - InNodes(d)' = refcount[d] - InNodes(d) + Gain(t, d)
  BY <1>4, <1>6, Facts, IsValues
<1> QED
  BY <1>1, <1>4, <1>7, <1>8, Facts, CallStep

LEMMA CloseStep ==
  ASSUME FdInv, NEW t \in Threads, NEW fd \in Fds, Close(t, fd) PROVE FdInv'
<1> USE DEF Close, Goto
<1> DEFINE c == [NoCall EXCEPT !.op = "close", !.fd = fd]
<1>1. Moves(t, "close") /\ "close" \in Quiet /\ pc[t] \in Quiet
  BY DEF Moves, Writing, Closing, Others, Quiet
<1>2. /\ Kept
      /\ \A d \in Descs : /\ refcount'[d] \in Int
                          /\ refcount'[d] - InNodes(d)' = refcount[d] - InNodes(d)
  BY SameMemory
<1>3. c \in Calls /\ c.desc = NoDesc /\ c.desc2 = NoDesc /\ c.fd = fd
  BY FdTableAssumption DEF Calls, NoCall
<1>4. call' = [call EXCEPT ![t] = c]
  OBVIOUS
<1> HIDE DEF c
<1>5. /\ call'[t] = c /\ call' \in [Threads -> Calls] /\ \A u \in Threads \ {t} : call'[u] = call[u]
  BY <1>3, <1>4, Facts
<1>6. call[t].desc = NoDesc /\ call[t].desc2 = NoDesc
  BY Facts DEF CallOf, Without
<1>7. \A d \in Descs : Gain(t, d) = 0
  <2> TAKE d \in Descs
  <2>1. Is(NoDesc, d) = 0
    BY IsValues
  <2>2. Gain(t, d) = (Is(NoDesc, d) - Is(NoDesc, d)) + (Is(NoDesc, d) - Is(NoDesc, d))
    BY <1>3, <1>5, <1>6 DEF Gain
  <2> QED
    BY <2>1, <2>2
<1>8. CallOf(t)'
  BY <1>3, <1>5, Facts DEF CallOf, Without, With, Closing
<1> QED
  BY <1>1, <1>2, <1>5, <1>7, <1>8, Facts, CallStep

LEMMA CloseLockStep ==
  ASSUME FdInv, NEW t \in Threads, CloseLock(t) PROVE FdInv'
<1> USE DEF CloseLock, Goto
<1>1. Moves(t, "unlist") /\ "unlist" \in Quiet /\ pc[t] \in Quiet
  BY DEF Moves, Writing, Closing, Others, Quiet
<1>2. /\ Kept
      /\ \A d \in Descs : /\ refcount'[d] \in Int
                          /\ refcount'[d] - InNodes(d)' = refcount[d] - InNodes(d)
  BY SameMemory
<1>3. CallOf(t)'
  BY Facts DEF CallOf, Without, With, Closing
<1>4. \A d \in Descs : Gain(t, d) = 0
  BY IsValues DEF Gain
<1> QED
  BY <1>1, <1>2, <1>3, <1>4, Facts, CallStep

\* The stale description at a reused number loses its place in the table.
LEMMA OpenKqueueStep ==
  ASSUME FdInv, NEW t \in Threads, OpenKqueue(t) PROVE FdInv'
<1> USE DEF OpenKqueue, Goto
<1>1. PICK fd \in Fds : /\ kernel' = [kernel EXCEPT ![fd] = "kqueue"]
                        /\ Unref(open_files[fd])
                        /\ open_files' = [open_files EXCEPT ![fd] = NoDesc]
                        /\ call' = [call EXCEPT ![t].fd = fd]
  OBVIOUS
<1>2. PICK x \in Descs \cup {NoDesc} : x = open_files[fd]
  BY DEF FdInv, TypeOK
<1>3. x \in Descs => refcount[x] # 0
  BY <1>2, CountedIsPresent DEF FdInv, Present
<1>4. /\ Kept
      /\ \A d \in Descs : /\ refcount'[d] \in Int
                          /\ refcount'[d] - InNodes(d)' = refcount[d] - InNodes(d) - Is(x, d)
  BY <1>1, <1>2, <1>3, UnrefStep
<1>5. Moves(t, "alloc") /\ "alloc" \in Quiet /\ pc[t] \in Quiet /\ pc[t] \in Writing
  BY DEF Moves, Writing, Closing, Others, Quiet
<1>6. /\ call'[t] = [call[t] EXCEPT !.fd = fd] /\ call' \in [Threads -> Calls]
      /\ \A u \in Threads \ {t} : call'[u] = call[u]
      /\ call'[t].desc = call[t].desc /\ call'[t].desc2 = call[t].desc2 /\ call'[t].fd = fd
  BY <1>1, Facts, FdTableAssumption DEF Calls
<1>7. CallOf(t)'
  BY <1>6, Facts DEF CallOf, Without, With, Closing
<1>8. /\ open_files'[fd] = NoDesc /\ \A n \in Fds \ {fd} : open_files'[n] = open_files[n]
      /\ open_files' \in [Fds -> Descs \cup {NoDesc}]
      /\ kernel' \in [Fds -> {"closed", "kqueue", "other"}]
  BY <1>1 DEF FdInv, TypeOK
<1>9. ReferencesCounted' /\ \A d \in Descs : refcount'[d] \in Nat
  <2> SUFFICES ASSUME NEW d \in Descs
               PROVE  /\ refcount'[d] \in Int
                      /\ refcount'[d] - InNodes(d)' = refcount[d] - InNodes(d)
                           + (InTable(d)' - InTable(d)) + (InCalls(d)' - InCalls(d))
                           + (InCalls2(d)' - InCalls2(d))
    BY Recount
  <2>1. InTable(d)' = InTable(d) - Is(x, d) + Is(NoDesc, d)
    BY <1>2, <1>8, TableChange
  <2>2. /\ InCalls(d)' = InCalls(d) - Is(call[t].desc, d) + Is(call[t].desc, d)
        /\ InCalls2(d)' = InCalls2(d) - Is(call[t].desc2, d) + Is(call[t].desc2, d)
    BY <1>6, CallsChange
  <2>3. InTable(d) \in Nat /\ InCalls(d) \in Nat /\ InCalls2(d) \in Nat /\ InNodes(d) \in Nat
    BY CountTypes
  <2>4. /\ Is(x, d) \in {0, 1} /\ Is(NoDesc, d) = 0 /\ refcount[d] \in Nat
        /\ Is(call[t].desc, d) \in {0, 1} /\ Is(call[t].desc2, d) \in {0, 1}
    BY IsValues, Facts
  <2> QED
    BY <1>4, <2>1, <2>2, <2>3, <2>4
<1>10. /\ LockHeld' /\ held' \in [Threads -> Lock!Modes]
       /\ pc' \in [Threads -> Writing \cup Closing \cup Others]
  BY <1>5, LockStep DEF FdInv
<1>11. TypeOK'
  <2>1. refcount' \in [Descs -> Nat]
    BY <1>4, <1>9 DEF Kept
  <2> QED
    BY <1>4, <1>6, <1>8, <1>10, <2>1 DEF TypeOK, FdInv, Kept
<1> QED
  BY <1>4, <1>5, <1>6, <1>7, <1>8, <1>9, <1>10, <1>11, QuietStep

LEMMA InstallDescStep ==
  ASSUME FdInv, NEW t \in Threads, NEW kind \in {"epollfd", "pollable"}, InstallDesc(t, kind)
  PROVE  FdInv'
<1> USE DEF InstallDesc, Goto, Return
<1>1. PICK x \in Descs, fd \in Fds : x = call[t].desc /\ fd = call[t].fd
  BY Facts DEF CallOf, With
<1>2. /\ vtable' = [vtable EXCEPT ![x] = kind] /\ open_files' = [open_files EXCEPT ![fd] = x]
      /\ vtable[x] = "NULL" /\ open_files[fd] = NoDesc /\ call[t].desc2 = NoDesc
  BY <1>1, Facts DEF CallOf, ForgottenOf
<1>3. Moves(t, "idle") /\ "idle" \in Quiet /\ pc[t] \in Writing /\ pc[t] = "install"
  BY DEF Moves, Writing, Closing, Others, Quiet
<1>4. /\ CallOf(t)' /\ call' \in [Threads -> Calls] /\ call'[t] = NoCall
      /\ \A u \in Threads \ {t} : call'[u] = call[u]
  BY Returned
<1>5. /\ LockHeld' /\ held' \in [Threads -> Lock!Modes]
      /\ pc' \in [Threads -> Writing \cup Closing \cup Others]
  BY <1>3, LockStep DEF FdInv
<1>6. ReferencesCounted'
  <2> SUFFICES ASSUME NEW d \in Descs
               PROVE  /\ refcount'[d] \in Int
                      /\ refcount'[d] - InNodes(d)' = refcount[d] - InNodes(d)
                           + (InTable(d)' - InTable(d)) + (InCalls(d)' - InCalls(d))
                           + (InCalls2(d)' - InCalls2(d))
    BY Recount
  <2>0. open_files'[fd] = x /\ \A n \in Fds \ {fd} : open_files'[n] = open_files[n]
    BY <1>2 DEF FdInv, TypeOK
  <2>1. InTable(d)' = InTable(d) - Is(NoDesc, d) + Is(x, d)
    BY <1>2, <2>0, TableChange
  <2>2. /\ InCalls(d)' = InCalls(d) - Is(x, d) + Is(NoDesc, d)
        /\ InCalls2(d)' = InCalls2(d) - Is(NoDesc, d) + Is(NoDesc, d)
    <3>1. call'[t].desc = NoDesc /\ call'[t].desc2 = NoDesc
      BY <1>4 DEF NoCall
    <3> QED
      BY <1>1, <1>2, <1>4, <3>1, CallsChange
  <2>3. /\ InTable(d) \in Nat /\ InCalls(d) \in Nat /\ InCalls2(d) \in Nat /\ InNodes(d) \in Nat
        /\ refcount[d] \in Nat /\ Is(x, d) \in {0, 1} /\ Is(NoDesc, d) = 0
    BY CountTypes, IsValues, Facts
  <2>4. refcount'[d] = refcount[d] /\ InNodes(d)' = InNodes(d)
    BY DEF InNodes, Nodes
  <2> QED
    BY <2>1, <2>2, <2>3, <2>4
<1>7. TypeOK'
  <2>1. open_files \in [Fds -> Descs \cup {NoDesc}] /\ vtable \in [Descs -> Kinds]
    BY DEF FdInv, TypeOK
  <2> HIDE DEF InstallDesc
  <2>2. open_files' \in [Fds -> Descs \cup {NoDesc}]
    BY <1>2, <2>1
  <2>3. kind \in Kinds /\ vtable' \in [Descs -> Kinds]
    BY <1>2, <2>1 DEF Kinds
  <2> QED
    BY <1>4, <1>5, <2>2, <2>3 DEF TypeOK, FdInv, InstallDesc
<1>8. NodesInv'
  <2>1. refcount[x] # 0
    BY <1>1, CountedIsPresent DEF FdInv, Present
  <2>2. \A d \in Descs \ {x} : vtable'[d] = vtable[d]
    BY <1>2 DEF FdInv, TypeOK
  <2>3. ASSUME NEW e \in Descs, NEW n \in Fds
        PROVE  /\ registered[e][n] # NoNode => e # x
               /\ registered[e][n] \in Descs => registered[e][n] # x
    BY <1>2 DEF FdInv, NodesInv
  <2> QED
    BY <2>1, <2>2, <2>3 DEF FdInv, NodesInv
<1>9. /\ pc'[t] = "idle" /\ \A u \in Threads \ {t} : pc'[u] = pc[u]
      /\ \A d \in Descs : mutex'[d] = mutex[d] /\ mutex[d] # t
  <2>1. pc'[t] = "idle" /\ \A u \in Threads \ {t} : pc'[u] = pc[u]
    BY Facts
  <2>2. \A d \in Descs : mutex[d] # t
    BY <1>3, Facts DEF MutexOf, Closing
  <2> QED
    BY <2>1, <2>2
<1>10. StepOf(t)
  <2>1. \A d \in Descs : vtable'[d] = vtable[d] \/ vtable[d] = "NULL"
    BY <1>2 DEF FdInv, TypeOK
  <2> QED
    BY <1>3, <1>4, <1>9, <2>1 DEF StepOf
<1>11. MutexOf(t)' /\ ForgottenOf(t)'
  BY <1>9 DEF MutexOf, ForgottenOf, Closing
<1> QED
  BY <1>4, <1>5, <1>6, <1>7, <1>8, <1>10, <1>11, Frame

LEMMA LockDescStep ==
  ASSUME FdInv, NEW t \in Threads, LockDesc(t) PROVE FdInv'
<1> USE DEF LockDesc, Goto
<1> DEFINE l == IF call[t].op = "use" THEN "work" ELSE "ctl"
<1>1. PICK x \in Descs : x = call[t].desc
  BY Facts DEF CallOf, With
<1>2. /\ mutex[x] = NoOwner /\ mutex' = [mutex EXCEPT ![x] = t] /\ pc' = [pc EXCEPT ![t] = l]
      /\ pc[t] = "lock" /\ UNCHANGED <<kernel, open_files, memory, held, call>>
  BY <1>1
<1>3. l \in {"work", "ctl"} /\ (l = "ctl" => call[t].op # "use") /\ (l = "work" => call[t].op = "use")
  OBVIOUS
<1> HIDE DEF l
<1> HIDE DEF LockDesc, Goto
<1>4. Moves(t, l)
  BY <1>2, <1>3 DEF Moves, Writing, Closing, Others
<1>5. /\ LockHeld' /\ held' \in [Threads -> Lock!Modes]
      /\ pc' \in [Threads -> Writing \cup Closing \cup Others]
  BY <1>4, LockStep DEF FdInv
<1>6. /\ pc'[t] = l /\ \A u \in Threads \ {t} : pc'[u] = pc[u]
      /\ mutex'[x] = t /\ \A d \in Descs \ {x} : mutex'[d] = mutex[d]
      /\ mutex' \in [Descs -> Threads \cup {NoOwner}]
  BY <1>2, Facts DEF FdInv, TypeOK
<1>7. TypeOK'
  BY <1>2, <1>5, <1>6 DEF TypeOK, FdInv, memory
<1>8. ReferencesCounted' /\ NodesInv'
  BY <1>2 DEF FdInv, ReferencesCounted, References, Nodes, NodesInv, memory
<1>9. CallOf(t)'
  BY <1>2, <1>3, <1>6, Facts DEF CallOf, Without, With, Closing, memory
<1>10. NoOwner # t /\ \A d \in Descs : mutex[d] # t
  BY <1>2, FdTableAssumption, Facts DEF MutexOf, Closing
<1>11. MutexOf(t)'
  BY <1>1, <1>2, <1>3, <1>6, <1>10 DEF MutexOf, Closing
<1>12. ForgottenOf(t)'
  BY <1>3, <1>6 DEF ForgottenOf, Closing
<1>13. StepOf(t)
  <2>1. \A u \in Threads \ {t}, d \in Descs : mutex'[d] = u <=> mutex[d] = u
    BY <1>2, <1>6, FdTableAssumption
  <2> QED
    BY <1>2, <1>6, <2>1 DEF StepOf, memory
<1> QED
  BY <1>5, <1>7, <1>8, <1>9, <1>11, <1>12, <1>13, Frame

LEMMA WorkStep ==
  ASSUME FdInv, NEW t \in Threads, Work(t) PROVE FdInv'
<1>1. PICK x \in Descs : x = call[t].desc
  BY Facts DEF CallOf, With, Work
<1>2. /\ mutex' = [mutex EXCEPT ![x] = NoOwner] /\ pc' = [pc EXCEPT ![t] = "unref"]
      /\ pc[t] = "work" /\ UNCHANGED <<kernel, open_files, memory, held, call>>
  BY <1>1 DEF Work, Goto
<1>3. Moves(t, "unref")
  BY <1>2 DEF Moves, Writing, Closing, Others
<1>4. /\ LockHeld' /\ held' \in [Threads -> Lock!Modes]
      /\ pc' \in [Threads -> Writing \cup Closing \cup Others]
  BY <1>3, LockStep DEF FdInv
<1>5. /\ pc'[t] = "unref" /\ \A u \in Threads \ {t} : pc'[u] = pc[u]
      /\ mutex'[x] = NoOwner /\ \A d \in Descs \ {x} : mutex'[d] = mutex[d]
      /\ mutex' \in [Descs -> Threads \cup {NoOwner}]
  BY <1>2, Facts DEF FdInv, TypeOK
<1>6. TypeOK'
  BY <1>2, <1>4, <1>5 DEF TypeOK, FdInv, memory
<1>7. ReferencesCounted' /\ NodesInv'
  BY <1>2 DEF FdInv, ReferencesCounted, References, Nodes, NodesInv, memory
<1>8. CallOf(t)'
  BY <1>2, <1>5, Facts DEF CallOf, Without, With, Closing, memory
<1>9. mutex[x] = t /\ \A d \in Descs : mutex[d] = t => d = x
  BY <1>1, <1>2, Facts DEF MutexOf, Closing
<1>10. MutexOf(t)' /\ ForgottenOf(t)'
  BY <1>5, <1>9, FdTableAssumption DEF MutexOf, ForgottenOf, Closing
<1>11. StepOf(t)
  <2>1. \A u \in Threads \ {t}, d \in Descs : mutex'[d] = u <=> mutex[d] = u
    BY <1>5, <1>9, FdTableAssumption
  <2> QED
    BY <1>2, <1>5, <2>1 DEF StepOf, memory
<1> QED
  BY <1>4, <1>6, <1>7, <1>8, <1>10, <1>11, Frame

\* A node that is added takes the reference that its pollable description gains.
LEMMA AddNodeStep ==
  ASSUME FdInv, NEW x \in Descs, NEW fd \in Fds, NEW d2 \in Descs \cup {NoDesc},
         vtable[x] = "epollfd", AddNode(x, fd, d2)
  PROVE  /\ refcount' \in [Descs -> Int] /\ vtable' = vtable
         /\ registered' \in [Descs -> [Fds -> Descs \cup {NoDesc, NoNode}]]
         /\ \A e \in Descs \ {x} : registered'[e] = registered[e]
         /\ \A d \in Descs : /\ refcount'[d] \in Int
                             /\ refcount'[d] - InNodes(d)' = refcount[d] - InNodes(d)
         /\ NodesInv'
<1>0. NoDesc \notin Descs /\ NoNode \notin Descs /\ NoDesc # NoNode
  BY FdTableAssumption
<1>1. PICK p : /\ p = NoDesc \/ (p = d2 /\ p # NoDesc /\ vtable[p] = "pollable")
               /\ registered[x][fd] = NoNode
               /\ registered' = [registered EXCEPT ![x][fd] = p]
               /\ Ref(p) /\ vtable' = vtable
  BY DEF AddNode
<1>2. p \in Descs \cup {NoDesc}
  BY <1>1
<1>3. /\ \A e \in Descs \ {x} : registered'[e] = registered[e]
      /\ registered'[x][fd] = p /\ \A n \in Fds \ {fd} : registered'[x][n] = registered[x][n]
      /\ registered' \in [Descs -> [Fds -> Descs \cup {NoDesc, NoNode}]]
  BY <1>1, <1>2 DEF FdInv, TypeOK
<1>4. ASSUME NEW d \in Descs
      PROVE  refcount[d] \in Nat /\ refcount'[d] = refcount[d] + Is(p, d) /\ Is(p, d) \in {0, 1}
  BY <1>1 DEF Ref, One, Is, FdInv, TypeOK
<1>5. ASSUME NEW d \in Descs PROVE InNodes(d)' = InNodes(d) + Is(p, d)
  <2> DEFINE places == Descs \X Fds
             g == [y \in places |-> registered[y[1]][y[2]]]
             h == [y \in places |-> registered'[y[1]][y[2]]]
  <2>1. IsFiniteSet(places) /\ <<x, fd>> \in places
    BY FdTableAssumption, FS_Product
  <2>2. InNodes(d) = Count(places, g, d) /\ InNodes(d)' = Count(places, h, d)
    BY DEF InNodes, Nodes, Count
  <2>3. SameBut(places, <<x, fd>>, g, h)
    <3>1. ASSUME NEW y \in places, y # <<x, fd>> PROVE registered'[y[1]][y[2]] = registered[y[1]][y[2]]
      <4>1. y[1] \in Descs /\ y[2] \in Fds /\ (y[1] # x \/ y[2] # fd)
        BY <3>1
      <4> QED
        BY <1>3, <4>1
    <3> QED
      BY <3>1 DEF SameBut
  <2>4. g[<<x, fd>>] = NoNode /\ h[<<x, fd>>] = p
    BY <1>1, <1>3, <2>1
  <2>5. Is(NoNode, d) = 0 /\ Is(p, d) \in {0, 1} /\ InNodes(d) \in Nat
    BY <1>0, CountTypes DEF Is
  <2> HIDE DEF places, g, h
  <2>6. Count(places, h, d) = Count(places, g, d) - Is(NoNode, d) + Is(p, d)
    BY <2>1, <2>3, <2>4, CountChange
  <2> QED
    BY <2>2, <2>5, <2>6
<1>6. ASSUME NEW d \in Descs
      PROVE  refcount'[d] \in Int /\ refcount'[d] - InNodes(d)' = refcount[d] - InNodes(d)
  <2>1. InNodes(d) \in Nat
    BY CountTypes
  <2> QED
    BY <1>4, <1>5, <2>1
<1>7. refcount' \in [Descs -> Int]
  BY <1>1, <1>6 DEF Ref
<1>8. NodesInv'
  <2>1. \A d \in Descs : refcount'[d] = 0 => vtable'[d] = "NULL"
    BY <1>1, <1>4 DEF FdInv, NodesInv
  <2>2. ASSUME NEW e \in Descs, NEW n \in Fds
        PROVE  /\ registered'[e][n] # NoNode => vtable'[e] = "epollfd"
               /\ registered'[e][n] \in Descs => vtable'[registered'[e][n]] = "pollable"
    <3>1. CASE e = x /\ n = fd
      BY <1>0, <1>1, <1>3, <3>1
    <3>2. CASE e = x /\ n # fd
      BY <1>1, <1>3, <3>2 DEF FdInv, NodesInv
    <3>3. CASE e # x
      BY <1>1, <1>3, <3>3 DEF FdInv, NodesInv
    <3> QED
      BY <3>1, <3>2, <3>3
  <2> QED
    BY <2>1, <2>2 DEF NodesInv
<1> QED
  BY <1>1, <1>3, <1>6, <1>7, <1>8

LEMMA CtlStep ==
  ASSUME FdInv, NEW t \in Threads, Ctl(t) PROVE FdInv'
<1>1. PICK x \in Descs, d2 \in Descs \cup {NoDesc}, fd \in Fds :
        x = call[t].desc /\ d2 = call[t].desc2 /\ fd = call[t].fd2
  BY Facts DEF CallOf, With, Ctl
<1> DEFINE l == IF d2 # NoDesc THEN "unref2" ELSE "unref"
<1>2. /\ mutex' = [mutex EXCEPT ![x] = NoOwner] /\ pc' = [pc EXCEPT ![t] = l]
      /\ pc[t] = "ctl" /\ UNCHANGED <<kernel, open_files, held, call>>
      /\ CtlEffect(call[t].op, x, fd, d2)
  BY <1>1 DEF Ctl, Goto
<1>3. l \in {"unref", "unref2"} /\ (l = "unref" => d2 = NoDesc)
  OBVIOUS
<1> HIDE DEF l
<1>4. vtable[x] = "epollfd" /\ mutex[x] = t /\ \A d \in Descs : mutex[d] = t => d = x
  BY <1>1, <1>2, Facts DEF CallOf, MutexOf, Closing
<1> DEFINE Effect == /\ refcount' \in [Descs -> Int] /\ vtable' \in [Descs -> Kinds]
                     /\ registered' \in [Descs -> [Fds -> Descs \cup {NoDesc, NoNode}]]
                     /\ \A d \in Descs : refcount'[d] # 0 => vtable'[d] = vtable[d]
                     /\ \A e \in Descs, n \in Fds :
                          registered'[e][n] \in {registered[e][n], NoNode} \/ e = x
                     /\ \A d \in Descs :
                          /\ refcount'[d] \in Int
                          /\ refcount'[d] - InNodes(d)' = refcount[d] - InNodes(d)
                     /\ NodesInv' \/ Kept
<1>5. Effect
  <2>1. CASE RemoveNodes({x}, fd)
    <3>1. {x} \in SUBSET Descs
      OBVIOUS
    <3>2. /\ Kept
          /\ \A d \in Descs : /\ refcount'[d] \in Int
                              /\ refcount'[d] - InNodes(d)' = refcount[d] - InNodes(d)
      BY <2>1, <3>1, RemoveNodesStep
    <3> QED
      BY <3>2 DEF Kept
  <2>2. CASE AddNode(x, fd, d2)
    <3>1. /\ refcount' \in [Descs -> Int] /\ vtable' = vtable
          /\ registered' \in [Descs -> [Fds -> Descs \cup {NoDesc, NoNode}]]
          /\ \A e \in Descs \ {x} : registered'[e] = registered[e]
          /\ \A d \in Descs : /\ refcount'[d] \in Int
                              /\ refcount'[d] - InNodes(d)' = refcount[d] - InNodes(d)
          /\ NodesInv'
      BY <1>4, <2>2, AddNodeStep
    <3>2. vtable \in [Descs -> Kinds]
      BY DEF FdInv, TypeOK
    <3> QED
      BY <3>1, <3>2
  <2>3. CASE UNCHANGED memory
    <3>1. /\ Kept
          /\ \A d \in Descs : /\ refcount'[d] \in Int
                              /\ refcount'[d] - InNodes(d)' = refcount[d] - InNodes(d)
      BY <2>3, SameMemory
    <3> QED
      BY <3>1 DEF Kept
  <2> QED
    BY <1>2, <2>1, <2>2, <2>3 DEF CtlEffect
<1>6. ReferencesCounted' /\ \A d \in Descs : refcount'[d] \in Nat
  <2>1. \A d \in Descs : Gain(t, d) = 0
    BY <1>2, IsValues DEF Gain
  <2>2. \A d \in Descs : /\ refcount'[d] \in Int
                         /\ refcount'[d] - InNodes(d)' = refcount[d] - InNodes(d) + Gain(t, d)
    BY <1>5, <2>1, Facts
  <2> QED
    BY <1>2, <2>2, RecountCall
<1>7. NodesInv'
  BY <1>5, <1>6, KeptNodes
<1>8. Moves(t, l)
  BY <1>2, <1>3 DEF Moves, Writing, Closing, Others
<1>9. /\ LockHeld' /\ held' \in [Threads -> Lock!Modes]
      /\ pc' \in [Threads -> Writing \cup Closing \cup Others]
  BY <1>8, LockStep DEF FdInv
<1>10. /\ pc'[t] = l /\ \A u \in Threads \ {t} : pc'[u] = pc[u]
       /\ mutex'[x] = NoOwner /\ \A d \in Descs \ {x} : mutex'[d] = mutex[d]
       /\ mutex' \in [Descs -> Threads \cup {NoOwner}]
  BY <1>2, Facts DEF FdInv, TypeOK
<1>11. TypeOK'
  <2>1. refcount' \in [Descs -> Nat]
    BY <1>5, <1>6
  <2> QED
    BY <1>2, <1>5, <1>9, <1>10, <2>1 DEF TypeOK, FdInv
<1>12. CallOf(t)'
  BY <1>1, <1>2, <1>3, <1>10, Facts DEF CallOf, Without, With, Closing
<1>13. MutexOf(t)' /\ ForgottenOf(t)'
  BY <1>3, <1>4, <1>10, FdTableAssumption DEF MutexOf, ForgottenOf, Closing
<1>14. StepOf(t)
  <2>1. \A u \in Threads \ {t}, d \in Descs : mutex'[d] = u <=> mutex[d] = u
    BY <1>4, <1>10, FdTableAssumption
  <2> QED
    BY <1>2, <1>4, <1>5, <1>10, <2>1 DEF StepOf
<1> QED
  BY <1>6, <1>7, <1>9, <1>11, <1>12, <1>13, <1>14, Frame

-----------------------------------------------------------------------------
(* The steps of a closer *)

\* The least number of a nonempty set, which LockEpollFd takes, is in it.
LEMMA MinIn ==
  ASSUME NEW S \in SUBSET Nat, S # {} PROVE Min(S) \in S
<1> DEFINE R == OpToRel(<, Nat)
<1>1. \A n, m \in Nat : n < m => <<n, m>> \in R
  BY DEF OpToRel
<1>2. IsWellFoundedOn(R, Nat)
  BY NatLessThanWellFounded
<1> HIDE DEF R
<1>3. PICK m \in S : \A n \in S : ~(<<n, m>> \in R)
  BY <1>2, WFMin
<1>4. ASSUME NEW n \in S PROVE m =< n
  <2>1. m \in Nat /\ n \in Nat
    BY <1>3
  <2>2. ~(n < m)
    BY <1>1, <1>3, <2>1
  <2> QED
    BY <2>1, <2>2
<1> QED
  BY <1>3, <1>4 DEF Min

LEMMA UnlistStep ==
  ASSUME FdInv, NEW t \in Threads, Unlist(t) PROVE FdInv'
<1>1. PICK fd \in Fds : fd = call[t].fd
  BY Facts DEF CallOf, Unlist
<1>2. PICK x \in Descs \cup {NoDesc} : x = open_files[fd]
  BY DEF FdInv, TypeOK
<1>3. /\ open_files' = [open_files EXCEPT ![fd] = NoDesc] /\ call' = [call EXCEPT ![t].desc = x]
      /\ pc' = [pc EXCEPT ![t] = "lockall"] /\ pc[t] = "unlist" /\ Lock!Downgrade(t)
      /\ UNCHANGED <<kernel, memory, mutex>>
  BY <1>1, <1>2 DEF Unlist, Local, Goto
<1>4. Moves(t, "lockall") /\ pc[t] \in Writing
  BY <1>3 DEF Moves, Writing, Closing
<1>5. /\ LockHeld' /\ held' \in [Threads -> Lock!Modes]
      /\ pc' \in [Threads -> Writing \cup Closing \cup Others]
  BY <1>4, LockStep DEF FdInv
<1>6. /\ Kept
      /\ \A d \in Descs : /\ refcount'[d] \in Int
                          /\ refcount'[d] - InNodes(d)' = refcount[d] - InNodes(d)
  BY <1>3, SameMemory
<1>7. /\ call[t].desc = NoDesc /\ call[t].desc2 = NoDesc
      /\ call'[t] = [call[t] EXCEPT !.desc = x] /\ call' \in [Threads -> Calls]
      /\ \A u \in Threads \ {t} : call'[u] = call[u]
      /\ call'[t].desc = x /\ call'[t].desc2 = NoDesc /\ call'[t].fd = fd
  BY <1>1, <1>3, Facts DEF CallOf, Calls, Without
<1>8. /\ open_files'[fd] = NoDesc /\ \A n \in Fds \ {fd} : open_files'[n] = open_files[n]
      /\ open_files' \in [Fds -> Descs \cup {NoDesc}]
  BY <1>3 DEF FdInv, TypeOK
<1>9. ReferencesCounted' /\ \A d \in Descs : refcount'[d] \in Nat
  <2> SUFFICES ASSUME NEW d \in Descs
               PROVE  /\ refcount'[d] \in Int
                      /\ refcount'[d] - InNodes(d)' = refcount[d] - InNodes(d)
                           + (InTable(d)' - InTable(d)) + (InCalls(d)' - InCalls(d))
                           + (InCalls2(d)' - InCalls2(d))
    BY Recount
  <2>1. InTable(d)' = InTable(d) - Is(x, d) + Is(NoDesc, d)
    BY <1>2, <1>8, TableChange
  <2>2. /\ InCalls(d)' = InCalls(d) - Is(NoDesc, d) + Is(x, d)
        /\ InCalls2(d)' = InCalls2(d) - Is(NoDesc, d) + Is(NoDesc, d)
    BY <1>7, CallsChange
  <2>3. InTable(d) \in Nat /\ InCalls(d) \in Nat /\ InCalls2(d) \in Nat /\ InNodes(d) \in Nat
    BY CountTypes
  <2>4. Is(x, d) \in {0, 1} /\ Is(NoDesc, d) = 0 /\ refcount[d] \in Nat
    BY IsValues, Facts
  <2> QED
    BY <1>6, <2>1, <2>2, <2>3, <2>4
<1>10. TypeOK'
  <2>1. refcount' \in [Descs -> Nat]
    BY <1>6, <1>9 DEF Kept
  <2> QED
    BY <1>3, <1>5, <1>6, <1>7, <1>8, <2>1 DEF TypeOK, FdInv, Kept
<1>11. NodesInv'
  BY <1>6, <1>9, KeptNodes
<1>12. pc'[t] = "lockall" /\ \A u \in Threads \ {t} : pc'[u] = pc[u]
  BY <1>3, Facts
<1>13. StepOf(t)
  BY <1>3, <1>4, <1>6, <1>7, <1>12 DEF StepOf, Kept
<1>14. CallOf(t)'
  BY <1>7, <1>12, Facts DEF CallOf, Without, With, Closing
<1>15. MutexOf(t)'
  <2>1. \A d \in Descs : mutex[d] # t
    BY <1>3, Facts DEF MutexOf, Closing
  <2> QED
    BY <1>3, <1>12, <2>1 DEF MutexOf
<1>16. ForgottenOf(t)'
  BY <1>7, <1>8, <1>12 DEF ForgottenOf
<1> QED
  BY <1>5, <1>9, <1>10, <1>11, <1>13, <1>14, <1>15, <1>16, Frame

LEMMA LockEpollFdStep ==
  ASSUME FdInv, NEW t \in Threads, LockEpollFd(t) PROVE FdInv'
<1>1. ToLock(t) \in SUBSET Nat /\ ToLock(t) # {}
  BY FdTableAssumption DEF LockEpollFd, ToLock, EpollFds
<1>2. PICK fd \in EpollFds : fd = Min(ToLock(t))
  BY <1>1, MinIn DEF ToLock
<1>3. PICK e \in Descs : e = open_files[fd]
  BY <1>2 DEF EpollFds, FdInv, TypeOK
<1>4. /\ mutex[e] = NoOwner /\ mutex' = [mutex EXCEPT ![e] = t] /\ pc[t] = "lockall"
      /\ UNCHANGED <<kernel, open_files, memory, held, pc, call>>
  BY <1>2, <1>3 DEF LockEpollFd
<1>5. /\ mutex'[e] = t /\ \A d \in Descs \ {e} : mutex'[d] = mutex[d]
      /\ mutex' \in [Descs -> Threads \cup {NoOwner}]
  BY <1>4 DEF FdInv, TypeOK
<1>6. TypeOK' /\ LockHeld' /\ NodesInv' /\ ReferencesCounted'
  BY <1>4, <1>5 DEF FdInv, TypeOK, LockHeld, NodesInv, ReferencesCounted, References, Nodes, memory
<1>7. CallOf(t)' /\ ForgottenOf(t)'
  BY <1>4, Facts DEF CallOf, ForgottenOf, EpollFds, memory
<1>8. MutexOf(t)'
  <2>1. EpollFds' = EpollFds /\ open_files' = open_files /\ pc' = pc /\ call' = call
    BY <1>4 DEF EpollFds, memory
  <2>2. \A d \in Descs : mutex'[d] = t => \E n \in EpollFds : open_files[n] = d
    BY <1>2, <1>3, <1>4, <1>5, Facts DEF MutexOf
  <2> QED
    BY <1>4, <2>1, <2>2 DEF MutexOf, Closing
<1>9. StepOf(t)
  <2>1. \A u \in Threads \ {t}, d \in Descs : mutex'[d] = u <=> mutex[d] = u
    BY <1>4, <1>5, FdTableAssumption
  <2> QED
    BY <1>4, <2>1 DEF StepOf, memory
<1> QED
  BY <1>6, <1>7, <1>8, <1>9, Frame

\* The steps of a closer that has locked all epollfds and unlocks none yet.
LEMMA CloserStep ==
  ASSUME FdInv, NEW t \in Threads, NEW l \in Closing \ {"lockall"}, pc[t] \in Closing,
         pc' = [pc EXCEPT ![t] = l], ToLock(t) = {},
         UNCHANGED <<open_files, mutex, held>>,
         kernel' \in [Fds -> {"closed", "kqueue", "other"}],
         call' \in [Threads -> Calls], \A u \in Threads \ {t} : call'[u] = call[u],
         call'[t].fd = call[t].fd, CallOf(t)',
         Kept,
         \A d \in Descs :
           /\ refcount'[d] \in Int
           /\ refcount'[d] - InNodes(d)' = refcount[d] - InNodes(d) + Gain(t, d),
         \A e \in EpollFds : registered'[open_files[e]][call[t].fd] = NoNode
  PROVE  FdInv'
<1>1. ReferencesCounted' /\ \A d \in Descs : refcount'[d] \in Nat
  BY RecountCall
<1>2. Moves(t, l)
  BY DEF Moves, Writing, Closing
<1>3. /\ LockHeld' /\ held' \in [Threads -> Lock!Modes]
      /\ pc' \in [Threads -> Writing \cup Closing \cup Others]
  BY <1>2, LockStep DEF FdInv
<1>4. refcount' \in [Descs -> Nat]
  BY <1>1 DEF Kept
<1>5. TypeOK'
  BY <1>3, <1>4 DEF TypeOK, FdInv, Kept
<1>6. NodesInv'
  BY <1>1, KeptNodes
<1>7. pc'[t] = l /\ \A u \in Threads \ {t} : pc'[u] = pc[u]
  BY Facts
<1>8. EpollFds' = EpollFds
  <2>1. Present'
    BY <1>1, CountedIsPresent, PTL
  <2>2. ASSUME NEW fd \in Fds, open_files[fd] # NoDesc
        PROVE  vtable'[open_files[fd]] = vtable[open_files[fd]]
    <3>1. open_files[fd] \in Descs
      BY <2>2 DEF FdInv, TypeOK
    <3>2. refcount'[open_files[fd]] # 0
      BY <2>1, <3>1 DEF Present
    <3> QED
      BY <3>1, <3>2 DEF Kept
  <2> QED
    BY <2>2 DEF EpollFds
<1>9. StepOf(t)
  BY <1>7 DEF StepOf, Kept
<1>10. MutexOf(t)'
  <2>1. ASSUME NEW d \in Descs, mutex[d] = t PROVE \E fd \in EpollFds : open_files[fd] = d
    BY <2>1, Facts DEF MutexOf, Closing
  <2>2. ToLock(t)' = {}
    BY <1>8 DEF ToLock
  <2> QED
    BY <1>7, <1>8, <2>1, <2>2 DEF MutexOf, Closing
<1>11. ForgottenOf(t)'
  BY <1>7, <1>8, Facts DEF ForgottenOf
<1> QED
  BY <1>1, <1>3, <1>5, <1>6, <1>9, <1>10, <1>11, Frame

LEMMA RemoveFdStep ==
  ASSUME FdInv, NEW t \in Threads, RemoveFd(t) PROVE FdInv'
<1>1. PICK fd \in Fds : fd = call[t].fd
  BY Facts DEF CallOf, Closing, RemoveFd
<1>2. PICK es \in SUBSET Descs : es = {open_files[n] : n \in EpollFds}
  BY DEF EpollFds, FdInv, TypeOK
<1>3. /\ pc' = [pc EXCEPT ![t] = "unrefclosed"] /\ pc[t] = "lockall" /\ ToLock(t) = {}
      /\ RemoveNodes(es, fd) /\ UNCHANGED <<kernel, open_files, mutex, held, call>>
  BY <1>1, <1>2 DEF RemoveFd, Goto
<1>4. /\ Kept
      /\ \A e \in es : registered'[e][fd] = NoNode
      /\ \A d \in Descs : /\ refcount'[d] \in Int
                          /\ refcount'[d] - InNodes(d)' = refcount[d] - InNodes(d)
  BY <1>3, RemoveNodesStep
<1>5. \A d \in Descs : Gain(t, d) = 0
  BY <1>3, IsValues DEF Gain
<1>6. \A d \in Descs : /\ refcount'[d] \in Int
                       /\ refcount'[d] - InNodes(d)' = refcount[d] - InNodes(d) + Gain(t, d)
  BY <1>4, <1>5, Facts
<1>7. CallOf(t)'
  BY <1>3, Facts DEF CallOf, Without, With, Closing
<1>8. \A e \in EpollFds : registered'[open_files[e]][call[t].fd] = NoNode
  BY <1>1, <1>2, <1>4
<1>9. "unrefclosed" \in Closing \ {"lockall"} /\ pc[t] \in Closing
  BY <1>3 DEF Closing
<1> QED
  BY <1>3, <1>4, <1>6, <1>7, <1>8, <1>9, Facts, CloserStep

LEMMA UnrefClosedStep ==
  ASSUME FdInv, NEW t \in Threads, UnrefClosed(t) PROVE FdInv'
<1>1. PICK x \in Descs \cup {NoDesc} : x = call[t].desc
  BY Facts
<1>2. /\ pc' = [pc EXCEPT ![t] = "realclose"] /\ pc[t] = "unrefclosed" /\ Unref(x)
      /\ call' = [call EXCEPT ![t].desc = NoDesc] /\ UNCHANGED <<kernel, open_files, mutex, held>>
  BY <1>1 DEF UnrefClosed, Goto, Local
<1>3. x \in Descs => refcount[x] # 0
  BY <1>1, CountedIsPresent DEF FdInv, Present
<1>4. /\ Kept
      /\ \A d \in Descs : /\ refcount'[d] \in Int
                          /\ refcount'[d] - InNodes(d)' = refcount[d] - InNodes(d) - Is(x, d)
  BY <1>2, <1>3, UnrefStep
<1>5. /\ call'[t] = [call[t] EXCEPT !.desc = NoDesc] /\ call' \in [Threads -> Calls]
      /\ \A u \in Threads \ {t} : call'[u] = call[u]
      /\ call'[t].desc = NoDesc /\ call'[t].desc2 = call[t].desc2 /\ call'[t].fd = call[t].fd
  BY <1>2, Facts DEF Calls
<1>6. \A d \in Descs : Gain(t, d) = 0 - Is(x, d)
  <2> TAKE d \in Descs
  <2>1. Is(x, d) \in {0, 1} /\ Is(call[t].desc2, d) \in {0, 1} /\ Is(NoDesc, d) = 0
    BY IsValues
  <2> QED
    BY <1>1, <1>5, <2>1 DEF Gain
<1>7. \A d \in Descs : /\ refcount'[d] \in Int
                       /\ refcount'[d] - InNodes(d)' = refcount[d] - InNodes(d) + Gain(t, d)
  BY <1>4, <1>6, Facts, IsValues
<1>8. CallOf(t)'
  BY <1>2, <1>5, Facts DEF CallOf, Without, With, Closing
<1>9. "realclose" \in Closing \ {"lockall"} /\ pc[t] \in Closing
  BY <1>2 DEF Closing
<1>10. /\ ToLock(t) = {} /\ call[t].fd \in Fds
       /\ \A e \in EpollFds : registered[open_files[e]][call[t].fd] = NoNode
  BY <1>2, Facts DEF MutexOf, ForgottenOf, CallOf, Closing
<1>11. \A e \in EpollFds : registered'[open_files[e]][call[t].fd] = NoNode
  BY <1>4, <1>10 DEF Kept, EpollFds, FdInv, TypeOK
<1> QED
  BY <1>2, <1>4, <1>5, <1>7, <1>8, <1>9, <1>10, <1>11, Facts, CloserStep

LEMMA RealCloseStep ==
  ASSUME FdInv, NEW t \in Threads, RealClose(t) PROVE FdInv'
<1>1. /\ pc' = [pc EXCEPT ![t] = "unlockall"] /\ pc[t] = "realclose"
      /\ kernel' = [kernel EXCEPT ![call[t].fd] = "closed"]
      /\ UNCHANGED <<open_files, memory, mutex, held, call>>
  BY DEF RealClose, Goto
<1>2. /\ Kept
      /\ \A d \in Descs : /\ refcount'[d] \in Int
                          /\ refcount'[d] - InNodes(d)' = refcount[d] - InNodes(d)
  BY <1>1, SameMemory
<1>3. \A d \in Descs : Gain(t, d) = 0
  BY <1>1, IsValues DEF Gain
<1>4. \A d \in Descs : /\ refcount'[d] \in Int
                       /\ refcount'[d] - InNodes(d)' = refcount[d] - InNodes(d) + Gain(t, d)
  BY <1>2, <1>3, Facts
<1>5. CallOf(t)'
  BY <1>1, Facts DEF CallOf, Without, With, Closing
<1>6. "unlockall" \in Closing \ {"lockall"} /\ pc[t] \in Closing
  BY <1>1 DEF Closing
<1>7. /\ ToLock(t) = {}
      /\ \A e \in EpollFds : registered'[open_files[e]][call[t].fd] = NoNode
  BY <1>1, Facts DEF MutexOf, ForgottenOf, Closing, memory
<1>8. kernel' \in [Fds -> {"closed", "kqueue", "other"}]
  BY <1>1, Facts
<1> QED
  BY <1>1, <1>2, <1>4, <1>5, <1>6, <1>7, <1>8, Facts, CloserStep

LEMMA UnlockAllStep ==
  ASSUME FdInv, NEW t \in Threads, UnlockAll(t) PROVE FdInv'
<1>1. /\ pc' = [pc EXCEPT ![t] = "idle"] /\ pc[t] = "unlockall" /\ Lock!Release(t)
      /\ call' = [call EXCEPT ![t] = NoCall] /\ mutex' = Unlocked(t)
      /\ UNCHANGED <<kernel, open_files, memory>>
  BY DEF UnlockAll, Return, Goto
<1>2. /\ Kept
      /\ \A d \in Descs : /\ refcount'[d] \in Int
                          /\ refcount'[d] - InNodes(d)' = refcount[d] - InNodes(d)
  BY <1>1, SameMemory
<1>3. call[t].desc = NoDesc /\ call[t].desc2 = NoDesc
  BY <1>1, Facts DEF CallOf, Without
<1>4. \A d \in Descs : Gain(t, d) = 0
  BY <1>1, <1>3, Returned
<1>5. /\ CallOf(t)' /\ call' \in [Threads -> Calls]
      /\ \A u \in Threads \ {t} : call'[u] = call[u]
  BY <1>1, Returned
<1>6. \A d \in Descs : /\ refcount'[d] \in Int
                       /\ refcount'[d] - InNodes(d)' = refcount[d] - InNodes(d) + Gain(t, d)
  BY <1>2, <1>4, Facts
<1>7. ReferencesCounted'
  BY <1>1, <1>5, <1>6, RecountCall
<1>8. Moves(t, "idle")
  BY <1>1 DEF Moves, Others
<1>9. /\ LockHeld' /\ held' \in [Threads -> Lock!Modes]
      /\ pc' \in [Threads -> Writing \cup Closing \cup Others]
  BY <1>8, LockStep DEF FdInv
<1>10. /\ \A d \in Descs : mutex'[d] = IF mutex[d] = t THEN NoOwner ELSE mutex[d]
       /\ mutex' \in [Descs -> Threads \cup {NoOwner}]
  BY <1>1 DEF Unlocked, FdInv, TypeOK
<1>11. TypeOK'
  BY <1>1, <1>5, <1>9, <1>10 DEF TypeOK, FdInv, memory
<1>12. NodesInv'
  BY <1>1 DEF FdInv, NodesInv, memory
<1>13. pc'[t] = "idle" /\ \A u \in Threads \ {t} : pc'[u] = pc[u]
  BY <1>1, Facts
<1>14. MutexOf(t)' /\ ForgottenOf(t)'
  <2>1. \A d \in Descs : mutex'[d] # t
    BY <1>10, FdTableAssumption
  <2> QED
    BY <1>13, <2>1 DEF MutexOf, ForgottenOf, Closing
<1>15. StepOf(t)
  <2>1. \A u \in Threads \ {t}, d \in Descs : mutex'[d] = u <=> mutex[d] = u
    BY <1>10, FdTableAssumption
  <2> QED
    BY <1>1, <1>5, <1>13, <2>1 DEF StepOf, memory
<1> QED
  BY <1>5, <1>7, <1>9, <1>11, <1>12, <1>14, <1>15, Frame
-----------------------------------------------------------------------------
(* The theorems *)

\* What the application and the kernel do concerns none of the shim's state.
LEMMA KernelStep ==
  ASSUME FdInv, UNCHANGED <<open_files, memory, mutex, held, pc, call>>,
         kernel' \in [Fds -> {"closed", "kqueue", "other"}]
  PROVE  FdInv'
<1>1. TypeOK' /\ LockHeld' /\ NodesInv' /\ ReferencesCounted'
  <2>1. TypeOK' /\ LockHeld'
    BY DEF FdInv, TypeOK, LockHeld, memory
  <2>2. NodesInv' /\ ReferencesCounted'
    BY DEF FdInv, NodesInv, ReferencesCounted, References, Nodes, memory
  <2> QED
    BY <2>1, <2>2
<1>2. ASSUME NEW t \in Threads PROVE CallOf(t)' /\ MutexOf(t)' /\ ForgottenOf(t)'
  <2>1. CallOf(t) /\ MutexOf(t) /\ ForgottenOf(t)
    BY DEF FdInv
  <2> QED
    BY <2>1 DEF CallOf, MutexOf, ForgottenOf, ToLock, EpollFds, memory
<1> QED
  BY <1>1, <1>2 DEF FdInv

LEMMA NextStep == FdInv /\ [Next]_vars => FdInv'
<1> SUFFICES ASSUME FdInv, [Next]_vars PROVE FdInv'
  OBVIOUS
<1>0. kernel \in [Fds -> {"closed", "kqueue", "other"}]
  BY DEF FdInv, TypeOK
<1>1. ASSUME NEW t \in Threads, Start(t) PROVE FdInv'
  <2>1. CASE CreateLock(t)
    BY <2>1, CreateLockStep
  <2>2. CASE Use(t)
    BY <2>2, FindDescStep DEF Use, CtlOps
  <2>3. CASE EpollCtl(t)
    <3>1. PICK op \in CtlOps, fd \in Fds, fd2 \in Fds : FindDesc(t, op, fd, fd2)
      BY <2>3 DEF EpollCtl
    <3>2. fd2 \in Nat
      BY FdTableAssumption
    <3> QED
      BY <3>1, <3>2, FindDescStep
  <2>4. CASE \E fd \in Fds : Close(t, fd)
    BY <2>4, CloseStep
  <2> QED
    BY <1>1, <2>1, <2>2, <2>3, <2>4 DEF Start
<1>2. ASSUME NEW t \in Threads, Creating(t) PROVE FdInv'
  BY <1>2, OpenKqueueStep, CreateDescStep, CreateFailsStep, NoKqueueStep, DropDescStep,
     InstallDescStep DEF Creating
<1>3. ASSUME NEW t \in Threads, Acquiring(t) PROVE FdInv'
  BY <1>3, FindTargetStep, LockDescStep, CloseLockStep, LockEpollFdStep DEF Acquiring
<1>4. ASSUME NEW t \in Threads, Working(t) PROVE FdInv'
  BY <1>4, WorkStep, CtlStep, UnrefTargetStep, UnrefDescStep, UnlistStep, RemoveFdStep,
     UnrefClosedStep, RealCloseStep, UnlockAllStep DEF Working
<1>5. CASE PlainClose \/ OpenOther
  <2>1. /\ kernel' \in [Fds -> {"closed", "kqueue", "other"}]
        /\ UNCHANGED <<open_files, memory, mutex, held, pc, call>>
    BY <1>0, <1>5 DEF PlainClose, OpenOther
  <2> QED
    BY <2>1, KernelStep
<1>6. CASE UNCHANGED vars
  BY <1>0, <1>6, KernelStep DEF vars, memory
<1> QED
  BY <1>1, <1>2, <1>3, <1>4, <1>5, <1>6 DEF Next

\* The inductive invariant of the descriptor table.
THEOREM FdInvariant == Spec => []FdInv
  BY InitStep, NextStep, PTL DEF Spec

\* A description is destroyed exactly when no slot of the table, no node of an
\* epollfd and no call in progress refers to it, whatever the threads interleave.
THEOREM ReferencesCountedInvariant == Spec => []ReferencesCounted
<1>1. FdInv => ReferencesCounted
  BY DEF FdInv
<1> QED
  BY <1>1, FdInvariant, PTL

\* No description is destroyed while a thread holds its mutex: its call refers to
\* it, or the thread closes a number and the table refers to it.
THEOREM MutexOutlivesOwnerInvariant == Spec => []MutexOutlivesOwner
<1>1. ASSUME FdInv PROVE MutexOutlivesOwner
  <2> SUFFICES ASSUME NEW d \in Descs, mutex[d] # NoOwner PROVE refcount[d] > 0
    BY DEF MutexOutlivesOwner
  <2>1. PICK t \in Threads : mutex[d] = t
    BY <1>1 DEF FdInv, TypeOK
  <2>2. \/ call[t].desc = d
        \/ \E fd \in Fds : open_files[fd] = d
    BY <1>1, <2>1, Facts DEF MutexOf, EpollFds
  <2>3. refcount[d] # 0
    BY <1>1, <2>2, CountedIsPresent DEF FdInv, Present
  <2> QED
    BY <1>1, <2>3, Facts
<1> QED
  BY <1>1, FdInvariant, PTL

\* A number that epoll_shim_close has closed is in no epollfd of the table and not
\* in the table itself until the call returns.
THEOREM ClosedForgottenInvariant == Spec => []ClosedForgotten
<1>1. ASSUME FdInv PROVE ClosedForgotten
  BY <1>1, Facts DEF ClosedForgotten, ForgottenOf, Closing
<1> QED
  BY <1>1, FdInvariant, PTL
=============================================================================
