------------------------ MODULE ConnectionPoolProofs ------------------------
(***************************************************************************)
(* Proofs about ConnectionPool, for every number of threads and every      *)
(* size of the pool.                                                       *)
(***************************************************************************)
EXTENDS ConnectionPool, FiniteSetTheorems, SequenceTheorems, TLAPS

-----------------------------------------------------------------------------
\* Lemmas on the queue of available slots

LEMMA QueueDomain ==
    ASSUME NEW S, NEW q \in Seq(S)
    PROVE  /\ DOMAIN q = 1 .. Len(q)
           /\ Len(q) \in Nat
           /\ Range(q) = {q[i] : i \in 1 .. Len(q)}
           /\ Range(q) \subseteq S
           /\ IsInjective(q) <=> \A i, j \in 1 .. Len(q) : q[i] = q[j] => i = j
BY DEF Range, IsInjective

LEMMA TailQueue ==
    ASSUME NEW S, NEW q \in Seq(S), q # <<>>, IsInjective(q)
    PROVE  /\ Tail(q) \in Seq(S)
           /\ Head(q) \in Range(q)
           /\ Range(Tail(q)) = Range(q) \ {Head(q)}
           /\ IsInjective(Tail(q))
           /\ Len(Tail(q)) = Len(q) - 1
<1>1. /\ Tail(q) \in Seq(S) /\ Len(Tail(q)) = Len(q) - 1 /\ Head(q) = q[1] /\ Len(q) > 0
      /\ \A i \in 1 .. Len(q) - 1 : Tail(q)[i] = q[i + 1]
  BY HeadTailProperties
<1>2. /\ Len(q) \in Nat
      /\ Range(q) = {q[i] : i \in 1 .. Len(q)}
      /\ \A i, j \in 1 .. Len(q) : q[i] = q[j] => i = j
  BY QueueDomain
<1>3. Range(Tail(q)) = {Tail(q)[i] : i \in 1 .. Len(q) - 1}
  <2>1. Range(Tail(q)) = {Tail(q)[i] : i \in 1 .. Len(Tail(q))}
    BY <1>1, QueueDomain, Zenon
  <2> QED
    BY <1>1, <2>1
<1>4. IsInjective(Tail(q))
  <2>1. \A i, j \in 1 .. Len(q) - 1 : Tail(q)[i] = Tail(q)[j] => i = j
    BY <1>1, <1>2
  <2> QED
    BY <2>1, <1>1, QueueDomain, ZenonT(60)
<1>5. Range(Tail(q)) = Range(q) \ {Head(q)}
  <2>1. ASSUME NEW x \in Range(Tail(q)) PROVE x \in Range(q) \ {Head(q)}
    BY <1>1, <1>2, <1>3
  <2>2. ASSUME NEW x \in Range(q) \ {Head(q)} PROVE x \in Range(Tail(q))
    <3>1. PICK i \in 1 .. Len(q) : x = q[i]
      BY <1>2
    <3>2. i # 1 /\ i - 1 \in 1 .. Len(q) - 1 /\ Tail(q)[i - 1] = x
      BY <1>1, <1>2, <3>1
    <3> QED
      BY <1>3, <3>2, Zenon
  <2> QED
    BY <2>1, <2>2
<1> QED
  BY <1>1, <1>2, <1>4, <1>5

LEMMA AppendQueue ==
    ASSUME NEW S, NEW q \in Seq(S), NEW e \in S, e \notin Range(q), IsInjective(q)
    PROVE  /\ Append(q, e) \in Seq(S)
           /\ Range(Append(q, e)) = Range(q) \cup {e}
           /\ IsInjective(Append(q, e))
           /\ Len(Append(q, e)) = Len(q) + 1
<1> DEFINE a == Append(q, e)
<1>1. /\ a \in Seq(S) /\ Len(a) = Len(q) + 1 /\ a[Len(q) + 1] = e
      /\ \A i \in 1 .. Len(q) : a[i] = q[i]
  BY AppendProperties
<1>2. /\ Len(q) \in Nat
      /\ Range(q) = {q[i] : i \in 1 .. Len(q)}
      /\ \A i, j \in 1 .. Len(q) : q[i] = q[j] => i = j
  BY QueueDomain
<1>3. Range(a) = {a[i] : i \in 1 .. Len(q) + 1}
  BY <1>1, QueueDomain, Zenon
<1>4. Range(a) = Range(q) \cup {e}
  <2>1. ASSUME NEW x \in Range(a) PROVE x \in Range(q) \cup {e}
    BY <1>1, <1>2, <1>3
  <2>2. ASSUME NEW x \in Range(q) \cup {e} PROVE x \in Range(a)
    <3>1. CASE x = e
      BY <1>1, <1>2, <1>3, <3>1
    <3>2. CASE x \in Range(q)
      <4>1. PICK i \in 1 .. Len(q) : x = q[i]
        BY <1>2, <3>2
      <4> QED
        BY <1>1, <1>2, <1>3, <4>1
    <3> QED
      BY <3>1, <3>2
  <2> QED
    BY <2>1, <2>2
<1>5. IsInjective(a)
  <2>1. \A i, j \in 1 .. Len(q) + 1 : a[i] = a[j] => i = j
    BY <1>1, <1>2
  <2> QED
    BY <2>1, <1>1, QueueDomain, Zenon
<1> QED
  BY <1>1, <1>4, <1>5

\* What remains after the first k elements.
LEMMA SuffixQueue ==
    ASSUME NEW S, NEW q \in Seq(S), IsInjective(q), NEW k \in 0 .. Len(q)
    PROVE  LET r == SubSeq(q, k + 1, Len(q)) IN
           /\ r \in Seq(S)
           /\ Range(r) = Range(q) \ {q[i] : i \in 1 .. k}
           /\ IsInjective(r)
           /\ Len(r) = Len(q) - k
<1> DEFINE r == SubSeq(q, k + 1, Len(q))
<1>1. /\ Len(q) \in Nat
      /\ Range(q) = {q[i] : i \in 1 .. Len(q)}
      /\ \A i, j \in 1 .. Len(q) : q[i] = q[j] => i = j
  BY QueueDomain
<1>2. \A i \in k + 1 .. Len(q) : q[i] \in S
  OBVIOUS
<1>3. /\ r \in Seq(S) /\ Len(r) = Len(q) - k
      /\ \A i \in 1 .. Len(q) - k : r[i] = q[k + i]
  <2>1. k + 1 \in Int /\ Len(q) \in Int
    BY <1>1
  <2>2. /\ r \in Seq(S)
        /\ Len(r) = IF k + 1 <= Len(q) THEN Len(q) - (k + 1) + 1 ELSE 0
        /\ \A i \in 1 .. Len(q) - (k + 1) + 1 : r[i] = q[(k + 1) + i - 1]
    BY <1>2, <2>1, SubSeqProperties
  <2> QED
    BY <1>1, <2>2
<1> HIDE DEF r
<1>4. Range(r) = {r[i] : i \in 1 .. Len(q) - k}
  <2>1. Range(r) = {r[i] : i \in 1 .. Len(r)}
    BY <1>3, QueueDomain
  <2> QED
    BY <1>3, <2>1
<1>5. IsInjective(r)
  <2>1. \A i, j \in 1 .. Len(q) - k : r[i] = r[j] => i = j
    BY <1>1, <1>3
  <2> QED
    BY <2>1, <1>3, QueueDomain
<1>6. Range(r) = Range(q) \ {q[i] : i \in 1 .. k}
  <2>1. ASSUME NEW x \in Range(r) PROVE x \in Range(q) \ {q[i] : i \in 1 .. k}
    <3>1. PICK i \in 1 .. Len(q) - k : x = q[k + i]
      BY <1>3, <1>4
    <3> QED
      BY <1>1, <3>1
  <2>2. ASSUME NEW x \in Range(q) \ {q[i] : i \in 1 .. k} PROVE x \in Range(r)
    <3>1. PICK i \in 1 .. Len(q) : x = q[i]
      BY <1>1
    <3>2. i - k \in 1 .. Len(q) - k /\ r[i - k] = x
      BY <1>1, <1>3, <3>1
    <3> QED
      BY <1>4, <3>2
  <2> QED
    BY <2>1, <2>2
<1> QED
  BY <1>3, <1>5, <1>6 DEF r

\* deque.remove() on a queue without duplicates.
LEMMA RemoveQueue ==
    ASSUME NEW S, NEW q \in Seq(S), IsInjective(q), NEW e
    PROVE  LET r == RemoveFirst(q, e) IN
           /\ r \in Seq(S)
           /\ Range(r) = Range(q) \ {e}
           /\ IsInjective(r)
<1>1. /\ Len(q) \in Nat
      /\ Range(q) = {q[i] : i \in 1 .. Len(q)}
      /\ \A i, j \in 1 .. Len(q) : q[i] = q[j] => i = j
  BY QueueDomain
<1>2. CASE ~ \E i \in 1 .. Len(q) : q[i] = e
  BY <1>1, <1>2 DEF RemoveFirst
<1>3. CASE \E i \in 1 .. Len(q) : q[i] = e
  <2>1. PICK n \in 1 .. Len(q) : q[n] = e
    BY <1>3
  <2>2. {i \in 1 .. Len(q) : q[i] = e} = {n}
    BY <1>1, <2>1
  <2>3. SelectInSeq(q, LAMBDA v : v = e) = n
    BY <2>1, <2>2 DEF SelectInSeq, Min
  <2> DEFINE a == SubSeq(q, 1, n - 1)
             b == SubSeq(q, n + 1, Len(q))
             r == a \o b
  <2>4. RemoveFirst(q, e) = r
    BY <1>3, <2>3, ZenonT(60) DEF RemoveFirst, RemoveAt
  <2>5. /\ a \in Seq(S) /\ Len(a) = n - 1
        /\ \A i \in 1 .. n - 1 : a[i] = q[i]
    <3>1. \A i \in 1 .. n - 1 : q[i] \in S
      BY <1>1
    <3>2. /\ a \in Seq(S)
          /\ Len(a) = IF 1 <= n - 1 THEN (n - 1) - 1 + 1 ELSE 0
          /\ \A i \in 1 .. (n - 1) - 1 + 1 : a[i] = q[1 + i - 1]
      BY <1>1, <3>1, SubSeqProperties
    <3> QED
      BY <1>1, <3>2
  <2>6. /\ b \in Seq(S) /\ Len(b) = Len(q) - n
        /\ \A i \in 1 .. Len(q) - n : b[i] = q[n + i]
    <3>1. \A i \in n + 1 .. Len(q) : q[i] \in S
      BY <1>1
    <3>2. /\ b \in Seq(S)
          /\ Len(b) = IF n + 1 <= Len(q) THEN Len(q) - (n + 1) + 1 ELSE 0
          /\ \A i \in 1 .. Len(q) - (n + 1) + 1 : b[i] = q[(n + 1) + i - 1]
      BY <1>1, <3>1, SubSeqProperties
    <3> QED
      BY <1>1, <3>2
  <2> HIDE DEF a, b
  <2>7. /\ r \in Seq(S) /\ Len(r) = Len(a) + Len(b)
        /\ \A i \in 1 .. Len(a) + Len(b) : r[i] = IF i <= Len(a) THEN a[i] ELSE b[i - Len(a)]
    BY <2>5, <2>6, ConcatProperties, ZenonT(60)
  <2> HIDE DEF r
  <2>8. /\ Len(r) = Len(q) - 1
        /\ \A i \in 1 .. Len(q) - 1 : r[i] = IF i < n THEN q[i] ELSE q[i + 1]
    <3>1. Len(r) = Len(q) - 1
      BY <1>1, <2>5, <2>6, <2>7
    <3>2. ASSUME NEW i \in 1 .. Len(q) - 1 PROVE r[i] = IF i < n THEN q[i] ELSE q[i + 1]
      <4>1. r[i] = IF i <= n - 1 THEN a[i] ELSE b[i - (n - 1)]
        BY <1>1, <2>5, <2>6, <2>7
      <4>2. CASE i < n
        BY <1>1, <2>5, <4>1, <4>2, SMTT(60)
      <4>3. CASE i >= n
        <5>1. i - (n - 1) \in 1 .. Len(q) - n /\ n + (i - (n - 1)) = i + 1
          BY <1>1, <4>3
        <5> QED
          BY <1>1, <2>6, <4>1, <4>3, <5>1, SMTT(60)
      <4> QED
        BY <1>1, <4>2, <4>3
    <3> QED
      BY <3>1, <3>2
  <2>9. /\ Range(r) = {r[i] : i \in 1 .. Len(r)}
        /\ IsInjective(r) <=> \A i, j \in 1 .. Len(r) : r[i] = r[j] => i = j
    BY <2>7, QueueDomain, ZenonT(60)
  <2>10. IsInjective(r)
    <3>1. ASSUME NEW i \in 1 .. Len(r), NEW j \in 1 .. Len(r), r[i] = r[j] PROVE i = j
      <4>1. PICK k \in 1 .. Len(q) : r[i] = q[k] /\ k = IF i < n THEN i ELSE i + 1
        BY <1>1, <2>8, SMTT(60)
      <4>2. PICK m \in 1 .. Len(q) : r[j] = q[m] /\ m = IF j < n THEN j ELSE j + 1
        BY <1>1, <2>8, SMTT(60)
      <4>3. k = m
        BY <1>1, <3>1, <4>1, <4>2, ZenonT(60)
      <4> QED
        BY <1>1, <2>8, <4>1, <4>2, <4>3, SMTT(60)
    <3> QED
      BY <2>9, <3>1, ZenonT(60)
  <2>11. ASSUME NEW x \in Range(r) PROVE x \in Range(q) \ {e}
    BY <1>1, <2>1, <2>8, <2>9
  <2>12. ASSUME NEW x \in Range(q) \ {e} PROVE x \in Range(r)
    <3>1. PICK i \in 1 .. Len(q) : x = q[i]
      BY <1>1
    <3>2. CASE i < n
      BY <1>1, <2>8, <2>9, <3>1, <3>2, SMTT(60)
    <3>3. CASE i > n
      <4>1. i - 1 \in 1 .. Len(q) - 1 /\ r[i - 1] = x
        BY <1>1, <2>8, <3>1, <3>3
      <4> QED
        BY <2>8, <2>9, <4>1
    <3> QED
      BY <2>1, <3>1, <3>2, <3>3
  <2> QED
    BY <2>4, <2>7, <2>10, <2>11, <2>12, Zenon
<1> QED
  BY <1>2, <1>3

-----------------------------------------------------------------------------
\* The inductive invariant

Growing == {t \in Threads : pc[t] = "growing"}

\* Every unit of _creating belongs to a thread inside the factory.
Booked == creating = Cardinality(Growing)

\* The threads in the condition's queue are inside _reserve().
Queued == \A w \in waiters : pc[w] \in {"waiting", "reserve"}

PoolInv ==
    /\ IsFiniteSet(all)
    /\ LendingState
    /\ BoundedGrowth
    /\ ClosedIsEmpty

\* Who refers to a slot: a slot that a thread health-checks is lent to that
\* thread alone or removed from the pool, and its client is nobody's yet.
OwnInv ==
    /\ \A s, r \in all : client[s] = client[r] => s = r
    /\ \A t \in Threads : pc[t] \in {"checking", "replacing"} <=> mine[t] # NoSlot
    /\ \A t \in Threads : mine[t] \in all => mine[t] \in lent
    /\ \A t, u \in Threads : mine[t] = mine[u] /\ mine[t] # NoSlot => t = u
    /\ \A s \in Range(available) : client[s] \notin held
    /\ \A t \in Threads : mine[t] \in all => client[mine[t]] \notin held

IInv == TypeOK /\ PoolInv /\ OwnInv /\ Booked /\ Queued

LEMMA InitInv == Init => IInv
<1> SUFFICES ASSUME Init PROVE IInv
  OBVIOUS
<1>1. /\ MinSize \in Nat /\ available \in [1 .. MinSize -> Slots] /\ IsInjective(available)
      /\ all = Range(available)
  BY PoolAssumption DEF Init
<1>2. available \in Seq(Slots) /\ Len(available) = MinSize
  BY <1>1
<1>3. Range(available) \subseteq Slots
  BY <1>2, QueueDomain
<1>4. IsFiniteSet(all) /\ Cardinality(all) <= MinSize
  <2>1. available \in Surjection(1 .. MinSize, all)
    BY <1>1, <1>2, <1>3 DEF Surjection, Range
  <2>2. IsFiniteSet(1 .. MinSize) /\ Cardinality(1 .. MinSize) = MinSize
    BY <1>1, FS_Interval
  <2> QED
    BY <2>1, <2>2, FS_Surjection
<1>5. Cardinality(all) \in Nat
  BY <1>4, FS_CardinalityType
<1>6. Growing = {}
  BY DEF Growing, Init
<1>7. Booked /\ Queued
  BY <1>6, FS_EmptySet DEF Booked, Queued, Init
<1>8. TypeOK
  BY <1>1, <1>2, <1>3, ZenonT(60) DEF Init, TypeOK, PCs
<1>9. PoolInv
  <2>1. BoundedGrowth
    BY <1>1, <1>4, <1>5, PoolAssumption DEF Init, BoundedGrowth
  <2> QED
    BY <1>1, <1>4, <2>1 DEF Init, PoolInv, LendingState, ClosedIsEmpty
<1>10. OwnInv
  BY <1>1, <1>3, PoolAssumption DEF Init, OwnInv
<1> QED
  BY <1>7, <1>8, <1>9, <1>10 DEF IInv

-----------------------------------------------------------------------------
\* What a step does to the control points

\* The step moves thread t to p, and may wake waiting threads.
Moves(t, p) ==
    /\ t \in Threads
    /\ pc' \in [Threads -> PCs]
    /\ pc'[t] = p
    /\ \A u \in Threads \ {t} :
           pc'[u] = pc[u] \/ (pc[u] = "waiting" /\ pc'[u] = "reserve")

LEMMA NotifyAllMoves ==
    ASSUME TypeOK, NEW t \in Threads, NEW p \in PCs \ {"waiting"}, NotifyAll(Goto(t, p))
    PROVE  Moves(t, p) /\ waiters' = {}
BY DEF TypeOK, NotifyAll, Goto, Moves, PCs

LEMMA GotoMoves ==
    ASSUME TypeOK, NEW t \in Threads, NEW p \in PCs, pc' = Goto(t, p)
    PROVE  Moves(t, p)
BY DEF TypeOK, Goto, Moves, PCs

\* Nobody but a woken thread moves.
Wakes ==
    /\ pc' \in [Threads -> PCs]
    /\ \A u \in Threads :
           pc'[u] = pc[u] \/ (pc[u] \in {"waiting", "reserve"} /\ pc'[u] = "reserve")

LEMMA BookedKept ==
    ASSUME IInv, NEW t \in Threads, NEW p, Moves(t, p),
           \/ pc[t] # "growing" /\ p # "growing" /\ creating' = creating
           \/ pc[t] # "growing" /\ p = "growing" /\ creating' = creating + 1
           \/ pc[t] = "growing" /\ p # "growing" /\ creating' = creating - 1,
           waiters' \subseteq waiters \cup {t},
           \/ p \in {"waiting", "reserve"}
           \/ pc[t] \notin {"waiting", "reserve"} /\ waiters' \subseteq waiters
           \/ t \notin waiters'
    PROVE  Booked' /\ Queued' /\ creating' \in Nat
<1>0. Queued'
  BY DEF IInv, TypeOK, Queued, Moves
<1>1. IsFiniteSet(Growing) /\ IsFiniteSet(Growing')
  BY PoolAssumption, FS_Subset DEF Growing
<1>2. Cardinality(Growing) \in Nat /\ Cardinality(Growing') \in Nat
  BY <1>1, FS_CardinalityType
<1>3. CASE pc[t] # "growing" /\ p # "growing" /\ creating' = creating
  <2>1. Growing' = Growing
    BY <1>3 DEF Growing, Moves
  <2> QED
    BY <1>0, <1>2, <1>3, <2>1, Zenon DEF Booked, IInv
<1>4. CASE pc[t] # "growing" /\ p = "growing" /\ creating' = creating + 1
  <2>1. Growing' = Growing \cup {t} /\ t \notin Growing
    BY <1>4 DEF Growing, Moves
  <2> QED
    BY <1>0, <1>1, <1>2, <1>4, <2>1, FS_AddElement, SMTT(60) DEF Booked, IInv
<1>5. CASE pc[t] = "growing" /\ p # "growing" /\ creating' = creating - 1
  <2>1. Growing' = Growing \ {t} /\ t \in Growing
    BY <1>5 DEF Growing, Moves
  <2> QED
    BY <1>0, <1>1, <1>2, <1>5, <2>1, FS_RemoveElement, Zenon DEF Booked, IInv
<1> QED
  BY <1>3, <1>4, <1>5

LEMMA WakesBooked ==
    ASSUME IInv, Wakes, creating' = creating,
           waiters' \subseteq waiters
    PROVE  Booked' /\ Queued'
<1>1. Growing' = Growing
  BY DEF Growing, Wakes
<1>2. Queued'
  BY DEF IInv, TypeOK, Queued, Wakes
<1> QED
  BY <1>1, <1>2 DEF Booked, IInv

-----------------------------------------------------------------------------
\* _reserve() and _grow()

LEMMA PoolCounts == IInv => Cardinality(all) \in Nat /\ creating \in Nat
BY FS_CardinalityType DEF IInv, PoolInv, TypeOK

\* A step that leaves the pool, the callers' clients and the reserved slots
\* alone.
LEMMA ControlInv ==
    ASSUME IInv, NEW t \in Threads, NEW p \in PCs, Moves(t, p),
           UNCHANGED <<pool, held, mine>>,
           waiters' \subseteq waiters \cup {t}, expired' \in [Threads -> BOOLEAN],
           pc[t] # "growing", p # "growing",
           pc[t] \in {"checking", "replacing"} <=> p \in {"checking", "replacing"},
           \/ p \in {"waiting", "reserve"}
           \/ pc[t] \notin {"waiting", "reserve"} /\ waiters' \subseteq waiters
           \/ t \notin waiters'
    PROVE  IInv'
<1>1. UNCHANGED <<all, available, lent, creating, closed, client>>
  BY DEF pool
<1>2. Booked' /\ Queued'
  BY <1>1, BookedKept
<1>3. TypeOK'
  BY <1>1 DEF IInv, TypeOK, Moves
<1>4. PoolInv'
  BY <1>1 DEF IInv, PoolInv, LendingState, BoundedGrowth, ClosedIsEmpty
<1>5. OwnInv'
  BY <1>1 DEF IInv, OwnInv, Moves
<1> QED
  BY <1>2, <1>3, <1>4, <1>5, Zenon DEF IInv

LEMMA ReserveInv ==
    ASSUME IInv, NEW t \in Threads, Acquire(t) \/ DeadlinePasses(t) \/ Reserve(t)
    PROVE  IInv'
<1>0. TypeOK
  BY DEF IInv
<1>1. CASE Acquire(t)
  BY <1>0, <1>1, GotoMoves, ControlInv, Zenon DEF Acquire, PCs, TypeOK
<1>2. CASE DeadlinePasses(t)
  BY <1>0, <1>2, GotoMoves, ControlInv, Zenon DEF DeadlinePasses, PCs, TypeOK
<1>3. CASE ReserveClosed(t)
  BY <1>0, <1>3, GotoMoves, ControlInv DEF ReserveClosed, PCs, TypeOK
<1>4. CASE ReserveBusy(t)
  <2>1. CASE expired[t]
    BY <1>0, <1>4, <2>1, GotoMoves, ControlInv, Zenon DEF ReserveBusy, PCs, TypeOK
  <2>2. CASE ~ expired[t]
    BY <1>0, <1>4, <2>2, GotoMoves, ControlInv, Zenon DEF ReserveBusy, PCs, TypeOK
  <2> QED
    BY <2>1, <2>2
<1>5. CASE ReserveSlot(t)
  <2> DEFINE s == Head(available)
  <2>1. /\ available' \in Seq(Slots) /\ s \in Range(available)
        /\ Range(available') = Range(available) \ {s}
        /\ IsInjective(available')
    BY <1>0, <1>5, TailQueue, Zenon DEF ReserveSlot, TypeOK, IInv, PoolInv, LendingState
  <2>2. s \in all /\ s \in Slots /\ s \notin lent
    BY <1>0, <2>1 DEF IInv, PoolInv, LendingState, TypeOK
  <2>3. /\ pc[t] = "reserve" /\ ~ closed /\ lent' = lent \cup {s}
        /\ mine' = [mine EXCEPT ![t] = s] /\ waiters' = waiters \ {t}
        /\ UNCHANGED <<all, creating, closed, client, held, expired>>
    BY <1>5 DEF ReserveSlot
  <2>4. Moves(t, "checking")
    BY <1>0, <1>5, GotoMoves DEF ReserveSlot, PCs
  <2> HIDE DEF s
  <2>5. Booked' /\ Queued'
    BY <2>3, <2>4, BookedKept
  <2>6. TypeOK'
    BY <1>0, <2>1, <2>2, <2>3, <2>4, ZenonT(60) DEF TypeOK, Moves
  <2>7. PoolInv'
    BY <2>1, <2>2, <2>3 DEF IInv, PoolInv, LendingState, BoundedGrowth, ClosedIsEmpty
  <2>8. OwnInv'
    <3>1. s # NoSlot /\ client[s] \notin held /\ (\A u \in Threads : mine[u] # s)
      BY <2>1, <2>2, PoolAssumption DEF IInv, OwnInv
    <3> QED
      BY <1>0, <2>1, <2>2, <2>3, <2>4, <3>1 DEF IInv, OwnInv, Moves, TypeOK
  <2> QED
    BY <2>5, <2>6, <2>7, <2>8, Zenon DEF IInv
<1>6. CASE ReserveGrowth(t)
  <2>1. /\ pc[t] = "reserve" /\ CanGrow /\ creating' = creating + 1
        /\ waiters' = waiters \ {t}
        /\ UNCHANGED <<all, available, lent, closed, client, held, mine, expired>>
    BY <1>6 DEF ReserveGrowth
  <2>2. Moves(t, "growing")
    BY <1>0, <1>6, GotoMoves DEF ReserveGrowth, PCs
  <2>3. Booked' /\ Queued' /\ creating' \in Nat
    BY <2>1, <2>2, BookedKept
  <2>4. TypeOK'
    BY <1>0, <2>1, <2>2, <2>3, Zenon DEF TypeOK, Moves
  <2>5. PoolInv'
    <3>1. BoundedGrowth'
      BY <2>1, PoolCounts, PoolAssumption, SMTT(60) DEF BoundedGrowth, CanGrow
    <3> QED
      BY <2>1, <3>1 DEF IInv, PoolInv, LendingState, ClosedIsEmpty
  <2>6. OwnInv'
    BY <2>1, <2>2 DEF IInv, OwnInv, Moves
  <2> QED
    BY <2>3, <2>4, <2>5, <2>6, Zenon DEF IInv
<1> QED
  BY <1>1, <1>2, <1>3, <1>4, <1>5, <1>6, Zenon DEF Reserve

LEMMA GrowInv ==
    ASSUME IInv, NEW t \in Threads, Grow(t)
    PROVE  IInv'
<1>0. TypeOK
  BY DEF IInv
<1>1. ASSUME NEW s \in FreshSlots, NEW c \in FreshClients, GrowOk(t, s, c)
      PROVE  IInv'
  <2>1. /\ s \in Slots /\ s \notin all /\ (\A u \in Threads : mine[u] # s)
        /\ c \in Clients /\ c \notin held /\ (\A r \in all : client[r] # c)
    BY DEF FreshSlots, FreshClients
  <2>2. /\ pc[t] = "growing" /\ ~ closed /\ creating' = creating - 1
        /\ all' = all \cup {s} /\ lent' = lent \cup {s}
        /\ client' = [client EXCEPT ![s] = c] /\ held' = held \cup {c}
        /\ UNCHANGED <<available, closed, waiters, mine, expired>>
    BY <1>1 DEF GrowOk
  <2>3. Moves(t, "idle")
    BY <1>0, <1>1, GotoMoves, Zenon DEF GrowOk, PCs
  <2>4. Booked' /\ Queued' /\ creating' \in Nat
    BY <2>2, <2>3, BookedKept, Zenon
  <2>5. TypeOK'
    BY <1>0, <2>1, <2>2, <2>3, <2>4, Zenon DEF TypeOK, Moves
  <2>6. PoolInv'
    <3>1. IsFiniteSet(all') /\ Cardinality(all') = Cardinality(all) + 1
      BY <2>1, <2>2, FS_AddElement, Zenon DEF IInv, PoolInv
    <3>2. BoundedGrowth'
      BY <2>2, <3>1, PoolCounts, PoolAssumption, SMTT(60) DEF IInv, PoolInv, BoundedGrowth
    <3> QED
      BY <2>1, <2>2, <3>1, <3>2, Zenon DEF IInv, PoolInv, LendingState, ClosedIsEmpty
  <2>7. OwnInv'
    <3>1. /\ client'[s] = c
          /\ \A r \in all : client'[r] = client[r] /\ client[r] # c
          /\ \A r \in Range(available) : r \in all
      BY <1>0, <2>1, <2>2 DEF TypeOK, IInv, PoolInv, LendingState
    <3> QED
      BY <2>1, <2>2, <2>3, <3>1, SMTT(60) DEF IInv, OwnInv, Moves
  <2> QED
    BY <2>4, <2>5, <2>6, <2>7, Zenon DEF IInv
<1>2. CASE GrowFails(t)
  <2>1. /\ pc[t] = "growing" /\ creating' = creating - 1
        /\ UNCHANGED <<all, available, lent, closed, client, held, mine, expired>>
    BY <1>2 DEF GrowFails
  <2>2. Moves(t, "idle") /\ waiters' = {}
    BY <1>0, <1>2, NotifyAllMoves, Zenon DEF GrowFails, PCs
  <2>3. Booked' /\ Queued' /\ creating' \in Nat
    BY <2>1, <2>2, BookedKept, Zenon
  <2>4. TypeOK'
    BY <1>0, <2>1, <2>2, <2>3, Zenon DEF TypeOK, Moves
  <2>5. PoolInv'
    BY <2>1, PoolCounts, PoolAssumption, SMTT(60)
       DEF IInv, PoolInv, LendingState, BoundedGrowth, ClosedIsEmpty
  <2>6. OwnInv'
    BY <2>1, <2>2 DEF IInv, OwnInv, Moves
  <2> QED
    BY <2>3, <2>4, <2>5, <2>6, Zenon DEF IInv
<1> QED
  BY <1>1, <1>2 DEF Grow

-----------------------------------------------------------------------------
\* _hand_out()

LEMMA HandOutInv ==
    ASSUME IInv, NEW t \in Threads, HandOut(t)
    PROVE  IInv'
<1>0. TypeOK
  BY Zenon DEF IInv
<1>1. CASE PingFails(t)
  BY <1>0, <1>1, GotoMoves, ControlInv, Zenon DEF PingFails, PCs, TypeOK
<1>2. CASE CheckOk(t)
  <2> DEFINE s == mine[t]
  <2>1. /\ pc[t] = "checking" /\ ~ closed /\ s \in lent /\ s \in all /\ s \in Slots
        /\ held' = held \cup {client[s]} /\ mine' = [mine EXCEPT ![t] = NoSlot]
        /\ UNCHANGED <<all, available, lent, creating, closed, client, waiters, expired>>
    BY <1>0, <1>2 DEF CheckOk, StillLent, Leave, pool, IInv, PoolInv, LendingState, TypeOK
  <2>2. Moves(t, "idle")
    BY <1>0, <1>2, GotoMoves, Zenon DEF CheckOk, PCs
  <2>3. Booked' /\ Queued'
    BY <2>1, <2>2, BookedKept, Zenon
  <2>4. TypeOK'
    <3>1. mine' \in [Threads -> Slots \cup {NoSlot}]
      BY <1>0, <2>1 DEF TypeOK
    <3>2. held' \subseteq Clients
      BY <1>0, <2>1 DEF TypeOK
    <3>3. pc' \in [Threads -> PCs]
      BY <2>2 DEF Moves
    <3> QED
      BY <1>0, <2>1, <3>1, <3>2, <3>3, Zenon DEF TypeOK
  <2>5. PoolInv'
    BY <2>1, Zenon DEF IInv, PoolInv, LendingState, BoundedGrowth, ClosedIsEmpty
  <2>6. OwnInv'
    <3>1. \A r \in Range(available) : r \in all /\ r # s
      BY <2>1, Zenon DEF IInv, PoolInv, LendingState
    <3>2. \A u \in Threads \ {t} : mine'[u] = mine[u] /\ mine[u] # s
      BY <1>0, <2>1, PoolAssumption, Zenon DEF IInv, OwnInv, TypeOK
    <3>3. mine'[t] = NoSlot /\ NoSlot \notin all
      BY <1>0, <2>1, PoolAssumption DEF TypeOK
    <3> QED
      BY <2>1, <2>2, <3>1, <3>2, <3>3, SMTT(60) DEF IInv, OwnInv, Moves
  <2> QED
    BY <2>3, <2>4, <2>5, <2>6, Zenon DEF IInv
<1>3. ASSUME NEW c \in FreshClients, ReplaceOk(t, c) PROVE IInv'
  <2> DEFINE s == mine[t]
  <2>0. c \in Clients /\ c \notin held /\ (\A r \in all : client[r] # c)
    BY Zenon DEF FreshClients
  <2>1. /\ pc[t] = "replacing" /\ ~ closed /\ s \in lent /\ s \in all /\ s \in Slots
        /\ held' = held \cup {c} /\ mine' = [mine EXCEPT ![t] = NoSlot]
        /\ client' = [client EXCEPT ![s] = c]
        /\ UNCHANGED <<all, available, lent, creating, closed, waiters, expired>>
    BY <1>0, <1>3 DEF ReplaceOk, StillLent, Leave, IInv, PoolInv, LendingState, TypeOK
  <2>2. Moves(t, "idle")
    BY <1>0, <1>3, GotoMoves, Zenon DEF ReplaceOk, PCs
  <2>3. Booked' /\ Queued'
    BY <2>1, <2>2, BookedKept, Zenon
  <2>4. TypeOK'
    <3>1. mine' \in [Threads -> Slots \cup {NoSlot}]
      BY <1>0, <2>1 DEF TypeOK
    <3>2. held' \subseteq Clients /\ client' \in [Slots -> Clients]
      BY <1>0, <2>0, <2>1, Zenon DEF TypeOK
    <3>3. pc' \in [Threads -> PCs]
      BY <2>2 DEF Moves
    <3> QED
      BY <1>0, <2>1, <3>1, <3>2, <3>3, Zenon DEF TypeOK
  <2>5. PoolInv'
    BY <2>1 DEF IInv, PoolInv, LendingState, BoundedGrowth, ClosedIsEmpty
  <2>6. OwnInv'
    <3>1. \A r \in Range(available) : r \in all /\ r # s
      BY <2>1, Zenon DEF IInv, PoolInv, LendingState
    <3>2. \A u \in Threads \ {t} : mine'[u] = mine[u] /\ mine[u] # s
      BY <1>0, <2>1, PoolAssumption, Zenon DEF IInv, OwnInv, TypeOK
    <3>3. mine'[t] = NoSlot /\ NoSlot \notin all
      BY <1>0, <2>1, PoolAssumption, Zenon DEF TypeOK
    <3>4. client'[s] = c /\ (\A r \in all \ {s} : client'[r] = client[r])
      BY <1>0, <2>1, Zenon DEF TypeOK
    <3> QED
      BY <2>0, <2>1, <2>2, <3>1, <3>2, <3>3, <3>4, SMTT(60) DEF IInv, OwnInv, Moves
  <2> QED
    BY <2>3, <2>4, <2>5, <2>6, Zenon DEF IInv
<1>4. CASE SlotGone(t)
  <2>1. /\ pc[t] \in {"checking", "replacing"} /\ mine' = [mine EXCEPT ![t] = NoSlot]
        /\ UNCHANGED <<all, available, lent, creating, closed, client, held, waiters, expired>>
    BY <1>4 DEF SlotGone, Leave, pool
  <2>2. Moves(t, "idle")
    BY <1>0, <1>4, GotoMoves, Zenon DEF SlotGone, PCs
  <2>3. Booked' /\ Queued'
    BY <2>1, <2>2, BookedKept, Zenon
  <2>4. TypeOK'
    <3>1. mine' \in [Threads -> Slots \cup {NoSlot}]
      BY <1>0, <2>1, Zenon DEF TypeOK
    <3>2. pc' \in [Threads -> PCs]
      BY <2>2, Zenon DEF Moves
    <3> QED
      BY <1>0, <2>1, <3>1, <3>2, Zenon DEF TypeOK
  <2>5. PoolInv'
    BY <2>1, Zenon DEF IInv, PoolInv, LendingState, BoundedGrowth, ClosedIsEmpty
  <2>6. OwnInv'
    <3>1. mine'[t] = NoSlot /\ NoSlot \notin all /\ (\A u \in Threads \ {t} : mine'[u] = mine[u])
      BY <1>0, <2>1, PoolAssumption, Zenon DEF TypeOK
    <3> QED
      BY <2>1, <2>2, <3>1, SMTT(60) DEF IInv, OwnInv, Moves
  <2> QED
    BY <2>3, <2>4, <2>5, <2>6, SMTT(60) DEF IInv
<1>5. CASE DropSlot(t)
  <2> DEFINE s == mine[t]
  <2>1. /\ pc[t] \in {"checking", "replacing"} /\ mine' = [mine EXCEPT ![t] = NoSlot]
        /\ lent' = lent \ {s} /\ all' = all \ {s}
        /\ UNCHANGED <<available, creating, closed, client, held, expired>>
    BY <1>5 DEF DropSlot, Leave
  <2>2. Moves(t, "idle") /\ waiters' = {}
    BY <1>0, <1>5, NotifyAllMoves, Zenon DEF DropSlot, PCs
  <2>3. Booked' /\ Queued'
    BY <2>1, <2>2, BookedKept, Zenon
  <2>4. TypeOK'
    <3>1. mine' \in [Threads -> Slots \cup {NoSlot}]
      BY <1>0, <2>1 DEF TypeOK
    <3>2. pc' \in [Threads -> PCs]
      BY <2>2, Zenon DEF Moves
    <3> QED
      BY <1>0, <2>1, <2>2, <3>1, <3>2, Zenon DEF TypeOK
  <2>5. s \notin Range(available)
    BY <2>1 DEF IInv, OwnInv, PoolInv, LendingState
  <2>6. PoolInv'
    <3>1. IsFiniteSet(all') /\ Cardinality(all') <= Cardinality(all) /\ Cardinality(all') \in Nat
      BY <2>1, FS_Subset, FS_CardinalityType, Zenon DEF IInv, PoolInv
    <3>2. BoundedGrowth'
      BY <2>1, <3>1, PoolCounts, PoolAssumption, SMTT(60) DEF IInv, PoolInv, BoundedGrowth
    <3> QED
      BY <2>1, <2>5, <3>1, <3>2, Zenon DEF IInv, PoolInv, LendingState, ClosedIsEmpty
  <2>7. OwnInv'
    <3>1. mine'[t] = NoSlot /\ NoSlot \notin all /\ (\A u \in Threads \ {t} : mine'[u] = mine[u])
      BY <1>0, <2>1, PoolAssumption, Zenon DEF TypeOK
    <3> QED
      BY <2>1, <2>2, <3>1, SMTT(60) DEF IInv, OwnInv, Moves
  <2> QED
    BY <2>3, <2>4, <2>6, <2>7, SMTT(60) DEF IInv
<1> QED
  BY <1>1, <1>2, <1>3, <1>4, <1>5, Zenon DEF HandOut

-----------------------------------------------------------------------------
\* release(), close() and the reaper

LEMMA NotifyWakes ==
    ASSUME TypeOK, NotifyAll(pc) \/ Notify \/ UNCHANGED <<pc, waiters>>,
           Queued
    PROVE  Wakes /\ waiters' \subseteq waiters
BY DEF TypeOK, Queued, NotifyAll, Notify, Goto, Wakes, PCs

\* A step that removes slots from the pool, and perhaps clients from the
\* callers' hands, and wakes threads.
LEMMA ShrinkInv ==
    ASSUME IInv, Wakes, waiters' \subseteq waiters,
           all' \subseteq all, lent' \subseteq lent, held' \subseteq held,
           available' \in Seq(Slots), IsInjective(available'),
           Range(available') \subseteq Range(available),
           Range(available') \cup lent' = all', lent' = lent \cap all',
           closed' \in BOOLEAN, ClosedIsEmpty',
           UNCHANGED <<creating, client, mine, expired>>
    PROVE  IInv'
<1>1. Booked' /\ Queued'
  BY WakesBooked
<1>2. TypeOK'
  BY DEF IInv, TypeOK, Wakes
<1>3. PoolInv'
  <2>1. IsFiniteSet(all') /\ Cardinality(all') <= Cardinality(all) /\ Cardinality(all') \in Nat
    BY FS_Subset, FS_CardinalityType DEF IInv, PoolInv
  <2>2. BoundedGrowth'
    BY <2>1, PoolCounts, PoolAssumption, SMTT(60) DEF IInv, PoolInv, BoundedGrowth
  <2>3. Range(available') \cap lent' = {}
    BY DEF IInv, PoolInv, LendingState
  <2> QED
    BY <2>1, <2>2, <2>3, Zenon DEF PoolInv, LendingState
<1>4. OwnInv'
  BY DEF IInv, OwnInv, TypeOK, Wakes
<1> QED
  BY <1>1, <1>2, <1>3, <1>4, Zenon DEF IInv

\* The client is its caller's to recycle, or not lent.
Owed(c) == c \in held \/ SlotsOf(c) \cap lent = {}

LEMMA ReleaseInv ==
    ASSUME IInv, NEW c \in Clients, (Recycle(c) /\ Owed(c)) \/ Destroy(c)
    PROVE  IInv'
<1>0. TypeOK /\ Queued /\ LendingState /\ ClosedIsEmpty
  BY DEF IInv, PoolInv
<1>1. ASSUME UNCHANGED <<all, available, lent, creating, closed, client, mine, expired>>,
             UNCHANGED <<pc, waiters>>, held' \subseteq held
      PROVE  IInv'
  <2>1. Wakes /\ waiters' \subseteq waiters
    BY <1>0, <1>1, NotifyWakes, Zenon
  <2>2. lent' = lent \cap all' /\ Range(available') \cup lent' = all' /\ ClosedIsEmpty'
    BY <1>0, <1>1 DEF LendingState, ClosedIsEmpty
  <2> QED
    BY <1>0, <1>1, <2>1, <2>2, ShrinkInv, Zenon DEF TypeOK, LendingState
<1>2. CASE Recycle(c) /\ Owed(c)
  <2>1. CASE UNCHANGED <<available, lent, pc, waiters>>
    BY <1>1, <1>2, <2>1, Zenon DEF Recycle
  <2>2. ASSUME NEW s \in SlotsOf(c) \cap lent, lent' = lent \ {s},
               available' = Append(available, s), Notify
        PROVE  IInv'
    <3>1. s \in all /\ s \in lent /\ s \in Slots /\ client[s] = c /\ c \in held
      BY <1>0, <1>2, <2>2, Zenon DEF SlotsOf, TypeOK, Owed
    <3>2. /\ held' = held \ {c}
          /\ UNCHANGED <<all, creating, closed, client, mine, expired>>
      BY <1>2 DEF Recycle
    <3>3. s \notin Range(available)
      BY <1>0, <3>1, Zenon DEF LendingState
    <3>4. /\ available' \in Seq(Slots) /\ Range(available') = Range(available) \cup {s}
          /\ IsInjective(available')
      BY <1>0, <2>2, <3>1, <3>3, AppendQueue, SMTT(60) DEF TypeOK, LendingState
    <3>5. Wakes /\ waiters' \subseteq waiters
      BY <1>0, <2>2, NotifyWakes, Zenon
    <3>6. Booked' /\ Queued'
      BY <3>2, <3>5, WakesBooked, Zenon
    <3>7. TypeOK'
      BY <1>0, <2>2, <3>2, <3>4, <3>5, Zenon DEF TypeOK, Wakes
    <3>8. PoolInv'
      BY <2>2, <3>1, <3>2, <3>4, Zenon DEF IInv, PoolInv, LendingState, BoundedGrowth, ClosedIsEmpty
    <3>9. OwnInv'
      <4>1. \A u \in Threads : mine[u] # s
        BY <3>1 DEF IInv, OwnInv
      <4> QED
        BY <1>0, <2>2, <3>1, <3>2, <3>4, <3>5, <4>1, Zenon DEF IInv, OwnInv, Wakes, TypeOK
    <3> QED
      BY <3>6, <3>7, <3>8, <3>9, Zenon DEF IInv
  <2> QED
    BY <1>2, <2>1, <2>2, Zenon DEF Recycle
<1>3. CASE Destroy(c)
  <2>0. held' \subseteq held /\ UNCHANGED <<creating, closed, client, mine, expired>>
    BY <1>3 DEF Destroy
  <2>1. CASE UNCHANGED <<all, available, lent, pc, waiters>>
    BY <1>1, <2>0, <2>1, Zenon
  <2>2. ASSUME NEW s \in SlotsOf(c), lent' = lent \ {s},
               available' = RemoveFirst(available, s), all' = all \ {s}, NotifyAll(pc)
        PROVE  IInv'
    <3>1. /\ available' \in Seq(Slots) /\ Range(available') = Range(available) \ {s}
          /\ IsInjective(available')
      BY <1>0, <2>2, RemoveQueue, Zenon DEF TypeOK, LendingState
    <3>2. Wakes /\ waiters' \subseteq waiters
      BY <1>0, <2>2, NotifyWakes, Zenon
    <3>3. Range(available') \cup lent' = all' /\ lent' = lent \cap all'
      BY <1>0, <2>2, <3>1, Zenon DEF LendingState
    <3>4. ~ closed
      BY <1>0, <2>2, Zenon DEF SlotsOf, ClosedIsEmpty
    <3> QED
      BY <1>0, <2>0, <2>2, <3>1, <3>2, <3>3, <3>4, ShrinkInv, SMTT(60) DEF TypeOK, ClosedIsEmpty
  <2> QED
    BY <1>3, <2>1, <2>2, Zenon DEF Destroy
<1> QED
  BY <1>2, <1>3

LEMMA CloseInv ==
    ASSUME IInv, Close
    PROVE  IInv'
<1>1. TypeOK /\ Queued
  BY DEF IInv
<1>2. Wakes /\ waiters' \subseteq waiters
  BY <1>1, NotifyWakes DEF Close
<1>3. available' = <<>> /\ <<>> \in Seq(Slots) /\ Range(<<>>) = {} /\ IsInjective(<<>>)
  BY DEF Close, Range, IsInjective
<1> QED
  BY <1>1, <1>2, <1>3, ShrinkInv, Zenon DEF Close, ClosedIsEmpty

LEMMA ReapInv ==
    ASSUME IInv, NEW k \in 1 .. MaxSize, Reap(k)
    PROVE  IInv'
<1>1. TypeOK /\ Queued /\ LendingState /\ available \in Seq(Slots)
  BY DEF IInv, PoolInv, TypeOK
<1>2. Wakes /\ waiters' \subseteq waiters
  BY <1>1, NotifyWakes, Zenon DEF Reap
<1>3. k \in 0 .. Len(available)
  BY <1>1, PoolAssumption, QueueDomain, SMTT(60) DEF Reap
<1>4. /\ available' \in Seq(Slots)
      /\ Range(available') = Range(available) \ {available[i] : i \in 1 .. k}
      /\ IsInjective(available')
  BY <1>1, <1>3, SuffixQueue, Zenon DEF Reap, LendingState
<1>5. {available[i] : i \in 1 .. k} \subseteq Range(available)
  BY <1>1, <1>3, QueueDomain
<1>6. Range(available') \cup lent' = all' /\ lent' = lent \cap all'
  BY <1>1, <1>4, <1>5, Zenon DEF Reap, LendingState
<1> QED
  BY <1>1, <1>2, <1>4, <1>6, ShrinkInv, Zenon DEF Reap, ClosedIsEmpty, TypeOK

LEMMA NextInv ==
    ASSUME IInv, ~ StaleReleases, [Next]_vars
    PROVE  IInv'
<1>1. CASE UNCHANGED vars
  BY <1>1 DEF vars, pool, IInv, TypeOK, PoolInv, OwnInv, Booked, Queued, Growing,
              LendingState, BoundedGrowth, ClosedIsEmpty
<1>2. \A c \in Clients : Recycle(c) => Owed(c)
  BY DEF Recycle, MayRecycle, Owed
<1>3. CASE Next
  BY <1>2, <1>3, ReserveInv, GrowInv, HandOutInv, ReleaseInv, CloseInv, ReapInv, Zenon DEF Next
<1> QED
  BY <1>1, <1>3

-----------------------------------------------------------------------------
LEMMA PoolInvariant ==
    ASSUME ~ StaleReleases
    PROVE  Spec => []IInv
<1>1. IInv /\ [Next]_vars => IInv'
  BY NextInv
<1> QED
  BY InitInv, <1>1, PTL DEF Spec

\* Documented invariant 1 of _pool.py: for every number of threads and every
\* size of the pool, _all is partitioned into the available slots and the lent
\* ones, if nobody recycles a client that is lent to somebody else.
\* Destroying such a client does no harm to it.
THEOREM LendingStateHolds ==
    ASSUME ~ StaleReleases
    PROVE  Spec => []LendingState
<1>1. IInv => LendingState
  BY Zenon DEF IInv, PoolInv
<1> QED
  BY <1>1, PoolInvariant, PTL

\* "A client can therefore never be lent twice": under the same condition, a
\* client in a caller's hands is neither available nor being health-checked,
\* and no two threads check one slot.
THEOREM NeverLentTwiceHolds ==
    ASSUME ~ StaleReleases
    PROVE  Spec => []NeverLentTwice
<1>1. IInv => NeverLentTwice
  BY PoolAssumption DEF IInv, PoolInv, OwnInv, NeverLentTwice, TypeOK
<1> QED
  BY <1>1, PoolInvariant, PTL
=============================================================================
