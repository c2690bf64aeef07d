------------------------ MODULE ConnectionPoolWakeups ------------------------
(***************************************************************************)
(* What ConnectionPool promises whatever its callers release: types, the   *)
(* bound on its size, an empty pool behind close(), and no lost wakeup.    *)
(***************************************************************************)
EXTENDS ConnectionPoolProofs

-----------------------------------------------------------------------------
\* The inductive invariant

\* The queue and _lent have no slot in common, and the queue has none twice.
Apart ==
    /\ Range(available) \cap lent = {}
    /\ IsInjective(available)

\* Who sleeps is in the condition's queue.
Sleepers == \A t \in Threads : pc[t] = "waiting" => t \in waiters

\* The running threads on their way through _reserve(), and the free capacity.
Awake == {t \in Threads \ waiters : pc[t] = "reserve"}

Free == MaxSize - Cardinality(all) - creating

Sleeping == \E t \in Threads : pc[t] = "waiting"

LimitInv ==
    /\ TypeOK /\ IsFiniteSet(all) /\ Apart /\ Booked
    /\ BoundedGrowth /\ ClosedIsEmpty

WakeInv == Queued /\ Sleepers /\ NoLostWakeup

-----------------------------------------------------------------------------
\* Counting

LEMMA Enough ==
    NoLostWakeup <=> (~ closed /\ Sleeping => Len(available) + Free <= Cardinality(Awake))
BY DEF NoLostWakeup, Free, Awake, Sleeping

LEMMA CountAwake ==
    /\ IsFiniteSet(Awake) /\ Cardinality(Awake) \in Nat
    /\ IsFiniteSet(Awake') /\ Cardinality(Awake') \in Nat
<1>1. Awake \subseteq Threads /\ Awake' \subseteq Threads
  BY DEF Awake
<1>2. IsFiniteSet(Awake) /\ IsFiniteSet(Awake')
  BY <1>1, PoolAssumption, FS_Subset
<1> QED
  BY <1>2, FS_CardinalityType

LEMMA CountGrowing == IsFiniteSet(Growing) /\ IsFiniteSet(Growing')
BY PoolAssumption, FS_Subset DEF Growing

LEMMA Numbers ==
    ASSUME LimitInv
    PROVE  Len(available) \in Nat /\ Cardinality(all) \in Nat /\ creating \in Nat /\ MaxSize \in Nat
BY FS_CardinalityType, LenProperties, PoolAssumption DEF LimitInv, TypeOK

-----------------------------------------------------------------------------
\* Types, bound, close()

LEMMA LimitInit == Init => LimitInv /\ WakeInv
<1> SUFFICES ASSUME Init PROVE LimitInv /\ WakeInv
  OBVIOUS
<1>1. IInv
  BY InitInv
<1>2. LimitInv
  BY <1>1 DEF IInv, PoolInv, LimitInv, Apart, LendingState
<1>3. WakeInv
  BY DEF Init, WakeInv, Queued, Sleepers, NoLostWakeup
<1> QED
  BY <1>2, <1>3

\* A step that adds no slot to the pool.
LEMMA NoGrowth ==
    ASSUME LimitInv, all' \subseteq all, TypeOK', creating' <= creating
    PROVE  IsFiniteSet(all') /\ BoundedGrowth'
<1>1. IsFiniteSet(all') /\ Cardinality(all') <= Cardinality(all)
  BY FS_Subset DEF LimitInv
<1>2. Cardinality(all') \in Nat
  BY <1>1, FS_CardinalityType
<1>3. Cardinality(all) + creating <= MaxSize /\ creating \in Nat /\ creating' \in Nat
  BY DEF LimitInv, BoundedGrowth, TypeOK
<1> QED
  BY <1>1, <1>2, <1>3, Numbers DEF BoundedGrowth

\* A thread moves, and nobody enters or leaves the factory.
LEMMA SameBooking ==
    ASSUME Booked, creating' = creating, Growing' = Growing
    PROVE  Booked'
BY DEF Booked

LEMMA LimitControl ==
    ASSUME LimitInv, UNCHANGED <<all, available, lent, creating, closed>>,
           client' \in [Slots -> Clients], held' \subseteq Clients, waiters' \subseteq Threads,
           pc' \in [Threads -> PCs], mine' \in [Threads -> Slots \cup {NoSlot}],
           expired' \in [Threads -> BOOLEAN], Growing' = Growing
    PROVE  LimitInv'
<1>1. TypeOK'
  BY DEF LimitInv, TypeOK
<1>2. IsFiniteSet(all') /\ Apart' /\ BoundedGrowth' /\ ClosedIsEmpty'
  BY DEF LimitInv, Apart, BoundedGrowth, ClosedIsEmpty
<1>3. Booked'
  BY SameBooking DEF LimitInv
<1> QED
  BY <1>1, <1>2, <1>3 DEF LimitInv

LEMMA LimitReserve ==
    ASSUME LimitInv, NEW t \in Threads, Acquire(t) \/ DeadlinePasses(t) \/ Reserve(t)
    PROVE  LimitInv'
<1>0. TypeOK /\ available \in Seq(Slots) /\ waiters \subseteq Threads
  BY DEF LimitInv, TypeOK
<1>1. ASSUME NEW p \in {"idle", "reserve", "waiting"}, pc' = Goto(t, p), pc[t] # "growing",
             UNCHANGED <<pool, held, mine>>, waiters' \subseteq waiters \cup {t},
             expired' \in [Threads -> BOOLEAN]
      PROVE  LimitInv'
  <2>1. Moves(t, p) /\ p # "growing"
    BY <1>0, <1>1, GotoMoves DEF PCs
  <2>2. pc' \in [Threads -> PCs] /\ Growing' = Growing
    BY <1>1, <2>1 DEF Moves, Growing
  <2>3. /\ UNCHANGED <<all, available, lent, creating, closed>>
        /\ client' \in [Slots -> Clients] /\ held' \subseteq Clients /\ waiters' \subseteq Threads
        /\ mine' \in [Threads -> Slots \cup {NoSlot}]
    BY <1>0, <1>1 DEF TypeOK, pool
  <2> QED
    BY <1>1, <2>2, <2>3, LimitControl, Zenon
<1>2. CASE Acquire(t)
  BY <1>0, <1>1, <1>2 DEF Acquire, TypeOK
<1>3. CASE DeadlinePasses(t)
  BY <1>0, <1>1, <1>3 DEF DeadlinePasses, TypeOK
<1>4. CASE ReserveClosed(t)
  BY <1>0, <1>1, <1>4 DEF ReserveClosed, TypeOK
<1>5. CASE ReserveBusy(t)
  <2>1. CASE expired[t]
    BY <1>0, <1>1, <1>5, <2>1, Zenon DEF ReserveBusy, TypeOK
  <2>2. CASE ~ expired[t]
    BY <1>0, <1>1, <1>5, <2>2, Zenon DEF ReserveBusy, TypeOK
  <2> QED
    BY <2>1, <2>2
<1>6. CASE ReserveSlot(t)
  <2>1. /\ pc[t] = "reserve" /\ ~ closed /\ available # <<>> /\ IsInjective(available)
        /\ available' = Tail(available) /\ lent' = lent \cup {Head(available)}
        /\ mine' = [mine EXCEPT ![t] = Head(available)] /\ waiters' \subseteq waiters
        /\ UNCHANGED <<all, creating, closed, client, held, expired>>
        /\ Range(available) \cap lent = {}
    BY <1>6 DEF ReserveSlot, LimitInv, Apart
  <2>2. Moves(t, "checking")
    BY <1>0, <1>6, GotoMoves DEF ReserveSlot, PCs
  <2>3. /\ Tail(available) \in Seq(Slots) /\ Head(available) \in Range(available)
        /\ Range(Tail(available)) = Range(available) \ {Head(available)}
        /\ IsInjective(Tail(available))
    BY <1>0, <2>1, TailQueue
  <2>4. Head(available) \in Slots
    BY <1>0, <2>3, QueueDomain, Zenon
  <2>5. TypeOK'
    BY <1>0, <2>1, <2>2, <2>3, <2>4, ZenonT(60) DEF TypeOK, Moves
  <2>6. Apart'
    BY <2>1, <2>3 DEF Apart
  <2>7. Growing' = Growing
    BY <2>1, <2>2 DEF Moves, Growing
  <2>8. Booked' /\ IsFiniteSet(all') /\ BoundedGrowth' /\ ClosedIsEmpty'
    BY <2>1, <2>7, SameBooking DEF LimitInv, BoundedGrowth, ClosedIsEmpty
  <2> QED
    BY <2>5, <2>6, <2>8 DEF LimitInv
<1>7. CASE ReserveGrowth(t)
  <2>1. /\ pc[t] = "reserve" /\ Cardinality(all) + creating < MaxSize /\ creating' = creating + 1
        /\ UNCHANGED <<all, available, lent, closed, client, held, mine, expired>>
        /\ waiters' \subseteq waiters
    BY <1>7 DEF ReserveGrowth, CanGrow
  <2>2. Moves(t, "growing")
    BY <1>0, <1>7, GotoMoves, Zenon DEF ReserveGrowth, PCs
  <2>3. TypeOK'
    BY <1>0, <2>1, <2>2 DEF TypeOK, Moves
  <2>4. Growing' = Growing \cup {t} /\ t \notin Growing
    BY <2>1, <2>2 DEF Moves, Growing
  <2>5. Booked'
    BY <2>1, <2>4, CountGrowing, FS_AddElement, Zenon DEF LimitInv, Booked
  <2>6. BoundedGrowth'
    BY <2>1, Numbers DEF BoundedGrowth
  <2>7. IsFiniteSet(all') /\ Apart' /\ ClosedIsEmpty'
    BY <2>1 DEF LimitInv, Apart, ClosedIsEmpty
  <2> QED
    BY <2>3, <2>5, <2>6, <2>7 DEF LimitInv
<1> QED
  BY <1>2, <1>3, <1>4, <1>5, <1>6, <1>7, Zenon DEF Reserve

LEMMA LimitGrow ==
    ASSUME LimitInv, NEW t \in Threads, Grow(t)
    PROVE  LimitInv'
<1>0. TypeOK /\ Booked /\ creating \in Nat
  BY DEF LimitInv, TypeOK
<1>1. pc[t] = "growing" /\ creating' = creating - 1 /\ UNCHANGED <<available, closed, mine, expired>>
  BY DEF Grow, GrowOk, GrowFails
<1>2. Moves(t, "idle") /\ waiters' \subseteq waiters
  <2>1. CASE GrowFails(t)
    BY <1>0, <2>1, NotifyAllMoves, Zenon DEF GrowFails, PCs
  <2>2. CASE \E s \in FreshSlots, c \in FreshClients : GrowOk(t, s, c)
    BY <1>0, <2>2, GotoMoves DEF GrowOk, PCs
  <2> QED
    BY <2>1, <2>2 DEF Grow
<1>3. Booked' /\ creating' \in Nat
  <2>1. Growing' = Growing \ {t} /\ t \in Growing
    BY <1>1, <1>2 DEF Moves, Growing
  <2>2. Cardinality(Growing') = Cardinality(Growing) - 1
    BY <2>1, CountGrowing, FS_RemoveElement, Zenon
  <2>3. Cardinality(Growing') \in Nat
    BY CountGrowing, FS_CardinalityType
  <2> QED
    BY <1>0, <1>1, <2>2, <2>3, Zenon DEF Booked
<1>4. CASE GrowFails(t)
  <2>1. UNCHANGED <<all, lent, client, held>>
    BY <1>4 DEF GrowFails
  <2>2. TypeOK'
    BY <1>0, <1>1, <1>2, <1>3, <2>1, Zenon DEF TypeOK, Moves
  <2>3. IsFiniteSet(all') /\ BoundedGrowth'
    BY <1>0, <1>1, <2>1, <2>2, NoGrowth, SMTT(60)
  <2>4. Apart' /\ ClosedIsEmpty'
    BY <1>1, <2>1 DEF LimitInv, Apart, ClosedIsEmpty
  <2> QED
    BY <1>3, <2>2, <2>3, <2>4, Zenon DEF LimitInv
<1>5. ASSUME NEW s \in FreshSlots, NEW c \in FreshClients, GrowOk(t, s, c)
      PROVE  LimitInv'
  <2>1. /\ s \in Slots /\ s \notin all /\ s \notin Range(available) /\ c \in Clients
        /\ ~ closed /\ all' = all \cup {s} /\ lent' = lent \cup {s}
        /\ client' = [client EXCEPT ![s] = c] /\ held' = held \cup {c}
    BY <1>5 DEF FreshSlots, FreshClients, GrowOk
  <2>2. TypeOK'
    BY <1>0, <1>1, <1>2, <1>3, <2>1, Zenon DEF TypeOK, Moves
  <2>3. IsFiniteSet(all') /\ Cardinality(all') = Cardinality(all) + 1
    BY <2>1, FS_AddElement DEF LimitInv
  <2>4. BoundedGrowth'
    BY <1>1, <2>3, Numbers, SMTT(60) DEF LimitInv, BoundedGrowth
  <2>5. Apart' /\ ClosedIsEmpty'
    BY <1>1, <2>1 DEF LimitInv, Apart, ClosedIsEmpty
  <2> QED
    BY <1>3, <2>2, <2>3, <2>4, <2>5, Zenon DEF LimitInv
<1> QED
  BY <1>4, <1>5 DEF Grow

LEMMA LimitHandOut ==
    ASSUME LimitInv, NEW t \in Threads, HandOut(t)
    PROVE  LimitInv'
<1>0. TypeOK
  BY DEF LimitInv
<1>1. pc[t] \in {"checking", "replacing"} /\ UNCHANGED <<available, creating, closed, expired>>
  BY DEF HandOut, CheckOk, PingFails, SlotGone, DropSlot, ReplaceOk, pool
<1>2. PICK p \in {"idle", "replacing"} : Moves(t, p)
  <2>1. CASE DropSlot(t)
    BY <1>0, <2>1, NotifyAllMoves, Zenon DEF DropSlot, PCs
  <2>2. CASE CheckOk(t) \/ PingFails(t) \/ SlotGone(t) \/ \E c \in FreshClients : ReplaceOk(t, c)
    BY <1>0, <2>2, GotoMoves, Zenon DEF CheckOk, PingFails, SlotGone, ReplaceOk, PCs
  <2> QED
    BY <2>1, <2>2, Zenon DEF HandOut
<1>3. pc' \in [Threads -> PCs] /\ Growing' = Growing
  BY <1>1, <1>2, Zenon DEF Moves, Growing
<1>4. waiters' \subseteq Threads
  BY <1>0 DEF HandOut, CheckOk, PingFails, SlotGone, DropSlot, ReplaceOk, NotifyAll, TypeOK
<1>5. mine' \in [Threads -> Slots \cup {NoSlot}]
  BY <1>0 DEF HandOut, CheckOk, PingFails, SlotGone, DropSlot, ReplaceOk, Leave, TypeOK
<1>6. expired' \in [Threads -> BOOLEAN]
  BY <1>0, <1>1 DEF TypeOK
<1>7. CASE DropSlot(t)
  <2>1. lent' = lent \ {mine[t]} /\ all' = all \ {mine[t]} /\ UNCHANGED <<client, held>>
    BY <1>7 DEF DropSlot
  <2>2. TypeOK'
    BY <1>0, <1>1, <1>3, <1>4, <1>5, <1>6, <2>1, Zenon DEF TypeOK
  <2>3. IsFiniteSet(all') /\ BoundedGrowth'
    <3>1. creating' <= creating
      BY <1>0, <1>1, SMTT(60) DEF TypeOK
    <3> QED
      BY <2>1, <2>2, <3>1, NoGrowth, Zenon
  <2>4. Apart' /\ ClosedIsEmpty'
    BY <1>1, <2>1 DEF LimitInv, Apart, ClosedIsEmpty
  <2>5. Booked'
    BY <1>1, <1>3, SameBooking, Zenon DEF LimitInv
  <2> QED
    BY <2>2, <2>3, <2>4, <2>5, Zenon DEF LimitInv
<1>8. CASE PingFails(t) \/ SlotGone(t)
  <2>1. UNCHANGED <<all, lent, client, held>>
    BY <1>8 DEF PingFails, SlotGone, pool
  <2>2. client' \in [Slots -> Clients] /\ held' \subseteq Clients
    BY <1>0, <2>1, Zenon DEF TypeOK
  <2> QED
    BY <1>1, <1>3, <1>4, <1>5, <1>6, <2>1, <2>2, LimitControl, SMTT(60)
<1>9. CASE CheckOk(t)
  <2>1. UNCHANGED <<all, lent, client>> /\ mine[t] \in lent /\ held' = held \cup {client[mine[t]]}
    BY <1>9 DEF CheckOk, StillLent, pool
  <2>2. client' \in [Slots -> Clients] /\ held' \subseteq Clients
    BY <1>0, <2>1, Zenon DEF TypeOK
  <2> QED
    BY <1>1, <1>3, <1>4, <1>5, <1>6, <2>1, <2>2, LimitControl, SMTT(60)
<1>10. ASSUME NEW c \in FreshClients, ReplaceOk(t, c) PROVE LimitInv'
  <2>1. /\ UNCHANGED <<all, lent>> /\ c \in Clients /\ held' = held \cup {c}
        /\ client' = [client EXCEPT ![mine[t]] = c]
    BY <1>10 DEF ReplaceOk, FreshClients
  <2>2. client' \in [Slots -> Clients] /\ held' \subseteq Clients
    BY <1>0, <2>1, ZenonT(60) DEF TypeOK
  <2> QED
    BY <1>1, <1>3, <1>4, <1>5, <1>6, <2>1, <2>2, LimitControl, Zenon
<1> QED
  BY <1>7, <1>8, <1>9, <1>10, Zenon DEF HandOut

\* A step that takes slots out of the pool.
LEMMA LimitShrink ==
    ASSUME LimitInv, all' \subseteq all, lent' \subseteq lent, available' \in Seq(Slots),
           Range(available') \subseteq Range(available), IsInjective(available'),
           NotifyAll(pc), held' \subseteq held, closed' \in BOOLEAN, ClosedIsEmpty',
           UNCHANGED <<creating, client, mine, expired>>
    PROVE  LimitInv'
<1>0. TypeOK
  BY DEF LimitInv
<1>1. pc' \in [Threads -> PCs] /\ Growing' = Growing /\ waiters' = {}
  BY <1>0 DEF NotifyAll, TypeOK, PCs, Growing
<1>2. TypeOK'
  BY <1>0, <1>1 DEF TypeOK
<1>3. IsFiniteSet(all') /\ BoundedGrowth'
  <2>1. creating' <= creating
    BY <1>0 DEF TypeOK
  <2> QED
    BY <1>2, <2>1, NoGrowth
<1>4. Apart'
  BY DEF LimitInv, Apart
<1>5. Booked'
  BY <1>1, SameBooking DEF LimitInv
<1> QED
  BY <1>2, <1>3, <1>4, <1>5 DEF LimitInv

LEMMA LimitRelease ==
    ASSUME LimitInv, Queued, NEW c \in Clients, Recycle(c) \/ Destroy(c)
    PROVE  LimitInv'
<1>0. TypeOK /\ available \in Seq(Slots) /\ IsInjective(available) /\ ClosedIsEmpty
  BY DEF LimitInv, TypeOK, Apart
<1>1. held' \subseteq Clients /\ held' \subseteq held /\ UNCHANGED <<creating, closed, client, mine, expired>>
  BY <1>0 DEF Recycle, Destroy, TypeOK
<1>2. ASSUME UNCHANGED <<all, available, lent, pc, waiters>> PROVE LimitInv'
  <2>1. Growing' = Growing
    BY <1>2 DEF Growing
  <2>2. /\ client' \in [Slots -> Clients] /\ waiters' \subseteq Threads
        /\ pc' \in [Threads -> PCs] /\ mine' \in [Threads -> Slots \cup {NoSlot}]
        /\ expired' \in [Threads -> BOOLEAN]
    BY <1>0, <1>1, <1>2, Zenon DEF TypeOK
  <2> QED
    BY <1>1, <1>2, <2>1, <2>2, LimitControl, Zenon
<1>3. ASSUME NEW s \in SlotsOf(c) \cap lent, lent' = lent \ {s}, all' = all,
             available' = Append(available, s), Notify
      PROVE  LimitInv'
  <2>1. s \in all /\ s \in lent /\ s \in Slots /\ s \notin Range(available)
    BY <1>0, <1>3 DEF SlotsOf, TypeOK, LimitInv, Apart
  <2>2. /\ available' \in Seq(Slots) /\ Range(available') = Range(available) \cup {s}
        /\ IsInjective(available')
    BY <1>0, <1>3, <2>1, AppendQueue, SMTT(60)
  <2>3. ~ closed
    BY <1>0, <2>1 DEF ClosedIsEmpty
  <2>4. Wakes /\ waiters' \subseteq waiters
    BY <1>0, <1>3, NotifyWakes, Zenon
  <2>5. pc' \in [Threads -> PCs] /\ Growing' = Growing
    BY <2>4 DEF Wakes, Growing
  <2>6. TypeOK'
    BY <1>0, <1>1, <1>3, <2>2, <2>4, <2>5, Zenon DEF TypeOK
  <2>7. Apart'
    BY <1>3, <2>1, <2>2, Zenon DEF LimitInv, Apart
  <2>8. Booked' /\ IsFiniteSet(all') /\ BoundedGrowth' /\ ClosedIsEmpty'
    BY <1>1, <1>3, <2>3, <2>5, SameBooking, Zenon DEF LimitInv, BoundedGrowth, ClosedIsEmpty
  <2> QED
    BY <2>6, <2>7, <2>8, Zenon DEF LimitInv
<1>4. ASSUME NEW s \in SlotsOf(c), lent' = lent \ {s}, available' = RemoveFirst(available, s),
             all' = all \ {s}, NotifyAll(pc)
      PROVE  LimitInv'
  <2>1. /\ available' \in Seq(Slots) /\ Range(available') = Range(available) \ {s}
        /\ IsInjective(available')
    BY <1>0, <1>4, RemoveQueue, Zenon
  <2>2. ~ closed' /\ closed' \in BOOLEAN
    BY <1>0, <1>1, <1>4, Zenon DEF SlotsOf, ClosedIsEmpty, TypeOK
  <2>3. all' \subseteq all /\ lent' \subseteq lent /\ Range(available') \subseteq Range(available)
    BY <1>4, <2>1
  <2>4. ClosedIsEmpty'
    BY <2>2 DEF ClosedIsEmpty
  <2> QED
    BY <1>1, <1>4, <2>1, <2>2, <2>3, <2>4, LimitShrink, Zenon
<1>5. CASE Recycle(c)
  BY <1>2, <1>3, <1>5, Zenon DEF Recycle
<1>6. CASE Destroy(c)
  BY <1>2, <1>4, <1>6, Zenon DEF Destroy
<1> QED
  BY <1>5, <1>6

LEMMA LimitClose ==
    ASSUME LimitInv, Close
    PROVE  LimitInv'
<1>1. /\ all' = {} /\ available' = <<>> /\ lent' = {} /\ closed' = TRUE /\ NotifyAll(pc)
      /\ UNCHANGED <<creating, client, held, mine, expired>>
  BY DEF Close
<1>2. available' \in Seq(Slots) /\ Range(available') = {} /\ IsInjective(available')
  <2>1. /\ <<>> \in Seq(Slots) /\ DOMAIN <<>> = {}
        /\ Range(<<>>) = {} /\ IsInjective(<<>>)
    BY DEF Range, IsInjective
  <2> QED
    BY <1>1, <2>1
<1>3. ClosedIsEmpty'
  BY <1>1 DEF ClosedIsEmpty
<1> QED
  BY <1>1, <1>2, <1>3, LimitShrink, Zenon

LEMMA LimitReap ==
    ASSUME LimitInv, NEW k \in 1 .. MaxSize, Reap(k)
    PROVE  LimitInv'
<1>0. available \in Seq(Slots) /\ IsInjective(available) /\ Len(available) \in Nat
  BY LenProperties DEF LimitInv, TypeOK, Apart
<1>1. k \in 0 .. Len(available)
  BY <1>0, PoolAssumption, SMTT(60) DEF Reap
<1>2. /\ available' \in Seq(Slots) /\ IsInjective(available')
      /\ Range(available') = Range(available) \ {available[i] : i \in 1 .. k}
  BY <1>0, <1>1, SuffixQueue, ZenonT(60) DEF Reap
<1>3. /\ all' \subseteq all /\ lent' = lent /\ held' = held /\ NotifyAll(pc) /\ ~ closed'
      /\ closed' \in BOOLEAN /\ UNCHANGED <<creating, client, mine, expired>>
  BY DEF Reap, LimitInv, TypeOK
<1>4. ClosedIsEmpty'
  BY <1>3 DEF ClosedIsEmpty
<1> QED
  BY <1>2, <1>3, <1>4, LimitShrink, Zenon

-----------------------------------------------------------------------------
\* Wakeups

\* Behind a notify_all() nobody sleeps.
LEMMA AllWoken ==
    ASSUME Sleepers, NEW p, NotifyAll(p),
           \A u \in Threads : p[u] = "waiting" => pc[u] = "waiting"
    PROVE  WakeInv'
<1>1. \A u \in Threads : pc'[u] # "waiting"
  BY DEF NotifyAll, Sleepers
<1> QED
  BY <1>1 DEF WakeInv, Queued, Sleepers, NoLostWakeup, NotifyAll

\* A step in which no slot or capacity becomes free and no running thread
\* leaves _reserve().
LEMMA NothingFreed ==
    ASSUME LimitInv, LimitInv', WakeInv, Sleeping' => Sleeping, closed' = closed,
           Awake \subseteq Awake', Len(available') + Free' <= Len(available) + Free
    PROVE  NoLostWakeup'
<1>1. Cardinality(Awake) <= Cardinality(Awake')
  BY CountAwake, FS_Subset
<1>2. Len(available) \in Nat /\ Len(available') \in Nat /\ Free \in Int /\ Free' \in Int
  <2>1. /\ Len(available) \in Nat /\ Cardinality(all) \in Nat /\ creating \in Nat /\ MaxSize \in Nat
    BY Numbers
  <2>2. /\ Len(available') \in Nat /\ Cardinality(all') \in Nat /\ creating' \in Nat
    BY FS_CardinalityType, LenProperties DEF LimitInv, TypeOK
  <2> QED
    BY <2>1, <2>2 DEF Free
<1>3. ~ closed /\ Sleeping => Len(available) + Free <= Cardinality(Awake)
  BY Enough DEF WakeInv
<1>4. ~ closed' /\ Sleeping' => Len(available') + Free' <= Cardinality(Awake')
  BY <1>1, <1>2, <1>3, CountAwake, SMTT(60)
<1> QED
  BY <1>4 DEF NoLostWakeup, Free, Awake, Sleeping

\* A thread takes a slot or a unit of capacity.
LEMMA OneTaken ==
    ASSUME LimitInv, LimitInv', WakeInv, NEW t, Sleeping' => Sleeping, closed' = closed,
           Awake \ {t} \subseteq Awake', Len(available') + Free' = Len(available) + Free - 1
    PROVE  NoLostWakeup'
<1>1. Cardinality(Awake) - 1 <= Cardinality(Awake')
  <2>1. IsFiniteSet(Awake \ {t}) /\ Cardinality(Awake \ {t}) >= Cardinality(Awake) - 1
    <3>1. PICK A : A = Awake
      OBVIOUS
    <3>2. IsFiniteSet(A) /\ Cardinality(A) \in Nat
      BY <3>1, CountAwake
    <3>3. /\ IsFiniteSet(A \ {t})
          /\ Cardinality(A \ {t}) = IF t \in A THEN Cardinality(A) - 1 ELSE Cardinality(A)
      BY <3>2, FS_RemoveElement
    <3>4. Cardinality(A \ {t}) >= Cardinality(A) - 1
      BY <3>2, <3>3
    <3> QED
      BY <3>1, <3>3, <3>4, Zenon
  <2>2. Cardinality(Awake \ {t}) <= Cardinality(Awake')
    <3>1. Awake \ {t} \in SUBSET Awake' /\ IsFiniteSet(Awake')
      BY CountAwake
    <3> QED
      BY <3>1, FS_Subset
  <2>3. Cardinality(Awake \ {t}) \in Nat
    BY <2>1, FS_CardinalityType
  <2> QED
    BY <2>1, <2>2, <2>3, CountAwake, SMTT(60)
<1>2. Len(available) \in Nat /\ Len(available') \in Nat /\ Free \in Int /\ Free' \in Int
  <2>1. /\ Len(available) \in Nat /\ Cardinality(all) \in Nat /\ creating \in Nat /\ MaxSize \in Nat
    BY Numbers
  <2>2. /\ Len(available') \in Nat /\ Cardinality(all') \in Nat /\ creating' \in Nat
    BY FS_CardinalityType, LenProperties DEF LimitInv, TypeOK
  <2> QED
    BY <2>1, <2>2, SMTT(60) DEF Free
<1>3. ~ closed /\ Sleeping => Len(available) + Free <= Cardinality(Awake)
  BY Enough DEF WakeInv
<1>4. ~ closed' /\ Sleeping' => Len(available') + Free' <= Cardinality(Awake')
  BY <1>1, <1>2, <1>3, CountAwake, SMTT(60)
<1> QED
  BY <1>4 DEF NoLostWakeup, Free, Awake, Sleeping

LEMMA WakeReserve ==
    ASSUME LimitInv, LimitInv', WakeInv, NEW t \in Threads,
           Acquire(t) \/ DeadlinePasses(t) \/ Reserve(t)
    PROVE  WakeInv'
<1>0. TypeOK /\ Queued /\ Sleepers
  BY DEF LimitInv, WakeInv
<1>1. CASE Acquire(t) \/ DeadlinePasses(t)
  <2>1. /\ pc[t] \in {"idle", "reserve", "waiting"} /\ pc' = Goto(t, "reserve")
        /\ UNCHANGED <<all, available, creating, closed, waiters>>
    BY <1>1 DEF Acquire, DeadlinePasses, pool
  <2>2. \A u \in Threads : pc'[u] = IF u = t THEN "reserve" ELSE pc[u]
    BY <1>0, <2>1, Zenon DEF Goto, TypeOK
  <2>3. Queued' /\ Sleepers'
    BY <1>0, <2>1, <2>2, Zenon DEF Queued, Sleepers, TypeOK
  <2>4. Awake \subseteq Awake' /\ (Sleeping' => Sleeping)
    BY <2>1, <2>2 DEF Awake, Sleeping
  <2>5. Len(available') + Free' <= Len(available) + Free
    <3>1. Free \in Int /\ Len(available) \in Nat /\ Free' = Free
      BY <2>1, Numbers, SMTT(60) DEF Free
    <3> QED
      BY <2>1, <3>1
  <2> QED
    BY <2>1, <2>3, <2>4, <2>5, NothingFreed, Zenon DEF WakeInv
<1>2. CASE ReserveClosed(t)
  <2>1. /\ closed' /\ pc[t] = "reserve" /\ pc' = Goto(t, "idle") /\ waiters' = waiters \ {t}
    BY <1>2 DEF ReserveClosed, pool
  <2>2. \A u \in Threads : pc'[u] = IF u = t THEN "idle" ELSE pc[u]
    BY <1>0, <2>1 DEF Goto, TypeOK
  <2> QED
    BY <1>0, <2>1, <2>2, Zenon DEF WakeInv, Queued, Sleepers, NoLostWakeup, TypeOK
<1>3. CASE ReserveBusy(t)
  <2>1. /\ available = <<>> /\ ~ (Cardinality(all) + creating < MaxSize) /\ pc[t] = "reserve"
        /\ UNCHANGED <<all, available, creating, closed>>
        /\ \/ pc' = Goto(t, "idle") /\ waiters' = waiters \ {t}
           \/ pc' = Goto(t, "waiting") /\ waiters' = waiters \cup {t}
    BY <1>3 DEF ReserveBusy, CanGrow, pool
  <2>2. Queued' /\ Sleepers'
    BY <1>0, <2>1 DEF Queued, Sleepers, TypeOK, Goto
  <2>3. Len(available') + Free' <= 0
    BY <2>1, Numbers, EmptySeq, SMTT(60) DEF Free
  <2>4. NoLostWakeup'
    <3>1. Len(available') + Free' <= Cardinality(Awake')
      <4>1. Len(available') \in Nat /\ Free' \in Int
        BY <2>1, Numbers DEF Free
      <4> QED
        BY <2>3, <4>1, CountAwake, SMTT(60)
    <3> QED
      BY <3>1 DEF NoLostWakeup, Free, Awake
  <2> QED
    BY <2>2, <2>4, Zenon DEF WakeInv
<1>4. CASE ReserveSlot(t) \/ ReserveGrowth(t)
  <2>1. PICK p \in {"checking", "growing"} : pc' = Goto(t, p)
    BY <1>4 DEF ReserveSlot, ReserveGrowth
  <2>2. pc[t] = "reserve" /\ waiters' = waiters \ {t} /\ closed' = closed
    BY <1>4 DEF ReserveSlot, ReserveGrowth
  <2>3. \A u \in Threads : pc'[u] = IF u = t THEN p ELSE pc[u]
    BY <1>0, <2>1, Zenon DEF Goto, TypeOK
  <2>4. Queued' /\ Sleepers'
    BY <1>0, <2>1, <2>2, <2>3, Zenon DEF Queued, Sleepers, TypeOK
  <2>5. Awake \ {t} \subseteq Awake' /\ (Sleeping' => Sleeping)
    BY <2>1, <2>2, <2>3, Zenon DEF Awake, Sleeping
  <2>6. Len(available') + Free' = Len(available) + Free - 1
    <3>0. Len(available) \in Nat /\ Cardinality(all) \in Nat /\ creating \in Nat /\ MaxSize \in Nat
      BY Numbers
    <3>1. CASE ReserveGrowth(t)
      <4>1. available' = available /\ all' = all /\ creating' = creating + 1
        BY <3>1 DEF ReserveGrowth
      <4> QED
        BY <3>0, <4>1, SMTT(60) DEF Free
    <3>2. CASE ReserveSlot(t)
      <4>1. available' = Tail(available) /\ available # <<>> /\ all' = all /\ creating' = creating
        BY <3>2 DEF ReserveSlot
      <4>2. Len(available') = Len(available) - 1
        BY <4>1, TailQueue, Zenon DEF LimitInv, TypeOK, Apart
      <4>3. Free' = Free /\ Free \in Int
        BY <3>0, <4>1 DEF Free
      <4> QED
        BY <3>0, <4>2, <4>3, SMTT(60)
    <3> QED
      BY <1>4, <3>1, <3>2, Zenon
  <2> QED
    BY <2>2, <2>4, <2>5, <2>6, OneTaken, Zenon DEF WakeInv
<1> QED
  BY <1>1, <1>2, <1>3, <1>4, Zenon DEF Reserve

LEMMA WakeGrow ==
    ASSUME LimitInv, LimitInv', WakeInv, NEW t \in Threads, Grow(t)
    PROVE  WakeInv'
<1>0. TypeOK /\ Queued /\ Sleepers
  BY DEF LimitInv, WakeInv
<1>1. CASE GrowFails(t)
  <2>1. NotifyAll(Goto(t, "idle"))
    BY <1>1 DEF GrowFails
  <2>2. \A u \in Threads : Goto(t, "idle")[u] = "waiting" => pc[u] = "waiting"
    BY <1>0 DEF Goto, TypeOK
  <2> QED
    BY <1>0, <2>1, <2>2, AllWoken, Zenon
<1>2. ASSUME NEW s \in FreshSlots, NEW c \in FreshClients, GrowOk(t, s, c)
      PROVE  WakeInv'
  <2>1. /\ pc[t] = "growing" /\ pc' = Goto(t, "idle") /\ creating' = creating - 1
        /\ all' = all \cup {s} /\ s \notin all /\ UNCHANGED <<available, closed, waiters>>
    BY <1>2 DEF GrowOk, FreshSlots
  <2>2. \A u \in Threads : pc'[u] = IF u = t THEN "idle" ELSE pc[u]
    BY <1>0, <2>1, Zenon DEF Goto, TypeOK
  <2>3. Queued' /\ Sleepers'
    BY <1>0, <2>1, <2>2, Zenon DEF Queued, Sleepers, TypeOK
  <2>4. Awake \subseteq Awake' /\ (Sleeping' => Sleeping)
    BY <2>1, <2>2, Zenon DEF Awake, Sleeping
  <2>5. Len(available') + Free' <= Len(available) + Free
    <3>1. Cardinality(all') = Cardinality(all) + 1
      BY <2>1, FS_AddElement DEF LimitInv
    <3> QED
      BY <2>1, <3>1, Numbers, SMTT(60) DEF Free
  <2> QED
    BY <2>1, <2>3, <2>4, <2>5, NothingFreed, Zenon DEF WakeInv
<1> QED
  BY <1>1, <1>2 DEF Grow

LEMMA WakeHandOut ==
    ASSUME LimitInv, LimitInv', WakeInv, NEW t \in Threads, HandOut(t)
    PROVE  WakeInv'
<1>0. TypeOK /\ Queued /\ Sleepers
  BY Zenon DEF LimitInv, WakeInv
<1>1. CASE DropSlot(t)
  <2>1. NotifyAll(Goto(t, "idle"))
    BY <1>1, Zenon DEF DropSlot
  <2>2. \A u \in Threads : Goto(t, "idle")[u] = "waiting" => pc[u] = "waiting"
    BY <1>0, Zenon DEF Goto, TypeOK
  <2> QED
    BY <1>0, <2>1, <2>2, AllWoken, SMTT(60)
<1>2. CASE CheckOk(t) \/ PingFails(t) \/ SlotGone(t) \/ \E c \in FreshClients : ReplaceOk(t, c)
  <2>1. PICK p \in {"idle", "replacing"} : pc' = Goto(t, p)
    BY <1>2, Zenon DEF CheckOk, PingFails, SlotGone, ReplaceOk
  <2>2. pc[t] \in {"checking", "replacing"} /\ UNCHANGED <<all, available, creating, closed, waiters>>
    BY <1>2 DEF CheckOk, PingFails, SlotGone, ReplaceOk, pool
  <2>3. \A u \in Threads : pc'[u] = IF u = t THEN p ELSE pc[u]
    BY <1>0, <2>1, Zenon DEF Goto, TypeOK
  <2>4. Queued' /\ Sleepers'
    BY <1>0, <2>1, <2>2, <2>3, Zenon DEF Queued, Sleepers, TypeOK
  <2>5. Awake \subseteq Awake' /\ (Sleeping' => Sleeping)
    BY <2>1, <2>2, <2>3, Zenon DEF Awake, Sleeping
  <2>6. Len(available') + Free' <= Len(available) + Free
    <3>1. Free \in Int /\ Len(available) \in Nat /\ Free' = Free
      BY <2>2, Numbers, SMTT(60) DEF Free
    <3> QED
      BY <2>2, <3>1, SMTT(60)
  <2> QED
    BY <2>2, <2>4, <2>5, <2>6, NothingFreed, Zenon DEF WakeInv
<1> QED
  BY <1>1, <1>2, Zenon DEF HandOut

\* A slot comes back and one sleeper is woken for it.
LEMMA OneWoken ==
    ASSUME LimitInv, LimitInv', WakeInv, NEW w \in waiters, closed' = closed, Sleeping' => Sleeping,
           Awake \cup {w} \subseteq Awake', Len(available') + Free' = Len(available) + Free + 1
    PROVE  NoLostWakeup'
<1>1. Cardinality(Awake) + 1 <= Cardinality(Awake')
  <2>1. PICK A : A = Awake
    OBVIOUS
  <2>2. IsFiniteSet(A) /\ Cardinality(A) \in Nat /\ w \notin A
    BY <2>1, CountAwake, Zenon DEF Awake
  <2>3. Cardinality(A \cup {w}) = Cardinality(A) + 1
    BY <2>2, FS_AddElement, Zenon
  <2>4. A \cup {w} \in SUBSET Awake' /\ IsFiniteSet(Awake')
    BY <2>1, CountAwake, Zenon
  <2>5. Cardinality(A \cup {w}) <= Cardinality(Awake')
    BY <2>4, FS_Subset, Zenon
  <2> QED
    BY <2>1, <2>3, <2>5, Zenon
<1>2. Len(available) \in Nat /\ Len(available') \in Nat /\ Free \in Int /\ Free' \in Int
  <2>1. /\ Len(available) \in Nat /\ Cardinality(all) \in Nat /\ creating \in Nat /\ MaxSize \in Nat
    BY Numbers
  <2>2. /\ Len(available') \in Nat /\ Cardinality(all') \in Nat /\ creating' \in Nat
    BY FS_CardinalityType, LenProperties, Zenon DEF LimitInv, TypeOK
  <2> QED
    BY <2>1, <2>2, SMTT(60) DEF Free
<1>3. ~ closed /\ Sleeping => Len(available) + Free <= Cardinality(Awake)
  BY Enough DEF WakeInv
<1>4. ~ closed' /\ Sleeping' => Len(available') + Free' <= Cardinality(Awake')
  BY <1>1, <1>2, <1>3, CountAwake, SMTT(60)
<1> QED
  BY <1>4 DEF NoLostWakeup, Free, Awake, Sleeping

LEMMA WakeRelease ==
    ASSUME LimitInv, LimitInv', WakeInv, NEW c \in Clients, Recycle(c) \/ Destroy(c)
    PROVE  WakeInv'
<1>0. TypeOK /\ Queued /\ Sleepers
  BY DEF LimitInv, WakeInv
<1>1. ASSUME UNCHANGED <<all, available, creating, closed, pc, waiters>> PROVE WakeInv'
  BY <1>1 DEF WakeInv, Queued, Sleepers, NoLostWakeup
<1>2. ASSUME NotifyAll(pc) PROVE WakeInv'
  BY <1>0, <1>2, AllWoken, Zenon
<1>3. ASSUME NEW s \in lent, all' = all, creating' = creating, closed' = closed,
             available' = Append(available, s), Notify
      PROVE  WakeInv'
  <2>1. CASE waiters = {} /\ UNCHANGED <<pc, waiters>>
    BY <1>0, <2>1, Zenon DEF WakeInv, Queued, Sleepers, NoLostWakeup
  <2>2. ASSUME NEW w \in waiters, waiters' = waiters \ {w}, pc' = Goto(w, "reserve")
        PROVE  WakeInv'
    <3>1. \A u \in Threads : pc'[u] = IF u = w THEN "reserve" ELSE pc[u]
      BY <1>0, <2>2, Zenon DEF Goto, TypeOK
    <3>2. w \in Threads /\ pc[w] \in {"waiting", "reserve"}
      BY <1>0 DEF TypeOK, Queued
    <3>3. Queued' /\ Sleepers'
      BY <1>0, <2>2, <3>1, <3>2, Zenon DEF Queued, Sleepers, TypeOK
    <3>4. Awake \cup {w} \subseteq Awake' /\ (Sleeping' => Sleeping)
      BY <2>2, <3>1, <3>2, Zenon DEF Awake, Sleeping
    <3>5. Len(available') = Len(available) + 1
      BY <1>0, <1>3, AppendProperties, SMTT(60) DEF TypeOK
    <3>6. Free' = Free /\ Free \in Int /\ Len(available) \in Nat
      BY <1>3, Numbers DEF Free
    <3>7. Len(available') + Free' = Len(available) + Free + 1
      BY <3>5, <3>6, SMTT(60)
    <3> QED
      BY <1>3, <3>3, <3>4, <3>7, OneWoken, Zenon DEF WakeInv
  <2> QED
    BY <1>3, <2>1, <2>2, Zenon DEF Notify
<1>4. CASE Recycle(c)
  BY <1>1, <1>3, <1>4, Zenon DEF Recycle
<1>5. CASE Destroy(c)
  BY <1>1, <1>2, <1>5, Zenon DEF Destroy
<1> QED
  BY <1>4, <1>5, Zenon

-----------------------------------------------------------------------------
\* The theorems

LEMMA LimitStep ==
    ASSUME LimitInv, WakeInv, [Next]_vars
    PROVE  LimitInv' /\ WakeInv'
<1>1. CASE UNCHANGED vars
  <2>1. UNCHANGED <<all, available, lent, creating, closed, client, held, waiters, pc, mine, expired>>
    BY <1>1, Zenon DEF vars, pool
  <2>2. LimitInv'
    BY <2>1 DEF LimitInv, TypeOK, Apart, Booked, Growing, BoundedGrowth, ClosedIsEmpty
  <2>3. WakeInv'
    BY <2>1 DEF WakeInv, Queued, Sleepers, NoLostWakeup
  <2> QED
    BY <2>2, <2>3
<1>2. ASSUME NEW t \in Threads, Acquire(t) \/ DeadlinePasses(t) \/ Reserve(t)
      PROVE  LimitInv' /\ WakeInv'
  BY <1>2, LimitReserve, WakeReserve, Zenon
<1>3. ASSUME NEW t \in Threads, Grow(t) PROVE LimitInv' /\ WakeInv'
  BY <1>3, LimitGrow, WakeGrow, Zenon
<1>4. ASSUME NEW t \in Threads, HandOut(t) PROVE LimitInv' /\ WakeInv'
  BY <1>4, LimitHandOut, WakeHandOut, Zenon
<1>5. ASSUME NEW c \in Clients, Recycle(c) \/ Destroy(c) PROVE LimitInv' /\ WakeInv'
  BY <1>5, LimitRelease, WakeRelease, Zenon DEF WakeInv
<1>6. ASSUME NotifyAll(pc) PROVE WakeInv'
  BY <1>6, AllWoken, Zenon DEF WakeInv
<1>7. CASE Close
  BY <1>6, <1>7, LimitClose, Zenon DEF Close
<1>8. ASSUME NEW k \in 1 .. MaxSize, Reap(k) PROVE LimitInv' /\ WakeInv'
  BY <1>6, <1>8, LimitReap, Zenon DEF Reap
<1> QED
  BY <1>1, <1>2, <1>3, <1>4, <1>5, <1>7, <1>8, Zenon DEF Next

LEMMA PoolLimits == Spec => [](LimitInv /\ WakeInv)
<1>1. Init => LimitInv /\ WakeInv
  BY LimitInit
<1>2. LimitInv /\ WakeInv /\ [Next]_vars => LimitInv' /\ WakeInv'
  BY LimitStep
<1> QED
  BY <1>1, <1>2, PTL DEF Spec

\* Every variable of the pool keeps its type; in particular _creating never
\* goes below zero, whatever callers release.
THEOREM PoolTypeCorrect == Spec => []TypeOK
<1>1. LimitInv => TypeOK
  BY Zenon DEF LimitInv
<1> QED
  BY <1>1, PoolLimits, PTL

\* Documented invariant 2 of _pool.py: len(_all) + _creating never exceeds
\* max_size, whatever callers release and however factory calls end.
THEOREM BoundedGrowthHolds == Spec => []BoundedGrowth
<1>1. LimitInv => BoundedGrowth
  BY Zenon DEF LimitInv
<1> QED
  BY <1>1, PoolLimits, PTL

\* Documented invariant 3 of _pool.py, its first half: behind close() the pool
\* stays empty, whatever was in flight and whatever callers release.
THEOREM ClosedIsEmptyHolds == Spec => []ClosedIsEmpty
<1>1. LimitInv => ClosedIsEmpty
  BY DEF LimitInv
<1> QED
  BY <1>1, PoolLimits, PTL

\* notify() for a slot that comes back and notify_all() for everything else
\* are enough: while a thread sleeps in _reserve(), there are as many running
\* threads in it as available slots and units of free capacity, for every
\* number of threads and every size of the pool.
THEOREM NoLostWakeupHolds == Spec => []NoLostWakeup
<1>1. WakeInv => NoLostWakeup
  BY DEF WakeInv
<1> QED
  BY <1>1, PoolLimits, PTL
=============================================================================
