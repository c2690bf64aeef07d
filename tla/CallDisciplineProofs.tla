------------------------ MODULE CallDisciplineProofs ------------------------
(***************************************************************************)
(* The calls of an AsyncClient implement the disciplined use of the pool:  *)
(* initial states map to initial states, and every step of a call to a     *)
(* step of the pool or to none.                                            *)
(***************************************************************************)
EXTENDS CallDiscipline, AsyncClientProofs

\* A step of the pool that keeps its callers' discipline.
PoolStep ==
    \/ \E t \in Threads :
           Acquire(t) \/ DeadlinePasses(t) \/ Reserve(t) \/ Grow(t) \/ HandOut(t)
    \/ CallRelease
    \/ Close
    \/ \E k \in 1 .. MaxSize : Reap(k)

LEMMA CallsAreDisciplined ==
    ASSUME CallInv, [CallNext]_allVars
    PROVE  PoolStep \/ UNCHANGED vars
<1>1. CASE UNCHANGED allVars \/ Stopped
  BY <1>1 DEF allVars, Stopped
<1>2. ASSUME NEW t \in Threads, LoopStep(t) PROVE UNCHANGED vars
  BY <1>2, LoopStepInv
<1>3. ASSUME NEW t \in Threads, WorkerStarts(t) \/ WorkerSteps(t) PROVE PoolStep
  BY <1>3 DEF WorkerStarts, WorkerSteps, PoolStep, Grow, HandOut
<1>4. ASSUME NEW t \in Threads, WorkerReturns(t) PROVE PoolStep
  BY <1>4 DEF WorkerReturns, PoolStep, Grow, HandOut
<1>5. ASSUME NEW t \in Threads, Reclaim(t) \/ WorkerReleases(t) \/ DiscardRemoves(t) PROVE PoolStep
  BY <1>5, CallReleaseInv DEF PoolStep
<1>6. CASE CloseClient \/ \E k \in 1 .. MaxSize : Reap(k) /\ UNCHANGED callVars
  BY <1>6 DEF CloseClient, PoolStep
<1> QED
  BY <1>1, <1>2, <1>3, <1>4, <1>5, <1>6 DEF CallNext, LoopStep

\* The pool's steps are those of the disciplined pool; only Recycle() depends
\* on what callers may do.
LEMMA SameHelpers ==
    /\ \A S : Cardinality(S) = Disciplined!Cardinality(S)
    /\ \A f : Range(f) = Disciplined!Range(f)
    /\ \A f : IsInjective(f) = Disciplined!IsInjective(f)
    /\ \A q, e : RemoveFirst(q, e) = Disciplined!RemoveFirst(q, e)
<1>1. \A S : Cardinality(S) = Disciplined!Cardinality(S)
  BY Zenon DEF Cardinality, Disciplined!Cardinality
<1>2. \A f : Range(f) = Disciplined!Range(f)
  BY Zenon DEF Range, Disciplined!Range
<1>3. \A f : IsInjective(f) = Disciplined!IsInjective(f)
  BY Zenon DEF IsInjective, Disciplined!IsInjective
<1>4. \A q, e : RemoveFirst(q, e) = Disciplined!RemoveFirst(q, e)
  BY Zenon DEF RemoveFirst, Disciplined!RemoveFirst, RemoveAt, Disciplined!RemoveAt,
     SelectInSeq, Disciplined!SelectInSeq, Min, Disciplined!Min
<1> QED
  BY <1>1, <1>2, <1>3, <1>4

LEMMA SamePool ==
    /\ FreshSlots = Disciplined!FreshSlots
    /\ FreshClients = Disciplined!FreshClients
    /\ CanGrow => Disciplined!CanGrow
    /\ ~ CanGrow => ~ Disciplined!CanGrow
    /\ Init => Disciplined!Init
<1>1. FreshSlots = Disciplined!FreshSlots /\ FreshClients = Disciplined!FreshClients
  BY SameHelpers, Zenon DEF FreshSlots, Disciplined!FreshSlots, FreshClients, Disciplined!FreshClients
<1>2. (CanGrow => Disciplined!CanGrow) /\ (~ CanGrow => ~ Disciplined!CanGrow)
  BY SameHelpers, Zenon DEF CanGrow, Disciplined!CanGrow
<1>3. Init => Disciplined!Init
  BY SameHelpers, Zenon DEF Init, Disciplined!Init
<1> QED
  BY <1>1, <1>2, <1>3

LEMMA SameThreadStep ==
    ASSUME NEW t \in Threads, Acquire(t) \/ DeadlinePasses(t) \/ Reserve(t) \/ Grow(t) \/ HandOut(t)
    PROVE  \/ Disciplined!Acquire(t) \/ Disciplined!DeadlinePasses(t) \/ Disciplined!Reserve(t)
           \/ Disciplined!Grow(t) \/ Disciplined!HandOut(t)
<1>1. Acquire(t) => Disciplined!Acquire(t)
  BY Zenon DEF Acquire, Disciplined!Acquire, Goto, Disciplined!Goto, pool, Disciplined!pool
<1>2. DeadlinePasses(t) => Disciplined!DeadlinePasses(t)
  BY Zenon DEF DeadlinePasses, Disciplined!DeadlinePasses, Goto, Disciplined!Goto, pool,
     Disciplined!pool
<1>3. ReserveClosed(t) => Disciplined!ReserveClosed(t)
  BY Zenon DEF ReserveClosed, Disciplined!ReserveClosed, Goto, Disciplined!Goto, pool,
     Disciplined!pool
<1>4. ReserveSlot(t) => Disciplined!ReserveSlot(t)
  BY Zenon DEF ReserveSlot, Disciplined!ReserveSlot, Goto, Disciplined!Goto
<1>5. ReserveGrowth(t) => Disciplined!ReserveGrowth(t)
  BY SamePool, Zenon DEF ReserveGrowth, Disciplined!ReserveGrowth, Goto, Disciplined!Goto
<1>6. ReserveBusy(t) => Disciplined!ReserveBusy(t)
  BY SamePool, Zenon DEF ReserveBusy, Disciplined!ReserveBusy, Goto, Disciplined!Goto, pool, Disciplined!pool
<1>7. GrowFails(t) => Disciplined!GrowFails(t)
  BY Zenon DEF GrowFails, Disciplined!GrowFails, Goto, Disciplined!Goto, NotifyAll,
     Disciplined!NotifyAll
<1>8. CheckOk(t) => Disciplined!CheckOk(t)
  BY Zenon DEF CheckOk, Disciplined!CheckOk, Goto, Disciplined!Goto, StillLent,
     Disciplined!StillLent, Leave, Disciplined!Leave, pool, Disciplined!pool
<1>9. PingFails(t) => Disciplined!PingFails(t)
  BY Zenon DEF PingFails, Disciplined!PingFails, Goto, Disciplined!Goto, pool,
     Disciplined!pool
<1>10. SlotGone(t) => Disciplined!SlotGone(t)
  BY Zenon DEF SlotGone, Disciplined!SlotGone, Goto, Disciplined!Goto, StillLent,
     Disciplined!StillLent, Leave, Disciplined!Leave, pool, Disciplined!pool
<1>11. DropSlot(t) => Disciplined!DropSlot(t)
  BY Zenon DEF DropSlot, Disciplined!DropSlot, Goto, Disciplined!Goto, NotifyAll,
     Disciplined!NotifyAll, Leave, Disciplined!Leave
<1>12. ASSUME NEW s, NEW c, GrowOk(t, s, c) PROVE Disciplined!GrowOk(t, s, c)
  BY <1>12, Zenon DEF GrowOk, Disciplined!GrowOk, Goto, Disciplined!Goto
<1>13. ASSUME NEW c, ReplaceOk(t, c) PROVE Disciplined!ReplaceOk(t, c)
  BY <1>13, Zenon DEF ReplaceOk, Disciplined!ReplaceOk, Goto, Disciplined!Goto, StillLent,
     Disciplined!StillLent, Leave, Disciplined!Leave
<1>14. Reserve(t) => Disciplined!Reserve(t)
  BY <1>3, <1>4, <1>5, <1>6 DEF Reserve, Disciplined!Reserve
<1>15. Grow(t) => Disciplined!Grow(t)
  BY <1>7, <1>12, SamePool DEF Grow, Disciplined!Grow
<1>16. HandOut(t) => Disciplined!HandOut(t)
  BY <1>8, <1>9, <1>10, <1>11, <1>13, SamePool DEF HandOut, Disciplined!HandOut
<1> QED
  BY <1>1, <1>2, <1>14, <1>15, <1>16

LEMMA SameRelease ==
    ASSUME NEW c \in Clients
    PROVE  /\ Recycle(c) /\ Owed(c) => Disciplined!Recycle(c)
           /\ Destroy(c) => Disciplined!Destroy(c)
<1>1. SlotsOf(c) = Disciplined!SlotsOf(c)
  BY DEF SlotsOf, Disciplined!SlotsOf
<1>2. Owed(c) => Disciplined!MayRecycle(c)
  BY <1>1 DEF Owed, Disciplined!MayRecycle
<1>3. Notify => Disciplined!Notify
  BY DEF Notify, Disciplined!Notify, Goto, Disciplined!Goto
<1>4. NotifyAll(pc) => Disciplined!NotifyAll(pc)
  BY DEF NotifyAll, Disciplined!NotifyAll
<1>5. Recycle(c) /\ Owed(c) => Disciplined!Recycle(c)
  BY <1>1, <1>2, <1>3 DEF Recycle, Disciplined!Recycle
<1>6. Destroy(c) => Disciplined!Destroy(c)
  BY <1>1, <1>4, SameHelpers, Zenon DEF Destroy, Disciplined!Destroy
<1> QED
  BY <1>5, <1>6

LEMMA DisciplinedStep ==
    ASSUME PoolStep \/ UNCHANGED vars
    PROVE  [Disciplined!Next]_(Disciplined!vars)
<1>1. CASE UNCHANGED vars
  BY <1>1 DEF vars, pool, Disciplined!vars, Disciplined!pool
<1>2. ASSUME NEW t \in Threads,
             Acquire(t) \/ DeadlinePasses(t) \/ Reserve(t) \/ Grow(t) \/ HandOut(t)
      PROVE  Disciplined!Next
  BY <1>2, SameThreadStep DEF Disciplined!Next
<1>3. CASE CallRelease
  BY <1>3, SameRelease DEF CallRelease, Disciplined!Next
<1>4. CASE Close
  BY <1>4 DEF Close, Disciplined!Close, NotifyAll, Disciplined!NotifyAll, Disciplined!Next
<1>5. ASSUME NEW k \in 1 .. MaxSize, Reap(k) PROVE Disciplined!Reap(k)
  BY <1>5 DEF Reap, Disciplined!Reap, NotifyAll, Disciplined!NotifyAll
<1>6. ASSUME NEW k \in 1 .. MaxSize, Reap(k) PROVE Disciplined!Next
  BY <1>5, <1>6 DEF Disciplined!Next
<1> QED
  BY <1>1, <1>2, <1>3, <1>4, <1>6 DEF PoolStep

\* Whatever is cancelled when, the calls of an AsyncClient use the pool as its
\* documentation wants: what _acquire() and _run_pooled() do to it is a
\* behaviour of the pool whose callers never recycle a client that is lent to
\* somebody else.
THEOREM CallsKeepDiscipline == CallSpec => KeepsDiscipline
<1>1. CallInit => Disciplined!Init
  BY SamePool DEF CallInit
<1>2. CallInv /\ [CallNext]_allVars => [Disciplined!Next]_(Disciplined!vars)
  BY CallsAreDisciplined, DisciplinedStep
<1> QED
  BY <1>1, <1>2, CallInvariant, PTL DEF CallSpec, KeepsDiscipline, Disciplined!Spec
=============================================================================
