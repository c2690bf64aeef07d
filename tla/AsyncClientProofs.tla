-------------------------- MODULE AsyncClientProofs --------------------------
(***************************************************************************)
(* Proofs about AsyncClient, for every number of calls, slots and clients: *)
(* the calls keep the discipline under which the pool is correct, no two   *)
(* of them share a client, and no lent slot is forgotten.                  *)
(***************************************************************************)
EXTENDS AsyncClient, ConnectionPoolProofs

-----------------------------------------------------------------------------
\* The inductive invariant

\* Which parts of a call are active together.
Phases ==
    \A t \in Threads :
        /\ task[t] \in {"acquiring", "reclaim", "lost"} => work[t] = "none"
        /\ task[t] \in {"running", "discard", "remove"} => work[t] # "none"
        /\ pc[t] # "idle" => task[t] \in {"acquiring", "reclaim", "lost"} /\ cl[t] = NoClient

\* The call has a client and has not released it.
Owner(t) == cl[t] # NoClient /\ work[t] # "released"

\* What a call has not released is in its hands, or out of the pool for good
\* because the call itself discarded it.
Owners == \A t \in Threads : Owner(t) => cl[t] \in held \/ SlotsOf(cl[t]) = {}

\* No client has two owners.
Alone == \A t, u \in Threads : Owner(t) /\ Owner(u) /\ cl[t] = cl[u] => t = u

CallInv == IInv /\ CallTypeOK /\ Phases /\ Owners /\ Alone

\* A call that has not released its client, or is about to discard it.
Answers(t) == work[t] # "released" \/ task[t] \in {"discard", "remove"}

\* A lent slot is under check, or its client has a call that will release or
\* discard it.
Accounted(s) == \E t \in Threads : mine[t] = s \/ (cl[t] = client[s] /\ Answers(t))

\* What nobody accounts for came too late for its reclaim thread.
LeakInv == \A s \in lent : Accounted(s) \/ client[s] \in forsaken

LEMMA CallInitInv == CallInit => CallInv /\ LeakInv
<1> SUFFICES ASSUME CallInit PROVE CallInv /\ LeakInv
  OBVIOUS
<1>1. /\ Init
      /\ task = [t \in Threads |-> "idle"]
      /\ work = [t \in Threads |-> "none"]
      /\ cl = [t \in Threads |-> NoClient]
      /\ cancelled = [t \in Threads |-> FALSE]
      /\ destroy = [t \in Threads |-> FALSE]
      /\ killed = {}
      /\ forsaken = {}
  BY DEF CallInit
<1>2. lent = {} /\ pc = [t \in Threads |-> "idle"]
  BY <1>1 DEF Init
<1>3. IInv
  BY <1>1, InitInv
<1>4. CallTypeOK
  BY <1>1, Zenon DEF CallTypeOK, TaskStates, WorkStates
<1>5. Phases
  BY <1>1, <1>2 DEF Phases
<1>6. Owners /\ Alone
  BY <1>1 DEF Owners, Alone, Owner
<1>7. LeakInv
  BY <1>1, <1>2 DEF LeakInv
<1> QED
  BY <1>3, <1>4, <1>5, <1>6, <1>7 DEF CallInv

-----------------------------------------------------------------------------
\* Steps of the loop and of the operation's worker that do not enter the pool

LEMMA PoolUnchanged ==
    ASSUME UNCHANGED vars
    PROVE  /\ UNCHANGED <<all, available, lent, creating, closed, client>>
           /\ UNCHANGED <<held, waiters, pc, mine, expired>>
           /\ IInv => IInv'
<1>1. /\ UNCHANGED <<all, available, lent, creating, closed, client>>
      /\ UNCHANGED <<held, waiters, pc, mine, expired>>
  BY DEF vars, pool
<1>2. IInv => IInv'
  BY <1>1 DEF IInv, TypeOK, PoolInv, OwnInv, Booked, Queued, Growing,
              LendingState, BoundedGrowth, ClosedIsEmpty
<1> QED
  BY <1>1, <1>2

\* A call moves on: nobody becomes an owner.
LEMMA LoopInv ==
    ASSUME CallInv, UNCHANGED vars, CallTypeOK', Phases',
           \A u \in Threads : Owner(u)' => Owner(u) /\ cl'[u] = cl[u]
    PROVE  CallInv'
<1>1. IInv' /\ UNCHANGED <<held, all, client>>
  BY PoolUnchanged DEF CallInv
<1>2. Owners'
  BY <1>1 DEF CallInv, Owners, SlotsOf
<1>3. Alone'
  BY DEF CallInv, Alone
<1> QED
  BY <1>1, <1>2, <1>3 DEF CallInv

\* A call moves on: nobody stops to answer for a client.
LEMMA LoopLeaks ==
    ASSUME CallInv, LeakInv, UNCHANGED vars, UNCHANGED forsaken,
           \A u \in Threads :
               cl[u] # NoClient /\ Answers(u) => cl'[u] = cl[u] /\ Answers(u)'
    PROVE  LeakInv'
<1>1. UNCHANGED <<lent, mine, client>>
  BY PoolUnchanged
<1>2. \A s \in lent : client[s] # NoClient
  BY CallAssumption DEF CallInv, IInv, TypeOK
<1> QED
  BY <1>1, <1>2 DEF LeakInv, Accounted

\* The steps of the call itself.
LoopStep(t) ==
    \/ Start(t) \/ CancelAcquire(t) \/ ReclaimGivesUp(t) \/ AcquireSeen(t) \/ OpStarts(t)
    \/ OpEnds(t) \/ CallEnds(t) \/ ResultSeen(t) \/ CancelRun(t) \/ DiscardKills(t)

LEMMA LoopStepInv ==
    ASSUME CallInv, NEW t \in Threads, LoopStep(t)
    PROVE  /\ UNCHANGED vars
           /\ CallInv'
           /\ LeakInv => LeakInv'
<1>0. /\ task \in [Threads -> TaskStates]
      /\ work \in [Threads -> WorkStates]
      /\ cl \in [Threads -> Clients \cup {NoClient}]
      /\ cancelled \in [Threads -> BOOLEAN]
      /\ destroy \in [Threads -> BOOLEAN]
      /\ killed \subseteq Clients /\ forsaken \subseteq Clients
      /\ \A u \in Threads : work[u] # "none" => cl[u] # NoClient
      /\ Phases
  BY DEF CallInv, CallTypeOK
<1>1. UNCHANGED vars /\ UNCHANGED forsaken
  BY ZenonT(60) DEF LoopStep, Start, CancelAcquire, ReclaimGivesUp, AcquireSeen, OpStarts, OpEnds, CallEnds,
         ResultSeen, CancelRun, DiscardKills
<1>2. pc' = pc
  BY <1>1, PoolUnchanged
<1>3. ASSUME CallTypeOK', Phases',
             \A u \in Threads : Owner(u)' => Owner(u) /\ cl'[u] = cl[u],
             \A u \in Threads : cl[u] # NoClient /\ Answers(u) => cl'[u] = cl[u] /\ Answers(u)'
      PROVE  CallInv' /\ (LeakInv => LeakInv')
  <2>1. CallInv'
    BY <1>1, <1>3, LoopInv
  <2> QED
    BY <1>1, <1>3, <2>1, LoopLeaks
<1>4. CASE Start(t)
  <2>1. CallTypeOK'
    BY <1>0, <1>4 DEF Start, Set, CallTypeOK, TaskStates, WorkStates, Phases
  <2>2. Phases'
    BY <1>0, <1>2, <1>4 DEF Start, Set, Phases
  <2>3. /\ \A u \in Threads : Owner(u)' => Owner(u) /\ cl'[u] = cl[u]
        /\ \A u \in Threads : cl[u] # NoClient /\ Answers(u) => cl'[u] = cl[u] /\ Answers(u)'
    BY <1>0, <1>4, Zenon DEF Start, Set, Phases, Owner, Answers
  <2> QED
    BY <1>1, <1>3, <2>1, <2>2, <2>3
<1>5. CASE CancelAcquire(t)
  <2>1. CallTypeOK'
    BY <1>0, <1>5 DEF CancelAcquire, Set, CallTypeOK, TaskStates, WorkStates, Phases
  <2>2. Phases'
    BY <1>0, <1>2, <1>5 DEF CancelAcquire, Set, Phases
  <2>3. /\ \A u \in Threads : Owner(u)' => Owner(u) /\ cl'[u] = cl[u]
        /\ \A u \in Threads : cl[u] # NoClient /\ Answers(u) => cl'[u] = cl[u] /\ Answers(u)'
    BY <1>0, <1>5, SMTT(60) DEF CancelAcquire, Set, Phases, Owner, Answers
  <2> QED
    BY <1>1, <1>3, <2>1, <2>2, <2>3, Zenon
<1>6. CASE ReclaimGivesUp(t)
  <2>1. CallTypeOK'
    BY <1>0, <1>6 DEF ReclaimGivesUp, Set, CallTypeOK, TaskStates, WorkStates, Phases
  <2>2. Phases'
    BY <1>0, <1>2, <1>6 DEF ReclaimGivesUp, Set, Phases
  <2>3. /\ \A u \in Threads : Owner(u)' => Owner(u) /\ cl'[u] = cl[u]
        /\ \A u \in Threads : cl[u] # NoClient /\ Answers(u) => cl'[u] = cl[u] /\ Answers(u)'
    BY <1>0, <1>6, SMTT(60) DEF ReclaimGivesUp, Set, Phases, Owner, Answers
  <2> QED
    BY <1>1, <1>3, <2>1, <2>2, <2>3, SMTT(60)
<1>7. CASE AcquireSeen(t)
  <2>1. CallTypeOK'
    BY <1>0, <1>7 DEF AcquireSeen, Set, CallTypeOK, TaskStates, WorkStates, Phases
  <2>2. Phases'
    BY <1>0, <1>2, <1>7 DEF AcquireSeen, Set, Phases
  <2>3. /\ \A u \in Threads : Owner(u)' => Owner(u) /\ cl'[u] = cl[u]
        /\ \A u \in Threads : cl[u] # NoClient /\ Answers(u) => cl'[u] = cl[u] /\ Answers(u)'
    BY <1>0, <1>7, SMTT(60) DEF AcquireSeen, Set, Phases, Owner, Answers
  <2> QED
    BY <1>1, <1>3, <2>1, <2>2, <2>3, SMTT(60)
<1>8. CASE OpStarts(t)
  <2>1. CallTypeOK'
    BY <1>0, <1>8 DEF OpStarts, Set, CallTypeOK, TaskStates, WorkStates, Phases
  <2>2. Phases'
    BY <1>0, <1>2, <1>8 DEF OpStarts, Set, Phases
  <2>3. /\ \A u \in Threads : Owner(u)' => Owner(u) /\ cl'[u] = cl[u]
        /\ \A u \in Threads : cl[u] # NoClient /\ Answers(u) => cl'[u] = cl[u] /\ Answers(u)'
    BY <1>0, <1>8, SMTT(60) DEF OpStarts, Set, Phases, Owner, Answers
  <2> QED
    BY <1>1, <1>3, <2>1, <2>2, <2>3, SMTT(60)
<1>9. CASE OpEnds(t)
  <2>1. CallTypeOK'
    BY <1>0, <1>9 DEF OpEnds, Set, CallTypeOK, TaskStates, WorkStates, Phases
  <2>2. Phases'
    BY <1>0, <1>2, <1>9 DEF OpEnds, Set, Phases
  <2>3. /\ \A u \in Threads : Owner(u)' => Owner(u) /\ cl'[u] = cl[u]
        /\ \A u \in Threads : cl[u] # NoClient /\ Answers(u) => cl'[u] = cl[u] /\ Answers(u)'
    BY <1>0, <1>9, SMTT(60) DEF OpEnds, Set, Phases, Owner, Answers
  <2> QED
    BY <1>1, <1>3, <2>1, <2>2, <2>3, SMTT(60)
<1>10. CASE CallEnds(t)
  <2>1. CallTypeOK'
    BY <1>0, <1>10 DEF CallEnds, Set, CallTypeOK, TaskStates, WorkStates, Phases
  <2>2. Phases'
    BY <1>0, <1>2, <1>10 DEF CallEnds, Set, Phases
  <2>3. /\ \A u \in Threads : Owner(u)' => Owner(u) /\ cl'[u] = cl[u]
        /\ \A u \in Threads : cl[u] # NoClient /\ Answers(u) => cl'[u] = cl[u] /\ Answers(u)'
    BY <1>0, <1>10, SMTT(60) DEF CallEnds, Set, Phases, Owner, Answers
  <2> QED
    BY <1>1, <1>3, <2>1, <2>2, <2>3, SMTT(60)
<1>11. CASE ResultSeen(t)
  <2>1. CallTypeOK'
    BY <1>0, <1>11 DEF ResultSeen, Set, CallTypeOK, TaskStates, WorkStates, Phases
  <2>2. Phases'
    BY <1>0, <1>2, <1>11 DEF ResultSeen, Set, Phases
  <2>3. /\ \A u \in Threads : Owner(u)' => Owner(u) /\ cl'[u] = cl[u]
        /\ \A u \in Threads : cl[u] # NoClient /\ Answers(u) => cl'[u] = cl[u] /\ Answers(u)'
    BY <1>0, <1>11, SMTT(60) DEF ResultSeen, Set, Phases, Owner, Answers
  <2> QED
    BY <1>1, <1>3, <2>1, <2>2, <2>3, SMTT(60)
<1>12. CASE CancelRun(t)
  <2>1. CallTypeOK'
    BY <1>0, <1>12 DEF CancelRun, Set, CallTypeOK, TaskStates, WorkStates, Phases
  <2>2. Phases'
    BY <1>0, <1>2, <1>12 DEF CancelRun, Set, Phases
  <2>3. /\ \A u \in Threads : Owner(u)' => Owner(u) /\ cl'[u] = cl[u]
        /\ \A u \in Threads : cl[u] # NoClient /\ Answers(u) => cl'[u] = cl[u] /\ Answers(u)'
    BY <1>0, <1>12, SMTT(60) DEF CancelRun, Set, Phases, Owner, Answers
  <2> QED
    BY <1>1, <1>3, <2>1, <2>2, <2>3, SMTT(60)
<1>13. CASE DiscardKills(t)
  <2>1. CallTypeOK'
    BY <1>0, <1>13 DEF DiscardKills, Set, CallTypeOK, TaskStates, WorkStates, Phases
  <2>2. Phases'
    BY <1>0, <1>2, <1>13 DEF DiscardKills, Set, Phases
  <2>3. /\ \A u \in Threads : Owner(u)' => Owner(u) /\ cl'[u] = cl[u]
        /\ \A u \in Threads : cl[u] # NoClient /\ Answers(u) => cl'[u] = cl[u] /\ Answers(u)'
    BY <1>0, <1>13, Zenon DEF DiscardKills, Set, Phases, Owner, Answers
  <2> QED
    BY <1>1, <1>3, <2>1, <2>2, <2>3, SMTT(60)
<1> QED
  BY <1>1, <1>4, <1>5, <1>6, <1>7, <1>8, <1>9, <1>10, <1>11, <1>12, <1>13, SMTT(60) DEF LoopStep

-----------------------------------------------------------------------------
\* The thread inside pool.acquire()

\* A step of thread t that returns no client.
ThreadStep(t) ==
    \/ Acquire(t) \/ DeadlinePasses(t) \/ Reserve(t) \/ GrowFails(t)
    \/ PingFails(t) \/ SlotGone(t) \/ DropSlot(t)

\* Threads other than t are where they were, or awake.
OthersStay(t) == \A u \in Threads \ {t} : pc'[u] # "idle" => pc[u] # "idle"

LEMMA ThreadEffect ==
    ASSUME IInv, NEW t \in Threads, ThreadStep(t)
    PROVE  /\ IInv'
           /\ UNCHANGED <<held, client>> /\ all' \subseteq all
           /\ OthersStay(t)
           /\ \A u \in Threads \ {t} : mine'[u] = mine[u]
           /\ \A s \in lent' : s = mine'[t] \/ (s \in lent /\ s # mine[t])
<1>0. TypeOK /\ ClosedIsEmpty /\ pc \in [Threads -> PCs] /\ mine \in [Threads -> Slots \cup {NoSlot}]
  BY DEF IInv, PoolInv, TypeOK
<1>1. IInv'
  <2>1. CASE Acquire(t) \/ DeadlinePasses(t) \/ Reserve(t)
    BY <2>1, ReserveInv
  <2>2. CASE GrowFails(t)
    BY <2>2, GrowInv DEF Grow
  <2>3. CASE PingFails(t) \/ SlotGone(t) \/ DropSlot(t)
    BY <2>3, HandOutInv DEF HandOut
  <2> QED
    BY <2>1, <2>2, <2>3 DEF ThreadStep
<1>2. lent' \subseteq Slots /\ lent \subseteq Slots
  BY <1>1 DEF IInv, TypeOK
<1>3. CASE Acquire(t) \/ DeadlinePasses(t) \/ ReserveClosed(t) \/ ReserveGrowth(t) \/ ReserveBusy(t)
  <2>1. UNCHANGED <<held, client, all, lent, mine>> /\ \E p \in PCs : pc' = Goto(t, p)
    BY <1>3 DEF Acquire, DeadlinePasses, ReserveClosed, ReserveGrowth, ReserveBusy, pool, PCs
  <2>2. pc[t] \in {"idle", "reserve", "waiting"}
    BY <1>3 DEF Acquire, DeadlinePasses, ReserveClosed, ReserveGrowth, ReserveBusy
  <2>3. OthersStay(t)
    BY <1>0, <2>1 DEF OthersStay, Goto
  <2>4. mine[t] = NoSlot
    BY <2>2 DEF IInv, OwnInv
  <2> QED
    BY <1>1, <1>2, <2>1, <2>3, <2>4, PoolAssumption, SMTT(60)
<1>4. CASE ReserveSlot(t)
  <2>1. /\ pc[t] = "reserve" /\ pc' = Goto(t, "checking")
        /\ lent' = lent \cup {Head(available)} /\ mine' = [mine EXCEPT ![t] = Head(available)]
        /\ UNCHANGED <<held, client, all>>
    BY <1>4 DEF ReserveSlot
  <2>2. OthersStay(t)
    BY <1>0, <2>1 DEF OthersStay, Goto
  <2>3. mine[t] = NoSlot
    BY <2>1 DEF IInv, OwnInv
  <2>4. mine'[t] = Head(available) /\ \A u \in Threads \ {t} : mine'[u] = mine[u]
    BY <1>0, <2>1
  <2> QED
    BY <1>1, <1>2, <2>1, <2>2, <2>3, <2>4, PoolAssumption, SMTT(60)
<1>5. CASE GrowFails(t)
  <2>1. NotifyAll(Goto(t, "idle")) /\ UNCHANGED <<held, client, all, lent, mine>> /\ pc[t] = "growing"
    BY <1>5 DEF GrowFails
  <2>2. OthersStay(t)
    BY <1>0, <2>1 DEF OthersStay, NotifyAll, Goto
  <2>3. mine[t] = NoSlot
    BY <2>1 DEF IInv, OwnInv
  <2> QED
    BY <1>1, <1>2, <2>1, <2>2, <2>3, PoolAssumption, Zenon
<1>6. CASE PingFails(t)
  <2>1. UNCHANGED <<held, client, all, lent, mine>> /\ pc' = Goto(t, "replacing")
    BY <1>6 DEF PingFails, pool
  <2>2. OthersStay(t)
    BY <1>0, <2>1 DEF OthersStay, Goto
  <2> QED
    BY <1>1, <2>1, <2>2
<1>7. CASE SlotGone(t)
  <2>1. /\ UNCHANGED <<held, client, all, lent>> /\ pc' = Goto(t, "idle")
        /\ mine' = [mine EXCEPT ![t] = NoSlot] /\ (closed \/ mine[t] \notin lent)
    BY <1>7 DEF SlotGone, pool, StillLent, Leave
  <2>2. OthersStay(t)
    BY <1>0, <2>1 DEF OthersStay, Goto
  <2>3. mine[t] \notin lent
    BY <1>0, <2>1 DEF ClosedIsEmpty
  <2> QED
    BY <1>0, <1>1, <2>1, <2>2, <2>3, Zenon
<1>8. CASE DropSlot(t)
  <2>1. /\ UNCHANGED <<held, client>> /\ NotifyAll(Goto(t, "idle"))
        /\ lent' = lent \ {mine[t]} /\ all' = all \ {mine[t]}
        /\ mine' = [mine EXCEPT ![t] = NoSlot]
    BY <1>8 DEF DropSlot, Leave
  <2>2. OthersStay(t)
    BY <1>0, <2>1 DEF OthersStay, NotifyAll, Goto
  <2> QED
    BY <1>0, <1>1, <2>1, <2>2
<1> QED
  BY <1>3, <1>4, <1>5, <1>6, <1>7, <1>8, SMTT(60) DEF ThreadStep, Reserve

\* The pool loses slots or nothing, the calls keep what they have.
LEMMA SameOwners ==
    ASSUME CallInv, UNCHANGED <<work, cl, held, client>>, all' \subseteq all
    PROVE  Owners' /\ Alone'
<1>1. Owners'
  BY DEF CallInv, Owners, Owner, SlotsOf
<1>2. Alone'
  BY DEF CallInv, Alone, Owner
<1> QED
  BY <1>1, <1>2

LEMMA ThreadStepInv ==
    ASSUME CallInv, NEW t \in Threads, WorkerStarts(t) \/ WorkerSteps(t)
    PROVE  CallInv' /\ (LeakInv => LeakInv')
<1>0. /\ IInv /\ CallTypeOK /\ Phases
      /\ task \in [Threads -> TaskStates]
      /\ cl \in [Threads -> Clients \cup {NoClient}]
  BY DEF CallInv, CallTypeOK
<1>1. ThreadStep(t) /\ UNCHANGED <<work, cl, cancelled, destroy, killed, forsaken>>
  BY DEF WorkerStarts, WorkerSteps, ThreadStep, callVars
<1>2. /\ task[t] \in {"acquiring", "reclaim", "lost"} /\ cl[t] = NoClient
      /\ task' = [task EXCEPT ![t] = IF pc'[t] = "idle" THEN "idle" ELSE task[t]]
  <2>1. CASE WorkerStarts(t)
    <3>1. pc'[t] # "idle"
      BY <1>0, <2>1, Zenon DEF WorkerStarts, Acquire, Goto, IInv, TypeOK
    <3> QED
      BY <1>0, <2>1, <3>1 DEF WorkerStarts, Pending, callVars
  <2>2. CASE WorkerSteps(t)
    <3>1. pc[t] # "idle"
      BY <2>2, Zenon DEF WorkerSteps, DeadlinePasses, Reserve, ReserveClosed, ReserveSlot, ReserveGrowth,
                  ReserveBusy, GrowFails, PingFails, SlotGone, DropSlot
    <3> QED
      BY <1>0, <2>2, <3>1, Zenon DEF WorkerSteps, Phases, Set
  <2> QED
    BY <2>1, <2>2
<1>3. /\ IInv'
      /\ UNCHANGED <<held, client>> /\ all' \subseteq all
      /\ OthersStay(t)
      /\ \A u \in Threads \ {t} : mine'[u] = mine[u]
      /\ \A s \in lent' : s = mine'[t] \/ (s \in lent /\ s # mine[t])
  BY <1>0, <1>1, ThreadEffect
<1>4. CallTypeOK'
  BY <1>0, <1>1, <1>2 DEF CallTypeOK, TaskStates
<1>5. Phases'
  BY <1>0, <1>1, <1>2, <1>3, Zenon DEF Phases, OthersStay
<1>6. CallInv'
  BY <1>1, <1>3, <1>4, <1>5, SameOwners, Zenon DEF CallInv
<1>7. ASSUME LeakInv PROVE LeakInv'
  <2>1. ASSUME NEW s \in lent', s # mine'[t], client[s] \notin forsaken
        PROVE  \E u \in Threads : mine'[u] = s \/ (cl'[u] = client'[s] /\ Answers(u)')
    <3>1. s \in lent /\ s # mine[t] /\ client[s] # NoClient
      BY <1>0, <1>3, <2>1, CallAssumption DEF IInv, TypeOK
    <3>2. PICK u \in Threads : mine[u] = s \/ (cl[u] = client[s] /\ Answers(u))
      BY <1>7, <2>1, <3>1 DEF LeakInv, Accounted
    <3>3. u # t
      BY <1>2, <3>1, <3>2, Zenon
    <3> QED
      BY <1>0, <1>1, <1>2, <1>3, <3>2, <3>3, SMTT(60) DEF Answers
  <2> QED
    BY <1>1, <1>3, <2>1 DEF LeakInv, Accounted
<1> QED
  BY <1>6, <1>7

\* What a thread does that returns with client c: c is in a caller's hands, in
\* nobody else's, and the only client that a slot may have got.
Returns(t, c) ==
    /\ c \in Clients /\ held' = held \cup {c}
    /\ pc[t] # "idle" /\ pc' = Goto(t, "idle")
    /\ \A u \in Threads : Owner(u) => cl[u] # c
    /\ \A s \in all' : client'[s] = c \/ (s \in all /\ client'[s] = client[s])
    /\ \A s \in lent' : client'[s] = c \/ (s \in lent /\ s # mine[t] /\ client'[s] = client[s])
    /\ \A u \in Threads \ {t} : mine'[u] = mine[u]

LEMMA ReturnEffect ==
    ASSUME CallInv, NEW t \in Threads, WorkerReturns(t)
    PROVE  /\ IInv'
           /\ \E c : /\ Returns(t, c) /\ WorkerAcquired(t, c)
                     /\ killed' \in {killed, killed \ {c}}
<1>0. /\ IInv /\ TypeOK /\ mine \in [Threads -> Slots \cup {NoSlot}]
      /\ client \in [Slots -> Clients] /\ all \subseteq Slots /\ lent \subseteq Slots /\ lent \subseteq all
  BY DEF CallInv, IInv, TypeOK, PoolInv, LendingState
<1>1. CASE CheckOk(t) /\ WorkerAcquired(t, client[mine[t]]) /\ UNCHANGED killed
  <2>1. PICK c : c = client[mine[t]]
    OBVIOUS
  <2>2. /\ pc[t] = "checking" /\ mine[t] \in lent /\ held' = held \cup {c} /\ pc' = Goto(t, "idle")
        /\ mine' = [mine EXCEPT ![t] = NoSlot] /\ UNCHANGED <<all, lent, client>>
    BY <1>1, <2>1 DEF CheckOk, StillLent, Leave, pool
  <2>3. c \in Clients /\ c \notin held /\ mine[t] \in SlotsOf(c)
    BY <1>0, <2>1, <2>2 DEF IInv, OwnInv, SlotsOf
  <2>4. \A u \in Threads : Owner(u) => cl[u] # c
    BY <2>3 DEF CallInv, Owners
  <2>5. Returns(t, c)
    BY <1>0, <2>1, <2>2, <2>3, <2>4, Zenon DEF Returns
  <2>6. IInv'
    BY <1>0, <1>1, HandOutInv, Zenon DEF HandOut
  <2>7. WorkerAcquired(t, c)
    BY <1>1, <2>1 DEF WorkerAcquired
  <2> QED
    BY <1>1, <2>5, <2>6, <2>7
<1>2. ASSUME NEW c \in FreshClients, Unreferenced(c), ReplaceOk(t, c),
             WorkerAcquired(t, c), killed' = killed \ {c}
      PROVE  IInv' /\ Returns(t, c)
  <2>1. /\ pc[t] = "replacing" /\ mine[t] \in lent /\ held' = held \cup {c} /\ pc' = Goto(t, "idle")
        /\ client' = [client EXCEPT ![mine[t]] = c]
        /\ mine' = [mine EXCEPT ![t] = NoSlot] /\ UNCHANGED <<all, lent>>
    BY <1>2 DEF ReplaceOk, StillLent, Leave
  <2>2. c \in Clients /\ \A u \in Threads : cl[u] # c
    BY <1>2 DEF FreshClients, Unreferenced
  <2>3. \A s \in Slots : client'[s] = IF s = mine[t] THEN c ELSE client[s]
    BY <1>0, <2>1
  <2>4. \A s \in all' : client'[s] = c \/ (s \in all /\ client'[s] = client[s])
    BY <1>0, <2>1, <2>3
  <2>5. \A s \in lent' : client'[s] = c \/ (s \in lent /\ s # mine[t] /\ client'[s] = client[s])
    BY <1>0, <2>1, <2>3, Zenon
  <2>6. Returns(t, c)
    BY <1>0, <2>1, <2>2, <2>4, <2>5, Zenon DEF Returns
  <2>7. IInv'
    BY <1>0, <1>2, HandOutInv DEF HandOut
  <2> QED
    BY <2>6, <2>7
<1>3. ASSUME NEW c \in FreshClients, NEW s \in FreshSlots, Unreferenced(c), GrowOk(t, s, c),
             WorkerAcquired(t, c), killed' = killed \ {c}
      PROVE  IInv' /\ Returns(t, c)
  <2>1. /\ pc[t] = "growing" /\ held' = held \cup {c} /\ pc' = Goto(t, "idle")
        /\ all' = all \cup {s} /\ lent' = lent \cup {s}
        /\ client' = [client EXCEPT ![s] = c] /\ mine' = mine
    BY <1>3 DEF GrowOk
  <2>2. c \in Clients /\ \A u \in Threads : cl[u] # c
    BY <1>3 DEF FreshClients, Unreferenced
  <2>3. s \in Slots /\ mine[t] = NoSlot /\ NoSlot \notin lent
    BY <1>0, <2>1, PoolAssumption DEF FreshSlots, IInv, OwnInv
  <2>4. \A r \in Slots : client'[r] = IF r = s THEN c ELSE client[r]
    BY <1>0, <2>1
  <2>5. \A r \in all' : client'[r] = c \/ (r \in all /\ client'[r] = client[r])
    BY <1>0, <2>1, <2>3, <2>4, Zenon
  <2>6. \A r \in lent' : client'[r] = c \/ (r \in lent /\ r # mine[t] /\ client'[r] = client[r])
    BY <1>0, <2>1, <2>3, <2>4, Zenon
  <2>7. Returns(t, c)
    BY <1>0, <2>1, <2>2, <2>5, <2>6, Zenon DEF Returns
  <2>8. IInv'
    BY <1>0, <1>3, GrowInv DEF Grow
  <2> QED
    BY <2>7, <2>8
<1> QED
  BY <1>1, <1>2, <1>3 DEF WorkerReturns

LEMMA ReturnInv ==
    ASSUME CallInv, NEW t \in Threads, WorkerReturns(t)
    PROVE  CallInv' /\ (LeakInv => LeakInv')
<1>0. /\ CallTypeOK /\ Phases /\ Owners /\ Alone /\ pc \in [Threads -> PCs]
      /\ task \in [Threads -> TaskStates] /\ forsaken \subseteq Clients
      /\ cl \in [Threads -> Clients \cup {NoClient}]
  BY DEF CallInv, CallTypeOK, IInv, TypeOK
<1>1. IInv'
  BY ReturnEffect
<1>2. PICK c : /\ Returns(t, c) /\ WorkerAcquired(t, c)
               /\ killed' \in {killed, killed \ {c}}
  BY ReturnEffect
<1>3. /\ c \in Clients /\ c # NoClient /\ c \in held' /\ held \subseteq held'
      /\ \A u \in Threads : pc'[u] = IF u = t THEN "idle" ELSE pc[u]
      /\ UNCHANGED <<work, cancelled, destroy>>
  BY <1>0, <1>2, CallAssumption, Zenon DEF Returns, Goto, WorkerAcquired
<1>4. task[t] \in {"acquiring", "reclaim", "lost"} /\ cl[t] = NoClient /\ work[t] = "none"
  BY <1>0, <1>2 DEF Returns, Phases
<1>5. \/ /\ task[t] = "lost" /\ task' = [task EXCEPT ![t] = "idle"] /\ cl' = cl
         /\ forsaken' = forsaken \cup {c}
      \/ /\ task[t] # "lost" /\ task' = task /\ cl' = [cl EXCEPT ![t] = c]
         /\ forsaken' = forsaken \ {c}
  BY <1>2 DEF WorkerAcquired, Set
<1>6. CallTypeOK'
  BY <1>0, <1>2, <1>3, <1>4, <1>5, Zenon DEF CallTypeOK, TaskStates
<1>7. Phases'
  BY <1>0, <1>3, <1>4, <1>5, Zenon DEF Phases
<1>8. \A u \in Threads : Owner(u)' => (u = t /\ cl'[u] = c) \/ (Owner(u) /\ cl'[u] = cl[u] /\ cl[u] # c)
  BY <1>0, <1>2, <1>3, <1>4, <1>5, Zenon DEF Owner, Returns
<1>9. Owners'
  BY <1>0, <1>2, <1>3, <1>8, SMTT(60) DEF Owners, Returns, SlotsOf
<1>10. Alone'
  BY <1>0, <1>8 DEF Alone
<1>11. ASSUME LeakInv PROVE LeakInv'
  <2>1. \A u \in Threads : u # t => cl'[u] = cl[u] /\ task'[u] = task[u]
    BY <1>0, <1>5, Zenon
  <2>2. ASSUME NEW s \in lent', client'[s] \notin forsaken'
        PROVE  \E u \in Threads : mine'[u] = s \/ (cl'[u] = client'[s] /\ Answers(u)')
    <3>1. CASE client'[s] = c
      <4>1. cl'[t] = c /\ task' = task
        BY <1>0, <1>5, <2>2, <3>1, Zenon
      <4> QED
        BY <1>3, <1>4, <3>1, <4>1, Zenon DEF Answers
    <3>2. CASE client'[s] # c /\ s \in lent /\ s # mine[t] /\ client'[s] = client[s]
      <4>1. client[s] # NoClient /\ client[s] \notin forsaken
        <5>1. client[s] # NoClient
          BY <3>2, CallAssumption, Zenon DEF CallInv, IInv, TypeOK
        <5>2. client[s] \notin forsaken
          BY <1>5, <2>2, <3>2, Zenon
        <5> QED
          BY <5>1, <5>2
      <4>2. PICK u \in Threads : mine[u] = s \/ (cl[u] = client[s] /\ Answers(u))
        BY <1>11, <3>2, <4>1 DEF LeakInv, Accounted
      <4>3. u # t
        BY <1>4, <3>2, <4>1, <4>2
      <4> QED
        BY <1>0, <1>2, <1>3, <2>1, <3>2, <4>2, <4>3, SMTT(60) DEF Answers, Returns
    <3> QED
      BY <1>2, <3>1, <3>2, Zenon DEF Returns
  <2> QED
    BY <2>2, Zenon DEF LeakInv, Accounted
<1> QED
  BY <1>1, <1>6, <1>7, <1>9, <1>10, <1>11, SMTT(60) DEF CallInv

-----------------------------------------------------------------------------
\* release(), discard(), close() and the reaper

\* The pool only loses slots, and nobody enters acquire().
Shrinks ==
    /\ UNCHANGED <<client, mine>> /\ all' \subseteq all /\ lent' \subseteq lent
    /\ \A u \in Threads : pc'[u] # "idle" => pc[u] # "idle"

LEMMA WakesEnterNobody ==
    ASSUME IInv, NotifyAll(pc) \/ Notify \/ UNCHANGED <<pc, waiters>>
    PROVE  \A u \in Threads : pc'[u] # "idle" => pc[u] # "idle"
<1>1. Wakes
  BY NotifyWakes DEF IInv
<1> QED
  BY <1>1 DEF Wakes

\* A client that is released is lent no more; one that is destroyed has left
\* the pool.
LEMMA ReleaseEffect ==
    ASSUME IInv, NEW c \in Clients, (Recycle(c) /\ Owed(c)) \/ Destroy(c)
    PROVE  /\ IInv' /\ Shrinks
           /\ held \ {c} \subseteq held'
           /\ \A s \in lent' : client[s] # c
           /\ Destroy(c) => \A s \in all' : client[s] # c
<1>0. /\ TypeOK /\ lent \subseteq all
      /\ closed => all = {}
      /\ \A s, r \in all : client[s] = client[r] => s = r
  BY DEF IInv, PoolInv, LendingState, ClosedIsEmpty, OwnInv
<1>1. IInv'
  BY ReleaseInv
<1>2. CASE Recycle(c)
  <2>1. held' = held \ {c} /\ UNCHANGED <<all, client, mine>>
    BY <1>2 DEF Recycle
  <2>2. Notify \/ UNCHANGED <<pc, waiters>>
    BY <1>2 DEF Recycle
  <2>3. \A u \in Threads : pc'[u] # "idle" => pc[u] # "idle"
    BY <2>2, WakesEnterNobody, Zenon
  <2>4. lent' \subseteq lent /\ \A s \in lent' : client[s] # c
    <3>1. CASE (closed \/ SlotsOf(c) \cap lent = {}) /\ lent' = lent
      BY <1>0, <3>1 DEF SlotsOf
    <3>2. ASSUME NEW r \in SlotsOf(c) \cap lent, lent' = lent \ {r}
          PROVE  lent' \subseteq lent /\ \A s \in lent' : client[s] # c
      BY <1>0, <3>2, Zenon DEF SlotsOf
    <3> QED
      BY <1>2, <3>1, <3>2 DEF Recycle
  <2>5. Shrinks
    BY <2>1, <2>3, <2>4, Zenon DEF Shrinks
  <2>6. Destroy(c) => \A s \in all' : client[s] # c
    BY <1>0, <2>1 DEF Destroy, SlotsOf
  <2> QED
    BY <1>1, <2>1, <2>4, <2>5, <2>6, SMTT(60)
<1>3. CASE Destroy(c)
  <2>1. held \ {c} \subseteq held' /\ UNCHANGED <<client, mine>>
    BY <1>3 DEF Destroy
  <2>2. NotifyAll(pc) \/ UNCHANGED <<pc, waiters>>
    BY <1>3 DEF Destroy
  <2>3. \A u \in Threads : pc'[u] # "idle" => pc[u] # "idle"
    BY <2>2, WakesEnterNobody
  <2>4. /\ all' \subseteq all /\ lent' \subseteq lent /\ lent' \subseteq all'
        /\ \A s \in all' : client[s] # c
    <3>1. CASE (closed \/ SlotsOf(c) = {}) /\ UNCHANGED <<all, lent>>
      BY <1>0, <3>1 DEF SlotsOf
    <3>2. ASSUME NEW r \in SlotsOf(c), lent' = lent \ {r}, all' = all \ {r}
          PROVE  /\ all' \subseteq all /\ lent' \subseteq lent /\ lent' \subseteq all'
                 /\ \A s \in all' : client[s] # c
      BY <1>0, <3>2 DEF SlotsOf
    <3> QED
      BY <1>3, <3>1, <3>2 DEF Destroy
  <2>5. Shrinks
    BY <2>1, <2>3, <2>4, Zenon DEF Shrinks
  <2> QED
    BY <1>1, <2>1, <2>4, <2>5, Zenon
<1> QED
  BY <1>2, <1>3

\* A call releases or discards its client c.  If it still counts as its owner
\* afterwards, the client has left the pool.
LEMMA ReleasedInv ==
    ASSUME CallInv, NEW t \in Threads, NEW c \in Clients, c = cl[t],
           (Recycle(c) /\ Owed(c)) \/ Destroy(c),
           CallTypeOK', Phases',
           \A u \in Threads \ {t} : work'[u] = work[u] /\ task'[u] = task[u] /\ cl'[u] = cl[u],
           Owner(t)' => cl'[t] = c /\ Owner(t) /\ Destroy(c),
           \A u \in Threads \ {t} : Owner(u) /\ cl[u] = c => c \notin held \/ c \in held',
           UNCHANGED forsaken
    PROVE  CallInv' /\ (LeakInv => LeakInv')
<1>1. /\ IInv' /\ Shrinks
      /\ held \ {c} \subseteq held'
      /\ \A s \in lent' : client[s] # c
      /\ Destroy(c) => \A s \in all' : client[s] # c
  BY ReleaseEffect DEF CallInv
<1>2. UNCHANGED <<client, mine>> /\ all' \subseteq all /\ lent' \subseteq lent
  BY <1>1, Zenon DEF Shrinks
<1>3. \A u \in Threads \ {t} : Owner(u)' => Owner(u) /\ cl'[u] = cl[u]
  BY Zenon DEF Owner
<1>4. Owners'
  <2>1. ASSUME NEW u \in Threads \ {t}, Owner(u)' PROVE cl'[u] \in held' \/ SlotsOf(cl[u])' = {}
    <3>1. cl[u] \in held \/ SlotsOf(cl[u]) = {}
      BY <1>3, <2>1, Zenon DEF CallInv, Owners
    <3>2. cl[u] \in held => cl'[u] \in held'
      BY <1>1, <1>3, <2>1, Zenon
    <3> QED
      BY <1>2, <1>3, <2>1, <3>1, <3>2, Zenon DEF SlotsOf
  <2>2. ASSUME Owner(t)' PROVE SlotsOf(cl[t])' = {}
    BY <1>1, <1>2, <2>2, Zenon DEF SlotsOf
  <2> QED
    BY <2>1, <2>2, Zenon DEF Owners, SlotsOf
<1>5. Alone'
  BY <1>3 DEF CallInv, Alone
<1>6. ASSUME LeakInv PROVE LeakInv'
  <2>1. ASSUME NEW s \in lent', client[s] \notin forsaken
        PROVE  \E u \in Threads : mine'[u] = s \/ (cl'[u] = client'[s] /\ Answers(u)')
    <3>1. s \in lent /\ client[s] # c
      BY <1>1, <1>2, <2>1, Zenon
    <3>2. PICK u \in Threads : mine[u] = s \/ (cl[u] = client[s] /\ Answers(u))
      BY <1>6, <2>1, <3>1, Zenon DEF LeakInv, Accounted
    <3>3. CASE mine[u] = s
      BY <1>2, <3>3, Zenon
    <3>4. CASE cl[u] = client[s] /\ Answers(u)
      <4>1. u # t
        BY <3>1, <3>4
      <4> QED
        BY <1>2, <3>4, <4>1, Zenon DEF Answers
    <3> QED
      BY <3>2, <3>3, <3>4, Zenon
  <2> QED
    BY <1>2, <2>1, Zenon DEF LeakInv, Accounted
<1> QED
  BY <1>1, <1>4, <1>5, <1>6, SMTT(60) DEF CallInv

\* What a call does to the pool: it recycles a client only if it is its to
\* recycle, or not lent.
CallRelease == \E c \in Clients : (Recycle(c) /\ Owed(c)) \/ Destroy(c)

LEMMA CallReleaseInv ==
    ASSUME CallInv, NEW t \in Threads, Reclaim(t) \/ WorkerReleases(t) \/ DiscardRemoves(t)
    PROVE  CallRelease /\ CallInv' /\ (LeakInv => LeakInv')
<1>0. /\ CallTypeOK /\ Phases /\ IInv
      /\ task \in [Threads -> TaskStates]
      /\ work \in [Threads -> WorkStates]
      /\ cl \in [Threads -> Clients \cup {NoClient}]
      /\ killed \subseteq Clients /\ forsaken \subseteq Clients
      /\ \A u \in Threads : work[u] # "none" => cl[u] # NoClient
  BY DEF CallInv, CallTypeOK
<1>1. PICK c : c = cl[t]
  OBVIOUS
<1>2. /\ Owner(t) => Owed(c)
      /\ Owner(t) => \A u \in Threads \ {t} : Owner(u) => cl[u] # c
  BY <1>1, Zenon DEF CallInv, Owners, Alone, Owed
<1>3. ASSUME \A u \in Threads : pc'[u] # "idle" => pc[u] # "idle",
             \A u \in Threads \ {t} : work'[u] = work[u] /\ task'[u] = task[u] /\ cl'[u] = cl[u],
             task'[t] = "idle" /\ pc[t] = "idle"
      PROVE  Phases'
  BY <1>0, <1>3 DEF Phases
<1>4. CASE Reclaim(t)
  <2>1. /\ task[t] = "reclaim" /\ c # NoClient /\ Recycle(c) /\ task' = [task EXCEPT ![t] = "idle"]
        /\ cl' = [cl EXCEPT ![t] = NoClient] /\ UNCHANGED <<work, cancelled, destroy, killed, forsaken>>
    BY <1>1, <1>4 DEF Reclaim, Set
  <2>2. work[t] = "none" /\ Owner(t) /\ c \in Clients /\ pc[t] = "idle"
    BY <1>0, <1>1, <2>1, Zenon DEF Phases, Owner
  <2>3. Recycle(c) /\ Owed(c)
    BY <1>2, <2>1, <2>2, Zenon
  <2>4. Shrinks
    BY <1>0, <2>2, <2>3, ReleaseEffect, Zenon
  <2>5. /\ \A u \in Threads \ {t} : work'[u] = work[u] /\ task'[u] = task[u] /\ cl'[u] = cl[u]
        /\ task'[t] = "idle" /\ cl'[t] = NoClient
    BY <1>0, <2>1, Zenon
  <2>6. Phases'
    BY <1>3, <2>2, <2>4, <2>5, Zenon DEF Shrinks
  <2>7. CallTypeOK'
    BY <1>0, <2>1, <2>2, Zenon DEF CallTypeOK, TaskStates
  <2>8. ~ Owner(t)'
    BY <2>5, Zenon DEF Owner
  <2>9. CallInv' /\ (LeakInv => LeakInv')
    BY <1>1, <1>2, <2>1, <2>2, <2>3, <2>5, <2>6, <2>7, <2>8, ReleasedInv, SMTT(60)
  <2> QED
    BY <2>2, <2>3, <2>9 DEF CallRelease
<1>5. CASE WorkerReleases(t)
  <2>1. /\ work[t] = "release" /\ work' = [work EXCEPT ![t] = "released"]
        /\ UNCHANGED <<task, cl, cancelled, destroy, forsaken>>
    BY <1>5 DEF WorkerReleases, Set
  <2>2. c # NoClient /\ c \in Clients /\ Owner(t)
    BY <1>0, <1>1, <2>1, Zenon DEF Owner
  <2>3. (Recycle(c) /\ killed' = killed) \/ (Destroy(c) /\ killed' = killed \cup {c})
    BY <1>1, <1>5 DEF WorkerReleases
  <2>4. (Recycle(c) /\ Owed(c)) \/ Destroy(c)
    BY <1>2, <2>2, <2>3
  <2>5. Shrinks
    BY <1>0, <2>2, <2>4, ReleaseEffect, Zenon
  <2>6. /\ \A u \in Threads \ {t} : work'[u] = work[u] /\ task'[u] = task[u] /\ cl'[u] = cl[u]
        /\ work'[t] = "released"
    BY <1>0, <2>1, Zenon
  <2>7. Phases'
    BY <1>0, <2>1, <2>5, <2>6, Zenon DEF Phases, Shrinks
  <2>8. CallTypeOK'
    BY <1>0, <1>1, <2>1, <2>2, <2>3, Zenon DEF CallTypeOK, WorkStates
  <2>9. ~ Owner(t)'
    BY <2>6, Zenon DEF Owner
  <2>10. CallInv' /\ (LeakInv => LeakInv')
    BY <1>1, <1>2, <2>1, <2>2, <2>4, <2>6, <2>7, <2>8, <2>9, ReleasedInv, ZenonT(60)
  <2> QED
    BY <2>2, <2>4, <2>10, SMTT(60) DEF CallRelease
<1>6. CASE DiscardRemoves(t)
  <2>1. /\ task[t] = "remove" /\ Destroy(c) /\ task' = [task EXCEPT ![t] = "idle"]
        /\ held' = held \ (IF \E u \in Threads \ {t} : cl[u] = c THEN {} ELSE {c})
        /\ UNCHANGED <<work, cl, cancelled, destroy, killed, forsaken>>
    BY <1>1, <1>6 DEF DiscardRemoves, Set
  <2>2. c # NoClient /\ c \in Clients /\ pc[t] = "idle"
    BY <1>0, <1>1, <2>1, Zenon DEF Phases
  <2>3. Shrinks
    BY <1>0, <2>1, <2>2, ReleaseEffect, Zenon
  <2>4. /\ \A u \in Threads \ {t} : work'[u] = work[u] /\ task'[u] = task[u] /\ cl'[u] = cl[u]
        /\ task'[t] = "idle" /\ cl'[t] = c
    BY <1>0, <1>1, <2>1, Zenon
  <2>5. Phases'
    BY <1>3, <2>2, <2>3, <2>4, SMTT(60) DEF Shrinks
  <2>6. CallTypeOK'
    BY <1>0, <2>1 DEF CallTypeOK, TaskStates
  <2>7. \A u \in Threads \ {t} : Owner(u) /\ cl[u] = c => c \notin held \/ c \in held'
    BY <2>1, Zenon
  <2>8. Owner(t)' => cl'[t] = c /\ Owner(t) /\ Destroy(c)
    BY <1>1, <2>1, <2>4, Zenon DEF Owner
  <2>9. CallInv' /\ (LeakInv => LeakInv')
    BY <1>1, <2>1, <2>2, <2>4, <2>5, <2>6, <2>7, <2>8, ReleasedInv, SMTT(60)
  <2> QED
    BY <2>1, <2>2, <2>9, Zenon DEF CallRelease
<1> QED
  BY <1>4, <1>5, <1>6, Zenon

LEMMA ShutdownInv ==
    ASSUME CallInv, \/ CloseClient
                    \/ \E k \in 1 .. MaxSize : Reap(k) /\ UNCHANGED callVars
    PROVE  CallInv' /\ (LeakInv => LeakInv')
<1>0. /\ CallTypeOK /\ Phases /\ IInv
      /\ task \in [Threads -> TaskStates]
  BY DEF CallInv, CallTypeOK
<1>1. UNCHANGED <<work, cl, cancelled, destroy, killed, forsaken>>
  BY DEF CloseClient, callVars
<1>2. task' \in [Threads -> TaskStates]
  BY <1>0 DEF CloseClient, callVars, TaskStates
<1>3. \A u \in Threads : task'[u] = task[u] \/ (task[u] = "acquiring" /\ task'[u] = "reclaim")
  BY <1>0 DEF CloseClient, callVars, Pending
<1>4. /\ IInv' /\ UNCHANGED <<held, client, mine>> /\ all' \subseteq all /\ lent' \subseteq lent
      /\ NotifyAll(pc)
  <2>1. CASE Close
    BY <1>0, <2>1, CloseInv, Zenon DEF Close
  <2>2. ASSUME NEW k \in 1 .. MaxSize, Reap(k)
        PROVE  /\ IInv' /\ UNCHANGED <<held, client, mine>> /\ all' \subseteq all /\ lent' \subseteq lent
               /\ NotifyAll(pc)
    BY <1>0, <2>2, ReapInv DEF Reap
  <2> QED
    BY <2>1, <2>2 DEF CloseClient
<1>5. \A u \in Threads : pc'[u] # "idle" => pc[u] # "idle"
  BY <1>0, <1>4, WakesEnterNobody
<1>6. CallTypeOK'
  BY <1>0, <1>1, <1>2, Zenon DEF CallTypeOK
<1>7. Phases'
  BY <1>0, <1>1, <1>3, <1>5, Zenon DEF Phases
<1>8. CallInv'
  BY <1>1, <1>4, <1>6, <1>7, SameOwners, Zenon DEF CallInv
<1>9. ASSUME LeakInv PROVE LeakInv'
  BY <1>1, <1>3, <1>4, <1>9, SMTT(60) DEF LeakInv, Accounted, Answers
<1> QED
  BY <1>8, <1>9

-----------------------------------------------------------------------------
\* The theorems

LEMMA CallStepInv ==
    ASSUME CallInv, [CallNext]_allVars
    PROVE  CallInv' /\ (LeakInv => LeakInv')
<1>1. CASE UNCHANGED allVars
  <2>1. UNCHANGED vars /\ UNCHANGED <<task, work, cl, cancelled, destroy, killed, forsaken>>
    BY <1>1 DEF allVars, callVars
  <2>2. CallTypeOK' /\ Phases'
    BY <2>1, PoolUnchanged DEF CallInv, CallTypeOK, Phases
  <2>3. CallInv'
    BY <2>1, <2>2, LoopInv, SMTT(60) DEF Owner
  <2>4. LeakInv => LeakInv'
    BY <2>1, PoolUnchanged DEF LeakInv, Accounted, Answers
  <2> QED
    BY <2>3, <2>4
<1>2. ASSUME NEW t \in Threads, LoopStep(t) PROVE CallInv' /\ (LeakInv => LeakInv')
  BY <1>2, LoopStepInv
<1>3. ASSUME NEW t \in Threads, WorkerStarts(t) \/ WorkerSteps(t) PROVE CallInv' /\ (LeakInv => LeakInv')
  BY <1>3, ThreadStepInv
<1>4. ASSUME NEW t \in Threads, WorkerReturns(t) PROVE CallInv' /\ (LeakInv => LeakInv')
  BY <1>4, ReturnInv
<1>5. ASSUME NEW t \in Threads, Reclaim(t) \/ WorkerReleases(t) \/ DiscardRemoves(t)
      PROVE  CallInv' /\ (LeakInv => LeakInv')
  BY <1>5, CallReleaseInv
<1>6. CASE CloseClient \/ \E k \in 1 .. MaxSize : Reap(k) /\ UNCHANGED callVars
  BY <1>6, ShutdownInv
<1>7. CASE Stopped
  BY <1>1, <1>7 DEF Stopped
<1> QED
  BY <1>1, <1>2, <1>3, <1>4, <1>5, <1>6, <1>7, Zenon DEF CallNext, LoopStep

LEMMA CallInvariant == CallSpec => []CallInv
<1>1. CallInit => CallInv
  BY CallInitInv
<1>2. CallInv /\ [CallNext]_allVars => CallInv'
  BY CallStepInv
<1> QED
  BY <1>1, <1>2, PTL DEF CallSpec

\* Two tasks never share one native connection, whatever is cancelled when,
\* for every number of concurrent calls and however long a factory call takes.
THEOREM OneTaskPerClientHolds == CallSpec => []OneTaskPerClient
<1>1. CallInv => OneTaskPerClient
  <2> SUFFICES ASSUME CallInv, NEW t \in Threads, NEW u \in Threads, t # u, Working(t), Working(u)
               PROVE  cl[t] # cl[u]
    BY DEF OneTaskPerClient
  <2>1. Owner(t) /\ Owner(u)
    BY DEF CallInv, CallTypeOK, Working, Owner
  <2> QED
    BY <2>1 DEF CallInv, Alone
<1> QED
  BY <1>1, CallInvariant, PTL

\* "a cancelled acquire can never leak a lent slot" (_acquire()), for every
\* number of calls and however long a ping or a connect takes: what nobody is
\* there to give back is a client that came after its reclaim thread had given
\* up, acquire_timeout + 5 seconds after the cancellation.
THEOREM NoSlotLeaksHolds == CallSpec => []NoSlotLeaks
<1>1. CallInit => CallInv /\ LeakInv
  BY CallInitInv
<1>2. CallInv /\ LeakInv /\ [CallNext]_allVars => CallInv' /\ LeakInv'
  BY CallStepInv
<1>3. LeakInv => NoSlotLeaks
  BY DEF LeakInv, Accounted, NoSlotLeaks
<1> QED
  BY <1>1, <1>2, <1>3, PTL DEF CallSpec

\* So the composed system has what the pool promises its disciplined callers:
\* exactly one lending state per slot, and no client lent twice, also when
\* StaleReleases allows more than the calls do.
THEOREM CallsLendOnce == CallSpec => [](LendingState /\ NeverLentTwice)
<1>1. CallInv => LendingState /\ NeverLentTwice
  BY PoolAssumption DEF CallInv, IInv, PoolInv, OwnInv, NeverLentTwice, TypeOK
<1> QED
  BY <1>1, CallInvariant, PTL
=============================================================================
