--------------------------- MODULE ConnectionPool ---------------------------
(***************************************************************************)
(* The thread-safe pool of native clients of the Python package            *)
(* (st_clickhouse/_pool.py).                                               *)
(*                                                                         *)
(* Every block under self._cond is one action; factory calls and pings run *)
(* between two of them.  A slot (PooledConnection) and the client in it    *)
(* have separate identities, because a failed health check replaces the    *)
(* client of a slot that stays lent.  The clock is abstracted: a deadline  *)
(* may pass, a slot may be idle for too long, at any time.                 *)
(*                                                                         *)
(* Callers may destroy any client at any time (a discard() after a         *)
(* cancellation can come late), but unless StaleReleases they recycle no   *)
(* client that is lent to somebody else.                                   *)
(***************************************************************************)
EXTENDS Integers, SequencesExt

CONSTANTS
    Threads,        \* the threads that call acquire()
    Slots,          \* identities of PooledConnection objects
    Clients,        \* identities of native clients
    NoSlot,         \* None
    MinSize,        \* self._min
    MaxSize,        \* self._max
    StaleReleases   \* callers release clients they no longer hold

ASSUME PoolAssumption ==
    /\ MaxSize \in Nat \ {0}
    /\ MinSize \in 0 .. MaxSize
    /\ IsFiniteSet(Threads)
    /\ NoSlot \notin Slots
    /\ StaleReleases \in BOOLEAN

VARIABLES
    all,        \* _all
    available,  \* _available, left end first
    lent,       \* _lent
    creating,   \* _creating
    closed,     \* _closed
    client,     \* the field client of each slot
    held,       \* the clients acquire() returned that callers have not released
    waiters,    \* the threads in the condition's queue
    pc,         \* where each thread is
    mine,       \* the slot that _hand_out() works on
    expired     \* the acquire deadline of the thread has passed

pool == <<all, available, lent, creating, closed, client>>
vars == <<pool, held, waiters, pc, mine, expired>>

PCs == {"idle", "reserve", "waiting", "growing", "checking", "replacing"}

Goto(t, p) == [pc EXCEPT ![t] = p]

\* The objects nobody refers to: a factory call returns one of them.
FreshSlots == Slots \ (all \cup Range(available) \cup lent \cup {mine[t] : t \in Threads})
FreshClients == Clients \ (held \cup {client[s] : s \in all})

\* Condition.notify_all() in a step that moves the caller to the state p.
NotifyAll(p) ==
    /\ pc' = [t \in Threads |-> IF t \in waiters /\ p[t] = "waiting" THEN "reserve" ELSE p[t]]
    /\ waiters' = {}

\* Condition.notify(): one queued thread, if there is one.  A thread whose
\* wait timed out stays queued until it has the lock again.
Notify ==
    \/ waiters = {} /\ UNCHANGED <<pc, waiters>>
    \/ \E w \in waiters :
           /\ waiters' = waiters \ {w}
           /\ pc' = Goto(w, "reserve")

-----------------------------------------------------------------------------
\* acquire(): _reserve()

Acquire(t) ==
    /\ pc[t] = "idle"
    /\ pc' = Goto(t, "reserve")
    /\ expired' = [expired EXCEPT ![t] = FALSE]
    /\ UNCHANGED <<pool, held, waiters, mine>>

\* Mutant of DeadlinePasses: the wait has no timeout.
DeadlineNotWaitedFor(t) ==
    /\ pc[t] \in {"reserve", "waiting"}
    /\ ~ expired[t]
    /\ expired' = [expired EXCEPT ![t] = TRUE]
    /\ UNCHANGED <<pool, held, waiters, pc, mine>>

\* The deadline passes while the thread waits, or while it wants the lock.
DeadlinePasses(t) ==
    /\ pc[t] \in {"reserve", "waiting"}
    /\ ~ expired[t]
    /\ expired' = [expired EXCEPT ![t] = TRUE]
    /\ pc' = Goto(t, "reserve")
    /\ UNCHANGED <<pool, held, waiters, mine>>

ReserveClosed(t) ==
    /\ pc[t] = "reserve"
    /\ closed
    /\ pc' = Goto(t, "idle")
    /\ waiters' = waiters \ {t}
    /\ UNCHANGED <<pool, held, mine, expired>>

\* Mutant of ReserveSlot: the slot is not taken out of the queue.
ReserveSlotPeeks(t) ==
    /\ pc[t] = "reserve"
    /\ ~ closed
    /\ available # <<>>
    /\ lent' = lent \cup {Head(available)}
    /\ mine' = [mine EXCEPT ![t] = Head(available)]
    /\ pc' = Goto(t, "checking")
    /\ waiters' = waiters \ {t}
    /\ UNCHANGED <<all, available, creating, closed, client, held, expired>>

ReserveSlot(t) ==
    /\ pc[t] = "reserve"
    /\ ~ closed
    /\ available # <<>>
    /\ available' = Tail(available)
    /\ lent' = lent \cup {Head(available)}
    /\ mine' = [mine EXCEPT ![t] = Head(available)]
    /\ pc' = Goto(t, "checking")
    /\ waiters' = waiters \ {t}
    /\ UNCHANGED <<all, creating, closed, client, held, expired>>

\* Mutant of CanGrow: growth that is in flight is not counted.
CanGrowUncounted == Cardinality(all) < MaxSize

CanGrow == Cardinality(all) + creating < MaxSize

ReserveGrowth(t) ==
    /\ pc[t] = "reserve"
    /\ ~ closed
    /\ available = <<>>
    /\ CanGrow
    /\ creating' = creating + 1
    /\ pc' = Goto(t, "growing")
    /\ waiters' = waiters \ {t}
    /\ UNCHANGED <<all, available, lent, closed, client, held, mine, expired>>

\* Every slot is busy: raise after the deadline, wait before it.
ReserveBusy(t) ==
    /\ pc[t] = "reserve"
    /\ ~ closed
    /\ available = <<>>
    /\ ~ CanGrow
    /\ IF expired[t]
       THEN pc' = Goto(t, "idle") /\ waiters' = waiters \ {t}
       ELSE pc' = Goto(t, "waiting") /\ waiters' = waiters \cup {t}
    /\ UNCHANGED <<pool, held, mine, expired>>

-----------------------------------------------------------------------------
\* acquire(): _grow()

\* Mutant of GrowOk: a pool that was closed meanwhile is not noticed.
GrowOkClosed(t, s, c) ==
    /\ pc[t] = "growing"
    /\ creating' = creating - 1
    /\ all' = all \cup {s}
    /\ lent' = lent \cup {s}
    /\ client' = [client EXCEPT ![s] = c]
    /\ held' = held \cup {c}
    /\ pc' = Goto(t, "idle")
    /\ UNCHANGED <<available, closed, waiters, mine, expired>>

GrowOk(t, s, c) ==
    /\ pc[t] = "growing"
    /\ ~ closed
    /\ creating' = creating - 1
    /\ all' = all \cup {s}
    /\ lent' = lent \cup {s}
    /\ client' = [client EXCEPT ![s] = c]
    /\ held' = held \cup {c}
    /\ pc' = Goto(t, "idle")
    /\ UNCHANGED <<available, closed, waiters, mine, expired>>

\* Mutant of GrowFails: the booked capacity is not rolled back.
GrowFailsKeepsBooking(t) ==
    /\ pc[t] = "growing"
    /\ NotifyAll(Goto(t, "idle"))
    /\ UNCHANGED <<all, available, lent, creating, closed, client, held, mine, expired>>

\* Mutant of GrowFails: the booking is rolled back twice.
GrowFailsTwice(t) ==
    /\ pc[t] = "growing"
    /\ creating' = creating - 2
    /\ NotifyAll(Goto(t, "idle"))
    /\ UNCHANGED <<all, available, lent, closed, client, held, mine, expired>>

\* The factory raised, or the pool is closed when its client arrives.
GrowFails(t) ==
    /\ pc[t] = "growing"
    /\ creating' = creating - 1
    /\ NotifyAll(Goto(t, "idle"))
    /\ UNCHANGED <<all, available, lent, closed, client, held, mine, expired>>

-----------------------------------------------------------------------------
\* acquire(): _hand_out()

Leave(t) == mine' = [mine EXCEPT ![t] = NoSlot]

StillLent(t) == ~ closed /\ mine[t] \in lent

\* Recently used, or the ping succeeded.
CheckOk(t) ==
    /\ pc[t] = "checking"
    /\ StillLent(t)
    /\ held' = held \cup {client[mine[t]]}
    /\ pc' = Goto(t, "idle")
    /\ Leave(t)
    /\ UNCHANGED <<pool, waiters, expired>>

PingFails(t) ==
    /\ pc[t] = "checking"
    /\ pc' = Goto(t, "replacing")
    /\ UNCHANGED <<pool, held, waiters, mine, expired>>

ReplaceOk(t, c) ==
    /\ pc[t] = "replacing"
    /\ StillLent(t)
    /\ client' = [client EXCEPT ![mine[t]] = c]
    /\ held' = held \cup {c}
    /\ pc' = Goto(t, "idle")
    /\ Leave(t)
    /\ UNCHANGED <<all, available, lent, creating, closed, waiters, expired>>

\* The slot was removed while it was checked: "Pool is closed".
SlotGone(t) ==
    /\ pc[t] \in {"checking", "replacing"}
    /\ ~ StillLent(t)
    /\ pc' = Goto(t, "idle")
    /\ Leave(t)
    /\ UNCHANGED <<pool, held, waiters, expired>>

\* Mutant of DropSlot: the blocked threads are not notified.
DropSlotSilent(t) ==
    /\ pc[t] \in {"checking", "replacing"}
    /\ lent' = lent \ {mine[t]}
    /\ all' = all \ {mine[t]}
    /\ pc' = Goto(t, "idle")
    /\ Leave(t)
    /\ UNCHANGED <<available, creating, closed, client, held, waiters, expired>>

\* _drop_slot(): no replacement could be created, or a BaseException left
\* through the ping.
DropSlot(t) ==
    /\ pc[t] \in {"checking", "replacing"}
    /\ lent' = lent \ {mine[t]}
    /\ all' = all \ {mine[t]}
    /\ NotifyAll(Goto(t, "idle"))
    /\ Leave(t)
    /\ UNCHANGED <<available, creating, closed, client, held, expired>>

-----------------------------------------------------------------------------
\* release(), close() and the reaper

SlotsOf(c) == {s \in all : client[s] = c}

\* What callers recycle: the clients they hold, and clients that are not lent
\* (a double release, an unknown client); a client that is lent to somebody
\* else only if StaleReleases.
MayRecycle(c) == c \in held \/ SlotsOf(c) \cap lent = {} \/ StaleReleases

\* Mutant of Recycle: a slot is made available whether it was lent or not.
RecycleUnchecked(c) ==
    /\ MayRecycle(c)
    /\ held' = held \ {c}
    /\ \/ /\ closed \/ SlotsOf(c) = {}
          /\ UNCHANGED <<available, lent, pc, waiters>>
       \/ \E s \in SlotsOf(c) :
              /\ lent' = lent \ {s}
              /\ available' = Append(available, s)
              /\ Notify
    /\ UNCHANGED <<all, creating, closed, client, mine, expired>>

\* release(client, destroy=False)
Recycle(c) ==
    /\ MayRecycle(c)
    /\ held' = held \ {c}
    /\ \/ /\ closed \/ SlotsOf(c) \cap lent = {}
          /\ UNCHANGED <<available, lent, pc, waiters>>
       \/ \E s \in SlotsOf(c) \cap lent :
              /\ lent' = lent \ {s}
              /\ available' = Append(available, s)
              /\ Notify
    /\ UNCHANGED <<all, creating, closed, client, mine, expired>>

\* release(client, destroy=True), by the caller that holds the client or by
\* another one.
Destroy(c) ==
    /\ held' \in {held, held \ {c}}
    /\ \/ /\ closed \/ SlotsOf(c) = {}
          /\ UNCHANGED <<all, available, lent, pc, waiters>>
       \/ \E s \in SlotsOf(c) :
              /\ lent' = lent \ {s}
              /\ available' = RemoveFirst(available, s)
              /\ all' = all \ {s}
              /\ NotifyAll(pc)
    /\ UNCHANGED <<creating, closed, client, mine, expired>>

Close ==
    /\ closed' = TRUE
    /\ all' = {}
    /\ available' = <<>>
    /\ lent' = {}
    /\ NotifyAll(pc)
    /\ UNCHANGED <<creating, client, held, mine, expired>>

\* _reap_once().  The queue is ordered by last_used, so the slots that are
\* idle for too long are its first ones.
Reap(k) ==
    /\ ~ closed
    /\ k <= Len(available) - MinSize
    /\ available' = SubSeq(available, k + 1, Len(available))
    /\ all' = all \ {available[i] : i \in 1 .. k}
    /\ NotifyAll(pc)
    /\ UNCHANGED <<lent, creating, closed, client, held, mine, expired>>

-----------------------------------------------------------------------------
\* The constructor fills the pool with MinSize fresh clients.
Init ==
    /\ available \in {q \in [1 .. MinSize -> Slots] : IsInjective(q)}
    /\ all = Range(available)
    /\ lent = {}
    /\ creating = 0
    /\ closed = FALSE
    /\ client \in [Slots -> Clients]
    /\ \A s, r \in all : client[s] = client[r] => s = r
    /\ held = {}
    /\ waiters = {}
    /\ pc = [t \in Threads |-> "idle"]
    /\ mine = [t \in Threads |-> NoSlot]
    /\ expired = [t \in Threads |-> FALSE]

Reserve(t) == ReserveClosed(t) \/ ReserveSlot(t) \/ ReserveGrowth(t) \/ ReserveBusy(t)

Grow(t) ==
    \/ \E s \in FreshSlots, c \in FreshClients : GrowOk(t, s, c)
    \/ GrowFails(t)

HandOut(t) ==
    \/ CheckOk(t) \/ PingFails(t) \/ SlotGone(t) \/ DropSlot(t)
    \/ \E c \in FreshClients : ReplaceOk(t, c)

Next ==
    \/ \E t \in Threads :
           Acquire(t) \/ DeadlinePasses(t) \/ Reserve(t) \/ Grow(t) \/ HandOut(t)
    \/ \E c \in Clients : Recycle(c) \/ Destroy(c)
    \/ Close
    \/ \E k \in 1 .. MaxSize : Reap(k)

Spec == Init /\ [][Next]_vars

\* The lock is held only for the length of an action, deadlines pass, and
\* factory calls and pings end: the native client bounds them by its connect
\* and receive timeouts.  Callers owe the pool nothing.
Fairness ==
    \A t \in Threads :
        /\ WF_vars(DeadlinePasses(t))
        /\ WF_vars(Reserve(t))
        /\ WF_vars(Grow(t))
        /\ WF_vars(HandOut(t))

FairSpec == Spec /\ Fairness

-----------------------------------------------------------------------------
\* Properties

\* Every variable has its type.
TypeOK ==
    /\ all \subseteq Slots
    /\ available \in Seq(Slots)
    /\ lent \subseteq Slots
    /\ creating \in Nat
    /\ closed \in BOOLEAN
    /\ client \in [Slots -> Clients]
    /\ held \subseteq Clients
    /\ waiters \subseteq Threads
    /\ pc \in [Threads -> PCs]
    /\ mine \in [Threads -> Slots \cup {NoSlot}]
    /\ expired \in [Threads -> BOOLEAN]

\* Documented invariant 1: exactly one lending state per slot.  The available
\* slots, each queued once, and the lent ones partition _all.
LendingState ==
    /\ Range(available) \cup lent = all
    /\ Range(available) \cap lent = {}
    /\ IsInjective(available)

\* Documented invariant 2: the pool never outgrows max_size, counting the
\* factory calls in flight.
BoundedGrowth == Cardinality(all) + creating <= MaxSize

\* Documented invariant 3: a closed pool has no slots, whatever was in flight
\* when it was closed.
ClosedIsEmpty == closed => all = {} /\ available = <<>> /\ lent = {}

\* "A client can therefore never be lent twice": a client in a caller's hands
\* is not available to others, and no thread health-checks its slot.
NeverLentTwice ==
    /\ \A s \in Range(available) : client[s] \notin held
    /\ \A t \in Threads : mine[t] \in all => client[mine[t]] \notin held
    /\ \A t, u \in Threads : mine[t] = mine[u] /\ mine[t] \in all => t = u

\* No wakeup is lost: while a thread sleeps in acquire(), every available slot
\* and every unit of free capacity has a running thread on its way to take it.
NoLostWakeup ==
    LET free == MaxSize - Cardinality(all) - creating
        awake == {t \in Threads \ waiters : pc[t] = "reserve"}
    IN  ~ closed /\ (\E t \in Threads : pc[t] = "waiting")
            => Len(available) + free <= Cardinality(awake)

\* Every acquire() returns or raises, also when callers keep their clients and
\* when the pool is closed.
AcquireEnds == \A t \in Threads : pc[t] # "idle" ~> pc[t] = "idle"

\* Documented invariant 3, second half: after close() _creating drains to zero.
CreatingDrains == closed ~> [](creating = 0)
=============================================================================
