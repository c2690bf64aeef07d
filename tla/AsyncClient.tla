---------------------------- MODULE AsyncClient -----------------------------
(***************************************************************************)
(* One-shot operations of the Python AsyncClient on the pool: _acquire()   *)
(* and _run_pooled() of st_clickhouse/__init__.py, composed with           *)
(* ConnectionPool.                                                         *)
(*                                                                         *)
(* A call has three parts that run concurrently: the asyncio task, which   *)
(* can be cancelled at its awaits; the worker that runs pool.acquire() (a  *)
(* thread of ConnectionPool); and the worker that runs the operation and   *)
(* releases the client.  Cancelling an await cancels the asyncio future at *)
(* once, and the worker behind it goes on.  The loop learns that a worker  *)
(* is through only some time after it is.                                  *)
(***************************************************************************)
EXTENDS ConnectionPool

CONSTANT NoClient   \* no client in the holder

ASSUME CallAssumption == NoClient \notin Clients

VARIABLES
    task,       \* the asyncio task of each call
    work,       \* its operation in the default executor
    cl,         \* the client of the call: holder["client"], then client
    cancelled,  \* the event `cancelled` of _run_pooled()
    destroy,    \* the argument its worker evaluated for release()
    killed,     \* the clients whose socket was shut down by _kill()
    forsaken    \* history: the clients that came too late for their reclaim thread

callVars == <<task, work, cl, cancelled, destroy, killed, forsaken>>
allVars == <<vars, callVars>>

TaskStates == {"idle", "acquiring", "reclaim", "lost", "running", "discard", "remove"}
WorkStates == {"none", "queued", "op", "release", "released"}

Set(f, t, v) == f' = [f EXCEPT ![t] = v]

\* The loop runs one callback at a time: discard() is called from it, with no
\* await on the way.
LoopFree == \A t \in Threads : task[t] \notin {"discard", "remove"}

\* The acquire is queued in its executor and has not started.
Pending(t) == task[t] = "acquiring" /\ cl[t] = NoClient /\ pc[t] = "idle"

\* A call's client is an object somebody refers to.
Unreferenced(c) == \A t \in Threads : cl[t] # c

-----------------------------------------------------------------------------
\* _acquire()

\* _check_open() passed; the acquire is queued.
Start(t) ==
    /\ task[t] = "idle" /\ work[t] = "none" /\ cl[t] = NoClient /\ pc[t] = "idle"
    /\ LoopFree
    /\ ~ closed
    /\ Set(task, t, "acquiring")
    /\ UNCHANGED <<vars, work, cl, cancelled, destroy, killed, forsaken>>

WorkerStarts(t) ==
    /\ Pending(t)
    /\ Acquire(t)
    /\ UNCHANGED callVars

\* The worker's steps inside pool.acquire() that return no client; when it
\* raises, the call is over.
WorkerSteps(t) ==
    /\ \/ DeadlinePasses(t) \/ Reserve(t) \/ GrowFails(t)
       \/ PingFails(t) \/ SlotGone(t) \/ DropSlot(t)
    /\ Set(task, t, IF pc'[t] = "idle" THEN "idle" ELSE task[t])
    /\ UNCHANGED <<work, cl, cancelled, destroy, killed, forsaken>>

\* pool.acquire() returned c into the holder.  Nobody looks there any more
\* when the reclaim thread has given up.
WorkerAcquired(t, c) ==
    /\ IF task[t] = "lost"
       THEN Set(task, t, "idle") /\ forsaken' = forsaken \cup {c} /\ UNCHANGED cl
       ELSE Set(cl, t, c) /\ forsaken' = forsaken \ {c} /\ UNCHANGED task
    /\ UNCHANGED <<work, cancelled, destroy>>

WorkerReturns(t) ==
    \/ /\ CheckOk(t)
       /\ WorkerAcquired(t, client[mine[t]])
       /\ UNCHANGED killed
    \/ \E c \in FreshClients :
           /\ Unreferenced(c)
           /\ ReplaceOk(t, c) \/ \E s \in FreshSlots : GrowOk(t, s, c)
           /\ WorkerAcquired(t, c)
           /\ killed' = killed \ {c}

\* Mutant of CancelAcquire: nobody waits for the worker.
CancelAcquireForgets(t) ==
    /\ task[t] = "acquiring" /\ LoopFree
    /\ IF Pending(t)
       THEN Set(task, t, "idle") /\ UNCHANGED cl
       ELSE Set(task, t, IF cl[t] = NoClient THEN "lost" ELSE "idle") /\ Set(cl, t, NoClient)
    /\ UNCHANGED <<vars, work, cancelled, destroy, killed, forsaken>>

\* The task is cancelled and a reclaim thread waits for the worker.  An acquire
\* that has not started was cancelled with its future and never starts.
CancelAcquire(t) ==
    /\ task[t] = "acquiring" /\ LoopFree
    /\ Set(task, t, "reclaim")
    /\ UNCHANGED <<vars, work, cl, cancelled, destroy, killed, forsaken>>

Reclaim(t) ==
    /\ task[t] = "reclaim" /\ cl[t] # NoClient
    /\ Recycle(cl[t])
    /\ Set(task, t, "idle") /\ Set(cl, t, NoClient)
    /\ UNCHANGED <<work, cancelled, destroy, killed, forsaken>>

\* acquire_timeout + 5 seconds have passed since the cancellation: the acquire
\* never started, or its worker, past _reserve() by then, still checks or
\* connects.
ReclaimGivesUp(t) ==
    /\ task[t] = "reclaim" /\ cl[t] = NoClient
    /\ \/ pc[t] = "idle"
       \/ pc[t] \in {"growing", "checking", "replacing"}
    /\ Set(task, t, IF pc[t] = "idle" THEN "idle" ELSE "lost")
    /\ UNCHANGED <<vars, work, cl, cancelled, destroy, killed, forsaken>>

-----------------------------------------------------------------------------
\* _run_pooled()

AcquireSeen(t) ==
    /\ task[t] = "acquiring" /\ cl[t] # NoClient /\ LoopFree
    /\ Set(task, t, "running") /\ Set(work, t, "queued") /\ Set(cancelled, t, FALSE)
    /\ UNCHANGED <<vars, cl, destroy, killed, forsaken>>

OpStarts(t) ==
    /\ work[t] = "queued"
    /\ Set(work, t, "op")
    /\ UNCHANGED <<vars, task, cl, cancelled, destroy, killed, forsaken>>

\* The operation returned or raised; the worker reads cancelled.is_set().
OpEnds(t) ==
    /\ work[t] = "op"
    /\ Set(work, t, "release") /\ Set(destroy, t, cancelled[t])
    /\ UNCHANGED <<vars, task, cl, cancelled, killed, forsaken>>

\* The release in the worker's `finally`.
WorkerReleases(t) ==
    /\ work[t] = "release"
    /\ IF destroy[t]
       THEN Destroy(cl[t]) /\ held' = held \ {cl[t]} /\ killed' = killed \cup {cl[t]}
       ELSE Recycle(cl[t]) /\ UNCHANGED killed
    /\ Set(work, t, "released")
    /\ UNCHANGED <<task, cl, cancelled, destroy, forsaken>>

\* The call is over for the loop and for the worker.
CallEnds(t) ==
    /\ task[t] = "idle" /\ work[t] = "released"
    /\ Set(work, t, "none") /\ Set(cl, t, NoClient)
    /\ UNCHANGED <<vars, task, cancelled, destroy, killed, forsaken>>

\* Mutant of ResultSeen: the operation releases its client once more.
ResultSeenReleases(t) ==
    /\ task[t] = "running" /\ work[t] = "released" /\ LoopFree
    /\ Recycle(cl[t])
    /\ Set(task, t, "idle")
    /\ UNCHANGED <<work, cl, cancelled, destroy, killed, forsaken>>

\* The loop sees the finished future; a cancellation from now on finds it
\* done and leaves the client alone.
ResultSeen(t) ==
    /\ task[t] = "running" /\ work[t] = "released" /\ LoopFree
    /\ Set(task, t, "idle")
    /\ UNCHANGED <<vars, work, cl, cancelled, destroy, killed, forsaken>>

\* CancelledError arrives before the loop has seen the future done.  Work that
\* has not started by then was cancelled with the future and never runs.
CancelRun(t) ==
    /\ task[t] = "running" /\ LoopFree
    /\ Set(cancelled, t, TRUE)
    /\ Set(task, t, "discard")
    /\ Set(work, t, IF work[t] = "queued" THEN "released" ELSE work[t])
    /\ UNCHANGED <<vars, cl, destroy, killed, forsaken>>

\* pool.discard(client): _kill() outside the lock, then the slot is removed.
DiscardKills(t) ==
    /\ task[t] = "discard"
    /\ killed' = killed \cup {cl[t]}
    /\ Set(task, t, "remove")
    /\ UNCHANGED <<vars, work, cl, cancelled, destroy, forsaken>>

DiscardRemoves(t) ==
    /\ task[t] = "remove"
    /\ Destroy(cl[t])
    /\ held' = held \ (IF \E u \in Threads \ {t} : cl[u] = cl[t] THEN {} ELSE {cl[t]})
    /\ Set(task, t, "idle")
    /\ UNCHANGED <<work, cl, cancelled, destroy, killed, forsaken>>

\* AsyncClient.close(): the pool is closed and pending acquires are dropped.
CloseClient ==
    /\ ~ closed /\ LoopFree
    /\ Close
    /\ task' = [t \in Threads |-> IF Pending(t) THEN "reclaim" ELSE task[t]]
    /\ UNCHANGED <<work, cl, cancelled, destroy, killed, forsaken>>

\* A closed client whose calls are over stops; any other state without a
\* successor is a deadlock.
Stopped ==
    /\ closed
    /\ \A t \in Threads : task[t] = "idle" /\ work[t] = "none" /\ pc[t] = "idle"
    /\ UNCHANGED allVars

-----------------------------------------------------------------------------
CallInit ==
    /\ Init
    /\ task = [t \in Threads |-> "idle"]
    /\ work = [t \in Threads |-> "none"]
    /\ cl = [t \in Threads |-> NoClient]
    /\ cancelled = [t \in Threads |-> FALSE]
    /\ destroy = [t \in Threads |-> FALSE]
    /\ killed = {}
    /\ forsaken = {}

CallNext ==
    \/ \E t \in Threads :
           \/ Start(t) \/ WorkerStarts(t) \/ WorkerSteps(t) \/ WorkerReturns(t)
           \/ CancelAcquire(t) \/ Reclaim(t) \/ ReclaimGivesUp(t)
           \/ AcquireSeen(t) \/ OpStarts(t) \/ OpEnds(t) \/ WorkerReleases(t)
           \/ CallEnds(t) \/ ResultSeen(t) \/ CancelRun(t)
           \/ DiscardKills(t) \/ DiscardRemoves(t)
    \/ CloseClient
    \/ Stopped
    \/ \E k \in 1 .. MaxSize : Reap(k) /\ UNCHANGED callVars

CallSpec == CallInit /\ [][CallNext]_allVars

-----------------------------------------------------------------------------
\* Properties

\* Every variable of a call has its type, and work in the executor always has
\* a client to work on.
CallTypeOK ==
    /\ task \in [Threads -> TaskStates]
    /\ work \in [Threads -> WorkStates]
    /\ cl \in [Threads -> Clients \cup {NoClient}]
    /\ cancelled \in [Threads -> BOOLEAN]
    /\ destroy \in [Threads -> BOOLEAN]
    /\ killed \subseteq Clients
    /\ forsaken \subseteq Clients
    /\ \A t \in Threads : work[t] # "none" => cl[t] # NoClient

Working(t) == work[t] \in {"queued", "op"} /\ ~ cancelled[t]

\* Two tasks never share one native connection, whatever is cancelled when
\* (the failure that the comment in _run_pooled() describes).
OneTaskPerClient ==
    \A t, u \in Threads : t # u /\ Working(t) /\ Working(u) => cl[t] # cl[u]

\* "a cancelled acquire can never leak a lent slot" (_acquire()): somebody is
\* there to give back every lent slot.  One case escapes the reclaim thread: it
\* gave up while the worker was still in a ping or a connect, which no deadline
\* bounds, and the client came after that.
NoSlotLeaks ==
    \A s \in lent :
        \/ \E t \in Threads : mine[t] = s \/ cl[t] = client[s]
        \/ client[s] \in forsaken

\* A client is not killed under a task that was not cancelled: once the worker
\* has released it, it belongs to its new owner ("the ONLY release site, so an
\* acquired client can never be released twice", _run_pooled()).
OwnerUndisturbed == \A t \in Threads : Working(t) => cl[t] \notin killed
=============================================================================
