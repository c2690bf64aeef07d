----------------------------- MODULE SimplePool -----------------------------
(***************************************************************************)
(* The async connection pool of src/src/pool.rs and the response cycles    *)
(* that run on its guards.                                                 *)
(*                                                                         *)
(* A pool is a vector of slots, each an async mutex around an optional     *)
(* connection.  A task is one future of the application: it calls get(),   *)
(* owns a PoolGuard for one operation and drops it.  A future can be       *)
(* dropped at every await point, and what it leaves behind on the socket   *)
(* is what the next task finds there.                                      *)
(*                                                                         *)
(* A connection is abstracted to what decides whether it may be reused:    *)
(*   gen       the configuration generation it was opened under,           *)
(*   inflight  the flag response_in_flight,                                *)
(*   torn      the socket stands inside a packet: half a request was       *)
(*             written, or half a packet was read,                         *)
(*   pending   the requests, oldest first, whose reply has not been read   *)
(*             to its end.  The server answers in order, so a reader       *)
(*             always reads the reply of the head.                         *)
(* The bytes of a reply, the clock and the server are nondeterministic: a  *)
(* read finds a body packet, a terminal packet, a failure or a timeout.    *)
(***************************************************************************)
EXTENDS Integers, Sequences, FiniteSets

CONSTANTS
    Tasks,              \* the application's futures
    NumSlots,           \* slots.len()
    MaxGen,             \* bound: configuration changes
    MaxPending,         \* bound: unread replies on one socket
    MidResponseErrors,  \* a reply may fail to decode before its last packet
    PollAfterAbort      \* callers poll next_block again after an aborted call

ASSUME PoolAssumption ==
    /\ NumSlots \in Nat \ {0}
    /\ MaxGen \in Nat
    /\ MaxPending \in Nat
    /\ IsFiniteSet(Tasks)
    /\ MidResponseErrors \in BOOLEAN
    /\ PollAfterAbort \in BOOLEAN

VARIABLES
    slot,        \* slots: slot index -> connection or NoConn
    next_idx,    \* round-robin counter, modulo the number of slots
    generation,  \* config_generation
    in_use,      \* the metric pool_in_use
    pc,          \* where each task is
    at,          \* the slot a task probes, waits for or holds
    tries,       \* probes left in its try-lock sweep
    op           \* the operation its guard is used for

vars == <<slot, next_idx, generation, in_use, pc, at, tries, op>>

Slots == 0 .. NumSlots - 1

NoConn == [conn |-> FALSE]

Conns == [gen : 0 .. MaxGen, inflight : BOOLEAN, torn : BOOLEAN,
          pending : Seq({"query", "ping"})]

\* query: execute and the reading terminals of QueryBuilder; stream: a
\* BlockStream; insert: an InsertSession; rows: rows() and batch, whose reader
\* task takes the socket; ping: Client::ping; none: server_info.
Ops == {"query", "stream", "insert", "rows"}
AllOps == Ops \cup {"ping", "none"}

\* Inside get(), holding the slot's mutex.
Getting == {"connect", "reconnect", "alive"}

\* A reply of a query is being read.
Reading == {"read", "stream", "structure", "end", "drain"}

\* Holding a PoolGuard.
Guarded == Reading \cup {"held", "preping", "pong", "write", "session", "drained", "done"}

Locking == Getting \cup Guarded

PCs == Locking \cup {"idle", "sweep", "wait"}

Free(s) == \A t \in Tasks : at[t] = s => pc[t] \notin Locking

Conn(t) == slot[at[t]]

Fresh == [gen |-> generation, inflight |-> FALSE, torn |-> FALSE, pending |-> <<>>]

Send(c, kind) == [c EXCEPT !.pending = Append(@, kind)]
Pop(c) == [c EXCEPT !.pending = Tail(@)]

CanSend(c) == Len(c.pending) < MaxPending
HeadIs(c, kind) == c.pending # <<>> /\ Head(c.pending) = kind

SetSlot(t, c) == slot' = [slot EXCEPT ![at[t]] = c]
Goto(t, p) == pc' = [pc EXCEPT ![t] = p]

-----------------------------------------------------------------------------
\* get()

\* The guard is built and counted in pool_in_use.
HandOut(t, c) ==
    /\ SetSlot(t, c)
    /\ Goto(t, "held")
    /\ in_use' = in_use + 1

\* Mutant of Check: the configuration generation is not compared.
CheckIgnoresGen(t, c) ==
    \/ /\ SetSlot(t, c)
       /\ Goto(t, "reconnect")
       /\ UNCHANGED in_use
    \/ /\ CanSend(c)
       /\ SetSlot(t, Send(c, "ping"))
       /\ Goto(t, "alive")
       /\ UNCHANGED in_use
    \/ HandOut(t, c)

\* The checks on a connection found in, or just put into, the locked slot:
\* expired or opened under another configuration, idle too long (a Ping is
\* sent), or trusted as it is.
Check(t, c) ==
    \/ /\ SetSlot(t, c)
       /\ Goto(t, "reconnect")
       /\ UNCHANGED in_use
    \/ /\ c.gen = generation
       /\ CanSend(c)
       /\ SetSlot(t, Send(c, "ping"))
       /\ Goto(t, "alive")
       /\ UNCHANGED in_use
    \/ /\ c.gen = generation
       /\ HandOut(t, c)

Acquired(t) ==
    IF Conn(t) = NoConn
    THEN Goto(t, "connect") /\ UNCHANGED <<slot, in_use>>
    ELSE Check(t, Conn(t))

GetCall(t) ==
    /\ pc[t] = "idle"
    /\ at' = [at EXCEPT ![t] = next_idx]
    /\ next_idx' = (next_idx + 1) % NumSlots
    /\ tries' = [tries EXCEPT ![t] = NumSlots]
    /\ Goto(t, "sweep")
    /\ UNCHANGED <<slot, generation, in_use, op>>

TryLock(t) ==
    /\ pc[t] = "sweep"
    /\ Free(at[t])
    /\ Acquired(t)
    /\ UNCHANGED <<next_idx, generation, at, tries, op>>

\* Mutant of TryLockBusy: the sweep does not wrap around.
TryLockBusyNoWrap(t) ==
    /\ pc[t] = "sweep"
    /\ ~ Free(at[t])
    /\ at' = [at EXCEPT ![t] = @ + 1]
    /\ tries' = [tries EXCEPT ![t] = @ - 1]
    /\ Goto(t, IF tries[t] = 1 THEN "wait" ELSE "sweep")
    /\ UNCHANGED <<slot, next_idx, generation, in_use, op>>

\* A busy slot is skipped; after the last probe at[t] is the assigned slot
\* again, and the task waits for that one.
TryLockBusy(t) ==
    /\ pc[t] = "sweep"
    /\ ~ Free(at[t])
    /\ at' = [at EXCEPT ![t] = (@ + 1) % NumSlots]
    /\ tries' = [tries EXCEPT ![t] = @ - 1]
    /\ Goto(t, IF tries[t] = 1 THEN "wait" ELSE "sweep")
    /\ UNCHANGED <<slot, next_idx, generation, in_use, op>>

LockGranted(t) ==
    /\ pc[t] = "wait"
    /\ Free(at[t])
    /\ Acquired(t)
    /\ UNCHANGED <<next_idx, generation, at, tries, op>>

AcquireTimeout(t) ==
    /\ pc[t] = "wait"
    /\ Goto(t, "idle")
    /\ UNCHANGED <<slot, next_idx, generation, in_use, at, tries, op>>

\* connect_round_robin() returned a connection.  The first connect of an
\* empty slot goes through the checks, a reconnect does not.
ConnectOk(t) ==
    /\ \/ pc[t] = "connect" /\ Check(t, Fresh)
       \/ pc[t] = "reconnect" /\ HandOut(t, Fresh)
    /\ UNCHANGED <<next_idx, generation, at, tries, op>>

ConnectErr(t) ==
    /\ pc[t] \in {"connect", "reconnect"}
    /\ SetSlot(t, NoConn)
    /\ Goto(t, "idle")
    /\ UNCHANGED <<next_idx, generation, in_use, at, tries, op>>

\* is_connection_alive() read one byte: a Pong, or a byte of another reply,
\* which inside a packet may have the value of a Pong.
AliveRead(t) ==
    /\ pc[t] = "alive"
    /\ \/ /\ HeadIs(Conn(t), "ping")
          /\ HandOut(t, Pop(Conn(t)))
       \/ /\ HeadIs(Conn(t), "query")
          /\ Conn(t).torn
          /\ HandOut(t, Conn(t))
       \/ /\ HeadIs(Conn(t), "query")
          /\ SetSlot(t, [Conn(t) EXCEPT !.torn = TRUE])
          /\ Goto(t, "reconnect")
          /\ UNCHANGED in_use
    /\ UNCHANGED <<next_idx, generation, at, tries, op>>

\* Mutant of AliveFails: the Pong is awaited without a time limit.
AliveWaitsForever(t) == FALSE /\ UNCHANGED vars

\* The Ping could not be written, or no Pong came within a second.
AliveFails(t) ==
    /\ pc[t] = "alive"
    /\ Goto(t, "reconnect")
    /\ UNCHANGED <<slot, next_idx, generation, in_use, at, tries, op>>

\* The future is dropped inside get(): the mutex guard is released and the
\* slot keeps what it holds.
DropGet(t) ==
    /\ pc[t] \in Getting \cup {"wait"}
    /\ Goto(t, "idle")
    /\ UNCHANGED <<slot, next_idx, generation, in_use, at, tries, op>>

-----------------------------------------------------------------------------
\* The guard's response cycle

Mark(c) == [c EXCEPT !.inflight = TRUE]
Clear(c) == [c EXCEPT !.inflight = FALSE]
Tear(c) == [c EXCEPT !.torn = TRUE]

Only(t, c, p) ==
    /\ SetSlot(t, c)
    /\ Goto(t, p)
    /\ UNCHANGED <<next_idx, generation, in_use, at, tries, op>>

Stay(t, p) == Only(t, Conn(t), p)

\* Client::ping: mark, then Ping.
StartPing(t) ==
    /\ pc[t] = "held"
    /\ CanSend(Conn(t))
    /\ op' = [op EXCEPT ![t] = "ping"]
    /\ SetSlot(t, Send(Mark(Conn(t)), "ping"))
    /\ Goto(t, "pong")
    /\ UNCHANGED <<next_idx, generation, in_use, at, tries>>

\* Every other operation marks the connection, optionally pings, then writes.
StartQuery(t) ==
    /\ pc[t] = "held"
    /\ op' \in {[op EXCEPT ![t] = o] : o \in Ops}
    /\ \/ /\ CanSend(Conn(t))
          /\ SetSlot(t, Send(Mark(Conn(t)), "ping"))
          /\ Goto(t, "preping")
       \/ /\ SetSlot(t, Mark(Conn(t)))
          /\ Goto(t, "write")
    /\ UNCHANGED <<next_idx, generation, in_use, at, tries>>

\* finish_response() of a ping that read its byte: anything but a Pong is
\* Error::Protocol, which does not discard the connection.
PongRead(t) ==
    /\ pc[t] = "pong"
    /\ \/ HeadIs(Conn(t), "ping") /\ Only(t, Clear(Pop(Conn(t))), "done")
       \/ HeadIs(Conn(t), "query") /\ Only(t, Clear(Tear(Conn(t))), "done")

\* ping_stream() before the query; its error leaves through `?` with the mark
\* still set.
PrePingRead(t) ==
    /\ pc[t] = "preping"
    /\ \/ HeadIs(Conn(t), "ping") /\ Only(t, Pop(Conn(t)), "write")
       \/ HeadIs(Conn(t), "query") /\ Conn(t).torn /\ Stay(t, "write")
       \/ HeadIs(Conn(t), "query") /\ Only(t, Tear(Conn(t)), "done")

AfterWrite == [query |-> "read", stream |-> "stream", insert |-> "structure"]

\* The whole request is on the wire.  rows() and batch take the stream out of
\* the pool.
Written(t) ==
    /\ pc[t] = "write"
    /\ CanSend(Conn(t))
    /\ IF op[t] = "rows"
       THEN Only(t, NoConn, "done")
       ELSE Only(t, Send(Conn(t), "query"), AfterWrite[op[t]])

\* A write or the pre-query Ping failed or was dropped, perhaps with half a
\* request on the wire: send_select_query takes a broken stream, the other
\* operations leave through `?` with the mark set.
WriteFails(t) ==
    /\ pc[t] \in {"preping", "write"}
    /\ \/ Only(t, Tear(Conn(t)), "done")
       \/ op[t] = "query" /\ Only(t, NoConn, "done")

\* Packet 4 is ignored by every response loop.
SkipPong(t) ==
    /\ pc[t] \in Reading
    /\ ~ Conn(t).torn
    /\ HeadIs(Conn(t), "ping")
    /\ Only(t, Pop(Conn(t)), pc[t])

\* The last packet of a reply (EndOfStream or the end of an exception) ends
\* the cycle: finish_response() clears the mark.
ReadTerminal(t) ==
    /\ pc[t] \in {"read", "structure", "stream"}
    /\ ~ Conn(t).torn
    /\ HeadIs(Conn(t), "query")
    /\ Only(t, Clear(Pop(Conn(t))), "done")

\* Mutant of ReadBroken: next_block() takes the stream and is not done.
ReadBrokenNotDone(t) ==
    /\ pc[t] \in {"read", "structure", "stream", "end", "pong"}
    /\ Only(t, NoConn, IF pc[t] = "stream" THEN "stream" ELSE "done")

\* A connection-fatal error (I/O, receive timeout, response too large).
ReadBroken(t) ==
    /\ pc[t] \in {"read", "structure", "stream", "end", "pong"}
    /\ Only(t, NoConn, "done")

\* A non-fatal error before the last packet: finish_response() clears the
\* mark and keeps the connection, next_block() returns through `?`, and a
\* failed end() leaves its session active.  drain_response(), which execute()
\* and end() use, ignores most of these errors and reads on.
MidError(t) ==
    /\ MidResponseErrors
    /\ \/ pc[t] \in {"read", "structure"} /\ Only(t, Clear(Tear(Conn(t))), "done")
       \/ pc[t] = "stream" /\ Only(t, Tear(Conn(t)), "stream")
       \/ pc[t] = "end" /\ Only(t, NoConn, "done")
       \/ pc[t] \in {"read", "end"} /\ Only(t, Tear(Conn(t)), pc[t])

\* A reader inside a packet takes its bytes for the last packet and clears
\* the mark: on a socket that was poisoned before, after an error it ignored,
\* or in next_block() called again after an aborted call.
Misread(t) ==
    /\ pc[t] \in {"read", "structure", "stream", "end"}
    /\ Conn(t).torn
    /\ pc[t] = "stream" => PollAfterAbort \/ MidResponseErrors
    /\ pc[t] = "end" => MidResponseErrors
    /\ Only(t, Clear(Conn(t)), "done")

\* The query deadline elapsed: Cancel is sent and the reply drained.
Deadline(t) ==
    /\ pc[t] \in {"read", "structure", "stream", "end"}
    /\ Stay(t, "drain")

\* cancel_and_drain() reached the last packet, or gave up.  Its outcome is
\* ignored: the caller returns Error::Timeout, and the stream is taken.
DrainTerminal(t) ==
    /\ pc[t] = "drain"
    /\ ~ Conn(t).torn
    /\ HeadIs(Conn(t), "query")
    /\ Only(t, Pop(Conn(t)), "drained")

DrainFails(t) ==
    /\ pc[t] = "drain"
    /\ Only(t, NoConn, "done")

DeadlineError(t) ==
    /\ pc[t] = "drained"
    /\ Only(t, NoConn, "done")

-----------------------------------------------------------------------------
\* BlockStream

\* A next_block() future is dropped, or fails, inside a packet.
NextAborted(t) ==
    /\ pc[t] = "stream"
    /\ ~ Conn(t).torn
    /\ Only(t, Tear(Conn(t)), "stream")

\* cancel(): best-effort Cancel, then the stream is taken; dropped inside,
\* it leaves the stream done and the mark set.  So does a deadline drain
\* whose next_block() future is dropped.
CancelStream(t) ==
    /\ \/ pc[t] = "stream"
       \/ pc[t] = "drain" /\ op[t] = "stream"
    /\ \/ pc[t] = "stream" /\ Only(t, NoConn, "done")
       \/ Stay(t, "done")

-----------------------------------------------------------------------------
\* InsertSession

\* read_table_structure() returned the block: the mark is cleared and the
\* session's own flag `active` takes over.
ReadStructure(t) ==
    /\ pc[t] = "structure"
    /\ HeadIs(Conn(t), "query")
    /\ Only(t, Clear(Conn(t)), "session")

\* A send_data() that fails or is dropped may leave half a packet.
SendAborted(t) ==
    /\ pc[t] = "session"
    /\ Only(t, Tear(Conn(t)), "session")

EndCall(t) ==
    /\ pc[t] = "session"
    /\ Stay(t, "end")

\* end() read EndOfStream: the session is no longer active.
EndOk(t) ==
    /\ pc[t] = "end"
    /\ ~ Conn(t).torn
    /\ HeadIs(Conn(t), "query")
    /\ Only(t, Clear(Pop(Conn(t))), "done")

\* end() read an exception: the session stays active and its drop takes the
\* stream.
EndException(t) ==
    /\ pc[t] = "end"
    /\ HeadIs(Conn(t), "query")
    /\ Only(t, NoConn, "done")

-----------------------------------------------------------------------------
\* Dropping the guard, and configuration

\* Mutant of OwnerDiscards: a dropped InsertSession keeps its connection.
OwnerKeepsSession(t) == pc[t] = "stream"

\* An InsertSession whose flag `active` is set, or a BlockStream that is not
\* done: their Drop takes the stream before the guard goes.
OwnerDiscards(t) ==
    \/ pc[t] \in {"session", "end", "stream"}
    \/ pc[t] \in {"drain", "drained"} /\ op[t] = "insert"

\* Mutant of DropGuard: the in-flight mark is not looked at.
DropGuardIgnoresMark(t) ==
    /\ pc[t] \in Guarded
    /\ SetSlot(t, IF OwnerDiscards(t) THEN NoConn ELSE Conn(t))
    /\ in_use' = in_use - 1
    /\ op' = [op EXCEPT ![t] = "none"]
    /\ Goto(t, "idle")
    /\ UNCHANGED <<next_idx, generation, at, tries>>

\* Mutant of DropGuard: a marked guard returns before it is counted out.
DropGuardCountsLate(t) ==
    /\ pc[t] \in Guarded
    /\ LET discard == Conn(t) # NoConn /\ Conn(t).inflight IN
       /\ SetSlot(t, IF OwnerDiscards(t) \/ discard THEN NoConn ELSE Conn(t))
       /\ in_use' = IF discard THEN in_use ELSE in_use - 1
    /\ op' = [op EXCEPT ![t] = "none"]
    /\ Goto(t, "idle")
    /\ UNCHANGED <<next_idx, generation, at, tries>>

\* The guard goes out of scope: at the end of the operation, or because the
\* future that owns it is dropped at an await point.
DropGuard(t) ==
    /\ pc[t] \in Guarded
    /\ SetSlot(t, IF \/ OwnerDiscards(t)
                     \/ Conn(t) # NoConn /\ Conn(t).inflight
                  THEN NoConn ELSE Conn(t))
    /\ in_use' = in_use - 1
    /\ op' = [op EXCEPT ![t] = "none"]
    /\ Goto(t, "idle")
    /\ UNCHANGED <<next_idx, generation, at, tries>>

\* A setter that bumps config_generation takes &mut self: no future borrows
\* the pool.
SetConfig ==
    /\ \A t \in Tasks : pc[t] = "idle"
    /\ generation < MaxGen
    /\ generation' = generation + 1
    /\ UNCHANGED <<slot, next_idx, in_use, pc, at, tries, op>>

-----------------------------------------------------------------------------
Init ==
    /\ slot = [s \in Slots |-> NoConn]
    /\ next_idx = 0
    /\ generation = 0
    /\ in_use = 0
    /\ pc = [t \in Tasks |-> "idle"]
    /\ at = [t \in Tasks |-> 0]
    /\ tries = [t \in Tasks |-> 0]
    /\ op = [t \in Tasks |-> "none"]

Get(t) ==
    \/ GetCall(t) \/ TryLock(t) \/ TryLockBusy(t) \/ LockGranted(t) \/ AcquireTimeout(t)
    \/ ConnectOk(t) \/ ConnectErr(t) \/ AliveRead(t) \/ AliveFails(t) \/ DropGet(t)

Cycle(t) ==
    \/ StartPing(t) \/ StartQuery(t) \/ PongRead(t) \/ PrePingRead(t)
    \/ Written(t) \/ WriteFails(t) \/ SkipPong(t) \/ ReadTerminal(t) \/ ReadBroken(t)
    \/ MidError(t) \/ Misread(t) \/ Deadline(t) \/ DrainTerminal(t) \/ DrainFails(t) \/ DeadlineError(t)

Owned(t) ==
    \/ NextAborted(t) \/ CancelStream(t)
    \/ ReadStructure(t) \/ SendAborted(t) \/ EndCall(t) \/ EndOk(t) \/ EndException(t)

Next ==
    \/ \E t \in Tasks : Get(t) \/ Cycle(t) \/ Owned(t) \/ DropGuard(t)
    \/ SetConfig

Spec == Init /\ [][Next]_vars

\* What get() waits for ends without the server's help: the sweep is a loop,
\* the liveness Ping has a one second limit, and the mutex serves its waiters.
\* A connect has no limit unless connect_timeout sets one, and nothing is
\* assumed of it.  That every guard is dropped in the end is the application's
\* part.
Fairness ==
    \A t \in Tasks :
        /\ WF_vars(TryLock(t) \/ TryLockBusy(t))
        /\ SF_vars(LockGranted(t))
        /\ WF_vars(AliveFails(t))
        /\ WF_vars(DropGuard(t))

FairSpec == Spec /\ Fairness

-----------------------------------------------------------------------------
\* Properties

\* Every variable has its type.
TypeOK ==
    /\ slot \in [Slots -> Conns \cup {NoConn}]
    /\ next_idx \in Slots
    /\ generation \in 0 .. MaxGen
    /\ in_use \in Int
    /\ pc \in [Tasks -> PCs]
    /\ at \in [Tasks -> Slots]
    /\ tries \in [Tasks -> 0 .. NumSlots]
    /\ op \in [Tasks -> AllOps]

NoQuery(p) == \A i \in 1 .. Len(p) : p[i] # "query"

\* "never a poisoned reuse" (PoolGuard::drop): a connection that rests in an
\* unlocked slot has no reply of a query left to read, does not stand inside
\* a packet and is not marked in flight, whatever futures were dropped where.
NoPoisonedReuse ==
    \A s \in Slots :
        Free(s) /\ slot[s] # NoConn =>
            /\ NoQuery(slot[s].pending)
            /\ ~ slot[s].torn
            /\ ~ slot[s].inflight

OwnQueryLast(p) ==
    /\ Len(p) > 0
    /\ p[Len(p)] = "query"
    /\ \A i \in 1 .. Len(p) - 1 : p[i] # "query"

\* A task that reads a query's reply reads its own: the only query pending on
\* its connection is the last request, which it sent itself.
ReadsOwnReply ==
    \A t \in Tasks : pc[t] \in Reading => OwnQueryLast(Conn(t).pending)

\* A socket goes back to the pool without a reply pending, a Pong included
\* (the rule stated in Client::ping).
NoStrayReply ==
    \A s \in Slots :
        Free(s) /\ slot[s] # NoConn => slot[s].pending = <<>>

\* A guard is never handed out over a connection that was opened under an
\* older configuration (credentials, database, TLS): those are recycled on
\* their next checkout.
CurrentConfig ==
    \A t \in Tasks :
        pc[t] \in Guarded /\ Conn(t) # NoConn => Conn(t).gen = generation

\* pool_in_use counts the guards that exist, also when futures are dropped.
InUseCountsGuards == in_use = Cardinality({t \in Tasks : pc[t] \in Guarded})

\* stream_mut() is called on a slot that holds a connection: on an empty slot
\* it aborts the process.
StreamMutDefined ==
    \A t \in Tasks :
        pc[t] \in Guarded \ {"done"} => Conn(t) # NoConn

\* A deadline whose drain reached the end of the reply keeps the connection
\* (the promise of Client::with_query_timeout).
DeadlineKeepsConnection ==
    [][\A t \in Tasks :
        pc[t] = "drained" /\ pc'[t] = "done" => slot'[at[t]] # NoConn]_vars

\* A task waits for a slot for ever only behind a task that connects for ever
\* in that slot: whatever else the slot's holders do, get() goes on.
\* (connect_timeout is None by default, and a server that accepts and never
\* answers the Hello keeps the holder, and with it the waiters.)
WaitEnds ==
    \A t \in Tasks :
        \/ []<>(pc[t] # "wait")
        \/ \E u \in Tasks \ {t} :
               <>[](pc[u] \in {"connect", "reconnect"} /\ at[u] = at[t])
=============================================================================
