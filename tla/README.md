# Verification of st-clickhouse-lib

TLA+ models of a ClickHouse client: an async Rust client, a sync Rust client,
and a Python package built on the sync one.  The modules are checked with TLC on
small instances; every safety invariant of the state machines (the two
connection pools, the Python calls and streams, the sync client) is proved with
TLAPS for every value of the constants.  Where the code does not keep a promise
in every case, the property names the case, and the text below says how it comes
about.

One question runs through all of them.  The native protocol has no request
identifiers: a reply belongs to a request only by its place on the socket.  So a
reader must take exactly the bytes of its reply, whichever of the many readers it
is, and a connection may serve another request only if the last reply was read to
its end, whatever was cancelled, failed or raced before.

## The system

| Part | Source | Modelled in |
|---|---|---|
| Async pool, guards, response cycles | `src/src/pool.rs`, `src/src/connection/` | `SimplePool` |
| Packet loops of the async client | `src/src/connection/` | `AsyncPackets` |
| Packet loops of the sync client | `src/src/sync/client.rs`, `src/src/sync/protocol/response.rs` | `SyncPackets`, `BufferedPackets`, `QueryStream` |
| Sync client: setup, calls, inserts | `src/src/sync/client.rs`, `chunked.rs` | `SyncSetup`, `SyncClient` |
| Readers of columns and blocks | `src/shared/skip_column.rs`, `block_reader.rs`, `raw_block_reader.rs`, `response.rs` | `NativeType`, `SkipColumn`, `BlockReader`, `RawBlockReader`, `SyncRawReader`, `SyncResponse`, `BlockHeader`, `NativeBlock` |
| Decoders of columns | `src/shared/column/`, `any_column`, `dynamic_variant.rs` | `TypedColumns`, `AnyColumn`, `DynamicVariant` |
| Python pool | `_pool.py` | `ConnectionPool` |
| Python one-shot calls | `__init__.py` (`_acquire`, `_run_pooled`, `close`) | `AsyncClient`, `CallDiscipline` |
| Python query streams, native bridge | `__init__.py` (`query_stream`), `st-clickhouse-py/src/client.rs` | `StreamBridge` |

`ColumnReaders` and `ResponseReaders` put the readers on the same bytes.  The MC
modules give the constants their values.  `PROJECT.json` lists every part of the
repository, the hazards at their lines, and the lines each definition models.

How the parts interact: a call of the async client takes a guard from
`SimplePool`, and its response cycle reads with the loops of `AsyncPackets`,
which read blocks as in `NativeBlock`.  A Python call takes a client from
`ConnectionPool`, as `AsyncClient` or `StreamBridge` describe, and the client
does what `SyncClient` describes, with the loops of `SyncPackets` and
`QueryStream`.  `AsyncClient` is composed with `ConnectionPool`, and
`SyncClient` with `SyncSetup`; between the other modules the interface is that a
reply is read to its end or not, which one module shows and the next one uses.

## SimplePool

A slot is an async mutex around an optional connection.  A task calls `get()`,
uses the guard for one operation and drops it; its future can be dropped at
every await.  `pc[t]` is the await a task is at, `at[t]` its slot, `op[t]` its
operation.  A connection is reduced to what decides whether it may be reused:
its configuration generation, the flag `response_in_flight`, whether the socket
stands inside a packet (`torn`), and the requests whose replies are unread
(`pending`).  `Get` holds the steps of `get()`, `Cycle` those of a response
cycle, `Owned` those of `BlockStream` and `InsertSession`; `DropGuard` includes
the drop of their owners.  `SetConfig` runs only when no future borrows the
pool, because the setters take `&mut self`.

Two constants describe the surroundings.  `MidResponseErrors`: a reply may fail
to decode before its last packet.  `PollAfterAbort`: callers poll `next_block()`
again after a dropped call.

Bounds: `MaxGen` configuration changes, `MaxPending` unread replies on a socket
(a stray Pong in front of a query needs two).  `pool_reuse` has three tasks on
two slots, so that a task waits while others leave connections behind, and no
configuration changes; `pool_faults` has two tasks on two slots and one change.
The Ping of `get()` is one write here; on a chunked connection it is three, and a
`get()` dropped between them on a full send buffer is left out.

## ConnectionPool

Every block under `self._cond` is one action; pings and factory calls lie
between two of them.  Slots and clients have separate identities, since a failed
health check replaces the client of a lent slot.  `held` is a history variable:
the clients callers have and have not released.  The clock is abstracted: a
deadline may pass, a slot may be idle for too long, at any time.  Callers may
destroy a client at any time; only with `StaleReleases` do they recycle a client
that is lent to somebody else.  With `StaleReleases = TRUE` in
`MCConnectionPool.cfg`, TLC finds `LendingState` violated: `release()` looks the
slot up by its client and does not know who holds it, so a second release after
the slot was lent again frees it under its new holder.  The docstring of
`release()` says that double releases never mutate the accounting.  This is why
`LendingStateHolds` and `NeverLentTwiceHolds` need `~StaleReleases`, and
`KeepsDiscipline` shows that one-shot calls never release that way.

Bounds: two threads and `MaxSize = 2`.  A thread that has its client acquires
again while the first one is held, so threads wait, both at once.  Three slot
identities and three clients let slots and clients be replaced; a factory call
that finds no unused client can only fail.

## AsyncClient

A call is an asyncio task, a worker inside `pool.acquire()` (a thread of
`ConnectionPool`) and a worker that runs the operation and releases the client.
`LoopFree` keeps the loop's atomicity: setting `cancelled` and calling
`discard()` have no await between them, so no other task runs there, and worker
threads do.  Work that has not started when `CancelledError` arrives never
starts.  `KeepsDiscipline`, in `CallDiscipline`, is a refinement: the
composition implements `ConnectionPool` with `StaleReleases = FALSE`, so the
theorems about the pool apply to one-shot calls.  The cfg file sets
`StaleReleases = TRUE`: what is released is decided by the calls, not by a guard
of the pool.

`_acquire()` waits for a cancelled acquire on a reclaim thread for
`acquire_timeout + 5` seconds.  A factory call may take longer (`connect_timeout`
is 10 seconds by default), and `acquire()` does not count its time.  The thread
then gives up, the late acquire succeeds, and nobody returns its slot.  The
docstring says that a cancelled acquire "can never leak a lent slot".  `forsaken`
holds the clients of such acquires, and `NoSlotLeaks` says that every other lent slot has
somebody who will return it.

Bounds: two calls on a pool of one slot, the smallest instance in which a slot
changes hands under contention, with two slot identities and three clients for
what is replaced.

## StreamBridge

A streaming SELECT of the Python package, from the socket to the application.
The reader thread of the native stream takes packets from the socket (`rd`),
publishes `eos` and sends into a bounded channel (`chan`).  The sync iterator
takes from the channel.  For `AsyncClient.query_stream` a forwarder thread (`fw`)
takes from it and submits `queue.put()` to the event loop, waiting 100 ms for
each; the loop's ready queue, the coroutines parked on the full queue and the
queue are `ready`, `putters` and `queue`; the generator is `gen`.  The
application may leave at every point; `_abandon()` reads `eos` and discards in
two steps.  The server may close the connection behind every packet and inside
every packet but EndOfStream, which is one byte.

`read_next_block()` may also fail while the connection is open: a packet of an
unknown type, a body that does not decode, a compressed body whose bytes miss the
receive timeout (`ReaderFails`).  The thread publishes nothing, sends the error
and goes on reading from a place in the response nobody knows (`astray`), where
it may take stray bytes for anything, a terminal packet included (`ReaderStray`).

Bounds: three blocks, a channel of two, a queue of one, one repeated put: the
channel and the queue both fill up while the response goes on.  The three
violation runs use two blocks and capacities of one.

## SyncSetup and SyncClient

`SyncSetup` is `connect_with_config()`: the addresses in turn, the TCP connect,
the watchdog thread with its channel, the handshake, the negotiation of the
chunked mode, and the two ways a setup ends while its budget runs out.  The server
answers, answers wrongly, answers a little and stops, or sends a byte from time
to time for ever.

`SyncClient` goes on with the connected client: `up` and `down` are the packets
under way, each with the request it answers, and `buf` is what the reader of the
current call has read ahead.  A reader belongs to a call, and what it has read
ahead is lost when it is dropped, as in the code.  The calls are execute, query
(with the response budget, its Cancel and its drain), block views, streams, ping,
tables status, inserts in one call, begin, send and end of an insert, and the
schema lookups with their cache.

Nothing is asked of callers.  Instead, the history variable `spoilt` keeps what
befell the connection:

- "kept": a call failed inside its reply, and the client is used on.  The doc
  comment of `drain_response()` says it must be dropped; `_run_pooled()` of the
  Python package recycles it after every error but a cancellation, and so does the
  end of an insert stream.
- "cut": a reader was dropped that held the first half of a packet.  This takes a
  read that ends inside the log packet or the end marker behind the packet the
  call returned at.
- "named": `send_data()` got a table's name while no schema was cached.  Its
  validation then sends DESCRIBE into the open insert.

`OwnReply`, `InsertUndisturbed` and `CacheFresh` say that nothing else mixes up
replies: no order of calls, no budget recovery, no exception.  `CacheFresh` also
needs that no statement that changes a schema went through `query()`, which does
not look at its statement (`unseen`).  A statement that fails is taken to have
changed nothing; `execute()` does not clear the cache behind it.

Bounds: two addresses, three calls (a call, an insert behind it, a call behind
that), two blocks in a reply or an insert, a budget of one block.

## Columns and blocks

A reader is a function from cursors to cursors: bytes, position, status, and the
data it keeps.  A type is a record; its name on the wire is one byte, an index
into a table.  Numbers of eight bytes are numbers.  The status "more" means that
the bytes ended: a stream reader waits, a reader of a buffered block fails.

`ColumnReaders` has a server that sends whatever one of the readers waits for,
right or wrong: versions, offsets, discriminators, dictionary headers, indexes.
Each reader is thereby led through each of its branches, and all others see the
same bytes.  Seven readers of a column and ten readers of a block are separate
implementations of one format; the properties say that they end at the same byte,
unless one of them reports an error, and keep the same data, and that the typed,
the run-time and the Variant decoders take all of the kept data and give the
same values.

Bounds: 59 types, with one of every constructor, width and arity and the nestings
that have a branch of their own; two rows; 60 bytes of a column (28 with JSON),
16 bytes of a block, which is enough for two columns of two rows.  `RawBlockReader` and `SyncRawReader` leave their byte
budgets out.

## Responses

`PacketCursor` has the fields of packets, frames and the loop over packets;
`AsyncPackets`, `SyncPackets` and `BufferedPackets` the loops, and `QueryStream`
the parser that is resumed after every fill of its buffer.  A column has a byte
for each row here.  In `ResponseReaders` a server sends a response, or two behind
each other, field by field, and the bytes reach the `QueryStream` in segments that
end between any two fields.

The async client gives a body 50 ms to show the bytes in which it looks for a
frame.  If they are late, it takes the body for a plain one, replays the first
byte and has lost the others it had read; the sync client waits.  `lull` is the
place at which the sender pauses for that long, and `SniffTimesOut` the case in
which it falls into those bytes.  `AsyncReadersAgree` and
`DrainsEndWhereReadersEnd` hold with and without a pause: all readers of the async
client go astray together.  `ClientsAgree` and `StructureEndsBehindFirstBlock`
compare the two clients, so they are about responses without one; with one, the
clients read different blocks.

Bounds: four revisions, one on each side of every change of a packet's fields that
lies above the oldest supported one (54459); three packets, the first of any type
from 0 to 18; blocks of up to two rows; one pause in a response, in the first frame
of a block, on the newest revision; frames with a wrong checksum, method or size.

## Runs

| Run | Shows |
|---|---|
| `pool_reuse` | no poisoned reuse, every reader reads its own reply (both constants FALSE) |
| `pool_faults` | with both kinds of faults: current configuration, exact `pool_in_use`, no abort in `stream_mut()`, a task that waits for a slot stops waiting unless a connect holds the slot for ever |
| `py_pool` | the invariants documented in `_pool.py`, no lost wakeup, every acquire ends, growth in flight drains after `close()` |
| `py_calls` | cancelled calls share no client, leak no slot but a forsaken one, keep the pool's discipline |
| `py_streams` | a stream that started and is left or cut anywhere reuses only clean connections unless its reader went astray, misses no block, ends, and leaves no reader thread behind a finished response |
| `sync_client` | on a connection that was not spoilt, each call reads its own reply, no request goes into an open insert and cached schemas are current; a client whose setup succeeded is never shut down by its watchdog, setup ends |
| `columns` | the readers of columns and blocks take the same bytes and keep the same data, the decoders give the same values |
| `responses` | the readers of responses end at the same place with the same blocks, wherever segments end; those of one client also where the sender pauses |

Runs that end in a violation state what a comment or a docstring says, and show
how the code departs from it:

| Run | What happens |
|---|---|
| `pool_miderror` | a non-fatal error inside a reply clears the mark and keeps the half-read connection |
| `py_stream_abandon` | a stream abandoned while its reader waits for the server: the reader loops on reads of zero bytes, and the pool slot stays lent |
| `py_stream_slow` | a consumer slower than 100 ms per block: the put is repeated, not replaced, and a block arrives twice |
| `py_stream_reuse` | a stream cancelled while it starts recycles the connection its query runs on; the sync iterator keeps its client after an error in the middle of the response |

None of these was reproduced against a running server: they are behaviours of the
models.

Deadlock is checked in `py_calls`: a closed client whose calls are over may
stop (`Stopped`), and nothing else may.  A stream, a sync client and the two
servers of bytes come to an end, so it is not checked there; in `py_streams` and
`sync_client` the liveness properties say what may not stop.

The type predicates of the two pools are checked in the runs and proved.
`AsyncClient`, `StreamBridge` and `SyncClient` have theirs (`CallTypeOK`,
`TypeOK`, `SyncTypeOK`) for the reader; the inductive invariants of the proofs
contain type predicates for the same variables.

## Where the properties stop

The properties name what the code is known not to do.  Without the exception TLC
has a counterexample:

| To see it | What happens |
|---|---|
| `PollAfterAbort = TRUE`, `NoPoisonedReuse` | `next_block()`, dropped inside a packet and polled again, takes a body byte for the end |
| `NoStrayReply` of `SimplePool` | `get()` dropped in its liveness Ping leaves a Pong on the socket; readers skip it |
| `DeadlineKeepsConnection` of `SimplePool` | a connection drained after a deadline is discarded, not kept |
| `OwnerUndisturbed` of `AsyncClient` | a cancellation between the worker's release and the loop's notice of it kills the next owner's client; the worker must be suspended just there |
| `NoSlotLeaks` without `forsaken` | a cancelled acquire that outlasts `acquire_timeout + 5` seconds leaks its slot |
| `WaitEnds` without its second disjunct | a connect to a server that accepts and never answers has no limit by default (`connect_timeout` is `None`), and neither has the wait for its slot (`acquire_timeout` is `None`) |
| `ReusedIsClean` without `gen.end # "start"` or `astray` | see `py_stream_reuse`; the forwarder of an async stream destroys the slot after an error, unless stray bytes looked like a terminal packet |
| `OwnReply`, `InsertUndisturbed`, `CacheFresh` without `spoilt` | a call reads the late reply of another, or starts inside a packet; a DESCRIBE goes into an open insert |
| `CacheFresh` without `unseen` | a schema changed through `query()` stays cached |
| `ClientsAgree`, `StructureEnds` without `lull = 0` | the async client takes a late frame for a plain body |
| `StaleReleases = TRUE`, `LendingState` | a second release frees the slot under its new holder |
| `PlainStreamAgrees` of `ResponseReaders` | a ProfileInfo packet split over two reads is parsed from the wrong place |
| `BufferedFramesLikeRaw` of `ColumnReaders` | the buffered parser and the raw reader differ on Nothing and on Variant, Dynamic and JSON below an array |
| `SkipEndsWhereReadersEndForAll` of `ColumnReaders` | Nullable(Enum8): the async reader parses the displayed name again, which has lost the enum's values |

Further differences between the readers that the properties leave out, as their
comments say:

- The sync discard refuses Nothing, Variant and Dynamic, which the sync reader
  reads.
- A buffered block keeps a LowCardinality below another type as it is on the wire,
  where the stream readers keep its values; the async reader does so too for a
  LowCardinality of Nullable, Time or Decimal.
- Below Variant and Dynamic, an IPv6 is decoded in little-endian order, in the
  network's order elsewhere; LowCardinality is kept raw and decoded as values; a
  Variant that starts with a state prefix is not decoded; a Dynamic without types
  is kept without discriminators and decoded with them.
- A FixedString below another type takes its width from all of the data.
- The async client reads packets in the format of `DEFAULT_PROTOCOL_REVISION`,
  although it accepts servers from revision 54459 on; `ClientsAgree` is about that
  revision.
- The async client refuses packets 7, 8 and 11, which the sync client reads, and
  answers the announcement (15) differently; the drains refuse 13, 15 and 16.
- A plain body shorter than the bytes that are sniffed for a frame is read
  together with the packet behind it.
- At the limit of its packet chain the `QueryStream` waits for bytes that have
  already arrived, and it has no response budget.

## Fairness

`SimplePool`: the sweep is a loop, the liveness Ping has a limit of one second,
and the mutex serves its waiters (strong fairness, its queue is first in, first
out).  That a guard is dropped in the end is the application's part.  A connect
need not end: it has a limit only where the pool was given a `connect_timeout`,
so `WaitEnds` excepts the waiters behind one that never does.  `ConnectionPool`: the lock is held for one
action, deadlines pass, factories and pings end.  Callers owe the pool nothing.

`StreamBridge`: threads and the event loop are scheduled, the server goes on with
its response as long as it stays, the application goes on with its loop or leaves
it, and an object without references is freed.  The application need not leave,
and the server need not close.  `SyncSetup`: a TCP connect has a timeout, threads
run, and time passes, so the watchdog's budget ends; the server owes nothing,
least of all that it stops sending bytes.  `SyncClient` adds none: a call on a
server that says nothing waits for its query timeout.

## Proofs

The theorems hold for every value of the constants that satisfies the `ASSUME` of
the component's module: finite sets of threads or tasks, sizes, lengths and bounds
in `Nat`, capacities above zero.  "Needs" names the conditions a theorem has
beyond that.  The run `pool_miderror`, the section on `ConnectionPool` (for
`StaleReleases`) and the table in "Where the properties stop" show what happens
without each of them.

| Module | Theorem | Property | Needs |
|---|---|---|---|
| `SimplePoolProofs` | `TypeCorrect` | `TypeOK` | |
| | `ConfigCurrent` | `CurrentConfig` | |
| | `NoStreamAbort` | `StreamMutDefined` | |
| | `InUseExact` | `InUseCountsGuards` | |
| | `ReuseIsSafe` | `NoPoisonedReuse` | `~MidResponseErrors`, `~PollAfterAbort` |
| | `RepliesStayApart` | `ReadsOwnReply` | the same |
| `ConnectionPoolProofs` | `LendingStateHolds` | `LendingState` | `~StaleReleases` |
| | `NeverLentTwiceHolds` | `NeverLentTwice` | `~StaleReleases` |
| `ConnectionPoolWakeups` | `PoolTypeCorrect` | `TypeOK` | |
| | `BoundedGrowthHolds` | `BoundedGrowth` | |
| | `ClosedIsEmptyHolds` | `ClosedIsEmpty` | |
| | `NoLostWakeupHolds` | `NoLostWakeup` | |
| `AsyncClientProofs` | `OneTaskPerClientHolds` | `OneTaskPerClient` | |
| | `NoSlotLeaksHolds` | `NoSlotLeaks` | |
| | `CallsLendOnce` | `LendingState /\ NeverLentTwice` of the composition | |
| `CallDisciplineProofs` | `CallsKeepDiscipline` | `KeepsDiscipline` (refinement) | |
| `SyncClientProofs` | `OwnReplyHolds` | `OwnReply` | |
| | `InsertUndisturbedHolds` | `InsertUndisturbed` | |
| | `CacheFreshHolds` | `CacheFresh` | |
| | `EscapesAliveHolds` | `EscapesAlive` | |
| `StreamBridgeProofs` | `BridgeProtocol` | `BridgeInv` | |
| | `ReusedIsCleanHolds` | `ReusedIsClean` | |
| `StreamDeliveryProofs` | `NothingMissingHolds` | `NothingMissing` | |

Hardly any of the properties is inductive by itself.  The arguments:

- `SimplePoolProofs`.  `BaseInv` and `ReuseInv` say, for each place of a task,
  whether the mark is set and what is pending, so that a guard dropped there
  either is marked, has an owner that discards, or is clean; and that two tasks
  never hold one slot.
- `ConnectionPoolProofs`.  `IInv` adds that `creating` counts the threads inside
  a factory call, that a slot under check is lent and its client in nobody's
  hands, that clients of live slots differ, and that the threads in the
  condition's queue are in `_reserve()`.
- `ConnectionPoolWakeups`.  `LimitInv` does without the lending state, so that it
  survives stale releases.  `WakeInv` counts: while a thread sleeps, available
  slots and free capacity together are no more than the threads awake in
  `_reserve()`; a recycled slot and its `notify()` add one to both sides.
- `AsyncClientProofs`, `CallDisciplineProofs`.  `CallInv` adds to the pool's
  `IInv` that a client not yet released is in the hands of exactly one call, or
  was taken out of the pool by that call; every release is then one of a
  disciplined caller, which is the step of the refinement.  `LeakInv` names for
  each lent slot the call that will release or discard it, or has its client in
  `forsaken`.
- `SyncClientProofs`.  `IInv` describes what lies between client and server: all
  packets of a reply carry the request at hand, behind the last one there are
  only end markers, a request is last on its way up, halves of a packet stay with
  one reader, and both sides agree where an insert stands.  An idle client that
  is still usable finds nothing of an earlier reply.  All this holds as long as
  nothing spoilt the connection (`ClientInv`): each step either keeps it or adds
  a cause to `spoilt`.  What does not depend on it (types, the setup) is proved
  for every state.
- `StreamBridgeProofs`.  `Flow(rp)` numbers the packets: `rp` of them were read,
  and what lies on the socket and what the server has still to send are those that
  follow.  `PublishInv` says that `eos` is published behind the last packet and
  before the end is sent on the channel; `StopInv`, `SlotInv` and `RaceInv` who
  may have been told to stop when, who returns the slot, and that between the two
  steps of `_abandon()` the forwarder cannot come to its end.  A connection that
  is used again therefore has a published `eos`, so the reader is at the last
  packet, and no `discard()` comes later.  The order of packets and flags holds
  until the reader goes astray; who returns the slot, and that only a published
  `eos` lets the forwarder recycle it, holds after that too.
- `StreamDeliveryProofs`.  `DeliveryInv`, inductive together with `BridgeInv`,
  follows the blocks behind the reader.  The channel holds the blocks that follow
  those received, and behind them only ends (`ChanInv`).  A put of block `n`,
  repeated or not, was submitted when the blocks before `n` had been delivered to
  the queue or the application, and the sentinel when the last one had been, or
  after an error (`QueueInv`).  A block may arrive twice, as `py_stream_slow`
  shows, but none is skipped.

Only model-checked:

- Liveness (`WaitEnds`, `AcquireEnds`, `CreatingDrains`, `StreamEnds`,
  `ReaderExits`, `SetupEnds`): fairness is out of the prover's reach.
- The properties of `ColumnReaders` and `ResponseReaders`: the readers are
  recursive in types, rows and packets, and what a recursive definition computes
  for every input needs an induction the prover cannot do.

## Not modelled

- Dialer, DNS refresh and circuit breaker: they decide where a connection goes,
  not what is read from it.  In `SimplePool` a connect succeeds, fails or goes on
  for ever.
- The retry loop: its hazard is a statement that took effect before its
  connection broke, and no model here has the effects of statements.
- The task and channel of the row cursor, and the writes of a batch before its
  first read: the models have no bounded socket buffers.
- Insert streams and sessions of the Python package: on one connection they make
  the calls of `SyncClient`; who releases the slot is described above.
- The writers of columns.  One observation: `write_column` of tuples of five to
  eight elements writes nothing.
- The parser of type names, the codecs and checksums of compression, lengths of
  chunks, fields of the handshake, TLS: byte-level code without shared state.
  Frames, end markers, the modes that are negotiated and the outcomes of a
  handshake are modelled.
- Value conversion of the Python package, derive macro, builders, runtimes,
  metrics (but for `pool_in_use`): no protocol state.
