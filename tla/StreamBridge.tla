---------------------------- MODULE StreamBridge ----------------------------
(***************************************************************************)
(* A streaming SELECT of the Python package, from the socket to the        *)
(* application: the reader thread of the native _QueryStream, the bounded  *)
(* channel behind it, and its two consumers, the iterator of the sync      *)
(* Client and the forwarder thread, asyncio.Queue and async generator of   *)
(* AsyncClient.query_stream.  A packet is its kind and its number; what    *)
(* counts is where the socket stands when the connection is used again.    *)
(***************************************************************************)
EXTENDS Naturals, Sequences, Functions

CONSTANTS NBlocks,      \* blocks with rows in a response
          ChanCap,      \* capacity of the channel (32 in the code)
          QueueCap,     \* maxsize of the asyncio.Queue (32 in the code)
          MaxRetries    \* bound on the puts submitted again after 100 ms

ASSUME BridgeAssumption ==
    /\ NBlocks \in Nat /\ MaxRetries \in Nat
    /\ ChanCap \in Nat \ {0} /\ QueueCap \in Nat \ {0}

VARIABLES
    kind,       \* "sync": Client.query_stream, "async": AsyncClient.query_stream
    compressed, \* whether the bodies of the response are compressed
    left,       \* packets the server has still to send
    net,        \* packets that arrived and were not read
    closed,     \* the server closed the connection
    shut,       \* this side shut the socket down
    rd,         \* the reader thread: pc, QueryStream.done, the item in hand
    astray,     \* the reader does not stand at the start of a packet
    native,     \* _QueryStream: cancel, eos, finished, dropped
    chan,       \* the channel between the reader and its consumer
    discarded,  \* _Client.discarded
    fw,         \* the forwarder thread: pc, the block in hand, forwarder_exc
    retries,    \* puts submitted again so far
    queue,      \* the asyncio.Queue
    ready,      \* coroutines queue.put() in the ready queue of the loop
    putters,    \* coroutines queue.put() parked on a full queue
    gen,        \* the generator or iterator: pc, what it yielded, how it ended
    event,      \* cancel_event
    slot        \* the pool slot of the client: "lent", "free" or "destroyed"

server == <<kind, compressed, left, closed>>
socket == <<net, shut>>
loop   == <<queue, ready, putters>>
vars   == <<server, socket, rd, astray, native, chan, discarded, fw, retries, loop,
            gen, event, slot>>

Item(type, n) == [type |-> type, n |-> n]
None     == Item("none", 0)
Err      == Item("err", 0)
Sentinel == Item("sentinel", 0)

(* The responses of the server: a block without rows that carries the      *)
(* header, the blocks, and EndOfStream or an exception.                    *)
Responses ==
    { <<Item("head", 0)>> \o [i \in 1..NBlocks |-> Item("block", i)] \o <<last>> :
        last \in {Item("eos", 0), Item("exc", 0)} }

(* What lies on the socket when the connection ends now: perhaps the first *)
(* part of the packet that was being sent.  EndOfStream is a single byte.  *)
CutOff ==
    IF left = <<>> \/ Head(left).type = "eos" THEN {net}
    ELSE {net, Append(net, Item(IF Head(left).type = "exc" THEN "cutexc" ELSE "cutblock", 0))}

Eof == closed \/ shut

Shutdown ==
    /\ shut' = TRUE
    /\ net' \in IF Eof THEN {net} ELSE CutOff
-----------------------------------------------------------------------------
TypeOK ==
    /\ kind \in {"sync", "async"} /\ compressed \in BOOLEAN
    /\ closed \in BOOLEAN /\ shut \in BOOLEAN
    /\ rd.pc \in {"off", "check", "read", "publish", "send", "exit"}
    /\ rd.done \in BOOLEAN /\ astray \in BOOLEAN
    /\ native \in [cancel: BOOLEAN, eos: BOOLEAN, finished: BOOLEAN, dropped: BOOLEAN]
    /\ Len(chan) <= ChanCap /\ Len(queue) <= QueueCap
    /\ fw.pc \in {"off", "next", "put", "wait", "fin", "finwait", "release", "done"}
    /\ gen.pc \in {"starting", "get", "yield", "abandon", "kill", "over"}
    /\ gen.end \in {"no", "none", "err", "left", "start"}
    /\ retries \in 0..MaxRetries
    /\ slot \in {"lent", "free", "destroyed"}

Init ==
    /\ kind \in {"sync", "async"} /\ compressed \in BOOLEAN
    /\ left = <<>> /\ net = <<>> /\ closed = FALSE /\ shut = FALSE
    /\ rd = [pc |-> "off", done |-> FALSE, item |-> None]
    /\ astray = FALSE
    /\ native = [cancel |-> FALSE, eos |-> FALSE, finished |-> FALSE, dropped |-> FALSE]
    /\ chan = <<>> /\ discarded = FALSE
    /\ fw = [pc |-> "off", val |-> None, exc |-> FALSE]
    /\ retries = 0
    /\ queue = <<>> /\ ready = <<>> /\ putters = <<>>
    /\ gen = [pc |-> "starting", yielded |-> <<>>, end |-> "no"]
    /\ event = FALSE /\ slot = "lent"
-----------------------------------------------------------------------------
(* Starting the stream.  For AsyncClient this runs on an executor thread   *)
(* while the generator awaits it.                                          *)

(* start_stream() sends the query and PyQueryStream::start spawns the      *)
(* reader; the generator, if it still waits, starts the forwarder.         *)
StartStream ==
    /\ rd.pc = "off" /\ ~closed
    /\ left' \in Responses
    /\ rd' = [rd EXCEPT !.pc = "check"]
    /\ gen' = IF gen.pc = "starting" THEN [gen EXCEPT !.pc = "get"] ELSE gen
    /\ fw' = IF gen.pc = "starting" /\ kind = "async" THEN [fw EXCEPT !.pc = "next"] ELSE fw
    /\ UNCHANGED <<kind, compressed, closed, socket, native, chan, discarded,
                   retries, loop, event, slot, astray>>

(* The query cannot be written: the client goes back to the pool.          *)
StartFails ==
    /\ rd.pc = "off" /\ gen.pc = "starting"
    /\ closed' = TRUE
    /\ gen' = [gen EXCEPT !.pc = "over", !.end = "start"]
    /\ slot' = IF kind = "async" THEN "free" ELSE slot
    /\ UNCHANGED <<kind, compressed, left, socket, rd, native, chan, discarded,
                   fw, retries, loop, event, astray>>

(* CancelledError while the executor starts the stream: the same handler,  *)
(* and the executor goes on.                                               *)
CancelStart ==
    /\ kind = "async" /\ gen.pc = "starting"
    /\ gen' = [gen EXCEPT !.pc = "over", !.end = "start"]
    /\ slot' = "free"
    /\ UNCHANGED <<server, socket, rd, native, chan, discarded, fw, retries,
                   loop, event, astray>>
-----------------------------------------------------------------------------
ServerSends ==
    /\ left # <<>> /\ ~Eof
    /\ net' = Append(net, Head(left))
    /\ left' = Tail(left)
    /\ UNCHANGED <<kind, compressed, closed, shut, rd, native, chan, discarded,
                   fw, retries, loop, gen, event, slot, astray>>

(* The server goes away in the middle of its response.                     *)
ServerCloses ==
    /\ left # <<>> /\ ~Eof
    /\ closed' = TRUE
    /\ net' \in CutOff
    /\ UNCHANGED <<kind, compressed, left, shut, rd, native, chan, discarded,
                   fw, retries, loop, gen, event, slot, astray>>
-----------------------------------------------------------------------------
(* The reader thread of the native stream.                                 *)

Exit == /\ rd' = [rd EXCEPT !.pc = "exit"]
        /\ native' = [native EXCEPT !.finished = TRUE]

(* The cancel flag is looked at between two calls of read_next_block(),    *)
(* and a stream that is done reads nothing.                                *)
ReaderCheck ==
    /\ rd.pc = "check"
    /\ \/ /\ native.cancel
          /\ Exit
       \/ /\ ~native.cancel
          /\ rd' = IF rd.done THEN [rd EXCEPT !.pc = "publish", !.item = None]
                   ELSE [rd EXCEPT !.pc = "read"]
          /\ UNCHANGED native
    /\ UNCHANGED <<server, socket, chan, discarded, fw, retries, loop, gen,
                   event, slot, astray>>

TerminalSkipped(item) == [rd EXCEPT !.pc = "check"]

(* EndOfStream and an exception end the response.                          *)
Terminal(item) == [pc |-> "publish", done |-> TRUE, item |-> item]

(* What read_next_block() makes of the packet p in front of the socket.  A *)
(* block without rows is skipped.  A plain body that is cut waits for the  *)
(* bytes that never come; a compressed one and an exception are errors.    *)
AfterPacket(p) ==
    CASE p.type = "head"     -> [rd EXCEPT !.pc = "check"]
      [] p.type = "block"    -> [rd EXCEPT !.pc = "send", !.item = p]
      [] p.type = "eos"      -> Terminal(None)
      [] p.type = "exc"      -> Terminal(Err)
      [] p.type = "cutexc"   -> [pc |-> "send", done |-> TRUE, item |-> Err]
      [] p.type = "cutblock" -> IF compressed THEN [rd EXCEPT !.pc = "send", !.item = Err]
                                ELSE [rd EXCEPT !.done = TRUE]

ReaderPacket ==
    /\ rd.pc = "read" /\ ~astray /\ net # <<>>
    /\ rd' = AfterPacket(Head(net))
    /\ net' = Tail(net)
    /\ UNCHANGED <<server, shut, native, chan, discarded, fw, retries, loop,
                   gen, event, slot, astray>>

(* read_next_block() fails on an open connection: a packet of an unknown   *)
(* type, a body that does not decode, a compressed one whose next bytes    *)
(* miss the receive timeout.  done stays FALSE and the thread goes on      *)
(* reading, from a place in the response that nobody knows.                *)
ReaderFails ==
    /\ rd.pc = "read" /\ ~astray
    /\ net # <<>> \/ (compressed /\ left # <<>> /\ ~Eof)
    /\ rd' = [rd EXCEPT !.pc = "send", !.item = Err]
    /\ astray' = TRUE
    /\ UNCHANGED <<server, socket, native, chan, discarded, fw, retries, loop, gen,
                   event, slot>>

(* Stray bytes read like anything: a packet to skip, one more error, a     *)
(* terminal packet.  Nobody takes what follows an error from the channel,  *)
(* so it does not matter which item a block or an exception made of them   *)
(* would be.                                                               *)
ReaderStray ==
    /\ rd.pc = "read" /\ astray /\ ~rd.done
    /\ net # <<>> \/ Eof
    /\ rd' \in {[rd EXCEPT !.pc = "check"], [rd EXCEPT !.pc = "send", !.item = Err],
                Terminal(None)}
    /\ net' = IF net = <<>> THEN net ELSE Tail(net)
    /\ UNCHANGED <<server, shut, astray, native, chan, discarded, fw, retries, loop,
                   gen, event, slot>>

AfterEofEnds == [pc |-> "publish", done |-> TRUE, item |-> None]

(* A read of zero bytes: fill_buffer() sets done and returns Ok, and the   *)
(* loop of read_next_block() looks for bytes again.                        *)
AfterEof == [rd EXCEPT !.done = TRUE]

ReaderEof ==
    /\ rd.pc = "read" /\ net = <<>> /\ Eof
    /\ rd' = AfterEof
    /\ UNCHANGED <<server, socket, native, chan, discarded, fw, retries, loop,
                   gen, event, slot, astray>>

ReaderPublish ==
    /\ rd.pc = "publish"
    /\ native' = [native EXCEPT !.eos = TRUE]
    /\ rd' = [rd EXCEPT !.pc = "send"]
    /\ UNCHANGED <<server, socket, chan, discarded, fw, retries, loop, gen,
                   event, slot, astray>>

ReaderSendIgnored ==
    /\ rd.pc = "send"
    /\ native.dropped \/ Len(chan) < ChanCap
    /\ chan' = IF native.dropped THEN chan ELSE Append(chan, rd.item)
    /\ rd' = [rd EXCEPT !.pc = "check"]
    /\ UNCHANGED <<server, socket, native, discarded, fw, retries, loop, gen,
                   event, slot, astray>>

(* The channel is bounded; a send fails once the receiver is gone.         *)
ReaderSend ==
    /\ rd.pc = "send"
    /\ \/ /\ native.dropped
          /\ Exit
          /\ UNCHANGED chan
       \/ /\ ~native.dropped /\ Len(chan) < ChanCap
          /\ chan' = Append(chan, rd.item)
          /\ rd' = [rd EXCEPT !.pc = "check"]
          /\ UNCHANGED native
    /\ UNCHANGED <<server, socket, discarded, fw, retries, loop, gen, event,
                   slot, astray>>

(* __next__: the next item of the channel; a channel whose reader is gone  *)
(* ends the iteration.                                                     *)
Receive(item) ==
    \/ /\ chan # <<>>
       /\ item = Head(chan)
       /\ chan' = Tail(chan)
    \/ /\ chan = <<>> /\ native.finished
       /\ item = None
       /\ UNCHANGED chan

(* Drop for PyQueryStream: a response that was not read to its end takes   *)
(* the socket with it.                                                     *)
StreamDropped ==
    /\ gen.pc = "over" /\ rd.pc # "off" /\ ~native.dropped
    /\ fw.pc \in {"off", "done"}
    /\ chan' = <<>>
    /\ native' = [native EXCEPT !.dropped = TRUE, !.cancel = native.cancel \/ ~native.eos]
    /\ IF native.eos THEN UNCHANGED socket ELSE Shutdown
    /\ UNCHANGED <<server, rd, discarded, fw, retries, loop, gen, event, slot,
                   astray>>
-----------------------------------------------------------------------------
(* AsyncClient.query_stream: the forwarder thread.                         *)

(* The put the forwarder waits for is marked; those it gave up are not.    *)
Unmarked(puts) == [i \in DOMAIN puts |-> [puts[i] EXCEPT !.mine = FALSE]]

Submit(val) ==
    /\ ready' = Append(Unmarked(ready), [val |-> val, mine |-> TRUE])
    /\ putters' = Unmarked(putters)
    /\ UNCHANGED queue

Landed == \A put \in Range(ready) \cup Range(putters) : ~put.mine

(* for block in stream: a block, the end, or an error.                     *)
ForwarderNext ==
    /\ fw.pc = "next"
    /\ \E item \in Range(chan) \cup {None} :
        /\ Receive(item)
        /\ fw' = CASE item.type = "block" -> [fw EXCEPT !.pc = "put", !.val = item]
                   [] item.type = "none"  -> [fw EXCEPT !.pc = "fin"]
                   [] item.type = "err"   -> [fw EXCEPT !.pc = "fin", !.exc = TRUE]
    /\ UNCHANGED <<server, socket, rd, native, discarded, retries, loop, gen,
                   event, slot, astray>>

ForwarderPut ==
    /\ fw.pc = "put"
    /\ \/ /\ event
          /\ fw' = [fw EXCEPT !.pc = "fin"]
          /\ UNCHANGED loop
       \/ /\ ~event
          /\ Submit(fw.val)
          /\ fw' = [fw EXCEPT !.pc = "wait"]
    /\ UNCHANGED <<server, socket, rd, native, chan, discarded, retries, gen,
                   event, slot, astray>>

ForwarderWait ==
    /\ fw.pc = "wait" /\ Landed
    /\ fw' = [fw EXCEPT !.pc = "next"]
    /\ UNCHANGED <<server, socket, rd, native, chan, discarded, retries, loop,
                   gen, event, slot, astray>>

(* 100 ms without an answer: the loop of the forwarder goes round again,   *)
(* and the coroutine it gave up stays where it is.                         *)
ForwarderTimeout ==
    /\ fw.pc = "wait" /\ ~Landed
    /\ gen.pc # "kill" /\ retries < MaxRetries
    /\ retries' = retries + 1
    /\ fw' = [fw EXCEPT !.pc = "put"]
    /\ UNCHANGED <<server, socket, rd, native, chan, discarded, loop, gen,
                   event, slot, astray>>

ForwarderSentinel ==
    /\ fw.pc = "fin"
    /\ Submit(Sentinel)
    /\ fw' = [fw EXCEPT !.pc = "finwait"]
    /\ UNCHANGED <<server, socket, rd, native, chan, discarded, retries, gen,
                   event, slot, astray>>

(* The sentinel is in the queue, or five seconds passed.  The loop is not  *)
(* busy for five seconds between two lines of _abandon().                  *)
ForwarderEnds ==
    /\ fw.pc = "finwait"
    /\ Landed \/ gen.pc # "kill"
    /\ fw' = [fw EXCEPT !.pc = "release"]
    /\ UNCHANGED <<server, socket, rd, native, chan, discarded, retries, loop,
                   gen, event, slot, astray>>

ForwarderReleaseByEos ==
    /\ fw.pc = "release"
    /\ slot' = IF ~native.eos THEN "destroyed" ELSE "free"
    /\ fw' = [fw EXCEPT !.pc = "done"]
    /\ UNCHANGED <<server, socket, rd, native, chan, discarded, retries, loop,
                   gen, event, astray>>

ForwarderRelease ==
    /\ fw.pc = "release"
    /\ slot' = IF discarded \/ ~native.eos THEN "destroyed" ELSE "free"
    /\ fw' = [fw EXCEPT !.pc = "done"]
    /\ UNCHANGED <<server, socket, rd, native, chan, discarded, retries, loop,
                   gen, event, astray>>
-----------------------------------------------------------------------------
(* The event loop: coroutines run in the order of the ready queue, put()   *)
(* parks while the queue is full, get() wakes the first parked put().      *)
RunPut ==
    /\ ready # <<>> /\ gen.pc # "kill"
    /\ ready' = Tail(ready)
    /\ IF Len(queue) < QueueCap
       THEN /\ queue' = Append(queue, Head(ready).val)
            /\ UNCHANGED putters
       ELSE /\ putters' = Append(putters, Head(ready))
            /\ UNCHANGED queue
    /\ UNCHANGED <<server, socket, rd, native, chan, discarded, fw, retries,
                   gen, event, slot, astray>>

GeneratorGet ==
    /\ kind = "async" /\ gen.pc = "get" /\ queue # <<>>
    /\ queue' = Tail(queue)
    /\ IF putters = <<>> THEN UNCHANGED <<ready, putters>>
       ELSE /\ ready' = Append(ready, Head(putters))
            /\ putters' = Tail(putters)
    /\ gen' = IF Head(queue) = Sentinel
              THEN [gen EXCEPT !.pc = "abandon", !.end = IF fw.exc THEN "err" ELSE "none"]
              ELSE [gen EXCEPT !.pc = "yield", !.yielded = Append(@, Head(queue).n)]
    /\ UNCHANGED <<server, socket, rd, native, chan, discarded, fw, retries,
                   event, slot, astray>>

GeneratorResumes ==
    /\ gen.pc = "yield"
    /\ gen' = [gen EXCEPT !.pc = "get"]
    /\ UNCHANGED <<server, socket, rd, native, chan, discarded, fw, retries,
                   loop, event, slot, astray>>

(* The iterator of the sync client takes the channel's items itself.       *)
IteratorNext ==
    /\ kind = "sync" /\ gen.pc = "get"
    /\ \E item \in Range(chan) \cup {None} :
        /\ Receive(item)
        /\ gen' = CASE item.type = "block" -> [gen EXCEPT !.pc = "yield",
                                                         !.yielded = Append(@, item.n)]
                    [] item.type = "none"  -> [gen EXCEPT !.pc = "over", !.end = "none"]
                    [] item.type = "err"   -> [gen EXCEPT !.pc = "over", !.end = "err"]
    /\ UNCHANGED <<server, socket, rd, native, discarded, fw, retries, loop,
                   event, slot, astray>>

(* break, an exception of the application, a cancelled task, the collector *)
Leave ==
    /\ gen.pc \in {"get", "yield"}
    /\ gen' = [gen EXCEPT !.pc = "abandon", !.end = "left"]
    /\ UNCHANGED <<server, socket, rd, native, chan, discarded, fw, retries,
                   loop, event, slot, astray>>

(* _abandon() looks at eos first and kills the connection after that.      *)
Abandon ==
    /\ gen.pc = "abandon"
    /\ gen' = [gen EXCEPT !.pc = IF native.eos THEN "over" ELSE "kill"]
    /\ IF kind = "async"
       THEN event' = TRUE /\ UNCHANGED native
       ELSE native' = [native EXCEPT !.cancel = TRUE] /\ UNCHANGED event
    /\ UNCHANGED <<server, socket, rd, chan, discarded, fw, retries, loop, slot,
                   astray>>

(* _Client.discard()                                                       *)
Kill ==
    /\ gen.pc = "kill"
    /\ discarded' = TRUE
    /\ Shutdown
    /\ gen' = [gen EXCEPT !.pc = "over"]
    /\ UNCHANGED <<server, rd, native, chan, fw, retries, loop, event, slot,
                   astray>>
-----------------------------------------------------------------------------
Reader    == ReaderCheck \/ ReaderPacket \/ ReaderStray \/ ReaderEof \/ ReaderPublish
                \/ ReaderSend
Forwarder == ForwarderNext \/ ForwarderPut \/ ForwarderWait \/ ForwarderSentinel
                \/ ForwarderEnds \/ ForwarderRelease
Consumer  == GeneratorGet \/ GeneratorResumes \/ IteratorNext \/ Abandon \/ Kill

Next ==
    \/ StartStream \/ StartFails \/ CancelStart
    \/ ServerSends \/ ServerCloses
    \/ Reader \/ ReaderFails \/ StreamDropped
    \/ Forwarder \/ ForwarderTimeout \/ RunPut
    \/ Consumer \/ Leave

(* Threads and the event loop are scheduled, the server goes on with its   *)
(* response, the application goes on with its loop, and an object without  *)
(* references is freed.                                                    *)
Fairness ==
    /\ WF_vars(StartStream) /\ WF_vars(ServerSends)
    /\ WF_vars(Reader) /\ WF_vars(Forwarder) /\ WF_vars(RunPut)
    /\ WF_vars(Consumer) /\ WF_vars(StreamDropped)

Spec == Init /\ [][Next]_vars /\ Fairness
-----------------------------------------------------------------------------
(* The connection may serve another call.                                  *)
Reusable ==
    \/ slot = "free"
    \/ kind = "sync" /\ gen.pc = "over" /\ ~discarded

(* The socket stands behind the response and nobody else reads it.         *)
Clean == left = <<>> /\ net = <<>> /\ ~shut /\ rd.pc # "read"

(* A connection that serves another call after a stream stands behind the  *)
(* last packet of the stream's response, was not shut down by an _abandon()*)
(* that lost its race against the reader, and is read by nobody else; one  *)
(* the server closed fails on its next use.  Two things break this and are *)
(* named here.  A cancelled start (gen.end = "start") hands the client back*)
(* while its query is being sent.  After an error in the middle of the     *)
(* response the iterator of the sync client ends without discard(), while  *)
(* the forwarder destroys the slot unless the reader, which goes on from   *)
(* stray bytes, found something like a terminal packet among them.         *)
ReusedIsClean ==
    Reusable /\ gen.end # "start"
        => closed \/ Clean \/ (astray /\ (kind = "async" => native.eos))

(* The blocks arrive without a gap, and an iteration that ends normally    *)
(* has seen all of them: a response that was cut never looks complete.     *)
NothingMissing ==
    /\ \A i \in DOMAIN gen.yielded : \A n \in 1..gen.yielded[i] :
           \E j \in 1..i : gen.yielded[j] = n
    /\ gen.end = "none" => NBlocks = 0 \/ NBlocks \in Range(gen.yielded)

(* A stream whose server stays ends for the application, which goes on or  *)
(* leaves, and the client of one that was read to its end is returned.     *)
StreamEnds ==
    <>(closed \/ (gen.pc = "over" /\ (kind = "async" /\ gen.end # "left" => slot # "lent")))

(* The reader thread exits once its stream object is dropped behind the    *)
(* last packet, although it goes on to send Ok(None) until then.           *)
ReaderExits == (native.dropped /\ native.eos) ~> native.finished

(* _abandon() of AsyncClient.query_stream: "The socket shutdown unblocks   *)
(* the Rust reader thread wherever it is (...) and lets the forwarder      *)
(* finish and destroy the pool slot."                                      *)
AbandonReleases ==
    (kind = "async" /\ gen.end = "left" /\ ~closed) ~> (slot # "lent" \/ closed)

(* query_stream yields "Block objects one at a time": each block of the    *)
(* response once.                                                          *)
EachBlockOnce ==
    \A i, j \in DOMAIN gen.yielded : gen.yielded[i] = gen.yielded[j] => i = j

(* query_stream: on any exit other than the terminal packet the slot of    *)
(* the connection is "destroyed instead of recycled", the CancelledError   *)
(* that arrives while the stream is being started included; the iterator   *)
(* of the sync client closes the client then.                              *)
NeverReusedUnread == Reusable => closed \/ Clean
=============================================================================
