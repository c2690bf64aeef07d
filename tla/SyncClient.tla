----------------------------- MODULE SyncClient -----------------------------
(***************************************************************************)
(* The blocking client behind its setup: one call at a time on one socket. *)
(* A call writes a request and reads packets until the one that ends its   *)
(* reply.  Most calls read through a buffered reader of their own, and     *)
(* what it has read ahead is lost when the call returns.  A packet is its  *)
(* kind and the request it answers; packets that carry nothing a call      *)
(* waits for (progress, profile, timezone) are left out.  What may follow  *)
(* the packet a call returns at, the end marker of a chunked packet and    *)
(* the logs of an insert, has two halves, as a read may end inside it.     *)
(***************************************************************************)
EXTENDS SyncSetup, Integers

CONSTANTS MaxCalls,         \* bound on the requests of a behaviour
          MaxBlocks,        \* bound on the blocks of a result, and of an insert
          Budget            \* blocks that fit into max_response_size

ASSUME SyncClientAssumption == MaxCalls \in Nat /\ MaxBlocks \in Nat /\ Budget \in Nat

VARIABLES
    cl,         \* the call: pc, op, request, blocks, what insert() does next, half a trailer
    buf,        \* what the reader of the call has read ahead
    cached,     \* the version of the schema in schema_cache, or Cold
    up,         \* packets on their way to the server
    down,       \* packets on their way to the client
    srv,        \* the server: pc, request, blocks sent, version of the schema
    mixed,      \* history: a call read what is not part of its reply
    spoilt,     \* history: what befell the stream, of Causes
    unseen      \* history: query() sent a statement that changes a schema

session == <<cl, buf, cached, up, down, srv, mixed, spoilt, unseen>>
vars    == <<setupVars, session>>

Cold == -1

Packet(k, req) == [k |-> k, req |-> req]

Requests == {"query", "ddl", "insert", "ping", "tables"}

(* kept:  a call failed inside its reply and the client stays in use;      *)
(* cut:   a reader was dropped that held the first half of a packet;       *)
(* named: a block was sent under the name of a table that is not cached.   *)
Causes == {"kept", "cut", "named"}

Init ==
    /\ SetupInit
    /\ cl = [pc |-> "idle", op |-> "none", req |-> 0, kept |-> 0, then |-> "none", half |-> FALSE]
    /\ buf = <<>> /\ cached = Cold
    /\ up = <<>> /\ down = <<>>
    /\ srv = [pc |-> "idle", req |-> 0, sent |-> 0, schema |-> 0]
    /\ mixed = FALSE /\ spoilt = {} /\ unseen = FALSE

(* What becomes of a client that read what is not its own is not followed. *)
Idle == setup.pc = "ready" /\ cl.pc = "idle" /\ ~mixed
-----------------------------------------------------------------------------
(* Requests.                                                               *)

(* write_packet: the next request, or the error of a socket that is shut.  *)
write_packet(op, k, then) ==
    /\ cl.req < MaxCalls
    /\ IF sock.shut
       THEN /\ cl' = [cl EXCEPT !.pc = "closed"]
            /\ UNCHANGED up
       ELSE /\ cl' = [cl EXCEPT !.pc = "reading", !.op = op, !.req = @ + 1,
                                !.kept = 0, !.then = then, !.half = FALSE]
            /\ up' = Append(up, Packet(k, cl.req + 1))
    /\ UNCHANGED <<setupVars, buf, cached, down, srv, mixed>>

(* A call that leaves no trace in the history.                             *)
Call(op, k, then) == Idle /\ write_packet(op, k, then) /\ UNCHANGED <<spoilt, unseen>>

Execute == Call("rows", "query", "none") \/ Call("ddl", "ddl", "none")

(* query() does not look at its statement, and clears no cache.            *)
Query ==
    \/ Call("blocks", "query", "none")
    \/ /\ Idle /\ write_packet("blocks", "ddl", "none")
       /\ unseen' = TRUE /\ UNCHANGED spoilt

QueryWithBlockView == Call("view", "query", "none")

StartStream == Call("stream", "query", "none")

Ping == Call("ping", "ping", "none")

TablesStatus == Call("tables", "tables", "none")

(* DESCRIBE through query(), for what is not cached or is to be renewed.   *)
SchemaForTable == Call("describe", "query", "none")

ClearSchemaCache ==
    /\ Idle /\ cached' = Cold
    /\ UNCHANGED <<setupVars, cl, buf, up, down, srv, mixed, spoilt, unseen>>

BeginInsert == Call("begin", "insert", "none")

(* insert() has the schema and validates every block before it begins, and *)
(* sends its blocks without a name.                                        *)
Insert ==
    IF cached = Cold
    THEN cl.req + 1 < MaxCalls /\ Call("describe", "query", "begin")
    ELSE Call("begin", "insert", "send")

WriteBlock ==
    /\ cl' = [cl EXCEPT !.kept = @ + 1]
    /\ up' = Append(up, Packet("data", cl.req))
    /\ UNCHANGED <<setupVars, buf, cached, down, srv, mixed, spoilt, unseen>>

SendDataValidates(named) ==
    /\ cl.pc = "inserting" /\ cl.kept < MaxBlocks
    /\ IF cached = Cold
       THEN /\ write_packet("describe", "query", "none")
            /\ spoilt' = IF named THEN spoilt \cup {"named"} ELSE spoilt
            /\ UNCHANGED unseen
       ELSE WriteBlock

(* send_data validates a block that is sent under the name of its table,   *)
(* and asks the server for a schema that is not cached.                    *)
SendBlock(named) ==
    /\ cl.pc = "inserting" /\ cl.kept < MaxBlocks
    /\ IF named /\ cached = Cold
       THEN /\ write_packet("describe", "query", "none")
            /\ spoilt' = spoilt \cup {"named"}
            /\ UNCHANGED unseen
       ELSE WriteBlock

(* Callers of begin_insert() name the table or do not; insert() does not.  *)
SendData == \E named \in IF cl.then = "send" THEN {FALSE} ELSE BOOLEAN : SendBlock(named)

(* end_insert writes the empty block and drains the response.              *)
EndInsert ==
    /\ cl.pc = "inserting"
    /\ cl' = [cl EXCEPT !.pc = "reading", !.op = "rows", !.half = FALSE]
    /\ up' = Append(up, Packet("last", cl.req))
    /\ UNCHANGED <<setupVars, buf, cached, down, srv, mixed, spoilt, unseen>>
-----------------------------------------------------------------------------
(* Reading.                                                                *)

(* ping(), and tables_status() on chunked packets, read from the socket    *)
(* itself and take what they need.                                         *)
ReadAhead == IF cl.op = "ping" \/ (cl.op = "tables" /\ modes.chunked) THEN 1 ELSE Len(down)

Halved == {"end1", "log1"}

(* A BufReader reads when it is empty, and gets a part of what arrived.    *)
Fill ==
    /\ cl.pc = "reading" /\ buf = <<>> /\ down # <<>>
    /\ \E n \in 1..ReadAhead :
        /\ buf' = SubSeq(down, 1, n)
        /\ down' = SubSeq(down, n + 1, Len(down))
    /\ UNCHANGED <<setupVars, cl, cached, up, srv, mixed, spoilt, unseen>>

(* A packet is part of the reply if it answers the request.  An end marker *)
(* may be left from the call before; a second half has its first in front. *)
Foreign(p) ==
    \/ p.k \notin {"end1", "end2"} /\ p.req # cl.req
    \/ p.k \in {"end2", "log2"} /\ ~cl.half

(* The next packet, of one of the kinds ks.                                *)
Next1(ks) ==
    /\ cl.pc = "reading" /\ buf # <<>> /\ Head(buf).k \in ks /\ ~mixed
    /\ mixed' = Foreign(Head(buf))
    /\ UNCHANGED <<setup, dog, peer, modes, down, srv, unseen>>

(* The call goes on, or it returns and its reader is dropped with what it  *)
(* has read ahead.                                                         *)
Continue(call) == cl' = call /\ buf' = Tail(buf) /\ UNCHANGED spoilt

DropReader(causes) ==
    /\ buf' = <<>>
    /\ spoilt' = spoilt \cup causes
                        \cup (IF buf # <<>> /\ buf[Len(buf)].k \in Halved THEN {"cut"} ELSE {})

Return(pc, causes) ==
    /\ cl' = [cl EXCEPT !.pc = pc, !.op = IF pc = "inserting" THEN "begin" ELSE "none", !.kept = 0]
    /\ DropReader(causes)

(* The caller drops the client, or goes on using it.                       *)
Failed == Return("closed", {}) \/ Return("idle", {"kept"})

(* ChunkedReader skips end markers; every loop skips logs.                 *)
ReadTrailer ==
    /\ Next1({"end1", "end2", "log1", "log2"})
    /\ Continue([cl EXCEPT !.half = Head(buf).k \in Halved])
    /\ UNCHANGED <<sock, cached, up>>

(* read_response_row_count discards blocks.                                *)
DiscardBlock ==
    /\ Next1({"data"}) /\ cl.op \in {"rows", "ddl", "drain"}
    /\ Continue(cl)
    /\ UNCHANGED <<sock, cached, up>>

BreachReturns ==
    /\ Next1({"data"}) /\ cl.op \in {"blocks", "describe"} /\ cl.kept = Budget
    /\ Return("idle", {})
    /\ UNCHANGED <<sock, cached, up>>

(* The budget is spent: Cancel, and a drain through the same reader.       *)
BudgetBreach ==
    /\ Next1({"data"}) /\ cl.op \in {"blocks", "describe"} /\ cl.kept = Budget
    /\ Continue([cl EXCEPT !.op = "drain", !.then = "none"])
    /\ up' = Append(up, Packet("cancel", cl.req))
    /\ UNCHANGED <<sock, cached>>

(* read_response_blocks keeps blocks.                                      *)
KeepBlock ==
    /\ Next1({"data"}) /\ cl.op \in {"blocks", "describe"} /\ cl.kept < Budget
    /\ Continue([cl EXCEPT !.kept = @ + 1])
    /\ UNCHANGED <<sock, cached, up>>

(* read_response_block_views hands a block to the visitor, which may fail. *)
VisitBlock ==
    /\ Next1({"data"}) /\ cl.op = "view"
    /\ Continue(cl) \/ Failed
    /\ UNCHANGED <<sock, cached, up>>

(* read_next_block returns a block; a caller may stop there.               *)
StreamBlock ==
    /\ Next1({"data"}) /\ cl.op = "stream"
    /\ Continue(cl) \/ Failed
    /\ UNCHANGED <<sock, cached, up>>

(* wait_for_insert_table_structure returns at the structure.               *)
ReadStructure ==
    /\ Next1({"data"}) /\ cl.op = "begin"
    /\ Return("inserting", {})
    /\ UNCHANGED <<sock, cached, up>>

(* An exception ends every call and leaves the framing intact; during the  *)
(* recovery it counts as a failed drain.  tables_status() knows exceptions,*)
(* ping() does not.                                                        *)
ReadException ==
    /\ Next1({"exc"}) /\ cl.op # "ping"
    /\ Return("idle", {})
    /\ sock' = [sock EXCEPT !.shut = @ \/ cl.op = "drain"]
    /\ UNCHANGED <<cached, up>>

CacheStays == IF cl.op = "describe" THEN srv.schema ELSE cached

(* A statement that may change a schema clears the cache, a DESCRIBE fills *)
(* it.                                                                     *)
CacheAfter == CASE cl.op = "ddl" -> Cold [] cl.op = "describe" -> srv.schema [] OTHER -> cached

(* EndOfStream ends the call; insert() begins behind its DESCRIBE.         *)
ReadEndOfStream ==
    /\ Next1({"eos"}) /\ cl.op \notin {"begin", "ping", "tables"}
    /\ cached' = CacheAfter
    /\ IF cl.then = "begin"
       THEN /\ cl' = [cl EXCEPT !.op = "begin", !.req = @ + 1, !.kept = 0, !.then = "send"]
            /\ DropReader({})
            /\ up' = Append(up, Packet("insert", cl.req + 1))
       ELSE Return("idle", {}) /\ UNCHANGED up
    /\ UNCHANGED sock

(* Pong and TablesStatusResponse, for the calls that wait for them.        *)
ReadAnswer ==
    /\ Next1({"pong", "tables"})
    /\ \/ cl.op = "ping" /\ Head(buf).k = "pong"
       \/ cl.op = "tables" /\ Head(buf).k = "tables"
    /\ Return("idle", {})
    /\ UNCHANGED <<sock, cached, up>>

(* The call ends early: a deadline, a socket timeout, a closed connection, *)
(* a packet it cannot read or does not expect.  A failed drain shuts the   *)
(* socket down, and query() returns the error of its budget.               *)
ReadFails ==
    /\ cl.pc = "reading"
    /\ IF cl.op = "drain"
       THEN Return("idle", {}) /\ sock' = [sock EXCEPT !.shut = TRUE]
       ELSE Failed /\ UNCHANGED sock
    /\ UNCHANGED <<setup, dog, peer, modes, cached, up, down, srv, mixed, unseen>>

Client ==
    \/ Execute \/ Query \/ QueryWithBlockView \/ StartStream \/ Ping \/ TablesStatus
    \/ SchemaForTable \/ ClearSchemaCache \/ BeginInsert \/ Insert \/ SendData \/ EndInsert
    \/ Fill \/ ReadTrailer \/ DiscardBlock \/ BudgetBreach \/ KeepBlock \/ VisitBlock
    \/ StreamBlock \/ ReadStructure \/ ReadException \/ ReadEndOfStream \/ ReadAnswer \/ ReadFails
-----------------------------------------------------------------------------
(* The server takes one request at a time and answers it in order.  A      *)
(* Cancel ends the query that runs and is ignored when none does; behind a *)
(* failed insert the blocks still on their way are skipped.                *)

(* A packet of the server as it lies on the wire.                          *)
Wire(k, req) ==
    (IF k = "log" THEN <<Packet("log1", req), Packet("log2", req)>> ELSE <<Packet(k, req)>>)
        \o (IF modes.chunked THEN <<Packet("end1", req), Packet("end2", req)>> ELSE <<>>)

Reply(k, req) == down' = down \o Wire(k, req)

Serve(pc, req) == srv' = [srv EXCEPT !.pc = pc, !.req = req, !.sent = 0]

ServerTakes ==
    /\ up # <<>> /\ up' = Tail(up)
    /\ LET p == Head(up) IN
        \/ /\ srv.pc = "idle" /\ p.k \in {"query", "ddl"}
           /\ Serve(p.k, p.req) /\ UNCHANGED down
        \/ /\ srv.pc = "idle" /\ p.k = "insert"
           /\ \/ Serve("insert", p.req) /\ Reply("data", p.req)
              \/ UNCHANGED srv /\ Reply("exc", p.req)
        \/ /\ srv.pc = "idle" /\ p.k = "ping"
           /\ UNCHANGED srv /\ Reply("pong", p.req)
        \/ /\ srv.pc = "idle" /\ p.k = "tables"
           /\ UNCHANGED srv /\ \E k \in {"tables", "exc"} : Reply(k, p.req)
        \/ /\ srv.pc = "idle" /\ p.k = "cancel"
           /\ UNCHANGED <<srv, down>>
        \/ /\ srv.pc = "query" /\ p.k = "cancel"
           /\ Serve("idle", 0) /\ Reply("eos", srv.req)
        \/ /\ srv.pc = "insert" /\ p.k = "data"
           /\ UNCHANGED <<srv, down>> \/ (Serve("skip", 0) /\ Reply("exc", p.req))
        \/ /\ srv.pc = "insert" /\ p.k = "last"
           /\ Serve("idle", 0) /\ \E k \in {"eos", "exc"} : Reply(k, p.req)
        \/ /\ srv.pc = "skip" /\ p.k = "data"
           /\ UNCHANGED <<srv, down>>
        \/ /\ srv.pc = "skip" /\ p.k = "last"
           /\ Serve("idle", 0) /\ UNCHANGED down
    /\ UNCHANGED <<setupVars, cl, buf, cached, mixed, spoilt, unseen>>

ServerSends ==
    /\ \/ /\ srv.pc = "query" /\ srv.sent < MaxBlocks
          /\ srv' = [srv EXCEPT !.sent = @ + 1] /\ Reply("data", srv.req)
       \/ /\ srv.pc = "insert" /\ srv.sent = 0
          /\ srv' = [srv EXCEPT !.sent = 1] /\ Reply("log", srv.req)
       \/ /\ srv.pc \in {"query", "ddl"}
          /\ Serve("idle", 0) /\ Reply("exc", srv.req)
       \/ /\ srv.pc = "query"
          /\ Serve("idle", 0) /\ Reply("eos", srv.req)
       \/ /\ srv.pc = "ddl"
          /\ srv' = [srv EXCEPT !.pc = "idle", !.req = 0, !.schema = @ + 1]
          /\ Reply("eos", srv.req)
    /\ UNCHANGED <<setupVars, cl, buf, cached, up, mixed, spoilt, unseen>>

Next ==
    \/ SetupNext /\ UNCHANGED session
    \/ Client
    \/ ServerTakes
    \/ ServerSends

Spec == Init /\ [][Next]_vars /\ SetupFairness

SyncTypeOK ==
    /\ cl.pc \in {"idle", "reading", "inserting", "closed"}
    /\ cl.req \in 0..MaxCalls /\ cl.kept \in 0..MaxBlocks
    /\ buf # <<>> => cl.pc = "reading"
    /\ srv.pc \in {"idle", "query", "ddl", "insert", "skip"} /\ srv.sent \in 0..MaxBlocks
    /\ cached \in Int /\ mixed \in BOOLEAN /\ spoilt \subseteq Causes /\ unseen \in BOOLEAN
-----------------------------------------------------------------------------
(* A call reads its own reply, no packet of another request and no packet  *)
(* from its middle, on a client that is not used on after a call failed    *)
(* inside its reply, whose readers were dropped between packets and whose  *)
(* blocks had their schema: whatever else callers do, what query() drains  *)
(* behind a spent budget and what a reader drops at its return is enough.  *)
OwnReply == mixed => spoilt # {}

(* Inside an insert the server gets blocks.  insert() has its schema       *)
(* before the insert begins, and send_data() asks for one only where its   *)
(* caller names the table.                                                 *)
InsertUndisturbed == srv.pc = "insert" /\ up # <<>> /\ Head(up).k \in Requests => spoilt # {}

(* The schema a block is validated against is the one the statements of    *)
(* this client left behind: execute() clears schema_cache when a statement *)
(* that may change a schema succeeds.  It does not when it fails, and      *)
(* query() never does.                                                     *)
CacheFresh ==
    spoilt = {} /\ ~unseen /\ cl.pc \in {"idle", "inserting"} /\ cached # Cold => cached = srv.schema
=============================================================================
