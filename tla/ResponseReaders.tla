-------------------------- MODULE ResponseReaders ---------------------------
(***************************************************************************)
(* All readers of a response on the same bytes.  A behaviour is a server   *)
(* that sends one response or two, field by field: whatever the sync       *)
(* reader waits for next, right or wrong.  The bytes reach the QueryStream *)
(* in segments that end between any two fields.  Once in a behaviour the   *)
(* connection may pause inside the bytes that a reader of frames sniffs.   *)
(***************************************************************************)
EXTENDS QueryStream

CONSTANTS
    Revisions,     \* negotiated revisions
    LaterTypes,    \* types of the packets between the first and the last
    MaxPackets,    \* bound on the packets of a behaviour
    MaxBytes       \* bound on its bytes

VARIABLES
    rev, compressed,   \* what was negotiated
    buf,               \* the bytes the server sent
    types,             \* the types of the packets
    seen,              \* how many of the bytes the QueryStream has
    lull,              \* the place of the pause; 0 as long as there was none
    q                  \* the QueryStream

vars == <<rev, compressed, buf, types, seen, lull, q>>

Sync == INSTANCE SyncPackets
Async == INSTANCE AsyncPackets

Start == Response(buf)

CountStart == [Start EXCEPT !.val.got = 0]

BatchStart == [Start EXCEPT !.val = <<>>]

(***************************************************************************)
(* The server                                                              *)
(***************************************************************************)
Le8(n) == <<n, 0, 0, 0, 0, 0, 0, 0>>

Frame(content) == <<1, 5, 5, 130, HEADER_LEN + Len(content), Len(content)>> \o content

\* A block of one column and one row.
SmallBlock == <<0, 1, 1, 0, 1, 0, 0, 5>>

\* The first packet is any, the last one EndOfStream.
PacketTypes ==
    CASE types = <<>> -> 0..18
      [] types # <<>> /\ Len(types) < MaxPackets - 1 -> LaterTypes
      [] OTHER -> {5}

Plainly(want) ==
    CASE want.k = "packet" -> {<<t>> : t \in PacketTypes}
      [] want.k = "count" -> {<<n>> : n \in 0..2}
      [] want.k = "len" -> {<<1>>}
      [] want.k = "num" -> {Le8(n) : n \in 0..1}
      [] want.k \in {"flag"} -> {<<0>>, <<1>>}
      [] want.k \in {"dim", "name", "custom"} -> {Times(want.n, 0)}
      [] OTHER -> {Times(want.n, 5)}

\* Frames with what the block reader asks for.  Where a block starts also a
\* whole block in a frame, a plain block, an empty plain block with the end of
\* the response behind it, and frames with a wrong checksum, method or size.
Frames(ask) ==
    {Frame(bytes) : bytes \in Plainly(ask)}
    \cup (IF ask.k # "dim" THEN {}
          ELSE {Frame(SmallBlock), SmallBlock, <<0, 0, 0, 5>>,
                <<2, 5, 5, 130, 4, 1, 5>>, <<1, 5, 5, 7, 4, 1, 5>>, <<1, 5, 5, 130, 4, 2, 5>>,
                <<1, 5, 5, 130, 99, 1, 5>>, <<1, 5, 5, 130, 2, 1>>})

Sends(want) == IF want.k = "frame" THEN Frames(want.ask) ELSE Plainly(want)

\* The places in the first frame of a block where a pause makes a difference,
\* on the revision that the async client, the only one to mind, reads.
Pauses(want) ==
    IF lull = 0 /\ rev = DEFAULT_PROTOCOL_REVISION /\ want.k = "frame" /\ want.ask.k = "dim"
    THEN {Len(buf) + i : i \in 1..METHOD_OFFSET}
    ELSE {}

\* The first segment holds any number of answers, a later one holds one.
Answer(r) ==
    /\ seen \in {0, Len(buf)}
    /\ r.st = "more"
    /\ Len(buf) + r.want.n <= MaxBytes
    /\ r.want.k = "packet" => Len(types) < MaxPackets
    /\ \E bytes \in Sends(r.want) :
          /\ buf' = buf \o bytes
          /\ types' = IF r.want.k = "packet" THEN Append(types, bytes[1]) ELSE types
    /\ lull' \in {lull} \cup Pauses(r.want)
    /\ UNCHANGED <<rev, compressed, seen, q>>

\* What was sent since the last segment reaches the QueryStream.
Deliver ==
    /\ seen < Len(buf)
    /\ q.st = "waiting"
    /\ q' = fill_buffer(q, SubSeq(buf, seen + 1, Len(buf)), rev, compressed)
    /\ seen' = Len(buf)
    /\ UNCHANGED <<rev, compressed, buf, types, lull>>

Init ==
    /\ rev \in Revisions
    /\ compressed \in BOOLEAN
    /\ buf = <<>>
    /\ types = <<>>
    /\ seen = 0
    /\ lull = 0
    /\ q = Opened

\* The reader of a response, or of the second one behind it.
Waiting(r) ==
    IF r.st = "end"
    THEN Sync!read_response_blocks([r EXCEPT !.st = "ok", !.val = Nothing], rev, compressed)
    ELSE r

Next ==
    \/ Answer(Waiting(Sync!read_response_blocks(Start, rev, compressed)))
    \/ Deliver

Spec == Init /\ [][Next]_vars

(***************************************************************************)
(* Properties                                                              *)
(***************************************************************************)
\* The reader stands at the end of the response or between two packets.
Between(r) == r.st \in {"end", "exc"} \/ (r.st = "more" /\ r.want.k = "packet")

SamePlace(r, s) == s.st = r.st /\ s.pos = r.pos

Rows(blocks) == FoldLeft(LAMBDA n, b : n + b.rows, 0, blocks)

WithRows(blocks) == SelectSeq(blocks, LAMBDA b : b.rows > 0)

Sent == Range(types)

Select(c) == Async!read_select_response(c, "blocks", compressed)

\* Blocks, block views, row count and the parser of a whole response are four
\* implementations of one format: where the first stands between two packets
\* the others stand too, with the same blocks and the same answers.
SyncAgree(b, v, n, p) ==
    Between(b) =>
        /\ SamePlace(b, v) /\ v.val = b.val
        /\ SamePlace(b, n)
        /\ b.st # "exc" => n.val.got = Rows(b.val.got) /\ n.val.replies = b.val.replies
        /\ ~compressed /\ b.st = "end" /\ Sent \cap {12, 13, 16} = {} =>
              p.st = "end" /\ p.pos = b.pos /\ p.val.got = b.val.got

SyncReadersAgree ==
    SyncAgree(Sync!read_response_blocks(Start, rev, compressed),
              Sync!read_response_block_views(Start, rev, compressed),
              Sync!read_response_row_count(CountStart, rev, compressed),
              parse_response_with_revision(Start, rev))

\* The async handlers read one response alike: all blocks, the first block,
\* the number of rows, raw blocks, the reader task of a row stream, the calls
\* of next_block(), and a batch of one query.  (The raw reader alone refuses
\* fields of BlockInfo that it does not know.)
AsyncAgree(b, f, n, raw, rows, next, batch) ==
    /\ Between(b) => /\ SamePlace(b, f) /\ SamePlace(b, n)
                     /\ compressed \/ raw.st = "err" \/ SamePlace(b, raw)
                     /\ SamePlace(b, rows) /\ SamePlace(b, next)
    /\ Between(b) /\ b.st # "exc" =>
          /\ Len(f.val.got) = Len(b.val.got)
          /\ b.val.got # <<>> => f.val.got[1] = b.val.got[1]
          /\ n.val = [b.val EXCEPT !.got = Rows(b.val.got)]
          /\ compressed \/ raw.st = "err" \/ Rows(raw.val.got) = Rows(b.val.got)
          /\ rows.val = b.val /\ next.val = b.val
    /\ b.st = "end" => batch.st = "ok" /\ batch.pos = b.pos /\ batch.val = <<b.val.got>>

\* A batch of two queries reads two responses one behind the other, each as
\* a select would; the second starts with a budget of its own.
BatchAgrees(first, second, batch) ==
    first.st = "end" /\ second.st = "end" =>
        /\ batch.st = "ok"
        /\ batch.pos = second.pos
        /\ batch.val = <<first.val.got, second.val.got>>

AsyncReadersAgree ==
    /\ AsyncAgree(Select(Start),
                  Async!read_select_response(Start, "first", compressed),
                  Async!read_select_response(CountStart, "count", compressed),
                  Async!read_select_response(Start, "raw", FALSE),
                  Async!read_query_blocks(Start, compressed),
                  Async!next_blocks(Start, compressed),
                  Async!read_n_result_sets(BatchStart, 1, compressed))
    /\ BatchAgrees(Select(Start),
                   Select([Select(Start) EXCEPT !.st = IF @ = "end" THEN "ok" ELSE @, !.val = Nothing]),
                   Async!read_n_result_sets(BatchStart, 2, compressed))

\* Draining a response, after an error or a cancel, ends where reading it ends,
\* unless the server asks for read tasks, which the drains refuse.
DrainsAgree(b, d, c) ==
    Between(b) /\ Sent \cap {13, 15, 16} = {} => SamePlace(b, d) /\ SamePlace(b, c)

DrainsEndWhereReadersEnd ==
    DrainsAgree(Select(Start),
                Async!drain_response(Start, compressed),
                Async!cancel_and_drain_inner(Start, compressed))

\* On the revision that the async client assumes, both clients read the same
\* blocks with rows and end in the same place, as long as the connection does
\* not pause for 50 ms in the first bytes of a body: then the async client
\* takes a frame for a plain body.  Packets are left out that only the sync
\* client knows (7, 8, 11), the announcement (15), and the limits that only the
\* async client has.
Comparable == rev = DEFAULT_PROTOCOL_REVISION /\ lull = 0

Agree(b, a) ==
    Comparable /\ Between(b) /\ Sent \cap {7, 8, 11, 15} = {} =>
        \/ SamePlace(b, a) /\ (b.st = "exc" \/ a.val = [b.val EXCEPT !.got = WithRows(@)])
        \/ a.st = "err" /\ Sent \cap {2, 12} # {}

ClientsAgree ==
    Agree(Sync!read_response_blocks(Start, rev, compressed),
          Select(Start))

\* INSERT waits for the table's structure: both clients stop right behind the
\* first Data packet, so that the reader of the final response starts at a
\* packet (the async one, again, without a pause in the sniffed bytes).
StructureEnds(s, a, b) ==
    /\ s.st = "end" => Between(b) /\ b.pos = s.pos /\ Len(b.val.got) = 1
    /\ Comparable /\ a.st = "end" => SamePlace(a, s)

Structure == Sync!wait_for_insert_table_structure_from_reader(Start, rev, compressed)

StructureEndsBehindFirstBlock ==
    StructureEnds(Structure, Async!read_table_structure(Start, compressed),
                  Sync!read_response_blocks(Response(SubSeq(buf, 1, Structure.pos)), rev, compressed))

\* However the bytes are cut into segments, the QueryStream returns the blocks
\* that the blocking reader returns and ends where it ends, except behind the
\* cuts that split marks and behind a frame with more than its block.
StreamLike(b) ==
    /\ q.st = "end" => b.st \in {"end", "large"}
    /\ q.st \in {"exc", "err"} => b.st \in {q.st, "large"}
    /\ Between(b) =>
          /\ b.st = "end" => q.st = "end"
          /\ b.st = "more" => q.st = "waiting"
          /\ b.st # "exc" => q.got = b.val.got /\ q.replies = b.val.replies

Delivered == Sync!read_response_blocks(Response(SubSeq(buf, 1, seen)), rev, compressed)

StreamAgrees == q.split \/ q.packed \/ StreamLike(Delivered)

\* The same of every cut in a plain response: where read_next_block() compacts
\* its buffer, a full packet was consumed or the position was rewound.
PlainStreamAgrees == compressed \/ StreamLike(Delivered)
=============================================================================
