---------------------------- MODULE QueryStream -----------------------------
(***************************************************************************)
(* QueryStream of the sync client: a response parsed from a buffer that    *)
(* the socket fills, segment by segment.  A packet that is not complete is *)
(* left in the buffer and parsed again after the next fill.                *)
(*                                                                         *)
(* q is the stream: its buffer and position, where the current packet      *)
(* starts (saved), where it goes on after a fill (at), its packet type     *)
(* (typ), what the calls of read_next_block() returned so far, whether a   *)
(* frame held bytes behind its block (packed), and whether a fill ended at *)
(* a place that the parser does not come through (split): inside           *)
(* ProfileInfo, behind the length of a compressed block's table name, or   *)
(* twice in that name.                                                     *)
(***************************************************************************)
EXTENDS BufferedPackets

Opened == [buffer |-> <<>>, pos |-> 0, saved |-> 0, at |-> "packet", typ |-> 0, st |-> "waiting",
           got |-> <<>>, replies |-> 0, packed |-> FALSE, split |-> FALSE]

At(q) == [Cursor(q.buffer) EXCEPT !.pos = q.pos]

\* Drops the consumed prefix of the buffer.
compact(q) == [q EXCEPT !.buffer = SubSeq(@, q.pos + 1, Len(@)), !.pos = 0]

Wait(q, at) == [q EXCEPT !.st = "waiting", !.at = at]

\* Mutant: the position stays behind the bytes of the packet that were there.
WaitWithoutRewind(q) == Wait(q, "packet")

Rewind(q) == Wait([q EXCEPT !.pos = q.saved], "packet")

Consumed(q, r) == IF r.st = "ok" THEN compact([q EXCEPT !.pos = r.pos]) ELSE Rewind(q)

Yield(q, r) ==
    IF r.st = "ok" THEN compact([q EXCEPT !.pos = r.pos, !.got = Append(@, r.val)]) ELSE Rewind(q)

Asked(q, r) == Consumed(IF r.st = "ok" THEN [q EXCEPT !.replies = @ + 1] ELSE q, r)

Thrown(q, r) == IF r.st = "exc" THEN [q EXCEPT !.st = "exc", !.pos = r.pos] ELSE Rewind(q)

(***************************************************************************)
(* Packets in the buffer                                                   *)
(***************************************************************************)
skip_part_uuids_buffer(c) == Then(Varint(c, "count"), LAMBDA n : Take(n, 16 * n.val, "fill"))

skip_merge_tree_part_info_buffer(c) ==
    Fields(c, <<"u64", "string", "u64", "u64", "u64", "u64", "u8">>)

skip_mark_ranges_buffer(c) == Then(U64(c, "num"), LAMBDA n : Take(n, 16 * n.val, "fill"))

skip_ranges_in_data_parts_description_buffer(c) ==
    Counted(Varint(c, "count"), LAMBDA r :
        Fields(skip_mark_ranges_buffer(skip_merge_tree_part_info_buffer(r)),
               <<"varint", "string", "varint">>))

skip_parallel_read_announcement_buffer(c) ==
    Fields(skip_ranges_in_data_parts_description_buffer(Fields(c, <<"u64", "u8">>)),
           <<"u64", "u64", "varint", "varint", "string">>)

read_parallel_read_request_stream_id_buffer(c) ==
    Fields(skip_ranges_in_data_parts_description_buffer(Fields(c, <<"u64", "u8", "u64", "u64">>)),
           <<"string">>)

progress_fields(rev) ==
    3 + (IF rev >= WITH_CLIENT_WRITE_INFO THEN 2 ELSE 0)
      + (IF rev >= WITH_SERVER_QUERY_TIME_IN_PROGRESS THEN 1 ELSE 0)
      + (IF rev >= WITH_TOTAL_BYTES_IN_PROGRESS THEN 1 ELSE 0)

(***************************************************************************)
(* ProfileInfo.  When the buffer ends right behind the three counters, or  *)
(* right behind rows_before_limit, the position goes back and the buffer   *)
(* is filled, but the code goes on with the last two fields.               *)
(***************************************************************************)
profile_aggregation(q, rev) ==
    IF rev >= WITH_ROWS_BEFORE_AGGREGATION
    THEN Consumed(q, Fields(At(q), <<"u8", "varint">>))
    ELSE compact(q)

profile_split(q, rev) ==
    [Wait([q EXCEPT !.pos = q.saved], "profile")
        EXCEPT !.split = @ \/ rev >= WITH_ROWS_BEFORE_AGGREGATION]

profile_limit(q, rev, limit) ==
    IF limit.st # "ok" THEN Rewind(q)
    ELSE IF limit.pos = Len(q.buffer) THEN profile_split(q, rev)
    ELSE profile_aggregation([q EXCEPT !.pos = limit.pos + 1], rev)

profile_counters(q, rev, counters) ==
    IF counters.st # "ok" THEN Rewind(q)
    ELSE IF counters.pos = Len(q.buffer) THEN profile_split(q, rev)
    ELSE profile_limit(q, rev, Fields(counters, <<"u8", "varint">>))

profile_info(q, rev) == profile_counters(q, rev, Fields(At(q), Times(3, "varint")))

(***************************************************************************)
(* Compressed packets: a string from the buffer, then a body from frames   *)
(* that may still be on the socket.                                        *)
(***************************************************************************)
\* What the frames, or the sniffed bytes, hold behind the block.
FramesLeft(f) == SubSeq(f.r.buf, f.r.pos + 1, Len(f.r.buf))

into_pending(c) ==
    IF LooksPlain(c) THEN SubSeq(c.buf, ReadBody(c, "read_block_body").pos + 1, SniffedEnd(c))
    ELSE FramesLeft(Framed(c, <<>>, "read_block_body"))

PutBack(q, pending) ==
    IF pending = <<>> THEN q
    ELSE [q EXCEPT !.buffer = pending \o SubSeq(@, q.pos + 1, Len(@)), !.pos = 0, !.packed = TRUE]

BlockOrSkip(q, block) == IF q.typ = 1 THEN compact([q EXCEPT !.got = Append(@, block)]) ELSE q

after_body(q, r) ==
    CASE r.st = "more" -> Wait(q, "body")
      [] r.st = "err" -> [q EXCEPT !.st = "err"]
      [] OTHER -> BlockOrSkip(PutBack([q EXCEPT !.pos = r.pos], into_pending(At(q))), r.val)

compressed_body(q) == after_body(q, DecompressingReader(At(q), "read_block_body"))

\* The length of the string stays consumed when the string is not there yet.
block_name(q, s) ==
    IF s.st = "ok" THEN compressed_body([q EXCEPT !.pos = s.pos])
    ELSE Wait([q EXCEPT !.pos = s.pos, !.split = @ \/ s.pos > q.pos], "name")

read_compressed_block(q) == block_name(q, HeaderString(At(q), "id"))

\* A second fill that does not bring the string is an error.
block_name_again(q, s) ==
    IF s.st = "ok" THEN compressed_body([q EXCEPT !.pos = s.pos])
    ELSE [q EXCEPT !.st = "err", !.split = TRUE]

retry_compressed_block(q) == block_name_again(q, HeaderString(At(q), "id"))

after_columns(q, r) ==
    CASE r.st = "more" -> Wait(q, "columns")
      [] r.st = "err" -> [q EXCEPT !.st = "err"]
      [] OTHER -> [q EXCEPT !.pos = r.pos]

read_compressed_table_columns(q) == after_columns(q, DecompressingReader(At(q), "two_strings"))

(***************************************************************************)
(* read_next_block()                                                       *)
(***************************************************************************)
handle_packet(q, rev, compressed) ==
    LET t == q.typ IN
    CASE t = 5 -> compact([q EXCEPT !.st = "end"])
      [] t = 2 -> Thrown(q, parse_exception_chain(At(q)))
      [] t = 3 -> Consumed(q, Fields(At(q), Times(progress_fields(rev), "varint")))
      [] t = 4 -> compact(q)
      [] t = 6 -> profile_info(q, rev)
      [] t \in {1, 7, 8, 14} /\ compressed -> read_compressed_block(q)
      [] t = 11 /\ compressed -> read_compressed_table_columns(q)
      [] t = 1 -> Yield(q, parse_block(At(q)))
      [] t \in {7, 8, 10, 14} -> Consumed(q, parse_block(At(q)))
      [] t = 11 -> Consumed(q, two_strings(At(q)))
      [] t = 12 -> Consumed(q, skip_part_uuids_buffer(At(q)))
      [] t = 17 -> Consumed(q, HeaderString(At(q), "id"))
      [] t = 13 -> compact([q EXCEPT !.replies = @ + 1])
      [] t = 15 -> Consumed(q, skip_parallel_read_announcement_buffer(At(q)))
      [] t = 16 -> Asked(q, read_parallel_read_request_stream_id_buffer(At(q)))
      [] OTHER -> [q EXCEPT !.st = "err"]

\* One turn of the loop.
packet_type(q, t, rev, compressed) ==
    IF t.st # "ok" THEN Wait(q, "packet")
    ELSE handle_packet([q EXCEPT !.saved = q.pos, !.pos = t.pos, !.typ = t.val], rev, compressed)

Turn(q, rev, compressed) == packet_type(q, Varint(At(q), "packet"), rev, compressed)

RECURSIVE read_next_blocks(_, _, _)
read_next_blocks(q, rev, compressed) ==
    IF q.st = "reading" THEN read_next_blocks(Turn(q, rev, compressed), rev, compressed) ELSE q

\* A segment arrives: the code that called fill_buffer() goes on.
fill_buffer(q, segment, rev, compressed) ==
    LET filled == [q EXCEPT !.buffer = @ \o segment, !.st = "reading"] IN
    IF q.st # "waiting" THEN q
    ELSE read_next_blocks(
             CASE q.at = "packet" -> filled
               [] q.at = "profile" -> profile_aggregation(filled, rev)
               [] q.at = "name" -> retry_compressed_block(filled)
               [] q.at = "body" -> compressed_body(filled)
               [] q.at = "columns" -> read_compressed_table_columns(filled),
             rev, compressed)
=============================================================================
