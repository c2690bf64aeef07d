---------------------------- MODULE AsyncPackets ----------------------------
(***************************************************************************)
(* The async client's readers of a response.                               *)
(***************************************************************************)
EXTENDS PacketCursor

VARIABLE lull   \* the byte behind this place came more than 50 ms later; 0 if none did

(***************************************************************************)
(* Packets, in the format of DEFAULT_PROTOCOL_REVISION whatever revision   *)
(* was negotiated.                                                         *)
(***************************************************************************)
read_progress_packet(c) == Fields(c, Times(7, "varint"))

read_profile_info_packet(c) ==
    Fields(c, <<"varint", "varint", "varint", "u8", "varint", "u8", "u8", "varint">>)

read_part_uuids_packet(c) ==
    Then(Varint(c, "count"), LAMBDA n : Take(Require(n, n.val <= MaxPartUuids), 16 * n.val, "fill"))

skip_merge_tree_part_info(c) ==
    Fields(c, <<"u64", "string", "u64", "u64", "u64", "u64", "u8">>)

skip_mark_ranges(c) == Then(U64(c, "num"), LAMBDA n : Take(n, 16 * n.val, "fill"))

skip_ranges_in_data_parts_description(c) ==
    Counted(Varint(c, "count"), LAMBDA r :
        Fields(skip_mark_ranges(skip_merge_tree_part_info(r)), <<"varint", "string", "varint">>))

\* Without the number of participating replicas.
skip_parallel_read_announcement(c) ==
    Fields(skip_ranges_in_data_parts_description(Fields(c, <<"u64", "u8">>)),
           <<"u64", "u64", "varint", "string">>)

read_parallel_read_request_stream_id(c) ==
    Fields(skip_ranges_in_data_parts_description(Fields(c, <<"u64", "u8", "u64", "u64">>)),
           <<"string">>)

RECURSIVE exception_from(_, _)
exception_from(c, depth) ==
    IF depth >= MaxChainDepth THEN Fail(c)
    ELSE Then(Fields(c, <<"i32", "string", "string", "string", "nested">>), LAMBDA r :
             IF r.val[1] = 0 THEN Ends(r, "exc") ELSE exception_from(r, depth + 1))

read_exception(c) == exception_from(c, 0)

handle_coordinator_packet(a, t) ==
    CASE t = 13 -> Replied(a)
      [] t = 15 -> Keep(a, skip_parallel_read_announcement(a))
      [] t = 16 -> Replied(Keep(a, read_parallel_read_request_stream_id(a)))

\* The error for a packet the client does not know; a challenge is read first.
unsupported_server_packet(a, t) == IF t = 18 THEN Then(HeaderString(a, "id"), Fail) ELSE Fail(a)

coordinator_or_unsupported(a, t) ==
    IF t \in {13, 15, 16} THEN handle_coordinator_packet(a, t) ELSE unsupported_server_packet(a, t)

(***************************************************************************)
(* Blocks                                                                  *)
(***************************************************************************)
\* The first byte of a body has come and the bytes up to the method have not
\* come within 50 ms of it.
SniffTimesOut(c) == c.st = "ok" /\ lull \in c.pos + 1..c.pos + METHOD_OFFSET

\* The body is read as a plain one that starts with its first byte.  The bytes
\* between that one and the pause were read and are lost.
ReadSniffless(c, reader) ==
    LET heard == [c EXCEPT !.buf = SubSeq(@, 1, c.pos + 1) \o SubSeq(@, lull + 1, Len(@))]
    IN  [ReadBody(heard, reader) EXCEPT !.buf = c.buf, !.pos = @ + lull - (c.pos + 1)]

\* The async reader of frames decodes the first frame at the first read, the
\* sync one when it is made; both read before they do anything else.  Only the
\* async one gives up on the sniffed bytes.
DecompressingStream(c, reader) ==
    IF SniffTimesOut(c) THEN ReadSniffless(c, reader) ELSE DecompressingReader(c, reader)

read_data_block_maybe_compressed(c, compressed) ==
    IF compressed THEN DecompressingStream(HeaderString(c, "id"), "read_data_block_body")
    ELSE Block(HeaderString(c, "id"), "read_data_block_body")

\* Mutant: the discarding reader takes the block for a plain one.
discard_ignoring_frames(c, compressed) == Block(HeaderString(c, "id"), "discard_data_block_body")

discard_data_block_maybe_compressed(c, compressed) ==
    IF compressed THEN DecompressingStream(HeaderString(c, "id"), "discard_data_block_body")
    ELSE Block(HeaderString(c, "id"), "discard_data_block_body")

read_raw_data_block(c) == Block(HeaderString(c, "id"), "read_raw_data_block")

read_table_columns_packet(c, compressed) ==
    IF compressed THEN DecompressingStream(c, "two_strings") ELSE two_strings(c)

(***************************************************************************)
(* read_select_response and its handlers: the blocks (also AllRowsHandler, *)
(* which decodes them to rows), the first block, the number of rows, and   *)
(* raw blocks of responses that are not compressed.                        *)
(***************************************************************************)
GotRows(a, r) == Then(r, LAMBDA s : IF s.val.rows = 0 THEN Keep(a, s) ELSE Got(a, s))

BlocksHandler(a, compressed) == GotRows(a, read_data_block_maybe_compressed(a, compressed))

\* The first block with rows; blocks behind it are discarded and counted.
FirstBlockHandler(a, compressed) ==
    IF a.val.got = <<>>
    THEN GotRows(a, read_data_block_maybe_compressed(a, compressed))
    ELSE Then(discard_data_block_maybe_compressed(a, compressed), LAMBDA b :
             [b EXCEPT !.val = [a.val EXCEPT !.got = IF b.val.rows > 0 THEN Append(@, 0) ELSE @]])

\* val.got is the number of rows, 0 at first.
RowCountHandler(a, compressed) ==
    Then(discard_data_block_maybe_compressed(a, compressed), LAMBDA b :
        [b EXCEPT !.val = [a.val EXCEPT !.got = @ + b.val.rows]])

RawBlocksHandler(a) == GotRows(a, read_raw_data_block(a))

on_data(a, handler, compressed) ==
    CASE handler = "blocks" -> BlocksHandler(a, compressed)
      [] handler = "first" -> FirstBlockHandler(a, compressed)
      [] handler = "count" -> RowCountHandler(a, compressed)
      [] handler = "raw" -> RawBlocksHandler(a)

\* Without a callback the row count discards profile events.
on_log_packet(a, t, handler, compressed) ==
    Keep(a, CASE handler = "count" /\ t = 14 -> discard_data_block_maybe_compressed(a, compressed)
              [] handler = "raw" -> read_data_block_maybe_compressed(a, FALSE)
              [] OTHER -> read_data_block_maybe_compressed(a, t = 14 /\ compressed))

RECURSIVE read_select_response(_, _, _)
read_select_response(c, handler, compressed) ==
    Then(Packet(c, LAMBDA a, t :
        CASE t = 1 -> on_data(a, handler, compressed)
          [] t = 2 -> read_exception(a)
          [] t = 3 -> Keep(a, read_progress_packet(a))
          [] t = 4 -> a
          [] t = 5 -> Ends(a, "end")
          [] t = 6 -> Keep(a, read_profile_info_packet(a))
          [] t \in {10, 14} -> on_log_packet(a, t, handler, compressed)
          [] t = 17 -> Keep(a, HeaderString(a, "id"))
          [] t = 12 -> Keep(a, read_part_uuids_packet(a))
          [] OTHER -> coordinator_or_unsupported(a, t)),
        LAMBDA r : read_select_response(r, handler, compressed))

(***************************************************************************)
(* The other loops                                                         *)
(***************************************************************************)
\* A reader task sends blocks with rows into a channel.
RECURSIVE read_query_blocks(_, _)
read_query_blocks(c, compressed) ==
    Then(Packet(c, LAMBDA a, t :
        CASE t = 1 -> Then(read_data_block_maybe_compressed(a, compressed), LAMBDA b :
                          IF b.val.rows = 0 THEN Keep(a, b)
                          ELSE [b EXCEPT !.val = [a.val EXCEPT !.got = Append(@, b.val)]])
          [] t = 2 -> read_exception(a)
          [] t = 3 -> Keep(a, read_progress_packet(a))
          [] t = 4 -> a
          [] t = 5 -> Ends(a, "end")
          [] t = 6 -> Keep(a, read_profile_info_packet(a))
          [] t = 10 -> Keep(a, read_data_block_maybe_compressed(a, FALSE))
          [] t = 14 -> Keep(a, read_data_block_maybe_compressed(a, compressed))
          [] t = 17 -> Keep(a, HeaderString(a, "id"))
          [] t = 12 -> Keep(a, read_part_uuids_packet(a))
          [] OTHER -> coordinator_or_unsupported(a, t)),
        LAMBDA r : read_query_blocks(r, compressed))

\* The blocks that successive calls of next_block() return.
RECURSIVE next_blocks(_, _)
next_blocks(c, compressed) ==
    Then(Packet(c, LAMBDA a, t :
        CASE t = 1 -> Then(read_data_block_maybe_compressed(a, compressed), LAMBDA b :
                          IF b.val.rows = 0 THEN Keep(a, b)
                          ELSE [b EXCEPT !.val = [a.val EXCEPT !.got = Append(@, b.val)]])
          [] t = 2 -> read_exception(a)
          [] t = 3 -> Keep(a, read_progress_packet(a))
          [] t = 4 -> a
          [] t = 5 -> Ends(a, "end")
          [] t = 6 -> Keep(a, read_profile_info_packet(a))
          [] t = 10 -> Keep(a, read_data_block_maybe_compressed(a, FALSE))
          [] t = 14 -> Keep(a, read_data_block_maybe_compressed(a, compressed))
          [] t = 17 -> Keep(a, HeaderString(a, "id"))
          [] t = 12 -> Keep(a, read_part_uuids_packet(a))
          [] OTHER -> coordinator_or_unsupported(a, t)),
        LAMBDA r : next_blocks(r, compressed))

\* One result set of a batch, with a budget of its own.
RECURSIVE read_result_set(_, _)
read_result_set(c, compressed) ==
    Then(Packet(c, LAMBDA a, t :
        CASE t = 1 -> GotRows(a, read_data_block_maybe_compressed(a, compressed))
          [] t = 2 -> read_exception(a)
          [] t = 3 -> Keep(a, read_progress_packet(a))
          [] t = 4 -> a
          [] t = 5 -> Ends(a, "end")
          [] t = 6 -> Keep(a, read_profile_info_packet(a))
          [] t = 10 -> Keep(a, read_data_block_maybe_compressed(a, FALSE))
          [] t = 14 -> Keep(a, read_data_block_maybe_compressed(a, compressed))
          [] t = 12 -> Keep(a, read_part_uuids_packet(a))
          [] t = 17 -> Keep(a, HeaderString(a, "id"))
          [] t \in {13, 15, 16} -> handle_coordinator_packet(a, t)
          [] OTHER -> Fail(a)),
        LAMBDA r : read_result_set(r, compressed))

AppendResultSet(sets, r) ==
    IF r.st = "end" THEN [r EXCEPT !.st = "ok", !.val = Append(sets, r.val.got)] ELSE r

NewResultSet(a) == [a EXCEPT !.val = Nothing]

\* n result sets one behind the other; val is the sequence of their blocks,
\* empty at first.
RECURSIVE read_n_result_sets(_, _, _)
read_n_result_sets(c, n, compressed) ==
    IF n = 0 \/ c.st # "ok" THEN c
    ELSE read_n_result_sets(AppendResultSet(c.val, read_result_set(NewResultSet(c), compressed)),
                            n - 1, compressed)

\* Ends behind the first Data block.
RECURSIVE read_table_structure(_, _)
read_table_structure(c, compressed) ==
    Then(Packet(c, LAMBDA a, t :
        CASE t = 1 -> Then(read_data_block_maybe_compressed(a, compressed), LAMBDA b : Ends(b, "end"))
          [] t = 2 -> read_exception(a)
          [] t = 3 -> Keep(a, read_progress_packet(a))
          [] t = 4 -> a
          [] t = 5 -> Fail(a)
          [] t = 6 -> Keep(a, read_profile_info_packet(a))
          [] t = 11 -> Keep(a, read_table_columns_packet(a, compressed))
          [] t = 10 -> Keep(a, read_data_block_maybe_compressed(a, FALSE))
          [] t = 14 -> Keep(a, read_data_block_maybe_compressed(a, compressed))
          [] t = 17 -> Keep(a, HeaderString(a, "id"))
          [] t = 12 -> Keep(a, read_part_uuids_packet(a))
          [] OTHER -> unsupported_server_packet(a, t)),
        LAMBDA r : read_table_structure(r, compressed))

\* Mutant: the packet's body is not read.
IgnoringUnread(a, r) == a

\* An error inside these packets is ignored, and the next byte is taken for a
\* packet type.
Ignoring(a, r) == IF r.st = "err" THEN [r EXCEPT !.st = "ok", !.val = a.val] ELSE Keep(a, r)

RECURSIVE drain_response(_, _)
drain_response(c, compressed) ==
    Then(Packet(c, LAMBDA a, t :
        CASE t = 5 -> Ends(a, "end")
          [] t = 2 -> read_exception(a)
          [] t \in {1, 14} -> Ignoring(a, read_data_block_maybe_compressed(a, compressed))
          [] t = 3 -> Ignoring(a, read_progress_packet(a))
          [] t = 4 -> a
          [] t = 6 -> Ignoring(a, read_profile_info_packet(a))
          [] t = 10 -> Ignoring(a, read_data_block_maybe_compressed(a, FALSE))
          [] t = 17 -> Ignoring(a, HeaderString(a, "id"))
          [] t = 12 -> Keep(a, read_part_uuids_packet(a))
          [] t = 11 -> Keep(a, read_table_columns_packet(a, compressed))
          [] OTHER -> unsupported_server_packet(a, t)),
        LAMBDA r : drain_response(r, compressed))

RECURSIVE cancel_and_drain_inner(_, _)
cancel_and_drain_inner(c, compressed) ==
    Then(Packet(c, LAMBDA a, t :
        CASE t = 5 -> Ends(a, "end")
          [] t = 2 -> read_exception(a)
          [] t \in {1, 14} -> Keep(a, read_data_block_maybe_compressed(a, compressed))
          [] t = 10 -> Keep(a, read_data_block_maybe_compressed(a, FALSE))
          [] t = 3 -> Keep(a, read_progress_packet(a))
          [] t = 6 -> Keep(a, read_profile_info_packet(a))
          [] t = 17 -> Keep(a, HeaderString(a, "id"))
          [] t = 12 -> Keep(a, read_part_uuids_packet(a))
          [] t = 4 -> a
          [] OTHER -> Fail(a)),
        LAMBDA r : cancel_and_drain_inner(r, compressed))
=============================================================================
