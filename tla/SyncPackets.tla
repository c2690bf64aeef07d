---------------------------- MODULE SyncPackets -----------------------------
(***************************************************************************)
(* The sync client's readers of a response on a blocking stream.           *)
(***************************************************************************)
EXTENDS PacketCursor

(***************************************************************************)
(* Packets                                                                 *)
(***************************************************************************)
skip_progress_packet(c, rev) ==
    Fields(c, Times(3, "varint")
              \o (IF rev >= WITH_CLIENT_WRITE_INFO THEN Times(2, "varint") ELSE <<>>)
              \o (IF rev >= WITH_SERVER_QUERY_TIME_IN_PROGRESS THEN Times(1, "varint") ELSE <<>>)
              \o (IF rev >= WITH_TOTAL_BYTES_IN_PROGRESS THEN Times(1, "varint") ELSE <<>>))

skip_profile_info_packet(c, rev) ==
    Fields(c, <<"varint", "varint", "varint", "u8", "varint", "u8">>
              \o (IF rev >= WITH_ROWS_BEFORE_AGGREGATION THEN <<"u8", "varint">> ELSE <<>>))

skip_part_uuids_packet(c) == Then(Varint(c, "count"), LAMBDA n : Take(n, 16 * n.val, "fill"))

skip_merge_tree_part_info(c) ==
    Fields(c, <<"u64", "string", "u64", "u64", "u64", "u64", "u8">>)

skip_mark_ranges(c) == Then(U64(c, "num"), LAMBDA n : Take(n, 16 * n.val, "fill"))

skip_ranges_in_data_parts_description(c) ==
    Counted(Varint(c, "count"), LAMBDA r :
        Fields(skip_mark_ranges(skip_merge_tree_part_info(r)), <<"varint", "string", "varint">>))

skip_parallel_read_announcement(c) ==
    Fields(skip_ranges_in_data_parts_description(Fields(c, <<"u64", "u8">>)),
           <<"u64", "u64", "varint", "varint", "string">>)

read_parallel_read_request_stream_id(c) ==
    Fields(skip_ranges_in_data_parts_description(Fields(c, <<"u64", "u8", "u64", "u64">>)),
           <<"string">>)

\* A chain of exceptions, each with a flag that says whether one follows.
RECURSIVE exception_entries(_)
exception_entries(c) ==
    Then(Fields(c, <<"i32", "string", "string", "string", "nested">>), LAMBDA r :
        IF r.val[1] = 0 THEN Ends(r, "exc") ELSE exception_entries(r))

read_exception_packet(c) == exception_entries(c)

\* Mutant: a request for read tasks is not answered.
coordinator_packet_unanswered(a, t) ==
    CASE t = 13 -> a
      [] t = 15 -> Keep(a, skip_parallel_read_announcement(a))
      [] t = 16 -> Keep(a, read_parallel_read_request_stream_id(a))
      [] OTHER -> Fail(a)

handle_coordinator_packet(a, t) ==
    CASE t = 13 -> Replied(a)
      [] t = 15 -> Keep(a, skip_parallel_read_announcement(a))
      [] t = 16 -> Replied(Keep(a, read_parallel_read_request_stream_id(a)))
      [] OTHER -> Fail(a)

(***************************************************************************)
(* Bodies, behind frames when the response is compressed.  Log blocks are  *)
(* never compressed, and the strings in front of a block are not.          *)
(***************************************************************************)
Body(c, compressed, reader) ==
    IF compressed THEN DecompressingReader(c, reader) ELSE ReadBody(c, reader)

read_block_from(c, compressed) == Body(HeaderString(c, "id"), compressed, "read_block_body")

discard_block_from(c, compressed) == Body(HeaderString(c, "id"), compressed, "discard_block_body")

read_tagged_block_body_from(c, compressed) ==
    Body(HeaderString(c, "id"), compressed, "read_block_body")

discard_tagged_block_body_from(c, compressed) ==
    Body(HeaderString(c, "id"), compressed, "discard_block_body")

read_table_columns_from(c, compressed) == Body(c, compressed, "two_strings")

(***************************************************************************)
(* The response loops                                                      *)
(***************************************************************************)
\* The packets that all loops treat alike.
other_packet(a, t, rev, compressed) ==
    CASE t = 2 -> read_exception_packet(a)
      [] t = 3 -> Keep(a, skip_progress_packet(a, rev))
      [] t = 4 -> a
      [] t = 6 -> Keep(a, skip_profile_info_packet(a, rev))
      [] t = 12 -> Keep(a, skip_part_uuids_packet(a))
      [] t = 11 -> Keep(a, read_table_columns_from(a, compressed))
      [] t = 17 -> Keep(a, HeaderString(a, "id"))
      [] OTHER -> handle_coordinator_packet(a, t)

RECURSIVE read_response_blocks(_, _, _)
read_response_blocks(c, rev, compressed) ==
    Then(Packet(c, LAMBDA a, t :
        CASE t = 1 -> Got(a, read_block_from(a, compressed))
          [] t = 5 -> Ends(a, "end")
          [] t \in {7, 8} -> Keep(a, read_block_from(a, compressed))
          [] t = 10 -> Keep(a, read_tagged_block_body_from(a, FALSE))
          [] t = 14 -> Keep(a, read_tagged_block_body_from(a, compressed))
          [] OTHER -> other_packet(a, t, rev, compressed)),
        LAMBDA r : read_response_blocks(r, rev, compressed))

\* The blocks are shown to a visitor; val keeps what it saw.
RECURSIVE read_response_block_views(_, _, _)
read_response_block_views(c, rev, compressed) ==
    Then(Packet(c, LAMBDA a, t :
        CASE t = 1 ->
                Then(Body(HeaderString(a, "id"), compressed, "read_block_body_view"), LAMBDA b :
                    [b EXCEPT !.val = [a.val EXCEPT !.got = Append(@, b.val)]])
          [] t = 5 -> Ends(a, "end")
          [] t \in {7, 8} -> Keep(a, discard_block_from(a, compressed))
          [] t = 10 -> Keep(a, discard_tagged_block_body_from(a, FALSE))
          [] t = 14 -> Keep(a, discard_tagged_block_body_from(a, compressed))
          [] OTHER -> other_packet(a, t, rev, compressed)),
        LAMBDA r : read_response_block_views(r, rev, compressed))

\* val.got is the number of rows, 0 at first.
RECURSIVE read_response_row_count(_, _, _)
read_response_row_count(c, rev, compressed) ==
    Then(Packet(c, LAMBDA a, t :
        CASE t = 1 ->
                Then(discard_block_from(a, compressed), LAMBDA b :
                    [b EXCEPT !.val = [a.val EXCEPT !.got = @ + b.val.rows]])
          [] t = 5 -> Ends(a, "end")
          [] t \in {7, 8} -> Keep(a, discard_block_from(a, compressed))
          [] t = 10 -> Keep(a, discard_tagged_block_body_from(a, FALSE))
          [] t = 14 -> Keep(a, discard_tagged_block_body_from(a, compressed))
          [] OTHER -> other_packet(a, t, rev, compressed)),
        LAMBDA r : read_response_row_count(r, rev, compressed))

\* Mutant: the body of the block stays on the socket.
structure_header(a, compressed) == Ends(HeaderString(a, "id"), "end")

structure_block(a, compressed) ==
    Then(read_block_from(a, compressed), LAMBDA b : Ends(b, "end"))

\* Ends behind the first Data block.
RECURSIVE wait_for_insert_table_structure_from_reader(_, _, _)
wait_for_insert_table_structure_from_reader(c, rev, compressed) ==
    Then(Packet(c, LAMBDA a, t :
        CASE t = 1 -> structure_block(a, compressed)
          [] t = 5 -> Fail(a)
          [] t \in {7, 8} -> Keep(a, read_block_from(a, compressed))
          [] t = 10 -> Keep(a, read_tagged_block_body_from(a, FALSE))
          [] t = 14 -> Keep(a, read_tagged_block_body_from(a, compressed))
          [] OTHER -> other_packet(a, t, rev, compressed)),
        LAMBDA r : wait_for_insert_table_structure_from_reader(r, rev, compressed))
=============================================================================
