-------------------------- MODULE BufferedPackets ---------------------------
(***************************************************************************)
(* The parser of a response that is in memory as a whole.                  *)
(***************************************************************************)
EXTENDS PacketCursor

skip_progress(c, rev) ==
    Fields(c, Times(3 + (IF rev >= WITH_CLIENT_WRITE_INFO THEN 2 ELSE 0)
                      + (IF rev >= WITH_SERVER_QUERY_TIME_IN_PROGRESS THEN 1 ELSE 0)
                      + (IF rev >= WITH_TOTAL_BYTES_IN_PROGRESS THEN 1 ELSE 0), "varint"))

\* Mutant: the revision is not looked at.
profile_info_without_aggregation(c, rev) ==
    Fields(c, <<"varint", "varint", "varint", "u8", "varint", "u8">>)

skip_profile_info(c, rev) ==
    Fields(c, <<"varint", "varint", "varint", "u8", "varint", "u8">>
              \o (IF rev >= WITH_ROWS_BEFORE_AGGREGATION THEN <<"u8", "varint">> ELSE <<>>))

skip_part_uuids(c) ==
    Then(Varint(c, "count"), LAMBDA n : Take(Require(n, n.val <= MaxPartUuids), 16 * n.val, "fill"))

skip_merge_tree_part_info(c) ==
    Fields(c, <<"u64", "string", "u64", "u64", "u64", "u64", "u8">>)

skip_mark_ranges(c) == Then(U64(c, "num"), LAMBDA n : Take(n, 16 * n.val, "fill"))

skip_ranges_in_data_parts_description(c) ==
    Counted(Varint(c, "count"), LAMBDA r :
        Fields(skip_mark_ranges(skip_merge_tree_part_info(r)), <<"varint", "string", "varint">>))

skip_parallel_read_announcement(c) ==
    Fields(skip_ranges_in_data_parts_description(Fields(c, <<"u64", "u8">>)),
           <<"u64", "u64", "varint", "varint", "string">>)

\* A chain of exceptions of at most MaxChainDepth.
RECURSIVE chain_from(_, _)
chain_from(c, depth) ==
    IF depth >= MaxChainDepth THEN Fail(c)
    ELSE Then(Fields(c, <<"i32", "string", "string", "string", "nested">>), LAMBDA r :
             IF r.val[1] = 0 THEN Ends(r, "exc") ELSE chain_from(r, depth + 1))

parse_exception_chain(c) == chain_from(c, 0)

parse_block(c) == Block(HeaderString(c, "id"), "parse_block_body")

parse_block_shared(c) == Block(HeaderString(c, "id"), "parse_block_body")

RECURSIVE response_packets(_, _)
response_packets(c, rev) ==
    Then(Packet(c, LAMBDA a, t :
        CASE t = 1 -> Then(parse_block_shared(a), LAMBDA b :
                          [b EXCEPT !.val = [a.val EXCEPT !.got = Append(@, b.val)]])
          [] t = 2 -> parse_exception_chain(a)
          [] t = 3 -> Keep(a, skip_progress(a, rev))
          [] t = 4 -> a
          [] t = 5 -> Ends(a, "end")
          [] t = 6 -> Keep(a, skip_profile_info(a, rev))
          [] t \in {7, 8, 10, 14} -> Keep(a, parse_block_shared(a))
          [] t = 11 -> Keep(a, Fields(a, <<"string", "string">>))
          [] t = 12 -> Keep(a, skip_part_uuids(a))
          [] t = 17 -> Keep(a, HeaderString(a, "id"))
          [] t = 15 -> Keep(a, skip_parallel_read_announcement(a))
          [] OTHER -> Fail(a)),
        LAMBDA r : response_packets(r, rev))

\* The end of the buffer ends a response, with or without EndOfStream.
parse_response_with_revision(c, rev) ==
    LET r == response_packets(c, rev) IN
    IF r.st = "more" /\ r.want.k = "packet" THEN Ends(r, "end") ELSE r
=============================================================================
