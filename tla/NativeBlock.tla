---------------------------- MODULE NativeBlock -----------------------------
(***************************************************************************)
(* The ten readers of a block.  A reader's val is the sequence of its      *)
(* columns.                                                                *)
(***************************************************************************)
EXTENDS BlockHeader, BlockReader, SyncResponse

(***************************************************************************)
(* The async client.                                                       *)
(***************************************************************************)
read_block_header(c) == Dimensions(InfoFields(HeaderString(c, "id"), FALSE))

read_data_block(c) ==
    Columns(read_block_header(c), LAMBDA a, ct, custom, rows :
        Append1(a, ct, LAMBDA r : read_column_async(r, ct, rows)))

read_data_block_body(c) ==
    Columns(Dimensions(InfoFields(c, FALSE)), LAMBDA a, ct, custom, rows :
        Append1(a, ct, LAMBDA r : read_column_async(r, ct, rows)))

discard_data_block(c) ==
    Columns(read_block_header(c), LAMBDA a, ct, custom, rows :
        Then(discard_column_async(Require(a, custom = 0), ct, rows), LAMBDA r :
            [r EXCEPT !.val = a.val]))

discard_data_block_body(c) ==
    Columns(Dimensions(InfoFields(c, FALSE)), LAMBDA a, ct, custom, rows :
        Then(discard_column_async(Require(a, custom = 0), ct, rows), LAMBDA r :
            [r EXCEPT !.val = a.val]))

\* The raw reader refuses unknown fields; it reads no state prefix when the
\* block has no rows.
read_raw_data_block(c) ==
    Columns(Dimensions(InfoFields(HeaderString(c, "id"), TRUE)), LAMBDA a, ct, custom, rows :
        IF rows = 0 THEN a
        ELSE Then(read_column_raw_recorded(a, ct, rows), LAMBDA r : [r EXCEPT !.val = a.val]))

(***************************************************************************)
(* The sync client.                                                        *)
(***************************************************************************)
skip_block_info_from_reader(c) == InfoFields(c, FALSE)

\* Mutant: the fields go on behind an unknown one.
RECURSIVE BlockInfoSkipsUnknown(_)
BlockInfoSkipsUnknown(c) ==
    Then(InfoFields(c, FALSE), LAMBDA r : IF r.val > 3 THEN BlockInfoSkipsUnknown(r) ELSE r)

skip_block_info(c) == InfoFields(c, FALSE)

parse_column_type(c, ct) == Require(c, ct # BadName)

read_block_body(c) ==
    Columns(Dimensions(skip_block_info_from_reader(c)), LAMBDA a, ct, custom, rows :
        Append1(parse_column_type(Require(a, custom = 0), ct), ct, LAMBDA r :
            read_column_data_into(r, ct, rows)))

read_block_body_view(c) ==
    Columns(Dimensions(skip_block_info_from_reader(c)), LAMBDA a, ct, custom, rows :
        Append1(parse_column_type(Require(a, custom = 0), ct), ct, LAMBDA r :
            read_column_data_into(r, ct, rows)))

discard_block_body(c) ==
    Columns(Dimensions(skip_block_info_from_reader(c)), LAMBDA a, ct, custom, rows :
        Then(discard_column_data(parse_column_type(Require(a, custom = 0), ct), ct, rows),
             LAMBDA r : [r EXCEPT !.val = a.val]))

\* Mutant: the version of a JSON column stays in its data.
JsonVersionKept(c, start, ct, rows) ==
    IF rows > 0 /\ contains_nested_json(ct) THEN Fail(c) ELSE [c EXCEPT !.val = start]

\* Where the data of a column starts: behind the version of a JSON column.
materialized_column_data_start(c, start, ct, rows) ==
    IF rows > 0 /\ contains_nested_json(ct) THEN Fail(c)
    ELSE [c EXCEPT !.val = IF rows > 0 /\ ct.k = "JSON" THEN start + 8 ELSE start]

\* A LowCardinality column in a buffer: out is the materialized column.
read_low_cardinality_from_buffer(c, inner, rows) ==
    IF rows = 0 \/ c.st # "ok" THEN c ELSE
    Then(Take(c, 24, "lc"), LAMBDA h :
        LET width == lc_idx_width(Number(SubSeq(h.val, 1, 8)), Number(SubSeq(h.val, 9, 16)))
            keys == Number(SubSeq(h.val, 17, 24))
            dict == skip_column_data(h, inner, keys)
        IN  IF width = 0 \/ keys > MaxDynamicItems THEN Fail(h) ELSE
            Then(U64(dict, "num"), LAMBDA n :
                IF n.val # rows THEN Fail(n) ELSE
                Then(Take(n, rows * width, "idx"), LAMBDA x :
                    Then(materialize_low_cardinality_inner(
                             x, SubSeq(x.buf, h.pos + 1, dict.pos), inner,
                             read_lc_index(x.val, width)),
                         LAMBDA m : [m EXCEPT !.out = m.val]))))

\* A column of a buffered block: a slice of the buffer, except LowCardinality.
BufferedColumn(c, ct, rows) ==
    IF ct.k = "LowCardinality"
    THEN read_low_cardinality_from_buffer(c, ct.in[1], rows)
    ELSE Then(skip_column_data(c, ct, rows), LAMBDA r :
             Then(materialized_column_data_start(r, c.pos, ct, rows), LAMBDA s :
                 [s EXCEPT !.out = SubSeq(s.buf, s.val + 1, s.pos)]))

parse_block_body(c) ==
    Columns(Dimensions(skip_block_info(c)), LAMBDA a, ct, custom, rows :
        Append1(parse_column_type(a, ct), ct, LAMBDA r : BufferedColumn(r, ct, rows)))

parse_block_body_shared(c) ==
    Columns(Dimensions(skip_block_info(c)), LAMBDA a, ct, custom, rows :
        Append1(parse_column_type(a, ct), ct, LAMBDA r : BufferedColumn(r, ct, rows)))
=============================================================================
