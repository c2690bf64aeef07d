---------------------------- MODULE BlockReader -----------------------------
(***************************************************************************)
(* src/connection/block_reader.rs: how the async client reads and discards *)
(* the columns of a block.  Below the top level a type is displayed and    *)
(* parsed again.  Column data goes to the cursor's out.                    *)
(***************************************************************************)
EXTENDS RawBlockReader

stream_read_exact(c, n, kind) == Take(c, n, kind)

\* The strings of a column; each length is encoded again.
read_string_column_with_prefixes(c, rows) ==
    ForEach(c, rows, LAMBDA r, i :
        Then(checked_string_len(Varint(r, "len")), LAMBDA l :
            Then(stream_read_exact(l, l.val, "fill"), LAMBDA s :
                [s EXCEPT !.out = s.out \o <<l.val>> \o s.val])))

read_offsets_column(c, rows) ==
    Then(Record(c, 8 * rows, "off"), LAMBDA r : CheckOffsets(r, r.val))

\* The indexes of rows of width w.
read_lc_idx(data, w) == Numbers(data, w)

\* val is the dictionary's entries, one for each row.  The types without a
\* branch of their own keep a LowCardinality layout whose key count is the
\* dictionary's length in bytes.
materialize_lc_inner(c, dict, inner, indexes, w) ==
    LET le8(n) == <<n % 256, n \div 256, 0, 0, 0, 0, 0, 0>>
        shift == CHOOSE n \in 0..3 : 2 ^ n = w
        rows == Len(indexes) \div w
    IN  CASE inner.k \in {"String", "Other"} ->
                Pick(c, StringEntries(dict), read_lc_idx(indexes, w))
          [] inner.k \in {"Time", "Time64", "Decimal", "Nullable", "JSON", "Nothing", "Point"}
             \/ (fixed_width(inner) < 0) ->
                [c EXCEPT !.val = le8(1) \o le8(shift) \o le8(Len(dict)) \o dict
                                  \o le8(rows) \o indexes]
          [] OTHER ->
                IF fixed_width(inner) = 0 THEN [c EXCEPT !.val = <<>>]
                ELSE Pick(c, FixedEntries(dict, fixed_width(inner)), read_lc_idx(indexes, w))

RECURSIVE read_column_async(_, _, _), read_lc_async(_, _, _)

\* ct is the type the name stands for, BadName when it does not parse.
read_column_async(c, ct, rows) ==
    IF rows = 0 \/ c.st # "ok" THEN c ELSE
    CASE ct.k \in {"bad", "String", "Other"} -> read_string_column_with_prefixes(c, rows)
      [] ct.k = "Nothing" -> Record(c, rows, "fill")
      [] ct.k = "Nullable" ->
            read_column_async(Record(c, rows, "fill"), reparse(ct.in[1]), rows)
      [] ct.k \in {"Array", "Map"} ->
            Then(read_offsets_column(c, rows), LAMBDA r :
                ForEach(r, Len(ct.in), LAMBDA a, i :
                    read_column_async(a, reparse(ct.in[i]), r.val)))
      [] ct.k = "Tuple" ->
            ForEach(c, Len(ct.in), LAMBDA a, i : read_column_async(a, reparse(ct.in[i]), rows))
      [] ct.k = "LowCardinality" -> read_lc_async(c, ct.in[1], rows)
      [] ct.k = "Point" ->
            ForEach(c, 2, LAMBDA a, i : read_column_async(a, Plain("Float64"), rows))
      [] ct.k \in {"Ring", "Polygon", "MultiPolygon"} ->
            read_column_async(c, GeoElement(ct), rows)
      [] ct.k = "JSON" ->
            Then(U64(c, "ver"), LAMBDA v :
                read_string_column_with_prefixes(Require(v, v.val \in {1, 4}), rows))
      [] ct.k = "Dynamic" -> read_column_raw_recorded(c, ct, rows)
      [] ct.k = "Variant" ->
            Then(read_column_state_prefix_recorded(c, ct), LAMBDA r :
                read_variant_body_raw_recorded(r, ct.in, r.val.in, rows))
      [] OTHER ->
            IF fixed_width(ct) >= 0 THEN Record(c, rows * fixed_width(ct), "fill") ELSE Fail(c)

\* A dictionary without keys gives an empty column.
read_lc_async(c, inner, rows) ==
    Then(stream_read_exact(c, 24, "lc"), LAMBDA h :
        LET keys == Number(SubSeq(h.val, 17, 24))
            width == lc_idx_width(Number(SubSeq(h.val, 1, 8)), Number(SubSeq(h.val, 9, 16)))
            dict == read_column_async([h EXCEPT !.out = <<>>], reparse(inner), keys)
        IN  IF keys > MaxDynamicItems \/ width = 0 THEN Fail(h) ELSE
            Then(U64(dict, "num"), LAMBDA n :
                IF n.val # rows THEN Fail(n) ELSE
                Then(stream_read_exact(n, rows * width, "idx"), LAMBDA x :
                    IF keys = 0 THEN [x EXCEPT !.out = c.out] ELSE
                    Then(materialize_lc_inner(x, dict.out, inner, x.val, width), LAMBDA m :
                        [m EXCEPT !.out = c.out \o m.val]))))

discard_exact_async(c, n) == Take(c, n, "fill")

DiscardStringsAsync(c, rows) ==
    ForEach(c, rows, LAMBDA r, i :
        Then(checked_string_len(Varint(r, "len")), LAMBDA l : discard_exact_async(l, l.val)))

\* Mutant: the first offset for the last.
DiscardFirstOffset(c, rows) ==
    Then(Take(c, 8 * rows, "off"), LAMBDA r : CheckOffsets(r, SubSeq(r.val, 1, 8)))

discard_offsets_async(c, rows) ==
    Then(Take(c, 8 * rows, "off"), LAMBDA r : CheckOffsets(r, r.val))

RECURSIVE discard_column_async(_, _, _), discard_lc_async(_, _, _)

discard_column_async(c, ct, rows) ==
    IF rows = 0 \/ c.st # "ok" THEN c ELSE
    CASE ct.k \in {"bad", "String"} -> DiscardStringsAsync(c, rows)
      [] ct.k = "JSON" ->
            Then(U64(c, "ver"), LAMBDA v : DiscardStringsAsync(Require(v, v.val \in {1, 4}), rows))
      [] ct.k = "Nullable" ->
            discard_column_async(discard_exact_async(c, rows), reparse(ct.in[1]), rows)
      [] ct.k \in {"Array", "Map"} ->
            Then(discard_offsets_async(c, rows), LAMBDA r :
                ForEach(r, Len(ct.in), LAMBDA a, i :
                    discard_column_async(a, reparse(ct.in[i]), r.val)))
      [] ct.k = "Tuple" ->
            ForEach(c, Len(ct.in), LAMBDA a, i :
                discard_column_async(a, reparse(ct.in[i]), rows))
      [] ct.k = "LowCardinality" -> discard_lc_async(c, ct.in[1], rows)
      [] ct.k = "Point" ->
            ForEach(c, 2, LAMBDA a, i : discard_column_async(a, Plain("Float64"), rows))
      [] ct.k \in {"Ring", "Polygon", "MultiPolygon"} ->
            discard_column_async(c, GeoElement(ct), rows)
      [] ct.k \in {"Dynamic", "Variant", "Other"} -> read_column_async(c, ct, rows)
      [] ct.k = "Nothing" -> discard_exact_async(c, rows)
      [] OTHER ->
            IF fixed_width(ct) >= 0 THEN discard_exact_async(c, rows * fixed_width(ct))
                                    ELSE Fail(c)

discard_lc_async(c, inner, rows) ==
    Then(Take(c, 24, "lc"), LAMBDA h :
        LET width == lc_idx_width(Number(SubSeq(h.val, 1, 8)), Number(SubSeq(h.val, 9, 16)))
            keys == Number(SubSeq(h.val, 17, 24))
        IN  IF width = 0 \/ keys > MaxDynamicItems THEN Fail(h) ELSE
            Then(U64(discard_column_async(h, reparse(inner), keys), "num"), LAMBDA n :
                IF n.val # rows THEN Fail(n) ELSE discard_exact_async(n, rows * width)))
=============================================================================
