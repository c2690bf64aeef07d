---------------------------- MODULE SyncResponse ----------------------------
(***************************************************************************)
(* src/sync/protocol/response.rs: how the sync client reads a block from a *)
(* stream, discards it, and parses it in a buffer.                         *)
(***************************************************************************)
EXTENDS SkipColumn, SyncRawReader

read_lc_index(data, w) == Numbers(data, w)

materialize_lc_fixed(c, dict, width, indexes) ==
    IF width = 0 THEN [c EXCEPT !.val = <<>>]
    ELSE Pick(c, FixedEntries(dict, width), indexes)

materialize_lc_string(c, dict, indexes) == Pick(c, StringEntries(dict), indexes)

infer_lc_dictionary_rows(dict, inner) == Len(dict) \div (fixed_width(inner) + 1)

RECURSIVE materialize_low_cardinality_inner(_, _, _, _), materialize_lc_nullable(_, _, _, _)

materialize_low_cardinality_inner(c, dict, inner, indexes) ==
    CASE inner.k \in {"String", "JSON", "Other"} -> materialize_lc_string(c, dict, indexes)
      [] inner.k = "Nullable" -> materialize_lc_nullable(c, dict, inner.in[1], indexes)
      [] inner.k \in {"Decimal", "Nothing", "Point"} \/ fixed_width(inner) < 0 -> Fail(c)
      [] OTHER -> materialize_lc_fixed(c, dict, fixed_width(inner), indexes)

\* The dictionary is a null mask and the values; how many rows it has follows
\* from the width of a value.
materialize_lc_nullable(c, dict, inner, indexes) ==
    LET n == infer_lc_dictionary_rows(dict, inner)
        nulls == FixedEntries(SubSeq(dict, 1, n), 1)
    IN  IF fixed_width(inner) < 0 THEN Fail(c) ELSE
        Then(materialize_low_cardinality_inner(c, SubSeq(dict, n + 1, Len(dict)), inner, indexes),
             LAMBDA v : Then(Pick(v, nulls, indexes), LAMBDA m :
                            [m EXCEPT !.val = m.val \o v.val]))

(***************************************************************************)
(* The stream reader.                                                      *)
(***************************************************************************)
RECURSIVE read_column_data_into(_, _, _), read_low_cardinality_into(_, _, _)

read_offsets_into(c, rows) ==
    Then(read_exact_into(c, 8 * rows, "off"), LAMBDA r : CheckOffsets(r, r.val))

read_column_data_into(c, ct, rows) ==
    IF rows = 0 \/ c.st # "ok" THEN c ELSE
    CASE ct.k = "Nothing" -> read_exact_into(c, rows, "fill")
      [] ct.k = "String" -> StringRowsInto(c, rows)
      [] ct.k = "JSON" ->
            Then(U64(c, "ver"), LAMBDA v : StringRowsInto(Require(v, v.val \in {1, 4}), rows))
      [] ct.k = "Nullable" ->
            read_column_data_into(read_exact_into(c, rows, "fill"), ct.in[1], rows)
      [] ct.k \in {"Array", "Map"} ->
            Then(read_offsets_into(c, rows), LAMBDA r :
                ForEach(r, Len(ct.in), LAMBDA a, i : read_column_data_into(a, ct.in[i], r.val)))
      [] ct.k = "Tuple" ->
            ForEach(c, Len(ct.in), LAMBDA a, i : read_column_data_into(a, ct.in[i], rows))
      [] ct.k = "LowCardinality" -> read_low_cardinality_into(c, ct.in[1], rows)
      [] ct.k = "Point" ->
            ForEach(c, 2, LAMBDA a, i : read_column_data_into(a, Plain("Float64"), rows))
      [] ct.k \in {"Ring", "Polygon", "MultiPolygon"} ->
            read_column_data_into(c, GeoElement(ct), rows)
      [] ct.k = "Dynamic" ->
            Then(read_dynamic_state_prefix_into(c), LAMBDA r :
                read_dynamic_body_into(r, r.val, rows))
      [] ct.k = "Variant" ->
            Then(StatePrefixesInto(c, ct.in, <<>>), LAMBDA r :
                read_variant_body_into(r, ct.in, r.val, rows))
      [] ct.k \notin {"Nothing", "Point"} /\ fixed_width(ct) >= 0 ->
            read_exact_into(c, rows * fixed_width(ct), "fill")
      [] OTHER -> Fail(c)

\* The header, the dictionary and the indexes are not part of the data: the
\* column is materialized.
read_low_cardinality_into(c, inner, rows) ==
    Then(Take(c, 24, "lc"), LAMBDA h :
        LET width == lc_idx_width(Number(SubSeq(h.val, 1, 8)), Number(SubSeq(h.val, 9, 16)))
            keys == Number(SubSeq(h.val, 17, 24))
            dict == read_column_data_into([h EXCEPT !.out = <<>>], inner, keys)
        IN  IF width = 0 \/ keys > MaxDynamicItems THEN Fail(h) ELSE
            Then(U64(dict, "num"), LAMBDA n :
                IF n.val # rows THEN Fail(n) ELSE
                Then(Take(n, rows * width, "idx"), LAMBDA x :
                    Then(materialize_low_cardinality_inner(x, dict.out, inner,
                                                           read_lc_index(x.val, width)),
                         LAMBDA m : [m EXCEPT !.out = c.out \o m.val]))))

discard_exact(c, n) == Take(c, n, "fill")

DiscardStrings(c, rows) ==
    ForEach(c, rows, LAMBDA r, i :
        Then(checked_string_len(Varint(r, "len")), LAMBDA l : discard_exact(l, l.val)))

discard_offsets(c, rows) ==
    ForEach([c EXCEPT !.val = 0], rows, LAMBDA r, i :
        Then(U64(r, "num"), LAMBDA o : Require(o, checked_monotonic_offset(r.val, o.val))))

RECURSIVE discard_column_data(_, _, _), discard_low_cardinality(_, _, _)

\* Variant, Dynamic and Nothing cannot be discarded.
discard_column_data(c, ct, rows) ==
    IF rows = 0 \/ c.st # "ok" THEN c ELSE
    CASE ct.k = "String" -> DiscardStrings(c, rows)
      [] ct.k = "JSON" ->
            Then(U64(c, "ver"), LAMBDA v : DiscardStrings(Require(v, v.val \in {1, 4}), rows))
      [] ct.k = "Nullable" -> discard_column_data(discard_exact(c, rows), ct.in[1], rows)
      [] ct.k \in {"Array", "Map"} ->
            Then(discard_offsets(c, rows), LAMBDA r :
                ForEach(r, Len(ct.in), LAMBDA a, i : discard_column_data(a, ct.in[i], r.val)))
      [] ct.k = "Tuple" ->
            ForEach(c, Len(ct.in), LAMBDA a, i : discard_column_data(a, ct.in[i], rows))
      [] ct.k = "LowCardinality" -> discard_low_cardinality(c, ct.in[1], rows)
      [] ct.k = "Point" ->
            ForEach(c, 2, LAMBDA a, i : discard_column_data(a, Plain("Float64"), rows))
      [] ct.k \in {"Ring", "Polygon", "MultiPolygon"} ->
            discard_column_data(c, GeoElement(ct), rows)
      [] ct.k \notin {"Nothing", "Point"} /\ fixed_width(ct) >= 0 ->
            discard_exact(c, rows * fixed_width(ct))
      [] OTHER -> Fail(c)

discard_low_cardinality(c, inner, rows) ==
    Then(Take(c, 24, "lc"), LAMBDA h :
        LET width == lc_idx_width(Number(SubSeq(h.val, 1, 8)), Number(SubSeq(h.val, 9, 16)))
            keys == Number(SubSeq(h.val, 17, 24))
        IN  IF width = 0 \/ keys > MaxDynamicItems THEN Fail(h) ELSE
            Then(U64(discard_column_data(h, inner, keys), "num"), LAMBDA n :
                IF n.val # rows THEN Fail(n) ELSE discard_exact(n, rows * width)))
=============================================================================
