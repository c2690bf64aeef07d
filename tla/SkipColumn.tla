----------------------------- MODULE SkipColumn -----------------------------
(***************************************************************************)
(* shared/skip_column.rs: how a reader of a buffered block finds the end   *)
(* of a column.  Each operator takes a cursor to the position after what   *)
(* it skips, or fails.                                                     *)
(***************************************************************************)
EXTENDS NativeType

advance_pos(c, n) == Take(c, n, "fill")

SkipString(c) ==
    Then(checked_string_len(Varint(c, "len")), LAMBDA r : advance_pos(r, r.val))

skip_string_rows(c, rows) == ForEach(c, rows, LAMBDA r, i : SkipString(r))

\* Mutant: one element per row.
SkipOffsetsCountRows(c, rows) == Then(Take(c, 8 * rows, "off"), LAMBDA r : [r EXCEPT !.val = rows])

skip_offsets(c, rows) ==
    Then(Take(c, 8 * rows, "off"), LAMBDA r : CheckOffsets(r, r.val))

skip_materialized_json(c, rows) ==
    Then(U64(c, "ver"), LAMBDA r : skip_string_rows(Require(r, r.val \in {1, 4}), rows))

\* The names of the types of a Dynamic; val is the sequence of types.
read_type_names(c) ==
    Then(checked_count(Varint(c, "count")), LAMBDA r :
        ForEach([r EXCEPT !.val = <<>>], r.val, LAMBDA a, i :
            Then(checked_string_len(Varint(a, "len")), LAMBDA l :
                Then(Take(l, l.val, "name"), LAMBDA n :
                    [n EXCEPT !.val = Append(a.val, TypeNamed(n.val))]))))

dynamic_discriminator_width(n) == IF n < 256 THEN 1 ELSE IF n < 65536 THEN 2 ELSE 4

RECURSIVE skip_state_prefix(_, _), skip_state_prefixes(_, _, _), skip_dynamic_state(_),
          skip_json_state(_)

\* The states of several types, in order, appended to acc.
skip_state_prefixes(c, types, acc) ==
    IF types = <<>> THEN [c EXCEPT !.val = acc]
    ELSE Then(skip_state_prefix(c, Head(types)), LAMBDA r :
             skip_state_prefixes(r, Tail(types), Append(acc, r.val)))

skip_state_prefix(c, ct) ==
    CASE ct.k = "Dynamic" -> skip_dynamic_state(c)
      [] ct.k = "JSON" -> skip_json_state(c)
      [] ct.k \in {"Nullable", "Array", "Map", "Tuple", "LowCardinality", "Variant"} ->
            Then(skip_state_prefixes(c, ct.in, <<>>), LAMBDA r :
                [r EXCEPT !.val = State(ct.k, 0, <<>>, r.val)])
      [] OTHER -> [c EXCEPT !.val = NoState]

skip_dynamic_state(c) ==
    LET names(v) == CASE v.val = 0 -> [v EXCEPT !.val = <<>>]
                      [] v.val = 1 -> Then(read_type_names(Varint(v, "any")), LAMBDA r :
                                          Then(U64(r, "any"), LAMBDA u : [u EXCEPT !.val = r.val]))
                      [] v.val \in {2, 3} -> read_type_names(v)
                      [] OTHER -> Fail(v)
    IN  Then(U64(c, "ver"), LAMBDA v : Then(names(v), LAMBDA r :
            IF BadName \in ToSet(r.val)
            THEN Fail(r)
            ELSE Then(skip_state_prefixes(r, r.val, <<>>), LAMBDA s :
                     [s EXCEPT !.val = State("Dynamic", v.val, r.val, s.val)])))

skip_json_state(c) ==
    LET \* the names of the paths, then a Dynamic state for each of them
        paths(v) == Then(checked_count(Varint(v, "count")), LAMBDA r :
            Then(ForEach(r, r.val, LAMBDA a, i : SkipString(a)), LAMBDA s :
                skip_state_prefixes(s, [i \in 1..r.val |-> Plain("Dynamic")], <<>>)))
    IN  Then(U64(c, "ver"), LAMBDA v :
            Then(CASE v.val \in {1, 4} -> [v EXCEPT !.val = <<>>]
                   [] v.val = 3 -> paths(v)
                   [] v.val = 0 -> Then(Varint(v, "any"), LAMBDA m : paths(m))
                   [] OTHER -> Fail(v),
                 LAMBDA r : [r EXCEPT !.val = State("JSON", v.val, <<>>, r.val)]))

RECURSIVE skip_column_data(_, _, _), skip_body_raw(_, _, _, _), skip_dynamic_body(_, _, _),
          skip_counted_subcolumns(_, _, _, _), skip_variant_body(_, _, _, _),
          skip_json_body_raw(_, _, _), skip_lc_column(_, _, _, _)

skip_column_data(c, ct, rows) ==
    IF rows = 0 \/ c.st # "ok" THEN c ELSE
    CASE ct.k = "Nothing" -> advance_pos(c, rows)
      [] ct.k \in {"String", "Other"} -> skip_string_rows(c, rows)
      [] ct.k = "JSON" -> skip_materialized_json(c, rows)
      [] ct.k = "Nullable" -> skip_column_data(advance_pos(c, rows), ct.in[1], rows)
      [] ct.k \in {"Array", "Map"} ->
            Then(skip_offsets(c, rows), LAMBDA r :
                ForEach(r, Len(ct.in), LAMBDA a, i : skip_column_data(a, ct.in[i], r.val)))
      [] ct.k = "Tuple" ->
            ForEach(c, Len(ct.in), LAMBDA a, i : skip_column_data(a, ct.in[i], rows))
      [] ct.k = "Point" ->
            ForEach(c, 2, LAMBDA a, i : skip_column_data(a, Plain("Float64"), rows))
      [] ct.k \in {"Ring", "Polygon", "MultiPolygon"} ->
            skip_column_data(c, GeoElement(ct), rows)
      [] ct.k = "LowCardinality" -> skip_lc_column(c, ct.in[1], rows, NoState)
      [] ct.k = "Variant" ->
            Then(skip_state_prefixes(c, ct.in, <<>>), LAMBDA r :
                skip_variant_body(r, ct.in, r.val, rows))
      [] ct.k = "Dynamic" ->
            Then(skip_dynamic_state(c), LAMBDA r : skip_dynamic_body(r, r.val, rows))
      [] ct.k \notin {"Nothing", "Point"} /\ fixed_width(ct) >= 0 ->
            advance_pos(c, rows * fixed_width(ct))
      [] OTHER -> Fail(c)

\* The body of a column whose state prefix has been read.
skip_body_raw(c, ct, state, rows) ==
    IF rows = 0 \/ c.st # "ok" THEN c ELSE
    CASE ct.k = "Nullable" ->
            skip_body_raw(advance_pos(c, rows), ct.in[1], Child(state, ct, 1), rows)
      [] ct.k \in {"Array", "Map"} ->
            Then(skip_offsets(c, rows), LAMBDA r :
                ForEach(r, Len(ct.in), LAMBDA a, i :
                    skip_body_raw(a, ct.in[i], Child(state, ct, i), r.val)))
      [] ct.k = "Tuple" ->
            ForEach(c, Len(ct.in), LAMBDA a, i :
                skip_body_raw(a, ct.in[i], Child(state, ct, i), rows))
      [] ct.k = "LowCardinality" -> skip_lc_column(c, ct.in[1], rows, Child(state, ct, 1))
      [] ct.k = "JSON" ->
            IF state.k = "JSON" THEN skip_json_body_raw(c, state, rows) ELSE Fail(c)
      [] ct.k = "Dynamic" ->
            IF state.k = "Dynamic" THEN skip_dynamic_body(c, state, rows) ELSE Fail(c)
      [] ct.k = "Variant" -> skip_variant_body(c, ct.in, state.in, rows)
      [] ct.k = "Point" ->
            ForEach(c, 2, LAMBDA a, i : skip_body_raw(a, Plain("Float64"), NoState, rows))
      [] ct.k \in {"Ring", "Polygon", "MultiPolygon"} ->
            skip_body_raw(c, GeoElement(ct), NoState, rows)
      [] OTHER -> skip_column_data(c, ct, rows)

skip_json_body_raw(c, state, rows) ==
    LET dynamic == ForEach(c, Len(state.in), LAMBDA a, i :
                       skip_dynamic_body(a, state.in[i], rows))
    IN  CASE state.ver \in {1, 4} -> skip_string_rows(c, rows)
          [] state.ver = 3 -> dynamic
          [] state.ver = 0 -> advance_pos(dynamic, 8 * rows)

\* Version 1 marks NULL by 255, versions 2 and 3 by the number of types.
skip_dynamic_body(c, state, rows) ==
    LET n == Len(state.types)
        w == IF state.ver = 1 THEN 1 ELSE dynamic_discriminator_width(n)
        null == IF state.ver = 1 THEN 255 ELSE n
    IN  IF c.st # "ok" \/ rows = 0 \/ n = 0 THEN c ELSE
        Then(Take(c, rows * w, "disc"), LAMBDA r :
            LET ds == Numbers(r.val, w) IN
            IF \E i \in 1..rows : ds[i] >= n /\ ds[i] # null
            THEN Fail(r)
            ELSE skip_counted_subcolumns(r, state.types, state.in, Counts(ds, n)))

skip_counted_subcolumns(c, types, states, counts) ==
    ForEach(c, Len(types), LAMBDA a, i : skip_body_raw(a, types[i], states[i], counts[i]))

\* The mode is read before the number of rows is looked at.  Mode 0 has a
\* discriminator per row, mode 1 has one type for all of them.
skip_variant_body(c, types, states, rows) ==
    Then(U64(c, "num"), LAMBDA m :
        CASE rows = 0 \/ types = <<>> -> m
          [] m.val = 0 ->
                Then(Take(m, rows, "disc"), LAMBDA r :
                    skip_counted_subcolumns(r, types, states, Counts(r.val, Len(types))))
          [] m.val = 1 ->
                Then(U64(m, "num"), LAMBDA d : Then(U64(d, "num"), LAMBDA r :
                    IF r.val > rows THEN Fail(r)
                    ELSE IF d.val < Len(types)
                         THEN skip_body_raw(r, types[d.val + 1], states[d.val + 1], r.val)
                         ELSE r))
          [] OTHER -> Fail(m))

skip_lc_column(c, inner, rows, state) ==
    Then(Take(c, 24, "lc"), LAMBDA h :
        LET width == lc_idx_width(Number(SubSeq(h.val, 1, 8)), Number(SubSeq(h.val, 9, 16)))
            keys == Number(SubSeq(h.val, 17, 24))
        IN  IF width = 0 \/ keys > MaxDynamicItems THEN Fail(h) ELSE
            Then(U64(skip_body_raw(h, inner, state, keys), "num"), LAMBDA r :
                IF r.val # rows THEN Fail(r) ELSE advance_pos(r, rows * width)))
=============================================================================
