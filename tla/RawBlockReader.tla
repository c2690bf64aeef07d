--------------------------- MODULE RawBlockReader ---------------------------
(***************************************************************************)
(* src/connection/raw_block_reader.rs: reads a block from a stream and     *)
(* records its bytes.  The byte budgets are left out: no block of the      *)
(* checked instances comes near them.                                      *)
(***************************************************************************)
EXTENDS NativeType

read_exact_recorded(c, n, kind) == Record(c, n, kind)

read_varint_recorded(c, kind) ==
    Then(Varint(c, kind), LAMBDA r : [r EXCEPT !.out = r.out \o SubSeq(r.buf, c.pos + 1, r.pos)])

\* val is the string.
read_string_recorded(c, kind) ==
    Then(checked_string_len(read_varint_recorded(c, "len")), LAMBDA r :
        read_exact_recorded(r, r.val, kind))

read_u64_recorded(c, kind) == AsNumber(read_exact_recorded(c, 8, kind))

RawStringRows(c, rows) == ForEach(c, rows, LAMBDA r, i : read_string_recorded(r, "fill"))

RawOffsets(c, rows) ==
    Then(read_exact_recorded(c, 8 * rows, "off"), LAMBDA r : CheckOffsets(r, r.val))

read_dynamic_type_names_recorded(c) ==
    Then(checked_count(read_varint_recorded(c, "count")), LAMBDA r :
        ForEach([r EXCEPT !.val = <<>>], r.val, LAMBDA a, i :
            Then(read_string_recorded(a, "name"), LAMBDA n :
                [n EXCEPT !.val = Append(a.val, TypeNamed(n.val))])))

discriminator_width(n) == IF n < 256 THEN 1 ELSE IF n < 65536 THEN 2 ELSE 4

RECURSIVE read_column_state_prefix_recorded(_, _), RawStatePrefixes(_, _, _),
          read_dynamic_state_prefix_recorded(_), read_json_state_prefix_recorded(_)

RawStatePrefixes(c, types, acc) ==
    IF types = <<>> THEN [c EXCEPT !.val = acc]
    ELSE Then(read_column_state_prefix_recorded(c, Head(types)), LAMBDA r :
             RawStatePrefixes(r, Tail(types), Append(acc, r.val)))

read_column_state_prefix_recorded(c, ct) ==
    CASE ct.k = "Dynamic" -> read_dynamic_state_prefix_recorded(c)
      [] ct.k = "JSON" -> read_json_state_prefix_recorded(c)
      [] ct.k \in {"Nullable", "Array", "Map", "Tuple", "LowCardinality", "Variant"} ->
            Then(RawStatePrefixes(c, ct.in, <<>>), LAMBDA r :
                [r EXCEPT !.val = State(ct.k, 0, <<>>, r.val)])
      [] OTHER -> [c EXCEPT !.val = NoState]

read_dynamic_state_prefix_recorded(c) ==
    LET deprecated(v) ==
            Then(read_dynamic_type_names_recorded(read_varint_recorded(v, "any")), LAMBDA r :
                Then(read_u64_recorded(r, "any"), LAMBDA u : [u EXCEPT !.val = r.val]))
        names(v) == CASE v.val = 0 -> [v EXCEPT !.val = <<>>]
                      [] v.val = 1 -> deprecated(v)
                      [] v.val \in {2, 3} -> read_dynamic_type_names_recorded(v)
                      [] OTHER -> Fail(v)
    IN  Then(read_u64_recorded(c, "ver"), LAMBDA v : Then(names(v), LAMBDA r :
            IF BadName \in ToSet(r.val)
            THEN Fail(r)
            ELSE Then(RawStatePrefixes(r, r.val, <<>>), LAMBDA s :
                     [s EXCEPT !.val = State("Dynamic", v.val, r.val, s.val)])))

read_json_state_prefix_recorded(c) ==
    LET paths(v) ==
            Then(checked_count(read_varint_recorded(v, "count")), LAMBDA r :
                Then(RawStringRows(r, r.val), LAMBDA s :
                    RawStatePrefixes(s, [i \in 1..r.val |-> Plain("Dynamic")], <<>>)))
    IN  Then(read_u64_recorded(c, "ver"), LAMBDA v :
            Then(CASE v.val \in {1, 4} -> [v EXCEPT !.val = <<>>]
                   [] v.val = 3 -> paths(v)
                   [] v.val = 0 -> Then(read_varint_recorded(v, "any"), LAMBDA m : paths(m))
                   [] OTHER -> Fail(v),
                 LAMBDA r : [r EXCEPT !.val = State("JSON", v.val, <<>>, r.val)]))

RECURSIVE read_column_body_raw_recorded(_, _, _, _), read_json_body_raw_recorded(_, _, _),
          read_dynamic_body_raw_recorded(_, _, _), RawCounted(_, _, _, _),
          read_deprecated_dynamic_values_recorded(_, _, _),
          read_flattened_dynamic_values_recorded(_, _, _),
          read_variant_body_raw_recorded(_, _, _, _), read_lc_body_raw_recorded(_, _, _, _)

read_column_body_raw_recorded(c, ct, state, rows) ==
    IF rows = 0 \/ c.st # "ok" THEN c ELSE
    CASE ct.k = "Nullable" ->
            read_column_body_raw_recorded(read_exact_recorded(c, rows, "fill"), ct.in[1],
                                          Child(state, ct, 1), rows)
      [] ct.k \in {"Array", "Map"} ->
            Then(RawOffsets(c, rows), LAMBDA r :
                ForEach(r, Len(ct.in), LAMBDA a, i :
                    read_column_body_raw_recorded(a, ct.in[i], Child(state, ct, i), r.val)))
      [] ct.k = "Tuple" ->
            ForEach(c, Len(ct.in), LAMBDA a, i :
                read_column_body_raw_recorded(a, ct.in[i], Child(state, ct, i), rows))
      [] ct.k = "LowCardinality" ->
            read_lc_body_raw_recorded(c, ct.in[1], Child(state, ct, 1), rows)
      [] ct.k = "JSON" ->
            IF state.k = "JSON" THEN read_json_body_raw_recorded(c, state, rows) ELSE Fail(c)
      [] ct.k = "Dynamic" ->
            IF state.k = "Dynamic" THEN read_dynamic_body_raw_recorded(c, state, rows)
                                   ELSE Fail(c)
      [] ct.k = "Variant" -> read_variant_body_raw_recorded(c, ct.in, state.in, rows)
      [] ct.k = "Point" ->
            ForEach(c, 2, LAMBDA a, i :
                read_column_body_raw_recorded(a, Plain("Float64"), NoState, rows))
      [] ct.k \in {"Ring", "Polygon", "MultiPolygon"} ->
            read_column_body_raw_recorded(c, GeoElement(ct), NoState, rows)
      [] ct.k \in {"String", "Other"} -> RawStringRows(c, rows)
      [] OTHER ->
            IF fixed_width(ct) >= 0
            THEN read_exact_recorded(c, rows * fixed_width(ct), "fill")
            ELSE Fail(c)

read_json_body_raw_recorded(c, state, rows) ==
    LET dynamic == ForEach(c, Len(state.in), LAMBDA a, i :
                       read_dynamic_body_raw_recorded(a, state.in[i], rows))
    IN  CASE state.ver \in {1, 4} -> RawStringRows(c, rows)
          [] state.ver = 3 -> dynamic
          [] state.ver = 0 -> read_exact_recorded(dynamic, 8 * rows, "fill")

read_dynamic_body_raw_recorded(c, state, rows) ==
    CASE state.ver = 0 -> c
      [] state.ver = 1 -> read_deprecated_dynamic_values_recorded(c, state, rows)
      [] state.ver \in {2, 3} -> read_flattened_dynamic_values_recorded(c, state, rows)

\* The values of each type in order, as many as there are discriminators.
RawCounted(c, types, states, counts) ==
    ForEach(c, Len(types), LAMBDA a, i :
        read_column_body_raw_recorded(a, types[i], states[i], counts[i]))

read_deprecated_dynamic_values_recorded(c, state, rows) ==
    LET n == Len(state.types) IN
    IF rows = 0 \/ n = 0 THEN c ELSE
    Then(read_exact_recorded(c, rows, "disc"), LAMBDA r :
        IF \E i \in 1..rows : r.val[i] >= n /\ r.val[i] # 255
        THEN Fail(r)
        ELSE RawCounted(r, state.types, state.in, Counts(r.val, n)))

read_flattened_dynamic_values_recorded(c, state, rows) ==
    LET n == Len(state.types)
        w == discriminator_width(n)
    IN  IF rows = 0 \/ n = 0 THEN c ELSE
        Then(read_exact_recorded(c, w * rows, "disc"), LAMBDA r :
            LET ds == Numbers(r.val, w) IN
            IF \E i \in 1..rows : ds[i] > n
            THEN Fail(r)
            ELSE RawCounted(r, state.types, state.in, Counts(ds, n)))

\* The types are displayed and parsed again on the way to the bodies.
read_variant_body_raw_recorded(c, displayed, states, rows) ==
    LET types == [i \in DOMAIN displayed |-> reparse(displayed[i])] IN
    Then(read_u64_recorded(c, "num"), LAMBDA m :
        CASE rows = 0 \/ types = <<>> -> m
          [] m.val = 0 ->
                Then(read_exact_recorded(m, rows, "disc"), LAMBDA r :
                    RawCounted(r, types, states, Counts(r.val, Len(types))))
          [] m.val = 1 ->
                Then(read_u64_recorded(m, "num"), LAMBDA d : Then(read_u64_recorded(d, "num"), LAMBDA r :
                    IF r.val > rows THEN Fail(r)
                    ELSE IF d.val < Len(types)
                         THEN read_column_body_raw_recorded(r, types[d.val + 1],
                                                            states[d.val + 1], r.val)
                         ELSE r))
          [] OTHER -> Fail(m))

read_lc_body_raw_recorded(c, inner, state, rows) ==
    Then(read_exact_recorded(c, 24, "lc"), LAMBDA h :
        LET keys == Number(SubSeq(h.val, 17, 24))
            width == lc_idx_width(Number(SubSeq(h.val, 1, 8)), Number(SubSeq(h.val, 9, 16)))
        IN  IF keys > MaxDynamicItems \/ width = 0 THEN Fail(h) ELSE
            Then(read_u64_recorded(read_column_body_raw_recorded(h, inner, state, keys), "num"),
                 LAMBDA r : IF r.val # rows THEN Fail(r)
                            ELSE read_exact_recorded(r, rows * width, "fill")))

read_column_raw_recorded(c, ct, rows) ==
    IF ct = BadName THEN Fail(c)
    ELSE Then(read_column_state_prefix_recorded(c, ct), LAMBDA r :
             read_column_body_raw_recorded(r, ct, r.val, rows))
=============================================================================
