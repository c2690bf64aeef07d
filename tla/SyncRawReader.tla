--------------------------- MODULE SyncRawReader ----------------------------
(***************************************************************************)
(* src/sync/protocol/response.rs, the raw bodies: how the sync reader      *)
(* copies the columns below a Variant or a Dynamic.  It is a second        *)
(* implementation of what RawBlockReader does on the async side.  The byte *)
(* budgets are left out.                                                   *)
(***************************************************************************)
EXTENDS NativeType

read_exact_into(c, n, kind) == Record(c, n, kind)

read_varint_into(c, kind) ==
    Then(Varint(c, kind), LAMBDA r : [r EXCEPT !.out = r.out \o SubSeq(r.buf, c.pos + 1, r.pos)])

\* val is the string.
read_string_into(c, kind) ==
    Then(checked_string_len(read_varint_into(c, "len")), LAMBDA r :
        read_exact_into(r, r.val, kind))

read_u64_into(c, kind) == AsNumber(read_exact_into(c, 8, kind))

StringRowsInto(c, rows) == ForEach(c, rows, LAMBDA r, i : read_string_into(r, "fill"))

\* Mutant: the offsets are read and not recorded.
OffsetsNotRecorded(c, rows) ==
    ForEach([c EXCEPT !.val = 0], rows, LAMBDA r, i :
        Then(U64(r, "num"), LAMBDA o : Require(o, checked_monotonic_offset(r.val, o.val))))

\* The offsets of an array, read and checked one at a time.
OffsetsInto(c, rows) ==
    ForEach([c EXCEPT !.val = 0], rows, LAMBDA r, i :
        Then(read_u64_into(r, "num"), LAMBDA o :
            Require(o, checked_monotonic_offset(r.val, o.val))))

read_dynamic_type_names_into(c) ==
    Then(checked_count(read_varint_into(c, "count")), LAMBDA r :
        ForEach([r EXCEPT !.val = <<>>], r.val, LAMBDA a, i :
            Then(read_string_into(a, "name"), LAMBDA n :
                [n EXCEPT !.val = Append(a.val, TypeNamed(n.val))])))

width_of_discriminators(n) == IF n < 256 THEN 1 ELSE IF n < 65536 THEN 2 ELSE 4

RECURSIVE read_column_state_prefix_into(_, _), StatePrefixesInto(_, _, _),
          read_dynamic_state_prefix_into(_), read_json_state_prefix_into(_)

StatePrefixesInto(c, types, acc) ==
    IF types = <<>> THEN [c EXCEPT !.val = acc]
    ELSE Then(read_column_state_prefix_into(c, Head(types)), LAMBDA r :
             StatePrefixesInto(r, Tail(types), Append(acc, r.val)))

read_column_state_prefix_into(c, ct) ==
    CASE ct.k = "Dynamic" -> read_dynamic_state_prefix_into(c)
      [] ct.k = "JSON" -> read_json_state_prefix_into(c)
      [] ct.k \in {"Nullable", "Array", "Map", "Tuple", "LowCardinality", "Variant"} ->
            Then(StatePrefixesInto(c, ct.in, <<>>), LAMBDA r :
                [r EXCEPT !.val = State(ct.k, 0, <<>>, r.val)])
      [] OTHER -> [c EXCEPT !.val = NoState]

read_dynamic_state_prefix_into(c) ==
    LET deprecated(v) ==
            Then(read_dynamic_type_names_into(read_varint_into(v, "any")), LAMBDA r :
                Then(read_u64_into(r, "any"), LAMBDA u : [u EXCEPT !.val = r.val]))
        names(v) == CASE v.val = 0 -> [v EXCEPT !.val = <<>>]
                      [] v.val = 1 -> deprecated(v)
                      [] v.val \in {2, 3} -> read_dynamic_type_names_into(v)
                      [] OTHER -> Fail(v)
    IN  Then(read_u64_into(c, "ver"), LAMBDA v : Then(names(v), LAMBDA r :
            IF BadName \in ToSet(r.val)
            THEN Fail(r)
            ELSE Then(StatePrefixesInto(r, r.val, <<>>), LAMBDA s :
                     [s EXCEPT !.val = State("Dynamic", v.val, r.val, s.val)])))

read_json_state_prefix_into(c) ==
    LET paths(v) ==
            Then(checked_count(read_varint_into(v, "count")), LAMBDA r :
                Then(StringRowsInto(r, r.val), LAMBDA s :
                    StatePrefixesInto(s, [i \in 1..r.val |-> Plain("Dynamic")], <<>>)))
    IN  Then(read_u64_into(c, "ver"), LAMBDA v :
            Then(CASE v.val \in {1, 4} -> [v EXCEPT !.val = <<>>]
                   [] v.val = 3 -> paths(v)
                   [] v.val = 0 -> Then(read_varint_into(v, "any"), LAMBDA m : paths(m))
                   [] OTHER -> Fail(v),
                 LAMBDA r : [r EXCEPT !.val = State("JSON", v.val, <<>>, r.val)]))

RECURSIVE read_column_body_raw_into(_, _, _, _), read_json_body_into(_, _, _),
          read_dynamic_body_into(_, _, _), read_dynamic_subcolumns_into(_, _, _, _),
          read_deprecated_dynamic_values_into(_, _, _),
          read_flattened_dynamic_values_into(_, _, _),
          read_variant_body_into(_, _, _, _), read_lc_body_raw_into(_, _, _, _)

read_column_body_raw_into(c, ct, state, rows) ==
    IF rows = 0 \/ c.st # "ok" THEN c ELSE
    CASE ct.k = "Nullable" ->
            read_column_body_raw_into(read_exact_into(c, rows, "fill"), ct.in[1],
                                          Child(state, ct, 1), rows)
      [] ct.k \in {"Array", "Map"} ->
            Then(OffsetsInto(c, rows), LAMBDA r :
                ForEach(r, Len(ct.in), LAMBDA a, i :
                    read_column_body_raw_into(a, ct.in[i], Child(state, ct, i), r.val)))
      [] ct.k = "Tuple" ->
            ForEach(c, Len(ct.in), LAMBDA a, i :
                read_column_body_raw_into(a, ct.in[i], Child(state, ct, i), rows))
      [] ct.k = "LowCardinality" ->
            read_lc_body_raw_into(c, ct.in[1], Child(state, ct, 1), rows)
      [] ct.k = "JSON" ->
            IF state.k = "JSON" THEN read_json_body_into(c, state, rows) ELSE Fail(c)
      [] ct.k = "Dynamic" ->
            IF state.k = "Dynamic" THEN read_dynamic_body_into(c, state, rows)
                                   ELSE Fail(c)
      [] ct.k = "Variant" -> read_variant_body_into(c, ct.in, state.in, rows)
      [] ct.k = "Point" ->
            ForEach(c, 2, LAMBDA a, i :
                read_column_body_raw_into(a, Plain("Float64"), NoState, rows))
      [] ct.k \in {"Ring", "Polygon", "MultiPolygon"} ->
            read_column_body_raw_into(c, GeoElement(ct), NoState, rows)
      [] ct.k \in {"String", "Other"} -> StringRowsInto(c, rows)
      [] OTHER ->
            IF fixed_width(ct) >= 0
            THEN read_exact_into(c, rows * fixed_width(ct), "fill")
            ELSE Fail(c)

read_json_body_into(c, state, rows) ==
    LET dynamic == ForEach(c, Len(state.in), LAMBDA a, i :
                       read_dynamic_body_into(a, state.in[i], rows))
    IN  CASE state.ver \in {1, 4} -> StringRowsInto(c, rows)
          [] state.ver = 3 -> dynamic
          [] state.ver = 0 -> read_exact_into(dynamic, 8 * rows, "fill")

read_dynamic_body_into(c, state, rows) ==
    CASE state.ver = 0 -> c
      [] state.ver = 1 -> read_deprecated_dynamic_values_into(c, state, rows)
      [] state.ver \in {2, 3} -> read_flattened_dynamic_values_into(c, state, rows)

\* The values of each type in order, as many as there are discriminators.
read_dynamic_subcolumns_into(c, types, states, counts) ==
    ForEach(c, Len(types), LAMBDA a, i :
        read_column_body_raw_into(a, types[i], states[i], counts[i]))

read_deprecated_dynamic_values_into(c, state, rows) ==
    LET n == Len(state.types) IN
    IF rows = 0 \/ n = 0 THEN c ELSE
    Then(read_exact_into(c, rows, "disc"), LAMBDA r :
        IF \E i \in 1..rows : r.val[i] >= n /\ r.val[i] # 255
        THEN Fail(r)
        ELSE read_dynamic_subcolumns_into(r, state.types, state.in, Counts(r.val, n)))

read_flattened_dynamic_values_into(c, state, rows) ==
    LET n == Len(state.types)
        w == width_of_discriminators(n)
    IN  IF rows = 0 \/ n = 0 THEN c ELSE
        Then(read_exact_into(c, w * rows, "disc"), LAMBDA r :
            LET ds == Numbers(r.val, w) IN
            IF \E i \in 1..rows : ds[i] > n
            THEN Fail(r)
            ELSE read_dynamic_subcolumns_into(r, state.types, state.in, Counts(ds, n)))

\* The types are displayed and parsed again on the way to the bodies.
read_variant_body_into(c, displayed, states, rows) ==
    LET types == [i \in DOMAIN displayed |-> reparse(displayed[i])] IN
    Then(read_u64_into(c, "num"), LAMBDA m :
        CASE rows = 0 \/ types = <<>> -> m
          [] m.val = 0 ->
                Then(read_exact_into(m, rows, "disc"), LAMBDA r :
                    read_dynamic_subcolumns_into(r, types, states, Counts(r.val, Len(types))))
          [] m.val = 1 ->
                Then(read_u64_into(m, "num"), LAMBDA d : Then(read_u64_into(d, "num"), LAMBDA r :
                    IF r.val > rows THEN Fail(r)
                    ELSE IF d.val < Len(types)
                         THEN read_column_body_raw_into(r, types[d.val + 1],
                                                            states[d.val + 1], r.val)
                         ELSE r))
          [] OTHER -> Fail(m))

\* Of the header only the version and the number of keys are checked.
read_lc_body_raw_into(c, inner, state, rows) ==
    Then(read_exact_into(c, 24, "lc"), LAMBDA h :
        LET keys == Number(SubSeq(h.val, 17, 24))
            width == 2 ^ (Number(SubSeq(h.val, 9, 16)) % 4)
        IN  IF Number(SubSeq(h.val, 1, 8)) # 1 \/ keys > MaxDynamicItems THEN Fail(h) ELSE
            Then(read_u64_into(read_column_body_raw_into(h, inner, state, keys), "num"), LAMBDA r :
                IF r.val # rows THEN Fail(r)
                ELSE read_exact_into(r, rows * width, "fill")))
=============================================================================
