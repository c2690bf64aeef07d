--------------------------- MODULE DynamicVariant ---------------------------
(***************************************************************************)
(* shared/dynamic_variant.rs: the typed rows of a Variant or Dynamic       *)
(* column, decoded from the data the block readers kept.  A row is None,   *)
(* or the index of its type and its value.                                 *)
(***************************************************************************)
EXTENDS AnyColumn

None == <<>>

parse_exact(c, n) == EndIsError(Take(c, n, "fill"))

parse_u64_le(c) == EndIsError(U64(c, "fill"))

parse_varint_checked(c) == EndIsError(Varint(c, "fill"))

parse_string_checked(c) == Then(parse_varint_checked(c), LAMBDA r : parse_exact(r, r.val))

\* val is the sequence of the types; a name that does not parse is an error.
parse_dynamic_type_header(c) ==
    Then(parse_varint_checked(c), LAMBDA n :
        ForEach([n EXCEPT !.val = <<>>], n.val, LAMBDA r, i :
            Then(parse_string_checked(r), LAMBDA s :
                Require([s EXCEPT !.val = Append(r.val, TypeNamed(s.val))], TypeNamed(s.val) # BadName))))

RECURSIVE skip_state_prefix_for_type(_, _)

skip_state_prefixes_for_types(c, types) ==
    ForEach(c, Len(types), LAMBDA r, i : skip_state_prefix_for_type(r, types[i]))

SkipDynamicState(c) ==
    Then(parse_u64_le(c), LAMBDA v :
        CASE v.val = 0 -> v
          [] v.val = 1 -> Then(parse_dynamic_type_header(parse_varint_checked(v)), LAMBDA h :
                              skip_state_prefixes_for_types(parse_u64_le(h), h.val))
          [] v.val \in {2, 3} -> Then(parse_dynamic_type_header(v), LAMBDA h :
                                     skip_state_prefixes_for_types(h, h.val))
          [] OTHER -> Fail(v))

SkipJsonState(c) ==
    LET paths(r) == Then(parse_varint_checked(r), LAMBDA n :
                        ForEach(ForEach(n, n.val, LAMBDA s, i : parse_string_checked(s)),
                                n.val, LAMBDA s, i : SkipDynamicState(s)))
    IN  Then(parse_u64_le(c), LAMBDA v :
            CASE v.val \in {1, 4} -> v
              [] v.val = 0 -> paths(parse_varint_checked(v))
              [] v.val = 3 -> paths(v)
              [] OTHER -> Fail(v))

skip_state_prefix_for_type(c, ct) ==
    CASE ct.k \in {"Nullable", "Array", "LowCardinality", "Map", "Tuple", "Variant"} ->
            skip_state_prefixes_for_types(c, ct.in)
      [] ct.k = "Dynamic" -> SkipDynamicState(c)
      [] ct.k = "JSON" -> SkipJsonState(c)
      [] OTHER -> c

parse_offsets(c, rows) ==
    ForEach([c EXCEPT !.val = <<>>], rows, LAMBDA r, i :
        Then(parse_u64_le(r), LAMBDA o : [o EXCEPT !.val = Append(r.val, o.val)]))

(***************************************************************************)
(* The values of a column below a Variant.                                 *)
(***************************************************************************)
RECURSIVE decode_column_values(_, _, _), skip_typed_value_column(_, _, _), parse_variant_values(_, _, _)

decode_fixed(c, rows, w) ==
    Then(parse_exact(c, rows * w), LAMBDA r : [r EXCEPT !.val = FixedEntries(r.val, w)])

DecodedNumbers ==
    [UInt8 |-> 1, Int8 |-> 1, UInt16 |-> 2, Int16 |-> 2, UInt32 |-> 4, Int32 |-> 4, Float32 |-> 4,
     UInt64 |-> 8, Int64 |-> 8, Float64 |-> 8, UInt128 |-> 16, Int128 |-> 16, UInt256 |-> 32,
     Int256 |-> 32]

DecodedTimes == [Date |-> 2, Date32 |-> 4, DateTime |-> 4, DateTime64 |-> 8, Time |-> 4, Time64 |-> 8]

\* IPv6 is decoded least significant byte first.
DecodedOthers == [UUID |-> 16, IPv4 |-> 4, IPv6 |-> 16, Enum8 |-> 1, Enum16 |-> 2]

DecimalWidth(p) ==
    CASE p \in 1..9 -> 4 [] p \in 10..18 -> 8 [] p \in 19..38 -> 16 [] p \in 39..76 -> 32 [] OTHER -> 0

DecodedWidths == DecodedNumbers @@ DecodedTimes @@ DecodedOthers

DecodeStrings(c, rows) ==
    ForEach([c EXCEPT !.val = <<>>], rows, LAMBDA r, i :
        Then(parse_string_checked(r), LAMBDA s : [s EXCEPT !.val = Append(r.val, s.val)]))

\* Mutant: the null mask is inverted.
DecodeNullableInverted(c, ct, rows) ==
    Then(parse_exact(c, rows), LAMBDA m : Then(decode_column_values(m, ct.in[1], rows), LAMBDA v :
        [v EXCEPT !.val = [i \in 1..rows |-> IF m.val[i] = 0 THEN Null ELSE v.val[i]]]))

DecodeNullable(c, ct, rows) ==
    Then(parse_exact(c, rows), LAMBDA m : Then(decode_column_values(m, ct.in[1], rows), LAMBDA v :
        [v EXCEPT !.val = [i \in 1..rows |-> IF m.val[i] # 0 THEN Null ELSE v.val[i]]]))

\* The slices between the offsets, which are not checked: [prev..end] panics
\* when they go down.
DecodeArray(c, ct, rows) ==
    Then(parse_offsets(c, rows), LAMBDA o :
        Then(decode_column_values(o, ct.in[1], IF rows = 0 THEN 0 ELSE Last(o.val)), LAMBDA v :
            Slices(v, [i \in DOMAIN o.val |-> Min({o.val[i], Len(v.val)})], v.val)))

DecodeMap(c, ct, rows) ==
    Then(parse_offsets(c, rows), LAMBDA o :
        LET total == IF rows = 0 THEN 0 ELSE Last(o.val) IN
        Then(decode_column_values(o, ct.in[1], total), LAMBDA k :
            Then(decode_column_values(k, ct.in[2], total), LAMBDA v :
                Slices(v, [i \in DOMAIN o.val |-> Min({o.val[i], Len(k.val), Len(v.val)})],
                       [i \in DOMAIN v.val |-> <<k.val[i], v.val[i]>>]))))

DecodeTuple(c, ct, rows) ==
    Then(ForEach([c EXCEPT !.val = <<>>], Len(ct.in), LAMBDA r, i :
             Then(decode_column_values(r, ct.in[i], rows), LAMBDA v :
                 [v EXCEPT !.val = Append(r.val, v.val)])),
         LAMBDA r : [r EXCEPT !.val = [i \in 1..rows |-> [j \in DOMAIN ct.in |-> r.val[j][i]]]])

decode_column_values(c, ct, rows) ==
    CASE ct.k = "Bool" ->
            Then(decode_fixed(c, rows, 1), LAMBDA r :
                [r EXCEPT !.val = [i \in 1..rows |-> <<IF r.val[i][1] # 0 THEN 1 ELSE 0>>]])
      [] ct.k \in DOMAIN DecodedWidths -> decode_fixed(c, rows, DecodedWidths[ct.k])
      [] ct.k = "Decimal" /\ DecimalWidth(ct.n) > 0 -> decode_fixed(c, rows, DecimalWidth(ct.n))
      [] ct.k \in {"String", "JSON"} -> DecodeStrings(c, rows)
      [] ct.k = "Nothing" -> [c EXCEPT !.val = [i \in 1..rows |-> Null]]
      [] ct.k = "FixedString" ->
            Then(parse_exact(c, rows * ct.n), LAMBDA r :
                [r EXCEPT !.val = [i \in 1..rows |-> SubSeq(r.val, ct.n * (i - 1) + 1, ct.n * i)]])
      [] ct.k = "Nullable" -> DecodeNullable(c, ct, rows)
      [] ct.k = "Array" -> DecodeArray(c, ct, rows)
      [] ct.k = "Map" -> DecodeMap(c, ct, rows)
      [] ct.k = "Tuple" -> DecodeTuple(c, ct, rows)
      [] ct.k = "LowCardinality" -> decode_column_values(c, ct.in[1], rows)
      [] ct.k = "Variant" ->
            Then(parse_variant_values(c, rows, ct.in), LAMBDA r :
                [r EXCEPT !.val = [i \in DOMAIN r.val |-> IF r.val[i] = None THEN Null ELSE r.val[i][2]]])
      [] OTHER ->
            Then(skip_typed_value_column(c, ct, rows), LAMBDA r :
                [r EXCEPT !.val = [i \in 1..rows |-> SubSeq(r.buf, c.pos + 1, r.pos)]])

\* Reached for the types that are not decoded: Dynamic, aggregate states, geo
\* types and unknown names take the rest of the data.
skip_typed_value_column(c, ct, rows) ==
    LET total(o) == IF rows = 0 THEN 0 ELSE Last(o.val)
        all(r, n) == ForEach(r, Len(ct.in), LAMBDA s, i : skip_typed_value_column(s, ct.in[i], n))
    IN  CASE ct.k \in {"Array", "Map"} -> Then(parse_offsets(c, rows), LAMBDA o : all(o, total(o)))
          [] ct.k = "Nullable" -> all(parse_exact(c, rows), rows)
          [] ct.k \in {"Tuple", "LowCardinality"} -> all(c, rows)
          [] ct.k \in {"String", "JSON"} -> ForEach(c, rows, LAMBDA r, i : parse_string_checked(r))
          [] ct.k = "Nothing" -> c
          [] ct.k # "Point" /\ fixed_width(ct) >= 0 -> parse_exact(c, rows * fixed_width(ct))
          [] OTHER -> [c EXCEPT !.pos = Len(c.buf)]

(***************************************************************************)
(* The rows.                                                               *)
(***************************************************************************)
\* The values of each type, and the rows the type indexes pick from them.
materialize_dynamic_rows_usize(c, types, discriminators) ==
    LET counts == Counts(discriminators, Len(types))
        decoded == ForEach([c EXCEPT !.val = <<>>], Len(types), LAMBDA r, i :
                       Then(decode_column_values(r, types[i], counts[i]), LAMBDA v :
                           [v EXCEPT !.val = Append(r.val, v.val)]))
        before(i) == Cardinality({j \in 1..(i - 1) : discriminators[j] = discriminators[i]})
    IN  Then(decoded, LAMBDA r :
            [r EXCEPT !.val = [i \in DOMAIN discriminators |->
                IF discriminators[i] >= Len(types) THEN None
                ELSE <<discriminators[i], r.val[discriminators[i] + 1][before(i) + 1]>>]])

parse_variant_basic(c, rows, types) ==
    Then(parse_exact(c, rows), LAMBDA d : materialize_dynamic_rows_usize(d, types, d.val))

parse_variant_compact(c, rows, types) ==
    Then(parse_u64_le(c), LAMBDA t : Then(parse_u64_le(t), LAMBDA n :
        IF t.val >= Len(types) THEN [n EXCEPT !.val = [i \in 1..rows |-> None]]
        ELSE Then(decode_column_values(n, types[t.val + 1], n.val), LAMBDA v :
                 [v EXCEPT !.val = [i \in 1..rows |->
                     <<t.val, IF i <= Len(v.val) THEN v.val[i] ELSE Null>>]])))

parse_variant_values(c, rows, types) ==
    Then(parse_u64_le(c), LAMBDA m :
        CASE m.val = 0 -> parse_variant_basic(m, rows, types)
          [] m.val = 1 -> parse_variant_compact(m, rows, types)
          [] OTHER -> Fail(m))

\* Discriminator 255 is NULL.
parse_deprecated_dynamic_values(c, rows, types) ==
    Then(parse_exact(c, rows), LAMBDA d :
        IF \E i \in 1..rows : d.val[i] # 255 /\ d.val[i] >= Len(types) THEN Fail(d)
        ELSE materialize_dynamic_rows_usize(d, types,
                 [i \in 1..rows |-> IF d.val[i] = 255 THEN Len(types) ELSE d.val[i]]))

flat_discriminator_width(n) ==
    CASE n < 2^8 -> 1 [] n \in 2^8..(2^16 - 1) -> 2 [] OTHER -> 4

\* The number of types is NULL.
parse_flat_dynamic_values(c, rows, types) ==
    LET width == flat_discriminator_width(Len(types)) IN
    Then(parse_exact(c, rows * width), LAMBDA d :
        LET discriminators == Numbers(d.val, width) IN
        IF \E i \in 1..rows : discriminators[i] > Len(types) THEN Fail(d)
        ELSE materialize_dynamic_rows_usize(d, types, discriminators))

VariantReadNative(c, rows, types) == parse_variant_values(c, rows, types)

DynamicReadNative(c, rows) ==
    Then(parse_u64_le(c), LAMBDA v :
        CASE v.val = 1 ->
                Then(parse_dynamic_type_header(parse_varint_checked(v)), LAMBDA h :
                    parse_deprecated_dynamic_values(
                        skip_state_prefixes_for_types(parse_u64_le(h), h.val), rows, h.val))
          [] v.val \in {2, 3} ->
                Then(parse_dynamic_type_header(v), LAMBDA h :
                    parse_flat_dynamic_values(skip_state_prefixes_for_types(h, h.val), rows, h.val))
          [] OTHER -> Fail(v))
=============================================================================
