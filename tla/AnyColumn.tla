----------------------------- MODULE AnyColumn ------------------------------
(***************************************************************************)
(* AnyColumnData: columns decoded by their column type at run time, in the *)
(* async and in the sync client, and the owned copy of the sync client.    *)
(* A column is its variant and its values; a Nullable and an Array hold    *)
(* the column below them, a Map and a Tuple the bytes of their parts.      *)
(***************************************************************************)
EXTENDS TypedColumns

AnyData(v, vals) == [v |-> v, vals |-> vals]

\* The column types read by one Rust type, and that type.
SimpleType(ct) ==
    CASE ct.k = "Time" -> Plain("DateTime")
      [] ct.k = "Time64" -> Plain("DateTime64")
      [] OTHER -> ct

SimpleKinds ==
    DOMAIN NumberWidths \cup DOMAIN WideWidths \cup DOMAIN DateWidths
    \cup {"Bool", "DateTime64", "IPv6", "Time", "Time64", "JSON", "Variant", "Dynamic"}

DecimalType(p) ==
    Plain(IF p <= 9 THEN "Decimal32" ELSE IF p <= 18 THEN "Decimal64"
          ELSE IF p <= 38 THEN "Decimal128" ELSE "Decimal256")

ReadAs(c, t, rows, v) ==
    Then(read_column(c, t, rows), LAMBDA r : [r EXCEPT !.val = AnyData(v, r.val)])

\* The rest of the buffer.
Rest(c) == read_exact(c, Len(c.buf) - c.pos)

\* Enum values become i64 (here: two bytes, sign-extended).
EnumColumn(c, ct, rows) ==
    Then(read_column(c, Plain(IF ct.k = "Enum8" THEN "Int8" ELSE "Int16"), rows), LAMBDA r :
        [r EXCEPT !.val = AnyData("Enum", [i \in 1..rows |->
            IF ct.k = "Enum8" THEN <<r.val[i][1], IF r.val[i][1] < 128 THEN 0 ELSE 255>>
                              ELSE r.val[i]])])

SyncEnumColumn(c, ct, rows) ==
    IF ct.k = "Enum8" THEN ReadAs(c, Plain("Int8"), rows, "Int8")
    ELSE ReadAs(c, Plain("Int16"), rows, "Int16")

RECURSIVE ByType(_, _, _, _)

\* The byte ranges of columns one after the other.
Ranges(c, ts, rows, side) ==
    ForEach([c EXCEPT !.val = <<>>], Len(ts), LAMBDA r, i :
        Then(ByType(r, ts[i], rows, side), LAMBDA e :
            [e EXCEPT !.val = Append(r.val, SubSeq(r.buf, r.pos + 1, e.pos))]))

ByType(c, ct, rows, side) ==
    CASE ct.k \in SimpleKinds -> ReadAs(c, SimpleType(ct), rows, SimpleType(ct).k)
      [] ct.k = "String" -> ReadAs(c, ct, rows, "String")
      [] ct.k = "FixedString" ->
            Then(read_rows_bytes(c, rows, ct.n), LAMBDA r :
                [r EXCEPT !.val = AnyData(ct.k, [i \in 1..rows |->
                    SubSeq(r.val, ct.n * (i - 1) + 1, ct.n * i)])])
      [] ct.k = "Nullable" ->
            Then(ByType(read_exact(c, rows), ct.in[1], rows, side), LAMBDA r :
                [r EXCEPT !.val = AnyData("Nullable", r.val)])
      [] ct.k = "Array" ->
            IF rows = 0 THEN [c EXCEPT !.val = AnyData("Array", AnyData("Unknown", <<>>))]
            ELSE Then(read_offsets(c, rows), LAMBDA o :
                     Then(ByType(o, ct.in[1], Last(o.val), side), LAMBDA r :
                         [r EXCEPT !.val = AnyData("Array", r.val)]))
      [] ct.k = "Map" ->
            IF rows = 0 THEN [c EXCEPT !.val = AnyData("Map", << <<>>, <<>> >>)]
            ELSE Then(read_offsets(c, rows), LAMBDA o :
                     Then(Ranges(o, ct.in, Last(o.val), side), LAMBDA r :
                         [r EXCEPT !.val = AnyData("Map", r.val)]))
      [] ct.k = "LowCardinality" -> ByType(c, ct.in[1], rows, side)
      [] ct.k = "Date32" -> ReadAs(c, Plain("Int32"), rows, "Int32")
      [] ct.k = "Nothing" ->
            Then(read_exact(c, rows), LAMBDA r : [r EXCEPT !.val = AnyData("Unknown", <<>>)])
      [] ct.k \in {"AggregateFunction", "SimpleAggregateFunction"} ->
            Then(Rest(c), LAMBDA r :
                [r EXCEPT !.val = AnyData("AggregateFunction", [i \in 1..rows |-> r.val])])
      [] ct.k \in {"Enum8", "Enum16"} ->
            IF side = "sync" THEN SyncEnumColumn(c, ct, rows) ELSE EnumColumn(c, ct, rows)
      [] ct.k = "Decimal" -> ReadAs(c, DecimalType(ct.n), rows, DecimalType(ct.n).k)
      [] ct.k = "Tuple" ->
            Then(Ranges(c, ct.in, rows, side), LAMBDA r : [r EXCEPT !.val = AnyData("Tuple", r.val)])
      [] ct.k = "Point" -> ByType(c, Of("Tuple", <<Plain("Float64"), Plain("Float64")>>), rows, side)
      [] ct.k \in {"Ring", "Polygon", "MultiPolygon"} -> ByType(c, GeoElement(ct), rows, side)
      [] ct.k = "Other" ->
            Then(Rest(c), LAMBDA r : [r EXCEPT !.val = AnyData("Unknown", <<>>)])

read_column_by_type(c, ct, rows) == ByType(c, ct, rows, "async")

sync_read_column_by_type(c, ct, rows) == ByType(c, ct, rows, "sync")

(***************************************************************************)
(* Typed access: row i of a column as the Rust type t.  <<>> is a type     *)
(* mismatch, <<v>> a value.                                                *)
(***************************************************************************)
ValueVariants ==
    DOMAIN PlainWidths \cup {"Bool", "IPv6", "String", "FixedString", "JSON", "Variant", "Dynamic"}

sync_to_typed(any, t, i) ==
    IF \/ any.v = t.k /\ t.k \in ValueVariants
       \/ any.v = "AggregateFunction" /\ t.k = "Dynamic"
    THEN <<any.vals[i]>> ELSE <<>>

\* The async client also gives an Enum as i8 or i16, if the value fits.
to_typed(any, t, i) ==
    IF any.v = "Enum" /\ t.k \in {"Int8", "Int16"}
    THEN LET v == any.vals[i] IN
         IF t.k = "Int16" THEN <<v>>
         ELSE IF v[2] = (IF v[1] < 128 THEN 0 ELSE 255) THEN << <<v[1]>> >> ELSE <<>>
    ELSE sync_to_typed(any, t, i)

\* plain_slice: the values of a fixed-width column, if it has that type.
plain_slice(any, t) ==
    IF any.v = t.k /\ t.k \in DOMAIN PlainWidths THEN <<any.vals>> ELSE <<>>

len(any) ==
    CASE any.v \in {"Nullable", "Array"} -> Len(any.vals.vals)
      [] any.v = "Unknown" -> 0
      [] OTHER -> Len(any.vals)

\* The sync client's owned copy: [kind, values], a value without its width.
RECURSIVE into_owned(_)
into_owned(any) ==
    CASE any.v \in {"UInt8", "UInt16", "UInt32", "UInt64"} -> AnyData("UInt", any.vals)
      [] any.v \in {"Int8", "Int16", "Int32", "Int64", "Date", "DateTime", "DateTime64"} ->
            AnyData("Int", any.vals)
      [] any.v \in {"Float32", "Float64"} -> AnyData("Float", any.vals)
      [] any.v \in {"String", "FixedString", "UUID", "IPv4", "IPv6", "JSON"} ->
            AnyData("String", any.vals)
      [] any.v = "Bool" -> AnyData("Bool", any.vals)
      [] any.v \in {"Nullable", "Array"} -> into_owned(any.vals)
      [] any.v \in {"Map", "Tuple"} -> AnyData("Null", [i \in 1..len(any) |-> Null])
      [] any.v = "Unknown" -> AnyData("Unknown", <<>>)
      [] OTHER -> IF len(any) = 0 THEN AnyData("Unknown", <<>>)
                  ELSE AnyData("Null", [i \in 1..len(any) |-> Null])
=============================================================================
