---------------------------- MODULE TypedColumns ----------------------------
(***************************************************************************)
(* shared/column: the Rust types a column is read into.                    *)
(* A Rust type is named by the column type it stands for: Nullable is      *)
(* Option, Array is Vec, Map is HashMap.  A fixed-width value is its       *)
(* little-endian bytes, a string its bytes, a tuple, an array and a point  *)
(* a sequence.  A reader's val is the sequence of the values that get()    *)
(* returns, "panic" its status where the code would index out of bounds.   *)
(***************************************************************************)
EXTENDS NativeType

Null == <<-1>>

Panic(c) == [c EXCEPT !.st = "panic"]

\* ReadColumnContext: the end of the buffer is an error.
EndIsError(c) == IF c.st = "more" THEN Fail(c) ELSE c

read_exact(c, n) == EndIsError(Take(c, n, "fill"))

read_rows_bytes(c, rows, w) == read_exact(c, rows * w)

read_offsets(c, rows) ==
    Then(read_rows_bytes(c, rows, 8), LAMBDA r : [r EXCEPT !.val = Numbers(r.val, 8)])

read_varint_from_slice(c) == EndIsError(Varint(c, "fill"))

\* The bytes that ClickHouseValue reads and writes for the types that are
\* copied as they are in memory.
NumberWidths ==
    [UInt8 |-> 1, UInt16 |-> 2, UInt32 |-> 4, UInt64 |-> 8, Int8 |-> 1, Int16 |-> 2,
     Int32 |-> 4, Int64 |-> 8, Float32 |-> 4, Float64 |-> 8]

WideWidths == [UInt128 |-> 16, Int128 |-> 16, UInt256 |-> 32, Int256 |-> 32]

DateWidths == [Date |-> 2, DateTime |-> 4, UUID |-> 16, IPv4 |-> 4]

DecimalWidths ==
    [DateTime64 |-> 8, Decimal32 |-> 4, Decimal64 |-> 8, Decimal128 |-> 16, Decimal256 |-> 32]

PlainWidths == NumberWidths @@ WideWidths @@ DateWidths @@ DecimalWidths

\* PlainColumnData: the values of width w.
PlainColumnData(bytes, w) == FixedEntries(bytes, w)

ReadPlain(c, t, rows) ==
    LET w == PlainWidths[t.k] IN
    Then(read_exact(c, rows * w), LAMBDA r : [r EXCEPT !.val = PlainColumnData(r.val, w)])

ReadBool(c, rows) ==
    Then(read_exact(c, rows), LAMBDA r :
        [r EXCEPT !.val = [i \in 1..rows |-> <<IF r.val[i] # 0 THEN 1 ELSE 0>>]])

\* IPv6 is in network byte order.
ReadIPv6(c, rows) ==
    Then(read_exact(c, rows * 16), LAMBDA r :
        [r EXCEPT !.val = [i \in 1..rows |-> Reverse(FixedEntries(r.val, 16)[i])]])

\* The lengths are scanned first; a string that would end behind the buffer
\* is noticed when the next one is looked for, or at the end.
ReadStrings(c, rows) ==
    LET scanned == ForEach([c EXCEPT !.val = <<>>], rows, LAMBDA r, i :
                       IF r.pos > Len(r.buf) THEN Panic(r) ELSE
                       Then(read_varint_from_slice(r), LAMBDA l :
                           [l EXCEPT !.pos = l.pos + l.val,
                                     !.val = Append(r.val, <<l.pos + 1, l.pos + l.val>>)]))
    IN  Then(Require(scanned, scanned.pos <= Len(c.buf)), LAMBDA r :
            [r EXCEPT !.val = [i \in 1..rows |-> SubSeq(r.buf, r.val[i][1], r.val[i][2])]])

\* The width of a FixedString is taken from the length of the whole buffer.
ReadFixedStrings(c, rows) ==
    IF rows = 0 THEN [c EXCEPT !.val = <<>>] ELSE
    LET n == Len(c.buf) \div rows IN
    Then(read_exact(c, rows * n), LAMBDA r :
        [r EXCEPT !.val = [i \in 1..rows |-> SubSeq(r.val, n * (i - 1) + 1, n * i)]])

ReadJson(c, rows) ==
    ForEach([c EXCEPT !.val = <<>>], rows, LAMBDA r, i :
        Then(read_varint_from_slice(r), LAMBDA l : Then(read_exact(l, l.val), LAMBDA s :
            [s EXCEPT !.val = Append(r.val, s.val)])))

\* VariantValue and DynamicValue keep all that is left of the buffer, for
\* every row.
ReadVariant(c, rows) ==
    LET rest(p) == IF p > Len(c.buf) THEN Panic(c)
                   ELSE [c EXCEPT !.pos = Len(c.buf),
                                  !.val = [i \in 1..rows |-> SubSeq(c.buf, p + 1, Len(c.buf))]]
        none(p) == [c EXCEPT !.pos = p, !.val = [i \in 1..rows |-> <<>>]]
        mode == Number(SubSeq(c.buf, c.pos + 1, c.pos + 8))
    IN  IF c.pos + 8 > Len(c.buf) THEN none(c.pos)
        ELSE IF mode # 1 THEN rest(c.pos + 8 + rows)
        ELSE IF c.pos + 24 > Len(c.buf) THEN none(c.pos + 8)
        ELSE rest(c.pos + 24)

ReadDynamic(c, rows) ==
    [c EXCEPT !.pos = Len(c.buf), !.val = [i \in 1..rows |-> SubSeq(c.buf, c.pos + 1, Len(c.buf))]]

\* x values first, then y values.
ReadPoints(c, rows) ==
    Then(read_exact(c, rows * 16), LAMBDA r :
        LET xy == FixedEntries(r.val, 8) IN
        [r EXCEPT !.val = [i \in 1..rows |-> <<xy[i], xy[rows + i]>>]])

\* The elements of row i: get() panics on offsets that go down.
Slices(c, offs, elems) ==
    LET from(i) == IF i = 1 THEN 0 ELSE offs[i - 1] IN
    IF \E i \in DOMAIN offs : offs[i] < from(i) THEN Panic(c)
    ELSE [c EXCEPT !.val = [i \in DOMAIN offs |-> SubSeq(elems, from(i) + 1, offs[i])]]

\* The entries of a HashMap, a set of pairs: a later key replaces an earlier.
Entries(ks, vs) ==
    {<<ks[i], vs[i]>> : i \in {j \in DOMAIN ks : \A l \in DOMAIN ks : l > j => ks[l] # ks[j]}}

RECURSIVE read_column(_, _, _)

ReadNullable(c, t, rows) ==
    Then(read_exact(c, rows), LAMBDA m : Then(read_column(m, t.in[1], rows), LAMBDA v :
        [v EXCEPT !.val = [i \in 1..rows |-> IF m.val[i] # 0 THEN Null ELSE v.val[i]]]))

\* Mutant: one element per row is read.
ElementColumnPerRow(c, elem, rows) ==
    Then(read_offsets(c, rows), LAMBDA o : Then(read_column(o, elem, rows), LAMBDA v :
        Slices(v, o.val, v.val)))

\* Offsets, then the elements of all rows.
ElementColumn(c, elem, rows) ==
    Then(read_offsets(c, rows), LAMBDA o : Then(read_column(o, elem, Last(o.val)), LAMBDA v :
        Slices(v, o.val, v.val)))

ReadArray(c, t, rows) ==
    IF rows = 0 THEN read_column(c, t.in[1], 0) ELSE ElementColumn(c, t.in[1], rows)

ReadRing(c, rows) ==
    IF rows = 0 THEN [c EXCEPT !.val = <<>>] ELSE ElementColumn(c, Plain("Point"), rows)

ReadPolygon(c, rows) ==
    IF rows = 0 THEN [c EXCEPT !.val = <<>>] ELSE ElementColumn(c, Plain("Ring"), rows)

ReadMultiPolygon(c, rows) ==
    IF rows = 0 THEN [c EXCEPT !.val = <<>>] ELSE ElementColumn(c, Plain("Polygon"), rows)

ReadMap(c, t, rows) ==
    Then(read_offsets(c, rows), LAMBDA o :
        LET total == IF rows = 0 THEN 0 ELSE Last(o.val) IN
        Then(read_column(o, t.in[1], total), LAMBDA k : Then(read_column(k, t.in[2], total), LAMBDA v :
            Then(Slices(v, o.val, [i \in 1..total |-> i]), LAMBDA s :
                [s EXCEPT !.val = [i \in 1..rows |->
                    Entries([j \in DOMAIN s.val[i] |-> k.val[s.val[i][j]]],
                            [j \in DOMAIN s.val[i] |-> v.val[s.val[i][j]]])]]))))

\* The columns of the elements one after the other, and the rows across them.
ElementColumns(c, ts, rows) ==
    Then(ForEach([c EXCEPT !.val = <<>>], Len(ts), LAMBDA r, i :
             Then(read_column(r, ts[i], rows), LAMBDA v : [v EXCEPT !.val = Append(r.val, v.val)])),
         LAMBDA r : [r EXCEPT !.val = [i \in 1..rows |-> [j \in DOMAIN ts |-> r.val[j][i]]]])

\* The library has one implementation for each arity from 2 to 8.
ReadTuple2(c, t, rows) == ElementColumns(c, <<t[1], t[2]>>, rows)
ReadTuple3(c, t, rows) == ElementColumns(c, <<t[1], t[2], t[3]>>, rows)
ReadTuple4(c, t, rows) == ElementColumns(c, <<t[1], t[2], t[3], t[4]>>, rows)
ReadTuple5(c, t, rows) == ElementColumns(c, <<t[1], t[2], t[3], t[4], t[5]>>, rows)
ReadTuple6(c, t, rows) == ElementColumns(c, <<t[1], t[2], t[3], t[4], t[5], t[6]>>, rows)
ReadTuple7(c, t, rows) == ElementColumns(c, <<t[1], t[2], t[3], t[4], t[5], t[6], t[7]>>, rows)
ReadTuple8(c, t, rows) == ElementColumns(c, <<t[1], t[2], t[3], t[4], t[5], t[6], t[7], t[8]>>, rows)

ReadTuple(c, t, rows) ==
    CASE Len(t) = 2 -> ReadTuple2(c, t, rows)
      [] Len(t) = 3 -> ReadTuple3(c, t, rows)
      [] Len(t) = 4 -> ReadTuple4(c, t, rows)
      [] Len(t) = 5 -> ReadTuple5(c, t, rows)
      [] Len(t) = 6 -> ReadTuple6(c, t, rows)
      [] Len(t) = 7 -> ReadTuple7(c, t, rows)
      [] Len(t) = 8 -> ReadTuple8(c, t, rows)

read_column(c, t, rows) ==
    CASE t.k \in DOMAIN PlainWidths -> ReadPlain(c, t, rows)
      [] t.k = "Bool" -> ReadBool(c, rows)
      [] t.k = "IPv6" -> ReadIPv6(c, rows)
      [] t.k = "String" -> ReadStrings(c, rows)
      [] t.k = "FixedString" -> ReadFixedStrings(c, rows)
      [] t.k = "JSON" -> ReadJson(c, rows)
      [] t.k = "Variant" -> ReadVariant(c, rows)
      [] t.k = "Dynamic" -> ReadDynamic(c, rows)
      [] t.k = "Nullable" -> ReadNullable(c, t, rows)
      [] t.k = "Array" -> ReadArray(c, t, rows)
      [] t.k = "Map" -> ReadMap(c, t, rows)
      [] t.k = "Tuple" -> ReadTuple(c, t.in, rows)
      [] t.k = "Point" -> ReadPoints(c, rows)
      [] t.k = "Ring" -> ReadRing(c, rows)
      [] t.k = "Polygon" -> ReadPolygon(c, rows)
      [] t.k = "MultiPolygon" -> ReadMultiPolygon(c, rows)
=============================================================================
