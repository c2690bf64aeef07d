----------------------------- MODULE NativeType -----------------------------
(***************************************************************************)
(* Column types and the cursor over wire bytes that every column reader    *)
(* of the library uses.                                                    *)
(*                                                                         *)
(* A type is a record: its constructor, a number (the width of a           *)
(* FixedString, the precision of a Decimal) and its argument types.  A     *)
(* type name on the wire is one byte, an index into TypeTable.             *)
(*                                                                         *)
(* A reader is a function from cursors to cursors.  "more" is the status   *)
(* of a reader that came to the end of the bytes: a stream reader waits    *)
(* there, a reader of a buffered block fails.  Numbers too large for the   *)
(* model are Huge, which is above every limit.                             *)
(***************************************************************************)
EXTENDS Integers, Sequences, SequencesExt

CONSTANTS
    MaxBlockRows,    \* MAX_BLOCK_ROWS
    MaxDynamicItems, \* MAX_JSON_DYNAMIC_ITEMS
    MaxStringBytes,  \* MAX_STRING_BYTES
    TypeTable        \* the type a type name on the wire stands for

Huge == 100000

(***************************************************************************)
(* Types                                                                   *)
(***************************************************************************)
Plain(k) == [k |-> k, n |-> 0, in |-> <<>>]

Sized(k, n) == [k |-> k, n |-> n, in |-> <<>>]

Of(k, ts) == [k |-> k, n |-> 0, in |-> ts]

\* The type a name that parse_type rejects stands for.
BadName == Plain("bad")

fixed_width(ct) ==
    CASE ct.k \in {"UInt8", "Int8", "Bool", "Enum8"} -> 1
      [] ct.k \in {"UInt16", "Int16", "Date", "Enum16"} -> 2
      [] ct.k \in {"UInt32", "Int32", "Float32", "Date32", "DateTime", "Time", "IPv4"} -> 4
      [] ct.k \in {"UInt64", "Int64", "Float64", "DateTime64", "Time64"} -> 8
      [] ct.k \in {"UInt128", "Int128", "UUID", "IPv6", "Point"} -> 16
      [] ct.k \in {"UInt256", "Int256"} -> 32
      [] ct.k = "FixedString" -> ct.n
      [] ct.k = "Decimal" /\ ct.n \in 1..9 -> 4
      [] ct.k = "Decimal" /\ ct.n \in 10..18 -> 8
      [] ct.k = "Decimal" /\ ct.n \in 19..38 -> 16
      [] ct.k = "Decimal" /\ ct.n \in 39..76 -> 32
      [] ct.k = "Nothing" -> 0
      [] OTHER -> -1

\* Ring, Polygon and MultiPolygon are arrays of the next smaller shape.
GeoElement(ct) ==
    Of("Array", << Plain(CASE ct.k = "Ring" -> "Point"
                           [] ct.k = "Polygon" -> "Ring"
                           [] ct.k = "MultiPolygon" -> "Polygon") >>)

(***************************************************************************)
(* parse_type(&ct.to_string()): the name Display gives a type, parsed      *)
(* again.  The labels of an Enum and the arguments of an aggregate         *)
(* function are not displayed, and without a parenthesis these names are   *)
(* names the parser does not know.                                         *)
(***************************************************************************)
RECURSIVE reparse(_)
reparse(ct) ==
    IF ct.k \in {"Enum8", "Enum16", "AggregateFunction", "SimpleAggregateFunction"}
    THEN Plain("Other")
    ELSE [ct EXCEPT !.in = [i \in DOMAIN ct.in |-> reparse(ct.in[i])]]

RECURSIVE nested_json_below(_, _)
nested_json_below(ct, is_nested) ==
    \/ ct.k = "JSON" /\ is_nested
    \/ ct.k # "JSON" /\ \E i \in DOMAIN ct.in : nested_json_below(ct.in[i], TRUE)

contains_nested_json(ct) == nested_json_below(ct, FALSE)

(***************************************************************************)
(* Cursors                                                                 *)
(***************************************************************************)
Cursor(buf) == [st |-> "ok", buf |-> buf, pos |-> 0, out |-> <<>>, val |-> 0,
                want |-> [k |-> "none", n |-> 0]]

Fail(c) == [c EXCEPT !.st = "err"]

Require(c, p) == IF c.st = "ok" /\ ~p THEN Fail(c) ELSE c

Then(c, F(_)) == IF c.st = "ok" THEN F(c) ELSE c

\* Takes the next n bytes; kind says what they are.
Take(c, n, kind) ==
    IF c.st # "ok" THEN c
    ELSE IF c.pos + n > Len(c.buf)
         THEN [c EXCEPT !.st = "more",
                        !.want = [k |-> IF c.pos = Len(c.buf) THEN kind ELSE "fill",
                                  n |-> c.pos + n - Len(c.buf)]]
         ELSE [c EXCEPT !.pos = c.pos + n, !.val = SubSeq(c.buf, c.pos + 1, c.pos + n)]

\* Takes bytes and appends them to the column's data.
Record(c, n, kind) ==
    Then(Take(c, n, kind), LAMBDA r : [r EXCEPT !.out = r.out \o r.val])

\* A little-endian number.
Number(bytes) ==
    IF \E i \in 3..Len(bytes) : bytes[i] # 0
    THEN Huge
    ELSE bytes[1] + (IF Len(bytes) > 1 THEN 256 * bytes[2] ELSE 0)

AsNumber(c) == Then(c, LAMBDA r : [r EXCEPT !.val = Number(r.val)])

U64(c, kind) == AsNumber(Take(c, 8, kind))

\* The varint at the cursor; the decoders themselves are in module Varint.
RECURSIVE VarintFrom(_, _, _)
VarintFrom(c, kind, shift) ==
    Then(Take(c, 1, kind), LAMBDA r :
        LET b == r.val[1] IN
        IF b < 128
        THEN [r EXCEPT !.val = IF shift = 0 THEN b ELSE IF b = 0 THEN 0 ELSE Huge]
        ELSE IF shift = 63 THEN Fail(r) ELSE VarintFrom(r, "fill", shift + 7))

Varint(c, kind) == VarintFrom(c, kind, 0)

checked_string_len(c) == Require(c, c.val <= MaxStringBytes)

checked_count(c) == Require(c, c.val <= MaxDynamicItems)

checked_monotonic_offset(prev, value) == value <= MaxBlockRows /\ value >= prev

\* The type a name on the wire stands for.  The empty name is refused, a name
\* that no type has is parsed as Other.
TypeNamed(bytes) ==
    IF bytes = <<>> THEN BadName ELSE
    IF Len(bytes) = 1 /\ bytes[1] \in DOMAIN TypeTable
    THEN TypeTable[bytes[1]]
    ELSE Plain("Other")

\* The little-endian numbers of width w in bytes.
Numbers(bytes, w) ==
    [i \in 1..(Len(bytes) \div w) |-> Number(SubSeq(bytes, w * (i - 1) + 1, w * i))]

\* The offsets of arrays, cumulative; the last one is the number of elements.
CheckOffsets(c, bytes) ==
    LET offs == Numbers(bytes, 8)
        good(i) == checked_monotonic_offset(IF i = 1 THEN 0 ELSE offs[i - 1], offs[i])
    IN  IF \A i \in DOMAIN offs : good(i)
        THEN [c EXCEPT !.val = IF offs = <<>> THEN 0 ELSE Last(offs)]
        ELSE Fail(c)

\* A LowCardinality header: version 1, flag "additional keys" (bit 9) set,
\* flag "global dictionaries" (bit 8) clear.  The result is the width of an
\* index, 0 for a header that is refused.
lc_idx_width(version, serial_type) ==
    IF version = 1 /\ (serial_type \div 256) % 2 = 0 /\ (serial_type \div 512) % 2 = 1
    THEN 2 ^ (serial_type % 4)
    ELSE 0

\* Copies the entries of a LowCardinality dictionary that the indexes name;
\* an index beyond the dictionary is an error.
Pick(c, entries, indexes) ==
    IF \E i \in DOMAIN indexes : indexes[i] >= Len(entries)
    THEN Fail(c)
    ELSE [c EXCEPT !.val = FlattenSeq([i \in DOMAIN indexes |-> entries[indexes[i] + 1]])]

\* The entries of width w of a dictionary, and its strings with their lengths.
FixedEntries(dict, w) ==
    [i \in 1..(Len(dict) \div w) |-> SubSeq(dict, w * (i - 1) + 1, w * i)]

RECURSIVE StringEntries(_)
StringEntries(dict) ==
    IF dict = <<>> THEN <<>>
    ELSE << SubSeq(dict, 1, dict[1] + 1) >> \o StringEntries(SubSeq(dict, dict[1] + 2, Len(dict)))

\* The state prefix of a Variant, Dynamic or JSON below a column: the version,
\* the types of a Dynamic, and the states of the types below.
State(k, ver, types, in) == [k |-> k, ver |-> ver, types |-> types, in |-> in]

NoState == State("None", 0, <<>>, <<>>)

Child(state, ct, i) ==
    IF state.k = ct.k /\ i \in DOMAIN state.in THEN state.in[i] ELSE NoState

\* How often each of n types occurs among discriminators.
Counts(discriminators, n) ==
    [i \in 1..n |-> Cardinality({j \in DOMAIN discriminators : discriminators[j] = i - 1})]

\* Applies F(cursor, i) for i in 1..n.
ForEach(c, n, F(_, _)) == FoldLeft(LAMBDA r, i : IF r.st = "ok" THEN F(r, i) ELSE r,
                                   c, [i \in 1..n |-> i])
=============================================================================
