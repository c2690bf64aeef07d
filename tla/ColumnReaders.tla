--------------------------- MODULE ColumnReaders ----------------------------
(***************************************************************************)
(* The readers of NativeBlock on the same bytes.  A behaviour is a server  *)
(* that sends one column, or one block: whenever a reader waits for more,  *)
(* the server sends something of the kind that reader expects, right or    *)
(* wrong.  So every reader is led through every branch it has, and the     *)
(* others see the bytes one of them asked for.                             *)
(***************************************************************************)
EXTENDS NativeBlock, DynamicVariant

CONSTANTS
    Types, MaxRows,    \* the columns
    MaxBytes,          \* bound on the bytes of a column
    MaxJsonBytes,      \* the same, for types with JSON
    MaxHeaderBytes     \* bound on the bytes of a block

VARIABLES mode, ty, rows, buf

vars == <<mode, ty, rows, buf>>

Start == Cursor(buf)

(***************************************************************************)
(* The readers of a column.                                                *)
(***************************************************************************)
Skip == IF ty = BadName THEN skip_string_rows(Start, rows) ELSE skip_column_data(Start, ty, rows)
ReadAsync == read_column_async(Start, ty, rows)
DiscardAsync == discard_column_async(Start, ty, rows)
ReadSync == IF ty = BadName THEN Fail(Start) ELSE read_column_data_into(Start, ty, rows)
DiscardSync == IF ty = BadName THEN Fail(Start) ELSE discard_column_data(Start, ty, rows)
Raw == IF rows = 0 THEN Start ELSE read_column_raw_recorded(Start, ty, rows)
RawSync == IF rows = 0 \/ ty = BadName
           THEN IF rows = 0 THEN Start ELSE Fail(Start)
           ELSE Then(read_column_state_prefix_into(Start, ty), LAMBDA r :
                    read_column_body_raw_into(r, ty, r.val, rows))
Buffered == IF ty = BadName THEN Fail(Start) ELSE BufferedColumn(Start, ty, rows)

(***************************************************************************)
(* The readers of a block, and of a block behind its table name.           *)
(***************************************************************************)
Body == HeaderString(Start, "id")

BlockReaders == << read_data_block(Start), discard_data_block(Start), read_raw_data_block(Start),
                   read_data_block_body(Body), discard_data_block_body(Body),
                   read_block_body(Body), read_block_body_view(Body), discard_block_body(Body),
                   parse_block_body(Body), parse_block_body_shared(Body) >>

(***************************************************************************)
(* The server.                                                             *)
(***************************************************************************)
RECURSIVE Has(_, _)
Has(ct, ks) == ct.k \in ks \/ \E i \in DOMAIN ct.in : Has(ct.in[i], ks)

Le8(n) == <<n % 256, n \div 256, 0, 0, 0, 0, 0, 0>>

\* Headers of LowCardinality: good ones, then a wrong version, a global
\* dictionary, no additional keys, too many keys.
LcHeaders ==
    { <<1, 512, 0>>, <<1, 512, 1>>, <<1, 512, 2>>, <<1, 513, 1>>,
      <<2, 512, 1>>, <<1, 768, 1>>, <<1, 0, 1>>, <<1, 512, 3>> }

Sends(want) ==
    CASE want.k = "ver" -> {Le8(n) : n \in 0..5}
      [] want.k = "num" -> {Le8(n) : n \in 0..3}
      [] want.k = "len" -> {<<n>> : n \in 0..2}
      [] want.k = "count" -> {<<n>> : n \in 0..3}
      [] want.k = "dim" -> {<<n>> : n \in {0, 1, 2, 3, 5}}
      [] want.k = "lc" -> {Le8(h[1]) \o Le8(h[2]) \o Le8(h[3]) : h \in LcHeaders}
      [] want.k = "off" ->
            {FlattenSeq([i \in DOMAIN s |-> Le8(s[i])]) : s \in [1..(want.n \div 8) -> 0..3]}
      [] want.k = "disc" -> [1..want.n -> {0, 1, 2, 255}]
      [] want.k = "idx" -> [1..want.n -> {0, 1, 2}]
      [] want.k = "name" /\ want.n = 1 -> {<<i>> : i \in DOMAIN TypeTable}
      [] want.k = "custom" -> {<<0>>, <<1>>}
      [] OTHER -> { [i \in 1..want.n |-> 10 + ((Len(buf) + i) % 100)] }

Answer(r) ==
    /\ r.st = "more"
    /\ \E bytes \in Sends(r.want) : buf' = buf \o bytes

Init ==
    /\ buf = <<>>
    /\ \/ mode = "column" /\ ty \in Types /\ rows \in 0..MaxRows
       \/ mode = "block" /\ ty = BadName /\ rows = 0

Next ==
    /\ UNCHANGED <<mode, ty, rows>>
    /\ \/ /\ mode = "column"
          /\ Len(buf) < IF Has(ty, {"JSON"}) THEN MaxJsonBytes ELSE MaxBytes
          /\ \/ Answer(ReadAsync)
             \/ Answer(Skip)
             \/ Answer(ReadSync)
             \/ Answer(Raw)
             \/ Answer(DiscardSync)
       \/ /\ mode = "block"
          /\ Len(buf) < MaxHeaderBytes
          /\ \/ Answer(read_data_block(Start))
             \/ Answer(read_raw_data_block(Start))
             \/ Answer(read_block_body(Body))

Spec == Init /\ [][Next]_vars

(***************************************************************************)
(* Properties                                                              *)
(***************************************************************************)

\* Two readers agree: unless one of them reports an error, both end, and at
\* the same byte, or both wait.  A reader that ends where another goes on
\* leaves the rest of the column to be read as the next packet.
Agree(a, b) ==
    a.st # "err" /\ b.st # "err" => a.st = b.st /\ (a.st = "ok" => a.pos = b.pos)

\* The types below ct survive Display and parse_type.
Displayable(ct) == \A i \in DOMAIN ct.in : reparse(ct.in[i]) = ct.in[i]

Below(ct, ks) == \E i \in DOMAIN ct.in : Has(ct.in[i], ks)

\* skip_column_data ends where the two materializing readers end: "Consumes
\* exactly the bytes the materialized stream readers consume for the same
\* column".  The raw readers end there too, for types without Nothing and
\* without a state prefix below an array, a tuple or a Nullable.
SkipEndsWhereReadersEnd ==
    mode = "column" /\ Displayable(ty) =>
        /\ Agree(Skip, ReadAsync) /\ Agree(Skip, ReadSync)
        /\ /\ ~Has(ty, {"Nothing"})
           /\ ty.k # "Variant" => ~Below(ty, {"JSON", "Dynamic", "Variant"})
           => Agree(Skip, Raw)

\* Discarding a column moves the stream as far as reading it, on the async
\* and on the sync side.  A cancelled or drained response relies on it.
DiscardEndsWhereReadEnds ==
    mode = "column" => Agree(DiscardAsync, ReadAsync) /\ Agree(DiscardSync, ReadSync)

\* The two raw readers, recorded (async) and into (sync), agree on every
\* column, and record the same bytes.
RawReadersAgree ==
    mode = "column" =>
        /\ Agree(Raw, RawSync)
        /\ Raw.st = "ok" /\ RawSync.st = "ok" => Raw.out = RawSync.out

SameDataOn(sync, buffered, async) ==
    sync.st = "ok" =>
        /\ buffered.st = "ok" /\ ~Below(ty, {"LowCardinality"}) => buffered.out = sync.out
        /\ /\ async.st = "ok"
           /\ Displayable(ty)
           /\ ~Below(ty, {"Nullable", "Time", "Decimal"}) \/ ~Has(ty, {"LowCardinality"})
           => async.out = sync.out

\* A column has the same data whichever path it took: from a buffered block,
\* from the sync stream, from the async stream.  Buffered blocks keep a nested
\* LowCardinality as it is on the wire; the async side does not materialize a
\* LowCardinality of Nullable, Time or Decimal.
SameData == mode = "column" => SameDataOn(ReadSync, Buffered, ReadAsync)

AllAgree(rs, keep) ==
    /\ \A i, j \in DOMAIN rs : i < j => Agree(rs[i], rs[j])
    /\ \A i, j \in keep :
          i < j /\ rs[i].st = "ok" /\ rs[j].st = "ok" => rs[i].val = rs[j].val

\* The readers of a block agree on where it ends, and the readers that keep
\* the columns agree on what they hold.
BlockReadersAgree == mode = "block" => AllAgree(BlockReaders, {1, 4, 6, 7, 9, 10})

(***************************************************************************)
(* What is decoded from the data of a column.                              *)
(***************************************************************************)
\* The Rust type for a column type; "none" where the library has none.
RECURSIVE RustType(_)
RustType(ct) ==
    LET below == [i \in DOMAIN ct.in |-> RustType(ct.in[i])] IN
    CASE \E i \in DOMAIN below : below[i].k = "none" -> Plain("none")
      [] ct.k = "Enum8" -> Plain("Int8")
      [] ct.k = "Enum16" -> Plain("Int16")
      [] ct.k = "Date32" -> Plain("Int32")
      [] ct.k \in {"Time", "Time64"} -> SimpleType(ct)
      [] ct.k = "Decimal" -> DecimalType(ct.n)
      [] ct.k = "LowCardinality" -> below[1]
      [] ct.k \in {"Nothing", "Other", "bad", "AggregateFunction", "SimpleAggregateFunction"} ->
            Plain("none")
      [] OTHER -> [ct EXCEPT !.in = below]

\* Variant and Dynamic values take the rest of the data, and FixedString
\* divides all of it: they must be a column of their own, or come last.  A
\* Variant must not start with the state prefix of a type below it.
RECURSIVE Delimited(_)
Delimited(ct) ==
    \A i \in DOMAIN ct.in :
        /\ ~Has(ct.in[i], {"FixedString"})
        /\ ct.k = "Variant" => ~Has(ct.in[i], {"JSON", "Dynamic"})
        /\ Has(ct.in[i], {"Variant", "Dynamic"}) => i = Len(ct.in)
        /\ Delimited(ct.in[i])

WholeData(kept, r) == r.st = "ok" /\ r.pos = Len(kept.out)

TypedReads(kept, t) ==
    kept.st = "ok" /\ t.k # "none" /\ Delimited(t) =>
        LET typed == read_column(Cursor(kept.out), t, rows) IN
        WholeData(kept, typed) /\ Len(typed.val) = rows

DispatchAgrees(kept, t, any, sync, typed) ==
    /\ WholeData(kept, any) /\ WholeData(kept, sync)
    /\ t.k \in ValueVariants => \A i \in 1..rows :
          to_typed(any.val, t, i) = <<typed.val[i]>> /\ sync_to_typed(sync.val, t, i) = <<typed.val[i]>>

AnyReads(kept, data) ==
    kept.st = "ok" /\ Delimited(ty) =>
        DispatchAgrees(kept, RustType(ty), read_column_by_type(data, ty, rows),
                       sync_read_column_by_type(data, ty, rows), read_column(data, RustType(ty), rows))

\* A typed column takes all of the data that the stream readers kept, has a
\* value for each row, and does not index out of bounds.  The run-time dispatch
\* of both clients takes the same bytes and gives the same values.
TypedReadsColumn ==
    mode = "column" =>
        TypedReads(ReadSync, RustType(ty)) /\ AnyReads(ReadSync, Cursor(ReadSync.out))

SameValues(decoded, typed) ==
    decoded.st = "ok" /\ decoded.pos = typed.pos /\ decoded.val = typed.val

DecodersAgreeOn(kept, data, t, undecoded) ==
    kept.st = "ok" /\ t.k # "none" /\ ~Has(t, undecoded) /\ Delimited(t) =>
        SameValues(decode_column_values(data, ty, rows), read_column(data, t, rows))

\* The types of the rows of a Variant or Dynamic column.
RowTypes == IF ty.k = "Variant" THEN ty.in ELSE read_dynamic_state_prefix_into(Start).val.types

ReadNative(data, types) ==
    IF ty.k = "Variant" THEN VariantReadNative(data, rows, types) ELSE DynamicReadNative(data, rows)

RowsDecode(kept, types) ==
    /\ kept.st = "ok"
    /\ types # <<>> /\ Delimited(Of("Variant", types)) /\ ~Has(Of("Variant", types), {"LowCardinality"})
    => LET typed == ReadNative(Cursor(kept.out), types) IN
       WholeData(kept, typed) /\ Len(typed.val) = rows

\* The decoder below Variant and Dynamic gives the values of the typed column.
\* It has no values for geo types, decodes a Map as a sequence of pairs, and
\* an IPv6 in the wrong byte order.  The rows of a Variant or Dynamic column
\* are decoded to the end of the data the stream reader kept.  LowCardinality
\* is kept as it is on the wire and decoded as its values, and a Dynamic
\* without types is kept without discriminators and decoded with them: these
\* two the decoder does not read.
DecodersAgree ==
    mode = "column" =>
        /\ DecodersAgreeOn(ReadSync, Cursor(ReadSync.out), RustType(ty),
               {"Variant", "Dynamic", "Map", "IPv6", "Point", "Ring", "Polygon", "MultiPolygon"})
        /\ ty.k \in {"Variant", "Dynamic"} /\ rows > 0 => RowsDecode(ReadSync, RowTypes)

\* The buffered parser frames every column like the raw reader: "so the
\* buffered parser frames columns exactly like the streaming raw readers".
BufferedFramesLikeRaw == mode = "column" => Agree(Skip, Raw)

\* The async reader takes the bytes of the column, whatever its type: a type
\* below another is the same type after its name was displayed and parsed.
SkipEndsWhereReadersEndForAll == mode = "column" => Agree(Skip, ReadAsync)
=============================================================================
