-------------------------- MODULE MCColumnReaders ---------------------------
EXTENDS ColumnReaders

U8 == Plain("UInt8")
Str == Plain("String")
LcStr == Of("LowCardinality", <<Str>>)

MCTypeTable ==
    (0 :> U8 @@ 1 :> Str @@ 2 :> BadName @@ 3 :> LcStr)

MCTypes ==
    { Plain("UInt16"), Str, Plain("Nothing"), Plain("JSON"), Plain("Other"), BadName,
      Plain("AggregateFunction"), Plain("Point"), Plain("Ring"), Plain("Polygon"),
      Plain("Enum8"), Sized("FixedString", 3), Sized("Decimal", 12), Sized("Decimal", 80),
      Of("Nullable", <<Str>>), Of("Nullable", <<Plain("Nothing")>>),
      Of("Nullable", <<Plain("Enum8")>>),
      Of("Array", <<Str>>), Of("Array", <<Of("Array", <<U8>>)>>), Of("Array", <<LcStr>>),
      Of("Array", <<Plain("JSON")>>), Of("Array", <<Of("Variant", <<U8>>)>>),
      Of("Map", <<U8, Str>>), Of("Tuple", <<U8, Of("Nullable", <<U8>>)>>),
      LcStr, Of("LowCardinality", <<Plain("UInt16")>>),
      Of("LowCardinality", <<Plain("Time")>>),
      Of("LowCardinality", <<Of("Nullable", <<U8>>)>>),
      Of("Variant", <<U8, Str>>), Of("Variant", <<LcStr>>), Of("Variant", <<Plain("JSON")>>),
      Plain("Dynamic"),
      \* one column of every other width and arity
      Plain("UInt128"), Plain("Int256"), Plain("Float32"), Plain("Float64"), Plain("Bool"),
      Plain("Date"), Plain("Date32"), Plain("DateTime"), Plain("Time"), Sized("Time64", 3),
      Sized("DateTime64", 3), Plain("UUID"), Plain("IPv4"), Plain("IPv6"), Plain("Enum16"),
      Sized("Decimal", 9), Sized("Decimal", 38), Sized("Decimal", 76), Plain("MultiPolygon"),
      Of("Nullable", <<Plain("Int64")>>), Of("LowCardinality", <<Sized("FixedString", 2)>>),
      Of("Tuple", [i \in 1..3 |-> U8]), Of("Tuple", [i \in 1..4 |-> U8]),
      Of("Tuple", [i \in 1..5 |-> U8]), Of("Tuple", [i \in 1..6 |-> U8]),
      Of("Tuple", [i \in 1..7 |-> U8]), Of("Tuple", [i \in 1..8 |-> U8]) }
=============================================================================
