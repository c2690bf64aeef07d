---------------------------- MODULE BlockHeader -----------------------------
(***************************************************************************)
(* The frame of a block: a table name, the BlockInfo fields, the number of *)
(* columns and rows, and for each column its name, its type, a byte that   *)
(* announces a custom serialization, and its data.                         *)
(***************************************************************************)
EXTENDS NativeType

CONSTANT MaxBlockColumns  \* MAX_BLOCK_COLUMNS

Column(ct, data) == [ty |-> ct, data |-> data]

\* A string of a block's header.
HeaderString(c, kind) ==
    Then(checked_string_len(Varint(c, "len")), LAMBDA r : Take(r, r.val, kind))

\* The fields of BlockInfo: 1 is_overflows, 2 bucket_num, 3 a list.
RECURSIVE InfoFields(_, _)
InfoFields(c, strict) ==
    Then(Varint(c, "dim"), LAMBDA d :
        CASE d.val = 0 -> d
          [] d.val = 1 -> InfoFields(Take(d, 1, "fill"), strict)
          [] d.val = 2 -> InfoFields(Take(d, 4, "fill"), strict)
          [] d.val = 3 -> InfoFields(Varint(d, "any"), strict)
          [] OTHER -> IF strict THEN Fail(d) ELSE d)

\* val is the number of columns and of rows.
Dimensions(c) ==
    Then(Varint(c, "count"), LAMBDA n :
        IF n.val > MaxBlockColumns THEN Fail(n) ELSE
        Then(Varint(n, "count"), LAMBDA r :
            IF r.val > MaxBlockRows THEN Fail(r) ELSE [r EXCEPT !.val = <<n.val, r.val>>]))

\* Applies Col(cursor, type, custom, rows), which appends to val.
Columns(d, Col(_, _, _, _)) ==
    Then(d, LAMBDA s :
        ForEach([s EXCEPT !.val = <<>>], s.val[1], LAMBDA a, i :
            Then(HeaderString(HeaderString(a, "id"), "name"), LAMBDA t :
                Then(Take(t, 1, "custom"), LAMBDA k :
                    Col([k EXCEPT !.val = a.val], TypeNamed(t.val), k.val[1], s.val[2])))))

\* Runs a column reader with an empty output and appends what it gives.
Append1(c, ct, Read(_)) ==
    Then(Read([c EXCEPT !.out = <<>>]), LAMBDA r :
        [r EXCEPT !.out = <<>>, !.val = Append(c.val, Column(ct, r.out))])
=============================================================================
