---------------------------- MODULE PacketCursor ----------------------------
(***************************************************************************)
(* What the readers of a server's response share: the fields of packets,   *)
(* the compression frames around a block, and the loop over packets.       *)
(*                                                                         *)
(* A loop ends with status "end" (EndOfStream), "exc" (a server            *)
(* exception), "large" (the response budget) or "err".  Its val is what it *)
(* has so far: the blocks it got, and how often it answered the server.    *)
(* Deadlines end a loop between two packets, and are left out here.  What  *)
(* the readers of blocks do with columns is in module NativeBlock: here a  *)
(* column has a byte for each row.                                         *)
(*                                                                         *)
(* A frame is a checksum, a method, its size with header, the size of its  *)
(* content, and the content.  Sizes are one byte.  The checksum is right   *)
(* when its first byte is 1; it has three bytes, so that an empty block is *)
(* shorter than checksum and method, as it is in the code.  The codec is   *)
(* the identity.                                                           *)
(***************************************************************************)
EXTENDS BlockHeader

CONSTANTS
    MaxFrameSize,     \* MAX_FRAME_SIZE
    MaxBlockBytes,    \* MAX_BLOCK_BYTES
    MaxPartUuids,     \* MAX_PART_UUIDS
    MaxChainDepth,    \* MAX_EXCEPTION_CHAIN_DEPTH
    MaxResponseSize   \* ClientConfig::max_response_size

(***************************************************************************)
(* Revisions of the protocol                                               *)
(***************************************************************************)
WITH_CLIENT_WRITE_INFO == 54420
WITH_SERVER_QUERY_TIME_IN_PROGRESS == 54460
WITH_TOTAL_BYTES_IN_PROGRESS == 54463
WITH_ROWS_BEFORE_AGGREGATION == 54469
DEFAULT_PROTOCOL_REVISION == 54483

(***************************************************************************)
(* Fields                                                                  *)
(***************************************************************************)
Field(c, f) ==
    CASE f = "varint" -> Varint(c, "any")
      [] f = "string" -> HeaderString(c, "id")
      [] f = "u64" -> Take(c, 8, "fill")
      [] f = "i32" -> Take(c, 4, "fill")
      [] f = "u8" -> Take(c, 1, "fill")
      [] f = "nested" -> Take(c, 1, "flag")

RECURSIVE Fields(_, _)
Fields(c, fs) ==
    IF c.st # "ok" \/ fs = <<>> THEN c ELSE Fields(Field(c, Head(fs)), Tail(fs))

Times(n, f) == [i \in 1..n |-> f]

\* The bytes that are left.
Left(c) == Len(c.buf) - c.pos

\* Counted items, each of which Item(_) reads.  An item has at least a byte, so
\* the buffer bounds how many are read before the reader waits.
Counted(c, Item(_)) ==
    Then(c, LAMBDA n :
        ForEach(n, IF n.val <= Left(n) THEN n.val ELSE Left(n) + 1, LAMBDA r, i : Item(r)))

\* What is left of r when only its position matters.
Keep(a, r) == IF r.st = "ok" THEN [r EXCEPT !.val = a.val, !.out = <<>>] ELSE r

Ends(a, st) == [a EXCEPT !.st = st]

(***************************************************************************)
(* Bodies                                                                  *)
(***************************************************************************)
\* The readers that do not look at the byte for a custom serialization.
Lenient == {"parse_block_body", "read_data_block_body", "read_raw_data_block"}

\* A block as the named reader reads it, with one byte for each value.
Block(c, reader) ==
    Then(Dimensions(InfoFields(c, reader = "read_raw_data_block")), LAMBDA d :
        Then(Columns(d, LAMBDA a, ct, custom, rows :
                 Append1(Require(a, ct # BadName /\ (custom = 0 \/ reader \in Lenient)), ct,
                         LAMBDA r : Record(r, rows, "fill"))),
             LAMBDA b : [b EXCEPT !.val = [rows |-> d.val[2], cols |-> b.val]]))

two_strings(c) == Fields(c, <<"string", "string">>)

ReadBody(c, reader) == IF reader = "two_strings" THEN two_strings(c) ELSE Block(c, reader)

(***************************************************************************)
(* Compression frames                                                      *)
(***************************************************************************)
CHECKSUM_LEN == 3
HEADER_LEN == 3
METHOD_OFFSET == CHECKSUM_LEN
Methods == {2, 130, 144}

\* header is the checksum and the header, c.val the body.
decode_frame(c, header) ==
    LET method == header[METHOD_OFFSET + 1]
        uncompressed_size == header[METHOD_OFFSET + 3]
    IN  Require(c, /\ method \in Methods
                   /\ uncompressed_size <= MaxFrameSize
                   /\ header[1] = 1
                   /\ Len(c.val) = uncompressed_size)

\* The body of the frame with header h.val.
FrameBody(h) ==
    LET compressed_size == h.val[METHOD_OFFSET + 2] IN
    IF compressed_size \notin HEADER_LEN..MaxFrameSize THEN Fail(h)
    ELSE Then(Take(h, compressed_size - HEADER_LEN, "fill"), LAMBDA b : decode_frame(b, h.val))

\* The next frame; val is its content.  ask is what the block reader waits for.
pull_next_frame(c, ask) ==
    LET h == Take(c, CHECKSUM_LEN + HEADER_LEN, "frame") IN
    IF h.st = "more" THEN [h EXCEPT !.want = [k |-> h.want.k, n |-> h.want.n, ask |-> ask]]
    ELSE Then(h, FrameBody)

\* The bytes at the start of a body, up to the method or to the end of the
\* header; a body that does not look like a frame is read as it is.
Sniffed(c, n) == Take(c, n, "frame")

LooksPlain(c) ==
    LET s == Sniffed(c, METHOD_OFFSET + 1)
        h == Sniffed(c, CHECKSUM_LEN + HEADER_LEN)
    IN  \/ s.st = "ok" /\ s.val[METHOD_OFFSET + 1] \notin Methods
        \/ h.st = "ok" /\ h.val[METHOD_OFFSET + 2] < HEADER_LEN

\* Where the sniffed bytes end once they have all arrived; that the async client
\* does not wait for them for ever is in AsyncPackets.
SniffedEnd(c) ==
    c.pos + IF Sniffed(c, METHOD_OFFSET + 1).val[METHOD_OFFSET + 1] \notin Methods
            THEN METHOD_OFFSET + 1 ELSE CHECKSUM_LEN + HEADER_LEN

\* Reads a body from the content of frames, each pulled when the ones before
\* it are used up.  f.r is what the reader came to, f.c the cursor behind the
\* frames.  What the reader leaves of the last frame, or of the sniffed bytes
\* of a plain body, is dropped with it.
RECURSIVE Framed(_, _, _)
Pulled(n, content, reader, r) ==
    IF n.st # "ok" THEN [c |-> n, r |-> r]
    ELSE Framed(Require(n, Len(content \o n.val) <= MaxBlockBytes), content \o n.val, reader)

FramedRead(c, content, reader, r) ==
    IF c.st # "ok" \/ r.st # "more" THEN [c |-> c, r |-> r]
    ELSE Pulled(pull_next_frame(c, r.want), content, reader, r)

Framed(c, content, reader) ==
    FramedRead(c, content, reader, ReadBody(Cursor(content), reader))

AfterFrames(c, f) ==
    IF f.c.st # "ok" THEN f.c
    ELSE IF f.r.st = "ok" THEN [f.c EXCEPT !.val = f.r.val, !.out = <<>>] ELSE Fail(f.c)

AfterPlain(c, r) == Then(r, LAMBDA s : [s EXCEPT !.pos = IF @ < SniffedEnd(c) THEN SniffedEnd(c) ELSE @])

DecompressingReader(c, reader) ==
    IF c.st # "ok" THEN c
    ELSE IF LooksPlain(c) THEN AfterPlain(c, ReadBody(c, reader))
    ELSE AfterFrames(c, Framed(c, <<>>, reader))

(***************************************************************************)
(* Blocks and packets                                                      *)
(***************************************************************************)
payload_bytes(b) == FoldLeft(LAMBDA n, col : n + Len(col.data), 0, b.cols)

Charged(blocks) == FoldLeft(LAMBDA n, b : n + payload_bytes(b), 0, blocks)

\* Appends the block r.val to what the loop got.  The budget is charged with
\* the decoded bytes of all blocks; above the limit the loop ends.
Got(a, r) ==
    Then(r, LAMBDA s :
        LET got == Append(a.val.got, s.val) IN
        [s EXCEPT !.st = IF Charged(got) > MaxResponseSize THEN "large" ELSE "ok",
                  !.val = [a.val EXCEPT !.got = got]])

Replied(r) == Then(r, LAMBDA s : [s EXCEPT !.val.replies = @ + 1])

Nothing == [got |-> <<>>, replies |-> 0]

Response(buf) == [Cursor(buf) EXCEPT !.val = Nothing]

\* Reads a packet with Handle(cursor, packet type).
Packet(c, Handle(_, _)) ==
    Then(Varint(c, "packet"), LAMBDA t : Handle([t EXCEPT !.val = c.val], t.val))
=============================================================================
