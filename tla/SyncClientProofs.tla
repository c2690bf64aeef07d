-------------------------- MODULE SyncClientProofs --------------------------
(***************************************************************************)
(* Proofs about SyncClient, for every number of addresses, calls and       *)
(* blocks and every budget.                                                *)
(***************************************************************************)
EXTENDS SyncClient, SequenceTheorems, TLAPS

-----------------------------------------------------------------------------
(* Predicates on sequences of packets.                                     *)

Ends   == {"end1", "end2"}
Second == {"end2", "log2"}
Final  == {"eos", "exc", "pong", "tables"}

UpKinds   == Requests \cup {"data", "last", "cancel"}
DownKinds == {"data", "log1", "log2"} \cup Ends \cup Final

Ops == {"none", "rows", "ddl", "blocks", "view", "stream", "describe", "begin",
        "ping", "tables", "drain"}

UpPackets   == [k : UpKinds, req : Nat]
DownPackets == [k : DownKinds, req : Nat]

Calls   == [pc : {"idle", "reading", "inserting", "closed"}, op : Ops, req : Nat,
            kept : Nat, then : {"none", "begin", "send"}, half : BOOLEAN]
Servers == [pc : {"idle", "query", "ddl", "insert", "skip"}, req : Nat, sent : Nat, schema : Nat]

All(s, K)  == \A i \in 1..Len(s) : s[i].k \in K
Some(s, K) == \E i \in 1..Len(s) : s[i].k \in K
Has(s, k)  == \E i \in 1..Len(s) : s[i].k = k

(* All but the end markers answers request r.                              *)
Mine(s, r) == \A i \in 1..Len(s) : s[i].k \in Ends \/ s[i].req = r

(* Behind the packet that ends a reply there are only end markers.         *)
Closing(s) == \A i, j \in 1..Len(s) : s[i].k \in Final /\ i < j => s[j].k \in Ends

(* A second half follows a first one, but perhaps the one in front.        *)
Paired(s) == \A i \in 2..Len(s) : s[i].k \in Second => s[i - 1].k \in Halved

SecondFirst(s) == Len(s) > 0 /\ s[1].k \in Second

(* What may be on its way to a server in state pc: a request comes last,   *)
(* behind it waits the client; behind the last block of an insert there    *)
(* are no more blocks.                                                     *)
Upstream(s, pc) ==
    /\ \A i \in 1..Len(s) : s[i].k \in Requests => i = Len(s)
    /\ Some(s, Requests) => pc \in {"idle", "skip"}
    /\ pc = "idle" => All(s, Requests \cup {"cancel"})
    /\ pc \in {"query", "ddl"} => All(s, {"cancel"})
    /\ \A i, j \in 1..Len(s) : s[i].k = "last" /\ i < j => s[j].k \in Requests \cup {"cancel"}
    /\ pc = "skip" /\ Some(s, Requests) => Has(s, "last")

-----------------------------------------------------------------------------
(* The inductive invariant.                                                *)

ClientTypeOK ==
    /\ setup \in [pc : {"connect", "handshake", "stop", "join", "ready", "failed"},
                  addr : Nat, result : {"none", "ok", "io", "fatal"}]
    /\ dog \in [pc : {"off", "armed", "fired", "exited"}, stop : BOOLEAN, expired : BOOLEAN]
    /\ sock \in [shut : BOOLEAN, read : {"none", "setup", "query"}, write : {"none", "setup"}]
    /\ modes \in [ok : BOOLEAN, chunked : BOOLEAN]
    /\ cl \in Calls
    /\ buf \in Seq(DownPackets) /\ down \in Seq(DownPackets) /\ up \in Seq(UpPackets)
    /\ srv \in Servers
    /\ cached \in Int /\ mixed \in BOOLEAN

(* Before the setup is over nothing was sent.                              *)
Untouched ==
    setup.pc # "ready" =>
        cl.pc = "idle" /\ buf = <<>> /\ up = <<>> /\ down = <<>> /\ srv.pc = "idle"

(* Nothing of an earlier reply is on the socket or will be.                *)
Clean ==
    /\ All(down, Ends) /\ ~SecondFirst(down) /\ Paired(down)
    /\ srv.pc \in {"idle", "skip"} /\ ~Some(up, Requests)
    /\ srv.pc = "skip" => Has(up, "last")

CleanInv == cl.pc = "idle" => buf = <<>> /\ (~sock.shut => Clean)

Live == cl.pc \in {"reading", "inserting"}

(* The reply of the call at hand, as far as it was sent, and who is to     *)
(* send the rest of it.                                                    *)
ReplyInv ==
    Live =>
        /\ Mine(buf, cl.req) /\ Mine(down, cl.req)
        /\ Closing(buf) /\ Closing(down)
        /\ Some(buf, Final) => All(down, Ends)
        /\ Some(buf, Final) \/ Some(down, Final) =>
              srv.pc \in {"idle", "skip"} /\ ~Some(up, Requests)
        /\ srv.pc \in {"query", "ddl", "insert"} => srv.req = cl.req
        /\ Some(up, Requests) => cl.pc = "reading" /\ All(buf, Ends) /\ All(down, Ends)
        /\ \A i \in 1..Len(up) : up[i].k \in Requests => up[i].req = cl.req
        /\ srv.pc = "insert" =>
              \A i \in 1..Len(up) : up[i].k \in {"data", "last"} => up[i].req = cl.req

(* Where the second half of a packet is, its first half is in front of it. *)
HalfInv ==
    Live =>
        /\ Paired(buf) /\ Paired(down)
        /\ Len(buf) > 0 /\ SecondFirst(down) => buf[Len(buf)].k \in Halved
        /\ SecondFirst(buf) => cl.half
        /\ Len(buf) = 0 /\ SecondFirst(down) => cl.half /\ cl.pc = "reading"

(* Where an insert stands on both sides.                                   *)
InsertInv ==
    /\ cl.pc = "inserting" =>
          /\ srv.pc \in {"insert", "skip"} /\ buf = <<>>
          /\ ~Has(up, "last")
    /\ cl.pc = "reading" =>
          /\ srv.pc = "skip" => Has(up, "last")
          /\ srv.pc = "insert" /\ cl.op # "begin" => Has(up, "last")
          /\ Has(up, "insert") => cl.op = "begin"
          /\ cl.op = "begin" =>
                \/ Has(up, "insert")
                \/ srv.pc = "insert" /\ up = <<>>
                \/ /\ srv.pc = "idle" /\ ~Some(up, Requests)
                   /\ ~Has(buf, "data") /\ ~Has(down, "data")

(* Only a statement that may change the schema changes it, and its call    *)
(* clears the cache.                                                       *)
Current == cached = Cold \/ cached = srv.schema

Changing == cl.pc = "reading" /\ cl.op = "ddl"

CacheInv ==
    ~unseen /\ cl.pc # "closed" =>
        /\ srv.pc = "ddl" \/ Has(up, "ddl") => Changing /\ Current
        /\ \/ Current
           \/ /\ Changing /\ ~Has(buf, "exc") /\ ~Has(down, "exc")
              /\ srv.pc \in {"idle", "skip"} /\ ~Some(up, Requests)

SessionInv ==
    /\ Upstream(up, srv.pc)
    /\ CleanInv /\ ReplyInv /\ HalfInv /\ InsertInv /\ CacheInv /\ ~mixed

(* What holds whatever befell the stream, and what holds while nothing of  *)
(* Causes did.                                                             *)
Base == ClientTypeOK /\ EscapesAlive /\ Untouched

IInv == ClientTypeOK /\ EscapesAlive /\ Untouched /\ SessionInv

ClientInv == Base /\ (spoilt = {} => SessionInv)
-----------------------------------------------------------------------------
(* Lemmas about sequences of packets.                                      *)

LEMMA EmptyPackets ==
    /\ \A K : All(<<>>, K) /\ ~Some(<<>>, K)
    /\ \A k : ~Has(<<>>, k)
    /\ \A r : Mine(<<>>, r)
    /\ Closing(<<>>) /\ Paired(<<>>) /\ ~SecondFirst(<<>>)
    /\ \A pc : Upstream(<<>>, pc)
<1>1. Len(<<>>) = 0
  BY EmptySeq
<1> QED
  BY <1>1 DEF All, Some, Has, Mine, Closing, Paired, SecondFirst, Upstream

(* write_packet appends a request when the server is through with the      *)
(* calls before or will be.                                                *)
LEMMA AppendRequest ==
    ASSUME NEW s \in Seq(UpPackets), NEW pc, Upstream(s, pc), pc \in {"idle", "skip"},
           ~Some(s, Requests), pc = "skip" => Has(s, "last"),
           NEW k \in Requests, NEW r \in Nat,
           NEW t, t = Append(s, Packet(k, r))
    PROVE  /\ t \in Seq(UpPackets) /\ Upstream(t, pc) /\ Some(t, Requests)
           /\ \A i \in 1..Len(t) : t[i].k \in Requests => t[i].req = r
           /\ Has(t, "last") <=> Has(s, "last")
           /\ Has(t, "insert") <=> k = "insert"
           /\ Has(t, "ddl") <=> k = "ddl"
<1> DEFINE e == Packet(k, r)
<1>1. e \in UpPackets /\ e.k = k /\ e.req = r /\ k \notin {"last", "cancel"}
  BY DEF Packet, UpPackets, UpKinds, Requests
<1>2. /\ t \in Seq(UpPackets) /\ Len(s) \in Nat /\ Len(t) = Len(s) + 1
      /\ \A i \in 1..Len(s) : t[i] = s[i] /\ t[i] \in UpPackets
      /\ t[Len(t)] = e
  BY <1>1, AppendProperties, LenProperties, ElementOfSeq
<1>3. \A i \in 1..Len(s) : t[i].k \notin Requests
  BY <1>2 DEF Some, Has
<1>4. \A i \in 1..Len(t) : i = Len(t) \/ i \in 1..Len(s)
  BY <1>2
<1> HIDE DEF e
<1>5. Some(t, Requests)
  BY <1>1, <1>2 DEF Some, Has
<1>6. Has(t, "last") <=> Has(s, "last")
  BY <1>1, <1>2, <1>4 DEF Some, Has
<1>7. (Has(t, "insert") <=> k = "insert") /\ (Has(t, "ddl") <=> k = "ddl")
  BY <1>1, <1>2, <1>3, <1>4 DEF Some, Has, Requests
<1>8. \A i \in 1..Len(t) : t[i].k \in Requests => i = Len(t) /\ t[i].req = r
  BY <1>1, <1>2, <1>3, <1>4
<1>9. Upstream(t, pc)
  <2>1. pc = "idle" => All(t, Requests \cup {"cancel"})
    BY <1>1, <1>2, <1>4 DEF All, Upstream
  <2>2. \A i, j \in 1..Len(t) : t[i].k = "last" /\ i < j => t[j].k \in Requests \cup {"cancel"}
    BY <1>1, <1>2, <1>4 DEF Upstream
  <2> QED
    BY <1>6, <1>8, <2>1, <2>2 DEF Upstream
<1> QED
  BY <1>2, <1>5, <1>6, <1>7, <1>8, <1>9

(* An insert in progress appends its blocks.                               *)
LEMMA AppendBlock ==
    ASSUME NEW s \in Seq(UpPackets), NEW pc, Upstream(s, pc), pc \in {"insert", "skip"},
           ~Some(s, Requests), ~Has(s, "last"),
           NEW k \in {"data", "last"}, NEW r \in Nat,
           NEW t, t = Append(s, Packet(k, r))
    PROVE  /\ t \in Seq(UpPackets) /\ Upstream(t, pc) /\ ~Some(t, Requests)
           /\ Has(t, "last") <=> k = "last"
           /\ (\A i \in 1..Len(s) : s[i].k \in {"data", "last"} => s[i].req = r)
                  => \A i \in 1..Len(t) : t[i].k \in {"data", "last"} => t[i].req = r
<1> DEFINE e == Packet(k, r)
<1>1. e \in UpPackets /\ e.k = k /\ e.req = r /\ k \notin Requests
  BY DEF Packet, UpPackets, UpKinds, Requests
<1>2. /\ t \in Seq(UpPackets) /\ Len(s) \in Nat /\ Len(t) = Len(s) + 1
      /\ \A i \in 1..Len(s) : t[i] = s[i]
      /\ t[Len(t)] = e
  BY <1>1, AppendProperties, LenProperties
<1>3. \A i \in 1..Len(t) : i = Len(t) \/ i \in 1..Len(s)
  BY <1>2
<1> HIDE DEF e
<1>4. ~Some(t, Requests)
  BY <1>1, <1>2, <1>3 DEF Some, Has
<1>5. Has(t, "last") <=> k = "last"
  BY <1>1, <1>2, <1>3 DEF Some, Has
<1>6. \A i, j \in 1..Len(t) : ~(t[i].k = "last" /\ i < j)
  BY <1>1, <1>2, <1>3 DEF Some, Has
<1>7. Upstream(t, pc)
  BY <1>4, <1>6 DEF Upstream, Some, Has
<1> QED
  BY <1>1, <1>2, <1>3, <1>4, <1>5, <1>7

(* The Cancel behind a spent budget.                                       *)
LEMMA AppendCancel ==
    ASSUME NEW s \in Seq(UpPackets), NEW pc, Upstream(s, pc), ~Some(s, Requests), NEW r \in Nat,
           NEW t, t = Append(s, Packet("cancel", r))
    PROVE  /\ t \in Seq(UpPackets) /\ Upstream(t, pc) /\ ~Some(t, Requests)
           /\ Has(t, "last") <=> Has(s, "last")
           /\ (\A i \in 1..Len(s) : s[i].k \in {"data", "last"} => s[i].req = r)
                  => \A i \in 1..Len(t) : t[i].k \in {"data", "last"} => t[i].req = r
<1> DEFINE e == Packet("cancel", r)
<1>1. e \in UpPackets /\ e.k = "cancel" /\ "cancel" \notin Requests
  BY DEF Packet, UpPackets, UpKinds, Requests
<1>2. /\ t \in Seq(UpPackets) /\ Len(s) \in Nat /\ Len(t) = Len(s) + 1
      /\ \A i \in 1..Len(s) : t[i] = s[i]
      /\ t[Len(t)] = e
  BY <1>1, AppendProperties, LenProperties
<1>3. \A i \in 1..Len(t) : i = Len(t) \/ i \in 1..Len(s)
  BY <1>2
<1> HIDE DEF e
<1>4. ~Some(t, Requests)
  BY <1>1, <1>2, <1>3 DEF Some, Has
<1>5. Has(t, "last") <=> Has(s, "last")
  BY <1>1, <1>2, <1>3 DEF Some, Has
<1>6. Upstream(t, pc)
  <2>1. pc = "idle" => All(t, Requests \cup {"cancel"})
    BY <1>1, <1>2, <1>3 DEF All, Upstream
  <2>2. pc \in {"query", "ddl"} => All(t, {"cancel"})
    BY <1>1, <1>2, <1>3 DEF All, Upstream
  <2>3. \A i, j \in 1..Len(t) : t[i].k = "last" /\ i < j => t[j].k \in Requests \cup {"cancel"}
    BY <1>1, <1>2, <1>3 DEF Upstream
  <2> QED
    BY <1>4, <2>1, <2>2, <2>3 DEF Upstream, Some, Has
<1> QED
  BY <1>1, <1>2, <1>3, <1>4, <1>5, <1>6

(* The server takes a request, and nothing is behind it.                   *)
LEMMA TakeRequest ==
    ASSUME NEW s \in Seq(UpPackets), NEW pc, Upstream(s, pc), s # <<>>, Head(s).k \in Requests
    PROVE  Tail(s) = <<>> /\ Has(s, Head(s).k) /\ Some(s, Requests) /\ Head(s) = s[1] /\ Len(s) = 1
<1>1. Len(s) \in Nat /\ Len(s) > 0 /\ Head(s) = s[1]
  BY HeadTailProperties, EmptySeq, LenProperties
<1>2. Len(s) = 1
  <2>1. 1 \in 1..Len(s) /\ s[1].k \in Requests
    BY <1>1
  <2> QED
    BY <2>1, Zenon DEF Upstream
<1>3. Tail(s) \in Seq(UpPackets) /\ Len(Tail(s)) = 0
  BY <1>2, HeadTailProperties
<1>4. Tail(s) = <<>>
  BY <1>3, EmptySeq, Zenon
<1> QED
  BY <1>1, <1>2, <1>4 DEF Some, Has

(* The server takes something else and goes from state pc to state qc.     *)
LEMMA TakeOther ==
    ASSUME NEW s \in Seq(UpPackets), NEW pc, NEW qc, Upstream(s, pc), s # <<>>,
           Head(s).k \notin Requests,
           \/ pc \in {"idle", "query"} /\ qc = "idle"
           \/ pc = "insert" /\ qc \in {"insert", "skip"} /\ Head(s).k = "data"
           \/ pc = "skip" /\ qc = "skip" /\ Head(s).k = "data"
           \/ pc \in {"insert", "skip"} /\ qc = "idle" /\ Head(s).k = "last"
    PROVE  /\ Tail(s) \in Seq(UpPackets) /\ Upstream(Tail(s), qc)
           /\ Some(Tail(s), Requests) <=> Some(s, Requests)
           /\ Has(Tail(s), "insert") <=> Has(s, "insert")
           /\ Has(Tail(s), "ddl") <=> Has(s, "ddl")
           /\ Head(s).k # "last" => (Has(Tail(s), "last") <=> Has(s, "last"))
           /\ Head(s) = s[1] /\ Len(s) > 0
           /\ \A i \in 1..Len(Tail(s)) : i + 1 \in 1..Len(s) /\ Tail(s)[i] = s[i + 1]
<1> DEFINE t == Tail(s)
<1>1. /\ Len(s) \in Nat /\ Len(s) > 0 /\ Head(s) = s[1] /\ t \in Seq(UpPackets)
      /\ Len(t) = Len(s) - 1 /\ \A i \in 1..Len(t) : i + 1 \in 1..Len(s) /\ t[i] = s[i + 1]
  BY HeadTailProperties, EmptySeq, LenProperties
<1>2. \A i \in 1..Len(s) : i = 1 \/ (i - 1 \in 1..Len(t) /\ t[i - 1] = s[i])
  BY <1>1
<1>3. Len(t) \in Nat
  BY <1>1
<1> HIDE DEF t
<1>4. /\ \A K : Head(s).k \notin K => (Some(t, K) <=> Some(s, K))
      /\ \A k : Head(s).k # k => (Has(t, k) <=> Has(s, k))
  BY <1>1, <1>2, ZenonT(60) DEF Some, Has
<1>5. Head(s).k \notin {"insert"} /\ Head(s).k \notin {"ddl"}
  BY DEF Requests
<1>6. \A i \in 1..Len(t) : t[i].k \in Requests => i = Len(t)
  BY <1>1, <1>3 DEF Upstream
<1>7. ASSUME NEW i \in 1..Len(t), NEW j \in 1..Len(t), t[i].k = "last", i < j
      PROVE  t[j].k \in Requests \cup {"cancel"}
  <2>1. i + 1 \in 1..Len(s) /\ j + 1 \in 1..Len(s) /\ i + 1 < j + 1 /\ s[i + 1].k = "last"
    BY <1>1, <1>3, <1>7
  <2>2. s[j + 1].k \in Requests \cup {"cancel"}
    BY <2>1 DEF Upstream
  <2> QED
    BY <1>1, <2>2
<1>8. Some(t, Requests) => qc \in {"idle", "skip"}
  BY <1>4 DEF Upstream
<1>9. qc = "idle" => All(t, Requests \cup {"cancel"})
  <2>1. CASE pc \in {"idle", "query"}
    BY <1>1, <2>1 DEF Upstream, All
  <2>2. CASE Head(s).k = "last"
    BY <1>1, <1>3, <2>2 DEF Upstream, All
  <2> QED
    BY <2>1, <2>2
<1>10. qc = "skip" /\ Some(t, Requests) => Has(t, "last")
  <2> SUFFICES ASSUME qc = "skip", Some(t, Requests) PROVE Has(t, "last")
    OBVIOUS
  <2>1. Head(s).k = "data" /\ Some(s, Requests)
    BY <1>4
  <2>2. pc = "skip"
    BY <2>1 DEF Upstream
  <2>3. Has(s, "last")
    BY <2>1, <2>2 DEF Upstream
  <2> QED
    BY <1>4, <2>1, <2>3
<1>11. Upstream(t, qc)
  BY <1>6, <1>7, <1>8, <1>9, <1>10 DEF Upstream
<1> QED
  BY <1>1, <1>4, <1>5, <1>11 DEF t

(* A packet of the server, on the wire.                                    *)
LEMMA WirePackets ==
    ASSUME modes \in [ok : BOOLEAN, chunked : BOOLEAN],
           NEW k \in {"data", "log"} \cup Final, NEW r \in Nat
    PROVE  /\ Wire(k, r) \in Seq(DownPackets) /\ Len(Wire(k, r)) \in Nat /\ Len(Wire(k, r)) > 0
           /\ Wire(k, r)[1].k = IF k = "log" THEN "log1" ELSE k
           /\ \A i \in 2..Len(Wire(k, r)) : Wire(k, r)[i].k \in Ends \cup (IF k = "log" THEN {"log2"} ELSE {})
           /\ Mine(Wire(k, r), r) /\ Paired(Wire(k, r))
<1> DEFINE p(x) == Packet(x, r)
<1>1. \A x \in DownKinds : p(x) \in DownPackets /\ p(x).k = x /\ p(x).req = r
  BY DEF Packet, DownPackets
<1>2. {"data", "log1", "log2", "end1", "end2"} \cup Final \subseteq DownKinds /\ "log" \notin Final
  BY DEF DownKinds, Ends, Final
<1> DEFINE a == IF k = "log" THEN <<p("log1"), p("log2")>> ELSE <<p(k)>>
           b == IF modes.chunked THEN <<p("end1"), p("end2")>> ELSE <<>>
           w == Wire(k, r)
<1>3. w = a \o b
  BY DEF Wire
<1> HIDE DEF p, w
<1>4. /\ a \in Seq(DownPackets) /\ Len(a) = (IF k = "log" THEN 2 ELSE 1)
      /\ a[1] = p(IF k = "log" THEN "log1" ELSE k) /\ (k = "log" => a[2] = p("log2"))
  BY <1>1, <1>2
<1>5. /\ b \in Seq(DownPackets) /\ Len(b) = (IF modes.chunked THEN 2 ELSE 0)
      /\ modes.chunked => b[1] = p("end1") /\ b[2] = p("end2")
  BY <1>1, <1>2
<1> HIDE DEF a, b
<1>6. /\ w \in Seq(DownPackets) /\ Len(w) = Len(a) + Len(b)
      /\ \A i \in 1..Len(w) : w[i] = IF i <= Len(a) THEN a[i] ELSE b[i - Len(a)]
  BY <1>3, <1>4, <1>5, ConcatProperties, ZenonT(60)
<1>7. w[1] = p(IF k = "log" THEN "log1" ELSE k) /\ (k = "log" => w[2] = p("log2"))
  BY <1>4, <1>5, <1>6
<1>8. /\ modes.chunked => w[Len(a) + 1] = p("end1") /\ w[Len(a) + 2] = p("end2")
      /\ Len(w) = Len(a) + (IF modes.chunked THEN 2 ELSE 0)
  BY <1>4, <1>5, <1>6
<1>9. \A i \in 1..Len(w) : i \in 1..Len(a) \/ (modes.chunked /\ i \in {Len(a) + 1, Len(a) + 2})
  BY <1>4, <1>8
<1>10. \A i \in 2..Len(w) : w[i].k \in Ends \cup (IF k = "log" THEN {"log2"} ELSE {})
  BY <1>1, <1>2, <1>4, <1>7, <1>8, <1>9 DEF Ends
<1>11. Mine(w, r)
  BY <1>1, <1>2, <1>4, <1>7, <1>8, <1>9 DEF Mine
<1>12. Paired(w)
  BY <1>1, <1>2, <1>4, <1>7, <1>8, <1>9 DEF Paired, Second, Halved, Final
<1>13. Len(w) \in Nat /\ Len(w) > 0 /\ w[1].k = IF k = "log" THEN "log1" ELSE k
  BY <1>1, <1>2, <1>4, <1>7, <1>8
<1> QED
  BY <1>6, <1>10, <1>11, <1>12, <1>13 DEF w

(* The server appends a packet to what is on its way.                      *)
LEMMA AppendReply ==
    ASSUME modes \in [ok : BOOLEAN, chunked : BOOLEAN],
           NEW s \in Seq(DownPackets), ~Some(s, Final),
           NEW k \in {"data", "log"} \cup Final, NEW r \in Nat,
           NEW t, t = s \o Wire(k, r)
    PROVE  /\ t \in Seq(DownPackets)
           /\ Mine(s, r) => Mine(t, r)
           /\ Closing(t)
           /\ Some(t, Final) <=> k \in Final
           /\ Has(t, "data") <=> Has(s, "data") \/ k = "data"
           /\ Has(t, "exc") <=> k = "exc"
           /\ Paired(s) => Paired(t)
           /\ SecondFirst(t) <=> SecondFirst(s)
<1> DEFINE w == Wire(k, r)
<1>1. /\ w \in Seq(DownPackets) /\ Len(w) \in Nat /\ Len(w) > 0
      /\ w[1].k = IF k = "log" THEN "log1" ELSE k
      /\ \A i \in 2..Len(w) : w[i].k \in Ends \cup (IF k = "log" THEN {"log2"} ELSE {})
      /\ Mine(w, r) /\ Paired(w)
  BY WirePackets, Zenon
<1>2. t = s \o w
  OBVIOUS
<1> HIDE DEF w
<1>3. /\ t \in Seq(DownPackets) /\ Len(s) \in Nat /\ Len(t) = Len(s) + Len(w)
      /\ \A i \in 1..Len(s) : t[i] = s[i]
      /\ \A i \in 1..Len(w) : t[Len(s) + i] = w[i]
  <2>1. /\ t \in Seq(DownPackets) /\ Len(s) \in Nat /\ Len(t) = Len(s) + Len(w)
        /\ \A i \in 1..Len(s) + Len(w) : t[i] = IF i <= Len(s) THEN s[i] ELSE w[i - Len(s)]
    BY <1>1, <1>2, ConcatProperties, LenProperties
  <2> QED
    BY <1>1, <2>1
<1>4. \A i \in 1..Len(t) : i \in 1..Len(s) \/ (i - Len(s) \in 1..Len(w) /\ t[i] = w[i - Len(s)])
  <2> SUFFICES ASSUME NEW i \in 1..Len(t), i \notin 1..Len(s)
               PROVE  i - Len(s) \in 1..Len(w) /\ t[i] = w[i - Len(s)]
    OBVIOUS
  <2>1. i - Len(s) \in 1..Len(w) /\ Len(s) + (i - Len(s)) = i
    BY <1>1, <1>3
  <2> QED
    BY <1>3, <2>1
<1>5. k \notin Ends /\ k \notin Second /\ "log" \notin Final /\ Final \cap (Ends \cup {"log1", "log2", "data"}) = {}
  BY DEF Ends, Second, Final
<1>6. \A i \in 1..Len(w) : w[i].k \in Final => i = 1 /\ k \in Final
  BY <1>1, <1>5
<1>7. Mine(s, r) => Mine(t, r)
  BY <1>1, <1>3, <1>4 DEF Mine
<1>8. Some(t, Final) <=> k \in Final
  <2>1. k \in Final => Some(t, Final)
    <3>1. Len(s) + 1 \in 1..Len(t) /\ t[Len(s) + 1] = w[1]
      BY <1>1, <1>3
    <3> QED
      BY <1>1, <1>5, <3>1, ZenonT(60) DEF Some, Has
  <2> QED
    BY <1>3, <1>4, <1>6, <2>1, Zenon DEF Some, Has
<1>9. Closing(t)
  <2> SUFFICES ASSUME NEW i \in 1..Len(t), NEW j \in 1..Len(t), t[i].k \in Final, i < j
               PROVE  t[j].k \in Ends
    BY DEF Closing
  <2>1. i = Len(s) + 1 /\ k \in Final
    BY <1>3, <1>4, <1>6 DEF Some, Has
  <2>2. j - Len(s) \in 2..Len(w) /\ t[j] = w[j - Len(s)]
    BY <1>1, <1>3, <1>4, <2>1
  <2> QED
    BY <1>1, <1>5, <2>1, <2>2, Zenon
<1>10. Has(t, "data") <=> Has(s, "data") \/ k = "data"
  <2>1. \A i \in 1..Len(w) : w[i].k = "data" => i = 1 /\ k = "data"
    BY <1>1 DEF Ends
  <2>2. Len(s) + 1 \in 1..Len(t) /\ t[Len(s) + 1] = w[1]
    BY <1>1, <1>3, SMTT(60)
  <2>3. k = "data" => Has(t, "data")
    BY <1>1, <2>2 DEF Some, Has
  <2>4. Has(s, "data") => Has(t, "data")
    BY <1>1, <1>3 DEF Some, Has
  <2> QED
    BY <1>3, <1>4, <2>1, <2>3, <2>4 DEF Some, Has
<1>11. Has(t, "exc") <=> k = "exc"
  <2>1. \A i \in 1..Len(w) : w[i].k = "exc" => i = 1 /\ k = "exc"
    BY <1>1 DEF Ends
  <2>2. Len(s) + 1 \in 1..Len(t) /\ t[Len(s) + 1] = w[1]
    BY <1>1, <1>3, SMTT(60)
  <2>3. k = "exc" => Has(t, "exc")
    BY <1>1, <2>2 DEF Some, Has
  <2>4. ~Has(s, "exc")
    BY DEF Some, Has, Final
  <2> QED
    BY <1>3, <1>4, <2>1, <2>3, <2>4 DEF Some, Has
<1>12. w[1].k \notin Second
  BY <1>1, <1>5 DEF Second
<1>13. Paired(s) => Paired(t)
  <2> SUFFICES ASSUME Paired(s), NEW i \in 2..Len(t), t[i].k \in Second
               PROVE  t[i - 1].k \in Halved
    BY DEF Paired
  <2>1. CASE i \in 1..Len(s)
    BY <1>3, <2>1 DEF Paired
  <2>2. CASE i - Len(s) \in 1..Len(w) /\ t[i] = w[i - Len(s)]
    <3>1. i - Len(s) \in 2..Len(w) /\ t[i - 1] = w[i - Len(s) - 1]
      <4>1. i - Len(s) # 1
        BY <1>12, <2>2
      <4>2. i - Len(s) - 1 \in 1..Len(w) /\ Len(s) + (i - Len(s) - 1) = i - 1
        BY <1>1, <1>3, <2>2, <4>1
      <4>3. t[Len(s) + (i - Len(s) - 1)] = w[i - Len(s) - 1]
        BY <1>3, <4>2, Zenon
      <4>4. i - Len(s) \in 2..Len(w)
        BY <1>1, <1>3, <2>2, <4>1
      <4> QED
        BY <4>2, <4>3, <4>4, Zenon
    <3> QED
      BY <1>1, <2>2, <3>1 DEF Paired
  <2> QED
    BY <1>3, <1>4, <2>1, <2>2
<1>14. SecondFirst(t) <=> SecondFirst(s)
  <2>1. CASE Len(s) = 0
    <3>1. t[1] = w[1]
      BY <1>1, <1>3, <2>1
    <3> QED
      BY <1>12, <2>1, <3>1 DEF SecondFirst
  <2>2. CASE Len(s) > 0
    BY <1>1, <1>3, <2>2 DEF SecondFirst
  <2> QED
    BY <1>3, <2>1, <2>2
<1> QED
  BY <1>3, <1>7, <1>8, <1>9, <1>10, <1>11, <1>13, <1>14

(* A reader takes a packet from its buffer.                                *)
LEMMA ReadPacket ==
    ASSUME NEW s \in Seq(DownPackets), s # <<>>
    PROVE  /\ Tail(s) \in Seq(DownPackets) /\ Head(s) \in DownPackets /\ Head(s) = s[1]
           /\ Len(s) \in Nat /\ Len(s) > 0 /\ Len(Tail(s)) = Len(s) - 1
           /\ Len(Tail(s)) > 0 => Tail(s)[Len(Tail(s))] = s[Len(s)]
           /\ \A K : (Some(Tail(s), K) => Some(s, K)) /\ (Head(s).k \in K => Some(s, K))
           /\ \A k : (Has(Tail(s), k) => Has(s, k)) /\ Has(s, Head(s).k)
           /\ \A K : All(s, K) => All(Tail(s), K) /\ Head(s).k \in K
           /\ \A r : Mine(s, r) => Mine(Tail(s), r) /\ (Head(s).k \in Ends \/ Head(s).req = r)
           /\ Closing(s) => Closing(Tail(s))
           /\ Paired(s) => Paired(Tail(s)) /\ (SecondFirst(Tail(s)) => Head(s).k \in Halved)
           /\ SecondFirst(s) <=> Head(s).k \in Second
<1> DEFINE t == Tail(s)
<1>1. /\ Len(s) \in Nat /\ Len(s) > 0 /\ Head(s) = s[1] /\ t \in Seq(DownPackets)
      /\ Len(t) = Len(s) - 1 /\ \A i \in 1..Len(t) : i + 1 \in 1..Len(s) /\ t[i] = s[i + 1]
      /\ Head(s) \in DownPackets
  BY HeadTailProperties, EmptySeq, LenProperties
<1>2. Len(t) \in Nat /\ 1 \in 1..Len(s)
  BY <1>1
<1> HIDE DEF t
<1>3. Len(t) > 0 => t[Len(t)] = s[Len(s)]
  BY <1>1, <1>2
<1>4. /\ \A K : (Some(t, K) => Some(s, K)) /\ (Head(s).k \in K => Some(s, K))
      /\ \A k : (Has(t, k) => Has(s, k)) /\ Has(s, Head(s).k)
  BY <1>1, <1>2 DEF Some, Has
<1>5. \A K : All(s, K) => All(t, K) /\ Head(s).k \in K
  BY <1>1, <1>2 DEF All
<1>6. \A r : Mine(s, r) => Mine(t, r) /\ (Head(s).k \in Ends \/ Head(s).req = r)
  BY <1>1, <1>2 DEF Mine
<1>7. Closing(s) => Closing(t)
  <2> SUFFICES ASSUME Closing(s), NEW i \in 1..Len(t), NEW j \in 1..Len(t), t[i].k \in Final, i < j
               PROVE  t[j].k \in Ends
    BY DEF Closing
  <2>1. i + 1 \in 1..Len(s) /\ j + 1 \in 1..Len(s) /\ i + 1 < j + 1 /\ s[i + 1].k \in Final
    BY <1>1, <1>2
  <2>2. s[j + 1].k \in Ends
    BY <2>1 DEF Closing
  <2> QED
    BY <1>1, <2>2
<1>8. Paired(s) => Paired(t) /\ (SecondFirst(t) => Head(s).k \in Halved)
  <2> SUFFICES ASSUME Paired(s) PROVE Paired(t) /\ (SecondFirst(t) => Head(s).k \in Halved)
    OBVIOUS
  <2>1. ASSUME NEW i \in 2..Len(t), t[i].k \in Second PROVE t[i - 1].k \in Halved
    <3>1. i + 1 \in 2..Len(s) /\ s[i + 1].k \in Second /\ t[i - 1] = s[(i + 1) - 1]
      BY <1>1, <1>2, <2>1, SMTT(60)
    <3> QED
      BY <3>1 DEF Paired
  <2>2. ASSUME SecondFirst(t) PROVE Head(s).k \in Halved
    <3>1. 2 \in 2..Len(s) /\ s[2].k \in Second /\ s[2 - 1] = Head(s)
      BY <1>1, <1>2, <2>2 DEF SecondFirst
    <3> QED
      BY <3>1 DEF Paired
  <2> QED
    BY <2>1, <2>2 DEF Paired
<1>9. SecondFirst(s) <=> Head(s).k \in Second
  BY <1>1 DEF SecondFirst
<1> QED
  BY <1>1, <1>3, <1>4, <1>5, <1>6, <1>7, <1>8, <1>9 DEF t

(* The packet that ends a reply has only end markers behind it.            *)
LEMMA ReadFinal ==
    ASSUME NEW s \in Seq(DownPackets), s # <<>>, Closing(s), Head(s).k \in Final
    PROVE  All(Tail(s), Ends)
<1>1. /\ Len(s) \in Nat /\ Len(s) > 0 /\ Head(s) = s[1]
      /\ Len(Tail(s)) = Len(s) - 1 /\ \A i \in 1..Len(Tail(s)) : i + 1 \in 1..Len(s) /\ Tail(s)[i] = s[i + 1]
  BY HeadTailProperties, EmptySeq, LenProperties
<1>2. ASSUME NEW i \in 1..Len(Tail(s)) PROVE Tail(s)[i].k \in Ends
  <2>1. 1 \in 1..Len(s) /\ i + 1 \in 1..Len(s) /\ 1 < i + 1 /\ s[1].k \in Final
    BY <1>1
  <2> QED
    BY <1>1, <2>1 DEF Closing
<1> QED
  BY <1>2 DEF All

(* A reader moves the first n packets on their way into its empty buffer.  *)
Fills(n) == buf' = SubSeq(down, 1, n) /\ down' = SubSeq(down, n + 1, Len(down))

LEMMA FillsBuffer ==
    ASSUME down \in Seq(DownPackets), NEW n \in 1..Len(down), Fills(n)
    PROVE  /\ buf' \in Seq(DownPackets) /\ down' \in Seq(DownPackets)
           /\ Len(buf') = n /\ buf'[n] = down[n] /\ buf' # <<>>
           /\ \A r : Mine(down, r) => Mine(buf', r) /\ Mine(down', r)
           /\ \A K : All(down, K) => All(buf', K) /\ All(down', K)
           /\ \A K : (Some(buf', K) => Some(down, K)) /\ (Some(down', K) => Some(down, K))
           /\ \A k : (Has(buf', k) => Has(down, k)) /\ (Has(down', k) => Has(down, k))
           /\ Closing(down) => Closing(buf') /\ Closing(down') /\ (Some(buf', Final) => All(down', Ends))
           /\ Paired(down) => Paired(buf') /\ Paired(down') /\ (SecondFirst(down') => buf'[n].k \in Halved)
           /\ SecondFirst(buf') => SecondFirst(down)
<1>1. /\ Len(down) \in Nat /\ n \in Nat /\ buf' \in Seq(DownPackets) /\ down' \in Seq(DownPackets)
      /\ Len(buf') = n /\ Len(down') = Len(down) - n
      /\ \A i \in 1..n : buf'[i] = down[i]
      /\ \A i \in 1..Len(down') : down'[i] = down[n + i]
  <2>1. Len(down) \in Nat /\ n \in Nat /\ n <= Len(down)
    BY LenProperties
  <2>2. \A i \in 1..n : down[i] \in DownPackets
    BY <2>1, ElementOfSeq
  <2>3. \A i \in n + 1..Len(down) : down[i] \in DownPackets
    BY <2>1, ElementOfSeq
  <2>4. buf' \in Seq(DownPackets) /\ Len(buf') = n /\ \A i \in 1..n : buf'[i] = down[i]
    BY <2>1, <2>2, SubSeqProperties DEF Fills
  <2>5. down' \in Seq(DownPackets) /\ Len(down') = Len(down) - n /\ \A i \in 1..Len(down') : down'[i] = down[n + i]
    BY <2>1, <2>3, SubSeqProperties DEF Fills
  <2> QED
    BY <2>1, <2>4, <2>5
<1>2. /\ Len(down') \in Nat
      /\ \A i \in 1..Len(buf') : i \in 1..Len(down) /\ buf'[i] = down[i]
      /\ \A i \in 1..Len(down') : n + i \in 1..Len(down) /\ down'[i] = down[n + i]
  BY <1>1
<1>3. \A r : Mine(down, r) => Mine(buf', r) /\ Mine(down', r)
  BY <1>2, ZenonT(60) DEF Mine
<1>4. \A K : All(down, K) => All(buf', K) /\ All(down', K)
  BY <1>2, Zenon DEF All
<1>5. /\ \A K : (Some(buf', K) => Some(down, K)) /\ (Some(down', K) => Some(down, K))
      /\ \A k : (Has(buf', k) => Has(down, k)) /\ (Has(down', k) => Has(down, k))
  BY <1>2, Zenon DEF Some, Has
<1>6. Closing(down) => Closing(buf') /\ Closing(down') /\ (Some(buf', Final) => All(down', Ends))
  <2> SUFFICES ASSUME Closing(down)
               PROVE  Closing(buf') /\ Closing(down') /\ (Some(buf', Final) => All(down', Ends))
    OBVIOUS
  <2>1. Closing(buf')
    BY <1>2, Zenon DEF Closing
  <2>2. ASSUME NEW i \in 1..Len(down'), NEW j \in 1..Len(down'), down'[i].k \in Final, i < j
        PROVE  down'[j].k \in Ends
    <3>1. n + i \in 1..Len(down) /\ n + j \in 1..Len(down) /\ n + i < n + j
      BY <1>1, <1>2, <2>2
    <3>2. down[n + i].k \in Final
      BY <1>2, <2>2
    <3> QED
      BY <1>2, <3>1, <3>2, Zenon DEF Closing
  <2>3. ASSUME NEW i \in 1..Len(buf'), NEW j \in 1..Len(down'), buf'[i].k \in Final
        PROVE  down'[j].k \in Ends
    <3>1. i \in 1..Len(down) /\ n + j \in 1..Len(down) /\ i < n + j
      BY <1>1, <1>2
    <3>2. down[i].k \in Final
      BY <1>2, <2>3, Zenon
    <3> QED
      BY <1>2, <3>1, <3>2, Zenon DEF Closing
  <2> QED
    BY <2>1, <2>2, <2>3 DEF Closing, Some, Has, All
<1>7. Paired(down) => Paired(buf') /\ Paired(down') /\ (SecondFirst(down') => buf'[n].k \in Halved)
  <2> SUFFICES ASSUME Paired(down)
               PROVE  Paired(buf') /\ Paired(down') /\ (SecondFirst(down') => buf'[n].k \in Halved)
    OBVIOUS
  <2>1. ASSUME NEW i \in 2..Len(buf'), buf'[i].k \in Second PROVE buf'[i - 1].k \in Halved
    <3>1. i \in 2..Len(down) /\ down[i] = buf'[i] /\ down[i - 1] = buf'[i - 1]
      BY <1>1
    <3> QED
      BY <2>1, <3>1 DEF Paired
  <2>2. ASSUME NEW i \in 2..Len(down'), down'[i].k \in Second PROVE down'[i - 1].k \in Halved
    <3>1. n + i \in 2..Len(down) /\ n + (i - 1) = (n + i) - 1 /\ i \in 1..Len(down') /\ i - 1 \in 1..Len(down')
      BY <1>1, <1>2
    <3>2. down[n + i] = down'[i] /\ down[(n + i) - 1] = down'[i - 1]
      BY <1>2, <3>1
    <3> QED
      BY <2>2, <3>1, <3>2, Zenon DEF Paired
  <2>3. ASSUME SecondFirst(down') PROVE buf'[n].k \in Halved
    <3>1. n + 1 \in 2..Len(down) /\ 1 \in 1..Len(down') /\ n \in 1..n /\ (n + 1) - 1 = n
      BY <1>1, <1>2, <2>3 DEF SecondFirst
    <3>2. down[n + 1].k \in Second /\ down[(n + 1) - 1] = buf'[n]
      BY <1>1, <2>3, <3>1 DEF SecondFirst
    <3> QED
      BY <3>1, <3>2 DEF Paired
  <2> QED
    BY <2>1, <2>2, <2>3 DEF Paired
<1>8. SecondFirst(buf') => SecondFirst(down)
  <2>1. Len(buf') > 0 /\ Len(down) > 0 /\ buf'[1] = down[1]
    BY <1>1
  <2> QED
    BY <2>1 DEF SecondFirst
<1>9. buf' # <<>> /\ buf'[n] = down[n]
  <2>1. n \in 1..n /\ Len(buf') # 0
    BY <1>1
  <2>2. buf' # <<>>
    BY <1>1, <2>1, EmptySeq
  <2> QED
    BY <1>1, <2>1, <2>2
<1> QED
  BY <1>1, <1>3, <1>4, <1>5, <1>6, <1>7, <1>8, <1>9

-----------------------------------------------------------------------------
(* The steps of the setup and of the client.                               *)

LEMMA InitIInv == Init => IInv
<1> SUFFICES ASSUME Init PROVE IInv
  OBVIOUS
<1>1. modes \in [ok : BOOLEAN, chunked : BOOLEAN]
  <2>1. PICK era \in {"no addendum", "no chunks", "chunks"},
             server \in Capabilities, client \in Capabilities :
                modes = negotiate_chunked_transport(era, server, client)
    BY Zenon DEF Init, SetupInit
  <2>2. /\ server.chunked \in BOOLEAN /\ server.optional \in BOOLEAN
        /\ client.chunked \in BOOLEAN /\ client.optional \in BOOLEAN
    BY Zenon DEF Capabilities
  <2>3. choose_chunked_mode(server, client) \in [ok : BOOLEAN, chunked : BOOLEAN]
    BY <2>2, ZenonT(60) DEF choose_chunked_mode
  <2> QED
    BY <2>1, <2>2, <2>3, ZenonT(60) DEF negotiate_chunked_transport
<1>2. ClientTypeOK
  <2>1. buf \in Seq(DownPackets) /\ down \in Seq(DownPackets) /\ up \in Seq(UpPackets)
    BY EmptySeq DEF Init
  <2>2. cached \in Int /\ mixed \in BOOLEAN
    <3>1. cached = Cold /\ mixed \in BOOLEAN
      BY Zenon DEF Init
    <3>2. Cold \in Int
      BY DEF Cold
    <3> QED
      BY <3>1, <3>2
  <2>3. cl \in Calls /\ srv \in Servers
    BY DEF Init, Calls, Servers, Ops
  <2> QED
    BY <1>1, <2>1, <2>2, <2>3, ZenonT(60) DEF Init, SetupInit, ClientTypeOK
<1>3. EscapesAlive /\ Untouched
  BY Zenon DEF Init, SetupInit, EscapesAlive, Untouched
<1>4. SessionInv
  BY EmptyPackets
     DEF Init, SessionInv, CleanInv, Clean, ReplyInv, HalfInv, InsertInv, CacheInv, Live, Current
<1> QED
  BY <1>2, <1>3, <1>4 DEF IInv

SetupTypeOK ==
    /\ setup \in [pc : {"connect", "handshake", "stop", "join", "ready", "failed"},
                  addr : Nat, result : {"none", "ok", "io", "fatal"}]
    /\ dog \in [pc : {"off", "armed", "fired", "exited"}, stop : BOOLEAN, expired : BOOLEAN]
    /\ sock \in [shut : BOOLEAN, read : {"none", "setup", "query"}, write : {"none", "setup"}]

LEMMA SetupKeeps ==
    ASSUME SetupTypeOK, EscapesAlive, SetupNext
    PROVE  SetupTypeOK' /\ EscapesAlive'
<1>1. /\ setup' \in [pc : {"connect", "handshake", "stop", "join", "ready", "failed"},
                     addr : Nat, result : {"none", "ok", "io", "fatal"}]
      /\ dog' \in [pc : {"off", "armed", "fired", "exited"}, stop : BOOLEAN, expired : BOOLEAN]
      /\ sock' \in [shut : BOOLEAN, read : {"none", "setup", "query"}, write : {"none", "setup"}]
  <2> USE DEF SetupTypeOK
  <2>0. ASSUME NextAddr
        PROVE  setup' \in [pc : {"connect", "handshake", "stop", "join", "ready", "failed"},
                           addr : Nat, result : {"none", "ok", "io", "fatal"}]
    <3>1. /\ setup' = [setup EXCEPT !.pc = setup'.pc, !.addr = setup.addr + 1, !.result = "none"]
          /\ setup'.pc \in {"connect", "failed"} /\ setup.addr + 1 \in Nat
      BY <2>0 DEF NextAddr
    <3> QED
      BY <3>1, Zenon
  <2>1. CASE ConnectFails
    BY <2>0, <2>1 DEF ConnectFails
  <2>2. CASE Connected
    BY <2>2 DEF Connected
  <2>3. CASE Handshake
    BY <2>3, ZenonT(60) DEF Handshake, Answer
  <2>4. CASE SendStop
    BY <2>4, Zenon DEF SendStop
  <2>5. CASE Finish
    <3>1. sock' \in [shut : BOOLEAN, read : {"none", "setup", "query"}, write : {"none", "setup"}]
      BY <2>5, Zenon DEF Finish
    <3>2. NextAddr \/ \E pc \in {"ready", "failed"} : setup' = [setup EXCEPT !.pc = pc]
      BY <2>5 DEF Finish
    <3>3. dog' = dog
      BY <2>5 DEF Finish
    <3> QED
      BY <2>0, <3>1, <3>2, <3>3
  <2>6. CASE Watchdog
    BY <2>6, ZenonT(60) DEF Watchdog, DogStops, DogTimesOut, DogShuts
  <2> QED
    BY <2>1, <2>2, <2>3, <2>4, <2>5, <2>6 DEF SetupNext
<1>2. EscapesAlive'
  <2> USE DEF SetupTypeOK, EscapesAlive
  <2>1. CASE ConnectFails
    BY <2>1 DEF ConnectFails, NextAddr
  <2>2. CASE Connected
    BY <2>2 DEF Connected
  <2>3. CASE Handshake
    BY <2>3 DEF Handshake
  <2>4. CASE SendStop
    BY <2>4 DEF SendStop
  <2>5. CASE Finish
    <3>1. dog' = dog /\ dog.pc = "exited" /\ sock'.read = "query" /\ sock'.write = "none"
      BY <2>5 DEF Finish, Joined
    <3>2. ASSUME dog.expired PROVE setup'.pc # "ready"
      <4>1. NextAddr
        BY <2>5, <3>2 DEF Finish
      <4> QED
        BY <4>1 DEF NextAddr
    <3> QED
      BY <3>1, <3>2
  <2>6. CASE Watchdog
    BY <2>6 DEF Watchdog, DogStops, DogTimesOut, DogShuts
  <2> QED
    BY <2>1, <2>2, <2>3, <2>4, <2>5, <2>6 DEF SetupNext
<1> QED
  BY <1>1, <1>2 DEF SetupTypeOK

(* What SetupNext does to the socket and to the progress of the setup.     *)
LEMMA SetupBase ==
    ASSUME Base, SetupNext, UNCHANGED session
    PROVE  /\ Base'
           /\ sock.shut /\ ~sock'.shut => setup.pc # "ready"
<1> USE DEF Base
<1>1. /\ setup' \in [pc : {"connect", "handshake", "stop", "join", "ready", "failed"},
                     addr : Nat, result : {"none", "ok", "io", "fatal"}]
      /\ dog' \in [pc : {"off", "armed", "fired", "exited"}, stop : BOOLEAN, expired : BOOLEAN]
      /\ sock' \in [shut : BOOLEAN, read : {"none", "setup", "query"}, write : {"none", "setup"}]
      /\ modes' = modes
  <2>1. SetupTypeOK /\ EscapesAlive
    BY DEF ClientTypeOK, SetupTypeOK
  <2>2. SetupTypeOK'
    BY <2>1, SetupKeeps, Zenon
  <2>3. modes' = modes
    BY Zenon DEF SetupNext, ConnectFails, Connected, Handshake, SendStop, Finish, Watchdog, DogStops,
           DogTimesOut, DogShuts
  <2> QED
    BY <2>2, <2>3 DEF SetupTypeOK
<1>2. EscapesAlive'
  <2>1. SetupTypeOK /\ EscapesAlive
    BY Zenon DEF ClientTypeOK, SetupTypeOK
  <2> QED
    BY <2>1, SetupKeeps, Zenon
<1>3. /\ setup.pc = "ready" => setup' = setup
      /\ sock.shut /\ ~sock'.shut => setup.pc # "ready"
  BY ZenonT(60) DEF ClientTypeOK, SetupNext, ConnectFails, Connected, Handshake, SendStop, Finish, Watchdog,
         DogStops, DogTimesOut, DogShuts, NextAddr
<1>4. /\ cl' = cl /\ buf' = buf /\ cached' = cached /\ up' = up /\ down' = down
      /\ srv' = srv /\ mixed' = mixed
  BY DEF session
<1>5. ClientTypeOK'
  BY <1>1, <1>4 DEF ClientTypeOK
<1>6. Untouched'
  BY <1>3, <1>4 DEF Untouched
<1> QED
  BY <1>2, <1>3, <1>5, <1>6

LEMMA SetupStep ==
    ASSUME IInv, SetupNext, UNCHANGED session
    PROVE  IInv'
<1> USE DEF IInv
<1>1. Base' /\ (sock.shut /\ ~sock'.shut => setup.pc # "ready")
  BY SetupBase DEF Base
<1>2. /\ cl' = cl /\ buf' = buf /\ cached' = cached /\ up' = up /\ down' = down
      /\ srv' = srv /\ mixed' = mixed /\ unseen' = unseen
  BY DEF session
<1>3. CleanInv'
  <2>1. CASE sock.shut /\ ~sock'.shut
    BY <1>1, <1>2, <2>1, EmptyPackets DEF Untouched, CleanInv, Clean
  <2>2. CASE ~(sock.shut /\ ~sock'.shut)
    BY <1>2, <2>2, SMTT(60) DEF CleanInv, Clean, SessionInv
  <2> QED
    BY <2>1, <2>2
<1>4. ReplyInv' /\ HalfInv' /\ InsertInv' /\ CacheInv'
  <2>1. ReplyInv'
    BY <1>2, Zenon DEF SessionInv, ReplyInv, Live
  <2>2. HalfInv'
    BY <1>2, Zenon DEF SessionInv, HalfInv, Live
  <2>3. InsertInv'
    BY <1>2, Zenon DEF SessionInv, InsertInv, Live
  <2>4. CacheInv'
    BY <1>2, Zenon DEF SessionInv, CacheInv, Live, Current, Changing
  <2> QED
    BY <2>1, <2>2, <2>3, <2>4
<1> QED
  BY <1>1, <1>2, <1>3, <1>4 DEF SessionInv, Base

(* What a stretch of end markers is to the call that follows.              *)
LEMMA OnlyEnds ==
    ASSUME NEW s, All(s, Ends)
    PROVE  /\ \A r : Mine(s, r)
           /\ Closing(s) /\ ~Some(s, Final) /\ ~Has(s, "data") /\ ~Has(s, "exc")
BY DEF All, Mine, Closing, Some, Has, Ends, Final

(* A step of the session: the setup is over and stays so.                  *)
LEMMA SetupOver ==
    ASSUME ClientTypeOK, EscapesAlive, setup.pc = "ready", UNCHANGED <<setup, dog>>,
           sock' = sock \/ sock' = [sock EXCEPT !.shut = sock'.shut]
    PROVE  EscapesAlive' /\ Untouched'
BY DEF ClientTypeOK, EscapesAlive, Untouched

LEMMA TypesKept ==
    ASSUME ClientTypeOK, UNCHANGED <<setup, dog, modes>>,
           sock' = sock \/ (sock' = [sock EXCEPT !.shut = sock'.shut] /\ sock'.shut \in BOOLEAN),
           cl' \in Calls, buf' \in Seq(DownPackets), down' \in Seq(DownPackets),
           up' \in Seq(UpPackets), srv' \in Servers, cached' \in Int, mixed' \in BOOLEAN
    PROVE  ClientTypeOK'
BY DEF ClientTypeOK

(* A call that ends with an error of the stream leaves no client behind.   *)
LEMMA CloseStep ==
    ASSUME IInv, setup.pc = "ready", UNCHANGED <<setupVars, cached, up, down, srv>>,
           mixed' = FALSE, cl' \in Calls, cl'.pc = "closed", buf' \in Seq(DownPackets)
    PROVE  IInv'
<1> USE DEF IInv
<1>1. EscapesAlive' /\ Untouched'
  BY SetupOver DEF setupVars
<1>2. ClientTypeOK'
  BY ZenonT(60) DEF ClientTypeOK, setupVars
<1>3. SessionInv'
  BY DEF SessionInv, CleanInv, ReplyInv, HalfInv, InsertInv, CacheInv, Live
<1> QED
  BY <1>1, <1>2, <1>3

(* The lemmas above for the packets of the two directions: the client      *)
(* sends one, the server takes one, the reader takes one.                  *)
Sends(k, r) == up' = Append(up, Packet(k, r))

LEMMA SendsRequest ==
    ASSUME up \in Seq(UpPackets), NEW pc, Upstream(up, pc), pc \in {"idle", "skip"},
           ~Some(up, Requests), pc = "skip" => Has(up, "last"),
           NEW k \in Requests, NEW r \in Nat, Sends(k, r)
    PROVE  /\ up' \in Seq(UpPackets) /\ Upstream(up', pc) /\ Some(up', Requests)
           /\ \A i \in 1..Len(up') : up'[i].k \in Requests => up'[i].req = r
           /\ Has(up, "last") => Has(up', "last")
           /\ Has(up', "insert") <=> k = "insert"
           /\ Has(up', "ddl") <=> k = "ddl"
<1>1. up' \in Seq(UpPackets)
  BY AppendRequest DEF Sends
<1>2. Upstream(up', pc)
  BY AppendRequest, ZenonT(60) DEF Sends
<1>3. Some(up', Requests)
  BY AppendRequest, Zenon DEF Sends
<1>4. \A i \in 1..Len(up') : up'[i].k \in Requests => up'[i].req = r
  BY AppendRequest DEF Sends
<1>5. Has(up, "last") => Has(up', "last")
  BY AppendRequest, Zenon DEF Sends
<1>6. Has(up', "insert") <=> k = "insert"
  BY AppendRequest, Zenon DEF Sends
<1>7. Has(up', "ddl") <=> k = "ddl"
  BY AppendRequest, Zenon DEF Sends
<1> QED
  BY <1>1, <1>2, <1>3, <1>4, <1>5, <1>6, <1>7

LEMMA SendsBlock ==
    ASSUME up \in Seq(UpPackets), NEW pc, Upstream(up, pc), pc \in {"insert", "skip"},
           ~Some(up, Requests), ~Has(up, "last"),
           NEW k \in {"data", "last"}, NEW r \in Nat, Sends(k, r)
    PROVE  /\ up' \in Seq(UpPackets) /\ Upstream(up', pc) /\ ~Some(up', Requests)
           /\ Has(up', "last") <=> k = "last"
           /\ (\A i \in 1..Len(up) : up[i].k \in {"data", "last"} => up[i].req = r)
                  => \A i \in 1..Len(up') : up'[i].k \in {"data", "last"} => up'[i].req = r
<1>1. up' \in Seq(UpPackets)
  BY AppendBlock DEF Sends
<1>2. Upstream(up', pc)
  BY AppendBlock, Zenon DEF Sends
<1>3. ~Some(up', Requests)
  BY AppendBlock, Zenon DEF Sends
<1>4. Has(up', "last") <=> k = "last"
  BY AppendBlock, Zenon DEF Sends
<1>5. ASSUME \A i \in 1..Len(up) : up[i].k \in {"data", "last"} => up[i].req = r
      PROVE  \A i \in 1..Len(up') : up'[i].k \in {"data", "last"} => up'[i].req = r
  BY <1>5, AppendBlock DEF Sends
<1> QED
  BY <1>1, <1>2, <1>3, <1>4, <1>5

LEMMA SendsCancel ==
    ASSUME up \in Seq(UpPackets), NEW pc, Upstream(up, pc), ~Some(up, Requests),
           NEW r \in Nat, Sends("cancel", r)
    PROVE  /\ up' \in Seq(UpPackets) /\ Upstream(up', pc) /\ ~Some(up', Requests)
           /\ Has(up, "last") => Has(up', "last")
           /\ (\A i \in 1..Len(up) : up[i].k \in {"data", "last"} => up[i].req = r)
                  => \A i \in 1..Len(up') : up'[i].k \in {"data", "last"} => up'[i].req = r
<1>1. up' \in Seq(UpPackets)
  BY AppendCancel DEF Sends
<1>2. Upstream(up', pc)
  BY AppendCancel, Zenon DEF Sends
<1>3. ~Some(up', Requests)
  BY AppendCancel, Zenon DEF Sends
<1>4. Has(up, "last") => Has(up', "last")
  BY AppendCancel, ZenonT(60) DEF Sends
<1>5. ASSUME \A i \in 1..Len(up) : up[i].k \in {"data", "last"} => up[i].req = r
      PROVE  \A i \in 1..Len(up') : up'[i].k \in {"data", "last"} => up'[i].req = r
  BY <1>5, AppendCancel DEF Sends
<1> QED
  BY <1>1, <1>2, <1>3, <1>4, <1>5

(* A reader that did not stop inside a packet left no second half behind.  *)
LEMMA NoHalfLeft ==
    ASSUME buf \in Seq(DownPackets), buf # <<>>, buf[Len(buf)].k \notin Halved,
           Live, HalfInv
    PROVE  ~SecondFirst(down)
<1>1. Len(buf) \in Nat /\ Len(buf) > 0
  BY ReadPacket
<1> QED
  BY <1>1 DEF HalfInv

LEMMA DropsWhole ==
    ASSUME NEW causes, DropReader(causes), spoilt' = {}, buf # <<>>
    PROVE  buf' = <<>> /\ causes = {} /\ buf[Len(buf)].k \notin Halved
BY Zenon DEF DropReader

(* A call, or the insert of insert() behind its DESCRIBE, starts with      *)
(* request k on a socket that is clean.                                    *)
Begins(k, r) ==
    /\ cl' \in Calls /\ cl'.pc = "reading" /\ cl'.req = r
    /\ k = "insert" <=> cl'.op = "begin"
    /\ buf' = <<>> /\ mixed' = FALSE /\ cached' \in Int
    /\ ~unseen' => Current' /\ (k = "ddl" => cl'.op = "ddl")
    /\ UNCHANGED <<setupVars, down, srv>>

LEMMA RequestStep ==
    ASSUME IInv, setup.pc = "ready", Clean,
           NEW k \in Requests, NEW r \in Nat, Begins(k, r), Sends(k, r)
    PROVE  IInv'
<1> USE DEF IInv
<1>1. EscapesAlive' /\ Untouched'
  BY SetupOver DEF setupVars, Begins
<1>2. up \in Seq(UpPackets) /\ Upstream(up, srv.pc)
  BY DEF SessionInv, ClientTypeOK
<1>3. /\ up' \in Seq(UpPackets) /\ Upstream(up', srv.pc) /\ Some(up', Requests)
      /\ \A i \in 1..Len(up') : up'[i].k \in Requests => up'[i].req = r
      /\ Has(up, "last") => Has(up', "last")
      /\ Has(up', "insert") <=> k = "insert"
      /\ Has(up', "ddl") <=> k = "ddl"
  <2>1. /\ ~Some(up, Requests) /\ srv.pc \in {"idle", "skip"}
        /\ srv.pc = "skip" => Has(up, "last")
    BY DEF Clean
  <2> QED
    BY <1>2, <2>1, SendsRequest
<1>4. ClientTypeOK'
  <2>1. buf' \in Seq(DownPackets) /\ mixed' \in BOOLEAN
    BY EmptySeq, ZenonT(60) DEF Begins
  <2> QED
    BY <1>3, <2>1 DEF ClientTypeOK, setupVars, Begins
<1>5. /\ \A K : All(buf', K) /\ ~Some(buf', K)
      /\ \A q : ~Has(buf', q)
      /\ \A q : Mine(buf', q)
      /\ Closing(buf') /\ Paired(buf') /\ ~SecondFirst(buf') /\ Len(buf') = 0
  BY EmptyPackets, EmptySeq DEF Begins
<1>6. ReplyInv'
  BY <1>3, <1>5, OnlyEnds DEF ReplyInv, Clean, Begins
<1>7. HalfInv'
  BY <1>5 DEF HalfInv, Clean, Begins
<1>8. InsertInv'
  BY <1>3 DEF InsertInv, Clean, Begins
<1>9. CacheInv'
  BY <1>3 DEF CacheInv, Changing, Clean, Begins
<1> QED
  BY <1>1, <1>3, <1>4, <1>6, <1>7, <1>8, <1>9 DEF SessionInv, CleanInv, Begins

LEMMA WriteStep ==
    ASSUME IInv, Idle, NEW op \in Ops, NEW k \in Requests, NEW then \in {"none", "begin", "send"},
           k = "insert" <=> op = "begin", ~unseen' => ~unseen /\ (k = "ddl" => op = "ddl"),
           write_packet(op, k, then)
    PROVE  IInv'
<1> USE DEF IInv
<1>1. /\ setup.pc = "ready" /\ cl.pc = "idle" /\ cl \in Calls /\ buf \in Seq(DownPackets)
      /\ mixed = FALSE /\ cached \in Int /\ cl.req \in Nat
  BY DEF Idle, ClientTypeOK, SessionInv, Calls
<1>2. CASE sock.shut
  <2>1. cl' = [cl EXCEPT !.pc = "closed"] /\ UNCHANGED <<setupVars, buf, cached, up, down, srv, mixed>>
    BY <1>2 DEF write_packet
  <2>2. cl' \in Calls /\ cl'.pc = "closed"
    BY <1>1, <2>1 DEF Calls
  <2> QED
    BY <1>1, <2>1, <2>2, CloseStep, Zenon
<1>3. CASE ~sock.shut
  <2>1. PICK r \in Nat : r = cl.req + 1
    BY <1>1
  <2>2. /\ cl' = [cl EXCEPT !.pc = "reading", !.op = op, !.req = r,
                            !.kept = 0, !.then = then, !.half = FALSE]
        /\ Sends(k, r)
        /\ UNCHANGED <<setupVars, buf, cached, down, srv, mixed>>
    BY <1>3, <2>1 DEF write_packet, Sends
  <2>3. cl' \in Calls /\ cl'.pc = "reading" /\ cl'.op = op /\ cl'.req = r
    BY <1>1, <2>2, ZenonT(60) DEF Calls
  <2>4. Clean /\ buf = <<>>
    BY <1>1, <1>3 DEF SessionInv, CleanInv
  <2>5. ~unseen' => Current'
    BY <1>1, <2>2 DEF SessionInv, CacheInv, Current, Changing
  <2>6. Begins(k, r)
    BY <1>1, <2>2, <2>3, <2>4, <2>5 DEF Begins
  <2> QED
    BY <1>1, <2>2, <2>4, <2>6, RequestStep
<1> QED
  BY <1>2, <1>3

(* Every call that starts with a request.                                  *)
Starts ==
    \/ Execute \/ Query \/ QueryWithBlockView \/ StartStream \/ Ping \/ TablesStatus
    \/ SchemaForTable \/ BeginInsert \/ Insert

LEMMA StartsCall ==
    ASSUME Starts
    PROVE  /\ Idle /\ spoilt' = spoilt
           /\ \E op \in Ops, k \in Requests, then \in {"none", "begin", "send"} :
                /\ write_packet(op, k, then)
                /\ k = "insert" <=> op = "begin"
                /\ ~unseen' => ~unseen /\ (k = "ddl" => op = "ddl")
<1>1. /\ Idle /\ spoilt' = spoilt
      /\ \/ /\ unseen' = unseen
            /\ \/ write_packet("rows", "query", "none") \/ write_packet("ddl", "ddl", "none")
               \/ write_packet("blocks", "query", "none") \/ write_packet("view", "query", "none")
               \/ write_packet("stream", "query", "none") \/ write_packet("ping", "ping", "none")
               \/ write_packet("tables", "tables", "none") \/ write_packet("describe", "query", "none")
               \/ write_packet("describe", "query", "begin") \/ write_packet("begin", "insert", "none")
               \/ write_packet("begin", "insert", "send")
         \/ unseen' = TRUE /\ write_packet("blocks", "ddl", "none")
  BY DEF Starts, Call, Execute, Query, QueryWithBlockView, StartStream, Ping, TablesStatus,
         SchemaForTable, BeginInsert, Insert
<1>2. /\ {"rows", "ddl", "blocks", "view", "stream", "ping", "tables", "describe", "begin"} \subseteq Ops
      /\ {"query", "ddl", "ping", "tables", "insert"} \subseteq Requests
  BY DEF Ops, Requests
<1> QED
  BY <1>1, <1>2

LEMMA StartStep ==
    ASSUME IInv, Starts
    PROVE  IInv'
BY StartsCall, WriteStep

LEMMA ClearStep ==
    ASSUME IInv, ClearSchemaCache
    PROVE  IInv'
<1> USE DEF IInv
<1>1. /\ setup.pc = "ready" /\ cl.pc = "idle" /\ cached' = Cold
      /\ UNCHANGED <<setupVars, cl, buf, up, down, srv, mixed, unseen>>
  BY DEF ClearSchemaCache, Idle
<1>2. EscapesAlive' /\ Untouched'
  BY <1>1, SetupOver DEF setupVars
<1>3. cached' \in Int
  BY <1>1 DEF Cold
<1>4. ClientTypeOK'
  BY <1>1, <1>3, SMTT(60) DEF ClientTypeOK, setupVars
<1>5. CleanInv' /\ ReplyInv' /\ HalfInv' /\ InsertInv'
  BY <1>1 DEF SessionInv, CleanInv, Clean, ReplyInv, HalfInv, InsertInv, Live, setupVars
<1>6. CacheInv'
  BY <1>1 DEF SessionInv, CacheInv, Current, Changing
<1> QED
  BY <1>1, <1>2, <1>4, <1>5, <1>6 DEF SessionInv

(* send_data where it asks for no schema, and end_insert.                  *)
LEMMA BlockStep ==
    ASSUME IInv, spoilt' = {}, SendData \/ EndInsert
    PROVE  IInv'
<1> USE DEF IInv
<1>1. PICK k \in {"data", "last"}, r \in Nat :
        /\ cl.pc = "inserting" /\ r = cl.req /\ Sends(k, r)
        /\ UNCHANGED <<setupVars, buf, cached, down, srv, mixed, unseen>>
        /\ \/ k = "data" /\ cl' = [cl EXCEPT !.kept = @ + 1]
           \/ k = "last" /\ cl' = [cl EXCEPT !.pc = "reading", !.op = "rows", !.half = FALSE]
  <2>1. cl.req \in Nat
    BY DEF ClientTypeOK, Calls
  <2>2. SendData => cl.pc = "inserting" /\ WriteBlock
    <3> SUFFICES ASSUME SendData PROVE cl.pc = "inserting" /\ WriteBlock
      OBVIOUS
    <3>1. PICK named \in BOOLEAN : SendBlock(named)
      BY Zenon DEF SendData
    <3>2. ~(named /\ cached = Cold)
      BY <3>1, Zenon DEF SendBlock
    <3> QED
      BY <3>1, <3>2, Zenon DEF SendBlock
  <2> QED
    BY <2>1, <2>2 DEF EndInsert, WriteBlock, Sends
<1>2. /\ cl \in Calls /\ up \in Seq(UpPackets) /\ Upstream(up, srv.pc) /\ setup.pc = "ready"
      /\ srv.pc \in {"insert", "skip"} /\ buf = <<>> /\ ~Has(up, "last") /\ ~Some(up, Requests)
      /\ mixed = FALSE /\ Len(buf) = 0
  BY <1>1, EmptySeq DEF ClientTypeOK, SessionInv, InsertInv, ReplyInv, Live, Untouched
<1>3. /\ cl' \in Calls /\ cl'.req = r
      /\ k = "data" => cl'.pc = "inserting"
      /\ k = "last" => cl'.pc = "reading" /\ cl'.op = "rows"
  <2>1. CASE k = "data"
    <3>1. cl' = [cl EXCEPT !.kept = cl.kept + 1] /\ cl.kept + 1 \in Nat /\ cl.pc = "inserting"
      BY <1>1, <1>2, <2>1 DEF Calls
    <3> QED
      BY <1>1, <1>2, <2>1, <3>1 DEF Calls
  <2>2. CASE k = "last"
    <3>1. cl' = [cl EXCEPT !.pc = "reading", !.op = "rows", !.half = FALSE]
      BY <1>1, <2>2
    <3> QED
      BY <1>1, <1>2, <2>2, <3>1, ZenonT(60) DEF Calls, Ops
  <2> QED
    BY <2>1, <2>2
<1>4. /\ up' \in Seq(UpPackets) /\ Upstream(up', srv.pc) /\ ~Some(up', Requests)
      /\ Has(up', "last") <=> k = "last"
      /\ (\A i \in 1..Len(up) : up[i].k \in {"data", "last"} => up[i].req = r)
             => \A i \in 1..Len(up') : up'[i].k \in {"data", "last"} => up'[i].req = r
  BY <1>1, <1>2, SendsBlock
<1>5. ~Has(up', "insert") /\ ~Has(up', "ddl") /\ \A i \in 1..Len(up') : up'[i].k \notin Requests
  BY <1>4 DEF Some, Has, Requests
<1>6. EscapesAlive' /\ Untouched'
  BY <1>1, <1>2, SetupOver DEF setupVars
<1>7. ClientTypeOK'
  BY <1>1, <1>3, <1>4 DEF ClientTypeOK, setupVars
<1>8. ReplyInv'
  BY <1>1, <1>3, <1>4, <1>5 DEF SessionInv, ReplyInv, Live
<1>9. HalfInv'
  <2>1. ~SecondFirst(down) /\ Paired(buf) /\ Paired(down) /\ ~SecondFirst(buf)
    BY <1>1, <1>2 DEF SessionInv, HalfInv, Live, SecondFirst
  <2> QED
    BY <1>1, <1>2, <2>1 DEF HalfInv
<1>10. InsertInv'
  BY <1>1, <1>2, <1>3, <1>4, <1>5 DEF InsertInv
<1>11. CacheInv'
  BY <1>1, <1>2, <1>3, <1>5 DEF SessionInv, CacheInv, Current, Changing
<1>12. CleanInv'
  BY <1>1, <1>3 DEF CleanInv
<1> QED
  BY <1>1, <1>2, <1>4, <1>6, <1>7, <1>8, <1>9, <1>10, <1>11, <1>12 DEF SessionInv

-----------------------------------------------------------------------------
(* The steps of a reader.                                                  *)

LEMMA FillStep ==
    ASSUME IInv, Fill
    PROVE  IInv'
<1> USE DEF IInv
<1>1. /\ cl.pc = "reading" /\ buf = <<>> /\ Len(buf) = 0 /\ setup.pc = "ready"
      /\ down \in Seq(DownPackets) /\ Len(down) \in Nat
      /\ UNCHANGED <<setupVars, cl, cached, up, srv, mixed, unseen>>
  BY EmptySeq, LenProperties DEF Fill, ClientTypeOK, Untouched
<1>2. PICK n \in 1..Len(down) : Fills(n)
  <2>1. Len(down) > 0
    BY <1>1, EmptySeq DEF Fill
  <2> QED
    BY <1>1, <2>1 DEF Fill, Fills, ReadAhead
<1>3. /\ buf' \in Seq(DownPackets) /\ down' \in Seq(DownPackets)
      /\ Len(buf') = n /\ buf'[n] = down[n] /\ buf' # <<>>
      /\ \A r : Mine(down, r) => Mine(buf', r) /\ Mine(down', r)
      /\ \A K : All(down, K) => All(buf', K) /\ All(down', K)
      /\ \A K : (Some(buf', K) => Some(down, K)) /\ (Some(down', K) => Some(down, K))
      /\ \A k : (Has(buf', k) => Has(down, k)) /\ (Has(down', k) => Has(down, k))
      /\ Closing(down) => Closing(buf') /\ Closing(down') /\ (Some(buf', Final) => All(down', Ends))
      /\ Paired(down) => Paired(buf') /\ Paired(down') /\ (SecondFirst(down') => buf'[n].k \in Halved)
      /\ SecondFirst(buf') => SecondFirst(down)
  BY <1>1, <1>2, FillsBuffer
<1>4. EscapesAlive' /\ Untouched'
  BY <1>1, SetupOver DEF setupVars
<1>5. ClientTypeOK'
  BY <1>1, <1>3, SMTT(60) DEF ClientTypeOK, setupVars
<1>6. ReplyInv'
  BY <1>1, <1>3, ZenonT(60) DEF SessionInv, ReplyInv, Live
<1>7. HalfInv'
  <2>1. Paired(down) /\ (SecondFirst(down) => cl.half) /\ cl' = cl
    BY <1>1, Zenon DEF SessionInv, HalfInv, Live
  <2>2. /\ Paired(buf') /\ Paired(down') /\ (SecondFirst(down') => buf'[n].k \in Halved)
        /\ SecondFirst(buf') => cl'.half
        /\ Len(buf') = n /\ buf'[n] = down[n]
    BY <1>1, <1>3, <2>1, Zenon
  <2>3. n \in Nat /\ n # 0
    BY <1>1, <1>2
  <2> QED
    BY <2>2, <2>3 DEF HalfInv
<1>8. InsertInv'
  BY <1>1, <1>3 DEF SessionInv, InsertInv
<1>9. CacheInv'
  BY <1>1, <1>3 DEF SessionInv, CacheInv, Current, Changing
<1>10. CleanInv'
  BY <1>1 DEF CleanInv
<1> QED
  BY <1>1, <1>4, <1>5, <1>6, <1>7, <1>8, <1>9, <1>10 DEF SessionInv

(* The packet at hand is one of this call.                                 *)
LEMMA OwnPacket ==
    ASSUME IInv, NEW ks, Next1(ks)
    PROVE  /\ mixed' = FALSE /\ cl.pc = "reading" /\ Live /\ buf # <<>> /\ Head(buf).k \in ks
           /\ setup.pc = "ready" /\ UNCHANGED <<setup, dog, peer, modes, down, srv, unseen>>
           /\ cl \in Calls /\ buf \in Seq(DownPackets) /\ cl.req \in Nat
<1> USE DEF IInv
<1>1. /\ cl.pc = "reading" /\ Live /\ buf # <<>> /\ Head(buf).k \in ks /\ setup.pc = "ready"
      /\ UNCHANGED <<setup, dog, peer, modes, down, srv, unseen>>
      /\ cl \in Calls /\ buf \in Seq(DownPackets) /\ cl.req \in Nat /\ mixed = FALSE
  BY DEF Next1, Live, ClientTypeOK, Untouched, SessionInv, Calls
<1>2. /\ Head(buf).k \in Ends \/ Head(buf).req = cl.req
      /\ Head(buf).k \in Second => cl.half
  <2>1. Mine(buf, cl.req) /\ (SecondFirst(buf) => cl.half)
    BY <1>1, ZenonT(60) DEF SessionInv, ReplyInv, HalfInv
  <2>2. /\ Mine(buf, cl.req) => Head(buf).k \in Ends \/ Head(buf).req = cl.req
        /\ SecondFirst(buf) <=> Head(buf).k \in Second
    BY <1>1, ReadPacket
  <2> QED
    BY <2>1, <2>2, Zenon
<1>3. Foreign(Head(buf)) = FALSE
  BY <1>2 DEF Foreign, Ends, Second
<1>4. mixed' = FALSE
  BY <1>1, <1>3, Zenon DEF Next1
<1> QED
  BY <1>1, <1>4, ZenonT(60)

(* The call reads on.                                                      *)
Reads == buf' = Tail(buf)

LEMMA ReadsPacket ==
    ASSUME buf \in Seq(DownPackets), buf # <<>>, Reads
    PROVE  /\ buf' \in Seq(DownPackets)
           /\ Len(buf) \in Nat /\ Len(buf) > 0 /\ Len(buf') = Len(buf) - 1 /\ Head(buf) = buf[1]
           /\ Len(buf') > 0 => buf'[Len(buf')] = buf[Len(buf)]
           /\ \A K : (Some(buf', K) => Some(buf, K)) /\ (Head(buf).k \in K => Some(buf, K))
           /\ \A k : (Has(buf', k) => Has(buf, k)) /\ Has(buf, Head(buf).k)
           /\ \A K : All(buf, K) => All(buf', K) /\ Head(buf).k \in K
           /\ \A r : Mine(buf, r) => Mine(buf', r)
           /\ Closing(buf) => Closing(buf')
           /\ Paired(buf) => Paired(buf') /\ (SecondFirst(buf') => Head(buf).k \in Halved)
<1>1. PICK t : t = Tail(buf)
  BY ZenonT(60)
<1>2. buf' = t
  BY <1>1 DEF Reads
<1>3. /\ t \in Seq(DownPackets)
      /\ Len(buf) \in Nat /\ Len(buf) > 0 /\ Len(t) = Len(buf) - 1 /\ Head(buf) = buf[1]
  BY <1>1, ReadPacket
<1>4. Len(t) > 0 => t[Len(t)] = buf[Len(buf)]
  BY <1>1, ReadPacket
<1>5. \A K : (Some(t, K) => Some(buf, K)) /\ (Head(buf).k \in K => Some(buf, K))
  BY <1>1, ReadPacket
<1>6. \A k : (Has(t, k) => Has(buf, k)) /\ Has(buf, Head(buf).k)
  BY <1>1, ReadPacket
<1>7. \A K : All(buf, K) => All(t, K) /\ Head(buf).k \in K
  BY <1>1, ReadPacket
<1>8. \A r : Mine(buf, r) => Mine(t, r)
  BY <1>1, ReadPacket
<1>9. Closing(buf) => Closing(t)
  BY <1>1, ReadPacket
<1>10. Paired(buf) => Paired(t) /\ (SecondFirst(t) => Head(buf).k \in Halved)
  BY <1>1, ReadPacket
<1> QED
  BY <1>2, <1>3, <1>4, <1>5, <1>6, <1>7, <1>8, <1>9, <1>10

Goes ==
    /\ cl.pc = "reading" /\ buf # <<>> /\ Reads
    /\ cl' \in Calls /\ cl'.pc = "reading" /\ cl'.req = cl.req
    /\ Head(buf).k \in Halved => cl'.half
    /\ mixed' = FALSE
    /\ UNCHANGED <<setupVars, cached, down, srv, unseen>>

LEMMA GoesHalf ==
    ASSUME IInv, Goes
    PROVE  HalfInv'
<1>1. /\ buf \in Seq(DownPackets) /\ Live /\ HalfInv /\ buf # <<>> /\ Reads /\ down' = down
      /\ cl'.pc = "reading" /\ (Head(buf).k \in Halved => cl'.half)
  BY DEF IInv, SessionInv, ClientTypeOK, Live, Goes
<1>2. /\ Len(buf) \in Nat /\ Len(buf) > 0 /\ Len(buf') = Len(buf) - 1 /\ Head(buf) = buf[1]
      /\ Len(buf') > 0 => buf'[Len(buf')] = buf[Len(buf)]
      /\ Paired(buf) => Paired(buf') /\ (SecondFirst(buf') => Head(buf).k \in Halved)
  BY <1>1, ReadsPacket
<1>3. Paired(buf') /\ Paired(down') /\ (SecondFirst(buf') => cl'.half)
  BY <1>1, <1>2 DEF HalfInv
<1>4. Len(buf') > 0 /\ SecondFirst(down') => buf'[Len(buf')].k \in Halved
  BY <1>1, <1>2 DEF HalfInv
<1>5. Len(buf') = 0 /\ SecondFirst(down') => cl'.half /\ cl'.pc = "reading"
  <2> SUFFICES ASSUME Len(buf') = 0, SecondFirst(down) PROVE Head(buf).k \in Halved
    BY <1>1
  <2>1. buf[Len(buf)].k \in Halved /\ Len(buf) = 1
    BY <1>1, <1>2 DEF HalfInv
  <2> QED
    BY <1>2, <2>1
<1> QED
  BY <1>3, <1>4, <1>5 DEF HalfInv

(* An end marker, a log, or a block that the call keeps or skips.          *)
LEMMA GoesStep ==
    ASSUME IInv, Goes, cl'.op = cl.op, up' = up
    PROVE  IInv'
<1> USE DEF IInv
<1>1. /\ buf \in Seq(DownPackets) /\ Live /\ buf # <<>> /\ Reads /\ cl.pc = "reading"
      /\ setup.pc = "ready" /\ UNCHANGED <<setupVars, cached, down, srv, unseen>>
      /\ cl' \in Calls /\ cl'.pc = "reading" /\ cl'.req = cl.req /\ mixed' = FALSE
  BY DEF ClientTypeOK, Live, Goes, Untouched
<1>2. /\ buf' \in Seq(DownPackets)
      /\ \A K : Some(buf', K) => Some(buf, K)
      /\ \A k : Has(buf', k) => Has(buf, k)
      /\ \A K : All(buf, K) => All(buf', K)
      /\ \A r : Mine(buf, r) => Mine(buf', r)
      /\ Closing(buf) => Closing(buf')
  BY <1>1, ReadsPacket
<1>3. EscapesAlive' /\ Untouched'
  BY <1>1, SetupOver DEF setupVars
<1>4. ClientTypeOK'
  BY <1>1, <1>2, ZenonT(60) DEF ClientTypeOK, setupVars
<1>5. ReplyInv'
  BY <1>1, <1>2 DEF SessionInv, ReplyInv
<1>6. HalfInv'
  BY GoesHalf
<1>7. InsertInv'
  BY <1>1, <1>2, Zenon DEF SessionInv, InsertInv
<1>8. CacheInv'
  BY <1>1, <1>2 DEF SessionInv, CacheInv, Current, Changing
<1>9. CleanInv'
  BY <1>1, Zenon DEF CleanInv
<1> QED
  BY <1>1, <1>3, <1>4, <1>5, <1>6, <1>7, <1>8, <1>9 DEF SessionInv

(* The Cancel of a spent budget; the drain reads on.                       *)
LEMMA BreachStep ==
    ASSUME IInv, Goes, Head(buf).k = "data", cl.op \in {"blocks", "describe"}, cl'.op = "drain",
           NEW r \in Nat, r = cl.req, Sends("cancel", r)
    PROVE  IInv'
<1> USE DEF IInv
<1>1. /\ buf \in Seq(DownPackets) /\ Live /\ buf # <<>> /\ Reads /\ cl.pc = "reading"
      /\ setup.pc = "ready" /\ UNCHANGED <<setupVars, cached, down, srv, unseen>>
      /\ cl' \in Calls /\ cl'.pc = "reading" /\ cl'.req = cl.req /\ mixed' = FALSE
      /\ up \in Seq(UpPackets) /\ Upstream(up, srv.pc)
  BY DEF ClientTypeOK, Live, Goes, Untouched, SessionInv
<1>2. /\ buf' \in Seq(DownPackets)
      /\ \A K : Some(buf', K) => Some(buf, K)
      /\ \A K : All(buf, K) => All(buf', K) /\ Head(buf).k \in K
      /\ \A q : Mine(buf, q) => Mine(buf', q)
      /\ Closing(buf) => Closing(buf')
  BY <1>1, ReadsPacket, ZenonT(60)
<1>3. ~Some(up, Requests)
  <2>1. ~All(buf, Ends)
    BY <1>2, Zenon DEF Ends
  <2> QED
    BY <1>1, <2>1 DEF SessionInv, ReplyInv
<1>4. /\ up' \in Seq(UpPackets) /\ Upstream(up', srv.pc) /\ ~Some(up', Requests)
      /\ Has(up, "last") => Has(up', "last")
      /\ (\A i \in 1..Len(up) : up[i].k \in {"data", "last"} => up[i].req = r)
             => \A i \in 1..Len(up') : up'[i].k \in {"data", "last"} => up'[i].req = r
  BY <1>1, <1>3, SendsCancel, Zenon
<1>5. ~Has(up', "insert") /\ ~Has(up', "ddl") /\ \A i \in 1..Len(up') : up'[i].k \notin Requests
  BY <1>4 DEF Some, Has, Requests
<1>6. EscapesAlive' /\ Untouched'
  BY <1>1, SetupOver DEF setupVars
<1>7. ClientTypeOK'
  <2>1. ClientTypeOK /\ down \in Seq(DownPackets) /\ srv \in Servers /\ cached \in Int
    BY DEF ClientTypeOK
  <2>2. down' \in Seq(DownPackets) /\ srv' \in Servers /\ cached' \in Int
    BY <1>1, <2>1
  <2>3. mixed' \in BOOLEAN
    BY <1>1, ZenonT(60)
  <2>4. UNCHANGED <<setup, dog, modes>> /\ sock' = sock
    BY <1>1, ZenonT(60) DEF setupVars
  <2> HIDE DEF IInv
  <2> QED
    BY <1>1, <1>2, <1>4, <2>1, <2>2, <2>3, <2>4, TypesKept
<1>8. ReplyInv'
  BY <1>1, <1>2, <1>4, <1>5 DEF SessionInv, ReplyInv
<1>9. HalfInv'
  BY GoesHalf
<1>10. InsertInv'
  BY <1>1, <1>4, <1>5, Zenon DEF SessionInv, InsertInv
<1>11. CacheInv'
  BY <1>1, <1>5 DEF SessionInv, CacheInv, Current, Changing
<1>12. CleanInv'
  BY <1>1 DEF CleanInv
<1> QED
  BY <1>1, <1>4, <1>6, <1>7, <1>8, <1>9, <1>10, <1>11, <1>12, ZenonT(60) DEF SessionInv

(* The packet that ends a reply leaves the socket clean.                   *)
LEMMA EndedReply ==
    ASSUME IInv, cl.pc = "reading", buf # <<>>, Head(buf).k \in Final,
           buf[Len(buf)].k \notin Halved
    PROVE  Clean /\ srv.pc # "ddl" /\ ~Has(up, "ddl")
<1> USE DEF IInv
<1>1. buf \in Seq(DownPackets) /\ Live /\ HalfInv
  BY Zenon DEF ClientTypeOK, Live, SessionInv
<1>2. Some(buf, Final)
  BY <1>1, ReadPacket
<1>3. ~SecondFirst(down)
  BY <1>1, NoHalfLeft, ZenonT(60)
<1>4. All(down, Ends) /\ srv.pc \in {"idle", "skip"} /\ ~Some(up, Requests)
  BY <1>1, <1>2 DEF SessionInv, ReplyInv
<1>5. Paired(down) /\ (srv.pc = "skip" => Has(up, "last"))
  BY <1>1 DEF SessionInv, HalfInv, InsertInv
<1>6. ~Has(up, "ddl")
  BY <1>4 DEF Some, Has, Requests
<1> QED
  BY <1>3, <1>4, <1>5, <1>6 DEF Clean

(* A call returns and leaves the client idle.                              *)
LEMMA ReturnStep ==
    ASSUME IInv, setup.pc = "ready", cl' \in Calls, cl'.pc = "idle", buf' = <<>>, mixed' = FALSE,
           cached' \in Int, ~unseen => Current' /\ srv.pc # "ddl" /\ ~Has(up, "ddl"),
           UNCHANGED <<setup, dog, peer, modes, up, down, srv, unseen>>,
           \/ sock' = sock /\ Clean
           \/ sock' = [sock EXCEPT !.shut = TRUE]
    PROVE  IInv'
<1> USE DEF IInv
<1>1. sock' = sock \/ (sock' = [sock EXCEPT !.shut = sock'.shut] /\ sock'.shut \in BOOLEAN)
  BY Zenon DEF ClientTypeOK
<1>2. EscapesAlive' /\ Untouched'
  BY <1>1, SetupOver
<1>3. ClientTypeOK'
  <2>1. /\ ClientTypeOK /\ down' \in Seq(DownPackets) /\ up' \in Seq(UpPackets) /\ srv' \in Servers
        /\ buf' \in Seq(DownPackets)
    BY EmptySeq DEF ClientTypeOK
  <2>2. mixed' \in BOOLEAN
    BY Zenon
  <2>3. UNCHANGED <<setup, dog, modes>>
    OBVIOUS
  <2> HIDE DEF IInv
  <2> QED
    BY <1>1, <2>1, <2>2, <2>3, TypesKept
<1>4. CleanInv'
  <2>1. CASE sock' = sock /\ Clean
    BY <2>1 DEF CleanInv, Clean
  <2>2. CASE sock' = [sock EXCEPT !.shut = TRUE]
    BY <2>2 DEF CleanInv, ClientTypeOK
  <2> QED
    BY <2>1, <2>2
<1>5. ReplyInv' /\ HalfInv' /\ InsertInv'
  BY DEF ReplyInv, HalfInv, InsertInv, Live
<1>6. CacheInv'
  BY DEF CacheInv
<1> QED
  BY <1>2, <1>3, <1>4, <1>5, <1>6 DEF SessionInv

(* The structure of the table: the insert is on.                           *)
LEMMA StructureStep ==
    ASSUME IInv, spoilt' = {}, ReadStructure
    PROVE  IInv'
<1>1. /\ mixed' = FALSE /\ cl.pc = "reading" /\ Live /\ buf # <<>> /\ Head(buf).k = "data"
      /\ setup.pc = "ready" /\ UNCHANGED <<setup, dog, peer, modes, down, srv, unseen>>
      /\ cl \in Calls /\ buf \in Seq(DownPackets) /\ cl.req \in Nat
  <2>1. PICK ks : ks = {"data"}
    BY Zenon
  <2>2. Next1(ks)
    BY <2>1 DEF ReadStructure
  <2>3. /\ mixed' = FALSE /\ cl.pc = "reading" /\ Live /\ buf # <<>> /\ Head(buf).k \in ks
        /\ setup.pc = "ready" /\ UNCHANGED <<setup, dog, peer, modes, down, srv, unseen>>
        /\ cl \in Calls /\ buf \in Seq(DownPackets) /\ cl.req \in Nat
    BY <2>2, OwnPacket, Zenon
  <2> QED
    BY <2>1, <2>3
<1> USE DEF IInv
<1>2. /\ cl.op = "begin" /\ cl' = [cl EXCEPT !.pc = "inserting", !.op = "begin", !.kept = 0]
      /\ buf' = <<>> /\ UNCHANGED <<sock, cached, up>>
  BY DEF ReadStructure, Return, DropReader
<1>3. cl' \in Calls /\ cl'.pc = "inserting" /\ cl'.req = cl.req
  BY <1>1, <1>2, Zenon DEF Calls, Ops
<1>4. Has(buf, "data") /\ ~All(buf, Ends)
  <2>1. Has(buf, Head(buf).k) /\ (All(buf, Ends) => Head(buf).k \in Ends)
    BY <1>1, ReadPacket
  <2> QED
    BY <1>1, <2>1 DEF Ends
<1>5. srv.pc = "insert" /\ up = <<>>
  <2>1. ~Some(up, Requests)
    BY <1>1, <1>4 DEF SessionInv, ReplyInv
  <2>2. ~Has(up, "insert")
    BY <2>1 DEF Some, Has, Requests
  <2> QED
    BY <1>1, <1>2, <1>4, <2>2 DEF SessionInv, InsertInv
<1>6. ~SecondFirst(down)
  <2>1. HalfInv /\ \E causes : DropReader(causes)
    BY DEF SessionInv, ReadStructure, Return
  <2>2. buf[Len(buf)].k \notin Halved
    BY <1>1, <2>1, DropsWhole
  <2> QED
    BY <1>1, <2>1, <2>2, NoHalfLeft
<1>7. /\ \A K : All(buf', K) /\ ~Some(buf', K) /\ ~Some(up', K)
      /\ \A q : ~Has(buf', q) /\ ~Has(up', q)
      /\ \A q : Mine(buf', q)
      /\ Closing(buf') /\ Paired(buf') /\ ~SecondFirst(buf') /\ Len(buf') = 0 /\ Len(up') = 0
  BY <1>2, <1>5, EmptyPackets, EmptySeq
<1>8. EscapesAlive' /\ Untouched'
  BY <1>1, <1>2, SetupOver
<1>9. ClientTypeOK'
  <2>1. /\ ClientTypeOK /\ down' \in Seq(DownPackets) /\ up' \in Seq(UpPackets) /\ srv' \in Servers
        /\ buf' \in Seq(DownPackets) /\ cached' \in Int
    BY <1>1, <1>2, EmptySeq DEF ClientTypeOK
  <2>2. mixed' \in BOOLEAN
    BY <1>1, ZenonT(60)
  <2>3. UNCHANGED <<setup, dog, modes>> /\ sock' = sock
    BY <1>1, <1>2
  <2> HIDE DEF IInv
  <2> QED
    BY <1>3, <2>1, <2>2, <2>3, TypesKept
<1>10. ReplyInv'
  BY <1>1, <1>3, <1>5, <1>7 DEF SessionInv, ReplyInv
<1>11. HalfInv'
  BY <1>1, <1>6, <1>7 DEF SessionInv, HalfInv
<1>12. InsertInv'
  BY <1>1, <1>2, <1>3, <1>5, <1>7 DEF InsertInv
<1>13. CacheInv'
  BY <1>1, <1>2, <1>3, <1>5, <1>7 DEF SessionInv, CacheInv, Current, Changing
<1>14. CleanInv'
  BY <1>3 DEF CleanInv
<1>15. Upstream(up, srv.pc)'
  BY <1>1, <1>2 DEF SessionInv
<1> QED
  BY <1>1, <1>8, <1>9, <1>10, <1>11, <1>12, <1>13, <1>14, <1>15 DEF SessionInv

(* Steps at an end marker, a log or a block.                               *)
LEMMA BlockReadStep ==
    ASSUME IInv, spoilt' = {},
           \/ ReadTrailer \/ DiscardBlock \/ KeepBlock \/ VisitBlock \/ StreamBlock \/ BudgetBreach
    PROVE  IInv'
<1>1. PICK ks : /\ Next1(ks)
                /\ ReadTrailer => ks = {"end1", "end2", "log1", "log2"}
                /\ ~ReadTrailer => ks = {"data"}
  BY DEF ReadTrailer, DiscardBlock, KeepBlock, VisitBlock, StreamBlock, BudgetBreach
<1>2. /\ mixed' = FALSE /\ cl.pc = "reading" /\ Live /\ buf # <<>> /\ Head(buf).k \in ks
      /\ setup.pc = "ready" /\ UNCHANGED <<setup, dog, peer, modes, down, srv, unseen>>
      /\ cl \in Calls /\ buf \in Seq(DownPackets) /\ cl.req \in Nat
  BY <1>1, OwnPacket, Zenon
<1>3. UNCHANGED <<sock, cached>>
  BY DEF ReadTrailer, DiscardBlock, KeepBlock, VisitBlock, StreamBlock, BudgetBreach
<1>4. UNCHANGED setupVars
  BY <1>2, <1>3 DEF setupVars
<1>5. CASE ReadTrailer
  <2>1. /\ cl' = [cl EXCEPT !.half = Head(buf).k \in Halved] /\ Reads /\ up' = up
        /\ (Head(buf).k \in Halved) \in BOOLEAN
    BY <1>5 DEF ReadTrailer, Continue, Reads
  <2>2. /\ cl' \in Calls /\ cl'.pc = "reading" /\ cl'.req = cl.req /\ cl'.op = cl.op
        /\ cl'.half = (Head(buf).k \in Halved)
    BY <1>2, <2>1, Zenon DEF Calls
  <2>3. Goes
    BY <1>2, <1>3, <1>4, <2>1, <2>2, ZenonT(60) DEF Goes
  <2> QED
    BY <2>1, <2>2, <2>3, GoesStep
<1>6. CASE ~ReadTrailer
  <2>1. Head(buf).k = "data" /\ Head(buf).k \notin Halved
    BY <1>1, <1>2, <1>6 DEF Halved
  <2>2. ASSUME Reads, cl' \in Calls, cl'.pc = "reading", cl'.req = cl.req
        PROVE  Goes
    BY <1>2, <1>3, <1>4, <2>1, <2>2 DEF Goes
  <2>3. CASE DiscardBlock
    <3>1. cl' = cl /\ Reads /\ up' = up
      BY <2>3 DEF DiscardBlock, Continue, Reads
    <3>2. cl' \in Calls /\ cl'.pc = "reading" /\ cl'.req = cl.req /\ cl'.op = cl.op
      BY <1>2, <3>1
    <3> QED
      BY <2>2, <3>1, <3>2, GoesStep
  <2>4. CASE KeepBlock
    <3>1. cl' = [cl EXCEPT !.kept = cl.kept + 1] /\ Reads /\ up' = up
      BY <2>4 DEF KeepBlock, Continue, Reads
    <3>2. cl.kept + 1 \in Nat
      BY <1>2 DEF Calls
    <3>3. cl' \in Calls /\ cl'.pc = "reading" /\ cl'.req = cl.req /\ cl'.op = cl.op
      BY <1>2, <3>1, <3>2 DEF Calls
    <3> QED
      BY <2>2, <3>1, <3>3, GoesStep
  <2>5. CASE VisitBlock \/ StreamBlock
    <3>1. up' = up /\ ((cl' = cl /\ Reads) \/ Failed)
      BY <2>5 DEF VisitBlock, StreamBlock, Continue, Reads
    <3>2. CASE cl' = cl /\ Reads
      <4>1. cl' \in Calls /\ cl'.pc = "reading" /\ cl'.req = cl.req /\ cl'.op = cl.op
        BY <1>2, <3>2
      <4> QED
        BY <2>2, <3>1, <3>2, <4>1, GoesStep
    <3>3. CASE Failed
      <4>1. cl' = [cl EXCEPT !.pc = "closed", !.op = "none", !.kept = 0] /\ buf' = <<>>
        <5>1. Return("closed", {})
          BY <3>3, Zenon DEF Failed, Return, DropReader
        <5> QED
          BY <5>1 DEF Return, DropReader
      <4>2. cl' \in Calls /\ cl'.pc = "closed" /\ buf' \in Seq(DownPackets)
        BY <1>2, <4>1, EmptySeq, ZenonT(60) DEF Calls, Ops
      <4> QED
        BY <1>2, <1>3, <1>4, <3>1, <4>2, CloseStep, Zenon
    <3> QED
      BY <3>1, <3>2, <3>3
  <2>6. CASE BudgetBreach
    <3>1. PICK r \in Nat : r = cl.req
      BY <1>2
    <3>2. /\ cl' = [cl EXCEPT !.op = "drain", !.then = "none"] /\ Reads /\ Sends("cancel", r)
          /\ cl.op \in {"blocks", "describe"}
      BY <2>6, <3>1 DEF BudgetBreach, Continue, Reads, Sends
    <3>3. cl' \in Calls /\ cl'.pc = "reading" /\ cl'.req = cl.req /\ cl'.op = "drain"
      BY <1>2, <3>2, Zenon DEF Calls, Ops
    <3> QED
      BY <2>1, <2>2, <3>1, <3>2, <3>3, BreachStep
  <2> QED
    BY <1>6, <2>3, <2>4, <2>5, <2>6
<1> QED
  BY <1>5, <1>6

(* Steps that end a call.                                                  *)
LEMMA EndReadStep ==
    ASSUME IInv, spoilt' = {}, ReadException \/ ReadAnswer \/ ReadEndOfStream
    PROVE  IInv'
<1>1. PICK ks : /\ Next1(ks) /\ ks \subseteq Final
                /\ ReadException => ks = {"exc"}
  BY DEF ReadException, ReadAnswer, ReadEndOfStream, Final
<1>2. /\ mixed' = FALSE /\ cl.pc = "reading" /\ Live /\ buf # <<>> /\ Head(buf).k \in ks
      /\ setup.pc = "ready" /\ UNCHANGED <<setup, dog, peer, modes, down, srv, unseen>>
      /\ cl \in Calls /\ buf \in Seq(DownPackets) /\ cl.req \in Nat
  BY <1>1, OwnPacket, ZenonT(60)
<1>3. Clean /\ srv.pc # "ddl" /\ ~Has(up, "ddl")
  <2>1. \E causes : DropReader(causes)
    BY DEF ReadException, ReadAnswer, ReadEndOfStream, Return
  <2>2. buf[Len(buf)].k \notin Halved
    BY <1>2, <2>1, DropsWhole
  <2> QED
    BY <1>1, <1>2, <2>2, EndedReply
<1>4. /\ CacheInv /\ cached \in Int /\ srv.schema \in Int /\ Cold \in Int
      /\ sock \in [shut : BOOLEAN, read : {"none", "setup", "query"}, write : {"none", "setup"}]
  BY DEF IInv, SessionInv, ClientTypeOK, Servers, Cold
<1>5. ~unseen /\ cl.op # "ddl" => Current
  BY <1>2, <1>4 DEF CacheInv, Changing
<1>6. ASSUME Return("idle", {}) PROVE cl' \in Calls /\ cl'.pc = "idle" /\ buf' = <<>>
  <2>1. cl' = [cl EXCEPT !.pc = "idle", !.op = "none", !.kept = 0] /\ buf' = <<>>
    BY <1>6 DEF Return, DropReader
  <2> QED
    BY <1>2, <2>1, Zenon DEF Calls, Ops
<1>7. CASE ReadException
  <2>1. /\ Return("idle", {}) /\ UNCHANGED <<cached, up>>
        /\ sock' = [sock EXCEPT !.shut = sock.shut \/ cl.op = "drain"]
    BY <1>7 DEF ReadException
  <2>2. Has(buf, "exc")
    <3>1. Has(buf, Head(buf).k)
      BY <1>2, ReadPacket
    <3> QED
      BY <1>1, <1>2, <1>7, <3>1, ZenonT(60)
  <2>3. ~unseen => Current
    BY <1>2, <1>4, <2>2 DEF CacheInv
  <2>4. ~unseen => Current'
    BY <1>2, <2>1, <2>3 DEF Current
  <2>5. sock' = sock \/ sock' = [sock EXCEPT !.shut = TRUE]
    <3>1. CASE cl.op = "drain"
      BY <2>1, <3>1, Zenon
    <3>2. CASE cl.op # "drain"
      BY <1>4, <2>1, <3>2
    <3> QED
      BY <3>1, <3>2
  <2> QED
    BY <1>2, <1>3, <1>4, <1>6, <2>1, <2>4, <2>5, ReturnStep, Zenon
<1>8. CASE ReadAnswer
  <2>1. Return("idle", {}) /\ UNCHANGED <<sock, cached, up>> /\ cl.op # "ddl"
    BY <1>8 DEF ReadAnswer
  <2>2. ~unseen => Current'
    BY <1>2, <1>5, <2>1 DEF Current
  <2> QED
    BY <1>2, <1>3, <1>4, <1>6, <2>1, <2>2, ReturnStep, ZenonT(60)
<1>9. CASE ReadEndOfStream
  <2>1. cached' = CacheAfter /\ UNCHANGED sock
    BY <1>9 DEF ReadEndOfStream
  <2>2. cached' \in Int /\ (~unseen => Current')
    <3>1. CASE cl.op = "ddl"
      BY <1>4, <2>1, <3>1 DEF CacheAfter, Current
    <3>2. CASE cl.op = "describe"
      BY <1>2, <1>4, <2>1, <3>2 DEF CacheAfter, Current
    <3>3. CASE cl.op \notin {"ddl", "describe"}
      BY <1>2, <1>4, <1>5, <2>1, <3>3 DEF CacheAfter, Current
    <3> QED
      BY <3>1, <3>2, <3>3
  <2>3. CASE cl.then = "begin"
    <3>1. PICK r \in Nat : r = cl.req + 1
      BY <1>2
    <3>2. cl' = [cl EXCEPT !.op = "begin", !.req = r, !.kept = 0, !.then = "send"]
      BY <1>9, <2>3, <3>1 DEF ReadEndOfStream
    <3>3. buf' = <<>> /\ Sends("insert", r)
      BY <1>9, <2>3, <3>1 DEF ReadEndOfStream, Sends, DropReader
    <3>4. cl' \in Calls /\ cl'.pc = "reading" /\ cl'.req = r /\ cl'.op = "begin"
      BY <1>2, <3>1, <3>2, Zenon DEF Calls, Ops
    <3>5. UNCHANGED <<setupVars, down, srv>>
      BY <1>2, <2>1 DEF setupVars
    <3>6. Begins("insert", r)
      BY <1>2, <2>2, <3>3, <3>4, <3>5 DEF Begins
    <3>7. "insert" \in Requests
      BY DEF Requests
    <3> QED
      BY <1>2, <1>3, <3>1, <3>3, <3>6, <3>7, RequestStep
  <2>4. CASE cl.then # "begin"
    <3>1. Return("idle", {}) /\ UNCHANGED up
      BY <1>9, <2>4 DEF ReadEndOfStream
    <3> QED
      BY <1>2, <1>3, <1>6, <2>1, <2>2, <3>1, ReturnStep, Zenon
  <2> QED
    BY <2>3, <2>4
<1> QED
  BY <1>7, <1>8, <1>9

(* A call that cannot read its reply to the end.                           *)
LEMMA FailStep ==
    ASSUME IInv, spoilt' = {}, ReadFails
    PROVE  IInv'
<1>1. /\ cl.pc = "reading" /\ UNCHANGED <<setup, dog, peer, modes, cached, up, down, srv, mixed, unseen>>
      /\ cl \in Calls /\ setup.pc = "ready" /\ mixed' = FALSE
  BY DEF ReadFails, IInv, ClientTypeOK, Untouched, SessionInv
<1>2. CASE cl.op = "drain"
  <2>1. cl' = [cl EXCEPT !.pc = "idle", !.op = "none", !.kept = 0] /\ buf' = <<>>
    BY <1>2 DEF ReadFails, Return, DropReader
  <2>2. sock' = [sock EXCEPT !.shut = TRUE]
    BY <1>2 DEF ReadFails
  <2>3. cl' \in Calls /\ cl'.pc = "idle"
    BY <1>1, <2>1, ZenonT(60) DEF Calls, Ops
  <2>4. cached \in Int /\ (~unseen => Current /\ srv.pc # "ddl" /\ ~Has(up, "ddl"))
    BY <1>1, <1>2 DEF IInv, SessionInv, ClientTypeOK, CacheInv, Changing
  <2>5. cached' \in Int /\ (~unseen => Current')
    BY <1>1, <2>4 DEF Current
  <2> QED
    BY <1>1, <2>1, <2>2, <2>3, <2>4, <2>5, ReturnStep, Zenon
<1>3. CASE cl.op # "drain"
  <2>1. cl' = [cl EXCEPT !.pc = "closed", !.op = "none", !.kept = 0] /\ buf' = <<>>
    <3>1. Return("closed", {})
      BY <1>3, Zenon DEF ReadFails, Failed, Return, DropReader
    <3> QED
      BY <3>1 DEF Return, DropReader
  <2>2. UNCHANGED setupVars
    BY <1>1, <1>3 DEF ReadFails, setupVars
  <2>3. cl' \in Calls /\ cl'.pc = "closed" /\ buf' \in Seq(DownPackets)
    BY <1>1, <2>1, EmptySeq, Zenon DEF Calls, Ops
  <2> QED
    BY <1>1, <2>2, <2>3, CloseStep, Zenon
<1> QED
  BY <1>2, <1>3

-----------------------------------------------------------------------------
(* The steps of the server.                                                *)

Takes == up # <<>> /\ up' = Tail(up)

Outside == UNCHANGED <<setupVars, cl, buf, cached, mixed, unseen>>

LEMMA Replies ==
    ASSUME modes \in [ok : BOOLEAN, chunked : BOOLEAN], down \in Seq(DownPackets),
           NEW k \in {"data", "log"} \cup Final, NEW r \in Nat, Reply(k, r)
    PROVE  /\ down' \in Seq(DownPackets)
           /\ ~Some(down, Final) =>
                 /\ Mine(down, r) => Mine(down', r)
                 /\ Closing(down')
                 /\ Some(down', Final) <=> k \in Final
                 /\ Has(down', "data") <=> Has(down, "data") \/ k = "data"
                 /\ Has(down', "exc") <=> k = "exc"
                 /\ Paired(down) => Paired(down')
                 /\ SecondFirst(down') <=> SecondFirst(down)
<1>1. PICK t : t = down \o Wire(k, r)
  BY Zenon
<1>2. down' = t
  BY <1>1 DEF Reply
<1>3. t \in Seq(DownPackets)
  <2>1. Wire(k, r) \in Seq(DownPackets)
    BY WirePackets, Zenon
  <2> QED
    BY <1>1, <2>1, ConcatProperties
<1>4. ASSUME ~Some(down, Final)
      PROVE  /\ Mine(down, r) => Mine(t, r)
             /\ Closing(t)
             /\ Some(t, Final) <=> k \in Final
             /\ Has(t, "data") <=> Has(down, "data") \/ k = "data"
             /\ Has(t, "exc") <=> k = "exc"
             /\ Paired(down) => Paired(t)
             /\ SecondFirst(t) <=> SecondFirst(down)
  BY <1>1, <1>4, AppendReply, ZenonT(60)
<1> QED
  BY <1>2, <1>3, <1>4

LEMMA ServerTypes ==
    ASSUME IInv, setup.pc = "ready", Outside,
           down' \in Seq(DownPackets), up' \in Seq(UpPackets), srv' \in Servers
    PROVE  ClientTypeOK' /\ EscapesAlive' /\ Untouched' /\ ~mixed'
<1>1. ClientTypeOK /\ EscapesAlive /\ ~mixed
  BY DEF IInv, SessionInv
<1>2. UNCHANGED <<setup, dog, sock, peer, modes, cl, buf, cached, mixed, unseen>>
  BY DEF Outside, setupVars
<1>3. cl' \in Calls /\ buf' \in Seq(DownPackets) /\ cached' \in Int /\ mixed' \in BOOLEAN
  BY <1>1, <1>2 DEF ClientTypeOK
<1>4. ClientTypeOK'
  BY <1>1, <1>2, <1>3, TypesKept
<1>5. EscapesAlive' /\ Untouched'
  BY <1>1, <1>2, SetupOver, ZenonT(60)
<1> QED
  BY <1>1, <1>2, <1>4, <1>5

(* The server works on a request and sends a packet k of its reply, with   *)
(* or without having taken a packet of the client.                         *)
LEMMA AnswerStep ==
    ASSUME IInv, Outside, setup.pc = "ready", srv.pc \in {"query", "ddl", "insert"},
           NEW k \in {"data", "log"} \cup Final, NEW r \in Nat, Reply(k, r), Live => r = cl.req,
           srv' \in Servers, up' \in Seq(UpPackets), Upstream(up', srv'.pc), ~Some(up', Requests),
           k \in Final => srv'.pc \in {"idle", "skip"},
           k \notin Final => srv'.pc = srv.pc /\ srv'.req = srv.req /\ up' = up,
           k = "data" => srv.pc = "query",
           srv'.schema = srv.schema \/ (srv.pc = "ddl" /\ k = "eos"),
           srv'.pc = "skip" => srv.pc = "insert" /\ up # <<>> /\ (Has(up', "last") <=> Has(up, "last")),
           srv.pc = "insert" /\ srv'.pc = "idle" => Has(up, "last")
    PROVE  IInv'
<1>1. /\ UNCHANGED <<setup, dog, sock, peer, modes, cl, buf, cached, mixed, unseen>>
      /\ modes \in [ok : BOOLEAN, chunked : BOOLEAN] /\ down \in Seq(DownPackets)
      /\ CleanInv /\ ReplyInv /\ HalfInv /\ InsertInv /\ CacheInv /\ Upstream(up, srv.pc)
  BY Zenon DEF Outside, setupVars, IInv, ClientTypeOK, SessionInv
<1>2. /\ ~Some(up, Requests) /\ ~Has(up, "insert") /\ ~Has(up', "insert") /\ ~Has(up', "ddl")
      /\ \A i \in 1..Len(up') : up'[i].k \notin Requests
  BY <1>1, Zenon DEF Upstream, Some, Has, Requests
<1>3. Live => ~Some(buf, Final) /\ ~Some(down, Final) /\ srv.req = cl.req
  BY <1>1, ZenonT(60) DEF ReplyInv
<1>4. /\ down' \in Seq(DownPackets)
      /\ ~Some(down, Final) =>
            /\ Mine(down, r) => Mine(down', r)
            /\ Closing(down')
            /\ Some(down', Final) <=> k \in Final
            /\ Has(down', "data") <=> Has(down, "data") \/ k = "data"
            /\ Has(down', "exc") <=> k = "exc"
            /\ Paired(down) => Paired(down')
            /\ SecondFirst(down') <=> SecondFirst(down)
  BY <1>1, Replies, Zenon
<1>5. ClientTypeOK' /\ EscapesAlive' /\ Untouched' /\ ~mixed'
  BY <1>4, ServerTypes, Zenon
<1>6. Live' <=> Live
  BY <1>1, Zenon DEF Live
<1>7. ReplyInv'
  <2> SUFFICES ASSUME Live PROVE ReplyInv'
    BY <1>6, ZenonT(60) DEF ReplyInv
  <2>1. k \notin Final => \A i \in 1..Len(up') : up'[i].k \in {"data", "last"} /\ srv'.pc = "insert" => up'[i].req = cl.req
    BY <1>1, Zenon DEF ReplyInv
  <2>2. srv'.pc \in {"query", "ddl", "insert"} => k \notin Final
    BY Zenon
  <2> QED
    BY <1>1, <1>2, <1>3, <1>4, <2>1, <2>2, Zenon DEF ReplyInv
<1>8. HalfInv'
  BY <1>1, <1>3, <1>4, <1>6, ZenonT(60) DEF HalfInv
<1>9. InsertInv'
  <2>1. CASE cl.pc = "inserting"
    BY <1>1, <2>1, Zenon DEF InsertInv
  <2>2. CASE cl.pc = "reading" /\ cl.op = "begin"
    <3>1. srv.pc = "insert" /\ up = <<>> /\ ~Has(up, "last")
      BY <1>1, <1>2, <2>2, EmptyPackets, Zenon DEF InsertInv
    <3>2. k \notin Final
      BY <3>1, Zenon DEF Servers
    <3> QED
      BY <1>1, <1>2, <2>2, <3>1, <3>2, Zenon DEF InsertInv
  <2>3. CASE cl.pc = "reading" /\ cl.op # "begin"
    BY <1>1, <1>2, <2>3, Zenon DEF InsertInv
  <2>4. CASE cl.pc \notin {"inserting", "reading"}
    BY <1>1, <2>4, Zenon DEF InsertInv
  <2> QED
    BY <2>1, <2>2, <2>3, <2>4, Zenon
<1>10. CacheInv'
  <2> SUFFICES ASSUME ~unseen, cl.pc # "closed" PROVE CacheInv'
    BY <1>1, ZenonT(60) DEF CacheInv
  <2>1. Current /\ (srv.pc = "ddl" => Changing)
    BY <1>1, Zenon DEF CacheInv
  <2>2. srv'.pc = "ddl" => srv.pc = "ddl" /\ srv'.schema = srv.schema
    BY ZenonT(60) DEF Final
  <2>3. CASE srv'.schema = srv.schema
    BY <1>1, <1>2, <2>1, <2>2, <2>3, Zenon DEF CacheInv, Current, Changing
  <2>4. CASE srv.pc = "ddl" /\ k = "eos"
    <3>1. Live /\ Changing
      BY <2>1, <2>4, Zenon DEF Changing, Live
    <3>2. k \in Final /\ ~Has(buf, "exc") /\ ~Has(down', "exc")
      BY <1>3, <1>4, <2>4, <3>1, ZenonT(60) DEF Final, Some, Has
    <3> QED
      BY <1>1, <1>2, <2>4, <3>1, <3>2, Zenon DEF CacheInv, Changing
  <2> QED
    BY <2>3, <2>4, Zenon
<1>11. CleanInv'
  BY <1>1, ZenonT(60) DEF CleanInv, Clean
<1> QED
  BY <1>5, <1>7, <1>8, <1>9, <1>10, <1>11 DEF IInv, SessionInv

(* The server takes a packet that is no request.                           *)
LEMMA TakesOther ==
    ASSUME up \in Seq(UpPackets), NEW pc, NEW qc, Upstream(up, pc), Takes,
           Head(up).k \notin Requests,
           \/ pc \in {"idle", "query"} /\ qc = "idle"
           \/ pc = "insert" /\ qc \in {"insert", "skip"} /\ Head(up).k = "data"
           \/ pc = "skip" /\ qc = "skip" /\ Head(up).k = "data"
           \/ pc \in {"insert", "skip"} /\ qc = "idle" /\ Head(up).k = "last"
    PROVE  /\ up' \in Seq(UpPackets) /\ Upstream(up', qc)
           /\ Some(up', Requests) <=> Some(up, Requests)
           /\ Has(up', "insert") <=> Has(up, "insert")
           /\ Has(up', "ddl") <=> Has(up, "ddl")
           /\ Head(up).k # "last" => (Has(up', "last") <=> Has(up, "last"))
           /\ Head(up) = up[1] /\ Len(up) > 0
           /\ \A i \in 1..Len(up') : \E j \in 1..Len(up) : up'[i] = up[j]
<1>1. PICK t : t = Tail(up)
  BY Zenon
<1>2. up' = t /\ up # <<>>
  BY <1>1 DEF Takes
<1>3. /\ t \in Seq(UpPackets) /\ Upstream(t, qc)
      /\ Some(t, Requests) <=> Some(up, Requests)
      /\ Has(t, "insert") <=> Has(up, "insert")
      /\ Has(t, "ddl") <=> Has(up, "ddl")
      /\ Head(up).k # "last" => (Has(t, "last") <=> Has(up, "last"))
      /\ Head(up) = up[1] /\ Len(up) > 0
  BY <1>1, <1>2, TakeOther, Zenon
<1>4. \A i \in 1..Len(t) : i + 1 \in 1..Len(up) /\ t[i] = up[i + 1]
  BY <1>1, <1>2, TakeOther, Zenon
<1>5. \A i \in 1..Len(t) : \E j \in 1..Len(up) : t[i] = up[j]
  BY <1>4
<1> QED
  BY <1>2, <1>3, <1>5

(* The server takes a packet that is no request and sends nothing.         *)
LEMMA QuietStep ==
    ASSUME IInv, Outside, setup.pc = "ready", down' = down, up # <<>>,
           srv' \in Servers, srv'.schema = srv.schema,
           up' \in Seq(UpPackets), Upstream(up', srv'.pc),
           Some(up', Requests) <=> Some(up, Requests),
           Has(up', "insert") <=> Has(up, "insert"),
           Has(up', "ddl") <=> Has(up, "ddl"),
           \A i \in 1..Len(up') : \E j \in 1..Len(up) : up'[i] = up[j],
           \/ srv' = srv /\ (Has(up', "last") <=> Has(up, "last"))
           \/ srv.pc = "skip" /\ srv'.pc = "idle" /\ Has(up, "last")
    PROVE  IInv'
<1>1. /\ UNCHANGED <<setup, dog, sock, peer, modes, cl, buf, cached, mixed, unseen, down>>
      /\ down' \in Seq(DownPackets) /\ srv.pc \in {"idle", "query", "ddl", "insert", "skip"}
      /\ CleanInv /\ ReplyInv /\ HalfInv /\ InsertInv /\ CacheInv /\ Upstream(up, srv.pc)
  BY DEF Outside, setupVars, IInv, ClientTypeOK, SessionInv, Servers
<1>2. ClientTypeOK' /\ EscapesAlive' /\ Untouched' /\ ~mixed'
  BY <1>1, ServerTypes, Zenon
<1>3. ReplyInv'
  <2> SUFFICES ASSUME Live PROVE ReplyInv'
    BY <1>1, ZenonT(60) DEF ReplyInv, Live
  <2>1. \A i \in 1..Len(up') : up'[i].k \in Requests => up'[i].req = cl.req
    BY <1>1, ZenonT(60) DEF ReplyInv
  <2>2. srv'.pc = "insert" => \A i \in 1..Len(up') : up'[i].k \in {"data", "last"} => up'[i].req = cl.req
    BY <1>1 DEF ReplyInv
  <2>3. srv'.pc \in {"query", "ddl", "insert"} => srv' = srv
    OBVIOUS
  <2>4. srv.pc \in {"idle", "skip"} => srv'.pc \in {"idle", "skip"}
    BY Zenon
  <2> QED
    BY <1>1, <2>1, <2>2, <2>3, <2>4, ZenonT(60) DEF ReplyInv
<1>4. HalfInv'
  BY <1>1 DEF HalfInv, Live
<1>5. InsertInv'
  <2>1. CASE srv' = srv /\ (Has(up', "last") <=> Has(up, "last"))
    BY <1>1, <2>1, Zenon DEF InsertInv
  <2>2. CASE srv.pc = "skip" /\ srv'.pc = "idle" /\ Has(up, "last")
    BY <1>1, <2>2, Zenon DEF InsertInv
  <2> QED
    BY <2>1, <2>2, Zenon
<1>6. CacheInv'
  BY <1>1, Zenon DEF CacheInv, Current, Changing
<1>7. CleanInv'
  BY <1>1, Zenon DEF CleanInv, Clean
<1> QED
  BY <1>2, <1>3, <1>4, <1>5, <1>6, <1>7, ZenonT(60) DEF IInv, SessionInv

(* What is known when the server takes a request of kind h.                *)
LEMMA TakesRequest ==
    ASSUME IInv, srv.pc = "idle", Takes, Head(up).k \in Requests
    PROVE  /\ up' = <<>> /\ Has(up, Head(up).k) /\ Head(up).req \in Nat
           /\ Has(up, "insert") => Head(up).k = "insert"
           /\ Live => /\ cl.pc = "reading" /\ Head(up).req = cl.req
                      /\ All(buf, Ends) /\ All(down, Ends)
                      /\ cl.op = "begin" => Head(up).k = "insert"
                      /\ Head(up).k = "insert" => cl.op = "begin"
           /\ cl.pc = "idle" => sock.shut
           /\ ~unseen /\ cl.pc # "closed" => Current /\ (Head(up).k = "ddl" => Changing)
<1>1. /\ up \in Seq(UpPackets) /\ up # <<>> /\ Upstream(up, srv.pc)
      /\ CleanInv /\ ReplyInv /\ InsertInv /\ CacheInv
  BY DEF IInv, SessionInv, ClientTypeOK, Takes
<1>2. PICK pc : pc = srv.pc
  OBVIOUS
<1>3. Tail(up) = <<>> /\ Has(up, Head(up).k) /\ Some(up, Requests) /\ Head(up) = up[1] /\ Len(up) = 1
  BY <1>1, <1>2, TakeRequest
<1>4. up' = <<>>
  BY <1>3 DEF Takes
<1>5. 1 \in 1..Len(up) /\ \A i \in 1..Len(up) : i = 1
  BY <1>3, SMTT(60)
<1>6. Head(up).req \in Nat /\ (Has(up, "insert") => Head(up).k = "insert")
  <2>1. up[1] \in UpPackets
    BY <1>1, <1>5, ElementOfSeq, Zenon
  <2> QED
    BY <1>3, <1>5, <2>1 DEF UpPackets, Has
<1>7. ASSUME Live
      PROVE  /\ cl.pc = "reading" /\ Head(up).req = cl.req
             /\ All(buf, Ends) /\ All(down, Ends)
             /\ cl.op = "begin" => Head(up).k = "insert"
             /\ Head(up).k = "insert" => cl.op = "begin"
  <2>1. cl.pc = "reading" /\ All(buf, Ends) /\ All(down, Ends)
    BY <1>1, <1>3, <1>7, Zenon DEF ReplyInv
  <2>2. Head(up).req = cl.req
    BY <1>1, <1>3, <1>5, <1>7, Zenon DEF ReplyInv
  <2>3. cl.op = "begin" => Head(up).k = "insert"
    BY <1>1, <1>3, <1>6, <2>1 DEF InsertInv
  <2>4. Head(up).k = "insert" => cl.op = "begin"
    BY <1>1, <1>3, <2>1 DEF InsertInv
  <2> QED
    BY <2>1, <2>2, <2>3, <2>4, Zenon
<1>8. cl.pc = "idle" => sock.shut
  BY <1>1, <1>3 DEF CleanInv, Clean
<1>9. ~unseen /\ cl.pc # "closed" => Current /\ (Head(up).k = "ddl" => Changing)
  BY <1>1, <1>3, Zenon DEF CacheInv
<1> QED
  BY <1>3, <1>4, <1>6, <1>7, <1>8, <1>9, ZenonT(60)

(* The server starts on a statement.                                       *)
LEMMA StatementStep ==
    ASSUME IInv, Outside, setup.pc = "ready", down' = down, srv.pc = "idle", Takes,
           NEW h \in {"query", "ddl"}, h = Head(up).k, NEW r, r = Head(up).req,
           srv' \in Servers, srv'.pc = h, srv'.req = r, srv'.schema = srv.schema
    PROVE  IInv'
<1>1. /\ UNCHANGED <<setup, dog, sock, peer, modes, cl, buf, cached, mixed, unseen, down>>
      /\ down' \in Seq(DownPackets) /\ h \in Requests /\ h # "insert"
      /\ CleanInv /\ ReplyInv /\ HalfInv /\ InsertInv /\ CacheInv
  BY Zenon DEF Outside, setupVars, IInv, ClientTypeOK, SessionInv, Requests
<1>2. /\ up' = <<>>
      /\ Live => /\ cl.pc = "reading" /\ r = cl.req /\ All(buf, Ends) /\ All(down, Ends)
                 /\ cl.op # "begin"
      /\ cl.pc = "idle" => sock.shut
      /\ ~unseen /\ cl.pc # "closed" => Current /\ (h = "ddl" => Changing)
  BY <1>1, TakesRequest, Zenon
<1>3. /\ \A K : ~Some(up', K)
      /\ \A q : ~Has(up', q)
      /\ \A pc : Upstream(up', pc)
      /\ up' \in Seq(UpPackets) /\ Len(up') = 0
  BY <1>2, EmptyPackets, EmptySeq, Zenon
<1>4. ClientTypeOK' /\ EscapesAlive' /\ Untouched' /\ ~mixed'
  BY <1>1, <1>3, ServerTypes, ZenonT(60)
<1>5. ReplyInv'
  <2> SUFFICES ASSUME Live PROVE ReplyInv'
    BY <1>1, ZenonT(60) DEF ReplyInv, Live
  <2>1. ~Some(buf, Final) /\ ~Some(down, Final)
    BY <1>2, OnlyEnds, ZenonT(60)
  <2> QED
    BY <1>1, <1>2, <1>3, <2>1, SMTT(60) DEF ReplyInv
<1>6. HalfInv'
  BY <1>1, Zenon DEF HalfInv, Live
<1>7. InsertInv'
  BY <1>1, <1>2, <1>3, Zenon DEF InsertInv, Live
<1>8. CacheInv'
  BY <1>1, <1>2, <1>3, Zenon DEF CacheInv, Current, Changing
<1>9. CleanInv'
  BY <1>1, <1>2, Zenon DEF CleanInv
<1>10. Upstream(up, srv.pc)'
  BY <1>3, Zenon
<1> QED
  BY <1>4, <1>5, <1>6, <1>7, <1>8, <1>9, <1>10, Zenon DEF IInv, SessionInv

(* The server answers a request at once: it begins an insert with the      *)
(* structure of the table, or it ends the reply.                           *)
LEMMA AtOnceStep ==
    ASSUME IInv, Outside, setup.pc = "ready", srv.pc = "idle", Takes,
           NEW h \in Requests \ {"ddl"}, h = Head(up).k, NEW r, r = Head(up).req,
           NEW k \in {"data", "log"} \cup Final, Reply(k, r),
           srv' \in Servers, srv'.schema = srv.schema,
           \/ h = "insert" /\ k = "data" /\ srv'.pc = "insert" /\ srv'.req = r
           \/ k \in Final /\ srv' = srv
    PROVE  IInv'
<1>1. /\ UNCHANGED <<setup, dog, sock, peer, modes, cl, buf, cached, mixed, unseen>>
      /\ modes \in [ok : BOOLEAN, chunked : BOOLEAN] /\ down \in Seq(DownPackets)
      /\ CleanInv /\ ReplyInv /\ HalfInv /\ InsertInv /\ CacheInv
  BY DEF Outside, setupVars, IInv, ClientTypeOK, SessionInv
<1>2. /\ up' = <<>> /\ r \in Nat
      /\ Live => /\ cl.pc = "reading" /\ r = cl.req /\ All(buf, Ends) /\ All(down, Ends)
                 /\ cl.op = "begin" => h = "insert"
                 /\ h = "insert" => cl.op = "begin"
      /\ cl.pc = "idle" => sock.shut
      /\ ~unseen /\ cl.pc # "closed" => Current
  BY <1>1, TakesRequest
<1>3. /\ \A K : ~Some(up', K)
      /\ \A q : ~Has(up', q)
      /\ \A pc : Upstream(up', pc)
      /\ up' \in Seq(UpPackets) /\ Len(up') = 0
  BY <1>2, EmptyPackets, EmptySeq, Zenon
<1>4. /\ down' \in Seq(DownPackets)
      /\ ~Some(down, Final) =>
            /\ Mine(down, r) => Mine(down', r)
            /\ Closing(down')
            /\ Some(down', Final) <=> k \in Final
            /\ Has(down', "data") <=> Has(down, "data") \/ k = "data"
            /\ Has(down', "exc") <=> k = "exc"
            /\ Paired(down) => Paired(down')
            /\ SecondFirst(down') <=> SecondFirst(down)
  BY <1>1, <1>2, Replies, Zenon
<1>5. ClientTypeOK' /\ EscapesAlive' /\ Untouched' /\ ~mixed'
  BY <1>3, <1>4, ServerTypes, ZenonT(60)
<1>6. Live => ~Some(buf, Final) /\ ~Some(down, Final) /\ ~Has(buf, "data") /\ ~Has(down, "data")
  BY <1>2, OnlyEnds
<1>7. "data" \notin Final
  BY ZenonT(60) DEF Final
<1>8. ReplyInv'
  <2> SUFFICES ASSUME Live PROVE ReplyInv'
    BY <1>1, ZenonT(60) DEF ReplyInv, Live
  <2> QED
    BY <1>1, <1>2, <1>3, <1>4, <1>6, <1>7, SMTT(60) DEF ReplyInv
<1>9. HalfInv'
  BY <1>1, <1>4, <1>6, ZenonT(60) DEF HalfInv, Live
<1>10. InsertInv'
  <2>1. CASE h = "insert" /\ k = "data" /\ srv'.pc = "insert" /\ srv'.req = r
    BY <1>1, <1>2, <1>3, <2>1, Zenon DEF InsertInv, Live
  <2>2. CASE k \in Final /\ srv' = srv
    BY <1>1, <1>2, <1>3, <1>4, <1>6, <1>7, <2>2, Zenon DEF InsertInv, Live
  <2> QED
    BY <2>1, <2>2, Zenon
<1>11. CacheInv'
  BY <1>1, <1>2, <1>3, Zenon DEF CacheInv, Current
<1>12. CleanInv'
  BY <1>1, <1>2, Zenon DEF CleanInv
<1>13. Upstream(up, srv.pc)'
  BY <1>3, ZenonT(60)
<1> QED
  BY <1>5, <1>8, <1>9, <1>10, <1>11, <1>12, <1>13, ZenonT(60) DEF IInv, SessionInv

LEMMA ServerSendsStep ==
    ASSUME IInv, ServerSends
    PROVE  IInv'
<1>1. /\ Outside /\ up' = up /\ srv \in Servers /\ srv.req \in Nat /\ up \in Seq(UpPackets)
      /\ Upstream(up, srv.pc) /\ srv.pc \in {"query", "ddl", "insert"} /\ setup.pc = "ready"
  BY Zenon DEF ServerSends, Outside, IInv, SessionInv, ClientTypeOK, Untouched, Servers
<1>2. ~Some(up, Requests) /\ (Live => srv.req = cl.req)
  BY <1>1, ZenonT(60) DEF IInv, SessionInv, Upstream, ReplyInv
<1>3. PICK r \in Nat : r = srv.req
  BY <1>1
<1>4. PICK k \in {"data", "log", "eos", "exc"} :
        /\ Reply(k, r)
        /\ \/ k = "data" /\ srv.pc = "query" /\ srv' = [srv EXCEPT !.sent = srv.sent + 1]
           \/ k = "log" /\ srv.pc = "insert" /\ srv' = [srv EXCEPT !.sent = 1]
           \/ /\ k \in {"eos", "exc"} /\ srv.pc \in {"query", "ddl"}
              /\ srv' = [srv EXCEPT !.pc = "idle", !.req = 0, !.sent = 0]
           \/ /\ k = "eos" /\ srv.pc = "ddl"
              /\ srv' = [srv EXCEPT !.pc = "idle", !.req = 0, !.schema = srv.schema + 1]
  BY <1>3 DEF ServerSends, Serve
<1>5. srv.sent + 1 \in Nat /\ srv.schema + 1 \in Nat
  BY <1>1 DEF Servers
<1>6. /\ srv' \in Servers
      /\ k \in {"data", "log"} => srv'.pc = srv.pc /\ srv'.req = srv.req
      /\ k \in {"eos", "exc"} => srv'.pc = "idle" /\ srv.pc \in {"query", "ddl"}
      /\ k = "data" => srv.pc = "query"
      /\ srv'.schema = srv.schema \/ (srv.pc = "ddl" /\ k = "eos")
  <2>1. CASE k \in {"data", "log"}
    BY <1>1, <1>4, <1>5, <2>1 DEF Servers
  <2>2. CASE srv' = [srv EXCEPT !.pc = "idle", !.req = 0, !.sent = 0]
    BY <1>1, <1>4, <2>2, Zenon DEF Servers
  <2>3. CASE k = "eos" /\ srv' = [srv EXCEPT !.pc = "idle", !.req = 0, !.schema = srv.schema + 1]
    BY <1>1, <1>4, <1>5, <2>3, Zenon DEF Servers
  <2> QED
    BY <1>4, <2>1, <2>2, <2>3
<1>7. (k \in Final <=> k \in {"eos", "exc"}) /\ k \in {"data", "log"} \cup Final
  BY DEF Final
<1>8. Upstream(up', srv'.pc)
  <2>1. Upstream(up, srv.pc) /\ (srv.pc \in {"query", "ddl"} => Upstream(up, "idle"))
    BY <1>1, <1>2 DEF Upstream, All
  <2> QED
    BY <1>1, <1>6, <2>1, ZenonT(60)
<1>9. srv'.pc # "skip" /\ ~(srv.pc = "insert" /\ srv'.pc = "idle")
  BY <1>1, <1>6
<1>10. up' \in Seq(UpPackets) /\ ~Some(up', Requests)
  BY <1>1, <1>2, Zenon
<1> QED
  BY <1>1, <1>2, <1>3, <1>4, <1>6, <1>7, <1>8, <1>9, <1>10, AnswerStep, ZenonT(60)

LEMMA ServerTakesStep ==
    ASSUME IInv, ServerTakes
    PROVE  IInv'
<1>1. /\ Outside /\ Takes /\ up # <<>> /\ srv \in Servers /\ up \in Seq(UpPackets)
      /\ Upstream(up, srv.pc) /\ setup.pc = "ready"
  BY ZenonT(60) DEF ServerTakes, Outside, Takes, IInv, SessionInv, ClientTypeOK, Untouched
<1>2. PICK h \in UpKinds : h = Head(up).k
  <2>1. Len(up) \in Nat /\ Len(up) > 0 /\ Head(up) = up[1]
    BY <1>1, HeadTailProperties, EmptySeq, LenProperties
  <2>2. up[1] \in UpPackets
    BY <1>1, <2>1, ElementOfSeq
  <2> QED
    BY <2>1, <2>2 DEF UpPackets
<1>3. PICK r \in Nat : r = Head(up).req
  <2>1. Len(up) \in Nat /\ Len(up) > 0 /\ Head(up) = up[1]
    BY <1>1, HeadTailProperties, EmptySeq, LenProperties
  <2>2. up[1] \in UpPackets
    BY <1>1, <2>1, ElementOfSeq
  <2> QED
    BY <2>1, <2>2 DEF UpPackets
<1>4. /\ {"query", "ddl", "insert", "ping", "tables"} \subseteq Requests
      /\ \A x \in {"data", "last", "cancel"} : x \notin Requests
      /\ {"pong", "tables", "exc", "eos"} \subseteq Final
  BY ZenonT(60) DEF Requests, Final
<1>5. \/ srv.pc = "idle" /\ h \in {"query", "ddl"} /\ Serve(h, r) /\ down' = down
      \/ srv.pc = "idle" /\ h = "insert" /\ Serve("insert", r) /\ Reply("data", r)
      \/ srv.pc = "idle" /\ h = "insert" /\ srv' = srv /\ Reply("exc", r)
      \/ srv.pc = "idle" /\ h = "ping" /\ srv' = srv /\ Reply("pong", r)
      \/ srv.pc = "idle" /\ h = "tables" /\ srv' = srv /\ (Reply("tables", r) \/ Reply("exc", r))
      \/ srv.pc = "idle" /\ h = "cancel" /\ srv' = srv /\ down' = down
      \/ srv.pc = "query" /\ h = "cancel" /\ Serve("idle", 0) /\ Reply("eos", srv.req)
      \/ srv.pc = "insert" /\ h = "data" /\ srv' = srv /\ down' = down
      \/ srv.pc = "insert" /\ h = "data" /\ Serve("skip", 0) /\ Reply("exc", r)
      \/ srv.pc = "insert" /\ h = "last" /\ Serve("idle", 0) /\ (Reply("eos", r) \/ Reply("exc", r))
      \/ srv.pc = "skip" /\ h = "data" /\ srv' = srv /\ down' = down
      \/ srv.pc = "skip" /\ h = "last" /\ Serve("idle", 0) /\ down' = down
  BY <1>2, <1>3 DEF ServerTakes
<1>6. ASSUME NEW pc \in {"idle", "query", "ddl", "insert", "skip"}, NEW q \in Nat, Serve(pc, q)
      PROVE  srv' \in Servers /\ srv'.pc = pc /\ srv'.req = q /\ srv'.schema = srv.schema
  BY <1>1, <1>6, ZenonT(60) DEF Serve, Servers
<1>7. Has(up, h) /\ \E i \in 1..Len(up) : up[i].k = h /\ up[i].req = r
  <2>1. Len(up) \in Nat /\ Len(up) > 0 /\ Head(up) = up[1]
    BY <1>1, HeadTailProperties, EmptySeq, LenProperties
  <2> QED
    BY <1>2, <1>3, <2>1 DEF Has
<1>8. CASE srv.pc = "idle" /\ h \in {"query", "ddl"} /\ Serve(h, r) /\ down' = down
  <2>1. srv' \in Servers /\ srv'.pc = h /\ srv'.req = r /\ srv'.schema = srv.schema
    BY <1>6, <1>8
  <2> QED
    BY <1>1, <1>2, <1>3, <1>8, <2>1, StatementStep
<1>9. CASE srv.pc = "idle" /\ h = "insert" /\ Serve("insert", r) /\ Reply("data", r)
  <2>1. srv' \in Servers /\ srv'.pc = "insert" /\ srv'.req = r /\ srv'.schema = srv.schema
    BY <1>6, <1>9
  <2>2. h \in Requests \ {"ddl"}
    BY <1>4, <1>9, Zenon
  <2> QED
    BY <1>1, <1>2, <1>3, <1>9, <2>1, <2>2, AtOnceStep, ZenonT(60)
<1>10. CASE /\ srv.pc = "idle" /\ h \in {"insert", "ping", "tables"} /\ srv' = srv
            /\ Reply("exc", r) \/ Reply("pong", r) \/ Reply("tables", r)
  <2>1. PICK k \in Final : Reply(k, r)
    BY <1>4, <1>10
  <2>2. h \in Requests \ {"ddl"} /\ srv' \in Servers /\ srv'.schema = srv.schema
    BY <1>1, <1>4, <1>10
  <2> QED
    BY <1>1, <1>2, <1>3, <1>10, <2>1, <2>2, AtOnceStep, ZenonT(60)
<1>11. CASE /\ srv.pc \in {"idle", "insert", "skip"} /\ h \in {"cancel", "data"}
            /\ h = "cancel" <=> srv.pc = "idle"
            /\ srv' = srv /\ down' = down
  <2>1. PICK pc : pc = srv.pc
    BY Zenon
  <2>2. /\ up' \in Seq(UpPackets) /\ Upstream(up', pc)
        /\ Some(up', Requests) <=> Some(up, Requests)
        /\ Has(up', "insert") <=> Has(up, "insert")
        /\ Has(up', "ddl") <=> Has(up, "ddl")
        /\ Has(up', "last") <=> Has(up, "last")
        /\ \A i \in 1..Len(up') : \E j \in 1..Len(up) : up'[i] = up[j]
    BY <1>1, <1>2, <1>4, <1>11, <2>1, TakesOther, Zenon
  <2>3. Upstream(up', srv'.pc) /\ srv' \in Servers /\ srv'.schema = srv.schema
    BY <1>1, <1>11, <2>1, <2>2, Zenon
  <2> QED
    BY <1>1, <1>11, <2>2, <2>3, QuietStep
<1>12. CASE srv.pc = "skip" /\ h = "last" /\ Serve("idle", 0) /\ down' = down
  <2>1. srv' \in Servers /\ srv'.pc = "idle" /\ srv'.schema = srv.schema
    BY <1>6, <1>12, Zenon
  <2>2. /\ up' \in Seq(UpPackets) /\ Upstream(up', "idle")
        /\ Some(up', Requests) <=> Some(up, Requests)
        /\ Has(up', "insert") <=> Has(up, "insert")
        /\ Has(up', "ddl") <=> Has(up, "ddl")
        /\ \A i \in 1..Len(up') : \E j \in 1..Len(up) : up'[i] = up[j]
    BY <1>1, <1>2, <1>4, <1>12, TakesOther, ZenonT(60)
  <2>3. Upstream(up', srv'.pc) /\ Has(up, "last")
    BY <1>7, <1>12, <2>1, <2>2
  <2> QED
    BY <1>1, <1>12, <2>1, <2>2, <2>3, QuietStep, Zenon
<1>13. CASE srv.pc = "query" /\ h = "cancel" /\ Serve("idle", 0) /\ Reply("eos", srv.req)
  <2>1. PICK q \in Nat : q = srv.req
    BY <1>1, Zenon DEF Servers
  <2>2. srv' \in Servers /\ srv'.pc = "idle" /\ srv'.schema = srv.schema
    BY <1>6, <1>13, Zenon
  <2>3. /\ up' \in Seq(UpPackets) /\ Upstream(up', "idle")
        /\ Some(up', Requests) <=> Some(up, Requests)
    BY <1>1, <1>2, <1>4, <1>13, TakesOther, ZenonT(60)
  <2>4. ~Some(up, Requests) /\ (Live => q = cl.req)
    BY <1>1, <1>13, <2>1, ZenonT(60) DEF IInv, SessionInv, Upstream, ReplyInv
  <2>5. Reply("eos", q) /\ "eos" \in Final /\ Upstream(up', srv'.pc)
    BY <1>4, <1>13, <2>1, <2>2, <2>3, Zenon
  <2> QED
    BY <1>1, <1>13, <2>2, <2>3, <2>4, <2>5, AnswerStep
<1>14. CASE srv.pc = "insert" /\ h = "data" /\ Serve("skip", 0) /\ Reply("exc", r)
  <2>1. srv' \in Servers /\ srv'.pc = "skip" /\ srv'.schema = srv.schema
    BY <1>6, <1>14, Zenon
  <2>2. /\ up' \in Seq(UpPackets) /\ Upstream(up', "skip")
        /\ Some(up', Requests) <=> Some(up, Requests)
        /\ Has(up', "last") <=> Has(up, "last")
    BY <1>1, <1>2, <1>4, <1>14, TakesOther, ZenonT(60)
  <2>3. ~Some(up, Requests) /\ (Live => r = cl.req)
    BY <1>1, <1>7, <1>14, ZenonT(60) DEF IInv, SessionInv, Upstream, ReplyInv
  <2>4. "exc" \in Final /\ Upstream(up', srv'.pc)
    BY <1>4, <2>1, <2>2, Zenon
  <2> QED
    BY <1>1, <1>14, <2>1, <2>2, <2>3, <2>4, AnswerStep, ZenonT(60)
<1>15. CASE srv.pc = "insert" /\ h = "last" /\ Serve("idle", 0) /\ (Reply("eos", r) \/ Reply("exc", r))
  <2>1. srv' \in Servers /\ srv'.pc = "idle" /\ srv'.schema = srv.schema
    BY <1>6, <1>15
  <2>2. /\ up' \in Seq(UpPackets) /\ Upstream(up', "idle")
        /\ Some(up', Requests) <=> Some(up, Requests)
    BY <1>1, <1>2, <1>4, <1>15, TakesOther
  <2>3. ~Some(up, Requests) /\ (Live => r = cl.req) /\ Has(up, "last")
    BY <1>1, <1>7, <1>15, ZenonT(60) DEF IInv, SessionInv, Upstream, ReplyInv
  <2>4. Upstream(up', srv'.pc)
    BY <2>1, <2>2
  <2>5. PICK k \in Final : Reply(k, r)
    BY <1>4, <1>15
  <2>6. k # "data"
    BY Zenon DEF Final
  <2> QED
    BY <1>1, <1>15, <2>1, <2>2, <2>3, <2>4, <2>5, <2>6, AnswerStep, ZenonT(60)
<1> QED
  BY <1>5, <1>8, <1>9, <1>10, <1>11, <1>12, <1>13, <1>14, <1>15, ZenonT(60)

LEMMA StutterStep ==
    ASSUME IInv, UNCHANGED vars
    PROVE  IInv'
<1>1. UNCHANGED <<setup, dog, sock, peer, modes, cl, buf, cached, up, down, srv, mixed, unseen>>
  BY DEF vars, setupVars, session
<1>2. ClientTypeOK' /\ EscapesAlive' /\ Untouched'
  BY <1>1 DEF IInv, ClientTypeOK, EscapesAlive, Untouched
<1>3. Upstream(up, srv.pc)' /\ CleanInv' /\ ~mixed'
  BY <1>1, Zenon DEF IInv, SessionInv, CleanInv, Clean
<1>4. ReplyInv'
  BY <1>1, ZenonT(60) DEF IInv, SessionInv, ReplyInv, Live
<1>5. HalfInv' /\ InsertInv'
  BY <1>1 DEF IInv, SessionInv, HalfInv, InsertInv, Live
<1>6. CacheInv'
  BY <1>1 DEF IInv, SessionInv, CacheInv, Current, Changing
<1> QED
  BY <1>2, <1>3, <1>4, <1>5, <1>6 DEF IInv, SessionInv

LEMMA NextStep ==
    ASSUME IInv, spoilt' = {}, Next
    PROVE  IInv'
<1>1. CASE SetupNext /\ UNCHANGED session
  BY <1>1, SetupStep
<1>2. CASE Client
  <2>1. CASE Starts
    BY <2>1, StartStep
  <2>2. CASE ClearSchemaCache
    BY <2>2, ClearStep
  <2>3. CASE SendData \/ EndInsert
    BY <2>3, BlockStep
  <2>4. CASE Fill
    BY <2>4, FillStep
  <2>5. CASE ReadTrailer \/ DiscardBlock \/ KeepBlock \/ VisitBlock \/ StreamBlock \/ BudgetBreach
    BY <2>5, BlockReadStep
  <2>6. CASE ReadStructure
    BY <2>6, StructureStep, Zenon
  <2>7. CASE ReadException \/ ReadAnswer \/ ReadEndOfStream
    BY <2>7, EndReadStep
  <2>8. CASE ReadFails
    BY <2>8, FailStep
  <2> QED
    BY <1>2, <2>1, <2>2, <2>3, <2>4, <2>5, <2>6, <2>7, <2>8 DEF Client, Starts
<1>3. CASE ServerTakes
  BY <1>3, ServerTakesStep, SMTT(60)
<1>4. CASE ServerSends
  BY <1>4, ServerSendsStep, SMTT(60)
<1> QED
  BY <1>1, <1>2, <1>3, <1>4 DEF Next

-----------------------------------------------------------------------------
(* What holds whatever befell the stream.                                  *)

LEMMA BaseKept ==
    ASSUME Base, setup.pc = "ready", UNCHANGED <<setup, dog, modes>>,
           sock' = sock \/ (sock' = [sock EXCEPT !.shut = sock'.shut] /\ sock'.shut \in BOOLEAN),
           cl' \in Calls, buf' \in Seq(DownPackets), down' \in Seq(DownPackets),
           up' \in Seq(UpPackets), srv' \in Servers, cached' \in Int, mixed' \in BOOLEAN
    PROVE  Base'
<1>1. ClientTypeOK /\ EscapesAlive
  BY DEF Base
<1>2. ClientTypeOK'
  BY <1>1, TypesKept
<1>3. EscapesAlive' /\ Untouched'
  BY <1>1, SetupOver
<1> QED
  BY <1>2, <1>3 DEF Base

LEMMA SendsPacket ==
    ASSUME up \in Seq(UpPackets), NEW k \in UpKinds, NEW r \in Nat, Sends(k, r)
    PROVE  up' \in Seq(UpPackets)
<1>1. Packet(k, r) \in UpPackets
  BY DEF Packet, UpPackets
<1> QED
  BY <1>1, AppendProperties DEF Sends

LEMMA WriteBase ==
    ASSUME Base, setup.pc = "ready", NEW op \in Ops, NEW k \in Requests,
           NEW then \in {"none", "begin", "send"}, write_packet(op, k, then)
    PROVE  Base'
<1>1. /\ UNCHANGED <<setup, dog, sock, modes, buf, cached, down, srv, mixed>>
      /\ cl \in Calls /\ up \in Seq(UpPackets) /\ cl.req \in Nat /\ k \in UpKinds
      /\ buf \in Seq(DownPackets) /\ down \in Seq(DownPackets) /\ srv \in Servers
      /\ cached \in Int /\ mixed \in BOOLEAN
  BY DEF write_packet, setupVars, Base, ClientTypeOK, Calls, UpKinds
<1>2. PICK r \in Nat : r = cl.req + 1
  BY <1>1
<1>3. cl' \in Calls /\ up' \in Seq(UpPackets)
  <2>1. CASE sock.shut
    <3>1. cl' = [cl EXCEPT !.pc = "closed"] /\ up' = up
      BY <2>1 DEF write_packet
    <3> QED
      BY <1>1, <3>1, Zenon DEF Calls
  <2>2. CASE ~sock.shut
    <3>1. /\ cl' = [cl EXCEPT !.pc = "reading", !.op = op, !.req = r,
                              !.kept = 0, !.then = then, !.half = FALSE]
          /\ Sends(k, r)
      BY <1>2, <2>2 DEF write_packet, Sends
    <3>2. cl' \in Calls
      BY <1>1, <3>1, ZenonT(60) DEF Calls
    <3> QED
      BY <1>1, <3>1, <3>2, SendsPacket
  <2> QED
    BY <2>1, <2>2
<1> QED
  BY <1>1, <1>3, BaseKept

(* A call returns.                                                         *)
LEMMA ReturnBase ==
    ASSUME cl \in Calls, NEW pc \in {"idle", "inserting", "closed"}, NEW causes, Return(pc, causes)
    PROVE  cl' \in Calls /\ buf' \in Seq(DownPackets) /\ (spoilt' = {} => spoilt = {})
<1>1. PICK op : op = IF pc = "inserting" THEN "begin" ELSE "none"
  OBVIOUS
<1>2. op \in Ops /\ cl' = [cl EXCEPT !.pc = pc, !.op = op, !.kept = 0]
  BY <1>1 DEF Return, Ops
<1>3. cl' \in Calls
  BY <1>2, ZenonT(60) DEF Calls
<1>4. buf' \in Seq(DownPackets) /\ (spoilt' = {} => spoilt = {})
  BY EmptySeq, Zenon DEF Return, DropReader
<1> QED
  BY <1>3, <1>4

LEMMA FailedBase ==
    ASSUME cl \in Calls, Failed
    PROVE  cl' \in Calls /\ buf' \in Seq(DownPackets) /\ (spoilt' = {} => spoilt = {})
BY ReturnBase DEF Failed

(* A call reads on.                                                        *)
LEMMA ContinueBase ==
    ASSUME buf \in Seq(DownPackets), buf # <<>>, NEW call \in Calls, Continue(call)
    PROVE  cl' \in Calls /\ buf' \in Seq(DownPackets) /\ spoilt' = spoilt
<1>1. buf' \in Seq(DownPackets)
  BY HeadTailProperties DEF Continue
<1> QED
  BY <1>1 DEF Continue

LEMMA ReadBase ==
    ASSUME Base, NEW ks, Next1(ks), cl' \in Calls, buf' \in Seq(DownPackets),
           up' \in Seq(UpPackets), cached' \in Int,
           sock' = sock \/ (sock' = [sock EXCEPT !.shut = sock'.shut] /\ sock'.shut \in BOOLEAN)
    PROVE  Base'
<1>1. /\ setup.pc = "ready" /\ UNCHANGED <<setup, dog, modes>>
      /\ down' \in Seq(DownPackets) /\ srv' \in Servers
  BY DEF Next1, Base, Untouched, ClientTypeOK
<1>2. mixed' \in BOOLEAN
  <2>1. mixed' = Foreign(Head(buf))
    BY DEF Next1
  <2>2. Foreign(Head(buf)) \in BOOLEAN
    BY Zenon DEF Foreign
  <2> QED
    BY <2>1, <2>2, Zenon
<1> QED
  BY <1>1, <1>2, BaseKept

LEMMA ClientBase ==
    ASSUME Base, Client
    PROVE  Base' /\ (spoilt' = {} => spoilt = {})
<1>1. /\ cl \in Calls /\ cl.req \in Nat /\ cl.kept \in Nat /\ cached \in Int
      /\ buf \in Seq(DownPackets) /\ down \in Seq(DownPackets) /\ up \in Seq(UpPackets)
      /\ srv \in Servers /\ mixed \in BOOLEAN
      /\ cl.pc \in {"reading", "inserting"} => setup.pc = "ready"
  BY DEF Base, ClientTypeOK, Calls, Untouched
<1>2. CASE Starts
  <2>1. PICK op \in Ops, k \in Requests, then \in {"none", "begin", "send"} : write_packet(op, k, then)
    BY <1>2, StartsCall
  <2>2. setup.pc = "ready" /\ spoilt' = spoilt
    BY <1>2, StartsCall DEF Idle
  <2> QED
    BY <2>1, <2>2, WriteBase
<1>3. CASE ClearSchemaCache
  <2>1. /\ setup.pc = "ready" /\ cached' = Cold
        /\ UNCHANGED <<setup, dog, sock, modes, cl, buf, up, down, srv, mixed, spoilt>>
    BY <1>3 DEF ClearSchemaCache, Idle, setupVars
  <2>2. cached' \in Int
    BY <2>1 DEF Cold
  <2> QED
    BY <1>1, <2>1, <2>2, BaseKept
<1>4. ASSUME cl.pc = "inserting", NEW k \in {"data", "last"}, Sends(k, cl.req), cl' \in Calls,
             UNCHANGED <<setupVars, buf, cached, down, srv, mixed, spoilt>>
      PROVE  Base' /\ (spoilt' = {} => spoilt = {})
  <2>1. k \in UpKinds /\ UNCHANGED <<setup, dog, sock, modes>>
    BY <1>4 DEF UpKinds, setupVars
  <2>2. PICK r \in Nat : r = cl.req
    BY <1>1
  <2>3. up' \in Seq(UpPackets)
    BY <1>1, <1>4, <2>1, <2>2, SendsPacket
  <2> QED
    BY <1>1, <1>4, <2>1, <2>3, BaseKept
<1>5. CASE SendData
  <2>1. PICK named \in BOOLEAN : SendBlock(named)
    BY <1>5, Zenon DEF SendData
  <2>2. CASE named /\ cached = Cold
    <3>1. /\ write_packet("describe", "query", "none") /\ setup.pc = "ready"
          /\ spoilt' = spoilt \cup {"named"}
      BY <1>1, <2>1, <2>2 DEF SendBlock
    <3>2. "describe" \in Ops /\ "query" \in Requests
      BY DEF Ops, Requests
    <3>3. Base'
      BY <3>1, <3>2, WriteBase
    <3> QED
      BY <3>1, <3>3, Zenon
  <2>3. CASE ~(named /\ cached = Cold)
    <3>1. cl.pc = "inserting" /\ WriteBlock
      BY <2>1, <2>3, Zenon DEF SendBlock
    <3>2. /\ cl' = [cl EXCEPT !.kept = cl.kept + 1] /\ cl.kept + 1 \in Nat
          /\ Sends("data", cl.req)
          /\ UNCHANGED <<setupVars, buf, cached, down, srv, mixed, spoilt>>
      BY <1>1, <3>1 DEF WriteBlock, Sends
    <3>3. cl' \in Calls
      BY <1>1, <3>2, Zenon DEF Calls
    <3> QED
      BY <1>4, <3>1, <3>2, <3>3
  <2> QED
    BY <2>2, <2>3
<1>6. CASE EndInsert
  <2>1. /\ cl.pc = "inserting" /\ Sends("last", cl.req)
        /\ cl' = [cl EXCEPT !.pc = "reading", !.op = "rows", !.half = FALSE]
        /\ UNCHANGED <<setupVars, buf, cached, down, srv, mixed, spoilt>>
    BY <1>6 DEF EndInsert, Sends
  <2>2. cl' \in Calls
    BY <1>1, <2>1, ZenonT(60) DEF Calls, Ops
  <2> QED
    BY <1>4, <2>1, <2>2
<1>7. CASE Fill
  <2>1. /\ cl.pc = "reading" /\ down # <<>>
        /\ UNCHANGED <<setup, dog, sock, modes, cl, cached, up, srv, mixed, spoilt>>
    BY <1>7 DEF Fill, setupVars
  <2>2. Len(down) \in Nat /\ Len(down) > 0
    BY <1>1, <2>1, EmptySeq, LenProperties
  <2>3. PICK n \in 1..Len(down) : Fills(n)
    BY <1>7, <2>2 DEF Fill, Fills, ReadAhead
  <2>4. buf' \in Seq(DownPackets) /\ down' \in Seq(DownPackets)
    BY <1>1, <2>3, FillsBuffer
  <2> QED
    BY <1>1, <2>1, <2>4, BaseKept
<1>8. CASE ReadFails
  <2>1. /\ cl.pc = "reading"
        /\ UNCHANGED <<setup, dog, modes, cached, up, down, srv, mixed>>
        /\ sock' = sock \/ sock' = [sock EXCEPT !.shut = TRUE]
        /\ Return("idle", {}) \/ Failed
    BY <1>8 DEF ReadFails
  <2>2. cl' \in Calls /\ buf' \in Seq(DownPackets) /\ (spoilt' = {} => spoilt = {})
    BY <1>1, <2>1, ReturnBase, FailedBase
  <2>3. sock' = sock \/ (sock' = [sock EXCEPT !.shut = sock'.shut] /\ sock'.shut \in BOOLEAN)
    BY <2>1, Zenon DEF Base, ClientTypeOK
  <2> QED
    BY <1>1, <2>1, <2>2, <2>3, BaseKept
<1>9. CASE ReadTrailer \/ DiscardBlock \/ KeepBlock \/ VisitBlock \/ StreamBlock \/ ReadStructure \/ ReadAnswer
  <2>1. (\E ks : Next1(ks)) /\ buf # <<>> /\ UNCHANGED <<sock, cached, up>>
    BY <1>9 DEF ReadTrailer, DiscardBlock, KeepBlock, VisitBlock, StreamBlock, ReadStructure,
       ReadAnswer, Next1
  <2>2. /\ [cl EXCEPT !.half = Head(buf).k \in Halved] \in Calls
        /\ [cl EXCEPT !.kept = cl.kept + 1] \in Calls
    <3>1. (Head(buf).k \in Halved) \in BOOLEAN
      OBVIOUS
    <3>2. cl.kept + 1 \in Nat
      BY <1>1
    <3> QED
      BY <1>1, <3>1, <3>2, Zenon DEF Calls
  <2>3. \/ Continue([cl EXCEPT !.half = Head(buf).k \in Halved])
        \/ Continue([cl EXCEPT !.kept = cl.kept + 1])
        \/ Continue(cl) \/ Failed \/ Return("inserting", {}) \/ Return("idle", {})
    BY <1>9 DEF ReadTrailer, DiscardBlock, KeepBlock, VisitBlock, StreamBlock, ReadStructure, ReadAnswer
  <2>4. cl' \in Calls /\ buf' \in Seq(DownPackets) /\ (spoilt' = {} => spoilt = {})
    <3>1. CASE \E call \in Calls : Continue(call)
      BY <1>1, <2>1, <3>1, ContinueBase
    <3>2. CASE Failed \/ Return("inserting", {}) \/ Return("idle", {})
      BY <1>1, <3>2, ReturnBase, FailedBase
    <3> QED
      BY <1>1, <2>2, <2>3, <3>1, <3>2, Zenon
  <2> QED
    BY <1>1, <2>1, <2>4, ReadBase
<1>10. CASE BudgetBreach
  <2>1. /\ (\E ks : Next1(ks)) /\ buf # <<>> /\ UNCHANGED <<sock, cached>>
        /\ Continue([cl EXCEPT !.op = "drain", !.then = "none"]) /\ Sends("cancel", cl.req)
    BY <1>10 DEF BudgetBreach, Next1, Sends
  <2>2. [cl EXCEPT !.op = "drain", !.then = "none"] \in Calls
    BY <1>1, Zenon DEF Calls, Ops
  <2>3. cl' \in Calls /\ buf' \in Seq(DownPackets) /\ spoilt' = spoilt
    BY <1>1, <2>1, <2>2, ContinueBase
  <2>4. PICK r \in Nat : r = cl.req
    BY <1>1
  <2>5. up' \in Seq(UpPackets)
    BY <1>1, <2>1, <2>4, SendsPacket DEF UpKinds
  <2> QED
    BY <1>1, <2>1, <2>3, <2>5, ReadBase
<1>11. CASE ReadException
  <2>1. /\ (\E ks : Next1(ks)) /\ Return("idle", {}) /\ UNCHANGED <<cached, up>>
        /\ sock' = [sock EXCEPT !.shut = sock.shut \/ cl.op = "drain"]
    BY <1>11 DEF ReadException
  <2>2. sock' = [sock EXCEPT !.shut = sock'.shut] /\ sock'.shut \in BOOLEAN
    <3>1. sock \in [shut : BOOLEAN, read : {"none", "setup", "query"}, write : {"none", "setup"}]
      BY DEF Base, ClientTypeOK
    <3> QED
      BY <2>1, <3>1
  <2>3. cl' \in Calls /\ buf' \in Seq(DownPackets) /\ (spoilt' = {} => spoilt = {})
    BY <1>1, <2>1, ReturnBase
  <2> QED
    BY <1>1, <2>1, <2>2, <2>3, ReadBase
<1>12. CASE ReadEndOfStream
  <2>1. (\E ks : Next1(ks)) /\ cached' = CacheAfter /\ sock' = sock
    BY <1>12 DEF ReadEndOfStream
  <2>2. cached' \in Int
    <3>1. Cold \in Int /\ srv.schema \in Int
      BY <1>1 DEF Cold, Servers
    <3> QED
      BY <1>1, <2>1, <3>1 DEF CacheAfter
  <2>3. cl' \in Calls /\ buf' \in Seq(DownPackets) /\ up' \in Seq(UpPackets)
        /\ (spoilt' = {} => spoilt = {})
    <3>1. CASE cl.then = "begin"
      <4>1. PICK r \in Nat : r = cl.req + 1
        BY <1>1
      <4>2. /\ cl' = [cl EXCEPT !.op = "begin", !.req = r, !.kept = 0, !.then = "send"]
            /\ DropReader({}) /\ Sends("insert", r)
        BY <1>12, <3>1, <4>1 DEF ReadEndOfStream, Sends
      <4>3. cl' \in Calls
        BY <1>1, <4>2, ZenonT(60) DEF Calls, Ops
      <4>4. buf' \in Seq(DownPackets) /\ (spoilt' = {} => spoilt = {})
        BY <4>2, EmptySeq, Zenon DEF DropReader
      <4>5. up' \in Seq(UpPackets)
        BY <1>1, <4>2, SendsPacket DEF UpKinds, Requests
      <4> QED
        BY <4>3, <4>4, <4>5
    <3>2. CASE cl.then # "begin"
      <4>1. Return("idle", {}) /\ up' = up
        BY <1>12, <3>2 DEF ReadEndOfStream
      <4> QED
        BY <1>1, <4>1, ReturnBase
    <3> QED
      BY <3>1, <3>2
  <2> QED
    BY <2>1, <2>2, <2>3, ReadBase
<1> QED
  BY <1>2, <1>3, <1>5, <1>6, <1>7, <1>8, <1>9, <1>10, <1>11, <1>12 DEF Client, Starts

LEMMA ServerBase ==
    ASSUME Base, ServerTakes \/ ServerSends
    PROVE  Base' /\ spoilt' = spoilt
<1>1. /\ srv \in Servers /\ srv.req \in Nat /\ down \in Seq(DownPackets) /\ up \in Seq(UpPackets)
      /\ modes \in [ok : BOOLEAN, chunked : BOOLEAN] /\ setup.pc = "ready"
      /\ UNCHANGED <<setup, dog, sock, modes, cl, buf, cached, mixed, spoilt>>
      /\ cl \in Calls /\ buf \in Seq(DownPackets) /\ cached \in Int /\ mixed \in BOOLEAN
  BY DEF ServerTakes, ServerSends, setupVars, Base, Untouched, ClientTypeOK, Servers
<1>2. ASSUME NEW k \in {"data", "log", "eos", "exc", "pong", "tables"}, NEW r \in Nat, Reply(k, r)
      PROVE  down' \in Seq(DownPackets)
  <2>1. k \in {"data", "log"} \cup Final
    BY DEF Final
  <2> QED
    BY <1>1, <1>2, <2>1, Replies
<1>3. ASSUME NEW pc \in {"idle", "query", "ddl", "insert", "skip"}, NEW q \in Nat, Serve(pc, q)
      PROVE  srv' \in Servers
  BY <1>1, <1>3, ZenonT(60) DEF Serve, Servers
<1>4. up' \in Seq(UpPackets) /\ srv' \in Servers /\ down' \in Seq(DownPackets)
  <2>1. CASE ServerTakes
    <3>1. up # <<>> /\ up' = Tail(up)
      BY <2>1 DEF ServerTakes
    <3>2. up' \in Seq(UpPackets)
      BY <1>1, <3>1, HeadTailProperties
    <3>3. PICK h \in UpKinds, r \in Nat : h = Head(up).k /\ r = Head(up).req
      <4>1. Head(up) \in UpPackets
        BY <1>1, <3>1, HeadTailProperties
      <4> QED
        BY <4>1 DEF UpPackets
    <3>4. /\ \/ srv' = srv
             \/ \E pc \in {"idle", "query", "ddl", "insert", "skip"}, q \in Nat : Serve(pc, q)
          /\ \/ down' = down
             \/ \E k \in {"data", "log", "eos", "exc", "pong", "tables"}, q \in Nat : Reply(k, q)
      BY <1>1, <2>1, <3>3 DEF ServerTakes
    <3> QED
      BY <1>1, <1>2, <1>3, <3>2, <3>4
  <2>2. CASE ServerSends
    <3>1. PICK r \in Nat : r = srv.req
      BY <1>1
    <3>2. /\ up' = up
          /\ \E k \in {"data", "log", "eos", "exc", "pong", "tables"} : Reply(k, r)
          /\ \/ srv' = [srv EXCEPT !.sent = srv.sent + 1] \/ srv' = [srv EXCEPT !.sent = 1]
             \/ Serve("idle", 0)
             \/ srv' = [srv EXCEPT !.pc = "idle", !.req = 0, !.schema = srv.schema + 1]
      BY <2>2, <3>1 DEF ServerSends
    <3>3. srv.sent + 1 \in Nat /\ srv.schema + 1 \in Nat
      BY <1>1 DEF Servers
    <3>4. srv' \in Servers
      <4>1. CASE Serve("idle", 0)
        BY <1>3, <4>1
      <4>2. CASE srv' = [srv EXCEPT !.sent = srv.sent + 1] \/ srv' = [srv EXCEPT !.sent = 1]
        BY <1>1, <3>3, <4>2 DEF Servers
      <4>3. CASE srv' = [srv EXCEPT !.pc = "idle", !.req = 0, !.schema = srv.schema + 1]
        BY <1>1, <3>3, <4>3, Zenon DEF Servers
      <4> QED
        BY <3>2, <4>1, <4>2, <4>3
    <3> QED
      BY <1>1, <1>2, <3>1, <3>2, <3>4
  <2> QED
    BY <2>1, <2>2
<1> QED
  BY <1>1, <1>4, BaseKept

LEMMA BaseStep ==
    ASSUME Base, Next
    PROVE  Base' /\ (spoilt' = {} => spoilt = {})
<1>1. CASE SetupNext /\ UNCHANGED session
  BY <1>1, SetupBase DEF session
<1> QED
  BY <1>1, ClientBase, ServerBase DEF Next

-----------------------------------------------------------------------------
(* The theorems.                                                           *)

LEMMA ClientInvStep ==
    ASSUME ClientInv, [Next]_vars
    PROVE  ClientInv'
<1>1. Base /\ (spoilt = {} => IInv)
  BY DEF ClientInv, Base, IInv
<1>2. CASE Next
  <2>1. Base' /\ (spoilt' = {} => spoilt = {})
    BY <1>1, <1>2, BaseStep
  <2>2. ASSUME spoilt' = {} PROVE IInv'
    BY <1>1, <1>2, <2>1, <2>2, NextStep
  <2> QED
    BY <2>1, <2>2 DEF ClientInv, IInv
<1>3. CASE UNCHANGED vars
  <2>1. UNCHANGED <<setup, dog, sock, modes, cl, buf, cached, up, down, srv, mixed, spoilt>>
    BY <1>3 DEF vars, setupVars, session
  <2>2. Base'
    BY <1>1, <2>1 DEF Base, ClientTypeOK, EscapesAlive, Untouched
  <2>3. ASSUME spoilt' = {} PROVE IInv'
    BY <1>1, <1>3, <2>1, <2>3, StutterStep
  <2> QED
    BY <2>2, <2>3 DEF ClientInv, IInv
<1> QED
  BY <1>2, <1>3

LEMMA ClientInvariant == Spec => []ClientInv
<1>1. Init => ClientInv
  BY InitIInv DEF IInv, ClientInv, Base
<1>2. ClientInv /\ [Next]_vars => ClientInv'
  BY ClientInvStep
<1> QED
  BY <1>1, <1>2, PTL DEF Spec

(* Every call reads its own reply and nothing else, whatever mix of calls, *)
(* exceptions, spent budgets and failed drains came before it on the       *)
(* connection, for every size of results and of the budget, and wherever   *)
(* reads end: until a client is used on after a call failed inside its     *)
(* reply, a reader is dropped inside a packet, or a block is sent under    *)
(* the name of a table that is not cached.                                 *)
THEOREM OwnReplyHolds == Spec => []OwnReply
<1>1. ClientInv => OwnReply
  BY DEF ClientInv, SessionInv, OwnReply
<1> QED
  BY <1>1, ClientInvariant, PTL

(* The server finds a request where it waits for a block only behind one   *)
(* of the same three: insert() never causes it, nor do begin_insert,       *)
(* send_data and end_insert while the schema is cached or no table named.  *)
THEOREM InsertUndisturbedHolds == Spec => []InsertUndisturbed
<1>1. ClientInv => InsertUndisturbed
  <2> SUFFICES ASSUME Base, SessionInv, srv.pc = "insert", up # <<>>, Head(up).k \in Requests
               PROVE  FALSE
    BY DEF InsertUndisturbed, ClientInv
  <2>1. up \in Seq(UpPackets) /\ Upstream(up, srv.pc)
    BY DEF Base, ClientTypeOK, SessionInv
  <2>2. PICK pc : pc = srv.pc
    BY Zenon
  <2>3. Some(up, Requests)
    BY <2>1, <2>2, TakeRequest, ZenonT(60)
  <2> QED
    BY <2>1, <2>3, Zenon DEF Upstream
<1> QED
  BY <1>1, ClientInvariant, PTL

(* Between calls and during an insert schema_cache is empty or holds what  *)
(* the statements of this client left behind: until one of them went       *)
(* through query(), or its call failed inside the reply and the client     *)
(* was used on.                                                            *)
THEOREM CacheFreshHolds == Spec => []CacheFresh
<1>1. ClientInv => CacheFresh
  BY DEF ClientInv, SessionInv, CacheInv, Current, Changing, CacheFresh
<1> QED
  BY <1>1, ClientInvariant, PTL

(* A client that connect_with_config hands out has outlived its watchdog   *)
(* and never meets it again, for every number of addresses and every       *)
(* caller.                                                                 *)
THEOREM EscapesAliveHolds == Spec => []EscapesAlive
<1> DEFINE Inv == SetupTypeOK /\ EscapesAlive
<1>1. Init => Inv
  <2> SUFFICES ASSUME Init PROVE Inv
    BY Zenon
  <2>1. /\ setup = [pc |-> "connect", addr |-> 1, result |-> "none"]
        /\ dog = [pc |-> "off", stop |-> FALSE, expired |-> FALSE]
        /\ sock = [shut |-> FALSE, read |-> "none", write |-> "none"]
    BY ZenonT(60) DEF Init, SetupInit
  <2> QED
    BY <2>1 DEF SetupTypeOK, EscapesAlive
<1>2. ASSUME Inv, [Next]_vars PROVE Inv'
  <2>1. CASE SetupNext
    BY <1>2, <2>1, SetupKeeps
  <2>2. ASSUME UNCHANGED <<setup, dog>>,
               sock' = sock \/ \E b \in BOOLEAN : sock' = [sock EXCEPT !.shut = b]
        PROVE  Inv'
    BY <1>2, <2>2 DEF SetupTypeOK, EscapesAlive
  <2>3. CASE UNCHANGED vars \/ ServerTakes \/ ServerSends
    BY <2>2, <2>3 DEF vars, setupVars, ServerTakes, ServerSends
  <2>4. CASE Client
    <3>1. CASE ReadException
      <4>1. UNCHANGED <<setup, dog>> /\ sock' = [sock EXCEPT !.shut = sock.shut \/ cl.op = "drain"]
        BY <3>1 DEF ReadException, Next1
      <4>2. (sock.shut \/ cl.op = "drain") \in BOOLEAN
        OBVIOUS
      <4> QED
        BY <2>2, <4>1, <4>2, Zenon
    <3>2. CASE ReadFails
      BY <2>2, <3>2, ZenonT(60) DEF ReadFails
    <3>3. CASE \/ Execute \/ Query \/ QueryWithBlockView \/ StartStream \/ Ping \/ TablesStatus
               \/ SchemaForTable \/ ClearSchemaCache \/ BeginInsert \/ Insert \/ SendData
               \/ EndInsert \/ Fill
      BY <2>2, <3>3 DEF Execute, Query, QueryWithBlockView, StartStream, Ping, TablesStatus,
         SchemaForTable, ClearSchemaCache, BeginInsert, Insert, SendData, SendBlock, EndInsert,
         Fill, Call, write_packet, WriteBlock, setupVars
    <3>4. CASE \/ ReadTrailer \/ DiscardBlock \/ BudgetBreach \/ KeepBlock \/ VisitBlock
               \/ StreamBlock \/ ReadStructure \/ ReadEndOfStream \/ ReadAnswer
      BY <2>2, <3>4 DEF ReadTrailer, DiscardBlock, BudgetBreach, KeepBlock, VisitBlock,
         StreamBlock, ReadStructure, ReadEndOfStream, ReadAnswer, Next1
    <3> QED
      BY <2>4, <3>1, <3>2, <3>3, <3>4 DEF Client
  <2> QED
    BY <1>2, <2>1, <2>3, <2>4 DEF Next
<1> QED
  BY <1>1, <1>2, PTL DEF Spec
=============================================================================
