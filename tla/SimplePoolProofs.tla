-------------------------- MODULE SimplePoolProofs --------------------------
(***************************************************************************)
(* Proofs about SimplePool, for every number of tasks and slots.           *)
(*                                                                         *)
(* The argument is local: a step of a task touches one slot, the one whose *)
(* mutex it holds or takes, and no other task holds that mutex.  So it is  *)
(* enough to say what each control point of a task guarantees about its    *)
(* own connection (Holds) and what an unlocked slot may contain (Rests).   *)
(***************************************************************************)
EXTENDS SimplePool, FiniteSetTheorems, TLAPS

Clean(c) == NoQuery(c.pending) /\ ~ c.torn /\ ~ c.inflight

Rests(c) == c # NoConn => Clean(c)

\* What a task at control point p, using its guard for o, guarantees about
\* the connection c of the slot it has locked.
Holds(p, o, c) ==
    /\ p = "connect" => c = NoConn
    /\ p \in {"reconnect", "alive", "held"} => Rests(c)
    /\ p \in {"preping", "pong", "write"} => NoQuery(c.pending) /\ ~ c.torn /\ c.inflight
    /\ p \in Reading => OwnQueryLast(c.pending)
    /\ p = "session" => OwnQueryLast(c.pending)
    /\ p \in {"read", "structure", "stream"} => c.inflight
    /\ p \in {"read", "structure"} => ~ c.torn
    /\ p \in {"drain", "drained"} => c.inflight \/ o = "insert"
    /\ p \in {"structure", "session", "end"} => o = "insert"
    /\ p = "done" /\ c # NoConn => Clean(c) \/ c.inflight

\* Control points that call stream_mut() or server_info().
UsesConn == (Guarded \ {"done"}) \cup {"alive"}

Exclusive ==
    \A t, u \in Tasks :
        t # u /\ pc[t] \in Locking /\ pc[u] \in Locking => at[t] # at[u]

SweepLeft == \A t \in Tasks : pc[t] = "sweep" => tries[t] > 0

\* The part of the invariant that holds in every environment.
BaseInv ==
    /\ TypeOK
    /\ Exclusive
    /\ SweepLeft
    /\ \A t \in Tasks : pc[t] \in UsesConn => Conn(t) # NoConn
    /\ \A t \in Tasks :
           pc[t] \in Guarded \cup {"alive"} /\ Conn(t) # NoConn => Conn(t).gen = generation
    /\ \A t \in Tasks : pc[t] \in {"preping", "write"} => op[t] \in Ops

ReuseInv ==
    /\ \A t \in Tasks : pc[t] \in Locking => Holds(pc[t], op[t], Conn(t))
    /\ \A s \in Slots : Free(s) => Rests(slot[s])

-----------------------------------------------------------------------------
\* Lemmas on connections and their pending replies

LEMMA NoConnIsNoConn == NoConn \notin Conns
BY DEF NoConn, Conns

LEMMA PendingLemmas ==
    ASSUME NEW p \in Seq({"query", "ping"})
    PROVE  /\ NoQuery(<<>>)
           /\ NoQuery(p) => NoQuery(Append(p, "ping"))
           /\ NoQuery(p) => OwnQueryLast(Append(p, "query"))
           /\ NoQuery(p) /\ p # <<>> => Head(p) # "query" /\ NoQuery(Tail(p))
           /\ OwnQueryLast(p) /\ Head(p) = "ping" => OwnQueryLast(Tail(p))
           /\ OwnQueryLast(p) /\ Head(p) = "query" => NoQuery(Tail(p))
<1>1. NoQuery(<<>>)
  BY DEF NoQuery
<1>2. NoQuery(p) => NoQuery(Append(p, "ping"))
  BY DEF NoQuery
<1>3. NoQuery(p) => OwnQueryLast(Append(p, "query"))
  BY DEF NoQuery, OwnQueryLast
<1>4. NoQuery(p) /\ p # <<>> => Head(p) # "query" /\ NoQuery(Tail(p))
  BY DEF NoQuery
<1>5. OwnQueryLast(p) /\ Head(p) = "ping" => OwnQueryLast(Tail(p))
  <2> SUFFICES ASSUME OwnQueryLast(p), Head(p) = "ping"
               PROVE  OwnQueryLast(Tail(p))
    OBVIOUS
  <2>1. Len(p) > 0 /\ Len(p) \in Nat /\ p[1] = "ping" /\ p[Len(p)] = "query"
    BY DEF OwnQueryLast
  <2>2. Len(p) > 1
    BY <2>1
  <2>3. Tail(p) \in Seq({"query", "ping"}) /\ Len(Tail(p)) = Len(p) - 1
    BY <2>2
  <2>4. \A i \in 1 .. Len(p) - 1 : Tail(p)[i] = p[i + 1]
    BY <2>2
  <2>5. Len(Tail(p)) > 0
    BY <2>1, <2>2, <2>3
  <2>6. Tail(p)[Len(Tail(p))] = "query"
    BY <2>1, <2>2, <2>3, <2>4
  <2>7. \A i \in 1 .. Len(Tail(p)) - 1 : Tail(p)[i] # "query"
    BY <2>2, <2>3, <2>4 DEF OwnQueryLast
  <2> QED
    BY <2>5, <2>6, <2>7 DEF OwnQueryLast
<1>6. OwnQueryLast(p) /\ Head(p) = "query" => NoQuery(Tail(p))
  BY DEF OwnQueryLast, NoQuery
<1> QED
  BY <1>1, <1>2, <1>3, <1>4, <1>5, <1>6

-----------------------------------------------------------------------------
\* Two ways a task moves.  Step: it holds or takes the mutex of its slot, and
\* changes that slot, its control point and its operation.  Roam: it holds no
\* mutex before or after, and changes no slot.

Step(t, c, p, o) ==
    /\ pc[t] \in Locking \/ Free(at[t])
    /\ slot' = [slot EXCEPT ![at[t]] = c]
    /\ pc' = [pc EXCEPT ![t] = p]
    /\ op' = [op EXCEPT ![t] = o]
    /\ UNCHANGED <<next_idx, generation, at, tries>>

Roam(t, p) ==
    /\ pc[t] \notin Locking
    /\ p \notin Locking
    /\ pc' = [pc EXCEPT ![t] = p]
    /\ \A u \in Tasks \ {t} : at'[u] = at[u] /\ tries'[u] = tries[u]
    /\ UNCHANGED <<slot, generation, op>>

LEMMA StepBase ==
    ASSUME BaseInv, NEW t \in Tasks, NEW c \in Conns \cup {NoConn},
           NEW p \in PCs, NEW o \in AllOps, Step(t, c, p, o),
           in_use' \in Int, p # "sweep",
           p \in {"preping", "write"} => o \in Ops,
           p \in UsesConn => c # NoConn,
           p \in Guarded \cup {"alive"} /\ c # NoConn => c.gen = generation
    PROVE  BaseInv'
<1> USE DEF BaseInv, TypeOK, Step, Conn
<1>1. TypeOK'
  OBVIOUS
<1>2. Exclusive'
  BY DEF Exclusive, Free
<1>3. SweepLeft'
  BY DEF SweepLeft
<1>4. \A u \in Tasks \ {t} : pc'[u] = pc[u] /\ (pc[u] \in Locking => slot'[at[u]] = slot[at[u]])
  <2> SUFFICES ASSUME NEW u \in Tasks \ {t}, pc[u] \in Locking
               PROVE  at[u] # at[t]
    OBVIOUS
  <2> QED
    BY DEF Exclusive, Free
<1>5. (\A u \in Tasks : pc[u] \in UsesConn => Conn(u) # NoConn)'
  BY <1>4 DEF UsesConn, Locking, Getting
<1>6. (\A u \in Tasks :
          pc[u] \in Guarded \cup {"alive"} /\ Conn(u) # NoConn => Conn(u).gen = generation)'
  BY <1>4 DEF Locking, Getting
<1>7. (\A u \in Tasks : pc[u] \in {"preping", "write"} => op[u] \in Ops)'
  BY <1>4
<1> QED
  BY <1>1, <1>2, <1>3, <1>5, <1>6, <1>7

LEMMA StepReuse ==
    ASSUME BaseInv, ReuseInv, NEW t \in Tasks, NEW c \in Conns \cup {NoConn},
           NEW p \in PCs, NEW o \in AllOps, Step(t, c, p, o),
           p \in Locking => Holds(p, o, c),
           p \notin Locking => Rests(c)
    PROVE  ReuseInv'
<1> USE DEF BaseInv, TypeOK, Step, Conn
<1>1. \A u \in Tasks \ {t} : pc[u] \in Locking => at[u] # at[t]
  BY DEF Exclusive, Free
<1>2. ASSUME NEW u \in Tasks, pc'[u] \in Locking
      PROVE  Holds(pc'[u], op'[u], slot'[at'[u]])
  <2>1. CASE u = t
    BY <2>1, <1>2
  <2>2. CASE u # t
    <3>1. pc'[u] = pc[u] /\ op'[u] = op[u] /\ slot'[at'[u]] = slot[at[u]]
      BY <2>2, <1>1, <1>2
    <3> QED
      BY <3>1, <1>2 DEF ReuseInv
  <2> QED
    BY <2>1, <2>2
<1>3. ASSUME NEW s \in Slots, Free(s)'
      PROVE  Rests(slot'[s])
  <2>1. CASE s = at[t]
    <3>1. p \notin Locking
      BY <2>1, <1>3 DEF Free
    <3> QED
      BY <3>1, <2>1
  <2>2. CASE s # at[t]
    <3>1. Free(s) /\ slot'[s] = slot[s]
      BY <2>2, <1>3 DEF Free
    <3> QED
      BY <3>1 DEF ReuseInv
  <2> QED
    BY <2>1, <2>2
<1> QED
  BY <1>2, <1>3 DEF ReuseInv

LEMMA RoamBase ==
    ASSUME BaseInv, NEW t \in Tasks, NEW p \in PCs, Roam(t, p), TypeOK',
           p = "sweep" => tries'[t] > 0
    PROVE  BaseInv'
BY DEF BaseInv, TypeOK, Roam, Exclusive, SweepLeft, Conn, UsesConn, Locking, Getting, Guarded

LEMMA RoamReuse ==
    ASSUME BaseInv, ReuseInv, NEW t \in Tasks, NEW p \in PCs, Roam(t, p), TypeOK'
    PROVE  ReuseInv'
<1> USE DEF BaseInv, TypeOK, Roam, Conn
<1>1. ASSUME NEW u \in Tasks, pc'[u] \in Locking
      PROVE  Holds(pc'[u], op'[u], slot'[at'[u]])
  BY <1>1 DEF ReuseInv
<1>2. ASSUME NEW s \in Slots, Free(s)'
      PROVE  Rests(slot'[s])
  BY <1>2 DEF ReuseInv, Free
<1> QED
  BY <1>1, <1>2 DEF ReuseInv

-----------------------------------------------------------------------------
\* The environment in which a reply is never given up half-way by a non-fatal
\* error and an aborted next_block() is not polled again.
Quiet == ~ MidResponseErrors /\ ~ PollAfterAbort

Kept == BaseInv' /\ (Quiet /\ ReuseInv => ReuseInv')

\* A step that keeps the invariant.
Good(t, c, p, o) ==
    /\ c \in Conns \cup {NoConn}
    /\ p \in PCs \ {"sweep"}
    /\ o \in AllOps
    /\ Step(t, c, p, o)
    /\ in_use' \in Int
    /\ p \in {"preping", "write"} => o \in Ops
    /\ p \in UsesConn => c # NoConn
    /\ p \in Guarded \cup {"alive"} /\ c # NoConn => c.gen = generation
    /\ Quiet /\ ReuseInv => IF p \in Locking THEN Holds(p, o, c) ELSE Rests(c)

LEMMA GoodStep ==
    ASSUME BaseInv, NEW t \in Tasks, NEW c, NEW p, NEW o, Good(t, c, p, o)
    PROVE  Kept
<1>1. BaseInv'
  BY StepBase DEF Good
<1>2. ASSUME Quiet, ReuseInv PROVE ReuseInv'
  BY <1>2, StepReuse DEF Good
<1> QED
  BY <1>1, <1>2 DEF Kept

\* Only() is a step of a task that has its slot locked.
LEMMA OnlyGood ==
    ASSUME BaseInv, NEW t \in Tasks, pc[t] \in Locking,
           NEW c \in Conns \cup {NoConn}, NEW p \in PCs \ {"sweep"}, Only(t, c, p),
           p \in {"preping", "write"} => op[t] \in Ops,
           p \in UsesConn => c # NoConn,
           p \in Guarded \cup {"alive"} /\ c # NoConn => c.gen = generation,
           Quiet /\ ReuseInv => IF p \in Locking THEN Holds(p, op[t], c) ELSE Rests(c)
    PROVE  Kept
<1>1. Good(t, c, p, op[t])
  BY DEF Good, Only, Step, SetSlot, Goto, BaseInv, TypeOK
<1> QED
  BY <1>1, GoodStep

\* The operations on a connection change the field they name.
Same(c, d, f) ==
    /\ d \in Conns
    /\ d.gen = c.gen
    /\ "inflight" # f => d.inflight = c.inflight
    /\ "torn" # f => d.torn = c.torn
    /\ "pending" # f => d.pending = c.pending

LEMMA ConnOps ==
    ASSUME NEW c \in Conns
    PROVE  /\ Same(c, Mark(c), "inflight") /\ Mark(c).inflight
           /\ Same(c, Clear(c), "inflight") /\ ~ Clear(c).inflight
           /\ Same(c, Tear(c), "torn") /\ Tear(c).torn
           /\ Same(c, [c EXCEPT !.torn = FALSE], "torn") /\ ~ [c EXCEPT !.torn = FALSE].torn
<1> USE DEF Conns, Same
<1>1. Same(c, Mark(c), "inflight") /\ Mark(c).inflight
  BY Zenon DEF Mark
<1>2. Same(c, Clear(c), "inflight") /\ ~ Clear(c).inflight
  BY Zenon DEF Clear
<1>3. Same(c, Tear(c), "torn") /\ Tear(c).torn
  BY Zenon DEF Tear
<1>4. Same(c, [c EXCEPT !.torn = FALSE], "torn") /\ ~ [c EXCEPT !.torn = FALSE].torn
  BY Zenon
<1> QED
  BY <1>1, <1>2, <1>3, <1>4

LEMMA SendOp ==
    ASSUME NEW c \in Conns, NEW kind \in {"query", "ping"}
    PROVE  Same(c, Send(c, kind), "pending") /\ Send(c, kind).pending = Append(c.pending, kind)
<1>1. Append(c.pending, kind) \in Seq({"query", "ping"})
  BY DEF Conns
<1> QED
  BY <1>1 DEF Conns, Same, Send

LEMMA PopOp ==
    ASSUME NEW c \in Conns, NEW kind, HeadIs(c, kind)
    PROVE  Same(c, Pop(c), "pending") /\ Pop(c).pending = Tail(c.pending)
<1>1. Tail(c.pending) \in Seq({"query", "ping"})
  BY DEF Conns, HeadIs
<1> QED
  BY <1>1 DEF Conns, Same, Pop

\* What a locked slot holds, as the actions use it.
LEMMA Locked ==
    ASSUME BaseInv, NEW t \in Tasks, pc[t] \in Locking
    PROVE  /\ Conn(t) \in Conns \cup {NoConn}
           /\ pc[t] \in UsesConn => Conn(t) \in Conns
           /\ pc[t] \in Guarded \cup {"alive"} /\ Conn(t) # NoConn => Conn(t).gen = generation
           /\ Quiet /\ ReuseInv => Holds(pc[t], op[t], Conn(t))
           /\ op[t] \in AllOps
BY DEF BaseInv, TypeOK, Conn, ReuseInv

-----------------------------------------------------------------------------
\* get()

LEMMA HandOutKept ==
    ASSUME BaseInv, NEW t \in Tasks, pc[t] \in Locking \/ Free(at[t]),
           NEW c \in Conns, HandOut(t, c), c.gen = generation,
           Quiet /\ ReuseInv => Clean(c),
           UNCHANGED <<next_idx, generation, at, tries, op>>
    PROVE  Kept
<1>1. Good(t, c, "held", op[t])
  BY NoConnIsNoConn DEF Good, Step, HandOut, SetSlot, Goto, BaseInv, TypeOK, PCs, Locking,
        Guarded, Getting, Reading, UsesConn, Holds, Rests
<1> QED
  BY <1>1, GoodStep

LEMMA CheckKept ==
    ASSUME BaseInv, NEW t \in Tasks, pc[t] \in Locking \/ Free(at[t]),
           NEW c \in Conns, Check(t, c), Quiet /\ ReuseInv => Clean(c),
           UNCHANGED <<next_idx, generation, at, tries, op>>
    PROVE  Kept
<1> USE DEF SetSlot, Goto, BaseInv, TypeOK, PCs, Locking, Guarded, Getting, Reading, UsesConn
<1>1. CASE SetSlot(t, c) /\ Goto(t, "reconnect") /\ UNCHANGED in_use
  <2>1. Good(t, c, "reconnect", op[t])
    BY <1>1 DEF Good, Step, Holds, Rests
  <2> QED
    BY <2>1, GoodStep
<1>2. CASE /\ c.gen = generation /\ SetSlot(t, Send(c, "ping"))
           /\ Goto(t, "alive") /\ UNCHANGED in_use
  <2>1. /\ Send(c, "ping") \in Conns
        /\ Send(c, "ping").gen = generation
        /\ Clean(c) => Clean(Send(c, "ping"))
    BY <1>2, SendOp, PendingLemmas, Zenon DEF Same, Clean, Conns
  <2>2. Good(t, Send(c, "ping"), "alive", op[t])
    BY <1>2, <2>1, NoConnIsNoConn DEF Good, Step, Holds, Rests
  <2> QED
    BY <2>2, GoodStep
<1>3. CASE c.gen = generation /\ HandOut(t, c)
  BY <1>3, HandOutKept
<1> QED
  BY <1>1, <1>2, <1>3 DEF Check

LEMMA AcquiredKept ==
    ASSUME BaseInv, NEW t \in Tasks, pc[t] \notin Locking, Free(at[t]), Acquired(t),
           UNCHANGED <<next_idx, generation, at, tries, op>>
    PROVE  Kept
<1>0. at[t] \in Slots /\ Conn(t) \in Conns \cup {NoConn}
  BY DEF BaseInv, TypeOK, Conn
<1>1. CASE Conn(t) = NoConn
  <2>1. Good(t, NoConn, "connect", op[t])
    BY <1>1, <1>0 DEF Good, Step, Acquired, Goto, Conn, BaseInv, TypeOK, PCs, Locking, Guarded,
          Getting, Reading, UsesConn, Holds
  <2> QED
    BY <2>1, GoodStep
<1>2. CASE Conn(t) # NoConn
  <2>1. Quiet /\ ReuseInv => Clean(Conn(t))
    BY <1>0, <1>2 DEF ReuseInv, Rests, Conn
  <2> QED
    BY <1>0, <1>2, <2>1, CheckKept DEF Acquired
<1> QED
  BY <1>1, <1>2

LEMMA FreshConn ==
    ASSUME BaseInv
    PROVE  Fresh \in Conns /\ Fresh.gen = generation /\ Clean(Fresh)
<1>1. generation \in 0 .. MaxGen /\ <<>> \in Seq({"query", "ping"})
  BY DEF BaseInv, TypeOK
<1> QED
  BY <1>1 DEF Fresh, Conns, Clean, NoQuery

LEMMA GetKept ==
    ASSUME BaseInv, NEW t \in Tasks, Get(t)
    PROVE  Kept
<1> USE DEF PCs, Locking, Guarded, Getting, Reading
<1>1. CASE GetCall(t)
  <2>1. TypeOK'
    BY <1>1, PoolAssumption DEF GetCall, Goto, BaseInv, TypeOK, Slots
  <2>2. Roam(t, "sweep") /\ tries'[t] > 0
    BY <1>1, PoolAssumption DEF GetCall, Goto, Roam, BaseInv, TypeOK
  <2> QED
    BY <2>1, <2>2, RoamBase, RoamReuse DEF Kept
<1>2. CASE TryLock(t)
  BY <1>2, AcquiredKept DEF TryLock
<1>3. CASE TryLockBusy(t)
  <2>1. TypeOK'
    BY <1>3, PoolAssumption DEF TryLockBusy, Goto, BaseInv, TypeOK, SweepLeft, Slots
  <2>2. tries[t] \in 1 .. NumSlots /\ tries'[t] = tries[t] - 1
    BY <1>3, PoolAssumption DEF TryLockBusy, BaseInv, TypeOK, SweepLeft
  <2>3. CASE tries[t] = 1
    <3>1. Roam(t, "wait")
      BY <1>3, <2>3 DEF TryLockBusy, Goto, Roam, BaseInv, TypeOK
    <3> QED
      BY <2>1, <3>1, RoamBase, RoamReuse DEF Kept
  <2>4. CASE tries[t] # 1
    <3>1. Roam(t, "sweep") /\ tries'[t] > 0
      BY <1>3, <2>2, <2>4, PoolAssumption DEF TryLockBusy, Goto, Roam, BaseInv, TypeOK
    <3> QED
      BY <2>1, <3>1, RoamBase, RoamReuse, SMTT(60) DEF Kept
  <2> QED
    BY <2>3, <2>4
<1>4. CASE LockGranted(t)
  BY <1>4, AcquiredKept DEF LockGranted
<1>5. CASE AcquireTimeout(t)
  <2>1. TypeOK' /\ Roam(t, "idle")
    BY <1>5 DEF AcquireTimeout, Goto, Roam, BaseInv, TypeOK
  <2> QED
    BY <2>1, RoamBase, RoamReuse DEF Kept
<1>6. CASE ConnectOk(t)
  BY <1>6, FreshConn, CheckKept, HandOutKept DEF ConnectOk
<1>7. CASE ConnectErr(t)
  <2>1. Good(t, NoConn, "idle", op[t])
    BY <1>7 DEF ConnectErr, Good, Step, SetSlot, Goto, BaseInv, TypeOK, UsesConn, Rests
  <2> QED
    BY <2>1, GoodStep
<1>8. CASE AliveRead(t)
  <2>0. Conn(t) \in Conns /\ Conn(t).gen = generation /\ (Quiet /\ ReuseInv => Clean(Conn(t)))
    BY <1>8, Locked, NoConnIsNoConn DEF AliveRead, UsesConn, Holds, Rests
  <2>1. CASE HeadIs(Conn(t), "ping") /\ HandOut(t, Pop(Conn(t)))
    <3>1. Same(Conn(t), Pop(Conn(t)), "pending") /\ Pop(Conn(t)).pending = Tail(Conn(t).pending)
      BY <2>0, <2>1, PopOp
    <3>2. Clean(Conn(t)) => Clean(Pop(Conn(t)))
      BY <2>0, <2>1, <3>1, PendingLemmas DEF Same, Clean, Conns, HeadIs
    <3> QED
      BY <1>8, <2>0, <2>1, <3>1, <3>2, HandOutKept, SMTT(60) DEF AliveRead, Same
  <2>2. CASE /\ HeadIs(Conn(t), "query")
             /\ Only(t, Tear(Conn(t)), "reconnect")
    <3>1. Tear(Conn(t)) \in Conns
      BY <2>0, ConnOps, ZenonT(60) DEF Same
    <3>2. ~ Clean(Conn(t))
      BY <2>0, <2>2, PendingLemmas DEF Clean, Conns, HeadIs
    <3> QED
      BY <1>8, <2>0, <2>2, <3>1, <3>2, OnlyGood DEF AliveRead, UsesConn
  <2>3. CASE Conn(t).torn /\ HandOut(t, Conn(t))
    <3>1. ~ Clean(Conn(t))
      BY <2>3 DEF Clean
    <3> QED
      BY <1>8, <2>0, <2>3, <3>1, HandOutKept DEF AliveRead
  <2> QED
    BY <1>8, <2>1, <2>2, <2>3 DEF AliveRead, Only, Tear
<1>9. CASE AliveFails(t)
  <2>0. Conn(t) \in Conns /\ (Quiet /\ ReuseInv => Clean(Conn(t)))
    BY <1>9, Locked, NoConnIsNoConn DEF AliveFails, UsesConn, Holds, Rests
  <2>1. Good(t, Conn(t), "reconnect", op[t])
    BY <1>9, <2>0 DEF AliveFails, Good, Step, Goto, BaseInv, TypeOK, UsesConn, Holds, Rests, Conn
  <2> QED
    BY <2>1, GoodStep
<1>10. CASE DropGet(t)
  <2>1. CASE pc[t] = "wait"
    <3>1. TypeOK' /\ Roam(t, "idle")
      BY <1>10, <2>1 DEF DropGet, Goto, Roam, BaseInv, TypeOK
    <3> QED
      BY <3>1, RoamBase, RoamReuse, SMTT(60) DEF Kept
  <2>2. CASE pc[t] \in Getting
    <3>1. Conn(t) \in Conns \cup {NoConn} /\ (Quiet /\ ReuseInv => Rests(Conn(t)))
      BY <2>2, Locked DEF Holds, Rests
    <3>2. Good(t, Conn(t), "idle", op[t])
      BY <1>10, <2>2, <3>1 DEF DropGet, Good, Step, Goto, BaseInv, TypeOK, UsesConn, Conn
    <3> QED
      BY <3>2, GoodStep
  <2> QED
    BY <1>10, <2>1, <2>2 DEF DropGet
<1> QED
  BY <1>1, <1>2, <1>3, <1>4, <1>5, <1>6, <1>7, <1>8, <1>9, <1>10 DEF Get

-----------------------------------------------------------------------------
\* The response cycle

LEMMA CycleKept ==
    ASSUME BaseInv, NEW t \in Tasks, Cycle(t)
    PROVE  Kept
<1> USE DEF PCs, Locking, Guarded, Getting, Reading, UsesConn, Ops, AllOps
<1> DEFINE c == Conn(t)
<1>0. ASSUME pc[t] \in Guarded \ {"done"}
      PROVE  /\ c \in Conns /\ c.gen = generation /\ c.pending \in Seq({"query", "ping"})
             /\ (Quiet /\ ReuseInv => Holds(pc[t], op[t], c))
             /\ op[t] \in AllOps
             /\ pc[t] \in {"preping", "write"} => op[t] \in Ops
  BY <1>0, Locked, NoConnIsNoConn DEF Conns, BaseInv
<1>1. CASE StartPing(t)
  <2>1. Good(t, Send(Mark(c), "ping"), "pong", "ping")
    <3>1. pc[t] = "held"
      BY <1>1 DEF StartPing
    <3>2. Same(c, Mark(c), "inflight") /\ Mark(c).inflight
      BY <3>1, <1>0, ConnOps, Zenon
    <3>3. /\ Same(Mark(c), Send(Mark(c), "ping"), "pending")
          /\ Send(Mark(c), "ping").pending = Append(c.pending, "ping")
      BY <3>2, SendOp, ZenonT(60) DEF Same
    <3>4. Clean(c) => Holds("pong", "ping", Send(Mark(c), "ping"))
      BY <3>1, <3>2, <3>3, <1>0, PendingLemmas, Zenon DEF Same, Clean, Holds
    <3> QED
      BY <1>1, <1>0, <3>1, <3>2, <3>3, <3>4, NoConnIsNoConn DEF Good, Step, StartPing, SetSlot,
         Goto, BaseInv, TypeOK, Same, Holds, Rests
  <2> QED
    BY <2>1, GoodStep, SMTT(60)
<1>2. CASE StartQuery(t)
  <2>0. pc[t] = "held"
    BY <1>2 DEF StartQuery
  <2>1. PICK o \in Ops : op' = [op EXCEPT ![t] = o]
    BY <1>2 DEF StartQuery
  <2>2. Same(c, Mark(c), "inflight") /\ Mark(c).inflight
    BY <2>0, <1>0, ConnOps, Zenon
  <2>3. CASE SetSlot(t, Send(Mark(c), "ping")) /\ Goto(t, "preping")
    <3>1. /\ Same(Mark(c), Send(Mark(c), "ping"), "pending")
          /\ Send(Mark(c), "ping").pending = Append(c.pending, "ping")
      BY <2>2, SendOp, Zenon DEF Same
    <3>2. Clean(c) => Holds("preping", o, Send(Mark(c), "ping"))
      BY <2>0, <2>2, <3>1, <1>0, PendingLemmas, Zenon DEF Same, Clean, Holds
    <3>3. Good(t, Send(Mark(c), "ping"), "preping", o)
      BY <1>2, <1>0, <2>0, <2>1, <2>2, <2>3, <3>1, <3>2, NoConnIsNoConn, ZenonT(60) DEF Good, Step,
         StartQuery, SetSlot, Goto, BaseInv, TypeOK, Same, Holds, Rests
    <3> QED
      BY <3>3, GoodStep
  <2>4. CASE SetSlot(t, Mark(c)) /\ Goto(t, "write")
    <3>2. Clean(c) => Holds("write", o, Mark(c))
      BY <2>2, SMTT(60) DEF Same, Clean, Holds
    <3>3. Good(t, Mark(c), "write", o)
      BY <1>2, <1>0, <2>0, <2>1, <2>2, <2>4, <3>2, NoConnIsNoConn DEF Good, Step,
         StartQuery, SetSlot, Goto, BaseInv, TypeOK, Same, Holds, Rests
    <3> QED
      BY <3>3, GoodStep, SMTT(60)
  <2> QED
    BY <1>2, <2>3, <2>4 DEF StartQuery
<1>3. CASE PongRead(t)
  <2>0. pc[t] = "pong"
    BY <1>3, SMTT(60) DEF PongRead
  <2>1. CASE HeadIs(c, "ping") /\ Only(t, Clear(Pop(c)), "done")
    <3>1. Same(c, Pop(c), "pending") /\ Pop(c).pending = Tail(c.pending)
      BY <2>0, <2>1, <1>0, PopOp
    <3>2. Same(Pop(c), Clear(Pop(c)), "inflight") /\ ~ Clear(Pop(c)).inflight
      BY <3>1, ConnOps, ZenonT(60) DEF Same
    <3>3. NoQuery(c.pending) /\ ~ c.torn => Holds("done", op[t], Clear(Pop(c)))
      BY <2>0, <2>1, <1>0, <3>1, <3>2, PendingLemmas DEF Same, Holds, Clean, HeadIs
    <3> QED
      BY <2>0, <2>1, <1>0, <3>1, <3>2, <3>3, OnlyGood, SMTT(60) DEF Same, Holds
  <2>2. CASE HeadIs(c, "query") /\ Only(t, Clear(Tear(c)), "done")
    <3>1. Same(c, Tear(c), "torn") /\ Same(Tear(c), Clear(Tear(c)), "inflight")
      BY <2>0, <1>0, ConnOps, ZenonT(60) DEF Same
    <3>2. ~ NoQuery(c.pending)
      BY <2>0, <1>0, <2>2, PendingLemmas DEF HeadIs
    <3> QED
      BY <2>0, <2>2, <1>0, <3>1, <3>2, OnlyGood DEF Same, Holds
  <2> QED
    BY <1>3, <2>1, <2>2 DEF PongRead
<1>4. CASE PrePingRead(t)
  <2>0. pc[t] = "preping"
    BY <1>4 DEF PrePingRead
  <2>1. CASE HeadIs(c, "ping") /\ Only(t, Pop(c), "write")
    <3>1. Same(c, Pop(c), "pending") /\ Pop(c).pending = Tail(c.pending)
      BY <2>0, <2>1, <1>0, PopOp, SMTT(60)
    <3>3. NoQuery(c.pending) /\ ~ c.torn /\ c.inflight => Holds("write", op[t], Pop(c))
      BY <2>0, <2>1, <1>0, <3>1, PendingLemmas, Zenon DEF Same, Holds, HeadIs
    <3> QED
      BY <2>0, <2>1, <1>0, <3>1, <3>3, NoConnIsNoConn, OnlyGood DEF Same, Holds
  <2>2. CASE HeadIs(c, "query") /\ Only(t, Tear(c), "done")
    <3>1. Same(c, Tear(c), "torn")
      BY <2>0, <1>0, ConnOps, Zenon
    <3>2. c.inflight => Holds("done", op[t], Tear(c))
      BY <3>1, ZenonT(60) DEF Same, Holds
    <3> QED
      BY <2>0, <2>2, <1>0, <3>1, <3>2, OnlyGood DEF Same, Holds
  <2>3. CASE c.torn /\ Only(t, c, "write")
    BY <2>0, <2>3, <1>0, NoConnIsNoConn, OnlyGood DEF Holds
  <2> QED
    BY <1>4, <2>1, <2>2, <2>3 DEF PrePingRead, Stay
<1>5. CASE Written(t)
  <2>0. pc[t] = "write"
    BY <1>5 DEF Written
  <2>1. CASE op[t] = "rows"
    <3>1. Only(t, NoConn, "done")
      BY <1>5, <2>1, SMTT(30) DEF Written
    <3> QED
      BY <2>0, <3>1, OnlyGood DEF Holds
  <2>2. CASE op[t] # "rows"
    <3> DEFINE d == Send(c, "query")
    <3>1. /\ Same(c, Send(c, "query"), "pending")
          /\ Send(c, "query").pending = Append(c.pending, "query")
      BY <2>0, <1>0, SendOp
    <3>3. /\ AfterWrite[op[t]] \in {"read", "stream", "structure"}
          /\ AfterWrite[op[t]] = "structure" => op[t] = "insert"
      BY <2>0, <2>2, <1>0, SMTT(60) DEF AfterWrite
    <3>4. NoQuery(c.pending) => OwnQueryLast(d.pending)
      BY <2>0, <1>0, <3>1, PendingLemmas, Zenon DEF Same
    <3>5. Only(t, d, AfterWrite[op[t]])
      BY <1>5, <2>2 DEF Written
    <3>6. \A p \in {"read", "stream", "structure"} :
             NoQuery(c.pending) /\ ~ c.torn /\ c.inflight /\ (p = "structure" => op[t] = "insert")
             => Holds(p, op[t], d)
      BY <3>1, <3>4, ZenonT(60) DEF Same, Holds
    <3> QED
      BY <2>0, <1>0, <3>1, <3>3, <3>5, <3>6, NoConnIsNoConn, OnlyGood, SMTT(60) DEF Same, Holds
  <2> QED
    BY <2>1, <2>2
<1>6. CASE WriteFails(t)
  <2>0. pc[t] \in {"preping", "write"}
    BY <1>6 DEF WriteFails
  <2>1. CASE Only(t, NoConn, "done")
    BY <2>0, <2>1, OnlyGood DEF Holds
  <2>2. CASE Only(t, Tear(c), "done")
    <3>1. Same(c, Tear(c), "torn")
      BY <2>0, <1>0, ConnOps, ZenonT(60)
    <3>2. c.inflight => Holds("done", op[t], Tear(c))
      BY <3>1, ZenonT(60) DEF Same, Holds
    <3> QED
      BY <2>0, <2>2, <1>0, <3>1, <3>2, OnlyGood DEF Same, Holds
  <2> QED
    BY <1>6, <2>1, <2>2 DEF WriteFails
<1>7. CASE SkipPong(t)
  <2>0. pc[t] \in Reading /\ HeadIs(c, "ping") /\ Only(t, Pop(c), pc[t])
    BY <1>7 DEF SkipPong
  <2>1. Same(c, Pop(c), "pending") /\ Pop(c).pending = Tail(c.pending)
    BY <2>0, <1>0, PopOp, SMTT(60)
  <2>2. Holds(pc[t], op[t], c) => Holds(pc[t], op[t], Pop(c))
    BY <2>0, <1>0, <2>1, PendingLemmas, SMTT(60) DEF Same, Holds, HeadIs
  <2> QED
    BY <2>0, <1>0, <2>1, <2>2, NoConnIsNoConn, OnlyGood DEF Same
<1>8. CASE ReadTerminal(t)
  <2>0. /\ pc[t] \in {"read", "structure", "stream"} /\ ~ c.torn
        /\ HeadIs(c, "query") /\ Only(t, Clear(Pop(c)), "done")
    BY <1>8, SMTT(60) DEF ReadTerminal
  <2>1. Same(c, Pop(c), "pending") /\ Pop(c).pending = Tail(c.pending)
    BY <2>0, <1>0, PopOp, SMTT(60)
  <2>2. Same(Pop(c), Clear(Pop(c)), "inflight") /\ ~ Clear(Pop(c)).inflight
    BY <2>1, ConnOps, ZenonT(60) DEF Same
  <2>3. OwnQueryLast(c.pending) => Holds("done", op[t], Clear(Pop(c)))
    <3> SUFFICES ASSUME OwnQueryLast(c.pending) PROVE Clean(Clear(Pop(c)))
      BY DEF Holds
    <3>1. c.pending \in Seq({"query", "ping"}) /\ Head(c.pending) = "query"
      BY <2>0, <1>0, <2>1 DEF Same, HeadIs, Conns
    <3>2. NoQuery(Tail(c.pending))
      BY <3>1, PendingLemmas, ZenonT(60)
    <3>3. Clear(Pop(c)).pending = Tail(c.pending) /\ Clear(Pop(c)).torn = c.torn
      BY <2>1, <2>2 DEF Same
    <3> QED
      BY <2>0, <2>2, <3>2, <3>3, ZenonT(60) DEF Clean
  <2> QED
    BY <2>0, <1>0, <2>1, <2>2, <2>3, OnlyGood DEF Same, Holds
<1>9. CASE ReadBroken(t)
  BY <1>9, OnlyGood DEF ReadBroken, Holds
<1>10. CASE MidError(t)
  <2>0. ~ Quiet
    BY <1>10, SMTT(60) DEF MidError, Quiet
  <2>1. CASE pc[t] \in {"read", "structure"} /\ Only(t, Clear(Tear(c)), "done")
    <3>1. Same(c, Tear(c), "torn") /\ Same(Tear(c), Clear(Tear(c)), "inflight")
      BY <2>1, <1>0, ConnOps, ZenonT(60) DEF Same
    <3> QED
      BY <2>0, <2>1, <1>0, <3>1, OnlyGood DEF Same
  <2>2. CASE pc[t] = "stream" /\ Only(t, Tear(c), "stream")
    <3>1. Same(c, Tear(c), "torn")
      BY <2>2, <1>0, ConnOps, ZenonT(60)
    <3> QED
      BY <2>0, <2>2, <1>0, <3>1, NoConnIsNoConn, OnlyGood DEF Same
  <2>3. CASE pc[t] = "end" /\ Only(t, NoConn, "done")
    BY <2>0, <2>3, OnlyGood
  <2>4. CASE pc[t] \in {"read", "end"} /\ Only(t, Tear(c), pc[t])
    <3>1. Same(c, Tear(c), "torn")
      BY <2>4, <1>0, ConnOps, ZenonT(60)
    <3> QED
      BY <2>0, <2>4, <1>0, <3>1, NoConnIsNoConn, OnlyGood DEF Same
  <2> QED
    BY <1>10, <2>1, <2>2, <2>3, <2>4 DEF MidError
<1>11. CASE Deadline(t)
  <2>0. pc[t] \in {"read", "structure", "stream", "end"} /\ Only(t, c, "drain")
    BY <1>11 DEF Deadline, Stay
  <2>1. Holds(pc[t], op[t], c) => Holds("drain", op[t], c)
    BY <2>0 DEF Holds
  <2> QED
    BY <2>0, <1>0, <2>1, NoConnIsNoConn, OnlyGood
<1>12. CASE DrainTerminal(t)
  <2>0. pc[t] = "drain" /\ HeadIs(c, "query") /\ Only(t, Pop(c), "drained")
    BY <1>12, SMTT(60) DEF DrainTerminal
  <2>1. Same(c, Pop(c), "pending")
    BY <2>0, <1>0, PopOp
  <2>2. Holds("drain", op[t], c) => Holds("drained", op[t], Pop(c))
    BY <2>1, SMTT(60) DEF Same, Holds
  <2> QED
    BY <2>0, <1>0, <2>1, <2>2, NoConnIsNoConn, OnlyGood DEF Same
<1>13. CASE DrainFails(t)
  BY <1>13, OnlyGood, SMTT(60) DEF DrainFails, Holds
<1>14. CASE DeadlineError(t)
  BY <1>14, OnlyGood, SMTT(60) DEF DeadlineError, Holds
<1>15. CASE Misread(t)
  <2>0. /\ pc[t] \in {"read", "structure", "stream", "end"} /\ c.torn
        /\ Only(t, Clear(c), "done") /\ (pc[t] \in {"stream", "end"} => ~ Quiet)
    BY <1>15 DEF Misread, Quiet
  <2>1. Same(c, Clear(c), "inflight")
    BY <2>0, <1>0, ConnOps, ZenonT(60)
  <2>2. ~ (Quiet /\ ReuseInv)
    BY <2>0, <1>0 DEF Holds
  <2> QED
    BY <2>0, <1>0, <2>1, <2>2, OnlyGood DEF Same
<1> QED
  BY <1>1, <1>2, <1>3, <1>4, <1>5, <1>6, <1>7, <1>8, <1>9, <1>10, <1>11, <1>12, <1>13, <1>14, SMTT(60),
     <1>15 DEF Cycle

-----------------------------------------------------------------------------
\* BlockStream, InsertSession, and the end of the guard

LEMMA OwnedKept ==
    ASSUME BaseInv, NEW t \in Tasks, Owned(t)
    PROVE  Kept
<1> USE DEF PCs, Locking, Guarded, Getting, Reading, UsesConn
<1> DEFINE c == Conn(t)
<1>0. ASSUME pc[t] \in Guarded \ {"done"}
      PROVE  /\ c \in Conns /\ c.gen = generation /\ c.pending \in Seq({"query", "ping"})
             /\ (Quiet /\ ReuseInv => Holds(pc[t], op[t], c))
  BY <1>0, Locked, NoConnIsNoConn DEF Conns
<1>1. CASE NextAborted(t)
  <2>0. pc[t] = "stream" /\ Only(t, Tear(c), "stream")
    BY <1>1 DEF NextAborted
  <2>1. Same(c, Tear(c), "torn")
    BY <2>0, <1>0, ConnOps, ZenonT(40)
  <2>2. Holds("stream", op[t], c) => Holds("stream", op[t], Tear(c))
    BY <2>1 DEF Same, Holds
  <2> QED
    BY <2>0, <1>0, <2>1, <2>2, NoConnIsNoConn, OnlyGood DEF Same
<1>3. CASE CancelStream(t)
  <2>1. CASE pc[t] = "stream" /\ Only(t, NoConn, "done")
    BY <2>1, OnlyGood, SMTT(60) DEF Holds
  <2>2. CASE /\ pc[t] = "stream" \/ (pc[t] = "drain" /\ op[t] = "stream")
             /\ Only(t, c, "done")
    <3>1. Holds(pc[t], op[t], c) => Holds("done", op[t], c)
      BY <2>2, SMTT(60) DEF Holds
    <3> QED
      BY <2>2, <1>0, <3>1, OnlyGood, SMTT(60)
  <2> QED
    BY <1>3, <2>1, <2>2, SMTT(60) DEF CancelStream, Stay
<1>4. CASE ReadStructure(t)
  <2>0. pc[t] = "structure" /\ Only(t, Clear(c), "session")
    BY <1>4 DEF ReadStructure
  <2>1. Same(c, Clear(c), "inflight")
    BY <2>0, <1>0, ConnOps, ZenonT(60)
  <2>2. Holds("structure", op[t], c) => Holds("session", op[t], Clear(c))
    BY <2>1 DEF Same, Holds
  <2> QED
    BY <2>0, <1>0, <2>1, <2>2, NoConnIsNoConn, OnlyGood DEF Same
<1>5. CASE SendAborted(t)
  <2>0. pc[t] = "session" /\ Only(t, Tear(c), "session")
    BY <1>5 DEF SendAborted
  <2>1. Same(c, Tear(c), "torn")
    BY <2>0, <1>0, ConnOps, ZenonT(40)
  <2>2. Holds("session", op[t], c) => Holds("session", op[t], Tear(c))
    BY <2>1 DEF Same, Holds
  <2> QED
    BY <2>0, <1>0, <2>1, <2>2, NoConnIsNoConn, OnlyGood DEF Same
<1>6. CASE EndCall(t)
  <2>0. pc[t] = "session" /\ Only(t, c, "end")
    BY <1>6 DEF EndCall, Stay
  <2>1. Holds("session", op[t], c) => Holds("end", op[t], c)
    BY SMTT(60) DEF Holds
  <2> QED
    BY <2>0, <1>0, <2>1, NoConnIsNoConn, OnlyGood
<1>7. CASE EndOk(t)
  <2>0. /\ pc[t] = "end" /\ ~ c.torn
        /\ HeadIs(c, "query") /\ Only(t, Clear(Pop(c)), "done")
    BY <1>7, SMTT(60) DEF EndOk
  <2>1. Same(c, Pop(c), "pending") /\ Pop(c).pending = Tail(c.pending)
    BY <2>0, <1>0, PopOp, SMTT(60)
  <2>2. Same(Pop(c), Clear(Pop(c)), "inflight") /\ ~ Clear(Pop(c)).inflight
    BY <2>1, ConnOps, ZenonT(60) DEF Same
  <2>3. OwnQueryLast(c.pending) => Holds("done", op[t], Clear(Pop(c)))
    <3> SUFFICES ASSUME OwnQueryLast(c.pending) PROVE Clean(Clear(Pop(c)))
      BY DEF Holds
    <3>1. c.pending \in Seq({"query", "ping"}) /\ Head(c.pending) = "query"
      BY <2>0, <1>0, <2>1 DEF Same, HeadIs, Conns
    <3>2. NoQuery(Tail(c.pending))
      BY <3>1, PendingLemmas, ZenonT(60)
    <3>3. Clear(Pop(c)).pending = Tail(c.pending) /\ Clear(Pop(c)).torn = c.torn
      BY <2>1, <2>2 DEF Same
    <3> QED
      BY <2>0, <2>2, <3>2, <3>3, ZenonT(60) DEF Clean
  <2> QED
    BY <2>0, <1>0, <2>1, <2>2, <2>3, OnlyGood, ZenonT(60) DEF Same, Holds
<1>8. CASE EndException(t)
  BY <1>8, OnlyGood DEF EndException, Holds
<1> QED
  BY <1>1, <1>3, <1>4, <1>5, <1>6, <1>7, <1>8 DEF Owned

LEMMA DropGuardKept ==
    ASSUME BaseInv, NEW t \in Tasks, DropGuard(t)
    PROVE  Kept
<1> USE DEF PCs, Locking, Guarded, Getting, Reading, UsesConn
<1> DEFINE c == Conn(t)
           d == IF OwnerDiscards(t) \/ (c # NoConn /\ c.inflight) THEN NoConn ELSE c
<1>0. pc[t] \in Guarded /\ SetSlot(t, d) /\ Goto(t, "idle")
  BY SMTT(60) DEF DropGuard
<1>1. c \in Conns \cup {NoConn} /\ (Quiet /\ ReuseInv => Holds(pc[t], op[t], c))
  BY <1>0, Locked, SMTT(60)
<1>2. Holds(pc[t], op[t], c) => Rests(d)
  BY <1>0, SMTT(60) DEF Holds, Rests, Clean, OwnerDiscards
<1>3. Good(t, d, "idle", "none")
  BY <1>0, <1>1, <1>2 DEF Good, Step, DropGuard, SetSlot, Goto, BaseInv, TypeOK, AllOps
<1> QED
  BY <1>3, GoodStep

-----------------------------------------------------------------------------
\* The theorems

LEMMA NextKept ==
    ASSUME BaseInv, [Next]_vars
    PROVE  Kept
<1>1. CASE UNCHANGED vars
  <2>1. BaseInv'
    BY <1>1, SMTT(60) DEF vars, BaseInv, TypeOK, Exclusive, SweepLeft, Conn
  <2>2. ReuseInv => ReuseInv'
    BY <1>1, Zenon DEF vars, ReuseInv, Conn, Free
  <2> QED
    BY <2>1, <2>2 DEF Kept
<1>2. ASSUME NEW t \in Tasks, Get(t) \/ Cycle(t) \/ Owned(t) \/ DropGuard(t)
      PROVE  Kept
  BY <1>2, GetKept, CycleKept, OwnedKept, DropGuardKept
<1>3. CASE SetConfig
  <2>1. TypeOK'
    BY <1>3, PoolAssumption DEF SetConfig, BaseInv, TypeOK
  <2>2. \A t \in Tasks : pc[t] = "idle" /\ pc' = pc
    BY <1>3, SMTT(60) DEF SetConfig
  <2>3. BaseInv'
    BY <1>3, <2>1, <2>2, SMTT(60) DEF SetConfig, BaseInv, Exclusive, SweepLeft, Conn, UsesConn, Locking,
       Guarded, Getting, Reading
  <2>4. ReuseInv => ReuseInv'
    BY <1>3 DEF SetConfig, ReuseInv, Conn, Free
  <2> QED
    BY <2>3, <2>4, SMTT(60) DEF Kept
<1> QED
  BY <1>1, <1>2, <1>3 DEF Next

LEMMA InitBase == Init => BaseInv
<1> SUFFICES ASSUME Init PROVE BaseInv
  OBVIOUS
<1>1. TypeOK
  BY PoolAssumption DEF Init, TypeOK, Slots, PCs, AllOps
<1> QED
  BY <1>1 DEF Init, BaseInv, Exclusive, SweepLeft, UsesConn, Locking, Guarded, Getting, Reading

LEMMA InitReuse == Init => ReuseInv
BY DEF Init, ReuseInv, Rests, Locking, Guarded, Getting, Reading

\* In every environment: the types, and no guard over a connection of an older
\* configuration, and no stream_mut() on an empty slot.
THEOREM BaseInvariant == Spec => []BaseInv
<1>1. BaseInv /\ [Next]_vars => BaseInv'
  BY NextKept DEF Kept
<1> QED
  BY <1>1, InitBase, PTL DEF Spec

\* The pool's variables keep their types, with any number of tasks and slots.
THEOREM TypeCorrect == Spec => []TypeOK
<1>1. BaseInv => TypeOK
  BY DEF BaseInv
<1> QED
  BY <1>1, BaseInvariant, PTL

\* get() hands out connections of the current configuration only.
THEOREM ConfigCurrent == Spec => []CurrentConfig
<1>1. BaseInv => CurrentConfig
  BY DEF BaseInv, CurrentConfig
<1> QED
  BY <1>1, BaseInvariant, PTL

\* No operation reaches the abort() in PoolGuard::stream_mut.
THEOREM NoStreamAbort == Spec => []StreamMutDefined
<1>1. BaseInv => StreamMutDefined
  BY DEF BaseInv, StreamMutDefined, UsesConn
<1> QED
  BY <1>1, BaseInvariant, PTL

LEMMA ReuseInvariant ==
    ASSUME ~ MidResponseErrors, ~ PollAfterAbort
    PROVE  Spec => [](BaseInv /\ ReuseInv)
<1>1. BaseInv /\ ReuseInv /\ [Next]_vars => BaseInv' /\ ReuseInv'
  BY NextKept, SMTT(60) DEF Kept, Quiet
<1> QED
  BY <1>1, InitBase, InitReuse, PTL DEF Spec

\* Dropping futures anywhere never parks a connection mid-response, provided
\* replies decode and aborted streams are not polled again.
THEOREM ReuseIsSafe ==
    ASSUME ~ MidResponseErrors, ~ PollAfterAbort
    PROVE  Spec => []NoPoisonedReuse
<1>1. BaseInv /\ ReuseInv => NoPoisonedReuse
  BY SMTT(60) DEF BaseInv, ReuseInv, NoPoisonedReuse, Rests, Clean, Holds, Locking, Guarded
<1> QED
  BY <1>1, ReuseInvariant, PTL

\* Under the same conditions no task reads another task's reply, whichever
\* futures are dropped before it.
THEOREM RepliesStayApart ==
    ASSUME ~ MidResponseErrors, ~ PollAfterAbort
    PROVE  Spec => []ReadsOwnReply
<1>1. BaseInv /\ ReuseInv => ReadsOwnReply
  BY SMTT(60) DEF BaseInv, ReuseInv, ReadsOwnReply, Rests, Clean, Holds, Locking, Guarded
<1> QED
  BY <1>1, ReuseInvariant, PTL

-----------------------------------------------------------------------------
\* pool_in_use

Guards == {t \in Tasks : pc[t] \in Guarded}

\* What one task's move does to the set of guards and to the counter.
Counts(t) ==
    /\ \A u \in Tasks \ {t} : pc'[u] \in Guarded <=> pc[u] \in Guarded
    /\ \/ (pc'[t] \in Guarded <=> pc[t] \in Guarded) /\ in_use' = in_use
       \/ pc[t] \notin Guarded /\ pc'[t] \in Guarded /\ in_use' = in_use + 1
       \/ pc[t] \in Guarded /\ pc'[t] \notin Guarded /\ in_use' = in_use - 1

LEMMA CountsKept ==
    ASSUME NEW t \in Tasks, Counts(t), InUseCountsGuards
    PROVE  InUseCountsGuards'
<1>0. IsFiniteSet(Guards) /\ in_use = Cardinality(Guards) /\ Cardinality(Guards) \in Nat
  BY PoolAssumption, FS_Subset, FS_CardinalityType DEF Guards, InUseCountsGuards
<1>1. CASE (pc'[t] \in Guarded <=> pc[t] \in Guarded) /\ in_use' = in_use
  <2>1. Guards' = Guards
    BY <1>1 DEF Guards, Counts
  <2> QED
    BY <1>0, <1>1, <2>1 DEF Guards, InUseCountsGuards
<1>2. CASE pc[t] \notin Guarded /\ pc'[t] \in Guarded /\ in_use' = in_use + 1
  <2>1. Guards' = Guards \cup {t} /\ t \notin Guards
    BY <1>2 DEF Guards, Counts
  <2>2. Cardinality(Guards') = Cardinality(Guards) + 1
    BY <1>0, <2>1, FS_AddElement, SMTT(60)
  <2> QED
    BY <1>0, <1>2, <2>2 DEF Guards, InUseCountsGuards
<1>3. CASE pc[t] \in Guarded /\ pc'[t] \notin Guarded /\ in_use' = in_use - 1
  <2>1. Guards' = Guards \ {t} /\ t \in Guards
    BY <1>3 DEF Guards, Counts
  <2>2. Cardinality(Guards') = Cardinality(Guards) - 1
    BY <1>0, <2>1, FS_RemoveElement, SMTT(60)
  <2> QED
    BY <1>0, <1>3, <2>2 DEF Guards, InUseCountsGuards
<1> QED
  BY <1>1, <1>2, <1>3 DEF Counts

LEMMA GetCounts ==
    ASSUME TypeOK, NEW t \in Tasks, Get(t)
    PROVE  Counts(t)
<1> USE DEF Counts, TypeOK, Goto, Guarded, Reading, Getting
<1>1. ASSUME NEW c, HandOut(t, c), pc[t] \notin Guarded PROVE Counts(t)
  BY <1>1 DEF HandOut
<1>2. ASSUME NEW c, Check(t, c), pc[t] \notin Guarded PROVE Counts(t)
  BY <1>1, <1>2, SMTT(60) DEF Check
<1>3. ASSUME Acquired(t), pc[t] \notin Guarded PROVE Counts(t)
  BY <1>2, <1>3 DEF Acquired
<1>4. CASE GetCall(t) \/ TryLockBusy(t) \/ AcquireTimeout(t) \/ DropGet(t)
  BY <1>4 DEF GetCall, TryLockBusy, AcquireTimeout, DropGet
<1>5. CASE TryLock(t) \/ LockGranted(t)
  BY <1>3, <1>5, SMTT(60) DEF TryLock, LockGranted
<1>6. CASE ConnectOk(t)
  BY <1>1, <1>2, <1>6 DEF ConnectOk
<1>7. CASE ConnectErr(t) \/ AliveFails(t)
  BY <1>7 DEF ConnectErr, AliveFails
<1>8. CASE AliveRead(t)
  BY <1>1, <1>8, SMTT(60) DEF AliveRead
<1> QED
  BY <1>4, <1>5, <1>6, <1>7, <1>8 DEF Get

LEMMA GuardCounts ==
    ASSUME BaseInv, NEW t \in Tasks, Cycle(t) \/ Owned(t) \/ DropGuard(t)
    PROVE  Counts(t)
<1> USE DEF Counts, BaseInv, TypeOK, Goto, Guarded, Reading
<1>0. ASSUME NEW c, NEW p \in Guarded, Only(t, c, p), pc[t] \in Guarded PROVE Counts(t)
  BY <1>0, SMTT(60) DEF Only
<1>1. CASE StartPing(t) \/ StartQuery(t)
  BY <1>1, SMTT(60) DEF StartPing, StartQuery
<1>2. CASE PongRead(t) \/ PrePingRead(t)
  BY <1>0, <1>2, SMTT(60) DEF PongRead, PrePingRead, Stay
<1>3. CASE Written(t)
  <2>1. pc[t] = "write" /\ op[t] \in Ops
    BY <1>3, SMTT(60) DEF Written
  <2>2. op[t] # "rows" => AfterWrite[op[t]] \in Guarded
    BY <2>1, SMTT(60) DEF Ops, AfterWrite
  <2> QED
    BY <1>0, <1>3, <2>1, <2>2 DEF Written
<1>4. CASE WriteFails(t) \/ SkipPong(t) \/ ReadTerminal(t) \/ ReadBroken(t)
  <2>1. CASE WriteFails(t)
    BY <1>0, <2>1, SMTT(60) DEF WriteFails, Stay
  <2>2. CASE SkipPong(t)
    BY <1>0, <2>2, SMTT(60) DEF SkipPong, Stay
  <2>3. CASE ReadTerminal(t)
    BY <1>0, <2>3, SMTT(60) DEF ReadTerminal, Stay
  <2>4. CASE ReadBroken(t)
    BY <1>0, <2>4, SMTT(60) DEF ReadBroken, Stay
  <2> QED
    BY <1>4, <2>1, <2>2, <2>3, <2>4, SMTT(60)
<1>5. CASE MidError(t) \/ Misread(t) \/ Deadline(t) \/ DrainTerminal(t) \/ DrainFails(t) \/ DeadlineError(t)
  <2>1. CASE MidError(t)
    BY <1>0, <2>1, SMTT(60) DEF MidError, Stay
  <2>2. CASE Misread(t)
    BY <1>0, <2>2, SMTT(60) DEF Misread, Stay
  <2>3. CASE Deadline(t)
    BY <1>0, <2>3, SMTT(60) DEF Deadline, Stay
  <2>4. CASE DrainTerminal(t)
    BY <1>0, <2>4, SMTT(60) DEF DrainTerminal, Stay
  <2>5. CASE DrainFails(t)
    BY <1>0, <2>5, SMTT(60) DEF DrainFails, Stay
  <2>6. CASE DeadlineError(t)
    BY <1>0, <2>6, SMTT(60) DEF DeadlineError, Stay
  <2> QED
    BY <1>5, <2>1, <2>2, <2>3, <2>4, <2>5, <2>6, SMTT(60)
<1>6. CASE NextAborted(t) \/ CancelStream(t) \/ ReadStructure(t)
  <2>1. CASE NextAborted(t)
    BY <1>0, <2>1, SMTT(60) DEF NextAborted, Stay
  <2>2. CASE CancelStream(t)
    BY <1>0, <2>2, SMTT(60) DEF CancelStream, Stay
  <2>3. CASE ReadStructure(t)
    BY <1>0, <2>3, SMTT(60) DEF ReadStructure, Stay
  <2> QED
    BY <1>6, <2>1, <2>2, <2>3, SMTT(60)
<1>7. CASE SendAborted(t) \/ EndCall(t) \/ EndOk(t) \/ EndException(t)
  <2>1. CASE SendAborted(t)
    BY <1>0, <2>1, SMTT(60) DEF SendAborted, Stay
  <2>2. CASE EndCall(t)
    BY <1>0, <2>2, SMTT(60) DEF EndCall, Stay
  <2>3. CASE EndOk(t)
    BY <1>0, <2>3, SMTT(60) DEF EndOk, Stay
  <2>4. CASE EndException(t)
    BY <1>0, <2>4, SMTT(60) DEF EndException, Stay
  <2> QED
    BY <1>7, <2>1, <2>2, <2>3, <2>4, SMTT(60)
<1>8. CASE DropGuard(t)
  BY <1>8 DEF DropGuard
<1> QED
  BY <1>1, <1>2, <1>3, <1>4, <1>5, <1>6, <1>7, <1>8, SMTT(60) DEF Cycle, Owned

\* The metric pool_in_use is exact in every state, whichever futures are
\* dropped, with any number of tasks and slots.
THEOREM InUseExact == Spec => []InUseCountsGuards
<1>1. Init => InUseCountsGuards
  <2>1. Init => {t \in Tasks : pc[t] \in Guarded} = {}
    BY DEF Init, Guarded, Reading
  <2> QED
    BY <2>1, FS_EmptySet DEF Init, InUseCountsGuards
<1>2. BaseInv /\ InUseCountsGuards /\ [Next]_vars => InUseCountsGuards'
  <2> SUFFICES ASSUME BaseInv, InUseCountsGuards, [Next]_vars PROVE InUseCountsGuards'
    OBVIOUS
  <2>1. CASE UNCHANGED vars \/ SetConfig
    BY <2>1, SMTT(60) DEF vars, SetConfig, InUseCountsGuards
  <2>2. ASSUME NEW t \in Tasks, Get(t) \/ Cycle(t) \/ Owned(t) \/ DropGuard(t)
        PROVE  InUseCountsGuards'
    BY <2>2, GetCounts, GuardCounts, CountsKept DEF BaseInv
  <2> QED
    BY <2>1, <2>2 DEF Next
<1> QED
  BY <1>1, <1>2, BaseInvariant, PTL DEF Spec
=============================================================================
