------------------------- MODULE StreamBridgeProofs -------------------------
(***************************************************************************)
(* A connection that serves another call after a stream is clean, for      *)
(* every length of the response and every capacity of the channel and of   *)
(* the queue.  The invariant numbers the packets: Flow(rp) says that rp    *)
(* packets were read and that what lies on the socket and what the server  *)
(* has still to send are the packets that follow.                          *)
(***************************************************************************)
EXTENDS StreamBridge, TLAPS

Packets == [type : {"head", "block", "eos", "exc", "cutexc", "cutblock"}, n : Nat]
Items   == [type : {"block", "none", "err"}, n : Nat]
Values  == [type : {"block"}, n : Nat] \cup {Sentinel}
Puts    == [val : Values, mine : BOOLEAN]

ReaderPCs    == {"off", "check", "read", "publish", "send", "exit"}
ForwarderPCs == {"off", "next", "put", "wait", "fin", "finwait", "release", "done"}
GeneratorPCs == {"starting", "get", "yield", "abandon", "kill", "over"}

Ends         == {"no", "none", "err", "left", "start"}

Readers    == [pc : ReaderPCs, done : BOOLEAN, item : Items]
Natives    == [cancel : BOOLEAN, eos : BOOLEAN, finished : BOOLEAN, dropped : BOOLEAN]
Forwarders == [pc : ForwarderPCs, val : Items, exc : BOOLEAN]
Generators == [pc : GeneratorPCs, yielded : Seq(Nat), end : Ends]

ServerType ==
    kind \in {"sync", "async"} /\ compressed \in BOOLEAN /\ left \in Seq(Packets) /\ closed \in BOOLEAN
SocketType == net \in Seq(Packets) /\ shut \in BOOLEAN
ReaderType == rd \in Readers
NativeType == native \in Natives
ChanType   == chan \in Seq(Items)
ForwarderType ==
    /\ fw \in Forwarders
    /\ fw.pc \in {"put", "wait"} => fw.val.type = "block"
LoopType   == queue \in Seq(Values) /\ ready \in Seq(Puts) /\ putters \in Seq(Puts)
GeneratorType == gen \in Generators
FlagType == discarded \in BOOLEAN /\ event \in BOOLEAN
SlotType == slot \in {"lent", "free", "destroyed"}

BridgeTypes ==
    /\ ServerType /\ SocketType /\ ReaderType /\ NativeType /\ ChanType
    /\ ForwarderType /\ LoopType /\ GeneratorType /\ FlagType /\ SlotType

Cut == {"cutexc", "cutblock"}

(* The packet x may stand at the place p of a response.                    *)
InPlace(x, p) ==
    /\ p = 1 => x.type = "head"
    /\ p \in 2..(NBlocks + 1) => x.type = "block" /\ x.n = p - 1
    /\ p = NBlocks + 2 => x.type \in {"eos", "exc"}

(* rp packets of the response were read.                                   *)
Flow(rp) ==
    /\ rp + Len(net) <= NBlocks + 2
    /\ \A i \in 1..Len(net) :
          InPlace(net[i], rp + i) \/ (Eof /\ i = Len(net) /\ net[i].type \in Cut)
    /\ ~Eof => /\ rp + Len(net) + Len(left) = NBlocks + 2
               /\ \A i \in 1..Len(left) : InPlace(left[i], rp + Len(net) + i)
               /\ rd.done <=> rp = NBlocks + 2
    /\ rd.pc = "read" /\ rd.done => net = <<>> /\ Eof

FlowInv == rd.pc # "off" => \E rp \in 0..(NBlocks + 2) : Flow(rp)

(* Before start_stream() has returned.                                     *)
OffInv ==
    rd.pc = "off" =>
      /\ net = <<>> /\ left = <<>> /\ chan = <<>>
      /\ ~rd.done /\ ~native.eos /\ ~native.dropped /\ ~shut
      /\ gen.pc \in {"starting", "over"} /\ fw.pc = "off" /\ ~astray

(* eos is published behind the last packet and before anything but a block *)
(* is sent on the channel.                                                 *)
PublishInv ==
    /\ rd.pc = "publish" => rd.done /\ rd.item.type # "block"
    /\ native.eos => rd.done
    /\ \A i \in 1..Len(chan) : chan[i].type # "block" => native.eos \/ Eof
    /\ rd.pc = "send" /\ rd.item.type # "block" => native.eos \/ Eof

(* Who may have been told to stop, and when.                               *)
StopInv ==
    /\ shut \/ discarded \/ native.dropped => gen.pc = "over"
    /\ event \/ native.cancel \/ native.finished => gen.pc \in {"kill", "over"}
    /\ kind = "async" /\ (native.cancel \/ native.finished) => native.dropped
    /\ native.dropped => fw.pc \in {"off", "done"}

(* The pool slot goes back once: with a start that failed or was cancelled,*)
(* or by the forwarder.                                                    *)
SlotInv ==
    /\ kind = "sync" => fw.pc = "off" /\ slot = "lent"
    /\ gen.pc = "starting" => rd.pc = "off" /\ fw.pc = "off" /\ slot = "lent"
    /\ gen.end = "start" => gen.pc = "over" /\ fw.pc = "off"
    /\ kind = "async" /\ fw.pc = "off" => gen.pc = "starting" \/ gen.end = "start"
    /\ slot = "free" => fw.pc = "done" \/ gen.end = "start"
    /\ slot = "destroyed" => fw.pc = "done"
    /\ fw.pc = "done" => slot # "lent"
    /\ slot = "free" /\ gen.end # "start" => native.eos

(* A forwarder that comes to its end by itself has seen eos, and while     *)
(* _abandon() is between its look at eos and discard() the sentinel of the *)
(* forwarder cannot land.                                                  *)
RaceInv ==
    /\ fw.pc \in {"fin", "finwait", "release", "done"} /\ gen.pc \in {"get", "yield", "abandon"}
          => closed \/ native.eos
    /\ gen.pc = "kill" /\ kind = "async" /\ ~closed
          => fw.pc \notin {"release", "done"} /\ (fw.pc = "finwait" => ~Landed)

(* What a connection that may be used again owes to the protocol above.    *)
ReuseInv ==
    /\ kind = "sync" /\ gen.pc = "over" /\ ~discarded /\ gen.end # "start"
          => native.eos \/ closed
    /\ slot = "free" /\ gen.end # "start" /\ ~closed
          => native.eos /\ ~discarded /\ gen.pc # "kill"
    /\ shut /\ ~closed => discarded \/ gen.end = "start" \/ slot = "destroyed"

(* An error in the middle of the response ends the numbering of the        *)
(* packets, and eos no longer says where the socket stands.                *)
BridgeInv ==
    /\ BridgeTypes /\ OffInv /\ StopInv /\ SlotInv
    /\ ~astray => FlowInv /\ PublishInv /\ RaceInv /\ ReuseInv

-----------------------------------------------------------------------------
\* Packets and sequences

LEMMA ItemTypes ==
    /\ None \in Items /\ None.type = "none" /\ None.n = 0
    /\ Err \in Items /\ Err.type = "err"
    /\ Sentinel \in Values /\ Sentinel.type = "sentinel"
BY DEF Item, None, Err, Sentinel, Items, Values

LEMMA Joined ==
    ASSUME NEW S, NEW p \in Seq(S), NEW q \in Seq(S)
    PROVE  /\ p \o q \in Seq(S) /\ Len(p \o q) = Len(p) + Len(q)
           /\ \A i \in 1..Len(p) : (p \o q)[i] = p[i]
           /\ \A i \in 1..Len(q) : (p \o q)[Len(p) + i] = q[i]
OBVIOUS

\* A response is a header, the blocks in their order and one last packet.
LEMMA ResponseShape ==
    ASSUME NEW r \in Responses
    PROVE  /\ r \in Seq(Packets) /\ Len(r) = NBlocks + 2
           /\ \A i \in 1..Len(r) : InPlace(r[i], i)
<1>1. PICK last \in {Item("eos", 0), Item("exc", 0)} :
         r = <<Item("head", 0)>> \o [i \in 1..NBlocks |-> Item("block", i)] \o <<last>>
  BY Zenon DEF Responses
<1> DEFINE h == <<Item("head", 0)>>
           b == [i \in 1..NBlocks |-> Item("block", i)]
           l == <<last>>
<1>2. /\ h \in Seq(Packets) /\ Len(h) = 1 /\ h[1].type = "head"
      /\ l \in Seq(Packets) /\ Len(l) = 1 /\ l[1].type \in {"eos", "exc"}
  BY <1>1 DEF Item, Packets
<1>3. /\ b \in Seq(Packets) /\ Len(b) = NBlocks
      /\ \A i \in 1..NBlocks : b[i].type = "block" /\ b[i].n = i
  <2>1. NBlocks \in Nat
    BY BridgeAssumption
  <2>2. \A i \in 1..NBlocks : Item("block", i) \in Packets
    BY <2>1 DEF Item, Packets
  <2>3. b \in Seq(Packets) /\ Len(b) = NBlocks
    BY <2>1, <2>2
  <2> QED
    BY <2>1, <2>3 DEF Item
<1>4. r = (h \o b) \o l
  BY <1>1
<1> HIDE DEF h, b, l
<1>5. PICK m : m = h \o b
  BY Zenon
<1>6. /\ m \in Seq(Packets) /\ Len(m) = 1 + NBlocks /\ m[1] = h[1]
      /\ \A i \in 1..NBlocks : m[1 + i] = b[i]
  <2>1. /\ m \in Seq(Packets) /\ Len(m) = Len(h) + Len(b)
        /\ \A i \in 1..Len(h) : m[i] = h[i]
        /\ \A i \in 1..Len(b) : m[Len(h) + i] = b[i]
    <3>1. h \in Seq(Packets) /\ b \in Seq(Packets)
      BY <1>2, <1>3
    <3> QED
      BY <3>1, <1>5, Joined
  <2> QED
    BY <2>1, <1>2, <1>3
<1>7. /\ r \in Seq(Packets) /\ Len(r) = NBlocks + 2
      /\ \A i \in 1..(1 + NBlocks) : r[i] = m[i]
      /\ r[NBlocks + 2] = l[1]
  <2>1. r = m \o l
    BY <1>4, <1>5, Zenon
  <2>2. /\ r \in Seq(Packets) /\ Len(r) = Len(m) + Len(l)
        /\ \A i \in 1..Len(m) : r[i] = m[i]
        /\ \A i \in 1..Len(l) : r[Len(m) + i] = l[i]
    <3>1. m \in Seq(Packets) /\ l \in Seq(Packets)
      BY <1>2, <1>6
    <3> QED
      BY <2>1, <3>1, Joined
  <2>3. Len(m) + 1 = NBlocks + 2 /\ 1 \in 1..Len(l)
    BY <1>2, <1>6, BridgeAssumption
  <2> QED
    BY <2>2, <2>3, <1>2, <1>6
<1>8. ASSUME NEW i \in 1..(NBlocks + 2) PROVE InPlace(r[i], i)
  <2>1. CASE i = 1
    <3>1. r[i] = h[1]
      BY <2>1, <1>6, <1>7, BridgeAssumption
    <3> QED
      BY <2>1, <3>1, <1>2, BridgeAssumption DEF InPlace
  <2>2. CASE i \in 2..(NBlocks + 1)
    <3>1. PICK k \in 1..NBlocks : i = 1 + k
      <4>1. i - 1 \in 1..NBlocks /\ i = 1 + (i - 1)
        BY <2>2, BridgeAssumption
      <4> QED
        BY <4>1
    <3>2. r[i] = b[k]
      BY <3>1, <1>6, <1>7, BridgeAssumption
    <3> QED
      BY <3>1, <3>2, <1>3, BridgeAssumption DEF InPlace
  <2>3. CASE i = NBlocks + 2
    BY <2>3, <1>7, <1>2, BridgeAssumption DEF InPlace
  <2> QED
    BY <2>1, <2>2, <2>3, BridgeAssumption
<1> QED
  BY <1>7, <1>8

\* What is left on the socket when the connection ends.
LEMMA CutOffShape ==
    ASSUME left \in Seq(Packets), net \in Seq(Packets), NEW n \in CutOff
    PROVE  n = net \/ (left # <<>> /\ \E x \in Packets : x.type \in Cut /\ n = Append(net, x))
<1>1. Item("cutexc", 0) \in Packets /\ Item("cutblock", 0) \in Packets
      /\ Item("cutexc", 0).type \in Cut /\ Item("cutblock", 0).type \in Cut
  BY DEF Item, Packets, Cut
<1> QED
  BY <1>1 DEF CutOff

\* The first element and the rest of a sequence.
LEMMA HeadAndTail ==
    ASSUME NEW S, NEW q \in Seq(S), q # <<>>
    PROVE  /\ Len(q) \in Nat \ {0} /\ Head(q) = q[1] /\ Head(q) \in S
           /\ Tail(q) \in Seq(S) /\ Len(Tail(q)) = Len(q) - 1
           /\ \A i \in 1..(Len(q) - 1) : Tail(q)[i] = q[i + 1]
OBVIOUS

LEMMA Appended ==
    ASSUME NEW S, NEW q \in Seq(S), NEW x \in S
    PROVE  /\ Append(q, x) \in Seq(S) /\ Len(Append(q, x)) = Len(q) + 1 /\ Len(q) \in Nat
           /\ \A i \in 1..Len(q) : Append(q, x)[i] = q[i]
           /\ Append(q, x)[Len(q) + 1] = x
OBVIOUS

LEMMA RangeIs ==
    ASSUME NEW S, NEW q \in Seq(S)
    PROVE  Range(q) = {q[i] : i \in 1..Len(q)} /\ Range(q) \subseteq S
BY DEF Range

\* Giving a put up changes nothing but its mark.
LEMMA UnmarkedShape ==
    ASSUME NEW q \in Seq(Puts)
    PROVE  /\ Unmarked(q) \in Seq(Puts) /\ Len(Unmarked(q)) = Len(q)
           /\ \A i \in 1..Len(q) : Unmarked(q)[i].val = q[i].val /\ ~Unmarked(q)[i].mine
<1>1. DOMAIN q = 1..Len(q) /\ Len(q) \in Nat
  OBVIOUS
<1>2. \A i \in 1..Len(q) : q[i] \in Puts
  OBVIOUS
<1>3. \A i \in 1..Len(q) : /\ [q[i] EXCEPT !.mine = FALSE] \in Puts
                           /\ [q[i] EXCEPT !.mine = FALSE].val = q[i].val
                           /\ ~[q[i] EXCEPT !.mine = FALSE].mine
  BY <1>2, Zenon DEF Puts
<1>4. Unmarked(q) = [i \in 1..Len(q) |-> [q[i] EXCEPT !.mine = FALSE]]
  BY <1>1 DEF Unmarked
<1>5. Unmarked(q) \in Seq(Puts) /\ Len(Unmarked(q)) = Len(q)
  BY <1>1, <1>3, <1>4
<1> QED
  BY <1>1, <1>3, <1>4, <1>5, Zenon

-----------------------------------------------------------------------------
\* The values of program counters

LEMMA PCSets ==
    /\ "check" \in ReaderPCs /\ "read" \in ReaderPCs /\ "publish" \in ReaderPCs
    /\ "send" \in ReaderPCs /\ "exit" \in ReaderPCs
    /\ "next" \in ForwarderPCs /\ "put" \in ForwarderPCs /\ "wait" \in ForwarderPCs
    /\ "fin" \in ForwarderPCs /\ "finwait" \in ForwarderPCs /\ "release" \in ForwarderPCs
    /\ "done" \in ForwarderPCs
    /\ "get" \in GeneratorPCs /\ "yield" \in GeneratorPCs /\ "abandon" \in GeneratorPCs
    /\ "kill" \in GeneratorPCs /\ "over" \in GeneratorPCs
    /\ "none" \in Ends /\ "err" \in Ends /\ "left" \in Ends /\ "start" \in Ends
BY DEF ReaderPCs, ForwarderPCs, GeneratorPCs, Ends

-----------------------------------------------------------------------------
\* What each action does, field by field

LEMMA Fields ==
    ASSUME BridgeTypes
    PROVE  /\ kind \in {"sync", "async"} /\ compressed \in BOOLEAN
           /\ closed \in BOOLEAN /\ shut \in BOOLEAN /\ discarded \in BOOLEAN /\ event \in BOOLEAN
           /\ left \in Seq(Packets) /\ net \in Seq(Packets) /\ chan \in Seq(Items)
           /\ queue \in Seq(Values) /\ ready \in Seq(Puts) /\ putters \in Seq(Puts)
           /\ rd \in Readers /\ rd.pc \in ReaderPCs /\ rd.done \in BOOLEAN /\ rd.item \in Items
           /\ native \in Natives /\ native.cancel \in BOOLEAN /\ native.eos \in BOOLEAN
           /\ native.finished \in BOOLEAN /\ native.dropped \in BOOLEAN
           /\ fw \in Forwarders /\ fw.pc \in ForwarderPCs /\ fw.val \in Items /\ fw.exc \in BOOLEAN
           /\ gen \in Generators /\ gen.pc \in GeneratorPCs /\ gen.yielded \in Seq(Nat) /\ gen.end \in Ends
           /\ slot \in {"lent", "free", "destroyed"}
<1>1. /\ kind \in {"sync", "async"} /\ compressed \in BOOLEAN
      /\ closed \in BOOLEAN /\ shut \in BOOLEAN /\ discarded \in BOOLEAN /\ event \in BOOLEAN
      /\ left \in Seq(Packets) /\ net \in Seq(Packets) /\ chan \in Seq(Items)
      /\ queue \in Seq(Values) /\ ready \in Seq(Puts) /\ putters \in Seq(Puts)
      /\ rd \in Readers /\ native \in Natives /\ fw \in Forwarders /\ gen \in Generators
      /\ slot \in {"lent", "free", "destroyed"}
  BY Zenon DEF BridgeTypes, ServerType, SocketType, ReaderType, NativeType, ChanType, ForwarderType,
               LoopType, GeneratorType, FlagType, SlotType
<1>2. rd.pc \in ReaderPCs /\ rd.done \in BOOLEAN /\ rd.item \in Items
  BY <1>1, Zenon DEF Readers
<1>3. /\ native.cancel \in BOOLEAN /\ native.eos \in BOOLEAN
      /\ native.finished \in BOOLEAN /\ native.dropped \in BOOLEAN
  BY <1>1, Zenon DEF Natives
<1>4. fw.pc \in ForwarderPCs /\ fw.val \in Items /\ fw.exc \in BOOLEAN
  BY <1>1, Zenon DEF Forwarders
<1>5. gen.pc \in GeneratorPCs /\ gen.yielded \in Seq(Nat) /\ gen.end \in Ends
  BY <1>1, Zenon DEF Generators
<1> QED
  BY <1>1, <1>2, <1>3, <1>4, <1>5, Zenon

LEMMA ShutdownTypes ==
    ASSUME BridgeTypes, Shutdown
    PROVE  net' \in Seq(Packets) /\ shut'
<1>1. net' = net \/ net' \in CutOff
  BY DEF Shutdown
<1>2. ASSUME net' \in CutOff PROVE net' \in Seq(Packets)
  <2>0. net \in Seq(Packets) /\ left \in Seq(Packets)
    BY Fields
  <2>1. net' = net \/ \E x \in Packets : net' = Append(net, x)
    BY <1>2, <2>0, CutOffShape
  <2> QED
    BY <2>0, <2>1, Appended, Zenon
<1> QED
  BY <1>1, <1>2, Fields DEF Shutdown

\* What the consumer of the channel takes.
LEMMA ReceivedItem ==
    ASSUME BridgeTypes, NEW item \in Range(chan) \cup {None}, Receive(item)
    PROVE  /\ item \in Items /\ chan' \in Seq(Items)
           /\ \/ chan # <<>> /\ item = chan[1] /\ chan' = Tail(chan)
              \/ native.finished /\ item = None /\ chan' = chan
<1>1. CASE chan # <<>> /\ item = Head(chan) /\ chan' = Tail(chan)
  BY <1>1, HeadAndTail, Fields
<1>2. CASE native.finished /\ item = None /\ chan' = chan
  BY <1>2, ItemTypes, Fields
<1> QED
  BY <1>1, <1>2 DEF Receive

LEMMA SubmitTypes ==
    ASSUME BridgeTypes, NEW v \in Values, Submit(v)
    PROVE  /\ queue' = queue /\ ready' \in Seq(Puts) /\ putters' \in Seq(Puts)
           /\ Len(ready') = Len(ready) + 1 /\ Len(putters') = Len(putters)
           /\ \A i \in 1..Len(ready) : ready'[i].val = ready[i].val /\ ~ready'[i].mine
           /\ ready'[Len(ready) + 1].val = v /\ ready'[Len(ready) + 1].mine
           /\ \A i \in 1..Len(putters) : putters'[i].val = putters[i].val /\ ~putters'[i].mine
<1>1. ready \in Seq(Puts) /\ putters \in Seq(Puts)
  BY Fields
<1>2. PICK p : p = [val |-> v, mine |-> TRUE]
  BY Zenon
<1>3. p \in Puts /\ p.val = v /\ p.mine
  BY <1>2 DEF Puts
<1>4. PICK u : u = Unmarked(ready)
  OBVIOUS
<1>5. /\ u \in Seq(Puts) /\ Len(u) = Len(ready)
      /\ \A i \in 1..Len(ready) : u[i].val = ready[i].val /\ ~u[i].mine
  BY <1>1, <1>4, UnmarkedShape, Zenon
<1>6. ready' = Append(u, p) /\ putters' = Unmarked(putters) /\ queue' = queue
  BY <1>2, <1>4, Zenon DEF Submit
<1>7. /\ ready' \in Seq(Puts) /\ Len(ready') = Len(u) + 1 /\ Len(u) \in Nat
      /\ \A i \in 1..Len(u) : ready'[i] = u[i]
      /\ ready'[Len(u) + 1] = p
  BY <1>3, <1>5, <1>6, Appended
<1>8. /\ putters' \in Seq(Puts) /\ Len(putters') = Len(putters)
      /\ \A i \in 1..Len(putters) : putters'[i].val = putters[i].val /\ ~putters'[i].mine
  BY <1>1, <1>6, UnmarkedShape, Zenon
<1> QED
  BY <1>3, <1>5, <1>6, <1>7, <1>8

LEMMA StartStreamDoes ==
    ASSUME BridgeTypes, StartStream
    PROVE  /\ rd.pc = "off" /\ ~closed /\ left' \in Responses
           /\ rd' \in Readers /\ rd'.pc = "check" /\ rd'.done = rd.done /\ rd'.item = rd.item
           /\ gen' \in Generators /\ gen'.yielded = gen.yielded /\ gen'.end = gen.end
           /\ gen'.pc = IF gen.pc = "starting" THEN "get" ELSE gen.pc
           /\ fw' \in Forwarders /\ fw'.val = fw.val /\ fw'.exc = fw.exc
           /\ fw'.pc = IF gen.pc = "starting" /\ kind = "async" THEN "next" ELSE fw.pc
           /\ UNCHANGED <<kind, compressed, closed, net, shut, native, chan, discarded,
                          queue, ready, putters, event, slot, astray>>
<1>1. rd \in Readers /\ gen \in Generators /\ fw \in Forwarders
  BY Fields
<1>2. rd' \in Readers /\ rd'.pc = "check" /\ rd'.done = rd.done /\ rd'.item = rd.item
  BY <1>1, PCSets, Zenon DEF Readers, StartStream
<1>3. /\ gen' \in Generators /\ gen'.yielded = gen.yielded /\ gen'.end = gen.end
      /\ gen'.pc = IF gen.pc = "starting" THEN "get" ELSE gen.pc
  BY <1>1, PCSets, Zenon DEF Generators, StartStream
<1>4. /\ fw' \in Forwarders /\ fw'.val = fw.val /\ fw'.exc = fw.exc
      /\ fw'.pc = IF gen.pc = "starting" /\ kind = "async" THEN "next" ELSE fw.pc
  BY <1>1, PCSets, Zenon DEF Forwarders, StartStream
<1>5. /\ rd.pc = "off" /\ ~closed /\ left' \in Responses
      /\ UNCHANGED <<kind, compressed, closed, net, shut, native, chan, discarded,
                     queue, ready, putters, event, slot, astray>>
  BY DEF StartStream, socket, loop
<1> QED
  BY <1>2, <1>3, <1>4, <1>5

LEMMA StartEndsDoes ==
    ASSUME BridgeTypes, StartFails \/ CancelStart
    PROVE  /\ gen.pc = "starting"
           /\ gen' \in Generators /\ gen'.pc = "over" /\ gen'.end = "start"
           /\ gen'.yielded = gen.yielded
           /\ closed' \in BOOLEAN /\ (closed => closed')
           /\ slot' = IF kind = "async" THEN "free" ELSE slot
           /\ UNCHANGED <<kind, compressed, left, net, shut, rd, native, chan, discarded, fw,
                          queue, ready, putters, event, astray>>
<1>1. gen \in Generators /\ closed \in BOOLEAN
  BY Fields
<1>2. /\ gen' \in Generators /\ gen'.pc = "over" /\ gen'.end = "start"
      /\ gen'.yielded = gen.yielded
  BY <1>1, PCSets, Zenon DEF Generators, StartFails, CancelStart
<1>3. /\ gen.pc = "starting" /\ closed' \in BOOLEAN /\ (closed => closed')
      /\ slot' = IF kind = "async" THEN "free" ELSE slot
      /\ UNCHANGED <<kind, compressed, left, net, shut, rd, native, chan, discarded, fw,
                     queue, ready, putters, event, astray>>
  BY <1>1, Zenon DEF StartFails, CancelStart, server, socket, loop
<1> QED
  BY <1>2, <1>3

LEMMA ServerDoes ==
    ASSUME BridgeTypes, ServerSends \/ ServerCloses
    PROVE  /\ left # <<>> /\ ~Eof
           /\ \/ /\ net' = Append(net, Head(left)) /\ left' = Tail(left) /\ closed' = closed
              \/ /\ net' \in CutOff /\ left' = left /\ closed' = TRUE
           /\ UNCHANGED <<kind, compressed, shut, rd, native, chan, discarded, fw,
                          queue, ready, putters, gen, event, slot, astray>>
BY DEF ServerSends, ServerCloses, loop

LEMMA ReaderCheckDoes ==
    ASSUME BridgeTypes, ReaderCheck
    PROVE  /\ rd.pc = "check" /\ rd' \in Readers /\ rd'.done = rd.done
           /\ \/ /\ native.cancel /\ rd'.pc = "exit" /\ rd'.item = rd.item
                 /\ native' \in Natives /\ native'.finished /\ native'.cancel = native.cancel
                 /\ native'.eos = native.eos /\ native'.dropped = native.dropped
              \/ /\ ~native.cancel /\ native' = native
                 /\ \/ rd.done /\ rd'.pc = "publish" /\ rd'.item = None
                    \/ ~rd.done /\ rd'.pc = "read" /\ rd'.item = rd.item
           /\ UNCHANGED <<kind, compressed, left, closed, net, shut, chan, discarded, fw,
                          queue, ready, putters, gen, event, slot, astray>>
<1>1. rd \in Readers /\ native \in Natives /\ None \in Items
  BY Fields, ItemTypes
<1>2. rd.pc = "check" /\ UNCHANGED <<kind, compressed, left, closed, net, shut, chan, discarded, fw,
                          queue, ready, putters, gen, event, slot, astray>>
  BY DEF ReaderCheck, server, socket, loop
<1>3. CASE native.cancel
  <2>1. rd' = [rd EXCEPT !.pc = "exit"] /\ native' = [native EXCEPT !.finished = TRUE]
    BY <1>3, Zenon DEF ReaderCheck, Exit
  <2>2. rd' \in Readers /\ rd'.pc = "exit" /\ rd'.done = rd.done /\ rd'.item = rd.item
    BY <1>1, <2>1, PCSets, Zenon DEF Readers
  <2>3. /\ native' \in Natives /\ native'.finished /\ native'.cancel = native.cancel
        /\ native'.eos = native.eos /\ native'.dropped = native.dropped
    BY <1>1, <2>1, Zenon DEF Natives
  <2> QED
    BY <1>2, <1>3, <2>2, <2>3
<1>4. CASE ~native.cancel
  <2>1. native' = native /\ rd' = IF rd.done THEN [rd EXCEPT !.pc = "publish", !.item = None]
                                  ELSE [rd EXCEPT !.pc = "read"]
    BY <1>4, Zenon DEF ReaderCheck
  <2>2. CASE rd.done
    <3>1. rd' \in Readers /\ rd'.pc = "publish" /\ rd'.done = rd.done /\ rd'.item = None
      BY <1>1, <2>1, <2>2, PCSets, Zenon DEF Readers
    <3> QED
      BY <1>2, <1>4, <2>1, <2>2, <3>1, Zenon
  <2>3. CASE ~rd.done
    <3>1. rd' \in Readers /\ rd'.pc = "read" /\ rd'.done = rd.done /\ rd'.item = rd.item
      BY <1>1, <2>1, <2>3, PCSets, Zenon DEF Readers
    <3> QED
      BY <1>2, <1>4, <2>1, <2>3, <3>1
  <2> QED
    BY <2>2, <2>3
<1> QED
  BY <1>3, <1>4

\* The packet in front of the socket, and what the reader makes of it.
LEMMA ReaderPacketDoes ==
    ASSUME BridgeTypes, ReaderPacket
    PROVE  /\ rd.pc = "read" /\ net # <<>> /\ net' = Tail(net) /\ rd' \in Readers
           /\ net[1] \in Packets /\ (rd.done => rd'.done)
           /\ net[1].type = "head" => rd'.pc = "check" /\ rd'.done = rd.done
           /\ net[1].type = "block" => /\ rd'.pc = "send" /\ rd'.done = rd.done
                                       /\ rd'.item.type = "block" /\ rd'.item.n = net[1].n
           /\ net[1].type = "eos" => rd'.pc = "publish" /\ rd'.done /\ rd'.item = None
           /\ net[1].type = "exc" => rd'.pc = "publish" /\ rd'.done /\ rd'.item = Err
           /\ net[1].type \in Cut =>
                 \/ rd'.pc = "send" /\ rd'.item = Err
                 \/ rd'.pc = "read" /\ rd'.done
           /\ UNCHANGED <<kind, compressed, left, closed, shut, native, chan, discarded, fw,
                          queue, ready, putters, gen, event, slot, astray>>
<1>1. rd \in Readers /\ None \in Items /\ Err \in Items
  BY Fields, ItemTypes
<1>2. /\ rd.pc = "read" /\ net # <<>> /\ net' = Tail(net) /\ rd' = AfterPacket(Head(net))
      /\ UNCHANGED <<kind, compressed, left, closed, shut, native, chan, discarded, fw,
                     queue, ready, putters, gen, event, slot, astray>>
  BY DEF ReaderPacket, server, loop
<1>3. Head(net) = net[1] /\ net[1] \in Packets
  BY <1>2, Fields, HeadAndTail
<1>4. PICK p : p = net[1]
  OBVIOUS
<1>5. p \in Packets /\ p.n \in Nat /\ rd' = AfterPacket(p)
      /\ p.type \in {"head", "block", "eos", "exc", "cutexc", "cutblock"}
  BY <1>2, <1>3, <1>4, Zenon DEF Packets
<1>6. CASE p.type = "head"
  <2>1. rd' = [rd EXCEPT !.pc = "check"]
    BY <1>5, <1>6 DEF AfterPacket
  <2>2. rd' \in Readers /\ rd'.pc = "check" /\ rd'.done = rd.done
    BY <1>1, <2>1, PCSets, Zenon DEF Readers
  <2> QED
    BY <1>2, <1>3, <1>4, <1>6, <2>2 DEF Cut
<1>7. CASE p.type = "block"
  <2>1. rd' = [rd EXCEPT !.pc = "send", !.item = p]
    BY <1>5, <1>7 DEF AfterPacket
  <2>2. p \in Items
    BY <1>5, <1>7 DEF Packets, Items
  <2>3. rd' \in Readers /\ rd'.pc = "send" /\ rd'.done = rd.done /\ rd'.item = p
    BY <1>1, <2>1, <2>2, PCSets, Zenon DEF Readers
  <2> QED
    BY <1>2, <1>3, <1>4, <1>7, <2>3 DEF Cut
<1>8. CASE p.type = "eos"
  <2>1. rd' = [pc |-> "publish", done |-> TRUE, item |-> None]
    BY <1>5, <1>8 DEF AfterPacket, Terminal
  <2>2. rd' \in Readers /\ rd'.pc = "publish" /\ rd'.done /\ rd'.item = None
    BY <1>1, <2>1, PCSets, Zenon DEF Readers
  <2> QED
    BY <1>2, <1>3, <1>4, <1>8, <2>2 DEF Cut
<1>9. CASE p.type = "exc"
  <2>1. rd' = [pc |-> "publish", done |-> TRUE, item |-> Err]
    BY <1>5, <1>9 DEF AfterPacket, Terminal
  <2>2. rd' \in Readers /\ rd'.pc = "publish" /\ rd'.done /\ rd'.item = Err
    BY <1>1, <2>1, PCSets, Zenon DEF Readers
  <2> QED
    BY <1>2, <1>3, <1>4, <1>9, <2>2 DEF Cut
<1>10. CASE p.type = "cutexc" \/ (p.type = "cutblock" /\ compressed)
  <2>1. \/ rd' = [pc |-> "send", done |-> TRUE, item |-> Err]
        \/ rd' = [rd EXCEPT !.pc = "send", !.item = Err]
    BY <1>5, <1>10 DEF AfterPacket
  <2>2. rd' \in Readers /\ rd'.pc = "send" /\ rd'.item = Err /\ (rd.done => rd'.done)
    <3>1. CASE rd' = [pc |-> "send", done |-> TRUE, item |-> Err]
      BY <1>1, <3>1, PCSets, Zenon DEF Readers
    <3>2. CASE rd' = [rd EXCEPT !.pc = "send", !.item = Err]
      BY <1>1, <3>2, PCSets, Zenon DEF Readers
    <3> QED
      BY <2>1, <3>1, <3>2
  <2> QED
    BY <1>2, <1>3, <1>4, <1>10, <2>2 DEF Cut
<1>11. CASE p.type = "cutblock" /\ ~compressed
  <2>1. rd' = [rd EXCEPT !.done = TRUE]
    BY <1>5, <1>11 DEF AfterPacket
  <2>2. rd' \in Readers /\ rd'.pc = rd.pc /\ rd'.done
    BY <1>1, <2>1, Zenon DEF Readers
  <2> QED
    BY <1>2, <1>3, <1>4, <1>11, <2>2 DEF Cut
<1> QED
  BY <1>5, <1>6, <1>7, <1>8, <1>9, <1>10, <1>11

\* An error in the middle of the response, and what is read after it.
LEMMA ReaderFailsDoes ==
    ASSUME BridgeTypes, ReaderFails
    PROVE  /\ rd.pc = "read" /\ ~astray /\ astray' /\ (net # <<>> \/ (left # <<>> /\ ~Eof))
           /\ rd' \in Readers /\ rd'.pc = "send" /\ rd'.done = rd.done /\ rd'.item = Err
           /\ UNCHANGED <<kind, compressed, left, closed, net, shut, native, chan, discarded, fw,
                          queue, ready, putters, gen, event, slot>>
<1>1. rd \in Readers /\ Err \in Items
  BY Fields, ItemTypes
<1>2. /\ rd.pc = "read" /\ ~astray /\ astray' /\ (net # <<>> \/ (left # <<>> /\ ~Eof))
      /\ rd' = [rd EXCEPT !.pc = "send", !.item = Err]
      /\ UNCHANGED <<kind, compressed, left, closed, net, shut, native, chan, discarded, fw,
                     queue, ready, putters, gen, event, slot>>
  BY DEF ReaderFails, server, socket, loop
<1>3. rd' \in Readers /\ rd'.pc = "send" /\ rd'.done = rd.done /\ rd'.item = Err
  BY <1>1, <1>2, PCSets, Zenon DEF Readers
<1> QED
  BY <1>2, <1>3

LEMMA ReaderStrayDoes ==
    ASSUME BridgeTypes, ReaderStray
    PROVE  /\ rd.pc = "read" /\ astray /\ astray' /\ net' \in Seq(Packets)
           /\ rd' \in Readers /\ rd'.pc \in {"check", "send", "publish"}
           /\ rd'.pc = "send" => rd'.item = Err
           /\ UNCHANGED <<kind, compressed, left, closed, shut, native, chan, discarded, fw,
                          queue, ready, putters, gen, event, slot>>
<1>1. rd \in Readers /\ Err \in Items /\ None \in Items
  BY Fields, ItemTypes
<1>2. /\ rd.pc = "read" /\ astray /\ astray' /\ net' = IF net = <<>> THEN net ELSE Tail(net)
      /\ \/ rd' = [rd EXCEPT !.pc = "check"]
         \/ rd' = [rd EXCEPT !.pc = "send", !.item = Err]
         \/ rd' = [pc |-> "publish", done |-> TRUE, item |-> None]
      /\ UNCHANGED <<kind, compressed, left, closed, shut, native, chan, discarded, fw,
                     queue, ready, putters, gen, event, slot>>
  BY DEF ReaderStray, Terminal, server, loop
<1>3. net' \in Seq(Packets)
  BY <1>2, Fields, HeadAndTail
<1>4. CASE rd' = [rd EXCEPT !.pc = "check"]
  <2>1. rd' \in Readers /\ rd'.pc = "check"
    BY <1>1, <1>4, PCSets, Zenon DEF Readers
  <2> QED
    BY <1>2, <1>3, <2>1
<1>5. CASE rd' = [rd EXCEPT !.pc = "send", !.item = Err]
  <2>1. rd' \in Readers /\ rd'.pc = "send" /\ rd'.item = Err
    BY <1>1, <1>5, PCSets, Zenon DEF Readers
  <2> QED
    BY <1>2, <1>3, <2>1
<1>6. CASE rd' = [pc |-> "publish", done |-> TRUE, item |-> None]
  <2>1. rd' \in Readers /\ rd'.pc = "publish"
    BY <1>1, <1>6, PCSets, Zenon DEF Readers
  <2> QED
    BY <1>2, <1>3, <2>1
<1> QED
  BY <1>2, <1>4, <1>5, <1>6

LEMMA ReaderEofDoes ==
    ASSUME BridgeTypes, ReaderEof
    PROVE  /\ rd.pc = "read" /\ net = <<>> /\ Eof
           /\ rd' \in Readers /\ rd'.pc = "read" /\ rd'.done /\ rd'.item = rd.item
           /\ UNCHANGED <<kind, compressed, left, closed, net, shut, native, chan, discarded, fw,
                          queue, ready, putters, gen, event, slot, astray>>
<1>1. rd \in Readers
  BY Fields
<1>2. /\ rd.pc = "read" /\ net = <<>> /\ Eof /\ rd' = [rd EXCEPT !.done = TRUE]
      /\ UNCHANGED <<kind, compressed, left, closed, net, shut, native, chan, discarded, fw,
                     queue, ready, putters, gen, event, slot, astray>>
  BY DEF ReaderEof, AfterEof, server, socket, loop
<1>3. rd' \in Readers /\ rd'.pc = rd.pc /\ rd'.done /\ rd'.item = rd.item
  BY <1>1, <1>2, Zenon DEF Readers
<1> QED
  BY <1>2, <1>3

LEMMA ReaderPublishDoes ==
    ASSUME BridgeTypes, ReaderPublish
    PROVE  /\ rd.pc = "publish"
           /\ rd' \in Readers /\ rd'.pc = "send" /\ rd'.done = rd.done /\ rd'.item = rd.item
           /\ native' \in Natives /\ native'.eos /\ native'.cancel = native.cancel
           /\ native'.finished = native.finished /\ native'.dropped = native.dropped
           /\ UNCHANGED <<kind, compressed, left, closed, net, shut, chan, discarded, fw,
                          queue, ready, putters, gen, event, slot, astray>>
<1>1. rd \in Readers /\ native \in Natives
  BY Fields
<1>2. /\ rd.pc = "publish"
      /\ UNCHANGED <<kind, compressed, left, closed, net, shut, chan, discarded, fw,
                     queue, ready, putters, gen, event, slot, astray>>
  BY DEF ReaderPublish, server, socket, loop
<1>3. rd' \in Readers /\ rd'.pc = "send" /\ rd'.done = rd.done /\ rd'.item = rd.item
  BY <1>1, PCSets, Zenon DEF Readers, ReaderPublish
<1>4. /\ native' \in Natives /\ native'.eos /\ native'.cancel = native.cancel
      /\ native'.finished = native.finished /\ native'.dropped = native.dropped
  BY <1>1, Zenon DEF Natives, ReaderPublish
<1> QED
  BY <1>2, <1>3, <1>4

LEMMA ReaderSendDoes ==
    ASSUME BridgeTypes, ReaderSend
    PROVE  /\ rd.pc = "send" /\ rd' \in Readers /\ rd'.done = rd.done /\ rd'.item = rd.item
           /\ \/ /\ native.dropped /\ rd'.pc = "exit" /\ chan' = chan
                 /\ native' \in Natives /\ native'.finished /\ native'.cancel = native.cancel
                 /\ native'.eos = native.eos /\ native'.dropped = native.dropped
              \/ /\ ~native.dropped /\ rd'.pc = "check" /\ native' = native
                 /\ chan' = Append(chan, rd.item)
           /\ UNCHANGED <<kind, compressed, left, closed, net, shut, discarded, fw,
                          queue, ready, putters, gen, event, slot, astray>>
<1>1. rd \in Readers /\ native \in Natives
  BY Fields
<1>2. /\ rd.pc = "send"
      /\ UNCHANGED <<kind, compressed, left, closed, net, shut, discarded, fw,
                     queue, ready, putters, gen, event, slot, astray>>
  BY DEF ReaderSend, server, socket, loop
<1>3. CASE native.dropped
  <2>1. rd' = [rd EXCEPT !.pc = "exit"] /\ native' = [native EXCEPT !.finished = TRUE] /\ chan' = chan
    BY <1>3, Zenon DEF ReaderSend, Exit
  <2>2. rd' \in Readers /\ rd'.pc = "exit" /\ rd'.done = rd.done /\ rd'.item = rd.item
    BY <1>1, <2>1, PCSets, Zenon DEF Readers
  <2>3. /\ native' \in Natives /\ native'.finished /\ native'.cancel = native.cancel
        /\ native'.eos = native.eos /\ native'.dropped = native.dropped
    BY <1>1, <2>1, Zenon DEF Natives
  <2> QED
    BY <1>2, <1>3, <2>1, <2>2, <2>3, Zenon
<1>4. CASE ~native.dropped
  <2>1. native' = native /\ rd' = [rd EXCEPT !.pc = "check"] /\ chan' = Append(chan, rd.item)
    BY <1>4, Zenon DEF ReaderSend
  <2>2. rd' \in Readers /\ rd'.pc = "check" /\ rd'.done = rd.done /\ rd'.item = rd.item
    BY <1>1, <2>1, PCSets, Zenon DEF Readers
  <2> QED
    BY <1>2, <1>4, <2>1, <2>2
<1> QED
  BY <1>3, <1>4

LEMMA StreamDroppedDoes ==
    ASSUME BridgeTypes, StreamDropped
    PROVE  /\ gen.pc = "over" /\ rd.pc # "off" /\ ~native.dropped /\ fw.pc \in {"off", "done"}
           /\ chan' = <<>>
           /\ native' \in Natives /\ native'.dropped /\ native'.eos = native.eos
           /\ native'.finished = native.finished
           /\ native'.cancel <=> (native.cancel \/ ~native.eos)
           /\ \/ native.eos /\ net' = net /\ shut' = shut
              \/ ~native.eos /\ Shutdown
           /\ UNCHANGED <<kind, compressed, left, closed, rd, discarded, fw,
                          queue, ready, putters, gen, event, slot, astray>>
<1>1. native \in Natives
  BY Fields
<1>2. /\ gen.pc = "over" /\ rd.pc # "off" /\ ~native.dropped /\ fw.pc \in {"off", "done"}
      /\ chan' = <<>>
      /\ UNCHANGED <<kind, compressed, left, closed, rd, discarded, fw,
                     queue, ready, putters, gen, event, slot, astray>>
  BY DEF StreamDropped, server, loop
<1>3. \/ native.eos /\ net' = net /\ shut' = shut
      \/ ~native.eos /\ Shutdown
  BY DEF StreamDropped, socket
<1>4. /\ native' \in Natives /\ native'.dropped /\ native'.eos = native.eos
      /\ native'.finished = native.finished
      /\ native'.cancel <=> (native.cancel \/ ~native.eos)
  BY <1>1, Zenon DEF Natives, StreamDropped
<1> QED
  BY <1>2, <1>3, <1>4

LEMMA ForwarderNextDoes ==
    ASSUME BridgeTypes, ForwarderNext
    PROVE  /\ fw.pc = "next" /\ fw' \in Forwarders
           /\ \E item \in Items :
                 /\ \/ chan # <<>> /\ item = chan[1] /\ chan' = Tail(chan)
                    \/ native.finished /\ item = None /\ chan' = chan
                 /\ item.type = "block" => fw'.pc = "put" /\ fw'.val = item /\ fw'.exc = fw.exc
                 /\ item.type = "none" => fw'.pc = "fin" /\ fw'.val = fw.val /\ fw'.exc = fw.exc
                 /\ item.type = "err" => fw'.pc = "fin" /\ fw'.val = fw.val /\ fw'.exc
           /\ UNCHANGED <<kind, compressed, left, closed, net, shut, rd, native, discarded,
                          queue, ready, putters, gen, event, slot, astray>>
<1>1. fw \in Forwarders
  BY Fields
<1>2. /\ fw.pc = "next"
      /\ UNCHANGED <<kind, compressed, left, closed, net, shut, rd, native, discarded,
                     queue, ready, putters, gen, event, slot, astray>>
  BY DEF ForwarderNext, server, socket, loop
<1>3. PICK item \in Range(chan) \cup {None} :
         /\ Receive(item)
         /\ fw' = CASE item.type = "block" -> [fw EXCEPT !.pc = "put", !.val = item]
                    [] item.type = "none"  -> [fw EXCEPT !.pc = "fin"]
                    [] item.type = "err"   -> [fw EXCEPT !.pc = "fin", !.exc = TRUE]
  BY Zenon DEF ForwarderNext
<1>4. /\ item \in Items
      /\ \/ chan # <<>> /\ item = chan[1] /\ chan' = Tail(chan)
         \/ native.finished /\ item = None /\ chan' = chan
  BY <1>3, ReceivedItem
<1>5. item.type \in {"block", "none", "err"}
  BY <1>4 DEF Items
<1>6. CASE item.type = "block"
  <2>1. fw' = [fw EXCEPT !.pc = "put", !.val = item]
    BY <1>3, <1>6
  <2>2. fw' \in Forwarders /\ fw'.pc = "put" /\ fw'.val = item /\ fw'.exc = fw.exc
    BY <1>1, <1>4, <2>1, PCSets, Zenon DEF Forwarders
  <2> QED
    BY <1>2, <1>4, <1>6, <2>2
<1>7. CASE item.type = "none"
  <2>1. fw' = [fw EXCEPT !.pc = "fin"]
    BY <1>3, <1>7
  <2>2. fw' \in Forwarders /\ fw'.pc = "fin" /\ fw'.val = fw.val /\ fw'.exc = fw.exc
    BY <1>1, <2>1, PCSets, Zenon DEF Forwarders
  <2> QED
    BY <1>2, <1>4, <1>7, <2>2
<1>8. CASE item.type = "err"
  <2>1. fw' = [fw EXCEPT !.pc = "fin", !.exc = TRUE]
    BY <1>3, <1>8
  <2>2. fw' \in Forwarders /\ fw'.pc = "fin" /\ fw'.val = fw.val /\ fw'.exc
    BY <1>1, <2>1, PCSets, Zenon DEF Forwarders
  <2> QED
    BY <1>2, <1>4, <1>8, <2>2, Zenon
<1> QED
  BY <1>5, <1>6, <1>7, <1>8

\* The steps of the forwarder that change nothing else.
LEMMA ForwarderMoves ==
    ASSUME BridgeTypes, ForwarderWait \/ ForwarderTimeout \/ ForwarderEnds
    PROVE  /\ fw' \in Forwarders /\ fw'.val = fw.val /\ fw'.exc = fw.exc
           /\ \/ fw.pc = "wait" /\ Landed /\ fw'.pc = "next"
              \/ fw.pc = "wait" /\ gen.pc # "kill" /\ fw'.pc = "put"
              \/ fw.pc = "finwait" /\ (Landed \/ gen.pc # "kill") /\ fw'.pc = "release"
           /\ UNCHANGED <<kind, compressed, left, closed, net, shut, rd, native, chan, discarded,
                          queue, ready, putters, gen, event, slot, astray>>
<1>1. fw \in Forwarders
  BY Fields
<1>2. UNCHANGED <<kind, compressed, left, closed, net, shut, rd, native, chan, discarded,
                  queue, ready, putters, gen, event, slot, astray>>
  BY DEF ForwarderWait, ForwarderTimeout, ForwarderEnds, server, socket, loop
<1>3. CASE ForwarderWait
  <2>1. fw' \in Forwarders /\ fw'.pc = "next" /\ fw'.val = fw.val /\ fw'.exc = fw.exc
    BY <1>1, <1>3, PCSets, Zenon DEF Forwarders, ForwarderWait
  <2> QED
    BY <1>2, <1>3, <2>1 DEF ForwarderWait
<1>4. CASE ForwarderTimeout
  <2>1. fw' \in Forwarders /\ fw'.pc = "put" /\ fw'.val = fw.val /\ fw'.exc = fw.exc
    BY <1>1, <1>4, PCSets, Zenon DEF Forwarders, ForwarderTimeout
  <2> QED
    BY <1>2, <1>4, <2>1 DEF ForwarderTimeout
<1>5. CASE ForwarderEnds
  <2>1. fw' \in Forwarders /\ fw'.pc = "release" /\ fw'.val = fw.val /\ fw'.exc = fw.exc
    BY <1>1, <1>5, PCSets, Zenon DEF Forwarders, ForwarderEnds
  <2> QED
    BY <1>2, <1>5, <2>1 DEF ForwarderEnds
<1> QED
  BY <1>3, <1>4, <1>5

LEMMA ForwarderPutDoes ==
    ASSUME BridgeTypes, ForwarderPut
    PROVE  /\ fw.pc = "put" /\ fw' \in Forwarders /\ fw'.val = fw.val /\ fw'.exc = fw.exc
           /\ fw.val \in Values /\ fw.val.type = "block"
           /\ \/ event /\ fw'.pc = "fin" /\ queue' = queue /\ ready' = ready /\ putters' = putters
              \/ ~event /\ fw'.pc = "wait" /\ Submit(fw.val)
           /\ UNCHANGED <<kind, compressed, left, closed, net, shut, rd, native, chan, discarded,
                          gen, event, slot, astray>>
<1>1. fw \in Forwarders /\ fw.val \in Items
  BY Fields
<1>2. /\ fw.pc = "put"
      /\ UNCHANGED <<kind, compressed, left, closed, net, shut, rd, native, chan, discarded,
                     gen, event, slot, astray>>
  BY DEF ForwarderPut, server, socket
<1>3. fw.val.type = "block"
  BY <1>2 DEF BridgeTypes, ForwarderType
<1>4. fw.val \in Values
  BY <1>1, <1>3 DEF Items, Values
<1>5. CASE event
  <2>1. fw' \in Forwarders /\ fw'.pc = "fin" /\ fw'.val = fw.val /\ fw'.exc = fw.exc
    BY <1>1, <1>5, PCSets, Zenon DEF Forwarders, ForwarderPut
  <2>2. queue' = queue /\ ready' = ready /\ putters' = putters
    BY <1>5 DEF ForwarderPut, loop
  <2> QED
    BY <1>2, <1>3, <1>4, <1>5, <2>1, <2>2
<1>6. CASE ~event
  <2>1. fw' \in Forwarders /\ fw'.pc = "wait" /\ fw'.val = fw.val /\ fw'.exc = fw.exc
    BY <1>1, <1>6, PCSets, Zenon DEF Forwarders, ForwarderPut
  <2>2. Submit(fw.val)
    BY <1>6 DEF ForwarderPut
  <2> QED
    BY <1>2, <1>3, <1>4, <1>6, <2>1, <2>2
<1> QED
  BY <1>5, <1>6

LEMMA ForwarderSentinelDoes ==
    ASSUME BridgeTypes, ForwarderSentinel
    PROVE  /\ fw.pc = "fin" /\ Submit(Sentinel)
           /\ fw' \in Forwarders /\ fw'.pc = "finwait" /\ fw'.val = fw.val /\ fw'.exc = fw.exc
           /\ UNCHANGED <<kind, compressed, left, closed, net, shut, rd, native, chan, discarded,
                          gen, event, slot, astray>>
<1>1. fw \in Forwarders
  BY Fields
<1>2. /\ fw.pc = "fin" /\ Submit(Sentinel)
      /\ UNCHANGED <<kind, compressed, left, closed, net, shut, rd, native, chan, discarded,
                     gen, event, slot, astray>>
  BY DEF ForwarderSentinel, server, socket
<1>3. fw' \in Forwarders /\ fw'.pc = "finwait" /\ fw'.val = fw.val /\ fw'.exc = fw.exc
  BY <1>1, PCSets, Zenon DEF Forwarders, ForwarderSentinel
<1> QED
  BY <1>2, <1>3

LEMMA ForwarderReleaseDoes ==
    ASSUME BridgeTypes, ForwarderRelease
    PROVE  /\ fw.pc = "release"
           /\ slot' = IF discarded \/ ~native.eos THEN "destroyed" ELSE "free"
           /\ fw' \in Forwarders /\ fw'.pc = "done" /\ fw'.val = fw.val /\ fw'.exc = fw.exc
           /\ UNCHANGED <<kind, compressed, left, closed, net, shut, rd, native, chan, discarded,
                          queue, ready, putters, gen, event, astray>>
<1>1. fw \in Forwarders
  BY Fields
<1>2. /\ fw.pc = "release"
      /\ slot' = IF discarded \/ ~native.eos THEN "destroyed" ELSE "free"
      /\ UNCHANGED <<kind, compressed, left, closed, net, shut, rd, native, chan, discarded,
                     queue, ready, putters, gen, event, astray>>
  BY DEF ForwarderRelease, server, socket, loop
<1>3. fw' \in Forwarders /\ fw'.pc = "done" /\ fw'.val = fw.val /\ fw'.exc = fw.exc
  BY <1>1, PCSets, Zenon DEF Forwarders, ForwarderRelease
<1> QED
  BY <1>2, <1>3

LEMMA RunPutDoes ==
    ASSUME BridgeTypes, RunPut
    PROVE  /\ ready # <<>> /\ gen.pc # "kill" /\ ready' = Tail(ready)
           /\ ready[1] \in Puts /\ ready[1].val \in Values /\ ready[1].mine \in BOOLEAN
           /\ \/ queue' = Append(queue, ready[1].val) /\ putters' = putters
              \/ queue' = queue /\ putters' = Append(putters, ready[1])
           /\ UNCHANGED <<kind, compressed, left, closed, net, shut, rd, native, chan, discarded, fw,
                          gen, event, slot, astray>>
<1>1. ready \in Seq(Puts)
  BY Fields
<1>2. /\ ready # <<>> /\ gen.pc # "kill" /\ ready' = Tail(ready)
      /\ UNCHANGED <<kind, compressed, left, closed, net, shut, rd, native, chan, discarded, fw,
                     gen, event, slot, astray>>
  BY DEF RunPut, server, socket
<1>3. Head(ready) = ready[1] /\ ready[1] \in Puts
  BY <1>1, <1>2, HeadAndTail
<1>4. ready[1].val \in Values /\ ready[1].mine \in BOOLEAN
  BY <1>3 DEF Puts
<1>5. \/ queue' = Append(queue, ready[1].val) /\ putters' = putters
      \/ queue' = queue /\ putters' = Append(putters, ready[1])
  BY <1>3, Zenon DEF RunPut
<1> QED
  BY <1>2, <1>3, <1>4, <1>5

LEMMA GeneratorGetDoes ==
    ASSUME BridgeTypes, GeneratorGet
    PROVE  /\ kind = "async" /\ gen.pc = "get" /\ queue # <<>> /\ queue' = Tail(queue)
           /\ queue[1] \in Values /\ gen' \in Generators
           /\ \/ putters = <<>> /\ ready' = ready /\ putters' = putters
              \/ putters # <<>> /\ ready' = Append(ready, putters[1]) /\ putters' = Tail(putters)
           /\ \/ /\ queue[1].type = "sentinel" /\ gen'.pc = "abandon" /\ gen'.yielded = gen.yielded
                 /\ gen'.end = IF fw.exc THEN "err" ELSE "none"
              \/ /\ queue[1].type = "block" /\ gen'.pc = "yield" /\ gen'.end = gen.end
                 /\ gen'.yielded = Append(gen.yielded, queue[1].n)
           /\ UNCHANGED <<kind, compressed, left, closed, net, shut, rd, native, chan, discarded, fw,
                          event, slot, astray>>
<1>1. gen \in Generators /\ gen.yielded \in Seq(Nat) /\ queue \in Seq(Values) /\ putters \in Seq(Puts)
  BY Fields
<1>2. /\ kind = "async" /\ gen.pc = "get" /\ queue # <<>> /\ queue' = Tail(queue)
      /\ UNCHANGED <<kind, compressed, left, closed, net, shut, rd, native, chan, discarded, fw,
                     event, slot, astray>>
  BY DEF GeneratorGet, server, socket
<1>3. Head(queue) = queue[1] /\ queue[1] \in Values
  BY <1>1, <1>2, HeadAndTail
<1>4. \/ putters = <<>> /\ ready' = ready /\ putters' = putters
      \/ putters # <<>> /\ ready' = Append(ready, putters[1]) /\ putters' = Tail(putters)
  BY <1>1, HeadAndTail DEF GeneratorGet
<1>5. CASE queue[1] = Sentinel
  <2>1. PICK e : e = IF fw.exc THEN "err" ELSE "none"
    OBVIOUS
  <2>2. e \in Ends
    BY <2>1, PCSets
  <2>3. gen' = [gen EXCEPT !.pc = "abandon", !.end = e]
    BY <1>3, <1>5, <2>1, Zenon DEF GeneratorGet
  <2>4. gen' \in Generators /\ gen'.pc = "abandon" /\ gen'.yielded = gen.yielded /\ gen'.end = e
    BY <1>1, <2>2, <2>3, PCSets, Zenon DEF Generators
  <2>5. queue[1].type = "sentinel"
    BY <1>5, ItemTypes
  <2> QED
    BY <1>2, <1>3, <1>4, <2>1, <2>4, <2>5
<1>6. CASE queue[1] # Sentinel
  <2>1. queue[1].type = "block" /\ queue[1].n \in Nat
    BY <1>3, <1>6 DEF Values
  <2>2. Append(gen.yielded, queue[1].n) \in Seq(Nat)
    BY <1>1, <2>1, Appended
  <2>3. gen' = [gen EXCEPT !.pc = "yield", !.yielded = Append(@, queue[1].n)]
    BY <1>3, <1>6, Zenon DEF GeneratorGet
  <2>4. /\ gen' \in Generators /\ gen'.pc = "yield" /\ gen'.end = gen.end
        /\ gen'.yielded = Append(gen.yielded, queue[1].n)
    BY <1>1, <2>2, <2>3, PCSets, Zenon DEF Generators
  <2> QED
    BY <1>2, <1>3, <1>4, <2>1, <2>4
<1> QED
  BY <1>5, <1>6

LEMMA IteratorNextDoes ==
    ASSUME BridgeTypes, IteratorNext
    PROVE  /\ kind = "sync" /\ gen.pc = "get" /\ gen' \in Generators
           /\ \E item \in Items :
                 /\ \/ chan # <<>> /\ item = chan[1] /\ chan' = Tail(chan)
                    \/ native.finished /\ item = None /\ chan' = chan
                 /\ item.type = "block" => /\ gen'.pc = "yield" /\ gen'.end = gen.end
                                           /\ gen'.yielded = Append(gen.yielded, item.n)
                 /\ item.type # "block" => /\ gen'.pc = "over" /\ gen'.end = item.type
                                           /\ gen'.yielded = gen.yielded
           /\ UNCHANGED <<kind, compressed, left, closed, net, shut, rd, native, discarded, fw,
                          queue, ready, putters, event, slot, astray>>
<1>1. gen \in Generators /\ gen.yielded \in Seq(Nat)
  BY Fields
<1>2. /\ kind = "sync" /\ gen.pc = "get"
      /\ UNCHANGED <<kind, compressed, left, closed, net, shut, rd, native, discarded, fw,
                     queue, ready, putters, event, slot, astray>>
  BY DEF IteratorNext, server, socket, loop
<1>3. PICK item \in Range(chan) \cup {None} :
         /\ Receive(item)
         /\ gen' = CASE item.type = "block" -> [gen EXCEPT !.pc = "yield",
                                                          !.yielded = Append(@, item.n)]
                     [] item.type = "none"  -> [gen EXCEPT !.pc = "over", !.end = "none"]
                     [] item.type = "err"   -> [gen EXCEPT !.pc = "over", !.end = "err"]
  BY Zenon DEF IteratorNext
<1>4. /\ item \in Items
      /\ \/ chan # <<>> /\ item = chan[1] /\ chan' = Tail(chan)
         \/ native.finished /\ item = None /\ chan' = chan
  BY <1>3, ReceivedItem
<1>5. item.type \in {"block", "none", "err"} /\ item.n \in Nat
  BY <1>4 DEF Items
<1>6. CASE item.type = "block"
  <2>1. gen' = [gen EXCEPT !.pc = "yield", !.yielded = Append(@, item.n)]
    BY <1>3, <1>6
  <2>2. Append(gen.yielded, item.n) \in Seq(Nat)
    BY <1>1, <1>5, Appended
  <2>3. /\ gen' \in Generators /\ gen'.pc = "yield" /\ gen'.end = gen.end
        /\ gen'.yielded = Append(gen.yielded, item.n)
    BY <1>1, <2>1, <2>2, PCSets, Zenon DEF Generators
  <2> QED
    BY <1>2, <1>4, <1>6, <2>3
<1>7. CASE item.type = "none"
  <2>1. gen' = [gen EXCEPT !.pc = "over", !.end = "none"]
    BY <1>3, <1>7
  <2>2. gen' \in Generators /\ gen'.pc = "over" /\ gen'.yielded = gen.yielded /\ gen'.end = "none"
    BY <1>1, <2>1, PCSets, Zenon DEF Generators
  <2> QED
    BY <1>2, <1>4, <1>7, <2>2
<1>8. CASE item.type = "err"
  <2>1. gen' = [gen EXCEPT !.pc = "over", !.end = "err"]
    BY <1>3, <1>8
  <2>2. gen' \in Generators /\ gen'.pc = "over" /\ gen'.yielded = gen.yielded /\ gen'.end = "err"
    BY <1>1, <2>1, PCSets, Zenon DEF Generators
  <2> QED
    BY <1>2, <1>4, <1>8, <2>2
<1> QED
  BY <1>5, <1>6, <1>7, <1>8

\* The steps of the generator that change nothing else.
LEMMA GeneratorMoves ==
    ASSUME BridgeTypes, GeneratorResumes \/ Leave
    PROVE  /\ gen' \in Generators /\ gen'.yielded = gen.yielded
           /\ gen.pc \in {"get", "yield"}
           /\ \/ gen.pc = "yield" /\ gen'.pc = "get" /\ gen'.end = gen.end
              \/ gen'.pc = "abandon" /\ gen'.end = "left"
           /\ UNCHANGED <<kind, compressed, left, closed, net, shut, rd, native, chan, discarded, fw,
                          queue, ready, putters, event, slot, astray>>
<1>1. gen \in Generators
  BY Fields
<1>2. UNCHANGED <<kind, compressed, left, closed, net, shut, rd, native, chan, discarded, fw,
                  queue, ready, putters, event, slot, astray>>
  BY DEF GeneratorResumes, Leave, server, socket, loop
<1>3. CASE GeneratorResumes
  <2>1. gen' \in Generators /\ gen'.pc = "get" /\ gen'.yielded = gen.yielded /\ gen'.end = gen.end
    BY <1>1, <1>3, PCSets, Zenon DEF Generators, GeneratorResumes
  <2> QED
    BY <1>2, <1>3, <2>1 DEF GeneratorResumes
<1>4. CASE Leave
  <2>1. gen' \in Generators /\ gen'.pc = "abandon" /\ gen'.yielded = gen.yielded /\ gen'.end = "left"
    BY <1>1, <1>4, PCSets, Zenon DEF Generators, Leave
  <2> QED
    BY <1>2, <1>4, <2>1 DEF Leave
<1> QED
  BY <1>3, <1>4

LEMMA AbandonDoes ==
    ASSUME BridgeTypes, Abandon
    PROVE  /\ gen.pc = "abandon"
           /\ gen' \in Generators /\ gen'.yielded = gen.yielded /\ gen'.end = gen.end
           /\ gen'.pc = IF native.eos THEN "over" ELSE "kill"
           /\ \/ kind = "async" /\ event' = TRUE /\ native' = native
              \/ /\ kind = "sync" /\ event' = event
                 /\ native' \in Natives /\ native'.cancel /\ native'.eos = native.eos
                 /\ native'.finished = native.finished /\ native'.dropped = native.dropped
           /\ UNCHANGED <<kind, compressed, left, closed, net, shut, rd, chan, discarded, fw,
                          queue, ready, putters, slot, astray>>
<1>1. gen \in Generators /\ native \in Natives /\ kind \in {"sync", "async"}
  BY Fields
<1>2. /\ gen.pc = "abandon"
      /\ UNCHANGED <<kind, compressed, left, closed, net, shut, rd, chan, discarded, fw,
                     queue, ready, putters, slot, astray>>
  BY DEF Abandon, server, socket, loop
<1>3. /\ gen' \in Generators /\ gen'.yielded = gen.yielded /\ gen'.end = gen.end
      /\ gen'.pc = IF native.eos THEN "over" ELSE "kill"
  <2>1. PICK p : p = IF native.eos THEN "over" ELSE "kill"
    OBVIOUS
  <2>2. p \in GeneratorPCs
    BY <2>1, PCSets
  <2>3. gen' = [gen EXCEPT !.pc = p]
    BY <2>1, Zenon DEF Abandon
  <2>4. gen' \in Generators /\ gen'.yielded = gen.yielded /\ gen'.end = gen.end /\ gen'.pc = p
    BY <1>1, <2>2, <2>3, Zenon DEF Generators
  <2> QED
    BY <2>1, <2>4
<1>4. CASE kind = "async"
  <2>1. event' = TRUE /\ native' = native
    BY <1>4, Zenon DEF Abandon
  <2> QED
    BY <1>2, <1>3, <1>4, <2>1
<1>5. CASE kind = "sync"
  <2>1. native' = [native EXCEPT !.cancel = TRUE] /\ event' = event
    BY <1>5 DEF Abandon
  <2>2. /\ native' \in Natives /\ native'.cancel /\ native'.eos = native.eos
        /\ native'.finished = native.finished /\ native'.dropped = native.dropped
    BY <1>1, <2>1, Zenon DEF Natives
  <2> QED
    BY <1>2, <1>3, <1>5, <2>1, <2>2
<1> QED
  BY <1>1, <1>4, <1>5, Zenon

LEMMA KillDoes ==
    ASSUME BridgeTypes, Kill
    PROVE  /\ gen.pc = "kill" /\ discarded' = TRUE /\ Shutdown
           /\ gen' \in Generators /\ gen'.pc = "over" /\ gen'.yielded = gen.yielded /\ gen'.end = gen.end
           /\ UNCHANGED <<kind, compressed, left, closed, rd, native, chan, fw,
                          queue, ready, putters, event, slot, astray>>
<1>1. gen \in Generators
  BY Fields
<1>2. /\ gen.pc = "kill" /\ discarded' = TRUE /\ Shutdown
      /\ UNCHANGED <<kind, compressed, left, closed, rd, native, chan, fw,
                     queue, ready, putters, event, slot, astray>>
  BY DEF Kill, server, loop
<1>3. gen' \in Generators /\ gen'.pc = "over" /\ gen'.yielded = gen.yielded /\ gen'.end = gen.end
  BY <1>1, PCSets, Zenon DEF Generators, Kill
<1> QED
  BY <1>2, <1>3

-----------------------------------------------------------------------------
\* Types

LEMMA TypesInit == Init => BridgeTypes
<1> SUFFICES ASSUME Init PROVE BridgeTypes
  OBVIOUS
<1>1. rd \in Readers /\ native \in Natives /\ fw \in Forwarders /\ gen \in Generators
  BY ItemTypes DEF Init, Readers, Natives, Forwarders, Generators, ReaderPCs, ForwarderPCs,
                   GeneratorPCs, Ends
<1>2. /\ kind \in {"sync", "async"} /\ compressed \in BOOLEAN /\ closed \in BOOLEAN /\ shut \in BOOLEAN
      /\ left = <<>> /\ net = <<>> /\ chan = <<>> /\ queue = <<>> /\ ready = <<>> /\ putters = <<>>
      /\ discarded \in BOOLEAN /\ event \in BOOLEAN /\ slot = "lent"
  BY Zenon DEF Init
<1>3. /\ ServerType /\ SocketType /\ ChanType
      /\ LoopType /\ FlagType /\ SlotType
  BY <1>2 DEF ServerType, SocketType, ChanType, LoopType, FlagType, SlotType
<1>4. ForwarderType
  BY <1>1 DEF Init, ForwarderType
<1> QED
  BY <1>1, <1>2, <1>3, <1>4 DEF BridgeTypes, ReaderType, NativeType, GeneratorType

LEMMA TypesKept ==
    ASSUME BridgeTypes, Next
    PROVE  BridgeTypes'
<1>1. CASE StartStream
  <2>1. left' \in Seq(Packets)
    BY <1>1, StartStreamDoes, ResponseShape
  <2>2. fw'.pc \in {"put", "wait"} => fw'.val.type = "block"
    BY <1>1, StartStreamDoes DEF BridgeTypes, ForwarderType
  <2> QED
    BY <1>1, StartStreamDoes, <2>1, <2>2, Fields, Zenon
       DEF BridgeTypes, ServerType, SocketType, ReaderType, NativeType, ChanType,
         ForwarderType, LoopType, GeneratorType, FlagType, SlotType
<1>2. CASE StartFails \/ CancelStart
  <2>1. slot' \in {"lent", "free", "destroyed"}
    BY <1>2, StartEndsDoes, Fields
  <2> QED
    BY <1>2, StartEndsDoes, <2>1, Fields, Zenon
       DEF BridgeTypes, ServerType, SocketType, ReaderType, NativeType, ChanType,
           ForwarderType, LoopType, GeneratorType, FlagType, SlotType
<1>3. CASE ServerSends \/ ServerCloses
  <2>1. net' \in Seq(Packets) /\ left' \in Seq(Packets) /\ closed' \in BOOLEAN
    <3>1. net \in Seq(Packets) /\ left \in Seq(Packets) /\ closed \in BOOLEAN /\ left # <<>>
      BY <1>3, ServerDoes, Fields, Zenon
    <3>2. CASE net' = Append(net, Head(left)) /\ left' = Tail(left) /\ closed' = closed
      BY <3>1, <3>2, HeadAndTail, Appended
    <3>3. CASE net' \in CutOff /\ left' = left /\ closed' = TRUE
      <4>1. net' = net \/ \E x \in Packets : net' = Append(net, x)
        BY <3>1, <3>3, CutOffShape
      <4> QED
        BY <3>1, <3>3, <4>1, Appended, Zenon
    <3> QED
      BY <1>3, ServerDoes, <3>2, <3>3, Zenon
  <2> QED
    BY <1>3, ServerDoes, <2>1, Fields, Zenon
       DEF BridgeTypes, ServerType, SocketType, ReaderType, NativeType, ChanType,
           ForwarderType, LoopType, GeneratorType, FlagType, SlotType
<1>4. CASE ReaderCheck
  BY <1>4, ReaderCheckDoes, Fields, Zenon
     DEF BridgeTypes, ServerType, SocketType, ReaderType, NativeType, ChanType,
         ForwarderType, LoopType, GeneratorType, FlagType, SlotType
<1>5. CASE ReaderPacket
  <2>1. net' \in Seq(Packets)
    BY <1>5, ReaderPacketDoes, Fields, HeadAndTail, ZenonT(60)
  <2> QED
    BY <1>5, ReaderPacketDoes, <2>1, Fields, Zenon
       DEF BridgeTypes, ServerType, SocketType, ReaderType, NativeType, ChanType,
           ForwarderType, LoopType, GeneratorType, FlagType, SlotType
<1>6. CASE ReaderEof
  BY <1>6, ReaderEofDoes, Fields, Zenon
     DEF BridgeTypes, ServerType, SocketType, ReaderType, NativeType, ChanType,
         ForwarderType, LoopType, GeneratorType, FlagType, SlotType
<1>7. CASE ReaderPublish
  BY <1>7, ReaderPublishDoes, Fields, Zenon
     DEF BridgeTypes, ServerType, SocketType, ReaderType, NativeType, ChanType,
         ForwarderType, LoopType, GeneratorType, FlagType, SlotType
<1>8. CASE ReaderSend
  <2>1. chan' \in Seq(Items)
    <3>1. chan \in Seq(Items) /\ rd.item \in Items
      BY Fields
    <3>2. Append(chan, rd.item) \in Seq(Items)
      BY <3>1, Appended
    <3> QED
      BY <1>8, ReaderSendDoes, <3>1, <3>2, Zenon
  <2> QED
    BY <1>8, ReaderSendDoes, <2>1, Fields, Zenon
       DEF BridgeTypes, ServerType, SocketType, ReaderType, NativeType, ChanType,
           ForwarderType, LoopType, GeneratorType, FlagType, SlotType
<1>9. CASE StreamDropped
  <2>1. net' \in Seq(Packets) /\ shut' \in BOOLEAN
    BY <1>9, StreamDroppedDoes, Fields, ShutdownTypes, Zenon
  <2>2. chan' \in Seq(Items)
    BY <1>9, StreamDroppedDoes
  <2> QED
    BY <1>9, StreamDroppedDoes, <2>1, <2>2, Fields, Zenon
       DEF BridgeTypes, ServerType, SocketType, ReaderType, NativeType, ChanType,
           ForwarderType, LoopType, GeneratorType, FlagType, SlotType
<1>10. CASE ForwarderNext
  <2>1. chan' \in Seq(Items)
    BY <1>10, ForwarderNextDoes, Fields, HeadAndTail, Zenon
  <2>2. fw'.pc \in {"put", "wait"} => fw'.val.type = "block"
    BY <1>10, ForwarderNextDoes DEF Items
  <2> QED
    BY <1>10, ForwarderNextDoes, <2>1, <2>2, Fields, Zenon
       DEF BridgeTypes, ServerType, SocketType, ReaderType, NativeType, ChanType,
           ForwarderType, LoopType, GeneratorType, FlagType, SlotType
<1>11. CASE ForwarderWait \/ ForwarderTimeout \/ ForwarderEnds
  <2>1. fw'.pc \in {"put", "wait"} => fw'.val.type = "block"
    BY <1>11, ForwarderMoves DEF BridgeTypes, ForwarderType
  <2> QED
    BY <1>11, ForwarderMoves, <2>1, Fields, Zenon
       DEF BridgeTypes, ServerType, SocketType, ReaderType, NativeType, ChanType,
           ForwarderType, LoopType, GeneratorType, FlagType, SlotType
<1>12. CASE ForwarderPut
  <2>1. queue' \in Seq(Values) /\ ready' \in Seq(Puts) /\ putters' \in Seq(Puts)
    BY <1>12, ForwarderPutDoes, Fields, SubmitTypes, Zenon
  <2> QED
    BY <1>12, ForwarderPutDoes, <2>1, Fields, Zenon
       DEF BridgeTypes, ServerType, SocketType, ReaderType, NativeType, ChanType,
           ForwarderType, LoopType, GeneratorType, FlagType, SlotType
<1>13. CASE ForwarderSentinel
  <2>1. queue' \in Seq(Values) /\ ready' \in Seq(Puts) /\ putters' \in Seq(Puts)
    BY <1>13, ForwarderSentinelDoes, ItemTypes, Fields, SubmitTypes, Zenon
  <2>2. fw'.pc \notin {"put", "wait"}
    BY <1>13, ForwarderSentinelDoes
  <2> QED
    BY <1>13, ForwarderSentinelDoes, <2>1, <2>2, Fields, Zenon
       DEF BridgeTypes, ServerType, SocketType, ReaderType, NativeType, ChanType,
           ForwarderType, LoopType, GeneratorType, FlagType, SlotType
<1>14. CASE ForwarderRelease
  <2>1. fw'.pc \notin {"put", "wait"} /\ slot' \in {"lent", "free", "destroyed"}
    BY <1>14, ForwarderReleaseDoes
  <2> QED
    BY <1>14, ForwarderReleaseDoes, <2>1, Fields, Zenon
       DEF BridgeTypes, ServerType, SocketType, ReaderType, NativeType, ChanType,
           ForwarderType, LoopType, GeneratorType, FlagType, SlotType
<1>15. CASE RunPut
  <2>1. ready' \in Seq(Puts)
    BY <1>15, RunPutDoes, Fields, HeadAndTail, Zenon
  <2>2. queue' \in Seq(Values) /\ putters' \in Seq(Puts)
    <3>1. /\ queue \in Seq(Values) /\ putters \in Seq(Puts)
          /\ ready[1] \in Puts /\ ready[1].val \in Values
      BY <1>15, RunPutDoes, Fields
    <3>2. Append(queue, ready[1].val) \in Seq(Values) /\ Append(putters, ready[1]) \in Seq(Puts)
      BY <3>1, Appended
    <3> QED
      BY <1>15, RunPutDoes, <3>1, <3>2, Zenon
  <2> QED
    BY <1>15, RunPutDoes, <2>1, <2>2, Fields, Zenon
       DEF BridgeTypes, ServerType, SocketType, ReaderType, NativeType, ChanType,
           ForwarderType, LoopType, GeneratorType, FlagType, SlotType
<1>16. CASE GeneratorGet
  <2>1. queue' \in Seq(Values)
    BY <1>16, GeneratorGetDoes, Fields, HeadAndTail, Zenon
  <2>2. ready' \in Seq(Puts) /\ putters' \in Seq(Puts)
    <3>1. ready \in Seq(Puts) /\ putters \in Seq(Puts)
      BY Fields
    <3>2. ASSUME putters # <<>>
          PROVE  putters[1] \in Puts /\ Append(ready, putters[1]) \in Seq(Puts) /\ Tail(putters) \in Seq(Puts)
      BY <3>1, <3>2, HeadAndTail, Appended
    <3> QED
      BY <1>16, GeneratorGetDoes, <3>1, <3>2, Zenon
  <2> QED
    BY <1>16, GeneratorGetDoes, <2>1, <2>2, Fields, Zenon
       DEF BridgeTypes, ServerType, SocketType, ReaderType, NativeType, ChanType,
           ForwarderType, LoopType, GeneratorType, FlagType, SlotType
<1>17. CASE IteratorNext
  <2>1. chan' \in Seq(Items)
    BY <1>17, IteratorNextDoes, Fields, HeadAndTail, ZenonT(60)
  <2> QED
    BY <1>17, IteratorNextDoes, <2>1, Fields, Zenon
       DEF BridgeTypes, ServerType, SocketType, ReaderType, NativeType, ChanType,
           ForwarderType, LoopType, GeneratorType, FlagType, SlotType
<1>18. CASE GeneratorResumes \/ Leave
  BY <1>18, GeneratorMoves, Fields, Zenon
     DEF BridgeTypes, ServerType, SocketType, ReaderType, NativeType, ChanType,
         ForwarderType, LoopType, GeneratorType, FlagType, SlotType
<1>19. CASE Abandon
  BY <1>19, AbandonDoes, Fields, Zenon
     DEF BridgeTypes, ServerType, SocketType, ReaderType, NativeType, ChanType,
         ForwarderType, LoopType, GeneratorType, FlagType, SlotType
<1>20. CASE Kill
  <2>1. net' \in Seq(Packets) /\ shut' \in BOOLEAN
    BY <1>20, KillDoes, ShutdownTypes, Zenon
  <2> QED
    BY <1>20, KillDoes, <2>1, Fields, Zenon
       DEF BridgeTypes, ServerType, SocketType, ReaderType, NativeType, ChanType,
           ForwarderType, LoopType, GeneratorType, FlagType, SlotType
<1>21. CASE ReaderFails
  BY <1>21, ReaderFailsDoes, Fields, Zenon
     DEF BridgeTypes, ServerType, SocketType, ReaderType, NativeType, ChanType,
         ForwarderType, LoopType, GeneratorType, FlagType, SlotType
<1>22. CASE ReaderStray
  BY <1>22, ReaderStrayDoes, Fields, Zenon
     DEF BridgeTypes, ServerType, SocketType, ReaderType, NativeType, ChanType,
         ForwarderType, LoopType, GeneratorType, FlagType, SlotType
<1> QED
  BY <1>1, <1>2, <1>3, <1>4, <1>5, <1>6, <1>7, <1>8, <1>9, <1>10, <1>11, <1>12, <1>13,
     <1>14, <1>15, <1>16, <1>17, <1>18, <1>19, <1>20, <1>21, <1>22
     DEF Next, Reader, Forwarder, Consumer

-----------------------------------------------------------------------------
\* The protocol of the threads

LEMMA StopKept ==
    ASSUME BridgeTypes, StopInv, Next
    PROVE  StopInv'
<1>1. CASE StartStream
  BY <1>1, StartStreamDoes, Fields DEF StopInv
<1>2. CASE StartFails \/ CancelStart
  BY <1>2, StartEndsDoes, Fields DEF StopInv
<1>3. CASE ServerSends \/ ServerCloses
  <2>1. UNCHANGED <<shut, discarded, native, gen, event, kind, fw>>
    BY <1>3, ServerDoes, ZenonT(60)
  <2> QED
    BY <2>1 DEF StopInv
<1>4. CASE ReaderCheck
  BY <1>4, ReaderCheckDoes, Fields DEF StopInv
<1>5. CASE ReaderPacket
  BY <1>5, ReaderPacketDoes, Fields DEF StopInv
<1>6. CASE ReaderEof
  BY <1>6, ReaderEofDoes, Fields DEF StopInv
<1>7. CASE ReaderPublish
  BY <1>7, ReaderPublishDoes, Fields DEF StopInv
<1>8. CASE ReaderSend
  BY <1>8, ReaderSendDoes, Fields DEF StopInv
<1>9. CASE StreamDropped
  BY <1>9, StreamDroppedDoes, ShutdownTypes, Fields DEF StopInv
<1>10. CASE ForwarderNext
  BY <1>10, ForwarderNextDoes, Fields DEF StopInv
<1>11. CASE ForwarderWait \/ ForwarderTimeout \/ ForwarderEnds
  BY <1>11, ForwarderMoves, Fields DEF StopInv
<1>12. CASE ForwarderPut
  BY <1>12, ForwarderPutDoes, Fields DEF StopInv
<1>13. CASE ForwarderSentinel
  BY <1>13, ForwarderSentinelDoes, Fields DEF StopInv
<1>14. CASE ForwarderRelease
  BY <1>14, ForwarderReleaseDoes, Fields DEF StopInv
<1>15. CASE RunPut
  BY <1>15, RunPutDoes, Fields DEF StopInv
<1>16. CASE GeneratorGet
  BY <1>16, GeneratorGetDoes, Fields DEF StopInv
<1>17. CASE IteratorNext
  BY <1>17, IteratorNextDoes, Fields DEF StopInv
<1>18. CASE GeneratorResumes \/ Leave
  BY <1>18, GeneratorMoves, Fields DEF StopInv
<1>19. CASE Abandon
  <2>1. gen.pc = "abandon" /\ gen'.pc \in {"over", "kill"} /\ UNCHANGED <<kind, shut, discarded, fw>>
    BY <1>19, AbandonDoes
  <2>2. CASE kind = "async" /\ native' = native
    BY <2>1, <2>2 DEF StopInv
  <2>3. CASE kind = "sync" /\ native'.dropped = native.dropped
    BY <2>1, <2>3, Fields DEF StopInv
  <2> QED
    BY <1>19, AbandonDoes, <2>2, <2>3, ZenonT(60)
<1>20. CASE Kill
  BY <1>20, KillDoes, ShutdownTypes, Fields DEF StopInv
<1>21. CASE ReaderFails
  BY <1>21, ReaderFailsDoes, Fields DEF StopInv
<1>22. CASE ReaderStray
  BY <1>22, ReaderStrayDoes, Fields DEF StopInv
<1> QED
  BY <1>1, <1>2, <1>3, <1>4, <1>5, <1>6, <1>7, <1>8, <1>9, <1>10, <1>11, <1>12, <1>13,
     <1>14, <1>15, <1>16, <1>17, <1>18, <1>19, <1>20, <1>21, <1>22, SMTT(60)
     DEF Next, Reader, Forwarder, Consumer

LEMMA SlotKept ==
    ASSUME BridgeTypes, StopInv, SlotInv, Next
    PROVE  SlotInv'
<1>1. CASE StartStream
  BY <1>1, StartStreamDoes, Fields DEF StopInv, SlotInv
<1>2. CASE StartFails \/ CancelStart
  BY <1>2, StartEndsDoes, Fields DEF StopInv, SlotInv
<1>3. CASE ServerSends \/ ServerCloses
  <2>1. UNCHANGED <<kind, rd, native, fw, slot, gen>>
    BY <1>3, ServerDoes, Zenon
  <2> QED
    BY <2>1 DEF SlotInv
<1>4. CASE ReaderCheck
  BY <1>4, ReaderCheckDoes, Fields DEF StopInv, SlotInv
<1>5. CASE ReaderPacket
  BY <1>5, ReaderPacketDoes, Fields DEF StopInv, SlotInv
<1>6. CASE ReaderEof
  BY <1>6, ReaderEofDoes, Fields DEF StopInv, SlotInv
<1>7. CASE ReaderPublish
  BY <1>7, ReaderPublishDoes, Fields DEF StopInv, SlotInv
<1>8. CASE ReaderSend
  BY <1>8, ReaderSendDoes, Fields DEF StopInv, SlotInv
<1>9. CASE StreamDropped
  BY <1>9, StreamDroppedDoes, Fields DEF StopInv, SlotInv
<1>10. CASE ForwarderNext
  <2>1. fw.pc = "next" /\ fw'.pc \in {"put", "fin"} /\ UNCHANGED <<kind, rd, native, slot, gen>>
    <3>1. PICK item \in Items :
             /\ item.type = "block" => fw'.pc = "put"
             /\ item.type = "none" => fw'.pc = "fin"
             /\ item.type = "err" => fw'.pc = "fin"
      BY <1>10, ForwarderNextDoes
    <3>2. item.type \in {"block", "none", "err"}
      BY DEF Items
    <3> QED
      BY <1>10, ForwarderNextDoes, <3>1, <3>2
  <2> QED
    BY <2>1 DEF SlotInv
<1>11. CASE ForwarderWait \/ ForwarderTimeout \/ ForwarderEnds
  BY <1>11, ForwarderMoves, Fields DEF StopInv, SlotInv
<1>12. CASE ForwarderPut
  BY <1>12, ForwarderPutDoes, Fields DEF StopInv, SlotInv
<1>13. CASE ForwarderSentinel
  BY <1>13, ForwarderSentinelDoes, Fields DEF StopInv, SlotInv
<1>14. CASE ForwarderRelease
  BY <1>14, ForwarderReleaseDoes, Fields DEF StopInv, SlotInv
<1>15. CASE RunPut
  <2>1. UNCHANGED <<kind, rd, native, fw, slot, gen>>
    BY <1>15, RunPutDoes
  <2> QED
    BY <2>1 DEF SlotInv
<1>16. CASE GeneratorGet
  BY <1>16, GeneratorGetDoes, Fields DEF StopInv, SlotInv
<1>17. CASE IteratorNext
  BY <1>17, IteratorNextDoes, Fields DEF StopInv, SlotInv
<1>18. CASE GeneratorResumes \/ Leave
  BY <1>18, GeneratorMoves, Fields DEF StopInv, SlotInv
<1>19. CASE Abandon
  BY <1>19, AbandonDoes, Fields DEF StopInv, SlotInv
<1>20. CASE Kill
  BY <1>20, KillDoes, Fields DEF StopInv, SlotInv
<1>21. CASE ReaderFails
  BY <1>21, ReaderFailsDoes, Fields DEF StopInv, SlotInv
<1>22. CASE ReaderStray
  BY <1>22, ReaderStrayDoes, Fields DEF StopInv, SlotInv
<1> QED
  BY <1>1, <1>2, <1>3, <1>4, <1>5, <1>6, <1>7, <1>8, <1>9, <1>10, <1>11, <1>12, <1>13,
     <1>14, <1>15, <1>16, <1>17, <1>18, <1>19, <1>20, <1>21, <1>22, SMTT(60)
     DEF Next, Reader, Forwarder, Consumer

LEMMA OffKept ==
    ASSUME BridgeTypes, OffInv, StopInv, SlotInv, Next
    PROVE  OffInv'
<1>1. CASE StartStream
  BY <1>1, StartStreamDoes, Fields DEF OffInv, StopInv, SlotInv
<1>2. CASE StartFails \/ CancelStart
  BY <1>2, StartEndsDoes, Fields DEF OffInv, StopInv, SlotInv
<1>3. CASE ServerSends \/ ServerCloses
  <2>1. left # <<>> /\ rd' = rd
    BY <1>3, ServerDoes, ZenonT(60)
  <2> QED
    BY <2>1 DEF OffInv
<1>4. CASE ReaderCheck
  BY <1>4, ReaderCheckDoes, Fields DEF OffInv, StopInv, SlotInv
<1>5. CASE ReaderPacket
  <2>1. rd.pc = "read" /\ rd'.pc # "off"
    <3>1. net[1].type \in {"head", "block", "eos", "exc", "cutexc", "cutblock"}
      BY <1>5, ReaderPacketDoes DEF Packets
    <3> QED
      BY <1>5, ReaderPacketDoes, <3>1 DEF Cut
  <2> QED
    BY <2>1 DEF OffInv
<1>6. CASE ReaderEof
  BY <1>6, ReaderEofDoes, Fields DEF OffInv, StopInv, SlotInv
<1>7. CASE ReaderPublish
  BY <1>7, ReaderPublishDoes, Fields DEF OffInv, StopInv, SlotInv
<1>8. CASE ReaderSend
  BY <1>8, ReaderSendDoes, Fields DEF OffInv, StopInv, SlotInv
<1>9. CASE StreamDropped
  BY <1>9, StreamDroppedDoes, ShutdownTypes, Fields DEF OffInv
<1>10. CASE ForwarderNext
  BY <1>10, ForwarderNextDoes, Fields DEF OffInv, StopInv, SlotInv
<1>11. CASE ForwarderWait \/ ForwarderTimeout \/ ForwarderEnds
  BY <1>11, ForwarderMoves, Fields DEF OffInv, StopInv, SlotInv
<1>12. CASE ForwarderPut
  BY <1>12, ForwarderPutDoes, Fields DEF OffInv, StopInv, SlotInv
<1>13. CASE ForwarderSentinel
  BY <1>13, ForwarderSentinelDoes, Fields DEF OffInv, StopInv, SlotInv
<1>14. CASE ForwarderRelease
  BY <1>14, ForwarderReleaseDoes, Fields DEF OffInv, StopInv, SlotInv
<1>15. CASE RunPut
  BY <1>15, RunPutDoes, Fields DEF OffInv, StopInv, SlotInv
<1>16. CASE GeneratorGet
  BY <1>16, GeneratorGetDoes, Fields, SMTT(60) DEF OffInv, StopInv, SlotInv
<1>17. CASE IteratorNext
  BY <1>17, IteratorNextDoes, Fields DEF OffInv, StopInv, SlotInv
<1>18. CASE GeneratorResumes \/ Leave
  BY <1>18, GeneratorMoves, Fields DEF OffInv, StopInv, SlotInv
<1>19. CASE Abandon
  BY <1>19, AbandonDoes, Fields, SMTT(60) DEF OffInv, StopInv, SlotInv
<1>20. CASE Kill
  BY <1>20, KillDoes, Fields DEF OffInv, StopInv, SlotInv
<1>21. CASE ReaderFails
  BY <1>21, ReaderFailsDoes DEF OffInv
<1>22. CASE ReaderStray
  BY <1>22, ReaderStrayDoes DEF OffInv
<1> QED
  BY <1>1, <1>2, <1>3, <1>4, <1>5, <1>6, <1>7, <1>8, <1>9, <1>10, <1>11, <1>12, <1>13,
     <1>14, <1>15, <1>16, <1>17, <1>18, <1>19, <1>20, <1>21, <1>22, SMTT(60)
     DEF Next, Reader, Forwarder, Consumer

\* A packet that was cut is read only behind the end of the connection.
LEMMA PacketKinds ==
    ASSUME BridgeTypes, FlowInv, rd.pc # "off", net # <<>>
    PROVE  net[1].type \in {"head", "block", "eos", "exc"} \/ (net[1].type \in Cut /\ Eof)
<1>1. PICK rp \in 0..(NBlocks + 2) : Flow(rp)
  BY DEF FlowInv
<1>2. net \in Seq(Packets) /\ Len(net) \in Nat \ {0}
  BY Fields
<1>3. rp + 1 <= NBlocks + 2 /\ (InPlace(net[1], rp + 1) \/ (Eof /\ net[1].type \in Cut))
  BY <1>1, <1>2, BridgeAssumption DEF Flow
<1>4. rp + 1 = 1 \/ rp + 1 \in 2..(NBlocks + 1) \/ rp + 1 = NBlocks + 2
  BY <1>3, BridgeAssumption
<1> QED
  BY <1>3, <1>4 DEF InPlace

LEMMA PublishKept ==
    ASSUME BridgeTypes, FlowInv, OffInv, PublishInv, Next, ~astray'
    PROVE  PublishInv'
<1>1. CASE StartStream
  BY <1>1, StartStreamDoes DEF PublishInv, Eof
<1>2. CASE StartFails \/ CancelStart
  BY <1>2, StartEndsDoes DEF PublishInv, Eof
<1>3. CASE ServerSends \/ ServerCloses
  BY <1>3, ServerDoes, ZenonT(60) DEF PublishInv, Eof
<1>4. CASE ReaderCheck
  BY <1>4, ReaderCheckDoes, ItemTypes DEF PublishInv, Eof
<1>5. CASE ReaderPacket
  <2>1. net[1].type \in {"head", "block", "eos", "exc"} \/ (net[1].type \in Cut /\ Eof)
    BY <1>5, ReaderPacketDoes, PacketKinds
  <2>2. /\ UNCHANGED <<native, chan, closed, shut>>
        /\ rd.done => rd'.done
        /\ rd'.pc = "publish" => rd'.done /\ rd'.item.type # "block"
        /\ rd'.pc = "send" /\ rd'.item.type # "block" => Eof
    BY <1>5, ReaderPacketDoes, <2>1, ItemTypes DEF Cut
  <2> QED
    BY <2>2 DEF PublishInv, Eof
<1>6. CASE ReaderEof
  BY <1>6, ReaderEofDoes DEF PublishInv, Eof
<1>7. CASE ReaderPublish
  BY <1>7, ReaderPublishDoes, SMTT(60) DEF PublishInv, Eof
<1>8. CASE ReaderSend
  <2>1. chan \in Seq(Items) /\ rd.item \in Items
    BY Fields
  <2>2. /\ Len(Append(chan, rd.item)) = Len(chan) + 1 /\ Len(chan) \in Nat
        /\ \A i \in 1..Len(chan) : Append(chan, rd.item)[i] = chan[i]
        /\ Append(chan, rd.item)[Len(chan) + 1] = rd.item
    BY <2>1, Appended
  <2>3. chan' = chan \/ chan' = Append(chan, rd.item)
    BY <1>8, ReaderSendDoes
  <2>4. /\ rd.pc = "send" /\ rd'.pc \in {"exit", "check"} /\ rd'.done = rd.done
        /\ native'.eos = native.eos /\ UNCHANGED <<closed, shut>>
    BY <1>8, ReaderSendDoes
  <2> QED
    BY <2>2, <2>3, <2>4 DEF PublishInv, Eof
<1>9. CASE StreamDropped
  <2>1. Len(chan') = 0 /\ rd' = rd /\ native'.eos = native.eos /\ closed' = closed /\ (shut => shut')
    BY <1>9, StreamDroppedDoes, ShutdownTypes
  <2> QED
    BY <2>1 DEF PublishInv, Eof
<1>10. CASE ForwarderNext
  <2>1. chan \in Seq(Items)
    BY Fields
  <2>2. chan # <<>> => /\ Len(Tail(chan)) = Len(chan) - 1 /\ Len(chan) \in Nat
                      /\ \A i \in 1..(Len(chan) - 1) : Tail(chan)[i] = chan[i + 1]
    BY <2>1, HeadAndTail
  <2>3. (chan # <<>> /\ chan' = Tail(chan)) \/ chan' = chan
    BY <1>10, ForwarderNextDoes
  <2>4. UNCHANGED <<rd, native, closed, shut>>
    BY <1>10, ForwarderNextDoes
  <2> QED
    BY <2>2, <2>3, <2>4 DEF PublishInv, Eof
<1>11. CASE ForwarderWait \/ ForwarderTimeout \/ ForwarderEnds
  <2>1. UNCHANGED <<rd, native, chan, closed, shut>>
    BY <1>11, ForwarderMoves
  <2> QED
    BY <2>1 DEF PublishInv, Eof
<1>12. CASE ForwarderPut
  <2>1. UNCHANGED <<rd, native, chan, closed, shut>>
    BY <1>12, ForwarderPutDoes
  <2> QED
    BY <2>1 DEF PublishInv, Eof
<1>13. CASE ForwarderSentinel
  <2>1. UNCHANGED <<rd, native, chan, closed, shut>>
    BY <1>13, ForwarderSentinelDoes
  <2> QED
    BY <2>1 DEF PublishInv, Eof
<1>14. CASE ForwarderRelease
  <2>1. UNCHANGED <<rd, native, chan, closed, shut>>
    BY <1>14, ForwarderReleaseDoes
  <2> QED
    BY <2>1 DEF PublishInv, Eof
<1>15. CASE RunPut
  <2>1. UNCHANGED <<rd, native, chan, closed, shut>>
    BY <1>15, RunPutDoes
  <2> QED
    BY <2>1 DEF PublishInv, Eof
<1>16. CASE GeneratorGet
  <2>1. UNCHANGED <<rd, native, chan, closed, shut>>
    BY <1>16, GeneratorGetDoes
  <2> QED
    BY <2>1 DEF PublishInv, Eof
<1>17. CASE IteratorNext
  <2>1. chan \in Seq(Items)
    BY Fields
  <2>2. chan # <<>> => /\ Len(Tail(chan)) = Len(chan) - 1 /\ Len(chan) \in Nat
                      /\ \A i \in 1..(Len(chan) - 1) : Tail(chan)[i] = chan[i + 1]
    BY <2>1, HeadAndTail
  <2>3. (chan # <<>> /\ chan' = Tail(chan)) \/ chan' = chan
    BY <1>17, IteratorNextDoes
  <2>4. UNCHANGED <<rd, native, closed, shut>>
    BY <1>17, IteratorNextDoes
  <2> QED
    BY <2>2, <2>3, <2>4 DEF PublishInv, Eof
<1>18. CASE GeneratorResumes \/ Leave
  <2>1. UNCHANGED <<rd, native, chan, closed, shut>>
    BY <1>18, GeneratorMoves
  <2> QED
    BY <2>1 DEF PublishInv, Eof
<1>19. CASE Abandon
  <2>1. UNCHANGED <<chan, rd, closed, shut>> /\ native'.eos = native.eos
    BY <1>19, AbandonDoes, ZenonT(60)
  <2> QED
    BY <2>1 DEF PublishInv, Eof
<1>20. CASE Kill
  <2>1. UNCHANGED <<chan, rd, native, closed>> /\ shut'
    BY <1>20, KillDoes, ShutdownTypes
  <2> QED
    BY <2>1 DEF PublishInv, Eof
<1>21. CASE ReaderFails
  BY <1>21 DEF ReaderFails
<1>22. CASE ReaderStray
  BY <1>22 DEF ReaderStray
<1> QED
  BY <1>1, <1>2, <1>3, <1>4, <1>5, <1>6, <1>7, <1>8, <1>9, <1>10, <1>11, <1>12, <1>13,
     <1>14, <1>15, <1>16, <1>17, <1>18, <1>19, <1>20, <1>21, <1>22, SMTT(60)
     DEF Next, Reader, Forwarder, Consumer

\* Who takes the end of the stream, and was not told to stop, finds eos published.
LEMMA LastItem ==
    ASSUME BridgeTypes, PublishInv, StopInv, gen.pc \in {"get", "yield", "abandon"},
           NEW item, item.type # "block",
           (chan # <<>> /\ item = chan[1]) \/ native.finished
    PROVE  closed \/ native.eos
<1>1. ~shut /\ ~native.finished
  BY DEF StopInv
<1>2. chan \in Seq(Items)
  BY Fields
<1>3. 1 \in 1..Len(chan)
  BY <1>1, <1>2
<1> QED
  BY <1>1, <1>3 DEF PublishInv, Eof

LEMMA RaceKept ==
    ASSUME BridgeTypes, PublishInv, StopInv, SlotInv, RaceInv, Next, ~astray'
    PROVE  RaceInv'
<1>1. CASE StartStream
  <2>1. CASE gen.pc = "starting"
    BY <1>1, StartStreamDoes, <2>1 DEF RaceInv, SlotInv
  <2>2. CASE gen.pc # "starting"
    <3>1. /\ gen'.pc = gen.pc /\ fw'.pc = fw.pc /\ UNCHANGED <<kind, closed, native, ready, putters>>
      BY <1>1, StartStreamDoes, <2>2
    <3> QED
      BY <3>1 DEF RaceInv, Landed
  <2> QED
    BY <2>1, <2>2
<1>2. CASE StartFails \/ CancelStart
  <2>1. gen'.pc = "over"
    BY <1>2, StartEndsDoes
  <2> QED
    BY <2>1 DEF RaceInv
<1>3. CASE ServerSends \/ ServerCloses
  <2>1. UNCHANGED <<fw, gen, kind, ready, putters>> /\ (native.eos => native'.eos) /\ (closed => closed')
    BY <1>3, ServerDoes, ZenonT(60) DEF Eof
  <2> QED
    BY <2>1 DEF RaceInv, Landed
<1>4. CASE ReaderCheck
  <2>1. UNCHANGED <<fw, gen, kind, ready, putters>> /\ (native.eos => native'.eos) /\ (closed => closed')
    BY <1>4, ReaderCheckDoes
  <2> QED
    BY <2>1 DEF RaceInv, Landed
<1>5. CASE ReaderPacket
  <2>1. UNCHANGED <<fw, gen, kind, closed, native, ready, putters>>
    BY <1>5, ReaderPacketDoes
  <2> QED
    BY <2>1 DEF RaceInv, Landed
<1>6. CASE ReaderEof
  <2>1. UNCHANGED <<fw, gen, kind, closed, native, ready, putters>>
    BY <1>6, ReaderEofDoes
  <2> QED
    BY <2>1 DEF RaceInv, Landed
<1>7. CASE ReaderPublish
  <2>1. UNCHANGED <<fw, gen, kind, ready, putters>> /\ (native.eos => native'.eos) /\ (closed => closed')
    BY <1>7, ReaderPublishDoes
  <2> QED
    BY <2>1 DEF RaceInv, Landed
<1>8. CASE ReaderSend
  <2>1. UNCHANGED <<fw, gen, kind, ready, putters>> /\ (native.eos => native'.eos) /\ (closed => closed')
    BY <1>8, ReaderSendDoes
  <2> QED
    BY <2>1 DEF RaceInv, Landed
<1>9. CASE StreamDropped
  <2>1. UNCHANGED <<fw, gen, kind, ready, putters>> /\ (native.eos => native'.eos) /\ (closed => closed')
    BY <1>9, StreamDroppedDoes
  <2> QED
    BY <2>1 DEF RaceInv, Landed
<1>10. CASE ForwarderNext
  <2>1. PICK item \in Items :
           /\ (chan # <<>> /\ item = chan[1]) \/ native.finished
           /\ item.type = "block" => fw'.pc = "put"
           /\ item.type # "block" => fw'.pc = "fin"
    <3>1. \A item \in Items : item.type \in {"block", "none", "err"}
      BY DEF Items
    <3> QED
      BY <1>10, ForwarderNextDoes, <3>1
  <2>2. UNCHANGED <<gen, closed, native>>
    BY <1>10, ForwarderNextDoes
  <2>3. CASE item.type = "block"
    BY <2>1, <2>2, <2>3 DEF RaceInv
  <2>4. CASE item.type # "block" /\ gen.pc \in {"get", "yield", "abandon"}
    <3>1. closed \/ native.eos
      BY <2>1, <2>4, LastItem
    <3> QED
      BY <2>1, <2>2, <2>4, <3>1 DEF RaceInv
  <2>5. CASE item.type # "block" /\ gen.pc \notin {"get", "yield", "abandon"}
    BY <2>1, <2>2, <2>5 DEF RaceInv
  <2> QED
    BY <2>3, <2>4, <2>5
<1>11. CASE ForwarderWait \/ ForwarderTimeout \/ ForwarderEnds
  <2>1. UNCHANGED <<gen, kind, closed, native, ready, putters>>
    BY <1>11, ForwarderMoves
  <2>2. \/ fw'.pc \in {"next", "put"}
        \/ fw.pc = "finwait" /\ (Landed \/ gen.pc # "kill") /\ fw'.pc = "release"
    BY <1>11, ForwarderMoves
  <2> QED
    BY <2>1, <2>2 DEF RaceInv
<1>12. CASE ForwarderPut
  <2>1. UNCHANGED <<gen, closed, native>>
    BY <1>12, ForwarderPutDoes
  <2>2. fw'.pc = "wait" \/ (fw'.pc = "fin" /\ event)
    BY <1>12, ForwarderPutDoes
  <2> QED
    BY <2>1, <2>2 DEF RaceInv, StopInv
<1>13. CASE ForwarderSentinel
  <2>1. UNCHANGED <<gen, closed, native>> /\ fw.pc = "fin" /\ fw'.pc = "finwait" /\ Submit(Sentinel)
    BY <1>13, ForwarderSentinelDoes
  <2>2. ready' \in Seq(Puts) /\ Len(ready') = Len(ready) + 1 /\ ready'[Len(ready) + 1].mine
    BY <2>1, ItemTypes, SubmitTypes
  <2>3. ready'[Len(ready) + 1] \in Range(ready')
    <3>1. Len(ready) + 1 \in 1..Len(ready')
      BY <2>2, Fields
    <3> QED
      BY <2>2, <3>1, RangeIs
  <2>4. ~Landed'
    BY <2>2, <2>3 DEF Landed
  <2> QED
    BY <2>1, <2>4 DEF RaceInv
<1>14. CASE ForwarderRelease
  <2>1. fw.pc = "release" /\ fw'.pc = "done" /\ UNCHANGED <<gen, kind, closed, native>>
    BY <1>14, ForwarderReleaseDoes
  <2>2. kind = "async"
    BY <2>1, Fields DEF SlotInv
  <2> QED
    BY <2>1, <2>2 DEF RaceInv
<1>15. CASE RunPut
  <2>1. gen.pc # "kill" /\ UNCHANGED <<fw, gen, closed, native>>
    BY <1>15, RunPutDoes
  <2> QED
    BY <2>1 DEF RaceInv
<1>16. CASE GeneratorGet
  <2>1. gen.pc = "get" /\ gen'.pc \in {"abandon", "yield"} /\ UNCHANGED <<fw, closed, native>>
    BY <1>16, GeneratorGetDoes
  <2> QED
    BY <2>1 DEF RaceInv
<1>17. CASE IteratorNext
  <2>1. kind = "sync" /\ UNCHANGED <<kind, fw>>
    BY <1>17, IteratorNextDoes
  <2> QED
    BY <2>1 DEF RaceInv, SlotInv
<1>18. CASE GeneratorResumes \/ Leave
  <2>1. gen.pc \in {"get", "yield"} /\ gen'.pc \in {"get", "abandon"} /\ UNCHANGED <<fw, closed, native>>
    BY <1>18, GeneratorMoves
  <2> QED
    BY <2>1 DEF RaceInv
<1>19. CASE Abandon
  <2>1. /\ gen.pc = "abandon" /\ gen'.pc \in {"over", "kill"} /\ UNCHANGED <<fw, closed>>
        /\ gen'.pc = "kill" => ~native.eos
    BY <1>19, AbandonDoes
  <2> QED
    BY <2>1 DEF RaceInv
<1>20. CASE Kill
  <2>1. gen'.pc = "over"
    BY <1>20, KillDoes
  <2> QED
    BY <2>1 DEF RaceInv
<1>21. CASE ReaderFails
  BY <1>21 DEF ReaderFails
<1>22. CASE ReaderStray
  BY <1>22 DEF ReaderStray
<1> QED
  BY <1>1, <1>2, <1>3, <1>4, <1>5, <1>6, <1>7, <1>8, <1>9, <1>10, <1>11, <1>12, <1>13,
     <1>14, <1>15, <1>16, <1>17, <1>18, <1>19, <1>20, <1>21, <1>22
     DEF Next, Reader, Forwarder, Consumer

LEMMA ReuseKept ==
    ASSUME BridgeTypes, PublishInv, StopInv, SlotInv, RaceInv, ReuseInv, Next, ~astray'
    PROVE  ReuseInv'
<1>1. CASE StartStream
  <2>1. /\ gen'.end = gen.end /\ gen'.pc \in {"get", gen.pc} /\ UNCHANGED <<kind, discarded, native, closed, slot, shut>>
    BY <1>1, StartStreamDoes
  <2> QED
    BY <2>1, SMTT(60) DEF ReuseInv
<1>2. CASE StartFails \/ CancelStart
  <2>1. gen'.end = "start"
    BY <1>2, StartEndsDoes
  <2> QED
    BY <2>1 DEF ReuseInv
<1>3. CASE ServerSends \/ ServerCloses
  <2>1. UNCHANGED <<kind, gen, discarded, slot, shut>> /\ (native.eos => native'.eos) /\ (closed => closed')
    BY <1>3, ServerDoes, ZenonT(60) DEF Eof
  <2> QED
    BY <2>1 DEF ReuseInv
<1>4. CASE ReaderCheck
  <2>1. UNCHANGED <<kind, gen, discarded, slot, shut>> /\ (native.eos => native'.eos) /\ (closed => closed')
    BY <1>4, ReaderCheckDoes
  <2> QED
    BY <2>1 DEF ReuseInv
<1>5. CASE ReaderPacket
  <2>1. UNCHANGED <<kind, gen, discarded, native, closed, slot, shut>>
    BY <1>5, ReaderPacketDoes
  <2> QED
    BY <2>1 DEF ReuseInv
<1>6. CASE ReaderEof
  <2>1. UNCHANGED <<kind, gen, discarded, native, closed, slot, shut>>
    BY <1>6, ReaderEofDoes
  <2> QED
    BY <2>1 DEF ReuseInv
<1>7. CASE ReaderPublish
  <2>1. UNCHANGED <<kind, gen, discarded, slot, shut>> /\ (native.eos => native'.eos) /\ (closed => closed')
    BY <1>7, ReaderPublishDoes
  <2> QED
    BY <2>1 DEF ReuseInv
<1>8. CASE ReaderSend
  <2>1. UNCHANGED <<kind, gen, discarded, slot, shut>> /\ (native.eos => native'.eos) /\ (closed => closed')
    BY <1>8, ReaderSendDoes
  <2> QED
    BY <2>1 DEF ReuseInv
<1>9. CASE StreamDropped
  <2>1. /\ gen.pc = "over" /\ fw.pc \in {"off", "done"} /\ native'.eos = native.eos
        /\ UNCHANGED <<kind, gen, discarded, slot, closed>> /\ (native.eos => shut' = shut)
    BY <1>9, StreamDroppedDoes
  <2>2. closed \/ native.eos \/ discarded \/ gen.end = "start" \/ slot = "destroyed"
    BY <2>1, Fields DEF SlotInv, ReuseInv
  <2> QED
    BY <2>1, <2>2 DEF ReuseInv
<1>10. CASE ForwarderNext
  <2>1. UNCHANGED <<kind, gen, discarded, native, closed, slot, shut>>
    BY <1>10, ForwarderNextDoes
  <2> QED
    BY <2>1 DEF ReuseInv
<1>11. CASE ForwarderWait \/ ForwarderTimeout \/ ForwarderEnds
  <2>1. UNCHANGED <<kind, gen, discarded, native, closed, slot, shut>>
    BY <1>11, ForwarderMoves
  <2> QED
    BY <2>1 DEF ReuseInv
<1>12. CASE ForwarderPut
  <2>1. UNCHANGED <<kind, gen, discarded, native, closed, slot, shut>>
    BY <1>12, ForwarderPutDoes
  <2> QED
    BY <2>1 DEF ReuseInv
<1>13. CASE ForwarderSentinel
  <2>1. UNCHANGED <<kind, gen, discarded, native, closed, slot, shut>>
    BY <1>13, ForwarderSentinelDoes
  <2> QED
    BY <2>1 DEF ReuseInv
<1>14. CASE ForwarderRelease
  <2>1. /\ fw.pc = "release" /\ slot' = IF discarded \/ ~native.eos THEN "destroyed" ELSE "free"
        /\ UNCHANGED <<kind, gen, discarded, native, closed, shut>>
    BY <1>14, ForwarderReleaseDoes
  <2>2. kind = "async" /\ (closed \/ gen.pc # "kill") /\ slot # "destroyed"
    BY <2>1, Fields DEF SlotInv, RaceInv
  <2> QED
    BY <2>1, <2>2 DEF ReuseInv
<1>15. CASE RunPut
  <2>1. UNCHANGED <<kind, gen, discarded, native, closed, slot, shut>>
    BY <1>15, RunPutDoes
  <2> QED
    BY <2>1 DEF ReuseInv
<1>16. CASE GeneratorGet
  <2>1. /\ kind = "async" /\ gen.pc = "get" /\ gen'.pc \in {"abandon", "yield"}
        /\ UNCHANGED <<kind, discarded, native, closed, slot, shut>>
    BY <1>16, GeneratorGetDoes
  <2>2. gen.end # "start"
    BY <2>1 DEF SlotInv
  <2> QED
    BY <2>1, <2>2 DEF ReuseInv
<1>17. CASE IteratorNext
  <2>1. PICK item \in Items :
           /\ (chan # <<>> /\ item = chan[1]) \/ native.finished
           /\ item.type = "block" => gen'.pc = "yield"
           /\ item.type # "block" => gen'.pc = "over"
    BY <1>17, IteratorNextDoes
  <2>2. kind = "sync" /\ gen.pc = "get" /\ UNCHANGED <<kind, discarded, native, closed, slot, shut>>
    BY <1>17, IteratorNextDoes
  <2>3. slot = "lent" /\ ~shut
    BY <2>2 DEF SlotInv, StopInv
  <2>4. gen'.pc = "yield" \/ closed \/ native.eos
    BY <2>1, <2>2, LastItem
  <2> QED
    BY <2>2, <2>3, <2>4 DEF ReuseInv
<1>18. CASE GeneratorResumes \/ Leave
  <2>1. /\ gen.pc \in {"get", "yield"} /\ gen'.pc \in {"get", "abandon"}
        /\ UNCHANGED <<kind, discarded, native, closed, slot, shut>>
    BY <1>18, GeneratorMoves
  <2>2. gen.end # "start"
    BY <2>1 DEF SlotInv
  <2> QED
    BY <2>1, <2>2 DEF ReuseInv
<1>19. CASE Abandon
  <2>1. /\ gen.pc = "abandon" /\ gen'.pc \in {"over", "kill"} /\ gen'.end = gen.end
        /\ gen'.pc = "kill" <=> ~native.eos
        /\ native'.eos = native.eos /\ UNCHANGED <<kind, discarded, closed, slot, shut>>
    BY <1>19, AbandonDoes, ZenonT(60)
  <2>2. gen.end # "start"
    BY <2>1 DEF SlotInv
  <2> QED
    BY <2>1, <2>2 DEF ReuseInv
<1>20. CASE Kill
  <2>1. /\ gen.pc = "kill" /\ discarded' /\ gen'.end = gen.end
        /\ UNCHANGED <<kind, native, closed, slot>>
    BY <1>20, KillDoes
  <2>2. gen.end # "start"
    BY <2>1 DEF SlotInv
  <2> QED
    BY <2>1, <2>2 DEF ReuseInv
<1>21. CASE ReaderFails
  BY <1>21 DEF ReaderFails
<1>22. CASE ReaderStray
  BY <1>22 DEF ReaderStray
<1> QED
  BY <1>1, <1>2, <1>3, <1>4, <1>5, <1>6, <1>7, <1>8, <1>9, <1>10, <1>11, <1>12, <1>13,
     <1>14, <1>15, <1>16, <1>17, <1>18, <1>19, <1>20, <1>21, <1>22
     DEF Next, Reader, Forwarder, Consumer

-----------------------------------------------------------------------------
\* The packets of the response

\* The connection ends, and the packet that was being sent may be cut.
LEMMA FlowCut ==
    ASSUME BridgeTypes, NEW rp \in 0..(NBlocks + 2), Flow(rp),
           net' = net \/ (~Eof /\ net' \in CutOff), Eof', rd' = rd
    PROVE  Flow(rp)'
<1>1. net \in Seq(Packets) /\ left \in Seq(Packets) /\ NBlocks \in Nat
  BY Fields, BridgeAssumption
<1>2. /\ rp + Len(net) <= NBlocks + 2 /\ Len(net) \in Nat
      /\ \A i \in 1..Len(net) : InPlace(net[i], rp + i) \/ (Eof /\ i = Len(net) /\ net[i].type \in Cut)
      /\ rd.pc = "read" /\ rd.done => net = <<>> /\ Eof
      /\ ~Eof => rp + Len(net) + Len(left) = NBlocks + 2
  BY <1>1 DEF Flow
<1>3. CASE net' = net
  BY <1>2, <1>3 DEF Flow, InPlace
<1>4. CASE ~Eof /\ net' # net
  <2>1. PICK x \in Packets : x.type \in Cut /\ net' = Append(net, x) /\ left # <<>>
    BY <1>1, <1>4, CutOffShape
  <2>2. /\ Len(net') = Len(net) + 1 /\ net'[Len(net) + 1] = x
        /\ \A i \in 1..Len(net) : net'[i] = net[i]
    BY <1>1, <2>1, Appended
  <2>3. Len(left) \in Nat \ {0}
    BY <1>1, <2>1
  <2>4. rp + Len(net') <= NBlocks + 2
    BY <1>1, <1>2, <1>4, <2>2, <2>3
  <2>5. ASSUME NEW i \in 1..Len(net')
        PROVE  InPlace(net'[i], rp + i) \/ (i = Len(net') /\ net'[i].type \in Cut)
    <3>1. CASE i = Len(net) + 1
      BY <2>1, <2>2, <3>1
    <3>2. CASE i \in 1..Len(net)
      <4>1. InPlace(net[i], rp + i) /\ net'[i] = net[i]
        BY <1>2, <1>4, <2>2, <3>2
      <4> QED
        BY <4>1 DEF InPlace
    <3> QED
      BY <1>2, <2>2, <3>1, <3>2
  <2> HIDE <2>5
  <2>6. ~(rd'.pc = "read" /\ rd'.done)
    BY <1>2, <1>4, SMTT(60)
  <2> QED
    BY <2>4, <2>5, <2>6 DEF Flow, InPlace
<1> QED
  BY <1>3, <1>4

\* The server sends the next packet.
LEMMA FlowSends ==
    ASSUME BridgeTypes, NEW rp \in 0..(NBlocks + 2), Flow(rp), ServerSends
    PROVE  Flow(rp)'
<1>1. net \in Seq(Packets) /\ left \in Seq(Packets) /\ NBlocks \in Nat
  BY Fields, BridgeAssumption
<1>2. /\ left # <<>> /\ ~Eof /\ net' = Append(net, Head(left)) /\ left' = Tail(left)
      /\ UNCHANGED <<closed, shut, rd>>
  BY DEF ServerSends
<1>3. /\ \A i \in 1..Len(net) : InPlace(net[i], rp + i)
      /\ rp + Len(net) + Len(left) = NBlocks + 2
      /\ \A i \in 1..Len(left) : InPlace(left[i], rp + Len(net) + i)
      /\ rd.done <=> rp = NBlocks + 2
      /\ ~(rd.pc = "read" /\ rd.done)
  BY <1>2 DEF Flow
<1>4. /\ Len(left) \in Nat \ {0} /\ Head(left) = left[1] /\ Head(left) \in Packets
      /\ Len(left') = Len(left) - 1 /\ \A i \in 1..(Len(left) - 1) : left'[i] = left[i + 1]
  BY <1>1, <1>2, HeadAndTail
<1>5. /\ Len(net) \in Nat /\ Len(net') = Len(net) + 1 /\ net'[Len(net) + 1] = left[1]
      /\ \A i \in 1..Len(net) : net'[i] = net[i]
  BY <1>1, <1>2, <1>4, Appended
<1>6. rp + Len(net') <= NBlocks + 2 /\ rp + Len(net') + Len(left') = NBlocks + 2
  BY <1>1, <1>3, <1>4, <1>5
<1>7. ASSUME NEW i \in 1..Len(net') PROVE InPlace(net'[i], rp + i)
  <2>1. CASE i = Len(net) + 1
    <3>1. InPlace(left[1], rp + Len(net) + 1)
      BY <1>3, <1>4
    <3>2. rp + Len(net) + 1 = rp + i /\ net'[i] = left[1]
      BY <1>5, <2>1
    <3> QED
      BY <3>1, <3>2
  <2>2. CASE i \in 1..Len(net)
    BY <1>3, <1>5, <2>2
  <2> QED
    BY <1>5, <2>1, <2>2
<1>8. ASSUME NEW i \in 1..Len(left') PROVE InPlace(left'[i], rp + Len(net') + i)
  <2>1. i + 1 \in 1..Len(left) /\ left'[i] = left[i + 1] /\ rp + Len(net) + (i + 1) = rp + Len(net') + i
    BY <1>4, <1>5
  <2>2. InPlace(left[i + 1], rp + Len(net) + (i + 1))
    BY <1>3, <2>1
  <2> QED
    BY <2>1, <2>2
<1>9. ~Eof' /\ rd' = rd
  BY <1>2 DEF Eof
<1> HIDE <1>7, <1>8
<1> QED
  BY <1>3, <1>6, <1>7, <1>8, <1>9 DEF Flow, InPlace

\* The reader takes the packet that follows, or the first part of one.
LEMMA FlowPacket ==
    ASSUME BridgeTypes, NEW rp \in 0..(NBlocks + 2), Flow(rp), ReaderPacket
    PROVE  \/ net[1].type \in Cut /\ Eof /\ net' = <<>> /\ Flow(rp)'
           \/ net[1].type \notin Cut /\ InPlace(net[1], rp + 1) /\ rp + 1 \in 1..(NBlocks + 2) /\ Flow(rp + 1)'
<1>1. net \in Seq(Packets) /\ left \in Seq(Packets) /\ NBlocks \in Nat
  BY Fields, BridgeAssumption
<1>2. rd.pc = "read" /\ net # <<>> /\ net' = Tail(net) /\ UNCHANGED <<left, closed, shut>>
  BY ReaderPacketDoes
<1>3. /\ Len(net) \in Nat \ {0} /\ Len(net') = Len(net) - 1
      /\ \A i \in 1..(Len(net) - 1) : net'[i] = net[i + 1]
  BY <1>1, <1>2, HeadAndTail
<1>4. /\ rp + Len(net) <= NBlocks + 2
      /\ \A i \in 1..Len(net) : InPlace(net[i], rp + i) \/ (Eof /\ i = Len(net) /\ net[i].type \in Cut)
      /\ ~Eof => /\ rp + Len(net) + Len(left) = NBlocks + 2
                 /\ \A i \in 1..Len(left) : InPlace(left[i], rp + Len(net) + i)
                 /\ rd.done <=> rp = NBlocks + 2
  BY DEF Flow
<1>5. rp + 1 \in 1..(NBlocks + 2) /\ rp # NBlocks + 2
  BY <1>1, <1>3, <1>4
<1>6. InPlace(net[1], rp + 1) => net[1].type \notin Cut
  <2>1. rp + 1 = 1 \/ rp + 1 \in 2..(NBlocks + 1) \/ rp + 1 = NBlocks + 2
    BY <1>1, <1>5
  <2> QED
    BY <2>1 DEF InPlace, Cut
<1>7. CASE ~InPlace(net[1], rp + 1)
  <2>1. Eof /\ Len(net) = 1 /\ net[1].type \in Cut
    BY <1>3, <1>4, <1>7
  <2>2. Len(net') = 0 /\ net' = <<>> /\ Eof'
    BY <1>1, <1>2, <1>3, <2>1 DEF Eof
  <2>3. rp + Len(net') <= NBlocks + 2
    BY <1>1, <2>2, SMTT(60)
  <2> QED
    BY <2>1, <2>2, <2>3 DEF Flow
<1>8. CASE InPlace(net[1], rp + 1)
  <2>1. net[1].type \notin Cut
    BY <1>6, <1>8
  <2>2. (rp + 1) + Len(net') <= NBlocks + 2
    BY <1>1, <1>3, <1>4
  <2>3. ASSUME NEW i \in 1..Len(net')
        PROVE  InPlace(net'[i], (rp + 1) + i) \/ (Eof' /\ i = Len(net') /\ net'[i].type \in Cut)
    <3>1. i + 1 \in 1..Len(net) /\ net'[i] = net[i + 1] /\ rp + (i + 1) = (rp + 1) + i
      BY <1>3
    <3>2. InPlace(net[i + 1], rp + (i + 1)) \/ (Eof /\ i + 1 = Len(net) /\ net[i + 1].type \in Cut)
      BY <1>4, <3>1
    <3>3. Eof' = Eof
      BY <1>2 DEF Eof
    <3>4. i + 1 = Len(net) => i = Len(net')
      BY <1>3
    <3> QED
      BY <3>1, <3>2, <3>3, <3>4
  <2>4. rd'.pc # "read" /\ (~Eof => (rd'.done <=> rp + 1 = NBlocks + 2))
    <3>1. CASE rp + 1 = NBlocks + 2
      <4>1. net[1].type \in {"eos", "exc"}
        BY <1>8, <3>1 DEF InPlace
      <4> QED
        BY <3>1, <4>1, ReaderPacketDoes
    <3>2. CASE rp + 1 # NBlocks + 2
      <4>1. rp + 1 = 1 \/ rp + 1 \in 2..(NBlocks + 1)
        BY <1>1, <1>5, <3>2
      <4>2. net[1].type \in {"head", "block"}
        BY <1>8, <4>1 DEF InPlace
      <4>3. rd'.pc # "read" /\ rd'.done = rd.done
        BY <4>2, ReaderPacketDoes
      <4> QED
        BY <1>4, <1>5, <3>2, <4>3
    <3> QED
      BY <3>1, <3>2
  <2>5. ASSUME ~Eof'
        PROVE  /\ (rp + 1) + Len(net') + Len(left') = NBlocks + 2
               /\ \A i \in 1..Len(left') : InPlace(left'[i], (rp + 1) + Len(net') + i)
    <3>1. ~Eof /\ left' = left
      BY <1>2, <2>5 DEF Eof
    <3>2. (rp + 1) + Len(net') = rp + Len(net)
      BY <1>3
    <3> QED
      BY <1>4, <3>1, <3>2
  <2>6. Eof' = Eof
    BY <1>2 DEF Eof
  <2> HIDE <2>3
  <2> QED
    BY <1>5, <1>8, <2>1, <2>2, <2>3, <2>4, <2>5, <2>6 DEF Flow, InPlace
<1> QED
  BY <1>7, <1>8

\* Every other step leaves the place of the reader in the response alone.
LEMMA FlowSteady ==
    ASSUME BridgeTypes, SlotInv, NEW rp \in 0..(NBlocks + 2), rd.pc # "off", Flow(rp),
           Next, ~ReaderPacket, ~astray'
    PROVE  Flow(rp)'
<1>1. CASE StartStream
  <2>1. rd.pc = "off"
    BY <1>1, StartStreamDoes, ZenonT(60)
  <2> QED
    BY <2>1
<1>2. CASE StartFails \/ CancelStart
  <2>1. gen.pc = "starting"
    BY <1>2, StartEndsDoes
  <2> QED
    BY <2>1 DEF SlotInv
<1>3. CASE ServerSends \/ ServerCloses
  <2>1. CASE ServerSends
    BY <2>1, FlowSends
  <2>2. CASE ServerCloses
    <3>1. ~Eof /\ net' \in CutOff /\ Eof' /\ rd' = rd
      BY <2>2 DEF ServerCloses, Eof
    <3> QED
      BY <3>1, FlowCut
  <2> QED
    BY <1>3, <2>1, <2>2
<1>4. CASE ReaderCheck
  <2>1. (rd'.pc = "read" => ~rd.done)
        /\ rd'.done = rd.done /\ UNCHANGED <<net, left, closed, shut>>
    BY <1>4, ReaderCheckDoes, ZenonT(60)
  <2> QED
    BY <2>1 DEF Flow, InPlace, Eof
<1>5. CASE ReaderPacket
  BY <1>5
<1>6. CASE ReaderEof
  <2>1. net' = <<>> /\ net = <<>> /\ Eof /\ Eof' /\ UNCHANGED net
    BY <1>6, ReaderEofDoes, SMTT(60) DEF Eof
  <2> QED
    BY <2>1 DEF Flow, InPlace
<1>7. CASE ReaderPublish
  <2>1. rd'.pc # "read"
        /\ rd'.done = rd.done /\ UNCHANGED <<net, left, closed, shut>>
    BY <1>7, ReaderPublishDoes
  <2> QED
    BY <2>1, SMTT(60) DEF Flow, InPlace, Eof
<1>8. CASE ReaderSend
  <2>1. rd'.pc # "read"
        /\ rd'.done = rd.done /\ UNCHANGED <<net, left, closed, shut>>
    BY <1>8, ReaderSendDoes
  <2> QED
    BY <2>1, SMTT(60) DEF Flow, InPlace, Eof
<1>9. CASE StreamDropped
  <2>1. CASE native.eos /\ net' = net /\ shut' = shut
    <3>1. UNCHANGED <<net, left, closed, shut, rd>>
      BY <1>9, StreamDroppedDoes, <2>1
    <3> QED
      BY <3>1 DEF Flow, InPlace, Eof
  <2>2. CASE Shutdown
    <3>1. (net' = net \/ (~Eof /\ net' \in CutOff)) /\ Eof' /\ rd' = rd
      BY <1>9, StreamDroppedDoes, <2>2 DEF Shutdown, Eof
    <3> QED
      BY <3>1, FlowCut
  <2> QED
    BY <1>9, StreamDroppedDoes, <2>1, <2>2, SMTT(60)
<1>10. CASE ForwarderNext
  <2>1. UNCHANGED <<net, left, closed, shut, rd>>
    BY <1>10, ForwarderNextDoes, SMTT(60)
  <2> QED
    BY <2>1 DEF Flow, InPlace, Eof
<1>11. CASE ForwarderWait \/ ForwarderTimeout \/ ForwarderEnds
  <2>1. UNCHANGED <<net, left, closed, shut, rd>>
    BY <1>11, ForwarderMoves
  <2> QED
    BY <2>1 DEF Flow, InPlace, Eof
<1>12. CASE ForwarderPut
  <2>1. UNCHANGED <<net, left, closed, shut, rd>>
    BY <1>12, ForwarderPutDoes
  <2> QED
    BY <2>1 DEF Flow, InPlace, Eof
<1>13. CASE ForwarderSentinel
  <2>1. UNCHANGED <<net, left, closed, shut, rd>>
    BY <1>13, ForwarderSentinelDoes
  <2> QED
    BY <2>1 DEF Flow, InPlace, Eof
<1>14. CASE ForwarderRelease
  <2>1. UNCHANGED <<net, left, closed, shut, rd>>
    BY <1>14, ForwarderReleaseDoes
  <2> QED
    BY <2>1 DEF Flow, InPlace, Eof
<1>15. CASE RunPut
  <2>1. UNCHANGED <<net, left, closed, shut, rd>>
    BY <1>15, RunPutDoes
  <2> QED
    BY <2>1 DEF Flow, InPlace, Eof
<1>16. CASE GeneratorGet
  <2>1. UNCHANGED <<net, left, closed, shut, rd>>
    BY <1>16, GeneratorGetDoes
  <2> QED
    BY <2>1 DEF Flow, InPlace, Eof
<1>17. CASE IteratorNext
  <2>1. UNCHANGED <<net, left, closed, shut, rd>>
    BY <1>17, IteratorNextDoes
  <2> QED
    BY <2>1 DEF Flow, InPlace, Eof
<1>18. CASE GeneratorResumes \/ Leave
  <2>1. UNCHANGED <<net, left, closed, shut, rd>>
    BY <1>18, GeneratorMoves
  <2> QED
    BY <2>1 DEF Flow, InPlace, Eof
<1>19. CASE Abandon
  <2>1. UNCHANGED <<net, left, closed, shut, rd>>
    BY <1>19, AbandonDoes
  <2> QED
    BY <2>1 DEF Flow, InPlace, Eof
<1>20. CASE Kill
  <2>1. (net' = net \/ (~Eof /\ net' \in CutOff)) /\ Eof' /\ rd' = rd
    BY <1>20, KillDoes DEF Shutdown, Eof
  <2> QED
    BY <2>1, FlowCut
<1>21. CASE ReaderFails
  BY <1>21 DEF ReaderFails
<1>22. CASE ReaderStray
  BY <1>22 DEF ReaderStray
<1> QED
  BY <1>1, <1>2, <1>3, <1>4, <1>5, <1>6, <1>7, <1>8, <1>9, <1>10, <1>11, <1>12, <1>13,
     <1>14, <1>15, <1>16, <1>17, <1>18, <1>19, <1>20, <1>21, <1>22
     DEF Next, Reader, Forwarder, Consumer

\* The reader starts with the stream.
LEMMA OffStays ==
    ASSUME BridgeTypes, Next, ~StartStream, rd.pc = "off"
    PROVE  rd' = rd
<1>1. CASE StartStream
  BY <1>1
<1>2. CASE StartFails \/ CancelStart
  BY <1>2 DEF StartFails, CancelStart
<1>3. CASE ServerSends \/ ServerCloses
  BY <1>3 DEF ServerSends, ServerCloses
<1>4. CASE ReaderCheck
  BY <1>4 DEF ReaderCheck
<1>5. CASE ReaderPacket
  BY <1>5 DEF ReaderPacket
<1>6. CASE ReaderEof
  BY <1>6 DEF ReaderEof
<1>7. CASE ReaderPublish
  BY <1>7 DEF ReaderPublish
<1>8. CASE ReaderSend
  BY <1>8 DEF ReaderSend
<1>9. CASE StreamDropped
  BY <1>9 DEF StreamDropped
<1>10. CASE ForwarderNext
  BY <1>10 DEF ForwarderNext
<1>11. CASE ForwarderWait \/ ForwarderTimeout \/ ForwarderEnds
  BY <1>11 DEF ForwarderWait, ForwarderTimeout, ForwarderEnds
<1>12. CASE ForwarderPut
  BY <1>12 DEF ForwarderPut
<1>13. CASE ForwarderSentinel
  BY <1>13 DEF ForwarderSentinel
<1>14. CASE ForwarderRelease
  BY <1>14 DEF ForwarderRelease
<1>15. CASE RunPut
  BY <1>15 DEF RunPut
<1>16. CASE GeneratorGet
  BY <1>16 DEF GeneratorGet
<1>17. CASE IteratorNext
  BY <1>17 DEF IteratorNext
<1>18. CASE GeneratorResumes \/ Leave
  BY <1>18 DEF GeneratorResumes, Leave
<1>19. CASE Abandon
  BY <1>19 DEF Abandon
<1>20. CASE Kill
  BY <1>20 DEF Kill
<1>21. CASE ReaderFails
  BY <1>21 DEF ReaderFails
<1>22. CASE ReaderStray
  BY <1>22 DEF ReaderStray
<1> QED
  BY <1>1, <1>2, <1>3, <1>4, <1>5, <1>6, <1>7, <1>8, <1>9, <1>10, <1>11, <1>12, <1>13,
     <1>14, <1>15, <1>16, <1>17, <1>18, <1>19, <1>20, <1>21, <1>22
     DEF Next, Reader, Forwarder, Consumer

LEMMA FlowStart ==
    ASSUME BridgeTypes, OffInv, StartStream
    PROVE  Flow(0)'
<1>1. /\ rd.pc = "off" /\ ~closed /\ left' \in Responses /\ rd'.pc = "check" /\ rd'.done = rd.done
      /\ UNCHANGED <<closed, net, shut>>
  BY StartStreamDoes
<1>2. net = <<>> /\ ~rd.done /\ ~shut
  BY <1>1 DEF OffInv
<1>3. net' = <<>> /\ Len(net') = 0 /\ ~Eof' /\ ~rd'.done /\ rd'.pc # "read"
  BY <1>1, <1>2 DEF Eof
<1>4. Len(left') = NBlocks + 2 /\ \A i \in 1..Len(left') : InPlace(left'[i], i)
  BY <1>1, ResponseShape
<1> QED
  BY <1>3, <1>4, BridgeAssumption DEF Flow

LEMMA FlowKept ==
    ASSUME BridgeTypes, FlowInv, OffInv, SlotInv, Next, ~astray'
    PROVE  FlowInv'
<1>1. CASE StartStream
  BY <1>1, FlowStart, BridgeAssumption DEF FlowInv
<1>2. CASE ~StartStream /\ rd.pc = "off"
  <2>1. rd' = rd
    BY <1>2, OffStays
  <2> QED
    BY <1>2, <2>1 DEF FlowInv
<1>3. CASE rd.pc # "off"
  <2>1. PICK rp \in 0..(NBlocks + 2) : Flow(rp)
    BY <1>3 DEF FlowInv
  <2>2. CASE ReaderPacket
    <3>1. Flow(rp)' \/ (rp + 1 \in 0..(NBlocks + 2) /\ Flow(rp + 1)')
      BY <2>1, <2>2, FlowPacket
    <3> QED
      BY <3>1 DEF FlowInv
  <2>3. CASE ~ReaderPacket
    <3>1. Flow(rp)'
      BY <1>3, <2>1, <2>3, FlowSteady
    <3> QED
      BY <3>1 DEF FlowInv
  <2> QED
    BY <2>2, <2>3
<1> QED
  BY <1>1, <1>2, <1>3

-----------------------------------------------------------------------------
\* The theorem

LEMMA BridgeInit == Init => BridgeInv
<1> SUFFICES ASSUME Init PROVE BridgeInv
  OBVIOUS
<1>1. /\ rd = [pc |-> "off", done |-> FALSE, item |-> None]
      /\ native = [cancel |-> FALSE, eos |-> FALSE, finished |-> FALSE, dropped |-> FALSE]
      /\ fw = [pc |-> "off", val |-> None, exc |-> FALSE]
      /\ gen = [pc |-> "starting", yielded |-> <<>>, end |-> "no"]
      /\ net = <<>> /\ left = <<>> /\ chan = <<>> /\ closed = FALSE /\ shut = FALSE
      /\ discarded = FALSE /\ event = FALSE /\ slot = "lent" /\ astray = FALSE
  BY Zenon DEF Init
<1>2. rd.pc = "off" /\ ~rd.done
  BY <1>1
<1>3. ~native.cancel /\ ~native.eos /\ ~native.finished /\ ~native.dropped
  BY <1>1
<1>4. fw.pc = "off" /\ gen.pc = "starting" /\ gen.end = "no"
  BY <1>1
<1>5. BridgeTypes
  BY TypesInit
<1>6. FlowInv /\ OffInv /\ PublishInv
  BY <1>1, <1>2, <1>3, <1>4, SMTT(60) DEF FlowInv, OffInv, PublishInv
<1>7. StopInv /\ SlotInv
  BY <1>1, <1>2, <1>3, <1>4, SMTT(60) DEF StopInv, SlotInv
<1>8. RaceInv /\ ReuseInv
  BY <1>1, <1>2, <1>3, <1>4 DEF RaceInv, ReuseInv
<1> QED
  BY <1>5, <1>6, <1>7, <1>8 DEF BridgeInv

\* A reader that went astray stays so.
LEMMA AstrayBefore ==
    ASSUME BridgeTypes, Next, ~astray'
    PROVE  ~astray
<1>1. CASE StartStream
  BY <1>1, StartStreamDoes
<1>2. CASE StartFails \/ CancelStart
  BY <1>2, StartEndsDoes
<1>3. CASE ServerSends \/ ServerCloses
  BY <1>3 DEF ServerSends, ServerCloses
<1>4. CASE ReaderCheck
  BY <1>4 DEF ReaderCheck
<1>5. CASE ReaderPacket
  BY <1>5 DEF ReaderPacket
<1>6. CASE ReaderEof
  BY <1>6 DEF ReaderEof
<1>7. CASE ReaderPublish
  BY <1>7 DEF ReaderPublish
<1>8. CASE ReaderSend
  BY <1>8 DEF ReaderSend
<1>9. CASE StreamDropped
  BY <1>9 DEF StreamDropped
<1>10. CASE ForwarderNext
  BY <1>10 DEF ForwarderNext
<1>11. CASE ForwarderWait \/ ForwarderTimeout \/ ForwarderEnds
  BY <1>11 DEF ForwarderWait, ForwarderTimeout, ForwarderEnds
<1>12. CASE ForwarderPut
  BY <1>12 DEF ForwarderPut
<1>13. CASE ForwarderSentinel
  BY <1>13 DEF ForwarderSentinel
<1>14. CASE ForwarderRelease
  BY <1>14 DEF ForwarderRelease
<1>15. CASE RunPut
  BY <1>15 DEF RunPut
<1>16. CASE GeneratorGet
  BY <1>16 DEF GeneratorGet
<1>17. CASE IteratorNext
  BY <1>17 DEF IteratorNext
<1>18. CASE GeneratorResumes \/ Leave
  BY <1>18 DEF GeneratorResumes, Leave
<1>19. CASE Abandon
  BY <1>19 DEF Abandon
<1>20. CASE Kill
  BY <1>20 DEF Kill
<1>21. CASE ReaderFails
  BY <1>21 DEF ReaderFails
<1>22. CASE ReaderStray
  BY <1>22 DEF ReaderStray
<1> QED
  BY <1>1, <1>2, <1>3, <1>4, <1>5, <1>6, <1>7, <1>8, <1>9, <1>10, <1>11, <1>12, <1>13,
     <1>14, <1>15, <1>16, <1>17, <1>18, <1>19, <1>20, <1>21, <1>22
     DEF Next, Reader, Forwarder, Consumer

LEMMA BridgeNext == BridgeInv /\ [Next]_vars => BridgeInv'
<1> SUFFICES ASSUME BridgeInv, [Next]_vars PROVE BridgeInv'
  OBVIOUS
<1>1. /\ BridgeTypes /\ OffInv /\ StopInv /\ SlotInv
      /\ ~astray => FlowInv /\ PublishInv /\ RaceInv /\ ReuseInv
  BY DEF BridgeInv
<1>2. CASE Next
  <2>1. BridgeTypes' /\ StopInv' /\ SlotInv' /\ OffInv'
    BY <1>1, <1>2, TypesKept, StopKept, SlotKept, OffKept
  <2>2. ASSUME ~astray' PROVE PublishInv' /\ RaceInv' /\ ReuseInv' /\ FlowInv'
    <3>1. ~astray
      BY <1>1, <1>2, <2>2, AstrayBefore
    <3>2. FlowInv /\ PublishInv /\ RaceInv /\ ReuseInv
      BY <1>1, <3>1
    <3> QED
      BY <1>1, <1>2, <2>2, <3>2, PublishKept, RaceKept, ReuseKept, FlowKept
  <2> QED
    BY <2>1, <2>2 DEF BridgeInv
<1>3. CASE UNCHANGED vars
  <2>1. UNCHANGED <<kind, compressed, left, closed, net, shut, rd, native, chan, discarded, fw,
                    retries, queue, ready, putters, gen, event, slot, astray>>
    BY <1>3 DEF vars, server, socket, loop
  <2>2. BridgeTypes'
    BY <1>1, <2>1, Zenon DEF BridgeTypes, ServerType, SocketType, ReaderType, NativeType, ChanType,
                   ForwarderType, LoopType, GeneratorType, FlagType, SlotType
  <2>3. FlowInv => FlowInv'
    <3>1. ASSUME NEW rp \in 0..(NBlocks + 2), Flow(rp) PROVE Flow(rp)'
      BY <2>1, <3>1 DEF Flow, InPlace, Eof
    <3> QED
      BY <2>1, <3>1, Zenon DEF FlowInv
  <2>4. OffInv' /\ StopInv' /\ (PublishInv => PublishInv')
    BY <1>1, <2>1, Zenon DEF OffInv, PublishInv, StopInv, Eof
  <2>5. SlotInv' /\ (RaceInv => RaceInv') /\ (ReuseInv => ReuseInv')
    BY <1>1, <2>1, Zenon DEF SlotInv, RaceInv, ReuseInv, Landed
  <2> QED
    BY <1>1, <2>1, <2>2, <2>3, <2>4, <2>5 DEF BridgeInv
<1> QED
  BY <1>2, <1>3

(* The numbering of the packets, until read_next_block() fails in the      *)
(* middle of the response, and the protocol of the threads around the eos  *)
(* flag and the pool slot hold in every state.                             *)
THEOREM BridgeProtocol == Spec => []BridgeInv
<1>1. Init => BridgeInv
  BY BridgeInit
<1>2. BridgeInv /\ [Next]_vars => BridgeInv'
  BY BridgeNext
<1> QED
  BY <1>1, <1>2, PTL DEF Spec

\* Behind eos the reader has read the last packet of the response.
LEMMA DoneIsEmpty ==
    ASSUME BridgeInv, native.eos, ~closed, ~shut, ~astray
    PROVE  net = <<>> /\ left = <<>> /\ rd.pc # "read"
<1>1. BridgeTypes /\ FlowInv /\ OffInv /\ PublishInv
  BY DEF BridgeInv
<1>2. rd.pc # "off" /\ rd.done /\ ~Eof
  BY <1>1 DEF OffInv, PublishInv, Eof
<1>3. PICK rp \in 0..(NBlocks + 2) : Flow(rp)
  BY <1>1, <1>2 DEF FlowInv
<1>4. /\ rp = NBlocks + 2 /\ rp + Len(net) + Len(left) = NBlocks + 2
      /\ ~(rd.pc = "read" /\ rd.done)
  BY <1>2, <1>3 DEF Flow
<1>5. net \in Seq(Packets) /\ left \in Seq(Packets) /\ NBlocks \in Nat
  BY <1>1, Fields, BridgeAssumption
<1>6. Len(net) = 0 /\ Len(left) = 0
  BY <1>4, <1>5
<1> QED
  BY <1>2, <1>4, <1>5, <1>6

(* query_stream and PyQueryStream: a connection that goes back to its pool *)
(* or serves the next call of a sync client after a stream that was        *)
(* started has no packet of that stream before it, was not shut down and   *)
(* is not being read, for every length of the response and every capacity  *)
(* of channel and queue, whatever the order of the reader, the forwarder,  *)
(* the event loop and a consumer that leaves.  The one exception is a      *)
(* response in which read_next_block() failed: there a sync client is      *)
(* reused as it is, and a pooled one if eos was published all the same.    *)
THEOREM ReusedIsCleanHolds == Spec => []ReusedIsClean
<1>1. BridgeInv => ReusedIsClean
  <2> SUFFICES ASSUME BridgeInv, Reusable, gen.end # "start", ~closed
               PROVE  Clean \/ (astray /\ (kind = "async" => native.eos))
    BY DEF ReusedIsClean
  <2>1. BridgeTypes /\ SlotInv
    BY DEF BridgeInv
  <2>2. CASE astray
    <3>1. kind = "async" => slot = "free"
      BY DEF Reusable
    <3> QED
      BY <2>1, <2>2, <3>1 DEF SlotInv
  <2>3. CASE ~astray
    <3>1. ReuseInv
      BY <2>3 DEF BridgeInv
    <3>2. native.eos
      BY <3>1 DEF Reusable, ReuseInv
    <3>3. ~discarded /\ slot # "destroyed"
      BY <2>1, <3>1 DEF Reusable, ReuseInv, SlotInv
    <3>4. ~shut
      BY <3>1, <3>3 DEF ReuseInv
    <3> QED
      BY <2>3, <3>2, <3>4, DoneIsEmpty DEF Clean
  <2> QED
    BY <2>2, <2>3
<1> QED
  BY <1>1, BridgeProtocol, PTL

=============================================================================
