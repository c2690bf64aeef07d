------------------------ MODULE StreamDeliveryProofs ------------------------
(***************************************************************************)
(* The blocks of a stream reach the application without a gap, for every   *)
(* length of the response and every capacity of the channel and of the     *)
(* queue.  Flow(rp) of StreamBridgeProofs places the reader in the         *)
(* response; here the blocks behind it are followed through the channel,   *)
(* the forwarder, the puts of the event loop and the asyncio.Queue.        *)
(***************************************************************************)
EXTENDS StreamBridgeProofs

(* The blocks with rows among the first rp packets of the response.        *)
RowsRead(rp) == IF rp = 0 THEN 0 ELSE IF rp = NBlocks + 2 THEN NBlocks ELSE rp - 1

(* Somebody takes items from the channel, and has taken so many blocks.    *)
Receiving == IF kind = "sync" THEN gen.pc \in {"get", "yield"} ELSE fw.pc \in {"next", "put", "wait"}
Received  == IF kind = "sync" THEN Len(gen.yielded) ELSE fw.val.n

(* No packet follows.                                                      *)
Ended(rp) == net = <<>> /\ (Eof \/ rp = NBlocks + 2)

(* The reader has something in hand.                                       *)
InHand == rd.pc \in {"publish", "send"}
HoldsBlock == rd.pc = "send" /\ rd.item.type = "block"

(* The channel holds the k blocks that follow those received, and behind   *)
(* them the ends that the reader goes on to send.                          *)
ChanInv(rp, k) ==
    /\ \A i \in 1..Len(chan) : IF i <= k THEN chan[i].type = "block" /\ chan[i].n = Received + i
                                         ELSE chan[i].type # "block"
    /\ k < Len(chan) => Ended(rp) /\ (chan[k + 1].type = "none" => Received + k = NBlocks)
    /\ k = Len(chan) =>
          /\ rd.pc = "check" => ~rd.done
          /\ InHand /\ rd.item.type = "none" => Received + k = NBlocks
          /\ Received + k + (IF HoldsBlock THEN 1 ELSE 0) = RowsRead(rp)
    /\ InHand /\ rd.item.type # "block" => Ended(rp)
    /\ HoldsBlock => k = Len(chan) /\ rd.item.n = RowsRead(rp) /\ ~rd.done

(* Behind an error on an open connection: the error follows the k blocks,  *)
(* and nobody receives what the reader makes of the bytes behind it.       *)
AstrayChan(k) ==
    /\ \A i \in 1..k : chan[i].type = "block" /\ chan[i].n = Received + i
    /\ k < Len(chan) => chan[k + 1].type = "err"
    /\ k = Len(chan) => rd.pc = "send" /\ rd.item.type = "err"

PipeInv ==
    rd.pc # "off" /\ Receiving =>
        IF astray THEN \E k \in 0..Len(chan) : AstrayChan(k)
        ELSE \E rp \in 0..(NBlocks + 2), k \in 0..Len(chan) : Flow(rp) /\ ChanInv(rp, k)

FreshInv ==
    gen.pc = "starting" =>
        gen.yielded = <<>> /\ fw.val = None /\ queue = <<>> /\ ready = <<>> /\ putters = <<>>

(* The iterator of the sync client yields the blocks in their order.       *)
SyncInv == kind = "sync" => \A i \in 1..Len(gen.yielded) : gen.yielded[i] = i

(* The block n was yielded, or lies among the first i entries of the queue.*)
Before(n, i) ==
    n \in Range(gen.yielded) \/ \E j \in 1..i : queue[j].type = "block" /\ queue[j].n = n
Delivered(n) == Before(n, Len(queue))

(* What entitles the forwarder to its sentinel.                            *)
Complete == fw.exc \/ NBlocks = 0 \/ Delivered(NBlocks)

PutOk(put) ==
    /\ put.val.type = "block" => \A m \in 1..(put.val.n - 1) : Delivered(m)
    /\ put.val.type = "sentinel" => Complete
    /\ put.mine /\ fw.pc = "wait" => put.val = fw.val

BlocksInv    == \A i \in 1..Len(queue) : queue[i].type = "block" =>
                   \A m \in 1..queue[i].n : Before(m, i)
SentinelInv  == \A i \in 1..Len(queue) : queue[i].type = "sentinel" =>
                   fw.exc \/ NBlocks = 0 \/ Before(NBlocks, i - 1)
PutsInv      == /\ \A i \in 1..Len(ready) : PutOk(ready[i])
                /\ \A i \in 1..Len(putters) : PutOk(putters[i])
ForwarderInv == /\ \A m \in 1..fw.val.n :
                      m < fw.val.n \/ fw.pc \notin {"put", "wait"} => Delivered(m)
                /\ fw.pc = "wait" => Delivered(fw.val.n) \/ ~Landed
                /\ fw.pc = "fin" => fw.exc \/ fw.val.n = NBlocks

(* A put given up after 100 ms and submitted again may land twice; a block *)
(* never lands before the one it follows.                                  *)
QueueInv ==
    kind = "async" /\ gen.pc \in {"get", "yield"} =>
        BlocksInv /\ SentinelInv /\ PutsInv /\ ForwarderInv

DeliveryInv == PipeInv /\ FreshInv /\ SyncInv /\ QueueInv /\ NothingMissing

-----------------------------------------------------------------------------
\* From the socket to the channel

\* A stream somebody receives from was not told to stop.
LEMMA ReceivingRuns ==
    ASSUME BridgeTypes, StopInv, Receiving
    PROVE  ~native.dropped /\ ~native.cancel /\ ~native.finished
<1>1. CASE kind = "sync"
  BY <1>1 DEF Receiving, StopInv
<1>2. CASE kind # "sync"
  <2>1. kind = "async" /\ ~native.dropped
    BY <1>2, Fields DEF Receiving, StopInv
  <2> QED
    BY <2>1 DEF StopInv
<1> QED
  BY <1>1, <1>2

LEMMA ReceivedTypes ==
    ASSUME BridgeTypes
    PROVE  Received \in Nat
<1>1. gen.yielded \in Seq(Nat) /\ fw.val \in Items
  BY Fields
<1>2. fw.val.n \in Nat
  BY <1>1 DEF Items
<1> QED
  BY <1>1, <1>2 DEF Received

LEMMA RowsTypes ==
    ASSUME NEW rp \in 0..(NBlocks + 2)
    PROVE  RowsRead(rp) \in Nat /\ RowsRead(0) = 0
BY BridgeAssumption DEF RowsRead

\* Nobody starts to receive from a stream that runs.
LEMMA ReceivingBefore ==
    ASSUME BridgeTypes, SlotInv, rd.pc # "off", Next, Receiving'
    PROVE  Receiving
<1>1. CASE StartStream
  BY <1>1, StartStreamDoes
<1>2. CASE StartFails \/ CancelStart
  BY <1>2, StartEndsDoes DEF SlotInv
<1>3. CASE ServerSends \/ ServerCloses
  <2>1. UNCHANGED <<kind, gen, fw>>
    BY <1>3, ServerDoes, Zenon
  <2> QED
    BY <2>1, Fields DEF Receiving, SlotInv
<1>4. CASE ReaderCheck
  <2>1. UNCHANGED <<kind, gen, fw>>
    BY <1>4, ReaderCheckDoes
  <2> QED
    BY <2>1, Fields DEF Receiving, SlotInv
<1>5. CASE ReaderPacket
  <2>1. UNCHANGED <<kind, gen, fw>>
    BY <1>5, ReaderPacketDoes
  <2> QED
    BY <2>1, Fields DEF Receiving, SlotInv
<1>6. CASE ReaderEof
  <2>1. UNCHANGED <<kind, gen, fw>>
    BY <1>6, ReaderEofDoes
  <2> QED
    BY <2>1, Fields DEF Receiving, SlotInv
<1>7. CASE ReaderPublish
  <2>1. UNCHANGED <<kind, gen, fw>>
    BY <1>7, ReaderPublishDoes
  <2> QED
    BY <2>1, Fields DEF Receiving, SlotInv
<1>8. CASE ReaderSend
  <2>1. UNCHANGED <<kind, gen, fw>>
    BY <1>8, ReaderSendDoes
  <2> QED
    BY <2>1, Fields DEF Receiving, SlotInv
<1>9. CASE StreamDropped
  <2>1. UNCHANGED <<kind, gen, fw>>
    BY <1>9, StreamDroppedDoes
  <2> QED
    BY <2>1, Fields DEF Receiving, SlotInv
<1>10. CASE ForwarderNext
  <2>1. kind' = kind /\ gen' = gen /\ fw.pc = "next"
    BY <1>10, ForwarderNextDoes
  <2> QED
    BY <2>1, Fields DEF Receiving, SlotInv
<1>11. CASE ForwarderWait \/ ForwarderTimeout \/ ForwarderEnds
  <2>1. kind' = kind /\ gen' = gen /\ (fw.pc = "wait" \/ (fw.pc = "finwait" /\ fw'.pc = "release"))
    BY <1>11, ForwarderMoves
  <2> QED
    BY <2>1, Fields DEF Receiving, SlotInv
<1>12. CASE ForwarderPut
  <2>1. kind' = kind /\ gen' = gen /\ fw.pc = "put"
    BY <1>12, ForwarderPutDoes
  <2> QED
    BY <2>1, Fields DEF Receiving, SlotInv
<1>13. CASE ForwarderSentinel
  <2>1. kind' = kind /\ gen' = gen /\ fw'.pc = "finwait"
    BY <1>13, ForwarderSentinelDoes
  <2> QED
    BY <2>1, Fields DEF Receiving, SlotInv
<1>14. CASE ForwarderRelease
  <2>1. kind' = kind /\ gen' = gen /\ fw'.pc = "done"
    BY <1>14, ForwarderReleaseDoes
  <2> QED
    BY <2>1, Fields DEF Receiving, SlotInv
<1>15. CASE RunPut
  <2>1. UNCHANGED <<kind, gen, fw>>
    BY <1>15, RunPutDoes
  <2> QED
    BY <2>1, Fields DEF Receiving, SlotInv
<1>16. CASE GeneratorGet
  <2>1. kind' = kind /\ fw' = fw /\ kind = "async"
    BY <1>16, GeneratorGetDoes
  <2> QED
    BY <2>1, Fields DEF Receiving, SlotInv
<1>17. CASE IteratorNext
  <2>1. kind' = kind /\ fw' = fw /\ gen.pc = "get"
    BY <1>17, IteratorNextDoes
  <2> QED
    BY <2>1, Fields DEF Receiving, SlotInv
<1>18. CASE GeneratorResumes \/ Leave
  <2>1. kind' = kind /\ fw' = fw /\ gen.pc \in {"get", "yield"}
    BY <1>18, GeneratorMoves
  <2> QED
    BY <2>1, Fields DEF Receiving, SlotInv
<1>19. CASE Abandon
  <2>1. kind' = kind /\ fw' = fw /\ gen'.pc \in {"over", "kill"}
    BY <1>19, AbandonDoes
  <2> QED
    BY <2>1, Fields DEF Receiving, SlotInv
<1>20. CASE Kill
  <2>1. kind' = kind /\ fw' = fw /\ gen'.pc = "over"
    BY <1>20, KillDoes
  <2> QED
    BY <2>1, Fields DEF Receiving, SlotInv
<1>21. CASE ReaderFails
  <2>1. UNCHANGED <<kind, gen, fw>>
    BY <1>21, ReaderFailsDoes
  <2> QED
    BY <2>1, Fields DEF Receiving, SlotInv
<1>22. CASE ReaderStray
  <2>1. UNCHANGED <<kind, gen, fw>>
    BY <1>22, ReaderStrayDoes
  <2> QED
    BY <2>1, Fields DEF Receiving, SlotInv
<1> QED
  BY <1>1, <1>2, <1>3, <1>4, <1>5, <1>6, <1>7, <1>8, <1>9, <1>10, <1>11, <1>12, <1>13,
     <1>14, <1>15, <1>16, <1>17, <1>18, <1>19, <1>20, <1>21, <1>22
     DEF Next, Reader, Forwarder, Consumer

LEMMA NoCut ==
    ASSUME BridgeTypes, NEW rp \in 0..(NBlocks + 2), Flow(rp), Ended(rp), ~Eof
    PROVE  left = <<>>
<1>1. rp = NBlocks + 2 /\ rp + Len(net) + Len(left) = NBlocks + 2 /\ Len(net) = 0
  BY DEF Ended, Flow
<1>2. left \in Seq(Packets)
  BY Fields
<1>3. Len(left) = 0
  BY <1>1, <1>2, BridgeAssumption
<1> QED
  BY <1>2, <1>3

LEMMA ShutdownEnded ==
    ASSUME BridgeTypes, NEW rp \in 0..(NBlocks + 2), Flow(rp), Ended(rp), Shutdown
    PROVE  Ended(rp)'
<1>1. net' = net \/ (~Eof /\ net' \in CutOff)
  BY DEF Shutdown
<1>2. ~Eof /\ net' \in CutOff => net' = net
  BY NoCut DEF CutOff
<1>3. shut'
  BY DEF Shutdown
<1> QED
  BY <1>1, <1>2, <1>3 DEF Ended, Eof

\* Behind the last packet, or the end of the connection, nothing arrives.
LEMMA EndedKept ==
    ASSUME BridgeTypes, SlotInv, rd.pc # "off", NEW rp \in 0..(NBlocks + 2), Flow(rp), Ended(rp), Next,
           ~astray'
    PROVE  Ended(rp)'
<1>1. CASE StartStream
  BY <1>1, StartStreamDoes
<1>2. CASE StartFails \/ CancelStart
  BY <1>2, StartEndsDoes DEF SlotInv
<1>3. CASE ServerSends \/ ServerCloses
  BY <1>3, ServerDoes, NoCut, Zenon
<1>4. CASE ReaderCheck
  <2>1. UNCHANGED <<net, closed, shut>>
    BY <1>4, ReaderCheckDoes
  <2> QED
    BY <2>1 DEF Ended, Eof
<1>5. CASE ReaderPacket
  BY <1>5, ReaderPacketDoes DEF Ended
<1>6. CASE ReaderEof
  <2>1. UNCHANGED <<net, closed, shut>>
    BY <1>6, ReaderEofDoes
  <2> QED
    BY <2>1 DEF Ended, Eof
<1>7. CASE ReaderPublish
  <2>1. UNCHANGED <<net, closed, shut>>
    BY <1>7, ReaderPublishDoes
  <2> QED
    BY <2>1 DEF Ended, Eof
<1>8. CASE ReaderSend
  <2>1. UNCHANGED <<net, closed, shut>>
    BY <1>8, ReaderSendDoes
  <2> QED
    BY <2>1 DEF Ended, Eof
<1>9. CASE StreamDropped
  <2>1. CASE native.eos /\ net' = net /\ shut' = shut
    <3>1. UNCHANGED <<net, closed, shut>>
      BY <1>9, StreamDroppedDoes, <2>1
    <3> QED
      BY <3>1 DEF Ended, Eof
  <2>2. CASE Shutdown
    BY <2>2, ShutdownEnded
  <2> QED
    BY <1>9, StreamDroppedDoes, <2>1, <2>2
<1>10. CASE ForwarderNext
  <2>1. UNCHANGED <<net, closed, shut>>
    BY <1>10, ForwarderNextDoes
  <2> QED
    BY <2>1 DEF Ended, Eof
<1>11. CASE ForwarderWait \/ ForwarderTimeout \/ ForwarderEnds
  <2>1. UNCHANGED <<net, closed, shut>>
    BY <1>11, ForwarderMoves
  <2> QED
    BY <2>1 DEF Ended, Eof
<1>12. CASE ForwarderPut
  <2>1. UNCHANGED <<net, closed, shut>>
    BY <1>12, ForwarderPutDoes
  <2> QED
    BY <2>1 DEF Ended, Eof
<1>13. CASE ForwarderSentinel
  <2>1. UNCHANGED <<net, closed, shut>>
    BY <1>13, ForwarderSentinelDoes
  <2> QED
    BY <2>1 DEF Ended, Eof
<1>14. CASE ForwarderRelease
  <2>1. UNCHANGED <<net, closed, shut>>
    BY <1>14, ForwarderReleaseDoes
  <2> QED
    BY <2>1 DEF Ended, Eof
<1>15. CASE RunPut
  <2>1. UNCHANGED <<net, closed, shut>>
    BY <1>15, RunPutDoes
  <2> QED
    BY <2>1 DEF Ended, Eof
<1>16. CASE GeneratorGet
  <2>1. UNCHANGED <<net, closed, shut>>
    BY <1>16, GeneratorGetDoes
  <2> QED
    BY <2>1 DEF Ended, Eof
<1>17. CASE IteratorNext
  <2>1. UNCHANGED <<net, closed, shut>>
    BY <1>17, IteratorNextDoes
  <2> QED
    BY <2>1 DEF Ended, Eof
<1>18. CASE GeneratorResumes \/ Leave
  <2>1. UNCHANGED <<net, closed, shut>>
    BY <1>18, GeneratorMoves
  <2> QED
    BY <2>1 DEF Ended, Eof
<1>19. CASE Abandon
  <2>1. UNCHANGED <<net, closed, shut>>
    BY <1>19, AbandonDoes
  <2> QED
    BY <2>1 DEF Ended, Eof
<1>20. CASE Kill
  BY <1>20, KillDoes, ShutdownEnded
<1>21. CASE ReaderFails
  BY <1>21, ReaderFailsDoes
<1>22. CASE ReaderStray
  BY <1>22, ReaderStrayDoes
<1> QED
  BY <1>1, <1>2, <1>3, <1>4, <1>5, <1>6, <1>7, <1>8, <1>9, <1>10, <1>11, <1>12, <1>13,
     <1>14, <1>15, <1>16, <1>17, <1>18, <1>19, <1>20, <1>21, <1>22
     DEF Next, Reader, Forwarder, Consumer

\* A step beside the channel.
LEMMA ChanSame ==
    ASSUME NEW rp, NEW k, ChanInv(rp, k), UNCHANGED <<chan, rd>>, Received' = Received,
           Ended(rp) => Ended(rp)'
    PROVE  ChanInv(rp, k)'
<1>1. (InHand' <=> InHand) /\ (HoldsBlock' <=> HoldsBlock)
  BY DEF InHand, HoldsBlock
<1> QED
  BY <1>1 DEF ChanInv

\* What the consumer finds in front of the channel.
LEMMA FirstItem ==
    ASSUME BridgeTypes, NEW rp, NEW k \in 0..Len(chan), ChanInv(rp, k), chan # <<>>
    PROVE  /\ chan[1].type = "block" => k >= 1 /\ chan[1].n = Received + 1
           /\ chan[1].type = "none" => Received = NBlocks
<1>1. chan \in Seq(Items) /\ Len(chan) \in Nat \ {0} /\ Received \in Nat
  BY Fields, ReceivedTypes
<1>2. CASE k = 0
  BY <1>1, <1>2, BridgeAssumption DEF ChanInv
<1>3. CASE k >= 1
  BY <1>1, <1>3 DEF ChanInv
<1> QED
  BY <1>1, <1>2, <1>3

\* The consumer takes a block.
LEMMA ChanTail ==
    ASSUME BridgeTypes, NEW rp, NEW k \in 0..Len(chan), ChanInv(rp, k), chan # <<>>,
           chan[1].type = "block", chan' = Tail(chan), rd' = rd, Received' = Received + 1,
           Ended(rp) => Ended(rp)'
    PROVE  k - 1 \in 0..Len(chan') /\ ChanInv(rp, k - 1)'
<1>1. chan \in Seq(Items) /\ Received \in Nat
  BY Fields, ReceivedTypes
<1>2. /\ Len(chan) \in Nat \ {0} /\ Len(chan') = Len(chan) - 1
      /\ \A i \in 1..(Len(chan) - 1) : chan'[i] = chan[i + 1]
  BY <1>1, HeadAndTail
<1>3. k >= 1
  BY FirstItem
<1>4. k - 1 \in 0..Len(chan') /\ (k - 1 < Len(chan') <=> k < Len(chan)) /\ (k - 1 = Len(chan') <=> k = Len(chan))
  BY <1>2, <1>3
<1>5. ASSUME NEW i \in 1..Len(chan')
      PROVE  IF i <= k - 1 THEN chan'[i].type = "block" /\ chan'[i].n = Received' + i
                           ELSE chan'[i].type # "block"
  <2>1. i + 1 \in 1..Len(chan) /\ chan'[i] = chan[i + 1] /\ (i <= k - 1 <=> i + 1 <= k)
        /\ Received' + i = Received + (i + 1)
    BY <1>1, <1>2
  <2> QED
    BY <2>1 DEF ChanInv
<1>6. k - 1 < Len(chan') => /\ Ended(rp)'
                            /\ chan'[(k - 1) + 1].type = "none" => Received' + (k - 1) = NBlocks
  <2> SUFFICES ASSUME k < Len(chan)
               PROVE  Ended(rp)' /\ (chan'[(k - 1) + 1].type = "none" => Received' + (k - 1) = NBlocks)
    BY <1>4
  <2>1. (k - 1) + 1 = k /\ k \in 1..(Len(chan) - 1) /\ chan'[k] = chan[k + 1]
        /\ Received' + (k - 1) = Received + k
    BY <1>1, <1>2, <1>3
  <2> QED
    BY <2>1 DEF ChanInv
<1>7. (InHand' <=> InHand) /\ (HoldsBlock' <=> HoldsBlock)
  BY DEF InHand, HoldsBlock
<1>8. Received' + (k - 1) = Received + k
  BY <1>1
<1>9. k - 1 = Len(chan') =>
          /\ rd'.pc = "check" => ~rd'.done
          /\ InHand' /\ rd'.item.type = "none" => Received' + (k - 1) = NBlocks
          /\ Received' + (k - 1) + (IF HoldsBlock' THEN 1 ELSE 0) = RowsRead(rp)
  BY <1>4, <1>7, <1>8 DEF ChanInv
<1>10. /\ InHand' /\ rd'.item.type # "block" => Ended(rp)'
       /\ HoldsBlock' => k - 1 = Len(chan') /\ rd'.item.n = RowsRead(rp) /\ ~rd'.done
  BY <1>4, <1>7 DEF ChanInv
<1> HIDE <1>5
<1> QED
  BY <1>4, <1>5, <1>6, <1>9, <1>10 DEF ChanInv, RowsRead

\* The reader sends what it has in hand.
LEMMA ChanSend ==
    ASSUME BridgeTypes, NEW rp \in 0..(NBlocks + 2), NEW k \in 0..Len(chan), ChanInv(rp, k), ReaderSend,
           ~native.dropped, Received' = Received, Ended(rp) => Ended(rp)'
    PROVE  \E j \in 0..Len(chan') : ChanInv(rp, j)'
<1>1. chan \in Seq(Items) /\ Received \in Nat /\ rd.item \in Items
  BY Fields, ReceivedTypes
<1>2. /\ rd.pc = "send" /\ rd'.pc = "check" /\ rd'.done = rd.done /\ chan' = Append(chan, rd.item)
  BY ReaderSendDoes
<1>3. /\ Len(chan) \in Nat /\ Len(chan') = Len(chan) + 1 /\ chan'[Len(chan) + 1] = rd.item
      /\ \A i \in 1..Len(chan) : chan'[i] = chan[i]
  BY <1>1, <1>2, Appended
<1>4. ~InHand' /\ ~HoldsBlock' /\ InHand
  BY <1>2 DEF InHand, HoldsBlock
<1>5. CASE rd.item.type = "block"
  <2>1. HoldsBlock
    BY <1>2, <1>5 DEF HoldsBlock
  <2>2. k = Len(chan) /\ rd.item.n = RowsRead(rp) /\ ~rd.done
    BY <2>1 DEF ChanInv
  <2>3. Received + k + 1 = RowsRead(rp)
    BY <2>1, <2>2 DEF ChanInv
  <2>4. k + 1 \in 0..Len(chan') /\ k + 1 = Len(chan') /\ ~(k + 1 < Len(chan'))
    BY <1>3, <2>2
  <2>5. Received' + (k + 1) = RowsRead(rp) /\ Received' + (k + 1) + 0 = RowsRead(rp)
    BY <1>1, <2>3
  <2>6. ASSUME NEW i \in 1..Len(chan')
        PROVE  i <= k + 1 /\ chan'[i].type = "block" /\ chan'[i].n = Received' + i
    <3>1. CASE i = Len(chan) + 1
      BY <1>1, <1>3, <1>5, <2>2, <2>3, <3>1
    <3>2. CASE i \in 1..Len(chan)
      BY <1>3, <2>2, <3>2 DEF ChanInv
    <3> QED
      BY <1>3, <3>1, <3>2
  <2> HIDE <2>6
  <2>7. ChanInv(rp, k + 1)'
    BY <1>2, <1>4, <2>2, <2>4, <2>5, <2>6 DEF ChanInv, RowsRead
  <2> QED
    BY <2>4, <2>7
<1>6. CASE rd.item.type # "block"
  <2>1. Ended(rp)'
    BY <1>4, <1>6 DEF ChanInv
  <2>2. k \in 0..Len(chan') /\ k < Len(chan') /\ k # Len(chan')
    BY <1>3
  <2>3. ASSUME NEW i \in 1..Len(chan')
        PROVE  IF i <= k THEN chan'[i].type = "block" /\ chan'[i].n = Received' + i
                         ELSE chan'[i].type # "block"
    <3>1. CASE i = Len(chan) + 1
      BY <1>3, <1>6, <3>1
    <3>2. CASE i \in 1..Len(chan)
      BY <1>3, <3>2 DEF ChanInv
    <3> QED
      BY <1>3, <3>1, <3>2
  <2>4. chan'[k + 1].type = "none" => Received' + k = NBlocks
    <3>1. CASE k = Len(chan)
      BY <1>3, <1>4, <3>1 DEF ChanInv
    <3>2. CASE k < Len(chan)
      <4>1. k + 1 \in 1..Len(chan)
        BY <1>3, <3>2
      <4> QED
        BY <1>3, <3>2, <4>1 DEF ChanInv
    <3> QED
      BY <1>3, <3>1, <3>2
  <2> HIDE <2>3
  <2>5. ChanInv(rp, k)'
    BY <1>4, <2>1, <2>2, <2>3, <2>4 DEF ChanInv
  <2> QED
    BY <2>2, <2>5
<1> QED
  BY <1>5, <1>6

\* The steps of the reader that neither read nor send.
LEMMA ChanReader ==
    ASSUME BridgeTypes, PublishInv, NEW rp \in 0..(NBlocks + 2), NEW k \in 0..Len(chan), ChanInv(rp, k),
           ReaderCheck \/ ReaderEof \/ ReaderPublish, ~native.cancel, Received' = Received,
           Ended(rp) => Ended(rp)'
    PROVE  chan' = chan /\ ChanInv(rp, k)'
<1>0. chan \in Seq(Items) /\ Len(chan) \in Nat
  BY Fields
<1>1. CASE ReaderCheck
  <2>1. /\ rd.pc = "check" /\ rd'.done = rd.done /\ chan' = chan
        /\ \/ rd.done /\ rd'.pc = "publish" /\ rd'.item = None
           \/ ~rd.done /\ rd'.pc = "read"
    BY <1>1, ReaderCheckDoes
  <2>2. ~HoldsBlock /\ ~HoldsBlock' /\ ~InHand
    BY <2>1 DEF HoldsBlock, InHand
  <2>3. CASE rd.done
    <3>1. k # Len(chan)
      BY <2>1, <2>3 DEF ChanInv
    <3>2. k < Len(chan)
      BY <1>0, <3>1
    <3>3. Ended(rp)'
      BY <3>2 DEF ChanInv
    <3> QED
      BY <2>1, <2>2, <3>1, <3>3 DEF ChanInv
  <2>4. CASE ~rd.done
    <3>1. rd'.pc = "read" /\ ~InHand'
      BY <2>1, <2>4 DEF InHand
    <3> QED
      BY <2>1, <2>2, <3>1 DEF ChanInv
  <2> QED
    BY <2>3, <2>4
<1>2. CASE ReaderEof
  <2>1. rd.pc = "read" /\ rd'.pc = "read" /\ chan' = chan
    BY <1>2, ReaderEofDoes
  <2>2. ~HoldsBlock /\ ~HoldsBlock' /\ ~InHand /\ ~InHand'
    BY <2>1 DEF HoldsBlock, InHand
  <2> QED
    BY <2>1, <2>2 DEF ChanInv
<1>3. CASE ReaderPublish
  <2>1. rd.pc = "publish" /\ rd'.pc = "send" /\ rd'.item = rd.item /\ chan' = chan
    BY <1>3, ReaderPublishDoes
  <2>2. rd.item.type # "block"
    BY <2>1 DEF PublishInv
  <2>3. ~HoldsBlock /\ ~HoldsBlock' /\ InHand /\ InHand'
    BY <2>1, <2>2 DEF HoldsBlock, InHand
  <2> QED
    BY <2>1, <2>3 DEF ChanInv
<1> QED
  BY <1>1, <1>2, <1>3

\* The reader reads the packet that follows.
LEMMA ChanPacket ==
    ASSUME BridgeTypes, NEW rp \in 0..(NBlocks + 2), NEW k \in 0..Len(chan), Flow(rp), ChanInv(rp, k),
           ReaderPacket, Received' = Received
    PROVE  chan' = chan /\ \E q \in 0..(NBlocks + 2) : Flow(q)' /\ ChanInv(q, k)'
<1>0. chan \in Seq(Items) /\ Len(chan) \in Nat /\ net \in Seq(Packets) /\ NBlocks \in Nat /\ Received \in Nat
  BY Fields, BridgeAssumption, ReceivedTypes
<1>1. rd.pc = "read" /\ net # <<>> /\ chan' = chan /\ UNCHANGED <<closed, shut>>
  BY ReaderPacketDoes
<1>2. ~HoldsBlock /\ ~InHand /\ ~Ended(rp) /\ ~rd.done
  BY <1>1 DEF HoldsBlock, InHand, Ended, Flow
<1>3. k = Len(chan)
  <2>1. ~(k < Len(chan))
    BY <1>2 DEF ChanInv
  <2> QED
    BY <1>0, <2>1
<1>4. Received + k = RowsRead(rp)
  <2>1. Received + k + 0 = RowsRead(rp)
    BY <1>2, <1>3 DEF ChanInv
  <2> QED
    BY <1>0, <2>1
<1>5. \A i \in 1..Len(chan) : i <= k /\ chan[i].type = "block" /\ chan[i].n = Received + i
  BY <1>0, <1>3 DEF ChanInv
<1>6. CASE net[1].type \in Cut /\ Eof /\ net' = <<>> /\ Flow(rp)'
  <2>1. Ended(rp)'
    BY <1>1, <1>6 DEF Ended, Eof
  <2>2. (rd'.pc = "send" /\ rd'.item.type = "err") \/ rd'.pc = "read"
    BY <1>6, ReaderPacketDoes, ItemTypes
  <2>3. ~HoldsBlock' /\ (InHand' => rd'.item.type = "err") /\ rd'.pc # "check"
    BY <2>2 DEF HoldsBlock, InHand
  <2>4. Received + k + 0 = RowsRead(rp) /\ ~(k < Len(chan))
    BY <1>0, <1>3, <1>4
  <2>5. ChanInv(rp, k)'
    BY <1>1, <1>5, <2>1, <2>3, <2>4 DEF ChanInv, RowsRead
  <2> QED
    BY <1>1, <1>6, <2>5
<1>7. CASE net[1].type \notin Cut /\ InPlace(net[1], rp + 1) /\ rp + 1 \in 1..(NBlocks + 2) /\ Flow(rp + 1)'
  <2>1. PICK q \in 1..(NBlocks + 2) : q = rp + 1
    BY <1>7
  <2>2. InPlace(net[1], q) /\ Flow(q)' /\ q \in 0..(NBlocks + 2)
    BY <1>0, <1>7, <2>1
  <2>3. ~(k < Len(chan))
    BY <1>0, <1>3
  <2>4. CASE q = 1
    <3>1. rd'.pc = "check" /\ ~rd'.done
      BY <1>2, <2>2, <2>4, ReaderPacketDoes DEF InPlace
    <3>2. ~HoldsBlock' /\ ~InHand'
      BY <3>1 DEF HoldsBlock, InHand
    <3>3. Received + k + 0 = RowsRead(q)
      BY <1>0, <1>4, <2>1, <2>4 DEF RowsRead
    <3>4. ChanInv(q, k)'
      BY <1>1, <1>5, <2>3, <3>1, <3>2, <3>3 DEF ChanInv, RowsRead
    <3> QED
      BY <1>1, <2>2, <3>4
  <2>5. CASE q \in 2..(NBlocks + 1)
    <3>1. net[1].type = "block" /\ net[1].n = q - 1
      BY <2>2, <2>5 DEF InPlace
    <3>2. rd'.pc = "send" /\ rd'.item.type = "block" /\ rd'.item.n = q - 1 /\ ~rd'.done
      BY <1>2, <3>1, ReaderPacketDoes
    <3>3. HoldsBlock'
      BY <3>2 DEF HoldsBlock
    <3>4. Received + k + 1 = RowsRead(q) /\ q - 1 = RowsRead(q)
      BY <1>0, <1>4, <2>1, <2>5 DEF RowsRead
    <3>5. ChanInv(q, k)'
      BY <1>1, <1>3, <1>5, <2>3, <3>2, <3>3, <3>4, Zenon DEF ChanInv, RowsRead
    <3> QED
      BY <1>1, <2>2, <3>5
  <2>6. CASE q = NBlocks + 2
    <3>1. net[1].type \in {"eos", "exc"}
      BY <2>2, <2>6 DEF InPlace
    <3>2. rd'.pc = "publish" /\ rd'.item.type # "block"
      BY <3>1, ReaderPacketDoes, ItemTypes
    <3>3. ~HoldsBlock' /\ InHand'
      BY <3>2 DEF HoldsBlock, InHand
    <3>4. Received + k + 0 = RowsRead(q) /\ Received + k = NBlocks
      BY <1>0, <1>4, <2>1, <2>6 DEF RowsRead
    <3>5. Ended(q)'
      <4>1. net' \in Seq(Packets)
        BY <1>0, <1>1, HeadAndTail, ReaderPacketDoes, SMTT(60)
      <4>2. q + Len(net') <= NBlocks + 2
        BY <2>2 DEF Flow
      <4>3. Len(net') = 0
        BY <1>0, <2>6, <4>1, <4>2
      <4> QED
        BY <2>6, <4>1, <4>3 DEF Ended
    <3>6. ChanInv(q, k)'
      BY <1>1, <1>5, <2>3, <3>2, <3>3, <3>4, <3>5 DEF ChanInv, RowsRead
    <3> QED
      BY <1>1, <2>2, <3>6
  <2> QED
    BY <1>0, <2>1, <2>4, <2>5, <2>6
<1> QED
  BY <1>6, <1>7, FlowPacket

LEMMA ChanSteps ==
    ASSUME BridgeTypes, PublishInv, StopInv, SlotInv, rd.pc # "off", Receiving, Receiving',
           NEW rp \in 0..(NBlocks + 2), NEW k \in 0..Len(chan), Flow(rp), ChanInv(rp, k), Next, ~ReaderPacket,
           ~astray'
    PROVE  \E j \in 0..Len(chan') : ChanInv(rp, j)'
<1>0. Ended(rp) => Ended(rp)'
  BY EndedKept
<1>1. CASE StartStream
  BY <1>1, StartStreamDoes
<1>2. CASE StartFails \/ CancelStart
  BY <1>2, StartEndsDoes DEF SlotInv
<1>3. CASE ServerSends \/ ServerCloses
  <2>1. UNCHANGED <<chan, rd>> /\ Received' = Received
    BY <1>3, ServerDoes, ZenonT(60) DEF Received
  <2>2. ChanInv(rp, k)'
    BY <1>0, <2>1, ChanSame
  <2> QED
    BY <2>1, <2>2
<1>4. CASE ReaderCheck
  <2>1. Received' = Received
    BY <1>4, ReaderCheckDoes DEF Received
  <2>2. chan' = chan /\ ChanInv(rp, k)'
    BY <1>4, <1>0, <2>1, ReceivingRuns, ChanReader
  <2> QED
    BY <2>2
<1>5. CASE ReaderPacket
  BY <1>5
<1>6. CASE ReaderEof
  <2>1. Received' = Received
    BY <1>6, ReaderEofDoes DEF Received
  <2>2. chan' = chan /\ ChanInv(rp, k)'
    BY <1>6, <1>0, <2>1, ReceivingRuns, ChanReader
  <2> QED
    BY <2>2
<1>7. CASE ReaderPublish
  <2>1. Received' = Received
    BY <1>7, ReaderPublishDoes DEF Received
  <2>2. chan' = chan /\ ChanInv(rp, k)'
    BY <1>7, <1>0, <2>1, ReceivingRuns, ChanReader
  <2> QED
    BY <2>2
<1>8. CASE ReaderSend
  <2>1. Received' = Received
    BY <1>8, ReaderSendDoes DEF Received
  <2> QED
    BY <1>8, <1>0, <2>1, ReceivingRuns, ChanSend
<1>9. CASE StreamDropped
  <2>1. native'.dropped /\ UNCHANGED <<kind, gen, fw>> /\ gen.pc = "over" /\ fw.pc \in {"off", "done"}
    BY <1>9, StreamDroppedDoes
  <2> QED
    BY <2>1 DEF Receiving
<1>10. CASE ForwarderNext
  <2>1. PICK item \in Items :
           /\ \/ chan # <<>> /\ item = chan[1] /\ chan' = Tail(chan)
              \/ native.finished
           /\ item.type = "block" => fw'.val = item
           /\ item.type \in {"none", "err"} => fw'.pc = "fin"
    BY <1>10, ForwarderNextDoes
  <2>2. fw.pc = "next" /\ UNCHANGED <<kind, rd>>
    BY <1>10, ForwarderNextDoes
  <2>3. kind = "async"
    BY <2>2, Fields DEF SlotInv
  <2>4. fw'.pc # "fin"
    BY <2>2, <2>3 DEF Receiving
  <2>5. item.type = "block"
    BY <2>1, <2>4 DEF Items
  <2>6. chan # <<>> /\ chan[1].type = "block" /\ chan' = Tail(chan) /\ fw'.val = chan[1]
    BY <2>1, <2>5, ReceivingRuns
  <2>7. Received' = Received + 1
    BY <2>2, <2>3, <2>6, FirstItem DEF Received
  <2>8. k - 1 \in 0..Len(chan') /\ ChanInv(rp, k - 1)'
    BY <1>0, <2>2, <2>6, <2>7, ChanTail
  <2> QED
    BY <2>8
<1>11. CASE ForwarderWait \/ ForwarderTimeout \/ ForwarderEnds
  <2>1. UNCHANGED <<chan, rd>> /\ Received' = Received
    BY <1>11, ForwarderMoves DEF Received
  <2>2. ChanInv(rp, k)'
    BY <1>0, <2>1, ChanSame
  <2> QED
    BY <2>1, <2>2
<1>12. CASE ForwarderPut
  <2>1. UNCHANGED <<chan, rd>> /\ Received' = Received
    BY <1>12, ForwarderPutDoes DEF Received
  <2>2. ChanInv(rp, k)'
    BY <1>0, <2>1, ChanSame
  <2> QED
    BY <2>1, <2>2
<1>13. CASE ForwarderSentinel
  <2>1. UNCHANGED <<chan, rd>> /\ Received' = Received
    BY <1>13, ForwarderSentinelDoes DEF Received
  <2>2. ChanInv(rp, k)'
    BY <1>0, <2>1, ChanSame
  <2> QED
    BY <2>1, <2>2
<1>14. CASE ForwarderRelease
  <2>1. UNCHANGED <<chan, rd>> /\ Received' = Received
    BY <1>14, ForwarderReleaseDoes DEF Received
  <2>2. ChanInv(rp, k)'
    BY <1>0, <2>1, ChanSame
  <2> QED
    BY <2>1, <2>2
<1>15. CASE RunPut
  <2>1. UNCHANGED <<chan, rd>> /\ Received' = Received
    BY <1>15, RunPutDoes DEF Received
  <2>2. ChanInv(rp, k)'
    BY <1>0, <2>1, ChanSame
  <2> QED
    BY <2>1, <2>2
<1>16. CASE GeneratorGet
  <2>1. UNCHANGED <<chan, rd>> /\ Received' = Received
    BY <1>16, GeneratorGetDoes DEF Received
  <2>2. ChanInv(rp, k)'
    BY <1>0, <2>1, ChanSame
  <2> QED
    BY <2>1, <2>2
<1>17. CASE IteratorNext
  <2>1. PICK item \in Items :
           /\ \/ chan # <<>> /\ item = chan[1] /\ chan' = Tail(chan)
              \/ native.finished
           /\ item.type = "block" => gen'.yielded = Append(gen.yielded, item.n)
           /\ item.type # "block" => gen'.pc = "over"
    BY <1>17, IteratorNextDoes
  <2>2. kind = "sync" /\ UNCHANGED <<kind, rd>>
    BY <1>17, IteratorNextDoes
  <2>3. gen'.pc # "over"
    BY <2>2 DEF Receiving
  <2>4. /\ chan # <<>> /\ chan[1].type = "block" /\ chan' = Tail(chan)
        /\ gen'.yielded = Append(gen.yielded, chan[1].n)
    BY <2>1, <2>3, ReceivingRuns
  <2>5. Len(gen'.yielded) = Len(gen.yielded) + 1
    <3>1. gen.yielded \in Seq(Nat)
      BY Fields
    <3> QED
      BY <2>4, <3>1
  <2>6. Received' = Received + 1
    BY <2>2, <2>5 DEF Received
  <2>7. k - 1 \in 0..Len(chan') /\ ChanInv(rp, k - 1)'
    BY <1>0, <2>2, <2>4, <2>6, ChanTail
  <2> QED
    BY <2>7
<1>18. CASE GeneratorResumes \/ Leave
  <2>1. UNCHANGED <<chan, rd>> /\ Received' = Received
    BY <1>18, GeneratorMoves DEF Received
  <2>2. ChanInv(rp, k)'
    BY <1>0, <2>1, ChanSame
  <2> QED
    BY <2>1, <2>2
<1>19. CASE Abandon
  <2>1. UNCHANGED <<chan, rd>> /\ Received' = Received
    BY <1>19, AbandonDoes DEF Received
  <2>2. ChanInv(rp, k)'
    BY <1>0, <2>1, ChanSame
  <2> QED
    BY <2>1, <2>2
<1>20. CASE Kill
  <2>1. UNCHANGED <<chan, rd>> /\ Received' = Received
    BY <1>20, KillDoes DEF Received
  <2>2. ChanInv(rp, k)'
    BY <1>0, <2>1, ChanSame
  <2> QED
    BY <2>1, <2>2
<1>21. CASE ReaderFails
  BY <1>21, ReaderFailsDoes
<1>22. CASE ReaderStray
  BY <1>22, ReaderStrayDoes
<1> QED
  BY <1>1, <1>2, <1>3, <1>4, <1>5, <1>6, <1>7, <1>8, <1>9, <1>10, <1>11, <1>12, <1>13,
     <1>14, <1>15, <1>16, <1>17, <1>18, <1>19, <1>20, <1>21, <1>22, SMTT(60)
     DEF Next, Reader, Forwarder, Consumer

-----------------------------------------------------------------------------
\* Behind an error on an open connection

\* The error joins the channel behind the blocks that were read before it.
LEMMA AstrayBegins ==
    ASSUME BridgeTypes, NEW rp \in 0..(NBlocks + 2), NEW k \in 0..Len(chan), Flow(rp), ChanInv(rp, k),
           ReaderFails
    PROVE  k \in 0..Len(chan') /\ AstrayChan(k)'
<1>1. /\ rd'.pc = "send" /\ rd'.item = Err /\ UNCHANGED <<kind, chan, gen, fw>>
      /\ net # <<>> \/ (left # <<>> /\ ~Eof)
  BY ReaderFailsDoes
<1>2. Received' = Received /\ Len(chan) \in Nat
  BY <1>1, Fields DEF Received
<1>3. ~Ended(rp)
  BY <1>1, NoCut DEF Ended
<1>4. k = Len(chan)
  <2>1. ~(k < Len(chan))
    BY <1>3 DEF ChanInv
  <2> QED
    BY <1>2, <2>1
<1>5. \A i \in 1..k : chan[i].type = "block" /\ chan[i].n = Received + i
  BY <1>2, <1>4 DEF ChanInv
<1> QED
  BY <1>1, <1>2, <1>4, <1>5, ItemTypes DEF AstrayChan

LEMMA AstrayFirst ==
    ASSUME BridgeTypes, NEW k \in 0..Len(chan), AstrayChan(k), chan # <<>>
    PROVE  /\ chan[1].type = "block" => k >= 1 /\ chan[1].n = Received + 1
           /\ chan[1].type # "none"
<1>1. chan \in Seq(Items) /\ Len(chan) \in Nat \ {0}
  BY Fields
<1>2. CASE k = 0
  BY <1>1, <1>2 DEF AstrayChan
<1>3. CASE k >= 1
  BY <1>1, <1>3 DEF AstrayChan
<1> QED
  BY <1>1, <1>2, <1>3

\* The consumer takes a block from in front of the error.
LEMMA AstrayTail ==
    ASSUME BridgeTypes, NEW k \in 0..Len(chan), AstrayChan(k), chan # <<>>,
           chan[1].type = "block", chan' = Tail(chan), rd' = rd, Received' = Received + 1
    PROVE  k - 1 \in 0..Len(chan') /\ AstrayChan(k - 1)'
<1>1. chan \in Seq(Items) /\ Received \in Nat
  BY Fields, ReceivedTypes
<1>2. /\ Len(chan) \in Nat \ {0} /\ Len(chan') = Len(chan) - 1
      /\ \A i \in 1..(Len(chan) - 1) : chan'[i] = chan[i + 1]
  BY <1>1, HeadAndTail
<1>3. k >= 1
  BY AstrayFirst
<1>4. k - 1 \in 0..Len(chan') /\ (k - 1 < Len(chan') <=> k < Len(chan)) /\ (k - 1 = Len(chan') <=> k = Len(chan))
  BY <1>2, <1>3
<1>5. ASSUME NEW i \in 1..(k - 1)
      PROVE  chan'[i].type = "block" /\ chan'[i].n = Received' + i
  <2>1. i + 1 \in 1..k /\ chan'[i] = chan[i + 1] /\ Received' + i = Received + (i + 1)
    BY <1>1, <1>2
  <2> QED
    BY <2>1 DEF AstrayChan
<1>6. k < Len(chan) => chan'[(k - 1) + 1].type = "err"
  <2> SUFFICES ASSUME k < Len(chan) PROVE chan'[(k - 1) + 1].type = "err"
    OBVIOUS
  <2>1. (k - 1) + 1 = k /\ k \in 1..(Len(chan) - 1) /\ chan'[k] = chan[k + 1]
    BY <1>1, <1>2, <1>3
  <2> QED
    BY <2>1 DEF AstrayChan
<1>7. k = Len(chan) => rd'.pc = "send" /\ rd'.item.type = "err"
  BY DEF AstrayChan
<1> HIDE <1>5
<1> QED
  BY <1>4, <1>5, <1>6, <1>7 DEF AstrayChan

LEMMA AstraySend ==
    ASSUME BridgeTypes, NEW k \in 0..Len(chan), AstrayChan(k), ReaderSend, ~native.dropped,
           Received' = Received
    PROVE  k \in 0..Len(chan') /\ AstrayChan(k)'
<1>1. chan \in Seq(Items) /\ rd.item \in Items /\ Len(chan) \in Nat
  BY Fields
<1>2. chan' = Append(chan, rd.item)
  BY ReaderSendDoes
<1>3. /\ Len(chan') = Len(chan) + 1 /\ chan'[Len(chan) + 1] = rd.item
      /\ \A i \in 1..Len(chan) : chan'[i] = chan[i]
  BY <1>1, <1>2
<1>4. \A i \in 1..k : chan'[i].type = "block" /\ chan'[i].n = Received' + i
  BY <1>1, <1>3 DEF AstrayChan
<1>5. chan'[k + 1].type = "err"
  <2>1. CASE k = Len(chan)
    BY <1>3, <2>1 DEF AstrayChan
  <2>2. CASE k < Len(chan)
    <3>1. k + 1 \in 1..Len(chan)
      BY <1>1, <2>2
    <3> QED
      BY <1>3, <2>2, <3>1 DEF AstrayChan
  <2> QED
    BY <1>1, <2>1, <2>2
<1>6. k \in 0..Len(chan') /\ k # Len(chan')
  BY <1>1, <1>3
<1> QED
  BY <1>4, <1>5, <1>6 DEF AstrayChan

\* The steps that leave the channel alone, the reader's too once the error is sent.
LEMMA AstraySame ==
    ASSUME NEW k \in 0..Len(chan), AstrayChan(k), chan' = chan, Received' = Received,
           rd' = rd \/ rd.pc # "send"
    PROVE  k \in 0..Len(chan') /\ AstrayChan(k)'
BY DEF AstrayChan

LEMMA AstraySteps ==
    ASSUME BridgeTypes, StopInv, SlotInv, rd.pc # "off", Receiving, Receiving', astray,
           NEW k \in 0..Len(chan), AstrayChan(k), Next
    PROVE  \E j \in 0..Len(chan') : AstrayChan(j)'
<1>1. CASE StartStream
  BY <1>1, StartStreamDoes
<1>2. CASE StartFails \/ CancelStart
  BY <1>2, StartEndsDoes DEF SlotInv
<1>3. CASE ServerSends \/ ServerCloses
  <2>1. UNCHANGED <<chan, rd>> /\ Received' = Received
    BY <1>3, ServerDoes, ZenonT(60) DEF Received
  <2> QED
    BY <2>1, AstraySame
<1>4. CASE ReaderCheck
  <2>1. chan' = chan /\ Received' = Received /\ rd.pc # "send"
    BY <1>4, ReaderCheckDoes DEF Received
  <2> QED
    BY <2>1, AstraySame
<1>5. CASE ReaderPacket
  BY <1>5 DEF ReaderPacket
<1>6. CASE ReaderEof
  <2>1. chan' = chan /\ Received' = Received /\ rd.pc # "send"
    BY <1>6, ReaderEofDoes DEF Received
  <2> QED
    BY <2>1, AstraySame
<1>7. CASE ReaderPublish
  <2>1. chan' = chan /\ Received' = Received /\ rd.pc # "send"
    BY <1>7, ReaderPublishDoes DEF Received
  <2> QED
    BY <2>1, AstraySame
<1>8. CASE ReaderSend
  <2>1. Received' = Received
    BY <1>8, ReaderSendDoes DEF Received
  <2> QED
    BY <1>8, <2>1, ReceivingRuns, AstraySend
<1>9. CASE StreamDropped
  <2>1. native'.dropped /\ UNCHANGED <<kind, gen, fw>> /\ gen.pc = "over" /\ fw.pc \in {"off", "done"}
    BY <1>9, StreamDroppedDoes
  <2> QED
    BY <2>1 DEF Receiving
<1>10. CASE ForwarderNext
  <2>1. PICK item \in Items :
           /\ \/ chan # <<>> /\ item = chan[1] /\ chan' = Tail(chan)
              \/ native.finished
           /\ item.type = "block" => fw'.val = item
           /\ item.type \in {"none", "err"} => fw'.pc = "fin"
    BY <1>10, ForwarderNextDoes
  <2>2. fw.pc = "next" /\ UNCHANGED <<kind, rd>>
    BY <1>10, ForwarderNextDoes
  <2>3. kind = "async"
    BY <2>2, Fields DEF SlotInv
  <2>4. fw'.pc # "fin"
    BY <2>2, <2>3 DEF Receiving
  <2>5. item.type = "block"
    BY <2>1, <2>4 DEF Items
  <2>6. chan # <<>> /\ chan[1].type = "block" /\ chan' = Tail(chan) /\ fw'.val = chan[1]
    BY <2>1, <2>5, ReceivingRuns
  <2>7. Received' = Received + 1
    BY <2>2, <2>3, <2>6, AstrayFirst DEF Received
  <2>8. k - 1 \in 0..Len(chan') /\ AstrayChan(k - 1)'
    BY <2>2, <2>6, <2>7, AstrayTail
  <2> QED
    BY <2>8
<1>11. CASE ForwarderWait \/ ForwarderTimeout \/ ForwarderEnds
  <2>1. UNCHANGED <<chan, rd>> /\ Received' = Received
    BY <1>11, ForwarderMoves DEF Received
  <2> QED
    BY <2>1, AstraySame
<1>12. CASE ForwarderPut
  <2>1. UNCHANGED <<chan, rd>> /\ Received' = Received
    BY <1>12, ForwarderPutDoes DEF Received
  <2> QED
    BY <2>1, AstraySame
<1>13. CASE ForwarderSentinel
  <2>1. UNCHANGED <<chan, rd>> /\ Received' = Received
    BY <1>13, ForwarderSentinelDoes DEF Received
  <2> QED
    BY <2>1, AstraySame
<1>14. CASE ForwarderRelease
  <2>1. UNCHANGED <<chan, rd>> /\ Received' = Received
    BY <1>14, ForwarderReleaseDoes DEF Received
  <2> QED
    BY <2>1, AstraySame
<1>15. CASE RunPut
  <2>1. UNCHANGED <<chan, rd>> /\ Received' = Received
    BY <1>15, RunPutDoes DEF Received
  <2> QED
    BY <2>1, AstraySame
<1>16. CASE GeneratorGet
  <2>1. UNCHANGED <<chan, rd>> /\ Received' = Received
    BY <1>16, GeneratorGetDoes DEF Received
  <2> QED
    BY <2>1, AstraySame
<1>17. CASE IteratorNext
  <2>1. PICK item \in Items :
           /\ \/ chan # <<>> /\ item = chan[1] /\ chan' = Tail(chan)
              \/ native.finished
           /\ item.type = "block" => gen'.yielded = Append(gen.yielded, item.n)
           /\ item.type # "block" => gen'.pc = "over"
    BY <1>17, IteratorNextDoes
  <2>2. kind = "sync" /\ UNCHANGED <<kind, rd>>
    BY <1>17, IteratorNextDoes
  <2>3. gen'.pc # "over"
    BY <2>2 DEF Receiving
  <2>4. /\ chan # <<>> /\ chan[1].type = "block" /\ chan' = Tail(chan)
        /\ gen'.yielded = Append(gen.yielded, chan[1].n)
    BY <2>1, <2>3, ReceivingRuns
  <2>5. Len(gen'.yielded) = Len(gen.yielded) + 1
    <3>1. gen.yielded \in Seq(Nat)
      BY Fields
    <3> QED
      BY <2>4, <3>1
  <2>6. Received' = Received + 1
    BY <2>2, <2>5 DEF Received
  <2>7. k - 1 \in 0..Len(chan') /\ AstrayChan(k - 1)'
    BY <2>2, <2>4, <2>6, AstrayTail
  <2> QED
    BY <2>7
<1>18. CASE GeneratorResumes \/ Leave
  <2>1. UNCHANGED <<chan, rd>> /\ Received' = Received
    BY <1>18, GeneratorMoves DEF Received
  <2> QED
    BY <2>1, AstraySame
<1>19. CASE Abandon
  <2>1. UNCHANGED <<chan, rd>> /\ Received' = Received
    BY <1>19, AbandonDoes DEF Received
  <2> QED
    BY <2>1, AstraySame
<1>20. CASE Kill
  <2>1. UNCHANGED <<chan, rd>> /\ Received' = Received
    BY <1>20, KillDoes DEF Received
  <2> QED
    BY <2>1, AstraySame
<1>21. CASE ReaderFails
  BY <1>21, ReaderFailsDoes
<1>22. CASE ReaderStray
  <2>1. chan' = chan /\ Received' = Received /\ rd.pc # "send"
    BY <1>22, ReaderStrayDoes DEF Received
  <2> QED
    BY <2>1, AstraySame
<1> QED
  BY <1>1, <1>2, <1>3, <1>4, <1>5, <1>6, <1>7, <1>8, <1>9, <1>10, <1>11, <1>12, <1>13,
     <1>14, <1>15, <1>16, <1>17, <1>18, <1>19, <1>20, <1>21, <1>22, SMTT(60)
     DEF Next, Reader, Forwarder, Consumer

\* What the receiver finds in front of the channel, in either case.
LEMMA PipeFirst ==
    ASSUME BridgeTypes, PipeInv, rd.pc # "off", Receiving, chan # <<>>
    PROVE  /\ chan[1].type = "block" => chan[1].n = Received + 1
           /\ chan[1].type = "none" => Received = NBlocks
<1>1. CASE astray
  <2>1. PICK k \in 0..Len(chan) : AstrayChan(k)
    BY <1>1 DEF PipeInv
  <2> QED
    BY <2>1, AstrayFirst
<1>2. CASE ~astray
  <2>1. PICK rp \in 0..(NBlocks + 2), k \in 0..Len(chan) : ChanInv(rp, k)
    BY <1>2 DEF PipeInv
  <2> QED
    BY <2>1, FirstItem
<1> QED
  BY <1>1, <1>2

\* Only a failing read leaves the packets.
LEMMA AstrayAfter ==
    ASSUME BridgeTypes, Next, ~astray, astray'
    PROVE  ReaderFails
<1>1. CASE StartStream
  BY <1>1, StartStreamDoes
<1>2. CASE StartFails \/ CancelStart
  BY <1>2, StartEndsDoes
<1>3. CASE ServerSends \/ ServerCloses
  BY <1>3 DEF ServerSends, ServerCloses
<1>4. CASE ReaderCheck
  BY <1>4, ReaderCheckDoes
<1>5. CASE ReaderPacket
  BY <1>5, ReaderPacketDoes
<1>6. CASE ReaderEof
  BY <1>6, ReaderEofDoes
<1>7. CASE ReaderPublish
  BY <1>7, ReaderPublishDoes
<1>8. CASE ReaderSend
  BY <1>8, ReaderSendDoes
<1>9. CASE StreamDropped
  BY <1>9, StreamDroppedDoes
<1>10. CASE ForwarderNext
  BY <1>10, ForwarderNextDoes
<1>11. CASE ForwarderWait \/ ForwarderTimeout \/ ForwarderEnds
  BY <1>11, ForwarderMoves
<1>12. CASE ForwarderPut
  BY <1>12, ForwarderPutDoes
<1>13. CASE ForwarderSentinel
  BY <1>13, ForwarderSentinelDoes
<1>14. CASE ForwarderRelease
  BY <1>14, ForwarderReleaseDoes
<1>15. CASE RunPut
  BY <1>15, RunPutDoes
<1>16. CASE GeneratorGet
  BY <1>16, GeneratorGetDoes
<1>17. CASE IteratorNext
  BY <1>17, IteratorNextDoes
<1>18. CASE GeneratorResumes \/ Leave
  BY <1>18, GeneratorMoves
<1>19. CASE Abandon
  BY <1>19, AbandonDoes
<1>20. CASE Kill
  BY <1>20, KillDoes
<1>21. CASE ReaderStray
  BY <1>21, ReaderStrayDoes
<1> QED
  BY <1>1, <1>2, <1>3, <1>4, <1>5, <1>6, <1>7, <1>8, <1>9, <1>10, <1>11, <1>12, <1>13,
     <1>14, <1>15, <1>16, <1>17, <1>18, <1>19, <1>20, <1>21, SMTT(60)
     DEF Next, Reader, Forwarder, Consumer

LEMMA PipeKept ==
    ASSUME BridgeTypes, OffInv, ~astray => PublishInv, StopInv, SlotInv, FreshInv, PipeInv, Next
    PROVE  PipeInv'
<1>1. CASE StartStream /\ Receiving'
  <2>1. /\ chan' = chan /\ rd'.pc = "check" /\ rd'.done = rd.done /\ kind' = kind
        /\ gen'.yielded = gen.yielded /\ fw'.val = fw.val
    BY <1>1, StartStreamDoes
  <2>2. chan = <<>> /\ ~rd.done /\ gen.pc \in {"starting", "over"}
    BY <1>1, StartStreamDoes DEF OffInv
  <2>3. gen.pc = "starting"
    <3>1. ASSUME gen.pc # "starting" PROVE FALSE
      <4>1. gen.pc = "over" /\ gen'.pc = "over" /\ fw'.pc = fw.pc
        BY <1>1, <2>2, <3>1, StartStreamDoes
      <4>2. kind = "async" /\ fw.pc \in {"next", "put", "wait"}
        BY <1>1, <2>1, <4>1, Fields DEF Receiving
      <4> QED
        BY <1>1, <4>2, StartStreamDoes DEF OffInv
    <3> QED
      BY <3>1
  <2>4. gen.yielded = <<>> /\ fw.val.n = 0
    BY <2>3, ItemTypes DEF FreshInv
  <2>5. Received' = 0
    BY <2>1, <2>4 DEF Received
  <2>6. Len(chan') = 0 /\ ~InHand' /\ ~HoldsBlock' /\ 0 \in 0..Len(chan')
    BY <2>1, <2>2 DEF InHand, HoldsBlock
  <2>7. Received' + 0 + 0 = RowsRead(0)
    BY <2>5 DEF RowsRead
  <2>8. ChanInv(0, 0)'
    BY <2>1, <2>2, <2>6, <2>7 DEF ChanInv, RowsRead
  <2>9. Flow(0)' /\ 0 \in 0..(NBlocks + 2)
    BY <1>1, FlowStart, BridgeAssumption
  <2>10. ~astray'
    BY <1>1, StartStreamDoes DEF OffInv
  <2> QED
    BY <2>6, <2>8, <2>9, <2>10 DEF PipeInv
<1>2. CASE ~StartStream /\ rd.pc = "off"
  <2>1. rd' = rd
    BY <1>2, OffStays
  <2> QED
    BY <1>2, <2>1 DEF PipeInv
<1>3. CASE rd.pc # "off" /\ Receiving' /\ ~astray'
  <2>0. ~astray
    BY <1>3, AstrayBefore
  <2>1. Receiving
    BY <1>3, ReceivingBefore
  <2>2. PICK rp \in 0..(NBlocks + 2), k \in 0..Len(chan) : Flow(rp) /\ ChanInv(rp, k)
    BY <1>3, <2>0, <2>1 DEF PipeInv
  <2>3. CASE ReaderPacket
    <3>1. Received' = Received
      BY <2>3, ReaderPacketDoes DEF Received
    <3>2. chan' = chan /\ \E q \in 0..(NBlocks + 2) : Flow(q)' /\ ChanInv(q, k)'
      BY <2>2, <2>3, <3>1, ChanPacket
    <3> QED
      BY <1>3, <3>2 DEF PipeInv
  <2>4. CASE ~ReaderPacket
    <3>1. Flow(rp)'
      BY <1>3, <2>2, <2>4, FlowSteady
    <3>2. \E j \in 0..Len(chan') : ChanInv(rp, j)'
      BY <1>3, <2>0, <2>1, <2>2, <2>4, ChanSteps
    <3> QED
      BY <1>3, <3>1, <3>2 DEF PipeInv
  <2> QED
    BY <2>3, <2>4
<1>5. CASE rd.pc # "off" /\ Receiving' /\ astray'
  <2>1. Receiving
    BY <1>5, ReceivingBefore
  <2>2. CASE astray
    <3>1. PICK k \in 0..Len(chan) : AstrayChan(k)
      BY <1>5, <2>1, <2>2 DEF PipeInv
    <3>2. \E j \in 0..Len(chan') : AstrayChan(j)'
      BY <1>5, <2>1, <2>2, <3>1, AstraySteps
    <3> QED
      BY <1>5, <3>2 DEF PipeInv
  <2>3. CASE ~astray
    <3>1. ReaderFails
      BY <1>5, <2>3, AstrayAfter
    <3>2. PICK rp \in 0..(NBlocks + 2), k \in 0..Len(chan) : Flow(rp) /\ ChanInv(rp, k)
      BY <1>5, <2>1, <2>3 DEF PipeInv
    <3>3. k \in 0..Len(chan') /\ AstrayChan(k)'
      BY <3>1, <3>2, AstrayBegins
    <3> QED
      BY <1>5, <3>3 DEF PipeInv
  <2> QED
    BY <2>2, <2>3
<1>4. CASE ~Receiving'
  BY <1>4 DEF PipeInv
<1> QED
  BY <1>1, <1>2, <1>3, <1>4, <1>5, StartStreamDoes

-----------------------------------------------------------------------------
\* From the channel to the application

LEMMA FreshKept ==
    ASSUME BridgeTypes, SlotInv, FreshInv, Next
    PROVE  FreshInv'
<1>1. CASE StartStream
  <2>1. gen'.pc # "starting"
    BY <1>1, StartStreamDoes
  <2> QED
    BY <2>1 DEF FreshInv
<1>2. CASE StartFails \/ CancelStart
  <2>1. gen'.pc # "starting"
    BY <1>2, StartEndsDoes
  <2> QED
    BY <2>1 DEF FreshInv
<1>3. CASE ServerSends \/ ServerCloses
  <2>1. UNCHANGED <<gen, fw, queue, ready, putters>>
    BY <1>3, ServerDoes, ZenonT(60)
  <2> QED
    BY <2>1 DEF FreshInv
<1>4. CASE ReaderCheck
  <2>1. UNCHANGED <<gen, fw, queue, ready, putters>>
    BY <1>4, ReaderCheckDoes
  <2> QED
    BY <2>1 DEF FreshInv
<1>5. CASE ReaderPacket
  <2>1. UNCHANGED <<gen, fw, queue, ready, putters>>
    BY <1>5, ReaderPacketDoes
  <2> QED
    BY <2>1 DEF FreshInv
<1>6. CASE ReaderEof
  <2>1. UNCHANGED <<gen, fw, queue, ready, putters>>
    BY <1>6, ReaderEofDoes
  <2> QED
    BY <2>1 DEF FreshInv
<1>7. CASE ReaderPublish
  <2>1. UNCHANGED <<gen, fw, queue, ready, putters>>
    BY <1>7, ReaderPublishDoes
  <2> QED
    BY <2>1 DEF FreshInv
<1>8. CASE ReaderSend
  <2>1. UNCHANGED <<gen, fw, queue, ready, putters>>
    BY <1>8, ReaderSendDoes
  <2> QED
    BY <2>1 DEF FreshInv
<1>9. CASE StreamDropped
  <2>1. UNCHANGED <<gen, fw, queue, ready, putters>>
    BY <1>9, StreamDroppedDoes
  <2> QED
    BY <2>1 DEF FreshInv
<1>10. CASE ForwarderNext
  <2>1. fw.pc = "next" /\ gen' = gen
    BY <1>10, ForwarderNextDoes
  <2> QED
    BY <2>1 DEF FreshInv, SlotInv
<1>11. CASE ForwarderWait \/ ForwarderTimeout \/ ForwarderEnds
  <2>1. fw.pc \in {"wait", "finwait"} /\ gen' = gen
    BY <1>11, ForwarderMoves
  <2> QED
    BY <2>1 DEF FreshInv, SlotInv
<1>12. CASE ForwarderPut
  <2>1. fw.pc = "put" /\ gen' = gen
    BY <1>12, ForwarderPutDoes
  <2> QED
    BY <2>1 DEF FreshInv, SlotInv
<1>13. CASE ForwarderSentinel
  <2>1. fw.pc = "fin" /\ gen' = gen
    BY <1>13, ForwarderSentinelDoes
  <2> QED
    BY <2>1 DEF FreshInv, SlotInv
<1>14. CASE ForwarderRelease
  <2>1. fw.pc = "release" /\ gen' = gen
    BY <1>14, ForwarderReleaseDoes
  <2> QED
    BY <2>1 DEF FreshInv, SlotInv
<1>15. CASE RunPut
  <2>1. ready # <<>> /\ gen' = gen
    BY <1>15, RunPutDoes
  <2> QED
    BY <2>1 DEF FreshInv
<1>16. CASE GeneratorGet
  <2>1. gen'.pc # "starting"
    BY <1>16, GeneratorGetDoes
  <2> QED
    BY <2>1 DEF FreshInv
<1>17. CASE IteratorNext
  <2>1. gen'.pc \in {"yield", "over"}
    BY <1>17, IteratorNextDoes
  <2> QED
    BY <2>1 DEF FreshInv
<1>18. CASE GeneratorResumes \/ Leave
  <2>1. gen'.pc # "starting"
    BY <1>18, GeneratorMoves
  <2> QED
    BY <2>1 DEF FreshInv
<1>19. CASE Abandon
  <2>1. gen'.pc # "starting"
    BY <1>19, AbandonDoes
  <2> QED
    BY <2>1 DEF FreshInv
<1>20. CASE Kill
  <2>1. gen'.pc # "starting"
    BY <1>20, KillDoes
  <2> QED
    BY <2>1 DEF FreshInv
<1>21. CASE ReaderFails
  <2>1. UNCHANGED <<gen, fw, queue, ready, putters>>
    BY <1>21, ReaderFailsDoes
  <2> QED
    BY <2>1 DEF FreshInv
<1>22. CASE ReaderStray
  <2>1. UNCHANGED <<gen, fw, queue, ready, putters>>
    BY <1>22, ReaderStrayDoes
  <2> QED
    BY <2>1 DEF FreshInv
<1> QED
  BY <1>1, <1>2, <1>3, <1>4, <1>5, <1>6, <1>7, <1>8, <1>9, <1>10, <1>11, <1>12, <1>13,
     <1>14, <1>15, <1>16, <1>17, <1>18, <1>19, <1>20, <1>21, <1>22, SMTT(60)
     DEF Next, Reader, Forwarder, Consumer

\* The iterator takes the next block, or the end behind the last one.
LEMMA IteratorTakes ==
    ASSUME BridgeTypes, OffInv, StopInv, PipeInv, IteratorNext
    PROVE  \/ /\ gen'.pc = "yield" /\ gen'.end = gen.end
              /\ gen'.yielded = Append(gen.yielded, Len(gen.yielded) + 1)
           \/ /\ gen'.pc = "over" /\ gen'.yielded = gen.yielded
              /\ gen'.end = "none" => Len(gen.yielded) = NBlocks
<1>1. kind = "sync" /\ gen.pc = "get"
  BY IteratorNextDoes
<1>2. Receiving /\ Received = Len(gen.yielded) /\ rd.pc # "off"
  BY <1>1 DEF Receiving, Received, OffInv
<1>3. ~native.finished
  BY <1>2, ReceivingRuns
<1>5. PICK item \in Items :
         /\ chan # <<>> /\ item = chan[1]
         /\ item.type = "block" => /\ gen'.pc = "yield" /\ gen'.end = gen.end
                                   /\ gen'.yielded = Append(gen.yielded, item.n)
         /\ item.type # "block" => /\ gen'.pc = "over" /\ gen'.end = item.type
                                   /\ gen'.yielded = gen.yielded
  BY <1>3, IteratorNextDoes
<1>6. /\ item.type = "block" => item.n = Received + 1
      /\ item.type = "none" => Received = NBlocks
  BY <1>2, <1>5, PipeFirst
<1> QED
  BY <1>2, <1>5, <1>6

LEMMA SyncKept ==
    ASSUME BridgeTypes, OffInv, StopInv, PipeInv, SyncInv, Next
    PROVE  SyncInv'
<1>1. CASE StartStream
  <2>1. kind' = kind /\ gen'.yielded = gen.yielded
    BY <1>1, StartStreamDoes
  <2> QED
    BY <2>1, SMTT(60) DEF SyncInv
<1>2. CASE StartFails \/ CancelStart
  <2>1. kind' = kind /\ gen'.yielded = gen.yielded
    BY <1>2, StartEndsDoes
  <2> QED
    BY <2>1 DEF SyncInv
<1>3. CASE ServerSends \/ ServerCloses
  <2>1. UNCHANGED <<kind, gen>>
    BY <1>3, ServerDoes, ZenonT(60)
  <2> QED
    BY <2>1 DEF SyncInv
<1>4. CASE ReaderCheck
  <2>1. UNCHANGED <<kind, gen>>
    BY <1>4, ReaderCheckDoes
  <2> QED
    BY <2>1 DEF SyncInv
<1>5. CASE ReaderPacket
  <2>1. UNCHANGED <<kind, gen>>
    BY <1>5, ReaderPacketDoes
  <2> QED
    BY <2>1 DEF SyncInv
<1>6. CASE ReaderEof
  <2>1. UNCHANGED <<kind, gen>>
    BY <1>6, ReaderEofDoes
  <2> QED
    BY <2>1 DEF SyncInv
<1>7. CASE ReaderPublish
  <2>1. UNCHANGED <<kind, gen>>
    BY <1>7, ReaderPublishDoes
  <2> QED
    BY <2>1 DEF SyncInv
<1>8. CASE ReaderSend
  <2>1. UNCHANGED <<kind, gen>>
    BY <1>8, ReaderSendDoes
  <2> QED
    BY <2>1 DEF SyncInv
<1>9. CASE StreamDropped
  <2>1. UNCHANGED <<kind, gen>>
    BY <1>9, StreamDroppedDoes
  <2> QED
    BY <2>1 DEF SyncInv
<1>10. CASE ForwarderNext
  <2>1. UNCHANGED <<kind, gen>>
    BY <1>10, ForwarderNextDoes
  <2> QED
    BY <2>1 DEF SyncInv
<1>11. CASE ForwarderWait \/ ForwarderTimeout \/ ForwarderEnds
  <2>1. UNCHANGED <<kind, gen>>
    BY <1>11, ForwarderMoves
  <2> QED
    BY <2>1 DEF SyncInv
<1>12. CASE ForwarderPut
  <2>1. UNCHANGED <<kind, gen>>
    BY <1>12, ForwarderPutDoes
  <2> QED
    BY <2>1 DEF SyncInv
<1>13. CASE ForwarderSentinel
  <2>1. UNCHANGED <<kind, gen>>
    BY <1>13, ForwarderSentinelDoes
  <2> QED
    BY <2>1 DEF SyncInv
<1>14. CASE ForwarderRelease
  <2>1. UNCHANGED <<kind, gen>>
    BY <1>14, ForwarderReleaseDoes
  <2> QED
    BY <2>1 DEF SyncInv
<1>15. CASE RunPut
  <2>1. UNCHANGED <<kind, gen>>
    BY <1>15, RunPutDoes
  <2> QED
    BY <2>1 DEF SyncInv
<1>16. CASE GeneratorGet
  <2>1. kind' = kind /\ kind = "async"
    BY <1>16, GeneratorGetDoes
  <2> QED
    BY <2>1 DEF SyncInv
<1>17. CASE IteratorNext
  <2>1. gen.yielded \in Seq(Nat) /\ kind = "sync" /\ Len(gen.yielded) + 1 \in Nat
    BY <1>17, IteratorNextDoes, Fields
  <2>2. gen'.yielded = gen.yielded \/ gen'.yielded = Append(gen.yielded, Len(gen.yielded) + 1)
    BY <1>17, IteratorTakes
  <2>3. gen'.yielded = Append(gen.yielded, Len(gen.yielded) + 1) =>
           /\ Len(gen'.yielded) = Len(gen.yielded) + 1
           /\ \A i \in 1..Len(gen.yielded) : gen'.yielded[i] = gen.yielded[i]
           /\ gen'.yielded[Len(gen.yielded) + 1] = Len(gen.yielded) + 1
    BY <2>1, Appended
  <2> QED
    BY <2>1, <2>2, <2>3, SMTT(60) DEF SyncInv
<1>18. CASE GeneratorResumes \/ Leave
  <2>1. kind' = kind /\ gen'.yielded = gen.yielded
    BY <1>18, GeneratorMoves
  <2> QED
    BY <2>1 DEF SyncInv
<1>19. CASE Abandon
  <2>1. kind' = kind /\ gen'.yielded = gen.yielded
    BY <1>19, AbandonDoes
  <2> QED
    BY <2>1 DEF SyncInv
<1>20. CASE Kill
  <2>1. kind' = kind /\ gen'.yielded = gen.yielded
    BY <1>20, KillDoes
  <2> QED
    BY <2>1 DEF SyncInv
<1>21. CASE ReaderFails
  <2>1. UNCHANGED <<kind, gen>>
    BY <1>21, ReaderFailsDoes
  <2> QED
    BY <2>1 DEF SyncInv
<1>22. CASE ReaderStray
  <2>1. UNCHANGED <<kind, gen>>
    BY <1>22, ReaderStrayDoes
  <2> QED
    BY <2>1 DEF SyncInv
<1> QED
  BY <1>1, <1>2, <1>3, <1>4, <1>5, <1>6, <1>7, <1>8, <1>9, <1>10, <1>11, <1>12, <1>13,
     <1>14, <1>15, <1>16, <1>17, <1>18, <1>19, <1>20, <1>21, <1>22, SMTT(60)
     DEF Next, Reader, Forwarder, Consumer

LEMMA MarkedPuts ==
    ASSUME NEW r \in Seq(Puts), NEW p \in Seq(Puts)
    PROVE  (\A put \in Range(r) \cup Range(p) : ~put.mine)
              <=> (\A i \in 1..Len(r) : ~r[i].mine) /\ (\A i \in 1..Len(p) : ~p[i].mine)
<1>1. Range(r) = {r[i] : i \in 1..Len(r)} /\ Range(p) = {p[i] : i \in 1..Len(p)}
  BY RangeIs
<1> QED
  BY <1>1, Zenon

LEMMA RangeAppended ==
    ASSUME NEW s \in Seq(Nat), NEW y \in Nat
    PROVE  y \in Range(Append(s, y)) /\ \A x \in Range(s) : x \in Range(Append(s, y))
<1>1. PICK t : t = Append(s, y)
  BY ZenonT(60)
<1>2. /\ t \in Seq(Nat) /\ Len(t) = Len(s) + 1 /\ Len(s) \in Nat /\ t[Len(s) + 1] = y
      /\ \A i \in 1..Len(s) : t[i] = s[i]
  BY <1>1, Appended
<1>3. Range(s) = {s[i] : i \in 1..Len(s)} /\ Range(t) = {t[i] : i \in 1..Len(t)}
  BY <1>2, RangeIs
<1>4. y \in Range(t)
  <2>1. Len(s) + 1 \in 1..Len(t)
    BY <1>2
  <2> QED
    BY <1>2, <1>3, <2>1, Zenon
<1>5. ASSUME NEW x \in Range(s) PROVE x \in Range(t)
  <2>1. PICK i \in 1..Len(s) : x = s[i]
    BY <1>3, Zenon
  <2>2. i \in 1..Len(t) /\ t[i] = x
    BY <1>2, <2>1
  <2> QED
    BY <1>3, <2>2, Zenon
<1> QED
  BY <1>1, <1>4, <1>5

\* The queue and what was yielded stay as they are.
LEMMA QueueStill ==
    ASSUME gen'.yielded = gen.yielded, queue' = queue, fw.exc => fw'.exc
    PROVE  /\ BlocksInv => BlocksInv'
           /\ SentinelInv => SentinelInv'
           /\ \A m : Delivered(m) <=> Delivered(m)'
<1>1. ASSUME NEW n, NEW i PROVE Before(n, i) <=> Before(n, i)'
  BY DEF Before
<1>2. BlocksInv => BlocksInv'
  BY <1>1 DEF BlocksInv
<1>3. SentinelInv => SentinelInv'
  BY <1>1 DEF SentinelInv
<1>4. \A m : Delivered(m) <=> Delivered(m)'
  BY DEF Delivered, Before
<1> QED
  BY <1>2, <1>3, <1>4

\* The puts that wait stay what they are when the forwarder does not submit.
LEMMA PutsMoved ==
    ASSUME BridgeTypes, PutsInv, fw'.exc <=> fw.exc, fw'.pc = "wait" => fw.pc = "wait" /\ fw'.val = fw.val,
           \A m \in Nat : Delivered(m) => Delivered(m)',
           \A i \in 1..Len(ready') : \/ \E j \in 1..Len(ready) : ready'[i] = ready[j]
                                     \/ \E j \in 1..Len(putters) : ready'[i] = putters[j],
           \A i \in 1..Len(putters') : \/ \E j \in 1..Len(ready) : putters'[i] = ready[j]
                                       \/ \E j \in 1..Len(putters) : putters'[i] = putters[j]
    PROVE  PutsInv'
<1>1. Complete => Complete'
  BY BridgeAssumption DEF Complete
<1>2. ASSUME NEW p, PutOk(p) PROVE PutOk(p)'
  <2>1. \A m \in 1..(p.val.n - 1) : m \in Nat
    OBVIOUS
  <2> QED
    BY <1>1, <1>2, <2>1 DEF PutOk
<1>3. ASSUME NEW i \in 1..Len(ready'), NEW p, p = ready'[i] PROVE PutOk(p)'
  BY <1>2, <1>3, ZenonT(60) DEF PutsInv
<1>4. ASSUME NEW i \in 1..Len(putters'), NEW p, p = putters'[i] PROVE PutOk(p)'
  BY <1>2, <1>4 DEF PutsInv
<1> QED
  BY <1>3, <1>4 DEF PutsInv, PutOk

\* The forwarder submits a value.
LEMMA PutsSubmitted ==
    ASSUME BridgeTypes, PutsInv, NEW v \in Values, Submit(v), fw'.exc = fw.exc,
           \A m : Delivered(m) <=> Delivered(m)',
           v.type = "block" => \A m \in 1..(v.n - 1) : Delivered(m),
           v.type = "sentinel" => Complete,
           fw'.pc = "wait" => v = fw'.val
    PROVE  PutsInv' /\ ~Landed'
<1>1. /\ ready' \in Seq(Puts) /\ putters' \in Seq(Puts)
      /\ Len(ready') = Len(ready) + 1 /\ Len(putters') = Len(putters)
      /\ \A i \in 1..Len(ready) : ready'[i].val = ready[i].val /\ ~ready'[i].mine
      /\ ready'[Len(ready) + 1].val = v /\ ready'[Len(ready) + 1].mine
      /\ \A i \in 1..Len(putters) : putters'[i].val = putters[i].val /\ ~putters'[i].mine
  BY SubmitTypes
<1>2. Complete => Complete'
  BY DEF Complete
<1>3. ASSUME NEW p, NEW q, PutOk(p), q.val = p.val, ~q.mine PROVE PutOk(q)'
  BY <1>2, <1>3 DEF PutOk
<1>4. ASSUME NEW p, p.val = v PROVE PutOk(p)'
  BY <1>2, <1>4 DEF PutOk
<1>5. Len(ready) \in Nat
  BY Fields
<1>6. ASSUME NEW i \in 1..Len(ready'), NEW p, p = ready'[i] PROVE PutOk(p)'
  <2>1. CASE i = Len(ready) + 1
    BY <1>1, <1>4, <1>6, <2>1
  <2>2. CASE i \in 1..Len(ready)
    <3>1. p.val = ready[i].val /\ ~p.mine /\ PutOk(ready[i])
      BY <1>1, <1>6, <2>2 DEF PutsInv
    <3> QED
      BY <1>3, <3>1
  <2> QED
    BY <1>1, <1>5, <2>1, <2>2
<1>7. ASSUME NEW i \in 1..Len(putters'), NEW p, p = putters'[i] PROVE PutOk(p)'
  <2>1. p.val = putters[i].val /\ ~p.mine /\ PutOk(putters[i])
    BY <1>1, <1>7, SMTT(60) DEF PutsInv
  <2> QED
    BY <1>3, <2>1
<1>8. PutsInv'
  BY <1>6, <1>7 DEF PutsInv, PutOk
<1>9. ~Landed'
  <2>1. Len(ready) + 1 \in 1..Len(ready')
    BY <1>1, <1>5
  <2> QED
    BY <1>1, <2>1, MarkedPuts DEF Landed
<1> QED
  BY <1>8, <1>9

\* The forwarder takes the block after the last one it had, or an end it may pass on.
LEMMA ForwarderTakes ==
    ASSUME BridgeTypes, OffInv, StopInv, SlotInv, PipeInv, ForwarderNext
    PROVE  \/ fw'.pc = "put" /\ fw'.val.n = fw.val.n + 1 /\ fw'.exc = fw.exc
           \/ fw'.pc = "fin" /\ fw'.val = fw.val /\ fw'.exc
           \/ fw'.pc = "fin" /\ fw'.val = fw.val /\ fw'.exc = fw.exc /\ fw.val.n = NBlocks
<1>1. fw.pc = "next"
  BY ForwarderNextDoes
<1>2. kind = "async" /\ rd.pc # "off"
  BY <1>1, Fields DEF SlotInv, OffInv
<1>3. Receiving /\ Received = fw.val.n
  BY <1>1, <1>2 DEF Receiving, Received
<1>4. ~native.finished
  BY <1>3, ReceivingRuns
<1>6. PICK item \in Items :
         /\ chan # <<>> /\ item = chan[1]
         /\ item.type = "block" => fw'.pc = "put" /\ fw'.val = item /\ fw'.exc = fw.exc
         /\ item.type = "none" => fw'.pc = "fin" /\ fw'.val = fw.val /\ fw'.exc = fw.exc
         /\ item.type = "err" => fw'.pc = "fin" /\ fw'.val = fw.val /\ fw'.exc
  BY <1>4, ForwarderNextDoes
<1>7. /\ item.type = "block" => item.n = Received + 1
      /\ item.type = "none" => Received = NBlocks
  BY <1>2, <1>3, <1>6, PipeFirst
<1>8. item.type \in {"block", "none", "err"}
  BY DEF Items
<1> QED
  BY <1>3, <1>6, <1>7, <1>8

\* The forwarder moves on.
LEMMA QueueForwarder ==
    ASSUME BridgeTypes, OffInv, StopInv, SlotInv, PipeInv,
           BlocksInv, SentinelInv, PutsInv, ForwarderInv, gen.pc \in {"get", "yield"},
           \/ ForwarderNext \/ ForwarderWait \/ ForwarderTimeout \/ ForwarderEnds
           \/ ForwarderPut \/ ForwarderSentinel \/ ForwarderRelease
    PROVE  BlocksInv' /\ SentinelInv' /\ PutsInv' /\ ForwarderInv'
<1>0. fw.val \in Items /\ fw.val.n \in Nat
  BY Fields DEF Items
<1>1. CASE ForwarderNext
  <2>1. fw.pc = "next" /\ UNCHANGED <<queue, ready, putters, gen>>
    BY <1>1, ForwarderNextDoes
  <2>2. /\ fw.exc => fw'.exc
        /\ fw'.pc \in {"put", "fin"}
        /\ fw'.pc = "put" => fw'.val.n = fw.val.n + 1 /\ fw'.exc = fw.exc
        /\ fw'.pc = "fin" => fw'.val = fw.val /\ (fw'.exc \/ fw.val.n = NBlocks)
    BY <1>1, ForwarderTakes
  <2>3. BlocksInv' /\ SentinelInv' /\ \A m : Delivered(m) <=> Delivered(m)'
    BY <2>1, <2>2, QueueStill
  <2>4. \A m \in 1..fw.val.n : Delivered(m)'
    BY <2>1, <2>3 DEF ForwarderInv
  <2>5. ForwarderInv'
    BY <1>0, <2>2, <2>4 DEF ForwarderInv
  <2>6. ASSUME NEW p, PutOk(p) PROVE PutOk(p)'
    <3>1. Complete => Complete'
      BY <2>2, <2>3, SMTT(60) DEF Complete
    <3> QED
      BY <2>2, <2>3, <2>6, <3>1 DEF PutOk
  <2>7. PutsInv'
    <3>1. ASSUME NEW i \in 1..Len(ready'), NEW p, p = ready'[i] PROVE PutOk(p)'
      BY <2>1, <2>6, <3>1 DEF PutsInv
    <3>2. ASSUME NEW i \in 1..Len(putters'), NEW p, p = putters'[i] PROVE PutOk(p)'
      BY <2>1, <2>6, <3>2, SMTT(60) DEF PutsInv
    <3> QED
      BY <3>1, <3>2 DEF PutsInv, PutOk
  <2> QED
    BY <2>3, <2>5, <2>7
<1>2. CASE ForwarderWait \/ ForwarderTimeout \/ ForwarderEnds \/ ForwarderRelease
  <2>1. UNCHANGED <<queue, ready, putters, gen>> /\ fw'.val = fw.val /\ fw'.exc = fw.exc
    BY <1>2, ForwarderMoves, ForwarderReleaseDoes
  <2>2. \/ fw.pc = "wait" /\ Landed /\ fw'.pc = "next"
        \/ fw.pc = "wait" /\ fw'.pc = "put"
        \/ fw.pc \in {"finwait", "release"} /\ fw'.pc \in {"release", "done"}
    BY <1>2, ForwarderMoves, ForwarderReleaseDoes
  <2>3. BlocksInv' /\ SentinelInv' /\ \A m : Delivered(m) <=> Delivered(m)'
    BY <2>1, QueueStill
  <2>4. ForwarderInv'
    <3>1. ASSUME NEW m \in 1..fw.val.n, m < fw.val.n \/ fw'.pc # "put" PROVE Delivered(m)
      BY <1>0, <2>2, <3>1 DEF ForwarderInv
    <3>2. fw'.pc \notin {"wait", "fin"}
      BY <2>2
    <3> QED
      BY <2>1, <2>3, <3>1, <3>2 DEF ForwarderInv
  <2>5. PutsInv'
    BY <2>1, <2>2, <2>3, PutsMoved
  <2> QED
    BY <2>3, <2>4, <2>5
<1>3. CASE ForwarderPut
  <2>1. ~event
    BY DEF StopInv
  <2>2. /\ fw.pc = "put" /\ fw'.pc = "wait" /\ fw'.val = fw.val /\ fw'.exc = fw.exc
        /\ fw.val \in Values /\ fw.val.type = "block" /\ Submit(fw.val) /\ gen' = gen
    BY <1>3, <2>1, ForwarderPutDoes
  <2>3. queue' = queue
    BY <2>2 DEF Submit
  <2>4. BlocksInv' /\ SentinelInv' /\ \A m : Delivered(m) <=> Delivered(m)'
    BY <2>2, <2>3, QueueStill
  <2>5. \A m \in 1..(fw.val.n - 1) : Delivered(m)
    BY <1>0 DEF ForwarderInv
  <2>6. PutsInv' /\ ~Landed'
    BY <2>2, <2>4, <2>5, PutsSubmitted
  <2>7. ForwarderInv'
    BY <1>0, <2>2, <2>4, <2>5, <2>6 DEF ForwarderInv
  <2> QED
    BY <2>4, <2>6, <2>7
<1>4. CASE ForwarderSentinel
  <2>1. /\ fw.pc = "fin" /\ fw'.pc = "finwait" /\ fw'.val = fw.val /\ fw'.exc = fw.exc
        /\ Submit(Sentinel) /\ gen' = gen
    BY <1>4, ForwarderSentinelDoes
  <2>2. queue' = queue
    BY <2>1 DEF Submit
  <2>3. BlocksInv' /\ SentinelInv' /\ \A m : Delivered(m) <=> Delivered(m)'
    BY <2>1, <2>2, QueueStill
  <2>4. \A m \in 1..fw.val.n : Delivered(m)
    BY <2>1 DEF ForwarderInv
  <2>5. Complete
    <3>1. fw.exc \/ fw.val.n = NBlocks
      BY <2>1 DEF ForwarderInv
    <3>2. NBlocks = 0 \/ NBlocks \in 1..NBlocks
      BY BridgeAssumption
    <3> QED
      BY <2>4, <3>1, <3>2 DEF Complete
  <2>6. PutsInv'
    BY <2>1, <2>3, <2>5, ItemTypes, PutsSubmitted
  <2>7. ForwarderInv'
    BY <2>1, <2>3, <2>4 DEF ForwarderInv
  <2> QED
    BY <2>3, <2>6, <2>7
<1> QED
  BY <1>1, <1>2, <1>3, <1>4

\* A put lands in the queue, or parks.
LEMMA QueuePut ==
    ASSUME BridgeTypes, BlocksInv, SentinelInv, PutsInv, ForwarderInv, RunPut
    PROVE  BlocksInv' /\ SentinelInv' /\ PutsInv' /\ ForwarderInv'
<1>1. /\ queue \in Seq(Values) /\ ready \in Seq(Puts) /\ putters \in Seq(Puts)
      /\ Len(queue) \in Nat /\ Len(ready) \in Nat /\ Len(putters) \in Nat
      /\ fw.val \in Items /\ fw.val.n \in Nat
  BY Fields DEF Items
<1>2. PICK p : p = ready[1]
  OBVIOUS
<1>3. /\ ready # <<>> /\ ready' = Tail(ready) /\ p \in Puts /\ p.val \in Values
      /\ UNCHANGED <<fw, gen>>
      /\ \/ queue' = Append(queue, p.val) /\ putters' = putters
         \/ queue' = queue /\ putters' = Append(putters, p)
  BY <1>2, RunPutDoes
<1>4. /\ Len(ready) >= 1 /\ ready' \in Seq(Puts) /\ Len(ready') = Len(ready) - 1
      /\ \A i \in 1..(Len(ready) - 1) : ready'[i] = ready[i + 1]
  BY <1>1, <1>3, HeadAndTail
<1>5. PutOk(p)
  BY <1>1, <1>2, <1>4 DEF PutsInv
<1>6. \A i \in 1..Len(ready') : \E j \in 1..Len(ready) : ready'[i] = ready[j]
  BY <1>1, <1>4
<1>7. PICK l : l = Len(queue)
  BY ZenonT(60)
<1>8. CASE queue' = Append(queue, p.val) /\ putters' = putters
  <2>1. /\ l \in Nat /\ Len(queue') = l + 1 /\ queue'[l + 1] = p.val
        /\ \A i \in 1..l : queue'[i] = queue[i]
    BY <1>1, <1>3, <1>7, <1>8, Appended
  <2>2. ASSUME NEW n, NEW i \in 0..l, Before(n, i) PROVE Before(n, i)'
    <3>1. \A j \in 1..i : j \in 1..l
      BY <2>1
    <3> QED
      BY <1>3, <2>1, <2>2, <3>1 DEF Before
  <2>3. ASSUME NEW n, Delivered(n) PROVE Before(n, l)' /\ Before(n, l + 1)' /\ Delivered(n)'
    <3>1. Before(n, l)'
      BY <1>7, <2>1, <2>2, <2>3 DEF Delivered
    <3>2. Before(n, l + 1)'
      BY <2>1, <3>1 DEF Before
    <3> QED
      BY <2>1, <3>1, <3>2 DEF Delivered, Before
  <2>4. BlocksInv'
    <3>1. ASSUME NEW i \in 1..Len(queue'), queue'[i].type = "block", NEW m \in 1..queue'[i].n
          PROVE  Before(m, i)'
      <4>1. CASE i = l + 1
        <5>1. p.val.type = "block" /\ p.val.n \in Nat /\ m \in 1..p.val.n
          BY <1>3, <2>1, <3>1, <4>1, ItemTypes DEF Values
        <5>2. CASE m = p.val.n
          BY <2>1, <4>1, <5>1, <5>2 DEF Before
        <5>3. CASE m \in 1..(p.val.n - 1)
          BY <1>5, <2>3, <4>1, <5>1, <5>3 DEF PutOk
        <5> QED
          BY <5>1, <5>2, <5>3
      <4>2. CASE i \in 1..l
        <5>1. Before(m, i)
          BY <1>7, <2>1, <3>1, <4>2 DEF BlocksInv
        <5> QED
          BY <2>1, <2>2, <4>2, <5>1
      <4> QED
        BY <2>1, <4>1, <4>2
    <3> QED
      BY <3>1 DEF BlocksInv
  <2>5. SentinelInv'
    <3>1. ASSUME NEW i \in 1..Len(queue'), queue'[i].type = "sentinel"
          PROVE  fw.exc \/ NBlocks = 0 \/ Before(NBlocks, i - 1)'
      <4>1. CASE i = l + 1
        <5>1. Complete /\ i - 1 = l
          BY <1>5, <2>1, <3>1, <4>1 DEF PutOk
        <5> QED
          BY <2>3, <5>1 DEF Complete
      <4>2. CASE i \in 1..l
        <5>1. i - 1 \in 0..l /\ (fw.exc \/ NBlocks = 0 \/ Before(NBlocks, i - 1))
          BY <1>7, <2>1, <3>1, <4>2 DEF SentinelInv
        <5> QED
          BY <2>2, <5>1
      <4> QED
        BY <2>1, <4>1, <4>2
    <3> QED
      BY <1>3, <3>1 DEF SentinelInv
  <2>6. PutsInv'
    <3>1. \A i \in 1..Len(putters') : \E j \in 1..Len(putters) : putters'[i] = putters[j]
      BY <1>8
    <3> QED
      BY <1>3, <1>6, <2>3, <3>1, PutsMoved
  <2>7. ForwarderInv'
    <3>1. ASSUME fw.pc = "wait" PROVE Delivered(fw.val.n)' \/ ~Landed'
      <4>1. CASE Delivered(fw.val.n)
        BY <1>3, <2>3, <4>1
      <4>2. CASE p.mine
        <5>1. p.val = fw.val /\ fw.val.type = "block"
          BY <1>5, <3>1, <4>2 DEF PutOk, BridgeTypes, ForwarderType
        <5> QED
          BY <1>3, <2>1, <5>1 DEF Delivered, Before
      <4>3. CASE ~Landed /\ ~p.mine
        <5>1. (\E i \in 1..Len(ready) : ready[i].mine) \/ (\E i \in 1..Len(putters) : putters[i].mine)
          BY <1>1, <4>3, MarkedPuts DEF Landed
        <5>2. (\E i \in 1..Len(ready') : ready'[i].mine) \/ (\E i \in 1..Len(putters') : putters'[i].mine)
          <6>1. CASE \E i \in 1..Len(putters) : putters[i].mine
            BY <1>8, <6>1
          <6>2. CASE \E i \in 1..Len(ready) : ready[i].mine
            <7>1. PICK i \in 1..Len(ready) : ready[i].mine
              BY <6>2
            <7>2. i # 1
              BY <1>2, <4>3, <7>1
            <7>3. i - 1 \in 1..Len(ready') /\ ready'[i - 1] = ready[i]
              BY <1>1, <1>4, <7>2
            <7> QED
              BY <7>1, <7>3
          <6> QED
            BY <5>1, <6>1, <6>2
        <5> QED
          BY <1>1, <1>4, <1>8, <5>2, MarkedPuts DEF Landed
      <4> QED
        BY <3>1, <4>1, <4>2, <4>3 DEF ForwarderInv
    <3> QED
      BY <1>3, <2>3, <3>1 DEF ForwarderInv
  <2> QED
    BY <2>4, <2>5, <2>6, <2>7
<1>9. CASE queue' = queue /\ putters' = Append(putters, p)
  <2>1. /\ putters' \in Seq(Puts) /\ Len(putters') = Len(putters) + 1 /\ putters'[Len(putters) + 1] = p
        /\ \A i \in 1..Len(putters) : putters'[i] = putters[i]
    BY <1>1, <1>3, <1>9, Appended
  <2>2. BlocksInv' /\ SentinelInv' /\ \A m : Delivered(m) <=> Delivered(m)'
    BY <1>3, <1>9, QueueStill
  <2>3. \A i \in 1..Len(putters') : \/ \E j \in 1..Len(ready) : putters'[i] = ready[j]
                                    \/ \E j \in 1..Len(putters) : putters'[i] = putters[j]
    <3>1. 1 \in 1..Len(ready) /\ p = ready[1]
      BY <1>1, <1>2, <1>4
    <3>2. \A i \in 1..Len(putters') : i \in 1..Len(putters) \/ i = Len(putters) + 1
      BY <1>1, <2>1
    <3> QED
      BY <2>1, <3>1, <3>2
  <2>4. PutsInv'
    BY <1>3, <1>6, <2>2, <2>3, PutsMoved
  <2>5. ~Landed => ~Landed'
    <3> SUFFICES ASSUME ~Landed PROVE ~Landed'
      OBVIOUS
    <3>1. (\E i \in 1..Len(ready) : ready[i].mine) \/ (\E i \in 1..Len(putters) : putters[i].mine)
      BY <1>1, MarkedPuts DEF Landed
    <3>2. (\E i \in 1..Len(ready') : ready'[i].mine) \/ (\E i \in 1..Len(putters') : putters'[i].mine)
      <4>1. CASE \E i \in 1..Len(putters) : putters[i].mine
        <5>1. \A i \in 1..Len(putters) : i \in 1..Len(putters')
          BY <1>1, <2>1
        <5> QED
          BY <2>1, <4>1, <5>1
      <4>2. CASE \E i \in 1..Len(ready) : ready[i].mine
        <5>1. PICK i \in 1..Len(ready) : ready[i].mine
          BY <4>2
        <5>2. CASE i = 1
          <6>1. Len(putters) + 1 \in 1..Len(putters') /\ putters'[Len(putters) + 1] = ready[1]
            BY <1>1, <1>2, <2>1
          <6> QED
            BY <5>1, <5>2, <6>1
        <5>3. CASE i # 1
          <6>1. i - 1 \in 1..Len(ready') /\ ready'[i - 1] = ready[i]
            BY <1>1, <1>4, <5>3
          <6> QED
            BY <5>1, <6>1
        <5> QED
          BY <5>2, <5>3
      <4> QED
        BY <3>1, <4>1, <4>2
    <3> QED
      BY <1>4, <2>1, <3>2, MarkedPuts DEF Landed
  <2>6. ForwarderInv'
    BY <1>3, <2>2, <2>5 DEF ForwarderInv
  <2> QED
    BY <2>2, <2>4, <2>6
<1> QED
  BY <1>3, <1>8, <1>9

\* The generator takes a block from the queue and wakes a parked put.
LEMMA QueueGet ==
    ASSUME BridgeTypes, BlocksInv, SentinelInv, PutsInv, ForwarderInv, GeneratorGet, gen'.pc = "yield"
    PROVE  BlocksInv' /\ SentinelInv' /\ PutsInv' /\ ForwarderInv'
<1>1. /\ queue \in Seq(Values) /\ ready \in Seq(Puts) /\ putters \in Seq(Puts)
      /\ Len(queue) \in Nat /\ Len(ready) \in Nat /\ Len(putters) \in Nat /\ gen.yielded \in Seq(Nat)
      /\ fw.val \in Items /\ fw.val.n \in Nat
  BY Fields DEF Items
<1>2. /\ queue # <<>> /\ queue' = Tail(queue) /\ queue[1] \in Values /\ fw' = fw
      /\ queue[1].type = "block" /\ gen'.yielded = Append(gen.yielded, queue[1].n)
      /\ \/ putters = <<>> /\ ready' = ready /\ putters' = putters
         \/ putters # <<>> /\ ready' = Append(ready, putters[1]) /\ putters' = Tail(putters)
  BY GeneratorGetDoes
<1>3. PICK l : l = Len(queue)
  BY ZenonT(60)
<1>4. /\ l \in Nat \ {0} /\ Len(queue') = l - 1
      /\ \A i \in 1..(l - 1) : queue'[i] = queue[i + 1]
  BY <1>1, <1>2, <1>3, HeadAndTail
<1>5. queue[1].n \in Nat
  BY <1>2, ItemTypes DEF Values
<1>6. queue[1].n \in Range(gen'.yielded) /\ \A x \in Range(gen.yielded) : x \in Range(gen'.yielded)
  BY <1>1, <1>2, <1>5, RangeAppended
<1>7. ASSUME NEW n, NEW i \in 1..l, Before(n, i) PROVE Before(n, i - 1)'
  <2>1. CASE n \in Range(gen.yielded)
    BY <1>6, <2>1 DEF Before
  <2>2. CASE \E j \in 1..i : queue[j].type = "block" /\ queue[j].n = n
    <3>1. PICK j \in 1..i : queue[j].type = "block" /\ queue[j].n = n
      BY <2>2
    <3>2. CASE j = 1
      BY <1>6, <3>1, <3>2 DEF Before
    <3>3. CASE j # 1
      <4>1. PICK h : h = j - 1
        OBVIOUS
      <4>2. h \in 1..(i - 1) /\ queue'[h] = queue[j]
        BY <1>4, <3>3, <4>1
      <4> QED
        BY <3>1, <4>2 DEF Before
    <3> QED
      BY <3>2, <3>3
  <2> QED
    BY <1>7, <2>1, <2>2 DEF Before
<1>8. ASSUME NEW n, Delivered(n) PROVE Delivered(n)'
  <2>1. Before(n, l - 1)'
    BY <1>3, <1>4, <1>7, <1>8 DEF Delivered
  <2> QED
    BY <1>4, <2>1 DEF Delivered, Before
<1>9. BlocksInv'
  <2>1. ASSUME NEW i \in 1..Len(queue'), queue'[i].type = "block", NEW m \in 1..queue'[i].n
        PROVE  Before(m, i)'
    <3>1. PICK h : h = i + 1
      OBVIOUS
    <3>2. h \in 1..l /\ h - 1 = i /\ queue'[i] = queue[h]
      BY <1>4, <3>1
    <3>3. Before(m, h)
      BY <1>3, <2>1, <3>2 DEF BlocksInv
    <3> QED
      BY <1>7, <3>2, <3>3
  <2> QED
    BY <2>1 DEF BlocksInv
<1>10. SentinelInv'
  <2>1. ASSUME NEW i \in 1..Len(queue'), queue'[i].type = "sentinel"
        PROVE  fw.exc \/ NBlocks = 0 \/ Before(NBlocks, i - 1)'
    <3>1. i + 1 \in 1..l /\ (i + 1) - 1 = i /\ queue'[i] = queue[i + 1] /\ i \in 1..l
      BY <1>4
    <3>2. fw.exc \/ NBlocks = 0 \/ Before(NBlocks, i)
      BY <1>3, <2>1, <3>1 DEF SentinelInv
    <3> QED
      BY <1>7, <3>1, <3>2
  <2> QED
    BY <1>2, <2>1 DEF SentinelInv
<1>11. CASE putters = <<>> /\ ready' = ready /\ putters' = putters
  <2>1. PutsInv'
    BY <1>2, <1>8, <1>11, PutsMoved
  <2>2. ForwarderInv'
    BY <1>2, <1>8, <1>11 DEF ForwarderInv, Landed
  <2> QED
    BY <1>9, <1>10, <2>1, <2>2
<1>12. CASE putters # <<>> /\ ready' = Append(ready, putters[1]) /\ putters' = Tail(putters)
  <2>1. /\ Len(putters) >= 1 /\ putters' \in Seq(Puts) /\ Len(putters') = Len(putters) - 1
        /\ putters[1] \in Puts
        /\ \A i \in 1..(Len(putters) - 1) : putters'[i] = putters[i + 1]
    BY <1>1, <1>12, HeadAndTail
  <2>2. /\ ready' \in Seq(Puts) /\ Len(ready') = Len(ready) + 1 /\ ready'[Len(ready) + 1] = putters[1]
        /\ \A i \in 1..Len(ready) : ready'[i] = ready[i]
    BY <1>1, <1>12, <2>1, Appended
  <2>3. PutsInv'
    <3>1. \A i \in 1..Len(putters') : \E j \in 1..Len(putters) : putters'[i] = putters[j]
      BY <1>1, <2>1
    <3>2. \A i \in 1..Len(ready') : \/ \E j \in 1..Len(ready) : ready'[i] = ready[j]
                                    \/ \E j \in 1..Len(putters) : ready'[i] = putters[j]
      <4>1. 1 \in 1..Len(putters)
        BY <1>1, <2>1
      <4>2. \A i \in 1..Len(ready') : i \in 1..Len(ready) \/ i = Len(ready) + 1
        BY <1>1, <2>2
      <4> QED
        BY <2>2, <4>1, <4>2
    <3> QED
      BY <1>2, <1>8, <3>1, <3>2, PutsMoved
  <2>4. ~Landed => ~Landed'
    <3> SUFFICES ASSUME ~Landed PROVE ~Landed'
      OBVIOUS
    <3>1. (\E i \in 1..Len(ready) : ready[i].mine) \/ (\E i \in 1..Len(putters) : putters[i].mine)
      BY <1>1, MarkedPuts, ZenonT(60) DEF Landed
    <3>2. (\E i \in 1..Len(ready') : ready'[i].mine) \/ (\E i \in 1..Len(putters') : putters'[i].mine)
      <4>1. CASE \E i \in 1..Len(ready) : ready[i].mine
        <5>1. \A i \in 1..Len(ready) : i \in 1..Len(ready')
          BY <1>1, <2>2
        <5> QED
          BY <2>2, <4>1, <5>1
      <4>2. CASE \E i \in 1..Len(putters) : putters[i].mine
        <5>1. PICK i \in 1..Len(putters) : putters[i].mine
          BY <4>2
        <5>2. CASE i = 1
          <6>1. Len(ready) + 1 \in 1..Len(ready') /\ ready'[Len(ready) + 1] = putters[1]
            BY <1>1, <2>2
          <6> QED
            BY <5>1, <5>2, <6>1
        <5>3. CASE i # 1
          <6>1. i - 1 \in 1..Len(putters') /\ putters'[i - 1] = putters[i]
            BY <1>1, <2>1, <5>3
          <6> QED
            BY <5>1, <6>1
        <5> QED
          BY <5>2, <5>3
      <4> QED
        BY <3>1, <4>1, <4>2
    <3> QED
      BY <2>1, <2>2, <3>2, MarkedPuts DEF Landed
  <2>5. ForwarderInv'
    BY <1>2, <1>8, <2>4 DEF ForwarderInv
  <2> QED
    BY <1>9, <1>10, <2>3, <2>5
<1> QED
  BY <1>2, <1>11, <1>12

\* The steps that touch neither the queue nor the forwarder.
LEMMA QueueSame ==
    ASSUME QueueInv, UNCHANGED <<kind, fw, queue, ready, putters>>, gen'.yielded = gen.yielded,
           gen'.pc \in {"get", "yield"} => gen.pc \in {"get", "yield"}
    PROVE  QueueInv'
<1> SUFFICES ASSUME kind = "async", gen'.pc \in {"get", "yield"}
             PROVE  BlocksInv' /\ SentinelInv' /\ PutsInv' /\ ForwarderInv'
  BY DEF QueueInv
<1>1. BlocksInv /\ SentinelInv /\ PutsInv /\ ForwarderInv
  BY DEF QueueInv
<1>2. BlocksInv' /\ SentinelInv' /\ \A m : Delivered(m) <=> Delivered(m)'
  BY <1>1, QueueStill
<1>3. Landed' <=> Landed
  BY DEF Landed
<1>4. ForwarderInv'
  BY <1>1, <1>2, <1>3 DEF ForwarderInv
<1>5. ASSUME NEW p, PutOk(p) PROVE PutOk(p)'
  BY <1>2, <1>5, SMTT(60) DEF PutOk, Complete
<1>6. PutsInv'
  <2>1. ASSUME NEW i \in 1..Len(ready'), NEW p, p = ready'[i] PROVE PutOk(p)'
    BY <1>1, <1>5, <2>1 DEF PutsInv
  <2>2. ASSUME NEW i \in 1..Len(putters'), NEW p, p = putters'[i] PROVE PutOk(p)'
    BY <1>1, <1>5, <2>2 DEF PutsInv
  <2> QED
    BY <2>1, <2>2 DEF PutsInv, PutOk
<1> QED
  BY <1>2, <1>4, <1>6

LEMMA QueueKept ==
    ASSUME BridgeTypes, OffInv, StopInv, SlotInv, PipeInv, FreshInv, QueueInv, Next
    PROVE  QueueInv'
<1>1. CASE StartStream
  <2>1. UNCHANGED <<kind, queue, ready, putters>> /\ fw'.val = fw.val
    BY <1>1, StartStreamDoes
  <2>2. CASE gen.pc # "starting"
    <3>1. gen.pc = "over" /\ gen'.pc = gen.pc
      BY <1>1, StartStreamDoes, <2>2 DEF OffInv
    <3> QED
      BY <3>1 DEF QueueInv
  <2>3. CASE gen.pc = "starting" /\ kind = "async"
    <3>1. fw'.pc = "next" /\ fw'.val.n = 0
      BY <1>1, StartStreamDoes, <2>1, <2>3, ItemTypes DEF FreshInv
    <3>2. Len(queue') = 0 /\ Len(ready') = 0 /\ Len(putters') = 0
      BY <2>1, <2>3, SMTT(60) DEF FreshInv
    <3>3. BlocksInv' /\ SentinelInv' /\ PutsInv' /\ ForwarderInv'
      BY <3>1, <3>2 DEF BlocksInv, SentinelInv, PutsInv, ForwarderInv
    <3> QED
      BY <3>3 DEF QueueInv
  <2> QED
    BY <2>1, <2>2, <2>3 DEF QueueInv
<1>2. CASE StartFails \/ CancelStart
  <2>1. gen'.pc \notin {"get", "yield"}
    BY <1>2, StartEndsDoes
  <2> QED
    BY <2>1 DEF QueueInv
<1>3. CASE ServerSends \/ ServerCloses
  <2>1. /\ UNCHANGED <<kind, fw, queue, ready, putters>> /\ gen'.yielded = gen.yielded
        /\ gen'.pc \in {"get", "yield"} => gen.pc \in {"get", "yield"}
    BY <1>3, ServerDoes, ZenonT(60)
  <2> QED
    BY <2>1, QueueSame
<1>4. CASE ReaderCheck
  <2>1. /\ UNCHANGED <<kind, fw, queue, ready, putters>> /\ gen'.yielded = gen.yielded
        /\ gen'.pc \in {"get", "yield"} => gen.pc \in {"get", "yield"}
    BY <1>4, ReaderCheckDoes
  <2> QED
    BY <2>1, QueueSame
<1>5. CASE ReaderPacket
  <2>1. /\ UNCHANGED <<kind, fw, queue, ready, putters>> /\ gen'.yielded = gen.yielded
        /\ gen'.pc \in {"get", "yield"} => gen.pc \in {"get", "yield"}
    BY <1>5, ReaderPacketDoes, SMTT(60)
  <2> QED
    BY <2>1, QueueSame
<1>6. CASE ReaderEof
  <2>1. /\ UNCHANGED <<kind, fw, queue, ready, putters>> /\ gen'.yielded = gen.yielded
        /\ gen'.pc \in {"get", "yield"} => gen.pc \in {"get", "yield"}
    BY <1>6, ReaderEofDoes, SMTT(60)
  <2> QED
    BY <2>1, QueueSame
<1>7. CASE ReaderPublish
  <2>1. /\ UNCHANGED <<kind, fw, queue, ready, putters>> /\ gen'.yielded = gen.yielded
        /\ gen'.pc \in {"get", "yield"} => gen.pc \in {"get", "yield"}
    BY <1>7, ReaderPublishDoes
  <2> QED
    BY <2>1, QueueSame
<1>8. CASE ReaderSend
  <2>1. /\ UNCHANGED <<kind, fw, queue, ready, putters>> /\ gen'.yielded = gen.yielded
        /\ gen'.pc \in {"get", "yield"} => gen.pc \in {"get", "yield"}
    BY <1>8, ReaderSendDoes
  <2> QED
    BY <2>1, QueueSame
<1>9. CASE StreamDropped
  <2>1. /\ UNCHANGED <<kind, fw, queue, ready, putters>> /\ gen'.yielded = gen.yielded
        /\ gen'.pc \in {"get", "yield"} => gen.pc \in {"get", "yield"}
    BY <1>9, StreamDroppedDoes
  <2> QED
    BY <2>1, QueueSame
<1>10. CASE ForwarderNext
  <2>1. UNCHANGED <<kind, gen>>
    BY <1>10, ForwarderNextDoes
  <2>2. CASE kind = "async" /\ gen.pc \in {"get", "yield"}
    <3>1. BlocksInv' /\ SentinelInv' /\ PutsInv' /\ ForwarderInv'
      BY <1>10, <2>2, QueueForwarder DEF QueueInv
    <3> QED
      BY <3>1 DEF QueueInv
  <2> QED
    BY <2>1, <2>2 DEF QueueInv
<1>11. CASE ForwarderWait \/ ForwarderTimeout \/ ForwarderEnds
  <2>1. UNCHANGED <<kind, gen>>
    BY <1>11, ForwarderMoves
  <2>2. CASE kind = "async" /\ gen.pc \in {"get", "yield"}
    <3>1. BlocksInv' /\ SentinelInv' /\ PutsInv' /\ ForwarderInv'
      BY <1>11, <2>2, QueueForwarder DEF QueueInv
    <3> QED
      BY <3>1 DEF QueueInv
  <2> QED
    BY <2>1, <2>2 DEF QueueInv
<1>12. CASE ForwarderPut
  <2>1. UNCHANGED <<kind, gen>>
    BY <1>12, ForwarderPutDoes
  <2>2. CASE kind = "async" /\ gen.pc \in {"get", "yield"}
    <3>1. BlocksInv' /\ SentinelInv' /\ PutsInv' /\ ForwarderInv'
      BY <1>12, <2>2, QueueForwarder DEF QueueInv
    <3> QED
      BY <3>1 DEF QueueInv
  <2> QED
    BY <2>1, <2>2 DEF QueueInv
<1>13. CASE ForwarderSentinel
  <2>1. UNCHANGED <<kind, gen>>
    BY <1>13, ForwarderSentinelDoes
  <2>2. CASE kind = "async" /\ gen.pc \in {"get", "yield"}
    <3>1. BlocksInv' /\ SentinelInv' /\ PutsInv' /\ ForwarderInv'
      BY <1>13, <2>2, QueueForwarder DEF QueueInv
    <3> QED
      BY <3>1 DEF QueueInv
  <2> QED
    BY <2>1, <2>2 DEF QueueInv
<1>14. CASE ForwarderRelease
  <2>1. UNCHANGED <<kind, gen>>
    BY <1>14, ForwarderReleaseDoes
  <2>2. CASE kind = "async" /\ gen.pc \in {"get", "yield"}
    <3>1. BlocksInv' /\ SentinelInv' /\ PutsInv' /\ ForwarderInv'
      BY <1>14, <2>2, QueueForwarder DEF QueueInv
    <3> QED
      BY <3>1 DEF QueueInv
  <2> QED
    BY <2>1, <2>2 DEF QueueInv
<1>15. CASE RunPut
  <2>1. UNCHANGED <<kind, gen>>
    BY <1>15, RunPutDoes
  <2>2. CASE kind = "async" /\ gen.pc \in {"get", "yield"}
    <3>1. BlocksInv' /\ SentinelInv' /\ PutsInv' /\ ForwarderInv'
      BY <1>15, <2>2, QueuePut DEF QueueInv
    <3> QED
      BY <3>1 DEF QueueInv
  <2> QED
    BY <2>1, <2>2 DEF QueueInv
<1>16. CASE GeneratorGet
  <2>1. kind' = kind /\ kind = "async" /\ gen.pc = "get" /\ gen'.pc \in {"abandon", "yield"}
    BY <1>16, GeneratorGetDoes
  <2>2. CASE gen'.pc = "yield"
    <3>1. BlocksInv' /\ SentinelInv' /\ PutsInv' /\ ForwarderInv'
      BY <1>16, <2>1, <2>2, QueueGet DEF QueueInv
    <3> QED
      BY <3>1 DEF QueueInv
  <2> QED
    BY <2>1, <2>2 DEF QueueInv
<1>17. CASE IteratorNext
  <2>1. kind' = kind /\ kind = "sync"
    BY <1>17, IteratorNextDoes
  <2> QED
    BY <2>1 DEF QueueInv
<1>18. CASE GeneratorResumes \/ Leave
  <2>1. /\ UNCHANGED <<kind, fw, queue, ready, putters>> /\ gen'.yielded = gen.yielded
        /\ gen'.pc \in {"get", "yield"} => gen.pc \in {"get", "yield"}
    BY <1>18, GeneratorMoves
  <2> QED
    BY <2>1, QueueSame
<1>19. CASE Abandon
  <2>1. gen'.pc \notin {"get", "yield"}
    BY <1>19, AbandonDoes
  <2> QED
    BY <2>1 DEF QueueInv
<1>20. CASE Kill
  <2>1. gen'.pc \notin {"get", "yield"}
    BY <1>20, KillDoes
  <2> QED
    BY <2>1 DEF QueueInv
<1>21. CASE ReaderFails
  <2>1. /\ UNCHANGED <<kind, fw, queue, ready, putters>> /\ gen'.yielded = gen.yielded
        /\ gen'.pc \in {"get", "yield"} => gen.pc \in {"get", "yield"}
    BY <1>21, ReaderFailsDoes
  <2> QED
    BY <2>1, QueueSame
<1>22. CASE ReaderStray
  <2>1. /\ UNCHANGED <<kind, fw, queue, ready, putters>> /\ gen'.yielded = gen.yielded
        /\ gen'.pc \in {"get", "yield"} => gen.pc \in {"get", "yield"}
    BY <1>22, ReaderStrayDoes
  <2> QED
    BY <2>1, QueueSame
<1> QED
  BY <1>1, <1>2, <1>3, <1>4, <1>5, <1>6, <1>7, <1>8, <1>9, <1>10, <1>11, <1>12, <1>13,
     <1>14, <1>15, <1>16, <1>17, <1>18, <1>19, <1>20, <1>21, <1>22, SMTT(60)
     DEF Next, Reader, Forwarder, Consumer

\* A block joins what was yielded behind those it follows.
LEMMA Yields ==
    ASSUME BridgeTypes, NothingMissing, NEW x \in Nat, gen'.yielded = Append(gen.yielded, x),
           \A m \in 1..x : m = x \/ m \in Range(gen.yielded), gen'.end = gen.end
    PROVE  NothingMissing'
<1>1. PICK y : y = gen.yielded
  OBVIOUS
<1>2. PICK z : z = gen'.yielded
  OBVIOUS
<1>3. y \in Seq(Nat) /\ Len(y) \in Nat /\ DOMAIN y = 1..Len(y)
  BY <1>1, Fields
<1>4. /\ z \in Seq(Nat) /\ Len(z) = Len(y) + 1 /\ z[Len(y) + 1] = x /\ DOMAIN z = 1..Len(z)
      /\ \A i \in 1..Len(y) : z[i] = y[i]
  BY <1>1, <1>2, <1>3, Appended
<1>5. ASSUME NEW i \in DOMAIN z, NEW n \in 1..z[i] PROVE \E j \in 1..i : z[j] = n
  <2>1. CASE i = Len(y) + 1
    <3>1. CASE n = x
      BY <1>3, <1>4, <2>1, <3>1
    <3>2. CASE n \in Range(y)
      <4>1. PICK j \in 1..Len(y) : y[j] = n
        BY <1>3, <3>2, RangeIs
      <4>2. j \in 1..i /\ z[j] = n
        BY <1>3, <1>4, <2>1, <4>1
      <4> QED
        BY <4>2
    <3> QED
      BY <1>1, <1>4, <1>5, <2>1, <3>1, <3>2
  <2>2. CASE i \in 1..Len(y)
    <3>1. n \in 1..y[i] /\ i \in DOMAIN y
      BY <1>3, <1>4, <2>2
    <3>2. PICK j \in 1..i : y[j] = n
      BY <1>1, <3>1 DEF NothingMissing
    <3>3. z[j] = n
      BY <1>3, <1>4, <2>2, <3>2
    <3> QED
      BY <3>3
  <2> QED
    BY <1>3, <1>4, <2>1, <2>2
<1>6. gen'.end = "none" => NBlocks = 0 \/ NBlocks \in Range(z)
  <2>1. \A m \in Range(y) : m \in Range(z)
    BY <1>1, <1>2, <1>3, RangeAppended
  <2> QED
    BY <1>1, <2>1 DEF NothingMissing
<1> QED
  BY <1>2, <1>5, <1>6 DEF NothingMissing

\* Nothing is yielded, and an iteration that ends normally has yielded the last block.
LEMMA YieldsNothing ==
    ASSUME NothingMissing, gen'.yielded = gen.yielded,
           gen'.end # "none" \/ gen'.end = gen.end \/ NBlocks = 0 \/ NBlocks \in Range(gen.yielded)
    PROVE  NothingMissing'
<1>1. PICK y : y = gen.yielded /\ y = gen'.yielded
  OBVIOUS
<1>2. \A i \in DOMAIN y : \A n \in 1..y[i] : \E j \in 1..i : y[j] = n
  BY <1>1 DEF NothingMissing
<1>3. gen'.end = "none" => NBlocks = 0 \/ NBlocks \in Range(y)
  BY <1>1 DEF NothingMissing
<1> QED
  BY <1>1, <1>2, <1>3 DEF NothingMissing

LEMMA MissingKept ==
    ASSUME BridgeTypes, OffInv, StopInv, SlotInv, PipeInv, SyncInv, QueueInv, NothingMissing, Next
    PROVE  NothingMissing'
<1>1. CASE StartStream
  <2>1. gen'.yielded = gen.yielded /\ (gen'.end = gen.end \/ gen'.end # "none")
    BY <1>1, StartStreamDoes
  <2> QED
    BY <2>1, YieldsNothing, SMTT(60)
<1>2. CASE StartFails \/ CancelStart
  <2>1. gen'.yielded = gen.yielded /\ (gen'.end = gen.end \/ gen'.end # "none")
    BY <1>2, StartEndsDoes
  <2> QED
    BY <2>1, YieldsNothing
<1>3. CASE ServerSends \/ ServerCloses
  <2>1. gen'.yielded = gen.yielded /\ (gen'.end = gen.end \/ gen'.end # "none")
    BY <1>3, ServerDoes, ZenonT(60)
  <2> QED
    BY <2>1, YieldsNothing
<1>4. CASE ReaderCheck
  <2>1. gen'.yielded = gen.yielded /\ (gen'.end = gen.end \/ gen'.end # "none")
    BY <1>4, ReaderCheckDoes
  <2> QED
    BY <2>1, YieldsNothing
<1>5. CASE ReaderPacket
  <2>1. gen'.yielded = gen.yielded /\ (gen'.end = gen.end \/ gen'.end # "none")
    BY <1>5, ReaderPacketDoes
  <2> QED
    BY <2>1, YieldsNothing
<1>6. CASE ReaderEof
  <2>1. gen'.yielded = gen.yielded /\ (gen'.end = gen.end \/ gen'.end # "none")
    BY <1>6, ReaderEofDoes, SMTT(60)
  <2> QED
    BY <2>1, YieldsNothing
<1>7. CASE ReaderPublish
  <2>1. gen'.yielded = gen.yielded /\ (gen'.end = gen.end \/ gen'.end # "none")
    BY <1>7, ReaderPublishDoes
  <2> QED
    BY <2>1, YieldsNothing
<1>8. CASE ReaderSend
  <2>1. gen'.yielded = gen.yielded /\ (gen'.end = gen.end \/ gen'.end # "none")
    BY <1>8, ReaderSendDoes
  <2> QED
    BY <2>1, YieldsNothing
<1>9. CASE StreamDropped
  <2>1. gen'.yielded = gen.yielded /\ (gen'.end = gen.end \/ gen'.end # "none")
    BY <1>9, StreamDroppedDoes
  <2> QED
    BY <2>1, YieldsNothing
<1>10. CASE ForwarderNext
  <2>1. gen'.yielded = gen.yielded /\ (gen'.end = gen.end \/ gen'.end # "none")
    BY <1>10, ForwarderNextDoes
  <2> QED
    BY <2>1, YieldsNothing
<1>11. CASE ForwarderWait \/ ForwarderTimeout \/ ForwarderEnds
  <2>1. gen'.yielded = gen.yielded /\ (gen'.end = gen.end \/ gen'.end # "none")
    BY <1>11, ForwarderMoves
  <2> QED
    BY <2>1, YieldsNothing
<1>12. CASE ForwarderPut
  <2>1. gen'.yielded = gen.yielded /\ (gen'.end = gen.end \/ gen'.end # "none")
    BY <1>12, ForwarderPutDoes
  <2> QED
    BY <2>1, YieldsNothing
<1>13. CASE ForwarderSentinel
  <2>1. gen'.yielded = gen.yielded /\ (gen'.end = gen.end \/ gen'.end # "none")
    BY <1>13, ForwarderSentinelDoes
  <2> QED
    BY <2>1, YieldsNothing
<1>14. CASE ForwarderRelease
  <2>1. gen'.yielded = gen.yielded /\ (gen'.end = gen.end \/ gen'.end # "none")
    BY <1>14, ForwarderReleaseDoes
  <2> QED
    BY <2>1, YieldsNothing
<1>15. CASE RunPut
  <2>1. gen'.yielded = gen.yielded /\ (gen'.end = gen.end \/ gen'.end # "none")
    BY <1>15, RunPutDoes
  <2> QED
    BY <2>1, YieldsNothing
<1>16. CASE GeneratorGet
  <2>1. /\ kind = "async" /\ gen.pc = "get" /\ queue # <<>> /\ queue[1] \in Values
        /\ \/ /\ queue[1].type = "sentinel" /\ gen'.yielded = gen.yielded
              /\ gen'.end = IF fw.exc THEN "err" ELSE "none"
           \/ /\ queue[1].type = "block" /\ gen'.end = gen.end
              /\ gen'.yielded = Append(gen.yielded, queue[1].n)
    BY <1>16, GeneratorGetDoes
  <2>2. BlocksInv /\ SentinelInv
    BY <2>1 DEF QueueInv
  <2>3. 1 \in 1..Len(queue)
    <3>1. queue \in Seq(Values)
      BY Fields
    <3> QED
      BY <2>1, <3>1
  <2>4. CASE queue[1].type = "sentinel"
    <3>1. fw.exc \/ NBlocks = 0 \/ Before(NBlocks, 1 - 1)
      BY <2>2, <2>3, <2>4 DEF SentinelInv
    <3>2. fw.exc \/ NBlocks = 0 \/ NBlocks \in Range(gen.yielded)
      BY <3>1 DEF Before
    <3>3. gen'.yielded = gen.yielded /\ (gen'.end = "none" => ~fw.exc)
      BY <2>1, <2>4
    <3> QED
      BY <3>2, <3>3, YieldsNothing
  <2>5. CASE queue[1].type = "block"
    <3>1. queue[1].n \in Nat
      BY <2>1, <2>5, ItemTypes DEF Values
    <3>2. \A m \in 1..queue[1].n : Before(m, 1)
      BY <2>2, <2>3, <2>5 DEF BlocksInv
    <3>3. \A m \in 1..queue[1].n : m = queue[1].n \/ m \in Range(gen.yielded)
      BY <3>2 DEF Before
    <3>4. gen'.end = gen.end /\ gen'.yielded = Append(gen.yielded, queue[1].n)
      BY <2>1, <2>5
    <3> QED
      BY <3>1, <3>3, <3>4, Yields
  <2> QED
    BY <2>1, <2>4, <2>5
<1>17. CASE IteratorNext
  <2>1. gen.yielded \in Seq(Nat) /\ Len(gen.yielded) \in Nat /\ kind = "sync"
    BY <1>17, IteratorNextDoes, Fields
  <2>2. Range(gen.yielded) = {gen.yielded[i] : i \in 1..Len(gen.yielded)}
    BY <2>1, RangeIs
  <2>3. \A m \in 1..Len(gen.yielded) : m \in Range(gen.yielded)
    BY <2>1, <2>2 DEF SyncInv
  <2>4. CASE gen'.end = gen.end /\ gen'.yielded = Append(gen.yielded, Len(gen.yielded) + 1)
    <3>1. PICK x : x = Len(gen.yielded) + 1
      OBVIOUS
    <3>2. x \in Nat /\ \A m \in 1..x : m = x \/ m \in 1..Len(gen.yielded)
      BY <2>1, <3>1
    <3> QED
      BY <2>3, <2>4, <3>1, <3>2, Yields
  <2>5. CASE gen'.yielded = gen.yielded /\ (gen'.end = "none" => Len(gen.yielded) = NBlocks)
    <3>1. NBlocks = 0 \/ NBlocks \in 1..NBlocks
      BY BridgeAssumption
    <3> QED
      BY <2>3, <2>5, <3>1, YieldsNothing
  <2> QED
    BY <1>17, <2>4, <2>5, IteratorTakes, SMTT(60)
<1>18. CASE GeneratorResumes \/ Leave
  <2>1. gen'.yielded = gen.yielded /\ (gen'.end = gen.end \/ gen'.end # "none")
    BY <1>18, GeneratorMoves, SMTT(60)
  <2> QED
    BY <2>1, YieldsNothing
<1>19. CASE Abandon
  <2>1. gen'.yielded = gen.yielded /\ (gen'.end = gen.end \/ gen'.end # "none")
    BY <1>19, AbandonDoes, SMTT(60)
  <2> QED
    BY <2>1, YieldsNothing
<1>20. CASE Kill
  <2>1. gen'.yielded = gen.yielded /\ (gen'.end = gen.end \/ gen'.end # "none")
    BY <1>20, KillDoes
  <2> QED
    BY <2>1, YieldsNothing
<1>21. CASE ReaderFails
  <2>1. gen'.yielded = gen.yielded /\ (gen'.end = gen.end \/ gen'.end # "none")
    BY <1>21, ReaderFailsDoes
  <2> QED
    BY <2>1, YieldsNothing
<1>22. CASE ReaderStray
  <2>1. gen'.yielded = gen.yielded /\ (gen'.end = gen.end \/ gen'.end # "none")
    BY <1>22, ReaderStrayDoes
  <2> QED
    BY <2>1, YieldsNothing
<1> QED
  BY <1>1, <1>2, <1>3, <1>4, <1>5, <1>6, <1>7, <1>8, <1>9, <1>10, <1>11, <1>12, <1>13,
     <1>14, <1>15, <1>16, <1>17, <1>18, <1>19, <1>20, <1>21, <1>22, SMTT(60)
     DEF Next, Reader, Forwarder, Consumer

-----------------------------------------------------------------------------
\* The theorem

LEMMA DeliveryInit == Init => DeliveryInv
<1> SUFFICES ASSUME Init PROVE DeliveryInv
  OBVIOUS
<1>1. /\ rd = [pc |-> "off", done |-> FALSE, item |-> None]
      /\ fw = [pc |-> "off", val |-> None, exc |-> FALSE]
      /\ gen = [pc |-> "starting", yielded |-> <<>>, end |-> "no"]
      /\ queue = <<>> /\ ready = <<>> /\ putters = <<>>
  BY Zenon DEF Init
<1>2. /\ rd.pc = "off" /\ fw.val = None
      /\ gen.pc = "starting" /\ gen.yielded = <<>> /\ gen.end = "no"
  BY <1>1
<1>3. PipeInv /\ FreshInv /\ SyncInv /\ QueueInv
  BY <1>1, <1>2 DEF PipeInv, FreshInv, SyncInv, QueueInv
<1>4. NothingMissing
  BY <1>2 DEF NothingMissing
<1> QED
  BY <1>3, <1>4 DEF DeliveryInv

LEMMA DeliveryNext == BridgeInv /\ DeliveryInv /\ [Next]_vars => DeliveryInv'
<1> SUFFICES ASSUME BridgeInv, DeliveryInv, [Next]_vars PROVE DeliveryInv'
  OBVIOUS
<1>1. BridgeTypes /\ OffInv /\ (~astray => PublishInv) /\ StopInv /\ SlotInv
  BY DEF BridgeInv
<1>2. PipeInv /\ FreshInv /\ SyncInv /\ QueueInv /\ NothingMissing
  BY DEF DeliveryInv
<1>3. CASE Next
  <2>1. PipeInv' /\ FreshInv' /\ SyncInv'
    BY <1>1, <1>2, <1>3, PipeKept, FreshKept, SyncKept
  <2>2. QueueInv' /\ NothingMissing'
    BY <1>1, <1>2, <1>3, QueueKept, MissingKept
  <2> QED
    BY <2>1, <2>2 DEF DeliveryInv
<1>4. CASE UNCHANGED vars
  <2>1. UNCHANGED <<kind, left, closed, net, shut, rd, chan, fw, queue, ready, putters, gen, astray>>
    BY <1>4 DEF vars, server, socket, loop
  <2>2. PipeInv'
    <3>1. ASSUME NEW rp \in 0..(NBlocks + 2), Flow(rp) PROVE Flow(rp)'
      BY <2>1, <3>1 DEF Flow, InPlace, Eof
    <3>2. ASSUME NEW rp, NEW k, ChanInv(rp, k) PROVE ChanInv(rp, k)'
      <4>1. Received' = Received /\ (Ended(rp) => Ended(rp)')
        BY <2>1 DEF Received, Ended, Eof
      <4> QED
        BY <2>1, <3>2, <4>1, ChanSame
    <3>3. (Receiving' <=> Receiving) /\ UNCHANGED <<rd, chan, astray>>
      BY <2>1 DEF Receiving
    <3>4. ASSUME NEW k, AstrayChan(k) PROVE AstrayChan(k)'
      <4>1. Received' = Received
        BY <2>1 DEF Received
      <4> QED
        BY <2>1, <3>4, <4>1 DEF AstrayChan
    <3> QED
      BY <1>2, <3>1, <3>2, <3>3, <3>4, SMTT(60) DEF PipeInv
  <2>3. FreshInv' /\ SyncInv'
    BY <1>2, <2>1, Zenon DEF FreshInv, SyncInv
  <2>4. QueueInv'
    BY <1>2, <2>1, QueueSame
  <2>5. NothingMissing'
    BY <1>2, <2>1, YieldsNothing
  <2> QED
    BY <2>2, <2>3, <2>4, <2>5 DEF DeliveryInv
<1> QED
  BY <1>3, <1>4

(* query_stream of both clients: the application gets the blocks of a      *)
(* response without a gap, and an iteration that ends without an error has *)
(* yielded the last one, for every length of the response and every        *)
(* capacity of channel and queue, whatever the timeouts of the forwarder,  *)
(* wherever the connection is cut and whichever read of it fails.          *)
THEOREM NothingMissingHolds == Spec => []NothingMissing
<1>1. Init => DeliveryInv
  BY DeliveryInit
<1>2. BridgeInv /\ DeliveryInv /\ [Next]_vars => DeliveryInv'
  BY DeliveryNext
<1>3. DeliveryInv => NothingMissing
  BY DEF DeliveryInv
<1> QED
  BY <1>1, <1>2, <1>3, BridgeProtocol, PTL DEF Spec

=============================================================================
