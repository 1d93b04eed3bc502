----------------------------- MODULE TFTPProofs -----------------------------
(***************************************************************************)
(* Proofs about module TFTP, for every number of handlers and clients and   *)
(* every payload, block size and retry count.                               *)
(***************************************************************************)
EXTENDS TFTP, SequenceTheorems, TLAPS

-----------------------------------------------------------------------------
(* Bags: only the set of datagrams in flight matters below.                 *)

\* A datagram added to a bag of datagrams is one of its elements.
LEMMA BagAddFacts ==
    ASSUME NEW B, IsABag(B), NEW x
    PROVE  IsABag(BagAdd(B, x)) /\ DOMAIN BagAdd(B, x) = DOMAIN B \cup {x}
BY DEF IsABag, BagAdd

\* Taking a datagram out of a bag adds none.
LEMMA BagRemoveFacts ==
    ASSUME NEW B, IsABag(B), NEW x
    PROVE  IsABag(BagRemove(B, x)) /\ DOMAIN BagRemove(B, x) \subseteq DOMAIN B
BY DEF IsABag, BagRemove

\* Losing or duplicating a datagram puts no new one in flight.
LEMMA DeliveryFacts ==
    ASSUME NEW B, IsABag(B), NEW x \in DOMAIN B, NEW C \in Deliveries(B, x)
    PROVE  IsABag(C) /\ DOMAIN C \subseteq DOMAIN B
<1>1. CASE C = BagAdd(B, x)
  BY <1>1, BagAddFacts
<1>2. CASE C = BagRemove(B, x)
  BY <1>2, BagRemoveFacts
<1> QED
  BY <1>1, <1>2 DEF Deliveries

-----------------------------------------------------------------------------
(* The payload's chunks and their numbers.                                  *)

\* The loop test of NEXTPACKET (n == DatagramSize) holds for every block but
\* the last one, which is short even when BlockSize divides PayloadLen.
LEMMA FullFacts ==
    /\ NumBlocks \in Nat \ {0}
    /\ \A k \in 1 .. NumBlocks : Full(k) <=> k < NumBlocks
<1> DEFINE q == PayloadLen \div BlockSize
<1>1. q \in Nat
  BY PayloadAssumption, BlockSizeAssumption
<1>2. q * BlockSize <= PayloadLen /\ PayloadLen < (q + 1) * BlockSize
  BY PayloadAssumption, BlockSizeAssumption
<1>3. NumBlocks = q + 1
  BY DEF NumBlocks
<1> HIDE DEF q
<1>4. ASSUME NEW k \in 1 .. NumBlocks
      PROVE  k * BlockSize <= PayloadLen <=> k < NumBlocks
  <2>1. CASE k = q + 1
    BY <2>1, <1>1, <1>2, <1>3, PayloadAssumption, BlockSizeAssumption
  <2>2. CASE k <= q
    <3>1. PICK j \in Nat : q = k + j
      BY <2>2, <1>1, <1>3, q = k + (q - k)
    <3>2. q * BlockSize = k * BlockSize + j * BlockSize
      BY <3>1, <1>1, <1>3, BlockSizeAssumption
    <3>3. j * BlockSize \in Nat /\ k * BlockSize \in Nat /\ q * BlockSize \in Nat
      BY <3>1, <1>1, <1>3, BlockSizeAssumption
    <3> QED
      BY <2>2, <3>2, <3>3, <1>1, <1>2, <1>3, PayloadAssumption
  <2> QED
    BY <2>1, <2>2, <1>1, <1>3
<1>5. ASSUME NEW k \in 1 .. NumBlocks
      PROVE  Full(k) <=> k * BlockSize <= PayloadLen
  <2>1. (k - 1) * BlockSize = k * BlockSize - BlockSize /\ k * BlockSize \in Nat
    BY <1>1, <1>3, BlockSizeAssumption
  <2> QED
    BY <2>1, PayloadAssumption, BlockSizeAssumption DEF Full, ChunkLen
<1> QED
  BY <1>1, <1>3, <1>4, <1>5

\* Up to BlockMod blocks have different numbers, and d.Block++ computes them.
LEMMA BlockNumFacts ==
    ASSUME NoWrap
    PROVE  /\ BlockNum(0) = 0
           /\ \A k \in 0 .. NumBlocks : BlockNum(k) \in Blocks
           /\ \A j, k \in 1 .. NumBlocks : BlockNum(j) = BlockNum(k) => j = k
           /\ \A k \in 0 .. NumBlocks - 1 :
                 NextBlock(BlockNum(k)) = BlockNum(k + 1)
<1>1. \A k \in 0 .. BlockMod - 1 : BlockNum(k) = k
  BY BlockModAssumption DEF BlockNum
<1>2. BlockNum(BlockMod) = 0
  BY BlockModAssumption DEF BlockNum
<1> QED
  BY <1>1, <1>2, FullFacts, BlockModAssumption DEF NoWrap, NextBlock, Blocks

\* Serve replaces a zero Retries by a default, so at least one try is made.
LEMMA RetriesFacts == Retries \in Nat \ {0}
BY RetriesAssumption DEF Retries

-----------------------------------------------------------------------------
(* Type correctness, which needs the locals of a handler to agree with its   *)
(* control state.                                                           *)

TypeInv == TypeOK /\ HandlerInv /\ DataSource

\* The initial state is well typed.
LEMMA TypeInit == Init => TypeInv
BY FullFacts, RetriesFacts, BlockModAssumption, BoundsAssumption
DEF Init, TypeInv, TypeOK, HandlerInv, DataSource, EmptyBag, SetToBag, IsABag,
    Blocks, Buffer, Live, Ended

\* Every step of the server, of a client and of the network keeps the state
\* well typed.
LEMMA TypeStep == TypeInv /\ [Next]_vars => TypeInv'
<1> SUFFICES ASSUME TypeOK, HandlerInv, DataSource, [Next]_vars
             PROVE  TypeOK' /\ HandlerInv' /\ DataSource'
  BY DEF TypeInv
<1> USE FullFacts, RetriesFacts, BlockModAssumption, ClientAssumption
<1>1. ASSUME NEW h \in Handlers, ServeRequest(h)
      PROVE  TypeOK' /\ HandlerInv' /\ DataSource'
  <2>1. PICK r \in DOMAIN rrqs :
           rrqs' = BagRemove(rrqs, r) /\ client' = [client EXCEPT ![h] = r.client]
    BY <1>1 DEF ServeRequest
  <2>2. IsABag(rrqs') /\ DOMAIN rrqs' \subseteq Request /\ r.client \in Clients
    BY <2>1, BagRemoveFacts DEF TypeOK, Request
  <2>3. TypeOK'
    BY <1>1, <2>1, <2>2 DEF ServeRequest, TypeOK
  <2> QED
    BY <1>1, <2>1, <2>2, <2>3 DEF ServeRequest, TypeOK, HandlerInv, DataSource, Live
<1>2. ASSUME ServeReject
      PROVE  TypeOK' /\ HandlerInv' /\ DataSource'
  BY <1>2, BagRemoveFacts
  DEF ServeReject, TypeOK, HandlerInv, DataSource, handlerVars
<1>3. ASSUME ServeReturn
      PROVE  TypeOK' /\ HandlerInv' /\ DataSource'
  BY <1>3 DEF ServeReturn, TypeOK, HandlerInv, DataSource, handlerVars, netVars
<1>4. ASSUME NEW h \in Handlers, HandleStart(h)
      PROVE  TypeOK' /\ HandlerInv' /\ DataSource'
  <2>1. pos[h] = 0 /\ block[h] = 0 /\ NextBlock(block[h]) \in Blocks
    BY <1>4 DEF HandleStart, HandlerInv, NextBlock, Blocks
  <2>2. TypeOK'
    BY <1>4, <2>1 DEF HandleStart, Marshal, TypeOK, Live, netVars
  <2> QED
    BY <1>4, <2>1, <2>2
    DEF HandleStart, Marshal, TypeOK, HandlerInv, DataSource, Live, netVars
<1>5. ASSUME NEW h \in Handlers, HandleFail(h)
      PROVE  TypeOK' /\ HandlerInv' /\ DataSource'
  BY <1>5
  DEF HandleFail, TypeOK, HandlerInv, DataSource, Live, Ended, netVars
<1>6. ASSUME NEW h \in Handlers, SendData(h)
      PROVE  TypeOK' /\ HandlerInv' /\ DataSource'
  <2> DEFINE d == Packet(h)
  <2>1. pos[h] \in 1 .. NumBlocks /\ d \in DataPkt
    BY <1>6 DEF SendData, Packet, TypeOK, HandlerInv, Live, DataPkt
  <2>2. IsABag(toClient') /\ DOMAIN toClient' = DOMAIN toClient \cup {d}
    BY <1>6, BagAddFacts DEF SendData, TypeOK
  <2>3. writes[h] + 1 \in 0 .. Retries
    <3>1. writes[h] + tries[h] = Retries /\ tries[h] >= 1
      BY <1>6 DEF SendData, HandlerInv, Live
    <3>2. writes[h] \in Nat /\ tries[h] \in Nat
      BY DEF TypeOK
    <3> QED
      BY <3>1, <3>2
  <2>4. TypeOK'
    BY <1>6, <2>1, <2>2, <2>3 DEF SendData, TypeOK, Live
  <2> QED
    <3>1. HandlerInv'
      <4>1. /\ pc[h] = "send" /\ pc'[h] = "recv"
            /\ writes'[h] = writes[h] + 1
            /\ writes[h] \in Nat /\ tries[h] \in Nat
            /\ writes[h] + tries[h] = Retries
            /\ UNCHANGED <<client, pos, block, tries, buf>>
        BY <1>6 DEF SendData, TypeOK, HandlerInv, Live
      <4>2. \A g \in Handlers \ {h} : pc'[g] = pc[g] /\ writes'[g] = writes[g]
        BY <1>6 DEF SendData, TypeOK
      <4> QED
        BY <4>1, <4>2 DEF HandlerInv, Live
    <3>2. DataSource'
      BY <1>6, <2>2 DEF SendData, Packet, TypeOK, DataSource, DataPkt
    <3> QED
      BY <2>4, <3>1, <3>2
<1>7. ASSUME NEW h \in Handlers, pc[h] = "recv", Retry(h)
      PROVE  /\ pc' \in [Handlers -> {"idle", "start"} \cup Live \cup Ended]
             /\ tries' \in [Handlers -> 0 .. Retries]
             /\ \A g \in Handlers : pc'[g] \in {"send", "exhausted"} \/ g # h
             /\ pc'[h] = "send" => tries'[h] >= 1 /\ writes[h] + tries'[h] = Retries
             /\ \A g \in Handlers \ {h} : pc'[g] = pc[g] /\ tries'[g] = tries[g]
  <2>1. /\ tries[h] \in 1 .. Retries /\ writes[h] \in Nat
        /\ writes[h] + tries[h] = Retries + 1
    BY <1>7 DEF TypeOK, HandlerInv, Live
  <2>2. /\ tries' = [tries EXCEPT ![h] = @ - 1]
        /\ pc' = [pc EXCEPT ![h] = IF tries[h] > 1 THEN "send" ELSE "exhausted"]
    BY <1>7 DEF Retry
  <2>3. /\ pc \in [Handlers -> {"idle", "start"} \cup Live \cup Ended]
        /\ tries \in [Handlers -> 0 .. Retries]
    BY DEF TypeOK
  <2> QED
    BY <2>1, <2>2, <2>3 DEF Live, Ended
<1>8. ASSUME NEW h \in Handlers, Timeout(h)
      PROVE  TypeOK' /\ HandlerInv' /\ DataSource'
  <2>1. faults' \in [Handlers -> 0 .. Retries]
    BY <1>8 DEF Timeout, AddFault, TypeOK
  <2>2. pc[h] = "recv" /\ Retry(h)
    BY <1>8 DEF Timeout
  <2>3. TypeOK'
    BY <1>7, <1>8, <2>1, <2>2 DEF Timeout, Retry, TypeOK, netVars
  <2>4. HandlerInv'
    BY ZenonT(60), <1>7, <1>8, <2>2 DEF Timeout, Retry, TypeOK, HandlerInv, Live
  <2> QED
    BY <1>7, <1>8, <2>2, <2>3, <2>4
    DEF Timeout, Retry, TypeOK, DataSource, DataPkt, netVars
<1>9. ASSUME NEW h \in Handlers, NEW m \in DOMAIN toHandler, Read(h, m)
      PROVE  /\ IsABag(toHandler') /\ DOMAIN toHandler' \subseteq ReplyPkt
             /\ buf' \in [Handlers -> Buffer]
             /\ buf'[h] = Overlay(buf[h], m)
             /\ \A g \in Handlers \ {h} : buf'[g] = buf[g]
             /\ buf[h].op # "ERR"
  BY <1>9, BagRemoveFacts
  DEF Read, Overlay, TypeOK, ReplyPkt, Buffer, HandlerInv
<1>10. ASSUME NEW h \in Handlers, RecvAck(h)
       PROVE  TypeOK' /\ HandlerInv' /\ DataSource'
  <2>1. PICK m \in DOMAIN toHandler :
           Read(h, m) /\ Acks(h, Overlay(buf[h], m)) /\ NextPacket(h)
    BY <1>10 DEF RecvAck
  <2>2. pc[h] = "recv" /\ pos[h] \in 1 .. NumBlocks /\ NextBlock(block[h]) \in Blocks
    <3>1. pc[h] = "recv" /\ pos[h] >= 1 /\ pos[h] \in 0 .. NumBlocks
      BY <2>1 DEF Read, TypeOK, HandlerInv, Live
    <3>2. block[h] \in Blocks
      BY DEF TypeOK
    <3> QED
      BY <3>1, <3>2 DEF NextBlock, Blocks
  <2>3. CASE Full(pos[h]) /\ Marshal(h)
    <3>1. TypeOK'
      <4>1. /\ pos' \in [Handlers -> 0 .. NumBlocks]
            /\ block' \in [Handlers -> Blocks]
            /\ tries' \in [Handlers -> 0 .. Retries]
            /\ writes' \in [Handlers -> 0 .. Retries]
            /\ pc' \in [Handlers -> {"idle", "start"} \cup Live \cup Ended]
        BY <2>2, <2>3 DEF Marshal, TypeOK, Live
      <4> QED
        BY <1>9, <2>1, <4>1 DEF Read, TypeOK
    <3> QED
      <4>1. /\ pc'[h] = "send" /\ pos'[h] >= 1 /\ tries'[h] = Retries
            /\ writes'[h] = 0 /\ buf'[h].op = "ACK"
            /\ client' = client /\ client[h] \in Clients
        BY <1>9, <2>1, <2>2, <2>3
        DEF Read, Acks, Marshal, TypeOK, HandlerInv
      <4>2. \A g \in Handlers \ {h} :
               /\ pc'[g] = pc[g] /\ pos'[g] = pos[g] /\ tries'[g] = tries[g]
               /\ writes'[g] = writes[g] /\ block'[g] = block[g]
               /\ buf'[g] = buf[g]
        BY <1>9, <2>1, <2>3 DEF Marshal, TypeOK
      <4>3. HandlerInv'
        <5>1. client[h] # NoClient
          BY <4>1
        <5> QED
          BY <4>1, <4>2, <5>1 DEF HandlerInv, Live
      <4>4. DataSource'
        BY <2>1, <4>1, <4>2 DEF Read, TypeOK, DataSource, DataPkt
      <4> QED
        BY <3>1, <4>3, <4>4
  <2>4. CASE ~Full(pos[h]) /\ pc' = [pc EXCEPT ![h] = "sent"]
             /\ UNCHANGED <<pos, block, tries, writes>>
    <3>1. TypeOK'
      BY <1>9, <2>1, <2>2, <2>4 DEF Read, TypeOK, Ended
    <3> QED
      BY <1>9, <2>1, <2>2, <2>4, <3>1
      DEF Read, Acks, TypeOK, HandlerInv, DataSource, Live, DataPkt
  <2> QED
    BY <2>1, <2>3, <2>4 DEF NextPacket
<1>11. ASSUME NEW h \in Handlers, RecvOther(h)
       PROVE  TypeOK' /\ HandlerInv' /\ DataSource'
  <2>1. PICK m \in DOMAIN toHandler :
           Read(h, m) /\ Overlay(buf[h], m).op # "ERR" /\ Retry(h)
    BY <1>11 DEF RecvOther
  <2>2. pc[h] = "recv"
    BY <2>1 DEF Read
  <2>3. TypeOK'
    BY <1>7, <1>9, <2>1, <2>2 DEF Read, Retry, TypeOK
  <2>4. HandlerInv'
    <3>1. buf'[h].op # "ERR"
      BY <1>9, <2>1
    <3>2. UNCHANGED <<pos, block, writes, client>>
      BY <2>1 DEF Read, Retry
    <3>3. ASSUME NEW g \in Handlers, g # h
          PROVE  pc'[g] = pc[g] /\ tries'[g] = tries[g] /\ buf'[g] = buf[g]
      BY <1>7, <1>9, <2>1, <2>2, <3>3
    <3>4. /\ pc'[h] \in {"send", "exhausted"}
          /\ pc'[h] = "send" => tries'[h] >= 1 /\ writes[h] + tries'[h] = Retries
      BY <1>7, <2>1, <2>2
    <3> QED
      BY <2>2, <3>1, <3>2, <3>3, <3>4 DEF HandlerInv, Live
  <2>5. DataSource'
    <3>1. ASSUME NEW g \in Handlers, pc[g] # "idle"
          PROVE  pc'[g] # "idle"
      BY <1>7, <2>1, <2>2, <3>1
    <3> QED
      BY <2>1, <3>1 DEF Read, TypeOK, DataSource, DataPkt
  <2> QED
    BY <2>3, <2>4, <2>5
<1>12. ASSUME NEW h \in Handlers, RecvErr(h)
       PROVE  TypeOK' /\ HandlerInv' /\ DataSource'
  <2>1. PICK m \in DOMAIN toHandler :
           /\ Read(h, m)
           /\ pc' = [pc EXCEPT ![h] = "aborted"]
           /\ UNCHANGED <<pos, block, tries, writes>>
    BY <1>12 DEF RecvErr
  <2>2. TypeOK'
    BY <1>9, <2>1 DEF Read, TypeOK, Ended
  <2> QED
    BY SMTT(40), <1>9, <2>1, <2>2 DEF Read, TypeOK, HandlerInv, DataSource, Live, DataPkt
<1>13. ASSUME NEW c \in Clients, ClientRequest(c)
       PROVE  TypeOK' /\ HandlerInv' /\ DataSource'
  <2>1. PICK v \in BOOLEAN : rrqs' = BagAdd(rrqs, [client |-> c, valid |-> v])
    BY <1>13 DEF ClientRequest
  <2>2. IsABag(rrqs') /\ DOMAIN rrqs' \subseteq Request
    <3>1. [client |-> c, valid |-> v] \in Request
      BY DEF Request
    <3>2. /\ IsABag(rrqs')
          /\ DOMAIN rrqs' = DOMAIN rrqs \cup {[client |-> c, valid |-> v]}
      BY <2>1, BagAddFacts DEF TypeOK
    <3> QED
      BY <3>1, <3>2 DEF TypeOK
  <2> QED
    BY <1>13, <2>2, BoundsAssumption
    DEF ClientRequest, TypeOK, HandlerInv, DataSource, handlerVars
<1>14. ASSUME NEW d \in DOMAIN toClient, ClientReceive(d)
       PROVE  TypeOK' /\ HandlerInv' /\ DataSource'
  <2> DEFINE c == client[d.tid]
             a == Reply(d.tid, "ACK", d.block)
  <2>1. d \in DataPkt /\ c \in Clients /\ a \in ReplyPkt
    BY DEF TypeOK, DataPkt, HandlerInv, DataSource, Reply, ReplyPkt
  <2>2. /\ IsABag(toClient') /\ DOMAIN toClient' \subseteq DOMAIN toClient
        /\ IsABag(toHandler') /\ DOMAIN toHandler' \subseteq ReplyPkt
    <3>1. IsABag(toClient') /\ DOMAIN toClient' \subseteq DOMAIN toClient
      BY <1>14, BagRemoveFacts DEF ClientReceive, TypeOK
    <3>2. IsABag(toHandler') /\ DOMAIN toHandler' = DOMAIN toHandler \cup {a}
      BY <1>14, BagAddFacts DEF ClientReceive, TypeOK
    <3> QED
      BY <2>1, <3>1, <3>2 DEF TypeOK
  <2>3. file' \in [Clients -> Seq(1 .. NumBlocks)]
    BY <1>14, <2>1 DEF ClientReceive, TypeOK, DataPkt
  <2> QED
    BY <1>14, <2>2, <2>3
    DEF ClientReceive, TypeOK, HandlerInv, DataSource, handlerVars
<1>15. ASSUME NEW h \in Handlers, ClientStray(h)
       PROVE  TypeOK' /\ HandlerInv' /\ DataSource'
  <2>1. PICK o \in {"ERR", "BAD", "EMPTY"} :
           toHandler' = BagAdd(toHandler, Reply(h, o, 0))
    BY <1>15 DEF ClientStray
  <2>2. IsABag(toHandler') /\ DOMAIN toHandler' \subseteq ReplyPkt
    <3>1. Reply(h, o, 0) \in ReplyPkt
      BY DEF Reply, ReplyPkt, Blocks
    <3>2. /\ IsABag(toHandler')
          /\ DOMAIN toHandler' = DOMAIN toHandler \cup {Reply(h, o, 0)}
      BY <2>1, BagAddFacts DEF TypeOK
    <3> QED
      BY <3>1, <3>2 DEF TypeOK
  <2>3. faults' \in [Handlers -> 0 .. Retries]
    BY <1>15 DEF ClientStray, AddFault, TypeOK
  <2> QED
    BY <1>15, <2>2, <2>3, BoundsAssumption
    DEF ClientStray, TypeOK, HandlerInv, DataSource, handlerVars
<1>17. ASSUME NetworkFault
       PROVE  TypeOK' /\ HandlerInv' /\ DataSource'
  <2>1. \A h \in Handlers : AddFault(h) \in [Handlers -> 0 .. Retries]
    BY DEF AddFault, TypeOK
  <2>2. /\ IsABag(rrqs') /\ DOMAIN rrqs' \subseteq DOMAIN rrqs
        /\ IsABag(toClient') /\ DOMAIN toClient' \subseteq DOMAIN toClient
        /\ IsABag(toHandler') /\ DOMAIN toHandler' \subseteq DOMAIN toHandler
    BY <1>17, DeliveryFacts DEF NetworkFault, TypeOK
  <2>3. faults' \in [Handlers -> 0 .. Retries]
    BY <1>17, <2>1 DEF NetworkFault, TypeOK, DataPkt, ReplyPkt
  <2> QED
    BY <1>17, <2>2, <2>3, BoundsAssumption
    DEF NetworkFault, TypeOK, HandlerInv, DataSource, handlerVars
<1>18. ASSUME Discard
       PROVE  TypeOK' /\ HandlerInv' /\ DataSource'
  BY <1>18, BagRemoveFacts
  DEF Discard, TypeOK, HandlerInv, DataSource, handlerVars
<1>19. ASSUME UNCHANGED vars
       PROVE  TypeOK' /\ HandlerInv' /\ DataSource'
  BY <1>19 DEF vars, netVars, handlerVars, TypeOK, HandlerInv, DataSource
<1> QED
  BY <1>1, <1>2, <1>3, <1>4, <1>5, <1>6, <1>8, <1>10, <1>11, <1>12, <1>13,
     <1>14, <1>15, <1>17, <1>18, <1>19
  DEF Next, HandlerNext

\* Every variable keeps its type in every behaviour of the server: no counter
\* leaves its range, whatever the network and the clients do.
THEOREM TypeCorrect == Spec => []TypeOK
<1>1. TypeInv => TypeOK
  BY DEF TypeInv
<1> QED
  BY TypeInit, TypeStep, <1>1, PTL DEF Spec

-----------------------------------------------------------------------------
(* The safety of the transfer, for payloads that satisfy NoWrap.            *)

SafeInv ==
    /\ DataInv /\ AckInv /\ SenderInv
    /\ InOrder /\ StopAndWait /\ StaleBufferHarmless /\ SentMeansDelivered

\* Initially nothing is in flight and nothing is stored.
LEMMA SafeInit == Init => SafeInv
BY DEF Init, SafeInv, DataInv, AckInv, SenderInv, InOrder, StopAndWait,
       StaleBufferHarmless, SentMeansDelivered, EmptyBag, SetToBag, Live

\* A file in order has at most NumBlocks chunks, and the client stops storing
\* exactly when it has them all.
LEMMA LenFacts ==
    ASSUME TypeOK, InOrder, NEW c \in Clients
    PROVE  /\ Len(file[c]) \in 0 .. NumBlocks
           /\ Closed(c) <=> Len(file[c]) = NumBlocks
<1>1. file[c] \in Seq(1 .. NumBlocks) /\ Len(file[c]) \in Nat
  BY DEF TypeOK
<1>2. CASE Len(file[c]) = 0
  BY <1>1, <1>2, FullFacts DEF Closed
<1>3. CASE Len(file[c]) > 0
  <2>1. file[c][Len(file[c])] = Len(file[c]) /\ file[c] # <<>>
    BY <1>1, <1>3 DEF InOrder
  <2>2. file[c][Len(file[c])] \in 1 .. NumBlocks
    <3>1. Len(file[c]) \in 1 .. Len(file[c])
      BY <1>1, <1>3
    <3> QED
      BY <1>1, <3>1, ElementOfSeq
  <2> QED
    BY <2>1, <2>2, FullFacts DEF Closed
<1> QED
  BY <1>1, <1>2, <1>3

\* Steps that neither deliver nor acknowledge data keep the invariant: no new
\* packet is in flight, no file grows, and every handler stays in its block
\* or returns without success.
LEMMA QuietStep ==
    ASSUME TypeInv, SafeInv, TypeOK', UNCHANGED <<file, client, pos, block>>,
           DOMAIN toClient' \subseteq DOMAIN toClient,
           \A m \in DOMAIN toHandler' : m.op = "ACK" => m \in DOMAIN toHandler,
           \A h \in Handlers :
              /\ pc'[h] \in Live => pc[h] \in Live
              /\ pc'[h] = "sent" => pc[h] = "sent"
              /\ buf'[h].op = "ACK" =>
                    /\ \/ buf'[h] = buf[h]
                       \/ Stored(h, buf'[h].num)
                    /\ pc'[h] \in Live => ~Acks(h, buf'[h])
    PROVE  SafeInv'
<1>1. DataInv'
  BY DEF SafeInv, DataInv
<1>2. AckInv'
  BY DEF SafeInv, AckInv, Stored
<1>3. SenderInv' /\ InOrder' /\ StopAndWait' /\ SentMeansDelivered'
  BY DEF SafeInv, SenderInv, InOrder, StopAndWait, SentMeansDelivered
<1>4. StaleBufferHarmless'
  BY DEF StaleBufferHarmless, Acks
<1> QED
  BY <1>1, <1>2, <1>3, <1>4 DEF SafeInv

\* A datagram read into the buffer leaves an ACK there only if it is one for
\* a stored block, or the buffer held one before.
LEMMA OverlayFacts ==
    ASSUME TypeInv, SafeInv, NEW h \in Handlers, NEW m \in DOMAIN toHandler,
           m.tid = h, pc[h] = "recv", Overlay(buf[h], m).op = "ACK"
    PROVE  Stored(h, Overlay(buf[h], m).num)
<1>1. CASE m.op = "EMPTY"
  BY <1>1 DEF Overlay, SafeInv, AckInv
<1>2. CASE m.op # "EMPTY"
  BY <1>2 DEF Overlay, SafeInv, AckInv
<1> QED
  BY <1>1, <1>2

\* MarshalBinary prepares a block once the client has stored the ones before:
\* the ACK that the buffer may hold is not one of the new block.
LEMMA MarshalStep ==
    ASSUME NoWrap, TypeInv, SafeInv, TypeOK', NEW h \in Handlers, Marshal(h),
           UNCHANGED <<client, file, toClient>>,
           DOMAIN toHandler' \subseteq DOMAIN toHandler,
           client[h] \in Clients,
           pos[h] \in 0 .. NumBlocks - 1,
           pos[h] <= Len(file[client[h]]),
           block[h] = BlockNum(pos[h]),
           \A g \in Handlers \ {h} : buf'[g] = buf[g],
           buf'[h].op = "ACK" =>
              buf'[h].num = block[h] /\ pos[h] >= 1 /\ Stored(h, buf'[h].num)
    PROVE  SafeInv'
<1>1. /\ pos'[h] = pos[h] + 1 /\ pc'[h] = "send"
      /\ block'[h] = BlockNum(pos[h] + 1)
      /\ \A g \in Handlers \ {h} :
            pos'[g] = pos[g] /\ block'[g] = block[g] /\ pc'[g] = pc[g]
  BY BlockNumFacts DEF Marshal, TypeInv, TypeOK
<1>2. DataInv'
  BY DEF SafeInv, DataInv
<1>3. AckInv'
  BY DEF SafeInv, AckInv, Stored
<1>4. ~Acks(h, buf[h])'
  <2>1. pos[h] >= 1 => BlockNum(pos[h]) # BlockNum(pos[h] + 1)
    BY BlockNumFacts, FullFacts
  <2> QED
    BY <1>1, <2>1 DEF Acks
<1>5. SenderInv'
  BY <1>1 DEF SafeInv, SenderInv
<1>6. InOrder' /\ SentMeansDelivered'
  BY <1>1 DEF SafeInv, InOrder, SentMeansDelivered
<1>7. StopAndWait'
  <2>1. Len(file[client[h]]) \in Nat
    BY DEF TypeInv, TypeOK
  <2> QED
    BY <1>1, <2>1 DEF SafeInv, StopAndWait
<1>8. StaleBufferHarmless'
  BY <1>1, <1>4 DEF SafeInv, StaleBufferHarmless, Acks
<1> QED
  BY <1>2, <1>3, <1>5, <1>6, <1>7, <1>8 DEF SafeInv

\* A new ACK arrives only for a block the client has stored, so a handler
\* moves on only when its client has the block it has just sent.
LEMMA SafeStep ==
    ASSUME NoWrap, TypeInv, SafeInv, [Next]_vars
    PROVE  SafeInv'
<1>0. TypeInv' /\ TypeOK'
  BY TypeStep DEF TypeInv
<1>1. ASSUME NEW h \in Handlers, ServeRequest(h)
      PROVE  SafeInv'
  <2>1. /\ \A g \in Handlers \ {h} : client'[g] = client[g] /\ pc'[g] = pc[g]
        /\ client[h] \notin Clients /\ pc'[h] = "start"
        /\ \A d \in DOMAIN toClient : d.tid \in Handlers \ {h}
        /\ UNCHANGED <<toClient, toHandler, pos, block, buf, file>>
    BY <1>1, ClientAssumption
    DEF ServeRequest, TypeInv, TypeOK, HandlerInv, DataSource, DataPkt
  <2>2. ASSUME NEW g \in Handlers, NEW n, Stored(g, n)
        PROVE  Stored(g, n)'
    BY <2>1, <2>2 DEF Stored
  <2>3. DataInv'
    BY <2>1 DEF SafeInv, DataInv
  <2>4. AckInv'
    BY <2>1, <2>2 DEF SafeInv, AckInv, TypeInv, TypeOK, ReplyPkt
  <2> QED
    BY <2>1, <2>3, <2>4
    DEF SafeInv, SenderInv, InOrder, StopAndWait, StaleBufferHarmless, Acks,
        SentMeansDelivered, Live
<1>2. ASSUME ServeReject \/ ServeReturn \/ UNCHANGED vars
      PROVE  SafeInv'
  BY <1>0, <1>2, QuietStep
  DEF ServeReject, ServeReturn, vars, netVars, handlerVars, SafeInv,
      StaleBufferHarmless
<1>3. ASSUME NEW h \in Handlers, HandleStart(h)
      PROVE  SafeInv'
  <2>1. /\ pos[h] = 0 /\ block[h] = 0 /\ client[h] \in Clients
        /\ buf[h].op = "NONE"
    BY <1>3 DEF HandleStart, TypeInv, HandlerInv
  <2>2. Len(file[client[h]]) \in Nat
    BY <2>1 DEF TypeInv, TypeOK
  <2>3. Marshal(h) /\ UNCHANGED <<toClient, toHandler, client, buf, file>>
    BY <1>3 DEF HandleStart, netVars
  <2> QED
    BY <1>0, <2>1, <2>2, <2>3, MarshalStep, BlockNumFacts, FullFacts
<1>4. ASSUME NEW h \in Handlers, HandleFail(h)
      PROVE  SafeInv'
  <2>1. /\ UNCHANGED <<toClient, toHandler, client, pos, block, buf, file>>
        /\ pc'[h] = "failed" /\ \A g \in Handlers \ {h} : pc'[g] = pc[g]
    BY <1>4 DEF HandleFail, netVars, TypeInv, TypeOK
  <2> QED
    BY <1>0, <2>1, QuietStep DEF Live, SafeInv, StaleBufferHarmless
<1>5. ASSUME NEW h \in Handlers, SendData(h)
      PROVE  SafeInv'
  <2> DEFINE d == Packet(h)
  <2>1. DOMAIN toClient' = DOMAIN toClient \cup {d}
    BY <1>5, BagAddFacts DEF SendData, TypeInv, TypeOK
  <2>2. /\ UNCHANGED <<toHandler, client, pos, block, buf, file>>
        /\ pc[h] = "send" /\ pc'[h] = "recv"
        /\ \A g \in Handlers \ {h} : pc'[g] = pc[g]
    BY <1>5 DEF SendData, TypeInv, TypeOK
  <2>3. DataInv'
    BY <2>1, <2>2
    DEF Packet, SafeInv, DataInv, SenderInv, StopAndWait, Live
  <2>4. AckInv'
    BY <2>2 DEF SafeInv, AckInv, Stored
  <2> QED
    BY <2>2, <2>3, <2>4
    DEF SafeInv, SenderInv, InOrder, StopAndWait, StaleBufferHarmless, Acks,
        SentMeansDelivered, Live
<1>6. ASSUME NEW h \in Handlers, pc[h] = "recv", Retry(h)
      PROVE  /\ UNCHANGED <<pos, block>> /\ pc'[h] \in {"send", "exhausted"}
             /\ \A g \in Handlers \ {h} : pc'[g] = pc[g]
  BY <1>6 DEF Retry, TypeInv, TypeOK
<1>7. ASSUME NEW h \in Handlers, Timeout(h)
      PROVE  SafeInv'
  <2>1. /\ UNCHANGED <<toClient, toHandler, client, pos, block, buf, file>>
        /\ pc[h] = "recv" /\ pc'[h] \in {"send", "exhausted"}
        /\ \A g \in Handlers \ {h} : pc'[g] = pc[g]
    BY <1>6, <1>7 DEF Timeout, netVars
  <2> QED
    BY <1>0, <2>1, QuietStep DEF Live, SafeInv, StaleBufferHarmless
<1>8. ASSUME NEW h \in Handlers, NEW m \in DOMAIN toHandler, Read(h, m)
      PROVE  /\ pc[h] = "recv" /\ m.tid = h
             /\ DOMAIN toHandler' \subseteq DOMAIN toHandler
             /\ buf'[h] = Overlay(buf[h], m)
             /\ \A g \in Handlers \ {h} : buf'[g] = buf[g]
             /\ UNCHANGED <<toClient, client, file>>
             /\ buf'[h].op = "ACK" => Stored(h, buf'[h].num)
  <2>1. /\ pc[h] = "recv" /\ m.tid = h /\ UNCHANGED <<toClient, client, file>>
        /\ toHandler' = BagRemove(toHandler, m)
        /\ buf'[h] = Overlay(buf[h], m)
        /\ \A g \in Handlers \ {h} : buf'[g] = buf[g]
    BY <1>8 DEF Read, TypeInv, TypeOK
  <2>2. DOMAIN toHandler' \subseteq DOMAIN toHandler
    BY <2>1, BagRemoveFacts DEF TypeInv, TypeOK
  <2> QED
    BY <2>1, <2>2, OverlayFacts
<1>9. ASSUME NEW h \in Handlers, RecvAck(h)
      PROVE  SafeInv'
  <2>1. PICK m \in DOMAIN toHandler :
           Read(h, m) /\ Acks(h, Overlay(buf[h], m)) /\ NextPacket(h)
    BY <1>9 DEF RecvAck
  <2>2. /\ client[h] \in Clients /\ pos[h] \in 1 .. NumBlocks
        /\ block[h] = BlockNum(pos[h])
        /\ buf'[h].op = "ACK" /\ buf'[h].num = block[h]
        /\ Stored(h, buf'[h].num)
    BY <1>8, <2>1
    DEF Acks, TypeInv, TypeOK, HandlerInv, SafeInv, SenderInv, Live
  <2>3. pos[h] <= Len(file[client[h]]) /\ Len(file[client[h]]) \in 0 .. NumBlocks
    <3>1. Len(file[client[h]]) \in 0 .. NumBlocks
      BY <2>2, LenFacts DEF TypeInv, SafeInv
    <3>2. PICK k \in 1 .. Len(file[client[h]]) : BlockNum(pos[h]) = BlockNum(k)
      BY <2>2 DEF Stored
    <3>3. k = pos[h]
      BY <2>2, <3>1, <3>2, BlockNumFacts, FullFacts
    <3> QED
      BY <3>1, <3>2, <3>3
  <2>4. CASE Full(pos[h]) /\ Marshal(h)
    <3>1. pos[h] \in 0 .. NumBlocks - 1
      BY <2>2, <2>4, FullFacts
    <3> QED
      BY <1>0, <1>8, <2>1, <2>2, <2>3, <2>4, <3>1, MarshalStep
  <2>5. CASE /\ ~Full(pos[h]) /\ pc' = [pc EXCEPT ![h] = "sent"]
             /\ UNCHANGED <<pos, block, tries, writes>>
    <3>1. Len(file[client[h]]) = NumBlocks
      BY <2>2, <2>3, <2>5, FullFacts
    <3>2. pc'[h] = "sent" /\ \A g \in Handlers \ {h} : pc'[g] = pc[g]
      BY <2>5 DEF TypeInv, TypeOK
    <3>3. DataInv'
      BY <1>8, <2>1 DEF SafeInv, DataInv
    <3>4. AckInv'
      BY <1>8, <2>1 DEF SafeInv, AckInv, Stored
    <3>5. UNCHANGED <<client, file, pos, block>>
      BY <1>8, <2>1, <2>5
    <3>6. SenderInv' /\ InOrder' /\ StopAndWait' /\ SentMeansDelivered'
      BY <3>1, <3>2, <3>5
      DEF SafeInv, SenderInv, InOrder, StopAndWait, SentMeansDelivered, Live
    <3>7. StaleBufferHarmless'
      BY <1>8, <2>1, <3>2, <3>5
      DEF SafeInv, StaleBufferHarmless, Acks, Live
    <3> QED
      BY <3>3, <3>4, <3>6, <3>7 DEF SafeInv
  <2> QED
    BY <2>1, <2>4, <2>5 DEF NextPacket
<1>10. ASSUME NEW h \in Handlers, RecvOther(h)
       PROVE  SafeInv'
  <2>1. PICK m \in DOMAIN toHandler :
           Read(h, m) /\ ~Acks(h, Overlay(buf[h], m)) /\ Retry(h)
    BY <1>10 DEF RecvOther
  <2>2. /\ UNCHANGED <<pos, block>> /\ pc'[h] \in {"send", "exhausted"}
        /\ \A g \in Handlers \ {h} : pc'[g] = pc[g]
    BY <1>6, <1>8, <2>1
  <2> QED
    BY <1>0, <1>8, <2>1, <2>2, QuietStep DEF Live, SafeInv, StaleBufferHarmless
<1>11. ASSUME NEW h \in Handlers, RecvErr(h)
       PROVE  SafeInv'
  <2>1. PICK m \in DOMAIN toHandler :
           /\ Read(h, m)
           /\ pc' = [pc EXCEPT ![h] = "aborted"]
           /\ UNCHANGED <<pos, block>>
    BY <1>11 DEF RecvErr
  <2>2. pc'[h] = "aborted" /\ \A g \in Handlers \ {h} : pc'[g] = pc[g]
    BY <2>1 DEF TypeInv, TypeOK
  <2> QED
    BY <1>0, <1>8, <2>1, <2>2, QuietStep DEF Live, SafeInv, StaleBufferHarmless
<1>12. ASSUME NEW c \in Clients, ClientRequest(c)
       PROVE  SafeInv'
  BY <1>0, <1>12, QuietStep
  DEF ClientRequest, handlerVars, SafeInv, StaleBufferHarmless
<1>13. ASSUME NEW d \in DOMAIN toClient, ClientReceive(d)
       PROVE  SafeInv'
  <2> DEFINE c == client[d.tid]
             a == Reply(d.tid, "ACK", d.block)
  <2>1. d \in DataPkt /\ c \in Clients
    BY DEF TypeInv, TypeOK, DataPkt, HandlerInv, DataSource
  <2>2. /\ DOMAIN toClient' \subseteq DOMAIN toClient
        /\ DOMAIN toHandler' = DOMAIN toHandler \cup {a}
        /\ UNCHANGED <<pc, client, pos, block, buf>>
    <3>1. /\ toClient' = BagRemove(toClient, d)
          /\ toHandler' = BagAdd(toHandler, a)
          /\ UNCHANGED <<pc, client, pos, block, buf>>
      BY <1>13 DEF ClientReceive, handlerVars
    <3> QED
      BY <3>1, BagAddFacts, BagRemoveFacts DEF TypeInv, TypeOK
  <2>3. /\ file[c] \in Seq(1 .. NumBlocks) /\ Len(file[c]) \in 0 .. NumBlocks
        /\ Closed(c) <=> Len(file[c]) = NumBlocks
        /\ d.chunk \in 1 .. NumBlocks /\ d.chunk <= Len(file[c]) + 1
        /\ d.block = BlockNum(d.chunk)
    BY <2>1, LenFacts DEF TypeInv, TypeOK, SafeInv, DataInv, DataPkt
  \* The step stores the next chunk, or the chunk is stored already.
  <2>4. \/ /\ file' = [file EXCEPT ![c] = Append(@, d.chunk)]
           /\ d.chunk = Len(file[c]) + 1
        \/ /\ file' = file
           /\ d.chunk <= Len(file[c])
    <3>1. CASE Expected(c, d)
      <4>1. Len(file[c]) + 1 \in 1 .. NumBlocks
        BY <2>3, <3>1, FullFacts DEF Expected
      <4>2. d.chunk = Len(file[c]) + 1
        BY <2>3, <3>1, <4>1, BlockNumFacts DEF Expected
      <4> QED
        BY <1>13, <3>1, <4>2 DEF ClientReceive
    <3>2. CASE ~Expected(c, d)
      <4>1. d.chunk # Len(file[c]) + 1
        BY <2>3, <3>2, FullFacts DEF Expected
      <4> QED
        BY <1>13, <2>3, <3>2, <4>1 DEF ClientReceive
    <3> QED
      BY <3>1, <3>2
  <2>5. /\ \A b \in Clients :
              /\ Len(file'[b]) \in Nat /\ Len(file[b]) \in Nat
              /\ Len(file'[b]) >= Len(file[b])
              /\ Len(file[b]) = NumBlocks => file'[b] = file[b]
        /\ d.chunk <= Len(file'[c])
        /\ \A i \in 1 .. Len(file'[c]) : file'[c][i] = i
        /\ \A b \in Clients \ {c} : file'[b] = file[b]
    <3>1. CASE file' = file /\ d.chunk <= Len(file[c])
      BY <2>1, <3>1 DEF TypeInv, TypeOK, SafeInv, InOrder
    <3>2. CASE /\ file' = [file EXCEPT ![c] = Append(@, d.chunk)]
               /\ d.chunk = Len(file[c]) + 1
      <4>1. file'[c] = Append(file[c], d.chunk)
        BY <2>1, <3>2 DEF TypeInv, TypeOK
      <4>2. /\ Len(file'[c]) = Len(file[c]) + 1
            /\ \A i \in 1 .. Len(file[c]) : file'[c][i] = file[c][i]
            /\ file'[c][Len(file[c]) + 1] = d.chunk
        BY <2>3, <4>1, AppendProperties
      <4>3. \A b \in Clients \ {c} : file'[b] = file[b]
        BY <3>2 DEF TypeInv, TypeOK
      <4>4. \A b \in Clients : Len(file[b]) \in Nat
        BY DEF TypeInv, TypeOK
      <4>5. \A i \in 1 .. Len(file'[c]) : file'[c][i] = i
        BY <2>1, <2>3, <3>2, <4>2 DEF SafeInv, InOrder
      <4>6. Len(file[c]) # NumBlocks
        BY <2>3, <3>2, FullFacts
      <4>7. d.chunk <= Len(file'[c]) /\ Len(file[c]) \in Nat /\ Len(file'[c]) \in Nat
        BY <2>3, <3>2, <4>2, <4>4
      <4>8. ASSUME NEW b \in Clients
            PROVE  /\ Len(file'[b]) \in Nat /\ Len(file[b]) \in Nat
                   /\ Len(file'[b]) >= Len(file[b])
                   /\ Len(file[b]) = NumBlocks => file'[b] = file[b]
        <5>1. CASE b = c
          BY <4>2, <4>6, <4>7, <5>1
        <5>2. CASE b # c
          <6>1. file'[b] = file[b] /\ Len(file[b]) \in Nat
            BY <4>3, <4>4, <5>2
          <6>2. Len(file[b]) >= Len(file[b])
            BY <6>1
          <6> QED
            BY <6>1, <6>2
        <5> QED
          BY <5>1, <5>2
      <4> QED
        BY <4>3, <4>5, <4>7, <4>8
    <3> QED
      BY <2>4, <3>1, <3>2
  <2>6. ASSUME NEW g \in Handlers, NEW n, Stored(g, n)
        PROVE  Stored(g, n)'
    BY <2>2, <2>5, <2>6 DEF Stored
  <2>7. DataInv'
    <3>1. ASSUME NEW e \in DOMAIN toClient
          PROVE  /\ client[e.tid] \in Clients /\ e.chunk \in Nat
                 /\ e.block = BlockNum(e.chunk)
                 /\ e.chunk <= Len(file[client[e.tid]]) + 1
      BY DEF TypeInv, TypeOK, HandlerInv, DataSource, DataPkt, SafeInv, DataInv
    <3>2. ASSUME NEW e \in DOMAIN toClient'
          PROVE  e.chunk <= Len(file'[client[e.tid]]) + 1
      BY <2>2, <2>5, <3>1
    <3> QED
      BY <2>2, <3>1, <3>2 DEF DataInv
  <2>8. AckInv'
    <3>1. Stored(d.tid, d.block)'
      BY <2>1, <2>2, <2>3, <2>5 DEF Stored
    <3>2. a.op = "ACK" /\ a.tid = d.tid /\ a.num = d.block
      BY DEF Reply
    <3>3. ASSUME NEW m \in DOMAIN toHandler', m.op = "ACK"
          PROVE  Stored(m.tid, m.num)'
      <4>1. CASE m = a
        BY <3>1, <3>2, <4>1
      <4>2. CASE m \in DOMAIN toHandler
        <5>1. m.tid \in Handlers /\ Stored(m.tid, m.num)
          BY <3>3, <4>2 DEF TypeInv, TypeOK, ReplyPkt, SafeInv, AckInv
        <5> QED
          BY <2>6, <5>1
      <4> QED
        BY <2>2, <4>1, <4>2
    <3>4. ASSUME NEW h \in Handlers, buf[h].op = "ACK"
          PROVE  Stored(h, buf[h].num)'
      <4>1. Stored(h, buf[h].num)
        BY <3>4 DEF SafeInv, AckInv
      <4> QED
        BY <2>2, <2>6, <4>1
    <3> QED
      BY <2>2, <3>3, <3>4 DEF AckInv
  <2>9. InOrder'
    BY <2>5 DEF SafeInv, InOrder
  <2>10. StopAndWait' /\ SentMeansDelivered'
    <3>1. \A h \in Handlers :
             /\ pc[h] # "idle" => client[h] \in Clients
             /\ pos[h] \in Nat
      BY DEF TypeInv, TypeOK, HandlerInv
    <3> QED
      BY <2>2, <2>5, <3>1
      DEF SafeInv, StopAndWait, SentMeansDelivered, Live
  <2>11. SenderInv' /\ StaleBufferHarmless'
    BY <2>2 DEF SafeInv, SenderInv, StaleBufferHarmless, Acks
  <2> QED
    BY <2>7, <2>8, <2>9, <2>10, <2>11 DEF SafeInv
<1>14. ASSUME NEW h \in Handlers, ClientStray(h)
       PROVE  SafeInv'
  <2>1. PICK o \in {"ERR", "BAD", "EMPTY"} :
           toHandler' = BagAdd(toHandler, Reply(h, o, 0))
    BY <1>14 DEF ClientStray
  <2>2. DOMAIN toHandler' = DOMAIN toHandler \cup {Reply(h, o, 0)}
    BY <2>1, BagAddFacts DEF TypeInv, TypeOK
  <2>3. Reply(h, o, 0).op # "ACK"
    BY DEF Reply
  <2>4. UNCHANGED <<toClient, pc, client, pos, block, buf, file>>
    BY <1>14 DEF ClientStray, handlerVars
  <2> QED
    BY <1>0, <2>2, <2>3, <2>4, QuietStep DEF SafeInv, StaleBufferHarmless
<1>15. ASSUME NetworkFault
       PROVE  SafeInv'
  <2>1. /\ DOMAIN toClient' \subseteq DOMAIN toClient
        /\ DOMAIN toHandler' \subseteq DOMAIN toHandler
    BY <1>15, DeliveryFacts DEF NetworkFault, TypeInv, TypeOK
  <2>2. UNCHANGED <<pc, client, pos, block, buf, file>>
    BY <1>15 DEF NetworkFault, handlerVars
  <2> QED
    BY <1>0, <2>1, <2>2, QuietStep DEF SafeInv, StaleBufferHarmless
<1>16. ASSUME Discard
       PROVE  SafeInv'
  <2>1. DOMAIN toHandler' \subseteq DOMAIN toHandler
    BY <1>16, BagRemoveFacts DEF Discard, TypeInv, TypeOK
  <2>2. UNCHANGED <<toClient, pc, client, pos, block, buf, file>>
    BY <1>16 DEF Discard, handlerVars
  <2> QED
    BY <1>0, <2>1, <2>2, QuietStep DEF SafeInv, StaleBufferHarmless
<1> QED
  BY <1>1, <1>2, <1>3, <1>4, <1>5, <1>7, <1>9, <1>10, <1>11, <1>12, <1>13,
     <1>14, <1>15, <1>16
  DEF Next, HandlerNext

\* The invariant TLC checks is the one proved inductive here.
LEMMA IndInvFacts == TypeInv /\ SafeInv <=> IndInv
BY DEF TypeInv, SafeInv, IndInv

\* For a payload whose block numbers do not repeat, IndInv holds throughout.
THEOREM Inductive == ASSUME NoWrap PROVE Spec => []IndInv
<1>1. TypeInv /\ SafeInv /\ [Next]_vars => (TypeInv /\ SafeInv)'
  BY TypeStep, SafeStep
<1> QED
  BY TypeInit, SafeInit, <1>1, IndInvFacts, PTL DEF Spec

\* Every client file is a prefix of the payload, in order and without
\* duplicates, whatever is lost, duplicated, reordered or retransmitted.
THEOREM FilesInOrder == ASSUME NoWrap PROVE Spec => []InOrder
<1>1. IndInv => InOrder
  BY DEF IndInv
<1> QED
  BY Inductive, <1>1, PTL

\* A handler that logs "sent %d blocks" has delivered the whole payload.
THEOREM SentImpliesDelivered == ASSUME NoWrap PROVE Spec => []SentMeansDelivered
<1>1. IndInv => SentMeansDelivered
  BY DEF IndInv
<1> QED
  BY Inductive, <1>1, PTL

\* A handler is never more than one block ahead of its client.
THEOREM OneBlockAhead == ASSUME NoWrap PROVE Spec => []StopAndWait
<1>1. IndInv => StopAndWait
  BY DEF IndInv
<1> QED
  BY Inductive, <1>1, PTL

\* What an earlier datagram left in buf never passes for the awaited ACK.
THEOREM StaleBuffer == ASSUME NoWrap PROVE Spec => []StaleBufferHarmless
<1>1. IndInv => StaleBufferHarmless
  BY DEF IndInv
<1> QED
  BY Inductive, <1>1, PTL

-----------------------------------------------------------------------------
(* The server implements the abstract file transfer.                        *)

\* The abstract status of every handler.
StatusMap == [h \in Handlers |-> Status(pc[h])]

\* A step that changes one handler's control state, within one status or from
\* "active" to another, is an abstract step.
LEMMA HandlerStatus ==
    ASSUME TypeOK, NEW h \in Handlers, pc[h] \in {"start"} \cup Live,
           NEW p, pc' = [pc EXCEPT ![h] = p], UNCHANGED <<client, file>>,
           \/ p \in Live \cup {"exhausted", "aborted", "failed"}
           \/ p = "sent" /\ Len(file[client[h]]) = NumBlocks
    PROVE  [Abs!Next]_(Abs!vars)
<1>1. /\ StatusMap' = [StatusMap EXCEPT ![h] = Status(p)]
      /\ StatusMap[h] = "active"
  BY DEF StatusMap, Status, TypeOK, Live, Ended
<1>2. CASE p \in Live
  <2>1. StatusMap' = StatusMap
    BY <1>1, <1>2 DEF StatusMap, Status, Live, Ended
  <2> QED
    BY <2>1 DEF Abs!vars, StatusMap
<1>3. CASE p \in {"exhausted", "aborted", "failed"}
  <2>1. Status(p) = "gaveup"
    BY <1>3 DEF Status, Ended
  <2>2. Abs!GiveUp(h)
    BY <1>1, <2>1 DEF Abs!GiveUp, StatusMap
  <2> QED
    BY <2>2 DEF Abs!Next
<1>4. CASE p = "sent" /\ Len(file[client[h]]) = NumBlocks
  <2>1. Status(p) = "done"
    BY <1>4 DEF Status, Ended
  <2>2. Abs!Finish(h)
    BY <1>1, <1>4, <2>1 DEF Abs!Finish, StatusMap
  <2> QED
    BY <2>2 DEF Abs!Next
<1> QED
  BY <1>2, <1>3, <1>4

\* Every step of the server is a step of the abstract one, or changes nothing
\* that it sees.
LEMMA RefinementStep ==
    ASSUME NoWrap, TypeInv, SafeInv, TypeInv', SafeInv', [Next]_vars
    PROVE  [Abs!Next]_(Abs!vars)
<1> USE DEF TypeInv
<1>1. ASSUME NEW h \in Handlers, ServeRequest(h)
      PROVE  [Abs!Next]_(Abs!vars)
  <2>1. PICK c \in Clients : client' = [client EXCEPT ![h] = c]
    BY <1>1 DEF ServeRequest, TypeOK, Request
  <2>2. StatusMap[h] = "none" /\ StatusMap' = [StatusMap EXCEPT ![h] = "active"]
    BY <1>1 DEF ServeRequest, StatusMap, Status, TypeOK, Ended
  <2>3. Abs!Accept(h, c)
    BY <1>1, <2>1, <2>2 DEF ServeRequest, Abs!Accept, StatusMap
  <2> QED
    BY <2>3 DEF Abs!Next
<1>2. ASSUME UNCHANGED <<pc, client, file>>
      PROVE  [Abs!Next]_(Abs!vars)
  BY <1>2 DEF Abs!vars
<1>3. ASSUME NEW h \in Handlers, HandleStart(h) \/ HandleFail(h) \/ SendData(h)
      PROVE  [Abs!Next]_(Abs!vars)
  <2>1. /\ pc[h] \in {"start"} \cup Live /\ UNCHANGED <<client, file>>
        /\ \E p \in Live \cup {"failed"} : pc' = [pc EXCEPT ![h] = p]
    BY <1>3 DEF HandleStart, Marshal, HandleFail, SendData, Live
  <2> QED
    BY <2>1, HandlerStatus
<1>4. ASSUME NEW h \in Handlers, Timeout(h) \/ RecvOther(h) \/ RecvErr(h)
      PROVE  [Abs!Next]_(Abs!vars)
  <2>1. /\ pc[h] \in {"start"} \cup Live /\ UNCHANGED <<client, file>>
        /\ \E p \in Live \cup {"exhausted", "aborted"} : pc' = [pc EXCEPT ![h] = p]
    BY <1>4 DEF Timeout, RecvOther, RecvErr, Read, Retry, Live
  <2> QED
    BY <2>1, HandlerStatus
<1>5. ASSUME NEW h \in Handlers, RecvAck(h)
      PROVE  [Abs!Next]_(Abs!vars)
  <2>1. /\ pc[h] = "recv" /\ UNCHANGED <<client, file>>
        /\ \E p \in {"send", "sent"} : pc' = [pc EXCEPT ![h] = p]
    BY <1>5 DEF RecvAck, Read, NextPacket, Marshal
  <2>2. pc'[h] = "sent" => Len(file'[client'[h]]) = NumBlocks
    BY DEF SafeInv, SentMeansDelivered
  <2>3. PICK p \in {"send", "sent"} : pc' = [pc EXCEPT ![h] = p]
    BY <2>1
  <2>4. p = "sent" => Len(file[client[h]]) = NumBlocks
    BY <2>1, <2>2, <2>3 DEF TypeOK
  <2> QED
    BY <2>1, <2>3, <2>4, HandlerStatus DEF Live
<1>6. ASSUME NEW d \in DOMAIN toClient, ClientReceive(d)
      PROVE  [Abs!Next]_(Abs!vars)
  <2> DEFINE c == client[d.tid]
  <2>1. /\ d \in DataPkt /\ c \in Clients /\ pc[d.tid] # "idle"
        /\ UNCHANGED <<pc, client>>
    BY <1>6
    DEF TypeOK, DataPkt, HandlerInv, DataSource, ClientReceive, handlerVars
  <2>2. /\ Len(file[c]) \in 0 .. NumBlocks
        /\ Closed(c) <=> Len(file[c]) = NumBlocks
        /\ d.chunk \in 1 .. NumBlocks /\ d.block = BlockNum(d.chunk)
    BY <2>1, LenFacts DEF TypeOK, SafeInv, DataInv, DataPkt
  <2>3. CASE Expected(c, d)
    <3>1. Len(file[c]) < NumBlocks /\ d.chunk = Len(file[c]) + 1
      <4>1. Len(file[c]) < NumBlocks
        BY <2>2, <2>3, FullFacts DEF Expected
      <4>2. Len(file[c]) + 1 \in 1 .. NumBlocks
        BY <2>2, <4>1, FullFacts
      <4> QED
        BY <2>2, <2>3, <4>1, <4>2, BlockNumFacts DEF Expected
    <3>2. pc[d.tid] # "sent"
      BY <2>1, <3>1 DEF SafeInv, SentMeansDelivered, DataPkt
    <3>3. d.tid \in Handlers /\ StatusMap[d.tid] \in {"active", "gaveup"}
      BY <2>1, <3>2 DEF StatusMap, Status, DataPkt
    <3>4. file' = [file EXCEPT ![c] = Append(@, Len(@) + 1)]
      BY <1>6, <2>1, <2>3, <3>1 DEF ClientReceive, TypeOK
    <3>5. Abs!Store(c)
      BY <2>1, <3>1, <3>3, <3>4 DEF Abs!Store, StatusMap
    <3> QED
      BY <2>1, <3>5 DEF Abs!Next
  <2>4. CASE ~Expected(c, d)
    BY <1>2, <1>6, <2>1, <2>4 DEF ClientReceive
  <2> QED
    BY <2>3, <2>4
<1>7. ASSUME NEW h \in Handlers, ClientStray(h)
      PROVE  [Abs!Next]_(Abs!vars)
  BY <1>2, <1>7 DEF ClientStray, handlerVars
<1>8. ASSUME NEW c \in Clients, ClientRequest(c)
      PROVE  [Abs!Next]_(Abs!vars)
  BY <1>2, <1>8 DEF ClientRequest, handlerVars
<1>9. ASSUME \/ ServeReject \/ ServeReturn \/ NetworkFault \/ Discard
             \/ UNCHANGED vars
      PROVE  [Abs!Next]_(Abs!vars)
  BY <1>2, <1>9
  DEF ServeReject, ServeReturn, NetworkFault, Discard, vars, handlerVars
<1> QED
  BY <1>1, <1>3, <1>4, <1>5, <1>6, <1>7, <1>8, <1>9 DEF Next, HandlerNext

\* The server implements the abstract file transfer, for every payload whose
\* block numbers do not repeat.
THEOREM Refinement == ASSUME NoWrap PROVE Spec => ImplementsFileTransfer
<1>1. Init => Abs!Init
  BY DEF Init, Abs!Init, Status
<1>2. TypeInv /\ SafeInv /\ [Next]_vars => (TypeInv /\ SafeInv)'
  BY TypeStep, SafeStep
<1>3. /\ TypeInv /\ SafeInv /\ (TypeInv /\ SafeInv)' /\ [Next]_vars
      => [Abs!Next]_(Abs!vars)
  BY RefinementStep
<1> QED
  BY TypeInit, SafeInit, <1>1, <1>2, <1>3, PTL
  DEF Spec, ImplementsFileTransfer, Abs!Spec

\* Finite sets, as FiniteSetTheorems states about its own copy of FiniteSets.
Finite == INSTANCE FiniteSetTheorems

LEMMA SameSets ==
    ASSUME NEW S
    PROVE  /\ Finite!IsFiniteSet(S) <=> IsFiniteSet(S)
           /\ Finite!Cardinality(S) = Cardinality(S)
<1>1. Finite!IsFiniteSet(S) <=> IsFiniteSet(S)
  BY SMT DEF Finite!IsFiniteSet, IsFiniteSet
<1>2. Finite!Cardinality(S) = Cardinality(S)
  BY SMT DEF Finite!Cardinality, Cardinality
<1> QED
  BY <1>1, <1>2

LEMMA SetCount == ASSUME NEW S, IsFiniteSet(S) PROVE Cardinality(S) \in Nat
BY SameSets, Finite!FS_CardinalityType

LEMMA SetAdds ==
    ASSUME NEW S, NEW x, x \notin S, IsFiniteSet(S)
    PROVE  /\ IsFiniteSet(S \cup {x})
           /\ Cardinality(S \cup {x}) = Cardinality(S) + 1
BY SameSets, Finite!FS_AddElement

LEMMA SetLoses ==
    ASSUME NEW S, NEW x \in S, IsFiniteSet(S)
    PROVE  /\ IsFiniteSet(S \ {x})
           /\ Cardinality(S) = Cardinality(S \ {x}) + 1
<1>1. IsFiniteSet(S \ {x}) /\ Cardinality(S \ {x}) = Cardinality(S) - 1
  BY SameSets, Finite!FS_RemoveElement
<1> QED
  BY <1>1, SetCount

LEMMA SetPart ==
    ASSUME NEW S, NEW T \in SUBSET S, IsFiniteSet(S)
    PROVE  IsFiniteSet(T) /\ Cardinality(T) <= Cardinality(S)
BY SameSets, Finite!FS_Subset

-----------------------------------------------------------------------------
(* GiveUpNeedsFaults.  Each datagram of an exchange that is on its way more  *)
(* than the one that is needed, and each try that the current block has      *)
(* cost, goes back to a fault of its own.                                    *)

\* The datagrams of a bag that are in D, each as often as it is there.
Copies(B, D) == UNION {{x} \X (1 .. B[x]) : x \in DOMAIN B \cap D}
Count(B, D) == Cardinality(Copies(B, D))

\* The datagrams of handler h's exchange, and those not about block b.
Sent(h) == {d \in DataPkt : d.tid = h}
Replies(h) == {m \in ReplyPkt : m.tid = h}
OtherSent(h, b) == {d \in Sent(h) : d.block # b}
OtherReplies(h, b) == {m \in Replies(h) : ~(m.op = "ACK" /\ m.num = b)}

\* How many there are, A being on the way to the clients and B to the handlers.
Bounded(A, B, h) ==
    IsFiniteSet(Copies(A, Sent(h))) /\ IsFiniteSet(Copies(B, Replies(h)))
All(A, B, h) == Count(A, Sent(h)) + Count(B, Replies(h))
Other(A, B, h, b) == Count(A, OtherSent(h, b)) + Count(B, OtherReplies(h, b))

\* What f faults account for, with t datagrams on the way, s of them not about
\* the current block, and n tries left of r.
Starting(r, f, t) == f = r \/ t <= f
Sending(r, f, n, t, s) == f = r \/ (t <= f /\ (r - n) + s <= f)
Waiting(r, f, n, t, s) ==
    \/ f = r
    \/ /\ t <= f + 1
       /\ (r - n) + s <= f
       /\ t = s => (r - n) + s + 1 <= f

\* One fault more; and one datagram more or less.
More(r, f) == IF f < r THEN f + 1 ELSE f
Changed(t, s, u, v) ==
    \/ u = t + 1 /\ (v = s \/ v = s + 1)
    \/ t = u + 1 /\ (s = v \/ s = v + 1)

Blamed(h) ==
    LET f == faults[h]
        t == All(toClient, toHandler, h)
        s == Other(toClient, toHandler, h, block[h])
    IN  /\ pc[h] \in {"idle", "start"} => Starting(Retries, f, t)
        /\ pc[h] = "send" => Sending(Retries, f, tries[h], t, s)
        /\ pc[h] = "recv" => Waiting(Retries, f, tries[h], t, s)
        /\ pc[h] = "exhausted" => f = Retries

BlameInv == \A h \in Handlers : Bounded(toClient, toHandler, h) /\ Blamed(h)

\* One copy more or less.
LEMMA CopyAdded ==
    ASSUME NEW B, IsABag(B), NEW x, NEW D, IsFiniteSet(Copies(B, D))
    PROVE  /\ IsFiniteSet(Copies(BagAdd(B, x), D))
           /\ Count(B, D) \in Nat
           /\ x \in D => Count(BagAdd(B, x), D) = Count(B, D) + 1
           /\ x \notin D => Count(BagAdd(B, x), D) = Count(B, D)
<1> DEFINE n == IF x \in DOMAIN B THEN B[x] ELSE 0
<1>1. n \in Nat /\ \A y \in DOMAIN B : B[y] \in Nat
  BY DEF IsABag
<1>2. /\ DOMAIN BagAdd(B, x) = DOMAIN B \cup {x}
      /\ BagAdd(B, x)[x] = n + 1
      /\ \A y \in DOMAIN B \ {x} : BagAdd(B, x)[y] = B[y]
  BY DEF BagAdd
<1>3. CASE x \in D
  <2>1. Copies(BagAdd(B, x), D) = Copies(B, D) \cup {<<x, n + 1>>}
    BY <1>1, <1>2, <1>3 DEF Copies
  <2>2. <<x, n + 1>> \notin Copies(B, D)
    BY <1>1 DEF Copies
  <2> QED
    BY <1>3, <2>1, <2>2, SetAdds, SetCount DEF Count
<1>4. CASE x \notin D
  <2>1. Copies(BagAdd(B, x), D) = Copies(B, D)
    BY <1>2, <1>4 DEF Copies
  <2> QED
    BY <1>4, <2>1, SetCount DEF Count
<1> QED
  BY <1>3, <1>4

LEMMA CopyTaken ==
    ASSUME NEW B, IsABag(B), NEW x \in DOMAIN B, NEW D, IsFiniteSet(Copies(B, D))
    PROVE  /\ IsFiniteSet(Copies(BagRemove(B, x), D))
           /\ Count(B, D) \in Nat
           /\ x \in D => Count(B, D) = Count(BagRemove(B, x), D) + 1
           /\ x \notin D => Count(BagRemove(B, x), D) = Count(B, D)
<1> DEFINE n == B[x]
           C == BagRemove(B, x)
<1>1. n \in Nat \ {0} /\ \A y \in DOMAIN B : B[y] \in Nat
  BY DEF IsABag
<1>2. /\ x \in DOMAIN C <=> n # 1
      /\ n # 1 => C[x] = n - 1
      /\ DOMAIN C \subseteq DOMAIN B /\ DOMAIN B \ {x} \subseteq DOMAIN C
      /\ \A y \in DOMAIN B \ {x} : C[y] = B[y]
  BY <1>1 DEF BagRemove
<1> HIDE DEF C
<1>3. CASE x \in D
  <2>1. Copies(C, D) = Copies(B, D) \ {<<x, n>>}
    <3>1. \A y \in DOMAIN B \ {x} : y \in DOMAIN C /\ C[y] = B[y]
      BY <1>2
    <3>2. \A i : i \in 1 .. n /\ i # n <=> n # 1 /\ i \in 1 .. n - 1
      BY <1>1
    <3>3. \A y, i : <<y, i>> \in Copies(C, D) <=> y \in DOMAIN C \cap D /\ i \in 1 .. C[y]
      BY DEF Copies
    <3>4. \A y, i : <<y, i>> \in Copies(B, D) <=> y \in DOMAIN B \cap D /\ i \in 1 .. B[y]
      BY DEF Copies
    <3>5. /\ \A c \in Copies(C, D) : c = <<c[1], c[2]>>
          /\ \A c \in Copies(B, D) : c = <<c[1], c[2]>>
      BY DEF Copies
    <3>6. \A y, i : <<y, i>> \in Copies(C, D)
                       <=> <<y, i>> \in Copies(B, D) /\ ~(y = x /\ i = n)
      BY <1>2, <1>3, <3>1, <3>2, <3>3, <3>4
    <3> QED
      BY <3>5, <3>6
  <2>2. <<x, n>> \in Copies(B, D)
    BY <1>1, <1>3 DEF Copies
  <2>3. IsFiniteSet(Copies(C, D)) /\ Count(B, D) = Count(C, D) + 1
    BY <2>1, <2>2, SetLoses DEF Count
  <2>4. Count(B, D) \in Nat
    BY SetCount DEF Count
  <2> QED
    BY <1>3, <2>3, <2>4 DEF C
<1>4. CASE x \notin D
  <2>1. Copies(C, D) = Copies(B, D)
    BY <1>2, <1>4 DEF Copies
  <2> QED
    BY <1>4, <2>1, SetCount DEF Count, C
<1> QED
  BY <1>3, <1>4

\* Fewer are not about the current block than there are; if all are, and there
\* are as many, then none is about it.
LEMMA CountFacts ==
    ASSUME NEW A, NEW B, NEW h, NEW b, Bounded(A, B, h)
    PROVE  /\ All(A, B, h) \in Nat /\ Other(A, B, h, b) \in Nat
           /\ Other(A, B, h, b) <= All(A, B, h)
           /\ IsFiniteSet(Copies(A, OtherSent(h, b)))
           /\ IsFiniteSet(Copies(B, OtherReplies(h, b)))
<1>1. /\ Copies(A, OtherSent(h, b)) \in SUBSET Copies(A, Sent(h))
      /\ Copies(B, OtherReplies(h, b)) \in SUBSET Copies(B, Replies(h))
  BY DEF Copies, OtherSent, OtherReplies
<1>2. /\ IsFiniteSet(Copies(A, OtherSent(h, b)))
      /\ IsFiniteSet(Copies(B, OtherReplies(h, b)))
      /\ Count(A, OtherSent(h, b)) <= Count(A, Sent(h))
      /\ Count(B, OtherReplies(h, b)) <= Count(B, Replies(h))
  BY <1>1, SetPart DEF Bounded, Count
<1>3. /\ Count(A, OtherSent(h, b)) \in Nat /\ Count(A, Sent(h)) \in Nat
      /\ Count(B, OtherReplies(h, b)) \in Nat /\ Count(B, Replies(h)) \in Nat
  BY <1>2, SetCount DEF Bounded, Count
<1> QED
  BY <1>2, <1>3 DEF All, Other

\* How the numbers change with one datagram, for the exchange it belongs to and
\* for the others.
LEMMA OneSent ==
    ASSUME NEW A, NEW B, IsABag(A), NEW x \in DataPkt, NEW h, NEW b, Bounded(A, B, h)
    PROVE  /\ Bounded(BagAdd(A, x), B, h)
           /\ All(BagAdd(A, x), B, h) =
                 IF x.tid = h THEN All(A, B, h) + 1 ELSE All(A, B, h)
           /\ Other(BagAdd(A, x), B, h, b) =
                 IF x.tid = h /\ x.block # b THEN Other(A, B, h, b) + 1
                 ELSE Other(A, B, h, b)
<1>1. /\ x \in Sent(h) <=> x.tid = h
      /\ x \in OtherSent(h, b) <=> x.tid = h /\ x.block # b
  BY DEF Sent, OtherSent
<1>2. Count(B, Replies(h)) \in Nat /\ Count(B, OtherReplies(h, b)) \in Nat
  BY CountFacts, SetCount DEF Bounded, Count
<1> DEFINE C == BagAdd(A, x)
<1>3. /\ IsFiniteSet(Copies(C, Sent(h))) /\ Count(A, Sent(h)) \in Nat
      /\ Count(C, Sent(h)) =
            IF x.tid = h THEN Count(A, Sent(h)) + 1 ELSE Count(A, Sent(h))
  BY <1>1, CopyAdded DEF Bounded
<1>4. /\ Count(A, OtherSent(h, b)) \in Nat
      /\ Count(C, OtherSent(h, b)) =
            IF x.tid = h /\ x.block # b THEN Count(A, OtherSent(h, b)) + 1
            ELSE Count(A, OtherSent(h, b))
  BY <1>1, CopyAdded, CountFacts
<1> HIDE DEF C
<1>5. Bounded(C, B, h)
  BY <1>3 DEF Bounded
<1>6. All(C, B, h) = IF x.tid = h THEN All(A, B, h) + 1 ELSE All(A, B, h)
  BY <1>2, <1>3 DEF All
<1>7. Other(C, B, h, b) = IF x.tid = h /\ x.block # b THEN Other(A, B, h, b) + 1
                          ELSE Other(A, B, h, b)
  BY <1>2, <1>4 DEF Other
<1> QED
  BY <1>5, <1>6, <1>7 DEF C

LEMMA OneArrived ==
    ASSUME NEW A, NEW B, IsABag(A), NEW x \in DOMAIN A, x \in DataPkt, NEW h, NEW b,
           Bounded(A, B, h)
    PROVE  /\ Bounded(BagRemove(A, x), B, h)
           /\ All(A, B, h) = IF x.tid = h THEN All(BagRemove(A, x), B, h) + 1
                             ELSE All(BagRemove(A, x), B, h)
           /\ Other(A, B, h, b) = IF x.tid = h /\ x.block # b
                                  THEN Other(BagRemove(A, x), B, h, b) + 1
                                  ELSE Other(BagRemove(A, x), B, h, b)
<1>1. /\ x \in Sent(h) <=> x.tid = h
      /\ x \in OtherSent(h, b) <=> x.tid = h /\ x.block # b
  BY DEF Sent, OtherSent
<1>2. Count(B, Replies(h)) \in Nat /\ Count(B, OtherReplies(h, b)) \in Nat
  BY CountFacts, SetCount DEF Bounded, Count
<1> DEFINE C == BagRemove(A, x)
<1>3. /\ IsFiniteSet(Copies(C, Sent(h))) /\ Count(A, Sent(h)) \in Nat
      /\ x.tid = h => Count(A, Sent(h)) = Count(C, Sent(h)) + 1
      /\ x.tid # h => Count(C, Sent(h)) = Count(A, Sent(h))
  BY <1>1, CopyTaken DEF Bounded
<1>4. /\ x.tid = h /\ x.block # b =>
            Count(A, OtherSent(h, b)) = Count(C, OtherSent(h, b)) + 1
      /\ ~(x.tid = h /\ x.block # b) =>
            Count(C, OtherSent(h, b)) = Count(A, OtherSent(h, b))
  BY <1>1, CopyTaken, CountFacts
<1> HIDE DEF C
<1>5. Bounded(C, B, h)
  BY <1>3 DEF Bounded
<1>6. Count(C, Sent(h)) \in Nat /\ Count(C, OtherSent(h, b)) \in Nat
  BY <1>5, CountFacts, SetCount DEF Bounded, Count
<1>7. All(A, B, h) = IF x.tid = h THEN All(C, B, h) + 1 ELSE All(C, B, h)
  BY <1>2, <1>3, <1>6 DEF All
<1>8. Other(A, B, h, b) = IF x.tid = h /\ x.block # b THEN Other(C, B, h, b) + 1
                          ELSE Other(C, B, h, b)
  BY <1>2, <1>4, <1>6 DEF Other
<1> QED
  BY <1>5, <1>7, <1>8 DEF C

LEMMA OneReplied ==
    ASSUME NEW A, NEW B, IsABag(B), NEW x \in ReplyPkt, NEW h, NEW b, Bounded(A, B, h)
    PROVE  /\ Bounded(A, BagAdd(B, x), h)
           /\ All(A, BagAdd(B, x), h) =
                 IF x.tid = h THEN All(A, B, h) + 1 ELSE All(A, B, h)
           /\ Other(A, BagAdd(B, x), h, b) =
                 IF x.tid = h /\ ~(x.op = "ACK" /\ x.num = b)
                 THEN Other(A, B, h, b) + 1 ELSE Other(A, B, h, b)
<1> DEFINE o == x.tid = h /\ ~(x.op = "ACK" /\ x.num = b)
<1>1. /\ x \in Replies(h) <=> x.tid = h
      /\ x \in OtherReplies(h, b) <=> o
  BY DEF Replies, OtherReplies
<1> HIDE DEF o
<1>2. Count(A, Sent(h)) \in Nat /\ Count(A, OtherSent(h, b)) \in Nat
  BY CountFacts, SetCount DEF Bounded, Count
<1> DEFINE C == BagAdd(B, x)
<1>3. /\ IsFiniteSet(Copies(C, Replies(h))) /\ Count(B, Replies(h)) \in Nat
      /\ Count(C, Replies(h)) =
            IF x.tid = h THEN Count(B, Replies(h)) + 1 ELSE Count(B, Replies(h))
  BY <1>1, CopyAdded DEF Bounded
<1>4. /\ Count(B, OtherReplies(h, b)) \in Nat
      /\ Count(C, OtherReplies(h, b)) =
            IF o THEN Count(B, OtherReplies(h, b)) + 1
            ELSE Count(B, OtherReplies(h, b))
  BY <1>1, CopyAdded, CountFacts
<1> HIDE DEF C
<1>5. Bounded(A, C, h)
  BY <1>3 DEF Bounded
<1>6. All(A, C, h) = IF x.tid = h THEN All(A, B, h) + 1 ELSE All(A, B, h)
  BY <1>2, <1>3 DEF All
<1>7. Other(A, C, h, b) = IF o THEN Other(A, B, h, b) + 1 ELSE Other(A, B, h, b)
  BY <1>2, <1>4 DEF Other
<1> QED
  BY <1>5, <1>6, <1>7 DEF C, o

LEMMA OneTaken ==
    ASSUME NEW A, NEW B, IsABag(B), NEW x \in DOMAIN B, x \in ReplyPkt, NEW h, NEW b,
           Bounded(A, B, h)
    PROVE  /\ Bounded(A, BagRemove(B, x), h)
           /\ All(A, B, h) = IF x.tid = h THEN All(A, BagRemove(B, x), h) + 1
                             ELSE All(A, BagRemove(B, x), h)
           /\ Other(A, B, h, b) = IF x.tid = h /\ ~(x.op = "ACK" /\ x.num = b)
                                  THEN Other(A, BagRemove(B, x), h, b) + 1
                                  ELSE Other(A, BagRemove(B, x), h, b)
<1> DEFINE o == x.tid = h /\ ~(x.op = "ACK" /\ x.num = b)
<1>1. /\ x \in Replies(h) <=> x.tid = h
      /\ x \in OtherReplies(h, b) <=> o
  BY DEF Replies, OtherReplies
<1> HIDE DEF o
<1>2. Count(A, Sent(h)) \in Nat /\ Count(A, OtherSent(h, b)) \in Nat
  BY CountFacts, SetCount DEF Bounded, Count
<1> DEFINE C == BagRemove(B, x)
<1>3. /\ IsFiniteSet(Copies(C, Replies(h))) /\ Count(B, Replies(h)) \in Nat
      /\ x.tid = h => Count(B, Replies(h)) = Count(C, Replies(h)) + 1
      /\ x.tid # h => Count(C, Replies(h)) = Count(B, Replies(h))
  BY <1>1, CopyTaken DEF Bounded
<1>4. /\ o => Count(B, OtherReplies(h, b)) = Count(C, OtherReplies(h, b)) + 1
      /\ ~o => Count(C, OtherReplies(h, b)) = Count(B, OtherReplies(h, b))
  BY <1>1, CopyTaken, CountFacts
<1> HIDE DEF C
<1>5. Bounded(A, C, h)
  BY <1>3 DEF Bounded
<1>6. Count(C, Replies(h)) \in Nat /\ Count(C, OtherReplies(h, b)) \in Nat
  BY <1>5, CountFacts, SetCount DEF Bounded, Count
<1>7. All(A, B, h) = IF x.tid = h THEN All(A, C, h) + 1 ELSE All(A, C, h)
  BY <1>2, <1>3, <1>6 DEF All
<1>8. Other(A, B, h, b) = IF o THEN Other(A, C, h, b) + 1 ELSE Other(A, C, h, b)
  BY <1>2, <1>4, <1>6 DEF Other
<1> QED
  BY <1>5, <1>7, <1>8 DEF C, o

\* What a step does to the account of its handler.
LEMMA Accounts ==
    ASSUME NEW r \in Nat \ {0}, NEW f \in 0 .. r, NEW n \in 0 .. r,
           NEW t \in Nat, NEW s \in Nat, s <= t
    PROVE  \* HandleStart
           /\ Starting(r, f, t) => Sending(r, f, r, t, s)
           \* SendData
           /\ Sending(r, f, n, t, s) => Waiting(r, f, n, t + 1, s)
           \* RecvAck
           /\ \A i \in Nat : t = i + 1 /\ Waiting(r, f, n, t, s)
                              => \A j \in 0 .. i : Sending(r, f, r, i, j)
<1>1. Starting(r, f, t) => Sending(r, f, r, t, s)
  BY DEF Starting, Sending
<1>2. Sending(r, f, n, t, s) => Waiting(r, f, n, t + 1, s)
  BY DEF Sending, Waiting
<1>3. \A i \in Nat : t = i + 1 /\ Waiting(r, f, n, t, s)
                      => \A j \in 0 .. i : Sending(r, f, r, i, j)
  BY DEF Sending, Waiting
<1> QED
  BY <1>1, <1>2, <1>3

\* Timeout: early, which is a fault, or with nothing of the current block on the
\* way.
LEMMA AccountsTimeout ==
    ASSUME NEW r \in Nat \ {0}, NEW f \in 0 .. r, NEW n \in 1 .. r,
           NEW t \in Nat, NEW s \in Nat, s <= t, Waiting(r, f, n, t, s),
           NEW g, g = More(r, f) \/ (g = f /\ t = s)
    PROVE  /\ Sending(r, g, n - 1, t, s)
           /\ n = 1 => g = r
BY DEF Sending, Waiting, More

\* RecvOther.
LEMMA AccountsOther ==
    ASSUME NEW r \in Nat \ {0}, NEW f \in 0 .. r, NEW n \in 1 .. r,
           NEW t \in Nat, NEW s \in Nat, s <= t, Waiting(r, f, n, t + 1, s + 1)
    PROVE  /\ Sending(r, f, n - 1, t, s)
           /\ n = 1 => f = r
BY DEF Sending, Waiting

\* The account of handler h, whoever acts.
LEMMA AccountFacts ==
    ASSUME TypeInv, NEW h \in Handlers, NEW b, Bounded(toClient, toHandler, h)
    PROVE  /\ Retries \in Nat \ {0} /\ faults[h] \in 0 .. Retries
           /\ tries[h] \in 0 .. Retries
           /\ pc[h] \in Live => tries[h] \in 1 .. Retries
           /\ All(toClient, toHandler, h) \in Nat
           /\ Other(toClient, toHandler, h, b) \in Nat
           /\ Other(toClient, toHandler, h, b) <= All(toClient, toHandler, h)
<1>1. /\ Retries \in Nat \ {0} /\ faults[h] \in 0 .. Retries
      /\ tries[h] \in 0 .. Retries
  BY RetriesFacts DEF TypeInv, TypeOK
<1>2. pc[h] \in Live => tries[h] >= 1
  BY DEF TypeInv, HandlerInv
<1> QED
  BY <1>1, <1>2, CountFacts

LEMMA QuietAccount ==
    ASSUME NEW h \in Handlers, Bounded(toClient, toHandler, h), Blamed(h),
           Bounded(toClient', toHandler', h),
           pc'[h] = pc[h], tries'[h] = tries[h], block'[h] = block[h],
           faults'[h] = faults[h],
           All(toClient', toHandler', h) = All(toClient, toHandler, h),
           Other(toClient', toHandler', h, block[h]) =
              Other(toClient, toHandler, h, block[h])
    PROVE  Bounded(toClient, toHandler, h)' /\ Blamed(h)'
BY DEF Blamed

\* A fault of handler h's exchange.
LEMMA FaultAccount ==
    ASSUME TypeInv, NEW h \in Handlers, Bounded(toClient, toHandler, h), Blamed(h),
           Bounded(toClient', toHandler', h),
           pc'[h] = pc[h], tries'[h] = tries[h], block'[h] = block[h],
           faults' = AddFault(h),
           NEW t, t = All(toClient, toHandler, h),
           NEW s, s = Other(toClient, toHandler, h, block[h]),
           NEW u, u = All(toClient', toHandler', h),
           NEW v, v = Other(toClient', toHandler', h, block[h]),
           Changed(t, s, u, v)
    PROVE  Bounded(toClient, toHandler, h)' /\ Blamed(h)'
<1>1. /\ Retries \in Nat \ {0} /\ faults[h] \in 0 .. Retries
      /\ tries[h] \in 0 .. Retries
      /\ t \in Nat /\ s \in Nat /\ u \in Nat /\ v \in Nat /\ v <= u
  <2>1. /\ Retries \in Nat \ {0} /\ faults[h] \in 0 .. Retries
        /\ tries[h] \in 0 .. Retries /\ t \in Nat /\ s \in Nat
    BY AccountFacts, Zenon
  <2>2. u \in Nat /\ v \in Nat /\ v <= u
    BY CountFacts
  <2> QED
    BY <2>1, <2>2
<1> DEFINE r == Retries
           f == faults[h]
           g == faults'[h]
           n == tries[h]
<1>2. faults'[h] = More(Retries, faults[h])
  BY DEF AddFault, More, TypeInv, TypeOK
<1>3. /\ Starting(Retries, faults[h], t) => Starting(Retries, faults'[h], u)
      /\ Sending(Retries, faults[h], tries[h], t, s)
         => Sending(Retries, faults'[h], tries[h], u, v)
      /\ Waiting(Retries, faults[h], tries[h], t, s)
         => Waiting(Retries, faults'[h], tries[h], u, v)
      /\ faults[h] = Retries => faults'[h] = Retries
  <2>1. /\ r \in Nat \ {0} /\ f \in 0 .. r /\ n \in 0 .. r
        /\ g = More(r, f)
    BY <1>1, <1>2
  <2> HIDE DEF r, f, g, n
  <2>2. /\ Starting(r, f, t) => Starting(r, g, u)
        /\ Sending(r, f, n, t, s) => Sending(r, g, n, u, v)
        /\ Waiting(r, f, n, t, s) => Waiting(r, g, n, u, v)
        /\ f = r => g = r
    <3>1. Starting(r, f, t) => Starting(r, g, u)
      BY <1>1, <2>1 DEF Starting, More, Changed
    <3>2. Sending(r, f, n, t, s) => Sending(r, g, n, u, v)
      BY <1>1, <2>1 DEF Sending, More, Changed
    <3>3. Waiting(r, f, n, t, s) => Waiting(r, g, n, u, v)
      BY <1>1, <2>1 DEF Waiting, More, Changed
    <3> QED
      BY <1>1, <2>1, <3>1, <3>2, <3>3 DEF More
  <2> QED
    BY <2>2 DEF r, f, g, n
<1> QED
  BY <1>3, Zenon DEF Blamed

\* Retries does not change.
LEMMA OtherHandlers ==
    ASSUME TypeInv, NEW h \in Handlers, NEW g \in Handlers \ {h}, faults' = AddFault(h)
    PROVE  faults'[g] = faults[g]
BY DEF AddFault, TypeInv, TypeOK

\* Without a datagram about the current block, all of them are about others.
LEMMA NothingInFlight ==
    ASSUME TypeInv, NEW h \in Handlers, ~InFlight(h)
    PROVE  Other(toClient, toHandler, h, block[h]) = All(toClient, toHandler, h)
<1>1. Copies(toClient, OtherSent(h, block[h])) = Copies(toClient, Sent(h))
  <2>1. \A d \in DOMAIN toClient \cap Sent(h) : d \in OtherSent(h, block[h])
    BY DEF InFlight, Sent, OtherSent
  <2>2. DOMAIN toClient \cap Sent(h) = DOMAIN toClient \cap OtherSent(h, block[h])
    BY <2>1 DEF OtherSent
  <2> QED
    BY <2>2, Zenon DEF Copies
<1>2. Copies(toHandler, OtherReplies(h, block[h])) = Copies(toHandler, Replies(h))
  <2>1. \A m \in DOMAIN toHandler \cap Replies(h) : m \in OtherReplies(h, block[h])
    BY DEF InFlight, Replies, OtherReplies
  <2>2. DOMAIN toHandler \cap Replies(h) =
           DOMAIN toHandler \cap OtherReplies(h, block[h])
    BY <2>1 DEF OtherReplies
  <2> QED
    BY <2>2, Zenon DEF Copies
<1> QED
  BY <1>1, <1>2, Zenon DEF All, Other, Count

LEMMA BlameInit == Init => BlameInv
<1> SUFFICES ASSUME Init, NEW h \in Handlers
             PROVE  Bounded(toClient, toHandler, h) /\ Blamed(h)
  BY DEF BlameInv
<1>1. \A D : Copies(EmptyBag, D) = {}
  BY DEF Copies, EmptyBag, SetToBag
<1>2. IsFiniteSet({}) /\ Cardinality({}) = 0
  BY SameSets, Finite!FS_EmptySet
<1>3. /\ toClient = EmptyBag /\ toHandler = EmptyBag
      /\ pc[h] = "idle" /\ faults[h] = 0
  BY DEF Init
<1>4. Bounded(toClient, toHandler, h) /\ All(toClient, toHandler, h) = 0
  BY <1>1, <1>2, <1>3 DEF Bounded, All, Count
<1>5. Starting(Retries, faults[h], All(toClient, toHandler, h))
  BY <1>3, <1>4 DEF Starting
<1> QED
  BY <1>3, <1>4, <1>5 DEF Blamed

\* A step without a datagram and without a try.
LEMMA IdleAccount ==
    ASSUME BlameInv, UNCHANGED <<toClient, toHandler, faults, tries, block>>,
           \A g \in Handlers :
              \/ pc'[g] = pc[g]
              \/ pc[g] = "idle" /\ pc'[g] = "start"
              \/ pc'[g] = "failed"
    PROVE  BlameInv'
<1> SUFFICES ASSUME NEW g \in Handlers
             PROVE  Bounded(toClient, toHandler, g)' /\ Blamed(g)'
  BY DEF BlameInv
<1>1. Bounded(toClient', toHandler', g) /\ Blamed(g)
  BY DEF BlameInv
<1>2. CASE pc'[g] = pc[g]
  BY <1>1, <1>2 DEF Blamed
<1>3. CASE pc[g] = "idle" /\ pc'[g] = "start"
  BY <1>1, <1>3 DEF Blamed
<1>4. CASE pc'[g] = "failed"
  BY <1>1, <1>4 DEF Blamed
<1> QED
  BY <1>2, <1>3, <1>4

LEMMA BlameStart ==
    ASSUME TypeInv, BlameInv, NEW h \in Handlers, HandleStart(h)
    PROVE  BlameInv'
<1> SUFFICES ASSUME NEW g \in Handlers
             PROVE  Bounded(toClient, toHandler, g)' /\ Blamed(g)'
  BY DEF BlameInv
<1>1. Bounded(toClient, toHandler, g) /\ Blamed(g)
  BY DEF BlameInv
<1>2. toClient' = toClient /\ toHandler' = toHandler /\ faults' = faults
  BY DEF HandleStart, netVars
<1>3. CASE g = h
  <2>1. /\ pc[g] = "start" /\ pc'[g] = "send" /\ tries'[g] = Retries
    BY <1>3 DEF HandleStart, Marshal, TypeInv, TypeOK
  <2>2. Starting(Retries, faults[g], All(toClient, toHandler, g))
    BY <1>1, <2>1 DEF Blamed
  <2> DEFINE s == Other(toClient, toHandler, g, block'[g])
             t == All(toClient, toHandler, g)
  <2>3. /\ Retries \in Nat \ {0} /\ faults[g] \in 0 .. Retries
        /\ t \in Nat /\ s \in Nat /\ s <= t
    <3>1. Retries \in Nat \ {0} /\ faults[g] \in 0 .. Retries
      BY RetriesFacts DEF TypeInv, TypeOK
    <3>2. t \in Nat /\ s \in Nat /\ s <= t
      BY <1>1, CountFacts
    <3> QED
      BY <3>1, <3>2
  <2> HIDE DEF s, t
  <2>4. Sending(Retries, faults[g], Retries, t, s)
    BY <2>2, <2>3 DEF t, Starting, Sending
  <2> QED
    BY <1>1, <1>2, <2>1, <2>4 DEF Blamed, s, t
<1>4. CASE g # h
  <2>1. pc'[g] = pc[g] /\ tries'[g] = tries[g] /\ block'[g] = block[g]
    BY <1>4 DEF HandleStart, Marshal, TypeInv, TypeOK
  <2> QED
    BY <1>1, <1>2, <2>1 DEF Blamed
<1> QED
  BY <1>3, <1>4

LEMMA BlameSend ==
    ASSUME TypeInv, BlameInv, NEW h \in Handlers, SendData(h)
    PROVE  BlameInv'
<1> SUFFICES ASSUME NEW g \in Handlers
             PROVE  Bounded(toClient, toHandler, g)' /\ Blamed(g)'
  BY DEF BlameInv
<1>1. Bounded(toClient, toHandler, g) /\ Blamed(g)
  BY DEF BlameInv
<1> DEFINE x == Packet(h)
           t == All(toClient, toHandler, g)
           s == Other(toClient, toHandler, g, block[g])
<1>2. /\ toClient' = BagAdd(toClient, x) /\ toHandler' = toHandler
      /\ faults' = faults /\ tries' = tries /\ block' = block
      /\ pc[h] = "send" /\ pc' = [pc EXCEPT ![h] = "recv"]
  BY DEF SendData
<1>3. x \in DataPkt /\ x.tid = h /\ x.block = block[h]
  BY <1>2 DEF Packet, DataPkt, TypeInv, TypeOK, HandlerInv, Live
<1>4. IsABag(toClient)
  BY DEF TypeInv, TypeOK
<1> HIDE DEF x
<1>5. /\ Bounded(toClient', toHandler', g)
      /\ All(toClient', toHandler', g) = IF h = g THEN t + 1 ELSE t
      /\ Other(toClient', toHandler', g, block[g]) = s
  BY <1>1, <1>2, <1>3, <1>4, OneSent
<1>6. CASE g = h
  <2>1. Sending(Retries, faults[g], tries[g], t, s)
    BY <1>1, <1>2, <1>6 DEF Blamed
  <2>2. Waiting(Retries, faults[g], tries[g], t + 1, s)
    <3>1. /\ Retries \in Nat \ {0} /\ faults[g] \in 0 .. Retries
          /\ tries[g] \in 0 .. Retries
          /\ t \in Nat /\ s \in Nat /\ s <= t
      BY <1>1, AccountFacts
    <3> HIDE DEF t, s
    <3> QED
      BY <2>1, <3>1 DEF Sending, Waiting
  <2>3. pc'[g] = "recv"
    BY <1>2, <1>6 DEF TypeInv, TypeOK
  <2>4. All(toClient', toHandler', g) = t + 1
    BY <1>5, <1>6
  <2> HIDE DEF t, s
  <2> QED
    BY <1>2, <1>5, <2>2, <2>3, <2>4 DEF Blamed
<1>7. CASE g # h
  BY <1>1, <1>2, <1>5, <1>7 DEF Blamed, TypeInv, TypeOK
<1> QED
  BY <1>6, <1>7

LEMMA BlameTimeout ==
    ASSUME TypeInv, BlameInv, NEW h \in Handlers, Timeout(h)
    PROVE  BlameInv'
<1> SUFFICES ASSUME NEW g \in Handlers
             PROVE  Bounded(toClient, toHandler, g)' /\ Blamed(g)'
  BY DEF BlameInv
<1>1. Bounded(toClient, toHandler, g) /\ Blamed(g)
  BY DEF BlameInv
<1>2. /\ toClient' = toClient /\ toHandler' = toHandler /\ block' = block
      /\ tries' = [tries EXCEPT ![h] = @ - 1] /\ pc[h] = "recv"
      /\ pc' = [pc EXCEPT ![h] = IF tries[h] > 1 THEN "send" ELSE "exhausted"]
      /\ faults' = IF InFlight(h) THEN AddFault(h) ELSE faults
  BY DEF Timeout, Retry, netVars
<1>3. CASE g = h
  <2> DEFINE t == All(toClient, toHandler, g)
             s == Other(toClient, toHandler, g, block[g])
             r == Retries
             f == faults[g]
             n == tries[g]
             e == faults'[g]
  <2>1. Waiting(r, f, n, t, s)
    BY <1>1, <1>2, <1>3 DEF Blamed
  <2>2. /\ r \in Nat \ {0} /\ f \in 0 .. r /\ n \in 1 .. r
        /\ t \in Nat /\ s \in Nat /\ s <= t
    BY <1>1, <1>2, <1>3, AccountFacts DEF Live
  <2>3. e = More(r, f) \/ (e = f /\ t = s)
    <3>1. CASE InFlight(h)
      BY <1>2, <1>3, <3>1 DEF AddFault, More, TypeInv, TypeOK
    <3>2. CASE ~InFlight(h)
      BY <1>2, <1>3, <3>2, NothingInFlight
    <3> QED
      BY <3>1, <3>2
  <2>4. /\ tries'[g] = n - 1
        /\ pc'[g] = IF n > 1 THEN "send" ELSE "exhausted"
    BY <1>2, <1>3 DEF TypeInv, TypeOK
  <2> HIDE DEF t, s, r, f, n, e
  <2>5. Sending(r, e, n - 1, t, s)
    BY <2>1, <2>2, <2>3 DEF Sending, Waiting, More
  <2>6. n = 1 => e = r
    BY <2>1, <2>2, <2>3 DEF Waiting, More
  <2>7. n > 1 \/ n = 1
    BY <2>2
  <2>8. pc'[g] = "send" \/ (pc'[g] = "exhausted" /\ e = r)
    BY <2>4, <2>6, <2>7
  <2>9. Sending(Retries, faults'[g], tries'[g], t, s)
    BY <2>4, <2>5 DEF r, e
  <2> QED
    BY <1>1, <1>2, <2>8, <2>9 DEF Blamed, t, s, r, e
<1>4. CASE g # h
  <2>1. pc'[g] = pc[g] /\ tries'[g] = tries[g] /\ faults'[g] = faults[g]
    BY <1>2, <1>4 DEF AddFault, TypeInv, TypeOK
  <2> QED
    BY <1>1, <1>2, <2>1 DEF Blamed
<1> QED
  BY <1>3, <1>4

\* conn.Read takes a datagram m of the handler's exchange.
LEMMA ReadCounts ==
    ASSUME TypeInv, BlameInv, NEW h \in Handlers, NEW m \in DOMAIN toHandler,
           Read(h, m), NEW g \in Handlers
    PROVE  /\ m \in ReplyPkt /\ pc[h] = "recv"
           /\ Bounded(toClient', toHandler', g)
           /\ faults' = faults /\ toClient' = toClient
           /\ g # h => /\ All(toClient', toHandler', g) = All(toClient, toHandler, g)
                       /\ Other(toClient', toHandler', g, block[g]) =
                             Other(toClient, toHandler, g, block[g])
           /\ g = h => /\ All(toClient, toHandler, g) =
                             All(toClient', toHandler', g) + 1
                       /\ ~(m.op = "ACK" /\ m.num = block[g]) =>
                             Other(toClient, toHandler, g, block[g]) =
                                Other(toClient', toHandler', g, block[g]) + 1
<1>1. Bounded(toClient, toHandler, g)
  BY DEF BlameInv
<1>2. /\ m \in ReplyPkt /\ m.tid = h /\ pc[h] = "recv"
      /\ toHandler' = BagRemove(toHandler, m)
      /\ faults' = faults /\ toClient' = toClient
      /\ IsABag(toHandler)
  BY DEF Read, TypeInv, TypeOK
<1> DEFINE C == BagRemove(toHandler, m)
<1>3. /\ Bounded(toClient, C, g)
      /\ All(toClient, toHandler, g) =
            IF m.tid = g THEN All(toClient, C, g) + 1 ELSE All(toClient, C, g)
      /\ Other(toClient, toHandler, g, block[g]) =
            IF m.tid = g /\ ~(m.op = "ACK" /\ m.num = block[g])
            THEN Other(toClient, C, g, block[g]) + 1
            ELSE Other(toClient, C, g, block[g])
  BY <1>1, <1>2, OneTaken
<1> HIDE DEF C
<1>4. toHandler' = C
  BY <1>2 DEF C
<1> QED
  BY <1>2, <1>3, <1>4

LEMMA BlameAck ==
    ASSUME TypeInv, BlameInv, NEW h \in Handlers, RecvAck(h)
    PROVE  BlameInv'
<1> SUFFICES ASSUME NEW g \in Handlers
             PROVE  Bounded(toClient, toHandler, g)' /\ Blamed(g)'
  BY DEF BlameInv
<1>1. Bounded(toClient, toHandler, g) /\ Blamed(g)
  BY DEF BlameInv
<1>2. PICK m \in DOMAIN toHandler : Read(h, m) /\ NextPacket(h)
  BY DEF RecvAck
<1>3. /\ pc[h] = "recv" /\ Bounded(toClient', toHandler', g) /\ faults' = faults
      /\ g # h => /\ All(toClient', toHandler', g) = All(toClient, toHandler, g)
                  /\ Other(toClient', toHandler', g, block[g]) =
                        Other(toClient, toHandler, g, block[g])
      /\ g = h => All(toClient, toHandler, g) = All(toClient', toHandler', g) + 1
  BY <1>2, ReadCounts
<1>4. CASE g # h
  <2>1. pc'[g] = pc[g] /\ tries'[g] = tries[g] /\ block'[g] = block[g]
    BY <1>2, <1>4 DEF NextPacket, Marshal, TypeInv, TypeOK
  <2> QED
    BY <1>1, <1>3, <1>4, <2>1, QuietAccount
<1>5. CASE g = h
  <2> DEFINE t == All(toClient, toHandler, g)
             s == Other(toClient, toHandler, g, block[g])
             i == All(toClient', toHandler', g)
             j == Other(toClient', toHandler', g, block'[g])
             r == Retries
             f == faults[g]
             n == tries[g]
  <2>1. Waiting(r, f, n, t, s)
    BY <1>1, <1>3, <1>5 DEF Blamed
  <2>2. /\ r \in Nat \ {0} /\ f \in 0 .. r /\ n \in 0 .. r
        /\ t \in Nat /\ s \in Nat /\ s <= t
    BY <1>1, AccountFacts
  <2>3. i \in Nat /\ j \in Nat /\ j <= i /\ t = i + 1
    <3>1. i \in Nat /\ j \in Nat /\ j <= i
      BY <1>3, CountFacts
    <3> QED
      BY <1>3, <1>5, <3>1
  <2>4. \/ pc'[g] = "send" /\ tries'[g] = Retries
        \/ pc'[g] = "sent"
    BY <1>2, <1>5 DEF NextPacket, Marshal, TypeInv, TypeOK
  <2> HIDE DEF t, s, i, j, r, f, n
  <2>5. Sending(r, f, r, i, j)
    BY <2>1, <2>2, <2>3 DEF Sending, Waiting
  <2> QED
    BY <1>3, <2>4, <2>5 DEF Blamed, i, j, r, f
<1> QED
  BY <1>4, <1>5

LEMMA BlameOther ==
    ASSUME TypeInv, BlameInv, NEW h \in Handlers, RecvOther(h)
    PROVE  BlameInv'
<1> SUFFICES ASSUME NEW g \in Handlers
             PROVE  Bounded(toClient, toHandler, g)' /\ Blamed(g)'
  BY DEF BlameInv
<1>1. Bounded(toClient, toHandler, g) /\ Blamed(g)
  BY DEF BlameInv
<1>2. PICK m \in DOMAIN toHandler :
         Read(h, m) /\ ~Acks(h, Overlay(buf[h], m)) /\ Retry(h)
  BY DEF RecvOther
<1>3. ~(m.op = "ACK" /\ m.num = block[h])
  BY <1>2 DEF Acks, Overlay
<1>4. /\ pc[h] = "recv" /\ Bounded(toClient', toHandler', g) /\ faults' = faults
      /\ g # h => /\ All(toClient', toHandler', g) = All(toClient, toHandler, g)
                  /\ Other(toClient', toHandler', g, block[g]) =
                        Other(toClient, toHandler, g, block[g])
      /\ g = h => /\ All(toClient, toHandler, g) = All(toClient', toHandler', g) + 1
                  /\ Other(toClient, toHandler, g, block[g]) =
                        Other(toClient', toHandler', g, block[g]) + 1
  BY <1>2, <1>3, ReadCounts
<1>5. CASE g # h
  <2>1. pc'[g] = pc[g] /\ tries'[g] = tries[g] /\ block'[g] = block[g]
    BY <1>2, <1>5 DEF Retry, TypeInv, TypeOK
  <2> QED
    BY <1>1, <1>4, <1>5, <2>1, QuietAccount
<1>6. CASE g = h
  <2> DEFINE t == All(toClient, toHandler, g)
             s == Other(toClient, toHandler, g, block[g])
             i == All(toClient', toHandler', g)
             j == Other(toClient', toHandler', g, block[g])
             r == Retries
             f == faults[g]
             n == tries[g]
  <2>1. Waiting(r, f, n, t, s)
    BY <1>1, <1>4, <1>6 DEF Blamed
  <2>2. r \in Nat \ {0} /\ f \in 0 .. r /\ n \in 1 .. r
    BY <1>1, <1>4, <1>6, AccountFacts DEF Live
  <2>3. i \in Nat /\ j \in Nat /\ t = i + 1 /\ s = j + 1
    <3>1. i \in Nat /\ j \in Nat
      BY <1>4, CountFacts
    <3> QED
      BY <1>4, <1>6, <3>1
  <2>4. /\ tries'[g] = n - 1 /\ block' = block
        /\ pc'[g] = IF n > 1 THEN "send" ELSE "exhausted"
    BY <1>2, <1>6 DEF Retry, TypeInv, TypeOK
  <2> HIDE DEF t, s, i, j, r, f, n
  <2>5. Sending(r, f, n - 1, i, j)
    <3>1. f = r \/ (i <= f /\ (r - (n - 1)) + j <= f)
      BY <2>1, <2>2, <2>3 DEF Waiting
    <3> QED
      BY <3>1 DEF Sending
  <2>6. n = 1 => f = r
    BY <2>1, <2>2, <2>3 DEF Waiting
  <2>7. n > 1 \/ n = 1
    BY <2>2
  <2>8. pc'[g] = "send" \/ (pc'[g] = "exhausted" /\ f = r)
    BY <2>4, <2>6, <2>7
  <2>9. Sending(Retries, faults'[g], tries'[g], i, j)
    BY <1>4, <2>4, <2>5 DEF r, f
  <2> QED
    BY <1>4, <2>4, <2>8, <2>9 DEF Blamed, i, j, r, f
<1> QED
  BY <1>5, <1>6

LEMMA BlameErr ==
    ASSUME TypeInv, BlameInv, NEW h \in Handlers, RecvErr(h)
    PROVE  BlameInv'
<1> SUFFICES ASSUME NEW g \in Handlers
             PROVE  Bounded(toClient, toHandler, g)' /\ Blamed(g)'
  BY DEF BlameInv
<1>1. Bounded(toClient, toHandler, g) /\ Blamed(g)
  BY DEF BlameInv
<1>2. PICK m \in DOMAIN toHandler :
         /\ Read(h, m)
         /\ pc' = [pc EXCEPT ![h] = "aborted"]
         /\ UNCHANGED <<pos, block, tries, writes>>
  BY DEF RecvErr
<1>3. /\ Bounded(toClient', toHandler', g) /\ faults' = faults
      /\ g # h => /\ All(toClient', toHandler', g) = All(toClient, toHandler, g)
                  /\ Other(toClient', toHandler', g, block[g]) =
                        Other(toClient, toHandler, g, block[g])
  BY <1>2, ReadCounts
<1>4. CASE g # h
  <2>1. pc'[g] = pc[g] /\ tries'[g] = tries[g] /\ block'[g] = block[g]
    BY <1>2, <1>4 DEF TypeInv, TypeOK
  <2> QED
    BY <1>1, <1>3, <1>4, <2>1, QuietAccount
<1>5. CASE g = h
  <2>1. pc'[g] = "aborted"
    BY <1>2, <1>5 DEF TypeInv, TypeOK
  <2> QED
    BY <1>3, <2>1 DEF Blamed
<1> QED
  BY <1>4, <1>5

LEMMA BlameReceive ==
    ASSUME TypeInv, BlameInv, NEW d \in DOMAIN toClient, ClientReceive(d)
    PROVE  BlameInv'
<1> SUFFICES ASSUME NEW g \in Handlers
             PROVE  Bounded(toClient, toHandler, g)' /\ Blamed(g)'
  BY DEF BlameInv
<1>1. Bounded(toClient, toHandler, g) /\ Blamed(g)
  BY DEF BlameInv
<1> DEFINE a == Reply(d.tid, "ACK", d.block)
           A == BagRemove(toClient, d)
           C == BagAdd(toHandler, a)
<1>2. /\ toClient' = A /\ toHandler' = C
      /\ UNCHANGED <<pc, tries, block, faults>>
  BY DEF ClientReceive, handlerVars
<1>3. /\ d \in DataPkt /\ a \in ReplyPkt /\ a.tid = d.tid
      /\ a.op = "ACK" /\ a.num = d.block
      /\ IsABag(toClient) /\ IsABag(toHandler)
  BY DEF TypeInv, TypeOK, DataPkt, ReplyPkt, Reply
<1> HIDE DEF a
<1>4. /\ Bounded(A, toHandler, g)
      /\ All(toClient, toHandler, g) =
            IF d.tid = g THEN All(A, toHandler, g) + 1 ELSE All(A, toHandler, g)
      /\ Other(toClient, toHandler, g, block[g]) =
            IF d.tid = g /\ d.block # block[g]
            THEN Other(A, toHandler, g, block[g]) + 1
            ELSE Other(A, toHandler, g, block[g])
  BY <1>1, <1>3, OneArrived
<1> HIDE DEF A
<1>5. /\ Bounded(A, C, g)
      /\ All(A, C, g) =
            IF a.tid = g THEN All(A, toHandler, g) + 1 ELSE All(A, toHandler, g)
      /\ Other(A, C, g, block[g]) =
            IF a.tid = g /\ ~(a.op = "ACK" /\ a.num = block[g])
            THEN Other(A, toHandler, g, block[g]) + 1
            ELSE Other(A, toHandler, g, block[g])
  BY <1>3, <1>4, OneReplied
<1> HIDE DEF C
<1>6. All(A, C, g) = All(toClient, toHandler, g)
  BY <1>3, <1>4, <1>5
<1>7. Other(A, C, g, block[g]) = Other(toClient, toHandler, g, block[g])
  BY <1>3, <1>4, <1>5
<1> QED
  BY <1>1, <1>2, <1>5, <1>6, <1>7, QuietAccount

LEMMA BlameStray ==
    ASSUME TypeInv, BlameInv, NEW h \in Handlers, ClientStray(h)
    PROVE  BlameInv'
<1> SUFFICES ASSUME NEW g \in Handlers
             PROVE  Bounded(toClient, toHandler, g)' /\ Blamed(g)'
  BY DEF BlameInv
<1>1. Bounded(toClient, toHandler, g) /\ Blamed(g)
  BY DEF BlameInv
<1>2. PICK o \in {"ERR", "BAD", "EMPTY"} :
         toHandler' = BagAdd(toHandler, Reply(h, o, 0))
  BY DEF ClientStray
<1> DEFINE a == Reply(h, o, 0)
           C == BagAdd(toHandler, a)
           t == All(toClient, toHandler, g)
           s == Other(toClient, toHandler, g, block[g])
<1>3. a \in ReplyPkt /\ a.tid = h /\ a.op # "ACK" /\ IsABag(toHandler)
  BY BlockModAssumption DEF TypeInv, TypeOK, ReplyPkt, Reply, Blocks
<1>4. /\ toHandler' = C /\ toClient' = toClient /\ faults' = AddFault(h)
      /\ UNCHANGED <<pc, tries, block>>
  BY <1>2 DEF ClientStray, handlerVars
<1> HIDE DEF a
<1>5. /\ Bounded(toClient, C, g)
      /\ All(toClient, C, g) = IF h = g THEN t + 1 ELSE t
      /\ Other(toClient, C, g, block[g]) = IF h = g THEN s + 1 ELSE s
  BY <1>1, <1>3, OneReplied
<1> HIDE DEF C
<1>6. CASE g = h
  <2>1. All(toClient', toHandler', g) = t + 1
    BY <1>4, <1>5, <1>6
  <2>2. Other(toClient', toHandler', g, block[g]) = s + 1
    BY <1>4, <1>5, <1>6
  <2> HIDE DEF t, s
  <2>3. Changed(t, s, All(toClient', toHandler', g),
                Other(toClient', toHandler', g, block[g]))
    BY <2>1, <2>2 DEF Changed
  <2> QED
    BY <1>1, <1>4, <1>5, <1>6, <2>3, FaultAccount DEF t, s
<1>7. CASE g # h
  BY <1>1, <1>4, <1>5, <1>7, OtherHandlers, QuietAccount
<1> QED
  BY <1>6, <1>7

\* A datagram to a client, or to a handler, that is lost or delivered twice.
LEMMA BlameLostData ==
    ASSUME TypeInv, BlameInv, NEW d \in DOMAIN toClient,
           toClient' \in Deliveries(toClient, d), toHandler' = toHandler,
           faults' = AddFault(d.tid), UNCHANGED <<pc, tries, block>>
    PROVE  BlameInv'
<1> SUFFICES ASSUME NEW g \in Handlers
             PROVE  Bounded(toClient, toHandler, g)' /\ Blamed(g)'
  BY DEF BlameInv
<1>1. Bounded(toClient, toHandler, g) /\ Blamed(g)
  BY DEF BlameInv
<1>2. d \in DataPkt /\ d.tid \in Handlers /\ IsABag(toClient)
  BY DEF TypeInv, TypeOK, DataPkt
<1> DEFINE t == All(toClient, toHandler, g)
           s == Other(toClient, toHandler, g, block[g])
           u == All(toClient', toHandler', g)
           v == Other(toClient', toHandler', g, block[g])
<1>3. CASE toClient' = BagAdd(toClient, d)
  <2>1. /\ Bounded(toClient', toHandler', g)
        /\ u = IF d.tid = g THEN t + 1 ELSE t
        /\ v = IF d.tid = g /\ d.block # block[g] THEN s + 1 ELSE s
    BY <1>1, <1>2, <1>3, OneSent
  <2>2. d.tid = g => Changed(t, s, u, v)
    <3> HIDE DEF t, s, u, v
    <3> QED
      BY <2>1 DEF Changed
  <2>3. d.tid # g => u = t /\ v = s
    BY <2>1
  <2> QED
    BY <1>1, <1>2, <2>1, <2>2, <2>3, FaultAccount, OtherHandlers, QuietAccount
<1>4. CASE toClient' = BagRemove(toClient, d)
  <2>1. /\ Bounded(toClient', toHandler', g)
        /\ t = IF d.tid = g THEN u + 1 ELSE u
        /\ s = IF d.tid = g /\ d.block # block[g] THEN v + 1 ELSE v
    BY <1>1, <1>2, <1>4, OneArrived
  <2>2. d.tid = g => Changed(t, s, u, v)
    <3> HIDE DEF t, s, u, v
    <3> QED
      BY <2>1 DEF Changed
  <2>3. d.tid # g => u = t /\ v = s
    BY <2>1
  <2> QED
    BY <1>1, <1>2, <2>1, <2>2, <2>3, FaultAccount, OtherHandlers, QuietAccount
<1> QED
  BY <1>3, <1>4 DEF Deliveries

LEMMA BlameLostReply ==
    ASSUME TypeInv, BlameInv, NEW m \in DOMAIN toHandler,
           toHandler' \in Deliveries(toHandler, m), toClient' = toClient,
           faults' = AddFault(m.tid), UNCHANGED <<pc, tries, block>>
    PROVE  BlameInv'
<1> SUFFICES ASSUME NEW g \in Handlers
             PROVE  Bounded(toClient, toHandler, g)' /\ Blamed(g)'
  BY DEF BlameInv
<1>1. Bounded(toClient, toHandler, g) /\ Blamed(g)
  BY DEF BlameInv
<1>2. m \in ReplyPkt /\ m.tid \in Handlers /\ IsABag(toHandler)
  BY DEF TypeInv, TypeOK, ReplyPkt
<1> DEFINE t == All(toClient, toHandler, g)
           s == Other(toClient, toHandler, g, block[g])
           u == All(toClient', toHandler', g)
           v == Other(toClient', toHandler', g, block[g])
           o == ~(m.op = "ACK" /\ m.num = block[g])
<1>3. CASE toHandler' = BagAdd(toHandler, m)
  <2>1. /\ Bounded(toClient', toHandler', g)
        /\ u = IF m.tid = g THEN t + 1 ELSE t
        /\ v = IF m.tid = g /\ o THEN s + 1 ELSE s
    BY <1>1, <1>2, <1>3, OneReplied
  <2>2. m.tid = g => Changed(t, s, u, v)
    <3> HIDE DEF t, s, u, v, o
    <3> QED
      BY <2>1 DEF Changed
  <2>3. m.tid # g => u = t /\ v = s
    BY <2>1
  <2> QED
    BY <1>1, <1>2, <2>1, <2>2, <2>3, FaultAccount, OtherHandlers, QuietAccount
<1>4. CASE toHandler' = BagRemove(toHandler, m)
  <2>1. /\ Bounded(toClient', toHandler', g)
        /\ t = IF m.tid = g THEN u + 1 ELSE u
        /\ s = IF m.tid = g /\ o THEN v + 1 ELSE v
    BY <1>1, <1>2, <1>4, OneTaken
  <2>2. m.tid = g => Changed(t, s, u, v)
    <3> HIDE DEF t, s, u, v, o
    <3> QED
      BY <2>1 DEF Changed
  <2>3. m.tid # g => u = t /\ v = s
    BY <2>1
  <2> QED
    BY <1>1, <1>2, <2>1, <2>2, <2>3, FaultAccount, OtherHandlers, QuietAccount
<1> QED
  BY <1>3, <1>4 DEF Deliveries

LEMMA BlameDiscard ==
    ASSUME TypeInv, BlameInv, Discard
    PROVE  BlameInv'
<1> SUFFICES ASSUME NEW g \in Handlers
             PROVE  Bounded(toClient, toHandler, g)' /\ Blamed(g)'
  BY DEF BlameInv
<1>1. Bounded(toClient, toHandler, g) /\ Blamed(g)
  BY DEF BlameInv
<1>2. PICK m \in DOMAIN toHandler :
         pc[m.tid] \in Ended /\ toHandler' = BagRemove(toHandler, m)
  BY DEF Discard
<1>3. /\ m \in ReplyPkt /\ IsABag(toHandler) /\ toClient' = toClient
      /\ UNCHANGED <<pc, tries, block, faults>>
  BY DEF Discard, handlerVars, TypeInv, TypeOK
<1> DEFINE C == BagRemove(toHandler, m)
<1>4. /\ Bounded(toClient, C, g)
      /\ All(toClient, toHandler, g) =
            IF m.tid = g THEN All(toClient, C, g) + 1 ELSE All(toClient, C, g)
      /\ Other(toClient, toHandler, g, block[g]) =
            IF m.tid = g /\ ~(m.op = "ACK" /\ m.num = block[g])
            THEN Other(toClient, C, g, block[g]) + 1
            ELSE Other(toClient, C, g, block[g])
  BY <1>1, <1>3, OneTaken
<1> HIDE DEF C
<1>5. toHandler' = C
  BY <1>2 DEF C
<1>6. CASE m.tid = g
  BY <1>1, <1>2, <1>3, <1>4, <1>5, <1>6 DEF Blamed, Ended
<1>7. CASE m.tid # g
  BY <1>1, <1>3, <1>4, <1>5, <1>7, QuietAccount
<1> QED
  BY <1>6, <1>7

LEMMA BlameStep ==
    ASSUME TypeInv, BlameInv, [Next]_vars
    PROVE  BlameInv'
<1>1. ASSUME NEW h \in Handlers, ServeRequest(h) \/ HandleFail(h)
      PROVE  BlameInv'
  <2>1. UNCHANGED <<toClient, toHandler, faults, tries, block>>
    BY <1>1 DEF ServeRequest, HandleFail, netVars
  <2>2. \A g \in Handlers :
           \/ pc'[g] = pc[g]
           \/ pc[g] = "idle" /\ pc'[g] = "start"
           \/ pc'[g] = "failed"
    BY <1>1 DEF ServeRequest, HandleFail, TypeInv, TypeOK
  <2> QED
    BY <2>1, <2>2, IdleAccount
<1>2. CASE \/ ServeReject \/ ServeReturn \/ UNCHANGED vars
           \/ \E c \in Clients : ClientRequest(c)
  <2>1. UNCHANGED <<toClient, toHandler, faults, tries, block, pc>>
    BY <1>2 DEF ServeReject, ServeReturn, ClientRequest, vars, netVars, handlerVars
  <2> QED
    BY <2>1, IdleAccount
<1>3. CASE NetworkFault
  <2>1. UNCHANGED <<pc, tries, block>>
    BY <1>3 DEF NetworkFault, handlerVars
  <2>2. CASE /\ \E d \in DOMAIN toClient :
                   /\ toClient' \in Deliveries(toClient, d)
                   /\ faults' = AddFault(d.tid)
             /\ UNCHANGED <<rrqs, toHandler>>
    BY <2>1, <2>2, BlameLostData
  <2>3. CASE /\ \E m \in DOMAIN toHandler :
                   /\ toHandler' \in Deliveries(toHandler, m)
                   /\ faults' = AddFault(m.tid)
             /\ UNCHANGED <<rrqs, toClient>>
    BY <2>1, <2>3, BlameLostReply
  <2>4. CASE UNCHANGED <<toClient, toHandler, faults>>
    BY <2>1, <2>4, IdleAccount
  <2> QED
    BY <1>3, <2>2, <2>3, <2>4 DEF NetworkFault
<1> QED
  BY <1>1, <1>2, <1>3, BlameStart, BlameSend, BlameTimeout, BlameAck, BlameOther,
     BlameErr, BlameReceive, BlameStray, BlameDiscard
  DEF Next, HandlerNext

\* GiveUpNeedsFaults (RETRY of handle): a transfer is given up only after
\* Retries faults of its own exchange, for any payload and block numbers that
\* may repeat, however many datagrams the network doubles.
THEOREM GiveUpIsBlamed == Spec => []GiveUpNeedsFaults
<1>1. TypeInv /\ BlameInv /\ [Next]_vars => (TypeInv /\ BlameInv)'
  BY TypeStep, BlameStep
<1>2. BlameInv => GiveUpNeedsFaults
  BY DEF BlameInv, Blamed, GiveUpNeedsFaults
<1> QED
  BY TypeInit, BlameInit, <1>1, <1>2, PTL DEF Spec

=============================================================================
