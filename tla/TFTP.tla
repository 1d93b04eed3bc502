-------------------------------- MODULE TFTP --------------------------------
(***************************************************************************)
(* The read-only TFTP server of chapter6/server.go: the Serve loop, which   *)
(* spawns one handler goroutine per accepted read request, and the handle   *)
(* goroutines, which send the payload block by block over UDP, one          *)
(* outstanding block at a time.  Every handler dials the client from a      *)
(* fresh local port, so a handler is named by that port (its TID) and a     *)
(* slot of Handlers is used at most once.                                   *)
(*                                                                         *)
(* The network is external.  It loses, duplicates and reorders datagrams;   *)
(* a datagram in flight or queued in a socket is in one of three bags.  The *)
(* client is external too (the repository has none): it accepts the block   *)
(* it expects, acknowledges the number of every block it receives, and may  *)
(* give up, answer with an error, or send something else.  It accepts data  *)
(* from every handler that serves it, which is the most permissive client.  *)
(***************************************************************************)
EXTENDS Naturals, Sequences, FiniteSets, Bags, BagsExt

CONSTANTS
    Handlers,     \* the goroutines (TIDs) the server can spawn: a bound
    Clients,      \* client addresses
    NoClient,     \* the address of a handler that is not spawned yet
    PayloadLen,   \* len(s.Payload)
    BlockSize,    \* bytes of data per packet, 512 in the code
    BlockMod,     \* the block number is a uint16: 2^16 in the code
    ConfRetries,  \* Server.Retries as configured; 0 selects the default
    MaxRequests,  \* bound: read requests the clients send
    MaxFaults     \* bound: datagrams lost, duplicated or strayed

ASSUME PayloadAssumption == PayloadLen \in Nat
ASSUME BlockSizeAssumption == BlockSize \in Nat \ {0}
ASSUME BlockModAssumption == BlockMod \in Nat \ {0, 1}
ASSUME ClientAssumption == NoClient \notin Clients
ASSUME RetriesAssumption == ConfRetries \in 0 .. 255
ASSUME BoundsAssumption == MaxRequests \in Nat /\ MaxFaults \in Nat

VARIABLES
    up,        \* Serve has not returned (main exits when it does)
    requests,  \* read requests sent so far
    rrqs,      \* bag of datagrams in flight to the server's own port
    toClient,  \* bag of DATA datagrams in flight to the clients
    toHandler, \* bag of datagrams in flight to the handlers' ports
    pc,        \* where each handler goroutine is
    client,    \* the client address each handler dialled
    pos,       \* how many chunks MarshalBinary has read from the payload
    block,     \* dataPkt.Block
    tries,     \* the loop variable i of RETRY
    buf,       \* what the first four bytes of handle's buf hold
    file,      \* the chunks each client has stored
    writes,    \* history: conn.Write calls for the current block
    faults,    \* history: faults that hit each handler's exchange
    budget     \* faults the network may still commit

netVars == <<rrqs, toClient, toHandler>>
handlerVars == <<pc, client, pos, block, tries, buf, writes>>
vars == <<up, requests, netVars, handlerVars, file, faults, budget>>

-----------------------------------------------------------------------------
(* The payload, cut into chunks.                                            *)

\* A zero Retries means the default (Serve).
Retries == IF ConfRetries = 0 THEN 10 ELSE ConfRetries

\* The packets it takes to send the payload: the last one is short.
NumBlocks == (PayloadLen \div BlockSize) + 1

\* Bytes that the k-th MarshalBinary copies: up to BlockSize, then EOF.
ChunkLen(k) ==
    LET read == (k - 1) * BlockSize
    IN  IF read + BlockSize <= PayloadLen THEN BlockSize
        ELSE IF read < PayloadLen THEN PayloadLen - read ELSE 0

\* n == DatagramSize: the k-th packet is a full one, so another follows.
Full(k) == ChunkLen(k) = BlockSize

\* d.Block++ on a uint16.
\* (Mutants: it is not incremented, or it does not wrap.)
M_SameBlock(b) == b
M_WideBlock(b) == b + 1
NextBlock(b) == IF b + 1 = BlockMod THEN 0 ELSE b + 1

\* The number that the k-th block carries.
BlockNum(k) == k % BlockMod

-----------------------------------------------------------------------------
(* State predicates and the types of datagrams.                             *)

Blocks == 0 .. BlockMod - 1

Request  == [client : Clients, valid : BOOLEAN]
DataPkt  == [tid : Handlers, block : Blocks, chunk : 1 .. NumBlocks]
ReplyPkt == [tid : Handlers, op : {"ACK", "ERR", "BAD", "EMPTY"}, num : Blocks]
Buffer   == [op : {"NONE", "ACK", "ERR", "BAD"}, num : Blocks]

Live == {"send", "recv"}
Ended == {"sent", "exhausted", "aborted", "failed"}

Reply(h, o, n) == [tid |-> h, op |-> o, num |-> n]

\* The client got its last, short chunk: it stores nothing more.
Closed(c) == file[c] # <<>> /\ ~Full(file[c][Len(file[c])])

TypeOK ==
    /\ up \in BOOLEAN
    /\ requests \in 0 .. MaxRequests
    /\ budget \in 0 .. MaxFaults
    /\ IsABag(rrqs) /\ DOMAIN rrqs \subseteq Request
    /\ IsABag(toClient) /\ DOMAIN toClient \subseteq DataPkt
    /\ IsABag(toHandler) /\ DOMAIN toHandler \subseteq ReplyPkt
    /\ pc \in [Handlers -> {"idle", "start"} \cup Live \cup Ended]
    /\ client \in [Handlers -> Clients \cup {NoClient}]
    /\ pos \in [Handlers -> 0 .. NumBlocks]
    /\ block \in [Handlers -> Blocks]
    /\ tries \in [Handlers -> 0 .. Retries]
    /\ buf \in [Handlers -> Buffer]
    /\ file \in [Clients -> Seq(1 .. NumBlocks)]
    /\ writes \in [Handlers -> 0 .. Retries]
    /\ faults \in [Handlers -> 0 .. Retries]

Init ==
    /\ up = TRUE
    /\ requests = 0
    /\ rrqs = EmptyBag /\ toClient = EmptyBag /\ toHandler = EmptyBag
    /\ pc = [h \in Handlers |-> "idle"]
    /\ client = [h \in Handlers |-> NoClient]
    /\ pos = [h \in Handlers |-> 0]
    /\ block = [h \in Handlers |-> 0]
    /\ tries = [h \in Handlers |-> 0]
    /\ buf = [h \in Handlers |-> [op |-> "NONE", num |-> 0]]
    /\ file = [c \in Clients |-> <<>>]
    /\ writes = [h \in Handlers |-> 0]
    /\ faults = [h \in Handlers |-> 0]
    /\ budget = MaxFaults

-----------------------------------------------------------------------------
(* The Serve loop.                                                          *)

\* ReadFrom delivers a datagram that ReadReq.UnmarshalBinary accepts:
\* go s.handle(addr.String(), rrq).
ServeRequest(h) ==
    /\ up
    /\ pc[h] = "idle"
    /\ \E r \in DOMAIN rrqs :
          /\ r.valid
          /\ rrqs' = BagRemove(rrqs, r)
          /\ client' = [client EXCEPT ![h] = r.client]
    /\ pc' = [pc EXCEPT ![h] = "start"]
    /\ UNCHANGED <<up, requests, toClient, toHandler, pos, block, tries, buf,
                   writes, file, faults, budget>>

\* UnmarshalBinary fails: log "bad request" and continue.
ServeReject ==
    /\ up
    /\ \E r \in DOMAIN rrqs : ~r.valid /\ rrqs' = BagRemove(rrqs, r)
    /\ UNCHANGED <<up, requests, toClient, toHandler, handlerVars, file, faults,
                   budget>>

\* ReadFrom fails: Serve returns and main's log.Fatal ends the process, with
\* every handler goroutine in it.
ServeReturn ==
    /\ up
    /\ up' = FALSE
    /\ UNCHANGED <<requests, netVars, handlerVars, file, faults, budget>>

-----------------------------------------------------------------------------
(* handle.                                                                  *)

\* The head of NEXTPACKET and of RETRY: MarshalBinary prepares the next block
\* and the retry counter starts over.
Marshal(h) ==
    /\ pos' = [pos EXCEPT ![h] = @ + 1]
    /\ block' = [block EXCEPT ![h] = NextBlock(@)]
    /\ tries' = [tries EXCEPT ![h] = Retries]
    /\ writes' = [writes EXCEPT ![h] = 0]
    /\ pc' = [pc EXCEPT ![h] = "send"]

\* net.Dial succeeds; the first block is prepared.
HandleStart(h) ==
    /\ up
    /\ pc[h] = "start"
    /\ Marshal(h)
    /\ UNCHANGED <<up, requests, netVars, client, buf, file, faults, budget>>

\* net.Dial, conn.Write or conn.Read returns an error that is not a timeout
\* (a refused connection, no route, no descriptors): the handler returns.
HandleFail(h) ==
    /\ up
    /\ pc[h] \in {"start"} \cup Live
    /\ pc' = [pc EXCEPT ![h] = "failed"]
    /\ UNCHANGED <<up, requests, netVars, client, pos, block, tries, buf, writes,
                   file, faults, budget>>

\* data: what MarshalBinary returned, once for all the tries of a block.
\* (Mutant: MarshalBinary is called for every try, and reads on.)
M_Packet(h) ==
    LET next == pos[h] + writes[h]
    IN  [tid |-> h, block |-> block[h],
         chunk |-> IF next > NumBlocks THEN NumBlocks ELSE next]
Packet(h) == [tid |-> h, block |-> block[h], chunk |-> pos[h]]

\* n, err = conn.Write(data); SetReadDeadline.
SendData(h) ==
    /\ up
    /\ pc[h] = "send"
    /\ toClient' = BagAdd(toClient, Packet(h))
    /\ writes' = [writes EXCEPT ![h] = @ + 1]
    /\ pc' = [pc EXCEPT ![h] = "recv"]
    /\ UNCHANGED <<up, requests, rrqs, toHandler, client, pos, block, tries, buf,
                   file, faults, budget>>

\* The next iteration of RETRY, or its end: "exhausted retries".
\* (Mutant: the loop ends one try early.)
M_Retry(h) ==
    /\ tries' = [tries EXCEPT ![h] = @ - 1]
    /\ pc' = [pc EXCEPT ![h] = IF tries[h] > 2 THEN "send" ELSE "exhausted"]
    /\ UNCHANGED <<pos, block, writes>>
Retry(h) ==
    /\ tries' = [tries EXCEPT ![h] = @ - 1]
    /\ pc' = [pc EXCEPT ![h] = IF tries[h] > 1 THEN "send" ELSE "exhausted"]
    /\ UNCHANGED <<pos, block, writes>>

\* continue NEXTPACKET: the loop condition n == DatagramSize decides whether
\* there is another block or the transfer is over ("sent %d blocks").
NextPacket(h) ==
    \/ /\ Full(pos[h])
       /\ Marshal(h)
    \/ /\ ~Full(pos[h])
       /\ pc' = [pc EXCEPT ![h] = "sent"]
       /\ UNCHANGED <<pos, block, tries, writes>>

\* One more fault for handler h; the count saturates at Retries.
AddFault(h) == [faults EXCEPT ![h] = IF @ < Retries THEN @ + 1 ELSE @]

\* Something of the current exchange is still on its way: a deadline that
\* expires now expires early.
InFlight(h) ==
    \/ \E d \in DOMAIN toClient : d.tid = h /\ d.block = block[h]
    \/ \E m \in DOMAIN toHandler : m.tid = h /\ m.op = "ACK" /\ m.num = block[h]

\* conn.Read returns a timeout: continue RETRY.
\* (Mutant: no deadline is set.)
M_Timeout(h) == FALSE
Timeout(h) ==
    /\ up
    /\ pc[h] = "recv"
    /\ Retry(h)
    /\ faults' = IF InFlight(h) THEN AddFault(h) ELSE faults
    /\ UNCHANGED <<up, requests, netVars, client, buf, file, budget>>

\* What buf holds once conn.Read has put datagram m into it.  The count that
\* Read returns is ignored and the buffer is never cleared, so an empty
\* datagram leaves what an earlier one put there.
Overlay(b, m) == IF m.op = "EMPTY" THEN b ELSE [op |-> m.op, num |-> m.num]

\* uint16(ackPkt) == dataPkt.Block
\* (Mutant: any acknowledgment will do.)
M_Acks(h, b) == b.op = "ACK"
Acks(h, b) == b.op = "ACK" /\ b.num = block[h]

\* conn.Read takes datagram m from the handler's socket.
Read(h, m) ==
    /\ up
    /\ pc[h] = "recv"
    /\ m.tid = h
    /\ toHandler' = BagRemove(toHandler, m)
    /\ buf' = [buf EXCEPT ![h] = Overlay(@, m)]
    /\ UNCHANGED <<up, requests, rrqs, toClient, client, file, faults, budget>>

\* The block is acknowledged.
RecvAck(h) ==
    \E m \in DOMAIN toHandler :
       /\ Read(h, m)
       /\ Acks(h, Overlay(buf[h], m))
       /\ NextPacket(h)

\* An ACK of another block, or a packet that is neither ACK nor ERR: the
\* switch falls through, the loop takes its next iteration at once.
RecvOther(h) ==
    \E m \in DOMAIN toHandler :
       LET b == Overlay(buf[h], m)
       IN  /\ Read(h, m)
           /\ ~Acks(h, b)
           /\ b.op # "ERR"
           /\ Retry(h)

\* The client reported an error: the handler returns.
RecvErr(h) ==
    \E m \in DOMAIN toHandler :
       /\ Read(h, m)
       /\ Overlay(buf[h], m).op = "ERR"
       /\ pc' = [pc EXCEPT ![h] = "aborted"]
       /\ UNCHANGED <<pos, block, tries, writes>>

HandlerNext(h) ==
    \/ HandleStart(h) \/ SendData(h) \/ Timeout(h)
    \/ RecvAck(h) \/ RecvOther(h) \/ RecvErr(h)

-----------------------------------------------------------------------------
(* The clients (external).                                                  *)

\* A read request; valid tells whether UnmarshalBinary will accept it.
ClientRequest(c) ==
    /\ requests < MaxRequests
    /\ requests' = requests + 1
    /\ \E v \in BOOLEAN :
          rrqs' = BagAdd(rrqs, [client |-> c, valid |-> v])
    /\ UNCHANGED <<up, toClient, toHandler, handlerVars, file, faults, budget>>

\* The block number is the one the client waits for.
Expected(c, d) == ~Closed(c) /\ d.block = BlockNum(Len(file[c]) + 1)

\* A DATA packet arrives: the client stores the expected block, ignores the
\* payload of any other, and acknowledges the number of either.
ClientReceive(d) ==
    LET c == client[d.tid]
    IN  /\ toClient' = BagRemove(toClient, d)
        /\ toHandler' = BagAdd(toHandler, Reply(d.tid, "ACK", d.block))
        /\ file' = IF Expected(c, d)
                   THEN [file EXCEPT ![c] = Append(@, d.chunk)]
                   ELSE file
        /\ UNCHANGED <<up, requests, rrqs, handlerVars, faults, budget>>

\* The client answers with an error, or something that is no reply at all:
\* another opcode, or an empty datagram.
ClientStray(h) ==
    /\ pc[h] \in Live
    /\ budget > 0
    /\ budget' = budget - 1
    /\ \E o \in {"ERR", "BAD", "EMPTY"} :
          toHandler' = BagAdd(toHandler, Reply(h, o, 0))
    /\ faults' = AddFault(h)
    /\ UNCHANGED <<up, requests, rrqs, toClient, handlerVars, file>>

-----------------------------------------------------------------------------
(* The network (external).                                                  *)

\* A datagram is lost, or delivered twice.
Deliveries(B, x) == {BagRemove(B, x), BagAdd(B, x)}

NetworkFault ==
    /\ budget > 0
    /\ budget' = budget - 1
    /\ \/ /\ \E d \in DOMAIN toClient :
                /\ toClient' \in Deliveries(toClient, d)
                /\ faults' = AddFault(d.tid)
          /\ UNCHANGED <<rrqs, toHandler>>
       \/ /\ \E m \in DOMAIN toHandler :
                /\ toHandler' \in Deliveries(toHandler, m)
                /\ faults' = AddFault(m.tid)
          /\ UNCHANGED <<rrqs, toClient>>
       \/ /\ \E r \in DOMAIN rrqs : rrqs' \in Deliveries(rrqs, r)
          /\ UNCHANGED <<toClient, toHandler, faults>>
    /\ UNCHANGED <<up, requests, handlerVars, file>>

\* A datagram for a socket that its handler has closed is dropped.
Discard ==
    /\ \E m \in DOMAIN toHandler :
          /\ pc[m.tid] \in Ended
          /\ toHandler' = BagRemove(toHandler, m)
    /\ UNCHANGED <<up, requests, rrqs, toClient, handlerVars, file, faults,
                   budget>>

-----------------------------------------------------------------------------
Next ==
    \/ ServeReject \/ ServeReturn
    \/ \E h \in Handlers :
          ServeRequest(h) \/ HandlerNext(h) \/ HandleFail(h) \/ ClientStray(h)
    \/ \E c \in Clients : ClientRequest(c)
    \/ \E d \in DOMAIN toClient : ClientReceive(d)
    \/ NetworkFault \/ Discard

Spec == Init /\ [][Next]_vars

\* The Go scheduler runs every goroutine that is ready, and the read deadline
\* makes every conn.Read return.  No error is bound to happen.
FairSpec == Spec /\ \A h \in Handlers : WF_vars(HandlerNext(h))

-----------------------------------------------------------------------------
(* Properties.                                                              *)

\* Block numbers do not repeat within one transfer: the payload is small
\* enough for dataPkt.Block, a uint16, not to wrap round to a number in use.
NoWrap == NumBlocks <= BlockMod

\* A client's file is the first chunks of the payload, in order, with none
\* missing or repeated, whatever the network did to DATA and ACK packets
\* (MarshalBinary's block numbers and handle's ACK test).
InOrder ==
    \A c \in Clients : \A i \in 1 .. Len(file[c]) : file[c][i] = i

\* When handle logs "sent %d blocks", the client has the whole payload.
SentMeansDelivered ==
    \A h \in Handlers :
        pc[h] = "sent" => Len(file[client[h]]) = NumBlocks

\* handle is never more than one block ahead of its client: it calls
\* MarshalBinary again only once the client has stored the block before.
StopAndWait ==
    \A h \in Handlers :
        pc[h] \in Live => pos[h] <= Len(file[client[h]]) + 1

\* handle never clears buf nor looks at the length Read returned, yet the ACK
\* left in it from an earlier block never passes for one of the current block.
StaleBufferHarmless ==
    \A h \in Handlers : pc[h] \in Live => ~Acks(h, buf[h])

\* "exhausted retries" takes at least Retries faults on this very exchange
\* (losses, duplicates, strays and deadlines that expired early): duplicate
\* ACKs, which each cost handle one of its tries, do not multiply a fault.
GiveUpNeedsFaults ==
    \A h \in Handlers : pc[h] = "exhausted" => faults[h] = Retries

\* Every goroutine handle that is spawned returns, unless the process exits.
HandlerTerminates ==
    \A h \in Handlers : pc[h] = "start" ~> (pc[h] \in Ended \/ ~up)

-----------------------------------------------------------------------------
(* Why it works: an inductive invariant for payloads that satisfy NoWrap.   *)

\* The locals of a handler agree with the place it has reached.
HandlerInv ==
    \A h \in Handlers :
        /\ pc[h] # "idle" => client[h] \in Clients
        /\ pc[h] = "idle" => client[h] = NoClient
        /\ pc[h] \in {"idle", "start"} =>
              pos[h] = 0 /\ block[h] = 0 /\ buf[h].op = "NONE"
        /\ pc[h] \in Live =>
              /\ pos[h] >= 1
              /\ tries[h] >= 1
              /\ writes[h] + tries[h] =
                    IF pc[h] = "recv" THEN Retries + 1 ELSE Retries
        /\ buf[h].op = "ERR" => pc[h] = "aborted"

\* Every DATA packet in flight comes from a handler that was spawned.
DataSource == \A d \in DOMAIN toClient : pc[d.tid] # "idle"

\* The client of handler h has stored a block numbered n.
Stored(h, n) ==
    /\ client[h] \in Clients
    /\ \E k \in 1 .. Len(file[client[h]]) : n = BlockNum(k)

\* Every DATA packet in flight carries the number of its chunk, and its
\* client has stored all the chunks before it.
DataInv ==
    \A d \in DOMAIN toClient :
        /\ d.block = BlockNum(d.chunk)
        /\ d.chunk <= Len(file[client[d.tid]]) + 1

\* Every ACK in flight, and the one left in a handler's buffer, is for a block
\* that the client has stored.
AckInv ==
    /\ \A m \in DOMAIN toHandler : m.op = "ACK" => Stored(m.tid, m.num)
    /\ \A h \in Handlers : buf[h].op = "ACK" => Stored(h, buf[h].num)

\* The handler is at most one block ahead, and numbers it as the client does.
SenderInv ==
    \A h \in Handlers : pc[h] \in Live => block[h] = BlockNum(pos[h])

\* The parts together, with the properties they support.  TLC checks that the
\* reachable states satisfy it, module TFTPProofs that it is inductive.
IndInv ==
    /\ TypeOK /\ HandlerInv /\ DataSource
    /\ DataInv /\ AckInv /\ SenderInv
    /\ InOrder /\ StopAndWait /\ StaleBufferHarmless /\ SentMeansDelivered

-----------------------------------------------------------------------------
(* What the server implements.                                              *)

Status(p) ==
    IF p = "idle" THEN "none"
    ELSE IF p \in Ended THEN IF p = "sent" THEN "done" ELSE "gaveup"
    ELSE "active"

Abs == INSTANCE FileTransfer WITH
          delivered <- file,
          serves <- client,
          status <- [h \in Handlers |-> Status(pc[h])]

\* The server is a file server in the sense of module FileTransfer: clients
\* store the payload's chunks one by one in order, and handle's "sent" log
\* line comes only once the client has all of them.
ImplementsFileTransfer == Abs!Spec

=============================================================================
