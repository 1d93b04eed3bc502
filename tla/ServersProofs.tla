---------------------------- MODULE ServersProofs ----------------------------
(***************************************************************************)
(* Proofs about module MCServers, for every value of its constants.  What   *)
(* follows one server is a behaviour of that server's module, so the        *)
(* theorems about streams, the proxy and the stop carry over; those about   *)
(* the datagram servers, the push and the Pinger are proved here.           *)
(***************************************************************************)
EXTENDS MCServers, FiniteSets, FiniteSetTheorems, SequenceTheorems, TLAPS

\* The modules whose theorems are used.
StreamP == INSTANCE StreamServerProofs
RelayP == INSTANCE ProxyProofs
StopP == INSTANCE WebStopProofs WITH listener <- socket, conn <- peer

-----------------------------------------------------------------------------
(* Both instances of a module are the same.                                 *)

LEMMA SameStream ==
    /\ Stream!Init => StreamP!Init
    /\ Stream!vars = StreamP!vars
    /\ Stream!Next => StreamP!Next
  BY DEF
     Stream!Init, Stream!Next, Stream!vars, Stream!serverVars,
     Stream!clientVars, Stream!Handling, Stream!connVars, Stream!Listen,
     Stream!Load, Stream!Accept, Stream!AcceptClosed, Stream!ServeFail,
     Stream!Close, Stream!TimedOut, Stream!SetDeadline, Stream!Read,
     Stream!Rest, Stream!Write, Stream!Failed, Stream!Fail, Stream!Connect,
     Stream!Send, Stream!Receive, Stream!Leave, Stream!Tick, Stream!Cancel,
     Stream!ServeNext, Stream!Handle, Stream!SumFunction,
     Stream!SumFunctionOnSet, Stream!FoldFunctionOnSet, Stream!MapThenFoldSet,
     StreamP!Init, StreamP!Next, StreamP!vars, StreamP!serverVars,
     StreamP!clientVars, StreamP!Handling, StreamP!connVars, StreamP!Listen,
     StreamP!Load, StreamP!Accept, StreamP!AcceptClosed, StreamP!ServeFail,
     StreamP!Close, StreamP!TimedOut, StreamP!SetDeadline, StreamP!Read,
     StreamP!Rest, StreamP!Write, StreamP!Failed, StreamP!Fail,
     StreamP!Connect, StreamP!Send, StreamP!Receive, StreamP!Leave,
     StreamP!Tick, StreamP!Cancel, StreamP!ServeNext, StreamP!Handle,
     StreamP!SumFunction, StreamP!SumFunctionOnSet, StreamP!FoldFunctionOnSet,
     StreamP!MapThenFoldSet

LEMMA SameRelay ==
    /\ Relay!Init => RelayP!Init
    /\ Relay!vars = RelayP!vars
    /\ Relay!Next => RelayP!Next
  BY DEF
     Relay!Init, Relay!Next, Relay!vars, Relay!clientVars, Relay!mainVars,
     Relay!backVars, Relay!serverVars, Relay!Open, Relay!ClientReads,
     Relay!Return, Relay!MainRead, Relay!MainEnd, Relay!MainWrite,
     Relay!MainWriteFail, Relay!BackRead, Relay!BackWrite,
     Relay!BackWriteFail, Relay!BackEnd, Relay!ClientSend,
     Relay!ClientFin, Relay!ClientClose, Relay!ClientReceive,
     Relay!ServerReply, Relay!ServerClose, Relay!ProxyMain,
     Relay!ProxyBack, Relay!Written, RelayP!Init, RelayP!Next,
     RelayP!vars, RelayP!clientVars, RelayP!mainVars, RelayP!backVars,
     RelayP!serverVars, RelayP!Open, RelayP!ClientReads, RelayP!Return,
     RelayP!MainRead, RelayP!MainEnd, RelayP!MainWrite,
     RelayP!MainWriteFail, RelayP!BackRead, RelayP!BackWrite,
     RelayP!BackWriteFail, RelayP!BackEnd, RelayP!ClientSend,
     RelayP!ClientFin, RelayP!ClientClose, RelayP!ClientReceive,
     RelayP!ServerReply, RelayP!ServerClose, RelayP!ProxyMain,
     RelayP!ProxyBack, RelayP!Written

LEMMA SameStop ==
    /\ Stop!Init => StopP!Init
    /\ Stop!vars = StopP!vars
    /\ Stop!Next => StopP!Next
  BY DEF
     Stop!Init, Stop!Next, Stop!vars, Stop!runVars, Stop!stopVars,
     Stop!connVars, Stop!Up, Stop!NotStopped, Stop!Ended, Stop!OpenConns,
     Stop!Listen, Stop!AfterServe, Stop!ServeClosed, Stop!ServeFail,
     Stop!Return, Stop!Notify, Stop!TakeSignal, Stop!AcceptLoopLeft,
     Stop!Idle, Stop!CloseIdle, Stop!CloseDone, Stop!Connect,
     Stop!SendRequest, Stop!Handle, Stop!Answer, Stop!Interrupt,
     Stop!InterruptKills, Stop!RunNext, Stop!Stopper, StopP!Init, StopP!Next,
     StopP!vars, StopP!runVars, StopP!stopVars, StopP!connVars, StopP!Up,
     StopP!NotStopped, StopP!Ended, StopP!OpenConns, StopP!Listen,
     StopP!AfterServe, StopP!ServeClosed, StopP!ServeFail, StopP!Return,
     StopP!Notify, StopP!TakeSignal, StopP!AcceptLoopLeft, StopP!Idle,
     StopP!CloseIdle, StopP!CloseDone, StopP!Connect, StopP!SendRequest,
     StopP!Handle, StopP!Answer, StopP!Interrupt, StopP!InterruptKills,
     StopP!RunNext, StopP!Stopper

-----------------------------------------------------------------------------
(* The datagram servers: why one buffer is enough.                          *)

\* The queue holds datagrams as they were sent, on a Unix socket each client's in
\* their order.
Sent(d) ==
    /\ d.serial \in 1 .. Len(sent[d.from])
    /\ d.length = sent[d.from][d.serial]
InOrder(q) ==
    \A i, j \in 1 .. Len(q) :
        i < j /\ q[i].from = q[j].from => q[i].serial < q[j].serial

\* buf[:n] is the reply to datagram s of the client at clientAddr.
Holds(s) ==
    /\ s \in 1 .. Len(sent[clientAddr])
    /\ n = Datagram!Smaller(sent[clientAddr][s], Size)
    /\ \A j \in 1 .. n : buf[j] = <<clientAddr, s>>

\* How many datagrams of c a server on a Unix socket has read.
Turn(c) ==
    IF pc = "write" /\ clientAddr = c THEN Len(inbox[c]) + 1 ELSE Len(inbox[c])

NotBegun ==
    pc = "listen" =>
        ~open /\ queue = <<>> /\ \A c \in Clients : sent[c] = <<>> /\ inbox[c] = <<>>
QueueIsSound ==
    /\ ~open => queue = <<>>
    /\ network = "unixgram" => InOrder(queue)
    /\ \A i \in 1 .. Len(queue) : Sent(queue[i])
ReplyIsReady ==
    pc = "write" =>
        \E s \in Nat : /\ Holds(s)
                       /\ network = "unixgram" => s = Len(inbox[clientAddr]) + 1
InTurn ==
    network = "unixgram" =>
        /\ \A c \in Clients : Len(inbox[c]) <= Len(sent[c])
        /\ open /\ pc \in {"read", "write"} =>
             /\ \A i \in 1 .. Len(queue) : queue[i].serial > Turn(queue[i].from)
             /\ \A c \in Clients : \A s \in 1 .. Len(sent[c]) :
                  s > Turn(c) =>
                    \E i \in 1 .. Len(queue) :
                        queue[i].from = c /\ queue[i].serial = s

RepliesMatch ==
    \A c \in Clients :
      /\ \A k \in DOMAIN inbox[c] :
           \E i \in DOMAIN sent[c] : inbox[c][k] = Datagram!Echo(c, i)
      /\ network = "unixgram" =>
           \A k \in DOMAIN inbox[c] : inbox[c][k] = Datagram!Echo(c, k)

DatagramInv ==
    /\ Datagram!TypeOK /\ NotBegun /\ QueueIsSound /\ ReplyIsReady /\ InTurn
    /\ RepliesMatch

LEMMA DatagramInit == Datagram!Parameters /\ Datagram!Init => DatagramInv
<1> SUFFICES ASSUME Datagram!Parameters, Datagram!Init
             PROVE  DatagramInv
  OBVIOUS
<1>1. /\ network = "none" /\ open = FALSE /\ file = FALSE /\ cancelled = FALSE
      /\ queue = <<>> /\ pc = "listen" /\ n = 0 /\ left = {}
      /\ doubled = 0 /\ MaxDoubled \in Nat
      /\ buf = [i \in 1 .. Size |-> <<>>] /\ clientAddr \in Clients
      /\ sent = [c \in Clients |-> <<>>] /\ inbox = [c \in Clients |-> <<>>]
      /\ unread = [c \in Clients |-> 0] /\ Size \in Nat /\ Room \in Nat
  BY DEF Datagram!Init, Datagram!Parameters
<1>2. Datagram!TypeOK
  <2>1. queue \in Seq(Datagram!Datagrams) /\ Len(queue) <= Room
    BY <1>1
  <2>2. buf \in [1 .. Size -> Datagram!Bytes] /\ n \in 0 .. Size
    BY <1>1 DEF Datagram!Bytes
  <2>3. /\ sent \in [Clients -> Seq(Lengths)]
        /\ inbox \in [Clients -> Seq(Seq(Datagram!Bytes))]
        /\ unread \in [Clients -> 0 .. Room] /\ doubled \in 0 .. MaxDoubled
    BY <1>1
  <2> QED
    BY <1>1, <2>1, <2>2, <2>3 DEF Datagram!TypeOK
<1>3. NotBegun /\ QueueIsSound /\ ReplyIsReady /\ InTurn
  BY <1>1 DEF NotBegun, QueueIsSound, ReplyIsReady, InTurn, InOrder
<1>4. RepliesMatch
  BY <1>1 DEF RepliesMatch
<1> QED
  BY <1>2, <1>3, <1>4 DEF DatagramInv

\* A sequence without its item i.
LEMMA Removed ==
    ASSUME NEW D, NEW q \in Seq(D), NEW i \in 1 .. Len(q)
    PROVE  /\ Datagram!RemoveAt(q, i) \in Seq(D)
           /\ Len(Datagram!RemoveAt(q, i)) = Len(q) - 1
           /\ \A j \in 1 .. Len(q) - 1 :
                Datagram!RemoveAt(q, i)[j] = IF j < i THEN q[j] ELSE q[j + 1]
<1> DEFINE a == SubSeq(q, 1, i - 1)
           b == SubSeq(q, i + 1, Len(q))
<1>1. /\ a \in Seq(D) /\ Len(a) = i - 1 /\ \A j \in 1 .. i - 1 : a[j] = q[j]
      /\ b \in Seq(D) /\ Len(b) = Len(q) - i
      /\ \A j \in 1 .. Len(q) - i : b[j] = q[i + j]
  OBVIOUS
<1>2. Datagram!RemoveAt(q, i) = a \o b
  BY DEF Datagram!RemoveAt
<1> HIDE DEF a, b
<1>3. /\ a \o b \in Seq(D) /\ Len(a \o b) = Len(q) - 1
      /\ \A j \in 1 .. Len(q) - 1 :
           (a \o b)[j] = IF j < i THEN a[j] ELSE b[j - i + 1]
  <2>1. /\ a \o b \in Seq(D) /\ Len(a \o b) = Len(a) + Len(b)
        /\ \A j \in 1 .. Len(a) + Len(b) :
             (a \o b)[j] = IF j <= Len(a) THEN a[j] ELSE b[j - Len(a)]
    BY <1>1, ConcatProperties
  <2>2. Len(a) = i - 1 /\ Len(a) + Len(b) = Len(q) - 1 /\ Len(q) \in Nat
    BY <1>1
  <2>3. \A j \in 1 .. Len(q) - 1 : (j <= i - 1 <=> j < i) /\ j - (i - 1) = j - i + 1
    BY <2>2
  <2> QED
    BY <2>1, <2>2, <2>3
<1>4. ASSUME NEW j \in 1 .. Len(q) - 1
      PROVE  (a \o b)[j] = IF j < i THEN q[j] ELSE q[j + 1]
  <2>1. CASE j < i
    BY <1>1, <1>3, <2>1
  <2>2. CASE ~(j < i)
    <3>1. j - i + 1 \in 1 .. Len(q) - i /\ i + (j - i + 1) = j + 1
      BY <2>2
    <3>2. b[j - i + 1] = q[j + 1]
      BY <1>1, <3>1
    <3> QED
      BY <1>3, <2>2, <3>2
  <2> QED
    BY <2>1, <2>2
<1> QED
  BY <1>2, <1>3, <1>4

\* The loop ends, the socket is closed, or something changes that the replies do
\* not depend on.
LEMMA DatagramQuiet ==
    ASSUME DatagramInv, Datagram!TypeOK',
           UNCHANGED <<network, buf, n, clientAddr, sent, inbox>>,
           pc' = pc \/ (pc' = "done" /\ pc # "listen"),
           UNCHANGED <<open, queue>> \/ (~open' /\ queue' = <<>>)
    PROVE  DatagramInv'
<1>2. NotBegun'
  BY DEF DatagramInv, NotBegun
<1>3. QueueIsSound'
  BY DEF DatagramInv, QueueIsSound, InOrder, Sent
<1>4. ReplyIsReady'
  <2> SUFFICES ASSUME pc' = "write"
               PROVE  \E s \in Nat :
                        /\ Holds(s)'
                        /\ network' = "unixgram" => s = Len(inbox'[clientAddr']) + 1
    BY DEF ReplyIsReady
  <2>1. PICK s \in Nat :
            Holds(s) /\ (network = "unixgram" => s = Len(inbox[clientAddr]) + 1)
    BY DEF DatagramInv, ReplyIsReady
  <2>2. Holds(s)'
    BY <2>1 DEF Holds
  <2> QED
    BY <2>1, <2>2
<1>5. InTurn'
  BY DEF DatagramInv, InTurn, Turn
<1>6. RepliesMatch'
  BY DEF DatagramInv, RepliesMatch, Datagram!Echo
<1> QED
  BY <1>2, <1>3, <1>4, <1>5, <1>6 DEF DatagramInv

LEMMA RemovedItems ==
    ASSUME NEW D, NEW q \in Seq(D), NEW i \in 1 .. Len(q)
    PROVE  LET r == Datagram!RemoveAt(q, i) IN
           /\ r \in Seq(D) /\ Len(r) = Len(q) - 1
           /\ \A j \in 1 .. Len(r) : \E k \in 1 .. Len(q) : k # i /\ r[j] = q[k]
           /\ \A k \in 1 .. Len(q) : k # i => \E j \in 1 .. Len(r) : r[j] = q[k]
           /\ InOrder(q) => InOrder(r)
<1> DEFINE source(j) == IF j < i THEN j ELSE j + 1
           r == Datagram!RemoveAt(q, i)
<1>1. /\ r \in Seq(D) /\ Len(r) = Len(q) - 1
      /\ \A j \in 1 .. Len(r) : r[j] = q[source(j)]
  BY Removed
<1>2. /\ \A j \in 1 .. Len(r) : source(j) \in 1 .. Len(q) /\ source(j) # i
      /\ \A j, k \in 1 .. Len(r) : j < k => source(j) < source(k)
  BY <1>1
<1>3. ASSUME NEW k \in 1 .. Len(q), k # i
      PROVE  \E j \in 1 .. Len(r) : r[j] = q[k]
  <2>1. CASE k < i
    <3>1. k \in 1 .. Len(r) /\ source(k) = k
      BY <1>1, <2>1
    <3> QED
      BY <1>1, <3>1
  <2>2. CASE k > i
    <3>1. k - 1 \in 1 .. Len(r) /\ source(k - 1) = k
      BY <1>1, <2>2
    <3> QED
      BY <1>1, <3>1
  <2> QED
    BY <1>3, <2>1, <2>2
<1> HIDE DEF source, r
<1>4. ASSUME InOrder(q) PROVE InOrder(r)
  BY <1>1, <1>2, <1>4 DEF InOrder
<1> QED
  BY <1>1, <1>2, <1>3, <1>4 DEF r

\* The socket's queue without one of its datagrams.
LEMMA QueueWithout ==
    ASSUME DatagramInv, NEW i \in 1 .. Len(queue),
           queue' = Datagram!RemoveAt(queue, i),
           UNCHANGED <<network, open, sent>>, open, Datagram!Parameters
    PROVE  /\ QueueIsSound'
           /\ queue' \in Seq(Datagram!Datagrams) /\ Len(queue') <= Room
           /\ \A j \in 1 .. Len(queue') :
                \E k \in 1 .. Len(queue) : k # i /\ queue'[j] = queue[k]
           /\ \A k \in 1 .. Len(queue) :
                k # i => \E j \in 1 .. Len(queue') : queue'[j] = queue[k]
           /\ network = "unixgram" =>
                \A j \in 1 .. Len(queue') : queue'[j].from = queue[i].from =>
                   queue'[j].serial # queue[i].serial
<1>1. /\ queue \in Seq(Datagram!Datagrams) /\ Len(queue) <= Room
      /\ network = "unixgram" => InOrder(queue)
  BY DEF DatagramInv, Datagram!TypeOK, QueueIsSound
<1>2. /\ queue' \in Seq(Datagram!Datagrams) /\ Len(queue') = Len(queue) - 1
      /\ \A j \in 1 .. Len(queue') :
           \E k \in 1 .. Len(queue) : k # i /\ queue'[j] = queue[k]
      /\ \A k \in 1 .. Len(queue) :
           k # i => \E j \in 1 .. Len(queue') : queue'[j] = queue[k]
      /\ InOrder(queue) => InOrder(queue')
  <2> DEFINE r == Datagram!RemoveAt(queue, i)
  <2>1. /\ r \in Seq(Datagram!Datagrams) /\ Len(r) = Len(queue) - 1
        /\ \A j \in 1 .. Len(r) : \E k \in 1 .. Len(queue) : k # i /\ r[j] = queue[k]
        /\ \A k \in 1 .. Len(queue) : k # i => \E j \in 1 .. Len(r) : r[j] = queue[k]
        /\ InOrder(queue) => InOrder(r)
    BY <1>1, RemovedItems
  <2>2. queue' = r
    OBVIOUS
  <2> HIDE DEF r
  <2> QED
    BY <2>1, <2>2
<1>3. network = "unixgram" =>
         \A j \in 1 .. Len(queue') : queue'[j].from = queue[i].from =>
            queue'[j].serial # queue[i].serial
  <2> SUFFICES ASSUME network = "unixgram",
                      NEW j \in 1 .. Len(queue'), queue'[j].from = queue[i].from
               PROVE  queue'[j].serial # queue[i].serial
    OBVIOUS
  <2>1. PICK k \in 1 .. Len(queue) : k # i /\ queue'[j] = queue[k]
    BY <1>2
  <2>2. queue[k].serial \in Nat /\ queue[i].serial \in Nat
    <3>1. queue[k] \in Datagram!Datagrams /\ queue[i] \in Datagram!Datagrams
      BY <1>1
    <3> QED
      BY <3>1 DEF Datagram!Datagrams, Datagram!Serials
  <2>3. k < i \/ i < k
    BY <2>1
  <2> QED
    BY <1>1, <2>1, <2>2, <2>3 DEF InOrder
<1>4. \A j \in 1 .. Len(queue') : Sent(queue[j])'
  <2> SUFFICES ASSUME NEW j \in 1 .. Len(queue')
               PROVE  Sent(queue[j])'
    OBVIOUS
  <2>1. PICK k \in 1 .. Len(queue) : queue'[j] = queue[k]
    BY <1>2
  <2>2. Sent(queue[k])
    BY DEF DatagramInv, QueueIsSound
  <2> QED
    BY <2>1, <2>2 DEF Sent
<1>5. Len(queue') <= Room
  <2>1. Len(queue) \in Nat /\ Room \in Nat
    BY <1>1 DEF Datagram!Parameters
  <2> QED
    BY <1>1, <1>2, <2>1
<1> QED
  BY <1>1, <1>2, <1>3, <1>4, <1>5 DEF QueueIsSound

LEMMA ListenStep ==
    Datagram!Parameters /\ DatagramInv /\ Datagram!ListenPacket => DatagramInv'
<1> SUFFICES ASSUME Datagram!Parameters, DatagramInv, Datagram!ListenPacket
             PROVE  DatagramInv'
  OBVIOUS
<1>1. /\ pc = "listen" /\ network' \in {"udp", "unixgram"} /\ open' = TRUE
      /\ file' \in BOOLEAN /\ pc' = "read"
      /\ cancelled' = cancelled /\ queue' = queue /\ buf' = buf /\ n' = n
      /\ clientAddr' = clientAddr /\ sent' = sent /\ inbox' = inbox
      /\ unread' = unread /\ left' = left /\ doubled' = doubled
  BY DEF Datagram!ListenPacket, Datagram!clients
<1>2. queue = <<>> /\ \A c \in Clients : sent[c] = <<>> /\ inbox[c] = <<>>
  BY <1>1 DEF DatagramInv, NotBegun
<1>3. Datagram!TypeOK'
  BY <1>1 DEF DatagramInv, Datagram!TypeOK
<1>4. NotBegun' /\ ReplyIsReady'
  BY <1>1 DEF NotBegun, ReplyIsReady
<1>5. QueueIsSound' /\ InTurn'
  BY <1>1, <1>2 DEF QueueIsSound, InOrder, InTurn
<1>6. RepliesMatch'
  BY <1>1, <1>2 DEF RepliesMatch
<1> QED
  BY <1>3, <1>4, <1>5, <1>6 DEF DatagramInv

LEMMA LoseStep ==
    Datagram!Parameters /\ DatagramInv /\ Datagram!Lose => DatagramInv'
<1> SUFFICES ASSUME Datagram!Parameters, DatagramInv, Datagram!Lose
             PROVE  DatagramInv'
  OBVIOUS
<1>1. PICK i \in 1 .. Len(queue) : queue' = Datagram!RemoveAt(queue, i)
  BY DEF Datagram!Lose
<1>2. /\ network = "udp" /\ network' = network /\ open' = open /\ file' = file
      /\ cancelled' = cancelled /\ pc' = pc /\ buf' = buf /\ n' = n
      /\ clientAddr' = clientAddr /\ sent' = sent /\ inbox' = inbox
      /\ unread' = unread /\ left' = left /\ doubled' = doubled
  BY DEF Datagram!Lose, Datagram!clients, Datagram!socket, Datagram!server
<1>3. open /\ pc # "listen"
  <2>1. queue # <<>>
    BY <1>1
  <2> QED
    BY <2>1 DEF DatagramInv, QueueIsSound, NotBegun
<1>4. /\ QueueIsSound'
      /\ queue' \in Seq(Datagram!Datagrams) /\ Len(queue') <= Room
  BY <1>1, <1>2, <1>3, QueueWithout
<1>5. Datagram!TypeOK'
  BY <1>2, <1>4 DEF DatagramInv, Datagram!TypeOK
<1>6. NotBegun' /\ InTurn'
  BY <1>2, <1>3 DEF NotBegun, InTurn
<1>7. ReplyIsReady'
  <2> SUFFICES ASSUME pc = "write" PROVE \E s \in Nat : Holds(s)'
    BY <1>2 DEF ReplyIsReady
  <2>1. PICK s \in Nat : Holds(s)
    BY DEF DatagramInv, ReplyIsReady
  <2>2. Holds(s)'
    BY <1>2, <2>1 DEF Holds
  <2> QED
    BY <2>2
<1>8. RepliesMatch'
  BY <1>2 DEF DatagramInv, RepliesMatch, Datagram!Echo
<1> QED
  BY <1>4, <1>5, <1>6, <1>7, <1>8 DEF DatagramInv

\* What the invariant says of the items of the queue and of the sequences.
LEMMA DatagramFacts ==
    ASSUME Datagram!Parameters, DatagramInv
    PROVE  /\ queue \in Seq(Datagram!Datagrams) /\ Len(queue) \in Nat
           /\ Len(queue) <= Room /\ Room \in Nat /\ Size \in Nat
           /\ \A i \in 1 .. Len(queue) :
                /\ queue[i].from \in Clients /\ queue[i].serial \in Nat
                /\ queue[i].length \in Nat
                /\ queue[i].serial <= Len(sent[queue[i].from])
           /\ \A c \in Clients :
                /\ sent[c] \in Seq(Lengths) /\ Len(sent[c]) \in Nat
                /\ inbox[c] \in Seq(Seq(Datagram!Bytes)) /\ Len(inbox[c]) \in Nat
           /\ clientAddr \in Clients
<1>1. /\ queue \in Seq(Datagram!Datagrams) /\ Len(queue) <= Room
      /\ sent \in [Clients -> Seq(Lengths)]
      /\ inbox \in [Clients -> Seq(Seq(Datagram!Bytes))] /\ clientAddr \in Clients
  BY DEF DatagramInv, Datagram!TypeOK
<1>2. ASSUME NEW i \in 1 .. Len(queue)
      PROVE  /\ queue[i].from \in Clients /\ queue[i].serial \in Nat
             /\ queue[i].length \in Nat
             /\ queue[i].serial <= Len(sent[queue[i].from])
  <2>1. queue[i] \in Datagram!Datagrams
    BY <1>1
  <2>2. queue[i].serial \in 1 .. Len(sent[queue[i].from])
    BY DEF DatagramInv, QueueIsSound, Sent
  <2>3. /\ queue[i].from \in Clients /\ queue[i].serial \in Nat
        /\ queue[i].length \in Nat
    BY <2>1 DEF Datagram!Datagrams, Datagram!Serials, Datagram!Parameters
  <2>4. sent[queue[i].from] \in Seq(Lengths)
    BY <1>1, <2>3
  <2>5. Len(sent[queue[i].from]) \in Nat
    BY <2>4
  <2> QED
    BY <2>2, <2>3, <2>5
<1>3. ASSUME NEW c \in Clients
      PROVE  /\ sent[c] \in Seq(Lengths) /\ Len(sent[c]) \in Nat
             /\ inbox[c] \in Seq(Seq(Datagram!Bytes)) /\ Len(inbox[c]) \in Nat
  <2>1. sent[c] \in Seq(Lengths) /\ inbox[c] \in Seq(Seq(Datagram!Bytes))
    BY <1>1
  <2> QED
    BY <2>1
<1>4. Len(queue) \in Nat /\ Room \in Nat /\ Size \in Nat
  BY <1>1 DEF Datagram!Parameters
<1> QED
  BY <1>1, <1>2, <1>3, <1>4

\* A reply that has a byte in it says which datagram it answers.
LEMMA EchoFacts ==
    ASSUME Datagram!Parameters, NEW c \in Clients, sent[c] \in Seq(Lengths),
           NEW i \in 1 .. Len(sent[c])
    PROVE  /\ Datagram!Smaller(sent[c][i], Size) \in 0 .. Size
           /\ Datagram!Echo(c, i) # <<>> => Datagram!Echo(c, i)[1] = <<c, i>>
<1> DEFINE m == Datagram!Smaller(sent[c][i], Size)
<1>1. m \in 0 .. Size
  <2>1. sent[c][i] \in Lengths
    OBVIOUS
  <2>2. sent[c][i] \in Nat /\ Size \in Nat
    BY <2>1 DEF Datagram!Parameters
  <2> QED
    BY <2>2 DEF Datagram!Smaller
<1>2. Datagram!Echo(c, i) = [j \in 1 .. m |-> <<c, i>>]
  BY DEF Datagram!Echo
<1> HIDE DEF m
<1>3. ASSUME m = 0 PROVE Datagram!Echo(c, i) = <<>>
  <2>1. Datagram!Echo(c, i) \in Seq({<<c, i>>}) /\ Len(Datagram!Echo(c, i)) = 0
    BY <1>2, <1>3
  <2> QED
    BY <2>1, EmptySeq
<1>4. ASSUME m # 0 PROVE Datagram!Echo(c, i)[1] = <<c, i>>
  <2>1. 1 \in 1 .. m
    BY <1>1, <1>4 DEF Datagram!Parameters
  <2> QED
    BY <1>2, <2>1
<1> QED
  BY <1>1, <1>3, <1>4 DEF m

\* A datagram joins the queue: the last of its client's.
LEMMA SendStep ==
    ASSUME Datagram!Parameters, DatagramInv, NEW c \in Clients, Datagram!Send(c)
    PROVE  DatagramInv'
<1>1. PICK length \in Lengths :
          /\ sent' = [sent EXCEPT ![c] = Append(@, length)]
          /\ queue' = Append(queue,
               [from |-> c, serial |-> Len(sent[c]) + 1, length |-> length])
  BY DEF Datagram!Send
<1> DEFINE d == [from |-> c, serial |-> Len(sent[c]) + 1, length |-> length]
<1>2. /\ open /\ Len(queue) < Room /\ network' = network /\ open' = open
      /\ file' = file /\ cancelled' = cancelled /\ pc' = pc /\ buf' = buf
      /\ n' = n /\ clientAddr' = clientAddr /\ inbox' = inbox
      /\ unread' = unread /\ left' = left /\ doubled' = doubled
  BY DEF Datagram!Send, Datagram!socket, Datagram!server
<1>3. /\ d \in Datagram!Datagrams /\ d.from = c /\ d.serial = Len(sent[c]) + 1
      /\ d.length = length /\ length \in Nat
  BY DatagramFacts DEF Datagram!Datagrams, Datagram!Serials, Datagram!Parameters
<1>4. queue' = Append(queue, d)
  BY <1>1
<1> HIDE DEF d
<1>5. /\ queue' \in Seq(Datagram!Datagrams) /\ Len(queue') = Len(queue) + 1
      /\ \A i \in 1 .. Len(queue) : queue'[i] = queue[i]
      /\ queue'[Len(queue) + 1] = d
  BY <1>3, <1>4, DatagramFacts, AppendProperties
<1>6. /\ sent' \in [Clients -> Seq(Lengths)]
      /\ sent'[c] = Append(sent[c], length)
      /\ Len(sent'[c]) = Len(sent[c]) + 1
      /\ \A s \in 1 .. Len(sent[c]) : sent'[c][s] = sent[c][s]
      /\ sent'[c][Len(sent[c]) + 1] = length
      /\ \A e \in Clients : e # c => sent'[e] = sent[e]
  <2>1. sent \in [Clients -> Seq(Lengths)] /\ sent[c] \in Seq(Lengths)
    BY DEF DatagramInv, Datagram!TypeOK
  <2>2. /\ Append(sent[c], length) \in Seq(Lengths)
        /\ Len(Append(sent[c], length)) = Len(sent[c]) + 1
        /\ \A s \in 1 .. Len(sent[c]) : Append(sent[c], length)[s] = sent[c][s]
        /\ Append(sent[c], length)[Len(sent[c]) + 1] = length
    BY <2>1, AppendProperties
  <2> QED
    BY <1>1, <2>1, <2>2
<1>7. \A e \in Clients :
         /\ Len(sent[e]) <= Len(sent'[e])
         /\ \A s \in 1 .. Len(sent[e]) :
              s \in 1 .. Len(sent'[e]) /\ sent'[e][s] = sent[e][s]
  <2> SUFFICES ASSUME NEW e \in Clients
               PROVE  /\ Len(sent[e]) <= Len(sent'[e])
                      /\ \A s \in 1 .. Len(sent[e]) :
                           s \in 1 .. Len(sent'[e]) /\ sent'[e][s] = sent[e][s]
    OBVIOUS
  <2>1. Len(sent[e]) \in Nat /\ Len(sent[c]) \in Nat
    BY DatagramFacts
  <2>2. CASE e = c
    BY <1>6, <2>1, <2>2
  <2>3. CASE e # c
    BY <1>6, <2>1, <2>3
  <2> QED
    BY <2>2, <2>3
<1>8. Datagram!TypeOK'
  <2>1. Len(queue') <= Room
    BY <1>2, <1>5, DatagramFacts
  <2> QED
    BY <1>2, <1>5, <1>6, <2>1 DEF DatagramInv, Datagram!TypeOK
<1>10. QueueIsSound'
  <2>1. network = "unixgram" => InOrder(queue')
    <3> SUFFICES ASSUME network = "unixgram",
                        NEW i \in 1 .. Len(queue'), NEW j \in 1 .. Len(queue'),
                        i < j, queue'[i].from = queue'[j].from
                 PROVE  queue'[i].serial < queue'[j].serial
      BY DEF InOrder
    <3>1. i \in 1 .. Len(queue) /\ queue'[i] = queue[i]
      BY <1>5, DatagramFacts
    <3>2. CASE j \in 1 .. Len(queue)
      BY <1>5, <3>1, <3>2 DEF DatagramInv, QueueIsSound, InOrder
    <3>3. CASE j = Len(queue) + 1
      BY SMTT(40), <1>3, <1>5, <3>1, <3>3, DatagramFacts
    <3> QED
      BY <1>5, <3>2, <3>3, DatagramFacts
  <2>2. ASSUME NEW i \in 1 .. Len(queue')
        PROVE  Sent(queue[i])'
    <3>1. CASE i \in 1 .. Len(queue)
      <4>1. queue'[i] = queue[i] /\ queue[i].from \in Clients /\ Sent(queue[i])
        BY <1>5, <3>1, DatagramFacts DEF DatagramInv, QueueIsSound
      <4> QED
        BY ZenonT(60), <1>7, <4>1 DEF Sent
    <3>2. CASE i = Len(queue) + 1
      <4>1. queue'[i] = d /\ Len(sent[c]) + 1 \in 1 .. Len(sent'[c])
        BY <1>5, <1>6, <3>2, DatagramFacts
      <4> QED
        BY <1>3, <1>6, <4>1 DEF Sent
    <3> QED
      BY <1>5, <3>1, <3>2, DatagramFacts
  <2> QED
    BY <1>2, <2>1, <2>2 DEF QueueIsSound
<1>11. ReplyIsReady'
  <2> SUFFICES ASSUME pc = "write"
               PROVE  \E s \in Nat :
                        /\ Holds(s)'
                        /\ network = "unixgram" => s = Len(inbox[clientAddr]) + 1
    BY <1>2 DEF ReplyIsReady
  <2>1. PICK s \in Nat :
            Holds(s) /\ (network = "unixgram" => s = Len(inbox[clientAddr]) + 1)
    BY DEF DatagramInv, ReplyIsReady
  <2>2. /\ s \in 1 .. Len(sent'[clientAddr])
        /\ sent'[clientAddr][s] = sent[clientAddr][s]
    BY <1>7, <2>1, DatagramFacts DEF Holds
  <2>3. Holds(s)'
    BY <1>2, <2>1, <2>2 DEF Holds
  <2> QED
    BY <2>1, <2>3
<1>12. InTurn'
  <2> SUFFICES ASSUME network = "unixgram"
               PROVE  /\ \A e \in Clients : Len(inbox[e]) <= Len(sent'[e])
                      /\ pc \in {"read", "write"} =>
                           /\ \A i \in 1 .. Len(queue') :
                                queue'[i].serial > Turn(queue'[i].from)
                           /\ \A e \in Clients : \A s \in 1 .. Len(sent'[e]) :
                                s > Turn(e) =>
                                  \E i \in 1 .. Len(queue') :
                                      queue'[i].from = e /\ queue'[i].serial = s
    BY <1>2 DEF InTurn, Turn
  <2>1. /\ \A e \in Clients : Len(inbox[e]) <= Len(sent[e])
        /\ pc \in {"read", "write"} =>
             /\ \A i \in 1 .. Len(queue) : queue[i].serial > Turn(queue[i].from)
             /\ \A e \in Clients : \A s \in 1 .. Len(sent[e]) :
                  s > Turn(e) =>
                    \E i \in 1 .. Len(queue) :
                        queue[i].from = e /\ queue[i].serial = s
    BY <1>2 DEF DatagramInv, InTurn
  <2>2. ASSUME NEW e \in Clients PROVE Len(inbox[e]) <= Len(sent'[e])
    <3>1. /\ Len(inbox[e]) \in Nat /\ Len(sent[e]) \in Nat
          /\ sent'[e] \in Seq(Lengths)
      BY <1>6, DatagramFacts
    <3>2. Len(sent'[e]) \in Nat
      BY <3>1
    <3> QED
      BY <1>7, <2>1, <3>1, <3>2
  <2>3. Turn(c) <= Len(sent[c]) /\ Turn(c) \in Nat
    <3>1. CASE pc = "write" /\ clientAddr = c
      <4>1. PICK s \in Nat : Holds(s) /\ s = Len(inbox[clientAddr]) + 1
        BY <3>1 DEF DatagramInv, ReplyIsReady
      <4> QED
        BY <3>1, <4>1, DatagramFacts DEF Holds, Turn
    <3>2. CASE ~(pc = "write" /\ clientAddr = c)
      BY <2>1, <3>2, DatagramFacts DEF Turn
    <3> QED
      BY <3>1, <3>2
  <2>4. ASSUME pc \in {"read", "write"}, NEW i \in 1 .. Len(queue')
        PROVE  queue'[i].serial > Turn(queue'[i].from)
    <3>1. CASE i \in 1 .. Len(queue)
      BY <1>5, <2>1, <2>4, <3>1
    <3>2. CASE i = Len(queue) + 1
      BY <1>3, <1>5, <2>3, <3>2, DatagramFacts
    <3> QED
      BY <1>5, <3>1, <3>2, DatagramFacts
  <2>5. ASSUME pc \in {"read", "write"}, NEW e \in Clients,
               NEW s \in 1 .. Len(sent'[e]), s > Turn(e)
        PROVE  \E i \in 1 .. Len(queue') :
                  queue'[i].from = e /\ queue'[i].serial = s
    <3>1. CASE s \in 1 .. Len(sent[e])
      <4>1. PICK i \in 1 .. Len(queue) : queue[i].from = e /\ queue[i].serial = s
        BY <2>1, <2>5, <3>1
      <4>2. i \in 1 .. Len(queue') /\ queue'[i] = queue[i]
        BY <1>5, DatagramFacts
      <4> QED
        BY <4>1, <4>2
    <3>2. CASE s \notin 1 .. Len(sent[e])
      <4>1. e = c /\ s = Len(sent[c]) + 1
        BY <1>6, <3>2, DatagramFacts
      <4>2. Len(queue) + 1 \in 1 .. Len(queue')
        BY <1>5, DatagramFacts
      <4> QED
        BY <1>3, <1>5, <4>1, <4>2
    <3> QED
      BY <3>1, <3>2
  <2> QED
    BY <2>2, <2>4, <2>5
<1>13. RepliesMatch'
  <2>1. ASSUME NEW e \in Clients, NEW s \in 1 .. Len(sent[e])
        PROVE  s \in DOMAIN sent'[e] /\ Datagram!Echo(e, s)' = Datagram!Echo(e, s)
    <3>1. sent'[e] \in Seq(Lengths)
      BY <1>6
    <3> QED
      BY <1>7, <3>1 DEF Datagram!Echo
  <2>2. ASSUME NEW e \in Clients, NEW k \in DOMAIN inbox[e]
        PROVE  \E i \in DOMAIN sent'[e] : inbox[e][k] = Datagram!Echo(e, i)'
    <3>1. PICK i \in DOMAIN sent[e] : inbox[e][k] = Datagram!Echo(e, i)
      BY DEF DatagramInv, RepliesMatch
    <3>2. i \in 1 .. Len(sent[e])
      BY DatagramFacts
    <3> QED
      BY <2>1, <3>1, <3>2
  <2>3. ASSUME network = "unixgram", NEW e \in Clients, NEW k \in DOMAIN inbox[e]
        PROVE  inbox[e][k] = Datagram!Echo(e, k)'
    <3>1. inbox[e][k] = Datagram!Echo(e, k)
      BY <2>3 DEF DatagramInv, RepliesMatch
    <3>2. k \in 1 .. Len(sent[e])
      BY <2>3, DatagramFacts DEF DatagramInv, InTurn
    <3> QED
      BY <2>1, <3>1, <3>2
  <2> QED
    BY <1>2, <2>2, <2>3 DEF RepliesMatch
<1>14. NotBegun'
  BY <1>2 DEF DatagramInv, NotBegun
<1> QED
  BY <1>8, <1>10, <1>11, <1>12, <1>13, <1>14 DEF DatagramInv

\* ReadFrom overwrites the buffer as far as the reply will reach.
LEMMA ReadFromStep ==
    Datagram!Parameters /\ DatagramInv /\ Datagram!ReadFrom => DatagramInv'
<1> SUFFICES ASSUME Datagram!Parameters, DatagramInv, Datagram!ReadFrom
             PROVE  DatagramInv'
  OBVIOUS
<1>1. PICK i \in 1 .. Len(queue) :
          /\ network = "udp" \/ i = 1
          /\ buf' = Datagram!Filled(queue[i])
          /\ n' = Datagram!Smaller(queue[i].length, Size)
          /\ clientAddr' = queue[i].from
          /\ queue' = Datagram!RemoveAt(queue, i)
  BY DEF Datagram!ReadFrom
<1>0. PICK c, s : c = queue[i].from /\ s = queue[i].serial
  OBVIOUS
<1>2. /\ pc = "read" /\ open /\ pc' = "write" /\ network' = network
      /\ open' = open /\ file' = file /\ cancelled' = cancelled
      /\ sent' = sent /\ inbox' = inbox /\ unread' = unread /\ left' = left
      /\ doubled' = doubled
  BY DEF Datagram!ReadFrom, Datagram!clients, Datagram!socket
<1>3. /\ QueueIsSound'
      /\ queue' \in Seq(Datagram!Datagrams) /\ Len(queue') <= Room
      /\ \A j \in 1 .. Len(queue') :
           \E k \in 1 .. Len(queue) : k # i /\ queue'[j] = queue[k]
      /\ \A k \in 1 .. Len(queue) :
           k # i => \E j \in 1 .. Len(queue') : queue'[j] = queue[k]
      /\ network = "unixgram" =>
           \A j \in 1 .. Len(queue') : queue'[j].from = c => queue'[j].serial # s
  BY <1>0, <1>1, <1>2, QueueWithout
<1>4. /\ c \in Clients /\ s \in Nat /\ s \in 1 .. Len(sent[c])
      /\ queue[i].length = sent[c][s]
  BY <1>0, DatagramFacts DEF DatagramInv, QueueIsSound, Sent
<1>5. sent[c] \in Seq(Lengths) /\ Datagram!Smaller(sent[c][s], Size) \in 0 .. Size
  BY <1>4, DatagramFacts, EchoFacts
<1> DEFINE m == Datagram!Smaller(sent[c][s], Size)
<1>6. /\ buf' = [j \in 1 .. Size |-> IF j <= m THEN <<c, s>> ELSE buf[j]]
      /\ n' = m /\ clientAddr' = c
  BY <1>0, <1>1, <1>4 DEF Datagram!Filled
<1>7. Datagram!TypeOK'
  <2>1. buf \in [1 .. Size -> Datagram!Bytes]
    BY DEF DatagramInv, Datagram!TypeOK
  <2>2. <<c, s>> \in Datagram!Bytes
    BY <1>4, DatagramFacts DEF Datagram!Bytes, Datagram!Serials
  <2> HIDE DEF m
  <2>3. buf' \in [1 .. Size -> Datagram!Bytes]
    BY <1>6, <2>1, <2>2
  <2>4. n' \in 0 .. Size /\ clientAddr' \in Clients
    BY <1>4, <1>5, <1>6 DEF m
  <2> QED
    BY <1>2, <1>3, <2>3, <2>4 DEF DatagramInv, Datagram!TypeOK
<1>8. ASSUME network = "unixgram" PROVE s = Len(inbox[c]) + 1
  <2>1. /\ i = 1 /\ s > Len(inbox[c])
        /\ \A t \in 1 .. Len(sent[c]) : t > Len(inbox[c]) =>
             \E k \in 1 .. Len(queue) : queue[k].from = c /\ queue[k].serial = t
    BY SMTT(40), <1>0, <1>1, <1>2, <1>4, <1>8 DEF DatagramInv, InTurn, Turn
  <2> DEFINE t == Len(inbox[c]) + 1
  <2>2. t \in 1 .. Len(sent[c]) /\ t > Len(inbox[c]) /\ t <= s /\ t \in Nat
    BY SMTT(40), <1>4, <2>1, DatagramFacts
  <2> HIDE DEF t
  <2>3. PICK k \in 1 .. Len(queue) : queue[k].from = c /\ queue[k].serial = t
    BY <2>1, <2>2
  <2>4. k = i \/ i < k
    BY <2>1
  <2>5. CASE i < k
    <3>1. s < t
      BY <1>0, <1>8, <2>1, <2>3, <2>5 DEF DatagramInv, QueueIsSound, InOrder
    <3> QED
      BY <1>4, <2>2, <3>1
  <2>6. CASE k = i
    BY <1>0, <2>3, <2>6 DEF t
  <2> QED
    BY <2>4, <2>5, <2>6
<1>9. ReplyIsReady'
  <2>2. \A j \in 1 .. m : buf'[j] = <<c, s>>
    <3> HIDE DEF m
    <3>1. m \in 0 .. Size
      BY <1>5 DEF m
    <3> QED
      BY <1>6, <3>1 DEF Datagram!Parameters
  <2> HIDE DEF m
  <2>3. /\ s \in 1 .. Len(sent'[clientAddr'])
        /\ n' = Datagram!Smaller(sent'[clientAddr'][s], Size)
    BY <1>2, <1>4, <1>6 DEF m
  <2>4. network' = "unixgram" => s = Len(inbox'[clientAddr']) + 1
    BY <1>2, <1>6, <1>8
  <2>5. \A j \in 1 .. n' : buf'[j] = <<clientAddr', s>>
    BY <1>6, <2>2
  <2>6. Holds(s)'
    BY <1>6, <2>3, <2>5 DEF Holds
  <2> QED
    BY <1>4, <2>4, <2>6 DEF ReplyIsReady
<1>10. InTurn'
  <2> SUFFICES ASSUME network = "unixgram"
               PROVE  /\ \A e \in Clients : Len(inbox[e]) <= Len(sent[e])
                      /\ \A j \in 1 .. Len(queue') :
                           queue'[j].serial > Turn(queue[j].from)'
                      /\ \A e \in Clients : \A t \in 1 .. Len(sent[e]) :
                           t > Turn(e)' =>
                             \E j \in 1 .. Len(queue') :
                                 queue'[j].from = e /\ queue'[j].serial = t
    BY <1>2 DEF InTurn
  <2>1. /\ \A e \in Clients : Len(inbox[e]) <= Len(sent[e])
        /\ \A j \in 1 .. Len(queue) : queue[j].serial > Len(inbox[queue[j].from])
        /\ \A e \in Clients : \A t \in 1 .. Len(sent[e]) : t > Len(inbox[e]) =>
             \E k \in 1 .. Len(queue) : queue[k].from = e /\ queue[k].serial = t
    BY <1>2 DEF DatagramInv, InTurn, Turn
  <2>2. \A e : Turn(e)' = IF e = c THEN Len(inbox[e]) + 1 ELSE Len(inbox[e])
    BY <1>2, <1>6 DEF Turn
  <2>3. ASSUME NEW j \in 1 .. Len(queue')
        PROVE  queue'[j].serial > Turn(queue[j].from)'
    <3>1. PICK k \in 1 .. Len(queue) : k # i /\ queue'[j] = queue[k]
      BY <1>3
    <3>2. queue[k].serial > Len(inbox[queue[k].from])
      BY <2>1
    <3>3. queue[k].from = c => queue[k].serial # s
      BY <1>3, <3>1
    <3>4. /\ queue[k].serial \in Nat /\ queue[k].from \in Clients
          /\ Len(inbox[queue[k].from]) \in Nat
      BY DatagramFacts
    <3>5. Turn(queue[j].from)' =
             IF queue[k].from = c THEN Len(inbox[queue[k].from]) + 1
             ELSE Len(inbox[queue[k].from])
      BY <1>2, <1>6, <3>1 DEF Turn
    <3> QED
      BY <1>8, <3>1, <3>2, <3>3, <3>4, <3>5
  <2>4. ASSUME NEW e \in Clients, NEW t \in 1 .. Len(sent[e]), t > Turn(e)'
        PROVE  \E j \in 1 .. Len(queue') :
                  queue'[j].from = e /\ queue'[j].serial = t
    <3>1. t > Len(inbox[e]) /\ (e = c => t # s)
      BY <1>8, <2>2, <2>4, DatagramFacts
    <3>2. PICK k \in 1 .. Len(queue) : queue[k].from = e /\ queue[k].serial = t
      BY <2>1, <3>1
    <3>3. k # i
      BY <1>0, <3>1, <3>2
    <3> QED
      BY <1>3, <3>2, <3>3
  <2> QED
    BY <2>1, <2>3, <2>4
<1>11. NotBegun' /\ RepliesMatch'
  BY SMTT(40), <1>2 DEF DatagramInv, NotBegun, RepliesMatch, Datagram!Echo
<1> QED
  BY <1>3, <1>7, <1>9, <1>10, <1>11 DEF DatagramInv

\* WriteTo: the reply is the echo of the datagram the buffer holds.
LEMMA WriteToStep ==
    Datagram!Parameters /\ DatagramInv /\ Datagram!WriteTo => DatagramInv'
<1> SUFFICES ASSUME Datagram!Parameters, DatagramInv, Datagram!WriteTo
             PROVE  DatagramInv'
  OBVIOUS
<1>1. PICK c, r : c = clientAddr /\ r = Datagram!Reply
  OBVIOUS
<1>2. /\ pc = "write" /\ pc' = "read" /\ network' = network /\ open' = open
      /\ file' = file /\ cancelled' = cancelled /\ queue' = queue
      /\ buf' = buf /\ n' = n /\ clientAddr' = clientAddr
      /\ sent' = sent /\ left' = left
  BY DEF Datagram!WriteTo, Datagram!socket
<1>3. \/ network = "udp" /\ UNCHANGED <<inbox, unread, doubled>>
      \/ /\ network \in {"udp", "unixgram"} /\ doubled' = doubled
         /\ inbox' = [inbox EXCEPT ![c] = Append(@, r)]
         /\ unread' = unread \/ (/\ unread[c] < Room
                                 /\ unread' = [unread EXCEPT ![c] = @ + 1])
      \/ /\ network = "udp" /\ unread' = unread
         /\ doubled < MaxDoubled /\ doubled' = doubled + 1
         /\ inbox' = [inbox EXCEPT ![c] = Append(Append(@, r), r)]
  BY <1>1 DEF Datagram!WriteTo, Datagram!Deliver, Datagram!DeliverUDP,
              Datagram!DeliverUnix, Datagram!Arrived, Datagram!ArrivedTwice
<1>4. PICK s \in Nat :
          Holds(s) /\ (network = "unixgram" => s = Len(inbox[c]) + 1)
  BY <1>1, <1>2 DEF DatagramInv, ReplyIsReady
<1>5. c \in Clients /\ s \in 1 .. Len(sent[c])
  BY <1>1, <1>4, DatagramFacts DEF Holds
<1>6. r = Datagram!Echo(c, s) /\ r \in Seq(Datagram!Bytes)
  <2>1. /\ n \in 0 .. Size /\ buf \in [1 .. Size -> Datagram!Bytes]
        /\ \A j \in 1 .. n : buf[j] = <<c, s>>
        /\ n = Datagram!Smaller(sent[c][s], Size) /\ Size \in Nat
    BY <1>1, <1>4, DatagramFacts DEF DatagramInv, Datagram!TypeOK, Holds
  <2>2. buf \in Seq(Datagram!Bytes) /\ Len(buf) = Size
    BY <2>1
  <2>3. r = [j \in 1 .. n |-> buf[j]] /\ r \in Seq(Datagram!Bytes)
    BY <1>1, <2>1, <2>2 DEF Datagram!Reply
  <2>4. r = [j \in 1 .. n |-> <<c, s>>]
    BY <2>1, <2>3
  <2> QED
    BY <2>1, <2>3, <2>4 DEF Datagram!Echo
<1>7. \A e, i : Datagram!Echo(e, i)' = Datagram!Echo(e, i)
  BY <1>2 DEF Datagram!Echo
<1>8. CASE network = "udp" /\ UNCHANGED <<inbox, unread, doubled>>
  <2>1. Datagram!TypeOK'
    BY <1>2, <1>8 DEF DatagramInv, Datagram!TypeOK
  <2>2. NotBegun' /\ QueueIsSound' /\ ReplyIsReady' /\ InTurn'
    BY <1>2, <1>8 DEF DatagramInv, NotBegun, QueueIsSound, InOrder, Sent,
                      ReplyIsReady, InTurn
  <2>3. RepliesMatch'
    BY <1>2, <1>7, <1>8 DEF DatagramInv, RepliesMatch
  <2> QED
    BY <2>1, <2>2, <2>3 DEF DatagramInv
<1>9. CASE /\ network \in {"udp", "unixgram"} /\ doubled' = doubled
           /\ inbox' = [inbox EXCEPT ![c] = Append(@, r)]
           /\ unread' = unread \/ (/\ unread[c] < Room
                                   /\ unread' = [unread EXCEPT ![c] = @ + 1])
  <2>1. /\ inbox' \in [Clients -> Seq(Seq(Datagram!Bytes))]
        /\ Len(inbox'[c]) = Len(inbox[c]) + 1
        /\ \A k \in 1 .. Len(inbox[c]) : inbox'[c][k] = inbox[c][k]
        /\ inbox'[c][Len(inbox[c]) + 1] = r
        /\ \A e \in Clients : e # c => inbox'[e] = inbox[e]
    <3>1. /\ inbox \in [Clients -> Seq(Seq(Datagram!Bytes))]
          /\ inbox[c] \in Seq(Seq(Datagram!Bytes))
      BY <1>5 DEF DatagramInv, Datagram!TypeOK
    <3>2. /\ Append(inbox[c], r) \in Seq(Seq(Datagram!Bytes))
          /\ Len(Append(inbox[c], r)) = Len(inbox[c]) + 1
          /\ \A k \in 1 .. Len(inbox[c]) : Append(inbox[c], r)[k] = inbox[c][k]
          /\ Append(inbox[c], r)[Len(inbox[c]) + 1] = r
      BY <1>6, <3>1, AppendProperties
    <3> QED
      BY <1>5, <1>9, <3>1, <3>2
  <2>2. \A e \in Clients : \A k \in 1 .. Len(inbox'[e]) :
           \/ k \in 1 .. Len(inbox[e]) /\ inbox'[e][k] = inbox[e][k]
           \/ e = c /\ k = Len(inbox[c]) + 1 /\ inbox'[e][k] = r
    <3> SUFFICES ASSUME NEW e \in Clients, NEW k \in 1 .. Len(inbox'[e])
                 PROVE  \/ k \in 1 .. Len(inbox[e]) /\ inbox'[e][k] = inbox[e][k]
                        \/ e = c /\ k = Len(inbox[c]) + 1 /\ inbox'[e][k] = r
      OBVIOUS
    <3>1. Len(inbox[c]) \in Nat
      BY <1>5, DatagramFacts
    <3>2. CASE e = c
      BY <2>1, <3>1, <3>2
    <3>3. CASE e # c
      BY <2>1, <3>3
    <3> QED
      BY <3>2, <3>3
  <2>3. Datagram!TypeOK'
    <3>1. unread' \in [Clients -> 0 .. Room]
      <4>1. unread \in [Clients -> 0 .. Room] /\ Room \in Nat
        BY DatagramFacts DEF DatagramInv, Datagram!TypeOK
      <4> QED
        BY <1>9, <4>1
    <3>2. doubled' \in 0 .. MaxDoubled
      BY <1>9 DEF DatagramInv, Datagram!TypeOK
    <3> QED
      BY <1>2, <2>1, <3>1, <3>2 DEF DatagramInv, Datagram!TypeOK
  <2>5. QueueIsSound'
    BY <1>2 DEF DatagramInv, QueueIsSound, InOrder, Sent
  <2>6. NotBegun' /\ ReplyIsReady'
    BY <1>2 DEF NotBegun, ReplyIsReady
  <2>7. InTurn'
    <3> SUFFICES ASSUME network = "unixgram"
                 PROVE  /\ \A e \in Clients : Len(inbox'[e]) <= Len(sent[e])
                        /\ open =>
                           /\ \A i \in 1 .. Len(queue) :
                                queue[i].serial > Len(inbox'[queue[i].from])
                           /\ \A e \in Clients : \A t \in 1 .. Len(sent[e]) :
                                t > Len(inbox'[e]) =>
                                  \E i \in 1 .. Len(queue) :
                                    queue[i].from = e /\ queue[i].serial = t
      BY <1>2 DEF InTurn, Turn
    <3>1. \A e \in Clients : Len(inbox'[e]) = Turn(e)
      BY <1>1, <1>2, <2>1 DEF Turn
    <3>2. \A e \in Clients : Turn(e) <= Len(sent[e])
      BY <1>1, <1>2, <1>4, <1>5, DatagramFacts DEF DatagramInv, InTurn, Turn
    <3>3. \A i \in 1 .. Len(queue) : queue[i].from \in Clients
      BY DatagramFacts
    <3> QED
      BY <1>2, <3>1, <3>2, <3>3 DEF DatagramInv, InTurn
  <2>8. RepliesMatch'
    <3>1. \A e \in Clients : /\ DOMAIN inbox[e] = 1 .. Len(inbox[e])
                             /\ DOMAIN inbox'[e] = 1 .. Len(inbox'[e])
                             /\ DOMAIN sent[e] = 1 .. Len(sent[e])
      BY <2>1, DatagramFacts
    <3>2. \A e \in Clients : \A k \in 1 .. Len(inbox'[e]) :
             \E i \in DOMAIN sent[e] : inbox'[e][k] = Datagram!Echo(e, i)
      <4> SUFFICES ASSUME NEW e \in Clients, NEW k \in 1 .. Len(inbox'[e])
                   PROVE  \E i \in DOMAIN sent[e] : inbox'[e][k] = Datagram!Echo(e, i)
        OBVIOUS
      <4>1. CASE k \in 1 .. Len(inbox[e]) /\ inbox'[e][k] = inbox[e][k]
        BY <3>1, <4>1 DEF DatagramInv, RepliesMatch
      <4>2. CASE e = c /\ inbox'[e][k] = r
        BY <1>5, <1>6, <3>1, <4>2
      <4> QED
        BY <2>2, <4>1, <4>2
    <3>3. ASSUME network = "unixgram", NEW e \in Clients,
                 NEW k \in 1 .. Len(inbox'[e])
          PROVE  inbox'[e][k] = Datagram!Echo(e, k)
      BY <1>4, <1>6, <2>2, <3>1, <3>3 DEF DatagramInv, RepliesMatch
    <3> QED
      BY <1>2, <1>7, <3>1, <3>2, <3>3 DEF RepliesMatch
  <2> QED
    BY <2>3, <2>5, <2>6, <2>7, <2>8 DEF DatagramInv
<1>10. CASE /\ network = "udp" /\ unread' = unread
            /\ doubled < MaxDoubled /\ doubled' = doubled + 1
            /\ inbox' = [inbox EXCEPT ![c] = Append(Append(@, r), r)]
  <2>1. /\ inbox' \in [Clients -> Seq(Seq(Datagram!Bytes))]
        /\ \A e \in Clients : \A k \in 1 .. Len(inbox'[e]) :
              \/ k \in 1 .. Len(inbox[e]) /\ inbox'[e][k] = inbox[e][k]
              \/ e = c /\ inbox'[e][k] = r
    <3>1. /\ inbox \in [Clients -> Seq(Seq(Datagram!Bytes))]
          /\ inbox[c] \in Seq(Seq(Datagram!Bytes))
      BY <1>5 DEF DatagramInv, Datagram!TypeOK
    <3>2. PICK twice : twice = Append(Append(inbox[c], r), r)
      OBVIOUS
    <3>3. /\ twice \in Seq(Seq(Datagram!Bytes))
          /\ \A k \in 1 .. Len(twice) :
                \/ k \in 1 .. Len(inbox[c]) /\ twice[k] = inbox[c][k]
                \/ twice[k] = r
      <4> DEFINE once == Append(inbox[c], r)
      <4>1. /\ once \in Seq(Seq(Datagram!Bytes)) /\ Len(once) = Len(inbox[c]) + 1
            /\ \A k \in 1 .. Len(inbox[c]) : once[k] = inbox[c][k]
            /\ once[Len(inbox[c]) + 1] = r
        BY <1>6, <3>1, AppendProperties
      <4> HIDE DEF once
      <4>2. /\ Append(once, r) \in Seq(Seq(Datagram!Bytes))
            /\ Len(Append(once, r)) = Len(once) + 1
            /\ \A k \in 1 .. Len(once) : Append(once, r)[k] = once[k]
            /\ Append(once, r)[Len(once) + 1] = r
        BY <1>6, <4>1, AppendProperties
      <4>3. twice = Append(once, r)
        BY <3>2 DEF once
      <4>4. Len(inbox[c]) \in Nat
        BY <3>1
      <4> QED
        BY <4>1, <4>2, <4>3, <4>4
    <3>4. inbox' = [inbox EXCEPT ![c] = twice]
      BY <1>10, <3>2
    <3>5. inbox'[c] = twice /\ \A e \in Clients : e # c => inbox'[e] = inbox[e]
      BY <1>5, <3>1, <3>4
    <3> QED
      BY <3>1, <3>3, <3>4, <3>5
  <2>2. Datagram!TypeOK'
    <3>1. doubled' \in 0 .. MaxDoubled
      BY <1>10 DEF DatagramInv, Datagram!TypeOK, Datagram!Parameters
    <3> QED
      BY <1>2, <1>10, <2>1, <3>1 DEF DatagramInv, Datagram!TypeOK
  <2>3. NotBegun' /\ QueueIsSound' /\ ReplyIsReady' /\ InTurn'
    BY <1>2, <1>10 DEF DatagramInv, NotBegun, QueueIsSound, InOrder, Sent,
                       ReplyIsReady, InTurn
  <2>4. RepliesMatch'
    <3>1. \A e \in Clients : /\ DOMAIN inbox[e] = 1 .. Len(inbox[e])
                             /\ DOMAIN inbox'[e] = 1 .. Len(inbox'[e])
                             /\ DOMAIN sent[e] = 1 .. Len(sent[e])
      BY <2>1, DatagramFacts
    <3>2. \A e \in Clients : \A k \in 1 .. Len(inbox'[e]) :
             \E i \in DOMAIN sent[e] : inbox'[e][k] = Datagram!Echo(e, i)
      <4> SUFFICES ASSUME NEW e \in Clients, NEW k \in 1 .. Len(inbox'[e])
                   PROVE  \E i \in DOMAIN sent[e] : inbox'[e][k] = Datagram!Echo(e, i)
        OBVIOUS
      <4>1. CASE k \in 1 .. Len(inbox[e]) /\ inbox'[e][k] = inbox[e][k]
        BY <3>1, <4>1 DEF DatagramInv, RepliesMatch
      <4>2. CASE e = c /\ inbox'[e][k] = r
        BY <1>5, <1>6, <3>1, <4>2
      <4> QED
        BY <2>1, <4>1, <4>2
    <3> QED
      BY <1>2, <1>7, <1>10, <3>1, <3>2 DEF RepliesMatch
  <2> QED
    BY <2>2, <2>3, <2>4 DEF DatagramInv
<1> QED
  BY <1>3, <1>8, <1>9, <1>10

\* A datagram joins the queue once more.
LEMMA DoubleStep ==
    Datagram!Parameters /\ DatagramInv /\ Datagram!Double => DatagramInv'
<1> SUFFICES ASSUME Datagram!Parameters, DatagramInv, Datagram!Double
             PROVE  DatagramInv'
  OBVIOUS
<1>1. PICK i \in 1 .. Len(queue) : queue' = Append(queue, queue[i])
  BY DEF Datagram!Double
<1>2. /\ network = "udp" /\ Len(queue) < Room /\ doubled < MaxDoubled
      /\ doubled' = doubled + 1 /\ network' = network /\ open' = open
      /\ file' = file /\ cancelled' = cancelled /\ pc' = pc /\ buf' = buf
      /\ n' = n /\ clientAddr' = clientAddr /\ sent' = sent /\ inbox' = inbox
      /\ unread' = unread /\ left' = left
  BY DEF Datagram!Double, Datagram!socket, Datagram!server
<1>3. /\ queue' \in Seq(Datagram!Datagrams) /\ Len(queue') = Len(queue) + 1
      /\ \A j \in 1 .. Len(queue') : \E k \in 1 .. Len(queue) : queue'[j] = queue[k]
  <2>1. queue \in Seq(Datagram!Datagrams) /\ queue[i] \in Datagram!Datagrams
    BY DatagramFacts
  <2>2. /\ queue' \in Seq(Datagram!Datagrams) /\ Len(queue') = Len(queue) + 1
        /\ \A j \in 1 .. Len(queue) : queue'[j] = queue[j]
        /\ queue'[Len(queue) + 1] = queue[i]
    BY <1>1, <2>1, AppendProperties
  <2>3. ASSUME NEW j \in 1 .. Len(queue')
        PROVE  \E k \in 1 .. Len(queue) : queue'[j] = queue[k]
    <3>1. CASE j \in 1 .. Len(queue)
      BY <2>2, <3>1
    <3>2. CASE j = Len(queue) + 1
      BY <2>2, <3>2
    <3>3. Len(queue) \in Nat
      BY DatagramFacts
    <3>4. j \in 1 .. Len(queue) \/ j = Len(queue) + 1
      BY <2>2, <3>3
    <3> QED
      BY <3>1, <3>2, <3>4
  <2> QED
    BY <2>2, <2>3
<1>4. open /\ pc # "listen"
  <2>1. queue # <<>>
    BY <1>1
  <2> QED
    BY <2>1 DEF DatagramInv, QueueIsSound, NotBegun
<1>5. Datagram!TypeOK'
  <2>1. Len(queue') <= Room
    BY <1>2, <1>3, DatagramFacts
  <2>2. doubled' \in 0 .. MaxDoubled
    BY <1>2 DEF DatagramInv, Datagram!TypeOK, Datagram!Parameters
  <2> QED
    BY <1>2, <1>3, <2>1, <2>2 DEF DatagramInv, Datagram!TypeOK
<1>6. NotBegun' /\ InTurn'
  BY <1>2, <1>4 DEF NotBegun, InTurn
<1>7. QueueIsSound'
  BY <1>2, <1>3, <1>4 DEF DatagramInv, QueueIsSound, Sent
<1>8. ReplyIsReady'
  BY <1>2 DEF DatagramInv, ReplyIsReady, Holds
<1>9. RepliesMatch'
  BY <1>2 DEF DatagramInv, RepliesMatch, Datagram!Echo
<1> QED
  BY <1>5, <1>6, <1>7, <1>8, <1>9 DEF DatagramInv

LEMMA DatagramStep ==
    Datagram!Parameters /\ DatagramInv /\ [Datagram!Next]_(Datagram!vars)
      => DatagramInv'
<1> SUFFICES ASSUME Datagram!Parameters, DatagramInv,
                    [Datagram!Next]_(Datagram!vars)
             PROVE  DatagramInv'
  OBVIOUS
<1> USE DEF Datagram!server, Datagram!socket, Datagram!clients
<1>1. Datagram!TypeOK
  BY DEF DatagramInv
<1>2. CASE Datagram!ReadFail \/ Datagram!WriteFail
  <2>1. Datagram!TypeOK'
    BY <1>1, <1>2 DEF Datagram!TypeOK, Datagram!ReadFail, Datagram!WriteFail
  <2> QED
    BY <1>2, <2>1, DatagramQuiet DEF Datagram!ReadFail, Datagram!WriteFail
<1>3. CASE Datagram!CloseSocket
  <2>1. Datagram!TypeOK'
    <3>1. queue' \in Seq(Datagram!Datagrams) /\ Len(queue') <= Room
      BY <1>3 DEF Datagram!CloseSocket, Datagram!Parameters
    <3> QED
      BY <1>1, <1>3, <3>1 DEF Datagram!TypeOK, Datagram!CloseSocket
  <2> QED
    BY <1>3, <2>1, DatagramQuiet DEF Datagram!CloseSocket
<1>4. CASE Datagram!RemoveFile \/ Datagram!Cancel
  <2>1. Datagram!TypeOK'
    BY <1>1, <1>4 DEF Datagram!TypeOK, Datagram!RemoveFile, Datagram!Cancel
  <2> QED
    BY <1>4, <2>1, DatagramQuiet DEF Datagram!RemoveFile, Datagram!Cancel
<1>5. ASSUME NEW c \in Clients, Datagram!Receive(c) \/ Datagram!Leave(c)
      PROVE  DatagramInv'
  <2>1. CASE Datagram!Receive(c)
    <3>1. unread' \in [Clients -> 0 .. Room]
      BY <1>1, <2>1 DEF Datagram!TypeOK, Datagram!Receive, Datagram!Parameters
    <3>2. Datagram!TypeOK'
      BY <1>1, <2>1, <3>1 DEF Datagram!TypeOK, Datagram!Receive
    <3> QED
      BY <2>1, <3>2, DatagramQuiet DEF Datagram!Receive
  <2>2. CASE Datagram!Leave(c)
    <3>1. Datagram!TypeOK'
      BY <1>1, <2>2 DEF Datagram!TypeOK, Datagram!Leave
    <3> QED
      BY <2>2, <3>1, DatagramQuiet DEF Datagram!Leave
  <2> QED
    BY <1>5, <2>1, <2>2
<1>6. CASE UNCHANGED Datagram!vars
  <2>1. Datagram!TypeOK'
    BY <1>1, <1>6 DEF Datagram!TypeOK, Datagram!vars
  <2> QED
    BY <1>6, <2>1, DatagramQuiet DEF Datagram!vars
<1> QED
  BY <1>2, <1>3, <1>4, <1>5, <1>6, ListenStep, ReadFromStep, WriteToStep, LoseStep,
     DoubleStep, SendStep
     DEF Datagram!Next, Datagram!Loop

-----------------------------------------------------------------------------
(* The account of each datagram: the copies of it in the queue, the answer  *)
(* the server is about to write and the answers that have arrived are as    *)
(* many as the network has made, and the one that was sent.                 *)

Copies(c, s) ==
    {i \in 1 .. Len(queue) : queue[i].from = c /\ queue[i].serial = s}
InHand(c, s) ==
    IF pc = "write" /\ clientAddr = c /\ n # 0 /\ buf[1] = <<c, s>> THEN 1 ELSE 0
Answers(c, s) ==
    {k \in 1 .. Len(inbox[c]) : inbox[c][k] # <<>> /\ inbox[c][k][1] = <<c, s>>}
Tally(c, s) == Cardinality(Copies(c, s)) + InHand(c, s) + Cardinality(Answers(c, s))
Account ==
    \A c \in Clients : \A s \in 1 .. Len(sent[c]) : Tally(c, s) <= 1 + doubled

LEMMA DatagramCardinality == \A S : Datagram!Cardinality(S) = Cardinality(S)
  BY DEF Datagram!Cardinality, Cardinality

\* What a finite set counts, with one member less and with one more.
LEMMA Counts ==
    ASSUME NEW S, IsFiniteSet(S)
    PROVE  /\ Cardinality(S) \in Nat
           /\ \A T : T \subseteq S =>
                /\ Cardinality(T) \in Nat /\ Cardinality(T) <= Cardinality(S)
           /\ \A x : \A T : T \subseteq S \cup {x} =>
                /\ Cardinality(T) \in Nat /\ Cardinality(T) <= Cardinality(S) + 1
           /\ \A x \in S : Cardinality(S \ {x}) = Cardinality(S) - 1
<1>1. Cardinality(S) \in Nat
  BY FS_CardinalityType
<1>2. \A T : T \subseteq S =>
         Cardinality(T) \in Nat /\ Cardinality(T) <= Cardinality(S)
  BY FS_Subset, FS_CardinalityType
<1>3. ASSUME NEW x, NEW T, T \subseteq S \cup {x}
      PROVE  Cardinality(T) \in Nat /\ Cardinality(T) <= Cardinality(S) + 1
  <2>1. IsFiniteSet(S \cup {x}) /\ Cardinality(S \cup {x}) <= Cardinality(S) + 1
    BY <1>1, FS_AddElement
  <2>2. IsFiniteSet(T) /\ Cardinality(T) <= Cardinality(S \cup {x})
    BY <1>3, <2>1, FS_Subset
  <2>3. Cardinality(T) \in Nat /\ Cardinality(S \cup {x}) \in Nat
    BY <2>1, <2>2, FS_CardinalityType
  <2> QED
    BY <1>1, <2>1, <2>2, <2>3
<1>4. \A x \in S : Cardinality(S \ {x}) = Cardinality(S) - 1
  BY FS_RemoveElement
<1> QED
  BY <1>1, <1>2, <1>3, <1>4

LEMMA CopiesRemoved ==
    ASSUME Datagram!Parameters, DatagramInv, NEW i \in 1 .. Len(queue),
           queue' = Datagram!RemoveAt(queue, i), NEW c, NEW s
    PROVE  /\ Cardinality(Copies(c, s)') <= Cardinality(Copies(c, s) \ {i})
           /\ Cardinality(Copies(c, s)') \in Nat
           /\ Cardinality(Copies(c, s) \ {i}) \in Nat
<1> DEFINE A == Copies(c, s) \ {i}
           B == Copies(c, s)'
           f == [j \in B |-> IF j < i THEN j ELSE j + 1]
<1>1. /\ Len(queue') = Len(queue) - 1 /\ Len(queue) \in Nat
      /\ \A j \in 1 .. Len(queue') :
            queue'[j] = IF j < i THEN queue[j] ELSE queue[j + 1]
  <2>1. queue \in Seq(Datagram!Datagrams)
    BY DatagramFacts
  <2> QED
    BY <2>1, Removed
<1>2. IsFiniteSet(A) /\ IsFiniteSet(B)
  <2>1. IsFiniteSet(1 .. Len(queue)) /\ IsFiniteSet(1 .. Len(queue'))
    <3>1. 1 \in Int /\ Len(queue) \in Int /\ Len(queue') \in Int
      BY <1>1
    <3> QED
      BY <3>1, FS_Interval
  <2>2. A \in SUBSET (1 .. Len(queue)) /\ B \in SUBSET (1 .. Len(queue'))
    BY DEF Copies
  <2> QED
    BY <2>1, <2>2, FS_Subset
<1>3. ASSUME NEW j \in B PROVE f[j] \in A
  <2>1. j \in 1 .. Len(queue') /\ queue'[j].from = c /\ queue'[j].serial = s
    BY DEF Copies
  <2>2. CASE j < i
    BY <1>1, <2>1, <2>2 DEF Copies
  <2>3. CASE ~(j < i)
    <3>1. j + 1 \in 1 .. Len(queue) /\ j + 1 # i /\ queue'[j] = queue[j + 1]
      BY <1>1, <2>1, <2>3
    <3> QED
      BY <2>1, <2>3, <3>1 DEF Copies
  <2> QED
    BY <2>2, <2>3
<1>4. \A j, k \in B : f[j] = f[k] => j = k
  <2>1. \A j \in B : j \in Nat
    BY <1>1 DEF Copies
  <2> HIDE DEF B
  <2> QED
    BY <2>1
<1>5. f \in Injection(B, A)
  <2>1. f \in [B -> A]
    BY <1>3
  <2> QED
    BY <1>4, <2>1 DEF Injection, IsInjective
<1> QED
  BY <1>2, <1>5, FS_Injection, FS_CardinalityType

LEMMA CopiesAppended ==
    ASSUME Datagram!Parameters, DatagramInv, NEW d \in Datagram!Datagrams,
           queue' = Append(queue, d), NEW c, NEW s
    PROVE  /\ Copies(c, s)' \subseteq Copies(c, s) \cup {Len(queue) + 1}
           /\ ~(d.from = c /\ d.serial = s) => Copies(c, s)' \subseteq Copies(c, s)
<1>1. /\ Len(queue') = Len(queue) + 1 /\ Len(queue) \in Nat
      /\ \A j \in 1 .. Len(queue) : queue'[j] = queue[j]
      /\ queue'[Len(queue) + 1] = d
  BY DatagramFacts, AppendProperties
<1>2. ASSUME NEW j \in Copies(c, s)'
      PROVE  \/ j \in Copies(c, s)
             \/ j = Len(queue) + 1 /\ d.from = c /\ d.serial = s
  <2>1. j \in 1 .. Len(queue') /\ queue'[j].from = c /\ queue'[j].serial = s
    BY <1>2 DEF Copies
  <2>2. CASE j \in 1 .. Len(queue)
    BY <1>1, <2>1, <2>2 DEF Copies
  <2>3. CASE j = Len(queue) + 1
    BY <1>1, <2>1, <2>3
  <2> QED
    BY <1>1, <2>1, <2>2, <2>3
<1> QED
  BY <1>2

\* The counts of a tally are numbers.
LEMMA TallyFacts ==
    ASSUME Datagram!Parameters, DatagramInv, NEW c \in Clients, NEW s
    PROVE  /\ Copies(c, s) \subseteq 1 .. Len(queue) /\ Len(queue) \in Nat
           /\ Answers(c, s) \subseteq 1 .. Len(inbox[c]) /\ Len(inbox[c]) \in Nat
           /\ IsFiniteSet(Copies(c, s)) /\ IsFiniteSet(Answers(c, s))
           /\ Cardinality(Copies(c, s)) \in Nat /\ Cardinality(Answers(c, s)) \in Nat
           /\ InHand(c, s) \in {0, 1}
           /\ doubled \in Nat
<1>1. Len(queue) \in Nat /\ Len(inbox[c]) \in Nat
  BY DatagramFacts
<1>2. Copies(c, s) \subseteq 1 .. Len(queue) /\ Answers(c, s) \subseteq 1 .. Len(inbox[c])
  BY DEF Copies, Answers
<1>3. InHand(c, s) \in {0, 1}
  BY DEF InHand
<1>4. doubled \in Nat
  BY DEF DatagramInv, Datagram!TypeOK, Datagram!Parameters
<1>5. IsFiniteSet(Copies(c, s)) /\ IsFiniteSet(Answers(c, s))
  <2>1. IsFiniteSet(1 .. Len(queue)) /\ IsFiniteSet(1 .. Len(inbox[c]))
    BY <1>1, FS_Interval
  <2> QED
    BY <1>2, <2>1, FS_Subset
<1> QED
  BY <1>1, <1>2, <1>3, <1>4, <1>5, Counts

\* A step that adds no copy, holds nothing new and adds no answer.
LEMMA TallyQuiet ==
    ASSUME Datagram!Parameters, DatagramInv, Account,
           UNCHANGED <<sent, inbox, doubled>>,
           queue' = queue \/ queue' = <<>>,
           \A c \in Clients : \A s : InHand(c, s)' <= InHand(c, s) /\ InHand(c, s)' \in {0, 1}
    PROVE  Account'
<1> SUFFICES ASSUME NEW c \in Clients, NEW s \in 1 .. Len(sent[c])
             PROVE  Tally(c, s)' <= 1 + doubled
  BY DEF Account
<1>1. Tally(c, s) <= 1 + doubled
  BY DEF Account
<1>2. Answers(c, s)' = Answers(c, s)
  BY DEF Answers
<1>3. Copies(c, s)' = Copies(c, s) \/ Copies(c, s)' = {}
  BY DEF Copies
<1>4. /\ Cardinality(Copies(c, s)') \in Nat
      /\ Cardinality(Copies(c, s)') <= Cardinality(Copies(c, s))
  <2>1. Cardinality(Copies(c, s)) \in Nat
    BY TallyFacts
  <2>2. Cardinality({}) = 0
    BY FS_EmptySet
  <2>3. CASE Copies(c, s)' = Copies(c, s)
    BY <2>1, <2>3
  <2>4. CASE Copies(c, s)' = {}
    BY <2>1, <2>2, <2>4
  <2> QED
    BY <1>3, <2>3, <2>4
<1>5. InHand(c, s)' <= InHand(c, s) /\ InHand(c, s)' \in {0, 1}
  OBVIOUS
<1>6. Tally(c, s)' = Cardinality(Copies(c, s)') + InHand(c, s)' + Cardinality(Answers(c, s))
  BY <1>2 DEF Tally
<1> QED
  BY <1>1, <1>4, <1>5, <1>6, TallyFacts DEF Tally

LEMMA TallyLose ==
    ASSUME Datagram!Parameters, DatagramInv, Account, Datagram!Lose
    PROVE  Account'
<1>1. PICK i \in 1 .. Len(queue) : queue' = Datagram!RemoveAt(queue, i)
  BY DEF Datagram!Lose
<1>2. UNCHANGED <<pc, buf, n, clientAddr, sent, inbox, doubled>>
  BY DEF Datagram!Lose, Datagram!server, Datagram!clients
<1> SUFFICES ASSUME NEW c \in Clients, NEW s \in 1 .. Len(sent[c])
             PROVE  Tally(c, s)' <= 1 + doubled
  BY <1>2 DEF Account
<1>3. Tally(c, s) <= 1 + doubled
  BY DEF Account
<1>4. Cardinality(Copies(c, s)') <= Cardinality(Copies(c, s))
  <2>1. /\ Cardinality(Copies(c, s)') <= Cardinality(Copies(c, s) \ {i})
        /\ Cardinality(Copies(c, s)') \in Nat
        /\ Cardinality(Copies(c, s) \ {i}) \in Nat
    BY <1>1, CopiesRemoved
  <2>2. Cardinality(Copies(c, s) \ {i}) <= Cardinality(Copies(c, s))
    <3>1. PICK S : S = Copies(c, s)
      OBVIOUS
    <3>2. IsFiniteSet(S) /\ S \ {i} \subseteq S
      BY <3>1, TallyFacts
    <3> QED
      BY <3>1, <3>2, Counts
  <2>3. Cardinality(Copies(c, s)) \in Nat
    BY TallyFacts
  <2> QED
    BY <2>1, <2>2, <2>3
<1>5. /\ InHand(c, s)' = InHand(c, s) /\ Answers(c, s)' = Answers(c, s)
      /\ Cardinality(Copies(c, s)') \in Nat
  BY <1>1, <1>2, CopiesRemoved DEF InHand, Answers
<1>6. Tally(c, s)' = Cardinality(Copies(c, s)') + InHand(c, s) + Cardinality(Answers(c, s))
  BY <1>5 DEF Tally
<1> QED
  BY <1>3, <1>4, <1>5, <1>6, TallyFacts DEF Tally

LEMMA TallyDouble ==
    ASSUME Datagram!Parameters, DatagramInv, Account, Datagram!Double
    PROVE  Account'
<1>1. PICK i \in 1 .. Len(queue) : queue' = Append(queue, queue[i])
  BY DEF Datagram!Double
<1>2. UNCHANGED <<pc, buf, n, clientAddr, sent, inbox>> /\ doubled' = doubled + 1
  BY DEF Datagram!Double, Datagram!server
<1> SUFFICES ASSUME NEW c \in Clients, NEW s \in 1 .. Len(sent[c])
             PROVE  Tally(c, s)' <= 1 + (doubled + 1)
  BY <1>2 DEF Account
<1>3. Tally(c, s) <= 1 + doubled
  BY DEF Account
<1>4. Copies(c, s)' \subseteq Copies(c, s) \cup {Len(queue) + 1}
  BY <1>1, DatagramFacts, CopiesAppended
<1>5. /\ Cardinality(Copies(c, s)') <= Cardinality(Copies(c, s)) + 1
      /\ Cardinality(Copies(c, s)') \in Nat
  <2>1. PICK S, T : S = Copies(c, s) /\ T = Copies(c, s)'
    OBVIOUS
  <2>2. IsFiniteSet(S) /\ T \subseteq S \cup {Len(queue) + 1}
    BY <1>4, <2>1, TallyFacts
  <2> QED
    BY <2>1, <2>2, Counts
<1>6. InHand(c, s)' = InHand(c, s) /\ Answers(c, s)' = Answers(c, s)
  BY <1>2 DEF InHand, Answers
<1>7. Tally(c, s)' = Cardinality(Copies(c, s)') + InHand(c, s) + Cardinality(Answers(c, s))
  BY <1>6 DEF Tally
<1> QED
  BY <1>3, <1>5, <1>7, TallyFacts DEF Tally

\* A copy leaves the queue for the buffer.
LEMMA TallyReadFrom ==
    ASSUME Datagram!Parameters, DatagramInv, DatagramInv', Account, Datagram!ReadFrom
    PROVE  Account'
<1>1. PICK i \in 1 .. Len(queue) :
          /\ buf' = Datagram!Filled(queue[i])
          /\ n' = Datagram!Smaller(queue[i].length, Size)
          /\ clientAddr' = queue[i].from
          /\ queue' = Datagram!RemoveAt(queue, i)
  BY DEF Datagram!ReadFrom
<1>2. pc = "read" /\ UNCHANGED <<sent, inbox, doubled>>
  BY DEF Datagram!ReadFrom, Datagram!clients
<1> SUFFICES ASSUME NEW c \in Clients, NEW s \in 1 .. Len(sent[c])
             PROVE  Tally(c, s)' <= 1 + doubled
  BY <1>2 DEF Account
<1>3. Tally(c, s) <= 1 + doubled /\ InHand(c, s) = 0
  BY <1>2 DEF Account, InHand
<1>4. /\ Cardinality(Copies(c, s)') <= Cardinality(Copies(c, s) \ {i})
      /\ Cardinality(Copies(c, s)') \in Nat
      /\ Cardinality(Copies(c, s) \ {i}) \in Nat
  BY <1>1, CopiesRemoved
<1>5. Answers(c, s)' = Answers(c, s) /\ InHand(c, s)' \in {0, 1}
  BY <1>2 DEF Answers, InHand
<1>6. Tally(c, s)' = Cardinality(Copies(c, s)') + InHand(c, s)' + Cardinality(Answers(c, s))
  BY <1>5 DEF Tally
<1>7. /\ IsFiniteSet(Copies(c, s)) /\ Cardinality(Copies(c, s)) \in Nat
      /\ Cardinality(Answers(c, s)) \in Nat /\ doubled \in Nat
  BY TallyFacts
<1>8. CASE i \in Copies(c, s)
  <2>1. Cardinality(Copies(c, s) \ {i}) = Cardinality(Copies(c, s)) - 1
    BY <1>7, <1>8, Counts
  <2> QED
    BY <1>3, <1>4, <1>5, <1>6, <1>7, <2>1 DEF Tally
<1>9. CASE i \notin Copies(c, s)
  <2>1. Copies(c, s) \ {i} = Copies(c, s)
    BY <1>9
  <2>2. InHand(c, s)' = 0
    <3> SUFFICES ASSUME n' # 0, clientAddr' = c, buf'[1] = <<c, s>>
                 PROVE  FALSE
      BY DEF InHand
    <3>1. n' \in 0 .. Size
      BY DEF DatagramInv, Datagram!TypeOK
    <3>2. 1 \in 1 .. Size /\ 1 <= n'
      BY <3>1 DEF Datagram!Parameters
    <3>3. buf'[1] = <<queue[i].from, queue[i].serial>>
      BY <1>1, <3>2 DEF Datagram!Filled
    <3>4. queue[i].from = c /\ queue[i].serial = s
      BY <3>3
    <3> QED
      BY <1>9, <3>4 DEF Copies
  <2>3. Cardinality(Copies(c, s)') <= Cardinality(Copies(c, s))
    BY <1>4, <2>1
  <2> QED
    BY <1>3, <1>4, <1>6, <1>7, <2>2, <2>3 DEF Tally
<1> QED
  BY <1>8, <1>9

\* A reply with a byte in it says which datagram the buffer holds.
LEMMA ReplyFacts ==
    ASSUME Datagram!Parameters, DatagramInv
    PROVE  /\ Datagram!Reply \in Seq(Datagram!Bytes)
           /\ Datagram!Reply # <<>> => n # 0 /\ Datagram!Reply[1] = buf[1]
<1>1. buf \in Seq(Datagram!Bytes) /\ Len(buf) = Size /\ n \in 0 .. Size /\ Size \in Nat
  BY DEF DatagramInv, Datagram!TypeOK, Datagram!Parameters
<1>2. /\ Datagram!Reply = [j \in 1 .. n |-> buf[j]]
      /\ Datagram!Reply \in Seq(Datagram!Bytes) /\ Len(Datagram!Reply) = n
  BY <1>1 DEF Datagram!Reply
<1>3. n = 0 => Datagram!Reply = <<>>
  BY <1>2, EmptySeq
<1>4. n # 0 => Datagram!Reply[1] = buf[1]
  <2>1. n # 0 => 1 \in 1 .. n
    BY <1>1
  <2> QED
    BY <1>2, <2>1
<1> QED
  BY <1>2, <1>3, <1>4

\* The answer the server held arrives once, not at all, or once more at the
\* network's expense.
LEMMA TallyWriteTo ==
    ASSUME Datagram!Parameters, DatagramInv, DatagramInv', Account, Datagram!WriteTo
    PROVE  Account'
<1>1. PICK r, e : r = Datagram!Reply /\ e = clientAddr
  OBVIOUS
<1>2. /\ pc = "write" /\ pc' = "read"
      /\ UNCHANGED <<queue, buf, n, clientAddr, sent>>
  BY DEF Datagram!WriteTo
<1>3. \/ inbox' = inbox /\ doubled' = doubled
      \/ inbox' = [inbox EXCEPT ![e] = Append(@, r)] /\ doubled' = doubled
      \/ /\ inbox' = [inbox EXCEPT ![e] = Append(Append(@, r), r)]
         /\ doubled' = doubled + 1
  BY <1>1 DEF Datagram!WriteTo, Datagram!Deliver, Datagram!DeliverUDP,
              Datagram!DeliverUnix, Datagram!Arrived, Datagram!ArrivedTwice
<1>4. /\ e \in Clients /\ inbox \in [Clients -> Seq(Seq(Datagram!Bytes))]
      /\ inbox[e] \in Seq(Seq(Datagram!Bytes)) /\ r \in Seq(Datagram!Bytes)
  BY <1>1, ReplyFacts, DatagramFacts DEF DatagramInv, Datagram!TypeOK
<1> SUFFICES ASSUME NEW c \in Clients, NEW s \in 1 .. Len(sent[c])
             PROVE  Tally(c, s)' <= 1 + doubled'
  BY <1>2 DEF Account
<1> DEFINE Hit == c = e /\ r # <<>> /\ r[1] = <<c, s>>
           L == Len(inbox[e])
<1>5. Tally(c, s) <= 1 + doubled
  BY DEF Account
<1>6. InHand(c, s)' = 0 /\ Copies(c, s)' = Copies(c, s)
  BY <1>2 DEF InHand, Copies
<1>7. Tally(c, s)' = Cardinality(Copies(c, s)) + 0 + Cardinality(Answers(c, s)')
  BY <1>6 DEF Tally
<1>8. Hit => InHand(c, s) = 1
  BY <1>1, <1>2, ReplyFacts DEF InHand
<1>9. CASE inbox' = inbox /\ doubled' = doubled
  <2>1. Answers(c, s)' = Answers(c, s)
    BY <1>9 DEF Answers
  <2> QED
    BY <1>5, <1>7, <1>9, <2>1, TallyFacts DEF Tally
<1>10. ASSUME NEW m \in {1, 2}, doubled' = doubled + (m - 1),
              \A k \in Answers(c, s)' :
                 \/ k \in Answers(c, s)
                 \/ Hit /\ k = L + 1
                 \/ Hit /\ m = 2 /\ k = L + 2
       PROVE  Tally(c, s)' <= 1 + doubled'
  <2>1. PICK S, T : S = Answers(c, s) /\ T = Answers(c, s)'
    OBVIOUS
  <2>2. IsFiniteSet(S) /\ Cardinality(S) \in Nat
    BY <2>1, TallyFacts
  <2>3. CASE ~Hit
    <3>1. T \subseteq S
      BY <1>10, <2>1, <2>3
    <3>2. Cardinality(T) \in Nat /\ Cardinality(T) <= Cardinality(S)
      BY <2>2, <3>1, Counts
    <3> QED
      BY <1>5, <1>7, <1>10, <2>1, <2>2, <3>2, TallyFacts DEF Tally
  <2>4. CASE Hit
    <3>1. PICK U : U = S \cup {L + 1}
      OBVIOUS
    <3>2. IsFiniteSet(U) /\ Cardinality(U) \in Nat /\ Cardinality(U) <= Cardinality(S) + 1
      BY <2>2, <3>1, Counts, FS_AddElement
    <3>3. Cardinality(T) \in Nat /\ Cardinality(T) <= Cardinality(S) + m
      <4>1. CASE m = 1
        <5>1. T \subseteq S \cup {L + 1}
          BY <1>10, <2>1, <4>1
        <5> QED
          BY <2>2, <4>1, <5>1, Counts
      <4>2. CASE m = 2
        <5>1. T \subseteq U \cup {L + 2}
          BY <1>10, <2>1, <3>1
        <5>2. Cardinality(T) \in Nat /\ Cardinality(T) <= Cardinality(U) + 1
          BY <3>2, <5>1, Counts
        <5> QED
          BY <2>2, <3>2, <4>2, <5>2
      <4> QED
        BY <4>1, <4>2
    <3>4. InHand(c, s) = 1
      BY <1>8, <2>4
    <3> HIDE DEF Hit
    <3>5. m - 1 \in Nat
      OBVIOUS
    <3> QED
      BY <1>5, <1>7, <1>10, <2>1, <2>2, <3>3, <3>4, <3>5, TallyFacts DEF Tally
  <2> QED
    BY <2>3, <2>4
<1>11. CASE inbox' = [inbox EXCEPT ![e] = Append(@, r)] /\ doubled' = doubled
  <2>1. /\ inbox'[e] = Append(inbox[e], r)
        /\ \A d \in Clients : d # e => inbox'[d] = inbox[d]
    BY <1>4, <1>11
  <2>2. /\ L \in Nat /\ Len(Append(inbox[e], r)) = L + 1
        /\ \A k \in 1 .. L : Append(inbox[e], r)[k] = inbox[e][k]
        /\ Append(inbox[e], r)[L + 1] = r
    BY <1>4, AppendProperties
  <2>3. ASSUME NEW k \in Answers(c, s)'
        PROVE  k \in Answers(c, s) \/ (Hit /\ k = L + 1)
    <3>1. k \in 1 .. Len(inbox'[c]) /\ inbox'[c][k] # <<>> /\ inbox'[c][k][1] = <<c, s>>
      BY <2>3 DEF Answers
    <3>2. CASE c # e
      BY <2>1, <3>1, <3>2 DEF Answers
    <3>3. CASE c = e /\ k \in 1 .. L
      BY <2>1, <2>2, <3>1, <3>3 DEF Answers
    <3>4. CASE c = e /\ k = L + 1
      BY <2>1, <2>2, <3>1, <3>4
    <3> QED
      BY <2>1, <2>2, <3>1, <3>2, <3>3, <3>4
  <2>4. doubled' = doubled + (1 - 1)
    BY <1>11, TallyFacts
  <2> QED
    BY <1>10, <2>3, <2>4
<1>12. CASE /\ inbox' = [inbox EXCEPT ![e] = Append(Append(@, r), r)]
            /\ doubled' = doubled + 1
  <2>1. PICK once : once = Append(inbox[e], r)
    OBVIOUS
  <2>2. /\ L \in Nat /\ once \in Seq(Seq(Datagram!Bytes)) /\ Len(once) = L + 1
        /\ \A k \in 1 .. L : once[k] = inbox[e][k]
        /\ once[L + 1] = r
    BY <1>4, <2>1, AppendProperties
  <2>3. /\ Len(Append(once, r)) = Len(once) + 1
        /\ \A k \in 1 .. Len(once) : Append(once, r)[k] = once[k]
        /\ Append(once, r)[Len(once) + 1] = r
    BY <1>4, <2>2, AppendProperties
  <2>4. /\ inbox'[e] = Append(once, r)
        /\ \A d \in Clients : d # e => inbox'[d] = inbox[d]
    BY <1>4, <1>12, <2>1
  <2>5. /\ Len(inbox'[e]) = L + 2
        /\ \A k \in 1 .. L : inbox'[e][k] = inbox[e][k]
        /\ inbox'[e][L + 1] = r /\ inbox'[e][L + 2] = r
    <3>1. /\ \A k \in 1 .. L : k \in 1 .. L + 1
          /\ L + 1 \in 1 .. L + 1 /\ (L + 1) + 1 = L + 2
      BY <2>2
    <3> HIDE DEF L
    <3> QED
      BY <2>2, <2>3, <2>4, <3>1
  <2>6. ASSUME NEW k \in Answers(c, s)'
        PROVE  k \in Answers(c, s) \/ (Hit /\ k = L + 1) \/ (Hit /\ k = L + 2)
    <3>1. k \in 1 .. Len(inbox'[c]) /\ inbox'[c][k] # <<>> /\ inbox'[c][k][1] = <<c, s>>
      BY <2>6 DEF Answers
    <3>2. CASE c # e
      BY <2>4, <3>1, <3>2 DEF Answers
    <3>3. CASE c = e /\ k \in 1 .. L
      BY <2>5, <3>1, <3>3 DEF Answers
    <3>4. CASE c = e /\ (k = L + 1 \/ k = L + 2)
      BY <2>5, <3>1, <3>4
    <3>5. c = e => Len(inbox'[c]) = L + 2 /\ L \in Nat
      BY <2>2, <2>5
    <3>6. k \in 1 .. L \/ k = L + 1 \/ k = L + 2 \/ c # e
      BY <3>1, <3>5
    <3> QED
      BY <3>2, <3>3, <3>4, <3>6
  <2>7. doubled' = doubled + (2 - 1)
    BY <1>12, TallyFacts
  <2> QED
    BY <1>10, <2>6, <2>7
<1> QED
  BY <1>3, <1>9, <1>11, <1>12

\* A new datagram has one copy, and nothing of it is held or answered yet.
LEMMA TallySend ==
    ASSUME Datagram!Parameters, DatagramInv, DatagramInv', Account,
           NEW e \in Clients, Datagram!Send(e)
    PROVE  Account'
<1>1. PICK length \in Lengths :
          /\ sent' = [sent EXCEPT ![e] = Append(@, length)]
          /\ queue' = Append(queue,
               [from |-> e, serial |-> Len(sent[e]) + 1, length |-> length])
  BY DEF Datagram!Send
<1>2. UNCHANGED <<pc, buf, n, clientAddr, inbox, doubled>>
  BY DEF Datagram!Send, Datagram!server
<1>3. PICK d : d = [from |-> e, serial |-> Len(sent[e]) + 1, length |-> length]
  OBVIOUS
<1>4. /\ d \in Datagram!Datagrams /\ d.from = e /\ d.serial = Len(sent[e]) + 1
      /\ queue' = Append(queue, d)
  BY <1>1, <1>3, DatagramFacts DEF Datagram!Datagrams, Datagram!Serials
<1>5. /\ sent[e] \in Seq(Lengths) /\ Len(sent[e]) \in Nat
      /\ Len(sent'[e]) = Len(sent[e]) + 1
      /\ \A c \in Clients : c # e => sent'[c] = sent[c]
  <2>1. sent \in [Clients -> Seq(Lengths)] /\ sent[e] \in Seq(Lengths)
    BY DEF DatagramInv, Datagram!TypeOK
  <2>2. Len(Append(sent[e], length)) = Len(sent[e]) + 1
    BY <2>1, AppendProperties
  <2> QED
    BY <1>1, <2>1, <2>2
<1> SUFFICES ASSUME NEW c \in Clients, NEW s \in 1 .. Len(sent'[c])
             PROVE  Tally(c, s)' <= 1 + doubled
  BY <1>2 DEF Account
<1>6. InHand(c, s)' = InHand(c, s) /\ Answers(c, s)' = Answers(c, s)
  BY <1>2 DEF InHand, Answers
<1>7. Tally(c, s)' = Cardinality(Copies(c, s)') + InHand(c, s) + Cardinality(Answers(c, s))
  BY <1>6 DEF Tally
<1>8. CASE s \in 1 .. Len(sent[c])
  <2>1. ~(d.from = c /\ d.serial = s)
    BY <1>4, <1>5, <1>8
  <2>2. Copies(c, s)' \subseteq Copies(c, s)
    BY <1>4, <2>1, CopiesAppended
  <2>3. PICK S, T : S = Copies(c, s) /\ T = Copies(c, s)'
    OBVIOUS
  <2>4. Cardinality(T) \in Nat /\ Cardinality(T) <= Cardinality(S)
    BY <2>2, <2>3, TallyFacts, Counts
  <2>5. Tally(c, s) <= 1 + doubled
    BY <1>8 DEF Account
  <2> QED
    BY <1>7, <2>3, <2>4, <2>5, TallyFacts DEF Tally
<1>9. CASE s \notin 1 .. Len(sent[c])
  <2>1. c = e /\ s = Len(sent[e]) + 1
    BY <1>5, <1>9
  <2>2. Copies(c, s) = {}
    <3> SUFFICES ASSUME NEW i \in 1 .. Len(queue), queue[i].from = c,
                        queue[i].serial = s
                 PROVE  FALSE
      BY DEF Copies
    <3>1. queue[i].serial <= Len(sent[queue[i].from])
      BY DatagramFacts
    <3> QED
      BY <1>5, <2>1, <3>1
  <2>3. InHand(c, s) = 0
    <3> SUFFICES ASSUME pc = "write", clientAddr = c, n # 0, buf[1] = <<c, s>>
                 PROVE  FALSE
      BY DEF InHand
    <3>1. PICK t \in Nat : Holds(t)
      BY DEF DatagramInv, ReplyIsReady
    <3>2. n \in 0 .. Size
      BY DEF DatagramInv, Datagram!TypeOK
    <3>3. 1 \in 1 .. n
      BY <3>2 DEF Datagram!Parameters
    <3>4. buf[1] = <<c, t>> /\ t \in 1 .. Len(sent[c])
      BY <3>1, <3>3 DEF Holds
    <3> QED
      BY <1>5, <2>1, <3>4
  <2>4. Answers(c, s) = {}
    <3> SUFFICES ASSUME NEW k \in 1 .. Len(inbox[c]), inbox[c][k] # <<>>,
                        inbox[c][k][1] = <<c, s>>
                 PROVE  FALSE
      BY DEF Answers
    <3>1. PICK i \in DOMAIN sent[c] : inbox[c][k] = Datagram!Echo(c, i)
      <4>1. k \in DOMAIN inbox[c]
        BY DatagramFacts
      <4> QED
        BY <4>1 DEF DatagramInv, RepliesMatch
    <3>2. sent[c] \in Seq(Lengths) /\ i \in 1 .. Len(sent[c])
      <4>1. sent[c] \in Seq(Lengths)
        BY DatagramFacts
      <4> QED
        BY <4>1
    <3>3. inbox[c][k][1] = <<c, i>>
      BY <3>1, <3>2, EchoFacts
    <3> QED
      BY <1>5, <2>1, <3>2, <3>3
  <2>5. Cardinality({}) = 0 /\ IsFiniteSet({})
    BY FS_EmptySet
  <2>6. Copies(c, s)' \subseteq {} \cup {Len(queue) + 1}
    BY <1>4, <2>2, CopiesAppended
  <2>7. PICK T : T = Copies(c, s)'
    OBVIOUS
  <2>8. Cardinality(T) \in Nat /\ Cardinality(T) <= Cardinality({}) + 1
    BY <2>5, <2>6, <2>7, Counts
  <2> QED
    BY <1>7, <2>3, <2>4, <2>5, <2>7, <2>8, TallyFacts
<1> QED
  BY <1>8, <1>9

LEMMA AccountInit == Datagram!Init => Account
<1> SUFFICES ASSUME Datagram!Init, NEW c \in Clients
             PROVE  Len(sent[c]) = 0
  BY DEF Account
<1> QED
  BY DEF Datagram!Init

LEMMA AccountStep ==
    ASSUME Datagram!Parameters, DatagramInv, DatagramInv', Account,
           [Datagram!Next]_(Datagram!vars)
    PROVE  Account'
<1> USE DEF Datagram!server, Datagram!socket, Datagram!clients
<1>1. \A c \in Clients : \A s : InHand(c, s) \in {0, 1}
  BY DEF InHand
<1>2. ASSUME UNCHANGED <<sent, inbox, doubled, buf, n, clientAddr>>,
             queue' = queue \/ queue' = <<>>, pc' = pc \/ pc' # "write"
      PROVE  Account'
  <2>1. ASSUME NEW c \in Clients, NEW s
        PROVE  InHand(c, s)' <= InHand(c, s) /\ InHand(c, s)' \in {0, 1}
    <3>1. InHand(c, s)' = InHand(c, s) \/ InHand(c, s)' = 0
      BY <1>2 DEF InHand
    <3> QED
      BY <1>1, <3>1
  <2> QED
    BY <1>2, <2>1, TallyQuiet
<1>3. CASE \/ Datagram!ListenPacket \/ Datagram!ReadFail \/ Datagram!WriteFail
           \/ Datagram!CloseSocket \/ Datagram!RemoveFile \/ Datagram!Cancel
  BY <1>2, <1>3 DEF Datagram!ListenPacket, Datagram!ReadFail, Datagram!WriteFail,
     Datagram!CloseSocket, Datagram!RemoveFile, Datagram!Cancel
<1>4. ASSUME NEW c \in Clients, Datagram!Receive(c) \/ Datagram!Leave(c)
      PROVE  Account'
  BY <1>2, <1>4 DEF Datagram!Receive, Datagram!Leave
<1>5. CASE UNCHANGED Datagram!vars
  BY <1>2, <1>5 DEF Datagram!vars
<1> QED
  BY <1>3, <1>4, <1>5, TallyReadFrom, TallyWriteTo, TallyLose, TallyDouble, TallySend
     DEF Datagram!Next, Datagram!Loop

\* The account leaves no room for an answer the network did not pay for.
LEMMA AccountBalances ==
    Datagram!Parameters /\ DatagramInv /\ Account => Datagram!RepliesAreEchoes
<1> SUFFICES ASSUME Datagram!Parameters, DatagramInv, Account
             PROVE  Datagram!RepliesAreEchoes
  OBVIOUS
<1>1. ASSUME NEW c \in Clients, NEW s \in DOMAIN sent[c]
      PROVE  Datagram!Cardinality({k \in DOMAIN inbox[c] :
               inbox[c][k] # <<>> /\ inbox[c][k] = Datagram!Echo(c, s)}) <= 1 + doubled
  <2> DEFINE E == {k \in DOMAIN inbox[c] :
                     inbox[c][k] # <<>> /\ inbox[c][k] = Datagram!Echo(c, s)}
  <2>1. s \in 1 .. Len(sent[c]) /\ sent[c] \in Seq(Lengths)
    BY DatagramFacts
  <2>2. E \subseteq Answers(c, s)
    <3>1. DOMAIN inbox[c] = 1 .. Len(inbox[c])
      BY DatagramFacts
    <3> QED
      BY <2>1, <3>1, EchoFacts DEF Answers
  <2>3. PICK A, F : A = Answers(c, s) /\ F = E
    OBVIOUS
  <2>4. Cardinality(F) \in Nat /\ Cardinality(F) <= Cardinality(A)
    BY <2>2, <2>3, TallyFacts, Counts
  <2>5. Tally(c, s) <= 1 + doubled
    BY <2>1 DEF Account
  <2>6. Cardinality(F) <= 1 + doubled
    BY <2>3, <2>4, <2>5, TallyFacts DEF Tally
  <2> QED
    BY <2>3, <2>6, DatagramCardinality
<1> QED
  BY <1>1 DEF DatagramInv, RepliesMatch, Datagram!RepliesAreEchoes

-----------------------------------------------------------------------------
(* A datagram server on a Unix socket delivers to each client the replies   *)
(* to its datagrams.                                                        *)

LEMMA OneLonger ==
    ASSUME NEW D, NEW k \in Nat, NEW f \in [1 .. k -> D],
           NEW g \in [1 .. k + 1 -> D], \A i \in 1 .. k : g[i] = f[i]
    PROVE  Len(f) = k /\ Len(g) = k + 1 /\ g = Append(f, g[k + 1])
<1>1. g \in Seq(D) /\ Len(g) = k + 1
  OBVIOUS
<1>2. f \in Seq(D) /\ Len(f) = k
  OBVIOUS
<1>3. g[k + 1] \in D
  OBVIOUS
<1> DEFINE a == Append(f, g[k + 1])
<1>4. /\ a \in Seq(D) /\ Len(a) = k + 1
      /\ \A i \in 1 .. k : a[i] = f[i]
      /\ a[k + 1] = g[k + 1]
  BY <1>2, <1>3, AppendProperties
<1>5. \A i \in 1 .. k + 1 : a[i] = g[i]
  BY <1>4
<1> HIDE DEF a
<1>6. a = g
  BY <1>1, <1>4, <1>5, SeqEqual
<1> QED
  BY <1>1, <1>2, <1>6 DEF a

LEMMA OneChanged ==
    ASSUME NEW S, NEW f, NEW g, NEW c \in S, f = [d \in S |-> f[d]],
           g = [d \in S |-> g[d]], \A d \in S : d # c => g[d] = f[d]
    PROVE  g = [f EXCEPT ![c] = g[c]]
  OBVIOUS

\* A client that sends a datagram offers its reply.
LEMMA DatagramOffers ==
    ASSUME Datagram!Parameters, DatagramInv, NEW c \in Clients, Datagram!Send(c)
    PROVE  Datagram!Echoes!Offer(c)
<1> DEFINE Offered == [d \in Clients |-> Datagram!Replies(d)]
           k == Len(sent[c])
<1>1. PICK length \in Lengths : sent' = [sent EXCEPT ![c] = Append(@, length)]
  BY DEF Datagram!Send
<1>2. inbox' = inbox
  BY DEF Datagram!Send
<1>3. sent \in [Clients -> Seq(Lengths)] /\ sent[c] \in Seq(Lengths) /\ k \in Nat
  BY DatagramFacts DEF DatagramInv, Datagram!TypeOK
<1>4. /\ sent'[c] = Append(sent[c], length)
      /\ \A d \in Clients : d # c => sent'[d] = sent[d]
  BY <1>1, <1>3
<1>5. Len(sent'[c]) = k + 1 /\ \A i \in 1 .. k : sent'[c][i] = sent[c][i]
  BY <1>3, <1>4, AppendProperties
<1>6. \A i \in 1 .. k : Datagram!Echo(c, i)' = Datagram!Echo(c, i)
  BY <1>5 DEF Datagram!Echo
<1>7. /\ Offered[c] = [i \in 1 .. k |-> Datagram!Echo(c, i)]
      /\ (Offered')[c] = [i \in 1 .. k + 1 |-> Datagram!Echo(c, i)']
  <2>1. (Offered')[c] = Datagram!Replies(c)'
    OBVIOUS
  <2> QED
    BY <1>5, <2>1 DEF Datagram!Replies
<1>8. \A d \in Clients : d # c => (Offered')[d] = Offered[d]
  BY <1>4 DEF Datagram!Replies, Datagram!Echo
<1>9. DOMAIN Offered = Clients /\ DOMAIN Offered' = Clients
  OBVIOUS
<1>10. Offered = [d \in Clients |-> Offered[d]] /\ Offered' = [d \in Clients |-> (Offered')[d]]
  OBVIOUS
<1> HIDE DEF Offered
<1> DEFINE Old == Offered[c]
           New == (Offered')[c]
<1>11. Len(Old) = k /\ Len(New) = k + 1 /\ New = Append(Old, New[k + 1])
  <2>1. k + 1 \in 1 .. k + 1 /\ \A i \in 1 .. k : i \in 1 .. k + 1
    BY <1>3
  <2> DEFINE D == {Datagram!Echo(c, i)' : i \in 1 .. k + 1}
  <2>2. /\ Old \in [1 .. k -> D] /\ New \in [1 .. k + 1 -> D]
        /\ \A i \in 1 .. k : New[i] = Old[i]
    BY <1>6, <1>7, <2>1
  <2> HIDE DEF D, Old, New, k
  <2> QED
    BY <1>3, <2>2, OneLonger
<1>12. Offered' = [Offered EXCEPT ![c] = (Offered')[c]]
  BY <1>8, <1>10, OneChanged
<1>13. /\ Len((Offered')[c]) > Len(Offered[c])
       /\ Offered' =
            [Offered EXCEPT ![c] = Append(@, (Offered')[c][Len(@) + 1])]
  <2>1. Len(New) > Len(Old)
    BY <1>3, <1>11
  <2>2. New = Append(Old, New[Len(Old) + 1])
    BY <1>11
  <2> QED
    BY <1>12, <2>1, <2>2
<1> QED
  BY <1>2, <1>13 DEF Datagram!Echoes!Offer, Offered

\* A write on a Unix socket is the reply that is next in turn.
LEMMA DatagramTakes ==
    ASSUME Datagram!Parameters, DatagramInv, DatagramInv', Datagram!WriteTo,
           network = "unixgram"
    PROVE  Datagram!Echoes!Take(clientAddr)
<1> DEFINE Offered == [d \in Clients |-> Datagram!Replies(d)]
           r == Datagram!Reply
           k == Len(inbox[clientAddr])
<1>1. PICK c : c = clientAddr
  OBVIOUS
<1>2. sent' = sent /\ inbox' = [inbox EXCEPT ![c] = Append(@, r)] /\ network' = network
  BY <1>1 DEF Datagram!WriteTo, Datagram!Deliver, Datagram!DeliverUDP,
              Datagram!DeliverUnix, Datagram!Arrived
<1>3. /\ c \in Clients /\ inbox \in [Clients -> Seq(Seq(Datagram!Bytes))]
      /\ inbox[c] \in Seq(Seq(Datagram!Bytes)) /\ k = Len(inbox[c]) /\ k \in Nat
      /\ sent[c] \in Seq(Lengths) /\ Len(sent[c]) \in Nat
  BY <1>1, DatagramFacts DEF DatagramInv, Datagram!TypeOK
<1>4. k + 1 \in 1 .. Len(sent[c])
  BY <1>1 DEF DatagramInv, ReplyIsReady, Holds, Datagram!WriteTo
<1>5. Offered' = Offered
  BY <1>2 DEF Datagram!Replies, Datagram!Echo
<1>6. Offered[c] = [i \in 1 .. Len(sent[c]) |-> Datagram!Echo(c, i)]
  BY <1>3 DEF Datagram!Replies
<1>7. Len(Offered[c]) = Len(sent[c]) /\ Offered[c][k + 1] = Datagram!Echo(c, k + 1)
  BY <1>3, <1>4, <1>6
<1>8. inbox'[c] = Append(inbox[c], r)
  BY <1>2, <1>3
<1>9. DOMAIN inbox'[c] = 1 .. k + 1 /\ inbox'[c][k + 1] = r
  <2>1. inbox'[c] \in Seq(Seq(Datagram!Bytes))
    <3>1. inbox' \in [Clients -> Seq(Seq(Datagram!Bytes))]
      BY DEF DatagramInv, Datagram!TypeOK
    <3> QED
      BY <1>3, <3>1
  <2>2. Len(inbox'[c]) = k + 1 /\ inbox'[c][k + 1] = r
    BY <1>3, <1>8 DEF r
  <2> QED
    BY <2>1, <2>2
<1>10. r = Datagram!Echo(c, k + 1)
  <2>1. PICK j : j = k + 1
    OBVIOUS
  <2>2. j \in DOMAIN inbox'[c] /\ network' = "unixgram" /\ inbox'[c][j] = r
    BY <1>2, <1>3, <1>9, <2>1
  <2>3. RepliesMatch'
    BY DEF DatagramInv
  <2>4. inbox'[c][j] = Datagram!Echo(c, j)'
    BY <1>3, <2>2, <2>3 DEF RepliesMatch
  <2>5. Datagram!Echo(c, j)' = Datagram!Echo(c, j)
    BY <1>2 DEF Datagram!Echo
  <2> QED
    BY <2>1, <2>2, <2>4, <2>5
<1>11. k < Len(Offered[c]) /\ r = Offered[c][k + 1]
  BY <1>3, <1>4, <1>7, <1>10
<1> HIDE DEF r, Offered
<1>12. inbox' = [inbox EXCEPT ![c] = Append(@, Offered[c][Len(@) + 1])]
  BY <1>2, <1>3, <1>11
<1> QED
  BY <1>1, <1>5, <1>11, <1>12 DEF Offered, Datagram!Echoes!Take

LEMMA DatagramDelivers ==
    ASSUME Datagram!Parameters, DatagramInv, DatagramInv',
           [Datagram!Next]_(Datagram!vars)
    PROVE  [network' = "udp" \/ Datagram!Echoes!Next]_(Datagram!Echoes!vars)
<1>1. ASSUME UNCHANGED <<sent, inbox>> PROVE UNCHANGED Datagram!Echoes!vars
  BY <1>1 DEF Datagram!Echoes!vars, Datagram!Replies, Datagram!Echo
<1>2. ASSUME NEW c \in Clients, Datagram!Send(c) PROVE Datagram!Echoes!Next
  BY <1>2, DatagramOffers DEF Datagram!Echoes!Next
<1>3. CASE Datagram!WriteTo
  <2>1. network' = network
    BY <1>3 DEF Datagram!WriteTo
  <2>2. network \in {"udp", "unixgram"}
    BY <1>3 DEF Datagram!WriteTo, Datagram!Deliver, Datagram!DeliverUDP,
                Datagram!DeliverUnix
  <2>3. CASE network = "unixgram"
    <3>1. clientAddr \in Clients
      BY DatagramFacts
    <3> QED
      BY <1>3, <2>3, <3>1, DatagramTakes DEF Datagram!Echoes!Next
  <2> QED
    BY <2>1, <2>2, <2>3
<1>4. ASSUME NEW c \in Clients, Datagram!Receive(c) \/ Datagram!Leave(c)
      PROVE  UNCHANGED <<sent, inbox>>
  BY <1>4 DEF Datagram!Receive, Datagram!Leave
<1>5. ASSUME \/ Datagram!ListenPacket \/ Datagram!ReadFrom \/ Datagram!ReadFail
             \/ Datagram!WriteFail \/ Datagram!CloseSocket \/ Datagram!RemoveFile
             \/ Datagram!Lose \/ Datagram!Double \/ Datagram!Cancel
      PROVE  UNCHANGED <<sent, inbox>>
  BY <1>5 DEF Datagram!ListenPacket, Datagram!ReadFrom, Datagram!ReadFail,
     Datagram!WriteFail, Datagram!CloseSocket, Datagram!RemoveFile, Datagram!Lose,
     Datagram!Double, Datagram!Cancel, Datagram!clients
<1>6. CASE UNCHANGED Datagram!vars
  BY <1>1, <1>6 DEF Datagram!vars, Datagram!clients
<1> QED
  BY <1>1, <1>2, <1>3, <1>4, <1>5, <1>6 DEF Datagram!Next, Datagram!Loop

LEMMA DatagramOffersNothing == Datagram!Init => Datagram!Echoes!Init
<1> SUFFICES ASSUME Datagram!Init PROVE Datagram!Echoes!Init
  OBVIOUS
<1>1. /\ sent = [c \in Clients |-> <<>>] /\ inbox = [c \in Clients |-> <<>>]
  BY DEF Datagram!Init
<1>2. ASSUME NEW c \in Clients PROVE Datagram!Replies(c) = <<>>
  <2>1. Len(sent[c]) = 0
    BY <1>1
  <2>2. Datagram!Replies(c) = [i \in 1 .. 0 |-> Datagram!Echo(c, i)]
    BY <2>1 DEF Datagram!Replies
  <2>3. Datagram!Replies(c) \in Seq({}) /\ Len(Datagram!Replies(c)) = 0
    BY <2>2
  <2> QED
    BY <2>3, EmptySeq
<1>3. [c \in Clients |-> Datagram!Replies(c)] = [c \in Clients |-> <<>>]
  BY <1>2
<1> QED
  BY <1>1, <1>3 DEF Datagram!Echoes!Init

-----------------------------------------------------------------------------
(* The types of the push and of the Pinger.                                 *)

LEMMA PushInit == Pushes!Parameters /\ Pushes!Init => Pushes!TypeOK
<1> SUFFICES ASSUME Pushes!Parameters, Pushes!Init
             PROVE  Pushes!TypeOK
  OBVIOUS
<1>1. \A D : <<>> \in Seq(D)
  OBVIOUS
<1>2. 0 \in 0 .. Len(Targets)
  BY DEF Pushes!Parameters
<1> QED
  BY <1>1, <1>2 DEF Pushes!Init, Pushes!TypeOK

LEMMA PushStep ==
    Pushes!Parameters /\ Pushes!TypeOK /\ [Pushes!Next]_(Pushes!vars)
      => Pushes!TypeOK'
<1> SUFFICES ASSUME Pushes!Parameters, Pushes!TypeOK, [Pushes!Next]_(Pushes!vars)
             PROVE  Pushes!TypeOK'
  OBVIOUS
<1> DEFINE Frames ==
        {Pushes!PageFrame} \cup {Pushes!Promise(t) : t \in Pushes!Resources}
<1>1. /\ at \in 0 .. Len(Targets) /\ pageServed \in BOOLEAN /\ page \in BOOLEAN
      /\ stream \in Seq(Frames)
      /\ work \subseteq Pushes!Resources /\ promised \subseteq Pushes!Resources
      /\ wanted \subseteq Pushes!Resources /\ loaded \in [Pushes!Resources -> Nat]
  BY DEF Pushes!TypeOK
<1>2. \A f \in Frames : f.kind # "page" => f.resource \in Pushes!Resources
  BY DEF Pushes!PageFrame, Pushes!Promise
<1>3. /\ Pushes!PageFrame \in Frames
      /\ \A t \in Pushes!Resources : Pushes!Promise(t) \in Frames
  OBVIOUS
<1> HIDE DEF Frames
<1>4. CASE Pushes!PushTarget
  <2> DEFINE t == Targets[at + 1]
  <2>1. t \in Pushes!Resources /\ at' \in 0 .. Len(Targets)
    BY <1>1, <1>4 DEF Pushes!PushTarget, Pushes!AfterError, Pushes!Parameters,
                      Pushes!Resources
  <2>2. stream' \in Seq(Frames) /\ work' \subseteq Pushes!Resources
    <3>1. CASE /\ stream' = Append(stream, Pushes!Promise(t))
               /\ work' = work \cup {t}
      <4>1. Pushes!Promise(t) \in Frames
        BY <1>3, <2>1
      <4>2. Append(stream, Pushes!Promise(t)) \in Seq(Frames)
        BY <1>1, <4>1, AppendProperties
      <4> QED
        BY <1>1, <2>1, <3>1, <4>2
    <3>2. CASE UNCHANGED <<stream, work>>
      BY <1>1, <3>2
    <3> QED
      BY <1>4, <3>1, <3>2 DEF Pushes!PushTarget
  <2> QED
    BY <1>1, <1>4, <2>1, <2>2 DEF Pushes!PushTarget, Pushes!TypeOK, Frames
<1>5. CASE Pushes!ServeFile
  <2>1. stream' \in Seq(Frames)
    BY <1>1, <1>3, <1>5 DEF Pushes!ServeFile
  <2> QED
    BY <1>1, <1>5, <2>1 DEF Pushes!ServeFile, Pushes!TypeOK, Frames
<1>6. CASE Pushes!ReceiveFrame
  <2>1. Head(stream) \in Frames /\ stream' \in Seq(Frames)
    BY <1>1, <1>6 DEF Pushes!ReceiveFrame
  <2>2. CASE Head(stream).kind = "page"
    <3>1. page' = TRUE /\ promised' = promised
      BY <1>6, <2>2 DEF Pushes!ReceiveFrame
    <3> QED
      BY <1>1, <1>6, <2>1, <3>1 DEF Pushes!ReceiveFrame, Pushes!TypeOK, Frames
  <2>3. CASE Head(stream).kind # "page"
    <3>1. page' = page /\ promised' = promised \cup {Head(stream).resource}
      BY <1>6, <2>3 DEF Pushes!ReceiveFrame
    <3>2. promised' \subseteq Pushes!Resources
      BY <1>1, <1>2, <2>1, <2>3, <3>1
    <3> QED
      BY <1>1, <1>6, <2>1, <3>1, <3>2
         DEF Pushes!ReceiveFrame, Pushes!TypeOK, Frames
  <2> QED
    BY <2>2, <2>3
<1>7. ASSUME NEW t \in Pushes!Resources, Pushes!Answer(t) \/ Pushes!Ask(t)
      PROVE  Pushes!TypeOK'
  BY <1>1, <1>7 DEF Pushes!Answer, Pushes!Ask, Pushes!TypeOK, Frames
<1>8. CASE UNCHANGED Pushes!vars
  BY <1>8 DEF Pushes!vars, Pushes!TypeOK
<1> QED
  BY <1>4, <1>5, <1>6, <1>7, <1>8 DEF Pushes!Next

LEMMA PingerInit ==
    Heartbeat!Parameters /\ Heartbeat!Init => Heartbeat!TypeOK
<1> SUFFICES ASSUME Heartbeat!Parameters, Heartbeat!Init
             PROVE  Heartbeat!TypeOK
  OBVIOUS
<1>1. <<>> \in Seq(Durations) /\ Len(<<>>) = 0
  OBVIOUS
<1>2. 0 \in 0 .. MaxResets
  BY DEF Heartbeat!Parameters
<1>3. /\ ping \in Heartbeat!PCs /\ timer \in {"off", "armed", "expired"}
      /\ stopped \in BOOLEAN /\ closed \in BOOLEAN
      /\ interval \in Durations \cup {0, Default}
      /\ armedFor \in Durations \cup {0, Default}
      /\ lastAsked \in Durations \cup {Default}
  BY DEF Heartbeat!Init, Heartbeat!PCs
<1> QED
  BY <1>1, <1>2, <1>3 DEF Heartbeat!Init, Heartbeat!TypeOK

LEMMA PingerStep ==
    Heartbeat!Parameters /\ Heartbeat!TypeOK /\ [Heartbeat!Next]_(Heartbeat!vars)
      => Heartbeat!TypeOK'
<1> SUFFICES ASSUME Heartbeat!Parameters, Heartbeat!TypeOK,
                    [Heartbeat!Next]_(Heartbeat!vars)
             PROVE  Heartbeat!TypeOK'
  OBVIOUS
<1> USE DEF Heartbeat!TypeOK, Heartbeat!PCs, Heartbeat!pipeVars
<1>1. reset # <<>> => Head(reset) \in Durations /\ Tail(reset) = <<>>
  OBVIOUS
<1>2. <<>> \in Seq(Durations) /\ Len(<<>>) = 0
  OBVIOUS
<1>3. CASE Heartbeat!Start
  BY <1>1, <1>2, <1>3 DEF Heartbeat!Start, Heartbeat!Asked
<1>4. CASE Heartbeat!SelectReset
  BY <1>1, <1>2, <1>4
     DEF Heartbeat!SelectReset, Heartbeat!Asked, Heartbeat!NewInterval
<1>5. CASE Heartbeat!Arm \/ Heartbeat!SelectDone \/ Heartbeat!SelectTick
  BY <1>5 DEF Heartbeat!Arm, Heartbeat!SelectDone, Heartbeat!SelectTick
<1>6. CASE Heartbeat!WriteFail \/ Heartbeat!WriteRead \/ Heartbeat!Rearm
           \/ Heartbeat!Stop \/ Heartbeat!Expire
  BY <1>6 DEF Heartbeat!WriteFail, Heartbeat!WriteRead, Heartbeat!Rearm,
              Heartbeat!Stop, Heartbeat!Expire
<1>7. CASE Heartbeat!UserReset
  BY <1>7 DEF Heartbeat!UserReset, Heartbeat!Parameters
<1>8. CASE Heartbeat!UserCancel \/ Heartbeat!UserClose \/ UNCHANGED Heartbeat!vars
  BY <1>8 DEF Heartbeat!UserCancel, Heartbeat!UserClose, Heartbeat!vars
<1> QED
  BY <1>3, <1>4, <1>5, <1>6, <1>7, <1>8 DEF Heartbeat!Next, Heartbeat!PingerNext

-----------------------------------------------------------------------------
(* A behaviour of MCServers is one of each of the modules.                  *)

LEMMA EachNext ==
    ASSUME [Next]_vars
    PROVE  /\ [Stream!Next]_streamVars /\ [Datagram!Next]_datagramVars
           /\ [Relay!Next]_relayVars /\ [Stop!Next]_stopVars
           /\ [Pushes!Next]_pushVars /\ [Heartbeat!Next]_pingVars
<1>1. CASE UNCHANGED vars
  BY <1>1 DEF vars
<1>2. CASE Next
  BY <1>2 DEF Next
<1> QED
  BY <1>1, <1>2

Start == Init /\ [][Next]_vars

\* The same variables, in the order of the modules.
LEMMA StreamOf == Start => StreamP!Spec
<1>1. Init => StreamP!Init
  BY SameStream DEF Init
<1>2. [Next]_vars => [StreamP!Next]_(StreamP!vars)
  <2> SUFFICES ASSUME [Next]_vars PROVE [StreamP!Next]_(StreamP!vars)
    OBVIOUS
  <2>1. CASE Stream!Next
    BY <2>1, SameStream
  <2>2. CASE UNCHANGED streamVars
    BY <2>2 DEF streamVars, StreamP!vars, StreamP!serverVars, StreamP!clientVars
  <2> QED
    BY <2>1, <2>2, EachNext
<1> QED
  BY <1>1, <1>2, PTL DEF Start, StreamP!Spec

LEMMA RelayOf == Start => RelayP!Spec
<1>1. Init => RelayP!Init
  BY SameRelay DEF Init
<1>2. [Next]_vars => [RelayP!Next]_(RelayP!vars)
  <2> SUFFICES ASSUME [Next]_vars PROVE [RelayP!Next]_(RelayP!vars)
    OBVIOUS
  <2>1. CASE Relay!Next
    BY <2>1, SameRelay
  <2>2. CASE UNCHANGED relayVars
    BY <2>2 DEF relayVars, RelayP!vars, RelayP!clientVars, RelayP!mainVars,
                RelayP!backVars, RelayP!serverVars
  <2> QED
    BY <2>1, <2>2, EachNext
<1> QED
  BY <1>1, <1>2, PTL DEF Start, RelayP!Spec

LEMMA StopOf == Start => StopP!Spec
<1>1. Init => StopP!Init
  BY SameStop DEF Init
<1>2. [Next]_vars => [StopP!Next]_(StopP!vars)
  <2> SUFFICES ASSUME [Next]_vars PROVE [StopP!Next]_(StopP!vars)
    OBVIOUS
  <2>1. CASE Stop!Next
    BY <2>1, SameStop
  <2>2. CASE UNCHANGED stopVars
    BY <2>2 DEF stopVars, StopP!vars, StopP!runVars, StopP!stopVars,
                StopP!connVars
  <2> QED
    BY <2>1, <2>2, EachNext
<1> QED
  BY <1>1, <1>2, PTL DEF Start, StopP!Spec

\* echo.go and server.go: one buffer that serves all clients.  What it holds is the
\* reply to the client at clientAddr, whatever it held before; over a Unix socket
\* the replies come in turn, and over UDP, which loses, doubles and reorders, the
\* answers to a datagram and its copies that are left add up to no more than the
\* network has made.
THEOREM DatagramsAreEchoed ==
    ASSUME Datagram!Parameters
    PROVE  Start => [](DatagramInv /\ Account /\ Datagram!RepliesAreEchoes)
<1>1. Init => DatagramInv /\ Account
  BY DatagramInit, AccountInit DEF Init
<1>2. DatagramInv /\ Account /\ [Next]_vars => DatagramInv' /\ Account'
  <2> SUFFICES ASSUME DatagramInv, Account, [Next]_vars PROVE DatagramInv' /\ Account'
    OBVIOUS
  <2>1. UNCHANGED datagramVars => UNCHANGED Datagram!vars
    BY DEF datagramVars, Datagram!vars, Datagram!server, Datagram!socket,
           Datagram!clients
  <2>2. [Datagram!Next]_(Datagram!vars)
    BY <2>1, EachNext
  <2>3. DatagramInv'
    BY <2>2, DatagramStep
  <2> QED
    BY <2>2, <2>3, AccountStep
<1>3. DatagramInv /\ Account => Datagram!RepliesAreEchoes
  BY AccountBalances
<1> QED
  BY <1>1, <1>2, <1>3, PTL DEF Start

\* Each variable keeps its type in all six: no buffer, queue or channel holds
\* more than it has room for.
THEOREM ServerTypes == FairSpec => []TypeOK
<1>1. FairSpec => Start
  BY PTL DEF FairSpec, Start
<1>2. Start => []Stream!TypeOK
  <2>1. StreamP!Parameters
    BY ServerParameters DEF Stream!Parameters, StreamP!Parameters
  <2>2. StreamP!Spec => []StreamP!TypeOK
    BY <2>1, StreamP!StreamTypes
  <2>3. StreamP!TypeOK => Stream!TypeOK
    BY DEF StreamP!TypeOK, Stream!TypeOK, StreamP!Handling, Stream!Handling
  <2> QED
    BY <2>2, <2>3, StreamOf, PTL
<1>3. Start => []Datagram!TypeOK
  <2>1. Start => []DatagramInv
    BY ServerParameters, DatagramsAreEchoed, PTL
  <2>2. DatagramInv => Datagram!TypeOK
    BY DEF DatagramInv
  <2> QED
    BY <2>1, <2>2, PTL
<1>4. Start => []Relay!TypeOK
  <2>1. RelayP!Parameters
    BY ServerParameters DEF Relay!Parameters, RelayP!Parameters
  <2>2. RelayP!Spec => []RelayP!TypeOK
    BY <2>1, RelayP!ProxyTypes
  <2>3. RelayP!TypeOK => Relay!TypeOK
    BY DEF RelayP!TypeOK, Relay!TypeOK, RelayP!Count, Relay!Count
  <2> QED
    BY <2>2, <2>3, RelayOf, PTL
<1>5. Start => []Stop!TypeOK
  <2>1. StopP!Parameters
    BY ServerParameters DEF Stop!Parameters, StopP!Parameters
  <2>2. StopP!Spec => []StopP!Inv
    BY <2>1, StopP!StopInductive
  <2>3. StopP!Inv => Stop!TypeOK
    BY DEF StopP!Inv, StopP!TypeOK, Stop!TypeOK
  <2> QED
    BY <2>2, <2>3, StopOf, PTL
<1>6. Start => []Pushes!TypeOK
  <2>1. Init => Pushes!TypeOK
    BY ServerParameters, PushInit DEF Init
  <2>2. Pushes!TypeOK /\ [Next]_vars => Pushes!TypeOK'
    <3> SUFFICES ASSUME Pushes!TypeOK, [Next]_vars PROVE Pushes!TypeOK'
      OBVIOUS
    <3>1. UNCHANGED pushVars => UNCHANGED Pushes!vars
      BY DEF pushVars, Pushes!vars
    <3> QED
      BY <3>1, ServerParameters, PushStep, EachNext
  <2> QED
    BY <2>1, <2>2, PTL DEF Start
<1>7. Start => []Heartbeat!TypeOK
  <2>1. Init => Heartbeat!TypeOK
    BY ServerParameters, PingerInit DEF Init
  <2>2. Heartbeat!TypeOK /\ [Next]_vars => Heartbeat!TypeOK'
    <3> SUFFICES ASSUME Heartbeat!TypeOK, [Next]_vars PROVE Heartbeat!TypeOK'
      OBVIOUS
    <3>1. UNCHANGED pingVars => UNCHANGED Heartbeat!vars
      BY DEF pingVars, Heartbeat!vars
    <3> QED
      BY <3>1, ServerParameters, PingerStep, EachNext
  <2> QED
    BY <2>1, <2>2, PTL DEF Start
<1> QED
  BY <1>1, <1>2, <1>3, <1>4, <1>5, <1>6, <1>7, PTL DEF TypeOK

\* TrafficIsKept: what the echo servers send back is what they were sent, with
\* one buffer for all the clients of a datagram server (echo.go, server.go), and
\* no reply is lost in the proxy while proxyConn runs (proxy.go).
THEOREM TrafficKept == FairSpec => []TrafficIsKept
<1>1. FairSpec => Start
  BY PTL DEF FairSpec, Start
<1>2. Start => []Stream!EchoIsFaithful
  <2>1. StreamP!Parameters
    BY ServerParameters DEF Stream!Parameters, StreamP!Parameters
  <2>2. StreamP!Spec => []StreamP!EchoIsFaithful
    BY <2>1, StreamP!EchoFaithful
  <2>3. StreamP!EchoIsFaithful => Stream!EchoIsFaithful
    BY DEF StreamP!EchoIsFaithful, Stream!EchoIsFaithful, StreamP!Units,
           Stream!Units, StreamP!IsPrefix, Stream!IsPrefix
  <2> QED
    BY <2>2, <2>3, StreamOf, PTL
<1>3. Start => []Datagram!RepliesAreEchoes
  BY ServerParameters, DatagramsAreEchoed, PTL
<1>4. Start => []Relay!NoReplyLost
  <2>1. RelayP!Parameters
    BY ServerParameters DEF Relay!Parameters, RelayP!Parameters
  <2>2. RelayP!Spec => []RelayP!NoReplyLost
    BY <2>1, RelayP!RepliesKept
  <2>3. RelayP!NoReplyLost => Relay!NoReplyLost
    BY DEF RelayP!NoReplyLost, Relay!NoReplyLost, RelayP!Replied, Relay!Replied,
           RelayP!Open, Relay!Open, RelayP!ClientReads, Relay!ClientReads
  <2> QED
    BY <2>2, <2>3, RelayOf, PTL
<1> QED
  BY <1>1, <1>2, <1>3, <1>4, PTL DEF TrafficIsKept

\* NoRequestCut (run of push.go): Shutdown lets the handlers finish, and run
\* waits for it.
THEOREM NothingCut == FairSpec => []NoRequestCut
<1>1. FairSpec => Start
  BY PTL DEF FairSpec, Start
<1>2. StopP!Parameters
  BY ServerParameters DEF Stop!Parameters, StopP!Parameters
<1>3. StopP!Spec => []StopP!NoRequestCut
  BY <1>2, StopP!NothingCut
<1>4. StopP!NoRequestCut => NoRequestCut
  BY DEF StopP!NoRequestCut, NoRequestCut, Stop!NoRequestCut
<1> QED
  BY <1>1, <1>3, <1>4, StopOf, PTL

\* EchoIsDelivery: the echo servers of chapters 7 and 11 implement Delivery.
\* Whatever the other side, a deadline, an error or the context does, a step in
\* which a client gets something gives it the next of what is its own.
THEOREM EchoesDelivered == FairSpec => EchoIsDelivery
<1>1. FairSpec => Start
  BY PTL DEF FairSpec, Start
<1>2. Start => Stream!EchoIsDelivery
  <2>1. StreamP!Parameters
    BY ServerParameters DEF Stream!Parameters, StreamP!Parameters
  <2>2. StreamP!Spec => StreamP!EchoIsDelivery
    BY <2>1, StreamP!EchoDelivers
  <2>3. StreamP!Echoes!Init => Stream!Echoes!Init
    BY DEF StreamP!Echoes!Init, Stream!Echoes!Init, StreamP!Units, Stream!Units
  <2>4. [StreamP!Echoes!Next]_(StreamP!Echoes!vars)
          => [Stream!Echoes!Next]_(Stream!Echoes!vars)
    BY DEF StreamP!Echoes!Next, StreamP!Echoes!Offer, StreamP!Echoes!Take,
           StreamP!Echoes!vars, StreamP!Units, Stream!Echoes!Next,
           Stream!Echoes!Offer, Stream!Echoes!Take, Stream!Echoes!vars,
           Stream!Units
  <2> QED
    BY <2>2, <2>3, <2>4, StreamOf, PTL
       DEF StreamP!EchoIsDelivery, StreamP!Echoes!Spec, Stream!EchoIsDelivery,
           Stream!Echoes!Spec
<1>3. Start => Datagram!EchoIsDelivery
  <2>1. Start => []DatagramInv
    BY ServerParameters, DatagramsAreEchoed, PTL
  <2>2. Init => Datagram!Echoes!Init
    BY DatagramOffersNothing DEF Init
  <2>3. DatagramInv /\ DatagramInv' /\ [Next]_vars
          => [network' = "udp" \/ Datagram!Echoes!Next]_(Datagram!Echoes!vars)
    <3> SUFFICES ASSUME DatagramInv, DatagramInv', [Next]_vars
                 PROVE  [network' = "udp" \/ Datagram!Echoes!Next]_(Datagram!Echoes!vars)
      OBVIOUS
    <3>1. UNCHANGED datagramVars => UNCHANGED Datagram!vars
      BY DEF datagramVars, Datagram!vars, Datagram!server, Datagram!socket,
             Datagram!clients
    <3>2. [Datagram!Next]_(Datagram!vars)
      BY <3>1, EachNext
    <3> QED
      BY <3>2, ServerParameters, DatagramDelivers
  <2> QED
    BY <2>1, <2>2, <2>3, PTL DEF Start, Datagram!EchoIsDelivery
<1> QED
  BY <1>1, <1>2, <1>3, PTL DEF EchoIsDelivery
=============================================================================
