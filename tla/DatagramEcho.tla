---------------------------- MODULE DatagramEcho ----------------------------
(***************************************************************************)
(* The datagram echo servers: echoServerUDP (chapter5/echo.go) and          *)
(* datagramEchoServer (chapter7/server.go), which also serves "unixgram"    *)
(* and removes the socket's file when its context is cancelled.             *)
(*                                                                         *)
(* One socket and one buffer serve every client.  A datagram is the client  *)
(* it came from, a serial number and a length; what is in a byte does not   *)
(* matter, so a byte of a datagram is the datagram's <<client, serial>>.    *)
(* The kernel and the network are external: when network = "udp", datagrams *)
(* may be lost, doubled and overtake each other, and replies may be lost    *)
(* and doubled; on a Unix socket they are kept in order, a sender, the      *)
(* server too, waits for room in the queue of the receiver, and a write to  *)
(* a client whose socket is gone fails.                                     *)
(***************************************************************************)
EXTENDS Naturals, Sequences, SequencesExt, FiniteSets

CONSTANTS
    Clients,
    Size,       \* len(buf), 1024 in the code
    Lengths,    \* of the datagrams that clients send
    MaxSent,    \* bound: datagrams that clients send in all
    MaxDoubled, \* bound: times that UDP delivers a datagram once more
    Room        \* datagrams that a socket's queue holds

Parameters ==
    /\ Clients # {} /\ Size \in Nat \ {0} /\ Lengths \subseteq Nat
    /\ MaxSent \in Nat /\ MaxDoubled \in Nat /\ Room \in Nat \ {0}

VARIABLES
    network,    \* "none", "udp" or "unixgram"
    open,       \* the server's socket is open
    file,       \* the socket's file exists
    cancelled,  \* ctx is done
    queue,      \* datagrams the socket has received
    pc,         \* the function: "listen", then its loop: "read", "write", "done"
    buf, n, clientAddr,
    sent,       \* per client: the lengths of the datagrams it has sent
    inbox,      \* per client: the replies that reached its socket
    unread,     \* how many of them a Unix client has not read
    left,       \* the Unix clients whose sockets are closed
    doubled     \* how often UDP has delivered a datagram once more

server == <<pc, buf, n, clientAddr>>
socket == <<open, file, cancelled>>
clients == <<sent, inbox, unread, left, doubled>>
vars == <<network, socket, queue, server, clients>>

Serials == Nat \ {0}
Bytes == (Clients \X Serials) \cup {<<>>}
Datagrams == [from : Clients, serial : Serials, length : Lengths]

TypeOK ==
    /\ network \in {"none", "udp", "unixgram"}
    /\ open \in BOOLEAN /\ file \in BOOLEAN /\ cancelled \in BOOLEAN
    /\ queue \in Seq(Datagrams) /\ Len(queue) <= Room
    /\ pc \in {"listen", "read", "write", "done"}
    /\ buf \in [1 .. Size -> Bytes]
    /\ n \in 0 .. Size
    /\ clientAddr \in Clients
    /\ sent \in [Clients -> Seq(Lengths)]
    /\ inbox \in [Clients -> Seq(Seq(Bytes))]
    /\ unread \in [Clients -> 0 .. Room]
    /\ left \subseteq Clients
    /\ doubled \in 0 .. MaxDoubled

Init ==
    /\ network = "none"
    /\ open = FALSE /\ file = FALSE
    /\ cancelled = FALSE
    /\ queue = <<>>
    /\ pc = "listen"
    /\ buf = [i \in 1 .. Size |-> <<>>] /\ n = 0
    /\ clientAddr = CHOOSE c \in Clients : TRUE
    /\ sent = [c \in Clients |-> <<>>]
    /\ inbox = [c \in Clients |-> <<>>]
    /\ unread = [c \in Clients |-> 0]
    /\ left = {} /\ doubled = 0

-----------------------------------------------------------------------------
(* The server's loop.                                                       *)

Smaller(a, b) == IF a < b THEN a ELSE b

\* net.ListenPacket makes the socket, and the file of a Unix one.
ListenPacket ==
    /\ pc = "listen"
    /\ network' \in {"udp", "unixgram"}
    /\ open' = TRUE
    /\ file' = (network' = "unixgram")
    /\ pc' = "read"
    /\ UNCHANGED <<cancelled, queue, buf, n, clientAddr, clients>>

\* ReadFrom: a datagram longer than the buffer loses its end.
Filled(d) ==
    [i \in 1 .. Size |->
        IF i <= Smaller(d.length, Size) THEN <<d.from, d.serial>> ELSE buf[i]]

\* The next datagram is the first; over UDP any of them may be.
ReadFrom ==
    /\ pc = "read"
    /\ open
    /\ \E i \in 1 .. Len(queue) :
         /\ network = "udp" \/ i = 1
         /\ buf' = Filled(queue[i])
         /\ n' = Smaller(queue[i].length, Size)
         /\ clientAddr' = queue[i].from
         /\ queue' = RemoveAt(queue, i)
    /\ pc' = "write"
    /\ UNCHANGED <<network, socket, clients>>

ReadFail ==
    /\ pc = "read"
    /\ ~open
    /\ pc' = "done"
    /\ UNCHANGED <<network, socket, queue, buf, n, clientAddr, clients>>

\* buf[:n]  (Mutant: the whole buffer.)
M_Reply == buf
Reply == SubSeq(buf, 1, n)

\* A Unix client that has left makes WriteTo fail; a UDP one does not.
Unreachable == ~open \/ clientAddr \in left

\* The reply reaches the client's socket: over UDP perhaps, or twice; on a Unix
\* socket once there is room.
Arrived == [inbox EXCEPT ![clientAddr] = Append(@, Reply)]
ArrivedTwice == [inbox EXCEPT ![clientAddr] = Append(Append(@, Reply), Reply)]
DeliverUDP ==
    /\ network = "udp"
    /\ UNCHANGED unread
    /\ \/ inbox' \in {inbox, Arrived} /\ UNCHANGED doubled
       \/ /\ doubled < MaxDoubled
          /\ inbox' = ArrivedTwice /\ doubled' = doubled + 1
DeliverUnix ==
    /\ network = "unixgram"
    /\ unread[clientAddr] < Room
    /\ inbox' = Arrived
    /\ unread' = [unread EXCEPT ![clientAddr] = @ + 1]
    /\ UNCHANGED doubled
Deliver == DeliverUDP \/ DeliverUnix

\* (Mutant: the loop ends after a write.)
M_WriteTo ==
    /\ pc = "write"
    /\ ~Unreachable
    /\ Deliver
    /\ pc' = "done"
    /\ UNCHANGED <<network, socket, queue, buf, n, clientAddr, sent, left>>

WriteTo ==
    /\ pc = "write"
    /\ ~Unreachable
    /\ Deliver
    /\ pc' = "read"
    /\ UNCHANGED <<network, socket, queue, buf, n, clientAddr, sent, left>>

\* The error ends the loop, for every client; the socket stays open.
WriteFail ==
    /\ pc = "write"
    /\ Unreachable
    /\ pc' = "done"
    /\ UNCHANGED <<network, socket, queue, buf, n, clientAddr, clients>>

\* The goroutine that waits for the context.
CloseSocket ==
    /\ cancelled /\ open
    /\ open' = FALSE
    /\ queue' = <<>>
    /\ UNCHANGED <<network, file, cancelled, server, clients>>

RemoveFile ==
    /\ cancelled /\ ~open
    /\ network = "unixgram" /\ file
    /\ file' = FALSE
    /\ UNCHANGED <<network, open, cancelled, queue, server, clients>>

-----------------------------------------------------------------------------
(* The clients, the network and the caller.                                 *)

Send(c) ==
    /\ c \notin left
    /\ open
    /\ SumFunction([d \in Clients |-> Len(sent[d])]) < MaxSent
    /\ Len(queue) < Room
    /\ \E length \in Lengths :
         /\ sent' = [sent EXCEPT ![c] = Append(@, length)]
         /\ queue' = Append(queue,
              [from |-> c, serial |-> Len(sent[c]) + 1, length |-> length])
    /\ UNCHANGED <<network, socket, server, inbox, unread, left, doubled>>

Receive(c) ==
    /\ c \notin left /\ unread[c] > 0
    /\ unread' = [unread EXCEPT ![c] = @ - 1]
    /\ UNCHANGED <<network, socket, queue, server, sent, inbox, left, doubled>>

Lose ==
    /\ network = "udp"
    /\ \E i \in 1 .. Len(queue) : queue' = RemoveAt(queue, i)
    /\ UNCHANGED <<network, socket, server, clients>>

\* A datagram arrives once more.
Double ==
    /\ network = "udp"
    /\ doubled < MaxDoubled
    /\ Len(queue) < Room
    /\ \E i \in 1 .. Len(queue) : queue' = Append(queue, queue[i])
    /\ doubled' = doubled + 1
    /\ UNCHANGED <<network, socket, server, sent, inbox, unread, left>>

\* A UDP client that leaves is one whose replies are lost.
Leave(c) ==
    /\ network = "unixgram"
    /\ c \notin left
    /\ left' = left \cup {c}
    /\ UNCHANGED <<network, socket, queue, server, sent, inbox, unread, doubled>>

Cancel ==
    /\ ~cancelled
    /\ cancelled' = TRUE
    /\ UNCHANGED <<network, open, file, queue, server, clients>>

Loop == ListenPacket \/ ReadFrom \/ ReadFail \/ WriteTo \/ WriteFail

Next ==
    \/ Loop \/ CloseSocket \/ RemoveFile
    \/ Lose \/ Double \/ Cancel
    \/ \E c \in Clients : Send(c) \/ Receive(c) \/ Leave(c)

Spec == Init /\ [][Next]_vars

\* Both goroutines are scheduled; clients, network and caller owe nothing.
FairSpec == Spec /\ WF_vars(Loop) /\ WF_vars(CloseSocket) /\ WF_vars(RemoveFile)

-----------------------------------------------------------------------------
\* What the client should get for its datagram number i.
Echo(c, i) == [j \in 1 .. Smaller(sent[c][i], Size) |-> <<c, i>>]

(* One buffer serves all the clients, and still a client only gets its own  *)
(* data back, each reply the first Size bytes of one datagram and nothing   *)
(* of the datagrams the buffer held before (echo.go:29-40); on a Unix       *)
(* socket the replies come in the order of the requests, none twice and     *)
(* none left out.  Over UDP a datagram may be answered more than once, but  *)
(* no more often than the network doubles it or its answer: the server adds *)
(* no answer of its own.  (A reply without a byte tells nothing.)           *)
RepliesAreEchoes ==
    \A c \in Clients :
      /\ \A k \in DOMAIN inbox[c] : \E i \in DOMAIN sent[c] : inbox[c][k] = Echo(c, i)
      /\ \A i \in DOMAIN sent[c] :
           Cardinality({k \in DOMAIN inbox[c] :
                          inbox[c][k] # <<>> /\ inbox[c][k] = Echo(c, i)})
             <= 1 + doubled
      /\ network = "unixgram" =>
           \A k \in DOMAIN inbox[c] : inbox[c][k] = Echo(c, k)

\* On a Unix socket the server delivers to each client what its datagrams are
\* answered with: a write adds the reply that is next in turn, or none.
Replies(c) == [i \in 1 .. Len(sent[c]) |-> Echo(c, i)]
Echoes == INSTANCE Delivery
    WITH Senders <- Clients, offered <- [c \in Clients |-> Replies(c)],
         taken <- inbox
EchoIsDelivery == Echoes!Init /\ [][network' = "udp" \/ Echoes!Next]_(Echoes!vars)

(* While no client leaves, every client reads its replies and nobody        *)
(* cancels, every datagram to a Unix socket is answered.  Without these     *)
(* conditions it is not: one client that does not wait for its answer ends  *)
(* the service (server.go:94-96), one that does not read it blocks it.      *)
StayersAreAnswered ==
    /\ [](left = {} /\ ~cancelled /\ network # "udp")
    /\ \A c \in Clients : []<>(unread[c] = 0)
    => \A c \in Clients : \A i \in 1 .. MaxSent :
         Len(sent[c]) >= i ~> Len(inbox[c]) >= i
=============================================================================
