----------------------------- MODULE TFTPCodec -----------------------------
(***************************************************************************)
(* The packets of chapter6/tftp.go as they travel through the server's      *)
(* buffers.  A datagram is a sequence of symbols: an opcode, a 16-bit       *)
(* number, the words of a text, or Nul.  Both readers of the server ignore  *)
(* the length of a datagram and decode the whole buffer, of BufSize         *)
(* symbols: Serve a fresh one for every datagram, handle the same one every *)
(* time.  So what is decoded is the datagram, cut to the buffer, over what  *)
(* the buffer held.  A client, external, reads DATA packets by their length *)
(* and decodes them with the same code.                                     *)
(***************************************************************************)
EXTENDS Naturals, Sequences, SequencesExt

CONSTANTS
    BufSize,   \* DatagramSize, in symbols
    Words,     \* what filenames and messages are made of
    Modes,     \* the modes a client names; "" asks for the default
    Numbers,   \* block numbers and error codes
    MaxText    \* bound: words in a filename or a message

\* The byte that ends a text.
Nul == "Nul"

Parameters ==
    /\ BufSize \in Nat /\ BufSize > 3 /\ MaxText \in Nat
    /\ Nul \notin Words \cup Modes

VARIABLES
    packet,    \* the packet that the last datagram carried
    port,      \* the socket it arrived at: "serve", "handle" or "client"
    got,       \* what was made of it there
    buf,       \* the buffer of the handle goroutine
    returned   \* that goroutine has returned

vars == <<packet, port, got, buf, returned>>

Zeroes(n) == [i \in 1 .. n |-> Nul]

Texts == UNION {[1 .. n -> Words] : n \in 0 .. MaxText}

Chunks == UNION {[1 .. n -> Words] : n \in 0 .. BufSize - 2}

RRQ(f, m) == [op |-> "RRQ", filename |-> f, mode |-> m]
ACK(n)    == [op |-> "ACK", num |-> n]
DATA(n, c) == [op |-> "DATA", block |-> n, chunk |-> c]
ERR(n, t) == [op |-> "ERR", code |-> n, message |-> t]
Bad       == [op |-> "BAD"]

Packets == {RRQ(f, m) : f \in Texts, m \in Modes}
             \cup {ACK(n) : n \in Numbers}
             \cup {ERR(n, t) : n \in Numbers, t \in Texts}
             \cup {DATA(n, c) : n \in Numbers, c \in Chunks}

-----------------------------------------------------------------------------
(* MarshalBinary.  Every text ends with a Nul.                              *)

MarshalRRQ(p) ==
    LET mode == IF p.mode = "" THEN "octet" ELSE p.mode
    IN  <<"RRQ">> \o p.filename \o <<Nul, mode, Nul>>
MarshalACK(p) == <<"ACK", p.num>>
\* (Mutant: the message is sent without its terminator.)
M_MarshalERR(p) == <<"ERR", p.code>> \o p.message
MarshalERR(p) == <<"ERR", p.code>> \o p.message \o <<Nul>>
MarshalDATA(p) == <<"DATA", p.block>> \o p.chunk

Marshal(p) ==
    CASE p.op = "RRQ" -> MarshalRRQ(p)
      [] p.op = "ACK" -> MarshalACK(p)
      [] p.op = "ERR" -> MarshalERR(p)
      [] p.op = "DATA" -> MarshalDATA(p)

-----------------------------------------------------------------------------
(* UnmarshalBinary of each packet: a packet, or Bad for an error.           *)

\* ReadString(0): the text up to the first Nul, and what follows it.
HasText(s) == Contains(s, Nul)
NulAt(s) == SelectInSeq(s, LAMBDA x : x = Nul)
Text(s) == SubSeq(s, 1, NulAt(s) - 1)
AfterText(s) == SubSeq(s, NulAt(s) + 1, Len(s))

\* strings.ToLower.  (Mutant: the mode is compared as it is.)
M_ToLower(mode) == mode
ToLower(mode) == IF mode \in {<<"octet">>, <<"OCTET">>} THEN <<"octet">> ELSE mode

UnmarshalRRQ(b) ==
    LET afterOp == Tail(b)
        afterName == AfterText(afterOp)
    IN  IF /\ Head(b) = "RRQ"
           /\ HasText(afterOp) /\ Text(afterOp) # <<>>
           /\ HasText(afterName) /\ ToLower(Text(afterName)) = <<"octet">>
        THEN RRQ(Text(afterOp), Head(Text(afterName)))
        ELSE Bad

UnmarshalACK(b) == IF Head(b) = "ACK" THEN ACK(b[2]) ELSE Bad

UnmarshalERR(b) ==
    LET afterCode == SubSeq(b, 3, Len(b))
    IN  IF Head(b) = "ERR" /\ HasText(afterCode)
        THEN ERR(b[2], Text(afterCode))
        ELSE Bad

\* (Mutant: a packet of exactly DatagramSize is refused.)
M_LengthOK(d) == Len(d) >= 2 /\ Len(d) < BufSize
LengthOK(d) == Len(d) >= 2 /\ Len(d) <= BufSize
UnmarshalDATA(d) ==
    IF LengthOK(d) /\ Head(d) = "DATA"
    THEN DATA(d[2], SubSeq(d, 3, Len(d)))
    ELSE Bad

-----------------------------------------------------------------------------
(* The readers.                                                             *)

\* ReadFrom or Read fills the buffer from its start and cuts what exceeds it.
Overlay(b, d) == [i \in 1 .. BufSize |-> IF i <= Len(d) THEN d[i] ELSE b[i]]

\* The switch of handle: an ACK, an ERR, or a bad packet.
Reply(b) == IF UnmarshalACK(b) # Bad THEN UnmarshalACK(b) ELSE UnmarshalERR(b)

Init ==
    /\ packet = Bad /\ got = Bad
    /\ port = "serve"
    /\ buf = Zeroes(BufSize)
    /\ returned = FALSE

\* Serve reads a datagram into a new buffer.
Serve(p) ==
    /\ packet' = p
    /\ port' = "serve"
    /\ got' = UnmarshalRRQ(Overlay(Zeroes(BufSize), Marshal(p)))
    /\ UNCHANGED <<buf, returned>>

\* handle reads a datagram into its buffer; an ERR makes it return.
Handle(p) ==
    /\ ~returned
    /\ packet' = p
    /\ port' = "handle"
    /\ buf' = Overlay(buf, Marshal(p))
    /\ got' = Reply(buf')
    /\ returned' = (got'.op = "ERR")

\* A client reads a datagram and decodes what it read.
Receive(p) ==
    /\ packet' = p
    /\ port' = "client"
    /\ got' = UnmarshalDATA(Marshal(p))
    /\ UNCHANGED <<buf, returned>>

\* Another read request: a new goroutine has a buffer of its own.
NewHandle ==
    /\ returned
    /\ returned' = FALSE
    /\ buf' = Zeroes(BufSize)
    /\ UNCHANGED <<packet, port, got>>

Next == NewHandle \/ \E p \in Packets : Serve(p) \/ Handle(p) \/ Receive(p)

Spec == Init /\ [][Next]_vars

-----------------------------------------------------------------------------
Symbols ==
    {"RRQ", "ACK", "ERR", "DATA", "octet", Nul} \cup Words \cup Modes \cup Numbers

TypeOK ==
    /\ packet \in Packets \cup {Bad}
    /\ port \in {"serve", "handle", "client"}
    /\ got.op \in {"RRQ", "ACK", "ERR", "DATA", "BAD"}
    /\ buf \in [1 .. BufSize -> Symbols]
    /\ returned \in BOOLEAN

Fits(p) == Len(Marshal(p)) <= BufSize

\* Serve accepts exactly the read requests for a named file in octet mode (in
\* any letter case), as the client meant them; one that is cut by the buffer
\* is rejected, never taken for a shorter name or mode.
ServeAcceptsRequests ==
    port = "serve" /\ packet # Bad =>
        IF /\ packet.op = "RRQ" /\ Fits(packet)
           /\ packet.filename # <<>> /\ packet.mode \in {"", "octet", "OCTET"}
        THEN got = [packet EXCEPT !.mode = IF @ = "" THEN "octet" ELSE @]
        ELSE got = Bad

\* handle recognises every ACK and ERR that fits its buffer for what it is,
\* whatever earlier and longer datagrams left there, and nothing else.
DirtyBufferIsHarmless ==
    port = "handle" =>
        IF packet.op \in {"ACK", "ERR"} /\ Fits(packet) THEN got = packet ELSE got = Bad

\* A DATA packet reaches a client with its number and its chunk, from the empty
\* last one to a full one, which tells it that more will come; nothing else
\* passes for one.
DataArrives ==
    port = "client" => got = IF packet.op = "DATA" THEN packet ELSE Bad

=============================================================================
