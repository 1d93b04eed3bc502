-------------------------------- MODULE TLV --------------------------------
(***************************************************************************)
(* The type-length-value stream of chapter4/tlv.go: one side sends Binary   *)
(* and String payloads with WriteTo over a connection, the other calls      *)
(* decode until it returns an error.  The connection is a byte stream: it   *)
(* keeps the order of bytes and forgets where a Write ended, and a Read     *)
(* returns any number of the bytes that have arrived, at least one.  A byte *)
(* is a number; the four bytes of the length are one number on the wire,    *)
(* since binary.Read waits for all of them.                                 *)
(***************************************************************************)
EXTENDS Naturals, Sequences, SequencesExt

CONSTANTS
    Bodies,         \* the contents of the payloads that are sent
    MaxPayloadSize, \* the largest size that ReadFrom accepts
    MaxMessages     \* bound: payloads sent

BinaryType == 1
StringType == 2
Types == {BinaryType, StringType}

Parameters ==
    MaxPayloadSize \in Nat /\ MaxMessages \in Nat /\ Bodies \subseteq Seq(Nat)

VARIABLES
    sent,     \* the payloads WriteTo was called for
    wpc,      \* the next Write of WriteTo: "type", "size", "body"
    closed,   \* the sender has closed the connection
    wire,     \* bytes written and not read
    rpc,      \* decode: "type", "size", "body", or its end: "eof", "failed"
    typ,      \* the type byte that decode has read
    size,     \* the length that ReadFrom has read
    decoded,  \* the payloads decode has returned
    short     \* history: a Read of a payload returned fewer bytes than asked

vars == <<sent, wpc, closed, wire, rpc, typ, size, decoded, short>>

writerVars == <<sent, wpc, closed>>
readerVars == <<rpc, typ, size, decoded, short>>

Payloads == [typ : Types, body : Bodies]

TypeOK ==
    /\ sent \in Seq(Payloads)
    /\ wpc \in {"type", "size", "body"}
    /\ closed \in BOOLEAN /\ short \in BOOLEAN
    /\ wire \in Seq(Nat)
    /\ rpc \in {"type", "size", "body", "eof", "failed"}
    /\ typ \in Types /\ size \in Nat
    /\ decoded \in Seq([typ : Types, body : Seq(Nat)])
    /\ rpc = "body" => size <= MaxPayloadSize

Init ==
    /\ sent = <<>> /\ wpc = "type" /\ closed = FALSE
    /\ wire = <<>>
    /\ rpc = "type" /\ typ = BinaryType /\ size = 0
    /\ decoded = <<>> /\ short = FALSE

-----------------------------------------------------------------------------
(* WriteTo, three calls of Write.                                           *)

\* The length field.  (Mutant: it counts the whole record.)
M_Length(m) == 1 + Len(m.body)
Length(m) == Len(m.body)

WriteType ==
    /\ ~closed /\ wpc = "type"
    /\ Len(sent) < MaxMessages
    /\ \E m \in Payloads :
          /\ sent' = Append(sent, m)
          /\ wire' = Append(wire, m.typ)
    /\ wpc' = "size"
    /\ UNCHANGED <<closed, readerVars>>

WriteSize ==
    /\ ~closed /\ wpc = "size"
    /\ wire' = Append(wire, Length(Last(sent)))
    /\ wpc' = "body"
    /\ UNCHANGED <<sent, closed, readerVars>>

WriteBody ==
    /\ ~closed /\ wpc = "body"
    /\ wire' = wire \o Last(sent).body
    /\ wpc' = "type"
    /\ UNCHANGED <<sent, closed, readerVars>>

\* A Write fails, after some of its bytes, and the sender gives up; or it has
\* sent all it wants to.  The connection is closed.
WriterCloses ==
    /\ ~closed
    /\ closed' = TRUE
    /\ wire' \in {wire} \cup
         (IF wpc = "body"
          THEN {wire \o SubSeq(Last(sent).body, 1, k) :
                   k \in 0 .. Len(Last(sent).body)}
          ELSE {})
    /\ UNCHANGED <<sent, wpc, readerVars>>

-----------------------------------------------------------------------------
(* decode.                                                                  *)

\* The bytes ReadFrom reads after decode has taken the type byte: the
\* MultiReader puts it back in front.  (Mutant: it does not.)
M_Reinject(t, w) == w
Reinject(t, w) == <<t>> \o w

\* decode reads the type byte and calls the ReadFrom of that type, which
\* reads the same byte again.
ReadType ==
    /\ rpc = "type" /\ wire # <<>>
    /\ typ' = IF Head(wire) \in Types THEN Head(wire) ELSE typ
    /\ LET rest == Reinject(Head(wire), Tail(wire))
       IN  IF Head(wire) \in Types /\ rest # <<>> /\ Head(rest) = Head(wire)
           THEN rpc' = "size" /\ wire' = Tail(rest)
           ELSE rpc' = "failed" /\ wire' = Tail(wire)
    /\ UNCHANGED <<writerVars, size, decoded, short>>

\* The length; ErrMaxPayloadSize if it is too large.
\* (Mutant: the limit is not checked.)
M_SizeOK(n) == TRUE
SizeOK(n) == n <= MaxPayloadSize
ReadSize ==
    /\ rpc = "size" /\ wire # <<>>
    /\ size' = Head(wire)
    /\ wire' = Tail(wire)
    /\ rpc' = IF SizeOK(Head(wire)) THEN "body" ELSE "failed"
    /\ UNCHANGED <<writerVars, typ, decoded, short>>

\* One Read into a buffer of size zero bytes: it need not fill the buffer.
\* A Read of no bytes returns at once.
ReadBody ==
    /\ rpc = "body"
    /\ \E k \in 0 .. size :
          /\ k <= Len(wire) /\ (k = 0 => size = 0)
          /\ decoded' = Append(decoded,
                [typ |-> typ,
                 body |-> [i \in 1 .. size |-> IF i <= k THEN wire[i] ELSE 0]])
          /\ wire' = SubSeq(wire, k + 1, Len(wire))
          /\ short' = (short \/ k < size)
    /\ rpc' = "type"
    /\ UNCHANGED <<writerVars, typ, size>>

\* Nothing more will come.  A read that gets no byte at all returns io.EOF,
\* inside a payload too; one that gets a part of the length another error.
ReadEOF ==
    /\ closed /\ wire = <<>>
    /\ \/ rpc = "type" /\ rpc' = "eof"
       \/ rpc = "size" /\ rpc' \in {"eof", "failed"}
       \/ rpc = "body" /\ size > 0 /\ rpc' = "eof"
    /\ UNCHANGED <<writerVars, wire, typ, size, decoded, short>>

ReaderNext == ReadType \/ ReadSize \/ ReadBody \/ ReadEOF

Next == WriteType \/ WriteSize \/ WriteBody \/ WriterCloses \/ ReaderNext

Spec == Init /\ [][Next]_vars

-----------------------------------------------------------------------------
\* As long as every Read fills its buffer, decode returns the payloads that
\* were sent, in order and with their own types, whatever partial write ended
\* the stream.
FaithfulUntilShortRead == ~short => IsPrefix(decoded, sent)

\* If decode ends with io.EOF and every Read filled its buffer, every payload
\* whose WriteTo was completed has been returned, and of one that was cut
\* nothing or all: io.EOF does not tell whether there was one.
EofMeansAll ==
    rpc = "eof" /\ ~short =>
        decoded = sent \/ (wpc # "type" /\ decoded = Front(sent))

\* Until a Read is short, the stream delivers the payloads: a step of decode
\* returns the next one that was sent, or none.
Sender == {"WriteTo"}
Payload == INSTANCE Delivery
    WITH Senders <- Sender, offered <- [s \in Sender |-> sent],
         taken <- [s \in Sender |-> decoded]
StreamIsDelivery == Payload!Init /\ [][short' \/ Payload!Next]_(Payload!vars)

\* README: TLV lets the remote node "constitute the same type on the remote
\* node from the series of bytes"; TestPayloads: payloads are decoded back into
\* what was sent, for as long as the sender goes on.
DecodesWhatWasSent == ~closed => IsPrefix(decoded, sent)

=============================================================================
