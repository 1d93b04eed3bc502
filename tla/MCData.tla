------------------------------- MODULE MCData -------------------------------
(***************************************************************************)
(* TLC instances of how data is read, changed and answered: the type-       *)
(* length-value stream of chapter 4, the TFTP packets of chapter 6, the     *)
(* requests and paths of chapters 9 and 13 and of the Caddy module, and the *)
(* data file of chapter 12.  They share nothing, so a behaviour follows one *)
(* of them, and the others stay in one first state.                         *)
(***************************************************************************)
EXTENDS Naturals, Sequences, TLC

CONSTANTS Bodies, MaxPayloadSize, MaxMessages,
          BufSize, Words, Modes, Numbers, MaxText,
          MaxBody, MaxCalls,
          Segments, Configs, StartsWith(_, _), MaxSegments,
          Procs, Storages, Concurrent, MayStop, MaxBatch

VARIABLES
    sent, wpc, closed, wire, rpc, typ, size, decoded, short,
    packet, port, got, buf, returned,
    wrap, next, nils, method, left, gone, pc, w, calls, logged,
    path, prefix, web, caddy,
    storage, file, proc, op, memory, damage, ledger,
    follow  \* "stream", "packets", "response", "path" or "file"

Stream == INSTANCE TLV
Codec == INSTANCE TFTPCodec
Response == INSTANCE Responses
Path == INSTANCE PathRestrict
Command == INSTANCE Housework WITH pc <- proc

ASSUME DataParameters ==
    /\ Stream!Parameters /\ Codec!Parameters /\ Response!Parameters
    /\ Path!Parameters /\ Command!Parameters

streamVars == <<sent, wpc, closed, wire, rpc, typ, size, decoded, short>>
packetVars == <<packet, port, got, buf, returned>>
responseVars == <<wrap, next, nils, method, left, gone, pc, w, calls, logged>>
pathVars == <<path, prefix, web, caddy>>
fileVars == <<storage, file, proc, op, memory, damage, ledger>>
vars == <<streamVars, packetVars, responseVars, pathVars, fileVars, follow>>

Init ==
    /\ follow \in {"stream", "packets", "response", "path", "file"}
    /\ Stream!Init /\ Codec!Init /\ Response!Init
    /\ Path!Init /\ (follow = "path" \/ prefix = ".")
    /\ Command!Init /\ (follow = "file" \/ storage = "proto")

Next ==
    \/ /\ follow = "stream" /\ Stream!Next
       /\ UNCHANGED <<packetVars, responseVars, pathVars, fileVars, follow>>
    \/ /\ follow = "packets" /\ Codec!Next
       /\ UNCHANGED <<streamVars, responseVars, pathVars, fileVars, follow>>
    \/ /\ follow = "response" /\ Response!Next
       /\ UNCHANGED <<streamVars, packetVars, pathVars, fileVars, follow>>
    \/ /\ follow = "path" /\ Path!Next
       /\ UNCHANGED <<streamVars, packetVars, responseVars, fileVars, follow>>
    \/ /\ follow = "file" /\ Command!Next
       /\ UNCHANGED <<streamVars, packetVars, responseVars, pathVars, follow>>

Spec == Init /\ [][Next]_vars

-----------------------------------------------------------------------------
(* The properties, which the modules state and explain.                     *)

\* The types of the variables of all of them.
TypeOK ==
    /\ Stream!TypeOK /\ Codec!TypeOK /\ Response!TypeOK
    /\ Path!TypeOK /\ Command!TypeOK

\* tlv.go: decode returns what WriteTo was given, and io.EOF comes after every
\* payload that was completed.
StreamIsFaithful == Stream!FaithfulUntilShortRead /\ Stream!EofMeansAll

\* tlv.go: a step of decode returns the next payload of WriteTo, or none.
StreamIsDelivery == Stream!StreamIsDelivery

\* tlv.go, with nothing assumed of Read.
DecodesWhatWasSent == Stream!DecodesWhatWasSent

\* tftp.go: a request, a reply and a block are decoded for what they are,
\* whatever the buffer they were read into holds besides.
PacketsAreRead ==
    /\ Codec!ServeAcceptsRequests
    /\ Codec!DirtyBufferIsHarmless
    /\ Codec!DataArrives

\* chapter9/handler.go, chapter13/wide.go: a client that is refused learns which
\* methods there are, and the wide event tells the status and the length that were
\* sent in exactly the cases in which its writer can know them.
AnswersAreTold == Response!AllowIsSent /\ Response!LoggedAsSentIff

\* chapter9/middleware.go and the Caddy module: hidden files stay hidden, and
\* Caddy refuses what chapter 9 refuses.
NoHiddenFile == Path!NoHiddenFile /\ Path!CaddyIsStricter

\* homework.go: the file is the list the completed commands stand for, what was
\* added is in it still unless flush was cut short, and a command shows the
\* change it made.
FileIsLedger ==
    /\ Command!FileIsLedger
    /\ Command!PersistUnlessDamaged
    /\ Command!ShowsItsChange

\* homework.go: the file is a chore list.
CommandIsChoreList == Command!CommandIsChoreList

-----------------------------------------------------------------------------
\* Payloads that are empty, that could pass for a header, and one larger than
\* the receiver accepts.
SomeBodies == {<<>>, <<1>>, <<2, 1>>, <<3, 3, 3, 3>>}

\* An empty segment, those that path.Clean treats on their own, a hidden name,
\* and two others, one of them a prefix to configure.
SomeSegments == {"", ".", "..", ".git", "hiking.svg", "private"}
SomePrefixes == {"", ".", "private"}

\* strings.HasPrefix on these segments and prefixes.
SomeStartsWith(s, q) ==
    q = "" \/ s = q \/ (q = "." /\ s \in {".", "..", ".git"})

\* Processes differ in name only.
Symmetry == Permutations(Procs)
=============================================================================
