------------------------------- MODULE Rosie -------------------------------
(***************************************************************************)
(* The chore service of chapter12/server/robot.go under the concurrent      *)
(* clients of chapter12/client/client.go, each of which adds chores or      *)
(* completes one and then lists them.  Add, Complete and List hold a mutex, *)
(* but what List returns still points to the service's chores: gRPC encodes *)
(* it after List has unlocked, chore by chore, while others change them.    *)
(*                                                                         *)
(* gRPC and protobuf (1.36) are external.  Every call runs in a goroutine   *)
(* of its own, and calls that overlap do so in any order.  The size of each *)
(* chore is computed first and cached in the chore; a complete chore is     *)
(* longer, and one whose encoding has not the cached size makes the call    *)
(* fail.  A call may also fail because the connection is lost, whether or   *)
(* not the service has executed it.                                         *)
(***************************************************************************)
EXTENDS Integers, Sequences

CONSTANTS
    Clients,   \* runs of the client: a bound
    MaxBatch,  \* bound: chores in one Add
    Typed,     \* bound: the numbers typed after "complete"
    Wrap       \* 2^32 in the code: a chore number is an int32

Parameters ==
    /\ MaxBatch \in Nat /\ Typed \subseteq Int
    /\ Wrap \in Nat /\ Wrap = 2 * (Wrap \div 2) /\ MaxBatch < Wrap \div 2

VARIABLES
    chores,  \* r.chores: whose Add each came with, and whether complete
    stage,   \* where each client is, or the service's List for it
    kind,    \* the command
    typed,   \* the number in the command
    number,  \* the chores of the Add, or the number in the CompleteRequest
    len,     \* the length of the slice that List returned
    sized,   \* the chores of it whose size was computed
    cached,  \* the sizeCache of each chore: whether the mark is in it
    reply,   \* the chores of the response encoded so far
    atList   \* history: the chores when List held the mutex

encodeVars == <<sized, cached, reply>>
vars == <<chores, stage, kind, typed, number, len, encodeVars, atList>>

Chore == [by : Clients, complete : BOOLEAN]

Working == {"command", "list", "size", "encode"}
Over == {"ok", "error", "unavailable"}

TypeOK ==
    /\ chores \in Seq(Chore)
    /\ stage \in [Clients -> Working \cup Over]
    /\ kind \in [Clients -> {"none", "add", "complete"}]
    /\ typed \in [Clients -> Typed \cup {0}]
    /\ number \in [Clients -> -(Wrap \div 2) .. Wrap \div 2 - 1]
    /\ len \in [Clients -> Nat]
    /\ sized \in [Clients -> Nat]
    /\ cached \in Seq(BOOLEAN) /\ Len(cached) = Len(chores)
    /\ reply \in [Clients -> Seq(Chore)]
    /\ atList \in [Clients -> Seq(Chore)]
    /\ \A c \in Clients : Len(reply[c]) <= sized[c] /\ sized[c] <= len[c]
                         /\ len[c] <= Len(chores)

Init ==
    /\ chores = <<>>
    /\ stage = [c \in Clients |-> "command"]
    /\ kind = [c \in Clients |-> "none"]
    /\ typed = [c \in Clients |-> 0]
    /\ number = [c \in Clients |-> 0]
    /\ len = [c \in Clients |-> 0]
    /\ sized = [c \in Clients |-> 0] /\ cached = <<>>
    /\ reply = [c \in Clients |-> <<>>]
    /\ atList = [c \in Clients |-> <<>>]

-----------------------------------------------------------------------------
(* The command, and the call it makes.  The mutex makes each call one step. *)

Command(c, k, n, next) ==
    /\ stage[c] = "command"
    /\ kind' = [kind EXCEPT ![c] = k]
    /\ number' = [number EXCEPT ![c] = n]
    /\ stage' = [stage EXCEPT ![c] = next]

\* No command, or an add without chores: no call is made.
Nothing(c) ==
    /\ Command(c, "none", 0, "list")
    /\ UNCHANGED <<chores, typed, len, encodeVars, atList>>

\* (Mutant: a batch replaces the list.)
M_Appended(c, n) == [i \in 1 .. n |-> [by |-> c, complete |-> FALSE]]
Appended(c, n) == chores \o [i \in 1 .. n |-> [by |-> c, complete |-> FALSE]]

Add(c) ==
    /\ \E n \in 1 .. MaxBatch :
          /\ Command(c, "add", n, "list")
          /\ chores' = Appended(c, n)
          /\ cached' = [i \in 1 .. Len(chores') |->
                           IF i <= Len(cached) THEN cached[i] ELSE FALSE]
    /\ UNCHANGED <<typed, len, sized, reply, atList>>

\* int32(i).  (Mutant: the number keeps its width.)
M_Int32(i) == i
Int32(i) == ((i + Wrap \div 2) % Wrap) - Wrap \div 2

\* (Mutant: completing a chore twice makes it incomplete.)
M_Marked(l, n) == [l EXCEPT ![n].complete = ~@]
Marked(l, n) == [l EXCEPT ![n].complete = TRUE]

\* An error ends the client before it lists.
Complete(c) ==
    /\ \E i \in Typed :
          /\ typed' = [typed EXCEPT ![c] = i]
          /\ IF Int32(i) \in 1 .. Len(chores)
             THEN /\ Command(c, "complete", Int32(i), "list")
                  /\ chores' = Marked(chores, Int32(i))
             ELSE /\ Command(c, "complete", Int32(i), "error")
                  /\ UNCHANGED chores
    /\ UNCHANGED <<len, encodeVars, atList>>

-----------------------------------------------------------------------------
(* List, and the response to it.                                            *)

\* List returns the slice itself.
List(c) ==
    /\ stage[c] = "list"
    /\ stage' = [stage EXCEPT ![c] = "size"]
    /\ len' = [len EXCEPT ![c] = Len(chores)]
    /\ atList' = [atList EXCEPT ![c] = chores]
    /\ UNCHANGED <<chores, kind, typed, number, encodeVars>>

\* The size of the next chore of the response, for this call and for any other
\* that has still to encode the same chore.
Size(c) ==
    /\ stage[c] = "size"
    /\ IF sized[c] < len[c]
       THEN LET i == sized[c] + 1
            IN  /\ sized' = [sized EXCEPT ![c] = i]
                /\ cached' = [cached EXCEPT ![i] = chores[i].complete]
                /\ UNCHANGED stage
       ELSE /\ stage' = [stage EXCEPT ![c] = "encode"]
            /\ UNCHANGED <<sized, cached>>
    /\ UNCHANGED <<chores, kind, typed, number, len, reply, atList>>

\* The next chore is encoded, if it has its size still.
Encode(c) ==
    /\ stage[c] = "encode"
    /\ LET i == Len(reply[c]) + 1
       IN  \/ /\ i <= len[c] /\ cached[i] = chores[i].complete
              /\ reply' = [reply EXCEPT ![c] = Append(@, chores[i])]
              /\ UNCHANGED stage
           \/ /\ i <= len[c] /\ cached[i] # chores[i].complete
              /\ stage' = [stage EXCEPT ![c] = "error"]
              /\ UNCHANGED reply
           \/ /\ i > len[c]
              /\ stage' = [stage EXCEPT ![c] = "ok"]
              /\ UNCHANGED reply
    /\ UNCHANGED <<chores, kind, typed, number, len, sized, cached, atList>>

\* The connection is lost: the client ends with the error of its call.
Unavailable(c) ==
    /\ stage[c] \in Working
    /\ stage' = [stage EXCEPT ![c] = "unavailable"]
    /\ UNCHANGED <<chores, kind, typed, number, len, encodeVars, atList>>

Next ==
    \E c \in Clients :
        \/ Nothing(c) \/ Add(c) \/ Complete(c)
        \/ List(c) \/ Size(c) \/ Encode(c) \/ Unavailable(c)

Spec == Init /\ [][Next]_vars

-----------------------------------------------------------------------------
\* The service is a chore list that is never lost: whatever overlaps, and
\* whichever clients fail, its chores change by whole calls only.
ChoresOf == INSTANCE ChoreList WITH list <- chores, lost <- FALSE
ServiceIsChoreList == ChoresOf!Spec

\* Every Add that was executed has all its chores in the list, together and in
\* its own place, however the calls overlapped.
AddsAreKept ==
    \A c \in Clients :
        kind[c] = "add" =>
            \E i \in 0 .. Len(chores) - number[c] :
                \A j \in 1 .. Len(chores) :
                    chores[j].by = c <=> j \in i + 1 .. i + number[c]

\* A response that is encoded while other calls change the list has exactly
\* the chores List saw, under the same numbers; of each it shows the mark List
\* saw or a later one, never one that was not set, or does not last.  And it
\* fails to be encoded only if a chore was completed meanwhile.
ResponseIsBounded ==
    \A c \in Clients : stage[c] \in Over =>
        /\ stage[c] = "ok" =>
              /\ Len(reply[c]) = Len(atList[c])
              /\ \A i \in DOMAIN reply[c] :
                    /\ reply[c][i].by = atList[c][i].by
                    /\ atList[c][i].complete => reply[c][i].complete
                    /\ reply[c][i].complete => chores[i].complete
        /\ stage[c] = "error" /\ len[c] > 0 =>
              \E i \in DOMAIN atList[c] : chores[i].complete /\ ~atList[c][i].complete

\* A client that ends well has seen what it did in the list it shows: the
\* chores it added, all of them, or the mark it set, which is on the chore that
\* was typed if an int32 holds its number.
ClientSeesItsChange ==
    \A c \in Clients : stage[c] = "ok" =>
        /\ kind[c] = "complete" =>
              /\ reply[c][number[c]].complete
              /\ typed[c] \in -(Wrap \div 2) .. Wrap \div 2 - 1 =>
                    number[c] = typed[c]
        /\ kind[c] = "add" =>
              \A i \in DOMAIN chores :
                  chores[i].by = c => i \in DOMAIN reply[c] /\ reply[c][i].by = c

\* client.go's usage: "complete designated chore".  A client whose Complete
\* succeeds has completed the chore whose number was typed.
CompletesWhatWasTyped ==
    \A c \in Clients :
        kind[c] = "complete" /\ stage[c] \in {"list", "size", "encode", "ok"} =>
            number[c] = typed[c]

-----------------------------------------------------------------------------
(* Why these hold: what is true of every client at every step.              *)

\* What List handed out is still there, and only completed since; so is what
\* was encoded of it, and a size cached for it.
Listed(c) ==
    /\ stage[c] \in {"command", "list"} => len[c] = 0
    /\ Len(atList[c]) = len[c]
    /\ \A i \in 1 .. len[c] :
          /\ atList[c][i].by = chores[i].by
          /\ atList[c][i].complete => chores[i].complete
    /\ \A i \in 1 .. sized[c] : atList[c][i].complete => cached[i]
    /\ stage[c] \in {"encode", "ok"} => sized[c] = len[c]
    /\ \A i \in 1 .. Len(reply[c]) :
          /\ reply[c][i].by = chores[i].by
          /\ atList[c][i].complete => reply[c][i].complete
          /\ reply[c][i].complete => chores[i].complete
    /\ stage[c] = "ok" => Len(reply[c]) = len[c]
    /\ stage[c] = "error" /\ len[c] > 0 =>
          \E i \in 1 .. len[c] : chores[i].complete /\ ~atList[c][i].complete

\* What a client did is in the list, and in what List handed out to it.
Done(c) ==
    /\ stage[c] = "command" => kind[c] = "none"
    /\ kind[c] = "add" =>
          /\ number[c] \in Nat
          /\ stage[c] \in {"size", "encode", "ok"} =>
                \A j \in 1 .. Len(chores) : chores[j].by = c => j <= len[c]
    /\ kind[c] # "add" => \A j \in 1 .. Len(chores) : chores[j].by # c
    /\ kind[c] = "complete" =>
          /\ stage[c] \in {"list", "size", "encode", "ok"} =>
                number[c] \in 1 .. Len(chores) /\ chores[number[c]].complete
          /\ stage[c] \in {"size", "encode", "ok"} =>
                number[c] <= len[c] /\ atList[c][number[c]].complete

\* The inductive invariant: the cached sizes never know of a mark that is not
\* set, and each client has what Listed and Done say.
IndInv ==
    /\ TypeOK
    /\ \A i \in 1 .. Len(chores) : cached[i] => chores[i].complete
    /\ \A c \in Clients : Listed(c) /\ Done(c)
    /\ AddsAreKept
=============================================================================
