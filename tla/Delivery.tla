------------------------------ MODULE Delivery ------------------------------
(***************************************************************************)
(* What the programs that pass data on promise, whatever carries it: what   *)
(* is sent comes out at the other end in its order, each item once and none *)
(* left out, though perhaps not all of it, and nothing that came out is     *)
(* taken back.                                                              *)
(*                                                                         *)
(* StreamServer implements it for each connection, whose client gets back   *)
(* the units it sent; DatagramEcho on a Unix socket for each client and the *)
(* first bytes of its datagrams; TLV for one sender and its payloads.       *)
(***************************************************************************)
EXTENDS Naturals, Sequences

CONSTANT Senders

VARIABLES
    offered,  \* what each of them has sent
    taken     \* what has come out of it

vars == <<offered, taken>>

Init ==
    /\ offered = [s \in Senders |-> <<>>]
    /\ taken = [s \in Senders |-> <<>>]

\* s sends an item, whatever it is.
Offer(s) ==
    /\ Len(offered'[s]) > Len(offered[s])
    /\ offered' = [offered EXCEPT ![s] = Append(@, offered'[s][Len(@) + 1])]
    /\ UNCHANGED taken

\* The next item of s comes out.
Take(s) ==
    /\ Len(taken[s]) < Len(offered[s])
    /\ taken' = [taken EXCEPT ![s] = Append(@, offered[s][Len(@) + 1])]
    /\ UNCHANGED offered

Next == \E s \in Senders : Offer(s) \/ Take(s)

Spec == Init /\ [][Next]_vars

=============================================================================
