---------------------------- MODULE FileTransfer ----------------------------
(***************************************************************************)
(* What a file server promises, with no network in sight: a client that a   *)
(* handler serves receives the chunks 1 .. NumBlocks of the payload one by  *)
(* one and in order; a handler reports success only to a client that has    *)
(* them all, and may give up at any time.  Module TFTP implements it.       *)
(***************************************************************************)
EXTENDS Naturals, Sequences

CONSTANTS Handlers, Clients, NoClient, NumBlocks

VARIABLES
    delivered, \* delivered[c]: the chunks client c has stored
    serves,    \* serves[h]: the client of handler h
    status     \* status[h]: "none", "active", "done" or "gaveup"

vars == <<delivered, serves, status>>

Init ==
    /\ delivered = [c \in Clients |-> <<>>]
    /\ serves = [h \in Handlers |-> NoClient]
    /\ status = [h \in Handlers |-> "none"]

Accept(h, c) ==
    /\ status[h] = "none"
    /\ status' = [status EXCEPT ![h] = "active"]
    /\ serves' = [serves EXCEPT ![h] = c]
    /\ UNCHANGED delivered

\* The next chunk reaches a client; a handler that has given up since may
\* have sent it, one that has reported success has nothing left to send.
Store(c) ==
    /\ \E h \in Handlers : serves[h] = c /\ status[h] \in {"active", "gaveup"}
    /\ Len(delivered[c]) < NumBlocks
    /\ delivered' = [delivered EXCEPT ![c] = Append(@, Len(@) + 1)]
    /\ UNCHANGED <<serves, status>>

Finish(h) ==
    /\ status[h] = "active"
    /\ Len(delivered[serves[h]]) = NumBlocks
    /\ status' = [status EXCEPT ![h] = "done"]
    /\ UNCHANGED <<delivered, serves>>

GiveUp(h) ==
    /\ status[h] = "active"
    /\ status' = [status EXCEPT ![h] = "gaveup"]
    /\ UNCHANGED <<delivered, serves>>

Next ==
    \/ \E h \in Handlers : Finish(h) \/ GiveUp(h)
    \/ \E h \in Handlers, c \in Clients : Accept(h, c)
    \/ \E c \in Clients : Store(c)

Spec == Init /\ [][Next]_vars
=============================================================================
