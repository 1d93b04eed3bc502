----------------------------- MODULE ChoreList -----------------------------
(***************************************************************************)
(* What the chore lists of chapter 12 promise: a list that changes by whole *)
(* commands only.  A client adds its chores together and at the end, where  *)
(* they keep their numbers, and a chore once completed stays so.  A store   *)
(* that is lost promises nothing more.                                      *)
(*                                                                         *)
(* Housework implements it for the command with its data file, Rosie for    *)
(* the service, each with a refinement mapping for list and lost.           *)
(***************************************************************************)
EXTENDS Naturals, Sequences

VARIABLES
    list,  \* the chores, each with the client it is by, and whether complete
    lost   \* the store was lost

vars == <<list, lost>>

Init == list = <<>> /\ lost = FALSE

\* A client whose chores are not in the list yet adds some.
Add ==
    /\ Len(list') > Len(list)
    /\ SubSeq(list', 1, Len(list)) = list
    /\ \A i \in Len(list) + 1 .. Len(list') :
          /\ ~list'[i].complete
          /\ list'[i].by = list'[Len(list')].by
          /\ \A j \in 1 .. Len(list) : list[j].by # list'[i].by

Complete ==
    \E i \in DOMAIN list : list' = [list EXCEPT ![i].complete = TRUE]

Next ==
    \/ ~lost' /\ ~lost /\ (Add \/ Complete)
    \/ lost'

Spec == Init /\ [][Next]_vars

=============================================================================
