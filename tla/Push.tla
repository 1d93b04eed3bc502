-------------------------------- MODULE Push --------------------------------
(***************************************************************************)
(* Server push, the handler of "/" in chapter9/push.go: it pushes the       *)
(* resources of the page and then serves the page.                          *)
(*                                                                         *)
(* net/http's server and the browser are external: Push sends a promise, or *)
(* returns an error when the client allows no push or no further one; over  *)
(* HTTP/1.1, where the writer is no Pusher, none succeeds either.  A pushed *)
(* request goes to the same mux in a goroutine of its own.  The frames of   *)
(* the page's stream arrive in order, those of the others whenever they do. *)
(* The client asks for a resource when it meets its name in the page,       *)
(* unless it was promised it.                                               *)
(***************************************************************************)
EXTENDS Naturals, Sequences

CONSTANT Targets  \* targets, a sequence

Parameters ==
    /\ Targets \in Seq({Targets[i] : i \in DOMAIN Targets})
    /\ \A i, j \in DOMAIN Targets : i # j => Targets[i] # Targets[j]

VARIABLES
    at,       \* how many targets the handler has been through
    served,   \* the handler has served the page
    stream,   \* frames of the page's stream on their way to the client
    work,     \* resources that are being answered, pushed or asked for
    promised, \* resources the client was promised
    page,     \* the client has the page
    asked,    \* resources the client has asked for
    loaded    \* how often the client was sent each resource

vars == <<at, served, stream, work, promised, page, asked, loaded>>

Resources == {Targets[i] : i \in DOMAIN Targets}
PageFrame == [kind |-> "page"]
Promise(t) == [kind |-> "promise", resource |-> t]

TypeOK ==
    /\ at \in 0 .. Len(Targets) /\ served \in BOOLEAN /\ page \in BOOLEAN
    /\ stream \in Seq({PageFrame} \cup {Promise(t) : t \in Resources})
    /\ work \subseteq Resources /\ promised \subseteq Resources
    /\ asked \subseteq Resources
    /\ loaded \in [Resources -> Nat]

Init ==
    /\ at = 0 /\ served = FALSE /\ stream = <<>> /\ work = {}
    /\ promised = {} /\ page = FALSE /\ asked = {}
    /\ loaded = [t \in Resources |-> 0]

\* Where the loop is after a push that failed.  (Mutant: the handler returns.)
M_AfterError == Len(Targets) + 1
AfterError == at + 1

\* One turn of the loop: an error is logged and the next target has its turn.
PushTarget ==
    /\ at < Len(Targets)
    /\ LET t == Targets[at + 1] IN
       \/ /\ at' = at + 1
          /\ stream' = Append(stream, Promise(t)) /\ work' = work \cup {t}
       \/ at' = AfterError /\ UNCHANGED <<stream, work>>
    /\ UNCHANGED <<served, promised, page, asked, loaded>>

\* When http.ServeFile has its turn.  (Mutant: before the resources are pushed.)
M_Pushed == at < Len(Targets)
Pushed == at = Len(Targets)

ServeFile ==
    /\ ~served /\ Pushed
    /\ served' = TRUE
    /\ stream' = Append(stream, PageFrame)
    /\ UNCHANGED <<at, work, promised, page, asked, loaded>>

\* The mux answers a request of the client's or a pushed one.
Answer(t) ==
    /\ t \in work
    /\ work' = work \ {t}
    /\ loaded' = [loaded EXCEPT ![t] = @ + 1]
    /\ UNCHANGED <<at, served, stream, promised, page, asked>>

ReceiveFrame ==
    /\ stream # <<>>
    /\ stream' = Tail(stream)
    /\ IF Head(stream).kind = "page"
       THEN page' = TRUE /\ UNCHANGED promised
       ELSE promised' = promised \cup {Head(stream).resource} /\ UNCHANGED page
    /\ UNCHANGED <<at, served, work, asked, loaded>>

Ask(t) ==
    /\ page /\ t \notin promised \cup asked
    /\ asked' = asked \cup {t}
    /\ work' = work \cup {t}
    /\ UNCHANGED <<at, served, stream, promised, page, loaded>>

Next ==
    \/ PushTarget \/ ServeFile \/ ReceiveFrame
    \/ \E t \in Resources : Answer(t) \/ Ask(t)

Spec == Init /\ [][Next]_vars

-----------------------------------------------------------------------------
\* push.go: "If, instead, you sent the index.html file before pushing the
\* associated resources, the client's browser may send requests for the
\* associated resources before it handles the pushes" -- so in the end the page
\* has each resource, and has been sent it once, by a push or, if the push
\* failed, on request.
PageCompletes == <>[](page /\ \A t \in Resources : loaded[t] = 1)
=============================================================================
