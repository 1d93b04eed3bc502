---------------------------- MODULE Instrumented ----------------------------
(***************************************************************************)
(* The instrumented server, chapter13/instrument/server.go with its metrics *)
(* package: clients that reuse their connections send requests to a server  *)
(* that counts requests, durations, write errors and open connections, and  *)
(* main prints these when all clients are done.                             *)
(*                                                                         *)
(* net/http is external.  Its server calls ConnState with StateNew before   *)
(* it serves a connection, and with StateClosed after it has closed it; it  *)
(* keeps a short response in a buffer until the handler returns, and closes *)
(* a connection that is idle for too long.  Its client reuses a connection, *)
(* notices that an idle one was closed, and sends a GET again over a new    *)
(* connection when a reused one fails.  A GET that fails, an address in use *)
(* and an Accept that fails end in log.Fatal; the two last are left out.    *)
(***************************************************************************)
EXTENDS Integers, FiniteSets

CONSTANTS
    Clients,
    Gets,      \* requests of each client: gets
    MaxBreaks  \* bound: connections that break or time out

Parameters ==
    /\ IsFiniteSet(Clients)
    /\ Gets \in Nat \ {0}
    /\ MaxBreaks \in Nat

\* The connections, numbered as they are dialled: a client's first one, and one
\* for each that broke.
Sockets == 1 .. Cardinality(Clients) + MaxBreaks

VARIABLES
    main,      \* "waiting", "collecting", "returned" or "fatal"
    client,    \* of each client: where it is
    using,     \* of each client: its connection, or none
    gets,      \* of each client: its responses so far
    reused,    \* of each client: its connection has carried a response
    socket,    \* of each connection: where its server side is
    up,        \* the connections that work, as far as the network goes
    asked,     \* the connections with a request that is on its way
    answered,  \* the connections with a response that is on its way
    metric,    \* the four metrics
    printed,   \* what main has collected of each, -1 when nothing yet
    breaks     \* bound: connections that have broken or timed out

clientVars == <<client, using, gets, reused>>
socketVars == <<socket, up, asked, answered>>
vars == <<main, clientVars, socketVars, metric, printed, breaks>>

Metrics == {"requests", "durations", "write errors", "open connections"}
None == 0

TypeOK ==
    /\ main \in {"waiting", "collecting", "returned", "fatal"}
    /\ client \in [Clients -> {"get", "awaiting", "done"}]
    /\ using \in [Clients -> Sockets \cup {None}]
    /\ gets \in [Clients -> 0 .. Gets]
    /\ reused \in [Clients -> BOOLEAN]
    /\ socket \in [Sockets -> {"unused", "queued", "reading", "handling",
                               "flushing", "closing", "closed"}]
    /\ up \subseteq Sockets /\ asked \subseteq Sockets /\ answered \subseteq Sockets
    /\ metric \in [Metrics -> Nat]
    /\ printed \in [Metrics -> Nat \cup {-1}]
    /\ breaks \in 0 .. MaxBreaks

Init ==
    /\ main = "waiting"
    /\ client = [c \in Clients |-> "get"] /\ using = [c \in Clients |-> None]
    /\ gets = [c \in Clients |-> 0] /\ reused = [c \in Clients |-> FALSE]
    /\ socket = [k \in Sockets |-> "unused"]
    /\ up = {} /\ asked = {} /\ answered = {}
    /\ metric = [m \in Metrics |-> 0] /\ printed = [m \in Metrics |-> -1]
    /\ breaks = 0

\* The process is there.
Running == main \in {"waiting", "collecting"}

Count(m, n) == metric' = [metric EXCEPT ![m] = @ + n]

-----------------------------------------------------------------------------
(* The clients.                                                             *)

Dial(c) ==
    /\ Running /\ client[c] = "get" /\ using[c] = None
    /\ \E k \in Sockets :
          /\ socket[k] = "unused" /\ \A j \in 1 .. k - 1 : socket[j] # "unused"
          /\ socket' = [socket EXCEPT ![k] = "queued"]
          /\ up' = up \cup {k}
          /\ using' = [using EXCEPT ![c] = k]
    /\ reused' = [reused EXCEPT ![c] = FALSE]
    /\ UNCHANGED <<main, client, gets, asked, answered, metric, printed,
                   breaks>>

Send(c) ==
    /\ Running /\ client[c] = "get" /\ using[c] # None
    /\ asked' = asked \cup {using[c]}
    /\ client' = [client EXCEPT ![c] = "awaiting"]
    /\ UNCHANGED <<main, using, gets, reused, socket, up, answered, metric,
                   printed, breaks>>

\* The response with its body; wg.Done after the last one.
Receive(c) ==
    /\ Running /\ client[c] = "awaiting" /\ using[c] \in answered
    /\ answered' = answered \ {using[c]}
    /\ gets' = [gets EXCEPT ![c] = @ + 1]
    /\ client' = [client EXCEPT ![c] = IF gets[c] + 1 = Gets THEN "done" ELSE "get"]
    /\ reused' = [reused EXCEPT ![c] = TRUE]
    /\ UNCHANGED <<main, using, socket, up, asked, metric, printed, breaks>>

\* (Mutant: the goroutine returns before its wg.Done.)
M_Fatal == UNCHANGED main
Fatal == main' = "fatal"

\* The connection failed under a request: it is sent again if the connection had
\* been reused, and is log.Fatal otherwise.
Fails(c) ==
    /\ Running /\ client[c] = "awaiting" /\ using[c] \notin up \cup answered
    /\ IF reused[c]
       THEN /\ client' = [client EXCEPT ![c] = "get"]
            /\ using' = [using EXCEPT ![c] = None]
            /\ UNCHANGED main
       ELSE Fatal /\ UNCHANGED <<client, using>>
    /\ UNCHANGED <<gets, reused, socketVars, metric, printed, breaks>>

\* An idle connection is gone, and the client notices.
Drop(c) ==
    /\ Running /\ client[c] = "get" /\ using[c] \notin up \cup {None}
    /\ using' = [using EXCEPT ![c] = None]
    /\ UNCHANGED <<main, client, gets, reused, socketVars, metric, printed,
                   breaks>>

ClientNext(c) == Dial(c) \/ Send(c) \/ Receive(c) \/ Fails(c) \/ Drop(c)

-----------------------------------------------------------------------------
(* The server.                                                              *)

\* connStateMetrics: what the gauge changes by.  (Mutants: an idle connection
\* is taken for a closed one; a closed one is not taken off.)
M_ConnState(state) ==
    CASE state = "new" -> 1 [] state \in {"idle", "closed"} -> -1 [] OTHER -> 0
M_ConnStateNew(state) == IF state = "new" THEN 1 ELSE 0
ConnState(state) ==
    CASE state = "new" -> 1 [] state = "closed" -> -1 [] OTHER -> 0

Accept(k) ==
    /\ socket[k] = "queued"
    /\ Count("open connections", ConnState("new"))
    /\ socket' = [socket EXCEPT ![k] = "reading"]
    /\ UNCHANGED <<main, clientVars, up, asked, answered, printed, breaks>>

\* helloHandler begins: the request is counted.
Handle(k) ==
    /\ socket[k] = "reading" /\ k \in asked \cap up
    /\ asked' = asked \ {k}
    /\ Count("requests", 1)
    /\ socket' = [socket EXCEPT ![k] = "handling"]
    /\ UNCHANGED <<main, clientVars, up, answered, printed, breaks>>

\* Its Write goes to the buffer and returns no error; its deferred function
\* observes the duration.
Observe(k) ==
    /\ socket[k] = "handling"
    /\ Count("durations", 1)
    /\ socket' = [socket EXCEPT ![k] = "flushing"]
    /\ UNCHANGED <<main, clientVars, up, asked, answered, printed, breaks>>

\* The response leaves the buffer: the connection is idle then, or of no use.
Flush(k) ==
    /\ socket[k] = "flushing"
    /\ IF k \in up
       THEN /\ answered' = answered \cup {k}
            /\ socket' = [socket EXCEPT ![k] = "reading"]
            /\ Count("open connections", ConnState("idle"))
       ELSE /\ socket' = [socket EXCEPT ![k] = "closing"]
            /\ UNCHANGED <<answered, metric>>
    /\ UNCHANGED <<main, clientVars, up, asked, printed, breaks>>

\* The server sees the end of a connection, or one of its two timeouts.
Close(k) ==
    /\ socket[k] = "reading"
    /\ \/ k \notin up /\ UNCHANGED breaks
       \/ k \in up /\ breaks < MaxBreaks /\ breaks' = breaks + 1
    /\ up' = up \ {k}
    /\ socket' = [socket EXCEPT ![k] = "closing"]
    /\ UNCHANGED <<main, clientVars, asked, answered, metric, printed>>

\* ConnState is called with StateClosed.
Closed(k) ==
    /\ socket[k] = "closing"
    /\ Count("open connections", ConnState("closed"))
    /\ socket' = [socket EXCEPT ![k] = "closed"]
    /\ UNCHANGED <<main, clientVars, up, asked, answered, printed, breaks>>

ServerNext(k) ==
    Running /\ (Accept(k) \/ Handle(k) \/ Observe(k) \/ Flush(k) \/ Close(k) \/ Closed(k))

Break(k) ==
    /\ Running /\ k \in up /\ breaks < MaxBreaks
    /\ breaks' = breaks + 1
    /\ up' = up \ {k} /\ answered' = answered \ {k}
    /\ UNCHANGED <<main, clientVars, socket, asked, metric, printed>>

-----------------------------------------------------------------------------
(* main.                                                                    *)

\* The clients main waits for.  (Mutant: wg.Add inside the goroutines, so that
\* main may find none.)
M_AllDone == TRUE
AllDone == \A c \in Clients : client[c] = "done"

Wait ==
    /\ main = "waiting" /\ AllDone
    /\ main' = "collecting"
    /\ UNCHANGED <<clientVars, socketVars, metric, printed, breaks>>

\* The metrics server collects one metric after another, in any order.
Collect(m) ==
    /\ main = "collecting" /\ printed[m] = -1
    /\ printed' = [printed EXCEPT ![m] = metric[m]]
    /\ UNCHANGED <<main, clientVars, socketVars, metric, breaks>>

PrintAll ==
    /\ main = "collecting" /\ \A m \in Metrics : printed[m] # -1
    /\ main' = "returned"
    /\ UNCHANGED <<clientVars, socketVars, metric, printed, breaks>>

MainNext == Wait \/ (\E m \in Metrics : Collect(m)) \/ PrintAll

ProgramNext ==
    \/ \E c \in Clients : ClientNext(c)
    \/ \E k \in Sockets : ServerNext(k)
    \/ MainNext

Next == ProgramNext \/ \E k \in Sockets : Break(k)

Spec == Init /\ [][Next]_vars

-----------------------------------------------------------------------------
\* helloHandler and main: what main prints counts every response of every
\* client, in the histogram too, though the durations are observed in a deferred
\* function and main does not wait for the handlers; and nothing else, if no
\* connection broke.
MetricsAreComplete ==
    \A m \in {"requests", "durations"} : printed[m] # -1 =>
        /\ printed[m] >= Gets * Cardinality(Clients)
        /\ breaks = 0 => printed[m] = Gets * Cardinality(Clients)

\* connStateMetrics: the gauge is at least the connections that a client has
\* been answered on and that still work, and at most those dialled and not yet
\* reported closed, though it is changed from as many goroutines as there are
\* connections.
GaugeInStep ==
    LET Held == {using[c] : c \in {d \in Clients : reused[d]}}
    IN  /\ Cardinality(Held \cap up) <= metric["open connections"]
        /\ metric["open connections"] <=
               Cardinality({k \in Sockets : socket[k] \notin {"unused", "closed"}})

\* main: the WaitGroup is released and the metrics printed, whatever connections
\* break, or the program has ended in log.Fatal.
MainEnds == main = "waiting" ~> main \in {"returned", "fatal"}
=============================================================================
