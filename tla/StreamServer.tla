---------------------------- MODULE StreamServer ----------------------------
(***************************************************************************)
(* The echo servers over streams: Server of chapter11/server.go, and the    *)
(* streamingEchoServer of chapter7/server.go, which is the same without     *)
(* certificates, Ready and deadlines (maxIdle = 0).  One goroutine accepts  *)
(* connections, one waits for the context and closes the listener, and one  *)
(* per connection reads and writes back.                                    *)
(*                                                                         *)
(* TCP, TLS and the clients are external.  A stream is a sequence of units, *)
(* numbered from 1 on each connection; a socket holds at most Cap of them   *)
(* each way, and a Write blocks on a full one.  Time is counted in ticks,   *)
(* for the deadlines alone.                                                 *)
(***************************************************************************)
EXTENDS Naturals, Sequences, SequencesExt

CONSTANTS
    Conns,     \* connections: a bound
    MaxUnits,  \* bound: units that clients send in all
    Cap,       \* capacity of a socket buffer
    MaxIdle    \* a server's deadline in ticks, if it sets one

Parameters ==
    MaxUnits \in Nat /\ Cap \in Nat \ {0} /\ MaxIdle \in Nat \ {0}

VARIABLES
    ctxDone,  \* the context is cancelled
    listener, \* "none", "open", "closed"
    closer,   \* the goroutine that closes the listener: "none", "wait", "done"
    serve,    \* ListenAndServeTLS: "listen", "load", "accept", "returned"
    ready,    \* the channel s.ready is closed
    maxIdle,  \* s.maxIdle in ticks; 0 sets no deadline
    conn,     \* each connection, or the goroutine that handles it
    ticks,    \* ticks until its deadline
    units,    \* units its client has sent
    inb,      \* units in the socket, to be read
    held,     \* buf[:n]: units read and not written back yet
    outb,     \* units written, to be received by the client
    got,      \* units the client has received
    hungUp    \* the client has closed the connection

serverVars == <<ctxDone, listener, closer, serve, ready, maxIdle>>
clientVars == <<units, got, hungUp>>
vars == <<serverVars, conn, ticks, inb, held, outb, clientVars>>

\* The iteration of a connection's goroutine: SetDeadline, Read, Write.
Handling == {"deadline", "read", "write"}

Units(n) == [i \in 1 .. n |-> i]

TypeOK ==
    /\ ctxDone \in BOOLEAN /\ ready \in BOOLEAN
    /\ listener \in {"none", "open", "closed"}
    /\ closer \in {"none", "wait", "done"}
    /\ serve \in {"listen", "load", "accept", "returned"}
    /\ maxIdle \in {0, MaxIdle}
    /\ conn \in [Conns -> {"none", "queued", "closed"} \cup Handling]
    /\ ticks \in [Conns -> 0 .. MaxIdle]
    /\ units \in [Conns -> Nat] /\ hungUp \in [Conns -> BOOLEAN]
    /\ inb \in [Conns -> Seq(Nat)] /\ held \in [Conns -> Seq(Nat)]
    /\ outb \in [Conns -> Seq(Nat)] /\ got \in [Conns -> Seq(Nat)]
    /\ \A c \in Conns :
          /\ Len(inb[c]) <= Cap /\ Len(outb[c]) <= Cap
          /\ Len(got[c]) <= units[c]

Init ==
    /\ ctxDone = FALSE /\ ready = FALSE
    /\ listener = "none" /\ closer = "none" /\ serve = "listen"
    /\ maxIdle = 0
    /\ conn = [c \in Conns |-> "none"]
    /\ ticks = [c \in Conns |-> 0]
    /\ units = [c \in Conns |-> 0]
    /\ inb = [c \in Conns |-> <<>>]
    /\ held = [c \in Conns |-> <<>>]
    /\ outb = [c \in Conns |-> <<>>]
    /\ got = [c \in Conns |-> <<>>]
    /\ hungUp = [c \in Conns |-> FALSE]

-----------------------------------------------------------------------------
(* ListenAndServeTLS and ServeTLS.                                          *)

connVars == <<conn, ticks, inb, held, outb, clientVars>>

\* A server, with a deadline or without: net.Listen, and the goroutine that
\* will close the listener.  (Mutant: there is no such goroutine.)
M_Listen ==
    /\ serve = "listen"
    /\ maxIdle' \in {0, MaxIdle}
    /\ listener' = "open" /\ closer' = "none"
    /\ serve' = "load"
    /\ UNCHANGED <<ctxDone, ready, connVars>>
Listen ==
    /\ serve = "listen"
    /\ maxIdle' \in {0, MaxIdle}
    /\ listener' = "open" /\ closer' = "wait"
    /\ serve' = "load"
    /\ UNCHANGED <<ctxDone, ready, connVars>>

\* The certificate is loaded: close(s.ready).
Load ==
    /\ serve = "load"
    /\ ready' = TRUE
    /\ serve' = "accept"
    /\ UNCHANGED <<ctxDone, listener, closer, maxIdle, connVars>>

\* Accept returns a connection: a goroutine handles it.
Accept ==
    /\ serve = "accept" /\ listener = "open"
    /\ \E c \in Conns :
          /\ conn[c] = "queued"
          /\ conn' = [conn EXCEPT ![c] = "deadline"]
    /\ UNCHANGED <<serverVars, ticks, inb, held, outb, clientVars>>

\* Accept fails since the listener is closed: ServeTLS returns.
AcceptClosed ==
    /\ serve = "accept" /\ listener = "closed"
    /\ serve' = "returned"
    /\ UNCHANGED <<ctxDone, listener, closer, ready, maxIdle, connVars>>

\* Any other error also makes ListenAndServeTLS return: the listener stays as
\* it is, and s.ready too.
ServeFail ==
    /\ serve # "returned"
    /\ serve' = "returned"
    /\ UNCHANGED <<ctxDone, listener, closer, ready, maxIdle, connVars>>

\* <-s.ctx.Done(); l.Close(), which resets the connections in its backlog.
Close ==
    /\ closer = "wait" /\ ctxDone
    /\ closer' = "done" /\ listener' = "closed"
    /\ conn' = [c \in Conns |-> IF conn[c] = "queued" THEN "closed" ELSE conn[c]]
    /\ UNCHANGED <<ctxDone, serve, ready, maxIdle, ticks, inb, held, outb, clientVars>>

-----------------------------------------------------------------------------
(* The goroutine of a connection.                                           *)

TimedOut(c) == maxIdle > 0 /\ ticks[c] = 0

\* conn.SetDeadline(time.Now().Add(s.maxIdle)), for Read and Write alike.
SetDeadline(c) ==
    /\ conn[c] = "deadline"
    /\ ticks' = [ticks EXCEPT ![c] = maxIdle]
    /\ conn' = [conn EXCEPT ![c] = "read"]
    /\ UNCHANGED <<serverVars, inb, held, outb, clientVars>>

\* n, err := conn.Read(buf)
Read(c) ==
    /\ conn[c] = "read" /\ ~TimedOut(c)
    /\ \E n \in 1 .. Len(inb[c]) :
          /\ held' = [held EXCEPT ![c] = SubSeq(inb[c], 1, n)]
          /\ inb' = [inb EXCEPT ![c] = SubSeq(@, n + 1, Len(@))]
    /\ conn' = [conn EXCEPT ![c] = "write"]
    /\ UNCHANGED <<serverVars, ticks, outb, clientVars>>

\* conn.Write(buf[:n]) puts a unit into the socket, or is done.
\* (Mutants: it does not continue after a partial write; it starts over.)
M_Rest(b) == <<>>
M_RestAll(b) == b
Rest(b) == Tail(b)
Write(c) ==
    /\ conn[c] = "write" /\ ~TimedOut(c)
    /\ IF held[c] = <<>>
       THEN /\ conn' = [conn EXCEPT ![c] = "deadline"]
            /\ UNCHANGED <<held, outb>>
       ELSE /\ Len(outb[c]) < Cap
            /\ outb' = [outb EXCEPT ![c] = Append(@, Head(held[c]))]
            /\ held' = [held EXCEPT ![c] = Rest(@)]
            /\ UNCHANGED conn
    /\ UNCHANGED <<serverVars, ticks, inb, clientVars>>

\* Read or Write returns an error: a deadline that has passed, the end of the
\* client's stream, or a client that has gone.  The deferred Close follows.
\* (Mutant: the deadline does not apply to a blocked Write.)
M_Failed(c) ==
    \/ conn[c] = "read" /\ TimedOut(c)
    \/ conn[c] = "read" /\ inb[c] = <<>> /\ hungUp[c]
    \/ conn[c] = "write" /\ hungUp[c]
Failed(c) ==
    \/ conn[c] \in {"read", "write"} /\ TimedOut(c)
    \/ conn[c] = "read" /\ inb[c] = <<>> /\ hungUp[c]
    \/ conn[c] = "write" /\ hungUp[c]
\* A socket that is closed with data to be read in it is reset, and what it
\* has not sent yet may be lost.
Fail(c) ==
    /\ Failed(c)
    /\ conn' = [conn EXCEPT ![c] = "closed"]
    /\ outb' \in IF inb[c] = <<>> THEN {outb}
                 ELSE {[outb EXCEPT ![c] = SubSeq(@, 1, n)] : n \in 0 .. Len(outb[c])}
    /\ UNCHANGED <<serverVars, ticks, inb, held, clientVars>>

-----------------------------------------------------------------------------
(* The clients, their sockets, time, and the owner of the context (external).*)

Connect(c) ==
    /\ conn[c] = "none" /\ listener = "open"
    /\ conn' = [conn EXCEPT ![c] = "queued"]
    /\ UNCHANGED <<serverVars, ticks, inb, held, outb, clientVars>>

Send(c) ==
    /\ conn[c] \in {"queued"} \cup Handling /\ ~hungUp[c]
    /\ SumFunction(units) < MaxUnits /\ Len(inb[c]) < Cap
    /\ units' = [units EXCEPT ![c] = @ + 1]
    /\ inb' = [inb EXCEPT ![c] = Append(@, units[c] + 1)]
    /\ UNCHANGED <<serverVars, conn, ticks, held, outb, got, hungUp>>

Receive(c) ==
    /\ outb[c] # <<>> /\ ~hungUp[c]
    /\ got' = [got EXCEPT ![c] = Append(@, Head(outb[c]))]
    /\ outb' = [outb EXCEPT ![c] = Tail(@)]
    /\ UNCHANGED <<serverVars, conn, ticks, inb, held, units, hungUp>>

Leave(c) ==
    /\ conn[c] \in {"queued"} \cup Handling /\ ~hungUp[c]
    /\ hungUp' = [hungUp EXCEPT ![c] = TRUE]
    /\ UNCHANGED <<serverVars, conn, ticks, inb, held, outb, units, got>>

Tick ==
    /\ \E c \in Conns : ticks[c] > 0
    /\ ticks' = [c \in Conns |-> IF ticks[c] > 0 THEN ticks[c] - 1 ELSE 0]
    /\ UNCHANGED <<serverVars, conn, inb, held, outb, clientVars>>

Cancel ==
    /\ ~ctxDone
    /\ ctxDone' = TRUE
    /\ UNCHANGED <<listener, closer, serve, ready, maxIdle, connVars>>

ServeNext == Listen \/ Load \/ Accept \/ AcceptClosed

Handle(c) == SetDeadline(c) \/ Read(c) \/ Write(c) \/ Fail(c)

Next ==
    \/ ServeNext \/ ServeFail \/ Close
    \/ \E c \in Conns :
          Handle(c) \/ Connect(c) \/ Send(c) \/ Receive(c) \/ Leave(c)
    \/ Tick \/ Cancel

Spec == Init /\ [][Next]_vars

\* The scheduler runs every goroutine, time passes; the clients may do nothing,
\* and no error is bound to happen.
FairSpec ==
    /\ Spec
    /\ WF_vars(ServeNext) /\ WF_vars(Close) /\ WF_vars(Tick)
    /\ \A c \in Conns : WF_vars(Handle(c))

-----------------------------------------------------------------------------
\* Every unit a client sent is, in its order, received, on its way back, in the
\* goroutine's buffer, or still to be read: short reads and blocked writes
\* lose, repeat or reorder nothing while the connection lives, and what a
\* client has received of one that was closed is a prefix of what it sent.
EchoIsFaithful ==
    \A c \in Conns :
        /\ conn[c] # "closed" =>
              got[c] \o outb[c] \o held[c] \o inb[c] = Units(units[c])
        /\ IsPrefix(got[c], Units(units[c]))

\* To a client the server is a delivery of its own units: a step gives it the
\* next one that it sent, and takes none back, whatever is closed meanwhile.
Echoes == INSTANCE Delivery
    WITH Senders <- Conns, offered <- [c \in Conns |-> Units(units[c])],
         taken <- got
EchoIsDelivery == Echoes!Spec

\* Cancelling the context ends ListenAndServeTLS, wherever it is.
CancelStopsServing == ctxDone ~> serve = "returned"

\* A client that does not send, or does not read what it is sent, is
\* disconnected: with a deadline no goroutine is blocked for good.
IdleIsClosed ==
    \A c \in Conns :
        conn[c] \in Handling /\ maxIdle > 0 ~> conn[c] = "closed"

\* Without a deadline every unit comes back to a client that keeps reading,
\* whatever became of the listener.
EverythingComesBack ==
    \A c \in Conns :
        [](maxIdle = 0) /\ []<>(outb[c] = <<>>) =>
            (conn[c] \in Handling ~> (Len(got[c]) = units[c] \/ hungUp[c]))

=============================================================================
