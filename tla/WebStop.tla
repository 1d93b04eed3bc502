------------------------------ MODULE WebStop ------------------------------
(***************************************************************************)
(* How the HTTP servers stop: run of chapter9/push.go, which on an          *)
(* interrupt calls Shutdown and waits for it before it returns, and run of  *)
(* chapter10/backend.go, which calls Close and returns as soon as           *)
(* ListenAndServe does.  When run returns, main does, and the process ends. *)
(* backend.go asks for the signal before it calls run, push.go in the       *)
(* goroutine that run starts: an interrupt before that kills the process.   *)
(*                                                                         *)
(* net/http (Go 1.23) is external.  Shutdown closes the listener, waits for *)
(* ListenAndServe to leave its accept loop, then closes connections as they *)
(* become idle until there are none; Close closes everything.  A connection *)
(* carries one request at a time, and a handler takes its time.             *)
(***************************************************************************)
EXTENDS Integers

CONSTANTS
    Conns,        \* connections: a bound
    MaxRequests   \* bound: requests on each connection

Parameters == MaxRequests \in Nat

VARIABLES
    graceful, \* push.go, which calls Shutdown; otherwise backend.go and Close
    run,      \* "serve", "wait" (for done), "returned", "killed" (by a signal)
    err,      \* what ListenAndServe returned: "none", "closed", "failed"
    listener, \* "none", "open", "closed"
    stopper,  \* the goroutine: "start", "signal", "shutdown", "idle", "exited"
    done,     \* the channel done is closed
    signals,  \* interrupts in the channel c, of capacity 1
    conn,     \* each connection: "none", "idle", "active", "closed"
    request,  \* its request: "none", "sent", "handled", "answered", "lost", "cut"
    count     \* requests sent on it

runVars == <<graceful, run, err, listener>>
stopVars == <<stopper, done, signals>>
connVars == <<conn, request, count>>
vars == <<runVars, stopVars, connVars>>

TypeOK ==
    /\ graceful \in BOOLEAN
    /\ run \in {"serve", "wait", "returned", "killed"}
    /\ err \in {"none", "closed", "failed"}
    /\ listener \in {"none", "open", "closed"}
    /\ stopper \in {"start", "signal", "shutdown", "idle", "exited"}
    /\ done \in BOOLEAN /\ signals \in 0 .. 1
    /\ conn \in [Conns -> {"none", "idle", "active", "closed"}]
    /\ request \in
         [Conns -> {"none", "sent", "handled", "answered", "lost", "cut"}]
    /\ count \in [Conns -> 0 .. MaxRequests]
    /\ \A c \in Conns : conn[c] = "active" <=> request[c] = "handled"

Init ==
    /\ graceful \in BOOLEAN
    /\ run = "serve" /\ err = "none" /\ listener = "none"
    /\ stopper = (IF graceful THEN "start" ELSE "signal")
    /\ done = FALSE /\ signals = 0
    /\ conn = [c \in Conns |-> "none"]
    /\ request = [c \in Conns |-> "none"]
    /\ count = [c \in Conns |-> 0]

\* The process has not ended.
Up == run \notin {"returned", "killed"}

\* Neither Shutdown nor Close has been called.
NotStopped == stopper \in {"start", "signal"}

\* What becomes of the requests on connections that are closed: one that a
\* handler has begun is cut, one that no handler has seen is lost.
Ended(closing) ==
    /\ conn' = [c \in Conns |-> IF c \in closing THEN "closed" ELSE conn[c]]
    /\ request' = [c \in Conns |->
          IF c \in closing /\ request[c] = "handled" THEN "cut"
          ELSE IF c \in closing /\ request[c] = "sent" THEN "lost"
          ELSE request[c]]
    /\ UNCHANGED count

OpenConns == {c \in Conns : conn[c] \in {"idle", "active"}}

-----------------------------------------------------------------------------
(* ListenAndServe, and the rest of run.                                     *)

\* It listens, unless Shutdown or Close came first.
Listen ==
    /\ run = "serve" /\ listener = "none" /\ NotStopped
    /\ listener' = "open"
    /\ UNCHANGED <<graceful, run, err, stopVars, connVars>>

\* After ListenAndServe: push.go waits for done, backend.go returns and the
\* process ends.  (Mutant: run does not wait for Shutdown to return.)
M_AfterServe ==
    /\ run' = "returned"
    /\ Ended(OpenConns)
AfterServe ==
    IF graceful
    THEN run' = "wait" /\ UNCHANGED connVars
    ELSE run' = "returned" /\ Ended(OpenConns)

\* http.ErrServerClosed, which run turns into nil.
ServeClosed ==
    /\ run = "serve" /\ ~NotStopped
    /\ err' = "closed"
    /\ AfterServe
    /\ UNCHANGED <<graceful, listener, stopVars>>

\* Any other error: the address is in use, or Accept fails.
ServeFail ==
    /\ run = "serve" /\ NotStopped
    /\ err' = "failed"
    /\ listener' = "closed"
    /\ AfterServe
    /\ UNCHANGED <<graceful, stopVars>>

\* <-done; return err.
Return ==
    /\ run = "wait" /\ done
    /\ run' = "returned"
    /\ Ended(OpenConns)
    /\ UNCHANGED <<graceful, err, listener, stopVars>>

-----------------------------------------------------------------------------
(* The goroutine that waits for the signal.                                 *)

\* signal.Notify(c, os.Interrupt).
Notify ==
    /\ Up /\ stopper = "start"
    /\ stopper' = "signal"
    /\ UNCHANGED <<runVars, done, signals, connVars>>

\* <-c == os.Interrupt: Shutdown or Close begins by closing the listener, and
\* Close goes on to close every connection.
TakeSignal ==
    /\ Up /\ stopper = "signal" /\ signals > 0
    /\ signals' = signals - 1
    /\ listener' = "closed"
    /\ IF graceful
       THEN stopper' = "shutdown" /\ UNCHANGED connVars
       ELSE stopper' = "exited" /\ Ended(OpenConns)
    /\ UNCHANGED <<graceful, run, err, done>>

\* Shutdown waits for the accept loop.
AcceptLoopLeft ==
    /\ Up /\ stopper = "shutdown" /\ run # "serve"
    /\ stopper' = "idle"
    /\ UNCHANGED <<runVars, done, signals, connVars>>

\* Shutdown closes the connections that are idle.
Idle == {c \in Conns : conn[c] = "idle"}
CloseIdle ==
    /\ Up /\ stopper = "idle" /\ Idle # {}
    /\ Ended(Idle)
    /\ UNCHANGED <<runVars, stopVars>>

\* No connection is left: Shutdown returns; close(done).
\* (Mutant: done is not closed.)
M_CloseDone ==
    /\ Up /\ stopper = "idle" /\ OpenConns = {}
    /\ stopper' = "exited"
    /\ UNCHANGED <<runVars, done, signals, connVars>>
CloseDone ==
    /\ Up /\ stopper = "idle" /\ OpenConns = {}
    /\ stopper' = "exited" /\ done' = TRUE
    /\ UNCHANGED <<runVars, signals, connVars>>

-----------------------------------------------------------------------------
(* The clients, the handlers, and whoever sends the signal (external).      *)

Connect(c) ==
    /\ Up /\ listener = "open" /\ conn[c] = "none"
    /\ conn' = [conn EXCEPT ![c] = "idle"]
    /\ UNCHANGED <<runVars, stopVars, request, count>>

SendRequest(c) ==
    /\ conn[c] = "idle" /\ request[c] \in {"none", "answered"}
    /\ count[c] < MaxRequests
    /\ count' = [count EXCEPT ![c] = @ + 1]
    /\ request' = [request EXCEPT ![c] = "sent"]
    /\ UNCHANGED <<runVars, stopVars, conn>>

Handle(c) ==
    /\ Up /\ conn[c] = "idle" /\ request[c] = "sent"
    /\ conn' = [conn EXCEPT ![c] = "active"]
    /\ request' = [request EXCEPT ![c] = "handled"]
    /\ UNCHANGED <<runVars, stopVars, count>>

Answer(c) ==
    /\ Up /\ conn[c] = "active"
    /\ conn' = [conn EXCEPT ![c] = "idle"]
    /\ request' = [request EXCEPT ![c] = "answered"]
    /\ UNCHANGED <<runVars, stopVars, count>>

\* Ctrl-C; signal.Notify drops it if the channel is full.
Interrupt ==
    /\ Up /\ stopper # "start"
    /\ signals' = 1
    /\ UNCHANGED <<runVars, stopper, done, connVars>>

\* Ctrl-C that nobody has asked to be notified of.
InterruptKills ==
    /\ Up /\ stopper = "start"
    /\ run' = "killed"
    /\ Ended(OpenConns)
    /\ UNCHANGED <<graceful, err, listener, stopVars>>

RunNext == Listen \/ ServeClosed \/ Return
Stopper == Notify \/ TakeSignal \/ AcceptLoopLeft \/ CloseIdle \/ CloseDone

Next ==
    \/ RunNext \/ ServeFail \/ Stopper \/ Interrupt \/ InterruptKills
    \/ \E c \in Conns : Connect(c) \/ SendRequest(c) \/ Handle(c) \/ Answer(c)

Spec == Init /\ [][Next]_vars

\* The scheduler runs both goroutines, and every handler comes to an end; no
\* error is bound to happen.
FairSpec ==
    /\ Spec
    /\ WF_vars(RunNext) /\ WF_vars(Stopper)
    /\ \A c \in Conns : WF_vars(Answer(c))

-----------------------------------------------------------------------------
\* push.go's comment on Shutdown: the server has "the opportunity to finish
\* sending responses before stopping".  No request that a handler has begun is
\* cut, neither by Shutdown nor by the end of the process, unless the interrupt
\* came before signal.Notify.
NoRequestCut ==
    graceful /\ run # "killed" => \A c \in Conns : request[c] # "cut"

\* An interrupt stops the server, if only its handlers end: run returns, though
\* Shutdown, ListenAndServe and run wait for each other.
InterruptStops == signals = 1 /\ stopper = "signal" ~> run = "returned"

=============================================================================
