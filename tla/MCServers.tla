------------------------------ MODULE MCServers ------------------------------
(***************************************************************************)
(* TLC instances of what runs for as long as its peers like: the echo       *)
(* servers over streams (chapters 7 and 11) and over datagrams (chapters 5  *)
(* and 7), the TCP proxy of chapter 4, the stop of the web servers of       *)
(* chapters 9 and 10, the push of chapter 9, and the Pinger of chapter 3.   *)
(* They share nothing, so a behaviour follows one of them, and the others   *)
(* stay in one first state.                                                 *)
(***************************************************************************)
EXTENDS Integers, Sequences

CONSTANTS Conns, MaxUnits, Cap, MaxIdle,
          Clients, Size, Lengths, MaxSent, MaxDoubled, Room,
          Requests,
          MaxRequests,
          Targets,
          Durations, Default, MaxResets

VARIABLES
    ctxDone, listener, closer, serve, ready, maxIdle,
    conn, ticks, units, inb, held, outb, got, hungUp,
    network, open, file, cancelled, queue, pc, buf, n, clientAddr,
    sent, inbox, unread, left, doubled,
    asked, clientEnd, up1, mainPc, mainBuf, up2, served, serverEnd,
    down1, backPc, backBuf, down2, answered,
    graceful, run, err, socket, stopper, done, signals, peer, request, count,
    at, pageServed, stream, work, promised, page, wanted, loaded,
    ping, interval, timer, armedFor, reset, resets, stopped, closed, lastAsked,
    follow  \* "stream", "datagram", "proxy", "stop", "push" or "pinger"

Stream == INSTANCE StreamServer
Datagram == INSTANCE DatagramEcho
Relay == INSTANCE Proxy
Stop == INSTANCE WebStop WITH listener <- socket, conn <- peer
Pushes == INSTANCE Push WITH served <- pageServed, asked <- wanted
Heartbeat == INSTANCE Pinger
    WITH pc <- ping, cancelled <- stopped, asked <- lastAsked

ASSUME ServerParameters ==
    /\ Stream!Parameters /\ Datagram!Parameters /\ Relay!Parameters
    /\ Stop!Parameters /\ Pushes!Parameters /\ Heartbeat!Parameters

streamVars == <<ctxDone, listener, closer, serve, ready, maxIdle,
                conn, ticks, units, inb, held, outb, got, hungUp>>
datagramVars == <<network, open, file, cancelled, queue, pc, buf, n, clientAddr,
                  sent, inbox, unread, left, doubled>>
relayVars == <<asked, clientEnd, up1, mainPc, mainBuf, up2, served, serverEnd,
               down1, backPc, backBuf, down2, answered>>
stopVars == <<graceful, run, err, socket, stopper, done, signals,
              peer, request, count>>
pushVars == <<at, pageServed, stream, work, promised, page, wanted, loaded>>
pingVars == <<ping, interval, timer, armedFor, reset, resets, stopped, closed,
              lastAsked>>
vars == <<streamVars, datagramVars, relayVars, stopVars, pushVars, pingVars,
          follow>>

Init ==
    /\ follow \in {"stream", "datagram", "proxy", "stop", "push", "pinger"}
    /\ Stream!Init /\ Datagram!Init /\ Relay!Init
    /\ Stop!Init /\ (follow = "stop" \/ graceful)
    /\ Pushes!Init /\ Heartbeat!Init

Next ==
    \/ /\ follow = "stream" /\ Stream!Next
       /\ UNCHANGED <<datagramVars, relayVars, stopVars, pushVars, pingVars, follow>>
    \/ /\ follow = "datagram" /\ Datagram!Next
       /\ UNCHANGED <<streamVars, relayVars, stopVars, pushVars, pingVars, follow>>
    \/ /\ follow = "proxy" /\ Relay!Next
       /\ UNCHANGED <<streamVars, datagramVars, stopVars, pushVars, pingVars, follow>>
    \/ /\ follow = "stop" /\ Stop!Next
       /\ UNCHANGED <<streamVars, datagramVars, relayVars, pushVars, pingVars, follow>>
    \/ /\ follow = "push" /\ Pushes!Next
       /\ UNCHANGED <<streamVars, datagramVars, relayVars, stopVars, pingVars, follow>>
    \/ /\ follow = "pinger" /\ Heartbeat!Next
       /\ UNCHANGED <<streamVars, datagramVars, relayVars, stopVars, pushVars, follow>>

\* What the FairSpec of each module assumes, of the one that is followed; of a
\* push, that the handler, the network and the browser come to an end.
FairSpec ==
    /\ Init /\ [][Next]_vars
    /\ WF_streamVars(follow = "stream" /\ Stream!ServeNext)
    /\ WF_streamVars(follow = "stream" /\ Stream!Close)
    /\ WF_streamVars(follow = "stream" /\ Stream!Tick)
    /\ \A c \in Conns : WF_streamVars(follow = "stream" /\ Stream!Handle(c))
    /\ WF_datagramVars(follow = "datagram" /\ Datagram!Loop)
    /\ WF_datagramVars(follow = "datagram" /\ Datagram!CloseSocket)
    /\ WF_datagramVars(follow = "datagram" /\ Datagram!RemoveFile)
    /\ WF_relayVars(follow = "proxy" /\ Relay!ProxyMain)
    /\ WF_relayVars(follow = "proxy" /\ Relay!ProxyBack)
    /\ WF_relayVars(follow = "proxy" /\ Relay!ClientReceive)
    /\ WF_relayVars(follow = "proxy" /\ Relay!ServerReply)
    /\ WF_relayVars(/\ follow = "proxy" /\ answered = Requests
                    /\ Relay!ClientFin \/ Relay!ClientClose)
    /\ WF_stopVars(follow = "stop" /\ Stop!RunNext)
    /\ WF_stopVars(follow = "stop" /\ Stop!Stopper)
    /\ \A c \in Conns : WF_stopVars(follow = "stop" /\ Stop!Answer(c))
    /\ WF_pushVars(follow = "push" /\ Pushes!Next)
    /\ WF_pingVars(follow = "pinger" /\ Heartbeat!PingerNext)
    /\ WF_pingVars(follow = "pinger" /\ Heartbeat!Expire)
    /\ WF_pingVars(follow = "pinger" /\ Heartbeat!WriteRead)
    /\ SF_pingVars(follow = "pinger" /\ Heartbeat!SelectDone)

-----------------------------------------------------------------------------
(* The properties, which the modules state and explain.                     *)

\* The types of the variables of all of them.
TypeOK ==
    /\ Stream!TypeOK /\ Datagram!TypeOK /\ Relay!TypeOK
    /\ Stop!TypeOK /\ Pushes!TypeOK /\ Heartbeat!TypeOK

\* chapter11/server.go, chapter7/server.go, chapter5/echo.go: what comes back is
\* what was sent; chapter4/proxy.go: what the server wrote is on its way until
\* proxyConn returns.
TrafficIsKept ==
    /\ Stream!EchoIsFaithful
    /\ Datagram!RepliesAreEchoes
    /\ Relay!NoReplyLost

\* The echo servers of chapters 7 and 11 deliver: to each client the next of
\* what it sent, in every step in which it gets anything.
EchoIsDelivery == Stream!EchoIsDelivery /\ Datagram!EchoIsDelivery

\* chapter11/server.go, chapter7/server.go: with a deadline every idle client
\* is disconnected, without one all of what was sent comes back.
StreamsEnd == Stream!IdleIsClosed /\ Stream!EverythingComesBack

\* chapter11/server.go: the context ends ListenAndServeTLS.
CancelStopsServing == Stream!CancelStopsServing

\* chapter7/server.go: each datagram to a Unix socket is answered.
StayersAreAnswered == Datagram!StayersAreAnswered

\* chapter4/proxy.go: the second goroutine of proxyConn ends.
NoLeak == Relay!NoLeak

\* chapter4/proxy.go: a client that waits for its replies gets them.
RepliesArrive == Relay!RepliesArrive

\* chapter9/push.go: Shutdown lets handlers finish, and run waits for it.
NoRequestCut == Stop!NoRequestCut

\* push.go, backend.go: an interrupt ends run.
InterruptStops == Stop!InterruptStops

\* chapter9/push.go: the page gets each resource once, whichever pushes fail.
PageCompletes == follow = "push" => Pushes!PageCompletes

\* chapter3/ping.go: pings go on, with the interval that was asked for last, and
\* a cancelled Pinger returns.
PingsUntilCancelled == Heartbeat!KeepsPinging /\ Heartbeat!CancelStopsWriter

-----------------------------------------------------------------------------
\* What ExamplePinger sends: nothing (0), a new interval, or a negative one.
ResetValues == {-1, 0, 1, 2}

\* The targets of push.go.
SomeTargets == <<"style.css", "hiking.svg">>
=============================================================================
