------------------------------- MODULE Proxy -------------------------------
(***************************************************************************)
(* The TCP proxy of chapter4/proxy.go, as proxyConn and the proxy server of *)
(* proxy_test.go run it: the calling goroutine copies from the source       *)
(* connection to the destination ("main"), a second goroutine copies the    *)
(* other way ("back"), and when the first copy ends the function returns    *)
(* and its deferred calls close both connections.                           *)
(*                                                                         *)
(* The client, the destination server and TCP are external.  The client     *)
(* sends requests and the server sends one reply for each; a request or a   *)
(* reply is one unit of its stream, and the units in each place are         *)
(* counted.  Either peer may close at any time.  A connection is reset when *)
(* its peer closes with data it has not read, or is sent data after it has  *)
(* closed; from then on a read or a write of the proxy fails, at once or    *)
(* after some that still succeed.                                           *)
(***************************************************************************)
EXTENDS Naturals

CONSTANTS
    Requests       \* bound: requests the client sends

Parameters == Requests \in Nat

VARIABLES
    asked,     \* requests the client has sent
    clientEnd, \* the client's: "open", "fin" when it has shut down only its
               \* sending side, "closed", or "reset"
    up1,       \* requests between the client and the proxy
    mainPc,    \* "read", "write", or "returned"
    mainBuf,   \* what io.Copy has read and not written
    up2,       \* requests between the proxy and the server
    served,    \* requests the server has replied to
    serverEnd, \* the server's: "open", "closed", or "reset"
    down1,     \* replies between the server and the proxy
    backPc,    \* "read", "write", or "ended"
    backBuf,   \* what the other io.Copy has read and not written
    down2,     \* replies between the proxy and the client
    answered   \* replies the client has received

clientVars == <<asked, clientEnd, answered>>
mainVars == <<mainPc, mainBuf>>
backVars == <<backPc, backBuf>>
serverVars == <<served, serverEnd>>
vars == <<clientVars, up1, mainVars, up2, serverVars, down1, backVars, down2>>

Count == 0 .. Requests

TypeOK ==
    /\ asked \in Count /\ answered \in Count /\ served \in Count
    /\ clientEnd \in {"open", "fin", "closed", "reset"}
    /\ serverEnd \in {"open", "closed", "reset"}
    /\ up1 \in Count /\ up2 \in Count /\ down1 \in Count /\ down2 \in Count
    /\ mainPc \in {"read", "write", "returned"} /\ mainBuf \in Count
    /\ backPc \in {"read", "write", "ended"} /\ backBuf \in Count

Init ==
    /\ asked = 0 /\ answered = 0 /\ served = 0
    /\ clientEnd = "open" /\ serverEnd = "open"
    /\ up1 = 0 /\ up2 = 0 /\ down1 = 0 /\ down2 = 0
    /\ mainPc = "read" /\ mainBuf = 0
    /\ backPc = "read" /\ backBuf = 0

\* Both connections are open: the function has not returned.
Open == mainPc # "returned"

\* The client reads what comes.
ClientReads == clientEnd \in {"open", "fin"}

-----------------------------------------------------------------------------
(* _, err = io.Copy(connDst, connSrc)                                       *)

\* The return runs the deferred Close calls.  A connection that is closed
\* with data in it that was not read is reset, and the reset may overtake
\* data sent the other way.
Return ==
    /\ mainPc' = "returned"
    /\ mainBuf' = 0
    /\ down2' \in IF up1 > 0 THEN 0 .. down2 ELSE {down2}
    /\ up2' \in IF down1 > 0 THEN 0 .. up2 ELSE {up2}

MainRead ==
    /\ mainPc = "read"
    /\ \E k \in 1 .. up1 : mainBuf' = k /\ up1' = up1 - k
    /\ mainPc' = "write"
    /\ UNCHANGED <<clientVars, up2, serverVars, down1, backVars, down2>>

\* The client's end of file, once all it sent is read, or a reset connection:
\* the copy is over.
MainEnd ==
    /\ mainPc = "read"
    /\ \/ up1 = 0 /\ clientEnd # "open"
       \/ clientEnd = "reset"
    /\ Return
    /\ UNCHANGED <<clientVars, up1, serverVars, down1, backVars>>

MainWrite ==
    /\ mainPc = "write"
    /\ mainPc' = "read"
    /\ mainBuf' = 0
    /\ up2' = IF serverEnd = "open" THEN up2 + mainBuf ELSE up2
    /\ serverEnd' = IF serverEnd = "open" THEN "open" ELSE "reset"
    /\ UNCHANGED <<clientVars, up1, served, down1, backVars, down2>>

MainWriteFail ==
    /\ mainPc = "write"
    /\ serverEnd = "reset"
    /\ Return
    /\ UNCHANGED <<clientVars, up1, serverVars, down1, backVars>>

-----------------------------------------------------------------------------
(* go func() { io.Copy(connSrc, connDst) }()                                *)

BackRead ==
    /\ backPc = "read" /\ Open
    /\ \E k \in 1 .. down1 : backBuf' = k /\ down1' = down1 - k
    /\ backPc' = "write"
    /\ UNCHANGED <<clientVars, up1, mainVars, up2, serverVars, down2>>

\* (Mutant: a short write is not followed up.)
M_Written(n) == IF n > 1 THEN n - 1 ELSE n
Written(n) == n
BackWrite ==
    /\ backPc = "write" /\ Open
    /\ down2' = IF ClientReads THEN down2 + Written(backBuf) ELSE down2
    /\ clientEnd' = IF ClientReads THEN clientEnd ELSE "reset"
    /\ backPc' = "read"
    /\ backBuf' = 0
    /\ UNCHANGED <<asked, answered, up1, mainVars, up2, serverVars, down1>>

\* The copy is over, whatever main is doing: nobody reads the server's replies
\* from here on, and what was in the buffer is lost.
BackWriteFail ==
    /\ backPc = "write"
    /\ clientEnd = "reset"
    /\ backPc' = "ended"
    /\ backBuf' = 0
    /\ UNCHANGED <<clientVars, up1, mainVars, up2, serverVars, down1, down2>>

\* The server's end of file, a reset connection, or connections that main has
\* closed.  (Mutant: main leaves the connections open.)
M_BackEnd ==
    /\ backPc = "read"
    /\ \/ down1 = 0 /\ serverEnd # "open"
       \/ serverEnd = "reset"
    /\ backPc' = "ended"
    /\ UNCHANGED <<clientVars, up1, mainVars, up2, serverVars, down1, backBuf,
                   down2>>
BackEnd ==
    /\ \/ backPc = "read" /\ down1 = 0 /\ serverEnd # "open"
       \/ backPc = "read" /\ serverEnd = "reset"
       \/ backPc # "ended" /\ ~Open
    /\ backPc' = "ended"
    /\ backBuf' = 0
    /\ UNCHANGED <<clientVars, up1, mainVars, up2, serverVars, down1, down2>>

-----------------------------------------------------------------------------
(* The client and the server (external).                                    *)

ClientSend ==
    /\ asked < Requests /\ clientEnd = "open"
    /\ asked' = asked + 1
    /\ up1' = IF Open THEN up1 + 1 ELSE up1
    /\ UNCHANGED <<clientEnd, answered, mainVars, up2, serverVars, down1, backVars,
                   down2>>

\* The client shuts its sending side down and waits for replies.
ClientFin ==
    /\ clientEnd = "open"
    /\ clientEnd' = "fin"
    /\ UNCHANGED <<asked, answered, up1, mainVars, up2, serverVars, down1,
                   backVars, down2>>

\* It closes its connection, with its requests sent and answered or not.
ClientClose ==
    /\ ClientReads
    /\ clientEnd' = IF down2 > 0 THEN "reset" ELSE "closed"
    /\ down2' = 0
    /\ UNCHANGED <<asked, answered, up1, mainVars, up2, serverVars, down1, backVars>>

ClientReceive ==
    /\ down2 > 0
    /\ down2' = down2 - 1
    /\ answered' = answered + 1
    /\ UNCHANGED <<asked, clientEnd, up1, mainVars, up2, serverVars, down1, backVars>>

ServerReply ==
    /\ up2 > 0 /\ serverEnd = "open"
    /\ up2' = up2 - 1
    /\ served' = served + 1
    /\ down1' = IF Open THEN down1 + 1 ELSE down1
    /\ UNCHANGED <<clientVars, up1, mainVars, serverEnd, backVars, down2>>

ServerClose ==
    /\ serverEnd = "open"
    /\ serverEnd' = IF up2 > 0 THEN "reset" ELSE "closed"
    /\ up2' = 0
    /\ UNCHANGED <<clientVars, up1, mainVars, served, down1, backVars, down2>>

ProxyMain == MainRead \/ MainEnd \/ MainWrite \/ MainWriteFail
ProxyBack == BackRead \/ BackWrite \/ BackWriteFail \/ BackEnd

Next ==
    \/ ProxyMain \/ ProxyBack
    \/ ClientSend \/ ClientFin \/ ClientClose \/ ClientReceive
    \/ ServerReply \/ ServerClose

Spec == Init /\ [][Next]_vars

\* The scheduler runs both goroutines; the peers read what reaches them, and
\* a client that has all its replies closes in the end.
FairSpec ==
    /\ Spec
    /\ WF_vars(ProxyMain) /\ WF_vars(ProxyBack)
    /\ WF_vars(ClientReceive) /\ WF_vars(ServerReply)
    /\ WF_vars(answered = Requests /\ (ClientFin \/ ClientClose))

-----------------------------------------------------------------------------
(* Whatever the two copies, the peers and the resets do, no reply comes     *)
(* twice and none is made up.  None is lost while the proxy runs and both   *)
(* ways out of it are sound: the client has not closed, though it may have  *)
(* shut its sending side down, and the server's connection is not reset,    *)
(* which a request sent after the server has closed is enough for.  Each    *)
(* reply is then with the client or on its way through the second io.Copy   *)
(* (proxy.go:22-28), which has not given up on it.                          *)
Replied == answered + down2 + backBuf + down1
NoReplyLost ==
    /\ Replied <= served
    /\ Open /\ ClientReads /\ serverEnd # "reset" =>
         Replied = served /\ (backPc = "ended" => answered + down2 = served)

\* A client that keeps its side open until it has every reply gets a reply to
\* each request (proxy_test.go: replies "are proxied back to the clients"), if
\* the server does not close first: the end of one copy takes nothing from the
\* other.
RepliesArrive ==
    /\ [](clientEnd # "open" => answered = Requests)
    /\ [](serverEnd # "open" => ~Open)
    => (asked = Requests ~> answered = Requests)

\* proxyConn's comment on the second goroutine: it is not leaked, since io.Copy
\* returns once the function has returned and its connections are closed.
NoLeak == ~Open ~> backPc = "ended"

\* The same comment on io.Copy: it "will return when either connection is
\* closed".  The first copy returns after the server has closed.
ReturnsWhenServerCloses == serverEnd # "open" ~> ~Open

=============================================================================
