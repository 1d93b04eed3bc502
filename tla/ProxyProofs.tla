----------------------------- MODULE ProxyProofs -----------------------------
(***************************************************************************)
(* Proofs about module Proxy, for every number of requests.                 *)
(***************************************************************************)
EXTENDS Proxy, TLAPS

-----------------------------------------------------------------------------
(* Why no reply is lost: units are conserved on their way in both            *)
(* directions, until a connection is closed on them.                        *)

\* The types, without the bounds that follow from conservation.
Numbers ==
    /\ asked \in Nat /\ asked <= Requests /\ served \in Nat /\ answered \in Nat
    /\ up1 \in Nat /\ up2 \in Nat /\ down1 \in Nat /\ down2 \in Nat
    /\ mainBuf \in Nat /\ backBuf \in Nat
Flags ==
    /\ clientEnd \in {"open", "fin", "closed", "reset"}
    /\ serverEnd \in {"open", "closed", "reset"}
    /\ mainPc \in {"read", "write", "returned"}
    /\ backPc \in {"read", "write", "ended"}

\* The way of a reply is sound: the proxy runs, the client reads and the server's
\* connection is not reset.
Sound == Open /\ ClientReads /\ serverEnd # "reset"

\* A request is in one place at most, and so is a reply; a reply is in one place
\* exactly as long as its way is sound.
Conserved ==
    /\ up1 + mainBuf + up2 + served <= asked
    /\ answered + down2 + backBuf + down1 <= served
    /\ Sound => answered + down2 + backBuf + down1 = served

\* The second copy has something in its buffer only while it writes.
Buffered == backPc # "write" => backBuf = 0

\* While its way is sound the second copy ends only at the server's end of file,
\* after which the server writes nothing.
GivenUp == backPc = "ended" /\ Sound => serverEnd = "closed" /\ down1 = 0

Inv == Numbers /\ Flags /\ Conserved /\ Buffered /\ GivenUp

\* What the units add up to bounds each place.
LEMMA InvTypes == Parameters /\ Inv => TypeOK
<1> SUFFICES ASSUME Parameters, Inv
             PROVE  TypeOK
  OBVIOUS
<1>1. asked <= Requests /\ Requests \in Nat
  BY DEF Parameters, Inv, Numbers
<1>2. /\ answered <= served /\ served <= asked
      /\ up1 <= asked /\ mainBuf <= asked /\ up2 <= asked
      /\ down1 <= served /\ down2 <= served /\ backBuf <= served
  BY <1>1 DEF Inv, Numbers, Conserved
<1>3. /\ asked \in Count /\ answered \in Count /\ served \in Count
      /\ up1 \in Count /\ up2 \in Count /\ down1 \in Count /\ down2 \in Count
      /\ mainBuf \in Count /\ backBuf \in Count
  BY <1>1, <1>2 DEF Inv, Numbers, Count
<1> QED
  BY <1>3 DEF Inv, Flags, TypeOK

LEMMA InvInit == Parameters /\ Init => Inv
<1> SUFFICES ASSUME Parameters, Init
             PROVE  Inv
  OBVIOUS
<1>1. Numbers /\ Flags
  <2>1. Numbers
    BY DEF Parameters, Init, Numbers
  <2>2. Flags
    BY DEF Init, Flags
  <2> QED
    BY <2>1, <2>2
<1>2. Conserved
  BY DEF Init, Conserved
<1>3. Buffered /\ GivenUp
  BY DEF Init, Buffered, GivenUp
<1> QED
  BY <1>1, <1>2, <1>3 DEF Inv

\* Taking units away from two places keeps what they add up to below the bound.
LEMMA LessAddsUp ==
    ASSUME NEW a \in Nat, NEW b \in Nat, NEW c \in Nat, NEW d \in Nat,
           NEW total \in Nat, NEW b1 \in Nat, NEW c1 \in Nat,
           b1 <= b, c1 <= c, a + b + c + d <= total
    PROVE  a + b1 + c1 + d <= total
  OBVIOUS

\* The function returns: what was on its way may be lost, and the connections are
\* not open any more.
LEMMA ReturnKeeps ==
    ASSUME Inv, Return, UNCHANGED <<clientVars, up1, serverVars, down1, backVars>>
    PROVE  Inv'
<1>1. down2' \in Nat /\ down2' <= down2 /\ up2' \in Nat /\ up2' <= up2
  BY DEF Inv, Numbers, Return
<1>2. mainBuf' = 0 /\ mainPc' = "returned"
  BY DEF Return
<1>3. Numbers' /\ Flags'
  <2>1. Numbers'
    BY <1>1, <1>2 DEF Inv, Numbers, clientVars, serverVars, backVars
  <2>2. Flags'
    BY <1>2 DEF Inv, Flags, clientVars, serverVars, backVars
  <2> QED
    BY <2>1, <2>2
<1>4. Conserved'
  <2>1. /\ up1' = up1 /\ served' = served /\ asked' = asked
        /\ answered' = answered /\ backBuf' = backBuf /\ down1' = down1
    BY DEF clientVars, serverVars, backVars
  <2>2. /\ up1 \in Nat /\ up2 \in Nat /\ down1 \in Nat /\ down2 \in Nat
        /\ asked \in Nat /\ served \in Nat /\ answered \in Nat
        /\ mainBuf \in Nat /\ backBuf \in Nat
    BY DEF Inv, Numbers
  <2>3. /\ up1 + mainBuf + up2 + served <= asked
        /\ answered + down2 + backBuf + down1 <= served
    BY DEF Inv, Conserved
  <2>4. mainBuf' \in Nat /\ mainBuf' <= mainBuf /\ backBuf <= backBuf
    BY <1>2, <2>2
  <2>5. up1' + mainBuf' + up2' + served' <= asked'
    <3>1. up1 + mainBuf' + up2' + served <= asked
      BY <1>1, <2>2, <2>3, <2>4, LessAddsUp
    <3> QED
      BY <2>1, <3>1
  <2>6. answered' + down2' + backBuf' + down1' <= served'
    <3>1. answered + down2' + backBuf + down1 <= served
      BY <1>1, <2>2, <2>3, <2>4, LessAddsUp
    <3> QED
      BY <2>1, <3>1
  <2> QED
    BY <1>2, <2>5, <2>6 DEF Conserved, Sound, Open
<1>5. Buffered' /\ GivenUp'
  BY <1>2 DEF Inv, Buffered, GivenUp, Sound, Open, backVars
<1> QED
  BY <1>3, <1>4, <1>5 DEF Inv

LEMMA InvStep == Parameters /\ Inv /\ [Next]_vars => Inv'
<1> SUFFICES ASSUME Parameters, Inv, [Next]_vars
             PROVE  Inv'
  OBVIOUS
<1> USE DEF Inv, Numbers, Flags, Conserved, Buffered, GivenUp, Sound, Open,
            ClientReads, clientVars, mainVars, backVars, serverVars
<1>1. CASE MainRead
  BY <1>1 DEF MainRead
<1>2. CASE MainEnd
  BY <1>2, ReturnKeeps DEF MainEnd
<1>3. CASE MainWrite
  BY <1>3 DEF MainWrite
<1>4. CASE MainWriteFail
  BY <1>4, ReturnKeeps DEF MainWriteFail
<1>5. CASE BackRead
  BY <1>5 DEF BackRead
<1>6. CASE BackWrite
  BY <1>6 DEF BackWrite, Written
<1>7. CASE BackWriteFail
  BY <1>7 DEF BackWriteFail
<1>8. CASE BackEnd
  BY <1>8 DEF BackEnd
<1>9. CASE ClientSend
  BY <1>9 DEF ClientSend, Parameters
<1>10. CASE ClientFin
  BY <1>10 DEF ClientFin
<1>11. CASE ClientClose
  BY <1>11 DEF ClientClose
<1>12. CASE ClientReceive
  BY <1>12 DEF ClientReceive
<1>13. CASE ServerReply
  BY <1>13 DEF ServerReply
<1>14. CASE ServerClose
  BY <1>14 DEF ServerClose
<1>15. CASE UNCHANGED vars
  BY <1>15 DEF vars
<1> QED
  BY <1>1, <1>2, <1>3, <1>4, <1>5, <1>6, <1>7, <1>8, <1>9, <1>10, <1>11, <1>12,
     <1>13, <1>14, <1>15
  DEF Next, ProxyMain, ProxyBack

-----------------------------------------------------------------------------
\* proxy.go: units are conserved, and the second copy gives up on no reply while
\* its way is sound, in every state of the proxy, whichever end closes when.
THEOREM ProxyInductive ==
    ASSUME Parameters PROVE Spec => []Inv
<1>1. Init => Inv
  BY InvInit
<1>2. Inv /\ [Next]_vars => Inv'
  BY InvStep
<1> QED
  BY <1>1, <1>2, PTL DEF Spec

\* proxy.go: no place holds more units than there are requests.
THEOREM ProxyTypes ==
    ASSUME Parameters PROVE Spec => []TypeOK
<1>1. Inv => TypeOK
  BY InvTypes
<1> QED
  BY <1>1, ProxyInductive, PTL

\* proxy.go: no reply is doubled or made up, and while its way is sound none is
\* lost, however the two copies and the peers interleave.
THEOREM RepliesKept ==
    ASSUME Parameters PROVE Spec => []NoReplyLost
<1>1. Inv => NoReplyLost
  <2> SUFFICES ASSUME Inv
               PROVE  NoReplyLost
    OBVIOUS
  <2>1. Replied <= served /\ (Sound => Replied = served)
    BY DEF Inv, Conserved, Replied
  <2>2. ASSUME Sound, backPc = "ended"
        PROVE  answered + down2 = served
    <3>1. backBuf = 0 /\ down1 = 0
      BY <2>2 DEF Inv, Buffered, GivenUp
    <3> QED
      BY <2>1, <2>2, <3>1 DEF Inv, Numbers, Replied
  <2> QED
    BY <2>1, <2>2 DEF NoReplyLost, Sound
<1> QED
  BY <1>1, ProxyInductive, PTL
=============================================================================
