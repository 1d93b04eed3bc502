---------------------------- MODULE WebStopProofs ----------------------------
(***************************************************************************)
(* Proofs about module WebStop, for every set of connections and every      *)
(* number of requests.                                                      *)
(***************************************************************************)
EXTENDS WebStop, TLAPS

-----------------------------------------------------------------------------
(* Why no request is cut: run returns after done, done is closed when no    *)
(* connection is open, and none opens once the listener is closed.          *)

\* Shutdown or Close has closed the listener before anything else.
ListenerFirst == ~NotStopped => listener = "closed"

\* done is closed by the goroutine's last step, with no connection open.
DoneIsLast == done => stopper = "exited" /\ OpenConns = {}

\* push.go returns for done only.
WaitsForDone == graceful /\ run = "returned" => done

Inv == TypeOK /\ ListenerFirst /\ DoneIsLast /\ WaitsForDone /\ NoRequestCut

LEMMA InvInit == Parameters /\ Init => Inv
<1> SUFFICES ASSUME Parameters, Init
             PROVE  Inv
  OBVIOUS
<1>1. TypeOK
  <2>1. 0 \in 0 .. MaxRequests
    BY DEF Parameters
  <2>2. stopper \in {"start", "signal"} /\ signals \in 0 .. 1
    BY DEF Init
  <2> QED
    BY <2>1, <2>2 DEF Init, TypeOK
<1>2. ListenerFirst /\ DoneIsLast /\ WaitsForDone
  BY DEF Init, ListenerFirst, DoneIsLast, WaitsForDone, NotStopped
<1>3. NoRequestCut
  BY DEF Init, NoRequestCut
<1> QED
  BY <1>1, <1>2, <1>3 DEF Inv

\* Closing connections cuts a request only if one of them is being handled.
LEMMA EndedFacts ==
    ASSUME TypeOK, NEW closing \in SUBSET Conns, Ended(closing)
    PROVE  /\ conn' \in [Conns -> {"none", "idle", "active", "closed"}]
           /\ request' \in
                [Conns -> {"none", "sent", "handled", "answered", "lost", "cut"}]
           /\ count' = count
           /\ \A c \in Conns : conn'[c] = "active" <=> request'[c] = "handled"
           /\ \A c \in Conns : conn'[c] \in {"idle", "active"} => conn'[c] = conn[c]
           /\ (\A c \in closing : conn[c] # "active")
                => \A c \in Conns : request'[c] = "cut" => request[c] = "cut"
  BY DEF TypeOK, Ended

\* Closing connections keeps the types.
LEMMA EndedTypes ==
    ASSUME TypeOK, NEW closing \in SUBSET Conns, Ended(closing),
           graceful' = graceful, run' \in {"serve", "wait", "returned", "killed"},
           err' \in {"none", "closed", "failed"},
           listener' \in {"none", "open", "closed"},
           stopper' \in {"start", "signal", "shutdown", "idle", "exited"},
           done' \in BOOLEAN, signals' \in 0 .. 1
    PROVE  TypeOK'
  BY EndedFacts DEF TypeOK

\* A step that leaves the connections alone, or closes some, opens none.
LEMMA OpensNone ==
    ASSUME TypeOK, OpenConns = {},
           conn' = conn \/ \E closing \in SUBSET Conns : Ended(closing)
    PROVE  OpenConns' = {}
<1>1. \A c \in Conns : conn'[c] \in {"idle", "active"} => conn'[c] = conn[c]
  BY EndedFacts
<1> QED
  BY <1>1 DEF OpenConns

LEMMA TypesStep == Parameters /\ TypeOK /\ Next => TypeOK'
<1> SUFFICES ASSUME Parameters, TypeOK, Next
             PROVE  TypeOK'
  OBVIOUS
<1> USE DEF runVars, stopVars, connVars
<1>1. OpenConns \in SUBSET Conns /\ Idle \in SUBSET Conns
  BY DEF OpenConns, Idle
<1>2. CASE Listen
  BY <1>2 DEF Listen, TypeOK
<1>3. CASE ServeClosed
  <2>1. CASE graceful
    BY <1>3, <2>1 DEF ServeClosed, AfterServe, TypeOK
  <2>2. CASE ~graceful
    <3>1. Ended(OpenConns)
      BY <1>3, <2>2 DEF ServeClosed, AfterServe
    <3> QED
      BY <1>1, <1>3, <2>2, <3>1, EndedTypes DEF ServeClosed, AfterServe, TypeOK
  <2> QED
    BY <2>1, <2>2
<1>4. CASE ServeFail
  <2>1. CASE graceful
    BY <1>4, <2>1 DEF ServeFail, AfterServe, TypeOK
  <2>2. CASE ~graceful
    <3>1. Ended(OpenConns)
      BY <1>4, <2>2 DEF ServeFail, AfterServe
    <3> QED
      BY <1>1, <1>4, <2>2, <3>1, EndedTypes DEF ServeFail, AfterServe, TypeOK
  <2> QED
    BY <2>1, <2>2
<1>5. CASE Return
  <2>1. Ended(OpenConns)
    BY <1>5 DEF Return
  <2> QED
    BY <1>1, <1>5, <2>1, EndedTypes DEF Return, TypeOK
<1>6. CASE Notify
  BY <1>6 DEF Notify, TypeOK
<1>7. CASE TakeSignal
  <2>1. signals' \in 0 .. 1
    BY <1>7 DEF TakeSignal, TypeOK
  <2>2. CASE graceful
    BY <1>7, <2>1, <2>2 DEF TakeSignal, TypeOK
  <2>3. CASE ~graceful
    <3>1. Ended(OpenConns)
      BY <1>7, <2>3 DEF TakeSignal
    <3> QED
      BY <1>1, <1>7, <2>1, <2>3, <3>1, EndedTypes DEF TakeSignal, TypeOK
  <2> QED
    BY <2>2, <2>3
<1>8. CASE AcceptLoopLeft
  BY <1>8 DEF AcceptLoopLeft, TypeOK
<1>9. CASE CloseIdle
  <2>1. Ended(Idle)
    BY <1>9 DEF CloseIdle
  <2> QED
    BY <1>1, <1>9, <2>1, EndedTypes DEF CloseIdle, TypeOK
<1>10. CASE CloseDone
  BY <1>10 DEF CloseDone, TypeOK
<1>11. CASE Interrupt
  BY <1>11 DEF Interrupt, TypeOK
<1>12. CASE InterruptKills
  <2>1. Ended(OpenConns)
    BY <1>12 DEF InterruptKills
  <2> QED
    BY <1>1, <1>12, <2>1, EndedTypes DEF InterruptKills, TypeOK
<1>13. ASSUME NEW c \in Conns,
              Connect(c) \/ SendRequest(c) \/ Handle(c) \/ Answer(c)
       PROVE  TypeOK'
  <2>1. CASE Connect(c)
    BY <2>1 DEF Connect, TypeOK
  <2>2. CASE SendRequest(c)
    BY <2>2 DEF SendRequest, TypeOK, Parameters
  <2>3. CASE Handle(c)
    BY <2>3 DEF Handle, TypeOK
  <2>4. CASE Answer(c)
    BY <2>4 DEF Answer, TypeOK
  <2> QED
    BY <1>13, <2>1, <2>2, <2>3, <2>4
<1> QED
  BY <1>2, <1>3, <1>4, <1>5, <1>6, <1>7, <1>8, <1>9, <1>10, <1>11, <1>12, <1>13
  DEF Next, RunNext, Stopper

\* The listener, once closed for good, stays closed.
LEMMA ListenerStep == TypeOK /\ ListenerFirst /\ [Next]_vars => ListenerFirst'
  BY DEF TypeOK, ListenerFirst, NotStopped, Next, RunNext, Stopper, vars, runVars,
         stopVars, connVars, Listen, ServeClosed, ServeFail, Return, Notify,
         TakeSignal, AcceptLoopLeft, CloseIdle, CloseDone, Connect, SendRequest,
         Handle, Answer, Interrupt, InterruptKills

\* No connection opens after done.
LEMMA DoneStep ==
    TypeOK /\ ListenerFirst /\ DoneIsLast /\ Next => DoneIsLast'
<1> SUFFICES ASSUME TypeOK, ListenerFirst, DoneIsLast, Next, done'
             PROVE  stopper' = "exited" /\ OpenConns' = {}
  BY DEF DoneIsLast
<1> USE DEF runVars, stopVars, connVars
<1>0. OpenConns \in SUBSET Conns /\ Idle \in SUBSET Conns
  BY DEF OpenConns, Idle
<1>1. CASE CloseDone
  BY <1>1 DEF CloseDone, OpenConns
<1>2. CASE ~CloseDone
  <2>1. done /\ stopper = "exited" /\ OpenConns = {} /\ listener = "closed"
    BY <1>2 DEF DoneIsLast, ListenerFirst, NotStopped, Next, RunNext, Stopper,
         Listen, ServeClosed, ServeFail, Return, Notify, TakeSignal,
         AcceptLoopLeft, CloseIdle, CloseDone, Connect, SendRequest, Handle,
         Answer, Interrupt, InterruptKills
  <2>2. CASE RunNext \/ ServeFail \/ Stopper \/ Interrupt \/ InterruptKills
    <3>1. stopper' = "exited"
      BY <2>1, <2>2, <1>2 DEF RunNext, Stopper, Listen, ServeClosed, ServeFail,
         Return, Notify, TakeSignal, AcceptLoopLeft, CloseIdle, Interrupt,
         InterruptKills
    <3>2. conn' = conn \/ Ended(OpenConns) \/ Ended(Idle)
      BY <2>2, <1>2 DEF RunNext, Stopper, Listen, ServeClosed, ServeFail,
         AfterServe, Return, Notify, TakeSignal, AcceptLoopLeft, CloseIdle,
         Interrupt, InterruptKills
    <3> QED
      BY <1>0, <2>1, <3>1, <3>2, OpensNone
  <2>3. ASSUME NEW c \in Conns,
               Connect(c) \/ SendRequest(c) \/ Handle(c) \/ Answer(c)
        PROVE  stopper' = "exited" /\ OpenConns' = {}
    <3>1. conn[c] \notin {"idle", "active"}
      BY <2>1 DEF OpenConns
    <3> QED
      BY <2>1, <2>3, <3>1 DEF Connect, SendRequest, Handle, Answer
  <2> QED
    BY <2>2, <2>3 DEF Next
<1> QED
  BY <1>1, <1>2

\* run returns after done, and no step ends a request that is being handled
\* before.
LEMMA CutStep ==
    Inv /\ Next => WaitsForDone' /\ NoRequestCut'
<1> SUFFICES ASSUME Inv, Next, graceful'
             PROVE  /\ run' = "returned" => done'
                    /\ run' # "killed" => \A c \in Conns : request'[c] # "cut"
  BY DEF WaitsForDone, NoRequestCut
<1> USE DEF runVars, stopVars, connVars
<1>0. graceful /\ TypeOK /\ OpenConns \in SUBSET Conns /\ Idle \in SUBSET Conns
  BY DEF Inv, OpenConns, Idle, Next, RunNext, Stopper, Listen, ServeClosed,
     ServeFail, Return, Notify, TakeSignal, AcceptLoopLeft, CloseIdle, CloseDone,
     Connect, SendRequest, Handle, Answer, Interrupt, InterruptKills
<1>1. CASE Return
  <2>1. done /\ done' /\ OpenConns = {}
    BY <1>1 DEF Return, Inv, DoneIsLast
  <2>2. Ended(OpenConns) /\ run # "killed"
    BY <1>1 DEF Return
  <2>3. \A c \in Conns : request'[c] = "cut" => request[c] = "cut"
    BY <1>0, <2>1, <2>2, EndedFacts
  <2> QED
    BY <1>0, <2>1, <2>2, <2>3 DEF Inv, NoRequestCut
<1>2. CASE CloseIdle
  <2>1. Ended(Idle) /\ run' = run /\ done' = done
    BY <1>2 DEF CloseIdle
  <2>2. \A c \in Idle : conn[c] # "active"
    BY DEF Idle
  <2>3. \A c \in Conns : request'[c] = "cut" => request[c] = "cut"
    BY <1>0, <2>1, <2>2, EndedFacts
  <2> QED
    BY <1>0, <2>1, <2>3 DEF Inv, NoRequestCut, WaitsForDone
<1>3. CASE InterruptKills
  BY <1>3 DEF InterruptKills
<1>4. CASE \/ Listen \/ ServeClosed \/ ServeFail \/ Notify \/ TakeSignal
           \/ AcceptLoopLeft \/ CloseDone \/ Interrupt
  <2>1. request' = request /\ (run' = run \/ (run' = "wait" /\ run = "serve"))
    <3>1. CASE ServeClosed \/ ServeFail
      BY <1>0, <3>1 DEF ServeClosed, ServeFail, AfterServe
    <3>2. CASE TakeSignal
      BY <1>0, <3>2 DEF TakeSignal
    <3>3. CASE Listen \/ Notify \/ AcceptLoopLeft \/ CloseDone \/ Interrupt
      BY <3>3 DEF Listen, Notify, AcceptLoopLeft, CloseDone, Interrupt
    <3> QED
      BY <1>4, <3>1, <3>2, <3>3
  <2>2. done => done'
    BY <1>4 DEF Listen, ServeClosed, ServeFail, Notify, TakeSignal,
       AcceptLoopLeft, CloseDone, Interrupt
  <2>3. run' = "returned" => run = "returned"
    BY <2>1
  <2>4. run' # "killed" => run # "killed"
    BY <2>1
  <2>5. run' = "returned" => done'
    BY <1>0, <2>2, <2>3 DEF Inv, WaitsForDone
  <2>6. run' # "killed" => \A c \in Conns : request'[c] # "cut"
    BY <1>0, <2>1, <2>4 DEF Inv, NoRequestCut
  <2> QED
    BY <2>5, <2>6
<1>5. ASSUME NEW c \in Conns,
             Connect(c) \/ SendRequest(c) \/ Handle(c) \/ Answer(c)
      PROVE  /\ run' = "returned" => done'
             /\ run' # "killed" => \A d \in Conns : request'[d] # "cut"
  <2>1. run' = run /\ done' = done
    BY <1>5 DEF Connect, SendRequest, Handle, Answer
  <2>2. \A d \in Conns : request'[d] = "cut" => request[d] = "cut"
    BY <1>0, <1>5 DEF Connect, SendRequest, Handle, Answer, TypeOK
  <2> QED
    BY <1>0, <2>1, <2>2 DEF Inv, NoRequestCut, WaitsForDone
<1> QED
  BY <1>1, <1>2, <1>3, <1>4, <1>5 DEF Next, RunNext, Stopper

LEMMA InvStep == Parameters /\ Inv /\ [Next]_vars => Inv'
<1> SUFFICES ASSUME Parameters, Inv, [Next]_vars
             PROVE  Inv'
  OBVIOUS
<1>1. CASE Next
  BY <1>1, TypesStep, ListenerStep, DoneStep, CutStep DEF Inv
<1>2. CASE UNCHANGED vars
  BY <1>2 DEF Inv, TypeOK, ListenerFirst, NotStopped, DoneIsLast, OpenConns,
     WaitsForDone, NoRequestCut, vars, runVars, stopVars, connVars
<1> QED
  BY <1>1, <1>2

-----------------------------------------------------------------------------
\* push.go, backend.go: what the graceful stop relies on, in every state.
THEOREM StopInductive ==
    ASSUME Parameters PROVE Spec => []Inv
<1>1. Init => Inv
  BY InvInit
<1>2. Inv /\ [Next]_vars => Inv'
  BY InvStep
<1> QED
  BY <1>1, <1>2, PTL DEF Spec

\* push.go: a graceful stop cuts no request that a handler has begun, whatever the
\* order of the interrupt, ListenAndServe, Shutdown, the handlers and the end of
\* run; only an interrupt before signal.Notify does.
THEOREM NothingCut ==
    ASSUME Parameters PROVE Spec => []NoRequestCut
<1>1. Inv => NoRequestCut
  BY DEF Inv
<1> QED
  BY <1>1, StopInductive, PTL
=============================================================================
