------------------------------ MODULE Responses ------------------------------
(***************************************************************************)
(* What one request gets from the HTTP handlers of chapter9 and through the *)
(* middleware around them: DefaultHandler and Methods (handler.go),         *)
(* Middleware (middleware.go), WideEventLog (chapter13/wide.go).            *)
(*                                                                         *)
(* net/http is external.  Of its ResponseWriter the model keeps that the    *)
(* first WriteHeader wins, that a Write before it sends 200, that header    *)
(* fields set afterwards are not sent, that a HEAD request gets no body,    *)
(* and that a handler that wrote nothing sent an empty 200.  The request    *)
(* body comes in pieces, and its client may go away between them.           *)
(***************************************************************************)
EXTENDS Naturals

CONSTANTS
    MaxBody,    \* bound: pieces of the request's body
    MaxCalls    \* bound: calls that an arbitrary next handler makes

Parameters == MaxBody \in Nat /\ MaxCalls \in Nat

Verbs == {"GET", "HEAD", "POST", "PUT", "OPTIONS"}
Served == {"GET", "POST"}
Statuses == {200, 404, 405, 500}

VARIABLES
    wrap,     \* what is around the handler: "none", "middleware", "wide"
    next,     \* the handler: "default", "methods", or an "other"
    nils,     \* the methods a Methods maps to nil
    method,
    left,     \* pieces of the request body still to be read
    gone,     \* the client has gone away
    pc,
    w,        \* the http.ResponseWriter and the wideResponseWriter on it, and two
              \* history fields: the last WriteHeader named another status than the
              \* one that was fixed; the handler returned with none fixed
    calls,    \* calls an "other" handler has made
    logged    \* the wide event: its status code and length

request == <<wrap, next, nils, method>>
vars == <<request, left, gone, pc, w, calls, logged>>

NoEvent == [status |-> 0, length |-> 0, written |-> FALSE]

TypeOK ==
    /\ wrap \in {"none", "middleware", "wide"}
    /\ next \in {"default", "methods", "other"}
    /\ nils \subseteq Served
    /\ method \in Verbs
    /\ left \in 0 .. MaxBody
    /\ gone \in BOOLEAN
    /\ pc \in {"idle", "middleware", "default", "methods", "other", "read", "drain",
               "returned", "finish", "done"}
    /\ w \in [status : Statuses \cup {0}, fields : SUBSET {"allow", "nosniff"},
              sent : SUBSET {"allow", "nosniff"}, length : Nat,
              wideStatus : Statuses \cup {0}, wideLength : Nat,
              overruled : BOOLEAN, implicit : BOOLEAN]
    /\ w.sent \subseteq w.fields
    /\ calls \in 0 .. MaxCalls
    /\ logged \in [status : Statuses \cup {0}, length : Nat, written : BOOLEAN]

Init ==
    /\ wrap = "none" /\ next = "default" /\ nils = {}
    /\ method = "GET" /\ left = 0
    /\ gone = FALSE
    /\ pc = "idle"
    /\ w = [status |-> 0, fields |-> {}, sent |-> {}, length |-> 0,
            wideStatus |-> 0, wideLength |-> 0, overruled |-> FALSE, implicit |-> FALSE]
    /\ calls = 0
    /\ logged = NoEvent

\* net/http calls the handler for a request.
Request ==
    /\ pc = "idle"
    /\ wrap' \in {"none", "middleware", "wide"}
    /\ next' \in {"default", "methods", "other"}
    /\ nils' \in IF next' = "methods" THEN SUBSET Served ELSE {{}}
    /\ method' \in Verbs
    /\ left' \in IF method' \in {"POST", "PUT"} THEN 0 .. MaxBody ELSE {0}
    /\ pc' = IF wrap' = "middleware" THEN "middleware" ELSE next'
    /\ UNCHANGED <<gone, w, calls, logged>>

-----------------------------------------------------------------------------
(* The calls of http.ResponseWriter, and what wideResponseWriter adds.      *)

AddField(r, field) == [r EXCEPT !.fields = @ \cup {field}]

\* net/http: only the first call counts, and it fixes the header.
Header(r, status) ==
    IF r.status = 0
    THEN [r EXCEPT !.status = status, !.sent = r.fields]
    ELSE r

WriteHeader(r, status) ==
    [Header(r, status) EXCEPT
        !.overruled = r.status \notin {0, status},
        !.wideStatus = IF wrap = "wide" THEN status ELSE @]

\* One message, whatever its text.
Body(r) ==
    [Header(r, 200) EXCEPT !.length = @ + IF method = "HEAD" THEN 0 ELSE 1]

\* (Mutant: the status is not defaulted.)
M_Write(r) ==
    IF wrap = "wide" THEN [Body(r) EXCEPT !.wideLength = @ + 1] ELSE Body(r)

Write(r) ==
    IF wrap = "wide"
    THEN [Body(r) EXCEPT !.wideLength = @ + 1,
                         !.wideStatus = IF @ = 0 THEN 200 ELSE @]
    ELSE Body(r)

Error(r, status) == Write(WriteHeader(AddField(r, "nosniff"), status))

-----------------------------------------------------------------------------
(* middleware.go                                                            *)

\* The 405 does not return: next is called either way.
Refuse(r) == IF method # "GET" THEN Error(r, 405) ELSE r

Middleware ==
    /\ pc = "middleware"
    /\ w' = AddField(Refuse(w), "nosniff")
    /\ pc' = next
    /\ UNCHANGED <<request, left, gone, calls, logged>>

(* handler.go                                                               *)

Default ==
    /\ pc = "default"
    /\ \/ /\ method = "GET"
          /\ w' = Write(w)
          /\ pc' = "drain"
       \/ /\ method = "POST"
          /\ pc' = "read"
          /\ UNCHANGED w
       \/ /\ method \notin Served
          /\ w' = Error(w, 405)
          /\ pc' = "drain"
    /\ UNCHANGED <<request, left, gone, calls, logged>>

\* (Mutant: the Allow header is added after the response was written.)
M_NotAllowed(r) ==
    IF method # "OPTIONS" THEN AddField(Error(r, 405), "allow")
                          ELSE AddField(r, "allow")

\* No handler for the method: the Allow header, and 405 unless OPTIONS asked.
NotAllowed(r) ==
    IF method # "OPTIONS" THEN Error(AddField(r, "allow"), 405)
                          ELSE AddField(r, "allow")

Methods ==
    /\ pc = "methods"
    /\ \/ /\ method \in nils
          /\ w' = Error(w, 500)
          /\ pc' = "drain"
       \/ /\ method = "GET" /\ method \notin nils
          /\ w' = Write(w)
          /\ pc' = "drain"
       \/ /\ method = "POST" /\ method \notin nils
          /\ pc' = "read"
          /\ UNCHANGED w
       \/ /\ method \notin Served
          /\ w' = NotAllowed(w)
          /\ pc' = "drain"
    /\ UNCHANGED <<request, left, gone, calls, logged>>

\* io.ReadAll(r.Body): a piece, the end, or an error.
ReadPiece ==
    /\ pc \in {"read", "drain"}
    /\ left > 0 /\ ~gone
    /\ left' = left - 1
    /\ UNCHANGED <<request, gone, pc, w, calls, logged>>

ReadAll ==
    /\ pc = "read"
    /\ left = 0
    /\ w' = Write(w)
    /\ pc' = "drain"
    /\ UNCHANGED <<request, left, gone, calls, logged>>

ReadFail ==
    /\ pc = "read"
    /\ left > 0 /\ gone
    /\ w' = Error(w, 500)
    /\ pc' = "drain"
    /\ UNCHANGED <<request, left, gone, calls, logged>>

\* The deferred io.Copy(io.Discard, r) is over at the end or at an error.
DrainOver == left = 0 \/ gone

Drained ==
    /\ pc = "drain"
    /\ DrainOver
    /\ pc' = "returned"
    /\ UNCHANGED <<request, left, gone, w, calls, logged>>

-----------------------------------------------------------------------------
(* An arbitrary next handler: WideEventLog and Middleware take any.         *)

OtherCalls ==
    /\ pc = "other"
    /\ calls < MaxCalls
    /\ calls' = calls + 1
    /\ \/ w' = Write(w)
       \/ \E status \in {200, 404} : w' = WriteHeader(w, status)
    /\ UNCHANGED <<request, left, gone, pc, logged>>

OtherReturns ==
    /\ pc = "other"
    /\ pc' = "returned"
    /\ UNCHANGED <<request, left, gone, w, calls, logged>>

(* wide.go: the event, once next has returned.                              *)

Event(r) == [status |-> r.wideStatus, length |-> r.wideLength, written |-> TRUE]

Log ==
    /\ pc = "returned"
    /\ pc' = "finish"
    /\ logged' = IF wrap = "wide" THEN Event(w) ELSE logged
    /\ UNCHANGED <<request, left, gone, w, calls>>

\* net/http finishes the request: an unwritten response is an empty 200.
Finish ==
    /\ pc = "finish"
    /\ w' = [Header(w, 200) EXCEPT !.implicit = (w.status = 0)]
    /\ pc' = "done"
    /\ UNCHANGED <<request, left, gone, calls, logged>>

ClientGone ==
    /\ ~gone /\ pc \notin {"idle", "done"}
    /\ gone' = TRUE
    /\ UNCHANGED <<request, left, pc, w, calls, logged>>

Next ==
    \/ Request
    \/ Middleware \/ Default \/ Methods
    \/ ReadPiece \/ ReadAll \/ ReadFail \/ Drained
    \/ OtherCalls \/ OtherReturns
    \/ Log \/ Finish \/ ClientGone

Spec == Init /\ [][Next]_vars

-----------------------------------------------------------------------------
(* Methods tells the client which methods it has: every request it has no   *)
(* handler for is answered 405, or 200 to OPTIONS, with an Allow header     *)
(* that reaches the client (handler.go:89-95).                              *)
AllowIsSent ==
    pc = "done" /\ next = "methods" /\ wrap # "middleware" /\ method \notin Served
      => /\ "allow" \in w.sent
         /\ w.status = IF method = "OPTIONS" THEN 200 ELSE 405

(* chapter13/README.md:153 "create your own response writer type to collect *)
(* and log the response code and length".  Of any handler, the event has the *)
(* status that was sent exactly if the handler fixed one (an implicit 200 is *)
(* logged as 0) and did not name another one afterwards, and the length that *)
(* was sent exactly if there was no text for net/http to drop from an answer *)
(* to HEAD (wide.go:19-31).                                                  *)
LoggedAsSentIff ==
    logged.written /\ pc = "done" =>
      /\ logged.status = w.status <=> ~w.implicit /\ ~w.overruled
      /\ logged.length = w.length <=> method # "HEAD" \/ logged.length = 0

(* middleware.go:12-14 "enforcing which methods the handler allows": a      *)
(* request that Middleware refuses gets the refusal and nothing else.       *)
RefusedMeansBlocked ==
    pc = "done" /\ wrap = "middleware" /\ method \notin {"GET", "HEAD"}
      => w.status = 405 /\ w.length = 1
=============================================================================
