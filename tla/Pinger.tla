------------------------------- MODULE Pinger -------------------------------
(***************************************************************************)
(* The heartbeat of chapter3/ping.go: Pinger writes a ping whenever its     *)
(* timer expires, takes new intervals from a channel, and returns when its  *)
(* context is done or a write fails.  The user of a Pinger (ExamplePinger,  *)
(* TestPingerAdvanceDeadline) resets it, reads what it writes, cancels it   *)
(* and then waits for it to return.                                         *)
(*                                                                         *)
(* The timer is external, with the semantics of Go 1.23 (the go.mod's       *)
(* version): its channel is synchronous, so Stop on a timer that has        *)
(* expired but was not received from discards the tick and returns true,    *)
(* and Stop on a timer whose tick was received returns false and leaves     *)
(* nothing to receive.  The writer is a pipe: Write blocks until the other  *)
(* end reads or closes.                                                     *)
(***************************************************************************)
EXTENDS Integers, Sequences

CONSTANTS
    Durations,  \* what a user may send to reset: positive or not
    Default,    \* defaultPingInterval
    MaxResets   \* bound: resets the user sends

Parameters ==
    Durations \subseteq Int /\ Default \in Nat \ {0} /\ MaxResets \in Nat

VARIABLES
    pc,         \* where Pinger is
    interval,   \* its variable interval
    timer,      \* "off", "armed" or "expired" (with the tick not received)
    armedFor,   \* the duration the timer was last set to
    reset,      \* the buffered channel, of capacity 1
    resets,     \* resets sent
    cancelled,  \* ctx is done
    closed,     \* the read end is closed
    asked       \* history: the last positive duration Pinger received

vars == <<pc, interval, timer, armedFor, reset, resets, cancelled, closed, asked>>

\* In "drain" and "exit" Pinger receives from the channel of a timer that is
\* stopped, in the loop and in the deferred function: no tick will come.
PCs == {"start", "arm", "select", "write", "rearm", "drain", "stop", "exit",
        "done"}

TypeOK ==
    /\ pc \in PCs
    /\ interval \in Durations \cup {0, Default}
    /\ timer \in {"off", "armed", "expired"}
    /\ armedFor \in Durations \cup {0, Default}
    /\ reset \in Seq(Durations) /\ Len(reset) <= 1
    /\ resets \in 0 .. MaxResets
    /\ cancelled \in BOOLEAN /\ closed \in BOOLEAN
    /\ asked \in Durations \cup {Default}

Init ==
    /\ pc = "start"
    /\ interval = 0
    /\ timer = "off" /\ armedFor = 0
    /\ reset = <<>> /\ resets = 0
    /\ cancelled = FALSE /\ closed = FALSE
    /\ asked = Default

-----------------------------------------------------------------------------
(* Pinger.                                                                  *)

pipeVars == <<cancelled, closed, resets>>

\* if newInterval > 0 { interval = newInterval }
\* (Mutant: a zero duration is taken for an interval.)
M_NewInterval(d) == IF d >= 0 THEN d ELSE interval
NewInterval(d) == IF d > 0 THEN d ELSE interval

Asked(d) == asked' = IF d > 0 THEN d ELSE asked

\* The first select: it does not wait.
Start ==
    /\ pc = "start"
    /\ \/ /\ cancelled
          /\ pc' = "done"
          /\ UNCHANGED <<interval, reset, asked>>
       \/ /\ reset # <<>>
          /\ reset' = Tail(reset)
          /\ interval' = Head(reset)
          /\ Asked(Head(reset))
          /\ pc' = "arm"
       \/ /\ ~cancelled /\ reset = <<>>
          /\ pc' = "arm"
          /\ UNCHANGED <<interval, reset, asked>>
    /\ UNCHANGED <<timer, armedFor, pipeVars>>

\* The default for an interval that was not set; NewTimer.
Arm ==
    /\ pc = "arm"
    /\ interval' = IF interval <= 0 THEN Default ELSE interval
    /\ timer' = "armed"
    /\ armedFor' = interval'
    /\ pc' = "select"
    /\ UNCHANGED <<reset, asked, pipeVars>>

\* case <-ctx.Done(): return, by way of the deferred function.
SelectDone ==
    /\ pc = "select"
    /\ cancelled
    /\ pc' = "stop"
    /\ UNCHANGED <<interval, timer, armedFor, reset, asked, pipeVars>>

\* case newInterval := <-reset: timer.Stop returns false, and a receive from
\* timer.C follows, only if the tick was received before.
SelectReset ==
    /\ pc = "select"
    /\ reset # <<>>
    /\ reset' = Tail(reset)
    /\ interval' = NewInterval(Head(reset))
    /\ Asked(Head(reset))
    /\ pc' = IF timer = "off" THEN "drain" ELSE "rearm"
    /\ timer' = "off"
    /\ UNCHANGED <<armedFor, pipeVars>>

\* case <-timer.C: w.Write is called.
SelectTick ==
    /\ pc = "select"
    /\ timer = "expired"
    /\ timer' = "off"
    /\ pc' = "write"
    /\ UNCHANGED <<interval, armedFor, reset, asked, pipeVars>>

\* The read end takes the ping: Write returns nil.
WriteRead ==
    /\ pc = "write"
    /\ ~closed
    /\ pc' = "rearm"
    /\ UNCHANGED <<interval, timer, armedFor, reset, asked, pipeVars>>

\* The read end is closed: Write fails and Pinger returns.
WriteFail ==
    /\ pc = "write"
    /\ closed
    /\ pc' = "stop"
    /\ UNCHANGED <<interval, timer, armedFor, reset, asked, pipeVars>>

\* timer.Reset(interval)
\* (Mutant: the timer is set again only after a ping.)
M_Rearm ==
    /\ pc = "rearm"
    /\ pc' = "select"
    /\ UNCHANGED <<interval, timer, armedFor, reset, asked, pipeVars>>
Rearm ==
    /\ pc = "rearm"
    /\ timer' = "armed"
    /\ armedFor' = interval
    /\ pc' = "select"
    /\ UNCHANGED <<interval, reset, asked, pipeVars>>

\* The deferred function: timer.Stop.  (Mutant: it always drains.)
M_Stop ==
    /\ pc = "stop"
    /\ timer' = "off"
    /\ pc' = "exit"
    /\ UNCHANGED <<interval, armedFor, reset, asked, pipeVars>>
Stop ==
    /\ pc = "stop"
    /\ timer' = "off"
    /\ pc' = IF timer = "off" THEN "exit" ELSE "done"
    /\ UNCHANGED <<interval, armedFor, reset, asked, pipeVars>>

-----------------------------------------------------------------------------
(* The runtime and the user (external).                                     *)

Expire ==
    /\ timer = "armed"
    /\ timer' = "expired"
    /\ UNCHANGED <<pc, interval, armedFor, reset, asked, pipeVars>>

\* resetTimer <- d, which blocks while the channel is full.
UserReset ==
    /\ resets < MaxResets
    /\ reset = <<>>
    /\ resets' = resets + 1
    /\ \E d \in Durations : reset' = <<d>>
    /\ UNCHANGED <<pc, interval, timer, armedFor, cancelled, closed, asked>>

UserCancel ==
    /\ ~cancelled
    /\ cancelled' = TRUE
    /\ UNCHANGED <<pc, interval, timer, armedFor, reset, resets, closed, asked>>

UserClose ==
    /\ ~closed
    /\ closed' = TRUE
    /\ UNCHANGED <<pc, interval, timer, armedFor, reset, resets, cancelled, asked>>

PingerNext ==
    \/ Start \/ Arm \/ SelectDone \/ SelectReset \/ SelectTick
    \/ WriteFail \/ Rearm \/ Stop

Next ==
    \/ PingerNext \/ WriteRead
    \/ Expire \/ UserReset \/ UserCancel \/ UserClose

Spec == Init /\ [][Next]_vars

\* The scheduler runs Pinger, a timer expires in the end, and select picks at
\* random among the cases that are ready, so not always another than ctx.Done.
PingerFairness ==
    /\ WF_vars(PingerNext)
    /\ WF_vars(Expire)
    /\ SF_vars(SelectDone)

\* A user that reads every ping, whatever else it does.
FairSpec == Spec /\ PingerFairness /\ WF_vars(WriteRead)

-----------------------------------------------------------------------------
\* Until it is cancelled or its writer closed, Pinger keeps writing pings, each
\* when the timer has run for the last positive duration that Pinger was asked
\* for: a reset by 0 or by a negative one restarts it with the same interval.
KeepsPinging ==
    pc = "select" ~> ((pc = "write" /\ armedFor = asked) \/ cancelled \/ closed)

\* While its writer works, cancelling the context ends Pinger: neither the
\* reset that is being handled, nor a tick that came with the cancellation, nor
\* the deferred drain of the timer's channel keeps it.
CancelStopsWriter == []~closed => (cancelled ~> pc = "done")

\* ExamplePinger: cancelling the context "will stop the pinger", always.
CancelStops == cancelled ~> pc = "done"

=============================================================================
