------------------------------- MODULE MCLogs -------------------------------
(***************************************************************************)
(* TLC instances of what chapter 13 logs and counts: the level that follows *)
(* a file, the loggers with several writers, and the instrumented server.   *)
(* They share nothing, so a behaviour follows one of them, and the others   *)
(* stay in their first state.                                               *)
(***************************************************************************)
EXTENDS Integers, Sequences, TLC

CONSTANTS
    MaxOthers,
    Writers, Loggers, Callers, LoggerOf, Arguments, MaxFailures,
    Clients, Gets, MaxBreaks,
    stdout, logFile, netLog, lDebug, lError, p1, p2, p3

VARIABLES
    main, watch, file, events, closed, level, original, out, others, meddled,
    writers, lock, caller, next, err, written, failures,
    waiting, client, using, gets, reused, socket, up, asked, answered, metric,
    printed, breaks,
    follow  \* which one: "level", "writers" or "metrics"

Level == INSTANCE LevelWatch
Log == INSTANCE LogWriters
Server == INSTANCE Instrumented WITH main <- waiting

ASSUME LogsParameters == Level!Parameters /\ Log!Parameters /\ Server!Parameters

levelVars == <<main, watch, file, events, closed, level, original, out, others,
               meddled>>
logVars == <<writers, lock, caller, next, err, written, failures>>
serverVars == <<waiting, client, using, gets, reused, socket, up, asked,
                answered, metric, printed, breaks>>
vars == <<levelVars, logVars, serverVars, follow>>

Init ==
    /\ follow \in {"level", "writers", "metrics"}
    /\ Level!Init /\ Log!Init /\ Server!Init

Next ==
    \/ follow = "level" /\ Level!Next /\ UNCHANGED <<logVars, serverVars, follow>>
    \/ follow = "writers" /\ Log!Next /\ UNCHANGED <<levelVars, serverVars, follow>>
    \/ follow = "metrics" /\ Server!Next /\ UNCHANGED <<levelVars, logVars, follow>>

\* Some goroutine of the program runs as long as one can; which one, others in
\* the directory and what breaks a connection are left to chance.  No behaviour
\* has a cycle, so this weak assumption is enough.
ProgramNext ==
    \/ follow = "level" /\ (Level!MainNext \/ Level!WatchNext)
           /\ UNCHANGED <<logVars, serverVars, follow>>
    \/ follow = "writers" /\ Log!Next /\ UNCHANGED <<levelVars, serverVars, follow>>
    \/ follow = "metrics" /\ Server!ProgramNext /\ UNCHANGED <<levelVars, logVars, follow>>

FairSpec == Init /\ [][Next]_vars /\ WF_vars(ProgramNext)

-----------------------------------------------------------------------------
(* The properties, which the three modules state and explain.               *)

\* The types of the variables of all three.
TypeOK == Level!TypeOK /\ Log!TypeOK /\ Server!TypeOK

\* dynamic.go: the lines of the example's "Output:".
OutputAsExpected == Level!OutputAsExpected

\* dynamic.go: the main goroutine gets its two signals, and the goroutine that
\* watches the file ends.
LevelWatchEnds == (follow = "level" => Level!MainEnds) /\ Level!WatchEnds

\* multi.go: every writer gets an entry or its error is told.
Sustains == Log!Sustains

\* multi.go: the writers of a logger agree on the order.
SameOrder == Log!SameOrder

\* instrument/server.go: the printed metrics are complete, and the gauge of open
\* connections keeps up.
MetricsAreComplete == Server!MetricsAreComplete /\ Server!GaugeInStep

\* instrument/server.go: main ends.
ServerMainEnds == follow = "metrics" => Server!MainEnds

-----------------------------------------------------------------------------
(* The loggers of level.go, lDebug with one writer and lError with a file   *)
(* and a multi-writer that holds standard output.                           *)
SomeLoggerOf == p1 :> lError @@ p2 :> lError @@ p3 :> lDebug
SomeArguments ==
    LET Single(w) == [kind |-> "single", writer |-> w]
        Multi(ws) == [kind |-> "multi", writers |-> ws]
    IN  lError :> <<Single(logFile), Multi(<<netLog, stdout>>)>>
        @@ lDebug :> <<Single(stdout)>>
=============================================================================
