----------------------------- MODULE LevelWatch -----------------------------
(***************************************************************************)
(* The log level that follows a semaphore file, chapter13/dynamic.go: a     *)
(* goroutine watches the directory, raises the level when the file appears, *)
(* restores it when the file is removed, and says so on the unbuffered      *)
(* channel ready each time; the main goroutine creates the file, waits,     *)
(* logs, removes it, waits, and logs again.                                 *)
(*                                                                         *)
(* fsnotify (1.8, inotify) and zap are external: the events of the          *)
(* directory are queued in order, each is handed over when the goroutine    *)
(* selects it, and after Close no more is.  Somebody else may touch the     *)
(* file, create it, remove it, move it away, and use the directory.  The    *)
(* queue of the kernel is long enough.                                      *)
(***************************************************************************)
EXTENDS Naturals, Sequences, SequencesExt

CONSTANT MaxOthers  \* bound: what others do in the directory, and errors

Parameters == MaxOthers \in Nat

VARIABLES
    main,     \* where the main goroutine is
    watch,    \* where the watching goroutine is
    file,     \* level.debug is there
    events,   \* events that watcher.Events has still to deliver
    closed,   \* the watcher is closed
    level,    \* atomicLevel
    original, \* originalLevel
    out,      \* the lines on standard output
    others,   \* bound: what others have done
    meddled   \* history: others have created, removed or moved the file

mainVars == <<main, closed>>
watchVars == <<watch, level, original>>
otherVars == <<others, meddled>>
vars == <<mainVars, watchVars, otherVars, file, events, out>>

TypeOK ==
    /\ main \in {"create", "wait on", "on", "wait off", "off", "close",
                 "returned", "fatal"}
    /\ watch \in {"start", "select", "ready", "exited"}
    /\ file \in BOOLEAN /\ closed \in BOOLEAN /\ meddled \in BOOLEAN
    /\ events \in Seq({"create", "remove", "rename", "write", "other"})
    /\ level \in {"info", "debug"} /\ original \in {"info", "debug"}
    /\ out \in Seq({"at", "below", "info", "error"})
    /\ others \in 0 .. MaxOthers

Init ==
    /\ main = "create" /\ watch = "start"
    /\ file = FALSE /\ events = <<>> /\ closed = FALSE
    /\ level = "info" /\ original = "info"
    /\ out = <<>>
    /\ others = 0 /\ meddled = FALSE

\* The process is there: log.Fatal ends it.
Up == main # "fatal"

\* zl.Debug.
Debug(line) == out' = IF level = "debug" THEN Append(out, line) ELSE out

-----------------------------------------------------------------------------
(* The main goroutine.                                                      *)

\* A line below the threshold; os.Create, which empties a file that is there.
CreateFile ==
    /\ main = "create"
    /\ Debug("below")
    /\ main' = "wait on"
    /\ file' = TRUE
    /\ events' = Append(events, IF file THEN "write" ELSE "create")
    /\ UNCHANGED <<closed, watchVars, otherVars>>

\* A line at the threshold; then os.Remove, or log.Fatal.
RemoveFile ==
    /\ main = "on"
    /\ Debug("at")
    /\ IF file
       THEN /\ main' = "wait off" /\ file' = FALSE
            /\ events' = Append(events, "remove")
       ELSE main' = "fatal" /\ UNCHANGED <<file, events>>
    /\ UNCHANGED <<closed, watchVars, otherVars>>

\* The two last lines.
LogOff ==
    /\ main = "off"
    /\ out' = (IF level = "debug" THEN Append(out, "below") ELSE out) \o <<"info">>
    /\ main' = "close"
    /\ UNCHANGED <<closed, watchVars, otherVars, file, events>>

\* The deferred functions: watcher.Close.
Close ==
    /\ main = "close"
    /\ closed' = TRUE
    /\ main' = "returned"
    /\ UNCHANGED <<watchVars, otherVars, file, events, out>>

-----------------------------------------------------------------------------
(* The watching goroutine.                                                  *)

\* originalLevel.
Begin ==
    /\ Up /\ watch = "start"
    /\ original' = level
    /\ watch' = "select"
    /\ UNCHANGED <<mainVars, otherVars, level, file, events, out>>

\* The level after an event.  (Mutant: a removal leaves it as it is.)
M_Level(e) == IF e = "create" THEN "debug" ELSE level
Level(e) ==
    CASE e = "create" -> "debug"
      [] e = "remove" -> original
      [] OTHER -> level

\* An event of the file is told to the main goroutine, if it is one of the two.
\* (Mutants: every event of the file is; removals are not.)
M_Told(e) == e # "other"
M_ToldCreate(e) == e = "create"
Told(e) == e \in {"create", "remove"}

HandleEvent ==
    /\ Up /\ watch = "select" /\ events # <<>> /\ ~closed
    /\ events' = Tail(events)
    /\ level' = Level(Head(events))
    /\ watch' = IF Told(Head(events)) THEN "ready" ELSE "select"
    /\ UNCHANGED <<mainVars, otherVars, original, file, out>>

\* ready <- struct{}{} meets <-ready.
Ready ==
    /\ watch = "ready" /\ main \in {"wait on", "wait off"}
    /\ watch' = "select"
    /\ main' = IF main = "wait on" THEN "on" ELSE "off"
    /\ UNCHANGED <<closed, level, original, otherVars, file, events, out>>

\* Events and Errors are closed; the deferred close(ready).
Exit ==
    /\ watch = "select" /\ closed
    /\ watch' = "exited"
    /\ UNCHANGED <<mainVars, level, original, otherVars, file, events, out>>

-----------------------------------------------------------------------------
(* Others, and fsnotify's errors.                                           *)

Others(e) ==
    /\ Up /\ others < MaxOthers
    /\ others' = others + 1
    /\ meddled' = (meddled \/ e \in {"create", "remove", "rename"})
    /\ events' = Append(events, e)
    /\ UNCHANGED <<mainVars, watchVars, out>>

OthersCreate == ~file /\ file' = TRUE /\ Others("create")
OthersRemove == file /\ file' = FALSE /\ (Others("remove") \/ Others("rename"))
OthersWrite == UNCHANGED file /\ (Others("other") \/ (file /\ Others("write")))

WatchError ==
    /\ Up /\ watch = "select" /\ ~closed /\ others < MaxOthers
    /\ others' = others + 1
    /\ out' = Append(out, "error")
    /\ UNCHANGED <<mainVars, watchVars, meddled, file, events>>

MainNext == CreateFile \/ RemoveFile \/ LogOff \/ Close
WatchNext == Begin \/ HandleEvent \/ Ready \/ Exit
Next ==
    \/ MainNext \/ WatchNext
    \/ OthersCreate \/ OthersRemove \/ OthersWrite \/ WatchError

Spec == Init /\ [][Next]_vars

-----------------------------------------------------------------------------
\* The example's "Output:": the lines come out in order, those below the
\* threshold never, though two goroutines change and read the level, if nobody
\* else creates or removes the file.  The errors of fsnotify come in between.
OnlyErrorsBut(places) == \A i \in DOMAIN out \ places : out[i] = "error"
AtThreshold == \E i \in DOMAIN out : out[i] = "at" /\ OnlyErrorsBut({i})
AllLines ==
    \E i, j \in DOMAIN out :
        i < j /\ out[i] = "at" /\ out[j] = "info" /\ OnlyErrorsBut({i, j})
OutputAsExpected ==
    ~meddled => /\ OnlyErrorsBut({}) \/ AtThreshold \/ AllLines
                /\ main = "returned" => AllLines

\* Whatever others do to the file, the main goroutine comes to its end: for
\* each of its waits there is an event still to be told.
MainEnds == <>(main \in {"returned", "fatal"})

\* The watching goroutine ends with the watcher, if it has nothing to tell that
\* nobody waits for.
WatchEnds == main = "returned" /\ ~meddled ~> watch = "exited"

=============================================================================
