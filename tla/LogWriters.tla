----------------------------- MODULE LogWriters -----------------------------
(***************************************************************************)
(* Loggers that write to several writers, chapter13/multi.go and level.go:  *)
(* SustainedMultiWriter flattens the multi-writers among its arguments, and *)
(* its Write goes on when a writer fails and gathers the errors.            *)
(*                                                                         *)
(* log.Logger is external: goroutines call Output (Print without the        *)
(* error), and the logger holds its lock while it writes an entry.  Loggers *)
(* do not share a lock, they may share a writer, as in level.go.  A writer  *)
(* takes the whole entry or returns an error with what it took of it.       *)
(***************************************************************************)
EXTENDS Naturals, FiniteSets, SequencesExt

CONSTANTS
    Writers,      \* the single writers
    Loggers,
    Callers,      \* goroutines that log one entry each, named after them
    LoggerOf,     \* Callers -> Loggers
    Arguments,    \* Loggers -> what SustainedMultiWriter was called with
    MaxFailures   \* bound: writes that fail

\* An argument is a single writer, or a sustainedMultiWriter, that is the
\* writers of one.
Single == [kind : {"single"}, writer : Writers]
Multi == [kind : {"multi"}, writers : Seq(Writers)]

None == "none"

Parameters ==
    /\ LoggerOf \in [Callers -> Loggers] /\ None \notin Callers
    /\ Arguments \in [Loggers -> Seq(Single \cup Multi)]
    /\ MaxFailures \in Nat

VARIABLES
    writers,  \* of each logger's sustainedMultiWriter
    lock,     \* of each logger: the caller that holds it, or none
    caller,   \* where each caller is
    next,     \* of each caller: how many of the writers it has written to
    err,      \* of each caller: the writers whose errors it has gathered
    written,  \* of each writer: the entries it took whole, in order
    failures  \* bound: writes that have failed

vars == <<writers, lock, caller, next, err, written, failures>>

TypeOK ==
    /\ writers \in [Loggers -> Seq(Writers)]
    /\ lock \in [Loggers -> Callers \cup {None}]
    /\ caller \in [Callers -> {"idle", "writing", "returned"}]
    /\ next \in [Callers -> Nat]
    /\ err \in [Callers -> SUBSET Writers]
    /\ written \in [Writers -> Seq(Callers)]
    /\ failures \in 0 .. MaxFailures

-----------------------------------------------------------------------------
\* SustainedMultiWriter: the writers of an argument, and of all of them.
WritersOf(a) == IF a.kind = "multi" THEN a.writers ELSE <<a.writer>>
Flattened(as) == FlattenSeq([i \in DOMAIN as |-> WritersOf(as[i])])

Init ==
    /\ writers = [l \in Loggers |-> Flattened(Arguments[l])]
    /\ lock = [l \in Loggers |-> None]
    /\ caller = [c \in Callers |-> "idle"]
    /\ next = [c \in Callers |-> 0]
    /\ err = [c \in Callers |-> {}]
    /\ written = [w \in Writers |-> <<>>]
    /\ failures = 0

\* Logger.Output waits for the lock: Write has none of its own.  (Mutant: it does
\* not wait.)
M_Free(l) == TRUE
Free(l) == lock[l] = None

Output(c) == LET l == LoggerOf[c] IN
    /\ caller[c] = "idle" /\ Free(l)
    /\ lock' = [lock EXCEPT ![l] = c]
    /\ caller' = [caller EXCEPT ![c] = "writing"]
    /\ UNCHANGED <<writers, next, err, written, failures>>

\* How many writers are done with after a failure.  (Mutant: io.MultiWriter
\* stops at it.)
M_AfterFailure(c) == Len(writers[LoggerOf[c]])
AfterFailure(c) == next[c] + 1

\* One turn of the loop of Write.
WriteNext(c) == LET ws == writers[LoggerOf[c]] IN
    /\ caller[c] = "writing" /\ next[c] < Len(ws)
    /\ LET w == ws[next[c] + 1] IN
       \/ /\ written' = [written EXCEPT ![w] = Append(@, c)]
          /\ next' = [next EXCEPT ![c] = @ + 1]
          /\ UNCHANGED <<err, failures>>
       \/ /\ failures < MaxFailures
          /\ failures' = failures + 1
          /\ err' = [err EXCEPT ![c] = @ \cup {w}]
          /\ next' = [next EXCEPT ![c] = AfterFailure(c)]
          /\ UNCHANGED written
    /\ UNCHANGED <<writers, lock, caller>>

\* Write returns, and Output unlocks.
Return(c) ==
    /\ caller[c] = "writing" /\ next[c] = Len(writers[LoggerOf[c]])
    /\ caller' = [caller EXCEPT ![c] = "returned"]
    /\ lock' = [lock EXCEPT ![LoggerOf[c]] = None]
    /\ UNCHANGED <<writers, next, err, written, failures>>

CallerNext(c) == Output(c) \/ WriteNext(c) \/ Return(c)
Next == \E c \in Callers : CallerNext(c)

Spec == Init /\ [][Next]_vars

-----------------------------------------------------------------------------
\* Every writer a logger was given, on its own or inside another multi-writer.
Given(l) ==
    UNION {ToSet(WritersOf(Arguments[l][i])) : i \in DOMAIN Arguments[l]}

\* SustainedMultiWriter "sustains writes across its writers and accumulates any
\* errors": an entry that was logged is in every writer, or its caller learnt
\* that this writer failed, whichever others failed before or after it.
Sustains ==
    \A c \in Callers : caller[c] = "returned" =>
        \A w \in Given(LoggerOf[c]) : Contains(written[w], c) \/ w \in err[c]

\* Write under the logger's lock: two entries of one logger are in the same
\* order in every writer that took both, though callers come together, writers
\* fail, and another logger writes to the same ones.
Before(s, c, d) ==
    \E i, j \in DOMAIN s : i < j /\ s[i] = c /\ s[j] = d
SameOrder ==
    \A c, d \in Callers : c # d /\ LoggerOf[c] = LoggerOf[d] =>
        ~\E v, w \in Writers : Before(written[v], c, d) /\ Before(written[w], d, c)
=============================================================================
