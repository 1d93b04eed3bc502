----------------------------- MODULE Housework -----------------------------
(***************************************************************************)
(* The chore list of chapter12/homework.go with its three storages, of      *)
(* which the import selects one: protobuf, JSON or gob.  Every run of the   *)
(* command is a process that loads the data file, changes the list,         *)
(* truncates the file, writes it, and loads it once more to show it.        *)
(* Nothing locks the file, and a process may be killed, or its write may    *)
(* fail, between two steps.                                                 *)
(*                                                                         *)
(* The file system is external: os.Create empties the file, and one Write   *)
(* replaces the bytes from its start, or fails after some of them.  Chores  *)
(* are taken to be encoded in the same number of bytes each; a Write over a *)
(* longer list may also leave bytes that do not decode.  protobuf reads the *)
(* whole file, and takes an empty one for an empty list; the decoders of    *)
(* JSON and gob read one value from its start, and an empty file is an      *)
(* error to them.  gob writes its value in several pieces, which show only  *)
(* if commands overlap; it is modelled for one command at a time.           *)
(***************************************************************************)
EXTENDS Naturals, Sequences, SequencesExt

CONSTANTS
    Procs,      \* runs of the command: a bound
    MaxBatch,   \* bound: chores that one add names
    Storages,   \* the storages that may be compiled in
    Concurrent, \* whether a run may start before another has ended
    MayStop     \* whether a process may be killed, or its write may fail

Parameters ==
    /\ MaxBatch \in Nat /\ Concurrent \in BOOLEAN /\ MayStop \in BOOLEAN
    /\ Storages \subseteq {"proto", "json", "gob"}
    /\ Concurrent => "gob" \notin Storages

VARIABLES
    storage, \* the storage that is compiled in
    file,    \* the data file: its chores, or none, or unreadable
    pc,      \* where each process is
    op,      \* what its arguments ask for
    memory,  \* its list in memory
    damage,  \* history: a process ended between Create and the end of Write
    ledger   \* history: the list that the completed writes stand for

vars == <<storage, file, pc, op, memory, damage, ledger>>

NoFile == [state |-> "none", chores |-> <<>>]
Corrupt == [state |-> "corrupt", chores |-> <<>>]
Holding(l) == [state |-> "ok", chores |-> l]

Chore(p) == [by |-> p, complete |-> FALSE]
Chores == [by : Procs, complete : BOOLEAN]

Op(k, n) == [kind |-> k, n |-> n]
Ops == {Op("add", n) : n \in 0 .. MaxBatch}
         \cup {Op("complete", i) : i \in 0 .. MaxBatch}
         \cup {Op("list", 0)}

Running == {"load", "create", "write", "list"}
Over == {"exit", "failed", "killed"}

TypeOK ==
    /\ storage \in Storages
    /\ file.state \in {"none", "ok", "corrupt"} /\ file.chores \in Seq(Chores)
    /\ pc \in [Procs -> {"idle"} \cup Running \cup Over]
    /\ op \in [Procs -> Ops]
    /\ memory \in [Procs -> Seq(Chores)]
    /\ damage \in BOOLEAN
    /\ ledger \in Seq(Chores)

Init ==
    /\ storage \in Storages
    /\ file = NoFile
    /\ pc = [p \in Procs |-> "idle"]
    /\ op = [p \in Procs |-> Op("list", 0)]
    /\ memory = [p \in Procs |-> <<>>]
    /\ damage = FALSE
    /\ ledger = <<>>

-----------------------------------------------------------------------------
GoTo(p, l) == pc' = [pc EXCEPT ![p] = l]

\* main reads its arguments.
Start(p) ==
    /\ pc[p] = "idle"
    /\ Concurrent \/ \A q \in Procs : pc[q] \notin Running
    /\ \E o \in Ops :
          /\ op' = [op EXCEPT ![p] = o]
          /\ GoTo(p, IF o.kind = "list" THEN "list" ELSE "load")
    /\ UNCHANGED <<storage, file, memory, damage, ledger>>

\* complete refuses a number that no chore has.
Found(o, l) == o.kind = "add" \/ o.n \in 1 .. Len(l)

\* add appends the new chores; complete marks the one with the number given.
\* (Mutant: numbers are taken for indices from 0.)
M_Apply(p, o, l) ==
    IF o.kind = "add" THEN l \o [i \in 1 .. o.n |-> Chore(p)]
    ELSE [i \in 1 .. Len(l) |->
            IF i = o.n + 1 THEN [l[i] EXCEPT !.complete = TRUE] ELSE l[i]]
Apply(p, o, l) ==
    IF o.kind = "add" THEN l \o [i \in 1 .. o.n |-> Chore(p)]
    ELSE [l EXCEPT ![o.n].complete = TRUE]

\* load, then the change in memory.  A file that is not there is an empty list.
\* (Mutant: the file is opened with os.Create.)
M_Load(p) ==
    /\ pc[p] = "load"
    /\ file' = Holding(<<>>)
    /\ IF Found(op[p], file.chores)
       THEN /\ memory' = [memory EXCEPT ![p] = Apply(p, op[p], file.chores)]
            /\ GoTo(p, "create")
       ELSE /\ GoTo(p, "failed")
            /\ UNCHANGED memory
    /\ UNCHANGED <<storage, op, damage, ledger>>
Load(p) ==
    /\ pc[p] = "load"
    /\ IF file.state # "corrupt" /\ Found(op[p], file.chores)
       THEN /\ memory' = [memory EXCEPT ![p] = Apply(p, op[p], file.chores)]
            /\ GoTo(p, "create")
       ELSE /\ GoTo(p, "failed")
            /\ UNCHANGED memory
    /\ UNCHANGED <<storage, file, op, damage, ledger>>

\* flush: os.Create truncates the file.
Empty == IF storage = "proto" THEN Holding(<<>>) ELSE Corrupt
Create(p) ==
    /\ pc[p] = "create"
    /\ file' = Empty
    /\ GoTo(p, "write")
    /\ UNCHANGED <<storage, op, memory, damage, ledger>>

\* flush: storage.Flush writes the list.  What another process has written
\* since, and is longer, shows behind it, or spoils it, if the rest of the file
\* is read.
Written(new, old) ==
    IF storage # "proto" \/ Len(new) >= Len(old.chores) THEN {Holding(new)}
    ELSE {Corrupt,
          Holding(new \o SubSeq(old.chores, Len(new) + 1, Len(old.chores)))}
Write(p) ==
    /\ pc[p] = "write"
    /\ file' \in Written(memory[p], file)
    /\ ledger' = IF Found(op[p], ledger) THEN Apply(p, op[p], ledger) ELSE ledger
    /\ GoTo(p, "list")
    /\ UNCHANGED <<storage, op, memory, damage>>

\* list loads the file again and shows it.
List(p) ==
    /\ pc[p] = "list"
    /\ IF file.state = "corrupt"
       THEN GoTo(p, "failed") /\ UNCHANGED memory
       ELSE GoTo(p, "exit") /\ memory' = [memory EXCEPT ![p] = file.chores]
    /\ UNCHANGED <<storage, file, op, damage, ledger>>

\* What a Write that fails may leave: nothing of the list, bytes that do not
\* decode, or some of it: protobuf's chores stand for themselves, a JSON or gob
\* value is there or not.
Partly(new, old) ==
    {old, Corrupt} \cup
        {Holding(SubSeq(new, 1, k)) :
            k \in IF storage = "proto" THEN 1 .. Len(new) ELSE {Len(new)}}

\* The process is killed, or a system call of its fails: log.Fatal.
Stop(p) ==
    /\ MayStop
    /\ pc[p] \in Running
    /\ damage' = (damage \/ pc[p] = "write")
    /\ file' \in IF pc[p] = "write" THEN Partly(memory[p], file) ELSE {file}
    /\ \/ GoTo(p, "killed")
       \/ GoTo(p, "failed")
    /\ UNCHANGED <<storage, op, memory, ledger>>

Next ==
    \E p \in Procs :
        Start(p) \/ Load(p) \/ Create(p) \/ Write(p) \/ List(p) \/ Stop(p)

Spec == Init /\ [][Next]_vars

-----------------------------------------------------------------------------
Quiet == \A p \in Procs : pc[p] \notin Running

\* One run at a time: the file holds what the completed commands stand for,
\* unless a process ended in the middle of flush; a process that ends anywhere
\* else, or fails, leaves the list as it was.
FileIsLedger ==
    ~damage /\ (\A p \in Procs : pc[p] # "write") => file.chores = ledger

\* One run at a time: the file is a chore list, to which a command that is
\* between Create and the end of Write has done nothing yet; it is lost if a
\* process ends there.
Stored == IF \E p \in Procs : pc[p] = "write" THEN ledger ELSE file.chores
ChoresOf == INSTANCE ChoreList WITH list <- Stored, lost <- damage
CommandIsChoreList == ChoresOf!Spec

\* One run at a time: a command that succeeds shows the list with its own
\* change in it, the completed chore marked and the new ones at the end.
ShowsItsChange ==
    \A p \in Procs :
        pc[p] = "exit" =>
            CASE op[p].kind = "complete" -> memory[p][op[p].n].complete
              [] op[p].kind = "add" ->
                    Cardinality({i \in DOMAIN memory[p] :
                                    memory[p][i].by = p}) = op[p].n
              [] OTHER -> TRUE

\* add's comment: "you want your list of chores to persist between executions
\* of the application".  The chores of every add that succeeded are in the
\* file when no command runs.
ChoresPersist ==
    Quiet =>
        \A p \in Procs :
            pc[p] = "exit" /\ op[p].kind = "add" =>
                Cardinality({i \in DOMAIN file.chores :
                                file.chores[i].by = p}) = op[p].n

\* What of that holds when one command runs at a time: unless a process ended in
\* the middle of flush, whatever was added, completed or listed since.
PersistUnlessDamaged == ~damage => ChoresPersist

=============================================================================
