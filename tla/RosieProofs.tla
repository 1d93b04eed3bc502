---------------------------- MODULE RosieProofs ----------------------------
(***************************************************************************)
(* Proofs about module Rosie, for every number of clients, every size of a  *)
(* batch and every width of a chore number.                                 *)
(***************************************************************************)
EXTENDS Rosie, SequenceTheorems, TLAPS

-----------------------------------------------------------------------------
(* The operators.                                                           *)

\* int32(i) is an int32.
LEMMA Int32Facts ==
    ASSUME Parameters, NEW i \in Int
    PROVE  Int32(i) \in -(Wrap \div 2) .. Wrap \div 2 - 1
<1> DEFINE h == Wrap \div 2
<1>1. h \in Nat /\ Wrap = 2 * h /\ Wrap > 0
  BY DEF Parameters
<1>2. (i + h) % Wrap \in 0 .. Wrap - 1
  BY <1>1
<1> QED
  BY <1>1, <1>2 DEF Int32

\* Add appends a batch: the chores before it keep their places.
LEMMA AppendedFacts ==
    ASSUME NEW c \in Clients, NEW n \in Nat, chores \in Seq(Chore)
    PROVE  /\ Appended(c, n) \in Seq(Chore)
           /\ Len(Appended(c, n)) = Len(chores) + n
           /\ \A i \in 1 .. Len(chores) : Appended(c, n)[i] = chores[i]
           /\ \A i \in Len(chores) + 1 .. Len(chores) + n :
                 Appended(c, n)[i] = [by |-> c, complete |-> FALSE]
<1> DEFINE batch == [i \in 1 .. n |-> [by |-> c, complete |-> FALSE]]
<1>1. batch \in Seq(Chore) /\ Len(batch) = n
  BY DEF Chore
<1>2. \A i \in 1 .. n : batch[i] = [by |-> c, complete |-> FALSE]
  OBVIOUS
<1> HIDE DEF batch
<1>3. Appended(c, n) = chores \o batch
  BY DEF Appended, batch
<1>4. Appended(c, n) \in Seq(Chore) /\ Len(Appended(c, n)) = Len(chores) + n
  BY <1>1, <1>3, ConcatProperties
<1>5. \A i \in 1 .. Len(chores) + n : Appended(c, n)[i] =
         IF i <= Len(chores) THEN chores[i] ELSE batch[i - Len(chores)]
  BY <1>1, <1>3, ConcatProperties
<1>6. Len(chores) \in Nat
  OBVIOUS
<1>7. \A i \in Len(chores) + 1 .. Len(chores) + n : i - Len(chores) \in 1 .. n
  BY <1>6
<1>8. \A i \in 1 .. Len(chores) : Appended(c, n)[i] = chores[i]
  BY <1>5, <1>6
<1>9. ASSUME NEW i \in Len(chores) + 1 .. Len(chores) + n
      PROVE  Appended(c, n)[i] = [by |-> c, complete |-> FALSE]
  <2>1. Appended(c, n)[i] = batch[i - Len(chores)]
    BY <1>5, <1>6
  <2> QED
    BY <2>1, <1>2, <1>7
<1> QED
  BY <1>4, <1>8, <1>9

\* Complete sets one mark and changes nothing else.
LEMMA MarkedFacts ==
    ASSUME NEW l \in Seq(Chore), NEW n \in 1 .. Len(l)
    PROVE  /\ Marked(l, n) \in Seq(Chore)
           /\ Len(Marked(l, n)) = Len(l)
           /\ \A i \in 1 .. Len(l) :
                 /\ Marked(l, n)[i].by = l[i].by
                 /\ Marked(l, n)[i].complete <=> l[i].complete \/ i = n
<1> DEFINE m == [l[n] EXCEPT !.complete = TRUE]
<1>0. l[n] \in Chore
  OBVIOUS
<1>1. m \in Chore /\ m.by = l[n].by /\ m.complete = TRUE
  BY <1>0 DEF Chore
<1>2. Marked(l, n) = [l EXCEPT ![n] = m]
  BY DEF Marked
<1> HIDE DEF m
<1>3. /\ Marked(l, n) \in Seq(Chore) /\ Len(Marked(l, n)) = Len(l)
      /\ \A i \in 1 .. Len(l) : Marked(l, n)[i] = IF i = n THEN m ELSE l[i]
  BY <1>1, <1>2
<1> QED
  BY <1>1, <1>3

-----------------------------------------------------------------------------
(* What Listed says of a client when others act.                            *)

\* No chore moves, none loses its mark, and the list does not shrink.
Grown == /\ Len(chores) <= Len(chores') /\ Len(chores') \in Nat
         /\ \A i \in 1 .. Len(chores) :
               /\ chores'[i].by = chores[i].by
               /\ chores[i].complete => chores'[i].complete
         /\ \A i \in 1 .. Len(chores) : cached[i] => cached'[i]

\* The client has its response, and no call of its own goes on.
Waits(c) == /\ len'[c] = len[c] /\ sized'[c] = sized[c]
            /\ reply'[c] = reply[c] /\ atList'[c] = atList[c]
            /\ \/ stage'[c] = stage[c]
               \/ stage'[c] = "unavailable"
               \/ stage[c] = "command" /\ stage'[c] \in {"list", "error"}

\* What Listed says outlives a growth of the list.
LEMMA ListedKept ==
    ASSUME TypeOK, Grown, NEW c \in Clients, Listed(c), Waits(c)
    PROVE  Listed(c)'
<1>1. /\ len[c] \in Nat /\ sized[c] \in Nat /\ Len(reply[c]) \in Nat
      /\ Len(reply[c]) <= sized[c] /\ sized[c] <= len[c] /\ len[c] <= Len(chores)
      /\ Len(chores) \in Nat
  BY DEF TypeOK
<1>2. /\ stage[c] \in {"command", "list"} => len[c] = 0
      /\ Len(atList[c]) = len[c]
      /\ stage[c] \in {"encode", "ok"} => sized[c] = len[c]
      /\ stage[c] = "ok" => Len(reply[c]) = len[c]
  BY DEF Listed
<1>3. \A i \in 1 .. len[c] :
         atList[c][i].by = chores'[i].by /\ (atList[c][i].complete => chores'[i].complete)
  BY <1>1 DEF Listed, Grown
<1>4. \A i \in 1 .. sized[c] : atList[c][i].complete => cached'[i]
  BY <1>1 DEF Listed, Grown
<1>5. \A i \in 1 .. Len(reply[c]) :
          /\ reply[c][i].by = chores'[i].by
          /\ atList[c][i].complete => reply[c][i].complete
          /\ reply[c][i].complete => chores'[i].complete
  BY <1>1 DEF Listed, Grown
<1>6. stage[c] = "error" /\ len[c] > 0 =>
          \E i \in 1 .. len[c] : chores'[i].complete /\ ~atList[c][i].complete
  BY <1>1 DEF Listed, Grown
<1>7. /\ stage'[c] \in {"command", "list"} => len[c] = 0
      /\ stage'[c] \in {"encode", "ok"} => sized[c] = len[c]
      /\ stage'[c] = "ok" => Len(reply[c]) = len[c]
      /\ stage'[c] = "error" /\ len[c] > 0 => stage[c] = "error"
  BY <1>1, <1>2 DEF Waits
<1> QED
  BY <1>2, <1>3, <1>4, <1>5, <1>6, <1>7 DEF Listed, Waits

\* What Done says outlives a growth of the list by others.
LEMMA DoneKept ==
    ASSUME TypeOK, Grown, NEW c \in Clients, Done(c), Waits(c),
           stage'[c] \in {stage[c], "unavailable"},
           kind'[c] = kind[c], number'[c] = number[c],
           \A j \in Len(chores) + 1 .. Len(chores') : chores'[j].by # c
    PROVE  Done(c)'
<1>1. /\ len[c] \in Nat /\ len[c] <= Len(chores) /\ Len(chores) \in Nat
      /\ Len(chores) <= Len(chores') /\ Len(chores') \in Nat
  BY DEF TypeOK, Grown
<1>2. \A j \in 1 .. Len(chores') : chores'[j].by = c =>
         j \in 1 .. Len(chores) /\ chores[j].by = c
  BY <1>1 DEF Grown
<1>3. stage'[c] = "command" => kind[c] = "none"
  BY DEF Done
<1>4. ASSUME kind[c] = "add"
      PROVE  /\ number[c] \in Nat
             /\ stage'[c] \in {"size", "encode", "ok"} =>
                   \A j \in 1 .. Len(chores') : chores'[j].by = c => j <= len[c]
  BY <1>2, <1>4 DEF Done
<1>5. kind[c] # "add" => \A j \in 1 .. Len(chores') : chores'[j].by # c
  BY <1>2 DEF Done
<1>6. ASSUME kind[c] = "complete"
      PROVE  /\ stage'[c] \in {"list", "size", "encode", "ok"} =>
                   number[c] \in 1 .. Len(chores') /\ chores'[number[c]].complete
             /\ stage'[c] \in {"size", "encode", "ok"} =>
                   number[c] <= len[c] /\ atList[c][number[c]].complete
  BY <1>1, <1>6 DEF Done, Grown
<1> QED
  BY <1>3, <1>4, <1>5, <1>6 DEF Done, Waits

\* A list that keeps its length keeps every batch.
LEMMA AddsKept ==
    ASSUME TypeOK, Grown, AddsAreKept, Len(chores') = Len(chores),
           \A c \in Clients : kind'[c] = "add" => kind[c] = "add" /\ number'[c] = number[c]
    PROVE  AddsAreKept'
<1> SUFFICES ASSUME NEW c \in Clients, kind'[c] = "add"
             PROVE  \E i \in 0 .. Len(chores') - number'[c] :
                       \A j \in 1 .. Len(chores') :
                          chores'[j].by = c <=> j \in i + 1 .. i + number'[c]
  BY DEF AddsAreKept
<1>1. PICK i \in 0 .. Len(chores) - number[c] :
         \A j \in 1 .. Len(chores) : chores[j].by = c <=> j \in i + 1 .. i + number[c]
  BY DEF AddsAreKept
<1>2. \A j \in 1 .. Len(chores') : chores'[j].by = c <=> j \in i + 1 .. i + number'[c]
  BY <1>1 DEF Grown
<1> QED
  BY <1>1, <1>2

-----------------------------------------------------------------------------
(* The steps.  Each lemma says that one action keeps the invariant.         *)

\* Nothing: the client has no command to give.
LEMMA NothingStep ==
    ASSUME Parameters, IndInv, NEW c \in Clients, Nothing(c)
    PROVE  IndInv'
<1> USE DEF Nothing, Command
<1>1. TypeOK'
  BY DEF IndInv, TypeOK, Parameters, Working, Over, encodeVars
<1>2. Grown
  BY DEF IndInv, TypeOK, Grown, encodeVars
<1>3. \A d \in Clients : Waits(d)
  BY DEF IndInv, TypeOK, Waits, encodeVars
<1>4. ASSUME NEW d \in Clients
      PROVE  Listed(d)'
  BY <1>2, <1>3, ListedKept DEF IndInv
<1>5. ASSUME NEW d \in Clients, d # c
      PROVE  Done(d)'
  BY SMTT(40), <1>2, <1>3, <1>5, DoneKept DEF IndInv, TypeOK
<1>6. Done(c)'
  BY DEF IndInv, TypeOK, Done
<1>7. AddsAreKept'
  BY <1>2, AddsKept DEF IndInv, TypeOK
<1> QED
  BY <1>1, <1>4, <1>5, <1>6, <1>7 DEF IndInv, encodeVars

\* Add: the batch goes to the end, in one piece.
LEMMA AddStep ==
    ASSUME Parameters, IndInv, NEW c \in Clients, Add(c)
    PROVE  IndInv'
<1>1. PICK n \in 1 .. MaxBatch :
         /\ Command(c, "add", n, "list")
         /\ chores' = Appended(c, n)
         /\ cached' = [i \in 1 .. Len(chores') |->
                          IF i <= Len(cached) THEN cached[i] ELSE FALSE]
  BY DEF Add
<1>2. n \in Nat /\ n > 0 /\ n \in -(Wrap \div 2) .. Wrap \div 2 - 1
  BY DEF Parameters
<1>3. /\ chores \in Seq(Chore) /\ Len(chores) \in Nat
      /\ cached \in Seq(BOOLEAN) /\ Len(cached) = Len(chores)
  BY DEF IndInv, TypeOK
<1>4. /\ chores' \in Seq(Chore) /\ Len(chores') = Len(chores) + n
      /\ \A i \in 1 .. Len(chores) : chores'[i] = chores[i]
      /\ \A i \in Len(chores) + 1 .. Len(chores') :
            chores'[i].by = c /\ chores'[i].complete = FALSE
  <2>1. chores' = Appended(c, n)
    BY <1>1
  <2>2. /\ chores' \in Seq(Chore) /\ Len(chores') = Len(chores) + n
        /\ \A i \in 1 .. Len(chores) : chores'[i] = chores[i]
        /\ \A i \in Len(chores) + 1 .. Len(chores) + n :
              chores'[i] = [by |-> c, complete |-> FALSE]
    BY <1>2, <1>3, <2>1, AppendedFacts
  <2> QED
    BY <2>2
<1>5. /\ cached' \in Seq(BOOLEAN) /\ Len(cached') = Len(chores')
      /\ \A i \in 1 .. Len(chores) : cached'[i] = cached[i]
      /\ \A i \in Len(chores) + 1 .. Len(chores') : cached'[i] = FALSE
  <2>1. Len(chores') \in Nat
    BY <1>2, <1>3, <1>4
  <2>2. \A i \in 1 .. Len(cached) : cached[i] \in BOOLEAN
    BY <1>3
  <2>3. cached' \in [1 .. Len(chores') -> BOOLEAN]
    <3>1. cached' = [i \in 1 .. Len(chores') |->
                       IF i <= Len(cached) THEN cached[i] ELSE FALSE]
      BY <1>1
    <3>2. ASSUME NEW i \in 1 .. Len(chores')
          PROVE  (IF i <= Len(cached) THEN cached[i] ELSE FALSE) \in BOOLEAN
      <4>1. CASE i <= Len(cached)
        <5>1. i \in 1 .. Len(cached)
          BY <1>3, <2>1, <4>1
        <5> QED
          BY <2>2, <4>1, <5>1
      <4>2. CASE ~(i <= Len(cached))
        BY <4>2
      <4> QED
        BY <4>1, <4>2
    <3> QED
      BY <3>1, <3>2
  <2>4. cached' \in Seq(BOOLEAN) /\ Len(cached') = Len(chores')
    BY <2>1, <2>3
  <2>5. \A i \in 1 .. Len(chores) : cached'[i] = cached[i]
    BY <1>1, <1>2, <1>3, <1>4
  <2>6. \A i \in Len(chores) + 1 .. Len(chores') : cached'[i] = FALSE
    BY <1>1, <1>2, <1>3, <1>4
  <2> QED
    BY <2>4, <2>5, <2>6
<1>6. /\ stage[c] = "command" /\ kind' = [kind EXCEPT ![c] = "add"]
      /\ number' = [number EXCEPT ![c] = n] /\ stage' = [stage EXCEPT ![c] = "list"]
      /\ UNCHANGED <<typed, len, sized, reply, atList>>
  BY <1>1 DEF Add, Command
<1>7. TypeOK'
  <2>1. \A d \in Clients : Len(reply'[d]) <= sized'[d] /\ sized'[d] <= len'[d]
                           /\ len'[d] <= Len(chores')
    BY <1>2, <1>3, <1>4, <1>6 DEF IndInv, TypeOK
  <2> QED
    BY <1>2, <1>4, <1>5, <1>6, <2>1 DEF IndInv, TypeOK, Working
<1>8. Grown
  BY <1>2, <1>3, <1>4, <1>5 DEF Grown
<1>9. \A d \in Clients : Waits(d)
  BY <1>6 DEF IndInv, TypeOK, Waits
<1>10. \A i \in 1 .. Len(chores') : cached'[i] => chores'[i].complete
  BY <1>3, <1>4, <1>5 DEF IndInv
<1>11. ASSUME NEW d \in Clients
       PROVE  Listed(d)'
  BY <1>8, <1>9, ListedKept DEF IndInv
<1>12. ASSUME NEW d \in Clients, d # c
       PROVE  Done(d)'
  BY <1>4, <1>6, <1>8, <1>9, <1>12, DoneKept DEF IndInv, TypeOK
<1>13. Done(c)'
  BY <1>2, <1>6 DEF IndInv, TypeOK, Done
<1>14. ASSUME NEW d \in Clients, kind'[d] = "add"
       PROVE  \E i \in 0 .. Len(chores') - number'[d] :
                 \A j \in 1 .. Len(chores') :
                    chores'[j].by = d <=> j \in i + 1 .. i + number'[d]
  <2>1. CASE d = c
    <3>1. kind[c] # "add"
      BY <1>6 DEF IndInv, Done
    <3>2. \A j \in 1 .. Len(chores) : chores'[j].by # c
      BY <1>4, <3>1 DEF IndInv, Done
    <3>3. number'[c] = n
      BY <1>6 DEF IndInv, TypeOK
    <3>4. \A j \in 1 .. Len(chores') :
             chores'[j].by = c <=> j \in Len(chores) + 1 .. Len(chores) + n
      BY <1>2, <1>3, <1>4, <3>2
    <3> QED
      BY SMTT(40), <1>2, <1>3, <1>4, <2>1, <3>3, <3>4
  <2>2. CASE d # c
    <3>1. kind[d] = "add" /\ number'[d] = number[d] /\ number[d] \in Nat
      BY <1>6, <1>14, <2>2 DEF IndInv, TypeOK, Done
    <3>2. PICK i \in 0 .. Len(chores) - number[d] :
             \A j \in 1 .. Len(chores) :
                chores[j].by = d <=> j \in i + 1 .. i + number[d]
      BY <3>1 DEF IndInv, AddsAreKept
    <3>3. \A j \in 1 .. Len(chores') :
             chores'[j].by = d <=> j \in i + 1 .. i + number[d]
      BY SMTT(40), <1>2, <1>3, <1>4, <2>2, <3>1, <3>2
    <3>4. i \in 0 .. Len(chores') - number[d]
      BY <1>2, <1>3, <1>4, <3>1, <3>2
    <3> QED
      BY <3>1, <3>3, <3>4
  <2> QED
    BY <2>1, <2>2
<1>15. AddsAreKept'
  BY <1>14 DEF AddsAreKept
<1> QED
  BY <1>7, <1>10, <1>11, <1>12, <1>13, <1>15 DEF IndInv

\* Complete: one mark is set, or the client ends with an error.
LEMMA CompleteStep ==
    ASSUME Parameters, IndInv, NEW c \in Clients, Complete(c)
    PROVE  IndInv'
<1>1. PICK i \in Typed :
         /\ typed' = [typed EXCEPT ![c] = i]
         /\ IF Int32(i) \in 1 .. Len(chores)
            THEN /\ Command(c, "complete", Int32(i), "list")
                 /\ chores' = Marked(chores, Int32(i))
            ELSE /\ Command(c, "complete", Int32(i), "error")
                 /\ UNCHANGED chores
  BY DEF Complete
<1>2. Int32(i) \in -(Wrap \div 2) .. Wrap \div 2 - 1
  BY Int32Facts DEF Parameters
<1>3. /\ chores \in Seq(Chore) /\ Len(chores) \in Nat
      /\ cached \in Seq(BOOLEAN) /\ Len(cached) = Len(chores)
  BY DEF IndInv, TypeOK
<1>4. /\ stage[c] = "command" /\ kind' = [kind EXCEPT ![c] = "complete"]
      /\ number' = [number EXCEPT ![c] = Int32(i)]
      /\ \E next \in {"list", "error"} : stage' = [stage EXCEPT ![c] = next]
      /\ UNCHANGED <<len, sized, cached, reply, atList>>
  BY <1>1 DEF Complete, Command, encodeVars
<1>5. /\ chores' \in Seq(Chore) /\ Len(chores') = Len(chores)
      /\ \A j \in 1 .. Len(chores) :
            /\ chores'[j].by = chores[j].by
            /\ chores[j].complete => chores'[j].complete
  <2>1. CASE Int32(i) \in 1 .. Len(chores)
    BY <1>1, <1>3, <2>1, MarkedFacts
  <2>2. CASE Int32(i) \notin 1 .. Len(chores)
    BY <1>1, <1>3, <2>2
  <2> QED
    BY <2>1, <2>2
<1>6. TypeOK'
  BY <1>1, <1>2, <1>4, <1>5 DEF IndInv, TypeOK, Working, Over
<1>7. Grown
  BY <1>3, <1>4, <1>5 DEF Grown
<1>8. \A d \in Clients : Waits(d)
  BY <1>4 DEF IndInv, TypeOK, Waits
<1>9. \A j \in 1 .. Len(chores') : cached'[j] => chores'[j].complete
  BY <1>3, <1>4, <1>5 DEF IndInv
<1>10. ASSUME NEW d \in Clients
       PROVE  Listed(d)'
  BY <1>7, <1>8, ListedKept DEF IndInv
<1>11. ASSUME NEW d \in Clients, d # c
       PROVE  Done(d)'
  BY SMTT(40), <1>4, <1>5, <1>7, <1>8, <1>11, DoneKept DEF IndInv, TypeOK
<1>12. Done(c)'
  <2>1. kind[c] # "add" /\ kind'[c] = "complete" /\ number'[c] = Int32(i)
    BY <1>4 DEF IndInv, TypeOK, Done
  <2>2. \A j \in 1 .. Len(chores') : chores'[j].by # c
    BY <1>5, <2>1 DEF IndInv, Done
  <2>3. stage'[c] \in {"list", "error"}
    BY <1>4 DEF IndInv, TypeOK
  <2>4. stage'[c] = "list" =>
           Int32(i) \in 1 .. Len(chores') /\ chores'[Int32(i)].complete
    <3>1. CASE Int32(i) \in 1 .. Len(chores)
      BY <1>1, <1>3, <1>5, <3>1, MarkedFacts
    <3>2. CASE Int32(i) \notin 1 .. Len(chores)
      BY <1>1, <3>2 DEF Command, IndInv, TypeOK
    <3> QED
      BY <3>1, <3>2
  <2> QED
    BY <2>1, <2>2, <2>3, <2>4 DEF Done
<1>13. AddsAreKept'
  BY <1>4, <1>5, <1>7, AddsKept DEF IndInv, TypeOK
<1> QED
  BY <1>6, <1>9, <1>10, <1>11, <1>12, <1>13 DEF IndInv

\* List: the response is the list of this moment.
LEMMA ListStep ==
    ASSUME Parameters, IndInv, NEW c \in Clients, List(c)
    PROVE  IndInv'
<1> USE DEF List
<1>1. /\ chores \in Seq(Chore) /\ Len(chores) \in Nat
      /\ len[c] = 0 /\ sized[c] = 0 /\ Len(reply[c]) = 0
  BY DEF IndInv, TypeOK, Listed
<1>2. /\ len'[c] = Len(chores) /\ atList'[c] = chores /\ stage'[c] = "size"
      /\ UNCHANGED <<chores, kind, typed, number, sized, cached, reply>>
      /\ \A d \in Clients : d # c =>
            len'[d] = len[d] /\ atList'[d] = atList[d] /\ stage'[d] = stage[d]
  BY DEF IndInv, TypeOK, encodeVars
<1>3. TypeOK'
  BY <1>1, <1>2 DEF IndInv, TypeOK, Working
<1>4. Grown
  BY <1>1, <1>2 DEF Grown
<1>5. ASSUME NEW d \in Clients, d # c
      PROVE  Listed(d)' /\ Done(d)'
  <2>1. Waits(d)
    BY <1>2, <1>5 DEF Waits
  <2> QED
    BY <1>2, <1>4, <1>5, <2>1, ListedKept, DoneKept DEF IndInv
<1>6. Listed(c)'
  BY <1>1, <1>2 DEF Listed
<1>7. Done(c)'
  BY <1>1, <1>2 DEF IndInv, Done
<1>8. AddsAreKept'
  BY <1>2, <1>4, AddsKept DEF IndInv
<1> QED
  BY <1>2, <1>3, <1>5, <1>6, <1>7, <1>8 DEF IndInv

\* Size: the cache follows the mark.
LEMMA SizeStep ==
    ASSUME Parameters, IndInv, NEW c \in Clients, Size(c)
    PROVE  IndInv'
<1>1. /\ chores \in Seq(Chore) /\ Len(chores) \in Nat
      /\ cached \in Seq(BOOLEAN) /\ Len(cached) = Len(chores)
      /\ len[c] \in Nat /\ sized[c] \in Nat /\ Len(reply[c]) \in Nat
      /\ Len(reply[c]) <= sized[c] /\ sized[c] <= len[c] /\ len[c] <= Len(chores)
  BY DEF IndInv, TypeOK
<1>2. /\ UNCHANGED <<chores, kind, typed, number, len, reply, atList>>
      /\ stage[c] = "size"
  BY DEF Size
<1>3. CASE sized[c] < len[c]
  <2> DEFINE i == sized[c] + 1
  <2>1. /\ sized' = [sized EXCEPT ![c] = i]
        /\ cached' = [cached EXCEPT ![i] = chores[i].complete]
        /\ UNCHANGED stage
    BY <1>3 DEF Size
  <2>2. i \in 1 .. Len(chores) /\ i \in Nat /\ i <= len[c]
    BY <1>1, <1>3
  <2>3. chores[i].complete \in BOOLEAN
    <3>1. chores[i] \in Chore
      BY <1>1, <2>2
    <3> QED
      BY <3>1 DEF Chore
  <2> HIDE DEF i
  <2>4. /\ cached' \in Seq(BOOLEAN) /\ Len(cached') = Len(cached)
        /\ \A j \in 1 .. Len(cached) :
              cached'[j] = IF j = i THEN chores[i].complete ELSE cached[j]
    BY <1>1, <2>1, <2>2, <2>3, ExceptSeq
  <2>5. TypeOK'
    <3>1. \A d \in Clients : Len(reply'[d]) <= sized'[d] /\ sized'[d] <= len'[d]
                             /\ len'[d] <= Len(chores')
      BY <1>1, <1>2, <2>1, <2>2 DEF IndInv, TypeOK, i
    <3> QED
      BY <1>1, <1>2, <2>1, <2>2, <2>4, <3>1 DEF IndInv, TypeOK
  <2>6. \A j \in 1 .. Len(chores) : cached'[j] => chores[j].complete
    BY <1>1, <2>4 DEF IndInv
  <2>7. \A j \in 1 .. Len(chores) : cached[j] => cached'[j]
    BY <1>1, <2>4 DEF IndInv
  <2>8. Grown
    BY <1>1, <1>2, <2>7 DEF Grown
  <2>9. ASSUME NEW d \in Clients, d # c
        PROVE  Listed(d)' /\ Done(d)'
    <3>1. Waits(d)
      BY <1>2, <2>1, <2>9 DEF Waits, IndInv, TypeOK
    <3> QED
      BY <1>2, <2>1, <2>8, <2>9, <3>1, ListedKept, DoneKept DEF IndInv
  <2>10. Listed(c)'
    <3>1. sized'[c] = i /\ len'[c] = len[c] /\ stage'[c] = "size"
      BY <1>2, <2>1 DEF IndInv, TypeOK
    <3>2. \A j \in 1 .. sized[c] : atList[c][j].complete => cached[j]
      BY DEF IndInv, Listed
    <3>3. atList[c][i].complete => chores[i].complete
      BY <2>2 DEF IndInv, Listed
    <3>4. \A j \in 1 .. i : atList[c][j].complete => cached'[j]
      <4> SUFFICES ASSUME NEW j \in 1 .. i, atList[c][j].complete
                   PROVE  cached'[j]
        OBVIOUS
      <4>1. j \in 1 .. Len(cached)
        BY <1>1, <2>2
      <4>2. CASE j = i
        BY <2>4, <3>3, <4>1, <4>2
      <4>3. CASE j # i
        <5>1. j \in 1 .. sized[c]
          BY <1>1, <2>2, <4>3 DEF i
        <5> QED
          BY <2>4, <3>2, <4>1, <4>3, <5>1
      <4> QED
        BY <4>2, <4>3
    <3> QED
      BY <1>2, <3>1, <3>4 DEF IndInv, Listed
  <2>11. Done(c)'
    BY <1>2, <2>1 DEF IndInv, Done
  <2>12. AddsAreKept'
    BY <1>2, <2>8, AddsKept DEF IndInv
  <2> QED
    BY <1>2, <2>5, <2>6, <2>9, <2>10, <2>11, <2>12 DEF IndInv
<1>4. CASE ~(sized[c] < len[c])
  <2>1. /\ stage' = [stage EXCEPT ![c] = "encode"]
        /\ UNCHANGED <<sized, cached>>
    BY <1>4 DEF Size
  <2>2. TypeOK'
    BY <1>2, <2>1 DEF IndInv, TypeOK, Working
  <2>3. Grown
    BY <1>1, <1>2, <2>1 DEF Grown
  <2>4. ASSUME NEW d \in Clients, d # c
        PROVE  Listed(d)' /\ Done(d)'
    <3>1. Waits(d)
      BY <1>2, <2>1, <2>4 DEF Waits, IndInv, TypeOK
    <3> QED
      BY SMTT(40), <1>2, <2>1, <2>3, <2>4, <3>1, ListedKept, DoneKept DEF IndInv, TypeOK
  <2>5. stage'[c] = "encode" /\ sized[c] = len[c]
    BY <1>1, <1>4, <2>1 DEF IndInv, TypeOK
  <2>6. Listed(c)'
    BY <1>2, <2>1, <2>5 DEF IndInv, Listed
  <2>7. Done(c)'
    BY <1>2, <2>1, <2>5 DEF IndInv, Done
  <2>8. AddsAreKept'
    BY <1>2, <2>3, AddsKept DEF IndInv
  <2> QED
    BY <1>2, <2>1, <2>2, <2>4, <2>6, <2>7, <2>8 DEF IndInv
<1> QED
  BY <1>3, <1>4

\* Encode: a chore goes into the response with a mark between the two; if its
\* size is stale, it was completed after List.
LEMMA EncodeStep ==
    ASSUME Parameters, IndInv, NEW c \in Clients, Encode(c)
    PROVE  IndInv'
<1> DEFINE i == Len(reply[c]) + 1
<1>1. /\ chores \in Seq(Chore) /\ Len(chores) \in Nat
      /\ len[c] \in Nat /\ sized[c] = len[c] /\ Len(reply[c]) \in Nat
      /\ Len(reply[c]) <= sized[c] /\ len[c] <= Len(chores)
      /\ reply[c] \in Seq(Chore)
  BY DEF IndInv, TypeOK, Encode, Listed
<1>2. /\ UNCHANGED <<chores, kind, typed, number, len, sized, cached, atList>>
      /\ stage[c] = "encode"
  BY DEF Encode
<1>3. Grown
  BY <1>1, <1>2 DEF Grown
<1>4. AddsAreKept'
  BY <1>2, <1>3, AddsKept DEF IndInv
<1>5. CASE i <= len[c] /\ reply' = [reply EXCEPT ![c] = Append(@, chores[i])]
           /\ cached[i] = chores[i].complete /\ UNCHANGED stage
  <2>1. i \in 1 .. Len(chores) /\ i \in 1 .. len[c] /\ i \in 1 .. sized[c]
    BY <1>1, <1>5
  <2>2. chores[i] \in Chore
    BY <1>1, <2>1
  <2>3. /\ reply'[c] \in Seq(Chore) /\ Len(reply'[c]) = i
        /\ \A j \in 1 .. Len(reply[c]) : reply'[c][j] = reply[c][j]
        /\ reply'[c][i] = chores[i]
        /\ \A d \in Clients : d # c => reply'[d] = reply[d]
    <3>1. /\ reply'[c] = Append(reply[c], chores[i])
          /\ \A d \in Clients : d # c => reply'[d] = reply[d]
      BY <1>5 DEF IndInv, TypeOK
    <3> QED
      BY <1>1, <2>2, <3>1
  <2>4. TypeOK'
    <3>1. reply' \in [Clients -> Seq(Chore)]
      BY <1>5, <2>3 DEF IndInv, TypeOK
    <3>2. \A d \in Clients : Len(reply'[d]) <= sized'[d] /\ sized'[d] <= len'[d]
                             /\ len'[d] <= Len(chores')
      <4>1. Len(reply'[c]) <= sized[c]
        BY <1>1, <2>1, <2>3
      <4>2. \A d \in Clients : Len(reply[d]) <= sized[d] /\ sized[d] <= len[d]
                               /\ len[d] <= Len(chores)
        BY DEF IndInv, TypeOK
      <4>3. \A d \in Clients : d # c => Len(reply'[d]) = Len(reply[d])
        BY <2>3
      <4> QED
        BY <1>2, <4>1, <4>2, <4>3
    <3> QED
      BY <1>2, <1>5, <3>1, <3>2 DEF IndInv, TypeOK
  <2>5. ASSUME NEW d \in Clients, d # c
        PROVE  Listed(d)'
    <3>1. Waits(d)
      BY <1>2, <1>5, <2>3, <2>5 DEF Waits
    <3> QED
      BY <1>3, <3>1, ListedKept DEF IndInv
  <2>6. Listed(c)'
    <3>1. /\ atList[c][i].by = chores[i].by
          /\ atList[c][i].complete => chores[i].complete
      BY <2>1 DEF IndInv, Listed
    <3>2. \A j \in 1 .. Len(reply[c]) :
              /\ reply[c][j].by = chores[j].by
              /\ atList[c][j].complete => reply[c][j].complete
              /\ reply[c][j].complete => chores[j].complete
      BY DEF IndInv, Listed
    <3>3. \A j \in 1 .. i : j = i \/ j \in 1 .. Len(reply[c])
      BY <1>1
    <3>4. \A j \in 1 .. i :
              /\ reply'[c][j].by = chores[j].by
              /\ atList[c][j].complete => reply'[c][j].complete
              /\ reply'[c][j].complete => chores[j].complete
      BY <2>3, <3>1, <3>2, <3>3
    <3> HIDE DEF i
    <3> QED
      BY <1>2, <1>5, <2>3, <3>4 DEF IndInv, Listed
  <2>7. ASSUME NEW d \in Clients
        PROVE  Done(d)'
    BY <1>2, <1>5 DEF IndInv, Done
  <2> QED
    BY <1>2, <1>4, <2>4, <2>5, <2>6, <2>7 DEF IndInv
<1>6. CASE i <= len[c] /\ cached[i] # chores[i].complete /\ UNCHANGED reply
           /\ stage' = [stage EXCEPT ![c] = "error"]
  <2>1. i \in 1 .. Len(chores) /\ i \in 1 .. len[c] /\ i \in 1 .. sized[c]
    BY <1>1, <1>6
  <2>2. stage'[c] = "error" /\ \A d \in Clients : d # c => stage'[d] = stage[d]
    BY <1>6 DEF IndInv, TypeOK
  <2>3. TypeOK'
    BY <1>2, <1>6 DEF IndInv, TypeOK, Over
  <2>4. ASSUME NEW d \in Clients, d # c
        PROVE  Listed(d)' /\ Done(d)'
    <3>1. Waits(d)
      BY <1>2, <1>6, <2>2, <2>4 DEF Waits
    <3> QED
      BY <1>2, <1>3, <2>2, <2>4, <3>1, ListedKept, DoneKept DEF IndInv
  <2>5. chores[i].complete /\ ~atList[c][i].complete
    <3>1. chores[i].complete \in BOOLEAN /\ cached[i] \in BOOLEAN
      <4>1. chores[i] \in Chore
        BY <1>1, <2>1
      <4>2. cached[i] \in BOOLEAN
        BY <1>1, <2>1 DEF IndInv, TypeOK
      <4> QED
        BY <4>1, <4>2 DEF Chore
    <3>2. cached[i] => chores[i].complete
      BY <2>1 DEF IndInv
    <3>3. atList[c][i].complete => cached[i]
      BY <2>1 DEF IndInv, Listed
    <3> HIDE DEF i
    <3>4. cached[i] # chores[i].complete
      BY <1>6
    <3> QED
      BY <3>1, <3>2, <3>3, <3>4
  <2>6. Listed(c)'
    <3> HIDE DEF i
    <3> QED
      BY <1>2, <1>6, <2>1, <2>2, <2>5 DEF IndInv, Listed
  <2>7. Done(c)'
    BY <1>2, <2>2 DEF IndInv, Done
  <2> QED
    BY <1>2, <1>4, <2>3, <2>4, <2>6, <2>7 DEF IndInv
<1>7. CASE i > len[c] /\ UNCHANGED reply /\ stage' = [stage EXCEPT ![c] = "ok"]
  <2>1. Len(reply[c]) = len[c]
    BY <1>1, <1>7
  <2>2. stage'[c] = "ok" /\ \A d \in Clients : d # c => stage'[d] = stage[d]
    BY <1>7 DEF IndInv, TypeOK
  <2>3. TypeOK'
    BY <1>2, <1>7 DEF IndInv, TypeOK, Over
  <2>4. ASSUME NEW d \in Clients, d # c
        PROVE  Listed(d)' /\ Done(d)'
    <3>1. Waits(d)
      BY <1>2, <1>7, <2>2, <2>4 DEF Waits
    <3> QED
      BY <1>2, <1>3, <2>2, <2>4, <3>1, ListedKept, DoneKept DEF IndInv
  <2>5. Listed(c)'
    BY <1>1, <1>2, <1>7, <2>1, <2>2 DEF IndInv, Listed
  <2>6. Done(c)'
    BY <1>2, <2>2 DEF IndInv, Done
  <2> QED
    BY <1>2, <1>4, <2>3, <2>4, <2>5, <2>6 DEF IndInv
<1> QED
  BY <1>5, <1>6, <1>7 DEF Encode

\* Unavailable: a lost connection changes nothing of the service.
LEMMA UnavailableStep ==
    ASSUME Parameters, IndInv, NEW c \in Clients, Unavailable(c)
    PROVE  IndInv'
<1>1. /\ UNCHANGED <<chores, kind, typed, number, len, sized, cached, reply, atList>>
      /\ stage' = [stage EXCEPT ![c] = "unavailable"]
  BY DEF Unavailable, encodeVars
<1>2. TypeOK'
  BY <1>1 DEF IndInv, TypeOK, Over
<1>3. Grown
  BY <1>1 DEF Grown, IndInv, TypeOK
<1>4. ASSUME NEW d \in Clients
      PROVE  Listed(d)' /\ Done(d)'
  <2>1. stage'[d] \in {stage[d], "unavailable"}
    BY <1>1 DEF IndInv, TypeOK
  <2>2. Waits(d)
    BY <1>1, <2>1 DEF Waits
  <2> QED
    BY <1>1, <1>3, <2>1, <2>2, ListedKept, DoneKept DEF IndInv
<1>5. AddsAreKept'
  BY <1>1, <1>3, AddsKept DEF IndInv
<1> QED
  BY <1>1, <1>2, <1>4, <1>5 DEF IndInv

-----------------------------------------------------------------------------
(* The theorems.                                                            *)

\* The invariant holds at the start.
LEMMA InitFacts ==
    ASSUME Parameters, Init
    PROVE  IndInv
<1>1. 0 \in -(Wrap \div 2) .. Wrap \div 2 - 1
  BY DEF Parameters
<1>2. TypeOK
  BY <1>1 DEF Init, TypeOK, Working
<1>3. ASSUME NEW c \in Clients
      PROVE  Listed(c) /\ Done(c)
  <2>1. /\ stage[c] = "command" /\ kind[c] = "none" /\ len[c] = 0 /\ sized[c] = 0
        /\ atList[c] = <<>> /\ reply[c] = <<>> /\ chores = <<>>
    BY DEF Init
  <2>2. Listed(c)
    BY <2>1 DEF Listed
  <2>3. Done(c)
    BY <2>1 DEF Done
  <2> QED
    BY <2>2, <2>3
<1>4. AddsAreKept
  BY DEF Init, AddsAreKept
<1> QED
  BY <1>2, <1>3, <1>4 DEF IndInv, Init

\* A step that changes nothing.
LEMMA Stutter ==
    ASSUME IndInv, UNCHANGED vars
    PROVE  IndInv'
<1>1. UNCHANGED <<chores, stage, kind, typed, number, len, sized, cached, reply, atList>>
  BY DEF vars, encodeVars
<1>2. TypeOK'
  BY <1>1 DEF IndInv, TypeOK
<1>3. Grown
  BY <1>1 DEF Grown, IndInv, TypeOK
<1>4. \A c \in Clients : Waits(c)
  BY <1>1 DEF Waits
<1>5. ASSUME NEW c \in Clients
      PROVE  Listed(c)' /\ Done(c)'
  BY <1>1, <1>3, <1>4, ListedKept, DoneKept DEF IndInv
<1>6. AddsAreKept'
  BY <1>1, <1>3, AddsKept DEF IndInv
<1> QED
  BY <1>1, <1>2, <1>5, <1>6 DEF IndInv

\* Every step keeps the inductive invariant of the service and its clients:
\* each Add, Complete, List and encoding of chapter12/server/robot.go.
THEOREM ServiceInductive == ASSUME Parameters PROVE Spec => []IndInv
<1>1. Init => IndInv
  BY InitFacts
<1>2. IndInv /\ [Next]_vars => IndInv'
  <2> SUFFICES ASSUME IndInv, [Next]_vars
               PROVE  IndInv'
    OBVIOUS
  <2>1. CASE Next
    BY <2>1, NothingStep, AddStep, CompleteStep, ListStep, SizeStep, EncodeStep,
       UnavailableStep DEF Next
  <2>2. CASE UNCHANGED vars
    BY <2>2, Stutter
  <2> QED
    BY <2>1, <2>2
<1> QED
  BY <1>1, <1>2, PTL DEF Spec

\* The variables of the service keep their types, int32 numbers theirs.
THEOREM ServiceTypes == ASSUME Parameters PROVE Spec => []TypeOK
<1>1. IndInv => TypeOK
  BY DEF IndInv
<1> QED
  BY <1>1, ServiceInductive, PTL

\* Rosie.Add loses no chore and separates no batch, for any number of clients
\* and whatever overlaps.
THEOREM BatchesKept == ASSUME Parameters PROVE Spec => []AddsAreKept
<1>1. IndInv => AddsAreKept
  BY DEF IndInv
<1> QED
  BY <1>1, ServiceInductive, PTL

\* What Rosie.List hands out without its mutex is encoded with marks between
\* those it saw and those of now, and fails only on a chore completed since.
THEOREM ResponsesBounded == ASSUME Parameters PROVE Spec => []ResponseIsBounded
<1>1. IndInv => ResponseIsBounded
  <2> SUFFICES ASSUME IndInv, NEW c \in Clients, stage[c] \in Over
               PROVE  /\ stage[c] = "ok" =>
                            /\ Len(reply[c]) = Len(atList[c])
                            /\ \A i \in DOMAIN reply[c] :
                                  /\ reply[c][i].by = atList[c][i].by
                                  /\ atList[c][i].complete => reply[c][i].complete
                                  /\ reply[c][i].complete => chores[i].complete
                      /\ stage[c] = "error" /\ len[c] > 0 =>
                            \E i \in DOMAIN atList[c] :
                               chores[i].complete /\ ~atList[c][i].complete
    BY DEF ResponseIsBounded
  <2>1. /\ DOMAIN reply[c] = 1 .. Len(reply[c]) /\ DOMAIN atList[c] = 1 .. Len(atList[c])
        /\ Len(reply[c]) <= len[c] /\ Len(atList[c]) = len[c]
        /\ Len(reply[c]) \in Nat /\ len[c] \in Nat
    BY DEF IndInv, TypeOK, Listed
  <2>2. stage[c] = "ok" => Len(reply[c]) = len[c]
    BY DEF IndInv, Listed
  <2>3. \A i \in 1 .. Len(reply[c]) :
           /\ reply[c][i].by = atList[c][i].by
           /\ atList[c][i].complete => reply[c][i].complete
           /\ reply[c][i].complete => chores[i].complete
    BY <2>1 DEF IndInv, Listed
  <2>4. stage[c] = "error" /\ len[c] > 0 =>
           \E i \in 1 .. len[c] : chores[i].complete /\ ~atList[c][i].complete
    BY DEF IndInv, Listed
  <2> QED
    BY <2>1, <2>2, <2>3, <2>4
<1> QED
  BY <1>1, ServiceInductive, PTL

-----------------------------------------------------------------------------
(* The number of a CompleteRequest.                                         *)

\* int32(i) is i if an int32 holds i.
LEMMA Int32Fits ==
    ASSUME Parameters, NEW i \in -(Wrap \div 2) .. Wrap \div 2 - 1
    PROVE  Int32(i) = i
<1> DEFINE h == Wrap \div 2
<1>1. h \in Nat /\ Wrap \in Nat /\ Wrap = 2 * h /\ Wrap > 0
  BY DEF Parameters
<1> HIDE DEF h
<1>2. i \in Int /\ i + h \in 0 .. Wrap - 1
  BY <1>1 DEF h
<1>3. (i + h) % Wrap = i + h
  BY <1>1, <1>2
<1> QED
  BY <1>1, <1>2, <1>3 DEF Int32, h

Asked == \A c \in Clients : kind[c] = "complete" => number[c] = Int32(typed[c])

LEMMA AskedStep ==
    ASSUME Parameters, TypeOK, Asked, [Next]_vars PROVE Asked'
<1>1. ASSUME NEW c \in Clients, Nothing(c) \/ Add(c) PROVE Asked'
  <2>1. \/ Command(c, "none", 0, "list")
        \/ \E n \in 1 .. MaxBatch : Command(c, "add", n, "list")
    BY <1>1 DEF Nothing, Add
  <2>2. /\ typed' = typed /\ kind'[c] # "complete"
        /\ \A d \in Clients : d # c => kind'[d] = kind[d] /\ number'[d] = number[d]
    BY <1>1, <2>1 DEF Nothing, Add, Command, TypeOK
  <2> QED
    BY <2>2 DEF Asked, Int32
<1>2. ASSUME NEW c \in Clients, Complete(c) PROVE Asked'
  <2>1. PICK i \in Typed : /\ typed' = [typed EXCEPT ![c] = i]
                          /\ number' = [number EXCEPT ![c] = Int32(i)]
                          /\ kind' = [kind EXCEPT ![c] = "complete"]
    BY <1>2 DEF Complete, Command
  <2>2. /\ typed'[c] = i /\ number'[c] = Int32(i)
        /\ \A d \in Clients : d # c => /\ kind'[d] = kind[d] /\ number'[d] = number[d]
                                      /\ typed'[d] = typed[d]
    BY <2>1 DEF TypeOK
  <2> QED
    BY <2>2 DEF Asked, Int32
<1>3. ASSUME NEW c \in Clients,
             List(c) \/ Size(c) \/ Encode(c) \/ Unavailable(c)
      PROVE  Asked'
  BY <1>3 DEF List, Size, Encode, Unavailable, Asked, Int32
<1>4. CASE UNCHANGED vars
  BY <1>4 DEF vars, Asked, Int32
<1> QED
  BY <1>1, <1>2, <1>3, <1>4 DEF Next

\* A run of client.go that ends well has shown what it added or completed,
\* and completed the chore that was typed if an int32 holds its number.
THEOREM ClientsSeeChanges == ASSUME Parameters PROVE Spec => []ClientSeesItsChange
<1>1. IndInv /\ Asked => ClientSeesItsChange
  <2> SUFFICES ASSUME IndInv, Asked, NEW c \in Clients, stage[c] = "ok"
               PROVE  /\ kind[c] = "complete" =>
                            /\ reply[c][number[c]].complete
                            /\ typed[c] \in -(Wrap \div 2) .. Wrap \div 2 - 1 =>
                                  number[c] = typed[c]
                      /\ kind[c] = "add" =>
                            \A i \in DOMAIN chores :
                               chores[i].by = c => i \in DOMAIN reply[c] /\ reply[c][i].by = c
    BY DEF ClientSeesItsChange
  <2>1. /\ DOMAIN reply[c] = 1 .. Len(reply[c]) /\ DOMAIN chores = 1 .. Len(chores)
        /\ Len(reply[c]) = len[c] /\ len[c] \in Nat /\ len[c] <= Len(chores)
    BY DEF IndInv, TypeOK, Listed
  <2>2. \A i \in 1 .. len[c] :
           /\ reply[c][i].by = chores[i].by
           /\ atList[c][i].complete => reply[c][i].complete
    BY <2>1 DEF IndInv, Listed
  <2>3. kind[c] = "complete" =>
           number[c] \in 1 .. len[c] /\ atList[c][number[c]].complete
    BY <2>1 DEF IndInv, Done
  <2>4. kind[c] = "add" => \A j \in 1 .. Len(chores) : chores[j].by = c => j <= len[c]
    BY DEF IndInv, Done
  <2>5. kind[c] = "complete" /\ typed[c] \in -(Wrap \div 2) .. Wrap \div 2 - 1
        => number[c] = typed[c]
    BY Int32Fits DEF Asked
  <2> QED
    BY <2>1, <2>2, <2>3, <2>4, <2>5
<1>2. Init => Asked
  BY DEF Init, Asked
<1>3. TypeOK /\ Asked /\ [Next]_vars => Asked'
  BY AskedStep
<1>4. IndInv => TypeOK
  BY DEF IndInv
<1> QED
  BY <1>1, <1>2, <1>3, <1>4, ServiceInductive, PTL DEF Spec

-----------------------------------------------------------------------------
(* The refinement.                                                          *)

\* An Add is an Add of the abstract list.
LEMMA AddIsAdd ==
    ASSUME Parameters, IndInv, NEW c \in Clients, Add(c)
    PROVE  ChoresOf!Add
<1>1. PICK n \in 1 .. MaxBatch :
         Command(c, "add", n, "list") /\ chores' = Appended(c, n)
  BY DEF Add
<1>2. n \in Nat /\ n > 0 /\ chores \in Seq(Chore) /\ Len(chores) \in Nat
  BY DEF Parameters, IndInv, TypeOK
<1>3. /\ chores' \in Seq(Chore) /\ Len(chores') = Len(chores) + n
      /\ \A i \in 1 .. Len(chores) : chores'[i] = chores[i]
      /\ \A i \in Len(chores) + 1 .. Len(chores') :
            chores'[i] = [by |-> c, complete |-> FALSE]
  BY <1>1, <1>2, AppendedFacts
<1>4. \A j \in 1 .. Len(chores) : chores[j].by # c
  BY <1>1, <1>2 DEF IndInv, Done, Command
<1>5. SubSeq(chores', 1, Len(chores)) = chores
  <2> DEFINE first == SubSeq(chores', 1, Len(chores))
  <2>1. /\ first \in Seq(Chore) /\ Len(first) = Len(chores)
        /\ \A i \in 1 .. Len(chores) : first[i] = chores[i]
    BY <1>2, <1>3
  <2> HIDE DEF first
  <2>2. first = chores
    BY <1>2, <2>1, SeqEqual
  <2> QED
    BY <2>2 DEF first
<1>6. \A i \in Len(chores) + 1 .. Len(chores') :
         /\ ~chores'[i].complete /\ chores'[i].by = c
         /\ chores'[Len(chores')].by = c
  BY <1>2, <1>3
<1>7. Len(chores') > Len(chores)
  BY <1>2, <1>3
<1> QED
  BY <1>4, <1>5, <1>6, <1>7 DEF ChoresOf!Add

\* A Complete is a Complete of the abstract list, or leaves it.
LEMMA CompleteIsComplete ==
    ASSUME Parameters, IndInv, NEW c \in Clients, Complete(c)
    PROVE  ChoresOf!Complete \/ UNCHANGED chores
<1>1. PICK i \in Typed :
         \/ Int32(i) \in 1 .. Len(chores) /\ chores' = Marked(chores, Int32(i))
         \/ UNCHANGED chores
  BY DEF Complete
<1>2. CASE Int32(i) \in 1 .. Len(chores) /\ chores' = Marked(chores, Int32(i))
  <2>1. Int32(i) \in DOMAIN chores
    BY <1>2 DEF IndInv, TypeOK
  <2> QED
    BY <1>2, <2>1 DEF Marked, ChoresOf!Complete
<1> QED
  BY <1>1, <1>2

\* The service of robot.go is a chore list that is never lost.
THEOREM ServiceImplements == ASSUME Parameters PROVE Spec => ServiceIsChoreList
<1>1. Init => ChoresOf!Init
  BY DEF Init, ChoresOf!Init
<1>2. IndInv /\ [Next]_vars => [ChoresOf!Next]_(ChoresOf!vars)
  <2> SUFFICES ASSUME IndInv, [Next]_vars
               PROVE  ChoresOf!Add \/ ChoresOf!Complete \/ UNCHANGED chores
    BY DEF ChoresOf!Next, ChoresOf!vars
  <2>1. CASE UNCHANGED vars
    BY <2>1 DEF vars
  <2>2. ASSUME NEW c \in Clients, Add(c)
        PROVE  ChoresOf!Add
    BY <2>2, AddIsAdd
  <2>3. ASSUME NEW c \in Clients, Complete(c)
        PROVE  ChoresOf!Complete \/ UNCHANGED chores
    BY <2>3, CompleteIsComplete
  <2>4. ASSUME NEW c \in Clients,
               Nothing(c) \/ List(c) \/ Size(c) \/ Encode(c) \/ Unavailable(c)
        PROVE  UNCHANGED chores
    BY <2>4 DEF Nothing, List, Size, Encode, Unavailable
  <2> QED
    BY <2>1, <2>2, <2>3, <2>4 DEF Next
<1> QED
  BY <1>1, <1>2, ServiceInductive, PTL DEF Spec, ServiceIsChoreList, ChoresOf!Spec

=============================================================================
