----------------------------- MODULE DataProofs -----------------------------
(***************************************************************************)
(* Proofs about module MCData, for every value of its constants: the        *)
(* requests and the paths of chapters 9 and 13, the data file of chapter    *)
(* 12, the packets of chapter 6 and the stream of chapter 4.                *)
(***************************************************************************)
EXTENDS MCData, SequenceTheorems, FiniteSetTheorems, WellFoundedInduction, TLAPS

(* Induction over the naturals, for a set of them.                          *)

LEMMA Induction ==
    ASSUME NEW S, 0 \in S, \A n \in Nat : n \in S => n + 1 \in S
    PROVE  Nat \subseteq S
<1> DEFINE T == Nat \ S
<1>1. SUFFICES ASSUME T # {} PROVE FALSE
  OBVIOUS
<1>2. PICK m \in T : \A y \in T : ~(<<y, m>> \in OpToRel(<, Nat))
  <2>1. T \subseteq Nat
    OBVIOUS
  <2> HIDE DEF T
  <2> QED
    BY <1>1, <2>1, WFMin, NatLessThanWellFounded
<1>3. m # 0 /\ m \in Nat /\ m - 1 \in Nat
  OBVIOUS
<1>4. m - 1 \in T
  BY <1>3
<1>5. <<m - 1, m>> \in OpToRel(<, Nat)
  BY <1>3 DEF OpToRel
<1> QED
  BY <1>2, <1>4, <1>5

-----------------------------------------------------------------------------
(* Sequences.                                                               *)

LEMMA FunctionIsSeq ==
    ASSUME NEW D, NEW n \in Nat, NEW f \in [1 .. n -> D]
    PROVE  f \in Seq(D) /\ Len(f) = n
<1>1. f \in Seq(D)
  BY SeqDef
<1>2. DOMAIN f = 1 .. n /\ DOMAIN f = 1 .. Len(f) /\ Len(f) \in Nat
  BY <1>1, LenProperties
<1>3. n = Len(f)
  BY <1>2
<1> QED
  BY <1>1, <1>3

\* A concatenation, element by element.
LEMMA ConcatFacts ==
    ASSUME NEW D, NEW s \in Seq(D), NEW t \in Seq(D), NEW d, d = s \o t
    PROVE  /\ d \in Seq(D) /\ Len(d) = Len(s) + Len(t)
           /\ \A i \in 1 .. Len(s) : d[i] = s[i]
           /\ \A i \in 1 .. Len(t) : d[Len(s) + i] = t[i]
<1>1. d \in Seq(D) /\ Len(d) = Len(s) + Len(t)
  BY ConcatProperties
<1>2. \A i \in 1 .. Len(s) + Len(t) :
         d[i] = IF i <= Len(s) THEN s[i] ELSE t[i - Len(s)]
  BY ConcatProperties
<1>3. \A i \in 1 .. Len(s) : d[i] = s[i]
  BY <1>2
<1>4. ASSUME NEW i \in 1 .. Len(t) PROVE d[Len(s) + i] = t[i]
  <2>1. /\ Len(s) + i \in 1 .. Len(s) + Len(t) /\ ~(Len(s) + i <= Len(s))
        /\ (Len(s) + i) - Len(s) = i
    OBVIOUS
  <2> QED
    BY <1>2, <2>1
<1> QED
  BY <1>1, <1>3, <1>4

\* A part of a sequence, element by element.
LEMMA PartFacts ==
    ASSUME NEW S, NEW s \in Seq(S), NEW m \in 1 .. Len(s) + 1, NEW n \in 0 .. Len(s),
           m <= n + 1
    PROVE  /\ SubSeq(s, m, n) \in Seq(S)
           /\ Len(SubSeq(s, m, n)) = n + 1 - m
           /\ \A i \in 1 .. n + 1 - m : SubSeq(s, m, n)[i] = s[m + i - 1]
<1>1. Len(s) \in Nat /\ m \in Int /\ n \in Int
  OBVIOUS
<1>2. \A i \in m .. n : s[i] \in S
  BY <1>1, ElementOfSeq
<1>3. /\ SubSeq(s, m, n) \in Seq(S)
      /\ Len(SubSeq(s, m, n)) = IF m <= n THEN n - m + 1 ELSE 0
      /\ \A i \in 1 .. n - m + 1 : SubSeq(s, m, n)[i] = s[m + i - 1]
  BY <1>1, <1>2, SubSeqProperties
<1>4. n - m + 1 = n + 1 - m
  BY <1>1
<1>5. (IF m <= n THEN n - m + 1 ELSE 0) = n + 1 - m
  BY <1>1
<1> QED
  BY <1>3, <1>4, <1>5

LEMMA ThreeParts ==
    ASSUME NEW D, NEW a \in Seq(D), NEW b \in Seq(D), NEW c \in Seq(D),
           NEW d, d = a \o b \o c
    PROVE  /\ d \in Seq(D) /\ Len(d) = Len(a) + Len(b) + Len(c)
           /\ \A i \in 1 .. Len(a) : d[i] = a[i]
           /\ \A i \in 1 .. Len(b) : d[Len(a) + i] = b[i]
           /\ \A i \in 1 .. Len(c) : d[Len(a) + Len(b) + i] = c[i]
<1> DEFINE e == a \o b
<1>1. /\ e \in Seq(D) /\ Len(e) = Len(a) + Len(b)
      /\ \A i \in 1 .. Len(a) : e[i] = a[i]
      /\ \A i \in 1 .. Len(b) : e[Len(a) + i] = b[i]
  BY ConcatFacts
<1> HIDE DEF e
<1>2. d = e \o c
  BY DEF e
<1>3. /\ d \in Seq(D) /\ Len(d) = Len(e) + Len(c)
      /\ \A i \in 1 .. Len(e) : d[i] = e[i]
      /\ \A i \in 1 .. Len(c) : d[Len(e) + i] = c[i]
  <2>1. e \in Seq(D)
    BY <1>1
  <2> QED
    BY <1>2, <2>1, ConcatFacts
<1>4. Len(a) \in Nat /\ Len(b) \in Nat /\ Len(c) \in Nat
  OBVIOUS
<1>5. \A i \in 1 .. Len(a) : d[i] = a[i]
  BY <1>1, <1>3, <1>4
<1>6. \A i \in 1 .. Len(b) : d[Len(a) + i] = b[i]
  BY <1>1, <1>3, <1>4
<1> QED
  BY <1>1, <1>3, <1>5, <1>6

-----------------------------------------------------------------------------
(* Responses: what the handler, and the wide writer around it, have written. *)

\* Nothing has been written yet.
Untouched(r) ==
    /\ r.status = 0 /\ r.length = 0 /\ r.wideStatus = 0 /\ r.wideLength = 0
    /\ ~r.overruled /\ ~r.implicit

\* The wide writer has the status that the handler named last, and counts what
\* goes through it.
Counts(r) ==
    /\ ~r.implicit
    /\ r.status = 0 <=> r.wideStatus = 0
    /\ r.wideStatus = r.status <=> ~r.overruled
    /\ method # "HEAD" => r.wideLength = r.length
    /\ method = "HEAD" => r.length = 0

\* Methods names the methods it has, before it answers.
Allows(r) ==
    /\ "allow" \in r.fields
    /\ method = "OPTIONS" => r.status = 0
    /\ method # "OPTIONS" => r.status = 405 /\ "allow" \in r.sent

\* What a response looks like once its handler has answered.
Answered(r) ==
    /\ wrap = "wide" => Counts(r)
    /\ next = "methods" /\ wrap # "middleware" /\ method \notin Response!Served
         => Allows(r)

ResponseInv ==
    /\ Response!TypeOK
    /\ pc \in {"default", "methods", "other"} => pc = next
    /\ pc = "read" => method = "POST"
    /\ wrap # "middleware" /\ pc \in {"default", "methods", "read"} => Untouched(w)
    /\ pc \in {"idle", "middleware"} => Untouched(w)
    /\ pc = "middleware" => wrap = "middleware"
    /\ wrap = "wide" /\ pc # "done" => Counts(w)
    /\ pc \in {"drain", "returned", "finish"} => Answered(w)
    /\ logged.written => pc \in {"finish", "done"} /\ wrap = "wide"
    /\ logged.written /\ pc = "finish" => logged = Response!Event(w)
    /\ Response!AllowIsSent
    /\ Response!LoggedAsSentIff

Records ==
    [status : Response!Statuses \cup {0}, fields : SUBSET {"allow", "nosniff"},
     sent : SUBSET {"allow", "nosniff"}, length : Nat,
     wideStatus : Response!Statuses \cup {0}, wideLength : Nat,
     overruled : BOOLEAN, implicit : BOOLEAN]

\* What the calls of http.ResponseWriter make of a record.
LEMMA HeaderKeeps ==
    ASSUME NEW r \in Records, r.sent \subseteq r.fields, NEW s \in Response!Statuses
    PROVE  /\ Response!Header(r, s) \in Records
           /\ Response!Header(r, s).sent \subseteq r.fields
           /\ Response!Header(r, s).fields = r.fields
           /\ Response!Header(r, s).length = r.length
           /\ Response!Header(r, s).wideStatus = r.wideStatus
           /\ Response!Header(r, s).wideLength = r.wideLength
           /\ Response!Header(r, s).overruled = r.overruled
           /\ Response!Header(r, s).implicit = r.implicit
           /\ r.status # 0 => Response!Header(r, s) = r
           /\ r.status = 0 => /\ Response!Header(r, s).status = s
                              /\ Response!Header(r, s).sent = r.fields
<1>1. CASE r.status = 0
  <2> DEFINE h == [r EXCEPT !.status = s, !.sent = r.fields]
  <2>1. /\ h \in Records /\ h.sent = r.fields /\ h.fields = r.fields
        /\ h.length = r.length /\ h.wideStatus = r.wideStatus
        /\ h.wideLength = r.wideLength /\ h.status = s
        /\ h.overruled = r.overruled /\ h.implicit = r.implicit
    BY DEF Records
  <2>2. Response!Header(r, s) = h
    BY <1>1 DEF Response!Header
  <2> HIDE DEF h
  <2> QED
    BY <1>1, <2>1, <2>2
<1>2. CASE r.status # 0
  BY <1>2 DEF Response!Header
<1> QED
  BY <1>1, <1>2

LEMMA WriteHeaderKeeps ==
    ASSUME NEW r \in Records, r.sent \subseteq r.fields, NEW s \in Response!Statuses
    PROVE  /\ Response!WriteHeader(r, s) \in Records
           /\ Response!WriteHeader(r, s).sent \subseteq r.fields
           /\ Response!WriteHeader(r, s).fields = r.fields
           /\ Response!WriteHeader(r, s).length = r.length
           /\ Response!WriteHeader(r, s).wideLength = r.wideLength
           /\ r.status = 0 => /\ Response!WriteHeader(r, s).status = s
                              /\ Response!WriteHeader(r, s).sent = r.fields
           /\ wrap = "wide" /\ Counts(r) => Counts(Response!WriteHeader(r, s))
<1> DEFINE h == Response!Header(r, s)
           over == r.status \notin {0, s}
           told == IF wrap = "wide" THEN s ELSE h.wideStatus
           k == [h EXCEPT !.overruled = over, !.wideStatus = told]
<1>1. /\ h \in Records /\ h.sent \subseteq r.fields /\ h.fields = r.fields
      /\ h.length = r.length /\ h.wideLength = r.wideLength
      /\ h.implicit = r.implicit
      /\ r.status = 0 => h.status = s /\ h.sent = r.fields
      /\ r.status # 0 => h = r
  BY HeaderKeeps
<1>2. Response!WriteHeader(r, s) = k
  BY DEF Response!WriteHeader
<1> HIDE DEF h
<1>3. told \in Response!Statuses \cup {0}
  BY <1>1 DEF Records
<1>4. over \in BOOLEAN
  OBVIOUS
<1>5. wrap = "wide" => told = s
  OBVIOUS
<1>6. over <=> h.status # s
  BY <1>1 DEF Response!Statuses
<1> HIDE DEF told, over
<1>7. /\ k \in Records /\ k.sent = h.sent /\ k.fields = h.fields
      /\ k.length = h.length /\ k.wideLength = h.wideLength
      /\ k.status = h.status /\ k.wideStatus = told
  BY <1>1, <1>3, <1>4 DEF Records
<1>8. k.overruled = over /\ k.implicit = h.implicit
  BY <1>1, Zenon DEF Records
<1> HIDE DEF k
<1>9. wrap = "wide" /\ Counts(r) => Counts(k)
  <2> SUFFICES ASSUME wrap = "wide", Counts(r)
               PROVE  Counts(k)
    OBVIOUS
  <2>1. k.status # 0 /\ k.wideStatus = s /\ s # 0
    BY <1>1, <1>5, <1>7 DEF Response!Statuses
  <2>2. k.wideStatus = k.status <=> ~k.overruled
    BY <1>6, <1>7, <1>8, <2>1
  <2>3. /\ method # "HEAD" => k.wideLength = k.length
        /\ method = "HEAD" => k.length = 0
    BY <1>1, <1>7 DEF Counts
  <2>4. ~k.implicit
    BY <1>1, <1>8 DEF Counts
  <2> QED
    BY <2>1, <2>2, <2>3, <2>4 DEF Counts
<1> QED
  BY <1>1, <1>2, <1>7, <1>9

LEMMA WriteKeeps ==
    ASSUME NEW r \in Records, r.sent \subseteq r.fields
    PROVE  /\ Response!Write(r) \in Records
           /\ Response!Write(r).sent \subseteq r.fields
           /\ Response!Write(r).fields = r.fields
           /\ r.status # 0 => /\ Response!Write(r).status = r.status
                              /\ Response!Write(r).sent = r.sent
           /\ r.status = 0 => Response!Write(r).status = 200
           /\ Response!Write(r).overruled = r.overruled
           /\ Response!Write(r).implicit = r.implicit
           /\ Response!Write(r).length
                = r.length + (IF method = "HEAD" THEN 0 ELSE 1)
           /\ wrap = "wide" =>
                /\ Response!Write(r).wideLength = r.wideLength + 1
                /\ Response!Write(r).wideStatus
                     = IF r.wideStatus = 0 THEN 200 ELSE r.wideStatus
<1> DEFINE h == Response!Header(r, 200)
           more == IF method = "HEAD" THEN 0 ELSE 1
           b == [h EXCEPT !.length = @ + more]
<1>1. /\ h \in Records /\ h.sent \subseteq r.fields /\ h.fields = r.fields
      /\ h.length = r.length /\ h.wideLength = r.wideLength
      /\ h.wideStatus = r.wideStatus
      /\ h.overruled = r.overruled /\ h.implicit = r.implicit
      /\ r.status # 0 => h = r
      /\ r.status = 0 => h.status = 200
  BY HeaderKeeps DEF Response!Statuses
<1>2. Response!Body(r) = b
  BY DEF Response!Body
<1>3. Response!Write(r)
        = IF wrap = "wide"
          THEN [b EXCEPT !.wideLength = @ + 1,
                         !.wideStatus = IF @ = 0 THEN 200 ELSE @]
          ELSE b
  BY <1>2 DEF Response!Write
<1> HIDE DEF h
<1>4. /\ b \in Records /\ b.sent = h.sent /\ b.fields = h.fields
      /\ b.status = h.status
      /\ b.overruled = h.overruled /\ b.implicit = h.implicit
      /\ b.wideLength = h.wideLength /\ b.wideStatus = h.wideStatus
      /\ b.length = h.length + more
  BY <1>1 DEF Records
<1> HIDE DEF b
<1>5. CASE wrap = "wide"
  <2> DEFINE status == IF b.wideStatus = 0 THEN 200 ELSE b.wideStatus
             count == b.wideLength + 1
             c == [b EXCEPT !.wideLength = count, !.wideStatus = status]
  <2>1. status \in Response!Statuses \cup {0}
    BY <1>4 DEF Records, Response!Statuses
  <2>2. Response!Write(r) = c
    BY <1>3, <1>5
  <2>5. count \in Nat
    BY <1>4 DEF Records
  <2> HIDE DEF status, count
  <2>3. /\ c \in Records /\ c.sent = b.sent /\ c.fields = b.fields
        /\ c.status = b.status /\ c.length = b.length
        /\ c.overruled = b.overruled /\ c.implicit = b.implicit
        /\ c.wideLength = count /\ c.wideStatus = status
    BY <1>4, <2>1, <2>5 DEF Records
  <2> HIDE DEF c
  <2>4. status = IF r.wideStatus = 0 THEN 200 ELSE r.wideStatus
    BY <1>1, <1>4 DEF status
  <2> QED
    BY <1>1, <1>4, <2>2, <2>3, <2>4 DEF count
<1>6. CASE wrap # "wide"
  BY <1>1, <1>3, <1>4, <1>6
<1> QED
  BY <1>5, <1>6

LEMMA AddFieldKeeps ==
    ASSUME NEW r \in Records, r.sent \subseteq r.fields,
           NEW f \in {"allow", "nosniff"}
    PROVE  /\ Response!AddField(r, f) \in Records
           /\ Response!AddField(r, f).sent \subseteq Response!AddField(r, f).fields
           /\ f \in Response!AddField(r, f).fields
           /\ r.fields \subseteq Response!AddField(r, f).fields
           /\ Response!AddField(r, f).sent = r.sent
           /\ Response!AddField(r, f).status = r.status
           /\ Response!AddField(r, f).length = r.length
           /\ Response!AddField(r, f).wideStatus = r.wideStatus
           /\ Response!AddField(r, f).wideLength = r.wideLength
           /\ Response!AddField(r, f).overruled = r.overruled
           /\ Response!AddField(r, f).implicit = r.implicit
  BY DEF Response!AddField, Records

\* A Write keeps the account of the wide writer.
LEMMA WriteCounts ==
    ASSUME NEW r \in Records, r.sent \subseteq r.fields, wrap = "wide", Counts(r)
    PROVE  Counts(Response!Write(r))
<1> DEFINE v == Response!Write(r)
<1>1. /\ r.status # 0 => v.status = r.status
      /\ r.status = 0 => v.status = 200
      /\ v.overruled = r.overruled /\ v.implicit = r.implicit
      /\ v.length = r.length + (IF method = "HEAD" THEN 0 ELSE 1)
      /\ v.wideLength = r.wideLength + 1
      /\ v.wideStatus = IF r.wideStatus = 0 THEN 200 ELSE r.wideStatus
  BY WriteKeeps
<1> HIDE DEF v
<1> QED
  BY <1>1 DEF Counts, v

\* http.Error.
LEMMA ErrorKeeps ==
    ASSUME NEW r \in Records, r.sent \subseteq r.fields, NEW s \in Response!Statuses
    PROVE  /\ Response!Error(r, s) \in Records
           /\ Response!Error(r, s).sent \subseteq Response!Error(r, s).fields
           /\ r.fields \subseteq Response!Error(r, s).fields
           /\ r.status = 0 => /\ Response!Error(r, s).status = s
                              /\ r.fields \subseteq Response!Error(r, s).sent
           /\ wrap = "wide" /\ Counts(r) => Counts(Response!Error(r, s))
<1> DEFINE a == Response!AddField(r, "nosniff")
           h == Response!WriteHeader(a, s)
           e == Response!Write(h)
<1>1. /\ a \in Records /\ a.sent \subseteq a.fields /\ r.fields \subseteq a.fields
      /\ a.status = r.status /\ a.length = r.length /\ a.wideLength = r.wideLength
      /\ a.wideStatus = r.wideStatus /\ a.overruled = r.overruled
      /\ a.implicit = r.implicit
  BY AddFieldKeeps
<1> HIDE DEF a
<1>2. /\ h \in Records /\ h.sent \subseteq h.fields /\ h.fields = a.fields
      /\ a.status = 0 => h.status = s /\ h.sent = a.fields
      /\ wrap = "wide" /\ Counts(a) => Counts(h)
  BY <1>1, WriteHeaderKeeps
<1> HIDE DEF h
<1>3. /\ e \in Records /\ e.sent \subseteq e.fields /\ e.fields = h.fields
      /\ h.status # 0 => e.status = h.status /\ e.sent = h.sent
      /\ wrap = "wide" /\ Counts(h) => Counts(e)
  BY <1>2, WriteKeeps, WriteCounts
<1>4. Response!Error(r, s) = e
  BY DEF Response!Error, e, h, a
<1> HIDE DEF e
<1>5. s # 0
  BY DEF Response!Statuses
<1>6. Counts(r) => Counts(a)
  BY <1>1 DEF Counts
<1> QED
  BY <1>1, <1>2, <1>3, <1>4, <1>5, <1>6

LEMMA ResponseInit ==
    ASSUME Response!Parameters, Response!Init
    PROVE  ResponseInv
<1>1. w \in Records
  BY DEF Response!Init, Records, Response!Statuses
<1>2. Response!TypeOK
  <2>1. logged \in [status : Response!Statuses \cup {0}, length : Nat,
                    written : BOOLEAN]
    BY DEF Response!Init, Response!NoEvent
  <2>2. w.sent \subseteq w.fields
    BY DEF Response!Init
  <2>3. left \in 0 .. MaxBody /\ calls \in 0 .. MaxCalls
    BY DEF Response!Init, Response!Parameters
  <2> QED
    BY <1>1, <2>1, <2>2, <2>3
       DEF Response!Init, Response!TypeOK, Records, Response!Verbs
<1> QED
  BY <1>2 DEF Response!Init, ResponseInv, Response!NoEvent, Untouched,
     Response!AllowIsSent, Response!LoggedAsSentIff

\* A step that writes keeps the invariant if what it writes is a record, and
\* agrees with the rest of it.
LEMMA Wrote ==
    ASSUME Response!Parameters, ResponseInv, pc \in {"default", "methods", "read"},
           UNCHANGED <<wrap, next, nils, method, gone, calls, logged>>, left' = left,
           pc' = "drain", w' \in Records, w'.sent \subseteq w'.fields,
           Answered(w')
    PROVE  ResponseInv'
<1>1. Response!TypeOK'
  BY DEF Response!TypeOK, Records, ResponseInv
<1>2. ~logged.written
  BY DEF ResponseInv
<1>3. Answered(w') = Answered(w)'
  BY DEF Answered, Counts, Allows
<1>4. wrap' = "wide" => Counts(w)'
  BY DEF Answered, Counts
<1> QED
  BY <1>1, <1>2, <1>3, <1>4 DEF ResponseInv, Response!AllowIsSent, Response!LoggedAsSentIff

LEMMA ResponseStep ==
    ASSUME Response!Parameters, ResponseInv, [Response!Next]_(Response!vars)
    PROVE  ResponseInv'
<1> USE DEF Response!request
<1>1. /\ w \in Records /\ w.sent \subseteq w.fields
      /\ Response!TypeOK
      /\ wrap = "wide" /\ pc # "done" => Counts(w)
  BY DEF ResponseInv, Response!TypeOK, Records
<1>2. CASE Response!Request
  <2> USE <1>2 DEF Response!Request
  <2>1. Response!TypeOK'
    BY <1>1 DEF Response!TypeOK, Response!Parameters, Response!Served, Response!Verbs
  <2>2. pc' \in {"middleware", "default", "methods", "other"} /\ Untouched(w)
    BY DEF ResponseInv
  <2>3. Untouched(w)'
    BY <2>2 DEF Untouched
  <2>4. ~logged.written
    BY DEF ResponseInv
  <2>5. pc' # "middleware" => pc' = next'
    OBVIOUS
  <2>6. Counts(w)'
    BY <2>3 DEF Untouched, Counts
  <2> QED
    BY <2>1, <2>2, <2>3, <2>4, <2>5, <2>6
       DEF ResponseInv, Response!AllowIsSent, Response!LoggedAsSentIff
<1>3. CASE Response!Middleware
  <2> USE <1>3 DEF Response!Middleware
  <2> DEFINE r == Response!Refuse(w)
  <2>1. r \in Records /\ r.sent \subseteq r.fields
    BY <1>1, ErrorKeeps DEF Response!Refuse, Response!Statuses
  <2>2. w' \in Records /\ (w.sent \subseteq w.fields)'
    <3> HIDE DEF r
    <3>1. "nosniff" \in {"allow", "nosniff"}
      OBVIOUS
    <3>2. w' = Response!AddField(r, "nosniff")
      BY DEF r
    <3> QED
      BY <2>1, <3>1, <3>2, AddFieldKeeps
  <2>3. Response!TypeOK'
    BY <1>1, <2>2 DEF Response!TypeOK, Records
  <2>4. wrap = "middleware" /\ ~logged.written
    BY DEF ResponseInv
  <2> QED
    BY <2>3, <2>4, <1>1
       DEF ResponseInv, Response!AllowIsSent, Response!LoggedAsSentIff, Response!TypeOK
<1>4. CASE Response!Default
  <2> USE <1>4 DEF Response!Default
  <2>1. next = "default" /\ (wrap = "wide" => Untouched(w)) /\ 405 \in Response!Statuses
    BY DEF ResponseInv, Response!Statuses
  <2>2. CASE method = "GET"
    <3>1. w' = Response!Write(w) /\ pc' = "drain"
      BY <2>2 DEF Response!Served
    <3>2. w' \in Records /\ w'.sent \subseteq w'.fields
      BY <1>1, <3>1, WriteKeeps
    <3>3. Answered(w')
      BY <1>1, <2>1, <3>1, WriteCounts DEF Answered
    <3> QED
      BY <3>1, <3>2, <3>3, Wrote
  <2>3. CASE method = "POST"
    <3>1. pc' = "read" /\ w' = w
      BY <2>3 DEF Response!Served
    <3> QED
      BY <1>1, <2>3, <3>1
         DEF ResponseInv, Response!AllowIsSent, Response!LoggedAsSentIff,
             Response!TypeOK, Untouched, Counts
  <2>4. CASE method \notin Response!Served
    <3>1. w' = Response!Error(w, 405) /\ pc' = "drain"
      BY <2>4 DEF Response!Served
    <3>2. w' \in Records /\ w'.sent \subseteq w'.fields
      BY <1>1, <2>1, <3>1, ErrorKeeps
    <3>3. Answered(w')
      BY <1>1, <2>1, <3>1, ErrorKeeps DEF Answered
    <3> QED
      BY <3>1, <3>2, <3>3, Wrote
  <2> QED
    BY <2>2, <2>3, <2>4
<1>5. CASE Response!Methods
  <2> USE <1>5 DEF Response!Methods
  <2>1. /\ wrap # "middleware" => Untouched(w)
        /\ 405 \in Response!Statuses /\ 500 \in Response!Statuses
    BY DEF ResponseInv, Response!Statuses
  <2>2. CASE method \in nils
    <3>1. w' = Response!Error(w, 500) /\ pc' = "drain" /\ method \in Response!Served
      BY <1>1, <2>2 DEF Response!TypeOK
    <3>2. w' \in Records /\ w'.sent \subseteq w'.fields
      BY <1>1, <2>1, <3>1, ErrorKeeps
    <3>3. Answered(w')
      BY <1>1, <2>1, <3>1, ErrorKeeps DEF Answered
    <3> QED
      BY <3>1, <3>2, <3>3, Wrote
  <2>3. CASE method = "GET" /\ method \notin nils
    <3>1. w' = Response!Write(w) /\ pc' = "drain" /\ method \in Response!Served
      BY <2>3 DEF Response!Served
    <3>2. w' \in Records /\ w'.sent \subseteq w'.fields
      BY <1>1, <3>1, WriteKeeps
    <3>3. Answered(w')
      BY <1>1, <2>1, <3>1, WriteCounts DEF Answered
    <3> QED
      BY <3>1, <3>2, <3>3, Wrote
  <2>4. CASE method = "POST" /\ method \notin nils
    <3>1. pc' = "read" /\ w' = w
      BY <2>4 DEF Response!Served
    <3> QED
      BY <1>1, <2>4, <3>1
         DEF ResponseInv, Response!AllowIsSent, Response!LoggedAsSentIff,
             Response!TypeOK, Untouched, Counts
  <2>5. CASE method \notin Response!Served
    <3>1. w' = Response!NotAllowed(w) /\ pc' = "drain"
      BY <1>1, <2>5 DEF Response!Served, Response!TypeOK
    <3> DEFINE r == Response!AddField(w, "allow")
    <3>2. /\ r \in Records /\ r.sent \subseteq r.fields /\ "allow" \in r.fields
          /\ r.status = w.status /\ (Untouched(w) => Untouched(r))
      BY <1>1, AddFieldKeeps DEF Untouched
    <3>3. wrap = "wide" => Counts(r)
      BY <1>1, AddFieldKeeps DEF Counts
    <3>4. CASE method = "OPTIONS"
      <4>1. w' = r
        BY <3>1, <3>4 DEF Response!NotAllowed
      <4> HIDE DEF r
      <4>2. Answered(r)
        BY <2>1, <3>2, <3>3, <3>4 DEF Answered, Untouched, Allows, Response!Statuses
      <4> QED
        BY <3>1, <3>2, <4>1, <4>2, Wrote
    <3>5. CASE method # "OPTIONS"
      <4>1. w' = Response!Error(r, 405)
        BY <3>1, <3>5 DEF Response!NotAllowed
      <4> HIDE DEF r
      <4>2. w' \in Records /\ w'.sent \subseteq w'.fields
        BY <2>1, <3>2, <4>1, ErrorKeeps
      <4>3. wrap = "wide" => Counts(w')
        BY <2>1, <3>2, <3>3, <4>1, ErrorKeeps
      <4>4. wrap # "middleware" => Allows(w')
        BY <2>1, <3>2, <3>5, <4>1, ErrorKeeps DEF Allows, Untouched
      <4>5. Answered(w')
        BY <4>3, <4>4 DEF Answered
      <4> QED
        BY <3>1, <4>2, <4>5, Wrote
    <3> QED
      BY <3>4, <3>5
  <2> QED
    BY <2>2, <2>3, <2>4, <2>5
<1>6. CASE Response!ReadPiece
  <2> USE <1>6 DEF Response!ReadPiece
  <2>1. Response!TypeOK'
    BY <1>1 DEF Response!TypeOK, Response!Parameters
  <2> QED
    BY <2>1 DEF ResponseInv, Response!AllowIsSent, Response!LoggedAsSentIff,
       Untouched, Answered, Counts, Allows
<1>7. CASE Response!ReadAll
  <2> USE <1>7 DEF Response!ReadAll
  <2>1. method \in Response!Served /\ (wrap = "wide" => Untouched(w))
    BY DEF ResponseInv, Response!Served
  <2>2. w' \in Records /\ w'.sent \subseteq w'.fields
    BY <1>1, WriteKeeps
  <2>3. Answered(w')
    BY <1>1, <2>1, WriteCounts DEF Answered
  <2> QED
    BY <2>2, <2>3, Wrote
<1>8. CASE Response!ReadFail
  <2> USE <1>8 DEF Response!ReadFail
  <2>1. /\ method \in Response!Served /\ (wrap = "wide" => Untouched(w))
        /\ 500 \in Response!Statuses
    BY DEF ResponseInv, Response!Served, Response!Statuses
  <2>2. w' \in Records /\ w'.sent \subseteq w'.fields
    BY <1>1, <2>1, ErrorKeeps
  <2>3. Answered(w')
    BY <1>1, <2>1, ErrorKeeps DEF Answered
  <2> QED
    BY <2>2, <2>3, Wrote
<1>9. CASE Response!Drained
  BY <1>1, <1>9 DEF Response!Drained, ResponseInv, Response!AllowIsSent,
     Response!LoggedAsSentIff, Answered, Counts, Allows, Response!TypeOK
<1>10. CASE Response!OtherCalls
  <2> USE <1>10 DEF Response!OtherCalls
  <2>1. w' \in Records /\ w'.sent \subseteq w'.fields
    <3>1. CASE w' = Response!Write(w)
      BY <1>1, <3>1, WriteKeeps
    <3>2. ASSUME NEW s \in {200, 404}, w' = Response!WriteHeader(w, s)
          PROVE  w' \in Records /\ w'.sent \subseteq w'.fields
      <4>1. s \in Response!Statuses
        BY DEF Response!Statuses
      <4> QED
        BY <1>1, <3>2, <4>1, WriteHeaderKeeps
    <3> QED
      BY <3>1, <3>2
  <2>2. Response!TypeOK'
    BY <1>1, <2>1 DEF Response!TypeOK, Records, Response!Parameters
  <2>3. wrap = "wide" => Counts(w')
    <3>1. CASE w' = Response!Write(w)
      BY <1>1, <3>1, WriteCounts
    <3>2. ASSUME NEW s \in {200, 404}, w' = Response!WriteHeader(w, s)
          PROVE  wrap = "wide" => Counts(w')
      <4>1. s \in Response!Statuses
        BY DEF Response!Statuses
      <4> QED
        BY <1>1, <3>2, <4>1, WriteHeaderKeeps
    <3> QED
      BY <3>1, <3>2
  <2>4. wrap' = "wide" => Counts(w)'
    BY <2>3 DEF Counts
  <2> QED
    BY <2>2, <2>4 DEF ResponseInv, Response!AllowIsSent, Response!LoggedAsSentIff
<1>11. CASE Response!OtherReturns
  <2> USE <1>11 DEF Response!OtherReturns
  <2>1. Response!TypeOK'
    BY <1>1 DEF Response!TypeOK
  <2>2. wrap' = "wide" => Counts(w)'
    BY <1>1 DEF Counts
  <2>3. next = "other"
    BY DEF ResponseInv
  <2>4. Answered(w)'
    BY <2>2, <2>3 DEF Answered, Counts
  <2> QED
    BY <2>1, <2>2, <2>4 DEF ResponseInv, Response!AllowIsSent,
       Response!LoggedAsSentIff
<1>12. CASE Response!Log
  <2> USE <1>12 DEF Response!Log
  <2>1. Response!TypeOK'
    BY <1>1 DEF Response!TypeOK, Records, Response!Event
  <2>2. /\ logged.written = FALSE
        /\ wrap # "wide" => logged' = logged
        /\ wrap = "wide" => logged' = Response!Event(w)
    BY <1>1 DEF ResponseInv, Response!TypeOK
  <2>3. Response!Event(w)' = Response!Event(w)
    BY DEF Response!Event
  <2>4. Response!LoggedAsSentIff'
    <3> SUFFICES ASSUME wrap = "wide"
                 PROVE  Response!LoggedAsSentIff'
      BY <2>2 DEF Response!LoggedAsSentIff, ResponseInv
    <3>1. Counts(w)
      BY <1>1
    <3> QED
      BY <2>2, <3>1 DEF Response!LoggedAsSentIff, Response!Event, Counts
  <2>5. Answered(w)' /\ (wrap' = "wide" => Counts(w)')
    BY DEF ResponseInv, Answered, Counts, Allows
  <2> QED
    BY <2>1, <2>2, <2>3, <2>4, <2>5 DEF ResponseInv, Response!AllowIsSent
<1>13. CASE Response!Finish
  <2> USE <1>13 DEF Response!Finish
  <2> DEFINE h == Response!Header(w, 200)
             none == (w.status = 0)
  <2>1. 200 \in Response!Statuses
    BY DEF Response!Statuses
  <2>2. /\ h \in Records /\ h.sent \subseteq w.fields /\ h.fields = w.fields
        /\ h.length = w.length /\ h.overruled = w.overruled
        /\ w.status # 0 => h = w
        /\ w.status = 0 => h.status = 200 /\ h.sent = w.fields
    BY <1>1, <2>1, HeaderKeeps
  <2>3. w' = [h EXCEPT !.implicit = none] /\ none \in BOOLEAN
    OBVIOUS
  <2> HIDE DEF h
  <2>4. none <=> w.status = 0
    OBVIOUS
  <2> HIDE DEF none
  <2>5. /\ w' \in Records /\ w'.sent = h.sent /\ w'.fields = h.fields
        /\ w'.length = h.length /\ w'.status = h.status
    BY <2>2, <2>3 DEF Records
  <2>6. w'.implicit = none /\ w'.overruled = h.overruled
    BY <2>2, <2>3, Zenon DEF Records
  <2>7. Response!TypeOK'
    BY <1>1, <2>2, <2>5 DEF Response!TypeOK, Records
  <2>8. Response!AllowIsSent'
    BY <2>2, <2>5 DEF Response!AllowIsSent, ResponseInv, Answered, Allows
  <2>9. Response!LoggedAsSentIff'
    <3> SUFFICES ASSUME logged.written
                 PROVE  /\ logged.status = w'.status <=> ~w'.implicit /\ ~w'.overruled
                        /\ logged.length = w'.length
                             <=> method # "HEAD" \/ logged.length = 0
      BY DEF Response!LoggedAsSentIff
    <3>1. logged = Response!Event(w) /\ Counts(w)
      BY DEF ResponseInv
    <3>2. logged.status = w.wideStatus /\ logged.length = w.wideLength
      BY <3>1 DEF Response!Event
    <3>3. logged.length = w'.length <=> method # "HEAD" \/ logged.length = 0
      BY <2>2, <2>5, <3>1, <3>2 DEF Counts
    <3>4. CASE w.status = 0
      <4>1. logged.status # w'.status
        BY <2>2, <2>5, <3>1, <3>2, <3>4 DEF Counts
      <4>2. w'.implicit
        BY <2>4, <2>6, <3>4
      <4> QED
        BY <3>3, <4>1, <4>2
    <3>5. CASE w.status # 0
      <4>1. logged.status = w'.status <=> ~w.overruled
        BY <2>2, <2>5, <3>1, <3>2, <3>5 DEF Counts
      <4>2. ~w'.implicit /\ w'.overruled = w.overruled
        BY <2>2, <2>4, <2>6, <3>5
      <4> QED
        BY <3>3, <4>1, <4>2
    <3> QED
      BY <3>4, <3>5
  <2> QED
    BY <2>7, <2>8, <2>9 DEF ResponseInv
<1>14. CASE Response!ClientGone
  <2> USE <1>14 DEF Response!ClientGone
  <2>1. Response!TypeOK'
    BY <1>1 DEF Response!TypeOK
  <2> QED
    BY <2>1 DEF ResponseInv, Response!AllowIsSent, Response!LoggedAsSentIff,
       Untouched, Answered, Counts, Allows, Response!Event
<1>15. CASE UNCHANGED Response!vars
  BY <1>15 DEF ResponseInv, Response!AllowIsSent, Response!LoggedAsSentIff,
     Untouched, Answered, Counts, Allows, Response!Event, Response!TypeOK,
     Response!vars
<1> QED
  BY <1>2, <1>3, <1>4, <1>5, <1>6, <1>7, <1>8, <1>9, <1>10, <1>11, <1>12, <1>13,
     <1>14, <1>15 DEF Response!Next

-----------------------------------------------------------------------------
(* Housework: the data file, the list in memory and the list the completed  *)
(* commands stand for.                                                      *)

\* No chore of l is by p.
Absent(p, l) == \A i \in 1 .. Len(l) : l[i].by # p

\* The change o that p was asked for is in l.
Shown(o, p, l) ==
    /\ o.kind = "complete" => l[o.n].complete
    /\ o.kind = "add" => Cardinality({i \in DOMAIN l : l[i].by = p}) = o.n

\* One command runs at a time.
Alone ==
    \A p, q \in Procs :
        proc[p] \in Command!Running /\ proc[q] \in Command!Running => p = q

\* The chores of a command that has not got to its change are nowhere.
Unseen ==
    \A p \in Procs :
        /\ proc[p] \in {"idle", "load"} =>
              Absent(p, file.chores) /\ \A q \in Procs : Absent(p, memory[q])
        /\ proc[p] \in {"idle", "load", "create", "write"} => Absent(p, ledger)

\* Where the change of a command is, once it has made it.
Changed ==
    \A p \in Procs :
        /\ proc[p] \in {"create", "write", "exit"} => Shown(op[p], p, memory[p])
        /\ proc[p] = "list" => Shown(op[p], p, file.chores)

\* What a command between load and the end of Write is about to do to the file.
Pending ==
    \A p \in Procs :
        /\ proc[p] \in {"load", "create", "write"} => op[p].kind # "list"
        /\ proc[p] = "write" => file = Command!Empty
        /\ proc[p] \in {"create", "write"} /\ ~damage =>
              /\ Command!Found(op[p], ledger)
              /\ memory[p] = Command!Apply(p, op[p], ledger)

CommandInv ==
    /\ Alone /\ Unseen /\ Changed /\ Pending
    /\ file.state # "ok" => file.chores = <<>>
    /\ Command!FileIsLedger

\* The two modules count alike.
LEMMA CommandCardinality ==
    \A S : Command!Cardinality(S) = Cardinality(S)
  BY DEF Command!Cardinality, Cardinality

LEMMA OpFacts ==
    ASSUME Command!Parameters, NEW o \in Command!Ops
    PROVE  /\ o.kind \in {"add", "complete", "list"}
           /\ o.n \in Nat
           /\ o.kind = "list" => o.n = 0
  BY DEF Command!Parameters, Command!Ops, Command!Op

\* add puts the new chores behind the others.
LEMMA ApplyAdds ==
    ASSUME Command!Parameters, NEW p \in Procs, NEW o \in Command!Ops,
           NEW l \in Seq(Command!Chores), o.kind = "add"
    PROVE  /\ Command!Apply(p, o, l) \in Seq(Command!Chores)
           /\ Len(Command!Apply(p, o, l)) = Len(l) + o.n
           /\ \A i \in 1 .. Len(l) : Command!Apply(p, o, l)[i] = l[i]
           /\ \A i \in Len(l) + 1 .. Len(l) + o.n :
                 Command!Apply(p, o, l)[i] = Command!Chore(p)
<1> DEFINE r == Command!Apply(p, o, l)
           new == [i \in 1 .. o.n |-> Command!Chore(p)]
<1>1. o.n \in Nat /\ Len(l) \in Nat
  BY OpFacts
<1>2. Command!Chore(p) \in Command!Chores
  BY DEF Command!Chore, Command!Chores
<1>3. new \in Seq(Command!Chores) /\ Len(new) = o.n
  <2>1. new \in [1 .. o.n -> Command!Chores]
    BY <1>2
  <2> HIDE DEF new
  <2> QED
    BY <1>1, <2>1, FunctionIsSeq
<1>4. \A i \in 1 .. o.n : new[i] = Command!Chore(p)
  OBVIOUS
<1>5. r = l \o new
  BY DEF Command!Apply
<1> HIDE DEF new, r
<1>6. r \in Seq(Command!Chores) /\ Len(r) = Len(l) + o.n
  BY <1>3, <1>5, ConcatProperties
<1>7. \A i \in 1 .. Len(l) + o.n :
         r[i] = IF i <= Len(l) THEN l[i] ELSE new[i - Len(l)]
  BY <1>3, <1>5, ConcatProperties
<1>8. \A i \in 1 .. Len(l) : r[i] = l[i]
  BY <1>1, <1>7
<1>9. ASSUME NEW i \in Len(l) + 1 .. Len(l) + o.n PROVE r[i] = Command!Chore(p)
  <2>1. i \in 1 .. Len(l) + o.n /\ ~(i <= Len(l)) /\ i - Len(l) \in 1 .. o.n
    BY <1>1
  <2> QED
    BY <1>4, <1>7, <2>1
<1> QED
  BY <1>6, <1>8, <1>9 DEF r

\* complete marks one chore.
LEMMA ApplyCompletes ==
    ASSUME Command!Parameters, NEW p \in Procs, NEW o \in Command!Ops,
           NEW l \in Seq(Command!Chores), Command!Found(o, l), o.kind # "add"
    PROVE  /\ o.kind = "complete" /\ o.n \in DOMAIN l
           /\ Command!Apply(p, o, l) = [l EXCEPT ![o.n].complete = TRUE]
           /\ Command!Apply(p, o, l) \in Seq(Command!Chores)
           /\ Len(Command!Apply(p, o, l)) = Len(l)
           /\ \A i \in 1 .. Len(l) : Command!Apply(p, o, l)[i].by = l[i].by
           /\ Command!Apply(p, o, l)[o.n].complete = TRUE
<1> DEFINE r == Command!Apply(p, o, l)
           c == [l[o.n] EXCEPT !.complete = TRUE]
<1>1. o.n \in 1 .. Len(l)
  BY DEF Command!Found
<1>2. o.kind = "complete"
  BY <1>1, OpFacts
<1>3. c \in Command!Chores /\ c.by = l[o.n].by /\ c.complete = TRUE
  <2>1. l[o.n] \in Command!Chores
    BY <1>1, ElementOfSeq
  <2> QED
    BY <2>1 DEF Command!Chores
<1>4. r = [l EXCEPT ![o.n] = c] /\ r = [l EXCEPT ![o.n].complete = TRUE]
  BY <1>1 DEF Command!Apply
<1> HIDE DEF c, r
<1>5. /\ r \in Seq(Command!Chores) /\ Len(r) = Len(l)
      /\ \A i \in 1 .. Len(l) : r[i] = IF i = o.n THEN c ELSE l[i]
  BY <1>1, <1>3, <1>4, ExceptSeq
<1>6. \A i \in 1 .. Len(l) : r[i].by = l[i].by
  BY <1>3, <1>5
<1>7. r[o.n].complete = TRUE
  BY <1>1, <1>3, <1>5
<1>8. o.n \in DOMAIN l
  BY <1>1
<1>9. r = [l EXCEPT ![o.n].complete = TRUE]
  BY <1>4
<1> QED
  BY <1>2, <1>5, <1>6, <1>7, <1>8, <1>9 DEF r

LEMMA ApplyType ==
    ASSUME Command!Parameters, NEW p \in Procs, NEW o \in Command!Ops,
           NEW l \in Seq(Command!Chores), Command!Found(o, l)
    PROVE  Command!Apply(p, o, l) \in Seq(Command!Chores)
  BY ApplyAdds, ApplyCompletes

\* A change hides no chore, and adds those of its own process only.
LEMMA ApplyAbsent ==
    ASSUME Command!Parameters, NEW p \in Procs, NEW o \in Command!Ops,
           NEW l \in Seq(Command!Chores), Command!Found(o, l),
           NEW q \in Procs, q # p, Absent(q, l)
    PROVE  Absent(q, Command!Apply(p, o, l))
<1> DEFINE r == Command!Apply(p, o, l)
<1>1. CASE o.kind = "add"
  <2>1. /\ Len(r) = Len(l) + o.n
        /\ \A i \in 1 .. Len(l) : r[i] = l[i]
        /\ \A i \in Len(l) + 1 .. Len(l) + o.n : r[i] = Command!Chore(p)
    BY <1>1, ApplyAdds
  <2>2. o.n \in Nat /\ Len(l) \in Nat
    BY OpFacts
  <2>3. Command!Chore(p).by = p
    BY DEF Command!Chore
  <2> HIDE DEF r
  <2>4. ASSUME NEW i \in 1 .. Len(r) PROVE r[i].by # q
    <3>1. i \in 1 .. Len(l) \/ i \in Len(l) + 1 .. Len(l) + o.n
      BY <2>1, <2>2
    <3> QED
      BY <2>1, <2>3, <3>1 DEF Absent
  <2> QED
    BY <2>4 DEF Absent, r
<1>2. CASE o.kind # "add"
  <2>1. Len(r) = Len(l) /\ \A i \in 1 .. Len(l) : r[i].by = l[i].by
    BY <1>2, ApplyCompletes
  <2> QED
    BY <2>1 DEF Absent
<1> QED
  BY <1>1, <1>2

\* The change of a process whose chores are not in a list shows in the list.
LEMMA ApplyShown ==
    ASSUME Command!Parameters, NEW p \in Procs, NEW o \in Command!Ops,
           NEW l \in Seq(Command!Chores), Command!Found(o, l),
           Absent(p, l)
    PROVE  Shown(o, p, Command!Apply(p, o, l))
<1> DEFINE r == Command!Apply(p, o, l)
<1>1. o.kind = "complete" => r[o.n].complete
  BY ApplyCompletes
<1>2. ASSUME o.kind = "add"
      PROVE  Cardinality({i \in DOMAIN r : r[i].by = p}) = o.n
  <2>0. Len(l) \in Nat /\ o.n \in Nat
    BY OpFacts
  <2>1. /\ r \in Seq(Command!Chores)
        /\ Len(r) = Len(l) + o.n
        /\ \A i \in 1 .. Len(l) : r[i] = l[i]
        /\ \A i \in Len(l) + 1 .. Len(l) + o.n : r[i] = Command!Chore(p)
    BY <1>2, ApplyAdds
  <2> HIDE DEF r
  <2>2. DOMAIN r = 1 .. Len(l) + o.n
    BY <2>1
  <2>3. \A i \in 1 .. Len(l) : r[i].by # p
    BY <2>1 DEF Absent
  <2>4. \A i \in Len(l) + 1 .. Len(l) + o.n : r[i].by = p
    BY <2>1 DEF Command!Chore
  <2>5. {i \in DOMAIN r : r[i].by = p} = Len(l) + 1 .. Len(l) + o.n
    BY <2>0, <2>2, <2>3, <2>4
  <2>6. Len(l) + 1 \in Int /\ Len(l) + o.n \in Int
    BY <2>0
  <2>7. Cardinality(Len(l) + 1 .. Len(l) + o.n)
          = IF Len(l) + 1 > Len(l) + o.n THEN 0 ELSE (Len(l) + o.n) - (Len(l) + 1) + 1
    BY <2>6, FS_Interval, Zenon
  <2>8. Cardinality(Len(l) + 1 .. Len(l) + o.n) = o.n
    BY <2>0, <2>7
  <2> QED
    BY <2>5, <2>8 DEF r
<1> QED
  BY <1>1, <1>2 DEF Shown

\* What Write and a failing Write may leave of two lists.
LEMMA WrittenFacts ==
    ASSUME NEW new \in Seq(Command!Chores), NEW old,
           old.chores \in Seq(Command!Chores), old.state \in {"none", "ok", "corrupt"},
           NEW f \in Command!Written(new, old) \cup Command!Partly(new, old)
    PROVE  f.state \in {"none", "ok", "corrupt"} /\ f.chores \in Seq(Command!Chores)
<1> DEFINE Good(g) == g.state \in {"none", "ok", "corrupt"}
                      /\ g.chores \in Seq(Command!Chores)
<1>6. \A l \in Seq(Command!Chores) : Good(Command!Holding(l))
  BY DEF Command!Holding
<1>7. Good(Command!Corrupt)
  BY DEF Command!Corrupt
<1>8. Good(old)
  OBVIOUS
<1> HIDE DEF Good
<1>1. \A k \in 1 .. Len(new) : SubSeq(new, 1, k) \in Seq(Command!Chores)
  OBVIOUS
<1>2. SubSeq(new, 1, Len(new)) \in Seq(Command!Chores)
  BY SubSeqFull
<1>3. SubSeq(old.chores, Len(new) + 1, Len(old.chores)) \in Seq(Command!Chores)
  <2>1. Len(new) \in Nat /\ Len(old.chores) \in Nat
    OBVIOUS
  <2>2. \A i \in Len(new) + 1 .. Len(old.chores) : old.chores[i] \in Command!Chores
    BY <2>1
  <2> QED
    BY <2>1, <2>2, SubSeqProperties
<1>4. ASSUME f \in Command!Written(new, old) PROVE Good(f)
  <2> DEFINE rest == SubSeq(old.chores, Len(new) + 1, Len(old.chores))
             both == new \o rest
  <2>1. both \in Seq(Command!Chores)
    BY <1>3, ConcatProperties
  <2>2. \/ f = Command!Holding(new) \/ f = Command!Corrupt
        \/ f = Command!Holding(both)
    BY <1>4 DEF Command!Written
  <2> HIDE DEF both
  <2>3. Good(Command!Holding(new)) /\ Good(Command!Holding(both))
    BY <1>6, <2>1
  <2> QED
    BY <1>7, <2>2, <2>3, Zenon
<1>5. ASSUME f \in Command!Partly(new, old) PROVE Good(f)
  <2>1. f = old \/ f = Command!Corrupt
          \/ \E k \in (1 .. Len(new)) \cup {Len(new)} :
                f = Command!Holding(SubSeq(new, 1, k))
    BY <1>5 DEF Command!Partly
  <2>2. ASSUME NEW k \in (1 .. Len(new)) \cup {Len(new)}
        PROVE  Good(Command!Holding(SubSeq(new, 1, k)))
    <3>1. SubSeq(new, 1, k) \in Seq(Command!Chores)
      BY <1>1, <1>2
    <3> QED
      BY <1>6, <3>1
  <2> QED
    BY <1>7, <1>8, <2>1, <2>2, Zenon
<1> QED
  BY <1>4, <1>5 DEF Good

\* Each variable of the command keeps its type, however many run at a time.
LEMMA CommandTypeInit ==
    ASSUME Command!Parameters, Command!Init
    PROVE  Command!TypeOK
<1>1. Command!Op("list", 0) \in Command!Ops
  BY DEF Command!Ops
<1>2. file.state \in {"none", "ok", "corrupt"} /\ file.chores \in Seq(Command!Chores)
  BY DEF Command!Init, Command!NoFile
<1>3. proc \in [Procs -> {"idle"} \cup Command!Running \cup Command!Over]
  BY DEF Command!Init
<1>4. <<>> \in Seq(Command!Chores)
  OBVIOUS
<1>5. ledger \in Seq(Command!Chores) /\ memory \in [Procs -> Seq(Command!Chores)]
  BY <1>4 DEF Command!Init
<1>6. op \in [Procs -> Command!Ops]
  BY <1>1 DEF Command!Init
<1> QED
  BY <1>2, <1>3, <1>5, <1>6 DEF Command!Init, Command!TypeOK

LEMMA CommandTypeStep ==
    ASSUME Command!Parameters, Command!TypeOK, [Command!Next]_(Command!vars)
    PROVE  Command!TypeOK'
<1> USE DEF Command!TypeOK, Command!GoTo, Command!Running, Command!Over
<1>1. ASSUME NEW p \in Procs, Command!Start(p)
      PROVE  Command!TypeOK'
  BY <1>1 DEF Command!Start
<1>2. ASSUME NEW p \in Procs, Command!Load(p)
      PROVE  Command!TypeOK'
  <2> USE <1>2 DEF Command!Load
  <2>1. CASE file.state # "corrupt" /\ Command!Found(op[p], file.chores)
    <3>1. op[p] \in Command!Ops
      OBVIOUS
    <3>2. Command!Apply(p, op[p], file.chores) \in Seq(Command!Chores)
      BY <2>1, <3>1, ApplyType
    <3> QED
      BY <2>1, <3>2
  <2>2. CASE ~(file.state # "corrupt" /\ Command!Found(op[p], file.chores))
    BY <2>2
  <2> QED
    BY <2>1, <2>2
<1>3. ASSUME NEW p \in Procs, Command!Create(p)
      PROVE  Command!TypeOK'
  BY <1>3 DEF Command!Create, Command!Empty, Command!Holding, Command!Corrupt
<1>4. ASSUME NEW p \in Procs, Command!Write(p)
      PROVE  Command!TypeOK'
  <2> USE <1>4 DEF Command!Write
  <2>1. op[p] \in Command!Ops /\ memory[p] \in Seq(Command!Chores)
    OBVIOUS
  <2>2. file'.state \in {"none", "ok", "corrupt"} /\ file'.chores \in Seq(Command!Chores)
    BY <2>1, WrittenFacts
  <2>3. ledger' \in Seq(Command!Chores)
    BY <2>1, ApplyType
  <2> QED
    BY <2>2, <2>3
<1>5. ASSUME NEW p \in Procs, Command!List(p)
      PROVE  Command!TypeOK'
  BY <1>5 DEF Command!List
<1>6. ASSUME NEW p \in Procs, Command!Stop(p)
      PROVE  Command!TypeOK'
  <2> USE <1>6 DEF Command!Stop
  <2>1. memory[p] \in Seq(Command!Chores)
    OBVIOUS
  <2>2. file'.state \in {"none", "ok", "corrupt"} /\ file'.chores \in Seq(Command!Chores)
    BY <2>1, WrittenFacts
  <2>3. damage' \in BOOLEAN
    OBVIOUS
  <2>4. proc' \in [Procs -> {"idle"} \cup Command!Running \cup Command!Over]
    OBVIOUS
  <2> QED
    BY <2>2, <2>3, <2>4
<1>7. CASE UNCHANGED Command!vars
  BY <1>7 DEF Command!vars
<1> QED
  BY <1>1, <1>2, <1>3, <1>4, <1>5, <1>6, <1>7 DEF Command!Next

\* One command at a time.
LEMMA CommandInit ==
    ASSUME Command!Parameters, Command!Init
    PROVE  CommandInv
<1>1. \A p \in Procs : proc[p] = "idle" /\ memory[p] = <<>>
  BY DEF Command!Init
<1>2. file.chores = <<>> /\ ledger = <<>>
  BY DEF Command!Init, Command!NoFile
<1>3. \A p \in Procs : Absent(p, <<>>)
  BY DEF Absent
<1> QED
  BY <1>1, <1>2, <1>3 DEF CommandInv, Alone, Unseen, Changed, Pending,
     Command!FileIsLedger, Command!Running

\* The process that runs is the only one between Start and its end.
LEMMA Others ==
    ASSUME Command!TypeOK, Alone, NEW p \in Procs, proc[p] \in Command!Running
    PROVE  \A q \in Procs :
              q # p => proc[q] \notin {"load", "create", "write", "list"}
  BY DEF Alone, Command!Running

LEMMA OnStart ==
    ASSUME Command!Parameters, ~Concurrent, Command!TypeOK, CommandInv,
           NEW p \in Procs, Command!Start(p)
    PROVE  CommandInv'
<1> USE DEF Command!Start, Command!GoTo, Command!TypeOK, Command!Running
<1>1. /\ proc[p] = "idle" /\ \A q \in Procs : proc[q] \notin Command!Running
      /\ UNCHANGED <<file, memory, damage, ledger>>
  OBVIOUS
<1>2. PICK o \in Command!Ops :
         /\ op' = [op EXCEPT ![p] = o]
         /\ proc' = [proc EXCEPT ![p] = IF o.kind = "list" THEN "list" ELSE "load"]
  OBVIOUS
<1>3. /\ \A q \in Procs \ {p} : proc'[q] = proc[q] /\ op'[q] = op[q]
      /\ op'[p] = o
      /\ proc'[p] = IF o.kind = "list" THEN "list" ELSE "load"
  BY <1>2
<1>4. Alone'
  BY <1>1, <1>3 DEF Alone
<1>5. Unseen'
  BY <1>1, <1>3 DEF Unseen, CommandInv, Absent
<1>6. Changed'
  <2>1. ASSUME NEW q \in Procs, q # p
        PROVE  /\ proc'[q] \in {"create", "write", "exit"} => Shown(op[q], q, memory[q])'
               /\ proc'[q] = "list" => Shown(op[q], q, file.chores)'
    BY <1>1, <1>3, <2>1 DEF CommandInv, Changed
  <2>2. proc'[p] = "list" => Shown(op[p], p, file.chores)'
    BY <1>3 DEF Shown
  <2>3. proc'[p] \notin {"create", "write", "exit"}
    BY <1>3
  <2> QED
    BY <2>1, <2>2, <2>3 DEF Changed
<1>7. Pending'
  BY <1>1, <1>3 DEF Pending, CommandInv
<1>8. Command!FileIsLedger'
  BY <1>1, <1>3 DEF Command!FileIsLedger, CommandInv
<1> QED
  BY <1>1, <1>4, <1>5, <1>6, <1>7, <1>8 DEF CommandInv

LEMMA OnLoad ==
    ASSUME Command!Parameters, ~Concurrent, Command!TypeOK, CommandInv,
           NEW p \in Procs, Command!Load(p)
    PROVE  CommandInv'
<1> USE DEF Command!Load, Command!GoTo
<1>1. /\ proc[p] = "load" /\ proc[p] \in Command!Running
      /\ UNCHANGED <<file, op, damage, ledger>>
      /\ Absent(p, file.chores) /\ Absent(p, ledger)
      /\ op[p].kind # "list"
  BY DEF CommandInv, Unseen, Pending, Command!Running
<1>2. \A q \in Procs : q # p => proc[q] \notin {"load", "create", "write", "list"}
  BY <1>1, Others DEF CommandInv
<1>3. op[p] \in Command!Ops /\ file.chores \in Seq(Command!Chores)
  BY DEF Command!TypeOK
<1>4. ~damage => file.chores = ledger
  <2>1. \A q \in Procs : proc[q] # "write"
    BY <1>1, <1>2
  <2> QED
    BY <2>1 DEF CommandInv, Command!FileIsLedger
<1>5. CASE file.state # "corrupt" /\ Command!Found(op[p], file.chores)
  <2> DEFINE l == Command!Apply(p, op[p], file.chores)
  <2>1. /\ memory' = [memory EXCEPT ![p] = l]
        /\ proc' = [proc EXCEPT ![p] = "create"]
    BY <1>5
  <2>2. /\ \A q \in Procs : q # p => proc'[q] = proc[q] /\ memory'[q] = memory[q]
        /\ proc'[p] = "create" /\ memory'[p] = l
    BY <2>1 DEF Command!TypeOK
  <2>3. Shown(op[p], p, l)
    BY <1>1, <1>3, <1>5, ApplyShown
  <2>4. \A q \in Procs : q # p /\ Absent(q, file.chores) => Absent(q, l)
    BY <1>3, <1>5, ApplyAbsent
  <2>5. Alone'
    BY <1>1, <2>2 DEF Alone, CommandInv, Command!Running
  <2>6. Unseen'
    <3> SUFFICES ASSUME NEW q \in Procs
                 PROVE  /\ proc'[q] \in {"idle", "load"} =>
                              /\ Absent(q, file.chores)'
                              /\ \A u \in Procs : Absent(q, memory[u])'
                        /\ proc'[q] \in {"idle", "load", "create", "write"} =>
                              Absent(q, ledger)'
      BY DEF Unseen
    <3>1. CASE q = p
      BY <1>1, <2>2, <3>1 DEF Absent
    <3>2. CASE q # p
      <4>1. proc[q] \in {"idle", "load", "create", "write"} => Absent(q, ledger)
        BY DEF CommandInv, Unseen
      <4>2. ASSUME proc[q] \in {"idle", "load"}
            PROVE  Absent(q, file.chores) /\ \A u \in Procs : Absent(q, memory'[u])
        <5>1. Absent(q, file.chores) /\ \A u \in Procs : Absent(q, memory[u])
          BY <4>2 DEF CommandInv, Unseen
        <5> QED
          BY <5>1, <2>2, <2>4, <3>2
      <4> QED
        BY <1>1, <2>2, <3>2, <4>1, <4>2 DEF Absent
    <3> QED
      BY <3>1, <3>2
  <2>7. Changed'
    <3>1. ASSUME NEW q \in Procs, q # p
          PROVE  /\ proc'[q] \in {"create", "write", "exit"} => Shown(op[q], q, memory[q])'
                 /\ proc'[q] = "list" => Shown(op[q], q, file.chores)'
      BY <1>1, <2>2, <3>1 DEF CommandInv, Changed
    <3>2. Shown(op[p], p, memory[p])'
      BY <1>1, <2>2, <2>3
    <3> QED
      BY <2>2, <3>1, <3>2 DEF Changed
  <2>8. Pending'
    <3> HIDE DEF l
    <3>1. ~damage => Command!Found(op[p], ledger)
                       /\ l = Command!Apply(p, op[p], ledger)
      BY <1>4, <1>5 DEF l
    <3>2. \A q \in Procs : q # p => proc'[q] \notin {"load", "create", "write"}
      BY <1>2, <2>2
    <3> QED
      BY <1>1, <2>2, <3>1, <3>2 DEF Pending
  <2>9. Command!FileIsLedger'
    BY <1>1, <1>4 DEF Command!FileIsLedger
  <2> QED
    BY <1>1, <2>5, <2>6, <2>7, <2>8, <2>9 DEF CommandInv
<1>6. CASE ~(file.state # "corrupt" /\ Command!Found(op[p], file.chores))
  <2>1. memory' = memory /\ proc' = [proc EXCEPT ![p] = "failed"]
    BY <1>6
  <2>2. /\ \A q \in Procs : q # p => proc'[q] = proc[q]
        /\ proc'[p] = "failed"
    BY <2>1 DEF Command!TypeOK
  <2>3. Alone'
    BY <2>2 DEF Alone, CommandInv, Command!Running
  <2>4. Unseen'
    BY <1>1, <2>1, <2>2 DEF CommandInv, Unseen, Absent
  <2>5. Changed'
    BY <1>1, <2>1, <2>2 DEF CommandInv, Changed
  <2>6. Pending'
    BY <1>1, <1>2, <2>1, <2>2 DEF CommandInv, Pending
  <2>7. Command!FileIsLedger'
    BY <1>1, <1>4 DEF Command!FileIsLedger
  <2> QED
    BY <1>1, <2>3, <2>4, <2>5, <2>6, <2>7 DEF CommandInv
<1> QED
  BY <1>5, <1>6

LEMMA EmptyFacts ==
    /\ Command!Empty.chores = <<>>
    /\ Command!Empty.state \in {"ok", "corrupt"}
  BY DEF Command!Empty, Command!Holding, Command!Corrupt

LEMMA OnCreate ==
    ASSUME Command!Parameters, ~Concurrent, Command!TypeOK, CommandInv,
           NEW p \in Procs, Command!Create(p)
    PROVE  CommandInv'
<1> USE DEF Command!Create, Command!GoTo
<1>1. /\ proc[p] = "create" /\ proc[p] \in Command!Running
      /\ UNCHANGED <<storage, op, memory, damage, ledger>>
      /\ file' = Command!Empty
      /\ proc' = [proc EXCEPT ![p] = "write"]
  BY DEF Command!Running
<1>2. \A q \in Procs : q # p => proc[q] \notin {"load", "create", "write", "list"}
  BY <1>1, Others DEF CommandInv
<1>3. /\ \A q \in Procs : q # p => proc'[q] = proc[q]
      /\ proc'[p] = "write"
  BY <1>1 DEF Command!TypeOK
<1>4. file'.chores = <<>> /\ Command!Empty' = Command!Empty
  BY <1>1, EmptyFacts DEF Command!Empty
<1>5. Alone'
  BY <1>1, <1>3 DEF Alone, CommandInv, Command!Running
<1>6. Unseen'
  <2>1. \A q \in Procs : Absent(q, file'.chores)
    BY <1>4 DEF Absent
  <2> QED
    BY <1>1, <1>3, <2>1 DEF CommandInv, Unseen, Absent
<1>7. Changed'
  BY <1>1, <1>2, <1>3 DEF CommandInv, Changed
<1>8. Pending'
  BY <1>1, <1>2, <1>3, <1>4 DEF CommandInv, Pending
<1>9. Command!FileIsLedger'
  BY <1>3 DEF Command!FileIsLedger
<1> QED
  BY <1>4, <1>5, <1>6, <1>7, <1>8, <1>9 DEF CommandInv

LEMMA OnWrite ==
    ASSUME Command!Parameters, ~Concurrent, Command!TypeOK, CommandInv,
           NEW p \in Procs, Command!Write(p)
    PROVE  CommandInv'
<1> USE DEF Command!Write, Command!GoTo
<1>1. /\ proc[p] = "write" /\ proc[p] \in Command!Running
      /\ UNCHANGED <<op, memory, damage>>
      /\ proc' = [proc EXCEPT ![p] = "list"]
      /\ ledger' = IF Command!Found(op[p], ledger)
                   THEN Command!Apply(p, op[p], ledger) ELSE ledger
      /\ file = Command!Empty
      /\ Shown(op[p], p, memory[p])
  BY DEF Command!Running, CommandInv, Pending, Changed
<1>2. \A q \in Procs : q # p => proc[q] \notin {"load", "create", "write", "list"}
  BY <1>1, Others DEF CommandInv
<1>3. /\ \A q \in Procs : q # p => proc'[q] = proc[q]
      /\ proc'[p] = "list"
  BY <1>1 DEF Command!TypeOK
<1>4. file' = Command!Holding(memory[p])
  <2>1. memory[p] \in Seq(Command!Chores) /\ file.chores = <<>>
    BY <1>1, EmptyFacts DEF Command!TypeOK
  <2>2. Len(memory[p]) >= Len(file.chores)
    BY <2>1
  <2> QED
    BY <2>2 DEF Command!Written
<1>5. file'.chores = memory[p] /\ file'.state = "ok"
  BY <1>4 DEF Command!Holding
<1>6. Alone'
  BY <1>1, <1>3 DEF Alone, CommandInv, Command!Running
<1>7. Unseen'
  <2>1. op[p] \in Command!Ops /\ ledger \in Seq(Command!Chores)
    BY DEF Command!TypeOK
  <2>2. ASSUME NEW q \in Procs, q # p, Absent(q, ledger)
        PROVE  Absent(q, ledger)'
    <3>1. Absent(q, ledger')
      BY <1>1, <2>1, <2>2, ApplyAbsent
    <3> QED
      BY <3>1 DEF Absent
  <2>3. ASSUME NEW q \in Procs, proc[q] \in {"idle", "load"}
        PROVE  /\ Absent(q, file.chores)'
               /\ \A u \in Procs : Absent(q, memory[u])'
    <3>1. \A u \in Procs : Absent(q, memory[u])
      BY <2>3 DEF CommandInv, Unseen
    <3> QED
      BY <1>1, <1>5, <3>1 DEF Absent
  <2>4. ASSUME NEW q \in Procs
        PROVE  /\ proc'[q] \in {"idle", "load"} =>
                     /\ Absent(q, file.chores)'
                     /\ \A u \in Procs : Absent(q, memory[u])'
               /\ proc'[q] \in {"idle", "load", "create", "write"} =>
                     Absent(q, ledger)'
    <3>1. CASE q = p
      BY <1>3, <3>1
    <3>2. CASE q # p
      <4>1. proc'[q] = proc[q]
        BY <1>3, <3>2
      <4>2. proc[q] \in {"idle", "load", "create", "write"} => Absent(q, ledger)
        BY DEF CommandInv, Unseen
      <4> QED
        BY <2>2, <2>3, <3>2, <4>1, <4>2
    <3> QED
      BY <3>1, <3>2
  <2> QED
    BY <2>4 DEF Unseen
<1>8. Changed'
  BY <1>1, <1>2, <1>3, <1>5 DEF CommandInv, Changed
<1>9. Pending'
  BY <1>2, <1>3 DEF Pending
<1>10. Command!FileIsLedger'
  <2>1. ~damage => memory[p] = ledger'
    BY <1>1 DEF CommandInv, Pending
  <2> QED
    BY <1>1, <1>5, <2>1 DEF Command!FileIsLedger
<1> QED
  BY <1>5, <1>6, <1>7, <1>8, <1>9, <1>10 DEF CommandInv

LEMMA OnList ==
    ASSUME Command!Parameters, ~Concurrent, Command!TypeOK, CommandInv,
           NEW p \in Procs, Command!List(p)
    PROVE  CommandInv'
<1> USE DEF Command!List, Command!GoTo
<1>1. /\ proc[p] = "list" /\ proc[p] \in Command!Running
      /\ UNCHANGED <<file, op, damage, ledger>>
      /\ Shown(op[p], p, file.chores)
  BY DEF CommandInv, Changed, Command!Running
<1>2. \A q \in Procs : q # p => proc[q] \notin {"load", "create", "write", "list"}
  BY <1>1, Others DEF CommandInv
<1>3. /\ \A q \in Procs : q # p => proc'[q] = proc[q] /\ memory'[q] = memory[q]
      /\ \/ proc'[p] = "failed" /\ memory' = memory
         \/ proc'[p] = "exit" /\ memory'[p] = file.chores
  BY DEF Command!TypeOK
<1>4. Alone'
  BY <1>1, <1>3 DEF Alone, CommandInv, Command!Running
<1>5. Unseen'
  <2>1. ASSUME NEW q \in Procs, proc[q] \in {"idle", "load"}
        PROVE  \A u \in Procs : Absent(q, memory'[u])
    <3>1. Absent(q, file.chores) /\ \A u \in Procs : Absent(q, memory[u])
      BY <2>1 DEF CommandInv, Unseen
    <3> QED
      BY <1>3, <3>1
  <2>2. \A q \in Procs :
           proc'[q] \in {"idle", "load", "create", "write"} => proc'[q] = proc[q]
    BY <1>3
  <2> QED
    BY <1>1, <2>1, <2>2 DEF CommandInv, Unseen, Absent
<1>6. Changed'
  BY <1>1, <1>2, <1>3 DEF CommandInv, Changed
<1>7. Pending'
  BY <1>1, <1>2, <1>3 DEF CommandInv, Pending
<1>8. Command!FileIsLedger'
  BY <1>1, <1>2 DEF CommandInv, Command!FileIsLedger
<1> QED
  BY <1>1, <1>4, <1>5, <1>6, <1>7, <1>8 DEF CommandInv

\* What a Write that fails leaves.
LEMMA PartlyAbsent ==
    ASSUME NEW new \in Seq(Command!Chores), NEW old,
           NEW f \in Command!Partly(new, old),
           NEW q, Absent(q, new), Absent(q, old.chores),
           old.state # "ok" => old.chores = <<>>
    PROVE  Absent(q, f.chores) /\ (f.state # "ok" => f.chores = <<>>)
<1>1. CASE f = old
  BY <1>1
<1>2. CASE f = Command!Corrupt
  BY <1>2 DEF Command!Corrupt, Absent
<1>3. ASSUME NEW k \in (1 .. Len(new)) \cup {Len(new)},
             f = Command!Holding(SubSeq(new, 1, k))
      PROVE  Absent(q, f.chores) /\ (f.state # "ok" => f.chores = <<>>)
  <2>1. f.chores = SubSeq(new, 1, k) /\ f.state = "ok"
    BY <1>3 DEF Command!Holding
  <2>2. Len(new) \in Nat /\ k \in 0 .. Len(new)
    BY <1>3
  <2>3. \A i \in 1 .. k : new[i] \in Command!Chores
    BY <2>2
  <2>4. /\ Len(SubSeq(new, 1, k)) = IF 1 <= k THEN k - 1 + 1 ELSE 0
        /\ \A i \in 1 .. k - 1 + 1 : SubSeq(new, 1, k)[i] = new[1 + i - 1]
    BY <2>2, <2>3, SubSeqProperties
  <2>5. \A i \in 1 .. Len(SubSeq(new, 1, k)) :
           i \in 1 .. Len(new) /\ SubSeq(new, 1, k)[i] = new[i]
    BY <2>2, <2>4
  <2> QED
    BY <2>1, <2>5 DEF Absent
<1> QED
  BY <1>1, <1>2, <1>3 DEF Command!Partly

LEMMA OnStop ==
    ASSUME Command!Parameters, ~Concurrent, Command!TypeOK, CommandInv,
           NEW p \in Procs, Command!Stop(p)
    PROVE  CommandInv'
<1> USE DEF Command!Stop, Command!GoTo
<1>1. /\ proc[p] \in Command!Running
      /\ UNCHANGED <<op, memory, ledger>>
      /\ memory[p] \in Seq(Command!Chores)
      /\ proc[p] = "write" => damage' = TRUE
      /\ proc[p] # "write" => damage' = damage /\ file' = file
      /\ damage => damage'
  BY DEF Command!TypeOK
<1>2. \A q \in Procs : q # p => proc[q] \notin {"load", "create", "write", "list"}
  BY <1>1, Others DEF CommandInv
<1>3. /\ \A q \in Procs : q # p => proc'[q] = proc[q]
      /\ proc'[p] \in {"killed", "failed"}
  BY DEF Command!TypeOK
<1>4. Alone'
  BY <1>1, <1>3 DEF Alone, CommandInv, Command!Running
<1>5. file'.state # "ok" => file'.chores = <<>>
  <2>1. CASE proc[p] # "write"
    BY <1>1, <2>1 DEF CommandInv
  <2>2. CASE proc[p] = "write"
    <3>1. file' \in Command!Partly(memory[p], file)
      BY <2>2
    <3> QED
      BY <1>1, <3>1 DEF Command!Partly, Command!Holding, Command!Corrupt, CommandInv
  <2> QED
    BY <2>1, <2>2
<1>6. Unseen'
  <2>1. ASSUME NEW q \in Procs, proc[q] \in {"idle", "load"}
        PROVE  Absent(q, file.chores)'
    <3>1. Absent(q, file.chores) /\ Absent(q, memory[p])
      BY <2>1 DEF CommandInv, Unseen
    <3>2. CASE proc[p] # "write"
      BY <1>1, <3>1, <3>2 DEF Absent
    <3>3. CASE proc[p] = "write"
      <4>1. file' \in Command!Partly(memory[p], file)
        BY <3>3
      <4>2. Absent(q, file'.chores)
        BY <1>1, <3>1, <4>1, PartlyAbsent DEF CommandInv
      <4> QED
        BY <4>2 DEF Absent
    <3> QED
      BY <3>2, <3>3
  <2>2. \A q \in Procs :
           proc'[q] \in {"idle", "load", "create", "write"} => proc'[q] = proc[q]
    BY <1>3
  <2> QED
    BY <1>1, <2>1, <2>2 DEF CommandInv, Unseen, Absent
<1>7. Changed'
  BY <1>1, <1>2, <1>3 DEF CommandInv, Changed
<1>8. Pending'
  BY <1>1, <1>2, <1>3 DEF CommandInv, Pending
<1>9. Command!FileIsLedger'
  BY <1>1, <1>2 DEF CommandInv, Command!FileIsLedger
<1> QED
  BY <1>4, <1>5, <1>6, <1>7, <1>8, <1>9 DEF CommandInv

LEMMA CommandStep ==
    ASSUME Command!Parameters, ~Concurrent, Command!TypeOK, CommandInv,
           [Command!Next]_(Command!vars)
    PROVE  CommandInv'
<1>1. CASE UNCHANGED Command!vars
  BY <1>1 DEF Command!vars, CommandInv, Alone, Unseen, Changed, Pending, Absent,
     Command!FileIsLedger, Command!Empty
<1>2. CASE Command!Next
  BY <1>2, OnStart, OnLoad, OnCreate, OnWrite, OnList, OnStop DEF Command!Next
<1> QED
  BY <1>1, <1>2

\* What the invariant says of the file, and of what a command shows.
LEMMA CommandShows ==
    ASSUME Command!Parameters, Command!TypeOK, CommandInv
    PROVE  Command!FileIsLedger /\ Command!ShowsItsChange
<1>1. ASSUME NEW p \in Procs, proc[p] = "exit"
      PROVE  CASE op[p].kind = "complete" -> memory[p][op[p].n].complete
               [] op[p].kind = "add" ->
                     Command!Cardinality({i \in DOMAIN memory[p] :
                                             memory[p][i].by = p}) = op[p].n
               [] OTHER -> TRUE
  <2>1. Shown(op[p], p, memory[p])
    BY <1>1 DEF CommandInv, Changed
  <2> QED
    BY <2>1, CommandCardinality DEF Shown
<1> QED
  BY <1>1 DEF CommandInv, Command!ShowsItsChange

\* What was asked for in o is in l, and stays there whatever p does next.
InList(o, p, l) ==
    /\ o.kind = "complete" => o.n \in 1 .. Len(l) /\ l[o.n].complete
    /\ o.kind = "add" => Cardinality({i \in DOMAIN l : l[i].by = p}) = o.n

Kept ==
    ~damage => \A p \in Procs :
        proc[p] \in {"list", "exit"} => InList(op[p], p, ledger)

\* The change of one process leaves that of another.
LEMMA ApplyKeeps ==
    ASSUME Command!Parameters, NEW p \in Procs, NEW o \in Command!Ops,
           NEW l \in Seq(Command!Chores), Command!Found(o, l),
           NEW q \in Procs, q # p, NEW u, InList(u, q, l)
    PROVE  InList(u, q, Command!Apply(p, o, l))
<1> DEFINE r == Command!Apply(p, o, l)
           k == Len(l)
<1>0. k \in Nat /\ o.n \in Nat /\ DOMAIN l = 1 .. k
  BY OpFacts
<1>1. CASE o.kind = "add"
  <2>0. /\ r \in Seq(Command!Chores) /\ Len(r) = k + o.n
        /\ \A i \in 1 .. k : r[i] = l[i]
        /\ \A i \in k + 1 .. k + o.n : r[i] = Command!Chore(p)
    BY <1>1, ApplyAdds
  <2> HIDE DEF r, k
  <2>1. /\ r \in Seq(Command!Chores) /\ Len(r) = k + o.n
        /\ \A i \in 1 .. k : r[i] = l[i]
        /\ \A i \in k + 1 .. k + o.n : r[i].by = p
    BY <2>0 DEF Command!Chore
  <2>2. DOMAIN r = 1 .. k + o.n
    BY <2>1
  <2>3. \A i \in 1 .. k + o.n : i \in 1 .. k \/ i \in k + 1 .. k + o.n
    BY <1>0
  <2>4. \A i \in 1 .. k : i \in 1 .. k + o.n
    BY <1>0
  <2>5. {i \in DOMAIN r : r[i].by = q} = {i \in DOMAIN l : l[i].by = q}
    BY <1>0, <2>1, <2>2, <2>3, <2>4
  <2> QED
    BY <2>1, <2>4, <2>5 DEF InList, k, r
<1>2. CASE o.kind # "add"
  <2>0. /\ o.n \in DOMAIN l /\ r = [l EXCEPT ![o.n].complete = TRUE]
        /\ r \in Seq(Command!Chores) /\ Len(r) = Len(l)
        /\ \A i \in 1 .. Len(l) : r[i].by = l[i].by
        /\ r[o.n].complete = TRUE
    BY ZenonT(60), <1>2, ApplyCompletes
  <2> HIDE DEF r
  <2>1. /\ o.n \in 1 .. k /\ r = [l EXCEPT ![o.n].complete = TRUE]
        /\ r \in Seq(Command!Chores) /\ Len(r) = k
        /\ \A i \in 1 .. k : r[i].by = l[i].by
        /\ r[o.n].complete
    BY <1>0, <2>0
  <2>2. \A i \in 1 .. k : i # o.n => r[i] = l[i]
    BY <1>0, <2>1
  <2> HIDE DEF k
  <2>3. DOMAIN r = 1 .. k
    BY <2>1
  <2>4. {i \in DOMAIN r : r[i].by = q} = {i \in DOMAIN l : l[i].by = q}
    BY <1>0, <2>1, <2>3
  <2>5. \A i \in 1 .. k : l[i].complete => r[i].complete
    BY <2>1, <2>2
  <2> QED
    BY <2>1, <2>4, <2>5 DEF InList, k, r
<1> QED
  BY <1>1, <1>2

\* A chore that complete marked has its number still.
LEMMA FoundStays ==
    ASSUME Command!Parameters, NEW p \in Procs, NEW o \in Command!Ops,
           NEW l \in Seq(Command!Chores), Command!Found(o, l)
    PROVE  o.kind = "complete" => o.n \in 1 .. Len(Command!Apply(p, o, l))
<1> SUFFICES ASSUME o.kind = "complete"
             PROVE  o.n \in 1 .. Len(Command!Apply(p, o, l))
  OBVIOUS
<1>1. o.kind # "add"
  OBVIOUS
<1>2. Len(Command!Apply(p, o, l)) = Len(l)
  BY <1>1, ApplyCompletes
<1> QED
  BY <1>1, <1>2 DEF Command!Found

\* The change of a command is in the ledger from its Write on.
LEMMA KeptOnWrite ==
    ASSUME Command!Parameters, ~Concurrent, Command!TypeOK, CommandInv, Kept,
           NEW p \in Procs, Command!Write(p)
    PROVE  Kept'
<1>1. /\ proc[p] = "write" /\ op' = op /\ damage' = damage
      /\ proc' = [proc EXCEPT ![p] = "list"]
      /\ ledger' = IF Command!Found(op[p], ledger)
                   THEN Command!Apply(p, op[p], ledger) ELSE ledger
  BY DEF Command!Write, Command!GoTo
<1>2. /\ op[p] \in Command!Ops /\ ledger \in Seq(Command!Chores)
      /\ proc'[p] = "list" /\ \A q \in Procs : q # p => proc'[q] = proc[q]
  BY <1>1 DEF Command!TypeOK
<1> SUFFICES ASSUME ~damage, NEW q \in Procs, proc'[q] \in {"list", "exit"}
             PROVE  InList(op[q], q, ledger')
  BY <1>1 DEF Kept, InList
<1>3. Command!Found(op[p], ledger) /\ Absent(p, ledger)
  BY <1>1 DEF CommandInv, Pending, Unseen
<1>4. ledger' = Command!Apply(p, op[p], ledger)
  BY <1>1, <1>3
<1>5. CASE q = p
  <2>1. Shown(op[p], p, ledger')
    BY <1>2, <1>3, <1>4, ApplyShown
  <2>2. op[p].kind = "complete" => op[p].n \in 1 .. Len(ledger')
    BY <1>2, <1>3, <1>4, FoundStays
  <2> QED
    BY <1>5, <2>1, <2>2 DEF InList, Shown
<1>6. CASE q # p
  <2>1. InList(op[q], q, ledger)
    BY <1>2, <1>6 DEF Kept
  <2> QED
    BY <1>2, <1>3, <1>4, <1>6, <2>1, ApplyKeeps
<1> QED
  BY <1>5, <1>6

LEMMA KeptStep ==
    ASSUME Command!Parameters, ~Concurrent, Command!TypeOK, CommandInv, Kept,
           [Command!Next]_(Command!vars)
    PROVE  Kept'
<1>1. ASSUME NEW p \in Procs, Command!Start(p) PROVE Kept'
  <2>1. PICK o \in Command!Ops :
           /\ op' = [op EXCEPT ![p] = o]
           /\ proc' = [proc EXCEPT ![p] = IF o.kind = "list" THEN "list" ELSE "load"]
    BY <1>1 DEF Command!Start, Command!GoTo
  <2>2. /\ ledger' = ledger /\ damage' = damage /\ op'[p] = o
        /\ proc'[p] = IF o.kind = "list" THEN "list" ELSE "load"
        /\ \A q \in Procs : q # p => proc'[q] = proc[q] /\ op'[q] = op[q]
    BY <1>1, <2>1 DEF Command!Start, Command!TypeOK
  <2>3. o.kind = "list" => InList(o, p, ledger)
    BY DEF InList
  <2> QED
    BY <2>2, <2>3 DEF Kept, InList
<1>2. ASSUME NEW p \in Procs, Command!List(p) PROVE Kept'
  <2>1. /\ proc[p] = "list" /\ op' = op /\ ledger' = ledger /\ damage' = damage
        /\ \A q \in Procs : q # p => proc'[q] = proc[q]
    BY <1>2 DEF Command!List, Command!GoTo, Command!TypeOK
  <2> QED
    BY <2>1 DEF Kept, InList
<1>3. ASSUME NEW p \in Procs,
             Command!Load(p) \/ Command!Create(p) \/ Command!Stop(p)
      PROVE  Kept'
  <2>1. /\ op' = op /\ ledger' = ledger /\ (damage => damage')
        /\ proc'[p] \notin {"list", "exit"}
        /\ \A q \in Procs : q # p => proc'[q] = proc[q]
    BY <1>3 DEF Command!Load, Command!Create, Command!Stop, Command!GoTo,
                Command!TypeOK
  <2> QED
    BY <2>1 DEF Kept, InList
<1>4. CASE UNCHANGED Command!vars
  BY <1>4 DEF Command!vars, Kept, InList
<1> QED
  BY <1>1, <1>2, <1>3, <1>4, KeptOnWrite DEF Command!Next

LEMMA KeptShows ==
    ASSUME CommandInv, Kept PROVE Command!PersistUnlessDamaged
<1> SUFFICES ASSUME ~damage, Command!Quiet, NEW p \in Procs,
                    proc[p] = "exit", op[p].kind = "add"
             PROVE  Cardinality({i \in DOMAIN file.chores :
                                    file.chores[i].by = p}) = op[p].n
  BY CommandCardinality DEF Command!PersistUnlessDamaged, Command!ChoresPersist
<1>1. file.chores = ledger
  BY DEF CommandInv, Command!FileIsLedger, Command!Quiet, Command!Running
<1> QED
  BY <1>1 DEF Kept, InList

\* The refinement of ChoreList: add and complete change the ledger as a chore
\* list may change.
LEMMA LedgerAdds ==
    ASSUME Command!Parameters, NEW p \in Procs, NEW o \in Command!Ops,
           NEW l \in Seq(Command!Chores), o.kind = "add", Absent(p, l),
           NEW m, m = Command!Apply(p, o, l)
    PROVE  \/ m = l
           \/ /\ Len(m) > Len(l)
              /\ SubSeq(m, 1, Len(l)) = l
              /\ \A i \in Len(l) + 1 .. Len(m) :
                    /\ ~m[i].complete
                    /\ m[i].by = m[Len(m)].by
                    /\ \A j \in 1 .. Len(l) : l[j].by # m[i].by
<1>1. Len(l) \in Nat /\ o.n \in Nat
  BY OpFacts
<1>2. /\ m \in Seq(Command!Chores)
      /\ Len(m) = Len(l) + o.n
      /\ \A i \in 1 .. Len(l) : m[i] = l[i]
      /\ \A i \in Len(l) + 1 .. Len(l) + o.n : m[i] = Command!Chore(p)
  BY ApplyAdds
<1>3. CASE o.n = 0
  <2>1. Len(m) = Len(l)
    BY <1>1, <1>2, <1>3
  <2> QED
    BY <1>2, <2>1, SeqEqual
<1>4. CASE o.n > 0
  <2>1. Len(m) > Len(l) /\ Len(m) \in Len(l) + 1 .. Len(m)
    BY <1>1, <1>2, <1>4
  <2> DEFINE s == SubSeq(m, 1, Len(l))
  <2>2. s = l
    <3>1. \A i \in 1 .. Len(l) : m[i] \in Command!Chores
      BY <1>2, ElementOfSeq
    <3>2. /\ s \in Seq(Command!Chores)
          /\ Len(s) = IF 1 <= Len(l) THEN Len(l) - 1 + 1 ELSE 0
          /\ \A i \in 1 .. Len(l) - 1 + 1 : s[i] = m[1 + i - 1]
      BY <1>1, <3>1, SubSeqProperties
    <3> HIDE DEF s
    <3>3. Len(s) = Len(l)
      BY <1>1, <3>2
    <3>4. \A i \in 1 .. Len(l) : s[i] = l[i]
      BY <1>1, <1>2, <3>2
    <3> QED
      BY <3>2, <3>3, <3>4, SeqEqual
  <2>3. \A i \in Len(l) + 1 .. Len(m) : m[i] = Command!Chore(p)
    BY <1>2
  <2>4. Command!Chore(p).by = p /\ Command!Chore(p).complete = FALSE
    BY DEF Command!Chore
  <2> QED
    BY <2>1, <2>2, <2>3, <2>4 DEF Absent
<1> QED
  BY <1>1, <1>3, <1>4

LEMMA CommandRefines ==
    ASSUME Command!Parameters, Command!TypeOK, CommandInv, CommandInv',
           [Command!Next]_(Command!vars)
    PROVE  [Command!ChoresOf!Next]_(Command!ChoresOf!vars)
<1>1. CASE damage'
  BY <1>1 DEF Command!ChoresOf!Next
<1>2. CASE ~damage'
  <2>1. ~damage
    <3>1. CASE Command!Next
      BY <1>2, <3>1 DEF Command!Next, Command!Start, Command!Load, Command!Create,
         Command!Write, Command!List, Command!Stop
    <3>2. CASE UNCHANGED Command!vars
      BY <1>2, <3>2 DEF Command!vars
    <3> QED
      BY <3>1, <3>2
  <2>2. Command!Stored = ledger
    BY <2>1 DEF Command!Stored, CommandInv, Command!FileIsLedger
  <2>3. Command!Stored' = ledger'
    BY <1>2 DEF Command!Stored, CommandInv, Command!FileIsLedger
  <2>4. damage' = damage
    BY <1>2, <2>1 DEF Command!TypeOK, Command!Next, Command!Start, Command!Load, Command!Create,
         Command!Write, Command!List, Command!Stop, Command!vars
  <2>5. ASSUME NEW p \in Procs, Command!Write(p)
        PROVE  \/ Command!ChoresOf!Add \/ Command!ChoresOf!Complete
               \/ ledger' = ledger
    <3>1. /\ Command!Found(op[p], ledger) /\ Absent(p, ledger)
          /\ op[p] \in Command!Ops /\ ledger \in Seq(Command!Chores)
      BY <2>1, <2>5 DEF Command!Write, CommandInv, Pending, Unseen, Command!TypeOK
    <3>2. ledger' = Command!Apply(p, op[p], ledger)
      BY <2>5, <3>1 DEF Command!Write
    <3>3. CASE op[p].kind = "add"
      BY <2>2, <2>3, <3>1, <3>2, <3>3, LedgerAdds DEF Command!ChoresOf!Add
    <3>4. CASE op[p].kind # "add"
      <4>1. /\ op[p].n \in DOMAIN ledger
            /\ ledger' = [ledger EXCEPT ![op[p].n].complete = TRUE]
        BY ZenonT(60), <3>1, <3>2, <3>4, ApplyCompletes
      <4> QED
        BY <2>2, <2>3, <4>1 DEF Command!ChoresOf!Complete
    <3> QED
      BY <3>3, <3>4
  <2>6. \/ Command!ChoresOf!Add \/ Command!ChoresOf!Complete \/ ledger' = ledger
    <3>1. CASE \E p \in Procs : Command!Write(p)
      BY <2>5, <3>1
    <3>2. CASE ~\E p \in Procs : Command!Write(p)
      BY <3>2 DEF Command!Next, Command!Start, Command!Load, Command!Create,
         Command!List, Command!Stop, Command!vars
    <3> QED
      BY <3>1, <3>2
  <2> QED
    BY <1>2, <2>1, <2>2, <2>3, <2>4, <2>6
       DEF Command!ChoresOf!Next, Command!ChoresOf!vars
<1> QED
  BY <1>1, <1>2

LEMMA CommandRefinesInit ==
    ASSUME Command!Init
    PROVE  Command!ChoresOf!Init
  BY DEF Command!Init, Command!NoFile, Command!Stored, Command!ChoresOf!Init

-----------------------------------------------------------------------------
(* TFTPCodec: what the readers make of a datagram that is laid over the     *)
(* buffer.                                                                  *)

LEMMA LeastIsMin ==
    ASSUME NEW I \in SUBSET Nat, NEW k \in I, \A i \in I : k <= i
    PROVE  Codec!Min(I) = k
<1> DEFINE c == CHOOSE x \in I : \A y \in I : x =< y
<1>1. \E x \in I : \A y \in I : x =< y
  OBVIOUS
<1>2. c \in I /\ \A y \in I : c =< y
  BY <1>1
<1>3. Codec!Min(I) = c
  BY DEF Codec!Min
<1> HIDE DEF c
<1> QED
  BY <1>2, <1>3

\* ReadString(0) finds the first Nul.
LEMMA TextFacts ==
    ASSUME NEW S, NEW s \in Seq(S), NEW k \in 1 .. Len(s),
           s[k] = Codec!Nul, \A i \in 1 .. k - 1 : s[i] # Codec!Nul
    PROVE  Codec!HasText(s) /\ Codec!NulAt(s) = k
<1> DEFINE I == {i \in 1 .. Len(s) : s[i] = Codec!Nul}
<1>1. Len(s) \in Nat /\ k \in I /\ I \in SUBSET Nat /\ \A i \in I : k <= i
  OBVIOUS
<1>2. Codec!NulAt(s) = IF I # {} THEN Codec!Min(I) ELSE 0
  BY DEF Codec!NulAt, Codec!SelectInSeq
<1>3. Codec!HasText(s)
  BY DEF Codec!HasText, Codec!Contains
<1> HIDE DEF I
<1>4. Codec!Min(I) = k
  BY <1>1, LeastIsMin
<1> QED
  BY <1>1, <1>2, <1>3, <1>4

LEMMA NoText ==
    ASSUME NEW s, \A i \in 1 .. Len(s) : s[i] # Codec!Nul
    PROVE  ~Codec!HasText(s)
  BY DEF Codec!HasText, Codec!Contains

\* The datagram of each packet, element by element.
LEMMA RequestDatagram ==
    ASSUME Codec!Parameters, NEW f \in Seq(Words), NEW m \in Modes
    PROVE  /\ Codec!Marshal(Codec!RRQ(f, m)) \in Seq(Codec!Symbols)
           /\ Len(Codec!Marshal(Codec!RRQ(f, m))) = Len(f) + 4
           /\ Codec!Marshal(Codec!RRQ(f, m))[1] = "RRQ"
           /\ \A i \in 1 .. Len(f) : Codec!Marshal(Codec!RRQ(f, m))[i + 1] = f[i]
           /\ Codec!Marshal(Codec!RRQ(f, m))[Len(f) + 2] = Codec!Nul
           /\ Codec!Marshal(Codec!RRQ(f, m))[Len(f) + 3] = IF m = "" THEN "octet" ELSE m
           /\ Codec!Marshal(Codec!RRQ(f, m))[Len(f) + 4] = Codec!Nul
<1> DEFINE n == Len(f)
           d == Codec!Marshal(Codec!RRQ(f, m))
           mode == IF m = "" THEN "octet" ELSE m
           head == <<"RRQ">>
           tail == <<Codec!Nul, mode, Codec!Nul>>
<1>1. mode \in Codec!Symbols
  BY DEF Codec!Symbols
<1> HIDE DEF mode
<1>2. head \in Seq(Codec!Symbols) /\ Len(head) = 1 /\ head[1] = "RRQ"
  BY DEF Codec!Symbols
<1>3. tail \in Seq(Codec!Symbols) /\ Len(tail) = 3
  BY <1>1 DEF Codec!Symbols
<1>4. tail[1] = Codec!Nul /\ tail[2] = mode /\ tail[3] = Codec!Nul
  OBVIOUS
<1>5. f \in Seq(Codec!Symbols) /\ n \in Nat
  BY SeqMonotonic DEF Codec!Symbols
<1>6. d = head \o f \o tail
  BY DEF Codec!Marshal, Codec!MarshalRRQ, Codec!RRQ, mode
<1> HIDE DEF head, tail
<1>7. /\ d \in Seq(Codec!Symbols) /\ Len(d) = Len(head) + Len(f) + Len(tail)
      /\ \A i \in 1 .. Len(head) : d[i] = head[i]
      /\ \A i \in 1 .. Len(f) : d[Len(head) + i] = f[i]
      /\ \A i \in 1 .. Len(tail) : d[Len(head) + Len(f) + i] = tail[i]
  <2>1. /\ head \in Seq(Codec!Symbols) /\ f \in Seq(Codec!Symbols)
        /\ tail \in Seq(Codec!Symbols)
    BY <1>2, <1>3, <1>5
  <2> QED
    BY <1>6, <2>1, ThreeParts
<1>8. d[1] = "RRQ" /\ \A i \in 1 .. n : d[i + 1] = f[i]
  BY <1>2, <1>5, <1>7
<1>9. d[n + 2] = tail[1] /\ d[n + 3] = tail[2] /\ d[n + 4] = tail[3]
  BY <1>2, <1>3, <1>5, <1>7
<1>10. Len(d) = n + 4
  BY <1>2, <1>3, <1>5, <1>7
<1> QED
  BY <1>4, <1>7, <1>8, <1>9, <1>10 DEF mode

LEMMA ErrorDatagram ==
    ASSUME Codec!Parameters, NEW t \in Seq(Words),
           NEW c \in Numbers
    PROVE  /\ Codec!Marshal(Codec!ERR(c, t)) \in Seq(Codec!Symbols)
           /\ Len(Codec!Marshal(Codec!ERR(c, t))) = Len(t) + 3
           /\ Codec!Marshal(Codec!ERR(c, t))[1] = "ERR"
           /\ Codec!Marshal(Codec!ERR(c, t))[2] = c
           /\ \A i \in 1 .. Len(t) : Codec!Marshal(Codec!ERR(c, t))[i + 2] = t[i]
           /\ Codec!Marshal(Codec!ERR(c, t))[Len(t) + 3] = Codec!Nul
<1> DEFINE n == Len(t)
           d == Codec!Marshal(Codec!ERR(c, t))
           head == <<"ERR", c>>
           tail == <<Codec!Nul>>
<1>1. c \in Codec!Symbols /\ "ERR" \in Codec!Symbols /\ Codec!Nul \in Codec!Symbols
  BY DEF Codec!Symbols
<1>2. head \in Seq(Codec!Symbols) /\ Len(head) = 2 /\ head[1] = "ERR" /\ head[2] = c
  BY <1>1
<1>3. tail \in Seq(Codec!Symbols) /\ Len(tail) = 1 /\ tail[1] = Codec!Nul
  BY <1>1
<1>4. t \in Seq(Codec!Symbols) /\ n \in Nat
  BY SeqMonotonic DEF Codec!Symbols
<1>5. d = head \o t \o tail
  BY DEF Codec!Marshal, Codec!MarshalERR, Codec!ERR
<1> HIDE DEF head, tail
<1>6. /\ d \in Seq(Codec!Symbols) /\ Len(d) = Len(head) + Len(t) + Len(tail)
      /\ \A i \in 1 .. Len(head) : d[i] = head[i]
      /\ \A i \in 1 .. Len(t) : d[Len(head) + i] = t[i]
      /\ \A i \in 1 .. Len(tail) : d[Len(head) + Len(t) + i] = tail[i]
  <2>1. /\ head \in Seq(Codec!Symbols) /\ t \in Seq(Codec!Symbols)
        /\ tail \in Seq(Codec!Symbols)
    BY <1>2, <1>3, <1>4
  <2> QED
    BY <1>5, <2>1, ThreeParts
<1>7. d[1] = "ERR" /\ d[2] = c /\ \A i \in 1 .. n : d[i + 2] = t[i]
  BY <1>2, <1>4, <1>6
<1>8. d[n + 3] = tail[1] /\ Len(d) = n + 3
  BY <1>2, <1>3, <1>4, <1>6
<1> QED
  BY <1>3, <1>6, <1>7, <1>8

LEMMA DataDatagram ==
    ASSUME Codec!Parameters, NEW t \in Seq(Words),
           NEW c \in Numbers
    PROVE  /\ Codec!Marshal(Codec!DATA(c, t)) \in Seq(Codec!Symbols)
           /\ Len(Codec!Marshal(Codec!DATA(c, t))) = Len(t) + 2
           /\ Codec!Marshal(Codec!DATA(c, t))[1] = "DATA"
           /\ Codec!Marshal(Codec!DATA(c, t))[2] = c
           /\ \A i \in 1 .. Len(t) : Codec!Marshal(Codec!DATA(c, t))[i + 2] = t[i]
<1> DEFINE n == Len(t)
           d == Codec!Marshal(Codec!DATA(c, t))
           head == <<"DATA", c>>
<1>1. c \in Codec!Symbols /\ "DATA" \in Codec!Symbols
  BY DEF Codec!Symbols
<1>2. head \in Seq(Codec!Symbols) /\ Len(head) = 2 /\ head[1] = "DATA" /\ head[2] = c
  BY <1>1
<1>3. t \in Seq(Codec!Symbols) /\ n \in Nat
  BY SeqMonotonic DEF Codec!Symbols
<1>4. d = head \o t
  BY DEF Codec!Marshal, Codec!MarshalDATA, Codec!DATA
<1> HIDE DEF head
<1>5. /\ d \in Seq(Codec!Symbols) /\ Len(d) = Len(head) + Len(t)
      /\ \A i \in 1 .. Len(head) : d[i] = head[i]
      /\ \A i \in 1 .. Len(t) : d[Len(head) + i] = t[i]
  <2>1. head \in Seq(Codec!Symbols) /\ t \in Seq(Codec!Symbols)
    BY <1>2, <1>3
  <2> QED
    BY <1>4, <2>1, ConcatFacts
<1> QED
  BY <1>2, <1>3, <1>5

LEMMA AckDatagram ==
    ASSUME Codec!Parameters, NEW c \in Numbers
    PROVE  /\ Codec!Marshal(Codec!ACK(c)) \in Seq(Codec!Symbols)
           /\ Len(Codec!Marshal(Codec!ACK(c))) = 2
           /\ Codec!Marshal(Codec!ACK(c))[1] = "ACK"
           /\ Codec!Marshal(Codec!ACK(c))[2] = c
<1> DEFINE d == Codec!Marshal(Codec!ACK(c))
<1>1. d = <<"ACK", c>>
  BY DEF Codec!Marshal, Codec!MarshalACK, Codec!ACK
<1> QED
  BY <1>1 DEF Codec!Symbols

\* A datagram over a buffer.
LEMMA OverlayFacts ==
    ASSUME Codec!Parameters, NEW old \in [1 .. BufSize -> Codec!Symbols],
           NEW d \in Seq(Codec!Symbols), NEW b, b = Codec!Overlay(old, d)
    PROVE  /\ b \in [1 .. BufSize -> Codec!Symbols]
           /\ b \in Seq(Codec!Symbols) /\ Len(b) = BufSize
           /\ \A i \in 1 .. BufSize : i <= Len(d) => b[i] = d[i]
<1>1. BufSize \in Nat
  BY DEF Codec!Parameters
<1>2. \A i \in 1 .. BufSize : i <= Len(d) => d[i] \in Codec!Symbols
  BY <1>1, ElementOfSeq
<1>3. b = [i \in 1 .. BufSize |-> IF i <= Len(d) THEN d[i] ELSE old[i]]
  BY DEF Codec!Overlay
<1>4. b \in [1 .. BufSize -> Codec!Symbols]
  BY <1>2, <1>3
<1>5. \A i \in 1 .. BufSize : i <= Len(d) => b[i] = d[i]
  BY <1>3
<1> QED
  BY <1>1, <1>4, <1>5, FunctionIsSeq

\* A read request in a buffer of zeroes, cut or not.
LEMMA RequestRead ==
    ASSUME Codec!Parameters, NEW f \in Seq(Words), NEW mode,
           mode # Codec!Nul,
           NEW b \in Seq(Codec!Symbols), Len(b) = BufSize, b[1] = "RRQ",
           \A i \in 1 .. Len(f) : i + 1 <= BufSize => b[i + 1] = f[i],
           Len(f) + 2 <= BufSize => b[Len(f) + 2] = Codec!Nul,
           Len(f) + 3 <= BufSize => b[Len(f) + 3] = mode,
           Len(f) + 4 <= BufSize => b[Len(f) + 4] = Codec!Nul
    PROVE  Codec!UnmarshalRRQ(b)
             = IF Len(f) + 4 <= BufSize /\ f # <<>> /\ mode \in {"octet", "OCTET"}
               THEN Codec!RRQ(f, mode) ELSE Codec!Bad
<1> DEFINE n == Len(f)
           afterOp == Tail(b)
           afterName == Codec!AfterText(afterOp)
<1>1. n \in Nat /\ BufSize \in Nat /\ BufSize > 3 /\ \A i \in 1 .. n : f[i] # Codec!Nul
  BY DEF Codec!Parameters
<1>2. b # <<>> /\ Head(b) = "RRQ"
  BY <1>1
<1>3. /\ afterOp \in Seq(Codec!Symbols) /\ Len(afterOp) = BufSize - 1
      /\ \A i \in 1 .. BufSize - 1 : afterOp[i] = b[i + 1]
  <2>1. /\ Tail(b) \in Seq(Codec!Symbols) /\ Len(Tail(b)) = Len(b) - 1
        /\ \A i \in 1 .. Len(Tail(b)) : Tail(b)[i] = b[i + 1]
    BY <1>2, HeadTailProperties
  <2> QED
    BY <2>1
<1>4. Codec!UnmarshalRRQ(b)
        = IF /\ Codec!HasText(afterOp) /\ Codec!Text(afterOp) # <<>>
             /\ Codec!HasText(afterName)
             /\ Codec!ToLower(Codec!Text(afterName)) = <<"octet">>
          THEN Codec!RRQ(Codec!Text(afterOp), Head(Codec!Text(afterName)))
          ELSE Codec!Bad
  BY <1>2 DEF Codec!UnmarshalRRQ
<1> HIDE DEF afterOp, afterName
<1>5. ASSUME NEW i \in 1 .. n, i + 1 <= BufSize
      PROVE  afterOp[i] = f[i] /\ afterOp[i] # Codec!Nul
  BY <1>1, <1>3, <1>5
<1>6. CASE n + 2 > BufSize
  <2>1. \A i \in 1 .. Len(afterOp) : afterOp[i] # Codec!Nul
    BY <1>1, <1>3, <1>5, <1>6
  <2>2. ~Codec!HasText(afterOp)
    BY <2>1, NoText
  <2> QED
    BY <1>1, <1>4, <1>6, <2>2
<1>7. CASE n + 2 <= BufSize
  <2>1. /\ n + 1 \in 1 .. Len(afterOp) /\ afterOp[n + 1] = Codec!Nul
        /\ \A i \in 1 .. (n + 1) - 1 : afterOp[i] # Codec!Nul
    BY <1>1, <1>3, <1>5, <1>7
  <2>2. Codec!HasText(afterOp) /\ Codec!NulAt(afterOp) = n + 1
    BY <1>3, <2>1, TextFacts
  <2>3. Codec!Text(afterOp) = f
    <3> DEFINE s == SubSeq(afterOp, 1, n)
    <3>1. Codec!Text(afterOp) = s
      <4>1. (n + 1) - 1 = n
        BY <1>1
      <4> QED
        BY <2>2, <4>1 DEF Codec!Text
    <3>2. 1 \in 1 .. Len(afterOp) + 1 /\ n \in 0 .. Len(afterOp) /\ 1 <= n + 1
      BY <1>1, <1>3, <1>7
    <3>3. /\ s \in Seq(Codec!Symbols) /\ Len(s) = n + 1 - 1
          /\ \A i \in 1 .. n + 1 - 1 : s[i] = afterOp[1 + i - 1]
      BY <1>3, <3>2, PartFacts
    <3> HIDE DEF s
    <3>4. Len(s) = Len(f)
      BY <1>1, <3>3
    <3>5. \A i \in 1 .. Len(s) : s[i] = f[i]
      BY <1>1, <1>5, <1>7, <3>3
    <3>6. f \in Seq(Codec!Symbols)
      BY SeqMonotonic DEF Codec!Symbols
    <3> QED
      BY <3>1, <3>3, <3>4, <3>5, <3>6, SeqEqual
  <2>4. /\ afterName \in Seq(Codec!Symbols) /\ Len(afterName) = BufSize - n - 2
        /\ \A i \in 1 .. BufSize - n - 2 : afterName[i] = b[n + 2 + i]
    <3> DEFINE s == SubSeq(afterOp, n + 2, Len(afterOp))
    <3>1. afterName = s
      <4>1. (n + 1) + 1 = n + 2
        BY <1>1
      <4> QED
        BY <2>2, <4>1 DEF Codec!AfterText, afterName
    <3>2. /\ n + 2 \in 1 .. Len(afterOp) + 1 /\ Len(afterOp) \in 0 .. Len(afterOp)
          /\ n + 2 <= Len(afterOp) + 1
      BY <1>1, <1>3, <1>7
    <3>3. /\ s \in Seq(Codec!Symbols) /\ Len(s) = Len(afterOp) + 1 - (n + 2)
          /\ \A i \in 1 .. Len(afterOp) + 1 - (n + 2) : s[i] = afterOp[n + 2 + i - 1]
      BY <1>3, <3>2, PartFacts
    <3> HIDE DEF s
    <3>4. Len(s) = BufSize - n - 2
      BY <1>1, <1>3, <3>3
    <3>5. ASSUME NEW i \in 1 .. BufSize - n - 2 PROVE s[i] = b[n + 2 + i]
      <4>1. i \in 1 .. Len(afterOp) + 1 - (n + 2) /\ n + 2 + i - 1 \in 1 .. BufSize - 1
        BY <1>1, <1>3, <1>7
      <4>2. s[i] = afterOp[n + 2 + i - 1]
        BY <3>3, <4>1
      <4>3. afterOp[n + 2 + i - 1] = b[(n + 2 + i - 1) + 1]
        BY <1>3, <4>1
      <4>4. (n + 2 + i - 1) + 1 = n + 2 + i
        BY <1>1
      <4> QED
        BY <4>2, <4>3, <4>4
    <3> QED
      BY <3>1, <3>3, <3>4, <3>5
  <2>5. CASE n + 4 > BufSize
    <3>1. ASSUME NEW i \in 1 .. Len(afterName) PROVE afterName[i] # Codec!Nul
      <4>1. i = 1 /\ n + 3 <= BufSize
        BY <1>1, <1>7, <2>4, <2>5
      <4> QED
        BY <1>1, <2>4, <4>1
    <3>2. ~Codec!HasText(afterName)
      BY <3>1, NoText
    <3> QED
      BY <1>1, <1>4, <2>5, <3>2
  <2>6. CASE n + 4 <= BufSize
    <3>1. /\ 2 \in 1 .. Len(afterName) /\ afterName[2] = Codec!Nul
          /\ afterName[1] = mode
      BY <1>1, <2>4, <2>6
    <3>2. \A i \in 1 .. 2 - 1 : afterName[i] # Codec!Nul
      BY <3>1
    <3>3. Codec!HasText(afterName) /\ Codec!NulAt(afterName) = 2
      BY <2>4, <3>1, <3>2, TextFacts
    <3>4. Codec!Text(afterName) = <<mode>>
      <4> DEFINE s == SubSeq(afterName, 1, 1)
      <4>1. Codec!Text(afterName) = s
        BY <3>3 DEF Codec!Text
      <4>2. 1 \in 1 .. Len(afterName) + 1 /\ 1 \in 0 .. Len(afterName) /\ 1 <= 1 + 1
        BY <1>1, <2>4, <3>1
      <4>3. /\ s \in Seq(Codec!Symbols) /\ Len(s) = 1 + 1 - 1
            /\ \A i \in 1 .. 1 + 1 - 1 : s[i] = afterName[1 + i - 1]
        BY <2>4, <4>2, PartFacts
      <4> HIDE DEF s
      <4>4. Len(s) = 1 /\ s[1] = mode
        BY <3>1, <4>3
      <4>5. s = <<mode>>
        BY <4>3, <4>4
      <4> QED
        BY <4>1, <4>5
    <3>5. Codec!ToLower(<<mode>>) = <<"octet">> <=> mode \in {"octet", "OCTET"}
      BY DEF Codec!ToLower
    <3>6. Head(<<mode>>) = mode
      OBVIOUS
    <3> QED
      BY <1>4, <2>2, <2>3, <2>6, <3>3, <3>4, <3>5, <3>6
  <2> QED
    BY <1>1, <2>5, <2>6
<1> QED
  BY <1>1, <1>6, <1>7

\* An ERR in a buffer that other datagrams have filled before.
LEMMA ErrorRead ==
    ASSUME Codec!Parameters, NEW t \in Seq(Words), NEW c,
           NEW b \in Seq(Codec!Symbols), Len(b) = BufSize, b[1] = "ERR", b[2] = c,
           \A i \in 1 .. Len(t) : i + 2 <= BufSize => b[i + 2] = t[i],
           Len(t) + 3 <= BufSize => b[Len(t) + 3] = Codec!Nul
    PROVE  Codec!Reply(b)
             = IF Len(t) + 3 <= BufSize THEN Codec!ERR(c, t) ELSE Codec!Bad
<1> DEFINE n == Len(t)
           after == SubSeq(b, 3, Len(b))
<1>1. n \in Nat /\ BufSize \in Nat /\ BufSize > 3 /\ \A i \in 1 .. n : t[i] # Codec!Nul
  BY DEF Codec!Parameters
<1>2. Head(b) = "ERR"
  BY <1>1
<1>3. Codec!Reply(b) = IF Codec!HasText(after)
                       THEN Codec!ERR(c, Codec!Text(after)) ELSE Codec!Bad
  BY <1>2 DEF Codec!Reply, Codec!UnmarshalACK, Codec!UnmarshalERR
<1>4. 3 \in 1 .. Len(b) + 1 /\ Len(b) \in 0 .. Len(b) /\ 3 <= Len(b) + 1
  BY <1>1
<1>5. /\ after \in Seq(Codec!Symbols) /\ Len(after) = Len(b) + 1 - 3
      /\ \A i \in 1 .. Len(b) + 1 - 3 : after[i] = b[3 + i - 1]
  BY <1>4, PartFacts
<1> HIDE DEF after
<1>6. Len(after) = BufSize - 2 /\ \A i \in 1 .. BufSize - 2 : after[i] = b[i + 2]
  BY <1>1, <1>5
<1>7. ASSUME NEW i \in 1 .. n, i + 2 <= BufSize
      PROVE  after[i] = t[i] /\ after[i] # Codec!Nul
  BY <1>1, <1>6, <1>7
<1>8. CASE n + 3 > BufSize
  <2>1. \A i \in 1 .. Len(after) : after[i] # Codec!Nul
    BY <1>1, <1>6, <1>7, <1>8
  <2>2. ~Codec!HasText(after)
    BY <2>1, NoText
  <2> QED
    BY <1>1, <1>3, <1>8, <2>2
<1>9. CASE n + 3 <= BufSize
  <2>1. /\ n + 1 \in 1 .. Len(after) /\ after[n + 1] = Codec!Nul
        /\ \A i \in 1 .. (n + 1) - 1 : after[i] # Codec!Nul
    BY <1>1, <1>6, <1>7, <1>9
  <2>2. Codec!HasText(after) /\ Codec!NulAt(after) = n + 1
    BY <1>5, <2>1, TextFacts
  <2>3. Codec!Text(after) = t
    <3> DEFINE s == SubSeq(after, 1, n)
    <3>1. Codec!Text(after) = s
      <4>1. (n + 1) - 1 = n
        BY <1>1
      <4> QED
        BY <2>2, <4>1 DEF Codec!Text
    <3>2. 1 \in 1 .. Len(after) + 1 /\ n \in 0 .. Len(after) /\ 1 <= n + 1
      BY <1>1, <1>6, <1>9
    <3>3. /\ s \in Seq(Codec!Symbols) /\ Len(s) = n + 1 - 1
          /\ \A i \in 1 .. n + 1 - 1 : s[i] = after[1 + i - 1]
      BY <1>5, <3>2, PartFacts
    <3> HIDE DEF s
    <3>4. Len(s) = Len(t)
      BY <1>1, <3>3
    <3>5. \A i \in 1 .. Len(s) : s[i] = t[i]
      BY <1>1, <1>7, <1>9, <3>3
    <3>6. t \in Seq(Codec!Symbols)
      BY SeqMonotonic DEF Codec!Symbols
    <3> QED
      BY <3>1, <3>3, <3>4, <3>5, <3>6, SeqEqual
  <2> QED
    BY <1>3, <1>9, <2>2, <2>3
<1> QED
  BY <1>1, <1>8, <1>9

\* What a packet can be.
LEMMA PacketCases ==
    ASSUME Codec!Parameters, NEW p \in Codec!Packets
    PROVE  \/ \E f \in Seq(Words), m \in Modes : p = Codec!RRQ(f, m)
           \/ \E c \in Numbers : p = Codec!ACK(c)
           \/ \E c \in Numbers, t \in Seq(Words) : p = Codec!ERR(c, t)
           \/ \E c \in Numbers, t \in Seq(Words) :
                 Len(t) <= BufSize - 2 /\ p = Codec!DATA(c, t)
<1>1. \A t \in Codec!Texts : t \in Seq(Words)
  BY SeqDef DEF Codec!Texts, Codec!Parameters
<1>2. ASSUME NEW t \in Codec!Chunks PROVE t \in Seq(Words) /\ Len(t) <= BufSize - 2
  <2>1. PICK n \in 0 .. BufSize - 2 : t \in [1 .. n -> Words]
    BY DEF Codec!Chunks
  <2>2. n \in Nat /\ BufSize \in Nat /\ n <= BufSize - 2
    BY DEF Codec!Parameters
  <2>3. t \in Seq(Words) /\ Len(t) = n
    BY <2>1, <2>2, FunctionIsSeq
  <2> QED
    BY <2>2, <2>3
<1>3. \/ \E f \in Codec!Texts, m \in Modes : p = Codec!RRQ(f, m)
      \/ \E c \in Numbers : p = Codec!ACK(c)
      \/ \E c \in Numbers, t \in Codec!Texts : p = Codec!ERR(c, t)
      \/ \E c \in Numbers, t \in Codec!Chunks : p = Codec!DATA(c, t)
  BY DEF Codec!Packets
<1> QED
  BY <1>1, <1>2, <1>3

LEMMA PacketOps ==
    /\ \A f, m : /\ Codec!RRQ(f, m).op = "RRQ" /\ Codec!RRQ(f, m).filename = f
                 /\ Codec!RRQ(f, m).mode = m
    /\ \A c : Codec!ACK(c).op = "ACK" /\ Codec!ACK(c).num = c
    /\ \A c, t : Codec!ERR(c, t).op = "ERR"
    /\ \A c, t : Codec!DATA(c, t).op = "DATA"
    /\ Codec!Bad.op = "BAD"
  BY DEF Codec!RRQ, Codec!ACK, Codec!ERR, Codec!DATA, Codec!Bad

\* Its datagram: symbols, of which the first tells the packet.
LEMMA DatagramFacts ==
    ASSUME Codec!Parameters, NEW p \in Codec!Packets
    PROVE  /\ Codec!Marshal(p) \in Seq(Codec!Symbols)
           /\ Len(Codec!Marshal(p)) > 1
           /\ Codec!Marshal(p)[1] = p.op
           /\ p.op \in {"RRQ", "ACK", "ERR", "DATA"}
<1>1. CASE \E f \in Seq(Words), m \in Modes : p = Codec!RRQ(f, m)
  <2>1. PICK f \in Seq(Words), m \in Modes : p = Codec!RRQ(f, m)
    BY <1>1
  <2>2. Len(f) \in Nat
    OBVIOUS
  <2>3. /\ Codec!Marshal(p) \in Seq(Codec!Symbols) /\ Len(Codec!Marshal(p)) = Len(f) + 4
        /\ Codec!Marshal(p)[1] = "RRQ"
    <3>1. /\ Codec!Marshal(Codec!RRQ(f, m)) \in Seq(Codec!Symbols)
          /\ Len(Codec!Marshal(Codec!RRQ(f, m))) = Len(f) + 4
          /\ Codec!Marshal(Codec!RRQ(f, m))[1] = "RRQ"
      BY RequestDatagram
    <3> QED
      BY <2>1, <3>1
  <2> QED
    BY <2>1, <2>2, <2>3, PacketOps
<1>2. CASE \E c \in Numbers : p = Codec!ACK(c)
  BY <1>2, AckDatagram, PacketOps
<1>3. CASE \E c \in Numbers, t \in Seq(Words) : p = Codec!ERR(c, t)
  <2>1. PICK c \in Numbers, t \in Seq(Words) : p = Codec!ERR(c, t)
    BY <1>3
  <2>2. Len(t) \in Nat
    OBVIOUS
  <2>3. /\ Codec!Marshal(p) \in Seq(Codec!Symbols) /\ Len(Codec!Marshal(p)) = Len(t) + 3
        /\ Codec!Marshal(p)[1] = "ERR"
    <3>1. /\ Codec!Marshal(Codec!ERR(c, t)) \in Seq(Codec!Symbols)
          /\ Len(Codec!Marshal(Codec!ERR(c, t))) = Len(t) + 3
          /\ Codec!Marshal(Codec!ERR(c, t))[1] = "ERR"
      BY ErrorDatagram
    <3> QED
      BY <2>1, <3>1
  <2> QED
    BY <2>1, <2>2, <2>3, PacketOps
<1>4. CASE \E c \in Numbers, t \in Seq(Words) :
              Len(t) <= BufSize - 2 /\ p = Codec!DATA(c, t)
  <2>1. PICK c \in Numbers, t \in Seq(Words) : p = Codec!DATA(c, t)
    BY <1>4
  <2>2. Len(t) \in Nat
    OBVIOUS
  <2>3. /\ Codec!Marshal(p) \in Seq(Codec!Symbols) /\ Len(Codec!Marshal(p)) = Len(t) + 2
        /\ Codec!Marshal(p)[1] = "DATA"
    BY <2>1, DataDatagram
  <2> QED
    BY <2>1, <2>2, <2>3, PacketOps
<1> QED
  BY <1>1, <1>2, <1>3, <1>4, PacketCases

\* What Serve makes of a packet.
LEMMA Served ==
    ASSUME Codec!Parameters, NEW p \in Codec!Packets,
           NEW r, r = Codec!UnmarshalRRQ(
                        Codec!Overlay(Codec!Zeroes(BufSize), Codec!Marshal(p)))
    PROVE  IF /\ p.op = "RRQ" /\ Codec!Fits(p)
              /\ p.filename # <<>> /\ p.mode \in {"", "octet", "OCTET"}
           THEN r = [p EXCEPT !.mode = IF @ = "" THEN "octet" ELSE @]
           ELSE r = Codec!Bad
<1> DEFINE old == Codec!Zeroes(BufSize)
           d == Codec!Marshal(p)
           b == Codec!Overlay(old, d)
<1>1. old \in [1 .. BufSize -> Codec!Symbols]
  BY DEF Codec!Zeroes, Codec!Symbols
<1>2. /\ d \in Seq(Codec!Symbols) /\ Len(d) > 1 /\ d[1] = p.op
  BY DatagramFacts
<1>3. r = Codec!UnmarshalRRQ(b)
  OBVIOUS
<1> HIDE DEF old
<1>4. BufSize \in Nat /\ BufSize > 3 /\ Len(d) \in Nat
  BY <1>2 DEF Codec!Parameters
<1>5. /\ b \in Seq(Codec!Symbols) /\ Len(b) = BufSize
      /\ \A i \in 1 .. BufSize : i <= Len(d) => b[i] = d[i]
  <2> HIDE DEF d
  <2> QED
    BY <1>1, <1>2, OverlayFacts
<1>6. b[1] = p.op /\ Head(b) = b[1]
  BY <1>2, <1>4, <1>5
<1>7. CASE p.op # "RRQ"
  <2>1. Codec!UnmarshalRRQ(b) = Codec!Bad
    BY <1>6, <1>7 DEF Codec!UnmarshalRRQ
  <2> QED
    BY <1>3, <1>7, <2>1
<1>8. CASE p.op = "RRQ"
  <2>1. PICK f \in Seq(Words), m \in Modes : p = Codec!RRQ(f, m)
    BY <1>8, PacketCases, PacketOps
  <2> DEFINE n == Len(f)
             mode == IF m = "" THEN "octet" ELSE m
  <2>2. n \in Nat
    OBVIOUS
  <2>3. /\ Len(d) = n + 4
        /\ \A i \in 1 .. n : d[i + 1] = f[i]
        /\ d[n + 2] = Codec!Nul
        /\ d[n + 3] = mode
        /\ d[n + 4] = Codec!Nul
    <3> DEFINE e == Codec!Marshal(Codec!RRQ(f, m))
    <3>1. /\ Len(e) = Len(f) + 4
          /\ \A i \in 1 .. Len(f) : e[i + 1] = f[i]
          /\ e[Len(f) + 2] = Codec!Nul
          /\ e[Len(f) + 3] = IF m = "" THEN "octet" ELSE m
          /\ e[Len(f) + 4] = Codec!Nul
      BY RequestDatagram
    <3>2. d = e
      BY <2>1
    <3> HIDE DEF e, d
    <3> QED
      BY <3>1, <3>2
  <2>4. mode # Codec!Nul
    BY DEF Codec!Parameters, Codec!Nul
  <2>5. p.filename = f /\ p.mode = m
    BY <2>1, PacketOps
  <2>6. Codec!Fits(p) <=> n + 4 <= BufSize
    BY <2>3 DEF Codec!Fits
  <2> HIDE DEF n, mode, d, b
  <2>7. /\ \A i \in 1 .. n : i + 1 <= BufSize => b[i + 1] = f[i]
        /\ n + 2 <= BufSize => b[n + 2] = Codec!Nul
        /\ n + 3 <= BufSize => b[n + 3] = mode
        /\ n + 4 <= BufSize => b[n + 4] = Codec!Nul
    BY <1>4, <1>5, <2>2, <2>3
  <2>8. Codec!UnmarshalRRQ(b)
          = IF n + 4 <= BufSize /\ f # <<>> /\ mode \in {"octet", "OCTET"}
            THEN Codec!RRQ(f, mode) ELSE Codec!Bad
    <3>1. b \in Seq(Codec!Symbols) /\ Len(b) = BufSize
      BY <1>5
    <3>2. b[1] = "RRQ" /\ f \in Seq(Words)
      BY <1>6, <1>8
    <3>3. /\ \A i \in 1 .. Len(f) : i + 1 <= BufSize => b[i + 1] = f[i]
          /\ Len(f) + 2 <= BufSize => b[Len(f) + 2] = Codec!Nul
          /\ Len(f) + 3 <= BufSize => b[Len(f) + 3] = mode
          /\ Len(f) + 4 <= BufSize => b[Len(f) + 4] = Codec!Nul
      BY <2>7 DEF n
    <3>4. Codec!UnmarshalRRQ(b)
            = IF Len(f) + 4 <= BufSize /\ f # <<>> /\ mode \in {"octet", "OCTET"}
              THEN Codec!RRQ(f, mode) ELSE Codec!Bad
      BY ONLY Codec!Parameters, <2>4, <3>1, <3>2, <3>3, RequestRead
    <3> QED
      BY <3>4 DEF n
  <2>9. mode \in {"octet", "OCTET"} <=> m \in {"", "octet", "OCTET"}
    BY DEF mode
  <2>10. Codec!RRQ(f, mode) = [p EXCEPT !.mode = IF @ = "" THEN "octet" ELSE @]
    <3>1. p = [op |-> "RRQ", filename |-> f, mode |-> m]
      BY <2>1 DEF Codec!RRQ
    <3>2. [p EXCEPT !.mode = mode] = [op |-> "RRQ", filename |-> f, mode |-> mode]
      BY <3>1
    <3>3. mode = IF p.mode = "" THEN "octet" ELSE p.mode
      BY <2>5 DEF mode
    <3> QED
      BY <3>2, <3>3 DEF Codec!RRQ
  <2> QED
    BY <1>3, <1>8, <2>5, <2>6, <2>8, <2>9, <2>10
<1> QED
  BY <1>7, <1>8

\* What handle makes of it, whatever its buffer holds.
LEMMA Handled ==
    ASSUME Codec!Parameters, NEW p \in Codec!Packets,
           NEW old \in [1 .. BufSize -> Codec!Symbols],
           NEW r, r = Codec!Reply(Codec!Overlay(old, Codec!Marshal(p)))
    PROVE  IF p.op \in {"ACK", "ERR"} /\ Codec!Fits(p) THEN r = p ELSE r = Codec!Bad
<1> DEFINE d == Codec!Marshal(p)
           b == Codec!Overlay(old, d)
<1>1. r = Codec!Reply(b)
  OBVIOUS
<1>2. /\ d \in Seq(Codec!Symbols) /\ Len(d) > 1 /\ d[1] = p.op
      /\ p.op \in {"RRQ", "ACK", "ERR", "DATA"}
  BY DatagramFacts
<1>3. BufSize \in Nat /\ BufSize > 3 /\ Len(d) \in Nat
  BY <1>2 DEF Codec!Parameters
<1>4. /\ b \in Seq(Codec!Symbols) /\ Len(b) = BufSize
      /\ \A i \in 1 .. BufSize : i <= Len(d) => b[i] = d[i]
  <2> HIDE DEF d
  <2> QED
    BY <1>2, OverlayFacts
<1>5. b[1] = p.op /\ Head(b) = b[1] /\ b[2] = d[2]
  BY <1>2, <1>3, <1>4
<1>6. CASE p.op \in {"RRQ", "DATA"}
  <2>1. Codec!Reply(b) = Codec!Bad
    BY <1>5, <1>6 DEF Codec!Reply, Codec!UnmarshalACK, Codec!UnmarshalERR
  <2> QED
    BY <1>1, <1>6, <2>1
<1>7. CASE p.op = "ACK"
  <2>1. PICK c \in Numbers : p = Codec!ACK(c)
    BY <1>7, PacketCases, PacketOps
  <2>2. Len(d) = 2 /\ d[2] = c
    BY <2>1, AckDatagram
  <2>3. Codec!Fits(p)
    BY <1>3, <2>2 DEF Codec!Fits
  <2>4. Codec!UnmarshalACK(b) = Codec!ACK(c)
    BY <1>5, <1>7, <2>2 DEF Codec!UnmarshalACK
  <2>5. Codec!ACK(c) # Codec!Bad
    BY PacketOps
  <2>6. Codec!Reply(b) = p
    BY <2>1, <2>4, <2>5 DEF Codec!Reply
  <2> QED
    BY <1>1, <1>7, <2>3, <2>6
<1>8. CASE p.op = "ERR"
  <2>1. PICK c \in Numbers, t \in Seq(Words) : p = Codec!ERR(c, t)
    BY <1>8, PacketCases, PacketOps
  <2> DEFINE n == Len(t)
  <2>2. n \in Nat
    OBVIOUS
  <2>3. /\ Len(d) = n + 3 /\ d[2] = c
        /\ \A i \in 1 .. n : d[i + 2] = t[i]
        /\ d[n + 3] = Codec!Nul
    BY <2>1, ErrorDatagram
  <2>4. Codec!Fits(p) <=> n + 3 <= BufSize
    BY <2>3 DEF Codec!Fits
  <2> HIDE DEF n, d, b
  <2>5. /\ \A i \in 1 .. n : i + 2 <= BufSize => b[i + 2] = t[i]
        /\ n + 3 <= BufSize => b[n + 3] = Codec!Nul
    BY <1>3, <1>4, <2>2, <2>3
  <2>6. b[1] = "ERR" /\ b[2] = c
    BY <1>5, <1>8, <2>3
  <2>7. Codec!Reply(b) = IF n + 3 <= BufSize THEN Codec!ERR(c, t) ELSE Codec!Bad
    BY <1>4, <2>5, <2>6, ErrorRead DEF n
  <2> QED
    BY <1>1, <1>8, <2>1, <2>4, <2>7
<1> QED
  BY <1>2, <1>6, <1>7, <1>8

\* What a client makes of it.
LEMMA Received ==
    ASSUME Codec!Parameters, NEW p \in Codec!Packets,
           NEW r, r = Codec!UnmarshalDATA(Codec!Marshal(p))
    PROVE  r = IF p.op = "DATA" THEN p ELSE Codec!Bad
<1> DEFINE d == Codec!Marshal(p)
<1>1. /\ d \in Seq(Codec!Symbols) /\ Len(d) > 1 /\ d[1] = p.op
  BY DatagramFacts
<1>2. BufSize \in Nat /\ Len(d) \in Nat
  BY <1>1 DEF Codec!Parameters
<1>3. Head(d) = p.op
  BY <1>1, <1>2
<1>4. CASE p.op # "DATA"
  BY <1>3, <1>4 DEF Codec!UnmarshalDATA
<1>5. CASE p.op = "DATA"
  <2>1. PICK c \in Numbers, t \in Seq(Words) :
           Len(t) <= BufSize - 2 /\ p = Codec!DATA(c, t)
    BY <1>5, PacketCases, PacketOps
  <2> DEFINE n == Len(t)
             s == SubSeq(d, 3, Len(d))
  <2>2. n \in Nat
    OBVIOUS
  <2>3. /\ Len(d) = n + 2 /\ d[2] = c
        /\ \A i \in 1 .. n : d[i + 2] = t[i]
    <3> DEFINE e == Codec!Marshal(Codec!DATA(c, t))
    <3>1. /\ Len(e) = Len(t) + 2 /\ e[2] = c
          /\ \A i \in 1 .. Len(t) : e[i + 2] = t[i]
      BY DataDatagram
    <3>2. d = e
      BY <2>1
    <3> HIDE DEF e, d
    <3> QED
      BY <3>1, <3>2
  <2>4. Codec!LengthOK(d)
    BY <1>2, <2>1, <2>2, <2>3 DEF Codec!LengthOK
  <2>5. r = Codec!DATA(c, s)
    BY <1>3, <1>5, <2>3, <2>4 DEF Codec!UnmarshalDATA
  <2>6. 3 \in 1 .. Len(d) + 1 /\ Len(d) \in 0 .. Len(d) /\ 3 <= Len(d) + 1
    BY <1>2, <2>2, <2>3
  <2> HIDE DEF d
  <2>7. /\ s \in Seq(Codec!Symbols) /\ Len(s) = Len(d) + 1 - 3
        /\ \A i \in 1 .. Len(d) + 1 - 3 : s[i] = d[3 + i - 1]
    BY ZenonT(60), <1>1, <2>6, PartFacts
  <2> HIDE DEF s
  <2>8. Len(s) = Len(t)
    BY <2>2, <2>3, <2>7
  <2>9. \A i \in 1 .. Len(s) : s[i] = t[i]
    BY <2>2, <2>3, <2>7
  <2>10. t \in Seq(Codec!Symbols)
    BY SeqMonotonic DEF Codec!Symbols
  <2>11. s = t
    BY <2>7, <2>8, <2>9, <2>10, SeqEqual
  <2> QED
    BY <1>5, <2>1, <2>5, <2>11
<1> QED
  BY <1>4, <1>5

CodecInv ==
    /\ Codec!TypeOK
    /\ Codec!ServeAcceptsRequests
    /\ Codec!DirtyBufferIsHarmless
    /\ Codec!DataArrives

LEMMA CodecInit ==
    ASSUME Codec!Parameters, Codec!Init
    PROVE  CodecInv
  BY PacketOps DEF Codec!Init, CodecInv, Codec!TypeOK, Codec!Zeroes, Codec!Symbols,
     Codec!ServeAcceptsRequests, Codec!DirtyBufferIsHarmless, Codec!DataArrives

LEMMA CodecStep ==
    ASSUME Codec!Parameters, CodecInv, [Codec!Next]_(Codec!vars)
    PROVE  CodecInv'
<1> USE DEF Codec!TypeOK
<1>1. ASSUME NEW p \in Codec!Packets, Codec!Serve(p)
      PROVE  CodecInv'
  <2> USE <1>1 DEF Codec!Serve
  <2>1. /\ packet' = p /\ port' = "serve" /\ buf' = buf /\ returned' = returned
        /\ got' = Codec!UnmarshalRRQ(
                    Codec!Overlay(Codec!Zeroes(BufSize), Codec!Marshal(p)))
    OBVIOUS
  <2>2. Codec!ServeAcceptsRequests'
    <3>1. IF /\ p.op = "RRQ" /\ Codec!Fits(p)
             /\ p.filename # <<>> /\ p.mode \in {"", "octet", "OCTET"}
          THEN got' = [p EXCEPT !.mode = IF @ = "" THEN "octet" ELSE @]
          ELSE got' = Codec!Bad
      BY <2>1, Served
    <3> QED
      BY <2>1, <3>1 DEF Codec!ServeAcceptsRequests
  <2>3. got'.op \in {"RRQ", "ACK", "ERR", "DATA", "BAD"}
    BY <2>1, PacketOps DEF Codec!UnmarshalRRQ
  <2> QED
    BY <2>1, <2>2, <2>3 DEF CodecInv, Codec!DirtyBufferIsHarmless, Codec!DataArrives
<1>2. ASSUME NEW p \in Codec!Packets, Codec!Handle(p)
      PROVE  CodecInv'
  <2> USE <1>2 DEF Codec!Handle
  <2>1. /\ packet' = p /\ port' = "handle" /\ returned' \in BOOLEAN
        /\ buf' = Codec!Overlay(buf, Codec!Marshal(p))
        /\ got' = Codec!Reply(buf')
        /\ buf \in [1 .. BufSize -> Codec!Symbols]
    BY DEF CodecInv
  <2>2. Codec!DirtyBufferIsHarmless'
    <3>1. IF p.op \in {"ACK", "ERR"} /\ Codec!Fits(p)
          THEN got' = p ELSE got' = Codec!Bad
      BY <2>1, Handled
    <3> QED
      BY <2>1, <3>1 DEF Codec!DirtyBufferIsHarmless
  <2>3. got'.op \in {"RRQ", "ACK", "ERR", "DATA", "BAD"}
    BY <2>1, PacketOps DEF Codec!Reply, Codec!UnmarshalACK, Codec!UnmarshalERR
  <2>4. buf' \in [1 .. BufSize -> Codec!Symbols]
    BY <2>1, DatagramFacts, OverlayFacts
  <2> QED
    BY <2>1, <2>2, <2>3, <2>4 DEF CodecInv, Codec!ServeAcceptsRequests, Codec!DataArrives
<1>3. ASSUME NEW p \in Codec!Packets, Codec!Receive(p)
      PROVE  CodecInv'
  <2> USE <1>3 DEF Codec!Receive
  <2>1. /\ packet' = p /\ port' = "client" /\ buf' = buf /\ returned' = returned
        /\ got' = Codec!UnmarshalDATA(Codec!Marshal(p))
    OBVIOUS
  <2>2. Codec!DataArrives'
    <3>1. got' = IF p.op = "DATA" THEN p ELSE Codec!Bad
      BY <2>1, Received
    <3> QED
      BY <2>1, <3>1 DEF Codec!DataArrives
  <2>3. got'.op \in {"RRQ", "ACK", "ERR", "DATA", "BAD"}
    BY <2>1, PacketOps DEF Codec!UnmarshalDATA
  <2> QED
    BY <2>1, <2>2, <2>3
       DEF CodecInv, Codec!ServeAcceptsRequests, Codec!DirtyBufferIsHarmless
<1>4. CASE Codec!NewHandle
  <2> USE <1>4 DEF Codec!NewHandle
  <2>1. buf' \in [1 .. BufSize -> Codec!Symbols]
    BY DEF Codec!Zeroes, Codec!Symbols
  <2> QED
    BY <2>1 DEF CodecInv, Codec!ServeAcceptsRequests, Codec!DirtyBufferIsHarmless,
       Codec!DataArrives
<1>5. CASE UNCHANGED Codec!vars
  BY <1>5 DEF Codec!vars, CodecInv, Codec!ServeAcceptsRequests,
     Codec!DirtyBufferIsHarmless, Codec!DataArrives
<1> QED
  BY <1>1, <1>2, <1>3, <1>4, <1>5 DEF Codec!Next

-----------------------------------------------------------------------------
(* PathRestrict: what path.Clean leaves of a path.                          *)

\* What is left after each segment of a path.
Keeps(f, p, rooted, n) ==
    f = [i \in 0 .. n |-> IF i = 0 THEN <<>> ELSE Path!Push(p[i], f[i - 1], rooted)]

LEMMA KeepsExists ==
    ASSUME NEW p, NEW rooted, NEW n \in Nat
    PROVE  \E f : Keeps(f, p, rooted, n)
<1> DEFINE S == {m \in Nat : \E f : Keeps(f, p, rooted, m)}
<1>1. 0 \in S
  <2> DEFINE g == [i \in 0 .. 0 |-> <<>>]
  <2>1. g = [i \in 0 .. 0 |->
               IF i = 0 THEN <<>> ELSE Path!Push(p[i], g[i - 1], rooted)]
    OBVIOUS
  <2> HIDE DEF g
  <2>2. Keeps(g, p, rooted, 0)
    BY <2>1 DEF Keeps
  <2> QED
    BY <2>2
<1>2. ASSUME NEW m \in Nat, m \in S PROVE m + 1 \in S
  <2>1. PICK f : Keeps(f, p, rooted, m)
    BY <1>2
  <2> DEFINE last == Path!Push(p[m + 1], f[m], rooted)
             g == [i \in 0 .. m + 1 |-> IF i = m + 1 THEN last ELSE f[i]]
  <2>2. ASSUME NEW i \in 0 .. m + 1
        PROVE  g[i] = IF i = 0 THEN <<>> ELSE Path!Push(p[i], g[i - 1], rooted)
    <3>1. CASE i = m + 1
      <4>1. i - 1 = m /\ m \in 0 .. m + 1 /\ m # m + 1 /\ i # 0
        BY <3>1
      <4>2. g[i - 1] = f[m]
        BY <4>1
      <4>3. g[i] = last
        BY <3>1
      <4> QED
        BY <3>1, <4>1, <4>2, <4>3
    <3>2. CASE i # m + 1
      <4>1. i \in 0 .. m /\ g[i] = f[i]
        BY <3>2
      <4>2. f[i] = IF i = 0 THEN <<>> ELSE Path!Push(p[i], f[i - 1], rooted)
        BY <2>1, <4>1 DEF Keeps
      <4>3. i # 0 => g[i - 1] = f[i - 1]
        BY <4>1
      <4> QED
        BY <4>1, <4>2, <4>3
    <3> QED
      BY <3>1, <3>2
  <2>3. g = [i \in 0 .. m + 1 |-> g[i]]
    OBVIOUS
  <2> HIDE DEF g, last
  <2>4. Keeps(g, p, rooted, m + 1)
    BY <2>2, <2>3 DEF Keeps
  <2> QED
    BY <2>4
<1> HIDE DEF S
<1>3. Nat \subseteq S
  BY <1>1, <1>2, Induction
<1> QED
  BY <1>3 DEF S

LEMMA KeptIsBuilt ==
    ASSUME NEW D, NEW p \in Seq(D)
    PROVE  \E f : Keeps(f, p, Path!Rooted(p), Len(p)) /\ Path!Kept(p) = f[Len(p)]
<1> DEFINE f == CHOOSE g : Keeps(g, p, Path!Rooted(p), Len(p))
<1>1. Len(p) \in Nat
  OBVIOUS
<1>2. Keeps(f, p, Path!Rooted(p), Len(p))
  BY <1>1, KeepsExists
<1>3. Path!Kept(p) = f[Len(p)]
  BY DEF Path!Kept, Keeps
<1> QED
  BY <1>2, <1>3

\* Induction over the segments of a path.
LEMMA KeepsSteps ==
    ASSUME NEW f, NEW p, NEW rooted, NEW n \in Nat, Keeps(f, p, rooted, n)
    PROVE  /\ f[0] = <<>>
           /\ \A i \in 0 .. n - 1 : f[i + 1] = Path!Push(p[i + 1], f[i], rooted)
<1>1. ASSUME NEW i \in 0 .. n
      PROVE  f[i] = IF i = 0 THEN <<>> ELSE Path!Push(p[i], f[i - 1], rooted)
  BY DEF Keeps
<1>2. ASSUME NEW i \in 0 .. n - 1
      PROVE  f[i + 1] = Path!Push(p[i + 1], f[i], rooted)
  <2>1. i + 1 \in 0 .. n /\ i + 1 # 0 /\ (i + 1) - 1 = i
    OBVIOUS
  <2> QED
    BY <1>1, <2>1
<1> QED
  BY <1>1, <1>2

LEMMA FrontFacts ==
    ASSUME NEW D, NEW s \in Seq(D), s # <<>>
    PROVE  /\ Path!Front(s) \in Seq(D) /\ Len(Path!Front(s)) = Len(s) - 1
           /\ \A i \in 1 .. Len(s) - 1 : Path!Front(s)[i] = s[i]
<1>1. Len(s) \in Nat /\ Len(s) > 0
  BY EmptySeq
<1>2. 1 \in 1 .. Len(s) + 1 /\ Len(s) - 1 \in 0 .. Len(s) /\ 1 <= (Len(s) - 1) + 1
  BY <1>1
<1>3. /\ SubSeq(s, 1, Len(s) - 1) \in Seq(D)
      /\ Len(SubSeq(s, 1, Len(s) - 1)) = (Len(s) - 1) + 1 - 1
      /\ \A i \in 1 .. (Len(s) - 1) + 1 - 1 :
            SubSeq(s, 1, Len(s) - 1)[i] = s[1 + i - 1]
  BY <1>2, PartFacts
<1>4. (Len(s) - 1) + 1 - 1 = Len(s) - 1 /\ \A i \in 1 .. Len(s) - 1 : 1 + i - 1 = i
  BY <1>1
<1> QED
  BY <1>3, <1>4 DEF Path!Front

\* What is left of a path are segments of it that name something, or go up.
Names(p) == {p[i] : i \in DOMAIN p} \ {"", "."}

LEMMA PushKeeps ==
    ASSUME NEW D, NEW s, s \in D \cup {"", "."}, NEW kept \in Seq(D), NEW rooted
    PROVE  Path!Push(s, kept, rooted) \in Seq(D)
<1>1. ASSUME s \in D PROVE Append(kept, s) \in Seq(D)
  BY <1>1, AppendProperties
<1>2. kept # <<>> => Path!Front(kept) \in Seq(D)
  BY FrontFacts
<1> QED
  BY <1>1, <1>2 DEF Path!Push

LEMMA KeepsNames ==
    ASSUME NEW D, NEW p \in Seq(D), NEW f, NEW rooted, Keeps(f, p, rooted, Len(p))
    PROVE  \A i \in 0 .. Len(p) : f[i] \in Seq(Names(p))
<1> DEFINE n == Len(p)
           S == {m \in Nat : m <= n => f[m] \in Seq(Names(p))}
<1>0. n \in Nat
  OBVIOUS
<1>1. 0 \in S
  <2>1. <<>> \in Seq(Names(p))
    OBVIOUS
  <2>2. f[0] = <<>>
    BY <1>0, KeepsSteps
  <2> QED
    BY <2>1, <2>2
<1>2. ASSUME NEW m \in Nat, m \in S PROVE m + 1 \in S
  <2> SUFFICES ASSUME m + 1 <= n PROVE f[m + 1] \in Seq(Names(p))
    OBVIOUS
  <2>1. m \in 0 .. n - 1 /\ m + 1 \in 1 .. n
    BY <1>0
  <2>2. f[m + 1] = Path!Push(p[m + 1], f[m], rooted)
    BY <1>0, <2>1, KeepsSteps
  <2>3. f[m] \in Seq(Names(p))
    BY <1>0, <1>2, <2>1
  <2>4. p[m + 1] \in Names(p) \cup {"", "."}
    <3>1. DOMAIN p = 1 .. n
      BY LenProperties
    <3> QED
      BY <2>1, <3>1 DEF Names
  <2> QED
    BY <2>2, <2>3, <2>4, PushKeeps
<1> HIDE DEF S
<1>3. Nat \subseteq S
  BY <1>1, <1>2, Induction
<1> QED
  BY <1>0, <1>3 DEF S

\* The same path, read as a rooted one and as one that is not: the second has
\* only steps up in front of what the first has.
Climbs(u, r, up) ==
    /\ Len(r) <= Len(u)
    /\ \A j \in 1 .. Len(r) : u[Len(u) - Len(r) + j] = r[j] /\ r[j] # up
    /\ \A j \in 1 .. Len(u) - Len(r) : u[j] = up

LEMMA ClimbsByName ==
    ASSUME NEW D, NEW u \in Seq(D), NEW r \in Seq(D), NEW s \in D, NEW up,
           Climbs(u, r, up), s # up
    PROVE  Climbs(Append(u, s), Append(r, s), up)
<1> DEFINE n == Len(r)
           k == Len(u) - Len(r)
           v == Append(u, s)
           t == Append(r, s)
<1>1. /\ \A j \in 1 .. n : u[k + j] = r[j] /\ r[j] # up
      /\ \A j \in 1 .. k : u[j] = up
  BY DEF Climbs
<1>2. n \in Nat /\ k \in Nat /\ Len(u) = k + n
  BY DEF Climbs
<1>3. /\ Len(v) = k + n + 1 /\ v[k + n + 1] = s
      /\ \A j \in 1 .. k + n : v[j] = u[j]
  BY <1>2, AppendProperties
<1>4. /\ Len(t) = n + 1 /\ t[n + 1] = s
      /\ \A j \in 1 .. n : t[j] = r[j]
  BY AppendProperties
<1> HIDE DEF n, k, v, t
<1>5. Len(v) - Len(t) = k /\ Len(t) <= Len(v)
  BY <1>2, <1>3, <1>4
<1>6. ASSUME NEW j \in 1 .. Len(t) PROVE v[k + j] = t[j] /\ t[j] # up
  <2>1. CASE j = n + 1
    <3>1. k + j = k + n + 1
      BY <1>2, <2>1
    <3> QED
      BY <1>3, <1>4, <2>1, <3>1
  <2>2. CASE j # n + 1
    <3>1. j \in 1 .. n /\ k + j \in 1 .. k + n
      BY <1>2, <1>4, <2>2
    <3> QED
      BY <1>1, <1>3, <1>4, <3>1
  <2> QED
    BY <2>1, <2>2
<1>7. ASSUME NEW j \in 1 .. k PROVE v[j] = up
  <2>1. j \in 1 .. k + n
    BY <1>2
  <2> QED
    BY <1>1, <1>3, <2>1
<1>8. Climbs(v, t, up)
  BY <1>5, <1>6, <1>7 DEF Climbs
<1> QED
  BY <1>8 DEF v, t

LEMMA ClimbsBack ==
    ASSUME NEW D, NEW u \in Seq(D), NEW r \in Seq(D), NEW up,
           Climbs(u, r, up), r # <<>>
    PROVE  /\ u # <<>> /\ Path!Last(u) = Path!Last(r) /\ Path!Last(r) # up
           /\ Climbs(Path!Front(u), Path!Front(r), up)
<1> DEFINE n == Len(r)
           k == Len(u) - Len(r)
           v == Path!Front(u)
           t == Path!Front(r)
<1>1. /\ \A j \in 1 .. n : u[k + j] = r[j] /\ r[j] # up
      /\ \A j \in 1 .. k : u[j] = up
  BY DEF Climbs
<1>2. n \in Nat /\ k \in Nat /\ Len(u) = k + n
  BY DEF Climbs
<1>3. n > 0 /\ u # <<>>
  BY <1>2, EmptySeq
<1>4. Path!Last(u) = Path!Last(r) /\ Path!Last(r) # up
  <2>1. n \in 1 .. n
    BY <1>2, <1>3
  <2> QED
    BY <1>1, <1>2, <2>1 DEF Path!Last
<1>5. Len(v) = k + n - 1 /\ \A j \in 1 .. k + n - 1 : v[j] = u[j]
  <2>1. Len(v) = Len(u) - 1 /\ \A j \in 1 .. Len(u) - 1 : v[j] = u[j]
    BY <1>3, FrontFacts
  <2> QED
    BY <1>2, <2>1
<1>6. Len(t) = n - 1 /\ \A j \in 1 .. n - 1 : t[j] = r[j]
  BY FrontFacts
<1> HIDE DEF n, k, v, t
<1>7. Len(v) - Len(t) = k /\ Len(t) <= Len(v)
  BY <1>2, <1>3, <1>5, <1>6
<1>8. ASSUME NEW j \in 1 .. Len(t) PROVE v[k + j] = t[j] /\ t[j] # up
  <2>1. j \in 1 .. n - 1 /\ j \in 1 .. n /\ k + j \in 1 .. k + n - 1
    BY <1>2, <1>3, <1>6
  <2> QED
    BY <1>1, <1>5, <1>6, <2>1
<1>9. ASSUME NEW j \in 1 .. k PROVE v[j] = up
  <2>1. j \in 1 .. k + n - 1
    BY <1>2, <1>3
  <2> QED
    BY <1>1, <1>5, <2>1
<1>10. Climbs(v, t, up)
  BY <1>7, <1>8, <1>9 DEF Climbs
<1> QED
  BY <1>3, <1>4, <1>10 DEF v, t

LEMMA ClimbsOn ==
    ASSUME NEW D, NEW u \in Seq(D), NEW up \in D, Climbs(u, <<>>, up)
    PROVE  /\ u # <<>> => Path!Last(u) = up
           /\ Climbs(Append(u, up), <<>>, up)
<1> DEFINE k == Len(u)
           v == Append(u, up)
<1>1. k \in Nat /\ Len(<<>>) = 0 /\ k - Len(<<>>) = k
  OBVIOUS
<1>2. \A j \in 1 .. k : u[j] = up
  BY <1>1 DEF Climbs
<1>3. u # <<>> => Path!Last(u) = up
  <2>1. u # <<>> => k \in 1 .. k
    BY <1>1, EmptySeq
  <2> QED
    BY <1>2, <2>1 DEF Path!Last
<1>4. /\ Len(v) = k + 1 /\ v[k + 1] = up
      /\ \A j \in 1 .. k : v[j] = u[j]
  BY AppendProperties
<1> HIDE DEF k, v
<1>5. \A j \in 1 .. k + 1 : v[j] = up
  BY <1>1, <1>2, <1>4
<1>6. Climbs(v, <<>>, up)
  BY <1>1, <1>4, <1>5 DEF Climbs
<1> QED
  BY <1>3, <1>6 DEF v

LEMMA PushClimbs ==
    ASSUME NEW D, NEW u \in Seq(D), NEW r \in Seq(D), Climbs(u, r, ".."),
           NEW s, s \in D \cup {"", "."}
    PROVE  Climbs(Path!Push(s, u, FALSE), Path!Push(s, r, TRUE), "..")
<1>1. CASE s \in {"", "."}
  BY <1>1 DEF Path!Push
<1>2. CASE s \notin {"", "."} /\ s # ".."
  <2>1. Path!Push(s, u, FALSE) = Append(u, s) /\ Path!Push(s, r, TRUE) = Append(r, s)
    BY <1>2 DEF Path!Push
  <2> QED
    BY <1>2, <2>1, ClimbsByName
<1>3. CASE s = ".." /\ r # <<>>
  <2>1. /\ u # <<>> /\ Path!Last(u) = Path!Last(r) /\ Path!Last(r) # ".."
        /\ Climbs(Path!Front(u), Path!Front(r), "..")
    BY <1>3, ClimbsBack
  <2>2. /\ Path!Push(s, u, FALSE) = Path!Front(u)
        /\ Path!Push(s, r, TRUE) = Path!Front(r)
    BY <1>3, <2>1 DEF Path!Push
  <2> QED
    BY <2>1, <2>2
<1>4. CASE s = ".." /\ r = <<>>
  <2>1. ".." \in D
    BY <1>4
  <2>2. /\ u # <<>> => Path!Last(u) = ".."
        /\ Climbs(Append(u, ".."), <<>>, "..")
    BY <1>4, <2>1, ClimbsOn
  <2>3. Path!Push(s, u, FALSE) = Append(u, "..") /\ Path!Push(s, r, TRUE) = <<>>
    BY <1>4, <2>2 DEF Path!Push
  <2> QED
    BY <2>2, <2>3
<1> QED
  BY <1>1, <1>2, <1>3, <1>4

LEMMA KeepsClimb ==
    ASSUME NEW D, NEW p \in Seq(D), NEW f, NEW g,
           Keeps(f, p, FALSE, Len(p)), Keeps(g, p, TRUE, Len(p))
    PROVE  \A i \in 0 .. Len(p) : Climbs(f[i], g[i], "..")
<1> DEFINE n == Len(p)
           S == {m \in Nat : m <= n => Climbs(f[m], g[m], "..")}
<1>0. n \in Nat
  OBVIOUS
<1>1. 0 \in S
  <2>1. f[0] = <<>> /\ g[0] = <<>>
    BY <1>0, KeepsSteps
  <2>2. Climbs(<<>>, <<>>, "..")
    BY DEF Climbs
  <2> QED
    BY <2>1, <2>2
<1>2. ASSUME NEW m \in Nat, m \in S PROVE m + 1 \in S
  <2> SUFFICES ASSUME m + 1 <= n PROVE Climbs(f[m + 1], g[m + 1], "..")
    OBVIOUS
  <2>1. m \in 0 .. n - 1 /\ m + 1 \in 1 .. n /\ m \in 0 .. n
    BY <1>0
  <2>2. /\ f[m + 1] = Path!Push(p[m + 1], f[m], FALSE)
        /\ g[m + 1] = Path!Push(p[m + 1], g[m], TRUE)
    BY ZenonT(60), <1>0, <2>1, KeepsSteps
  <2>3. Climbs(f[m], g[m], "..")
    BY <1>0, <1>2, <2>1
  <2>4. f[m] \in Seq(Names(p)) /\ g[m] \in Seq(Names(p))
    BY <2>1, KeepsNames
  <2>5. p[m + 1] \in Names(p) \cup {"", "."}
    <3>1. DOMAIN p = 1 .. n
      BY LenProperties
    <3> QED
      BY <2>1, <3>1 DEF Names
  <2> QED
    BY <2>2, <2>3, <2>4, <2>5, PushClimbs
<1> HIDE DEF S
<1>3. Nat \subseteq S
  BY <1>1, <1>2, Induction
<1> QED
  BY <1>0, <1>3 DEF S

\* One and two segments in front of a path.
LEMMA OneInFront ==
    ASSUME NEW D, NEW e, NEW p \in Seq(D), NEW q, q = <<e>> \o p
    PROVE  /\ q \in Seq(D \cup {e}) /\ Len(q) = 1 + Len(p)
           /\ \A i \in DOMAIN p : 1 + i \in DOMAIN q /\ q[1 + i] = p[i]
<1>1. /\ <<e>> \in Seq(D \cup {e}) /\ Len(<<e>>) = 1
      /\ Len(p) \in Nat /\ DOMAIN p = 1 .. Len(p)
  BY LenProperties
<1>2. p \in Seq(D \cup {e})
  BY SeqMonotonic
<1>3. /\ q \in Seq(D \cup {e}) /\ Len(q) = Len(<<e>>) + Len(p)
      /\ \A i \in 1 .. Len(p) : q[Len(<<e>>) + i] = p[i]
  BY <1>1, <1>2, ConcatFacts
<1>4. DOMAIN q = 1 .. Len(q)
  BY <1>3, LenProperties
<1> QED
  BY <1>1, <1>3, <1>4

LEMMA TwoInFront ==
    ASSUME NEW D, NEW e, NEW p \in Seq(D), NEW q, q = <<e, e>> \o p
    PROVE  /\ q \in Seq(D \cup {e}) /\ Len(q) = 2 + Len(p)
           /\ q[1] = e /\ q[2] = e
           /\ \A i \in 1 .. Len(p) : q[2 + i] = p[i]
<1> DEFINE ee == <<e, e>>
<1>1. /\ ee \in Seq(D \cup {e}) /\ Len(ee) = 2 /\ ee[1] = e /\ ee[2] = e
      /\ Len(p) \in Nat
  OBVIOUS
<1>2. p \in Seq(D \cup {e})
  BY SeqMonotonic
<1> HIDE DEF ee
<1>3. /\ q \in Seq(D \cup {e}) /\ Len(q) = Len(ee) + Len(p)
      /\ \A i \in 1 .. Len(ee) : q[i] = ee[i]
      /\ \A i \in 1 .. Len(p) : q[Len(ee) + i] = p[i]
  <2>1. ee \in Seq(D \cup {e}) /\ q = ee \o p
    BY <1>1 DEF ee
  <2> QED
    BY <1>2, <2>1, ConcatFacts
<1> QED
  BY <1>1, <1>3

LEMMA KeepsAfterTwo ==
    ASSUME NEW p, NEW q, NEW n \in Nat, NEW rooted, NEW f, NEW g,
           \A i \in 1 .. n : q[2 + i] = p[i],
           Keeps(f, q, rooted, 2 + n), Keeps(g, p, rooted, n), f[2] = g[0]
    PROVE  g[n] = f[2 + n]
<1> DEFINE S == {m \in Nat : m <= n => g[m] = f[2 + m]}
<1>1. 0 \in S
  OBVIOUS
<1>2. ASSUME NEW m \in Nat, m \in S PROVE m + 1 \in S
  <2> SUFFICES ASSUME m + 1 <= n PROVE g[m + 1] = f[2 + (m + 1)]
    OBVIOUS
  <2>1. /\ m \in 0 .. n - 1 /\ m + 1 \in 1 .. n /\ 2 + m \in 0 .. (2 + n) - 1
        /\ 2 + n \in Nat /\ (2 + m) + 1 = 2 + (m + 1)
    OBVIOUS
  <2>2. g[m + 1] = Path!Push(p[m + 1], g[m], rooted)
    BY <2>1, KeepsSteps
  <2>3. f[(2 + m) + 1] = Path!Push(q[(2 + m) + 1], f[2 + m], rooted)
    BY <2>1, KeepsSteps
  <2>4. q[2 + (m + 1)] = p[m + 1]
    BY <2>1
  <2>5. g[m] = f[2 + m]
    BY <1>2
  <2> QED
    BY <2>1, <2>2, <2>3, <2>4, <2>5
<1> HIDE DEF S
<1>3. Nat \subseteq S
  BY <1>1, <1>2, Induction
<1> QED
  BY <1>3 DEF S

\* The file server cleans a path as a rooted one.
LEMMA FileIsBuilt ==
    ASSUME NEW D, NEW p \in Seq(D)
    PROVE  \E g : Keeps(g, p, TRUE, Len(p)) /\ Path!FileOf(p) = g[Len(p)]
<1> DEFINE n == Len(p)
           E == D \cup {""}
           q == <<"", "">> \o p
<1>1. n \in Nat /\ 2 + n \in Nat /\ 2 + n > 1
  OBVIOUS
<1>2. /\ q \in Seq(E) /\ Len(q) = 2 + n /\ q[1] = "" /\ q[2] = ""
      /\ \A i \in 1 .. n : q[2 + i] = p[i]
  <2> DEFINE e == ""
  <2>1. q = <<e, e>> \o p
    OBVIOUS
  <2> HIDE DEF q, e
  <2>2. /\ q \in Seq(D \cup {e}) /\ Len(q) = 2 + Len(p)
        /\ q[1] = e /\ q[2] = e
        /\ \A i \in 1 .. Len(p) : q[2 + i] = p[i]
    BY <2>1, TwoInFront
  <2> QED
    BY <2>2 DEF e
<1> HIDE DEF q
<1>3. Path!Rooted(q) = TRUE
  BY <1>1, <1>2 DEF Path!Rooted
<1>4. PICK f : Keeps(f, q, TRUE, 2 + n) /\ Path!Kept(q) = f[2 + n]
  BY <1>2, <1>3, KeptIsBuilt
<1>5. PICK g : Keeps(g, p, TRUE, n)
  BY <1>1, KeepsExists
<1>6. f[2] = <<>>
  <2>1. f[0] = <<>> /\ \A i \in 0 .. (2 + n) - 1 : f[i + 1] = Path!Push(q[i + 1], f[i], TRUE)
    BY ZenonT(60), <1>1, <1>4, KeepsSteps
  <2>2. 0 \in 0 .. (2 + n) - 1 /\ 1 \in 0 .. (2 + n) - 1 /\ 0 + 1 = 1 /\ 1 + 1 = 2
    BY <1>1
  <2>3. f[1] = Path!Push(q[1], f[0], TRUE) /\ f[2] = Path!Push(q[2], f[1], TRUE)
    BY ONLY <2>1, <2>2
  <2> QED
    BY <1>2, <2>1, <2>3 DEF Path!Push
<1>7. g[0] = <<>>
  BY <1>1, <1>5, KeepsSteps
<1>8. g[n] = f[2 + n]
  <2>1. /\ \A i \in 1 .. n : q[2 + i] = p[i]
        /\ Keeps(f, q, TRUE, 2 + n) /\ Keeps(g, p, TRUE, n) /\ f[2] = g[0]
    BY <1>2, <1>4, <1>5, <1>6, <1>7
  <2> DEFINE rooted == TRUE
  <2>2. n \in Nat
    OBVIOUS
  <2>3. Keeps(f, q, rooted, 2 + n) /\ Keeps(g, p, rooted, n)
    BY <2>1
  <2> HIDE DEF n, rooted
  <2> QED
    BY <2>1, <2>2, <2>3, KeepsAfterTwo
<1> QED
  BY <1>4, <1>5, <1>8 DEF Path!FileOf, q

\* A file lies under segments of the path, and of the cleaned path.
LEMMA FileFacts ==
    ASSUME NEW D, NEW p \in Seq(D), p # <<>>
    PROVE  /\ Path!FileOf(p) \in Seq(Names(p))
           /\ \A i \in DOMAIN Path!FileOf(p) :
                \E j \in DOMAIN Path!Clean(p) : Path!Clean(p)[j] = Path!FileOf(p)[i]
<1> DEFINE n == Len(p)
<1>1. PICK g : Keeps(g, p, TRUE, n) /\ Path!FileOf(p) = g[n]
  BY FileIsBuilt
<1>2. PICK f : Keeps(f, p, Path!Rooted(p), n) /\ Path!Kept(p) = f[n]
  BY KeptIsBuilt
<1>3. n \in 0 .. n
  OBVIOUS
<1>4. Path!FileOf(p) \in Seq(Names(p)) /\ Path!Kept(p) \in Seq(Names(p))
  BY <1>1, <1>2, <1>3, KeepsNames
<1>5. CASE Path!Rooted(p)
  <2>1. Path!FileOf(p) = Path!Kept(p)
    BY <1>1, <1>2, <1>5 DEF Keeps
  <2>2. CASE Path!Kept(p) = <<>>
    BY <1>4, <2>1, <2>2
  <2>3. CASE Path!Kept(p) # <<>>
    <3> DEFINE k == Path!Kept(p)
               c == <<"">> \o k
    <3>1. Path!Clean(p) = c
      BY <1>5, <2>3 DEF Path!Clean
    <3>2. \A i \in DOMAIN k : 1 + i \in DOMAIN c /\ c[1 + i] = k[i]
      <4> DEFINE e == ""
      <4>1. c = <<e>> \o k
        OBVIOUS
      <4> HIDE DEF c, e, k
      <4>2. k \in Seq(Names(p))
        BY <1>4 DEF k
      <4> QED
        BY <4>1, <4>2, OneInFront
    <3>3. Path!FileOf(p) = k
      BY <2>1
    <3> HIDE DEF c, k
    <3> QED
      BY <1>4, <3>1, <3>2, <3>3
  <2> QED
    BY <2>2, <2>3
<1>6. CASE ~Path!Rooted(p)
  <2>1. Path!Rooted(p) = FALSE
    BY <1>6 DEF Path!Rooted
  <2> DEFINE u == f[n]
             r == g[n]
  <2>2. Climbs(u, r, "..")
    BY <1>1, <1>2, <1>3, <2>1, KeepsClimb
  <2>3. u \in Seq(Names(p)) /\ r \in Seq(Names(p))
    BY <1>1, <1>2, <1>4
  <2> HIDE DEF u, r
  <2>4. /\ Len(u) \in Nat /\ Len(r) \in Nat /\ Len(r) <= Len(u)
        /\ DOMAIN u = 1 .. Len(u) /\ DOMAIN r = 1 .. Len(r)
    BY <2>2, <2>3, LenProperties DEF Climbs
  <2>5. ASSUME NEW i \in DOMAIN r PROVE \E j \in DOMAIN u : u[j] = r[i]
    <3>1. Len(u) - Len(r) + i \in DOMAIN u
      BY <2>4
    <3>2. u[Len(u) - Len(r) + i] = r[i]
      BY <2>2, <2>4 DEF Climbs
    <3> QED
      BY <3>1, <3>2
  <2>6. u = <<>> => DOMAIN r = {}
    BY <2>4, EmptySeq
  <2>7. Path!FileOf(p) = r
    BY <1>1 DEF r
  <2>8. Path!Clean(p) = IF u = <<>> THEN <<".">> ELSE u
    BY <1>2, <1>6 DEF Path!Clean, u
  <2> QED
    BY <1>4, <2>5, <2>6, <2>7, <2>8
<1> QED
  BY <1>4, <1>5, <1>6

\* What names something stays, if nothing goes up.
LEMMA PushStays ==
    ASSUME NEW D, NEW s \in D, NEW kept \in Seq(D), NEW rooted, s # ".."
    PROVE  /\ kept # <<>> => Path!Push(s, kept, rooted) # <<>>
           /\ s \notin {"", "."} => Path!Push(s, kept, rooted) # <<>>
<1>1. Append(kept, s) # <<>>
  BY AppendProperties
<1> QED
  BY <1>1 DEF Path!Push

LEMMA OnceNamed ==
    ASSUME NEW n \in Nat, NEW p, NEW f, NEW Blank,
           \A m \in 0 .. n - 1 : /\ f[m] # <<>> => f[m + 1] # <<>>
                                 /\ p[m + 1] \notin Blank => f[m + 1] # <<>>
    PROVE  (\E i \in 1 .. n : p[i] \notin Blank) => f[n] # <<>>
<1> DEFINE S == {m \in Nat : m <= n /\ (\E i \in 1 .. m : p[i] \notin Blank)
                                => f[m] # <<>>}
<1>1. 0 \in S
  OBVIOUS
<1>2. ASSUME NEW m \in Nat, m \in S PROVE m + 1 \in S
  <2> SUFFICES ASSUME m + 1 <= n, NEW i \in 1 .. m + 1, p[i] \notin Blank
               PROVE  f[m + 1] # <<>>
    OBVIOUS
  <2>1. m \in 0 .. n - 1 /\ m <= n /\ (i \in 1 .. m \/ i = m + 1)
    OBVIOUS
  <2> QED
    BY <1>2, <2>1
<1> HIDE DEF S
<1>3. Nat \subseteq S
  BY <1>1, <1>2, Induction
<1> QED
  BY <1>3 DEF S

LEMMA NothingKept ==
    ASSUME NEW D, NEW p \in Seq(D), Path!Kept(p) = <<>>,
           \A i \in DOMAIN p : p[i] # ".."
    PROVE  \A i \in DOMAIN p : p[i] \in {"", "."}
<1> DEFINE n == Len(p)
           rooted == Path!Rooted(p)
           E == D \cup Names(p)
<1>1. PICK f : Keeps(f, p, rooted, n) /\ Path!Kept(p) = f[n]
  BY KeptIsBuilt
<1>2. n \in Nat /\ DOMAIN p = 1 .. n
  BY LenProperties
<1>3. ASSUME NEW m \in 0 .. n - 1
      PROVE  m \in 0 .. n /\ m + 1 \in 1 .. n
  <2> HIDE DEF n
  <2> QED
    BY <1>2
<1> HIDE DEF rooted
<1>4. ASSUME NEW m \in 0 .. n - 1
      PROVE  /\ f[m] # <<>> => f[m + 1] # <<>>
             /\ p[m + 1] \notin {"", "."} => f[m + 1] # <<>>
  <2>1. m \in 0 .. n /\ m + 1 \in 1 .. n
    BY <1>3
  <2>2. f[m + 1] = Path!Push(p[m + 1], f[m], rooted)
    BY <1>1, <1>2, KeepsSteps
  <2>3. f[m] \in Seq(E)
    <3>1. f[m] \in Seq(Names(p))
      BY <1>1, <2>1, KeepsNames
    <3> QED
      BY <3>1, SeqMonotonic
  <2>4. p[m + 1] \in E /\ p[m + 1] # ".."
    BY <1>2, <2>1, ElementOfSeq
  <2> HIDE DEF E
  <2> QED
    BY <2>2, <2>3, <2>4, PushStays
<1> DEFINE Blank == {"", "."}
<1>5. \A m \in 0 .. n - 1 : /\ f[m] # <<>> => f[m + 1] # <<>>
                            /\ p[m + 1] \notin Blank => f[m + 1] # <<>>
  BY <1>4
<1> HIDE DEF n, Blank
<1>6. (\E i \in 1 .. n : p[i] \notin Blank) => f[n] # <<>>
  BY <1>2, <1>5, OnceNamed
<1> QED
  BY <1>1, <1>2, <1>6 DEF Blank

LEMMA FileIsShown ==
    ASSUME NEW D, NEW p \in Seq(D), p # <<>>, NEW q,
           ~Path!Restricted(p, q) \/ ~Path!Restricted(Path!Clean(p), q)
    PROVE  \A i \in DOMAIN Path!FileOf(p) : ~StartsWith(Path!FileOf(p)[i], q)
<1> TAKE i \in DOMAIN Path!FileOf(p)
<1>1. /\ Path!FileOf(p) \in Seq(Names(p))
      /\ \E j \in DOMAIN Path!Clean(p) : Path!Clean(p)[j] = Path!FileOf(p)[i]
  BY FileFacts
<1>2. \E j \in DOMAIN p : p[j] = Path!FileOf(p)[i]
  <2>1. Path!FileOf(p)[i] \in Names(p)
    <3>1. i \in 1 .. Len(Path!FileOf(p))
      BY <1>1, LenProperties
    <3> QED
      BY <1>1, <3>1, ElementOfSeq
  <2> QED
    BY <2>1 DEF Names
<1> QED
  BY <1>1, <1>2 DEF Path!Restricted

LEMMA CaddyRefuses ==
    ASSUME NEW D, NEW p \in Seq(D), p # <<>>, NEW q,
           StartsWith(".", q) => StartsWith("..", q),
           Path!Restricted(Path!Clean(p), q), ~Path!Restricted(p, q)
    PROVE  \A i \in DOMAIN p : p[i] = ""
<1>1. \A i \in DOMAIN p : ~StartsWith(p[i], q)
  BY DEF Path!Restricted
<1>2. PICK j \in DOMAIN Path!Clean(p) : StartsWith(Path!Clean(p)[j], q)
  BY DEF Path!Restricted
<1>3. PICK f : Keeps(f, p, Path!Rooted(p), Len(p)) /\ Path!Kept(p) = f[Len(p)]
  BY KeptIsBuilt
<1>4. Path!Kept(p) \in Seq(Names(p))
  <2>1. Len(p) \in 0 .. Len(p)
    OBVIOUS
  <2> QED
    BY <1>3, <2>1, KeepsNames
<1>5. ASSUME NEW i \in DOMAIN Path!Kept(p) PROVE ~StartsWith(Path!Kept(p)[i], q)
  <2>1. i \in 1 .. Len(Path!Kept(p))
    BY <1>4, LenProperties
  <2>2. Path!Kept(p)[i] \in Names(p)
    BY <1>4, <2>1, ElementOfSeq
  <2> QED
    BY <1>1, <2>2 DEF Names
<1>6. CASE Path!Rooted(p)
  <2>1. 1 \in DOMAIN p /\ p[1] = ""
    <3> DEFINE n == Len(p)
    <3>1. n > 1
      BY <1>6, Zenon DEF Path!Rooted
    <3>4. p[1] = ""
      BY <1>6, Zenon DEF Path!Rooted
    <3>2. n \in Nat /\ DOMAIN p = 1 .. n
      BY LenProperties
    <3> HIDE DEF n
    <3>3. 1 \in 1 .. n
      BY <3>1, <3>2
    <3> QED
      BY <3>2, <3>3, <3>4
  <2>2. CASE Path!Kept(p) = <<>>
    <3>1. Path!Clean(p) = <<"", "">>
      BY <1>6, <2>2 DEF Path!Clean
    <3>2. Path!Clean(p)[j] = ""
      <4> DEFINE e == ""
      <4>1. j \in DOMAIN <<e, e>>
        BY <3>1
      <4>2. Path!Clean(p)[j] = <<e, e>>[j]
        BY <3>1
      <4> HIDE DEF e
      <4>3. <<e, e>>[j] = e
        BY <4>1
      <4> QED
        BY <4>2, <4>3 DEF e
    <3> QED
      BY <1>1, <1>2, <2>1, <3>2
  <2>3. CASE Path!Kept(p) # <<>>
    <3> DEFINE k == Path!Kept(p)
               e == ""
               c == <<e>> \o k
    <3>1. Path!Clean(p) = c
      BY <1>6, <2>3 DEF Path!Clean
    <3>2. k \in Seq(Names(p)) /\ e = p[1]
      BY <1>4, <2>1
    <3>3. \A i \in DOMAIN k : ~StartsWith(k[i], q)
      BY <1>5
    <3> HIDE DEF e, k
    <3>4. c[j] = e \/ \E i \in DOMAIN k : c[j] = k[i]
      <4>1. /\ <<e>> \in Seq({e} \cup Names(p)) /\ Len(<<e>>) = 1 /\ <<e>>[1] = e
            /\ Len(k) \in Nat /\ DOMAIN k = 1 .. Len(k)
        BY <3>2, LenProperties
      <4>2. k \in Seq({e} \cup Names(p))
        BY <3>2, SeqMonotonic
      <4>3. /\ c \in Seq({e} \cup Names(p)) /\ Len(c) = Len(<<e>>) + Len(k)
            /\ \A i \in 1 .. Len(<<e>>) : c[i] = <<e>>[i]
            /\ \A i \in 1 .. Len(k) : c[Len(<<e>>) + i] = k[i]
        BY <4>1, <4>2, ConcatFacts
      <4>4. j \in 1 .. Len(c)
        BY <3>1, <4>3, LenProperties
      <4>5. CASE j = 1
        BY <4>1, <4>3, <4>5
      <4>6. CASE j # 1
        <5>1. j - 1 \in 1 .. Len(k) /\ 1 + (j - 1) = j
          BY <4>1, <4>3, <4>4, <4>6
        <5> QED
          BY <4>1, <4>3, <5>1
      <4> QED
        BY <4>5, <4>6
    <3> QED
      BY <1>1, <1>2, <2>1, <3>1, <3>2, <3>3, <3>4
  <2> QED
    BY <2>2, <2>3
<1>7. CASE ~Path!Rooted(p) /\ Path!Kept(p) # <<>>
  <2>1. Path!Clean(p) = Path!Kept(p)
    BY <1>7 DEF Path!Clean
  <2> QED
    BY <1>2, <1>5, <2>1
<1>8. CASE ~Path!Rooted(p) /\ Path!Kept(p) = <<>>
  <2>1. Path!Clean(p) = <<".">>
    BY <1>8 DEF Path!Clean
  <2>2. StartsWith(".", q)
    BY <1>2, <2>1
  <2>3. \A i \in DOMAIN p : p[i] # ".." /\ p[i] # "."
    BY <1>1, <2>2
  <2> QED
    BY <1>8, <2>3, NothingKept
<1> QED
  BY <1>6, <1>7, <1>8

PathInv == Path!TypeOK /\ Path!NoHiddenFile /\ Path!CaddyIsStricter

LEMMA PathsAreSeqs ==
    ASSUME Path!Parameters, NEW p \in Path!Paths
    PROVE  p \in Seq(Segments) /\ p # <<>>
<1>1. PICK m \in 0 .. MaxSegments : p \in [1 .. m -> Segments]
  BY DEF Path!Paths, Path!SeqOf
<1>2. m \in Nat
  <2>1. MaxSegments \in Nat
    BY Zenon DEF Path!Parameters
  <2> QED
    BY <2>1
<1>3. p \in Seq(Segments)
  BY <1>1, <1>2, FunctionIsSeq
<1> QED
  BY <1>3 DEF Path!Paths

LEMMA PathInit ==
    ASSUME Path!Parameters, Path!Init
    PROVE  PathInv
<1>1. <<"">> \in Path!Paths
  <2>1. <<"">> \in [1 .. 1 -> Segments] /\ <<"">> # <<>>
    <3> DEFINE e == ""
    <3>1. e \in Segments
      BY Zenon DEF Path!Parameters
    <3> HIDE DEF e
    <3>2. <<e>> \in [1 .. 1 -> Segments] /\ <<e>> # <<>>
      BY <3>1
    <3> QED
      BY <3>2 DEF e
  <2>2. 1 \in 0 .. MaxSegments
    <3>1. MaxSegments \in Nat \ {0}
      BY Zenon DEF Path!Parameters
    <3> QED
      BY <3>1
  <2> QED
    BY <2>1, <2>2 DEF Path!Paths, Path!SeqOf
<1>2. prefix \in (Configs \cup {"."}) \ {""}
  BY DEF Path!Init, Path!Validate
<1> QED
  BY <1>1, <1>2
     DEF Path!Init, PathInv, Path!TypeOK, Path!NoHiddenFile, Path!CaddyIsStricter

LEMMA PathStep ==
    ASSUME Path!Parameters, PathInv, [Path!Next]_(Path!vars)
    PROVE  PathInv'
<1>1. CASE Path!Request
  <2> DEFINE p == path'
             q == prefix
  <2>1. /\ p \in Path!Paths /\ prefix' = q
        /\ web' = Path!Outcome(Path!Restricted(Path!Clean(p), q))
        /\ caddy' = Path!Outcome(Path!Restricted(p, q))
    BY <1>1 DEF Path!Request
  <2>2. p \in Seq(Segments) /\ p # <<>>
    BY <2>1, PathsAreSeqs
  <2>3. /\ q \in (Configs \cup {"."}) \ {""}
        /\ StartsWith(".", q) => StartsWith("..", q)
    BY DEF PathInv, Path!TypeOK, Path!Parameters
  <2>4. /\ web' \in {"404", "next"} /\ caddy' \in {"404", "next"}
        /\ web' = "404" <=> Path!Restricted(Path!Clean(p), q)
        /\ caddy' = "404" <=> Path!Restricted(p, q)
    BY <2>1 DEF Path!Outcome
  <2>5. Path!TypeOK'
    BY <2>1, <2>3, <2>4 DEF Path!TypeOK
  <2>6. Path!NoHiddenFile'
    <3>1. ASSUME "next" \in {web', caddy'}
          PROVE  \A i \in DOMAIN Path!FileOf(p) : ~StartsWith(Path!FileOf(p)[i], q)
      BY <2>2, <2>4, <3>1, FileIsShown
    <3> QED
      BY <2>1, <3>1 DEF Path!NoHiddenFile, Path!Hidden
  <2>7. Path!CaddyIsStricter'
    <3>1. ASSUME web' = "404", caddy' = "next"
          PROVE  \A i \in DOMAIN p : p[i] = ""
      BY <2>2, <2>3, <2>4, <3>1, CaddyRefuses
    <3> QED
      BY <3>1 DEF Path!CaddyIsStricter
  <2> QED
    BY <2>5, <2>6, <2>7 DEF PathInv
<1>2. CASE UNCHANGED Path!vars
  BY <1>2 DEF Path!vars, PathInv, Path!TypeOK, Path!NoHiddenFile, Path!CaddyIsStricter,
     Path!Hidden
<1> QED
  BY <1>1, <1>2 DEF Path!Next
-----------------------------------------------------------------------------
(* TLV: where the bytes of each payload lie in the stream, which part of it *)
(* is on the wire, and how far each side has come.                          *)

\* Payloads; the record of each: the type, the length, the body.
AnyPayloads == [typ : Nat, body : Seq(Nat)]

RecordLen(m) == 2 + Len(m.body)

RecordByte(m, b) ==
    IF b = 1 THEN m.typ ELSE IF b = 2 THEN Len(m.body) ELSE m.body[b - 2]

\* Where the records end, one after the other.
Offsets(ms, pos) ==
    /\ pos \in [0 .. Len(ms) -> Nat]
    /\ pos[0] = 0
    /\ \A i \in 1 .. Len(ms) : pos[i] = pos[i - 1] + RecordLen(ms[i])
    /\ \A i, j \in 0 .. Len(ms) : i <= j => pos[i] <= pos[j]

\* The wire holds the bytes c + 1 to l of the stream.
OnWire(u, ms, pos, c, l) ==
    /\ c \in Nat /\ l \in Nat /\ c <= l
    /\ u \in Seq(Nat) /\ Len(u) = l - c
    /\ \A i \in 1 .. Len(ms) : \A b \in 1 .. RecordLen(ms[i]) :
         c < pos[i - 1] + b /\ pos[i - 1] + b <= l
           => u[pos[i - 1] + b - c] = RecordByte(ms[i], b)

LEMMA RecordFacts ==
    ASSUME NEW m \in AnyPayloads
    PROVE  /\ RecordLen(m) \in Nat /\ RecordLen(m) >= 2 /\ Len(m.body) \in Nat
           /\ RecordByte(m, 1) = m.typ /\ RecordByte(m, 2) = Len(m.body)
           /\ \A j \in 1 .. Len(m.body) : RecordByte(m, 2 + j) = m.body[j]
<1>1. m.body \in Seq(Nat) /\ Len(m.body) \in Nat
  BY DEF AnyPayloads
<1>2. \A j \in 1 .. Len(m.body) : 2 + j # 1 /\ 2 + j # 2 /\ (2 + j) - 2 = j
  BY <1>1
<1> QED
  BY <1>1, <1>2 DEF RecordLen, RecordByte

LEMMA OffsetsFacts ==
    ASSUME NEW ms \in Seq(AnyPayloads), NEW pos, Offsets(ms, pos)
    PROVE  /\ Len(ms) \in Nat
           /\ \A i \in 0 .. Len(ms) : pos[i] \in Nat
           /\ \A i \in 1 .. Len(ms) :
                /\ pos[i - 1] \in Nat /\ RecordLen(ms[i]) \in Nat
                /\ RecordLen(ms[i]) >= 2 /\ pos[i] = pos[i - 1] + RecordLen(ms[i])
           /\ \A i, j \in 0 .. Len(ms) : i <= j => pos[i] <= pos[j]
<1>1. Len(ms) \in Nat
  OBVIOUS
<1>2. ASSUME NEW i \in 1 .. Len(ms)
      PROVE  /\ pos[i - 1] \in Nat /\ RecordLen(ms[i]) \in Nat
             /\ RecordLen(ms[i]) >= 2 /\ pos[i] = pos[i - 1] + RecordLen(ms[i])
  <2>1. i - 1 \in 0 .. Len(ms)
    BY <1>1
  <2>2. pos[i - 1] \in Nat
    BY <2>1 DEF Offsets
  <2>3. ms[i] \in AnyPayloads
    BY ElementOfSeq
  <2>4. RecordLen(ms[i]) \in Nat /\ RecordLen(ms[i]) >= 2
    BY <2>3, RecordFacts
  <2> QED
    BY <2>2, <2>4 DEF Offsets
<1>3. ASSUME NEW i \in 0 .. Len(ms) PROVE pos[i] \in Nat
  BY DEF Offsets
<1>4. \A i, j \in 0 .. Len(ms) : i <= j => pos[i] <= pos[j]
  BY DEF Offsets
<1> QED
  BY <1>1, <1>2, <1>3, <1>4

\* Behind u, v has k more bytes of m, from the byte b + 1.
Grown(v, u, k, m, b) ==
    /\ v \in Seq(Nat) /\ Len(v) = Len(u) + k
    /\ \A i \in 1 .. Len(u) : v[i] = u[i]
    /\ \A j \in 1 .. k : v[Len(u) + j] = RecordByte(m, b + j)

\* v is what is left of u after its first k bytes.
Rest(v, u, k) ==
    /\ v \in Seq(Nat) /\ Len(v) = Len(u) - k
    /\ \A i \in 1 .. Len(v) : v[i] = u[k + i]

\* The stream has b bytes of the last record, which has k more.
Within(ms, pos, l, b, k) ==
    l = pos[Len(ms) - 1] + b /\ b + k <= RecordLen(ms[Len(ms)])

\* Bytes of the last record are written behind what has been written of it.
LEMMA WireGrows ==
    ASSUME NEW ms \in Seq(AnyPayloads), NEW pos, Offsets(ms, pos), ms # <<>>,
           NEW u, NEW c, NEW l, OnWire(u, ms, pos, c, l),
           NEW b \in Nat, NEW k \in Nat, Within(ms, pos, l, b, k),
           NEW v, Grown(v, u, k, ms[Len(ms)], b)
    PROVE  OnWire(v, ms, pos, c, l + k)
<1> DEFINE n == Len(ms)
           last == pos[n - 1]
           len == RecordLen(ms[n])
<1>1. n \in Nat /\ n \in 1 .. n /\ n - 1 \in 0 .. n
  BY EmptySeq
<1>2. /\ \A i \in 1 .. n : /\ pos[i - 1] \in Nat /\ RecordLen(ms[i]) \in Nat
                           /\ pos[i] = pos[i - 1] + RecordLen(ms[i])
      /\ \A i, j \in 0 .. n : i <= j => pos[i] <= pos[j]
  BY OffsetsFacts
<1>3. last \in Nat /\ len \in Nat
  BY <1>1, <1>2
<1>4. l = last + b /\ b + k <= len
  BY DEF Within
<1>5. c \in Nat /\ l \in Nat /\ c <= l /\ Len(u) = l - c
  BY DEF OnWire
<1>6. \A i \in 1 .. n : \A a \in 1 .. RecordLen(ms[i]) :
        c < pos[i - 1] + a /\ pos[i - 1] + a <= l
          => u[pos[i - 1] + a - c] = RecordByte(ms[i], a)
  BY DEF OnWire
<1>7. v \in Seq(Nat) /\ Len(v) = Len(u) + k
  BY DEF Grown
<1>8. /\ \A i \in 1 .. Len(u) : v[i] = u[i]
      /\ \A j \in 1 .. k : v[Len(u) + j] = RecordByte(ms[n], b + j)
  BY DEF Grown
<1> HIDE DEF n, last, len
<1>9. ASSUME NEW i \in 1 .. n, NEW a \in 1 .. RecordLen(ms[i]),
             c < pos[i - 1] + a, pos[i - 1] + a <= l + k
      PROVE  v[pos[i - 1] + a - c] = RecordByte(ms[i], a)
  <2> DEFINE p == pos[i - 1]
             s == RecordLen(ms[i])
  <2>1. p \in Nat /\ s \in Nat /\ pos[i] = p + s
    BY <1>2
  <2>2. a \in 1 .. s /\ a \in Nat /\ c < p + a /\ p + a <= l + k
    BY <1>9, <2>1
  <2> HIDE DEF p, s
  <2>3. CASE p + a <= l
    <3>1. p + a - c \in 1 .. Len(u)
      BY <1>5, <2>1, <2>2, <2>3
    <3>2. u[p + a - c] = RecordByte(ms[i], a)
      BY <1>6, <1>9, <2>3 DEF p
    <3> QED
      BY <1>8, <3>1, <3>2 DEF p
  <2>4. CASE p + a > l
    <3>1. i = n
      <4>1. SUFFICES ASSUME i # n PROVE FALSE
        OBVIOUS
      <4>2. i \in 0 .. n /\ i <= n - 1
        BY <1>1, <4>1
      <4>3. pos[i] <= last
        BY <1>1, <1>2, <4>2 DEF last
      <4>4. p + s <= last
        BY <2>1, <4>3
      <4> QED
        BY <1>3, <1>4, <2>1, <2>2, <2>4, <4>4
    <3>2. p = last
      BY <3>1 DEF p, last
    <3>3. a - b \in 1 .. k /\ Len(u) + (a - b) = p + a - c /\ b + (a - b) = a
      BY <1>3, <1>4, <1>5, <2>1, <2>2, <2>4, <3>2
    <3>4. v[Len(u) + (a - b)] = RecordByte(ms[n], b + (a - b))
      BY <1>8, <3>3
    <3> QED
      BY <3>1, <3>3, <3>4 DEF p
  <2> QED
    BY <1>5, <2>1, <2>2, <2>3, <2>4
<1>10. l + k \in Nat /\ c <= l + k /\ Len(v) = (l + k) - c
  BY <1>5, <1>7
<1> QED
  BY <1>5, <1>7, <1>9, <1>10 DEF OnWire, n

\* Another payload, of which nothing is written yet.
Begun(q, ms, pos, m, u, c, l) ==
    /\ Offsets(Append(ms, m), q)
    /\ OnWire(u, Append(ms, m), q, c, l)
    /\ \A i \in 0 .. Len(ms) : q[i] = pos[i]

LEMMA StreamGrows ==
    ASSUME NEW ms \in Seq(AnyPayloads), NEW pos, Offsets(ms, pos),
           NEW u, NEW c, NEW l, OnWire(u, ms, pos, c, l), l = pos[Len(ms)],
           NEW m \in AnyPayloads
    PROVE  \E q : Begun(q, ms, pos, m, u, c, l)
<1> DEFINE n == Len(ms)
           ns == Append(ms, m)
           end == pos[n] + RecordLen(m)
           q == [i \in 0 .. n + 1 |-> IF i <= n THEN pos[i] ELSE end]
<1>1. /\ n \in Nat
      /\ \A i \in 0 .. n : pos[i] \in Nat
      /\ \A i \in 1 .. n : /\ pos[i - 1] \in Nat /\ RecordLen(ms[i]) \in Nat
                           /\ pos[i] = pos[i - 1] + RecordLen(ms[i])
      /\ \A i, j \in 0 .. n : i <= j => pos[i] <= pos[j]
  BY OffsetsFacts
<1>2. Len(ns) = n + 1 /\ ns[n + 1] = m /\ \A i \in 1 .. n : ns[i] = ms[i]
  BY AppendProperties
<1>3. RecordLen(m) \in Nat /\ pos[n] \in Nat /\ end \in Nat /\ pos[n] <= end
  <2>1. RecordLen(m) \in Nat
    BY RecordFacts
  <2>2. pos[n] \in Nat
    BY <1>1
  <2> QED
    BY <2>1, <2>2
<1>4. end = pos[n] + RecordLen(m)
  OBVIOUS
<1>5. pos[0] = 0
  BY DEF Offsets
<1> HIDE DEF n, ns, end
<1>6. q \in [0 .. n + 1 -> Nat]
  BY <1>1, <1>3
<1>7. q[n + 1] = end /\ \A i \in 0 .. n : q[i] = pos[i]
  BY <1>1
<1> HIDE DEF q
<1>8. ASSUME NEW i \in 1 .. n + 1 PROVE q[i] = q[i - 1] + RecordLen(ns[i])
  <2>1. CASE i = n + 1
    <3>1. i - 1 = n /\ n \in 0 .. n
      BY <1>1, <2>1
    <3> QED
      BY <1>2, <1>4, <1>7, <2>1, <3>1
  <2>2. CASE i # n + 1
    <3>1. i \in 1 .. n /\ i \in 0 .. n /\ i - 1 \in 0 .. n
      BY <1>1, <2>2
    <3> QED
      BY <1>1, <1>2, <1>7, <3>1
  <2> QED
    BY <2>1, <2>2
<1>9. ASSUME NEW i \in 0 .. n + 1, NEW j \in 0 .. n + 1, i <= j PROVE q[i] <= q[j]
  <2>1. CASE j \in 0 .. n
    <3>1. i \in 0 .. n
      BY <1>1, <1>9, <2>1
    <3> QED
      BY <1>1, <1>7, <1>9, <2>1, <3>1
  <2>2. CASE j = n + 1 /\ i = n + 1
    BY <1>3, <1>7, <2>2
  <2>3. CASE j = n + 1 /\ i \in 0 .. n
    <3>1. pos[i] <= pos[n] /\ pos[i] \in Nat
      BY <1>1, <2>3
    <3> QED
      BY <1>3, <1>7, <2>3, <3>1
  <2> QED
    BY <1>1, <2>1, <2>2, <2>3
<1>10. Offsets(ns, q)
  <2>1. q[0] = 0
    BY <1>1, <1>5, <1>7
  <2> QED
    BY <1>2, <1>6, <1>8, <1>9, <2>1 DEF Offsets
<1>11. OnWire(u, ns, q, c, l)
  <2>1. /\ c \in Nat /\ l \in Nat /\ c <= l /\ u \in Seq(Nat) /\ Len(u) = l - c
    BY DEF OnWire
  <2>2. ASSUME NEW i \in 1 .. n + 1, NEW b \in 1 .. RecordLen(ns[i]),
               c < q[i - 1] + b, q[i - 1] + b <= l
        PROVE  u[q[i - 1] + b - c] = RecordByte(ns[i], b)
    <3>1. CASE i = n + 1
      <4>1. i - 1 = n /\ n \in 0 .. n /\ b > 0 /\ b \in Int
        BY <1>1, <1>2, <1>3, <3>1
      <4>2. q[i - 1] = l
        BY <1>7, <4>1 DEF n
      <4> QED
        BY <2>1, <2>2, <4>1, <4>2
    <3>2. CASE i # n + 1
      <4>1. i \in 1 .. n /\ i - 1 \in 0 .. n
        BY <1>1, <3>2
      <4>2. q[i - 1] = pos[i - 1] /\ ns[i] = ms[i]
        BY <1>2, <1>7, <4>1
      <4> QED
        BY <2>2, <4>1, <4>2 DEF OnWire, n
    <3> QED
      BY <3>1, <3>2
  <2> QED
    BY <1>2, <2>1, <2>2 DEF OnWire
<1>12. Begun(q, ms, pos, m, u, c, l)
  BY <1>7, <1>10, <1>11 DEF Begun, n, ns
<1> QED
  BY <1>12

\* Bytes are read.
LEMMA WireShrinks ==
    ASSUME NEW ms \in Seq(AnyPayloads), NEW pos, Offsets(ms, pos),
           NEW u, NEW c, NEW l, OnWire(u, ms, pos, c, l),
           NEW k \in Nat, k <= Len(u), NEW v, Rest(v, u, k)
    PROVE  OnWire(v, ms, pos, c + k, l)
<1>1. c \in Nat /\ l \in Nat /\ c <= l /\ Len(u) = l - c /\ k <= Len(u)
  BY DEF OnWire
<1>2. v \in Seq(Nat) /\ Len(v) = Len(u) - k
  BY DEF Rest
<1>3. \A i \in 1 .. Len(v) : v[i] = u[k + i]
  BY DEF Rest
<1>4. ASSUME NEW i \in 1 .. Len(ms), NEW b \in 1 .. RecordLen(ms[i]),
             c + k < pos[i - 1] + b, pos[i - 1] + b <= l
      PROVE  v[pos[i - 1] + b - (c + k)] = RecordByte(ms[i], b)
  <2> DEFINE p == pos[i - 1]
  <2>1. p \in Nat /\ RecordLen(ms[i]) \in Nat
    BY OffsetsFacts
  <2>2. b \in Int /\ c + k < p + b /\ p + b <= l
    BY <1>4, <2>1
  <2> HIDE DEF p
  <2>3. c < p + b
    BY <1>1, <2>1, <2>2
  <2>4. u[p + b - c] = RecordByte(ms[i], b)
    BY <2>2, <2>3 DEF OnWire, p
  <2>5. p + b - (c + k) \in 1 .. Len(v) /\ k + (p + b - (c + k)) = p + b - c
    BY <1>1, <1>2, <2>1, <2>2
  <2>6. v[p + b - (c + k)] = u[k + (p + b - (c + k))]
    BY <1>3, <2>5
  <2> QED
    BY <2>4, <2>5, <2>6 DEF p
<1>5. c + k \in Nat /\ c + k <= l /\ Len(v) = l - (c + k)
  BY <1>1, <1>2
<1> QED
  BY <1>1, <1>2, <1>4, <1>5 DEF OnWire

\* How far the sender has come with the last payload.
WrittenTo(ms, pos, l, at, cl) ==
    /\ at = "type" => l = pos[Len(ms)]
    /\ at # "type" => ms # <<>>
    /\ at = "size" => l = pos[Len(ms) - 1] + 1
    /\ at = "body" => /\ pos[Len(ms) - 1] + 2 <= l /\ l <= pos[Len(ms)]
                      /\ ~cl => l = pos[Len(ms) - 1] + 2

\* How far the receiver has come, after k payloads.
ReadTo(ms, pos, c, at, k, t, n) ==
    /\ at = "type" => c = pos[k]
    /\ at # "type" => k < Len(ms) /\ t = ms[k + 1].typ
    /\ at = "size" => c = pos[k] + 1
    /\ at = "body" => c = pos[k] + 2 /\ n = Len(ms[k + 1].body)

Flow(pos, c, l) ==
    /\ Offsets(sent, pos)
    /\ OnWire(wire, sent, pos, c, l)
    /\ WrittenTo(sent, pos, l, wpc, closed)
    /\ ReadTo(sent, pos, c, rpc, Len(decoded), typ, size)

\* AnyPayloads are returned as they were sent.
Follows(ds, ms) == Len(ds) <= Len(ms) /\ \A i \in 1 .. Len(ds) : ds[i] = ms[i]

StreamInv ==
    /\ Stream!TypeOK
    /\ wpc # "type" => sent # <<>>
    /\ ~short => Follows(decoded, sent)
    /\ ~short /\ rpc \in {"type", "size", "body"} => \E pos, c, l : Flow(pos, c, l)
    /\ rpc = "eof" => closed
    /\ Stream!EofMeansAll

LEMMA PayloadFacts ==
    ASSUME Stream!Parameters
    PROVE  /\ Stream!Payloads \subseteq AnyPayloads
           /\ Seq(Stream!Payloads) \subseteq Seq(AnyPayloads)
           /\ Seq([typ : Stream!Types, body : Seq(Nat)]) \subseteq Seq(AnyPayloads)
<1>1. Stream!Types \subseteq Nat
  BY DEF Stream!Types, Stream!BinaryType, Stream!StringType
<1>2. Stream!Payloads \subseteq AnyPayloads
  BY <1>1 DEF Stream!Payloads, Stream!Parameters, AnyPayloads
<1>3. [typ : Stream!Types, body : Seq(Nat)] \subseteq AnyPayloads
  BY <1>1 DEF AnyPayloads
<1> QED
  BY <1>2, <1>3, SeqMonotonic

\* The type byte is put back in front, and read again.
LEMMA Reinjected ==
    ASSUME NEW u \in Seq(Nat), u # <<>>
    PROVE  /\ Stream!Reinject(Head(u), Tail(u)) # <<>>
           /\ Head(Stream!Reinject(Head(u), Tail(u))) = Head(u)
           /\ Tail(Stream!Reinject(Head(u), Tail(u))) = Tail(u)
<1> DEFINE e == Head(u)
           t == Tail(u)
           v == <<e>> \o t
<1>1. e \in Nat /\ t \in Seq(Nat)
  BY HeadTailProperties
<1> HIDE DEF e, t
<1>2. <<e>> \in Seq(Nat) /\ Len(<<e>>) = 1 /\ <<e>>[1] = e /\ Len(t) \in Nat
  BY <1>1
<1>3. /\ v \in Seq(Nat) /\ Len(v) = Len(<<e>>) + Len(t)
      /\ \A i \in 1 .. Len(<<e>>) : v[i] = <<e>>[i]
      /\ \A i \in 1 .. Len(t) : v[Len(<<e>>) + i] = t[i]
  BY <1>1, <1>2, ConcatFacts
<1>4. Len(v) = 1 + Len(t) /\ v[1] = e /\ \A i \in 1 .. Len(t) : v[1 + i] = t[i]
  BY <1>2, <1>3
<1>5. v \in Seq(Nat)
  BY <1>3
<1> HIDE DEF v
<1>6. v # <<>> /\ Head(v) = e
  BY <1>2, <1>4, <1>5
<1>7. /\ Tail(v) \in Seq(Nat) /\ Len(Tail(v)) = Len(v) - 1
      /\ \A i \in 1 .. Len(Tail(v)) : Tail(v)[i] = v[i + 1]
  BY <1>5, <1>6, HeadTailProperties
<1>8. Len(Tail(v)) = Len(t)
  BY <1>2, <1>4, <1>7
<1>9. ASSUME NEW i \in 1 .. Len(Tail(v)) PROVE Tail(v)[i] = t[i]
  <2>1. i + 1 = 1 + i /\ i \in 1 .. Len(t)
    BY <1>2, <1>8
  <2> QED
    BY <1>4, <1>7, <2>1
<1>10. Tail(v) = t
  <2>1. Tail(v) \in Seq(Nat)
    BY <1>7
  <2> QED
    BY <1>1, <1>8, <1>9, <2>1, SeqEqual
<1> QED
  BY <1>6, <1>10 DEF Stream!Reinject, e, t, v

\* One more element at the end, and one less in front.
LEMMA GrownByOne ==
    ASSUME NEW u \in Seq(Nat), NEW m, NEW b \in Nat, RecordByte(m, b + 1) \in Nat
    PROVE  Grown(Append(u, RecordByte(m, b + 1)), u, 1, m, b)
<1> DEFINE x == RecordByte(m, b + 1)
           v == Append(u, x)
<1>1. /\ v \in Seq(Nat) /\ Len(v) = Len(u) + 1
      /\ \A i \in 1 .. Len(u) : v[i] = u[i]
      /\ v[Len(u) + 1] = x
  BY AppendProperties
<1> HIDE DEF v
<1>2. \A j \in 1 .. 1 : v[Len(u) + j] = RecordByte(m, b + j)
  <2>1. \A j \in 1 .. 1 : j = 1
    OBVIOUS
  <2> QED
    BY <1>1, <2>1
<1>3. Grown(v, u, 1, m, b)
  BY <1>1, <1>2 DEF Grown
<1> QED
  BY <1>3 DEF v

LEMMA TailIsRest ==
    ASSUME NEW u \in Seq(Nat), u # <<>>
    PROVE  Rest(Tail(u), u, 1) /\ Head(u) = u[1] /\ Len(u) \in Nat /\ Len(u) >= 1
<1>1. /\ Tail(u) \in Seq(Nat) /\ Len(Tail(u)) = Len(u) - 1
      /\ \A i \in 1 .. Len(Tail(u)) : Tail(u)[i] = u[i + 1]
  BY HeadTailProperties
<1>2. Head(u) = u[1]
  OBVIOUS
<1>3. Len(u) \in Nat /\ Len(u) >= 1
  BY EmptySeq
<1>4. \A i \in 1 .. Len(Tail(u)) : Tail(u)[i] = u[1 + i]
  <2>1. \A i \in 1 .. Len(Tail(u)) : i + 1 = 1 + i
    BY <1>3
  <2> QED
    BY <1>1, <2>1
<1> QED
  BY <1>1, <1>2, <1>3, <1>4 DEF Rest

LEMMA FollowsIsPrefix ==
    ASSUME NEW D, NEW ds \in Seq(D), NEW ms \in Seq(D), Follows(ds, ms)
    PROVE  Stream!IsPrefix(ds, ms)
<1> DEFINE n == Len(ds)
           a == SubSeq(ds, 1, n)
           b == SubSeq(ms, 1, n)
<1>1. n \in Nat /\ Len(ms) \in Nat /\ n <= Len(ms)
  BY DEF Follows
<1>2. /\ 1 \in 1 .. Len(ds) + 1 /\ n \in 0 .. Len(ds) /\ 1 <= n + 1
      /\ 1 \in 1 .. Len(ms) + 1 /\ n \in 0 .. Len(ms) /\ n + 1 - 1 = n
      /\ \A i \in 1 .. n : 1 + i - 1 = i
  BY <1>1
<1>3. /\ a \in Seq(D) /\ Len(a) = n + 1 - 1
      /\ \A i \in 1 .. n + 1 - 1 : a[i] = ds[1 + i - 1]
  BY <1>2, PartFacts
<1>4. /\ b \in Seq(D) /\ Len(b) = n + 1 - 1
      /\ \A i \in 1 .. n + 1 - 1 : b[i] = ms[1 + i - 1]
  BY <1>2, PartFacts
<1>5. \A i \in 1 .. n : ds[i] = ms[i]
  BY DEF Follows
<1> HIDE DEF a, b, n
<1>6. a \in Seq(D) /\ b \in Seq(D) /\ Len(a) = Len(b)
  BY <1>3, <1>4
<1>7. \A i \in 1 .. Len(a) : a[i] = b[i]
  BY <1>2, <1>3, <1>4, <1>5
<1>8. a = b
  BY <1>6, <1>7, SeqEqual
<1> QED
  BY <1>1, <1>8 DEF Stream!IsPrefix, a, b, n

\* What decode has returned when nothing more will come.
LEMMA EndOfStream ==
    ASSUME NEW ms \in Seq(AnyPayloads), NEW pos, Offsets(ms, pos),
           NEW c, NEW l, OnWire(<<>>, ms, pos, c, l),
           NEW wat \in {"type", "size", "body"}, NEW cl, WrittenTo(ms, pos, l, wat, cl),
           NEW at \in {"type", "size", "body"}, NEW k \in 0 .. Len(ms), NEW t, NEW n \in Nat,
           ReadTo(ms, pos, c, at, k, t, n), at = "body" => n > 0
    PROVE  k = Len(ms) \/ (wat # "type" /\ ms # <<>> /\ k = Len(ms) - 1)
<1> DEFINE last == Len(ms)
<1>1. c = l /\ l \in Nat
  BY DEF OnWire
<1>2. /\ last \in Nat /\ k \in 0 .. last
      /\ \A i \in 0 .. last : pos[i] \in Nat
      /\ \A i \in 1 .. last : RecordLen(ms[i]) \in Nat /\ RecordLen(ms[i]) >= 2
                              /\ pos[i] = pos[i - 1] + RecordLen(ms[i])
      /\ \A i, j \in 0 .. last : i <= j => pos[i] <= pos[j]
  BY OffsetsFacts
<1> SUFFICES ASSUME k # last
             PROVE  wat # "type" /\ ms # <<>> /\ k = last - 1
  OBVIOUS
<1> HIDE DEF last
<1>3. k \in 0 .. last - 1 /\ k + 1 \in 1 .. last /\ k + 1 \in 0 .. last
      /\ k \in 0 .. last /\ (k + 1) - 1 = k
  BY <1>2
<1> DEFINE p == pos[k]
           len == RecordLen(ms[k + 1])
<1>4. /\ p \in Nat /\ len \in Nat /\ len >= 2 /\ pos[k + 1] \in Nat
      /\ pos[k + 1] = p + len
  BY <1>2, <1>3
<1>5. p <= c /\ c < p + len
  <2>1. at = "type" => c = p
    BY DEF ReadTo
  <2>2. at = "size" => c = p + 1
    BY DEF ReadTo
  <2>3. at = "body" => c = p + 2 /\ n = Len(ms[k + 1].body) /\ n > 0
    BY DEF ReadTo
  <2>4. at = "type" \/ at = "size" \/ at = "body"
    OBVIOUS
  <2>5. len = 2 + Len(ms[k + 1].body)
    BY DEF RecordLen
  <2>6. c = p \/ c = p + 1 \/ (c = p + 2 /\ n > 0 /\ len = 2 + n)
    BY <2>1, <2>2, <2>3, <2>4, <2>5, Zenon
  <2> HIDE DEF p, len
  <2> QED
    BY <1>4, <2>6
<1>6. wat # "type"
  <2>1. SUFFICES ASSUME wat = "type" PROVE FALSE
    OBVIOUS
  <2>2. l = pos[last]
    BY <2>1 DEF WrittenTo, last
  <2>3. last \in 0 .. last /\ k + 1 <= last
    BY <1>2, <1>3
  <2>4. pos[k + 1] <= pos[last] /\ pos[last] \in Nat
    BY <1>2, <1>3, <2>3
  <2>5. p + len <= l
    BY <1>4, <2>2, <2>4
  <2> HIDE DEF p, len
  <2> QED
    BY <1>1, <1>4, <1>5, <2>5
<1>7. k = last - 1
  <2>1. SUFFICES ASSUME k # last - 1 PROVE FALSE
    OBVIOUS
  <2>2. k + 1 <= last - 1 /\ last - 1 \in 0 .. last
    BY <1>2, <1>3, <2>1
  <2>3. pos[k + 1] <= pos[last - 1] /\ pos[last - 1] \in Nat
    BY <1>2, <1>3, <2>2
  <2> DEFINE e == pos[last - 1]
  <2>4. l = e + 1 \/ e + 2 <= l
    BY <1>6 DEF WrittenTo, last
  <2>5. p + len <= e /\ e \in Nat
    BY <1>4, <2>3
  <2> HIDE DEF p, len, e
  <2> QED
    BY <1>1, <1>4, <1>5, <2>4, <2>5
<1>8. ms # <<>>
  BY <1>6 DEF WrittenTo
<1> QED
  BY <1>6, <1>7, <1>8

LEMMA StreamInit ==
    ASSUME Stream!Parameters, Stream!Init
    PROVE  StreamInv
<1> DEFINE pos == [i \in 0 .. 0 |-> 0]
<1>1. /\ sent = <<>> /\ wire = <<>> /\ decoded = <<>> /\ closed = FALSE /\ short = FALSE
      /\ wpc = "type" /\ rpc = "type" /\ typ = 1 /\ size = 0
  BY DEF Stream!Init, Stream!BinaryType
<1>2. Offsets(<<>>, pos) /\ pos[0] = 0
  BY DEF Offsets
<1>3. OnWire(<<>>, <<>>, pos, 0, 0)
  BY DEF OnWire
<1> HIDE DEF pos
<1>4. Flow(pos, 0, 0)
  BY <1>1, <1>2, <1>3 DEF Flow, WrittenTo, ReadTo
<1>5. Stream!TypeOK
  <2>1. sent \in Seq(Stream!Payloads) /\ wire \in Seq(Nat)
        /\ decoded \in Seq([typ : Stream!Types, body : Seq(Nat)])
    BY <1>1
  <2>2. typ \in Stream!Types /\ size \in Nat
    BY <1>1 DEF Stream!Types, Stream!BinaryType
  <2> QED
    BY <1>1, <2>1, <2>2 DEF Stream!TypeOK
<1>6. Follows(decoded, sent)
  BY <1>1 DEF Follows
<1> QED
  BY <1>1, <1>4, <1>5, <1>6 DEF StreamInv, Stream!EofMeansAll

\* The sender.
LEMMA StreamWriteType ==
    ASSUME Stream!Parameters, StreamInv, Stream!WriteType
    PROVE  StreamInv'
<1>1. PICK m \in Stream!Payloads :
           /\ sent' = Append(sent, m) /\ wire' = Append(wire, m.typ)
           /\ ~closed /\ wpc = "type" /\ wpc' = "size"
           /\ closed' = closed /\ rpc' = rpc /\ typ' = typ /\ size' = size
           /\ decoded' = decoded /\ short' = short
  BY DEF Stream!WriteType, Stream!readerVars
<1> DEFINE n == Len(sent)
<1>2. /\ sent \in Seq(Stream!Payloads) /\ wire \in Seq(Nat)
      /\ closed \in BOOLEAN /\ short \in BOOLEAN /\ n \in Nat
  BY DEF StreamInv, Stream!TypeOK
<1>3. /\ sent \in Seq(AnyPayloads) /\ m \in AnyPayloads
      /\ decoded \in Seq([typ : Stream!Types, body : Seq(Nat)])
  BY <1>2, PayloadFacts DEF StreamInv, Stream!TypeOK
<1>4. m.typ \in Nat /\ RecordByte(m, 1) = m.typ /\ RecordLen(m) \in Nat /\ RecordLen(m) >= 2
  BY <1>3, RecordFacts DEF AnyPayloads
<1>5. /\ sent' \in Seq(Stream!Payloads) /\ sent' # <<>> /\ Len(sent') = n + 1
      /\ sent'[n + 1] = m /\ \A i \in 1 .. n : sent'[i] = sent[i]
  BY <1>1, <1>2, AppendProperties
<1>6. wire' \in Seq(Nat)
  BY <1>1, <1>2, <1>4, AppendProperties
<1>7. Stream!TypeOK'
  BY <1>1, <1>5, <1>6 DEF StreamInv, Stream!TypeOK
<1>8. Len(decoded) \in Nat /\ Len(decoded') = Len(decoded)
  BY <1>1, <1>3
<1>9. ~short' => Follows(decoded', sent')
  <2> SUFFICES ASSUME ~short' PROVE Follows(decoded', sent')
    OBVIOUS
  <2>1. Len(decoded) <= n /\ \A i \in 1 .. Len(decoded) : decoded[i] = sent[i]
    BY <1>1 DEF StreamInv, Follows
  <2>2. Len(decoded') <= Len(sent')
    <3> HIDE DEF n
    <3>1. Len(decoded) <= n
      BY <2>1
    <3>2. Len(sent') = n + 1
      BY <1>5
    <3> QED
      BY <1>2, <1>8, <3>1, <3>2
  <2>3. ASSUME NEW i \in 1 .. Len(decoded') PROVE decoded'[i] = sent'[i]
    <3>1. i \in 1 .. Len(decoded) /\ i \in 1 .. n
      <4> HIDE DEF n
      <4>1. Len(decoded) <= n
        BY <2>1
      <4> QED
        BY <1>2, <1>8, <4>1
    <3>2. decoded'[i] = decoded[i]
      BY <1>1
    <3> QED
      BY <1>5, <2>1, <3>1, <3>2
  <2> QED
    BY <2>2, <2>3 DEF Follows
<1>10. ASSUME ~short', rpc' \in {"type", "size", "body"}
       PROVE  \E pos, c, l : Flow(pos, c, l)'
  <2>1. PICK pos, c, l : Flow(pos, c, l)
    BY <1>1, <1>10 DEF StreamInv
  <2>2. /\ Offsets(sent, pos) /\ OnWire(wire, sent, pos, c, l) /\ l = pos[n]
        /\ ReadTo(sent, pos, c, rpc, Len(decoded), typ, size)
    BY <1>1, <2>1 DEF Flow, WrittenTo
  <2>3. PICK q : /\ Offsets(Append(sent, m), q) /\ OnWire(wire, Append(sent, m), q, c, l)
                 /\ \A i \in 0 .. n : q[i] = pos[i]
    <3>1. sent \in Seq(AnyPayloads) /\ m \in AnyPayloads
      BY <1>3
    <3>2. Offsets(sent, pos) /\ OnWire(wire, sent, pos, c, l) /\ l = pos[Len(sent)]
      BY <2>2
    <3>3. \E q : Begun(q, sent, pos, m, wire, c, l)
      BY <3>1, <3>2, StreamGrows
    <3> QED
      BY <3>3 DEF Begun
  <2>4. Offsets(sent', q) /\ OnWire(wire, sent', q, c, l)
    BY <1>1, <2>3
  <2>5. /\ Len(sent') - 1 = n /\ q[n] = l /\ l \in Nat /\ sent'[Len(sent')] = m
    <3>1. Len(sent') - 1 = n /\ n \in 0 .. n
      BY <1>2, <1>5
    <3>2. l \in Nat
      BY <2>2 DEF OnWire
    <3> QED
      BY <1>5, <2>2, <2>3, <3>1, <3>2
  <2>6. Within(sent', q, l, 0, 1)
    <3>1. l = l + 0 /\ 0 + 1 <= RecordLen(m)
      BY <1>4, <2>5
    <3> QED
      BY <2>5, <3>1 DEF Within
  <2>7. Grown(wire', wire, 1, m, 0)
    <3>1. RecordByte(m, 0 + 1) = m.typ
      BY <1>4
    <3> QED
      BY <1>1, <1>2, <1>4, <3>1, GrownByOne
  <2>8. OnWire(wire', sent', q, c, l + 1)
    <3>1. sent' \in Seq(AnyPayloads)
      BY <1>5, PayloadFacts
    <3>2. Grown(wire', wire, 1, sent'[Len(sent')], 0)
      BY <2>5, <2>7
    <3> QED
      BY <1>5, <2>4, <2>6, <3>1, <3>2, WireGrows
  <2>9. WrittenTo(sent', q, l + 1, wpc', closed')
    BY <1>1, <1>5, <2>5 DEF WrittenTo
  <2>10. ReadTo(sent', q, c, rpc', Len(decoded'), typ', size')
    <3> DEFINE k == Len(decoded)
    <3>1. k <= n /\ k \in 0 .. n
      <4>1. k <= n
        BY <1>1, <1>10 DEF StreamInv, Follows
      <4> HIDE DEF k, n
      <4>2. k \in Nat
        BY <1>8 DEF k
      <4> QED
        BY <1>2, <4>1, <4>2
    <3>2. q[k] = pos[k]
      BY <2>3, <3>1
    <3>3. k < n => k < Len(sent') /\ sent'[k + 1] = sent[k + 1]
      <4>1. k < n => k + 1 \in 1 .. n
        BY <1>2, <3>1
      <4>2. k < n => k < Len(sent')
        BY <1>2, <1>5, <3>1
      <4> QED
        BY <1>5, <4>1, <4>2
    <3> HIDE DEF k
    <3>4. ReadTo(sent, pos, c, rpc, k, typ, size)
      BY <2>2 DEF k
    <3>5. ReadTo(sent', q, c, rpc, k, typ, size)
      BY <3>2, <3>3, <3>4, Zenon DEF ReadTo
    <3> QED
      BY <1>1, <3>5 DEF k
  <2> QED
    BY <2>4, <2>8, <2>9, <2>10 DEF Flow
<1>11. rpc' # "eof"
  BY <1>1 DEF StreamInv
<1> QED
  BY <1>5, <1>7, <1>9, <1>10, <1>11 DEF StreamInv, Stream!EofMeansAll

\* More bytes of the last payload.
LEMMA StreamWrites ==
    ASSUME Stream!Parameters, StreamInv, ~closed, sent # <<>>,
           UNCHANGED <<sent, Stream!readerVars>>,
           wpc' \in {"type", "size", "body"}, closed' \in BOOLEAN,
           NEW b \in Nat, NEW k \in Nat, Grown(wire', wire, k, sent[Len(sent)], b),
           \A pos, c, l : Flow(pos, c, l) => /\ Within(sent, pos, l, b, k)
                                             /\ WrittenTo(sent, pos, l + k, wpc', closed')
    PROVE  StreamInv'
<1>1. /\ sent' = sent /\ rpc' = rpc /\ typ' = typ /\ size' = size
      /\ decoded' = decoded /\ short' = short
  BY DEF Stream!readerVars
<1>2. sent \in Seq(AnyPayloads)
  BY PayloadFacts DEF StreamInv, Stream!TypeOK
<1>3. Stream!TypeOK'
  <2>1. wire' \in Seq(Nat)
    BY DEF Grown
  <2> QED
    BY <1>1, <2>1 DEF StreamInv, Stream!TypeOK
<1>4. ASSUME ~short', rpc' \in {"type", "size", "body"}
      PROVE  \E pos, c, l : Flow(pos, c, l)'
  <2>1. PICK pos, c, l : Flow(pos, c, l)
    BY <1>1, <1>4 DEF StreamInv
  <2>2. /\ Offsets(sent, pos) /\ OnWire(wire, sent, pos, c, l)
        /\ ReadTo(sent, pos, c, rpc, Len(decoded), typ, size)
    BY <2>1 DEF Flow
  <2>3. Within(sent, pos, l, b, k) /\ WrittenTo(sent, pos, l + k, wpc', closed')
    BY <2>1
  <2>4. OnWire(wire', sent, pos, c, l + k)
    <3>1. /\ sent # <<>> /\ Offsets(sent, pos) /\ OnWire(wire, sent, pos, c, l)
          /\ Grown(wire', wire, k, sent[Len(sent)], b)
      BY <2>2
    <3> QED
      BY ONLY b \in Nat, k \in Nat, <1>2, <2>3, <3>1, WireGrows
  <2>5. Flow(pos, c, l + k)'
    BY <1>1, <2>2, <2>3, <2>4 DEF Flow
  <2> QED
    BY <2>5
<1>5. rpc' # "eof"
  BY <1>1 DEF StreamInv
<1> QED
  BY <1>1, <1>3, <1>4, <1>5 DEF StreamInv, Stream!EofMeansAll

\* What Flow says of the last payload.
LEMMA LastFacts ==
    ASSUME Stream!Parameters, StreamInv, sent # <<>>, NEW pos, NEW c, NEW l, Flow(pos, c, l)
    PROVE  LET n == Len(sent)
               m == sent[n]
           IN  /\ m \in AnyPayloads /\ Stream!Last(sent) = m
               /\ pos[n - 1] \in Nat /\ l \in Nat
               /\ RecordLen(m) = 2 + Len(m.body) /\ Len(m.body) \in Nat
               /\ pos[n] = pos[n - 1] + (2 + Len(m.body))
<1> DEFINE n == Len(sent)
           m == sent[n]
<1>1. sent \in Seq(AnyPayloads)
  BY PayloadFacts DEF StreamInv, Stream!TypeOK
<1>2. n \in 1 .. n
  BY <1>1, EmptySeq
<1>3. m \in AnyPayloads
  BY <1>1, <1>2, ElementOfSeq
<1>4. Offsets(sent, pos) /\ OnWire(wire, sent, pos, c, l)
  BY DEF Flow
<1>5. pos[n - 1] \in Nat /\ pos[n] = pos[n - 1] + RecordLen(m)
  BY <1>1, <1>2, <1>4, OffsetsFacts
<1>6. l \in Nat
  BY <1>4 DEF OnWire
<1>7. Len(m.body) \in Nat
  BY <1>3, RecordFacts
<1>8. RecordLen(m) = 2 + Len(m.body) /\ Stream!Last(sent) = m
  BY DEF RecordLen, Stream!Last
<1> QED
  BY <1>3, <1>5, <1>6, <1>7, <1>8

LEMMA StreamWriteSize ==
    ASSUME Stream!Parameters, StreamInv, Stream!WriteSize
    PROVE  StreamInv'
<1> DEFINE m == sent[Len(sent)]
<1>1. /\ ~closed /\ wpc = "size" /\ wpc' = "body" /\ closed' = closed
      /\ UNCHANGED <<sent, Stream!readerVars>>
      /\ wire' = Append(wire, Len(m.body))
  BY DEF Stream!WriteSize, Stream!Length, Stream!Last
<1>2. sent # <<>> /\ wire \in Seq(Nat)
  BY <1>1 DEF StreamInv, Stream!TypeOK
<1>3. m \in AnyPayloads
  <2>1. sent \in Seq(AnyPayloads)
    BY PayloadFacts DEF StreamInv, Stream!TypeOK
  <2>2. Len(sent) \in 1 .. Len(sent)
    BY <1>2, <2>1, EmptySeq
  <2> QED
    BY <2>1, <2>2, ElementOfSeq
<1>4. Grown(wire', wire, 1, m, 1)
  <2>1. 1 + 1 = 2 /\ RecordByte(m, 2) = Len(m.body) /\ Len(m.body) \in Nat
    BY <1>3, RecordFacts
  <2>2. RecordByte(m, 1 + 1) \in Nat /\ wire' = Append(wire, RecordByte(m, 1 + 1))
    BY <1>1, <2>1
  <2> QED
    BY <1>2, <2>2, GrownByOne
<1>5. ASSUME NEW pos, NEW c, NEW l, Flow(pos, c, l)
      PROVE  Within(sent, pos, l, 1, 1) /\ WrittenTo(sent, pos, l + 1, wpc', closed')
  <2> DEFINE p == pos[Len(sent) - 1]
             e == pos[Len(sent)]
             n == Len(m.body)
  <2>1. p \in Nat /\ l \in Nat /\ RecordLen(m) = 2 + n /\ n \in Nat /\ e = p + (2 + n)
    BY <1>2, <1>5, LastFacts
  <2>2. l = p + 1
    BY <1>1, <1>5 DEF Flow, WrittenTo
  <2> HIDE DEF p, e, n
  <2>3. l = p + 1 /\ 1 + 1 <= RecordLen(m) /\ p + 2 <= l + 1 /\ l + 1 <= e /\ l + 1 = p + 2
    BY <2>1, <2>2
  <2> QED
    BY <1>1, <1>2, <2>3 DEF Within, WrittenTo, p, e
<1> QED
  BY <1>1, <1>2, <1>4, <1>5, StreamWrites DEF StreamInv, Stream!TypeOK

\* A body, or its first bytes.
LEMMA GrownByBody ==
    ASSUME NEW u \in Seq(Nat), NEW m \in AnyPayloads, NEW k \in 0 .. Len(m.body)
    PROVE  Grown(u \o SubSeq(m.body, 1, k), u, k, m, 2)
<1> DEFINE body == m.body
           t == SubSeq(body, 1, k)
           v == u \o t
<1>1. /\ body \in Seq(Nat) /\ Len(body) \in Nat
      /\ \A j \in 1 .. Len(body) : RecordByte(m, 2 + j) = body[j]
  BY RecordFacts DEF AnyPayloads
<1> HIDE DEF body
<1>2. /\ k \in Nat /\ 1 \in 1 .. Len(body) + 1 /\ k \in 0 .. Len(body) /\ 1 <= k + 1
      /\ k + 1 - 1 = k /\ \A i \in 1 .. k : 1 + i - 1 = i /\ i \in 1 .. Len(body)
  BY <1>1 DEF body
<1>3. /\ t \in Seq(Nat) /\ Len(t) = k + 1 - 1
      /\ \A i \in 1 .. k + 1 - 1 : t[i] = body[1 + i - 1]
  BY <1>1, <1>2, PartFacts
<1> HIDE DEF t
<1>4. /\ v \in Seq(Nat) /\ Len(v) = Len(u) + Len(t)
      /\ \A i \in 1 .. Len(u) : v[i] = u[i]
      /\ \A i \in 1 .. Len(t) : v[Len(u) + i] = t[i]
  <2>1. t \in Seq(Nat)
    BY <1>3
  <2> QED
    BY <2>1, ConcatFacts
<1>5. Len(t) = k
  BY <1>2, <1>3
<1>6. ASSUME NEW j \in 1 .. k PROVE v[Len(u) + j] = RecordByte(m, 2 + j)
  <2>1. 1 + j - 1 = j /\ j \in 1 .. Len(body)
    BY <1>2
  <2>2. t[j] = body[j]
    BY <1>2, <1>3, <2>1
  <2>3. v[Len(u) + j] = t[j]
    BY <1>4, <1>5
  <2> QED
    BY <1>1, <2>1, <2>2, <2>3
<1>7. Grown(v, u, k, m, 2)
  BY <1>4, <1>5, <1>6 DEF Grown
<1> QED
  BY <1>7 DEF t, body

LEMMA StreamWriteBody ==
    ASSUME Stream!Parameters, StreamInv, Stream!WriteBody
    PROVE  StreamInv'
<1> DEFINE m == sent[Len(sent)]
           n == Len(m.body)
<1>1. /\ ~closed /\ wpc = "body" /\ wpc' = "type" /\ closed' = closed
      /\ UNCHANGED <<sent, Stream!readerVars>> /\ wire' = wire \o m.body
  BY DEF Stream!WriteBody, Stream!Last
<1>2. sent # <<>> /\ wire \in Seq(Nat)
  BY <1>1 DEF StreamInv, Stream!TypeOK
<1>3. m \in AnyPayloads
  <2>1. sent \in Seq(AnyPayloads)
    BY PayloadFacts DEF StreamInv, Stream!TypeOK
  <2>2. Len(sent) \in 1 .. Len(sent)
    BY <1>2, <2>1, EmptySeq
  <2> QED
    BY <2>1, <2>2, ElementOfSeq
<1>4. n \in Nat /\ Grown(wire', wire, n, m, 2)
  <2>1. n \in Nat /\ m.body \in Seq(Nat)
    BY <1>3, RecordFacts DEF AnyPayloads
  <2>2. SubSeq(m.body, 1, n) = m.body
    BY <2>1, SubSeqFull
  <2>3. n \in 0 .. Len(m.body)
    BY <2>1
  <2>4. Grown(wire \o SubSeq(m.body, 1, n), wire, n, m, 2)
    BY <1>2, <1>3, <2>3, GrownByBody
  <2> QED
    BY <1>1, <2>1, <2>2, <2>4
<1>5. ASSUME NEW pos, NEW c, NEW l, Flow(pos, c, l)
      PROVE  Within(sent, pos, l, 2, n) /\ WrittenTo(sent, pos, l + n, wpc', closed')
  <2> DEFINE p == pos[Len(sent) - 1]
             e == pos[Len(sent)]
  <2>1. p \in Nat /\ l \in Nat /\ RecordLen(m) = 2 + n /\ n \in Nat /\ e = p + (2 + n)
    BY <1>2, <1>5, LastFacts
  <2>2. l = p + 2
    BY <1>1, <1>5 DEF Flow, WrittenTo
  <2> HIDE DEF p, e, n
  <2>3. l = p + 2 /\ 2 + n <= RecordLen(m) /\ l + n = e
    BY <2>1, <2>2
  <2> QED
    BY <1>1, <1>2, <2>3 DEF Within, WrittenTo, p, e
<1> HIDE DEF n
<1> QED
  BY <1>1, <1>2, <1>4, <1>5, StreamWrites DEF StreamInv, Stream!TypeOK

LEMMA StreamWriterCloses ==
    ASSUME Stream!Parameters, StreamInv, Stream!WriterCloses
    PROVE  StreamInv'
<1> DEFINE m == sent[Len(sent)]
<1>1. /\ ~closed /\ closed' = TRUE /\ wpc' = wpc
      /\ UNCHANGED <<sent, Stream!readerVars>>
      /\ \/ wire' = wire
         \/ wpc = "body" /\ \E k \in 0 .. Len(m.body) : wire' = wire \o SubSeq(m.body, 1, k)
  BY DEF Stream!WriterCloses, Stream!Last
<1>2. CASE wire' = wire
  <2>1. /\ sent' = sent /\ rpc' = rpc /\ typ' = typ /\ size' = size
        /\ decoded' = decoded /\ short' = short
    BY <1>1 DEF Stream!readerVars
  <2>2. ASSUME NEW pos, NEW c, NEW l, Flow(pos, c, l)
        PROVE  Flow(pos, c, l)'
    <3>1. WrittenTo(sent, pos, l, wpc, TRUE)
      BY <1>1, <2>2, Zenon DEF Flow, WrittenTo
    <3> QED
      BY <1>1, <1>2, <2>1, <2>2, <3>1 DEF Flow
  <2>3. Stream!TypeOK'
    BY <1>1, <1>2, <2>1 DEF StreamInv, Stream!TypeOK
  <2>4. rpc' # "eof"
    BY <1>1, <2>1 DEF StreamInv
  <2> QED
    BY <1>1, <2>1, <2>2, <2>3, <2>4 DEF StreamInv, Stream!EofMeansAll
<1>3. CASE wpc = "body" /\ \E k \in 0 .. Len(m.body) : wire' = wire \o SubSeq(m.body, 1, k)
  <2>1. PICK k \in 0 .. Len(m.body) : wire' = wire \o SubSeq(m.body, 1, k)
    BY <1>3
  <2>2. sent # <<>> /\ wire \in Seq(Nat)
    BY <1>3 DEF StreamInv, Stream!TypeOK
  <2>3. m \in AnyPayloads
    <3>1. sent \in Seq(AnyPayloads)
      BY PayloadFacts DEF StreamInv, Stream!TypeOK
    <3>2. Len(sent) \in 1 .. Len(sent)
      BY <2>2, <3>1, EmptySeq
    <3> QED
      BY <3>1, <3>2, ElementOfSeq
  <2>4. Grown(wire', wire, k, m, 2) /\ k \in Nat
    <3>1. Grown(wire \o SubSeq(m.body, 1, k), wire, k, m, 2)
      BY <2>2, <2>3, GrownByBody
    <3>2. Len(m.body) \in Nat
      BY <2>3, RecordFacts
    <3> QED
      BY <2>1, <3>1, <3>2
  <2>5. ASSUME NEW pos, NEW c, NEW l, Flow(pos, c, l)
        PROVE  Within(sent, pos, l, 2, k) /\ WrittenTo(sent, pos, l + k, wpc', closed')
    <3> DEFINE p == pos[Len(sent) - 1]
               e == pos[Len(sent)]
               n == Len(m.body)
    <3>1. p \in Nat /\ l \in Nat /\ RecordLen(m) = 2 + n /\ n \in Nat /\ e = p + (2 + n)
      BY <2>2, <2>5, LastFacts
    <3>2. l = p + 2
      BY <1>1, <1>3, <2>5 DEF Flow, WrittenTo
    <3>3. k \in 0 .. n
      BY <2>1
    <3> HIDE DEF p, e, n
    <3>4. l = p + 2 /\ 2 + k <= RecordLen(m) /\ p + 2 <= l + k /\ l + k <= e
      BY <3>1, <3>2, <3>3
    <3> QED
      BY <1>1, <1>3, <2>2, <3>4 DEF Within, WrittenTo, p, e
  <2> QED
    BY <1>1, <1>3, <2>2, <2>4, <2>5, StreamWrites
<1> QED
  BY <1>1, <1>2, <1>3

\* The receiver: what lies at the place that it has come to.
LEMMA NextByte ==
    ASSUME NEW ms \in Seq(AnyPayloads), NEW pos, Offsets(ms, pos),
           NEW u, NEW c, NEW l, OnWire(u, ms, pos, c, l),
           NEW k \in Nat, k < Len(ms), NEW b \in Nat, NEW j \in Nat,
           c = pos[k] + b, j > 0, j <= Len(u), b + j <= RecordLen(ms[k + 1])
    PROVE  u[j] = RecordByte(ms[k + 1], b + j)
<1> DEFINE n == Len(ms)
           p == pos[k]
           len == RecordLen(ms[k + 1])
<1>1. n \in Nat
  OBVIOUS
<1>2. k < n
  OBVIOUS
<1>3. k + 1 \in 1 .. n /\ (k + 1) - 1 = k
  <2> HIDE DEF n
  <2> QED
    BY <1>1, <1>2
<1>4. p \in Nat /\ len \in Nat
  BY <1>3, OffsetsFacts
<1>5. c \in Nat /\ l \in Nat /\ c <= l /\ Len(u) = l - c
  BY DEF OnWire
<1>6. c = p + b /\ j > 0 /\ j <= Len(u) /\ b + j <= len
  OBVIOUS
<1> HIDE DEF p, len
<1>7. /\ b + j \in 1 .. len /\ c < p + (b + j) /\ p + (b + j) <= l
      /\ p + (b + j) - c = j
  BY <1>4, <1>5, <1>6
<1>8. u[p + (b + j) - c] = RecordByte(ms[k + 1], b + j)
  BY <1>3, <1>7 DEF OnWire, n, p, len
<1> QED
  BY <1>7, <1>8

LEMMA WrittenBound ==
    ASSUME NEW ms \in Seq(AnyPayloads), NEW pos, Offsets(ms, pos), NEW l \in Nat,
           NEW at \in {"type", "size", "body"}, NEW cl, WrittenTo(ms, pos, l, at, cl)
    PROVE  l <= pos[Len(ms)]
<1> DEFINE n == Len(ms)
           p == pos[n - 1]
           e == pos[n]
<1>1. CASE at = "type"
  <2>1. l = e
    BY <1>1 DEF WrittenTo
  <2> HIDE DEF e
  <2> QED
    BY <2>1 DEF e
<1>2. CASE at = "size"
  <2>1. ms # <<>> /\ l = p + 1
    BY <1>2 DEF WrittenTo
  <2>2. n \in 1 .. n
    BY <2>1, EmptySeq
  <2>3. p \in Nat /\ e = p + RecordLen(ms[n]) /\ RecordLen(ms[n]) \in Nat
        /\ RecordLen(ms[n]) >= 2
    BY <2>2, OffsetsFacts
  <2> DEFINE len == RecordLen(ms[n])
  <2> HIDE DEF p, e, len
  <2>4. l <= e
    BY <2>1, <2>3 DEF len
  <2> QED
    BY <2>4 DEF e
<1>3. CASE at = "body"
  BY <1>3 DEF WrittenTo
<1> QED
  BY <1>1, <1>2, <1>3

\* Which payload that is.
LEMMA NextPayload ==
    ASSUME Stream!Parameters, StreamInv, ~short, rpc \in {"type", "size", "body"},
           NEW pos, NEW c, NEW l, Flow(pos, c, l), wire # <<>> \/ rpc # "type"
    PROVE  LET k == Len(decoded)
               m == sent[k + 1]
           IN  /\ k \in Nat /\ k < Len(sent) /\ k + 1 \in 1 .. Len(sent)
               /\ m \in Stream!Payloads /\ m \in AnyPayloads
               /\ c \in Nat /\ l \in Nat
               /\ pos[k] \in Nat /\ Len(m.body) \in Nat
               /\ RecordLen(m) = 2 + Len(m.body)
               /\ pos[k + 1] = pos[k] + (2 + Len(m.body))
<1> DEFINE k == Len(decoded)
           n == Len(sent)
           m == sent[k + 1]
<1>1. sent \in Seq(AnyPayloads) /\ sent \in Seq(Stream!Payloads)
  BY PayloadFacts DEF StreamInv, Stream!TypeOK
<1>2. k \in Nat /\ n \in Nat
  BY <1>1 DEF StreamInv, Stream!TypeOK
<1>3. k <= n
  BY DEF StreamInv, Follows
<1>4. /\ Offsets(sent, pos) /\ OnWire(wire, sent, pos, c, l)
      /\ WrittenTo(sent, pos, l, wpc, closed)
      /\ ReadTo(sent, pos, c, rpc, k, typ, size)
  BY DEF Flow
<1>5. c \in Nat /\ l \in Nat /\ Len(wire) = l - c /\ wire \in Seq(Nat)
  BY <1>4 DEF OnWire
<1>6. wpc \in {"type", "size", "body"}
  BY DEF StreamInv, Stream!TypeOK
<1>7. k < n
  <2>1. CASE rpc # "type"
    BY <1>4, <2>1 DEF ReadTo
  <2>2. CASE rpc = "type"
    <3>1. SUFFICES ASSUME k = n PROVE FALSE
      <4> HIDE DEF k, n
      <4> QED
        BY <1>2, <1>3
    <3>2. c = pos[n]
      BY <1>4, <2>2, <3>1 DEF ReadTo
    <3>3. l <= pos[n]
      BY <1>1, <1>4, <1>5, <1>6, WrittenBound
    <3>4. Len(wire) \in Nat /\ Len(wire) > 0
      <4>1. wire # <<>>
        BY <2>2
      <4> QED
        BY <1>5, <4>1, EmptySeq
    <3>5. l <= c
      BY <3>2, <3>3
    <3> QED
      BY ONLY <1>5, <3>4, <3>5
  <2> QED
    BY <2>1, <2>2
<1>8. k + 1 \in 1 .. n /\ (k + 1) - 1 = k /\ k \in 0 .. n
  <2> HIDE DEF k, n
  <2> QED
    BY <1>2, <1>7
<1>9. m \in AnyPayloads /\ m \in Stream!Payloads
  BY <1>1, <1>8, ElementOfSeq
<1>10. pos[k] \in Nat /\ pos[k + 1] = pos[k] + RecordLen(m)
  BY <1>1, <1>4, <1>8, OffsetsFacts
<1>11. Len(m.body) \in Nat /\ RecordLen(m) = 2 + Len(m.body)
  BY <1>9, RecordFacts DEF RecordLen
<1> QED
  BY <1>2, <1>5, <1>7, <1>8, <1>9, <1>10, <1>11

LEMMA StreamReadType ==
    ASSUME Stream!Parameters, StreamInv, Stream!ReadType
    PROVE  StreamInv'
<1>1. /\ rpc = "type" /\ wire # <<>> /\ wire \in Seq(Nat)
      /\ sent' = sent /\ wpc' = wpc /\ closed' = closed
      /\ size' = size /\ decoded' = decoded /\ short' = short
  BY DEF Stream!ReadType, Stream!writerVars, StreamInv, Stream!TypeOK
<1>2. /\ wire' = Tail(wire)
      /\ IF Head(wire) \in Stream!Types THEN rpc' = "size" /\ typ' = Head(wire)
         ELSE rpc' = "failed" /\ typ' = typ
  BY <1>1, Reinjected DEF Stream!ReadType
<1>3. wire' \in Seq(Nat)
  BY <1>1, <1>2, HeadTailProperties
<1>4. rpc' \in {"size", "failed"} /\ typ' \in Stream!Types
  BY <1>2 DEF StreamInv, Stream!TypeOK
<1>5. Stream!TypeOK'
  BY <1>1, <1>3, <1>4 DEF StreamInv, Stream!TypeOK
<1>6. ASSUME ~short', rpc' \in {"type", "size", "body"}
      PROVE  \E pos, c, l : Flow(pos, c, l)'
  <2>1. PICK pos, c, l : Flow(pos, c, l)
    BY <1>1, <1>6 DEF StreamInv
  <2> DEFINE k == Len(decoded)
             m == sent[k + 1]
  <2>2. /\ Offsets(sent, pos) /\ OnWire(wire, sent, pos, c, l)
        /\ WrittenTo(sent, pos, l, wpc, closed)
        /\ c = pos[k]
    BY <1>1, <2>1 DEF Flow, ReadTo
  <2>3. /\ k \in Nat /\ k < Len(sent) /\ m \in AnyPayloads /\ c \in Nat
        /\ RecordLen(m) = 2 + Len(m.body) /\ Len(m.body) \in Nat
    BY <1>1, <1>6, <2>1, NextPayload
  <2>4. sent \in Seq(AnyPayloads)
    BY PayloadFacts DEF StreamInv, Stream!TypeOK
  <2>5. Rest(wire', wire, 1) /\ Head(wire) = wire[1] /\ Len(wire) >= 1 /\ Len(wire) \in Nat
    BY <1>1, <1>2, TailIsRest
  <2>6. OnWire(wire', sent, pos, c + 1, l)
    <3>1. 1 \in Nat /\ 1 <= Len(wire)
      BY <2>5
    <3> QED
      BY <2>2, <2>4, <2>5, <3>1, WireShrinks
  <2>7. Head(wire) = m.typ
    <3>1. wire[1] = RecordByte(m, 0 + 1)
      <4> DEFINE len == RecordLen(m)
      <4>1. len = 2 + Len(m.body)
        BY <2>3
      <4>2. c = pos[k] + 0 /\ 1 > 0 /\ 1 <= Len(wire) /\ 0 + 1 <= len
        <5> HIDE DEF m, len
        <5> QED
          BY <2>2, <2>3, <2>5, <4>1
      <4> HIDE DEF k
      <4> QED
        BY <2>2, <2>3, <2>4, <4>2, NextByte
    <3>2. RecordByte(m, 1) = m.typ
      BY <2>3, RecordFacts
    <3> QED
      BY <2>5, <3>1, <3>2
  <2>8. rpc' = "size" /\ typ' = m.typ
    BY <1>2, <1>6, <2>7
  <2>9. c + 1 = pos[k] + 1
    BY <2>2
  <2>10. Flow(pos, c + 1, l)'
    BY <1>1, <2>2, <2>3, <2>6, <2>8, <2>9 DEF Flow, ReadTo
  <2> QED
    BY <2>10
<1> QED
  BY <1>1, <1>4, <1>5, <1>6 DEF StreamInv, Stream!EofMeansAll

LEMMA StreamReadSize ==
    ASSUME Stream!Parameters, StreamInv, Stream!ReadSize
    PROVE  StreamInv'
<1>1. /\ rpc = "size" /\ wire # <<>> /\ wire \in Seq(Nat)
      /\ wire' = Tail(wire) /\ size' = Head(wire)
      /\ sent' = sent /\ wpc' = wpc /\ closed' = closed
      /\ typ' = typ /\ decoded' = decoded /\ short' = short
      /\ rpc' = IF Head(wire) <= MaxPayloadSize THEN "body" ELSE "failed"
  BY DEF Stream!ReadSize, Stream!SizeOK, Stream!writerVars, StreamInv, Stream!TypeOK
<1>2. wire' \in Seq(Nat) /\ size' \in Nat
  BY <1>1, HeadTailProperties
<1>3. rpc' \in {"body", "failed"} /\ (rpc' = "body" => size' <= MaxPayloadSize)
  BY <1>1
<1>4. Stream!TypeOK'
  BY <1>1, <1>2, <1>3 DEF StreamInv, Stream!TypeOK
<1>5. ASSUME ~short', rpc' \in {"type", "size", "body"}
      PROVE  \E pos, c, l : Flow(pos, c, l)'
  <2>1. PICK pos, c, l : Flow(pos, c, l)
    BY <1>1, <1>5 DEF StreamInv
  <2> DEFINE k == Len(decoded)
             m == sent[k + 1]
  <2>2. /\ Offsets(sent, pos) /\ OnWire(wire, sent, pos, c, l)
        /\ WrittenTo(sent, pos, l, wpc, closed)
        /\ c = pos[k] + 1 /\ typ = m.typ
    BY <1>1, <2>1 DEF Flow, ReadTo
  <2>3. /\ k \in Nat /\ k < Len(sent) /\ m \in AnyPayloads /\ c \in Nat /\ pos[k] \in Nat
        /\ RecordLen(m) = 2 + Len(m.body) /\ Len(m.body) \in Nat
    BY <1>1, <1>5, <2>1, NextPayload
  <2>4. sent \in Seq(AnyPayloads)
    BY PayloadFacts DEF StreamInv, Stream!TypeOK
  <2>5. Rest(wire', wire, 1) /\ Head(wire) = wire[1] /\ Len(wire) >= 1 /\ Len(wire) \in Nat
    BY <1>1, TailIsRest
  <2>6. OnWire(wire', sent, pos, c + 1, l)
    <3>1. 1 \in Nat /\ 1 <= Len(wire)
      BY <2>5
    <3> QED
      BY <2>2, <2>4, <2>5, <3>1, WireShrinks
  <2>7. Head(wire) = Len(m.body)
    <3>1. wire[1] = RecordByte(m, 1 + 1)
      <4> DEFINE len == RecordLen(m)
                 n == Len(m.body)
      <4>1. len = 2 + n /\ n \in Nat
        BY <2>3
      <4>2. c = pos[k] + 1 /\ 1 > 0 /\ 1 <= Len(wire) /\ 1 + 1 <= len
        <5> HIDE DEF m, len, n
        <5> QED
          BY <2>2, <2>3, <2>5, <4>1
      <4> HIDE DEF k
      <4> QED
        BY <2>2, <2>3, <2>4, <4>2, NextByte
    <3>2. RecordByte(m, 1 + 1) = Len(m.body)
      BY <2>3, RecordFacts
    <3> QED
      BY <2>5, <3>1, <3>2
  <2>8. rpc' = "body" /\ typ' = m.typ /\ size' = Len(m.body)
    BY <1>1, <1>3, <1>5, <2>2, <2>7
  <2>9. c + 1 = pos[k] + 2
    <3> DEFINE p == pos[k]
    <3>1. c = p + 1 /\ p \in Nat
      BY <2>2, <2>3
    <3> HIDE DEF p
    <3> QED
      BY <3>1 DEF p
  <2>10. Flow(pos, c + 1, l)'
    BY <1>1, <2>2, <2>3, <2>6, <2>8, <2>9 DEF Flow, ReadTo
  <2> QED
    BY <2>10
<1> QED
  BY <1>1, <1>3, <1>4, <1>5 DEF StreamInv, Stream!EofMeansAll

LEMMA StreamReadEOF ==
    ASSUME Stream!Parameters, StreamInv, Stream!ReadEOF
    PROVE  StreamInv'
<1>1. /\ closed /\ wire = <<>> /\ rpc \in {"type", "size", "body"}
      /\ rpc = "body" => size > 0
      /\ rpc' \in {"eof", "failed"}
      /\ sent' = sent /\ wpc' = wpc /\ closed' = closed /\ wire' = wire
      /\ typ' = typ /\ size' = size /\ decoded' = decoded /\ short' = short
  BY DEF Stream!ReadEOF, Stream!writerVars
<1>2. Stream!TypeOK'
  BY <1>1 DEF StreamInv, Stream!TypeOK
<1>3. Stream!EofMeansAll'
  <2> SUFFICES ASSUME ~short
               PROVE  decoded = sent \/ (wpc # "type" /\ decoded = Stream!Front(sent))
    BY <1>1 DEF Stream!EofMeansAll, Stream!Front
  <2>1. PICK pos, c, l : Flow(pos, c, l)
    BY <1>1 DEF StreamInv
  <2> DEFINE k == Len(decoded)
             n == Len(sent)
  <2>2. /\ sent \in Seq(AnyPayloads) /\ decoded \in Seq(AnyPayloads) /\ size \in Nat
        /\ wpc \in {"type", "size", "body"}
    BY PayloadFacts DEF StreamInv, Stream!TypeOK
  <2>3. k <= n /\ \A i \in 1 .. k : decoded[i] = sent[i]
    BY DEF StreamInv, Follows
  <2>4. k \in Nat /\ n \in Nat
    BY <2>2
  <2>5. k \in 0 .. n
    <3> HIDE DEF k, n
    <3> QED
      BY <2>3, <2>4
  <2>6. k = n \/ (wpc # "type" /\ sent # <<>> /\ k = n - 1)
    <3>1. /\ Offsets(sent, pos) /\ OnWire(<<>>, sent, pos, c, l)
          /\ WrittenTo(sent, pos, l, wpc, closed)
          /\ ReadTo(sent, pos, c, rpc, k, typ, size)
      BY <1>1, <2>1 DEF Flow
    <3> HIDE DEF k
    <3> QED
      BY ZenonT(60), <1>1, <2>2, <2>5, <3>1, EndOfStream
  <2>7. CASE k = n
    <3>1. decoded = sent
      BY <2>2, <2>3, <2>7, SeqEqual
    <3> QED
      BY <3>1
  <2>8. CASE wpc # "type" /\ sent # <<>> /\ k = n - 1
    <3> DEFINE f == Stream!Front(sent)
    <3>1. f \in Seq(AnyPayloads) /\ Len(f) = n - 1 /\ \A i \in 1 .. n - 1 : f[i] = sent[i]
      <4>1. 1 \in 1 .. n + 1 /\ n - 1 \in 0 .. n /\ 1 <= (n - 1) + 1
            /\ (n - 1) + 1 - 1 = n - 1 /\ \A i \in 1 .. n - 1 : 1 + i - 1 = i
        <5> HIDE DEF k, n
        <5> QED
          BY <2>4, <2>8
      <4>2. /\ SubSeq(sent, 1, n - 1) \in Seq(AnyPayloads)
            /\ Len(SubSeq(sent, 1, n - 1)) = (n - 1) + 1 - 1
            /\ \A i \in 1 .. (n - 1) + 1 - 1 :
                  SubSeq(sent, 1, n - 1)[i] = sent[1 + i - 1]
        BY <2>2, <4>1, PartFacts
      <4> QED
        BY <4>1, <4>2 DEF Stream!Front
    <3> HIDE DEF f
    <3>2. decoded = f
      <4>1. decoded \in Seq(AnyPayloads) /\ f \in Seq(AnyPayloads) /\ Len(decoded) = Len(f)
        BY <2>2, <2>8, <3>1
      <4>2. \A i \in 1 .. Len(decoded) : decoded[i] = f[i]
        BY <2>3, <2>8, <3>1
      <4> QED
        BY <4>1, <4>2, SeqEqual
    <3> QED
      BY <2>8, <3>2 DEF f
  <2> QED
    BY <2>6, <2>7, <2>8
<1> QED
  BY <1>1, <1>2, <1>3 DEF StreamInv

LEMMA StreamReadBody ==
    ASSUME Stream!Parameters, StreamInv, Stream!ReadBody
    PROVE  StreamInv'
<1> DEFINE D == [typ : Stream!Types, body : Seq(Nat)]
           body(j) == [i \in 1 .. size |-> IF i <= j THEN wire[i] ELSE 0]
           r(j) == [typ |-> typ, body |-> body(j)]
<1>1. PICK j \in 0 .. size :
           /\ j <= Len(wire)
           /\ decoded' = Append(decoded, r(j))
           /\ wire' = SubSeq(wire, j + 1, Len(wire))
           /\ short' = (short \/ j < size)
  BY DEF Stream!ReadBody
<1>2. /\ rpc = "body" /\ rpc' = "type"
      /\ sent' = sent /\ wpc' = wpc /\ closed' = closed
      /\ typ' = typ /\ size' = size
  BY DEF Stream!ReadBody, Stream!writerVars
<1>3. /\ sent \in Seq(AnyPayloads) /\ decoded \in Seq(D) /\ wire \in Seq(Nat)
      /\ typ \in Stream!Types /\ size \in Nat /\ short \in BOOLEAN
  BY PayloadFacts DEF StreamInv, Stream!TypeOK
<1>4. j \in Nat /\ j <= size /\ Len(wire) \in Nat /\ j <= Len(wire)
  BY <1>1, <1>3
<1>5. body(j) \in Seq(Nat) /\ Len(body(j)) = size
  <2>1. \A i \in 1 .. size : i <= j => wire[i] \in Nat
    <3>1. \A i \in 1 .. size : i <= j => i \in 1 .. Len(wire)
      BY <1>3, <1>4
    <3> QED
      BY <1>3, <3>1, ElementOfSeq
  <2>2. body(j) \in [1 .. size -> Nat]
    BY <2>1
  <2> HIDE DEF body
  <2> QED
    BY <1>3, <2>2, FunctionIsSeq
<1>6. \A i \in 1 .. size : i <= j => body(j)[i] = wire[i]
  OBVIOUS
<1> HIDE DEF body
<1>7. r(j) \in D
  BY <1>3, <1>5
<1> HIDE DEF D, r
<1>8. /\ decoded' \in Seq(D) /\ Len(decoded') = Len(decoded) + 1
      /\ decoded'[Len(decoded) + 1] = r(j)
      /\ \A i \in 1 .. Len(decoded) : decoded'[i] = decoded[i]
  BY <1>1, <1>3, <1>7, AppendProperties
<1>9. Rest(wire', wire, j)
  <2> DEFINE v == SubSeq(wire, j + 1, Len(wire))
             n == Len(wire)
  <2>1. j + 1 \in 1 .. n + 1 /\ n \in 0 .. n /\ j + 1 <= n + 1
    <3> HIDE DEF n
    <3> QED
      BY <1>4 DEF n
  <2>2. /\ v \in Seq(Nat) /\ Len(v) = n + 1 - (j + 1)
        /\ \A i \in 1 .. n + 1 - (j + 1) : v[i] = wire[j + 1 + i - 1]
    BY <1>3, <2>1, PartFacts
  <2> HIDE DEF v, n
  <2>3. n + 1 - (j + 1) = n - j /\ \A i \in 1 .. n - j : j + 1 + i - 1 = j + i
    BY <1>4 DEF n
  <2>4. Rest(v, wire, j)
    BY <2>2, <2>3 DEF Rest, n
  <2> QED
    BY <1>1, <2>4 DEF v, n
<1>10. Stream!TypeOK'
  <2>1. wire' \in Seq(Nat) /\ short' \in BOOLEAN
    BY <1>1, <1>3, <1>9 DEF Rest
  <2> QED
    BY <1>2, <1>8, <2>1 DEF StreamInv, Stream!TypeOK, D
<1>11. ASSUME ~short'
       PROVE  Follows(decoded', sent') /\ \E pos, c, l : Flow(pos, c, l)'
  <2>1. ~short /\ j = size
    <3>1. ~short /\ ~(j < size)
      BY <1>1, <1>3, <1>11
    <3>2. j = size
      BY <1>3, <1>4, <3>1
    <3> QED
      BY <3>1, <3>2
  <2>2. PICK pos, c, l : Flow(pos, c, l)
    BY <1>2, <2>1 DEF StreamInv
  <2> DEFINE k == Len(decoded)
             m == sent[k + 1]
  <2>3. /\ Offsets(sent, pos) /\ OnWire(wire, sent, pos, c, l)
        /\ WrittenTo(sent, pos, l, wpc, closed)
        /\ c = pos[k] + 2 /\ typ = m.typ /\ size = Len(m.body)
    BY <1>2, <2>2 DEF Flow, ReadTo
  <2>4. /\ k \in Nat /\ k < Len(sent) /\ m \in AnyPayloads /\ c \in Nat /\ pos[k] \in Nat
        /\ k + 1 \in 1 .. Len(sent)
        /\ RecordLen(m) = 2 + Len(m.body) /\ Len(m.body) \in Nat
        /\ pos[k + 1] = pos[k] + (2 + Len(m.body))
    BY <1>2, <2>1, <2>2, NextPayload
  <2>5. OnWire(wire', sent, pos, c + j, l)
    BY <1>3, <1>4, <1>9, <2>3, WireShrinks
  <2>6. r(j) = m
    <3>1. m.body \in Seq(Nat) /\ m = [typ |-> m.typ, body |-> m.body]
      BY <2>4 DEF AnyPayloads
    <3>2. body(j) = m.body
      <4>1. Len(body(j)) = Len(m.body)
        BY <1>5, <2>3
      <4>2. ASSUME NEW i \in 1 .. Len(body(j)) PROVE body(j)[i] = m.body[i]
        <5>1. i \in 1 .. size /\ i \in 1 .. Len(m.body) /\ i \in Nat /\ i > 0 /\ i <= j
          <6>1. i \in 1 .. size
            BY <1>5
          <6> QED
            BY <1>3, <2>1, <2>3, <6>1
        <5>2. wire[i] = RecordByte(m, 2 + i)
          <6> DEFINE len == RecordLen(m)
                     n == Len(m.body)
          <6>1. len = 2 + n /\ n \in Nat /\ i \in 1 .. n
            BY <2>4, <5>1
          <6>2. i > 0 /\ i <= Len(wire) /\ 2 + i <= len
            <7> HIDE DEF len, n
            <7> QED
              BY <1>4, <5>1, <6>1
          <6>3. 2 \in Nat /\ i \in Nat
            BY <5>1
          <6> HIDE DEF k
          <6> QED
            BY SMTT(40), <1>3, <2>3, <2>4, <6>2, <6>3, NextByte
        <5>3. RecordByte(m, 2 + i) = m.body[i]
          BY <2>4, <5>1, RecordFacts
        <5> QED
          BY <1>6, <5>1, <5>2, <5>3
      <4> QED
        BY <1>5, <3>1, <4>1, <4>2, SeqEqual
    <3> QED
      BY <2>3, <3>1, <3>2 DEF r
  <2>7. Len(decoded') = k + 1 /\ c + j = pos[k + 1]
    <3>1. Len(decoded') = k + 1
      BY <1>8
    <3> DEFINE p == pos[k]
               n == Len(m.body)
               e == pos[k + 1]
    <3>2. c = p + 2 /\ j = n /\ e = p + (2 + n) /\ p \in Nat /\ n \in Nat
      BY <2>1, <2>3, <2>4
    <3> HIDE DEF p, n, e
    <3>3. c + j = e
      BY <3>2
    <3> QED
      BY <3>1, <3>3 DEF e
  <2>8. Flow(pos, c + j, l)'
    BY <1>2, <2>3, <2>5, <2>7 DEF Flow, ReadTo
  <2>9. Follows(decoded', sent')
    <3>1. Len(decoded') <= Len(sent)
      <4> DEFINE n == Len(sent)
      <4>1. n \in Nat /\ k < n /\ Len(decoded') = k + 1
        BY <1>3, <2>4, <2>7
      <4> HIDE DEF n, k
      <4>2. k \in Nat
        BY <2>4 DEF k
      <4> QED
        BY <4>1, <4>2 DEF n
    <3>2. ASSUME NEW i \in 1 .. Len(decoded') PROVE decoded'[i] = sent[i]
      <4>1. i \in 1 .. k \/ i = k + 1
        <5>1. i \in 1 .. k + 1 /\ k \in Nat
          BY <2>4, <2>7
        <5> HIDE DEF k
        <5> QED
          BY <5>1
      <4>2. \A a \in 1 .. k : decoded[a] = sent[a]
        BY <2>1 DEF StreamInv, Follows
      <4> QED
        BY <1>8, <2>6, <4>1, <4>2
    <3> QED
      BY <1>2, <3>1, <3>2 DEF Follows
  <2> QED
    BY <2>8, <2>9
<1> QED
  BY <1>2, <1>10, <1>11 DEF StreamInv, Stream!EofMeansAll

LEMMA StreamStep ==
    ASSUME Stream!Parameters, StreamInv, [Stream!Next]_(Stream!vars)
    PROVE  StreamInv'
<1>1. CASE UNCHANGED Stream!vars
  <2>1. /\ sent' = sent /\ wpc' = wpc /\ closed' = closed /\ wire' = wire /\ rpc' = rpc
        /\ typ' = typ /\ size' = size /\ decoded' = decoded /\ short' = short
    BY <1>1 DEF Stream!vars
  <2> QED
    BY <2>1 DEF StreamInv, Stream!TypeOK, Flow, Stream!EofMeansAll
<1> QED
  BY <1>1, StreamWriteType, StreamWriteSize, StreamWriteBody, StreamWriterCloses,
     StreamReadType, StreamReadSize, StreamReadBody, StreamReadEOF
     DEF Stream!Next, Stream!ReaderNext

LEMMA StreamShows ==
    ASSUME Stream!Parameters, StreamInv
    PROVE  Stream!FaithfulUntilShortRead
<1>1. decoded \in Seq(AnyPayloads) /\ sent \in Seq(AnyPayloads)
  BY PayloadFacts DEF StreamInv, Stream!TypeOK
<1>2. ~short => Follows(decoded, sent)
  BY DEF StreamInv
<1> QED
  BY <1>1, <1>2, FollowsIsPrefix DEF Stream!FaithfulUntilShortRead

\* The first Write of WriteTo offers its payload.
LEMMA StreamOffers ==
    ASSUME StreamInv, Stream!WriteType
    PROVE  Stream!Payload!Offer("WriteTo")
<1> DEFINE Offered == [s \in Stream!Sender |-> sent]
           k == Len(sent)
<1>1. PICK m \in Stream!Payloads : sent' = Append(sent, m)
  BY DEF Stream!WriteType
<1>2. decoded' = decoded
  BY DEF Stream!WriteType, Stream!readerVars
<1>3. sent \in Seq(Stream!Payloads) /\ k \in Nat
  BY DEF StreamInv, Stream!TypeOK
<1>4. Len(sent') = k + 1 /\ sent'[k + 1] = m
  BY <1>1, <1>3, AppendProperties
<1>5. Offered["WriteTo"] = sent /\ (Offered')["WriteTo"] = sent'
  BY DEF Stream!Sender
<1>6. Offered' = [Offered EXCEPT !["WriteTo"] = sent']
  BY DEF Stream!Sender
<1>7. sent' = Append(sent, sent'[k + 1]) /\ Len(sent') > k
  BY <1>1, <1>3, <1>4
<1> HIDE DEF Offered
<1>8. /\ Len((Offered')["WriteTo"]) > Len(Offered["WriteTo"])
      /\ Offered' =
           [Offered EXCEPT !["WriteTo"] =
              Append(@, (Offered')["WriteTo"][Len(@) + 1])]
  BY <1>5, <1>6, <1>7
<1> QED
  BY <1>2, <1>8 DEF Offered, Stream!Payload!Offer

\* A Read that fills its buffer returns the payload that is next.
LEMMA StreamTakes ==
    ASSUME Stream!Parameters, StreamInv, StreamInv', Stream!ReadBody, ~short'
    PROVE  Stream!Payload!Take("WriteTo")
<1> DEFINE Offered == [s \in Stream!Sender |-> sent]
           Taken == [s \in Stream!Sender |-> decoded]
           k == Len(decoded)
           n == Len(sent)
<1>1. sent' = sent /\ \E r : decoded' = Append(decoded, r)
  BY DEF Stream!ReadBody, Stream!writerVars
<1>2. PICK r : decoded' = Append(decoded, r)
  BY <1>1
<1>3. /\ decoded \in Seq(AnyPayloads) /\ decoded' \in Seq(AnyPayloads)
      /\ sent \in Seq(AnyPayloads)
  BY PayloadFacts DEF StreamInv, Stream!TypeOK
<1>4. k \in Nat /\ n \in Nat
  BY <1>3
<1>5. Len(decoded') = k + 1 /\ decoded'[k + 1] = r
  BY <1>2, <1>3
<1>6. Follows(decoded', sent)
  <2>1. Follows(decoded', sent')
    BY DEF StreamInv
  <2> QED
    BY <1>1, <2>1
<1>7. k + 1 \in 1 .. k + 1 /\ k + 1 <= n
  BY <1>4, <1>5, <1>6 DEF Follows
<1>8. r = sent[k + 1] /\ k < n
  BY <1>4, <1>5, <1>6, <1>7 DEF Follows
<1>9. Offered["WriteTo"] = sent /\ Taken["WriteTo"] = decoded /\ Offered' = Offered
  BY <1>1 DEF Stream!Sender
<1>10. Taken' = [Taken EXCEPT !["WriteTo"] = decoded']
  BY DEF Stream!Sender
<1> HIDE DEF Offered, Taken
<1>11. /\ Len(Taken["WriteTo"]) < Len(Offered["WriteTo"])
       /\ Taken' = [Taken EXCEPT !["WriteTo"] = Append(@, Offered["WriteTo"][Len(@) + 1])]
  BY <1>2, <1>8, <1>9, <1>10
<1> QED
  BY <1>9, <1>11 DEF Offered, Taken, Stream!Payload!Take

LEMMA StreamDeliversStep ==
    ASSUME Stream!Parameters, StreamInv, StreamInv', [Stream!Next]_(Stream!vars)
    PROVE  [short' \/ Stream!Payload!Next]_(Stream!Payload!vars)
<1>1. "WriteTo" \in Stream!Sender
  BY DEF Stream!Sender
<1>2. ASSUME UNCHANGED <<sent, decoded>> PROVE UNCHANGED Stream!Payload!vars
  BY <1>2 DEF Stream!Payload!vars
<1>3. CASE Stream!WriteType
  BY <1>1, <1>3, StreamOffers DEF Stream!Payload!Next
<1>4. CASE Stream!ReadBody
  BY <1>1, <1>4, StreamTakes DEF Stream!Payload!Next
<1>5. ASSUME Stream!WriteSize \/ Stream!WriteBody \/ Stream!WriterCloses
             \/ Stream!ReadType \/ Stream!ReadSize \/ Stream!ReadEOF
      PROVE  UNCHANGED <<sent, decoded>>
  BY <1>5 DEF Stream!WriteSize, Stream!WriteBody, Stream!WriterCloses,
     Stream!ReadType, Stream!ReadSize, Stream!ReadEOF, Stream!readerVars,
     Stream!writerVars
<1>6. CASE UNCHANGED Stream!vars
  BY <1>2, <1>6 DEF Stream!vars
<1> QED
  BY <1>2, <1>3, <1>4, <1>5, <1>6 DEF Stream!Next, Stream!ReaderNext

LEMMA StreamOffersNothing == Stream!Init => Stream!Payload!Init
  BY DEF Stream!Init, Stream!Payload!Init

-----------------------------------------------------------------------------
(* The five together: a step is one of the one that is followed.            *)

LEMMA EachNext ==
    ASSUME [Next]_vars
    PROVE  /\ [Stream!Next]_(Stream!vars)
           /\ [Codec!Next]_(Codec!vars)
           /\ [Response!Next]_(Response!vars)
           /\ [Path!Next]_(Path!vars)
           /\ [Command!Next]_(Command!vars)
<1>1. /\ Stream!Next \/ UNCHANGED streamVars
      /\ Codec!Next \/ UNCHANGED packetVars
      /\ Response!Next \/ UNCHANGED responseVars
      /\ Path!Next \/ UNCHANGED pathVars
      /\ Command!Next \/ UNCHANGED fileVars
  BY Zenon DEF Next, vars
<1>2. UNCHANGED streamVars => UNCHANGED Stream!vars
  BY DEF streamVars, Stream!vars
<1>3. UNCHANGED packetVars => UNCHANGED Codec!vars
  BY DEF packetVars, Codec!vars
<1>4. UNCHANGED responseVars => UNCHANGED Response!vars
  BY DEF responseVars, Response!vars, Response!request
<1>5. UNCHANGED pathVars => UNCHANGED Path!vars
  BY DEF pathVars, Path!vars
<1>6. UNCHANGED fileVars => UNCHANGED Command!vars
  BY DEF fileVars, Command!vars
<1> QED
  BY <1>1, <1>2, <1>3, <1>4, <1>5, <1>6

\* tlv.go: where the sender and the receiver are on the wire.
THEOREM StreamInductive == Spec => []StreamInv
<1>1. Init => StreamInv
  BY DataParameters, StreamInit DEF Init
<1>2. StreamInv /\ [Next]_vars => StreamInv'
  BY DataParameters, StreamStep, EachNext
<1> QED
  BY <1>1, <1>2, PTL DEF Spec

\* tftp.go of chapter 6: the packets that have been read.
THEOREM CodecInductive == Spec => []CodecInv
<1>1. Init => CodecInv
  BY DataParameters, CodecInit DEF Init
<1>2. CodecInv /\ [Next]_vars => CodecInv'
  BY DataParameters, CodecStep, EachNext
<1> QED
  BY <1>1, <1>2, PTL DEF Spec

\* chapter9/handler.go and chapter13/wide.go: what has been written of the
\* answer, and what the wide event has counted.
THEOREM ResponseInductive == Spec => []ResponseInv
<1>1. Init => ResponseInv
  BY DataParameters, ResponseInit DEF Init
<1>2. ResponseInv /\ [Next]_vars => ResponseInv'
  BY DataParameters, ResponseStep, EachNext
<1> QED
  BY <1>1, <1>2, PTL DEF Spec

\* chapter9/middleware.go and restrict_prefix.go: the request that was answered.
THEOREM PathInductive == Spec => []PathInv
<1>1. Init => PathInv
  BY DataParameters, PathInit DEF Init
<1>2. PathInv /\ [Next]_vars => PathInv'
  BY DataParameters, PathStep, EachNext
<1> QED
  BY <1>1, <1>2, PTL DEF Spec

\* homework.go: the types, for any number of commands at a time.
THEOREM CommandTypes == Spec => []Command!TypeOK
<1>1. Init => Command!TypeOK
  BY DataParameters, CommandTypeInit DEF Init
<1>2. Command!TypeOK /\ [Next]_vars => Command!TypeOK'
  BY DataParameters, CommandTypeStep, EachNext
<1> QED
  BY <1>1, <1>2, PTL DEF Spec

\* homework.go: where the change of each command is, when they run one at a
\* time.
THEOREM CommandInductive == ASSUME ~Concurrent PROVE Spec => []CommandInv
<1>1. Init => CommandInv
  BY DataParameters, CommandInit DEF Init
<1>2. Command!TypeOK /\ CommandInv /\ [Next]_vars => CommandInv'
  BY DataParameters, CommandStep, EachNext
<1> QED
  BY <1>1, <1>2, CommandTypes, PTL DEF Spec

\* Each variable of the five keeps its type.
THEOREM DataTypes == Spec => []TypeOK
<1>1. StreamInv /\ CodecInv /\ ResponseInv /\ PathInv /\ Command!TypeOK => TypeOK
  BY Zenon DEF TypeOK, StreamInv, CodecInv, ResponseInv, PathInv
<1> QED
  BY <1>1, StreamInductive, CodecInductive, ResponseInductive, PathInductive,
     CommandTypes, PTL

\* StreamIsFaithful (WriteTo and decode of tlv.go): payloads of any size are
\* returned as they were sent, and io.EOF comes after all of them.
THEOREM PayloadsFaithful == Spec => []StreamIsFaithful
<1>1. StreamInv => StreamIsFaithful
  BY DataParameters, StreamShows, Zenon DEF StreamInv, StreamIsFaithful
<1> QED
  BY <1>1, StreamInductive, PTL

\* StreamIsDelivery (WriteTo and decode of tlv.go): until a Read is short the
\* stream implements Delivery, payload by payload, wherever a Write fails.
THEOREM PayloadsDelivered == Spec => StreamIsDelivery
<1>1. Init => Stream!Payload!Init
  BY StreamOffersNothing DEF Init
<1>2. StreamInv /\ StreamInv' /\ [Next]_vars
        => [short' \/ Stream!Payload!Next]_(Stream!Payload!vars)
  BY DataParameters, StreamDeliversStep, EachNext
<1> QED
  BY <1>1, <1>2, StreamInductive, PTL
     DEF Spec, StreamIsDelivery, Stream!StreamIsDelivery

\* PacketsAreRead (MarshalBinary and UnmarshalBinary of tftp.go): a packet is
\* read for what it is, with a buffer of any size and whatever it holds.
THEOREM PacketsRead == Spec => []PacketsAreRead
<1>1. CodecInv => PacketsAreRead
  BY Zenon DEF CodecInv, PacketsAreRead
<1> QED
  BY <1>1, CodecInductive, PTL

\* AnswersAreTold (Methods of handler.go, WideEventLog of wide.go): a refusal
\* names the methods, and the event of any handler has the status and the length
\* that were sent in exactly the cases in which its writer can know them.
THEOREM AnswersTold == Spec => []AnswersAreTold
<1>1. ResponseInv => AnswersAreTold
  BY Zenon DEF ResponseInv, AnswersAreTold
<1> QED
  BY <1>1, ResponseInductive, PTL

\* NoHiddenFile (RestrictPrefix of middleware.go and the Caddy module): for
\* paths of any length no hidden file is served, and Caddy refuses what chapter
\* 9 refuses.
THEOREM HiddenFilesStayHidden == Spec => []NoHiddenFile
<1>1. PathInv => NoHiddenFile
  BY Zenon DEF PathInv, NoHiddenFile
<1> QED
  BY <1>1, PathInductive, PTL

\* PersistUnlessDamaged (add and flush of homework.go): when commands run one at
\* a time, every chore that was added stays, until a process ends inside flush.
THEOREM ChoresPersistUnlessDamaged ==
    ASSUME ~Concurrent PROVE Spec => []Command!PersistUnlessDamaged
<1>1. Init => Kept
  BY DEF Init, Command!Init, Kept
<1>2. Command!TypeOK /\ CommandInv /\ Kept /\ [Next]_vars => Kept'
  BY DataParameters, KeptStep, EachNext
<1>3. CommandInv /\ Kept => Command!PersistUnlessDamaged
  BY KeptShows
<1> QED
  BY <1>1, <1>2, <1>3, CommandTypes, CommandInductive, PTL DEF Spec

\* FileIsLedger (load, flush and main of homework.go): when commands run one at
\* a time, the file holds what the completed ones did, of which nothing that was
\* added is lost again.
THEOREM FileHoldsLedger == ASSUME ~Concurrent PROVE Spec => []FileIsLedger
<1>1. Command!TypeOK /\ CommandInv => Command!FileIsLedger /\ Command!ShowsItsChange
  BY DataParameters, CommandShows
<1>2. Command!FileIsLedger /\ Command!ShowsItsChange /\ Command!PersistUnlessDamaged
      => FileIsLedger
  BY Zenon DEF FileIsLedger
<1> QED
  BY <1>1, <1>2, CommandTypes, CommandInductive, ChoresPersistUnlessDamaged, PTL

\* CommandIsChoreList (homework.go): every step of a command adds chores,
\* completes one or changes nothing of the list the file stands for, until a
\* command stops over a file it was writing.
THEOREM CommandImplements == ASSUME ~Concurrent PROVE Spec => CommandIsChoreList
<1>1. Init => Command!ChoresOf!Init
  BY CommandRefinesInit DEF Init
<1>2. /\ Command!TypeOK /\ CommandInv /\ CommandInv' /\ [Next]_vars
      => [Command!ChoresOf!Next]_(Command!ChoresOf!vars)
  BY DataParameters, CommandRefines, EachNext
<1>3. CommandIsChoreList <=>
         Command!ChoresOf!Init /\ [][Command!ChoresOf!Next]_(Command!ChoresOf!vars)
  BY DEF CommandIsChoreList, Command!CommandIsChoreList, Command!ChoresOf!Spec
<1> QED
  BY <1>1, <1>2, <1>3, CommandTypes, CommandInductive, PTL DEF Spec

=============================================================================
