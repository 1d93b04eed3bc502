------------------------- MODULE StreamServerProofs -------------------------
(***************************************************************************)
(* Proofs about module StreamServer, for every set of connections, every    *)
(* capacity of a socket and every deadline.                                 *)
(***************************************************************************)
EXTENDS StreamServer, SequenceTheorems, TLAPS

-----------------------------------------------------------------------------
(* Sequences of consecutive numbers.                                        *)

\* s is the numbers that follow n.
Run(s, n) == \A k \in 1 .. Len(s) : s[k] = n + k

LEMMA RunEmpty ==
    ASSUME NEW n \in Nat
    PROVE  <<>> \in Seq(Nat) /\ Len(<<>>) = 0 /\ Run(<<>>, n)
  BY DEF Run

\* One more number at the end.
LEMMA RunAppend ==
    ASSUME NEW s \in Seq(Nat), NEW n \in Nat, NEW x \in Nat, Run(s, n),
           x = n + Len(s) + 1
    PROVE  /\ Append(s, x) \in Seq(Nat) /\ Len(Append(s, x)) = Len(s) + 1
           /\ Run(Append(s, x), n)
<1>1. /\ Append(s, x) \in Seq(Nat) /\ Len(Append(s, x)) = Len(s) + 1
      /\ \A k \in 1 .. Len(s) : Append(s, x)[k] = s[k]
      /\ Append(s, x)[Len(s) + 1] = x
  BY AppendProperties
<1> QED
  BY <1>1 DEF Run

\* The first number is the next one, and the rest follows it.
LEMMA RunTail ==
    ASSUME NEW s \in Seq(Nat), NEW n \in Nat, Run(s, n), s # <<>>
    PROVE  /\ Head(s) \in Nat /\ Head(s) = n + 1
           /\ Tail(s) \in Seq(Nat) /\ Len(Tail(s)) = Len(s) - 1
           /\ Run(Tail(s), n + 1)
  BY DEF Run

\* A sequence cut in two.
LEMMA RunCut ==
    ASSUME NEW s \in Seq(Nat), NEW n \in Nat, Run(s, n), NEW k \in 0 .. Len(s)
    PROVE  /\ SubSeq(s, 1, k) \in Seq(Nat) /\ Len(SubSeq(s, 1, k)) = k
           /\ Run(SubSeq(s, 1, k), n)
           /\ SubSeq(s, k + 1, Len(s)) \in Seq(Nat)
           /\ Len(SubSeq(s, k + 1, Len(s))) = Len(s) - k
           /\ Run(SubSeq(s, k + 1, Len(s)), n + k)
  BY DEF Run

\* Two that follow each other.
LEMMA RunConcat ==
    ASSUME NEW s \in Seq(Nat), NEW t \in Seq(Nat), NEW n \in Nat,
           Run(s, n), Run(t, n + Len(s))
    PROVE  /\ s \o t \in Seq(Nat) /\ Len(s \o t) = Len(s) + Len(t)
           /\ Run(s \o t, n)
  BY DEF Run

LEMMA RunUnits ==
    ASSUME NEW s \in Seq(Nat), Run(s, 0), NEW m \in Nat
    PROVE  /\ Len(s) = m => s = Units(m)
           /\ Len(s) <= m => IsPrefix(s, Units(m))
<1>1. /\ Units(m) \in Seq(Nat) /\ Len(Units(m)) = m
      /\ \A k \in 1 .. m : Units(m)[k] = k
  BY DEF Units
<1>2. ASSUME Len(s) = m PROVE s = Units(m)
  BY <1>1, <1>2 DEF Run
<1>3. ASSUME Len(s) <= m PROVE IsPrefix(s, Units(m))
  BY <1>1, <1>3 DEF Run, IsPrefix
<1> QED
  BY <1>2, <1>3

-----------------------------------------------------------------------------
(* What is received, on its way back, in the goroutine's buffer and still to *)
(* be read: one run after the other.                                        *)

\* Of u units, g was received and o is on its way.
Back(g, o, u) == Run(g, 0) /\ Run(o, Len(g)) /\ Len(g) + Len(o) <= u

\* The rest of them is h and i.
Pending(g, o, h, i, u) ==
    /\ Run(h, Len(g) + Len(o))
    /\ Run(i, Len(g) + Len(o) + Len(h))
    /\ Len(g) + Len(o) + Len(h) + Len(i) = u

\* The client sends a unit.
LEMMA SendUnit ==
    ASSUME NEW g \in Seq(Nat), NEW o \in Seq(Nat), NEW h \in Seq(Nat),
           NEW i \in Seq(Nat), NEW u \in Nat, Back(g, o, u), Pending(g, o, h, i, u)
    PROVE  /\ Append(i, u + 1) \in Seq(Nat)
           /\ Back(g, o, u + 1) /\ Pending(g, o, h, Append(i, u + 1), u + 1)
<1> DEFINE m == Len(g) + Len(o) + Len(h)
<1>1. m \in Nat /\ Run(i, m) /\ u = m + Len(i) /\ Len(i) \in Nat
  BY DEF Pending
<1> HIDE DEF m
<1>2. u + 1 \in Nat /\ u + 1 = m + Len(i) + 1
  BY <1>1
<1>3. /\ Append(i, u + 1) \in Seq(Nat) /\ Len(Append(i, u + 1)) = Len(i) + 1
      /\ Run(Append(i, u + 1), m)
  BY <1>1, <1>2, RunAppend
<1>4. m + Len(Append(i, u + 1)) = u + 1
  BY <1>1, <1>3
<1> USE DEF m
<1>5. Pending(g, o, h, Append(i, u + 1), u + 1)
  BY <1>3, <1>4 DEF Pending
<1>6. Back(g, o, u + 1)
  BY DEF Back
<1> QED
  BY <1>3, <1>5, <1>6

\* Read takes some of i into an empty buffer.
LEMMA ReadUnits ==
    ASSUME NEW g \in Seq(Nat), NEW o \in Seq(Nat), NEW i \in Seq(Nat),
           NEW u \in Nat, Pending(g, o, <<>>, i, u), NEW n \in 0 .. Len(i)
    PROVE  /\ SubSeq(i, 1, n) \in Seq(Nat)
           /\ SubSeq(i, n + 1, Len(i)) \in Seq(Nat)
           /\ Len(SubSeq(i, n + 1, Len(i))) <= Len(i)
           /\ Pending(g, o, SubSeq(i, 1, n), SubSeq(i, n + 1, Len(i)), u)
<1> DEFINE m == Len(g) + Len(o)
           read == SubSeq(i, 1, n)
           left == SubSeq(i, n + 1, Len(i))
<1>1. m \in Nat /\ Run(i, m) /\ u = m + Len(i) /\ Len(i) \in Nat /\ n \in Nat
  BY DEF Pending
<1> HIDE DEF m
<1>2. /\ read \in Seq(Nat) /\ Len(read) = n /\ Run(read, m)
      /\ left \in Seq(Nat) /\ Len(left) = Len(i) - n /\ Run(left, m + n)
  BY <1>1, RunCut
<1> HIDE DEF read, left
<1>3. Run(left, m + Len(read)) /\ m + Len(read) + Len(left) = u
      /\ Len(left) <= Len(i)
  BY <1>1, <1>2
<1> USE DEF m
<1>4. Pending(g, o, read, left, u)
  BY <1>2, <1>3 DEF Pending
<1> QED
  BY <1>2, <1>3, <1>4 DEF read, left

\* Write puts the first of h into the socket.
LEMMA WriteUnit ==
    ASSUME NEW g \in Seq(Nat), NEW o \in Seq(Nat), NEW h \in Seq(Nat),
           NEW i \in Seq(Nat), NEW u \in Nat, Back(g, o, u), Pending(g, o, h, i, u),
           h # <<>>
    PROVE  /\ Append(o, Head(h)) \in Seq(Nat) /\ Tail(h) \in Seq(Nat)
           /\ Len(Append(o, Head(h))) = Len(o) + 1
           /\ Back(g, Append(o, Head(h)), u)
           /\ Pending(g, Append(o, Head(h)), Tail(h), i, u)
<1> DEFINE p == Append(o, Head(h))
           m == Len(g) + Len(o)
<1>1. /\ m \in Nat /\ Len(g) \in Nat /\ Len(o) \in Nat /\ Run(g, 0)
      /\ Run(h, m) /\ Run(o, Len(g)) /\ Run(i, m + Len(h))
      /\ m + Len(h) + Len(i) = u /\ Len(h) \in Nat /\ Len(i) \in Nat
      /\ m = Len(g) + Len(o)
  BY DEF Pending, Back
<1> HIDE DEF m
<1>2. /\ Head(h) \in Nat /\ Head(h) = m + 1 /\ Tail(h) \in Seq(Nat)
      /\ Len(Tail(h)) = Len(h) - 1 /\ Run(Tail(h), m + 1)
  BY <1>1, RunTail
<1>3. Head(h) = Len(g) + Len(o) + 1
  BY <1>1, <1>2
<1>4. p \in Seq(Nat) /\ Len(p) = Len(o) + 1 /\ Run(p, Len(g))
  BY <1>1, <1>2, <1>3, RunAppend
<1> HIDE DEF p
<1>5. /\ Len(g) + Len(p) = m + 1 /\ m + 1 <= u
      /\ m + 1 + Len(Tail(h)) = m + Len(h)
  BY <1>1, <1>2, <1>4, HeadTailProperties
<1>6. Back(g, p, u)
  BY <1>1, <1>4, <1>5 DEF Back
<1>7. Pending(g, p, Tail(h), i, u)
  BY <1>1, <1>2, <1>4, <1>5 DEF Pending
<1> QED
  BY <1>2, <1>4, <1>6, <1>7 DEF p

\* The client receives the first of o.
LEMMA ReceiveUnit ==
    ASSUME NEW g \in Seq(Nat), NEW o \in Seq(Nat), NEW u \in Nat, Back(g, o, u),
           o # <<>>
    PROVE  /\ Append(g, Head(o)) \in Seq(Nat) /\ Tail(o) \in Seq(Nat)
           /\ Len(Append(g, Head(o))) = Len(g) + 1
           /\ Len(Tail(o)) = Len(o) - 1
           /\ Back(Append(g, Head(o)), Tail(o), u)
           /\ \A h, i \in Seq(Nat) : Pending(g, o, h, i, u) =>
                  Pending(Append(g, Head(o)), Tail(o), h, i, u)
<1>1. /\ Len(g) \in Nat /\ Len(o) \in Nat /\ Run(g, 0) /\ Run(o, Len(g))
      /\ Len(g) + Len(o) <= u
  BY DEF Back
<1>2. /\ Head(o) \in Nat /\ Head(o) = Len(g) + 1 /\ Tail(o) \in Seq(Nat)
      /\ Len(Tail(o)) = Len(o) - 1 /\ Run(Tail(o), Len(g) + 1)
  BY <1>1, RunTail
<1>3. /\ Append(g, Head(o)) \in Seq(Nat) /\ Len(Append(g, Head(o))) = Len(g) + 1
      /\ Run(Append(g, Head(o)), 0)
  BY <1>1, <1>2, RunAppend
<1>4. Len(Append(g, Head(o))) + Len(Tail(o)) = Len(g) + Len(o)
  BY <1>1, <1>2, <1>3
<1> DEFINE r == Append(g, Head(o))
<1> HIDE DEF r
<1>5. Back(r, Tail(o), u)
  BY <1>1, <1>2, <1>3, <1>4 DEF Back, r
<1>6. ASSUME NEW h \in Seq(Nat), NEW i \in Seq(Nat), Pending(g, o, h, i, u)
      PROVE  Pending(r, Tail(o), h, i, u)
  BY <1>4, <1>6 DEF Pending, r
<1> QED
  BY <1>2, <1>3, <1>5, <1>6 DEF r

\* What has not been sent may be lost.
LEMMA LoseUnits ==
    ASSUME NEW g \in Seq(Nat), NEW o \in Seq(Nat), NEW u \in Nat, Back(g, o, u),
           NEW n \in 0 .. Len(o)
    PROVE  /\ SubSeq(o, 1, n) \in Seq(Nat) /\ Len(SubSeq(o, 1, n)) <= Len(o)
           /\ Back(g, SubSeq(o, 1, n), u)
<1>1. Len(g) \in Nat /\ Len(o) \in Nat /\ Run(o, Len(g)) /\ Len(g) + Len(o) <= u
  BY DEF Back
<1>2. /\ SubSeq(o, 1, n) \in Seq(Nat) /\ Len(SubSeq(o, 1, n)) = n
      /\ Run(SubSeq(o, 1, n), Len(g))
  BY <1>1, RunCut
<1>3. n <= Len(o) /\ Len(g) + n <= u
  BY <1>1
<1> QED
  BY <1>2, <1>3 DEF Back

-----------------------------------------------------------------------------
(* The invariant.                                                           *)

\* The buffer is empty except while Write is at work, which is why Read may
\* overwrite it.
Flow(c) ==
    /\ Back(got[c], outb[c], units[c])
    /\ conn[c] # "closed" => Pending(got[c], outb[c], held[c], inb[c], units[c])
    /\ conn[c] \notin {"write", "closed"} => held[c] = <<>>

Inv == TypeOK /\ \A c \in Conns : Flow(c)

LEMMA InvInit == Parameters /\ Init => Inv
<1> SUFFICES ASSUME Parameters, Init
             PROVE  Inv
  OBVIOUS
<1>1. TypeOK
  <2>1. /\ ctxDone \in BOOLEAN /\ ready \in BOOLEAN /\ listener = "none"
        /\ closer = "none" /\ serve = "listen"
        /\ conn \in [Conns -> {"none", "queued", "closed"} \cup Handling]
        /\ hungUp \in [Conns -> BOOLEAN]
    BY DEF Init
  <2>2. maxIdle \in {0, MaxIdle} /\ ticks \in [Conns -> 0 .. MaxIdle]
    BY DEF Init, Parameters
  <2>3. <<>> \in Seq(Nat)
    OBVIOUS
  <2>4. /\ units \in [Conns -> Nat] /\ inb \in [Conns -> Seq(Nat)]
        /\ held \in [Conns -> Seq(Nat)] /\ outb \in [Conns -> Seq(Nat)]
        /\ got \in [Conns -> Seq(Nat)]
    BY <2>3 DEF Init
  <2>5. \A c \in Conns :
           Len(inb[c]) <= Cap /\ Len(outb[c]) <= Cap /\ Len(got[c]) <= units[c]
    BY DEF Init, Parameters
  <2> QED
    BY <2>1, <2>2, <2>4, <2>5 DEF TypeOK
<1>2. ASSUME NEW c \in Conns PROVE Flow(c)
  <2>1. /\ got[c] = <<>> /\ outb[c] = <<>> /\ held[c] = <<>> /\ inb[c] = <<>>
        /\ units[c] = 0
    BY DEF Init
  <2>2. Back(<<>>, <<>>, 0) /\ Pending(<<>>, <<>>, <<>>, <<>>, 0)
    BY RunEmpty DEF Back, Pending
  <2> QED
    BY <2>1, <2>2 DEF Flow
<1> QED
  BY <1>1, <1>2 DEF Inv

\* A step that leaves the units of a connection alone, and its goroutine where a
\* buffer may be in use, or ends it.
LEMMA FlowKept ==
    ASSUME NEW c \in Conns, Flow(c),
           got'[c] = got[c], outb'[c] = outb[c], held'[c] = held[c],
           inb'[c] = inb[c], units'[c] = units[c],
           \/ conn'[c] = conn[c] \/ conn'[c] = "closed"
           \/ conn[c] # "closed" /\ held[c] = <<>>
    PROVE  Flow(c)'
  BY DEF Flow

Places == {"none", "queued", "closed"} \cup Handling

\* A step of one connection c that keeps its invariant keeps that of all.
LEMMA OneConn ==
    ASSUME Inv, NEW c \in Conns, NEW g \in Seq(Nat), NEW o \in Seq(Nat),
           NEW h \in Seq(Nat), NEW i \in Seq(Nat), NEW u \in Nat, NEW p \in Places,
           got' = [got EXCEPT ![c] = g], outb' = [outb EXCEPT ![c] = o],
           held' = [held EXCEPT ![c] = h], inb' = [inb EXCEPT ![c] = i],
           units' = [units EXCEPT ![c] = u], conn' = [conn EXCEPT ![c] = p],
           UNCHANGED serverVars, ticks' \in [Conns -> 0 .. MaxIdle],
           hungUp' \in [Conns -> BOOLEAN],
           Len(i) <= Cap, Len(o) <= Cap, Len(g) <= u, Back(g, o, u),
           p # "closed" => Pending(g, o, h, i, u),
           p \notin {"write", "closed"} => h = <<>>
    PROVE  Inv'
<1>1. \A d \in Conns :
         /\ got'[d] = (IF d = c THEN g ELSE got[d])
         /\ outb'[d] = (IF d = c THEN o ELSE outb[d])
         /\ held'[d] = (IF d = c THEN h ELSE held[d])
         /\ inb'[d] = (IF d = c THEN i ELSE inb[d])
         /\ units'[d] = (IF d = c THEN u ELSE units[d])
         /\ conn'[d] = (IF d = c THEN p ELSE conn[d])
  BY DEF Inv, TypeOK
<1>2. ASSUME NEW d \in Conns PROVE Flow(d)'
  <2>1. CASE d = c
    BY <1>1, <2>1 DEF Flow
  <2>2. CASE d # c
    BY <1>1, <2>2, FlowKept DEF Inv
  <2> QED
    BY <2>1, <2>2
<1>3. TypeOK'
  <2>1. /\ got' \in [Conns -> Seq(Nat)] /\ outb' \in [Conns -> Seq(Nat)]
        /\ held' \in [Conns -> Seq(Nat)] /\ inb' \in [Conns -> Seq(Nat)]
        /\ units' \in [Conns -> Nat] /\ conn' \in [Conns -> Places]
    BY DEF Inv, TypeOK, Places
  <2>2. \A d \in Conns :
           /\ Len(inb'[d]) <= Cap /\ Len(outb'[d]) <= Cap
           /\ Len(got'[d]) <= units'[d]
    BY <1>1 DEF Inv, TypeOK
  <2> QED
    BY <2>1, <2>2 DEF Inv, TypeOK, Places, serverVars
<1> QED
  BY <1>2, <1>3 DEF Inv

\* What the invariant says of one connection.
LEMMA ConnFacts ==
    ASSUME Inv, NEW c \in Conns
    PROVE  /\ got[c] \in Seq(Nat) /\ outb[c] \in Seq(Nat)
           /\ held[c] \in Seq(Nat) /\ inb[c] \in Seq(Nat) /\ units[c] \in Nat
           /\ Len(inb[c]) <= Cap /\ Len(outb[c]) <= Cap /\ Len(got[c]) <= units[c]
           /\ conn[c] \in Places
           /\ got = [got EXCEPT ![c] = got[c]] /\ outb = [outb EXCEPT ![c] = outb[c]]
           /\ held = [held EXCEPT ![c] = held[c]] /\ inb = [inb EXCEPT ![c] = inb[c]]
           /\ units = [units EXCEPT ![c] = units[c]]
           /\ conn = [conn EXCEPT ![c] = conn[c]]
           /\ ticks \in [Conns -> 0 .. MaxIdle] /\ hungUp \in [Conns -> BOOLEAN]
           /\ Flow(c)
  BY DEF Inv, TypeOK, Places

LEMMA ReadStep == ASSUME Parameters, Inv, NEW c \in Conns, Read(c) PROVE Inv'
<1>1. PICK n \in 1 .. Len(inb[c]) :
          /\ held' = [held EXCEPT ![c] = SubSeq(inb[c], 1, n)]
          /\ inb' = [inb EXCEPT ![c] = SubSeq(@, n + 1, Len(@))]
  BY DEF Read
<1> DEFINE h == SubSeq(inb[c], 1, n)
           i == SubSeq(inb[c], n + 1, Len(inb[c]))
<1>2. /\ conn[c] = "read" /\ conn' = [conn EXCEPT ![c] = "write"]
      /\ held' = [held EXCEPT ![c] = h] /\ inb' = [inb EXCEPT ![c] = i]
      /\ got' = got /\ outb' = outb /\ units' = units /\ ticks' = ticks
      /\ hungUp' = hungUp /\ UNCHANGED serverVars
  BY <1>1 DEF Read, clientVars
<1>3. /\ held[c] = <<>> /\ Back(got[c], outb[c], units[c])
      /\ Pending(got[c], outb[c], <<>>, inb[c], units[c])
  BY <1>2, ConnFacts DEF Flow
<1>4. n \in 0 .. Len(inb[c])
  BY <1>1
<1>5. /\ h \in Seq(Nat) /\ i \in Seq(Nat) /\ Len(i) <= Len(inb[c])
      /\ Pending(got[c], outb[c], h, i, units[c])
  BY <1>3, <1>4, ConnFacts, ReadUnits
<1> HIDE DEF h, i
<1>6. Len(i) <= Cap
  <2>1. Len(i) \in Nat /\ Len(inb[c]) \in Nat /\ Len(inb[c]) <= Cap
    BY <1>5, ConnFacts
  <2> QED
    BY <1>5, <2>1 DEF Parameters
<1>7. "write" \in Places
  BY DEF Places, Handling
<1> QED
  BY <1>2, <1>3, <1>5, <1>6, <1>7, ConnFacts, OneConn

LEMMA WriteStep == ASSUME Parameters, Inv, NEW c \in Conns, Write(c) PROVE Inv'
<1>1. /\ conn[c] = "write" /\ UNCHANGED serverVars /\ ticks' = ticks
      /\ inb' = inb /\ units' = units /\ got' = got /\ hungUp' = hungUp
      /\ Back(got[c], outb[c], units[c])
      /\ Pending(got[c], outb[c], held[c], inb[c], units[c])
  BY ConnFacts DEF Write, Flow, clientVars
<1>2. "deadline" \in Places
  BY DEF Places, Handling
<1>3. CASE held[c] = <<>>
  <2>1. conn' = [conn EXCEPT ![c] = "deadline"] /\ held' = held /\ outb' = outb
    BY <1>3 DEF Write
  <2> QED
    BY <1>1, <1>2, <1>3, <2>1, ConnFacts, OneConn
<1>4. CASE held[c] # <<>>
  <2> DEFINE o == Append(outb[c], Head(held[c]))
             h == Tail(held[c])
  <2>1. /\ Len(outb[c]) < Cap /\ outb' = [outb EXCEPT ![c] = o]
        /\ held' = [held EXCEPT ![c] = h] /\ conn' = conn
    BY <1>4 DEF Write, Rest
  <2>2. /\ o \in Seq(Nat) /\ h \in Seq(Nat) /\ Len(o) = Len(outb[c]) + 1
        /\ Back(got[c], o, units[c])
        /\ Pending(got[c], o, h, inb[c], units[c])
    BY <1>1, <1>4, ConnFacts, WriteUnit
  <2> HIDE DEF o, h
  <2>3. Len(o) <= Cap
    <3>1. Len(outb[c]) \in Nat
      BY ConnFacts
    <3> QED
      BY <2>1, <2>2, <3>1 DEF Parameters
  <2> QED
    BY <1>1, <2>1, <2>2, <2>3, ConnFacts, OneConn
<1> QED
  BY <1>3, <1>4

LEMMA FailStep == ASSUME Parameters, Inv, NEW c \in Conns, Fail(c) PROVE Inv'
<1>1. /\ conn' = [conn EXCEPT ![c] = "closed"] /\ UNCHANGED serverVars
      /\ ticks' = ticks /\ inb' = inb /\ held' = held /\ units' = units
      /\ got' = got /\ hungUp' = hungUp /\ Back(got[c], outb[c], units[c])
  BY ConnFacts DEF Fail, Flow, clientVars
<1>2. "closed" \in Places
  BY DEF Places
<1>3. CASE outb' = outb
  BY <1>1, <1>2, <1>3, ConnFacts, OneConn
<1>4. CASE outb' # outb
  <2>1. PICK n \in 0 .. Len(outb[c]) :
            outb' = [outb EXCEPT ![c] = SubSeq(@, 1, n)]
    BY <1>4 DEF Fail
  <2> DEFINE o == SubSeq(outb[c], 1, n)
  <2>2. outb' = [outb EXCEPT ![c] = o]
    BY <2>1
  <2>3. /\ o \in Seq(Nat) /\ Len(o) <= Len(outb[c])
        /\ Back(got[c], o, units[c])
    BY <1>1, ConnFacts, LoseUnits
  <2> HIDE DEF o
  <2>4. Len(o) <= Cap
    <3>1. Len(outb[c]) \in Nat /\ Len(o) \in Nat /\ Len(outb[c]) <= Cap
      BY <2>3, ConnFacts
    <3> QED
      BY <2>3, <3>1 DEF Parameters
  <2> QED
    BY <1>1, <1>2, <2>2, <2>3, <2>4, ConnFacts, OneConn
<1> QED
  BY <1>3, <1>4

LEMMA SendStep == ASSUME Parameters, Inv, NEW c \in Conns, Send(c) PROVE Inv'
<1> DEFINE u == units[c] + 1
           i == Append(inb[c], u)
<1>1. /\ conn[c] \in {"queued"} \cup Handling /\ Len(inb[c]) < Cap
      /\ units' = [units EXCEPT ![c] = u] /\ inb' = [inb EXCEPT ![c] = i]
      /\ UNCHANGED serverVars /\ conn' = conn /\ ticks' = ticks
      /\ held' = held /\ outb' = outb /\ got' = got /\ hungUp' = hungUp
  BY DEF Send
<1>2. /\ Back(got[c], outb[c], units[c])
      /\ Pending(got[c], outb[c], held[c], inb[c], units[c])
      /\ conn[c] \notin {"write", "closed"} => held[c] = <<>>
  BY <1>1, ConnFacts DEF Flow, Handling
<1>3. i \in Seq(Nat) /\ Back(got[c], outb[c], u)
      /\ Pending(got[c], outb[c], held[c], i, u)
  BY <1>2, ConnFacts, SendUnit
<1>4. /\ u \in Nat /\ Len(i) = Len(inb[c]) + 1 /\ Len(inb[c]) \in Nat
      /\ Len(got[c]) \in Nat /\ Len(got[c]) <= u
  BY ConnFacts
<1> HIDE DEF u, i
<1>5. Len(i) <= Cap
  BY <1>1, <1>4 DEF Parameters
<1>6. /\ got' = [got EXCEPT ![c] = got[c]] /\ outb' = [outb EXCEPT ![c] = outb[c]]
      /\ held' = [held EXCEPT ![c] = held[c]] /\ conn' = [conn EXCEPT ![c] = conn[c]]
      /\ ticks' \in [Conns -> 0 .. MaxIdle] /\ hungUp' \in [Conns -> BOOLEAN]
      /\ conn[c] \in Places /\ got[c] \in Seq(Nat) /\ outb[c] \in Seq(Nat)
      /\ held[c] \in Seq(Nat) /\ Len(outb[c]) <= Cap
  BY <1>1, ConnFacts
<1> QED
  BY <1>1, <1>2, <1>3, <1>4, <1>5, <1>6, OneConn

LEMMA ReceiveStep == ASSUME Parameters, Inv, NEW c \in Conns, Receive(c) PROVE Inv'
<1> DEFINE g == Append(got[c], Head(outb[c]))
           o == Tail(outb[c])
<1>1. /\ outb[c] # <<>>
      /\ got' = [got EXCEPT ![c] = g] /\ outb' = [outb EXCEPT ![c] = o]
      /\ UNCHANGED serverVars /\ conn' = conn /\ ticks' = ticks
      /\ inb' = inb /\ held' = held /\ units' = units /\ hungUp' = hungUp
  BY DEF Receive
<1>2. /\ Back(got[c], outb[c], units[c])
      /\ conn[c] # "closed" =>
            Pending(got[c], outb[c], held[c], inb[c], units[c])
      /\ conn[c] \notin {"write", "closed"} => held[c] = <<>>
  BY ConnFacts DEF Flow
<1>3. /\ g \in Seq(Nat) /\ o \in Seq(Nat) /\ Len(o) = Len(outb[c]) - 1
      /\ Back(g, o, units[c])
      /\ \A h, i \in Seq(Nat) : Pending(got[c], outb[c], h, i, units[c]) =>
             Pending(g, o, h, i, units[c])
  BY <1>1, <1>2, ConnFacts, ReceiveUnit
<1> HIDE DEF g, o
<1>4. Len(o) <= Cap
  <2>1. Len(outb[c]) \in Nat /\ Len(outb[c]) <= Cap
    BY ConnFacts
  <2> QED
    BY <1>3, <2>1 DEF Parameters
<1>5. Len(g) <= units[c]
  <2>1. /\ Len(g) \in Nat /\ Len(o) \in Nat /\ Len(g) + Len(o) <= units[c]
        /\ units[c] \in Nat
    BY <1>3, ConnFacts DEF Back
  <2> QED
    BY <2>1
<1>6. /\ held' = [held EXCEPT ![c] = held[c]] /\ inb' = [inb EXCEPT ![c] = inb[c]]
      /\ units' = [units EXCEPT ![c] = units[c]] /\ conn' = [conn EXCEPT ![c] = conn[c]]
      /\ ticks' \in [Conns -> 0 .. MaxIdle] /\ hungUp' \in [Conns -> BOOLEAN]
      /\ conn[c] \in Places /\ held[c] \in Seq(Nat) /\ inb[c] \in Seq(Nat)
      /\ units[c] \in Nat /\ Len(inb[c]) <= Cap
      /\ conn[c] # "closed" => Pending(g, o, held[c], inb[c], units[c])
  BY <1>1, <1>2, <1>3, ConnFacts
<1> QED
  BY <1>1, <1>2, <1>3, <1>4, <1>5, <1>6, OneConn

-----------------------------------------------------------------------------
(* The other steps leave the streams alone.                                 *)

streamVars == <<units, inb, held, outb, got>>

LEMMA Quiet ==
    ASSUME Inv, UNCHANGED streamVars, ctxDone' \in BOOLEAN, ready' \in BOOLEAN,
           listener' \in {"none", "open", "closed"},
           closer' \in {"none", "wait", "done"},
           serve' \in {"listen", "load", "accept", "returned"},
           maxIdle' \in {0, MaxIdle}, conn' \in [Conns -> Places],
           ticks' \in [Conns -> 0 .. MaxIdle], hungUp' \in [Conns -> BOOLEAN],
           \A c \in Conns : \/ conn'[c] = conn[c] \/ conn'[c] = "closed"
                            \/ conn[c] \notin {"write", "closed"}
    PROVE  Inv'
<1>1. ASSUME NEW c \in Conns PROVE Flow(c)'
  <2>1. /\ Flow(c)
        /\ conn[c] \notin {"write", "closed"} =>
              conn[c] # "closed" /\ held[c] = <<>>
    BY DEF Inv, Flow
  <2> QED
    BY <2>1, FlowKept DEF streamVars
<1>2. TypeOK'
  BY DEF Inv, TypeOK, Places, streamVars
<1> QED
  BY <1>1, <1>2 DEF Inv

LEMMA InvStep == Parameters /\ Inv /\ [Next]_vars => Inv'
<1> SUFFICES ASSUME Parameters, Inv, [Next]_vars
             PROVE  Inv'
  OBVIOUS
<1> USE DEF serverVars, connVars, clientVars, streamVars
<1>1. /\ ctxDone \in BOOLEAN /\ ready \in BOOLEAN
      /\ listener \in {"none", "open", "closed"}
      /\ closer \in {"none", "wait", "done"}
      /\ serve \in {"listen", "load", "accept", "returned"}
      /\ maxIdle \in {0, MaxIdle} /\ conn \in [Conns -> Places]
      /\ ticks \in [Conns -> 0 .. MaxIdle] /\ hungUp \in [Conns -> BOOLEAN]
  BY DEF Inv, TypeOK, Places
<1>2. CASE Listen \/ Load \/ AcceptClosed \/ ServeFail \/ Cancel
  BY <1>1, <1>2, Quiet DEF Listen, Load, AcceptClosed, ServeFail, Cancel
<1>3. CASE Accept
  BY <1>1, <1>3, Quiet DEF Accept, Places, Handling
<1>4. CASE Close
  BY <1>1, <1>4, Quiet DEF Close, Places
<1>5. CASE Tick
  <2>1. ticks' \in [Conns -> 0 .. MaxIdle]
    BY <1>1, <1>5 DEF Tick, Parameters
  <2> QED
    BY <1>1, <1>5, <2>1, Quiet DEF Tick
<1>6. ASSUME NEW c \in Conns,
             SetDeadline(c) \/ Connect(c) \/ Leave(c)
      PROVE  Inv'
  <2>1. CASE SetDeadline(c)
    <3>1. ticks' \in [Conns -> 0 .. MaxIdle]
      BY <1>1, <2>1 DEF SetDeadline, Parameters
    <3>2. conn' \in [Conns -> Places]
      BY <1>1, <2>1 DEF SetDeadline, Places, Handling
    <3> QED
      BY <1>1, <2>1, <3>1, <3>2, Quiet DEF SetDeadline
  <2>2. CASE Connect(c)
    BY <1>1, <2>2, Quiet DEF Connect, Places
  <2>3. CASE Leave(c)
    BY <1>1, <2>3, Quiet DEF Leave
  <2> QED
    BY <1>6, <2>1, <2>2, <2>3
<1>7. CASE UNCHANGED vars
  BY <1>1, <1>7, Quiet DEF vars
<1> QED
  BY <1>2, <1>3, <1>4, <1>5, <1>6, <1>7, ReadStep, WriteStep, FailStep, SendStep,
     ReceiveStep
     DEF Next, ServeNext, Handle

-----------------------------------------------------------------------------
(* The theorems.                                                            *)

\* Every reachable state has the invariant: what a client sent is, unit by
\* unit, with it again, in one of the two sockets or in the goroutine's buffer.
THEOREM StreamInductive == ASSUME Parameters PROVE Spec => []Inv
<1>1. Init => Inv
  BY InvInit
<1>2. Inv /\ [Next]_vars => Inv'
  BY InvStep
<1> QED
  BY <1>1, <1>2, PTL DEF Spec

\* Types, and that no socket holds more than its capacity.
THEOREM StreamTypes == ASSUME Parameters PROVE Spec => []TypeOK
<1>1. Inv => TypeOK
  BY DEF Inv
<1> QED
  BY <1>1, StreamInductive, PTL

LEMMA OneStream ==
    ASSUME NEW g \in Seq(Nat), NEW o \in Seq(Nat), NEW h \in Seq(Nat),
           NEW i \in Seq(Nat), NEW u \in Nat, Back(g, o, u), Pending(g, o, h, i, u)
    PROVE  g \o o \o h \o i = Units(u)
<1>1. /\ Run(g, 0) /\ Run(o, Len(g)) /\ Run(h, Len(g) + Len(o))
      /\ Run(i, Len(g) + Len(o) + Len(h))
      /\ Len(g) + Len(o) + Len(h) + Len(i) = u
  BY DEF Back, Pending
<1>2. g \in Seq(Nat) /\ o \in Seq(Nat) /\ h \in Seq(Nat) /\ i \in Seq(Nat)
  OBVIOUS
<1> DEFINE go == g \o o
           goh == go \o h
<1>3. go \in Seq(Nat) /\ Len(go) = Len(g) + Len(o) /\ Run(go, 0)
  <2>1. Run(o, 0 + Len(g))
    BY <1>1, <1>2
  <2> QED
    BY <1>1, <1>2, <2>1, RunConcat
<1> HIDE DEF go
<1>4. goh \in Seq(Nat) /\ Len(goh) = Len(go) + Len(h) /\ Run(goh, 0)
  <2>1. Run(h, 0 + Len(go))
    BY <1>1, <1>2, <1>3
  <2> QED
    BY <1>2, <1>3, <2>1, RunConcat
<1> HIDE DEF goh
<1>5. Len(goh) = Len(g) + Len(o) + Len(h)
  BY <1>3, <1>4
<1>6. goh \o i \in Seq(Nat) /\ Len(goh \o i) = Len(goh) + Len(i) /\ Run(goh \o i, 0)
  <2>1. Run(i, 0 + Len(goh))
    BY <1>1, <1>2, <1>5
  <2> QED
    BY <1>2, <1>4, <2>1, RunConcat
<1>7. Len(goh \o i) = u
  BY <1>1, <1>5, <1>6
<1>8. goh \o i = Units(u)
  BY <1>6, <1>7, RunUnits
<1> QED
  BY <1>8 DEF go, goh

\* EchoIsFaithful (Read and Write of chapter7/server.go and chapter11/server.go):
\* short reads, blocked writes and deadlines lose, repeat and reorder nothing.
THEOREM EchoFaithful == ASSUME Parameters PROVE Spec => []EchoIsFaithful
<1>1. ASSUME Inv PROVE EchoIsFaithful
  <2>1. ASSUME NEW c \in Conns, conn[c] # "closed"
        PROVE  got[c] \o outb[c] \o held[c] \o inb[c] = Units(units[c])
    <3>1. /\ Back(got[c], outb[c], units[c])
          /\ Pending(got[c], outb[c], held[c], inb[c], units[c])
      BY <1>1, <2>1, ConnFacts DEF Flow
    <3>2. /\ got[c] \in Seq(Nat) /\ outb[c] \in Seq(Nat)
          /\ held[c] \in Seq(Nat) /\ inb[c] \in Seq(Nat) /\ units[c] \in Nat
      BY <1>1, ConnFacts
    <3> QED
      BY <3>1, <3>2, OneStream
  <2>2. ASSUME NEW c \in Conns
        PROVE  IsPrefix(got[c], Units(units[c]))
    BY <1>1, ConnFacts, RunUnits DEF Flow, Back
  <2> QED
    BY <2>1, <2>2 DEF EchoIsFaithful
<1> QED
  BY <1>1, StreamInductive, PTL

-----------------------------------------------------------------------------
(* The server delivers to each client the units that it sent.               *)

LEMMA MoreUnits ==
    ASSUME NEW n \in Nat
    PROVE  /\ Units(n) \in Seq(Nat) /\ Len(Units(n)) = n
           /\ Units(n + 1) = Append(Units(n), n + 1)
           /\ \A k \in 1 .. n : Units(n)[k] = k
<1>1. ASSUME NEW m \in Nat
      PROVE  Units(m) \in Seq(Nat) /\ Len(Units(m)) = m /\ Run(Units(m), 0)
  BY DEF Units, Run
<1>2. /\ Append(Units(n), n + 1) \in Seq(Nat)
      /\ Len(Append(Units(n), n + 1)) = n + 1
      /\ Run(Append(Units(n), n + 1), 0)
  BY <1>1, RunAppend
<1>3. Units(n + 1) = Append(Units(n), n + 1)
  <2>1. n + 1 \in Nat
    OBVIOUS
  <2> QED
    BY <1>2, <2>1, RunUnits
<1> QED
  BY <1>1, <1>3 DEF Run

\* A client that sends a unit offers it.
LEMMA SendOffers ==
    ASSUME Inv, NEW c \in Conns, Send(c)
    PROVE  Echoes!Offer(c)
<1> DEFINE Offered == [d \in Conns |-> Units(units[d])]
<1>1. /\ units \in [Conns -> Nat] /\ units' = [units EXCEPT ![c] = units[c] + 1]
      /\ got' = got
  BY DEF Send, Inv, TypeOK
<1>2. /\ Units(units[c]) \in Seq(Nat) /\ Len(Units(units[c])) = units[c]
      /\ Units(units[c] + 1) = Append(Units(units[c]), units[c] + 1)
      /\ Len(Units(units[c] + 1)) = units[c] + 1
      /\ Units(units[c] + 1)[units[c] + 1] = units[c] + 1
  <2>1. units[c] \in Nat /\ units[c] + 1 \in Nat
    BY <1>1
  <2>2. /\ Units(units[c]) \in Seq(Nat) /\ Len(Units(units[c])) = units[c]
        /\ Units(units[c] + 1) = Append(Units(units[c]), units[c] + 1)
    BY <2>1, MoreUnits
  <2>3. Len(Units(units[c] + 1)) = units[c] + 1
    BY <2>1, MoreUnits
  <2>4. Units(units[c] + 1)[units[c] + 1] = units[c] + 1
    <3>1. units[c] + 1 \in 1 .. units[c] + 1
      BY <2>1
    <3> QED
      BY <2>1, <3>1, MoreUnits
  <2> QED
    BY <2>2, <2>3, <2>4
<1>3. Offered' = [Offered EXCEPT ![c] = Units(units[c] + 1)]
  BY <1>1
<1>4. /\ Offered[c] = Units(units[c]) /\ (Offered')[c] = Units(units[c] + 1)
  BY <1>1
<1>5. /\ (Offered')[c][Len(Offered[c]) + 1] = units[c] + 1
      /\ (Offered')[c] = Append(Offered[c], units[c] + 1)
      /\ Len((Offered')[c]) > Len(Offered[c])
  BY <1>1, <1>2, <1>4
<1>6. Offered' =
         [Offered EXCEPT ![c] = Append(Offered[c], (Offered')[c][Len(Offered[c]) + 1])]
  BY <1>3, <1>4, <1>5
<1> QED
  BY <1>1, <1>5, <1>6 DEF Echoes!Offer

\* A client that receives a unit takes the one after those it has.
LEMMA ReceiveTakes ==
    ASSUME Inv, Inv', NEW c \in Conns, Receive(c)
    PROVE  Echoes!Take(c)
<1> DEFINE Offered == [d \in Conns |-> Units(units[d])]
           n == Len(got[c])
<1>1. /\ outb[c] \in Seq(Nat) /\ outb[c] # <<>>
      /\ got' = [got EXCEPT ![c] = Append(got[c], Head(outb[c]))]
      /\ units' = units
  BY ConnFacts DEF Receive
<1>2. /\ got \in [Conns -> Seq(Nat)] /\ got[c] \in Seq(Nat) /\ units[c] \in Nat
      /\ Back(got[c], outb[c], units[c])
  BY ConnFacts DEF Inv, TypeOK, Flow
<1>3. n \in Nat /\ Run(outb[c], n) /\ n + Len(outb[c]) <= units[c]
  BY <1>2 DEF Back
<1>4. Head(outb[c]) = n + 1 /\ Len(outb[c]) >= 1
  BY <1>1, <1>3, RunTail
<1>5. n < units[c]
  BY <1>2, <1>3, <1>4, ConnFacts
<1>6. Offered[c] = Units(units[c])
  OBVIOUS
<1>7. Len(Offered[c]) = units[c] /\ Offered[c][n + 1] = n + 1
  <2>1. n + 1 \in 1 .. units[c]
    BY <1>2, <1>3, <1>5
  <2> QED
    BY <1>2, <1>6, <2>1, MoreUnits
<1>8. got' = [got EXCEPT ![c] = Append(got[c], Offered[c][n + 1])]
  BY <1>1, <1>4, <1>7
<1>9. Offered' = Offered
  BY <1>1
<1> QED
  BY <1>5, <1>7, <1>8, <1>9 DEF Echoes!Take

\* EchoIsDelivery (Read and Write of chapter7/server.go and chapter11/server.go):
\* the server implements Delivery, with its own units for each client: what a
\* step of any goroutine, a deadline or the context makes arrive is the next one.
THEOREM EchoDelivers == ASSUME Parameters PROVE Spec => EchoIsDelivery
<1>1. Init => Echoes!Init
  <2> SUFFICES ASSUME Init PROVE Echoes!Init
    OBVIOUS
  <2>1. units = [c \in Conns |-> 0] /\ got = [c \in Conns |-> <<>>]
    BY DEF Init
  <2>2. Units(0) = <<>>
    <3>1. Units(0) \in Seq(Nat) /\ Len(Units(0)) = 0
      BY MoreUnits
    <3> QED
      BY <3>1, EmptySeq
  <2>3. [c \in Conns |-> Units(units[c])] = [c \in Conns |-> <<>>]
    BY <2>1, <2>2
  <2> QED
    BY <2>1, <2>3 DEF Echoes!Init
<1>2. Inv /\ Inv' /\ [Next]_vars => [Echoes!Next]_(Echoes!vars)
  <2> SUFFICES ASSUME Inv, Inv', [Next]_vars
               PROVE  [Echoes!Next]_(Echoes!vars)
    OBVIOUS
  <2>1. ASSUME NEW c \in Conns, Send(c) PROVE Echoes!Next
    BY <2>1, SendOffers DEF Echoes!Next
  <2>2. ASSUME NEW c \in Conns, Receive(c) PROVE Echoes!Next
    BY <2>2, ReceiveTakes DEF Echoes!Next
  <2>3. ASSUME UNCHANGED <<units, got>> PROVE UNCHANGED Echoes!vars
    BY <2>3 DEF Echoes!vars
  <2>4. ASSUME NEW c \in Conns, Handle(c) \/ Connect(c) \/ Leave(c)
        PROVE  UNCHANGED <<units, got>>
    BY <2>4 DEF Handle, SetDeadline, Read, Write, Fail, Connect, Leave, clientVars
  <2>5. ASSUME ServeNext \/ ServeFail \/ Close \/ Tick \/ Cancel
        PROVE  UNCHANGED <<units, got>>
    BY <2>5 DEF ServeNext, Listen, Load, Accept, AcceptClosed, ServeFail, Close,
                Tick, Cancel, connVars, clientVars
  <2>6. CASE UNCHANGED vars
    BY <2>3, <2>6 DEF vars, clientVars
  <2> QED
    BY <2>1, <2>2, <2>3, <2>4, <2>5, <2>6 DEF Next
<1> QED
  BY <1>1, <1>2, StreamInductive, PTL DEF Spec, EchoIsDelivery, Echoes!Spec
=============================================================================
