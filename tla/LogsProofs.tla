----------------------------- MODULE LogsProofs -----------------------------
(***************************************************************************)
(* Proofs about module MCLogs, for every value of its constants: the level  *)
(* that follows a file, the loggers with several writers, and the           *)
(* instrumented server.                                                     *)
(***************************************************************************)
EXTENDS MCLogs, SequenceTheorems, FiniteSetTheorems, WellFoundedInduction, TLAPS

-----------------------------------------------------------------------------
(* Induction over the naturals, for a set of them.                          *)

LEMMA Induction ==
    ASSUME NEW S, 0 \in S, \A n \in Nat : n \in S => n + 1 \in S
    PROVE  Nat \subseteq S
<1> DEFINE T == Nat \ S
<1>1. SUFFICES ASSUME T # {} PROVE FALSE
  OBVIOUS
<1>2. PICK m \in T : \A y \in T : ~(<<y, m>> \in OpToRel(<, Nat))
  <2>1. T \subseteq Nat
    OBVIOUS
  <2> HIDE DEF T
  <2> QED
    BY <1>1, <2>1, WFMin, NatLessThanWellFounded
<1>3. m # 0 /\ m \in Nat /\ m - 1 \in Nat
  OBVIOUS
<1>4. m - 1 \in T
  BY <1>3
<1>5. <<m - 1, m>> \in OpToRel(<, Nat)
  BY <1>3 DEF OpToRel
<1> QED
  BY <1>2, <1>4, <1>5

-----------------------------------------------------------------------------
(* FlattenSeq, which the model of SustainedMultiWriter uses.                *)

\* What FlattenSeq builds up, one sequence after the other.
Builds(f, ss, n) ==
    f = [i \in 1 .. n |-> IF i = 1 THEN ss[i] ELSE f[i - 1] \o ss[i]]

LEMMA BuildsExists ==
    ASSUME NEW ss, NEW n \in Nat
    PROVE  \E f : Builds(f, ss, n)
<1> DEFINE S == {m \in Nat : \E f : Builds(f, ss, m)}
<1>1. 0 \in S
  <2>1. Builds([i \in 1 .. 0 |-> ss], ss, 0)
    BY DEF Builds
  <2> QED
    BY <2>1
<1>2. ASSUME NEW m \in Nat, m \in S PROVE m + 1 \in S
  <2>1. PICK f : Builds(f, ss, m)
    BY <1>2
  <2> DEFINE last == IF m + 1 = 1 THEN ss[m + 1] ELSE f[m] \o ss[m + 1]
             g == [i \in 1 .. m + 1 |-> IF i = m + 1 THEN last ELSE f[i]]
  <2>2. ASSUME NEW i \in 1 .. m + 1
        PROVE  g[i] = IF i = 1 THEN ss[i] ELSE g[i - 1] \o ss[i]
    <3>1. CASE i = m + 1 /\ i = 1
      BY <3>1
    <3>2. CASE i = m + 1 /\ i # 1
      <4>1. i - 1 = m /\ m \in 1 .. m + 1 /\ m # m + 1
        BY <3>2
      <4>2. g[i - 1] = f[m]
        BY <4>1
      <4> QED
        BY <3>2, <4>2
    <3>3. CASE i # m + 1
      <4>1. i \in 1 .. m /\ g[i] = f[i]
        BY <3>3
      <4>2. f[i] = IF i = 1 THEN ss[i] ELSE f[i - 1] \o ss[i]
        BY <2>1, <4>1 DEF Builds
      <4>3. i # 1 => g[i - 1] = f[i - 1]
        BY <4>1
      <4> QED
        BY <4>1, <4>2, <4>3
    <3> QED
      BY <3>1, <3>2, <3>3
  <2>3. g = [i \in 1 .. m + 1 |-> g[i]]
    OBVIOUS
  <2> HIDE DEF g, last
  <2>4. Builds(g, ss, m + 1)
    BY <2>2, <2>3 DEF Builds
  <2> QED
    BY <2>4
<1> HIDE DEF S
<1>3. Nat \subseteq S
  BY <1>1, <1>2, Induction
<1> QED
  BY <1>3 DEF S

\* It is a sequence of elements, and has those of each of the sequences.
LEMMA FlattenFacts ==
    ASSUME NEW D, NEW ss \in Seq(Seq(D))
    PROVE  /\ Log!FlattenSeq(ss) \in Seq(D)
           /\ \A i \in 1 .. Len(ss) :
                Log!ToSet(ss[i]) \subseteq Log!ToSet(Log!FlattenSeq(ss))
<1> DEFINE n == Len(ss)
           f == CHOOSE g : Builds(g, ss, n)
<1>0. n \in Nat
  OBVIOUS
<1>1. CASE n = 0
  <2>1. ss = <<>>
    BY <1>1
  <2> QED
    BY <1>1, <2>1 DEF Log!FlattenSeq
<1>2. CASE n # 0
  <2>1. Builds(f, ss, n)
    BY <1>0, BuildsExists
  <2>2. Log!FlattenSeq(ss) = f[n]
    BY <1>2 DEF Log!FlattenSeq, Builds
  <2> HIDE DEF f
  <2> DEFINE S == {m \in Nat : m \in 1 .. n =>
                      /\ f[m] \in Seq(D)
                      /\ \A i \in 1 .. m : Log!ToSet(ss[i]) \subseteq Log!ToSet(f[m])}
  <2>3. 0 \in S
    OBVIOUS
  <2>4. ASSUME NEW m \in Nat, m \in S PROVE m + 1 \in S
    <3> SUFFICES ASSUME m + 1 \in 1 .. n
                 PROVE  /\ f[m + 1] \in Seq(D)
                        /\ \A i \in 1 .. m + 1 :
                             Log!ToSet(ss[i]) \subseteq Log!ToSet(f[m + 1])
      OBVIOUS
    <3>1. CASE m = 0
      <4>1. f[1] = ss[1] /\ ss[1] \in Seq(D)
        BY <2>1, <1>0, <1>2 DEF Builds
      <4> QED
        BY <3>1, <4>1
    <3>2. CASE m # 0
      <4>1. /\ f[m + 1] = f[m] \o ss[m + 1] /\ ss[m + 1] \in Seq(D)
            /\ f[m] \in Seq(D)
            /\ \A i \in 1 .. m : Log!ToSet(ss[i]) \subseteq Log!ToSet(f[m])
        <5>1. m + 1 # 1 /\ m \in 1 .. n /\ (m + 1) - 1 = m
          BY <1>0, <3>2
        <5>2. f[m + 1] = f[m] \o ss[m + 1]
          BY <2>1, <5>1 DEF Builds
        <5>3. ss[m + 1] \in Seq(D)
          OBVIOUS
        <5> QED
          BY <2>4, <5>1, <5>2, <5>3
      <4>2. ASSUME NEW s \in Seq(D), NEW t \in Seq(D)
            PROVE  /\ s \o t \in Seq(D)
                   /\ Log!ToSet(s) \subseteq Log!ToSet(s \o t)
                   /\ Log!ToSet(t) \subseteq Log!ToSet(s \o t)
        <5>1. /\ s \o t \in Seq(D) /\ Len(s \o t) = Len(s) + Len(t)
              /\ \A i \in 1 .. Len(s) : (s \o t)[i] = s[i]
              /\ \A i \in 1 .. Len(t) : (s \o t)[Len(s) + i] = t[i]
          OBVIOUS
        <5>2. /\ \A i \in 1 .. Len(s) : i \in 1 .. Len(s \o t)
              /\ \A i \in 1 .. Len(t) : Len(s) + i \in 1 .. Len(s \o t)
              /\ DOMAIN s = 1 .. Len(s) /\ DOMAIN t = 1 .. Len(t)
              /\ DOMAIN (s \o t) = 1 .. Len(s \o t)
          BY <5>1
        <5> QED
          BY <5>1, <5>2 DEF Log!ToSet
      <4>3. /\ f[m] \o ss[m + 1] \in Seq(D)
            /\ Log!ToSet(f[m]) \subseteq Log!ToSet(f[m] \o ss[m + 1])
            /\ Log!ToSet(ss[m + 1]) \subseteq Log!ToSet(f[m] \o ss[m + 1])
        BY <4>1, <4>2
      <4>4. \A i \in 1 .. m + 1 : i \in 1 .. m \/ i = m + 1
        OBVIOUS
      <4> QED
        BY <4>1, <4>3, <4>4
    <3> QED
      BY <3>1, <3>2
  <2> HIDE DEF S
  <2>5. Nat \subseteq S
    BY <2>3, <2>4, Induction
  <2>6. n \in 1 .. n
    BY <1>0, <1>2
  <2> QED
    BY <1>0, <2>2, <2>5, <2>6 DEF S
<1> QED
  BY <1>1, <1>2

-----------------------------------------------------------------------------
(* LevelWatch: which event the two goroutines are at.                       *)

Calm == {"write", "other"}
Quiet(s) == \A i \in 1 .. Len(s) : s[i] \in Calm
OneOf(s, e) == \E i \in 1 .. Len(s) :
    s[i] = e /\ \A j \in 1 .. Len(s) : j # i => s[j] \in Calm

\* An event at the end of the queue, and one taken from it.
LEMMA QueueGrows ==
    ASSUME NEW D, NEW s \in Seq(D), NEW e \in D
    PROVE  /\ Quiet(s) => OneOf(Append(s, e), e)
           /\ Quiet(s) /\ e \in Calm => Quiet(Append(s, e))
           /\ \A x : OneOf(s, x) /\ e \in Calm => OneOf(Append(s, e), x)
<1>1. /\ Append(s, e) \in Seq(D) /\ Len(Append(s, e)) = Len(s) + 1
      /\ \A i \in 1 .. Len(s) : Append(s, e)[i] = s[i]
      /\ Append(s, e)[Len(s) + 1] = e /\ Len(s) \in Nat
  BY AppendProperties
<1> DEFINE t == Append(s, e)
<1>2. \A i \in 1 .. Len(t) : i = Len(s) + 1 \/ i \in 1 .. Len(s)
  BY <1>1
<1>3. \A i \in 1 .. Len(s) : i \in 1 .. Len(t) /\ i # Len(s) + 1
  BY <1>1
<1>4. Len(s) + 1 \in 1 .. Len(t)
  BY <1>1
<1> HIDE DEF t
<1>5. /\ \A i \in 1 .. Len(s) : t[i] = s[i]
      /\ t[Len(s) + 1] = e
  BY <1>1 DEF t
<1>6. Quiet(s) => OneOf(t, e)
  BY <1>2, <1>4, <1>5 DEF Quiet, OneOf
<1>7. Quiet(s) /\ e \in Calm => Quiet(t)
  BY <1>2, <1>5 DEF Quiet
<1>8. ASSUME NEW x, OneOf(s, x), e \in Calm PROVE OneOf(t, x)
  <2>1. PICK i \in 1 .. Len(s) :
            s[i] = x /\ \A j \in 1 .. Len(s) : j # i => s[j] \in Calm
    BY <1>8 DEF OneOf
  <2>2. t[i] = x /\ i \in 1 .. Len(t)
    BY <2>1, <1>3, <1>5
  <2>3. \A j \in 1 .. Len(t) : j # i => t[j] \in Calm
    BY <2>1, <1>2, <1>5, <1>8
  <2> QED
    BY <2>2, <2>3 DEF OneOf
<1> QED
  BY <1>6, <1>7, <1>8 DEF t

LEMMA QueueShrinks ==
    ASSUME NEW D, NEW s \in Seq(D), s # <<>>
    PROVE  /\ Tail(s) \in Seq(D) /\ Head(s) \in D
           /\ Quiet(s) => Head(s) \in Calm /\ Quiet(Tail(s))
           /\ \A x : OneOf(s, x) => \/ Head(s) = x /\ Quiet(Tail(s))
                                    \/ Head(s) \in Calm /\ OneOf(Tail(s), x)
<1>1. /\ Tail(s) \in Seq(D) /\ Len(Tail(s)) = Len(s) - 1 /\ Head(s) = s[1]
      /\ \A i \in 1 .. Len(Tail(s)) : Tail(s)[i] = s[i + 1]
      /\ Len(s) \in Nat /\ Len(s) # 0 /\ Head(s) \in D
  BY HeadTailProperties, EmptySeq
<1> DEFINE t == Tail(s)
<1>2. \A i \in 1 .. Len(t) : i + 1 \in 1 .. Len(s) /\ i + 1 # 1
  BY <1>1
<1>3. 1 \in 1 .. Len(s)
  BY <1>1
<1>4. \A i \in 1 .. Len(s) : i # 1 => i - 1 \in 1 .. Len(t) /\ (i - 1) + 1 = i
  BY <1>1
<1> HIDE DEF t
<1>5. \A i \in 1 .. Len(t) : t[i] = s[i + 1]
  BY <1>1 DEF t
<1>6. Quiet(s) => s[1] \in Calm /\ Quiet(t)
  BY <1>2, <1>3, <1>5 DEF Quiet
<1>7. ASSUME NEW x, OneOf(s, x)
      PROVE  \/ s[1] = x /\ Quiet(t)
             \/ s[1] \in Calm /\ OneOf(t, x)
  <2>1. PICK i \in 1 .. Len(s) :
            s[i] = x /\ \A j \in 1 .. Len(s) : j # i => s[j] \in Calm
    BY <1>7 DEF OneOf
  <2>2. CASE i = 1
    <3>1. \A j \in 1 .. Len(t) : s[j + 1] \in Calm
      BY <2>1, <2>2, <1>2
    <3>2. Quiet(t)
      BY <3>1, <1>5 DEF Quiet
    <3>3. s[1] = x
      BY <2>1, <2>2
    <3> QED
      BY <3>2, <3>3
  <2>3. CASE i # 1
    <3>1. s[1] \in Calm
      BY <2>1, <2>3, <1>3
    <3>2. i - 1 \in 1 .. Len(t) /\ t[i - 1] = x
      BY <2>1, <2>3, <1>4, <1>5
    <3>3. \A j \in 1 .. Len(t) : j # i - 1 => j + 1 # i
      OBVIOUS
    <3>4. \A j \in 1 .. Len(t) : j # i - 1 => t[j] \in Calm
      BY <2>1, <3>3, <1>2, <1>5
    <3> QED
      BY <3>1, <3>2, <3>4 DEF OneOf
  <2> QED
    BY <2>2, <2>3
<1> QED
  BY <1>1, <1>6, <1>7 DEF t

\* What has been printed: errors only, the line at the threshold too, or both.
Only(s) == \A i \in DOMAIN s : s[i] = "error"
AtOnly(s) == \E i \in DOMAIN s :
    s[i] = "at" /\ \A j \in DOMAIN s \ {i} : s[j] = "error"
Both(s) == \E i, j \in DOMAIN s :
    /\ i < j /\ s[i] = "at" /\ s[j] = "info"
    /\ \A k \in DOMAIN s \ {i, j} : s[k] = "error"

LEMMA LinesGrow ==
    ASSUME NEW D, NEW s \in Seq(D), NEW e \in D
    PROVE  /\ Only(s) /\ e = "error" => Only(Append(s, e))
           /\ Only(s) /\ e = "at" => AtOnly(Append(s, e))
           /\ AtOnly(s) /\ e = "error" => AtOnly(Append(s, e))
           /\ AtOnly(s) /\ e = "info" => Both(Append(s, e))
           /\ Both(s) /\ e = "error" => Both(Append(s, e))
<1> DEFINE t == Append(s, e)
           n == Len(s) + 1
<1>1. /\ \A i \in DOMAIN s : i \in DOMAIN t /\ i # n /\ i < n /\ t[i] = s[i]
      /\ n \in DOMAIN t /\ t[n] = e
      /\ \A i \in DOMAIN t : i \in DOMAIN s \/ i = n
  <2>1. /\ t \in Seq(D) /\ Len(t) = Len(s) + 1 /\ Len(s) \in Nat
        /\ \A i \in 1 .. Len(s) : t[i] = s[i]
        /\ t[Len(s) + 1] = e
    BY AppendProperties
  <2>2. DOMAIN s = 1 .. Len(s) /\ DOMAIN t = 1 .. Len(s) + 1
    BY <2>1
  <2> HIDE DEF t
  <2> QED
    BY <2>1, <2>2
<1> HIDE DEF t, n
<1>2. Only(s) /\ e = "error" => Only(t)
  BY <1>1 DEF Only
<1>3. Only(s) /\ e = "at" => AtOnly(t)
  BY <1>1 DEF Only, AtOnly
<1>4. AtOnly(s) /\ e = "error" => AtOnly(t)
  BY <1>1 DEF AtOnly
<1>5. ASSUME AtOnly(s), e = "info" PROVE Both(t)
  <2>1. PICK i \in DOMAIN s : s[i] = "at" /\ \A j \in DOMAIN s \ {i} : s[j] = "error"
    BY <1>5 DEF AtOnly
  <2>2. i \in DOMAIN t /\ n \in DOMAIN t /\ i < n /\ t[i] = "at" /\ t[n] = "info"
    BY <1>1, <1>5, <2>1
  <2>3. \A k \in DOMAIN t \ {i, n} : t[k] = "error"
    BY <1>1, <2>1
  <2> QED
    BY <2>2, <2>3 DEF Both
<1>6. ASSUME Both(s), e = "error" PROVE Both(t)
  <2>1. PICK i, j \in DOMAIN s :
            /\ i < j /\ s[i] = "at" /\ s[j] = "info"
            /\ \A k \in DOMAIN s \ {i, j} : s[k] = "error"
    BY <1>6 DEF Both
  <2>2. i \in DOMAIN t /\ j \in DOMAIN t /\ i < j /\ t[i] = "at" /\ t[j] = "info"
    BY <1>1, <2>1
  <2>3. \A k \in DOMAIN t \ {i, j} : t[k] = "error"
    BY <1>1, <1>6, <2>1
  <2> QED
    BY <2>2, <2>3 DEF Both
<1> QED
  BY <1>2, <1>3, <1>4, <1>5, <1>6 DEF t

LevelInv ==
    /\ Level!TypeOK
    /\ original = "info" /\ (watch = "start" => level = "info")
    /\ closed => main = "returned"
    /\ ~meddled =>
          /\ main # "fatal" /\ (file <=> main \in {"wait on", "on"})
          /\ main = "create" =>
                Quiet(events) /\ level = "info" /\ watch \in {"start", "select"}
          /\ main = "wait on" =>
                \/ /\ OneOf(events, "create") /\ level = "info"
                   /\ watch \in {"start", "select"}
                \/ Quiet(events) /\ level = "debug" /\ watch = "ready"
          /\ main = "on" => Quiet(events) /\ level = "debug" /\ watch = "select"
          /\ main = "wait off" =>
                \/ OneOf(events, "remove") /\ level = "debug" /\ watch = "select"
                \/ Quiet(events) /\ level = "info" /\ watch = "ready"
          /\ main \in {"off", "close", "returned"} =>
                Quiet(events) /\ level = "info" /\ watch \in {"select", "exited"}
          /\ main \in {"create", "wait on", "on"} => Only(out)
          /\ main \in {"wait off", "off"} => AtOnly(out)
          /\ main \in {"close", "returned"} => Both(out)

LEMMA LevelInit == Level!Parameters /\ Level!Init => LevelInv
<1> SUFFICES ASSUME Level!Parameters, Level!Init PROVE LevelInv
  OBVIOUS
<1>1. events = <<>> /\ out = <<>> /\ Len(events) = 0 /\ DOMAIN out = {}
  BY DEF Level!Init
<1>2. Quiet(events) /\ Only(out)
  BY <1>1 DEF Quiet, Only
<1>3. Level!TypeOK
  <2>1. /\ events \in Seq({"create", "remove", "rename", "write", "other"})
        /\ out \in Seq({"at", "below", "info", "error"})
    BY <1>1
  <2>2. others \in 0 .. MaxOthers
    BY DEF Level!Init, Level!Parameters
  <2>3. file \in BOOLEAN /\ closed \in BOOLEAN /\ meddled \in BOOLEAN
    BY Zenon DEF Level!Init
  <2>4. /\ main \in {"create", "wait on", "on", "wait off", "off", "close",
                    "returned", "fatal"}
        /\ watch \in {"start", "select", "ready", "exited"}
        /\ level \in {"info", "debug"} /\ original \in {"info", "debug"}
    BY DEF Level!Init
  <2> QED
    BY <2>1, <2>2, <2>3, <2>4, Zenon DEF Level!TypeOK
<1> QED
  BY <1>2, <1>3 DEF Level!Init, LevelInv

\* OutputAsExpected in these words.
LEMMA LevelOutput == LevelInv => Level!OutputAsExpected
<1>1. Only(out) => Level!OnlyErrorsBut({})
  BY DEF Only, Level!OnlyErrorsBut
<1>2. AtOnly(out) => Level!AtThreshold
  BY DEF AtOnly, Level!AtThreshold, Level!OnlyErrorsBut
<1>3. Both(out) => Level!AllLines
  BY DEF Both, Level!AllLines, Level!OnlyErrorsBut
<1> QED
  BY <1>1, <1>2, <1>3 DEF LevelInv, Level!TypeOK, Level!OutputAsExpected

LEMMA LevelTypes ==
    ASSUME Level!Parameters, Level!TypeOK, [Level!Next]_(Level!vars) PROVE Level!TypeOK'
<1> DEFINE Event == {"create", "remove", "rename", "write", "other"}
           Line == {"at", "below", "info", "error"}
<1>0. /\ main \in {"create", "wait on", "on", "wait off", "off", "close",
                   "returned", "fatal"}
      /\ watch \in {"start", "select", "ready", "exited"}
      /\ file \in BOOLEAN /\ closed \in BOOLEAN /\ meddled \in BOOLEAN
      /\ events \in Seq(Event)
      /\ level \in {"info", "debug"} /\ original \in {"info", "debug"}
      /\ out \in Seq(Line)
      /\ others \in 0 .. MaxOthers /\ MaxOthers \in Nat
  BY DEF Level!TypeOK, Level!Parameters
<1>00. others \in 0 .. MaxOthers /\ MaxOthers \in Nat
  BY <1>0
<1>1. \A e \in Event : Append(events, e) \in Seq(Event)
  BY <1>0, AppendProperties
<1>2. \A e \in Line : Append(out, e) \in Seq(Line)
  BY <1>0, AppendProperties
<1>3. events # <<>> => Tail(events) \in Seq(Event) /\ Head(events) \in Event
  BY <1>0, QueueShrinks
<1> HIDE DEF Event, Line
<1>4. /\ "create" \in Event /\ "remove" \in Event /\ "rename" \in Event
      /\ "write" \in Event /\ "other" \in Event
      /\ "at" \in Line /\ "below" \in Line /\ "info" \in Line /\ "error" \in Line
  BY DEF Event, Line
<1>5. SUFFICES
        /\ main' \in {"create", "wait on", "on", "wait off", "off", "close",
                      "returned", "fatal"}
        /\ watch' \in {"start", "select", "ready", "exited"}
        /\ file' \in BOOLEAN /\ closed' \in BOOLEAN /\ meddled' \in BOOLEAN
        /\ events' \in Seq(Event)
        /\ level' \in {"info", "debug"} /\ original' \in {"info", "debug"}
        /\ out' \in Seq(Line)
        /\ others' \in 0 .. MaxOthers
  BY DEF Level!TypeOK, Event, Line
<1>6. \A e \in {"info", "error", "at", "below"} : e \in Line
  BY <1>4
<1> USE DEF Level!mainVars, Level!watchVars, Level!otherVars
<1>7. CASE Level!CreateFile
  <2>1. out' \in Seq(Line)
    BY <1>0, <1>2, <1>4, <1>7 DEF Level!CreateFile, Level!Debug
  <2>2. events' \in Seq(Event)
    BY <1>0, <1>1, <1>4, <1>7 DEF Level!CreateFile
  <2> QED
    BY <2>1, <2>2, <1>0, <1>7 DEF Level!CreateFile
<1>8. CASE Level!RemoveFile
  <2>1. out' \in Seq(Line)
    BY <1>0, <1>2, <1>4, <1>8 DEF Level!RemoveFile, Level!Debug
  <2>2. events' \in Seq(Event)
    BY <1>0, <1>1, <1>4, <1>8 DEF Level!RemoveFile
  <2> QED
    BY <2>1, <2>2, <1>0, <1>8 DEF Level!RemoveFile
<1>9. CASE Level!LogOff
  <2>1. \A s \in Seq(Line) : s \o <<"info">> \in Seq(Line)
    BY <1>4
  <2>2. out' \in Seq(Line)
    BY <2>1, <1>0, <1>2, <1>4, <1>9 DEF Level!LogOff
  <2> QED
    BY <2>2, <1>0, <1>9 DEF Level!LogOff
<1>10. CASE Level!Close
  BY <1>0, <1>10 DEF Level!Close
<1>11. CASE Level!Begin
  BY <1>0, <1>11 DEF Level!Begin
<1>12. CASE Level!HandleEvent
  <2>1. level' \in {"info", "debug"}
    BY <1>0, <1>12 DEF Level!HandleEvent, Level!Level
  <2> QED
    BY <2>1, <1>0, <1>3, <1>12 DEF Level!HandleEvent
<1>13. CASE Level!Ready
  BY <1>0, <1>13 DEF Level!Ready
<1>14. CASE Level!Exit
  BY <1>0, <1>14 DEF Level!Exit
<1>15. ASSUME NEW e \in Event, Level!Others(e), file' \in BOOLEAN
       PROVE  /\ main' \in {"create", "wait on", "on", "wait off", "off", "close",
                            "returned", "fatal"}
              /\ watch' \in {"start", "select", "ready", "exited"}
              /\ file' \in BOOLEAN /\ closed' \in BOOLEAN /\ meddled' \in BOOLEAN
              /\ events' \in Seq(Event)
              /\ level' \in {"info", "debug"} /\ original' \in {"info", "debug"}
              /\ out' \in Seq(Line)
              /\ others' \in 0 .. MaxOthers
  <2>0. others < MaxOthers /\ others' = others + 1
    BY <1>15, Zenon DEF Level!Others
  <2>1. others' \in 0 .. MaxOthers
    BY <2>0, <1>00
  <2>2. meddled' \in BOOLEAN
    BY <1>0, <1>15, Zenon DEF Level!Others
  <2> QED
    BY <2>1, <2>2, <1>0, <1>1, <1>15 DEF Level!Others
<1>16. CASE Level!OthersCreate
  BY <1>4, <1>15, <1>16 DEF Level!OthersCreate
<1>17. CASE Level!OthersRemove
  BY <1>4, <1>15, <1>17 DEF Level!OthersRemove
<1>18. CASE Level!OthersWrite
  BY <1>0, <1>4, <1>15, <1>18 DEF Level!OthersWrite
<1>19. CASE Level!WatchError
  <2>0. others < MaxOthers /\ others' = others + 1
    BY <1>19, Zenon DEF Level!WatchError
  <2>1. others' \in 0 .. MaxOthers
    BY <2>0, <1>00
  <2> QED
    BY <2>1, <1>0, <1>2, <1>4, <1>19 DEF Level!WatchError
<1>20. CASE UNCHANGED Level!vars
  BY <1>0, <1>20 DEF Level!vars
<1> QED
  BY <1>7, <1>8, <1>9, <1>10, <1>11, <1>12, <1>13, <1>14, <1>16, <1>17, <1>18,
     <1>19, <1>20 DEF Level!Next, Level!MainNext, Level!WatchNext

LEMMA LevelStep ==
    ASSUME Level!Parameters, LevelInv, [Level!Next]_(Level!vars) PROVE LevelInv'
<1> DEFINE Event == {"create", "remove", "rename", "write", "other"}
           Line == {"at", "below", "info", "error"}
<1>1. Level!TypeOK' /\ Level!TypeOK
  BY LevelTypes DEF LevelInv
<1>2. /\ \A e \in Event :
            /\ Quiet(events) => OneOf(Append(events, e), e)
            /\ Quiet(events) /\ e \in Calm => Quiet(Append(events, e))
            /\ \A x : OneOf(events, x) /\ e \in Calm =>
                          OneOf(Append(events, e), x)
      /\ events # <<>> =>
            /\ Quiet(events) => Head(events) \in Calm /\ Quiet(Tail(events))
            /\ \A x : OneOf(events, x) =>
                          \/ Head(events) = x /\ Quiet(Tail(events))
                          \/ Head(events) \in Calm /\ OneOf(Tail(events), x)
  BY <1>1, QueueGrows, QueueShrinks DEF Level!TypeOK
<1>3. /\ Only(out) => AtOnly(Append(out, "at"))
      /\ AtOnly(out) => Both(Append(out, "info"))
      /\ Only(out) => Only(Append(out, "error"))
      /\ AtOnly(out) => AtOnly(Append(out, "error"))
      /\ Both(out) => Both(Append(out, "error"))
      /\ out \o <<"info">> = Append(out, "info")
  <2>1. out \in Seq(Line)
    BY <1>1 DEF Level!TypeOK
  <2>2. "at" \in Line /\ "error" \in Line /\ "info" \in Line
    OBVIOUS
  <2>3. out \o <<"info">> = Append(out, "info")
    BY <2>1
  <2> HIDE DEF Line
  <2> QED
    BY <2>1, <2>2, <2>3, LinesGrow
<1>4. /\ "create" \in Event /\ "remove" \in Event /\ "write" \in Event
      /\ "other" \in Event
  OBVIOUS
<1>5. /\ "write" \in Calm /\ "other" \in Calm
      /\ "create" \notin Calm /\ "remove" \notin Calm
      /\ \A e \in Calm : e # "create" /\ e # "remove"
  BY DEF Calm
<1> HIDE DEF Event, Line
<1>6. SUFFICES
        /\ original' = "info" /\ (watch' = "start" => level' = "info")
        /\ closed' => main' = "returned"
        /\ ~meddled' =>
          /\ main' # "fatal" /\ (file' <=> main' \in {"wait on", "on"})
          /\ main' = "create" =>
                Quiet(events') /\ level' = "info" /\ watch' \in {"start", "select"}
          /\ main' = "wait on" =>
                \/ /\ OneOf(events', "create") /\ level' = "info"
                   /\ watch' \in {"start", "select"}
                \/ Quiet(events') /\ level' = "debug" /\ watch' = "ready"
          /\ main' = "on" =>
                Quiet(events') /\ level' = "debug" /\ watch' = "select"
          /\ main' = "wait off" =>
                \/ OneOf(events', "remove") /\ level' = "debug" /\ watch' = "select"
                \/ Quiet(events') /\ level' = "info" /\ watch' = "ready"
          /\ main' \in {"off", "close", "returned"} =>
                Quiet(events') /\ level' = "info" /\ watch' \in {"select", "exited"}
          /\ main' \in {"create", "wait on", "on"} => Only(out')
          /\ main' \in {"wait off", "off"} => AtOnly(out')
          /\ main' \in {"close", "returned"} => Both(out')
  BY <1>1, Zenon DEF LevelInv
<1> USE DEF Level!mainVars, Level!watchVars, Level!otherVars, LevelInv
<1>7. CASE Level!CreateFile
  BY <1>2, <1>4, <1>7 DEF Level!CreateFile, Level!Debug
<1>8. CASE Level!RemoveFile
  BY <1>2, <1>3, <1>4, <1>8 DEF Level!RemoveFile, Level!Debug
<1>9. CASE Level!LogOff
  BY <1>3, <1>9 DEF Level!LogOff
<1>10. CASE Level!Close
  BY <1>10 DEF Level!Close
<1>11. CASE Level!Begin
  BY <1>11 DEF Level!Begin
<1>12. CASE Level!HandleEvent
  <2>1. events # <<>> /\ watch = "select" /\ level' = Level!Level(Head(events))
    BY <1>12 DEF Level!HandleEvent
  <2>2. Head(events) \in Calm => level' = level /\ watch' = "select"
    BY <1>5, <1>12, <2>1 DEF Level!HandleEvent, Level!Level, Level!Told
  <2>3. Head(events) = "create" => level' = "debug" /\ watch' = "ready"
    BY <1>12, <2>1 DEF Level!HandleEvent, Level!Level, Level!Told
  <2>4. Head(events) = "remove" => level' = "info" /\ watch' = "ready"
    BY <1>12, <2>1 DEF Level!HandleEvent, Level!Level, Level!Told
  <2>5. watch' # "start"
    BY <1>12 DEF Level!HandleEvent
  <2>6. /\ main' = main /\ (file' <=> file) /\ out' = out
        /\ (meddled' <=> meddled) /\ original' = original
        /\ (closed' <=> closed) /\ events' = Tail(events)
    BY <1>12, Zenon DEF Level!HandleEvent
  <2> QED
    BY <1>2, <2>1, <2>2, <2>3, <2>4, <2>5, <2>6
<1>13. CASE Level!Ready
  BY <1>13 DEF Level!Ready
<1>14. CASE Level!Exit
  BY <1>14 DEF Level!Exit
<1>15. CASE Level!OthersCreate
  BY <1>15 DEF Level!OthersCreate, Level!Others
<1>16. CASE Level!OthersRemove
  <2>1. meddled' /\ UNCHANGED <<watch, original, level, closed, main>>
    BY <1>16, Zenon DEF Level!OthersRemove, Level!Others
  <2> QED
    BY <2>1
<1>17. CASE Level!OthersWrite
  <2>1. PICK e \in {"other", "write"} : Level!Others(e)
    BY <1>17 DEF Level!OthersWrite
  <2>2. e \in Event /\ e \in Calm /\ e \notin {"create", "remove", "rename"}
    BY <1>4, <1>5
  <2>3. /\ main' = main /\ watch' = watch /\ level' = level
        /\ original' = original /\ out' = out
        /\ (closed' <=> closed) /\ (file' <=> file)
        /\ events' = Append(events, e)
    BY <2>1, <1>17, Zenon DEF Level!Others, Level!OthersWrite
  <2>4. meddled => meddled'
    BY <2>1, Zenon DEF Level!Others
  <2> QED
    BY <2>2, <2>3, <2>4, <1>2
<1>18. CASE Level!WatchError
  BY <1>3, <1>18 DEF Level!WatchError
<1>19. CASE UNCHANGED Level!vars
  BY <1>19 DEF Level!vars
<1> QED
  BY <1>7, <1>8, <1>9, <1>10, <1>11, <1>12, <1>13, <1>14, <1>15, <1>16, <1>17,
     <1>18, <1>19 DEF Level!Next, Level!MainNext, Level!WatchNext

-----------------------------------------------------------------------------
(* LogWriters: what each caller has written, and who has the lock.          *)

LEMMA EntryAdded ==
    ASSUME NEW D, NEW s \in Seq(D), NEW x \in D
    PROVE  /\ Append(s, x) \in Seq(D)
           /\ Log!Contains(Append(s, x), x)
           /\ \A a : Log!Contains(s, a) => Log!Contains(Append(s, x), a)
           /\ \A a : Log!Contains(Append(s, x), a) => Log!Contains(s, a) \/ a = x
           /\ \A a, b : Log!Before(Append(s, x), a, b) =>
                  Log!Before(s, a, b) \/ (b = x /\ Log!Contains(s, a))
<1> DEFINE t == Append(s, x)
           n == Len(s) + 1
<1>1. /\ t \in Seq(D) /\ n \in 1 .. Len(t) /\ t[n] = x
      /\ \A i \in 1 .. Len(s) : i \in 1 .. Len(t) /\ t[i] = s[i]
      /\ \A i \in 1 .. Len(t) : i \in 1 .. Len(s) \/ i = n
      /\ \A i \in 1 .. Len(t) : \A j \in 1 .. Len(t) :
            i < j => i \in 1 .. Len(s)
      /\ DOMAIN s = 1 .. Len(s) /\ DOMAIN t = 1 .. Len(t)
  <2>1. /\ t \in Seq(D) /\ Len(t) = Len(s) + 1 /\ Len(s) \in Nat
        /\ \A i \in 1 .. Len(s) : t[i] = s[i]
        /\ t[Len(s) + 1] = x
    BY AppendProperties
  <2>2. DOMAIN s = 1 .. Len(s) /\ DOMAIN t = 1 .. Len(t)
    BY <2>1
  <2> HIDE DEF t
  <2> QED
    BY <2>1, <2>2
<1> HIDE DEF t, n
<1>2. Log!Contains(t, x)
  BY <1>1 DEF Log!Contains
<1>3. \A a : Log!Contains(s, a) => Log!Contains(t, a)
  BY <1>1 DEF Log!Contains
<1>4. \A a : Log!Contains(t, a) => Log!Contains(s, a) \/ a = x
  BY <1>1 DEF Log!Contains
<1>5. ASSUME NEW a, NEW b, Log!Before(t, a, b)
      PROVE  Log!Before(s, a, b) \/ (b = x /\ Log!Contains(s, a))
  <2>1. PICK i, j \in 1 .. Len(t) : i < j /\ t[i] = a /\ t[j] = b
    BY <1>1, <1>5 DEF Log!Before
  <2>2. i \in 1 .. Len(s) /\ s[i] = a
    BY <1>1, <2>1
  <2>3. CASE j \in 1 .. Len(s)
    BY <1>1, <2>1, <2>2, <2>3 DEF Log!Before
  <2>4. CASE j = n
    BY <1>1, <2>1, <2>2, <2>4 DEF Log!Contains
  <2> QED
    BY <1>1, <2>3, <2>4
<1> QED
  BY <1>1, <1>2, <1>3, <1>4, <1>5 DEF t

\* Where caller c is in the writers of its logger.
Progress(c) ==
    LET ws == writers[LoggerOf[c]] IN
    /\ next[c] <= Len(ws)
    /\ caller[c] = "returned" => next[c] = Len(ws)
    /\ \A i \in 1 .. next[c] : Log!Contains(written[ws[i]], c) \/ ws[i] \in err[c]

LogInv ==
    /\ Log!TypeOK
    /\ writers = [l \in Loggers |-> Log!Flattened(Arguments[l])]
    /\ \A c \in Callers : Progress(c)
    /\ \A c \in Callers : caller[c] = "writing" <=> lock[LoggerOf[c]] = c
    /\ \A w \in Writers : \A c \in Callers :
          Log!Contains(written[w], c) => caller[c] # "idle"
    /\ \A w \in Writers : \A c, d \in Callers :
          c # d /\ LoggerOf[c] = LoggerOf[d] /\ Log!Before(written[w], c, d) =>
              caller[c] = "returned"
    /\ Log!SameOrder

LEMMA FunctionIsSeq ==
    ASSUME NEW D, NEW n \in Nat, NEW f \in [1 .. n -> D]
    PROVE  f \in Seq(D) /\ Len(f) = n
<1>1. f \in Seq(D)
  BY SeqDef
<1>2. DOMAIN f = 1 .. n /\ DOMAIN f = 1 .. Len(f) /\ Len(f) \in Nat
  BY <1>1, LenProperties
<1>3. n = Len(f)
  BY <1>2
<1> QED
  BY <1>1, <1>3

\* The writers of a logger, one sequence for each argument.
LEMMA FlattenedWriters ==
    ASSUME Log!Parameters, NEW l \in Loggers
    PROVE  /\ Log!Flattened(Arguments[l]) \in Seq(Writers)
           /\ Log!Given(l) \subseteq Log!ToSet(Log!Flattened(Arguments[l]))
<1> DEFINE as == Arguments[l]
           ss == [i \in DOMAIN as |-> Log!WritersOf(as[i])]
<1>1. as \in Seq(Log!Single \cup Log!Multi)
  BY DEF Log!Parameters
<1>2. DOMAIN as = 1 .. Len(as) /\ Len(as) \in Nat
  BY <1>1
<1>3. \A i \in 1 .. Len(as) : as[i] \in Log!Single \cup Log!Multi
  BY <1>1
<1> HIDE DEF as
<1>4. ASSUME NEW a \in Log!Single \cup Log!Multi PROVE Log!WritersOf(a) \in Seq(Writers)
  <2>1. CASE a \in Log!Single
    <3>1. a.kind = "single" /\ a.writer \in Writers
      BY <2>1 DEF Log!Single
    <3>2. Log!WritersOf(a) = <<a.writer>>
      BY <3>1 DEF Log!WritersOf
    <3> QED
      BY <3>1, <3>2
  <2>2. CASE a \in Log!Multi
    <3>1. a.kind = "multi" /\ a.writers \in Seq(Writers)
      BY <2>2 DEF Log!Multi
    <3> QED
      BY <3>1 DEF Log!WritersOf
  <2> QED
    BY <2>1, <2>2
<1>5. ss \in Seq(Seq(Writers)) /\ Len(ss) = Len(as)
  <2>1. ss \in [1 .. Len(as) -> Seq(Writers)]
    BY <1>2, <1>3, <1>4
  <2> HIDE DEF ss
  <2> QED
    BY <2>1, <1>2, FunctionIsSeq
<1>6. \A i \in DOMAIN as : ss[i] = Log!WritersOf(as[i])
  OBVIOUS
<1> HIDE DEF ss
<1>7. /\ Log!FlattenSeq(ss) \in Seq(Writers)
      /\ \A i \in 1 .. Len(ss) :
            Log!ToSet(ss[i]) \subseteq Log!ToSet(Log!FlattenSeq(ss))
  BY <1>5, FlattenFacts
<1>8. Log!Flattened(as) = Log!FlattenSeq(ss)
  BY DEF Log!Flattened, ss
<1>9. \A i \in DOMAIN as :
          Log!ToSet(Log!WritersOf(as[i])) \subseteq Log!ToSet(Log!Flattened(as))
  BY <1>2, <1>5, <1>6, <1>7, <1>8
<1>10. Log!Given(l) = UNION {Log!ToSet(Log!WritersOf(as[i])) : i \in DOMAIN as}
  BY DEF Log!Given, as
<1> QED
  BY <1>7, <1>8, <1>9, <1>10 DEF as

LEMMA LogInit == Log!Parameters /\ Log!Init => LogInv
<1> SUFFICES ASSUME Log!Parameters, Log!Init PROVE LogInv
  OBVIOUS
<1>1. /\ LoggerOf \in [Callers -> Loggers] /\ Log!None \notin Callers
      /\ MaxFailures \in Nat
  BY DEF Log!Parameters
<1>2. writers = [l \in Loggers |-> Log!Flattened(Arguments[l])]
  BY DEF Log!Init
<1>3. writers \in [Loggers -> Seq(Writers)]
  BY <1>2, FlattenedWriters
<1>4. \A w \in Writers : written[w] = <<>>
  BY DEF Log!Init
<1>5. /\ \A c : ~Log!Contains(<<>>, c)
      /\ \A c, d : ~Log!Before(<<>>, c, d)
      /\ <<>> \in Seq(Callers)
  BY DEF Log!Contains, Log!Before
<1>6. Log!TypeOK
  <2>1. written \in [Writers -> Seq(Callers)]
    BY <1>5 DEF Log!Init
  <2> QED
    BY <1>1, <1>3, <2>1 DEF Log!Init, Log!TypeOK
<1>7. ASSUME NEW c \in Callers
      PROVE  Progress(c) /\ (caller[c] = "writing" <=> lock[LoggerOf[c]] = c)
  <2>1. next[c] = 0 /\ caller[c] = "idle" /\ lock[LoggerOf[c]] = Log!None
    BY <1>1 DEF Log!Init
  <2>2. Len(writers[LoggerOf[c]]) \in Nat
    BY <1>1, <1>3, LenProperties
  <2> QED
    BY <1>1, <2>1, <2>2 DEF Progress
<1>8. Log!SameOrder
  BY <1>4, <1>5 DEF Log!SameOrder
<1> QED
  BY <1>2, <1>4, <1>5, <1>6, <1>7, <1>8 DEF LogInv

\* Sustains, from what the callers have written.
LEMMA LogSustains == Log!Parameters /\ LogInv => Log!Sustains
<1> SUFFICES ASSUME Log!Parameters, LogInv, NEW c \in Callers,
                    caller[c] = "returned", NEW w \in Log!Given(LoggerOf[c])
             PROVE  Log!Contains(written[w], c) \/ w \in err[c]
  BY DEF Log!Sustains
<1> DEFINE ws == writers[LoggerOf[c]]
<1>1. LoggerOf[c] \in Loggers
  BY DEF Log!Parameters
<1>2. ws = Log!Flattened(Arguments[LoggerOf[c]])
  BY <1>1 DEF LogInv
<1>3. w \in Log!ToSet(ws) /\ ws \in Seq(Writers)
  BY <1>1, <1>2, FlattenedWriters
<1> HIDE DEF ws
<1>4. PICK i \in 1 .. Len(ws) : ws[i] = w
  BY <1>3 DEF Log!ToSet
<1>5. next[c] = Len(ws)
  BY DEF LogInv, Progress, ws
<1> QED
  BY <1>4, <1>5 DEF LogInv, Progress, ws

\* The lock is taken.
LEMMA LogOutput ==
    ASSUME Log!Parameters, LogInv, NEW x \in Callers, Log!Output(x) PROVE LogInv'
<1>1. /\ LoggerOf \in [Callers -> Loggers] /\ Log!None \notin Callers
      /\ Log!TypeOK
  BY DEF Log!Parameters, LogInv
<1>2. /\ caller[x] = "idle" /\ lock[LoggerOf[x]] = Log!None
      /\ lock' = [lock EXCEPT ![LoggerOf[x]] = x]
      /\ caller' = [caller EXCEPT ![x] = "writing"]
      /\ writers' = writers /\ next' = next /\ err' = err /\ written' = written
      /\ failures' = failures
  BY DEF Log!Output, Log!Free
<1>3. Log!TypeOK'
  BY <1>1, <1>2 DEF Log!TypeOK
<1>4. \A c \in Callers : Progress(c)'
  BY <1>1, <1>2 DEF LogInv, Progress, Log!TypeOK
<1>5. \A c \in Callers : caller'[c] = "writing" <=> lock'[LoggerOf[c]] = c
  BY <1>1, <1>2 DEF LogInv, Log!TypeOK
<1>6. \A w \in Writers : \A c \in Callers :
          Log!Contains(written[w], c) => caller'[c] # "idle"
  BY <1>1, <1>2 DEF LogInv, Log!TypeOK
<1>7. \A w \in Writers : \A c, d \in Callers :
          c # d /\ LoggerOf[c] = LoggerOf[d] /\ Log!Before(written[w], c, d) =>
              caller'[c] = "returned"
  BY <1>1, <1>2 DEF LogInv, Log!TypeOK
<1>8. Log!SameOrder'
  BY <1>2, Zenon DEF LogInv, Log!SameOrder
<1> QED
  BY <1>2, <1>3, <1>4, <1>5, <1>6, <1>7, <1>8 DEF LogInv

\* The lock is given back.
LEMMA LogReturn ==
    ASSUME Log!Parameters, LogInv, NEW x \in Callers, Log!Return(x) PROVE LogInv'
<1>1. /\ LoggerOf \in [Callers -> Loggers] /\ Log!None \notin Callers
      /\ Log!TypeOK
  BY DEF Log!Parameters, LogInv
<1>2. /\ caller[x] = "writing" /\ next[x] = Len(writers[LoggerOf[x]])
      /\ lock' = [lock EXCEPT ![LoggerOf[x]] = Log!None]
      /\ caller' = [caller EXCEPT ![x] = "returned"]
      /\ writers' = writers /\ next' = next /\ err' = err /\ written' = written
      /\ failures' = failures
  BY DEF Log!Return
<1>3. Log!TypeOK'
  BY <1>1, <1>2 DEF Log!TypeOK
<1>4. \A c \in Callers : Progress(c)'
  BY ZenonT(60), <1>1, <1>2 DEF LogInv, Progress, Log!TypeOK
<1>5. \A c \in Callers : caller'[c] = "writing" <=> lock'[LoggerOf[c]] = c
  BY <1>1, <1>2 DEF LogInv, Log!TypeOK
<1>6. \A w \in Writers : \A c \in Callers :
          Log!Contains(written[w], c) => caller'[c] # "idle"
  BY <1>1, <1>2 DEF LogInv, Log!TypeOK
<1>7. \A w \in Writers : \A c, d \in Callers :
          c # d /\ LoggerOf[c] = LoggerOf[d] /\ Log!Before(written[w], c, d) =>
              caller'[c] = "returned"
  BY <1>1, <1>2 DEF LogInv, Log!TypeOK
<1>8. Log!SameOrder'
  BY <1>2, Zenon DEF LogInv, Log!SameOrder
<1> QED
  BY <1>2, <1>3, <1>4, <1>5, <1>6, <1>7, <1>8 DEF LogInv

\* A writer takes the entry of the caller that has the lock, or fails.
LEMMA LogWrite ==
    ASSUME Log!Parameters, LogInv, NEW x \in Callers, Log!WriteNext(x) PROVE LogInv'
<1> DEFINE ws == writers[LoggerOf[x]]
           w == ws[next[x] + 1]
<1>1. /\ LoggerOf \in [Callers -> Loggers] /\ Log!None \notin Callers
      /\ MaxFailures \in Nat /\ Log!TypeOK
  BY DEF Log!Parameters, LogInv
<1>2. /\ caller[x] = "writing" /\ next[x] < Len(ws)
      /\ writers' = writers /\ lock' = lock /\ caller' = caller
      /\ next' = [next EXCEPT ![x] = next[x] + 1]
      /\ \/ /\ written' = [written EXCEPT ![w] = Append(written[w], x)]
            /\ err' = err /\ failures' = failures
         \/ /\ failures < MaxFailures /\ failures' = failures + 1
            /\ err' = [err EXCEPT ![x] = err[x] \cup {w}]
            /\ written' = written
  BY <1>1 DEF Log!WriteNext, Log!AfterFailure, Log!TypeOK
<1>3. /\ ws \in Seq(Writers) /\ next[x] \in Nat /\ Len(ws) \in Nat
      /\ w \in Writers /\ next[x] + 1 \in 1 .. Len(ws)
  <2>1. ws \in Seq(Writers) /\ next[x] \in Nat
    BY <1>1 DEF Log!TypeOK
  <2>2. Len(ws) \in Nat
    BY <2>1, LenProperties
  <2>3. next[x] + 1 \in 1 .. Len(ws)
    <3> DEFINE k == next[x]
               l == Len(ws)
    <3>1. k \in Nat /\ l \in Nat /\ k < l
      BY <1>2, <2>1, <2>2
    <3> HIDE DEF k, l
    <3>2. k + 1 \in 1 .. l
      BY <3>1
    <3> QED
      BY <3>2 DEF k, l
  <2>4. w \in Writers
    BY <2>1, <2>3, ElementOfSeq
  <2> QED
    BY <2>1, <2>2, <2>3, <2>4
<1> HIDE DEF ws, w
<1>4. /\ written' \in [Writers -> Seq(Callers)]
      /\ \A v \in Writers : \A a : Log!Contains(written[v], a) =>
            Log!Contains(written'[v], a)
      /\ \A v \in Writers : \A a : Log!Contains(written'[v], a) =>
            Log!Contains(written[v], a) \/ a = x
      /\ \A v \in Writers : \A a, b : Log!Before(written'[v], a, b) =>
            Log!Before(written[v], a, b) \/ (b = x /\ Log!Contains(written[v], a))
  <2>1. written \in [Writers -> Seq(Callers)]
    BY <1>1 DEF Log!TypeOK
  <2>2. ASSUME NEW v \in Writers
        PROVE  written'[v] = written[v] \/ written'[v] = Append(written[v], x)
    BY <1>2, <1>3, <2>1
  <2>3. ASSUME NEW v \in Writers
        PROVE  /\ written'[v] \in Seq(Callers)
               /\ \A a : Log!Contains(written[v], a) => Log!Contains(written'[v], a)
               /\ \A a : Log!Contains(written'[v], a) =>
                     Log!Contains(written[v], a) \/ a = x
               /\ \A a, b : Log!Before(written'[v], a, b) =>
                     Log!Before(written[v], a, b) \/ (b = x /\ Log!Contains(written[v], a))
    <3>1. written[v] \in Seq(Callers)
      BY <2>1
    <3>2. CASE written'[v] = written[v]
      BY <3>1, <3>2
    <3>3. CASE written'[v] = Append(written[v], x)
      BY <3>1, <3>3, EntryAdded
    <3> QED
      BY <2>2, <3>2, <3>3
  <2>4. written' \in [Writers -> Seq(Callers)]
    <3>1. written' = [v \in Writers |-> written'[v]]
      BY <1>2, <2>1
    <3> QED
      BY <3>1, <2>3
  <2> QED
    BY <2>3, <2>4
<1>5. /\ err' \in [Callers -> SUBSET Writers]
      /\ \A c \in Callers : err[c] \subseteq err'[c]
      /\ Log!Contains(written'[w], x) \/ w \in err'[x]
  <2>1. /\ written \in [Writers -> Seq(Callers)]
        /\ err \in [Callers -> SUBSET Writers]
    BY <1>1 DEF Log!TypeOK
  <2>2. CASE written' = [written EXCEPT ![w] = Append(written[w], x)] /\ err' = err
    <3>1. written'[w] = Append(written[w], x) /\ written[w] \in Seq(Callers)
      BY <1>3, <2>1, <2>2
    <3> QED
      BY <2>1, <2>2, <3>1, EntryAdded
  <2>3. CASE err' = [err EXCEPT ![x] = err[x] \cup {w}]
    BY <1>3, <2>1, <2>3
  <2> QED
    BY <1>2, <2>2, <2>3
<1>6. Log!TypeOK'
  <2>1. failures' \in 0 .. MaxFailures
    BY <1>1, <1>2 DEF Log!TypeOK
  <2>2. next' \in [Callers -> Nat]
    BY <1>1, <1>2, <1>3 DEF Log!TypeOK
  <2> QED
    BY <1>1, <1>2, <1>4, <1>5, <2>1, <2>2 DEF Log!TypeOK
<1>7. ASSUME NEW c \in Callers PROVE Progress(c)'
  <2> DEFINE cs == writers[LoggerOf[c]]
  <2>1. /\ next[c] <= Len(cs)
        /\ caller[c] = "returned" => next[c] = Len(cs)
        /\ \A i \in 1 .. next[c] :
              Log!Contains(written[cs[i]], c) \/ cs[i] \in err[c]
    BY DEF LogInv, Progress
  <2>2. cs \in Seq(Writers) /\ next[c] \in Nat
    BY <1>1 DEF Log!TypeOK
  <2>3. \A i \in 1 .. next[c] : cs[i] \in Writers
    BY <2>1, <2>2
  <2>4. c = x => cs = ws
    BY DEF ws
  <2>5. w = ws[next[x] + 1]
    BY DEF w
  <2> HIDE DEF cs
  <2>6. \A i \in 1 .. next[c] :
          Log!Contains(written'[cs[i]], c) \/ cs[i] \in err'[c]
    BY <2>1, <2>3, <1>4, <1>5
  <2>7. next'[c] = IF c = x THEN next[x] + 1 ELSE next[c]
    BY <1>1, <1>2 DEF Log!TypeOK
  <2>8. \A i \in 1 .. next'[c] : i \in 1 .. next[c] \/ (c = x /\ i = next[x] + 1)
    BY <2>2, <2>7
  <2>9. next'[c] <= Len(cs) /\ (caller[c] = "returned" => next'[c] = Len(cs))
    BY <1>2, <1>3, <2>1, <2>4, <2>7
  <2>10. \A i \in 1 .. next'[c] :
          Log!Contains(written'[cs[i]], c) \/ cs[i] \in err'[c]
    BY <2>6, <2>8, <2>4, <2>5, <1>5
  <2> QED
    BY <2>9, <2>10, <1>2 DEF Progress, cs
<1>8. lock[LoggerOf[x]] = x
  BY <1>2 DEF LogInv
<1>9. ASSUME NEW v \in Writers, NEW c \in Callers, NEW d \in Callers, c # d,
             LoggerOf[c] = LoggerOf[d], Log!Before(written'[v], c, d)
      PROVE  /\ caller[c] = "returned"
             /\ Log!Before(written[v], c, d) \/ d = x
  <2>1. CASE Log!Before(written[v], c, d)
    BY <1>9, <2>1 DEF LogInv
  <2>2. CASE d = x /\ Log!Contains(written[v], c)
    <3>1. lock[LoggerOf[c]] # c
      BY <1>8, <1>9, <2>2
    <3>2. caller[c] # "writing" /\ caller[c] # "idle"
      BY <2>2, <3>1 DEF LogInv
    <3>3. caller[c] \in {"idle", "writing", "returned"}
      BY <1>1 DEF Log!TypeOK
    <3> QED
      BY <2>2, <3>2, <3>3
  <2> QED
    BY <1>4, <1>9, <2>1, <2>2
<1>10. Log!SameOrder'
  <2> SUFFICES ASSUME NEW c \in Callers, NEW d \in Callers, c # d,
                      LoggerOf[c] = LoggerOf[d], NEW v \in Writers,
                      NEW u \in Writers, Log!Before(written'[v], c, d),
                      Log!Before(written'[u], d, c)
               PROVE  FALSE
    BY DEF Log!SameOrder
  <2>1. caller[c] = "returned" /\ caller[d] = "returned"
    BY <1>9
  <2>2. c # x /\ d # x
    BY <1>2, <2>1
  <2>3. Log!Before(written[v], c, d) /\ Log!Before(written[u], d, c)
    BY <1>9, <2>2
  <2> QED
    BY <2>3 DEF LogInv, Log!SameOrder
<1>11. \A v \in Writers : \A c \in Callers :
          Log!Contains(written'[v], c) => caller[c] # "idle"
  BY <1>2, <1>4 DEF LogInv
<1>12. /\ writers' = [l \in Loggers |-> Log!Flattened(Arguments[l])]
       /\ \A c \in Callers : caller'[c] = "writing" <=> lock'[LoggerOf[c]] = c
       /\ \A v \in Writers : \A c, d \in Callers :
             c # d /\ LoggerOf[c] = LoggerOf[d] /\ Log!Before(written'[v], c, d) =>
               caller'[c] = "returned"
  BY <1>2, <1>9 DEF LogInv
<1> QED
  BY <1>2, <1>6, <1>7, <1>10, <1>11, <1>12 DEF LogInv

LEMMA LogStep ==
    ASSUME Log!Parameters, LogInv, [Log!Next]_(Log!vars) PROVE LogInv'
<1>1. CASE UNCHANGED Log!vars
  <2>1. /\ writers' = writers /\ lock' = lock /\ caller' = caller /\ next' = next
        /\ err' = err /\ written' = written /\ failures' = failures
    BY <1>1 DEF Log!vars
  <2> QED
    BY <2>1, Zenon DEF LogInv, Log!TypeOK, Progress, Log!SameOrder
<1>2. ASSUME NEW x \in Callers, Log!CallerNext(x) PROVE LogInv'
  BY <1>2, LogOutput, LogWrite, LogReturn DEF Log!CallerNext
<1> QED
  BY <1>1, <1>2 DEF Log!Next

-----------------------------------------------------------------------------
(* Instrumented: where each request is, and what has been counted.          *)

\* The responses that the clients have, the requests that the server has
\* counted and not yet answered to a client, those of them whose durations it
\* has observed, and the connections that the gauge counts.
Got == {p \in Clients \X (1 .. Gets) : p[2] <= gets[p[1]]}
Busy == {k \in Server!Sockets :
            socket[k] \in {"handling", "flushing"} \/ k \in answered}
Observed == {k \in Server!Sockets : socket[k] = "flushing" \/ k \in answered}
Open == {k \in Server!Sockets :
            socket[k] \in {"reading", "handling", "flushing", "closing"}}

\* A connection has one request at a time, a client its own connection.
SocketSound(k) ==
    /\ k \in up => socket[k] \in {"queued", "reading", "handling", "flushing"}
    /\ k \in asked => socket[k] # "unused" /\ k \notin Busy
    /\ k \in answered =>
          socket[k] \notin {"unused", "queued", "handling", "flushing"}
    /\ breaks = 0 /\ socket[k] # "unused" => k \in up
    /\ breaks = 0 /\ k \in asked \cup Busy =>
          \E c \in Clients : client[c] = "awaiting" /\ using[c] = k

ClientSound(c) ==
    /\ using[c] # 0 => socket[using[c]] # "unused"
    /\ \A d \in Clients : c # d /\ using[c] = using[d] => using[c] = 0
    /\ client[c] = "awaiting" => using[c] # 0
    /\ client[c] # "awaiting" /\ using[c] # 0 => using[c] \notin asked \cup Busy
    /\ client[c] = "done" => gets[c] = Gets
    /\ client[c] # "done" => gets[c] < Gets
    /\ reused[c] /\ using[c] # 0 => socket[using[c]] \notin {"unused", "queued"}

\* Every response was counted; nothing else was, if no connection broke.
Counted ==
    /\ metric["requests"] >= Cardinality(Got) + Cardinality(Busy)
    /\ metric["durations"] >= Cardinality(Got) + Cardinality(Observed)
    /\ breaks = 0 =>
          /\ metric["requests"] = Cardinality(Got) + Cardinality(Busy)
          /\ metric["durations"] = Cardinality(Got) + Cardinality(Observed)
    /\ metric["open connections"] = Cardinality(Open)

ServerInv ==
    /\ Server!TypeOK
    /\ \A k \in Server!Sockets : SocketSound(k)
    /\ \A c \in Clients : ClientSound(c)
    /\ Counted
    /\ waiting \in {"collecting", "returned"} => \A c \in Clients : client[c] = "done"
    /\ Server!MetricsAreComplete

\* The module's own instance of FiniteSets counts as the library does.
LEMMA SameCardinality ==
    \A S : /\ Server!Cardinality(S) = Cardinality(S)
           /\ Server!IsFiniteSet(S) <=> IsFiniteSet(S)
  BY DEF Server!Cardinality, Cardinality, Server!IsFiniteSet, IsFiniteSet

LEMMA SocketsFinite ==
    ASSUME Server!Parameters
    PROVE  /\ Server!Sockets = 1 .. Cardinality(Clients) + MaxBreaks
           /\ Cardinality(Clients) \in Nat /\ IsFiniteSet(Clients)
           /\ Gets \in Nat \ {0} /\ MaxBreaks \in Nat
           /\ IsFiniteSet(Server!Sockets) /\ 0 \notin Server!Sockets
           /\ \A k \in Server!Sockets : k \in Nat \ {0}
<1>1. /\ IsFiniteSet(Clients) /\ Gets \in Nat \ {0} /\ MaxBreaks \in Nat
      /\ Server!Sockets = 1 .. Cardinality(Clients) + MaxBreaks
  BY SameCardinality DEF Server!Parameters, Server!Sockets
<1>2. Cardinality(Clients) \in Nat
  BY <1>1, FS_CardinalityType
<1>3. IsFiniteSet(1 .. Cardinality(Clients) + MaxBreaks)
  BY <1>1, <1>2, FS_Interval
<1> QED
  BY <1>1, <1>2, <1>3

\* The sets that are counted, and what one more or one less makes of them.
LEMMA CountedSets ==
    ASSUME Server!Parameters, NEW S, S \subseteq Server!Sockets
    PROVE  /\ IsFiniteSet(S) /\ Cardinality(S) \in Nat
           /\ \A k : k \notin S => Cardinality(S \cup {k}) = Cardinality(S) + 1
           /\ \A k : k \in S => Cardinality(S \ {k}) = Cardinality(S) - 1
           /\ \A T : T \subseteq S => Cardinality(T) <= Cardinality(S)
<1>1. IsFiniteSet(S)
  BY SocketsFinite, FS_Subset
<1> QED
  BY <1>1, FS_CardinalityType, FS_AddElement, FS_RemoveElement, FS_Subset

LEMMA GotSet ==
    ASSUME Server!Parameters, NEW S, S \subseteq Clients \X (1 .. Gets)
    PROVE  /\ IsFiniteSet(S) /\ Cardinality(S) \in Nat
           /\ \A p : p \notin S => Cardinality(S \cup {p}) = Cardinality(S) + 1
           /\ S = Clients \X (1 .. Gets) =>
                 Cardinality(S) = Gets * Cardinality(Clients)
<1>1. IsFiniteSet(1 .. Gets) /\ Cardinality(1 .. Gets) = Gets
  BY SocketsFinite, FS_Interval
<1>2. /\ IsFiniteSet(Clients \X (1 .. Gets))
      /\ Cardinality(Clients \X (1 .. Gets)) = Cardinality(Clients) * Gets
  BY <1>1, SocketsFinite, FS_Product
<1>3. Cardinality(Clients) * Gets = Gets * Cardinality(Clients)
  BY SocketsFinite
<1>4. IsFiniteSet(S)
  BY <1>2, FS_Subset
<1> QED
  BY <1>2, <1>3, <1>4, FS_CardinalityType, FS_AddElement

LEMMA ServerInit == Server!Parameters /\ Server!Init => ServerInv
<1> SUFFICES ASSUME Server!Parameters, Server!Init PROVE ServerInv
  OBVIOUS
<1>1. /\ Gets \in Nat \ {0} /\ MaxBreaks \in Nat /\ 0 \notin Server!Sockets
  BY SocketsFinite
<1>2. Got = {} /\ Busy = {} /\ Observed = {} /\ Open = {}
  BY <1>1 DEF Got, Busy, Observed, Open, Server!Init
<1>3. Cardinality({}) = 0
  BY FS_EmptySet
<1>4. Server!TypeOK
  BY <1>1 DEF Server!TypeOK, Server!Init, Server!None
<1>5. Counted
  <2>1. /\ metric["requests"] = 0 /\ metric["durations"] = 0
        /\ metric["open connections"] = 0
    BY DEF Server!Init, Server!Metrics
  <2>2. /\ Cardinality(Got) = 0 /\ Cardinality(Busy) = 0
        /\ Cardinality(Observed) = 0 /\ Cardinality(Open) = 0
    BY <1>2, <1>3
  <2>3. \A a, b, m : a = 0 /\ b = 0 /\ m = 0 => m = a + b /\ m >= a + b
    OBVIOUS
  <2> QED
    BY <2>1, <2>2, <2>3, Zenon DEF Counted
<1>6. \A k \in Server!Sockets : SocketSound(k)
  BY <1>1, <1>2 DEF SocketSound, Server!Init
<1>7. \A c \in Clients : ClientSound(c)
  BY <1>1 DEF ClientSound, Server!Init, Server!None
<1>8. Server!MetricsAreComplete
  BY DEF Server!MetricsAreComplete, Server!Init, Server!Metrics
<1> QED
  BY <1>4, <1>5, <1>6, <1>7, <1>8 DEF ServerInv, Server!Init

\* The gauge of a state in which all this holds.
LEMMA ServerGauge == Server!Parameters /\ ServerInv => Server!GaugeInStep
<1> SUFFICES ASSUME Server!Parameters, ServerInv PROVE Server!GaugeInStep
  OBVIOUS
<1> DEFINE Held == {using[c] : c \in {d \in Clients : reused[d]}}
           Known == {k \in Server!Sockets : socket[k] \notin {"unused", "closed"}}
<1>1. /\ up \subseteq Server!Sockets /\ 0 \notin Server!Sockets
      /\ metric["open connections"] = Cardinality(Open)
  BY SocketsFinite DEF ServerInv, Server!TypeOK, Counted
<1>2. Held \cap up \subseteq Open
  <2> SUFFICES ASSUME NEW c \in Clients, reused[c], using[c] \in up
               PROVE  using[c] \in Open
    OBVIOUS
  <2>1. using[c] \in Server!Sockets /\ using[c] # 0
    BY <1>1
  <2>2. socket[using[c]] \in {"queued", "reading", "handling", "flushing"}
    BY <2>1 DEF ServerInv, SocketSound
  <2>3. socket[using[c]] # "queued"
    BY <2>1 DEF ServerInv, ClientSound
  <2> QED
    BY <2>1, <2>2, <2>3 DEF Open
<1>3. Open \subseteq Known /\ Known \subseteq Server!Sockets /\ Open \subseteq Server!Sockets
  BY DEF Open
<1> HIDE DEF Held, Known
<1>4. /\ Cardinality(Held \cap up) <= Cardinality(Open)
      /\ Cardinality(Open) <= Cardinality(Known)
  BY <1>2, <1>3, CountedSets
<1> QED
  BY <1>1, <1>4, SameCardinality DEF Server!GaugeInStep, Held, Known

\* The types, spelled out.
LEMMA ServerFacts ==
    ASSUME Server!Parameters, ServerInv
    PROVE  /\ waiting \in {"waiting", "collecting", "returned", "fatal"}
           /\ client \in [Clients -> {"get", "awaiting", "done"}]
           /\ using \in [Clients -> Server!Sockets \cup {0}]
           /\ gets \in [Clients -> 0 .. Gets]
           /\ reused \in [Clients -> BOOLEAN]
           /\ socket \in [Server!Sockets ->
                 {"unused", "queued", "reading", "handling", "flushing",
                  "closing", "closed"}]
           /\ up \subseteq Server!Sockets /\ asked \subseteq Server!Sockets
           /\ answered \subseteq Server!Sockets
           /\ metric \in [Server!Metrics -> Nat]
           /\ breaks \in Nat /\ breaks <= MaxBreaks
           /\ 0 \notin Server!Sockets /\ Gets \in Nat \ {0} /\ MaxBreaks \in Nat
           /\ Got \subseteq Clients \X (1 .. Gets)
           /\ Busy \subseteq Server!Sockets /\ Observed \subseteq Server!Sockets
           /\ Open \subseteq Server!Sockets
  BY SocketsFinite DEF ServerInv, Server!TypeOK, Server!None, Got, Busy, Observed, Open

\* What main has collected stays right when it collects nothing.
LEMMA PrintedKept ==
    ASSUME ServerInv, printed' = printed, breaks' = 0 => breaks = 0
    PROVE  Server!MetricsAreComplete'
  BY DEF ServerInv, Server!MetricsAreComplete

LEMMA CountedKept ==
    ASSUME ServerInv, metric' = metric, breaks' = 0 => breaks = 0,
           Got' = Got, Busy' = Busy, Observed' = Observed, Open' = Open
    PROVE  Counted'
  BY DEF ServerInv, Counted

LEMMA OnDial ==
    ASSUME Server!Parameters, ServerInv, NEW x \in Clients, Server!Dial(x)
    PROVE  ServerInv'
<1>1. PICK n \in Server!Sockets :
          /\ socket[n] = "unused" /\ socket' = [socket EXCEPT ![n] = "queued"]
          /\ up' = up \cup {n} /\ using' = [using EXCEPT ![x] = n]
  BY DEF Server!Dial
<1>2. /\ client[x] = "get" /\ using[x] = 0
      /\ reused' = [reused EXCEPT ![x] = FALSE]
      /\ waiting' = waiting /\ client' = client /\ gets' = gets /\ asked' = asked
      /\ answered' = answered /\ metric' = metric /\ printed' = printed
      /\ breaks' = breaks
  BY DEF Server!Dial, Server!None
<1>3. Server!TypeOK'
  BY <1>1, <1>2 DEF ServerInv, Server!TypeOK, Server!None
<1>4. n \notin asked /\ n \notin answered /\ n \notin Busy
  BY <1>1 DEF ServerInv, SocketSound, Busy
<1>5. Got' = Got /\ Busy' = Busy /\ Observed' = Observed /\ Open' = Open
  BY <1>1, <1>2, <1>4, ServerFacts DEF Got, Busy, Observed, Open
<1>6. ASSUME NEW k \in Server!Sockets PROVE SocketSound(k)'
  <2>1. SocketSound(k)
    BY DEF ServerInv
  <2> QED
    BY <2>1, <1>1, <1>2, <1>4, <1>5, ServerFacts DEF SocketSound
<1>7. \A d \in Clients : using[d] # n
  BY <1>1, ServerFacts DEF ServerInv, ClientSound
<1>8. ASSUME NEW c \in Clients PROVE ClientSound(c)'
  <2>1. ClientSound(c)
    BY DEF ServerInv
  <2>2. CASE c = x
    BY <2>1, <2>2, <1>1, <1>2, <1>4, <1>5, <1>7, ServerFacts DEF ClientSound
  <2>3. CASE c # x
    BY <2>1, <2>3, <1>1, <1>2, <1>4, <1>5, <1>7, ServerFacts DEF ClientSound
  <2> QED
    BY <2>2, <2>3
<1> QED
  BY <1>2, <1>3, <1>5, <1>6, <1>8, PrintedKept, CountedKept DEF ServerInv

LEMMA OnSend ==
    ASSUME Server!Parameters, ServerInv, NEW x \in Clients, Server!Send(x)
    PROVE  ServerInv'
<1>1. /\ client[x] = "get" /\ using[x] # 0
      /\ asked' = asked \cup {using[x]}
      /\ client' = [client EXCEPT ![x] = "awaiting"]
      /\ waiting' = waiting /\ using' = using /\ gets' = gets /\ reused' = reused
      /\ socket' = socket /\ up' = up /\ answered' = answered /\ metric' = metric
      /\ printed' = printed /\ breaks' = breaks
  BY DEF Server!Send, Server!None
<1>2. using[x] \in Server!Sockets
  BY <1>1, ServerFacts
<1>3. Server!TypeOK'
  BY <1>1, <1>2 DEF ServerInv, Server!TypeOK, Server!None
<1>4. Got' = Got /\ Busy' = Busy /\ Observed' = Observed /\ Open' = Open
  BY <1>1 DEF Got, Busy, Observed, Open
<1>5. using[x] \notin Busy /\ socket[using[x]] # "unused"
  BY <1>1 DEF ServerInv, ClientSound
<1>6. ASSUME NEW k \in Server!Sockets PROVE SocketSound(k)'
  <2>1. SocketSound(k)
    BY DEF ServerInv
  <2> QED
    BY <2>1, <1>1, <1>4, <1>5, ServerFacts DEF SocketSound
<1>7. ASSUME NEW c \in Clients PROVE ClientSound(c)'
  <2>1. ClientSound(c) /\ (c # x /\ using[c] = using[x] => using[c] = 0)
    BY DEF ServerInv, ClientSound
  <2>2. CASE c = x
    BY <2>1, <2>2, <1>1, <1>4, ServerFacts DEF ClientSound
  <2>3. CASE c # x
    BY <2>1, <2>3, <1>1, <1>4, ServerFacts DEF ClientSound
  <2> QED
    BY <2>2, <2>3
<1> QED
  BY <1>1, <1>3, <1>4, <1>6, <1>7, PrintedKept, CountedKept, ServerFacts DEF ServerInv

LEMMA OnReceive ==
    ASSUME Server!Parameters, ServerInv, NEW x \in Clients, Server!Receive(x)
    PROVE  ServerInv'
<1>1. /\ client[x] = "awaiting" /\ using[x] \in answered
      /\ answered' = answered \ {using[x]}
      /\ gets' = [gets EXCEPT ![x] = gets[x] + 1]
      /\ client' = [client EXCEPT ![x] = IF gets[x] + 1 = Gets THEN "done" ELSE "get"]
      /\ reused' = [reused EXCEPT ![x] = TRUE]
      /\ waiting' = waiting /\ using' = using /\ socket' = socket /\ up' = up
      /\ asked' = asked /\ metric' = metric /\ printed' = printed
      /\ breaks' = breaks
  BY ServerFacts DEF Server!Receive
<1>2. /\ using[x] \in Server!Sockets /\ gets[x] \in Nat /\ gets[x] < Gets
      /\ gets[x] + 1 \in 1 .. Gets
  <2>1. using[x] \in Server!Sockets /\ gets[x] \in 0 .. Gets /\ Gets \in Nat
    BY <1>1, ServerFacts
  <2>2. gets[x] < Gets
    BY <1>1 DEF ServerInv, ClientSound
  <2> QED
    BY <2>1, <2>2
<1>3. Server!TypeOK'
  BY <1>1, <1>2 DEF ServerInv, Server!TypeOK, Server!None
<1>4. socket[using[x]] \notin {"unused", "queued", "handling", "flushing"}
  BY <1>1, <1>2 DEF ServerInv, SocketSound
<1>5. /\ Busy' = Busy \ {using[x]} /\ using[x] \in Busy
      /\ Observed' = Observed \ {using[x]} /\ using[x] \in Observed
      /\ Open' = Open
  BY <1>1, <1>2, <1>4 DEF Busy, Observed, Open
<1>6. Got' = Got \cup {<<x, gets[x] + 1>>} /\ <<x, gets[x] + 1>> \notin Got
  <2>1. ASSUME NEW c \in Clients, NEW i \in 1 .. Gets
        PROVE  i <= gets'[c] <=> i <= gets[c] \/ (c = x /\ i = gets[x] + 1)
    <3>1. gets'[c] = IF c = x THEN gets[x] + 1 ELSE gets[c]
      BY <1>1, ServerFacts
    <3>2. i \in Nat
      OBVIOUS
    <3> QED
      BY <1>2, <3>1, <3>2
  <2>2. /\ \A c \in Clients, i \in 1 .. Gets : <<c, i>> \in Got <=> i <= gets[c]
        /\ \A c \in Clients, i \in 1 .. Gets : <<c, i>> \in Got' <=> i <= gets'[c]
        /\ \A p \in Got \cup Got' : p \in Clients \X (1 .. Gets)
    BY DEF Got
  <2>3. <<x, gets[x] + 1>> \notin Got
    BY <1>2, <2>2
  <2>4. \A c \in Clients, i \in 1 .. Gets :
           <<c, i>> \in Got' <=> <<c, i>> \in Got \cup {<<x, gets[x] + 1>>}
    BY <1>2, <2>1, <2>2
  <2> QED
    BY <1>2, <2>2, <2>3, <2>4
<1>7. Counted'
  <2>1. /\ Cardinality(Got') = Cardinality(Got) + 1
        /\ Cardinality(Busy') = Cardinality(Busy) - 1
        /\ Cardinality(Observed') = Cardinality(Observed) - 1
        /\ Cardinality(Got) \in Nat /\ Cardinality(Busy) \in Nat
        /\ Cardinality(Observed) \in Nat
    BY <1>5, <1>6, CountedSets, GotSet, ServerFacts
  <2>2. Counted
    BY DEF ServerInv
  <2>3. metric["requests"] \in Nat /\ metric["durations"] \in Nat
    BY ServerFacts DEF Server!Metrics
  <2>4. /\ metric' = metric /\ breaks' = breaks
        /\ Cardinality(Open') = Cardinality(Open)
    BY <1>1, <1>5
  <2>5. /\ Cardinality(Got') + Cardinality(Busy') = Cardinality(Got) + Cardinality(Busy)
        /\ Cardinality(Got') + Cardinality(Observed')
              = Cardinality(Got) + Cardinality(Observed)
    BY <2>1
  <2> QED
    BY <2>2, <2>4, <2>5, Zenon DEF Counted
<1>8. \A d \in Clients : d # x => using[d] # using[x]
  BY <1>2, ServerFacts DEF ServerInv, ClientSound
<1>9. ASSUME NEW k \in Server!Sockets PROVE SocketSound(k)'
  <2>1. SocketSound(k) /\ SocketSound(using[x])
    BY <1>2 DEF ServerInv
  <2>2. CASE k = using[x]
    BY <2>1, <2>2, <1>1, <1>4, <1>5 DEF SocketSound
  <2>3. CASE k # using[x]
    BY <2>1, <2>3, <1>1, <1>5, ServerFacts DEF SocketSound
  <2> QED
    BY <2>2, <2>3
<1>10. ASSUME NEW c \in Clients PROVE ClientSound(c)'
  <2>1. ClientSound(c) /\ SocketSound(using[x])
    BY <1>2 DEF ServerInv
  <2>2. using[x] \notin asked
    BY <2>1, <1>5 DEF SocketSound
  <2>3. CASE c = x
    <3>1. /\ client'[x] = IF gets[x] + 1 = Gets THEN "done" ELSE "get"
          /\ gets'[x] = gets[x] + 1 /\ reused'[x]
      BY <1>1, ServerFacts
    <3>2. /\ client'[x] # "awaiting"
          /\ client'[x] = "done" => gets'[x] = Gets
          /\ client'[x] # "done" => gets'[x] < Gets
      BY <3>1, <1>2, ServerFacts
    <3>3. using[x] \notin asked' \cup Busy' /\ socket'[using[x]] \notin {"unused", "queued"}
      BY <2>2, <1>1, <1>4, <1>5
    <3>4. /\ using'[x] = using[x]
          /\ \A d \in Clients : x # d /\ using'[x] = using'[d] => using'[x] = 0
      BY <1>1, <1>8
    <3>5. ClientSound(x)'
      BY <3>2, <3>3, <3>4 DEF ClientSound
    <3> QED
      BY <2>3, <3>5
  <2>4. CASE c # x
    BY <2>1, <2>4, <1>1, <1>5, ServerFacts DEF ClientSound
  <2> QED
    BY <2>3, <2>4
<1>11. waiting' \in {"collecting", "returned"} => FALSE
  BY <1>1 DEF ServerInv
<1> QED
  BY <1>1, <1>3, <1>7, <1>9, <1>10, <1>11, PrintedKept DEF ServerInv

\* Fails, and Drop: the client has no connection then, or the program ends.
LEMMA OnLost ==
    ASSUME Server!Parameters, ServerInv, NEW x \in Clients,
           Server!Fails(x) \/ Server!Drop(x)
    PROVE  ServerInv'
<1>1. /\ using[x] # 0 /\ using[x] \notin up /\ client[x] # "done"
      /\ gets' = gets /\ reused' = reused /\ socket' = socket /\ up' = up
      /\ asked' = asked /\ answered' = answered /\ metric' = metric
      /\ printed' = printed /\ breaks' = breaks
      /\ \/ /\ client' = [client EXCEPT ![x] = "get"]
            /\ using' = [using EXCEPT ![x] = 0]
            /\ waiting' = waiting
         \/ /\ client' = client /\ using' = using /\ waiting' = "fatal"
  <2>1. CASE Server!Fails(x)
    <3>1. ClientSound(x)
      BY DEF ServerInv
    <3> QED
      BY <2>1, <3>1 DEF Server!Fails, Server!Fatal, Server!None, ClientSound,
                        Server!socketVars
  <2>2. CASE Server!Drop(x)
    <3>1. client' = [client EXCEPT ![x] = "get"]
      BY <2>2, ServerFacts DEF Server!Drop
    <3> QED
      BY <2>2, <3>1 DEF Server!Drop, Server!None, Server!socketVars
  <2> QED
    BY <2>1, <2>2
<1>2. Server!TypeOK'
  BY <1>1 DEF ServerInv, Server!TypeOK, Server!None
<1>3. Got' = Got /\ Busy' = Busy /\ Observed' = Observed /\ Open' = Open
  BY <1>1 DEF Got, Busy, Observed, Open
<1>4. using[x] \in Server!Sockets /\ breaks # 0
  <2>1. using[x] \in Server!Sockets
    BY <1>1, ServerFacts
  <2>2. socket[using[x]] # "unused"
    BY <1>1 DEF ServerInv, ClientSound
  <2> QED
    BY <2>1, <2>2, <1>1 DEF ServerInv, SocketSound
<1>5. ASSUME NEW k \in Server!Sockets PROVE SocketSound(k)'
  <2>1. SocketSound(k)
    BY DEF ServerInv
  <2> QED
    BY <2>1, <1>1, <1>3, <1>4 DEF SocketSound
<1>6. ASSUME NEW c \in Clients PROVE ClientSound(c)'
  <2>1. ClientSound(c)
    BY DEF ServerInv
  <2>2. CASE c = x
    BY <2>1, <2>2, <1>1, <1>3, ServerFacts DEF ClientSound
  <2>3. CASE c # x
    BY <2>1, <2>3, <1>1, <1>3, ServerFacts DEF ClientSound
  <2> QED
    BY <2>2, <2>3
<1>7. waiting' \in {"collecting", "returned"} => FALSE
  BY <1>1 DEF ServerInv
<1> QED
  BY <1>1, <1>2, <1>3, <1>5, <1>6, <1>7, PrintedKept, CountedKept DEF ServerInv

LEMMA PlusZero == \A a \in Nat : a + 0 = a
  OBVIOUS

LEMMA Fewer ==
    ASSUME NEW m \in Nat, NEW g \in Nat, NEW b \in Nat, NEW a \in Nat, a <= b,
           m >= g + b
    PROVE  m >= g + a
  OBVIOUS

LEMMA Successor == \A a \in Nat : a + 1 \in Nat
  OBVIOUS

LEMMA MetricUpdated ==
    ASSUME NEW f \in [Server!Metrics -> Nat], NEW m, NEW n \in Nat
    PROVE  [f EXCEPT ![m] = n] \in [Server!Metrics -> Nat]
  OBVIOUS

LEMMA OneMore ==
    ASSUME NEW m \in Nat, NEW g \in Nat, NEW b \in Nat
    PROVE  /\ m >= g + b => m + 1 >= g + (b + 1)
           /\ m = g + b => m + 1 = g + (b + 1)
  OBVIOUS

\* Accept: a connection more.
LEMMA OnAccept ==
    ASSUME Server!Parameters, ServerInv, NEW n \in Server!Sockets, Server!Accept(n)
    PROVE  ServerInv'
<1>1. /\ socket[n] = "queued"
      /\ metric' = [metric EXCEPT !["open connections"] = metric["open connections"] + 1]
      /\ socket' = [socket EXCEPT ![n] = "reading"]
      /\ waiting' = waiting /\ client' = client /\ using' = using /\ gets' = gets
      /\ reused' = reused /\ up' = up /\ asked' = asked /\ answered' = answered
      /\ printed' = printed /\ breaks' = breaks
  BY ServerFacts DEF Server!Accept, Server!Count, Server!ConnState,
                     Server!clientVars, Server!Metrics
<1>2. Server!TypeOK'
  <2>0. metric["open connections"] \in Nat
    BY ServerFacts DEF Server!Metrics
  <2>1. metric["open connections"] + 1 \in Nat
    BY <2>0, Successor, Zenon
  <2>2. metric' \in [Server!Metrics -> Nat]
    BY <1>1, <2>1, ServerFacts, MetricUpdated
  <2> QED
    BY <1>1, <2>2 DEF ServerInv, Server!TypeOK, Server!None
<1>3. n \notin answered
  BY <1>1 DEF ServerInv, SocketSound
<1>4. /\ Got' = Got /\ Busy' = Busy /\ Observed' = Observed
      /\ Open' = Open \cup {n} /\ n \notin Open
  BY ZenonT(60), <1>1, <1>3, ServerFacts DEF Got, Busy, Observed, Open
<1>5. Counted'
  <2>1. Cardinality(Open') = Cardinality(Open) + 1
    BY <1>4, CountedSets, ServerFacts
  <2>2. /\ metric'["requests"] = metric["requests"]
        /\ metric'["durations"] = metric["durations"]
        /\ metric'["open connections"] = metric["open connections"] + 1
    BY <1>1, ServerFacts DEF Server!Metrics
  <2>3. Counted
    BY DEF ServerInv
  <2> QED
    BY <1>1, <1>4, <2>1, <2>2, <2>3, Zenon DEF Counted
<1>6. ASSUME NEW k \in Server!Sockets PROVE SocketSound(k)'
  <2>1. SocketSound(k)
    BY DEF ServerInv
  <2> QED
    BY <2>1, <1>1, <1>3, <1>4, ServerFacts DEF SocketSound
<1>7. ASSUME NEW c \in Clients PROVE ClientSound(c)'
  <2>1. ClientSound(c)
    BY DEF ServerInv
  <2> QED
    BY <2>1, <1>1, <1>4, ServerFacts DEF ClientSound
<1> QED
  BY <1>1, <1>2, <1>5, <1>6, <1>7, PrintedKept DEF ServerInv

\* Handle: a request more, of a connection that had none.
LEMMA OnHandle ==
    ASSUME Server!Parameters, ServerInv, NEW n \in Server!Sockets, Server!Handle(n)
    PROVE  ServerInv'
<1>1. /\ socket[n] = "reading" /\ n \in asked
      /\ asked' = asked \ {n}
      /\ metric' = [metric EXCEPT !["requests"] = metric["requests"] + 1]
      /\ socket' = [socket EXCEPT ![n] = "handling"]
      /\ waiting' = waiting /\ client' = client /\ using' = using /\ gets' = gets
      /\ reused' = reused /\ up' = up /\ answered' = answered
      /\ printed' = printed /\ breaks' = breaks
  BY ServerFacts DEF Server!Handle, Server!Count, Server!clientVars, Server!Metrics
<1>2. Server!TypeOK'
  <2>0. metric["requests"] \in Nat
    BY ServerFacts DEF Server!Metrics
  <2>1. metric["requests"] + 1 \in Nat
    BY <2>0, Successor, Zenon
  <2>2. metric' \in [Server!Metrics -> Nat]
    BY <1>1, <2>1, ServerFacts, MetricUpdated
  <2> QED
    BY <1>1, <2>2 DEF ServerInv, Server!TypeOK, Server!None
<1>3. n \notin Busy /\ n \notin answered
  BY <1>1 DEF ServerInv, SocketSound, Busy
<1>4. /\ Got' = Got /\ Busy' = Busy \cup {n} /\ Observed' = Observed /\ Open' = Open
  BY <1>1, <1>3, ServerFacts DEF Got, Busy, Observed, Open
<1>5. Counted'
  <2>1. /\ Cardinality(Busy') = Cardinality(Busy) + 1
        /\ Cardinality(Busy) \in Nat /\ Cardinality(Got) \in Nat
    BY <1>3, <1>4, CountedSets, GotSet, ServerFacts
  <2>2. /\ metric'["requests"] = metric["requests"] + 1 /\ metric["requests"] \in Nat
        /\ metric'["durations"] = metric["durations"]
        /\ metric'["open connections"] = metric["open connections"]
    BY <1>1, ServerFacts DEF Server!Metrics
  <2>3. Counted
    BY DEF ServerInv
  <2>4. /\ metric["requests"] >= Cardinality(Got) + Cardinality(Busy)
        /\ breaks = 0 => metric["requests"] = Cardinality(Got) + Cardinality(Busy)
    BY <2>3, Zenon DEF Counted
  <2>5. /\ metric["requests"] + 1 >= Cardinality(Got) + (Cardinality(Busy) + 1)
        /\ breaks = 0 =>
              metric["requests"] + 1 = Cardinality(Got) + (Cardinality(Busy) + 1)
    BY <2>1, <2>2, <2>4, OneMore
  <2>6. /\ metric'["requests"] >= Cardinality(Got) + Cardinality(Busy')
        /\ breaks = 0 => metric'["requests"] = Cardinality(Got) + Cardinality(Busy')
    BY <2>1, <2>2, <2>5, Zenon
  <2> QED
    BY <1>1, <1>4, <2>2, <2>3, <2>6, Zenon DEF Counted
<1>6. ASSUME NEW k \in Server!Sockets PROVE SocketSound(k)'
  <2>1. SocketSound(k)
    BY DEF ServerInv
  <2> QED
    BY <2>1, <1>1, <1>3, <1>4, ServerFacts DEF SocketSound
<1>7. ASSUME NEW c \in Clients PROVE ClientSound(c)'
  <2>1. ClientSound(c)
    BY DEF ServerInv
  <2> QED
    BY <2>1, <1>1, <1>4, ServerFacts DEF ClientSound
<1> QED
  BY <1>1, <1>2, <1>5, <1>6, <1>7, PrintedKept DEF ServerInv

\* Observe: a duration more, of a request that had none.
LEMMA OnObserve ==
    ASSUME Server!Parameters, ServerInv, NEW n \in Server!Sockets, Server!Observe(n)
    PROVE  ServerInv'
<1>1. /\ socket[n] = "handling"
      /\ metric' = [metric EXCEPT !["durations"] = metric["durations"] + 1]
      /\ socket' = [socket EXCEPT ![n] = "flushing"]
      /\ waiting' = waiting /\ client' = client /\ using' = using /\ gets' = gets
      /\ reused' = reused /\ up' = up /\ asked' = asked /\ answered' = answered
      /\ printed' = printed /\ breaks' = breaks
  BY ServerFacts DEF Server!Observe, Server!Count, Server!clientVars, Server!Metrics
<1>2. Server!TypeOK'
  <2>0. metric["durations"] \in Nat
    BY ServerFacts DEF Server!Metrics
  <2>1. metric["durations"] + 1 \in Nat
    BY <2>0, Successor, Zenon
  <2>2. metric' \in [Server!Metrics -> Nat]
    BY <1>1, <2>1, ServerFacts, MetricUpdated
  <2> QED
    BY <1>1, <2>2 DEF ServerInv, Server!TypeOK, Server!None
<1>3. n \notin answered
  BY <1>1 DEF ServerInv, SocketSound
<1>4. /\ Got' = Got /\ Busy' = Busy /\ Observed' = Observed \cup {n}
      /\ n \notin Observed /\ Open' = Open
  BY <1>1, <1>3, ServerFacts DEF Got, Busy, Observed, Open
<1>5. Counted'
  <2>1. /\ Cardinality(Observed') = Cardinality(Observed) + 1
        /\ Cardinality(Observed) \in Nat /\ Cardinality(Got) \in Nat
    BY <1>3, <1>4, CountedSets, GotSet, ServerFacts
  <2>2. /\ metric'["durations"] = metric["durations"] + 1
        /\ metric["durations"] \in Nat
        /\ metric'["requests"] = metric["requests"]
        /\ metric'["open connections"] = metric["open connections"]
    BY <1>1, ServerFacts DEF Server!Metrics
  <2>3. Counted
    BY DEF ServerInv
  <2>4. /\ metric["durations"] >= Cardinality(Got) + Cardinality(Observed)
        /\ breaks = 0 => metric["durations"] = Cardinality(Got) + Cardinality(Observed)
    BY <2>3, Zenon DEF Counted
  <2>5. /\ metric["durations"] + 1 >= Cardinality(Got) + (Cardinality(Observed) + 1)
        /\ breaks = 0 =>
              metric["durations"] + 1 = Cardinality(Got) + (Cardinality(Observed) + 1)
    BY <2>1, <2>2, <2>4, OneMore
  <2>6. /\ metric'["durations"] >= Cardinality(Got) + Cardinality(Observed')
        /\ breaks = 0 => metric'["durations"] = Cardinality(Got) + Cardinality(Observed')
    BY <2>1, <2>2, <2>5, Zenon
  <2> QED
    BY <1>1, <1>4, <2>2, <2>3, <2>6, Zenon DEF Counted
<1>6. ASSUME NEW k \in Server!Sockets PROVE SocketSound(k)'
  <2>1. SocketSound(k)
    BY DEF ServerInv
  <2> QED
    BY <2>1, <1>1, <1>3, <1>4, ServerFacts DEF SocketSound
<1>7. ASSUME NEW c \in Clients PROVE ClientSound(c)'
  <2>1. ClientSound(c)
    BY DEF ServerInv
  <2> QED
    BY <2>1, <1>1, <1>4, ServerFacts DEF ClientSound
<1> QED
  BY <1>1, <1>2, <1>5, <1>6, <1>7, PrintedKept DEF ServerInv

\* Closed: a connection less; it does not work any more.
LEMMA OnClosed ==
    ASSUME Server!Parameters, ServerInv, NEW n \in Server!Sockets, Server!Closed(n)
    PROVE  ServerInv'
<1>1. /\ socket[n] = "closing"
      /\ metric' = [metric EXCEPT !["open connections"] = metric["open connections"] - 1]
      /\ socket' = [socket EXCEPT ![n] = "closed"]
      /\ waiting' = waiting /\ client' = client /\ using' = using /\ gets' = gets
      /\ reused' = reused /\ up' = up /\ asked' = asked /\ answered' = answered
      /\ printed' = printed /\ breaks' = breaks
  <2>1. metric["open connections"] + (-1) = metric["open connections"] - 1
    BY ServerFacts DEF Server!Metrics
  <2>2. metric' = [metric EXCEPT !["open connections"] = metric["open connections"] + (-1)]
    BY ServerFacts DEF Server!Closed, Server!Count, Server!ConnState, Server!Metrics
  <2>3. /\ socket[n] = "closing"
        /\ socket' = [socket EXCEPT ![n] = "closed"]
        /\ waiting' = waiting /\ client' = client /\ using' = using /\ gets' = gets
        /\ reused' = reused /\ up' = up /\ asked' = asked /\ answered' = answered
        /\ printed' = printed /\ breaks' = breaks
    BY DEF Server!Closed, Server!clientVars
  <2> QED
    BY <2>1, <2>2, <2>3, Zenon
<1>2. /\ Got' = Got /\ Busy' = Busy /\ Observed' = Observed
      /\ Open' = Open \ {n} /\ n \in Open
  BY <1>1, ServerFacts DEF Got, Busy, Observed, Open
<1>3. /\ Cardinality(Open') = Cardinality(Open) - 1 /\ Cardinality(Open) \in Nat
      /\ Cardinality(Open') \in Nat
  <2>1. Open' \subseteq Server!Sockets
    BY <1>2, ServerFacts
  <2> QED
    BY <1>2, <2>1, CountedSets, ServerFacts
<1>4. Counted'
  <2>1. /\ metric'["requests"] = metric["requests"]
        /\ metric'["durations"] = metric["durations"]
        /\ metric'["open connections"] = metric["open connections"] - 1
    BY <1>1, ServerFacts DEF Server!Metrics
  <2>2. Counted
    BY DEF ServerInv
  <2> QED
    BY <1>1, <1>2, <1>3, <2>1, <2>2, Zenon DEF Counted
<1>5. Server!TypeOK'
  <2>1. metric["open connections"] - 1 \in Nat
    BY <1>3 DEF ServerInv, Counted
  <2>2. metric' \in [Server!Metrics -> Nat]
    BY <1>1, <2>1, ServerFacts, MetricUpdated
  <2> QED
    BY <1>1, <2>2 DEF ServerInv, Server!TypeOK, Server!None
<1>6. breaks # 0 /\ n \notin up
  BY <1>1 DEF ServerInv, SocketSound
<1>7. ASSUME NEW k \in Server!Sockets PROVE SocketSound(k)'
  <2>1. SocketSound(k)
    BY DEF ServerInv
  <2> QED
    BY <2>1, <1>1, <1>2, <1>6, ServerFacts DEF SocketSound
<1>8. ASSUME NEW c \in Clients PROVE ClientSound(c)'
  <2>1. ClientSound(c)
    BY DEF ServerInv
  <2> QED
    BY <2>1, <1>1, <1>2, ServerFacts DEF ClientSound
<1> QED
  BY <1>1, <1>4, <1>5, <1>7, <1>8, PrintedKept DEF ServerInv

\* Flush: the response is on its way, or lost with a connection that broke.
LEMMA OnFlush ==
    ASSUME Server!Parameters, ServerInv, NEW n \in Server!Sockets, Server!Flush(n)
    PROVE  ServerInv'
<1>1. /\ socket[n] = "flushing"
      /\ \/ /\ n \in up /\ answered' = answered \cup {n}
            /\ socket' = [socket EXCEPT ![n] = "reading"]
         \/ /\ n \notin up /\ answered' = answered
            /\ socket' = [socket EXCEPT ![n] = "closing"]
      /\ waiting' = waiting /\ client' = client /\ using' = using /\ gets' = gets
      /\ reused' = reused /\ up' = up /\ asked' = asked
      /\ printed' = printed /\ breaks' = breaks
  BY DEF Server!Flush, Server!clientVars
<1>2. metric' = metric
  <2>1. CASE n \in up
    <3>1. metric' = [metric EXCEPT !["open connections"] = metric["open connections"] + 0]
      BY <2>1, ServerFacts DEF Server!Flush, Server!Count, Server!ConnState,
                               Server!Metrics
    <3>2. metric["open connections"] \in Nat
      BY ServerFacts DEF Server!Metrics
    <3>3. metric["open connections"] + 0 = metric["open connections"]
      BY <3>2, PlusZero, Zenon
    <3>4. metric' = [metric EXCEPT !["open connections"] = metric["open connections"]]
      BY <3>1, <3>3, Zenon
    <3> QED
      BY <3>4, ServerFacts
  <2>2. CASE n \notin up
    BY <2>2 DEF Server!Flush
  <2> QED
    BY <2>1, <2>2
<1>3. Server!TypeOK'
  BY <1>1, <1>2 DEF ServerInv, Server!TypeOK, Server!None
<1>4. n \notin answered /\ n \notin asked /\ (n \notin up => breaks # 0)
  BY <1>1 DEF ServerInv, SocketSound, Busy
<1>5. /\ Got' = Got /\ Open' = Open /\ Busy' \subseteq Busy /\ Observed' \subseteq Observed
      /\ n \in up => Busy' = Busy /\ Observed' = Observed
  BY <1>1, <1>4, ServerFacts DEF Got, Busy, Observed, Open
<1>6. Counted'
  <2>1. CASE n \in up
    BY <1>1, <1>2, <1>5, <2>1, CountedKept
  <2>2. CASE n \notin up
    <3>1. /\ Cardinality(Busy') <= Cardinality(Busy)
          /\ Cardinality(Observed') <= Cardinality(Observed)
          /\ Cardinality(Busy') \in Nat /\ Cardinality(Busy) \in Nat
          /\ Cardinality(Observed') \in Nat /\ Cardinality(Observed) \in Nat
          /\ Cardinality(Got) \in Nat
      <4>1. Busy' \subseteq Server!Sockets /\ Observed' \subseteq Server!Sockets
        BY <1>5, ServerFacts
      <4> QED
        BY <4>1, <1>5, CountedSets, GotSet, ServerFacts
    <3>2. metric["requests"] \in Nat /\ metric["durations"] \in Nat
      BY ServerFacts DEF Server!Metrics
    <3>3. /\ metric["requests"] >= Cardinality(Got) + Cardinality(Busy)
          /\ metric["durations"] >= Cardinality(Got) + Cardinality(Observed)
          /\ metric["open connections"] = Cardinality(Open)
      BY Zenon DEF ServerInv, Counted
    <3>4. /\ metric["requests"] >= Cardinality(Got) + Cardinality(Busy')
          /\ metric["durations"] >= Cardinality(Got) + Cardinality(Observed')
      BY <3>1, <3>2, <3>3, Fewer
    <3> QED
      BY <1>1, <1>2, <1>4, <1>5, <2>2, <3>3, <3>4, Zenon DEF Counted
  <2> QED
    BY <2>1, <2>2
<1>7. ASSUME NEW k \in Server!Sockets PROVE SocketSound(k)'
  <2>1. SocketSound(k)
    BY DEF ServerInv
  <2>2. CASE n \in up
    BY <2>1, <2>2, <1>1, <1>4, <1>5, ServerFacts DEF SocketSound
  <2>3. CASE n \notin up
    BY <2>1, <2>3, <1>1, <1>4, <1>5, ServerFacts DEF SocketSound
  <2> QED
    BY <2>2, <2>3
<1>8. ASSUME NEW c \in Clients PROVE ClientSound(c)'
  <2>1. ClientSound(c)
    BY DEF ServerInv
  <2>2. /\ using'[c] = using[c] /\ \A k \in Server!Sockets :
            socket[k] \notin {"unused", "queued"} => socket'[k] \notin {"unused", "queued"}
        /\ \A k \in Server!Sockets : socket[k] # "unused" => socket'[k] # "unused"
        /\ using[c] # 0 => using[c] \in Server!Sockets
    BY <1>1, ServerFacts
  <2> QED
    BY <2>1, <2>2, <1>1, <1>5 DEF ClientSound
<1> QED
  BY <1>1, <1>3, <1>6, <1>7, <1>8, PrintedKept DEF ServerInv

\* Close: the connection has no work any more.
LEMMA OnClose ==
    ASSUME Server!Parameters, ServerInv, NEW n \in Server!Sockets, Server!Close(n)
    PROVE  ServerInv'
<1>1. /\ socket[n] = "reading" /\ up' = up \ {n}
      /\ socket' = [socket EXCEPT ![n] = "closing"]
      /\ \/ n \notin up /\ breaks' = breaks
         \/ breaks < MaxBreaks /\ breaks' = breaks + 1
      /\ waiting' = waiting /\ client' = client /\ using' = using /\ gets' = gets
      /\ reused' = reused /\ asked' = asked /\ answered' = answered
      /\ printed' = printed /\ metric' = metric
  BY DEF Server!Close, Server!clientVars
<1>2. /\ breaks' \in Nat /\ breaks' <= MaxBreaks /\ breaks' # 0
  <2>1. n \notin up => breaks # 0
    BY <1>1 DEF ServerInv, SocketSound
  <2> QED
    BY <1>1, <2>1, ServerFacts
<1>3. Server!TypeOK'
  BY <1>1, <1>2 DEF ServerInv, Server!TypeOK, Server!None
<1>4. Got' = Got /\ Busy' = Busy /\ Observed' = Observed /\ Open' = Open
  BY <1>1, ServerFacts DEF Got, Busy, Observed, Open
<1>5. ASSUME NEW k \in Server!Sockets PROVE SocketSound(k)'
  <2>1. SocketSound(k)
    BY DEF ServerInv
  <2> QED
    BY <2>1, <1>1, <1>2, <1>4, ServerFacts DEF SocketSound
<1>6. ASSUME NEW c \in Clients PROVE ClientSound(c)'
  <2>1. ClientSound(c)
    BY DEF ServerInv
  <2> QED
    BY <2>1, <1>1, <1>4, ServerFacts DEF ClientSound
<1> QED
  BY <1>1, <1>2, <1>3, <1>4, <1>5, <1>6, PrintedKept, CountedKept DEF ServerInv

\* Break: a response that was on its way is lost.
LEMMA OnBreak ==
    ASSUME Server!Parameters, ServerInv, NEW n \in Server!Sockets, Server!Break(n)
    PROVE  ServerInv'
<1>1. /\ n \in up /\ up' = up \ {n} /\ answered' = answered \ {n}
      /\ breaks < MaxBreaks /\ breaks' = breaks + 1
      /\ waiting' = waiting /\ client' = client /\ using' = using /\ gets' = gets
      /\ reused' = reused /\ asked' = asked /\ socket' = socket
      /\ printed' = printed /\ metric' = metric
  BY DEF Server!Break, Server!clientVars
<1>2. breaks' \in Nat /\ breaks' <= MaxBreaks /\ breaks' # 0
  BY <1>1, ServerFacts
<1>3. Server!TypeOK'
  BY <1>1, <1>2 DEF ServerInv, Server!TypeOK, Server!None
<1>4. /\ Got' = Got /\ Open' = Open /\ Busy' \subseteq Busy
      /\ Observed' \subseteq Observed
  BY <1>1 DEF Got, Busy, Observed, Open
<1>5. Counted'
  <2>1. /\ Cardinality(Busy') <= Cardinality(Busy)
        /\ Cardinality(Observed') <= Cardinality(Observed)
        /\ Cardinality(Busy') \in Nat /\ Cardinality(Busy) \in Nat
        /\ Cardinality(Observed') \in Nat /\ Cardinality(Observed) \in Nat
        /\ Cardinality(Got) \in Nat
    <3>1. Busy' \subseteq Server!Sockets /\ Observed' \subseteq Server!Sockets
      BY <1>4, ServerFacts
    <3> QED
      BY <3>1, <1>4, CountedSets, GotSet, ServerFacts
  <2>2. metric["requests"] \in Nat /\ metric["durations"] \in Nat
    BY ServerFacts DEF Server!Metrics
  <2>3. /\ metric["requests"] >= Cardinality(Got) + Cardinality(Busy)
        /\ metric["durations"] >= Cardinality(Got) + Cardinality(Observed)
        /\ metric["open connections"] = Cardinality(Open)
    BY Zenon DEF ServerInv, Counted
  <2>4. /\ metric["requests"] >= Cardinality(Got) + Cardinality(Busy')
        /\ metric["durations"] >= Cardinality(Got) + Cardinality(Observed')
    BY <2>1, <2>2, <2>3, Fewer
  <2> QED
    BY <1>1, <1>2, <1>4, <2>3, <2>4, Zenon DEF Counted
<1>6. ASSUME NEW k \in Server!Sockets PROVE SocketSound(k)'
  <2>1. SocketSound(k)
    BY DEF ServerInv
  <2> QED
    BY <2>1, <1>1, <1>2, <1>4 DEF SocketSound
<1>7. ASSUME NEW c \in Clients PROVE ClientSound(c)'
  <2>1. ClientSound(c)
    BY DEF ServerInv
  <2> QED
    BY <2>1, <1>1, <1>4 DEF ClientSound
<1> QED
  BY <1>1, <1>2, <1>3, <1>5, <1>6, <1>7, PrintedKept DEF ServerInv

\* Collect: the clients are done, so that a count is of all their responses.
LEMMA OnCollect ==
    ASSUME Server!Parameters, ServerInv, NEW m \in Server!Metrics, Server!Collect(m)
    PROVE  ServerInv'
<1>1. /\ waiting = "collecting"
      /\ printed' = [printed EXCEPT ![m] = metric[m]]
      /\ waiting' = waiting /\ client' = client /\ using' = using /\ gets' = gets
      /\ reused' = reused /\ socket' = socket /\ up' = up /\ asked' = asked
      /\ answered' = answered /\ metric' = metric /\ breaks' = breaks
  BY DEF Server!Collect, Server!clientVars, Server!socketVars
<1>2. Server!TypeOK'
  <2>1. metric[m] \in Nat \cup {-1}
    BY ServerFacts
  <2>2. printed' \in [Server!Metrics -> Nat \cup {-1}]
    BY <1>1, <2>1 DEF ServerInv, Server!TypeOK
  <2> QED
    BY <1>1, <2>2 DEF ServerInv, Server!TypeOK, Server!None
<1>3. \A c \in Clients : client[c] = "done" /\ gets[c] = Gets
  BY <1>1 DEF ServerInv, ClientSound
<1>4. Cardinality(Got) = Gets * Cardinality(Clients)
  <2>1. \A i \in 1 .. Gets : i <= Gets
    BY ServerFacts
  <2>2. \A c \in Clients, i \in 1 .. Gets : i <= gets[c]
    BY <1>3, <2>1
  <2>3. Got = Clients \X (1 .. Gets)
    BY <2>2 DEF Got
  <2> QED
    BY <2>3, GotSet
<1>5. breaks = 0 => Cardinality(Busy) = 0 /\ Cardinality(Observed) = 0
  <2>1. breaks = 0 => Busy = {}
    BY <1>3, ServerFacts DEF ServerInv, SocketSound
  <2>2. Observed \subseteq Busy
    BY DEF Observed, Busy
  <2> QED
    BY <2>1, <2>2, FS_EmptySet
<1>6. ASSUME m \in {"requests", "durations"}
      PROVE  /\ metric[m] >= Gets * Cardinality(Clients)
             /\ breaks = 0 => metric[m] = Gets * Cardinality(Clients)
  <2> DEFINE all == Gets * Cardinality(Clients)
  <2>1. all \in Nat /\ Cardinality(Busy) \in Nat /\ Cardinality(Observed) \in Nat
    BY SocketsFinite, CountedSets, ServerFacts, <1>4, GotSet
  <2>2. /\ metric["requests"] \in Nat /\ metric["durations"] \in Nat
        /\ metric["requests"] >= all + Cardinality(Busy)
        /\ metric["durations"] >= all + Cardinality(Observed)
        /\ breaks = 0 =>
              /\ metric["requests"] = all + Cardinality(Busy)
              /\ metric["durations"] = all + Cardinality(Observed)
    <3>1. metric["requests"] \in Nat /\ metric["durations"] \in Nat
      BY ServerFacts DEF Server!Metrics
    <3> QED
      BY <1>4, <3>1, Zenon DEF ServerInv, Counted
  <2> HIDE DEF all
  <2>3. /\ metric["requests"] >= all /\ metric["durations"] >= all
        /\ breaks = 0 => metric["requests"] = all /\ metric["durations"] = all
    BY <2>1, <2>2, <1>5
  <2> QED
    BY <1>6, <2>3 DEF all
<1>7. Server!MetricsAreComplete'
  <2> SUFFICES ASSUME NEW q \in {"requests", "durations"}, printed'[q] # -1
               PROVE  /\ printed'[q] >= Gets * Cardinality(Clients)
                      /\ breaks = 0 => printed'[q] = Gets * Cardinality(Clients)
    BY <1>1, SameCardinality, Zenon DEF Server!MetricsAreComplete
  <2>1. printed'[q] = IF q = m THEN metric[m] ELSE printed[q]
    BY <1>1 DEF ServerInv, Server!TypeOK, Server!Metrics
  <2>2. CASE q = m
    BY <1>6, <2>1, <2>2
  <2>3. CASE q # m
    BY <2>1, <2>3, SameCardinality DEF ServerInv, Server!MetricsAreComplete
  <2> QED
    BY <2>2, <2>3
<1>8. Got' = Got /\ Busy' = Busy /\ Observed' = Observed /\ Open' = Open
  BY <1>1 DEF Got, Busy, Observed, Open
<1>9. \A k \in Server!Sockets : SocketSound(k)'
  BY <1>1, <1>8, Zenon DEF ServerInv, SocketSound
<1>10. \A c \in Clients : ClientSound(c)'
  BY <1>1, <1>8, Zenon DEF ServerInv, ClientSound
<1> QED
  BY <1>1, <1>2, <1>3, <1>7, <1>8, <1>9, <1>10, CountedKept DEF ServerInv

\* Wait and PrintAll, which change only main, and a step that changes nothing.
LEMMA OnMain ==
    ASSUME Server!Parameters, ServerInv,
           Server!Wait \/ Server!PrintAll \/ UNCHANGED Server!vars
    PROVE  ServerInv'
<1>1. /\ client' = client /\ using' = using /\ gets' = gets
      /\ reused' = reused /\ socket' = socket /\ up' = up /\ asked' = asked
      /\ answered' = answered /\ metric' = metric /\ breaks' = breaks
      /\ printed' = printed
  BY DEF Server!Wait, Server!PrintAll, Server!vars, Server!clientVars,
         Server!socketVars
<1>2. /\ waiting' \in {"waiting", "collecting", "returned", "fatal"}
      /\ waiting' \in {"collecting", "returned"} =>
             \A c \in Clients : client[c] = "done"
  BY ServerFacts DEF Server!Wait, Server!AllDone, Server!PrintAll, Server!vars, ServerInv
<1>3. Server!TypeOK'
  BY <1>1, <1>2 DEF ServerInv, Server!TypeOK, Server!None
<1>4. Got' = Got /\ Busy' = Busy /\ Observed' = Observed /\ Open' = Open
  BY <1>1 DEF Got, Busy, Observed, Open
<1>5. \A k \in Server!Sockets : SocketSound(k)'
  BY <1>1, <1>4, Zenon DEF ServerInv, SocketSound
<1>6. \A c \in Clients : ClientSound(c)'
  BY <1>1, <1>4, Zenon DEF ServerInv, ClientSound
<1> QED
  BY <1>1, <1>2, <1>3, <1>4, <1>5, <1>6, PrintedKept, CountedKept DEF ServerInv

LEMMA ServerStep ==
    ASSUME Server!Parameters, ServerInv, [Server!Next]_(Server!vars)
    PROVE  ServerInv'
<1>1. ASSUME NEW c \in Clients, Server!ClientNext(c) PROVE ServerInv'
  BY <1>1, OnDial, OnSend, OnReceive, OnLost DEF Server!ClientNext
<1>2. ASSUME NEW k \in Server!Sockets, Server!ServerNext(k) PROVE ServerInv'
  BY <1>2, OnAccept, OnHandle, OnObserve, OnFlush, OnClose, OnClosed
     DEF Server!ServerNext
<1>3. CASE Server!MainNext
  BY <1>3, OnMain, OnCollect DEF Server!MainNext
<1>4. ASSUME NEW k \in Server!Sockets, Server!Break(k) PROVE ServerInv'
  BY <1>4, OnBreak
<1>5. CASE UNCHANGED Server!vars
  BY <1>5, OnMain
<1> QED
  BY <1>1, <1>2, <1>3, <1>4, <1>5 DEF Server!Next, Server!ProgramNext

-----------------------------------------------------------------------------
(* The three together: a step is one of the one that is followed.           *)

LEMMA EachNext ==
    ASSUME [Next]_vars
    PROVE  /\ [Level!Next]_(Level!vars)
           /\ [Log!Next]_(Log!vars)
           /\ [Server!Next]_(Server!vars)
<1>1. /\ Level!Next \/ UNCHANGED levelVars
      /\ Log!Next \/ UNCHANGED logVars
      /\ Server!Next \/ UNCHANGED serverVars
  BY Zenon DEF Next, vars
<1>2. UNCHANGED levelVars => UNCHANGED Level!vars
  BY DEF levelVars, Level!vars, Level!mainVars, Level!watchVars, Level!otherVars
<1>3. UNCHANGED logVars => UNCHANGED Log!vars
  BY DEF logVars, Log!vars
<1>4. UNCHANGED serverVars => UNCHANGED Server!vars
  BY DEF serverVars, Server!vars, Server!clientVars, Server!socketVars
<1> QED
  BY <1>1, <1>2, <1>3, <1>4

\* dynamic.go: the event that the two goroutines are at.
THEOREM LevelInductive == FairSpec => []LevelInv
<1>1. Init => LevelInv
  BY LogsParameters, LevelInit DEF Init
<1>2. LevelInv /\ [Next]_vars => LevelInv'
  BY LogsParameters, LevelStep, EachNext
<1> QED
  BY <1>1, <1>2, PTL DEF FairSpec

\* multi.go: the writers that each caller is done with, and the lock.
THEOREM LogInductive == FairSpec => []LogInv
<1>1. Init => LogInv
  BY LogsParameters, LogInit DEF Init
<1>2. LogInv /\ [Next]_vars => LogInv'
  BY LogsParameters, LogStep, EachNext
<1> QED
  BY <1>1, <1>2, PTL DEF FairSpec

\* instrument/server.go: where each request is, and what has been counted.
THEOREM ServerInductive == FairSpec => []ServerInv
<1>1. Init => ServerInv
  BY LogsParameters, ServerInit DEF Init
<1>2. ServerInv /\ [Next]_vars => ServerInv'
  BY LogsParameters, ServerStep, EachNext
<1> QED
  BY <1>1, <1>2, PTL DEF FairSpec

\* Each variable of chapter 13 keeps its type.
THEOREM LogTypes == FairSpec => []TypeOK
<1>1. LevelInv /\ LogInv /\ ServerInv => TypeOK
  BY Zenon DEF TypeOK, LevelInv, LogInv, ServerInv
<1> QED
  BY <1>1, LevelInductive, LogInductive, ServerInductive, PTL

\* OutputAsExpected (dynamic.go): the lines come out in order, those below the
\* threshold never.
THEOREM OutputInOrder == FairSpec => []OutputAsExpected
<1>1. LevelInv => OutputAsExpected
  BY LevelOutput DEF OutputAsExpected
<1> QED
  BY <1>1, LevelInductive, PTL

\* Sustains (SustainedMultiWriter of multi.go): every writer gets the entry, or
\* its error is told.
THEOREM WritesSustained == FairSpec => []Sustains
<1>1. LogInv => Sustains
  BY LogsParameters, LogSustains DEF Sustains
<1> QED
  BY <1>1, LogInductive, PTL

\* SameOrder (multi.go under log.Logger's lock): the writers of a logger agree
\* on the order of its entries.
THEOREM OrderAgreed == FairSpec => []SameOrder
<1>1. LogInv => SameOrder
  BY Zenon DEF LogInv, SameOrder
<1> QED
  BY <1>1, LogInductive, PTL

\* MetricsAreComplete (helloHandler, connStateMetrics and main of
\* instrument/server.go): what is printed counts every response, and the gauge
\* keeps up with the connections.
THEOREM MetricsComplete == FairSpec => []MetricsAreComplete
<1>1. ServerInv => MetricsAreComplete
  BY LogsParameters, ServerGauge DEF MetricsAreComplete, ServerInv
<1> QED
  BY <1>1, ServerInductive, PTL

=============================================================================
