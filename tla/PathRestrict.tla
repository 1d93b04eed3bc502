---------------------------- MODULE PathRestrict ----------------------------
(***************************************************************************)
(* The two RestrictPrefix middlewares that keep hidden files from being     *)
(* served: chapter9/middleware.go, in front of the file server of push.go,  *)
(* and the Caddy module in caddy/caddy-restrict-prefix.  A path is the      *)
(* sequence of its segments between slashes; the first is "" if the path    *)
(* begins with a slash, and <<"">> is the empty path.  path.Clean, the file *)
(* server and Caddy are external.                                           *)
(***************************************************************************)
EXTENDS Naturals, Sequences, SequencesExt

CONSTANTS
    Segments,  \* what a segment can be: "", ".", ".." and names
    Configs,   \* prefixes that a configuration names; "" if it names none
    StartsWith(_, _),  \* strings.HasPrefix on segments
    MaxSegments        \* bound: segments of a path

Parameters ==
    /\ {"", ".", ".."} \subseteq Segments
    /\ \A s \in Segments : StartsWith(s, "")
    /\ \A q \in Configs \cup {"."} : StartsWith(".", q) => StartsWith("..", q)
    /\ MaxSegments \in Nat \ {0}

VARIABLES
    path,    \* the path of the last request, after http.StripPrefix
    prefix,  \* the configured prefix
    web,     \* what chapter 9's middleware did: "none", "404", "next"
    caddy    \* what the Caddy module did

vars == <<path, prefix, web, caddy>>

Paths == SeqOf(Segments, MaxSegments) \ {<<>>}

-----------------------------------------------------------------------------
(* path.Clean.                                                              *)

Rooted(p) == Len(p) > 1 /\ p[1] = ""

\* One more segment after those that are left of the ones before it.
Push(s, kept, rooted) ==
    IF s \in {"", "."} THEN kept
    ELSE IF s # ".." THEN Append(kept, s)
    ELSE IF kept # <<>> /\ Last(kept) # ".." THEN Front(kept)
    ELSE IF rooted THEN kept ELSE Append(kept, s)

\* The segments that are left of a path.
Kept(p) ==
    LET kept[n \in 0 .. Len(p)] ==
            IF n = 0 THEN <<>> ELSE Push(p[n], kept[n - 1], Rooted(p))
    IN  kept[Len(p)]

\* strings.Split(path.Clean(p), "/"); nothing left is "/" or ".".
Clean(p) ==
    IF Rooted(p) THEN IF Kept(p) = <<>> THEN <<"", "">> ELSE <<"">> \o Kept(p)
    ELSE IF Kept(p) = <<>> THEN <<".">> ELSE Kept(p)

\* The file that http.FileServer opens for a path: it is rooted, and cleaned.
FileOf(p) == Kept(<<"", "">> \o p)

-----------------------------------------------------------------------------
(* The middlewares.                                                         *)

\* A part of the path begins with the prefix.
\* (Mutants: the first part alone is looked at; parts are compared for
\* equality.)
M_Restricted(parts, q) == StartsWith(parts[1], q)
M_RestrictedEqual(parts, q) == \E i \in DOMAIN parts : parts[i] = q
Restricted(parts, q) == \E i \in DOMAIN parts : StartsWith(parts[i], q)

Outcome(restricted) == IF restricted THEN "404" ELSE "next"

\* Validate: the default prefix.
Validate(q) == IF q = "" THEN "." ELSE q

Init ==
    /\ path = <<"">>
    /\ \E q \in Configs : prefix = Validate(q)
    /\ web = "none" /\ caddy = "none"

\* A request: chapter 9 cleans the path first, the Caddy module does not.  One
\* request leaves nothing behind for the next, so one is enough.
Request ==
    /\ web = "none"
    /\ path' \in Paths
    /\ UNCHANGED prefix
    /\ web' = Outcome(Restricted(Clean(path'), prefix))
    /\ caddy' = Outcome(Restricted(path', prefix))

Next == Request

Spec == Init /\ [][Next]_vars

-----------------------------------------------------------------------------
TypeOK ==
    /\ path \in Paths /\ prefix \in (Configs \cup {"."}) \ {""}
    /\ web \in {"none", "404", "next"} /\ caddy \in {"none", "404", "next"}

Hidden(parts) == \E i \in DOMAIN parts : StartsWith(parts[i], prefix)

\* Neither server reads a file with a hidden name, or in a hidden directory,
\* however the path spells it.
NoHiddenFile == "next" \in {web, caddy} => ~Hidden(FileOf(path))

\* The Caddy module refuses whatever chapter 9 refuses, but for the empty path
\* and the paths of empty segments, which Clean turns into ".".
CaddyIsStricter ==
    web = "404" /\ caddy = "next" => \A i \in DOMAIN path : path[i] = ""

=============================================================================
