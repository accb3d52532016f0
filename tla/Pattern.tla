------------------------------ MODULE Pattern ------------------------------
(***************************************************************************)
(* Matching and pathname expansion (src/src/glob.rs), and the trimming of   *)
(* parameter values (src/src/expand.rs), over texts that are sequences of   *)
(* characters.  "esc" is CTLESC, the marker the lexer puts before a         *)
(* character that was quoted with a backslash.                              *)
(***************************************************************************)
EXTENDS Integers, Sequences, FiniteSets, FiniteSetsExt

CONSTANTS
  Ascii,   \* the characters, in their order, that a bracket may compare
  Tree,    \* the paths (sequences of names) of a file system that exist
  Dirs,    \* those of them that are directories
  Cwd      \* the working directory

Rank(c) == CHOOSE k \in DOMAIN Ascii : Ascii[k] = c
Ranks == [c \in {Ascii[k] : k \in DOMAIN Ascii} |-> Rank(c)]
Escape == "esc"
IsEscape(c) == c \in {"\\", Escape}

DotNames == {<<".">>, <<".", ".">>}

ASSUME PatternAssumption ==
  /\ Dirs \subseteq Tree /\ <<>> \in Dirs /\ Cwd \in Dirs
  /\ \A i, j \in DOMAIN Ascii : Ascii[i] = Ascii[j] => i = j

\* A path is a sequence of names, and leads through directories.
Chars == {Ascii[k] : k \in DOMAIN Ascii}
ASSUME TreeAssumption ==
  /\ Tree \subseteq Seq(Seq(Chars))
  /\ \A p \in Tree : \A k \in 0 .. Len(p) - 1 : SubSeq(p, 1, k) \in Dirs

Positions(s) == 1 .. Len(s) + 1

-----------------------------------------------------------------------------
(* fnmatch.                                                                 *)

\* Mutant of BracketChar: in brackets an escape is a character like any other.
BracketCharPlain(pat, i) == [char |-> pat[i], next |-> i + 1]
\* read_bracket_char: a character, escaped or not, and where the next one is.
BracketChar(pat, i) ==
  IF IsEscape(pat[i]) /\ i < Len(pat) THEN [char |-> pat[i + 1], next |-> i + 2]
                                      ELSE [char |-> pat[i], next |-> i + 1]

\* A member of a bracket is a character or, with a dash, a range.
IsRange(pat, i) ==
  LET k == BracketChar(pat, i).next
  IN  k < Len(pat) /\ pat[k] = "-" /\ pat[k + 1] # "]"
RangeEnd(pat, i)  == BracketChar(pat, BracketChar(pat, i).next + 1)
MemberEnd(pat, i) == IF IsRange(pat, i) THEN RangeEnd(pat, i).next ELSE BracketChar(pat, i).next
MemberHas(pat, i, c) ==
  IF IsRange(pat, i) THEN Ranks[c] \in Ranks[BracketChar(pat, i).char] .. Ranks[RangeEnd(pat, i).char]
  ELSE c = BracketChar(pat, i).char

\* The bracket of the "[" at i.  It may begin with "]", and one that is never
\* closed reaches to the end of the pattern.
Negated(pat, i) == i < Len(pat) /\ pat[i + 1] = "!"
First(pat, i)   == IF Negated(pat, i) THEN i + 2 ELSE i + 1
BracketEnd(pat, i) ==
  LET end[k \in Positions(pat)] ==
        IF k > Len(pat) THEN k
        ELSE IF pat[k] = "]" /\ k # First(pat, i) THEN k + 1
        ELSE end[MemberEnd(pat, k)]
  IN  end[First(pat, i)]
BracketHas(pat, i, c) ==
  LET has[k \in Positions(pat)] ==
        /\ k <= Len(pat) /\ (pat[k] = "]" => k = First(pat, i))
        /\ MemberHas(pat, k, c) \/ has[MemberEnd(pat, k)]
  IN  has[First(pat, i)]

\* What is no star takes one character: which ones, and where the next
\* element of the pattern begins.
Accepts(pat, i, c) ==
  IF pat[i] = "?" THEN TRUE
  ELSE IF pat[i] = "[" THEN BracketHas(pat, i, c) # Negated(pat, i)
  ELSE IF IsEscape(pat[i]) THEN i < Len(pat) /\ c = pat[i + 1]
  ELSE c = pat[i]
After(pat, i) ==
  IF pat[i] = "[" THEN BracketEnd(pat, i)
  ELSE IF IsEscape(pat[i]) /\ i < Len(pat) THEN i + 2
  ELSE i + 1

SkipStars(pat, i) == Min({k \in i .. Len(pat) + 1 : k > Len(pat) \/ pat[k] # "*"})

\* A star tries every rest of the text.
\* Mutant of Tries: only the longest text is tried.
TriesLongest(s, j, matches) == Len(s) + 1 \in matches
Tries(s, j, matches) == \E k \in j .. Len(s) + 1 : k \in matches

\* fnmatch_inner: for each position of the pattern, those of the text from
\* which on its rest matches.
FnMatchInner(pat, s) ==
  LET matches[i \in Positions(pat)] ==
        IF i > Len(pat) THEN {Len(s) + 1}
        ELSE IF pat[i] = "*"
        THEN IF SkipStars(pat, i) > Len(pat) THEN Positions(s)
             ELSE LET rest == matches[SkipStars(pat, i)] IN {j \in Positions(s) : Tries(s, j, rest)}
        ELSE LET rest == matches[After(pat, i)]
             IN  {j \in 1 .. Len(s) : Accepts(pat, i, s[j]) /\ j + 1 \in rest}
  IN  matches

FnMatch(pat, s) == 1 \in FnMatchInner(pat, s)[1]

\* has_glob_chars: what an escape precedes is not read.
HasGlobChars(s) ==
  LET read[i \in 1 .. Len(s) + 2] ==
        IF i > Len(s) THEN {}
        ELSE {i} \cup read[IF IsEscape(s[i]) THEN i + 2 ELSE i + 1]
  IN  \E i \in read[1] : s[i] \in {"*", "?", "["}

-----------------------------------------------------------------------------
(* trim_prefix and trim_suffix: parts of the value are tried from the       *)
(* shortest or the longest on, the empty one never.                         *)

Take(s, n) == SubSeq(s, 1, n)
Drop(s, n) == SubSeq(s, n + 1, Len(s))

TrimPrefix(value, pat, greedy) ==
  LET hits == {n \in 1 .. Len(value) : FnMatch(pat, Take(value, n))}
  IN  IF hits = {} THEN value ELSE Drop(value, IF greedy THEN Max(hits) ELSE Min(hits))

TrimSuffix(value, pat, greedy) ==
  LET hits == {n \in 0 .. Len(value) - 1 : FnMatch(pat, Drop(value, n))}
  IN  IF hits = {} THEN value ELSE Take(value, IF greedy THEN Min(hits) ELSE Max(hits))

-----------------------------------------------------------------------------
(* glob: the pattern is split at slashes; a component without pattern       *)
(* characters is looked up, any other one is matched with the names of the  *)
(* directory.  The result is the set of paths below the root, sorted by the *)
(* code.                                                                    *)

\* A component reaches up to the next slash; an empty one is none.
Cut(s, i) == Min({n \in i .. Len(s) + 1 : n > Len(s) \/ s[n] = "/"})
Component(s, i) == IF i = Cut(s, i) THEN <<>> ELSE <<SubSeq(s, i, Cut(s, i) - 1)>>
SplitComponents(s) ==
  LET from[i \in Positions(s)] ==
        IF Cut(s, i) > Len(s) THEN Component(s, i) ELSE Component(s, i) \o from[Cut(s, i) + 1]
  IN  from[1]

\* A directory has "." and "..", and lists neither.
Listed(dir)  == {p[Len(p)] : p \in {q \in Tree \ {<<>>} : Take(q, Len(q) - 1) = dir}} \ DotNames
Hidden(name) == name[1] = "."

\* Mutant of Picked: names that begin with a dot are like any other.
PickedHidden(dir, pat) == {n \in Listed(dir) : FnMatch(pat, n)}
Picked(dir, pat) ==
  IF ~HasGlobChars(pat) THEN {n \in {pat} : Append(dir, n) \in Tree}
  ELSE {n \in Listed(dir) : (Hidden(n) => pat[1] = ".") /\ FnMatch(pat, n)}
Found(dir, pat) == {Append(dir, n) : n \in Picked(dir, pat)}

\* glob_recursive
GlobFrom(base, comps) ==
  LET below[k \in DOMAIN comps] ==
        [dir \in Dirs |->
           IF k = Len(comps) THEN Found(dir, comps[k])
           ELSE UNION {below[k + 1][d] : d \in Found(dir, comps[k]) \cap Dirs}]
  IN  IF comps = <<>> THEN {} ELSE below[1][base]
Glob(s) ==
  LET comps == SplitComponents(s)
  IN  IF s = <<>> THEN {}
      ELSE IF s[1] = "/" THEN (IF comps = <<>> THEN {<<>>} ELSE GlobFrom(<<>>, comps))
      ELSE GlobFrom(Cwd, comps)

-----------------------------------------------------------------------------
(* What patterns mean.  The elements of a pattern, from left to right, each *)
(* take a part of the text: a star any part, any other one character that   *)
(* it accepts.                                                              *)

\* Where the elements begin, from a position of the pattern on.
ElementsFrom(pat) ==
  LET from[i \in Positions(pat)] ==
        IF i > Len(pat) THEN <<>>
        ELSE <<i>> \o from[IF pat[i] = "*" THEN i + 1 ELSE After(pat, i)]
  IN  from
Elements(pat) == ElementsFrom(pat)[1]

\* The k-th element takes the text from cut[k] up to cut[k + 1].
Divides(pat, s, elements, cut) ==
  /\ cut[1] = 1 /\ cut[Len(elements) + 1] = Len(s) + 1
  /\ \A k \in 1 .. Len(elements) :
       IF pat[elements[k]] = "*" THEN cut[k] <= cut[k + 1]
       ELSE cut[k + 1] = cut[k] + 1 /\ Accepts(pat, elements[k], s[cut[k]])
Denotes(pat, s) ==
  LET elements == Elements(pat)
  IN  \E cut \in [1 .. Len(elements) + 1 -> Positions(s)] : Divides(pat, s, elements, cut)

\* ${value#pattern} and its kin remove a part of the value that the pattern
\* denotes, the shortest or the longest one.
Prefix(value, pat, greedy) ==
  LET parts == {n \in 0 .. Len(value) : Denotes(pat, Take(value, n))}
  IN  IF parts = {} THEN value ELSE Drop(value, IF greedy THEN Max(parts) ELSE Min(parts))
Suffix(value, pat, greedy) ==
  LET parts == {n \in 0 .. Len(value) : Denotes(pat, Drop(value, n))}
  IN  IF parts = {} THEN value ELSE Take(value, IF greedy THEN Min(parts) ELSE Max(parts))

\* The paths that a pattern denotes, a name for each of its components; a
\* hidden name only where its dot is written, "." and ".." only by name.
NameDenoted(pat, name) ==
  /\ Denotes(pat, name) /\ (Hidden(name) => pat[1] = ".")
  /\ name \in DotNames => pat = name
Paths(s) ==
  LET comps == SplitComponents(s)
      base  == IF s[1] = "/" THEN <<>> ELSE Cwd
  IN  {p \in Tree :
         /\ Len(p) = Len(base) + Len(comps) /\ Take(p, Len(base)) = base
         /\ \A k \in DOMAIN comps : NameDenoted(comps[k], p[Len(base) + k])}
=============================================================================
