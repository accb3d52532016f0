------------------------------ MODULE Matching ------------------------------
(***************************************************************************)
(* Patterns against texts and against the names of a file system.  A        *)
(* behaviour writes a pattern, an atom at a time, and matches a text with   *)
(* it; the invariants compare what fnmatch, glob and the trims make of them *)
(* (Pattern) with what patterns mean.                                       *)
(***************************************************************************)
EXTENDS Pattern

CONSTANTS
  Texts,      \* the texts that patterns are matched with
  Atoms,      \* of patterns: how one is written, and which characters it takes
  MaxAtoms    \* how many of them a pattern has at most

OneOf(text, chars) == [text |-> text, chars |-> chars]
Star  == OneOf(<<"*">>, {})
Slash == OneOf(<<"/">>, {"/"})

\* What stands alone for itself.
Ordinary == {c \in Chars : ~IsEscape(c) /\ c \notin {"*", "?", "[", "/"}}

\* From i to j a text has one character, t[j]; or two, with a dash between.
Single(t, i, j) == IF i = j THEN ~IsEscape(t[i]) ELSE j = i + 1 /\ IsEscape(t[i])
Dashed(t, i, p, j) ==
  t[p] = "-" /\ t[p + 1] # "]" /\ Single(t, i, p - 1) /\ Single(t, p + 1, j)
Covers(t, i, j, c) ==
  \/ Single(t, i, j) /\ c = t[j]
  \/ \E p \in i + 1 .. j - 1 : Dashed(t, i, p, j) /\ Ranks[c] \in Ranks[t[p - 1]] .. Ranks[t[j]]

\* The members of a bracket: the k-th is from first[k] up to the next one.  "]"
\* begins the first only, and a dash that follows a character is the last.
Members(t, n, first) ==
  /\ first[1] = (IF t[2] = "!" THEN 3 ELSE 2) /\ first[n + 1] = Len(t)
  /\ \A k \in 1 .. n :
       LET i == first[k]
           j == first[k + 1] - 1
       IN  /\ Single(t, i, j) \/ \E p \in i + 1 .. j - 1 : Dashed(t, i, p, j)
           /\ t[i] = "]" => k = 1
           /\ Single(t, i, j) /\ t[j + 1] = "-" => k + 1 = n /\ Len(t) = j + 2
Bracket(t, chars) ==
  /\ t[1] = "[" /\ t[Len(t)] = "]"
  /\ \E n \in 1 .. Len(t) - 2 : \E first \in [1 .. n + 1 -> 2 .. Len(t)] :
       /\ Members(t, n, first)
       /\ chars = {c \in Chars : (\E k \in 1 .. n : Covers(t, first[k], first[k + 1] - 1, c)) # (t[2] = "!")}

IsAtom(a) ==
  \/ a \in {Star, Slash, OneOf(<<"?">>, Chars)}
  \/ \E c \in Ordinary : a = OneOf(<<c>>, {c})
  \/ \E e \in {"\\", Escape}, c \in Chars : a = OneOf(<<e, c>>, {c})
  \/ a = OneOf(a.text, a.chars) /\ Bracket(a.text, a.chars)

ASSUME TextsAssumption == Texts \subseteq Seq(Chars)
ASSUME AtomsAssumption == \A a \in Atoms : IsAtom(a) /\ a.text \in Seq(Chars)

VARIABLES
  atoms,     \* of the pattern so far
  pattern,   \* as it is written
  text       \* that is matched with it

matchingVars == <<atoms, pattern, text>>

NoText == <<"none">>
MatchingInit == atoms = <<>> /\ pattern = <<>> /\ text = NoText

AddAtom(a) ==
  /\ text = NoText /\ Len(atoms) < MaxAtoms
  /\ atoms' = Append(atoms, a) /\ pattern' = pattern \o a.text
  /\ UNCHANGED text

Match(s) == text = NoText /\ text' = s /\ UNCHANGED <<atoms, pattern>>

MatchingNext == (\E a \in Atoms : AddAtom(a)) \/ \E s \in Texts : Match(s)

MatchingSpec == MatchingInit /\ [][MatchingNext]_matchingVars

MatchingTypeOK == atoms \in Seq(Atoms) /\ pattern \in Seq(Chars) /\ text \in Texts \cup {NoText}

-----------------------------------------------------------------------------
\* The components of a pattern are its longest parts without a slash.
Components ==
  {w \in (DOMAIN atoms) \X (DOMAIN atoms) :
     /\ w[1] <= w[2] /\ \A k \in w[1] .. w[2] : atoms[k] # Slash
     /\ w[1] > 1 => atoms[w[1] - 1] = Slash
     /\ w[2] < Len(atoms) => atoms[w[2] + 1] = Slash}
IsTextOf(t, piece) ==
  LET elements == Elements(t)
  IN  /\ Len(elements) = Len(piece)
      /\ \A k \in DOMAIN piece :
           LET end == IF k = Len(piece) THEN Len(t) ELSE elements[k + 1] - 1
           IN  SubSeq(t, elements[k], end) = piece[k].text

AreTextsOf(comps, pieces) ==
  \E of \in [DOMAIN comps -> pieces] :
    /\ pieces = {of[k] : k \in DOMAIN comps}
    /\ \A k \in DOMAIN comps :
         /\ IsTextOf(comps[k], SubSeq(atoms, of[k][1], of[k][2]))
         /\ k > 1 => of[k - 1][2] < of[k][1]

\* A slash that is escaped or in brackets is one to split_components.
SlashWithin == \E k \in DOMAIN atoms : atoms[k] # Slash /\ \E j \in DOMAIN atoms[k].text : atoms[k].text[j] = "/"

(* A pattern is read as the elements that it was written from, whatever     *)
(* brackets and escapes follow each other, and each takes the characters it *)
(* should (fnmatch_inner); its components are those between the slashes     *)
(* (split_components).                                                      *)
PatternRead ==
  text = NoText =>
    /\ IsTextOf(pattern, atoms)
    /\ \A k \in DOMAIN atoms : atoms[k] # Star =>
         \A c \in Chars : Accepts(pattern, Elements(pattern)[k], c) = (c \in atoms[k].chars)
    /\ ~SlashWithin => AreTextsOf(SplitComponents(pattern), Components)

(* fnmatch finds a match exactly where there is one, whatever stars,        *)
(* brackets and escapes follow each other (fnmatch_inner's backtracking),   *)
(* and ${v#p}, ${v##p}, ${v%p} and ${v%%p} remove the shortest or longest   *)
(* part that the pattern denotes; of the shortest ones, only where it       *)
(* denotes no empty text, which the code does not try.                      *)
PatternsDenoted ==
  text # NoText =>
    /\ FnMatch(pattern, text) = Denotes(pattern, text)
    /\ \A greedy \in BOOLEAN :
         (greedy \/ ~Denotes(pattern, <<>>)) =>
           /\ TrimPrefix(text, pattern, greedy) = Prefix(text, pattern, greedy)
           /\ TrimSuffix(text, pattern, greedy) = Suffix(text, pattern, greedy)

\* A component that is looked up keeps its escapes, and finds nothing.
LookedUpEscaped ==
  LET comps == SplitComponents(pattern)
  IN  \E i \in DOMAIN comps : ~HasGlobChars(comps[i]) /\ \E k \in DOMAIN comps[i] : IsEscape(comps[i][k])

(* Pathname expansion gives the existing paths that the pattern denotes, a  *)
(* component at a time, and no hidden one unless its dot is written (glob). *)
GlobPaths ==
  (text = NoText /\ pattern # <<>> /\ ~LookedUpEscaped) => Glob(pattern) = Paths(pattern)
=============================================================================
