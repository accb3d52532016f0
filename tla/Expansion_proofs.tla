-------------------------- MODULE Expansion_proofs --------------------------
(***************************************************************************)
(* Word expansion on texts: the code's matching, trimming and expansion of  *)
(* paths agree with what patterns mean, for every pattern, text and tree;   *)
(* a pattern is read as what it was written from; and the fields of a word  *)
(* are those of field splitting, for every word and IFS.                    *)
(*                                                                         *)
(* The model recurses over the positions of a pattern.  Such a function is  *)
(* shown to exist, as a fixed point, by Recursion; what it computes is      *)
(* then shown from the last position to the first (DownInduction): fnmatch  *)
(* accepts a rest of the text exactly where the remaining elements of the   *)
(* pattern divide it (MatchesDivided), and glob finds below a directory     *)
(* exactly what the remaining components denote (BelowDenoted).             *)
(*                                                                         *)
(* Spelled says where in a pattern each atom stands that it was written     *)
(* with; a bracket is read member by member (BracketRead), a pattern atom   *)
(* by atom (SpelledElements), and its components slash by slash             *)
(* (ComponentsFrom).                                                        *)
(*                                                                         *)
(* Field splitting is a pass over the items of a word, one step for each:   *)
(* PassInv says of every prefix of them that the fields made so far, the    *)
(* one in progress included, are those of the definition.                   *)
(***************************************************************************)
EXTENDS Matching, Splitting, Numbers, TLAPS

-----------------------------------------------------------------------------
(* What follows what in a pattern.                                          *)

\* The parts of a bracket, brackets and all other elements but stars take up
\* at least one character, and end with the pattern.
LEMMA MemberEnds ==
  ASSUME NEW pat \in Seq(Chars), NEW i \in 1 .. Len(pat)
  PROVE  MemberEnd(pat, i) \in (i + 1) .. (Len(pat) + 1)
<1>1. \A k \in 1 .. Len(pat) :
        /\ BracketChar(pat, k).next \in {k + 1, k + 2}
        /\ BracketChar(pat, k).next <= Len(pat) + 1
  BY DEF BracketChar
<1>2. CASE IsRange(pat, i)
  <2> DEFINE k == BracketChar(pat, i).next
  <2>1. k \in {i + 1, i + 2} /\ k < Len(pat)
    BY <1>1, <1>2 DEF IsRange
  <2>2. k + 1 \in 1 .. Len(pat)
    BY <2>1
  <2> QED BY <1>1, <1>2, <2>1, <2>2 DEF MemberEnd, RangeEnd
<1>3. CASE ~IsRange(pat, i)
  BY <1>1, <1>3 DEF MemberEnd
<1> QED BY <1>2, <1>3

LEMMA Firsts ==
  ASSUME NEW pat \in Seq(Chars), NEW i \in 1 .. Len(pat)
  PROVE  First(pat, i) \in (i + 1) .. (Len(pat) + 1)
BY DEF First, Negated

\* BracketEnd's function, as a fixed point of its body.
BracketEndStep(pat, i, end, k) ==
  IF k > Len(pat) THEN k
  ELSE IF pat[k] = "]" /\ k # First(pat, i) THEN k + 1
  ELSE end[MemberEnd(pat, k)]
BracketEnds(pat, i) ==
  CHOOSE end : end = [k \in Positions(pat) |-> BracketEndStep(pat, i, end, k)]

LEMMA BracketEndsDef ==
  ASSUME NEW pat \in Seq(Chars), NEW i \in 1 .. Len(pat)
  PROVE  BracketEnds(pat, i)
           = [k \in Positions(pat) |-> BracketEndStep(pat, i, BracketEnds(pat, i), k)]
<1> DEFINE D == Positions(pat)
           n == Len(pat) + 1
           F == [g \in [1 .. n -> D] |-> [k \in 1 .. n |-> BracketEndStep(pat, i, g, k)]]
<1>1. n \in Nat /\ n \in D /\ D = 1 .. n
  BY DEF Positions
<1>2. ASSUME NEW g \in [1 .. n -> D], NEW k \in 1 .. n
      PROVE  BracketEndStep(pat, i, g, k) \in D
  BY MemberEnds DEF BracketEndStep, Positions
<1>3. F \in [[1 .. n -> D] -> [1 .. n -> D]]
  BY <1>2
<1>4. ASSUME NEW g \in [1 .. n -> D], NEW h \in [1 .. n -> D], NEW k \in 1 .. n,
             \A l \in (k + 1) .. n : g[l] = h[l]
      PROVE  F[g][k] = F[h][k]
  <2>1. BracketEndStep(pat, i, g, k) = BracketEndStep(pat, i, h, k)
    <3>1. CASE k > Len(pat)
      BY <3>1 DEF BracketEndStep
    <3>2. CASE k <= Len(pat)
      <4>1. MemberEnd(pat, k) \in (k + 1) .. n
        BY <3>2, MemberEnds
      <4>2. g[MemberEnd(pat, k)] = h[MemberEnd(pat, k)]
        BY <1>4, <4>1
      <4> QED BY <4>2 DEF BracketEndStep
    <3> QED BY <1>1, <3>1, <3>2
  <2> QED BY <2>1
<1>5. \E end \in [1 .. n -> D] : end = F[end]
  <2> HIDE DEF F, D, n
  <2>1. \A g, h \in [1 .. n -> D] : \A k \in 1 .. n :
          (\A l \in (k + 1) .. n : g[l] = h[l]) => F[g][k] = F[h][k]
    BY <1>4
  <2>2. F \in FromLater(n, D)
    BY <1>3, <2>1 DEF FromLater
  <2>3. n \in Nat /\ D # {}
    BY <1>1
  <2> QED BY <2>2, <2>3, Recursion
<1>6. PICK end \in [1 .. n -> D] : end = F[end]
  BY <1>5
<1>7. end = [k \in Positions(pat) |-> BracketEndStep(pat, i, end, k)]
  BY <1>1, <1>6
<1> QED BY <1>7 DEF BracketEnds

LEMMA BracketEnding ==
  ASSUME NEW pat \in Seq(Chars), NEW i \in 1 .. Len(pat)
  PROVE  BracketEnd(pat, i) \in (i + 1) .. (Len(pat) + 1)
<1> DEFINE n == Len(pat) + 1
           end == BracketEnds(pat, i)
           T == {k \in 1 .. n : end[k] \in k .. n}
<1>1. n \in Nat /\ Positions(pat) = 1 .. n
  BY DEF Positions
<1>2. \A k \in 1 .. n : end[k] = BracketEndStep(pat, i, end, k)
  BY <1>1, BracketEndsDef
<1>3. ASSUME NEW k \in 1 .. n, \A l \in (k + 1) .. n : l \in T
      PROVE  k \in T
  <2>1. CASE k > Len(pat)
    BY <1>2, <2>1 DEF BracketEndStep
  <2>2. CASE k <= Len(pat)
    <3>1. MemberEnd(pat, k) \in (k + 1) .. n
      BY <2>2, MemberEnds
    <3>2. end[MemberEnd(pat, k)] \in MemberEnd(pat, k) .. n
      BY <1>3, <3>1
    <3>3. BracketEndStep(pat, i, end, k) \in {k + 1, end[MemberEnd(pat, k)]}
      BY <2>2 DEF BracketEndStep
    <3> HIDE DEF end
    <3> QED BY <1>1, <1>2, <2>2, <3>1, <3>2, <3>3
  <2> QED BY <2>1, <2>2
<1>4. \A k \in 1 .. n : k \in T
  <2> HIDE DEF T, n
  <2> QED BY <1>1, <1>3, DownInduction
<1>5. BracketEnd(pat, i) = end[First(pat, i)]
  BY DEF BracketEnd, BracketEnds, BracketEndStep
<1> QED BY <1>1, <1>4, <1>5, Firsts

LEMMA Afters ==
  ASSUME NEW pat \in Seq(Chars), NEW i \in 1 .. Len(pat)
  PROVE  After(pat, i) \in (i + 1) .. (Len(pat) + 1)
BY BracketEnding DEF After

\* A run of stars is skipped a star at a time.
LEMMA Skips ==
  ASSUME NEW pat \in Seq(Chars), NEW i \in 1 .. Len(pat), pat[i] = "*"
  PROVE  /\ SkipStars(pat, i) \in (i + 1) .. (Len(pat) + 1)
         /\ (i < Len(pat) /\ pat[i + 1] = "*") => SkipStars(pat, i) = SkipStars(pat, i + 1)
         /\ (i = Len(pat) \/ pat[i + 1] # "*") => SkipStars(pat, i) = i + 1
<1> DEFINE Ends(l) == {k \in l .. Len(pat) + 1 : k > Len(pat) \/ pat[k] # "*"}
<1>1. \A l \in 1 .. Len(pat) + 1 :
        /\ SkipStars(pat, l) \in Ends(l)
        /\ \A k \in Ends(l) : SkipStars(pat, l) <= k
  <2>1. SUFFICES ASSUME NEW l \in 1 .. Len(pat) + 1
                 PROVE  /\ SkipStars(pat, l) \in Ends(l)
                        /\ \A k \in Ends(l) : SkipStars(pat, l) <= k
    OBVIOUS
  <2>2. Len(pat) + 1 \in Ends(l) /\ Ends(l) \subseteq Nat
    OBVIOUS
  <2>3. \E m \in Ends(l) : \A k \in Ends(l) : m <= k
    <3> HIDE DEF Ends
    <3> QED BY <2>2, LeastNat
  <2> HIDE DEF Ends
  <2>4. Min(Ends(l)) \in Ends(l) /\ \A k \in Ends(l) : Min(Ends(l)) <= k
    BY <2>3 DEF Min
  <2> QED BY <2>4 DEF SkipStars, Ends
<1>2. SkipStars(pat, i) \in (i + 1) .. (Len(pat) + 1)
  BY <1>1
<1>3. ASSUME i < Len(pat), pat[i + 1] = "*"
      PROVE  SkipStars(pat, i) = SkipStars(pat, i + 1)
  <2>1. Ends(i) = Ends(i + 1)
    BY <1>3
  <2> QED BY <2>1 DEF SkipStars
<1>4. ASSUME i = Len(pat) \/ pat[i + 1] # "*"
      PROVE  SkipStars(pat, i) = i + 1
  <2>1. i + 1 \in Ends(i)
    BY <1>4
  <2> QED BY <1>1, <1>2, <2>1
<1> QED BY <1>2, <1>3, <1>4

-----------------------------------------------------------------------------
(* fnmatch finds what the elements of the pattern denote.                   *)

\* FnMatchInner's function and that of the elements are the fixed points of
\* their bodies.
MatchStep(pat, s, matches, i) ==
  IF i > Len(pat) THEN {Len(s) + 1}
  ELSE IF pat[i] = "*"
  THEN IF SkipStars(pat, i) > Len(pat) THEN Positions(s)
       ELSE {j \in Positions(s) : Tries(s, j, matches[SkipStars(pat, i)])}
  ELSE {j \in 1 .. Len(s) : Accepts(pat, i, s[j]) /\ j + 1 \in matches[After(pat, i)]}

LEMMA MatchesDef ==
  ASSUME NEW pat \in Seq(Chars), NEW s \in Seq(Chars)
  PROVE  /\ FnMatchInner(pat, s) \in [Positions(pat) -> SUBSET Positions(s)]
         /\ \A i \in Positions(pat) :
              FnMatchInner(pat, s)[i] = MatchStep(pat, s, FnMatchInner(pat, s), i)
<1> DEFINE V == SUBSET Positions(s)
           n == Len(pat) + 1
           F == [g \in [1 .. n -> V] |-> [i \in 1 .. n |-> MatchStep(pat, s, g, i)]]
<1>1. n \in Nat /\ V # {} /\ Positions(pat) = 1 .. n
  <2>1. {} \in V
    OBVIOUS
  <2>2. V # {}
    BY <2>1
  <2> QED BY <2>2 DEF Positions
<1>2. ASSUME NEW g \in [1 .. n -> V], NEW i \in 1 .. n
      PROVE  MatchStep(pat, s, g, i) \in V
  <2>1. Len(s) + 1 \in Positions(s) /\ 1 .. Len(s) \subseteq Positions(s)
    BY DEF Positions
  <2> QED BY <2>1 DEF MatchStep
<1>3. F \in [[1 .. n -> V] -> [1 .. n -> V]]
  BY <1>2
<1>4. ASSUME NEW g \in [1 .. n -> V], NEW h \in [1 .. n -> V], NEW i \in 1 .. n,
             \A l \in (i + 1) .. n : g[l] = h[l]
      PROVE  F[g][i] = F[h][i]
  <2>1. MatchStep(pat, s, g, i) = MatchStep(pat, s, h, i)
    <3>1. CASE i > Len(pat)
      BY <3>1 DEF MatchStep
    <3>2. CASE i <= Len(pat) /\ pat[i] = "*"
      <4>1. SkipStars(pat, i) \in (i + 1) .. n
        BY <3>2, Skips
      <4>2. g[SkipStars(pat, i)] = h[SkipStars(pat, i)]
        BY <1>4, <4>1
      <4> QED BY <3>2, <4>2 DEF MatchStep
    <3>3. CASE i <= Len(pat) /\ pat[i] # "*"
      <4>1. After(pat, i) \in (i + 1) .. n
        BY <3>3, Afters
      <4>2. g[After(pat, i)] = h[After(pat, i)]
        BY <1>4, <4>1
      <4> QED BY <3>3, <4>2 DEF MatchStep
    <3> QED BY <3>1, <3>2, <3>3
  <2> QED BY <2>1
<1>5. \E m \in [1 .. n -> V] : m = F[m]
  <2> HIDE DEF F, V, n
  <2>1. \A g, h \in [1 .. n -> V] : \A i \in 1 .. n :
          (\A l \in (i + 1) .. n : g[l] = h[l]) => F[g][i] = F[h][i]
    BY <1>4
  <2>2. F \in FromLater(n, V)
    BY <1>3, <2>1 DEF FromLater
  <2>3. n \in Nat /\ V # {}
    BY <1>1
  <2> QED BY <2>2, <2>3, Recursion
<1>6. PICK m \in [1 .. n -> V] : m = F[m]
  BY <1>5
<1>7. m = [i \in Positions(pat) |-> MatchStep(pat, s, m, i)]
  BY <1>1, <1>6
<1>8. FnMatchInner(pat, s)
        = CHOOSE f : f = [i \in Positions(pat) |-> MatchStep(pat, s, f, i)]
  BY DEF FnMatchInner, MatchStep
<1>9. FnMatchInner(pat, s)
        = [i \in Positions(pat) |-> MatchStep(pat, s, FnMatchInner(pat, s), i)]
  BY <1>7, <1>8
<1>10. \A i \in Positions(pat) : FnMatchInner(pat, s)[i] \in V
  <2>1. \A i \in Positions(pat) : MatchStep(pat, s, FnMatchInner(pat, s), i) \in V
    <3>1. Len(s) + 1 \in Positions(s) /\ 1 .. Len(s) \subseteq Positions(s)
      BY DEF Positions
    <3> QED BY <3>1 DEF MatchStep
  <2> QED BY <1>9, <2>1
<1> QED BY <1>9, <1>10

Following(pat, i) == IF pat[i] = "*" THEN i + 1 ELSE After(pat, i)
ElementsStep(pat, from, i) ==
  IF i > Len(pat) THEN <<>> ELSE <<i>> \o from[Following(pat, i)]

LEMMA Follows ==
  ASSUME NEW pat \in Seq(Chars), NEW i \in 1 .. Len(pat)
  PROVE  Following(pat, i) \in (i + 1) .. (Len(pat) + 1)
BY Afters DEF Following

LEMMA ElementsDef ==
  ASSUME NEW pat \in Seq(Chars)
  PROVE  \A i \in Positions(pat) :
           /\ ElementsFrom(pat)[i] \in Seq(Positions(pat))
           /\ ElementsFrom(pat)[i] = ElementsStep(pat, ElementsFrom(pat), i)
<1> DEFINE V == Seq(Positions(pat))
           n == Len(pat) + 1
           F == [g \in [1 .. n -> V] |-> [i \in 1 .. n |-> ElementsStep(pat, g, i)]]
<1>1. n \in Nat /\ V # {} /\ Positions(pat) = 1 .. n
  <2>1. <<>> \in V
    OBVIOUS
  <2>2. V # {}
    BY <2>1
  <2> QED BY <2>2 DEF Positions
<1>2. ASSUME NEW g, NEW i \in 1 .. n, i <= Len(pat) => g[Following(pat, i)] \in V
      PROVE  ElementsStep(pat, g, i) \in V
  <2>1. \A rest \in Seq(Positions(pat)) : <<i>> \o rest \in Seq(Positions(pat))
    BY <1>1
  <2>2. CASE i > Len(pat)
    BY <2>2 DEF ElementsStep
  <2>3. CASE i <= Len(pat)
    BY <1>2, <2>1, <2>3 DEF ElementsStep
  <2> QED BY <2>2, <2>3
<1>3. F \in [[1 .. n -> V] -> [1 .. n -> V]]
  BY <1>2, Follows
<1>4. ASSUME NEW g \in [1 .. n -> V], NEW h \in [1 .. n -> V], NEW i \in 1 .. n,
             \A l \in (i + 1) .. n : g[l] = h[l]
      PROVE  F[g][i] = F[h][i]
  <2>1. ElementsStep(pat, g, i) = ElementsStep(pat, h, i)
    BY <1>4, Follows DEF ElementsStep
  <2> QED BY <2>1
<1>5. \E m \in [1 .. n -> V] : m = F[m]
  <2> HIDE DEF F, V, n
  <2>1. \A g, h \in [1 .. n -> V] : \A i \in 1 .. n :
          (\A l \in (i + 1) .. n : g[l] = h[l]) => F[g][i] = F[h][i]
    BY <1>4
  <2>2. F \in FromLater(n, V)
    BY <1>3, <2>1 DEF FromLater
  <2>3. n \in Nat /\ V # {}
    BY <1>1
  <2> QED BY <2>2, <2>3, Recursion
<1>6. PICK m \in [1 .. n -> V] : m = F[m]
  BY <1>5
<1>7. m = [i \in Positions(pat) |-> ElementsStep(pat, m, i)]
  BY <1>1, <1>6
<1>8. ElementsFrom(pat)
        = CHOOSE f : f = [i \in Positions(pat) |-> ElementsStep(pat, f, i)]
  BY DEF ElementsFrom, ElementsStep, Following
<1>9. ElementsFrom(pat)
        = [i \in Positions(pat) |-> ElementsStep(pat, ElementsFrom(pat), i)]
  BY <1>7, <1>8
<1>10. \A i \in 1 .. n : ElementsFrom(pat)[i] = ElementsStep(pat, ElementsFrom(pat), i)
  BY <1>1, <1>9
<1> DEFINE T == {i \in 1 .. n : ElementsFrom(pat)[i] \in V}
<1>11. ASSUME NEW i \in 1 .. n, \A l \in (i + 1) .. n : l \in T
       PROVE  i \in T
  <2>1. i <= Len(pat) => Following(pat, i) \in (i + 1) .. n
    BY Follows
  <2>2. i <= Len(pat) => ElementsFrom(pat)[Following(pat, i)] \in V
    BY <1>11, <2>1
  <2>3. ElementsStep(pat, ElementsFrom(pat), i) \in V
    <3> HIDE DEF V
    <3> QED BY <1>2, <2>2
  <2> QED BY <1>10, <2>3
<1>12. \A i \in 1 .. n : i \in T
  <2> HIDE DEF T, n
  <2> QED BY <1>1, <1>11, DownInduction
<1> QED BY <1>1, <1>10, <1>12

\* Elements divide the text from j on; the first takes it from j up to k.
Taken(pat, s, e, j, k) ==
  IF pat[e] = "*" THEN j <= k ELSE k = j + 1 /\ Accepts(pat, e, s[j])
DividesFrom(pat, s, j, elements, cut) ==
  /\ cut[1] = j /\ cut[Len(elements) + 1] = Len(s) + 1
  /\ \A k \in 1 .. Len(elements) : Taken(pat, s, elements[k], cut[k], cut[k + 1])
Divided(pat, s, j, elements) ==
  \E cut \in [1 .. Len(elements) + 1 -> Positions(s)] : DividesFrom(pat, s, j, elements, cut)

LEMMA DividedEmpty ==
  ASSUME NEW pat, NEW s \in Seq(Chars), NEW j \in Positions(s)
  PROVE  Divided(pat, s, j, <<>>) <=> j = Len(s) + 1
<1>1. ASSUME j = Len(s) + 1 PROVE Divided(pat, s, j, <<>>)
  <2> DEFINE cut == [k \in 1 .. Len(<<>>) + 1 |-> j]
  <2>1. cut \in [1 .. Len(<<>>) + 1 -> Positions(s)]
    OBVIOUS
  <2>2. DividesFrom(pat, s, j, <<>>, cut)
    BY <1>1 DEF DividesFrom
  <2> QED BY <2>1, <2>2 DEF Divided
<1>2. ASSUME Divided(pat, s, j, <<>>) PROVE j = Len(s) + 1
  BY <1>2 DEF Divided, DividesFrom
<1> QED BY <1>1, <1>2

LEMMA DividedCons ==
  ASSUME NEW pat, NEW s \in Seq(Chars), NEW j \in Positions(s),
         NEW e \in Positions(pat), NEW rest \in Seq(Positions(pat))
  PROVE  Divided(pat, s, j, <<e>> \o rest)
           <=> \E k \in Positions(s) : Taken(pat, s, e, j, k) /\ Divided(pat, s, k, rest)
<1> DEFINE all == <<e>> \o rest
           n == Len(rest)
<1>1. /\ n \in Nat /\ Len(all) = n + 1 /\ all[1] = e
      /\ \A l \in 1 .. n : all[l + 1] = rest[l]
  OBVIOUS
<1> HIDE DEF all
<1>2. ASSUME Divided(pat, s, j, all)
      PROVE  \E k \in Positions(s) : Taken(pat, s, e, j, k) /\ Divided(pat, s, k, rest)
  <2>1. PICK cut \in [1 .. n + 2 -> Positions(s)] : DividesFrom(pat, s, j, all, cut)
    BY <1>1, <1>2 DEF Divided
  <2>2. /\ cut[1] = j /\ cut[n + 2] = Len(s) + 1
        /\ \A l \in 1 .. n + 1 : Taken(pat, s, all[l], cut[l], cut[l + 1])
    BY <1>1, <2>1 DEF DividesFrom
  <2> DEFINE tail == [l \in 1 .. n + 1 |-> cut[l + 1]]
  <2>3. tail \in [1 .. n + 1 -> Positions(s)]
    BY <1>1
  <2>4. tail[1] = cut[2] /\ tail[n + 1] = Len(s) + 1
    BY <1>1, <2>2
  <2>5. ASSUME NEW l \in 1 .. n
        PROVE  Taken(pat, s, rest[l], tail[l], tail[l + 1])
    <3>1. tail[l] = cut[l + 1] /\ tail[l + 1] = cut[(l + 1) + 1] /\ l + 1 \in 1 .. n + 1
      BY <1>1
    <3> QED BY <1>1, <2>2, <3>1
  <2> HIDE DEF tail
  <2>6. DividesFrom(pat, s, cut[2], rest, tail)
    BY <2>4, <2>5 DEF DividesFrom
  <2>7. Divided(pat, s, cut[2], rest)
    BY <2>3, <2>6 DEF Divided
  <2>8. Taken(pat, s, e, j, cut[2]) /\ cut[2] \in Positions(s)
    BY <1>1, <2>2
  <2> QED BY <2>7, <2>8
<1>3. ASSUME NEW k \in Positions(s), Taken(pat, s, e, j, k), Divided(pat, s, k, rest)
      PROVE  Divided(pat, s, j, all)
  <2>1. PICK tail \in [1 .. n + 1 -> Positions(s)] : DividesFrom(pat, s, k, rest, tail)
    BY <1>3 DEF Divided
  <2>2. /\ tail[1] = k /\ tail[n + 1] = Len(s) + 1
        /\ \A l \in 1 .. n : Taken(pat, s, rest[l], tail[l], tail[l + 1])
    BY <2>1 DEF DividesFrom
  <2> DEFINE cut == [l \in 1 .. n + 2 |-> IF l = 1 THEN j ELSE tail[l - 1]]
  <2>3. cut \in [1 .. n + 2 -> Positions(s)]
    BY <1>1
  <2>4. cut[1] = j /\ cut[n + 2] = Len(s) + 1
    BY <1>1, <2>2
  <2>5. ASSUME NEW l \in 1 .. n + 1
        PROVE  Taken(pat, s, all[l], cut[l], cut[l + 1])
    <3>1. cut[l + 1] = tail[l]
      BY <1>1
    <3>2. CASE l = 1
      BY <1>1, <1>3, <2>2, <2>4, <3>1, <3>2
    <3>3. CASE l # 1
      <4>1. l - 1 \in 1 .. n /\ (l - 1) + 1 = l /\ cut[l] = tail[l - 1]
        BY <1>1, <3>3
      <4>2. all[l] = rest[l - 1]
        BY <1>1, <4>1
      <4>3. Taken(pat, s, rest[l - 1], tail[l - 1], tail[l])
        BY <2>2, <4>1
      <4> QED BY <3>1, <4>1, <4>2, <4>3
    <3> QED BY <3>2, <3>3
  <2> HIDE DEF cut
  <2>6. DividesFrom(pat, s, j, all, cut)
    BY <1>1, <2>4, <2>5 DEF DividesFrom
  <2> QED BY <1>1, <2>3, <2>6 DEF Divided
<1> QED BY <1>2, <1>3 DEF all

\* A star matches from j on if what follows its run does from some later
\* position on.
LEMMA StarMatches ==
  ASSUME NEW pat \in Seq(Chars), NEW s \in Seq(Chars),
         NEW i \in 1 .. Len(pat), pat[i] = "*", NEW j \in Positions(s)
  PROVE  j \in FnMatchInner(pat, s)[i]
           <=> \/ SkipStars(pat, i) > Len(pat)
               \/ \E k \in Positions(s) : j <= k /\ k \in FnMatchInner(pat, s)[SkipStars(pat, i)]
<1> DEFINE m == FnMatchInner(pat, s)
           next == SkipStars(pat, i)
<1>1. /\ Positions(pat) = 1 .. Len(pat) + 1
      /\ Positions(s) = 1 .. Len(s) + 1 /\ Len(s) \in Nat /\ Len(pat) \in Nat
  BY DEF Positions
<1>2. m[i] = MatchStep(pat, s, m, i)
  BY <1>1, MatchesDef
<1>3. next \in Nat
  BY Skips
<1>4. SUFFICES j \in m[i] <=> next > Len(pat) \/ \E k \in Positions(s) : j <= k /\ k \in m[next]
  OBVIOUS
<1> HIDE DEF m
<1>5. CASE next > Len(pat)
  <2>1. m[i] = Positions(s)
    BY <1>1, <1>2, <1>5 DEF MatchStep
  <2> QED BY <1>5, <2>1
<1>6. CASE ~(next > Len(pat))
  <2>1. m[i] = {t \in Positions(s) : Tries(s, t, m[next])}
    BY <1>1, <1>2, <1>6 DEF MatchStep
  <2>2. Tries(s, j, m[next]) <=> \E k \in Positions(s) : j <= k /\ k \in m[next]
    BY <1>1 DEF Tries
  <2> HIDE DEF next
  <2> QED BY <1>6, <2>1, <2>2
<1> QED BY <1>5, <1>6

\* From position i of the pattern on, fnmatch_inner matches the rest of the
\* text from j on if and only if the elements from i on divide it.
LEMMA MatchesDivided ==
  ASSUME NEW pat \in Seq(Chars), NEW s \in Seq(Chars)
  PROVE  \A i \in Positions(pat) : \A j \in Positions(s) :
           j \in FnMatchInner(pat, s)[i] <=> Divided(pat, s, j, ElementsFrom(pat)[i])
<1> DEFINE n == Len(pat) + 1
           m == FnMatchInner(pat, s)
           from == ElementsFrom(pat)
           T == {i \in 1 .. n : \A j \in Positions(s) : j \in m[i] <=> Divided(pat, s, j, from[i])}
<1>1. /\ n \in Nat /\ Positions(pat) = 1 .. n
      /\ Positions(s) = 1 .. Len(s) + 1 /\ Len(s) \in Nat
  BY DEF Positions
<1>2. \A i \in 1 .. n : m[i] = MatchStep(pat, s, m, i)
  BY <1>1, MatchesDef
<1>3. \A i \in 1 .. n : from[i] \in Seq(Positions(pat)) /\ from[i] = ElementsStep(pat, from, i)
  BY <1>1, ElementsDef
<1> HIDE DEF m, from
<1>4. ASSUME NEW i \in 1 .. n, \A l \in (i + 1) .. n : l \in T
      PROVE  i \in T
  <2> SUFFICES ASSUME NEW j \in Positions(s)
               PROVE  j \in m[i] <=> Divided(pat, s, j, from[i])
    OBVIOUS
  <2>1. CASE i > Len(pat)
    <3>1. m[i] = {Len(s) + 1} /\ from[i] = <<>>
      BY <1>2, <1>3, <2>1 DEF MatchStep, ElementsStep
    <3> QED BY <3>1, DividedEmpty
  <2>2. CASE i <= Len(pat)
    <3> DEFINE next == Following(pat, i)
    <3>1. next \in (i + 1) .. n
      BY <2>2, Follows
    <3>2. \A k \in Positions(s) : k \in m[next] <=> Divided(pat, s, k, from[next])
      BY <1>4, <3>1
    <3>3. from[i] = <<i>> \o from[next]
      <4>1. ~(i > Len(pat))
        BY <2>2
      <4>2. ElementsStep(pat, from, i) = <<i>> \o from[next]
        BY <4>1, Zenon DEF ElementsStep
      <4> QED BY <1>3, <4>2, Zenon
    <3>4. from[next] \in Seq(Positions(pat)) /\ i \in Positions(pat)
      BY <1>1, <1>3, <3>1
    <3>5. Divided(pat, s, j, from[i])
            <=> \E k \in Positions(s) : Taken(pat, s, i, j, k) /\ k \in m[next]
      <4> HIDE DEF next
      <4> QED BY <3>2, <3>3, <3>4, DividedCons
    <3>6. CASE pat[i] # "*"
      <4>1. next = After(pat, i)
        BY <3>6 DEF Following
      <4>0. m[i] = {t \in 1 .. Len(s) : Accepts(pat, i, s[t]) /\ t + 1 \in m[next]}
        <5>1. ~(i > Len(pat))
          BY <2>2
        <5>2. MatchStep(pat, s, m, i)
                = {t \in 1 .. Len(s) : Accepts(pat, i, s[t]) /\ t + 1 \in m[After(pat, i)]}
          BY <3>6, <5>1, Zenon DEF MatchStep
        <5> QED BY <1>2, <4>1, <5>2
      <4>2. j \in m[i] <=> j \in 1 .. Len(s) /\ Accepts(pat, i, s[j]) /\ j + 1 \in m[next]
        BY <4>0
      <4>3. Divided(pat, s, j, from[i])
              <=> \E k \in Positions(s) : k = j + 1 /\ Accepts(pat, i, s[j]) /\ k \in m[next]
        BY <3>5, <3>6 DEF Taken
      <4> HIDE DEF next
      <4> QED BY <1>1, <4>2, <4>3
    <3>7. CASE pat[i] = "*"
      <4>1. next = i + 1
        BY <3>7 DEF Following
      <4>2. Divided(pat, s, j, from[i]) <=> \E k \in Positions(s) : j <= k /\ k \in m[i + 1]
        BY <3>5, <3>7, <4>1 DEF Taken
      <4>3. \A l \in 1 .. Len(pat) : pat[l] = "*" => \A t \in Positions(s) :
              t \in m[l] <=> \/ SkipStars(pat, l) > Len(pat)
                             \/ \E k \in Positions(s) : t <= k /\ k \in m[SkipStars(pat, l)]
        BY StarMatches DEF m
      <4>4. SkipStars(pat, i) \in (i + 1) .. n
        BY <2>2, <3>7, Skips
      <4> HIDE DEF next
      <4> HIDE DEF n
      <4>5. CASE i < Len(pat) /\ pat[i + 1] = "*"
        <5>1. SkipStars(pat, i) = SkipStars(pat, i + 1)
          BY <3>7, <4>5, Skips
        <5>2. i \in 1 .. Len(pat) /\ i + 1 \in 1 .. Len(pat)
          BY <4>5
        <5>3. \A t \in Positions(s) : t \in m[i] <=> t \in m[i + 1]
          BY <3>7, <4>3, <4>5, <5>1, <5>2
        <5>4. ASSUME NEW k \in Positions(s), j <= k, k \in m[i] PROVE j \in m[i]
          <6>1. CASE SkipStars(pat, i) > Len(pat)
            BY <3>7, <4>3, <5>2, <6>1
          <6>2. CASE ~(SkipStars(pat, i) > Len(pat))
            <7>1. PICK l \in Positions(s) : k <= l /\ l \in m[SkipStars(pat, i)]
              BY <3>7, <4>3, <5>2, <5>4, <6>2
            <7>2. j <= l
              BY <1>1, <5>4, <7>1
            <7> QED BY <3>7, <4>3, <5>2, <7>1, <7>2
          <6> QED BY <6>1, <6>2
        <5>5. j \in m[i] => \E k \in Positions(s) : j <= k /\ k \in m[i]
          BY <1>1
        <5> QED BY <4>2, <5>3, <5>4, <5>5
      <4>6. CASE i = Len(pat)
        <5>1. SkipStars(pat, i) > Len(pat)
          BY <4>4, <4>6
        <5>2. j \in m[i]
          BY <2>2, <3>7, <4>3, <5>1
        <5>3. m[i + 1] = {Len(s) + 1}
          <6>1. i + 1 \in 1 .. n /\ i + 1 > Len(pat)
            BY <4>6 DEF n
          <6> QED BY <1>2, <6>1 DEF MatchStep
        <5> QED BY <1>1, <4>2, <5>2, <5>3
      <4>7. CASE i < Len(pat) /\ pat[i + 1] # "*"
        <5>1. SkipStars(pat, i) = i + 1
          BY <3>7, <4>7, Skips
        <5>2. ~(i + 1 > Len(pat)) /\ i \in 1 .. Len(pat)
          BY <4>7
        <5>3. j \in m[i] <=> \E k \in Positions(s) : j <= k /\ k \in m[i + 1]
          BY <3>7, <4>3, <5>1, <5>2
        <5> QED BY <4>2, <5>3
      <4> QED BY <2>2, <4>5, <4>6, <4>7
    <3> QED BY <3>6, <3>7
  <2> QED BY <1>1, <2>1, <2>2
<1>5. \A i \in 1 .. n : i \in T
  <2> HIDE DEF T, n
  <2> QED BY <1>1, <1>4, DownInduction
<1> QED BY <1>1, <1>5 DEF m, from

LEMMA FnMatchDenotes ==
  ASSUME NEW pat \in Seq(Chars), NEW s \in Seq(Chars)
  PROVE  FnMatch(pat, s) = Denotes(pat, s)
<1> DEFINE elements == Elements(pat)
<1>1. 1 \in Positions(pat) /\ 1 \in Positions(s)
  BY DEF Positions
<1>2. FnMatch(pat, s) <=> Divided(pat, s, 1, elements)
  BY <1>1, MatchesDivided DEF FnMatch, Elements
<1>3. Denotes(pat, s) <=> Divided(pat, s, 1, elements)
  BY Zenon DEF Denotes, Divides, Divided, DividesFrom, Taken
<1>4. FnMatch(pat, s) \in BOOLEAN /\ Denotes(pat, s) \in BOOLEAN
  BY DEF FnMatch, Denotes
<1> QED BY <1>2, <1>3, <1>4

-----------------------------------------------------------------------------
(* The trims.                                                               *)

\* Leaving out the last of several numbers does not change the first one.
LEMMA ExtremesWithout ==
  ASSUME NEW n \in Nat, NEW S \in SUBSET (0 .. n)
  PROVE  /\ S \ {0} # {} => Max(S \ {0}) = Max(S)
         /\ S \ {n} # {} => Min(S \ {n}) = Min(S)
<1>1. ASSUME S \ {0} # {} PROVE Max(S \ {0}) = Max(S)
  <2>1. Max(S) \in S /\ \A k \in S : Max(S) >= k
    BY <1>1, Extremes
  <2>2. Max(S \ {0}) \in S \ {0} /\ \A k \in S \ {0} : Max(S \ {0}) >= k
    BY <1>1, Extremes
  <2>3. Max(S) \in 0 .. n /\ Max(S \ {0}) \in 0 .. n /\ Max(S \ {0}) # 0
    BY <2>1, <2>2
  <2>4. Max(S) >= Max(S \ {0})
    BY <2>1, <2>2
  <2>5. Max(S) \in S \ {0}
    BY <2>1, <2>3, <2>4
  <2>6. Max(S \ {0}) >= Max(S)
    BY <2>2, <2>5
  <2> QED BY <2>3, <2>4, <2>6
<1>2. ASSUME S \ {n} # {} PROVE Min(S \ {n}) = Min(S)
  <2>1. Min(S) \in S /\ \A k \in S : Min(S) <= k
    BY <1>2, Extremes
  <2>2. Min(S \ {n}) \in S \ {n} /\ \A k \in S \ {n} : Min(S \ {n}) <= k
    BY <1>2, Extremes
  <2>3. Min(S) \in 0 .. n /\ Min(S \ {n}) \in 0 .. n /\ Min(S \ {n}) # n
    BY <2>1, <2>2
  <2>4. Min(S) <= Min(S \ {n})
    BY <2>1, <2>2
  <2>5. Min(S) \in S \ {n}
    BY <2>1, <2>3, <2>4
  <2>6. Min(S \ {n}) <= Min(S)
    BY <2>2, <2>5
  <2> QED BY <2>3, <2>4, <2>6
<1> QED BY <1>1, <1>2

LEMMA Parts ==
  ASSUME NEW s \in Seq(Chars), NEW n \in 0 .. Len(s)
  PROVE  /\ Take(s, n) \in Seq(Chars) /\ Drop(s, n) \in Seq(Chars)
         /\ Take(s, 0) = <<>> /\ Drop(s, Len(s)) = <<>>
         /\ Drop(s, 0) = s /\ Take(s, Len(s)) = s
BY DEF Take, Drop

LEMMA TrimsDenote ==
  ASSUME NEW pat \in Seq(Chars), NEW s \in Seq(Chars), NEW greedy \in BOOLEAN,
         greedy \/ ~Denotes(pat, <<>>)
  PROVE  /\ TrimPrefix(s, pat, greedy) = Prefix(s, pat, greedy)
         /\ TrimSuffix(s, pat, greedy) = Suffix(s, pat, greedy)
<1> DEFINE len == Len(s)
<1>1. len \in Nat
  OBVIOUS
<1>2. TrimPrefix(s, pat, greedy) = Prefix(s, pat, greedy)
  <2> DEFINE hits  == {n \in 1 .. len : FnMatch(pat, Take(s, n))}
             parts == {n \in 0 .. len : Denotes(pat, Take(s, n))}
  <2>1. hits = parts \ {0}
    BY <1>1, FnMatchDenotes, Parts
  <2>2. parts \in SUBSET (0 .. len) /\ (0 \in parts => Denotes(pat, <<>>))
    BY Parts
  <2>3. /\ TrimPrefix(s, pat, greedy) = IF hits = {} THEN s
                                        ELSE Drop(s, IF greedy THEN Max(hits) ELSE Min(hits))
        /\ Prefix(s, pat, greedy) = IF parts = {} THEN s
                                    ELSE Drop(s, IF greedy THEN Max(parts) ELSE Min(parts))
    BY DEF TrimPrefix, Prefix
  <2> HIDE DEF hits, parts, len
  <2>4. CASE 0 \notin parts
    <3>1. hits = parts
      BY <2>1, <2>4
    <3> QED BY <2>3, <3>1
  <2>5. CASE 0 \in parts /\ hits = {}
    <3>1. parts = {0} /\ Max(parts) = 0
      BY <1>1, <2>1, <2>2, <2>5, Extremes
    <3> QED BY <2>2, <2>3, <2>5, <3>1, Parts
  <2>6. CASE 0 \in parts /\ hits # {}
    BY <1>1, <2>1, <2>2, <2>3, <2>6, ExtremesWithout
  <2> QED BY <2>4, <2>5, <2>6
<1>3. TrimSuffix(s, pat, greedy) = Suffix(s, pat, greedy)
  <2> DEFINE hits  == {n \in 0 .. len - 1 : FnMatch(pat, Drop(s, n))}
             parts == {n \in 0 .. len : Denotes(pat, Drop(s, n))}
  <2>1. hits = parts \ {len}
    BY <1>1, FnMatchDenotes, Parts
  <2>2. parts \in SUBSET (0 .. len) /\ (len \in parts => Denotes(pat, <<>>))
    BY Parts
  <2>3. /\ TrimSuffix(s, pat, greedy) = IF hits = {} THEN s
                                        ELSE Take(s, IF greedy THEN Min(hits) ELSE Max(hits))
        /\ Suffix(s, pat, greedy) = IF parts = {} THEN s
                                    ELSE Take(s, IF greedy THEN Min(parts) ELSE Max(parts))
    BY DEF TrimSuffix, Suffix
  <2>4. Take(s, len) = s
    BY Parts
  <2> HIDE DEF hits, parts, len
  <2>5. CASE len \notin parts
    <3>1. hits = parts
      BY <2>1, <2>5
    <3> QED BY <2>3, <3>1
  <2>6. CASE len \in parts /\ hits = {}
    <3>1. parts = {len} /\ Min(parts) = len
      BY <1>1, <2>1, <2>2, <2>6, Extremes
    <3> QED BY <2>2, <2>3, <2>4, <2>6, <3>1
  <2>7. CASE len \in parts /\ hits # {}
    BY <1>1, <2>1, <2>2, <2>3, <2>7, ExtremesWithout
  <2> QED BY <2>5, <2>6, <2>7
<1> QED BY <1>2, <1>3

-----------------------------------------------------------------------------
(* The components of a pattern.                                             *)

LEMMA Cuts ==
  ASSUME NEW s \in Seq(Chars), NEW i \in Positions(s)
  PROVE  Cut(s, i) \in i .. Len(s) + 1 /\ (i <= Len(s) /\ s[i] # "/" => Cut(s, i) # i)
<1> DEFINE S == {n \in i .. Len(s) + 1 : n > Len(s) \/ s[n] = "/"}
<1>1. S \in SUBSET (0 .. Len(s) + 1) /\ Len(s) + 1 \in S /\ Len(s) + 1 \in Nat
  BY DEF Positions
<1>2. Min(S) \in S
  <2> HIDE DEF S
  <2> QED BY <1>1, Extremes
<1> QED BY <1>1, <1>2 DEF Cut

SplitStep(s, from, i) ==
  IF Cut(s, i) > Len(s) THEN Component(s, i) ELSE Component(s, i) \o from[Cut(s, i) + 1]
Split(s) == CHOOSE from : from = [i \in Positions(s) |-> SplitStep(s, from, i)]

LEMMA ComponentTypes ==
  ASSUME NEW s \in Seq(Chars), NEW i \in Positions(s)
  PROVE  /\ Component(s, i) \in Seq(Seq(Chars))
         /\ i <= Len(s) /\ s[i] # "/" => Len(Component(s, i)) = 1
<1>1. Cut(s, i) \in i .. Len(s) + 1
  BY Cuts
<1>2. SubSeq(s, i, Cut(s, i) - 1) \in Seq(Chars)
  BY <1>1 DEF Positions
<1>3. CASE i = Cut(s, i)
  BY <1>3, Cuts DEF Component
<1>4. CASE i # Cut(s, i)
  <2>1. Component(s, i) = <<SubSeq(s, i, Cut(s, i) - 1)>>
    BY <1>4 DEF Component
  <2> QED BY <1>2, <2>1
<1> QED BY <1>3, <1>4

LEMMA SplitDef ==
  ASSUME NEW s \in Seq(Chars)
  PROVE  /\ SplitComponents(s) = Split(s)[1]
         /\ \A i \in Positions(s) :
              Split(s)[i] \in Seq(Seq(Chars)) /\ Split(s)[i] = SplitStep(s, Split(s), i)
<1> DEFINE V == Seq(Seq(Chars))
           n == Len(s) + 1
           F == [g \in [1 .. n -> V] |-> [i \in 1 .. n |-> SplitStep(s, g, i)]]
<1>1. n \in Nat /\ V # {} /\ Positions(s) = 1 .. n
  <2>1. <<>> \in V
    OBVIOUS
  <2>2. V # {}
    BY <2>1
  <2> QED BY <2>2 DEF Positions
<1>2. ASSUME NEW i \in 1 .. n, ~(Cut(s, i) > Len(s))
      PROVE  Cut(s, i) + 1 \in (i + 1) .. n
  BY <1>1, <1>2, Cuts
<1>3. ASSUME NEW g, NEW i \in 1 .. n, ~(Cut(s, i) > Len(s)) => g[Cut(s, i) + 1] \in V
      PROVE  SplitStep(s, g, i) \in V
  <2>1. Component(s, i) \in V
    BY <1>1, ComponentTypes
  <2>2. \A rest \in V : Component(s, i) \o rest \in V
    BY <2>1
  <2> HIDE DEF V
  <2> QED BY <1>3, <2>1, <2>2 DEF SplitStep
<1>4. F \in [[1 .. n -> V] -> [1 .. n -> V]]
  <2> HIDE DEF V
  <2> QED BY <1>2, <1>3
<1>5. ASSUME NEW g \in [1 .. n -> V], NEW h \in [1 .. n -> V], NEW i \in 1 .. n,
             \A l \in (i + 1) .. n : g[l] = h[l]
      PROVE  F[g][i] = F[h][i]
  <2>1. SplitStep(s, g, i) = SplitStep(s, h, i)
    <3>1. ~(Cut(s, i) > Len(s)) => g[Cut(s, i) + 1] = h[Cut(s, i) + 1]
      BY <1>2, <1>5
    <3> QED BY <3>1, Zenon DEF SplitStep
  <2> QED BY <2>1
<1>6. \E m \in [1 .. n -> V] : m = F[m]
  <2> HIDE DEF F, V, n
  <2>1. \A g, h \in [1 .. n -> V] : \A i \in 1 .. n :
          (\A l \in (i + 1) .. n : g[l] = h[l]) => F[g][i] = F[h][i]
    BY <1>5
  <2>2. F \in FromLater(n, V)
    BY <1>4, <2>1 DEF FromLater
  <2>3. n \in Nat /\ V # {}
    BY <1>1
  <2> QED BY <2>2, <2>3, Recursion
<1>7. PICK m \in [1 .. n -> V] : m = F[m]
  BY <1>6
<1>8. m = [i \in Positions(s) |-> SplitStep(s, m, i)]
  BY <1>1, <1>7
<1>9. Split(s) = [i \in Positions(s) |-> SplitStep(s, Split(s), i)]
  BY <1>8 DEF Split
<1>10. \A i \in 1 .. n : Split(s)[i] = SplitStep(s, Split(s), i)
  BY <1>1, <1>9
<1> DEFINE T == {i \in 1 .. n : Split(s)[i] \in V}
<1>11. ASSUME NEW i \in 1 .. n, \A l \in (i + 1) .. n : l \in T
       PROVE  i \in T
  <2>1. ~(Cut(s, i) > Len(s)) => Split(s)[Cut(s, i) + 1] \in V
    <3> HIDE DEF V
    <3> QED BY <1>2, <1>11
  <2>2. SplitStep(s, Split(s), i) \in V
    <3> HIDE DEF V
    <3> QED BY <1>3, <2>1
  <2> QED BY <1>10, <2>2
<1>12. \A i \in 1 .. n : i \in T
  <2> HIDE DEF T, n
  <2> QED BY <1>1, <1>11, DownInduction
<1>13. SplitComponents(s) = Split(s)[1]
  BY DEF SplitComponents, Split, SplitStep
<1> QED BY <1>1, <1>10, <1>12, <1>13

LEMMA Splits ==
  ASSUME NEW s \in Seq(Chars)
  PROVE  /\ SplitComponents(s) \in Seq(Seq(Chars))
         /\ s # <<>> /\ s[1] # "/" => SplitComponents(s) # <<>>
<1>1. 1 \in Positions(s) /\ Positions(s) = 1 .. Len(s) + 1
  BY DEF Positions
<1>2. SplitComponents(s) \in Seq(Seq(Chars))
  BY <1>1, SplitDef
<1>3. ASSUME s # <<>>, s[1] # "/" PROVE SplitComponents(s) # <<>>
  <2>1. Component(s, 1) \in Seq(Seq(Chars)) /\ Len(Component(s, 1)) = 1
    <3>1. 1 <= Len(s)
      BY <1>3
    <3> QED BY <1>1, <1>3, <3>1, ComponentTypes
  <2>0. \A a, b \in Seq(Seq(Chars)) : Len(a) = 1 => a # <<>> /\ a \o b # <<>>
    <3>1. SUFFICES ASSUME NEW a \in Seq(Seq(Chars)), NEW b \in Seq(Seq(Chars)), Len(a) = 1
                   PROVE  a # <<>> /\ a \o b # <<>>
      OBVIOUS
    <3>2. Len(a \o b) = Len(a) + Len(b) /\ Len(b) \in Nat /\ Len(<<>>) = 0
      OBVIOUS
    <3> QED BY <3>1, <3>2
  <2>2. SplitComponents(s) = SplitStep(s, Split(s), 1)
    BY <1>1, SplitDef
  <2>3. CASE Cut(s, 1) > Len(s)
    <3>1. SplitComponents(s) = Component(s, 1)
      BY <2>2, <2>3 DEF SplitStep
    <3> QED BY <2>0, <2>1, <3>1
  <2>4. CASE ~(Cut(s, 1) > Len(s))
    <3>1. SplitComponents(s) = Component(s, 1) \o Split(s)[Cut(s, 1) + 1]
      BY <2>2, <2>4 DEF SplitStep
    <3>2. Cut(s, 1) + 1 \in Positions(s)
      BY <1>1, <2>4, Cuts
    <3>3. Split(s)[Cut(s, 1) + 1] \in Seq(Seq(Chars))
      BY <3>2, SplitDef
    <3> QED BY <2>0, <2>1, <3>1, <3>3
  <2> QED BY <2>3, <2>4
<1> QED BY <1>2, <1>3

-----------------------------------------------------------------------------
(* A component without pattern characters denotes itself.                   *)

GlobChars == {"*", "?", "["}
ReadStep(s, read, i) ==
  IF i > Len(s) THEN {} ELSE {i} \cup read[IF IsEscape(s[i]) THEN i + 2 ELSE i + 1]
ReadFrom(s) == CHOOSE read : read = [i \in 1 .. Len(s) + 2 |-> ReadStep(s, read, i)]

LEMMA ReadDef ==
  ASSUME NEW s \in Seq(Chars)
  PROVE  \A i \in 1 .. Len(s) + 2 :
           ReadFrom(s)[i] \subseteq 1 .. Len(s) /\ ReadFrom(s)[i] = ReadStep(s, ReadFrom(s), i)
<1> DEFINE V == SUBSET (1 .. Len(s))
           n == Len(s) + 2
           next(i) == IF IsEscape(s[i]) THEN i + 2 ELSE i + 1
           F == [g \in [1 .. n -> V] |-> [i \in 1 .. n |-> ReadStep(s, g, i)]]
<1>1. n \in Nat /\ V # {}
  <2>1. {} \in V
    OBVIOUS
  <2>2. V # {}
    BY <2>1
  <2> QED BY <2>2
<1>2. ASSUME NEW i \in 1 .. n, i <= Len(s)
      PROVE  next(i) \in (i + 1) .. n
  BY <1>2
<1>3. ASSUME NEW g, NEW i \in 1 .. n, i <= Len(s) => g[next(i)] \in V
      PROVE  ReadStep(s, g, i) \in V
  <2>1. CASE i > Len(s)
    BY <2>1 DEF ReadStep
  <2>2. CASE ~(i > Len(s))
    <3>1. ReadStep(s, g, i) = {i} \cup g[next(i)]
      BY <2>2, Zenon DEF ReadStep
    <3>2. g[next(i)] \subseteq 1 .. Len(s) /\ i \in 1 .. Len(s)
      BY <1>3, <2>2
    <3> HIDE DEF next
    <3> QED BY <3>1, <3>2
  <2> QED BY <2>1, <2>2
<1>4. F \in [[1 .. n -> V] -> [1 .. n -> V]]
  <2> HIDE DEF V, next
  <2> QED BY <1>2, <1>3
<1>5. ASSUME NEW g \in [1 .. n -> V], NEW h \in [1 .. n -> V], NEW i \in 1 .. n,
             \A l \in (i + 1) .. n : g[l] = h[l]
      PROVE  F[g][i] = F[h][i]
  <2>1. ReadStep(s, g, i) = ReadStep(s, h, i)
    <3>1. CASE i > Len(s)
      BY <3>1 DEF ReadStep
    <3>2. CASE ~(i > Len(s))
      <4>1. g[next(i)] = h[next(i)]
        BY <1>2, <1>5, <3>2
      <4> QED BY <4>1, Zenon DEF ReadStep
    <3> QED BY <3>1, <3>2
  <2> QED BY <2>1
<1>6. \E m \in [1 .. n -> V] : m = F[m]
  <2> HIDE DEF F, V, n
  <2>1. \A g, h \in [1 .. n -> V] : \A i \in 1 .. n :
          (\A l \in (i + 1) .. n : g[l] = h[l]) => F[g][i] = F[h][i]
    BY <1>5
  <2>2. F \in FromLater(n, V)
    BY <1>4, <2>1 DEF FromLater
  <2> QED BY <1>1, <2>2, Recursion
<1>7. PICK m \in [1 .. n -> V] : m = F[m]
  BY <1>6
<1>8. m = [i \in 1 .. n |-> ReadStep(s, m, i)]
  BY <1>7
<1>9. ReadFrom(s) = [i \in 1 .. n |-> ReadStep(s, ReadFrom(s), i)]
  BY <1>8 DEF ReadFrom
<1>10. \A i \in 1 .. n : ReadFrom(s)[i] = ReadStep(s, ReadFrom(s), i)
  BY <1>9
<1> DEFINE T == {i \in 1 .. n : ReadFrom(s)[i] \in V}
<1>11. ASSUME NEW i \in 1 .. n, \A l \in (i + 1) .. n : l \in T
       PROVE  i \in T
  <2>1. i <= Len(s) => ReadFrom(s)[next(i)] \in V
    <3> HIDE DEF V, next
    <3> QED BY <1>2, <1>11
  <2>2. ReadStep(s, ReadFrom(s), i) \in V
    <3> HIDE DEF V, next
    <3> QED BY <1>3, <2>1
  <2> QED BY <1>10, <2>2
<1>12. \A i \in 1 .. n : i \in T
  <2> HIDE DEF T, n
  <2> QED BY <1>1, <1>11, DownInduction
<1> QED BY <1>10, <1>12

LEMMA GlobCharsRead ==
  ASSUME NEW s \in Seq(Chars)
  PROVE  /\ HasGlobChars(s) \in BOOLEAN
         /\ HasGlobChars(s) => \E i \in 1 .. Len(s) : s[i] \in GlobChars
         /\ (~HasGlobChars(s) /\ \A i \in 1 .. Len(s) : ~IsEscape(s[i]))
              => \A i \in 1 .. Len(s) : s[i] \notin GlobChars
<1> DEFINE read == ReadFrom(s)
           n == Len(s) + 2
<1>1. HasGlobChars(s) <=> \E i \in read[1] : s[i] \in GlobChars
  BY DEF HasGlobChars, ReadFrom, ReadStep, GlobChars
<1>2. n \in Nat /\ 1 \in 1 .. n
  OBVIOUS
<1>3. \A i \in 1 .. n : read[i] \subseteq 1 .. Len(s) /\ read[i] = ReadStep(s, read, i)
  BY ReadDef
<1>4. ASSUME \A i \in 1 .. Len(s) : ~IsEscape(s[i])
      PROVE  1 .. Len(s) \subseteq read[1]
  <2> DEFINE T == {i \in 1 .. n : \A k \in i .. Len(s) : k \in read[i]}
  <2> HIDE DEF read
  <2>1. ASSUME NEW i \in 1 .. n, \A l \in (i + 1) .. n : l \in T
        PROVE  i \in T
    <3>1. CASE i > Len(s)
      BY <3>1
    <3>2. CASE ~(i > Len(s))
      <4>1. read[i] = {i} \cup read[i + 1]
        <5>1. ReadStep(s, read, i) = {i} \cup read[i + 1]
          <6>1. i \in 1 .. Len(s)
            BY <3>2
          <6>2. ~IsEscape(s[i])
            BY <1>4, <6>1
          <6> QED BY <3>2, <6>2, Zenon DEF ReadStep
        <5> QED BY <1>3, <5>1
      <4>2. \A k \in (i + 1) .. Len(s) : k \in read[i + 1]
        <5>1. i + 1 \in (i + 1) .. n
          BY <3>2
        <5> QED BY <2>1, <5>1
      <4> QED BY <4>1, <4>2
    <3> QED BY <3>1, <3>2
  <2>2. \A i \in 1 .. n : i \in T
    <3> HIDE DEF T, n
    <3> QED BY <1>2, <2>1, DownInduction
  <2> QED BY <1>2, <2>2
<1>5. HasGlobChars(s) \in BOOLEAN
  BY DEF HasGlobChars
<1> HIDE DEF read
<1> QED BY <1>1, <1>2, <1>3, <1>4, <1>5

LEMMA LiteralDenotes ==
  ASSUME NEW c \in Seq(Chars), NEW s \in Seq(Chars),
         \A i \in 1 .. Len(c) : c[i] \notin GlobChars /\ ~IsEscape(c[i])
  PROVE  Denotes(c, s) <=> s = c
<1> DEFINE n == Len(c) + 1
           m == FnMatchInner(c, s)
           Same(i, j) == /\ Len(s) - j = Len(c) - i
                         /\ \A k \in i .. Len(c) : c[k] = s[k + (j - i)]
           T == {i \in 1 .. n : \A j \in Positions(s) : j \in m[i] <=> Same(i, j)}
<1>1. /\ n \in Nat /\ Positions(c) = 1 .. n
      /\ Positions(s) = 1 .. Len(s) + 1 /\ Len(s) \in Nat /\ Len(c) \in Nat
  BY DEF Positions
<1>2. \A i \in 1 .. n : m[i] = MatchStep(c, s, m, i)
  BY <1>1, MatchesDef
<1> HIDE DEF m
<1>3. ASSUME NEW i \in 1 .. n, \A l \in (i + 1) .. n : l \in T
      PROVE  i \in T
  <2> SUFFICES ASSUME NEW j \in Positions(s) PROVE j \in m[i] <=> Same(i, j)
    OBVIOUS
  <2>1. CASE i > Len(c)
    <3>1. m[i] = {Len(s) + 1}
      BY <1>2, <2>1 DEF MatchStep
    <3> QED BY <1>1, <2>1, <3>1
  <2>2. CASE ~(i > Len(c))
    <3>1. i \in 1 .. Len(c) /\ i + 1 \in (i + 1) .. n
      BY <2>2
    <3>2. c[i] \notin {"*", "?", "["} /\ ~IsEscape(c[i])
      BY <3>1 DEF GlobChars
    <3>3. MatchStep(c, s, m, i) = {t \in 1 .. Len(s) : c[i] = s[t] /\ t + 1 \in m[i + 1]}
      <4>1. After(c, i) = i + 1
        BY <3>2 DEF After
      <4>2. \A t \in 1 .. Len(s) : Accepts(c, i, s[t]) <=> c[i] = s[t]
        BY <3>2 DEF Accepts
      <4>3. MatchStep(c, s, m, i) = {t \in 1 .. Len(s) : Accepts(c, i, s[t]) /\ t + 1 \in m[After(c, i)]}
        BY <2>2, <3>2, Zenon DEF MatchStep
      <4> QED BY <4>1, <4>2, <4>3
    <3>4. j \in m[i] <=> j \in 1 .. Len(s) /\ c[i] = s[j] /\ j + 1 \in m[i + 1]
      BY <1>2, <3>3
    <3>5. j \in 1 .. Len(s) => (j + 1 \in m[i + 1] <=> Same(i + 1, j + 1))
      <4> HIDE DEF Same
      <4>1. i + 1 \in T
        BY <1>3, <3>1
      <4>2. j \in 1 .. Len(s) => j + 1 \in Positions(s)
        BY <1>1
      <4> QED BY <4>1, <4>2
    <3>6. Same(i, j) <=> j \in 1 .. Len(s) /\ c[i] = s[j] /\ Same(i + 1, j + 1)
      <4>1. ASSUME Same(i, j)
            PROVE  j \in 1 .. Len(s) /\ c[i] = s[j] /\ Same(i + 1, j + 1)
        <5>1. j \in 1 .. Len(s) /\ i + (j - i) = j
          BY <1>1, <3>1, <4>1
        <5>2. c[i] = s[i + (j - i)]
          BY <3>1, <4>1
        <5>3. \A k \in i + 1 .. Len(c) : c[k] = s[k + ((j + 1) - (i + 1))]
          <6>1. (j + 1) - (i + 1) = j - i
            BY <5>1
          <6> QED BY <4>1, <6>1
        <5> QED BY <1>1, <4>1, <5>1, <5>2, <5>3
      <4>2. ASSUME j \in 1 .. Len(s), c[i] = s[j], Same(i + 1, j + 1)
            PROVE  Same(i, j)
        <5>1. (j + 1) - (i + 1) = j - i /\ i + (j - i) = j
          BY <4>2
        <5>2. \A k \in i .. Len(c) : k = i \/ k \in i + 1 .. Len(c)
          BY <3>1
        <5>3. \A k \in i .. Len(c) : c[k] = s[k + (j - i)]
          BY <4>2, <5>1, <5>2
        <5> QED BY <1>1, <4>2, <5>3
      <4> QED BY <4>1, <4>2
    <3> HIDE DEF Same
    <3> QED BY <3>4, <3>5, <3>6
  <2> QED BY <2>1, <2>2
<1>4. \A i \in 1 .. n : i \in T
  <2> HIDE DEF T, n
  <2> QED BY <1>1, <1>3, DownInduction
<1>5. Denotes(c, s) <=> 1 \in m[1]
  BY FnMatchDenotes DEF FnMatch, m
<1>6. 1 \in m[1] <=> Same(1, 1)
  BY <1>1, <1>4
<1>7. Same(1, 1) <=> s = c
  <2>1. ASSUME Same(1, 1) PROVE s = c
    <3>1. Len(s) = Len(c)
      BY <1>1, <2>1
    <3>2. \A k \in 1 .. Len(c) : c[k] = s[k]
      <4>1. \A k \in 1 .. Len(c) : c[k] = s[k + (1 - 1)] /\ k + (1 - 1) = k
        BY <2>1
      <4> QED BY <4>1
    <3> QED BY <3>1, <3>2
  <2>2. ASSUME s = c PROVE Same(1, 1)
    <3>1. \A k \in 1 .. Len(c) : k + (1 - 1) = k
      OBVIOUS
    <3> QED BY <2>2, <3>1
  <2> QED BY <2>1, <2>2
<1> QED BY <1>5, <1>6, <1>7

-----------------------------------------------------------------------------
(* glob finds the paths that its components denote.                         *)

\* A component that is looked up has no escapes.
LooksUp(c) == HasGlobChars(c) \/ \A k \in 1 .. Len(c) : ~IsEscape(c[k])

\* The paths below a directory, for the components from k on.
PathsFrom(dir, comps, k) ==
  {p \in Tree :
     /\ Len(p) = Len(dir) + (Len(comps) - k + 1) /\ Take(p, Len(dir)) = dir
     /\ \A l \in k .. Len(comps) : NameDenoted(comps[l], p[Len(dir) + (l - k + 1)])}

LEMMA SameElements ==
  ASSUME NEW S, NEW p \in Seq(S), NEW q \in Seq(S), Len(p) = Len(q),
         \A k \in 1 .. Len(p) : p[k] = q[k]
  PROVE  p = q
OBVIOUS

LEMMA Taking ==
  ASSUME NEW S, NEW p \in Seq(S), NEW n \in 0 .. Len(p)
  PROVE  /\ Take(p, n) \in Seq(S) /\ Len(Take(p, n)) = n
         /\ \A k \in 1 .. n : Take(p, n)[k] = p[k]
         /\ \A m \in 0 .. n : Take(Take(p, n), m) = Take(p, m)
BY DEF Take

LEMMA Appending ==
  ASSUME NEW S, NEW p \in Seq(S), p # <<>>
  PROVE  /\ Len(p) \in Nat \ {0} /\ p[Len(p)] \in S
         /\ p = Append(Take(p, Len(p) - 1), p[Len(p)])
<1>1. Len(p) \in Nat \ {0} /\ p[Len(p)] \in S
  OBVIOUS
<1>2. Take(p, Len(p) - 1) \in Seq(S) /\ Len(Take(p, Len(p) - 1)) = Len(p) - 1
  BY <1>1, Taking
<1>3. \A k \in 1 .. Len(p) - 1 : Take(p, Len(p) - 1)[k] = p[k]
  <2>1. Len(p) - 1 \in 0 .. Len(p)
    BY <1>1
  <2> QED BY <2>1, Taking
<1> DEFINE q == Take(p, Len(p) - 1)
           a == Append(q, p[Len(p)])
<1> HIDE DEF q
<1>4. a \in Seq(S) /\ Len(a) = Len(p)
  BY <1>1, <1>2 DEF q
<1>5. \A k \in 1 .. Len(p) : a[k] = p[k]
  BY <1>1, <1>2, <1>3 DEF q
<1>6. p = a
  BY <1>4, <1>5
<1> QED BY <1>1, <1>6 DEF q

LEMMA TreePaths ==
  /\ Tree \subseteq Seq(Seq(Chars)) /\ Dirs \subseteq Tree /\ <<>> \in Dirs /\ Cwd \in Dirs
  /\ \A p \in Tree : \A k \in 0 .. Len(p) - 1 : Take(p, k) \in Dirs
BY PatternAssumption, TreeAssumption DEF Take

LEMMA FoundDenoted ==
  ASSUME NEW dir \in Dirs, NEW c \in Seq(Chars), LooksUp(c)
  PROVE  Found(dir, c)
           = {p \in Tree : /\ Len(p) = Len(dir) + 1 /\ Take(p, Len(dir)) = dir
                           /\ NameDenoted(c, p[Len(p)])}
<1> DEFINE R == {p \in Tree : /\ Len(p) = Len(dir) + 1 /\ Take(p, Len(dir)) = dir
                              /\ NameDenoted(c, p[Len(p)])}
<1>1. dir \in Seq(Seq(Chars)) /\ Len(dir) \in Nat
  BY TreePaths
<1>2. ASSUME NEW p \in Tree, Len(p) = Len(dir) + 1, Take(p, Len(dir)) = dir
      PROVE  p # <<>> /\ p[Len(p)] \in Seq(Chars) /\ p = Append(dir, p[Len(p)])
  <2>1. p \in Seq(Seq(Chars)) /\ p # <<>> /\ Len(p) - 1 = Len(dir)
    BY <1>1, <1>2, TreePaths
  <2> QED BY <1>2, <2>1, Appending
<1>3. ASSUME NEW name \in Seq(Chars), Append(dir, name) \in Tree
      PROVE  LET p == Append(dir, name)
             IN  /\ Len(p) = Len(dir) + 1 /\ Take(p, Len(dir)) = dir /\ p[Len(p)] = name
                 /\ p # <<>>
  <2> DEFINE p == Append(dir, name)
  <2>1. /\ p \in Seq(Seq(Chars)) /\ Len(p) = Len(dir) + 1 /\ p[Len(p)] = name
        /\ \A k \in 1 .. Len(dir) : p[k] = dir[k]
    BY <1>1
  <2> HIDE DEF p
  <2>2. /\ Take(p, Len(dir)) \in Seq(Seq(Chars)) /\ Len(Take(p, Len(dir))) = Len(dir)
        /\ \A k \in 1 .. Len(dir) : Take(p, Len(dir))[k] = p[k]
    <3>1. Len(dir) \in 0 .. Len(p)
      BY <1>1, <2>1
    <3> QED BY <2>1, <3>1, Taking
  <2>3. Take(p, Len(dir)) = dir
    <3>1. \A k \in 1 .. Len(dir) : Take(p, Len(dir))[k] = dir[k]
      BY <2>1, <2>2
    <3> QED BY <1>1, <2>2, <3>1, SameElements
  <2>4. p # <<>>
    BY <1>1, <2>1
  <2> QED BY <2>1, <2>3, <2>4 DEF p
<1>4. CASE ~HasGlobChars(c)
  <2>1. \A i \in 1 .. Len(c) : c[i] \notin GlobChars /\ ~IsEscape(c[i])
    BY <1>4, GlobCharsRead DEF LooksUp
  <2>2. \A s \in Seq(Chars) : Denotes(c, s) <=> s = c
    BY <2>1, LiteralDenotes
  <2>3. \A s \in Seq(Chars) : NameDenoted(c, s) <=> s = c
    BY <2>2 DEF NameDenoted, Hidden
  <2>4. Found(dir, c) = {p \in Tree : p = Append(dir, c)}
    BY <1>4 DEF Found, Picked
  <2>5. ASSUME NEW p \in Tree
        PROVE  p = Append(dir, c) <=> p \in R
    <3>1. ASSUME p = Append(dir, c) PROVE p \in R
      BY <1>3, <2>3, <3>1
    <3>2. ASSUME p \in R PROVE p = Append(dir, c)
      BY <1>2, <2>3, <3>2
    <3> QED BY <3>1, <3>2
  <2> HIDE DEF R
  <2>6. R \subseteq Tree
    BY DEF R
  <2> QED BY <2>4, <2>5, <2>6 DEF R
<1>5. CASE HasGlobChars(c)
  <2>1. c \notin DotNames
    <3>1. PICK i \in 1 .. Len(c) : c[i] \in GlobChars
      BY <1>5, GlobCharsRead
    <3>2. c[i] # "."
      BY <3>1 DEF GlobChars
    <3> QED BY <3>1, <3>2 DEF DotNames
  <2>2. \A s \in Seq(Chars) :
          NameDenoted(c, s)
            <=> FnMatch(c, s) /\ (Hidden(s) => c[1] = ".") /\ s \notin DotNames
    BY <2>1, FnMatchDenotes DEF NameDenoted
  <2>3. \A s : s \in Listed(dir) <=> /\ s \notin DotNames
                                    /\ \E p \in Tree : /\ p # <<>> /\ Take(p, Len(p) - 1) = dir
                                                       /\ s = p[Len(p)]
    BY DEF Listed
  <2>4. ASSUME NEW s \in Listed(dir)
        PROVE  s \in Seq(Chars) /\ s \notin DotNames /\ Append(dir, s) \in Tree
    <3>1. PICK p \in Tree : p # <<>> /\ Take(p, Len(p) - 1) = dir /\ s = p[Len(p)]
      BY <2>3
    <3>2. p \in Seq(Seq(Chars))
      BY TreePaths
    <3> QED BY <2>3, <3>1, <3>2, Appending
  <2>5. ASSUME NEW p \in Found(dir, c) PROVE p \in R
    <3>1. PICK s \in Listed(dir) : /\ p = Append(dir, s) /\ (Hidden(s) => c[1] = ".")
                                   /\ FnMatch(c, s)
      BY <1>5 DEF Found, Picked
    <3>2. s \in Seq(Chars) /\ s \notin DotNames /\ p \in Tree
      BY <2>4, <3>1
    <3>3. NameDenoted(c, s)
      BY <2>2, <3>1, <3>2
    <3> QED BY <1>3, <3>1, <3>2, <3>3
  <2>6. ASSUME NEW p \in R PROVE p \in Found(dir, c)
    <3> DEFINE s == p[Len(p)]
    <3>1. p # <<>> /\ s \in Seq(Chars) /\ p = Append(dir, s)
      BY <1>2
    <3>2. FnMatch(c, s) /\ (Hidden(s) => c[1] = ".") /\ s \notin DotNames
      BY <2>2, <3>1
    <3>3. s \in Listed(dir)
      <4>1. p \in Tree /\ Take(p, Len(p) - 1) = dir
        BY <1>1
      <4> QED BY <2>3, <3>1, <3>2, <4>1
    <3>4. s \in Picked(dir, c)
      BY <1>5, <3>2, <3>3 DEF Picked
    <3> QED BY <3>1, <3>4 DEF Found
  <2> QED BY <2>5, <2>6
<1> QED BY <1>4, <1>5

BelowStep(comps, below, k) ==
  [dir \in Dirs |->
     IF k = Len(comps) THEN Found(dir, comps[k])
     ELSE UNION {below[k + 1][d] : d \in Found(dir, comps[k]) \cap Dirs}]
Below(comps) == CHOOSE below : below = [k \in DOMAIN comps |-> BelowStep(comps, below, k)]

LEMMA BelowDef ==
  ASSUME NEW comps \in Seq(Seq(Chars)), \A k \in 1 .. Len(comps) : LooksUp(comps[k])
  PROVE  \A k \in 1 .. Len(comps) : Below(comps)[k] = BelowStep(comps, Below(comps), k)
<1> DEFINE V == [Dirs -> SUBSET Tree]
           n == Len(comps)
           F == [g \in [1 .. n -> V] |-> [k \in 1 .. n |-> BelowStep(comps, g, k)]]
<1>1. n \in Nat /\ V # {} /\ DOMAIN comps = 1 .. n
  <2>1. [dir \in Dirs |-> {}] \in V
    OBVIOUS
  <2>2. V # {}
    BY <2>1
  <2> QED BY <2>2
<1>2. \A dir \in Dirs : \A k \in 1 .. n : Found(dir, comps[k]) \subseteq Tree
  BY FoundDenoted
<1>3. ASSUME NEW g \in [1 .. n -> V], NEW k \in 1 .. n
      PROVE  BelowStep(comps, g, k) \in V
  <2>1. ASSUME NEW dir \in Dirs, k # n
        PROVE  UNION {g[k + 1][d] : d \in Found(dir, comps[k]) \cap Dirs} \subseteq Tree
    <3>1. k + 1 \in 1 .. n
      BY <2>1
    <3>2. \A d \in Dirs : g[k + 1][d] \subseteq Tree
      BY <3>1
    <3> QED BY <3>2
  <2>2. \A dir \in Dirs : (IF k = n THEN Found(dir, comps[k])
                           ELSE UNION {g[k + 1][d] : d \in Found(dir, comps[k]) \cap Dirs}) \subseteq Tree
    BY <1>2, <2>1
  <2> QED BY <2>2 DEF BelowStep
<1>4. F \in [[1 .. n -> V] -> [1 .. n -> V]]
  <2> HIDE DEF V
  <2> QED BY <1>3
<1>5. ASSUME NEW g \in [1 .. n -> V], NEW h \in [1 .. n -> V], NEW k \in 1 .. n,
             \A l \in (k + 1) .. n : g[l] = h[l]
      PROVE  F[g][k] = F[h][k]
  <2>1. BelowStep(comps, g, k) = BelowStep(comps, h, k)
    <3>1. CASE k = n
      BY <3>1, Zenon DEF BelowStep
    <3>2. CASE k # n
      <4>1. k + 1 \in (k + 1) .. n
        BY <3>2
      <4>2. g[k + 1] = h[k + 1]
        BY <1>5, <4>1
      <4> QED BY <4>2, Zenon DEF BelowStep
    <3> QED BY <3>1, <3>2
  <2> HIDE DEF V
  <2> QED BY <2>1
<1>6. \E m \in [1 .. n -> V] : m = F[m]
  <2> HIDE DEF F, V, n
  <2>1. \A g, h \in [1 .. n -> V] : \A k \in 1 .. n :
          (\A l \in (k + 1) .. n : g[l] = h[l]) => F[g][k] = F[h][k]
    BY <1>5
  <2>2. F \in FromLater(n, V)
    BY <1>4, <2>1 DEF FromLater
  <2>3. n \in Nat /\ V # {}
    BY <1>1
  <2> QED BY <2>2, <2>3, Recursion
<1>7. PICK m \in [1 .. n -> V] : m = F[m]
  BY <1>6
<1>8. m = [k \in DOMAIN comps |-> BelowStep(comps, m, k)]
  <2> HIDE DEF V
  <2> QED BY <1>1, <1>7
<1>9. Below(comps) = [k \in DOMAIN comps |-> BelowStep(comps, Below(comps), k)]
  BY <1>8 DEF Below
<1> QED BY <1>1, <1>9

\* From a directory on, the paths that the components from k on denote are
\* those found below what the k-th one finds.
LEMMA PathsBelow ==
  ASSUME NEW comps \in Seq(Seq(Chars)), \A k \in 1 .. Len(comps) : LooksUp(comps[k]),
         NEW k \in 1 .. Len(comps) - 1, NEW dir \in Dirs
  PROVE  PathsFrom(dir, comps, k)
           = UNION {PathsFrom(d, comps, k + 1) : d \in Found(dir, comps[k]) \cap Dirs}
<1> DEFINE n == Len(comps)
           U == UNION {PathsFrom(d, comps, k + 1) : d \in Found(dir, comps[k]) \cap Dirs}
           len == Len(dir)
<1>1. /\ n \in Nat /\ k \in 1 .. n /\ k <= n - 1 /\ comps[k] \in Seq(Chars) /\ LooksUp(comps[k])
      /\ dir \in Seq(Seq(Chars)) /\ len \in Nat
  BY TreePaths
<1>2. Found(dir, comps[k]) = {d \in Tree : /\ Len(d) = len + 1 /\ Take(d, len) = dir
                                           /\ NameDenoted(comps[k], d[Len(d)])}
  BY <1>1, FoundDenoted
<1> HIDE DEF n, len
<1>3. ASSUME NEW p \in PathsFrom(dir, comps, k) PROVE p \in U
  <2> DEFINE d == Take(p, len + 1)
  <2>1. /\ p \in Tree /\ Len(p) = len + (n - k + 1) /\ Take(p, len) = dir
        /\ \A l \in k .. n : NameDenoted(comps[l], p[len + (l - k + 1)])
    BY DEF PathsFrom, n, len
  <2>2. p \in Seq(Seq(Chars)) /\ len + 1 \in 0 .. Len(p) - 1 /\ len + 1 \in 0 .. Len(p)
    <3>1. p \in Seq(Seq(Chars))
      BY <2>1, TreePaths
    <3>2. Len(p) \in Nat /\ len + 1 <= Len(p) - 1
      BY <1>1, <2>1
    <3> QED BY <1>1, <3>1, <3>2
  <2>3. d \in Dirs /\ d \in Tree
    BY <2>1, <2>2, TreePaths
  <2>4. Len(d) = len + 1 /\ Take(d, len) = Take(p, len) /\ d[len + 1] = p[len + 1]
    <3>1. len \in 0 .. len + 1 /\ len + 1 \in 1 .. len + 1
      BY <1>1
    <3> QED BY <2>2, <3>1, Taking
  <2>5. NameDenoted(comps[k], p[len + 1])
    <3>1. k \in k .. n /\ len + (k - k + 1) = len + 1
      BY <1>1
    <3> QED BY <2>1, <3>1
  <2>6. d \in Found(dir, comps[k])
    BY <1>2, <2>1, <2>3, <2>4, <2>5
  <2>7. p \in PathsFrom(d, comps, k + 1)
    <3>3. Take(p, Len(d)) = d
      BY <2>4
    <3> HIDE DEF d
    <3>1. Len(p) = Len(d) + (n - (k + 1) + 1)
      BY <1>1, <2>1, <2>4
    <3>2. ASSUME NEW l \in k + 1 .. n
          PROVE  NameDenoted(comps[l], p[Len(d) + (l - (k + 1) + 1)])
      <4>1. Len(d) + (l - (k + 1) + 1) = len + (l - k + 1) /\ l \in k .. n
        BY <1>1, <2>4
      <4> QED BY <2>1, <4>1
    <3> QED BY <2>1, <3>1, <3>2, <3>3 DEF PathsFrom, n
  <2> HIDE DEF d
  <2> QED BY <2>3, <2>6, <2>7
<1>4. ASSUME NEW d \in Found(dir, comps[k]) \cap Dirs, NEW p \in PathsFrom(d, comps, k + 1)
      PROVE  p \in PathsFrom(dir, comps, k)
  <2>1. /\ d \in Tree /\ Len(d) = len + 1 /\ Take(d, len) = dir
        /\ NameDenoted(comps[k], d[Len(d)])
    BY <1>2
  <2>2. /\ p \in Tree /\ Len(p) = Len(d) + (n - (k + 1) + 1) /\ Take(p, Len(d)) = d
        /\ \A l \in k + 1 .. n : NameDenoted(comps[l], p[Len(d) + (l - (k + 1) + 1)])
    BY DEF PathsFrom, n
  <2>3. p \in Seq(Seq(Chars)) /\ Len(p) = len + (n - k + 1) /\ len + 1 \in 0 .. Len(p)
    <3>1. p \in Seq(Seq(Chars))
      BY <2>2, TreePaths
    <3>2. Len(p) = len + (n - k + 1) /\ k <= n
      BY <1>1, <2>1, <2>2
    <3> QED BY <1>1, <3>1, <3>2
  <2>4. Take(p, len) = dir /\ p[len + 1] = d[len + 1]
    <3>1. len \in 0 .. len + 1 /\ len + 1 \in 1 .. len + 1
      BY <1>1
    <3>2. Take(p, len + 1) = d
      BY <2>1, <2>2
    <3> QED BY <2>1, <2>3, <3>1, <3>2, Taking
  <2>5. ASSUME NEW l \in k .. n
        PROVE  NameDenoted(comps[l], p[len + (l - k + 1)])
    <3>1. CASE l = k
      <4>1. len + (l - k + 1) = len + 1
        BY <1>1, <3>1
      <4> QED BY <2>1, <2>4, <3>1, <4>1
    <3>2. CASE l # k
      <4>1. Len(d) + (l - (k + 1) + 1) = len + (l - k + 1) /\ l \in k + 1 .. n
        BY <1>1, <2>1, <3>2
      <4> QED BY <2>2, <4>1
    <3> QED BY <3>1, <3>2
  <2> QED BY <2>2, <2>3, <2>4, <2>5 DEF PathsFrom, n, len
<1> QED BY <1>3, <1>4

LEMMA BelowDenoted ==
  ASSUME NEW comps \in Seq(Seq(Chars)), \A k \in 1 .. Len(comps) : LooksUp(comps[k])
  PROVE  \A k \in 1 .. Len(comps) : \A dir \in Dirs : Below(comps)[k][dir] = PathsFrom(dir, comps, k)
<1> DEFINE n == Len(comps)
           below == Below(comps)
           T == {k \in 1 .. n : \A dir \in Dirs : below[k][dir] = PathsFrom(dir, comps, k)}
<1>1. n \in Nat
  OBVIOUS
<1>2. \A k \in 1 .. n : below[k] = BelowStep(comps, below, k)
  BY BelowDef
<1> HIDE DEF below
<1>3. ASSUME NEW k \in 1 .. n, \A l \in (k + 1) .. n : l \in T
      PROVE  k \in T
  <2> SUFFICES ASSUME NEW dir \in Dirs PROVE below[k][dir] = PathsFrom(dir, comps, k)
    OBVIOUS
  <2>1. CASE k = n
    <3>1. below[k][dir] = Found(dir, comps[k])
      <4>1. BelowStep(comps, below, k)[dir] = Found(dir, comps[k])
        BY <2>1 DEF BelowStep
      <4> QED BY <1>2, <4>1
    <3>2. comps[k] \in Seq(Chars) /\ LooksUp(comps[k]) /\ Len(dir) \in Nat
      BY TreePaths
    <3>3. Found(dir, comps[k]) = {p \in Tree : /\ Len(p) = Len(dir) + 1 /\ Take(p, Len(dir)) = dir
                                               /\ NameDenoted(comps[k], p[Len(p)])}
      BY <3>2, FoundDenoted
    <3>4. \A p \in Tree : Len(p) = Len(dir) + 1 =>
            (NameDenoted(comps[k], p[Len(p)])
               <=> \A l \in k .. n : NameDenoted(comps[l], p[Len(dir) + (l - k + 1)]))
      <4>1. k .. n = {k} /\ Len(dir) + (k - k + 1) = Len(dir) + 1
        BY <2>1, <3>2
      <4> QED BY <4>1
    <3>5. Len(dir) + (n - k + 1) = Len(dir) + 1
      BY <2>1, <3>2
    <3>6. PathsFrom(dir, comps, k)
            = {p \in Tree : /\ Len(p) = Len(dir) + 1 /\ Take(p, Len(dir)) = dir
                            /\ NameDenoted(comps[k], p[Len(p)])}
      BY <3>4, <3>5 DEF PathsFrom
    <3> QED BY <3>1, <3>3, <3>6
  <2>2. CASE k # n
    <3>1. k + 1 \in (k + 1) .. n /\ k \in 1 .. n - 1
      BY <2>2
    <3>2. \A d \in Dirs : below[k + 1][d] = PathsFrom(d, comps, k + 1)
      BY <1>3, <3>1
    <3>3. below[k][dir] = UNION {below[k + 1][d] : d \in Found(dir, comps[k]) \cap Dirs}
      <4>1. BelowStep(comps, below, k)[dir]
              = UNION {below[k + 1][d] : d \in Found(dir, comps[k]) \cap Dirs}
        BY <2>2 DEF BelowStep
      <4> QED BY <1>2, <4>1
    <3>4. PathsFrom(dir, comps, k)
            = UNION {PathsFrom(d, comps, k + 1) : d \in Found(dir, comps[k]) \cap Dirs}
      BY <3>1, PathsBelow
    <3> QED BY <3>2, <3>3, <3>4
  <2> QED BY <2>1, <2>2
<1>4. \A k \in 1 .. n : k \in T
  <2> HIDE DEF T, n
  <2> QED BY <1>1, <1>3, DownInduction
<1> QED BY <1>4 DEF below

LEMMA GlobDenotes ==
  ASSUME NEW s \in Seq(Chars), s # <<>>,
         \A k \in DOMAIN SplitComponents(s) : LooksUp(SplitComponents(s)[k])
  PROVE  Glob(s) = Paths(s)
<1> DEFINE comps == SplitComponents(s)
           base == IF s[1] = "/" THEN <<>> ELSE Cwd
<1>1. comps \in Seq(Seq(Chars)) /\ DOMAIN comps = 1 .. Len(comps) /\ Len(comps) \in Nat
  BY Splits
<1>2. base \in Dirs
  BY TreePaths
<1>3. Paths(s) = PathsFrom(base, comps, 1)
  <2>1. Len(base) \in Nat
    BY <1>2, TreePaths
  <2>2. Len(base) + (Len(comps) - 1 + 1) = Len(base) + Len(comps)
    BY <1>1, <2>1
  <2>3. \A l \in 1 .. Len(comps) : Len(base) + (l - 1 + 1) = Len(base) + l
    BY <2>1
  <2>4. Paths(s) = {p \in Tree :
                      /\ Len(p) = Len(base) + Len(comps) /\ Take(p, Len(base)) = base
                      /\ \A k \in DOMAIN comps : NameDenoted(comps[k], p[Len(base) + k])}
    BY DEF Paths
  <2> HIDE DEF base, comps
  <2> QED BY <1>1, <2>2, <2>3, <2>4 DEF PathsFrom
<1>4. CASE comps # <<>>
  <2>1. Glob(s) = GlobFrom(base, comps)
    BY <1>4 DEF Glob
  <2>2. GlobFrom(base, comps) = Below(comps)[1][base]
    BY <1>4 DEF GlobFrom, Below, BelowStep
  <2>3. 1 \in 1 .. Len(comps)
    BY <1>1, <1>4
  <2>4. Below(comps)[1][base] = PathsFrom(base, comps, 1)
    <3> HIDE DEF base
    <3> QED BY <1>1, <1>2, <2>3, BelowDenoted
  <2> QED BY <1>3, <2>1, <2>2, <2>4
<1>5. CASE comps = <<>>
  <2>1. s[1] = "/"
    BY <1>5, Splits
  <2>2. Glob(s) = {<<>>} /\ base = <<>>
    BY <1>5, <2>1 DEF Glob
  <2>3. ASSUME NEW p \in Tree
        PROVE  p \in PathsFrom(<<>>, comps, 1) <=> p = <<>>
    <3>1. p \in Seq(Seq(Chars)) /\ Len(comps) = 0 /\ Len(<<>>) = 0
      BY <1>5, TreePaths
    <3>2. Take(p, 0) = <<>>
      BY <3>1 DEF Take
    <3>3. p \in PathsFrom(<<>>, comps, 1) <=> Len(p) = 0
      BY <3>1, <3>2 DEF PathsFrom
    <3> QED BY <3>1, <3>3
  <2>4. <<>> \in Tree /\ PathsFrom(<<>>, comps, 1) \subseteq Tree
    BY TreePaths DEF PathsFrom
  <2>5. PathsFrom(<<>>, comps, 1) = {<<>>}
    BY <2>3, <2>4
  <2> QED BY <1>3, <2>2, <2>5
<1> QED BY <1>4, <1>5

-----------------------------------------------------------------------------
(* Patterns are read as they were written.                                  *)

\* BracketHas's function, as a fixed point of its body.
HasStep(pat, i, c, has, k) ==
  /\ k <= Len(pat) /\ (pat[k] = "]" => k = First(pat, i))
  /\ MemberHas(pat, k, c) \/ has[MemberEnd(pat, k)]
HasFrom(pat, i, c) ==
  CHOOSE has : has = [k \in Positions(pat) |-> HasStep(pat, i, c, has, k)]

LEMMA HasDef ==
  ASSUME NEW pat \in Seq(Chars), NEW i \in 1 .. Len(pat), NEW c \in Chars
  PROVE  /\ BracketHas(pat, i, c) = HasFrom(pat, i, c)[First(pat, i)]
         /\ \A k \in Positions(pat) :
              HasFrom(pat, i, c)[k] = HasStep(pat, i, c, HasFrom(pat, i, c), k)
         /\ BracketHas(pat, i, c) \in BOOLEAN
<1> DEFINE n == Len(pat) + 1
           F == [g \in [1 .. n -> BOOLEAN] |-> [k \in 1 .. n |-> HasStep(pat, i, c, g, k)]]
<1>1. n \in Nat /\ Positions(pat) = 1 .. n
  BY DEF Positions
<1>2. F \in [[1 .. n -> BOOLEAN] -> [1 .. n -> BOOLEAN]]
  <2>1. \A g, k : HasStep(pat, i, c, g, k) \in BOOLEAN
    BY DEF HasStep
  <2> HIDE DEF n
  <2> QED BY <2>1
<1>3. ASSUME NEW g \in [1 .. n -> BOOLEAN], NEW h \in [1 .. n -> BOOLEAN], NEW k \in 1 .. n,
             \A l \in (k + 1) .. n : g[l] = h[l]
      PROVE  F[g][k] = F[h][k]
  <2>1. HasStep(pat, i, c, g, k) = HasStep(pat, i, c, h, k)
    <3>1. k <= Len(pat) => g[MemberEnd(pat, k)] = h[MemberEnd(pat, k)]
      BY <1>3, MemberEnds
    <3> QED BY <3>1, Zenon DEF HasStep
  <2> QED BY <2>1
<1>4. \E has \in [1 .. n -> BOOLEAN] : has = F[has]
  <2> HIDE DEF F, n
  <2>1. \A g, h \in [1 .. n -> BOOLEAN] : \A k \in 1 .. n :
          (\A l \in (k + 1) .. n : g[l] = h[l]) => F[g][k] = F[h][k]
    BY <1>3
  <2>2. F \in FromLater(n, BOOLEAN)
    BY <1>2, <2>1 DEF FromLater
  <2>3. BOOLEAN # {}
    <3>1. TRUE \in BOOLEAN
      OBVIOUS
    <3> QED BY <3>1
  <2> QED BY <1>1, <2>2, <2>3, Recursion
<1>5. PICK has \in [1 .. n -> BOOLEAN] : has = F[has]
  BY <1>4
<1>6. has = [k \in Positions(pat) |-> HasStep(pat, i, c, has, k)]
  BY <1>1, <1>5
<1>7. HasFrom(pat, i, c) = [k \in Positions(pat) |-> HasStep(pat, i, c, HasFrom(pat, i, c), k)]
  BY <1>6 DEF HasFrom
<1>8. BracketHas(pat, i, c) = HasFrom(pat, i, c)[First(pat, i)]
  BY DEF BracketHas, HasFrom, HasStep
<1>9. \A k \in Positions(pat) : HasFrom(pat, i, c)[k] = HasStep(pat, i, c, HasFrom(pat, i, c), k)
  BY <1>7, Zenon
<1>10. First(pat, i) \in Positions(pat)
  BY <1>1, Firsts
<1>11. HasStep(pat, i, c, HasFrom(pat, i, c), First(pat, i)) \in BOOLEAN
  BY DEF HasStep
<1> QED BY <1>8, <1>9, <1>10, <1>11, Zenon

\* A text stands in a pattern from a position on.
Stands(pat, i, t) ==
  /\ i \in 1 .. Len(pat) + 1 /\ i + Len(t) <= Len(pat) + 1
  /\ \A j \in DOMAIN t : pat[i - 1 + j] = t[j]

\* What a member of a bracket is, wherever the bracket stands.
LEMMA MemberRead ==
  ASSUME NEW pat \in Seq(Chars), NEW b \in 1 .. Len(pat), NEW t \in Seq(Chars), Stands(pat, b, t),
         NEW i \in 1 .. Len(t) - 1, NEW j \in i .. Len(t) - 1, NEW c \in Chars,
         Single(t, i, j) \/ \E p \in i + 1 .. j - 1 : Dashed(t, i, p, j),
         Single(t, i, j) /\ t[j + 1] = "-" => Len(t) = j + 2 /\ t[Len(t)] = "]"
  PROVE  /\ MemberEnd(pat, b - 1 + i) = b + j
         /\ MemberHas(pat, b - 1 + i, c) <=> Covers(t, i, j, c)
<1> DEFINE k == b - 1 + i
<1>a. /\ Len(t) \in Nat /\ Len(pat) \in Nat /\ b + Len(t) <= Len(pat) + 1 /\ b \in Nat
      /\ \A l \in 1 .. Len(t) : pat[b - 1 + l] = t[l]
  BY DEF Stands
<1>1. /\ \A l \in 1 .. Len(t) : pat[b - 1 + l] = t[l] /\ b - 1 + l \in 1 .. Len(pat)
      /\ k \in 1 .. Len(pat) /\ k < Len(pat)
  BY <1>a
<1>0. \A l \in 0 .. Len(t) - 1 : pat[b + l] = t[l + 1] /\ b + l \in 1 .. Len(pat)
  <2>1. SUFFICES ASSUME NEW l \in 0 .. Len(t) - 1
                 PROVE  pat[b + l] = t[l + 1] /\ b + l \in 1 .. Len(pat)
    OBVIOUS
  <2>2. pat[b - 1 + (l + 1)] = t[l + 1] /\ b - 1 + (l + 1) = b + l
    BY <1>1
  <2> QED BY <1>a, <2>2
\* A character, and where it ends.
<1>2. ASSUME NEW f \in 1 .. Len(t) - 1, NEW l \in f .. Len(t) - 1, Single(t, f, l)
      PROVE  BracketChar(pat, b - 1 + f) = [char |-> t[l], next |-> b + l]
  <2>1. pat[b - 1 + f] = t[f] /\ pat[b - 1 + l] = t[l] /\ b - 1 + f < Len(pat)
    <3>0. Len(t) \in Nat /\ b \in Nat
      BY <1>a
    <3>1. f \in 1 .. Len(t) /\ l \in 1 .. Len(t)
      BY <3>0
    <3>2. b - 1 + f < b + Len(t) - 1
      BY <3>0
    <3> QED BY <1>a, <3>1, <3>2
  <2>2. CASE l = f
    BY <1>2, <2>1, <2>2 DEF Single, BracketChar
  <2>3. CASE l # f
    <3>1. l = f + 1 /\ IsEscape(t[f])
      BY <1>2, <2>3, Zenon DEF Single
    <3>2. pat[(b - 1 + f) + 1] = t[l] /\ (b - 1 + f) + 2 = b + l
      BY <2>1, <3>1
    <3> QED BY <2>1, <3>1, <3>2 DEF BracketChar
  <2> QED BY <2>2, <2>3
<1>3. CASE Single(t, i, j)
  <2>1. BracketChar(pat, k) = [char |-> t[j], next |-> b + j]
    BY <1>2, <1>3
  <2>2. pat[b + j] = t[j + 1]
    BY <1>0
  <2>3. ~IsRange(pat, k)
    <3>1. CASE t[j + 1] = "-"
      <4>1. Len(t) = j + 2 /\ t[j + 2] = "]"
        BY <1>3, <3>1
      <4>2. pat[b + (j + 1)] = t[(j + 1) + 1]
        BY <1>0, <4>1
      <4>3. pat[b + j + 1] = "]"
        BY <4>1, <4>2
      <4> QED BY <2>1, <4>3 DEF IsRange
    <3>2. CASE t[j + 1] # "-"
      BY <2>1, <2>2, <3>2 DEF IsRange
    <3> QED BY <3>1, <3>2
  <2>4. \A p \in i + 1 .. j - 1 : FALSE
    BY <1>3 DEF Single
  <2>5. MemberEnd(pat, k) = b + j /\ (MemberHas(pat, k, c) <=> c = t[j])
    BY <2>1, <2>3 DEF MemberEnd, MemberHas
  <2>6. Covers(t, i, j, c) <=> c = t[j]
    BY <1>3, <2>4, Zenon DEF Covers
  <2> QED BY <2>5, <2>6
<1>4. ASSUME NEW p \in i + 1 .. j - 1, Dashed(t, i, p, j)
      PROVE  /\ MemberEnd(pat, k) = b + j
             /\ MemberHas(pat, k, c) <=> Covers(t, i, j, c)
  <2>1. BracketChar(pat, k) = [char |-> t[p - 1], next |-> b + p - 1]
    BY <1>2, <1>4 DEF Dashed
  <2>2. BracketChar(pat, b + p) = [char |-> t[j], next |-> b + j]
    <3>1. p + 1 \in 1 .. Len(t) - 1 /\ j \in (p + 1) .. Len(t) - 1 /\ b - 1 + (p + 1) = b + p
      OBVIOUS
    <3>2. Single(t, p + 1, j)
      BY <1>4 DEF Dashed
    <3>3. BracketChar(pat, b - 1 + (p + 1)) = [char |-> t[j], next |-> b + j]
      BY <1>2, <3>1, <3>2
    <3> QED BY <3>1, <3>3
  <2>3. pat[b - 1 + p] = "-" /\ pat[b + p] # "]"
    <3>1. pat[b - 1 + p] = t[p] /\ pat[b + p] = t[p + 1]
      <4>1. p \in 1 .. Len(t) /\ p \in 0 .. Len(t) - 1
        OBVIOUS
      <4> QED BY <1>0, <1>1, <4>1
    <3> QED BY <1>4, <3>1 DEF Dashed
  <2>4. IsRange(pat, k)
    <3>1. b + p - 1 < Len(pat)
      BY <1>1
    <3> QED BY <2>1, <2>3, <3>1 DEF IsRange
  <2>5. RangeEnd(pat, k) = [char |-> t[j], next |-> b + j]
    BY <2>1, <2>2 DEF RangeEnd
  <2>6. ~Single(t, i, j)
    BY <1>4 DEF Single
  \* A range has one dash only.
  <2>7. \A q \in i + 1 .. j - 1 : Dashed(t, i, q, j) => q = p
    BY <1>4 DEF Dashed, Single
  <2>8. Covers(t, i, j, c) <=> Ranks[c] \in Ranks[t[p - 1]] .. Ranks[t[j]]
    <3> HIDE DEF k
    <3> QED BY <1>4, <2>6, <2>7 DEF Covers
  <2> QED BY <2>1, <2>4, <2>5, <2>8 DEF MemberEnd, MemberHas
<1> QED BY <1>3, <1>4

\* What increases from each position to the next increases.
LEMMA Increasing ==
  ASSUME NEW m \in Nat, NEW f,
         \A k \in 1 .. m : f[k] \in Nat /\ (k < m => f[k] < f[k + 1])
  PROVE  \A k, l \in 1 .. m : k < l => f[k] < f[l]
<1> DEFINE T == {k \in 1 .. m : \A l \in 1 .. m : k < l => f[k] < f[l]}
<1>1. ASSUME NEW k \in 1 .. m, \A l \in k + 1 .. m : l \in T
      PROVE  k \in T
  <2>1. SUFFICES ASSUME NEW l \in 1 .. m, k < l
                 PROVE  f[k] < f[l]
    OBVIOUS
  <2>2. k + 1 \in 1 .. m /\ k + 1 \in k + 1 .. m /\ f[k] < f[k + 1]
    BY <2>1
  <2>3. f[k] \in Nat /\ f[k + 1] \in Nat /\ f[l] \in Nat
    BY <2>2
  <2>4. k + 1 \in T
    BY <1>1, <2>2
  <2>5. k + 1 < l => f[k + 1] < f[l]
    BY <2>1, <2>4
  <2> QED BY <2>1, <2>2, <2>3, <2>5
<1>2. \A k \in 1 .. m : k \in T
  <2> HIDE DEF T
  <2> QED BY <1>1, DownInduction
<1> QED BY <1>2

\* A bracket is read as it was written, wherever it stands.
LEMMA BracketRead ==
  ASSUME NEW pat \in Seq(Chars), NEW b \in 1 .. Len(pat), NEW t \in Seq(Chars), Stands(pat, b, t),
         NEW chars, Bracket(t, chars)
  PROVE  /\ BracketEnd(pat, b) = b + Len(t)
         /\ \A c \in Chars : (BracketHas(pat, b, c) # Negated(pat, b)) = (c \in chars)
<1>1. PICK n \in 1 .. Len(t) - 2 : \E first \in [1 .. n + 1 -> 2 .. Len(t)] :
        /\ Members(t, n, first)
        /\ chars = {c \in Chars : (\E k \in 1 .. n : Covers(t, first[k], first[k + 1] - 1, c)) # (t[2] = "!")}
  BY DEF Bracket
<1>2. PICK first \in [1 .. n + 1 -> 2 .. Len(t)] :
        /\ Members(t, n, first)
        /\ chars = {c \in Chars : (\E k \in 1 .. n : Covers(t, first[k], first[k + 1] - 1, c)) # (t[2] = "!")}
  BY <1>1
<1>3. Len(t) \in Nat /\ Len(pat) \in Nat /\ b \in Nat /\ b >= 1
  OBVIOUS
<1>4. n \in Nat /\ n >= 1 /\ Len(t) >= 3
  BY <1>3
<1>5. b + Len(t) <= Len(pat) + 1 /\ \A j \in 1 .. Len(t) : pat[b - 1 + j] = t[j]
  BY DEF Stands
<1>6. t[Len(t)] = "]"
  BY DEF Bracket
<1>7. \A k \in 1 .. n + 1 : first[k] \in Nat /\ 2 <= first[k] /\ first[k] <= Len(t)
  BY <1>3
<1>8. \A k \in 1 .. n : k + 1 \in 1 .. n + 1 /\ k \in 1 .. n + 1
  BY <1>4
<1>9. Negated(pat, b) = (t[2] = "!") /\ First(pat, b) = b - 1 + first[1]
  <2>1. pat[b + 1] = t[2] /\ b < Len(pat)
    <3>1. 2 \in 1 .. Len(t) /\ b - 1 + 2 = b + 1
      BY <1>3, <1>4
    <3>2. b < Len(pat)
      BY <1>3, <1>4, <1>5
    <3> QED BY <1>5, <3>1, <3>2
  <2>2. first[1] = (IF t[2] = "!" THEN 3 ELSE 2)
    BY <1>2, Zenon DEF Members
  <2> QED BY <2>1, <2>2 DEF Negated, First
\* The members stand one after the other.
<1>10. ASSUME NEW k \in 1 .. n, NEW i, NEW j, i = first[k], j = first[k + 1] - 1
       PROVE  /\ i \in Nat /\ j \in Nat /\ 1 <= i /\ i <= j /\ j <= Len(t) - 1
              /\ Single(t, i, j) \/ \E p \in i + 1 .. j - 1 : Dashed(t, i, p, j)
              /\ t[i] = "]" => k = 1
              /\ Single(t, i, j) /\ t[j + 1] = "-" => Len(t) = j + 2
  <2>1. i \in Nat /\ j \in Nat /\ 1 <= i /\ j <= Len(t) - 1
    <3>1. k \in 1 .. n + 1 /\ k + 1 \in 1 .. n + 1
      BY <1>8
    <3>2. first[k] \in Nat /\ 2 <= first[k] /\ first[k + 1] \in Nat /\ 2 <= first[k + 1] /\ first[k + 1] <= Len(t)
      BY <1>7, <3>1
    <3> QED BY <1>3, <1>10, <3>2
  <2>2. /\ Single(t, i, j) \/ \E p \in i + 1 .. j - 1 : Dashed(t, i, p, j)
        /\ t[i] = "]" => k = 1
        /\ Single(t, i, j) /\ t[j + 1] = "-" => Len(t) = j + 2
    BY <1>2, <1>10, Zenon DEF Members
  <2>3. i <= j
    <3>1. CASE Single(t, i, j)
      <4>1. j = i \/ j = i + 1
        BY <3>1, Zenon DEF Single
      <4> QED BY <2>1, <4>1
    <3>2. CASE \E p \in i + 1 .. j - 1 : TRUE
      BY <2>1, <3>2
    <3> QED BY <2>2, <3>1, <3>2
  <2> QED BY <2>1, <2>2, <2>3
<1>11. ASSUME NEW k \in 1 .. n, NEW i, NEW j, i = first[k], j = first[k + 1] - 1
       PROVE  /\ b - 1 + i \in 1 .. Len(pat) /\ pat[b - 1 + i] = t[i]
              /\ MemberEnd(pat, b - 1 + i) = b + j
              /\ \A c \in Chars : MemberHas(pat, b - 1 + i, c) <=> Covers(t, i, j, c)
  <2>1. /\ i \in Nat /\ j \in Nat /\ 1 <= i /\ i <= j /\ j <= Len(t) - 1
        /\ Single(t, i, j) \/ \E p \in i + 1 .. j - 1 : Dashed(t, i, p, j)
        /\ Single(t, i, j) /\ t[j + 1] = "-" => Len(t) = j + 2 /\ t[Len(t)] = "]"
    BY <1>6, <1>10, <1>11
  <2>2. i \in 1 .. Len(t) - 1 /\ j \in i .. Len(t) - 1 /\ i \in 1 .. Len(t)
    BY <1>3, <2>1
  <2>3. b - 1 + i \in 1 .. Len(pat)
    <3>1. b + Len(t) <= Len(pat) + 1
      BY <1>5
    <3> QED BY <1>3, <2>1, <3>1
  <2>4. pat[b - 1 + i] = t[i]
    BY <1>5, <2>2
  <2>5. pat[b] \in Chars
    OBVIOUS
  <2>6. MemberEnd(pat, b - 1 + i) = b + j
    BY <2>1, <2>2, <2>5, MemberRead
  <2>7. ASSUME NEW c \in Chars PROVE MemberHas(pat, b - 1 + i, c) <=> Covers(t, i, j, c)
    BY <2>1, <2>2, MemberRead
  <2> QED BY <2>3, <2>4, <2>6, <2>7, Zenon
<1> DEFINE at(k) == b - 1 + first[k]
<1>12. ASSUME NEW k \in 1 .. n
       PROVE  /\ at(k) \in 1 .. Len(pat) /\ (pat[at(k)] = "]" => k = 1)
              /\ MemberEnd(pat, at(k)) = at(k + 1)
              /\ \A c \in Chars :
                   MemberHas(pat, at(k), c) <=> Covers(t, first[k], first[k + 1] - 1, c)
  <2> DEFINE i == first[k]
             j == first[k + 1] - 1
  <2>1. /\ b - 1 + i \in 1 .. Len(pat) /\ pat[b - 1 + i] = t[i]
        /\ MemberEnd(pat, b - 1 + i) = b + j
        /\ \A c \in Chars : MemberHas(pat, b - 1 + i, c) <=> Covers(t, i, j, c)
    BY <1>11
  <2>2. t[i] = "]" => k = 1
    BY <1>10
  <2>3. b + j = at(k + 1)
    BY <1>3, <1>7, <1>8
  <2> QED BY <2>1, <2>2, <2>3
<1>13. \A k, l \in 1 .. n + 1 : k < l => first[k] < first[l]
  <2>1. \A k \in 1 .. n + 1 : first[k] \in Nat /\ (k < n + 1 => first[k] < first[k + 1])
    <3>1. SUFFICES ASSUME NEW k \in 1 .. n PROVE first[k] < first[k + 1]
      BY <1>4, <1>7
    <3>2. first[k] \in Nat /\ first[k + 1] \in Nat
      BY <1>7, <1>8
    <3>3. first[k] <= first[k + 1] - 1
      BY <1>10
    <3> QED BY <3>2, <3>3
  <2>2. n + 1 \in Nat
    BY <1>4
  <2> QED BY <2>1, <2>2, Increasing
\* The end of the bracket.
<1>14. /\ at(n + 1) \in 1 .. Len(pat) /\ at(n + 1) + 1 = b + Len(t)
       /\ pat[at(n + 1)] = "]" /\ at(n + 1) # First(pat, b)
  <2>1. first[n + 1] = Len(t)
    BY <1>2 DEF Members
  <2>2. first[1] < first[n + 1] /\ first[1] \in Nat
    BY <1>4, <1>7, <1>13
  <2>3. pat[b - 1 + Len(t)] = "]"
    <3>1. Len(t) \in 1 .. Len(t)
      BY <1>4
    <3> QED BY <1>5, <1>6, <3>1
  <2>4. b + Len(t) <= Len(pat) + 1
    BY <1>5
  <2>5. b - 1 + Len(t) \in 1 .. Len(pat) /\ b - 1 + Len(t) + 1 = b + Len(t)
    BY <1>3, <1>4, <2>4
  <2>6. b - 1 + first[n + 1] # b - 1 + first[1]
    BY <1>3, <2>1, <2>2
  <2> QED BY <1>9, <2>1, <2>3, <2>5, <2>6
<1>15. \A k \in 1 .. n : pat[at(k)] = "]" => at(k) = First(pat, b)
  BY <1>9, <1>12
<1> HIDE DEF at
<1>16. \A k \in 1 .. n + 1 : at(k) \in Positions(pat) /\ at(k) <= Len(pat)
  <2>1. SUFFICES ASSUME NEW k \in 1 .. n + 1 PROVE at(k) \in 1 .. Len(pat)
    BY <1>3 DEF Positions
  <2>2. k \in 1 .. n \/ k = n + 1
    BY <1>4
  <2> QED BY <1>12, <1>14, <2>2
<1>17. BracketEnd(pat, b) = b + Len(t)
  <2> DEFINE end == BracketEnds(pat, b)
             T == {k \in 1 .. n + 1 : end[at(k)] = b + Len(t)}
  <2>1. \A k \in Positions(pat) : end[k] = BracketEndStep(pat, b, end, k)
    BY BracketEndsDef
  <2> HIDE DEF end
  <2>2. n + 1 \in T
    <3>1. end[at(n + 1)] = BracketEndStep(pat, b, end, at(n + 1)) /\ n + 1 \in 1 .. n + 1
      BY <1>4, <1>16, <2>1
    <3> QED BY <1>14, <1>16, <3>1 DEF BracketEndStep
  <2>3. ASSUME NEW k \in 1 .. n + 1, \A l \in k + 1 .. n + 1 : l \in T
        PROVE  k \in T
    <3>1. CASE k = n + 1
      BY <2>2, <3>1
    <3>2. CASE k # n + 1
      <4>1. k \in 1 .. n /\ k + 1 \in k + 1 .. n + 1
        BY <1>4, <3>2
      <4>2. end[at(k)] = BracketEndStep(pat, b, end, at(k))
        BY <1>16, <2>1
      <4>3. BracketEndStep(pat, b, end, at(k)) = end[at(k + 1)]
        BY <1>12, <1>15, <1>16, <4>1 DEF BracketEndStep
      <4> QED BY <2>3, <4>1, <4>2, <4>3
    <3> QED BY <3>1, <3>2
  <2>4. \A k \in 1 .. n + 1 : k \in T
    <3> HIDE DEF T
    <3>1. n + 1 \in Nat
      BY <1>4
    <3> QED BY <2>3, <3>1, DownInduction
  <2>5. BracketEnd(pat, b) = end[First(pat, b)]
    BY DEF BracketEnd, BracketEnds, BracketEndStep, end
  <2> QED BY <1>4, <1>9, <2>4, <2>5 DEF at
\* What it has.
<1>18. ASSUME NEW c \in Chars
       PROVE  BracketHas(pat, b, c) <=> \E k \in 1 .. n : Covers(t, first[k], first[k + 1] - 1, c)
  <2> DEFINE has == HasFrom(pat, b, c)
             covers(l) == Covers(t, first[l], first[l + 1] - 1, c)
             T == {k \in 1 .. n + 1 : has[at(k)] <=> \E l \in k .. n : covers(l)}
  <2>1. \A k \in Positions(pat) : has[k] = HasStep(pat, b, c, has, k)
    BY HasDef
  <2>2. \A k \in 1 .. n : MemberHas(pat, at(k), c) <=> covers(k)
    BY <1>12
  <2> HIDE DEF has, covers
  <2>3. n + 1 \in T
    <3>1. has[at(n + 1)] = HasStep(pat, b, c, has, at(n + 1)) /\ n + 1 \in 1 .. n + 1
      BY <1>4, <1>16, <2>1
    <3>2. ~HasStep(pat, b, c, has, at(n + 1))
      BY <1>14 DEF HasStep
    <3>3. \A l \in n + 1 .. n : FALSE
      BY <1>4
    <3> QED BY <3>1, <3>2, <3>3
  <2>4. ASSUME NEW k \in 1 .. n + 1, \A l \in k + 1 .. n + 1 : l \in T
        PROVE  k \in T
    <3>1. CASE k = n + 1
      BY <2>3, <3>1
    <3>2. CASE k # n + 1
      <4>1. k \in 1 .. n /\ k + 1 \in k + 1 .. n + 1 /\ k .. n = {k} \cup k + 1 .. n
        BY <1>4, <3>2
      <4>2. has[at(k)] = HasStep(pat, b, c, has, at(k))
        BY <1>16, <2>1
      <4>3. HasStep(pat, b, c, has, at(k)) <=> covers(k) \/ has[at(k + 1)]
        BY <1>12, <1>15, <1>16, <2>2, <4>1, Zenon DEF HasStep
      <4>4. has[at(k + 1)] <=> \E l \in k + 1 .. n : covers(l)
        BY <2>4, <4>1
      <4>5. (\E l \in k .. n : covers(l)) <=> covers(k) \/ \E l \in k + 1 .. n : covers(l)
        BY <4>1
      <4>6. has[at(k)] <=> \E l \in k .. n : covers(l)
        BY <4>2, <4>3, <4>4, <4>5, Zenon
      <4> QED BY <4>6
    <3> QED BY <3>1, <3>2
  <2>5. \A k \in 1 .. n + 1 : k \in T
    <3> HIDE DEF T
    <3>1. n + 1 \in Nat
      BY <1>4
    <3> QED BY <2>4, <3>1, DownInduction
  <2>6. BracketHas(pat, b, c) = has[at(1)]
    BY <1>9, HasDef DEF has, at
  <2>7. 1 \in 1 .. n + 1
    BY <1>4
  <2> QED BY <2>5, <2>6, <2>7 DEF covers
<1>19. ASSUME NEW c \in Chars
       PROVE  (BracketHas(pat, b, c) # Negated(pat, b)) = (c \in chars)
  <2>1. c \in chars <=> ((\E k \in 1 .. n : Covers(t, first[k], first[k + 1] - 1, c)) # (t[2] = "!"))
    BY <1>2
  <2>2. Negated(pat, b) <=> t[2] = "!"
    BY <1>9
  <2>3. (BracketHas(pat, b, c) # Negated(pat, b)) <=> c \in chars
    <3>1. BracketHas(pat, b, c) \in BOOLEAN /\ Negated(pat, b) \in BOOLEAN
      BY HasDef DEF Negated
    <3> QED BY <1>18, <2>1, <2>2, <3>1, Zenon
  <2> QED BY <2>3
<1> QED BY <1>17, <1>19

\* How an atom is written: not with nothing, and with "*" and "/" first only if
\* it is a star or a slash.
LEMMA AtomWritten ==
  ASSUME NEW a, IsAtom(a), a.text \in Seq(Chars)
  PROVE  /\ Len(a.text) \in Nat /\ Len(a.text) >= 1
         /\ a.text[1] = "*" <=> a = Star
         /\ a.text[1] = "/" <=> a = Slash
         /\ a = Slash => Len(a.text) = 1
<1>1. Len(<<"*">>) = 1 /\ Len(<<"/">>) = 1 /\ Len(<<"?">>) = 1
  OBVIOUS
<1>2. CASE a = Star
  BY <1>1, <1>2 DEF Star, Slash, OneOf
<1>3. CASE a = Slash
  BY <1>1, <1>3 DEF Star, Slash, OneOf
<1>4. CASE a = OneOf(<<"?">>, Chars)
  BY <1>1, <1>4 DEF Star, Slash, OneOf
<1>5. ASSUME NEW c \in Ordinary, a = OneOf(<<c>>, {c})
      PROVE  /\ Len(a.text) \in Nat /\ Len(a.text) >= 1
             /\ a.text[1] = "*" <=> a = Star
             /\ a.text[1] = "/" <=> a = Slash
             /\ a = Slash => Len(a.text) = 1
  <2>1. a.text = <<c>> /\ Len(<<c>>) = 1 /\ <<c>>[1] = c
    BY <1>5 DEF OneOf
  <2>2. c # "*" /\ c # "/"
    BY DEF Ordinary
  <2>3. Star.text[1] = "*" /\ Slash.text[1] = "/"
    BY DEF Star, Slash, OneOf
  <2> QED BY <2>1, <2>2, <2>3
<1>6. ASSUME NEW e \in {"\\", Escape}, NEW c \in Chars, a = OneOf(<<e, c>>, {c})
      PROVE  /\ Len(a.text) \in Nat /\ Len(a.text) >= 1
             /\ a.text[1] = "*" <=> a = Star
             /\ a.text[1] = "/" <=> a = Slash
             /\ a = Slash => Len(a.text) = 1
  <2>1. a.text = <<e, c>> /\ Len(<<e, c>>) = 2 /\ <<e, c>>[1] = e
    BY <1>6 DEF OneOf
  <2>2. e # "*" /\ e # "/"
    BY DEF Escape
  <2>3. Star.text[1] = "*" /\ Slash.text[1] = "/"
    BY DEF Star, Slash, OneOf
  <2> QED BY <2>1, <2>2, <2>3
<1>7. CASE Bracket(a.text, a.chars)
  <2>1. a.text[1] = "[" /\ \E n \in 1 .. Len(a.text) - 2 : TRUE
    BY <1>7 DEF Bracket
  <2>2. Len(a.text) \in Nat
    OBVIOUS
  <2>3. Len(a.text) >= 1 /\ a.text[1] # "*" /\ a.text[1] # "/"
    BY <2>1, <2>2
  <2>4. Star.text[1] = "*" /\ Slash.text[1] = "/"
    BY DEF Star, Slash, OneOf
  <2> QED BY <2>2, <2>3, <2>4
<1>8. CASE \E c \in Ordinary : a = OneOf(<<c>>, {c})
  BY <1>5, <1>8, Zenon
<1>9. CASE \E e \in {"\\", Escape}, c \in Chars : a = OneOf(<<e, c>>, {c})
  BY <1>6, <1>9, Zenon
<1> QED BY <1>2, <1>3, <1>4, <1>7, <1>8, <1>9, Zenon DEF IsAtom

(* An atom is one element of a pattern wherever it stands, and takes its    *)
(* characters.                                                              *)
LEMMA AtomRead ==
  ASSUME NEW pat \in Seq(Chars), NEW b \in 1 .. Len(pat),
         NEW a, IsAtom(a), a.text \in Seq(Chars), Stands(pat, b, a.text)
  PROVE  /\ Following(pat, b) = b + Len(a.text)
         /\ a # Star => \A c \in Chars : Accepts(pat, b, c) = (c \in a.chars)
<1>1. pat[b] = a.text[1] /\ Len(a.text) \in Nat /\ Len(a.text) >= 1 /\ b \in Nat /\ Len(pat) \in Nat
      /\ (a.text[1] = "*" <=> a = Star)
  <2>1. Len(a.text) \in Nat /\ Len(a.text) >= 1 /\ (a.text[1] = "*" <=> a = Star)
    BY AtomWritten
  <2>2. 1 \in DOMAIN a.text /\ b - 1 + 1 = b
    BY <2>1
  <2> QED BY <2>1, <2>2 DEF Stands
<1>2. CASE a = Star
  <2>1. Len(<<"*">>) = 1
    OBVIOUS
  <2> QED BY <1>1, <1>2, <2>1 DEF Following, Star, OneOf
<1>3. a # Star => Following(pat, b) = After(pat, b)
  BY <1>1 DEF Following
<1>4. ASSUME NEW c \in Chars, ~IsEscape(c), c # "[", a.text = <<c>>, c # "*",
             IF c = "?" THEN a.chars = Chars ELSE a.chars = {c}
      PROVE  After(pat, b) = b + Len(a.text) /\ \A d \in Chars : Accepts(pat, b, d) = (d \in a.chars)
  <2>1. Len(a.text) = 1 /\ pat[b] = c
    BY <1>1, <1>4
  <2>2. After(pat, b) = b + Len(a.text)
    BY <1>4, <2>1 DEF After
  <2>3. CASE c = "?"
    <3>1. \A d \in Chars : Accepts(pat, b, d) = TRUE
      BY <2>1, <2>3 DEF Accepts
    <3>2. a.chars = Chars
      BY <1>4, <2>3
    <3> QED BY <2>2, <3>1, <3>2
  <2>4. CASE c # "?"
    <3>1. a.chars = {c} /\ \A d \in Chars : Accepts(pat, b, d) <=> d = c
      BY <1>4, <2>1, <2>4 DEF Accepts
    <3>2. \A d \in Chars : Accepts(pat, b, d) = (d = c)
      BY <1>4, <2>1, <2>4 DEF Accepts
    <3> QED BY <2>2, <3>1, <3>2
  <2> QED BY <2>2, <2>3, <2>4
<1>5. ASSUME NEW e \in {"\\", Escape}, NEW c \in Chars, a = OneOf(<<e, c>>, {c})
      PROVE  After(pat, b) = b + Len(a.text) /\ \A d \in Chars : Accepts(pat, b, d) = (d \in a.chars)
  <2>1. a.text = <<e, c>> /\ a.chars = {c}
    BY <1>5 DEF OneOf
  <2>2. Len(a.text) = 2 /\ a.text[1] = e /\ a.text[2] = c
    BY <2>1
  <2>3. b + 2 <= Len(pat) + 1 /\ pat[b - 1 + 2] = c
    BY <2>2 DEF Stands
  <2>4. b < Len(pat) /\ pat[b + 1] = c /\ pat[b] = e
    BY <1>1, <2>2, <2>3
  <2>5. IsEscape(e) /\ e # "[" /\ e # "?"
    BY DEF IsEscape, Escape
  <2> QED BY <2>1, <2>2, <2>4, <2>5 DEF After, Accepts
<1>6. ASSUME Bracket(a.text, a.chars)
      PROVE  After(pat, b) = b + Len(a.text) /\ \A d \in Chars : Accepts(pat, b, d) = (d \in a.chars)
  <2>1. pat[b] = "["
    BY <1>1, <1>6 DEF Bracket
  <2>2. /\ BracketEnd(pat, b) = b + Len(a.text)
        /\ \A c \in Chars : (BracketHas(pat, b, c) # Negated(pat, b)) = (c \in a.chars)
    BY <1>6, BracketRead
  <2> QED BY <2>1, <2>2 DEF After, Accepts
<1>7. ASSUME a = Slash
      PROVE  After(pat, b) = b + Len(a.text) /\ \A d \in Chars : Accepts(pat, b, d) = (d \in a.chars)
  <2>1. pat[b] \in Chars /\ a.text = <<"/">> /\ a.chars = {"/"} /\ pat[b] = "/"
    BY <1>1, <1>7 DEF Slash, OneOf
  <2>2. ~IsEscape("/")
    BY DEF IsEscape, Escape
  <2> QED BY <1>1, <1>3, <1>4, <2>1, <2>2
<1>8. ASSUME a = OneOf(<<"?">>, Chars)
      PROVE  After(pat, b) = b + Len(a.text) /\ \A d \in Chars : Accepts(pat, b, d) = (d \in a.chars)
  <2>1. pat[b] \in Chars /\ a.text = <<"?">> /\ a.chars = Chars /\ pat[b] = "?"
    BY <1>1, <1>8 DEF OneOf
  <2>2. ~IsEscape("?")
    BY DEF IsEscape, Escape
  <2> QED BY <1>1, <1>3, <1>4, <2>1, <2>2
<1>9. ASSUME NEW c \in Ordinary, a = OneOf(<<c>>, {c})
      PROVE  After(pat, b) = b + Len(a.text) /\ \A d \in Chars : Accepts(pat, b, d) = (d \in a.chars)
  <2>1. a.text = <<c>> /\ a.chars = {c}
    BY <1>9 DEF OneOf
  <2>2. c \in Chars /\ ~IsEscape(c) /\ c # "[" /\ c # "*" /\ c # "?"
    BY DEF Ordinary
  <2> QED BY <1>4, <2>1, <2>2
<1>10. CASE a # Star
  <2>1. After(pat, b) = b + Len(a.text) /\ \A d \in Chars : Accepts(pat, b, d) = (d \in a.chars)
    BY <1>5, <1>6, <1>7, <1>8, <1>9, <1>10, Zenon DEF IsAtom
  <2> QED BY <1>3, <1>10, <2>1
<1> QED BY <1>2, <1>10

-----------------------------------------------------------------------------
(* A pattern that is written with atoms is read as these atoms.             *)

\* Where each atom begins.
Spelled(pat, piece, st) ==
  /\ st \in [1 .. Len(piece) + 1 -> 1 .. Len(pat) + 1] /\ st[1] = 1 /\ st[Len(piece) + 1] = Len(pat) + 1
  /\ \A k \in 1 .. Len(piece) : st[k + 1] = st[k] + Len(piece[k].text) /\ Stands(pat, st[k], piece[k].text)

\* Atoms follow each other.
LEMMA Spells ==
  ASSUME NEW pat \in Seq(Chars), NEW piece \in Seq(Atoms), NEW st, Spelled(pat, piece, st)
  PROVE  /\ \A k \in 1 .. Len(piece) :
              /\ piece[k] \in Atoms /\ IsAtom(piece[k]) /\ piece[k].text \in Seq(Chars) /\ Stands(pat, st[k], piece[k].text)
              /\ st[k] \in 1 .. Len(pat) /\ st[k + 1] = st[k] + Len(piece[k].text) /\ k + 1 \in 1 .. Len(piece) + 1
         /\ \A k \in 1 .. Len(piece) + 1 : st[k] \in Nat /\ 1 <= st[k] /\ st[k] <= Len(pat) + 1
         /\ \A k, l \in 1 .. Len(piece) + 1 : (k < l => st[k] < st[l]) /\ (k <= l => st[k] <= st[l])
<1>1. Len(piece) \in Nat /\ Len(pat) \in Nat
  OBVIOUS
<1>2. \A k \in 1 .. Len(piece) + 1 : st[k] \in Nat /\ 1 <= st[k] /\ st[k] <= Len(pat) + 1
  <2>1. st \in [1 .. Len(piece) + 1 -> 1 .. Len(pat) + 1]
    BY DEF Spelled
  <2> QED BY <1>1, <2>1
<1>3. ASSUME NEW k \in 1 .. Len(piece)
      PROVE  /\ piece[k] \in Atoms /\ IsAtom(piece[k]) /\ piece[k].text \in Seq(Chars) /\ Stands(pat, st[k], piece[k].text)
             /\ st[k] \in 1 .. Len(pat) /\ st[k + 1] = st[k] + Len(piece[k].text) /\ k + 1 \in 1 .. Len(piece) + 1
             /\ st[k] < st[k + 1]
  <2>1. piece[k] \in Atoms
    OBVIOUS
  <2>2. IsAtom(piece[k]) /\ piece[k].text \in Seq(Chars)
    BY <2>1, AtomsAssumption
  <2>3. Len(piece[k].text) \in Nat /\ Len(piece[k].text) >= 1
    BY <2>2, AtomWritten
  <2>4. st[k + 1] = st[k] + Len(piece[k].text) /\ Stands(pat, st[k], piece[k].text)
    BY DEF Spelled
  <2>5. k \in 1 .. Len(piece) + 1 /\ k + 1 \in 1 .. Len(piece) + 1
    BY <1>1
  <2>6. st[k] \in Nat /\ 1 <= st[k] /\ st[k + 1] <= Len(pat) + 1
    BY <1>2, <2>5
  <2>7. st[k] \in 1 .. Len(pat) /\ st[k] < st[k + 1]
    BY <1>1, <2>3, <2>4, <2>6
  <2> QED BY <2>1, <2>2, <2>4, <2>5, <2>7
<1>4. \A k, l \in 1 .. Len(piece) + 1 : k < l => st[k] < st[l]
  <2>1. \A k \in 1 .. Len(piece) + 1 : st[k] \in Nat /\ (k < Len(piece) + 1 => st[k] < st[k + 1])
    <3>1. SUFFICES ASSUME NEW k \in 1 .. Len(piece) + 1 PROVE k < Len(piece) + 1 => st[k] < st[k + 1]
      BY <1>2
    <3>2. k < Len(piece) + 1 => k \in 1 .. Len(piece)
      BY <1>1
    <3> QED BY <1>3, <3>2
  <2>2. Len(piece) + 1 \in Nat
    BY <1>1
  <2> QED BY <2>1, <2>2, Increasing
<1>5. ASSUME NEW k \in 1 .. Len(piece) + 1, NEW l \in 1 .. Len(piece) + 1, k <= l
      PROVE  st[k] <= st[l]
  <2>1. (k < l \/ k = l) /\ st[k] \in Nat /\ st[l] \in Nat
    BY <1>1, <1>2, <1>5
  <2> QED BY <1>4, <2>1
<1> QED BY <1>2, <1>3, <1>4, <1>5

\* A sequence with one more in front.
LEMMA Ahead ==
  ASSUME NEW S, NEW x \in S, NEW rest \in Seq(S)
  PROVE  /\ Len(<<x>> \o rest) = 1 + Len(rest)
         /\ (<<x>> \o rest)[1] = x /\ \A j \in 1 .. Len(rest) : (<<x>> \o rest)[j + 1] = rest[j]
OBVIOUS

\* The elements of the pattern begin where the atoms do.
LEMMA SpelledElements ==
  ASSUME NEW pat \in Seq(Chars), NEW piece \in Seq(Atoms), NEW st, Spelled(pat, piece, st)
  PROVE  Len(Elements(pat)) = Len(piece) /\ \A k \in 1 .. Len(piece) : Elements(pat)[k] = st[k]
<1> DEFINE from == ElementsFrom(pat)
           n == Len(piece)
           R(k) == /\ Len(from[st[k]]) = n + 1 - k
                   /\ \A j \in 1 .. n + 1 - k : from[st[k]][j] = st[k - 1 + j]
           T == {k \in 1 .. n + 1 : R(k)}
<1>1. n \in Nat /\ Len(pat) \in Nat
  OBVIOUS
<1>2. \A i \in Positions(pat) : from[i] \in Seq(Positions(pat)) /\ from[i] = ElementsStep(pat, from, i)
  BY ElementsDef
<1>3. \A k \in 1 .. n + 1 : st[k] \in Positions(pat)
  BY <1>1, Spells DEF Positions
<1> HIDE DEF from
<1>4. n + 1 \in T
  <2>1. st[n + 1] = Len(pat) + 1 /\ n + 1 \in 1 .. n + 1
    BY <1>1 DEF Spelled
  <2>2. from[st[n + 1]] = <<>>
    <3>1. from[st[n + 1]] = ElementsStep(pat, from, st[n + 1])
      BY <1>2, <1>3, <2>1
    <3>2. st[n + 1] > Len(pat)
      BY <1>1, <2>1
    <3> QED BY <3>1, <3>2 DEF ElementsStep
  <2>3. n + 1 - (n + 1) = 0 /\ Len(<<>>) = 0 /\ \A j \in 1 .. 0 : FALSE
    BY <1>1
  <2> QED BY <2>1, <2>2, <2>3
<1>5. ASSUME NEW k \in 1 .. n, k + 1 \in T
      PROVE  k \in T
  <2>1. /\ IsAtom(piece[k]) /\ piece[k].text \in Seq(Chars) /\ Stands(pat, st[k], piece[k].text)
        /\ st[k] \in 1 .. Len(pat) /\ st[k + 1] = st[k] + Len(piece[k].text) /\ k + 1 \in 1 .. n + 1
    BY Spells
  <2>2. Following(pat, st[k]) = st[k + 1]
    BY <2>1, AtomRead
  <2>3. st[k] \in Positions(pat) /\ st[k + 1] \in Positions(pat) /\ k \in 1 .. n + 1
    BY <1>1, <1>3, <2>1
  <2>4. from[st[k]] = <<st[k]>> \o from[st[k + 1]]
    <3>1. from[st[k]] = ElementsStep(pat, from, st[k])
      BY <1>2, <2>3
    <3>2. ~(st[k] > Len(pat))
      BY <1>1, <2>1
    <3> QED BY <2>2, <3>1, <3>2 DEF ElementsStep
  <2> DEFINE rest == from[st[k + 1]]
             all == <<st[k]>> \o rest
  <2>5. rest \in Seq(Positions(pat))
    BY <1>2, <2>3
  <2>6. Len(all) = 1 + Len(rest) /\ all[1] = st[k] /\ \A j \in 1 .. Len(rest) : all[j + 1] = rest[j]
    <3> HIDE DEF rest
    <3> QED BY <2>3, <2>5, Ahead
  <2>7. Len(rest) = n - k /\ \A j \in 1 .. n - k : rest[j] = st[k + j]
    <3>0. R(k + 1)
      <4> HIDE DEF R
      <4> QED BY <1>5
    <3>1. Len(rest) = n + 1 - (k + 1) /\ \A j \in 1 .. n + 1 - (k + 1) : rest[j] = st[k + 1 - 1 + j]
      BY <3>0
    <3>2. n + 1 - (k + 1) = n - k /\ \A j \in 1 .. n - k : k + 1 - 1 + j = k + j
      BY <1>1
    <3> QED BY <3>1, <3>2
  <2> HIDE DEF rest, all
  <2>8. Len(all) = n + 1 - k
    BY <1>1, <2>6, <2>7
  <2>9. ASSUME NEW j \in 1 .. n + 1 - k PROVE all[j] = st[k - 1 + j]
    <3>1. CASE j = 1
      BY <1>1, <2>6, <3>1
    <3>2. CASE j # 1
      <4>1. j - 1 \in 1 .. n - k /\ j - 1 + 1 = j /\ k + (j - 1) = k - 1 + j
        BY <1>1, <3>2
      <4> QED BY <2>6, <2>7, <4>1
    <3> QED BY <3>1, <3>2
  <2> QED BY <2>3, <2>4, <2>8, <2>9 DEF all, rest
<1>6. \A k \in 1 .. n + 1 : k \in T
  <2>1. ASSUME NEW k \in 1 .. n + 1, \A l \in k + 1 .. n + 1 : l \in T
        PROVE  k \in T
    <3>1. k = n + 1 \/ (k \in 1 .. n /\ k + 1 \in k + 1 .. n + 1)
      BY <1>1
    <3> HIDE DEF T
    <3> QED BY <1>4, <1>5, <2>1, <3>1
  <2>2. n + 1 \in Nat
    BY <1>1
  <2> HIDE DEF T
  <2> QED BY <2>1, <2>2, DownInduction
<1>7. 1 \in T /\ st[1] = 1
  <2>1. 1 \in 1 .. n + 1
    BY <1>1
  <2> HIDE DEF T
  <2> QED BY <1>6, <2>1 DEF Spelled
<1>8. Len(from[1]) = n /\ \A j \in 1 .. n : from[1][j] = st[j]
  <2>1. n + 1 - 1 = n /\ \A j \in 1 .. n : 1 - 1 + j = j
    BY <1>1
  <2> QED BY <1>7, <2>1
<1> QED BY <1>8 DEF Elements, from

\* Each element is written as its atom.
LEMMA SpelledText ==
  ASSUME NEW pat \in Seq(Chars), NEW piece \in Seq(Atoms), NEW st, Spelled(pat, piece, st)
  PROVE  IsTextOf(pat, piece)
<1>1. Len(piece) \in Nat /\ Len(pat) \in Nat
  OBVIOUS
<1>2. Len(Elements(pat)) = Len(piece) /\ \A k \in 1 .. Len(piece) : Elements(pat)[k] = st[k]
  BY SpelledElements
<1>3. ASSUME NEW k \in 1 .. Len(piece)
      PROVE  LET end == IF k = Len(piece) THEN Len(pat) ELSE Elements(pat)[k + 1] - 1
             IN  SubSeq(pat, Elements(pat)[k], end) = piece[k].text
  <2> DEFINE text0 == piece[k].text
             i == st[k]
             j == st[k + 1] - 1
  <2>1. /\ text0 \in Seq(Chars) /\ Stands(pat, i, text0) /\ i \in 1 .. Len(pat) /\ st[k + 1] = i + Len(text0)
        /\ k + 1 \in 1 .. Len(piece) + 1
    BY Spells
  <2>2. (IF k = Len(piece) THEN Len(pat) ELSE Elements(pat)[k + 1] - 1) = j
    <3>1. CASE k = Len(piece)
      <4>1. st[Len(piece) + 1] = Len(pat) + 1
        BY DEF Spelled
      <4> QED BY <1>1, <3>1, <4>1
    <3>2. CASE k # Len(piece)
      <4>1. k + 1 \in 1 .. Len(piece)
        BY <1>1, <3>2
      <4> QED BY <1>2, <3>2, <4>1
    <3> QED BY <3>1, <3>2
  <2> HIDE DEF text0, i
  <2>3. Len(text0) \in Nat /\ i \in Nat /\ j = i + Len(text0) - 1
    BY <1>1, <2>1
  <2>4. \A l \in 1 .. Len(text0) : pat[i - 1 + l] = text0[l]
    BY <2>1 DEF Stands
  <2>5. i + Len(text0) <= Len(pat) + 1
    BY <2>1 DEF Stands
  <2> DEFINE part == SubSeq(pat, i, j)
  <2>6. part \in Seq(Chars) /\ Len(part) = Len(text0) /\ \A l \in 1 .. Len(text0) : part[l] = pat[i + l - 1]
    BY <1>1, <2>1, <2>3, <2>5
  <2>7. \A l \in 1 .. Len(text0) : i + l - 1 = i - 1 + l
    BY <2>3
  <2> HIDE DEF part, j
  <2>8. part = text0
    <3>1. \A l \in 1 .. Len(text0) : part[l] = text0[l]
      BY <2>4, <2>6, <2>7
    <3>2. text0 \in Seq(Chars)
      BY <2>1
    <3> QED BY <2>6, <3>1, <3>2
  <2> QED BY <1>2, <2>2, <2>8 DEF part, i, text0
<1> QED BY <1>2, <1>3 DEF IsTextOf

\* A part of a sequence.
LEMMA SubSeqs ==
  ASSUME NEW S, NEW s \in Seq(S), NEW a \in Nat, NEW b \in Nat, 1 <= a, a <= b, b <= Len(s) + 1
  PROVE  /\ SubSeq(s, a, b - 1) \in Seq(S) /\ Len(SubSeq(s, a, b - 1)) = b - a
         /\ \A j \in 1 .. b - a : SubSeq(s, a, b - 1)[j] = s[a + j - 1]
<1>1. Len(s) \in Nat
  OBVIOUS
<1>2. \A j \in a .. b - 1 : s[j] \in S
  BY <1>1
<1>3. SubSeq(s, a, b - 1) = [j \in 1 .. b - a |-> s[a + j - 1]]
  <2>1. (b - 1) - a + 1 = b - a
    OBVIOUS
  <2> QED BY <1>1, <2>1
<1>4. SubSeq(s, a, b - 1) \in Seq(S)
  BY <1>1
<1> QED BY <1>3, <1>4

\* A part of the atoms spells its part of the pattern.
LEMMA SpelledPart ==
  ASSUME NEW pat \in Seq(Chars), NEW piece \in Seq(Atoms), NEW st, Spelled(pat, piece, st),
         NEW f \in 1 .. Len(piece) + 1, NEW g \in f .. Len(piece) + 1
  PROVE  /\ SubSeq(pat, st[f], st[g] - 1) \in Seq(Chars) /\ SubSeq(piece, f, g - 1) \in Seq(Atoms)
         /\ Spelled(SubSeq(pat, st[f], st[g] - 1), SubSeq(piece, f, g - 1),
                    [k \in 1 .. g - f + 1 |-> st[f + k - 1] - st[f] + 1])
<1> DEFINE p == SubSeq(pat, st[f], st[g] - 1)
           q == SubSeq(piece, f, g - 1)
           at == [k \in 1 .. g - f + 1 |-> st[f + k - 1] - st[f] + 1]
<1>1. Len(piece) \in Nat /\ Len(pat) \in Nat /\ f \in Nat /\ g \in Nat /\ 1 <= f /\ f <= g /\ g <= Len(piece) + 1
  OBVIOUS
<1>0. \A k, l \in 1 .. Len(piece) + 1 : k <= l =>
        st[k] \in Nat /\ st[l] \in Nat /\ 1 <= st[k] /\ st[k] <= st[l] /\ st[l] <= Len(pat) + 1
  BY Spells
<1>2. /\ st[f] \in Nat /\ st[g] \in Nat /\ 1 <= st[f] /\ st[f] <= st[g] /\ st[g] <= Len(pat) + 1
  <2>1. f \in 1 .. Len(piece) + 1 /\ g \in 1 .. Len(piece) + 1
    BY <1>1
  <2> QED BY <1>0, <1>1, <2>1
<1>3. /\ p \in Seq(Chars) /\ Len(p) = st[g] - st[f]
      /\ \A j \in 1 .. st[g] - st[f] : p[j] = pat[st[f] + j - 1]
  <2> DEFINE x == st[f]
             z == st[g]
  <2>1. x \in Nat /\ z \in Nat /\ 1 <= x /\ x <= z /\ z <= Len(pat) + 1
    BY <1>2
  <2> HIDE DEF x, z
  <2>2. /\ SubSeq(pat, x, z - 1) \in Seq(Chars) /\ Len(SubSeq(pat, x, z - 1)) = z - x
        /\ \A j \in 1 .. z - x : SubSeq(pat, x, z - 1)[j] = pat[x + j - 1]
    BY <2>1, SubSeqs
  <2> QED BY <2>2 DEF x, z
<1>4. /\ q \in Seq(Atoms) /\ Len(q) = g - f
      /\ \A k \in 1 .. g - f : q[k] = piece[f + k - 1]
  BY <1>1, SubSeqs
<1> HIDE DEF p, q
<1>5. ASSUME NEW k \in 1 .. g - f + 1
      PROVE  at[k] \in 1 .. Len(p) + 1
  <2> DEFINE l == f + k - 1
             x == st[f]
             y == st[l]
             z == st[g]
  <2>1. l \in 1 .. Len(piece) + 1 /\ f <= l /\ l <= g /\ g \in 1 .. Len(piece) + 1
    BY <1>1
  <2> HIDE DEF l
  <2>2. x \in Nat /\ y \in Nat /\ z \in Nat /\ x <= y /\ y <= z /\ Len(p) = z - x
    BY <1>0, <1>2, <1>3, <2>1
  <2>3. at[k] = y - x + 1
    BY DEF l
  <2> HIDE DEF x, y, z, at
  <2> QED BY <2>2, <2>3
<1>6. at[1] = 1 /\ at[Len(q) + 1] = Len(p) + 1
  <2>1. 1 \in 1 .. g - f + 1 /\ f + 1 - 1 = f /\ Len(q) + 1 \in 1 .. g - f + 1 /\ f + (Len(q) + 1) - 1 = g
    BY <1>1, <1>4
  <2>2. at[1] = st[f + 1 - 1] - st[f] + 1 /\ at[Len(q) + 1] = st[f + (Len(q) + 1) - 1] - st[f] + 1
    BY <2>1
  <2> QED BY <1>2, <1>3, <2>1, <2>2
<1>7. ASSUME NEW k \in 1 .. Len(q)
      PROVE  at[k + 1] = at[k] + Len(q[k].text) /\ Stands(p, at[k], q[k].text)
  <2> DEFINE m == f + k - 1
             t == piece[m].text
  <2>1. m \in 1 .. Len(piece) /\ m \in 1 .. Len(piece) + 1 /\ m + 1 \in 1 .. Len(piece) + 1 /\ f <= m /\ m + 1 <= g
    BY <1>1, <1>4
  <2>2. q[k] = piece[m]
    BY <1>1, <1>4
  <2>3. t \in Seq(Chars) /\ Stands(pat, st[m], t) /\ st[m + 1] = st[m] + Len(t)
    BY <2>1, Spells
  <2>4. at[k] = st[m] - st[f] + 1 /\ at[k + 1] = st[m + 1] - st[f] + 1
    <3>1. k \in 1 .. g - f + 1 /\ k + 1 \in 1 .. g - f + 1 /\ f + (k + 1) - 1 = m + 1
      BY <1>1, <1>4
    <3> QED BY <3>1
  <2> DEFINE x == st[f]
             y == st[m]
             z == st[g]
  <2> HIDE DEF at, m, t
  <2>5. x \in Nat /\ y \in Nat /\ z \in Nat /\ 1 <= x /\ x <= y /\ st[m + 1] <= z /\ z <= Len(pat) + 1
    <3>1. st[f] <= st[m] /\ st[m] \in Nat
      BY <1>0, <2>1
    <3>2. st[m + 1] <= st[g]
      BY <1>0, <2>1
    <3> QED BY <1>2, <3>1, <3>2
  <2>6. Len(t) \in Nat /\ (\A j \in 1 .. Len(t) : pat[y - 1 + j] = t[j]) /\ DOMAIN t = 1 .. Len(t)
    BY <2>3 DEF Stands
  <2>7. y + Len(t) <= z /\ at[k] = y - x + 1 /\ at[k + 1] = y + Len(t) - x + 1 /\ Len(p) = z - x
    BY <1>3, <2>3, <2>4, <2>5
  <2>8. \A j \in 1 .. z - x : p[j] = pat[x + j - 1]
    BY <1>3
  <2> HIDE DEF x, y, z
  <2> DEFINE c == at[k]
             d == Len(t)
             e == Len(p)
             next == at[k + 1]
  <2>a. d \in Nat /\ c = y - x + 1 /\ next = y + d - x + 1 /\ e = z - x
    BY <2>6, <2>7
  <2>b. x \in Nat /\ y \in Nat /\ z \in Nat /\ x <= y /\ y + d <= z
    BY <2>5, <2>7
  <2> HIDE DEF c, d, e, next
  <2>c. c \in Nat /\ 1 <= c /\ c + d <= e + 1 /\ next = c + d /\ e \in Nat
    BY <2>a, <2>b
  <2>d. c \in 1 .. e + 1
    BY <2>a, <2>b, <2>c
  <2>9. c \in 1 .. Len(p) + 1 /\ c + Len(t) <= Len(p) + 1 /\ at[k + 1] = c + Len(t)
    BY <2>c, <2>d DEF d, e, next
  <2>10. ASSUME NEW j \in 1 .. Len(t) PROVE p[c - 1 + j] = t[j]
    <3>1. c - 1 + j \in 1 .. z - x /\ x + (c - 1 + j) - 1 = y - 1 + j
      BY <2>a, <2>b DEF d
    <3> QED BY <2>6, <2>8, <3>1
  <2>11. Stands(p, c, t)
    BY <2>6, <2>9, <2>10 DEF Stands
  <2> QED BY <2>2, <2>9, <2>11 DEF c, t
<1>8. at \in [1 .. Len(q) + 1 -> 1 .. Len(p) + 1]
  BY <1>1, <1>4, <1>5
<1> HIDE DEF at
<1>9. Spelled(p, q, at)
  BY <1>6, <1>7, <1>8 DEF Spelled
<1> QED BY <1>3, <1>4, <1>9 DEF p, q, at

-----------------------------------------------------------------------------
(* The components of the pattern are those between the slashes.             *)

AtomCount == Len(atoms)

\* The components from an atom on, as if the pattern began there.
PiecesFrom(f) ==
  {w \in (f .. AtomCount) \X (f .. AtomCount) :
     /\ w[1] <= w[2] /\ \A k \in w[1] .. w[2] : atoms[k] # Slash
     /\ w[1] > f => atoms[w[1] - 1] = Slash
     /\ w[2] < AtomCount => atoms[w[2] + 1] = Slash}

\* From f up to g there is no slash, and at g there is one or the end.
RunTo(f, g) ==
  (\A k \in f .. g - 1 : atoms[k] # Slash) /\ (g = AtomCount + 1 \/ atoms[g] = Slash)

LEMMA Runs ==
  ASSUME atoms \in Seq(Atoms), NEW f \in 1 .. AtomCount + 1
  PROVE  \E g \in f .. AtomCount + 1 : RunTo(f, g)
<1> DEFINE S == {g \in f .. AtomCount + 1 : g = AtomCount + 1 \/ atoms[g] = Slash}
<1>1. AtomCount \in Nat /\ f \in Nat /\ 1 <= f /\ f <= AtomCount + 1
  BY DEF AtomCount
<1>2. S \in SUBSET Nat /\ AtomCount + 1 \in S
  BY <1>1
<1>3. PICK g \in S : \A k \in S : g <= k
  <2> HIDE DEF S
  <2> QED BY <1>2, LeastNat
<1>4. ASSUME NEW k \in f .. g - 1
      PROVE  atoms[k] # Slash
  <2>1. k \in f .. AtomCount + 1 /\ ~(g <= k)
    BY <1>1, <1>3
  <2> QED BY <1>3, <2>1
<1> QED BY <1>3, <1>4 DEF RunTo

LEMMA PiecesNext ==
  ASSUME atoms \in Seq(Atoms), NEW f \in 1 .. AtomCount + 1, NEW g \in f .. AtomCount + 1, RunTo(f, g)
  PROVE  PiecesFrom(f) = (IF f = g THEN {} ELSE {<<f, g - 1>>})
                         \cup (IF g = AtomCount + 1 THEN {} ELSE PiecesFrom(g + 1))
<1> DEFINE N0 == AtomCount
<1>1. N0 \in Nat /\ f \in Nat /\ g \in Nat /\ 1 <= f /\ f <= g /\ g <= N0 + 1
  BY DEF AtomCount
<1>2. (\A k \in Nat : f <= k /\ k < g => atoms[k] # Slash) /\ (g = N0 + 1 \/ atoms[g] = Slash)
  BY <1>1 DEF RunTo
<1> HIDE DEF N0
<1>3. ASSUME NEW a \in Nat, NEW b \in Nat
      PROVE  <<a, b>> \in PiecesFrom(f) <=> \/ f # g /\ a = f /\ b = g - 1
                                            \/ g # N0 + 1 /\ <<a, b>> \in PiecesFrom(g + 1)
  <2> DEFINE Is(l) == /\ l <= a /\ a <= b /\ b <= N0 /\ \A k \in Nat : a <= k /\ k <= b => atoms[k] # Slash
                      /\ a > l => atoms[a - 1] = Slash
                      /\ b < N0 => atoms[b + 1] = Slash
  <2>1. \A l \in Nat : <<a, b>> \in PiecesFrom(l) <=> Is(l)
    BY <1>1 DEF PiecesFrom, N0
  <2>2. ASSUME Is(f)
        PROVE  \/ f # g /\ a = f /\ b = g - 1
               \/ g # N0 + 1 /\ Is(g + 1)
    <3>1. CASE a = f
      <4>1. b < g
        BY <1>1, <1>2, <2>2, <3>1
      <4>2. ~(b < g - 1)
        <5>1. b < g - 1 => b < N0 /\ f <= b + 1 /\ b + 1 < g /\ b + 1 \in Nat
          BY <1>1, <2>2, <3>1
        <5> QED BY <1>2, <2>2, <5>1
      <4> QED BY <1>1, <2>2, <3>1, <4>1, <4>2
    <3>2. CASE a > f
      <4>1. atoms[a - 1] = Slash /\ a - 1 \in Nat /\ f <= a - 1
        BY <1>1, <2>2, <3>2
      <4>2. ~(a - 1 < g)
        BY <1>2, <4>1
      <4>3. g # N0 + 1 /\ g + 1 <= a
        BY <1>1, <2>2, <4>2
      <4> QED BY <2>2, <4>1, <4>3
    <3> QED BY <1>1, <2>2, <3>1, <3>2
  <2>3. ASSUME f # g, a = f, b = g - 1
        PROVE  Is(f)
    <3>1. \A k \in Nat : a <= k /\ k <= b => k < g
      BY <1>1, <2>3
    <3>2. b < N0 => b + 1 = g /\ g # N0 + 1
      BY <1>1, <2>3
    <3> QED BY <1>1, <1>2, <2>3, <3>1, <3>2
  <2>4. ASSUME g # N0 + 1, Is(g + 1)
        PROVE  Is(f)
    <3>1. a > g + 1 \/ a - 1 = g
      BY <1>1, <2>4
    <3>2. atoms[a - 1] = Slash
      BY <1>2, <2>4, <3>1
    <3> QED BY <1>1, <2>4, <3>2
  <2> HIDE DEF Is
  <2>5. f \in Nat /\ g + 1 \in Nat
    BY <1>1
  <2> QED BY <2>1, <2>2, <2>3, <2>4, <2>5
<1>4. \A l \in Nat : PiecesFrom(l) \subseteq Nat \X Nat
  BY <1>1 DEF PiecesFrom, N0
<1>5. f \in Nat /\ g + 1 \in Nat /\ g - 1 \in Nat /\ f # g => <<f, g - 1>> \in Nat \X Nat
  BY <1>1
<1> DEFINE here  == IF f = g THEN {} ELSE {<<f, g - 1>>}
           there == IF g = N0 + 1 THEN {} ELSE PiecesFrom(g + 1)
<1>6. PiecesFrom(f) \subseteq Nat \X Nat /\ here \cup there \subseteq Nat \X Nat
  BY <1>1, <1>4
<1>7. \A a, b \in Nat : <<a, b>> \in PiecesFrom(f) <=> <<a, b>> \in here \cup there
  BY <1>3
<1> HIDE DEF here, there
<1>8. PiecesFrom(f) = here \cup there
  BY <1>6, <1>7
<1> QED BY <1>8 DEF here, there, N0

\* The atoms without a slash are written without one.
LEMMA NoSlash ==
  ASSUME pattern \in Seq(Chars), atoms \in Seq(Atoms), NEW st, Spelled(pattern, atoms, st), ~SlashWithin,
         NEW f \in 1 .. AtomCount + 1, NEW g \in f .. AtomCount + 1, \A k \in f .. g - 1 : atoms[k] # Slash
  PROVE  \A i \in st[f] .. st[g] - 1 : pattern[i] # "/"
<1> DEFINE R(k) == k >= f => \A i \in Nat : st[k] <= i /\ i < st[g] => pattern[i] # "/"
           T == {k \in 1 .. g : R(k)}
<1>1. AtomCount \in Nat /\ f \in Nat /\ g \in Nat /\ 1 <= f /\ f <= g /\ g <= AtomCount + 1
  BY DEF AtomCount
<1>2. ASSUME NEW k \in 1 .. g, \A l \in k + 1 .. g : l \in T
      PROVE  k \in T
  <2>1. SUFFICES ASSUME k >= f, NEW i \in Nat, st[k] <= i, i < st[g]
                 PROVE  pattern[i] # "/"
    OBVIOUS
  <2>2. CASE k = g
    <3>1. st[g] \in Nat
      BY <1>1, Spells DEF AtomCount
    <3> QED BY <2>1, <2>2, <3>1
  <2>3. CASE k # g
    <3> DEFINE t == atoms[k].text
    <3>1. k \in 1 .. AtomCount /\ k \in f .. g - 1 /\ k + 1 \in k + 1 .. g /\ k + 1 >= f
      BY <1>1, <2>1, <2>3
    <3>2. /\ t \in Seq(Chars) /\ Stands(pattern, st[k], t) /\ st[k] \in Nat /\ st[k + 1] = st[k] + Len(t)
      BY <3>1, Spells DEF AtomCount
    <3>3. \A j \in DOMAIN t : t[j] # "/"
      BY <3>1 DEF SlashWithin, AtomCount
    <3>4. R(k + 1)
      <4> HIDE DEF R
      <4> QED BY <1>2, <3>1
    <3> HIDE DEF t
    <3>5. Len(t) \in Nat /\ DOMAIN t = 1 .. Len(t)
      BY <3>2
    <3>6. CASE i < st[k + 1]
      <4> DEFINE x == st[k]
      <4>1. x \in Nat /\ x <= i /\ i < x + Len(t)
        BY <2>1, <3>2, <3>5, <3>6
      <4> HIDE DEF x
      <4>2. i - x + 1 \in 1 .. Len(t) /\ x - 1 + (i - x + 1) = i
        BY <3>5, <4>1
      <4>3. i - st[k] + 1 \in DOMAIN t /\ st[k] - 1 + (i - st[k] + 1) = i
        BY <3>5, <4>2 DEF x
      <4> QED BY <3>2, <3>3, <4>3 DEF Stands
    <3>7. CASE ~(i < st[k + 1])
      <4>1. st[k + 1] <= i
        BY <3>2, <3>5, <3>7
      <4> QED BY <2>1, <3>1, <3>4, <4>1
    <3> QED BY <3>6, <3>7
  <2> QED BY <2>2, <2>3
<1>3. \A k \in 1 .. g : k \in T
  <2> HIDE DEF T
  <2> QED BY <1>1, <1>2, DownInduction
<1>4. R(f)
  <2> HIDE DEF R
  <2>1. f \in 1 .. g
    BY <1>1
  <2> QED BY <1>3, <2>1
<1>5. st[f] \in Nat /\ st[g] \in Nat
  BY <1>1, Spells DEF AtomCount
<1> QED BY <1>1, <1>4, <1>5

\* What the slashes cut off is what stands between them.
LEMMA CutAt ==
  ASSUME pattern \in Seq(Chars), atoms \in Seq(Atoms), NEW st, Spelled(pattern, atoms, st), ~SlashWithin,
         NEW f \in 1 .. AtomCount + 1, NEW g \in f .. AtomCount + 1, RunTo(f, g)
  PROVE  Cut(pattern, st[f]) = st[g]
<1> DEFINE i == st[f]
           j == st[g]
           end == Len(pattern) + 1
           S == {n \in i .. end : n > Len(pattern) \/ pattern[n] = "/"}
<1>1. end \in Nat /\ Len(pattern) \in Nat /\ AtomCount \in Nat /\ g \in 1 .. AtomCount + 1 /\ f <= g
  BY DEF AtomCount
<1>2. i \in Nat /\ j \in Nat /\ 1 <= i /\ i <= j /\ j <= end
  BY <1>1, Spells DEF AtomCount
<1>3. \A n \in i .. j - 1 : pattern[n] # "/"
  <2>1. \A k \in f .. g - 1 : atoms[k] # Slash
    BY DEF RunTo
  <2> QED BY <2>1, NoSlash
<1>4. j > Len(pattern) \/ pattern[j] = "/"
  <2>1. CASE g = AtomCount + 1
    <3>1. j = Len(pattern) + 1
      BY <2>1 DEF Spelled, AtomCount
    <3> QED BY <1>1, <3>1
  <2>2. CASE g # AtomCount + 1
    <3>1. g \in 1 .. AtomCount /\ atoms[g] = Slash
      BY <1>1, <2>2 DEF RunTo
    <3>2. IsAtom(atoms[g]) /\ atoms[g].text \in Seq(Chars) /\ Stands(pattern, j, atoms[g].text)
      BY <3>1, Spells DEF AtomCount
    <3>3. Len(atoms[g].text) = 1 /\ atoms[g].text[1] = "/"
      BY <3>1, <3>2, AtomWritten
    <3>4. pattern[j - 1 + 1] = "/"
      BY <3>2, <3>3 DEF Stands
    <3>5. j - 1 + 1 = j
      BY <1>2
    <3> QED BY <3>4, <3>5
  <2> QED BY <2>1, <2>2
<1>5. Cut(pattern, i) = Min(S)
  BY DEF Cut
<1> HIDE DEF i, j, end
<1>6. S \in SUBSET (0 .. end) /\ j \in S
  BY <1>1, <1>2, <1>4
<1>7. Min(S) \in S /\ Min(S) <= j
  BY <1>1, <1>6, Extremes
<1>8. \A n \in S : ~(n < j)
  <2>1. \A n \in S : n \in Nat /\ i <= n /\ (n > Len(pattern) \/ pattern[n] = "/")
    BY <1>1, <1>2
  <2>2. \A n \in Nat : i <= n /\ n < j => n <= Len(pattern)
    BY <1>1, <1>2 DEF end
  <2>3. \A n \in Nat : i <= n /\ n < j => pattern[n] # "/"
    BY <1>2, <1>3
  <2>4. \A n \in Nat : n <= Len(pattern) => ~(n > Len(pattern))
    BY <1>1
  <2> QED BY <2>1, <2>2, <2>3, <2>4
<1>9. Min(S) \in Nat
  BY <1>1, <1>6, <1>7
<1>10. Min(S) = j
  BY <1>2, <1>7, <1>8, <1>9
<1> QED BY <1>5, <1>10 DEF i, j

\* A component of the pattern is the text of its atoms.
LEMMA ComponentRead ==
  ASSUME pattern \in Seq(Chars), atoms \in Seq(Atoms), NEW st, Spelled(pattern, atoms, st), ~SlashWithin,
         NEW f \in 1 .. AtomCount + 1, NEW g \in f .. AtomCount + 1, RunTo(f, g)
  PROVE  /\ f = g => Component(pattern, st[f]) = <<>>
         /\ f # g => \E t \in Seq(Chars) : Component(pattern, st[f]) = <<t>> /\ IsTextOf(t, SubSeq(atoms, f, g - 1))
<1>1. Cut(pattern, st[f]) = st[g]
  BY CutAt
<1>2. AtomCount \in Nat /\ g \in 1 .. AtomCount + 1 /\ f <= g /\ AtomCount = Len(atoms)
  BY DEF AtomCount
<1>3. CASE f = g
  BY <1>1, <1>3 DEF Component
<1>4. CASE f # g
  <2>1. f < g
    BY <1>2, <1>4
  <2>2. st[f] < st[g] /\ st[f] \in Nat /\ st[g] \in Nat
    BY <1>2, <2>1, Spells
  <2>3. st[f] # st[g]
    BY <2>2
  <2> DEFINE t == SubSeq(pattern, st[f], st[g] - 1)
  <2>4. Component(pattern, st[f]) = <<t>>
    BY <1>1, <2>3 DEF Component
  <2>5. t \in Seq(Chars) /\ IsTextOf(t, SubSeq(atoms, f, g - 1))
    <3>1. f \in 1 .. Len(atoms) + 1 /\ g \in f .. Len(atoms) + 1
      BY <1>2
    <3> DEFINE part == SubSeq(atoms, f, g - 1)
               begin == [k \in 1 .. g - f + 1 |-> st[f + k - 1] - st[f] + 1]
    <3>2. t \in Seq(Chars) /\ part \in Seq(Atoms) /\ Spelled(t, part, begin)
      BY <3>1, SpelledPart
    <3> HIDE DEF t, part, begin
    <3>3. IsTextOf(t, part)
      BY <3>2, SpelledText
    <3> QED BY <3>2, <3>3 DEF part
  <2> QED BY <1>4, <2>4, <2>5
<1> QED BY <1>3, <1>4

LEMMA NoTexts == AreTextsOf(<<>>, {})
<1> DEFINE of == [k \in {} |-> 0]
<1>1. DOMAIN <<>> = {} /\ of \in [{} -> {}] /\ {of[k] : k \in {}} = {}
  OBVIOUS
<1> QED BY <1>1 DEF AreTextsOf

\* A component in front of others.
LEMMA TextsAhead ==
  ASSUME NEW comps \in Seq(Seq(Chars)), NEW rest, AreTextsOf(comps, rest),
         NEW t \in Seq(Chars), NEW a \in Nat, NEW b \in Nat, IsTextOf(t, SubSeq(atoms, a, b)),
         \A w \in rest : w[1] \in Nat /\ b < w[1]
  PROVE  AreTextsOf(<<t>> \o comps, {<<a, b>>} \cup rest)
<1> DEFINE all == <<t>> \o comps
           pieces == {<<a, b>>} \cup rest
           n == Len(comps)
           here == <<a, b>>
<1>1. /\ n \in Nat /\ DOMAIN comps = 1 .. n /\ DOMAIN all = 1 .. n + 1
      /\ all[1] = t /\ \A j \in 1 .. n : all[j + 1] = comps[j]
  <2>1. /\ Len(all) = 1 + Len(comps) /\ all \in Seq(Seq(Chars))
        /\ all[1] = t /\ \A j \in 1 .. Len(comps) : all[j + 1] = comps[j]
    BY Ahead
  <2> HIDE DEF all
  <2> QED BY <2>1
<1>2. PICK of \in [1 .. n -> rest] :
        /\ rest = {of[k] : k \in 1 .. n}
        /\ \A k \in 1 .. n : /\ IsTextOf(comps[k], SubSeq(atoms, of[k][1], of[k][2]))
                             /\ k > 1 => of[k - 1][2] < of[k][1]
  BY <1>1 DEF AreTextsOf
<1> DEFINE new == [k \in 1 .. n + 1 |-> IF k = 1 THEN here ELSE of[k - 1]]
<1> HIDE DEF all, n, here
<1>3. new[1] = here /\ \A k \in 1 .. n : new[k + 1] = of[k]
  <2>1. 1 \in 1 .. n + 1
    BY <1>1
  <2>2. ASSUME NEW k \in 1 .. n PROVE new[k + 1] = of[k]
    <3>1. k + 1 \in 1 .. n + 1 /\ k + 1 # 1 /\ k + 1 - 1 = k
      BY <1>1
    <3> QED BY <3>1
  <2> QED BY <2>1, <2>2
<1>4. new \in [1 .. n + 1 -> pieces]
  <2>1. ASSUME NEW k \in 1 .. n + 1 PROVE (IF k = 1 THEN here ELSE of[k - 1]) \in pieces
    <3>1. k # 1 => k - 1 \in 1 .. n
      BY <1>1
    <3> QED BY <1>2, <3>1 DEF here
  <2> QED BY <2>1
<1> HIDE DEF new
<1>5. \A k \in 1 .. n + 1 : k = 1 \/ \E j \in 1 .. n : k = j + 1
  <2>1. SUFFICES ASSUME NEW k \in 1 .. n + 1, k # 1 PROVE \E j \in 1 .. n : k = j + 1
    OBVIOUS
  <2>2. k - 1 \in 1 .. n /\ k = (k - 1) + 1
    BY <1>1, <2>1
  <2> QED BY <2>2
<1>6. pieces = {new[k] : k \in 1 .. n + 1}
  <2>1. ASSUME NEW w \in rest PROVE \E k \in 1 .. n + 1 : w = new[k]
    <3>1. PICK j \in 1 .. n : w = of[j]
      BY <1>2
    <3>2. j + 1 \in 1 .. n + 1 /\ w = new[j + 1]
      BY <1>1, <1>3, <3>1
    <3> QED BY <3>2
  <2>2. 1 \in 1 .. n + 1
    BY <1>1
  <2>3. \A w \in pieces : w \in {new[k] : k \in 1 .. n + 1}
    BY <1>3, <2>1, <2>2 DEF here
  <2>4. \A k \in 1 .. n + 1 : new[k] \in pieces
    BY <1>4
  <2> QED BY <2>3, <2>4
<1>7. ASSUME NEW k \in 1 .. n + 1
      PROVE  /\ IsTextOf(all[k], SubSeq(atoms, new[k][1], new[k][2]))
             /\ k > 1 => new[k - 1][2] < new[k][1]
  <2>1. CASE k = 1
    <3>1. new[k] = here /\ here[1] = a /\ here[2] = b /\ all[k] = t
      BY <1>1, <1>3, <2>1 DEF here
    <3> QED BY <2>1, <3>1
  <2>2. ASSUME NEW j \in 1 .. n, k = j + 1
        PROVE  /\ IsTextOf(all[k], SubSeq(atoms, new[k][1], new[k][2]))
               /\ k > 1 => new[k - 1][2] < new[k][1]
    <3>1. new[k] = of[j] /\ all[k] = comps[j] /\ k - 1 = j
      BY <1>1, <1>3, <2>2
    <3>2. IsTextOf(all[k], SubSeq(atoms, new[k][1], new[k][2]))
      BY <1>2, <3>1
    <3>3. CASE j = 1
      <4>1. new[j] = here /\ here[2] = b /\ of[j] \in rest
        BY <1>2, <1>3, <3>3 DEF here
      <4> QED BY <3>1, <3>2, <4>1
    <3>4. CASE j # 1
      <4>0. n \in Nat
        BY <1>1
      <4>1. j - 1 \in 1 .. n /\ (j - 1) + 1 = j /\ j > 1
        BY <3>4, <4>0
      <4>2. new[j] = of[j - 1]
        BY <1>3, <4>1
      <4> QED BY <1>2, <3>1, <3>2, <4>1, <4>2
    <3> QED BY <3>3, <3>4
  <2> QED BY <1>5, <2>1, <2>2
<1>8. AreTextsOf(all, pieces)
  <2>1. DOMAIN all = 1 .. n + 1
    BY <1>1
  <2> HIDE DEF pieces
  <2> QED BY <1>4, <1>6, <1>7, <2>1 DEF AreTextsOf
<1> QED BY <1>8 DEF all, here

\* The components from an atom on are those of the rest of the pattern.
LEMMA ComponentsFrom ==
  ASSUME pattern \in Seq(Chars), atoms \in Seq(Atoms), NEW st, Spelled(pattern, atoms, st), ~SlashWithin
  PROVE  \A f \in 1 .. AtomCount + 1 : AreTextsOf(Split(pattern)[st[f]], PiecesFrom(f))
<1> DEFINE T == {f \in 1 .. AtomCount + 1 : AreTextsOf(Split(pattern)[st[f]], PiecesFrom(f))}
<1>1. AtomCount \in Nat /\ AtomCount = Len(atoms) /\ Len(pattern) \in Nat
  BY DEF AtomCount
<1>2. \A k \in 1 .. AtomCount + 1 : st[k] \in Positions(pattern)
  BY <1>1, Spells DEF Positions
<1>3. ASSUME NEW f \in 1 .. AtomCount + 1, \A l \in f + 1 .. AtomCount + 1 : l \in T
      PROVE  f \in T
  <2>1. PICK g \in f .. AtomCount + 1 : RunTo(f, g)
    BY Runs
  <2> DEFINE from == Split(pattern)
             comp == Component(pattern, st[f])
             last == g = AtomCount + 1
             rest == IF last THEN <<>> ELSE from[st[g + 1]]
             after == IF last THEN {} ELSE PiecesFrom(g + 1)
  <2>2. Cut(pattern, st[f]) = st[g]
    BY <2>1, CutAt
  <2>3. g \in 1 .. AtomCount + 1 /\ f <= g /\ f \in Nat /\ g \in Nat /\ 1 <= f /\ g <= AtomCount + 1
    BY <1>1
  <2>4. last => st[g] > Len(pattern)
    BY <1>1 DEF Spelled
  <2>5. ASSUME ~last
        PROVE  ~(st[g] > Len(pattern)) /\ st[g] + 1 = st[g + 1] /\ g + 1 \in f + 1 .. AtomCount + 1 /\ g + 1 \in 1 .. AtomCount + 1
    <3>1. g \in 1 .. AtomCount /\ atoms[g] = Slash
      BY <1>1, <2>1, <2>3, <2>5 DEF RunTo
    <3>2. /\ IsAtom(atoms[g]) /\ atoms[g].text \in Seq(Chars) /\ st[g] \in 1 .. Len(pattern)
          /\ st[g + 1] = st[g] + Len(atoms[g].text)
      BY <1>1, <3>1, Spells
    <3>3. Len(atoms[g].text) = 1
      BY <3>1, <3>2, AtomWritten
    <3>4. g + 1 \in f + 1 .. AtomCount + 1 /\ g + 1 \in 1 .. AtomCount + 1
      BY <1>1, <2>3, <3>1
    <3>5. ~(st[g] > Len(pattern))
      BY <1>1, <3>2
    <3> QED BY <3>2, <3>3, <3>4, <3>5
  <2>6. from[st[f]] = comp \o rest /\ comp \in Seq(Seq(Chars)) /\ rest \in Seq(Seq(Chars))
    <3>1. from[st[f]] = SplitStep(pattern, from, st[f]) /\ comp \in Seq(Seq(Chars))
      BY <1>2, SplitDef, ComponentTypes
    <3>2. CASE last
      <4>1. from[st[f]] = comp
        BY <2>2, <2>4, <3>1, <3>2 DEF SplitStep
      <4> HIDE DEF comp
      <4>2. comp = comp \o <<>>
        BY <3>1
      <4>3. rest = <<>> /\ <<>> \in Seq(Seq(Chars))
        BY <3>2
      <4> QED BY <3>1, <4>1, <4>2, <4>3
    <3>3. CASE ~last
      <4>1. from[st[f]] = comp \o from[st[g + 1]]
        BY <2>2, <2>5, <3>1, <3>3 DEF SplitStep
      <4>2. from[st[g + 1]] \in Seq(Seq(Chars))
        BY <1>2, <2>5, <3>3, SplitDef
      <4> QED BY <3>1, <3>3, <4>1, <4>2
    <3> QED BY <3>2, <3>3
  <2>7. AreTextsOf(rest, after)
    <3>1. CASE last
      BY <3>1, NoTexts
    <3>2. CASE ~last
      BY <1>3, <2>5, <3>2
    <3> QED BY <3>1, <3>2
  <2>8. \A w \in after : w[1] \in Nat /\ g - 1 < w[1]
    <3>1. \A w \in PiecesFrom(g + 1) : w[1] \in g + 1 .. AtomCount
      BY DEF PiecesFrom
    <3>2. \A k \in g + 1 .. AtomCount : k \in Nat /\ g - 1 < k
      BY <1>1, <2>3
    <3> QED BY <3>1, <3>2
  <2>9. PiecesFrom(f) = (IF f = g THEN {} ELSE {<<f, g - 1>>}) \cup after
    BY <2>1, PiecesNext
  <2>10. AreTextsOf(comp \o rest, PiecesFrom(f))
    <3>1. CASE f = g
      <4>1. comp = <<>>
        BY <1>1, <2>1, <3>1, ComponentRead
      <4> HIDE DEF comp, rest, after
      <4>2. comp \o rest = rest
        BY <2>6, <4>1
      <4>3. PiecesFrom(f) = after
        BY <2>9, <3>1
      <4> QED BY <2>7, <4>2, <4>3
    <3>2. CASE f # g
      <4>1. PICK t \in Seq(Chars) : comp = <<t>> /\ IsTextOf(t, SubSeq(atoms, f, g - 1))
        BY <1>1, <2>1, <3>2, ComponentRead
      <4>2. g - 1 \in Nat
        BY <2>3
      <4> HIDE DEF comp, rest, after
      <4>3. AreTextsOf(<<t>> \o rest, {<<f, g - 1>>} \cup after)
        BY <2>3, <2>6, <2>7, <2>8, <4>1, <4>2, TextsAhead
      <4>4. PiecesFrom(f) = {<<f, g - 1>>} \cup after
        BY <2>9, <3>2
      <4> QED BY <4>1, <4>3, <4>4
    <3> QED BY <3>1, <3>2
  <2>11. AreTextsOf(from[st[f]], PiecesFrom(f))
    <3> HIDE DEF comp, rest
    <3> QED BY <2>6, <2>10
  <2> QED BY <2>11
<1>4. \A f \in 1 .. AtomCount + 1 : f \in T
  <2>1. AtomCount + 1 \in Nat
    BY <1>1
  <2> HIDE DEF T
  <2> QED BY <1>3, <2>1, DownInduction
<1> QED BY <1>4

\* The components of the whole pattern.
LEMMA ComponentsRead ==
  ASSUME pattern \in Seq(Chars), atoms \in Seq(Atoms), NEW st, Spelled(pattern, atoms, st), ~SlashWithin
  PROVE  AreTextsOf(SplitComponents(pattern), Components)
<1>1. AtomCount \in Nat /\ 1 \in 1 .. AtomCount + 1 /\ DOMAIN atoms = 1 .. AtomCount
  BY DEF AtomCount
<1>2. st[1] = 1 /\ AreTextsOf(Split(pattern)[st[1]], PiecesFrom(1))
  BY <1>1, ComponentsFrom DEF Spelled
<1>3. SplitComponents(pattern) = Split(pattern)[1]
  BY SplitDef
<1>4. PiecesFrom(1) = Components
  BY <1>1 DEF PiecesFrom, Components, AtomCount
<1> QED BY <1>2, <1>3, <1>4

-----------------------------------------------------------------------------
(* The invariants.                                                          *)

LEMMA TypedNext == ASSUME MatchingTypeOK, [MatchingNext]_matchingVars PROVE MatchingTypeOK'
<1>1. ASSUME NEW a \in Atoms, AddAtom(a) PROVE MatchingTypeOK'
  BY <1>1, AtomsAssumption DEF AddAtom, MatchingTypeOK
<1>2. ASSUME NEW s \in Texts, Match(s) PROVE MatchingTypeOK'
  BY <1>2 DEF Match, MatchingTypeOK
<1>3. CASE UNCHANGED matchingVars
  BY <1>3 DEF matchingVars, MatchingTypeOK
<1> QED BY <1>1, <1>2, <1>3 DEF MatchingNext

(* A pattern is a text, whatever it is put together from (the &str that     *)
(* fnmatch and glob are given).                                             *)
THEOREM Typed == MatchingSpec => []MatchingTypeOK
<1>1. MatchingInit => MatchingTypeOK
  BY DEF MatchingInit, MatchingTypeOK
<1>2. MatchingTypeOK /\ [MatchingNext]_matchingVars => MatchingTypeOK'
  BY TypedNext
<1> QED BY <1>1, <1>2, PTL DEF MatchingSpec

(* The inductive invariant.  How the pattern was put together cannot be     *)
(* seen in it, so that it is read as its atoms is not inductive: what is    *)
(* kept is where each of them stands.                                       *)
WrittenInv == MatchingTypeOK /\ \E st : Spelled(pattern, atoms, st)

\* What stands in a pattern stands in a longer one.
LEMMA StandsLonger ==
  ASSUME NEW pat \in Seq(Chars), NEW more \in Seq(Chars), NEW i, NEW t \in Seq(Chars), Stands(pat, i, t)
  PROVE  Stands(pat \o more, i, t)
<1>1. Len(pat) \in Nat /\ Len(more) \in Nat /\ Len(t) \in Nat /\ Len(pat \o more) = Len(pat) + Len(more)
      /\ \A k \in 1 .. Len(pat) : (pat \o more)[k] = pat[k]
  OBVIOUS
<1>2. i \in 1 .. Len(pat) + 1 /\ i + Len(t) <= Len(pat) + 1 /\ i \in Nat /\ 1 <= i
  BY <1>1 DEF Stands
<1> DEFINE n == Len(pat)
           all == pat \o more
<1>3. DOMAIN t = 1 .. Len(t)
  OBVIOUS
<1>4. ASSUME NEW j \in 1 .. Len(t) PROVE all[i - 1 + j] = t[j]
  <2>1. i - 1 + j \in 1 .. n
    BY <1>1, <1>2
  <2> QED BY <1>1, <1>3, <2>1 DEF Stands
<1>5. i \in 1 .. Len(all) + 1 /\ i + Len(t) <= Len(all) + 1
  BY <1>1, <1>2
<1> HIDE DEF all
<1>6. Stands(all, i, t)
  BY <1>3, <1>4, <1>5 DEF Stands
<1> QED BY <1>6 DEF all

LEMMA WrittenNext ==
  ASSUME NEW pat \in Seq(Chars), NEW piece \in Seq(Atoms), NEW st, Spelled(pat, piece, st), NEW a \in Atoms
  PROVE  \E more : Spelled(pat \o a.text, Append(piece, a), more)
<1> DEFINE n == Len(piece)
           t == a.text
           all == pat \o t
           longer == Append(piece, a)
           more == [k \in 1 .. n + 2 |-> IF k = n + 2 THEN Len(all) + 1 ELSE st[k]]
<1>1. t \in Seq(Chars)
  BY AtomsAssumption
<1>2. n \in Nat /\ Len(longer) = n + 1 /\ longer[n + 1] = a /\ \A k \in 1 .. n : longer[k] = piece[k]
  OBVIOUS
<1>3. /\ Len(pat) \in Nat /\ Len(t) \in Nat /\ Len(all) = Len(pat) + Len(t) /\ DOMAIN t = 1 .. Len(t)
      /\ \A k \in 1 .. Len(t) : all[Len(pat) + k] = t[k]
  BY <1>1
<1>4. /\ st[1] = 1 /\ st[n + 1] = Len(pat) + 1
      /\ \A k \in 1 .. n + 1 : st[k] \in Nat /\ 1 <= st[k] /\ st[k] <= Len(pat) + 1
  BY Spells DEF Spelled
<1>5. /\ more[n + 2] = Len(all) + 1 /\ \A k \in 1 .. n + 1 : more[k] = st[k] /\ st[k] \in 1 .. Len(all) + 1
  <2>1. \A k \in 1 .. n + 1 : k \in 1 .. n + 2 /\ k # n + 2
    BY <1>2
  <2>2. n + 2 \in 1 .. n + 2 /\ Len(all) \in Nat
    BY <1>2, <1>3
  <2>3. \A k \in 1 .. n + 1 : st[k] \in 1 .. Len(all) + 1
    <3>1. Len(pat) <= Len(all) /\ Len(all) \in Nat
      BY <1>3
    <3> HIDE DEF all
    <3> QED BY <1>3, <1>4, <3>1
  <2> QED BY <2>1, <2>2, <2>3
<1>6. more \in [1 .. n + 2 -> 1 .. Len(all) + 1]
  <2>1. Len(all) + 1 \in 1 .. Len(all) + 1
    BY <1>3
  <2>2. \A k \in 1 .. n + 2 : k = n + 2 \/ k \in 1 .. n + 1
    BY <1>2
  <2> QED BY <1>5, <2>1, <2>2
<1> HIDE DEF more, longer
<1>7. ASSUME NEW k \in 1 .. n
      PROVE  more[k + 1] = more[k] + Len(longer[k].text) /\ Stands(all, more[k], longer[k].text)
  <2>1. k \in 1 .. n + 1 /\ k + 1 \in 1 .. n + 1
    BY <1>2
  <2>2. /\ piece[k].text \in Seq(Chars) /\ Stands(pat, st[k], piece[k].text)
        /\ st[k + 1] = st[k] + Len(piece[k].text)
    BY Spells
  <2>3. Stands(all, st[k], piece[k].text)
    BY <1>1, <2>2, StandsLonger
  <2>4. longer[k] = piece[k] /\ more[k] = st[k] /\ more[k + 1] = st[k + 1]
    BY <1>2, <1>5, <2>1
  <2> QED BY <2>2, <2>3, <2>4
<1>8. more[n + 2] = more[n + 1] + Len(longer[n + 1].text) /\ Stands(all, more[n + 1], longer[n + 1].text)
  <2> DEFINE e == Len(pat)
  <2>1. e \in Nat /\ Len(t) \in Nat /\ Len(all) = e + Len(t) /\ \A k \in 1 .. Len(t) : all[e + k] = t[k]
    BY <1>3
  <2>2. n + 1 \in 1 .. n + 1 /\ more[n + 1] = e + 1 /\ longer[n + 1].text = t
    BY <1>2, <1>4, <1>5
  <2>3. DOMAIN t = 1 .. Len(t)
    BY <1>3
  <2> HIDE DEF e, all, t
  <2>4. more[n + 2] = more[n + 1] + Len(t)
    BY <1>5, <2>1, <2>2
  <2> DEFINE b == e + 1
  <2>5. \A k \in 1 .. Len(t) : all[b - 1 + k] = t[k]
    <3>1. \A k \in 1 .. Len(t) : b - 1 + k = e + k
      BY <2>1
    <3> QED BY <2>1, <3>1
  <2>6. b \in 1 .. Len(all) + 1 /\ b + Len(t) <= Len(all) + 1
    BY <2>1
  <2> HIDE DEF b
  <2>7. Stands(all, b, t)
    BY <2>3, <2>5, <2>6 DEF Stands
  <2> QED BY <2>2, <2>4, <2>7 DEF b
<1>9. more[1] = 1 /\ Len(longer) + 1 = n + 2 /\ 1 .. Len(longer) = 1 .. n \cup {n + 1} /\ n + 1 + 1 = n + 2
  <2>1. 1 \in 1 .. n + 1
    BY <1>2
  <2>2. 1 .. n + 1 = 1 .. n \cup {n + 1}
    BY <1>2
  <2> QED BY <1>2, <1>4, <1>5, <2>1, <2>2
<1>10. more \in [1 .. Len(longer) + 1 -> 1 .. Len(all) + 1] /\ more[Len(longer) + 1] = Len(all) + 1
  BY <1>5, <1>6, <1>9
<1>11. ASSUME NEW k \in 1 .. Len(longer)
       PROVE  more[k + 1] = more[k] + Len(longer[k].text) /\ Stands(all, more[k], longer[k].text)
  <2>1. k \in 1 .. n \/ k = n + 1
    BY <1>9
  <2> QED BY <1>7, <1>8, <1>9, <2>1
<1>12. Spelled(all, longer, more)
  BY <1>9, <1>10, <1>11 DEF Spelled
<1> QED BY <1>12 DEF longer

LEMMA WrittenInit == ASSUME MatchingInit PROVE WrittenInv
<1>1. pattern = <<>> /\ atoms = <<>> /\ MatchingTypeOK
  BY DEF MatchingInit, MatchingTypeOK
<1> DEFINE st == [k \in 1 .. 1 |-> 1]
<1>2. Len(<<>>) = 0
  OBVIOUS
<1>3. Len(<<>>) + 1 = 1 /\ 1 .. Len(<<>>) = {}
  BY <1>2
<1>4. 1 \in 1 .. 1
  OBVIOUS
<1>5. st \in [1 .. 1 -> 1 .. 1] /\ st[1] = 1
  BY <1>4
<1> HIDE DEF st
<1>6. Spelled(<<>>, <<>>, st)
  BY <1>3, <1>5 DEF Spelled
<1> QED BY <1>1, <1>6 DEF WrittenInv

LEMMA WrittenInvNext == ASSUME WrittenInv, [MatchingNext]_matchingVars PROVE WrittenInv'
<1>1. MatchingTypeOK'
  BY TypedNext DEF WrittenInv
<1>2. PICK st : Spelled(pattern, atoms, st)
  BY DEF WrittenInv
<1>3. ASSUME pattern' = pattern, atoms' = atoms
      PROVE  Spelled(pattern, atoms, st)'
  BY <1>2, <1>3 DEF Spelled, Stands
<1>4. ASSUME NEW a \in Atoms, AddAtom(a)
      PROVE  \E more : Spelled(pattern', atoms', more)
  <2>1. pattern \in Seq(Chars) /\ atoms \in Seq(Atoms)
    BY DEF WrittenInv, MatchingTypeOK
  <2>2. pattern' = pattern \o a.text /\ atoms' = Append(atoms, a)
    BY <1>4 DEF AddAtom
  <2> QED BY <1>2, <2>1, <2>2, WrittenNext
<1>5. ASSUME NEW s \in Texts, Match(s)
      PROVE  WrittenInv'
  BY <1>1, <1>3, <1>5 DEF Match, WrittenInv
<1>6. CASE UNCHANGED matchingVars
  BY <1>1, <1>3, <1>6 DEF matchingVars, WrittenInv
<1> QED BY <1>1, <1>4, <1>5, <1>6 DEF MatchingNext, WrittenInv

LEMMA InvGivesRead == ASSUME WrittenInv PROVE PatternRead
<1>1. pattern \in Seq(Chars) /\ atoms \in Seq(Atoms)
  BY DEF WrittenInv, MatchingTypeOK
<1>2. PICK st : Spelled(pattern, atoms, st)
  BY DEF WrittenInv
<1>3. IsTextOf(pattern, atoms)
  BY <1>1, <1>2, SpelledText
<1>4. ASSUME NEW k \in DOMAIN atoms, atoms[k] # Star, NEW c \in Chars
      PROVE  Accepts(pattern, Elements(pattern)[k], c) = (c \in atoms[k].chars)
  <2>1. k \in 1 .. Len(atoms)
    BY <1>1
  <2>2. /\ IsAtom(atoms[k]) /\ atoms[k].text \in Seq(Chars) /\ Stands(pattern, st[k], atoms[k].text)
        /\ st[k] \in 1 .. Len(pattern)
    BY <1>1, <1>2, <2>1, Spells
  <2>3. Accepts(pattern, st[k], c) = (c \in atoms[k].chars)
    BY <1>1, <1>4, <2>2, AtomRead
  <2>4. Elements(pattern)[k] = st[k]
    BY <1>1, <1>2, <2>1, SpelledElements
  <2> QED BY <2>3, <2>4
<1>5. ~SlashWithin => AreTextsOf(SplitComponents(pattern), Components)
  BY <1>1, <1>2, ComponentsRead
<1> QED BY <1>3, <1>4, <1>5 DEF PatternRead

(* Whatever the pattern is written with, and however its brackets, dashes   *)
(* and escapes follow each other, it is read as what was written: each      *)
(* element as its atom, with its characters, and each component as what     *)
(* stands between the slashes (fnmatch_inner, bracket_match,                *)
(* split_components).                                                       *)
THEOREM PatternsAreRead == MatchingSpec => []PatternRead
<1>1. MatchingInit => WrittenInv
  BY WrittenInit
<1>2. WrittenInv /\ [MatchingNext]_matchingVars => WrittenInv'
  BY WrittenInvNext
<1>3. WrittenInv => PatternRead
  BY InvGivesRead
<1> QED BY <1>1, <1>2, <1>3, PTL DEF MatchingSpec

(* Whatever the pattern and the text, fnmatch finds a match exactly where   *)
(* the elements of the pattern divide the text, and the trims remove the    *)
(* shortest or longest part that it denotes.                                *)
THEOREM MatchesAreDenoted == MatchingSpec => []PatternsDenoted
<1>1. MatchingTypeOK => PatternsDenoted
  <2> SUFFICES ASSUME MatchingTypeOK, text # NoText, NEW greedy \in BOOLEAN
               PROVE  /\ FnMatch(pattern, text) = Denotes(pattern, text)
                      /\ (greedy \/ ~Denotes(pattern, <<>>)) =>
                           /\ TrimPrefix(text, pattern, greedy) = Prefix(text, pattern, greedy)
                           /\ TrimSuffix(text, pattern, greedy) = Suffix(text, pattern, greedy)
    BY DEF PatternsDenoted
  <2>1. pattern \in Seq(Chars) /\ text \in Seq(Chars)
    BY TextsAssumption DEF MatchingTypeOK
  <2> QED BY <2>1, FnMatchDenotes, TrimsDenote
<1> QED BY <1>1, Typed, PTL

(* Whatever the pattern and the files, pathname expansion gives the paths   *)
(* that the pattern's components denote, name by name, and no others.       *)
THEOREM PathsAreDenoted == MatchingSpec => []GlobPaths
<1>1. MatchingTypeOK => GlobPaths
  <2> SUFFICES ASSUME MatchingTypeOK, pattern # <<>>, ~LookedUpEscaped
               PROVE  Glob(pattern) = Paths(pattern)
    BY DEF GlobPaths
  <2>1. pattern \in Seq(Chars)
    BY DEF MatchingTypeOK
  <2>2. SplitComponents(pattern) \in Seq(Seq(Chars))
    BY <2>1, Splits
  <2>3. \A k \in DOMAIN SplitComponents(pattern) : LooksUp(SplitComponents(pattern)[k])
    BY <2>2 DEF LookedUpEscaped, LooksUp
  <2> QED BY <2>1, <2>3, GlobDenotes
<1> QED BY <1>1, Typed, PTL

-----------------------------------------------------------------------------
(* Fields: what the definition says of an item depends on what is before.   *)

N == Len(items)

\* An item is white space, a mark, or part of a field, or it only begins a fragment.
LEMMA Kinds ==
  ASSUME SplitTypeOK, NEW i \in 1 .. N
  PROVE  /\ White(i) \/ Mark(i) => ~Belongs(i) /\ ~Breaks(i) /\ items[i].char # Begin
         /\ ~(White(i) /\ Mark(i))
         /\ items[i].char = Begin => ~White(i) /\ ~Mark(i)
         /\ items[i].char # Begin => White(i) \/ Mark(i) \/ Belongs(i)
BY DEF White, Mark, Belongs, Breaks, MaySplit, IsWhite, IsMark

\* One item more.
Given(x) == x \in ItemSet /\ items' = Append(items, x) /\ delims' = delims

\* What the earlier items are does not change.
LEMMA SameItems ==
  ASSUME SplitTypeOK, NEW x, Given(x)
  PROVE  /\ N \in Nat /\ N' = N + 1 /\ DOMAIN items = 1 .. N /\ (DOMAIN items)' = 1 .. N + 1
         /\ items'[N + 1] = x /\ \A i \in 1 .. N : items'[i] = items[i]
         /\ \A i \in 1 .. N : /\ White(i)' <=> White(i)
                              /\ Mark(i)' <=> Mark(i)
                              /\ Breaks(i)' <=> Breaks(i)
                              /\ Belongs(i)' <=> Belongs(i)
                              /\ Separates(i)' <=> Separates(i)
<1>1. /\ N \in Nat /\ N' = N + 1 /\ DOMAIN items = 1 .. N /\ (DOMAIN items)' = 1 .. N + 1
      /\ items'[N + 1] = x /\ \A i \in 1 .. N : items'[i] = items[i]
  BY DEF Given, SplitTypeOK, N
<1>2. ASSUME NEW i \in 1 .. N
      PROVE  /\ White(i)' <=> White(i)
             /\ Mark(i)' <=> Mark(i)
             /\ Breaks(i)' <=> Breaks(i)
  BY <1>1 DEF Given, White, Mark, Breaks, MaySplit
<1>3. ASSUME NEW i \in 1 .. N
      PROVE  /\ Belongs(i)' <=> Belongs(i)
             /\ Separates(i)' <=> Separates(i)
  BY <1>1, <1>2 DEF Given, Belongs, Separates
<1> QED BY <1>1, <1>2, <1>3

\* What a mark ends depends on what is before it.
LEMMA SameBefore ==
  ASSUME SplitTypeOK, NEW x, Given(x), NEW m \in 1 .. N + 1
  PROVE  (EndsNothing(m)' <=> EndsNothing(m)) /\ (StraddlesAt(m)' <=> StraddlesAt(m))
<1>1. EndsNothing(m)' <=> EndsNothing(m)
  <2>1. \A k \in 1 .. m - 1 : k \in 1 .. N /\ \A d \in k + 1 .. m - 1 : d \in 1 .. N
    BY SameItems
  <2> QED BY <2>1, SameItems DEF EndsNothing
<1>2. StraddlesAt(m)' <=> StraddlesAt(m)
  <2>1. ASSUME NEW b \in 1 .. m - 1
        PROVE  /\ b \in 1 .. N /\ items'[b] = items[b]
               /\ \A k \in b + 1 .. m - 1 : White(k)' <=> White(k)
               /\ \A d \in 1 .. b : (White(d)' <=> White(d)) /\ \A k \in d + 1 .. b : Belongs(k)' <=> Belongs(k)
    <3>1. b \in 1 .. N /\ \A k \in 1 .. m - 1 : k \in 1 .. N
      BY SameItems
    <3>2. \A k \in b + 1 .. m - 1 : k \in 1 .. m - 1
      BY SameItems
    <3>3. \A d \in 1 .. b : d \in 1 .. N /\ \A k \in d + 1 .. b : k \in 1 .. N
      BY <3>1, SameItems
    <3> QED BY <3>1, <3>2, <3>3, SameItems
  <2> QED BY <1>1, <2>1 DEF StraddlesAt
<1> QED BY <1>1, <1>2

-----------------------------------------------------------------------------
(* The two kinds of fields: stretches of items, and those of nothing that a *)
(* mark ends.  The code makes one of the latter unless it straddles.        *)

Spans == {w \in (DOMAIN items) \X (DOMAIN items) : IsField(w[1], w[2])}
Nothings == {<<m, m - 1>> : m \in {k \in DOMAIN items : Mark(k) /\ (EndsNothing(k) # StraddlesAt(k))}}

\* As a formula of w, which is how the provers use it.
LEMMA SpansAre ==
  \A w : w \in Spans <=> w = <<w[1], w[2]>> /\ w[1] \in DOMAIN items /\ w[2] \in DOMAIN items /\ IsField(w[1], w[2])
BY DEF Spans

\* Another mark may end another field of nothing.
LEMMA NothingsNext ==
  ASSUME SplitTypeOK, NEW x, Given(x), NEW m \in Nat, m = N + 1
  PROVE  Nothings' = IF Mark(m)' /\ (EndsNothing(m) # StraddlesAt(m)) THEN Nothings \cup {<<m, N>>} ELSE Nothings
<1> DEFINE M == {k \in DOMAIN items : Mark(k) /\ (EndsNothing(k) # StraddlesAt(k))}
           M2 == {k \in (DOMAIN items)' : Mark(k)' /\ (EndsNothing(k)' # StraddlesAt(k)')}
<1>1. \A k \in 1 .. m : (EndsNothing(k)' # StraddlesAt(k)') <=> (EndsNothing(k) # StraddlesAt(k))
  <2>1. SUFFICES ASSUME NEW k \in 1 .. m
                 PROVE  (EndsNothing(k)' # StraddlesAt(k)') <=> (EndsNothing(k) # StraddlesAt(k))
    OBVIOUS
  <2>2. (EndsNothing(k)' <=> EndsNothing(k)) /\ (StraddlesAt(k)' <=> StraddlesAt(k))
    BY SameBefore
  <2>3. EndsNothing(k) \in BOOLEAN /\ StraddlesAt(k) \in BOOLEAN
    BY DEF EndsNothing, StraddlesAt
  <2>4. EndsNothing(k)' \in BOOLEAN /\ StraddlesAt(k)' \in BOOLEAN
    BY DEF EndsNothing, StraddlesAt
  <2> QED BY <2>2, <2>3, <2>4
<1>2. \A k \in 1 .. N : k \in M2 <=> k \in M
  <2>1. \A k \in 1 .. N : k \in 1 .. m
    BY SameItems
  <2> QED BY <1>1, <2>1, SameItems
<1>3. m \in M2 <=> Mark(m)' /\ (EndsNothing(m) # StraddlesAt(m))
  BY <1>1, SameItems
<1>4. M \subseteq 1 .. N /\ M2 \subseteq 1 .. m /\ N \in Nat
  BY SameItems
<1>5. Nothings = {<<k, k - 1>> : k \in M} /\ Nothings' = {<<k, k - 1>> : k \in M2}
  BY DEF Nothings
<1> HIDE DEF M, M2
<1>6. m - 1 = N
  BY <1>4
<1>7. M2 = IF m \in M2 THEN M \cup {m} ELSE M
  <2>1. \A k \in 1 .. m : k \in 1 .. N \/ k = m
    BY <1>4
  <2>2. m \notin M
    BY <1>4
  <2>3. ASSUME NEW k PROVE k \in M2 <=> k \in M \/ (k = m /\ m \in M2)
    BY <1>2, <1>4, <2>1, <2>2
  <2> QED BY <2>3
<1> QED BY <1>3, <1>5, <1>6, <1>7

-----------------------------------------------------------------------------
(* The fields after one item more.                                          *)

\* IsField, by what is known at t and what follows.
Stretch(f, t) ==
  /\ f <= t /\ Belongs(f) /\ Belongs(t) /\ \A d \in f + 1 .. t : ~Separates(d)
  /\ \A k \in 1 .. f - 1 : Belongs(k) => \E d \in k + 1 .. f : Separates(d)
Ended(t) == \A k \in t + 1 .. N : Belongs(k) => \E d \in t + 1 .. k : Separates(d)

\* A stretch stays one.
LEMMA StretchKept ==
  ASSUME SplitTypeOK, NEW x, Given(x), NEW f \in 1 .. N, NEW t \in 1 .. N
  PROVE  Stretch(f, t)' <=> Stretch(f, t)
<1>1. \A d \in f + 1 .. t : d \in 1 .. N
  BY SameItems
<1>2. \A k \in 1 .. f - 1 : k \in 1 .. N /\ \A d \in k + 1 .. f : d \in 1 .. N
  BY SameItems
<1> QED BY <1>1, <1>2, SameItems DEF Stretch

\* It has ended unless the new item continues it.
LEMMA EndedNext ==
  ASSUME SplitTypeOK, NEW x, Given(x), NEW m \in Nat, m = N + 1, NEW t \in 1 .. N
  PROVE  Ended(t)' <=> Ended(t) /\ (Belongs(m)' => \E d \in t + 1 .. m : Separates(d)')
<1>1. N \in Nat /\ N' = m
  BY SameItems
<1>2. \A k \in t + 1 .. N : k \in 1 .. N /\ \A d \in t + 1 .. k : d \in 1 .. N
  BY <1>1
<1>3. \A k : k \in t + 1 .. m <=> k \in t + 1 .. N \/ k = m
  BY <1>1
<1>4. Ended(t)' <=> \A k \in t + 1 .. m : Belongs(k)' => \E d \in t + 1 .. k : Separates(d)'
  BY <1>1 DEF Ended
<1> QED BY <1>2, <1>3, <1>4, SameItems DEF Ended

\* The stretches that are fields before and after the item, side by side.
LEMMA SpansNext ==
  ASSUME SplitTypeOK, NEW x, Given(x), NEW m \in Nat, m = N + 1
  PROVE  /\ \A w : w \in Spans' <=>
              /\ w = <<w[1], w[2]>> /\ w[1] \in 1 .. m /\ w[2] \in 1 .. m
              /\ Stretch(w[1], w[2])' /\ Ended(w[2])'
         /\ \A w : w \in Spans <=>
              /\ w = <<w[1], w[2]>> /\ w[1] \in 1 .. N /\ w[2] \in 1 .. N
              /\ Stretch(w[1], w[2]) /\ Ended(w[2])
         /\ 1 .. m = 1 .. N \cup {m} /\ m \notin 1 .. N /\ Ended(m)'
<1>1. \A f, t : IsField(f, t) <=> Stretch(f, t) /\ Ended(t)
  BY DEF IsField, Stretch, Ended, N
<1>2. (\A f, t : IsField(f, t) <=> Stretch(f, t) /\ Ended(t))'
  BY DEF IsField, Stretch, Ended, N
<1>3. DOMAIN items = 1 .. N /\ (DOMAIN items)' = 1 .. m /\ N' = m
  BY SameItems
<1>4. 1 .. m = 1 .. N \cup {m} /\ m \notin 1 .. N /\ Ended(m)'
  BY SameItems DEF Ended
<1>5. \A w : w \in Spans' <=> /\ w = <<w[1], w[2]>> /\ w[1] \in 1 .. m /\ w[2] \in 1 .. m
                              /\ IsField(w[1], w[2])'
  BY <1>3 DEF Spans
<1> QED BY <1>1, <1>2, <1>3, <1>4, <1>5, SpansAre

\* An item that belongs to no field changes none.
LEMMA SpansKept ==
  ASSUME SplitTypeOK, NEW x, Given(x), NEW m \in Nat, m = N + 1, ~Belongs(m)'
  PROVE  Spans' = Spans
<1>1. ASSUME NEW w PROVE w \in Spans' <=> w \in Spans
  <2>1. w[1] = m \/ w[2] = m => ~Stretch(w[1], w[2])'
    BY DEF Stretch
  <2>2. w[2] \in 1 .. N => (Ended(w[2])' <=> Ended(w[2]))
    BY EndedNext
  <2>3. w[1] \in 1 .. N /\ w[2] \in 1 .. N => (Stretch(w[1], w[2])' <=> Stretch(w[1], w[2]))
    BY StretchKept
  <2> QED BY <2>1, <2>2, <2>3, SpansNext
<1> QED BY <1>1

\* One begins a field if all others have ended.
LEMMA SpanBegins ==
  ASSUME SplitTypeOK, NEW x, Given(x), NEW m \in Nat, m = N + 1, Belongs(m)',
         \A k \in 1 .. N : Belongs(k) => \E d \in k + 1 .. m : Separates(d)'
  PROVE  Spans' = Spans \cup {<<m, m>>}
<1>0. N \in Nat /\ m - 1 = N
  BY SameItems
<1>1. Stretch(m, m)'
  <2>1. \A k \in 1 .. m - 1 : k \in 1 .. N
    BY <1>0
  <2>2. \A d \in m + 1 .. m : FALSE
    OBVIOUS
  <2> QED BY <2>1, <2>2, SameItems DEF Stretch
<1>2. ASSUME NEW f \in 1 .. N PROVE ~Stretch(f, m)'
  <2>1. SUFFICES ASSUME Stretch(f, m)' PROVE FALSE
    OBVIOUS
  <2>2. Belongs(f)' /\ \A d \in f + 1 .. m : ~Separates(d)'
    BY <2>1 DEF Stretch
  <2> QED BY <2>2, SameItems
<1>3. ASSUME NEW t \in 1 .. N PROVE ~Stretch(m, t)'
  BY <1>0 DEF Stretch
<1>4. ASSUME NEW f \in 1 .. N, NEW t \in 1 .. N
      PROVE  Stretch(f, t)' /\ Ended(t)' <=> Stretch(f, t) /\ Ended(t)
  <2>1. Stretch(f, t)' <=> Stretch(f, t)
    BY StretchKept
  <2>2. Stretch(f, t) => Belongs(t)
    BY DEF Stretch
  <2>3. Belongs(t) => \E d \in t + 1 .. m : Separates(d)'
    OBVIOUS
  <2> QED BY <2>1, <2>2, <2>3, EndedNext
<1>5. ASSUME NEW w PROVE w \in Spans' <=> w \in Spans \/ w = <<m, m>>
  BY <1>1, <1>2, <1>3, <1>4, SpansNext
<1> QED BY <1>5

\* The field in progress: from f on nothing separates, and t is the last of it.
OpenSpan(f, t) ==
  /\ f \in 1 .. N /\ t \in f .. N /\ Belongs(f) /\ Belongs(t)
  /\ \A d \in f + 1 .. N : ~Separates(d)
  /\ \A k \in t + 1 .. N : ~Belongs(k)
  /\ \A k \in 1 .. f - 1 : Belongs(k) => \E d \in k + 1 .. f : Separates(d)

\* Or it becomes the last of the one that has not.
LEMMA SpanGrows ==
  ASSUME SplitTypeOK, NEW x, Given(x), NEW m \in Nat, m = N + 1, Belongs(m)', ~Separates(m)',
         NEW f, NEW t, OpenSpan(f, t)
  PROVE  Spans' = (Spans \ {<<f, t>>}) \cup {<<f, m>>}
<1>0. /\ N \in Nat /\ m - 1 = N /\ f \in 1 .. N /\ t \in 1 .. N /\ f <= t
      /\ \A d \in f + 1 .. m : ~Separates(d)'
  <2>1. N \in Nat /\ f \in 1 .. N /\ t \in 1 .. N /\ f <= t
    BY SameItems DEF OpenSpan
  <2>2. \A d \in f + 1 .. m : d = m \/ (d \in f + 1 .. N /\ d \in 1 .. N)
    BY <2>1
  <2>3. \A d \in f + 1 .. N : ~Separates(d)
    BY DEF OpenSpan
  <2>4. \A d \in f + 1 .. m : ~Separates(d)'
    BY <2>2, <2>3, SameItems
  <2> QED BY <2>1, <2>4
<1>1. Stretch(f, m)'
  <2>1. \A k \in 1 .. f - 1 : k \in 1 .. N /\ \A d \in k + 1 .. f : d \in 1 .. N
    BY <1>0
  <2>2. \A k \in 1 .. f - 1 : Belongs(k)' => \E d \in k + 1 .. f : Separates(d)'
    BY <2>1, SameItems DEF OpenSpan
  <2>3. Belongs(f)'
    BY <1>0, SameItems DEF OpenSpan
  <2> QED BY <1>0, <2>2, <2>3 DEF Stretch
<1>2. ASSUME NEW g \in 1 .. m, Stretch(g, m)' PROVE g = f
  <2>1. g < f => \E d \in g + 1 .. m : Separates(d)'
    <3>1. SUFFICES ASSUME g < f PROVE \E d \in g + 1 .. m : Separates(d)'
      OBVIOUS
    <3>2. g \in 1 .. f - 1 /\ g \in 1 .. N
      BY <3>1, <1>0
    <3>3. Belongs(g)
      BY <3>2, <1>2, SameItems DEF Stretch
    <3>4. PICK d \in g + 1 .. f : Separates(d)
      BY <3>2, <3>3 DEF OpenSpan
    <3>5. d \in 1 .. N /\ d \in g + 1 .. m
      BY <1>0, <3>1, <3>4
    <3> QED BY <3>4, <3>5, SameItems
  <2>2. g > f => \E d \in f + 1 .. g : Separates(d)'
    <3>1. g > f => f \in 1 .. g - 1 /\ Belongs(f)'
      BY <1>0, SameItems DEF OpenSpan
    <3> QED BY <3>1, <1>2 DEF Stretch
  <2>3. \A d \in f + 1 .. g : d \in f + 1 .. m
    BY <1>0
  <2> QED BY <1>0, <1>2, <2>1, <2>2, <2>3 DEF Stretch
<1>3. ASSUME NEW g \in 1 .. N PROVE ~Stretch(m, g)'
  BY <1>0 DEF Stretch
<1>4. ASSUME NEW g \in 1 .. N, NEW h \in 1 .. N
      PROVE  Stretch(g, h)' /\ Ended(h)' <=> Stretch(g, h) /\ Ended(h) /\ ~(g = f /\ h = t)
  <2>1. Stretch(g, h)' <=> Stretch(g, h)
    BY StretchKept
  <2>2. CASE h < f
    <3>1. Belongs(h) => \E d \in h + 1 .. m : Separates(d)'
      <4>1. SUFFICES ASSUME Belongs(h) PROVE \E d \in h + 1 .. m : Separates(d)'
        OBVIOUS
      <4>2. h \in 1 .. f - 1
        BY <1>0, <2>2
      <4>3. PICK d \in h + 1 .. f : Separates(d)
        BY <4>1, <4>2 DEF OpenSpan
      <4>4. d \in 1 .. N /\ d \in h + 1 .. m
        BY <1>0, <4>3
      <4> QED BY <4>3, <4>4, SameItems
    <3>2. Stretch(g, h) => Belongs(h)
      BY DEF Stretch
    <3>3. h # t
      BY <1>0, <2>2
    <3> QED BY <2>1, <3>1, <3>2, <3>3, EndedNext
  <2>3. CASE h >= f
    <3>1. ~Ended(h)'
      <4>1. \A d \in h + 1 .. m : d \in f + 1 .. m
        BY <1>0, <2>3
      <4> QED BY <4>1, <1>0, EndedNext
    <3>2. Stretch(g, h) /\ Ended(h) => g = f /\ h = t
      <4>1. SUFFICES ASSUME Stretch(g, h), Ended(h) PROVE g = f /\ h = t
        OBVIOUS
      <4>2. h <= t
        <5>1. h > t => h \in t + 1 .. N
          BY <1>0
        <5> QED BY <5>1, <4>1, <1>0 DEF OpenSpan, Stretch
      <4>3. h = t
        <5>1. SUFFICES ASSUME h < t PROVE FALSE
          BY <4>2, <1>0
        <5>2. t \in h + 1 .. N /\ Belongs(t)
          BY <5>1, <1>0 DEF OpenSpan
        <5>3. PICK d \in h + 1 .. t : Separates(d)
          BY <5>2, <4>1 DEF Ended
        <5>4. d \in f + 1 .. N
          BY <5>3, <1>0, <2>3
        <5> QED BY <5>3, <5>4 DEF OpenSpan
      <4>4. ~(g < f)
        <5>1. SUFFICES ASSUME g < f PROVE FALSE
          OBVIOUS
        <5>2. g \in 1 .. f - 1 /\ Belongs(g)
          BY <5>1, <4>1, <1>0 DEF Stretch
        <5>3. PICK d \in g + 1 .. f : Separates(d)
          BY <5>2 DEF OpenSpan
        <5>4. d \in g + 1 .. h
          BY <5>3, <1>0, <2>3
        <5> QED BY <5>3, <5>4, <4>1 DEF Stretch
      <4>5. ~(g > f)
        <5>1. SUFFICES ASSUME g > f PROVE FALSE
          OBVIOUS
        <5>2. f \in 1 .. g - 1 /\ Belongs(f)
          BY <5>1, <1>0 DEF OpenSpan
        <5>3. PICK d \in f + 1 .. g : Separates(d)
          BY <5>2, <4>1 DEF Stretch
        <5>4. d \in f + 1 .. N
          BY <5>3, <1>0
        <5> QED BY <5>3, <5>4 DEF OpenSpan
      <4> QED BY <4>3, <4>4, <4>5, <1>0
    <3> QED BY <3>1, <3>2
  <2> QED BY <2>2, <2>3, <1>0
<1>5. ASSUME NEW w PROVE w \in Spans' <=> (w \in Spans /\ w # <<f, t>>) \/ w = <<f, m>>
  <2>1. m \in 1 .. m /\ f \in 1 .. m
    BY <1>0
  <2> QED BY <1>0, <1>1, <1>2, <1>3, <1>4, <2>1, SpansNext
<1> QED BY <1>5

-----------------------------------------------------------------------------
(* The pass.                                                                *)

Made(s) == {s[n] : n \in DOMAIN s}
Ordered(s) == \A m, n \in DOMAIN s : m < n => s[m][1] < s[n][1]

\* One field more, and it is in order if it begins after all others.
LEMMA MadeNext ==
  ASSUME NEW s \in Seq(Nat \X Nat), NEW w \in Nat \X Nat
  PROVE  /\ Made(Append(s, w)) = Made(s) \cup {w}
         /\ Ordered(Append(s, w)) <=> Ordered(s) /\ \A v \in Made(s) : v[1] < w[1]
<1> DEFINE q == Append(s, w)   n == Len(s)
<1>1. /\ n \in Nat /\ DOMAIN s = 1 .. n /\ DOMAIN q = 1 .. n + 1
      /\ q[n + 1] = w /\ \A i \in 1 .. n : q[i] = s[i]
  OBVIOUS
<1>2. 1 .. n + 1 = 1 .. n \cup {n + 1}
  BY <1>1
<1> HIDE DEF q, n
<1>3. Made(q) = Made(s) \cup {w}
  <2>1. ASSUME NEW v PROVE v \in Made(q) <=> v \in Made(s) \/ v = w
    BY <1>1, <1>2 DEF Made
  <2> QED BY <2>1
<1>4. Ordered(q) <=> Ordered(s) /\ \A i \in 1 .. n : s[i][1] < w[1]
  <2>1. \A i, j \in 1 .. n + 1 : i < j => i \in 1 .. n /\ (j \in 1 .. n \/ j = n + 1)
    BY <1>1
  <2>2. \A i \in 1 .. n : i < n + 1
    BY <1>1
  <2>3. ASSUME Ordered(q) PROVE Ordered(s) /\ \A i \in 1 .. n : s[i][1] < w[1]
    BY <2>3, <2>2, <1>1, <1>2 DEF Ordered
  <2>4. ASSUME Ordered(s), \A i \in 1 .. n : s[i][1] < w[1] PROVE Ordered(q)
    BY <2>4, <2>1, <1>1, <1>2 DEF Ordered
  <2> QED BY <2>3, <2>4
<1> QED BY <1>1, <1>3, <1>4 DEF q, Made

\* Whether only white space is between the next item and where a fragment begins.
Led(m) == \E b \in 1 .. m - 1 : items[b].char = Begin /\ \A k \in b + 1 .. m - 1 : White(k)

\* What is skipped says what a mark would end that came next.
SkipRight(m) ==
  /\ pass.skip = "white" => ~pass.open /\ m > 1 /\ White(m - 1) /\ (EndsNothing(m) => Led(m))
  /\ pass.skip = "after" => ~pass.open /\ EndsNothing(m) /\ ~Led(m)
  /\ pass.skip = "no" /\ m > 1 => items[m - 1].char = Begin \/ (pass.open /\ ~White(m - 1))

\* No field is in progress.
AllEnded == \A k \in 1 .. N : Belongs(k) => \E d \in k + 1 .. N : Separates(d)

\* The fields made so far are those of the definition, for the items so far.
FieldsRight == Made(FieldsMade) = Spans \cup Nothings /\ Ordered(FieldsMade)

(* The inductive invariant.  That the fields so far are right is not        *)
(* inductive: whether the next item goes on with one depends on what is in  *)
(* progress, and what a mark ends on what has been skipped.                 *)
PassInv ==
  /\ SplitTypeOK
  /\ FieldsRight
  /\ IF pass.open THEN OpenSpan(pass.from, pass.to) ELSE AllEnded
  /\ SkipRight(N + 1)

\* The loop's step for an item.
Step(x) == Given(x) /\ (x.char # Begin => N > 0) /\ pass' = Pass(pass, N + 1, x, delims)

\* Types.
LEMMA Appended ==
  ASSUME NEW S, NEW s \in Seq(S), NEW w \in S
  PROVE  Append(s, w) \in Seq(S)
OBVIOUS

PassStates == [fields : Seq(Nat \X Nat), from : Nat, to : Nat, open : BOOLEAN, skip : Skipping]

LEMMA EmitTyped ==
  ASSUME NEW s \in PassStates, NEW i \in Nat, i > 0
  PROVE  EmitOpen(s) \in PassStates /\ Emit(s, i) \in PassStates
<1>1. ASSUME NEW q \in Seq(Nat \X Nat)
      PROVE  [s EXCEPT !.fields = q] \in PassStates /\ [s EXCEPT !.fields = q, !.open = FALSE] \in PassStates
  BY DEF PassStates
<1>2. /\ Append(s.fields, <<s.from, s.to>>) \in Seq(Nat \X Nat)
      /\ Append(s.fields, <<i, i - 1>>) \in Seq(Nat \X Nat)
  BY Appended DEF PassStates
<1>3. EmitOpen(s) \in PassStates
  BY <1>1, <1>2 DEF EmitOpen
<1>4. [s EXCEPT !.fields = Append(s.fields, <<i, i - 1>>)] \in PassStates
  BY <1>1, <1>2
<1> QED BY <1>3, <1>4 DEF Emit

LEMMA StepTyped == ASSUME SplitTypeOK, NEW x, Step(x) PROVE SplitTypeOK'
<1>1. items' \in Seq(ItemSet) /\ delims' \in IfsValues
  BY DEF SplitTypeOK, Step, Given
<1>2. N + 1 \in Nat /\ N + 1 > 0
  BY DEF SplitTypeOK, N
<1>3. ASSUME NEW s \in PassStates
      PROVE  /\ Grow(s, N + 1) \in PassStates
             /\ \A k \in Skipping : Skip(s, k) \in PassStates
  BY <1>2 DEF Grow, Skip, Skipping, PassStates
<1>4. pass \in PassStates
  BY DEF SplitTypeOK, PassStates
<1>5. pass' \in PassStates
  BY <1>2, <1>3, <1>4, EmitTyped DEF Step, Pass, Skipping
<1> QED BY <1>1, <1>5 DEF SplitTypeOK, PassStates

\* Every action is such a step.
LEMMA NextSteps == ASSUME SplitTypeOK, SplitNext PROVE \E x : Step(x)
<1>1. ASSUME NEW split \in BOOLEAN, NEW starts \in BOOLEAN, GiveFragment(split, starts)
      PROVE  Step(Item(Begin, split, starts))
  BY <1>1 DEF GiveFragment, Give, Step, Given, Item, ItemSet, N
<1>2. ASSUME NEW c \in SplitChars, GiveChar(c)
      PROVE  Step(Item(c, items[N].split, FALSE))
  <2>1. N \in 1 .. N /\ items[N] \in ItemSet
    BY <1>2, SplittingAssumption DEF GiveChar, SplitTypeOK, N
  <2> QED BY <1>2, <2>1 DEF GiveChar, Give, Step, Given, Item, ItemSet, N
<1> QED BY <1>1, <1>2 DEF SplitNext

\* What a mark after the item would end.
LEMMA EndsNothingNext ==
  ASSUME SplitTypeOK, NEW x, Given(x), NEW m \in Nat, m = N + 1
  PROVE  EndsNothing(m + 1)' <=> ~Belongs(m)' /\ (Mark(m)' \/ Breaks(m)' \/ EndsNothing(m))
<1>0. m + 1 - 1 = m /\ m - 1 = N /\ m > 0
  BY SameItems
<1>1. EndsNothing(m + 1)' <=> \A k \in 1 .. m : Belongs(k)' => \E d \in k + 1 .. m : Mark(d)' \/ Breaks(d)'
  BY <1>0 DEF EndsNothing
<1>2. EndsNothing(m) <=> \A k \in 1 .. N : Belongs(k)' => \E d \in k + 1 .. N : Mark(d)' \/ Breaks(d)'
  <2>1. \A k \in 1 .. N : \A d \in k + 1 .. N : d \in 1 .. N
    BY <1>0
  <2> QED BY <1>0, <2>1, SameItems DEF EndsNothing
<1>3. \A k : k \in 1 .. m <=> k \in 1 .. N \/ k = m
  BY <1>0
<1>4. \A k \in 1 .. N : \A d : d \in k + 1 .. m <=> d \in k + 1 .. N \/ d = m
  BY <1>0
<1>5. \A d \in m + 1 .. m : FALSE
  BY <1>0
<1> QED BY <1>1, <1>2, <1>3, <1>4, <1>5

\* And whether only white space would lead to it.
LEMMA LedNext ==
  ASSUME SplitTypeOK, NEW x, Given(x), NEW m \in Nat, m = N + 1
  PROVE  Led(m + 1)' <=> x.char = Begin \/ (White(m)' /\ Led(m))
<1>0. m + 1 - 1 = m /\ m - 1 = N /\ m > 0 /\ N \in Nat
  BY SameItems
<1>1. Led(m + 1)' <=> \E b \in 1 .. m : items'[b].char = Begin /\ \A k \in b + 1 .. m : White(k)'
  BY <1>0 DEF Led
<1>2. Led(m) <=> \E b \in 1 .. N : items'[b].char = Begin /\ \A k \in b + 1 .. N : White(k)'
  <2>1. \A b \in 1 .. N : \A k \in b + 1 .. N : k \in 1 .. N
    BY <1>0
  <2> QED BY <1>0, <2>1, SameItems DEF Led
<1>3. \A k : k \in 1 .. m <=> k \in 1 .. N \/ k = m
  BY <1>0
<1>4. \A b \in 1 .. N : \A k : k \in b + 1 .. m <=> k \in b + 1 .. N \/ k = m
  BY <1>0
<1>5. \A k \in m + 1 .. m : FALSE
  BY <1>0
<1>6. items'[m] = x
  BY SameItems
<1> QED BY <1>1, <1>2, <1>3, <1>4, <1>5, <1>6

\* What an item does, by what it is.
LEMMA ItemKinds ==
  ASSUME SplitTypeOK, NEW x, Step(x), NEW m \in Nat, m = N + 1
  PROVE  /\ White(m)' => pass' = IF pass.skip = "no" THEN Skip(EmitOpen(pass), "white") ELSE pass
         /\ Mark(m)' => pass' = Skip(IF pass.skip = "white" THEN pass ELSE Emit(pass, m), "after")
         /\ x.char = Begin /\ ~Belongs(m)' => pass' = Skip(IF Breaks(m)' THEN EmitOpen(pass) ELSE pass, "no")
         /\ x.char = Begin /\ Belongs(m)' => pass' = Grow(Skip(IF Breaks(m)' THEN EmitOpen(pass) ELSE pass, "no"), m)
         /\ x.char # Begin /\ Belongs(m)' => pass' = Grow(pass, m) /\ ~Breaks(m)'
<1>1. items'[m] = x /\ delims' = delims /\ x \in ItemSet
  BY SameItems DEF Step, Given
<1>2. ASSUME NEW c PROVE Among(c, delims) => delims # <<>>
  BY DEF Among
<1>3. /\ White(m)' <=> x.char # Begin /\ x.split /\ IsWhite(x.char, delims)
      /\ Mark(m)' <=> x.char # Begin /\ x.split /\ IsMark(x.char, delims)
      /\ Breaks(m)' <=> x.char = Begin /\ x.starts
      /\ Belongs(m)' <=> IF x.char = Begin THEN ~x.split \/ delims = <<>> ELSE ~White(m)' /\ ~Mark(m)'
  BY <1>1 DEF White, Mark, Breaks, Belongs, MaySplit
<1>4. /\ IsWhite(x.char, delims) => delims # <<>> /\ ~IsMark(x.char, delims)
      /\ IsMark(x.char, delims) => delims # <<>>
  BY <1>2 DEF IsWhite, IsMark
<1>5. pass' = Pass(pass, m, x, delims)
  BY DEF Step
<1>6. x.char = Begin =>
        pass' = IF Belongs(m)' THEN Grow(Skip(IF Breaks(m)' THEN EmitOpen(pass) ELSE pass, "no"), m)
                ELSE Skip(IF Breaks(m)' THEN EmitOpen(pass) ELSE pass, "no")
  BY <1>3, <1>5 DEF Pass
<1>7. White(m)' => pass' = IF pass.skip = "no" THEN Skip(EmitOpen(pass), "white") ELSE pass
  BY <1>3, <1>4, <1>5 DEF Pass
<1>8. Mark(m)' => pass' = Skip(IF pass.skip = "white" THEN pass ELSE Emit(pass, m), "after")
  BY <1>3, <1>4, <1>5 DEF Pass
<1>9. x.char # Begin /\ Belongs(m)' => pass' = Grow(pass, m) /\ ~Breaks(m)'
  BY <1>3, <1>5 DEF Pass
<1> QED BY <1>6, <1>7, <1>8, <1>9

\* The same for each part of the state, with the fields made so far.
LEMMA PassNext ==
  ASSUME SplitTypeOK, NEW x, Step(x), NEW m \in Nat, m = N + 1
  PROVE  /\ White(m)' => /\ pass.skip = "no" => pass'.open = FALSE /\ pass'.skip = "white"
                         /\ pass.skip # "no" => pass' = pass
                         /\ FieldsMade' = FieldsMade
         /\ Mark(m)' => /\ (pass.skip = "white" => ~pass.open) => pass'.open = FALSE
                        /\ pass'.skip = "after"
                        /\ FieldsMade' = IF pass.skip = "white" \/ pass.open THEN FieldsMade
                                         ELSE Append(FieldsMade, <<m, m - 1>>)
         /\ x.char = Begin /\ ~Belongs(m)' =>
              /\ pass'.open = (pass.open /\ ~Breaks(m)') /\ pass'.skip = "no"
              /\ pass'.open => pass'.from = pass.from /\ pass'.to = pass.to
              /\ FieldsMade' = FieldsMade
         /\ Belongs(m)' =>
              /\ pass'.open = TRUE /\ pass'.skip = "no" /\ pass'.to = m
              /\ IF pass.open /\ ~Breaks(m)'
                 THEN pass'.from = pass.from /\ FieldsMade' = Append(pass.fields, <<pass.from, m>>)
                 ELSE pass'.from = m /\ FieldsMade' = Append(FieldsMade, <<m, m>>)
<1>1. pass \in PassStates /\ Breaks(m)' \in BOOLEAN /\ m > 0
  BY SameItems DEF SplitTypeOK, PassStates, Breaks, Step
<1>2. ASSUME NEW s \in PassStates, NEW k \in Skipping
      PROVE  /\ Skip(s, k) \in PassStates /\ Skip(s, k).skip = k /\ Skip(s, k).open = s.open
             /\ Skip(s, k).from = s.from /\ Skip(s, k).to = s.to /\ Skip(s, k).fields = s.fields
             /\ EmitOpen(Skip(s, k)).fields = EmitOpen(s).fields
  BY DEF Skip, EmitOpen, PassStates
<1>3. ASSUME NEW s \in PassStates
      PROVE  /\ EmitOpen(s).open = FALSE /\ EmitOpen(s).skip = s.skip
             /\ EmitOpen(s).fields = IF s.open THEN Append(s.fields, <<s.from, s.to>>) ELSE s.fields
  BY DEF EmitOpen, PassStates
<1>4. ASSUME NEW s \in PassStates
      PROVE  /\ Grow(s, m).open = TRUE /\ Grow(s, m).skip = "no" /\ Grow(s, m).to = m
             /\ Grow(s, m).from = IF s.open THEN s.from ELSE m
             /\ Grow(s, m).fields = s.fields /\ Grow(s, m) \in PassStates
             /\ EmitOpen(Grow(s, m)).fields = Append(s.fields, <<Grow(s, m).from, m>>)
  BY <1>1 DEF Grow, EmitOpen, PassStates, Skipping
<1>5. ASSUME NEW s \in PassStates
      PROVE  /\ Emit(s, m).open = FALSE
             /\ s.open => Emit(s, m).fields = EmitOpen(s).fields
             /\ ~s.open => Emit(s, m).fields = Append(s.fields, <<m, m - 1>>)
  BY DEF Emit, EmitOpen, PassStates
<1>6. /\ EmitOpen(pass) \in PassStates /\ Emit(pass, m) \in PassStates
      /\ "no" \in Skipping /\ "white" \in Skipping /\ "after" \in Skipping
  BY <1>1, EmitTyped DEF Skipping
<1>7. FieldsMade = EmitOpen(pass).fields /\ FieldsMade' = EmitOpen(pass').fields
  BY DEF FieldsMade
<1> DEFINE e == EmitOpen(pass)
<1>8. /\ e \in PassStates /\ e.open = FALSE /\ EmitOpen(e).fields = FieldsMade
      /\ EmitOpen(pass).fields = FieldsMade /\ FieldsMade' = EmitOpen(pass').fields
      /\ pass.open \in BOOLEAN
  <2>1. e \in PassStates /\ e.open = FALSE /\ e.fields = FieldsMade
    BY <1>1, <1>3, <1>6, <1>7
  <2>2. EmitOpen(e).fields = e.fields
    BY <1>3, <2>1
  <2> QED BY <1>1, <1>7, <2>1, <2>2 DEF PassStates
<1>9. ASSUME White(m)'
      PROVE  /\ pass.skip = "no" => pass'.open = FALSE /\ pass'.skip = "white"
             /\ pass.skip # "no" => pass' = pass
             /\ FieldsMade' = FieldsMade
  <2>1. CASE pass.skip = "no"
    <3>1. pass' = Skip(e, "white")
      BY <1>9, <2>1, ItemKinds
    <3>2. /\ Skip(e, "white").open = e.open /\ Skip(e, "white").skip = "white"
          /\ EmitOpen(Skip(e, "white")).fields = EmitOpen(e).fields
      BY <1>2, <1>6, <1>8
    <3> QED BY <1>8, <2>1, <3>1, <3>2
  <2>2. CASE pass.skip # "no"
    <3>1. pass' = pass
      BY <1>9, <2>2, ItemKinds
    <3> QED BY <1>8, <2>2, <3>1
  <2> QED BY <2>1, <2>2
<1>10. ASSUME Mark(m)'
       PROVE  /\ (pass.skip = "white" => ~pass.open) => pass'.open = FALSE
              /\ pass'.skip = "after"
              /\ FieldsMade' = IF pass.skip = "white" \/ pass.open THEN FieldsMade
                               ELSE Append(FieldsMade, <<m, m - 1>>)
  <2>1. CASE pass.skip = "white"
    <3>1. pass' = Skip(pass, "after")
      BY <1>10, <2>1, ItemKinds
    <3>2. /\ Skip(pass, "after").open = pass.open /\ Skip(pass, "after").skip = "after"
          /\ EmitOpen(Skip(pass, "after")).fields = EmitOpen(pass).fields
      BY <1>1, <1>2, <1>6
    <3> QED BY <1>8, <2>1, <3>1, <3>2
  <2>2. CASE pass.skip # "white"
    <3> DEFINE f == Emit(pass, m)
    <3>1. pass' = Skip(f, "after")
      BY <1>10, <2>2, ItemKinds
    <3>2. f \in PassStates /\ f.open = FALSE /\ EmitOpen(f).fields = f.fields
      BY <1>1, <1>3, <1>5, <1>6
    <3>3. f.fields = IF pass.open THEN FieldsMade ELSE Append(FieldsMade, <<m, m - 1>>)
      <4>1. ~pass.open => FieldsMade = pass.fields
        BY <1>1, <1>3, <1>8
      <4>2. /\ pass.open => f.fields = EmitOpen(pass).fields
            /\ ~pass.open => f.fields = Append(pass.fields, <<m, m - 1>>)
        BY <1>1, <1>5
      <4> HIDE DEF f
      <4> QED BY <1>8, <4>1, <4>2
    <3> HIDE DEF f
    <3>4. /\ Skip(f, "after").open = f.open /\ Skip(f, "after").skip = "after"
          /\ EmitOpen(Skip(f, "after")).fields = EmitOpen(f).fields
      BY <1>2, <1>6, <3>2
    <3> QED BY <1>8, <2>2, <3>1, <3>2, <3>3, <3>4
  <2> QED BY <2>1, <2>2
<1> DEFINE b == IF Breaks(m)' THEN e ELSE pass
<1>11. /\ b \in PassStates /\ b.open = (pass.open /\ ~Breaks(m)')
       /\ b.open => b.from = pass.from /\ b.to = pass.to /\ b.fields = pass.fields
       /\ ~b.open => b.fields = FieldsMade
       /\ EmitOpen(b).fields = FieldsMade
  <2>1. CASE Breaks(m)'
    <3>1. e.fields = FieldsMade
      BY <1>8
    <3> HIDE DEF e
    <3> QED BY <1>1, <1>8, <2>1, <3>1
  <2>2. CASE ~Breaks(m)'
    <3>1. ~pass.open => pass.fields = FieldsMade
      BY <1>1, <1>3, <1>8
    <3> HIDE DEF e
    <3> QED BY <1>1, <1>8, <2>2, <3>1
  <2> QED BY <2>1, <2>2
<1>12. b = IF Breaks(m)' THEN EmitOpen(pass) ELSE pass
  OBVIOUS
<1> HIDE DEF b, e
<1>13. /\ Skip(b, "no") \in PassStates /\ Skip(b, "no").open = b.open /\ Skip(b, "no").skip = "no"
       /\ Skip(b, "no").from = b.from /\ Skip(b, "no").to = b.to /\ Skip(b, "no").fields = b.fields
       /\ EmitOpen(Skip(b, "no")).fields = EmitOpen(b).fields
  BY <1>2, <1>6, <1>11
<1>14. ASSUME x.char = Begin /\ ~Belongs(m)'
       PROVE  /\ pass'.open = (pass.open /\ ~Breaks(m)') /\ pass'.skip = "no"
              /\ pass'.open => pass'.from = pass.from /\ pass'.to = pass.to
              /\ FieldsMade' = FieldsMade
  <2>1. pass' = Skip(b, "no")
    BY <1>12, <1>14, ItemKinds
  <2> QED BY <1>8, <1>11, <1>13, <2>1
<1>15. ASSUME Belongs(m)'
       PROVE  /\ pass'.open = TRUE /\ pass'.skip = "no" /\ pass'.to = m
              /\ IF pass.open /\ ~Breaks(m)'
                 THEN pass'.from = pass.from /\ FieldsMade' = Append(pass.fields, <<pass.from, m>>)
                 ELSE pass'.from = m /\ FieldsMade' = Append(FieldsMade, <<m, m>>)
  <2>1. pass' = Grow(Skip(b, "no"), m) \/ pass' = Grow(b, m)
    BY <1>12, <1>15, ItemKinds
  <2>2. PICK s \in PassStates : /\ pass' = Grow(s, m) /\ s.open = b.open
                                /\ s.from = b.from /\ s.fields = b.fields
    BY <1>11, <1>13, <2>1
  <2>3. /\ pass'.open = TRUE /\ pass'.skip = "no" /\ pass'.to = m
        /\ pass'.from = IF b.open THEN b.from ELSE m
        /\ FieldsMade' = Append(b.fields, <<pass'.from, m>>)
    <3> DEFINE g == Grow(s, m)
    <3>1. /\ g.open = TRUE /\ g.skip = "no" /\ g.to = m /\ g.from = IF s.open THEN s.from ELSE m
          /\ EmitOpen(g).fields = Append(s.fields, <<g.from, m>>)
      BY <1>4
    <3>2. pass' = g /\ s.open = b.open /\ s.from = b.from /\ s.fields = b.fields
      BY <2>2
    <3> HIDE DEF g
    <3> QED BY <1>8, <3>1, <3>2
  <2> QED BY <1>11, <2>3
<1> QED BY <1>9, <1>10, <1>14, <1>15

-----------------------------------------------------------------------------
(* What a mark ends that comes next.                                        *)

\* White space ended the last field, and nothing has followed.
Trailed(m) == \E d \in 1 .. m - 1 : White(d) /\ \A k \in d + 1 .. m - 1 : ~Belongs(k)

\* Whether the next mark straddles, by the item before it.
LEMMA StraddlesBy ==
  ASSUME SplitTypeOK, NEW m \in Nat, m = N + 1
  PROVE  StraddlesAt(m) <=> /\ m > 1
                            /\ IF items[m - 1].char = Begin THEN ~EndsNothing(m) /\ Trailed(m)
                               ELSE White(m - 1) /\ EndsNothing(m) /\ Led(m)
<1>0. N \in Nat /\ m - 1 = N /\ \A b \in 1 .. N : b # N => b < N /\ N \in b + 1 .. N /\ N \in 1 .. N
  BY DEF SplitTypeOK, N
<1>1. \A k \in 1 .. N : items[k].char = Begin => ~White(k)
  BY Kinds
<1>2. \A k \in N + 1 .. N : FALSE
  BY <1>0
<1>3. CASE N = 0
  BY <1>0, <1>3 DEF StraddlesAt
<1>4. CASE N > 0 /\ items[N].char = Begin
  <2>1. \A b \in 1 .. N : (\A k \in b + 1 .. N : White(k)) => b = N
    BY <1>0, <1>1, <1>4
  <2>2. N \in 1 .. N /\ ~(N < N)
    BY <1>0, <1>4
  <2> QED BY <1>0, <1>2, <1>4, <2>1, <2>2 DEF StraddlesAt, Trailed
<1>5. CASE N > 0 /\ items[N].char # Begin
  <2>1. \A b \in 1 .. N : items[b].char = Begin => b < N
    BY <1>0, <1>5
  <2>2. \A b \in 1 .. N : b < N /\ (\A k \in b + 1 .. N : White(k)) => White(N)
    BY <1>0
  <2> QED BY <1>0, <1>5, <2>1, <2>2 DEF StraddlesAt, Led
<1> QED BY <1>0, <1>3, <1>4, <1>5

\* Nothing is open and nothing skipped: where a fragment begins, or at the start.
LEMMA LastEnded ==
  ASSUME SplitTypeOK, AllEnded, NEW m \in Nat, m = N + 1, ~EndsNothing(m)
  PROVE  Trailed(m)
<1>0. N \in Nat /\ m - 1 = N
  BY DEF SplitTypeOK, N
<1>1. PICK j \in 1 .. N : Belongs(j) /\ \A d \in j + 1 .. N : ~(Mark(d) \/ Breaks(d))
  BY <1>0 DEF EndsNothing
<1> DEFINE B == {k \in 1 .. N : Belongs(k)}
<1>2. PICK l \in B : \A k \in B : k <= l
  <2>1. B \in SUBSET (0 .. N) /\ B # {}
    BY <1>1
  <2> HIDE DEF B
  <2>2. Max(B) \in B /\ \A k \in B : Max(B) >= k
    BY <1>0, <2>1, Extremes
  <2>3. \A k \in B : k \in Int
    BY <2>1
  <2> QED BY <2>2, <2>3
<1>3. \A k \in l + 1 .. N : ~Belongs(k) /\ k \in j + 1 .. N
  BY <1>0, <1>1, <1>2
<1>4. PICK d \in l + 1 .. N : Separates(d)
  BY <1>2 DEF AllEnded
<1>5. White(d)
  BY <1>1, <1>3, <1>4 DEF Separates
<1>6. d \in 1 .. m - 1 /\ \A k \in d + 1 .. m - 1 : k \in l + 1 .. N
  BY <1>0, <1>2, <1>4
<1> QED BY <1>3, <1>5, <1>6 DEF Trailed

(* A mark makes a field of nothing exactly if no field is in progress and   *)
(* no white space before it has been skipped: that is, where there is       *)
(* nothing since the last mark, straddling marks excepted.                  *)
LEMMA MarkEnds ==
  ASSUME PassInv, NEW m \in Nat, m = N + 1
  PROVE  (EndsNothing(m) <=> ~StraddlesAt(m)) <=> ~pass.open /\ pass.skip # "white"
<1>0. SplitTypeOK /\ N \in Nat /\ m - 1 = N /\ SkipRight(m) /\ pass.skip \in Skipping
  BY DEF PassInv, SplitTypeOK, N
<1>1. CASE pass.open
  <2>1. OpenSpan(pass.from, pass.to)
    BY <1>1 DEF PassInv
  <2> DEFINE f == pass.from
  <2>2. f \in 1 .. N /\ Belongs(f) /\ \A d \in f + 1 .. N : ~Separates(d)
    BY <2>1 DEF OpenSpan
  <2> HIDE DEF f
  <2>3. ~EndsNothing(m)
    BY <1>0, <2>2 DEF EndsNothing, Separates
  <2>4. ~Trailed(m)
    <3>1. SUFFICES ASSUME NEW d \in 1 .. N, White(d), \A k \in d + 1 .. N : ~Belongs(k) PROVE FALSE
      BY <1>0 DEF Trailed
    <3>2. d # f /\ ~(f > d)
      BY <1>0, <2>2, <3>1, Kinds
    <3>3. d \in f + 1 .. N
      BY <2>2, <3>2
    <3> QED BY <2>2, <3>1, <3>3 DEF Separates
  <2> QED BY <1>0, <1>1, <2>3, <2>4, StraddlesBy
<1>2. CASE ~pass.open /\ pass.skip = "white"
  <2>1. m > 1 /\ White(m - 1) /\ (EndsNothing(m) => Led(m)) /\ items[m - 1].char # Begin
    BY <1>0, <1>2 DEF SkipRight, White, MaySplit
  <2> QED BY <1>0, <1>2, <2>1, StraddlesBy
<1>3. CASE ~pass.open /\ pass.skip = "after"
  <2>1. EndsNothing(m) /\ ~Led(m)
    BY <1>0, <1>3 DEF SkipRight
  <2> QED BY <1>0, <1>3, <2>1, StraddlesBy
<1>4. CASE ~pass.open /\ pass.skip = "no"
  <2>1. m > 1 => items[m - 1].char = Begin
    BY <1>0, <1>4 DEF SkipRight
  <2>2. EndsNothing(m) \/ Trailed(m)
    BY <1>0, <1>4, LastEnded DEF PassInv
  <2>3. m <= 1 => EndsNothing(m)
    BY <1>0 DEF EndsNothing
  <2>4. EndsNothing(m) \in BOOLEAN /\ StraddlesAt(m) \in BOOLEAN
    BY DEF EndsNothing, StraddlesAt
  <2> QED BY <1>0, <1>4, <2>1, <2>2, <2>3, <2>4, StraddlesBy
<1> QED BY <1>0, <1>1, <1>2, <1>3, <1>4 DEF Skipping

\* What is skipped stays right.
LEMMA SkipNext ==
  ASSUME PassInv, NEW x, Step(x), NEW m \in Nat, m = N + 1
  PROVE  SkipRight(m + 1)'
<1>0. /\ SplitTypeOK /\ N \in Nat /\ m - 1 = N /\ m + 1 - 1 = m /\ m > 0 /\ items'[m] = x
      /\ SkipRight(m) /\ pass.skip \in Skipping /\ Given(x)
  BY SameItems DEF PassInv, Step, SplitTypeOK
<1>1. /\ White(m)' => ~Belongs(m)' /\ ~Mark(m)' /\ ~Breaks(m)' /\ x.char # Begin
      /\ Mark(m)' => ~Belongs(m)' /\ x.char # Begin
  BY <1>0 DEF White, Mark, Belongs, Breaks, MaySplit, IsWhite, IsMark
<1>2. SkipRight(m + 1)' <=>
        /\ pass'.skip = "white" => ~pass'.open /\ White(m)' /\ (EndsNothing(m + 1)' => Led(m + 1)')
        /\ pass'.skip = "after" => ~pass'.open /\ EndsNothing(m + 1)' /\ ~Led(m + 1)'
        /\ pass'.skip = "no" => x.char = Begin \/ (pass'.open /\ ~White(m)')
  BY <1>0 DEF SkipRight
<1>3. CASE White(m)' /\ pass.skip = "no"
  <2>1. pass'.open = FALSE /\ pass'.skip = "white"
    BY <1>0, <1>3, PassNext
  <2>2. EndsNothing(m) => Led(m)
    <3>1. m > 1
      BY <1>0, <1>1, <1>3 DEF Step
    <3>2. CASE items[m - 1].char = Begin
      <4>1. \A k \in N + 1 .. N : FALSE
        BY <1>0
      <4> QED BY <1>0, <3>1, <3>2, <4>1 DEF Led
    <3>3. CASE pass.open
      BY <1>0, <1>3, <3>3, MarkEnds, StraddlesBy
    <3> QED BY <1>0, <1>3, <3>1, <3>2, <3>3 DEF SkipRight
  <2> QED BY <1>0, <1>1, <1>2, <1>3, <2>1, <2>2, EndsNothingNext, LedNext
<1>4. CASE White(m)' /\ pass.skip # "no"
  <2>1. pass' = pass
    BY <1>0, <1>4, PassNext
  <2> QED BY <1>0, <1>1, <1>2, <1>4, <2>1, EndsNothingNext, LedNext DEF SkipRight
<1>5. CASE Mark(m)'
  <2>1. pass'.open = FALSE /\ pass'.skip = "after"
    BY <1>0, <1>5, PassNext DEF SkipRight
  <2>2. ~White(m)'
    BY <1>1, <1>5
  <2> QED BY <1>0, <1>1, <1>2, <1>5, <2>1, <2>2, EndsNothingNext, LedNext
<1>6. CASE x.char = Begin /\ ~Belongs(m)'
  BY <1>0, <1>2, <1>6, PassNext
<1>7. CASE Belongs(m)'
  BY <1>0, <1>1, <1>2, <1>7, PassNext
<1> QED BY <1>0, <1>3, <1>4, <1>5, <1>6, <1>7, ItemKinds DEF Belongs

-----------------------------------------------------------------------------
(* The field in progress, and the fields.                                   *)

\* All fields have ended, or do where the next item begins one.
LEMMA AllEndedNext ==
  ASSUME PassInv, NEW x, Step(x), NEW m \in Nat, m = N + 1, ~pass.open \/ Separates(m)'
  PROVE  \A k \in 1 .. N : Belongs(k) => \E d \in k + 1 .. m : Separates(d)'
<1>0. SplitTypeOK /\ N \in Nat /\ Given(x)
  BY SameItems DEF PassInv, Step, SplitTypeOK, N
<1>1. SUFFICES ASSUME NEW k \in 1 .. N, Belongs(k) PROVE \E d \in k + 1 .. m : Separates(d)'
  OBVIOUS
<1>2. CASE Separates(m)'
  <2>1. m \in k + 1 .. m
    BY <1>0
  <2> QED BY <1>2, <2>1
<1>3. CASE ~pass.open
  <2>1. PICK d \in k + 1 .. N : Separates(d)
    BY <1>1, <1>3 DEF PassInv, AllEnded
  <2>2. d \in 1 .. N /\ d \in k + 1 .. m
    BY <1>0, <2>1
  <2> QED BY <1>0, <2>1, <2>2, SameItems
<1> QED BY <1>2, <1>3

\* The span of the field in progress, after an item of no field and after one more of its own.
LEMMA SpanNext ==
  ASSUME SplitTypeOK, NEW x, Given(x), NEW m \in Nat, m = N + 1, NEW f, NEW t, OpenSpan(f, t), ~Separates(m)'
  PROVE  IF Belongs(m)' THEN OpenSpan(f, m)' ELSE OpenSpan(f, t)'
<1>1. /\ f \in 1 .. N /\ t \in f .. N /\ Belongs(f) /\ Belongs(t)
      /\ \A d \in f + 1 .. N : ~Separates(d)
      /\ \A k \in t + 1 .. N : ~Belongs(k)
      /\ \A k \in 1 .. f - 1 : Belongs(k) => \E d \in k + 1 .. f : Separates(d)
      /\ N \in Nat
  BY SameItems DEF OpenSpan
<1>2. /\ f \in 1 .. m /\ t \in f .. m /\ t \in 1 .. N /\ m \in f .. m
      /\ \A d \in f + 1 .. m : d = m \/ (d \in f + 1 .. N /\ d \in 1 .. N)
      /\ \A k \in t + 1 .. m : k = m \/ (k \in t + 1 .. N /\ k \in 1 .. N)
      /\ \A k \in 1 .. f - 1 : k \in 1 .. N /\ \A d \in k + 1 .. f : d \in 1 .. N
      /\ \A k \in m + 1 .. m : FALSE
  BY <1>1
<1>3. N' = m
  BY SameItems
<1>4. ASSUME NEW q \in {t, m}
      PROVE OpenSpan(f, q)' <=>
        /\ f \in 1 .. m /\ q \in f .. m /\ Belongs(f)' /\ Belongs(q)'
        /\ \A d \in f + 1 .. m : ~Separates(d)'
        /\ \A k \in q + 1 .. m : ~Belongs(k)'
        /\ \A k \in 1 .. f - 1 : Belongs(k)' => \E d \in k + 1 .. f : Separates(d)'
  BY <1>3 DEF OpenSpan
<1>5. Belongs(f)' /\ Belongs(t)' /\ \A d \in f + 1 .. m : ~Separates(d)'
  BY <1>1, <1>2, SameItems
<1>6. \A k \in 1 .. f - 1 : Belongs(k)' => \E d \in k + 1 .. f : Separates(d)'
  BY <1>1, <1>2, SameItems
<1>7. \A k \in t + 1 .. m : k # m => ~Belongs(k)'
  BY <1>1, <1>2, SameItems
<1>8. CASE Belongs(m)'
  BY <1>2, <1>4, <1>5, <1>6, <1>8
<1>9. CASE ~Belongs(m)'
  BY <1>2, <1>4, <1>5, <1>6, <1>7, <1>9
<1> QED BY <1>8, <1>9

\* The item by itself, where all others have ended.
LEMMA SpanBegun ==
  ASSUME SplitTypeOK, NEW x, Given(x), NEW m \in Nat, m = N + 1, Belongs(m)',
         \A k \in 1 .. N : Belongs(k) => \E d \in k + 1 .. m : Separates(d)'
  PROVE  OpenSpan(m, m)'
<1>1. N' = m /\ m \in 1 .. m /\ m \in m .. m /\ \A k \in m + 1 .. m : FALSE
  BY SameItems
<1>2. \A k \in 1 .. m - 1 : k \in 1 .. N
  BY SameItems
<1>3. \A k \in 1 .. m - 1 : Belongs(k)' => \E d \in k + 1 .. m : Separates(d)'
  BY <1>2, SameItems
<1> QED BY <1>1, <1>3 DEF OpenSpan

\* The field in progress stays right.
LEMMA OpenNext ==
  ASSUME PassInv, NEW x, Step(x), NEW m \in Nat, m = N + 1
  PROVE  (IF pass.open THEN OpenSpan(pass.from, pass.to) ELSE AllEnded)'
<1>0. /\ SplitTypeOK /\ N \in Nat /\ N' = m /\ m > 0 /\ items'[m] = x /\ Given(x)
      /\ pass.open \in BOOLEAN /\ pass.skip \in Skipping
      /\ \A k : k \in 1 .. m <=> k \in 1 .. N \/ k = m
  <2>1. SplitTypeOK /\ Given(x) /\ pass.open \in BOOLEAN /\ pass.skip \in Skipping
    BY DEF PassInv, Step, SplitTypeOK
  <2>2. N \in Nat /\ N' = m /\ m > 0 /\ items'[m] = x
    BY <2>1, SameItems
  <2>3. \A k : k \in 1 .. m <=> k \in 1 .. N \/ k = m
    BY <2>2
  <2> QED BY <2>1, <2>2, <2>3
<1>1. Separates(m)' <=> White(m)' \/ Mark(m)' \/ Breaks(m)'
  BY DEF Separates
<1>2. ASSUME ~Belongs(m)', Separates(m)' \/ ~pass.open PROVE AllEnded'
  <2>1. AllEnded' <=> \A k \in 1 .. m : Belongs(k)' => \E d \in k + 1 .. m : Separates(d)'
    BY <1>0 DEF AllEnded
  <2> QED BY <1>0, <1>2, <2>1, AllEndedNext, SameItems
<1>3. CASE White(m)' \/ Mark(m)'
  <2>1. ~Belongs(m)' /\ pass'.open = FALSE
    <3>1. CASE White(m)'
      <4>1. pass.skip = "white" \/ pass.skip = "after" => ~pass.open
        BY DEF PassInv, SkipRight
      <4>2. ~Belongs(m)'
        BY <1>0, <3>1 DEF White, Belongs, MaySplit
      <4> QED BY <1>0, <3>1, <4>1, <4>2, PassNext DEF Skipping
    <3>2. CASE Mark(m)'
      <4>1. pass.skip = "white" => ~pass.open
        BY DEF PassInv, SkipRight
      <4>2. ~Belongs(m)'
        BY <1>0, <3>2 DEF Mark, Belongs, MaySplit
      <4> QED BY <1>0, <3>2, <4>1, <4>2, PassNext
    <3> QED BY <1>3, <3>1, <3>2
  <2> QED BY <1>1, <1>2, <1>3, <2>1
<1>4. CASE x.char = Begin /\ ~Belongs(m)'
  <2>1. /\ pass'.open = (pass.open /\ ~Breaks(m)')
        /\ pass'.open => pass'.from = pass.from /\ pass'.to = pass.to
    BY <1>0, <1>4, PassNext
  <2>2. CASE ~pass'.open
    BY <1>0, <1>1, <1>2, <1>4, <2>1, <2>2 DEF Breaks
  <2>3. CASE pass'.open
    <3>1. PICK f, t : f = pass.from /\ t = pass.to
      OBVIOUS
    <3>2. OpenSpan(f, t) /\ ~Separates(m)' /\ pass'.from = f /\ pass'.to = t
      BY <1>0, <1>1, <1>4, <2>1, <2>3, <3>1 DEF PassInv, White, Mark, MaySplit
    <3>3. OpenSpan(f, t)'
      BY <1>0, <1>4, <3>2, SpanNext
    <3> QED BY <2>3, <3>2, <3>3
  <2> QED BY <2>2, <2>3
<1>5. CASE Belongs(m)'
  <2>1. ~White(m)' /\ ~Mark(m)' /\ (Separates(m)' <=> Breaks(m)')
    BY <1>0, <1>1, <1>5 DEF White, Mark, Belongs, MaySplit
  <2>2. CASE pass.open /\ ~Breaks(m)'
    <3>1. PICK f, t : f = pass.from /\ t = pass.to
      OBVIOUS
    <3>2. OpenSpan(f, t) /\ ~Separates(m)'
      BY <2>1, <2>2, <3>1 DEF PassInv
    <3>3. OpenSpan(f, m)'
      BY <1>0, <1>5, <3>2, SpanNext
    <3>4. pass'.open = TRUE /\ pass'.from = f /\ pass'.to = m
      BY <1>0, <1>5, <2>2, <3>1, PassNext
    <3> QED BY <3>3, <3>4
  <2>3. CASE ~(pass.open /\ ~Breaks(m)')
    <3>1. OpenSpan(m, m)'
      BY <1>0, <1>5, <2>1, <2>3, AllEndedNext, SpanBegun
    <3>2. pass'.open = TRUE /\ pass'.from = m /\ pass'.to = m
      BY <1>0, <1>5, <2>3, PassNext
    <3> QED BY <3>1, <3>2
  <2> QED BY <2>2, <2>3
<1> QED BY <1>0, <1>3, <1>4, <1>5, ItemKinds DEF Belongs

\* Where the fields that there are begin.
LEMMA MadeWithin ==
  ASSUME PassInv
  PROVE  \A v \in Made(FieldsMade) : v[1] \in 1 .. N
<1>1. Made(FieldsMade) = Spans \cup Nothings /\ DOMAIN items = 1 .. N
  BY DEF PassInv, FieldsRight, SplitTypeOK, N
<1>2. \A v \in Spans : v[1] \in 1 .. N
  BY <1>1, SpansAre
<1>3. \A v \in Nothings : v[1] \in 1 .. N
  BY <1>1 DEF Nothings
<1> QED BY <1>1, <1>2, <1>3

\* The fields stay right.
LEMMA FieldsRightNext ==
  ASSUME PassInv, NEW x, Step(x), NEW m \in Nat, m = N + 1
  PROVE  FieldsRight'
<1>0. /\ SplitTypeOK /\ N \in Nat /\ m - 1 = N /\ items'[m] = x /\ Given(x)
      /\ Made(FieldsMade) = Spans \cup Nothings /\ Ordered(FieldsMade)
      /\ pass.open \in BOOLEAN
  BY SameItems DEF PassInv, FieldsRight, Step, SplitTypeOK
<1>1. FieldsMade \in Seq(Nat \X Nat) /\ \A v \in Made(FieldsMade) : v[1] < m
  <2>1. pass \in PassStates
    BY <1>0 DEF SplitTypeOK, PassStates
  <2>2. EmitOpen(pass) \in PassStates
    BY <2>1, EmitTyped
  <2>3. FieldsMade \in Seq(Nat \X Nat)
    BY <2>2 DEF FieldsMade, PassStates
  <2> QED BY <1>0, <2>3, MadeWithin
<1>2. FieldsRight' <=> Made(FieldsMade') = Spans' \cup Nothings' /\ Ordered(FieldsMade')
  BY DEF FieldsRight, Made, Ordered
<1>3. Nothings' = IF Mark(m)' /\ (EndsNothing(m) # StraddlesAt(m)) THEN Nothings \cup {<<m, N>>} ELSE Nothings
  BY <1>0, NothingsNext
<1>4. ~Belongs(m)' => Spans' = Spans
  BY <1>0, SpansKept
<1>5. CASE ~Belongs(m)' /\ ~Mark(m)'
  <2>1. FieldsMade' = FieldsMade
    BY <1>0, <1>5, ItemKinds, PassNext DEF Belongs
  <2> QED BY <1>0, <1>2, <1>3, <1>4, <1>5, <2>1
<1>6. CASE Mark(m)'
  <2>1. ~Belongs(m)'
    BY <1>6 DEF Mark, Belongs, MaySplit
  <2>2. EndsNothing(m) \in BOOLEAN /\ StraddlesAt(m) \in BOOLEAN
    BY DEF EndsNothing, StraddlesAt
  <2>3. (EndsNothing(m) # StraddlesAt(m)) <=> ~(pass.skip = "white" \/ pass.open)
    BY <2>2, MarkEnds
  <2>4. FieldsMade' = IF pass.skip = "white" \/ pass.open THEN FieldsMade ELSE Append(FieldsMade, <<m, N>>)
    BY <1>0, <1>6, PassNext
  <2>5. CASE pass.skip = "white" \/ pass.open
    BY <1>0, <1>2, <1>3, <1>4, <2>1, <2>3, <2>4, <2>5
  <2>6. CASE ~(pass.skip = "white" \/ pass.open)
    <3>1. <<m, N>> \in Nat \X Nat /\ <<m, N>>[1] = m
      BY <1>0
    <3>2. Made(FieldsMade') = Made(FieldsMade) \cup {<<m, N>>} /\ Ordered(FieldsMade')
      BY <1>0, <1>1, <2>4, <2>6, <3>1, MadeNext
    <3> QED BY <1>0, <1>2, <1>3, <1>4, <1>6, <2>1, <2>3, <2>6, <3>2
  <2> QED BY <2>5, <2>6
<1>7. CASE Belongs(m)'
  <2>0. ~White(m)' /\ ~Mark(m)' /\ Nothings' = Nothings /\ (Separates(m)' <=> Breaks(m)')
    BY <1>0, <1>3, <1>7 DEF White, Mark, Belongs, MaySplit, Separates
  <2>1. CASE pass.open /\ ~Breaks(m)'
    <3> DEFINE p == pass.fields
    <3>1. PICK f, t : f = pass.from /\ t = pass.to
      OBVIOUS
    <3>2. OpenSpan(f, t) /\ f \in Nat /\ t \in Nat /\ f <= t /\ p \in Seq(Nat \X Nat)
      BY <1>0, <2>1, <3>1 DEF PassInv, SplitTypeOK, OpenSpan
    <3>3. Spans' = (Spans \ {<<f, t>>}) \cup {<<f, m>>}
      BY <1>0, <1>7, <2>0, <2>1, <3>2, SpanGrows
    <3>4. FieldsMade = Append(p, <<f, t>>) /\ FieldsMade' = Append(p, <<f, m>>)
      BY <1>0, <1>7, <2>1, <3>1, PassNext DEF FieldsMade, EmitOpen, SplitTypeOK
    <3> HIDE DEF p
    <3>5. /\ Made(FieldsMade) = Made(p) \cup {<<f, t>>}
          /\ Ordered(p) /\ \A v \in Made(p) : v[1] < f
      <4>1. <<f, t>> \in Nat \X Nat /\ <<f, t>>[1] = f
        BY <3>2
      <4> QED BY <1>0, <3>2, <3>4, <4>1, MadeNext
    <3>6. Made(FieldsMade') = Made(p) \cup {<<f, m>>} /\ Ordered(FieldsMade')
      <4>1. <<f, m>> \in Nat \X Nat /\ <<f, m>>[1] = f
        BY <3>2
      <4> QED BY <3>2, <3>4, <3>5, <4>1, MadeNext
    <3>7. Made(p) = (Spans \ {<<f, t>>}) \cup Nothings
      <4>1. <<f, t>> \notin Made(p)
        BY <3>2, <3>5
      <4>2. <<f, t>> \notin Nothings
        <5>1. \A k \in DOMAIN items : <<k, k - 1>> # <<f, t>>
          BY <1>0, <3>2 DEF SplitTypeOK
        <5> QED BY <5>1 DEF Nothings
      <4>3. Made(p) \cup {<<f, t>>} = Spans \cup Nothings
        BY <1>0, <3>5
      <4> QED BY <4>1, <4>2, <4>3
    <3> QED BY <1>2, <2>0, <3>3, <3>6, <3>7
  <2>2. CASE ~(pass.open /\ ~Breaks(m)')
    <3>1. Spans' = Spans \cup {<<m, m>>}
      BY <1>0, <1>7, <2>0, <2>2, AllEndedNext, SpanBegins
    <3>2. FieldsMade' = Append(FieldsMade, <<m, m>>)
      BY <1>0, <1>7, <2>2, PassNext
    <3>3. <<m, m>> \in Nat \X Nat /\ <<m, m>>[1] = m
      OBVIOUS
    <3>4. Made(FieldsMade') = Made(FieldsMade) \cup {<<m, m>>} /\ Ordered(FieldsMade')
      BY <1>0, <1>1, <3>2, <3>3, MadeNext
    <3> QED BY <1>0, <1>2, <2>0, <3>1, <3>4
  <2> QED BY <2>1, <2>2
<1> QED BY <1>5, <1>6, <1>7

-----------------------------------------------------------------------------
\* What TLC checks, of what the pass keeps.
LEMMA InvGivesFields == ASSUME PassInv PROVE FieldsDefined
<1>1. /\ Made(FieldsMade) = Spans \cup Nothings /\ Ordered(FieldsMade)
      /\ DOMAIN items = 1 .. N /\ N \in Nat
  BY DEF PassInv, FieldsRight, SplitTypeOK, N
<1> DEFINE E == {<<m, m - 1>> : m \in {k \in DOMAIN items : Mark(k) /\ EndsNothing(k)}}
<1>2. Fields = Spans \cup E
  BY DEF Fields, Spans
<1>3. \A k : k \in DOMAIN items => (<<k, k - 1>> \in E <=> Mark(k) /\ EndsNothing(k))
  BY <1>1
<1>4. \A k : k \in DOMAIN items => (<<k, k - 1>> \in Nothings <=> Mark(k) /\ (EndsNothing(k) # StraddlesAt(k)))
  BY <1>1 DEF Nothings
<1>5. \A k \in DOMAIN items : <<k, k - 1>> \notin Spans
  <2>1. \A k \in DOMAIN items : k \in Int /\ ~(k <= k - 1)
    BY <1>1
  <2>2. \A w \in Spans : w[1] <= w[2]
    BY DEF Spans, IsField
  <2> QED BY <2>1, <2>2
<1>6. \A k : EndsNothing(k) \in BOOLEAN /\ StraddlesAt(k) \in BOOLEAN
  BY DEF EndsNothing, StraddlesAt
<1>7. ASSUME ~Straddles PROVE Nothings = E
  BY <1>6, <1>7 DEF Nothings, Straddles
<1>8. ASSUME Straddles PROVE Spans \cup Nothings # Fields
  <2>1. PICK k \in DOMAIN items : Mark(k) /\ StraddlesAt(k)
    BY <1>8 DEF Straddles
  <2>2. <<k, k - 1>> \in E <=> <<k, k - 1>> \notin Nothings
    BY <1>3, <1>4, <1>6, <2>1
  <2>3. <<k, k - 1>> \notin Spans
    BY <1>5
  <2> HIDE DEF E
  <2> QED BY <1>2, <2>2, <2>3
<1>9. (Spans \cup Nothings = Fields) = ~Straddles
  <2>1. Straddles \in BOOLEAN
    BY DEF Straddles
  <2> HIDE DEF E
  <2> QED BY <1>2, <1>7, <1>8, <2>1
<1> QED BY <1>1, <1>9 DEF FieldsDefined, Made, Ordered

\* PassInv is inductive.
LEMMA PassInit == ASSUME SplitInit PROVE PassInv
<1>1. /\ items = <<>> /\ N = 0 /\ DOMAIN items = {} /\ pass = NoFields
      /\ FieldsMade = <<>> /\ ~pass.open /\ pass.skip = "no"
  BY DEF SplitInit, N, FieldsMade, EmitOpen, NoFields
<1>2. SplitTypeOK
  BY <1>1 DEF SplitInit, SplitTypeOK, NoFields, Skipping
<1>3. Spans = {} /\ Nothings = {} /\ Made(FieldsMade) = {} /\ Ordered(FieldsMade)
  BY <1>1 DEF Spans, Nothings, Made, Ordered
<1>4. AllEnded /\ SkipRight(N + 1)
  BY <1>1 DEF AllEnded, SkipRight
<1> QED BY <1>1, <1>2, <1>3, <1>4 DEF PassInv, FieldsRight

LEMMA PassInvNext == ASSUME PassInv, [SplitNext]_fieldVars PROVE PassInv'
<1>1. SplitTypeOK
  BY DEF PassInv
<1>2. CASE UNCHANGED fieldVars
  <2>1. N' = N /\ FieldsMade' = FieldsMade /\ items' = items /\ delims' = delims /\ pass' = pass
    BY <1>2 DEF fieldVars, N, FieldsMade
  <2>2. SplitTypeOK'
    BY <1>1, <2>1 DEF SplitTypeOK
  <2>3. \A k : /\ White(k)' <=> White(k) 
               /\ Mark(k)' <=> Mark(k)
               /\ Breaks(k)' <=> Breaks(k)
               /\ Belongs(k)' <=> Belongs(k)
               /\ Separates(k)' <=> Separates(k)
    BY <2>1 DEF White, Mark, Breaks, Belongs, Separates, MaySplit
  <2>4. \A k : (EndsNothing(k)' <=> EndsNothing(k)) /\ (Led(k)' <=> Led(k))
    BY <2>1, <2>3 DEF EndsNothing, Led
  <2>5. \A k : StraddlesAt(k)' <=> StraddlesAt(k)
    BY <2>1, <2>3, <2>4 DEF StraddlesAt
  <2>6. \A f, t : /\ IsField(f, t)' <=> IsField(f, t)
                  /\ OpenSpan(f, t)' <=> OpenSpan(f, t)
    BY <2>1, <2>3 DEF IsField, OpenSpan, N
  <2>7. Spans' = Spans /\ Nothings' = Nothings
    <3>1. Spans' = Spans
      BY <2>1, <2>6 DEF Spans
    <3>2. \A k : (EndsNothing(k)' # StraddlesAt(k)') <=> (EndsNothing(k) # StraddlesAt(k))
      <4>1. \A k : EndsNothing(k) \in BOOLEAN /\ StraddlesAt(k) \in BOOLEAN
        BY DEF EndsNothing, StraddlesAt
      <4>2. \A k : EndsNothing(k)' \in BOOLEAN /\ StraddlesAt(k)' \in BOOLEAN
        BY DEF EndsNothing, StraddlesAt
      <4> QED BY <2>4, <2>5, <4>1, <4>2
    <3>3. {k \in (DOMAIN items)' : Mark(k)' /\ (EndsNothing(k)' # StraddlesAt(k)')}
          = {k \in DOMAIN items : Mark(k) /\ (EndsNothing(k) # StraddlesAt(k))}
      BY <2>1, <2>3, <3>2
    <3> QED BY <3>1, <3>3 DEF Nothings
  <2>8. FieldsRight'
    BY <2>1, <2>7 DEF PassInv, FieldsRight
  <2>9. (IF pass.open THEN OpenSpan(pass.from, pass.to) ELSE AllEnded)'
    BY <2>1, <2>3, <2>6 DEF PassInv, AllEnded
  <2>10. SkipRight(N + 1)'
    BY <2>1, <2>3, <2>4 DEF PassInv, SkipRight
  <2> QED BY <2>2, <2>8, <2>9, <2>10 DEF PassInv
<1>3. CASE SplitNext
  <2>1. PICK x : Step(x)
    BY <1>1, <1>3, NextSteps
  <2>2. PICK m \in Nat : m = N + 1
    BY <1>1 DEF SplitTypeOK, N
  <2>3. SplitTypeOK' /\ FieldsRight' /\ (IF pass.open THEN OpenSpan(pass.from, pass.to) ELSE AllEnded)'
    BY <1>1, <2>1, <2>2, StepTyped, FieldsRightNext, OpenNext
  <2>4. SkipRight(m + 1)' /\ N' = m
    BY <1>1, <2>1, <2>2, SkipNext, SameItems DEF Step
  <2>5. SkipRight(N + 1)'
    BY <2>4 DEF SkipRight, Led, EndsNothing
  <2> QED BY <2>3, <2>5 DEF PassInv
<1> QED BY <1>2, <1>3

(* The fields, their bounds and what is skipped are always well formed      *)
(* (field_split).                                                           *)
THEOREM FieldsTyped == SplitSpec => []SplitTypeOK
<1>1. PassInv => SplitTypeOK
  BY DEF PassInv
<1> QED BY <1>1, PassInit, PassInvNext, PTL DEF SplitSpec

(* Whatever the fragments of a word and whatever IFS, its fields are those  *)
(* of the definition of field splitting, in their order, except exactly     *)
(* where a mark and the white space before it straddle fragments            *)
(* (field_split).                                                           *)
THEOREM FieldsAreDefined == SplitSpec => []FieldsDefined
BY PassInit, PassInvNext, InvGivesFields, PTL DEF SplitSpec
=============================================================================
