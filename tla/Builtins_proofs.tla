--------------------------- MODULE Builtins_proofs ---------------------------
(***************************************************************************)
(* Proofs about getopts and read, for any option strings, arguments and    *)
(* input: what the calls give is what the arguments, or the line, mean.    *)
(* Both invariants say how much of that the calls have given so far.       *)
(***************************************************************************)
EXTENDS Getopts, Reading, Numbers, SequenceTheorems, TLAPS

-----------------------------------------------------------------------------
(* getopts.                                                                 *)

\* Which words are arguments: every other one of those that take the next.
LEMMA Arguments ==
  ASSUME OptionsTypeOK
  PROVE  /\ ~IsArgument(1)
         /\ \A i \in 1 .. Len(argv) : IsArgument(i + 1) <=> Open(argv[i]) /\ ~IsArgument(i)
<1> DEFINE C(i) == {0} \cup {k \in 1 .. i - 1 : ~Open(argv[k])}
           L(i) == Max(C(i))
<1>1. ASSUME NEW i PROVE IsArgument(i) <=> (i - 1 - L(i)) % 2 = 1
  BY DEF IsArgument
<1>2. ASSUME NEW i \in Nat, i # 0
      PROVE  L(i) \in C(i) /\ L(i) \in 0 .. i - 1 /\ \A k \in C(i) : L(i) >= k
  <2>1. C(i) \in SUBSET (0 .. i - 1) /\ C(i) # {} /\ i - 1 \in Nat
    BY <1>2
  <2> HIDE DEF C
  <2>2. L(i) \in C(i) /\ \A k \in C(i) : L(i) >= k
    BY <2>1, Extremes
  <2> QED BY <2>1, <2>2
<1>3. ~IsArgument(1)
  <2>1. L(1) = 0
    BY <1>2
  <2> HIDE DEF L
  <2>2. (1 - 1 - L(1)) % 2 = 0
    BY <2>1
  <2> QED BY <1>1, <2>2
<1>4. ASSUME NEW i \in 1 .. Len(argv), NEW j \in Nat, j = i + 1
      PROVE  IsArgument(j) <=> Open(argv[i]) /\ ~IsArgument(i)
  <2>0. i \in Nat /\ i # 0 /\ j # 0
    BY <1>4 DEF OptionsTypeOK
  <2>1. /\ IsArgument(j) <=> (j - 1 - L(j)) % 2 = 1
        /\ IsArgument(i) <=> (i - 1 - L(i)) % 2 = 1
    <3> HIDE DEF L
    <3> QED BY <1>1
  <2>2. CASE Open(argv[i])
    <3>1. C(j) = C(i)
      BY <1>4, <2>0, <2>2
    <3>2. L(j) = L(i) /\ L(i) \in 0 .. i - 1
      BY <3>1, <2>0, <1>2
    <3> HIDE DEF L, C
    <3>3. (j - 1 - L(j)) % 2 = 1 <=> ~((i - 1 - L(i)) % 2 = 1)
      BY <3>2, <2>0, <1>4
    <3> QED BY <3>3, <2>1, <2>2
  <2>3. CASE ~Open(argv[i])
    <3>1. i \in C(j)
      BY <1>4, <2>0, <2>3
    <3>2. L(j) \in 0 .. j - 1 /\ L(j) >= i
      BY <3>1, <2>0, <1>2
    <3> HIDE DEF L, C
    <3>3. ~((j - 1 - L(j)) % 2 = 1)
      BY <3>2, <2>0, <1>4
    <3> QED BY <3>3, <2>1, <2>3
  <2> QED BY <2>2, <2>3
<1>5. \A i \in 1 .. Len(argv) : i + 1 \in Nat
  BY DEF OptionsTypeOK
<1> QED BY <1>3, <1>4, <1>5

\* The first operand, if there is one.
LEMMA Operands ==
  ASSUME OptionsTypeOK
  PROVE  /\ Operand \in 1 .. Len(argv) + 1
         /\ \A i \in 1 .. Operand - 1 : i \in DOMAIN argv /\ (IsArgument(i) \/ IsOption(argv[i]))
         /\ Operand \in DOMAIN argv => ~IsOption(argv[Operand]) /\ ~IsArgument(Operand)
<1> DEFINE O == {Len(argv) + 1} \cup {i \in DOMAIN argv : ~IsArgument(i) /\ ~IsOption(argv[i])}
<1>1. O \in SUBSET (0 .. Len(argv) + 1) /\ O # {} /\ Len(argv) + 1 \in Nat
  BY DEF OptionsTypeOK
<1>2. Operand = Min(O)
  BY DEF Operand
<1>3. Operand \in O /\ \A k \in O : Operand <= k
  <2> HIDE DEF O
  <2> QED BY <1>1, <1>2, Extremes
<1>4. DOMAIN argv = 1 .. Len(argv)
  BY DEF OptionsTypeOK
<1>5. Operand \in 1 .. Len(argv) + 1
  BY <1>3, <1>4 DEF OptionsTypeOK
<1>6. ASSUME NEW i \in 1 .. Operand - 1
      PROVE  i \in DOMAIN argv /\ (IsArgument(i) \/ IsOption(argv[i]))
  <2>1. i \in DOMAIN argv /\ i \notin O
    BY <1>3, <1>4, <1>5
  <2> QED BY <2>1
<1>7. Operand \in DOMAIN argv => ~IsOption(argv[Operand]) /\ ~IsArgument(Operand)
  BY <1>3, <1>4, <1>5
<1> QED BY <1>5, <1>6, <1>7

LEMMA OptionsAre ==
  \A o : o \in Options <=> /\ o = Place(o.ind, o.pos)
                           /\ o.ind \in 1 .. Operand - 1 /\ ~IsArgument(o.ind)
                           /\ o.pos \in Letters(argv[o.ind])
BY DEF Options, Place

Located(o) ==
  \/ o \in Options
  \/ o.ind = Operand /\ o.pos \in Nat \ {0} /\ o = Place(o.ind, o.pos)

Passed(o) == {q \in Options : Precedes(q, o)}

\* Where the next letter is: no word is left out, and no argument begun.
LEMMA AtLocated ==
  ASSUME OptionsTypeOK, Located(Place(ind, pos))
  PROVE  /\ At = Place(ind, pos) /\ ind \in 1 .. Len(argv) + 1
         /\ AtOption(At.ind) <=> At \in Options
         /\ At \notin Options => ind = Operand
<1> DEFINE o == Place(ind, pos)
<1>0. o.ind = ind /\ o.pos = pos
  BY DEF Place
<1>1. CASE o \in Options
  <2>1. ind \in 1 .. Operand - 1 /\ ~IsArgument(ind) /\ pos \in Letters(argv[ind])
    BY <1>0, <1>1, OptionsAre
  <2>2. ind \in DOMAIN argv /\ IsOption(argv[ind])
    BY <2>1, Operands
  <2>3. AtOption(ind) /\ ind \in 1 .. Len(argv)
    BY <2>2 DEF AtOption, OptionsTypeOK
  <2>4. argv[ind] \in Seq(STRING)
    BY <2>3 DEF OptionsTypeOK
  <2>5. pos < Len(argv[ind])
    BY <2>1, <2>4 DEF Letters
  <2>6. pos \in Nat /\ Len(argv[ind]) \in Nat
    BY <2>4 DEF OptionsTypeOK
  <2>7. At = o
    BY <2>5, <2>6 DEF At
  <2> QED BY <2>7, <2>3, <1>1, <1>0
<1>2. CASE o \notin Options
  <2>1. ind = Operand
    BY <1>0, <1>2 DEF Located
  <2>2. ~AtOption(ind)
    BY <2>1, Operands DEF AtOption
  <2>3. At = o
    BY <2>2 DEF At
  <2>4. ind \in 1 .. Len(argv) + 1
    BY <2>1, Operands
  <2> QED BY <2>1, <2>2, <2>3, <2>4, <1>0, <1>2
<1> QED BY <1>1, <1>2

\* A word that is no argument and comes no later than the first operand is
\* read from its first letter on.
LEMMA WordBegins ==
  ASSUME OptionsTypeOK, NEW i \in 1 .. Operand, ~(i <= Len(argv) /\ IsArgument(i))
  PROVE  Located(Place(i, 1))
<1>0. Place(i, 1).ind = i /\ Place(i, 1).pos = 1
  BY DEF Place
<1>1. CASE i = Operand
  BY <1>0, <1>1 DEF Located
<1>2. CASE i # Operand
  <2>1. i \in 1 .. Operand - 1
    BY <1>2, Operands
  <2>2. i \in DOMAIN argv /\ ~IsArgument(i) /\ IsOption(argv[i])
    BY <2>1, Operands DEF OptionsTypeOK
  <2>3. argv[i] \in Seq(STRING)
    BY <2>2 DEF OptionsTypeOK
  <2>4. 1 \in Letters(argv[i])
    BY <2>2, <2>3 DEF Letters, IsOption
  <2> QED BY <1>0, <2>1, <2>2, <2>4, OptionsAre DEF Located
<1> QED BY <1>1, <1>2

\* Once the last letter of a word is read, all of its options are passed.
LEMMA WordPassed ==
  ASSUME OptionsTypeOK, NEW o \in Options, NEW i \in {o.ind + 1, o.ind + 2}, NEW p \in Nat \ {0},
         \A q \in Letters(argv[o.ind]) : q <= o.pos,
         i = o.ind + 2 => IsArgument(o.ind + 1),
         i <= Operand
  PROVE  Passed(Place(i, p)) = Passed(o) \cup {o} \cup {q \in Options : q.ind = i /\ q.pos < p}
<1>0. Place(i, p).ind = i /\ Place(i, p).pos = p
  BY DEF Place
<1>1. o.ind \in Nat /\ o.pos \in Nat
  BY OptionsAre, Operands DEF Letters
<1>2. ASSUME NEW q \in Options
      PROVE  Precedes(q, Place(i, p)) <=> Precedes(q, o) \/ q = o \/ (q.ind = i /\ q.pos < p)
  <2>1. /\ q = Place(q.ind, q.pos) /\ q.ind \in Nat /\ q.pos \in Nat
        /\ q.pos \in Letters(argv[q.ind]) /\ ~IsArgument(q.ind)
    BY OptionsAre, Operands DEF Letters
  <2>2. o = Place(o.ind, o.pos)
    BY OptionsAre
  <2>3. q.ind = o.ind => q.pos <= o.pos
    BY <2>1
  <2>4. q = o <=> q.ind = o.ind /\ q.pos = o.pos
    BY <2>1, <2>2
  <2>5. q.ind # o.ind + 1 \/ i = o.ind + 1
    BY <2>1
  <2> QED BY <1>0, <1>1, <2>1, <2>3, <2>4, <2>5 DEF Precedes
<1> QED BY <1>2 DEF Passed

\* What the calls gave are the results of the options passed, in their order.
InOrder(s) == \A m, n \in DOMAIN s : m < n => Precedes(s[m].at, s[n].at)
Results(s) == {s[n] : n \in DOMAIN s}
Progress ==
  /\ Located(Place(ind, pos))
  /\ seen = <<>> => pos = 1
  /\ InOrder(seen) /\ Results(seen) = {Result(o) : o \in Passed(Place(ind, pos))}
  /\ ~more => ind = Operand
OptionsInv == OptionsTypeOK /\ (start = 1 => Progress)

ListGiven == OptionsTypeOK /\ ind = 1 /\ pos = 1 /\ seen = <<>> /\ more
LEMMA Given == ListGiven => Progress
<1> SUFFICES ASSUME ListGiven PROVE Progress
  OBVIOUS
<1> USE DEF ListGiven
<1>1. 1 \in 1 .. Operand
  BY Operands
<1>2. Located(Place(1, 1))
  BY <1>1, WordBegins, Arguments
<1>3. Passed(Place(1, 1)) = {}
  <2>1. ASSUME NEW o \in Options PROVE ~Precedes(o, Place(1, 1))
    <3>1. o.ind \in 1 .. Operand - 1 /\ o.pos \in Nat \ {0}
      BY OptionsAre DEF Letters
    <3> QED BY <3>1, Operands DEF Precedes, Place
  <2> QED BY <2>1 DEF Passed
<1>4. InOrder(seen) /\ Results(seen) = {}
  BY DEF InOrder, Results
<1> QED BY <1>2, <1>3, <1>4 DEF Progress

LEMMA SameList ==
  ASSUME spec' = spec, argv' = argv
  PROVE  /\ Options' = Options /\ Operand' = Operand
         /\ \A o : Result(o)' = Result(o)
BY DEF Options, Operand, Result, IsArgument, Open, Letters, Takes, Known, Place

\* A call that reads an option and goes on behind it makes progress.
LEMMA OptionRead ==
  ASSUME OptionsInv, start = 1, NEW o, o = Place(ind, pos), o \in Options,
         spec' = spec, argv' = argv,
         NEW q, q = Place(ind', pos'), Located(q), Passed(q) = Passed(o) \cup {o},
         seen' = Append(seen, Result(o)), more'
  PROVE  Progress'
<1>1. Options' = Options /\ Operand' = Operand /\ \A r : Result(r)' = Result(r)
  BY SameList
<1>2. Located(Place(ind, pos))' /\ Passed(Place(ind, pos))' = Passed(o) \cup {o}
  BY <1>1 DEF Located, Passed, Place, Precedes
<1>3. seen \in Seq([at : [ind : Nat, pos : Nat], name : Values, arg : Values])
  BY DEF OptionsInv, OptionsTypeOK
<1>4. Result(o).at = o
  BY DEF Result
<1>5. InOrder(seen) /\ Results(seen) = {Result(r) : r \in Passed(o)}
  BY DEF OptionsInv, Progress
<1>6. DOMAIN seen' = 1 .. Len(seen) + 1 /\ DOMAIN seen = 1 .. Len(seen) /\ Len(seen) \in Nat
  BY <1>3
<1>7. \A n \in 1 .. Len(seen) : seen'[n] = seen[n]
  BY <1>3
<1>8. seen'[Len(seen) + 1] = Result(o)
  BY <1>3
<1>9. ASSUME NEW n \in 1 .. Len(seen) PROVE Precedes(seen[n].at, o)
  <2>1. seen[n] \in Results(seen)
    BY <1>6 DEF Results
  <2>2. PICK r \in Passed(o) : seen[n] = Result(r)
    BY <2>1, <1>5
  <2>3. seen[n].at = r
    BY <2>2 DEF Result
  <2> QED BY <2>3 DEF Passed
<1>10. InOrder(seen')
  <2>1. SUFFICES ASSUME NEW m \in 1 .. Len(seen) + 1, NEW n \in 1 .. Len(seen) + 1, m < n
                 PROVE  Precedes(seen'[m].at, seen'[n].at)
    BY <1>6 DEF InOrder
  <2>2. m \in 1 .. Len(seen)
    BY <2>1, <1>6
  <2>3. CASE n = Len(seen) + 1
    BY <2>2, <2>3, <1>4, <1>7, <1>8, <1>9
  <2>4. CASE n # Len(seen) + 1
    <3>1. n \in 1 .. Len(seen)
      BY <2>4, <1>6
    <3> QED BY <3>1, <2>1, <2>2, <1>5, <1>6, <1>7 DEF InOrder
  <2> QED BY <2>3, <2>4
<1>11. Results(seen') = Results(seen) \cup {Result(o)}
  <2>1. Results(seen') = {seen'[n] : n \in 1 .. Len(seen) + 1}
    BY <1>6 DEF Results
  <2>2. Results(seen) = {seen[n] : n \in 1 .. Len(seen)}
    BY <1>6 DEF Results
  <2>3. 1 .. Len(seen) + 1 = (1 .. Len(seen)) \cup {Len(seen) + 1}
    BY <1>6
  <2> QED BY <2>1, <2>2, <2>3, <1>7, <1>8
<1>12. {Result(r) : r \in Passed(o) \cup {o}} = {Result(r) : r \in Passed(o)} \cup {Result(o)}
  OBVIOUS
<1>13. seen' # <<>>
  BY <1>6
<1>14. Results(seen)' = Results(seen') /\ InOrder(seen)' <=> InOrder(seen')
  BY DEF Results, InOrder, Precedes
<1>15. {Result(r) : r \in Passed(Place(ind, pos))}' = {Result(r) : r \in Passed(o) \cup {o}}
  BY <1>1, <1>2
<1> QED BY <1>2, <1>5, <1>10, <1>11, <1>12, <1>13, <1>14, <1>15 DEF Progress

\* A letter that a call reads is one of its word's.
LEMMA LetterRead ==
  ASSUME OptionsTypeOK
  PROVE  /\ At.ind \in Nat \ {0} /\ At.pos \in Nat \ {0} /\ At = Place(At.ind, At.pos)
         /\ AtOption(At.ind) => /\ argv[At.ind] \in Seq(STRING) /\ At.ind \in DOMAIN argv
                                /\ At.pos + 1 \in DOMAIN argv[At.ind] /\ Letter \in STRING
<1>1. At \in {Place(ind, pos), Place(ind + 1, 1)}
  BY DEF At
<1>2. At.ind \in Nat \ {0} /\ At.pos \in Nat \ {0} /\ At = Place(At.ind, At.pos)
  BY <1>1 DEF Place, OptionsTypeOK
<1>3. ASSUME AtOption(At.ind)
      PROVE  /\ argv[At.ind] \in Seq(STRING) /\ At.ind \in DOMAIN argv
             /\ At.pos + 1 \in DOMAIN argv[At.ind] /\ Letter \in STRING
  <2>1. At.ind \in DOMAIN argv /\ IsOption(argv[At.ind])
    BY <1>3 DEF AtOption
  <2>2. argv[At.ind] \in Seq(STRING)
    BY <2>1 DEF OptionsTypeOK
  <2>3. Len(argv[At.ind]) > 1 /\ Len(argv[At.ind]) \in Nat
    BY <2>1, <2>2 DEF IsOption
  <2>4. At.pos < Len(argv[At.ind])
    <3>1. CASE At = Place(ind + 1, 1)
      BY <3>1, <2>3 DEF Place
    <3>2. CASE At # Place(ind + 1, 1)
      <4>1. At = Place(ind, pos) /\ ~(AtOption(ind) /\ pos >= Len(argv[ind]))
        BY <3>2 DEF At
      <4>2. At.ind = ind /\ At.pos = pos
        BY <4>1 DEF Place
      <4> QED BY <4>1, <4>2, <1>3, <2>3 DEF OptionsTypeOK
    <3> QED BY <3>1, <3>2
  <2>5. At.pos + 1 \in DOMAIN argv[At.ind]
    BY <2>2, <2>3, <2>4, <1>2
  <2> QED BY <2>1, <2>2, <2>5 DEF Letter
<1> QED BY <1>2, <1>3

LEMMA CallTyped ==
  ASSUME OptionsTypeOK, Call
  PROVE  OptionsTypeOK'
<1> DEFINE R == [at : [ind : Nat, pos : Nat], name : Values, arg : Values]
<1>1. spec' = spec /\ argv' = argv /\ start' = start
  BY DEF Call
<1>2. SUFFICES /\ ind' \in Nat \ {0} /\ pos' \in Nat \ {0} /\ name' \in Values
               /\ optarg' \in Values /\ more' \in BOOLEAN /\ seen' \in Seq(R)
  BY <1>1 DEF OptionsTypeOK
<1>3. NotSet \in Values /\ Question \in Values
  BY DEF Values
<1>4. optarg \in Values /\ seen \in Seq(R) /\ At \in [ind : Nat, pos : Nat]
  BY LetterRead DEF OptionsTypeOK, Place
<1>5. ASSUME NEW n \in Values, NEW a \in Values, Gives(n, a)
      PROVE  name' \in Values /\ more' \in BOOLEAN /\ seen' \in Seq(R)
  <2>1. [at |-> At, name |-> n, arg |-> a] \in R
    BY <1>4
  <2> QED BY <2>1, <1>4, <1>5 DEF Gives
<1>6. ASSUME NEW i \in Nat \ {0}, NEW p \in Nat \ {0}, Goto(i, p)
      PROVE  ind' \in Nat \ {0} /\ pos' \in Nat \ {0}
  BY <1>6 DEF Goto
<1>7. /\ At.ind \in Nat \ {0} /\ At.pos \in Nat \ {0}
      /\ At.ind + 1 \in Nat \ {0} /\ At.ind + 2 \in Nat \ {0} /\ At.pos + 1 \in Nat \ {0}
  BY LetterRead
<1>8. NextLetter => ind' \in Nat \ {0} /\ pos' \in Nat \ {0}
  BY <1>6, <1>7 DEF NextLetter
<1>9. AtOption(At.ind) => <<Letter>> \in Values
  BY LetterRead DEF Values
<1>10. CASE NoOption
  BY <1>3, <1>4, <1>6, <1>7, <1>10 DEF NoOption
<1>11. CASE WrongLetter
  BY <1>3, <1>4, <1>5, <1>8, <1>9, <1>11 DEF WrongLetter
<1>12. CASE Flag
  BY <1>3, <1>5, <1>8, <1>9, <1>12 DEF Flag
<1>13. CASE ArgumentWithin
  <2>1. optarg' \in Values
    <3>1. ASSUME NEW w \in Seq(STRING), NEW p \in Nat \ {0} PROVE SubSeq(w, p + 2, Len(w)) \in Seq(STRING)
      OBVIOUS
    <3>2. optarg' = SubSeq(argv[At.ind], At.pos + 2, Len(argv[At.ind])) /\ AtOption(At.ind)
      BY <1>13 DEF ArgumentWithin
    <3> QED BY <3>1, <3>2, LetterRead DEF Values
  <2>2. AtOption(At.ind) /\ Goto(At.ind + 1, 1) /\ Gives(<<Letter>>, optarg')
    BY <1>13 DEF ArgumentWithin
  <2>3. name' \in Values /\ more' \in BOOLEAN /\ seen' \in Seq(R)
    BY <2>1, <2>2, <1>5, <1>9
  <2> QED BY <2>1, <2>2, <2>3, <1>6, <1>7
<1>14. CASE ArgumentApart
  <2>1. optarg' \in Values
    <3>1. At.ind + 1 \in DOMAIN argv
      BY <1>14, LetterRead, <1>7 DEF ArgumentApart, OptionsTypeOK
    <3> QED BY <3>1, <1>14 DEF ArgumentApart, OptionsTypeOK, Values
  <2>2. AtOption(At.ind) /\ Goto(At.ind + 2, 1) /\ Gives(<<Letter>>, optarg')
    BY <1>14 DEF ArgumentApart, PastArgument
  <2>3. name' \in Values /\ more' \in BOOLEAN /\ seen' \in Seq(R)
    BY <2>1, <2>2, <1>5, <1>9
  <2> QED BY <2>1, <2>2, <2>3, <1>6, <1>7
<1>15. CASE NoArgument
  BY <1>3, <1>4, <1>5, <1>6, <1>7, <1>15 DEF NoArgument
<1> QED BY <1>10, <1>11, <1>12, <1>13, <1>14, <1>15 DEF Call

\* What is known of the option that a call reads.
Reads(o) ==
  /\ o \in Options /\ o = Place(ind, pos) /\ At = o /\ ind \in 1 .. Operand - 1 /\ ~IsArgument(ind)
  /\ ind \in DOMAIN argv /\ argv[ind] \in Seq(STRING) /\ IsOption(argv[ind])
  /\ pos \in Letters(argv[ind]) /\ pos + 1 \in 1 .. Len(argv[ind])
  /\ Letter = argv[ind][pos + 1]
  /\ IsLast <=> pos + 1 = Len(argv[ind])
  /\ ind \in Nat \ {0} /\ pos \in Nat \ {0} /\ Operand \in 1 .. Len(argv) + 1 /\ Len(argv) \in Nat

LEMMA OptionReads ==
  ASSUME OptionsTypeOK, Located(Place(ind, pos)), AtOption(At.ind)
  PROVE  Reads(Place(ind, pos))
<1> DEFINE o == Place(ind, pos)
<1>1. At = o /\ o \in Options
  BY AtLocated
<1>2. o.ind = ind /\ o.pos = pos
  BY DEF Place
<1>3. ind \in 1 .. Operand - 1 /\ ~IsArgument(ind) /\ pos \in Letters(argv[ind])
  BY <1>1, <1>2, OptionsAre
<1>4. ind \in DOMAIN argv /\ IsOption(argv[ind]) /\ Operand \in 1 .. Len(argv) + 1
  BY <1>3, Operands
<1>5. argv[ind] \in Seq(STRING) /\ ind \in Nat \ {0} /\ pos \in Nat \ {0} /\ Len(argv) \in Nat
  BY <1>4 DEF OptionsTypeOK
<1>6. pos + 1 \in 1 .. Len(argv[ind]) /\ Len(argv[ind]) \in Nat
  BY <1>3, <1>5 DEF Letters
<1>7. Letter = argv[ind][pos + 1]
  BY <1>1, <1>2 DEF Letter
<1>8. IsLast <=> pos + 1 = Len(argv[ind])
  <2>1. IsLast <=> pos + 1 >= Len(argv[ind])
    BY <1>1, <1>2 DEF IsLast
  <2> QED BY <2>1, <1>5, <1>6
<1> QED BY <1>1, <1>3, <1>4, <1>5, <1>6, <1>7, <1>8 DEF Reads

\* The next letter of the same word.
LEMMA NextInWord ==
  ASSUME NEW o, Reads(o), ~Takes(Letter), ~IsLast
  PROVE  Located(Place(ind, pos + 1)) /\ Passed(Place(ind, pos + 1)) = Passed(o) \cup {o}
<1> DEFINE q == Place(ind, pos + 1)
           word == argv[ind]
<1> USE DEF Reads
<1>1. q.ind = ind /\ q.pos = pos + 1 /\ o.ind = ind /\ o.pos = pos
  BY DEF Place
<1>2. pos + 1 \in Letters(word)
  <2>1. pos + 1 \in 1 .. Len(word) - 1 /\ Len(word) \in Nat
    OBVIOUS
  <2>2. \A r \in 1 .. pos - 1 : ~Takes(word[r + 1])
    BY DEF Letters
  <2>3. \A r \in 1 .. (pos + 1) - 1 : r \in 1 .. pos - 1 \/ r = pos
    OBVIOUS
  <2>4. ~Takes(word[pos + 1])
    OBVIOUS
  <2>5. \A r \in 1 .. (pos + 1) - 1 : ~Takes(word[r + 1])
    BY <2>2, <2>3, <2>4
  <2> QED BY <2>1, <2>5 DEF Letters
<1>3. q \in Options
  BY <1>1, <1>2, OptionsAre
<1>4. ASSUME NEW r \in Options PROVE Precedes(r, q) <=> Precedes(r, o) \/ r = o
  <2>1. r = Place(r.ind, r.pos) /\ r.ind \in Nat /\ r.pos \in Nat
    BY OptionsAre DEF Letters
  <2>2. r = o <=> r.ind = ind /\ r.pos = pos
    BY <2>1, <1>1
  <2> QED BY <2>1, <2>2, <1>1 DEF Precedes
<1> QED BY <1>3, <1>4 DEF Located, Passed

\* The first letter of the next word, or of the one behind the argument.
LEMMA NextWord ==
  ASSUME OptionsTypeOK, NEW o, Reads(o), NEW i \in {ind + 1, ind + 2},
         \A q \in Letters(argv[ind]) : q <= pos,
         i = ind + 2 => IsArgument(ind + 1),
         i <= Operand, ~(i <= Len(argv) /\ IsArgument(i))
  PROVE  Located(Place(i, 1)) /\ Passed(Place(i, 1)) = Passed(o) \cup {o}
<1>1. o \in Options /\ o.ind = ind /\ o.pos = pos /\ ind \in Nat \ {0} /\ Operand \in Nat
  BY DEF Reads, Place
<1>2. i \in 1 .. Operand /\ 1 \in Nat \ {0}
  BY <1>1
<1>3. Located(Place(i, 1))
  BY <1>2, WordBegins
<1>4. Passed(Place(i, 1)) = Passed(o) \cup {o} \cup {q \in Options : q.ind = i /\ q.pos < 1}
  <2>1. /\ i \in {o.ind + 1, o.ind + 2} /\ i = o.ind + 2 => IsArgument(o.ind + 1)
        /\ \A q \in Letters(argv[o.ind]) : q <= o.pos
    BY <1>1
  <2> QED BY <1>1, <1>2, <2>1, WordPassed
<1>5. \A q \in Options : ~(q.pos < 1)
  BY OptionsAre DEF Letters
<1> QED BY <1>3, <1>4, <1>5

\* A word whose letters a call has read to the end is followed by an argument
\* just if that call wants one.
LEMMA AfterWord ==
  ASSUME OptionsTypeOK, NEW o, Reads(o), Takes(Letter) \/ IsLast
  PROVE  /\ \A q \in Letters(argv[ind]) : q <= pos
         /\ ind < Len(argv) => (IsArgument(ind + 1) <=> Takes(Letter) /\ IsLast)
<1> USE DEF Reads
<1> DEFINE word == argv[ind]
<1>1. ASSUME NEW q \in Letters(word) PROVE q <= pos
  <2>1. q \in 1 .. Len(word) - 1 /\ Len(word) \in Nat
    BY DEF Letters
  <2>2. CASE IsLast
    BY <2>1, <2>2
  <2>3. CASE Takes(Letter)
    <3>1. SUFFICES ASSUME q > pos PROVE FALSE
      BY <2>1
    <3>2. pos \in 1 .. q - 1
      BY <3>1, <2>1
    <3>3. ~Takes(word[pos + 1])
      BY <3>2 DEF Letters
    <3> QED BY <3>3, <2>3
  <2> QED BY <2>2, <2>3
<1>2. Takes(Letter) /\ IsLast <=> Open(word)
  <2>1. ASSUME Takes(Letter), IsLast PROVE Open(word)
    <3>1. Len(word) - 1 = pos /\ word[Len(word)] = Letter
      BY <2>1
    <3> QED BY <3>1, <2>1 DEF Open
  <2>2. ASSUME Open(word) PROVE Takes(Letter) /\ IsLast
    <3>1. Len(word) - 1 \in Letters(word) /\ Takes(word[Len(word)]) /\ Len(word) \in Nat
      BY <2>2 DEF Open
    <3>2. Len(word) - 1 <= pos
      BY <3>1, <1>1
    <3>3. IsLast
      BY <3>1, <3>2
    <3> QED BY <3>1, <3>3
  <2> QED BY <2>1, <2>2
<1>3. ASSUME ind < Len(argv) PROVE IsArgument(ind + 1) <=> Takes(Letter) /\ IsLast
  <2>1. ind \in 1 .. Len(argv)
    BY <1>3
  <2>2. IsArgument(ind + 1) <=> Open(argv[ind]) /\ ~IsArgument(ind)
    BY <2>1, Arguments
  <2> QED BY <2>2, <1>2
<1> QED BY <1>1, <1>3

\* A call leaves the next letter, or the first one of the next word, behind it.
LEMMA NextLetterReads ==
  ASSUME OptionsTypeOK, NEW o, Reads(o), ~Takes(Letter), NextLetter
  PROVE  LET q == Place(ind', pos') IN Located(q) /\ Passed(q) = Passed(o) \cup {o}
<1>1. At.ind = ind /\ At.pos = pos
  BY DEF Reads, Place
<1>2. CASE ~IsLast
  <2>1. ind' = ind /\ pos' = pos + 1
    BY <1>1, <1>2 DEF NextLetter, Goto
  <2> QED BY <2>1, <1>2, NextInWord
<1>3. CASE IsLast
  <2>1. ind' = ind + 1 /\ pos' = 1
    BY <1>1, <1>3 DEF NextLetter, Goto
  <2>2. \A q \in Letters(argv[ind]) : q <= pos
    BY <1>3, AfterWord
  <2>3. ind < Len(argv) => ~IsArgument(ind + 1)
    BY <1>3, AfterWord
  <2>4. ind + 1 <= Operand /\ ~(ind + 1 <= Len(argv) /\ IsArgument(ind + 1)) /\ ind + 1 # ind + 2
    BY <2>3 DEF Reads
  <2> QED BY <2>1, <2>2, <2>4, NextWord
<1> QED BY <1>2, <1>3

\* What a call gives is the result of the option that it reads.
LEMMA CallProgress ==
  ASSUME OptionsInv, start = 1, Call
  PROVE  Progress'
<1> DEFINE o == Place(ind, pos)
           q == Place(ind', pos')
<1>1. OptionsTypeOK /\ Progress /\ Located(o) /\ spec' = spec /\ argv' = argv
  BY DEF OptionsInv, Progress, Call
<1>2. o.ind = ind /\ o.pos = pos
  BY DEF Place
<1>3. CASE NoOption
  <2>1. At = o /\ ind = Operand
    BY <1>1, <1>3, AtLocated DEF NoOption
  <2>2. ind' = ind /\ pos' = pos /\ seen' = seen
    BY <1>2, <1>3, <2>1 DEF NoOption, Goto
  <2>3. Options' = Options /\ Operand' = Operand /\ \A r : Result(r)' = Result(r)
    BY <1>1, SameList
  <2>4. Located(Place(ind, pos))' /\ Passed(Place(ind, pos))' = Passed(o)
    BY <1>1, <2>2, <2>3 DEF Located, Passed, Place, Precedes
  <2>5. {Result(r) : r \in Passed(Place(ind, pos))}' = {Result(r) : r \in Passed(o)}
    BY <2>3, <2>4
  <2>6. (seen = <<>> => pos = 1) /\ InOrder(seen) /\ Results(seen) = {Result(r) : r \in Passed(o)}
    BY <1>1 DEF Progress
  <2>7. InOrder(seen)' <=> InOrder(seen)
    BY <2>2 DEF InOrder, Precedes
  <2>8. Results(seen)' = Results(seen)
    BY <2>2 DEF Results
  <2>9. (~more => ind = Operand)'
    BY <2>1, <2>2, <2>3
  <2> QED BY <2>2, <2>4, <2>5, <2>6, <2>7, <2>8, <2>9 DEF Progress
<1>4. CASE ~NoOption
  <2>1. AtOption(At.ind) /\ Reads(o)
    BY <1>1, <1>4, OptionReads DEF Call, WrongLetter, Flag, ArgumentWithin, ArgumentApart, NoArgument
  <2> USE DEF Reads
  <2>2. At.ind = ind /\ At.pos = pos
    BY <2>1, <1>2
  <2>3. ~Known(Letter) => ~Takes(Letter)
    BY DEF Takes
  <2> DEFINE Moves == Located(q) /\ Passed(q) = Passed(o) \cup {o}
             Answers(n, a) == Gives(n, a) /\ Result(o) = [at |-> o, name |-> n, arg |-> a]
  <2>4. ASSUME Moves, NEW n, NEW a, Answers(n, a) PROVE Progress'
    <3>1. seen' = Append(seen, Result(o)) /\ more'
      BY <2>1, <2>4 DEF Gives
    <3> QED BY <3>1, <2>1, <2>4, <1>1, OptionRead
  <2>5. CASE WrongLetter
    <3>1. Moves
      BY <2>1, <2>3, <2>5, <1>1, NextLetterReads DEF WrongLetter
    <3>2. Answers(Question, NotSet)
      BY <2>1, <2>5, <1>2 DEF WrongLetter, Result
    <3> QED BY <3>1, <3>2, <2>4
  <2>6. CASE Flag
    <3>1. Moves
      BY <2>1, <2>6, <1>1, NextLetterReads DEF Flag
    <3>2. Answers(<<Letter>>, NotSet)
      BY <2>1, <2>6, <1>2 DEF Flag, Result
    <3> QED BY <3>1, <3>2, <2>4
  <2>7. CASE ArgumentWithin
    <3>1. Takes(Letter) /\ ~IsLast /\ ind' = ind + 1 /\ pos' = 1
      BY <2>2, <2>7 DEF ArgumentWithin, Goto
    <3>2. \A r \in Letters(argv[ind]) : r <= pos
      BY <3>1, <2>1, <1>1, AfterWord
    <3>3. ind < Len(argv) => ~IsArgument(ind + 1)
      BY <3>1, <2>1, <1>1, AfterWord
    <3>4. ind + 1 <= Operand /\ ~(ind + 1 <= Len(argv) /\ IsArgument(ind + 1)) /\ ind + 1 # ind + 2
      BY <3>3, <2>1
    <3>5. Moves
      BY <3>1, <3>2, <3>4, <2>1, <1>1, NextWord
    <3>6. Answers(<<Letter>>, SubSeq(argv[ind], pos + 2, Len(argv[ind])))
      BY <3>1, <2>1, <2>2, <2>3, <2>7, <1>2 DEF ArgumentWithin, Result
    <3> QED BY <3>5, <3>6, <2>4
  <2>8. CASE ArgumentApart
    <3>1. Takes(Letter) /\ IsLast /\ ind < Len(argv) /\ ind' = ind + 2 /\ pos' = 1
      BY <2>2, <2>8 DEF ArgumentApart, PastArgument, Goto
    <3>2. \A r \in Letters(argv[ind]) : r <= pos
      BY <3>1, <2>1, <1>1, AfterWord
    <3>3. IsArgument(ind + 1)
      BY <3>1, <2>1, <1>1, AfterWord
    <3>4. Operand # ind + 1
      <4>1. DOMAIN argv = 1 .. Len(argv) /\ Len(argv) \in Nat
        BY <1>1 DEF OptionsTypeOK
      <4> QED BY <4>1, <3>1, <3>3, <2>1, <1>1, Operands
    <3>5. ~(ind + 2 <= Len(argv) /\ IsArgument(ind + 2))
      <4>1. ind + 1 \in 1 .. Len(argv) /\ (ind + 1) + 1 = ind + 2
        BY <3>1, <2>1
      <4>2. ~IsArgument((ind + 1) + 1)
        BY <4>1, <3>3, <1>1, Arguments
      <4> QED BY <4>1, <4>2
    <3>6. ind + 2 <= Operand
      BY <3>4, <2>1
    <3>7. Moves
      BY <3>1, <3>2, <3>3, <3>5, <3>6, <2>1, <1>1, NextWord
    <3>8. Answers(<<Letter>>, argv[ind + 1])
      BY <3>1, <2>1, <2>2, <2>3, <2>8, <1>2 DEF ArgumentApart, Result
    <3> QED BY <3>7, <3>8, <2>4
  <2>9. CASE NoArgument
    <3>1. Takes(Letter) /\ IsLast /\ ind >= Len(argv) /\ ind' = ind + 1 /\ pos' = pos
      BY <2>2, <2>9 DEF NoArgument, Goto
    <3>2. ind + 1 = Operand /\ ind = Len(argv)
      BY <3>1, <2>1
    <3>3. \A r \in Letters(argv[ind]) : r <= pos
      BY <3>1, <2>1, <1>1, AfterWord
    <3>4. Located(q)
      BY <3>1, <3>2, <2>1 DEF Located, Place
    <3>5. Passed(q) = Passed(o) \cup {o}
      <4>1. Passed(q) = Passed(o) \cup {o} \cup {r \in Options : r.ind = ind + 1 /\ r.pos < pos}
        <5>1. o.ind + 1 # o.ind + 2 /\ ind + 1 \in {o.ind + 1, o.ind + 2} /\ ind + 1 <= Operand
          BY <3>2, <2>1, <1>2
        <5>2. \A r \in Letters(argv[o.ind]) : r <= o.pos
          BY <3>3, <1>2
        <5> QED BY <5>1, <5>2, <3>1, <2>1, <1>1, <1>2, WordPassed
      <4>2. \A r \in Options : r.ind # ind + 1
        BY <3>2, <2>1, OptionsAre
      <4> QED BY <4>1, <4>2
    <3>6. Answers(Question, NotSet)
      BY <3>1, <3>2, <2>1, <2>2, <2>9, <1>2 DEF NoArgument, Result
    <3> QED BY <3>4, <3>5, <3>6, <2>4
  <2> QED BY <1>4, <2>5, <2>6, <2>7, <2>8, <2>9 DEF Call
<1> QED BY <1>3, <1>4

LEMMA OptionsInvariant == OptionsSpec => []OptionsInv
<1>1. OptionsInit => OptionsInv
  <2> SUFFICES ASSUME OptionsInit PROVE OptionsInv
    OBVIOUS
  <2>1. OptionsTypeOK
    BY DEF OptionsInit, OptionsTypeOK, Values
  <2>2. ListGiven
    BY <2>1 DEF OptionsInit, ListGiven
  <2> QED BY <2>1, <2>2, Given DEF OptionsInv
<1>2. (ListGiven => Progress)'
  BY Given, PTL
<1>3. OptionsInv /\ [OptionsNext]_optionVars => OptionsInv'
  <2> SUFFICES ASSUME OptionsInv, [OptionsNext]_optionVars PROVE OptionsInv'
    OBVIOUS
  <2>1. OptionsTypeOK
    BY DEF OptionsInv
  <2>2. ASSUME NEW s \in Specs, StartOver(s) PROVE OptionsInv'
    <3>1. OptionsTypeOK'
      <4>1. s \in Seq(STRING) /\ <<>> \in Seq(Seq(STRING))
        BY OptionsAssumption
      <4>2. <<>> \in Seq([at : [ind : Nat, pos : Nat], name : Values, arg : Values])
        OBVIOUS
      <4> QED BY <4>1, <4>2, <2>1, <2>2 DEF StartOver, OptionsTypeOK
    <3>2. start' = 1 => ListGiven'
      BY <3>1, <2>2 DEF StartOver, ListGiven
    <3> QED BY <3>1, <3>2, <1>2 DEF OptionsInv
  <2>3. ASSUME NEW w \in OptionWords, GiveWord(w) PROVE OptionsInv'
    <3>1. OptionsTypeOK'
      <4>1. w \in Seq(STRING)
        BY OptionsAssumption
      <4>2. argv' \in Seq(Seq(STRING))
        BY <4>1, <2>1, <2>3 DEF GiveWord, OptionsTypeOK
      <4> QED BY <4>2, <2>1, <2>3 DEF GiveWord, OptionsTypeOK
    <3>2. start' = 1 => ListGiven'
      BY <3>1, <2>3 DEF GiveWord, ListGiven, OptionsInv, Progress
    <3> QED BY <3>1, <3>2, <1>2 DEF OptionsInv
  <2>4. CASE Call
    <3>1. start' = start
      BY <2>4 DEF Call
    <3> QED BY <3>1, <2>1, <2>4, CallTyped, CallProgress DEF OptionsInv
  <2>5. CASE UNCHANGED optionVars
    <3> USE <2>5 DEF optionVars
    <3>1. OptionsTypeOK' <=> OptionsTypeOK
      BY DEF OptionsTypeOK
    <3>2. Options' = Options /\ Operand' = Operand /\ \A o : Result(o)' = Result(o)
      BY SameList
    <3>3. Located(Place(ind, pos))' <=> Located(Place(ind, pos))
      BY <3>2 DEF Located, Place
    <3>4. Passed(Place(ind, pos))' = Passed(Place(ind, pos))
      BY <3>2 DEF Passed, Place, Precedes
    <3>5. {Result(o) : o \in Passed(Place(ind, pos))}' = {Result(o) : o \in Passed(Place(ind, pos))}
      BY <3>2, <3>4
    <3>6. (InOrder(seen)' <=> InOrder(seen)) /\ Results(seen)' = Results(seen)
      BY DEF InOrder, Results, Precedes
    <3>7. Progress' <=> Progress
      BY <3>2, <3>3, <3>5, <3>6 DEF Progress
    <3> QED BY <3>1, <3>7 DEF OptionsInv
  <2> QED BY <2>2, <2>3, <2>4, <2>5 DEF OptionsNext
<1> QED BY <1>1, <1>3, PTL DEF OptionsSpec

\* The values of the builtin's variables are of their types.
THEOREM OptionsTyped == OptionsSpec => []OptionsTypeOK
<1>1. OptionsInv => OptionsTypeOK
  BY DEF OptionsInv
<1> QED BY <1>1, OptionsInvariant, PTL

(* A loop of getopts finds the options of the arguments in order, with      *)
(* their arguments, and ends with OPTIND at the first operand, for every    *)
(* option string and every list (builtin_getopts).                          *)
THEOREM OptionsAreFound == OptionsSpec => []GetoptsFinds
<1>1. OptionsInv => GetoptsFinds
  <2> SUFFICES ASSUME OptionsInv, start = 1 PROVE
        LET passed == {o \in Options : Precedes(o, At)}
        IN  /\ \A m, n \in DOMAIN seen : m < n => Precedes(seen[m].at, seen[n].at)
            /\ {seen[n] : n \in DOMAIN seen} = {Result(o) : o \in passed}
            /\ ~more => passed = Options /\ ind = Operand
    BY DEF GetoptsFinds, NoPositionLeft
  <2> DEFINE o == Place(ind, pos)
  <2>1. OptionsTypeOK /\ Progress
    BY DEF OptionsInv
  <2>2. At = o
    BY <2>1, AtLocated DEF Progress
  <2>3. {q \in Options : Precedes(q, At)} = Passed(o)
    BY <2>2 DEF Passed
  <2>4. ~more => Passed(o) = Options
    <3>1. ASSUME ind = Operand, NEW q \in Options PROVE Precedes(q, o)
      <4>1. q.ind \in 1 .. Operand - 1 /\ Operand \in 1 .. Len(argv) + 1 /\ Len(argv) \in Nat
        BY <3>1, <2>1, OptionsAre, Operands DEF OptionsTypeOK
      <4>2. o.ind = ind
        BY DEF Place
      <4> QED BY <4>1, <4>2, <3>1 DEF Precedes
    <3> QED BY <2>1, <3>1 DEF Passed, Progress
  <2> QED BY <2>1, <2>3, <2>4 DEF Progress, InOrder, Results
<1> QED BY <1>1, OptionsInvariant, PTL

-----------------------------------------------------------------------------
(* read: the line.                                                          *)

LineTyped ==
  /\ stdin \in Seq(InputChars) /\ taken \in 0 .. Len(stdin) /\ from \in 0 .. taken
  /\ reader \in Readers \cup {NoReader}
  /\ kept \in Seq(1 .. Len(stdin)) /\ line \in Seq(InputChars)

\* Which backslashes escape: one that is not itself escaped.
LEMMA Escapes ==
  ASSUME LineTyped
  PROVE  /\ ~Escaping(from)
         /\ \A i \in 1 .. Len(stdin) : i > from =>
              (Escaping(i) <=> ~reader.raw /\ stdin[i] = Backslash /\ ~Escaping(i - 1))
<1> DEFINE C(i) == {from} \cup {k \in from + 1 .. i - 1 : stdin[k] # Backslash}
           L(i) == Max(C(i))
<1>0. from \in Nat /\ Len(stdin) \in Nat /\ from <= Len(stdin)
  BY DEF LineTyped
<1>1. ASSUME NEW i
      PROVE  Escaping(i) <=> /\ ~reader.raw /\ i \in from + 1 .. Len(stdin)
                             /\ stdin[i] = Backslash /\ (i - L(i)) % 2 = 1
  BY DEF Escaping
<1>2. ASSUME NEW i \in from + 1 .. Len(stdin)
      PROVE  L(i) \in C(i) /\ L(i) \in from .. i - 1 /\ \A k \in C(i) : L(i) >= k
  <2>1. C(i) \in SUBSET (0 .. i - 1) /\ C(i) # {} /\ i - 1 \in Nat /\ C(i) \in SUBSET (from .. i - 1)
    BY <1>0
  <2> HIDE DEF C
  <2>2. L(i) \in C(i) /\ \A k \in C(i) : L(i) >= k
    BY <2>1, Extremes
  <2> QED BY <2>1, <2>2
<1>3. ~Escaping(from)
  BY <1>0 DEF Escaping
<1>4. ASSUME NEW i \in from + 1 .. Len(stdin), NEW j \in Nat, j = i - 1
      PROVE  Escaping(i) <=> ~reader.raw /\ stdin[i] = Backslash /\ ~Escaping(j)
  <2>1. CASE j = from
    <3>1. L(i) = i - 1
      BY <1>0, <1>2, <1>4, <2>1
    <3>2. (i - L(i)) % 2 = 1
      <4> HIDE DEF L
      <4> QED BY <3>1, <1>0
    <3> HIDE DEF L
    <3>3. Escaping(i) <=> ~reader.raw /\ stdin[i] = Backslash
      BY <1>1, <3>2
    <3> QED BY <3>3, <2>1, <1>3
  <2>2. CASE j # from /\ stdin[j] # Backslash
    <3>1. j \in C(i)
      BY <1>0, <1>4, <2>2
    <3>2. L(i) = i - 1
      BY <3>1, <1>0, <1>2, <1>4
    <3>3. (i - L(i)) % 2 = 1
      <4> HIDE DEF L
      <4> QED BY <3>2, <1>0
    <3> HIDE DEF L, C
    <3>4. Escaping(i) <=> ~reader.raw /\ stdin[i] = Backslash
      BY <1>1, <3>3
    <3>5. ~Escaping(j)
      BY <1>1, <2>2
    <3> QED BY <3>4, <3>5
  <2>3. CASE j # from /\ stdin[j] = Backslash
    <3>1. C(i) = C(j)
      BY <1>0, <1>4, <2>3
    <3>2. L(i) = L(j) /\ j \in from + 1 .. Len(stdin)
      <4>1. L(i) = L(j)
        <5> HIDE DEF C
        <5> QED BY <3>1
      <4>2. j \in from + 1 .. Len(stdin)
        BY <1>0, <1>4, <2>3
      <4> QED BY <4>1, <4>2
    <3>3. L(j) \in from .. j - 1
      BY <3>2, <1>2
    <3> HIDE DEF L, C
    <3>4. (i - L(i)) % 2 = 1 <=> ~((j - L(j)) % 2 = 1)
      <4>1. ASSUME NEW a \in Nat PROVE (i - a) % 2 = 1 <=> ~((j - a) % 2 = 1)
        BY <1>0, <1>4
      <4>2. L(j) \in Nat
        BY <3>3, <1>0
      <4>3. (i - L(j)) % 2 = 1 <=> ~((j - L(j)) % 2 = 1)
        BY <4>1, <4>2
      <4> QED BY <4>3, <3>2
    <3> QED BY <3>2, <3>4, <1>1, <2>3
  <2> QED BY <2>1, <2>2, <2>3
<1>5. \A i \in 1 .. Len(stdin) : i > from => i \in from + 1 .. Len(stdin) /\ i - 1 \in Nat
  BY <1>0
<1> QED BY <1>3, <1>4, <1>5

\* The characters at s, in their order, are l.
Keeps(s, l, text, S) ==
  /\ \A j, k \in DOMAIN s : j < k => s[j] < s[k]
  /\ {s[k] : k \in DOMAIN s} = S
  /\ l = [k \in DOMAIN s |-> text[s[k]]]

LEMMA KeepsMore ==
  ASSUME NEW n \in Nat, NEW s \in Seq(1 .. n), NEW V, NEW l \in Seq(V), NEW text, NEW S, Keeps(s, l, text, S),
         NEW i \in 1 .. n, \A k \in S : k < i
  PROVE  Keeps(Append(s, i), Append(l, text[i]), text, S \cup {i})
<1> DEFINE t == Append(s, i)
           m == Append(l, text[i])
           D == 1 .. Len(s)
<1>1. DOMAIN s = D /\ DOMAIN t = D \cup {Len(s) + 1} /\ Len(s) \in Nat /\ Len(s) + 1 \notin D
  OBVIOUS
<1>2. \A k \in D : t[k] = s[k]
  OBVIOUS
<1>3. t[Len(s) + 1] = i
  OBVIOUS
<1>4. l = [k \in D |-> text[s[k]]]
  BY <1>1 DEF Keeps
<1>5. Len(l) = Len(s)
  <2>1. DOMAIN l = 1 .. Len(l) /\ Len(l) \in Nat
    OBVIOUS
  <2>2. 1 .. Len(l) = 1 .. Len(s)
    BY <2>1, <1>4
  <2>3. ASSUME NEW a \in Nat, NEW b \in Nat, 1 .. a = 1 .. b PROVE a = b
    <3>1. (a = 0 \/ a \in 1 .. b) /\ (b = 0 \/ b \in 1 .. a)
      BY <2>3
    <3> QED BY <3>1
  <2>4. Len(l) \in Nat /\ Len(s) \in Nat
    BY <2>1, <1>1
  <2> QED BY <2>2, <2>3, <2>4
<1>6. m = [k \in DOMAIN t |-> text[t[k]]]
  <2>1. m = [k \in 1 .. Len(l) + 1 |-> IF k = Len(l) + 1 THEN text[i] ELSE l[k]]
    OBVIOUS
  <2>2. ASSUME NEW k \in DOMAIN t PROVE (IF k = Len(l) + 1 THEN text[i] ELSE l[k]) = text[t[k]]
    BY <1>1, <1>2, <1>3, <1>4, <1>5
  <2>3. DOMAIN t = 1 .. Len(l) + 1
    BY <1>1, <1>5
  <2> HIDE DEF t, m
  <2> QED BY <2>1, <2>2, <2>3
<1> HIDE DEF t, m
<1>7. \A k \in D : s[k] \in S /\ s[k] < i
  BY <1>1 DEF Keeps
<1>8. \A j, k \in DOMAIN t : j < k => t[j] < t[k]
  <2> SUFFICES ASSUME NEW j \in DOMAIN t, NEW k \in DOMAIN t, j < k PROVE t[j] < t[k]
    OBVIOUS
  <2>1. j \in D
    BY <1>1
  <2>2. CASE k \in D
    BY <2>1, <2>2, <1>1, <1>2 DEF Keeps
  <2>3. CASE k \notin D
    BY <2>1, <2>3, <1>1, <1>2, <1>3, <1>7
  <2> QED BY <2>2, <2>3
<1>9. {t[k] : k \in DOMAIN t} = S \cup {i}
  <2>1. {s[k] : k \in D} = S
    BY <1>1 DEF Keeps
  <2>2. {t[k] : k \in DOMAIN t} = {t[k] : k \in D} \cup {i}
    BY <1>1, <1>3
  <2>3. {t[k] : k \in D} = {s[k] : k \in D}
    BY <1>2
  <2> QED BY <2>1, <2>2, <2>3
<1> QED BY <1>6, <1>8, <1>9 DEF Keeps, t, m

\* The characters of the line up to i, if none of them ends it.
Plain(i) == ~Escaping(i) /\ ~(Escaping(i - 1) /\ stdin[i] = Newline)
Before(i) == {k \in from + 1 .. i : Plain(k)}
Unended(n) == \A i \in from + 1 .. n : stdin[i] = Newline => Escaping(i - 1)

LineSoFar ==
  /\ Unended(taken)
  /\ phase = "peek" <=> Escaping(taken)
  /\ phase = "read" /\ continued => Escaping(taken - 1) /\ stdin[taken] = Newline
  /\ Keeps(kept, line, stdin, Before(taken))

LineInv ==
  /\ LineTyped
  /\ (phase = "idle" => taken = 0) /\ (phase = "peek" => ~reader.raw)
  /\ phase \in {"read", "peek"} /\ ~DoublyContinued => LineSoFar
  /\ phase \in {"split", "assign", "done"} /\ ~DoublyContinued => LineRead

\* The next character is of the line unless it escapes or is escaped.
LEMMA BeforeNext ==
  ASSUME LineTyped, NEW j \in Nat, j = taken + 1
  PROVE  Before(j) = IF Plain(j) THEN Before(taken) \cup {j} ELSE Before(taken)
<1>1. from + 1 .. j = (from + 1 .. taken) \cup {j}
  BY DEF LineTyped
<1> QED BY <1>1 DEF Before

LEMMA UnendedNext ==
  ASSUME LineTyped, NEW j \in Nat, j = taken + 1, Unended(taken), stdin[j] = Newline => Escaping(taken)
  PROVE  Unended(j)
<1>1. \A i \in from + 1 .. j : i \in from + 1 .. taken \/ (i = j /\ i - 1 = taken)
  BY DEF LineTyped
<1> QED BY <1>1 DEF Unended

\* A newline that is not escaped ends the line, if none before it does.
LEMMA Ended ==
  ASSUME LineTyped, NEW j \in Nat, j = taken + 1, Unended(taken),
         j <= Len(stdin) => stdin[j] = Newline /\ ~Escaping(taken)
  PROVE  /\ LineEnd = j
         /\ j <= Len(stdin) => Content = Before(taken)
         /\ j > Len(stdin) => Content = Before(taken) \cup (IF Escaping(taken) THEN {taken} ELSE {})
<1> DEFINE E == {Len(stdin) + 1} \cup {i \in from + 1 .. Len(stdin) : stdin[i] = Newline /\ ~Escaping(i - 1)}
<1>0. from \in Nat /\ taken \in Nat /\ from <= taken /\ Len(stdin) \in Nat /\ taken <= Len(stdin)
  BY DEF LineTyped
<1>1. E \in SUBSET (0 .. Len(stdin) + 1) /\ E # {} /\ Len(stdin) + 1 \in Nat
  BY <1>0
<1>2. LineEnd \in E /\ \A k \in E : LineEnd <= k
  <2>1. LineEnd = Min(E)
    BY DEF LineEnd
  <2> HIDE DEF E
  <2> QED BY <1>1, <2>1, Extremes
<1>3. j \in E
  <2>1. CASE j <= Len(stdin)
    <3>1. j - 1 = taken /\ j \in from + 1 .. Len(stdin)
      BY <1>0, <2>1
    <3> QED BY <3>1, <2>1
  <2>2. CASE j > Len(stdin)
    BY <1>0, <2>2
  <2> QED BY <2>1, <2>2, <1>0
<1>4. \A k \in E : k >= j
  <2>1. SUFFICES ASSUME NEW k \in E, ~(k >= j) PROVE FALSE
    OBVIOUS
  <2>2. k \in from + 1 .. taken /\ stdin[k] = Newline /\ ~Escaping(k - 1)
    BY <2>1, <1>0
  <2> QED BY <2>2 DEF Unended
<1>5. LineEnd = j
  <2> HIDE DEF E
  <2>1. LineEnd \in Nat /\ LineEnd <= j /\ LineEnd >= j
    BY <1>1, <1>2, <1>3, <1>4
  <2> QED BY <2>1
<1>6. ASSUME NEW i \in from + 1 .. taken, j <= Len(stdin) \/ i # Len(stdin)
      PROVE  (IF Escaping(i) THEN i = Len(stdin) ELSE ~(Escaping(i - 1) /\ stdin[i] = Newline)) <=> Plain(i)
  <2>1. i # Len(stdin)
    BY <1>0, <1>6
  <2> QED BY <2>1 DEF Plain
<1>7. from + 1 .. LineEnd - 1 = from + 1 .. taken
  BY <1>0, <1>5
<1>8. ASSUME j <= Len(stdin) PROVE Content = Before(taken)
  BY <1>6, <1>7, <1>8 DEF Content, Before
<1>9. ASSUME j > Len(stdin)
      PROVE  Content = Before(taken) \cup (IF Escaping(taken) THEN {taken} ELSE {})
  <2>1. taken = Len(stdin)
    BY <1>0, <1>9
  <2>2. ASSUME NEW i \in from + 1 .. taken
        PROVE  (IF Escaping(i) THEN i = Len(stdin) ELSE ~(Escaping(i - 1) /\ stdin[i] = Newline))
                 <=> Plain(i) \/ (Escaping(taken) /\ i = taken)
    BY <2>1, <1>6 DEF Plain
  <2>3. Escaping(taken) => taken \in from + 1 .. taken
    BY <1>0 DEF Escaping
  <2> QED BY <2>2, <2>3, <1>7 DEF Content, Before
<1> QED BY <1>5, <1>8, <1>9

LEMMA SameInput ==
  ASSUME stdin' = stdin, reader' = reader, from' = from
  PROVE  /\ DoublyContinued' <=> DoublyContinued
         /\ LineEnd' = LineEnd /\ Content' = Content
         /\ \A i : Escaping(i)' <=> Escaping(i)
         /\ Before(taken)' = Before(taken') /\ (Unended(taken)' <=> Unended(taken'))
BY DEF DoublyContinued, LineEnd, Content, Escaping, Before, Plain, Unended

\* The character that a call takes next.
LEMMA NextTaken ==
  ASSUME LineTyped, taken < Len(stdin)
  PROVE  taken + 1 \in 1 .. Len(stdin) /\ taken + 1 > from /\ stdin[taken + 1] \in InputChars
BY DEF LineTyped

\* One character taken, and of the line if it is plain.
LEMMA TakenMore ==
  ASSUME LineTyped, Unended(taken), Keeps(kept, line, stdin, Before(taken)),
         stdin' = stdin, reader' = reader, from' = from,
         taken < Len(stdin), taken' = taken + 1, stdin[taken + 1] = Newline => Escaping(taken),
         IF Plain(taken + 1) THEN Adds(taken + 1) ELSE UNCHANGED <<line, kept>>
  PROVE  LineTyped' /\ Unended(taken)' /\ Keeps(kept, line, stdin, Before(taken))'
<1> DEFINE j == taken + 1
<1>1. j \in 1 .. Len(stdin) /\ stdin[j] \in InputChars /\ j \in Nat
  BY NextTaken
<1>2. Len(stdin) \in Nat /\ kept \in Seq(1 .. Len(stdin)) /\ line \in Seq(InputChars)
  BY DEF LineTyped
<1>3. LineTyped'
  <2>1. kept' \in Seq(1 .. Len(stdin)) /\ line' \in Seq(InputChars)
    <3>1. Append(kept, j) \in Seq(1 .. Len(stdin)) /\ Append(line, stdin[j]) \in Seq(InputChars)
      BY <1>1, <1>2
    <3>2. CASE Plain(j)
      BY <3>1, <3>2 DEF Adds
    <3>3. CASE ~Plain(j)
      BY <1>2, <3>3
    <3> QED BY <3>2, <3>3
  <2>2. taken' \in 0 .. Len(stdin) /\ from \in 0 .. taken'
    BY <1>1 DEF LineTyped
  <2> QED BY <2>1, <2>2 DEF LineTyped
<1>4. Unended(taken)'
  <2>1. Unended(taken')
    BY <1>1, UnendedNext
  <2> QED BY <2>1, SameInput
<1>5. Keeps(kept', line', stdin, Before(taken'))
  <2>1. Before(taken') = IF Plain(j) THEN Before(taken) \cup {j} ELSE Before(taken)
    BY <1>1, BeforeNext
  <2>2. CASE Plain(j)
    <3>1. kept' = Append(kept, j) /\ line' = Append(line, stdin[j])
      BY <2>2 DEF Adds
    <3>2. \A k \in Before(taken) : k < j
      BY DEF Before, LineTyped
    <3>3. Keeps(Append(kept, j), Append(line, stdin[j]), stdin, Before(taken) \cup {j})
      BY <1>1, <1>2, <3>2, KeepsMore
    <3> QED BY <2>1, <2>2, <3>1, <3>3
  <2>3. CASE ~Plain(j)
    BY <2>1, <2>3
  <2> QED BY <2>2, <2>3
<1>6. Keeps(kept, line, stdin, Before(taken))'
  BY <1>5, SameInput DEF Keeps
<1> QED BY <1>3, <1>4, <1>6

LEMMA TakeLine ==
  ASSUME LineInv, TakeOther \/ TakeBackslash \/ PeekNewline \/ PeekOther, ~DoublyContinued
  PROVE  LineInv'
<1> DEFINE j == taken + 1
<1>1. stdin' = stdin /\ reader' = reader /\ from' = from /\ taken' = taken + 1 /\ taken < Len(stdin)
  BY DEF TakeOther, TakeBackslash, PeekNewline, PeekOther, Taking, callVars
<1>2. LineTyped /\ LineSoFar
  BY DEF LineInv, TakeOther, TakeBackslash, PeekNewline, PeekOther
<1>3. j \in 1 .. Len(stdin) /\ j > from /\ j - 1 = taken /\ j \in Nat
  BY <1>1, <1>2, NextTaken DEF LineTyped
<1>4. Escaping(j) <=> ~reader.raw /\ stdin[j] = Backslash /\ ~Escaping(taken)
  BY <1>2, <1>3, Escapes
<1>5. Newline # Backslash
  BY DEF Newline, Backslash
<1>6. Plain(j) <=> ~Escaping(j) /\ ~(Escaping(taken) /\ stdin[j] = Newline)
  BY <1>3 DEF Plain
<1>7. phase = "peek" <=> Escaping(taken)
  BY <1>2 DEF LineSoFar
<1> DEFINE Q == /\ stdin[j] = Newline => Escaping(taken)
                /\ IF Plain(j) THEN Adds(j) ELSE UNCHANGED <<line, kept>>
                /\ phase' = "peek" <=> Escaping(j)
                /\ phase' = "read" /\ continued' => Escaping(taken) /\ stdin[j] = Newline
                /\ phase' \in {"read", "peek"} /\ (phase' = "peek" => ~reader.raw)
<1>8. ASSUME Q PROVE LineInv'
  <2>1. LineTyped' /\ Unended(taken)' /\ Keeps(kept, line, stdin, Before(taken))'
    BY <1>1, <1>2, <1>8, TakenMore DEF LineSoFar
  <2>2. Escaping(taken)' <=> Escaping(j)
    BY <1>1 DEF Escaping
  <2>3. Escaping(taken - 1)' <=> Escaping(taken)
    <3>1. taken' - 1 = taken
      BY <1>1, <1>3
    <3> QED BY <3>1, <1>1 DEF Escaping
  <2>4. LineSoFar'
    BY <2>1, <2>2, <2>3, <1>1, <1>8 DEF LineSoFar
  <2> QED BY <2>1, <2>4, <1>1, <1>8 DEF LineInv
<1>9. CASE TakeOther
  BY <1>1, <1>3, <1>4, <1>5, <1>6, <1>7, <1>8, <1>9 DEF TakeOther, Taking, Other
<1>10. CASE TakeBackslash
  BY <1>1, <1>3, <1>4, <1>5, <1>6, <1>7, <1>8, <1>10 DEF TakeBackslash, Taking
<1>11. CASE PeekNewline
  BY <1>1, <1>3, <1>4, <1>5, <1>6, <1>7, <1>8, <1>11 DEF PeekNewline, Taking, Continue
<1>12. CASE PeekOther
  BY <1>1, <1>3, <1>4, <1>5, <1>6, <1>7, <1>8, <1>12 DEF PeekOther, Taking
<1> QED BY <1>9, <1>10, <1>11, <1>12

\* A newline, or the end of the input, that ends the line.
LEMMA LineEnds ==
  ASSUME LineInv, TakeNewline \/ EndOfFile, ~DoublyContinued
  PROVE  LineInv'
<1> DEFINE j == taken + 1
<1>1. stdin' = stdin /\ reader' = reader /\ from' = from
  BY DEF TakeNewline, EndOfFile, callVars
<1>2. LineTyped /\ LineSoFar
  BY DEF LineInv, TakeNewline, EndOfFile
<1>3. j \in Nat /\ taken \in Nat /\ Len(stdin) \in Nat /\ from <= taken /\ taken <= Len(stdin) /\ from \in Nat
  BY <1>2 DEF LineTyped
<1>4. Unended(taken) /\ (phase = "peek" <=> Escaping(taken)) /\ Keeps(kept, line, stdin, Before(taken))
  BY <1>2 DEF LineSoFar
<1>5. ASSUME LineTyped', phase' = "split", Keeps(kept', line', stdin, Content),
             taken' = Min({LineEnd, Len(stdin)}), eof' = (LineEnd > Len(stdin))
      PROVE  LineInv'
  <2>1. LineRead'
    BY <1>1, <1>5, SameInput DEF LineRead, Keeps
  <2> QED BY <2>1, <1>5 DEF LineInv
<1>6. ASSUME NEW m \in Nat, NEW n \in Nat PROVE Min({m, n}) = IF m <= n THEN m ELSE n
  <2>1. {m, n} \in SUBSET (0 .. m + n) /\ {m, n} # {} /\ m + n \in Nat
    OBVIOUS
  <2>2. Min({m, n}) \in {m, n} /\ \A k \in {m, n} : Min({m, n}) <= k
    BY <2>1, Extremes
  <2> QED BY <2>2
<1>7. CASE TakeNewline
  <2>1. phase = "read" /\ taken < Len(stdin) /\ stdin[j] = Newline /\ taken' = j
    BY <1>7 DEF TakeNewline, Taking
  <2>2. ~continued
    <3>1. SUFFICES ASSUME continued PROVE FALSE
      OBVIOUS
    <3>2. Escaping(taken - 1) /\ stdin[taken] = Newline
      BY <2>1, <3>1, <1>2 DEF LineSoFar
    <3>3. taken - 1 \in from + 1 .. Len(stdin) - 2
      BY <3>2, <2>1, <1>3 DEF Escaping
    <3>4. (taken - 1) + 1 = taken /\ (taken - 1) + 2 = j
      BY <1>3
    <3> QED BY <2>1, <3>2, <3>3, <3>4 DEF DoublyContinued
  <2>3. line' = line /\ kept' = kept /\ eof' = FALSE /\ phase' = "split"
    BY <1>7, <2>2 DEF TakeNewline, Ends
  <2>4. j <= Len(stdin) /\ ~Escaping(taken)
    BY <2>1, <1>3, <1>4
  <2>5. LineEnd = j /\ Content = Before(taken)
    BY <2>1, <2>4, <1>2, <1>3, <1>4, Ended
  <2>6. LineTyped'
    BY <2>1, <2>3, <2>4, <1>1, <1>2, <1>3 DEF LineTyped
  <2>7. taken' = Min({LineEnd, Len(stdin)}) /\ eof' = (LineEnd > Len(stdin))
    <3>1. Min({j, Len(stdin)}) = j
      BY <2>4, <1>3, <1>6
    <3>2. (j > Len(stdin)) = FALSE
      BY <2>4, <1>3
    <3> QED BY <2>1, <2>3, <2>5, <3>1, <3>2
  <2> QED BY <2>3, <2>5, <2>6, <2>7, <1>4, <1>5
<1>8. CASE EndOfFile
  <2>1. taken = Len(stdin) /\ taken' = taken /\ eof' = TRUE /\ phase' = "split" /\ j > Len(stdin)
    BY <1>3, <1>8 DEF EndOfFile, Ends
  <2>2. LineEnd = j /\ Content = Before(taken) \cup (IF Escaping(taken) THEN {taken} ELSE {})
    BY <2>1, <1>2, <1>3, <1>4, Ended
  <2>3. taken' = Min({LineEnd, Len(stdin)}) /\ eof' = (LineEnd > Len(stdin))
    <3>1. Min({j, Len(stdin)}) = Len(stdin)
      BY <2>1, <1>3, <1>6
    <3>2. (j > Len(stdin)) = TRUE
      BY <2>1
    <3> QED BY <2>1, <2>2, <3>1, <3>2
  <2>4. CASE Escaping(taken)
    <3>1. kept' = Append(kept, taken) /\ line' = Append(line, stdin[taken])
      BY <2>4, <1>4, <1>8 DEF EndOfFile, Adds
    <3>2. taken \in 1 .. Len(stdin)
      BY <2>4, <1>3 DEF Escaping
    <3>3. kept \in Seq(1 .. Len(stdin)) /\ line \in Seq(InputChars) /\ stdin[taken] \in InputChars
      BY <3>2, <1>2 DEF LineTyped
    <3>4. LineTyped'
      <4>1. kept' \in Seq(1 .. Len(stdin)) /\ line' \in Seq(InputChars)
        BY <3>1, <3>2, <3>3
      <4> QED BY <4>1, <2>1, <1>1, <1>2 DEF LineTyped
    <3>5. \A k \in Before(taken) : k < taken
      <4>1. taken \notin Before(taken)
        BY <2>4 DEF Before, Plain
      <4> QED BY <4>1, <1>3 DEF Before
    <3>6. Keeps(kept', line', stdin, Before(taken) \cup {taken})
      BY <3>1, <3>2, <3>3, <3>5, <1>3, <1>4, KeepsMore
    <3> QED BY <2>1, <2>2, <2>3, <2>4, <3>4, <3>6, <1>5
  <2>5. CASE ~Escaping(taken)
    <3>1. kept' = kept /\ line' = line
      BY <2>5, <1>4, <1>8 DEF EndOfFile
    <3>2. LineTyped'
      BY <3>1, <2>1, <1>1, <1>2 DEF LineTyped
    <3>3. Content = Before(taken)
      BY <2>2, <2>5
    <3> QED BY <2>1, <2>3, <3>1, <3>2, <3>3, <1>4, <1>5
  <2> QED BY <2>4, <2>5
<1> QED BY <1>7, <1>8

-----------------------------------------------------------------------------
(* read: the variables.                                                     *)

LEMMA PastIs ==
  ASSUME line \in Seq(InputChars), NEW i \in 1 .. Len(line) + 1, NEW chars
  PROVE  /\ Past(i, chars) \in i .. Len(line) + 1
         /\ \A k \in i .. Past(i, chars) - 1 : line[k] \in chars
         /\ Past(i, chars) <= Len(line) => line[Past(i, chars)] \notin chars
<1> DEFINE S == {k \in i .. Len(line) + 1 : k \in DOMAIN line => line[k] \notin chars}
<1>1. Len(line) \in Nat /\ DOMAIN line = 1 .. Len(line)
  OBVIOUS
<1>2. S \in SUBSET (0 .. Len(line) + 1) /\ Len(line) + 1 \in S
  BY <1>1
<1>3. Past(i, chars) \in S /\ \A k \in S : Past(i, chars) <= k
  <2>1. Past(i, chars) = Min(S)
    BY DEF Past
  <2> HIDE DEF S
  <2>2. ASSUME NEW m \in Nat, m = Len(line) + 1 PROVE Min(S) \in S /\ \A k \in S : Min(S) <= k
    <3>1. S \in SUBSET (0 .. m) /\ S # {}
      BY <1>2, <2>2
    <3> QED BY <3>1, Extremes
  <2>3. Len(line) + 1 \in Nat
    BY <1>1
  <2> QED BY <2>1, <2>2, <2>3
<1>4. Past(i, chars) \in i .. Len(line) + 1
  BY <1>3
<1>5. ASSUME NEW k \in i .. Past(i, chars) - 1 PROVE line[k] \in chars
  BY <1>1, <1>3, <1>4
<1>6. Past(i, chars) <= Len(line) => line[Past(i, chars)] \notin chars
  BY <1>1, <1>3, <1>4
<1> QED BY <1>4, <1>5, <1>6

LEMMA UpToIs ==
  ASSUME line \in Seq(InputChars), NEW i \in 1 .. Len(line) + 1, NEW chars
  PROVE  /\ UpTo(i, chars) \in i .. Len(line) + 1
         /\ \A k \in i .. UpTo(i, chars) - 1 : line[k] \notin chars
         /\ UpTo(i, chars) <= Len(line) => line[UpTo(i, chars)] \in chars
<1> DEFINE S == {k \in i .. Len(line) + 1 : k \in DOMAIN line => line[k] \in chars}
<1>1. Len(line) \in Nat /\ DOMAIN line = 1 .. Len(line)
  OBVIOUS
<1>2. S \in SUBSET (0 .. Len(line) + 1) /\ Len(line) + 1 \in S
  BY <1>1
<1>3. UpTo(i, chars) \in S /\ \A k \in S : UpTo(i, chars) <= k
  <2>1. UpTo(i, chars) = Min(S)
    BY DEF UpTo
  <2> HIDE DEF S
  <2>2. ASSUME NEW m \in Nat, m = Len(line) + 1 PROVE Min(S) \in S /\ \A k \in S : Min(S) <= k
    <3>1. S \in SUBSET (0 .. m) /\ S # {}
      BY <1>2, <2>2
    <3> QED BY <3>1, Extremes
  <2>3. Len(line) + 1 \in Nat
    BY <1>1
  <2> QED BY <2>1, <2>2, <2>3
<1>4. UpTo(i, chars) \in i .. Len(line) + 1
  BY <1>3
<1>5. ASSUME NEW k \in i .. UpTo(i, chars) - 1 PROVE line[k] \notin chars
  BY <1>1, <1>3, <1>4
<1>6. UpTo(i, chars) <= Len(line) => line[UpTo(i, chars)] \in chars
  BY <1>1, <1>3, <1>4
<1> QED BY <1>4, <1>5, <1>6

LEMMA LastNotIs ==
  ASSUME line \in Seq(InputChars), NEW i \in 1 .. Len(line) + 1, NEW chars
  PROVE  /\ LastNot(i, chars) \in i - 1 .. Len(line)
         /\ LastNot(i, chars) >= i => line[LastNot(i, chars)] \notin chars
         /\ \A k \in i .. Len(line) : k > LastNot(i, chars) => line[k] \in chars
<1> DEFINE S == {i - 1} \cup {k \in i .. Len(line) : line[k] \notin chars}
<1>1. Len(line) \in Nat
  OBVIOUS
<1>2. S \in SUBSET (0 .. Len(line)) /\ S # {}
  BY <1>1
<1>3. LastNot(i, chars) \in S /\ \A k \in S : LastNot(i, chars) >= k
  <2>1. LastNot(i, chars) = Max(S)
    BY DEF LastNot
  <2> HIDE DEF S
  <2>2. Max(S) \in S /\ \A k \in S : Max(S) >= k
    BY <1>1, <1>2, Extremes
  <2> QED BY <2>1, <2>2
<1>4. LastNot(i, chars) \in i - 1 .. Len(line)
  BY <1>1, <1>3
<1>5. LastNot(i, chars) >= i => line[LastNot(i, chars)] \notin chars
  BY <1>3
<1>6. ASSUME NEW k \in i .. Len(line), k > LastNot(i, chars) PROVE line[k] \in chars
  <2>1. k \notin S
    BY <1>3, <1>4, <1>6
  <2> QED BY <2>1
<1> QED BY <1>4, <1>5, <1>6

-----------------------------------------------------------------------------
(* read: its types.                                                         *)

LEMMA AssignsTyped ==
  ASSUME ReadTypeOK, NEW i \in 1 .. Len(line) + 1, NEW j \in i - 1 .. Len(line), Assigns(i, j)
  PROVE  values' \in Seq(Seq(InputChars)) /\ spans' \in Seq(Nat \X Nat)
<1>1. SubSeq(line, i, j) \in Seq(InputChars)
  BY DEF ReadTypeOK
<1>2. values \in Seq(Seq(InputChars)) /\ spans \in Seq(Nat \X Nat)
  BY DEF ReadTypeOK
<1>3. <<i, j>> \in Nat \X Nat
  BY DEF ReadTypeOK
<1>4. values' \in Seq(Seq(InputChars))
  BY <1>1, <1>2 DEF Assigns
<1>5. spans' \in Seq(Nat \X Nat)
  BY <1>2, <1>3 DEF Assigns
<1> QED BY <1>4, <1>5

TypedInv ==
  /\ ReadTypeOK /\ from <= taken
  /\ (phase = "idle" => taken = 0) /\ (phase = "peek" => ~reader.raw /\ taken > from)

LEMMA TypesKept ==
  ASSUME TypedInv, [ReadNext]_readVars
  PROVE  TypedInv'
<1>0. ReadTypeOK /\ Len(stdin) \in Nat /\ Len(line) \in Nat /\ taken \in Nat /\ from \in Nat
  BY DEF TypedInv, ReadTypeOK
<1>1. ASSUME NEW c \in InputChars, Write(c) PROVE TypedInv'
  <2>1. stdin' \in Seq(InputChars) /\ Len(stdin') = Len(stdin) + 1
    BY <1>0, <1>1 DEF Write, ReadTypeOK
  <2>2. kept' \in Seq(1 .. Len(stdin'))
    <3>1. kept \in Seq(1 .. Len(stdin)) /\ (1 .. Len(stdin)) \subseteq 1 .. Len(stdin')
      BY <2>1, <1>0 DEF ReadTypeOK
    <3>2. kept \in Seq(1 .. Len(stdin'))
      BY <3>1, SeqMonotonic
    <3> QED BY <3>2, <1>1 DEF Write
  <2>3. {taken', from'} \subseteq 0 .. Len(stdin')
    BY <2>1, <1>0, <1>1 DEF Write, ReadTypeOK
  <2> QED BY <2>1, <2>2, <2>3, <1>1 DEF Write, ReadTypeOK, TypedInv
<1>2. ASSUME NEW r \in Readers, StartRead(r) PROVE TypedInv'
  <2>1. <<>> \in Seq(InputChars) /\ <<>> \in Seq(Seq(InputChars)) /\ <<>> \in Seq(1 .. Len(stdin))
        /\ <<>> \in Seq(Nat \X Nat) /\ Len(<<>>) = 0
    OBVIOUS
  <2>2. next' \in 1 .. Len(line') + 1
    BY <2>1, <1>2 DEF StartRead
  <2>3. /\ line' = <<>> /\ kept' = <<>> /\ values' = <<>> /\ spans' = <<>>
        /\ phase' = "read" /\ continued' = FALSE /\ eof' = FALSE /\ reader' = r
        /\ stdin' = stdin /\ taken' = taken /\ from' = taken
    BY <1>2 DEF StartRead
  <2>4. stdin \in Seq(InputChars) /\ {taken, taken} \subseteq 0 .. Len(stdin)
    BY <1>0 DEF ReadTypeOK
  <2>5. ReadTypeOK'
    BY <2>1, <2>2, <2>3, <2>4 DEF ReadTypeOK
  <2> QED BY <2>3, <2>5, <1>0 DEF TypedInv
<1>3. ASSUME NEW i \in 1 .. Len(stdin), Adds(i)
      PROVE  line' \in Seq(InputChars) /\ kept' \in Seq(1 .. Len(stdin)) /\ Len(line') = Len(line) + 1
  <2>1. line \in Seq(InputChars) /\ kept \in Seq(1 .. Len(stdin)) /\ stdin[i] \in InputChars
    BY DEF TypedInv, ReadTypeOK
  <2>2. line' = Append(line, stdin[i]) /\ kept' = Append(kept, i)
    BY <1>3 DEF Adds
  <2> QED BY <2>1, <2>2
<1>4. ASSUME Adds(taken + 1), taken < Len(stdin), taken' = taken + 1, UNCHANGED <<callVars, splitVars>>,
             continued' \in BOOLEAN, eof' \in BOOLEAN, phase' = "read"
      PROVE  TypedInv'
  <2>1. taken + 1 \in 1 .. Len(stdin) /\ from <= taken + 1 /\ taken + 1 \in 0 .. Len(stdin)
    BY <1>0, <1>4 DEF TypedInv
  <2>2. line' \in Seq(InputChars) /\ kept' \in Seq(1 .. Len(stdin)) /\ Len(line') = Len(line) + 1
    BY <2>1, <1>3, <1>4
  <2>3. next' \in 1 .. Len(line') + 1
    BY <2>2, <1>0, <1>4 DEF splitVars, ReadTypeOK
  <2> QED BY <2>1, <2>2, <2>3, <1>0, <1>4 DEF TypedInv, ReadTypeOK, callVars, splitVars
<1>5. ASSUME line' = line, kept' = kept, taken < Len(stdin), taken' = taken + 1,
             UNCHANGED <<callVars, splitVars>>, continued' \in BOOLEAN, eof' \in BOOLEAN,
             phase' \in {"read", "peek", "split"}, phase' = "peek" => ~reader.raw
      PROVE  TypedInv'
  <2>1. from <= taken + 1 /\ taken + 1 \in 0 .. Len(stdin)
    BY <1>0, <1>5 DEF TypedInv
  <2> QED BY <2>1, <1>0, <1>5 DEF TypedInv, ReadTypeOK, callVars, splitVars
<1>6. CASE TakeOther
  BY <1>0, <1>4, <1>6 DEF TakeOther, Taking, ReadTypeOK
<1>7. CASE TakeNewline
  <2>1. continued' \in BOOLEAN /\ eof' \in BOOLEAN /\ phase' \in {"read", "split"}
    BY <1>0, <1>7 DEF TakeNewline, Ends, ReadTypeOK
  <2> QED BY <2>1, <1>5, <1>7 DEF TakeNewline, Taking
<1>8. CASE TakeBackslash
  BY <1>0, <1>5, <1>8 DEF TakeBackslash, Taking, ReadTypeOK
<1>9. CASE PeekNewline
  BY <1>0, <1>5, <1>9 DEF PeekNewline, Taking, Continue, ReadTypeOK
<1>10. CASE PeekOther
  BY <1>0, <1>4, <1>10 DEF PeekOther, Taking, ReadTypeOK
<1>11. CASE EndOfFile
  <2>1. phase' = "split" /\ eof' = TRUE /\ taken' = taken /\ continued' = continued
        /\ UNCHANGED <<callVars, splitVars>>
    BY <1>11 DEF EndOfFile, Ends
  <2>2. /\ line' \in Seq(InputChars) /\ kept' \in Seq(1 .. Len(stdin))
        /\ Len(line') \in {Len(line), Len(line) + 1}
    <3>1. CASE phase = "peek" /\ taken # 0
      <4>1. taken \in 1 .. Len(stdin) /\ Adds(taken)
        BY <3>1, <1>0, <1>11 DEF EndOfFile
      <4> QED BY <4>1, <1>3
    <3>2. CASE phase # "peek"
      BY <3>2, <1>0, <1>11 DEF EndOfFile, ReadTypeOK
    <3>3. phase = "peek" => taken # 0
      BY <1>0 DEF TypedInv
    <3> QED BY <3>1, <3>2, <3>3
  <2>3. next' \in 1 .. Len(line') + 1
    BY <2>1, <2>2, <1>0 DEF splitVars, ReadTypeOK
  <2> QED BY <2>1, <2>2, <2>3, <1>0 DEF TypedInv, ReadTypeOK, callVars, splitVars
<1>12. CASE AssignNothing \/ AssignWhole \/ SkipLeading \/ AssignField \/ AssignRest
  <2>1. UNCHANGED lineVars /\ phase' \in {"assign", "done"}
    BY <1>12 DEF AssignNothing, AssignWhole, SkipLeading, AssignField, AssignRest, lineVars
  <2>2. line \in Seq(InputChars) /\ next \in 1 .. Len(line) + 1 /\ 1 \in 1 .. Len(line) + 1
    BY <1>0 DEF ReadTypeOK
  <2> DEFINE Split == /\ next' \in 1 .. Len(line) + 1
                      /\ values' \in Seq(Seq(InputChars)) /\ spans' \in Seq(Nat \X Nat)
  <2>3. ASSUME Split PROVE TypedInv'
    BY <2>1, <2>3, <1>0 DEF TypedInv, ReadTypeOK, lineVars
  <2>4. \A chars : LET i == Past(1, chars) IN i \in 1 .. Len(line) + 1
    BY <2>2, PastIs
  <2>5. \A i \in 1 .. Len(line) + 1 : \A chars : LastNot(i, chars) \in i - 1 .. Len(line)
    BY <2>2, LastNotIs
  <2>6. CASE AssignNothing
    <3>1. reader.n \in Nat
      BY ReadersAssumption DEF TypedInv, ReadTypeOK, NoReader
    <3>2. [k \in 1 .. reader.n |-> <<>>] \in Seq(Seq(InputChars))
      <4> DEFINE f == [k \in 1 .. reader.n |-> <<>>]
      <4>1. f \in [1 .. reader.n -> Seq(InputChars)]
        OBVIOUS
      <4> HIDE DEF f
      <4>2. f \in Seq(Seq(InputChars))
        BY <3>1, <4>1, IsASeq
      <4> QED BY <4>2 DEF f
    <3>3. [k \in 1 .. reader.n |-> <<1, 0>>] \in Seq(Nat \X Nat)
      <4>1. [k \in 1 .. reader.n |-> <<1, 0>>] \in [1 .. reader.n -> Nat \X Nat]
        OBVIOUS
      <4> QED BY <3>1, <4>1, IsASeq
    <3> QED BY <3>2, <3>3, <2>2, <2>3, <2>6 DEF AssignNothing
  <2>7. CASE AssignWhole
    <3> DEFINE i == Past(1, reader.ifs)
    <3>1. i \in 1 .. Len(line) + 1 /\ LastNot(i, reader.ifs) \in i - 1 .. Len(line)
      BY <2>4, <2>5
    <3>2. Assigns(i, LastNot(i, reader.ifs)) /\ next' = next
      BY <2>7 DEF AssignWhole
    <3> HIDE DEF i
    <3> QED BY <3>1, <3>2, <2>2, <2>3, <1>0, AssignsTyped
  <2>8. CASE SkipLeading
    BY <2>3, <2>4, <2>8, <1>0 DEF SkipLeading, ReadTypeOK
  <2>9. CASE AssignField
    <3> DEFINE stop == UpTo(next, reader.ifs)
    <3>1. Assigns(next, stop - 1) /\ next' = Past(stop, reader.ifs)
      BY <2>9 DEF AssignField
    <3>2. stop \in next .. Len(line) + 1
      BY <2>2, UpToIs
    <3> HIDE DEF stop
    <3>3. stop \in 1 .. Len(line) + 1 /\ stop - 1 \in next - 1 .. Len(line)
      BY <3>2, <2>2
    <3>4. next' \in stop .. Len(line) + 1
      BY <3>1, <3>3, <2>2, PastIs
    <3>5. next' \in 1 .. Len(line) + 1
      BY <3>3, <3>4
    <3> QED BY <3>1, <3>3, <3>5, <2>2, <2>3, <1>0, AssignsTyped
  <2>10. CASE AssignRest
    <3>1. Assigns(next, LastNot(next, reader.ifs \cap Whitespace)) /\ next' = next
      BY <2>10 DEF AssignRest
    <3>2. LastNot(next, reader.ifs \cap Whitespace) \in next - 1 .. Len(line)
      BY <2>2, <2>5
    <3> QED BY <3>1, <3>2, <2>2, <2>3, <1>0, AssignsTyped
  <2> QED BY <1>12, <2>6, <2>7, <2>8, <2>9, <2>10
<1>13. CASE UNCHANGED readVars
  BY <1>0, <1>13 DEF readVars, TypedInv, ReadTypeOK
<1> QED
  BY <1>1, <1>2, <1>6, <1>7, <1>8, <1>9, <1>10, <1>11, <1>12, <1>13 DEF ReadNext

LEMMA LineKept ==
  ASSUME TypedInv, TypedInv', LineInv, [ReadNext]_readVars
  PROVE  LineInv'
<1>1. LineTyped' /\ (phase' = "idle" => taken' = 0) /\ (phase' = "peek" => ~reader'.raw)
  BY DEF TypedInv, ReadTypeOK, LineTyped
<1>2. ASSUME stdin' = stdin, reader' = reader, from' = from, DoublyContinued PROVE LineInv'
  BY <1>1, <1>2, SameInput DEF LineInv
<1>3. ASSUME NEW c \in InputChars, Write(c) PROVE LineInv'
  BY <1>1, <1>3 DEF Write, LineInv
<1>4. ASSUME NEW r \in Readers, StartRead(r) PROVE LineInv'
  <2>1. taken' = from' /\ kept' = <<>> /\ line' = <<>> /\ phase' = "read" /\ continued' = FALSE /\ from' \in Nat
    BY <1>1, <1>4 DEF StartRead, LineTyped
  <2>2. ~Escaping(taken)'
    <3>1. taken' \notin from' + 1 .. Len(stdin')
      <4>1. \A m, n \in Nat : m \notin m + 1 .. n
        OBVIOUS
      <4>2. Len(stdin') \in Nat
        BY <1>1 DEF LineTyped
      <4> QED BY <4>1, <4>2, <2>1
    <3> QED BY <3>1 DEF Escaping
  <2>3. Unended(taken)'
    <3>1. from' + 1 .. taken' = {}
      <4>1. \A m \in Nat : m + 1 .. m = {}
        OBVIOUS
      <4> QED BY <4>1, <2>1
    <3> QED BY <3>1 DEF Unended
  <2>4. Before(taken)' = {}
    BY <2>1 DEF Before
  <2>5. Keeps(kept', line', stdin', {})
    <3>1. DOMAIN kept' = {}
      BY <2>1
    <3>2. line' = [k \in {} |-> stdin'[kept'[k]]]
      BY <2>1
    <3> QED BY <3>1, <3>2 DEF Keeps
  <2>6. LineSoFar'
    BY <2>1, <2>2, <2>3, <2>4, <2>5 DEF LineSoFar, Keeps
  <2> QED BY <2>1, <2>6, <1>1 DEF LineInv
<1>5. CASE TakeOther \/ TakeBackslash \/ PeekNewline \/ PeekOther
  <2>1. stdin' = stdin /\ reader' = reader /\ from' = from
    BY <1>5 DEF TakeOther, TakeBackslash, PeekNewline, PeekOther, callVars
  <2> QED BY <2>1, <1>2, <1>5, TakeLine
<1>6. CASE TakeNewline \/ EndOfFile
  <2>1. stdin' = stdin /\ reader' = reader /\ from' = from
    BY <1>6 DEF TakeNewline, EndOfFile, callVars
  <2> QED BY <2>1, <1>2, <1>6, LineEnds
<1>7. CASE AssignNothing \/ AssignWhole \/ SkipLeading \/ AssignField \/ AssignRest
  <2>1. /\ UNCHANGED lineVars /\ phase' \in {"assign", "done"}
        /\ phase \in {"split", "assign", "done"}
    BY <1>7 DEF AssignNothing, AssignWhole, SkipLeading, AssignField, AssignRest, lineVars
  <2>2. LineRead => LineRead'
    BY <2>1, SameInput DEF lineVars, LineRead
  <2> QED BY <1>1, <2>1, <2>2, SameInput DEF lineVars, LineInv
<1>8. CASE UNCHANGED readVars
  <2> USE <1>8 DEF readVars
  <2>1. LineRead => LineRead'
    BY SameInput DEF LineRead
  <2>2. LineSoFar => LineSoFar'
    <3>1. (Escaping(taken)' <=> Escaping(taken)) /\ (Escaping(taken - 1)' <=> Escaping(taken - 1))
      BY DEF Escaping
    <3>2. Before(taken)' = Before(taken) /\ (Unended(taken)' <=> Unended(taken))
      BY SameInput
    <3> QED BY <3>1, <3>2 DEF LineSoFar, Keeps
  <2> QED BY <1>1, <2>1, <2>2, SameInput DEF LineInv
<1> QED BY <1>3, <1>4, <1>5, <1>6, <1>7, <1>8 DEF ReadNext

-----------------------------------------------------------------------------
(* read: the words of the line.                                             *)

\* From i on there is a new word, or nothing is left.
WordStart(i) ==
  /\ i \in 1 .. Len(line) + 1
  /\ i <= Len(line) => line[i] \notin reader.ifs /\ (i > 1 => line[i - 1] \in reader.ifs)

LEMMA WordsAre ==
  ASSUME line \in Seq(InputChars)
  PROVE  \A w : w \in WordsOfLine <=>
           w = <<w[1], w[2]>> /\ w[1] \in 1 .. Len(line) /\ w[2] \in 1 .. Len(line) /\ IsWord(w[1], w[2])
BY DEF WordsOfLine

\* The word that starts at i ends before all others from there on.
LEMMA FirstWord ==
  ASSUME line \in Seq(InputChars), NEW i \in 1 .. Len(line), WordStart(i)
  PROVE  LET w == <<i, UpTo(i, reader.ifs) - 1>>
         IN  /\ w \in WordsOfLine
             /\ \A v \in WordsOfLine : v[1] >= i => w[2] <= v[2]
<1> DEFINE stop == UpTo(i, reader.ifs)
           w == <<i, stop - 1>>
<1>1. Len(line) \in Nat /\ i \in 1 .. Len(line) + 1
  OBVIOUS
<1>2. /\ stop \in i .. Len(line) + 1
      /\ \A k \in i .. stop - 1 : line[k] \notin reader.ifs
      /\ stop <= Len(line) => line[stop] \in reader.ifs
  BY <1>1, UpToIs
<1> HIDE DEF stop
<1>3. i <= stop - 1
  BY <1>1, <1>2 DEF WordStart
<1>4. IsWord(i, stop - 1)
  <2>1. stop - 1 < Len(line) => line[(stop - 1) + 1] \in reader.ifs
    BY <1>1, <1>2
  <2>2. i > 1 => line[i - 1] \in reader.ifs
    BY <1>1 DEF WordStart
  <2> QED BY <1>2, <1>3, <2>1, <2>2 DEF IsWord
<1>5. w \in WordsOfLine
  <2>1. stop - 1 \in 1 .. Len(line)
    BY <1>1, <1>2, <1>3
  <2> QED BY <1>4, <2>1, WordsAre
<1>6. ASSUME NEW v \in WordsOfLine, v[1] >= i PROVE stop - 1 <= v[2]
  <2>1. v[1] \in 1 .. Len(line) /\ v[2] \in 1 .. Len(line) /\ IsWord(v[1], v[2])
    BY WordsAre
  <2>2. SUFFICES ASSUME v[2] < stop - 1 PROVE FALSE
    BY <2>1, <1>1, <1>2
  <2>3. v[2] < Len(line) /\ v[2] >= i
    BY <2>1, <2>2, <1>1, <1>2, <1>6 DEF IsWord
  <2>4. line[v[2] + 1] \in reader.ifs
    BY <2>1, <2>3 DEF IsWord
  <2>5. v[2] + 1 \in i .. stop - 1
    BY <2>1, <2>2, <2>3, <1>1, <1>2
  <2> QED BY <2>4, <2>5, <1>2
<1> QED BY <1>5, <1>6 DEF stop

\* The last word ends where the last character does that separates none.
LEMMA LastWord ==
  ASSUME line \in Seq(InputChars), NEW i \in 1 .. Len(line), WordStart(i)
  PROVE  /\ \E w \in WordsOfLine : w[1] >= i /\ w[2] = LastNot(i, reader.ifs)
         /\ \A v \in WordsOfLine : v[1] >= i => v[2] <= LastNot(i, reader.ifs)
<1> DEFINE e == LastNot(i, reader.ifs)
           B == {0} \cup {k \in 1 .. e : line[k] \in reader.ifs}
           b == Max(B) + 1
<1>1. Len(line) \in Nat /\ i \in 1 .. Len(line) + 1
  OBVIOUS
<1>2. /\ e \in i - 1 .. Len(line)
      /\ e >= i => line[e] \notin reader.ifs
      /\ \A k \in i .. Len(line) : k > e => line[k] \in reader.ifs
  BY <1>1, LastNotIs
<1> HIDE DEF e
<1>3. e >= i /\ e \in 1 .. Len(line) /\ e \in Nat
  BY <1>1, <1>2 DEF WordStart
<1>4. B \in SUBSET (0 .. e) /\ B # {}
  BY <1>3
<1>5. Max(B) \in B /\ \A k \in B : Max(B) >= k
  <2> HIDE DEF B
  <2> QED BY <1>3, <1>4, Extremes
<1>6. b \in 1 .. e /\ (b > 1 => line[b - 1] \in reader.ifs)
  <2>1. Max(B) \in 0 .. e /\ Max(B) # e /\ (Max(B) > 0 => line[Max(B)] \in reader.ifs)
    BY <1>2, <1>3, <1>5
  <2> HIDE DEF B
  <2>2. \A m \in 0 .. e : (m + 1) - 1 = m /\ (m + 1 > 1 <=> m > 0) /\ (m # e => m + 1 \in 1 .. e)
    BY <1>3
  <2> QED BY <2>1, <2>2
<1>7. b >= i
  <2>1. CASE i = 1
    BY <1>6, <2>1
  <2>2. CASE i # 1
    <3>1. line[i - 1] \in reader.ifs /\ i - 1 \in 1 .. e
      BY <2>2, <1>1, <1>3 DEF WordStart
    <3>2. Max(B) >= i - 1
      BY <3>1, <1>5
    <3>3. Max(B) \in Nat
      BY <1>4, <1>5
    <3> HIDE DEF B
    <3> QED BY <3>2, <3>3, <1>1
  <2> QED BY <2>1, <2>2
<1>8. IsWord(b, e)
  <2>1. ASSUME NEW k \in b .. e PROVE line[k] \notin reader.ifs
    <3>1. k \in 1 .. e /\ k > Max(B)
      <4>1. Max(B) \in Nat
        BY <1>4, <1>5
      <4> HIDE DEF B
      <4> QED BY <4>1, <1>3
    <3>2. Max(B) \in Nat
      BY <1>4, <1>5
    <3>3. k \notin B
      <4> HIDE DEF B
      <4> QED BY <3>1, <3>2, <1>5
    <3> QED BY <3>1, <3>3
  <2>2. e < Len(line) => line[e + 1] \in reader.ifs
    BY <1>1, <1>2, <1>3
  <2> HIDE DEF b
  <2> QED BY <2>1, <2>2, <1>6 DEF IsWord
<1>9. \E w \in WordsOfLine : w[1] >= i /\ w[2] = e
  <2>1. <<b, e>> \in WordsOfLine
    <3> HIDE DEF b
    <3>1. b \in 1 .. Len(line) /\ e \in 1 .. Len(line)
      BY <1>3, <1>6
    <3> QED BY <3>1, <1>8, WordsAre
  <2> HIDE DEF b
  <2> QED BY <2>1, <1>7
<1>10. ASSUME NEW v \in WordsOfLine, v[1] >= i PROVE v[2] <= e
  <2>1. v[1] \in 1 .. Len(line) /\ v[2] \in 1 .. Len(line) /\ v[1] <= v[2] /\ line[v[2]] \notin reader.ifs
    BY WordsAre DEF IsWord
  <2> QED BY <2>1, <1>1, <1>2, <1>3, <1>10
<1> QED BY <1>9, <1>10 DEF e

-----------------------------------------------------------------------------
(* read: which words the variables get.                                     *)

SameLine == line' = line /\ reader' = reader
Left(k) == {w \in WordsOfLine : k > 1 => w[1] > spans[k - 1][2]}
From(i) == {w \in WordsOfLine : w[1] >= i}

LEMMA SharedIs ==
  \A k : Shared(k) <=>
    /\ values[k] = SubSeq(line, spans[k][1], spans[k][2])
    /\ Left(k) = {} => values[k] = <<>>
    /\ Left(k) # {} =>
         /\ \E w \in Left(k) : w[1] = spans[k][1] /\ \A v \in Left(k) : w[1] <= v[1]
         /\ \E w \in Left(k) : w[2] = spans[k][2] /\ \A v \in Left(k) :
              IF k = reader.n THEN v[2] <= w[2] ELSE w[2] <= v[2]
BY DEF Shared, Left

LEMMA SameWords ==
  ASSUME SameLine
  PROVE  /\ WordsOfLine' = WordsOfLine
         /\ \A i : WordStart(i)' <=> WordStart(i)
BY DEF SameLine, WordsOfLine, IsWord, WordStart

\* The variables that have their values keep them.
LEMMA SharedKept ==
  ASSUME SameLine, NEW k \in Nat \ {0}, values'[k] = values[k], spans'[k] = spans[k],
         k > 1 => spans'[k - 1] = spans[k - 1], Shared(k)
  PROVE  Shared(k)'
<1>1. WordsOfLine' = WordsOfLine
  BY SameWords
<1>2. Left(k)' = Left(k)
  BY <1>1 DEF Left
<1>3. Shared(k)' <=>
        /\ values'[k] = SubSeq(line', spans'[k][1], spans'[k][2])
        /\ Left(k)' = {} => values'[k] = <<>>
        /\ Left(k)' # {} =>
             /\ \E w \in Left(k)' : w[1] = spans'[k][1] /\ \A v \in Left(k)' : w[1] <= v[1]
             /\ \E w \in Left(k)' : w[2] = spans'[k][2] /\ \A v \in Left(k)' :
                  IF k = reader'.n THEN v[2] <= w[2] ELSE w[2] <= v[2]
  BY DEF Shared, Left
<1> QED BY <1>2, <1>3, SharedIs DEF SameLine

\* The next variable gets its words.
LEMMA SharesNext ==
  ASSUME SameLine, line \in Seq(InputChars), spans \in Seq(Nat \X Nat), values \in Seq(Seq(InputChars)),
         Len(spans) = Len(values), NEW k \in Nat \ {0}, k = Len(values) + 1,
         NEW i, WordStart(i), Left(k) = From(i), NEW j, Assigns(i, j),
         j = IF k = reader.n THEN LastNot(i, reader.ifs) ELSE UpTo(i, reader.ifs) - 1
  PROVE  /\ Len(values') = k /\ Len(spans') = k /\ spans'[k] = <<i, j>>
         /\ (\A m \in 1 .. Len(values) : Shared(m)) => \A m \in 1 .. k : Shared(m)'
<1>0. /\ Len(line) \in Nat /\ i \in 1 .. Len(line) + 1
      /\ i <= Len(line) => line[i] \notin reader.ifs /\ (i > 1 => line[i - 1] \in reader.ifs)
  BY DEF WordStart
<1>1. /\ Len(values') = k /\ Len(spans') = k
      /\ values'[k] = SubSeq(line, i, j) /\ spans'[k] = <<i, j>>
      /\ \A m \in 1 .. Len(values) : values'[m] = values[m] /\ spans'[m] = spans[m]
  <2>1. j \in i - 1 .. Len(line)
    <3>1. LastNot(i, reader.ifs) \in i - 1 .. Len(line) /\ UpTo(i, reader.ifs) \in i .. Len(line) + 1
      BY <1>0, LastNotIs, UpToIs
    <3> QED BY <3>1, <1>0
  <2>2. SubSeq(line, i, j) \in Seq(InputChars) /\ <<i, j>> \in Nat \X Nat
    BY <2>1, <1>0
  <2>3. values' = Append(values, SubSeq(line, i, j)) /\ spans' = Append(spans, <<i, j>>)
    BY DEF Assigns
  <2>4. /\ Len(values') = k /\ values'[k] = SubSeq(line, i, j)
        /\ \A m \in 1 .. Len(values) : values'[m] = values[m]
    <3>1. ASSUME NEW e \in Seq(InputChars)
          PROVE  /\ Len(Append(values, e)) = k /\ Append(values, e)[k] = e
                 /\ \A m \in 1 .. Len(values) : Append(values, e)[m] = values[m]
      OBVIOUS
    <3> QED BY <3>1, <2>2, <2>3
  <2>5. /\ Len(spans') = k /\ spans'[k] = <<i, j>>
        /\ \A m \in 1 .. Len(spans) : spans'[m] = spans[m]
    <3>1. ASSUME NEW e \in Nat \X Nat
          PROVE  /\ Len(Append(spans, e)) = k /\ Append(spans, e)[k] = e
                 /\ \A m \in 1 .. Len(spans) : Append(spans, e)[m] = spans[m]
      OBVIOUS
    <3> QED BY <3>1, <2>2, <2>3
  <2> QED BY <2>4, <2>5
<1>2. ASSUME NEW m \in 1 .. Len(values), Shared(m) PROVE Shared(m)'
  <2>1. m \in Nat \ {0} /\ (m > 1 => m - 1 \in 1 .. Len(values))
    OBVIOUS
  <2> QED BY <1>1, <1>2, <2>1, SharedKept
<1>3. Left(k)' = From(i)
  <2>1. WordsOfLine' = WordsOfLine
    BY SameWords
  <2>2. k > 1 => k - 1 \in 1 .. Len(values)
    OBVIOUS
  <2>3. k > 1 => spans'[k - 1] = spans[k - 1]
    BY <2>2, <1>1
  <2>4. Left(k)' = Left(k)
    BY <2>1, <2>3 DEF Left
  <2> QED BY <2>4
<1>4. \A w \in From(i) : w \in WordsOfLine /\ w[1] >= i /\ w[1] \in 1 .. Len(line) /\ w[2] \in 1 .. Len(line)
  BY WordsAre DEF From
<1> DEFINE Sh == /\ SubSeq(line, i, j) = SubSeq(line, i, j)
                 /\ From(i) = {} => SubSeq(line, i, j) = <<>>
                 /\ From(i) # {} =>
                      /\ \E w \in From(i) : w[1] = i /\ \A v \in From(i) : w[1] <= v[1]
                      /\ \E w \in From(i) : w[2] = j /\ \A v \in From(i) :
                           IF k = reader.n THEN v[2] <= w[2] ELSE w[2] <= v[2]
<1>5. Sh
  <2>1. CASE i = Len(line) + 1
    <3>1. From(i) = {}
      <4>1. SUFFICES ASSUME NEW w \in From(i) PROVE FALSE
        OBVIOUS
      <4>2. w[1] >= i /\ w[1] \in 1 .. Len(line)
        BY <1>4
      <4> QED BY <4>2, <2>1, <1>0
    <3>2. j = i - 1
      <4>1. LastNot(i, reader.ifs) \in i - 1 .. Len(line) /\ UpTo(i, reader.ifs) \in i .. Len(line) + 1
        BY <1>0, LastNotIs, UpToIs
      <4> QED BY <4>1, <2>1, <1>0
    <3>3. SubSeq(line, i, j) = <<>>
      <4>1. i \in Int /\ j \in Int /\ j < i
        BY <2>1, <3>2, <1>0
      <4> QED BY ONLY <4>1, SubSeqEmpty, Zenon
    <3> QED BY <3>1, <3>3
  <2>2. CASE i # Len(line) + 1
    <3>0. i \in 1 .. Len(line)
      BY <2>2, <1>0
    <3> DEFINE w0 == <<i, UpTo(i, reader.ifs) - 1>>
    <3>1. w0 \in WordsOfLine /\ \A v \in WordsOfLine : v[1] >= i => w0[2] <= v[2]
      BY <3>0, FirstWord
    <3>2. w0 \in From(i) /\ w0[1] = i /\ w0[2] = UpTo(i, reader.ifs) - 1
      BY <3>0, <3>1 DEF From
    <3> HIDE DEF w0
    <3>3. \E w \in From(i) : w[1] = i /\ \A v \in From(i) : w[1] <= v[1]
      BY <3>2, <1>4
    <3>4. \E w \in From(i) : w[2] = j /\ \A v \in From(i) :
            IF k = reader.n THEN v[2] <= w[2] ELSE w[2] <= v[2]
      <4>1. CASE k = reader.n
        <5>1. /\ \E w \in WordsOfLine : w[1] >= i /\ w[2] = j
              /\ \A v \in WordsOfLine : v[1] >= i => v[2] <= j
          BY <3>0, <4>1, LastWord
        <5> QED BY <5>1, <4>1 DEF From
      <4>2. CASE k # reader.n
        <5>1. w0[2] = j
          BY <3>2, <4>2
        <5> QED BY <5>1, <3>1, <3>2, <4>2 DEF From
      <4> QED BY <4>1, <4>2
    <3> QED BY <3>2, <3>3, <3>4
  <2> QED BY <2>1, <2>2
<1>6. Shared(k)'
  <2>1. Shared(k)' <=>
          /\ values'[k] = SubSeq(line', spans'[k][1], spans'[k][2])
          /\ Left(k)' = {} => values'[k] = <<>>
          /\ Left(k)' # {} =>
               /\ \E w \in Left(k)' : w[1] = spans'[k][1] /\ \A v \in Left(k)' : w[1] <= v[1]
               /\ \E w \in Left(k)' : w[2] = spans'[k][2] /\ \A v \in Left(k)' :
                    IF k = reader'.n THEN v[2] <= w[2] ELSE w[2] <= v[2]
    BY DEF Shared, Left
  <2>2. spans'[k][1] = i /\ spans'[k][2] = j /\ line' = line /\ reader' = reader
    BY <1>1 DEF SameLine
  <2> QED BY <2>1, <2>2, <1>1, <1>3, <1>5
<1>7. 1 .. k = (1 .. Len(values)) \cup {k}
  BY <1>1
<1> QED BY <1>1, <1>2, <1>6, <1>7

\* Separators passed over leave no word behind.
LEMMA PastGap ==
  ASSUME line \in Seq(InputChars), NEW s \in 1 .. Len(line) + 1,
         s > 1 /\ s <= Len(line) => line[s] \in reader.ifs
  PROVE  LET p == Past(s, reader.ifs) IN WordStart(p) /\ From(s) = From(p)
<1> DEFINE p == Past(s, reader.ifs)
<1>1. /\ p \in s .. Len(line) + 1 /\ \A k \in s .. p - 1 : line[k] \in reader.ifs
      /\ p <= Len(line) => line[p] \notin reader.ifs
  BY PastIs
<1> HIDE DEF p
<1>2. Len(line) \in Nat
  OBVIOUS
<1>3. ASSUME p <= Len(line), p > 1 PROVE line[p - 1] \in reader.ifs
  <2>1. p # s
    BY <1>1, <1>2, <1>3
  <2>2. p - 1 \in s .. p - 1
    BY <2>1, <1>1, <1>2
  <2> QED BY <2>2, <1>1
<1>4. WordStart(p)
  BY <1>1, <1>2, <1>3 DEF WordStart
<1>5. ASSUME NEW w \in WordsOfLine, w[1] >= s PROVE w[1] >= p
  <2>1. w[1] \in 1 .. Len(line) /\ line[w[1]] \notin reader.ifs
    BY WordsAre DEF IsWord
  <2>2. SUFFICES ASSUME w[1] < p PROVE FALSE
    BY <2>1, <1>1, <1>2
  <2>3. w[1] \in s .. p - 1
    BY <2>1, <2>2, <1>1, <1>2, <1>5
  <2> QED BY <2>1, <2>3, <1>1
<1>6. ASSUME NEW w \in WordsOfLine, w[1] >= p PROVE w[1] >= s
  <2>1. w[1] \in 1 .. Len(line)
    BY WordsAre
  <2> QED BY <2>1, <1>1, <1>2, <1>6
<1>7. From(s) = From(p)
  BY <1>5, <1>6 DEF From
<1> QED BY <1>4, <1>7 DEF p

\* The words left begin at next.
SplitInv ==
  /\ phase \in {"idle", "read", "peek", "split"} => values = <<>> /\ spans = <<>>
  /\ phase = "assign" => Len(values) < reader.n /\ Len(spans) = Len(values)
  /\ reader.ifs \subseteq Whitespace =>
       /\ phase = "assign" => /\ WordStart(next) /\ Left(Len(values) + 1) = From(next)
                              /\ \A k \in 1 .. Len(values) : Shared(k)
       /\ phase = "done" => Len(values) = reader.n /\ \A k \in 1 .. reader.n : Shared(k)

LEMMA SplitKept ==
  ASSUME TypedInv, SplitInv, [ReadNext]_readVars
  PROVE  SplitInv'
<1>0. /\ line \in Seq(InputChars) /\ Len(line) \in Nat /\ next \in 1 .. Len(line) + 1
      /\ values \in Seq(Seq(InputChars)) /\ spans \in Seq(Nat \X Nat) /\ Len(values) \in Nat
      /\ reader.n \in Nat \ {0}
  BY ReadersAssumption DEF TypedInv, ReadTypeOK, NoReader
<1> DEFINE k == Len(values) + 1
<1>1. ASSUME phase \in {"idle", "read", "peek"}, phase' \in {"idle", "read", "peek", "split"},
             UNCHANGED <<values, spans>>
      PROVE  SplitInv'
  BY <1>1 DEF SplitInv
<1>2. ASSUME NEW c \in InputChars, Write(c) PROVE SplitInv'
  BY <1>1, <1>2 DEF Write
<1>3. ASSUME NEW r \in Readers, StartRead(r) PROVE SplitInv'
  BY <1>3 DEF StartRead, SplitInv
<1>4. CASE TakeOther \/ TakeNewline \/ TakeBackslash \/ PeekNewline \/ PeekOther \/ EndOfFile
  <2>1. /\ phase \in {"read", "peek"} /\ phase' \in {"read", "peek", "split"}
        /\ UNCHANGED <<values, spans>>
    BY <1>4 DEF TakeOther, TakeNewline, TakeBackslash, PeekNewline, PeekOther, EndOfFile, Ends, splitVars
  <2> QED BY <2>1, <1>1
<1>5. \A i : From(i) = {w \in WordsOfLine : w[1] >= i}
  BY DEF From
<1>6. /\ WordStart(Past(1, reader.ifs))
      /\ values = <<>> /\ spans = <<>> => Left(1) = From(Past(1, reader.ifs))
  <2>1. WordStart(Past(1, reader.ifs)) /\ From(1) = From(Past(1, reader.ifs))
    BY <1>0, PastGap
  <2>2. Left(1) = From(1)
    <3>1. \A w \in WordsOfLine : w[1] >= 1
      BY <1>0, WordsAre
    <3> QED BY <3>1 DEF Left, From
  <2> QED BY <2>1, <2>2
<1>7. CASE AssignNothing
  <2>1. /\ phase' = "done" /\ reader' = reader /\ line' = <<>>
        /\ values' = [m \in 1 .. reader.n |-> <<>>] /\ spans' = [m \in 1 .. reader.n |-> <<1, 0>>]
    BY <1>7 DEF AssignNothing, lineVars
  <2>2. Len(values') = reader.n
    BY <2>1, <1>0
  <2>3. WordsOfLine' = {}
    BY <2>1 DEF WordsOfLine
  <2>4. ASSUME NEW m \in 1 .. reader.n PROVE Shared(m)'
    <3>1. Left(m)' = {}
      BY <2>3 DEF Left
    <3>2. values'[m] = <<>> /\ spans'[m][1] = 1 /\ spans'[m][2] = 0
      BY <2>1
    <3>3. SubSeq(line', 1, 0) = <<>>
      BY ONLY SubSeqEmpty
    <3> QED BY <3>1, <3>2, <3>3 DEF Shared, Left
  <2> QED BY <2>1, <2>2, <2>4 DEF SplitInv
<1>8. CASE AssignWhole
  <2> DEFINE i == Past(1, reader.ifs)
             j == LastNot(i, reader.ifs)
  <2>1. SameLine /\ phase = "split" /\ phase' = "done" /\ reader.n = 1 /\ Assigns(i, j)
    BY <1>8 DEF AssignWhole, lineVars, SameLine
  <2>2. values = <<>> /\ spans = <<>> /\ Len(values) = 0 /\ Len(spans) = Len(values) /\ k = 1
    BY <2>1 DEF SplitInv
  <2>3. WordStart(i) /\ Left(k) = From(i)
    BY <2>2, <1>6
  <2>4. j = IF k = reader.n THEN LastNot(i, reader.ifs) ELSE UpTo(i, reader.ifs) - 1
    BY <2>1, <2>2
  <2> HIDE DEF i, j
  <2>5. k \in Nat \ {0}
    BY <2>2
  <2>6. Len(values') = k /\ \A m \in 1 .. k : Shared(m)'
    <3>1. \A m \in 1 .. Len(values) : Shared(m)
      BY <2>2
    <3> HIDE DEF k
    <3> QED BY <3>1, <2>1, <2>2, <2>3, <2>4, <2>5, <1>0, SharesNext DEF k
  <2> QED BY <2>1, <2>2, <2>6 DEF SplitInv, SameLine
<1>9. CASE SkipLeading
  <2>1. /\ SameLine /\ phase = "split" /\ phase' = "assign" /\ reader.n > 1
        /\ values' = values /\ spans' = spans /\ next' = Past(1, reader.ifs \cap Whitespace)
    BY <1>9 DEF SkipLeading, lineVars, SameLine
  <2>2. values = <<>> /\ spans = <<>>
    BY <2>1 DEF SplitInv
  <2>3. ASSUME reader.ifs \subseteq Whitespace
        PROVE  WordStart(next)' /\ Left(Len(values) + 1)' = From(next)'
    <3>1. next' = Past(1, reader.ifs)
      <4>1. reader.ifs \cap Whitespace = reader.ifs
        BY <2>3
      <4> QED BY <2>1, <4>1
    <3>2. WordStart(next') /\ Left(1) = From(next')
      BY <3>1, <2>2, <1>6
    <3>3. WordStart(next)'
      BY <3>2, <2>1 DEF WordStart, SameLine
    <3>4. Left(Len(values) + 1)' = Left(1) /\ From(next)' = From(next')
      BY <2>1, <2>2, SameWords DEF Left, From
    <3> QED BY <3>2, <3>3, <3>4
  <2>4. Len(values') = 0 /\ Len(spans') = 0
    BY <2>1, <2>2
  <2> QED BY <2>1, <2>3, <2>4, <1>0 DEF SplitInv, SameLine
<1>10. CASE AssignField
  <2> DEFINE stop == UpTo(next, reader.ifs)
             p == Past(stop, reader.ifs)
  <2>1. /\ SameLine /\ phase = "assign" /\ phase' = "assign" /\ k < reader.n
        /\ Assigns(next, stop - 1) /\ next' = p
    BY <1>10 DEF AssignField, lineVars, SameLine
  <2>2. /\ stop \in next .. Len(line) + 1
        /\ stop <= Len(line) => line[stop] \in reader.ifs
    BY <1>0, UpToIs
  <2>3. Len(spans) = Len(values)
    BY <2>1 DEF SplitInv
  <2>4. stop - 1 = IF k = reader.n THEN LastNot(next, reader.ifs) ELSE UpTo(next, reader.ifs) - 1
    BY <2>1, <1>0
  <2> HIDE DEF stop
  <2>5. stop \in 1 .. Len(line) + 1
    BY <2>2, <1>0
  <2>6. WordStart(p) /\ From(stop) = From(p)
    BY <2>2, <2>5, <1>0, PastGap
  <2> HIDE DEF p
  <2>7. k \in Nat \ {0}
    BY <1>0
  <2>8. Len(values') = k /\ Len(spans') = k
    BY <2>1, <2>3, <1>0 DEF Assigns
  <2>9. ASSUME reader.ifs \subseteq Whitespace
        PROVE  /\ WordStart(next)' /\ Left(Len(values) + 1)' = From(next)'
               /\ \A m \in 1 .. k : Shared(m)'
    <3>1. /\ WordStart(next) /\ Left(k) = From(next) /\ \A m \in 1 .. Len(values) : Shared(m)
      BY <2>1, <2>9 DEF SplitInv
    <3>2. spans'[k] = <<next, stop - 1>> /\ \A m \in 1 .. k : Shared(m)'
      <4> HIDE DEF k
      <4> QED BY <3>1, <2>1, <2>3, <2>4, <2>7, <1>0, SharesNext DEF k
    <3>3. WordStart(next)'
      BY <2>1, <2>6 DEF WordStart, SameLine
    <3>4. From(next)' = From(p)
      BY <2>1, SameWords DEF From
    <3>5. Left(Len(values) + 1)' = {w \in WordsOfLine : w[1] > stop - 1}
      <4>1. Left(Len(values) + 1)' = {w \in WordsOfLine' : Len(values') + 1 > 1 => w[1] > spans'[Len(values') + 1 - 1][2]}
        BY DEF Left
      <4>2. Len(values') + 1 > 1 /\ Len(values') + 1 - 1 = k
        BY <2>7, <2>8
      <4>3. spans'[k][2] = stop - 1
        BY <3>2
      <4>4. WordsOfLine' = WordsOfLine
        BY <2>1, SameWords
      <4> HIDE DEF k
      <4> QED BY <4>1, <4>2, <4>3, <4>4
    <3>6. {w \in WordsOfLine : w[1] > stop - 1} = From(stop)
      <4>1. \A w \in WordsOfLine : w[1] > stop - 1 <=> w[1] >= stop
        BY <2>5, <1>0, WordsAre
      <4> QED BY <4>1 DEF From
    <3> QED BY <3>2, <3>3, <3>4, <3>5, <3>6, <2>6
  <2> QED BY <2>1, <2>8, <2>9 DEF SplitInv, SameLine
<1>11. CASE AssignRest
  <2> DEFINE j == LastNot(next, reader.ifs \cap Whitespace)
  <2>1. /\ SameLine /\ phase = "assign" /\ phase' = "done" /\ k = reader.n /\ Assigns(next, j)
    BY <1>11 DEF AssignRest, lineVars, SameLine
  <2>2. Len(spans) = Len(values)
    BY <2>1 DEF SplitInv
  <2>3. ASSUME reader.ifs \subseteq Whitespace
        PROVE  Len(values') = k /\ \A m \in 1 .. k : Shared(m)'
    <3>1. /\ WordStart(next) /\ Left(k) = From(next) /\ \A m \in 1 .. Len(values) : Shared(m)
      BY <2>1, <2>3 DEF SplitInv
    <3>2. j = IF k = reader.n THEN LastNot(next, reader.ifs) ELSE UpTo(next, reader.ifs) - 1
      <4>1. reader.ifs \cap Whitespace = reader.ifs
        BY <2>3
      <4> QED BY <2>1, <4>1
    <3>3. k \in Nat \ {0}
      BY <1>0
    <3> HIDE DEF j, k
    <3> QED BY <3>1, <3>2, <3>3, <2>1, <2>2, <1>0, SharesNext DEF k
  <2> QED BY <2>1, <2>3 DEF SplitInv, SameLine
<1>12. CASE UNCHANGED readVars
  <2> USE <1>12 DEF readVars
  <2>1. WordsOfLine' = WordsOfLine /\ (WordStart(next)' <=> WordStart(next))
    BY SameWords DEF SameLine, WordStart
  <2>2. Left(Len(values) + 1)' = Left(Len(values) + 1) /\ From(next)' = From(next)
    BY <2>1 DEF Left, From
  <2>3. \A m : Shared(m)' <=> Shared(m)
    BY <2>1 DEF Shared
  <2> QED BY <2>1, <2>2, <2>3 DEF SplitInv
<1> QED
  BY <1>2, <1>3, <1>4, <1>7, <1>8, <1>9, <1>10, <1>11, <1>12 DEF ReadNext

ReadInv == TypedInv /\ LineInv /\ SplitInv

LEMMA ReadInvariant == ReadSpec => []ReadInv
<1>1. ReadInit => ReadInv
  <2> SUFFICES ASSUME ReadInit PROVE ReadInv
    OBVIOUS
  <2> USE DEF ReadInit
  <2>1. ReadTypeOK
    <3>1. <<>> \in Seq(InputChars) /\ <<>> \in Seq(Seq(InputChars)) /\ <<>> \in Seq(1 .. Len(stdin))
          /\ <<>> \in Seq(Nat \X Nat) /\ Len(<<>>) = 0
      OBVIOUS
    <3>2. {taken, from} \subseteq 0 .. Len(stdin) /\ next \in 1 .. Len(line) + 1
      BY <3>1
    <3>3. reader \in Readers \cup {NoReader} /\ {continued, eof} \subseteq BOOLEAN
      OBVIOUS
    <3> QED BY <3>1, <3>2, <3>3 DEF ReadTypeOK
  <2>2. TypedInv
    BY <2>1 DEF TypedInv
  <2>3. LineInv
    BY <2>1 DEF LineInv, LineTyped, ReadTypeOK
  <2>4. SplitInv
    BY DEF SplitInv
  <2> QED BY <2>2, <2>3, <2>4 DEF ReadInv
<1>2. ReadInv /\ [ReadNext]_readVars => ReadInv'
  BY TypesKept, LineKept, SplitKept DEF ReadInv
<1> QED BY <1>1, <1>2, PTL DEF ReadSpec

\* The values of the variables of read are of their types.
THEOREM ReadTyped == ReadSpec => []ReadTypeOK
<1>1. ReadInv => ReadTypeOK
  BY DEF ReadInv, TypedInv
<1> QED BY <1>1, ReadInvariant, PTL

(* read takes one line, with the characters after a backslash as they are,  *)
(* and leaves the rest; where IFS is white space each variable gets the     *)
(* next word, the last one all that is left, for every input and every      *)
(* sequence of calls (builtin_read).                                        *)
THEOREM LinesAreRead == ReadSpec => []ReadsLine
<1>1. ReadInv => ReadsLine
  BY DEF ReadInv, LineInv, SplitInv, ReadsLine
<1> QED BY <1>1, ReadInvariant, PTL
==============================================================================
