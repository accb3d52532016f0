------------------------------ MODULE Getopts ------------------------------
(***************************************************************************)
(* The builtin getopts (builtin_getopts in src/src/builtins.rs), over the   *)
(* calls that a script makes of it.  What it remembers from one call to the *)
(* next are shell variables, which the script may set too: it starts over   *)
(* by setting OPTIND to 1.  Words are sequences of characters.              *)
(***************************************************************************)
EXTENDS Integers, Sequences, FiniteSets, FiniteSetsExt

CONSTANTS
  Specs,          \* the option strings
  OptionWords,    \* the words that argument lists are made of
  MaxOptionWords

ASSUME OptionsAssumption ==
  /\ Specs \cup OptionWords \subseteq Seq(STRING)
  /\ MaxOptionWords \in Nat

NotSet == <<"none">>   \* of a variable that is not set
Question == <<"?">>
Values == Seq(STRING) \cup {NotSet, Question}

VARIABLES
  spec, argv,     \* the arguments of the calls
  ind, pos,       \* OPTIND and _OPTPOS: which letter of which word comes next
  name, optarg,   \* the variables that a call gives its result in
  more,           \* whether the last call succeeded
  seen,           \* history: what the calls gave, and for which letter
  start           \* history: pos when the list was begun

optionVars == <<spec, argv, ind, pos, name, optarg, more, seen, start>>

OptionsInit ==
  /\ spec = <<>> /\ argv = <<>> /\ ind = 1 /\ pos = 1
  /\ name = NotSet /\ optarg = NotSet
  /\ more = TRUE /\ seen = <<>> /\ start = 1

-----------------------------------------------------------------------------
(* What a call reads.                                                       *)

IsOption(word) == Len(word) > 1 /\ word[1] = "-" /\ word # <<"-", "-">>
AtOption(i) == i \in DOMAIN argv /\ IsOption(argv[i])

Known(c) == \E k \in DOMAIN spec : spec[k] = c
Takes(c) ==
  /\ Known(c)
  /\ LET k == Min({m \in DOMAIN spec : spec[m] = c}) IN k < Len(spec) /\ spec[k + 1] = ":"

\* A position past the last letter of its word stands for the next word.
Place(i, p) == [ind |-> i, pos |-> p]
At == IF AtOption(ind) /\ pos >= Len(argv[ind]) THEN Place(ind + 1, 1) ELSE Place(ind, pos)
Letter == argv[At.ind][At.pos + 1]
IsLast == At.pos + 1 >= Len(argv[At.ind])

-----------------------------------------------------------------------------
(* What it does.                                                            *)

Goto(i, p) == ind' = i /\ pos' = p
NextLetter == IF IsLast THEN Goto(At.ind + 1, 1) ELSE Goto(At.ind, At.pos + 1)
Gives(n, arg) ==
  /\ name' = n /\ more' = TRUE
  /\ seen' = Append(seen, [at |-> At, name |-> n, arg |-> arg])

NoOption ==
  /\ ~AtOption(At.ind)
  /\ Goto(At.ind, At.pos) /\ name' = Question /\ more' = FALSE
  /\ UNCHANGED <<optarg, seen>>

WrongLetter ==
  /\ AtOption(At.ind) /\ ~Known(Letter)
  /\ optarg' = IF spec # <<>> /\ spec[1] = ":" THEN <<Letter>> ELSE optarg
  /\ NextLetter /\ Gives(Question, NotSet)

Flag ==
  /\ AtOption(At.ind) /\ Known(Letter) /\ ~Takes(Letter)
  /\ optarg' = NotSet
  /\ NextLetter /\ Gives(<<Letter>>, NotSet)

\* The argument is the rest of the word, or the next word.
ArgumentWithin ==
  /\ AtOption(At.ind) /\ Takes(Letter) /\ ~IsLast
  /\ optarg' = SubSeq(argv[At.ind], At.pos + 2, Len(argv[At.ind]))
  /\ Goto(At.ind + 1, 1) /\ Gives(<<Letter>>, optarg')

\* Mutant of PastArgument: the argument is read for options again.
PastArgumentShort == Goto(At.ind + 1, 1)
PastArgument == Goto(At.ind + 2, 1)
ArgumentApart ==
  /\ AtOption(At.ind) /\ Takes(Letter) /\ IsLast /\ At.ind < Len(argv)
  /\ optarg' = argv[At.ind + 1]
  /\ PastArgument /\ Gives(<<Letter>>, optarg')

\* The position stays.
NoArgument ==
  /\ AtOption(At.ind) /\ Takes(Letter) /\ IsLast /\ At.ind >= Len(argv)
  /\ Goto(At.ind + 1, At.pos) /\ Gives(Question, NotSet)
  /\ UNCHANGED optarg

Call ==
  /\ NoOption \/ WrongLetter \/ Flag \/ ArgumentWithin \/ ArgumentApart \/ NoArgument
  /\ UNCHANGED <<spec, argv, start>>

\* The script starts over with OPTIND=1; then it gives the words of its list.
StartOver(s) ==
  /\ spec' = s /\ argv' = <<>> /\ ind' = 1
  /\ more' = TRUE /\ seen' = <<>> /\ start' = pos
  /\ UNCHANGED <<pos, name, optarg>>
GiveWord(w) ==
  /\ more /\ seen = <<>> /\ ind = 1 /\ Len(argv) < MaxOptionWords
  /\ argv' = Append(argv, w)
  /\ UNCHANGED <<spec, ind, pos, name, optarg, more, seen, start>>

OptionsNext ==
  \/ \E s \in Specs : StartOver(s)
  \/ \E w \in OptionWords : GiveWord(w)
  \/ Call

OptionsSpec == OptionsInit /\ [][OptionsNext]_optionVars

OptionsTypeOK ==
  /\ spec \in Seq(STRING) /\ argv \in Seq(Seq(STRING))
  /\ ind \in Nat \ {0} /\ pos \in Nat \ {0} /\ start \in Nat \ {0}
  /\ name \in Values /\ optarg \in Values /\ more \in BOOLEAN
  /\ seen \in Seq([at : [ind : Nat, pos : Nat], name : Values, arg : Values])

-----------------------------------------------------------------------------
(* The options of an argument list.                                         *)

\* The letters of a word, up to one that takes an argument; the argument is
\* in the next word if it has no place in this one.
Letters(word) == {p \in 1 .. Len(word) - 1 : \A q \in 1 .. p - 1 : ~Takes(word[q + 1])}
Open(word) == IsOption(word) /\ Len(word) - 1 \in Letters(word) /\ Takes(word[Len(word)])

\* Of words each of which would take the next one, every other one does.
IsArgument(i) == LET r == i - 1 - Max({0} \cup {k \in 1 .. i - 1 : ~Open(argv[k])}) IN r % 2 = 1
Operand == Min({Len(argv) + 1} \cup {i \in DOMAIN argv : ~IsArgument(i) /\ ~IsOption(argv[i])})

Options ==
  UNION {{Place(i, p) : p \in Letters(argv[i])} : i \in {k \in 1 .. Operand - 1 : ~IsArgument(k)}}

\* What the call for an option gives.
Result(o) ==
  LET word == argv[o.ind]
      c    == word[o.pos + 1]
      last == o.pos + 1 = Len(word)
      gives(n, arg) == [at |-> o, name |-> n, arg |-> arg]
  IN  IF ~Known(c) \/ (Takes(c) /\ last /\ o.ind = Len(argv)) THEN gives(Question, NotSet)
      ELSE IF ~Takes(c) THEN gives(<<c>>, NotSet)
      ELSE IF last THEN gives(<<c>>, argv[o.ind + 1])
      ELSE gives(<<c>>, SubSeq(word, o.pos + 2, Len(word)))

Precedes(o, q) == o.ind < q.ind \/ (o.ind = q.ind /\ o.pos < q.pos)

\* _OPTPOS was 1 when the list was begun: the code does not ensure it of a
\* list that follows one left within a word, or whose last option lacks its
\* argument.
NoPositionLeft == start = 1

(* A loop of getopts finds the options of the arguments in order, grouped   *)
(* or not, with the argument attached or apart, and ends with OPTIND at the *)
(* first operand, whatever its calls leave behind in between                *)
(* (builtin_getopts); if no position was left behind by an earlier list.    *)
GetoptsFinds ==
  NoPositionLeft =>
    LET passed == {o \in Options : Precedes(o, At)}
    IN  /\ \A m, n \in DOMAIN seen : m < n => Precedes(seen[m].at, seen[n].at)
        /\ {seen[n] : n \in DOMAIN seen} = {Result(o) : o \in passed}
        /\ ~more => passed = Options /\ ind = Operand
=============================================================================
