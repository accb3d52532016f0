-------------------------------- MODULE Words --------------------------------
(***************************************************************************)
(* The shell's functions on texts, each against what it is for: word        *)
(* expansion (Expand), arithmetic (Arith) and test (TestCmd).  A behaviour   *)
(* builds one input, a piece at a time; the invariants compare what the     *)
(* code makes of it with what the input means.  Or it is a behaviour of     *)
(* Matching, Splitting, Getopts or Reading, with nothing else in it.        *)
(***************************************************************************)
EXTENDS Expand, Matching, Getopts, Reading

CONSTANTS
  Less(_, _), IntOf(_), HasFile(_, _), Newer(_, _),   \* of TestCmd
  Width, Variables, Frozen,                           \* of Arith
  Leaves, Operands, Numbers, MaxOperators,     \* of expressions
  Envs, Parts, MaxParts,    \* the shells that expand words, and the words' parts
  Arguments, MaxArguments,  \* of test
  Primaries, MaxTests       \* the tests that longer ones are made of

A == INSTANCE Arith
T == INSTANCE TestCmd

VARIABLES
  kind,    \* what is being built
  size,    \* of how many pieces
  input    \* so far

wordVars == <<kind, size, input>>
vars == <<wordVars, matchingVars, fieldVars, optionVars, readVars>>

Starts(k, i) == kind = k /\ size = 0 /\ input = i
WordInit ==
  \/ \E e \in Leaves : Starts("expression", e)
  \/ \E env \in Envs : Starts("word", [env |-> env, parts |-> <<>>])
  \/ Starts("arguments", <<>>)
  \/ \E p \in Primaries : Starts("test", p)
  \/ \E k \in {"pattern", "fields", "options", "input"} : Starts(k, <<>>)

Grows(k, max, i) == kind = k /\ size < max /\ size' = size + 1 /\ input' = i /\ kind' = kind

Operate ==
  \E e \in {A!Unary(o, input) : o \in A!UnaryOps}
           \cup {A!Binary(o, input, x) : o \in A!BinaryOps, x \in Operands}
           \cup {A!Binary(o, x, input) : o \in A!BinaryOps, x \in Operands}
           \cup {A!Assigns(x, o, input) : x \in Variables, o \in A!AssignOps}
           \cup {A!Choice(input, x, y) : x \in Operands, y \in Operands}
           \cup {A!Choice(x, input, y) : x \in Operands, y \in Operands}
           \cup {A!Choice(x, y, input) : x \in Operands, y \in Operands} :
    Grows("expression", MaxOperators, e)

AddPart ==
  \E p \in Parts : Grows("word", MaxParts, [input EXCEPT !.parts = Append(@, p)])

AddArgument == \E a \in Arguments : Grows("arguments", MaxArguments, Append(input, a))

CombineTests ==
  \E t \in {T!Not(input)} \cup {T!And(input, p) : p \in Primaries} \cup {T!Or(p, input) : p \in Primaries}
           \cup {T!Or(input, p) : p \in Primaries} \cup {T!And(p, input) : p \in Primaries} :
    Grows("test", MaxTests, t)

WordNext ==
  \/ kind = "expression" /\ Operate
  \/ kind = "word" /\ AddPart
  \/ kind = "arguments" /\ AddArgument
  \/ kind = "test" /\ CombineTests

Init ==
  /\ WordInit /\ MatchingInit /\ SplitInit /\ OptionsInit /\ ReadInit
  /\ kind # "fields" => delims = <<>>
Next ==
  \/ WordNext /\ UNCHANGED <<matchingVars, fieldVars, optionVars, readVars>>
  \/ kind = "pattern" /\ MatchingNext /\ UNCHANGED <<wordVars, fieldVars, optionVars, readVars>>
  \/ kind = "fields" /\ SplitNext /\ UNCHANGED <<wordVars, matchingVars, optionVars, readVars>>
  \/ kind = "options" /\ OptionsNext /\ UNCHANGED <<wordVars, matchingVars, fieldVars, readVars>>
  \/ kind = "input" /\ ReadNext /\ UNCHANGED <<wordVars, matchingVars, fieldVars, optionVars>>

Spec == Init /\ [][Next]_vars

Built(k) == kind = k /\ size > 0

-----------------------------------------------------------------------------
(* Arithmetic.                                                              *)

(* An expression written with as few parentheses as precedence and          *)
(* associativity allow is evaluated to its meaning, its assignments made    *)
(* exactly where their operand is evaluated; an error stands for an error,  *)
(* or for a division in an operand that is not evaluated (parse_assignment  *)
(* and everything below it).                                                *)
ArithMeaning ==
  kind = "expression" =>
    \A n \in Numbers :
      LET before == [x \in Variables |-> n]
          got    == A!EvalArith(A!Chars(input), before)
          meant  == A!Meaning(input, before)
      IN  /\ got.out = "value" =>
               meant.out = "value" /\ got.val = meant.val /\ got.p.vars = meant.vars
          /\ (meant.out = "value" /\ ~A!MayDivide(input)) => got.out = "value"

-----------------------------------------------------------------------------
(* Words.                                                                   *)

Parted == input.parts
Shell  == input.env
WithoutPatterns(fields) ==
  Shell.noglob \/ \A i \in DOMAIN fields : \A k \in DOMAIN fields[i] : fields[i][k] \notin {"*", "?", "["}

QuotedWord ==
  /\ Built("word") /\ AllQuoted(Parted)
  /\ \A i \in DOMAIN Parted : Tabled(SelectSeq(Parted[i].word, LAMBDA p : ~IsAt(p)))
  /\ ~(HasAt(Parted) /\ Shell.args = <<>>)
Kept(fields) ==
  LET r == WordToFields(Parted, Shell) IN r.ok => r.frags = [i \in DOMAIN fields |-> {fields[i]}]

\* As a pattern, a quoted word matches its own text and no other.
MatchesItself ==
  LET pat == PatternOf(Parted, Shell, <<>>)
      own == TextOf(Parted, Shell).frags
  IN  pat.ok => \A s \in Texts \cup {own} : FnMatch(pat.frags, s) = (s = own)

(* A quoted word is one field, whatever the values in it and whatever IFS;  *)
(* only "$@" gives as many as there are parameters, each unchanged, the     *)
(* text around it with the first and the last (expand_word_parts), unless   *)
(* there are no parameters, or characters of patterns in a field.  As a     *)
(* pattern it matches itself: what is special in the values has lost its    *)
(* meaning (expand_pattern).                                                *)
QuotedKept ==
  /\ QuotedWord => LET fields == QuotedFields(Parted, Shell) IN WithoutPatterns(fields) => Kept(fields)
  /\ (Built("word") /\ AllQuoted(Parted) /\ Tabled(Parted)) => MatchesItself

(* What ast.rs says of double quotes, "no field splitting or globbing", and *)
(* of single quotes, "no expansion", also where there are such characters.  *)
NeverGlobbed == QuotedWord => Kept(QuotedFields(Parted, Shell))

(* Parameter operators yield what the table of POSIX says for a parameter   *)
(* that is set, empty or unset, whatever the parts before it assigned; the  *)
(* words that are not needed are not expanded, and assign nothing           *)
(* (expand_param_to_fragments, expand_param).                               *)
ParamsYield ==
  (Built("word") /\ Tabled(Parted)) =>
    LET r == ExpandParts(Parted, Shell, TRUE, FALSE)
        t == TextOf(Parted, Shell)
    IN  /\ r.ok = t.ok
        /\ r.ok => Flat(r.frags) = t.frags /\ r.env = t.env

-----------------------------------------------------------------------------
(* test.                                                                    *)

(* Up to four arguments, test decides as POSIX does by their number, even   *)
(* where an operand looks like an operator, but for Misread ones and what   *)
(* POSIX leaves open (test_eval).  In longer tests -o binds less than -a,   *)
(* -a less than "!", and parentheses group (test_or, test_and, test_not).   *)
TestMeaning ==
  /\ kind = "arguments" =>
       LET status == T!ByNumber(input)
       IN  (status # T!Unspecified /\ ~T!Misread(input)) => T!TestEval(input) = status
  /\ kind = "test" => T!TestEval(T!Args(input)) = T!Status(input.val)

=============================================================================
