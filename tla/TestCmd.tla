------------------------------ MODULE TestCmd ------------------------------
(***************************************************************************)
(* The builtin test (src/src/test_cmd.rs): a recursive-descent evaluation   *)
(* of its arguments, which has to guess which of them are operators.        *)
(***************************************************************************)
EXTENDS Integers, Sequences

CONSTANTS
  Less(_, _),      \* the order of texts
  IntOf(_),        \* parse::<i64> on texts, 0 where that fails
  HasFile(_, _),   \* what -e, -f, -d, ... say of a file
  Newer(_, _)      \* the order of the files' times

IntOps    == {"-eq", "-ne", "-lt", "-le", "-gt", "-ge"}
FileOps   == {"-nt", "-ot", "-ef"}
BinaryOps == {"=", "==", "!=", "<", ">"} \cup IntOps \cup FileOps
FileTests == {"-e", "-f", "-d", "-L", "-h", "-r", "-w", "-x", "-s", "-t", "-p", "-b", "-c",
              "-S", "-u", "-g", "-k"}
UnaryOps  == {"-n", "-z"} \cup FileTests

\* What cannot be the operand of a unary operator.
NoOperand == {")", "-a", "-o", "=", "!="} \cup IntOps

Compared(op, a, b) ==
  CASE op \in {"=", "=="} -> a = b
    [] op = "!=" -> a # b
    [] op = "<"  -> Less(a, b)
    [] op = ">"  -> Less(b, a)
    [] op = "-eq" -> IntOf(a) = IntOf(b)
    [] op = "-ne" -> IntOf(a) # IntOf(b)
    [] op = "-lt" -> IntOf(a) < IntOf(b)
    [] op = "-le" -> IntOf(a) <= IntOf(b)
    [] op = "-gt" -> IntOf(a) > IntOf(b)
    [] op = "-ge" -> IntOf(a) >= IntOf(b)
    [] op = "-nt" -> HasFile("-e", a) /\ (HasFile("-e", b) => Newer(a, b))
    [] op = "-ot" -> HasFile("-e", b) /\ (HasFile("-e", a) => Newer(b, a))
    [] op = "-ef" -> HasFile("-e", a) /\ a = b
Tested(op, a) ==
  CASE op = "-n" -> a # "" [] op = "-z" -> a = "" [] OTHER -> HasFile(op, a)

ArgAt(args, i) == IF i \in DOMAIN args THEN args[i] ELSE ""
Parsed(val, pos) == [val |-> val, pos |-> pos]

RECURSIVE TestOr(_, _), TestPrimary(_, _)

TestPrimary(args, i) ==
  IF i > Len(args) THEN Parsed(FALSE, i)
  ELSE IF args[i] = "("
  THEN LET inner == TestOr(args, i + 1)
       IN  Parsed(inner.val, IF ArgAt(args, inner.pos) = ")" THEN inner.pos + 1 ELSE inner.pos)
  ELSE IF ArgAt(args, i + 1) \in BinaryOps
  THEN Parsed(Compared(args[i + 1], args[i], ArgAt(args, i + 2)), i + 3)
  ELSE IF args[i] \in UnaryOps /\ i < Len(args) /\ args[i + 1] \notin NoOperand
  THEN Parsed(Tested(args[i], args[i + 1]), i + 2)
  ELSE Parsed(args[i] # "", i + 1)

TestNot(args, i) ==
  IF ArgAt(args, i) = "!"
  THEN LET r == TestPrimary(args, i + 1) IN Parsed(~r.val, r.pos)
  ELSE TestPrimary(args, i)

RECURSIVE AndRest(_, _), OrRest(_, _)
\* Mutant of AndRest: "!" is not looked for after -a.
AndPrimary(args, r) ==
  IF ArgAt(args, r.pos) = "-a"
  THEN LET right == TestPrimary(args, r.pos + 1)
       IN  AndRest(args, Parsed(r.val /\ right.val, right.pos))
  ELSE r
AndRest(args, r) ==
  IF ArgAt(args, r.pos) = "-a"
  THEN LET right == TestNot(args, r.pos + 1)
       IN  AndRest(args, Parsed(r.val /\ right.val, right.pos))
  ELSE r
TestAnd(args, i) == AndRest(args, TestNot(args, i))

OrRest(args, r) ==
  IF ArgAt(args, r.pos) = "-o"
  THEN LET right == TestAnd(args, r.pos + 1)
       IN  OrRest(args, Parsed(r.val \/ right.val, right.pos))
  ELSE r
TestOr(args, i) == OrRest(args, TestAnd(args, i))

\* The exit status: 2 where arguments are left over.
Status(b) == IF b THEN 0 ELSE 1
TestEval(args) ==
  LET r == TestOr(args, 1)
  IN  IF args = <<>> THEN 1 ELSE IF r.pos <= Len(args) THEN 2 ELSE Status(r.val)

-----------------------------------------------------------------------------
(* What test means.  Up to four arguments it is their number that decides;  *)
(* "unspecified" is left to the shell.                                      *)

Unspecified == 3
Negated(status) == CASE status = 0 -> 1 [] status = 1 -> 0 [] OTHER -> status
OneArgument(a) == Status(a # "")
TwoArguments(a, b) ==
  IF a = "!" THEN Negated(OneArgument(b))
  ELSE IF a \in UnaryOps THEN Status(Tested(a, b)) ELSE Unspecified
ThreeArguments(a, b, c) ==
  IF b \in BinaryOps THEN Status(Compared(b, a, c))
  ELSE IF b = "-a" THEN Status(a # "" /\ c # "")
  ELSE IF b = "-o" THEN Status(a # "" \/ c # "")
  ELSE IF a = "!" THEN Negated(TwoArguments(b, c))
  ELSE IF a = "(" /\ c = ")" THEN OneArgument(b) ELSE Unspecified
FourArguments(a, b, c, d) ==
  IF a = "!" THEN Negated(ThreeArguments(b, c, d))
  ELSE IF a = "(" /\ d = ")" THEN TwoArguments(b, c) ELSE Unspecified
ByNumber(args) ==
  CASE Len(args) = 0 -> 1
    [] Len(args) = 1 -> OneArgument(args[1])
    [] Len(args) = 2 -> TwoArguments(args[1], args[2])
    [] Len(args) = 3 -> ThreeArguments(args[1], args[2], args[3])
    [] Len(args) = 4 -> FourArguments(args[1], args[2], args[3], args[4])
    [] OTHER -> Unspecified

\* Operands that the code takes for operators: "!" and "(" before an operator,
\* "!" before another one or ")", "(" before nothing, and operators at the
\* right of a unary one; and "!" in front of a -a or -o, which it does not reach.
Misread(args) ==
  \/ args # <<>> /\ args[Len(args)] = "("
  \/ \E i \in 1 .. Len(args) - 1 :
       \/ args[i] \in {"!", "("} /\ args[i + 1] \in BinaryOps \cup {"-a", "-o"}
       \/ args[i] = "!" /\ args[i + 1] \in {"!", ")"}
       \/ args[i] \in UnaryOps /\ args[i + 1] \in NoOperand \cup BinaryOps
       \/ args[i] = "(" /\ args[i + 1] = ")"
       \/ args[i] = "!" /\ i + 2 < Len(args) /\ args[i + 2] \in {"-a", "-o"}

\* Longer tests: trees of primaries, each with its arguments and its truth.
Primary(args, val) == [op |-> "primary", args |-> args, val |-> val, kids |-> <<>>]
Compound(op, kids, val) == [op |-> op, args |-> <<>>, val |-> val, kids |-> kids]
Not(a)    == Compound("!", <<a>>, ~a.val)
And(a, b) == Compound("-a", <<a, b>>, a.val /\ b.val)
Or(a, b)  == Compound("-o", <<a, b>>, a.val \/ b.val)

Levels == [op \in {"-o", "-a", "!", "primary"} |->
             CASE op = "-o" -> 0 [] op = "-a" -> 1 [] op = "!" -> 2 [] op = "primary" -> 3]
RECURSIVE Args(_), ArgsAt(_, _)
ArgsAt(t, level) == IF Levels[t.op] < level THEN <<"(">> \o Args(t) \o <<")">> ELSE Args(t)
Args(t) ==
  CASE t.op = "primary" -> t.args
    [] t.op = "!" -> <<"!">> \o ArgsAt(t.kids[1], 3)
    [] OTHER -> ArgsAt(t.kids[1], Levels[t.op]) \o <<t.op>> \o ArgsAt(t.kids[2], Levels[t.op])
=============================================================================
