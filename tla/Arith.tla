------------------------------- MODULE Arith -------------------------------
(***************************************************************************)
(* Arithmetic expansion (src/src/arith.rs): the tokens of an expression,    *)
(* the recursive-descent parser that evaluates as it parses, and its        *)
(* noeval flag, which keeps operands that are not to be evaluated from      *)
(* assigning.  Integers have Width bits and wrap, as in a release build.    *)
(***************************************************************************)
EXTENDS Integers, Sequences, FiniteSets, Bitwise

CONSTANTS
  Width,      \* the bits of an integer, a power of two
  Variables,  \* one-letter names of variables
  Frozen      \* those that are read-only

Top == 2 ^ (Width - 1)
Wrap(n) == ((n + Top) % (2 * Top)) - Top
Bits(n) == n % (2 * Top)

-----------------------------------------------------------------------------
(* tokenize: numbers in three bases, names, and the longest operator.       *)

Digit == [c \in {"0", "1", "2", "3", "4", "5", "6", "7", "8", "9", "a", "b", "c", "d", "e", "f"} |->
  CASE c = "0" -> 0 [] c = "1" -> 1 [] c = "2" -> 2 [] c = "3" -> 3 [] c = "4" -> 4
    [] c = "5" -> 5 [] c = "6" -> 6 [] c = "7" -> 7 [] c = "8" -> 8 [] c = "9" -> 9
    [] c = "a" -> 10 [] c = "b" -> 11 [] c = "c" -> 12 [] c = "d" -> 13 [] c = "e" -> 14
    [] c = "f" -> 15]
IsDigit(c, base) == c \in DOMAIN Digit /\ Digit[c] < base

AssignOps == {"=", "+=", "-=", "*=", "/=", "%=", "<<=", ">>=", "&=", "|=", "^="}
Symbols == AssignOps \cup
  {"+", "-", "*", "/", "%", "(", ")", "==", "!=", "<", "<=", ">", ">=", "&&", "||",
   "&", "|", "^", "<<", ">>", "!", "~", "?", ":"}

CharAt(s, i) == IF i \in DOMAIN s THEN s[i] ELSE "end"
RECURSIVE Glued(_, _, _)
Glued(s, i, n) == IF n = 0 THEN "" ELSE CharAt(s, i) \o Glued(s, i + 1, n - 1)

Num(n) == [kind |-> "num", val |-> n, text |-> ""]
Var(x) == [kind |-> "var", val |-> 0, text |-> x]
Op(o)  == [kind |-> "op", val |-> 0, text |-> o]

\* The digits from i on; a number that does not fit, or has none, is an error.
RECURSIVE DigitsFrom(_, _, _, _)
DigitsFrom(s, i, base, n) ==
  IF IsDigit(CharAt(s, i), base) THEN DigitsFrom(s, i + 1, base, n * base + Digit[s[i]])
  ELSE [next |-> i, val |-> n]
NumberAt(s, i) ==
  IF CharAt(s, i) = "0" /\ CharAt(s, i + 1) \in {"x", "X"} THEN DigitsFrom(s, i + 2, 16, 0)
  ELSE IF CharAt(s, i) = "0" /\ IsDigit(CharAt(s, i + 1), 8) THEN DigitsFrom(s, i + 1, 8, 0)
  ELSE DigitsFrom(s, i, 10, 0)
NoDigits(s, i, number) == CharAt(s, number.next - 1) \in {"x", "X"}

\* [ok, toks]
RECURSIVE TokensFrom(_, _, _)
TokensFrom(s, i, toks) ==
  IF i > Len(s) THEN [ok |-> TRUE, toks |-> toks]
  ELSE IF s[i] = " " THEN TokensFrom(s, i + 1, toks)
  ELSE IF IsDigit(s[i], 10)
  THEN LET number == NumberAt(s, i)
       IN  IF number.val >= Top \/ NoDigits(s, i, number) THEN [ok |-> FALSE, toks |-> toks]
           ELSE TokensFrom(s, number.next, Append(toks, Num(number.val)))
  ELSE IF s[i] \in Variables THEN TokensFrom(s, i + 1, Append(toks, Var(s[i])))
  ELSE LET sizes == {n \in 1 .. 3 : Glued(s, i, n) \in Symbols}
       IN  IF sizes = {} THEN [ok |-> FALSE, toks |-> toks]
           ELSE LET n == CHOOSE n \in sizes : \A m \in sizes : m <= n
                IN  TokensFrom(s, i + n, Append(toks, Op(Glued(s, i, n))))

-----------------------------------------------------------------------------
(* Operators.  Outcome is "value", "error" (division by zero), or "panic":  *)
(* the smallest integer divided by -1 aborts a release build too.           *)

Magnitude(n) == IF n < 0 THEN -n ELSE n
Quotient(a, b) == IF (a < 0) = (b < 0) THEN Magnitude(a) \div Magnitude(b) ELSE -(Magnitude(a) \div Magnitude(b))
Remainder(a, b) == a - b * Quotient(a, b)
Truth(b) == IF b THEN 1 ELSE 0

Outcome(op, a, b) ==
  IF op \notin {"/", "%"} THEN "value"
  ELSE IF b = 0 THEN "error" ELSE IF a = -Top /\ b = -1 THEN "panic" ELSE "value"

\* apply_binop, where the outcome is a value.
Applied(op, a, b) ==
  Wrap(CASE op = "|" -> Bits(a) | Bits(b)
         [] op = "^" -> Bits(a) ^^ Bits(b)
         [] op = "&" -> Bits(a) & Bits(b)
         [] op = "==" -> Truth(a = b) [] op = "!=" -> Truth(a # b)
         [] op = "<" -> Truth(a < b)  [] op = "<=" -> Truth(a <= b)
         [] op = ">" -> Truth(a > b)  [] op = ">=" -> Truth(a >= b)
         [] op = "<<" -> a * 2 ^ (b % Width)
         [] op = ">>" -> a \div 2 ^ (b % Width)
         [] op = "+" -> a + b [] op = "-" -> a - b [] op = "*" -> a * b
         [] op = "/" -> Quotient(a, b) [] op = "%" -> Remainder(a, b))

UnaryOps == {"+", "-", "!", "~"}
AppliedUnary(op, a) ==
  CASE op = "+" -> a [] op = "-" -> Wrap(-a) [] op = "!" -> Truth(a = 0) [] op = "~" -> -a - 1

Precedence ==
  [op \in {"|", "^", "&", "==", "!=", "<", "<=", ">", ">=", "<<", ">>", "+", "-", "*", "/", "%"} |->
     CASE op = "|" -> 1 [] op = "^" -> 2 [] op = "&" -> 3 [] op \in {"==", "!="} -> 4
       [] op \in {"<", "<=", ">", ">="} -> 5 [] op \in {"<<", ">>"} -> 6
       [] op \in {"+", "-"} -> 7 [] OTHER -> 8]

\* The operator of an assignment other than "=".
Operation(op) ==
  CASE op = "+=" -> "+" [] op = "-=" -> "-" [] op = "*=" -> "*" [] op = "/=" -> "/"
    [] op = "%=" -> "%" [] op = "<<=" -> "<<" [] op = ">>=" -> ">>" [] op = "&=" -> "&"
    [] op = "|=" -> "|" [] op = "^=" -> "^"

-----------------------------------------------------------------------------
(* The parser.  p holds the tokens, the position and the variables; a       *)
(* result adds the outcome and the value.                                   *)

Done(p, n)     == [out |-> "value", p |-> p, val |-> n]
Stopped(out, p) == [out |-> out, p |-> p, val |-> 0]
Then(r, F(_, _)) == IF r.out = "value" THEN F(r.p, r.val) ELSE r

Ahead(p, k) == IF p.pos + k \in DOMAIN p.toks THEN p.toks[p.pos + k] ELSE Op("end")
Peek(p) == Ahead(p, 0)
IsAt(p, o) == Peek(p) = Op(o)
Step(p) == [p EXCEPT !.pos = @ + 1]
Expect(p, o) == IF IsAt(p, o) THEN Done(Step(p), 0) ELSE Stopped("error", p)

SetVar(p, noeval, x, n) == IF noeval \/ x \in Frozen THEN p ELSE [p EXCEPT !.vars[x] = n]
Operate(p, op, a, b) ==
  IF Outcome(op, a, b) = "value" THEN Done(p, Applied(op, a, b)) ELSE Stopped(Outcome(op, a, b), p)

RECURSIVE ParseExpr(_, _)

ParsePrimary(p, noeval) ==
  LET t == Peek(p)
  IN  IF t.kind = "num" THEN Done(Step(p), t.val)
      ELSE IF t.kind = "var" THEN Done(Step(p), p.vars[t.text])
      ELSE IF IsAt(p, "(")
      THEN Then(ParseExpr(Step(p), noeval), LAMBDA p1, n :
           Then(Expect(p1, ")"), LAMBDA p2, z : Done(p2, n)))
      ELSE Stopped("error", p)

RECURSIVE ParseUnary(_, _)
ParseUnary(p, noeval) ==
  IF Peek(p).kind = "op" /\ Peek(p).text \in UnaryOps
  THEN Then(ParseUnary(Step(p), noeval), LAMBDA p1, n : Done(p1, AppliedUnary(Peek(p).text, n)))
  ELSE ParsePrimary(p, noeval)

\* parse_binop: precedence climbing, left to right.
RECURSIVE ParseBinop(_, _, _), BinopRest(_, _, _, _)
TightRight(p, level, noeval) == ParseBinop(p, level, noeval)
RightOperand(p, level, noeval) == ParseBinop(p, level + 1, noeval)
BinopRest(p, level, left, noeval) ==
  LET o == Peek(p).text
  IN  IF o \in DOMAIN Precedence /\ Precedence[o] >= level
      THEN Then(RightOperand(Step(p), Precedence[o], noeval), LAMBDA p1, right :
           Then(Operate(p1, o, left, right), LAMBDA p2, n : BinopRest(p2, level, n, noeval)))
      ELSE Done(p, left)
ParseBinop(p, level, noeval) ==
  Then(ParseUnary(p, noeval), LAMBDA p1, left : BinopRest(p1, level, left, noeval))

RECURSIVE AndRest(_, _, _), OrRest(_, _, _)
AndRest(p, left, noeval) ==
  IF IsAt(p, "&&")
  THEN Then(ParseBinop(Step(p), 1, noeval \/ left = 0), LAMBDA p1, right :
         AndRest(p1, Truth(left # 0 /\ right # 0), noeval))
  ELSE Done(p, left)
ParseAnd(p, noeval) == Then(ParseBinop(p, 1, noeval), LAMBDA p1, n : AndRest(p1, n, noeval))
OrRest(p, left, noeval) ==
  IF IsAt(p, "||")
  THEN Then(ParseAnd(Step(p), noeval \/ left # 0), LAMBDA p1, right :
         OrRest(p1, Truth(left # 0 \/ right # 0), noeval))
  ELSE Done(p, left)
ParseOr(p, noeval) == Then(ParseAnd(p, noeval), LAMBDA p1, n : OrRest(p1, n, noeval))

\* Mutant of ParseTernary: noeval is not set again for the second branch.
ParseTernaryOnce(p, noeval) ==
  Then(ParseOr(p, noeval), LAMBDA p1, cond :
    IF IsAt(p1, "?")
    THEN Then(ParseExpr(Step(p1), noeval \/ cond = 0), LAMBDA p2, a :
         Then(Expect(p2, ":"), LAMBDA p3, z :
         Then(ParseExpr(p3, noeval \/ cond = 0), LAMBDA p4, b :
           Done(p4, IF cond # 0 THEN a ELSE b))))
    ELSE Done(p1, cond))
ParseTernary(p, noeval) ==
  Then(ParseOr(p, noeval), LAMBDA p1, cond :
    IF IsAt(p1, "?")
    THEN Then(ParseExpr(Step(p1), noeval \/ cond = 0), LAMBDA p2, a :
         Then(Expect(p2, ":"), LAMBDA p3, z :
         Then(ParseExpr(p3, noeval \/ cond # 0), LAMBDA p4, b :
           Done(p4, IF cond # 0 THEN a ELSE b))))
    ELSE Done(p1, cond))

\* parse_assignment: a name with an assignment operator after it, else the
\* name is read again as an operand.
ParseExpr(p, noeval) ==
  LET x  == Peek(p).text
      op == Ahead(p, 1).text
  IN  IF Peek(p).kind = "var" /\ op \in AssignOps
      THEN Then(ParseExpr(Step(Step(p)), noeval), LAMBDA p1, right :
           Then(IF op = "=" THEN Done(p1, right) ELSE Operate(p1, Operation(op), p1.vars[x], right),
               LAMBDA p2, n : Done(SetVar(p2, noeval, x, n), n)))
      ELSE ParseTernary(p, noeval)

\* eval_arith: all tokens must be used.
EvalArith(s, vars) ==
  LET lexed == TokensFrom(s, 1, <<>>)
      start == [toks |-> lexed.toks, pos |-> 1, vars |-> vars]
  IN  IF ~lexed.ok THEN Stopped("error", start)
      ELSE Then(ParseExpr(start, FALSE), LAMBDA p, n :
             IF p.pos > Len(p.toks) THEN Done(p, n) ELSE Stopped("error", p))

-----------------------------------------------------------------------------
(* What expressions mean: the operators in the order of precedence that the *)
(* head of arith.rs gives, operands evaluated only where they are needed.   *)

Leaf(text, n)    == [op |-> "num", text |-> text, val |-> n, kids |-> <<>>]
Name(x)          == [op |-> "var", text |-> <<x>>, val |-> 0, kids |-> <<>>]
Node(op, text, kids) == [op |-> op, text |-> text, val |-> 0, kids |-> kids]
Unary(o, a)      == Node("unary", <<o>>, <<a>>)
Binary(o, a, b)  == Node("binary", <<o>>, <<a, b>>)
Assigns(x, o, a) == Node("assign", <<x, o>>, <<a>>)
Choice(c, a, b)  == Node("choice", <<>>, <<c, a, b>>)

\* Levels from loose to tight.
LogicLevel == [o \in {"||", "&&"} |-> IF o = "||" THEN 2 ELSE 3]
BinaryOps  == DOMAIN Precedence \cup DOMAIN LogicLevel
BinaryLevel(o) == IF o \in DOMAIN LogicLevel THEN LogicLevel[o] ELSE Precedence[o] + 3
Level(e) ==
  CASE e.op = "assign" -> 0 [] e.op = "choice" -> 1 [] e.op = "binary" -> BinaryLevel(e.text[1])
    [] e.op = "unary" -> 12 [] OTHER -> 13

\* The characters of an operator.
Written == [o \in Symbols |->
  CASE o \in {"<<=", ">>="} -> <<IF o = "<<=" THEN "<" ELSE ">", IF o = "<<=" THEN "<" ELSE ">", "=">>
    [] o \in {"<<", ">>", "&&", "||"} ->
         LET c == CASE o = "<<" -> "<" [] o = ">>" -> ">" [] o = "&&" -> "&" [] o = "||" -> "|"
         IN  <<c, c>>
    [] o \in (AssignOps \ {"=", "<<=", ">>="}) -> <<Operation(o), "=">>
    [] o \in {"==", "!=", "<=", ">="} ->
         <<CASE o = "==" -> "=" [] o = "!=" -> "!" [] o = "<=" -> "<" [] o = ">=" -> ">", "=">>
    [] OTHER -> <<o>>]

\* As few parentheses as the levels allow.
RECURSIVE Chars(_), At(_, _)
At(e, level) == IF Level(e) < level THEN <<"(">> \o Chars(e) \o <<")">> ELSE Chars(e)
Chars(e) ==
  CASE e.op \in {"num", "var"} -> e.text
    [] e.op = "unary"  -> Written[e.text[1]] \o At(e.kids[1], 12)
    [] e.op = "binary" -> At(e.kids[1], Level(e)) \o Written[e.text[1]] \o At(e.kids[2], Level(e) + 1)
    [] e.op = "assign" -> <<e.text[1]>> \o Written[e.text[2]] \o At(e.kids[1], 0)
    [] e.op = "choice" -> At(e.kids[1], 2) \o <<"?">> \o At(e.kids[2], 0) \o <<":">> \o At(e.kids[3], 1)

Meant(out, n, vars) == [out |-> out, val |-> n, vars |-> vars]
After(m, F(_, _)) == IF m.out = "value" THEN F(m.vars, m.val) ELSE m
Operated(o, a, b, vars) ==
  IF Outcome(o, a, b) = "value" THEN Meant("value", Applied(o, a, b), vars)
  ELSE Meant(Outcome(o, a, b), 0, vars)

RECURSIVE Meaning(_, _)
Meaning(e, vars) ==
  CASE e.op = "num" -> Meant("value", e.val, vars)
    [] e.op = "var" -> Meant("value", vars[e.text[1]], vars)
    [] e.op = "unary" ->
         After(Meaning(e.kids[1], vars), LAMBDA v, n : Meant("value", AppliedUnary(e.text[1], n), v))
    [] e.op = "binary" ->
         After(Meaning(e.kids[1], vars), LAMBDA v, a :
           IF e.text[1] \in DOMAIN LogicLevel /\ (a = 0) = (e.text[1] = "&&")
           THEN Meant("value", Truth(a # 0), v)
           ELSE After(Meaning(e.kids[2], v), LAMBDA w, b :
                  IF e.text[1] \in DOMAIN LogicLevel THEN Meant("value", Truth(b # 0), w)
                  ELSE Operated(e.text[1], a, b, w)))
    [] e.op = "choice" ->
         After(Meaning(e.kids[1], vars), LAMBDA v, a : Meaning(e.kids[IF a # 0 THEN 2 ELSE 3], v))
    [] e.op = "assign" ->
         After(Meaning(e.kids[1], vars), LAMBDA v, b :
         After(IF e.text[2] = "=" THEN Meant("value", b, v)
               ELSE Operated(Operation(e.text[2]), v[e.text[1]], b, v), LAMBDA w, n :
           Meant("value", n, IF e.text[1] \in Frozen THEN w ELSE [w EXCEPT ![e.text[1]] = n])))

\* Expressions that divide in an operand which need not be evaluated.
RECURSIVE Divides(_), MayDivide(_)
Divides(e) ==
  \/ e.op \in {"binary", "assign"} /\ e.text[Len(e.text)] \in {"/", "%", "/=", "%="}
  \/ \E k \in DOMAIN e.kids : Divides(e.kids[k])
MayDivide(e) ==
  \/ /\ e.op = "choice" \/ (e.op = "binary" /\ e.text[1] \in DOMAIN LogicLevel)
     /\ \E k \in DOMAIN e.kids \ {1} : Divides(e.kids[k])
  \/ \E k \in DOMAIN e.kids : MayDivide(e.kids[k])
=============================================================================
