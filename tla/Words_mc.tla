------------------------------- MODULE Words_mc -------------------------------
(* The constants of Words for TLC. *)
EXTENDS Words

\* Texts and patterns.
Order == <<"*", "!", "-", ".", "/", "0", "1", "2", "3", "?", "[", "\\", "]", "a", "b", "c", " ", ":", "esc">>
Counts == <<<<"0">>, <<"1">>, <<"2">>, <<"3">>>>
Files == {<<>>, <<<<"a">>>>, <<<<".", "a">>>>, <<<<"b">>>>, <<<<"a", "b">>>>, <<<<"*">>>>,
          <<<<"b">>, <<"a">>>>, <<<<"b">>, <<".", "a">>>>, <<<<"b">>, <<"c">>>>,
          <<<<"b">>, <<"c">>, <<"a">>>>, <<<<".">>>>, <<<<".">>, <<"a">>>>,
          <<<<"b">>, <<".">>>>, <<<<"b">>, <<".">>, <<"a">>>>, <<<<"b">>, <<".", ".">>>>}
Directories == {<<>>, <<<<"b">>>>, <<<<"b">>, <<"c">>>>, <<<<".">>>>, <<<<"b">>, <<".">>>>,
                <<<<"b">>, <<".", ".">>>>}
Here == <<<<"b">>>>
TextSet ==
  UNION {[1 .. n -> {"a", "b", "*"}] : n \in 0 .. 2} \cup {<<"a", "b", "a">>, <<"a", "a", "b">>}
  \cup {<<"[">>, <<"]", "-">>, <<"[", "a", "]">>, <<"-", "a">>}
AtomSet ==
  LET lit(c) == OneOf(<<c>>, {c})
  IN  {Star, Slash, lit("a"), lit("b"), lit("."), lit("]"), OneOf(<<"?">>, Chars),
       OneOf(<<"esc", "*">>, {"*"}), OneOf(<<"\\", "a">>, {"a"}),
       OneOf(<<"[", "!", "a", "]">>, Chars \ {"a"}),
       OneOf(<<"[", "a", "-", "c", "]">>, {"a", "b", "c"}),
       OneOf(<<"[", "]", "a", "]">>, {"]", "a"}),
       OneOf(<<"[", "a", "-", "]">>, {"a", "-"}), OneOf(<<"[", "!", "1", "-", "\\", "3", "/", "]">>, Chars \ {"1", "2", "3", "/"}),
       OneOf(<<"[", "esc", "]", "*", "]">>, {"]", "*"})}

\* Expressions.
LeafSet == {A!Leaf(<<"0", "x", "7", "f">>, 127), A!Name("x"), A!Name("r")}
OperandSet == {A!Name("x"), A!Assigns("x", "=", A!Leaf(<<"0", "1", "1">>, 9))}
NumberSet == {0, -7}

\* Words and shells.
PartSet ==
  {Literal(<<"a">>), Literal(<<"*">>), SingleQuoted(<<>>), SingleQuoted(<<"*", "a">>), Plain("x"), Plain("*"), Plain("@"),
   DoubleQuoted(<<Plain("x")>>), DoubleQuoted(<<Plain("@")>>), DoubleQuoted(<<Plain("*"), Plain("#")>>),
   DoubleQuoted(<<Literal(<<"b">>), Plain("@"), Plain("y")>>),
   Param("y", ":=", <<Literal(<<"a", " ", "b">>), Plain("x")>>),
   Param("x", ":-", <<Param("y", "=", <<DoubleQuoted(<<Plain("1")>>)>>), Literal(<<" ", "b">>)>>),
   Param("y", ":+", <<Param("x", ":=", <<CmdSubst(<<"a", " ">>)>>)>>),
   Param("y", "?", <<Arith("x", <<"1">>)>>),
   Param("x", "#", <<DoubleQuoted(<<Plain("y")>>), Literal(<<"*">>)>>),
   Plain("2"), Tilde(<<>>), Arith("y", <<"2">>)}
EnvSet ==
  {Env([HOME |-> Unset, x |-> x, y |-> y], args, ifs, nounset, noglob) :
     x \in {Unset, <<>>, <<"a">>, <<" ", "a", " ">>, <<":">>, <<"a", " ", ":", "b">>, <<":", " ", ":", "a", ":">>,
            <<"[", "*", "]">>},
     y \in {Unset, <<"b">>, <<":">>},
     args \in {<<>>, <<<<"a", " ", "b">>>>, <<<<>>, <<"b", " ">>>>},
     ifs \in {<<>>, <<" ", ":">>, <<":">>},
     nounset \in {FALSE}, noglob \in {FALSE}}
  \cup {Env([HOME |-> <<"/">>, x |-> x, y |-> Unset], <<<<"a">>>>, <<" ">>, TRUE, TRUE) : x \in {Unset, <<"a", "*">>}}

\* Delimiters of fields.
IfsSet == {<<" ", ":">>, <<>>}

\* Tests.
Rank1(t) == CASE t = "" -> 0 [] t = "!" -> 1 [] t = "(" -> 2 [] t = ")" -> 3 [] t = "-a" -> 4 [] t = "-f" -> 5
              [] t = "-gt" -> 6 [] t = "-n" -> 7 [] t = "-o" -> 8 [] t = "=" -> 9 [] t = "f" -> 10 [] OTHER -> 11
LessThan(s, t) == Rank1(s) < Rank1(t)
Value(t) == IF t = "-gt" THEN 0 ELSE Rank1(t) % 3
IsFile(op, t) == t = "f"
NewerThan(s, t) == Rank1(s) > Rank1(t)
ArgumentSet == {"", "!", "(", ")", "-a", "-n", "-f", "-o", "=", "<", "-gt", "-nt", "f"}
PrimarySet == {T!Primary(<<"f">>, TRUE), T!Primary(<<"-n", "">>, FALSE), T!Primary(<<"f", "=", "f">>, TRUE),
               T!Primary(<<"-f", "g">>, FALSE), T!Primary(<<"">>, FALSE)}

\* getopts and read.
SpecSet == {<<"a", "b", ":">>, <<":", "a", ":", "b">>, <<"b", ":", "a", "b">>}
WordSet == {<<"-", "a">>, <<"-", "a", "b">>, <<"-", "b", "a">>, <<"-", "c", "a">>, <<"-", "a", "a", "b">>,
            <<"-">>, <<"-", "-">>, <<"a">>}
ReaderSet == {[raw |-> raw, n |-> n, ifs |-> ifs] :
                raw \in BOOLEAN, n \in {1, 2, 3}, ifs \in {{" "}, {" ", ":"}, {}}}
CharSet == {"a", " ", ":", "\\", "nl"}
===============================================================================
