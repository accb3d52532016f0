------------------------------ MODULE Programs ------------------------------
(***************************************************************************)
(* The grammar that Parser is checked against.  A program grows command by *)
(* command (the variable prog is its tree); Source writes a tree as source  *)
(* text in several styles, here-document bodies after the next newline; the *)
(* properties compare what Parsed makes of the text with the tree itself.   *)
(***************************************************************************)
EXTENDS Parser

CONSTANTS
  Simples,      \* the simple commands programs start from
  Parts,        \* those that are added to them
  Follow,       \* a command after the program
  TailRedirs,   \* redirections that a compound command may have
  MaxSize       \* bound on the number of simple commands and compounds

VARIABLES
  prog,    \* the tree
  size,    \* how many steps built it
  style,   \* how it is written
  result   \* what the parser makes of it

vars == <<prog, size, style, result>>

-----------------------------------------------------------------------------
(* Trees: which commands may be parts of which (the grammar's levels).      *)

IsList(c)   == c.op \in {";", "&"}
IsAndOr(c)  == c.op \in {"&&", "||"}
IsPipe(c)   == c.op \in {"|", "!"}
IsCommand(c) == ~IsList(c) /\ ~IsAndOr(c) /\ ~IsPipe(c)

\* After a separator a command may not begin with a redirection.
RECURSIVE FirstSimple(_)
FirstSimple(c) == IF c.op = "simple" \/ IsCommand(c) THEN c ELSE FirstSimple(c.kids[1])
StartsWithRedir(c) ==
  LET f == FirstSimple(c)
  IN  f.op = "simple" /\ f.names = <<>> /\ f.words = <<>> /\ ~(c.op = "!")

Compound(op, names, words, kids, redirs) ==
  IF op \in {"(", "{"} THEN Node(op, names, words, kids, redirs)
  ELSE Wrapped(Node(op, names, words, kids, <<>>), redirs)

-----------------------------------------------------------------------------
(* Writing a tree as text.  sep separates the commands of a list inside a   *)
(* compound command; breaks puts newlines after && || and | too (and writes *)
(* an if in an else part as elif); the lines of here-documents whose        *)
(* delimiter is not quoted, and that delimiter, are cut by as many          *)
(* backslash-newlines as cuts says.                                         *)

Styles == {[sep |-> ";", breaks |-> FALSE, cuts |-> 0],
           [sep |-> "nl", breaks |-> FALSE, cuts |-> 1],
           [sep |-> "nl", breaks |-> TRUE, cuts |-> 2]}

\* The here-documents of a tree in the order of the text, and their bodies.
RECURSIVE HereDocs(_)
HereDocs(c) ==
  FlattenSeq([i \in DOMAIN c.kids |-> HereDocs(c.kids[i])])
  \o SelectSeq(c.redirs, LAMBDA r : r.op \in HereDocOps)
Docs(c) == LET docs == HereDocs(c) IN [i \in DOMAIN docs |-> docs[i].body]

\* One line, cut after its first item (one of a single item, before it), and
\* with a tab before each part for a <<-.  (No part after a second cut is the
\* delimiter itself: read_heredoc_body would take it for the end.)
LineText(line, doc, st) ==
  LET tab == IF doc.op = "<<-" THEN <<"tab">> ELSE <<>>
      cut == IF doc.body.literal THEN <<>>
             ELSE FlattenSeq([i \in 1 .. st.cuts |-> <<"\\", "nl">> \o tab])
      at  == IF Len(line) > 1 THEN 1 ELSE 0
  IN  tab \o SubSeq(line, 1, at) \o cut \o SubSeq(line, at + 1, Len(line)) \o <<"nl">>

RECURSIVE DocText(_, _, _)
DocText(text, doc, st) ==
  IF text = <<>> THEN LineText(<<"E">>, doc, st)
  ELSE LET n == Min({i \in DOMAIN text : text[i] = "nl"})
       IN  LineText(SubSeq(text, 1, n - 1), doc, st) \o DocText(SubSeq(text, n + 1, Len(text)), doc, st)

\* The words of a for end with a newline only where no here-document is
\* pending: the parser takes that newline without reading the bodies.
WithHead(c, st) ==
  [sep |-> st.sep, breaks |-> st.breaks, head |-> IF Docs(c) = <<>> THEN st.sep ELSE ";"]

RedirText(r) ==
  (IF r.fd = DefaultFd(r.op) THEN <<>> ELSE <<r.fd>>)
  \o <<r.op, IF r.op \notin HereDocOps THEN r.word ELSE IF r.body.literal THEN "'E'" ELSE "E">>
RedirsText(redirs) == FlattenSeq([i \in DOMAIN redirs |-> RedirText(redirs[i])])

Joined(texts, glue) ==
  FlattenSeq([i \in DOMAIN texts |-> IF i = 1 THEN texts[i] ELSE glue \o texts[i]])

\* Commands whose redirections the parser keeps in a group around them.
Unwrapped == {"if", "while", "until", "for", "for in", "case"}

RECURSIVE Text(_, _, _)
Inner(c, st)   == Text(c, st.sep, st) \o (IF c.op = "&" THEN <<>> ELSE <<st.sep>>)
Do(c, st)      == <<"do">> \o Inner(c, st) \o <<"done">>
ArmText(a, st) ==
  Joined([i \in DOMAIN a.words |-> <<a.words[i]>>], <<"|">>) \o <<")">>
  \o (IF a.kids = <<>> THEN <<>> ELSE Text(a.kids[1], st.sep, st)) \o <<";;">>
RECURSIVE IfText(_, _, _)
IfText(c, keyword, st) ==
  <<keyword>> \o Inner(c.kids[1], st) \o <<"then">> \o Inner(c.kids[2], st)
  \o (IF Len(c.kids) = 2 THEN <<"fi">>
      ELSE IF c.kids[3].op = "if" /\ st.breaks THEN IfText(c.kids[3], "elif", st)
      ELSE <<"else">> \o Inner(c.kids[3], st) \o <<"fi">>)
\* sep is ";" at top level, where a newline would end the command.
Text(c, sep, st) ==
  LET kids  == [i \in DOMAIN c.kids |-> Text(c.kids[i], sep, st)]
      break == IF st.breaks THEN <<"nl">> ELSE <<>>
  IN  CASE c.op = "simple" -> c.names \o c.words \o RedirsText(c.redirs)
        [] c.op = ";" -> kids[1] \o (IF c.kids[1].op = "&" THEN <<>> ELSE <<sep>>) \o kids[2]
        [] c.op = "&" -> kids[1] \o <<"&">>
        [] c.op \in {"&&", "||", "|"} -> Joined(kids, <<c.op>> \o break)
        [] c.op = "!" -> <<"!">> \o Joined(kids, <<"|">> \o break)
        [] c.op = "(" -> <<"(">> \o Text(c.kids[1], st.sep, st) \o <<")">> \o RedirsText(c.redirs)
        [] c.op = "{" -> IF c.redirs # <<>> /\ c.kids[1].op \in Unwrapped
                         THEN kids[1] \o RedirsText(c.redirs)
                         ELSE <<"{">> \o Inner(c.kids[1], st) \o <<"}">> \o RedirsText(c.redirs)
        [] c.op = "func" -> <<c.names[1], "(", ")">> \o break \o kids[1]
        [] c.op = "if" -> IfText(c, "if", st)
        [] c.op \in {"while", "until"} -> <<c.op>> \o Inner(c.kids[1], st) \o Do(c.kids[2], st)
        [] c.op = "for" -> <<"for", c.names[1], st.sep>> \o Do(c.kids[1], st)
        [] c.op = "for in" ->
             <<"for", c.names[1], "in">> \o c.words \o <<st.head>> \o Do(c.kids[1], st)
        [] c.op = "case" ->
             <<"case", c.names[1], "in">>
             \o FlattenSeq([i \in DOMAIN c.kids |-> break \o ArmText(c.kids[i], st)]) \o <<"esac">>

\* The text with each here-document's lines after the next newline; open
\* counts those whose operator has gone by.
RECURSIVE Layout(_, _, _, _)
Layout(text, docs, open, st) ==
  IF text = <<>> THEN <<>>
  ELSE <<Head(text)>> \o
       IF Head(text) = "nl"
       THEN FlattenSeq([i \in 1..open |-> DocText(docs[i].body.text, docs[i], st)])
            \o Layout(Tail(text), SubSeq(docs, open + 1, Len(docs)), 0, st)
       ELSE Layout(Tail(text), docs, IF Head(text) \in HereDocOps THEN open + 1 ELSE open, st)

\* The program and another command, which meets what the program leaves.
Source(c, st) ==
  Layout(Text(c, ";", WithHead(c, st)) \o <<"nl">> \o Text(Follow, ";", WithHead(Follow, st)) \o <<"nl">>,
         HereDocs(c) \o HereDocs(Follow), 0, st)

RECURSIVE Erased(_)
Erased(c) == [c EXCEPT !.kids = [i \in DOMAIN c.kids |-> Erased(c.kids[i])],
                       !.redirs = [i \in DOMAIN c.redirs |-> [c.redirs[i] EXCEPT !.body = Placeholder]]]

-----------------------------------------------------------------------------
(* The growth of a program.                                                 *)

Init ==
  /\ prog \in Simples /\ style \in Styles
  /\ size = 1
  /\ result = Parsed(Source(prog, style))

Becomes(c) ==
  /\ size < MaxSize
  /\ prog' = c /\ size' = size + 1 /\ style' = style
  /\ result' = Parsed(Source(c, style))

\* prog is the body, the condition or a branch of a compound command, the
\* other parts are simple commands.
Enclose(x, redirs) ==
  \E c \in {Compound("(", <<>>, <<>>, <<prog>>, redirs),
            Compound("{", <<>>, <<>>, <<prog>>, redirs),
            Compound("if", <<>>, <<>>, <<prog, x>>, redirs),
            Compound("if", <<>>, <<>>, <<x, prog, x>>, redirs),
            Compound("if", <<>>, <<>>, <<x, x, prog>>, redirs),
            Compound("if", <<>>, <<>>, <<x, x, Node("if", <<>>, <<>>, <<prog, x>>, <<>>)>>, redirs),
            Compound("while", <<>>, <<>>, <<prog, x>>, redirs),
            Compound("until", <<>>, <<>>, <<x, prog>>, redirs),
            Compound("for", <<"a">>, <<>>, <<prog>>, redirs),
            Compound("for in", <<"a">>, <<"b", "c">>, <<prog>>, redirs),
            Compound("case", <<"a">>, <<>>,
                     <<Node("arm", <<>>, <<"b", "c">>, <<prog>>, <<>>),
                       Node("arm", <<>>, <<"if">>, <<>>, <<>>),
                       Node("arm", <<>>, <<"b">>, <<x>>, <<>>)>>, redirs)} : Becomes(c)
Define == IsCommand(prog) /\ Becomes(Node("func", <<"a">>, <<>>, <<prog>>, <<>>))

\* prog is one side of a list, an and-or or a pipeline.
FollowedBy(x) ==
  \/ ~StartsWithRedir(x) /\ Becomes(Node(";", <<>>, <<>>, <<prog, x>>, <<>>))
  \/ ~IsList(prog) /\ \E op \in {"&&", "||"} : Becomes(Node(op, <<>>, <<>>, <<prog, x>>, <<>>))
  \/ prog.op = "|" /\ Becomes([prog EXCEPT !.kids = Append(@, x)])
  \/ IsCommand(prog) /\ Becomes(Node("|", <<>>, <<>>, <<prog, x>>, <<>>))
PrecededBy(x) ==
  \/ ~IsList(prog) /\ ~StartsWithRedir(prog) /\ Becomes(Node(";", <<>>, <<>>, <<x, prog>>, <<>>))
  \/ ~IsList(prog) /\ ~IsAndOr(prog)
       /\ \E op \in {"&&", "||"} : Becomes(Node(op, <<>>, <<>>, <<x, prog>>, <<>>))
  \/ IsCommand(prog) /\ Becomes(Node("|", <<>>, <<>>, <<x, prog>>, <<>>))
Negate ==
  /\ IsCommand(prog) \/ prog.op = "|"
  /\ Becomes(Node("!", <<>>, <<>>, IF prog.op = "|" THEN prog.kids ELSE <<prog>>, <<>>))
InBackground == prog.op # "&" /\ Becomes(Background(prog))

Next ==
  \/ \E x \in Parts, redirs \in TailRedirs : Enclose(x, redirs)
  \/ Define
  \/ \E x \in Parts : FollowedBy(x) \/ PrecededBy(x)
  \/ Negate
  \/ InBackground

Spec == Init /\ [][Next]_vars

-----------------------------------------------------------------------------
\* Some of a command's here-documents are read at a newline inside it, others
\* after it.
Mixed ==
  LET text     == Text(prog, ";", WithHead(prog, style))
      newlines == {i \in DOMAIN text : text[i] = "nl"}
      ops      == {i \in DOMAIN text : text[i] \in HereDocOps}
  IN  /\ \E i \in ops, n \in newlines : i < n
      /\ \E i \in ops : \A n \in newlines : n < i

(* Every program of the grammar is accepted, in every style, and parsed to  *)
(* the tree it was written from (parse_program and everything below it),    *)
(* each here-document with its own body, however many there are and however *)
(* often lines end in between (patch_heredocs).  Where some bodies are read *)
(* inside the command and some after it they may be swapped, but none is    *)
(* lost or given to two redirections or to a later command.                 *)
RoundTrip ==
  /\ result.ok
  /\ IF Mixed
     THEN /\ [i \in DOMAIN result.v |-> Erased(result.v[i])] = <<Erased(prog), Erased(Follow)>>
          /\ ToBag(Docs(result.v[1])) = ToBag(Docs(prog))
          /\ Docs(result.v[2]) = Docs(Follow)
     ELSE result.v = <<prog, Follow>>

\* The words of a tree, wherever it keeps them.
RECURSIVE Yield(_)
Yield(c) ==
  c.names \o c.words \o [i \in DOMAIN c.redirs |-> c.redirs[i].word]
  \o FlattenSeq([i \in DOMAIN c.kids |-> Yield(c.kids[i])])
WordBag(items) == ToBag(SelectSeq(items, LAMBDA t : (IsWord(t) \/ t \in Assigns) /\ t \notin Digits))

\* The text with one item missing, or one written twice.
Damaged(text) ==
  {RemoveAt(text, i) : i \in DOMAIN text} \cup {InsertAt(text, i, text[i]) : i \in DOMAIN text}

\* A number after a compound command that begins no redirection: the parser puts
\* it back over the token after it, which is lost (parse_redirections).
TokenLost(text) ==
  \E i \in 1 .. Len(text) - 2 :
    /\ text[i] \in {")", "}", "fi", "done", "esac"} /\ text[i + 1] \in Digits
    /\ text[i + 2] \notin RedirOps

(* The parser is lenient (nothing need separate two top-level commands), but *)
(* a damaged program without functions and here-documents that it accepts   *)
(* has lost no word, but for one after a misplaced number: every word of    *)
(* the text is somewhere in the trees.                                      *)
WordsKept ==
  (Docs(prog) = <<>> /\ size < MaxSize /\ prog.op # "func") =>
    \A text \in Damaged(Text(prog, ";", WithHead(prog, style))) :
      LET r == Parsed(text)
      IN  (r.ok /\ ~TokenLost(text)) => WordBag(FlattenSeq([i \in DOMAIN r.v |-> Yield(r.v[i])])) = WordBag(text)
=============================================================================
