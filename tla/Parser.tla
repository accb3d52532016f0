------------------------------- MODULE Parser -------------------------------
(***************************************************************************)
(* The recursive-descent parser of src/src/parser.rs over the tokens of    *)
(* src/src/lexer.rs, with the way it reads here-documents: at a newline the *)
(* bodies of all pending here-documents are read and set aside, and they   *)
(* are put into the tree, in its order, once a top-level command is parsed.*)
(*                                                                         *)
(* A source is a sequence of lexical items (strings): operators, reserved  *)
(* words, words, newlines "nl", and blanks " ", tabs "tab" and backslashes *)
(* "\", which matter to here-documents only: their lines are read raw, item *)
(* by item.  The text of a                                                 *)
(* word is abstracted to its class: an operator, a digit word, an           *)
(* assignment, a quoted word or a plain one.                               *)
(*                                                                         *)
(* Every operator of the grammar maps a parser state to a result: whether  *)
(* it succeeded, the state it leaves, and the value it returns.  The        *)
(* operators are recursive, so nothing in this module is proved about.      *)
(***************************************************************************)
EXTENDS Integers, Sequences, SequencesExt

CONSTANTS
  Digits,      \* unquoted words of at most nine digits
  Assigns,     \* words of the form name=value
  Quoted,      \* words with quoting in them
  TextOf(_)    \* parts_to_text: the word without its quoting

Reserved == {"if", "then", "else", "elif", "fi", "do", "done", "case", "esac",
             "while", "until", "for", "in", "{", "}", "!"}
HereDocOps == {"<<", "<<-"}
RedirOps   == {"<", ">", ">>", "<>", "<&", ">&", ">|"} \cup HereDocOps
Operators  == {"nl", ";", "&", "|", "&&", "||", ";;", "(", ")", "eof"} \cup RedirOps

NotWords   == Operators \cup Reserved \cup Assigns
IsWord(t)  == t \notin NotWords

NoToken == ""

\* Command nodes, all of one shape: names holds assignments, the variable of a
\* for, the word of a case or the name of a function; words arguments, items
\* or patterns; kids the commands below in reading order; redirs its own.
Node(op, names, words, kids, redirs) ==
  [op |-> op, names |-> names, words |-> words, kids |-> kids, redirs |-> redirs]

\* A here-document body: taken literally (a quoted delimiter) or parsed.
Body(literal, text) == [literal |-> literal, text |-> text]
Placeholder == Body(TRUE, <<>>)
Redir(fd, op, word, body) == [fd |-> fd, op |-> op, word |-> word, body |-> body]

-----------------------------------------------------------------------------
(* The lexer's side: one token of pushback, and raw reading of lines.       *)

\* back is the token pushed back, pending the here-documents whose body is
\* yet to come, bodies those read at newlines and not yet in the tree.
Start(src) ==
  [src |-> src, pos |-> 1, back |-> NoToken, pending |-> <<>>, bodies |-> <<>>]

\* F of the value of x: TLC may evaluate an argument anew wherever it is used.
Eager(F(_), x) == CHOOSE y \in {F(v) : v \in {x}} : TRUE

ItemAt(s, p) == IF p \in DOMAIN s.src THEN s.src[p] ELSE "eof"

RECURSIVE SkipBlanks(_, _)
SkipBlanks(s, p) == IF ItemAt(s, p) = " " THEN SkipBlanks(s, p + 1) ELSE p

\* peek and next.  Peeking takes the token from the source and pushes it back.
Tok(s) == IF s.back # NoToken THEN s.back ELSE ItemAt(s, SkipBlanks(s, s.pos))
Taken(state) ==
  Eager(LAMBDA s : IF s.back # NoToken THEN [s EXCEPT !.back = NoToken]
                   ELSE [s EXCEPT !.pos = SkipBlanks(s, s.pos) + 1], state)
PushBack(s, t) == [s EXCEPT !.back = t]
Peeked(state) == Eager(LAMBDA s : PushBack(Taken(s), Tok(s)), state)

RECURSIVE LineEnd(_, _), SkipTabs(_, _)
LineEnd(s, p)  == IF ItemAt(s, p) \in {"nl", "eof"} THEN p ELSE LineEnd(s, p + 1)
SkipTabs(s, p) == IF ItemAt(s, p) = "tab" THEN SkipTabs(s, p + 1) ELSE p

\* The line at p, without leading tabs for a <<-, and where it ends.
LineAt(s, p, doc) ==
  Eager(LAMBDA b : Eager(LAMBDA e : [items |-> SubSeq(s.src, b, e - 1), end |-> e], LineEnd(s, b)),
        IF doc.strip THEN SkipTabs(s, p) ELSE p)

\* An odd number of backslashes at its end: the next line continues this one.
Continues(items) ==
  (Len(items) - Max({0} \cup {i \in DOMAIN items : items[i] # "\\"})) % 2 = 1

\* read_heredoc_body: raw lines from the lexer's position to the delimiter,
\* or to the end of the source.  A line and its continuation are one; if that
\* continues too, what there is of it goes to the body before any comparison
\* with the delimiter.
RECURSIVE ReadLines(_, _, _), AfterLine(_, _, _, _, _)
AfterLine(s, doc, text, items, end) ==
  LET rest == [s EXCEPT !.pos = end + 1]
  IN  IF items = <<doc.delimiter>> THEN [s |-> rest, text |-> text]
      ELSE ReadLines(rest, doc, text \o items \o <<"nl">>)
ReadLines(s, doc, text) ==
  Eager(LAMBDA line :
    IF ItemAt(s, line.end) = "eof"
    THEN [s |-> [s EXCEPT !.pos = line.end + 1],
          text |-> text \o IF line.items = <<doc.delimiter>> THEN <<>> ELSE line.items]
    ELSE IF doc.quoted \/ ~Continues(line.items)
    THEN AfterLine(s, doc, text, line.items, line.end)
    ELSE Eager(LAMBDA next :
           LET joined == Front(line.items) \o next.items
           IN  IF Continues(joined)
               THEN ReadLines([s EXCEPT !.pos = next.end + 1], doc, text \o Front(joined))
               ELSE AfterLine(s, doc, text, joined, next.end),
           LineAt(s, line.end + 1, doc)),
    LineAt(s, s.pos, doc))

\* The bodies of all pending here-documents, in the order of their operators.
RECURSIVE ReadBodies(_, _, _)
ReadBodies(s, docs, bodies) ==
  IF docs = <<>> THEN [s |-> s, bodies |-> bodies]
  ELSE Eager(LAMBDA r : ReadBodies(r.s, Tail(docs), Append(bodies, Body(Head(docs).quoted, r.text))),
             ReadLines(s, Head(docs), <<>>))
ReadPending(state) ==
  Eager(LAMBDA s : ReadBodies([s EXCEPT !.pending = <<>>], s.pending, <<>>), state)

\* After a newline token the bodies are read and set aside.
SetAside(s) ==
  LET r == ReadPending(s) IN [r.s EXCEPT !.bodies = @ \o r.bodies]

RECURSIVE SkipNewlines(_)
SkipNewlines(state) ==
  Eager(LAMBDA s : IF Tok(s) = "nl" THEN SkipNewlines(SetAside(Taken(s))) ELSE Peeked(s), state)

-----------------------------------------------------------------------------
(* patch_heredocs: bodies go to the empty literal bodies in tree order.     *)

\* done, then q.done, with what q leaves.
Prefixed(done, q) == [done |-> <<done>> \o q.done, rest |-> q.rest]

RECURSIVE PatchRedirs(_, _), PatchKids(_, _), Patch(_, _)
PatchRedirs(redirs, bodies) ==
  IF redirs = <<>> THEN [done |-> <<>>, rest |-> bodies]
  ELSE IF bodies # <<>> /\ Head(redirs).op \in HereDocOps /\ Head(redirs).body = Placeholder
  THEN Eager(LAMBDA q : Prefixed([Head(redirs) EXCEPT !.body = Head(bodies)], q),
             PatchRedirs(Tail(redirs), Tail(bodies)))
  ELSE Eager(LAMBDA q : Prefixed(Head(redirs), q), PatchRedirs(Tail(redirs), bodies))

\* A node's kids come before its own redirections.
PatchKids(kids, bodies) ==
  IF kids = <<>> THEN [done |-> <<>>, rest |-> bodies]
  ELSE Eager(LAMBDA p : Eager(LAMBDA q : Prefixed(p.done, q), PatchKids(Tail(kids), p.rest)),
             Patch(Head(kids), bodies))
Patched(c, kids, redirs, rest) == [done |-> [c EXCEPT !.kids = kids, !.redirs = redirs], rest |-> rest]
PatchRedirsFirst(c, bodies) ==
  Eager(LAMBDA r : Eager(LAMBDA k : Patched(c, k.done, r.done, k.rest), PatchKids(c.kids, r.rest)),
        PatchRedirs(c.redirs, bodies))
Patch(c, bodies) ==
  Eager(LAMBDA k : Eager(LAMBDA r : Patched(c, k.done, r.done, r.rest), PatchRedirs(c.redirs, k.rest)),
        PatchKids(c.kids, bodies))

\* read_pending_heredocs, after a top-level command: the bodies still to be
\* read go in first, then those that were set aside at newlines.
PatchCommand(s, c) ==
  Eager(LAMBDA r : [s |-> [r.s EXCEPT !.bodies = <<>>],
                    v |-> Patch(Patch(c, r.bodies).done, s.bodies).done],
        ReadPending(s))

-----------------------------------------------------------------------------
(* Results, and the sequencing of parsers.                                  *)

Ok(s, v)   == [ok |-> TRUE, s |-> s, v |-> v]
SyntaxError(s) == [ok |-> FALSE, s |-> s, v |-> NoToken]
Then(r, F(_, _)) == Eager(LAMBDA x : IF x.ok THEN F(x.s, x.v) ELSE x, r)

Expect(s, t) == IF Tok(s) = t THEN Ok(Taken(s), t) ELSE SyntaxError(s)

\* is_command_start: redirection operators are not among them.
CommandStart(t) ==
  \/ IsWord(t) \/ t \in Assigns
  \/ t \in {"if", "while", "until", "for", "case", "(", "{", "!"}

\* Where a word is required the lexer does not recognise reserved words;
\* assignments it does.
RequiredWord(s) ==
  IF IsWord(Tok(s)) \/ Tok(s) \in Reserved THEN Ok(Taken(s), Tok(s)) ELSE SyntaxError(s)

-----------------------------------------------------------------------------
(* Redirections.                                                            *)

DefaultFd(op) == IF op \in {"<", "<<", "<<-", "<&", "<>"} THEN "0" ELSE "1"

\* parse_redir_after_op: a here-document leaves a placeholder and is pending.
RedirAfterOp(s, fd, op) ==
  Then(RequiredWord(s), LAMBDA s1, w :
    IF op \in HereDocOps
    THEN Ok([s1 EXCEPT !.pending =
               Append(@, [delimiter |-> TextOf(w), quoted |-> w \in Quoted, strip |-> op = "<<-"])],
            Redir(fd, op, NoToken, Placeholder))
    ELSE Ok(s1, Redir(fd, op, w, Placeholder)))

\* A digit word and a redirection operator after it, blanks or not.
IsIoNumber(s) == Tok(s) \in Digits /\ Tok(Taken(s)) \in RedirOps

IoRedir(s) ==
  IF IsIoNumber(s) THEN RedirAfterOp(Taken(Taken(s)), Tok(s), Tok(Taken(s)))
                   ELSE RedirAfterOp(Taken(s), DefaultFd(Tok(s)), Tok(s))

\* parse_redirections after a compound command.  A digit word that begins no
\* redirection is pushed back over the token that was peeked after it.
RECURSIVE Redirections(_, _)
Redirections(s, redirs) ==
  IF Tok(s) \in RedirOps \/ IsIoNumber(s)
  THEN Then(IoRedir(s), LAMBDA s1, r : Redirections(s1, Append(redirs, r)))
  ELSE IF Tok(s) \in Digits THEN Ok(PushBack(Peeked(Taken(s)), Tok(s)), redirs)
  ELSE Ok(Peeked(s), redirs)

\* Redirections of a command that has none of its own wrap it in a group.
Wrapped(c, redirs) ==
  IF redirs = <<>> THEN c ELSE Node("{", <<>>, <<>>, <<c>>, redirs)

-----------------------------------------------------------------------------
RECURSIVE Command(_), ListFrom(_, _, _), ListRest(_, _, _), IfClause(_, _)

\* pipeline = ['!'] command { '|' linebreak command }
RECURSIVE Commands(_, _)
Commands(s, cmds) ==
  Then(Command(s), LAMBDA s1, c :
    IF Tok(s1) = "|" THEN Commands(SkipNewlines(Taken(s1)), Append(cmds, c))
    ELSE Ok(Peeked(s1), Append(cmds, c)))
Pipeline(s) ==
  LET bang == Tok(s) = "!"
  IN  Then(Commands(IF bang THEN Taken(s) ELSE Peeked(s), <<>>), LAMBDA s1, cmds :
        Ok(s1, IF bang THEN Node("!", <<>>, <<>>, cmds, <<>>)
               ELSE IF Len(cmds) = 1 THEN cmds[1] ELSE Node("|", <<>>, <<>>, cmds, <<>>)))

\* and_or = pipeline { ('&&' | '||') linebreak pipeline }, left-associative:
\* left is the tree so far and the operator after it.
RECURSIVE AndOrFrom(_, _)
AndOrFrom(s, left) ==
  Then(Pipeline(s), LAMBDA s1, c :
    Eager(LAMBDA node :
            IF Tok(s1) \in {"&&", "||"} THEN AndOrFrom(SkipNewlines(Taken(s1)), <<node, Tok(s1)>>)
            ELSE Ok(Peeked(s1), node),
          IF left = <<>> THEN c ELSE Node(left[2], <<>>, <<>>, <<left[1], c>>, <<>>)))

\* parse_command_list: newlines separate commands only inside compound ones;
\* '&' takes the whole list so far into the background.
Background(c) == Node("&", <<>>, <<>>, <<c>>, <<>>)
AfterSeparator(s, newlines) ==
  LET s1 == IF Tok(s) = "nl" THEN SetAside(Taken(s)) ELSE Taken(s)
  IN  IF newlines \/ Tok(s) = ";" THEN SkipNewlines(s1) ELSE Peeked(s1)
Separated(s, s1, left, newlines) ==
  LET done == IF Tok(s) = "&" THEN Background(left) ELSE left
  IN  IF CommandStart(Tok(s1)) THEN ListFrom(s1, <<done>>, newlines)
      ELSE ListRest(s1, done, newlines)
ListRest(s, left, newlines) ==
  IF Tok(s) \in {";", "&"} \/ (Tok(s) = "nl" /\ newlines)
  THEN Eager(LAMBDA s1 : Separated(s, s1, left, newlines), AfterSeparator(s, newlines))
  ELSE Ok(Peeked(s), left)
ListFrom(s, left, newlines) ==
  Then(AndOrFrom(s, <<>>), LAMBDA s1, c :
    ListRest(s1, IF left = <<>> THEN c ELSE Node(";", <<>>, <<>>, left \o <<c>>, <<>>), newlines))
List(s, newlines) == ListFrom(s, <<>>, newlines)

\* A keyword, the compound list after it, and the newlines around the list.
Block(s, keyword) ==
  Then(Expect(s, keyword), LAMBDA s1, t :
  Then(List(SkipNewlines(s1), TRUE), LAMBDA s2, c : Ok(SkipNewlines(s2), c)))
Closed(s, keyword) == Then(Expect(s, keyword), LAMBDA s1, t : Redirections(s1, <<>>))

\* ( list ) and { list }
Group(s, open) ==
  Then(Block(s, open), LAMBDA s1, body :
  Then(Closed(s1, IF open = "(" THEN ")" ELSE "}"), LAMBDA s2, redirs :
    Ok(s2, Node(open, <<>>, <<>>, <<body>>, redirs))))

\* parse_if and parse_elif up to 'fi'; the else part, if any, is a third kid.
ElsePart(s) ==
  CASE Tok(s) = "elif" -> Then(IfClause(s, "elif"), LAMBDA s1, c : Ok(s1, <<c>>))
    [] Tok(s) = "else" -> Then(Block(s, "else"), LAMBDA s1, c :
                          Then(Expect(s1, "fi"), LAMBDA s2, t : Ok(s2, <<c>>)))
    [] Tok(s) = "fi"   -> Ok(Taken(s), <<>>)
    [] OTHER           -> SyntaxError(s)
IfClause(s, keyword) ==
  Then(Block(s, keyword), LAMBDA s1, cond :
  Then(Block(s1, "then"), LAMBDA s2, body :
  Then(ElsePart(s2), LAMBDA s3, else :
    Ok(s3, Node("if", <<>>, <<>>, <<cond, body>> \o else, <<>>)))))
If(s) == Then(IfClause(s, "if"), LAMBDA s1, c :
         Then(Redirections(s1, <<>>), LAMBDA s2, redirs : Ok(s2, Wrapped(c, redirs))))

\* while and until
While(s, keyword) ==
  Then(Block(s, keyword), LAMBDA s1, cond :
  Then(Block(s1, "do"), LAMBDA s2, body :
  Then(Closed(s2, "done"), LAMBDA s3, redirs :
    Ok(s3, Wrapped(Node(keyword, <<>>, <<>>, <<cond, body>>, <<>>), redirs)))))

\* for name [in words (';' | newline)] do list done
RECURSIVE ForWords(_, _)
ForWords(s, words) ==
  IF IsWord(Tok(s)) THEN ForWords(Taken(s), Append(words, Tok(s)))
  ELSE IF Tok(s) = "nl" \/ Tok(s) = ";" THEN Ok(Taken(s), words)
  ELSE Ok(Peeked(s), words)
ForHead(s) ==
  IF Tok(s) = "in"
  THEN Then(ForWords(Taken(s), <<>>), LAMBDA s1, words : Ok(s1, [op |-> "for in", words |-> words]))
  ELSE Ok(IF Tok(s) = ";" THEN Taken(s) ELSE Peeked(s), [op |-> "for", words |-> <<>>])
For(s) ==
  Then(RequiredWord(Taken(s)), LAMBDA s1, name :
  Then(ForHead(SkipNewlines(s1)), LAMBDA s2, head :
  Then(Block(SkipNewlines(s2), "do"), LAMBDA s3, body :
  Then(Closed(s3, "done"), LAMBDA s4, redirs :
    Ok(s4, Wrapped(Node(head.op, <<TextOf(name)>>, head.words, <<body>>, <<>>), redirs))))))

\* case word in { ['('] pattern { '|' pattern } ')' [list] ';;' } esac
RECURSIVE Patterns(_, _)
Patterns(s, pats) ==
  Then(RequiredWord(s), LAMBDA s1, p :
    IF Tok(s1) = "|" THEN Patterns(Taken(s1), Append(pats, p)) ELSE Ok(Peeked(s1), Append(pats, p)))
ArmBody(s) ==
  IF Tok(s) \in {";;", "esac"} THEN Ok(Peeked(s), <<>>)
  ELSE Then(List(s, TRUE), LAMBDA s1, c : Ok(s1, <<c>>))
Arm(s) ==
  Then(Patterns(IF Tok(s) = "(" THEN Taken(s) ELSE Peeked(s), <<>>), LAMBDA s1, pats :
  Then(Expect(s1, ")"), LAMBDA s2, t :
  Then(ArmBody(SkipNewlines(s2)), LAMBDA s3, body :
    Ok(IF Tok(s3) = ";;" THEN SkipNewlines(Taken(s3)) ELSE Peeked(s3),
       Node("arm", <<>>, pats, body, <<>>)))))
RECURSIVE Arms(_, _)
Arms(s, arms) ==
  IF Tok(s) = "esac" THEN Ok(Taken(s), arms)
  ELSE Then(Arm(s), LAMBDA s1, a : Arms(SkipNewlines(s1), Append(arms, a)))
Case(s) ==
  Then(RequiredWord(Taken(s)), LAMBDA s1, w :
  Then(Expect(SkipNewlines(s1), "in"), LAMBDA s2, t :
  Then(Arms(SkipNewlines(s2), <<>>), LAMBDA s3, arms :
  Then(Redirections(s3, <<>>), LAMBDA s4, redirs :
    Ok(s4, Wrapped(Node("case", <<w>>, <<>>, arms, <<>>), redirs))))))

-----------------------------------------------------------------------------
(* Simple commands and function definitions.                                *)

\* name() command
FuncDef(s, name) ==
  Then(Expect(s, "("), LAMBDA s1, t :
  Then(Expect(s1, ")"), LAMBDA s2, u :
  Then(Command(SkipNewlines(s2)), LAMBDA s3, body :
    Ok(s3, Node("func", <<TextOf(name)>>, <<>>, <<body>>, <<>>)))))

\* Mutant of LeadingAssigns: of several assignments the last is kept.
RECURSIVE LastAssign(_, _)
LastAssign(s, assigns) ==
  IF Tok(s) \in Assigns THEN LastAssign(Taken(s), <<Tok(s)>>) ELSE Ok(Peeked(s), assigns)

RECURSIVE LeadingAssigns(_, _)
LeadingAssigns(s, assigns) ==
  IF Tok(s) \in Assigns THEN LeadingAssigns(Taken(s), Append(assigns, Tok(s)))
  ELSE Ok(Peeked(s), assigns)

\* Arguments and redirections in any order; reserved words and assignments
\* are arguments once there is a command name.
RECURSIVE Args(_, _)
Args(s, c) ==
  LET t     == Tok(s)
      named == c.words # <<>>
  IN  CASE t \in RedirOps \/ IsIoNumber(s) ->
             Then(IoRedir(s), LAMBDA s1, r : Args(s1, [c EXCEPT !.redirs = Append(@, r)]))
        [] ~(t \in RedirOps \/ IsIoNumber(s)) /\ IsWord(t) ->
             IF ~named /\ c.names = <<>> /\ Tok(Taken(s)) = "("
             THEN FuncDef(Taken(s), t)
             ELSE Args(Taken(s), [c EXCEPT !.words = Append(@, t)])
        [] t \in Assigns \cup Reserved /\ named ->
             Args(Taken(s), [c EXCEPT !.words = Append(@, t)])
        [] OTHER -> Ok(Peeked(s), c)

SimpleOrFunc(s) ==
  Then(LeadingAssigns(s, <<>>), LAMBDA s1, assigns :
  Then(Args(s1, Node("simple", assigns, <<>>, <<>>, <<>>)), LAMBDA s2, c :
    IF c = Node("simple", <<>>, <<>>, <<>>, <<>>) THEN SyntaxError(s2) ELSE Ok(s2, c)))

Command(s) ==
  LET t == Tok(s)
  IN  CASE t \in {"(", "{"} -> Group(s, t)
        [] t = "if" -> If(s)
        [] t \in {"while", "until"} -> While(s, t)
        [] t = "for"  -> For(s)
        [] t = "case" -> Case(s)
        [] OTHER -> SimpleOrFunc(s)

\* parse_program: top-level commands until the end; nothing need stand
\* between two of them.
RECURSIVE Program(_, _)
Program(s, cmds) ==
  IF Tok(s) = "eof" THEN Ok(s, cmds)
  ELSE Then(List(s, FALSE), LAMBDA s1, c :
         Eager(LAMBDA p : Program(SkipNewlines(p.s), Append(cmds, p.v)), PatchCommand(s1, c)))

Parsed(src) == Program(SkipNewlines(Start(src)), <<>>)
=============================================================================
