------------------------------- MODULE Expand -------------------------------
(***************************************************************************)
(* Word expansion (src/src/expand.rs): the parts of a word become           *)
(* fragments, from left to right and with the assignments on the way; the   *)
(* fragments become fields; the fields become names of files.               *)
(* Command substitution and arithmetic are parts whose outcome is given.    *)
(***************************************************************************)
EXTENDS Pattern, Splitting

CONSTANT Decimal    \* the texts of 0, 1, 2, ...

ASSUME ExpandAssumption == Decimal \in Seq(Seq({Ascii[k] : k \in DOMAIN Ascii}))

Unset == <<"unset">>

\* Shell state that expansion reads: the variables, the positional parameters,
\* IFS, and the options -u and -f.
Env(vars, args, ifs, nounset, noglob) ==
  [vars |-> vars, args |-> args, ifs |-> ifs, nounset |-> nounset, noglob |-> noglob]

\* Parts of words.  word is what is inside: of quotes, of ${name op word}.
Part(kind, text, name, op, word) ==
  [kind |-> kind, text |-> text, name |-> name, op |-> op, word |-> word]
Literal(text)         == Part("literal", text, "", "", <<>>)
SingleQuoted(text)    == Part("single", text, "", "", <<>>)
DoubleQuoted(word)    == Part("double", <<>>, "", "", word)
Param(name, op, word) == Part("param", <<>>, name, op, word)
Plain(name)           == Param(name, "", <<>>)
CmdSubst(output)      == Part("command", output, "", "", <<>>)
Arith(name, text)     == Part("arith", text, name, "", <<>>)   \* $((name = text))
Tilde(user)           == Part("tilde", user, "", "", <<>>)

\* ExpandedWord: a text, whether IFS splits it, and whether a field begins.
Fragment(value, split, starts) == [value |-> value, split |-> split, starts |-> starts]

RECURSIVE Concat(_)
Concat(texts) == IF texts = <<>> THEN <<>> ELSE Head(texts) \o Concat(Tail(texts))
Flat(frags) == Concat([i \in DOMAIN frags |-> frags[i].value])

-----------------------------------------------------------------------------
(* Parameters.                                                              *)

Digits == <<"1", "2", "3", "4", "5", "6", "7", "8", "9">>
IsDigit(name) == \E k \in DOMAIN Digits : Digits[k] = name
IsSpecial(name) == name \in {"@", "*", "#"} \/ IsDigit(name)

\* The positional parameters joined with the first character of IFS.
Joined(env) ==
  Concat([i \in DOMAIN env.args |->
            IF i = 1 \/ env.ifs = <<>> THEN env.args[i] ELSE <<env.ifs[1]>> \o env.args[i]])

RawValue(env, name) ==
  IF name \in {"@", "*"} THEN Joined(env)
  ELSE IF name = "#" THEN Decimal[Len(env.args) + 1]
  ELSE IF IsDigit(name)
  THEN LET k == CHOOSE k \in DOMAIN Digits : Digits[k] = name
       IN  IF k <= Len(env.args) THEN env.args[k] ELSE Unset
  ELSE env.vars[name]
OrEmpty(value) == IF value = Unset THEN <<>> ELSE value

Trims  == {"%", "%%", "#", "##"}
Strict == {"", "length"} \cup Trims            \* operators that need a value under set -u
Colons == {":-", ":=", ":?", ":+"}

Expanded(env, frags) == [ok |-> TRUE, env |-> env, frags |-> frags]
Fails(env)           == [ok |-> FALSE, env |-> env, frags |-> <<>>]
With(r, F(_, _))     == IF r.ok THEN F(r.env, r.frags) ELSE r

\* A part that is unset or, with a colon, empty.
\* Mutant of Missing: the colon makes no difference.
MissingUnset(raw, op) == raw = Unset
Missing(raw, op) == raw = Unset \/ (op \in Colons /\ raw = <<>>)

Trimmed(op, value, pat) ==
  CASE op = "%" -> TrimSuffix(value, pat, FALSE) [] op = "%%" -> TrimSuffix(value, pat, TRUE)
    [] op = "#" -> TrimPrefix(value, pat, FALSE) [] op = "##" -> TrimPrefix(value, pat, TRUE)

\* Characters that quoting takes their meaning from, in a pattern.
\* Mutant of Special: brackets are forgotten.
SpecialStars == {"*", "?", "\\"}
Special == {"*", "?", "[", "]", "\\"}
RECURSIVE Quoted(_)
Quoted(text) ==
  IF text = <<>> THEN <<>>
  ELSE (IF Head(text) \in Special THEN <<Escape>> ELSE <<>>) \o <<Head(text)>> \o Quoted(Tail(text))

RECURSIVE ExpandParts(_, _, _, _), PatternOf(_, _, _)

\* expand_param_to_fragments
Assigned(env, name, value) ==
  IF name \in DOMAIN env.vars THEN [env EXCEPT !.vars[name] = value] ELSE env
ParamFragments(p, env, quoted) ==
  LET raw      == RawValue(env, p.name)
      one(e, v) == Expanded(e, <<Fragment(v, ~quoted, FALSE)>>)
      word     == ExpandParts(p.word, env, quoted, TRUE)
  IN  IF raw = Unset /\ ~IsSpecial(p.name) /\ env.nounset /\ p.op \in Strict THEN Fails(env)
      ELSE CASE p.op = "" -> one(env, OrEmpty(raw))
             [] p.op = "bad" -> Fails(env)
             [] p.op = "length" -> one(env, Decimal[Len(OrEmpty(raw)) + 1])
             [] p.op \in Trims ->
                  With(PatternOf(p.word, env, <<>>), LAMBDA e, pat :
                    one(e, Trimmed(p.op, OrEmpty(raw), pat)))
             [] p.op \in {"+", ":+"} -> IF Missing(raw, p.op) THEN Expanded(env, <<>>) ELSE word
             [] OTHER ->
                  IF ~Missing(raw, p.op) THEN one(env, raw)
                  ELSE IF p.op \in {"-", ":-"} THEN word
                  ELSE IF p.op \in {"=", ":="}
                  THEN With(word, LAMBDA e, frags : one(Assigned(e, p.name, Flat(frags)), Flat(frags)))
                  ELSE With(word, LAMBDA e, frags : Fails(e))

\* expand_pattern: all but unquoted literals is escaped.
PatternOf(parts, env, text) ==
  IF parts = <<>> THEN [ok |-> TRUE, env |-> env, frags |-> text]
  ELSE LET part == Head(parts)
       IN  IF part.kind = "literal" THEN PatternOf(Tail(parts), env, text \o part.text)
           ELSE With(ExpandParts(IF part.kind = "double" THEN part.word ELSE <<part>>, env, TRUE, FALSE),
                     LAMBDA e, frags : PatternOf(Tail(parts), e, text \o Quoted(Flat(frags))))

-----------------------------------------------------------------------------
(* expand_word_parts.                                                       *)

\* "$@" with text around it: the parameters are fields of their own, the text
\* goes to the first and the last of them.
AtFields(env, before, after) ==
  LET n == Len(env.args)
  IN  [i \in 1 .. n |->
         Fragment((IF i = 1 THEN before ELSE <<>>) \o env.args[i] \o (IF i = n THEN after ELSE <<>>),
                  FALSE, i > 1)]

IsAt(part) == part.kind = "param" /\ part.name = "@" /\ part.op = ""
Double(word, env) ==
  LET ats == {k \in DOMAIN word : IsAt(word[k])}
      at  == Min(ats)
  IN  IF ats = {}
      THEN With(ExpandParts(word, env, TRUE, FALSE), LAMBDA e, frags :
             Expanded(e, <<Fragment(Flat(frags), FALSE, FALSE)>>))
      ELSE With(ExpandParts(Take(word, at - 1), env, TRUE, FALSE), LAMBDA e, before :
           With(ExpandParts(Drop(word, at), e, TRUE, FALSE), LAMBDA f, after :
             Expanded(f, AtFields(f, Flat(before), Flat(after)))))

StarFields(env) == [i \in DOMAIN env.args |-> Fragment(env.args[i], TRUE, TRUE)]

Home(env, user) ==
  IF user # <<>> THEN <<"~">> \o user
  ELSE IF env.vars["HOME"] = Unset THEN <<"~">> ELSE env.vars["HOME"]

ExpandPart(part, env, quoted, inParam) ==
  LET one(v, split) == Expanded(env, <<Fragment(v, split, FALSE)>>)
      bare == part.kind = "param" /\ part.op = ""
  IN  CASE part.kind = "literal" -> one(part.text, inParam /\ ~quoted)
        [] part.kind = "single"  -> one(part.text, FALSE)
        [] part.kind = "double"  -> Double(part.word, env)
        [] part.kind = "tilde"   -> one(Home(env, part.text), FALSE)
        [] part.kind = "command" -> one(part.text, ~quoted)
        [] part.kind = "arith" ->
             Expanded(Assigned(env, part.name, part.text), <<Fragment(part.text, ~quoted, FALSE)>>)
        [] bare /\ part.name = "@" /\ ~quoted -> Expanded(env, AtFields(env, <<>>, <<>>))
        [] bare /\ part.name = "*" /\ quoted  -> one(Joined(env), FALSE)
        [] bare /\ part.name = "*" /\ ~quoted -> Expanded(env, StarFields(env))
        [] part.kind = "param" /\ ~(bare /\ (part.name = "*" \/ (part.name = "@" /\ ~quoted))) ->
             ParamFragments(part, env, quoted)

ExpandParts(parts, env, quoted, inParam) ==
  IF parts = <<>> THEN Expanded(env, <<>>)
  ELSE With(ExpandPart(Head(parts), env, quoted, inParam), LAMBDA e, first :
       With(ExpandParts(Tail(parts), e, quoted, inParam), LAMBDA f, rest :
         Expanded(f, first \o rest)))

-----------------------------------------------------------------------------
(* field_split of the fragments; the text of a field is that of its items.  *)

Items(f) == <<Item(Begin, f.split, f.starts)>> \o [i \in DOMAIN f.value |-> Item(f.value[i], f.split, FALSE)]
Joining(part) == Concat([i \in DOMAIN part |-> IF part[i].char = Begin THEN <<>> ELSE <<part[i].char>>])

FieldSplit(frags, ifs) ==
  LET given == Concat([i \in DOMAIN frags |-> Items(frags[i])])
      after[n \in 0 .. Len(given)] == IF n = 0 THEN NoFields ELSE Pass(after[n - 1], n, given[n], ifs)
      made  == EmitOpen(after[Len(given)]).fields
  IN  [k \in DOMAIN made |-> Joining(SubSeq(given, made[k][1], made[k][2]))]

-----------------------------------------------------------------------------
(* expand_word_to_fields: every field becomes the names it matches, or      *)
(* itself without the escapes.                                              *)

RECURSIVE RemoveEscapes(_)
RemoveEscapes(s) ==
  IF s = <<>> THEN <<>>
  ELSE IF Head(s) = Escape /\ Len(s) > 1 THEN <<s[2]>> \o RemoveEscapes(Drop(s, 2))
  ELSE <<Head(s)>> \o RemoveEscapes(Tail(s))

PathText(field, path) ==
  LET below == IF field[1] = "/" THEN path ELSE Drop(path, Len(Cwd))
  IN  Concat([i \in DOMAIN below |-> IF i = 1 /\ field[1] # "/" THEN below[i] ELSE <<"/">> \o below[i]])

Names(env, field) ==
  LET paths == IF env.noglob \/ ~HasGlobChars(field) THEN {} ELSE Glob(field)
  IN  IF paths = {} THEN {RemoveEscapes(field)} ELSE {PathText(field, p) : p \in paths}

WordToFields(word, env) ==
  With(ExpandParts(word, env, FALSE, FALSE), LAMBDA e, frags :
    LET fields == FieldSplit(frags, e.ifs)
    IN  Expanded(e, [i \in DOMAIN fields |-> Names(e, fields[i])]))

-----------------------------------------------------------------------------
(* What parameters mean: for each operator, what a parameter yields that is *)
(* set, set to nothing, or unset.                                           *)

Yields == [op \in {"", "-", ":-", "=", ":=", "?", ":?", "+", ":+"} |->
  CASE op = ""   -> <<"value", "value", "value">>
    [] op = "-"  -> <<"value", "value", "word">>    [] op = ":-" -> <<"value", "word", "word">>
    [] op = "="  -> <<"value", "value", "assign">>  [] op = ":=" -> <<"value", "assign", "assign">>
    [] op = "?"  -> <<"value", "value", "error">>   [] op = ":?" -> <<"value", "error", "error">>
    [] op = "+"  -> <<"word", "word", "nothing">>   [] op = ":+" -> <<"word", "nothing", "nothing">>]
Column(raw) == IF raw = Unset THEN 3 ELSE IF raw = <<>> THEN 2 ELSE 1

\* The text that parts stand for between double quotes, and the variables
\* after it: parts one after the other, words only where they are needed.
RECURSIVE TextOf(_, _)
PartText(p, env) ==
  LET raw     == RawValue(env, p.name)
      yield   == Yields[p.op][Column(raw)]
      strict  == env.nounset /\ raw = Unset /\ ~IsSpecial(p.name) /\ p.op = ""
  IN  CASE p.kind \in {"literal", "single", "command"} -> Expanded(env, p.text)
        [] p.kind = "double" -> TextOf(p.word, env)
        [] p.kind = "arith"  -> Expanded([env EXCEPT !.vars[p.name] = p.text], p.text)
        [] p.kind = "tilde"  -> Expanded(env, Home(env, p.text))
        [] p.kind = "param"  ->
             IF strict THEN Fails(env)
             ELSE CASE yield = "value"   -> Expanded(env, OrEmpty(raw))
                    [] yield = "nothing" -> Expanded(env, <<>>)
                    [] yield = "word"    -> TextOf(p.word, env)
                    [] yield = "error"   -> With(TextOf(p.word, env), LAMBDA e, t : Fails(e))
                    [] yield = "assign"  ->
                         With(TextOf(p.word, env), LAMBDA e, t : Expanded([e EXCEPT !.vars[p.name] = t], t))
TextOf(parts, env) ==
  IF parts = <<>> THEN Expanded(env, <<>>)
  ELSE With(PartText(Head(parts), env), LAMBDA e, first :
       With(TextOf(Tail(parts), e), LAMBDA f, rest : Expanded(f, first \o rest)))

\* Operators that Yields knows, "$@" aside.
RECURSIVE Tabled(_)
Tabled(parts) ==
  \A i \in DOMAIN parts :
    /\ parts[i].kind = "param" => parts[i].op \in DOMAIN Yields /\ parts[i].name # "@"
    /\ Tabled(parts[i].word)

-----------------------------------------------------------------------------
(* What quoting means.                                                      *)

\* The fields of quoted parts: one, and more only for "$@".
Glue(left, right) ==
  Take(left, Len(left) - 1) \o <<left[Len(left)] \o right[1]>> \o Tail(right)
RECURSIVE QuotedFields(_, _)
QuotedFields(parts, env) ==
  IF parts = <<>> THEN << <<>> >>
  ELSE LET part == Head(parts)
           rest == QuotedFields(Tail(parts), env)
       IN  IF part.kind = "double" THEN Glue(QuotedFields(part.word, env), rest)
           ELSE IF IsAt(part) THEN Glue(env.args, rest)
           ELSE Glue(<<TextOf(<<part>>, env).frags>>, rest)
HasAt(parts) == \E i \in DOMAIN parts : parts[i].kind = "double" /\ \E k \in DOMAIN parts[i].word : IsAt(parts[i].word[k])
IsQuoted(part) == part.kind \in {"single", "double"}
AllQuoted(parts) == parts # <<>> /\ \A i \in DOMAIN parts : IsQuoted(parts[i])
=============================================================================
