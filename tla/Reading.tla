------------------------------- MODULE Reading -------------------------------
(***************************************************************************)
(* The builtin read (builtin_read in src/src/builtins.rs): it takes one     *)
(* line, a character at a time, so that what it leaves of its input is      *)
(* there for the next command, and splits it over variables.                *)
(***************************************************************************)
EXTENDS Integers, Sequences, FiniteSets, FiniteSetsExt

CONSTANTS
  InputChars, MaxInput,   \* what the input is made of
  Whitespace,             \* among the characters
  Readers                 \* calls: raw (-r), n (how many variables), ifs (a set)

Newline == "nl"
Backslash == "\\"

ASSUME ReadersAssumption ==
  /\ InputChars \subseteq STRING /\ MaxInput \in Nat
  /\ \A r \in Readers : r.raw \in BOOLEAN /\ r.n \in Nat \ {0} /\ r.ifs \subseteq STRING

VARIABLES
  stdin,       \* the characters at descriptor 0
  taken,       \* how many of them have been read
  reader,      \* the call in progress
  phase,       \* "idle", "read", "peek" (after a backslash), "split", "assign", "done"
  line, continued, eof,    \* the line so far, hit_eof
  next,        \* of the line, the first character not yet assigned (pos)
  values,      \* of the variables
  from,        \* history: taken when the call began
  kept,        \* history: which characters of the input are those of the line
  spans        \* history: which characters of the line are those of each value

readVars == <<stdin, taken, reader, phase, line, continued, eof, next, values, from, kept, spans>>

NoReader == [raw |-> TRUE, n |-> 1, ifs |-> {}]
ReadInit ==
  /\ stdin = <<>> /\ taken = 0 /\ reader = NoReader /\ phase = "idle"
  /\ line = <<>> /\ continued = FALSE /\ eof = FALSE
  /\ next = 1 /\ values = <<>> /\ from = 0 /\ kept = <<>> /\ spans = <<>>

\* Before the first call somebody writes the input.
Write(c) ==
  /\ phase = "idle" /\ taken = 0 /\ Len(stdin) < MaxInput
  /\ stdin' = Append(stdin, c)
  /\ UNCHANGED <<taken, reader, phase, line, continued, eof, next, values, from, kept, spans>>

StartRead(r) ==
  /\ phase \in {"idle", "done"}
  /\ reader' = r /\ phase' = "read" /\ from' = taken
  /\ line' = <<>> /\ kept' = <<>> /\ continued' = FALSE /\ eof' = FALSE
  /\ next' = 1 /\ values' = <<>> /\ spans' = <<>>
  /\ UNCHANGED <<stdin, taken>>

-----------------------------------------------------------------------------
(* The line: one system call takes one character.                           *)

callVars == <<stdin, reader, from>>
splitVars == <<next, values, spans>>

Taking(c) == taken < Len(stdin) /\ stdin[taken + 1] = c /\ taken' = taken + 1
Other(c)  == c # Newline /\ (c = Backslash => reader.raw)

Adds(i) == line' = Append(line, stdin[i]) /\ kept' = Append(kept, i)
Ends(e) == eof' = e /\ phase' = "split"

TakeOther ==
  /\ phase = "read"
  /\ \E c \in InputChars : Other(c) /\ Taking(c)
  /\ Adds(taken + 1) /\ continued' = FALSE
  /\ UNCHANGED <<callVars, splitVars, phase, eof>>

\* After a continued line another newline is passed over too.
TakeNewline ==
  /\ phase = "read" /\ Taking(Newline)
  /\ IF continued THEN continued' = FALSE /\ UNCHANGED <<phase, eof>>
                  ELSE Ends(FALSE) /\ UNCHANGED continued
  /\ UNCHANGED <<callVars, splitVars, line, kept>>

TakeBackslash ==
  /\ phase = "read" /\ ~reader.raw /\ Taking(Backslash)
  /\ phase' = "peek"
  /\ UNCHANGED <<callVars, splitVars, line, kept, continued, eof>>

\* Mutant of Continue: an escaped newline is a character of the line.
ContinueNot == Adds(taken + 1) /\ continued' = FALSE
Continue == continued' = TRUE /\ UNCHANGED <<line, kept>>
PeekNewline ==
  /\ phase = "peek" /\ Taking(Newline)
  /\ Continue /\ phase' = "read"
  /\ UNCHANGED <<callVars, splitVars, eof>>

PeekOther ==
  /\ phase = "peek"
  /\ \E c \in InputChars \ {Newline} : Taking(c)
  /\ Adds(taken + 1) /\ continued' = FALSE /\ phase' = "read"
  /\ UNCHANGED <<callVars, splitVars, eof>>

\* A backslash at the end of the input stays.
EndOfFile ==
  /\ phase \in {"read", "peek"} /\ taken = Len(stdin)
  /\ IF phase = "peek" THEN Adds(taken) ELSE UNCHANGED <<line, kept>>
  /\ Ends(TRUE)
  /\ UNCHANGED <<callVars, splitVars, taken, continued>>

-----------------------------------------------------------------------------
(* The variables.                                                           *)

lineVars == <<stdin, taken, reader, line, continued, eof, from, kept>>

\* From i on, the first character that is not, or that is, one of these.
Past(i, chars) == Min({k \in i .. Len(line) + 1 : k \in DOMAIN line => line[k] \notin chars})
UpTo(i, chars) == Min({k \in i .. Len(line) + 1 : k \in DOMAIN line => line[k] \in chars})
\* The last one that is not.
LastNot(i, chars) == Max({i - 1} \cup {k \in i .. Len(line) : line[k] \notin chars})

Assigns(i, j) == values' = Append(values, SubSeq(line, i, j)) /\ spans' = Append(spans, <<i, j>>)

AssignNothing ==
  /\ phase = "split" /\ eof /\ line = <<>>
  /\ values' = [k \in 1 .. reader.n |-> <<>>] /\ spans' = [k \in 1 .. reader.n |-> <<1, 0>>]
  /\ phase' = "done"
  /\ UNCHANGED <<lineVars, next>>

AssignWhole ==
  /\ phase = "split" /\ ~(eof /\ line = <<>>) /\ reader.n = 1
  /\ LET i == Past(1, reader.ifs) IN Assigns(i, LastNot(i, reader.ifs))
  /\ phase' = "done"
  /\ UNCHANGED <<lineVars, next>>

SkipLeading ==
  /\ phase = "split" /\ ~(eof /\ line = <<>>) /\ reader.n > 1
  /\ next' = Past(1, reader.ifs \cap Whitespace) /\ phase' = "assign"
  /\ UNCHANGED <<lineVars, values, spans>>

AssignField ==
  /\ phase = "assign" /\ Len(values) + 1 < reader.n
  /\ LET stop == UpTo(next, reader.ifs)
     IN  Assigns(next, stop - 1) /\ next' = Past(stop, reader.ifs)
  /\ UNCHANGED <<lineVars, phase>>

AssignRest ==
  /\ phase = "assign" /\ Len(values) + 1 = reader.n
  /\ Assigns(next, LastNot(next, reader.ifs \cap Whitespace))
  /\ phase' = "done"
  /\ UNCHANGED <<lineVars, next>>

ReadNext ==
  \/ \E c \in InputChars : Write(c)
  \/ \E r \in Readers : StartRead(r)
  \/ TakeOther \/ TakeNewline \/ TakeBackslash \/ PeekNewline \/ PeekOther \/ EndOfFile
  \/ AssignNothing \/ AssignWhole \/ SkipLeading \/ AssignField \/ AssignRest

ReadSpec == ReadInit /\ [][ReadNext]_readVars

ReadTypeOK ==
  /\ stdin \in Seq(InputChars) /\ {taken, from} \subseteq 0 .. Len(stdin)
  /\ reader \in Readers \cup {NoReader}
  /\ phase \in {"idle", "read", "peek", "split", "assign", "done"}
  /\ line \in Seq(InputChars) /\ {continued, eof} \subseteq BOOLEAN
  /\ next \in 1 .. Len(line) + 1 /\ values \in Seq(Seq(InputChars))
  /\ kept \in Seq(1 .. Len(stdin)) /\ spans \in Seq(Nat \X Nat)

-----------------------------------------------------------------------------
(* Lines and their words.                                                   *)

\* In a run of backslashes every other one escapes what follows it.
Escaping(i) ==
  /\ ~reader.raw /\ i \in from + 1 .. Len(stdin) /\ stdin[i] = Backslash
  /\ LET run == i - Max({from} \cup {k \in from + 1 .. i - 1 : stdin[k] # Backslash}) IN run % 2 = 1

\* The first newline that is not escaped ends the line.
LineEnd ==
  Min({Len(stdin) + 1} \cup {i \in from + 1 .. Len(stdin) : stdin[i] = Newline /\ ~Escaping(i - 1)})

\* What it consists of: no escaping backslash, but one that ends the input,
\* and no escaped newline.
Content ==
  {i \in from + 1 .. LineEnd - 1 :
     IF Escaping(i) THEN i = Len(stdin) ELSE ~(Escaping(i - 1) /\ stdin[i] = Newline)}

\* After a continued line, one newline that ends the line is passed over.
DoublyContinued ==
  \E i \in from + 1 .. Len(stdin) - 2 :
    Escaping(i) /\ stdin[i + 1] = Newline /\ stdin[i + 2] = Newline

LineRead ==
  /\ \A j, k \in DOMAIN kept : j < k => kept[j] < kept[k]
  /\ {kept[k] : k \in DOMAIN kept} = Content
  /\ line = [k \in DOMAIN kept |-> stdin[kept[k]]]
  /\ taken = Min({LineEnd, Len(stdin)}) /\ eof = (LineEnd > Len(stdin))

\* The words of the line, each from its first to its last character.
IsWord(i, j) ==
  /\ i <= j /\ \A k \in i .. j : line[k] \notin reader.ifs
  /\ (i > 1 => line[i - 1] \in reader.ifs) /\ (j < Len(line) => line[j + 1] \in reader.ifs)
WordsOfLine == {w \in (DOMAIN line) \X (DOMAIN line) : IsWord(w[1], w[2])}

\* The k-th variable gets the next word, the last one all that are left.
Shared(k) ==
  LET left == {w \in WordsOfLine : k > 1 => w[1] > spans[k - 1][2]}
  IN  /\ values[k] = SubSeq(line, spans[k][1], spans[k][2])
      /\ left = {} => values[k] = <<>>
      /\ left # {} =>
           /\ \E w \in left : w[1] = spans[k][1] /\ \A v \in left : w[1] <= v[1]
           /\ \E w \in left : w[2] = spans[k][2] /\ \A v \in left :
                IF k = reader.n THEN v[2] <= w[2] ELSE w[2] <= v[2]

(* read takes one line and leaves the rest of its input for the next one,   *)
(* the characters after a backslash taken as they are, a line that a        *)
(* backslash ends continued.  Where IFS is white space, each variable gets  *)
(* the next word of the line and the last one all that is left              *)
(* (builtin_read).                                                          *)
ReadsLine ==
  /\ (phase \in {"split", "assign", "done"} /\ ~DoublyContinued) => LineRead
  /\ (phase = "done" /\ reader.ifs \subseteq Whitespace) =>
       Len(values) = reader.n /\ \A k \in 1 .. reader.n : Shared(k)
=============================================================================
