------------------------------ MODULE Splitting ------------------------------
(***************************************************************************)
(* Field splitting (field_split in src/src/expand.rs).  What is split comes *)
(* in fragments; here it is one sequence of items, in which an item of its  *)
(* own begins each fragment and the others are characters.  A behaviour     *)
(* gives field_split one item after another.                                *)
(***************************************************************************)
EXTENDS Integers, Sequences

CONSTANTS
  Blank,                    \* the whitespace among the characters
  SplitChars, IfsValues,    \* the characters of the fragments, the values of IFS
  MaxItems

Begin == ""   \* in place of a character

ASSUME SplittingAssumption == Begin \notin SplitChars

Among(c, ifs)   == \E k \in DOMAIN ifs : ifs[k] = c
IsWhite(c, ifs) == c \in Blank /\ Among(c, ifs)
IsMark(c, ifs)  == c \notin Blank /\ Among(c, ifs)

\* split_fields and word_break, of the fragment that the item is in.
Item(c, split, starts) == [char |-> c, split |-> split, starts |-> starts]
ItemSet == [char : SplitChars \cup {Begin}, split : BOOLEAN, starts : BOOLEAN]

-----------------------------------------------------------------------------
(* The pass over the items.  A field is where its first and its last item   *)
(* stand; one that a delimiter makes of nothing lies before the delimiter.  *)

\* The fields, the one in progress (current) and whether there is one
\* (have_field), and what the loop skips: white space up to a mark, white
\* space after a mark, or nothing.
NoFields == [fields |-> <<>>, from |-> 1, to |-> 0, open |-> FALSE, skip |-> "no"]
Skipping == {"no", "white", "after"}

EmitOpen(s) == IF s.open THEN [s EXCEPT !.fields = Append(@, <<s.from, s.to>>), !.open = FALSE] ELSE s
\* Mutant of Emit: a delimiter does not make an empty field.
EmitText(s, i) == EmitOpen(s)
Emit(s, i)     == IF s.open THEN EmitOpen(s) ELSE [s EXCEPT !.fields = Append(@, <<i, i - 1>>)]
Grow(s, i)     == [s EXCEPT !.from = IF s.open THEN @ ELSE i, !.to = i, !.open = TRUE, !.skip = "no"]
Skip(s, what)  == [s EXCEPT !.skip = what]

Pass(s, i, item, ifs) ==
  LET splits == item.split /\ ifs # <<>>
      broken == Skip(IF item.starts THEN EmitOpen(s) ELSE s, "no")
  IN  IF item.char = Begin THEN IF splits THEN broken ELSE Grow(broken, i)
      ELSE IF splits /\ IsWhite(item.char, ifs)
      THEN IF s.skip = "no" THEN Skip(EmitOpen(s), "white") ELSE s
      ELSE IF splits /\ IsMark(item.char, ifs)
      THEN Skip(IF s.skip = "white" THEN s ELSE Emit(s, i), "after")
      ELSE Grow(s, i)

-----------------------------------------------------------------------------
VARIABLES
  items,    \* so far
  delims,   \* IFS
  pass      \* what field_split has made of them

fieldVars == <<items, delims, pass>>

Give(item) ==
  /\ Len(items) < MaxItems
  /\ items' = Append(items, item) /\ pass' = Pass(pass, Len(items) + 1, item, delims)
  /\ UNCHANGED delims

GiveFragment(split, starts) == Give(Item(Begin, split, starts))
GiveChar(c) == items # <<>> /\ Give(Item(c, items[Len(items)].split, FALSE))

SplitInit == items = <<>> /\ delims \in IfsValues /\ pass = NoFields
SplitNext ==
  \/ \E split, starts \in BOOLEAN : GiveFragment(split, starts)
  \/ \E c \in SplitChars : GiveChar(c)

SplitSpec == SplitInit /\ [][SplitNext]_fieldVars

SplitTypeOK ==
  /\ items \in Seq(ItemSet) /\ delims \in IfsValues
  /\ pass \in [fields : Seq(Nat \X Nat), from : Nat, to : Nat, open : BOOLEAN, skip : Skipping]

FieldsMade == EmitOpen(pass).fields

-----------------------------------------------------------------------------
(* What field splitting means.                                              *)

MaySplit(i) == items[i].char # Begin /\ items[i].split
White(i)  == MaySplit(i) /\ IsWhite(items[i].char, delims)
Mark(i)   == MaySplit(i) /\ IsMark(items[i].char, delims)
Breaks(i) == items[i].char = Begin /\ items[i].starts

\* What is not split begins with an item that makes a field even where there
\* is nothing else in it; and without IFS nothing is split.
Belongs(i) ==
  IF items[i].char = Begin THEN ~items[i].split \/ delims = <<>>
                           ELSE ~White(i) /\ ~Mark(i)

\* A field is a longest stretch of items that nothing separates.
Separates(i) == White(i) \/ Mark(i) \/ Breaks(i)
IsField(f, t) ==
  /\ f <= t /\ Belongs(f) /\ Belongs(t) /\ \A d \in f + 1 .. t : ~Separates(d)
  /\ \A k \in 1 .. f - 1 : Belongs(k) => \E d \in k + 1 .. f : Separates(d)
  /\ \A k \in t + 1 .. Len(items) : Belongs(k) => \E d \in t + 1 .. k : Separates(d)

\* A mark ends a field, of nothing if there is nothing since the last mark.
EndsNothing(m) ==
  \A k \in 1 .. m - 1 : Belongs(k) => \E d \in k + 1 .. m - 1 : Mark(d) \/ Breaks(d)

Fields ==
  {w \in (DOMAIN items) \X (DOMAIN items) : IsField(w[1], w[2])}
  \cup {<<m, m - 1>> : m \in {k \in DOMAIN items : Mark(k) /\ EndsNothing(k)}}

\* Each fragment is split by itself.  White space that a fragment begins with
\* takes the mark after it, though nothing may be before it; and before a mark
\* that a fragment begins with, white space has ended the field already.
StraddlesAt(m) ==
  \E b \in 1 .. m - 1 :
    /\ items[b].char = Begin /\ \A k \in b + 1 .. m - 1 : White(k)
    /\ IF b < m - 1 THEN EndsNothing(m)
       ELSE ~EndsNothing(m) /\ \E d \in 1 .. b : White(d) /\ \A k \in d + 1 .. b : ~Belongs(k)
Straddles == \E m \in DOMAIN items : Mark(m) /\ StraddlesAt(m)

(* The fields of a word are those of the definition of field splitting, in  *)
(* their order, wherever in its fragments the delimiters stand, except      *)
(* exactly where a mark and the white space before it straddle fragments    *)
(* (field_split).                                                           *)
FieldsDefined ==
  /\ ({FieldsMade[n] : n \in DOMAIN FieldsMade} = Fields) = ~Straddles
  /\ \A m, n \in DOMAIN FieldsMade : m < n => FieldsMade[m][1] < FieldsMade[n][1]
=============================================================================
