----------------------------- MODULE Vars_proofs -----------------------------
(***************************************************************************)
(* Proofs about Vars, for any names, values and depth of calls: its        *)
(* invariants, and that it implements Scoping.                             *)
(***************************************************************************)
EXTENDS Vars, TLAPS, SequenceTheorems, WellFoundedInduction

VarsOK == vars \in [Names -> Var \cup {Absent}]

-----------------------------------------------------------------------------
(* What the operations of Variables make of a well-typed map.               *)

\* Absent is no variable, and a text is never Unset.
LEMMA VarTypes ==
  /\ Absent \notin Var
  /\ Var = [value : Values \cup {Unset}, cache : Numbers \cup {NoInt},
            exported : BOOLEAN, readonly : BOOLEAN]
BY AbsentAssumption DEF Var

LEMMA NewVarType ==
  /\ NewVar(Unset) \in Var /\ Agrees(NewVar(Unset))
  /\ \A v \in Values : NewVar(v) \in Var /\ Agrees(NewVar(v))
BY ParseAssumption, UnsetAssumption DEF NewVar, Var, Agrees

LEMMA EntryType ==
  ASSUME VarsOK, NEW n \in Names
  PROVE  /\ Entry(n) \in Var
         /\ Agrees(vars[n]) => Agrees(Entry(n))
<1>1. CASE vars[n] = Absent
  BY <1>1, NewVarType DEF Entry
<1>2. CASE vars[n] # Absent
  BY <1>2 DEF VarsOK, Entry
<1>3. QED
  BY <1>1, <1>2

\* A new map of the variables in which only n may differ.
Only(n, x, map) ==
  /\ map = [vars EXCEPT ![n] = x]
  /\ x \in Var \cup {Absent}
  /\ Agrees(vars[n]) => Agrees(x)

LEMMA WrittenOnly ==
  ASSUME VarsOK, NEW n \in Names, NEW v \in Values
  PROVE  Only(n, [Entry(n) EXCEPT !.value = v, !.cache = ParseInt[v]], Written(n, v))
BY EntryType, ParseAssumption, UnsetAssumption DEF Only, Written, Var, Agrees

LEMMA WrittenIntOnly ==
  ASSUME VarsOK, NEW n \in Names, NEW i \in Numbers
  PROVE  Only(n, [Entry(n) EXCEPT !.value = ShowInt[i], !.cache = i], WrittenInt(n, i))
<1>1. ShowInt[i] \in Values /\ ParseInt[ShowInt[i]] = i
  BY ParseAssumption
<1>2. QED
  BY <1>1, EntryType, UnsetAssumption DEF Only, WrittenInt, Var, Agrees

LEMMA RemovedOnly ==
  ASSUME NEW n \in Names
  PROVE  Only(n, Absent, Removed(n))
BY DEF Only, Removed, Agrees

\* A read-only variable keeps its value and its mark; no other mark goes, and no
\* value turns into none, as long as the variable is there.
MayTo(old, new) ==
  old \in Var =>
    /\ old.readonly => new \in Var /\ new.readonly /\ new.value = old.value
    /\ new \in Var =>
         /\ old.exported => new.exported
         /\ old.value # Unset => new.value # Unset

\* What a command does to the map: it changes one variable, as it may.
Touches(n) ==
  \E x \in Var \cup {Absent} : Only(n, x, vars') /\ MayTo(vars[n], x)

LEMMA TouchNothing ==
  ASSUME VarsOK, NEW n \in Names, UNCHANGED vars
  PROVE  Touches(n)
BY DEF Touches, Only, MayTo, VarsOK

LEMMA TouchWritten ==
  ASSUME VarsOK, NEW n \in Names, NEW v \in Values, ~IsReadonly(n), vars' = Written(n, v)
  PROVE  Touches(n)
<1> DEFINE x == [Entry(n) EXCEPT !.value = v, !.cache = ParseInt[v]]
<1>1. Only(n, x, vars') /\ x \in Var
  BY WrittenOnly, EntryType, ParseAssumption DEF Var
<1>2. MayTo(vars[n], x)
  BY EntryType, VarTypes, UnsetAssumption DEF MayTo, IsReadonly, Entry, Var
<1>3. QED
  BY <1>1, <1>2 DEF Touches

LEMMA TouchInt ==
  ASSUME VarsOK, NEW n \in Names, NEW i \in Numbers, ~IsReadonly(n), vars' = WrittenInt(n, i)
  PROVE  Touches(n)
<1> DEFINE x == [Entry(n) EXCEPT !.value = ShowInt[i], !.cache = i]
<1>1. Only(n, x, vars') /\ x \in Var
  BY WrittenIntOnly, EntryType, ParseAssumption DEF Var
<1>2. MayTo(vars[n], x)
  <2>1. ShowInt[i] \in Values
    BY ParseAssumption
  <2>2. QED
    BY <2>1, EntryType, VarTypes, UnsetAssumption DEF MayTo, IsReadonly, Entry, Var
<1>3. QED
  BY <1>1, <1>2 DEF Touches

LEMMA TouchRemoved ==
  ASSUME VarsOK, NEW n \in Names, ~IsReadonly(n), vars' = Removed(n)
  PROVE  Touches(n)
BY RemovedOnly, AbsentAssumption DEF Touches, MayTo, IsReadonly

\* Marks, on what is there or on a new variable.
LEMMA TouchMarks ==
  ASSUME VarsOK, NEW n \in Names,
         \/ vars' = Exported(n, [vars EXCEPT ![n] = Entry(n)])
         \/ vars' = MadeReadonly(n, [vars EXCEPT ![n] = Entry(n)])
  PROVE  Touches(n)
<1> DEFINE e == [Entry(n) EXCEPT !.exported = TRUE]
           r == [Entry(n) EXCEPT !.readonly = TRUE]
<1>1. Entry(n) \in Var /\ (Agrees(vars[n]) => Agrees(Entry(n)))
  BY EntryType
<1>2. vars' = [vars EXCEPT ![n] = e] \/ vars' = [vars EXCEPT ![n] = r]
  BY DEF Exported, MadeReadonly, VarsOK
<1>3. /\ e \in Var /\ (Agrees(vars[n]) => Agrees(e))
      /\ r \in Var /\ (Agrees(vars[n]) => Agrees(r))
  BY <1>1, VarTypes DEF Var, Agrees
<1>4. MayTo(vars[n], e) /\ MayTo(vars[n], r)
  BY <1>1, VarTypes DEF MayTo, Entry, Var
<1>5. QED
  BY <1>2, <1>3, <1>4 DEF Touches, Only

\* A value and a mark.
LEMMA TouchBoth ==
  ASSUME VarsOK, NEW n \in Names, NEW v \in Values, ~IsReadonly(n),
         vars' = Exported(n, Written(n, v)) \/ vars' = MadeReadonly(n, Written(n, v))
  PROVE  Touches(n)
<1> DEFINE x == [Entry(n) EXCEPT !.value = v, !.cache = ParseInt[v]]
           e == [x EXCEPT !.exported = TRUE]
           r == [x EXCEPT !.readonly = TRUE]
<1>1. x \in Var /\ Written(n, v) = [vars EXCEPT ![n] = x] /\ (Agrees(vars[n]) => Agrees(x))
  <2>1. Only(n, x, Written(n, v))
    BY WrittenOnly
  <2>2. x \in Var
    BY EntryType, ParseAssumption DEF Var
  <2> HIDE DEF x
  <2>3. QED
    BY <2>1, <2>2 DEF Only
<1>2. MayTo(vars[n], x)
  BY EntryType, VarTypes, UnsetAssumption DEF MayTo, IsReadonly, Entry, Var
<1> HIDE DEF x
<1>3. vars' = [vars EXCEPT ![n] = e] \/ vars' = [vars EXCEPT ![n] = r]
  BY <1>1 DEF Exported, MadeReadonly, VarsOK
<1>4. /\ e \in Var /\ (Agrees(vars[n]) => Agrees(e))
      /\ r \in Var /\ (Agrees(vars[n]) => Agrees(r))
  BY <1>1, VarTypes DEF Var, Agrees
<1>5. MayTo(vars[n], e) /\ MayTo(vars[n], r)
  BY <1>1, <1>2, VarTypes DEF MayTo, Var, IsReadonly
<1>6. QED
  BY <1>3, <1>4, <1>5 DEF Touches, Only

-----------------------------------------------------------------------------
(* The steps, by their shape.                                               *)

CommandOn(n) ==
  \/ Export(n) \/ Readonly(n) \/ UnsetVar(n) \/ Local(n)
  \/ \E i \in Numbers : AssignInt(n, i)
  \/ \E v \in Values :
       \/ Assign(n, v) \/ AssignDefault(n, v) \/ Store(n, v)
       \/ ExportValue(n, v) \/ ReadonlyValue(n, v) \/ LocalValue(n, v)

\* A command changes one variable, and may log it.
LEMMA CommandShape ==
  ASSUME VarsOK, NEW n \in Names, CommandOn(n)
  PROVE  /\ Touches(n)
         /\ UNCHANGED <<calls, inherited>>
         /\ UNCHANGED scopes \/ scopes' = Logged(n)
         /\ mode' \in {mode, "unwind"}
<1>1. CASE Export(n) \/ Readonly(n)
  BY <1>1, TouchMarks DEF Export, Readonly, Others
<1>2. CASE UnsetVar(n)
  BY <1>2, TouchRemoved DEF UnsetVar, Others
<1>3. CASE Local(n)
  BY <1>3, TouchNothing DEF Local, Others
<1>4. ASSUME NEW i \in Numbers, AssignInt(n, i)
      PROVE  Touches(n) /\ UNCHANGED <<calls, inherited, scopes, mode>>
  BY <1>4, TouchInt DEF AssignInt, Others
<1>5. ASSUME NEW v \in Values, Assign(n, v)
      PROVE  Touches(n) /\ UNCHANGED <<calls, inherited, scopes>> /\ mode' \in {mode, "unwind"}
  BY <1>5, TouchWritten, TouchNothing DEF Assign, Others
<1>6. ASSUME NEW v \in Values, AssignDefault(n, v) \/ Store(n, v)
      PROVE  Touches(n) /\ UNCHANGED <<calls, inherited, scopes, mode>>
  BY <1>6, TouchWritten DEF AssignDefault, Store, Others
<1>7. ASSUME NEW v \in Values, ExportValue(n, v) \/ ReadonlyValue(n, v)
      PROVE  Touches(n) /\ UNCHANGED <<calls, inherited, scopes, mode>>
  BY <1>7, TouchBoth DEF ExportValue, ReadonlyValue, Others
<1>8. ASSUME NEW v \in Values, LocalValue(n, v)
      PROVE  Touches(n) /\ UNCHANGED <<calls, inherited, mode>> /\ scopes' = Logged(n)
  BY <1>8, TouchWritten, TouchNothing DEF LocalValue, Others
<1>9. QED
  BY <1>1, <1>2, <1>3, <1>4, <1>5, <1>6, <1>7, <1>8 DEF CommandOn

Saved(n) == [name |-> n, previous |-> vars[n]]

\* The scope of a call is empty, or holds what the prefix assignment hid.
LEMMA CallShape ==
  ASSUME VarsOK, NEW prefix \in CallPrefixes, Call(prefix) \/ CallFails(prefix)
  PROVE  /\ UNCHANGED inherited
         /\ calls' \in {calls, calls + 1} /\ mode' \in {mode, "unwind"}
         /\ \/ UNCHANGED vars /\ scopes' = Append(scopes, <<>>)
            \/ \E n \in Names : Touches(n) /\ scopes' = Append(scopes, <<Saved(n)>>)
<1>1. CallHead(prefix) /\ calls' \in {calls, calls + 1} /\ mode' \in {mode, "unwind"}
  BY DEF Call, CallFails
<1>2. UNCHANGED inherited
  BY <1>1 DEF CallHead
<1>3. ASSUME NEW n \in Names \ OddNames, NEW v \in Values,
             vars' = IF IsReadonly(n) THEN vars ELSE Written(n, v)
      PROVE  Touches(n)
  BY <1>3, TouchWritten, TouchNothing
<1>4. QED
  BY <1>1, <1>2, <1>3 DEF CallHead, Saved

-----------------------------------------------------------------------------
(* Well-typed state, and caches.                                            *)

\* A set of numbers that is not empty has a least one.
LEMMA LeastNumber ==
  ASSUME NEW T, T \subseteq Nat, T # {}
  PROVE  Min(T) \in T /\ \A y \in T : Min(T) <= y
<1> DEFINE R == OpToRel(<, Nat)
<1>1. IsWellFoundedOn(R, Nat)
  BY ONLY NatLessThanWellFounded, Zenon
<1>2. \A a, b \in Nat : a < b => <<a, b>> \in R
  <2> SUFFICES ASSUME NEW a \in Nat, NEW b \in Nat, a < b
               PROVE  <<a, b>> \in {p \in Nat \X Nat : p[1] < p[2]}
    BY Zenon DEF OpToRel
  <2> QED
    OBVIOUS
<1> HIDE DEF R
<1>3. PICK x \in T : \A y \in T : <<y, x>> \notin R
  BY <1>1, WFMin
<1>4. \A y \in T : x <= y
  <2> SUFFICES ASSUME NEW y \in T PROVE x <= y
    OBVIOUS
  <2>1. x \in Nat /\ y \in Nat /\ ~(y < x)
    BY <1>2, <1>3
  <2>2. QED
    BY <2>1
<1>5. QED
  BY <1>4 DEF Min

LogOK(log) == log \in Seq(SavedVar) /\ \A k \in 1 .. Len(log) : Agrees(log[k].previous)
MapOK(map) == map \in [Names -> Var \cup {Absent}] /\ \A n \in Names : Agrees(map[n])
StackOK(stack) ==
  stack \in Seq(Seq(SavedVar)) /\ \A i \in 1 .. Len(stack) : LogOK(stack[i])

VInv == TypeOK /\ CacheAgrees

LEMMA VInvParts ==
  VInv <=> /\ MapOK(vars) /\ StackOK(scopes)
           /\ calls \in 0 .. Len(scopes) /\ mode \in {"run", "unwind"}
           /\ OddNames \subseteq Names /\ inherited \in [OddNames -> Values]
BY DEF VInv, TypeOK, CacheAgrees, MapOK, StackOK, LogOK

LEMMA TouchedOK ==
  ASSUME MapOK(vars), NEW n \in Names, Touches(n)
  PROVE  MapOK(vars')
BY DEF MapOK, Touches, Only

\* The first entry of a name in a log.
LEMMA FirstEntry ==
  ASSUME NEW log, log \in Seq(SavedVar), NEW n, Entries(log, n) # {}
  PROVE  /\ Min(Entries(log, n)) \in 1 .. Len(log)
         /\ log[Min(Entries(log, n))].name = n
         /\ log[Min(Entries(log, n))].previous \in Var \cup {Absent}
         /\ \A k \in Entries(log, n) : Min(Entries(log, n)) <= k
<1>1. Entries(log, n) \subseteq Nat
  BY DEF Entries
<1>2. Min(Entries(log, n)) \in Entries(log, n)
  BY <1>1, LeastNumber
<1>3. \A k \in Entries(log, n) : Min(Entries(log, n)) <= k
  BY <1>1, LeastNumber
<1> DEFINE first == Min(Entries(log, n))
<1>4. first \in 1 .. Len(log) /\ log[first].name = n
  BY <1>2 DEF Entries
<1> HIDE DEF first
<1>5. log[first] \in SavedVar
  BY <1>4
<1>6. log[first].previous \in Var \cup {Absent}
  BY <1>5 DEF SavedVar
<1>7. QED
  BY <1>3, <1>4, <1>6 DEF first

LEMMA PutBackOK ==
  ASSUME MapOK(vars), NEW log, LogOK(log)
  PROVE  MapOK(PutBack(log))
<1>1. ASSUME NEW n \in Names
      PROVE  /\ PutBack(log)[n] \in Var \cup {Absent}
             /\ Agrees(PutBack(log)[n])
  <2>1. CASE Entries(log, n) = {}
    BY <2>1 DEF PutBack, MapOK
  <2>2. CASE Entries(log, n) # {}
    <3> DEFINE first == Min(Entries(log, n))
    <3>1. log \in Seq(SavedVar)
      BY DEF LogOK
    <3>2. first \in 1 .. Len(log) /\ log[first].previous \in Var \cup {Absent}
      BY <2>2, <3>1, FirstEntry
    <3>3. PutBack(log)[n] = log[first].previous
      BY <2>2 DEF PutBack
    <3> HIDE DEF first
    <3>4. Agrees(log[first].previous)
      BY <3>2 DEF LogOK
    <3>5. QED
      BY <3>2, <3>3, <3>4
  <2>3. QED
    BY <2>1, <2>2
<1>2. QED
  BY <1>1 DEF MapOK, PutBack

LEMMA SavedOK ==
  ASSUME MapOK(vars), NEW n \in Names
  PROVE  Saved(n) \in SavedVar /\ Agrees(Saved(n).previous)
BY DEF MapOK, Saved, SavedVar

LEMMA LoggedOK ==
  ASSUME MapOK(vars), StackOK(scopes), NEW n \in Names
  PROVE  StackOK(Logged(n)) /\ Len(Logged(n)) = Len(scopes)
<1>1. CASE scopes = <<>>
  BY <1>1 DEF Logged
<1>2. CASE scopes # <<>>
  <2> DEFINE top == Len(scopes)
             log == Append(scopes[top], Saved(n))
  <2>1. top \in 1 .. Len(scopes) /\ LogOK(scopes[top])
    BY <1>2, EmptySeq DEF StackOK
  <2>2. LogOK(log)
    BY <2>1, SavedOK, AppendProperties DEF LogOK
  <2>3. Logged(n) = [scopes EXCEPT ![top] = log]
    BY <1>2 DEF Logged, Saved
  <2> HIDE DEF log, top
  <2>4. QED
    BY <2>1, <2>2, <2>3, ExceptSeq DEF StackOK, LogOK
<1>3. QED
  BY <1>1, <1>2

LEMMA PushedOK ==
  ASSUME StackOK(scopes), NEW log, LogOK(log)
  PROVE  StackOK(Append(scopes, log)) /\ Len(Append(scopes, log)) = Len(scopes) + 1
BY AppendProperties DEF StackOK, LogOK

LEMMA InitVInv == Init => VInv
<1> SUFFICES ASSUME Init PROVE VInv
  OBVIOUS
<1>1. OddNames \subseteq Names /\ inherited \in [OddNames -> Values]
  BY DEF Init, OddNames
<1>2. MapOK(vars)
  <2>1. PICK env \in [Names \ OddNames -> Values \cup {Absent}] :
          vars = [n \in Names |->
                    IF n \in OddNames THEN Absent
                    ELSE IF env[n] = Absent THEN Absent
                    ELSE [NewVar(env[n]) EXCEPT !.exported = TRUE]]
    BY DEF Init
  <2>2. ASSUME NEW n \in Names, n \notin OddNames, env[n] # Absent
        PROVE  /\ [NewVar(env[n]) EXCEPT !.exported = TRUE] \in Var
               /\ Agrees([NewVar(env[n]) EXCEPT !.exported = TRUE])
    <3>1. NewVar(env[n]) \in Var /\ Agrees(NewVar(env[n]))
      BY <2>2, NewVarType
    <3>2. QED
      BY <3>1, VarTypes DEF Var, Agrees
  <2>3. Agrees(Absent)
    BY DEF Agrees
  <2>4. QED
    BY <2>1, <2>2, <2>3 DEF MapOK
<1>3. StackOK(scopes) /\ calls \in 0 .. Len(scopes) /\ mode \in {"run", "unwind"}
  BY EmptySeq DEF Init, StackOK
<1>4. QED
  BY <1>1, <1>2, <1>3, VInvParts

\* A sequence without its last element.
LEMMA FrontSubSeq ==
  ASSUME NEW T, NEW s \in Seq(T), Len(s) \in Nat \ {0}
  PROVE  /\ SubSeq(s, 1, Len(s) - 1) \in Seq(T)
         /\ Len(SubSeq(s, 1, Len(s) - 1)) = Len(s) - 1
         /\ \A i \in 1 .. Len(s) - 1 : SubSeq(s, 1, Len(s) - 1)[i] = s[i]
<1> DEFINE last == Len(s) - 1
<1>1. last \in Nat /\ 1 .. last \subseteq 1 .. Len(s)
  OBVIOUS
<1>2. SubSeq(s, 1, last) = [i \in 1 .. last |-> s[i]]
  BY <1>1
<1> HIDE DEF last
<1>3. \A i \in 1 .. last : s[i] \in T
  BY <1>1
<1>4. SubSeq(s, 1, last) \in Seq(T)
  BY <1>1, <1>2, <1>3, IsASeq
<1>5. Len(SubSeq(s, 1, last)) = last
  BY <1>1, <1>2, <1>4, LenProperties
<1>6. QED
  BY <1>2, <1>4, <1>5 DEF last

LEMMA ReturnStack ==
  ASSUME StackOK(scopes), scopes # <<>>
  PROVE  /\ LogOK(scopes[Len(scopes)])
         /\ StackOK(SubSeq(scopes, 1, Len(scopes) - 1))
         /\ Len(SubSeq(scopes, 1, Len(scopes) - 1)) = Len(scopes) - 1
<1>1. Len(scopes) \in Nat \ {0} /\ scopes \in Seq(Seq(SavedVar))
  BY EmptySeq DEF StackOK
<1>2. /\ SubSeq(scopes, 1, Len(scopes) - 1) \in Seq(Seq(SavedVar))
      /\ Len(SubSeq(scopes, 1, Len(scopes) - 1)) = Len(scopes) - 1
      /\ \A i \in 1 .. Len(scopes) - 1 :
           SubSeq(scopes, 1, Len(scopes) - 1)[i] = scopes[i]
  BY <1>1, FrontSubSeq
<1>3. \A i \in 1 .. Len(scopes) : LogOK(scopes[i])
  BY DEF StackOK
<1>4. QED
  BY <1>1, <1>2, <1>3 DEF StackOK

\* Type correctness and the agreement of the caches are inductive together.
LEMMA NextVInv == VInv /\ [Next]_state => VInv'
<1> SUFFICES ASSUME VInv, [Next]_state PROVE VInv'
  OBVIOUS
<1> USE VInvParts
<1>0. VarsOK
  BY DEF MapOK, VarsOK
<1>1. ASSUME UNCHANGED state PROVE VInv'
  BY <1>1 DEF state, OddNames, MapOK, StackOK, LogOK, Agrees, VInv, TypeOK, CacheAgrees
<1>2. ASSUME UNCHANGED inherited, MapOK(vars'), StackOK(scopes'),
             calls' \in 0 .. Len(scopes'), mode' \in {"run", "unwind"}
      PROVE  VInv'
  BY <1>2 DEF OddNames, MapOK, StackOK, LogOK, Agrees, VInv, TypeOK, CacheAgrees
<1>3. ASSUME NEW n \in Names, CommandOn(n) PROVE VInv'
  <2>1. /\ Touches(n) /\ UNCHANGED <<calls, inherited>>
        /\ UNCHANGED scopes \/ scopes' = Logged(n)
        /\ mode' \in {mode, "unwind"}
    BY <1>0, <1>3, CommandShape
  <2>2. MapOK(vars')
    BY <2>1, TouchedOK
  <2>3. StackOK(scopes') /\ Len(scopes') = Len(scopes)
    BY <2>1, LoggedOK
  <2>4. QED
    BY <1>2, <2>1, <2>2, <2>3
<1>4. ASSUME NEW prefix \in CallPrefixes, Call(prefix) \/ CallFails(prefix) PROVE VInv'
  <2>1. /\ UNCHANGED inherited
        /\ calls' \in {calls, calls + 1} /\ mode' \in {mode, "unwind"}
        /\ \/ UNCHANGED vars /\ scopes' = Append(scopes, <<>>)
           \/ \E n \in Names : Touches(n) /\ scopes' = Append(scopes, <<Saved(n)>>)
    BY <1>0, <1>4, CallShape
  <2>2. LogOK(<<>>) /\ \A n \in Names : LogOK(<<Saved(n)>>)
    BY SavedOK, EmptySeq DEF LogOK
  <2>3. MapOK(vars')
    BY <2>1, TouchedOK
  <2>4. StackOK(scopes') /\ Len(scopes') = Len(scopes) + 1
    BY <2>1, <2>2, PushedOK
  <2>5. calls' \in 0 .. Len(scopes')
    <3>1. Len(scopes) \in Nat
      BY DEF StackOK
    <3>2. QED
      BY <3>1, <2>1, <2>4
  <2>6. QED
    BY <1>2, <2>1, <2>3, <2>4, <2>5
<1>5. ASSUME Return PROVE VInv'
  <2>1. scopes # <<>> /\ Len(scopes) \in Nat
    BY <1>5, EmptySeq DEF Return, StackOK
  <2>2. /\ vars' = PutBack(scopes[Len(scopes)])
        /\ scopes' = SubSeq(scopes, 1, Len(scopes) - 1)
        /\ calls' = calls - 1 /\ calls > 0 /\ UNCHANGED <<inherited, mode>>
    BY <1>5 DEF Return
  <2>3. MapOK(vars')
    BY <2>1, <2>2, ReturnStack, PutBackOK
  <2>4. StackOK(scopes') /\ Len(scopes') = Len(scopes) - 1
    BY <2>1, <2>2, ReturnStack
  <2>5. calls' \in 0 .. Len(scopes')
    BY <2>1, <2>2, <2>4
  <2>6. QED
    BY <1>2, <2>2, <2>3, <2>4, <2>5
<1>6. ASSUME ProgramEnds PROVE VInv'
  BY <1>2, <1>6 DEF ProgramEnds
<1>7. QED
  BY <1>1, <1>3, <1>4, <1>5, <1>6 DEF Next, Command, CommandOn

THEOREM VarsInductive == Spec => []VInv
BY InitVInv, NextVInv, PTL DEF Spec

\* Type correctness, for any names, values and depth of calls.
THEOREM VarsTypeOK == Spec => []TypeOK
BY VarsInductive, PTL DEF VInv

\* The cached integer of a variable is that of its text, on the map and in every
\* log, for any conversion between texts and integers that gives back what it
\* was given.
THEOREM VarsCacheAgrees == Spec => []CacheAgrees
BY VarsInductive, PTL DEF VInv

-----------------------------------------------------------------------------
(* Read-only variables.                                                     *)

LEMMA TouchedKept ==
  ASSUME VarsOK, NEW n \in Names, NEW m \in Names, Touches(m), IsReadonly(n)
  PROVE  IsReadonly(n)' /\ vars'[n].value = vars[n].value
<1>1. PICK x \in Var \cup {Absent} : Only(m, x, vars') /\ MayTo(vars[m], x)
  BY DEF Touches
<1>2. vars' = [vars EXCEPT ![m] = x]
  BY <1>1 DEF Only
<1>3. CASE n = m
  BY <1>1, <1>2, <1>3, VarTypes DEF VarsOK, IsReadonly, MayTo
<1>4. CASE n # m
  BY <1>2, <1>4 DEF VarsOK, IsReadonly
<1>5. QED
  BY <1>3, <1>4

\* A read-only variable keeps its value and its mark until a call that hid it
\* ends, for any names, values and depth of calls.
THEOREM VarsReadonlyStays == Spec => ReadonlyStays
<1> DEFINE Kept(n) == IsReadonly(n)' /\ vars'[n].value = vars[n].value
           PutAway(n) == Len(scopes') < Len(scopes) /\ Entries(scopes[Len(scopes)], n) # {}
<1>1. VInv /\ [Next]_state =>
        [\A n \in Names :
           IsReadonly(n) =>
             \/ IsReadonly(n)' /\ vars'[n].value = vars[n].value
             \/ Len(scopes') < Len(scopes) /\ Entries(scopes[Len(scopes)], n) # {}]_state
  <2> SUFFICES ASSUME VInv, Next, NEW n \in Names, IsReadonly(n)
               PROVE  Kept(n) \/ PutAway(n)
    OBVIOUS
  <2>0. VarsOK /\ StackOK(scopes)
    BY VInvParts DEF MapOK, VarsOK
  <2>1. ASSUME UNCHANGED vars PROVE Kept(n)
    BY <2>1 DEF IsReadonly
  <2>2. ASSUME NEW m \in Names, CommandOn(m) PROVE Kept(n)
    <3>1. Touches(m)
      BY <2>0, <2>2, CommandShape
    <3>2. QED
      BY <2>0, <3>1, TouchedKept
  <2>3. ASSUME NEW prefix \in CallPrefixes, Call(prefix) \/ CallFails(prefix) PROVE Kept(n)
    <3>1. UNCHANGED vars \/ \E m \in Names : Touches(m)
      BY <2>0, <2>3, CallShape
    <3>2. QED
      BY <2>0, <2>1, <3>1, TouchedKept
  <2>4. ASSUME Return PROVE Kept(n) \/ PutAway(n)
    <3>1. scopes # <<>> /\ Len(scopes) \in Nat
      BY <2>4, VInvParts, EmptySeq DEF Return, StackOK
    <3>2. Len(scopes') < Len(scopes)
      BY <2>0, <2>4, <3>1, ReturnStack DEF Return
    <3>3. CASE Entries(scopes[Len(scopes)], n) = {}
      <4>1. vars'[n] = vars[n]
        BY <2>4, <3>3 DEF Return, PutBack
      <4>2. QED
        BY <4>1 DEF IsReadonly
    <3>4. QED
      BY <3>2, <3>3
  <2>5. ASSUME ProgramEnds PROVE Kept(n)
    BY <2>1, <2>5 DEF ProgramEnds
  <2>6. QED
    BY <2>2, <2>3, <2>4, <2>5 DEF Next, Command, CommandOn
<1>2. QED
  BY <1>1, VarsInductive, PTL DEF Spec, ReadonlyStays

-----------------------------------------------------------------------------
(* Environments.                                                            *)

Prefix == Seq((Names \ OddNames) \X Values)

\* The entries of a name that the prefix does not assign, and of one it does.
LEMMA EnvEntriesOf ==
  ASSUME NEW prefix \in Prefix, NEW n \in Names
  PROVE  {e \in Env(prefix) : e.name = n} =
           IF Assigns(prefix, n) # {}
           THEN {EnvEntry(n, prefix[k][2], 2 + k) : k \in Assigns(prefix, n)}
           ELSE IF n \in ExportedNames THEN {EnvEntry(n, vars[n].value, 2)}
           ELSE IF n \in OddNames THEN {EnvEntry(n, inherited[n], 1)}
           ELSE {}
<1> DEFINE assigned == {prefix[k][1] : k \in DOMAIN prefix}
<1>1. n \in assigned <=> Assigns(prefix, n) # {}
  BY DEF Assigns
<1>2. {e \in Env(prefix) : e.name = n} =
        {EnvEntry(m, inherited[m], 1) : m \in {n} \cap (OddNames \ (ExportedNames \cup assigned))}
        \cup {EnvEntry(m, vars[m].value, 2) : m \in {n} \cap (ExportedNames \ assigned)}
        \cup {EnvEntry(n, prefix[k][2], 2 + k) : k \in Assigns(prefix, n)}
  BY DEF Env, EnvEntry, Assigns
<1>3. CASE Assigns(prefix, n) # {}
  <2>1. n \in assigned
    BY <1>1, <1>3
  <2> HIDE DEF assigned
  <2>2. QED
    BY <1>2, <1>3, <2>1
<1>4. CASE Assigns(prefix, n) = {}
  <2>1. n \notin assigned
    BY <1>1, <1>4
  <2> HIDE DEF assigned
  <2>2. {EnvEntry(n, prefix[k][2], 2 + k) : k \in Assigns(prefix, n)} = {}
    BY <1>4
  <2>3. QED
    BY <1>2, <1>4, <2>1, <2>2
<1>5. QED
  BY <1>3, <1>4

LEMMA EnvAlways ==
  ASSUME NEW prefix \in Prefix, NEW n \in Names
  PROVE  EnvFor(prefix, n)
<1> DEFINE K == Assigns(prefix, n)
           entries == {e \in Env(prefix) : e.name = n}
           spawned == {e \in Spawned(Env(prefix)) : e.name = n}
<1>1. spawned = {e \in entries : \A d \in entries : d.at <= e.at}
  BY DEF Spawned
<1>2. CASE K = {}
  <2>1. /\ \A d, e \in entries : d.at <= e.at
        /\ {e.value : e \in entries} = Promised(prefix, n)
    <3>1. CASE n \in ExportedNames
      <4>1. entries = {EnvEntry(n, vars[n].value, 2)}
        BY <1>2, <3>1, EnvEntriesOf
      <4> HIDE DEF entries
      <4>2. QED
        BY <1>2, <3>1, <4>1 DEF Promised, EnvEntry
    <3>2. CASE n \notin ExportedNames /\ n \in OddNames
      <4>1. entries = {EnvEntry(n, inherited[n], 1)}
        BY <1>2, <3>2, EnvEntriesOf
      <4> HIDE DEF entries
      <4>2. QED
        BY <1>2, <3>2, <4>1 DEF Promised, EnvEntry
    <3>3. CASE n \notin ExportedNames /\ n \notin OddNames
      <4>1. entries = {}
        BY <1>2, <3>3, EnvEntriesOf
      <4> HIDE DEF entries
      <4>2. QED
        BY <1>2, <3>3, <4>1 DEF Promised
    <3>4. QED
      BY <3>1, <3>2, <3>3
  <2> HIDE DEF entries, spawned
  <2>2. spawned = entries
    BY <1>1, <2>1
  <2>3. QED
    BY <2>1, <2>2 DEF EnvFor, entries, spawned
<1>3. CASE K # {}
  <2> DEFINE E(k) == EnvEntry(n, prefix[k][2], 2 + k)
             latest == {k \in K : \A j \in K : j <= k}
  <2>1. entries = {E(k) : k \in K}
    BY <1>3, EnvEntriesOf
  <2>2. K \subseteq Nat
    BY DEF Assigns, Prefix
  <2>3. \A k : E(k).at = 2 + k /\ E(k).value = prefix[k][2]
    BY DEF EnvEntry
  <2>4. Promised(prefix, n) = {prefix[k][2] : k \in latest}
    BY <1>3 DEF Promised
  <2> HIDE DEF entries, spawned, K, E
  <2>5. \A j, k \in K : E(j).at <= E(k).at <=> j <= k
    BY <2>2, <2>3
  <2>6. spawned = {E(k) : k \in latest}
    <3>1. spawned = {e \in {E(k) : k \in K} : \A d \in {E(k) : k \in K} : d.at <= e.at}
      BY <1>1, <2>1
    <3>2. \A k \in K : (\A d \in {E(j) : j \in K} : d.at <= E(k).at) <=> \A j \in K : j <= k
      BY <2>5
    <3> HIDE <2>3, <2>5
    <3>3. QED
      BY <3>1, <3>2
  <2>7. {e.value : e \in spawned} = Promised(prefix, n)
    BY <2>3, <2>4, <2>6
  <2>8. ASSUME \A j, k \in K : j = k PROVE entries = spawned
    <3>1. \A k \in K : k <= k
      BY <2>2
    <3>2. \A k \in K : \A j \in K : j <= k
      BY <3>1, <2>8
    <3>3. latest = K
      BY <3>2
    <3>4. QED
      BY <3>3, <2>1, <2>6
  <2>9. QED
    BY <2>7, <2>8 DEF EnvFor, entries, spawned, K
<1>4. QED
  BY <1>2, <1>3

\* For prefix assignments of any number: a command that is spawned finds what
\* the last assignment of a name says, else the exported variable, else what
\* was inherited, and one that replaces a process finds the same unless the
\* prefix assigns the name twice.
THEOREM VarsEnvExact ==
  Spec => [](EnvExact /\ \A prefix \in Prefix : \A n \in Names : EnvFor(prefix, n))
<1>1. \A prefix \in Prefix : \A n \in Names : EnvFor(prefix, n)
  BY EnvAlways
<1>2. Prefixes \subseteq Prefix
  <2>1. \A S : \A k \in 0 .. 2 : [1 .. k -> S] \subseteq Seq(S)
    OBVIOUS
  <2>2. QED
    BY <2>1 DEF Prefixes, Prefix
<1>3. EnvExact
  BY <1>1, <1>2 DEF EnvExact
<1>4. QED
  BY <1>1, <1>3, PTL

-----------------------------------------------------------------------------
(* Vars implements Scoping: the flat map with its logs behaves as a stack of  *)
(* frames.  Everything is said of a map vs and a stack of logs ss, so that it *)
(* holds of the state before a step and of the one after it alike.            *)

OK(vs, ss) == MapOK(vs) /\ StackOK(ss)

\* The log hides n.
Hides(log, n) == \E k \in 1 .. Len(log) : log[k].name = n

\* What the log puts back under n.
PutsBack(log, n, x) ==
  \E k \in 1 .. Len(log) :
    /\ log[k].name = n /\ log[k].previous = x
    /\ \A l \in 1 .. Len(log) : l < k => log[l].name # n

\* What n means in scope i, 0 for the script: what the next scope above that
\* hides n puts back, or the map's variable.
Held(vs, ss, i, n, x) ==
  \/ x = vs[n] /\ \A j \in 1 .. Len(ss) : j > i => ~Hides(ss[j], n)
  \/ \E j \in 1 .. Len(ss) :
       /\ j > i /\ PutsBack(ss[j], n, x)
       /\ \A l \in 1 .. Len(ss) : i < l /\ l < j => ~Hides(ss[l], n)

Here(ss, i, n) == i = 0 \/ (i \in 1 .. Len(ss) /\ Hides(ss[i], n))

\* The refinement mapping of Vars, as a function of the map and the stack.
BindingOf(vs, ss, i, n) ==
  IF ~(i > 0 => Entries(ss[i], n) # {}) THEN NoBinding
  ELSE Attributes(
         IF {j \in i + 1 .. Len(ss) : Entries(ss[j], n) # {}} = {} THEN vs[n]
         ELSE ss[Min({j \in i + 1 .. Len(ss) : Entries(ss[j], n) # {}})][
                Min(Entries(ss[Min({j \in i + 1 .. Len(ss) : Entries(ss[j], n) # {}})], n))].previous)

FramesOf(vs, ss) ==
  [k \in 1 .. Len(ss) + 1 |-> [n \in Names |-> BindingOf(vs, ss, k - 1, n)]]

-----------------------------------------------------------------------------
(* What the frames hold.                                                    *)

LEMMA HidesEntries ==
  ASSUME NEW log, NEW n
  PROVE  Hides(log, n) <=> Entries(log, n) # {}
BY DEF Hides, Entries

LEMMA AttributesType ==
  ASSUME NEW x \in Var \cup {Absent}
  PROVE  /\ Attributes(x) \in Visible \cup {Absent}
         /\ Attributes(x) # NoBinding
BY AbsentAssumption, VarTypes DEF Attributes, Visible

\* What the first entry of a name has, the log puts back, and nothing else.
LEMMA PutsBackFirst ==
  ASSUME NEW log, log \in Seq(SavedVar), NEW n, Hides(log, n)
  PROVE  /\ PutsBack(log, n, log[Min(Entries(log, n))].previous)
         /\ \A x : PutsBack(log, n, x) => x = log[Min(Entries(log, n))].previous
         /\ log[Min(Entries(log, n))].previous \in Var \cup {Absent}
<1> DEFINE first == Min(Entries(log, n))
<1>1. /\ first \in 1 .. Len(log) /\ log[first].name = n
      /\ log[first].previous \in Var \cup {Absent}
      /\ \A k \in 1 .. Len(log) : log[k].name = n => first <= k
  <2>1. Entries(log, n) # {}
    BY HidesEntries
  <2>2. /\ first \in 1 .. Len(log) /\ log[first].name = n
        /\ log[first].previous \in Var \cup {Absent}
        /\ \A k \in Entries(log, n) : first <= k
    BY <2>1, FirstEntry
  <2> HIDE DEF first
  <2>3. QED
    BY <2>2 DEF Entries
<1> HIDE DEF first
<1>2. Len(log) \in Nat
  BY LenProperties
<1>3. \A l \in 1 .. Len(log) : l < first => log[l].name # n
  BY <1>1, <1>2
<1>4. PutsBack(log, n, log[first].previous)
  BY <1>1, <1>3 DEF PutsBack
<1>5. ASSUME NEW x, PutsBack(log, n, x) PROVE x = log[first].previous
  <2>1. PICK k \in 1 .. Len(log) :
          /\ log[k].name = n /\ log[k].previous = x
          /\ \A l \in 1 .. Len(log) : l < k => log[l].name # n
    BY <1>5 DEF PutsBack
  <2>2. k = first
    BY <1>1, <1>2, <2>1
  <2>3. QED
    BY <2>1, <2>2
<1>6. QED
  BY <1>1, <1>4, <1>5 DEF first

LEMMA StackParts ==
  ASSUME NEW ss, StackOK(ss)
  PROVE  /\ ss \in Seq(Seq(SavedVar)) /\ Len(ss) \in Nat
         /\ \A i \in 1 .. Len(ss) : ss[i] \in Seq(SavedVar) /\ Len(ss[i]) \in Nat
BY DEF StackOK, LogOK

\* There is one variable that n means in scope i.
LEMMA HeldOnce ==
  ASSUME NEW vs, NEW ss, OK(vs, ss), NEW i \in 0 .. Len(ss), NEW n \in Names
  PROVE  /\ \E x \in Var \cup {Absent} : Held(vs, ss, i, n, x)
         /\ \A x : Held(vs, ss, i, n, x) /\ Here(ss, i, n) =>
                     BindingOf(vs, ss, i, n) = Attributes(x)
         /\ ~Here(ss, i, n) => BindingOf(vs, ss, i, n) = NoBinding
<1> DEFINE hiders == {j \in i + 1 .. Len(ss) : Entries(ss[j], n) # {}}
           next == Min(hiders)
           first == Min(Entries(ss[next], n))
<1>1. /\ Len(ss) \in Nat /\ i \in Nat
      /\ \A j \in 1 .. Len(ss) : ss[j] \in Seq(SavedVar)
  BY StackParts DEF OK
<1>2. Here(ss, i, n) <=> (i > 0 => Entries(ss[i], n) # {})
  <2>1. i = 0 \/ i \in 1 .. Len(ss)
    BY <1>1
  <2>2. QED
    BY <1>1, <2>1, HidesEntries DEF Here
<1>3. CASE hiders = {}
  <2>1. \A j \in 1 .. Len(ss) : j > i => ~Hides(ss[j], n)
    <3>1. \A j \in 1 .. Len(ss) : j > i => j \in i + 1 .. Len(ss)
      BY <1>1
    <3>2. QED
      BY <3>1, <1>3, HidesEntries
  <2>2. \A x : Held(vs, ss, i, n, x) <=> x = vs[n]
    BY <2>1, HidesEntries DEF Held, PutsBack, Hides
  <2>3. vs[n] \in Var \cup {Absent}
    BY DEF OK, MapOK
  <2>4. QED
    BY <1>2, <1>3, <2>2, <2>3 DEF BindingOf
<1>4. CASE hiders # {}
  <2>1. hiders \subseteq Nat
    BY <1>1
  <2>2. next \in hiders /\ \A j \in hiders : next <= j
    BY <1>4, <2>1, LeastNumber
  <2>3. next \in 1 .. Len(ss) /\ next > i /\ Hides(ss[next], n)
    <3>1. next \in i + 1 .. Len(ss) /\ Entries(ss[next], n) # {}
      BY <2>2
    <3> HIDE DEF next
    <3>2. QED
      BY <1>1, <3>1, HidesEntries
  <2>4. \A l \in 1 .. Len(ss) : i < l /\ l < next => ~Hides(ss[l], n)
    <3> SUFFICES ASSUME NEW l \in 1 .. Len(ss), i < l, l < next PROVE ~Hides(ss[l], n)
      OBVIOUS
    <3>1. l \notin hiders
      <4>1. l \in hiders => next <= l
        BY <2>2
      <4> HIDE DEF hiders, next
      <4>2. QED
        BY <1>1, <2>3, <4>1
    <3>2. l \in i + 1 .. Len(ss)
      BY <1>1
    <3>3. QED
      BY <3>1, <3>2, HidesEntries
  <2>5. /\ PutsBack(ss[next], n, ss[next][first].previous)
        /\ \A x : PutsBack(ss[next], n, x) => x = ss[next][first].previous
        /\ ss[next][first].previous \in Var \cup {Absent}
    BY <1>1, <2>3, PutsBackFirst
  <2>6. BindingOf(vs, ss, i, n) =
          IF Here(ss, i, n) THEN Attributes(ss[next][first].previous) ELSE NoBinding
    BY <1>2, <1>4 DEF BindingOf
  <2> HIDE DEF hiders, next, first
  <2>7. Held(vs, ss, i, n, ss[next][first].previous)
    BY <2>3, <2>4, <2>5 DEF Held
  <2>8. ASSUME NEW x, Held(vs, ss, i, n, x) PROVE x = ss[next][first].previous
    <3>1. PICK j \in 1 .. Len(ss) :
            /\ j > i /\ PutsBack(ss[j], n, x)
            /\ \A l \in 1 .. Len(ss) : i < l /\ l < j => ~Hides(ss[l], n)
      BY <2>3, <2>8 DEF Held
    <3>2. Hides(ss[j], n)
      BY <3>1 DEF PutsBack, Hides
    <3>3. j = next
      BY <1>1, <2>3, <2>4, <3>1, <3>2
    <3>4. QED
      BY <2>5, <3>1, <3>3
  <2>9. QED
    BY <2>5, <2>6, <2>7, <2>8
<1>5. QED
  BY <1>3, <1>4

\* Where the meaning of n is kept, its binding stays.
LEMMA SameBinding ==
  ASSUME NEW vs, NEW ss, OK(vs, ss), NEW vt, NEW st, OK(vt, st),
         NEW i, i \in 0 .. Len(ss), i \in 0 .. Len(st), NEW n \in Names,
         Here(st, i, n) => Here(ss, i, n), Here(ss, i, n) => Here(st, i, n),
         \A x : Here(ss, i, n) /\ Held(vs, ss, i, n, x) => Held(vt, st, i, n, x)
  PROVE  BindingOf(vt, st, i, n) = BindingOf(vs, ss, i, n)
<1>1. CASE Here(ss, i, n)
  <2>1. PICK x : Held(vs, ss, i, n, x)
    BY HeldOnce
  <2>2. Held(vt, st, i, n, x)
    BY <1>1, <2>1
  <2>3. BindingOf(vs, ss, i, n) = Attributes(x)
    BY <1>1, <2>1, HeldOnce
  <2>4. BindingOf(vt, st, i, n) = Attributes(x)
    BY <1>1, <2>2, HeldOnce
  <2>5. QED
    BY <2>3, <2>4
<1>2. CASE ~Here(ss, i, n)
  <2>1. BindingOf(vs, ss, i, n) = NoBinding
    BY <1>2, HeldOnce
  <2>2. BindingOf(vt, st, i, n) = NoBinding
    BY <1>2, HeldOnce
  <2>3. QED
    BY <2>1, <2>2
<1>3. QED
  BY <1>1, <1>2

LEMMA BindingType ==
  ASSUME NEW vs, NEW ss, OK(vs, ss), NEW i \in 0 .. Len(ss), NEW n \in Names
  PROVE  /\ BindingOf(vs, ss, i, n) \in Visible \cup {Absent, NoBinding}
         /\ Here(ss, i, n) <=> BindingOf(vs, ss, i, n) # NoBinding
<1>1. PICK x \in Var \cup {Absent} : Held(vs, ss, i, n, x)
  BY HeldOnce
<1>2. Attributes(x) \in Visible \cup {Absent} /\ Attributes(x) # NoBinding
  BY AttributesType
<1>3. Here(ss, i, n) => BindingOf(vs, ss, i, n) = Attributes(x)
  BY <1>1, HeldOnce
<1>4. ~Here(ss, i, n) => BindingOf(vs, ss, i, n) = NoBinding
  BY HeldOnce
<1>5. QED
  BY <1>2, <1>3, <1>4

Bindings == Visible \cup {Absent, NoBinding}

LEMMA FramesShape ==
  ASSUME NEW vs, NEW ss, OK(vs, ss)
  PROVE  /\ FramesOf(vs, ss) \in [1 .. Len(ss) + 1 -> [Names -> Bindings]]
         /\ FramesOf(vs, ss) \in Seq([Names -> Bindings])
         /\ Len(FramesOf(vs, ss)) = Len(ss) + 1
         /\ \A k \in 1 .. Len(ss) + 1 : \A n \in Names :
              FramesOf(vs, ss)[k][n] = BindingOf(vs, ss, k - 1, n)
<1>1. Len(ss) \in Nat
  BY StackParts DEF OK
<1>2. ASSUME NEW k \in 1 .. Len(ss) + 1
      PROVE  [n \in Names |-> BindingOf(vs, ss, k - 1, n)] \in [Names -> Bindings]
  <2>1. k - 1 \in 0 .. Len(ss)
    BY <1>1
  <2>2. QED
    BY <2>1, BindingType DEF Bindings
<1>3. FramesOf(vs, ss) \in [1 .. Len(ss) + 1 -> [Names -> Bindings]]
  BY <1>2 DEF FramesOf
<1>4. FramesOf(vs, ss) \in Seq([Names -> Bindings]) /\ Len(FramesOf(vs, ss)) = Len(ss) + 1
  BY <1>1, <1>3
<1>5. QED
  BY <1>3, <1>4 DEF FramesOf

\* The variable of the map is the one of the topmost scope that hides n.
LEMMA HomeIs ==
  ASSUME NEW vs, NEW ss, OK(vs, ss), NEW n \in Names
  PROVE  \E h \in 0 .. Len(ss) :
           /\ Here(ss, h, n)
           /\ \A j \in 1 .. Len(ss) : j > h => ~Hides(ss[j], n)
           /\ Scoped!Home(FramesOf(vs, ss), n) = h + 1
           /\ FramesOf(vs, ss)[h + 1][n] = Attributes(vs[n])
<1> DEFINE F == FramesOf(vs, ss)
           T == {t \in 0 .. Len(ss) : Here(ss, Len(ss) - t, n)}
           h == Len(ss) - Min(T)
           IsHome(i) == F[i][n] # NoBinding /\ \A j \in i + 1 .. Len(F) : F[j][n] = NoBinding
<1>1. Len(ss) \in Nat
  BY StackParts DEF OK
<1>2. T \subseteq Nat /\ Len(ss) \in T
  BY <1>1 DEF Here
<1>3. Min(T) \in T /\ \A t \in T : Min(T) <= t
  BY <1>2, LeastNumber
<1>4. h \in 0 .. Len(ss) /\ Here(ss, h, n)
  <2>1. Min(T) \in 0 .. Len(ss) /\ Here(ss, Len(ss) - Min(T), n)
    BY <1>3
  <2> HIDE DEF T
  <2>2. QED
    BY <1>1, <2>1
<1>5. ASSUME NEW j \in 1 .. Len(ss), j > h PROVE ~Hides(ss[j], n)
  <2>1. SUFFICES ASSUME Hides(ss[j], n) PROVE FALSE
    OBVIOUS
  <2>2. Len(ss) - j \in 0 .. Len(ss) /\ Len(ss) - (Len(ss) - j) = j
    BY <1>1
  <2>3. Len(ss) - j \in T
    BY <2>1, <2>2 DEF Here
  <2>4. Min(T) <= Len(ss) - j
    BY <1>3, <2>3
  <2>5. Min(T) \in 0 .. Len(ss)
    BY <1>3
  <2> HIDE DEF T
  <2>6. QED
    BY <1>1, <1>5, <2>4, <2>5
<1> HIDE DEF h, T
<1>6. /\ Len(F) = Len(ss) + 1
      /\ \A k \in 1 .. Len(ss) + 1 : F[k][n] = BindingOf(vs, ss, k - 1, n)
  BY FramesShape
<1>7. F[h + 1][n] = Attributes(vs[n])
  <2>1. Held(vs, ss, h, n, vs[n])
    BY <1>5 DEF Held
  <2>2. BindingOf(vs, ss, h, n) = Attributes(vs[n])
    BY <1>4, <2>1, HeldOnce
  <2>3. h + 1 \in 1 .. Len(ss) + 1 /\ (h + 1) - 1 = h
    BY <1>1, <1>4
  <2> HIDE DEF F
  <2>4. QED
    BY <1>6, <2>2, <2>3
<1>8. ASSUME NEW k \in h + 2 .. Len(ss) + 1 PROVE F[k][n] = NoBinding
  <2>1. k - 1 \in 1 .. Len(ss) /\ k - 1 > h /\ k - 1 # 0 /\ k - 1 \in 0 .. Len(ss)
        /\ k \in 1 .. Len(ss) + 1
    BY <1>1, <1>4
  <2>2. ~Here(ss, k - 1, n)
    BY <1>5, <2>1 DEF Here
  <2>3. QED
    BY <1>6, <2>1, <2>2, HeldOnce
<1>9. F[h + 1][n] # NoBinding
  BY <1>7, AttributesType DEF OK, MapOK
<1> HIDE DEF F
<1>10. h + 1 \in 1 .. Len(F) /\ IsHome(h + 1)
  BY <1>1, <1>4, <1>6, <1>8, <1>9
<1>11. \A i \in 1 .. Len(F) : IsHome(i) => i = h + 1
  BY <1>1, <1>4, <1>6, <1>8, <1>9
<1>12. Scoped!Home(F, n) = h + 1
  BY <1>10, <1>11 DEF Scoped!Home
<1>13. QED
  BY <1>4, <1>5, <1>7, <1>12 DEF F

-----------------------------------------------------------------------------
(* Each step of the map and the stack is one of the frames.                 *)

\* A table of bindings that differs from another in one place.
LEMMA ExceptTwo ==
  ASSUME NEW D, NEW f \in [D -> [Names -> Bindings]], NEW g \in [D -> [Names -> Bindings]],
         NEW a \in D, NEW n \in Names,
         \A k \in D : \A m \in Names : k # a \/ m # n => g[k][m] = f[k][m]
  PROVE  g = [f EXCEPT ![a][n] = g[a][n]]
<1>1. g[a] = [f[a] EXCEPT ![n] = g[a][n]]
  BY Zenon
<1>2. \A k \in D : k # a => g[k] = f[k]
  <2> SUFFICES ASSUME NEW k \in D, k # a PROVE g[k] = f[k]
    OBVIOUS
  <2>1. g[k] \in [Names -> Bindings] /\ f[k] \in [Names -> Bindings]
    OBVIOUS
  <2>2. \A m \in Names : g[k][m] = f[k][m]
    OBVIOUS
  <2>3. g[k] = [m \in Names |-> g[k][m]] /\ f[k] = [m \in Names |-> f[k][m]]
    BY <2>1
  <2>4. [m \in Names |-> g[k][m]] = [m \in Names |-> f[k][m]]
    BY <2>2, Zenon
  <2>5. QED
    BY <2>3, <2>4, Zenon
<1>3. QED
  BY <1>1, <1>2

LEMMA MayIs ==
  ASSUME NEW x \in Var \cup {Absent}, NEW y \in Var \cup {Absent}, MayTo(x, y)
  PROVE  Scoped!May(Attributes(x), Attributes(y))
<1>1. /\ Scoped!Attributes = Visible
      /\ Scoped!Variables = Visible \cup {Absent}
      /\ Scoped!Unset = Unset
  BY DEF Scoped!Attributes, Scoped!Variables, Scoped!Unset, Visible, Unset
<1>2. Attributes(x) \in Visible \cup {Absent} /\ Attributes(y) \in Visible \cup {Absent}
  BY AttributesType
<1>3. Absent \notin Visible /\ Absent \notin Var
  BY AbsentAssumption
<1>4. CASE x = Absent
  BY <1>1, <1>2, <1>3, <1>4 DEF Scoped!May, Attributes
<1>5. CASE x # Absent /\ y = Absent
  BY <1>1, <1>2, <1>3, <1>5 DEF Scoped!May, Attributes, MayTo
<1>6. CASE x # Absent /\ y # Absent
  <2> DEFINE old == Attributes(x)
             new == Attributes(y)
  <2>1. x \in Var /\ y \in Var
    BY <1>6
  <2>2. /\ old \in Visible /\ old.value = x.value /\ old.exported = x.exported
        /\ old.readonly = x.readonly
        /\ new \in Visible /\ new.value = y.value /\ new.exported = y.exported
        /\ new.readonly = y.readonly
    BY <1>6, <2>1, VarTypes DEF Attributes, Visible
  <2> HIDE DEF old, new
  <2>3. Scoped!May(old, new)
    BY <1>1, <2>1, <2>2 DEF Scoped!May, MayTo
  <2>4. QED
    BY <2>3 DEF old, new
<1>7. QED
  BY <1>4, <1>5, <1>6

\* Only n differs, as it may.
Differs(vs, vt, n) ==
  MayTo(vs[n], vt[n]) /\ \A m \in Names : m # n => vt[m] = vs[m]

\* A command on n, where no call is in progress or n is bound.
LEMMA ChangeStep ==
  ASSUME NEW vs, NEW ss, OK(vs, ss), NEW vt, OK(vt, ss), NEW n \in Names, Differs(vs, vt, n)
  PROVE  Scoped!Change(FramesOf(vs, ss), FramesOf(vt, ss), n)
<1> DEFINE F == FramesOf(vs, ss)
           G == FramesOf(vt, ss)
<1>1. PICK h \in 0 .. Len(ss) :
        /\ Here(ss, h, n)
        /\ \A j \in 1 .. Len(ss) : j > h => ~Hides(ss[j], n)
        /\ Scoped!Home(F, n) = h + 1
        /\ F[h + 1][n] = Attributes(vs[n])
  BY HomeIs
<1>2. Len(ss) \in Nat
  BY StackParts DEF OK
<1>3. /\ F \in [1 .. Len(ss) + 1 -> [Names -> Bindings]] /\ Len(F) = Len(ss) + 1
      /\ G \in [1 .. Len(ss) + 1 -> [Names -> Bindings]] /\ Len(G) = Len(ss) + 1
      /\ \A k \in 1 .. Len(ss) + 1 : \A m \in Names :
           F[k][m] = BindingOf(vs, ss, k - 1, m) /\ G[k][m] = BindingOf(vt, ss, k - 1, m)
  BY FramesShape
<1> HIDE DEF F, G
<1>4. G[h + 1][n] = Attributes(vt[n])
  <2>1. Held(vt, ss, h, n, vt[n])
    BY <1>1 DEF Held
  <2>2. BindingOf(vt, ss, h, n) = Attributes(vt[n])
    BY <1>1, <2>1, HeldOnce
  <2>3. h + 1 \in 1 .. Len(ss) + 1 /\ (h + 1) - 1 = h
    BY <1>2
  <2>4. QED
    BY <1>3, <2>2, <2>3
<1>5. ASSUME NEW k \in 1 .. Len(ss) + 1, NEW m \in Names, k # h + 1 \/ m # n
      PROVE  G[k][m] = F[k][m]
  <2>1. k - 1 \in 0 .. Len(ss)
    BY <1>2
  <2>2. ASSUME NEW x, Here(ss, k - 1, m), Held(vs, ss, k - 1, m, x)
        PROVE  Held(vt, ss, k - 1, m, x)
    <3>1. CASE m # n
      BY <2>2, <3>1 DEF Held, Differs
    <3>2. CASE m = n
      <4>1. k # h + 1 /\ (k - 1 = 0 \/ k - 1 \in 1 .. Len(ss))
        BY <1>2, <1>5, <3>2
      <4>2. k - 1 < h
        BY <1>1, <1>2, <2>2, <3>2, <4>1 DEF Here
      <4>3. h \in 1 .. Len(ss) /\ Hides(ss[h], n)
        BY <1>1, <1>2, <2>1, <4>2 DEF Here
      <4>4. QED
        BY <2>2, <3>2, <4>2, <4>3 DEF Held
    <3>3. QED
      BY <3>1, <3>2
  <2>3. BindingOf(vt, ss, k - 1, m) = BindingOf(vs, ss, k - 1, m)
    <3> DEFINE i == k - 1
    <3>1. i \in 0 .. Len(ss)
      BY <2>1
    <3>2. \A x : Here(ss, i, m) /\ Held(vs, ss, i, m, x) => Held(vt, ss, i, m, x)
      BY <2>2
    <3> HIDE DEF i
    <3>3. BindingOf(vt, ss, i, m) = BindingOf(vs, ss, i, m)
      BY <3>1, <3>2, SameBinding
    <3>4. QED
      BY <3>3 DEF i
  <2>4. QED
    BY <1>3, <2>3
<1>6. h + 1 \in 1 .. Len(ss) + 1
  BY <1>2
<1>7. G = [F EXCEPT ![h + 1][n] = G[h + 1][n]]
  <2> DEFINE a == h + 1
             D == 1 .. Len(ss) + 1
  <2>1. /\ a \in D /\ F \in [D -> [Names -> Bindings]] /\ G \in [D -> [Names -> Bindings]]
        /\ \A k \in D : \A m \in Names : k # a \/ m # n => G[k][m] = F[k][m]
    BY <1>3, <1>5, <1>6
  <2> HIDE DEF a, D
  <2>2. G = [F EXCEPT ![a][n] = G[a][n]]
    BY <2>1, ExceptTwo
  <2>3. QED
    BY <2>2 DEF a
<1>8. Scoped!May(F[h + 1][n], G[h + 1][n])
  BY <1>1, <1>4, MayIs DEF OK, MapOK, Differs
<1>9. Scoped!Change(F, G, n)
  BY <1>1, <1>3, <1>7, <1>8 DEF Scoped!Change
<1>10. QED
  BY <1>9 DEF F, G

\* One entry more, for n.
LEMMA AppendHides ==
  ASSUME NEW log, log \in Seq(SavedVar), NEW e \in SavedVar
  PROVE  /\ \A m : Hides(Append(log, e), m) <=> Hides(log, m) \/ m = e.name
         /\ \A m, x : PutsBack(log, m, x) => PutsBack(Append(log, e), m, x)
         /\ ~Hides(log, e.name) => PutsBack(Append(log, e), e.name, e.previous)
<1> DEFINE new == Append(log, e)
<1>1. /\ Len(log) \in Nat /\ Len(new) = Len(log) + 1
      /\ \A k \in 1 .. Len(log) : new[k] = log[k]
      /\ new[Len(log) + 1] = e
  OBVIOUS
<1> HIDE DEF new
<1>2. \A m : Hides(new, m) <=> Hides(log, m) \/ m = e.name
  <2> SUFFICES ASSUME NEW m PROVE Hides(new, m) <=> Hides(log, m) \/ m = e.name
    OBVIOUS
  <2>1. Hides(log, m) => Hides(new, m)
    BY <1>1 DEF Hides
  <2>2. m = e.name => Hides(new, m)
    BY <1>1 DEF Hides
  <2>3. Hides(new, m) => Hides(log, m) \/ m = e.name
    <3> SUFFICES ASSUME NEW k \in 1 .. Len(new), new[k].name = m
                 PROVE  Hides(log, m) \/ m = e.name
      BY DEF Hides
    <3>1. k \in 1 .. Len(log) \/ k = Len(log) + 1
      BY <1>1
    <3>2. QED
      BY <1>1, <3>1 DEF Hides
  <2>4. QED
    BY <2>1, <2>2, <2>3
<1>3. ASSUME NEW m, NEW x, PutsBack(log, m, x) PROVE PutsBack(new, m, x)
  <2>1. PICK k \in 1 .. Len(log) :
          /\ log[k].name = m /\ log[k].previous = x
          /\ \A l \in 1 .. Len(log) : l < k => log[l].name # m
    BY <1>3 DEF PutsBack
  <2>2. k \in 1 .. Len(new) /\ new[k] = log[k]
    BY <1>1
  <2>3. \A l \in 1 .. Len(new) : l < k => new[l].name # m
    BY <1>1, <2>1
  <2>4. QED
    BY <2>1, <2>2, <2>3 DEF PutsBack
<1>4. ASSUME ~Hides(log, e.name) PROVE PutsBack(new, e.name, e.previous)
  <2>1. \A l \in 1 .. Len(new) : l < Len(log) + 1 => new[l].name # e.name
    BY <1>1, <1>4 DEF Hides
  <2>2. Len(log) + 1 \in 1 .. Len(new)
    BY <1>1
  <2>3. QED
    BY <1>1, <2>1, <2>2 DEF PutsBack
<1>5. QED
  BY <1>2, <1>3, <1>4 DEF new

\* local n, in a call.
LEMMA LocalStep ==
  ASSUME NEW vs, NEW ss, OK(vs, ss), NEW vt, NEW st, OK(vt, st), NEW n \in Names,
         Differs(vs, vt, n), ss # <<>>,
         st = [ss EXCEPT ![Len(ss)] =
                 Append(ss[Len(ss)], [name |-> n, previous |-> vs[n]])]
  PROVE  Scoped!Local(FramesOf(vs, ss), FramesOf(vt, st), n)
<1> DEFINE F == FramesOf(vs, ss)
           G == FramesOf(vt, st)
           top == Len(ss)
           e == [name |-> n, previous |-> vs[n]]
<1>1. top \in Nat \ {0} /\ \A i \in 1 .. top : ss[i] \in Seq(SavedVar)
  BY StackParts, EmptySeq DEF OK
<1>2. e \in SavedVar /\ e.name = n /\ e.previous = vs[n]
  BY DEF OK, MapOK, SavedVar
<1>3. /\ Len(st) = top /\ st[top] = Append(ss[top], e)
      /\ \A j \in 1 .. top : j # top => st[j] = ss[j]
  <2>1. ss \in Seq(Seq(SavedVar))
    BY StackParts DEF OK
  <2>2. QED
    BY <1>1, <2>1
<1> HIDE DEF e, top
<1>4. /\ \A m : Hides(st[top], m) <=> Hides(ss[top], m) \/ m = n
      /\ \A m, x : PutsBack(ss[top], m, x) => PutsBack(st[top], m, x)
      /\ ~Hides(ss[top], n) => PutsBack(st[top], n, vs[n])
  <2>1. ss[top] \in Seq(SavedVar)
    BY <1>1
  <2>2. QED
    BY <1>2, <1>3, <2>1, AppendHides
<1>5. /\ F \in [1 .. top + 1 -> [Names -> Bindings]] /\ Len(F) = top + 1
      /\ G \in [1 .. top + 1 -> [Names -> Bindings]] /\ Len(G) = top + 1
      /\ \A k \in 1 .. top + 1 : \A m \in Names :
           F[k][m] = BindingOf(vs, ss, k - 1, m) /\ G[k][m] = BindingOf(vt, st, k - 1, m)
  <2>1. /\ F \in [1 .. top + 1 -> [Names -> Bindings]] /\ Len(F) = top + 1
        /\ \A k \in 1 .. top + 1 : \A m \in Names : F[k][m] = BindingOf(vs, ss, k - 1, m)
    BY FramesShape DEF top
  <2>2. Len(st) = top
    BY <1>3
  <2>3. /\ G \in [1 .. top + 1 -> [Names -> Bindings]] /\ Len(G) = top + 1
        /\ \A k \in 1 .. top + 1 : \A m \in Names : G[k][m] = BindingOf(vt, st, k - 1, m)
    <3>1. /\ G \in [1 .. Len(st) + 1 -> [Names -> Bindings]] /\ Len(G) = Len(st) + 1
          /\ \A k \in 1 .. Len(st) + 1 : \A m \in Names : G[k][m] = BindingOf(vt, st, k - 1, m)
      BY FramesShape
    <3> HIDE DEF G
    <3>2. QED
      BY <3>1, <2>2
  <2>4. QED
    BY <2>1, <2>3
<1>6. G[top + 1][n] = Attributes(vt[n])
  <2>1. \A j \in 1 .. Len(st) : ~(j > top)
    BY <1>1, <1>3
  <2>2. Held(vt, st, top, n, vt[n])
    BY <2>1 DEF Held
  <2>3. Here(st, top, n)
    BY <1>1, <1>3, <1>4 DEF Here
  <2>4. top \in 0 .. Len(st)
    BY <1>1, <1>3
  <2>5. BindingOf(vt, st, top, n) = Attributes(vt[n])
    BY <2>2, <2>3, <2>4, HeldOnce
  <2>6. top + 1 \in 1 .. top + 1 /\ (top + 1) - 1 = top
    BY <1>1
  <2> HIDE DEF F, G
  <2>7. QED
    BY <1>5, <2>5, <2>6
<1> HIDE DEF F, G
<1>7. ASSUME NEW i \in 0 .. top, NEW m \in Names, i # top \/ m # n
      PROVE  BindingOf(vt, st, i, m) = BindingOf(vs, ss, i, m)
  <2>1. i \in 0 .. Len(ss) /\ i \in 0 .. Len(st)
    BY <1>3 DEF top
  <2>2. \A j \in 1 .. top : j # top \/ m # n => (Hides(st[j], m) <=> Hides(ss[j], m))
    BY <1>3, <1>4
  <2>3. Here(st, i, m) <=> Here(ss, i, m)
    BY <1>3, <1>7, <2>2 DEF Here, top
  <2>4. \A j \in 1 .. top : \A x : PutsBack(ss[j], m, x) => PutsBack(st[j], m, x)
    BY <1>3, <1>4
  <2>5. ASSUME NEW x, Held(vs, ss, i, m, x)
        PROVE  Held(vt, st, i, m, x)
    <3>1. CASE \E j \in 1 .. top :
                 /\ j > i /\ PutsBack(ss[j], m, x)
                 /\ \A l \in 1 .. top : i < l /\ l < j => ~Hides(ss[l], m)
      <4>1. PICK j \in 1 .. top :
                 /\ j > i /\ PutsBack(ss[j], m, x)
                 /\ \A l \in 1 .. top : i < l /\ l < j => ~Hides(ss[l], m)
        BY <3>1
      <4>2. \A l \in 1 .. top : i < l /\ l < j => ~Hides(st[l], m)
        BY <1>1, <2>2, <4>1
      <4>3. QED
        BY <1>3, <2>4, <4>1, <4>2 DEF Held
    <3>2. CASE x = vs[m] /\ \A j \in 1 .. top : j > i => ~Hides(ss[j], m)
      <4>1. CASE m # n
        <5>1. vt[m] = vs[m] /\ \A j \in 1 .. top : j > i => ~Hides(st[j], m)
          BY <2>2, <3>2, <4>1 DEF Differs
        <5>2. QED
          BY <1>3, <3>2, <5>1 DEF Held
      <4>2. CASE m = n
        <5>1. top > i /\ top \in 1 .. top
          BY <1>1, <1>7, <4>2
        <5>2. PutsBack(st[top], m, x)
          BY <1>4, <3>2, <4>2, <5>1
        <5>3. \A l \in 1 .. top : i < l /\ l < top => ~Hides(st[l], m)
          BY <1>1, <2>2, <3>2
        <5>4. QED
          BY <1>3, <5>1, <5>2, <5>3 DEF Held
      <4>3. QED
        BY <4>1, <4>2
    <3>3. QED
      BY <2>5, <3>1, <3>2 DEF Held, top
  <2>6. \A x : Here(ss, i, m) /\ Held(vs, ss, i, m, x) => Held(vt, st, i, m, x)
    BY <2>5
  <2>7. Here(st, i, m) => Here(ss, i, m)
    BY <2>3
  <2>8. Here(ss, i, m) => Here(st, i, m)
    BY <2>3
  <2>9. OK(vs, ss) /\ OK(vt, st) /\ m \in Names
    OBVIOUS
  <2>10. QED
    BY ONLY <2>1, <2>6, <2>7, <2>8, <2>9, SameBinding
<1>8. ASSUME NEW k \in 1 .. top + 1, NEW m \in Names, k # top + 1 \/ m # n
      PROVE  G[k][m] = F[k][m]
  <2>1. k - 1 \in 0 .. top /\ (k - 1 # top \/ m # n)
    BY <1>1, <1>8
  <2>2. BindingOf(vt, st, k - 1, m) = BindingOf(vs, ss, k - 1, m)
    BY <1>7, <2>1
  <2>3. QED
    BY <1>5, <2>2
<1>9. G = [F EXCEPT ![top + 1][n] = G[top + 1][n]]
  <2> DEFINE a == top + 1
             D == 1 .. top + 1
  <2>1. /\ a \in D /\ F \in [D -> [Names -> Bindings]] /\ G \in [D -> [Names -> Bindings]]
        /\ \A k \in D : \A m \in Names : k # a \/ m # n => G[k][m] = F[k][m]
    BY <1>1, <1>5, <1>8
  <2> HIDE DEF a, D
  <2>2. G = [F EXCEPT ![a][n] = G[a][n]]
    BY <2>1, ExceptTwo
  <2>3. QED
    BY <2>2 DEF a
<1>10. F[Scoped!Home(F, n)][n] = Attributes(vs[n])
  BY HomeIs DEF F
<1>11. Scoped!May(F[Scoped!Home(F, n)][n], G[top + 1][n])
  BY <1>6, <1>10, MayIs DEF OK, MapOK, Differs
<1>12. Scoped!Local(F, G, n)
  <2>1. top + 1 > 1
    BY <1>1
  <2>2. QED
    BY <1>5, <1>9, <1>11, <2>1 DEF Scoped!Local
<1>13. QED
  BY <1>12 DEF F, G

\* A call, whose log hides the names of bound.
LEMMA EnterStep ==
  ASSUME NEW vs, NEW ss, OK(vs, ss), NEW vt, NEW st, OK(vt, st),
         NEW log, st = Append(ss, log), NEW bound \in SUBSET Names,
         \A m \in Names : Hides(log, m) <=> m \in bound,
         \A m \in bound : PutsBack(log, m, vs[m]) /\ MayTo(vs[m], vt[m]),
         \A m \in Names \ bound : vt[m] = vs[m]
  PROVE  Scoped!Enter(FramesOf(vs, ss), FramesOf(vt, st), bound)
<1> DEFINE F == FramesOf(vs, ss)
           G == FramesOf(vt, st)
           top == Len(ss) + 1
<1>1. /\ Len(ss) \in Nat /\ Len(st) = top /\ st[top] = log
      /\ \A j \in 1 .. Len(ss) : st[j] = ss[j]
  <2>1. ss \in Seq(Seq(SavedVar)) /\ Len(ss) \in Nat
    BY StackParts DEF OK
  <2>2. QED
    BY <2>1, AppendProperties
<1>2. /\ F \in Seq([Names -> Bindings]) /\ Len(F) = top
      /\ F \in [1 .. top -> [Names -> Bindings]]
      /\ \A k \in 1 .. top : \A m \in Names : F[k][m] = BindingOf(vs, ss, k - 1, m)
  BY FramesShape
<1>3. /\ G \in Seq([Names -> Bindings]) /\ Len(G) = top + 1
      /\ G \in [1 .. top + 1 -> [Names -> Bindings]]
      /\ \A k \in 1 .. top + 1 : \A m \in Names : G[k][m] = BindingOf(vt, st, k - 1, m)
  <2>1. /\ G \in Seq([Names -> Bindings]) /\ Len(G) = Len(st) + 1
        /\ G \in [1 .. Len(st) + 1 -> [Names -> Bindings]]
        /\ \A k \in 1 .. Len(st) + 1 : \A m \in Names : G[k][m] = BindingOf(vt, st, k - 1, m)
    <3>1. OK(vt, st)
      OBVIOUS
    <3>2. QED
      BY ONLY <3>1, FramesShape
  <2> HIDE DEF G, top
  <2>2. QED
    BY <1>1, <2>1
<1>4. ASSUME NEW m \in Names
      PROVE  /\ m \in bound => G[top + 1][m] = Attributes(vt[m])
             /\ m \notin bound => G[top + 1][m] = NoBinding
  <2>1. /\ top \in 1 .. Len(st) /\ top \in 0 .. Len(st) /\ top # 0
        /\ top + 1 \in 1 .. top + 1 /\ (top + 1) - 1 = top
        /\ \A j \in 1 .. Len(st) : ~(j > top)
    BY <1>1
  <2> HIDE DEF top, G
  <2>2. Held(vt, st, top, m, vt[m])
    BY <2>1 DEF Held
  <2>3. Here(st, top, m) <=> m \in bound
    BY <1>1, <2>1 DEF Here
  <2>4. G[top + 1][m] = BindingOf(vt, st, top, m)
    BY <1>3, <2>1
  <2>5. OK(vt, st)
    OBVIOUS
  <2>6. /\ Here(st, top, m) => BindingOf(vt, st, top, m) = Attributes(vt[m])
        /\ ~Here(st, top, m) => BindingOf(vt, st, top, m) = NoBinding
    BY ONLY <2>1, <2>2, <2>5, <1>4, HeldOnce
  <2>7. QED
    BY <2>3, <2>4, <2>6
<1>5. ASSUME NEW i \in 0 .. Len(ss), NEW m \in Names
      PROVE  BindingOf(vt, st, i, m) = BindingOf(vs, ss, i, m)
  <2>1. i \in 0 .. Len(ss) /\ i \in 0 .. Len(st) /\ OK(vs, ss) /\ OK(vt, st) /\ m \in Names
    BY <1>1
  <2>2. \A j \in 1 .. Len(st) : j \in 1 .. Len(ss) \/ j = top
    BY <1>1
  <2>3. Here(st, i, m) => Here(ss, i, m)
    BY <1>1 DEF Here
  <2>4. Here(ss, i, m) => Here(st, i, m)
    BY <1>1 DEF Here
  <2>5. ASSUME NEW x, Held(vs, ss, i, m, x)
        PROVE  Held(vt, st, i, m, x)
    <3>1. CASE \E j \in 1 .. Len(ss) :
                 /\ j > i /\ PutsBack(ss[j], m, x)
                 /\ \A l \in 1 .. Len(ss) : i < l /\ l < j => ~Hides(ss[l], m)
      <4>1. PICK j \in 1 .. Len(ss) :
                 /\ j > i /\ PutsBack(ss[j], m, x)
                 /\ \A l \in 1 .. Len(ss) : i < l /\ l < j => ~Hides(ss[l], m)
        BY <3>1
      <4>2. j \in 1 .. Len(st) /\ PutsBack(st[j], m, x)
        BY <1>1, <4>1
      <4>3. ASSUME NEW l \in 1 .. Len(st), i < l, l < j PROVE ~Hides(st[l], m)
        <5>1. l \in 1 .. Len(ss)
          BY <1>1, <4>3
        <5>2. QED
          BY <1>1, <4>1, <4>3, <5>1
      <4>4. QED
        BY <4>1, <4>2, <4>3 DEF Held
    <3>2. CASE x = vs[m] /\ \A j \in 1 .. Len(ss) : j > i => ~Hides(ss[j], m)
      <4>1. CASE m \notin bound
        <5>1. x = vt[m] /\ ~Hides(st[top], m)
          BY <1>1, <3>2, <4>1
        <5>2. \A j \in 1 .. Len(st) : j > i => ~Hides(st[j], m)
          BY <1>1, <2>2, <3>2, <5>1
        <5>3. QED
          BY <5>1, <5>2 DEF Held
      <4>2. CASE m \in bound
        <5>1. top \in 1 .. Len(st) /\ top > i /\ PutsBack(st[top], m, x)
          BY <1>1, <3>2, <4>2
        <5>2. ASSUME NEW l \in 1 .. Len(st), i < l, l < top PROVE ~Hides(st[l], m)
          <6>1. l \in 1 .. Len(ss)
            BY <1>1, <5>2
          <6>2. QED
            BY <1>1, <3>2, <5>2, <6>1
        <5> HIDE DEF top
        <5>3. QED
          BY <5>1, <5>2 DEF Held
      <4>3. QED
        BY <4>1, <4>2
    <3>3. QED
      BY <2>5, <3>1, <3>2 DEF Held
  <2>6. \A x : Here(ss, i, m) /\ Held(vs, ss, i, m, x) => Held(vt, st, i, m, x)
    BY <2>5
  <2>7. QED
    BY ONLY <2>1, <2>3, <2>4, <2>6, SameBinding
<1> HIDE DEF F, G
<1>6. \A k \in 1 .. top : G[k] = F[k]
  <2> SUFFICES ASSUME NEW k \in 1 .. top PROVE G[k] = F[k]
    OBVIOUS
  <2>1. k - 1 \in 0 .. Len(ss) /\ k \in 1 .. top + 1
    BY <1>1
  <2>2. \A m \in Names : BindingOf(vt, st, k - 1, m) = BindingOf(vs, ss, k - 1, m)
    BY <1>5, <2>1
  <2>3. \A m \in Names : G[k][m] = F[k][m]
    BY <1>2, <1>3, <2>1, <2>2
  <2>4. G[k] = [m \in Names |-> G[k][m]] /\ F[k] = [m \in Names |-> F[k][m]]
    BY <1>2, <1>3, <2>1
  <2>5. [m \in Names |-> G[k][m]] = [m \in Names |-> F[k][m]]
    BY <2>3, Zenon
  <2>6. QED
    BY <2>4, <2>5, Zenon
<1> DEFINE row == [m \in Names |-> IF m \in bound THEN G[top + 1][m] ELSE NoBinding]
<1> HIDE DEF top
<1>7. top \in Nat /\ Len(F) = top /\ top + 1 \in 1 .. top + 1
  BY <1>1, <1>2 DEF top
<1>8. G[top + 1] = row
  <2>1. G[top + 1] = [m \in Names |-> G[top + 1][m]]
    BY <1>3, <1>7
  <2>2. [m \in Names |-> G[top + 1][m]] = row
    BY <1>4, Zenon
  <2>3. QED
    BY <2>1, <2>2, Zenon
<1> HIDE DEF row
<1>9. row \in [Names -> Bindings]
  BY <1>3, <1>7, <1>8
<1>10. G = Append(F, row)
  <2>1. /\ Append(F, row) \in Seq([Names -> Bindings]) /\ Len(Append(F, row)) = top + 1
        /\ \A k \in 1 .. top : Append(F, row)[k] = F[k]
        /\ Append(F, row)[top + 1] = row
    BY <1>2, <1>7, <1>9, AppendProperties
  <2>2. \A k \in 1 .. top + 1 : G[k] = Append(F, row)[k]
    <3>1. \A k \in 1 .. top + 1 : k \in 1 .. top \/ k = top + 1
      BY <1>7
    <3>2. QED
      BY <1>6, <1>8, <2>1, <3>1
  <2> DEFINE H == Append(F, row)
  <2> HIDE DEF H
  <2>3. G \in [1 .. top + 1 -> [Names -> Bindings]] /\ H \in [1 .. top + 1 -> [Names -> Bindings]]
    BY <1>3, <2>1, LenProperties DEF H
  <2>4. \A k \in 1 .. top + 1 : G[k] = H[k]
    BY <2>2 DEF H
  <2>5. G = H
    <3>1. G = [k \in 1 .. top + 1 |-> G[k]] /\ H = [k \in 1 .. top + 1 |-> H[k]]
      BY <2>3
    <3>2. [k \in 1 .. top + 1 |-> G[k]] = [k \in 1 .. top + 1 |-> H[k]]
      BY <2>4, Zenon
    <3>3. QED
      BY <3>1, <3>2, Zenon
  <2>6. QED
    BY <2>5 DEF H
<1>11. ASSUME NEW m \in bound
       PROVE  Scoped!May(F[Scoped!Home(F, m)][m], G[top + 1][m])
  <2>1. F[Scoped!Home(F, m)][m] = Attributes(vs[m])
    BY HomeIs DEF F
  <2>2. G[top + 1][m] = Attributes(vt[m])
    BY <1>4
  <2>3. vs[m] \in Var \cup {Absent} /\ vt[m] \in Var \cup {Absent}
    BY DEF OK, MapOK
  <2>4. QED
    BY <2>1, <2>2, <2>3, MayIs
<1>12. Scoped!Enter(F, G, bound)
  BY <1>3, <1>7, <1>10, <1>11 DEF Scoped!Enter, row
<1>13. QED
  BY <1>12 DEF F, G

\* The end of a call.
LEMMA LeaveStep ==
  ASSUME NEW vs, NEW ss, OK(vs, ss), ss # <<>>, NEW vt, NEW st, OK(vt, st),
         st = SubSeq(ss, 1, Len(ss) - 1),
         \A m \in Names :
           IF Hides(ss[Len(ss)], m) THEN PutsBack(ss[Len(ss)], m, vt[m]) ELSE vt[m] = vs[m]
  PROVE  Scoped!Leave(FramesOf(vs, ss), FramesOf(vt, st))
<1> DEFINE F == FramesOf(vs, ss)
           G == FramesOf(vt, st)
           top == Len(ss)
<1>1. top \in Nat \ {0} /\ ss \in Seq(Seq(SavedVar)) /\ \A j \in 1 .. top : ss[j] \in Seq(SavedVar)
  BY StackParts, EmptySeq DEF OK
<1>2. Len(st) = top - 1 /\ \A j \in 1 .. top - 1 : st[j] = ss[j]
  BY <1>1, FrontSubSeq
<1>3. /\ F \in Seq([Names -> Bindings]) /\ Len(F) = top + 1
      /\ F \in [1 .. top + 1 -> [Names -> Bindings]]
      /\ \A k \in 1 .. top + 1 : \A m \in Names : F[k][m] = BindingOf(vs, ss, k - 1, m)
  BY FramesShape
<1>4. /\ G \in [1 .. top -> [Names -> Bindings]]
      /\ \A k \in 1 .. top : \A m \in Names : G[k][m] = BindingOf(vt, st, k - 1, m)
  <2>1. /\ G \in [1 .. Len(st) + 1 -> [Names -> Bindings]]
        /\ \A k \in 1 .. Len(st) + 1 : \A m \in Names : G[k][m] = BindingOf(vt, st, k - 1, m)
    <3>1. OK(vt, st)
      OBVIOUS
    <3>2. QED
      BY ONLY <3>1, FramesShape
  <2>2. Len(st) + 1 = top
    BY <1>1, <1>2
  <2> HIDE DEF G, top
  <2>3. QED
    BY <2>1, <2>2
<1> HIDE DEF top
<1>5. ASSUME NEW i \in 0 .. top - 1, NEW m \in Names
      PROVE  BindingOf(vt, st, i, m) = BindingOf(vs, ss, i, m)
  <2>1. i \in 0 .. Len(ss) /\ i \in 0 .. Len(st) /\ OK(vs, ss) /\ OK(vt, st) /\ m \in Names
    BY <1>1, <1>2 DEF top
  <2>2. /\ top \in 1 .. top /\ top > i
        /\ \A j \in 1 .. top : j \in 1 .. top - 1 \/ j = top
        /\ \A j \in 1 .. top - 1 : j \in 1 .. top /\ j < top
    BY <1>1
  <2>3. Here(st, i, m) => Here(ss, i, m)
    BY <1>2, <2>2 DEF Here, top
  <2>4. Here(ss, i, m) => Here(st, i, m)
    <3>1. i = 0 \/ i \in 1 .. top - 1
      BY <1>1
    <3>2. QED
      BY <1>2, <3>1 DEF Here
  <2>5. ASSUME NEW x, Held(vs, ss, i, m, x)
        PROVE  Held(vt, st, i, m, x)
    <3>1. CASE \E j \in 1 .. top :
                 /\ j > i /\ PutsBack(ss[j], m, x)
                 /\ \A l \in 1 .. top : i < l /\ l < j => ~Hides(ss[l], m)
      <4>1. PICK j \in 1 .. top :
                 /\ j > i /\ PutsBack(ss[j], m, x)
                 /\ \A l \in 1 .. top : i < l /\ l < j => ~Hides(ss[l], m)
        BY <3>1
      <4>2. CASE j \in 1 .. top - 1
        <5>1. \A l \in 1 .. top - 1 : i < l /\ l < j => ~Hides(st[l], m)
          BY <1>2, <2>2, <4>1
        <5>2. j \in 1 .. Len(st) /\ PutsBack(st[j], m, x)
          BY <1>2, <4>1, <4>2
        <5>3. QED
          BY <1>2, <4>1, <5>1, <5>2 DEF Held
      <4>3. CASE j = top
        <5>1. Hides(ss[top], m) /\ PutsBack(ss[top], m, x)
          BY <4>1, <4>3 DEF PutsBack, Hides
        <5>2. PutsBack(ss[top], m, vt[m])
          BY <5>1 DEF top
        <5>3. ss[top] \in Seq(SavedVar)
          BY <1>1, <2>2
        <5>4. x = vt[m]
          BY <5>1, <5>2, <5>3, PutsBackFirst
        <5>5. \A l \in 1 .. top - 1 : l > i => ~Hides(st[l], m)
          BY <1>2, <2>2, <4>1, <4>3
        <5>6. QED
          BY <1>2, <5>4, <5>5 DEF Held
      <4>4. QED
        BY <2>2, <4>2, <4>3
    <3>2. CASE x = vs[m] /\ \A j \in 1 .. top : j > i => ~Hides(ss[j], m)
      <4>1. ~Hides(ss[top], m)
        BY <2>2, <3>2
      <4>2. vt[m] = vs[m]
        BY <4>1 DEF top
      <4>3. \A j \in 1 .. top - 1 : j > i => ~Hides(st[j], m)
        BY <1>2, <2>2, <3>2
      <4>4. QED
        BY <1>2, <3>2, <4>2, <4>3 DEF Held
    <3>3. QED
      BY <2>5, <3>1, <3>2 DEF Held, top
  <2>6. \A x : Here(ss, i, m) /\ Held(vs, ss, i, m, x) => Held(vt, st, i, m, x)
    BY <2>5
  <2>7. QED
    BY ONLY <2>1, <2>3, <2>4, <2>6, SameBinding
<1> HIDE DEF F, G
<1>6. \A k \in 1 .. top : G[k] = F[k]
  <2> SUFFICES ASSUME NEW k \in 1 .. top PROVE G[k] = F[k]
    OBVIOUS
  <2>1. k - 1 \in 0 .. top - 1 /\ k \in 1 .. top + 1
    BY <1>1
  <2>2. \A m \in Names : BindingOf(vt, st, k - 1, m) = BindingOf(vs, ss, k - 1, m)
    BY <1>5, <2>1
  <2>3. \A m \in Names : G[k][m] = F[k][m]
    BY <1>3, <1>4, <2>1, <2>2
  <2>4. G[k] = [m \in Names |-> G[k][m]] /\ F[k] = [m \in Names |-> F[k][m]]
    BY <1>3, <1>4, <2>1
  <2>5. [m \in Names |-> G[k][m]] = [m \in Names |-> F[k][m]]
    BY <2>3, Zenon
  <2>6. QED
    BY <2>4, <2>5, Zenon
<1>7. G = SubSeq(F, 1, Len(F) - 1)
  <2> DEFINE H == SubSeq(F, 1, Len(F) - 1)
  <2>1. Len(F) \in Nat \ {0} /\ Len(F) - 1 = top
    BY <1>1, <1>3
  <2>2. /\ H \in Seq([Names -> Bindings]) /\ Len(H) = top
        /\ \A k \in 1 .. top : H[k] = F[k]
    BY <1>3, <2>1, FrontSubSeq
  <2> HIDE DEF H
  <2>3. H \in [1 .. top -> [Names -> Bindings]]
    BY <2>2, LenProperties
  <2>4. G = [k \in 1 .. top |-> G[k]] /\ H = [k \in 1 .. top |-> H[k]]
    BY <1>4, <2>3
  <2>5. [k \in 1 .. top |-> G[k]] = [k \in 1 .. top |-> H[k]]
    BY <1>6, <2>2, Zenon
  <2>6. G = H
    BY <2>4, <2>5, Zenon
  <2>7. QED
    BY <2>6 DEF H
<1>8. Len(F) > 1
  BY <1>1, <1>3
<1>9. Scoped!Leave(F, G)
  BY <1>7, <1>8 DEF Scoped!Leave
<1>10. QED
  BY <1>9 DEF F, G

-----------------------------------------------------------------------------
(* The theorem.                                                             *)

\* A sequence with one more element in front.
LEMMA PrependIs ==
  ASSUME NEW T, NEW x \in T, NEW s \in Seq(T), NEW g, NEW m \in Nat, Len(s) = m,
         g \in [1 .. m + 1 -> T], g[1] = x, \A k \in 1 .. m : g[k + 1] = s[k]
  PROVE  <<x>> \o s = g
<1> DEFINE H == <<x>> \o s
<1>1. <<x>> \in Seq(T) /\ Len(<<x>>) = 1 /\ <<x>>[1] = x
  OBVIOUS
<1>2. /\ H \in Seq(T) /\ Len(H) = m + 1
      /\ \A i \in 1 .. m + 1 : H[i] = IF i <= 1 THEN <<x>>[i] ELSE s[i - 1]
  BY <1>1, ConcatProperties
<1> HIDE DEF H
<1>3. \A k \in 1 .. m + 1 : H[k] = g[k]
  <2> SUFFICES ASSUME NEW k \in 1 .. m + 1 PROVE H[k] = g[k]
    OBVIOUS
  <2>1. CASE k = 1
    BY <1>1, <1>2, <2>1
  <2>2. CASE k # 1
    <3>1. k - 1 \in 1 .. m /\ ~(k <= 1) /\ (k - 1) + 1 = k
      BY <2>2
    <3>2. g[(k - 1) + 1] = s[k - 1]
      BY <3>1
    <3>3. QED
      BY <1>2, <3>1, <3>2
  <2>3. QED
    BY <2>1, <2>2
<1>4. H \in [1 .. m + 1 -> T]
  BY <1>2, LenProperties
<1>5. H = [k \in 1 .. m + 1 |-> H[k]] /\ g = [k \in 1 .. m + 1 |-> g[k]]
  BY <1>4
<1>6. [k \in 1 .. m + 1 |-> H[k]] = [k \in 1 .. m + 1 |-> g[k]]
  BY <1>3, Zenon
<1>7. H = g
  BY <1>5, <1>6, Zenon
<1>8. QED
  BY <1>7 DEF H

Row(vs, ss, i) == [n \in Names |-> BindingOf(vs, ss, i, n)]

LEMMA FramesAre ==
  ASSUME NEW vs, NEW ss, OK(vs, ss)
  PROVE  <<Row(vs, ss, 0)>> \o [i \in 1 .. Len(ss) |-> Row(vs, ss, i)] = FramesOf(vs, ss)
<1> DEFINE T == [Names -> Bindings]
           rows == [i \in 1 .. Len(ss) |-> Row(vs, ss, i)]
           m == Len(ss)
<1>1. m \in Nat
  BY StackParts DEF OK
<1>2. \A i \in 0 .. m : Row(vs, ss, i) \in T
  BY BindingType DEF Row, Bindings
<1>3. /\ FramesOf(vs, ss) \in [1 .. m + 1 -> T]
      /\ \A k \in 1 .. m + 1 : FramesOf(vs, ss)[k] = Row(vs, ss, k - 1)
  BY FramesShape DEF FramesOf, Row
<1> HIDE DEF T, m
<1>4. rows \in Seq(T) /\ Len(rows) = m /\ \A i \in 1 .. m : rows[i] = Row(vs, ss, i)
  BY <1>1, <1>2 DEF m
<1>5. /\ Row(vs, ss, 0) \in T /\ FramesOf(vs, ss)[1] = Row(vs, ss, 0)
      /\ \A k \in 1 .. m : FramesOf(vs, ss)[k + 1] = Row(vs, ss, k)
  BY <1>1, <1>2, <1>3
<1> HIDE DEF rows
<1>6. <<Row(vs, ss, 0)>> \o rows = FramesOf(vs, ss)
  BY <1>1, <1>3, <1>4, <1>5, PrependIs
<1>7. QED
  BY <1>6 DEF rows

\* The refinement mapping, as Vars writes it.
Mapped == <<Bound(0)>> \o [i \in 1 .. Len(scopes) |-> Bound(i)]

LEMMA MappedNow == VInv => OK(vars, scopes) /\ Mapped = FramesOf(vars, scopes)
<1> SUFFICES ASSUME VInv PROVE OK(vars, scopes) /\ Mapped = FramesOf(vars, scopes)
  OBVIOUS
<1>1. OK(vars, scopes)
  BY VInvParts DEF OK
<1>2. \A i : Bound(i) = Row(vars, scopes, i)
  BY DEF Bound, Binding, Row, BindingOf
<1>3. Mapped = <<Row(vars, scopes, 0)>> \o [i \in 1 .. Len(scopes) |-> Row(vars, scopes, i)]
  BY <1>2, Zenon DEF Mapped
<1>4. QED
  BY <1>1, <1>3, FramesAre

LEMMA MappedNext == VInv' => OK(vars', scopes') /\ Mapped' = FramesOf(vars', scopes')
<1> SUFFICES ASSUME VInv' PROVE OK(vars', scopes') /\ Mapped' = FramesOf(vars', scopes')
  OBVIOUS
<1>1. OK(vars', scopes')
  BY DEF VInv, TypeOK, CacheAgrees, OK, MapOK, StackOK, LogOK, Agrees
<1>2. \A i : Bound(i)' = Row(vars', scopes', i)
  BY DEF Bound, Binding, Row, BindingOf
<1>3. Mapped' = <<Row(vars', scopes', 0)>> \o [i \in 1 .. Len(scopes') |-> Row(vars', scopes', i)]
  BY <1>2, Zenon DEF Mapped
<1>4. QED
  BY <1>1, <1>3, FramesAre

LEMMA InitRefines == Init => Scoped!Init
<1> SUFFICES ASSUME Init PROVE Scoped!Init
  OBVIOUS
<1>1. OK(vars, scopes) /\ Mapped = FramesOf(vars, scopes)
  BY InitVInv, MappedNow
<1>2. scopes = <<>> /\ Len(scopes) = 0
  BY EmptySeq DEF Init
<1>3. ASSUME NEW n \in Names PROVE BindingOf(vars, scopes, 0, n) \in Visible \cup {Absent}
  <2>1. Here(scopes, 0, n) /\ 0 \in 0 .. Len(scopes)
    BY <1>2 DEF Here
  <2>2. QED
    BY ONLY <1>1, <1>3, <2>1, BindingType
<1>4. Row(vars, scopes, 0) \in [Names -> Visible \cup {Absent}]
  BY <1>3 DEF Row
<1>5. Mapped = <<Row(vars, scopes, 0)>>
  <2>1. FramesOf(vars, scopes) = [k \in 1 .. 1 |-> Row(vars, scopes, 0)]
    BY <1>2 DEF FramesOf, Row
  <2>2. QED
    BY <1>1, <2>1
<1>6. Scoped!Variables = Visible \cup {Absent}
  BY DEF Scoped!Variables, Scoped!Attributes, Scoped!Unset, Visible, Unset
<1>7. QED
  BY <1>4, <1>5, <1>6 DEF Scoped!Init, Mapped

\* One changed variable.
LEMMA TouchesDiffers ==
  ASSUME VarsOK, NEW n \in Names, Touches(n)
  PROVE  Differs(vars, vars', n)
<1>1. PICK x \in Var \cup {Absent} : Only(n, x, vars') /\ MayTo(vars[n], x)
  BY DEF Touches
<1>2. vars' = [vars EXCEPT ![n] = x] /\ vars \in [Names -> Var \cup {Absent}]
  BY <1>1 DEF Only, VarsOK
<1>3. vars'[n] = x /\ \A m \in Names : m # n => vars'[m] = vars[m]
  BY <1>2
<1>4. QED
  BY <1>1, <1>3 DEF Differs

LEMMA StepRefines ==
  VInv /\ VInv' /\ [Next]_state => [Scoped!Next]_Mapped
<1> DEFINE F == FramesOf(vars, scopes)
           G == FramesOf(vars', scopes')
<1> SUFFICES ASSUME VInv, VInv', [Next]_state PROVE Scoped!Step(F, G) \/ G = F
  BY MappedNow, MappedNext DEF Scoped!Next, Mapped
<1>1. OK(vars, scopes) /\ OK(vars', scopes') /\ VarsOK
  BY MappedNow, MappedNext DEF OK, MapOK, VarsOK
<1>2. ASSUME UNCHANGED <<vars, scopes>> PROVE G = F
  BY <1>2
<1>3. ASSUME NEW n \in Names, CommandOn(n) PROVE Scoped!Step(F, G)
  <2>1. /\ Differs(vars, vars', n)
        /\ UNCHANGED scopes \/ scopes' = Logged(n)
    BY <1>1, <1>3, CommandShape, TouchesDiffers
  <2>2. CASE UNCHANGED scopes
    <3>1. OK(vars', scopes)
      BY <1>1, <2>2
    <3>2. Scoped!Change(F, FramesOf(vars', scopes), n)
      BY ONLY <1>1, <1>3, <2>1, <3>1, ChangeStep
    <3>3. QED
      BY <2>2, <3>2 DEF Scoped!Step
  <2>3. CASE scopes' = Logged(n) /\ scopes # <<>>
    <3>1. scopes' = [scopes EXCEPT ![Len(scopes)] =
                       Append(scopes[Len(scopes)], [name |-> n, previous |-> vars[n]])]
      BY <2>3 DEF Logged
    <3>2. Scoped!Local(F, G, n)
      BY ONLY <1>1, <1>3, <2>1, <2>3, <3>1, LocalStep
    <3>3. QED
      BY <3>2 DEF Scoped!Step
  <2>4. CASE scopes' = Logged(n) /\ scopes = <<>>
    BY <2>2, <2>4 DEF Logged
  <2>5. QED
    BY <2>1, <2>2, <2>3, <2>4
<1>4. ASSUME NEW prefix \in CallPrefixes, Call(prefix) \/ CallFails(prefix)
      PROVE  Scoped!Step(F, G)
  <2>1. \/ UNCHANGED vars /\ scopes' = Append(scopes, <<>>)
        \/ \E n \in Names : Touches(n) /\ scopes' = Append(scopes, <<Saved(n)>>)
    BY <1>1, <1>4, CallShape
  <2>2. CASE UNCHANGED vars /\ scopes' = Append(scopes, <<>>)
    <3>1. \A m \in Names : Hides(<<>>, m) <=> m \in {}
      BY EmptySeq DEF Hides
    <3>2. \A m \in Names \ {} : vars'[m] = vars[m]
      BY <2>2
    <3>3. {} \in SUBSET Names
          /\ \A m \in {} : PutsBack(<<>>, m, vars[m]) /\ MayTo(vars[m], vars'[m])
      OBVIOUS
    <3>4. Scoped!Enter(F, G, {})
      BY ONLY <1>1, <2>2, <3>1, <3>2, <3>3, EnterStep
    <3>5. QED
      BY <3>4 DEF Scoped!Step
  <2>3. ASSUME NEW n \in Names, Touches(n), scopes' = Append(scopes, <<Saved(n)>>)
        PROVE  Scoped!Step(F, G)
    <3> DEFINE log == <<Saved(n)>>
    <3>1. Len(log) = 1 /\ log[1].name = n /\ log[1].previous = vars[n]
      BY DEF Saved
    <3> HIDE DEF log
    <3>2. \A m \in Names : Hides(log, m) <=> m \in {n}
      BY <3>1 DEF Hides
    <3>3. Differs(vars, vars', n)
      BY <1>1, <2>3, TouchesDiffers
    <3>4. PutsBack(log, n, vars[n])
      BY <3>1 DEF PutsBack
    <3>5. {n} \in SUBSET Names
          /\ \A m \in {n} : PutsBack(log, m, vars[m]) /\ MayTo(vars[m], vars'[m])
      BY <3>3, <3>4 DEF Differs
    <3>6. \A m \in Names \ {n} : vars'[m] = vars[m]
      BY <3>3 DEF Differs
    <3>7. scopes' = Append(scopes, log)
      BY <2>3 DEF log
    <3>8. Scoped!Enter(F, G, {n})
      BY ONLY <1>1, <3>2, <3>5, <3>6, <3>7, EnterStep
    <3>9. QED
      BY <3>8 DEF Scoped!Step
  <2>4. QED
    BY <2>1, <2>2, <2>3
<1>5. ASSUME Return PROVE Scoped!Step(F, G)
  <2>1. scopes # <<>>
    BY <1>5, VInvParts, EmptySeq DEF Return
  <2>2. scopes' = SubSeq(scopes, 1, Len(scopes) - 1)
    BY <1>5 DEF Return
  <2> DEFINE log == scopes[Len(scopes)]
  <2>3. log \in Seq(SavedVar)
    BY <1>1, <2>1, StackParts, EmptySeq DEF OK
  <2>4. vars' = PutBack(log)
    BY <1>5 DEF Return
  <2> HIDE DEF log
  <2>5. ASSUME NEW m \in Names
        PROVE  IF Hides(log, m) THEN PutsBack(log, m, vars'[m]) ELSE vars'[m] = vars[m]
    <3>1. CASE Hides(log, m)
      <4>1. vars'[m] = log[Min(Entries(log, m))].previous
        BY <2>4, <3>1, HidesEntries DEF PutBack
      <4>2. QED
        BY <2>3, <3>1, <4>1, PutsBackFirst
    <3>2. CASE ~Hides(log, m)
      <4>1. vars'[m] = vars[m]
        BY <2>4, <3>2, HidesEntries DEF PutBack
      <4>2. QED
        BY <3>2, <4>1
    <3>3. QED
      BY <3>1, <3>2
  <2>6. \A m \in Names :
          IF Hides(scopes[Len(scopes)], m)
          THEN PutsBack(scopes[Len(scopes)], m, vars'[m]) ELSE vars'[m] = vars[m]
    BY <2>5 DEF log
  <2>7. Scoped!Leave(F, G)
    BY ONLY <1>1, <2>1, <2>2, <2>6, LeaveStep
  <2>8. QED
    BY <2>7 DEF Scoped!Step
<1>6. ASSUME ProgramEnds PROVE G = F
  BY <1>2, <1>6 DEF ProgramEnds
<1>7. ASSUME UNCHANGED state PROVE G = F
  BY <1>2, <1>7 DEF state
<1>8. QED
  BY <1>3, <1>4, <1>5, <1>6, <1>7 DEF Next, Command, CommandOn

\* The flat map with its logs implements dynamic scoping, for any names, values
\* and depth of calls, in whatever order local, unset, readonly, assignments,
\* calls and returns come.
THEOREM VarsRefinesScoping == Spec => DynamicScoping
<1>1. Init => Scoped!Init
  BY InitRefines
<1>2. VInv /\ VInv' /\ [Next]_state => [Scoped!Next]_Mapped
  BY StepRefines
<1>3. QED
  BY <1>1, <1>2, VarsInductive, PTL DEF Spec, DynamicScoping, Scoped!Spec, Mapped
==============================================================================
