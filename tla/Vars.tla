------------------------------ MODULE Vars ------------------------------
(***************************************************************************)
(* The variables of a shell (src/src/var.rs), the builtins that change     *)
(* them (src/src/builtins.rs) and the calls that scope them                *)
(* (Shell::eval_function in src/src/eval.rs).                              *)
(*                                                                         *)
(* There is one flat map.  A scope is a log: what local, or a prefix       *)
(* assignment of a call, hid is put back when the call ends.  Any sequence *)
(* of commands may run, in calls nested MaxCalls deep; in "unwind" an      *)
(* error is on its way out of them.                                        *)
(***************************************************************************)
EXTENDS Integers, Sequences, FiniteSets, FiniteSetsExt

CONSTANTS
  Names,      \* names of variables
  Values,     \* texts
  Numbers,    \* the integers that some text stands for
  ParseInt,      \* str::parse::<i64> on Values
  ShowInt,      \* i64::to_string on Numbers
  Absent,     \* no variable
  NoBinding,  \* for the abstract specification: no variable of this scope
  NoInt,      \* what ParseInt gives for other texts
  MaxCalls,   \* bound on the scopes in progress
  MaxSaved    \* bound on the entries of all logs together

ASSUME ParseAssumption ==
  /\ Numbers \subseteq Int /\ NoInt \notin Numbers
  /\ ParseInt \in [Values -> Numbers \cup {NoInt}]
  /\ ShowInt \in [Numbers -> Values]
  /\ \A i \in Numbers : ParseInt[ShowInt[i]] = i
ASSUME VarsBoundsAssumption == MaxCalls \in Nat /\ MaxSaved \in Nat

Unset == "unset"

ASSUME UnsetAssumption == Unset \notin Values

Var == [value : Values \cup {Unset}, cache : Numbers \cup {NoInt},
        exported : BOOLEAN, readonly : BOOLEAN]

\* A variable without its cache.
Visible == [value : Values \cup {Unset}, exported : BOOLEAN, readonly : BOOLEAN]

ASSUME AbsentAssumption ==
  Absent \notin Var \cup Visible /\ NoBinding \notin Visible \cup {Absent}

SavedVar == [name : Names, previous : Var \cup {Absent}]

VARIABLES
  vars,        \* the flat map
  scopes,      \* the scopes, innermost last, each a log of SavedVar
  calls,       \* the number of function calls in progress
  inherited,   \* inherited_env: the names that are no shell names
  mode         \* "run", or "unwind": an error leaves the calls

state == <<vars, scopes, calls, inherited, mode>>

\* Names that are no shell names: export and local take them all the same.
OddNames == DOMAIN inherited

TypeOK ==
  /\ vars \in [Names -> Var \cup {Absent}]
  /\ scopes \in Seq(Seq(SavedVar))
  /\ calls \in 0 .. Len(scopes)
  /\ OddNames \subseteq Names /\ inherited \in [OddNames -> Values]
  /\ mode \in {"run", "unwind"}

\* Var::new
NewVar(v) ==
  [value |-> v, cache |-> IF v = Unset THEN NoInt ELSE ParseInt[v],
   exported |-> FALSE, readonly |-> FALSE]

\* Variables::new: a variable comes from the environment, exported, or not at all.
Init ==
  /\ \E odd \in SUBSET Names : inherited \in [odd -> Values]
  /\ \E env \in [Names \ OddNames -> Values \cup {Absent}] :
       vars = [n \in Names |->
                 IF n \in OddNames THEN Absent
                 ELSE IF env[n] = Absent THEN Absent
                 ELSE [NewVar(env[n]) EXCEPT !.exported = TRUE]]
  /\ scopes = <<>>
  /\ calls = 0
  /\ mode = "run"

-----------------------------------------------------------------------------
(* The operations of Variables: each gives the map it leaves. *)

IsReadonly(n) == vars[n] # Absent /\ vars[n].readonly

\* The entry or_insert_with finds or makes.
Entry(n) == IF vars[n] = Absent THEN NewVar(Unset) ELSE vars[n]

\* Mutant of Written: the cache is not updated.
WrittenUncached(n, v) ==
  [vars EXCEPT ![n] = [Entry(n) EXCEPT !.value = v]]

Written(n, v) ==
  [vars EXCEPT ![n] = [Entry(n) EXCEPT !.value = v, !.cache = ParseInt[v]]]

WrittenInt(n, i) ==
  [vars EXCEPT ![n] = [Entry(n) EXCEPT !.value = ShowInt[i], !.cache = i]]

Removed(n) == [vars EXCEPT ![n] = Absent]
Exported(n, map) == [map EXCEPT ![n].exported = TRUE]
MadeReadonly(n, map) == [map EXCEPT ![n].readonly = TRUE]

\* make_local: no scope, no effect.
Logged(n) ==
  IF scopes = <<>> THEN scopes
  ELSE [scopes EXCEPT ![Len(scopes)] = Append(@, [name |-> n, previous |-> vars[n]])]

Entries(log, n) == {k \in 1 .. Len(log) : log[k].name = n}

\* Mutant of PutBack: first to last.
PutBackForward(log) ==
  [n \in Names |->
     IF Entries(log, n) = {} THEN vars[n] ELSE log[Max(Entries(log, n))].previous]

\* pop_scope: the entries are put back last to first, so the earliest of a
\* name prevails.
PutBack(log) ==
  [n \in Names |->
     IF Entries(log, n) = {} THEN vars[n] ELSE log[Min(Entries(log, n))].previous]

-----------------------------------------------------------------------------
(* Commands, in whatever call is in progress. *)

Runs == mode = "run"

Others == UNCHANGED <<calls, inherited>>

\* `n=v` alone: the error of a read-only variable ends the script.
Assign(n, v) ==
  /\ Runs /\ n \notin OddNames
  /\ IF IsReadonly(n) THEN mode' = "unwind" /\ UNCHANGED vars
     ELSE vars' = Written(n, v) /\ UNCHANGED mode
  /\ UNCHANGED scopes /\ Others

\* ${n=v} and ${n:=v}: a read-only variable is left alone, silently.
AssignDefault(n, v) ==
  /\ Runs /\ n \notin OddNames /\ ~IsReadonly(n)
  /\ vars[n] # Absent => vars[n].value = Unset
  /\ vars' = Written(n, v)
  /\ UNCHANGED <<scopes, mode>> /\ Others

\* $((n=i)): likewise.
AssignInt(n, i) ==
  /\ Runs /\ n \notin OddNames /\ ~IsReadonly(n)
  /\ vars' = WrittenInt(n, i)
  /\ UNCHANGED <<scopes, mode>> /\ Others

\* read, for, getopts and cd: the name may be any, a read-only one is refused.
Store(n, v) ==
  /\ Runs /\ ~IsReadonly(n)
  /\ vars' = Written(n, v)
  /\ UNCHANGED <<scopes, mode>> /\ Others

\* export n
Export(n) ==
  /\ Runs
  /\ vars' = Exported(n, [vars EXCEPT ![n] = Entry(n)])
  /\ UNCHANGED <<scopes, mode>> /\ Others

\* export n=v, and set n v
ExportValue(n, v) ==
  /\ Runs /\ ~IsReadonly(n)
  /\ vars' = Exported(n, Written(n, v))
  /\ UNCHANGED <<scopes, mode>> /\ Others

\* readonly n
Readonly(n) ==
  /\ Runs
  /\ vars' = MadeReadonly(n, [vars EXCEPT ![n] = Entry(n)])
  /\ UNCHANGED <<scopes, mode>> /\ Others

\* readonly n=v
ReadonlyValue(n, v) ==
  /\ Runs /\ ~IsReadonly(n)
  /\ vars' = MadeReadonly(n, Written(n, v))
  /\ UNCHANGED <<scopes, mode>> /\ Others

\* Mutant of UnsetVar: no check.
UnsetAny(n) ==
  /\ Runs
  /\ vars' = Removed(n)
  /\ UNCHANGED <<scopes, mode>> /\ Others

\* unset n
UnsetVar(n) ==
  /\ Runs /\ ~IsReadonly(n)
  /\ vars' = Removed(n)
  /\ UNCHANGED <<scopes, mode>> /\ Others

MayLog == Cardinality(UNION {{i} \X DOMAIN scopes[i] : i \in DOMAIN scopes}) < MaxSaved

\* local n
Local(n) ==
  /\ Runs /\ MayLog
  /\ scopes' = Logged(n)
  /\ UNCHANGED <<vars, mode>> /\ Others

\* local n=v: a read-only variable is logged and keeps its value.
LocalValue(n, v) ==
  /\ Runs /\ MayLog
  /\ scopes' = Logged(n)
  /\ vars' = IF IsReadonly(n) THEN vars ELSE Written(n, v)
  /\ UNCHANGED mode /\ Others

-----------------------------------------------------------------------------
(* Function calls. *)

\* The head of eval_function: a scope, and at most one prefix assignment
\* (another one is a LocalValue that follows).
CallHead(prefix) ==
  /\ Runs /\ Len(scopes) < MaxCalls
  /\ \/ /\ prefix = <<>>
        /\ scopes' = Append(scopes, <<>>)
        /\ UNCHANGED vars
     \/ \E n \in Names \ OddNames, v \in Values :
          /\ prefix = <<n, v>> /\ MayLog
          /\ scopes' = Append(scopes, <<[name |-> n, previous |-> vars[n]]>>)
          /\ vars' = IF IsReadonly(n) THEN vars ELSE Written(n, v)
  /\ UNCHANGED inherited

Call(prefix) == CallHead(prefix) /\ calls' = calls + 1 /\ UNCHANGED mode

\* The next prefix assignment or a redirection fails: the head returns by `?`,
\* and its scope stays.
CallFails(prefix) == CallHead(prefix) /\ mode' = "unwind" /\ UNCHANGED calls

\* The body ends: in order, by return or by an error.
Return ==
  /\ calls > 0
  /\ vars' = PutBack(scopes[Len(scopes)])
  /\ scopes' = SubSeq(scopes, 1, Len(scopes) - 1)
  /\ calls' = calls - 1
  /\ UNCHANGED <<inherited, mode>>

\* The error has reached run_program; the next program runs on the same Shell.
ProgramEnds ==
  /\ mode = "unwind" /\ calls = 0
  /\ mode' = "run"
  /\ UNCHANGED <<vars, scopes, calls, inherited>>

CallPrefixes == {<<>>} \cup ((Names \ OddNames) \X Values)

Command ==
  \/ \E n \in Names :
       \/ Export(n) \/ Readonly(n) \/ UnsetVar(n) \/ Local(n)
       \/ \E i \in Numbers : AssignInt(n, i)
       \/ \E v \in Values :
            \/ Assign(n, v) \/ AssignDefault(n, v) \/ Store(n, v)
            \/ ExportValue(n, v) \/ ReadonlyValue(n, v) \/ LocalValue(n, v)

Next ==
  \/ Command
  \/ \E prefix \in CallPrefixes : Call(prefix) \/ CallFails(prefix)
  \/ Return
  \/ ProgramEnds

Spec == Init /\ [][Next]_state

-----------------------------------------------------------------------------
(* The environment of a command: env_for_command_os for a list of prefix   *)
(* assignments, and what becomes of its list.                              *)

Prefixes == UNION {[1 .. k -> (Names \ OddNames) \X Values] : k \in 0 .. 2}

Assigns(prefix, n) == {k \in DOMAIN prefix : prefix[k][1] = n}

ExportedNames ==
  {n \in Names : vars[n] # Absent /\ vars[n].exported /\ vars[n].value # Unset}

\* An entry of the list; the inherited names come first, then the exported
\* ones, then the assignments in their order.
EnvEntry(n, v, at) == [name |-> n, value |-> v, at |-> at]

\* Mutant of Env: an exported variable is not left out for an assignment.
EnvTwice(prefix) ==
  {EnvEntry(n, inherited[n], 1) : n \in OddNames \ ExportedNames}
    \cup {EnvEntry(n, vars[n].value, 2) : n \in ExportedNames}
    \cup {EnvEntry(prefix[k][1], prefix[k][2], 2 + k) : k \in DOMAIN prefix}

Env(prefix) ==
  LET assigned == {prefix[k][1] : k \in DOMAIN prefix}
      shadowed == ExportedNames \cup assigned
  IN  {EnvEntry(n, inherited[n], 1) : n \in OddNames \ shadowed}
        \cup {EnvEntry(n, vars[n].value, 2) : n \in ExportedNames \ assigned}
        \cup {EnvEntry(prefix[k][1], prefix[k][2], 2 + k) : k \in DOMAIN prefix}

\* A command that is spawned gets them one by one (Command::env), so that a
\* later entry takes the place of an earlier one of the same name.  One that
\* replaces a process (ev_exit) and the embedder's handler get the list.
Spawned(env) == {e \in env : \A d \in env : d.name = e.name => d.at <= e.at}

-----------------------------------------------------------------------------
(* Properties. *)

Agrees(x) ==
  x # Absent => x.cache = IF x.value = Unset THEN NoInt ELSE ParseInt[x.value]

\* The cached integer of a variable is that of its text, whichever operation
\* wrote either and wherever a scope put the variable back: $((n)) and test
\* read the cache and never the text.
CacheAgrees ==
  /\ \A n \in Names : Agrees(vars[n])
  /\ \A i \in 1 .. Len(scopes) : \A k \in 1 .. Len(scopes[i]) :
       Agrees(scopes[i][k].previous)

\* The value of a read-only variable changes, and its mark goes, only where a
\* call ends that had hidden it; no sequence of export, local, unset, for and
\* assignments gets around the checks in set, set_int and unset.
ReadonlyStays ==
  [][\A n \in Names :
       IsReadonly(n) =>
         \/ IsReadonly(n)' /\ vars'[n].value = vars[n].value
         \/ Len(scopes') < Len(scopes) /\ Entries(scopes[Len(scopes)], n) # {}]_state

\* What the assignments, the exported variables and what the shell inherited
\* promise a command for a name: none or one value.
Promised(prefix, n) ==
  IF Assigns(prefix, n) # {}
  THEN {prefix[k][2] : k \in {k \in Assigns(prefix, n) :
                                \A j \in Assigns(prefix, n) : j <= k}}
  ELSE IF n \in ExportedNames THEN {vars[n].value}
  ELSE IF n \in OddNames THEN {inherited[n]} ELSE {}

\* A command that is spawned finds for every name what the last prefix
\* assignment of it says, else the exported variable, else what the shell
\* inherited.  One that replaces a process finds the same, and every name
\* once, unless the prefix assigns the name twice: it gets both entries then.
EnvFor(prefix, n) ==
  LET entries == {e \in Env(prefix) : e.name = n}
      spawned == {e \in Spawned(Env(prefix)) : e.name = n}
  IN  /\ {e.value : e \in spawned} = Promised(prefix, n)
      /\ (\A j, k \in Assigns(prefix, n) : j = k) => entries = spawned
EnvExact == \A prefix \in Prefixes : \A n \in Names : EnvFor(prefix, n)

-----------------------------------------------------------------------------
(* Vars implements Scoping: the binding of a name in a frame is what the   *)
(* next scope above that hid the name will put back, or the map's.         *)

Attributes(x) ==
  IF x = Absent THEN Absent
  ELSE [value |-> x.value, exported |-> x.exported, readonly |-> x.readonly]

Binding(i, n) ==
  LET here == i > 0 => Entries(scopes[i], n) # {}
      above == {j \in i + 1 .. Len(scopes) : Entries(scopes[j], n) # {}}
      hider == scopes[Min(above)]
  IN  IF ~here THEN NoBinding
      ELSE Attributes(IF above = {} THEN vars[n]
                      ELSE hider[Min(Entries(hider, n))].previous)

Bound(i) == [n \in Names |-> Binding(i, n)]

Scoped ==
  INSTANCE Scoping WITH
    NotHere <- NoBinding,
    frames <- <<Bound(0)>> \o [i \in 1 .. Len(scopes) |-> Bound(i)]

\* The flat map and its log behave as a stack of stores: local hides a variable
\* for the time of the call, in whatever order local, unset, readonly and
\* assignments come, and the end of the call puts back exactly what was hidden.
DynamicScoping == Scoped!Spec
==========================================================================
