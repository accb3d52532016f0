----------------------------- MODULE Eval_proofs -----------------------------
(***************************************************************************)
(* Invariance proofs for Eval, for any set of commands and any bounds: what *)
(* the Shell struct says agrees with the calls in progress, in the running *)
(* process and in every parent that waits for it, and it says no more than *)
(* they do.                                                                *)
(***************************************************************************)
EXTENDS Eval, TLAPS, SequenceTheorems, FiniteSetTheorems

ShellRec ==
  [self : Int, tested : BOOLEAN, loopDepth : Int, scopes : Int, status : Int,
   errexit : BOOLEAN, evExit : BOOLEAN, forked : BOOLEAN, blind : BOOLEAN,
   exitTrap : Int, intTrap : BOOLEAN, escaped : BOOLEAN]
Kinds ==
  {"And", "Or", "If", "Not", "Bang", "While", "Until", "For", "Seq", "Brace", "Case",
   "comsub", "eval", "dot", "Subshell", "Pipeline", "Program", "Func", "ExitTrap", "SigTrap"}
Ats ==
  {"main", "child", "cond", "left", "body", "head", "func", "script", "trap", "exit", "end"}
FrameRec ==
  [kind : Kinds, at : Ats, saved : BOOLEAN, last : Int, parent : ShellRec, drains : BOOLEAN]
Tags == {"Ok", "Exit", "Return", "Break", "Continue", "Error", "Cancelled", "Stopped"}
ResultRec == [tag : Tags, n : Int]

\* s is the Shell of a process whose calls are the first n frames of st: it
\* is the innermost child among them, and the main process does not exec.
Own(st, s, n) ==
  /\ s.self \in 1 .. n
  /\ s.self = 1 => ~s.evExit
  /\ s.self # 1 => st[s.self].at = "child"
  /\ \A j \in (s.self + 1) .. n : st[j].at # "child"

InCondition(st, n) == \E i \in 1 .. n : st[i].at = "cond"

\* The invariant of a stack and of the Shell of the process that runs.
StackInv(st, s) ==
  /\ st \in Seq(FrameRec) /\ s \in ShellRec
  /\ Len(st) >= 1 /\ st[1].at = "main"
  /\ \A i \in 2 .. Len(st) : st[i].at # "main"
  /\ \A i \in 1 .. Len(st) :
       st[i].kind \in {"ExitTrap", "SigTrap", "Func"} =>
         st[i].at \in {"trap", "exit", "end", "func"}
  /\ Own(st, s, Len(st))
  /\ InCondition(st, Len(st)) => s.tested
  /\ \A i \in 1 .. Len(st) : st[i].at = "child" =>
       /\ Own(st, st[i].parent, i - 1)
       /\ InCondition(st, i - 1) => st[i].parent.tested
  /\ \A i \in 1 .. Len(st) :
       st[i].at = "cond" /\ InCondition(st, i - 1) => st[i].saved

IInv ==
  /\ StackInv(stack, sh)
  /\ res \in ResultRec
  /\ mode = "head" => Top.at = "head"

-----------------------------------------------------------------------------
(* The three ways a step changes the stack.                                 *)

\* The Shell may change in whatever the invariant does not speak of.
LEMMA SameShell ==
  ASSUME NEW st, NEW s, NEW t \in ShellRec, StackInv(st, s),
         t.self = s.self, t.tested = s.tested \/ t.tested = TRUE,
         t.evExit = s.evExit \/ t.evExit = FALSE
  PROVE  StackInv(st, t)
BY DEF StackInv, Own, InCondition, ShellRec

\* A record is a process of a stack by virtue of the stack's first n frames.
LEMMA OwnAgrees ==
  ASSUME NEW st, NEW u, NEW r, NEW n \in Int, Own(st, r, n),
         \A i \in 1 .. n : u[i].at = st[i].at
  PROVE  Own(u, r, n)
<1>1. r.self \in 1 .. n
  BY DEF Own
<1>2. r.self # 1 => u[r.self].at = "child"
  BY <1>1 DEF Own
<1>3. \A j \in (r.self + 1) .. n : u[j].at # "child"
  BY <1>1 DEF Own
<1> QED BY <1>1, <1>2, <1>3 DEF Own

\* So are the conditions being evaluated.
LEMMA ConditionAgrees ==
  ASSUME NEW st, NEW u, NEW n \in Int, \A i \in 1 .. n : u[i].at = st[i].at
  PROVE  InCondition(u, n) <=> InCondition(st, n)
BY DEF InCondition

\* The frames of a stack are frames, and their parents Shells.
LEMMA FrameShape ==
  ASSUME NEW st \in Seq(FrameRec), NEW i \in 1 .. Len(st)
  PROVE  st[i] \in FrameRec /\ st[i].parent \in ShellRec
<1>1. st[i] \in FrameRec
  BY ElementOfSeq
<1> QED BY <1>1 DEF FrameRec

\* A new call on top of the others, in the same process or in a child.
LEMMA PushFrame ==
  ASSUME NEW st, NEW s, NEW t \in ShellRec, NEW f \in FrameRec, StackInv(st, s),
         f.at # "main",
         f.kind \in {"ExitTrap", "SigTrap", "Func"} => f.at \in {"trap", "exit", "end", "func"},
         s.tested => t.tested,
         f.at = "cond" => t.tested /\ f.saved = s.tested,
         f.at # "child" => t.self = s.self /\ (t.evExit => s.evExit),
         f.at = "child" => /\ t.self = Len(st) + 1
                           /\ f.parent.self = s.self /\ f.parent.tested = s.tested
                           /\ f.parent.evExit => s.evExit
  PROVE  StackInv(Append(st, f), t)
<1> DEFINE u == Append(st, f)
<1>1. /\ u \in Seq(FrameRec) /\ Len(u) = Len(st) + 1
      /\ \A i \in 1 .. Len(st) : u[i] = st[i]
      /\ u[Len(st) + 1] = f
  BY DEF StackInv
<1>2. Len(st) \in Nat /\ Len(st) >= 1 /\ st \in Seq(FrameRec) /\ s \in ShellRec
  BY DEF StackInv
<1> HIDE DEF u
<1>3. \A n \in 0 .. Len(st) : InCondition(u, n) <=> InCondition(st, n)
  BY <1>1, <1>2, ConditionAgrees
<1>4. \A n \in 0 .. Len(st) : \A r : Own(st, r, n) => Own(u, r, n)
  BY <1>1, <1>2, OwnAgrees
<1>5. /\ Len(u) >= 1 /\ u[1].at = "main"
      /\ \A i \in 2 .. Len(u) : u[i].at # "main"
      /\ \A i \in 1 .. Len(u) :
           u[i].kind \in {"ExitTrap", "SigTrap", "Func"} =>
             u[i].at \in {"trap", "exit", "end", "func"}
  BY <1>1, <1>2 DEF StackInv
<1>6. Own(u, t, Len(u))
  <2>1. CASE f.at = "child"
    BY <2>1, <1>1, <1>2 DEF Own
  <2>2. CASE f.at # "child"
    <3>1. /\ s.self \in 1 .. Len(st)
          /\ s.self = 1 => ~s.evExit
          /\ s.self # 1 => st[s.self].at = "child"
          /\ \A j \in (s.self + 1) .. Len(st) : st[j].at # "child"
      BY <1>2 DEF Own, StackInv
    <3>2. t.self \in 1 .. Len(u) /\ (t.self = 1 => ~t.evExit)
      BY <2>2, <3>1, <1>1, <1>2
    <3>3. t.self # 1 => u[t.self].at = "child"
      BY <2>2, <3>1, <1>1, <1>2
    <3>4. \A j \in (t.self + 1) .. Len(u) : u[j].at # "child"
      BY <2>2, <3>1, <1>1, <1>2
    <3> QED BY <3>2, <3>3, <3>4 DEF Own
  <2> QED BY <2>1, <2>2
<1>7. InCondition(u, Len(u)) => t.tested
  BY <1>1, <1>2 DEF InCondition, StackInv
<1>8. \A i \in 1 .. Len(u) : u[i].at = "child" =>
        /\ Own(u, u[i].parent, i - 1)
        /\ InCondition(u, i - 1) => u[i].parent.tested
  <2> SUFFICES ASSUME NEW i \in 1 .. Len(u), u[i].at = "child"
               PROVE  /\ Own(u, u[i].parent, i - 1)
                      /\ InCondition(u, i - 1) => u[i].parent.tested
    OBVIOUS
  <2>1. CASE i <= Len(st)
    <3>1. /\ Own(st, u[i].parent, i - 1)
          /\ InCondition(st, i - 1) => u[i].parent.tested
      BY <2>1, <1>1, <1>2 DEF StackInv
    <3> QED BY <3>1, <2>1, <1>1, <1>2, <1>3, <1>4
  <2>2. CASE i = Len(st) + 1
    <3>0. u[i] = f /\ i - 1 = Len(st) /\ f.at = "child"
      BY <2>2, <1>1, <1>2
    <3>1. Own(st, f.parent, Len(st))
      BY <3>0, <1>2 DEF Own, StackInv
    <3>2. InCondition(st, Len(st)) => f.parent.tested
      BY <3>0, <1>2 DEF StackInv
    <3> QED BY <3>0, <3>1, <3>2, <1>2, <1>3, <1>4
  <2> QED BY <2>1, <2>2, <1>1, <1>2
<1>9. \A i \in 1 .. Len(u) : u[i].at = "cond" /\ InCondition(u, i - 1) => u[i].saved
  BY <1>1, <1>2, <1>3 DEF StackInv
<1> QED BY <1>1, <1>5, <1>6, <1>7, <1>8, <1>9 DEF StackInv, u

\* The calls from frame k on are over; t is what their end leaves.
LEMMA PopFrames ==
  ASSUME NEW st, NEW s, NEW t \in ShellRec, StackInv(st, s),
         NEW k \in 2 .. Len(st),
         Own(st, t, k - 1), InCondition(st, k - 1) => t.tested
  PROVE  StackInv(SubSeq(st, 1, k - 1), t)
<1> DEFINE u == SubSeq(st, 1, k - 1)
<1>2. Len(st) \in Nat /\ Len(st) >= 1 /\ st \in Seq(FrameRec) /\ s \in ShellRec
  BY DEF StackInv
<1>1. /\ u \in Seq(FrameRec) /\ Len(u) = k - 1
      /\ \A i \in 1 .. (k - 1) : u[i] = st[i]
  BY <1>2, SubSeqProperties
<1> HIDE DEF u
<1>3. \A n \in 0 .. (k - 1) : InCondition(u, n) <=> InCondition(st, n)
  BY <1>1, <1>2, ConditionAgrees
<1>4. \A n \in 0 .. (k - 1) : \A r : Own(st, r, n) => Own(u, r, n)
  BY <1>1, <1>2, OwnAgrees
<1>5. /\ Len(u) >= 1 /\ u[1].at = "main"
      /\ \A i \in 2 .. Len(u) : u[i].at # "main"
      /\ \A i \in 1 .. Len(u) :
           u[i].kind \in {"ExitTrap", "SigTrap", "Func"} =>
             u[i].at \in {"trap", "exit", "end", "func"}
  BY <1>1, <1>2 DEF StackInv
<1>6. Own(u, t, Len(u)) /\ (InCondition(u, Len(u)) => t.tested)
  BY <1>1, <1>2, <1>3, <1>4
<1>7. \A i \in 1 .. Len(u) : u[i].at = "child" =>
        /\ Own(u, u[i].parent, i - 1)
        /\ InCondition(u, i - 1) => u[i].parent.tested
  <2> SUFFICES ASSUME NEW i \in 1 .. (k - 1), st[i].at = "child"
               PROVE  /\ Own(u, st[i].parent, i - 1)
                      /\ InCondition(u, i - 1) => st[i].parent.tested
    BY <1>1
  <2>1. /\ Own(st, st[i].parent, i - 1)
        /\ InCondition(st, i - 1) => st[i].parent.tested
    BY <1>2 DEF StackInv
  <2> QED BY <2>1, <1>2, <1>3, <1>4
<1>8. \A i \in 1 .. Len(u) : u[i].at = "cond" /\ InCondition(u, i - 1) => u[i].saved
  BY <1>1, <1>2, <1>3 DEF StackInv
<1> QED BY <1>1, <1>5, <1>6, <1>7, <1>8 DEF StackInv, u

\* The top call goes on to its next part.
LEMMA ReplaceTop ==
  ASSUME NEW st, NEW s, NEW t \in ShellRec, NEW f \in FrameRec, StackInv(st, s),
         st[Len(st)].at \notin {"main", "child"}, f.at \notin {"main", "child"},
         f.kind = st[Len(st)].kind,
         f.kind \notin {"ExitTrap", "SigTrap", "Func"},
         t.self = s.self, t.evExit = s.evExit,
         InCondition(st, Len(st) - 1) => t.tested,
         f.at = "cond" => t.tested /\ (InCondition(st, Len(st) - 1) => f.saved)
  PROVE  StackInv([st EXCEPT ![Len(st)] = f], t)
<1> DEFINE u == [st EXCEPT ![Len(st)] = f]
           m == Len(st) - 1
<1>2. Len(st) \in Nat /\ Len(st) >= 2 /\ st \in Seq(FrameRec) /\ s \in ShellRec
  BY DEF StackInv
<1>1. /\ u \in Seq(FrameRec) /\ Len(u) = Len(st)
      /\ \A i \in 1 .. m : u[i] = st[i]
      /\ u[Len(st)] = f
  BY <1>2
<1> HIDE DEF u
<1>3. \A n \in 0 .. m : InCondition(u, n) <=> InCondition(st, n)
  BY <1>1, <1>2, ConditionAgrees, SMTT(30)
<1>4. \A n \in 0 .. m : \A r : Own(st, r, n) => Own(u, r, n)
  BY <1>1, <1>2, OwnAgrees
<1>5. /\ Len(u) >= 1 /\ u[1].at = "main"
      /\ \A i \in 2 .. Len(u) : u[i].at # "main"
      /\ \A i \in 1 .. Len(u) :
           u[i].kind \in {"ExitTrap", "SigTrap", "Func"} =>
             u[i].at \in {"trap", "exit", "end", "func"}
  BY <1>1, <1>2 DEF StackInv
<1>6. Own(u, t, Len(u))
  <2>1. /\ s.self \in 1 .. Len(st) /\ s.self # Len(st)
        /\ s.self = 1 => ~s.evExit
        /\ s.self # 1 => st[s.self].at = "child"
        /\ \A j \in (s.self + 1) .. Len(st) : st[j].at # "child"
    BY <1>2 DEF Own, StackInv
  <2>2. t.self \in 1 .. Len(u) /\ (t.self = 1 => ~t.evExit)
    BY <2>1, <1>1
  <2>3. t.self # 1 => u[t.self].at = "child"
    BY <2>1, <1>1, <1>2
  <2>4. \A j \in (t.self + 1) .. Len(u) : u[j].at # "child"
    BY <2>1, <1>1, <1>2
  <2> QED BY <2>2, <2>3, <2>4 DEF Own
<1>7. InCondition(u, Len(u)) => t.tested
  <2> SUFFICES ASSUME NEW i \in 1 .. Len(u), u[i].at = "cond" PROVE t.tested
    BY DEF InCondition
  <2>1. CASE i = Len(st)
    BY <2>1, <1>1
  <2>2. CASE i \in 1 .. m
    BY <2>2, <1>1 DEF InCondition
  <2> QED BY <2>1, <2>2, <1>1, <1>2
<1>8. \A i \in 1 .. Len(u) : u[i].at = "child" =>
        /\ Own(u, u[i].parent, i - 1)
        /\ InCondition(u, i - 1) => u[i].parent.tested
  <2> SUFFICES ASSUME NEW i \in 1 .. m, st[i].at = "child"
               PROVE  /\ Own(u, st[i].parent, i - 1)
                      /\ InCondition(u, i - 1) => st[i].parent.tested
    BY <1>1, <1>2
  <2>1. /\ Own(st, st[i].parent, i - 1)
        /\ InCondition(st, i - 1) => st[i].parent.tested
    BY <1>2 DEF StackInv
  <2> QED BY <2>1, <1>2, <1>3, <1>4
<1>9. \A i \in 1 .. Len(u) : u[i].at = "cond" /\ InCondition(u, i - 1) => u[i].saved
  <2> SUFFICES ASSUME NEW i \in 1 .. Len(u), u[i].at = "cond", InCondition(u, i - 1)
               PROVE  u[i].saved
    OBVIOUS
  <2>1. CASE i = Len(st)
    BY <2>1, <1>1, <1>2, <1>3
  <2>2. CASE i \in 1 .. m
    BY <2>2, <1>1, <1>2, <1>3 DEF StackInv
  <2> QED BY <2>1, <2>2, <1>1, <1>2
<1> QED BY <1>1, <1>5, <1>6, <1>7, <1>8, <1>9 DEF StackInv, u

-----------------------------------------------------------------------------
(* The Shell and frame records.                                             *)

\* The changes the evaluator makes to a Shell keep it a Shell.
LEMMA ShellUpdates ==
  ASSUME NEW s \in ShellRec, NEW b \in BOOLEAN, NEW n \in Int
  PROVE  /\ [s EXCEPT !.tested = b] \in ShellRec
         /\ [s EXCEPT !.loopDepth = n] \in ShellRec
         /\ [s EXCEPT !.scopes = n] \in ShellRec
         /\ [s EXCEPT !.status = n] \in ShellRec
         /\ [s EXCEPT !.errexit = b] \in ShellRec
         /\ [s EXCEPT !.evExit = b] \in ShellRec
         /\ [s EXCEPT !.exitTrap = n] \in ShellRec
         /\ [s EXCEPT !.intTrap = b] \in ShellRec
         /\ [s EXCEPT !.escaped = b] \in ShellRec
BY DEF ShellRec

\* The Shell the embedder builds is one, and belongs to the main process.
LEMMA NewShellShape ==
  /\ NewShell \in ShellRec
  /\ NewShell.self = 1 /\ NewShell.evExit = FALSE
BY DEF NewShell, ShellRec

\* A frame keeps the flag it will restore, and the parent's Shell.
LEMMA NewFrame ==
  ASSUME sh \in ShellRec, NEW kind \in Kinds, NEW at \in Ats, NEW last \in Int,
         NEW parent \in ShellRec
  PROVE  /\ Frame(kind, at, last, parent) \in FrameRec
         /\ Frame(kind, at, last, parent).kind = kind
         /\ Frame(kind, at, last, parent).at = at
         /\ Frame(kind, at, last, parent).parent = parent
         /\ at = "cond" => Frame(kind, at, last, parent).saved = sh.tested
BY DEF Frame, FrameRec, ShellRec

\* What a command returns is a tag and a number.
LEMMA ResultShape ==
  ASSUME NEW tag \in Tags, NEW n \in Int
  PROVE  /\ Ok(n) \in ResultRec /\ Err(tag, n) \in ResultRec
         /\ NoResult \in ResultRec
BY DEF Ok, Err, NoResult, ResultRec, Tags

\* eval_command returns a result and touches only $?.
LEMMA CompleteShape ==
  ASSUME NEW k, NEW r \in ResultRec, NEW s \in ShellRec, Complete(k, r, s)
  PROVE  /\ mode' = "ret" /\ res' \in ResultRec /\ sh' \in ShellRec
         /\ sh'.self = s.self /\ sh'.tested = s.tested /\ sh'.evExit = s.evExit
<1>1. CASE r.tag = "Ok"
  <2>1. r.n \in Int /\ Err("Exit", r.n) \in ResultRec
    BY ResultShape DEF ResultRec, Tags
  <2>2. sh' = [s EXCEPT !.status = r.n]
    BY <1>1 DEF Complete
  <2>3. sh' \in ShellRec
    BY <2>1, <2>2, ShellUpdates
  <2>4. sh'.self = s.self /\ sh'.tested = s.tested /\ sh'.evExit = s.evExit
    BY <2>2 DEF ShellRec
  <2> QED BY <1>1, <2>1, <2>3, <2>4 DEF Complete
<1>2. CASE r.tag # "Ok"
  BY <1>2 DEF Complete
<1> QED BY <1>1, <1>2

-----------------------------------------------------------------------------
(* What the ways a call ends or begins preserve.                            *)

\* A command that needs no call of its own.
LEMMA StayInv ==
  ASSUME IInv, NEW k, NEW r \in ResultRec, NEW s \in ShellRec, Stay(k, r, s),
         s.self = sh.self, s.tested = sh.tested, s.evExit = sh.evExit \/ s.evExit = FALSE
  PROVE  IInv'
<1>1. /\ mode' = "ret" /\ res' \in ResultRec /\ sh' \in ShellRec
      /\ sh'.self = s.self /\ sh'.tested = s.tested /\ sh'.evExit = s.evExit
  BY CompleteShape DEF Stay
<1>2. StackInv(stack, sh')
  BY <1>1, SameShell DEF IInv
<1> QED BY <1>1, <1>2 DEF IInv, Stay

\* A call that is over.
LEMMA LeaveInv ==
  ASSUME IInv, NEW k, NEW r \in ResultRec, NEW s \in ShellRec, Leave(k, r, s),
         Top.at \notin {"main", "child"},
         s.self = sh.self, s.evExit = sh.evExit \/ s.evExit = FALSE,
         InCondition(stack, Len(stack) - 1) => s.tested
  PROVE  IInv'
<1>0. stack \in Seq(FrameRec) /\ Len(stack) \in Nat /\ Len(stack) >= 2
  BY DEF IInv, StackInv, Top
<1>1. /\ mode' = "ret" /\ res' \in ResultRec /\ sh' \in ShellRec
      /\ sh'.self = s.self /\ sh'.tested = s.tested /\ sh'.evExit = s.evExit
  BY CompleteShape DEF Leave
<1>2. Own(stack, sh', Len(stack) - 1)
  <2>1. Own(stack, sh, Len(stack)) /\ sh.self # Len(stack)
    BY <1>0 DEF IInv, StackInv, Own, Top
  <2>2. sh'.self \in 1 .. (Len(stack) - 1)
    BY <1>0, <1>1, <2>1 DEF Own
  <2>3. sh'.self = 1 => ~sh'.evExit
    BY <1>1, <2>1 DEF Own
  <2> QED BY <1>0, <1>1, <2>1, <2>2, <2>3 DEF Own
<1>3. InCondition(stack, Len(stack) - 1) => sh'.tested
  BY <1>1
<1>4. Len(stack) \in 2 .. Len(stack) /\ StackInv(stack, sh)
  BY <1>0 DEF IInv
<1>5. StackInv(SubSeq(stack, 1, Len(stack) - 1), sh')
  BY <1>1, <1>2, <1>3, <1>4, PopFrames
<1> QED BY <1>1, <1>5 DEF IInv, Leave, Below

\* A new call.
LEMMA EnterInv ==
  ASSUME IInv, NEW s \in ShellRec, NEW f \in FrameRec,
         stack' = Append(stack, f), sh' = s, res' \in ResultRec,
         mode' = "head" => f.at = "head",
         f.at # "main",
         f.kind \in {"ExitTrap", "SigTrap", "Func"} => f.at \in {"trap", "exit", "end", "func"},
         sh.tested => s.tested,
         f.at = "cond" => s.tested /\ f.saved = sh.tested,
         f.at # "child" => s.self = sh.self /\ (s.evExit => sh.evExit),
         f.at = "child" => /\ s.self = Len(stack) + 1
                           /\ f.parent.self = sh.self /\ f.parent.tested = sh.tested
                           /\ f.parent.evExit => sh.evExit
  PROVE  IInv'
<1>1. StackInv(Append(stack, f), s)
  BY PushFrame DEF IInv
<1>2. stack \in Seq(FrameRec)
  BY DEF IInv, StackInv
<1>3. Append(stack, f)[Len(Append(stack, f))] = f
  BY <1>2
<1> QED BY <1>1, <1>3 DEF IInv, Top

\* The next part of a call.
LEMMA ProceedInv ==
  ASSUME IInv, NEW s \in ShellRec, NEW f \in FrameRec,
         stack' = Retop(f), sh' = s, res' \in ResultRec,
         mode' = "head" => f.at = "head",
         Top.at \notin {"main", "child"}, f.at \notin {"main", "child"},
         f.kind = Top.kind, f.kind \notin {"ExitTrap", "SigTrap", "Func"},
         s.self = sh.self, s.evExit = sh.evExit,
         InCondition(stack, Len(stack) - 1) => s.tested,
         f.at = "cond" => s.tested /\ (InCondition(stack, Len(stack) - 1) => f.saved)
  PROVE  IInv'
<1>1. StackInv(Retop(f), s)
  BY ReplaceTop DEF IInv, Retop, Top
<1>2. stack \in Seq(FrameRec) /\ Len(stack) >= 1 /\ Len(stack) \in Nat
  BY DEF IInv, StackInv
<1>3. Retop(f)[Len(Retop(f))] = f
  BY <1>2 DEF Retop
<1> QED BY <1>1, <1>3 DEF IInv, Top

\* A process that is over: its calls go, and its parent's Shell is back.
LEMMA ChildGone ==
  ASSUME IInv, NEW i \in 1 .. Len(stack), stack[i].at = "child",
         stack' = SubSeq(stack, 1, i - 1), sh' \in ShellRec, res' \in ResultRec, mode' # "head",
         sh'.self = stack[i].parent.self, sh'.tested = stack[i].parent.tested,
         sh'.evExit = stack[i].parent.evExit
  PROVE  IInv'
<1>1. i \in 2 .. Len(stack) /\ i \in Int
  BY DEF IInv, StackInv
<1>2. /\ Own(stack, stack[i].parent, i - 1)
      /\ InCondition(stack, i - 1) => stack[i].parent.tested
  BY DEF IInv, StackInv
<1>3. Own(stack, sh', i - 1)
  BY <1>2 DEF Own
<1>4. StackInv(SubSeq(stack, 1, i - 1), sh')
  BY <1>1, <1>2, <1>3, PopFrames DEF IInv
<1> QED BY <1>4 DEF IInv

\* A wait that has missed its child: only a mark on the frame.
LEMMA MarkFrame ==
  ASSUME NEW st \in Seq(FrameRec), NEW i \in 1 .. Len(st)
  PROVE  LET u == [st EXCEPT ![i].drains = TRUE]
         IN  /\ u \in Seq(FrameRec) /\ Len(u) = Len(st)
             /\ \A j \in 1 .. Len(st) : /\ u[j].at = st[j].at /\ u[j].kind = st[j].kind
                                        /\ u[j].saved = st[j].saved /\ u[j].parent = st[j].parent
<1> DEFINE f == [st[i] EXCEPT !.drains = TRUE]
           u == [st EXCEPT ![i] = f]
<1>1. st[i] \in FrameRec
  BY FrameShape
<1>2. /\ f \in FrameRec /\ f.at = st[i].at /\ f.kind = st[i].kind
      /\ f.saved = st[i].saved /\ f.parent = st[i].parent
  BY <1>1 DEF FrameRec
<1> HIDE DEF f
<1>3. u \in Seq(FrameRec) /\ Len(u) = Len(st)
  BY <1>2
<1>4. ASSUME NEW j \in 1 .. Len(st)
      PROVE  /\ u[j].at = st[j].at /\ u[j].kind = st[j].kind
             /\ u[j].saved = st[j].saved /\ u[j].parent = st[j].parent
  BY <1>2
<1> QED BY <1>3, <1>4 DEF f

LEMMA MarkInv ==
  ASSUME IInv, NEW i \in 1 .. Len(stack), ParentMisses(i)
  PROVE  IInv'
<1>1. stack \in Seq(FrameRec) /\ Len(stack) \in Nat /\ Len(stack) >= 1
  BY DEF IInv, StackInv
<1>2. /\ stack' \in Seq(FrameRec) /\ Len(stack') = Len(stack)
      /\ \A j \in 1 .. Len(stack) :
           /\ stack'[j].at = stack[j].at /\ stack'[j].kind = stack[j].kind
           /\ stack'[j].saved = stack[j].saved /\ stack'[j].parent = stack[j].parent
  BY <1>1, MarkFrame DEF ParentMisses
<1>3. \A n \in Int : n <= Len(stack) => (InCondition(stack', n) <=> InCondition(stack, n))
  BY <1>1, <1>2 DEF InCondition
<1>4. ASSUME NEW r, NEW n \in Int, n <= Len(stack), Own(stack, r, n)
      PROVE  Own(stack', r, n)
  BY <1>1, <1>2, <1>4, OwnAgrees
<1>5. UNCHANGED <<sh, mode, res>>
  BY DEF ParentMisses
<1>6. StackInv(stack', sh)
  <2>1. /\ sh \in ShellRec /\ stack'[1].at = "main"
        /\ \A j \in 2 .. Len(stack') : stack'[j].at # "main"
    BY <1>1, <1>2 DEF IInv, StackInv
  <2>2. \A j \in 1 .. Len(stack') :
          stack'[j].kind \in {"ExitTrap", "SigTrap", "Func"} =>
            stack'[j].at \in {"trap", "exit", "end", "func"}
    BY <1>1, <1>2 DEF IInv, StackInv
  <2>3. Own(stack', sh, Len(stack'))
    BY <1>1, <1>2, <1>4 DEF IInv, StackInv
  <2>4. InCondition(stack', Len(stack')) => sh.tested
    BY <1>1, <1>2, <1>3 DEF IInv, StackInv
  <2>5. ASSUME NEW j \in 1 .. Len(stack'), stack'[j].at = "child"
        PROVE  /\ Own(stack', stack'[j].parent, j - 1)
               /\ InCondition(stack', j - 1) => stack'[j].parent.tested
    <3>1. j \in 1 .. Len(stack) /\ stack[j].at = "child" /\ stack'[j].parent = stack[j].parent
      BY <1>2, <2>5
    <3>2. /\ Own(stack, stack[j].parent, j - 1)
          /\ InCondition(stack, j - 1) => stack[j].parent.tested
      BY <3>1 DEF IInv, StackInv
    <3>3. j - 1 \in Int /\ j - 1 <= Len(stack)
      BY <1>1, <3>1
    <3>4. QED
      BY <1>3, <1>4, <3>1, <3>2, <3>3
  <2>6. ASSUME NEW j \in 1 .. Len(stack'), stack'[j].at = "cond", InCondition(stack', j - 1)
        PROVE  stack'[j].saved
    <3>1. j \in 1 .. Len(stack) /\ stack[j].at = "cond" /\ stack'[j].saved = stack[j].saved
      BY <1>2, <2>6
    <3>2. j - 1 \in Int /\ j - 1 <= Len(stack)
      BY <1>1, <3>1
    <3>3. InCondition(stack, j - 1)
      BY <1>3, <2>6, <3>2
    <3>4. QED
      BY <3>1, <3>3 DEF IInv, StackInv
  <2>7. QED
    BY <1>1, <1>2, <2>1, <2>2, <2>3, <2>4, <2>5, <2>6 DEF StackInv
<1> QED BY <1>1, <1>2, <1>5, <1>6 DEF IInv, Top

\* The end of a child, whichever way its parent waited for it.
LEMMA ProcessEndsInv ==
  ASSUME IInv, NEW c \in Int, sh.self # 1, ProcessEnds(c)
  PROVE  IInv'
<1> DEFINE f == stack[sh.self]
<1>1. sh.self \in 1 .. Len(stack) /\ f.at = "child"
  BY DEF IInv, StackInv, Own
<1>2. f.parent \in ShellRec
  BY <1>1, FrameShape DEF IInv, StackInv
<1>3. Reported(f, Ok(c)) \in ResultRec /\ NoResult \in ResultRec
  BY ResultShape DEF Tags, Reported
<1>4. stack' = SubSeq(stack, 1, sh.self - 1)
  BY DEF ProcessEnds
<1>5. /\ sh' \in ShellRec /\ res' \in ResultRec /\ mode' # "head"
      /\ sh'.self = f.parent.self /\ sh'.tested = f.parent.tested
      /\ sh'.evExit = f.parent.evExit
  <2>1. CASE Complete(f.kind, Reported(f, Ok(c)), f.parent)
    BY <2>1, <1>2, <1>3, CompleteShape
  <2>2. CASE /\ sh' = [f.parent EXCEPT !.status = c]
             /\ mode' = "simple" /\ res' = NoResult
    <3>1. sh' \in ShellRec
      BY <2>2, <1>2, ShellUpdates
    <3> QED BY <2>2, <3>1, <1>2, <1>3 DEF ShellRec
  <2>3. CASE sh' = f.parent /\ mode' = "simple" /\ res' = NoResult
    BY <2>3, <1>2, <1>3
  <2> QED BY <2>1, <2>2, <2>3 DEF ProcessEnds
<1> QED BY <1>1, <1>4, <1>5, ChildGone

\* What every action may use of the invariant.
LEMMA InvFacts ==
  ASSUME IInv
  PROVE  /\ stack \in Seq(FrameRec) /\ Len(stack) \in Nat /\ Len(stack) >= 1
         /\ Top \in FrameRec /\ Top.kind \in Kinds /\ Top.at \in Ats
         /\ Top.last \in Int /\ Top.saved \in BOOLEAN
         /\ sh \in ShellRec /\ res \in ResultRec /\ res.n \in Int /\ res.tag \in Tags
         /\ sh.tested \in BOOLEAN /\ sh.evExit \in BOOLEAN /\ sh.status \in Int
         /\ sh.loopDepth \in Int /\ sh.scopes \in Int /\ sh.self \in 1 .. Len(stack)
         /\ NoResult \in ResultRec
         /\ InCondition(stack, Len(stack) - 1) => sh.tested
         /\ (Top.at = "cond" /\ InCondition(stack, Len(stack) - 1)) => Top.saved
<1>1. stack \in Seq(FrameRec) /\ Len(stack) \in Nat /\ Len(stack) >= 1
  BY DEF IInv, StackInv
<1>2. Top \in FrameRec
  BY <1>1, FrameShape DEF Top
<1>3. /\ sh \in ShellRec /\ res \in ResultRec /\ NoResult \in ResultRec
      /\ sh.self \in 1 .. Len(stack)
  BY ResultShape DEF IInv, StackInv, Own, Tags
<1>4. InCondition(stack, Len(stack) - 1) => sh.tested
  BY <1>1 DEF IInv, StackInv, InCondition
<1>5. (Top.at = "cond" /\ InCondition(stack, Len(stack) - 1)) => Top.saved
  BY <1>1 DEF IInv, StackInv, Top
<1>6. Top.kind \in Kinds /\ Top.at \in Ats /\ Top.last \in Int /\ Top.saved \in BOOLEAN
  BY <1>2 DEF FrameRec
<1>7. /\ res.n \in Int /\ res.tag \in Tags
      /\ sh.tested \in BOOLEAN /\ sh.evExit \in BOOLEAN /\ sh.status \in Int
      /\ sh.loopDepth \in Int /\ sh.scopes \in Int
  BY <1>3 DEF ResultRec, ShellRec
<1> QED BY <1>1, <1>2, <1>3, <1>4, <1>5, <1>6, <1>7

\* What NoExec leaves alone.
LEMMA NoExecShape ==
  ASSUME NEW s \in ShellRec
  PROVE  /\ NoExec(s) \in ShellRec /\ NoExec(s).self = s.self
         /\ NoExec(s).tested = s.tested /\ NoExec(s).evExit = FALSE
<1>1. NoExec(s) \in ShellRec
  BY DEF NoExec, ShellRec
<1>2. /\ NoExec(s).self = s.self
      /\ NoExec(s).tested = s.tested /\ NoExec(s).evExit = FALSE
  BY DEF NoExec, ShellRec
<1> QED BY <1>1, <1>2

-----------------------------------------------------------------------------
(* One lemma for each group of actions.                                     *)

\* Commands that complete without a call of their own.
LEMMA EvaluateAtOnce ==
  ASSUME IInv,
         \/ CancelledBefore
         \/ \E k \in {"Brace", "Case", "For"} : PlainFails(k)
         \/ \E k \in {"Case", "FuncDef"} : NothingToRun(k)
         \/ \E k \in {"Subshell", "Pipeline"} : ForkFails(k)
         \/ RunBackground
  PROVE  IInv'
<1>1. /\ Err("Cancelled", 0) \in ResultRec /\ Err("Error", 0) \in ResultRec
      /\ Ok(0) \in ResultRec /\ Ok(1) \in ResultRec
  BY ResultShape DEF Tags
<1>2. /\ sh \in ShellRec /\ NoExec(sh) \in ShellRec /\ NoExec(sh).self = sh.self
      /\ NoExec(sh).tested = sh.tested /\ NoExec(sh).evExit = FALSE
  BY InvFacts, NoExecShape
<1>3. \A k : Stay(k, Err("Cancelled", 0), sh) => IInv'
  BY <1>1, <1>2, StayInv
<1>4. \A k : \A r \in {Err("Error", 0), Ok(0), Ok(1)} : Stay(k, r, NoExec(sh)) => IInv'
  BY <1>1, <1>2, StayInv
<1> QED BY <1>3, <1>4 DEF CancelledBefore, PlainFails, NothingToRun, ForkFails, RunBackground

\* Commands that begin with a condition, a first command or a loop head.
LEMMA EvaluateCompound ==
  ASSUME IInv,
         \/ \E k \in Conditional : EnterConditional(k)
         \/ \E k \in Plain : EnterPlain(k)
         \/ \E k \in Loops : EnterLoop(k)
         \/ EnterInline
  PROVE  IInv'
<1>0. /\ sh \in ShellRec /\ NoExec(sh) \in ShellRec /\ NoExec(sh).self = sh.self
      /\ NoExec(sh).tested = sh.tested /\ NoExec(sh).evExit = FALSE
      /\ NoResult \in ResultRec /\ sh.loopDepth \in Int
      /\ NewShell \in ShellRec
  BY InvFacts, NoExecShape, NewShellShape
<1>1. ASSUME NEW k \in Conditional, EnterConditional(k) PROVE IInv'
  <2> DEFINE f == Frame(k, "cond", 0, NewShell)
             s == [NoExec(sh) EXCEPT !.tested = TRUE]
  <2>1. /\ f \in FrameRec /\ f.kind = k /\ f.at = "cond" /\ f.saved = sh.tested
        /\ k \notin {"ExitTrap", "SigTrap", "Func"}
    BY <1>0, NewFrame DEF Conditional, Kinds, Ats
  <2>2. s \in ShellRec
    BY <1>0, ShellUpdates
  <2>3. s.self = sh.self /\ s.tested = TRUE /\ s.evExit = FALSE
    BY <1>0 DEF ShellRec
  <2>4. stack' = Append(stack, f) /\ sh' = s /\ res' = NoResult /\ mode' = "call"
    BY <1>1 DEF EnterConditional, Enter
  <2> HIDE DEF f, s
  <2> QED BY <2>1, <2>2, <2>3, <2>4, <1>0, EnterInv
<1>2. ASSUME NEW k \in Plain, EnterPlain(k) PROVE IInv'
  <2> DEFINE f == Frame(k, IF k = "Seq" THEN "left" ELSE "body", 0, NewShell)
  <2>1. /\ f \in FrameRec /\ f.kind = k /\ f.at \in {"left", "body"}
        /\ k \notin {"ExitTrap", "SigTrap", "Func"}
    BY <1>0, NewFrame DEF Plain, Kinds, Ats
  <2>2. stack' = Append(stack, f) /\ sh' = NoExec(sh) /\ res' = NoResult /\ mode' = "call"
    BY <1>2 DEF EnterPlain, Enter
  <2> HIDE DEF f
  <2> QED BY <2>1, <2>2, <1>0, EnterInv
<1>3. ASSUME NEW k \in Loops, EnterLoop(k) PROVE IInv'
  <2> DEFINE f == Frame(k, "head", 0, NewShell)
             s == [NoExec(sh) EXCEPT !.loopDepth = @ + 1]
  <2>0. k \in Kinds /\ "head" \in Ats /\ k \notin {"ExitTrap", "SigTrap", "Func"}
    BY DEF Loops, Kinds, Ats
  <2>1. f \in FrameRec /\ f.kind = k /\ f.at = "head"
    <3>1. sh \in ShellRec /\ NewShell \in ShellRec /\ 0 \in Int
      BY <1>0
    <3> QED BY <2>0, <3>1, NewFrame
  <2>2. NoExec(sh).loopDepth \in Int
    BY <1>0 DEF ShellRec
  <2>3. s \in ShellRec
    <3>1. NoExec(sh).loopDepth + 1 \in Int /\ TRUE \in BOOLEAN
      BY <2>2
    <3> QED BY <1>0, <3>1 DEF ShellRec
  <2>4. s.self = sh.self /\ s.tested = sh.tested /\ s.evExit = FALSE
    BY <1>0 DEF ShellRec
  <2>5. stack' = Append(stack, f) /\ sh' = s /\ res' = NoResult /\ mode' = "head"
    BY <1>3 DEF EnterLoop
  <2> HIDE DEF f, s
  <2> QED BY <2>0, <2>1, <2>3, <2>4, <2>5, <1>0, EnterInv
<1>4. CASE EnterInline
  <2> DEFINE f == Frame("Subshell", "body", 0, NewShell)
  <2>1. f \in FrameRec /\ f.kind = "Subshell" /\ f.at = "body"
    BY <1>0, NewFrame DEF Kinds, Ats
  <2>2. stack' = Append(stack, f) /\ sh' = NoExec(sh) /\ res' = NoResult /\ mode' = "call"
    BY <1>4 DEF EnterInline, Enter
  <2> HIDE DEF f
  <2> QED BY <2>1, <2>2, <1>0, EnterInv
<1> QED BY <1>1, <1>2, <1>3, <1>4

\* Forks: the child is the process that runs, the parent's Shell is kept.
LEMMA EvaluateFork ==
  ASSUME IInv, (\E k \in {"Subshell", "Pipeline"} : EnterFork(k)) \/ EnterComsub
  PROVE  IInv'
<1>0. /\ sh \in ShellRec /\ NoExec(sh) \in ShellRec /\ NoExec(sh).self = sh.self
      /\ NoExec(sh).tested = sh.tested /\ NoExec(sh).evExit = FALSE
      /\ NoResult \in ResultRec /\ Len(stack) \in Nat
  BY InvFacts, NoExecShape
<1>1. ASSUME NEW k \in {"Subshell", "Pipeline", "comsub"}
      PROVE  /\ Child(k) \in ShellRec /\ Child(k).self = Len(stack) + 1
             /\ Child(k).tested = sh.tested
  <2>1. PICK b \in BOOLEAN : b = (sh.blind \/ ~cancelled)
    OBVIOUS
  <2>2. PICK e \in BOOLEAN : e = (IF k = "comsub" THEN sh.evExit ELSE k = "Pipeline")
    BY <1>0 DEF ShellRec
  <2>3. PICK x \in Int : x = (IF k = "Subshell" THEN TrapDropped ELSE sh.exitTrap)
    BY <1>0 DEF ShellRec, TrapDropped
  <2>4. Child(k) = [sh EXCEPT !.self = Len(stack) + 1, !.forked = TRUE, !.blind = b,
                              !.evExit = e, !.exitTrap = x]
    BY <2>1, <2>2, <2>3 DEF Child
  <2>5. Len(stack) + 1 \in Int
    BY <1>0
  <2>6. Child(k) \in ShellRec
    BY <1>0, <2>4, <2>5 DEF ShellRec
  <2>7. Child(k).self = Len(stack) + 1 /\ Child(k).tested = sh.tested
    BY <1>0, <2>4, <2>5 DEF ShellRec
  <2> QED BY <2>6, <2>7
<1>2. ASSUME NEW k \in {"Subshell", "Pipeline"}, EnterFork(k) PROVE IInv'
  <2> DEFINE f == Frame(k, "child", 0, NoExec(sh))
  <2>1. /\ f \in FrameRec /\ f.kind = k /\ f.at = "child" /\ f.parent = NoExec(sh)
    BY <1>0, NewFrame DEF Kinds, Ats
  <2>2. stack' = Append(stack, f) /\ sh' = Child(k) /\ res' = NoResult /\ mode' = "call"
    BY <1>2 DEF EnterFork, Enter, Parent
  <2> HIDE DEF f
  <2> QED BY <2>1, <2>2, <1>0, <1>1, EnterInv
<1>3. CASE EnterComsub
  <2> DEFINE f == Frame("comsub", "child", 0, sh)
  <2>1. /\ f \in FrameRec /\ f.kind = "comsub" /\ f.at = "child" /\ f.parent = sh
    BY <1>0, NewFrame DEF Kinds, Ats
  <2>2. stack' = Append(stack, f) /\ sh' = Child("comsub") /\ res' = NoResult /\ mode' = "call"
    BY <1>3 DEF EnterComsub, Enter
  <2> HIDE DEF f
  <2> QED BY <2>1, <2>2, <1>0, <1>1, EnterInv
<1> QED BY <1>2, <1>3

\* Simple commands.
LEMMA RunKeeps ==
  ASSUME IInv, Run \/ BeginSimple
  PROVE  IInv'
<1>0. /\ sh \in ShellRec /\ NoExec(sh) \in ShellRec /\ NoExec(sh).self = sh.self
      /\ NoExec(sh).tested = sh.tested /\ NoExec(sh).evExit = FALSE
      /\ NoResult \in ResultRec /\ sh.status \in Int /\ sh.loopDepth \in Int
      /\ sh.self \in Int /\ sh.scopes \in Int /\ NewShell \in ShellRec
  BY InvFacts, NoExecShape, NewShellShape DEF ShellRec
<1>1. \A n \in Int : \A tag \in Tags :
        /\ Stay("Simple", Ok(n), sh) => IInv'
        /\ Stay("Simple", Err(tag, n), sh) => IInv'
  <2> TAKE n \in Int
  <2> TAKE tag \in Tags
  <2>1. Ok(n) \in ResultRec /\ Err(tag, n) \in ResultRec
    BY ResultShape
  <2> QED BY <2>1, <1>0, StayInv
<1>2. CASE RunStatus
  BY <1>0, <1>1, <1>2 DEF RunStatus, Tags
<1>3. CASE RunFails
  BY <1>1, <1>3 DEF RunFails, Tags
<1>4. ASSUME NEW tag \in {"Break", "Continue"}, NEW name, RunJump(tag, name) PROVE IInv'
  <2>1. \A n \in 1 .. MaxLoops : n \in Int /\ AsManyAsThere(n) \in Int
    BY <1>0 DEF AsManyAsThere
  <2> QED BY <1>1, <1>4, <2>1 DEF RunJump, Tags
<1>5. ASSUME NEW tag \in {"Return", "Exit"}, NEW name, RunEnd(tag, name) PROVE IInv'
  BY <1>0, <1>1, <1>5 DEF RunEnd, Tags
<1>6. CASE RunSet
  <2> PICK b \in BOOLEAN : Stay("Simple", Ok(0), [sh EXCEPT !.errexit = b])
    BY <1>6 DEF RunSet
  <2> DEFINE s == [sh EXCEPT !.errexit = b]
  <2>1. s \in ShellRec /\ s.self = sh.self /\ s.tested = sh.tested /\ s.evExit = sh.evExit
    BY <1>0 DEF ShellRec
  <2>2. Ok(0) \in ResultRec
    BY ResultShape DEF Tags
  <2> HIDE DEF s
  <2> QED BY <2>1, <2>2, StayInv DEF s
<1>7. CASE RunTrap
  <2>1. ASSUME NEW x \in {0, sh.self}, Stay("Simple", Ok(0), [sh EXCEPT !.exitTrap = x])
        PROVE  IInv'
    <3> DEFINE s == [sh EXCEPT !.exitTrap = x]
    <3>0. x \in Int
      BY <1>0
    <3>1. s \in ShellRec /\ s.self = sh.self /\ s.tested = sh.tested /\ s.evExit = sh.evExit
      BY <1>0, <3>0 DEF ShellRec
    <3>2. Ok(0) \in ResultRec
      BY ResultShape DEF Tags
    <3> HIDE DEF s
    <3> QED BY <2>1, <3>1, <3>2, StayInv DEF s
  <2>2. ASSUME NEW b \in BOOLEAN, Stay("Simple", Ok(0), [sh EXCEPT !.intTrap = b])
        PROVE  IInv'
    <3> DEFINE s == [sh EXCEPT !.intTrap = b]
    <3>1. s \in ShellRec /\ s.self = sh.self /\ s.tested = sh.tested /\ s.evExit = sh.evExit
      BY <1>0 DEF ShellRec
    <3>2. Ok(0) \in ResultRec
      BY ResultShape DEF Tags
    <3> HIDE DEF s
    <3> QED BY <2>2, <3>1, <3>2, StayInv DEF s
  <2> QED BY <1>7, <2>1, <2>2 DEF RunTrap
<1>8. CASE CallFunction
  <2> DEFINE f == Frame("Func", "func", 0, NewShell)
             s == [NoExec(sh) EXCEPT !.scopes = @ + 1]
  <2>1. f \in FrameRec /\ f.kind = "Func" /\ f.at = "func"
    BY <1>0, NewFrame DEF Kinds, Ats
  <2>2. NoExec(sh).scopes + 1 \in Int
    BY <1>0 DEF ShellRec
  <2>3. s \in ShellRec /\ s.self = sh.self /\ s.tested = sh.tested /\ s.evExit = FALSE
    BY <1>0, <2>2 DEF ShellRec
  <2>4. stack' = Append(stack, f) /\ sh' = s /\ res' = NoResult /\ mode' = "call"
    BY <1>8 DEF CallFunction, Enter
  <2> HIDE DEF f, s
  <2> QED BY <2>1, <2>3, <2>4, <1>0, EnterInv
<1>9. CASE CallFails
  <2> DEFINE s == [NoExec(sh) EXCEPT !.scopes = @ + 1, !.escaped = TRUE]
  <2>1. NoExec(sh).scopes + 1 \in Int
    BY <1>0 DEF ShellRec
  <2>2. s \in ShellRec /\ s.self = sh.self /\ s.tested = sh.tested /\ s.evExit = FALSE
    BY <1>0, <2>1 DEF ShellRec
  <2>3. Err("Error", 0) \in ResultRec /\ Stay("Simple", Err("Error", 0), s)
    BY <1>9, ResultShape DEF CallFails, Tags
  <2> HIDE DEF s
  <2> QED BY <2>2, <2>3, StayInv
<1>10. ASSUME NEW k \in {"eval", "dot"}, RunScript(k) PROVE IInv'
  <2> DEFINE f == Frame(k, "script", 0, NewShell)
  <2>1. f \in FrameRec /\ f.kind = k /\ f.at = "script"
    BY <1>0, NewFrame DEF Kinds, Ats
  <2>2. stack' = Append(stack, f) /\ sh' = sh /\ res' = NoResult /\ mode' = "call"
    BY <1>10 DEF RunScript, Enter
  <2> HIDE DEF f
  <2> QED BY <2>1, <2>2, <1>0, EnterInv
<1>11. CASE Exec
  <2>1. sh.self # 1
    BY <1>11 DEF Exec, IInv, StackInv, Own
  <2> QED BY <1>11, <2>1, ProcessEndsInv DEF Exec
<1>12. CASE BeginSimple
  <2>1. stack' = stack /\ sh' = sh /\ res' = res /\ mode' = "simple"
    BY <1>12 DEF BeginSimple
  <2> QED BY <2>1 DEF IInv
<1>13. CASE RunCancelled
  BY <1>1, <1>13 DEF RunCancelled, Tags
<1> QED BY <1>2, <1>3, <1>4, <1>5, <1>6, <1>7, <1>8, <1>9, <1>10, <1>11, <1>12, <1>13 DEF Run

\* The calls that have a result, and the heads of loops.
LEMMA ReturnToCall ==
  ASSUME IInv,
         ConditionFails \/ AfterCondition \/ AfterLeft \/ AfterBody \/ AfterFunction \/ AfterScript
  PROVE  IInv'
<1>0. /\ sh \in ShellRec /\ res \in ResultRec /\ res.n \in Int /\ NoResult \in ResultRec
      /\ Top \in FrameRec /\ Top.last \in Int /\ Top.saved \in BOOLEAN
      /\ sh.loopDepth \in Int /\ sh.scopes \in Int
      /\ InCondition(stack, Len(stack) - 1) => sh.tested
      /\ (Top.at = "cond" /\ InCondition(stack, Len(stack) - 1)) => Top.saved
  BY InvFacts
<1>1. Top.kind \in {"ExitTrap", "SigTrap", "Func"} => Top.at \in {"trap", "exit", "end", "func"}
  BY InvFacts DEF IInv, StackInv, Top
<1>2. \A n \in Int : Ok(n) \in ResultRec
  BY ResultShape DEF Tags
<1>3. \A at \in Ats : /\ [Top EXCEPT !.at = at] \in FrameRec
                     /\ [Top EXCEPT !.at = at].at = at
                     /\ [Top EXCEPT !.at = at].kind = Top.kind
  BY <1>0 DEF FrameRec
<1>4. CASE ConditionFails
  <2> DEFINE s == [sh EXCEPT !.escaped = TRUE]
  <2>1. s \in ShellRec /\ s.self = sh.self /\ s.tested = sh.tested /\ s.evExit = sh.evExit
    BY <1>0 DEF ShellRec
  <2>2. Leave(Top.kind, res, s) /\ Top.at \notin {"main", "child"}
    BY <1>4 DEF ConditionFails
  <2> HIDE DEF s
  <2> QED BY <2>1, <2>2, <1>0, LeaveInv
<1>5. CASE AfterCondition
  <2> DEFINE s    == [sh EXCEPT !.tested = Restored, !.status = res.n]
             body == [Top EXCEPT !.at = "body"]
  <2>1. s \in ShellRec /\ s.self = sh.self /\ s.tested = Top.saved /\ s.evExit = sh.evExit
    BY <1>0 DEF ShellRec, Restored
  <2>2. Top.at = "cond" /\ (InCondition(stack, Len(stack) - 1) => s.tested)
    BY <1>0, <1>5, <2>1 DEF AfterCondition
  <2>3. body \in FrameRec /\ body.at = "body" /\ body.kind = Top.kind
    BY <1>3 DEF Ats
  <2>4. ASSUME Proceed(body, s) PROVE IInv'
    <3>1. /\ stack' = Retop(body) /\ sh' = s /\ res' = NoResult /\ mode' = "call"
          /\ Top.kind \notin {"ExitTrap", "SigTrap", "Func"}
      BY <1>1, <2>2, <2>4 DEF Proceed
    <3> HIDE DEF body, s
    <3> QED BY <3>1, <2>1, <2>2, <2>3, <1>0, ProceedInv
  <2>5. ASSUME NEW k, NEW r \in ResultRec, Leave(k, r, s) PROVE IInv'
    <3> HIDE DEF s
    <3> QED BY <2>1, <2>2, <2>5, LeaveInv
  <2>6. ASSUME Top.kind \in Loops, LeaveLoop(s) PROVE IInv'
    <3> DEFINE t == [s EXCEPT !.loopDepth = @ - 1]
    <3>0. s.loopDepth - 1 \in Int
      <4>1. s.loopDepth = sh.loopDepth
        BY <1>0 DEF ShellRec
      <4> QED BY <4>1, <1>0
    <3>1. t \in ShellRec /\ t.self = s.self /\ t.tested = s.tested /\ t.evExit = s.evExit
      BY <2>1, <3>0 DEF ShellRec
    <3>2. Leave(Top.kind, Ok(Top.last), t) /\ Ok(Top.last) \in ResultRec
      BY <2>6, <1>0, <1>2 DEF LeaveLoop
    <3> HIDE DEF t, s
    <3> QED BY <2>1, <2>2, <3>1, <3>2, LeaveInv
  <2> QED BY <1>0, <1>2, <1>5, <2>4, <2>5, <2>6 DEF AfterCondition
<1>6. CASE AfterLeft
  <2>1. CASE res.tag = "Ok"
    <3> DEFINE s == [sh EXCEPT !.status = res.n]
               f == [Top EXCEPT !.at = "body"]
    <3>1. s \in ShellRec /\ s.self = sh.self /\ s.tested = sh.tested /\ s.evExit = sh.evExit
      BY <1>0 DEF ShellRec
    <3>2. f \in FrameRec /\ f.at = "body" /\ f.kind = Top.kind
      BY <1>3 DEF Ats
    <3>3. stack' = Retop(f) /\ sh' = s /\ res' = NoResult /\ mode' = "call"
          /\ Top.at = "left" /\ Top.kind = "Seq"
      BY <1>6, <2>1 DEF AfterLeft, Proceed
    <3> HIDE DEF s, f
    <3> QED BY <3>1, <3>2, <3>3, <1>0, ProceedInv
  <2>2. CASE res.tag # "Ok"
    BY <1>6, <2>2, <1>0, LeaveInv DEF AfterLeft
  <2> QED BY <2>1, <2>2
<1>7. CASE AfterBody
  BY <1>7, <1>0, LeaveInv DEF AfterBody
<1>8. CASE AfterFunction
  <2> DEFINE s == [sh EXCEPT !.scopes = @ - 1]
             r == IF res.tag = "Return" THEN Ok(res.n) ELSE res
  <2>0. sh.scopes - 1 \in Int
    BY <1>0
  <2>1. s \in ShellRec /\ s.self = sh.self /\ s.tested = sh.tested /\ s.evExit = sh.evExit
    BY <1>0, <2>0 DEF ShellRec
  <2>2. r \in ResultRec
    BY <1>0, <1>2
  <2>3. Leave("Simple", r, s) /\ Top.at \notin {"main", "child"}
    BY <1>1, <1>8 DEF AfterFunction
  <2> HIDE DEF s, r
  <2> QED BY <2>1, <2>2, <2>3, <1>0, LeaveInv
<1>9. CASE AfterScript
  <2>1. Top.at = "script" /\ Top.kind \notin {"ExitTrap", "SigTrap", "Func"}
    BY <1>1, <1>9 DEF AfterScript
  <2>2. ASSUME NEW r \in ResultRec, Leave("Simple", r, sh) PROVE IInv'
    BY <2>1, <2>2, <1>0, LeaveInv
  <2>3. ASSUME Proceed(Top, [sh EXCEPT !.status = res.n]) PROVE IInv'
    <3> DEFINE s == [sh EXCEPT !.status = res.n]
    <3>1. s \in ShellRec /\ s.self = sh.self /\ s.tested = sh.tested /\ s.evExit = sh.evExit
      BY <1>0 DEF ShellRec
    <3>2. stack' = Retop(Top) /\ sh' = s /\ res' = NoResult /\ mode' = "call"
      BY <2>3 DEF Proceed
    <3> HIDE DEF s
    <3> QED BY <3>1, <3>2, <2>1, <1>0, ProceedInv
  <2> QED BY <1>0, <1>2, <1>9, <2>2, <2>3 DEF AfterScript, Thrown
<1> QED BY <1>4, <1>5, <1>6, <1>7, <1>8, <1>9

\* The head and the body of a loop.
LEMMA LoopKeeps ==
  ASSUME IInv, LoopHead \/ AfterLoopBody
  PROVE  IInv'
<1>0. /\ sh \in ShellRec /\ res \in ResultRec /\ res.n \in Int /\ NoResult \in ResultRec
      /\ Top \in FrameRec /\ Top.last \in Int
      /\ sh.loopDepth \in Int /\ sh.tested \in BOOLEAN
      /\ InCondition(stack, Len(stack) - 1) => sh.tested
  BY InvFacts
<1>1. Top.kind \in {"ExitTrap", "SigTrap", "Func"} => Top.at \in {"trap", "exit", "end", "func"}
  BY InvFacts DEF IInv, StackInv, Top
<1>2. /\ Top.at \in {"head", "body"} /\ Top.at \notin {"main", "child"}
      /\ Top.kind \notin {"ExitTrap", "SigTrap", "Func"}
  BY <1>1 DEF LoopHead, AfterLoopBody, IInv
<1>3. \A n \in Int : \A tag \in Tags : Ok(n) \in ResultRec /\ Err(tag, n) \in ResultRec
  BY ResultShape
<1>4. \A t \in ShellRec : \A r \in ResultRec : \A k :
        /\ t.self = sh.self /\ t.tested = sh.tested /\ t.evExit = sh.evExit
        /\ Leave(k, r, t)
        => IInv'
  BY <1>0, <1>2, LeaveInv
<1>5. ASSUME LeaveLoop(sh) PROVE IInv'
  <2> DEFINE t == [sh EXCEPT !.loopDepth = @ - 1]
  <2>0. sh.loopDepth - 1 \in Int
    BY <1>0
  <2>1. t \in ShellRec /\ t.self = sh.self /\ t.tested = sh.tested /\ t.evExit = sh.evExit
    BY <1>0, <2>0 DEF ShellRec
  <2>2. Leave(Top.kind, Ok(Top.last), t) /\ Ok(Top.last) \in ResultRec
    BY <1>0, <1>3, <1>5 DEF LeaveLoop, Tags
  <2> HIDE DEF t
  <2> QED BY <2>1, <2>2, <1>4
<1>6. ASSUME NEW r \in ResultRec, Leave(Top.kind, r, ForgetLoop(sh)) PROVE IInv'
  <2>0. sh.loopDepth - 1 \in Int
    BY <1>0
  <2>1. /\ ForgetLoop(sh) \in ShellRec /\ ForgetLoop(sh).self = sh.self
        /\ ForgetLoop(sh).tested = sh.tested /\ ForgetLoop(sh).evExit = sh.evExit
    BY <1>0, <2>0 DEF ShellRec, ForgetLoop
  <2> QED BY <1>4, <1>6, <2>1
<1>7. ASSUME NEW r \in ResultRec, Leave(Top.kind, r, [sh EXCEPT !.escaped = TRUE]) PROVE IInv'
  <2> DEFINE t == [sh EXCEPT !.escaped = TRUE]
  <2>1. t \in ShellRec /\ t.self = sh.self /\ t.tested = sh.tested /\ t.evExit = sh.evExit
    BY <1>0 DEF ShellRec
  <2> HIDE DEF t
  <2> QED BY <1>4, <1>7, <2>1 DEF t
<1>8. CASE LoopHead
  <2>1. ASSUME Proceed([Top EXCEPT !.at = "cond", !.saved = sh.tested], [sh EXCEPT !.tested = TRUE])
        PROVE  IInv'
    <3> DEFINE f == [Top EXCEPT !.at = "cond", !.saved = sh.tested]
               t == [sh EXCEPT !.tested = TRUE]
    <3>1. t \in ShellRec /\ t.self = sh.self /\ t.tested = TRUE /\ t.evExit = sh.evExit
      BY <1>0 DEF ShellRec
    <3>2. f \in FrameRec /\ f.at = "cond" /\ f.kind = Top.kind /\ f.saved = sh.tested
      BY <1>0 DEF FrameRec, Ats
    <3>3. stack' = Retop(f) /\ sh' = t /\ res' = NoResult /\ mode' = "call"
      BY <2>1 DEF Proceed
    <3> HIDE DEF f, t
    <3> QED BY <3>1, <3>2, <3>3, <1>0, <1>2, ProceedInv
  <2>2. ASSUME Proceed([Top EXCEPT !.at = "body"], sh) PROVE IInv'
    <3> DEFINE f == [Top EXCEPT !.at = "body"]
    <3>1. f \in FrameRec /\ f.at = "body" /\ f.kind = Top.kind
      BY <1>0 DEF FrameRec, Ats
    <3>2. stack' = Retop(f) /\ sh' = sh /\ res' = NoResult /\ mode' = "call"
      BY <2>2 DEF Proceed
    <3> HIDE DEF f
    <3> QED BY <3>1, <3>2, <1>0, <1>2, ProceedInv
  <2>3. \/ Proceed([Top EXCEPT !.at = "cond", !.saved = sh.tested], [sh EXCEPT !.tested = TRUE])
        \/ Proceed([Top EXCEPT !.at = "body"], sh)
        \/ LeaveLoop(sh)
        \/ Leave(Top.kind, Err("Cancelled", 0), [sh EXCEPT !.escaped = TRUE])
        \/ Leave(Top.kind, Ok(1), [sh EXCEPT !.escaped = TRUE])
    BY <1>8 DEF LoopHead
  <2>4. Err("Cancelled", 0) \in ResultRec /\ Ok(1) \in ResultRec
    BY <1>3 DEF Tags
  <2> QED BY <2>1, <2>2, <2>3, <2>4, <1>5, <1>7
<1>9. CASE AfterLoopBody
  <2> DEFINE f == [Top EXCEPT !.at = "head", !.last = IF res.tag = "Ok" THEN res.n ELSE @]
  <2>1. ASSUME stack' = Retop(f), mode' = "head", res' = NoResult, sh' = sh PROVE IInv'
    <3>1. f \in FrameRec /\ f.at = "head" /\ f.kind = Top.kind
      BY <1>0 DEF FrameRec, Ats
    <3> HIDE DEF f
    <3> QED BY <3>1, <2>1, <1>0, <1>2, ProceedInv
  <2>2. Err(res.tag, res.n - 1) \in ResultRec
    BY <1>0, <1>3 DEF ResultRec
  <2>3. \/ stack' = Retop(f) /\ mode' = "head" /\ res' = NoResult /\ sh' = sh
        \/ LeaveLoop(sh)
        \/ Leave(Top.kind, Err(res.tag, res.n - 1), ForgetLoop(sh))
        \/ Leave(Top.kind, res, ForgetLoop(sh))
    BY <1>9 DEF AfterLoopBody
  <2> QED BY <2>1, <2>2, <2>3, <1>0, <1>5, <1>6
<1> QED BY <1>8, <1>9

\* The EXIT trap begins, in a child or in the main process.
LEMMA TrapBegins ==
  ASSUME IInv, NEW at \in {"exit", "end"}, NEW n \in Int, NEW s \in ShellRec,
         stack' = Append(stack, Frame("ExitTrap", at, n, NewShell)),
         sh' = [s EXCEPT !.exitTrap = 0], res' = NoResult, mode' = "call",
         s.self = sh.self, s.tested = sh.tested, s.evExit = sh.evExit
  PROVE  IInv'
<1> DEFINE f == Frame("ExitTrap", at, n, NewShell)
           t == [s EXCEPT !.exitTrap = 0]
<1>1. sh \in ShellRec /\ NoResult \in ResultRec /\ NewShell \in ShellRec
  BY InvFacts, NewShellShape
<1>2. f \in FrameRec /\ f.kind = "ExitTrap" /\ f.at = at
  <2>1. "ExitTrap" \in Kinds /\ at \in Ats
    BY DEF Kinds, Ats
  <2> QED BY <2>1, <1>1, NewFrame
<1>3. t \in ShellRec /\ t.self = s.self /\ t.tested = s.tested /\ t.evExit = s.evExit
  BY DEF ShellRec
<1>4. stack' = Append(stack, f) /\ sh' = t
  OBVIOUS
<1> HIDE DEF f, t
<1> QED BY <1>1, <1>2, <1>3, <1>4, EnterInv

\* run_program ends, or runs the EXIT trap first.
LEMMA FinishKeeps ==
  ASSUME IInv, NEW at \in {"exit", "end"}, NEW n \in Int, NEW s \in ShellRec,
         FinishProgram(at, n, s),
         s.self = sh.self, s.tested = sh.tested, s.evExit = sh.evExit
  PROVE  IInv'
<1>1. CASE s.exitTrap # 0
  BY <1>1, TrapBegins DEF FinishProgram
<1>2. CASE s.exitTrap = 0
  <2>1. stack' = stack /\ sh' = s /\ res' = NoResult /\ mode' = "done"
    BY <1>2 DEF FinishProgram, ProgramEnds
  <2>2. StackInv(stack, s)
    BY SameShell DEF IInv
  <2> QED BY <2>1, <2>2, InvFacts DEF IInv
<1> QED BY <1>1, <1>2

\* Ends of children, waits, and run_program around them.
LEMMA ProgramKeeps ==
  ASSUME IInv,
         \/ AfterChild \/ AfterTopCommand \/ RunPendingTraps \/ NextCommand
         \/ TrapGoesOn \/ TrapEnds \/ Wait
  PROVE  IInv'
<1>0. /\ sh \in ShellRec /\ res \in ResultRec /\ res.n \in Int /\ NoResult \in ResultRec
      /\ Top \in FrameRec /\ Top.last \in Int /\ NewShell \in ShellRec
      /\ stack \in Seq(FrameRec) /\ Len(stack) \in Nat /\ Len(stack) >= 1
      /\ InCondition(stack, Len(stack) - 1) => sh.tested
  BY InvFacts, NewShellShape
<1>1. CASE AfterChild
  <2> DEFINE c == IF res.tag \in {"Ok", "Exit"} THEN res.n ELSE 1
  <2>0. c \in Int
    BY <1>0
  <2>1. sh.self # 1
    BY <1>0, <1>1 DEF AfterChild, IInv, StackInv, Own, Top
  <2>2. ASSUME RunExitTrap("exit", c) PROVE IInv'
    <3> HIDE DEF c
    <3> QED BY <2>0, <2>2, <1>0, TrapBegins DEF RunExitTrap
  <2>3. RunExitTrap("exit", c) \/ ProcessEnds(c)
    BY <1>1 DEF AfterChild
  <2> HIDE DEF c
  <2> QED BY <2>0, <2>1, <2>2, <2>3, ProcessEndsInv
<1>2. CASE AfterTopCommand
  <2>1. ASSUME NEW n \in Int, mode' \in {"between", "done"}, stack' = stack, res' = NoResult,
               sh' \in {sh, [sh EXCEPT !.status = n]}
        PROVE  IInv'
    <3>1. sh' \in ShellRec /\ sh'.self = sh.self /\ sh'.tested = sh.tested /\ sh'.evExit = sh.evExit
      BY <2>1, <1>0 DEF ShellRec
    <3>2. StackInv(stack, sh')
      BY <3>1, SameShell DEF IInv
    <3> QED BY <2>1, <3>2, <1>0 DEF IInv
  <2>2. ASSUME FinishProgram("exit", res.n, sh) PROVE IInv'
    BY <2>2, <1>0, FinishKeeps
  <2>3. ASSUME FinishProgram("end", 0, [sh EXCEPT !.status = 2]) PROVE IInv'
    <3> DEFINE t(n) == [sh EXCEPT !.status = n]
    <3>1. ASSUME NEW n \in Int
          PROVE  /\ t(n) \in ShellRec /\ t(n).self = sh.self
                 /\ t(n).tested = sh.tested /\ t(n).evExit = sh.evExit
      BY <1>0 DEF ShellRec
    <3>2. FinishProgram("end", 0, t(2))
      BY <2>3
    <3> HIDE DEF t
    <3> QED BY <3>1, <3>2, FinishKeeps
  <2> QED BY <1>0, <1>2, <2>1, <2>2, <2>3 DEF AfterTopCommand, ProgramEnds
<1>3. CASE RunPendingTraps
  <2> DEFINE f == Frame("SigTrap", "trap", 0, NewShell)
  <2>1. f \in FrameRec /\ f.kind = "SigTrap" /\ f.at = "trap"
    BY <1>0, NewFrame DEF Kinds, Ats
  <2>2. ASSUME stack' = Append(stack, f), mode' = "call", res' = res, sh' = sh PROVE IInv'
    <3> HIDE DEF f
    <3> QED BY <2>1, <2>2, <1>0, EnterInv
  <2>3. ASSUME stack' = stack, mode' = "next", res' = res, sh' = sh PROVE IInv'
    BY <2>3 DEF IInv
  <2> QED BY <1>3, <2>2, <2>3 DEF RunPendingTraps
<1>4. CASE NextCommand
  <2>1. ASSUME stack' = stack, mode' = "call", res' = res, sh' = sh PROVE IInv'
    BY <2>1 DEF IInv
  <2> QED BY <1>0, <1>4, <2>1, FinishKeeps DEF NextCommand
<1>5. CASE TrapGoesOn
  BY <1>0, <1>5 DEF TrapGoesOn, IInv
<1>6. CASE TrapEnds
  <2>1. Top.at \notin {"main", "child"}
    BY <1>6, <1>0 DEF TrapEnds, IsTrap, IInv, StackInv, Top
  <2>2. Len(stack) >= 2 /\ Own(stack, sh, Len(stack) - 1)
    BY <2>1, <1>0 DEF IInv, StackInv, Own, Top
  <2>3. ASSUME stack' = Below, mode' \in {"next", "done"}, res' = NoResult, sh' = sh PROVE IInv'
    <3>1. Len(stack) \in 2 .. Len(stack) /\ StackInv(stack, sh)
      BY <2>2, <1>0 DEF IInv
    <3>2. StackInv(SubSeq(stack, 1, Len(stack) - 1), sh)
      BY <3>1, <2>2, <1>0, PopFrames
    <3> QED BY <3>2, <2>3, <1>0 DEF IInv, Below
  <2> QED BY <1>0, <1>6, <2>3, ProcessEndsInv DEF TrapEnds, ProgramEnds, InMain
<1>7. CASE Wait
  <2> PICK i \in 1 .. Len(stack) : Poll(i) \/ ChildStops(i)
    BY <1>7 DEF Wait
  <2>1. CASE ParentMisses(i)
    BY <2>1, MarkInv
  <2>2. CASE ParentCancels(i) \/ ChildStops(i)
    <3>1. /\ stack[i].at = "child" /\ stack' = SubSeq(stack, 1, i - 1)
          /\ stack[i].parent \in ShellRec
      BY <1>0, <2>2, FrameShape DEF ParentCancels, SeesWaiting, ChildStops
    <3>2. \E r \in ResultRec : Complete(stack[i].kind, r, stack[i].parent)
      BY <2>2, ResultShape DEF ParentCancels, ChildStops, Reported, Tags
    <3> QED BY <3>1, <3>2, CompleteShape, ChildGone
  <2> QED BY <2>1, <2>2 DEF Poll
<1> QED BY <1>1, <1>2, <1>3, <1>4, <1>5, <1>6, <1>7

-----------------------------------------------------------------------------
(* The theorems.                                                            *)

\* The initial state: the main process, in no call.
LEMMA InitInv == Init => IInv
<1> SUFFICES ASSUME Init PROVE IInv
  OBVIOUS
<1>1. sh \in ShellRec /\ sh.self = 1 /\ sh.evExit = FALSE /\ NewShell \in ShellRec
  BY NewShellShape DEF Init
<1> DEFINE f == Frame("Program", "main", 0, NewShell)
<1>2. f \in FrameRec /\ f.kind = "Program" /\ f.at = "main"
  BY <1>1, NewFrame DEF Kinds, Ats
<1>3. stack = <<f>> /\ mode = "call" /\ res \in ResultRec
  BY ResultShape DEF Init, Tags
<1> HIDE DEF f
<1>4. Len(stack) = 1 /\ stack[1] = f /\ stack \in Seq(FrameRec)
  BY <1>2, <1>3
<1>5. Own(stack, sh, 1) /\ ~InCondition(stack, 1)
  BY <1>1, <1>2, <1>4 DEF Own, InCondition
<1>6. StackInv(stack, sh)
  BY <1>1, <1>2, <1>4, <1>5 DEF StackInv
<1> QED BY <1>3, <1>6 DEF IInv

\* Every step of the evaluator or of its environment keeps the invariant.
LEMMA StepInv == IInv /\ [Next]_vars => IInv'
<1> SUFFICES ASSUME IInv, [Next]_vars PROVE IInv'
  OBVIOUS
<1>1. CASE Evaluate
  BY <1>1, EvaluateAtOnce, EvaluateCompound, EvaluateFork, RunKeeps DEF Evaluate
<1>2. CASE Return
  BY <1>2, ReturnToCall, LoopKeeps, ProgramKeeps DEF Return
<1>3. CASE Wait
  BY <1>3, ProgramKeeps
<1>4. CASE RunAgain
  BY <1>4 DEF RunAgain, IInv
<1>5. CASE Cancel \/ Signal \/ Finished \/ UNCHANGED vars
  <2>1. UNCHANGED <<stack, mode, res, sh>>
    BY <1>5 DEF Cancel, Signal, Finished, control, vars
  <2> QED BY <2>1 DEF IInv, Top
<1> QED BY <1>1, <1>2, <1>3, <1>4, <1>5 DEF Next

\* What the Shell struct says agrees with the calls in progress, in the
\* running process and in every parent that waits for it.
THEOREM EvalInductive == Spec => []IInv
BY InitInv, StepInv, PTL DEF Spec

\* Errexit is suppressed in every condition, however deep the evaluation is
\* in it and whichever calls, subshells or traps it has gone through.
THEOREM EvalTestedInConditions == Spec => []TestedInConditions
<1>1. IInv => TestedInConditions
  BY DEF IInv, StackInv, InCondition, TestedInConditions, Frames
<1> QED BY <1>1, EvalInductive, PTL

\* Only a forked child execs directly: the embedder's process never does.
THEOREM EvalMainNeverExecs == Spec => []MainNeverExecs
<1>1. IInv => MainNeverExecs
  BY DEF IInv, StackInv, Own, MainNeverExecs, InMain
<1> QED BY <1>1, EvalInductive, PTL

-----------------------------------------------------------------------------
(* The other direction.  IInv has it that in a condition, tested is set; here *)
(* are that tested is set only in one, the counts, what an exec may cut       *)
(* short, and whose EXIT trap is set.                                         *)

\* The calls of certain kinds among the first n.
KindsIn(st, K, n) == {i \in 1 .. n : st[i].kind \in K}
Count(st, K, n)   == Cardinality(KindsIn(st, K, n))

\* The Shell s of a process whose calls are the first n frames of st says
\* what these are.  After an escape nothing is known of the context.
Context(st, s, n) ==
  ~s.escaped =>
    /\ s.tested => InCondition(st, n)
    /\ s.loopDepth = Count(st, Loops, n)
    /\ s.scopes = Count(st, {"Func"}, n)
    /\ \A j \in 1 .. n : st[j].at = "cond" /\ st[j].saved => InCondition(st, j - 1)

Faithful(st, s, n) ==
  /\ s.evExit => \A j \in (s.self + 1) .. n : st[j].kind \in {"eval", "dot", "ExitTrap"}
  /\ st[s.self].kind \in {"Program", "Subshell"} => s.exitTrap \in {0, s.self}
  /\ Context(st, s, n)

\* What holds of a stack whatever its processes do: where frames of a kind
\* are, and that the waiting parents are faithful.
Settled(st) ==
  /\ \A i \in 1 .. Len(st) :
       /\ st[i].at = "script" => st[i].kind \in {"eval", "dot"}
       /\ st[i].at = "head" => st[i].kind \in Loops
  /\ \A i \in 1 .. Len(st) : st[i].at = "child" => Faithful(st, st[i].parent, i - 1)

Jumps(r) == r.tag \in {"Break", "Continue"}

CInv ==
  /\ Settled(stack)
  /\ Faithful(stack, sh, Len(stack))
  /\ mode = "between" => Top.at = "main"
  /\ mode = "ret" /\ Jumps(res) /\ ~sh.escaped => res.n \in 1 .. Count(stack, Loops, Len(stack))

\* t differs from s in nothing the invariant speaks of.
SameContext(t, s) ==
  /\ t.self = s.self /\ t.evExit = s.evExit /\ t.exitTrap = s.exitTrap
  /\ t.escaped = s.escaped /\ t.tested = s.tested
  /\ t.loopDepth = s.loopDepth /\ t.scopes = s.scopes

-----------------------------------------------------------------------------
(* Counting frames, and stacks that agree.                                  *)

\* One frame more counts if it is of the kind.
LEMMA CountNext ==
  ASSUME NEW st, NEW K, NEW n \in Nat
  PROVE  /\ Count(st, K, n) \in Nat
         /\ Count(st, K, n + 1) = Count(st, K, n) + (IF st[n + 1].kind \in K THEN 1 ELSE 0)
<1>1. IsFiniteSet(1 .. n)
  BY FS_Interval
<1>2. KindsIn(st, K, n) \subseteq 1 .. n
  BY DEF KindsIn
<1>3. IsFiniteSet(KindsIn(st, K, n))
  BY <1>1, <1>2, FS_Subset
<1>4. Count(st, K, n) \in Nat
  BY <1>3, FS_CardinalityType DEF Count
<1>5. CASE st[n + 1].kind \in K
  <2>1. KindsIn(st, K, n + 1) = KindsIn(st, K, n) \cup {n + 1}
    BY <1>5 DEF KindsIn
  <2>2. n + 1 \notin KindsIn(st, K, n)
    BY DEF KindsIn
  <2>3. Cardinality(KindsIn(st, K, n) \cup {n + 1}) = Cardinality(KindsIn(st, K, n)) + 1
    BY <1>3, <2>2, FS_AddElement
  <2> QED BY <1>4, <1>5, <2>1, <2>3 DEF Count
<1>6. CASE st[n + 1].kind \notin K
  <2>1. KindsIn(st, K, n + 1) = KindsIn(st, K, n)
    BY <1>6 DEF KindsIn
  <2> QED BY <1>4, <1>6, <2>1 DEF Count
<1> QED BY <1>4, <1>5, <1>6

\* Stacks whose first n frames agree.
Agree(st, u, n) ==
  \A i \in 1 .. n : u[i].kind = st[i].kind /\ u[i].at = st[i].at /\ u[i].saved = st[i].saved

\* A Shell is faithful to a stack by virtue of the frames of its process.
LEMMA FaithfulAgrees ==
  ASSUME NEW st, NEW u, NEW n \in Nat, NEW s, s.self \in 1 .. n,
         Agree(st, u, n), Faithful(st, s, n)
  PROVE  Faithful(u, s, n)
<1>1. \A K : KindsIn(u, K, n) = KindsIn(st, K, n)
  BY DEF KindsIn, Agree
<1>2. \A j \in 0 .. n : InCondition(u, j) <=> InCondition(st, j)
  BY DEF InCondition, Agree
<1>3. Count(u, Loops, n) = Count(st, Loops, n) /\ Count(u, {"Func"}, n) = Count(st, {"Func"}, n)
  BY <1>1 DEF Count
<1>4. Context(u, s, n)
  <2> SUFFICES ASSUME ~s.escaped PROVE Context(u, s, n)
    BY DEF Context
  <2>1. /\ s.tested => InCondition(st, n)
        /\ s.loopDepth = Count(st, Loops, n) /\ s.scopes = Count(st, {"Func"}, n)
        /\ \A j \in 1 .. n : st[j].at = "cond" /\ st[j].saved => InCondition(st, j - 1)
    BY DEF Faithful, Context
  <2>2. s.tested => InCondition(u, n)
    BY <1>2, <2>1
  <2>3. \A j \in 1 .. n : u[j].at = "cond" /\ u[j].saved => InCondition(u, j - 1)
    BY <1>2, <2>1 DEF Agree
  <2> QED BY <1>3, <2>1, <2>2, <2>3 DEF Context
<1>5. s.evExit => \A j \in (s.self + 1) .. n : u[j].kind \in {"eval", "dot", "ExitTrap"}
  BY DEF Faithful, Agree
<1>6. u[s.self].kind \in {"Program", "Subshell"} => s.exitTrap \in {0, s.self}
  BY DEF Faithful, Agree
<1> QED BY <1>4, <1>5, <1>6 DEF Faithful

\* The frames in place keep what is settled of them; a new one brings its own.
LEMMA SettledStep ==
  ASSUME NEW st, NEW s, NEW u \in Seq(FrameRec), StackInv(st, s), Settled(st),
         NEW n \in Nat, n <= Len(st), n <= Len(u), Len(u) <= n + 1,
         \A i \in 1 .. n : u[i] = st[i],
         \A i \in (n + 1) .. Len(u) :
           /\ u[i].at = "script" => u[i].kind \in {"eval", "dot"}
           /\ u[i].at = "head" => u[i].kind \in Loops
           /\ u[i].at = "child" => /\ u[i].parent.self \in 1 .. n
                                   /\ n = Len(st)
                                   /\ Faithful(st, u[i].parent, n)
  PROVE  Settled(u)
<1>0. Len(st) \in Nat /\ Len(u) \in Nat
  BY DEF StackInv
<1>1. \A i \in 1 .. Len(u) : /\ u[i].at = "script" => u[i].kind \in {"eval", "dot"}
                             /\ u[i].at = "head" => u[i].kind \in Loops
  BY <1>0 DEF Settled
<1>2. ASSUME NEW i \in 1 .. Len(u), u[i].at = "child"
      PROVE  Faithful(u, u[i].parent, i - 1)
  <2>1. CASE i <= n
    <3>1. u[i].parent.self \in 1 .. (i - 1) /\ Faithful(st, u[i].parent, i - 1)
      <4>1. i \in 1 .. Len(st) /\ u[i] = st[i] /\ st[i].at = "child"
        BY <1>0, <1>2, <2>1
      <4>2. Faithful(st, st[i].parent, i - 1)
        BY <4>1 DEF Settled
      <4>3. Own(st, st[i].parent, i - 1)
        BY <4>1 DEF StackInv
      <4> QED BY <4>1, <4>2, <4>3 DEF Own
    <3>2. Agree(st, u, i - 1) /\ i - 1 \in Nat
      BY <1>0, <2>1 DEF Agree
    <3> QED BY <3>1, <3>2, FaithfulAgrees
  <2>2. CASE i = n + 1
    <3>1. u[i].parent.self \in 1 .. n /\ Faithful(st, u[i].parent, n) /\ i - 1 = n
      BY <1>0, <1>2, <2>2
    <3>2. Agree(st, u, n)
      BY DEF Agree
    <3> QED BY <3>1, <3>2, FaithfulAgrees
  <2> QED BY <1>0, <2>1, <2>2
<1> QED BY <1>1, <1>2 DEF Settled

-----------------------------------------------------------------------------
(* What a step may do to the Shell so that it stays faithful.               *)

\* The same calls, and a Shell that says less or the same of them.
LEMMA FaithfulSame ==
  ASSUME NEW st, NEW s, NEW t, NEW n \in Nat, Faithful(st, s, n),
         t.self = s.self, t.evExit => s.evExit, t.exitTrap \in {0, s.exitTrap, s.self},
         t.escaped \/ (~s.escaped /\ t.tested = s.tested
                       /\ t.loopDepth = s.loopDepth /\ t.scopes = s.scopes)
  PROVE  Faithful(st, t, n)
<1>1. Context(st, t, n)
  BY DEF Faithful, Context
<1>2. t.evExit => \A j \in (t.self + 1) .. n : st[j].kind \in {"eval", "dot", "ExitTrap"}
  BY DEF Faithful
<1>3. st[t.self].kind \in {"Program", "Subshell"} => t.exitTrap \in {0, t.self}
  BY DEF Faithful
<1> QED BY <1>1, <1>2, <1>3 DEF Faithful

\* How many calls of a kind there are after one of a certain kind.
Added(kind, K) == IF kind \in K THEN 1 ELSE 0

\* One call more on top, in the same process.
LEMMA FaithfulPush ==
  ASSUME NEW st, NEW u, NEW s, NEW t, NEW n \in Nat, Faithful(st, s, n),
         s.self \in 1 .. n, \A i \in 1 .. n : u[i] = st[i],
         t.self = s.self, t.exitTrap \in {0, s.exitTrap},
         t.evExit => s.evExit /\ u[n + 1].kind \in {"eval", "dot", "ExitTrap"},
         t.escaped \/ (/\ ~s.escaped
                       /\ t.tested => s.tested \/ u[n + 1].at = "cond"
                       /\ t.loopDepth = s.loopDepth + Added(u[n + 1].kind, Loops)
                       /\ t.scopes = s.scopes + Added(u[n + 1].kind, {"Func"})
                       /\ u[n + 1].at = "cond" /\ u[n + 1].saved => s.tested)
  PROVE  Faithful(u, t, n + 1)
<1>0. Faithful(u, s, n)
  <2>1. Agree(st, u, n)
    BY DEF Agree
  <2> QED BY <2>1, FaithfulAgrees
<1>1. Context(u, t, n + 1)
  <2> SUFFICES ASSUME ~t.escaped PROVE Context(u, t, n + 1)
    BY DEF Context
  <2>1. /\ s.tested => InCondition(u, n)
        /\ s.loopDepth = Count(u, Loops, n) /\ s.scopes = Count(u, {"Func"}, n)
        /\ \A j \in 1 .. n : u[j].at = "cond" /\ u[j].saved => InCondition(u, j - 1)
    BY <1>0 DEF Faithful, Context
  <2>2. t.tested => InCondition(u, n + 1)
    BY <2>1 DEF InCondition
  <2>3. t.loopDepth = Count(u, Loops, n + 1) /\ t.scopes = Count(u, {"Func"}, n + 1)
    <3>1. Count(u, Loops, n + 1) = Count(u, Loops, n) + Added(u[n + 1].kind, Loops)
      BY CountNext DEF Added
    <3>2. Count(u, {"Func"}, n + 1) = Count(u, {"Func"}, n) + Added(u[n + 1].kind, {"Func"})
      BY CountNext DEF Added
    <3> QED BY <2>1, <3>1, <3>2
  <2>4. \A j \in 1 .. (n + 1) : u[j].at = "cond" /\ u[j].saved => InCondition(u, j - 1)
    <3> SUFFICES ASSUME NEW j \in 1 .. (n + 1), u[j].at = "cond", u[j].saved
                 PROVE  InCondition(u, j - 1)
      OBVIOUS
    <3>1. CASE j \in 1 .. n
      BY <2>1, <3>1
    <3>2. CASE j = n + 1
      BY <2>1, <3>2
    <3> QED BY <3>1, <3>2
  <2> QED BY <2>2, <2>3, <2>4 DEF Context
<1>2. t.evExit => \A j \in (t.self + 1) .. (n + 1) : u[j].kind \in {"eval", "dot", "ExitTrap"}
  BY <1>0 DEF Faithful
<1>3. u[t.self].kind \in {"Program", "Subshell"} => t.exitTrap \in {0, t.self}
  BY <1>0 DEF Faithful
<1> QED BY <1>1, <1>2, <1>3 DEF Faithful

\* A child begins: its frame is of none of the kinds that are counted.
LEMMA FaithfulFork ==
  ASSUME NEW st, NEW u, NEW s, NEW t, NEW n \in Nat, Faithful(st, s, n),
         s.self \in 1 .. n, \A i \in 1 .. n : u[i] = st[i],
         u[n + 1].kind \in {"Subshell", "Pipeline", "comsub"}, u[n + 1].at = "child",
         t.self = n + 1, u[n + 1].kind = "Subshell" => t.exitTrap = 0,
         t.escaped = s.escaped, t.tested = s.tested,
         t.loopDepth = s.loopDepth, t.scopes = s.scopes
  PROVE  Faithful(u, t, n + 1)
<1>0. Faithful(u, s, n)
  <2>1. Agree(st, u, n)
    BY DEF Agree
  <2> QED BY <2>1, FaithfulAgrees
<1>1. Context(u, t, n + 1)
  <2> SUFFICES ASSUME ~t.escaped PROVE Context(u, t, n + 1)
    BY DEF Context
  <2>1. /\ s.tested => InCondition(u, n)
        /\ s.loopDepth = Count(u, Loops, n) /\ s.scopes = Count(u, {"Func"}, n)
        /\ \A j \in 1 .. n : u[j].at = "cond" /\ u[j].saved => InCondition(u, j - 1)
    BY <1>0 DEF Faithful, Context
  <2>2. t.tested => InCondition(u, n + 1)
    BY <2>1 DEF InCondition
  <2>3. Count(u, Loops, n + 1) = Count(u, Loops, n) /\ Count(u, Loops, n) \in Nat
    BY CountNext DEF Loops
  <2>4. Count(u, {"Func"}, n + 1) = Count(u, {"Func"}, n) /\ Count(u, {"Func"}, n) \in Nat
    BY CountNext
  <2>5. \A j \in 1 .. (n + 1) : u[j].at = "cond" /\ u[j].saved => InCondition(u, j - 1)
    <3> SUFFICES ASSUME NEW j \in 1 .. (n + 1), u[j].at = "cond", u[j].saved
                 PROVE  InCondition(u, j - 1)
      OBVIOUS
    <3>1. j \in 1 .. n
      OBVIOUS
    <3> QED BY <2>1, <3>1
  <2> QED BY <2>1, <2>2, <2>3, <2>4, <2>5 DEF Context
<1>2. \A j \in (t.self + 1) .. (n + 1) : u[j].kind \in {"eval", "dot", "ExitTrap"}
  OBVIOUS
<1>3. u[t.self].kind \in {"Program", "Subshell"} => t.exitTrap \in {0, t.self}
  OBVIOUS
<1> QED BY <1>1, <1>2, <1>3 DEF Faithful

\* The top call is over, in the same process.
LEMMA FaithfulPop ==
  ASSUME NEW st, NEW s, NEW t, NEW n \in Nat, Faithful(st, s, n + 1),
         s.self \in 1 .. n, t.self = s.self, t.exitTrap \in {0, s.exitTrap},
         t.evExit => s.evExit,
         t.escaped \/ (/\ ~s.escaped
                       /\ t.tested => InCondition(st, n)
                       /\ t.loopDepth = s.loopDepth - Added(st[n + 1].kind, Loops)
                       /\ t.scopes = s.scopes - Added(st[n + 1].kind, {"Func"}))
  PROVE  Faithful(st, t, n)
<1>1. Context(st, t, n)
  <2> SUFFICES ASSUME ~t.escaped PROVE Context(st, t, n)
    BY DEF Context
  <2>1. /\ s.loopDepth = Count(st, Loops, n + 1) /\ s.scopes = Count(st, {"Func"}, n + 1)
        /\ \A j \in 1 .. (n + 1) : st[j].at = "cond" /\ st[j].saved => InCondition(st, j - 1)
    BY DEF Faithful, Context
  <2>2. /\ Count(st, Loops, n + 1) = Count(st, Loops, n) + Added(st[n + 1].kind, Loops)
        /\ Count(st, Loops, n) \in Nat
    BY CountNext DEF Added
  <2>3. /\ Count(st, {"Func"}, n + 1) = Count(st, {"Func"}, n) + Added(st[n + 1].kind, {"Func"})
        /\ Count(st, {"Func"}, n) \in Nat
    BY CountNext DEF Added
  <2>4. \A kind, K : Added(kind, K) \in Int
    BY DEF Added
  <2>5. t.loopDepth = Count(st, Loops, n) /\ t.scopes = Count(st, {"Func"}, n)
    BY <2>1, <2>2, <2>3, <2>4
  <2> QED BY <2>1, <2>5 DEF Context
<1>2. t.evExit => \A j \in (t.self + 1) .. n : st[j].kind \in {"eval", "dot", "ExitTrap"}
  BY DEF Faithful
<1>3. st[t.self].kind \in {"Program", "Subshell"} => t.exitTrap \in {0, t.self}
  BY DEF Faithful
<1> QED BY <1>1, <1>2, <1>3 DEF Faithful

\* The top call goes on to its next part.
LEMMA FaithfulTop ==
  ASSUME NEW st, NEW u, NEW s, NEW t, NEW n \in Nat, Faithful(st, s, n + 1),
         s.self \in 1 .. n, \A i \in 1 .. n : u[i] = st[i],
         u[n + 1].kind = st[n + 1].kind,
         t.self = s.self, t.exitTrap = s.exitTrap, t.evExit = s.evExit,
         t.escaped = s.escaped, t.loopDepth = s.loopDepth, t.scopes = s.scopes,
         ~t.escaped => /\ t.tested => u[n + 1].at = "cond" \/ InCondition(st, n)
                       /\ u[n + 1].at = "cond" /\ u[n + 1].saved => InCondition(st, n)
  PROVE  Faithful(u, t, n + 1)
<1>1. \A K : KindsIn(u, K, n + 1) = KindsIn(st, K, n + 1)
  BY DEF KindsIn
<1>2. \A j \in 0 .. n : InCondition(u, j) <=> InCondition(st, j)
  BY DEF InCondition
<1>3. Context(u, t, n + 1)
  <2> SUFFICES ASSUME ~t.escaped PROVE Context(u, t, n + 1)
    BY DEF Context
  <2>1. /\ s.loopDepth = Count(st, Loops, n + 1) /\ s.scopes = Count(st, {"Func"}, n + 1)
        /\ \A j \in 1 .. (n + 1) : st[j].at = "cond" /\ st[j].saved => InCondition(st, j - 1)
    BY DEF Faithful, Context
  <2>2. t.loopDepth = Count(u, Loops, n + 1) /\ t.scopes = Count(u, {"Func"}, n + 1)
    BY <1>1, <2>1 DEF Count
  <2>3. t.tested => InCondition(u, n + 1)
    BY DEF InCondition
  <2>4. \A j \in 1 .. (n + 1) : u[j].at = "cond" /\ u[j].saved => InCondition(u, j - 1)
    <3> SUFFICES ASSUME NEW j \in 1 .. (n + 1), u[j].at = "cond", u[j].saved
                 PROVE  InCondition(u, j - 1)
      OBVIOUS
    <3>1. CASE j \in 1 .. n
      BY <1>2, <2>1, <3>1
    <3>2. CASE j = n + 1
      BY <1>2, <3>2
    <3> QED BY <3>1, <3>2
  <2> QED BY <2>2, <2>3, <2>4 DEF Context
<1>4. t.evExit => \A j \in (t.self + 1) .. (n + 1) : u[j].kind \in {"eval", "dot", "ExitTrap"}
  <2>1. s.evExit => \A j \in (s.self + 1) .. (n + 1) : st[j].kind \in {"eval", "dot", "ExitTrap"}
    BY DEF Faithful
  <2>2. \A j \in (s.self + 1) .. (n + 1) : u[j].kind = st[j].kind
    OBVIOUS
  <2> QED BY <2>1, <2>2
<1>5. u[t.self].kind \in {"Program", "Subshell"} => t.exitTrap \in {0, t.self}
  BY DEF Faithful
<1> QED BY <1>3, <1>4, <1>5 DEF Faithful

-----------------------------------------------------------------------------
(* What the ways a call ends or begins preserve.                            *)

\* What the proofs of the actions use of the two invariants.
LEMMA CFacts ==
  ASSUME IInv, CInv
  PROVE  /\ StackInv(stack, sh) /\ Settled(stack) /\ Faithful(stack, sh, Len(stack))
         /\ stack \in Seq(FrameRec) /\ Len(stack) \in Nat /\ Len(stack) >= 1
         /\ sh \in ShellRec /\ sh.self \in 1 .. Len(stack)
         /\ res \in ResultRec /\ res.n \in Int
         /\ Top \in FrameRec /\ Top = stack[Len(stack)]
         /\ Top.at \notin {"main", "child"} => sh.self \in 1 .. (Len(stack) - 1) /\ Len(stack) >= 2
  BY InvFacts DEF IInv, CInv, StackInv, Own, Top

\* eval_command touches only $?, and what it returns jumps if the command did.
LEMMA CompleteContext ==
  ASSUME NEW k, NEW r \in ResultRec, NEW s \in ShellRec, Complete(k, r, s)
  PROVE  /\ SameContext(sh', s) /\ mode' = "ret"
         /\ Jumps(res') => res' = r
<1>1. CASE r.tag = "Ok"
  <2>1. sh' = [s EXCEPT !.status = r.n]
    BY <1>1 DEF Complete
  <2>2. SameContext(sh', s)
    BY <2>1 DEF SameContext, ShellRec
  <2>3. ~Jumps(res') /\ mode' = "ret"
    BY <1>1 DEF Complete, Err, Jumps
  <2> QED BY <2>2, <2>3
<1>2. CASE r.tag # "Ok"
  BY <1>2 DEF Complete, SameContext
<1> QED BY <1>1, <1>2

\* A Shell that differs in nothing the invariant speaks of is as faithful.
LEMMA FaithfulStatus ==
  ASSUME NEW st, NEW s, NEW t, NEW n, Faithful(st, s, n), SameContext(t, s)
  PROVE  Faithful(st, t, n)
  BY DEF Faithful, Context, SameContext

\* A command that needs no call of its own.
LEMMA StayContext ==
  ASSUME IInv, CInv, NEW k, NEW r \in ResultRec, NEW s \in ShellRec, Stay(k, r, s),
         Faithful(stack, s, Len(stack)),
         Jumps(r) /\ ~s.escaped => r.n \in 1 .. Count(stack, Loops, Len(stack))
  PROVE  CInv'
<1>1. SameContext(sh', s) /\ mode' = "ret" /\ (Jumps(res') => res' = r) /\ stack' = stack
  BY CompleteContext DEF Stay
<1>2. Faithful(stack, sh', Len(stack))
  BY <1>1, FaithfulStatus
<1> QED BY <1>1, <1>2 DEF CInv, SameContext

\* The stack without its last calls.
LEMMA Shortened ==
  ASSUME IInv, CInv, NEW n \in 1 .. (Len(stack) - 1)
  PROVE  LET u == SubSeq(stack, 1, n)
         IN  /\ Settled(u) /\ u \in Seq(FrameRec) /\ Len(u) = n
             /\ Agree(stack, u, n) /\ Count(u, Loops, n) = Count(stack, Loops, n)
<1> DEFINE u == SubSeq(stack, 1, n)
<1>1. /\ StackInv(stack, sh) /\ Settled(stack) /\ stack \in Seq(FrameRec)
      /\ Len(stack) \in Nat /\ n \in Nat
  BY CFacts
<1>2. u \in Seq(FrameRec) /\ Len(u) = n /\ \A i \in 1 .. n : u[i] = stack[i]
  BY <1>1, SubSeqProperties
<1> HIDE DEF u
<1>3. Settled(u)
  BY <1>1, <1>2, SettledStep
<1>4. Agree(stack, u, n) /\ Count(u, Loops, n) = Count(stack, Loops, n)
  BY <1>2 DEF Agree, Count, KindsIn
<1> QED BY <1>2, <1>3, <1>4 DEF u

\* A call that is over.
LEMMA LeaveContext ==
  ASSUME IInv, CInv, NEW k, NEW r \in ResultRec, NEW s \in ShellRec, Leave(k, r, s),
         Top.at \notin {"main", "child"}, s.self = sh.self,
         Faithful(stack, s, Len(stack) - 1),
         Jumps(r) /\ ~s.escaped => r.n \in 1 .. Count(stack, Loops, Len(stack) - 1)
  PROVE  CInv'
<1> DEFINE n == Len(stack) - 1
<1>0. Len(stack) \in Nat /\ n \in 1 .. (Len(stack) - 1) /\ n \in Nat /\ s.self \in 1 .. n
  BY CFacts
<1>1. SameContext(sh', s) /\ mode' = "ret" /\ (Jumps(res') => res' = r)
  BY CompleteContext DEF Leave
<1>2. stack' = SubSeq(stack, 1, n)
  BY DEF Leave, Below
<1> HIDE DEF n
<1>3. /\ Settled(stack') /\ Len(stack') = n /\ Agree(stack, stack', n)
      /\ Count(stack', Loops, n) = Count(stack, Loops, n)
  BY <1>0, <1>2, Shortened
<1>4. Faithful(stack', s, n)
  BY <1>0, <1>3, FaithfulAgrees DEF n
<1>5. Faithful(stack', sh', n)
  BY <1>1, <1>4, FaithfulStatus
<1> QED BY <1>1, <1>3, <1>5 DEF CInv, SameContext, n

\* A new call.
LEMMA EnterContext ==
  ASSUME IInv, CInv, NEW f \in FrameRec, stack' = Append(stack, f),
         mode' \notin {"ret", "between"},
         f.at = "script" => f.kind \in {"eval", "dot"},
         f.at = "head" => f.kind \in Loops,
         f.at = "child" => /\ f.parent.self = sh.self
                           /\ Faithful(stack, f.parent, Len(stack)),
         Faithful(stack', sh', Len(stack) + 1)
  PROVE  CInv'
<1>1. /\ StackInv(stack, sh) /\ Settled(stack) /\ stack \in Seq(FrameRec)
      /\ Len(stack) \in Nat /\ sh.self \in 1 .. Len(stack)
  BY CFacts
<1>2. /\ stack' \in Seq(FrameRec) /\ Len(stack') = Len(stack) + 1
      /\ \A i \in 1 .. Len(stack) : stack'[i] = stack[i]
      /\ stack'[Len(stack) + 1] = f
  BY <1>1
<1>3. Settled(stack')
  <2> DEFINE n == Len(stack)
  <2>1. \A i \in (n + 1) .. Len(stack') : stack'[i] = f
    BY <1>1, <1>2
  <2>2. /\ n \in Nat /\ n <= Len(stack) /\ n <= Len(stack') /\ Len(stack') <= n + 1
        /\ n = Len(stack) /\ \A i \in 1 .. n : stack'[i] = stack[i]
    BY <1>1, <1>2
  <2> HIDE DEF n
  <2>3. \A i \in (n + 1) .. Len(stack') :
          /\ stack'[i].at = "script" => stack'[i].kind \in {"eval", "dot"}
          /\ stack'[i].at = "head" => stack'[i].kind \in Loops
          /\ stack'[i].at = "child" => /\ stack'[i].parent.self \in 1 .. n
                                       /\ n = Len(stack)
                                       /\ Faithful(stack, stack'[i].parent, n)
    BY <1>1, <2>1, <2>2
  <2> QED BY <1>1, <1>2, <2>2, <2>3, SettledStep
<1> QED BY <1>2, <1>3 DEF CInv

\* The next part of a call.
LEMMA ProceedContext ==
  ASSUME IInv, CInv, NEW f \in FrameRec, stack' = Retop(f),
         mode' \notin {"ret", "between"},
         f.at # "child",
         f.at = "script" => f.kind \in {"eval", "dot"},
         f.at = "head" => f.kind \in Loops,
         Faithful(stack', sh', Len(stack))
  PROVE  CInv'
<1> DEFINE n == Len(stack) - 1
<1>1. /\ StackInv(stack, sh) /\ Settled(stack) /\ stack \in Seq(FrameRec)
      /\ Len(stack) \in Nat /\ Len(stack) >= 1 /\ n \in Nat
  BY CFacts
<1>2. /\ stack' \in Seq(FrameRec) /\ Len(stack') = Len(stack)
      /\ \A i \in 1 .. n : stack'[i] = stack[i]
      /\ stack'[Len(stack)] = f
  BY <1>1 DEF Retop
<1>3. Settled(stack')
  <2>1. \A i \in (n + 1) .. Len(stack') : stack'[i] = f
    BY <1>1, <1>2
  <2> HIDE DEF n
  <2>2. n <= Len(stack) /\ n <= Len(stack') /\ Len(stack') <= n + 1
    BY <1>1, <1>2 DEF n
  <2> QED BY <1>1, <1>2, <2>1, <2>2, SettledStep
<1> QED BY <1>2, <1>3 DEF CInv

\* A process that is over: its parent's Shell is back.
LEMMA GoneContext ==
  ASSUME IInv, CInv, NEW i \in 1 .. Len(stack), stack[i].at = "child",
         stack' = SubSeq(stack, 1, i - 1), mode' # "between",
         SameContext(sh', stack[i].parent), ~(mode' = "ret" /\ Jumps(res'))
  PROVE  CInv'
<1>0. /\ Len(stack) \in Nat /\ i # 1
      /\ stack[i].parent.self \in 1 .. (i - 1) /\ Faithful(stack, stack[i].parent, i - 1)
  BY CFacts DEF StackInv, Own, Settled
<1> DEFINE n == i - 1
<1>1. n \in 1 .. (Len(stack) - 1) /\ n \in Nat
  BY <1>0
<1>2. Settled(stack') /\ Len(stack') = n /\ Agree(stack, stack', n)
  BY <1>1, Shortened
<1>3. Faithful(stack', stack[i].parent, n)
  BY <1>0, <1>1, <1>2, FaithfulAgrees
<1>4. Faithful(stack', sh', n)
  BY <1>3, FaithfulStatus
<1> QED BY <1>2, <1>4 DEF CInv

\* A wait that has missed its child.
LEMMA MarkContext ==
  ASSUME IInv, CInv, NEW i \in 1 .. Len(stack), ParentMisses(i)
  PROVE  CInv'
<1>1. stack \in Seq(FrameRec) /\ Len(stack) \in Nat /\ Len(stack) >= 1
  BY DEF IInv, StackInv
<1>2. /\ Len(stack') = Len(stack)
      /\ \A j \in 1 .. Len(stack) :
           /\ stack'[j].at = stack[j].at /\ stack'[j].kind = stack[j].kind
           /\ stack'[j].saved = stack[j].saved /\ stack'[j].parent = stack[j].parent
  BY <1>1, MarkFrame DEF ParentMisses
<1>3. \A n \in Nat : n <= Len(stack) => Agree(stack, stack', n)
  BY <1>1, <1>2 DEF Agree
<1>4. UNCHANGED <<sh, mode, res>>
  BY DEF ParentMisses
<1>5. Faithful(stack', sh, Len(stack))
  BY <1>1, <1>3, FaithfulAgrees DEF CInv, IInv, StackInv, Own
<1>6. ASSUME NEW j \in 1 .. Len(stack), stack[j].at = "child"
      PROVE  Faithful(stack', stack[j].parent, j - 1)
  <2>1. stack[j].parent.self \in 1 .. (j - 1) /\ Faithful(stack, stack[j].parent, j - 1)
    BY <1>6 DEF CInv, Settled, IInv, StackInv, Own
  <2> QED BY <1>1, <1>3, <2>1, FaithfulAgrees
<1>7. Settled(stack')
  BY <1>2, <1>6 DEF CInv, Settled
<1>8. Count(stack', Loops, Len(stack)) = Count(stack, Loops, Len(stack))
  BY <1>1, <1>2 DEF Count, KindsIn
<1> QED BY <1>1, <1>2, <1>4, <1>5, <1>7, <1>8 DEF CInv, Top

\* The end of a child, whichever way its parent waited for it.
LEMMA ProcessEndsContext ==
  ASSUME IInv, CInv, NEW c \in Int, sh.self # 1, ProcessEnds(c)
  PROVE  CInv'
<1> DEFINE f == stack[sh.self]
<1>1. sh.self \in 1 .. Len(stack) /\ f.at = "child"
  BY DEF IInv, StackInv, Own
<1>2. f.parent \in ShellRec
  BY <1>1, FrameShape DEF IInv, StackInv
<1>3. Reported(f, Ok(c)) \in ResultRec
  BY ResultShape DEF Tags, Reported
<1>4. stack' = SubSeq(stack, 1, sh.self - 1)
  BY DEF ProcessEnds
<1>5. /\ SameContext(sh', f.parent) /\ mode' # "between"
      /\ ~(mode' = "ret" /\ Jumps(res'))
  <2>1. CASE Complete(f.kind, Reported(f, Ok(c)), f.parent)
    <3>1. ~Jumps(Reported(f, Ok(c)))
      BY DEF Jumps, Ok, Err, Reported
    <3> QED BY <2>1, <3>1, <1>2, <1>3, CompleteContext
  <2>2. CASE sh' = [f.parent EXCEPT !.status = c] /\ mode' = "simple"
    BY <2>2, <1>2 DEF ShellRec, SameContext
  <2>3. CASE sh' = f.parent /\ mode' = "simple"
    BY <2>3 DEF SameContext
  <2> QED BY <2>1, <2>2, <2>3 DEF ProcessEnds
<1> QED BY <1>1, <1>4, <1>5, GoneContext

\* A new call in the same process.
LEMMA CallContext ==
  ASSUME IInv, CInv, NEW f \in FrameRec, stack' = Append(stack, f),
         mode' \notin {"ret", "between"}, f.at # "child",
         f.at = "script" => f.kind \in {"eval", "dot"},
         f.at = "head" => f.kind \in Loops,
         sh'.self = sh.self, sh'.exitTrap \in {0, sh.exitTrap},
         sh'.evExit => sh.evExit /\ f.kind \in {"eval", "dot", "ExitTrap"},
         sh'.escaped \/ (/\ ~sh.escaped
                         /\ sh'.tested => sh.tested \/ f.at = "cond"
                         /\ sh'.loopDepth = sh.loopDepth + Added(f.kind, Loops)
                         /\ sh'.scopes = sh.scopes + Added(f.kind, {"Func"})
                         /\ f.at = "cond" /\ f.saved => sh.tested)
  PROVE  CInv'
<1> DEFINE n == Len(stack)
<1>1. /\ Faithful(stack, sh, n) /\ stack \in Seq(FrameRec)
      /\ n \in Nat /\ sh.self \in 1 .. n
  BY CFacts
<1>2. (\A i \in 1 .. n : stack'[i] = stack[i]) /\ stack'[n + 1] = f
  BY <1>1
<1> HIDE DEF n
<1>3. Faithful(stack', sh', n + 1)
  BY <1>1, <1>2, FaithfulPush
<1> QED BY <1>3, EnterContext DEF n

\* What the Shell says of the calls below the top.
LEMMA BelowTop ==
  ASSUME IInv, CInv, ~sh.escaped
  PROVE  /\ sh.tested /\ Top.at # "cond" => InCondition(stack, Len(stack) - 1)
         /\ Top.at = "cond" /\ Top.saved => InCondition(stack, Len(stack) - 1)
<1>1. Faithful(stack, sh, Len(stack)) /\ Len(stack) \in Nat /\ Len(stack) >= 1 /\ Top = stack[Len(stack)]
  BY CFacts
<1>2. /\ sh.tested => InCondition(stack, Len(stack))
      /\ \A j \in 1 .. Len(stack) : stack[j].at = "cond" /\ stack[j].saved => InCondition(stack, j - 1)
  BY <1>1 DEF Faithful, Context
<1>3. Len(stack) \in 1 .. Len(stack)
  BY <1>1
<1>4. Top.at # "cond" /\ InCondition(stack, Len(stack)) => InCondition(stack, Len(stack) - 1)
  BY <1>1 DEF InCondition
<1> QED BY <1>1, <1>2, <1>3, <1>4

\* The number of loops around the top call.
LEMMA LoopsBelow ==
  ASSUME IInv, CInv
  PROVE  /\ Count(stack, Loops, Len(stack) - 1) \in Nat
         /\ Count(stack, Loops, Len(stack)) =
              Count(stack, Loops, Len(stack) - 1) + Added(Top.kind, Loops)
         /\ Added(Top.kind, Loops) \in Int
<1> DEFINE n == Len(stack) - 1
<1>1. n \in Nat /\ n + 1 = Len(stack) /\ Top = stack[n + 1]
  BY CFacts
<1> HIDE DEF n
<1>2. /\ Count(stack, Loops, n) \in Nat
      /\ Count(stack, Loops, n + 1) = Count(stack, Loops, n) + Added(Top.kind, Loops)
  <2>1. /\ Count(stack, Loops, n) \in Nat
        /\ Count(stack, Loops, n + 1) =
             Count(stack, Loops, n) + (IF stack[n + 1].kind \in Loops THEN 1 ELSE 0)
    <3>1. n \in Nat
      BY <1>1
    <3> QED BY <3>1, CountNext
  <2> QED BY <1>1, <2>1 DEF Added
<1>3. Added(Top.kind, Loops) \in Int
  BY DEF Added
<1> QED BY <1>1, <1>2, <1>3 DEF n

\* A call of this process is over, with a result that jumps no further than
\* the one it got, less the loop that has taken one.
LEMMA OverContext ==
  ASSUME IInv, CInv, NEW k, NEW r \in ResultRec, NEW s \in ShellRec, Leave(k, r, s),
         Top.at \notin {"main", "child"}, s.self = sh.self,
         s.exitTrap \in {0, sh.exitTrap}, s.evExit => sh.evExit,
         s.escaped \/ (/\ ~sh.escaped
                       /\ s.tested => InCondition(stack, Len(stack) - 1)
                       /\ s.loopDepth = sh.loopDepth - Added(Top.kind, Loops)
                       /\ s.scopes = sh.scopes - Added(Top.kind, {"Func"})),
         Jumps(r) /\ ~s.escaped => /\ mode = "ret" /\ Jumps(res)
                                   /\ r.n = res.n - Added(Top.kind, Loops) /\ r.n >= 1
  PROVE  CInv'
<1> DEFINE n == Len(stack) - 1
<1>1. /\ Faithful(stack, sh, Len(stack)) /\ n \in Nat /\ n + 1 = Len(stack)
      /\ Top = stack[n + 1] /\ sh.self \in 1 .. n /\ res.n \in Int
  BY CFacts
<1>2. Jumps(r) /\ ~s.escaped => r.n \in 1 .. Count(stack, Loops, Len(stack) - 1)
  <2> SUFFICES ASSUME Jumps(r), ~s.escaped
               PROVE  r.n \in 1 .. Count(stack, Loops, Len(stack) - 1)
    OBVIOUS
  <2>1. res.n \in 1 .. Count(stack, Loops, Len(stack))
    BY DEF CInv
  <2>2. r.n = res.n - Added(Top.kind, Loops) /\ r.n >= 1
    OBVIOUS
  <2> QED BY <1>1, <2>1, <2>2, LoopsBelow
<1> HIDE DEF n
<1>3. Faithful(stack, s, n)
  BY <1>1, FaithfulPop DEF n
<1> QED BY <1>2, <1>3, LeaveContext DEF n

\* A call of this process goes on to its next part.
LEMMA PartContext ==
  ASSUME IInv, CInv, NEW f \in FrameRec, stack' = Retop(f),
         mode' \notin {"ret", "between"},
         Top.at \notin {"main", "child"}, f.at # "child", f.kind = Top.kind,
         f.at = "script" => f.kind \in {"eval", "dot"},
         f.at = "head" => f.kind \in Loops,
         sh'.self = sh.self, sh'.exitTrap = sh.exitTrap, sh'.evExit = sh.evExit,
         sh'.escaped = sh.escaped, sh'.loopDepth = sh.loopDepth, sh'.scopes = sh.scopes,
         ~sh.escaped =>
           /\ sh'.tested => f.at = "cond" \/ InCondition(stack, Len(stack) - 1)
           /\ f.at = "cond" /\ f.saved => InCondition(stack, Len(stack) - 1)
  PROVE  CInv'
<1> DEFINE n == Len(stack) - 1
<1>1. /\ Faithful(stack, sh, Len(stack)) /\ n \in Nat /\ n + 1 = Len(stack)
      /\ Top = stack[n + 1] /\ sh.self \in 1 .. n /\ stack \in Seq(FrameRec)
      /\ Len(stack) \in Nat /\ Len(stack) >= 1
  BY CFacts
<1>2. (\A i \in 1 .. n : stack'[i] = stack[i]) /\ stack'[n + 1] = f
  <2>1. stack' = [stack EXCEPT ![Len(stack)] = f]
    BY DEF Retop
  <2> QED BY <1>1, <2>1
<1>3. ~sh.escaped => /\ sh'.tested => f.at = "cond" \/ InCondition(stack, n)
                     /\ f.at = "cond" /\ f.saved => InCondition(stack, n)
  OBVIOUS
<1> HIDE DEF n
<1>4. Faithful(stack', sh', n + 1)
  <2>1. stack'[n + 1].kind = stack[n + 1].kind /\ Faithful(stack, sh, n + 1)
    BY <1>1, <1>2
  <2>2. ~sh'.escaped =>
          /\ sh'.tested => stack'[n + 1].at = "cond" \/ InCondition(stack, n)
          /\ stack'[n + 1].at = "cond" /\ stack'[n + 1].saved => InCondition(stack, n)
    BY <1>2, <1>3
  <2> QED BY <1>1, <1>2, <2>1, <2>2, FaithfulTop
<1> QED BY <1>1, <1>4, ProceedContext

\* What NoExec leaves alone.
LEMMA NoExecContext ==
  ASSUME NEW s \in ShellRec
  PROVE  /\ NoExec(s) \in ShellRec /\ NoExec(s).evExit = FALSE
         /\ NoExec(s).self = s.self /\ NoExec(s).exitTrap = s.exitTrap
         /\ NoExec(s).escaped = s.escaped /\ NoExec(s).tested = s.tested
         /\ NoExec(s).loopDepth = s.loopDepth /\ NoExec(s).scopes = s.scopes
<1>1. NoExec(s) \in ShellRec
  BY NoExecShape
<1> QED BY <1>1 DEF NoExec, ShellRec

-----------------------------------------------------------------------------
(* One lemma for each group of actions.                                     *)

\* Commands that complete without a call of their own.
LEMMA AtOnceContext ==
  ASSUME IInv, CInv,
         \/ CancelledBefore
         \/ \E k \in {"Brace", "Case", "For"} : PlainFails(k)
         \/ \E k \in {"Case", "FuncDef"} : NothingToRun(k)
         \/ \E k \in {"Subshell", "Pipeline"} : ForkFails(k)
         \/ RunBackground
  PROVE  CInv'
<1>1. /\ Err("Cancelled", 0) \in ResultRec /\ Err("Error", 0) \in ResultRec
      /\ Ok(0) \in ResultRec /\ Ok(1) \in ResultRec
  BY ResultShape DEF Tags
<1>2. /\ ~Jumps(Err("Cancelled", 0)) /\ ~Jumps(Err("Error", 0))
      /\ ~Jumps(Ok(0)) /\ ~Jumps(Ok(1))
  BY DEF Jumps, Err, Ok
<1>3. /\ sh \in ShellRec /\ NoExec(sh) \in ShellRec
      /\ Faithful(stack, sh, Len(stack)) /\ Len(stack) \in Nat
  BY CFacts, NoExecContext
<1>4. Faithful(stack, NoExec(sh), Len(stack))
  BY <1>3, NoExecContext, FaithfulSame DEF ShellRec
<1>5. \A k : Stay(k, Err("Cancelled", 0), sh) => CInv'
  BY <1>1, <1>2, <1>3, StayContext
<1>6. \A k : \A r \in {Err("Error", 0), Ok(0), Ok(1)} : Stay(k, r, NoExec(sh)) => CInv'
  BY <1>1, <1>2, <1>3, <1>4, StayContext
<1> QED BY <1>5, <1>6 DEF CancelledBefore, PlainFails, NothingToRun, ForkFails, RunBackground

\* Commands that begin with a condition, a first command or a loop head.
LEMMA CompoundContext ==
  ASSUME IInv, CInv,
         \/ \E k \in Conditional : EnterConditional(k)
         \/ \E k \in Plain : EnterPlain(k)
         \/ \E k \in Loops : EnterLoop(k)
         \/ EnterInline
  PROVE  CInv'
<1>0. /\ sh \in ShellRec /\ NoExec(sh) \in ShellRec /\ NewShell \in ShellRec
      /\ sh.escaped \in BOOLEAN /\ sh.loopDepth \in Int /\ sh.scopes \in Int
  BY CFacts, NoExecContext, NewShellShape DEF ShellRec
<1>1. /\ NoExec(sh).evExit = FALSE
      /\ NoExec(sh).self = sh.self /\ NoExec(sh).exitTrap = sh.exitTrap
      /\ NoExec(sh).escaped = sh.escaped /\ NoExec(sh).tested = sh.tested
      /\ NoExec(sh).loopDepth = sh.loopDepth /\ NoExec(sh).scopes = sh.scopes
  BY <1>0, NoExecContext
<1>2. ASSUME NEW k \in Conditional, EnterConditional(k) PROVE CInv'
  <2> DEFINE f == Frame(k, "cond", 0, NewShell)
             s == [NoExec(sh) EXCEPT !.tested = TRUE]
  <2>1. f \in FrameRec /\ f.kind = k /\ f.at = "cond" /\ f.saved = sh.tested
    BY <1>0, NewFrame DEF Conditional, Kinds, Ats
  <2>2. /\ s.self = sh.self /\ s.exitTrap = sh.exitTrap /\ s.evExit = FALSE
        /\ s.escaped = sh.escaped /\ s.loopDepth = sh.loopDepth /\ s.scopes = sh.scopes
    BY <1>0, <1>1 DEF ShellRec
  <2>3. Added(k, Loops) = 0 /\ Added(k, {"Func"}) = 0
    BY DEF Added, Conditional, Loops
  <2>4. stack' = Append(stack, f) /\ sh' = s /\ mode' = "call"
    BY <1>2 DEF EnterConditional, Enter
  <2> HIDE DEF f, s
  <2> QED BY <2>1, <2>2, <2>3, <2>4, <1>0, CallContext
<1>3. ASSUME NEW k \in Plain, EnterPlain(k) PROVE CInv'
  <2> DEFINE f == Frame(k, IF k = "Seq" THEN "left" ELSE "body", 0, NewShell)
  <2>1. f \in FrameRec /\ f.kind = k /\ f.at \in {"left", "body"}
    BY <1>0, NewFrame DEF Plain, Kinds, Ats
  <2>2. Added(k, Loops) = 0 /\ Added(k, {"Func"}) = 0
    BY DEF Added, Plain, Loops
  <2>3. stack' = Append(stack, f) /\ sh' = NoExec(sh) /\ mode' = "call"
    BY <1>3 DEF EnterPlain, Enter
  <2> HIDE DEF f
  <2> QED BY <2>1, <2>2, <2>3, <1>0, <1>1, CallContext
<1>4. ASSUME NEW k \in Loops, EnterLoop(k) PROVE CInv'
  <2> DEFINE f == Frame(k, "head", 0, NewShell)
             s == [NoExec(sh) EXCEPT !.loopDepth = @ + 1]
  <2>1. f \in FrameRec /\ f.kind = k /\ f.at = "head"
    <3>1. k \in Kinds /\ "head" \in Ats
      BY DEF Loops, Kinds, Ats
    <3> QED BY <1>0, <3>1, NewFrame
  <2>2. /\ s.self = sh.self /\ s.exitTrap = sh.exitTrap /\ s.evExit = FALSE
        /\ s.escaped = sh.escaped /\ s.tested = sh.tested
        /\ s.loopDepth = sh.loopDepth + 1 /\ s.scopes = sh.scopes
    BY <1>0, <1>1 DEF ShellRec
  <2>3. Added(k, Loops) = 1 /\ Added(k, {"Func"}) = 0
    BY DEF Added, Loops
  <2>4. stack' = Append(stack, f) /\ sh' = s /\ mode' = "head"
    BY <1>4 DEF EnterLoop
  <2> HIDE DEF f, s
  <2> QED BY <2>1, <2>2, <2>3, <2>4, <1>0, CallContext
<1>5. CASE EnterInline
  <2> DEFINE f == Frame("Subshell", "body", 0, NewShell)
  <2>1. f \in FrameRec /\ f.kind = "Subshell" /\ f.at = "body"
    BY <1>0, NewFrame DEF Kinds, Ats
  <2>2. Added("Subshell", Loops) = 0 /\ Added("Subshell", {"Func"}) = 0
    BY DEF Added, Loops
  <2>3. stack' = Append(stack, f) /\ sh' = NoExec(sh) /\ mode' = "call"
    BY <1>5 DEF EnterInline, Enter
  <2> HIDE DEF f
  <2> QED BY <2>1, <2>2, <2>3, <1>0, <1>1, CallContext
<1> QED BY <1>2, <1>3, <1>4, <1>5

\* Forks: the child's Shell and the one its parent will go on with.
LEMMA ForkContext ==
  ASSUME IInv, CInv, (\E k \in {"Subshell", "Pipeline"} : EnterFork(k)) \/ EnterComsub
  PROVE  CInv'
<1>0. /\ sh \in ShellRec /\ NoExec(sh) \in ShellRec /\ Len(stack) \in Nat
      /\ stack \in Seq(FrameRec) /\ sh.self \in 1 .. Len(stack)
      /\ Faithful(stack, sh, Len(stack)) /\ sh.escaped \in BOOLEAN
  BY CFacts, NoExecContext DEF ShellRec
<1>1. ASSUME NEW k \in {"Subshell", "Pipeline", "comsub"}
      PROVE  /\ Child(k).self = Len(stack) + 1
             /\ k = "Subshell" => Child(k).exitTrap = 0
             /\ Child(k).escaped = sh.escaped /\ Child(k).tested = sh.tested
             /\ Child(k).loopDepth = sh.loopDepth /\ Child(k).scopes = sh.scopes
  BY <1>0 DEF Child, ShellRec, TrapDropped
<1>2. ASSUME NEW k \in {"Subshell", "Pipeline", "comsub"}, NEW p \in ShellRec,
             stack' = Append(stack, Frame(k, "child", 0, p)), sh' = Child(k), mode' = "call",
             p.self = sh.self, Faithful(stack, p, Len(stack))
      PROVE  CInv'
  <2> DEFINE f == Frame(k, "child", 0, p)
             n == Len(stack)
  <2>1. f \in FrameRec /\ f.kind = k /\ f.at = "child" /\ f.parent = p
    BY <1>0, NewFrame DEF Kinds, Ats
  <2>2. stack' = Append(stack, f)
    BY <1>2
  <2> HIDE DEF f
  <2>3. n \in Nat /\ (\A i \in 1 .. n : stack'[i] = stack[i]) /\ stack'[n + 1] = f
    BY <1>0, <2>2
  <2> HIDE DEF n
  <2>4. /\ sh'.self = n + 1
        /\ k = "Subshell" => sh'.exitTrap = 0
        /\ sh'.escaped = sh.escaped /\ sh'.tested = sh.tested
        /\ sh'.loopDepth = sh.loopDepth /\ sh'.scopes = sh.scopes
    BY <1>1, <1>2 DEF n
  <2>5. Faithful(stack, sh, n) /\ sh.self \in 1 .. n
    BY <1>0 DEF n
  <2>6. stack'[n + 1].kind = k /\ stack'[n + 1].at = "child"
    BY <2>1, <2>3
  <2>7. Faithful(stack', sh', n + 1)
    BY <2>3, <2>4, <2>5, <2>6, FaithfulFork
  <2> QED BY <1>2, <2>1, <2>2, <2>7, EnterContext DEF n
<1>3. Faithful(stack, NoExec(sh), Len(stack)) /\ NoExec(sh).self = sh.self
  BY <1>0, NoExecContext, FaithfulSame
<1>4. ASSUME NEW k \in {"Subshell", "Pipeline"}, EnterFork(k) PROVE CInv'
  BY <1>0, <1>2, <1>3, <1>4 DEF EnterFork, Enter, Parent
<1>5. CASE EnterComsub
  BY <1>0, <1>2, <1>5 DEF EnterComsub, Enter
<1> QED BY <1>4, <1>5

\* Simple commands.
LEMMA RunContext ==
  ASSUME IInv, CInv, Run \/ BeginSimple
  PROVE  CInv'
<1>0. /\ sh \in ShellRec /\ NoExec(sh) \in ShellRec /\ NewShell \in ShellRec
      /\ Faithful(stack, sh, Len(stack)) /\ Len(stack) \in Nat
      /\ sh.escaped \in BOOLEAN /\ sh.loopDepth \in Int /\ sh.scopes \in Int
      /\ sh.status \in Int /\ sh.self \in Int
  BY CFacts, NoExecContext, NewShellShape DEF ShellRec
<1>1. /\ NoExec(sh).evExit = FALSE
      /\ NoExec(sh).self = sh.self /\ NoExec(sh).exitTrap = sh.exitTrap
      /\ NoExec(sh).escaped = sh.escaped /\ NoExec(sh).tested = sh.tested
      /\ NoExec(sh).loopDepth = sh.loopDepth /\ NoExec(sh).scopes = sh.scopes
  BY <1>0, NoExecContext
<1>2. \A n \in Int : /\ Ok(n) \in ResultRec /\ ~Jumps(Ok(n))
                     /\ \A tag \in Tags : /\ Err(tag, n) \in ResultRec
                                          /\ Err(tag, n).n = n /\ Err(tag, n).tag = tag
  BY ResultShape DEF Jumps, Ok, Err, Tags
\* A builtin or an external command that neither jumps nor changes the Shell.
<1>3. \A r \in ResultRec : ~Jumps(r) /\ Stay("Simple", r, sh) => CInv'
  BY <1>0, StayContext
<1>4. \A n \in Int : \A tag \in Tags \ {"Break", "Continue"} :
        Stay("Simple", Ok(n), sh) \/ Stay("Simple", Err(tag, n), sh) => CInv'
  BY <1>2, <1>3 DEF Jumps
<1>5. CASE RunStatus \/ RunFails \/ RunCancelled
  BY <1>0, <1>4, <1>5 DEF RunStatus, RunFails, RunCancelled, Tags
<1>6. ASSUME NEW tag \in {"Break", "Continue"}, NEW name, RunJump(tag, name) PROVE CInv'
  <2>1. ASSUME sh.loopDepth > 0, NEW n \in 1 .. MaxLoops,
               Stay("Simple", Err(tag, AsManyAsThere(n)), sh)
        PROVE  CInv'
    <3>1. MaxLoops \in Int
      BY BoundsAssumption
    <3>2. AsManyAsThere(n) \in 1 .. sh.loopDepth
      BY <1>0, <2>1, <3>1 DEF AsManyAsThere
    <3>3. ~sh.escaped => sh.loopDepth = Count(stack, Loops, Len(stack))
      BY <1>0 DEF Faithful, Context
    <3> DEFINE r == Err(tag, AsManyAsThere(n))
    <3>4. r \in ResultRec /\ r.n = AsManyAsThere(n)
      BY <1>0, <1>2, <3>2 DEF Tags
    <3>5. Stay("Simple", r, sh)
      BY <2>1
    <3> HIDE DEF r
    <3>6. ~sh.escaped => r.n \in 1 .. Count(stack, Loops, Len(stack))
      BY <3>2, <3>3, <3>4
    <3> QED BY <1>0, <3>4, <3>5, <3>6, StayContext
  <2> QED BY <1>4, <1>6, <2>1 DEF RunJump, Tags
<1>7. ASSUME NEW tag \in {"Return", "Exit"}, NEW name, RunEnd(tag, name) PROVE CInv'
  BY <1>0, <1>4, <1>7 DEF RunEnd, Tags
\* A builtin that changes something of the Shell.
<1>8. ASSUME NEW s \in ShellRec, NEW r \in ResultRec, Stay("Simple", r, s), ~Jumps(r),
             s.self = sh.self, s.evExit => sh.evExit, s.exitTrap \in {0, sh.exitTrap, sh.self},
             s.escaped \/ (~sh.escaped /\ s.tested = sh.tested
                           /\ s.loopDepth = sh.loopDepth /\ s.scopes = sh.scopes)
      PROVE  CInv'
  <2>1. Faithful(stack, s, Len(stack))
    BY <1>0, <1>8, FaithfulSame
  <2> QED BY <1>8, <2>1, StayContext
<1>9. CASE RunSet
  <2> PICK b \in BOOLEAN : Stay("Simple", Ok(0), [sh EXCEPT !.errexit = b])
    BY <1>9 DEF RunSet
  <2> DEFINE s == [sh EXCEPT !.errexit = b]
  <2>1. /\ s \in ShellRec /\ s.self = sh.self /\ s.evExit = sh.evExit
        /\ s.exitTrap = sh.exitTrap /\ s.escaped = sh.escaped /\ s.tested = sh.tested
        /\ s.loopDepth = sh.loopDepth /\ s.scopes = sh.scopes
    BY <1>0 DEF ShellRec
  <2>2. Stay("Simple", Ok(0), s)
    OBVIOUS
  <2> HIDE DEF s
  <2> QED BY <1>0, <1>2, <1>8, <2>1, <2>2
<1>10. CASE RunTrap
  <2>1. ASSUME NEW x \in {0, sh.self}, Stay("Simple", Ok(0), [sh EXCEPT !.exitTrap = x])
        PROVE  CInv'
    <3> DEFINE s == [sh EXCEPT !.exitTrap = x]
    <3>1. x \in Int
      BY <1>0
    <3>2. /\ s \in ShellRec /\ s.self = sh.self /\ s.evExit = sh.evExit
          /\ s.exitTrap = x /\ s.escaped = sh.escaped /\ s.tested = sh.tested
          /\ s.loopDepth = sh.loopDepth /\ s.scopes = sh.scopes
      BY <1>0, <3>1 DEF ShellRec
    <3>3. Stay("Simple", Ok(0), s)
      BY <2>1
    <3> HIDE DEF s
    <3> QED BY <1>0, <1>2, <1>8, <3>2, <3>3
  <2>2. ASSUME NEW b \in BOOLEAN, Stay("Simple", Ok(0), [sh EXCEPT !.intTrap = b])
        PROVE  CInv'
    <3> DEFINE s == [sh EXCEPT !.intTrap = b]
    <3>1. /\ s \in ShellRec /\ s.self = sh.self /\ s.evExit = sh.evExit
          /\ s.exitTrap = sh.exitTrap /\ s.escaped = sh.escaped /\ s.tested = sh.tested
          /\ s.loopDepth = sh.loopDepth /\ s.scopes = sh.scopes
      BY <1>0 DEF ShellRec
    <3>2. Stay("Simple", Ok(0), s)
      BY <2>2
    <3> HIDE DEF s
    <3> QED BY <1>0, <1>2, <1>8, <3>1, <3>2
  <2> QED BY <1>10, <2>1, <2>2 DEF RunTrap
<1>11. CASE CallFunction
  <2> DEFINE f == Frame("Func", "func", 0, NewShell)
             s == [NoExec(sh) EXCEPT !.scopes = @ + 1]
  <2>1. f \in FrameRec /\ f.kind = "Func" /\ f.at = "func"
    BY <1>0, NewFrame DEF Kinds, Ats
  <2>2. /\ s.self = sh.self /\ s.exitTrap = sh.exitTrap /\ s.evExit = FALSE
        /\ s.escaped = sh.escaped /\ s.tested = sh.tested
        /\ s.loopDepth = sh.loopDepth /\ s.scopes = sh.scopes + 1
    BY <1>0, <1>1 DEF ShellRec
  <2>3. Added("Func", Loops) = 0 /\ Added("Func", {"Func"}) = 1
    BY DEF Added, Loops
  <2>4. stack' = Append(stack, f) /\ sh' = s /\ mode' = "call"
    BY <1>11 DEF CallFunction, Enter
  <2> HIDE DEF f, s
  <2> QED BY <2>1, <2>2, <2>3, <2>4, <1>0, CallContext
<1>12. CASE CallFails
  <2> DEFINE s == [NoExec(sh) EXCEPT !.scopes = @ + 1, !.escaped = TRUE]
  <2>1. NoExec(sh).scopes + 1 \in Int
    BY <1>0, <1>1
  <2>2. /\ s \in ShellRec /\ s.self = sh.self /\ s.evExit = FALSE
        /\ s.exitTrap = sh.exitTrap /\ s.escaped = TRUE
    BY <1>0, <1>1, <2>1 DEF ShellRec
  <2>3. Stay("Simple", Err("Error", 0), s)
    BY <1>12 DEF CallFails
  <2>4. Err("Error", 0) \in ResultRec /\ ~Jumps(Err("Error", 0))
    <3>1. Err("Error", 0) \in ResultRec
      BY ResultShape DEF Tags
    <3>2. ~Jumps(Err("Error", 0))
      BY DEF Jumps, Err
    <3> QED BY <3>1, <3>2
  <2> HIDE DEF s
  <2> QED BY <1>8, <2>2, <2>3, <2>4
<1>13. ASSUME NEW k \in {"eval", "dot"}, RunScript(k) PROVE CInv'
  <2> DEFINE f == Frame(k, "script", 0, NewShell)
  <2>1. f \in FrameRec /\ f.kind = k /\ f.at = "script"
    BY <1>0, NewFrame DEF Kinds, Ats
  <2>2. Added(k, Loops) = 0 /\ Added(k, {"Func"}) = 0
    BY DEF Added, Loops
  <2>3. stack' = Append(stack, f) /\ sh' = sh /\ mode' = "call"
    BY <1>13 DEF RunScript, Enter
  <2> HIDE DEF f
  <2> QED BY <2>1, <2>2, <2>3, <1>0, CallContext
<1>14. CASE Exec
  <2>1. sh.self # 1
    BY <1>14 DEF Exec, IInv, StackInv, Own
  <2> QED BY <1>14, <2>1, ProcessEndsContext DEF Exec
<1>15. CASE BeginSimple
  BY <1>15 DEF BeginSimple, CInv
<1> QED BY <1>5, <1>6, <1>7, <1>9, <1>10, <1>11, <1>12, <1>13, <1>14, <1>15 DEF Run

\* The calls that have a result.
LEMMA ReturnContext ==
  ASSUME IInv, CInv,
         ConditionFails \/ AfterCondition \/ AfterLeft \/ AfterBody \/ AfterFunction \/ AfterScript
  PROVE  CInv'
<1>0. /\ sh \in ShellRec /\ sh.escaped \in BOOLEAN /\ sh.loopDepth \in Int /\ sh.scopes \in Int
      /\ res \in ResultRec /\ res.n \in Int /\ Top \in FrameRec
      /\ Top.last \in Int /\ Top.saved \in BOOLEAN /\ Top.kind \in Kinds
      /\ Settled(stack) /\ Top = stack[Len(stack)] /\ Len(stack) \in 1 .. Len(stack)
  BY CFacts DEF ShellRec, FrameRec
<1>1. mode = "ret" /\ (Jumps(res) /\ ~sh.escaped => res.n >= 1)
  <2>1. mode = "ret"
    BY DEF ConditionFails, AfterCondition, AfterLeft, AfterBody, AfterFunction, AfterScript
  <2> QED BY <1>0, <2>1 DEF CInv
<1>2. \A n \in Int : Ok(n) \in ResultRec /\ ~Jumps(Ok(n))
  BY ResultShape DEF Jumps, Ok, Tags
<1>3. \A at \in Ats : /\ [Top EXCEPT !.at = at] \in FrameRec
                      /\ [Top EXCEPT !.at = at].at = at
                      /\ [Top EXCEPT !.at = at].kind = Top.kind
  BY <1>0 DEF FrameRec
<1>4. /\ Top.at = "script" => Top.kind \in {"eval", "dot"}
      /\ Top.kind = "Func" => Top.at \notin {"main", "child", "left", "body", "cond"}
  BY <1>0, InvFacts DEF Settled, IInv, StackInv, Top
\* Of a call that is no loop and no function, with its own result or none.
<1>5. ASSUME NEW k, NEW r \in ResultRec, NEW s \in ShellRec, Leave(k, r, s), SameContext(s, sh),
             Top.at \notin {"main", "child", "cond"}, Top.kind \notin Loops \cup {"Func"},
             r = res \/ ~Jumps(r)
      PROVE  CInv'
  <2>1. Added(Top.kind, Loops) = 0 /\ Added(Top.kind, {"Func"}) = 0
    BY <1>5 DEF Added
  <2> QED BY <1>0, <1>1, <1>5, <2>1, BelowTop, OverContext DEF SameContext
<1>6. CASE ConditionFails
  <2> DEFINE s == [sh EXCEPT !.escaped = TRUE]
  <2>1. /\ s \in ShellRec /\ s.self = sh.self /\ s.evExit = sh.evExit
        /\ s.exitTrap = sh.exitTrap /\ s.escaped = TRUE
    BY <1>0 DEF ShellRec
  <2>2. Leave(Top.kind, res, s) /\ Top.at \notin {"main", "child"}
    BY <1>6 DEF ConditionFails
  <2> HIDE DEF s
  <2> QED BY <1>0, <2>1, <2>2, OverContext
<1>7. CASE AfterCondition
  <2> DEFINE s    == [sh EXCEPT !.tested = Restored, !.status = res.n]
             body == [Top EXCEPT !.at = "body"]
  <2>1. /\ s \in ShellRec /\ s.self = sh.self /\ s.evExit = sh.evExit /\ s.tested = Top.saved
        /\ s.exitTrap = sh.exitTrap /\ s.escaped = sh.escaped
        /\ s.loopDepth = sh.loopDepth /\ s.scopes = sh.scopes
    BY <1>0 DEF ShellRec, Restored
  <2>2. Top.at = "cond" /\ (~sh.escaped /\ s.tested => InCondition(stack, Len(stack) - 1))
    <3>1. Top.at = "cond"
      BY <1>7 DEF AfterCondition
    <3> QED BY <2>1, <3>1, BelowTop
  <2>3. body \in FrameRec /\ body.at = "body" /\ body.kind = Top.kind
    BY <1>3 DEF Ats
  <2>4. ASSUME Proceed(body, s) PROVE CInv'
    <3>1. stack' = Retop(body) /\ sh' = s /\ mode' = "call"
      BY <2>4 DEF Proceed
    <3> HIDE DEF body, s
    <3> QED BY <1>0, <2>1, <2>2, <2>3, <3>1, PartContext
  <2>5. ASSUME NEW k, NEW r \in ResultRec, ~Jumps(r), Leave(k, r, s),
               Top.kind \in {"And", "Or", "If", "Not", "Bang"}
        PROVE  CInv'
    <3>1. Added(Top.kind, Loops) = 0 /\ Added(Top.kind, {"Func"}) = 0
      BY <2>5 DEF Added, Loops
    <3> HIDE DEF s
    <3> QED BY <1>0, <2>1, <2>2, <2>5, <3>1, OverContext
  <2>6. ASSUME Top.kind \in Loops, LeaveLoop(s) PROVE CInv'
    <3> DEFINE t == [s EXCEPT !.loopDepth = @ - 1]
    <3>0. s.loopDepth - 1 \in Int
      BY <1>0, <2>1
    <3>1. /\ t \in ShellRec /\ t.self = s.self /\ t.evExit = s.evExit /\ t.tested = s.tested
          /\ t.exitTrap = s.exitTrap /\ t.escaped = s.escaped
          /\ t.loopDepth = s.loopDepth - 1 /\ t.scopes = s.scopes
      BY <2>1, <3>0 DEF ShellRec
    <3>2. Leave(Top.kind, Ok(Top.last), t)
      BY <2>6 DEF LeaveLoop
    <3>3. Added(Top.kind, Loops) = 1 /\ Added(Top.kind, {"Func"}) = 0
      BY <2>6 DEF Added, Loops
    <3> HIDE DEF t, s
    <3> QED BY <1>0, <1>2, <2>1, <2>2, <3>1, <3>2, <3>3, OverContext
  <2>7. ~Jumps(res)
    BY <1>7 DEF AfterCondition, Jumps
  <2> HIDE DEF s, body
  <2> QED BY <1>0, <1>2, <1>7, <2>4, <2>5, <2>6, <2>7 DEF AfterCondition, s, body
<1>8. CASE AfterLeft
  <2>1. CASE res.tag = "Ok"
    <3> DEFINE s == [sh EXCEPT !.status = res.n]
               f == [Top EXCEPT !.at = "body"]
    <3>1. SameContext(s, sh)
      BY <1>0 DEF ShellRec, SameContext
    <3>2. f \in FrameRec /\ f.at = "body" /\ f.kind = Top.kind
      BY <1>3 DEF Ats
    <3>3. stack' = Retop(f) /\ sh' = s /\ mode' = "call" /\ Top.at = "left"
      BY <1>8, <2>1 DEF AfterLeft, Proceed
    <3> HIDE DEF s, f
    <3> QED BY <3>1, <3>2, <3>3, BelowTop, PartContext DEF SameContext
  <2>2. CASE res.tag # "Ok"
    <3>1. Leave("Seq", res, sh) /\ Top.at = "left" /\ Top.kind = "Seq"
      BY <1>8, <2>2 DEF AfterLeft
    <3>2. SameContext(sh, sh)
      BY DEF SameContext
    <3> QED BY <1>0, <1>5, <3>1, <3>2 DEF Loops
  <2> QED BY <2>1, <2>2
<1>9. CASE AfterBody
  <2>1. Leave(Top.kind, res, sh) /\ Top.at = "body" /\ Top.kind \notin Loops \cup {"Func"}
    BY <1>4, <1>9 DEF AfterBody
  <2>2. SameContext(sh, sh)
    BY DEF SameContext
  <2> QED BY <1>0, <1>5, <2>1, <2>2
<1>10. CASE AfterFunction
  <2> DEFINE s == [sh EXCEPT !.scopes = @ - 1]
             r == IF res.tag = "Return" THEN Ok(res.n) ELSE res
  <2>0. sh.scopes - 1 \in Int
    BY <1>0
  <2>1. /\ s \in ShellRec /\ s.self = sh.self /\ s.evExit = sh.evExit /\ s.tested = sh.tested
        /\ s.exitTrap = sh.exitTrap /\ s.escaped = sh.escaped
        /\ s.loopDepth = sh.loopDepth /\ s.scopes = sh.scopes - 1
    BY <1>0, <2>0 DEF ShellRec
  <2>2. r \in ResultRec /\ (r = res \/ ~Jumps(r))
    BY <1>0, <1>2
  <2>3. Leave("Simple", r, s) /\ Top.kind = "Func"
    BY <1>10 DEF AfterFunction
  <2>4. Added(Top.kind, Loops) = 0 /\ Added(Top.kind, {"Func"}) = 1
    BY <2>3 DEF Added, Loops
  <2> HIDE DEF s, r
  <2> QED BY <1>0, <1>1, <1>4, <2>1, <2>2, <2>3, <2>4, BelowTop, OverContext
<1>11. CASE AfterScript
  <2>1. Top.at = "script" /\ Top.kind \notin Loops \cup {"Func"}
    BY <1>4, <1>11 DEF AfterScript, Loops
  <2>2. ASSUME NEW r \in ResultRec, r = res \/ ~Jumps(r), Leave("Simple", r, sh) PROVE CInv'
    <3>1. SameContext(sh, sh)
      BY DEF SameContext
    <3> QED BY <1>0, <1>5, <2>1, <2>2, <3>1
  <2>3. ASSUME Proceed(Top, [sh EXCEPT !.status = res.n]) PROVE CInv'
    <3> DEFINE s == [sh EXCEPT !.status = res.n]
    <3>1. SameContext(s, sh)
      BY <1>0 DEF ShellRec, SameContext
    <3>2. stack' = Retop(Top) /\ sh' = s /\ mode' = "call"
      BY <2>3 DEF Proceed
    <3> HIDE DEF s
    <3> QED BY <1>0, <1>4, <2>1, <3>1, <3>2, BelowTop, PartContext DEF SameContext
  <2> QED BY <1>0, <1>2, <1>11, <2>2, <2>3 DEF AfterScript, Thrown
<1> QED BY <1>6, <1>7, <1>8, <1>9, <1>10, <1>11

\* The head and the body of a loop.
LEMMA LoopContext ==
  ASSUME IInv, CInv, LoopHead \/ AfterLoopBody
  PROVE  CInv'
<1>0. /\ sh \in ShellRec /\ sh.escaped \in BOOLEAN /\ sh.loopDepth \in Int /\ sh.scopes \in Int
      /\ sh.tested \in BOOLEAN
      /\ res \in ResultRec /\ res.n \in Int /\ Top \in FrameRec /\ Top.last \in Int
      /\ Settled(stack) /\ Top = stack[Len(stack)] /\ Len(stack) \in 1 .. Len(stack)
  BY CFacts DEF ShellRec, FrameRec
<1>1. Top.at \in {"head", "body"} /\ Top.kind \in Loops
  BY <1>0 DEF LoopHead, AfterLoopBody, IInv, Settled
<1>2. Added(Top.kind, Loops) = 1 /\ Added(Top.kind, {"Func"}) = 0
  BY <1>1 DEF Added, Loops
<1>3. \A n \in Int : \A tag \in Tags :
        /\ Ok(n) \in ResultRec /\ ~Jumps(Ok(n))
        /\ Err(tag, n) \in ResultRec /\ Err(tag, n).n = n /\ Err(tag, n).tag = tag
  BY ResultShape DEF Jumps, Ok, Err
\* The loop is left, and loop_depth with it.
<1>4. ASSUME NEW k, NEW r \in ResultRec, Leave(k, r, [sh EXCEPT !.loopDepth = @ - 1]),
             Jumps(r) => mode = "ret" /\ Jumps(res) /\ r.n = res.n - 1 /\ r.n >= 1
      PROVE  CInv'
  <2> DEFINE t == [sh EXCEPT !.loopDepth = @ - 1]
  <2>0. sh.loopDepth - 1 \in Int
    BY <1>0
  <2>1. /\ t \in ShellRec /\ t.self = sh.self /\ t.evExit = sh.evExit /\ t.tested = sh.tested
        /\ t.exitTrap = sh.exitTrap /\ t.escaped = sh.escaped
        /\ t.loopDepth = sh.loopDepth - 1 /\ t.scopes = sh.scopes
    BY <1>0, <2>0 DEF ShellRec
  <2>2. Leave(k, r, t)
    BY <1>4
  <2> HIDE DEF t
  <2> QED BY <1>0, <1>1, <1>2, <1>4, <2>1, <2>2, BelowTop, OverContext
<1>5. ASSUME LeaveLoop(sh) PROVE CInv'
  BY <1>0, <1>3, <1>4, <1>5 DEF LeaveLoop, Tags
<1>6. ASSUME NEW r \in ResultRec, Leave(Top.kind, r, [sh EXCEPT !.escaped = TRUE]) PROVE CInv'
  <2> DEFINE t == [sh EXCEPT !.escaped = TRUE]
  <2>1. /\ t \in ShellRec /\ t.self = sh.self /\ t.evExit = sh.evExit
        /\ t.exitTrap = sh.exitTrap /\ t.escaped = TRUE
    BY <1>0 DEF ShellRec
  <2>2. Leave(Top.kind, r, t)
    BY <1>6
  <2> HIDE DEF t
  <2> QED BY <1>0, <1>1, <2>1, <2>2, OverContext
<1>7. CASE LoopHead
  <2>1. ASSUME Proceed([Top EXCEPT !.at = "cond", !.saved = sh.tested], [sh EXCEPT !.tested = TRUE]),
               Top.at = "head"
        PROVE  CInv'
    <3> DEFINE f == [Top EXCEPT !.at = "cond", !.saved = sh.tested]
               t == [sh EXCEPT !.tested = TRUE]
    <3>1. /\ t.self = sh.self /\ t.evExit = sh.evExit
          /\ t.exitTrap = sh.exitTrap /\ t.escaped = sh.escaped
          /\ t.loopDepth = sh.loopDepth /\ t.scopes = sh.scopes
      BY <1>0 DEF ShellRec
    <3>2. f \in FrameRec /\ f.at = "cond" /\ f.kind = Top.kind /\ f.saved = sh.tested
      BY <1>0 DEF FrameRec, Ats
    <3>3. stack' = Retop(f) /\ sh' = t /\ mode' = "call"
      BY <2>1 DEF Proceed
    <3> HIDE DEF f, t
    <3> QED BY <2>1, <3>1, <3>2, <3>3, <1>0, <1>1, BelowTop, PartContext
  <2>2. ASSUME Proceed([Top EXCEPT !.at = "body"], sh) PROVE CInv'
    <3> DEFINE f == [Top EXCEPT !.at = "body"]
    <3>1. f \in FrameRec /\ f.at = "body" /\ f.kind = Top.kind
      BY <1>0 DEF FrameRec, Ats
    <3>2. stack' = Retop(f) /\ sh' = sh /\ mode' = "call"
      BY <2>2 DEF Proceed
    <3> HIDE DEF f
    <3> QED BY <3>1, <3>2, <1>0, <1>1, BelowTop, PartContext
  <2>3. Top.at = "head"
    BY <1>7 DEF LoopHead, IInv
  <2>4. \/ Proceed([Top EXCEPT !.at = "cond", !.saved = sh.tested], [sh EXCEPT !.tested = TRUE])
        \/ Proceed([Top EXCEPT !.at = "body"], sh)
        \/ LeaveLoop(sh)
        \/ Leave(Top.kind, Err("Cancelled", 0), [sh EXCEPT !.escaped = TRUE])
        \/ Leave(Top.kind, Ok(1), [sh EXCEPT !.escaped = TRUE])
    BY <1>7 DEF LoopHead
  <2>5. Err("Cancelled", 0) \in ResultRec /\ Ok(1) \in ResultRec
    BY <1>3 DEF Tags
  <2> QED BY <2>1, <2>2, <2>3, <2>4, <2>5, <1>5, <1>6
<1>8. CASE AfterLoopBody
  <2> DEFINE f == [Top EXCEPT !.at = "head", !.last = IF res.tag = "Ok" THEN res.n ELSE @]
  <2>1. ASSUME stack' = Retop(f), mode' = "head", sh' = sh PROVE CInv'
    <3>1. f \in FrameRec /\ f.at = "head" /\ f.kind = Top.kind
      BY <1>0 DEF FrameRec, Ats
    <3> HIDE DEF f
    <3> QED BY <3>1, <2>1, <1>0, <1>1, BelowTop, PartContext
  <2>2. ASSUME Jumps(res), res.n > 1, mode = "ret",
               Leave(Top.kind, Err(res.tag, res.n - 1), ForgetLoop(sh))
        PROVE  CInv'
    <3> DEFINE r == Err(res.tag, res.n - 1)
    <3>1. r \in ResultRec /\ r.n = res.n - 1
      BY <1>0, <1>3 DEF ResultRec
    <3>2. Leave(Top.kind, r, [sh EXCEPT !.loopDepth = @ - 1])
      BY <2>2 DEF ForgetLoop
    <3> HIDE DEF r
    <3> QED BY <1>0, <1>4, <2>2, <3>1, <3>2
  <2>3. ASSUME ~Jumps(res), Leave(Top.kind, res, ForgetLoop(sh)) PROVE CInv'
    BY <1>0, <1>4, <2>3 DEF ForgetLoop
  <2>4. \/ stack' = Retop(f) /\ mode' = "head" /\ sh' = sh
        \/ LeaveLoop(sh)
        \/ Jumps(res) /\ res.n > 1 /\ Leave(Top.kind, Err(res.tag, res.n - 1), ForgetLoop(sh))
        \/ ~Jumps(res) /\ Leave(Top.kind, res, ForgetLoop(sh))
    BY <1>8 DEF AfterLoopBody, Jumps
  <2>5. mode = "ret"
    BY <1>8 DEF AfterLoopBody
  <2> QED BY <2>1, <2>2, <2>3, <2>4, <2>5, <1>5
<1> QED BY <1>7, <1>8

\* The EXIT trap begins, in a child or in the main process.
LEMMA TrapContext ==
  ASSUME IInv, CInv, NEW at \in {"exit", "end"}, NEW n \in Int, NEW s \in ShellRec,
         stack' = Append(stack, Frame("ExitTrap", at, n, NewShell)),
         sh' = [s EXCEPT !.exitTrap = 0], mode' = "call",
         SameContext(s, sh)
  PROVE  CInv'
<1> DEFINE f == Frame("ExitTrap", at, n, NewShell)
           t == [s EXCEPT !.exitTrap = 0]
<1>0. /\ sh \in ShellRec /\ sh.escaped \in BOOLEAN /\ NewShell \in ShellRec
      /\ sh.loopDepth \in Int /\ sh.scopes \in Int
  BY CFacts, NewShellShape DEF ShellRec
<1>1. f \in FrameRec /\ f.kind = "ExitTrap" /\ f.at = at
  <2>1. "ExitTrap" \in Kinds /\ at \in Ats
    BY DEF Kinds, Ats
  <2> QED BY <2>1, <1>0, NewFrame
<1>2. /\ t.self = sh.self /\ t.evExit = sh.evExit /\ t.tested = sh.tested
      /\ t.exitTrap = 0 /\ t.escaped = sh.escaped
      /\ t.loopDepth = sh.loopDepth /\ t.scopes = sh.scopes
  BY DEF ShellRec, SameContext
<1>3. Added("ExitTrap", Loops) = 0 /\ Added("ExitTrap", {"Func"}) = 0
  BY DEF Added, Loops
<1>4. stack' = Append(stack, f) /\ sh' = t
  OBVIOUS
<1> HIDE DEF f, t
<1>5. f.at \notin {"child", "script", "head", "cond"} /\ f.kind \in {"eval", "dot", "ExitTrap"}
  BY <1>1
<1>6. /\ sh'.self = sh.self /\ sh'.exitTrap \in {0, sh.exitTrap}
      /\ sh'.evExit => sh.evExit
  BY <1>2, <1>4
<1>7. sh'.escaped \/ (/\ ~sh.escaped
                      /\ sh'.tested => sh.tested
                      /\ sh'.loopDepth = sh.loopDepth + Added(f.kind, Loops)
                      /\ sh'.scopes = sh.scopes + Added(f.kind, {"Func"}))
  <2>1. Added(f.kind, Loops) = 0 /\ Added(f.kind, {"Func"}) = 0
    BY <1>1, <1>3
  <2>2. /\ sh'.escaped = sh.escaped /\ sh'.tested = sh.tested
        /\ sh'.loopDepth = sh.loopDepth /\ sh'.scopes = sh.scopes
    BY <1>2, <1>4
  <2>3. sh.loopDepth + 0 = sh.loopDepth /\ sh.scopes + 0 = sh.scopes
    BY <1>0
  <2>4. sh.escaped \/ ~sh.escaped
    OBVIOUS
  <2> QED BY <2>1, <2>2, <2>3, <2>4, Zenon
<1>8. mode' \notin {"ret", "between"}
  OBVIOUS
<1> QED BY <1>1, <1>4, <1>5, <1>6, <1>7, <1>8, CallContext

\* run_program ends, or runs the EXIT trap first.
LEMMA FinishContext ==
  ASSUME IInv, CInv, NEW at \in {"exit", "end"}, NEW n \in Int, NEW s \in ShellRec,
         FinishProgram(at, n, s), SameContext(s, sh)
  PROVE  CInv'
<1>1. CASE s.exitTrap # 0
  BY <1>1, TrapContext DEF FinishProgram
<1>2. CASE s.exitTrap = 0
  <2>1. stack' = stack /\ sh' = s /\ mode' = "done"
    BY <1>2 DEF FinishProgram, ProgramEnds
  <2>2. Faithful(stack, s, Len(stack))
    BY CFacts, FaithfulStatus
  <2> QED BY <2>1, <2>2 DEF CInv
<1> QED BY <1>1, <1>2

LEMMA OneOrMore == ASSUME NEW n \in Nat, n >= 1 PROVE n = 1 \/ n \in 2 .. n
OBVIOUS

\* Ends of children, waits, and run_program around them.
LEMMA ProgramContext ==
  ASSUME IInv, CInv,
         \/ AfterChild \/ AfterTopCommand \/ RunPendingTraps \/ NextCommand
         \/ TrapGoesOn \/ TrapEnds \/ Wait
  PROVE  CInv'
<1>0. /\ sh \in ShellRec /\ res \in ResultRec /\ res.n \in Int
      /\ Top \in FrameRec /\ Top.last \in Int /\ NewShell \in ShellRec
      /\ stack \in Seq(FrameRec) /\ Len(stack) \in Nat /\ Len(stack) >= 1
      /\ Top = stack[Len(stack)] /\ Faithful(stack, sh, Len(stack)) /\ sh.self \in 1 .. Len(stack)
      /\ sh.escaped \in BOOLEAN /\ sh.loopDepth \in Int /\ sh.scopes \in Int
  BY CFacts, NewShellShape DEF FrameRec, ShellRec
<1>1. CASE AfterChild
  <2> DEFINE c == IF res.tag \in {"Ok", "Exit"} THEN res.n ELSE 1
  <2>0. c \in Int
    BY <1>0
  <2>1. sh.self # 1
    BY <1>0, <1>1 DEF AfterChild, IInv, StackInv, Own
  <2>2. RunExitTrap("exit", c) \/ ProcessEnds(c)
    BY <1>1 DEF AfterChild
  <2> HIDE DEF c
  <2>3. SameContext(sh, sh)
    BY DEF SameContext
  <2>4. CASE RunExitTrap("exit", c)
    BY <2>0, <2>3, <2>4, <1>0, TrapContext DEF RunExitTrap
  <2> QED BY <2>0, <2>1, <2>2, <2>4, ProcessEndsContext
<1>2. CASE AfterTopCommand
  <2>1. ASSUME NEW n \in Int PROVE LET t == [sh EXCEPT !.status = n]
                                   IN  t \in ShellRec /\ SameContext(t, sh)
    BY <1>0 DEF ShellRec, SameContext
  <2>2. SameContext(sh, sh)
    BY DEF SameContext
  <2>3. ASSUME NEW t \in ShellRec, SameContext(t, sh), sh' = t, stack' = stack,
               mode' \in {"between", "done"}
        PROVE  CInv'
    <3>1. Faithful(stack, t, Len(stack))
      BY <1>0, <2>3, FaithfulStatus
    <3>2. Top.at = "main" /\ Top' = Top
      BY <1>2, <2>3 DEF AfterTopCommand, Top
    <3> QED BY <2>3, <3>1, <3>2 DEF CInv
  <2>4. ASSUME FinishProgram("exit", res.n, sh) PROVE CInv'
    BY <1>0, <2>2, <2>4, FinishContext
  <2>5. ASSUME FinishProgram("end", 0, [sh EXCEPT !.status = 2]) PROVE CInv'
    <3> DEFINE t == [sh EXCEPT !.status = 2]
    <3>1. t \in ShellRec /\ SameContext(t, sh)
      BY <2>1
    <3>2. FinishProgram("end", 0, t)
      BY <2>5
    <3> HIDE DEF t
    <3> QED BY <3>1, <3>2, FinishContext
  <2>6. ASSUME mode' = "between", sh' = [sh EXCEPT !.status = res.n], stack' = stack PROVE CInv'
    <3> DEFINE t == [sh EXCEPT !.status = res.n]
    <3>1. t \in ShellRec /\ SameContext(t, sh)
      BY <1>0, <2>1
    <3>2. sh' = t
      BY <2>6
    <3> HIDE DEF t
    <3> QED BY <2>3, <2>6, <3>1, <3>2
  <2>7. ASSUME mode' = "done", sh' = sh, stack' = stack PROVE CInv'
    BY <1>0, <2>2, <2>3, <2>7
  <2> QED BY <1>2, <2>4, <2>5, <2>6, <2>7 DEF AfterTopCommand, ProgramEnds
<1>3. CASE RunPendingTraps
  <2> DEFINE f == Frame("SigTrap", "trap", 0, NewShell)
  <2>1. f \in FrameRec /\ f.kind = "SigTrap" /\ f.at = "trap"
    BY <1>0, NewFrame DEF Kinds, Ats
  <2>2. ~sh.evExit
    <3>1. stack[Len(stack)].at = "main"
      BY <1>0, <1>3 DEF RunPendingTraps, CInv
    <3>2. ASSUME NEW i \in 2 .. Len(stack) PROVE stack[i].at # "main"
      BY DEF IInv, StackInv
    <3>3. Len(stack) = 1
      <4>1. CASE Len(stack) \in 2 .. Len(stack)
        <5>1. stack[Len(stack)].at # "main"
          BY <3>2, <4>1, Zenon
        <5> QED BY <3>1, <5>1
      <4>2. Len(stack) \in Nat /\ Len(stack) >= 1
        BY <1>0
      <4> QED BY <4>1, <4>2, OneOrMore, Zenon
    <3>4. sh.self = 1
      <4>1. sh.self \in 1 .. Len(stack)
        BY <1>0, Zenon
      <4>2. sh.self \in 1 .. 1
        BY <4>1, <3>3, Zenon
      <4> QED BY <4>2
    <3>5. sh.self = 1 => ~sh.evExit
      BY DEF IInv, StackInv, Own
    <3> QED BY <3>4, <3>5
  <2>3. ASSUME stack' = Append(stack, f), mode' = "call", sh' = sh PROVE CInv'
    <3>1. Added("SigTrap", Loops) = 0 /\ Added("SigTrap", {"Func"}) = 0
      BY DEF Added, Loops
    <3> HIDE DEF f
    <3> QED BY <1>0, <2>1, <2>2, <2>3, <3>1, CallContext
  <2>4. ASSUME stack' = stack, mode' = "next", sh' = sh PROVE CInv'
    BY <2>4 DEF CInv
  <2> QED BY <1>3, <2>3, <2>4 DEF RunPendingTraps
<1>4. CASE NextCommand
  <2>1. ASSUME stack' = stack, mode' = "call", sh' = sh PROVE CInv'
    BY <2>1 DEF CInv
  <2>2. SameContext(sh, sh)
    BY DEF SameContext
  <2> QED BY <1>0, <1>4, <2>1, <2>2, FinishContext DEF NextCommand
<1>5. CASE TrapGoesOn
  BY <1>5 DEF TrapGoesOn, CInv
<1>6. CASE TrapEnds
  <2>1. Top.at \notin {"main", "child", "cond"} /\ Top.kind \in {"ExitTrap", "SigTrap"}
    BY <1>0, <1>6 DEF TrapEnds, IsTrap, IInv, StackInv
  <2>2. ASSUME stack' = Below, mode' \in {"next", "done"}, sh' = sh PROVE CInv'
    <3> DEFINE n == Len(stack) - 1
    <3>1. n \in 1 .. (Len(stack) - 1) /\ n \in Nat /\ sh.self \in 1 .. n /\ n + 1 = Len(stack)
      BY <2>1, CFacts
    <3>2. stack' = SubSeq(stack, 1, n)
      BY <2>2 DEF Below
    <3>3. Added(Top.kind, Loops) = 0 /\ Added(Top.kind, {"Func"}) = 0
      BY <2>1 DEF Added, Loops
    <3>4. ~sh.escaped /\ sh.tested => InCondition(stack, n)
      BY <2>1, BelowTop
    <3> HIDE DEF n
    <3>5. Faithful(stack, sh, n + 1) /\ Top = stack[n + 1]
      BY <1>0, <3>1
    <3>6. Faithful(stack, sh, n)
      <4>1. /\ sh.loopDepth = sh.loopDepth - Added(stack[n + 1].kind, Loops)
            /\ sh.scopes = sh.scopes - Added(stack[n + 1].kind, {"Func"})
        BY <1>0, <3>3, <3>5
      <4>2. sh.escaped \/ ~sh.escaped
        OBVIOUS
      <4> QED BY <3>1, <3>4, <3>5, <4>1, <4>2, FaithfulPop
    <3>7. Settled(stack') /\ Len(stack') = n /\ Agree(stack, stack', n)
      BY <3>1, <3>2, Shortened
    <3>8. Faithful(stack', sh, n)
      BY <3>1, <3>6, <3>7, FaithfulAgrees
    <3> QED BY <2>2, <3>7, <3>8 DEF CInv
  <2> QED BY <1>0, <1>6, <2>2, ProcessEndsContext DEF TrapEnds, ProgramEnds, InMain
<1>7. CASE Wait
  <2> PICK i \in 1 .. Len(stack) : Poll(i) \/ ChildStops(i)
    BY <1>7 DEF Wait
  <2>1. CASE ParentMisses(i)
    BY <2>1, MarkContext
  <2>2. CASE ParentCancels(i) \/ ChildStops(i)
    <3>1. /\ stack[i].at = "child" /\ stack' = SubSeq(stack, 1, i - 1)
          /\ stack[i].parent \in ShellRec
      BY <1>0, <2>2, FrameShape DEF ParentCancels, SeesWaiting, ChildStops
    <3>2. \E r \in ResultRec : ~Jumps(r) /\ Complete(stack[i].kind, r, stack[i].parent)
      <4>1. /\ Err("Cancelled", 0) \in ResultRec /\ ~Jumps(Err("Cancelled", 0))
            /\ Err("Stopped", 0) \in ResultRec /\ ~Jumps(Err("Stopped", 0))
        BY DEF Jumps, Err, ResultRec, Tags
      <4> QED BY <2>2, <4>1 DEF ParentCancels, ChildStops, Reported
    <3>3. SameContext(sh', stack[i].parent) /\ mode' = "ret" /\ ~Jumps(res')
      BY <3>1, <3>2, CompleteContext
    <3> QED BY <3>1, <3>3, GoneContext
  <2> QED BY <2>1, <2>2 DEF Poll
<1> QED BY <1>1, <1>2, <1>3, <1>4, <1>5, <1>6, <1>7

-----------------------------------------------------------------------------
(* The theorems.                                                            *)

\* The initial state: the main process, in no call.
LEMMA InitContext == Init => CInv
<1> SUFFICES ASSUME Init PROVE CInv
  OBVIOUS
<1> DEFINE f == Frame("Program", "main", 0, NewShell)
<1>1. f.kind = "Program" /\ f.at = "main"
  BY DEF Frame
<1>2. stack = <<f>> /\ mode = "call" /\ sh = NewShell
  BY DEF Init
<1> HIDE DEF f
<1>3. Len(stack) = 1 /\ stack[1] = f
  BY <1>2
<1>4. Count(stack, Loops, 1) = 0 /\ Count(stack, {"Func"}, 1) = 0
  <2>1. KindsIn(stack, Loops, 1) = {} /\ KindsIn(stack, {"Func"}, 1) = {}
    BY <1>1, <1>3 DEF KindsIn, Loops
  <2> QED BY <2>1, FS_EmptySet DEF Count
<1>5. Faithful(stack, sh, 1)
  BY <1>1, <1>2, <1>3, <1>4 DEF Faithful, Context, NewShell
<1>6. Settled(stack)
  BY <1>1, <1>3 DEF Settled
<1> QED BY <1>2, <1>3, <1>5, <1>6 DEF CInv

\* Every step of the evaluator or of its environment keeps the invariant.
LEMMA StepContext == IInv /\ CInv /\ [Next]_vars => CInv'
<1> SUFFICES ASSUME IInv, CInv, [Next]_vars PROVE CInv'
  OBVIOUS
<1>1. CASE Evaluate
  BY <1>1, AtOnceContext, CompoundContext, ForkContext, RunContext DEF Evaluate
<1>2. CASE Return
  BY <1>2, ReturnContext, LoopContext, ProgramContext DEF Return
<1>3. CASE Wait
  BY <1>3, ProgramContext
<1>4. CASE RunAgain
  BY <1>4 DEF RunAgain, CInv
<1>5. CASE Cancel \/ Signal \/ Finished \/ UNCHANGED vars
  <2>1. UNCHANGED <<stack, mode, res, sh>>
    BY <1>5 DEF Cancel, Signal, Finished, control, vars
  <2> QED BY <2>1 DEF CInv, Top
<1> QED BY <1>1, <1>2, <1>3, <1>4, <1>5 DEF Next

\* The Shell struct says no more than the calls in progress, in the running
\* process and in every parent that waits for it.
THEOREM EvalContextInductive == Spec => [](IInv /\ CInv)
<1>1. Init => IInv /\ CInv
  BY InitInv, InitContext
<1>2. (IInv /\ CInv) /\ [Next]_vars => (IInv /\ CInv)'
  BY StepInv, StepContext
<1> QED BY <1>1, <1>2, PTL DEF Spec

\* Unless an error has escaped, tested is set only in a condition, loop_depth
\* and the scopes count what is in progress, and a jump has a loop to reach.
THEOREM EvalContextExact == Spec => []ContextExact
<1>1. IInv /\ CInv => ContextExact
  BY DEF CInv, Faithful, Context, InCondition, Count, KindsIn, Jumps, ContextExact,
         LoopCount, Frames
<1> QED BY <1>1, EvalContextInductive, PTL

\* An external command that replaces its process cuts no compound command and
\* no function of that process short.
THEOREM EvalExecCutsNoCompound == Spec => []ExecCutsNoCompound
<1>1. IInv /\ CInv => ExecCutsNoCompound
  BY DEF CInv, Faithful, ExecCutsNoCompound
<1> QED BY <1>1, EvalContextInductive, PTL

\* The main shell and a subshell run no EXIT trap but their own.
THEOREM EvalExitTrapIsOwn == Spec => []ExitTrapIsOwn
<1>1. IInv /\ CInv => ExitTrapIsOwn
  BY DEF CInv, Faithful, ExitTrapIsOwn
<1> QED BY <1>1, EvalContextInductive, PTL

-----------------------------------------------------------------------------
(* Cancellation.                                                            *)

\* From a cancellation noticed in the main process every step leads out of a
\* call or ends run_program with 130.
LEMMA CancelStep ==
  ASSUME IInv, [Next]_vars, Unwinding
  PROVE  \/ mode' = "ret" /\ res' = res
         \/ mode' = "done" /\ code' = 130
         \/ UNCHANGED <<mode, res, stack>>
<1>1. mode = "ret" /\ res.tag = "Cancelled" /\ sh.self = 1
  BY DEF Unwinding, InMain
<1>2. stack \in Seq(FrameRec) /\ Len(stack) \in Nat /\ Len(stack) >= 1 /\ Top = stack[Len(stack)]
  BY InvFacts DEF Top
<1>3. (\A i \in 1 .. Len(stack) : stack[i].at # "child") /\ ~IsTrap(Top)
  BY <1>1, <1>2 DEF IInv, StackInv, Own, Unwinding, Frames
\* A call that passes its result on.
<1>4. ASSUME NEW k, NEW s, Leave(k, res, s) PROVE mode' = "ret" /\ res' = res
  BY <1>1, <1>4 DEF Leave, Complete
<1>5. ~Evaluate
  BY <1>1 DEF Evaluate, Run, CancelledBefore, EnterConditional, EnterPlain, PlainFails,
              NothingToRun, EnterLoop, EnterFork, ForkFails, EnterInline, RunBackground,
              BeginSimple, EnterComsub, Starts, RunStatus, RunFails, RunCancelled, RunJump,
              RunEnd, RunSet, RunTrap, CallFunction, CallFails, RunScript, Exec
<1>6. CASE ConditionFails \/ AfterLeft \/ AfterBody
  BY <1>1, <1>4, <1>6 DEF ConditionFails, AfterLeft, AfterBody
<1>7. CASE AfterLoopBody
  BY <1>1, <1>4, <1>7 DEF AfterLoopBody, Err
<1>8. CASE AfterFunction \/ AfterScript
  BY <1>1, <1>4, <1>8 DEF AfterFunction, AfterScript, Thrown
<1>9. CASE AfterTopCommand
  BY <1>1, <1>9 DEF AfterTopCommand, ProgramEnds
<1>10. ~(AfterCondition \/ LoopHead \/ AfterChild \/ RunPendingTraps \/ NextCommand
         \/ TrapGoesOn \/ TrapEnds)
  BY <1>1, <1>2, <1>3 DEF AfterCondition, LoopHead, AfterChild, RunPendingTraps, NextCommand,
                          TrapGoesOn, TrapEnds
<1>11. ~Wait /\ ~RunAgain
  BY <1>1, <1>3 DEF Wait, Poll, ParentCancels, ParentMisses, SeesWaiting, ChildStops, RunAgain
<1>12. CASE Cancel \/ Signal \/ Finished \/ UNCHANGED vars
  BY <1>12 DEF Cancel, Signal, Finished, vars, control
<1> QED BY <1>5, <1>6, <1>7, <1>8, <1>9, <1>10, <1>11, <1>12 DEF Next, Return

\* A cancellation that the main process has noticed unwinds every call:
\* nothing else is evaluated, and run_program returns 130.
THEOREM EvalCancelUnwinds == Spec => CancelUnwinds
<1>1. IInv /\ [Next]_vars =>
        [Unwinding => \/ mode' = "ret" /\ res' = res
                      \/ mode' = "done" /\ code' = 130]_<<mode, res, stack>>
  BY CancelStep
<1> QED BY <1>1, EvalInductive, PTL DEF Spec, CancelUnwinds
==============================================================================
