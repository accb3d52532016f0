-------------------------------- MODULE Eval --------------------------------
(***************************************************************************)
(* The evaluator of epsh as a stack machine: Shell::run_program,           *)
(* eval_command, eval_command_inner, eval_simple, eval_function and        *)
(* eval_in_subshell of src/src/eval.rs, and the builtins of                *)
(* src/src/builtins.rs that change the flow of control.                    *)
(*                                                                         *)
(* Every call of the recursive evaluator is a frame of the stack.  No      *)
(* program is fixed: wherever the evaluator is about to evaluate a command *)
(* it may be any command of Commands, so the behaviours are those of every *)
(* script whose commands nest at most MaxDepth deep.  mode says what       *)
(* happens next:                                                           *)
(*   "call"     eval_command of the next command;                          *)
(*   "simple"   eval_simple, the command substitutions being expanded;     *)
(*   "head"     the head of a loop;                                        *)
(*   "ret"      eval_command has returned res to the top frame;            *)
(*   "between"  run_program runs the pending traps;                        *)
(*   "next"     run_program goes to the next command or to its end;        *)
(*   "done"     run_program has returned code.                             *)
(*                                                                         *)
(* A fork pushes a frame that keeps the parent's copy of the Shell struct: *)
(* the frames above it belong to the child, and the parent waits.          *)
(***************************************************************************)
EXTENDS Integers, Sequences, FiniteSets

CONSTANTS
  Commands,   \* the kinds of command a script may use
  MaxDepth,   \* how deep commands nest
  MaxLoops,   \* cap on loop_depth and on the number of scopes
  MaxRuns     \* how often the embedder calls run_program on one Shell

Conditional == {"And", "Or", "If", "Not", "Bang"}
Loops       == {"While", "Until", "For"}
Plain       == {"Seq", "Brace", "Case"}
Compound    == Conditional \cup Loops \cup Plain
Simple      == {"status", "fail", "break", "continue", "return", "exit", "call",
                "eval", "dot", "set", "trap", "comsub"}
AllCommands == Compound \cup Simple \cup {"FuncDef", "Subshell", "Pipeline", "Background"}

ASSUME CommandsAssumption == Commands \subseteq AllCommands /\ "status" \in Commands
ASSUME BoundsAssumption   == MaxDepth \in Nat \ {0} /\ MaxLoops \in Nat /\ MaxRuns \in Nat

VARIABLES
  conf,       \* interactive mode; whether the cancellation is the deadline
  cancelled,  \* the flag is set, or the deadline has passed
  pending,    \* SIGINT_PENDING of the main process
  stack,      \* the calls in progress
  mode, res,  \* control, and the result being returned
  sh,         \* the Shell struct of the process that runs
  code,       \* what run_program returned
  runs        \* calls of run_program so far

control == <<stack, mode, res, sh>>
world   == <<conf, cancelled, pending, code, runs>>
vars    == <<control, world>>

-----------------------------------------------------------------------------
(* The Shell struct, as far as control flow depends on it, and the frames.  *)

\* self is the process, named by its frame: 1 is the main shell, a child is
\* its "child" frame; exitTrap is the one that set the EXIT trap, 0 for none;
\* blind: the copy of the cancel flag this process got at its fork is unset;
\* escaped is a history variable: an error has left a frame by a path that
\* does not undo what the frame did to the Shell.
NewShell ==
  [self |-> 1, tested |-> FALSE, loopDepth |-> 0, scopes |-> 0, status |-> 0,
   errexit |-> FALSE, evExit |-> FALSE, forked |-> FALSE, blind |-> FALSE,
   exitTrap |-> 0, intTrap |-> FALSE, escaped |-> FALSE]

Ok(n)       == [tag |-> "Ok", n |-> n]
Err(tag, n) == [tag |-> tag, n |-> n]
NoResult    == Ok(0)

Frame(kind, at, last, parent) ==
  [kind |-> kind, at |-> at, saved |-> at = "cond" /\ sh.tested, last |-> last,
   parent |-> parent, drains |-> FALSE]

Top      == stack[Len(stack)]
Below    == SubSeq(stack, 1, Len(stack) - 1)
Retop(f) == [stack EXCEPT ![Len(stack)] = f]

IsTrap(f) == f.kind \in {"ExitTrap", "SigTrap"}

InMain == sh.self = 1
MainShell ==
  IF InMain THEN sh
  ELSE stack[CHOOSE i \in 1 .. Len(stack) :
               /\ stack[i].at = "child"
               /\ \A j \in 1 .. (i - 1) : stack[j].at # "child"].parent

\* check_cancel: the flag is a copy in a child, the deadline is not.
Sees == cancelled /\ (conf.deadline \/ ~sh.blind)

Init ==
  /\ conf \in [interactive : BOOLEAN, deadline : BOOLEAN]
  /\ cancelled = FALSE /\ pending = FALSE
  /\ sh = NewShell
  /\ stack = <<Frame("Program", "main", 0, NewShell)>>
  /\ mode = "call" /\ res = NoResult
  /\ code = 0 /\ runs = 1

-----------------------------------------------------------------------------
(* eval_command around eval_command_inner.                                  *)

Leaf == {"Simple", "Pipeline", "Subshell", "Background"}

\* The end of eval_command for a command of kind k whose evaluation gave r
\* and left the Shell s.
Complete(k, r, s) ==
  /\ mode' = "ret"
  /\ IF r.tag = "Ok"
     THEN /\ sh' = [s EXCEPT !.status = r.n]
          /\ res' = IF s.errexit /\ k \in Leaf /\ ~s.tested /\ r.n # 0
                    THEN Err("Exit", r.n) ELSE r
     ELSE sh' = s /\ res' = r

Leave(k, r, s) == stack' = Below /\ Complete(k, r, s)
Stay(k, r, s)  == stack' = stack /\ Complete(k, r, s)

\* Evaluate a command from a new frame, or the next one of the frame f.
Enter(f, s) ==
  /\ Len(stack) < MaxDepth
  /\ stack' = Append(stack, f)
  /\ mode' = "call" /\ sh' = s /\ res' = NoResult
Proceed(f, s) ==
  /\ stack' = Retop(f)
  /\ mode' = "call" /\ sh' = s /\ res' = NoResult

\* A command starts only if check_cancel lets it.
Starts(k) == mode = "call" /\ ~Sees /\ k \in Commands

CancelledBefore ==
  /\ mode = "call" /\ Sees
  /\ Stay("Simple", Err("Cancelled", 0), sh)
  /\ UNCHANGED world

\* Compound commands and function calls clear ev_exit.
KeepExec(s) == s
NoExec(s) == [s EXCEPT !.evExit = FALSE]

-----------------------------------------------------------------------------
(* Commands that evaluate a condition first.  `! a | b' is a Bang frame     *)
(* around a pipeline: it evaluates as such, the inner errexit check being   *)
(* suppressed.                                                              *)

EnterConditional(k) ==
  /\ Starts(k)
  /\ Enter(Frame(k, "cond", 0, NewShell), [NoExec(sh) EXCEPT !.tested = TRUE])
  /\ UNCHANGED world

EnterPlain(k) ==
  /\ Starts(k)
  /\ Enter(Frame(k, IF k = "Seq" THEN "left" ELSE "body", 0, NewShell), NoExec(sh))
  /\ UNCHANGED world

\* A redirection or an expansion that comes before the body fails.
PlainFails(k) ==
  /\ Starts(k) /\ "fail" \in Commands
  /\ Stay(k, Err("Error", 0), NoExec(sh))
  /\ UNCHANGED world

\* No case arm matches, or a function is defined.
NothingToRun(k) ==
  /\ Starts(k)
  /\ Stay(k, Ok(0), NoExec(sh))
  /\ UNCHANGED world

EnterLoop(k) ==
  /\ Starts(k) /\ sh.loopDepth < MaxLoops /\ Len(stack) < MaxDepth
  /\ stack' = Append(stack, Frame(k, "head", 0, NewShell))
  /\ sh' = [NoExec(sh) EXCEPT !.loopDepth = @ + 1]
  /\ mode' = "head" /\ res' = NoResult
  /\ UNCHANGED world

\* The `?' after a condition: tested is not restored, and a loop whose
\* condition fails does not leave loop_depth either.
ConditionFails ==
  /\ mode = "ret" /\ Top.at = "cond" /\ res.tag # "Ok"
  /\ Leave(Top.kind, res, [sh EXCEPT !.escaped = TRUE])
  /\ UNCHANGED world

RestoredFalse == FALSE
Restored      == Top.saved

\* The loop is over with the status of the last body.
LeaveLoop(s) == Leave(Top.kind, Ok(Top.last), [s EXCEPT !.loopDepth = @ - 1])

AfterCondition ==
  /\ mode = "ret" /\ Top.at = "cond" /\ res.tag = "Ok"
  /\ LET s    == [sh EXCEPT !.tested = Restored, !.status = res.n]
         body == [Top EXCEPT !.at = "body"]
         goes == IF Top.kind \in {"Or", "Until"} THEN res.n # 0 ELSE res.n = 0
     IN  \/ Top.kind \notin {"Not", "Bang"} /\ goes /\ Proceed(body, s)
         \/ Top.kind = "If" /\ ~goes /\ Proceed(body, s)          \* else
         \/ Top.kind = "If" /\ ~goes /\ Leave("If", Ok(0), s)
         \/ Top.kind \in {"And", "Or"} /\ ~goes /\ Leave(Top.kind, res, s)
         \/ Top.kind \in Loops /\ ~goes /\ LeaveLoop(s)
         \/ Top.kind \in {"Not", "Bang"} /\ Leave(Top.kind, Ok(IF res.n = 0 THEN 1 ELSE 0), s)
  /\ UNCHANGED world

AfterLeft ==
  /\ mode = "ret" /\ Top.kind = "Seq" /\ Top.at = "left"
  /\ IF res.tag = "Ok"
     THEN Proceed([Top EXCEPT !.at = "body"], [sh EXCEPT !.status = res.n])
     ELSE Leave("Seq", res, sh)
  /\ UNCHANGED world

\* The last command of a compound command: its result is the result.
AfterBody ==
  /\ mode = "ret" /\ Top.at = "body" /\ Top.kind \notin Loops
  /\ Leave(Top.kind, res, sh)
  /\ UNCHANGED world

-----------------------------------------------------------------------------
(* Loops.                                                                   *)

LoopHead ==
  /\ mode = "head"
  /\ \/ /\ Top.kind # "For" /\ ~Sees
        /\ Proceed([Top EXCEPT !.at = "cond", !.saved = sh.tested],
                   [sh EXCEPT !.tested = TRUE])
     \/ /\ Top.kind = "For" /\ ~Sees
        /\ Proceed([Top EXCEPT !.at = "body"], sh)
     \/ Top.kind = "For" /\ LeaveLoop(sh)                      \* no word left
     \/ /\ Sees                                                \* check_cancel()?
        /\ Leave(Top.kind, Err("Cancelled", 0), [sh EXCEPT !.escaped = TRUE])
     \/ /\ Top.kind = "For" /\ ~Sees /\ "fail" \in Commands    \* readonly variable
        /\ Leave("For", Ok(1), [sh EXCEPT !.escaped = TRUE])
  /\ UNCHANGED world

\* What the body of a loop does to loop_depth when an error goes through.
KeepLoop(s)   == s
ForgetLoop(s) == [s EXCEPT !.loopDepth = @ - 1]

AfterLoopBody ==
  /\ mode = "ret" /\ Top.at = "body" /\ Top.kind \in Loops
  /\ LET jump == res.tag \in {"Break", "Continue"}
     IN  \/ /\ res.tag = "Ok" \/ res = Err("Continue", 1)
            /\ stack' = Retop([Top EXCEPT !.at = "head",
                                          !.last = IF res.tag = "Ok" THEN res.n ELSE @])
            /\ mode' = "head" /\ res' = NoResult /\ UNCHANGED sh
         \/ res = Err("Break", 1) /\ LeaveLoop(sh)
         \/ jump /\ res.n > 1 /\ Leave(Top.kind, Err(res.tag, res.n - 1), ForgetLoop(sh))
         \/ res.tag # "Ok" /\ ~jump /\ Leave(Top.kind, res, ForgetLoop(sh))
  /\ UNCHANGED world

-----------------------------------------------------------------------------
(* eval_simple: expand the arguments, then run a builtin, a function or an  *)
(* external command.                                                        *)

BeginSimple ==
  /\ Starts("status")
  /\ mode' = "simple" /\ UNCHANGED <<stack, res, sh, world>>

\* A builtin, an external command, or an assignment, which keeps $?.
RunStatus ==
  /\ mode = "simple"
  /\ \E n \in {0, 1, sh.status} : Stay("Simple", Ok(n), sh)
  /\ UNCHANGED world

\* An expansion, an assignment or a redirection fails, or an exec error.
RunFails ==
  /\ mode = "simple" /\ "fail" \in Commands
  /\ Stay("Simple", Err("Error", 0), sh)
  /\ UNCHANGED world

\* An external command whose wait sees the cancellation: it is killed.
RunCancelled ==
  /\ mode = "simple" /\ Sees
  /\ Stay("Simple", Err("Cancelled", 0), sh)
  /\ UNCHANGED world

AsManyAsThere(n) == IF n < sh.loopDepth THEN n ELSE sh.loopDepth

\* break [n] and continue [n]: nothing outside loops, exit for a bad number.
RunJump(tag, name) ==
  /\ mode = "simple" /\ name \in Commands
  /\ \/ sh.loopDepth = 0 /\ Stay("Simple", Ok(0), sh)
     \/ /\ sh.loopDepth > 0
        /\ \E n \in 1 .. MaxLoops : Stay("Simple", Err(tag, AsManyAsThere(n)), sh)
     \/ "exit" \in Commands /\ Stay("Simple", Err("Exit", 1), sh)
  /\ UNCHANGED world

\* return [n] and exit [n].
RunEnd(tag, name) ==
  /\ mode = "simple" /\ name \in Commands
  /\ \E n \in {0, 1, sh.status} : Stay("Simple", Err(tag, n), sh)
  /\ UNCHANGED world

RunSet ==
  /\ mode = "simple" /\ "set" \in Commands
  /\ \E b \in BOOLEAN : Stay("Simple", Ok(0), [sh EXCEPT !.errexit = b])
  /\ UNCHANGED world

RunTrap ==
  /\ mode = "simple" /\ "trap" \in Commands
  /\ \/ \E p \in {0, sh.self} : Stay("Simple", Ok(0), [sh EXCEPT !.exitTrap = p])
     \/ \E b \in BOOLEAN : Stay("Simple", Ok(0), [sh EXCEPT !.intTrap = b])
  /\ UNCHANGED world

\* eval_function: a scope, and positional parameters that come and go with it.
CallFunction ==
  /\ mode = "simple" /\ "call" \in Commands /\ sh.scopes < MaxLoops
  /\ Enter(Frame("Func", "func", 0, NewShell), [NoExec(sh) EXCEPT !.scopes = @ + 1])
  /\ UNCHANGED world

\* The `?' of a prefix assignment of a call, after push_scope.
CallFails ==
  /\ mode = "simple" /\ {"call", "fail"} \subseteq Commands /\ sh.scopes < MaxLoops
  /\ Stay("Simple", Err("Error", 0), [NoExec(sh) EXCEPT !.scopes = @ + 1, !.escaped = TRUE])
  /\ UNCHANGED world

\* Only return is caught at the end of a function.
AfterFunction ==
  /\ mode = "ret" /\ Top.kind = "Func"
  /\ Leave("Simple", IF res.tag = "Return" THEN Ok(res.n) ELSE res,
           [sh EXCEPT !.scopes = @ - 1])
  /\ UNCHANGED world

\* eval and dot: run_inline evaluates the commands of a text one by one, with
\* whatever ev_exit the builtin was called with.
RunScript(k) ==
  /\ mode = "simple" /\ k \in Commands
  /\ Enter(Frame(k, "script", 0, NewShell), sh)
  /\ UNCHANGED world

Swallowed(s) == Leave("Simple", Ok(1), s)
Thrown(s)    == Leave("Simple", res, s)

AfterScript ==
  /\ mode = "ret" /\ Top.at = "script"
  /\ \/ res.tag = "Ok" /\ Proceed(Top, [sh EXCEPT !.status = res.n])
     \/ res.tag = "Ok" /\ Leave("Simple", res, sh)
     \/ Top.kind = "dot" /\ res.tag = "Return" /\ Leave("Simple", Ok(res.n), sh)
     \/ res.tag # "Ok" /\ ~(Top.kind = "dot" /\ res.tag = "Return") /\ Thrown(sh)
  /\ UNCHANGED world

-----------------------------------------------------------------------------
(* Processes: subshells, pipeline stages and command substitutions.         *)

\* A subshell drops the EXIT trap it inherited.
TrapKept    == sh.exitTrap
TrapDropped == 0

\* The child's Shell.  Of a pipeline the last stage is followed; its status
\* is the pipeline's.
Child(k) ==
  [sh EXCEPT !.self     = Len(stack) + 1,
             !.forked   = TRUE,
             !.blind    = sh.blind \/ ~cancelled,
             !.evExit   = IF k = "comsub" THEN @ ELSE k = "Pipeline",
             !.exitTrap = IF k = "Subshell" THEN TrapDropped ELSE @]

\* The Shell the parent goes on with.
ParentMarked(k) == [sh EXCEPT !.evExit = k = "Pipeline"]
Parent(k)       == NoExec(sh)

EnterFork(k) ==
  /\ Starts(k)
  /\ k = "Subshell" => ~sh.forked
  /\ Enter(Frame(k, "child", 0, Parent(k)), Child(k))
  /\ UNCHANGED world

\* pipe or fork fails; or a redirection does, in the child.
ForkFails(k) ==
  /\ Starts(k) /\ "fail" \in Commands
  /\ \/ Stay(k, Err("Error", 0), NoExec(sh))
     \/ k = "Subshell" /\ Stay(k, Ok(1), NoExec(sh))
  /\ UNCHANGED world

\* In a forked child a subshell runs in the child itself.
EnterInline ==
  /\ Starts("Subshell") /\ sh.forked
  /\ Enter(Frame("Subshell", "body", 0, NewShell), NoExec(sh))
  /\ UNCHANGED world

\* eval_background: the parent goes on at once (its child is not followed).
RunBackground ==
  /\ Starts("Background")
  /\ \/ Stay("Background", Ok(0), NoExec(sh))
     \/ "fail" \in Commands /\ Stay("Background", Err("Error", 0), NoExec(sh))
  /\ UNCHANGED world

EnterComsub ==
  /\ mode = "simple" /\ "comsub" \in Commands
  /\ Enter(Frame("comsub", "child", 0, sh), Child("comsub"))
  /\ UNCHANGED world

\* What a wait reports: after a cancellation that, whatever the child did.
Reported(f, r) == IF f.drains THEN Err("Cancelled", 0) ELSE r

\* The process ends with status c and its parent learns of it.  A
\* command substitution yields a word whatever its wait said; a cancellation
\* the wait reports is dropped by the expansion.
ProcessEnds(c) ==
  LET f == stack[sh.self]
  IN  /\ stack' = SubSeq(stack, 1, sh.self - 1)
      /\ \/ f.kind # "comsub" /\ Complete(f.kind, Reported(f, Ok(c)), f.parent)
         \/ /\ f.kind = "comsub"
            /\ sh' = [f.parent EXCEPT !.status = c]
            /\ mode' = "simple" /\ res' = NoResult
         \/ /\ f.kind = "comsub" /\ cancelled /\ (conf.deadline \/ ~f.parent.blind)
            /\ sh' = f.parent
            /\ mode' = "simple" /\ res' = NoResult

\* With ev_exit an external command replaces the process.
Exec ==
  /\ mode = "simple" /\ sh.evExit
  /\ \E n \in {0, 1} : ProcessEnds(n)
  /\ UNCHANGED world

\* run_exit_trap: remove the trap, then evaluate its commands.
RunExitTrap(at, n) ==
  /\ stack' = Append(stack, Frame("ExitTrap", at, n, NewShell))
  /\ sh' = [sh EXCEPT !.exitTrap = 0]
  /\ mode' = "call" /\ res' = NoResult

AfterChild ==
  /\ mode = "ret" /\ Top.at = "child"
  /\ LET c == IF res.tag \in {"Ok", "Exit"} THEN res.n ELSE 1
     IN  IF Top.kind # "Pipeline" /\ sh.exitTrap # 0
         THEN RunExitTrap("exit", c)
         ELSE ProcessEnds(c)
  /\ UNCHANGED world

\* The parent polls while it waits.  (Nothing polls while the output of a
\* command substitution is read.)
Blocking(i) == FALSE
Polling(i)  == stack[i].kind # "comsub"

\* The parent of the child of frame i sees the cancellation, for the first
\* time in this wait: it kills the group that the awaited PID names.
SeesWaiting(i) ==
  /\ mode # "done" /\ stack[i].at = "child" /\ Polling(i) /\ ~stack[i].drains
  /\ cancelled /\ (conf.deadline \/ ~stack[i].parent.blind)

\* The child is in that group, and dies of it.
ParentCancels(i) ==
  /\ SeesWaiting(i)
  /\ stack' = SubSeq(stack, 1, i - 1)
  /\ Complete(stack[i].kind, Err("Cancelled", 0), stack[i].parent)
  /\ UNCHANGED world

\* There is no such group: the child has yet to run its setpgid, or the stage
\* that is awaited is not the first of its pipeline.  The child goes on, and
\* the parent, which polls no more, waits for it to end.
ParentMisses(i) ==
  /\ SeesWaiting(i)
  /\ stack[i].kind = "Pipeline" \/ (i = Len(stack) /\ mode = "call")
  /\ stack' = [stack EXCEPT ![i].drains = TRUE]
  /\ UNCHANGED <<mode, res, sh, world>>

\* In interactive mode the wait also reports a stopped child.
ChildStops(i) ==
  /\ mode # "done" /\ stack[i].at = "child" /\ stack[i].kind # "comsub"
  /\ conf.interactive
  /\ stack' = SubSeq(stack, 1, i - 1)
  /\ Complete(stack[i].kind, Reported(stack[i], Err("Stopped", 0)), stack[i].parent)
  /\ UNCHANGED world

-----------------------------------------------------------------------------
(* run_program, and the traps it runs.                                      *)

ProgramEnds(c) ==
  /\ mode' = "done" /\ code' = c /\ res' = NoResult
  /\ UNCHANGED <<conf, cancelled, pending, runs>>

\* Run the EXIT trap if there is one, then return n (at = "exit") or $?.
FinishProgram(at, n, s) ==
  IF s.exitTrap # 0
  THEN /\ stack' = Append(stack, Frame("ExitTrap", at, n, NewShell))
       /\ sh' = [s EXCEPT !.exitTrap = 0]
       /\ mode' = "call" /\ res' = NoResult /\ UNCHANGED world
  ELSE /\ ProgramEnds(IF at = "exit" THEN n ELSE s.status)
       /\ sh' = s /\ UNCHANGED stack

AfterTopCommand ==
  /\ mode = "ret" /\ Top.at = "main"
  /\ \/ /\ res.tag = "Ok"
        /\ mode' = "between" /\ sh' = [sh EXCEPT !.status = res.n]
        /\ res' = NoResult /\ UNCHANGED <<stack, world>>
     \/ res.tag = "Exit" /\ FinishProgram("exit", res.n, sh)
     \/ res.tag = "Cancelled" /\ ProgramEnds(130) /\ UNCHANGED <<stack, sh>>
     \/ res.tag = "Stopped" /\ ProgramEnds(148) /\ UNCHANGED <<stack, sh>>
     \/ /\ res.tag \notin {"Ok", "Exit", "Cancelled", "Stopped"}
        /\ FinishProgram("end", 0, [sh EXCEPT !.status = 2])

\* run_pending_traps: take the flag; errors of the action are dropped.
RunPendingTraps ==
  /\ mode = "between"
  /\ pending' = FALSE
  /\ IF pending /\ sh.intTrap
     THEN /\ stack' = Append(stack, Frame("SigTrap", "trap", 0, NewShell))
          /\ mode' = "call"
     ELSE mode' = "next" /\ UNCHANGED stack
  /\ UNCHANGED <<res, sh, conf, cancelled, code, runs>>

NextCommand ==
  /\ mode = "next"
  /\ \/ mode' = "call" /\ UNCHANGED <<stack, res, sh, world>>
     \/ FinishProgram("end", 0, sh)

\* A command of a trap action is over, and it was not the last.
TrapGoesOn ==
  /\ mode = "ret" /\ IsTrap(Top)
  /\ mode' = "call" /\ res' = NoResult /\ UNCHANGED <<stack, sh, world>>

TrapEnds ==
  /\ mode = "ret" /\ IsTrap(Top)
  /\ \/ /\ Top.kind = "SigTrap"
        /\ stack' = Below /\ mode' = "next" /\ res' = NoResult
        /\ UNCHANGED <<sh, world>>
     \/ /\ Top.kind = "ExitTrap" /\ InMain
        /\ ProgramEnds(IF Top.at = "exit" THEN Top.last ELSE sh.status)
        /\ stack' = Below /\ UNCHANGED sh
     \/ /\ Top.kind = "ExitTrap" /\ ~InMain
        /\ ProcessEnds(Top.last) /\ UNCHANGED world

\* The embedder runs another program on the same Shell.
RunAgain ==
  /\ mode = "done" /\ runs < MaxRuns
  /\ runs' = runs + 1 /\ cancelled' = FALSE
  /\ mode' = "call" /\ code' = 0
  /\ UNCHANGED <<stack, res, sh, conf, pending>>

-----------------------------------------------------------------------------
(* The environment.                                                         *)

Cancel ==
  /\ ~cancelled /\ mode # "done"
  /\ cancelled' = TRUE
  /\ UNCHANGED <<control, conf, pending, code, runs>>

Signal ==
  /\ MainShell.intTrap /\ ~pending /\ mode # "done"
  /\ pending' = TRUE
  /\ UNCHANGED <<control, conf, cancelled, code, runs>>

-----------------------------------------------------------------------------
Run ==
  \/ RunStatus
  \/ RunFails
  \/ RunCancelled
  \/ RunJump("Break", "break")
  \/ RunJump("Continue", "continue")
  \/ RunEnd("Return", "return")
  \/ RunEnd("Exit", "exit")
  \/ RunSet
  \/ RunTrap
  \/ CallFunction
  \/ CallFails
  \/ \E k \in {"eval", "dot"} : RunScript(k)
  \/ Exec

Evaluate ==
  \/ CancelledBefore
  \/ \E k \in Conditional : EnterConditional(k)
  \/ \E k \in Plain : EnterPlain(k)
  \/ \E k \in {"Brace", "Case", "For"} : PlainFails(k)
  \/ \E k \in {"Case", "FuncDef"} : NothingToRun(k)
  \/ \E k \in Loops : EnterLoop(k)
  \/ \E k \in {"Subshell", "Pipeline"} : EnterFork(k) \/ ForkFails(k)
  \/ EnterInline
  \/ RunBackground
  \/ BeginSimple
  \/ EnterComsub
  \/ Run

Return ==
  \/ ConditionFails
  \/ AfterCondition
  \/ AfterLeft
  \/ AfterBody
  \/ LoopHead
  \/ AfterLoopBody
  \/ AfterFunction
  \/ AfterScript
  \/ AfterChild
  \/ AfterTopCommand
  \/ RunPendingTraps
  \/ NextCommand
  \/ TrapGoesOn
  \/ TrapEnds

Poll(i) == ParentCancels(i) \/ ParentMisses(i)
Wait    == \E i \in 1 .. Len(stack) : Poll(i) \/ ChildStops(i)

Finished == mode = "done" /\ UNCHANGED vars

Next == Evaluate \/ Return \/ Wait \/ RunAgain \/ Cancel \/ Signal \/ Finished

Spec == Init /\ [][Next]_vars

\* The shell and the poll of a waiting parent are scheduled, and the text of a
\* trap action is finite.  Nothing makes a simple command end: it may be an
\* external command, wait or read, or have an endless substitution among its
\* words.  (When these end is the subject of Jobs.)
FairSpec ==
  /\ Spec
  /\ WF_vars(mode # "simple" /\ (Evaluate \/ Return))
  /\ WF_vars(\E i \in 1 .. Len(stack) : Poll(i))
  /\ SF_vars(TrapEnds)

-----------------------------------------------------------------------------
(* Properties.                                                              *)

Frames    == 1 .. Len(stack)
LoopCount == Cardinality({i \in Frames : stack[i].kind \in Loops})

ShellType ==
  [self : Nat \ {0}, tested : BOOLEAN, loopDepth : 0 .. MaxLoops, scopes : 0 .. MaxLoops,
   status : 0 .. 2, errexit : BOOLEAN, evExit : BOOLEAN, forked : BOOLEAN,
   blind : BOOLEAN, exitTrap : Nat, intTrap : BOOLEAN, escaped : BOOLEAN]
FrameType ==
  [kind : AllCommands \cup {"Program", "Func", "ExitTrap", "SigTrap"},
   at : {"main", "child", "cond", "left", "body", "head", "func", "script",
         "trap", "exit", "end"},
   saved : BOOLEAN, last : 0 .. 2, parent : ShellType, drains : BOOLEAN]

TypeOK ==
  /\ conf \in [interactive : BOOLEAN, deadline : BOOLEAN]
  /\ cancelled \in BOOLEAN /\ pending \in BOOLEAN
  /\ stack \in Seq(FrameType) /\ stack # <<>> /\ sh \in ShellType
  /\ mode \in {"call", "simple", "head", "ret", "between", "next", "done"}
  /\ res \in [tag : {"Ok", "Exit", "Return", "Break", "Continue", "Error",
                     "Cancelled", "Stopped"}, n : Nat]
  /\ code \in Nat /\ runs \in Nat

\* errexit never ends the shell inside a condition: as long as any call in
\* progress is evaluating one, be it in a caller of this function or in the
\* parent of this subshell, tested is set.
TestedInConditions == (\E i \in Frames : stack[i].at = "cond") => sh.tested

\* Unless an error has left a condition, the head of a loop or the assignments
\* of a call, the Shell says what the calls in progress are: tested is set
\* only inside a condition, loop_depth is the number of loops, and there is a
\* scope for each function; and a break or continue has a loop to reach: it
\* never gets to run_program, where it would end the script with status 2.
ContextExact ==
  ~sh.escaped =>
    /\ sh.tested => \E i \in Frames : stack[i].at = "cond"
    /\ sh.loopDepth = LoopCount
    /\ sh.scopes = Cardinality({i \in Frames : stack[i].kind = "Func"})
    /\ (mode = "ret" /\ res.tag \in {"Break", "Continue"}) => res.n \in 1 .. LoopCount

\* Where an external command may replace the process, no compound command and
\* no function of that process is in progress, to be cut short by it: only the
\* texts of eval, dot and an EXIT trap.
ExecCutsNoCompound ==
  sh.evExit => \A i \in (sh.self + 1) .. Len(stack) :
                 stack[i].kind \in {"eval", "dot", "ExitTrap"}

\* The embedder's process is never replaced but by the exec builtin: where an
\* external command execs directly, the process is a child.
MainNeverExecs == sh.evExit => ~InMain

\* The EXIT trap that a subshell or the main shell runs was set by it.
ExitTrapIsOwn ==
  stack[sh.self].kind \in {"Program", "Subshell"} => sh.exitTrap \in {0, sh.self}

\* A cancellation that the main process has noticed goes up through every
\* call to run_program, which returns 130: nothing else is evaluated.  (What
\* the wait for a command substitution reports never gets this far: the
\* expansion drops it, and the next check notices the cancellation.)
Unwinding == mode = "ret" /\ res.tag = "Cancelled" /\ InMain /\ \A i \in Frames : ~IsTrap(stack[i])
CancelUnwinds ==
  [][Unwinding => \/ mode' = "ret" /\ res' = res
                  \/ mode' = "done" /\ code' = 130]_<<mode, res, stack>>

\* A process waits where nothing polls: in a simple command, for the output of
\* a command substitution, or for a child that the kill has missed.
Blocked ==
  \/ mode = "simple"
  \/ \E i \in Frames : stack[i].at = "child" /\ (stack[i].drains \/ stack[i].kind = "comsub")

\* A cancelled script ends (the embedder may run another) or waits for good
\* where nothing polls: no loop, function, text, trap or running process
\* keeps it alive otherwise.
CancelEnds == <>[]Blocked \/ (cancelled ~> (mode = "done" \/ ~cancelled))

-----------------------------------------------------------------------------
(* What comments, documents and tests say and the code does not do.         *)

\* eval.rs, the field tested: "True when evaluating a condition".
TestedOnlyInConditions == sh.tested => \E i \in Frames : stack[i].at = "cond"

\* error.rs: "`break [n]` -- break from n enclosing loops": a loop takes the
\* break of its own condition.
NoStrayBreak == (mode = "ret" /\ Top.at = "main") => res.tag \notin {"Break", "Continue"}

\* eval.rs, the field ev_exit: "the current eval context will exit after the
\* command completes": a process that execs has no command left to run.
ExecIsLast == (mode = "simple" /\ sh.evExit) => sh.self = Len(stack)

\* eval.rs, eval_in_subshell: "parent EXIT trap doesn't run in subshell".
ChildTrapIsOwn ==
  (mode = "ret" /\ Top.at = "child" /\ Top.kind # "Pipeline") =>
    sh.exitTrap \in {0, sh.self}
=============================================================================
