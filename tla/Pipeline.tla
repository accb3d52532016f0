------------------------------ MODULE Pipeline ------------------------------
(***************************************************************************)
(* One multi-stage pipeline of epsh: Shell::eval_pipeline together with    *)
(* the wait (wait_child_pgid) and the kill path (kill_children) it calls,  *)
(* in src/src/eval.rs.                                                     *)
(*                                                                         *)
(* The actors are the shell's main thread (program counter pc), the thread *)
(* that wait_child_pgid starts to sit in waitpid when the shell can be     *)
(* cancelled, the forked stages, background jobs forked by earlier         *)
(* commands, and the embedder, who may raise the cancel flag (or let the   *)
(* deadline pass) at any moment.  The kernel is modelled as far as the     *)
(* code relies on it: process states, process groups, the holders of the   *)
(* two ends of each pipe, and the terminal's foreground group.             *)
(*                                                                         *)
(* Stage i has PID i, the shell has PID Shell; the jobs have the PIDs      *)
(* after the stages.  A process group is named by its leader's PID.        *)
(***************************************************************************)
EXTENDS Integers

CONSTANTS
  NStages,     \* commands.len(), more than one: a single stage is not forked
  NJobs,       \* background children tracked when the pipeline starts
  Codes,       \* exit statuses a process may choose
  StageKinds,  \* how a stage behaves (see MayExit)
  JobKinds     \* how a background job behaves

ASSUME NStagesAssumption == NStages \in Nat /\ NStages >= 2
ASSUME NJobsAssumption   == NJobs \in Nat
ASSUME CodesAssumption   == Codes \subseteq Nat /\ 0 \in Codes
ASSUME KindsAssumption   ==
  /\ StageKinds \subseteq {"finite", "reader", "endless", "tty", "forever"}
  /\ JobKinds \subseteq {"finite", "forever"}

Shell  == 0
Stages == 1 .. NStages
Jobs   == (NStages + 1) .. (NStages + NJobs)
Procs  == 1 .. (NStages + NJobs)
Pipes  == 1 .. (NStages - 1)     \* pipe k joins stage k to stage k + 1
Killed == 137                    \* ExitStatus::from_wait of a SIGKILL death
Status == Codes \cup {Killed}

\* Process states: "born" is a child that has not yet run its own setpgid,
\* "grouped" one that has, "running" one whose descriptors are in place too.
Alive  == {"born", "grouped", "running", "stopped"}
Exists == Alive \cup {"zombie"}

NoResult == [tag |-> "none", status |-> 0, pid |-> 0]
Message  == {"none", "stopped", "exited"}

VARIABLES
  conf,         \* options and stage kinds: chosen initially, never changed
  cancelled,    \* the cancel flag is set or the deadline has passed
  pc,           \* control of the shell's main thread
  next,         \* the stage being forked or waited for
  pgid,         \* eval_pipeline's local pgid, 0 until the first fork
  childPids,    \* Shell.child_pids
  chan,         \* what the waiting thread has sent: rx of wait_child_pgid
  lastStatus,   \* eval_pipeline's last_status
  failStatus,   \* eval_pipeline's pipefail_status
  result,       \* what eval_pipeline returns
  pst,          \* process states
  pgrp,         \* process groups (Shell is the shell's own)
  code,         \* wait status a dead process left
  rd, wr,       \* holders of the read and of the write end of each pipe
  fg            \* the terminal's foreground process group

shellVars == <<pc, next, pgid, childPids, chan, lastStatus, failStatus, result>>
procVars  == <<pst, pgrp, code>>
vars      == <<conf, cancelled, shellVars, procVars, rd, wr, fg>>

-----------------------------------------------------------------------------
(* The kernel's side of the calls the shell makes. *)

GroupExists(g) == \E p \in Procs : pgrp[p] = g /\ pst[p] \in Exists

Members(gs) == {p \in Procs : pst[p] \in Alive /\ pgrp[p] \in gs}

\* The group a child puts itself in: setpgid(0, 0) in the first stage and in
\* a job, setpgid(0, pgid) with the pgid it inherited in a later stage.
ChildGroup(p) == IF p \in Jobs \/ p = 1 THEN p ELSE pgid

\* setpgid(p, g) takes effect if g is p itself or an existing group.
SetPgid(p, g) ==
  pgrp' = [pgrp EXCEPT ![p] = IF g = p \/ GroupExists(g) THEN g ELSE @]

\* The processes D die with wait status c: their descriptors are closed.
Die(D, c) ==
  /\ pst'  = [p \in Procs |-> IF p \in D THEN "zombie" ELSE pst[p]]
  /\ code' = [p \in Procs |-> IF p \in D THEN c ELSE code[p]]
  /\ rd'   = [k \in Pipes |-> rd[k] \ D]
  /\ wr'   = [k \in Pipes |-> wr[k] \ D]

\* Who can still write to a stage's stdin, and read its stdout: stage 1 has
\* the shell's own stdin, the last stage the shell's own stdout.
StdinWriters(p)  == IF p - 1 \in Pipes THEN wr[p - 1] ELSE {}
StdoutReaders(p) == IF p \in Pipes THEN rd[p] ELSE {Shell}

\* A running process may end: "finite" any time; "reader" at end of file on
\* its stdin; "endless" when nobody can read what it writes any more; "tty" if
\* it is in the foreground and so may read the terminal; "forever" never.
MayExit(p) ==
  \/ conf.kind[p] = "finite"
  \/ conf.kind[p] = "reader"  /\ StdinWriters(p) = {}
  \/ conf.kind[p] = "endless" /\ StdoutReaders(p) = {}
  \/ conf.kind[p] = "tty"     /\ pgrp[p] = fg

-----------------------------------------------------------------------------
(* Initial states: any options, any stage kinds (only the first stage has   *)
(* the terminal as its stdin, only the others a pipe), jobs of earlier      *)
(* commands that may not have run their setpgid yet (eval_background does   *)
(* not call it in the parent).                                              *)

Confs ==
  {c \in [interactive : BOOLEAN, pollable : BOOLEAN, pipefail : BOOLEAN,
          kind : [Procs -> StageKinds \cup JobKinds]] :
     /\ \A p \in Stages : /\ c.kind[p] \in StageKinds
                          /\ c.kind[p] = "tty" => p = 1
                          /\ c.kind[p] = "reader" => p > 1
     /\ \A p \in Jobs : c.kind[p] \in JobKinds}

Init ==
  /\ conf \in Confs
  /\ cancelled = FALSE
  /\ pc = "pipe" /\ next = 1 /\ pgid = 0
  /\ childPids = Jobs
  /\ chan = "none"
  /\ lastStatus = 0 /\ failStatus = 0
  /\ result = NoResult
  /\ pst \in {s \in [Procs -> {"absent", "born", "running"}] :
                \A p \in Procs : s[p] = "absent" <=> p \in Stages}
  /\ pgrp = [p \in Procs |-> IF pst[p] = "running" THEN p ELSE Shell]
  /\ code = [p \in Procs |-> 0]
  /\ rd = [k \in Pipes |-> {}] /\ wr = [k \in Pipes |-> {}]
  /\ fg = Shell

-----------------------------------------------------------------------------
(* eval_pipeline: create the pipes, fork the stages, close the pipes.       *)

Return(tag, status, pid) ==
  /\ pc' = "done"
  /\ result' = [tag |-> tag, status |-> status, pid |-> pid]

CreatePipes ==
  /\ pc = "pipe"
  /\ pc' = "fork"
  /\ rd' = [k \in Pipes |-> {Shell}] /\ wr' = [k \in Pipes |-> {Shell}]
  /\ UNCHANGED <<conf, cancelled, next, pgid, childPids, chan, lastStatus,
                 failStatus, result, procVars, fg>>

\* pipe() fails: an early return that leaves the pipes made so far open.
PipeFails(k) ==
  /\ pc = "pipe"
  /\ rd' = [j \in Pipes |-> IF j < k THEN {Shell} ELSE {}]
  /\ wr' = rd'
  /\ Return("Io", 0, 0)
  /\ UNCHANGED <<conf, cancelled, next, pgid, childPids, chan, lastStatus,
                 failStatus, procVars, fg>>

\* fork: the child shares every descriptor, the shell's group included.
Fork ==
  /\ pc = "fork"
  /\ pst' = [pst EXCEPT ![next] = "born"]
  /\ rd' = [k \in Pipes |-> rd[k] \cup {next}]
  /\ wr' = [k \in Pipes |-> wr[k] \cup {next}]
  /\ pc' = "join"
  /\ UNCHANGED <<conf, cancelled, next, pgid, childPids, chan, lastStatus,
                 failStatus, result, pgrp, code, fg>>

\* The parent's setpgid for the child it has just forked, refused once the
\* child has gone on to exec (after its own setpgid).
ParentSkipsSetPgid(g) == pgrp' = pgrp
ParentSetPgid(g) ==
  IF pst[next] \in {"born", "grouped"} THEN SetPgid(next, g) ELSE pgrp' = pgrp

\* child_pids.push, and child_pids.retain(|&p| p != pid).
PushForgotten == childPids
Tracked       == childPids \cup {next}
RetainForgotten == childPids
Untracked       == childPids \ {next}

\* The end of the loop over the stages.
LastForked == next = NStages

\* The parent's half after fork.
Join ==
  /\ pc = "join"
  /\ pgid' = IF pgid = 0 THEN next ELSE pgid
  /\ ParentSetPgid(pgid')
  /\ childPids' = Tracked
  /\ IF LastForked
     THEN pc' = "close" /\ next' = next
     ELSE pc' = "fork" /\ next' = next + 1
  /\ UNCHANGED <<conf, cancelled, chan, lastStatus, failStatus, result,
                 pst, code, rd, wr, fg>>

\* Drop the shell's own ends, and those of the processes D.
ShellCloses(D) ==
  /\ rd' = [k \in Pipes |-> rd[k] \ (D \cup {Shell})]
  /\ wr' = [k \in Pipes |-> wr[k] \ (D \cup {Shell})]

\* The signal loop of kill_children: SIGKILL to the group NAMED BY each
\* tracked PID; a PID that leads no group is missed (ESRCH is ignored).
TerminateGroups(pids) == {p \in Members(pids) : pst[p] # "stopped"}
KillGroups(pids) == Members(pids)

\* fork() fails: close the pipes, kill_children, return the error.
ForkFails ==
  /\ pc = "fork"
  /\ LET D == KillGroups(childPids)
     IN  /\ pst'  = [p \in Procs |-> IF p \in D THEN "zombie" ELSE pst[p]]
         /\ code' = [p \in Procs |-> IF p \in D THEN Killed ELSE code[p]]
         /\ ShellCloses(D)
  /\ pc' = "reap"
  /\ result' = [tag |-> "Io", status |-> 0, pid |-> 0]
  /\ UNCHANGED <<conf, cancelled, next, pgid, childPids, chan, lastStatus,
                 failStatus, pgrp, fg>>

ClosePipes ==
  /\ pc = "close"
  /\ ShellCloses({})
  /\ pc' = "give"
  /\ UNCHANGED <<conf, cancelled, next, pgid, childPids, chan, lastStatus,
                 failStatus, result, procVars, fg>>

\* Interactive shells hand the terminal to the pipeline's group.
GiveTerminal ==
  /\ pc = "give"
  /\ fg' = IF conf.interactive /\ pgid > 0 THEN pgid ELSE fg
  /\ pc' = "wait" /\ next' = 1
  /\ UNCHANGED <<conf, cancelled, pgid, childPids, chan, lastStatus,
                 failStatus, result, procVars, rd, wr>>

KeepTerminal    == fg' = fg
ReclaimTerminal == fg' = IF conf.interactive THEN Shell ELSE fg

-----------------------------------------------------------------------------
(* wait_child_pgid, and what eval_pipeline does with its outcome.           *)

\* pipefail_status after a stage that ended with the given status.
PipefailOverwritten(status) == status
PipefailStatus(status) == IF status # 0 THEN status ELSE failStatus

\* Ok(status) for stage next: note it, go to the next stage or return.
StageDone(status) ==
  LET last == IF next = NStages THEN status ELSE lastStatus
      fail == PipefailStatus(status)
  IN  /\ childPids' = Untracked
      /\ lastStatus' = last /\ failStatus' = fail
      /\ IF next < NStages
         THEN /\ next' = next + 1
              /\ UNCHANGED <<pc, result, fg>>
         ELSE /\ next' = next
              /\ ReclaimTerminal
              /\ Return("Ok", IF conf.pipefail /\ fail # 0 THEN fail ELSE last, 0)

\* Err(Stopped): the child stays tracked, the terminal is taken back, and the
\* PID reported is that of the LAST stage.
StageStoppedForgotten ==
  /\ ReclaimTerminal
  /\ Return("Stopped", 0, NStages)
  /\ childPids' = Untracked
  /\ UNCHANGED <<next, lastStatus, failStatus>>
StageStopped ==
  /\ ReclaimTerminal
  /\ Return("Stopped", 0, NStages)
  /\ UNCHANGED <<next, childPids, lastStatus, failStatus>>

\* waitpid(pid), with WUNTRACED only in an interactive shell.
Reap(p)        == pst[p] = "zombie" /\ pst' = [pst EXCEPT ![p] = "reaped"]
ReportsStop(p) == pst[p] = "stopped" /\ conf.interactive

\* Without a cancel flag and a deadline the main thread itself is in waitpid.
WaitBlocking ==
  /\ pc = "wait" /\ ~conf.pollable
  /\ \/ Reap(next) /\ StageDone(code[next])
     \/ ReportsStop(next) /\ StageStopped /\ UNCHANGED pst
  /\ UNCHANGED <<conf, cancelled, pgid, chan, pgrp, code, rd, wr>>

\* Otherwise a thread is; it sends what waitpid returned and ends.
WaiterThread ==
  /\ pc \in {"wait", "drain"} /\ conf.pollable /\ chan = "none"
  /\ \/ Reap(next) /\ chan' = "exited"
     \/ ReportsStop(next) /\ chan' = "stopped" /\ UNCHANGED pst
  /\ UNCHANGED <<conf, cancelled, pc, next, pgid, childPids, lastStatus,
                 failStatus, result, pgrp, code, rd, wr, fg>>

\* recv_timeout returns the message.
Receive ==
  /\ pc = "wait" /\ chan # "none"
  /\ chan' = "none"
  /\ \/ chan = "exited" /\ StageDone(code[next])
     \/ chan = "stopped" /\ StageStopped
  /\ UNCHANGED <<conf, cancelled, pgid, procVars, rd, wr>>

\* recv_timeout timed out and check_cancel fails: SIGKILL the group named by
\* the awaited PID, then block in rx.recv().  (The message may have arrived
\* between the timeout and the check.)
CancelSeen ==
  /\ pc = "wait" /\ conf.pollable /\ cancelled
  /\ Die(KillGroups({next}), Killed)
  /\ pc' = "drain"
  /\ UNCHANGED <<conf, cancelled, next, pgid, childPids, chan, lastStatus,
                 failStatus, result, pgrp, fg>>

\* rx.recv() returns: forget the child whatever the message says, take the
\* terminal back, and run the signal loop of kill_children.
Drained ==
  /\ pc = "drain" /\ chan # "none"
  /\ chan' = "none"
  /\ childPids' = Untracked
  /\ ReclaimTerminal
  /\ Die(KillGroups(childPids'), Killed)
  /\ pc' = "reap"
  /\ result' = [tag |-> "Cancelled", status |-> 0, pid |-> 0]
  /\ UNCHANGED <<conf, cancelled, next, pgid, lastStatus, failStatus, pgrp>>

-----------------------------------------------------------------------------
(* The second loop of kill_children: a blocking waitpid per tracked PID.    *)

ReapChild(p) ==
  /\ pc = "reap" /\ p \in childPids
  /\ Reap(p)
  /\ UNCHANGED <<conf, cancelled, shellVars, pgrp, code, rd, wr, fg>>

AwaitNone == TRUE
AllReaped == \A p \in childPids : pst[p] = "reaped"

ClearChildren ==
  /\ pc = "reap"
  /\ AllReaped
  /\ childPids' = {}
  /\ pc' = "done"
  /\ UNCHANGED <<conf, cancelled, next, pgid, chan, lastStatus, failStatus,
                 result, procVars, rd, wr, fg>>

-----------------------------------------------------------------------------
(* The children, the terminal and the embedder.                             *)

ChildSetPgid(p) ==
  /\ pst[p] = "born"
  /\ SetPgid(p, ChildGroup(p))
  /\ pst' = [pst EXCEPT ![p] = IF p \in Jobs THEN "running" ELSE "grouped"]
  /\ UNCHANGED <<conf, cancelled, shellVars, code, rd, wr, fg>>

\* dup2 the two pipe ends the stage uses onto 0 and 1, then close every pipe
\* descriptor.
ChildConnectLeaky(p) ==
  /\ pst[p] = "grouped"
  /\ pst' = [pst EXCEPT ![p] = "running"]
  /\ UNCHANGED <<conf, cancelled, shellVars, pgrp, code, rd, wr, fg>>
ChildConnect(p) ==
  /\ pst[p] = "grouped"
  /\ pst' = [pst EXCEPT ![p] = "running"]
  /\ rd' = [k \in Pipes |-> IF k = p - 1 THEN rd[k] ELSE rd[k] \ {p}]
  /\ wr' = [k \in Pipes |-> IF k = p THEN wr[k] ELSE wr[k] \ {p}]
  /\ UNCHANGED <<conf, cancelled, shellVars, pgrp, code, fg>>

Exit(p) ==
  /\ pst[p] = "running" /\ MayExit(p)
  /\ \E c \in Codes : Die({p}, c)
  /\ UNCHANGED <<conf, cancelled, shellVars, pgrp, fg>>

\* Job control stops a whole group: Ctrl-Z for the foreground group, SIGTTIN
\* for a background group one of whose members reads the terminal.
StopGroup(g) ==
  /\ \/ g = fg
     \/ \E p \in Procs : /\ pgrp[p] = g /\ pst[p] = "running"
                         /\ conf.kind[p] = "tty" /\ g # fg
  /\ Members({g}) # {}
  /\ pst' = [p \in Procs |-> IF p \in Members({g}) THEN "stopped" ELSE pst[p]]
  /\ UNCHANGED <<conf, cancelled, shellVars, pgrp, code, rd, wr, fg>>

Cancel ==
  /\ conf.pollable /\ ~cancelled
  /\ cancelled' = TRUE
  /\ UNCHANGED <<conf, shellVars, procVars, rd, wr, fg>>

-----------------------------------------------------------------------------
ShellStep ==
  \/ CreatePipes
  \/ \E k \in Pipes : PipeFails(k)
  \/ Fork
  \/ Join
  \/ ForkFails
  \/ ClosePipes
  \/ GiveTerminal
  \/ WaitBlocking
  \/ Receive
  \/ CancelSeen
  \/ Drained
  \/ \E p \in Procs : ReapChild(p)
  \/ ClearChildren

ProcStep(p) == ChildSetPgid(p) \/ ChildConnect(p) \/ Exit(p)

\* eval_pipeline has returned.
Finished == pc = "done" /\ UNCHANGED vars

Next ==
  \/ ShellStep
  \/ WaiterThread
  \/ \E p \in Procs : ProcStep(p)
  \/ \E g \in Stages : StopGroup(g)
  \/ Cancel
  \/ Finished

Spec == Init /\ [][Next]_vars

\* The shell's two threads and every process are scheduled; nothing makes a
\* user stop a pipeline or cancel it.
Fairness ==
  /\ WF_vars(ShellStep)
  /\ WF_vars(WaiterThread)
  /\ \A p \in Procs : WF_vars(ProcStep(p))

FairSpec == Spec /\ Fairness

-----------------------------------------------------------------------------
(* Properties.                                                              *)

TypeOK ==
  /\ conf \in Confs
  /\ cancelled \in BOOLEAN
  /\ pc \in {"pipe", "fork", "join", "close", "give", "wait", "drain", "reap", "done"}
  /\ next \in Stages
  /\ pgid \in {0} \cup Stages
  /\ childPids \subseteq Procs
  /\ chan \in Message
  /\ lastStatus \in Status /\ failStatus \in Status
  /\ result \in [tag : {"none", "Ok", "Io", "Stopped", "Cancelled"},
                 status : Status, pid : {0, NStages}]
  /\ pst \in [Procs -> Exists \cup {"absent", "reaped"}]
  /\ pgrp \in [Procs -> {Shell} \cup Procs]
  /\ code \in [Procs -> Status]
  /\ rd \in [Pipes -> SUBSET ({Shell} \cup Stages)]
  /\ wr \in [Pipes -> SUBSET ({Shell} \cup Stages)]
  /\ fg \in {Shell} \cup Stages

\* A PID the shell may still signal or wait for is never one it has already
\* reaped (the kernel could have given it to another process): child_pids
\* holds no reaped PID, but for the child whose message is on its way.
NoStalePid ==
  pc # "reap" =>
    \A p \in childPids : pst[p] \in Exists \/ (p = next /\ chan = "exited")

\* No child is lost: one that exists is tracked, so that a later wait or
\* kill_children reaches it.  (In an interactive shell a stop reported after
\* the cancel makes wait_child_pgid forget a living child.)
NoLostChild ==
  ~conf.interactive =>
    \A p \in Procs :
      pst[p] \in Exists => p \in childPids \/ (pc = "join" /\ p = next)

\* Once the parent has forked every stage, each stage that exists is in the
\* group of the first, whichever of parent and child ran its setpgid first:
\* the terminal handoff, a stop and a resume reach the whole pipeline.
PipelineGrouped ==
  (pc \in {"close", "give", "wait", "drain"} \/ result.tag = "Stopped") =>
    \A p \in Stages : pst[p] \in Exists => pgrp[p] = 1

\* Every path out of eval_pipeline gives the terminal back to the shell.
TerminalReturned == pc \in {"reap", "done"} => fg = Shell

\* The status of a pipeline, from the statuses its stages left, whatever the
\* order they end in: that of the last stage, or under pipefail that of the
\* last stage that failed: the rule of the code and of README.md:69 ("Use the
\* last nonzero pipeline status"), not of eval.rs:320 (see PipefailHighest).
LastFailing(i) == code[i] # 0 /\ \A j \in Stages : j > i => code[j] = 0
StatusCorrect ==
  result.tag = "Ok" =>
    IF conf.pipefail /\ \E i \in Stages : code[i] # 0
    THEN \E i \in Stages : LastFailing(i) /\ result.status = code[i]
    ELSE result.status = code[NStages]

\* A non-interactive shell that reports a cancellation has killed and reaped
\* every stage and every tracked job: nothing survives it.
CancelKillsAll ==
  (pc = "done" /\ result.tag = "Cancelled" /\ ~conf.interactive) =>
    \A p \in Procs : pst[p] = "reaped"

\* A stopped pipeline can be resumed: a stage is stopped, and every stage
\* that is left is tracked and in the reported group.
StoppedResumable ==
  result.tag = "Stopped" =>
    /\ \E p \in Stages : pst[p] = "stopped"
    /\ \A p \in Stages : pst[p] \in Exists => p \in childPids /\ pgrp[p] = pgid

\* A pipeline whose stages end by themselves when they see end of file or a
\* closed reader ends: nobody keeps a pipe end that keeps a stage waiting.
\* (A job that never ends and has not made its own group yet would hold up the
\* wait of a failed fork's kill_children.)
Drains ==
  /\ \A p \in Stages : conf.kind[p] \in {"finite", "reader", "endless"}
  /\ \A p \in Stages : conf.kind[p] = "endless" =>
                           p < NStages /\ conf.kind[p + 1] = "finite"
  /\ \A p \in Jobs : conf.kind[p] = "finite" \/ pgrp[p] = p
Terminates == (pc = "pipe" /\ Drains /\ ~conf.interactive) ~> pc = "done"

\* A cancellation seen while the FIRST stage is awaited ends the pipeline even
\* if no stage would ever exit: the awaited PID names the whole group.
CancelOfLeaderReturns ==
  (pc = "drain" /\ next = 1 /\ \A p \in Jobs : pgrp[p] = p) ~> pc = "done"

-----------------------------------------------------------------------------
(* What comments and documents say and the code does not do.                *)

\* eval.rs:320: "-o pipefail: return highest nonzero status from any pipeline
\* stage" (and the help text, main.rs:107).
PipefailHighest ==
  (result.tag = "Ok" /\ conf.pipefail) =>
    \A i \in Stages : code[i] <= result.status
=============================================================================
