-------------------------------- MODULE Jobs --------------------------------
(***************************************************************************)
(* The processes that a Shell creates one at a time (eval_external,        *)
(* eval_in_subshell, eval_background, the forking path of command_subst),  *)
(* the wait builtin, the waiting itself (wait_child_pgid, with its thread  *)
(* and its polls of the cancel flag), the relay threads that copy a        *)
(* command's output to the sinks, and what run_program does when a call    *)
(* comes back cancelled (kill_children).                                   *)
(*                                                                         *)
(* Descendants run beside the shell: they fork, in the group of their      *)
(* parent or in one of their own, inherit the write end of the pipe that   *)
(* the shell reads, write to it and end, when they like; the shell's own   *)
(* children may be stopped and continued.  The kernel gives the PIDs of    *)
(* reaped processes to new ones, strangers included.                       *)
(* Pipelines have a module of their own.                                   *)
(***************************************************************************)
EXTENDS Integers, FiniteSets

CONSTANTS
  Shell,        \* the shell's process, and its group
  Nobody,       \* no process
  Pids,         \* what fork returns
  MaxOps,       \* bound: commands and command substitutions of the script
  MaxForks,     \* bound: processes forked by descendants
  MaxStops,     \* bound: how often a child is stopped
  Strangers     \* bound: processes that have nothing to do with the shell

ASSUME JobsAssumption ==
  /\ Shell \notin Pids /\ Nobody \notin Pids /\ Shell # Nobody
  /\ MaxOps \in Nat /\ MaxForks \in Nat /\ MaxStops \in Nat /\ Strangers \in Nat

VARIABLES
  life,      \* of a PID: "free", "young" (forked, yet to run setpgid), "runs",
             \* "stopped", "zombie"
  parent,    \* of a PID: Shell, another PID, or Nobody (adopted, or not the shell's)
  group,     \* of a PID: the process group
  holds,     \* the processes that have the pipe's write end open
  unread,    \* the pipe has output that the shell has not read
  pc,        \* where the shell is
  op,        \* the command it is in
  target,    \* the process it waits for
  status,    \* what the waiting thread has sent: "none", "exit" or "stop"
  tracked,   \* child_pids
  unreaped,  \* what the loop of kill_children has yet to wait for
  lost,      \* history: children forgotten with the message of their stop
  polls,     \* a cancel flag or a timeout is configured
  interactive,  \* stopped children are reported (WUNTRACED)
  cancel,    \* the flag is set, or the deadline over
  ops, forks, stops, strangers   \* the bounds' counters

procs  == <<life, parent, group, holds, unread>>
shell  == <<pc, op, target, status, tracked, unreaped, lost>>
opts   == <<polls, interactive>>
counts == <<ops, forks, stops, strangers>>
vars   == <<procs, shell, opts, cancel, counts>>

Kinds == {"none", "external", "subshell", "comsub", "background", "wait"}
\* idle: between commands; go: in a command that has yet to fork, or to fork
\* more; read: read_to_end of a substitution's pipe; poll and
\* block: wait_child_pgid or eval_external with and without a flag; drain: the
\* child is killed, its status awaited; join and quit: the relay threads' ends
\* awaited, to return the status or Cancelled; waitAll: the wait builtin; kill
\* and reap: the loops of kill_children.
Places == {"idle", "go", "read", "poll", "block", "drain", "join", "quit", "waitAll", "kill", "reap", "done"}

TypeOK ==
  /\ life \in [Pids -> {"free", "young", "runs", "stopped", "zombie"}]
  /\ parent \in [Pids -> Pids \cup {Shell, Nobody}]
  /\ group \in [Pids -> Pids \cup {Shell, Nobody}]
  /\ holds \subseteq Pids /\ unread \in BOOLEAN
  /\ pc \in Places /\ op \in Kinds
  /\ target \in Pids \cup {Nobody} /\ status \in {"none", "exit", "stop"}
  /\ tracked \subseteq Pids /\ unreaped \subseteq tracked /\ lost \subseteq Pids
  /\ polls \in BOOLEAN /\ interactive \in BOOLEAN /\ cancel \in BOOLEAN
  /\ ops \in 0 .. MaxOps /\ forks \in 0 .. MaxForks
  /\ stops \in 0 .. MaxStops /\ strangers \in 0 .. Strangers

Init ==
  /\ life = [p \in Pids |-> "free"]
  /\ parent = [p \in Pids |-> Nobody] /\ group = [p \in Pids |-> Nobody]
  /\ holds = {} /\ unread = FALSE
  /\ pc = "idle" /\ op = "none" /\ target = Nobody /\ status = "none"
  /\ tracked = {} /\ unreaped = {} /\ lost = {}
  /\ polls \in BOOLEAN /\ interactive \in BOOLEAN /\ cancel = FALSE
  /\ ops = 0 /\ forks = 0 /\ stops = 0 /\ strangers = 0

Alive(p)  == life[p] \in {"young", "runs", "stopped"}
Children  == {p \in Pids : life[p] # "free" /\ parent[p] = Shell}

-----------------------------------------------------------------------------
(* The kernel's side.                                                       *)

\* A PID is given again when no process has it and no group is called by it.
Unused(p) == life[p] = "free" /\ \A q \in Pids : life[q] # "free" => group[q] # p

Appears(p, how, from, in) ==
  /\ Unused(p)
  /\ life'   = [life EXCEPT ![p] = how]
  /\ parent' = [parent EXCEPT ![p] = from]
  /\ group'  = [group EXCEPT ![p] = in]

\* The processes in ends end: the shell's children stay as zombies, to be waited
\* for; those whose parent is not the shell are reaped at once.  Their children
\* are adopted.  A zombie loses its parent only with the shell.
End(ends) ==
  /\ life' = [p \in Pids |-> IF p \notin ends THEN life[p]
                             ELSE IF parent[p] = Shell THEN "zombie" ELSE "free"]
  /\ parent' = [p \in Pids |-> IF parent[p] \in ends \/ (p \in ends /\ parent[p] # Shell)
                               THEN Nobody ELSE parent[p]]
  /\ group' = [p \in Pids |-> IF p \in ends /\ parent[p] # Shell THEN Nobody ELSE group[p]]
  /\ holds' = holds \ ends

Group(g) == {p \in Pids : Alive(p) /\ group[p] = g}

\* waitpid(p) has the status of a zombie, which is gone then.
Reaped(p) ==
  /\ life'   = [life EXCEPT ![p] = "free"]
  /\ parent' = [parent EXCEPT ![p] = Nobody]
  /\ group'  = [group EXCEPT ![p] = Nobody]

-----------------------------------------------------------------------------
(* The shell, between commands, and in one that forks.                      *)

Seen == polls /\ cancel

\* eval_command begins: no cancellation is seen at its check.
Begin ==
  /\ pc = "idle" /\ ops < MaxOps /\ ~Seen
  /\ pc' = "go" /\ op' = "none" /\ ops' = ops + 1
  /\ UNCHANGED <<procs, target, status, tracked, unreaped, lost, opts, cancel, forks, stops, strangers>>

\* The command forks nothing, or nothing more.
ForksNoMore ==
  /\ pc = "go"
  /\ pc' = "idle"
  /\ UNCHANGED <<procs, op, target, status, tracked, unreaped, lost, opts, cancel, counts>>

\* A child that the shell makes, and where the shell goes.  (A compound command
\* or a background one has no words: no substitution came before it.)
Makes(kind, p, how, in, place) ==
  /\ pc = "go" /\ (kind \in {"subshell", "background"} => op = "none")
  /\ Appears(p, how, Shell, in)
  /\ op' = kind /\ pc' = place /\ status' = "none"
  /\ target' = IF kind = "background" THEN Nobody ELSE p

Waiting == IF polls THEN "poll" ELSE "block"

\* eval_external, after a check of its own: spawn returns when the child has
\* executed its program, so the setpgid that follows fails (EACCES) and the
\* child stays in the shell's group.  With sinks, relay threads read what it
\* writes.
External(p) ==
  /\ ~Seen
  /\ Makes("external", p, "runs", Shell, Waiting)
  /\ tracked' = tracked \cup {p}
  /\ \E sinks \in BOOLEAN : holds' = IF sinks THEN holds \cup {p} ELSE holds
  /\ UNCHANGED <<unread, unreaped, lost, opts, cancel, counts>>

\* That check sees a cancellation: it goes up to run_program.
ExternalRefused ==
  /\ pc = "go" /\ Seen
  /\ pc' = "kill"
  /\ UNCHANGED <<procs, op, target, status, tracked, unreaped, lost, opts, cancel, counts>>

\* eval_in_subshell: nothing is checked, and the child runs setpgid itself.
Subshell(p) ==
  /\ Makes("subshell", p, "young", Shell, Waiting)
  /\ tracked' = tracked \cup {p}
  /\ UNCHANGED <<holds, unread, unreaped, lost, opts, cancel, counts>>

\* Mutant of Background: the child is not recorded.
BackgroundLost(p) ==
  /\ Makes("background", p, "young", Shell, "idle")
  /\ UNCHANGED <<tracked, holds, unread, unreaped, lost, opts, cancel, counts>>

\* eval_background: as a subshell, not waited for.
Background(p) ==
  /\ Makes("background", p, "young", Shell, "idle")
  /\ tracked' = tracked \cup {p}
  /\ UNCHANGED <<holds, unread, unreaped, lost, opts, cancel, counts>>

\* Mutant of CommandSubst: the shell keeps the write end open.
CommandSubstOpen(p) ==
  /\ ops < MaxOps
  /\ Makes("comsub", p, "young", Shell, "read")
  /\ tracked' = tracked \cup {p}
  /\ holds' = holds \cup {p, Shell} /\ ops' = ops + 1
  /\ UNCHANGED <<unread, unreaped, lost, opts, cancel, forks, stops, strangers>>

\* command_subst, as often as the words of a command have one: nothing is
\* checked; the child writes to a pipe that is read to its end first.
CommandSubst(p) ==
  /\ ops < MaxOps
  /\ Makes("comsub", p, "young", Shell, "read")
  /\ tracked' = tracked \cup {p}
  /\ holds' = holds \cup {p} /\ ops' = ops + 1
  /\ UNCHANGED <<unread, unreaped, lost, opts, cancel, forks, stops, strangers>>

Wait ==
  /\ pc = "go"
  /\ pc' = "waitAll" /\ op' = "wait" /\ target' = Nobody /\ status' = "none"
  /\ UNCHANGED <<procs, tracked, unreaped, lost, opts, cancel, counts>>

\* The script is over, or the check before a command sees the flag and
\* run_program goes on to kill_children.
Finish ==
  /\ pc = "idle"
  /\ pc' \in IF Seen THEN {"kill", "done"} ELSE {"done"}
  /\ UNCHANGED <<procs, op, target, status, tracked, unreaped, lost, opts, cancel, counts>>

-----------------------------------------------------------------------------
(* The shell in a command.                                                  *)

\* The reader of the pipe, command_subst itself or the relay threads, which
\* run beside the waiting: it takes what is there.
Reading == pc = "read" \/ (op = "external" /\ pc \in {"poll", "block", "drain", "join", "quit"})
Read ==
  /\ Reading /\ unread
  /\ unread' = FALSE
  /\ UNCHANGED <<life, parent, group, holds, shell, opts, cancel, counts>>

\* The end of the pipe: nothing to read and nobody to write.
EndOfPipe == ~unread /\ holds = {}

ReadToEnd ==
  /\ pc = "read" /\ EndOfPipe
  /\ pc' = Waiting
  /\ UNCHANGED <<procs, op, target, status, tracked, unreaped, lost, opts, cancel, counts>>

\* The waiting thread's waitpid returns.
ThreadReaps ==
  /\ pc \in {"poll", "drain"} /\ status = "none" /\ life[target] = "zombie" /\ parent[target] = Shell
  /\ Reaped(target)
  /\ status' = "exit"
  /\ UNCHANGED <<holds, unread, pc, op, target, tracked, unreaped, lost, opts, cancel, counts>>

\* With WUNTRACED it reports a stopped child too; Child::wait has no such flag.
ReportsStop ==
  interactive /\ op # "external" /\ life[target] = "stopped" /\ parent[target] = Shell
ThreadSeesStop ==
  /\ pc \in {"poll", "drain"} /\ status = "none" /\ ReportsStop
  /\ status' = "stop"
  /\ UNCHANGED <<procs, pc, op, target, tracked, unreaped, lost, opts, cancel, counts>>

\* Mutant of AfterWait: the relay threads are not joined.
AfterWaitAtOnce == IF op = "comsub" THEN "go" ELSE "idle"
AfterWait == CASE op = "external" -> "join" [] op = "comsub" -> "go" [] OTHER -> "idle"

\* recv_timeout has the status.
PollReceives ==
  /\ pc = "poll" /\ status = "exit"
  /\ tracked' = tracked \ {target}
  /\ pc' = AfterWait
  /\ UNCHANGED <<procs, op, target, status, unreaped, lost, opts, cancel, counts>>

\* Stopped: the child stays in child_pids.  Of a subshell it goes up and ends
\* run_program (the embedder may run another program); of a substitution the
\* expansion makes an empty text.
WaitStopped ==
  /\ \/ pc = "poll" /\ status = "stop"
     \/ pc = "block" /\ ReportsStop
  /\ pc' = IF op = "comsub" THEN "go" ELSE "idle"
  /\ UNCHANGED <<procs, op, target, status, tracked, unreaped, lost, opts, cancel, counts>>

\* recv_timeout has timed out and the flag is set: kill, then wait for the
\* thread.  An external command is killed alone, others with their group.  The
\* thread may have reaped the child in between, and the PID be another's.
\* Mutant of Hit: the group in any case.
HitGroup == Group(target)
Hit == IF op = "external" THEN {p \in {target} : Alive(p)} ELSE Group(target)
PollCancelled ==
  /\ pc = "poll" /\ cancel
  /\ End(Hit)
  /\ pc' = "drain"
  /\ UNCHANGED <<unread, op, target, status, tracked, unreaped, lost, opts, cancel, counts>>

\* The thread has sent what waitpid gave it: the PID is forgotten, though it may
\* have been a stop.  Cancelled goes up to run_program; of a substitution the
\* expansion makes an empty text (unwrap_or_default).
Drained ==
  /\ pc = "drain" /\ status # "none"
  /\ tracked' = tracked \ {target}
  /\ lost' = IF status = "stop" THEN lost \cup {target} ELSE lost
  /\ pc' = CASE op = "external" -> "quit" [] op = "comsub" -> "go" [] OTHER -> "kill"
  /\ UNCHANGED <<procs, op, target, status, unreaped, opts, cancel, counts>>

\* The relay threads have come to the end of the pipe.
Joined ==
  /\ pc \in {"join", "quit"} /\ EndOfPipe
  /\ pc' = IF pc = "quit" THEN "kill" ELSE "idle"
  /\ UNCHANGED <<procs, op, target, status, tracked, unreaped, lost, opts, cancel, counts>>

\* waitpid or Child::wait without a thread.
BlockReaps ==
  /\ pc = "block" /\ life[target] = "zombie" /\ parent[target] = Shell
  /\ Reaped(target)
  /\ tracked' = tracked \ {target}
  /\ pc' = AfterWait
  /\ UNCHANGED <<holds, unread, op, target, status, unreaped, lost, opts, cancel, counts>>

\* builtin_wait: any child is reaped, child_pids is left as it is.
WaitReaps(p) ==
  /\ pc = "waitAll" /\ p \in Children /\ life[p] = "zombie"
  /\ Reaped(p)
  /\ lost' = lost \ {p}
  /\ UNCHANGED <<holds, unread, pc, op, target, status, tracked, unreaped, opts, cancel, counts>>

WaitEnds ==
  /\ pc = "waitAll" /\ Children = {}
  /\ pc' = "idle"
  /\ UNCHANGED <<procs, op, target, status, tracked, unreaped, lost, opts, cancel, counts>>

-----------------------------------------------------------------------------
(* kill_children.                                                           *)

KillChildren ==
  /\ pc = "kill"
  /\ End(UNION {Group(p) : p \in tracked})
  /\ pc' = "reap" /\ unreaped' = tracked
  /\ UNCHANGED <<unread, op, target, status, tracked, lost, opts, cancel, counts>>

\* One waitpid: it returns at once where the process is not a child.
ReapChild(p) ==
  /\ pc = "reap" /\ p \in unreaped
  /\ p \in Children => life[p] = "zombie"
  /\ IF p \in Children THEN Reaped(p) ELSE UNCHANGED <<life, parent, group>>
  /\ unreaped' = unreaped \ {p}
  /\ UNCHANGED <<holds, unread, pc, op, target, status, tracked, lost, opts, cancel, counts>>

ReapEnds ==
  /\ pc = "reap" /\ unreaped = {}
  /\ tracked' = {} /\ pc' = "done"
  /\ UNCHANGED <<procs, op, target, status, unreaped, lost, opts, cancel, counts>>

-----------------------------------------------------------------------------
(* The processes, and the embedder.                                         *)

SetPgid(p) ==
  /\ life[p] = "young"
  /\ life' = [life EXCEPT ![p] = "runs"]
  /\ group' = [group EXCEPT ![p] = p]
  /\ UNCHANGED <<parent, holds, unread, shell, opts, cancel, counts>>

\* A descendant forks, a command (in its group) or a subshell (young); open
\* files are inherited.
Fork(p, q) ==
  /\ life[p] = "runs" /\ group[p] # Nobody /\ forks < MaxForks
  /\ \E how \in {"runs", "young"} : Appears(q, how, p, group[p])
  /\ holds' = IF p \in holds THEN holds \cup {q} ELSE holds
  /\ forks' = forks + 1
  /\ UNCHANGED <<unread, shell, opts, cancel, ops, stops, strangers>>

Write(p) ==
  /\ life[p] = "runs" /\ p \in holds /\ ~unread
  /\ unread' = TRUE
  /\ UNCHANGED <<life, parent, group, holds, shell, opts, cancel, counts>>

Exit(p) ==
  /\ life[p] = "runs"
  /\ End({p})
  /\ UNCHANGED <<unread, shell, opts, cancel, counts>>

\* A child of an interactive shell is stopped, and continued.  (Where nobody
\* asks for stops, a process that is stopped is no more than late.)
Stop(p) ==
  /\ interactive /\ life[p] = "runs" /\ parent[p] = Shell /\ stops < MaxStops
  /\ life' = [life EXCEPT ![p] = "stopped"] /\ stops' = stops + 1
  /\ UNCHANGED <<parent, group, holds, unread, shell, opts, cancel, ops, forks, strangers>>
Continue(p) ==
  /\ life[p] = "stopped"
  /\ life' = [life EXCEPT ![p] = "runs"]
  /\ UNCHANGED <<parent, group, holds, unread, shell, opts, cancel, counts>>

\* A process that is not the shell's gets a PID, and leads its own group.
Stranger(p) ==
  /\ strangers < Strangers
  /\ Appears(p, "runs", Nobody, p)
  /\ strangers' = strangers + 1
  /\ UNCHANGED <<holds, unread, shell, opts, cancel, ops, forks, stops>>

Cancel ==
  /\ polls /\ ~cancel /\ pc # "done"
  /\ cancel' = TRUE
  /\ UNCHANGED <<procs, shell, opts, counts>>

-----------------------------------------------------------------------------
MainThread ==
  \/ Begin \/ ForksNoMore \/ ExternalRefused
  \/ ReadToEnd \/ PollReceives \/ PollCancelled \/ WaitStopped \/ Drained \/ Joined
  \/ BlockReaps \/ WaitEnds \/ KillChildren \/ ReapEnds \/ Finish
  \/ \E p \in Pids : WaitReaps(p) \/ ReapChild(p)
Command ==
  \E p \in Pids : External(p) \/ Subshell(p) \/ Background(p) \/ CommandSubst(p)
Thread == ThreadReaps \/ ThreadSeesStop
Process(p) ==
  SetPgid(p) \/ Write(p) \/ Exit(p) \/ Stop(p) \/ Continue(p) \/ \E q \in Pids : Fork(p, q)

Next ==
  \/ MainThread \/ Read \/ Thread \/ Command \/ Wait \/ Cancel
  \/ \E p \in Pids : Process(p) \/ Stranger(p)

\* The shell's threads are scheduled, and so is a child that has only just been
\* forked; nothing makes a process end, or a stopped one go on.
Spec ==
  /\ Init /\ [][Next]_vars
  /\ WF_vars(MainThread) /\ WF_vars(Read) /\ WF_vars(Thread)
  /\ \A p \in Pids : WF_vars(SetPgid(p))

-----------------------------------------------------------------------------
\* Every child that the shell has not reaped is in child_pids, so that a
\* cancellation finds it, and in what kill_children has yet to wait for: where
\* a cancelled run_program returns no child is left, alive or a zombie.  Only a
\* child whose stop was drained after a cancellation is forgotten.
NoChildForgotten ==
  /\ Children \subseteq tracked \cup lost
  /\ pc = "reap" => Children \subseteq unreaped \cup lost

\* Where nothing reads, between commands and in one that has yet to fork,
\* nothing that was written to a sink or in a substitution is still on its way,
\* nobody can write more, and no thread is left behind.
OutputTaken == pc \in {"idle", "go", "kill", "reap", "done"} => EndOfPipe

\* The waits that no cancellation interrupts: the reading of a substitution's
\* output, the wait builtin, and, after the kill, relay threads whose pipe a
\* descendant keeps open and a child that the kill has missed, because it had
\* not run setpgid.
Uninterrupted ==
  \/ pc \in {"read", "quit", "join"} /\ holds # {}
  \/ pc = "waitAll" /\ \E p \in Children : Alive(p)
  \/ pc = "drain" /\ op # "external" /\ target \in Children /\ Alive(target)
  \/ pc = "reap" /\ \E p \in unreaped \cap Children : Alive(p)

\* A cancelled script returns, even if no process ever ends by itself, unless
\* it stays in one of the uninterrupted waits.
CancelReturns == cancel ~> (pc = "done" \/ Uninterrupted)

\* If every process ends some time and none stays stopped, the script ends,
\* cancelled or not: the shell never waits for what has happened already, or for
\* itself.
Terminates ==
  (\A p \in Pids : WF_vars(Exit(p)) /\ WF_vars(Continue(p))) => <>(pc = "done")

\* What eval.rs says of the PIDs that it signals: "pid is a valid child PID from
\* fork()".  The wait builtin reaps children and leaves them in child_pids.
SignalsChildren == pc = "kill" => tracked \subseteq Children
=============================================================================
