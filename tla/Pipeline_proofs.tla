--------------------------- MODULE Pipeline_proofs ---------------------------
(***************************************************************************)
(* Invariance proofs for Pipeline, for any number of stages and jobs, any   *)
(* exit statuses and any behaviour of the processes.                        *)
(*                                                                         *)
(* Each safety property of Pipeline is strengthened to a conjunct of IInv   *)
(* below; the lemmas prove the conjuncts inductive in the order in which    *)
(* they depend on one another.                                              *)
(***************************************************************************)
EXTENDS Pipeline, TLAPS

Forking  == {"pipe", "fork", "join", "close", "give"}
Awaiting == {"wait", "drain"}

\* What the shell has forked and reaped at each point of eval_pipeline.
PhaseInv ==
  /\ pc \in {"fork", "join"} /\ next > 1 => pgid = 1 /\ pst[1] \in Exists
  /\ pc \in {"fork", "join"} /\ next = 1 => pgid = 0
  /\ pc = "pipe" => pgid = 0 /\ next = 1
  /\ pc = "join" => pst[next] \in Exists
  /\ pc = "pipe" => \A p \in Stages : pst[p] = "absent"
  /\ pc \in {"fork", "join"} =>
       \A p \in Stages : p > next => pst[p] = "absent"
  /\ pc = "fork" => pst[next] = "absent"
  /\ \A p \in Stages : p >= 2 /\ pst[p] # "absent" => pgid = 1
  /\ pc \in Awaiting => \A p \in Stages : p < next => pst[p] = "reaped"
  /\ chan # "none" => pc \in Awaiting /\ conf.pollable
  /\ chan = "exited" => pst[next] = "reaped"
  /\ chan = "stopped" => conf.interactive

\* A stage that exists is in group 1, unless it is the one just forked and
\* has not run at all.
GroupInv ==
  /\ \A p \in Stages : pgrp[p] \in {Shell, 1}
  /\ \A p \in Stages :
       pst[p] \in Exists =>
         pgrp[p] = 1 \/ (pc = "join" /\ p = next /\ pst[p] = "born")

TerminalInv ==
  /\ pc \notin Awaiting => fg = Shell
  /\ ~conf.interactive => fg = Shell

\* failStatus is the status of the last stage that failed so far.
FailedSoFar ==
  IF failStatus = 0
  THEN \A i \in Stages : i < next => code[i] = 0
  ELSE \E i \in Stages : /\ i < next /\ code[i] = failStatus
                         /\ \A j \in Stages : i < j /\ j < next => code[j] = 0

StatusInv ==
  /\ pc \in Forking \cup Awaiting => result.tag = "none"
  /\ pc \in Forking => failStatus = 0
  /\ pc \in Awaiting => FailedSoFar
  /\ result.tag = "Ok" => \A p \in Stages : pst[p] = "reaped"
  /\ StatusCorrect

\* Jobs were forked before; every stage is, once the loop of forks is over.
ForkedInv ==
  /\ \A p \in Jobs : pst[p] # "absent"
  /\ pc \in {"fork", "join"} => \A p \in Stages : p < next => pst[p] # "absent"
  /\ pc \in {"close", "give"} \cup Awaiting \/ result.tag \in {"Stopped", "Cancelled"} =>
       \A p \in Stages : pst[p] # "absent"

\* Every path out of the wait but a cancellation keeps the stages that exist
\* in child_pids, and a stop on its way to the shell is still in force.
StopInv ==
  /\ pc \in Forking \cup Awaiting \/ result.tag = "Stopped" =>
       \A p \in Stages :
         pst[p] \in Exists => p \in childPids \/ (pc = "join" /\ p = next)
  /\ pc = "wait" /\ chan = "stopped" => pst[next] = "stopped"
  /\ result.tag = "Stopped" => pc = "done" /\ \E p \in Stages : pst[p] = "stopped"

USE NStagesAssumption, NJobsAssumption, CodesAssumption

-----------------------------------------------------------------------------
\* setpgid puts a process in the group of a process or of the shell.
LEMMA SetPgidType ==
  ASSUME TypeOK, NEW p \in Procs, NEW g \in {Shell} \cup Procs, SetPgid(p, g)
  PROVE  pgrp' \in [Procs -> {Shell} \cup Procs]
  BY DEF TypeOK, SetPgid

\* Deaths leave states, statuses and descriptor holders of the right kind.
LEMMA DieType ==
  ASSUME TypeOK, NEW D \in SUBSET Procs, NEW c \in Status, Die(D, c)
  PROVE  /\ pst' \in [Procs -> Exists \cup {"absent", "reaped"}]
         /\ code' \in [Procs -> Status]
         /\ rd' \in [Pipes -> SUBSET ({Shell} \cup Stages)]
         /\ wr' \in [Pipes -> SUBSET ({Shell} \cup Stages)]
  BY DEF TypeOK, Die, Exists, Alive

\* The variables have their types when eval_pipeline is called.
LEMMA PipelineTypeInit == Init => TypeOK
<1> SUFFICES ASSUME Init PROVE TypeOK
  OBVIOUS
<1>1. pst \in [Procs -> Exists \cup {"absent", "reaped"}]
  BY DEF Init, Exists, Alive
<1>2. next \in Stages /\ childPids \subseteq Procs
  BY DEF Init, Stages, Jobs, Procs
<1>3. code \in [Procs -> Status] /\ lastStatus \in Status /\ failStatus \in Status
  BY DEF Init, Status
<1>4. pgrp \in [Procs -> {Shell} \cup Procs]
  BY DEF Init
<1>5. result \in [tag : {"none", "Ok", "Io", "Stopped", "Cancelled"},
                  status : Status, pid : {0, NStages}]
  BY DEF Init, NoResult, Status
<1>6. QED
  BY <1>1, <1>2, <1>3, <1>4, <1>5 DEF Init, TypeOK, Message

\* Every step keeps the variables in their types.
LEMMA PipelineTypeStep == TypeOK /\ [Next]_vars => TypeOK'
<1> SUFFICES ASSUME TypeOK, [Next]_vars PROVE TypeOK'
  OBVIOUS
<1> USE DEF TypeOK, shellVars, procVars
<1>1. CASE CreatePipes
  BY <1>1 DEF CreatePipes, Shell
<1>2. ASSUME NEW k \in Pipes, PipeFails(k) PROVE TypeOK'
  BY <1>2 DEF PipeFails, Shell, Return, Status
<1>3. CASE Fork
  BY <1>3 DEF Fork, Stages, Procs, Exists, Alive
<1>4. CASE Join
  <2>1. next \in Procs /\ pgid' \in {0} \cup Stages /\ pgid' \in {Shell} \cup Procs
    BY <1>4 DEF Join, Stages, Procs, Shell
  <2>2. pgrp' \in [Procs -> {Shell} \cup Procs]
    BY <1>4, <2>1, SetPgidType DEF Join, ParentSetPgid
  <2>3. QED
    BY <1>4, <2>1, <2>2 DEF Join, LastForked, Tracked, Stages
<1>5. CASE ForkFails
  BY <1>5 DEF ForkFails, KillGroups, Members, ShellCloses, Exists, Alive, Status
<1>6. CASE ClosePipes
  BY <1>6 DEF ClosePipes, ShellCloses
<1>7. CASE GiveTerminal
  BY <1>7 DEF GiveTerminal, Stages, Shell
<1>8. ASSUME NEW s \in Status, StageDone(s)
      PROVE  /\ childPids' \subseteq Procs /\ lastStatus' \in Status
             /\ failStatus' \in Status /\ next' \in Stages
             /\ pc' \in {pc, "done"} /\ fg' \in {Shell} \cup Stages
             /\ result' \in [tag : {"none", "Ok", "Io", "Stopped", "Cancelled"},
                             status : Status, pid : {0, NStages}]
  BY <1>8 DEF StageDone, PipefailStatus, Untracked, ReclaimTerminal, Return, Stages, Status
<1>9. ASSUME StageStopped
      PROVE  /\ pc' = "done" /\ fg' \in {Shell} \cup Stages
             /\ result' \in [tag : {"none", "Ok", "Io", "Stopped", "Cancelled"},
                             status : Status, pid : {0, NStages}]
             /\ UNCHANGED <<next, childPids, lastStatus, failStatus>>
  BY <1>9 DEF StageStopped, ReclaimTerminal, Return, Status
<1>10. next \in Procs /\ code[next] \in Status
  BY DEF Stages, Procs
<1>11. CASE WaitBlocking
  BY <1>8, <1>9, <1>10, <1>11 DEF WaitBlocking, Reap, ReportsStop, Exists, Alive
<1>12. CASE WaiterThread
  BY <1>10, <1>12 DEF WaiterThread, Reap, ReportsStop, Message, Exists, Alive
<1>13. CASE Receive
  BY <1>8, <1>9, <1>10, <1>13 DEF Receive, Message
<1>14. CASE CancelSeen
  <2>1. KillGroups({next}) \in SUBSET Procs /\ Killed \in Status
    BY DEF KillGroups, Members, Status
  <2>2. QED
    BY <1>14, <2>1, DieType DEF CancelSeen
<1>15. CASE Drained
  <2>1. KillGroups(childPids') \in SUBSET Procs /\ Killed \in Status /\ 0 \in Status
    BY DEF KillGroups, Members, Status
  <2>2. QED
    BY <1>15, <2>1, DieType DEF Drained, Untracked, ReclaimTerminal, Message
<1>16. ASSUME NEW p \in Procs, ReapChild(p) PROVE TypeOK'
  BY <1>16 DEF ReapChild, Reap, Exists, Alive
<1>17. CASE ClearChildren
  BY <1>17 DEF ClearChildren
<1>18. ASSUME NEW p \in Procs, ChildSetPgid(p) PROVE TypeOK'
  <2>1. ChildGroup(p) \in {Shell} \cup Procs
    BY DEF ChildGroup, Procs, Stages, Shell, TypeOK
  <2>2. QED
    BY <1>18, <2>1, SetPgidType DEF ChildSetPgid, Exists, Alive
<1>19. ASSUME NEW p \in Procs, ChildConnect(p) PROVE TypeOK'
  BY <1>19 DEF ChildConnect, Exists, Alive
<1>20. ASSUME NEW p \in Procs, Exit(p) PROVE TypeOK'
  <2>1. PICK c \in Codes : Die({p}, c)
    BY <1>20 DEF Exit
  <2>2. {p} \in SUBSET Procs /\ c \in Status
    BY DEF Status
  <2>3. QED
    BY <1>20, <2>1, <2>2, DieType DEF Exit
<1>21. ASSUME NEW g \in Stages, StopGroup(g) PROVE TypeOK'
  BY <1>21 DEF StopGroup, Exists, Alive
<1>22. CASE Cancel
  BY <1>22 DEF Cancel
<1>23. CASE UNCHANGED vars
  BY <1>23 DEF vars
<1>24. QED
  BY <1>1, <1>2, <1>3, <1>4, <1>5, <1>6, <1>7, <1>11, <1>12, <1>13, <1>14, <1>15,
     <1>16, <1>17, <1>18, <1>19, <1>20, <1>21, <1>22, <1>23
     DEF Next, ShellStep, ProcStep, Finished

\* Every variable keeps its type: the state of the model is a state of the
\* program for every number of stages and jobs.
THEOREM PipelineTypeOK == Spec => []TypeOK
  BY PipelineTypeInit, PipelineTypeStep, PTL DEF Spec

-----------------------------------------------------------------------------
(* No step of a process, of the terminal or of a kill creates a child or    *)
(* reaps one.                                                               *)

Kept == \A p \in Procs :
          /\ pst[p] \in Exists => pst'[p] \in Exists
          /\ pst[p] \in {"absent", "reaped"} => pst'[p] = pst[p]

\* Killing groups neither creates nor reaps a process.
LEMMA DieKeeps ==
  ASSUME TypeOK, NEW gs, NEW c, Die(Members(gs), c)
  PROVE  Kept
  BY DEF Kept, Die, Members, Exists, Alive

\* Nor does anything the children, the terminal or the embedder do.
LEMMA EnvironmentKeeps ==
  ASSUME TypeOK,
         \/ \E p \in Procs : ProcStep(p)
         \/ \E g \in Stages : StopGroup(g)
         \/ CancelSeen
         \/ Cancel
  PROVE  /\ Kept
         /\ UNCHANGED <<conf, next, pgid, childPids, chan, lastStatus, failStatus, result, fg>>
         /\ pc' = pc \/ (pc = "wait" /\ pc' = "drain")
<1> USE DEF shellVars, procVars
<1>1. ASSUME NEW p \in Procs, ChildSetPgid(p) PROVE Kept
  BY <1>1 DEF ChildSetPgid, Kept, Exists, Alive, TypeOK
<1>2. ASSUME NEW p \in Procs, ChildConnect(p) PROVE Kept
  BY <1>2 DEF ChildConnect, Kept, Exists, Alive, TypeOK
<1>3. ASSUME NEW p \in Procs, Exit(p) PROVE Kept
  BY <1>3 DEF Exit, Die, Kept, Exists, Alive, TypeOK
<1>4. ASSUME NEW g \in Stages, StopGroup(g) PROVE Kept
  BY <1>4 DEF StopGroup, Members, Kept, Exists, Alive, TypeOK
<1>5. CASE CancelSeen
  BY <1>5, DieKeeps DEF CancelSeen, KillGroups
<1>6. CASE Cancel
  BY <1>6 DEF Cancel, Kept, Exists, Alive, TypeOK
<1>7. QED
  BY <1>1, <1>2, <1>3, <1>4, <1>5, <1>6
     DEF ProcStep, ChildSetPgid, ChildConnect, Exit, StopGroup, CancelSeen, Cancel

-----------------------------------------------------------------------------
\* What has been forked and reaped at each point of eval_pipeline stays so.
LEMMA PhaseStep ==
  ASSUME TypeOK, PhaseInv, [Next]_vars
  PROVE  PhaseInv'
<1> USE DEF PhaseInv, TypeOK, shellVars, procVars, Awaiting
<1>1. CASE CreatePipes
  BY <1>1 DEF CreatePipes, Exists, Alive, Stages
<1>2. ASSUME NEW k \in Pipes, PipeFails(k) PROVE PhaseInv'
  BY <1>2 DEF PipeFails, Return
<1>3. CASE Fork
  BY <1>3 DEF Fork, Stages, Procs, Exists, Alive
<1>4. CASE Join
  <2>1. pgid' = 1
    BY <1>4 DEF Join, Stages
  <2>2. pst[1] \in Exists
    BY <1>4 DEF Join, Stages
  <2>3. QED
    BY <1>4, <2>1, <2>2 DEF Join, LastForked, Stages, Exists, Alive
<1>5. CASE ForkFails
  BY <1>5 DEF ForkFails, KillGroups, Members, Exists, Alive, Stages, Procs
<1>6. CASE ClosePipes
  BY <1>6 DEF ClosePipes
<1>7. CASE GiveTerminal
  BY <1>7 DEF GiveTerminal, Stages
<1>8. ASSUME NEW s \in Status, StageDone(s), pst'[next] = "reaped", chan' = "none",
             pst[next] # "absent", pc \in Awaiting, UNCHANGED <<conf, pgid>>,
             \A p \in Stages : p # next => pst'[p] = pst[p]
      PROVE  PhaseInv'
  BY <1>8 DEF StageDone, Return, Stages, Procs
<1>9. next \in Procs /\ code[next] \in Status
  BY DEF Stages, Procs
<1>10. CASE WaitBlocking
  <2>1. CASE Reap(next) /\ StageDone(code[next])
    BY <1>8, <1>9, <1>10, <2>1 DEF WaitBlocking, Reap, Stages, Procs
  <2>2. CASE StageStopped /\ UNCHANGED pst
    BY <1>10, <2>2 DEF WaitBlocking, StageStopped, Return
  <2>3. QED
    BY <1>10, <2>1, <2>2 DEF WaitBlocking
<1>11. CASE WaiterThread
  BY <1>9, <1>11 DEF WaiterThread, Reap, ReportsStop, Stages, Procs, Exists, Alive
<1>12. CASE Receive
  <2>1. CASE chan = "exited" /\ StageDone(code[next])
    BY <1>8, <1>9, <1>12, <2>1 DEF Receive
  <2>2. CASE StageStopped
    BY <1>12, <2>2 DEF Receive, StageStopped, Return
  <2>3. QED
    BY <1>12, <2>1, <2>2 DEF Receive
<1>13. CASE Drained
  <2>1. Kept
    BY <1>13, DieKeeps DEF Drained, KillGroups
  <2>2. QED
    <3>1. \A p \in Stages : p \in Procs
      BY DEF Stages, Procs
    <3>2. \A p \in Stages : pst'[p] # "absent" => pst[p] # "absent"
      BY <2>1, <3>1 DEF Kept
    <3>3. QED
      BY <1>13, <3>2 DEF Drained
<1>14. ASSUME NEW p \in Procs, ReapChild(p) PROVE PhaseInv'
  BY <1>14 DEF ReapChild, Reap, Stages, Procs
<1>15. CASE ClearChildren
  BY <1>15 DEF ClearChildren
<1>16. CASE \/ \E p \in Procs : ProcStep(p)
            \/ \E g \in Stages : StopGroup(g)
            \/ CancelSeen
            \/ Cancel
  <2>1. \A p \in Stages : p \in Procs
    BY DEF Stages, Procs
  <2>2. 1 \in Stages
    BY DEF Stages
  <2>3. \A p \in Stages : pst'[p] # "absent" => pst[p] # "absent"
    BY <1>16, <2>1, EnvironmentKeeps DEF Kept
  <2>4. QED
    BY <1>16, <2>1, <2>2, <2>3, EnvironmentKeeps DEF Kept
<1>17. CASE UNCHANGED vars
  BY <1>17 DEF vars
<1>18. QED
  BY <1>1, <1>2, <1>3, <1>4, <1>5, <1>6, <1>7, <1>10, <1>11, <1>12, <1>13,
     <1>14, <1>15, <1>16, <1>17
     DEF Next, ShellStep, Finished

-----------------------------------------------------------------------------
(* Process groups.                                                          *)

\* A stage is in the group of the first as soon as its parent, or it itself,
\* has called setpgid.
LEMMA GroupStep ==
  ASSUME TypeOK, PhaseInv, GroupInv, [Next]_vars
  PROVE  GroupInv'
<1> USE DEF GroupInv, TypeOK, shellVars, procVars
<1>1. \A p \in Stages : p \in Procs
  BY DEF Stages, Procs
<1>2. 1 \in Stages /\ Shell = 0 /\ next \in Procs
  BY DEF Stages, Procs, Shell
<1>4. CASE CreatePipes
  BY <1>4 DEF CreatePipes
<1>5. ASSUME NEW k \in Pipes, PipeFails(k) PROVE GroupInv'
  BY <1>5 DEF PipeFails, Return
<1>6. CASE Fork
  BY <1>1, <1>6 DEF Fork
<1>7. CASE Join
  <2>1. pgid' = 1 /\ pst[1] \in Exists
    BY <1>7 DEF Join, PhaseInv, Stages
  <2>2. GroupExists(1) \/ next = 1
    BY <1>1, <1>2, <1>7, <2>1 DEF Join, GroupExists
  <2>3. pst[next] \in {"born", "grouped"} => pgrp'[next] = 1
    BY <1>2, <1>7, <2>1, <2>2 DEF Join, ParentSetPgid, SetPgid
  <2>4. pst[next] \notin {"born", "grouped"} => pgrp' = pgrp
    BY <1>7 DEF Join, ParentSetPgid
  <2>5. \A p \in Procs : p # next => pgrp'[p] = pgrp[p]
    BY <1>7 DEF Join, ParentSetPgid, SetPgid
  <2>6. QED
    BY <1>1, <1>7, <2>3, <2>4, <2>5 DEF Join, Exists, Alive
<1>8. CASE ForkFails
  BY <1>1, <1>8 DEF ForkFails, KillGroups, Members, Exists, Alive
<1>9. CASE ClosePipes
  BY <1>9 DEF ClosePipes
<1>10. CASE GiveTerminal
  BY <1>10 DEF GiveTerminal
<1>11. CASE WaitBlocking
  BY <1>1, <1>2, <1>11 DEF WaitBlocking, Reap, StageDone, StageStopped, Return, Exists, Alive
<1>12. CASE WaiterThread
  BY <1>1, <1>2, <1>12 DEF WaiterThread, Reap, Exists, Alive
<1>13. CASE Receive
  BY <1>1, <1>2, <1>13 DEF Receive, StageDone, StageStopped, Return
<1>14. CASE CancelSeen
  <2>1. Kept
    BY <1>14, DieKeeps DEF CancelSeen, KillGroups
  <2>2. QED
    BY <1>1, <1>2, <1>14, <2>1 DEF CancelSeen, Die, KillGroups, Members, Kept, Exists, Alive
<1>15. CASE Drained
  <2>1. Kept
    BY <1>15, DieKeeps DEF Drained, KillGroups
  <2>2. QED
    BY <1>1, <1>2, <1>15, <2>1 DEF Drained, Die, KillGroups, Members, Kept, Exists, Alive
<1>16. ASSUME NEW p \in Procs, ReapChild(p) PROVE GroupInv'
  BY <1>1, <1>2, <1>16 DEF ReapChild, Reap, Exists, Alive
<1>17. CASE ClearChildren
  BY <1>17 DEF ClearChildren
<1>18. ASSUME NEW p \in Procs, ChildSetPgid(p) PROVE GroupInv'
  <2>1. CASE p \in Jobs
    BY <1>1, <2>1, <1>18 DEF ChildSetPgid, SetPgid, Jobs, Stages, Exists, Alive
  <2>2. CASE p \in Stages
    <3>1. ChildGroup(p) = 1
      BY <1>18, <2>2 DEF ChildSetPgid, ChildGroup, PhaseInv, Stages, Jobs
    <3>2. CASE pgrp[p] = 1
      BY <1>1, <1>2, <1>18, <2>2, <3>1, <3>2 DEF ChildSetPgid, SetPgid, Exists, Alive
    <3>3. CASE pgrp[p] # 1
      <4>1. pc = "join" /\ p = next /\ pst[p] \in Exists
        BY <1>18, <2>2, <3>3 DEF ChildSetPgid, Exists, Alive
      <4>2. p = 1 \/ (pst[1] \in Exists /\ pgrp[1] = 1)
        BY <1>2, <4>1 DEF PhaseInv, Stages
      <4>3. p = 1 \/ GroupExists(1)
        BY <1>1, <1>2, <4>2 DEF GroupExists
      <4>4. QED
        BY <1>1, <1>2, <1>18, <2>2, <3>1, <4>3 DEF ChildSetPgid, SetPgid, Exists, Alive
    <3>4. QED
      BY <3>2, <3>3
  <2>3. QED
    BY <2>1, <2>2 DEF Stages, Jobs, Procs
<1>19. ASSUME NEW p \in Procs, ChildConnect(p) PROVE GroupInv'
  BY <1>1, <1>19 DEF ChildConnect, Exists, Alive
<1>20. ASSUME NEW p \in Procs, Exit(p) PROVE GroupInv'
  BY <1>1, <1>20 DEF Exit, Die, Exists, Alive
<1>21. ASSUME NEW g \in Stages, StopGroup(g) PROVE GroupInv'
  BY <1>1, <1>21 DEF StopGroup, Members, Stages, Shell, Exists, Alive
<1>22. CASE Cancel
  BY <1>22 DEF Cancel
<1>23. CASE UNCHANGED vars
  BY <1>23 DEF vars
<1>24. QED
  BY <1>4, <1>5, <1>6, <1>7, <1>8, <1>9, <1>10, <1>11, <1>12, <1>13, <1>14, <1>15,
     <1>16, <1>17, <1>18, <1>19, <1>20, <1>21, <1>22, <1>23
     DEF Next, ShellStep, ProcStep, Finished

-----------------------------------------------------------------------------
(* The child table.                                                         *)

\* child_pids never comes to hold a PID that waitpid has already returned.
LEMMA StaleStep ==
  ASSUME TypeOK, PhaseInv, NoStalePid, [Next]_vars
  PROVE  NoStalePid'
<1> USE DEF NoStalePid, TypeOK, shellVars, procVars
<1>1. next \in Procs
  BY DEF Stages, Procs
<1>2. CASE CreatePipes
  BY <1>2 DEF CreatePipes
<1>3. ASSUME NEW k \in Pipes, PipeFails(k) PROVE NoStalePid'
  BY <1>3 DEF PipeFails, Return
<1>4. CASE Fork
  BY <1>4 DEF Fork, PhaseInv, Awaiting, Exists, Alive
<1>5. CASE Join
  BY <1>5 DEF Join, Tracked, PhaseInv, Awaiting
<1>6. CASE ForkFails
  BY <1>6 DEF ForkFails
<1>7. CASE ClosePipes
  BY <1>7 DEF ClosePipes
<1>8. CASE GiveTerminal
  BY <1>8 DEF GiveTerminal, PhaseInv, Awaiting
<1>9. CASE WaitBlocking
  BY <1>1, <1>9 DEF WaitBlocking, Reap, StageDone, StageStopped, Untracked, Return,
                    PhaseInv, Exists, Alive
<1>10. CASE WaiterThread
  BY <1>1, <1>10 DEF WaiterThread, Reap, Exists, Alive
<1>11. CASE Receive
  BY <1>1, <1>11 DEF Receive, StageDone, StageStopped, Untracked, Return
<1>12. CASE Drained
  BY <1>12 DEF Drained
<1>13. ASSUME NEW p \in Procs, ReapChild(p) PROVE NoStalePid'
  BY <1>13 DEF ReapChild
<1>14. CASE ClearChildren
  BY <1>14 DEF ClearChildren
<1>15. CASE \/ \E p \in Procs : ProcStep(p)
            \/ \E g \in Stages : StopGroup(g)
            \/ CancelSeen
            \/ Cancel
  BY <1>15, EnvironmentKeeps DEF Kept
<1>16. CASE UNCHANGED vars
  BY <1>16 DEF vars
<1>17. QED
  BY <1>2, <1>3, <1>4, <1>5, <1>6, <1>7, <1>8, <1>9, <1>10, <1>11, <1>12, <1>13,
     <1>14, <1>15, <1>16
     DEF Next, ShellStep, Finished

\* No step of a non-interactive shell drops a PID whose process exists.
LEMMA LostStep ==
  ASSUME TypeOK, PhaseInv, NoLostChild, [Next]_vars
  PROVE  NoLostChild'
<1> USE DEF NoLostChild, TypeOK, shellVars, procVars
<1>1. next \in Procs
  BY DEF Stages, Procs
<1>2. CASE CreatePipes
  BY <1>2 DEF CreatePipes
<1>3. ASSUME NEW k \in Pipes, PipeFails(k) PROVE NoLostChild'
  BY <1>3 DEF PipeFails, Return
<1>4. CASE Fork
  BY <1>1, <1>4 DEF Fork
<1>5. CASE Join
  BY <1>1, <1>5 DEF Join, Tracked
<1>6. CASE ForkFails
  BY <1>6 DEF ForkFails, KillGroups, Members, Exists, Alive
<1>7. CASE ClosePipes
  BY <1>7 DEF ClosePipes
<1>8. CASE GiveTerminal
  BY <1>8 DEF GiveTerminal
<1>9. CASE WaitBlocking
  BY <1>1, <1>9 DEF WaitBlocking, Reap, ReportsStop, StageDone, StageStopped, Untracked,
                    Return, Exists, Alive
<1>10. CASE WaiterThread
  BY <1>1, <1>10 DEF WaiterThread, Reap, Exists, Alive
<1>11. CASE Receive
  BY <1>1, <1>11 DEF Receive, StageDone, StageStopped, Untracked, Return, PhaseInv,
                     Exists, Alive
<1>12. CASE Drained
  <2>1. Kept
    BY <1>12, DieKeeps DEF Drained, KillGroups
  <2>2. ~conf.interactive => pst[next] = "reaped"
    BY <1>12 DEF Drained, PhaseInv, Message
  <2>3. \A p \in Procs : pst'[p] \in Exists => pst[p] \in Exists
    BY <2>1 DEF Kept, Exists, Alive
  <2>4. QED
    BY <1>1, <1>12, <2>2, <2>3 DEF Drained, Untracked, Exists, Alive
<1>13. ASSUME NEW p \in Procs, ReapChild(p) PROVE NoLostChild'
  BY <1>13 DEF ReapChild, Reap, Exists, Alive
<1>14. CASE ClearChildren
  BY <1>14 DEF ClearChildren, AllReaped, Exists, Alive
<1>15. CASE \/ \E p \in Procs : ProcStep(p)
            \/ \E g \in Stages : StopGroup(g)
            \/ CancelSeen
            \/ Cancel
  <2>1. \A p \in Procs : pst'[p] \in Exists => pst[p] \in Exists
    BY <1>15, EnvironmentKeeps DEF Kept, Exists, Alive
  <2>2. QED
    BY <1>15, <2>1, EnvironmentKeeps
<1>16. CASE UNCHANGED vars
  BY <1>16 DEF vars
<1>17. QED
  BY <1>2, <1>3, <1>4, <1>5, <1>6, <1>7, <1>8, <1>9, <1>10, <1>11, <1>12, <1>13,
     <1>14, <1>15, <1>16
     DEF Next, ShellStep, Finished

-----------------------------------------------------------------------------
(* The terminal.                                                            *)

\* The terminal is away from the shell only while stages are awaited.
LEMMA TerminalStep ==
  ASSUME TypeOK, TerminalInv, [Next]_vars
  PROVE  TerminalInv'
<1> USE DEF TerminalInv, TypeOK, shellVars, procVars, Awaiting
<1>1. CASE ShellStep
  BY <1>1 DEF ShellStep, CreatePipes, PipeFails, Return, Fork, Join, ForkFails, ClosePipes,
              GiveTerminal, WaitBlocking, Receive, StageDone, StageStopped,
              ReclaimTerminal, CancelSeen, Drained, ReapChild, ClearChildren
<1>2. CASE WaiterThread
  BY <1>2 DEF WaiterThread
<1>3. CASE \/ \E p \in Procs : ProcStep(p)
           \/ \E g \in Stages : StopGroup(g)
           \/ CancelSeen
           \/ Cancel
  BY <1>3, EnvironmentKeeps
<1>4. CASE UNCHANGED vars
  BY <1>4 DEF vars
<1>5. QED
  BY <1>1, <1>2, <1>3, <1>4 DEF Next, Finished

-----------------------------------------------------------------------------
(* The pipeline's status.                                                   *)

\* Reaped stages keep their statuses, so what is known of them stays true.
LEMMA FailedSoFarKept ==
  ASSUME TypeOK, FailedSoFar, UNCHANGED <<failStatus, next>>,
         \A p \in Stages : p < next => code'[p] = code[p]
  PROVE  FailedSoFar'
  BY DEF FailedSoFar, TypeOK, Stages

\* A stage that ends with status code[next] extends what is known by one stage.
LEMMA FailedSoFarExtended ==
  ASSUME TypeOK, FailedSoFar, code' = code,
         failStatus' = PipefailStatus(code[next]), next' = next + 1
  PROVE  FailedSoFar'
<1> USE DEF FailedSoFar, PipefailStatus, TypeOK, Stages
<1>1. CASE code[next] = 0
  BY <1>1
<1>2. CASE code[next] # 0
  <2>1. next \in Stages /\ next < next' /\ code'[next] = failStatus' /\ failStatus' # 0
    BY <1>2
  <2>2. \A j \in Stages : ~(next < j /\ j < next')
    OBVIOUS
  <2>3. QED
    BY <2>1, <2>2
<1>3. QED
  BY <1>1, <1>2

\* The last stage: what is known of all stages is the status to return.
LEMMA StatusOfAll ==
  ASSUME TypeOK, FailedSoFar, code' = code, conf' = conf, next = NStages,
         StageDone(code[next])
  PROVE  StatusCorrect'
<1> USE DEF TypeOK, Stages
<1>1. /\ result'.status = IF conf.pipefail /\ PipefailStatus(code[next]) # 0
                          THEN PipefailStatus(code[next]) ELSE code[NStages]
      /\ result'.tag = "Ok"
  BY DEF StageDone, Return
<1>2. CASE code[NStages] # 0
  <2>1. LastFailing(NStages)'
    BY <1>2 DEF LastFailing
  <2>2. QED
    BY <1>1, <1>2, <2>1 DEF StatusCorrect, PipefailStatus
<1>3. CASE code[NStages] = 0 /\ failStatus = 0
  BY <1>1, <1>3 DEF StatusCorrect, PipefailStatus, FailedSoFar
<1>4. CASE code[NStages] = 0 /\ failStatus # 0
  <2>1. PICK i \in Stages : /\ i < next /\ code[i] = failStatus
                            /\ \A j \in Stages : i < j /\ j < next => code[j] = 0
    BY <1>4 DEF FailedSoFar
  <2>2. LastFailing(i)'
    BY <1>4, <2>1 DEF LastFailing
  <2>3. QED
    BY <1>1, <1>4, <2>1, <2>2 DEF StatusCorrect, PipefailStatus
<1>5. QED
  BY <1>2, <1>3, <1>4

\* last_status and pipefail_status say what the stages reaped so far left.
LEMMA StatusStep ==
  ASSUME TypeOK, PhaseInv, StatusInv, [Next]_vars
  PROVE  StatusInv'
<1> USE DEF StatusInv, TypeOK, shellVars, procVars
<1>1. next \in Procs /\ \A p \in Stages : p \in Procs
  BY DEF Stages, Procs
\* A step before the wait loop is over, which returns no status.
<1>2. ASSUME result'.tag # "Ok", pc' \in Forking \cup Awaiting => result' = result,
             pc' \in Forking \cup Awaiting => pc \in Forking \cup Awaiting,
             pc' \in Forking => failStatus' = 0, pc' \in Awaiting => FailedSoFar'
      PROVE  StatusInv'
  BY <1>2 DEF StatusCorrect
<1>3. CASE CreatePipes
  BY <1>2, <1>3 DEF CreatePipes, Forking, Awaiting
<1>4. ASSUME NEW k \in Pipes, PipeFails(k) PROVE StatusInv'
  BY <1>2, <1>4 DEF PipeFails, Return, Forking, Awaiting
<1>5. CASE Fork
  BY <1>2, <1>5 DEF Fork, Forking, Awaiting
<1>6. CASE Join
  BY <1>2, <1>6 DEF Join, Forking, Awaiting
<1>7. CASE ForkFails
  BY <1>2, <1>7 DEF ForkFails, Forking, Awaiting
<1>8. CASE ClosePipes
  BY <1>2, <1>8 DEF ClosePipes, Forking, Awaiting
<1>9. CASE GiveTerminal
  <2>1. FailedSoFar'
    BY <1>9 DEF GiveTerminal, FailedSoFar, Forking, Stages
  <2>2. QED
    BY <1>2, <1>9, <2>1 DEF GiveTerminal, Forking, Awaiting
<1>10. ASSUME pc = "wait", StageDone(code[next]), pst'[next] = "reaped", code' = code,
              conf' = conf, \A p \in Stages : p # next => pst'[p] = pst[p]
       PROVE  StatusInv'
  <2>1. failStatus' = PipefailStatus(code[next]) /\ FailedSoFar
    BY <1>10 DEF StageDone, Awaiting
  <2>2. CASE next < NStages
    <3>1. next' = next + 1 /\ pc' = pc /\ result' = result
      BY <1>10, <2>2 DEF StageDone
    <3>2. FailedSoFar'
      BY <1>10, <2>1, <3>1, FailedSoFarExtended
    <3>3. QED
      BY <1>2, <1>10, <3>1, <3>2 DEF Forking, Awaiting
  <2>3. CASE next = NStages
    <3>1. StatusCorrect'
      BY <1>10, <2>1, <2>3, StatusOfAll
    <3>2. \A p \in Stages : pst'[p] = "reaped"
      BY <1>10, <2>3 DEF PhaseInv, Awaiting, Stages
    <3>3. pc' = "done"
      BY <1>10, <2>3 DEF StageDone, Return
    <3>4. QED
      BY <3>1, <3>2, <3>3 DEF Forking, Awaiting
  <2>4. QED
    BY <2>2, <2>3 DEF Stages
<1>11. CASE WaitBlocking
  <2>1. CASE Reap(next) /\ StageDone(code[next])
    BY <1>1, <1>10, <1>11, <2>1 DEF WaitBlocking, Reap
  <2>2. CASE StageStopped
    BY <1>2, <1>11, <2>2 DEF WaitBlocking, StageStopped, Return, Forking, Awaiting
  <2>3. QED
    BY <1>11, <2>1, <2>2 DEF WaitBlocking
<1>12. CASE WaiterThread
  <2>1. FailedSoFar'
    BY <1>12, FailedSoFarKept DEF WaiterThread, Awaiting
  <2>2. QED
    BY <1>2, <1>12, <2>1 DEF WaiterThread, Forking, Awaiting
<1>13. CASE Receive
  <2>1. CASE chan = "exited" /\ StageDone(code[next])
    BY <1>10, <1>13, <2>1 DEF Receive, PhaseInv
  <2>2. CASE StageStopped
    BY <1>2, <1>13, <2>2 DEF Receive, StageStopped, Return, Forking, Awaiting
  <2>3. QED
    BY <1>13, <2>1, <2>2 DEF Receive
<1>14. CASE Drained
  BY <1>2, <1>14 DEF Drained, Forking, Awaiting
<1>15. ASSUME NEW p \in Procs, ReapChild(p) PROVE StatusInv'
  BY <1>1, <1>15 DEF ReapChild, Reap, Forking, Awaiting, StatusCorrect, LastFailing
<1>16. CASE ClearChildren
  BY <1>16 DEF ClearChildren, Forking, Awaiting, StatusCorrect, LastFailing
<1>17. CASE \/ \E p \in Procs : ProcStep(p)
            \/ \E g \in Stages : StopGroup(g)
            \/ CancelSeen
            \/ Cancel
  <2>1. \A p \in Procs : pst[p] = "reaped" => code'[p] = code[p]
    BY <1>17 DEF ProcStep, ChildSetPgid, ChildConnect, Exit, StopGroup, CancelSeen, Cancel,
                 Die, KillGroups, Members, Alive
  <2>2. \A p \in Stages : pst[p] = "reaped" => pst'[p] = "reaped" /\ code'[p] = code[p]
    BY <1>1, <1>17, <2>1, EnvironmentKeeps DEF Kept
  <2>3. pc \in Awaiting => FailedSoFar'
    BY <1>17, <2>2, EnvironmentKeeps, FailedSoFarKept DEF PhaseInv
  <2>4. StatusCorrect'
    <3>1. CASE result.tag = "Ok"
      <4>1. \A p \in Stages : code'[p] = code[p]
        BY <2>2, <3>1
      <4>2. \A i \in Stages : LastFailing(i)' <=> LastFailing(i)
        BY <4>1 DEF LastFailing
      <4>3. NStages \in Stages
        BY DEF Stages
      <4>4. QED
        BY <1>17, <4>1, <4>2, <4>3, EnvironmentKeeps DEF StatusCorrect
    <3>2. CASE result.tag # "Ok"
      BY <1>17, <3>2, EnvironmentKeeps DEF StatusCorrect
    <3>3. QED
      BY <3>1, <3>2
  <2>5. QED
    BY <1>17, <2>2, <2>3, <2>4, EnvironmentKeeps DEF Forking, Awaiting
<1>18. CASE UNCHANGED vars
  BY <1>18 DEF vars, StatusCorrect, LastFailing, FailedSoFar
<1>19. QED
  BY <1>3, <1>4, <1>5, <1>6, <1>7, <1>8, <1>9, <1>11, <1>12, <1>13, <1>14,
     <1>15, <1>16, <1>17, <1>18
     DEF Next, ShellStep, Finished

-----------------------------------------------------------------------------
(* What a cancellation and a stop leave behind.                             *)

\* The wait starts only when every stage has been forked.
LEMMA ForkedStep ==
  ASSUME TypeOK, PhaseInv, StatusInv, ForkedInv, [Next]_vars
  PROVE  ForkedInv'
<1> USE DEF ForkedInv, TypeOK, shellVars, procVars, Awaiting
<1>1. next \in Procs /\ (\A p \in Stages : p \in Procs) /\ (\A p \in Jobs : p \in Procs)
  BY DEF Stages, Jobs, Procs
<1>2. \A p \in Jobs : p \notin Stages
  BY DEF Stages, Jobs
<1>3. CASE CreatePipes
  BY <1>3 DEF CreatePipes, PhaseInv, Stages
<1>4. ASSUME NEW k \in Pipes, PipeFails(k) PROVE ForkedInv'
  BY <1>4 DEF PipeFails, Return
<1>5. CASE Fork
  BY <1>1, <1>5 DEF Fork, StatusInv, Forking
<1>6. CASE Join
  <2>1. \A p \in Stages : p <= next => pst'[p] # "absent"
    BY <1>6 DEF Join, PhaseInv, Stages, Exists, Alive
  <2>2. result'.tag = "none" /\ UNCHANGED pst
    BY <1>6 DEF Join, StatusInv, Forking
  <2>3. CASE LastForked
    BY <1>6, <2>1, <2>2, <2>3 DEF Join, LastForked, Stages
  <2>4. CASE ~LastForked
    BY <1>6, <2>1, <2>2, <2>4 DEF Join, Stages
  <2>5. QED
    BY <2>3, <2>4
<1>7. CASE ForkFails
  BY <1>1, <1>7 DEF ForkFails
<1>8. CASE ClosePipes
  BY <1>8 DEF ClosePipes
<1>9. CASE GiveTerminal
  BY <1>9 DEF GiveTerminal
<1>10. CASE WaitBlocking
  BY <1>1, <1>10 DEF WaitBlocking, Reap, StageDone, StageStopped, Return
<1>11. CASE WaiterThread
  BY <1>1, <1>11 DEF WaiterThread, Reap
<1>12. CASE Receive
  BY <1>12 DEF Receive, StageDone, StageStopped, Return
<1>13. CASE Drained
  <2>1. \A p \in Procs : pst[p] # "absent" => pst'[p] # "absent"
    BY <1>13 DEF Drained, Die
  <2>2. QED
    BY <1>1, <1>13, <2>1 DEF Drained
<1>14. ASSUME NEW p \in Procs, ReapChild(p) PROVE ForkedInv'
  BY <1>1, <1>14 DEF ReapChild, Reap
<1>15. CASE ClearChildren
  BY <1>15 DEF ClearChildren
<1>16. CASE \/ \E p \in Procs : ProcStep(p)
            \/ \E g \in Stages : StopGroup(g)
            \/ CancelSeen
            \/ Cancel
  <2>1. \A p \in Procs : pst[p] # "absent" => pst'[p] # "absent"
    BY <1>16, EnvironmentKeeps DEF Kept, Exists, Alive
  <2>2. QED
    BY <1>1, <1>16, <2>1, EnvironmentKeeps
<1>17. CASE UNCHANGED vars
  BY <1>17 DEF vars
<1>18. QED
  BY <1>3, <1>4, <1>5, <1>6, <1>7, <1>8, <1>9, <1>10, <1>11, <1>12, <1>13,
     <1>14, <1>15, <1>16, <1>17
     DEF Next, ShellStep, Finished

\* A stopped process stays stopped unless the shell kills it.
LEMMA StoppedKept ==
  ASSUME TypeOK,
         \/ \E p \in Procs : ProcStep(p)
         \/ \E g \in Stages : StopGroup(g)
         \/ Cancel
  PROVE  \A p \in Procs : pst[p] = "stopped" => pst'[p] = "stopped"
  BY DEF TypeOK, ProcStep, ChildSetPgid, ChildConnect, Exit, Die, StopGroup, Cancel,
         procVars

\* The table keeps what a stop leaves, and the stop reported is real.
LEMMA StopStep ==
  ASSUME TypeOK, PhaseInv, StatusInv, StopInv, [Next]_vars
  PROVE  StopInv'
<1> USE DEF StopInv, TypeOK, shellVars, procVars, Forking, Awaiting
<1>1. next \in Procs /\ next \in Stages /\ \A p \in Stages : p \in Procs
  BY DEF Stages, Procs
<1>2. result.tag = "Stopped" => pc = "done"
  OBVIOUS
<1>3. CASE CreatePipes
  BY <1>3 DEF CreatePipes, StatusInv
<1>4. ASSUME NEW k \in Pipes, PipeFails(k) PROVE StopInv'
  BY <1>4 DEF PipeFails, Return
<1>5. CASE Fork
  BY <1>1, <1>5 DEF Fork, StatusInv
<1>6. CASE Join
  BY <1>1, <1>6 DEF Join, Tracked, StatusInv
<1>7. CASE ForkFails
  BY <1>7 DEF ForkFails
<1>8. CASE ClosePipes
  BY <1>8 DEF ClosePipes, StatusInv
<1>9. CASE GiveTerminal
  BY <1>9 DEF GiveTerminal, StatusInv, PhaseInv
\* The awaited stage was reaped, the others are as they were.
<1>10. ASSUME pc = "wait", StageDone(code[next]), pst'[next] = "reaped", chan' = "none",
              \A p \in Stages : p # next => pst'[p] = pst[p]
       PROVE  StopInv'
  BY <1>1, <1>10 DEF StageDone, Untracked, Return, StatusInv, Exists, Alive
<1>11. ASSUME pc = "wait", StageStopped, pst[next] = "stopped", pst' = pst
       PROVE  StopInv'
  BY <1>1, <1>11 DEF StageStopped, Return
<1>12. CASE WaitBlocking
  <2>1. CASE Reap(next) /\ StageDone(code[next])
    BY <1>1, <1>10, <1>12, <2>1 DEF WaitBlocking, Reap, PhaseInv, Message
  <2>2. CASE ReportsStop(next) /\ StageStopped /\ UNCHANGED pst
    BY <1>11, <1>12, <2>2 DEF WaitBlocking, ReportsStop
  <2>3. QED
    BY <1>12, <2>1, <2>2 DEF WaitBlocking
<1>13. CASE WaiterThread
  BY <1>1, <1>13 DEF WaiterThread, Reap, ReportsStop, StatusInv, Exists, Alive
<1>14. CASE Receive
  <2>1. CASE chan = "exited" /\ StageDone(code[next])
    BY <1>10, <1>14, <2>1 DEF Receive, PhaseInv
  <2>2. CASE chan = "stopped" /\ StageStopped
    BY <1>11, <1>14, <2>2 DEF Receive
  <2>3. QED
    BY <1>14, <2>1, <2>2 DEF Receive
<1>15. CASE CancelSeen
  <2>1. \A p \in Procs : pst'[p] \in Exists => pst[p] \in Exists
    BY <1>15 DEF CancelSeen, KillGroups, Members, Die, Exists, Alive
  <2>2. QED
    BY <1>1, <1>15, <2>1 DEF CancelSeen, StatusInv
<1>16. CASE Drained
  BY <1>16 DEF Drained
<1>17. ASSUME NEW p \in Procs, ReapChild(p) PROVE StopInv'
  BY <1>2, <1>17 DEF ReapChild
<1>18. CASE ClearChildren
  BY <1>2, <1>18 DEF ClearChildren
<1>19. CASE \/ \E p \in Procs : ProcStep(p)
            \/ \E g \in Stages : StopGroup(g)
            \/ Cancel
  <2>1. UNCHANGED <<pc, next, childPids, chan, result>>
    BY <1>19 DEF ProcStep, ChildSetPgid, ChildConnect, Exit, StopGroup, Cancel
  <2>2. \A p \in Procs : pst'[p] \in Exists => pst[p] \in Exists
    BY <1>19, EnvironmentKeeps DEF Kept, Exists, Alive
  <2>3. \A p \in Procs : pst[p] = "stopped" => pst'[p] = "stopped"
    BY <1>19, StoppedKept
  <2>4. QED
    BY <1>1, <2>1, <2>2, <2>3
<1>20. CASE UNCHANGED vars
  BY <1>20 DEF vars
<1>21. QED
  BY <1>3, <1>4, <1>5, <1>6, <1>7, <1>8, <1>9, <1>12, <1>13, <1>14, <1>15, <1>16,
     <1>17, <1>18, <1>19, <1>20
     DEF Next, ShellStep, Finished

\* kill_children returns only when every tracked child has been reaped, and in
\* a shell that is not interactive every child that exists is tracked.
LEMMA CancelStep ==
  ASSUME TypeOK, NoLostChild, ForkedInv, StatusInv, CancelKillsAll, [Next]_vars
  PROVE  CancelKillsAll'
<1> USE DEF CancelKillsAll, TypeOK, shellVars, procVars
<1>1. \A p \in Procs : p \in Stages \/ p \in Jobs
  BY DEF Procs, Stages, Jobs
<1>2. CASE ClearChildren
  <2>1. SUFFICES ASSUME result.tag = "Cancelled", ~conf.interactive, NEW p \in Procs
                 PROVE  pst[p] = "reaped"
    BY <1>2 DEF ClearChildren
  <2>2. pst[p] \notin Exists
    BY <1>2, <2>1 DEF ClearChildren, AllReaped, NoLostChild, Exists, Alive
  <2>3. pst[p] # "absent"
    BY <1>1, <2>1 DEF ForkedInv
  <2>4. QED
    BY <2>2, <2>3
<1>3. CASE \/ CreatePipes \/ (\E k \in Pipes : PipeFails(k)) \/ Fork \/ Join \/ ForkFails
           \/ ClosePipes \/ GiveTerminal \/ WaitBlocking \/ Receive \/ Drained
           \/ (\E p \in Procs : ReapChild(p)) \/ WaiterThread
  <2>1. pc' = "done" => result'.tag # "Cancelled"
    BY <1>3 DEF CreatePipes, PipeFails, Fork, Join, ForkFails, ClosePipes, GiveTerminal,
                WaitBlocking, Receive, StageDone, StageStopped, Return, Drained, ReapChild,
                WaiterThread, StatusInv, Forking, Awaiting
  <2>2. QED
    BY <2>1
<1>4. CASE \/ \E p \in Procs : ProcStep(p)
           \/ \E g \in Stages : StopGroup(g)
           \/ CancelSeen
           \/ Cancel
  BY <1>4, EnvironmentKeeps DEF Kept
<1>5. CASE UNCHANGED vars
  BY <1>5 DEF vars
<1>6. QED
  BY <1>2, <1>3, <1>4, <1>5 DEF Next, ShellStep, Finished

-----------------------------------------------------------------------------
(* The inductive invariant and the theorems.                                *)

IInv == TypeOK /\ PhaseInv /\ GroupInv /\ NoStalePid /\ NoLostChild
        /\ TerminalInv /\ StatusInv /\ ForkedInv /\ StopInv /\ CancelKillsAll

\* The invariant of eval_pipeline as a whole.
THEOREM PipelineInductive == Spec => []IInv
<1>1. Init => IInv
  <2> SUFFICES ASSUME Init PROVE PhaseInv /\ GroupInv /\ NoStalePid /\ NoLostChild
                                 /\ TerminalInv /\ StatusInv
                                 /\ ForkedInv /\ StopInv /\ CancelKillsAll
    BY PipelineTypeInit DEF IInv
  <2>1. \A p \in Stages : p \in Procs /\ pst[p] = "absent" /\ pgrp[p] = Shell
    BY DEF Init, Stages, Procs
  <2>2. /\ \A p \in Procs : p \in Jobs <=> p \notin Stages
        /\ Jobs \subseteq Procs
    BY DEF Jobs, Procs, Stages
  <2>3. PhaseInv
    BY <2>1 DEF Init, PhaseInv, Awaiting, Stages
  <2>4. GroupInv /\ TerminalInv /\ StatusInv
    BY <2>1 DEF Init, GroupInv, TerminalInv, StatusInv, StatusCorrect, Forking, Awaiting,
                NoResult, Exists, Alive
  <2>5. NoStalePid /\ NoLostChild
    <3>1. \A p \in Procs : pst[p] \in Exists <=> p \in Jobs
      BY <2>2 DEF Init, Exists, Alive
    <3>2. QED
      BY <2>2, <3>1 DEF Init, NoStalePid, NoLostChild
  <2>6. ForkedInv /\ StopInv /\ CancelKillsAll
    BY <2>1, <2>2 DEF Init, ForkedInv, StopInv, CancelKillsAll, Awaiting, NoResult,
                      Exists, Alive
  <2>7. QED
    BY <2>3, <2>4, <2>5, <2>6
<1>2. IInv /\ [Next]_vars => IInv'
  BY PipelineTypeStep, PhaseStep, GroupStep, StaleStep, LostStep, TerminalStep, StatusStep,
     ForkedStep, StopStep, CancelStep
     DEF IInv
<1>3. QED
  BY <1>1, <1>2, PTL DEF Spec

\* child_pids never names a process the shell has already reaped, so
\* kill_children and wait_child_pgid never signal a recycled PID.
THEOREM PipelineNoStalePid == Spec => []NoStalePid
  BY PipelineInductive, PTL DEF IInv

\* In a non-interactive shell every child that exists is in child_pids.
THEOREM PipelineNoLostChild == Spec => []NoLostChild
  BY PipelineInductive, PTL DEF IInv

\* Whichever of parent and child runs first after fork, the whole pipeline is
\* in the first stage's group when the terminal is handed over, while it is
\* awaited, and when it is reported stopped.
THEOREM PipelineIsGrouped == Spec => []PipelineGrouped
<1>1. IInv => PipelineGrouped
  BY DEF IInv, GroupInv, StatusInv, Forking, PipelineGrouped
<1>2. QED
  BY <1>1, PipelineInductive, PTL

\* Every path out of eval_pipeline leaves the terminal with the shell.
THEOREM PipelineReturnsTerminal == Spec => []TerminalReturned
<1>1. IInv => TerminalReturned
  BY DEF IInv, TerminalInv, TerminalReturned, Awaiting
<1>2. QED
  BY <1>1, PipelineInductive, PTL

\* The status returned is that of the last stage, or under pipefail that of
\* the last stage that failed, in whatever order the stages end.
THEOREM PipelineStatusCorrect == Spec => []StatusCorrect
<1>1. IInv => StatusCorrect
  BY DEF IInv, StatusInv
<1>2. QED
  BY <1>1, PipelineInductive, PTL

\* When a non-interactive shell reports a cancellation it has reaped every
\* stage and every tracked job, wherever in the wait the flag was seen.
THEOREM PipelineCancelKillsAll == Spec => []CancelKillsAll
  BY PipelineInductive, PTL DEF IInv

\* A pipeline reported as stopped has a stopped stage, and each stage that is
\* left is in child_pids and in the group reported, so a resume reaches it.
THEOREM PipelineStoppedResumable == Spec => []StoppedResumable
<1>1. IInv => StoppedResumable
  <2> SUFFICES ASSUME IInv, result.tag = "Stopped" PROVE StoppedResumable
    BY DEF StoppedResumable
  <2>1. pc = "done" /\ \E p \in Stages : pst[p] = "stopped"
    BY DEF IInv, StopInv
  <2>2. pgid = 1
    <3>1. 2 \in Stages
      BY DEF Stages
    <3>2. QED
      BY <3>1 DEF IInv, ForkedInv, PhaseInv
  <2>3. \A p \in Stages : pst[p] \in Exists => p \in childPids /\ pgrp[p] = pgid
    BY <2>1, <2>2 DEF IInv, StopInv, GroupInv
  <2>4. QED
    BY <2>1, <2>3 DEF StoppedResumable
<1>2. QED
  BY <1>1, PipelineInductive, PTL
=============================================================================
