---------------------------- MODULE Jobs_proofs ----------------------------
(***************************************************************************)
(* Proofs about Jobs, for any number of PIDs, commands, descendants and    *)
(* strangers.  IInv strengthens the two invariants: an end that the waiting *)
(* thread has reported is that of a process which is no child any more (so  *)
(* forgetting its PID forgets nobody), and outside the places where        *)
(* something reads the pipe it is at its end.                              *)
(***************************************************************************)
EXTENDS Jobs, TLAPS

\* What has been reaped is no child: nobody but the shell makes children.  Only
\* a wait that asks for stops is told of one.
StatusInv ==
  /\ pc = "read" => status = "none"
  /\ pc \in {"poll", "drain"} /\ status = "exit" => target \notin Children
  /\ pc = "poll" /\ status = "stop" => op # "external"

\* While it waits it waits for a process.
TargetInv == pc \in {"read", "poll", "block", "drain"} => target \in Pids

\* The loop of kill_children has something to wait for only while it runs.
UnreapedInv == pc # "reap" => unreaped = {}

\* Where nothing reads, there is nothing to read.
OutputInv == ~Reading => EndOfPipe

IInv == TypeOK /\ NoChildForgotten /\ StatusInv /\ TargetInv /\ UnreapedInv /\ OutputInv

-----------------------------------------------------------------------------
(* What the kernel's steps do to the process table.                         *)

ProcsOK ==
  /\ life \in [Pids -> {"free", "young", "runs", "stopped", "zombie"}]
  /\ parent \in [Pids -> Pids \cup {Shell, Nobody}]
  /\ group \in [Pids -> Pids \cup {Shell, Nobody}]
  /\ holds \subseteq Pids

\* Ends make no children, and close ends of the pipe.
LEMMA EndKeeps ==
  ASSUME ProcsOK, NEW ends, \A p \in ends : life[p] # "free", End(ends)
  PROVE  /\ ProcsOK' /\ Children' \subseteq Children /\ holds' \subseteq holds
<1>1. life' \in [Pids -> {"free", "young", "runs", "stopped", "zombie"}]
  BY DEF ProcsOK, End
<1>2. parent' \in [Pids -> Pids \cup {Shell, Nobody}]
  BY DEF ProcsOK, End
<1>3. group' \in [Pids -> Pids \cup {Shell, Nobody}]
  BY DEF ProcsOK, End
<1>4. Children' \subseteq Children
  <2> SUFFICES ASSUME NEW q \in Children' PROVE q \in Children
    OBVIOUS
  <2>1. q \in Pids /\ life'[q] # "free" /\ parent'[q] = Shell
    BY DEF Children
  <2>2. parent[q] = Shell
    BY <2>1, JobsAssumption DEF End
  <2>3. life[q] # "free"
    BY <2>1, <2>2 DEF End
  <2>4. QED
    BY <2>1, <2>2, <2>3 DEF Children
<1>5. QED
  BY <1>1, <1>2, <1>3, <1>4 DEF ProcsOK, End

\* A new process is a child only of the one that made it.
LEMMA AppearsKeeps ==
  ASSUME ProcsOK, NEW p \in Pids, NEW how \in {"young", "runs"},
         NEW from \in Pids \cup {Shell, Nobody}, NEW in \in Pids \cup {Shell, Nobody},
         Appears(p, how, from, in)
  PROVE  /\ life' \in [Pids -> {"free", "young", "runs", "stopped", "zombie"}]
         /\ parent' \in [Pids -> Pids \cup {Shell, Nobody}]
         /\ group' \in [Pids -> Pids \cup {Shell, Nobody}]
         /\ Children' \subseteq Children \cup {p}
         /\ from # Shell => Children' \subseteq Children
BY JobsAssumption DEF ProcsOK, Appears, Unused, Children

\* A reaped process is no child any more.
LEMMA ReapedKeeps ==
  ASSUME ProcsOK, NEW p, Reaped(p)
  PROVE  /\ life' \in [Pids -> {"free", "young", "runs", "stopped", "zombie"}]
         /\ parent' \in [Pids -> Pids \cup {Shell, Nobody}]
         /\ group' \in [Pids -> Pids \cup {Shell, Nobody}]
         /\ Children' \subseteq Children \ {p}
BY JobsAssumption DEF ProcsOK, Reaped, Children

-----------------------------------------------------------------------------
(* The steps, by what they do to the invariant.                             *)

\* A command starts: the new child is recorded, or is none.
Starts(p) == External(p) \/ Subshell(p) \/ Background(p) \/ CommandSubst(p)

\* Before it nothing is left in the pipe and nobody is forgotten, and each
\* command records the child it makes.
LEMMA StartsKeep ==
  ASSUME IInv, NEW p \in Pids, Starts(p)
  PROVE  IInv'
<1> USE JobsAssumption
<1>1. ProcsOK
  BY DEF IInv, TypeOK, ProcsOK
<1>2. pc = "go" /\ pc' # "reap" /\ unreaped = {} /\ unreaped' = {}
  BY DEF IInv, UnreapedInv, Starts, External, Subshell, Background, CommandSubst, Makes, Waiting
<1>3. /\ life' \in [Pids -> {"free", "young", "runs", "stopped", "zombie"}]
      /\ parent' \in [Pids -> Pids \cup {Shell, Nobody}]
      /\ group' \in [Pids -> Pids \cup {Shell, Nobody}]
      /\ Children' \subseteq Children \cup {p}
  BY <1>1, AppearsKeeps DEF Starts, External, Subshell, Background, CommandSubst, Makes
<1>4. /\ tracked' = tracked \cup {p} /\ lost' = lost /\ status' = "none"
      /\ pc' = "idle" \/ target' = p
  BY DEF Starts, External, Subshell, Background, CommandSubst, Makes
<1>5. TypeOK'
  <2>1. holds' \subseteq Pids /\ unread' \in BOOLEAN
    BY DEF IInv, TypeOK, Starts, External, Subshell, Background, CommandSubst
  <2>2. pc' \in Places /\ op' \in Kinds /\ target' \in Pids \cup {Nobody}
    BY DEF Starts, External, Subshell, Background, CommandSubst, Makes, Waiting, Kinds, Places
  <2>3. /\ tracked' \subseteq Pids /\ lost' \subseteq Pids
        /\ polls' \in BOOLEAN /\ interactive' \in BOOLEAN /\ cancel' \in BOOLEAN
    BY <1>4 DEF IInv, TypeOK, Starts, External, Subshell, Background, CommandSubst, opts
  <2>4. /\ ops' \in 0 .. MaxOps /\ forks' \in 0 .. MaxForks
        /\ stops' \in 0 .. MaxStops /\ strangers' \in 0 .. Strangers
    BY DEF IInv, TypeOK, Starts, External, Subshell, Background, CommandSubst, counts
  <2>5. QED
    BY <1>2, <1>3, <1>4, <2>1, <2>2, <2>3, <2>4 DEF TypeOK
<1>6. NoChildForgotten' /\ StatusInv' /\ TargetInv' /\ UnreapedInv'
  BY <1>2, <1>3, <1>4 DEF IInv, NoChildForgotten, StatusInv, TargetInv, UnreapedInv
<1>7. OutputInv'
  BY <1>2 DEF IInv, OutputInv, Reading, EndOfPipe, Starts, External, Subshell, Background,
              CommandSubst, Makes, Waiting
<1>8. QED
  BY <1>5, <1>6, <1>7 DEF IInv

\* The shell goes on, and neither processes nor child_pids change.
GoesOn ==
  \/ Begin \/ ForksNoMore \/ ExternalRefused \/ Wait \/ Finish
  \/ ReadToEnd \/ Joined \/ WaitEnds \/ WaitStopped \/ ThreadSeesStop

LEMMA GoesOnKeeps ==
  ASSUME IInv, GoesOn
  PROVE  IInv'
<1> USE JobsAssumption
<1>1. /\ UNCHANGED <<procs, tracked, unreaped, lost, opts, cancel, forks, stops, strangers>>
      /\ Children' = Children
  BY DEF GoesOn, Begin, ForksNoMore, ExternalRefused, Wait, Finish, ReadToEnd, Joined, WaitEnds,
         WaitStopped, ThreadSeesStop, counts, procs, Children
<1>2. pc # "reap" /\ pc' # "reap"
  BY DEF GoesOn, Begin, ForksNoMore, ExternalRefused, Wait, Finish, ReadToEnd, Joined, WaitEnds,
         WaitStopped, ThreadSeesStop, Waiting
<1>3. TypeOK'
  <2>1. pc' \in Places /\ op' \in Kinds /\ target' \in Pids \cup {Nobody}
    BY DEF IInv, TypeOK, GoesOn, Begin, ForksNoMore, ExternalRefused, Wait, Finish, ReadToEnd,
           Joined, WaitEnds, WaitStopped, ThreadSeesStop, Waiting, Kinds, Places
  <2>2. status' \in {"none", "exit", "stop"}
    BY DEF IInv, TypeOK, GoesOn, Begin, ForksNoMore, ExternalRefused, Wait, Finish, ReadToEnd,
           Joined, WaitEnds, WaitStopped, ThreadSeesStop
  <2>3. ops' \in 0 .. MaxOps
    <3>1. ops' = ops \/ (ops < MaxOps /\ ops' = ops + 1)
      BY DEF GoesOn, Begin, ForksNoMore, ExternalRefused, Wait, Finish, ReadToEnd, Joined, WaitEnds,
             WaitStopped, ThreadSeesStop, counts
    <3>2. QED
      BY <3>1 DEF IInv, TypeOK
  <2>4. QED
    BY <1>1, <2>1, <2>2, <2>3 DEF IInv, TypeOK, procs, opts
<1>4. NoChildForgotten' /\ UnreapedInv'
  BY <1>1, <1>2 DEF IInv, NoChildForgotten, UnreapedInv
<1>5. StatusInv' /\ TargetInv'
  BY <1>1 DEF IInv, StatusInv, TargetInv, GoesOn, Begin, ForksNoMore, ExternalRefused, Wait,
              Finish, ReadToEnd, Joined, WaitEnds, WaitStopped, ThreadSeesStop, ReportsStop, Waiting
<1>6. OutputInv'
  <2>1. EndOfPipe' = EndOfPipe
    BY <1>1 DEF EndOfPipe, procs
  <2>2. CASE WaitStopped
    <3>1. op # "external"
      BY <2>2 DEF IInv, StatusInv, WaitStopped, ReportsStop
    <3>2. ~Reading
      BY <2>2, <3>1 DEF Reading, WaitStopped
    <3>3. QED
      BY <2>1, <3>2 DEF IInv, OutputInv
  <2>3. CASE ~WaitStopped
    <3>1. Reading => Reading' \/ EndOfPipe
      BY <2>3 DEF Reading, GoesOn, Begin, ForksNoMore, ExternalRefused, Wait, Finish, ReadToEnd,
                    Joined, WaitEnds, ThreadSeesStop, Waiting
    <3>2. QED
      BY <2>1, <3>1 DEF IInv, OutputInv
  <2>4. QED
    BY <2>2, <2>3
<1>7. QED
  BY <1>3, <1>4, <1>5, <1>6 DEF IInv

\* Processes end, killed or not.
Ends == PollCancelled \/ KillChildren \/ \E p \in Pids : Exit(p)

\* The processes that a signal reaches, or that exit, are alive.
LEMMA EndsAreEnds ==
  ASSUME IInv, Ends
  PROVE  \E ends : End(ends) /\ \A p \in ends : life[p] # "free"
<1>1. CASE PollCancelled
  BY <1>1 DEF PollCancelled, Hit, Group, Alive
<1>2. CASE KillChildren
  BY <1>2 DEF KillChildren, Group, Alive
<1>3. CASE \E p \in Pids : Exit(p)
  BY <1>3 DEF Exit
<1>4. QED
  BY <1>1, <1>2, <1>3 DEF Ends

LEMMA EndsKeep ==
  ASSUME IInv, Ends
  PROVE  IInv'
<1>1. ProcsOK' /\ Children' \subseteq Children /\ holds' \subseteq holds
  BY EndsAreEnds, EndKeeps DEF IInv, TypeOK, ProcsOK
<1>2. /\ UNCHANGED <<unread, op, target, status, tracked, lost, opts, cancel, counts>>
      /\ \/ UNCHANGED <<pc, unreaped>>
         \/ pc = "poll" /\ pc' = "drain" /\ UNCHANGED unreaped
         \/ pc = "kill" /\ pc' = "reap" /\ unreaped' = tracked
  BY DEF Ends, PollCancelled, KillChildren, Exit, shell
<1>3. TypeOK'
  BY <1>1, <1>2 DEF IInv, TypeOK, ProcsOK, Places, opts, counts
<1>4. NoChildForgotten' /\ StatusInv' /\ TargetInv' /\ UnreapedInv'
  BY <1>1, <1>2 DEF IInv, NoChildForgotten, StatusInv, TargetInv, UnreapedInv
<1>5. OutputInv'
  BY <1>1, <1>2 DEF IInv, OutputInv, Reading, EndOfPipe
<1>6. QED
  BY <1>3, <1>4, <1>5 DEF IInv

\* A wait returns: of the thread, without one, of the builtin, of the last loop.
Reaps == ThreadReaps \/ BlockReaps \/ \E p \in Pids : WaitReaps(p) \/ ReapChild(p)

\* Whoever is forgotten by it has been reaped, or was no child.
LEMMA ReapsKeep ==
  ASSUME IInv, Reaps
  PROVE  IInv'
<1>1. ProcsOK /\ tracked \subseteq Pids /\ unreaped \subseteq tracked
  BY DEF IInv, TypeOK, ProcsOK
<1>2. /\ UNCHANGED <<holds, unread, op, target, polls, interactive, cancel>>
      /\ UNCHANGED <<ops, forks, stops, strangers>>
  BY DEF Reaps, ThreadReaps, BlockReaps, WaitReaps, ReapChild, opts, counts
<1>3. CASE ThreadReaps
  <2>1. /\ Reaped(target) /\ UNCHANGED <<pc, tracked, unreaped, lost>> /\ status' = "exit"
        /\ pc \in {"poll", "drain"}
    BY <1>3 DEF ThreadReaps
  <2>2. ProcsOK' /\ Children' \subseteq Children \ {target}
    BY <1>1, <1>2, <2>1, ReapedKeeps DEF ProcsOK
  <2>3. TypeOK'
    BY <1>2, <2>1, <2>2 DEF IInv, TypeOK, ProcsOK
  <2>4. NoChildForgotten' /\ StatusInv' /\ TargetInv' /\ UnreapedInv' /\ OutputInv'
    BY <1>2, <2>1, <2>2
       DEF IInv, NoChildForgotten, StatusInv, TargetInv, UnreapedInv, OutputInv, Reading, EndOfPipe
  <2>5. QED
    BY <2>3, <2>4 DEF IInv
<1>4. CASE BlockReaps
  <2>1. /\ Reaped(target) /\ UNCHANGED <<status, unreaped, lost>> /\ tracked' = tracked \ {target}
        /\ pc = "block" /\ pc' = AfterWait
    BY <1>4 DEF BlockReaps
  <2>2. ProcsOK' /\ Children' \subseteq Children \ {target}
    BY <1>1, <1>2, <2>1, ReapedKeeps DEF ProcsOK
  <2>3. unreaped = {} /\ pc' \in {"join", "idle", "go"} /\ (pc' # "join" => op # "external")
    BY <2>1 DEF IInv, UnreapedInv, AfterWait
  <2>4. TypeOK'
    BY <1>2, <2>1, <2>2, <2>3 DEF IInv, TypeOK, ProcsOK, Places
  <2>5. NoChildForgotten' /\ StatusInv' /\ TargetInv' /\ UnreapedInv'
    BY <1>2, <2>1, <2>2, <2>3 DEF IInv, NoChildForgotten, StatusInv, TargetInv, UnreapedInv
  <2>6. OutputInv'
    BY <1>2, <2>1, <2>3 DEF IInv, OutputInv, Reading, EndOfPipe, AfterWait
  <2>7. QED
    BY <2>4, <2>5, <2>6 DEF IInv
<1>5. ASSUME NEW p \in Pids, WaitReaps(p)
      PROVE  IInv'
  <2>1. /\ Reaped(p) /\ UNCHANGED <<pc, status, tracked, unreaped>> /\ pc = "waitAll"
        /\ lost' = lost \ {p}
    BY <1>5 DEF WaitReaps
  <2>2. ProcsOK' /\ Children' \subseteq Children \ {p}
    BY <1>1, <1>2, <2>1, ReapedKeeps DEF ProcsOK
  <2>3. TypeOK'
    BY <1>2, <2>1, <2>2 DEF IInv, TypeOK, ProcsOK
  <2>4. NoChildForgotten' /\ StatusInv' /\ TargetInv' /\ UnreapedInv' /\ OutputInv'
    BY <1>2, <2>1, <2>2
       DEF IInv, NoChildForgotten, StatusInv, TargetInv, UnreapedInv, OutputInv, Reading, EndOfPipe
  <2>5. QED
    BY <2>3, <2>4 DEF IInv
<1>6. ASSUME NEW p \in Pids, ReapChild(p)
      PROVE  IInv'
  <2>1. /\ UNCHANGED <<pc, status, tracked, lost>> /\ pc = "reap" /\ unreaped' = unreaped \ {p}
        /\ IF p \in Children THEN Reaped(p) ELSE UNCHANGED <<life, parent, group>>
    BY <1>6 DEF ReapChild
  <2>2. ProcsOK' /\ Children' \subseteq Children \ {p}
    <3>1. CASE p \in Children
      BY <1>1, <1>2, <2>1, <3>1, ReapedKeeps DEF ProcsOK
    <3>2. CASE p \notin Children
      <4>1. UNCHANGED <<life, parent, group>>
        BY <2>1, <3>2
      <4>2. Children' = Children
        BY <4>1 DEF Children
      <4>3. QED
        BY <1>1, <1>2, <3>2, <4>1, <4>2 DEF ProcsOK
    <3>3. QED
      BY <3>1, <3>2
  <2>3. TypeOK'
    BY <1>2, <2>1, <2>2 DEF IInv, TypeOK, ProcsOK
  <2>4. NoChildForgotten' /\ StatusInv' /\ TargetInv' /\ UnreapedInv' /\ OutputInv'
    BY <1>2, <2>1, <2>2
       DEF IInv, NoChildForgotten, StatusInv, TargetInv, UnreapedInv, OutputInv, Reading, EndOfPipe
  <2>5. QED
    BY <2>3, <2>4 DEF IInv
<1>7. QED
  BY <1>3, <1>4, <1>5, <1>6 DEF Reaps

\* A PID leaves child_pids.
Forgets == PollReceives \/ Drained \/ ReapEnds

\* By then the waiting thread has reaped it or has seen it stop, or all have
\* been waited for.
LEMMA ForgetsKeep ==
  ASSUME IInv, Forgets
  PROVE  IInv'
<1>1. UNCHANGED <<procs, op, target, status, unreaped, opts, cancel, counts>>
  BY DEF Forgets, PollReceives, Drained, ReapEnds
<1>2. Children' = Children
  BY <1>1 DEF procs, Children
<1>3. Children \subseteq tracked' \cup lost' /\ tracked' \subseteq Pids /\ lost' \subseteq Pids
  <2>1. CASE PollReceives
    BY <2>1 DEF IInv, TypeOK, NoChildForgotten, StatusInv, PollReceives
  <2>2. CASE Drained
    <3>1. status = "exit" => target \notin Children
      BY <2>2 DEF IInv, StatusInv, Drained
    <3>2. status = "exit" \/ (status = "stop" /\ lost' = lost \cup {target})
      BY <2>2 DEF IInv, TypeOK, Drained
    <3>3. tracked' = tracked \ {target} /\ (lost' = lost \/ lost' = lost \cup {target})
      BY <2>2 DEF Drained
    <3>4. Children \subseteq tracked' \cup lost'
      BY <3>1, <3>2, <3>3 DEF IInv, NoChildForgotten
    <3>5. lost' \subseteq Pids
      BY <3>3, <3>2, <2>2 DEF IInv, TypeOK, TargetInv, Drained
    <3>6. QED
      BY <3>3, <3>4, <3>5 DEF IInv, TypeOK
  <2>3. CASE ReapEnds
    BY <2>3 DEF IInv, TypeOK, NoChildForgotten, ReapEnds
  <2>4. QED
    BY <2>1, <2>2, <2>3 DEF Forgets
<1>4. /\ pc' \in {"idle", "go", "join", "quit", "kill", "done"} /\ unreaped = {}
      /\ (pc' \notin {"join", "quit"} => ~Reading)
      /\ (pc' \in {"join", "quit"} => op = "external")
  BY DEF IInv, UnreapedInv, Forgets, PollReceives, Drained, ReapEnds, AfterWait, Reading
<1>5. TypeOK'
  BY <1>1, <1>3, <1>4 DEF IInv, TypeOK, procs, opts, counts, Places
<1>6. NoChildForgotten' /\ StatusInv' /\ TargetInv' /\ UnreapedInv'
  BY <1>1, <1>2, <1>3, <1>4 DEF IInv, NoChildForgotten, StatusInv, TargetInv, UnreapedInv
<1>7. OutputInv'
  BY <1>1, <1>4 DEF IInv, OutputInv, Reading, EndOfPipe, procs
<1>8. QED
  BY <1>5, <1>6, <1>7 DEF IInv

\* The processes, the embedder, and the reader of the pipe.
Beside ==
  \/ Read \/ Cancel
  \/ \E p \in Pids : SetPgid(p) \/ Write(p) \/ Stop(p) \/ Continue(p) \/ Stranger(p)
                  \/ \E q \in Pids : Fork(p, q)

\* What runs beside the shell makes no children of the shell's, and opens the
\* pipe only where somebody has it open.
LEMMA BesideKeeps ==
  ASSUME IInv, Beside
  PROVE  IInv'
<1> USE JobsAssumption
<1>1. ProcsOK
  BY DEF IInv, TypeOK, ProcsOK
<1>2. UNCHANGED shell /\ UNCHANGED <<polls, interactive, ops>>
  BY DEF Beside, Read, Cancel, SetPgid, Write, Stop, Continue, Stranger, Fork, opts, counts
<1>3. ProcsOK' /\ Children' \subseteq Children
  <2>1. CASE Read \/ Cancel \/ \E p \in Pids : Write(p)
    BY <1>1, <2>1 DEF ProcsOK, Children, Read, Cancel, Write, procs
  <2>2. ASSUME NEW p \in Pids, SetPgid(p)
        PROVE  ProcsOK' /\ Children' \subseteq Children
    BY <1>1, <2>2 DEF ProcsOK, Children, SetPgid
  <2>6. ASSUME NEW p \in Pids, Stop(p) \/ Continue(p)
        PROVE  ProcsOK' /\ Children' \subseteq Children
    BY <1>1, <2>6 DEF ProcsOK, Children, Stop, Continue
  <2>3. ASSUME NEW p \in Pids, Stranger(p)
        PROVE  ProcsOK' /\ Children' \subseteq Children
    BY <1>1, <2>3, AppearsKeeps DEF ProcsOK, Stranger
  <2>4. ASSUME NEW p \in Pids, NEW q \in Pids, Fork(p, q)
        PROVE  ProcsOK' /\ Children' \subseteq Children
    <3>1. PICK how \in {"runs", "young"} : Appears(q, how, p, group[p])
      BY <2>4 DEF Fork
    <3>2. group[p] \in Pids \cup {Shell, Nobody} /\ p \in Pids \cup {Shell, Nobody} /\ p # Shell
      BY <1>1 DEF ProcsOK
    <3>3. \E in \in Pids \cup {Shell, Nobody} : Appears(q, how, p, in)
      BY <3>1, <3>2
    <3>4. holds' \subseteq Pids
      BY <1>1, <2>4 DEF Fork, ProcsOK
    <3>5. QED
      BY <1>1, <3>2, <3>3, <3>4, AppearsKeeps DEF ProcsOK
  <2>5. QED
    BY <2>1, <2>2, <2>3, <2>4, <2>6 DEF Beside
<1>4. unread' \in BOOLEAN /\ cancel' \in BOOLEAN /\ forks' \in 0 .. MaxForks
      /\ stops' \in 0 .. MaxStops /\ strangers' \in 0 .. Strangers
  <2>1. unread' \in BOOLEAN /\ cancel' \in BOOLEAN
    BY DEF IInv, TypeOK, Beside, Read, Cancel, SetPgid, Write, Stop, Continue, Stranger, Fork, procs
  <2>2. /\ forks' = forks \/ (forks < MaxForks /\ forks' = forks + 1)
        /\ stops' = stops \/ (stops < MaxStops /\ stops' = stops + 1)
        /\ strangers' = strangers \/ (strangers < Strangers /\ strangers' = strangers + 1)
    BY DEF Beside, Read, Cancel, SetPgid, Write, Stop, Continue, Stranger, Fork, counts
  <2>3. forks \in 0 .. MaxForks /\ stops \in 0 .. MaxStops /\ strangers \in 0 .. Strangers
    BY DEF IInv, TypeOK
  <2>4. QED
    BY <2>1, <2>2, <2>3
<1>5. TypeOK'
  BY <1>2, <1>3, <1>4 DEF IInv, TypeOK, ProcsOK, shell
<1>6. NoChildForgotten' /\ StatusInv' /\ TargetInv' /\ UnreapedInv'
  BY <1>2, <1>3 DEF IInv, NoChildForgotten, StatusInv, TargetInv, UnreapedInv, shell
<1>7. EndOfPipe => EndOfPipe'
  BY DEF EndOfPipe, Beside, Read, Cancel, SetPgid, Write, Stop, Continue, Stranger, Fork, procs
<1>8. OutputInv'
  BY <1>2, <1>7 DEF IInv, OutputInv, Reading, shell
<1>9. QED
  BY <1>5, <1>6, <1>8 DEF IInv

-----------------------------------------------------------------------------
LEMMA InitIInv == Init => IInv
<1> SUFFICES ASSUME Init PROVE IInv
  OBVIOUS
<1>1. TypeOK
  <2>1. ProcsOK
    BY DEF Init, ProcsOK
  <2>2. pc \in Places /\ op \in Kinds
    BY DEF Init, Places, Kinds
  <2>3. /\ ops \in 0 .. MaxOps /\ forks \in 0 .. MaxForks
        /\ stops \in 0 .. MaxStops /\ strangers \in 0 .. Strangers
    BY JobsAssumption DEF Init
  <2>4. QED
    BY <2>1, <2>2, <2>3 DEF Init, TypeOK, ProcsOK
<1>2. Children = {}
  BY DEF Init, Children
<1>3. NoChildForgotten /\ StatusInv /\ TargetInv /\ UnreapedInv /\ OutputInv
  BY <1>2 DEF Init, NoChildForgotten, StatusInv, TargetInv, UnreapedInv, OutputInv, EndOfPipe
<1>4. QED
  BY <1>1, <1>3 DEF IInv

LEMMA StutterKeeps ==
  ASSUME IInv, UNCHANGED vars
  PROVE  IInv'
<1>1. UNCHANGED <<life, parent, group, holds, unread>> /\ UNCHANGED <<pc, op, target, status>>
      /\ UNCHANGED <<tracked, unreaped, lost, polls, interactive, cancel>>
      /\ UNCHANGED <<ops, forks, stops, strangers>>
  BY DEF vars, procs, shell, opts, counts
<1>2. QED
  BY <1>1 DEF IInv, TypeOK, NoChildForgotten, StatusInv, TargetInv, UnreapedInv, OutputInv, Reading,
              EndOfPipe, Children

LEMMA NextKeeps ==
  ASSUME IInv, [Next]_vars
  PROVE  IInv'
<1>1. CASE Next
  <2>1. \/ GoesOn \/ Ends \/ Reaps \/ Forgets \/ Beside \/ \E p \in Pids : Starts(p)
    BY <1>1 DEF Next, MainThread, Thread, Command, Process, GoesOn, Ends, Reaps, Forgets, Beside,
                Starts
  <2>2. QED
    BY <2>1, GoesOnKeeps, EndsKeep, ReapsKeep, ForgetsKeep, BesideKeeps, StartsKeep
<1>2. CASE UNCHANGED vars
  BY <1>2, StutterKeeps
<1>3. QED
  BY <1>1, <1>2

(* The strengthened invariant holds of every behaviour, however many       *)
(* processes, commands, descendants and strangers there are.               *)
THEOREM JobsInductive == Spec => []IInv
<1>1. IInv /\ [Next]_vars => IInv'
  BY NextKeeps
<1>2. QED
  BY InitIInv, <1>1, PTL DEF Spec

(* The state of the shell and of the process table is well typed.          *)
THEOREM JobsTypeOK == Spec => []TypeOK
<1>1. IInv => TypeOK
  BY DEF IInv
<1>2. QED
  BY JobsInductive, <1>1, PTL

(* No child that has not been reaped is ever missing from child_pids, so   *)
(* that the cancellation of a script can reach it: in any order of forks,   *)
(* deaths, stops, late setpgid calls, PIDs used again and cancellations.    *)
(* The one exception is a child whose stop was drained after the flag.      *)
THEOREM JobsNoChildForgotten == Spec => []NoChildForgotten
<1>1. IInv => NoChildForgotten
  BY DEF IInv
<1>2. QED
  BY JobsInductive, <1>1, PTL

(* Between commands no output is on its way, no process can write more, and *)
(* no relay thread is left: what a sink or a substitution was given is      *)
(* complete.                                                                *)
THEOREM JobsOutputTaken == Spec => []OutputTaken
<1>1. IInv => OutputTaken
  BY DEF IInv, OutputInv, OutputTaken, Reading
<1>2. QED
  BY JobsInductive, <1>1, PTL
=============================================================================
