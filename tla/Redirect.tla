------------------------------ MODULE Redirect ------------------------------
(***************************************************************************)
(* Redirections: Shell::setup_redirections, apply_redirections and         *)
(* restore_redirections of src/src/redirect.rs, and their callers          *)
(* eval_simple, eval_command_inner and eval_external of src/src/eval.rs.   *)
(*                                                                         *)
(* The state is the descriptor table of the shell's process.  The shell    *)
(* redirects its own descriptors, runs the command, and puts them back from *)
(* copies that it keeps in the same table: commands nest, so do the copies. *)
(* A descriptor is created at the lowest free number, as the kernel does    *)
(* it, and there may be none left.                                         *)
(*                                                                         *)
(* What a descriptor refers to is a number: d for what the shell inherited  *)
(* as descriptor d, and one per file.                                       *)
(***************************************************************************)
EXTENDS Integers, Sequences

CONSTANTS
  Limit,      \* descriptors the process may have (RLIMIT_NOFILE)
  CopyBase,   \* copies are made at this number or above: 10 in the code
  Targets,    \* the descriptors that a script redirects
  Files,      \* the files that a script opens
  MaxNest,    \* how deep commands with redirections nest
  MaxRedirs   \* redirections in all

ASSUME LimitAssumption   == Limit \in Nat /\ CopyBase \in 3 .. (Limit - 1)
ASSUME TargetsAssumption == Targets \subseteq 0 .. (CopyBase - 1)
ASSUME FilesAssumption   == Files \subseteq {n \in Nat : n >= Limit}
ASSUME NestAssumption    == MaxNest \in Nat /\ MaxRedirs \in Nat

FD      == 0 .. (Limit - 1)
Closed  == -1
HereDoc == -2               \* the read end of a here-document's pipe
None    == -3
Lost    == -4               \* could not be copied
Refers  == FD \cup Files \cup {HereDoc}

VARIABLES
  sinks,      \* stdout_sink or stderr_sink is installed: never changes
  fds,        \* the descriptor table
  pending,    \* Shell.pending_stdin
  frames,     \* the commands in progress
  mode,       \* "run", "apply", "body" or "restore": what the top frame does
  count,      \* redirections so far
  inherited,  \* the table at the start: never changes
  spoiled     \* history: descriptors that a failed here-document changed

vars == <<sinks, fds, pending, frames, mode, count, inherited, spoiled>>

-----------------------------------------------------------------------------
(* The kernel's operations on a table t.                                    *)

Free(t, low)   == {d \in FD : d >= low /\ t[d] = Closed}
Lowest(t, low) == CHOOSE d \in Free(t, low) : \A e \in Free(t, low) : d <= e
Dup2(t, s, d)  == IF t[s] = Closed THEN t ELSE [t EXCEPT ![d] = t[s]]
Close(t, d)    == [t EXCEPT ![d] = Closed]

\* pipe needs two descriptors.
PipeFits(t) == \E d, e \in Free(t, 0) : d # e

-----------------------------------------------------------------------------
(* A frame is a command whose redirections are in effect: "inner" runs in   *)
(* the shell itself (a group, a function, a builtin, eval and dot too),     *)
(* "external" in another process, "exec" makes them permanent.  saved is    *)
(* the list of SavedFd; first is history: what each target referred to      *)
(* before the command's first redirection of it.                            *)

Begun(kind) ==
  [kind |-> kind, saved |-> <<>>,
   first |-> [d \in Targets |-> None]]

Top      == frames[Len(frames)]
Below    == SubSeq(frames, 1, Len(frames) - 1)
Retop(f) == [frames EXCEPT ![Len(frames)] = f]

\* Mutant: the copy is made at any number.
CopyAnywhere(fd) ==
  [fd     |-> fd,
   copy   |-> IF fds[fd] # Closed /\ Free(fds, 0) # {} THEN Lowest(fds, 0) ELSE None,
   closed |-> fds[fd] = Closed,
   was    |-> fds[fd]]

\* The SavedFd of a target, and the table with its copy.
SavedFd(fd) ==
  [fd     |-> fd,
   copy   |-> IF fds[fd] # Closed /\ Free(fds, CopyBase) # {}
              THEN Lowest(fds, CopyBase) ELSE None,
   closed |-> fds[fd] = Closed,
   was    |-> fds[fd]]

OnFreeCopy(fd) ==
  LET e == SavedFd(fd)
  IN  IF e.copy = None THEN fds ELSE [fds EXCEPT ![e.copy] = fds[fd]]

\* The top frame after fd has been saved.
Save(fd) ==
  LET e == SavedFd(fd)
  IN  [Top EXCEPT !.saved = Append(@, e),
                  !.first[fd] = IF @ # None THEN @
                                ELSE IF e.copy = None /\ ~e.closed THEN Lost ELSE e.was]

\* The Rust runtime opens 0, 1 and 2 when they are closed.
Init ==
  /\ sinks \in BOOLEAN
  /\ \E S \in SUBSET (0 .. (CopyBase - 1)) :
       0 .. 2 \subseteq S /\ inherited = [d \in FD |-> IF d \in S THEN d ELSE Closed]
  /\ fds = inherited
  /\ pending = None /\ frames = <<>> /\ mode = "run" /\ count = 0 /\ spoiled = {}

-----------------------------------------------------------------------------
(* apply_redirections, one redirection of the list at a time.               *)

\* A command begins at the top level or in a command that runs in the shell.
Begin(kind) ==
  /\ mode = "run" /\ Len(frames) < MaxNest
  /\ frames' = Append(frames, Begun(kind))
  /\ mode' = "apply"
  /\ UNCHANGED <<sinks, fds, pending, count, inherited, spoiled>>

\* One more redirection: MaxRedirs bounds the runs, not the code.
Applies ==
  /\ mode = "apply" /\ count < MaxRedirs
  /\ count' = count + 1

\* `<', `>', `>>', `>|' and `<>': open, dup2 onto the target, close.
OpenOnto(t, fd, f) ==
  LET d == Lowest(t, 0) IN Close(Dup2([t EXCEPT ![d] = f], d, fd), d)

RedirectFile(fd, f) ==
  /\ Applies
  /\ Free(OnFreeCopy(fd), 0) # {}
  /\ fds' = OpenOnto(OnFreeCopy(fd), fd, f)
  /\ frames' = Retop(Save(fd))
  /\ UNCHANGED <<sinks, pending, mode, inherited, spoiled>>

\* `<&n' and `>&n'; a dup2 of a closed descriptor fails and is ignored.
RedirectDup(fd, source) ==
  /\ Applies
  /\ fds' = Dup2(OnFreeCopy(fd), source, fd)
  /\ frames' = Retop(Save(fd))
  /\ UNCHANGED <<sinks, pending, mode, inherited, spoiled>>

\* `<&-' and `>&-'.
RedirectClose(fd) ==
  /\ Applies
  /\ fds' = Close(OnFreeCopy(fd), fd)
  /\ frames' = Retop(Save(fd))
  /\ UNCHANGED <<sinks, pending, mode, inherited, spoiled>>

\* With sinks the here-document of descriptor 0 is not put there.
Stashed(fd) == fd = 0 /\ sinks

\* A here-document: its write end is closed before the read end is used.
HereDocOnto(t, fd) ==
  LET r == Lowest(t, 0) IN Close(Dup2([t EXCEPT ![r] = HereDoc], r, fd), r)

RedirectHereDoc(fd) ==
  /\ Applies /\ ~Stashed(fd)
  /\ LET t == OnFreeCopy(fd)
     IN  \/ /\ PipeFits(t)
            /\ fds' = HereDocOnto(t, fd)
            /\ UNCHANGED spoiled
         \/ /\ ~PipeFits(t)         \* unchecked: the ends are both 0
            /\ fds' = Close(t, 0)
            /\ spoiled' = spoiled \cup {0}
  /\ frames' = Retop(Save(fd))
  /\ UNCHANGED <<sinks, pending, mode, inherited>>

\* The read end is kept for the next external command; one that is pending
\* already is closed.
CloseStash(t) == IF pending = None THEN t ELSE Close(t, pending)

RedirectStash(fd) ==
  /\ Applies /\ Stashed(fd)
  /\ \/ /\ PipeFits(fds)
        /\ pending' = Lowest(fds, 0)
        /\ fds' = CloseStash([fds EXCEPT ![pending'] = HereDoc])
        /\ UNCHANGED spoiled
     \/ /\ ~PipeFits(fds)
        /\ pending' = 0
        /\ fds' = CloseStash(Close(fds, 0))
        /\ spoiled' = spoiled \cup {0}
  /\ UNCHANGED <<sinks, frames, mode, inherited>>

\* The word does not expand, the file does not open, or the number is none:
\* what was redirected so far is restored, this descriptor included.
RedirectFails(fd) ==
  /\ Applies
  /\ fds' = OnFreeCopy(fd)
  /\ frames' = Retop(Save(fd))
  /\ mode' = "restore"
  /\ UNCHANGED <<sinks, pending, inherited, spoiled>>

\* The body of a here-document does not expand: the write end is closed, the
\* read end stays open.
HereDocFails(fd) ==
  /\ Applies
  /\ LET t == IF Stashed(fd) THEN fds ELSE OnFreeCopy(fd)
     IN  IF PipeFits(t)
         THEN /\ fds' = [t EXCEPT ![Lowest(t, 0)] = HereDoc]
              /\ spoiled' = spoiled \cup {Lowest(t, 0)}
         ELSE /\ fds' = Close(t, 0)
              /\ spoiled' = spoiled \cup {0}
  /\ frames' = IF Stashed(fd) THEN frames ELSE Retop(Save(fd))
  /\ mode' = "restore"
  /\ UNCHANGED <<sinks, pending, inherited>>

-----------------------------------------------------------------------------
(* The command, and restore_redirections.                                   *)

\* The redirections are done: the commands of an inner frame follow.
Applied ==
  /\ mode = "apply"
  /\ mode' = IF Top.kind = "inner" THEN "run" ELSE "body"
  /\ UNCHANGED <<sinks, fds, pending, frames, count, inherited, spoiled>>

\* The commands of an inner frame are over, with an error or not.
InnerEnds ==
  /\ mode = "run" /\ frames # <<>>
  /\ mode' = "restore"
  /\ UNCHANGED <<sinks, fds, pending, frames, count, inherited, spoiled>>

\* eval_external hands the pending descriptor to the child and closes it; a
\* handler does not get it, and an error may come first.
ExternalRuns ==
  /\ mode = "body" /\ Top.kind = "external"
  /\ \/ /\ fds' = CloseStash(fds)
        /\ pending' = None
     \/ UNCHANGED <<fds, pending>>
  /\ mode' = "restore"
  /\ UNCHANGED <<sinks, frames, count, inherited, spoiled>>

\* exec: the copies are closed, nothing is restored.
Copies(saved) == {saved[k].copy : k \in 1 .. Len(saved)} \ {None}

\* Mutants: no copy is closed, or all that there are.
Dropped(saved)    == {}
AllDropped(saved) == UNION {Copies(frames[i].saved) : i \in 1 .. Len(frames)}
CopiesDropped(saved) == Copies(saved)

ExecEnds ==
  /\ mode = "body" /\ Top.kind = "exec"
  /\ fds' = [d \in FD |-> IF d \in CopiesDropped(Top.saved) THEN Closed ELSE fds[d]]
  /\ frames' = Below
  /\ mode' = "run"
  /\ UNCHANGED <<sinks, pending, count, inherited, spoiled>>

\* Mutant: the list is taken from its head.
FirstSaved(saved) == [next |-> Head(saved), rest |-> Tail(saved)]

\* restore_redirections takes the list from its end.
LastSaved(saved)  ==
  [next |-> saved[Len(saved)], rest |-> SubSeq(saved, 1, Len(saved) - 1)]

RestoreOne ==
  /\ mode = "restore" /\ Top.saved # <<>>
  /\ LET e == LastSaved(Top.saved).next
     IN  fds' = IF e.copy # None THEN Close(Dup2(fds, e.copy, e.fd), e.copy)
                ELSE IF e.closed THEN Close(fds, e.fd)
                ELSE fds
  /\ frames' = Retop([Top EXCEPT !.saved = LastSaved(Top.saved).rest])
  /\ UNCHANGED <<sinks, pending, mode, count, inherited, spoiled>>

Restored ==
  /\ mode = "restore" /\ Top.saved = <<>>
  /\ frames' = Below
  /\ mode' = "run"
  /\ UNCHANGED <<sinks, fds, pending, count, inherited, spoiled>>

-----------------------------------------------------------------------------
Redirect(fd) ==
  \/ \E f \in Files : RedirectFile(fd, f)
  \/ \E s \in FD : RedirectDup(fd, s)
  \/ RedirectClose(fd)
  \/ RedirectHereDoc(fd)
  \/ RedirectStash(fd)
  \/ RedirectFails(fd)
  \/ HereDocFails(fd)

Next ==
  \/ \E kind \in {"inner", "external", "exec"} : Begin(kind)
  \/ \E fd \in Targets : Redirect(fd)
  \/ Applied
  \/ InnerEnds
  \/ ExternalRuns
  \/ ExecEnds
  \/ RestoreOne
  \/ Restored

Spec == Init /\ [][Next]_vars

-----------------------------------------------------------------------------
(* Properties.                                                              *)

Entry == [fd : Targets, copy : {None} \cup (CopyBase .. (Limit - 1)), closed : BOOLEAN,
          was : Refers \cup {Closed}]
FrameType ==
  [kind : {"inner", "external", "exec"}, saved : Seq(Entry),
   first : [Targets -> Refers \cup {Closed, None, Lost}]]

TypeOK ==
  /\ sinks \in BOOLEAN
  /\ fds \in [FD -> Refers \cup {Closed}]
  /\ inherited \in [FD -> Refers \cup {Closed}]
  /\ pending \in {None} \cup FD
  /\ frames \in Seq(FrameType)
  /\ mode \in {"run", "apply", "body", "restore"}
  /\ mode # "run" => frames # <<>>
  /\ count \in 0 .. MaxRedirs /\ spoiled \subseteq FD

\* The entries of the commands in progress, each at its place.
Places == UNION {{i} \X (1 .. Len(frames[i].saved)) : i \in 1 .. Len(frames)}
At(p)  == frames[p[1]].saved[p[2]]

\* Whatever the commands in between do, a copy still refers to what it was
\* made from, and no two entries share one.
CopiesIntact ==
  \A p \in Places : At(p).copy # None =>
    /\ fds[At(p).copy] = At(p).was
    /\ \A q \in Places : q # p => At(q).copy # At(p).copy

\* Once restored, after the command or after a redirection that failed, each
\* target refers to what it did before the command first redirected it,
\* unless it could not be copied.
RestoredExactly ==
  (mode = "restore" /\ Top.saved = <<>>) =>
    \A d \in Targets : Top.first[d] \notin {None, Lost} => fds[d] = Top.first[d]

AllCopies == UNION {Copies(frames[i].saved) : i \in 1 .. Len(frames)}

\* No descriptor but those that scripts name, copies in use and a pending
\* here-document is ever left open or closed: but for what the error paths
\* of a here-document leave.
OthersKept ==
  \A d \in FD \ (Targets \cup AllCopies \cup {pending} \cup spoiled) : fds[d] = inherited[d]

-----------------------------------------------------------------------------
(* What comments and tests say and the code does not do.                    *)

\* tests/integration.rs, exec_close_fd: "exec 3>file; echo via_fd3 >&3": a
\* descriptor redirected to a file refers to the file.
FileReached ==
  [][\A fd \in Targets, f \in Files : RedirectFile(fd, f) => fds'[fd] = f]_vars
=============================================================================
