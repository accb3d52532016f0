# A TLA+ model of epsh

epsh is a POSIX shell in Rust, usable as a program and as a library. This
directory holds TLA+ modules translated from its source (`src/src/*.rs`), the
configurations that check them with TLC, and machine-checked proofs (TLAPS) of
their main invariants. `PROJECT.json` names, for every definition, the lines it
stands for.

| module | models | proofs |
| --- | --- | --- |
| `Pipeline.tla` | one multi-stage pipeline: `eval_pipeline`, `wait_child_pgid`, `kill_children` | `Pipeline_proofs.tla` |
| `Eval.tla` | the evaluator: `run_program`, `eval_command`, `eval_simple`, functions, traps, forks | `Eval_proofs.tla` |
| `Jobs.tla` | single children: external commands, subshells, background commands, substitutions, `wait`, cancellation | `Jobs_proofs.tla` |
| `Redirect.tla` | redirections over the descriptor table: `setup_redirections`, `restore_redirections` | `Redirect_proofs.tla` |
| `Vars.tla` | the flat map of variables with its scopes, the builtins that change it, environments | `Vars_proofs.tla` |
| `Scoping.tla` | what the variables promise: dynamic scoping (abstract; `Vars` implements it) | `Vars_proofs.tla` |
| `Parser.tla` | lexer and parser: tokens, pushback, reserved words, here-documents, the grammar | |
| `Programs.tla` | the grammar `Parser` is checked against: every program, written in several styles | |
| `Pattern.tla` | `fnmatch`, the trims `${v#p}` ... `${v%%p}`, pathname expansion | `Expansion_proofs.tla` |
| `Matching.tla` | patterns for it, and what each should be read as, match, trim and find | `Expansion_proofs.tla` |
| `Splitting.tla` | field splitting, an item at a time, and what the fields of a word are | `Expansion_proofs.tla` |
| `Expand.tla` | word expansion: fragments, parameters and their operators | |
| `Arith.tla` | arithmetic: the recursive descent evaluator | |
| `TestCmd.tla` | `test` | |
| `Getopts.tla` | `getopts`, over the calls a script makes | `Builtins_proofs.tla` |
| `Reading.tla` | `read`, a character and then a variable at a time | `Builtins_proofs.tla` |
| `Words.tla` | inputs for `Expand`, `Arith` and `TestCmd`, and what each result should be | |

`Vars_mc`, `Programs_mc` and `Words_mc` only give constants their values.
`Numbers` holds the lemmas on numbers and on recursion over the positions of a
sequence that `Expansion_proofs` and `Builtins_proofs` share.

## 1. Inventory

### Components

**Evaluator** (`eval.rs`, `ast.rs`, `error.rs`). State: the `Shell` struct.
`tested` (errexit is suppressed), `loop_depth`, the variable scopes,
`exit_status`, the options, `ev_exit` (an external command may replace the
process), `in_forked_child`, the traps, the cancel flag and the deadline.
Operations: `run_program`, `eval_command` and its recursion, `eval_simple`,
`eval_function`, `run_pending_traps`, `run_exit_trap`. Results travel as
`Result<ExitStatus, ShellError>`, where `ShellError` is also how break,
continue, return, exit, cancellation and stops travel.
*Hard:* fields are set before a recursive call and restored after it, and `?`
skips the restoration; the struct is copied by every fork.
*Correct when:* the fields agree with the calls in progress; a jump reaches the
loop it names; errexit never fires in a condition; a cancellation unwinds.

**Pipelines and process management** (`eval.rs` 695-780, 1614-1778). State:
`child_pids`, the pipes, process groups, the terminal's foreground group.
Operations: fork the stages, close the pipes, hand the terminal over, wait for
each stage (in a thread of its own when the shell can be cancelled), kill.
*Hard:* parent and child race to `setpgid`; stages end, stop and are cancelled
in any order; fork and pipe fail half-way.
*Correct when:* no child is lost, no stale PID is signalled, the pipeline is one
group, the terminal comes back, the status is that of the right stage.

**Subshells, background commands, command substitution** (`eval.rs` 1071-1087,
1780-1991). A fork copies the Shell. Subshells in a process that is a child
already are evaluated in it. A command substitution reads a pipe to its end and
then waits.

**External commands** (`eval.rs` 1376-1612). Spawn, relay threads for sinks,
wait with a poll of the cancel flag; or an embedder's handler; or, under
`ev_exit`, exec in place.
*Hard, for both:* a child may die, be killed, be reaped and its PID be given to
somebody else between any two steps of the shell; grandchildren keep pipes open
and groups alive.
*Correct when:* no child is forgotten, no output is lost, a cancelled script
returns, and the shell never waits for itself.

**Redirections** (`redirect.rs`). State: the descriptor table, the saved copies,
`pending_stdin`. Operations: apply left to right, restore right to left.
*Correct when:* restore is the inverse of apply, also after a failure half-way.

**Builtins** (`builtins.rs`, `test_cmd.rs`). Control flow (`break`, `continue`,
`return`, `exit`, `eval`, `.`), options (`set`), traps (`trap`), variables
(`export`, `readonly`, `unset`, `local`, `shift`, `getopts`, `read`),
processes (`wait`, `kill`, `exec`, `command`), text (`echo`, `printf`, `test`).

**Variables** (`var.rs`). State: a map from names to values with exported and
read-only flags and a cached integer, a stack of scopes holding what `local`
hid, positional parameters, the inherited environment.
*Hard:* one flat map stands for all scopes, and what a return puts back depends on
the order of everything in between; a cache lies beside each value.
*Correct when:* scopes behave as dynamic scoping, caches agree with values, a
read-only variable stays, a child's environment has each name once.

**Signals** (`signal.rs`). State: three process-wide pending flags set by a
handler. Operations: install, reset, ignore, take and clear.

**Words** (`expand.rs`, `glob.rs`, `arith.rs`), **syntax** (`lexer.rs`,
`parser.rs`), **bytes** (`shell_bytes.rs`, `encoding.rs`): mostly pure
algorithms on text, with callbacks into the evaluator for substitutions.
*Hard:* backtracking; quoting that must survive expansion; tokens put back;
here-document bodies read long after the command they belong to.
*Correct when:* each computes what its input means.

**System calls** (`sys.rs`), **command line** (`main.rs`), **library surface**
(`lib.rs`): thin.

### Interactions

The embedder (or `main.rs`) calls `run_program`, raises the cancel flag from
another thread, and may supply handlers. The evaluator calls the builtins, which
call it back (`eval`, `.`); expansion calls it back for command substitutions.
Children are forked with the whole Shell; parents learn only a wait status.
Signal handlers touch only the pending flags, which the evaluator takes between
top-level commands.

The hazards of these interactions, each at its line and with the property that
would catch it, are listed under "hazards" in `PROJECT.json`.

## 2. Plan

The order was: what runs concurrently or must be undone first, pure algorithms
last.

1. **Pipeline** and **Eval**, then **Redirect**, each with proofs: done.
2. **Jobs**: the life of `child_pids` over many commands, the late `setpgid`, the
   blocking reads, with proofs: done.
3. **Vars**, with **Scoping** as its abstract specification; the refinement is
   model-checked and proved: done.
4. **Parser** against a grammar (**Programs**), and the algorithms on texts
   (**Matching** with `Pattern`, **Splitting**, **Getopts**, **Reading**, **Words** with
   `Expand`, `Arith` and `TestCmd`), each against a definition of its own: done.
5. Proofs about the algorithms that go over the positions of one sequence:
   `Expansion_proofs` and `Builtins_proofs`, done. The others are RECURSIVE operators
   over trees and token lists, which TLAPS cannot use.
6. Left: what section 11 lists.

How the modules fit: `Eval` runs commands and treats a fork as one process
following another; what processes do to each other meanwhile is `Pipeline` (many
stages, one terminal) and `Jobs` (one child at a time). `Redirect` is what
`eval_simple` and groups do around a command, `Vars` what `eval_function` and the
builtins do to variables. `Programs` extends `Parser`. `Matching` and `Expand` extend
`Pattern`, and `Expand` extends `Splitting`, whose `Pass` splits the words it has expanded.
`Words` extends `Expand`, `Matching`, `Getopts` and `Reading` and instantiates
`Arith` and `TestCmd`, so that one run checks them all. A behaviour of `Words` is of one
kind, chosen at the start; those of kind `pattern`, `fields`, `options` and `input` are
behaviours of `MatchingSpec`, `SplitSpec`, `OptionsSpec` and `ReadSpec` in which nothing else changes, and what is
proved of these specifications is what the run checks of them.

## 3. Pipeline

### State and actions

The actors are the shell's main thread, whose program counter `pc` walks
`eval_pipeline` (`pipe`, `fork`, `join`, `close`, `give`, `wait`), the waiting
thread of `wait_child_pgid` (`chan` is its channel), the stages, background jobs
forked earlier, the terminal and the embedder. A cancelled wait goes through
`drain` (the blocking `rx.recv()`) and `reap` (the second loop of
`kill_children`). Each system call is an atomic action, so every interleaving of
the two `setpgid` calls, of deaths, stops, statuses and the cancellation is
explored.

The kernel is modelled by what the code relies on: process states, groups (a
group exists while a member does, a zombie included), who holds the ends of each
pipe (end of file and SIGPIPE follow), the foreground group. `setpgid` by the
parent is refused after exec. What a stage does is its `kind`: ends at any time
(`finite`), on end of file (`reader`), when nobody reads its output
(`endless`), once it may read the terminal (`tty`), or never (`forever`). The
first stage alone reads the terminal, and only later ones a pipe.

Jobs start in either of two states: their own `setpgid` done, or not yet
(`eval_background` does not call it in the parent).

### Runs

* `pipeline_stages`: three stages, one job, three statuses, four kinds, every
  option. Three stages are the least in which a middle stage exists, in which
  `setpgid` may name a leader that is dead while another stage is alive, and in
  which the last failing stage differs from the first and the last. The seven
  invariants are `NoStalePid`, `NoLostChild`, `PipelineGrouped`, `TerminalReturned`,
  `StatusCorrect`, `CancelKillsAll`, `StoppedResumable`; the types are proved
  (`PipelineTypeOK`). `NoLostChild` speaks of non-interactive shells: in an
  interactive one a drained stop loses the child (section 10).
  Of liveness, `Terminates` fails if any pipe end stays open where it should not;
  `CancelOfLeaderReturns` says that a cancellation seen at the first stage gets
  through, because there the awaited PID names the whole group. It is this narrow
  because a cancellation seen at a later stage need not get through.
* `pipeline_status`: two stages; ends in a counterexample, see section 10.
  `StatusCorrect` states the rule of the README of the shell (line 69), which is that
  of the code: the last failing stage. `PipefailHighest` states the one of the comment
  at `eval.rs:320`.

### Fairness

The two threads of the shell and each process are weakly fair: the operating
system schedules them. Stops and the cancellation are not fair: no user is
obliged to press a key. `forever` processes are never obliged to end.

### Bounds

`NStages`, `NJobs`, `Codes`, `StageKinds`, `JobKinds`. One call of
`eval_pipeline` is modelled, so nothing is unbounded.

## 4. Eval

### State and actions

`stack` holds one frame per call in progress of the recursive evaluator, with
what that call keeps in local variables: the saved `tested`, the status of the
last loop body, and, for a fork, the parent's copy of the Shell. `sh` is the
Shell of the process that runs, `res` the `Result` being returned, and `mode`
says what happens next. No program is fixed: where the evaluator is about to
evaluate a command, it may be any of `Commands`. So a run covers every script
whose commands nest at most `MaxDepth` deep, which is every combination of
condition, loop, function, `eval`, fork and error up to that depth.

A `Bang` frame is `! a | b`, evaluated like a condition. Of a multi-stage
pipeline the last stage is followed, its status being the pipeline's; the
process side is the module Pipeline. A deadline and the cancel flag differ in
one thing the properties see: the flag is copied by fork, so a child does not
see it raised later (`blind`), while the deadline is seen by all.
`TimedOut` is merged into `Cancelled`, which every caller treats alike.

A parent that waits for a child may see the cancellation. It then signals the group
that the awaited PID names and blocks until that child ends. The signal may reach the
child (`ParentCancels`) or not (`ParentMisses`: the child has yet to call `setpgid`, or is
a later stage of a pipeline, in the first one's group). In the second case the frame
`drains`: the child runs on, whatever it returns is replaced by the cancellation, and
the parent polls no more. A substitution is awaited only once its output has been read
to the end, so its frame never polls while its child runs (`Polling`), and a cancellation
that the wait notices is dropped by the expansion.

`escaped` is a history variable: it records that an error left a frame by a
path that skips a restoration (`?` after a condition, the head of a loop, a
prefix assignment of a function call). `ContextExact` says that these paths are
the only ones on which the Shell and the calls in progress can disagree, and that
a break or continue reaches a loop of its own call.

### Runs

* `eval_flow`: one process, frames nested four deep (the program and three
  calls, plus the simple command that runs in the innermost), two loops: enough
  for `break 2` through a loop, a function called in a condition inside a loop, and
  an error that leaves two restorations behind. Checks
  `TestedInConditions`, `ContextExact` and the action property `CancelUnwinds`.
* `eval_process`: subshells, pipelines, substitutions, background commands,
  traps, `.`, functions, two programs on one Shell. Checks
  `ExecCutsNoCompound`, `MainNeverExecs`, `ExitTrapIsOwn`.
* `eval_cancel`: liveness, `CancelEnds`: a cancelled script ends, or it stays for
  good in one of three places where nothing polls (`Blocked`): in a simple command (an
  external one, `wait`, `read`: when these end is the subject of Jobs), in the reading of
  a substitution's output (line 1979), or in a `drains` whose child the kill has
  missed. Nothing else keeps it alive: no loop, function, text, trap, subshell or
  pipeline stage that runs on, though its loops and its children never would end.

`eval_flow` has no substitutions, so what `CancelUnwinds` says of a cancellation that has
been noticed is not said of one that only the wait for a substitution noticed: that
one is dropped, and the next check notices it again.

### Fairness

The evaluator and the poll of a waiting parent are weakly fair: they are
threads that run. Strong fairness of `TrapEnds` says that a trap's text has
finitely many commands. Nothing says that a loop ends, that a simple command ends, or
that a child returns.

### Bounds

`MaxDepth` caps the stack, `MaxLoops` caps `loop_depth` and the scopes,
`MaxRuns` the programs run on one Shell. They appear as guards of the actions
that push.

### Not modelled here

`noexec` (`set -n`: nothing runs, not even the command that would undo it),
xtrace, the values of variables and words, redirections (module Redirect), the
handler of an embedder (a status), the `exec` builtin with a command, the child of a
background command and the other stages of a pipeline.

## 5. Redirect

### State and actions

`fds` is the descriptor table of the shell's process, from each number to what it
refers to. The shell redirects its own descriptors even for the commands it runs
itself, and keeps the copies that restore them in the same table. `frames` holds
the commands in progress that have redirections, innermost last, each with its
list of `SavedFd`; a group or a function (`inner`) runs further commands, an
`external` one may consume `pending_stdin`, `exec` keeps what it redirected.
`mode` says whether the top frame applies its list, runs, or restores. Each
redirection is one action: the copy, the open, the `dup2` and the close, which
no other command can come between, and the failures between them.

New descriptors get the lowest free number, and there may be none: then a copy
is not made, a file does not open and a pipe is not made, each with what the code
does about it (for a copy and a pipe: nothing).

History: an entry records what its copy was made of (`was`), a frame what each
target referred to before the command first redirected it (`first`), and
`spoiled` collects the descriptors that the two unchecked error paths of a
here-document leave changed.

### Runs

* `redirect_safety`: six numbers, two of them (4 and 5) for copies, targets 0
  and 3, the second open or not at the start. Three redirections in all, in up to
  three nested commands: enough for a target redirected twice in one list, for
  a copy that cannot be made, for an `exec` inside a redirected group, and for a
  second here-document while one is pending. Checks `TypeOK`, `CopiesIntact`,
  `RestoredExactly`, `OthersKept`.

### Bounds

`MaxNest` and `MaxRedirs` bound the runs; the proofs have no bound. `CopyBase` is
10 in the code and 4 in the runs.

### Not modelled here

A script that names descriptors at or above 10: it can overwrite a copy, as in
`{ exec 10>f; } 3>g`, and nothing in the code prevents it (`TargetsAssumption`
excludes it). Commands run by the words of a redirection. The size of a
here-document: the shell writes it into a pipe before anybody reads, so one
larger than the pipe blocks.

## 6. Jobs

### State and actions

The shell's main thread is a program counter: between commands (`idle`), in a command
that has passed its check and has yet to fork, or to fork more (`go`), and the places
where it may block: reading a substitution's output to its end (`read`), polling or blocking for a
child (`poll`, `block`), draining after a kill (`drain`), joining the relay
threads (`join`, `quit`), the `wait` builtin (`waitAll`), and the two loops of
`kill_children` (`kill`, `reap`). The waiting thread reaps on its own and sends a
`status`, of an end or, in an interactive shell, of a stop (not of an external command,
which is awaited without `WUNTRACED`); the relay or reading thread takes what is `unread`. Beside them run the
processes: a forked child is `young` until it has called `setpgid`; descendants
fork, inherit the pipe's write end, write and exit; children may be stopped and
continued. The kernel gives a PID again as
soon as no process and no group has it, to children and to `Strangers`.

A script is any sequence of commands, each an external one, a subshell, a
background command, `wait` or one that forks nothing, the words of which may have
substitutions first: up to `MaxOps` commands and substitutions together. The flag is
checked where a command begins and once more before an external command is spawned.
Substitutions check nothing: those of one command are forked one after another,
though a cancellation has been seen in between.

A stop that the wait reports leaves the child in `child_pids`: run_program returns, and
the embedder may run the next program beside it; of a substitution the expansion goes
on with an empty text. A stop that is drained after the kill removes the PID all the
same (`eval.rs:757`). The history variable `lost` has the children forgotten so.

### Runs

* `jobs_tree`: three PIDs, three commands or substitutions, one process forked by a
  descendant, one stop, one stranger, with a flag to poll and without, interactive or not. Two
  commands and a stranger are what it takes for a PID to be stale, one
  descendant to hold a pipe after its parent is gone, and three for two substitutions in
  one command. `NoChildForgotten` (but for `lost`) and `OutputTaken` are safety;
  `Terminates` says that the script ends if every process does and none stays stopped;
  `CancelReturns` says that a cancelled script returns though no process ever ends by
  itself, unless it sits in one of the waits that `Uninterrupted` lists. That list is
  what the code does not interrupt, place by place; outside it nothing may hang.
* `jobs_stale`: see section 10.

### Fairness

The main thread, the reading and the waiting thread, and a child's first
`setpgid` are weakly fair: they are scheduled. Nothing makes a process exit,
or a stopped one go on, except in `Terminates`, which assumes it, and no cancellation
need come.

### Bounds

`Pids`, `MaxOps`, `MaxForks`, `MaxStops`, `Strangers`; the proofs have none.

## 7. Vars and Scoping

`vars` is the flat map, `scopes` the logs of what calls hid. Any sequence of
commands may come: every way an assignment is made (plain, `${n:=v}`, `$((n=i))`,
`read`, `for`, `export n=v`, ...), `readonly`, `unset`, `local`, calls with prefix
assignments, returns, and an error that leaves all calls (`mode = "unwind"`). A
call whose head fails leaves its scope behind (`CallFails`): then `scopes` is longer
than `calls`. The name may be one that is no shell name, in which case the
environment's entry is `inherited` and untouched by the map.

`Scoping` knows no log: each call has a frame of bindings, `local` binds in the top
one, a return drops it. `Vars` implements it under the mapping `Bound`: the
binding of a name in a frame is what the next scope above that hid the name will
put back, or else the map's variable.

* `vars_scoping`: one name, shell name or not, two texts, one of them a number,
  three nested calls, two entries to put back: enough for `local` twice in one
  call, `local` in two calls, `unset`, `readonly` and a failed call in between.
  Names do not interact, except in the environment. `Env` is the list that
  `env_for_command_os` makes, in order, for up to two prefix assignments, the second perhaps
  of the same name. A spawned command gets it through a map, where the last entry of a name
  wins (`Spawned`); one that replaces a process, or a handler, gets it as it is.
  `EnvExact` says what each finds under each name: the last assignment, else the exported
  variable, else what was inherited, and, unless the prefix assigns the name twice, the
  same entry once in both. Checks `CacheAgrees`, `EnvExact`, the action property `ReadonlyStays`
  and the refinement `DynamicScoping`. `ParseInt` is a table: all that is asked of
  it is that it gives back what `ShowInt` wrote.

## 8. Syntax and words

These are functions, so a behaviour builds one input, a piece at a time, and
invariants compare the result with its meaning. The code's function is one operator
(`Parsed`, `FnMatch`, `Glob`, `EvalArith`, `WordToFields`, `TestEval`, ...), written as
the code is, with its lookahead and its early returns; the meaning is a separate
definition that knows nothing of it.

`getopts` and `read` are state machines: what they leave behind matters to the next call.
In `Getopts` the shell variables `OPTIND` and `_OPTPOS` (`ind`, `pos`) say which letter of
which argument comes next; a script sets `OPTIND` to 1 and gives a list of words, and each
call is one action, by what it finds there (`NoOption`, `WrongLetter`, `Flag`,
`ArgumentWithin`, `ArgumentApart`, `NoArgument`). In `Reading` one action takes one
character (one `read` system call), so that it shows what is left for the next
command; another gives one variable its part of the line. Histories: `seen`, what the
calls gave; `start`, the `pos` an earlier list left; `kept` and `spans`, which characters
of the input and of the line went where.

* `programs_syntax`: a simple command, with assignments, reserved words as
  arguments, IO numbers and here-documents, comes to stand under up to two
  constructions: lists, pipelines, `!`, groups, `if`, loops, `for`, `case`,
  functions. The tree is written out in three styles (separators and line breaks, and
  how the lines of here-documents are cut) and parsed. Bodies have tabs, which `<<-`
  strips before a line is compared with the delimiter, and lines cut by a backslash,
  which an unquoted body joins first, the delimiter's own line among them. `RoundTrip`: the same tree comes back, every here-document with its own
  body, also when another command follows. `WordsKept`: with one token removed or
  doubled, what the parser still accepts has every word somewhere. Two constructions
  are the least that put a here-document inside a compound command inside a list.
* `words_meaning`, by kind of input:
  - patterns of up to three atoms (stars, slashes, characters, escapes, brackets with
    ranges, negation, a leading `]` or an escaped one), over texts of up to three
    characters (all of up to two, from three) and a tree three levels deep, with hidden names, `.` and `..`.
    `PatternRead`: the pattern is read as the atoms and components it was written
    from, each taking the characters it should. `IsAtom` says how an atom may be written
    and which characters it then takes, for a bracket by where its members begin; TLC
    checks it of the run's atoms, one of them
    `[!1-\3/]`, with a range up to an escape. `PatternsDenoted` and `GlobPaths` say
    what `fnmatch`, the trims and `glob` make of that reading. Three atoms are the least
    with two stars and something between them, which needs backtracking, and with a
    component between two slashes;
  - expressions of up to two operators at a width of 8 bits (`ArithMeaning`: precedence
    and short circuit show with two);
  - up to five items for `field_split`, each the beginning of a fragment, which may be
    split or not and may begin a word or not, or one of three characters, white space
    and a mark among them, with `IFS` set to those two or empty (`FieldsDefined`). Five
    items are a field, white space, the beginning of another fragment, a mark in it, and
    what comes after;
  - words of up to two parts, nested ones among them, in shells with parameters set,
    empty and unset and several `IFS` (`QuotedKept`, `ParamsYield`). `QuotedKept` is about
    the fields `Pass` makes of their fragments;
  - up to four arguments of `test`, and tests of up to four primaries (`TestMeaning`);
  - one list of up to three words after another for `getopts` (`GetoptsFinds`): three are
    the least in which an option's argument looks like an option that takes the
    next word;
  - up to four characters of input for one `read` after another (`ReadsLine`), enough for
    an escaped newline, the newline after it and a character of the next line.
* `words_quoted`: see section 10.

Where the code knowingly or not departs from the definition, the property names the
case in an operator of its own (`Straddles`, of which `FieldsDefined` also says that it is
never too wide, `SlashWithin`, `LookedUpEscaped`, `MayDivide`, `Misread`, `NoPositionLeft`, `DoublyContinued`, `Mixed`, `TokenLost`), and section 10 lists it.

Where lines are cut twice, no last part of a body's line is the delimiter, and the
delimiter, which is one item here, is cut before it (section 10). Characters stand for themselves and are few; the width of integers is a constant,
8 instead of 64; aliases, positions and messages are left out.

## 9. Proofs

All proofs are for every value of the constants, under the assumptions named in
the modules: `NStagesAssumption` (at least two stages), `NJobsAssumption`,
`CodesAssumption`, `KindsAssumption` (Pipeline); `CommandsAssumption`,
`BoundsAssumption` (Eval); `LimitAssumption`, `TargetsAssumption`,
`FilesAssumption`, `NestAssumption` (Redirect); `JobsAssumption` (Jobs);
`ParseAssumption`, `UnsetAssumption`, `AbsentAssumption`,
`VarsBoundsAssumption` (Vars); `PatternAssumption` and `TreeAssumption` (Pattern: the
alphabet repeats no character, a path leads through directories),
`TextsAssumption` and `AtomsAssumption` (Matching: every atom is a star, a slash, `?`, an
ordinary character, an escaped one or a bracket of any members); `SplittingAssumption` (Splitting: what
stands for the beginning of a fragment is no character); `OptionsAssumption` (Getopts)
and `ReadersAssumption` (Reading), which say what kind of thing the constants are.

**Pipeline_proofs.** `IInv` strengthens the invariants:

* `TypeOK` is inductive by itself (`PipelineTypeOK`).
* `PhaseInv` says what has been forked and reaped at each `pc`: later stages
  absent, earlier ones reaped while `next` is awaited, a leader that still
  exists as long as stages are being forked (nobody reaps then). The last fact
  is why a later stage's `setpgid` succeeds even when the leader is a zombie.
* `GroupInv` says that every existing stage is in group 1 except one just
  forked that has not run. `PipelineGrouped` follows.
* `NoStalePid` and `NoLostChild` are inductive given these.
* `TerminalInv` and `StatusInv` (with `FailedSoFar`: the pipefail status is that
  of the last failing stage among those awaited so far) are shown in the
  same way and give `TerminalReturned` and `StatusCorrect`.
* `ForkedInv` says which stages and jobs have been forked at each `pc`: once the
  waits begin, and at every return of `Cancelled`, all of them. What `NoLostChild`
  tracks is then everything, and `CancelKillsAll` follows. `StopInv` says that
  until a cancellation every existing stage is in `child_pids` and that a stop on
  its way from the wait to the return is still in force (`StoppedResumable`).

**Eval_proofs.** `IInv` describes the stack and the Shell together. `Own` says
which frame belongs to the process of a Shell; `StackInv` states, for the
running process and for every saved parent, that a condition among the frames
below implies `tested`, and that a nested condition has saved `TRUE`. The
property alone is not inductive: leaving an inner condition restores the saved
value, and ending a process restores the parent's Shell, so the invariant must
speak of both. Every step pushes a frame, pops frames or replaces the top; one
lemma for each (`PushFrame`, `PopFrames`, `ReplaceTop`) carries the
invariant, and the lemmas about actions cite them. Results:
`EvalTestedInConditions` and `EvalMainNeverExecs`.

**Eval_proofs, the context.** `IInv` says that the Shell knows at least what the calls
in progress imply; `CInv` says that it knows no more. `Faithful` relates a Shell to
the frames of its process: `tested` only inside a condition, `loopDepth` and
`scopes` equal to the number of loops and functions in progress (`Count`), a saved
`TRUE` only where an outer condition saved it, with `evExit` nothing but `eval`, `.`
and the EXIT trap above the process's first frame, and no EXIT trap but its own. It
is stated for the running process and for every parent that waits (`Settled`),
because the end of a process brings the parent's Shell back. After an error has
escaped through a condition or a loop (`escaped`) nothing is claimed of the
context. `FaithfulPush`, `FaithfulFork`, `FaithfulPop`, `FaithfulTop` say how
it survives each change of the stack. Results: `EvalContextExact`,
`EvalExecCutsNoCompound`, `EvalExitTrapIsOwn`. `EvalCancelUnwinds` is the action
property, from `IInv` alone.

**Redirect_proofs.** All four invariants are proved. `IInv` adds to them:

* `Held` and `Distinct`: every entry of every command in progress has its copy in
  the table, unchanged, and no two share one. They hold because a copy is made at
  a free number at or above `CopyBase`, and everything a redirection changes is
  a target (below `CopyBase`), a free number, or 0.
* `PendingFree`: the pending here-document is no copy, and its number was free, so
  that closing it closes nothing else.
* `FirstKept`: for every command and target, the first entry of that target is
  still in the list, ahead of all others of it, or the target has been
  restored. `RestoredExactly` alone speaks only of the end of the restoration;
  that restoring from the last entry to the first ends with the first copy is
  this invariant.

There is one lemma for each way the frames change: begun, dropped, unchanged,
an entry more (`SaveStep`), an entry less (`RestoreStep`). The lemma about the
lowest free number rests on the library's well-foundedness of the naturals.

**Jobs_proofs.** `NoChildForgotten` and `OutputTaken` are proved, with
`TypeOK`. `IInv` adds `StatusInv` (once the thread has reported an end, the child
awaited is gone; only a wait that asks for stops is told of one), `TargetInv` (whoever
waits, waits for a process), `UnreapedInv` (outside its loop
`kill_children` has nothing left to wait for) and `OutputInv` (where
nothing reads the pipe it is at its end: without this nothing is known when the
next command starts). That a PID may be given to a stranger is why the invariants
speak of the shell's children, never of PIDs.

**Vars_proofs.** A step is one of few shapes: one variable changes (`Touches`) and
may be logged (`CommandShape`), a scope is pushed (`CallShape`), a log is put back.
`VInv`, the types with `CacheAgrees`, is inductive over these. `MayTo` says how a
touched variable may change; with it `VarsReadonlyStays` needs no further invariant.
`VarsEnvExact` is about prefixes of any length, which the run has up to two of, and needs
no invariant: `EnvEntriesOf` says which entries of a name the three parts of the list
contribute, from which it follows by cases that the last of them is the one promised and
where there is but one. What it excludes is a name taken from two parts.

**Vars_proofs, the refinement.** `VarsRefinesScoping` is `Spec => DynamicScoping`: the initial
states map to initial states and every step to a step of Scoping or a stutter. The
mapping takes the least scope above that hides a name and the first of its entries
(`Min` twice); `Held` restates this by quantifiers, `HeldOnce` shows the two agree
and that there is one such variable, and from there `ChangeStep`, `LocalStep`,
`EnterStep` and `LeaveStep` show, for any map and stack before and after, that only
the one binding changed. `HomeIs` finds the binding that Scoping would call visible.

**Expansion_proofs, patterns.** `MatchesAreDenoted` and `PathsAreDenoted`: what the runs check of
small patterns and one tree holds of all. The model says what `fnmatch_inner` says of
a position of the pattern in terms of later positions, as a recursive function
(`FnMatchInner`); the definition (`Denotes`) knows no recursion over the text: there is a
way to cut the text into one part for each element of the pattern.

* TLA+'s recursive functions are CHOOSE expressions. `Recursion` (in `Numbers`) shows that one whose
  equation looks only at later positions exists and satisfies that equation; the
  lemmas `BracketEndsDef`, `MatchesDef`, `ElementsDef`, `SplitDef`, `ReadDef`,
  `BelowDef` apply it. It rests on `DownInduction`, which is the library's
  well-foundedness of the naturals turned around.
* The strengthening, for all positions of pattern and text (`MatchesDivided`):
  `fnmatch_inner` accepts from there on exactly where the elements that remain divide
  the rest of the text. A star is the hard case: the code skips a run of stars, and
  tries each rest of the text; the definition has an element for each star
  (`DividedEmpty`, `DividedCons`, `StarMatches`).
* The trims try the parts in an order; `Extremes` and `ExtremesWithout` show that the
  first hit is the shortest or longest, and that leaving out the empty part
  matters for the shortest only (`TrimsDenote`).
* `BelowDenoted`: from any directory and any component on, `glob_recursive` finds
  exactly the existing paths below it whose names the remaining components denote.
  That the directories on the way exist is `TreeAssumption`; that a component
  without pattern characters, looked up, names what it denotes is `LiteralDenotes`.

**Expansion_proofs, reading.** `PatternsAreRead`: a pattern put together from any atoms, in any
number, is read as these atoms, each with its characters, and split into the components
between its slashes. What could go wrong is that an atom is read differently next to another
one: a `]`, a dash or an escape at the wrong place would join or divide them.

* The pattern does not show how it was put together, so `PatternRead` is not inductive.
  `WrittenInv` adds that there are places, one for each atom, at which their texts
  stand one after the other (`Spelled`); an atom more keeps them (`WrittenNext`).
* `AtomRead`: whatever surrounds it, an atom that stands at a position is one element from
  there, with its characters. Brackets are the hard case. `MemberRead` says of one member,
  a character or a range with escapes on either side, that `bracket_match` goes on
  right behind it and takes what it covers; `BracketRead` concludes from the last
  member to the first that the bracket ends at its own `]` and has what its members cover.
* `SpelledElements` goes from the last atom to the first: the elements begin where the atoms do.
* The components: from an atom on, `split_components` cuts at the next slash atom (`CutAt`, from
  `NoSlash`) and goes on behind it. `PiecesFrom` are the spans between slashes from
  there (`PiecesNext`), and what is cut out is written with the atoms of its span
  (`SpelledPart`, `ComponentRead`); `ComponentsFrom` puts them together. `SlashWithin`
  is excluded: a slash within an atom cuts as well.

**Expansion_proofs, fields.** `FieldsAreDefined`: for words of any length, any characters
and any `IFS`, `field_split` makes the fields of the definition, in order, in exactly
the cases that are not `Straddles`. The definition says of the finished word which stretches
are fields (`Spans`: longest ones that nothing separates) and which marks make an empty
field (`Nothings`); the code makes one pass, with a field in progress and a note of what
white space it skips.

* That the fields so far are right is not inductive: whether the next item goes on with
  a field depends on what is in progress, and what a mark ends on what was skipped.
  `PassInv` adds both. A field in progress is the last of `Spans` (`OpenSpan`), and if
  there is none then every item of a field is separated from what comes next
  (`AllEnded`). `SkipRight` says, for each value of `skip`, what a mark that came next
  would end.
* How the definition changes with one item more: `SpansKept`, `SpanBegins`, `SpanGrows`
  (a field stays, begins, or ends one item later) and `NothingsNext` (a mark may end a
  field of nothing; what earlier ones ended stays).
* The exception is decided by the item before the mark (`StraddlesBy`): the code makes an empty
  field exactly if no field is in progress and no white space before the mark has been
  skipped, which is where `EndsNothing` and `StraddlesAt` differ (`MarkEnds`, from
  `LastEnded`). So `FieldsRight` speaks of the marks at which they differ, and
  `InvGivesFields` concludes: the fields are those of the definition if and only if no mark
  straddles.

`FieldsTyped` is the types. That the items of a word are those the expansion gives
(`Items` of `Expand`) is by definition; what the expansion gives is RECURSIVE.

**Builtins_proofs.** `OptionsAreFound` and `LinesAreRead`: for every option string,
argument list and number of calls, and for every input, any number of `read`s and of
variables.

* `getopts`: `GetoptsFinds` describes all options of a list at once, and which words are
  arguments by a parity (of words each of which would take the next, every other one
  does); the code knows only where it is. `OptionsInv` says that the position is at an
  option (`Located`) or at the first operand, and that what the calls gave are, in order,
  the results of exactly the options before it (`Passed`). `Arguments` turns the parity
  into a step from a word to the next, `AfterWord` and `NextWord` say where a
  word's last option leads, `NextInWord` where another letter does, and `WordPassed`
  that nothing lies between. `NoArgument` leaves a letter's position past the last
  word, so at the first operand any `pos` will do.
* `read`, the line: `LineInv` says that no unescaped newline has been passed, that the code
  is about to peek exactly when the character just taken is a backslash that escapes
  (again a parity: `Escapes`), that the characters kept are the plain ones among those
  taken (`Before`), and that `continued` is set only after an escaped newline. The
  end of the line is then where the definition says it is (`LineEnds`), except where a
  second newline was swallowed (`DoublyContinued`).
* `read`, the variables: `SplitInv` says that `next` begins a word or is past the last, that
  the words not yet assigned are those from `next` on, and that each variable so far has
  what the definition shares out to it. `FirstWord` and `LastWord` say that a character
  that is no delimiter belongs to a word and where that word ends, `PastGap` that nothing
  lies between one word and the next. With delimiters that are not white space it is
  false, and `ReadsLine` claims nothing.

`OptionsTyped` and `ReadTyped` are the types of both.

**Model-checked only.** Liveness (`Terminates`, `CancelOfLeaderReturns`,
`CancelEnds`, `CancelReturns`) is out of the prover's reach, and so is everything
in `Parser`, `Programs`, `Expand`, `Arith` and `TestCmd` and what `Words` asks of the last
three (`QuotedKept`, `ParamsYield`, `ArithMeaning`, `TestMeaning`), which are RECURSIVE over
trees or token lists. Every other invariant and every action property that the
runs check is proved.

## 10. Where the code and its comments disagree

Three runs end in a counterexample.

| run | what happens |
| --- | --- |
| `jobs_stale` | `wait` reaps children and leaves their PIDs in `child_pids`; a cancellation after it signals the groups of these numbers, though `eval.rs:767` calls them valid children. |
| `pipeline_status` | under pipefail, stages that end with 2 and then 1 give 1: the last failing stage's status, as `README.md:69` has it, not the highest, as `eval.rs:320` and the help text (`main.rs:107`) have it. |
| `words_quoted` | `'*a'` and `"$x"` with `x='*a'` are expanded to names of files: the fragments do not keep what was quoted. |

The others were met while modelling, most of them as a property that had to exclude
the case; a definition named here states what the code does not do and no run checks.

**Processes.** A cancellation that is seen while a stage after the first is awaited
signals the group named by that stage's PID; no such group exists, nobody is
killed, and `rx.recv()` waits for a process that need not end (`eval.rs:752`, `drains` of
Eval). A stop that arrives after a cancellation makes an
interactive shell forget a living child (`eval.rs:757`, `lost` of Jobs). `Stopped` carries the PID of
the last stage, whichever stopped (`eval.rs:1738`, `error.rs:58`). `setpgid` after
`spawn` comes after the exec and is refused, so external commands stay in the
shell's group although the comments at `eval.rs:1520` and `eval.rs:1545` say
otherwise. `wait` and the reading of a substitution are not interrupted by a
cancellation, and a young child or a nested group survives the kill, although
`docs/process-model.md:35` says that waiting checks for cancellation. Joining the
relay threads waits for grandchildren that hold the pipe.

**Evaluator.** `break`, or any error, in a condition leaves `tested` set: `set -e`
has no effect from then on (`eval.rs:1108`,
`TestedOnlyInConditions`). `while break; do ...; done` ends the
script with status 2 (`eval.rs:1127`). In a pipeline stage `eval 'a; b'` with an
external `a` never runs `b`: `ev_exit` is still set (`eval.rs:1506`,
`ExecIsLast`). `trap ... EXIT; x=$(...)` runs the trap in the substitution's child
(`eval.rs:1969`). A `for` over a read-only variable returns without decrementing
`loop_depth` (`eval.rs:1210`). Traps run only between top-level commands
(`eval.rs:897`). A subshell in a pipeline stage is not forked, and the options it
sets stay changed (`eval.rs:1076`). The words of a substitution that is run in the
shell's own process are expanded in it, with their side effects, and once more if it
is forked after all.

**Redirections.** `exec 3>file` when 3 is the lowest free descriptor: `open`
returns 3 itself, `dup2(3, 3)` does nothing, and dropping the `File` closes it
(`redirect.rs:125`, `FileReached`). With sinks a builtin or a function does not read
its here-document, though `redirect.rs:170` says so, and the next external command
may get it (`redirect.rs:172`). When a body does not expand, the read end of its
pipe stays open (`redirect.rs:158`); when the pipe cannot be made, the body is
written to descriptor 0, which is then closed (`redirect.rs:145`).

**Variables.** A dot script pushes no scope. Prefix assignments of builtins are
ignored. `unset a.b` leaves the inherited entry. Where `ev_exit` execs,
and for a handler, `A=1 A=2 cmd` gives two entries, of which `getenv` finds the first; a
spawned command gets the last (`EnvFor`).

**Parser.** `a; b &` puts the whole list into the background. Bodies of
here-documents are swapped where some are read inside a compound command and some
after it (`Mixed`). A line of a body that is continued twice is compared with the delimiter
in pieces: its last part ends the here-document if it equals the delimiter, and a delimiter
cut over three physical lines is missed (`lexer.rs:1457`). A number that is not directly before the operator is taken for
an IO number. A number after a compound command that begins no redirection is put
back over the token after it, which is lost (`TokenLost`). A command that begins
with a redirection is a syntax error after `;` in a compound command. The newline
that ends the words of a `for` does not read pending bodies. Words that look like
assignments are refused as targets of redirections, in `for` and in `case`; reserved
words are refused in the words of a `for`.

**Words.** Unquoted `$@` is not split; `x$*y` breaks before the first argument;
`"a$@"` without parameters gives nothing; an empty `IFS` makes an empty unquoted `$x`
a field; white space in one fragment before a mark at the beginning of the next lets
the mark make an empty field, and white space at the beginning of a fragment lets the
mark after it make none (`Straddles`, proved to be the only departure from the
definition, in which a fragment is not split without `IFS`). `${10}` is always empty,
`${#v}` counts bytes, `${v#*}` and `${v%*}` remove a character, the characters of a
parameter's value in a pattern are always literal, `-` and `!` are not escaped in
quoted brackets, a slash that is escaped or in brackets separates components like any
other (`SlashWithin`), and components without pattern characters are looked up with their
escapes (`LookedUpEscaped`). Errors of `$(...)` in a word are swallowed, a
cancellation too, and so is `:=` on a read-only variable.

**Arithmetic, test, getopts, read.** Division by zero fails also in an operand that
is not evaluated (`MayDivide`; `arith.rs:464` says it should not), and the least
integer divided by -1 panics. `Misread` lists the arguments that `test` takes for
operators. `--` leaves `OPTIND` at itself; a stale position within a group of options
survives into the next list (`NoPositionLeft`). A newline right after a continued line
is swallowed (`DoublyContinued`); one variable loses delimiters that are not white, and
several such delimiters count as one.

## 11. Not modelled

* Signals: the installing, resetting and ignoring of handlers, and two Shells in one
  process sharing the pending flags (`signal.rs:152`). A `SIGINT` trap is stored under
  a name that `take_pending` does not give.
* Stops of external commands that are awaited alone: `Child::wait` does not report them
  (`eval.rs:1593`), so that to the shell they are only late.
* Bytes: `shell_bytes.rs` and `encoding.rs` are a bijection without state.
* The characters of a word in the lexer: `Parser` starts from tokens.
* `printf`, `echo`, `pwd`, `type`, `umask` and the listings, which format; `kill`;
  the file and number primaries of `test`, opaque truth values.
* `noexec`, xtrace, the handlers of an embedder, `main.rs` and `lib.rs`.
* A here-document larger than a pipe, and scripts that name descriptors at or above
  10.
