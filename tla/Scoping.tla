---------------------------- MODULE Scoping ----------------------------
(***************************************************************************)
(* What src/src/var.rs promises of the variables of a shell: dynamic       *)
(* scoping.  The script and each function call in progress have a frame of *)
(* bindings; a name means its topmost one.  local makes a binding in the   *)
(* top frame, which starts as a copy; the end of a call drops its frame    *)
(* and touches no other.  A read-only binding keeps its value.             *)
(* Vars implements this with a flat map and a log of what to put back.     *)
(***************************************************************************)
EXTENDS Integers, Sequences

CONSTANTS
  Names,
  Values,
  Absent,   \* not declared
  NotHere   \* no binding in this frame

Unset == "unset"  \* declared, without a value

Attributes == [value : Values \cup {Unset}, exported : BOOLEAN, readonly : BOOLEAN]
Variables == Attributes \cup {Absent}

VARIABLE frames  \* the bindings of the script, then those of each call

Init == \E b \in [Names -> Variables] : frames = <<b>>

\* The frame of f whose binding of n is visible.
Home(f, n) ==
  CHOOSE i \in 1 .. Len(f) :
    f[i][n] # NotHere /\ \A j \in i + 1 .. Len(f) : f[j][n] = NotHere

\* How a variable may change: a mark is taken away only with the whole variable,
\* and a read-only variable keeps its value.
May(old, new) ==
  /\ new \in Variables
  /\ old \in Attributes =>
       /\ old.readonly => new \in Attributes /\ new.readonly /\ new.value = old.value
       /\ new \in Attributes =>
            /\ old.exported => new.exported
            /\ old.value # Unset => new.value # Unset

\* The steps, as relations between the frames f before and g after.

\* Every command that changes n, where n is bound.
Change(f, g, n) ==
  LET i == Home(f, n)
  IN  /\ Len(g) = Len(f)
      /\ May(f[i][n], g[i][n])
      /\ g = [f EXCEPT ![i][n] = g[i][n]]

\* local n, in a call.
Local(f, g, n) ==
  LET top == Len(f)
  IN  /\ Len(g) = top /\ top > 1
      /\ May(f[Home(f, n)][n], g[top][n])
      /\ g = [f EXCEPT ![top][n] = g[top][n]]

\* A call, with a prefix assignment to those of bound, one at most.
Enter(f, g, bound) ==
  LET top == Len(f) + 1
  IN  /\ Len(g) = top
      /\ \A n \in bound : May(f[Home(f, n)][n], g[top][n])
      /\ g = Append(f, [n \in Names |-> IF n \in bound THEN g[top][n] ELSE NotHere])

Leave(f, g) == Len(f) > 1 /\ g = SubSeq(f, 1, Len(f) - 1)

Step(f, g) ==
  \/ \E n \in Names : Change(f, g, n) \/ Local(f, g, n) \/ Enter(f, g, {n})
  \/ Enter(f, g, {})
  \/ Leave(f, g)

Next == Step(frames, frames')

Spec == Init /\ [][Next]_frames
========================================================================
