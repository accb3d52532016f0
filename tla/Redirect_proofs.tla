-------------------------- MODULE Redirect_proofs --------------------------
(***************************************************************************)
(* Invariance proofs for Redirect, for any number of descriptors, files and *)
(* redirections and any depth of nesting: copies survive whatever runs in   *)
(* between, and restoring is exact.                                         *)
(***************************************************************************)
EXTENDS Redirect, TLAPS, SequenceTheorems, WellFoundedInduction

Tables == [FD -> Refers \cup {Closed}]

\* The shape of the state, entries included: an entry has a copy only of a
\* descriptor that was open, and none when it was closed.
Shape ==
  /\ sinks \in BOOLEAN /\ fds \in Tables /\ inherited \in Tables
  /\ pending \in {None} \cup FD
  /\ frames \in Seq(FrameType)
  /\ mode \in {"run", "apply", "body", "restore"}
  /\ mode # "run" => frames # <<>>
  /\ count \in 0 .. MaxRedirs /\ spoiled \subseteq FD
  /\ \A d \in FD : d >= CopyBase => inherited[d] = Closed

\* What an entry of a stack of frames says of a table.
EntryHolds(e, t) ==
  /\ e.closed => e.was = Closed /\ e.copy = None
  /\ e.copy # None => e.was # Closed /\ t[e.copy] = e.was

Held(F, t) ==
  \A i \in 1 .. Len(F) : \A k \in 1 .. Len(F[i].saved) : EntryHolds(F[i].saved[k], t)

Distinct(F) ==
  \A i \in 1 .. Len(F) : \A j \in 1 .. Len(F) :
    \A k \in 1 .. Len(F[i].saved) : \A l \in 1 .. Len(F[j].saved) :
      F[i].saved[k].copy # None /\ F[i].saved[k].copy = F[j].saved[l].copy
      => i = j /\ k = l

\* A descriptor holds a copy for some command in progress.
IsCopy(F, c) ==
  \E i \in 1 .. Len(F) : \E k \in 1 .. Len(F[i].saved) : F[i].saved[k].copy = c

\* A pending here-document is open unless a script or an error closed it, is
\* no copy, and its number was free.
PendingFree ==
  pending # None =>
    /\ pending \in Targets \cup spoiled \/ inherited[pending] = Closed
    /\ pending >= CopyBase => fds[pending] # Closed
    /\ ~IsCopy(frames, pending)

Others ==
  \A d \in FD \ (Targets \cup {pending} \cup spoiled) :
    IsCopy(frames, d) \/ fds[d] = inherited[d]

\* The first entry of a target in a frame is the one that restores it, and
\* is still there until it has.
Restorable(f, d) ==
  \E k \in 1 .. Len(f.saved) :
    /\ f.saved[k].fd = d /\ f.saved[k].was = f.first[d]
    /\ f.saved[k].copy # None \/ f.saved[k].closed
    /\ \A j \in 1 .. (k - 1) : f.saved[j].fd # d
Done(f, d, t) ==
  t[d] = f.first[d] /\ \A k \in 1 .. Len(f.saved) : f.saved[k].fd # d

FirstKept ==
  \A i \in 1 .. Len(frames) : \A d \in Targets :
    /\ frames[i].first[d] = None => \A k \in 1 .. Len(frames[i].saved) : frames[i].saved[k].fd # d
    /\ frames[i].first[d] \notin {None, Lost} =>
         \/ Restorable(frames[i], d)
         \/ mode = "restore" /\ i = Len(frames) /\ Done(frames[i], d, fds)

IInv == Shape /\ Held(frames, fds) /\ Distinct(frames) /\ PendingFree /\ Others /\ FirstKept

-----------------------------------------------------------------------------
(* The kernel's operations.                                                 *)

LEMMA Constants ==
  /\ Limit \in Nat /\ CopyBase \in Nat /\ CopyBase >= 3 /\ CopyBase < Limit
  /\ \A d \in Targets : d \in FD /\ d < CopyBase
  /\ 0 \in FD /\ HereDoc \in Refers /\ HereDoc # Closed /\ None # Closed
  /\ Closed \notin Refers /\ \A f \in Files : f \in Refers
  /\ None \notin FD /\ Refers \subseteq Int /\ FD \subseteq Int
  /\ \A d \in Targets : \A c \in FD : c >= CopyBase => c # d
BY LimitAssumption, TargetsAssumption, FilesAssumption
   DEF FD, HereDoc, Closed, None, Refers

\* A set of numbers that is not empty has a least one.
LEMMA Least ==
  ASSUME NEW T, T \subseteq Nat, T # {}
  PROVE  \E x \in T : \A y \in T : x <= y
<1> DEFINE R == OpToRel(<, Nat)
<1>1. IsWellFoundedOn(R, Nat)
  BY ONLY NatLessThanWellFounded, Zenon
<1>2. \A a, b \in Nat : a < b => <<a, b>> \in R
  <2> SUFFICES ASSUME NEW a \in Nat, NEW b \in Nat, a < b PROVE <<a, b>> \in {ss \in Nat \X Nat : ss[1] < ss[2]}
    BY Zenon DEF OpToRel
  <2> QED OBVIOUS
<1> HIDE DEF R
<1>3. PICK x \in T : \A y \in T : ~ (<<y, x>> \in R)
  BY <1>1, WFMin
<1>4. SUFFICES ASSUME NEW y \in T PROVE x <= y
  OBVIOUS
<1>5. x \in Nat /\ y \in Nat /\ <<y, x>> \notin R
  BY <1>3
<1>6. ~(y < x)
  BY <1>2, <1>5
<1> QED BY <1>5, <1>6

\* The lowest free descriptor is free.
LEMMA LowestFree ==
  ASSUME NEW t, NEW low \in Nat, Free(t, low) # {}
  PROVE  Lowest(t, low) \in FD /\ Lowest(t, low) >= low /\ t[Lowest(t, low)] = Closed
<1>1. Free(t, low) \subseteq Nat
  BY LimitAssumption DEF Free, FD
<1>2. \E d \in Free(t, low) : \A e \in Free(t, low) : d <= e
  BY <1>1, Least
<1>3. Lowest(t, low) \in Free(t, low)
  BY <1>2 DEF Lowest
<1> QED BY <1>3 DEF Free

\* Closing and duplicating change one descriptor.
LEMMA CloseChanges ==
  ASSUME NEW t \in Tables, NEW d \in FD
  PROVE  /\ Close(t, d) \in Tables /\ Close(t, d)[d] = Closed
         /\ \A x \in FD \ {d} : Close(t, d)[x] = t[x]
BY DEF Close, Tables

LEMMA Dup2Changes ==
  ASSUME NEW t \in Tables, NEW s \in FD, NEW d \in FD
  PROVE  /\ Dup2(t, s, d) \in Tables
         /\ t[s] # Closed => Dup2(t, s, d)[d] = t[s]
         /\ \A x \in FD \ {d} : Dup2(t, s, d)[x] = t[x]
BY DEF Dup2, Tables

\* A descriptor made at the lowest number, put onto fd and closed: no other
\* changes.
LEMMA Temporary ==
  ASSUME NEW t \in Tables, NEW fd \in FD, NEW e \in Refers, Free(t, 0) # {}
  PROVE  LET d == Lowest(t, 0)
             u == Close(Dup2([t EXCEPT ![d] = e], d, fd), d)
         IN  u \in Tables /\ \A x \in FD \ {fd} : u[x] = t[x]
<1> DEFINE d == Lowest(t, 0)
           made == [t EXCEPT ![d] = e]
           onto == Dup2(made, d, fd)
           u == Close(onto, d)
<1>1. d \in FD /\ t[d] = Closed
  BY LowestFree
<1> HIDE DEF d
<1>2. made \in Tables /\ \A x \in FD \ {d} : made[x] = t[x]
  BY <1>1 DEF Tables
<1> HIDE DEF made
<1>3. onto \in Tables /\ \A x \in FD \ {fd} : onto[x] = made[x]
  BY <1>1, <1>2, Dup2Changes
<1> HIDE DEF onto
<1>4. u \in Tables /\ u[d] = Closed /\ \A x \in FD \ {d} : u[x] = onto[x]
  BY <1>1, <1>3, CloseChanges
<1> HIDE DEF u
<1>5. u \in Tables /\ \A x \in FD \ {fd} : u[x] = t[x]
  BY <1>1, <1>2, <1>3, <1>4
<1> QED BY <1>5 DEF u, onto, made, d

-----------------------------------------------------------------------------
(* The stack of frames.                                                     *)

LEMMA FrameShape ==
  ASSUME NEW F \in Seq(FrameType), NEW i \in 1 .. Len(F)
  PROVE  /\ F[i] \in FrameType /\ F[i].saved \in Seq(Entry) /\ Len(F[i].saved) \in Nat
         /\ F[i].first \in [Targets -> Refers \cup {Closed, None, Lost}]
         /\ \A k \in 1 .. Len(F[i].saved) :
              /\ F[i].saved[k] \in Entry
              /\ F[i].saved[k].fd \in Targets
              /\ F[i].saved[k].was \in Refers \cup {Closed}
              /\ F[i].saved[k].copy = None \/
                   (F[i].saved[k].copy \in FD /\ F[i].saved[k].copy >= CopyBase)
<1>1. F[i] \in FrameType
  BY ElementOfSeq
<1>2. F[i].saved \in Seq(Entry) /\ F[i].first \in [Targets -> Refers \cup {Closed, None, Lost}]
  BY <1>1 DEF FrameType
<1>3. SUFFICES ASSUME NEW k \in 1 .. Len(F[i].saved)
               PROVE  /\ F[i].saved[k] \in Entry
                      /\ F[i].saved[k].fd \in Targets
                      /\ F[i].saved[k].was \in Refers \cup {Closed}
                      /\ F[i].saved[k].copy = None \/
                           (F[i].saved[k].copy \in FD /\ F[i].saved[k].copy >= CopyBase)
  BY <1>1, <1>2
<1>4. F[i].saved[k] \in Entry
  BY <1>2, ElementOfSeq
<1> QED BY <1>4, Constants DEF Entry, FD

\* The top frame, and a stack with another frame in its place.
LEMMA TopShape ==
  ASSUME frames \in Seq(FrameType), frames # <<>>
  PROVE  Len(frames) \in Nat /\ Len(frames) >= 1 /\ Top = frames[Len(frames)] /\ Top \in FrameType
<1>1. Len(frames) \in Nat /\ Len(frames) >= 1
  BY EmptySeq
<1> QED BY <1>1, ElementOfSeq DEF Top

LEMMA RetopShape ==
  ASSUME frames \in Seq(FrameType), frames # <<>>, NEW f \in FrameType
  PROVE  /\ Retop(f) \in Seq(FrameType) /\ Len(Retop(f)) = Len(frames)
         /\ Retop(f)[Len(frames)] = f
         /\ \A i \in 1 .. (Len(frames) - 1) : Retop(f)[i] = frames[i]
<1>1. Len(frames) \in Nat /\ Len(frames) >= 1
  BY TopShape
<1> QED BY <1>1, ExceptSeq DEF Retop

LEMMA BelowShape ==
  ASSUME frames \in Seq(FrameType), frames # <<>>
  PROVE  /\ Below \in Seq(FrameType) /\ Len(Below) = Len(frames) - 1
         /\ \A i \in 1 .. (Len(frames) - 1) : Below[i] = frames[i]
<1>1. Len(frames) \in Nat /\ Len(frames) >= 1
  BY TopShape
<1> DEFINE n == Len(frames) - 1
           u == SubSeq(frames, 1, n)
<1>2. n \in Nat /\ \A i \in 1 .. n : frames[i] \in FrameType
  BY <1>1, ElementOfSeq
<1> HIDE DEF n
<1>3. u \in Seq(FrameType) /\ Len(u) = n /\ \A i \in 1 .. n : u[i] = frames[i]
  BY <1>2, SubSeqProperties
<1>4. Below = u
  BY DEF Below, n
<1> HIDE DEF u
<1> QED BY <1>3, <1>4 DEF n

LEMMA BegunShape ==
  ASSUME NEW kind \in {"inner", "external", "exec"}, frames \in Seq(FrameType)
  PROVE  /\ Append(frames, Begun(kind)) \in Seq(FrameType)
         /\ Len(Append(frames, Begun(kind))) = Len(frames) + 1
         /\ Len(frames) \in Nat
         /\ \A i \in 1 .. Len(frames) : Append(frames, Begun(kind))[i] = frames[i]
         /\ Append(frames, Begun(kind))[Len(frames) + 1] = Begun(kind)
         /\ Begun(kind).saved = <<>>
<1>1. Begun(kind) \in FrameType /\ Begun(kind).saved = <<>>
  BY DEF Begun, FrameType
<1> HIDE DEF Begun
<1> QED BY <1>1, AppendProperties

-----------------------------------------------------------------------------
(* Steps that leave the frames alone, begin one or drop one.                *)

\* The stack may lose its top frame or gain one without entries, and the
\* table may change where no copy is.
LEMMA StackStep ==
  ASSUME Shape, Shape', Held(frames, fds), Distinct(frames), FirstKept,
         mode # "restore" \/ Len(frames') < Len(frames),
         Len(frames') <= Len(frames) + 1,
         \A i \in 1 .. Len(frames') : i <= Len(frames) => frames'[i] = frames[i],
         Len(frames') = Len(frames) + 1 => frames'[Len(frames')].saved = <<>> /\
           \A d \in Targets : frames'[Len(frames')].first[d] = None,
         \A c \in FD : IsCopy(frames', c) => fds'[c] = fds[c]
  PROVE  Held(frames', fds') /\ Distinct(frames') /\ FirstKept'
<1>1. frames \in Seq(FrameType) /\ frames' \in Seq(FrameType)
  BY DEF Shape
<1>2. Len(frames) \in Nat /\ Len(frames') \in Nat
  BY <1>1
<1>3. \A i \in 1 .. Len(frames') :
        \/ i \in 1 .. Len(frames) /\ frames'[i] = frames[i]
        \/ frames'[i].saved = <<>> /\ \A d \in Targets : frames'[i].first[d] = None
  BY <1>2
<1>4. Held(frames', fds')
  <2> SUFFICES ASSUME NEW i \in 1 .. Len(frames'), NEW k \in 1 .. Len(frames'[i].saved)
               PROVE  EntryHolds(frames'[i].saved[k], fds')
    BY DEF Held
  <2>1. i \in 1 .. Len(frames) /\ frames'[i] = frames[i]
    BY <1>3
  <2>2. EntryHolds(frames[i].saved[k], fds)
    BY <2>1 DEF Held
  <2>3. frames[i].saved[k].copy = None \/ frames[i].saved[k].copy \in FD
    BY <1>1, <2>1, FrameShape
  <2>4. frames[i].saved[k].copy # None =>
          fds'[frames[i].saved[k].copy] = fds[frames[i].saved[k].copy]
    BY <2>1, <2>3 DEF IsCopy
  <2> QED BY <2>1, <2>2, <2>4 DEF EntryHolds
<1>5. Distinct(frames')
  <2> SUFFICES ASSUME NEW i \in 1 .. Len(frames'), NEW j \in 1 .. Len(frames'),
                      NEW k \in 1 .. Len(frames'[i].saved), NEW m \in 1 .. Len(frames'[j].saved),
                      frames'[i].saved[k].copy # None,
                      frames'[i].saved[k].copy = frames'[j].saved[m].copy
               PROVE  i = j /\ k = m
    BY DEF Distinct
  <2>1. /\ i \in 1 .. Len(frames) /\ frames'[i] = frames[i]
        /\ j \in 1 .. Len(frames) /\ frames'[j] = frames[j]
    BY <1>3
  <2> QED BY <2>1 DEF Distinct
<1>6. FirstKept'
  <2> SUFFICES ASSUME NEW i \in 1 .. Len(frames'), NEW d \in Targets
               PROVE  /\ frames'[i].first[d] = None =>
                           \A k \in 1 .. Len(frames'[i].saved) : frames'[i].saved[k].fd # d
                      /\ frames'[i].first[d] \notin {None, Lost} => Restorable(frames'[i], d)
    BY DEF FirstKept
  <2>1. CASE i \in 1 .. Len(frames) /\ frames'[i] = frames[i]
    <3>1. mode = "restore" => i # Len(frames)
      BY <1>2
    <3> QED BY <2>1, <3>1 DEF FirstKept
  <2>2. CASE frames'[i].saved = <<>> /\ frames'[i].first[d] = None
    BY <2>2
  <2> QED BY <1>3, <2>1, <2>2
<1> QED BY <1>4, <1>5, <1>6

-----------------------------------------------------------------------------
(* restore_redirections takes one entry off the top frame.                  *)

Shorter == [Top EXCEPT !.saved = LastSaved(Top.saved).rest]

LEMMA ShorterShape ==
  ASSUME frames \in Seq(FrameType), frames # <<>>, Top.saved # <<>>
  PROVE  /\ Len(Top.saved) \in Nat /\ Len(Top.saved) >= 1
         /\ Shorter \in FrameType /\ Shorter.first = Top.first
         /\ Len(Shorter.saved) = Len(Top.saved) - 1
         /\ \A k \in 1 .. (Len(Top.saved) - 1) : Shorter.saved[k] = Top.saved[k]
<1> DEFINE s == Top.saved
           n == Len(s) - 1
           u == SubSeq(s, 1, n)
<1>1. Top \in FrameType
  BY TopShape
<1>2. s \in Seq(Entry) /\ s # <<>>
  BY <1>1 DEF FrameType
<1>3. Len(s) \in Nat /\ Len(s) >= 1
  BY <1>2, EmptySeq
<1>4. n \in Nat /\ \A k \in 1 .. n : s[k] \in Entry
  BY <1>2, <1>3, ElementOfSeq
<1>5. LastSaved(s).rest = u
  BY DEF LastSaved
<1> HIDE DEF n
<1>6. u \in Seq(Entry) /\ Len(u) = n /\ \A k \in 1 .. n : u[k] = s[k]
  BY <1>4, SubSeqProperties
<1>7. Shorter = [Top EXCEPT !.saved = u]
  BY <1>5 DEF Shorter
<1> HIDE DEF u
<1>8. Shorter \in FrameType /\ Shorter.first = Top.first /\ Shorter.saved = u
  BY <1>1, <1>6, <1>7 DEF FrameType
<1> QED BY <1>3, <1>6, <1>8 DEF n

\* The table after it: the target has what the entry says, the copy is
\* closed, nothing else changes.
LEMMA RestoredTable ==
  ASSUME Shape, Held(frames, fds), RestoreOne
  PROVE  LET e == Top.saved[Len(Top.saved)]
         IN  /\ fds' \in Tables
             /\ e.copy # None \/ e.closed => fds'[e.fd] = e.was
             /\ e.copy # None => fds'[e.copy] = Closed
             /\ \A x \in FD \ {e.fd, e.copy} : fds'[x] = fds[x]
<1> DEFINE m == Len(Top.saved)
           e == Top.saved[m]
<1>1. frames \in Seq(FrameType) /\ frames # <<>> /\ Top.saved # <<>> /\ fds \in Tables
  BY DEF Shape, RestoreOne
<1>2. m \in 1 .. m /\ Len(frames) \in 1 .. Len(frames) /\ Top = frames[Len(frames)]
  BY <1>1, ShorterShape, TopShape
<1>3. /\ e.fd \in FD /\ e.fd < CopyBase
      /\ e.copy = None \/ (e.copy \in FD /\ e.copy >= CopyBase)
  BY <1>1, <1>2, FrameShape, Constants
<1>4. EntryHolds(e, fds)
  BY <1>2 DEF Held
<1>5. fds' = IF e.copy # None THEN Close(Dup2(fds, e.copy, e.fd), e.copy)
             ELSE IF e.closed THEN Close(fds, e.fd) ELSE fds
  BY DEF RestoreOne, LastSaved
<1> HIDE DEF e, m
<1>6. CASE e.copy # None
  <2> DEFINE u == Dup2(fds, e.copy, e.fd)
  <2>1. /\ u \in Tables /\ u[e.fd] = e.was
        /\ \A x \in FD \ {e.fd} : u[x] = fds[x]
    BY <1>1, <1>3, <1>4, <1>6, Dup2Changes DEF EntryHolds
  <2>2. fds' = Close(u, e.copy)
    BY <1>5, <1>6
  <2> HIDE DEF u
  <2>3. /\ fds' \in Tables /\ fds'[e.copy] = Closed
        /\ \A x \in FD \ {e.copy} : fds'[x] = u[x]
    BY <1>3, <1>6, <2>1, <2>2, CloseChanges
  <2>4. e.fd # e.copy
    BY <1>3, <1>6, Constants DEF FD
  <2> QED BY <1>3, <1>6, <2>1, <2>3, <2>4 DEF e, m
<1>7. CASE e.copy = None /\ e.closed
  <2>1. fds' = Close(fds, e.fd)
    BY <1>5, <1>7
  <2> QED BY <1>1, <1>3, <1>4, <1>7, <2>1, CloseChanges DEF EntryHolds, e, m
<1>8. CASE e.copy = None /\ ~e.closed
  BY <1>1, <1>5, <1>8 DEF e, m
<1> QED BY <1>6, <1>7, <1>8

\* One entry restored: the invariant holds of those that are left.
LEMMA RestoreStep ==
  ASSUME IInv, RestoreOne
  PROVE  IInv'
<1> DEFINE n == Len(frames)
           m == Len(Top.saved)
           e == Top.saved[m]
<1>1. /\ frames \in Seq(FrameType) /\ frames # <<>> /\ Top.saved # <<>>
      /\ Shape /\ Held(frames, fds) /\ Distinct(frames) /\ PendingFree /\ Others /\ FirstKept
      /\ mode = "restore"
  BY DEF IInv, Shape, RestoreOne
<1>2. /\ n \in Nat /\ n >= 1 /\ m \in Nat /\ m >= 1
      /\ Top = frames[n]
  BY <1>1, ShorterShape, TopShape
<1>3. frames' = Retop(Shorter)
  BY DEF RestoreOne, Shorter
<1>4. /\ frames' \in Seq(FrameType) /\ Len(frames') = n
      /\ frames'[n].first = frames[n].first
      /\ Len(frames'[n].saved) = m - 1
      /\ \A k \in 1 .. (m - 1) : frames'[n].saved[k] = frames[n].saved[k]
      /\ \A i \in 1 .. (n - 1) : frames'[i] = frames[i]
  BY <1>1, <1>2, <1>3, ShorterShape, RetopShape
<1>5. /\ fds' \in Tables
      /\ e.copy # None \/ e.closed => fds'[e.fd] = e.was
      /\ e.copy # None => fds'[e.copy] = Closed
      /\ \A x \in FD \ {e.fd, e.copy} : fds'[x] = fds[x]
  BY <1>1, RestoredTable
<1>6. /\ e = frames[n].saved[m] /\ e.fd \in Targets /\ Len(frames[n].saved) = m
      /\ e.copy = None \/ (e.copy \in FD /\ e.copy >= CopyBase)
  BY <1>1, <1>2, FrameShape
<1>7. /\ mode' = mode /\ spoiled' = spoiled /\ pending' = pending /\ inherited' = inherited
      /\ sinks' = sinks /\ count' = count
  BY DEF RestoreOne
<1> HIDE DEF n, m, e
\* Every entry that is left was there before, and is not the one restored.
<1>8. \A i \in 1 .. n : \A k \in 1 .. Len(frames'[i].saved) :
        /\ k \in 1 .. Len(frames[i].saved)
        /\ frames'[i].saved[k] = frames[i].saved[k]
        /\ i = n => k < m
  BY <1>2, <1>4, <1>6, SMTT(30)
<1>9. \A i \in 1 .. n : \A k \in 1 .. Len(frames'[i].saved) :
        LET c == frames'[i].saved[k].copy
        IN  c # None => c # e.copy /\ c \in FD /\ c >= CopyBase
  <2> SUFFICES ASSUME NEW i \in 1 .. n, NEW k \in 1 .. Len(frames'[i].saved),
                      frames[i].saved[k].copy # None
               PROVE  /\ frames[i].saved[k].copy # e.copy
                      /\ frames[i].saved[k].copy \in FD
                      /\ frames[i].saved[k].copy >= CopyBase
    BY <1>8
  <2>1. k \in 1 .. Len(frames[i].saved) /\ (i = n => k < m)
    BY <1>8
  <2>2. frames[i].saved[k].copy \in FD /\ frames[i].saved[k].copy >= CopyBase
    BY <1>1, <2>1, FrameShape DEF n
  <2>3. frames[i].saved[k].copy = e.copy => i = n /\ k = m
    BY <1>1, <1>2, <1>6, <2>1 DEF Distinct, n
  <2> QED BY <1>2, <2>1, <2>2, <2>3
<1>10. Shape'
  BY <1>1, <1>2, <1>4, <1>5, <1>7 DEF Shape
<1>11. Held(frames', fds')
  <2> SUFFICES ASSUME NEW i \in 1 .. n, NEW k \in 1 .. Len(frames'[i].saved)
               PROVE  EntryHolds(frames'[i].saved[k], fds')
    BY <1>4 DEF Held
  <2>1. EntryHolds(frames'[i].saved[k], fds)
    BY <1>1, <1>8 DEF Held, n
  <2>2. LET c == frames'[i].saved[k].copy IN c # None => fds'[c] = fds[c]
    BY <1>5, <1>6, <1>9, Constants, ZenonT(60)
  <2> QED BY <2>1, <2>2 DEF EntryHolds
<1>12. Distinct(frames')
  <2> SUFFICES ASSUME NEW i \in 1 .. n, NEW j \in 1 .. n,
                      NEW k \in 1 .. Len(frames'[i].saved), NEW l \in 1 .. Len(frames'[j].saved),
                      frames'[i].saved[k].copy # None,
                      frames'[i].saved[k].copy = frames'[j].saved[l].copy
               PROVE  i = j /\ k = l
    BY <1>4 DEF Distinct
  <2>1. /\ k \in 1 .. Len(frames[i].saved) /\ frames'[i].saved[k] = frames[i].saved[k]
        /\ l \in 1 .. Len(frames[j].saved) /\ frames'[j].saved[l] = frames[j].saved[l]
    BY <1>8
  <2> QED BY <1>1, <2>1 DEF Distinct, n
<1>13. \A c : IsCopy(frames', c) => IsCopy(frames, c)
  BY <1>4, <1>8, ZenonT(60) DEF IsCopy, n
<1>14. PendingFree'
  <2>1. IsCopy(frames, e.copy)
    BY <1>2, <1>6 DEF IsCopy, n
  <2>2. pending # None => pending # e.copy /\ pending \in FD
    BY <1>1, <2>1 DEF PendingFree, Shape
  <2>3. pending # None /\ pending >= CopyBase => fds'[pending] = fds[pending]
    BY <1>5, <1>6, <2>2, Constants
  <2> QED BY <1>1, <1>7, <1>13, <2>3 DEF PendingFree
<1>15. Others'
  <2> SUFFICES ASSUME NEW d \in FD \ (Targets \cup {pending} \cup spoiled),
                      fds'[d] # inherited[d]
               PROVE  IsCopy(frames', d)
    BY <1>7 DEF Others
  <2>1. d # e.copy
    BY <1>1, <1>5, <1>6, Constants DEF Shape
  <2>2. fds[d] # inherited[d]
    BY <1>5, <1>6, <2>1
  <2>3. PICK i \in 1 .. n : \E k \in 1 .. Len(frames[i].saved) : frames[i].saved[k].copy = d
    BY <1>1, <2>2 DEF Others, IsCopy, n
  <2>4. PICK k \in 1 .. Len(frames[i].saved) : frames[i].saved[k].copy = d
    BY <2>3
  <2>5. k \in 1 .. Len(frames'[i].saved) /\ frames'[i].saved[k].copy = d
    <3>1. CASE i = n
      <4>1. k # m
        BY <1>6, <2>1, <2>4, <3>1
      <4>2. k \in 1 .. (m - 1)
        BY <1>2, <1>6, <3>1, <4>1
      <4> QED BY <1>4, <2>4, <3>1, <4>2
    <3>2. CASE i # n
      BY <1>2, <1>4, <2>4, <3>2
    <3> QED BY <3>1, <3>2
  <2> QED BY <1>4, <2>5 DEF IsCopy
<1>16. FirstKept'
  <2> SUFFICES ASSUME NEW i \in 1 .. n, NEW d \in Targets
               PROVE  /\ frames'[i].first[d] = None =>
                           \A k \in 1 .. Len(frames'[i].saved) : frames'[i].saved[k].fd # d
                      /\ frames'[i].first[d] \notin {None, Lost} =>
                           \/ Restorable(frames'[i], d)
                           \/ i = n /\ Done(frames'[i], d, fds')
    BY <1>1, <1>4, <1>7 DEF FirstKept
  <2>1. frames'[i].first = frames[i].first
    BY <1>2, <1>4
  <2>2. /\ frames[i].first[d] = None =>
             \A k \in 1 .. Len(frames[i].saved) : frames[i].saved[k].fd # d
        /\ frames[i].first[d] \notin {None, Lost} =>
             \/ Restorable(frames[i], d)
             \/ i = n /\ Done(frames[i], d, fds)
    BY <1>1 DEF FirstKept, n
  <2>3. CASE i # n
    BY <1>2, <1>4, <2>2, <2>3
  <2>4. CASE i = n /\ Restorable(frames[i], d)
    <3>1. PICK k \in 1 .. m :
            /\ frames[n].saved[k].fd = d /\ frames[n].saved[k].was = frames[n].first[d]
            /\ frames[n].saved[k].copy # None \/ frames[n].saved[k].closed
            /\ \A j \in 1 .. (k - 1) : frames[n].saved[j].fd # d
      BY <1>6, <2>4 DEF Restorable
    <3>2. CASE k = m
      <4>1. fds'[d] = frames[n].first[d]
        BY <1>5, <1>6, <3>1, <3>2
      <4>2. \A j \in 1 .. (m - 1) : frames'[n].saved[j].fd # d
        BY <1>4, <3>1, <3>2
      <4>3. Done(frames'[n], d, fds')
        BY <1>4, <4>1, <4>2 DEF Done
      <4> QED BY <1>2, <1>4, <1>8, <2>1, <2>2, <2>4, <4>3
    <3>3. CASE k # m
      <4>1. k \in 1 .. (m - 1)
        BY <1>2, <3>1, <3>3
      <4>2. Restorable(frames'[n], d)
        BY <1>2, <1>4, <3>1, <4>1 DEF Restorable
      <4> QED BY <1>8, <2>1, <2>2, <2>4, <4>2
    <3> QED BY <3>2, <3>3
  <2>5. CASE i = n /\ Done(frames[i], d, fds)
    <3>1. e.fd # d
      BY <1>2, <1>6, <2>5 DEF Done
    <3>2. fds'[d] = fds[d]
      BY <1>5, <1>6, <3>1, Constants
    <3>3. Done(frames'[n], d, fds')
      BY <1>4, <1>6, <1>8, <2>5, <3>2, <1>2, SMTT(30) DEF Done
    <3> QED BY <1>8, <2>1, <2>2, <2>5, <3>3
  <2>6. CASE i = n /\ frames[i].first[d] \in {None, Lost}
    BY <1>8, <2>1, <2>2, <2>6
  <2> QED BY <2>2, <2>3, <2>4, <2>5, <2>6
<1> QED BY <1>10, <1>11, <1>12, <1>14, <1>15, <1>16 DEF IInv

-----------------------------------------------------------------------------
(* apply_redirections saves a descriptor and redirects it.                  *)

\* The entry that is made, and the table with its copy.
LEMMA SavedEntry ==
  ASSUME fds \in Tables, NEW fd \in Targets
  PROVE  LET e == SavedFd(fd)
             t == OnFreeCopy(fd)
         IN  /\ e \in Entry /\ e.fd = fd /\ e.was = fds[fd] /\ t \in Tables
             /\ e.closed => e.was = Closed /\ e.copy = None
             /\ e.copy # None =>
                  /\ e.was # Closed /\ e.copy \in FD /\ e.copy >= CopyBase
                  /\ fds[e.copy] = Closed /\ t[e.copy] = e.was
             /\ e.copy = None /\ ~e.closed => e.was # Closed
             /\ \A x \in FD \ {e.copy} : t[x] = fds[x]
<1> DEFINE e == SavedFd(fd)
<1>1. fd \in FD /\ fds[fd] \in Refers \cup {Closed}
  BY Constants DEF Tables
<1>2. CASE fds[fd] = Closed
  <2>1. e.fd = fd /\ e.copy = None /\ e.closed = TRUE /\ e.was = Closed
    BY <1>2 DEF SavedFd
  <2>2. e \in Entry
    <3>1. e = [fd |-> fd, copy |-> None, closed |-> TRUE, was |-> Closed]
      BY <1>2 DEF SavedFd
    <3> QED BY <3>1 DEF Entry
  <2>3. OnFreeCopy(fd) = fds
    BY <2>1 DEF OnFreeCopy
  <2> QED BY <1>2, <2>1, <2>2, <2>3
<1>3. CASE fds[fd] # Closed /\ Free(fds, CopyBase) = {}
  <2>1. e = [fd |-> fd, copy |-> None, closed |-> FALSE, was |-> fds[fd]]
    BY <1>3 DEF SavedFd
  <2>2. e \in Entry
    BY <1>1, <2>1 DEF Entry
  <2>3. OnFreeCopy(fd) = fds
    BY <2>1 DEF OnFreeCopy
  <2> QED BY <1>3, <2>1, <2>2, <2>3
<1>4. CASE fds[fd] # Closed /\ Free(fds, CopyBase) # {}
  <2> DEFINE c == Lowest(fds, CopyBase)
  <2>1. c \in FD /\ c >= CopyBase /\ fds[c] = Closed
    BY <1>4, Constants, LowestFree
  <2>2. e = [fd |-> fd, copy |-> c, closed |-> FALSE, was |-> fds[fd]]
    BY <1>4 DEF SavedFd
  <2> HIDE DEF c
  <2>3. c \in CopyBase .. (Limit - 1) /\ c # None
    BY <2>1, Constants DEF FD
  <2>4. e \in Entry
    BY <1>1, <2>2, <2>3 DEF Entry
  <2>5. OnFreeCopy(fd) = [fds EXCEPT ![c] = fds[fd]]
    BY <2>2, <2>3 DEF OnFreeCopy
  <2>6. /\ OnFreeCopy(fd) \in Tables /\ OnFreeCopy(fd)[c] = fds[fd]
        /\ \A x \in FD \ {c} : OnFreeCopy(fd)[x] = fds[x]
    BY <1>1, <2>1, <2>5 DEF Tables
  <2> QED BY <1>4, <2>1, <2>2, <2>3, <2>4, <2>6
<1> QED BY <1>2, <1>3, <1>4

\* The frame with it, and what it records of the target's first redirection.
LEMMA SaveShape ==
  ASSUME Shape, frames # <<>>, NEW fd \in Targets
  PROVE  LET e == SavedFd(fd)
             m == Len(Top.saved)
         IN  /\ m \in Nat /\ Save(fd) \in FrameType
             /\ Len(Save(fd).saved) = m + 1 /\ Save(fd).saved[m + 1] = e
             /\ \A k \in 1 .. m : Save(fd).saved[k] = Top.saved[k]
             /\ \A d \in Targets \ {fd} : Save(fd).first[d] = Top.first[d]
             /\ Top.first[fd] # None => Save(fd).first[fd] = Top.first[fd]
             /\ Top.first[fd] = None =>
                  Save(fd).first[fd] = IF e.copy = None /\ ~e.closed THEN Lost ELSE e.was
<1> DEFINE e == SavedFd(fd)
           s == Append(Top.saved, e)
           g == IF Top.first[fd] # None THEN Top.first[fd]
                ELSE IF e.copy = None /\ ~e.closed THEN Lost ELSE e.was
           h == [Top.first EXCEPT ![fd] = g]
<1>1. Top \in FrameType
  BY TopShape DEF Shape
<1>2. Top.saved \in Seq(Entry) /\ Top.first \in [Targets -> Refers \cup {Closed, None, Lost}]
  BY <1>1 DEF FrameType
<1>3. e \in Entry /\ e.was \in Refers \cup {Closed}
  BY SavedEntry DEF Shape, Entry
<1>4. Save(fd) = [Top EXCEPT !.saved = s, !.first = h]
  <2>1. Save(fd) = [Top EXCEPT !.saved = s, !.first[fd] = g]
    BY DEF Save
  <2> HIDE DEF s, g
  <2> QED BY <1>1, <2>1 DEF FrameType
<1> HIDE DEF e
<1>5. /\ s \in Seq(Entry) /\ Len(s) = Len(Top.saved) + 1 /\ s[Len(Top.saved) + 1] = e
      /\ Len(Top.saved) \in Nat /\ \A k \in 1 .. Len(Top.saved) : s[k] = Top.saved[k]
  BY <1>2, <1>3, AppendProperties
<1>6. g \in Refers \cup {Closed, None, Lost}
  BY <1>2, <1>3
<1> HIDE DEF s
<1>7. /\ h \in [Targets -> Refers \cup {Closed, None, Lost}] /\ h[fd] = g
      /\ \A d \in Targets \ {fd} : h[d] = Top.first[d]
  BY <1>2, <1>6
<1> HIDE DEF h
<1>8. Save(fd) \in FrameType /\ Save(fd).saved = s /\ Save(fd).first = h
  BY <1>1, <1>4, <1>5, <1>7 DEF FrameType
<1> QED BY <1>5, <1>7, <1>8 DEF e

\* The entries of G are those of F, and one more: e, the last of command n.
OneMore(F, G, n, m, e) ==
  /\ Len(F) = n /\ Len(G) = n
  /\ \A i \in 1 .. n : \A k \in 1 .. Len(G[i].saved) :
       \/ k \in 1 .. Len(F[i].saved) /\ G[i].saved[k] = F[i].saved[k]
       \/ i = n /\ k = m + 1 /\ G[i].saved[k] = e

\* No command holds the copy of e yet.
Fresh(F, e) == \A c : IsCopy(F, c) /\ c # None => c # e.copy

\* A new copy, one that no command holds yet, keeps the copies distinct.
LEMMA OneMoreDistinct ==
  ASSUME NEW F, NEW G, NEW n, NEW m, NEW e,
         Distinct(F), Fresh(F, e), OneMore(F, G, n, m, e)
  PROVE  Distinct(G)
<1> SUFFICES ASSUME NEW i \in 1 .. Len(G), NEW j \in 1 .. Len(G),
                    NEW k \in 1 .. Len(G[i].saved), NEW l \in 1 .. Len(G[j].saved),
                    G[i].saved[k].copy # None,
                    G[i].saved[k].copy = G[j].saved[l].copy
             PROVE  i = j /\ k = l
  BY DEF Distinct
<1> DEFINE Old(a, b) == b \in 1 .. Len(F[a].saved) /\ G[a].saved[b] = F[a].saved[b]
           New(a, b) == a = n /\ b = m + 1 /\ G[a].saved[b] = e
<1>1. (Old(i, k) \/ New(i, k)) /\ (Old(j, l) \/ New(j, l))
  BY DEF OneMore
<1>2. ASSUME NEW a \in 1 .. Len(G), NEW b, Old(a, b)
      PROVE  IsCopy(F, G[a].saved[b].copy)
  BY <1>2 DEF IsCopy, OneMore
<1>3. CASE Old(i, k) /\ Old(j, l)
  <2>1. /\ k \in 1 .. Len(F[i].saved) /\ l \in 1 .. Len(F[j].saved)
        /\ F[i].saved[k].copy # None
        /\ F[i].saved[k].copy = F[j].saved[l].copy
    BY <1>3
  <2>2. i \in 1 .. Len(F) /\ j \in 1 .. Len(F)
    BY DEF OneMore
  <2> QED BY <2>1, <2>2 DEF Distinct
<1>4. CASE Old(i, k) /\ New(j, l)
  BY <1>2, <1>4 DEF Fresh
<1>5. CASE New(i, k) /\ Old(j, l)
  BY <1>2, <1>5 DEF Fresh
<1>6. CASE New(i, k) /\ New(j, l)
  BY <1>6
<1> QED BY <1>1, <1>3, <1>4, <1>5, <1>6

\* What the redirection does to the table after the copy is made: it changes
\* its target, and where an error path of a here-document strays, what was
\* closed or a low descriptor.
LEMMA SaveStep ==
  ASSUME IInv, NEW fd \in Targets, mode = "apply",
         frames' = Retop(Save(fd)), fds' \in Tables,
         mode' \in {"apply", "restore"}, count' \in 0 .. MaxRedirs,
         sinks' = sinks, pending' = pending, inherited' = inherited,
         spoiled \subseteq spoiled', spoiled' \subseteq FD,
         \A x \in FD \ {fd} : fds'[x] # OnFreeCopy(fd)[x] =>
           x \in spoiled' /\ (OnFreeCopy(fd)[x] = Closed \/ x < CopyBase)
  PROVE  IInv'
<1> DEFINE n == Len(frames)
           m == Len(Top.saved)
           e == SavedFd(fd)
           t == OnFreeCopy(fd)
<1>1. /\ frames \in Seq(FrameType) /\ frames # <<>> /\ fds \in Tables
      /\ Shape /\ Held(frames, fds) /\ Distinct(frames) /\ PendingFree /\ Others /\ FirstKept
  BY DEF IInv, Shape
<1>2. n \in Nat /\ n >= 1 /\ Top = frames[n]
  BY <1>1, TopShape
<1>3. /\ m \in Nat /\ Save(fd) \in FrameType
      /\ Len(Save(fd).saved) = m + 1 /\ Save(fd).saved[m + 1] = e
      /\ \A k \in 1 .. m : Save(fd).saved[k] = Top.saved[k]
      /\ \A d \in Targets \ {fd} : Save(fd).first[d] = Top.first[d]
      /\ Top.first[fd] # None => Save(fd).first[fd] = Top.first[fd]
      /\ Top.first[fd] = None =>
           Save(fd).first[fd] = IF e.copy = None /\ ~e.closed THEN Lost ELSE e.was
  BY <1>1, SaveShape
<1>4. /\ e \in Entry /\ e.fd = fd /\ e.was = fds[fd] /\ t \in Tables
      /\ e.closed => e.was = Closed /\ e.copy = None
      /\ e.copy # None =>
           /\ e.was # Closed /\ e.copy \in FD /\ e.copy >= CopyBase
           /\ fds[e.copy] = Closed /\ t[e.copy] = e.was
      /\ \A x \in FD \ {e.copy} : t[x] = fds[x]
  BY <1>1, SavedEntry
<1>5. /\ frames' \in Seq(FrameType) /\ Len(frames') = n
      /\ frames'[n] = Save(fd)
      /\ \A i \in 1 .. (n - 1) : frames'[i] = frames[i]
  BY <1>1, <1>3, RetopShape
<1>6. \A x \in FD \ {fd} : fds'[x] # t[x] => x \in spoiled' /\ (t[x] = Closed \/ x < CopyBase)
  OBVIOUS
<1> HIDE DEF m, e, t
\* The entries are those there were and the new one.
<1>7. \A i \in 1 .. n : \A k \in 1 .. Len(frames'[i].saved) :
        \/ k \in 1 .. Len(frames[i].saved) /\ frames'[i].saved[k] = frames[i].saved[k]
        \/ i = n /\ k = m + 1 /\ frames'[i].saved[k] = e
  <2> SUFFICES ASSUME NEW i \in 1 .. n, NEW k \in 1 .. Len(frames'[i].saved)
               PROVE  \/ k \in 1 .. Len(frames[i].saved) /\ frames'[i].saved[k] = frames[i].saved[k]
                      \/ i = n /\ k = m + 1 /\ frames'[i].saved[k] = e
    OBVIOUS
  <2>1. CASE i = n /\ k = m + 1
    BY <1>3, <1>5, <2>1
  <2>2. CASE i = n /\ k # m + 1
    BY <1>2, <1>3, <1>5, <2>2 DEF m
  <2>3. CASE i # n
    BY <1>2, <1>5, <2>3
  <2> QED BY <2>1, <2>2, <2>3
<1>8. \A i \in 1 .. n : \A k \in 1 .. Len(frames[i].saved) :
        k \in 1 .. Len(frames'[i].saved) /\ frames'[i].saved[k] = frames[i].saved[k]
  <2> SUFFICES ASSUME NEW i \in 1 .. n, NEW k \in 1 .. Len(frames[i].saved)
               PROVE  k \in 1 .. Len(frames'[i].saved) /\ frames'[i].saved[k] = frames[i].saved[k]
    OBVIOUS
  <2>1. CASE i = n
    BY <1>2, <1>3, <1>5, <2>1 DEF m
  <2>2. CASE i # n
    BY <1>2, <1>5, <2>2
  <2> QED BY <2>1, <2>2
\* A copy that was there is open, and is not the new one.
<1>9. \A c : IsCopy(frames, c) /\ c # None =>
        c \in FD /\ c >= CopyBase /\ fds[c] # Closed /\ c # e.copy /\ fds'[c] = fds[c]
  <2> SUFFICES ASSUME NEW c, IsCopy(frames, c), c # None
               PROVE  /\ c \in FD /\ c >= CopyBase /\ fds[c] # Closed /\ c # e.copy
                      /\ fds'[c] = fds[c]
    OBVIOUS
  <2>1. PICK i \in 1 .. n : \E k \in 1 .. Len(frames[i].saved) : frames[i].saved[k].copy = c
    BY DEF IsCopy
  <2>2. PICK k \in 1 .. Len(frames[i].saved) : frames[i].saved[k].copy = c
    BY <2>1
  <2>3. c \in FD /\ c >= CopyBase
    BY <1>1, <2>2, FrameShape
  <2>4. EntryHolds(frames[i].saved[k], fds)
    BY <1>1, <2>2 DEF Held
  <2>5. fds[c] # Closed
    BY <2>2, <2>4 DEF EntryHolds
  <2>6. c # e.copy /\ c # fd
    BY <1>4, <2>3, <2>5, Constants
  <2>7. t[c] = fds[c]
    BY <1>4, <2>3, <2>6
  <2>8. ~(c < CopyBase)
    BY <2>3, Constants
  <2> QED BY <1>6, <2>3, <2>5, <2>6, <2>7, <2>8
<1>10. e.copy # None => fds'[e.copy] = e.was
  <2> SUFFICES ASSUME e.copy # None PROVE fds'[e.copy] = e.was
    OBVIOUS
  <2>1. e.copy \in FD /\ e.copy >= CopyBase /\ t[e.copy] = e.was /\ e.was # Closed
    BY <1>4
  <2>2. ASSUME NEW c \in FD, c >= CopyBase PROVE c # fd /\ ~(c < CopyBase)
    BY <2>2, Constants
  <2>3. e.copy # fd /\ ~(e.copy < CopyBase)
    BY <2>1, <2>2, Zenon
  <2> QED BY <1>6, <2>1, <2>3
<1>11. Shape'
  BY <1>1, <1>2, <1>5 DEF Shape
<1>12. Held(frames', fds')
  <2> SUFFICES ASSUME NEW i \in 1 .. n, NEW k \in 1 .. Len(frames'[i].saved)
               PROVE  EntryHolds(frames'[i].saved[k], fds')
    BY <1>5 DEF Held
  <2>1. CASE k \in 1 .. Len(frames[i].saved) /\ frames'[i].saved[k] = frames[i].saved[k]
    <3>1. EntryHolds(frames[i].saved[k], fds)
      BY <1>1, <2>1 DEF Held
    <3>2. IsCopy(frames, frames[i].saved[k].copy)
      BY <2>1 DEF IsCopy
    <3> QED BY <1>9, <2>1, <3>1, <3>2 DEF EntryHolds
  <2>2. CASE frames'[i].saved[k] = e
    BY <1>4, <1>10, <2>2 DEF EntryHolds
  <2> QED BY <1>7, <2>1, <2>2
<1>13. Distinct(frames')
  <2>1. OneMore(frames, frames', n, m, e)
    BY <1>5, <1>7 DEF OneMore
  <2>2. Fresh(frames, e)
    BY <1>9 DEF Fresh
  <2> QED BY <1>1, <2>1, <2>2, OneMoreDistinct
<1>14. \A c : IsCopy(frames, c) => IsCopy(frames', c)
  BY <1>5, <1>8, ZenonT(60) DEF IsCopy
<1>15. IsCopy(frames', e.copy)
  <2>1. n \in 1 .. Len(frames') /\ m + 1 \in 1 .. Len(frames'[n].saved)
    BY <1>2, <1>3, <1>5
  <2>2. frames'[n].saved[m + 1].copy = e.copy
    BY <1>3, <1>5
  <2> QED BY <2>1, <2>2 DEF IsCopy
<1>16. PendingFree'
  <2> SUFFICES ASSUME pending # None
               PROVE  /\ pending \in Targets \cup spoiled' \/ inherited[pending] = Closed
                      /\ pending >= CopyBase => fds'[pending] # Closed
                      /\ ~IsCopy(frames', pending)
    BY DEF PendingFree
  <2>1. /\ pending \in Targets \cup spoiled \/ inherited[pending] = Closed
        /\ pending >= CopyBase => fds[pending] # Closed
        /\ ~IsCopy(frames, pending)
        /\ pending \in FD
    BY <1>1 DEF PendingFree, Shape
  <2>2. pending # e.copy
    BY <1>4, <2>1
  <2>3. pending >= CopyBase => fds'[pending] # Closed
    BY <1>4, <1>6, <2>1, <2>2, Constants
  <2>4. ASSUME NEW i \in 1 .. n, NEW k \in 1 .. Len(frames'[i].saved)
        PROVE  frames'[i].saved[k].copy # pending
    <3>1. CASE k \in 1 .. Len(frames[i].saved) /\ frames'[i].saved[k] = frames[i].saved[k]
      BY <2>1, <3>1 DEF IsCopy
    <3>2. CASE frames'[i].saved[k] = e
      BY <2>2, <3>2
    <3> QED BY <1>7, <3>1, <3>2
  <2>5. ~IsCopy(frames', pending)
    BY <1>5, <2>4 DEF IsCopy
  <2> QED BY <2>1, <2>3, <2>5
<1>17. Others'
  <2> SUFFICES ASSUME NEW d \in FD \ (Targets \cup {pending} \cup spoiled'), ~IsCopy(frames', d)
               PROVE  fds'[d] = inherited[d]
    BY DEF Others
  <2>1. d # e.copy /\ d # fd /\ ~IsCopy(frames, d) /\ d \notin spoiled
    BY <1>14, <1>15
  <2>2. fds[d] = inherited[d]
    BY <1>1, <2>1 DEF Others
  <2> QED BY <1>4, <1>6, <2>1, <2>2
<1>18. FirstKept'
  <2> SUFFICES ASSUME NEW i \in 1 .. n, NEW d \in Targets
               PROVE  /\ frames'[i].first[d] = None =>
                           \A k \in 1 .. Len(frames'[i].saved) : frames'[i].saved[k].fd # d
                      /\ frames'[i].first[d] \notin {None, Lost} => Restorable(frames'[i], d)
    BY <1>5 DEF FirstKept
  <2>1. /\ frames[i].first[d] = None =>
             \A k \in 1 .. Len(frames[i].saved) : frames[i].saved[k].fd # d
        /\ frames[i].first[d] \notin {None, Lost} => Restorable(frames[i], d)
    BY <1>1 DEF FirstKept
  <2>2. CASE i # n
    BY <1>2, <1>5, <2>1, <2>2
  <2>3. CASE i = n /\ frames'[n].first[d] = frames[n].first[d] /\ (d = fd => frames[n].first[d] # None)
    <3>1. frames'[i].first[d] = None =>
            \A k \in 1 .. Len(frames'[i].saved) : frames'[i].saved[k].fd # d
      BY <1>4, <1>7, <2>1, <2>3
    <3>2. ASSUME Restorable(frames[i], d) PROVE Restorable(frames'[i], d)
      <4>1. PICK k \in 1 .. Len(frames[i].saved) :
              /\ frames[i].saved[k].fd = d /\ frames[i].saved[k].was = frames[i].first[d]
              /\ frames[i].saved[k].copy # None \/ frames[i].saved[k].closed
              /\ \A j \in 1 .. (k - 1) : frames[i].saved[j].fd # d
        BY <3>2 DEF Restorable
      <4>2. k \in 1 .. Len(frames'[i].saved) /\ frames'[i].saved[k] = frames[i].saved[k]
        BY <1>8
      <4>3. Len(frames[i].saved) \in Nat
        BY <1>1, FrameShape
      <4>4. \A j \in 1 .. (k - 1) : frames'[i].saved[j].fd # d
        <5> SUFFICES ASSUME NEW j \in 1 .. (k - 1) PROVE frames'[i].saved[j].fd # d
          OBVIOUS
        <5>1. j \in 1 .. Len(frames[i].saved)
          BY <4>3
        <5> QED BY <1>8, <4>1, <5>1
      <4>5. frames'[i].first[d] = frames[i].first[d]
        BY <2>3
      <4>6. /\ frames'[i].saved[k].fd = d /\ frames'[i].saved[k].was = frames'[i].first[d]
            /\ frames'[i].saved[k].copy # None \/ frames'[i].saved[k].closed
        BY <4>1, <4>2, <4>5
      <4> QED BY <4>2, <4>4, <4>6 DEF Restorable
    <3> QED BY <2>1, <2>3, <3>1, <3>2
  <2>4. CASE i = n /\ d = fd /\ frames[n].first[d] = None
    <3>1. frames'[n].first[d] = IF e.copy = None /\ ~e.closed THEN Lost ELSE e.was
      BY <1>2, <1>3, <1>5, <2>4
    <3>2. frames'[n].first[d] # None
      <4>1. e.was \in Refers \cup {Closed}
        BY <1>4 DEF Entry
      <4>2. None \notin Refers \cup {Closed} /\ Lost # None
        BY FilesAssumption, LimitAssumption DEF Refers, FD, None, Closed, HereDoc, Lost
      <4> QED BY <3>1, <4>1, <4>2
    <3>3. ASSUME frames'[n].first[d] # Lost PROVE Restorable(frames'[n], d)
      <4>1. frames'[n].first[d] = e.was /\ (e.copy # None \/ e.closed)
        BY <3>1, <3>3
      <4> DEFINE k == m + 1
      <4>2. k \in 1 .. Len(frames'[n].saved) /\ frames'[n].saved[k] = e
        BY <1>3, <1>5
      <4>3. \A j \in 1 .. (k - 1) : frames'[n].saved[j].fd # d
        BY <1>2, <1>3, <1>5, <2>1, <2>4, SMTT(30) DEF m
      <4> HIDE DEF k
      <4>4. frames'[n].saved[k].fd = d
        BY <1>4, <2>4, <4>2
      <4>5. frames'[n].saved[k].was = frames'[n].first[d]
        BY <4>1, <4>2
      <4>6. frames'[n].saved[k].copy # None \/ frames'[n].saved[k].closed
        BY <4>1, <4>2, Zenon
      <4> QED BY <4>2, <4>3, <4>4, <4>5, <4>6 DEF Restorable
    <3> QED BY <2>4, <3>2, <3>3
  <2>5. \/ frames'[n].first[d] = frames[n].first[d] /\ (d = fd => frames[n].first[d] # None)
        \/ d = fd /\ frames[n].first[d] = None
    BY <1>2, <1>3, <1>5
  <2> QED BY <2>2, <2>3, <2>4, <2>5
<1> QED BY <1>11, <1>12, <1>13, <1>16, <1>17, <1>18 DEF IInv

-----------------------------------------------------------------------------
(* The other steps.                                                         *)

\* A descriptor of the table that is a copy of the frames.
LEMMA CopyShape ==
  ASSUME Shape, Held(frames, fds), NEW c \in FD, IsCopy(frames, c)
  PROVE  c >= CopyBase /\ fds[c] # Closed /\ inherited[c] = Closed /\ c \notin Targets
<1>1. PICK i \in 1 .. Len(frames) : \E k \in 1 .. Len(frames[i].saved) : frames[i].saved[k].copy = c
  BY DEF IsCopy
<1>2. PICK k \in 1 .. Len(frames[i].saved) : frames[i].saved[k].copy = c
  BY <1>1
<1>3. frames \in Seq(FrameType)
  BY DEF Shape
<1>4. c # None
  BY Constants
<1>5. c >= CopyBase
  BY <1>2, <1>3, <1>4, FrameShape
<1>6. EntryHolds(frames[i].saved[k], fds)
  BY <1>2 DEF Held
<1>7. fds[c] # Closed
  BY <1>2, <1>4, <1>6 DEF EntryHolds
<1> QED BY <1>5, <1>7, Constants DEF Shape

\* A command begins.
LEMMA BeginStep ==
  ASSUME IInv, NEW kind \in {"inner", "external", "exec"}, Begin(kind)
  PROVE  IInv'
<1>1. /\ frames \in Seq(FrameType) /\ Shape /\ Held(frames, fds) /\ Distinct(frames)
      /\ PendingFree /\ Others /\ FirstKept
  BY DEF IInv, Shape
<1>2. /\ frames' = Append(frames, Begun(kind)) /\ mode = "run" /\ mode' = "apply"
      /\ UNCHANGED <<sinks, fds, pending, count, inherited, spoiled>>
  BY DEF Begin
<1>3. /\ frames' \in Seq(FrameType) /\ Len(frames) \in Nat
      /\ Len(frames') = Len(frames) + 1
      /\ \A i \in 1 .. Len(frames) : frames'[i] = frames[i]
      /\ frames'[Len(frames) + 1] = Begun(kind) /\ Begun(kind).saved = <<>>
  BY <1>1, <1>2, BegunShape
<1>4. \A d \in Targets : Begun(kind).first[d] = None
  BY DEF Begun
<1>5. frames' # <<>>
  BY <1>3
<1>6. Shape'
  BY <1>1, <1>2, <1>3, <1>5 DEF Shape
<1>7. Held(frames', fds') /\ Distinct(frames') /\ FirstKept'
  <2>1. \A i \in 1 .. Len(frames') : i <= Len(frames) => frames'[i] = frames[i]
    BY <1>3
  <2> QED BY <1>1, <1>2, <1>3, <1>4, <1>6, <2>1, StackStep
<1>8. \A c : IsCopy(frames', c) <=> IsCopy(frames, c)
  <2>1. \A i \in 1 .. Len(frames') :
          \/ i \in 1 .. Len(frames) /\ frames'[i] = frames[i]
          \/ frames'[i].saved = <<>>
    BY <1>3
  <2>2. \A i \in 1 .. Len(frames) : i \in 1 .. Len(frames') /\ frames'[i] = frames[i]
    BY <1>3
  <2> QED BY <2>1, <2>2 DEF IsCopy
<1>9. PendingFree' /\ Others'
  BY <1>1, <1>2, <1>8 DEF PendingFree, Others
<1> QED BY <1>6, <1>7, <1>9 DEF IInv

\* A step that leaves the frames and every copy alone.
LEMMA SameStep ==
  ASSUME IInv, frames' = frames, mode # "restore", fds' \in Tables,
         mode' \in {"run", "apply", "body", "restore"}, mode' # "run" => frames # <<>>,
         count' \in 0 .. MaxRedirs, spoiled \subseteq spoiled', spoiled' \subseteq FD,
         sinks' = sinks, inherited' = inherited, pending' \in {None} \cup FD,
         \A c \in FD : IsCopy(frames, c) => fds'[c] = fds[c],
         PendingFree', Others'
  PROVE  IInv'
<1>1. /\ frames \in Seq(FrameType) /\ Shape /\ Held(frames, fds) /\ Distinct(frames) /\ FirstKept
  BY DEF IInv, Shape
<1>2. Shape'
  BY <1>1 DEF Shape
<1>3. Len(frames) \in Nat
  BY <1>1
<1>4. Held(frames', fds') /\ Distinct(frames') /\ FirstKept'
  BY <1>1, <1>2, <1>3, StackStep
<1> QED BY <1>2, <1>4 DEF IInv

\* The top frame is dropped; its copies, if any, are closed.
LEMMA BelowStep ==
  ASSUME IInv, frames # <<>>, frames' = Below, mode' = "run", fds' \in Tables,
         sinks' = sinks, pending' = pending, count' = count, inherited' = inherited,
         spoiled' = spoiled,
         \A d \in FD : fds'[d] = IF d \in Copies(Top.saved) THEN Closed ELSE fds[d]
  PROVE  IInv'
<1> DEFINE n == Len(frames)
<1>1. /\ frames \in Seq(FrameType) /\ Shape /\ Held(frames, fds) /\ Distinct(frames)
      /\ PendingFree /\ Others /\ FirstKept
  BY DEF IInv, Shape
<1>2. n \in Nat /\ n >= 1 /\ Top = frames[n]
  BY <1>1, TopShape
<1>3. /\ frames' \in Seq(FrameType) /\ Len(frames') = n - 1
      /\ \A i \in 1 .. (n - 1) : frames'[i] = frames[i]
  BY <1>1, BelowShape
<1>4. Shape'
  BY <1>1, <1>3 DEF Shape
<1>5. \A c \in Copies(Top.saved) : IsCopy(frames, c)
  BY <1>2 DEF Copies, IsCopy
<1>6. \A c : IsCopy(frames', c) => IsCopy(frames, c)
  BY <1>2, <1>3 DEF IsCopy
<1>7. \A c \in FD : IsCopy(frames', c) => c \notin Copies(Top.saved)
  <2> SUFFICES ASSUME NEW c \in FD, IsCopy(frames', c), c \in Copies(Top.saved) PROVE FALSE
    OBVIOUS
  <2>1. PICK k \in 1 .. Len(frames[n].saved) : frames[n].saved[k].copy = c
    BY <1>2 DEF Copies
  <2>2. PICK i \in 1 .. (n - 1) : \E l \in 1 .. Len(frames[i].saved) : frames[i].saved[l].copy = c
    BY <1>3 DEF IsCopy
  <2>3. PICK l \in 1 .. Len(frames[i].saved) : frames[i].saved[l].copy = c
    BY <2>2
  <2>4. c # None
    BY Constants
  <2>5. i \in 1 .. n /\ n \in 1 .. n /\ i # n
    BY <1>2
  <2> QED BY <1>1, <2>1, <2>3, <2>4, <2>5, SMTT(30) DEF Distinct
<1>8. \A c \in FD : IsCopy(frames, c) => IsCopy(frames', c) \/ c \in Copies(Top.saved)
  <2> SUFFICES ASSUME NEW c \in FD, IsCopy(frames, c), c \notin Copies(Top.saved)
               PROVE  IsCopy(frames', c)
    OBVIOUS
  <2>1. PICK i \in 1 .. n : \E k \in 1 .. Len(frames[i].saved) : frames[i].saved[k].copy = c
    BY DEF IsCopy
  <2>2. c # None
    BY Constants
  <2>3. i # n
    BY <1>2, <2>1, <2>2 DEF Copies
  <2>4. i \in 1 .. (n - 1)
    BY <1>2, <2>3
  <2> QED BY <1>3, <2>1, <2>4, SMTT(30) DEF IsCopy
<1>9. Held(frames', fds') /\ Distinct(frames') /\ FirstKept'
  <2>1. \A c \in FD : IsCopy(frames', c) => fds'[c] = fds[c]
    BY <1>7
  <2>2. /\ Len(frames') < Len(frames) /\ Len(frames') <= Len(frames) + 1
        /\ Len(frames') # Len(frames) + 1
        /\ \A i \in 1 .. Len(frames') : i <= Len(frames) => frames'[i] = frames[i]
    BY <1>2, <1>3
  <2> HIDE DEF n
  <2> QED BY <1>1, <1>4, <2>1, <2>2, StackStep
<1>10. PendingFree'
  BY <1>1, <1>5, <1>6, Constants DEF PendingFree, Shape
<1>11. Others'
  <2> SUFFICES ASSUME NEW d \in FD \ (Targets \cup {pending} \cup spoiled), ~IsCopy(frames', d)
               PROVE  fds'[d] = inherited[d]
    BY DEF Others
  <2>1. CASE d \in Copies(Top.saved)
    BY <1>1, <1>5, <2>1, CopyShape
  <2>2. CASE d \notin Copies(Top.saved)
    BY <1>1, <1>8, <2>2 DEF Others
  <2> QED BY <2>1, <2>2
<1> QED BY <1>4, <1>9, <1>10, <1>11 DEF IInv

\* No copy is at 0, at the pending descriptor or at a free one.
LEMMA NoCopyThere ==
  ASSUME IInv, NEW c \in FD, IsCopy(frames, c)
  PROVE  c # 0 /\ c # pending /\ fds[c] # Closed
<1>1. Shape /\ Held(frames, fds) /\ PendingFree
  BY DEF IInv
<1>2. c >= CopyBase /\ fds[c] # Closed
  BY <1>1, CopyShape
<1>3. c # pending
  BY <1>1, Constants DEF PendingFree
<1> QED BY <1>2, <1>3, Constants

\* Closing what is pending.
LEMMA CloseStashChanges ==
  ASSUME Shape, NEW t \in Tables
  PROVE  /\ CloseStash(t) \in Tables
         /\ pending # None => CloseStash(t)[pending] = Closed
         /\ \A x \in FD \ {pending} : CloseStash(t)[x] = t[x]
<1>1. pending \in {None} \cup FD
  BY DEF Shape
<1> QED BY <1>1, CloseChanges DEF CloseStash

\* eval_external consumes what is pending.
LEMMA ExternalStep ==
  ASSUME IInv, ExternalRuns
  PROVE  IInv'
<1>1. /\ Shape /\ PendingFree /\ Others /\ fds \in Tables /\ mode = "body" /\ mode' = "restore"
      /\ frames' = frames /\ frames # <<>>
      /\ UNCHANGED <<sinks, count, inherited, spoiled>>
  BY DEF IInv, Shape, ExternalRuns
<1>2. CASE fds' = CloseStash(fds) /\ pending' = None
  <2>1. /\ fds' \in Tables
        /\ pending # None => fds'[pending] = Closed
        /\ \A x \in FD \ {pending} : fds'[x] = fds[x]
    BY <1>1, <1>2, CloseStashChanges
  <2>2. \A c \in FD : IsCopy(frames, c) => fds'[c] = fds[c]
    BY <2>1, NoCopyThere
  <2>3. PendingFree'
    BY <1>2 DEF PendingFree
  <2>4. Others'
    <3> SUFFICES ASSUME NEW d \in FD \ (Targets \cup spoiled), ~IsCopy(frames, d)
                 PROVE  fds'[d] = inherited[d]
      BY <1>1 DEF Others
    <3>1. CASE d = pending
      BY <1>1, <2>1, <3>1, Constants DEF PendingFree
    <3>2. CASE d # pending
      BY <1>1, <2>1, <3>2 DEF Others
    <3> QED BY <3>1, <3>2
  <2> QED BY <1>1, <1>2, <2>1, <2>2, <2>3, <2>4, SameStep DEF Shape
<1>3. CASE UNCHANGED <<fds, pending>>
  <2>1. PendingFree' /\ Others'
    BY <1>1, <1>3 DEF PendingFree, Others
  <2> QED BY <1>1, <1>3, <2>1, SameStep DEF Shape
<1> QED BY <1>2, <1>3 DEF ExternalRuns

\* A here-document is kept for later.
LEMMA StashStep ==
  ASSUME IInv, NEW fd \in Targets, RedirectStash(fd)
  PROVE  IInv'
<1>1. /\ Shape /\ PendingFree /\ Others /\ fds \in Tables /\ mode = "apply" /\ mode' = "apply"
      /\ frames' = frames /\ frames # <<>> /\ count' = count + 1 /\ count < MaxRedirs
      /\ UNCHANGED <<sinks, inherited>>
  BY DEF IInv, Shape, RedirectStash, Applies
<1>2. count' \in 0 .. MaxRedirs
  BY <1>1, NestAssumption DEF Shape
<1>3. CASE /\ PipeFits(fds) /\ pending' = Lowest(fds, 0)
           /\ fds' = CloseStash([fds EXCEPT ![pending'] = HereDoc])
           /\ UNCHANGED spoiled
  <2> DEFINE r == Lowest(fds, 0)
             t == [fds EXCEPT ![r] = HereDoc]
  <2>1. r \in FD /\ fds[r] = Closed
    BY <1>3, LowestFree DEF PipeFits
  <2>2. pending' = r /\ fds' = CloseStash(t)
    BY <1>3
  <2> HIDE DEF r
  <2>3. t \in Tables /\ t[r] = HereDoc /\ \A x \in FD \ {r} : t[x] = fds[x]
    BY <1>1, <2>1, Constants DEF Tables
  <2> HIDE DEF t
  <2>4. /\ fds' \in Tables
        /\ pending # None => fds'[pending] = Closed
        /\ \A x \in FD \ {pending} : fds'[x] = t[x]
    BY <1>1, <2>2, <2>3, CloseStashChanges
  <2>5. \A c \in FD : IsCopy(frames, c) => c # r /\ fds'[c] = fds[c]
    BY <2>1, <2>3, <2>4, NoCopyThere
  <2>6. PendingFree'
    <3>1. r \in Targets \cup spoiled \/ inherited[r] = Closed
      <4>1. CASE r = pending
        BY <1>1, <2>1, <4>1, Constants DEF PendingFree
      <4>2. CASE r # pending
        BY <1>1, <2>1, <2>5, <4>2 DEF Others
      <4> QED BY <4>1, <4>2
    <3>2. r >= CopyBase => fds'[r] # Closed
      BY <1>1, <2>1, <2>3, <2>4, Constants DEF PendingFree
    <3>3. ~IsCopy(frames, r)
      BY <2>1, <2>5
    <3> QED BY <1>1, <1>3, <2>2, <3>1, <3>2, <3>3 DEF PendingFree
  <2>7. Others'
    <3> SUFFICES ASSUME NEW d \in FD \ (Targets \cup {r} \cup spoiled), ~IsCopy(frames, d)
                 PROVE  fds'[d] = inherited[d]
      BY <1>1, <1>3, <2>2 DEF Others
    <3>1. CASE d = pending
      BY <1>1, <2>4, <3>1, Constants DEF PendingFree
    <3>2. CASE d # pending
      BY <1>1, <2>3, <2>4, <3>2 DEF Others
    <3> QED BY <3>1, <3>2
  <2> QED BY <1>1, <1>2, <1>3, <2>1, <2>2, <2>4, <2>5, <2>6, <2>7, SameStep DEF Shape
<1>4. CASE /\ pending' = 0 /\ fds' = CloseStash(Close(fds, 0))
           /\ spoiled' = spoiled \cup {0}
  <2> DEFINE t == Close(fds, 0)
  <2>1. t \in Tables /\ \A x \in FD \ {0} : t[x] = fds[x]
    BY <1>1, Constants, CloseChanges
  <2>2. fds' = CloseStash(t)
    BY <1>4
  <2> HIDE DEF t
  <2>3. /\ fds' \in Tables
        /\ pending # None => fds'[pending] = Closed
        /\ \A x \in FD \ {pending} : fds'[x] = t[x]
    BY <1>1, <2>1, <2>2, CloseStashChanges
  <2>4. \A c \in FD : IsCopy(frames, c) => c # 0 /\ fds'[c] = fds[c]
    BY <2>1, <2>3, NoCopyThere
  <2>5. PendingFree'
    <3>1. ~IsCopy(frames, 0) /\ ~(0 >= CopyBase)
      BY <2>4, Constants
    <3> QED BY <1>1, <1>4, <3>1 DEF PendingFree
  <2>6. Others'
    <3> SUFFICES ASSUME NEW d \in FD \ (Targets \cup {0} \cup spoiled), ~IsCopy(frames, d)
                 PROVE  fds'[d] = inherited[d]
      BY <1>1, <1>4 DEF Others
    <3>1. CASE d = pending
      BY <1>1, <2>3, <3>1, Constants DEF PendingFree
    <3>2. CASE d # pending
      BY <1>1, <2>1, <2>3, <3>2 DEF Others
    <3> QED BY <3>1, <3>2
  <2> QED BY <1>1, <1>2, <1>4, <2>3, <2>4, <2>5, <2>6, Constants, SameStep DEF Shape
<1> QED BY <1>3, <1>4 DEF RedirectStash

\* The redirections that save their target.
LEMMA SavingStep ==
  ASSUME IInv, NEW fd \in Targets,
         \/ \E f \in Files : RedirectFile(fd, f)
         \/ \E x \in FD : RedirectDup(fd, x)
         \/ RedirectClose(fd)
         \/ RedirectHereDoc(fd)
         \/ RedirectFails(fd)
  PROVE  IInv'
<1> DEFINE t == OnFreeCopy(fd)
<1>1. Shape /\ t \in Tables /\ fd \in FD
  BY SavedEntry, Constants DEF IInv, Shape
<1>2. ASSUME mode = "apply", count < MaxRedirs, count' = count + 1,
             frames' = Retop(Save(fd)), mode' \in {"apply", "restore"},
             UNCHANGED <<sinks, pending, inherited>>,
             spoiled \subseteq spoiled', spoiled' \subseteq FD, fds' \in Tables,
             \A x \in FD \ {fd} : fds'[x] # t[x] =>
               x \in spoiled' /\ (t[x] = Closed \/ x < CopyBase)
      PROVE  IInv'
  <2>1. count' \in 0 .. MaxRedirs
    BY <1>1, <1>2, NestAssumption DEF Shape
  <2> QED BY <1>2, <2>1, SaveStep
<1>3. ASSUME NEW f \in Files, RedirectFile(fd, f) PROVE IInv'
  <2>1. fds' \in Tables /\ \A x \in FD \ {fd} : fds'[x] = t[x]
    BY <1>1, <1>3, Constants, Temporary DEF RedirectFile, OpenOnto
  <2> QED BY <1>1, <1>2, <1>3, <2>1 DEF RedirectFile, Applies, Shape
<1>4. ASSUME NEW x \in FD, RedirectDup(fd, x) PROVE IInv'
  <2>1. fds' = Dup2(t, x, fd)
    BY <1>4 DEF RedirectDup
  <2> HIDE DEF t
  <2>2. fds' \in Tables /\ \A y \in FD \ {fd} : fds'[y] = t[y]
    BY <1>1, <2>1, Dup2Changes, ZenonT(60)
  <2> QED BY <1>1, <1>2, <1>4, <2>2 DEF RedirectDup, Applies, Shape, t
<1>5. ASSUME RedirectClose(fd) PROVE IInv'
  <2>1. fds' \in Tables /\ \A x \in FD \ {fd} : fds'[x] = t[x]
    BY <1>1, <1>5, CloseChanges DEF RedirectClose
  <2> QED BY <1>1, <1>2, <1>5, <2>1 DEF RedirectClose, Applies, Shape
<1>6. ASSUME RedirectHereDoc(fd) PROVE IInv'
  <2>1. CASE PipeFits(t) /\ fds' = HereDocOnto(t, fd) /\ UNCHANGED spoiled
    <3>1. Free(t, 0) # {}
      BY <2>1 DEF PipeFits
    <3>2. fds' \in Tables /\ \A x \in FD \ {fd} : fds'[x] = t[x]
      BY <1>1, <2>1, <3>1, Constants, Temporary DEF HereDocOnto
    <3> QED BY <1>1, <1>2, <1>6, <2>1, <3>2 DEF RedirectHereDoc, Applies, Shape
  <2>2. CASE fds' = Close(t, 0) /\ spoiled' = spoiled \cup {0}
    <3>1. fds' \in Tables /\ \A x \in FD \ {0} : fds'[x] = t[x]
      BY <1>1, <2>2, Constants, CloseChanges
    <3>2. 0 \in FD /\ 0 < CopyBase
      BY Constants
    <3> QED BY <1>1, <1>2, <1>6, <2>2, <3>1, <3>2 DEF RedirectHereDoc, Applies, Shape
  <2> QED BY <1>6, <2>1, <2>2 DEF RedirectHereDoc
<1>7. ASSUME RedirectFails(fd) PROVE IInv'
  BY <1>1, <1>2, <1>7 DEF RedirectFails, Applies, Shape
<1> QED BY <1>3, <1>4, <1>5, <1>6, <1>7

\* The body of a here-document does not expand.
LEMMA HereDocFailsStep ==
  ASSUME IInv, NEW fd \in Targets, HereDocFails(fd)
  PROVE  IInv'
<1> DEFINE t == IF Stashed(fd) THEN fds ELSE OnFreeCopy(fd)
<1>1. /\ Shape /\ t \in Tables /\ mode = "apply" /\ mode' = "restore"
      /\ count' = count + 1 /\ count < MaxRedirs
      /\ UNCHANGED <<sinks, pending, inherited>>
  BY SavedEntry DEF IInv, Shape, HereDocFails, Applies
<1>2. count' \in 0 .. MaxRedirs
  BY <1>1, NestAssumption DEF Shape
\* What is left open or closed was closed or is descriptor 0.
<1>3. PICK r \in FD :
        /\ spoiled' = spoiled \cup {r} /\ fds' \in Tables
        /\ \A x \in FD \ {r} : fds'[x] = t[x]
        /\ t[r] = Closed \/ r < CopyBase
        /\ r >= CopyBase => fds'[r] # Closed
  <2>1. CASE PipeFits(t)
    <3> DEFINE r == Lowest(t, 0)
    <3>1. r \in FD /\ t[r] = Closed
      BY <2>1, LowestFree DEF PipeFits
    <3>2. fds' = [t EXCEPT ![r] = HereDoc] /\ spoiled' = spoiled \cup {r}
      BY <2>1 DEF HereDocFails
    <3> HIDE DEF r, t
    <3>3. fds' \in Tables /\ fds'[r] = HereDoc /\ \A x \in FD \ {r} : fds'[x] = t[x]
      BY <1>1, <3>1, <3>2, Constants DEF Tables
    <3> QED BY <3>1, <3>2, <3>3, Constants
  <2>2. CASE ~PipeFits(t)
    <3>1. fds' = Close(t, 0) /\ spoiled' = spoiled \cup {0}
      BY <2>2 DEF HereDocFails
    <3>2. 0 \in FD /\ 0 < CopyBase /\ ~(0 >= CopyBase)
      BY Constants
    <3> HIDE DEF t
    <3>3. fds' \in Tables /\ \A x \in FD \ {0} : fds'[x] = t[x]
      BY <1>1, <3>1, <3>2, CloseChanges
    <3> QED BY <3>1, <3>2, <3>3
  <2> QED BY <2>1, <2>2
<1>4. CASE Stashed(fd)
  <2>1. t = fds /\ frames' = frames
    BY <1>4 DEF HereDocFails
  <2> HIDE DEF t
  <2>2. PendingFree /\ Others
    BY DEF IInv
  <2>3. \A c \in FD : IsCopy(frames, c) => fds'[c] = fds[c]
    <3> SUFFICES ASSUME NEW c \in FD, IsCopy(frames, c) PROVE c # r
      BY <1>3, <2>1
    <3>1. c >= CopyBase /\ fds[c] # Closed
      BY CopyShape DEF IInv
    <3> QED BY <1>3, <2>1, <3>1, Constants
  <2>4. PendingFree'
    BY <1>1, <1>3, <2>1, <2>2 DEF PendingFree, Shape
  <2>5. Others'
    BY <1>1, <1>3, <2>1, <2>2 DEF Others
  <2>6. frames # <<>>
    BY <1>1 DEF Shape
  <2> QED BY <1>1, <1>2, <1>3, <2>1, <2>3, <2>4, <2>5, <2>6, SameStep DEF Shape
<1>5. CASE ~Stashed(fd)
  <2>1. t = OnFreeCopy(fd) /\ frames' = Retop(Save(fd))
    BY <1>5 DEF HereDocFails
  <2> HIDE DEF t
  <2> QED BY <1>1, <1>2, <1>3, <2>1, SaveStep DEF Shape
<1> QED BY <1>4, <1>5

-----------------------------------------------------------------------------
(* The theorems.                                                            *)

LEMMA Start ==
  ASSUME Init
  PROVE  IInv
<1>1. PICK S \in SUBSET (0 .. (CopyBase - 1)) :
        inherited = [d \in FD |-> IF d \in S THEN d ELSE Closed]
  BY DEF Init
<1>2. inherited \in Tables /\ \A d \in FD : d >= CopyBase => inherited[d] = Closed
  BY <1>1, Constants DEF Tables, Refers
<1>3. Shape
  BY <1>2, NestAssumption DEF Init, Shape
<1>4. Held(frames, fds) /\ Distinct(frames) /\ FirstKept
  BY DEF Init, Held, Distinct, FirstKept
<1>5. PendingFree /\ Others
  BY DEF Init, PendingFree, Others
<1> QED BY <1>3, <1>4, <1>5 DEF IInv

LEMMA Step ==
  ASSUME IInv, [Next]_vars
  PROVE  IInv'
<1>1. ASSUME NEW kind \in {"inner", "external", "exec"}, Begin(kind) PROVE IInv'
  BY <1>1, BeginStep
<1>2. ASSUME NEW fd \in Targets, Redirect(fd) PROVE IInv'
  BY <1>2, SavingStep, StashStep, HereDocFailsStep DEF Redirect
<1>3. CASE Applied \/ InnerEnds
  <2>1. /\ Shape /\ PendingFree /\ Others
        /\ mode # "restore" /\ mode' \in {"run", "body", "restore"} /\ frames # <<>>
        /\ UNCHANGED <<sinks, fds, pending, frames, count, inherited, spoiled>>
    BY <1>3 DEF IInv, Shape, Applied, InnerEnds
  <2>2. PendingFree' /\ Others'
    BY <2>1 DEF PendingFree, Others
  <2> QED BY <2>1, <2>2, SameStep DEF Shape
<1>4. CASE ExternalRuns
  BY <1>4, ExternalStep
<1>5. CASE ExecEnds
  <2>1. /\ frames # <<>> /\ frames' = Below /\ mode' = "run" /\ fds \in Tables
        /\ UNCHANGED <<sinks, pending, count, inherited, spoiled>>
        /\ fds' = [d \in FD |-> IF d \in Copies(Top.saved) THEN Closed ELSE fds[d]]
    BY <1>5 DEF IInv, Shape, ExecEnds, CopiesDropped
  <2>2. /\ fds' \in Tables
        /\ \A d \in FD : fds'[d] = IF d \in Copies(Top.saved) THEN Closed ELSE fds[d]
    BY <2>1 DEF Tables
  <2> QED BY <2>1, <2>2, BelowStep
<1>6. CASE RestoreOne
  BY <1>6, RestoreStep
<1>7. CASE Restored
  <2>1. /\ frames # <<>> /\ frames' = Below /\ mode' = "run" /\ fds \in Tables /\ Top.saved = <<>>
        /\ UNCHANGED <<sinks, fds, pending, count, inherited, spoiled>>
    BY <1>7 DEF IInv, Shape, Restored
  <2>2. Copies(Top.saved) = {}
    BY <2>1 DEF Copies
  <2> QED BY <2>1, <2>2, BelowStep
<1>8. CASE UNCHANGED vars
  BY <1>8 DEF vars, IInv, Shape, Held, Distinct, PendingFree, Others, FirstKept,
              IsCopy, EntryHolds, Restorable, Done
<1> QED BY <1>1, <1>2, <1>3, <1>4, <1>5, <1>6, <1>7, <1>8 DEF Next

THEOREM Invariance == Spec => []IInv
BY Start, Step, PTL DEF Spec

\* Whatever the numbers of descriptors, commands and redirections, the state
\* has its shape: a copy is always made at CopyBase or above.
THEOREM TypeCorrect == Spec => []TypeOK
<1>1. IInv => TypeOK
  BY DEF IInv, Shape, Tables, TypeOK
<1> QED BY <1>1, Invariance, PTL

\* The copies that restore_redirections relies on survive the commands in
\* between: what they open, close, redirect, and make permanent by exec.
THEOREM CopiesAreIntact == Spec => []CopiesIntact
<1>1. ASSUME IInv PROVE CopiesIntact
  <2> SUFFICES ASSUME NEW p \in Places, At(p).copy # None
               PROVE  /\ fds[At(p).copy] = At(p).was
                      /\ \A q \in Places : q # p => At(q).copy # At(p).copy
    BY DEF CopiesIntact
  <2>1. ASSUME NEW q \in Places
        PROVE  /\ q[1] \in 1 .. Len(frames) /\ q[2] \in 1 .. Len(frames[q[1]].saved)
               /\ q = <<q[1], q[2]>>
    BY DEF Places
  <2>2. EntryHolds(At(p), fds)
    BY <1>1, <2>1 DEF IInv, Held, At
  <2>3. \A q \in Places : At(p).copy = At(q).copy => p[1] = q[1] /\ p[2] = q[2]
    BY <1>1, <2>1, SMTT(30) DEF IInv, Distinct, At
  <2>4. \A q \in Places : p[1] = q[1] /\ p[2] = q[2] => p = q
    BY <2>1
  <2> QED BY <2>2, <2>3, <2>4 DEF EntryHolds
<1> QED BY <1>1, Invariance, PTL

\* setup_redirections and restore_redirections are inverse on every target
\* that could be copied, in whatever order the list redirected it and
\* wherever it failed.
THEOREM RestoringIsExact == Spec => []RestoredExactly
<1>1. ASSUME IInv PROVE RestoredExactly
  <2> SUFFICES ASSUME mode = "restore", Top.saved = <<>>, NEW d \in Targets,
                      Top.first[d] \notin {None, Lost}
               PROVE  fds[d] = Top.first[d]
    BY DEF RestoredExactly
  <2>1. Len(frames) \in 1 .. Len(frames) /\ Top = frames[Len(frames)]
    BY <1>1, TopShape DEF IInv, Shape
  <2>2. ~Restorable(Top, d)
    BY DEF Restorable
  <2>3. Done(Top, d, fds)
    BY <1>1, <2>1, <2>2 DEF IInv, FirstKept
  <2> QED BY <2>3 DEF Done
<1> QED BY <1>1, Invariance, PTL

\* No step leaks a descriptor, or closes one that nothing names, outside the
\* error paths of a here-document.
THEOREM OthersAreKept == Spec => []OthersKept
<1>1. ASSUME IInv PROVE OthersKept
  <2> SUFFICES ASSUME NEW d \in FD \ (Targets \cup AllCopies \cup {pending} \cup spoiled)
               PROVE  fds[d] = inherited[d]
    BY DEF OthersKept
  <2>1. d # None
    BY Constants
  <2>2. ~IsCopy(frames, d)
    BY <2>1 DEF AllCopies, Copies, IsCopy
  <2> QED BY <1>1, <2>2 DEF IInv, Others
<1> QED BY <1>1, Invariance, PTL
=============================================================================
