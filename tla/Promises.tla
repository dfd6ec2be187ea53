------------------------------ MODULE Promises ------------------------------
(***************************************************************************)
(* What the share promises of each file, whatever it does inside.  A close *)
(* that succeeds promises a content; the bucket takes it later, at once or *)
(* several times, and from then on, until the file is removed, holds no    *)
(* less than that.                                                         *)
(***************************************************************************)
CONSTANTS Paths, Contents, None, Covers(_, _)

VARIABLES
  promised,  \* what the last close of each file stands for, or None
  stored     \* the bucket

vars == <<promised, stored>>

\* What is in the bucket at the start is promised.
Init ==
  /\ promised \in [Paths -> Contents \cup {None}]
  /\ stored = promised

Close(p, c) ==
  /\ promised' = [promised EXCEPT ![p] = c]
  /\ UNCHANGED stored

\* The file is removed, from the bucket too or not yet.
Remove(p) ==
  /\ promised' = [promised EXCEPT ![p] = None]
  /\ stored' \in {stored, [stored EXCEPT ![p] = None]}

\* The bucket takes an object for p, never less than what is promised.
Store(p, c) ==
  /\ promised[p] # None => Covers(c, promised[p])
  /\ stored' = [stored EXCEPT ![p] = c]
  /\ UNCHANGED promised

Next == \E p \in Paths : Remove(p) \/ \E c \in Contents : Close(p, c) \/ Store(p, c)

Spec == Init /\ [][Next]_vars
=============================================================================
