----------------------------- MODULE Ownership -----------------------------
(***************************************************************************)
(* What a migrate shed promises, said without any of its machinery: a      *)
(* client connection belongs to the parent, to the child, to nobody, or is *)
(* on its way between the two, and moves along the arrows below.           *)
(*                                                                         *)
(*   new ---> parent <---> transit ---> child                              *)
(*    |         |            |            |                                *)
(*    +---------+-----> gone <------------+                                *)
(*                                                                         *)
(* There is no arrow from child back to parent, none from parent to child  *)
(* that skips the freeze, and no place where both have it.                 *)
(***************************************************************************)
CONSTANT Sessions

VARIABLE owner

Owners == {"new", "parent", "transit", "child", "gone"}

\* From where to where a connection may go, if it goes anywhere.
MayMove(from, to) ==
  \/ from = "new"     /\ to \in {"parent", "gone"}             \* accepted
  \/ from = "parent"  /\ to \in {"transit", "gone"}            \* frozen
  \/ from = "transit" /\ to \in {"parent", "child", "gone"}    \* rolled back, adopted
  \/ from = "child"   /\ to = "gone"

Init == owner = [s \in Sessions |-> "new"]

\* One step may move several connections: a rollback resumes a whole batch,
\* and the exit of a process ends all it has.
Next ==
  /\ owner' \in [Sessions -> Owners]
  /\ \A s \in Sessions : owner'[s] = owner[s] \/ MayMove(owner[s], owner'[s])

Spec == Init /\ [][Next]_owner
=============================================================================
