------------------------------ MODULE Taxonomy ------------------------------
(***************************************************************************)
(* What the category tree promises, with no calls, walks or entities: a    *)
(* row is added, moved or removed in ONE step, and is moved only to where  *)
(* the tree of that moment allows it.  The exception is Misplace: a save   *)
(* that goes by what the tree was, or by an id it has not recognised, is   *)
(* allowed everything the foreign key allows; but the row that it moves is *)
(* marked for as long as it stays where it was put.                        *)
(***************************************************************************)
CONSTANTS Categories, NoParent, Unborn, Deleted

VARIABLES
  parent,   \* the parentId of each row, or why there is none
  doubtful  \* the rows that were misplaced and have not moved since

vars == <<parent, doubtful>>

Exists(c) == c \in Categories /\ parent[c] \notin {Unborn, Deleted}

MayName(p) == p = NoParent \/ Exists(p)

\* No cycle: every set of categories has one whose parent is not in the set.
Acyclic(f) == \A S \in (SUBSET Categories) \ {{}} : \E c \in S : f[c] \notin S

\* p is not c and not below c: there is a set with p, and the parents of what it
\* has, but without c.
Clear(c, p) ==
  \E V \in SUBSET Categories :
    /\ p \in V /\ c \notin V
    /\ \A v \in V : parent[v] \in Categories => parent[v] \in V

Init ==
  /\ parent \in [Categories -> Categories \cup {NoParent, Unborn}]
  /\ Acyclic(parent)
  /\ \A c \in Categories : parent[c] \in Categories => Exists(parent[c])
  /\ doubtful = {}

Put(c, p) == MayName(p) /\ parent' = [parent EXCEPT ![c] = p]

\* No row is misplaced, and those that move are so no longer.
WellPlaced == doubtful' = {d \in doubtful : parent'[d] = parent[d]}

Add(c, p) ==
  /\ parent[c] = Unborn
  /\ Put(c, p)
  /\ WellPlaced

Move(c, p) ==
  /\ Exists(c)
  /\ p # NoParent => Clear(c, p)
  /\ Put(c, p)
  /\ WellPlaced

\* Anything may become of a row that once was, its return included.
Misplace(c, p) ==
  /\ parent[c] # Unborn
  /\ Put(c, p)
  /\ doubtful' = {d \in doubtful \cup {c} : parent'[d] \in Categories}

\* The children of the row become roots.
Remove(c) ==
  /\ Exists(c)
  /\ parent' = [d \in Categories |-> IF d = c THEN Deleted
                                     ELSE IF parent[d] = c THEN NoParent
                                     ELSE parent[d]]
  /\ WellPlaced

Next ==
  \E c \in Categories :
    \/ \E p \in Categories \cup {NoParent} : Add(c, p) \/ Move(c, p) \/ Misplace(c, p)
    \/ Remove(c)

Spec == Init /\ [][Next]_vars
=============================================================================
