------------------------- MODULE CategoryTree_proofs -------------------------
(***************************************************************************)
(* Proofs about CategoryTree, for any categories and any number of calls:  *)
(* every cycle is for a reason, and a subtree read is exact.                *)
(***************************************************************************)
EXTENDS CategoryTree, TLAPS

Parent == Categories \cup {NoParent} \cup Missing
Updating == {"require", "walk", "save", "write"}
Stages == {"idle", "insert", "require", "walk", "save", "write"}

ParentsExist == \A c \in Categories : parent[c] \in Categories => Exists(parent[c])

\* An update with a parentId has passed the comparison of the two ids.
Admitted(r) ==
  dto[r] \in Categories /\ (dto[r] = id[r] => spelt[r].id # spelt[r].parentId)

\* An id that a create has been given is nobody's yet, and an update's has been
\* somebody's.
Reserved ==
  \A r \in Calls :
    /\ pc[r] = "insert" =>
         /\ parent[id[r]] = Unborn
         /\ dto[r] \in Categories \cup {NoParent}
         /\ \A q \in Calls \ {r} : pc[q] = "insert" => id[q] # id[r]
    /\ pc[r] \in Updating => parent[id[r]] # Unborn
    /\ pc[r] \in {"require", "walk"} => Admitted(r)

\* The walk of r has come from the new parent to its cursor without meeting id.
Climbed(r) ==
  \E V \in SUBSET Categories :
    /\ dto[r] \in V /\ cursor[r] \in V /\ id[r] \notin V
    /\ \A v \in V \ {cursor[r]} : parent[v] \in V

\* It has met all ancestors of the new parent, and id is none of them.
Cleared(r) ==
  \E V \in SUBSET Categories :
    /\ dto[r] \in V /\ id[r] \notin V
    /\ \A v \in V : parent[v] \in Categories => parent[v] \in V

\* What a call that has not been overtaken knows is so; what its walk tells it is
\* so if it recognises the id.
Current(r) ==
  /\ pc[r] = "walk" => Misread(r) \/ Climbed(r)
  /\ pc[r] \in {"save", "write"} =>
       \/ entity[r] = NoParent
       \/ entity[r] = parent[id[r]]
       \/ entity[r] = dto[r] /\ (Misread(r) \/ Cleared(r))
  /\ pc[r] \in Updating => Exists(id[r])
  /\ pc[r] = "write" => loaded[r] = parent[id[r]]

\* The queue and what was visited are in the subtree, and have all of it below
\* them; or they are the category asked for, if the search does not recognise it.
SearchIsSound ==
  \A r \in Readers :
    at[r] = "search" =>
      IF asked[r] = Canonical
      THEN /\ root[r] \in ids[r] \cup queue[r]
           /\ ids[r] \cup queue[r] \subseteq Subtree(root[r])
           /\ Children(ids[r]) \subseteq ids[r] \cup queue[r]
      ELSE ids[r] \cup queue[r] = {root[r]}

Inv ==
  /\ TypeOK
  /\ Reserved
  /\ \A r \in Calls \ overtaken : Current(r)
  /\ CyclesAreForAReason
  /\ SearchIsSound

-----------------------------------------------------------------------------
(***************************************************************************)
(* Forests.                                                                *)
(***************************************************************************)

LEMMA Constants ==
  /\ NoParent \notin Categories /\ Unborn \notin Categories
  /\ Deleted \notin Categories /\ Keep \notin Categories
  /\ NoParent # Unborn /\ NoParent # Deleted /\ NoParent # Keep
  /\ Unborn # Deleted /\ Unborn # Keep /\ Deleted # Keep
  /\ SomeCategory \in Categories
  /\ Canonical \in Spellings /\ Plain \in Spelling
BY CategoryTreeAssumption DEF SomeCategory, Plain, Spelling

\* x may be put under p if a set of categories has p and the parents of its
\* members, and not x: a cycle through x would have one inside that set.
LEMMA ForestReparent ==
  ASSUME NEW f \in [Categories -> Parent], IsForest(f),
         NEW x \in Categories, NEW p \in Categories \cup {NoParent},
         p \in Categories =>
           \E V \in SUBSET Categories :
             /\ p \in V /\ x \notin V
             /\ \A v \in V : f[v] \in Categories => f[v] \in V
  PROVE  IsForest([f EXCEPT ![x] = p])
<1> DEFINE g == [f EXCEPT ![x] = p]
<1>1. g[x] = p /\ \A c \in Categories \ {x} : g[c] = f[c]
  OBVIOUS
<1> HIDE DEF g
<1>2. ASSUME NEW S \in SUBSET Categories, S # {}, \A c \in S : g[c] \in S
      PROVE  FALSE
  <2>1. CASE x \notin S
    <3>1. \A c \in S : f[c] \in S
      BY <1>1, <1>2, <2>1
    <3>2. QED
      BY <1>2, <3>1 DEF IsForest
  <2>2. CASE x \in S
    <3>1. p \in S
      BY <1>1, <1>2, <2>2
    <3>2. PICK V \in SUBSET Categories :
            /\ p \in V /\ x \notin V
            /\ \A v \in V : f[v] \in Categories => f[v] \in V
      BY <3>1
    <3>3. \A c \in S \cap V : f[c] \in S \cap V
      BY <1>1, <1>2, <3>2
    <3>4. QED
      BY <3>1, <3>2, <3>3 DEF IsForest
  <2>3. QED
    BY <2>1, <2>2
<1>3. IsForest(g)
  BY <1>2 DEF IsForest
<1>4. QED
  BY <1>3 DEF g

\* Rows may lose their parents.
LEMMA ForestPruned ==
  ASSUME NEW f, NEW g, IsForest(f),
         \A c \in Categories : g[c] \in Categories => g[c] = f[c]
  PROVE  IsForest(g)
BY DEF IsForest

-----------------------------------------------------------------------------
(***************************************************************************)
(* Calls.                                                                  *)
(***************************************************************************)

\* The parts of TypeOK.
LEMMA Types ==
  ASSUME TypeOK
  PROVE  /\ parent \in [Categories -> Parent]
         /\ ParentsExist
         /\ pc \in [Calls -> Stages] /\ id \in [Calls -> Categories]
         /\ dto \in [Calls -> Categories \cup {NoParent, Keep}]
         /\ spelt \in [Calls -> Spelling]
         /\ entity \in [Calls -> Categories \cup {NoParent}]
         /\ cursor \in [Calls -> Categories]
         /\ loaded \in [Calls -> Parent]
         /\ overtaken \subseteq Calls
         /\ doubtful \subseteq {c \in Categories : parent[c] \in Categories}
BY DEF TypeOK, Parent, Stages, ParentsExist

LEMMA TypesSuffice ==
  ASSUME TypeOK, UNCHANGED reads,
         parent' \in [Categories -> Parent],
         ParentsExist',
         pc' \in [Calls -> Stages], id' \in [Calls -> Categories],
         dto' \in [Calls -> Categories \cup {NoParent, Keep}],
         spelt' \in [Calls -> Spelling],
         entity' \in [Calls -> Categories \cup {NoParent}],
         cursor' \in [Calls -> Categories],
         loaded' \in [Calls -> Parent],
         overtaken' \subseteq Calls,
         doubtful' \subseteq {c \in Categories : parent'[c] \in Categories}
  PROVE  TypeOK'
BY DEF TypeOK, Parent, Stages, ParentsExist, reads

\* What one call's step may not disturb in another.
Same(q) ==
  /\ pc'[q] = pc[q] /\ id'[q] = id[q] /\ dto'[q] = dto[q] /\ spelt'[q] = spelt[q]
  /\ entity'[q] = entity[q] /\ cursor'[q] = cursor[q] /\ loaded'[q] = loaded[q]

LEMMA IdleIsCurrent ==
  \A r : pc[r] = "idle" => Current(r)
BY DEF Current, Updating

LEMMA SameIsCurrent ==
  ASSUME NEW q, Same(q), parent' = parent, Current(q)
  PROVE  Current(q)'
BY DEF Same, Current, Climbed, Cleared, Exists, Misread

\* Calls take their steps while nothing is searched.
LEMMA NoSearch ==
  ASSUME ~Searching, UNCHANGED reads
  PROVE  SearchIsSound'
BY DEF Searching, SearchIsSound, reads

\* A step of call r that leaves the table as it is.
LEMMA QuietStep ==
  ASSUME Inv, TypeOK', NEW r \in Calls, ~Searching,
         UNCHANGED <<parent, reads, doubtful>>,
         \A q \in Calls \ {r} : Same(q),
         overtaken' \cup {r} = overtaken \cup {r},
         r \notin overtaken' => Current(r)',
         pc'[r] = "insert" =>
           /\ parent[id'[r]] = Unborn
           /\ dto'[r] \in Categories \cup {NoParent}
           /\ \A q \in Calls \ {r} : pc[q] = "insert" => id[q] # id'[r],
         pc'[r] \in Updating => parent[id'[r]] # Unborn,
         pc'[r] \in {"require", "walk"} => Admitted(r)'
  PROVE  Inv'
<1>1. Reserved'
  BY DEF Reserved, Admitted, Same, Inv
<1>2. \A q \in Calls \ overtaken' : Current(q)'
  BY SameIsCurrent DEF Inv
<1>3. CyclesAreForAReason' /\ SearchIsSound'
  <2>1. Sure' = Sure
    BY DEF Sure
  <2>2. QED
    BY <2>1, NoSearch DEF CyclesAreForAReason, IsForest, Inv
<1>4. QED
  BY <1>1, <1>2, <1>3 DEF Inv

LEMMA Finished ==
  ASSUME TypeOK, NEW r \in Calls, Finish(r)
  PROVE  /\ pc' \in [Calls -> Stages] /\ id' \in [Calls -> Categories]
         /\ dto' \in [Calls -> Categories \cup {NoParent, Keep}]
         /\ spelt' \in [Calls -> Spelling]
         /\ entity' \in [Calls -> Categories \cup {NoParent}]
         /\ cursor' \in [Calls -> Categories]
         /\ loaded' \in [Calls -> Parent]
         /\ pc'[r] = "idle"
         /\ \A q \in Calls \ {r} : Same(q)
<1> USE Types, Constants
<1>1. pc' \in [Calls -> Stages] /\ pc'[r] = "idle"
  BY DEF Finish, Stages
<1>2. /\ id' \in [Calls -> Categories]
      /\ dto' \in [Calls -> Categories \cup {NoParent, Keep}]
      /\ spelt' \in [Calls -> Spelling]
      /\ entity' \in [Calls -> Categories \cup {NoParent}]
      /\ cursor' \in [Calls -> Categories]
      /\ loaded' \in [Calls -> Parent]
  BY DEF Finish, Parent
<1>3. \A q \in Calls \ {r} : Same(q)
  BY DEF Finish, Same
<1>4. QED
  BY <1>1, <1>2, <1>3

LEMMA RefuseStep ==
  ASSUME Inv, NEW r \in Calls, ~Searching, Refuse(r)
  PROVE  Inv'
<1> USE DEF Inv
<1>1. Finish(r) /\ UNCHANGED <<parent, reads, doubtful>> /\ overtaken' = overtaken \ {r}
  BY DEF Refuse
<1>2. TypeOK'
  <2>1. ParentsExist'
    BY <1>1, Types DEF ParentsExist, Exists
  <2>2. QED
    BY <1>1, <2>1, Types, TypesSuffice, Finished
<1>3. pc'[r] = "idle"
  BY <1>1, Finished
<1>4. /\ Current(r)' /\ pc'[r] # "insert" /\ pc'[r] \notin Updating
      /\ pc'[r] \notin {"require", "walk"}
  BY <1>3 DEF Current, Updating
<1>5. QED
  BY <1>1, <1>2, <1>4, Finished, QuietStep

-----------------------------------------------------------------------------
(***************************************************************************)
(* The steps of create and update that only read.                          *)
(***************************************************************************)

\* The types that a step keeps which leaves the table alone.
LEMMA QuietType ==
  ASSUME TypeOK, UNCHANGED <<parent, reads, doubtful>>,
         pc' \in [Calls -> Stages], id' \in [Calls -> Categories],
         dto' \in [Calls -> Categories \cup {NoParent, Keep}],
         spelt' \in [Calls -> Spelling],
         entity' \in [Calls -> Categories \cup {NoParent}],
         cursor' \in [Calls -> Categories],
         loaded' \in [Calls -> Parent],
         overtaken' \subseteq Calls
  PROVE  TypeOK'
<1>1. ParentsExist'
  BY Types DEF ParentsExist, Exists
<1>2. QED
  BY <1>1, Types, TypesSuffice

LEMMA CreateStep ==
  ASSUME Inv, NEW r \in Calls, NEW c \in Categories,
         NEW p \in Categories \cup {NoParent}, ~Searching, Create(r, c, p)
  PROVE  Inv'
<1> USE Types DEF Inv
<1>1. /\ pc[r] = "idle" /\ parent[c] = Unborn
      /\ \A q \in Calls : pc[q] = "insert" => id[q] # c
      /\ pc' = [pc EXCEPT ![r] = "insert"]
      /\ id' = [id EXCEPT ![r] = c]
      /\ dto' = [dto EXCEPT ![r] = p]
      /\ UNCHANGED <<parent, spelt, entity, cursor, loaded, reads, overtaken, doubtful>>
  BY DEF Create, history
<1>2. TypeOK'
  <2>1. pc' \in [Calls -> Stages]
    BY <1>1 DEF Stages
  <2>2. QED
    BY <1>1, <2>1, QuietType
<1>3. \A q \in Calls \ {r} : Same(q)
  BY <1>1 DEF Same
<1>4. pc'[r] = "insert" /\ id'[r] = c /\ dto'[r] = p
  BY <1>1
<1>5. pc'[r] \notin Updating /\ pc'[r] \notin {"require", "walk"} /\ Current(r)'
  BY <1>4 DEF Updating, Current
<1>6. QED
  BY <1>1, <1>2, <1>3, <1>4, <1>5, QuietStep

LEMMA UpdateStep ==
  ASSUME Inv, NEW r \in Calls, NEW c \in Categories,
         NEW p \in Categories \cup {NoParent, Keep}, NEW s \in Spelling,
         ~Searching, Update(r, c, p, s)
  PROVE  Inv'
<1> USE Types DEF Inv
<1> DEFINE stage == IF p \in Categories THEN "require" ELSE "save"
           copy == IF p = NoParent THEN NoParent ELSE parent[c]
<1>1. /\ pc[r] = "idle" /\ Exists(c) /\ (p = c => s.id # s.parentId)
      /\ pc' = [pc EXCEPT ![r] = stage]
      /\ id' = [id EXCEPT ![r] = c]
      /\ dto' = [dto EXCEPT ![r] = p]
      /\ spelt' = [spelt EXCEPT ![r] = s]
      /\ entity' = [entity EXCEPT ![r] = copy]
      /\ UNCHANGED <<parent, cursor, loaded, reads, overtaken, doubtful>>
  BY DEF Update, history
<1>2. stage \in {"require", "save"} /\ (stage = "require" <=> p \in Categories)
  OBVIOUS
<1>3. copy \in Categories \cup {NoParent} /\ copy \in {NoParent, parent[c]}
  BY <1>1 DEF Exists, Parent
<1> HIDE DEF stage, copy
<1>4. TypeOK'
  <2>1. pc' \in [Calls -> Stages]
    BY <1>1, <1>2 DEF Stages
  <2>2. entity' \in [Calls -> Categories \cup {NoParent}]
    BY <1>1, <1>3
  <2>3. QED
    BY <1>1, <2>1, <2>2, QuietType
<1>5. \A q \in Calls \ {r} : Same(q)
  BY <1>1 DEF Same
<1>6. pc'[r] = stage /\ id'[r] = c /\ dto'[r] = p /\ spelt'[r] = s /\ entity'[r] = copy
  BY <1>1
<1>7. pc'[r] # "insert" /\ pc'[r] # "walk" /\ pc'[r] # "write"
  BY <1>2, <1>6
<1>8. parent[c] # Unborn /\ Exists(id[r])'
  BY <1>1, <1>6 DEF Exists, Missing
<1>9. Current(r)' /\ (pc'[r] = "require" => Admitted(r)')
  <2>1. pc'[r] = "require" => Admitted(r)'
    BY <1>1, <1>2, <1>6 DEF Admitted
  <2>2. entity'[r] = NoParent \/ entity'[r] = parent'[id'[r]]
    BY <1>1, <1>3, <1>6
  <2>3. QED
    BY <1>7, <1>8, <2>1, <2>2 DEF Current
<1>10. QED
  BY <1>1, <1>4, <1>5, <1>6, <1>7, <1>8, <1>9, QuietStep

\* What the steps of an update have in common that go on with it.
LEMMA OnwardStep ==
  ASSUME Inv, NEW r \in Calls, ~Searching,
         pc[r] \in Updating, NEW stage \in Updating,
         pc' = [pc EXCEPT ![r] = stage],
         UNCHANGED <<parent, id, dto, spelt, reads, overtaken, doubtful>>,
         entity' \in [Calls -> Categories \cup {NoParent}],
         cursor' \in [Calls -> Categories],
         loaded' \in [Calls -> Parent],
         \A q \in Calls \ {r} : /\ entity'[q] = entity[q]
                                /\ cursor'[q] = cursor[q]
                                /\ loaded'[q] = loaded[q],
         stage # "require", stage = "walk" => pc[r] \in {"require", "walk"},
         r \notin overtaken => Current(r)'
  PROVE  Inv'
<1> USE Types DEF Inv
<1>1. TypeOK'
  <2>1. pc' \in [Calls -> Stages]
    BY DEF Stages, Updating
  <2>2. QED
    BY <2>1, QuietType
<1>2. \A q \in Calls \ {r} : Same(q)
  BY DEF Same
<1>3. pc'[r] = stage /\ pc'[r] # "insert"
  BY DEF Updating
<1>4. parent[id'[r]] # Unborn
  BY DEF Reserved
<1>5. pc'[r] \in {"require", "walk"} => Admitted(r)'
  BY <1>3 DEF Reserved, Admitted
<1>6. QED
  BY <1>1, <1>2, <1>3, <1>4, <1>5, QuietStep

LEMMA RequireParentStep ==
  ASSUME Inv, NEW r \in Calls, ~Searching, RequireParent(r)
  PROVE  Inv'
<1> USE Types
<1>1. CASE Refuse(r)
  BY <1>1, RefuseStep
<1>2. CASE ~Refuse(r)
  <2>1. /\ pc[r] = "require" /\ Exists(dto[r])
        /\ pc' = [pc EXCEPT ![r] = "walk"]
        /\ cursor' = [cursor EXCEPT ![r] = dto[r]]
        /\ UNCHANGED <<parent, id, dto, spelt, entity, loaded, reads, overtaken, doubtful>>
    BY <1>2 DEF RequireParent, history
  <2>2. dto[r] \in Categories
    BY <2>1 DEF Exists
  <2>3. /\ pc'[r] = "walk" /\ cursor'[r] = dto[r]
        /\ cursor' \in [Calls -> Categories]
    BY <2>1, <2>2 DEF Inv
  <2>4. ASSUME r \notin overtaken PROVE Current(r)'
    <3>1. Exists(id[r]) /\ (dto[r] = id[r] => Misread(r))
      BY <2>1, <2>4 DEF Inv, Reserved, Admitted, Misread, Current, Updating
    <3>2. ASSUME ~Misread(r) PROVE Climbed(r)'
      <4>1. LET V == {dto[r]} IN
              /\ V \in SUBSET Categories
              /\ dto'[r] \in V /\ cursor'[r] \in V /\ id'[r] \notin V
              /\ \A v \in V \ {cursor'[r]} : parent'[v] \in V
        BY <2>1, <2>2, <2>3, <3>1, <3>2
      <4>2. QED
        BY <4>1 DEF Climbed
    <3>3. QED
      BY <2>1, <2>2, <2>3, <3>1, <3>2 DEF Current, Exists, Misread
  <2>5. pc[r] \in Updating /\ "walk" \in Updating
    BY <2>1 DEF Updating
  <2>6. QED
    BY <2>1, <2>3, <2>4, <2>5, OnwardStep DEF Inv
<1>3. QED
  BY <1>1, <1>2

\* The walk of a call that has not been overtaken ends where it has seen all
\* ancestors of the new parent.
LEMMA WalkStep ==
  ASSUME Inv, NEW r \in Calls, ~Searching, Walk(r)
  PROVE  Inv'
<1> USE Types, Constants
<1> DEFINE next == parent[cursor[r]]
<1>0. /\ pc[r] = "walk" /\ pc[r] \in Updating
      /\ cursor[r] \in Categories /\ next \in Parent
      /\ dto[r] \in Categories
  BY DEF Walk, Inv, Reserved, Admitted, Updating
<1>k. r \notin overtaken => (Misread(r) \/ Climbed(r)) /\ Exists(id[r])
  BY <1>0 DEF Inv, Current
<1>1. CASE Refuse(r)
  BY <1>1, RefuseStep
<1>2. CASE next \in {NoParent} \cup Missing /\ Accept(r)
  <2>1. /\ pc' = [pc EXCEPT ![r] = "save"]
        /\ entity' = [entity EXCEPT ![r] = dto[r]]
        /\ UNCHANGED <<parent, id, dto, spelt, cursor, loaded, reads, overtaken, doubtful>>
    BY <1>2 DEF Accept, history
  <2>2. /\ pc'[r] = "save" /\ entity'[r] = dto[r]
        /\ entity' \in [Calls -> Categories \cup {NoParent}]
    BY <1>0, <2>1 DEF Inv
  <2>3. ASSUME r \notin overtaken, ~Misread(r) PROVE Cleared(r)'
    <3>1. PICK V \in SUBSET Categories :
            /\ dto[r] \in V /\ cursor[r] \in V /\ id[r] \notin V
            /\ \A v \in V \ {cursor[r]} : parent[v] \in V
      BY <1>k, <2>3 DEF Climbed
    <3>2. \A v \in V : parent[v] \in Categories => parent[v] \in V
      BY <1>2, <3>1 DEF Missing
    <3>3. QED
      BY <2>1, <3>1, <3>2 DEF Cleared
  <2>4. r \notin overtaken => Current(r)'
    BY <1>k, <2>1, <2>2, <2>3 DEF Current, Exists, Misread
  <2>5. "save" \in Updating
    BY DEF Updating
  <2>6. QED
    BY <1>0, <2>1, <2>2, <2>4, <2>5, OnwardStep DEF Inv
<1>3. CASE next \in Categories /\ ~IsItself(r, next) /\ Climb(r)
  <2>1. /\ cursor' = [cursor EXCEPT ![r] = next]
        /\ UNCHANGED <<parent, pc, id, dto, spelt, entity, loaded, reads, overtaken,
                       doubtful>>
    BY <1>3 DEF Climb, history
  <2>2. /\ cursor'[r] = next /\ cursor' \in [Calls -> Categories]
        /\ pc' = [pc EXCEPT ![r] = "walk"]
    BY <1>0, <1>3, <2>1 DEF Inv
  <2>3. ASSUME r \notin overtaken, ~Misread(r) PROVE Climbed(r)'
    <3>1. PICK V \in SUBSET Categories :
            /\ dto[r] \in V /\ cursor[r] \in V /\ id[r] \notin V
            /\ \A v \in V \ {cursor[r]} : parent[v] \in V
      BY <1>k, <2>3 DEF Climbed
    <3>2. \E W \in SUBSET Categories :
            /\ dto[r] \in W /\ next \in W /\ id[r] \notin W
            /\ \A v \in W \ {next} : parent[v] \in W
      <4>1. /\ V \cup {next} \in SUBSET Categories
            /\ id[r] \notin V \cup {next}
            /\ \A v \in (V \cup {next}) \ {next} : parent[v] \in V \cup {next}
        BY <1>0, <1>3, <2>3, <3>1 DEF IsItself, Misread
      <4>2. QED
        BY <3>1, <4>1
    <3>3. QED
      BY <2>1, <2>2, <3>2 DEF Climbed
  <2>4. r \notin overtaken => Current(r)'
    BY <1>0, <1>k, <2>1, <2>2, <2>3 DEF Current, Exists, Misread
  <2>5. "walk" \in Updating
    BY DEF Updating
  <2>6. QED
    BY <1>0, <2>1, <2>2, <2>4, <2>5, OnwardStep DEF Inv
<1>4. QED
  BY <1>1, <1>2, <1>3 DEF Walk

LEMMA ReloadStep ==
  ASSUME Inv, NEW r \in Calls, ~Searching, Reload(r)
  PROVE  Inv'
<1> USE Types
<1>1. /\ pc[r] = "save"
      /\ loaded' = [loaded EXCEPT ![r] = parent[id[r]]]
      /\ pc' = [pc EXCEPT ![r] = "write"]
      /\ UNCHANGED <<parent, id, dto, spelt, entity, cursor, reads, overtaken, doubtful>>
  BY DEF Reload, history
<1>2. /\ pc'[r] = "write" /\ loaded'[r] = parent[id[r]]
      /\ loaded' \in [Calls -> Parent]
  BY <1>1 DEF Inv
<1>3. ASSUME r \notin overtaken PROVE Current(r)'
  <2>1. Current(r)
    BY <1>3 DEF Inv
  <2>2. (Cleared(r) => Cleared(r)') /\ (Misread(r) => Misread(r)')
    BY <1>1 DEF Cleared, Misread
  <2>3. QED
    BY <1>1, <1>2, <2>1, <2>2 DEF Current, Exists, Updating
<1>4. pc[r] \in Updating /\ "write" \in Updating
  BY <1>1 DEF Updating
<1>5. QED
  BY <1>1, <1>2, <1>3, <1>4, OnwardStep DEF Inv

-----------------------------------------------------------------------------
(***************************************************************************)
(* The steps that write.                                                   *)
(***************************************************************************)

\* When the rows change, every other call in progress has been overtaken.
LEMMA ChangeOvertakes ==
  ASSUME \A q \in Calls \ overtaken' : pc'[q] = "idle"
  PROVE  \A q \in Calls \ overtaken' : Current(q)'
BY DEF Current, Updating

\* When a row gets a parent in no doubt, the row is not above that parent.
LEMMA RowKeepsForest ==
  ASSUME TypeOK, CyclesAreForAReason,
         NEW x \in Categories, NEW p \in Categories \cup {NoParent}, parent[x] # p,
         NEW R, NEW doubt \in BOOLEAN,
         SetRows([parent EXCEPT ![x] = p], R, doubt),
         p \in Categories /\ ~doubt =>
           \E V \in SUBSET Categories :
             /\ p \in V /\ x \notin V
             /\ \A v \in V : parent[v] \in Categories => parent[v] \in V
  PROVE  CyclesAreForAReason'
<1> USE Types, Constants
<1> DEFINE q == IF doubt THEN NoParent ELSE p
<1>1. /\ parent' = [parent EXCEPT ![x] = p]
      /\ parent'[x] = p
      /\ \A c \in Categories \ {x} : parent'[c] = parent[c]
  BY DEF SetRows
<1>2. /\ \A c \in Categories \ {x} : (c \in doubtful') <=> (c \in doubtful)
      /\ (x \in doubtful') <=> (p \in Categories /\ doubt)
  BY <1>1 DEF SetRows
<1>3. Sure \in [Categories -> Parent]
  BY DEF Sure, Parent
<1>4. Sure' = [Sure EXCEPT ![x] = q]
  <2>1. Sure' \in [Categories -> Parent \cup {p}]
    BY <1>1, <1>3 DEF Sure, Parent
  <2>2. Sure'[x] = q
    BY <1>1, <1>2 DEF Sure
  <2>3. \A c \in Categories \ {x} : Sure'[c] = Sure[c]
    BY <1>1, <1>2 DEF Sure
  <2> HIDE DEF q
  <2>4. QED
    BY <1>3, <2>1, <2>2, <2>3
<1>5. q \in Categories \cup {NoParent}
  OBVIOUS
<1>6. q \in Categories =>
        \E V \in SUBSET Categories :
          /\ q \in V /\ x \notin V
          /\ \A v \in V : Sure[v] \in Categories => Sure[v] \in V
  BY DEF Sure
<1> HIDE DEF q
<1>7. IsForest([Sure EXCEPT ![x] = q])
  BY <1>3, <1>5, <1>6, ForestReparent DEF CyclesAreForAReason
<1>8. QED
  BY <1>4, <1>7 DEF CyclesAreForAReason, IsForest

\* A row gets a parent.
LEMMA RowStep ==
  ASSUME Inv, NEW r \in Calls, ~Searching, UNCHANGED reads,
         NEW p \in Categories \cup {NoParent},
         ForeignKey(p), parent[id[r]] # p,
         pc[r] \in Updating \cup {"insert"},
         NEW doubt, SetRows([parent EXCEPT ![id[r]] = p], {r}, doubt), Finish(r),
         CyclesAreForAReason'
  PROVE  Inv'
<1> USE Types, Constants DEF Inv
<1>1. /\ parent' = [parent EXCEPT ![id[r]] = p]
      /\ parent'[id[r]] = p
      /\ \A c \in Categories \ {id[r]} : parent'[c] = parent[c]
      /\ parent' \in [Categories -> Parent]
  BY DEF SetRows, Parent
<1>2. parent' # parent
  BY <1>1
<1>3. /\ pc'[r] = "idle" /\ \A q \in Calls \ {r} : Same(q)
      /\ \A q \in Calls \ {r} : pc'[q] = pc[q]
  BY Finished DEF Same
<1>4. p \notin Missing
  BY DEF Missing
<1>5. ParentsExist'
  <2>1. ASSUME NEW c \in Categories, parent'[c] \in Categories
        PROVE  parent'[parent'[c]] \notin Missing
    <3>1. parent[parent'[c]] \notin Missing
      BY <1>1, <2>1 DEF ForeignKey, ParentsExist, Exists
    <3>2. QED
      BY <1>1, <1>4, <2>1, <3>1
  <2>2. QED
    BY <2>1 DEF ParentsExist, Exists
<1>6. TypeOK'
  <2>1. /\ overtaken' \subseteq Calls
        /\ doubtful' \subseteq {c \in Categories : parent'[c] \in Categories}
    BY DEF SetRows
  <2>2. QED
    BY <1>1, <1>5, <2>1, Finished, TypesSuffice
<1>7. Reserved'
  <2>1. ASSUME NEW q \in Calls, pc'[q] = "insert"
        PROVE  /\ parent'[id'[q]] = Unborn
               /\ dto'[q] \in Categories \cup {NoParent}
               /\ \A s \in Calls \ {q} : pc'[s] = "insert" => id'[s] # id'[q]
    <3>1. q # r /\ pc[q] = "insert" /\ Same(q)
      BY <1>3, <2>1 DEF Same
    <3>2. id[q] # id[r]
      <4>1. CASE pc[r] = "insert"
        BY <3>1, <4>1 DEF Reserved
      <4>2. CASE pc[r] \in Updating
        BY <3>1, <4>2 DEF Reserved
      <4>3. QED
        BY <4>1, <4>2
    <3>3. QED
      BY <1>1, <1>3, <3>1, <3>2 DEF Reserved, Same
  <2>2. ASSUME NEW q \in Calls, pc'[q] \in Updating
        PROVE  parent'[id'[q]] # Unborn
    <3>1. q # r
      BY <1>3, <2>2 DEF Updating
    <3>2. QED
      BY <1>1, <1>3, <1>4, <2>2, <3>1 DEF Reserved, Same, Missing
  <2>3. ASSUME NEW q \in Calls, pc'[q] \in {"require", "walk"}
        PROVE  Admitted(q)'
    BY <1>3, <2>3 DEF Reserved, Admitted, Same
  <2>4. QED
    BY <2>1, <2>2, <2>3 DEF Reserved
<1>8. \A q \in Calls \ overtaken' : Current(q)'
  <2>1. \A q \in Calls \ overtaken' : pc'[q] = "idle"
    BY <1>1, <1>2, <1>3 DEF SetRows
  <2>2. QED
    BY <2>1, ChangeOvertakes
<1>9. QED
  BY <1>6, <1>7, <1>8, NoSearch

LEMMA InsertStep ==
  ASSUME Inv, NEW r \in Calls, ~Searching, Insert(r)
  PROVE  Inv'
<1> USE Types, Constants DEF Inv
<1>1. CASE Refuse(r)
  BY <1>1, RefuseStep
<1>2. CASE ~Refuse(r)
  <2> DEFINE p == dto[r]
  <2>1. /\ pc[r] = "insert" /\ ForeignKey(p)
        /\ SetRows([parent EXCEPT ![id[r]] = p], {r}, FALSE)
        /\ Finish(r) /\ UNCHANGED reads
    BY <1>2 DEF Insert
  <2>2. parent[id[r]] = Unborn /\ p \in Categories \cup {NoParent}
    BY <2>1 DEF Reserved
  <2>3. parent[id[r]] # p
    BY <2>2
  <2>4. CyclesAreForAReason'
    <3> DEFINE V == {v \in Categories : parent[v] # Unborn}
    <3>1. p \in Categories => p \in V
      BY <2>1 DEF ForeignKey, Exists, Missing
    <3>2. id[r] \notin V /\ \A v \in V : parent[v] \in Categories => parent[v] \in V
      BY <2>2 DEF ParentsExist, Exists, Missing
    <3> HIDE DEF p
    <3>3. p \in Categories =>
            \E W \in SUBSET Categories :
              /\ p \in W /\ id[r] \notin W
              /\ \A v \in W : parent[v] \in Categories => parent[v] \in W
      BY <3>1, <3>2
    <3>4. QED
      BY <2>1, <2>2, <2>3, <3>3, RowKeepsForest
  <2>5. QED
    BY <2>1, <2>2, <2>3, <2>4, RowStep
<1>3. QED
  BY <1>1, <1>2

\* A save that changes the table either comes from a call that has not been
\* overtaken, whose new parent is clear of the category, or is in doubt.
LEMMA WriteStep ==
  ASSUME Inv, NEW r \in Calls, ~Searching, Write(r)
  PROVE  Inv'
<1> USE Types, Constants DEF Inv
<1>1. CASE Refuse(r)
  BY <1>1, RefuseStep
<1>2. CASE ~Refuse(r)
  <2> DEFINE p == entity[r]
  <2> DEFINE doubt == r \in overtaken \/ Misread(r)
  <2>1. /\ pc[r] = "write" /\ pc[r] \in Updating
        /\ ForeignKey(p) \/ Written(r) = parent
        /\ SetRows(Written(r), {r}, doubt)
        /\ Finish(r) /\ UNCHANGED reads
    BY <1>2 DEF Write, Updating
  <2>2. p \in Categories \cup {NoParent} /\ doubt \in BOOLEAN
    BY DEF Misread
  <2>3. CASE Written(r) = parent
    <3>1. /\ UNCHANGED <<parent, reads>> /\ overtaken' = overtaken \ {r}
          /\ doubtful' = doubtful
      BY <2>1, <2>3 DEF SetRows
    <3>2. Refuse(r)
      BY <2>1, <3>1 DEF Refuse
    <3>3. QED
      BY <3>2, RefuseStep
  <2>4. CASE Written(r) # parent
    <3>1. Written(r) = [parent EXCEPT ![id[r]] = p]
      BY <2>4 DEF Written
    <3>2. parent[id[r]] # p
      BY <2>4, <3>1
    <3>3. SetRows([parent EXCEPT ![id[r]] = p], {r}, doubt)
      BY <2>1, <3>1
    <3>4. p \in Categories /\ ~doubt =>
            \E V \in SUBSET Categories :
              /\ p \in V /\ id[r] \notin V
              /\ \A v \in V : parent[v] \in Categories => parent[v] \in V
      BY <2>1, <3>2 DEF Current, Cleared
    <3>5. ForeignKey(p) /\ pc[r] \in Updating \cup {"insert"}
      BY <2>1, <2>4
    <3>6. TypeOK /\ CyclesAreForAReason /\ id[r] \in Categories
      OBVIOUS
    <3> HIDE DEF Inv, p, doubt
    <3>7. CyclesAreForAReason'
      <4>1. CASE doubt = TRUE
        BY <2>2, <3>2, <3>3, <3>6, <4>1, RowKeepsForest
      <4>2. CASE doubt = FALSE
        BY <2>2, <3>2, <3>3, <3>4, <3>6, <4>2, RowKeepsForest
      <4>3. QED
        BY <2>2, <4>1, <4>2
    <3>8. QED
      BY <2>1, <2>2, <3>2, <3>3, <3>5, <3>7, RowStep
  <2>5. QED
    BY <2>3, <2>4
<1>3. QED
  BY <1>1, <1>2

\* A removal takes a row and the parents of its children away.
LEMMA RemoveStep ==
  ASSUME Inv, NEW c \in Categories, ~Searching, Remove(c)
  PROVE  Inv'
<1> USE Types, Constants DEF Inv
<1> DEFINE f == [d \in Categories |-> IF d = c THEN Deleted
                                      ELSE IF parent[d] = c THEN NoParent
                                      ELSE parent[d]]
<1>1. /\ Exists(c) /\ SetRows(f, {}, FALSE) /\ parent' = f
      /\ UNCHANGED <<pc, id, dto, spelt, entity, cursor, loaded, reads>>
  BY DEF Remove, SetRows, calls, call
<1>2. /\ f \in [Categories -> Parent]
      /\ f[c] = Deleted
      /\ \A d \in Categories \ {c} :
           f[d] = IF parent[d] = c THEN NoParent ELSE parent[d]
  BY DEF Parent, Missing
<1>3. f # parent
  BY <1>1, <1>2 DEF Exists, Missing
<1> HIDE DEF f
<1>4. ParentsExist'
  <2>1. ASSUME NEW d \in Categories, f[d] \in Categories
        PROVE  f[f[d]] \notin Missing
    <3>1. d # c /\ f[d] = parent[d] /\ f[d] # c
      BY <1>2, <2>1
    <3>2. parent[f[d]] \notin Missing
      BY <2>1, <3>1 DEF ParentsExist, Exists
    <3>3. QED
      BY <1>2, <2>1, <3>1, <3>2 DEF Missing
  <2>2. QED
    BY <1>1, <2>1 DEF ParentsExist, Exists
<1>5. TypeOK'
  <2>1. /\ overtaken' \subseteq Calls
        /\ doubtful' \subseteq {d \in Categories : parent'[d] \in Categories}
    BY <1>1 DEF SetRows
  <2>2. QED
    BY <1>1, <1>2, <1>4, <2>1, TypesSuffice
<1>6. Reserved'
  <2>1. \A d \in Categories : (f[d] = Unborn) <=> (parent[d] = Unborn)
    BY <1>1, <1>2 DEF Exists, Missing
  <2>2. QED
    BY <1>1, <2>1 DEF Reserved, Admitted
<1>7. \A q \in Calls \ overtaken' : Current(q)'
  <2>1. \A q \in Calls \ overtaken' : pc'[q] = "idle"
    BY <1>1, <1>3 DEF SetRows
  <2>2. QED
    BY <2>1, ChangeOvertakes
<1>8. CyclesAreForAReason'
  <2>1. \A d \in Categories : f[d] \in Categories => f[d] = parent[d]
    BY <1>2
  <2>2. \A d \in Categories : Sure'[d] \in Categories => Sure'[d] = Sure[d]
    BY <1>1, <2>1 DEF Sure, SetRows
  <2>3. QED
    BY <2>2, ForestPruned DEF CyclesAreForAReason, IsForest
<1>9. QED
  BY <1>1, <1>5, <1>6, <1>7, <1>8, NoSearch

-----------------------------------------------------------------------------
(***************************************************************************)
(* getSubtreeIds.                                                          *)
(***************************************************************************)

\* A step of a reader leaves the table and the calls alone.
LEMMA ReaderStep ==
  ASSUME Inv, UNCHANGED <<parent, calls, history>>,
         at' \in [Readers -> {"idle", "search"}],
         root' \in [Readers -> Categories],
         asked' \in [Readers -> Spellings],
         queue' \in [Readers -> SUBSET Categories],
         ids' \in [Readers -> SUBSET Categories],
         SearchIsSound'
  PROVE  Inv'
<1> USE DEF Inv
<1>1. UNCHANGED <<pc, id, dto, spelt, entity, cursor, loaded, overtaken, doubtful,
                  parent>>
  BY DEF calls, call, history
<1>2. TypeOK'
  BY <1>1 DEF TypeOK, Exists
<1>3. Reserved' /\ CyclesAreForAReason'
  <2>1. Sure' = Sure
    BY <1>1 DEF Sure
  <2>2. QED
    BY <1>1, <2>1 DEF Reserved, Admitted, CyclesAreForAReason, IsForest
<1>4. \A q \in Calls \ overtaken' : Current(q)'
  BY <1>1, SameIsCurrent DEF Same
<1>5. QED
  BY <1>2, <1>3, <1>4

\* A set that holds c, and the children of what it holds, holds the subtree.
LEMMA SubtreeLeast ==
  ASSUME NEW c \in Categories, NEW S \in SUBSET Categories,
         c \in S, Children(S) \subseteq S
  PROVE  Subtree(c) \subseteq S
BY DEF Subtree

LEMMA SubtreeGrows ==
  ASSUME NEW c \in Categories
  PROVE  c \in Subtree(c) /\ Children(Subtree(c)) \subseteq Subtree(c)
<1>1. ASSUME NEW d \in Children(Subtree(c)) PROVE d \in Subtree(c)
  <2>1. d \in Categories /\ parent[d] \in Subtree(c)
    BY <1>1 DEF Children
  <2>2. ASSUME NEW S \in SUBSET Categories, c \in S, Children(S) \subseteq S
        PROVE  d \in S
    <3>1. parent[d] \in S
      BY <2>1, <2>2 DEF Subtree
    <3>2. QED
      BY <2>1, <2>2, <3>1 DEF Children
  <2>3. QED
    BY <2>1, <2>2 DEF Subtree
<1>2. QED
  BY <1>1 DEF Subtree

LEMMA ReadTableStep ==
  ASSUME Inv, NEW r \in Readers, NEW c \in Categories, NEW s \in Spellings,
         ~Searching, ReadTable(r, c, s)
  PROVE  Inv'
<1>1. /\ at' = [at EXCEPT ![r] = "search"] /\ root' = [root EXCEPT ![r] = c]
      /\ asked' = [asked EXCEPT ![r] = s]
      /\ queue' = [queue EXCEPT ![r] = {c}] /\ ids' = [ids EXCEPT ![r] = {}]
      /\ UNCHANGED <<parent, calls, history>> /\ parent' = parent
  BY DEF ReadTable
<1>2. /\ at \in [Readers -> {"idle", "search"}] /\ root \in [Readers -> Categories]
      /\ asked \in [Readers -> Spellings]
      /\ queue \in [Readers -> SUBSET Categories]
      /\ ids \in [Readers -> SUBSET Categories]
  BY DEF Inv, TypeOK
<1>3. /\ at' \in [Readers -> {"idle", "search"}] /\ root' \in [Readers -> Categories]
      /\ asked' \in [Readers -> Spellings]
      /\ queue' \in [Readers -> SUBSET Categories]
      /\ ids' \in [Readers -> SUBSET Categories]
  BY <1>1, <1>2
<1>4. ASSUME NEW q \in Readers, at'[q] = "search"
      PROVE  /\ root'[q] \in ids'[q] \cup queue'[q]
             /\ ids'[q] \cup queue'[q] = {root'[q]}
             /\ {root'[q]} \subseteq Subtree(root'[q])
             /\ Children(ids'[q]) \subseteq ids'[q] \cup queue'[q]
  <2>1. q = r
    BY <1>1, <1>2, <1>4 DEF Searching
  <2>2. root'[q] = c /\ queue'[q] = {c} /\ ids'[q] = {}
    BY <1>1, <1>2, <2>1
  <2>3. Children({}) = {}
    BY DEF Children
  <2>4. QED
    BY <2>2, <2>3, SubtreeGrows
<1>5. SearchIsSound'
  BY <1>1, <1>4 DEF SearchIsSound, Children, Subtree
<1>6. QED
  BY <1>1, <1>3, <1>5, ReaderStep

LEMMA VisitStep ==
  ASSUME Inv, NEW r \in Readers, Visit(r)
  PROVE  Inv'
<1> DEFINE new == ids[r] \cup queue[r]
<1>1. /\ at[r] = "search"
      /\ ids' = [ids EXCEPT ![r] = new]
      /\ queue' = [queue EXCEPT ![r] = Found(r)]
      /\ at' = at /\ root' = root /\ asked' = asked
      /\ UNCHANGED <<parent, calls, history>> /\ parent' = parent
  BY DEF Visit
<1>2. /\ at \in [Readers -> {"idle", "search"}] /\ root \in [Readers -> Categories]
      /\ asked \in [Readers -> Spellings]
      /\ queue \in [Readers -> SUBSET Categories]
      /\ ids \in [Readers -> SUBSET Categories]
  BY DEF Inv, TypeOK
<1>3. new \in SUBSET Categories /\ Found(r) \in SUBSET Categories
  BY <1>2 DEF Found, Children
<1> HIDE DEF new
<1>4. /\ queue' \in [Readers -> SUBSET Categories]
      /\ ids' \in [Readers -> SUBSET Categories]
  BY <1>1, <1>2, <1>3
<1>5. ASSUME NEW q \in Readers, at[q] = "search", asked[q] = Canonical
      PROVE  /\ root[q] \in ids'[q] \cup queue'[q]
             /\ ids'[q] \cup queue'[q] \subseteq Subtree(root[q])
             /\ Children(ids'[q]) \subseteq ids'[q] \cup queue'[q]
  <2>1. /\ root[q] \in ids[q] \cup queue[q]
        /\ ids[q] \cup queue[q] \subseteq Subtree(root[q])
        /\ Children(ids[q]) \subseteq ids[q] \cup queue[q]
    BY <1>5 DEF Inv, SearchIsSound
  <2>2. CASE q # r
    BY <1>1, <1>2, <2>1, <2>2
  <2>3. CASE q = r
    <3>1. ids'[q] = ids[q] \cup queue[q] /\ queue'[q] = Children(queue[q])
      <4>1. Found(r) = Children(queue[r])
        BY <1>5, <2>3 DEF Found
      <4>2. QED
        BY <1>1, <1>2, <2>3, <4>1 DEF new
    <3>2. Children(queue[q]) \subseteq Subtree(root[q])
      <4>1. root[q] \in Categories
        BY <1>2
      <4>2. Children(queue[q]) \subseteq Children(Subtree(root[q]))
        BY <2>1 DEF Children
      <4>3. QED
        BY <4>1, <4>2, SubtreeGrows
    <3>3. Children(ids[q] \cup queue[q]) = Children(ids[q]) \cup Children(queue[q])
      BY DEF Children
    <3>4. QED
      BY <2>1, <3>1, <3>2, <3>3
  <2>4. QED
    BY <2>2, <2>3
<1>6. ASSUME NEW q \in Readers, at[q] = "search", asked[q] # Canonical
      PROVE  ids'[q] \cup queue'[q] = {root[q]}
  <2>1. ids[q] \cup queue[q] = {root[q]}
    BY <1>6 DEF Inv, SearchIsSound
  <2>2. CASE q # r
    BY <1>1, <1>2, <2>1, <2>2
  <2>3. CASE q = r
    <3>1. Found(r) = {}
      BY <1>6, <2>1, <2>3 DEF Found, Children
    <3>2. QED
      BY <1>1, <1>2, <2>1, <2>3, <3>1 DEF new
  <2>4. QED
    BY <2>2, <2>3
<1>7. SearchIsSound'
  BY <1>1, <1>5, <1>6 DEF SearchIsSound, Children, Subtree
<1>8. QED
  BY <1>1, <1>2, <1>4, <1>7, ReaderStep

LEMMA ReturnStep ==
  ASSUME Inv, NEW r \in Readers, Return(r)
  PROVE  Inv'
<1>1. /\ at' = [at EXCEPT ![r] = "idle"]
      /\ root' = [root EXCEPT ![r] = SomeCategory]
      /\ asked' = [asked EXCEPT ![r] = Canonical]
      /\ ids' = [ids EXCEPT ![r] = {}] /\ queue' = queue
      /\ UNCHANGED <<parent, calls, history>> /\ parent' = parent
  BY DEF Return
<1>2. /\ at \in [Readers -> {"idle", "search"}] /\ root \in [Readers -> Categories]
      /\ asked \in [Readers -> Spellings]
      /\ queue \in [Readers -> SUBSET Categories]
      /\ ids \in [Readers -> SUBSET Categories]
  BY DEF Inv, TypeOK
<1>3. /\ at' \in [Readers -> {"idle", "search"}] /\ root' \in [Readers -> Categories]
      /\ asked' \in [Readers -> Spellings]
      /\ ids' \in [Readers -> SUBSET Categories]
  BY <1>1, <1>2, Constants
<1>4. ASSUME NEW q \in Readers, at'[q] = "search"
      PROVE  /\ q # r /\ at[q] = "search" /\ root'[q] = root[q]
             /\ asked'[q] = asked[q] /\ ids'[q] = ids[q]
  BY <1>1, <1>2, <1>4
<1>5. SearchIsSound'
  BY <1>1, <1>4 DEF Inv, SearchIsSound, Children, Subtree
<1>6. QED
  BY <1>1, <1>2, <1>3, <1>5, ReaderStep

-----------------------------------------------------------------------------
(***************************************************************************)
(* The theorems.                                                           *)
(***************************************************************************)

LEMMA InvInit ==
  Init => Inv
<1> SUFFICES ASSUME Init PROVE Inv
  OBVIOUS
<1> USE Constants
<1>1. TypeOK
  <2>1. parent \in [Categories -> Categories \cup {NoParent} \cup Missing]
    BY DEF Init, Missing
  <2>2. QED
    BY <2>1 DEF Init, TypeOK
<1>2. \A r \in Calls : pc[r] = "idle"
  BY DEF Init
<1>3. Reserved /\ \A r \in Calls \ overtaken : Current(r)
  BY <1>2, IdleIsCurrent DEF Reserved, Updating
<1>4. CyclesAreForAReason /\ SearchIsSound
  <2>1. Sure = parent
    BY <1>1 DEF Init, Sure, TypeOK
  <2>2. QED
    BY <2>1 DEF Init, CyclesAreForAReason, SearchIsSound
<1>5. QED
  BY <1>1, <1>3, <1>4 DEF Inv

LEMMA InvStep ==
  Inv /\ [Next]_vars => Inv'
<1> SUFFICES ASSUME Inv, [Next]_vars PROVE Inv'
  OBVIOUS
<1>1. CASE UNCHANGED vars
  <2>1. UNCHANGED <<parent, calls, history, at, root, asked, queue, ids>>
    BY <1>1 DEF vars, reads
  <2>2. SearchIsSound'
    BY <2>1 DEF Inv, SearchIsSound, Children, Subtree
  <2>3. QED
    BY <2>1, <2>2, ReaderStep DEF Inv, TypeOK
<1>2. ASSUME NEW r \in Calls, NEW c \in Categories, ~Searching,
             NEW p \in Categories \cup {NoParent}, Create(r, c, p)
      PROVE  Inv'
  BY <1>2, CreateStep
<1>3. ASSUME NEW r \in Calls, NEW c \in Categories, ~Searching,
             NEW p \in Categories \cup {NoParent, Keep}, NEW s \in Spelling,
             Update(r, c, p, s)
      PROVE  Inv'
  BY <1>3, UpdateStep
<1>4. ASSUME NEW r \in Calls, ~Searching, GoOn(r) PROVE Inv'
  BY <1>4, InsertStep, RequireParentStep, WalkStep, ReloadStep, WriteStep DEF GoOn
<1>5. ASSUME NEW r \in Calls, ~Searching, Die(r) PROVE Inv'
  BY <1>5, RefuseStep DEF Die
<1>6. ASSUME NEW c \in Categories, ~Searching, Remove(c) PROVE Inv'
  BY <1>6, RemoveStep
<1>7. ASSUME NEW r \in Readers, NEW c \in Categories, NEW s \in Spellings,
             ~Searching, ReadTable(r, c, s)
      PROVE  Inv'
  BY <1>7, ReadTableStep
<1>8. ASSUME NEW r \in Readers, Search(r) PROVE Inv'
  BY <1>8, VisitStep, ReturnStep DEF Search
<1>9. QED
  BY <1>1, <1>2, <1>3, <1>4, <1>5, <1>6, <1>7, <1>8 DEF Next

\* The inductive invariant holds always.
THEOREM Invariance == Spec => []Inv
<1>1. Init => Inv
  BY InvInit
<1>2. Inv /\ [Next]_vars => Inv'
  BY InvStep
<1>3. QED
  BY <1>1, <1>2, PTL DEF Spec

\* The table is well-formed whatever calls overlap or fail: in particular every
\* parentId that is not null names a row, also after a removal.
THEOREM TypeCorrect == Spec => []TypeOK
<1>1. Inv => TypeOK
  BY DEF Inv
<1>2. QED
  BY <1>1, Invariance, PTL

\* Of any number of creates, updates and removals that overlap, none closes a
\* cycle but one that writes after the tree has changed under it, or that was
\* given an id in a spelling which its comparisons do not recognise.
THEOREM NoCycleWithoutAReason == Spec => []CyclesAreForAReason
<1>1. Inv => CyclesAreForAReason
  BY DEF Inv
<1>2. QED
  BY <1>1, Invariance, PTL

\* When the loop of getSubtreeIds ends, it has the whole subtree and no more,
\* though it does not remember what it has visited; also if there is a cycle.  If
\* the id is not written as in the table, it has that id alone.
THEOREM SubtreesAreExact == Spec => []SubtreeIsExact
<1>1. Inv => SubtreeIsExact
  <2> SUFFICES ASSUME Inv, NEW r \in Readers, at[r] = "search", queue[r] = {}
               PROVE  ids[r] = IF asked[r] = Canonical THEN Subtree(root[r])
                               ELSE {root[r]}
    BY DEF SubtreeIsExact
  <2>1. asked[r] # Canonical => ids[r] = {root[r]}
    BY DEF Inv, SearchIsSound
  <2>2. SUFFICES ASSUME asked[r] = Canonical PROVE ids[r] = Subtree(root[r])
    BY <2>1
  <2>3. /\ root[r] \in ids[r] /\ ids[r] \subseteq Subtree(root[r])
        /\ Children(ids[r]) \subseteq ids[r]
    BY <2>2 DEF Inv, SearchIsSound
  <2>4. root[r] \in Categories /\ ids[r] \in SUBSET Categories
    BY DEF Inv, TypeOK
  <2>5. QED
    BY <2>3, <2>4, SubtreeLeast
<1>2. QED
  BY <1>1, Invariance, PTL

-----------------------------------------------------------------------------
(***************************************************************************)
(* CategoryTree implements Taxonomy: what each call does to the table, it  *)
(* does in the one step that writes.                                       *)
(***************************************************************************)

\* The guards of the two modules say the same of the table.
LEMMA SameTable ==
  /\ \A c : Abstract!Exists(c) <=> Exists(c)
  /\ \A p : Abstract!MayName(p) <=> ForeignKey(p)
BY DEF Abstract!Exists, Abstract!MayName, Exists, ForeignKey, Missing

LEMMA TaxonomyInit ==
  Init => Abstract!Init
<1> SUFFICES ASSUME Init PROVE Abstract!Init
  OBVIOUS
<1>1. Abstract!Acyclic(parent)
  BY DEF Init, IsForest, Abstract!Acyclic
<1>2. \A c \in Categories : parent[c] \in Categories => Abstract!Exists(parent[c])
  BY SameTable DEF Init
<1>3. QED
  BY <1>1, <1>2 DEF Init, Abstract!Init

\* What a statement about one row does to the marks of misplaced rows.
LEMMA RowMarks ==
  ASSUME TypeOK, NEW x \in Categories, NEW p \in Categories \cup {NoParent},
         parent[x] # p, NEW R, NEW doubt \in BOOLEAN,
         SetRows([parent EXCEPT ![x] = p], R, doubt)
  PROVE  /\ ~doubt => Abstract!WellPlaced
         /\ doubt => doubtful' = {d \in doubtful \cup {x} : parent'[d] \in Categories}
<1> USE Types, Constants
<1>1. /\ parent' = [parent EXCEPT ![x] = p]
      /\ parent'[x] = p /\ x \in Categories
      /\ \A c \in Categories \ {x} : parent'[c] = parent[c]
  BY DEF SetRows
<1>2. /\ doubtful' \subseteq Categories
      /\ \A c \in Categories \ {x} : (c \in doubtful') <=> (c \in doubtful)
      /\ (x \in doubtful') <=> (p \in Categories /\ doubt)
  BY <1>1 DEF SetRows
<1>3. ASSUME ~doubt PROVE Abstract!WellPlaced
  <2>1. \A d \in Categories :
          (d \in doubtful') <=> (d \in doubtful /\ parent'[d] = parent[d])
    BY <1>1, <1>2, <1>3
  <2>2. QED
    BY <1>2, <2>1 DEF Abstract!WellPlaced
<1>4. ASSUME doubt
      PROVE  doubtful' = {d \in doubtful \cup {x} : parent'[d] \in Categories}
  <2>1. \A d \in Categories :
          (d \in doubtful') <=> (d \in doubtful \cup {x} /\ parent'[d] \in Categories)
    BY <1>1, <1>2, <1>4
  <2>2. QED
    BY <1>2, <2>1
<1>5. QED
  BY <1>3, <1>4

\* The INSERT adds the row under a parent that the foreign key has found.
LEMMA InsertAdds ==
  ASSUME Inv, NEW r \in Calls, Insert(r)
  PROVE  UNCHANGED <<parent, doubtful>> \/ Abstract!Add(id[r], dto[r])
<1>1. CASE Refuse(r)
  BY <1>1 DEF Refuse
<1>2. CASE ~Refuse(r)
  <2>1. /\ pc[r] = "insert" /\ ForeignKey(dto[r])
        /\ SetRows([parent EXCEPT ![id[r]] = dto[r]], {r}, FALSE)
        /\ parent' = [parent EXCEPT ![id[r]] = dto[r]]
    BY <1>2 DEF Insert, SetRows
  <2>2. parent[id[r]] = Unborn /\ dto[r] \in Categories \cup {NoParent}
    BY <2>1 DEF Inv, Reserved
  <2>3. parent[id[r]] # dto[r]
    BY <2>2, Constants
  <2>4. Abstract!WellPlaced
    BY <2>1, <2>2, <2>3, RowMarks, Types DEF Inv
  <2>5. QED
    BY <2>1, <2>2, <2>4, SameTable DEF Abstract!Add, Abstract!Put
<1>3. QED
  BY <1>1, <1>2

\* An UPDATE that changes the table misplaces a row, or else the call knows the
\* table as it is, and the row by its id: then it takes the category from under
\* its parent, or puts it where the walk has shown there is room.
LEMMA WriteMoves ==
  ASSUME Inv, NEW r \in Calls, Write(r)
  PROVE  \/ UNCHANGED <<parent, doubtful>>
         \/ Abstract!Move(id[r], entity[r])
         \/ Abstract!Misplace(id[r], entity[r])
<1>1. CASE Refuse(r)
  BY <1>1 DEF Refuse
<1>2. CASE ~Refuse(r) /\ Written(r) = parent
  <2>1. SetRows(parent, {r}, r \in overtaken \/ Misread(r))
    BY <1>2 DEF Write
  <2>2. QED
    BY <2>1, Types DEF SetRows, Inv
<1>3. CASE ~Refuse(r) /\ Written(r) # parent
  <2> DEFINE doubt == r \in overtaken \/ Misread(r)
  <2>1. /\ pc[r] = "write" /\ pc[r] \in Updating
        /\ ForeignKey(entity[r])
        /\ SetRows(Written(r), {r}, doubt)
    BY <1>3 DEF Write, Updating
  <2>2. Written(r) = [parent EXCEPT ![id[r]] = entity[r]]
    BY <1>3 DEF Written
  <2>3. Abstract!Put(id[r], entity[r])
    BY <2>1, <2>2, SameTable DEF Abstract!Put, SetRows
  <2>4. /\ id[r] \in Categories /\ entity[r] \in Categories \cup {NoParent}
        /\ parent[id[r]] # entity[r] /\ doubt \in BOOLEAN
    BY <1>3, <2>2, Types DEF Inv, Misread
  <2>5. SetRows([parent EXCEPT ![id[r]] = entity[r]], {r}, doubt)
    BY <2>1, <2>2
  <2>6. CASE doubt
    <3>1. parent[id[r]] # Unborn
      BY <2>1 DEF Inv, Reserved
    <3>2. doubtful' = {d \in doubtful \cup {id[r]} : parent'[d] \in Categories}
      <4> HIDE DEF doubt
      <4>1. QED
        BY <2>4, <2>5, <2>6, RowMarks DEF Inv
    <3>3. QED
      BY <2>3, <3>1, <3>2 DEF Abstract!Misplace
  <2>7. CASE ~doubt
    <3>1. Exists(id[r])
      BY <2>1, <2>7, Types DEF Inv, Current
    <3>2. entity[r] # NoParent => entity[r] = dto[r] /\ Cleared(r)
      BY <2>1, <2>4, <2>7 DEF Inv, Current
    <3>3. entity[r] # NoParent => Abstract!Clear(id[r], entity[r])
      BY <3>2 DEF Cleared, Abstract!Clear
    <3>4. Abstract!WellPlaced
      <4> HIDE DEF doubt
      <4>1. QED
        BY <2>4, <2>5, <2>7, RowMarks DEF Inv
    <3>5. QED
      BY <2>3, <3>1, <3>3, <3>4, SameTable DEF Abstract!Move
  <2>8. QED
    BY <2>6, <2>7
<1>4. QED
  BY <1>1, <1>2, <1>3

\* The DELETE, with what the foreign key does to the children, is one step.
LEMMA RemoveRemoves ==
  ASSUME TypeOK, NEW c \in Categories, Remove(c)
  PROVE  Abstract!Remove(c)
<1> USE Types, Constants
<1>1. /\ Exists(c)
      /\ parent' = [d \in Categories |-> IF d = c THEN Deleted
                                         ELSE IF parent[d] = c THEN NoParent
                                         ELSE parent[d]]
      /\ SetRows(parent', {}, FALSE)
  BY DEF Remove, SetRows
<1>2. doubtful' = {d \in doubtful : parent'[d] = parent[d]}
  <2>1. \A d \in Categories :
          (d \in doubtful') <=> (d \in doubtful /\ parent'[d] = parent[d])
    BY <1>1 DEF SetRows
  <2>2. doubtful' \subseteq Categories
    BY <1>1 DEF SetRows
  <2>3. QED
    BY <2>1, <2>2
<1>3. QED
  BY <1>1, <1>2, SameTable DEF Abstract!Remove, Abstract!WellPlaced

LEMMA TaxonomyStep ==
  ASSUME Inv, [Next]_vars
  PROVE  [Abstract!Next]_Abstract!vars
<1>1. CASE UNCHANGED <<parent, doubtful>>
  BY <1>1 DEF Abstract!vars
<1>2. ASSUME NEW r \in Calls, Insert(r)
      PROVE  [Abstract!Next]_Abstract!vars
  <2>1. pc[r] = "insert" \/ UNCHANGED <<parent, doubtful>>
    BY <1>2 DEF Insert
  <2>2. id[r] \in Categories /\ (pc[r] = "insert" => dto[r] \in Categories \cup {NoParent})
    BY DEF Inv, TypeOK, Reserved
  <2>3. QED
    BY <1>1, <1>2, <2>1, <2>2, InsertAdds DEF Abstract!Next
<1>3. ASSUME NEW r \in Calls, Write(r)
      PROVE  [Abstract!Next]_Abstract!vars
  <2>1. id[r] \in Categories /\ entity[r] \in Categories \cup {NoParent}
    BY DEF Inv, TypeOK
  <2>2. QED
    BY <1>1, <1>3, <2>1, WriteMoves DEF Abstract!Next
<1>4. ASSUME NEW c \in Categories, Remove(c)
      PROVE  [Abstract!Next]_Abstract!vars
  BY <1>4, RemoveRemoves DEF Inv, Abstract!Next
<1>5. CASE UNCHANGED vars
  BY <1>1, <1>5 DEF vars, history
<1>6. ASSUME NEW r \in Calls, NEW c \in Categories,
             \/ \E p \in Categories \cup {NoParent} : Create(r, c, p)
             \/ \E p \in Categories \cup {NoParent, Keep}, s \in Spelling :
                  Update(r, c, p, s)
      PROVE  UNCHANGED <<parent, doubtful>>
  BY <1>6 DEF Create, Update, history
<1>7. ASSUME NEW r \in Calls, RequireParent(r) \/ Walk(r) \/ Reload(r) \/ Die(r)
      PROVE  UNCHANGED <<parent, doubtful>>
  BY <1>7 DEF RequireParent, Walk, Accept, Climb, Refuse, Reload, Die, history
<1>8. ASSUME NEW r \in Readers,
             \/ Search(r)
             \/ \E c \in Categories, s \in Spellings : ReadTable(r, c, s)
      PROVE  UNCHANGED <<parent, doubtful>>
  BY <1>8 DEF Search, Visit, Return, ReadTable, history
<1>9. QED
  BY <1>1, <1>2, <1>3, <1>4, <1>5, <1>6, <1>7, <1>8 DEF Next, GoOn

\* Every run of the service, with any number of overlapping and failing calls,
\* is one in which rows are added, moved and removed one at a time, and moved
\* only to where the tree of that moment allows, unless the tree changed under
\* the call that moves them, or the call does not recognise the id it was given.
THEOREM TaxonomyRefinement == Spec => ImplementsTaxonomy
<1>1. Init => Abstract!Init
  BY TaxonomyInit
<1>2. Inv /\ [Next]_vars => [Abstract!Next]_Abstract!vars
  BY TaxonomyStep
<1>3. QED
  BY <1>1, <1>2, Invariance, PTL DEF Spec, ImplementsTaxonomy, Abstract!Spec

-----------------------------------------------------------------------------
(***************************************************************************)
(* Why getSubtreeIds ends: on a forest each turn of its loop visits what   *)
(* it has not visited before.                                              *)
(***************************************************************************)

\* The categories to be visited have not been.
VisitedOnce ==
  \A r \in Readers :
    at[r] = "search" /\ IsForest(parent) => ids[r] \cap queue[r] = {}

\* All but the category asked for were found as children of visited ones.
FoundBelow ==
  \A r \in Readers :
    at[r] = "search" =>
      \A d \in (ids[r] \cup queue[r]) \ {root[r]} : parent[d] \in ids[r]

LEMMA FoundBelowStep ==
  ASSUME Inv, FoundBelow, VisitedOnce, [Next]_vars
  PROVE  FoundBelow' /\ VisitedOnce'
<1>1. /\ at \in [Readers -> {"idle", "search"}] /\ root \in [Readers -> Categories]
      /\ queue \in [Readers -> SUBSET Categories]
      /\ ids \in [Readers -> SUBSET Categories]
  BY DEF Inv, TypeOK
<1>2. CASE ~Searching /\ UNCHANGED reads
  BY <1>2 DEF Searching, reads, FoundBelow, VisitedOnce
<1>3. CASE UNCHANGED vars
  BY <1>3 DEF vars, reads, FoundBelow, VisitedOnce, IsForest
<1>4. ASSUME NEW r \in Readers, NEW c \in Categories, NEW s \in Spellings,
             ~Searching, ReadTable(r, c, s)
      PROVE  FoundBelow' /\ VisitedOnce'
  <2>1. \A q \in Readers : at'[q] = "search" =>
          ids'[q] = {} /\ queue'[q] = {root'[q]}
    <3>1. /\ at' = [at EXCEPT ![r] = "search"] /\ root' = [root EXCEPT ![r] = c]
          /\ queue' = [queue EXCEPT ![r] = {c}] /\ ids' = [ids EXCEPT ![r] = {}]
      BY <1>4 DEF ReadTable
    <3>2. \A q \in Readers \ {r} : at[q] # "search"
      BY <1>4 DEF Searching
    <3>3. QED
      BY <1>1, <3>1, <3>2
  <2>2. QED
    BY <2>1 DEF FoundBelow, VisitedOnce
<1>5. ASSUME NEW r \in Readers, Return(r)
      PROVE  FoundBelow' /\ VisitedOnce'
  <2>1. /\ at' = [at EXCEPT ![r] = "idle"]
        /\ root' = [root EXCEPT ![r] = SomeCategory]
        /\ ids' = [ids EXCEPT ![r] = {}] /\ queue' = queue /\ parent' = parent
    BY <1>5 DEF Return
  <2>2. \A q \in Readers : at'[q] = "search" =>
          /\ at[q] = "search" /\ ids'[q] = ids[q] /\ queue'[q] = queue[q]
          /\ root'[q] = root[q]
    BY <1>1, <2>1
  <2>3. QED
    BY <2>1, <2>2 DEF FoundBelow, VisitedOnce, IsForest
<1>6. ASSUME NEW r \in Readers, Visit(r)
      PROVE  FoundBelow' /\ VisitedOnce'
  <2> DEFINE new == ids[r] \cup queue[r]
  <2>1. /\ at[r] = "search"
        /\ ids' = [ids EXCEPT ![r] = new]
        /\ queue' = [queue EXCEPT ![r] = Found(r)]
        /\ at' = at /\ root' = root /\ parent' = parent
    BY <1>6 DEF Visit
  <2>2. ids'[r] = ids[r] \cup queue[r] /\ queue'[r] \subseteq Children(queue[r])
    BY <1>1, <2>1 DEF Found, Children
  <2>3. \A q \in Readers \ {r} : ids'[q] = ids[q] /\ queue'[q] = queue[q]
    BY <1>1, <2>1
  <2> HIDE DEF new
  <2>4. \A d \in new \ {root[r]} : parent[d] \in ids[r]
    BY <2>1 DEF FoundBelow, new
  <2>5. \A d \in (ids'[r] \cup queue'[r]) \ {root'[r]} : parent'[d] \in ids'[r]
    BY <2>1, <2>2, <2>4 DEF Children, new
  <2>6. ASSUME IsForest(parent) PROVE ids'[r] \cap queue'[r] = {}
    <3>1. SUFFICES ASSUME NEW d \in new, parent[d] \in queue[r]
                   PROVE  FALSE
      BY <2>2 DEF Children, new
    <3>2. ids[r] \cap queue[r] = {}
      BY <2>1, <2>6 DEF VisitedOnce
    <3>3. d = root[r]
      BY <2>4, <3>1, <3>2
    <3>4. \A e \in new : parent[e] \in new
      BY <2>4, <3>1, <3>3 DEF new
    <3>5. new \in SUBSET Categories
      BY <1>1 DEF new
    <3>6. QED
      BY <2>6, <3>1, <3>4, <3>5 DEF IsForest
  <2>7. FoundBelow'
    BY <2>1, <2>3, <2>5 DEF FoundBelow
  <2>8. IsForest(parent)' <=> IsForest(parent)
    BY <2>1 DEF IsForest
  <2>9. QED
    BY <2>1, <2>3, <2>6, <2>7, <2>8 DEF VisitedOnce
<1>7. ASSUME NEW r \in Calls,
             \/ GoOn(r) \/ Die(r)
             \/ \E c \in Categories :
                  \/ \E p \in Categories \cup {NoParent} : Create(r, c, p)
                  \/ \E p \in Categories \cup {NoParent, Keep}, s \in Spelling :
                       Update(r, c, p, s)
      PROVE  UNCHANGED reads
  BY <1>7 DEF GoOn, Insert, RequireParent, Walk, Accept, Climb, Reload, Write, Refuse,
              Die, Create, Update
<1>8. ASSUME NEW c \in Categories, Remove(c)
      PROVE  UNCHANGED reads
  BY <1>8 DEF Remove
<1>9. QED
  BY <1>2, <1>3, <1>4, <1>5, <1>6, <1>7, <1>8 DEF Next, Search

\* The loop of getSubtreeIds, which keeps no record of what it has visited,
\* visits no category twice on a forest.
THEOREM NothingIsVisitedTwice == Spec => []VisitedOnce
<1>1. Init => FoundBelow /\ VisitedOnce
  BY DEF Init, FoundBelow, VisitedOnce
<1>2. Inv /\ FoundBelow /\ VisitedOnce /\ [Next]_vars => FoundBelow' /\ VisitedOnce'
  BY FoundBelowStep
<1>3. QED
  BY <1>1, <1>2, Invariance, PTL DEF Spec

\* Each turn of the loop visits something new.
EachVisitIsNew ==
  [][\A r \in Readers :
       Visit(r) /\ IsForest(parent) =>
         ids[r] \subseteq ids'[r] /\ ids[r] # ids'[r]]_vars

\* So on a forest the loop takes at most as many turns as there are categories:
\* each takes something off what has not been visited.
THEOREM VisitsGetOn == Spec => EachVisitIsNew
<1>1. ASSUME Inv, VisitedOnce, NEW r \in Readers, Visit(r), IsForest(parent)
      PROVE  ids[r] \subseteq ids'[r] /\ ids[r] # ids'[r]
  <2>1. /\ at[r] = "search" /\ queue[r] # {}
        /\ ids' = [ids EXCEPT ![r] = @ \cup queue[r]]
    BY <1>1 DEF Visit
  <2>2. ids'[r] = ids[r] \cup queue[r]
    BY <1>1, <2>1 DEF Inv, TypeOK
  <2>3. ids[r] \cap queue[r] = {}
    BY <1>1, <2>1 DEF VisitedOnce
  <2>4. QED
    BY <2>1, <2>2, <2>3
<1>2. Inv /\ VisitedOnce =>
        [\A r \in Readers :
           Visit(r) /\ IsForest(parent) =>
             ids[r] \subseteq ids'[r] /\ ids[r] # ids'[r]]_vars
  BY <1>1
<1>3. QED
  BY <1>2, Invariance, NothingIsVisitedTwice, PTL DEF EachVisitIsNew

=============================================================================
