----------------------------- MODULE CategoryTree -----------------------------
(***************************************************************************)
(* The category tree (categories/categories.service.ts): admins create,    *)
(* rename, reparent and remove categories, and the catalog rolls a         *)
(* category up to its subtree.  No transaction and no lock: a call is a    *)
(* series of single statements, and other calls run between them.          *)
(*                                                                         *)
(* A category is its parentId; its name and slug are left out, and an      *)
(* update that only renames is one that keeps the parentId.  What happens  *)
(* to cached list pages afterwards is the subject of CatalogCache.         *)
(*                                                                         *)
(* An id can be spelt in several ways: @IsUUID and ParseUUIDPipe let upper *)
(* and lower case pass as they come, and PostgreSQL takes both for one     *)
(* uuid and answers in lower case.  The code compares strings.  So a       *)
(* request has its ids AND their spellings.                                *)
(*                                                                         *)
(* Operators introduced by "Fault" are not part of the model: each is the  *)
(* definition after it with a mistake in it, kept to show that some        *)
(* property notices that mistake.                                          *)
(***************************************************************************)
CONSTANTS
  Categories,  \* category ids
  Calls,       \* create and update calls of admins
  Readers,     \* catalog requests with a categoryId
  NoParent,    \* NULL
  Unborn,      \* no row with this id yet
  Deleted,     \* no row with this id any more
  Keep,        \* the dto has no parentId
  Spellings,   \* the ways to write an id
  Canonical    \* the one of them that the database answers in

ASSUME CategoryTreeAssumption ==
  /\ Categories # {}
  /\ NoParent \notin {Unborn, Deleted, Keep}
  /\ Unborn \notin {Deleted, Keep} /\ Deleted # Keep
  /\ {NoParent, Unborn, Deleted, Keep} \cap Categories = {}
  /\ Canonical \in Spellings

VARIABLES
  parent,   \* the table: the parentId of each row, or why there is none
  \* The calls of create and update.
  pc,       \* where the call is
  id,       \* the category it updates
  dto,      \* the parentId it was given
  spelt,    \* how the request writes the two
  entity,   \* the parentId of the entity it works on
  cursor,   \* where its walk up the tree is
  loaded,   \* the row save has read to compare the entity with
  \* The calls of getSubtreeIds.
  at,       \* where the call is
  root,     \* the category asked for
  asked,    \* how the request writes it
  queue,    \* what it has to visit
  ids,      \* what it has visited
  \* History, for the properties only.
  overtaken, \* calls during which the tree has changed
  doubtful   \* rows whose parentId comes from one of those, or from a call
             \* with an id that the code took for another

call == <<id, dto, spelt, entity, cursor, loaded>>
calls == <<pc, call>>
reads == <<at, root, asked, queue, ids>>
history == <<overtaken, doubtful>>
vars == <<parent, calls, reads, history>>

Missing == {Unborn, Deleted}
Exists(c) == c \in Categories /\ parent[c] \notin Missing

\* No cycle: every set of categories has one whose parent is not in the set.
IsForest(f) == \A S \in (SUBSET Categories) \ {{}} : \E c \in S : f[c] \notin S

\* What a variable holds that is not in use.
SomeCategory == CHOOSE c \in Categories : TRUE

\* The spellings of the two ids of a request; both as the database has them.
Spelling == [id : Spellings, parentId : Spellings]
Plain == [id |-> Canonical, parentId |-> Canonical]

Init ==
  /\ parent \in [Categories -> Categories \cup {NoParent, Unborn}]
  /\ IsForest(parent)
  /\ \A c \in Categories : parent[c] \in Categories => Exists(parent[c])
  /\ pc = [r \in Calls |-> "idle"]
  /\ id = [r \in Calls |-> SomeCategory]
  /\ dto = [r \in Calls |-> Keep]
  /\ spelt = [r \in Calls |-> Plain]
  /\ entity = [r \in Calls |-> NoParent]
  /\ cursor = [r \in Calls |-> SomeCategory]
  /\ loaded = [r \in Calls |-> NoParent]
  /\ at = [r \in Readers |-> "idle"]
  /\ root = [r \in Readers |-> SomeCategory]
  /\ asked = [r \in Readers |-> Canonical]
  /\ queue = [r \in Readers |-> {}]
  /\ ids = [r \in Readers |-> {}]
  /\ overtaken = {}
  /\ doubtful = {}

(***************************************************************************)
(* Statements                                                              *)
(***************************************************************************)

\* The rows become f, by a statement of the calls R; in doubt or not, as are the
\* parentIds that it changes.
SetRows(f, R, doubt) ==
  /\ parent' = f
  /\ doubtful' = {c \in Categories :
                    /\ f[c] \in Categories
                    /\ IF f[c] = parent[c] THEN c \in doubtful ELSE doubt}
  /\ overtaken' = IF f = parent THEN overtaken \ R
                  ELSE (overtaken \cup {r \in Calls : pc[r] # "idle"}) \ R

\* The call is over; what its variables held is of no interest.
Finish(r) ==
  /\ pc' = [pc EXCEPT ![r] = "idle"]
  /\ id' = [id EXCEPT ![r] = SomeCategory]
  /\ dto' = [dto EXCEPT ![r] = Keep]
  /\ spelt' = [spelt EXCEPT ![r] = Plain]
  /\ entity' = [entity EXCEPT ![r] = NoParent]
  /\ cursor' = [cursor EXCEPT ![r] = SomeCategory]
  /\ loaded' = [loaded EXCEPT ![r] = NoParent]

\* It ends without having written.
Refuse(r) ==
  /\ Finish(r)
  /\ overtaken' = overtaken \ {r}
  /\ UNCHANGED <<parent, reads, doubtful>>

\* The foreign key on parentId.
ForeignKey(p) == p = NoParent \/ Exists(p)

(***************************************************************************)
(* create                                                                  *)
(***************************************************************************)

\* requireExisting, if there is a parentId.  The id the row will have is chosen
\* here and not by the INSERT, so that calls do not wait for one.
Create(r, c, p) ==
  /\ pc[r] = "idle"
  /\ parent[c] = Unborn
  /\ \A q \in Calls : pc[q] = "insert" => id[q] # c
  /\ ForeignKey(p)
  /\ pc' = [pc EXCEPT ![r] = "insert"]
  /\ id' = [id EXCEPT ![r] = c]
  /\ dto' = [dto EXCEPT ![r] = p]
  /\ UNCHANGED <<parent, spelt, entity, cursor, loaded, reads, history>>

\* save of an entity without an id; it fails if the parent is gone.
Insert(r) ==
  /\ pc[r] = "insert"
  /\ \/ /\ ForeignKey(dto[r])
        /\ SetRows([parent EXCEPT ![id[r]] = dto[r]], {r}, FALSE)
        /\ Finish(r)
        /\ UNCHANGED reads
     \/ /\ ~ForeignKey(dto[r])
        /\ Refuse(r)

(***************************************************************************)
(* update                                                                  *)
(***************************************************************************)

\* Fault: a category may be named as its own parent.
UpdateUnderItself(r, c, p, s) ==
  /\ pc[r] = "idle"
  /\ Exists(c)
  /\ p \notin Categories => s = Plain
  /\ pc' = [pc EXCEPT ![r] = IF p \in Categories THEN "require" ELSE "save"]
  /\ id' = [id EXCEPT ![r] = c]
  /\ dto' = [dto EXCEPT ![r] = p]
  /\ spelt' = [spelt EXCEPT ![r] = s]
  /\ entity' = [entity EXCEPT ![r] = IF p = NoParent THEN NoParent ELSE parent[c]]
  /\ UNCHANGED <<parent, cursor, loaded, reads, history>>

\* findOne; with a parentId that is not null, assertValidParent comes next.  It
\* refuses a category as its own parent if the two ids are written alike.  With
\* nothing to compare it makes no difference how they are.
Update(r, c, p, s) ==
  /\ pc[r] = "idle"
  /\ Exists(c)
  /\ p = c => s.id # s.parentId
  /\ p \notin Categories => s = Plain
  /\ pc' = [pc EXCEPT ![r] = IF p \in Categories THEN "require" ELSE "save"]
  /\ id' = [id EXCEPT ![r] = c]
  /\ dto' = [dto EXCEPT ![r] = p]
  /\ spelt' = [spelt EXCEPT ![r] = s]
  /\ entity' = [entity EXCEPT ![r] = IF p = NoParent THEN NoParent ELSE parent[c]]
  /\ UNCHANGED <<parent, cursor, loaded, reads, history>>

\* requireExisting of the new parent.
RequireParent(r) ==
  /\ pc[r] = "require"
  /\ \/ /\ Exists(dto[r])
        /\ pc' = [pc EXCEPT ![r] = "walk"]
        /\ cursor' = [cursor EXCEPT ![r] = dto[r]]
        /\ UNCHANGED <<parent, id, dto, spelt, entity, loaded, reads, history>>
     \/ /\ ~Exists(dto[r])
        /\ Refuse(r)

\* The walk has met no reason to refuse, and the parentId is assigned.
Accept(r) ==
  /\ pc' = [pc EXCEPT ![r] = "save"]
  /\ entity' = [entity EXCEPT ![r] = dto[r]]
  /\ UNCHANGED <<parent, id, dto, spelt, cursor, loaded, reads, history>>

Climb(r) ==
  /\ cursor' = [cursor EXCEPT ![r] = parent[cursor[r]]]
  /\ UNCHANGED <<parent, pc, id, dto, spelt, entity, loaded, reads, history>>

\* node.parentId === id, when the parent of the node is c.
IsItself(r, c) == c = id[r] /\ spelt[r].id = Canonical

\* Fault: only the new parent is looked at, and not its ancestors.
WalkOneStep(r) ==
  /\ pc[r] = "walk"
  /\ IF IsItself(r, parent[cursor[r]]) THEN Refuse(r) ELSE Accept(r)

\* Fault: a row that is not found is looked for again.
WalkRetrying(r) ==
  LET next == parent[cursor[r]] IN
    /\ pc[r] = "walk"
    /\ \/ IsItself(r, next) /\ Refuse(r)
       \/ next = NoParent /\ Accept(r)
       \/ next \in Categories /\ ~IsItself(r, next) /\ Climb(r)

\* One turn of the loop, and of the tree: one query.
Walk(r) ==
  LET next == parent[cursor[r]] IN
    /\ pc[r] = "walk"
    /\ \/ IsItself(r, next) /\ Refuse(r)
       \/ next \in {NoParent} \cup Missing /\ Accept(r)
       \/ next \in Categories /\ ~IsItself(r, next) /\ Climb(r)

\* save reads the row again.
Reload(r) ==
  /\ pc[r] = "save"
  /\ loaded' = [loaded EXCEPT ![r] = parent[id[r]]]
  /\ pc' = [pc EXCEPT ![r] = "write"]
  /\ UNCHANGED <<parent, id, dto, spelt, entity, cursor, reads, history>>

\* It then inserts the entity if there was no row, and else updates the columns
\* in which the row differed.  An update of a row that is gone changes nothing;
\* an insert over a row that has come back, or against the foreign key, fails.
\* A parentId that is written otherwise differs too.
Differs(r) ==
  \/ loaded[r] # entity[r]
  \/ entity[r] \in Categories /\ spelt[r].parentId # Canonical

Written(r) ==
  IF loaded[r] \in Missing \/ (Differs(r) /\ Exists(id[r]))
  THEN [parent EXCEPT ![id[r]] = entity[r]]
  ELSE parent

\* The comparisons with the id of the request have been in vain.
Misread(r) ==
  /\ dto[r] \in Categories
  /\ \/ spelt[r].id # Canonical
     \/ dto[r] = id[r] /\ spelt[r].parentId # Canonical

Write(r) ==
  /\ pc[r] = "write"
  /\ \/ /\ ForeignKey(entity[r]) \/ Written(r) = parent
        /\ ~(loaded[r] \in Missing /\ Exists(id[r]))
        /\ SetRows(Written(r), {r}, r \in overtaken \/ Misread(r))
        /\ Finish(r)
        /\ UNCHANGED reads
     \/ /\ \/ ~ForeignKey(entity[r]) /\ Written(r) # parent
           \/ loaded[r] \in Missing /\ Exists(id[r])
        /\ Refuse(r)

\* A statement fails, or the process dies.
Die(r) == pc[r] # "idle" /\ Refuse(r)

(***************************************************************************)
(* remove                                                                  *)
(***************************************************************************)

\* Fault: the foreign key lacks ON DELETE SET NULL and is not checked.
RemoveLeavingChildren(c) ==
  /\ Exists(c)
  /\ SetRows([parent EXCEPT ![c] = Deleted], {}, FALSE)
  /\ UNCHANGED <<calls, reads>>

\* DELETE, which sets the parentId of the children to NULL.
Remove(c) ==
  /\ Exists(c)
  /\ SetRows([d \in Categories |-> IF d = c THEN Deleted
                                   ELSE IF parent[d] = c THEN NoParent
                                   ELSE parent[d]], {}, FALSE)
  /\ UNCHANGED <<calls, reads>>

(***************************************************************************)
(* getSubtreeIds: one query, and a loop that never awaits anything.  Until *)
(* it is over nothing else runs in this process; and what other processes  *)
(* do to the table meanwhile is of no concern to it.  So the table stands  *)
(* still, and is what was read.                                            *)
(***************************************************************************)

\* The category asked for need not exist.
ReadTable(r, c, s) ==
  /\ at[r] = "idle"
  /\ at' = [at EXCEPT ![r] = "search"]
  /\ root' = [root EXCEPT ![r] = c]
  /\ asked' = [asked EXCEPT ![r] = s]
  /\ queue' = [queue EXCEPT ![r] = {c}]
  /\ ids' = [ids EXCEPT ![r] = {}]
  /\ UNCHANGED <<parent, calls, history>>

\* The rows under a level of the tree.
Children(S) == {d \in Categories : parent[d] \in S}

\* childrenByParent.get: its keys are written as in the table, and so are all ids
\* but the one asked for.
Found(r) == Children({c \in queue[r] : c # root[r] \/ asked[r] = Canonical})

\* Fault: only the children of the category asked for are added.
VisitOneLevel(r) ==
  /\ at[r] = "search"
  /\ queue[r] # {}
  /\ ids' = [ids EXCEPT ![r] = @ \cup queue[r]]
  /\ queue' = [queue EXCEPT ![r] = Found(r) \cap Children({root[r]})]
  /\ UNCHANGED <<parent, calls, at, root, asked, history>>

\* Fault: the queue is looked at and not shifted.
VisitPeeking(r) ==
  /\ at[r] = "search"
  /\ queue[r] # {}
  /\ ids' = [ids EXCEPT ![r] = @ \cup queue[r]]
  /\ queue' = [queue EXCEPT ![r] = @ \cup Found(r)]
  /\ UNCHANGED <<parent, calls, at, root, asked, history>>

\* The turns of the loop that empty the queue of one level of the tree and fill
\* it with the next.  There is no record of what was visited before.
Visit(r) ==
  /\ at[r] = "search"
  /\ queue[r] # {}
  /\ ids' = [ids EXCEPT ![r] = @ \cup queue[r]]
  /\ queue' = [queue EXCEPT ![r] = Found(r)]
  /\ UNCHANGED <<parent, calls, at, root, asked, history>>

Return(r) ==
  /\ at[r] = "search"
  /\ queue[r] = {}
  /\ at' = [at EXCEPT ![r] = "idle"]
  /\ root' = [root EXCEPT ![r] = SomeCategory]
  /\ asked' = [asked EXCEPT ![r] = Canonical]
  /\ ids' = [ids EXCEPT ![r] = {}]
  /\ UNCHANGED <<parent, calls, queue, history>>

GoOn(r) == Insert(r) \/ RequireParent(r) \/ Walk(r) \/ Reload(r) \/ Write(r)

Searching == \E r \in Readers : at[r] = "search"

Search(r) == Visit(r) \/ Return(r)

Next ==
  \/ /\ ~Searching
     /\ \/ \E r \in Calls :
             \/ \E c \in Categories :
                  \/ \E p \in Categories \cup {NoParent} : Create(r, c, p)
                  \/ \E p \in Categories \cup {NoParent, Keep}, s \in Spelling :
                       Update(r, c, p, s)
             \/ GoOn(r) \/ Die(r)
        \/ \E c \in Categories : Remove(c)
        \/ \E r \in Readers, c \in Categories, s \in Spellings : ReadTable(r, c, s)
  \/ \E r \in Readers : Search(r)

Spec == Init /\ [][Next]_vars

\* Statements return, and loops go on.
FairSpec ==
  /\ Spec
  /\ \A r \in Calls : SF_vars(~Searching /\ GoOn(r))
  /\ \A r \in Readers : WF_vars(Search(r))

(***************************************************************************)
(* Properties                                                              *)
(***************************************************************************)

\* Every variable holds values of its kind, and parents exist: no removal
\* leaves a row pointing at nothing.
TypeOK ==
  /\ parent \in [Categories -> Categories \cup {NoParent} \cup Missing]
  /\ \A c \in Categories : parent[c] \in Categories => Exists(parent[c])
  /\ pc \in [Calls -> {"idle", "insert", "require", "walk", "save", "write"}]
  /\ id \in [Calls -> Categories]
  /\ dto \in [Calls -> Categories \cup {NoParent, Keep}]
  /\ spelt \in [Calls -> Spelling]
  /\ entity \in [Calls -> Categories \cup {NoParent}]
  /\ cursor \in [Calls -> Categories]
  /\ loaded \in [Calls -> Categories \cup {NoParent} \cup Missing]
  /\ at \in [Readers -> {"idle", "search"}]
  /\ root \in [Readers -> Categories]
  /\ asked \in [Readers -> Spellings]
  /\ queue \in [Readers -> SUBSET Categories]
  /\ ids \in [Readers -> SUBSET Categories]
  /\ overtaken \subseteq Calls
  /\ doubtful \subseteq {c \in Categories : parent[c] \in Categories}

\* The tree without the parentIds that are in doubt.
Sure == [c \in Categories |-> IF c \in doubtful THEN NoParent ELSE parent[c]]

\* The walk that assertValidParent makes keeps the tree a tree, in spite of all
\* calls that come and go: a cycle has a parentId in it that was written after
\* the tree had changed under the call, or by a call to which the category's id
\* was given in another spelling, which its comparisons do not recognise.
CyclesAreForAReason == IsForest(Sure)


\* CategoryTree implements Taxonomy: the statements of all calls, however they
\* overlap or fail, amount to rows added, moved and removed in one step, and a
\* move that was decided on while the tree stood still, by ids that the code can
\* compare, suits the tree of the moment of its save.
Abstract == INSTANCE Taxonomy

ImplementsTaxonomy == Abstract!Spec

\* c and all below it: the least set with c and the children of its members.
Subtree(c) ==
  {d \in Categories :
     \A S \in SUBSET Categories : c \in S /\ Children(S) \subseteq S => d \in S}

\* getSubtreeIds returns a category and all its descendants and nothing else; or
\* only the id it was given, if that is not written as in the table.
SubtreeIsExact ==
  \A r \in Readers :
    at[r] = "search" /\ queue[r] = {} =>
      ids[r] = IF asked[r] = Canonical THEN Subtree(root[r]) ELSE {root[r]}

\* The loop of getSubtreeIds, which keeps no record of what it has visited,
\* ends on every tree.
SubtreeReadsEnd ==
  \A r \in Readers : at[r] = "search" /\ IsForest(parent) ~> at[r] = "idle"

\* Every create and update ends, unless the tree has got a cycle, or never
\* stops changing.
WritesEnd ==
  \/ <>~IsForest(parent)
  \/ []<><<parent' # parent>>_vars
  \/ \A r \in Calls : pc[r] # "idle" ~> pc[r] = "idle"
=============================================================================
