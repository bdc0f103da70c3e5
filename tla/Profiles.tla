------------------------------ MODULE Profiles ------------------------------
(***************************************************************************)
(* The images of a profile: the avatar of a customer                       *)
(* (customers/customers.service.ts), the avatar and the logo of a seller   *)
(* (sellers/sellers.service.ts).  A column of the row holds the key of an  *)
(* object.  Every call reads the row, changes its copy, saves the copy,    *)
(* and then deletes the object that it has replaced.                       *)
(*                                                                         *)
(* One profile stands for all: keys begin with the id of theirs, and       *)
(* confirmations check that.  `save' reads the row again and updates the   *)
(* columns in which the copy differs from it, images or not.               *)
(***************************************************************************)
EXTENDS Storage

CONSTANTS
  Fields,   \* avatarObjectKey, shopLogoObjectKey
  Calls,    \* calls that change the profile
  FieldOf,  \* the field whose prefix each key has
  NoKey,    \* NULL
  None

ASSUME ProfilesAssumption ==
  /\ FieldOf \in [Keys -> Fields]
  /\ NoKey \notin Keys /\ None \notin Fields

VARIABLES
  row,      \* the profile: the key in each field
  pc,       \* where the call is
  field,    \* the field it changes, None if it only changes texts
  entity,   \* its copy of the row
  dirty,    \* the fields that save will update
  previous, \* the key that it read in its field
  \* History, for the properties only.
  overtaken, \* calls during which the row has changed
  confirmed, \* the keys that have been in the row
  revived,   \* the keys that have come back, and why is known
  lost       \* the keys whose object nobody will delete, and why is known

calls == <<pc, field, entity, dirty, previous>>
history == <<overtaken, confirmed, revived, lost>>
vars == <<storage, row, calls, history>>

Value == Keys \cup {NoKey}
Entity == {e \in [Fields -> Value] : \A f \in Fields : e[f] = NoKey \/ FieldOf[e[f]] = f}
Blank == [f \in Fields |-> NoKey]
Stages == {"idle", "save", "write", "object"}

InRow(k) == \E f \in Fields : row[f] = k

-----------------------------------------------------------------------------
Init ==
  /\ StorageInit
  /\ row = Blank
  /\ pc = [c \in Calls |-> "idle"] /\ field = [c \in Calls |-> None]
  /\ entity = [c \in Calls |-> Blank] /\ dirty = [c \in Calls |-> {}]
  /\ previous = [c \in Calls |-> NoKey]
  /\ overtaken = {} /\ confirmed = {} /\ revived = {} /\ lost = {}

\* presignAvatar, presignImage
Presign(k) ==
  /\ PresignUpload(k)
  /\ UNCHANGED <<row, calls, history>>

\* An upload that comes after the key was replaced leaves an object.
Put(k) ==
  /\ PutObject(k)
  /\ lost' = IF k \in confirmed /\ ~InRow(k) THEN lost \cup {k} ELSE lost
  /\ UNCHANGED <<row, calls, overtaken, confirmed, revived>>

\* getOwn, and the change of the copy.
Load(c, f, copy) ==
  /\ pc[c] = "idle"
  /\ pc' = [pc EXCEPT ![c] = "save"]
  /\ field' = [field EXCEPT ![c] = f]
  /\ entity' = [entity EXCEPT ![c] = copy]
  /\ previous' = [previous EXCEPT ![c] = IF f = None THEN NoKey ELSE row[f]]
  /\ UNCHANGED <<storage, row, dirty, history>>

\* Fault: the prefix of the key is not checked.
ConfirmAnyKey(c, k) == \E f \in Fields : Load(c, f, [row EXCEPT ![f] = k])

\* updateProfile: names, phone, locale, the shop's name and description
Update(c) == Load(c, None, row)

\* confirmAvatar, confirmLogo: any key with the right prefix
Confirm(c, k) == Load(c, FieldOf[k], [row EXCEPT ![FieldOf[k]] = k])

\* removeAvatar, removeLogo
Clear(c, f) == Load(c, f, [row EXCEPT ![f] = NoKey])

\* save, first half: what differs from the row as it is now.
Reload(c) ==
  /\ pc[c] = "save"
  /\ pc' = [pc EXCEPT ![c] = "write"]
  /\ dirty' = [dirty EXCEPT ![c] = {f \in Fields : entity[c][f] # row[f]}]
  /\ UNCHANGED <<storage, row, field, entity, previous, history>>

Written(c) == [f \in Fields |-> IF f \in dirty[c] THEN entity[c][f] ELSE row[f]]
Changed(c) == {f \in Fields : Written(c)[f] # row[f]}

\* Fault: previous is not compared with the new key.
ReplacesAny(c) == field[c] # None /\ previous[c] # NoKey

\* Fault: only a removal deletes the old object.
ReplacesByNothing(c) ==
  /\ field[c] # None
  /\ previous[c] # NoKey /\ entity[c][field[c]] = NoKey

\* There is an old object, and it is not the new one.
Replaces(c) ==
  /\ field[c] # None
  /\ previous[c] \notin {NoKey, entity[c][field[c]]}

Leave(c) ==
  /\ field' = [field EXCEPT ![c] = None]
  /\ entity' = [entity EXCEPT ![c] = Blank]
  /\ dirty' = [dirty EXCEPT ![c] = {}]
  /\ previous' = [previous EXCEPT ![c] = NoKey]

\* save, second half: the UPDATE.
Write(c) ==
  /\ pc[c] = "write"
  /\ row' = Written(c)
  /\ IF Replaces(c)
     THEN pc' = [pc EXCEPT ![c] = "object"] /\ UNCHANGED <<field, entity, dirty, previous>>
     ELSE pc' = [pc EXCEPT ![c] = "idle"] /\ Leave(c)
  /\ LET came == {Written(c)[f] : f \in Changed(c)} \ {NoKey}
         left == {row[f] : f \in Changed(c)} \ {NoKey}
     IN
     /\ confirmed' = confirmed \cup came
     /\ revived' = revived \cup
          {k \in came \cap confirmed : c \in overtaken \/ FieldOf[k] = field[c]}
     /\ lost' = (lost \ came) \cup {k \in left : c \in overtaken /\ k # previous[c]}
  /\ overtaken' = IF row' = row THEN overtaken \ {c}
                  ELSE {d \in Calls \ {c} : pc[d] \in {"save", "write"}}
  /\ UNCHANGED storage

DeleteObject(c) ==
  /\ pc[c] = "object"
  /\ \/ Deleted(previous[c]) /\ UNCHANGED lost
     \/ DeletionFailed /\ lost' = lost \cup {previous[c]}
  /\ pc' = [pc EXCEPT ![c] = "idle"] /\ Leave(c)
  /\ UNCHANGED <<row, overtaken, confirmed, revived>>

\* A statement fails, or the process dies.
Die(c) ==
  /\ pc[c] # "idle"
  /\ pc' = [pc EXCEPT ![c] = "idle"] /\ Leave(c)
  /\ lost' = IF pc[c] = "object" THEN lost \cup {previous[c]} ELSE lost
  /\ overtaken' = overtaken \ {c}
  /\ UNCHANGED <<storage, row, confirmed, revived>>

Next ==
  \/ \E k \in Keys : Presign(k) \/ Put(k)
  \/ \E c \in Calls :
       \/ Update(c)
       \/ \E k \in Keys : Confirm(c, k)
       \/ \E f \in Fields : Clear(c, f)
       \/ Reload(c) \/ Write(c) \/ DeleteObject(c) \/ Die(c)

Spec == Init /\ [][Next]_vars

-----------------------------------------------------------------------------
TypeOK ==
  /\ StorageTypeOK
  /\ row \in Entity
  /\ pc \in [Calls -> Stages] /\ field \in [Calls -> Fields \cup {None}]
  /\ entity \in [Calls -> Entity] /\ dirty \in [Calls -> SUBSET Fields]
  /\ previous \in [Calls -> Value]
  /\ overtaken \subseteq {c \in Calls : pc[c] \in {"save", "write"}}
  /\ confirmed \subseteq Keys /\ revived \subseteq confirmed /\ lost \subseteq confirmed

\* An avatar or logo that was uploaded is there as long as the row names it,
\* whatever fails or dies, unless a replaced key has come back: confirmed once
\* more, or saved with the old copy of a call that the row has overtaken.
KeysAreBacked ==
  \A f \in Fields : row[f] \in uploaded \ revived => row[f] \in bucket

\* "Replaces (and deletes) any previous one" (confirmAvatar): the object of a key
\* that the row has named is about to be deleted, unless that failed or died, it
\* was uploaded too late, or the call that replaced it had read another key.
OrphansHaveAReason ==
  \A k \in bucket \cap confirmed :
    \/ InRow(k) \/ k \in lost
    \/ \E c \in Calls : pc[c] = "object" /\ previous[c] = k
=============================================================================
