--------------------------- MODULE Profiles_proofs ---------------------------
(***************************************************************************)
(* Proofs about Profiles, for any fields, keys and calls.                  *)
(***************************************************************************)
EXTENDS Profiles, TLAPS

\* Keys in the row count as confirmed, and only confirmed keys are deleted.
ConfirmedFirst ==
  /\ \A f \in Fields : row[f] # NoKey => row[f] \in confirmed
  /\ uploaded \ bucket \subseteq confirmed

\* Until the row overtakes it, a copy differs from it in the call's field only.
Copied(c) ==
  pc[c] \in {"save", "write"} /\ c \notin overtaken =>
    /\ \A f \in Fields \ {field[c]} : entity[c][f] = row[f]
    /\ field[c] # None => previous[c] = row[field[c]]

\* A call remembers a key of its own field.
Remembered(c) ==
  previous[c] # NoKey =>
    /\ previous[c] \in confirmed
    /\ field[c] \in Fields /\ FieldOf[previous[c]] = field[c]

\* If save leaves the field alone because the row already had the new key, the
\* old one can only be in the row by coming back.
LeftAlone(c) ==
  /\ pc[c] = "write" /\ Replaces(c)
  /\ field[c] \notin dirty[c] /\ row[field[c]] = previous[c]
  => previous[c] \in revived

\* An object is deleted when its key has left the row.
Deleting(c) ==
  pc[c] = "object" =>
    /\ previous[c] # NoKey
    /\ InRow(previous[c]) => previous[c] \in revived

CallInv(c) == Copied(c) /\ Remembered(c) /\ LeftAlone(c) /\ Deleting(c)

Inv ==
  /\ TypeOK
  /\ ConfirmedFirst
  /\ \A c \in Calls : CallInv(c)
  /\ KeysAreBacked
  /\ OrphansHaveAReason

-----------------------------------------------------------------------------
LEMMA PresignStep ==
  ASSUME Inv, NEW k \in Keys, Presign(k)
  PROVE  Inv'
<1>1. TypeOK' /\ ConfirmedFirst'
  BY DEF Inv, TypeOK, ConfirmedFirst, StorageTypeOK, Presign, PresignUpload, calls, history
<1>2. ASSUME NEW c \in Calls PROVE CallInv(c)'
  BY DEF Inv, CallInv, Copied, Remembered, LeftAlone, Deleting, Replaces, InRow,
       Presign, calls, history
<1>3. KeysAreBacked' /\ OrphansHaveAReason'
  BY DEF Inv, KeysAreBacked, OrphansHaveAReason, InRow, Presign, PresignUpload,
       calls, history
<1>. QED
  BY <1>1, <1>2, <1>3 DEF Inv

LEMMA PutStep ==
  ASSUME Inv, NEW k \in Keys, Put(k)
  PROVE  Inv'
<1>1. TypeOK' /\ ConfirmedFirst'
  BY DEF Inv, TypeOK, ConfirmedFirst, StorageTypeOK, Put, PutObject, calls
<1>2. ASSUME NEW c \in Calls PROVE CallInv(c)'
  BY DEF Inv, CallInv, Copied, Remembered, LeftAlone, Deleting, Replaces, InRow,
       Put, calls
<1>3. KeysAreBacked' /\ OrphansHaveAReason'
  BY DEF Inv, KeysAreBacked, OrphansHaveAReason, InRow, Put, PutObject, calls
<1>. QED
  BY <1>1, <1>2, <1>3 DEF Inv

\* The three calls begin alike: they differ in the field and in the copy.
LEMMA LoadStep ==
  ASSUME Inv, NEW c \in Calls, NEW f \in Fields \cup {None}, NEW copy \in Entity,
         \A g \in Fields \ {f} : copy[g] = row[g],
         Load(c, f, copy)
  PROVE  Inv'
<1>0. None \notin Fields /\ row \in Entity /\ pc[c] = "idle"
  BY ProfilesAssumption DEF Inv, TypeOK, Load
<1>1. IF f = None THEN TRUE ELSE row[f] \in Value /\ (row[f] # NoKey => FieldOf[row[f]] = f)
  BY <1>0 DEF Entity
<1>2. TypeOK' /\ ConfirmedFirst'
  BY <1>0, <1>1 DEF Inv, TypeOK, ConfirmedFirst, StorageTypeOK, Load, storage, history,
       Stages, Value
<1>3. CallInv(c)'
  <2>1. /\ pc'[c] = "save" /\ field'[c] = f /\ entity'[c] = copy
        /\ previous'[c] = IF f = None THEN NoKey ELSE row[f]
        /\ UNCHANGED <<row, confirmed>>
    BY DEF Inv, TypeOK, Load, history
  <2>2. Copied(c)'
    BY <1>0, <2>1 DEF Copied
  <2>3. Remembered(c)'
    BY <1>0, <1>1, <2>1 DEF Remembered, Inv, ConfirmedFirst
  <2>. QED
    BY <2>1, <2>2, <2>3 DEF CallInv, LeftAlone, Deleting
<1>4. ASSUME NEW d \in Calls \ {c} PROVE CallInv(d)'
  <2>1. /\ pc'[d] = pc[d] /\ field'[d] = field[d] /\ entity'[d] = entity[d]
        /\ previous'[d] = previous[d] /\ UNCHANGED <<row, dirty, history>>
    BY DEF Inv, TypeOK, Load
  <2>. QED
    BY <2>1 DEF Inv, CallInv, Copied, Remembered, LeftAlone, Deleting, Replaces, InRow,
         history
<1>5. KeysAreBacked' /\ OrphansHaveAReason'
  BY <1>0 DEF Inv, TypeOK, KeysAreBacked, OrphansHaveAReason, InRow, Load, storage, history
<1>. QED
  BY <1>2, <1>3, <1>4, <1>5 DEF Inv

LEMMA UpdateStep ==
  ASSUME Inv, NEW c \in Calls, Update(c)
  PROVE  Inv'
BY LoadStep DEF Inv, TypeOK, Update

LEMMA ConfirmStep ==
  ASSUME Inv, NEW c \in Calls, NEW k \in Keys, Confirm(c, k)
  PROVE  Inv'
<1>1. FieldOf[k] \in Fields /\ row \in Entity
  BY ProfilesAssumption DEF Inv, TypeOK
<1>2. [row EXCEPT ![FieldOf[k]] = k] \in Entity
  BY <1>1 DEF Entity, Value
<1>3. \A g \in Fields \ {FieldOf[k]} : [row EXCEPT ![FieldOf[k]] = k][g] = row[g]
  BY <1>1 DEF Entity
<1>. QED
  BY <1>1, <1>2, <1>3, LoadStep DEF Confirm

LEMMA ClearStep ==
  ASSUME Inv, NEW c \in Calls, NEW f \in Fields, Clear(c, f)
  PROVE  Inv'
<1>1. row \in Entity
  BY DEF Inv, TypeOK
<1>2. [row EXCEPT ![f] = NoKey] \in Entity
  BY <1>1 DEF Entity, Value
<1>3. \A g \in Fields \ {f} : [row EXCEPT ![f] = NoKey][g] = row[g]
  BY <1>1 DEF Entity
<1>. QED
  BY <1>2, <1>3, LoadStep DEF Clear

LEMMA ReloadStep ==
  ASSUME Inv, NEW c \in Calls, Reload(c)
  PROVE  Inv'
<1>1. TypeOK' /\ ConfirmedFirst'
  BY DEF Inv, TypeOK, ConfirmedFirst, StorageTypeOK, Reload, storage, history, Stages
<1>2. CallInv(c)'
  <2>1. /\ pc[c] = "save" /\ pc'[c] = "write"
        /\ dirty'[c] = {f \in Fields : entity[c][f] # row[f]}
        /\ UNCHANGED <<row, field, entity, previous, history>>
    BY DEF Inv, TypeOK, Reload
  <2>2. Copied(c)' /\ Remembered(c)' /\ Deleting(c)'
    BY <2>1 DEF Inv, CallInv, Copied, Remembered, Deleting, history
  <2>3. LeftAlone(c)'
    BY <2>1 DEF Inv, TypeOK, LeftAlone, Replaces
  <2>. QED
    BY <2>2, <2>3 DEF CallInv
<1>3. ASSUME NEW d \in Calls \ {c} PROVE CallInv(d)'
  <2>1. /\ pc'[d] = pc[d] /\ dirty'[d] = dirty[d]
        /\ UNCHANGED <<row, field, entity, previous, history>>
    BY DEF Inv, TypeOK, Reload
  <2>. QED
    BY <2>1 DEF Inv, CallInv, Copied, Remembered, LeftAlone, Deleting, Replaces, InRow,
         history
<1>4. KeysAreBacked' /\ OrphansHaveAReason'
  BY DEF Inv, TypeOK, KeysAreBacked, OrphansHaveAReason, InRow, Reload, storage, history
<1>. QED
  BY <1>1, <1>2, <1>3, <1>4 DEF Inv

\* What a call leaves behind.
LEMMA LeaveCall ==
  ASSUME Inv, NEW c \in Calls, Leave(c), pc' = [pc EXCEPT ![c] = "idle"]
  PROVE  /\ pc' \in [Calls -> Stages] /\ field' \in [Calls -> Fields \cup {None}]
         /\ entity' \in [Calls -> Entity] /\ dirty' \in [Calls -> SUBSET Fields]
         /\ previous' \in [Calls -> Value]
         /\ CallInv(c)'
<1>1. Blank \in Entity
  BY DEF Blank, Entity, Value
<1>2. pc'[c] = "idle" /\ previous'[c] = NoKey
  BY DEF Inv, TypeOK, Leave
<1>. QED
  BY <1>1, <1>2 DEF Inv, TypeOK, Leave, Stages, Value, CallInv, Copied, Remembered,
       LeftAlone, Deleting


LEMMA DieStep ==
  ASSUME Inv, NEW c \in Calls, Die(c)
  PROVE  Inv'
<1>1. Leave(c) /\ pc' = [pc EXCEPT ![c] = "idle"]
  BY DEF Die
<1>2. pc[c] = "object" => previous[c] \in confirmed
  BY DEF Inv, CallInv, Remembered, Deleting
<1>3. TypeOK' /\ ConfirmedFirst'
  BY <1>1, <1>2, LeaveCall DEF Inv, TypeOK, ConfirmedFirst, StorageTypeOK, Die, storage
<1>4. ASSUME NEW d \in Calls \ {c} PROVE CallInv(d)'
  <2>1. /\ pc'[d] = pc[d] /\ field'[d] = field[d] /\ entity'[d] = entity[d]
        /\ dirty'[d] = dirty[d] /\ previous'[d] = previous[d]
        /\ UNCHANGED <<row, confirmed, revived>>
        /\ (d \in overtaken' <=> d \in overtaken)
    BY DEF Inv, TypeOK, Die, Leave
  <2>. QED
    BY <2>1 DEF Inv, CallInv, Copied, Remembered, LeftAlone, Deleting, Replaces, InRow
<1>5. KeysAreBacked'
  BY DEF Inv, KeysAreBacked, Die, storage
<1>6. OrphansHaveAReason'
  <2>. SUFFICES ASSUME NEW k \in bucket' \cap confirmed', ~InRow(k)', k \notin lost'
                PROVE  \E d \in Calls : pc'[d] = "object" /\ previous'[d] = k
    BY DEF OrphansHaveAReason
  <2>1. k \in bucket \cap confirmed /\ ~InRow(k) /\ k \notin lost
    BY DEF InRow, Die, storage
  <2>2. PICK d \in Calls : pc[d] = "object" /\ previous[d] = k
    BY <2>1 DEF Inv, OrphansHaveAReason
  <2>3. d # c /\ pc'[d] = pc[d] /\ previous'[d] = previous[d]
    BY <2>2 DEF Inv, TypeOK, Die, Leave
  <2>. QED
    BY <2>2, <2>3
<1>. QED
  BY <1>1, <1>3, <1>4, <1>5, <1>6, LeaveCall DEF Inv

LEMMA DeleteObjectStep ==
  ASSUME Inv, NEW c \in Calls, DeleteObject(c)
  PROVE  Inv'
<1>1. Leave(c) /\ pc' = [pc EXCEPT ![c] = "idle"] /\ UNCHANGED <<row, overtaken, confirmed, revived>>
  BY DEF DeleteObject
<1>2. /\ previous[c] \in confirmed
      /\ InRow(previous[c]) => previous[c] \in revived
  BY DEF Inv, CallInv, Remembered, Deleting, DeleteObject
<1>3. /\ bucket' = bucket \ {previous[c]} \/ (bucket' = bucket /\ previous[c] \in lost')
      /\ UNCHANGED <<issued, uploaded>> /\ lost \subseteq lost' /\ lost' \subseteq lost \cup {previous[c]}
  BY DEF DeleteObject, Deleted, DeletionFailed, storage
<1>4. TypeOK' /\ ConfirmedFirst'
  BY <1>1, <1>2, <1>3, LeaveCall DEF Inv, TypeOK, ConfirmedFirst, StorageTypeOK, DeleteObject
<1>5. ASSUME NEW d \in Calls \ {c} PROVE CallInv(d)'
  <2>1. /\ pc'[d] = pc[d] /\ field'[d] = field[d] /\ entity'[d] = entity[d]
        /\ dirty'[d] = dirty[d] /\ previous'[d] = previous[d]
    BY <1>1 DEF Inv, TypeOK, Leave
  <2>. QED
    BY <1>1, <2>1 DEF Inv, CallInv, Copied, Remembered, LeftAlone, Deleting, Replaces, InRow
<1>6. KeysAreBacked'
  BY <1>1, <1>2, <1>3 DEF Inv, KeysAreBacked, InRow
<1>7. OrphansHaveAReason'
  <2>. SUFFICES ASSUME NEW k \in bucket' \cap confirmed', ~InRow(k)', k \notin lost'
                PROVE  \E d \in Calls : pc'[d] = "object" /\ previous'[d] = k
    BY DEF OrphansHaveAReason
  <2>1. k \in bucket \cap confirmed /\ ~InRow(k) /\ k \notin lost /\ k # previous[c]
    BY <1>1, <1>3 DEF InRow
  <2>2. PICK d \in Calls : pc[d] = "object" /\ previous[d] = k
    BY <2>1 DEF Inv, OrphansHaveAReason
  <2>3. d # c /\ pc'[d] = pc[d] /\ previous'[d] = previous[d]
    BY <1>1, <2>1, <2>2 DEF Inv, TypeOK, Leave
  <2>. QED
    BY <2>2, <2>3
<1>. QED
  BY <1>1, <1>4, <1>5, <1>6, <1>7, LeaveCall DEF Inv

-----------------------------------------------------------------------------
\* The UPDATE brings keys that were there before only by reviving them, and
\* drops none that nobody accounts for.
LEMMA WriteKeys ==
  ASSUME Inv, NEW c \in Calls, Write(c), NEW f \in Fields, row'[f] # row[f]
  PROVE  /\ f \in dirty[c] /\ row'[f] = entity[c][f]
         /\ row'[f] # NoKey => row'[f] \in confirmed' /\ (row'[f] \in confirmed => row'[f] \in revived')
         /\ row'[f] # NoKey => row'[f] \in Keys /\ FieldOf[row'[f]] = f
         /\ row[f] # NoKey => row[f] \in Keys /\ FieldOf[row[f]] = f
         /\ row[f] # NoKey /\ row[f] # previous[c] => row[f] \in lost'
         /\ previous[c] # NoKey /\ row[f] = previous[c] => Replaces(c)
<1>1. row' = Written(c) /\ row \in Entity /\ entity[c] \in Entity
  BY DEF Write, Inv, TypeOK
<1>2. f \in dirty[c] /\ row'[f] = entity[c][f] /\ Written(c)[f] = row'[f] /\ f \in Changed(c)
  BY <1>1 DEF Written, Changed
<1>3. /\ row'[f] # NoKey => row'[f] \in Keys /\ FieldOf[row'[f]] = f
      /\ row[f] # NoKey => row[f] \in Keys /\ FieldOf[row[f]] = f
  BY <1>1, <1>2 DEF Entity, Value
<1>4. c \in overtaken \/ field[c] = f
  BY <1>2 DEF Inv, CallInv, Copied, Write
<1>5. row'[f] # NoKey => row'[f] \in {Written(c)[g] : g \in Changed(c)} \ {NoKey}
  BY <1>2
<1>6. row[f] # NoKey => row[f] \in {row[g] : g \in Changed(c)} \ {NoKey}
  BY <1>2
<1>7. row'[f] # NoKey => row'[f] \in confirmed' /\ (row'[f] \in confirmed => row'[f] \in revived')
  BY <1>3, <1>4, <1>5 DEF Write
<1>8. row[f] # NoKey /\ row[f] # previous[c] => row[f] \in lost'
  <2>1. c \notin overtaken => field[c] # None
    BY <1>4, ProfilesAssumption
  <2>2. row[f] # previous[c] => c \in overtaken
    BY <1>4, <2>1 DEF Inv, CallInv, Copied, Write
  <2>. QED
    BY <1>6, <2>2 DEF Write
<1>9. previous[c] # NoKey /\ row[f] = previous[c] => Replaces(c)
  <2>. SUFFICES ASSUME previous[c] # NoKey, row[f] = previous[c] PROVE Replaces(c)
    OBVIOUS
  <2>1. field[c] \in Fields /\ FieldOf[previous[c]] = field[c]
    BY DEF Inv, CallInv, Remembered
  <2>2. field[c] = f
    BY <1>3, <2>1
  <2>. QED
    BY <1>2, <2>1, <2>2, ProfilesAssumption DEF Replaces
<1>. QED
  BY <1>2, <1>3, <1>7, <1>8, <1>9


LEMMA WriteType ==
  ASSUME Inv, NEW c \in Calls, Write(c)
  PROVE  TypeOK' /\ ConfirmedFirst'
<1>1. row \in Entity /\ entity[c] \in Entity /\ row' = Written(c)
  BY DEF Inv, TypeOK, Write
<1>2. row' \in Entity
  BY <1>1 DEF Written, Entity, Value
<1>3. \A f \in Fields : Written(c)[f] \in Value /\ row[f] \in Value
  BY <1>1, <1>2 DEF Entity
<1>4. confirmed \subseteq confirmed' /\ confirmed' \subseteq Keys /\ revived' \subseteq confirmed'
  BY <1>3 DEF Inv, TypeOK, Write, Value, Changed
<1>5. lost' \subseteq confirmed'
  BY <1>4 DEF Inv, TypeOK, Write, ConfirmedFirst, Changed
<1>6. /\ pc' \in [Calls -> Stages] /\ field' \in [Calls -> Fields \cup {None}]
      /\ entity' \in [Calls -> Entity] /\ dirty' \in [Calls -> SUBSET Fields]
      /\ previous' \in [Calls -> Value]
  <2>1. CASE Replaces(c)
    BY <2>1 DEF Inv, TypeOK, Write, Stages
  <2>2. CASE ~Replaces(c)
    BY <2>2, LeaveCall DEF Write
  <2>. QED
    BY <2>1, <2>2
<1>7. pc' = [pc EXCEPT ![c] = "object"] \/ pc' = [pc EXCEPT ![c] = "idle"]
  BY DEF Write
<1>8. overtaken' \subseteq {d \in Calls : pc'[d] \in {"save", "write"}}
  BY <1>7 DEF Inv, TypeOK, Write
<1>9. UNCHANGED storage
  BY DEF Write
<1>10. TypeOK'
  BY <1>2, <1>4, <1>5, <1>6, <1>8, <1>9 DEF TypeOK, Inv, StorageTypeOK, storage
<1>11. ConfirmedFirst'
  BY <1>4, <1>9, WriteKeys DEF ConfirmedFirst, Inv, storage
<1>. QED
  BY <1>10, <1>11

LEMMA WriteCalls ==
  ASSUME Inv, NEW c \in Calls, Write(c)
  PROVE  \A d \in Calls : CallInv(d)'
<1>1. confirmed \subseteq confirmed' /\ revived \subseteq revived'
  BY DEF Write
<1>2. \A f \in Fields : row'[f] = row[f] \/ row'[f] = NoKey
                        \/ (row'[f] \in confirmed => row'[f] \in revived')
  BY WriteKeys
<1>3. ASSUME NEW d \in Calls \ {c} PROVE CallInv(d)'
  <2>1. /\ pc'[d] = pc[d] /\ field'[d] = field[d] /\ entity'[d] = entity[d]
        /\ dirty'[d] = dirty[d] /\ previous'[d] = previous[d]
    BY DEF Inv, TypeOK, Write, Leave
  <2>2. Copied(d)'
    <3>1. pc[d] \in {"save", "write"} /\ d \notin overtaken' => row' = row /\ d \notin overtaken
      BY DEF Write
    <3>. QED
      BY <2>1, <3>1 DEF Inv, CallInv, Copied
  <2>3. Remembered(d)'
    BY <1>1, <2>1 DEF Inv, CallInv, Remembered
  <2>4. LeftAlone(d)'
    <3>. SUFFICES ASSUME pc[d] = "write", Replaces(d), field[d] \notin dirty[d],
                         row'[field[d]] = previous[d]
                  PROVE  previous[d] \in revived'
      BY <2>1 DEF LeftAlone, Replaces
    <3>1. previous[d] # NoKey /\ previous[d] \in confirmed /\ field[d] \in Fields
      BY DEF Inv, CallInv, Remembered, Replaces
    <3>2. CASE row'[field[d]] = row[field[d]]
      BY <1>1, <3>2 DEF Inv, CallInv, LeftAlone
    <3>3. CASE row'[field[d]] # row[field[d]]
      BY <1>2, <3>1, <3>3
    <3>. QED
      BY <3>2, <3>3
  <2>5. Deleting(d)'
    <3>. SUFFICES ASSUME pc[d] = "object", NEW f \in Fields, row'[f] = previous[d]
                  PROVE  previous[d] \in revived'
      BY <2>1 DEF Inv, CallInv, Deleting, InRow
    <3>1. previous[d] # NoKey /\ previous[d] \in confirmed
      BY DEF Inv, CallInv, Remembered, Deleting
    <3>. QED
      BY <1>1, <1>2, <3>1 DEF Inv, CallInv, Deleting, InRow
  <2>. QED
    BY <2>2, <2>3, <2>4, <2>5 DEF CallInv
<1>4. CASE ~Replaces(c)
  BY <1>3, <1>4, LeaveCall DEF Write
<1>5. CASE Replaces(c)
  <2>1. /\ pc'[c] = "object" /\ UNCHANGED <<field, entity, dirty, previous>>
    BY <1>5 DEF Inv, TypeOK, Write
  <2>2. /\ previous[c] # NoKey /\ previous[c] \in confirmed /\ field[c] \in Fields
        /\ FieldOf[previous[c]] = field[c] /\ previous[c] # entity[c][field[c]]
    BY <1>5 DEF Inv, CallInv, Remembered, Replaces
  <2>3. ASSUME NEW f \in Fields, row'[f] = previous[c]
        PROVE  previous[c] \in revived'
    <3>1. row' \in Entity
      BY WriteType DEF TypeOK, Entity
    <3>2. f = field[c]
      BY <2>2, <2>3, <3>1 DEF Entity
    <3>3. CASE row'[f] # row[f]
      BY <1>2, <2>2, <2>3, <3>3
    <3>4. CASE row'[f] = row[f]
      <4>1. field[c] \notin dirty[c]
        BY <2>2, <2>3, <3>2, <3>4 DEF Write, Written
      <4>. QED
        BY <1>1, <1>5, <2>3, <3>2, <3>4, <4>1 DEF Inv, CallInv, LeftAlone, Write
    <3>. QED
      BY <3>3, <3>4
  <2>4. Deleting(c)'
    BY <2>1, <2>2, <2>3 DEF Deleting, InRow
  <2>5. Remembered(c)'
    BY <1>1, <2>1, <2>2 DEF Remembered
  <2>6. CallInv(c)'
    BY <2>1, <2>4, <2>5 DEF CallInv, Copied, LeftAlone
  <2>. QED
    BY <1>3, <2>6
<1>. QED
  BY <1>4, <1>5

LEMMA WriteStep ==
  ASSUME Inv, NEW c \in Calls, Write(c)
  PROVE  Inv'
<1>1. confirmed \subseteq confirmed' /\ revived \subseteq revived' /\ UNCHANGED storage
  BY DEF Write
<1>2. KeysAreBacked'
  <2>. SUFFICES ASSUME NEW f \in Fields, row'[f] \in uploaded, row'[f] \notin revived'
                PROVE  row'[f] \in bucket
    BY <1>1 DEF KeysAreBacked, storage
  <2>1. CASE row'[f] = row[f]
    BY <1>1, <2>1 DEF Inv, KeysAreBacked
  <2>2. CASE row'[f] # row[f]
    <3>1. row'[f] # NoKey
      BY ProfilesAssumption DEF Inv, TypeOK, StorageTypeOK
    <3>. QED
      BY <2>2, <3>1, WriteKeys DEF Inv, ConfirmedFirst
  <2>. QED
    BY <2>1, <2>2
<1>3. OrphansHaveAReason'
  <2>. SUFFICES ASSUME NEW k \in bucket \cap confirmed', \A f \in Fields : row'[f] # k,
                       k \notin lost'
                PROVE  \E d \in Calls : pc'[d] = "object" /\ previous'[d] = k
    BY <1>1 DEF OrphansHaveAReason, InRow, storage
  <2>0. k \in Keys /\ k # NoKey
    BY ProfilesAssumption, WriteType DEF TypeOK
  <2>1. k \notin {Written(c)[f] : f \in Changed(c)} /\ k \in confirmed
    BY DEF Write, Changed
  <2>2. k \notin lost
    BY <2>1 DEF Write
  <2>3. CASE InRow(k)
    <3>1. PICK f \in Fields : row[f] = k /\ row'[f] # row[f]
      BY <2>3 DEF InRow
    <3>2. k = previous[c] /\ Replaces(c)
      BY <2>0, <3>1, WriteKeys
    <3>. QED
      BY <3>2 DEF Inv, TypeOK, Write
  <2>4. CASE ~InRow(k)
    <3>1. PICK d \in Calls : pc[d] = "object" /\ previous[d] = k
      BY <2>1, <2>2, <2>4 DEF Inv, OrphansHaveAReason
    <3>2. d # c
      BY <3>1 DEF Write
    <3>3. pc'[d] = pc[d] /\ previous'[d] = previous[d]
      BY <3>2 DEF Inv, TypeOK, Write, Leave
    <3>. QED
      BY <3>1, <3>3
  <2>. QED
    BY <2>3, <2>4
<1>. QED
  BY <1>2, <1>3, WriteType, WriteCalls DEF Inv

-----------------------------------------------------------------------------
LEMMA InitInv == Init => Inv
<1>. SUFFICES ASSUME Init PROVE Inv
  OBVIOUS
<1>1. Blank \in Entity /\ \A f \in Fields : row[f] = NoKey
  BY DEF Init, Blank, Entity, Value
<1>2. TypeOK
  BY <1>1 DEF Init, TypeOK, StorageInit, StorageTypeOK, Stages, Value
<1>. QED
  BY <1>1, <1>2 DEF Init, Inv, ConfirmedFirst, CallInv, Copied, Remembered, LeftAlone,
       Deleting, KeysAreBacked, OrphansHaveAReason, StorageInit

LEMMA StepInv == Inv /\ [Next]_vars => Inv'
<1>. SUFFICES ASSUME Inv, [Next]_vars PROVE Inv'
  OBVIOUS
<1>1. CASE UNCHANGED vars
  BY <1>1 DEF vars, calls, history, storage, Inv, TypeOK, StorageTypeOK, ConfirmedFirst,
       CallInv, Copied, Remembered, LeftAlone, Deleting, Replaces, InRow, KeysAreBacked,
       OrphansHaveAReason
<1>2. CASE Next
  <2>1. ASSUME NEW k \in Keys, Presign(k) \/ Put(k) PROVE Inv'
    BY <2>1, PresignStep, PutStep
  <2>2. ASSUME NEW c \in Calls,
               \/ Update(c) \/ (\E k \in Keys : Confirm(c, k))
               \/ (\E f \in Fields : Clear(c, f))
               \/ Reload(c) \/ Write(c) \/ DeleteObject(c) \/ Die(c)
        PROVE  Inv'
    BY <2>2, UpdateStep, ConfirmStep, ClearStep, ReloadStep, WriteStep,
       DeleteObjectStep, DieStep
  <2>. QED
    BY <1>2, <2>1, <2>2 DEF Next
<1>. QED
  BY <1>1, <1>2

\* The invariant that the others follow from.
THEOREM Invariance == Spec => []Inv
BY InitInv, StepInv, PTL DEF Spec

\* Every key in a row has the prefix of its column (confirmAvatar, confirmImage).
THEOREM Types == Spec => []TypeOK
<1>1. Inv => TypeOK
  BY DEF Inv
<1>. QED
  BY <1>1, Invariance, PTL

\* An uploaded image is there while its row names it, unless its key came back.
THEOREM NoDeadProfileImages == Spec => []KeysAreBacked
<1>1. Inv => KeysAreBacked
  BY DEF Inv
<1>. QED
  BY <1>1, Invariance, PTL

\* A replaced object is deleted, or one of the named reasons holds.
THEOREM OrphansAreExplained == Spec => []OrphansHaveAReason
<1>1. Inv => OrphansHaveAReason
  BY DEF Inv
<1>. QED
  BY <1>1, Invariance, PTL

=============================================================================
