---------------------------- MODULE Gallery_proofs ----------------------------
(***************************************************************************)
(* Proofs about Gallery, for any products, keys, images and calls.         *)
(***************************************************************************)
EXTENDS Gallery, FiniteSetTheorems, TLAPS

\* No two rows share a key, and every key of a row counts as confirmed.
RowsAreApart ==
  /\ \A i, j \in Images :
       Exists(i) /\ Exists(j) /\ image[i].key = image[j].key => i = j
  /\ \A i \in Images : Exists(i) => image[i].key \in confirmed

\* A confirmation has a key of its product.
Confirming(c) ==
  pc[c] \in {"count", "insert"} =>
    key[c] \in Keys /\ target[c] \in Products /\ Prefix[key[c]] = target[c]

\* What was counted is so, unless the call has been overtaken.
Counted(c) ==
  pc[c] = "insert" /\ c \notin overtaken /\ target[c] \in products =>
    count[c] = Cardinality(ImagesOf(target[c]))

\* A removal has the key of its image; if another image has it, it is there for
\* the second time.
Removing(c) ==
  /\ pc[c] \in {"delete", "object"} =>
       /\ target[c] \in Images /\ image[target[c]] # NoRow
       /\ key[c] \in confirmed
       /\ Exists(target[c]) => image[target[c]].key = key[c]
       /\ \A i \in Images \ {target[c]} :
            Exists(i) /\ image[i].key = key[c] => key[c] \in twice
  /\ pc[c] = "object" => ~Exists(target[c])

\* Only objects of confirmed keys are ever deleted.
OnlyConfirmedDeleted == uploaded \ bucket \subseteq confirmed

Inv ==
  /\ TypeOK
  /\ RowsAreApart
  /\ \A c \in Calls : Confirming(c)
  /\ \A c \in Calls : Counted(c)
  /\ \A c \in Calls : Removing(c)
  /\ OnlyConfirmedDeleted
  /\ GalleryInOrder
  /\ ObjectsOutliveRows
  /\ OrphansHaveAReason

-----------------------------------------------------------------------------
\* A step that leaves the images alone leaves their order alone.
LEMMA SameGallery ==
  ASSUME GalleryInOrder, UNCHANGED <<products, image, disturbed>>
  PROVE  GalleryInOrder'
BY DEF GalleryInOrder, ImagesOf, Exists

LEMMA SameRows ==
  ASSUME RowsAreApart, OnlyConfirmedDeleted,
         UNCHANGED <<bucket, uploaded, image, confirmed>>
  PROVE  RowsAreApart' /\ OnlyConfirmedDeleted'
BY DEF RowsAreApart, OnlyConfirmedDeleted, Exists

LEMMA PresignStep ==
  ASSUME Inv, NEW k \in Keys, Presign(k)
  PROVE  Inv'
<1>1. TypeOK'
  BY DEF Inv, TypeOK, StorageTypeOK, Presign, PresignUpload, Exists, calls, history
<1>2. RowsAreApart' /\ OnlyConfirmedDeleted' /\ GalleryInOrder'
  BY SameGallery, SameRows DEF Inv, Presign, PresignUpload, calls, history
<1>3. \A c \in Calls : Confirming(c)' /\ Counted(c)' /\ Removing(c)'
  BY DEF Inv, Confirming, Counted, Removing, Presign, PresignUpload, Exists, ImagesOf,
       calls, history
<1>4. ObjectsOutliveRows' /\ OrphansHaveAReason'
  BY DEF Inv, ObjectsOutliveRows, OrphansHaveAReason, Presign, PresignUpload, Exists,
       HasRow, calls, history
<1>. QED
  BY <1>1, <1>2, <1>3, <1>4 DEF Inv

LEMMA PutStep ==
  ASSUME Inv, NEW k \in Keys, Put(k)
  PROVE  Inv'
<1>1. TypeOK'
  BY DEF Inv, TypeOK, StorageTypeOK, Put, PutObject, Exists, calls
<1>2. RowsAreApart' /\ OnlyConfirmedDeleted' /\ GalleryInOrder'
  BY DEF Inv, RowsAreApart, OnlyConfirmedDeleted, GalleryInOrder, Put, PutObject,
       Exists, ImagesOf, calls
<1>3. \A c \in Calls : Confirming(c)' /\ Counted(c)' /\ Removing(c)'
  BY DEF Inv, Confirming, Counted, Removing, Put, PutObject, Exists, ImagesOf, calls
<1>4. ObjectsOutliveRows' /\ OrphansHaveAReason'
  BY DEF Inv, ObjectsOutliveRows, OrphansHaveAReason, Put, PutObject, Exists,
       HasRow, calls
<1>. QED
  BY <1>1, <1>2, <1>3, <1>4 DEF Inv

LEMMA ConfirmStep ==
  ASSUME Inv, NEW c \in Calls, NEW p \in Products, NEW k \in Keys, Confirm(c, p, k)
  PROVE  Inv'
<1>1. TypeOK'
  BY DEF Inv, TypeOK, StorageTypeOK, Confirm, Exists, storage, history, Stages
<1>2. RowsAreApart' /\ OnlyConfirmedDeleted' /\ GalleryInOrder'
  BY SameGallery, SameRows DEF Inv, Confirm, storage, history
<1>3. \A d \in Calls : Confirming(d)' /\ Counted(d)' /\ Removing(d)'
  BY DEF Inv, TypeOK, Confirming, Counted, Removing, Confirm, Exists, ImagesOf, storage, history
<1>4. ObjectsOutliveRows' /\ OrphansHaveAReason'
  BY DEF Inv, TypeOK, ObjectsOutliveRows, OrphansHaveAReason, Confirm, Exists,
       HasRow, storage, history
<1>. QED
  BY <1>1, <1>2, <1>3, <1>4 DEF Inv

LEMMA CountStep ==
  ASSUME Inv, NEW c \in Calls, Count(c)
  PROVE  Inv'
<1>0. Cardinality(ImagesOf(target[c])) \in Nat
  BY GalleryAssumption, FS_Subset, FS_CardinalityType DEF ImagesOf
<1>1. TypeOK'
  BY <1>0 DEF Inv, TypeOK, StorageTypeOK, Count, Exists, storage, history, Stages
<1>2. RowsAreApart' /\ OnlyConfirmedDeleted' /\ GalleryInOrder'
  BY SameGallery, SameRows DEF Inv, Count, storage, history
<1>3. \A d \in Calls : Confirming(d)' /\ Removing(d)'
  BY DEF Inv, TypeOK, Confirming, Removing, Count, Exists, storage, history
<1>5. ASSUME NEW d \in Calls PROVE Counted(d)'
  <2>1. pc' = [pc EXCEPT ![c] = "insert"]
        /\ count' = [count EXCEPT ![c] = Cardinality(ImagesOf(target[c]))]
        /\ UNCHANGED <<products, image, target, overtaken>>
    BY DEF Count, history
  <2>2. ImagesOf(target[d])' = ImagesOf(target[d])
    BY <2>1 DEF ImagesOf, Exists
  <2>. QED
    BY <2>1, <2>2 DEF Inv, TypeOK, Counted
<1>4. ObjectsOutliveRows' /\ OrphansHaveAReason'
  BY DEF Inv, TypeOK, ObjectsOutliveRows, OrphansHaveAReason, Count, Exists,
       HasRow, storage, history
<1>. QED
  BY <1>1, <1>2, <1>3, <1>4, <1>5 DEF Inv


\* A call that goes leaves the others as they are.
LEMMA LeaveCalls ==
  ASSUME Inv, NEW c \in Calls, Leave(c),
         UNCHANGED <<products, image, confirmed, twice>>,
         \A d \in Calls \ {c} : d \in overtaken => d \in overtaken'
  PROVE  \A d \in Calls : Confirming(d)' /\ Counted(d)' /\ Removing(d)'
<1>1. ASSUME NEW d \in Calls PROVE Confirming(d)' /\ Removing(d)'
  BY DEF Inv, TypeOK, Confirming, Removing, Leave, Exists
<1>2. ASSUME NEW d \in Calls PROVE Counted(d)'
  <2>1. ImagesOf(target[d])' = ImagesOf(target'[d])
    BY DEF ImagesOf, Exists
  <2>. QED
    BY <2>1 DEF Inv, TypeOK, Counted, Leave
<1>. QED
  BY <1>1, <1>2

LEMMA RefusedStep ==
  ASSUME Inv, NEW c \in Calls, Refused(c)
  PROVE  Inv'
<1>1. TypeOK'
  BY DEF Inv, TypeOK, StorageTypeOK, Refused, Leave, Exists, storage, Stages
<1>2. RowsAreApart' /\ OnlyConfirmedDeleted' /\ GalleryInOrder'
  BY SameGallery, SameRows DEF Inv, Refused, storage
<1>3. \A d \in Calls : Confirming(d)' /\ Counted(d)' /\ Removing(d)'
  BY LeaveCalls DEF Refused
<1>4. ObjectsOutliveRows' /\ OrphansHaveAReason'
  BY DEF Inv, TypeOK, ObjectsOutliveRows, OrphansHaveAReason, Refused, Leave, Exists,
       HasRow, storage
<1>. QED
  BY <1>1, <1>2, <1>3, <1>4 DEF Inv

LEMMA DieStep ==
  ASSUME Inv, NEW c \in Calls, Die(c)
  PROVE  Inv'
<1>0. pc[c] = "object" => key[c] \in confirmed
  BY DEF Inv, Removing
<1>1. TypeOK'
  BY <1>0 DEF Inv, TypeOK, StorageTypeOK, Die, Leave, Exists, storage, Stages
<1>2. RowsAreApart' /\ OnlyConfirmedDeleted' /\ GalleryInOrder'
  BY SameGallery, SameRows DEF Inv, Die, storage
<1>3. \A d \in Calls : Confirming(d)' /\ Counted(d)' /\ Removing(d)'
  BY LeaveCalls DEF Die
<1>4. ObjectsOutliveRows' /\ OrphansHaveAReason'
  BY DEF Inv, TypeOK, ObjectsOutliveRows, OrphansHaveAReason, Die, Leave, Exists,
       HasRow, storage
<1>. QED
  BY <1>1, <1>2, <1>3, <1>4 DEF Inv

LEMMA DeleteObjectStep ==
  ASSUME Inv, NEW c \in Calls, DeleteObject(c)
  PROVE  Inv'
<1>0. /\ key[c] \in confirmed
      /\ target[c] \in Images /\ ~Exists(target[c])
      /\ \A i \in Images : Exists(i) /\ image[i].key = key[c] => key[c] \in twice
  BY DEF Inv, Removing, DeleteObject
<1>1. TypeOK'
  BY <1>0 DEF Inv, TypeOK, StorageTypeOK, DeleteObject, Deleted, DeletionFailed, Leave,
       Exists, storage, Stages
<1>2. RowsAreApart' /\ OnlyConfirmedDeleted' /\ GalleryInOrder'
  BY <1>0, SameGallery DEF Inv, DeleteObject, Deleted, DeletionFailed, RowsAreApart,
       OnlyConfirmedDeleted, Exists, storage
<1>3. \A d \in Calls : Confirming(d)' /\ Counted(d)' /\ Removing(d)'
  BY LeaveCalls DEF DeleteObject
<1>4. ObjectsOutliveRows' /\ OrphansHaveAReason'
  BY <1>0 DEF Inv, TypeOK, ObjectsOutliveRows, OrphansHaveAReason, DeleteObject, Deleted,
       DeletionFailed, Leave, Exists, HasRow, storage
<1>. QED
  BY <1>1, <1>2, <1>3, <1>4 DEF Inv

LEMMA RemoveStep ==
  ASSUME Inv, NEW c \in Calls, NEW i \in Images, Remove(c, i)
  PROVE  Inv'
<1>0. image[i] \in Row /\ image[i].key \in Keys
  BY DEF Inv, TypeOK, Remove, Exists, Row
<1>1. TypeOK'
  BY <1>0 DEF Inv, TypeOK, StorageTypeOK, Remove, Exists, storage, history, Stages
<1>2. RowsAreApart' /\ OnlyConfirmedDeleted' /\ GalleryInOrder'
  BY SameGallery, SameRows DEF Inv, Remove, storage, history
<1>3. \A d \in Calls : Confirming(d)' /\ Removing(d)'
  BY DEF Inv, TypeOK, RowsAreApart, Confirming, Removing, Remove, Exists, storage, history
<1>4. \A d \in Calls : Counted(d)'
  BY DEF Inv, TypeOK, Counted, Remove, Exists, ImagesOf, storage, history
<1>5. ObjectsOutliveRows' /\ OrphansHaveAReason'
  BY DEF Inv, TypeOK, ObjectsOutliveRows, OrphansHaveAReason, Remove, Exists,
       HasRow, storage, history
<1>. QED
  BY <1>1, <1>2, <1>3, <1>4, <1>5 DEF Inv


-----------------------------------------------------------------------------
LEMMA ImagesFinite ==
  ASSUME NEW p
  PROVE  IsFiniteSet(ImagesOf(p)) /\ Cardinality(ImagesOf(p)) \in Nat
BY GalleryAssumption, FS_Subset, FS_CardinalityType DEF ImagesOf

\* What INSERT does to the rows, with the new one.
LEMMA InsertedRow ==
  ASSUME Inv, NEW c \in Calls, Insert(c)
  PROVE  \E i \in Images :
           /\ image[i] = NoRow
           /\ target[c] \in products /\ key[c] \in Keys /\ Prefix[key[c]] = target[c]
           /\ \A j \in Images : Exists(j) => image[j].key # key[c]
           /\ image' = [image EXCEPT ![i] =
                [product |-> target[c], key |-> key[c], position |-> count[c]]]
           /\ image'[i] = [product |-> target[c], key |-> key[c], position |-> count[c]]
           /\ image'[i] \in Row /\ image'[i] \notin {NoRow, Gone}
           /\ \A j \in Images \ {i} : image'[j] = image[j]
<1>1. PICK i \in Images :
        /\ image[i] = NoRow
        /\ target[c] \in products /\ ~HasRow(key[c])
        /\ image' = [image EXCEPT ![i] =
             [product |-> target[c], key |-> key[c], position |-> count[c]]]
  BY DEF Insert
<1>2. key[c] \in Keys /\ Prefix[key[c]] = target[c] /\ target[c] \in Products
  BY DEF Inv, Confirming, Insert
<1>3. count[c] \in Nat /\ image \in [Images -> Row \cup {NoRow, Gone}]
  BY DEF Inv, TypeOK
<1>4. image'[i] = [product |-> target[c], key |-> key[c], position |-> count[c]]
  BY <1>1, <1>3
<1>5. image'[i] \in Row /\ image'[i] \notin {NoRow, Gone}
  BY <1>2, <1>3, <1>4, GalleryAssumption DEF Row
<1>6. \A j \in Images : Exists(j) => image[j].key # key[c]
  BY <1>1 DEF HasRow
<1>. QED
  BY <1>1, <1>2, <1>3, <1>4, <1>5, <1>6

LEMMA InsertStep ==
  ASSUME Inv, NEW c \in Calls, Insert(c)
  PROVE  Inv'
<1>1. PICK i \in Images :
        /\ image[i] = NoRow
        /\ target[c] \in products /\ key[c] \in Keys /\ Prefix[key[c]] = target[c]
        /\ \A j \in Images : Exists(j) => image[j].key # key[c]
        /\ image' = [image EXCEPT ![i] =
             [product |-> target[c], key |-> key[c], position |-> count[c]]]
        /\ image'[i] = [product |-> target[c], key |-> key[c], position |-> count[c]]
        /\ image'[i] \in Row /\ image'[i] \notin {NoRow, Gone}
        /\ \A j \in Images \ {i} : image'[j] = image[j]
  BY InsertedRow
<1>2. /\ pc[c] = "insert" /\ Leave(c)
      /\ disturbed' = IF c \in overtaken THEN disturbed \cup {target[c]} ELSE disturbed
      /\ overtaken' = (overtaken \cup Counting(target[c])) \ {c}
      /\ confirmed' = confirmed \cup {key[c]}
      /\ twice' = twice \cup ({key[c]} \cap confirmed)
      /\ lost' = lost \ {key[c]}
      /\ UNCHANGED <<issued, bucket, uploaded, products>>
  BY DEF Insert, storage
<1>3. ~Exists(i) /\ \A j \in Images : Exists(j)' <=> (j = i \/ Exists(j))
  BY <1>1 DEF Exists
<1>4. TypeOK'
  <2>1. image' \in [Images -> Row \cup {NoRow, Gone}]
    BY <1>1 DEF Inv, TypeOK
  <2>2. \A j \in Images : Exists(j)' =>
          image'[j].product \in products /\ Prefix[image'[j].key] = image'[j].product
    BY <1>1, <1>3 DEF Inv, TypeOK
  <2>3. overtaken' \subseteq {d \in Calls : pc'[d] = "insert"}
    BY <1>2 DEF Inv, TypeOK, Counting, Leave
  <2>4. target[c] \in Products
    BY <1>1 DEF Inv, TypeOK
  <2>. QED
    BY <1>1, <1>2, <2>1, <2>2, <2>3, <2>4 DEF Inv, TypeOK, StorageTypeOK, Leave, Stages
<1>5. RowsAreApart' /\ OnlyConfirmedDeleted'
  BY <1>1, <1>2, <1>3 DEF Inv, RowsAreApart, OnlyConfirmedDeleted
<1>6. \A d \in Calls : Confirming(d)'
  BY <1>2 DEF Inv, TypeOK, Confirming, Leave
<1>7. \A d \in Calls : Removing(d)'
  <2>1. SUFFICES ASSUME NEW d \in Calls, d # c PROVE Removing(d)'
    BY <1>2 DEF Removing, Leave, Inv, TypeOK
  <2>2. pc'[d] = pc[d] /\ key'[d] = key[d] /\ target'[d] = target[d]
    BY <1>2, <2>1 DEF Leave, Inv, TypeOK
  <2>3. SUFFICES ASSUME pc[d] \in {"delete", "object"} PROVE Removing(d)'
    BY <2>2 DEF Removing
  <2>4. /\ target[d] \in Images /\ image[target[d]] # NoRow
        /\ key[d] \in confirmed
        /\ Exists(target[d]) => image[target[d]].key = key[d]
        /\ \A j \in Images \ {target[d]} :
             Exists(j) /\ image[j].key = key[d] => key[d] \in twice
        /\ pc[d] = "object" => ~Exists(target[d])
    BY <2>3 DEF Inv, Removing
  <2>5. target[d] # i
    BY <1>1, <2>4
  <2>6. \A t \in Images \ {i} : image'[t] = image[t]
    BY <1>1
  <2>7. \A j \in Images \ {target[d]} :
          Exists(j)' /\ image'[j].key = key[d] => key[d] \in twice'
    BY <1>1, <1>2, <1>3, <2>4
  <2>. QED
    BY <1>2, <2>2, <2>4, <2>5, <2>6, <2>7 DEF Removing, Exists
<1>8. {j \in Images : Exists(j)' /\ image'[j].product = target[c]} = ImagesOf(target[c]) \cup {i} /\ i \notin ImagesOf(target[c])
  BY <1>1, <1>3 DEF ImagesOf
<1>9. \A p : p # target[c] => ImagesOf(p)' = ImagesOf(p)
  BY <1>1, <1>3 DEF ImagesOf
<1>10. \A d \in Calls : Counted(d)'
  <2>1. SUFFICES ASSUME NEW d \in Calls, pc'[d] = "insert", d \notin overtaken',
                        target'[d] \in products
                 PROVE  count'[d] = Cardinality({j \in Images : Exists(j)' /\ image'[j].product = target'[d]})
    BY <1>2 DEF Counted, ImagesOf
  <2>2. d # c
    BY <1>2, <2>1 DEF Leave, Inv, TypeOK
  <2>3. pc'[d] = pc[d] /\ target'[d] = target[d] /\ count'[d] = count[d]
    BY <1>2, <2>2 DEF Leave, Inv, TypeOK
  <2>4. d \notin overtaken /\ target[d] # target[c]
    BY <1>2, <2>1, <2>2, <2>3 DEF Counting
  <2>5. {j \in Images : Exists(j)' /\ image'[j].product = target'[d]} = ImagesOf(target[d])
    BY <1>9, <2>3, <2>4 DEF ImagesOf
  <2>6. count[d] = Cardinality(ImagesOf(target[d]))
    BY <2>1, <2>3, <2>4 DEF Inv, Counted
  <2>. QED
    BY <2>3, <2>5, <2>6
<1>11. GalleryInOrder'
  <2>1. SUFFICES ASSUME NEW p \in products, p \notin disturbed',
                        NEW S, S = {j \in Images : Exists(j)' /\ image'[j].product = p}
                 PROVE  {image'[j].position : j \in S} = 0 .. Cardinality(S) - 1
    BY <1>2 DEF GalleryInOrder, ImagesOf
  <2>2. p \notin disturbed
    BY <1>2, <2>1
  <2>3. {image[j].position : j \in ImagesOf(p)} = 0 .. Cardinality(ImagesOf(p)) - 1
    BY <2>2 DEF Inv, GalleryInOrder
  <2>4. CASE p # target[c]
    <3>1. S = ImagesOf(p)
      BY <1>9, <2>1, <2>4 DEF ImagesOf
    <3>2. \A j \in S : image'[j] = image[j]
      BY <1>1, <1>3, <3>1 DEF ImagesOf
    <3>. QED
      BY <2>3, <3>1, <3>2
  <2>5. CASE p = target[c]
    <3>1. count[c] = Cardinality(ImagesOf(p))
      BY <1>2, <2>1, <2>5 DEF Inv, Counted
    <3>2. S = ImagesOf(p) \cup {i} /\ i \notin ImagesOf(p)
      BY <1>8, <2>1, <2>5
    <3>3. Cardinality(S) = Cardinality(ImagesOf(p)) + 1 /\ Cardinality(ImagesOf(p)) \in Nat
      BY <3>2, ImagesFinite, FS_AddElement
    <3>4. \A j \in ImagesOf(p) : image'[j] = image[j]
      BY <1>1, <3>2 DEF ImagesOf
    <3>5. {image'[j].position : j \in S}
            = {image[j].position : j \in ImagesOf(p)} \cup {count[c]}
      BY <1>1, <3>2, <3>4
    <3>6. 0 .. (Cardinality(ImagesOf(p)) + 1) - 1
            = (0 .. Cardinality(ImagesOf(p)) - 1) \cup {Cardinality(ImagesOf(p))}
      BY <3>3
    <3>. QED
      BY <2>3, <3>1, <3>3, <3>5, <3>6
  <2>. QED
    BY <2>4, <2>5
<1>12. ObjectsOutliveRows'
  BY <1>1, <1>2, <1>3 DEF Inv, ObjectsOutliveRows, OnlyConfirmedDeleted
<1>13. OrphansHaveAReason'
  <2>1. SUFFICES ASSUME NEW k \in bucket, k \in confirmed',
                        \A j \in Images : ~(Exists(j)' /\ image'[j].key = k),
                        k \notin lost'
                 PROVE  \E d \in Calls : pc'[d] = "object" /\ key'[d] = k
    BY <1>2 DEF OrphansHaveAReason, HasRow
  <2>2. k # key[c] /\ k \in confirmed /\ k \notin lost
    BY <1>1, <1>2, <1>3, <2>1
  <2>3. ~HasRow(k)
    BY <1>1, <1>3, <2>1 DEF HasRow
  <2>4. PICK d \in Calls : pc[d] = "object" /\ key[d] = k
    BY <2>2, <2>3 DEF Inv, OrphansHaveAReason
  <2>. QED
    BY <1>2, <2>4 DEF Leave, Inv, TypeOK
<1>. QED
  BY <1>4, <1>5, <1>6, <1>7, <1>10, <1>11, <1>12, <1>13 DEF Inv

\* Rows of some images are deleted, and nothing else happens to any.
LEMMA Deletion ==
  ASSUME Inv, NEW S \in SUBSET Images, \A i \in S : Exists(i),
         image' = [i \in Images |-> IF i \in S THEN Gone ELSE image[i]]
  PROVE  /\ \A i \in Images : Exists(i)' <=> (Exists(i) /\ i \notin S)
         /\ \A i \in Images : Exists(i)' => image'[i] = image[i]
         /\ \A i \in Images : image[i] # NoRow => image'[i] # NoRow
         /\ image' \in [Images -> Row \cup {NoRow, Gone}]
BY GalleryAssumption DEF Inv, TypeOK, Exists

LEMMA DeleteRowStep ==
  ASSUME Inv, NEW c \in Calls, DeleteRow(c)
  PROVE  Inv'
<1>. DEFINE t == target[c]
            S == {t} \cap {i \in Images : Exists(i)}
<1>1. /\ pc[c] = "delete" /\ pc' = [pc EXCEPT ![c] = "object"]
      /\ UNCHANGED <<issued, bucket, uploaded, products, key, target, count,
                     confirmed, twice, lost>>
  BY DEF DeleteRow, storage
<1>2. t \in Images /\ (Exists(t) => image[t].key = key[c]) /\ image[t] # NoRow
  BY <1>1 DEF Inv, Removing
<1>3. image' = [i \in Images |-> IF i \in S THEN Gone ELSE image[i]]
  BY <1>1, <1>2 DEF DeleteRow, Inv, TypeOK
<1>4. /\ \A i \in Images : Exists(i)' <=> (Exists(i) /\ i \notin S)
      /\ \A i \in Images : Exists(i)' => image'[i] = image[i]
      /\ \A i \in Images : image[i] # NoRow => image'[i] # NoRow
      /\ image' \in [Images -> Row \cup {NoRow, Gone}]
  BY <1>2, <1>3, Deletion
<1>5. /\ disturbed \subseteq disturbed' /\ overtaken \subseteq overtaken'
      /\ Exists(t) => image[t].product \in disturbed'
      /\ Exists(t) => Counting(image[t].product) \subseteq overtaken'
  BY DEF DeleteRow
<1>6. disturbed' \subseteq Products /\ overtaken' \subseteq {d \in Calls : pc[d] = "insert"}
  BY <1>2 DEF DeleteRow, Inv, TypeOK, Counting, Exists
<1>7. TypeOK'
  <2>1. \A i \in Images : Exists(i)' =>
          image'[i].product \in products /\ Prefix[image'[i].key] = image'[i].product
    BY <1>4 DEF Inv, TypeOK
  <2>. QED
    BY <1>1, <1>4, <1>6, <2>1 DEF Inv, TypeOK, StorageTypeOK, Stages
<1>8. RowsAreApart' /\ OnlyConfirmedDeleted' /\ ObjectsOutliveRows'
  BY <1>1, <1>4 DEF Inv, RowsAreApart, OnlyConfirmedDeleted, ObjectsOutliveRows
<1>9. \A d \in Calls : Confirming(d)'
  BY <1>1 DEF Inv, TypeOK, Confirming
<1>10. ASSUME NEW p, ~(Exists(t) /\ image[t].product = p)
       PROVE  {i \in Images : Exists(i)' /\ image'[i].product = p} = ImagesOf(p)
  BY <1>4, <1>10 DEF ImagesOf
<1>11. ASSUME NEW d \in Calls PROVE Counted(d)'
  <2>1. SUFFICES ASSUME pc[d] = "insert", d \notin overtaken', target[d] \in products
                 PROVE  count[d] = Cardinality({i \in Images : Exists(i)' /\ image'[i].product = target'[d]})
    BY <1>1 DEF Counted, ImagesOf, Inv, TypeOK
  <2>2. ~(Exists(t) /\ image[t].product = target[d])
    BY <1>5, <2>1 DEF Counting
  <2>. QED
    BY <1>1, <1>5, <1>10, <2>1, <2>2 DEF Inv, Counted
<1>12. ASSUME NEW d \in Calls PROVE Removing(d)'
  <2>1. SUFFICES ASSUME pc[d] \in {"delete", "object"} PROVE Removing(d)'
    BY <1>1 DEF Removing, Inv, TypeOK
  <2>2. /\ target[d] \in Images /\ image[target[d]] # NoRow
        /\ key[d] \in confirmed
        /\ Exists(target[d]) => image[target[d]].key = key[d]
        /\ \A j \in Images \ {target[d]} :
             Exists(j) /\ image[j].key = key[d] => key[d] \in twice
        /\ pc[d] = "object" => ~Exists(target[d])
    BY <2>1 DEF Inv, Removing
  <2>3. pc'[d] = "object" => image'[target[d]] \in {NoRow, Gone}
    BY <1>1, <1>2, <1>3, <2>2 DEF Exists, Inv, TypeOK
  <2>4. image'[target[d]] # NoRow
        /\ (image'[target[d]] \notin {NoRow, Gone} => image'[target[d]].key = key[d])
    BY <1>4, <2>2 DEF Exists
  <2>. QED
    BY <1>1, <1>4, <2>2, <2>3, <2>4 DEF Removing, Exists
<1>13. GalleryInOrder'
  <2>1. SUFFICES ASSUME NEW p \in products, p \notin disturbed',
                        NEW T, T = {i \in Images : Exists(i)' /\ image'[i].product = p}
                 PROVE  {image'[i].position : i \in T} = 0 .. Cardinality(T) - 1
    BY <1>1 DEF GalleryInOrder, ImagesOf
  <2>2. T = ImagesOf(p) /\ p \notin disturbed
    BY <1>5, <1>10, <2>1
  <2>3. \A i \in T : image'[i] = image[i]
    BY <1>4, <2>1
  <2>. QED
    BY <2>2, <2>3 DEF Inv, GalleryInOrder
<1>14. OrphansHaveAReason'
  <2>1. SUFFICES ASSUME NEW k \in bucket \cap confirmed, k \notin lost,
                        \A i \in Images : ~(Exists(i)' /\ image'[i].key = k)
                 PROVE  \E d \in Calls : pc'[d] = "object" /\ key[d] = k
    BY <1>1 DEF OrphansHaveAReason, HasRow
  <2>2. CASE HasRow(k)
    BY <1>1, <1>2, <1>4, <2>1, <2>2 DEF HasRow, Inv, TypeOK
  <2>3. CASE \E d \in Calls : pc[d] = "object" /\ key[d] = k
    BY <1>1, <2>3 DEF Inv, TypeOK
  <2>. QED
    BY <2>1, <2>2, <2>3 DEF Inv, OrphansHaveAReason
<1>. QED
  BY <1>7, <1>8, <1>9, <1>11, <1>12, <1>13, <1>14 DEF Inv

LEMMA RemoveProductStep ==
  ASSUME Inv, NEW p \in Products, RemoveProduct(p)
  PROVE  Inv'
<1>1. /\ products' = products \ {p}
      /\ image' = [i \in Images |-> IF i \in ImagesOf(p) THEN Gone ELSE image[i]]
      /\ lost' = lost \cup {image[i].key : i \in ImagesOf(p)}
      /\ UNCHANGED <<issued, bucket, uploaded, pc, key, target, count,
                     overtaken, disturbed, confirmed, twice>>
  BY DEF RemoveProduct, storage, calls
<1>2. ImagesOf(p) \in SUBSET Images /\ \A i \in ImagesOf(p) : Exists(i)
  BY DEF ImagesOf
<1>3. /\ \A i \in Images : Exists(i)' <=> (Exists(i) /\ i \notin ImagesOf(p))
      /\ \A i \in Images : Exists(i)' => image'[i] = image[i]
      /\ \A i \in Images : image[i] # NoRow => image'[i] # NoRow
      /\ image' \in [Images -> Row \cup {NoRow, Gone}]
  BY <1>1, <1>2, Deletion
<1>4. \A i \in ImagesOf(p) : image[i].key \in confirmed
  BY DEF Inv, RowsAreApart, ImagesOf
<1>5. TypeOK'
  <2>1. \A i \in Images : Exists(i)' =>
          image'[i].product \in products' /\ Prefix[image'[i].key] = image'[i].product
    BY <1>1, <1>3 DEF Inv, TypeOK, ImagesOf
  <2>. QED
    BY <1>1, <1>3, <1>4, <2>1 DEF Inv, TypeOK, StorageTypeOK
<1>6. RowsAreApart' /\ OnlyConfirmedDeleted' /\ ObjectsOutliveRows'
  BY <1>1, <1>3 DEF Inv, RowsAreApart, OnlyConfirmedDeleted, ObjectsOutliveRows
<1>7. \A d \in Calls : Confirming(d)'
  BY <1>1 DEF Inv, Confirming
<1>8. ASSUME NEW q, q # p
      PROVE  {i \in Images : Exists(i)' /\ image'[i].product = q} = ImagesOf(q)
  BY <1>3, <1>8 DEF ImagesOf
<1>9. ASSUME NEW d \in Calls PROVE Counted(d)'
  <2>1. SUFFICES ASSUME pc[d] = "insert", d \notin overtaken, target[d] \in products \ {p}
                 PROVE  count[d] = Cardinality({i \in Images : Exists(i)' /\ image'[i].product = target'[d]})
    BY <1>1 DEF Counted, ImagesOf
  <2>. QED
    BY <1>1, <1>8, <2>1 DEF Inv, Counted
<1>10. ASSUME NEW d \in Calls PROVE Removing(d)'
  <2>1. SUFFICES ASSUME pc[d] \in {"delete", "object"} PROVE Removing(d)'
    BY <1>1 DEF Removing
  <2>2. /\ target[d] \in Images /\ image[target[d]] # NoRow
        /\ key[d] \in confirmed
        /\ Exists(target[d]) => image[target[d]].key = key[d]
        /\ \A j \in Images \ {target[d]} :
             Exists(j) /\ image[j].key = key[d] => key[d] \in twice
        /\ pc[d] = "object" => ~Exists(target[d])
    BY <2>1 DEF Inv, Removing
  <2>3. /\ image'[target[d]] # NoRow
        /\ image'[target[d]] \notin {NoRow, Gone} =>
             image[target[d]] \notin {NoRow, Gone} /\ image'[target[d]].key = key[d]
    BY <1>3, <2>2 DEF Exists
  <2>. QED
    BY <1>1, <1>3, <2>2, <2>3 DEF Removing, Exists
<1>11. GalleryInOrder'
  <2>1. SUFFICES ASSUME NEW q \in products \ {p}, q \notin disturbed,
                        NEW T, T = {i \in Images : Exists(i)' /\ image'[i].product = q}
                 PROVE  {image'[i].position : i \in T} = 0 .. Cardinality(T) - 1
    BY <1>1 DEF GalleryInOrder, ImagesOf
  <2>2. T = ImagesOf(q)
    BY <1>8, <2>1
  <2>3. \A i \in T : image'[i] = image[i]
    BY <1>3, <2>1
  <2>4. {image[i].position : i \in ImagesOf(q)} = 0 .. Cardinality(ImagesOf(q)) - 1
    BY <2>1 DEF Inv, GalleryInOrder
  <2>. QED
    BY <2>2, <2>3, <2>4
<1>12. OrphansHaveAReason'
  <2>1. SUFFICES ASSUME NEW k \in bucket \cap confirmed, k \notin lost',
                        \A i \in Images : ~(Exists(i)' /\ image'[i].key = k)
                 PROVE  \E d \in Calls : pc[d] = "object" /\ key[d] = k
    BY <1>1 DEF OrphansHaveAReason, HasRow
  <2>2. ~HasRow(k) /\ k \notin lost
    BY <1>1, <1>3, <2>1 DEF HasRow
  <2>. QED
    BY <2>1, <2>2 DEF Inv, OrphansHaveAReason
<1>. QED
  BY <1>5, <1>6, <1>7, <1>9, <1>10, <1>11, <1>12 DEF Inv

-----------------------------------------------------------------------------
LEMMA Initially == Init => Inv
<1>. SUFFICES ASSUME Init PROVE Inv
  OBVIOUS
<1>1. \A i \in Images : ~Exists(i)
  BY DEF Init, Exists
<1>2. TypeOK
  BY <1>1 DEF Init, TypeOK, StorageInit, StorageTypeOK, Stages
<1>3. GalleryInOrder
  <2>1. \A p : ImagesOf(p) = {}
    BY <1>1 DEF ImagesOf
  <2>2. Cardinality({}) = 0
    BY FS_EmptySet
  <2>. QED
    BY <2>1, <2>2 DEF GalleryInOrder
<1>4. RowsAreApart /\ OnlyConfirmedDeleted /\ ObjectsOutliveRows /\ OrphansHaveAReason
  BY <1>1 DEF Init, StorageInit, RowsAreApart, OnlyConfirmedDeleted, ObjectsOutliveRows,
       OrphansHaveAReason
<1>5. \A c \in Calls : Confirming(c) /\ Counted(c) /\ Removing(c)
  BY DEF Init, Confirming, Counted, Removing
<1>. QED
  BY <1>2, <1>3, <1>4, <1>5 DEF Inv

LEMMA StutterStep ==
  ASSUME Inv, UNCHANGED vars
  PROVE  Inv'
<1>1. TypeOK'
  BY DEF Inv, TypeOK, StorageTypeOK, Exists, vars, storage, calls, history
<1>2. RowsAreApart' /\ OnlyConfirmedDeleted' /\ GalleryInOrder'
  BY SameGallery, SameRows DEF Inv, vars, storage, history
<1>3. \A d \in Calls : Confirming(d)' /\ Counted(d)' /\ Removing(d)'
  BY DEF Inv, Confirming, Counted, Removing, Exists, ImagesOf, vars, calls, history
<1>4. ObjectsOutliveRows' /\ OrphansHaveAReason'
  BY DEF Inv, ObjectsOutliveRows, OrphansHaveAReason, Exists, HasRow, vars, storage,
       calls, history
<1>. QED
  BY <1>1, <1>2, <1>3, <1>4 DEF Inv

LEMMA Inductive == Inv /\ [Next]_vars => Inv'
<1>. SUFFICES ASSUME Inv, [Next]_vars PROVE Inv'
  OBVIOUS
<1>1. CASE Next
  BY <1>1, PresignStep, PutStep, RemoveProductStep, ConfirmStep, CountStep, InsertStep,
     RefusedStep, RemoveStep, DeleteRowStep, DeleteObjectStep, DieStep DEF Next
<1>2. CASE UNCHANGED vars
  BY <1>2, StutterStep
<1>. QED
  BY <1>1, <1>2

THEOREM Invariance == Spec => []Inv
BY Initially, Inductive, PTL DEF Spec

\* Rows are of products that exist and under keys with their prefix.
THEOREM Types == Spec => []TypeOK
<1>1. Inv => TypeOK
  BY DEF Inv
<1>. QED
  BY <1>1, Invariance, PTL

\* Positions have no gap and no tie before a removal or an overlap.
THEOREM Order == Spec => []GalleryInOrder
<1>1. Inv => GalleryInOrder
  BY DEF Inv
<1>. QED
  BY <1>1, Invariance, PTL

\* No image is shown whose uploaded object has been deleted.
THEOREM NoDeadImages == Spec => []ObjectsOutliveRows
<1>1. Inv => ObjectsOutliveRows
  BY DEF Inv
<1>. QED
  BY <1>1, Invariance, PTL

\* Objects are left behind for the known causes only.
THEOREM OrphansAreExplained == Spec => []OrphansHaveAReason
<1>1. Inv => OrphansHaveAReason
  BY DEF Inv
<1>. QED
  BY <1>1, Invariance, PTL

=============================================================================
