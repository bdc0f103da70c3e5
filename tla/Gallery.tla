------------------------------- MODULE Gallery -------------------------------
(***************************************************************************)
(* The images of products (products/product-images.service.ts): rows with  *)
(* a position in their product's gallery and the key of an object in the   *)
(* bucket.  Rows and objects are changed by separate statements of calls   *)
(* that run concurrently and may die between any two.                      *)
(*                                                                         *)
(* All calls are by the seller who owns the product: others get a 404      *)
(* from assertOwnedProduct and change nothing.  A confirmation may name    *)
(* any key with the product's prefix, uploaded or not, and more than once. *)
(***************************************************************************)
EXTENDS Integers, FiniteSets, Storage

CONSTANTS
  Products,
  Images,   \* ids of image rows
  Calls,    \* confirm and remove calls
  Prefix,   \* the product that each key names
  NoRow,    \* no row with this id yet
  Gone,     \* no row with this id any more
  None

Row == [product : Products, key : Keys, position : Nat]

ASSUME GalleryAssumption ==
  /\ IsFiniteSet(Images)
  /\ Prefix \in [Keys -> Products]
  /\ NoRow # Gone /\ Row \cap {NoRow, Gone} = {}
  /\ None \notin Products \cup Keys \cup Images

VARIABLES
  products,  \* the products there are
  image,     \* the table of images
  pc,        \* where the call is
  key,       \* the key it confirms, or deletes
  target,    \* the image it removes
  count,     \* how many images it counted
  \* History, for the properties only.
  overtaken, \* calls whose product's gallery has changed since they counted it
  disturbed, \* products that lost an image or got one by an overtaken call
  confirmed, \* the keys that have been in a row
  twice,     \* the keys that have been in two
  lost       \* the keys whose object nobody will delete, and why is known

calls == <<pc, key, target, count>>
history == <<overtaken, disturbed, confirmed, twice, lost>>
vars == <<storage, products, image, calls, history>>

Stages == {"idle", "count", "insert", "delete", "object"}

Exists(i) == image[i] \notin {NoRow, Gone}
ImagesOf(p) == {i \in Images : Exists(i) /\ image[i].product = p}
HasRow(k) == \E i \in Images : Exists(i) /\ image[i].key = k
Counting(p) == {c \in Calls : pc[c] = "insert" /\ target[c] = p}

-----------------------------------------------------------------------------
Init ==
  /\ StorageInit
  /\ products = Products
  /\ image = [i \in Images |-> NoRow]
  /\ pc = [c \in Calls |-> "idle"] /\ key = [c \in Calls |-> None]
  /\ target = [c \in Calls |-> None] /\ count = [c \in Calls |-> 0]
  /\ overtaken = {} /\ disturbed = {} /\ confirmed = {} /\ twice = {} /\ lost = {}

Presign(k) ==
  /\ Prefix[k] \in products
  /\ PresignUpload(k)
  /\ UNCHANGED <<products, image, calls, history>>

\* An upload that comes after the removal leaves an object.
Put(k) ==
  /\ PutObject(k)
  /\ lost' = IF k \in confirmed /\ ~HasRow(k) THEN lost \cup {k} ELSE lost
  /\ UNCHANGED <<products, image, calls, overtaken, disturbed, confirmed, twice>>

Leave(c) ==
  /\ pc' = [pc EXCEPT ![c] = "idle"]
  /\ key' = [key EXCEPT ![c] = None]
  /\ target' = [target EXCEPT ![c] = None]
  /\ count' = [count EXCEPT ![c] = 0]

\* Fault: any key goes.
ConfirmAnyKey(c, p, k) ==
  /\ pc[c] = "idle" /\ p \in products
  /\ pc' = [pc EXCEPT ![c] = "count"]
  /\ key' = [key EXCEPT ![c] = k] /\ target' = [target EXCEPT ![c] = p]
  /\ UNCHANGED <<storage, products, image, count, history>>

\* confirm: the product is the seller's, and the key begins with it.
Confirm(c, p, k) ==
  /\ pc[c] = "idle" /\ p \in products
  /\ Prefix[k] = p
  /\ pc' = [pc EXCEPT ![c] = "count"]
  /\ key' = [key EXCEPT ![c] = k] /\ target' = [target EXCEPT ![c] = p]
  /\ UNCHANGED <<storage, products, image, count, history>>

\* Fault: the images of all products are counted.
CountEverything(c) ==
  /\ pc[c] = "count"
  /\ pc' = [pc EXCEPT ![c] = "insert"]
  /\ count' = [count EXCEPT ![c] = Cardinality({i \in Images : Exists(i)})]
  /\ UNCHANGED <<storage, products, image, key, target, history>>

\* The position is how many there are now.
Count(c) ==
  /\ pc[c] = "count"
  /\ pc' = [pc EXCEPT ![c] = "insert"]
  /\ count' = [count EXCEPT ![c] = Cardinality(ImagesOf(target[c]))]
  /\ UNCHANGED <<storage, products, image, key, target, history>>

\* The INSERT, which the foreign key or the unique key may refuse.
Insert(c) ==
  /\ pc[c] = "insert"
  /\ \E i \in Images :
       /\ image[i] = NoRow
       /\ target[c] \in products /\ ~HasRow(key[c])
       /\ image' = [image EXCEPT ![i] =
            [product |-> target[c], key |-> key[c], position |-> count[c]]]
  /\ disturbed' = IF c \in overtaken THEN disturbed \cup {target[c]} ELSE disturbed
  /\ overtaken' = (overtaken \cup Counting(target[c])) \ {c}
  /\ confirmed' = confirmed \cup {key[c]}
  /\ twice' = twice \cup ({key[c]} \cap confirmed)
  /\ lost' = lost \ {key[c]}
  /\ Leave(c)
  /\ UNCHANGED <<storage, products>>

Refused(c) ==
  /\ pc[c] = "insert"
  /\ target[c] \notin products \/ HasRow(key[c])
  /\ overtaken' = overtaken \ {c}
  /\ Leave(c)
  /\ UNCHANGED <<storage, products, image, disturbed, confirmed, twice, lost>>

\* remove: the image is found, with its key.
Remove(c, i) ==
  /\ pc[c] = "idle" /\ Exists(i)
  /\ pc' = [pc EXCEPT ![c] = "delete"]
  /\ key' = [key EXCEPT ![c] = image[i].key] /\ target' = [target EXCEPT ![c] = i]
  /\ UNCHANGED <<storage, products, image, count, history>>

\* Fault: the object is deleted first, and its row not at all if the call dies.
DeleteObjectBeforeRow(c) ==
  /\ pc[c] = "delete"
  /\ pc' = [pc EXCEPT ![c] = "object"]
  /\ Deleted(key[c])
  /\ UNCHANGED <<products, image, key, target, count, history>>

\* Fault: the call is over once the row is deleted.
DeleteRowOnly(c) ==
  /\ pc[c] = "delete" /\ Exists(target[c])
  /\ image' = [image EXCEPT ![target[c]] = Gone]
  /\ Leave(c)
  /\ disturbed' = disturbed \cup {image[target[c]].product}
  /\ overtaken' = overtaken \cup Counting(image[target[c]].product)
  /\ UNCHANGED <<storage, products, confirmed, twice, lost>>

\* The DELETE, of no row if another call was faster.
DeleteRow(c) ==
  /\ pc[c] = "delete"
  /\ pc' = [pc EXCEPT ![c] = "object"]
  /\ IF Exists(target[c])
     THEN LET p == image[target[c]].product IN
          /\ image' = [image EXCEPT ![target[c]] = Gone]
          /\ disturbed' = disturbed \cup {p}
          /\ overtaken' = overtaken \cup Counting(p)
     ELSE UNCHANGED <<image, disturbed, overtaken>>
  /\ UNCHANGED <<storage, products, key, target, count, confirmed, twice, lost>>

DeleteObject(c) ==
  /\ pc[c] = "object"
  /\ \/ Deleted(key[c]) /\ UNCHANGED lost
     \/ DeletionFailed /\ lost' = lost \cup {key[c]}
  /\ Leave(c)
  /\ UNCHANGED <<products, image, overtaken, disturbed, confirmed, twice>>

\* ProductsService.remove: the foreign key cascades to the rows, and nothing
\* deletes the objects.
RemoveProduct(p) ==
  /\ p \in products
  /\ products' = products \ {p}
  /\ image' = [i \in Images |-> IF i \in ImagesOf(p) THEN Gone ELSE image[i]]
  /\ lost' = lost \cup {image[i].key : i \in ImagesOf(p)}
  /\ UNCHANGED <<storage, calls, overtaken, disturbed, confirmed, twice>>

\* A statement fails, or the process dies.
Die(c) ==
  /\ pc[c] # "idle"
  /\ lost' = IF pc[c] = "object" THEN lost \cup {key[c]} ELSE lost
  /\ overtaken' = overtaken \ {c}
  /\ Leave(c)
  /\ UNCHANGED <<storage, products, image, disturbed, confirmed, twice>>

Next ==
  \/ \E k \in Keys : Presign(k) \/ Put(k)
  \/ \E p \in Products : RemoveProduct(p)
  \/ \E c \in Calls :
       \/ \E p \in Products, k \in Keys : Confirm(c, p, k)
       \/ Count(c) \/ Insert(c) \/ Refused(c)
       \/ \E i \in Images : Remove(c, i)
       \/ DeleteRow(c) \/ DeleteObject(c) \/ Die(c)

Spec == Init /\ [][Next]_vars

-----------------------------------------------------------------------------
TypeOK ==
  /\ StorageTypeOK
  /\ products \subseteq Products
  /\ image \in [Images -> Row \cup {NoRow, Gone}]
  /\ \A i \in Images : Exists(i) =>
       image[i].product \in products /\ Prefix[image[i].key] = image[i].product
  /\ pc \in [Calls -> Stages] /\ key \in [Calls -> Keys \cup {None}]
  /\ target \in [Calls -> Products \cup Images \cup {None}] /\ count \in [Calls -> Nat]
  /\ overtaken \subseteq {c \in Calls : pc[c] = "insert"}
  /\ disturbed \subseteq Products
  /\ confirmed \subseteq Keys /\ twice \subseteq confirmed /\ lost \subseteq confirmed

\* "Appends it at the next gallery position" (confirm): the images of a product
\* are at 0, 1, 2, ... without gaps or ties, until one is removed or two
\* confirmations overlap.
GalleryInOrder ==
  \A p \in products \ disturbed :
    {image[i].position : i \in ImagesOf(p)} = 0 .. Cardinality(ImagesOf(p)) - 1

\* Whatever fails or dies, the object of an image that is shown has not been
\* deleted, unless its key was confirmed again after an earlier removal.
ObjectsOutliveRows ==
  \A i \in Images :
    Exists(i) /\ image[i].key \in uploaded \ twice => image[i].key \in bucket

\* An object of an image that is no more is about to be deleted, or its deletion
\* failed or died, or its product was deleted, or it was uploaded too late.
OrphansHaveAReason ==
  \A k \in bucket \cap confirmed :
    \/ HasRow(k) \/ k \in lost
    \/ \E c \in Calls : pc[c] = "object" /\ key[c] = k
=============================================================================
