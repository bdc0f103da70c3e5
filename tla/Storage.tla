------------------------------- MODULE Storage -------------------------------
(***************************************************************************)
(* The bucket (storage/storage.service.ts): browsers upload to presigned   *)
(* URLs and the backend deletes.  The backend never asks what is there.    *)
(***************************************************************************)
CONSTANT Keys  \* object keys; each ends in a random UUID

VARIABLES
  issued,    \* the keys an upload URL was signed for
  bucket,    \* the keys there is an object under
  uploaded   \* history: the keys there has ever been one under

storage == <<issued, bucket, uploaded>>

StorageTypeOK ==
  /\ issued \subseteq Keys
  /\ uploaded \subseteq issued
  /\ bucket \subseteq uploaded

StorageInit == issued = {} /\ bucket = {} /\ uploaded = {}

\* createPresignedUpload, presignAvatar, presignImage: a key nobody has had.
PresignUpload(k) ==
  /\ k \notin issued
  /\ issued' = issued \cup {k}
  /\ UNCHANGED <<bucket, uploaded>>

\* The browser, with the URL: late, several times or never.
PutObject(k) ==
  /\ k \in issued
  /\ bucket' = bucket \cup {k} /\ uploaded' = uploaded \cup {k}
  /\ UNCHANGED issued

\* deleteObject: a failure is logged and swallowed.
Deleted(k) == bucket' = bucket \ {k} /\ UNCHANGED <<issued, uploaded>>
DeletionFailed == UNCHANGED storage
=============================================================================
