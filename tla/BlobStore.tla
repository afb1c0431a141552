------------------------------- MODULE BlobStore -------------------------------
(***************************************************************************)
(* The shared file store of uploaded and generated images                  *)
(* (internal/imageasset/store.go, service/upload_cleanup.go,               *)
(* controller/upload.go).  Images with the same content share one blob,    *)
(* named by its hash; every owner has a row of uploaded_images of its own, *)
(* and who deletes a row counts the rows that are left before it erases    *)
(* the blob.  A presigned slot has a key of its own and a row before it    *)
(* has a blob.                                                             *)
(*                                                                         *)
(* Savers and erasers share MediaRetentionMutex for reading only: nothing  *)
(* orders their steps.                                                     *)
(***************************************************************************)
EXTENDS Naturals, FiniteSets

CONSTANTS Contents,  \* keys made of the content
          Slots,     \* keys of presigned slots
          Uploaders, \* a user together with a source
          Savers,    \* requests and tasks that save an image
          Erasers,   \* clean-ups, owners and administrators that delete rows
          MaxUploads \* bound on the rows ever written

ASSUME BlobKeysAssumption == Contents # {} /\ Uploaders # {} /\ Contents \cap Slots = {}
ASSUME BlobBoundAssumption == MaxUploads \in Nat

VARIABLES
  uploads,  \* the rows
  blobs,    \* the keys that have a blob
  saving,   \* savers
  erasing,  \* erasers
  opened,   \* the slots given out
  uploadNo, \* the last row id
  adrift    \* keys whose blob a failed or late step may have left (history)

blobVars == <<uploads, blobs, saving, erasing, opened, uploadNo, adrift>>

BlobKeys == Contents \cup Slots
Uploads == [id : 1 .. MaxUploads, blob : BlobKeys, owner : Uploaders, pending : BOOLEAN]

IdleSaver == [at |-> "idle", blob |-> CHOOSE k \in Contents : TRUE, owner |-> CHOOSE o \in Uploaders : TRUE]
IdleEraser == [at |-> "idle", id |-> 0, blob |-> CHOOSE k \in Contents : TRUE]

BlobTypeOK ==
  /\ uploads \in SUBSET Uploads
  /\ blobs \in SUBSET BlobKeys
  /\ saving \in [Savers -> [at : {"idle", "count", "put", "create", "recover", "slotPut", "mark"},
                            blob : BlobKeys, owner : Uploaders]]
  /\ erasing \in [Erasers -> [at : {"idle", "delete", "reap", "count", "erase"},
                              id : 0 .. MaxUploads, blob : BlobKeys]]
  /\ opened \in SUBSET Slots
  /\ uploadNo \in 0 .. MaxUploads
  /\ adrift \in SUBSET BlobKeys

BlobInit ==
  /\ uploads = {} /\ blobs = {} /\ opened = {} /\ adrift = {} /\ uploadNo = 0
  /\ saving = [s \in Savers |-> IdleSaver]
  /\ erasing = [d \in Erasers |-> IdleEraser]

References(k) == {a \in uploads : a.blob = k}
OwnedBy(o, k) == {a \in References(k) : a.owner = o}
SaverAt(s, l) == saving' = [saving EXCEPT ![s].at = l]
SaverDone(s) == saving' = [saving EXCEPT ![s] = IdleSaver]

AddUpload(k, o, p) ==
  /\ uploadNo < MaxUploads /\ uploadNo' = uploadNo + 1
  /\ uploads' = uploads \cup {[id |-> uploadNo + 1, blob |-> k, owner |-> o, pending |-> p]}

-----------------------------------------------------------------------------
(* save                                                                      *)

\* The owner has the image already: its row is refreshed.  If the row was
\* deleted since, the update finds nothing and the old URL is returned.
SaveLookup(s, k, o) ==
  /\ saving[s].at = "idle"
  /\ OwnedBy(o, k) = {}
  /\ saving' = [saving EXCEPT ![s] = [at |-> "count", blob |-> k, owner |-> o]]
  /\ UNCHANGED <<uploads, blobs, erasing, opened, uploadNo, adrift>>

\* insertImage: the first reference brings the blob.
SaveCount(s) ==
  /\ saving[s].at = "count"
  /\ SaverAt(s, IF References(saving[s].blob) = {} THEN "put" ELSE "create")
  /\ UNCHANGED <<uploads, blobs, erasing, opened, uploadNo, adrift>>

SavePut(s) ==
  /\ saving[s].at = "put"
  /\ \/ blobs' = blobs \cup {saving[s].blob} /\ SaverAt(s, "create")
     \/ SaverAt(s, "recover") /\ UNCHANGED blobs
  /\ UNCHANGED <<uploads, erasing, opened, uploadNo, adrift>>

\* The row: the owner may have another one by now, or the database fails.
SaveCreate(s) ==
  LET k == saving[s].blob  o == saving[s].owner IN
  /\ saving[s].at = "create"
  /\ \/ OwnedBy(o, k) = {} /\ AddUpload(k, o, FALSE) /\ SaverDone(s) /\ UNCHANGED adrift
     \/ /\ SaverAt(s, "recover")
        /\ adrift' = IF OwnedBy(o, k) = {} THEN adrift \cup {k} ELSE adrift
        /\ UNCHANGED <<uploads, uploadNo>>
  /\ UNCHANGED <<blobs, erasing, opened>>

\* The row of a concurrent request is refreshed, or the caller gets the error.
SaveRecover(s) ==
  /\ saving[s].at = "recover"
  /\ SaverDone(s)
  /\ UNCHANGED <<uploads, blobs, erasing, opened, uploadNo, adrift>>

-----------------------------------------------------------------------------
(* Presigned slots                                                           *)

\* handleUploadImageFor
OpenSlot(k, o) ==
  /\ k \notin opened
  /\ opened' = opened \cup {k}
  /\ AddUpload(k, o, TRUE)
  /\ UNCHANGED <<blobs, saving, erasing, adrift>>

\* PutVisionFileByShortID finds the slot pending and young, and reads the body.
SlotCheck(s, k) ==
  /\ saving[s].at = "idle"
  /\ \E a \in References(k) : a.pending
  /\ saving' = [saving EXCEPT ![s] = [IdleSaver EXCEPT !.at = "slotPut", !.blob = k]]
  /\ UNCHANGED <<uploads, blobs, erasing, opened, uploadNo, adrift>>

SlotPut(s) ==
  /\ saving[s].at = "slotPut"
  /\ \/ blobs' = blobs \cup {saving[s].blob} /\ SaverAt(s, "mark")
     \/ SaverDone(s) /\ UNCHANGED blobs
  /\ UNCHANGED <<uploads, erasing, opened, uploadNo, adrift>>

\* MarkUploaded updates the row if it is there and pending.  Only an error of
\* the database takes the blob back.
SlotMark(s) ==
  LET k == saving[s].blob IN
  /\ saving[s].at = "mark"
  /\ \/ /\ uploads' = {[a EXCEPT !.pending = @ /\ a.blob # k] : a \in uploads}
        /\ adrift' = IF References(k) = {} THEN adrift \cup {k} ELSE adrift
        /\ UNCHANGED blobs
     \/ blobs' = blobs \ {k} /\ UNCHANGED <<uploads, adrift>>
     \/ adrift' = adrift \cup {k} /\ UNCHANGED <<uploads, blobs>>
  /\ SaverDone(s)
  /\ UNCHANGED <<erasing, opened, uploadNo>>

-----------------------------------------------------------------------------
(* Deleting                                                                  *)

EraserAt(d, l) == erasing' = [erasing EXCEPT ![d].at = l]
EraserDone(d) == erasing' = [erasing EXCEPT ![d] = IdleEraser]

\* The reaper looks at the age alone (to test the checks).
UploadAbandonedByAge(a) == TRUE

UploadAbandoned(a) == a.pending

\* A row is listed as expired, or as an abandoned slot; an owner or an
\* administrator deletes the row it names.
ListUpload(d, a) ==
  /\ erasing[d].at = "idle"
  /\ \E l \in {"delete"} \cup (IF UploadAbandoned(a) THEN {"reap"} ELSE {}) :
       erasing' = [erasing EXCEPT ![d] = [at |-> l, id |-> a.id, blob |-> a.blob]]
  /\ UNCHANGED <<uploads, blobs, saving, opened, uploadNo, adrift>>

\* The row goes first, by its id.
DeleteUpload(d) ==
  /\ erasing[d].at = "delete"
  /\ uploads' = {a \in uploads : a.id # erasing[d].id}
  /\ EraserAt(d, "count")
  /\ UNCHANGED <<blobs, saving, opened, uploadNo, adrift>>

\* runPendingReapSweep takes it that the slot never got a blob.
ReapSlot(d) ==
  /\ erasing[d].at = "reap"
  /\ uploads' = {a \in uploads : a.id # erasing[d].id}
  /\ adrift' = adrift \cup (blobs \cap Slots \cap {erasing[d].blob})
  /\ EraserDone(d)
  /\ UNCHANGED <<blobs, saving, opened, uploadNo>>

\* CountByKey, or an error of it: the sweep goes on to the next row.
CountReferences(d) ==
  /\ erasing[d].at = "count"
  /\ \/ References(erasing[d].blob) = {} /\ EraserAt(d, "erase") /\ UNCHANGED adrift
     \/ References(erasing[d].blob) # {} /\ EraserDone(d) /\ UNCHANGED adrift
     \/ EraserDone(d) /\ adrift' = adrift \cup {erasing[d].blob}
  /\ UNCHANGED <<uploads, blobs, saving, opened, uploadNo>>

\* The store may fail; nobody tries again.
EraseBlob(d) ==
  /\ erasing[d].at = "erase"
  /\ \/ blobs' = blobs \ {erasing[d].blob} /\ UNCHANGED adrift
     \/ adrift' = adrift \cup {erasing[d].blob} /\ UNCHANGED blobs
  /\ EraserDone(d)
  /\ UNCHANGED <<uploads, saving, opened, uploadNo>>

BlobNext ==
  \/ \E s \in Savers :
       \/ \E k \in Contents, o \in Uploaders : SaveLookup(s, k, o)
       \/ SaveCount(s) \/ SavePut(s) \/ SaveCreate(s) \/ SaveRecover(s)
       \/ \E k \in Slots : SlotCheck(s, k)
       \/ SlotPut(s) \/ SlotMark(s)
  \/ \E k \in Slots, o \in Uploaders : OpenSlot(k, o)
  \/ \E d \in Erasers :
       \/ \E a \in uploads : ListUpload(d, a)
       \/ DeleteUpload(d) \/ ReapSlot(d) \/ CountReferences(d) \/ EraseBlob(d)

BlobSpec == BlobInit /\ [][BlobNext]_blobVars

-----------------------------------------------------------------------------
(* Properties                                                                *)

SavedFor(k) == \E s \in Savers : saving[s].blob = k /\ saving[s].at \in {"create", "mark"}
ErasedFor(k) == \E d \in Erasers : erasing[d].blob = k /\ erasing[d].at \in {"count", "erase"}

\* No interleaving of savers and clean-ups leaves a blob that no row names: its
\* row is on the way, or who deleted the last row is about to erase it, or the
\* database or the store failed for it, or a slow upload met the reaper.
NoOrphanBlob ==
  \A k \in blobs \ adrift : References(k) # {} \/ SavedFor(k) \/ ErasedFor(k)

\* "the blob is only deleted once the last row referencing it is gone"
\* (upload_cleanup.go:54).
LastReferenceErases ==
  [][\A k \in Contents : k \in blobs /\ k \notin blobs' => References(k) = {}]_blobVars
===============================================================================
