------------------------------- MODULE Gallery -------------------------------
(***************************************************************************)
(* The images of a product: rows in the database, files in the object      *)
(* storage, and the cleanup jobs that keep the two together                *)
(* (product-images.service.ts, product-images.repository.ts, and the       *)
(* resource-cleanup queue).  A row is written after its file is uploaded   *)
(* and removed before its file is; whatever happens in between leaves a    *)
(* file nobody points at, which a cleanup job has to remove.  A file name  *)
(* is a fresh UUID: it is never used twice.                                *)
(***************************************************************************)
EXTENDS Catalogue

CONSTANTS Files, Uploaders, Removers, MaxProductImages, CleanupAttempts, MaxGalleryFaults

ASSUME GalleryAssumption ==
    /\ {MaxProductImages, CleanupAttempts} \subseteq Nat \ {0}
    /\ MaxGalleryFaults \in Nat /\ IsFiniteSet(Files)

VARIABLES storage,       \* the files in the object storage
          uploads,       \* a request that adds images: the files to upload, those uploaded, its next step
          removals,      \* a request that removed rows: the files it has not queued yet
          cleanup,       \* the cleanup jobs: the attempts left for each file, 0 for no job
          unused,        \* file names not drawn yet
          lost,          \* history: files stored unanswered, or whose cleanup was lost or given up
          doubted,       \* history: files whose rows were committed and the answer lost
          galleryFaults  \* crashes, failed calls and lost answers so far

galleryOnly == <<storage, uploads, removals, cleanup, unused, lost, doubted, galleryFaults>>
galleryVars == <<catalogueVars, galleryOnly>>

NoUpload == [pc |-> "idle", left |-> {}, files |-> {}]
InGallery == ToSet(gallery)

GalleryInit ==
    /\ gallery = <<>> /\ storage = {} /\ lost = {} /\ doubted = {} /\ galleryFaults = 0
    /\ uploads = [u \in Uploaders |-> NoUpload]
    /\ removals = [r \in Removers |-> {}]
    /\ cleanup = [f \in Files |-> 0]
    /\ unused = Files

MayFail(n) == galleryFaults' = galleryFaults + n /\ galleryFaults' <= MaxGalleryFaults
NoFault == galleryFaults' = galleryFaults
CatalogueRests == UNCHANGED <<product, storeOpen, optionVars, variants, forms>>
Mutable == product \in {"draft", "published"}

(* Adding a job for each of fs; a call to the queue may fail, which is logged
   and forgotten. *)
Enqueue(fs) ==
    \E failed \in SUBSET fs :
        /\ MayFail(Cardinality(failed))
        /\ cleanup' = [f \in Files |-> IF f \in fs \ failed THEN CleanupAttempts ELSE cleanup[f]]
        /\ lost' = lost \cup failed

(***************************************************************************)
(* Adding images                                                           *)
(***************************************************************************)
CheckMutable(u, n) ==
    /\ uploads[u] = NoUpload /\ Mutable /\ n <= Cardinality(unused)
    /\ LET names == CHOOSE s \in SUBSET unused : Cardinality(s) = n
       IN  /\ uploads' = [uploads EXCEPT ![u] = [pc |-> "upload", left |-> names, files |-> {}]]
           /\ unused' = unused \ names
    /\ CatalogueRests /\ UNCHANGED <<gallery, storage, removals, cleanup, lost, doubted, galleryFaults>>

(* A failed upload of a batch cleans up what was uploaded before it, and not
   the file it failed at, which is stored when only the answer was lost. *)
Upload(u) ==
    /\ uploads[u].pc = "upload"
    /\ LET f == CHOOSE g \in uploads[u].left : TRUE
       IN  \/ /\ NoFault /\ storage' = storage \cup {f} /\ UNCHANGED lost
              /\ uploads' = [uploads EXCEPT ![u] =
                     [pc |-> IF @.left = {f} THEN "insert" ELSE "upload",
                      left |-> @.left \ {f}, files |-> @.files \cup {f}]]
           \/ /\ MayFail(1)
              /\ \/ UNCHANGED <<storage, lost>>
                 \/ storage' = storage \cup {f} /\ lost' = lost \cup {f}
              /\ uploads' = [uploads EXCEPT ![u].pc = "failed"]
    /\ CatalogueRests /\ UNCHANGED <<gallery, removals, cleanup, unused, doubted>>

(* Slip: the rows are inserted and the files cleaned up all the same. *)
AfterInsert(inserted) == "failed"

NextAfterInsert(inserted) == IF inserted THEN "done" ELSE "failed"

(* The rows of all files go in behind the last position, unless the product
   was archived meanwhile or the gallery would overflow.  No answer is an error
   to the service, also when the rows are committed. *)
Insert(u) ==
    LET files == uploads[u].files
        fits == Mutable /\ Len(gallery) + Cardinality(files) <= MaxProductImages
    IN  /\ uploads[u].pc = "insert"
        /\ \/ fits /\ NoFault /\ gallery' = gallery \o SetToSeq(files) /\ UNCHANGED doubted
           \/ /\ fits /\ MayFail(1) /\ gallery' = gallery \o SetToSeq(files)
              /\ doubted' = doubted \cup files
           \/ ~fits /\ NoFault /\ UNCHANGED <<gallery, doubted>>
           \/ MayFail(1) /\ UNCHANGED <<gallery, doubted>>
        /\ uploads' = [uploads EXCEPT ![u].pc = NextAfterInsert(fits /\ NoFault)]
        /\ CatalogueRests /\ UNCHANGED <<storage, removals, cleanup, unused, lost>>

CleanUpFailed(u) ==
    /\ uploads[u].pc = "failed" /\ Enqueue(uploads[u].files)
    /\ uploads' = [uploads EXCEPT ![u] = NoUpload]
    /\ CatalogueRests /\ UNCHANGED <<gallery, storage, removals, unused, doubted>>

Answered(u) ==
    /\ uploads[u].pc = "done" /\ uploads' = [uploads EXCEPT ![u] = NoUpload]
    /\ CatalogueRests /\ UNCHANGED <<gallery, storage, removals, cleanup, unused, lost, doubted, galleryFaults>>

(***************************************************************************)
(* Removing and ordering images                                            *)
(***************************************************************************)
RetainsImage(n) == product = "published" => Len(gallery) > n

(* The rows that stay keep their order. *)
DeleteRows(r) ==
    \E fs \in SUBSET InGallery \ {{}} :
        LET staying == {i \in DOMAIN gallery : gallery[i] \notin fs}
        IN  /\ removals[r] = {} /\ Mutable /\ RetainsImage(Cardinality(fs))
            /\ \E row \in [1 .. Cardinality(staying) -> staying] :
                  /\ \A i, j \in DOMAIN row : i < j => row[i] < row[j]
                  /\ gallery' = [i \in DOMAIN row |-> gallery[row[i]]]
            /\ removals' = [removals EXCEPT ![r] = fs]
            /\ CatalogueRests /\ UNCHANGED <<storage, uploads, cleanup, unused, lost, doubted, galleryFaults>>

CleanUpRemoved(r) ==
    /\ removals[r] # {} /\ Enqueue(removals[r])
    /\ removals' = [removals EXCEPT ![r] = {}]
    /\ CatalogueRests /\ UNCHANGED <<gallery, storage, uploads, unused, doubted>>

Reorder ==
    /\ Mutable /\ Len(gallery) > 1
    /\ gallery' \in {s \in [DOMAIN gallery -> InGallery] : ToSet(s) = InGallery}
    /\ CatalogueRests /\ UNCHANGED galleryOnly

(* The process dies: the requests it served end where they were; a removal
   whose answer is lost ends like this too. *)
GalleryCrash ==
    /\ MayFail(1)
    /\ \/ \E u \in Uploaders :
            /\ uploads[u] # NoUpload
            /\ lost' = lost \cup (uploads[u].files \ InGallery)
            /\ uploads' = [uploads EXCEPT ![u] = NoUpload] /\ UNCHANGED removals
       \/ \E r \in Removers :
            /\ removals[r] # {} /\ lost' = lost \cup removals[r]
            /\ removals' = [removals EXCEPT ![r] = {}] /\ UNCHANGED uploads
    /\ CatalogueRests /\ UNCHANGED <<gallery, storage, cleanup, unused, doubted>>

(* Slip: a failed attempt ends the job. *)
NoRetry(n) == 0

AttemptsAfterFailure(n) == n - 1

CleanUp(f) ==
    /\ cleanup[f] > 0
    /\ CatalogueRests /\ UNCHANGED <<gallery, uploads, removals, unused, doubted>>
    /\ \/ /\ storage' = storage \ {f} /\ cleanup' = [cleanup EXCEPT ![f] = 0]
          /\ NoFault /\ UNCHANGED lost
       \/ /\ MayFail(1) /\ cleanup' = [cleanup EXCEPT ![f] = AttemptsAfterFailure(cleanup[f])]
          /\ lost' = IF cleanup[f] = 1 THEN lost \cup {f} ELSE lost
          /\ storage' \in {storage, storage \ {f}}

GalleryNext ==
    \/ \E u \in Uploaders : \/ Upload(u) \/ Insert(u) \/ CleanUpFailed(u) \/ Answered(u)
                            \/ \E n \in 1 .. 2 : CheckMutable(u, n)
    \/ \E r \in Removers : DeleteRows(r) \/ CleanUpRemoved(r)
    \/ \E f \in Files : CleanUp(f)
    \/ Reorder \/ GalleryCrash
    \/ (TransitionProduct("published") \/ TransitionProduct("draft") \/ Archive \/ StoreCloses)
          /\ UNCHANGED galleryOnly

(* What runs by itself: a request goes on, a worker takes its job. *)
GalleryProgress ==
    \/ \E u \in Uploaders : Upload(u) \/ Insert(u) \/ CleanUpFailed(u) \/ Answered(u)
    \/ \E r \in Removers : CleanUpRemoved(r)
    \/ \E f \in Files : CleanUp(f)

\* The whole product: everything done to its rows, its images and their files.
ProductNext == GalleryNext \/ (CatalogueNext /\ UNCHANGED galleryOnly)

ProductSpec == CatalogueInit /\ GalleryInit /\ [][ProductNext]_galleryVars

(***************************************************************************)
(* Properties                                                              *)
(***************************************************************************)
(* An image row has its file, and no cleanup that is under way, queued or about
   to be queued is aimed at it, but for rows that were committed and whose
   answer was lost: the service cleans up after them as after an error. *)
EveryImageHasItsFile ==
    \A f \in InGallery \ doubted :
          /\ f \in storage
          /\ cleanup[f] = 0
          /\ \A r \in Removers : f \notin removals[r]
          /\ \A u \in Uploaders : uploads[u].pc = "failed" => f \notin uploads[u].files

(* Everything in the storage is an image of the product, but for what a crash,
   a refused job, a cleanup given up after its last attempt or an upload
   without an answer left behind: so it is in the end. *)
NothingIsLeftInStorage == storage \subseteq InGallery \cup lost
=============================================================================
