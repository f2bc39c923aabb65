----------------------------- MODULE ImageStore -----------------------------
(***************************************************************************)
(* Token images (zec/server/images.ts): stored under the hash of their     *)
(* bytes, written to a temporary file and renamed, under a total cap and a *)
(* daily quota of each account; and the tokens that name them              *)
(* (`POST tokens`, zec/server/app.ts), whose records outlive the store's   *)
(* memory.  The process may stop between the two steps of a write.         *)
(***************************************************************************)
EXTENDS Integers, FiniteSets, FiniteSetsExt

CONSTANTS
  Uploaders, Images,
  BytesOf,         \* the size of each image
  Cap,             \* totalBytes
  Quota,           \* perAccountPerDay
  NoneWritten,     \* nothing is being written
  MaxCrashes       \* bound

ASSUME ImageAssumption ==
  /\ IsFiniteSet(Images) /\ BytesOf \in [Images -> Nat] /\ Cap \in Nat
  /\ NoneWritten \notin [image : Images, by : Uploaders]

VARIABLES
  stored,          \* image files on the disk, whole
  leftover,        \* temporary files on the disk
  used,            \* the store's count of bytes
  uploads,         \* uploads of each account in the last day
  writing,         \* the image being written and by whom
  tokenImages,     \* images that token records name
  crashes

imageVars == <<stored, leftover, used, uploads, writing, tokenImages, crashes>>

SizeOf(images) == SumFunctionOnSet(BytesOf, images)

\* put: the image is new, its account within the quota and the store within
\* its cap.  Its bytes go to a temporary file.
Put(u, image) ==
  /\ writing = NoneWritten
  /\ image \notin stored
  /\ uploads[u] < Quota
  /\ used + BytesOf[image] <= Cap
  /\ leftover' = leftover \cup {image}
  /\ writing' = [image |-> image, by |-> u]
  /\ UNCHANGED <<stored, used, uploads, tokenImages, crashes>>

\* Mutant: the bytes are not counted.
MutCount(image) == used

Count(image) == used + BytesOf[image]

\* The temporary file gets its name, and the upload is counted.
Rename ==
  /\ writing # NoneWritten
  /\ stored' = stored \cup {writing.image}
  /\ leftover' = leftover \ {writing.image}
  /\ used' = Count(writing.image)
  /\ uploads' = [uploads EXCEPT ![writing.by] = @ + 1]
  /\ writing' = NoneWritten
  /\ UNCHANGED <<tokenImages, crashes>>

\* The disk is full: the write throws and leaves the temporary file.
WriteFails ==
  /\ writing # NoneWritten
  /\ writing' = NoneWritten
  /\ UNCHANGED <<stored, leftover, used, uploads, tokenImages, crashes>>

\* A token's image must be one of ours: it is in the store.
CreateToken(image) ==
  /\ writing = NoneWritten
  /\ image \in stored
  /\ tokenImages' = tokenImages \cup {image}
  /\ UNCHANGED <<stored, leftover, used, uploads, writing, crashes>>

ADayPasses(u) ==
  /\ writing = NoneWritten
  /\ uploads[u] > 0
  /\ uploads' = [uploads EXCEPT ![u] = @ - 1]
  /\ UNCHANGED <<stored, leftover, used, writing, tokenImages, crashes>>

\* Mutant: a start counts the temporary files as images.
MutOnDisk == stored \cup leftover

\* The files that a start counts: those with an image's name.
OnDisk == stored

\* The process stops, in the middle of a write or not, and starts again: it
\* counts the images on the disk, and knows of no uploads.
CrashAndStart ==
  /\ crashes < MaxCrashes
  /\ crashes' = crashes + 1
  /\ used' = SizeOf(OnDisk)
  /\ uploads' = [u \in Uploaders |-> 0]
  /\ writing' = NoneWritten
  /\ UNCHANGED <<stored, leftover, tokenImages>>

ImageInit ==
  /\ stored = {} /\ leftover = {} /\ tokenImages = {}
  /\ used = 0 /\ crashes = 0
  /\ uploads = [u \in Uploaders |-> 0]
  /\ writing = NoneWritten

ImageNext ==
  \/ \E u \in Uploaders, image \in Images : Put(u, image)
  \/ Rename
  \/ WriteFails
  \/ \E image \in Images : CreateToken(image)
  \/ \E u \in Uploaders : ADayPasses(u)
  \/ CrashAndStart

ImageSpec == ImageInit /\ [][ImageNext]_imageVars

-----------------------------------------------------------------------------
\* Properties

\* Through failed writes and stops in the middle of one, the store's count is
\* what its images take, they stay under the cap, and the image of every token
\* is there, whole (images.ts: "a reader never sees half a file").  What is
\* left of failed writes is on the disk besides, and not counted.
StoreAddsUp ==
  /\ used = SizeOf(stored)
  /\ used <= Cap
  /\ tokenImages \subseteq stored
=============================================================================
