----------------------------- MODULE PhotoField -----------------------------
(***************************************************************************)
(* The photos of a form (web/src/components/PetFormFields.tsx) on the edit *)
(* page: URLs typed and removed, files uploaded in the background          *)
(* (web/src/lib/photos.ts), refetches of the pet, and their thumbnails     *)
(* (PetImage.tsx).                                                         *)
(*                                                                         *)
(* The list of photos is state of the page, while the text being typed,    *)
(* the upload flag and the thumbnails are state of the fields, which are   *)
(* taken off the screen while a pet loads or an error is shown.  An upload *)
(* captures the list when it begins and goes on without its fields.        *)
(***************************************************************************)
EXTENDS Integers, FiniteSets, SequencesExt

CONSTANTS
  Pets,
  Dead,        \* kinds of photos that do not load
  Slots,       \* uploads that may be under way at once
  MaxPhotos,   \* bound on the photos of a pet
  MaxMoves,    \* bound on the pages opened and answers received
  MaxEdits,    \* bound on the changes the user makes
  NoPet, NoText, NoUpload, NotSeen

Kinds == {"stored", "typed", "file"}

VARIABLES
  pet,        \* the pet of the edit page on screen, or NoPet on other pages
  seen,       \* the pet object the effect last ran with, or NotSeen
  photos,     \* the page's state photoUrls
  mounted,    \* the fields are on screen
  urlInput,   \* the kind of URL typed, or NoText
  uploads,    \* [Slots -> upload or NoUpload]
  own,        \* the slot that isUploading waits for, or NoUpload
  error,      \* uploadError is shown
  paws,       \* positions whose thumbnail has failed
  moves, edits

page == <<pet, seen, photos>>
fields == <<mounted, urlInput, own, error, paws>>
bounds == <<moves, edits>>
vars == <<page, fields, uploads, bounds>>

\* A photo and the pet it was stored, typed or uploaded for.
Photo(p, k) == [of |-> p, kind |-> k]
PhotoLists == BoundedSeq([of : Pets, kind : Kinds], MaxPhotos)

\* What the service may answer for a pet: others change it, photos or not.
Objects(p) == [of : {p}, photoUrls : {<<>>, <<Photo(p, "stored")>>}, version : {1, 2}]

Uploads == [list : PhotoLists, of : Pets]

\* A pet may have a photo, and what stands for none is none.
PhotosAssumption ==
  /\ Dead \subseteq Kinds
  /\ MaxPhotos \in Nat \ {0} /\ MaxMoves \in Nat /\ MaxEdits \in Nat
  /\ NoPet \notin Pets /\ NoUpload \notin Slots /\ NoUpload \notin Uploads
  /\ \A p \in Pets : NotSeen \notin Objects(p)

TypeOK ==
  /\ pet \in Pets \cup {NoPet}
  /\ seen \in (UNION {Objects(p) : p \in Pets}) \cup {NotSeen}
  /\ photos \in PhotoLists
  /\ mounted \in BOOLEAN
  /\ mounted => pet # NoPet /\ seen # NotSeen
  /\ urlInput \in {"typed", NoText}
  /\ uploads \in [Slots -> Uploads \cup {NoUpload}]
  /\ own \in Slots \cup {NoUpload}
  /\ own # NoUpload => mounted /\ uploads[own] # NoUpload
  /\ error \in BOOLEAN
  /\ paws \subseteq DOMAIN photos

Init ==
  /\ pet = NoPet /\ seen = NotSeen /\ photos = <<>>
  /\ mounted = FALSE /\ urlInput = NoText /\ own = NoUpload
  /\ error = FALSE /\ paws = {}
  /\ uploads = [s \in Slots |-> NoUpload]
  /\ moves = 0 /\ edits = 0

(***************************************************************************)
(* The page around the fields.                                             *)
(***************************************************************************)
\* Thumbnails have positions for keys: one that stays keeps its failure,
\* whatever photo it shows by now.
PawsKept == paws \cap DOMAIN photos'

\* The fields are put on the screen, stay there or are taken off.
Mount ==
  /\ mounted' = TRUE
  /\ UNCHANGED <<urlInput, own, error>>
  /\ paws' = PawsKept

Unmount ==
  /\ mounted' = FALSE
  /\ urlInput' = NoText /\ own' = NoUpload /\ error' = FALSE /\ paws' = {}

\* A bug for the checks to find: the effect has no dependencies on the pet.
Filled_Once(object) == IF seen = NotSeen THEN object.photoUrls ELSE photos

\* The effect: another pet object than last time overwrites the photos.
Filled(object) == IF object = seen THEN photos ELSE object.photoUrls

ShowObject(object) == seen' = object /\ photos' = Filled(object)

Move == moves < MaxMoves /\ moves' = moves + 1

\* A link or the history leads to the edit page of another pet, which is
\* cached or has to be loaded.
Open(p) ==
  /\ Move
  /\ p # pet
  /\ pet' = p
  /\ \/ (\E object \in Objects(p) : ShowObject(object)) /\ Mount
     \/ seen' = NotSeen /\ UNCHANGED photos /\ Unmount
  /\ UNCHANGED <<uploads, edits>>

\* Any other page: the form is gone, and what it waited for has no effect.
Leave ==
  /\ Move
  /\ pet # NoPet
  /\ pet' = NoPet /\ seen' = NotSeen /\ photos' = <<>>
  /\ Unmount
  /\ uploads' = [s \in Slots |-> NoUpload]
  /\ UNCHANGED edits

\* The pet is loaded, or fetched again.
Arrive ==
  /\ Move
  /\ pet # NoPet
  /\ \E object \in Objects(pet) : ShowObject(object)
  /\ Mount
  /\ UNCHANGED <<pet, uploads, edits>>

\* A fetch fails: "Pet Not Found" takes the place of the form.
FetchFails ==
  /\ Move
  /\ mounted
  /\ Unmount
  /\ UNCHANGED <<page, uploads, edits>>

(***************************************************************************)
(* The fields.                                                             *)
(***************************************************************************)
Edit == mounted /\ edits < MaxEdits /\ edits' = edits + 1

TypeUrl ==
  /\ mounted
  /\ urlInput = NoText
  /\ urlInput' = "typed"
  /\ UNCHANGED <<page, mounted, own, error, paws, uploads, bounds>>

\* handleAddUrl, by the button or the Enter key.
AddUrl ==
  /\ Edit
  /\ urlInput # NoText
  /\ Len(photos) < MaxPhotos
  /\ photos' = Append(photos, Photo(pet, urlInput))
  /\ urlInput' = NoText
  /\ UNCHANGED <<pet, seen, mounted, own, error, paws, uploads, moves>>

\* handleRemoveUrl: the thumbnails after it show the photo that follows.
RemoveUrl ==
  /\ Edit
  /\ \E i \in DOMAIN photos : photos' = RemoveAt(photos, i)
  /\ paws' = PawsKept
  /\ UNCHANGED <<pet, seen, mounted, urlInput, own, error, uploads, moves>>

\* validatePhoto: size at the limit or above, and one type that is accepted.
Files == [size : {"5MB", "more"}, type : {"image/png", "other"}]
ValidPhoto(file) == file.size # "more" /\ file.type = "image/png"

\* The file input is disabled while the fields wait for an upload.
MayUpload == own = NoUpload

\* handleFileUpload up to its await; a file that is refused ends it at once.
StartUpload ==
  /\ Edit
  /\ MayUpload
  /\ Len(photos) < MaxPhotos
  /\ \E file \in Files :
       IF ValidPhoto(file)
         THEN \E s \in Slots :
                /\ uploads[s] = NoUpload
                /\ uploads' = [uploads EXCEPT ![s] = [list |-> photos, of |-> pet]]
                /\ own' = s
                /\ error' = FALSE
         ELSE error' = TRUE /\ UNCHANGED <<uploads, own>>
  /\ UNCHANGED <<page, mounted, urlInput, paws, moves>>

\* finally: the fields that began the upload may begin another.
Released(s) == IF own = s THEN NoUpload ELSE own

\* The rest of it: the captured list and the new photo.  The simulated
\* upload always ends with some URL.
EndUpload(s) ==
  /\ uploads[s] # NoUpload
  /\ photos' = Append(uploads[s].list, Photo(uploads[s].of, "file"))
  /\ uploads' = [uploads EXCEPT ![s] = NoUpload]
  /\ own' = Released(s)
  /\ paws' = PawsKept
  /\ UNCHANGED <<pet, seen, mounted, urlInput, error, bounds>>

\* onError of a thumbnail: a paw print takes its place.
Failed(i) == paws \cup {i}

ImageFails ==
  /\ mounted
  /\ \E i \in DOMAIN photos \ paws : photos[i].kind \in Dead /\ paws' = Failed(i)
  /\ UNCHANGED <<page, mounted, urlInput, own, error, uploads, bounds>>

Next ==
  \/ (\E p \in Pets : Open(p)) \/ Leave \/ Arrive \/ FetchFails
  \/ TypeUrl \/ AddUrl \/ RemoveUrl \/ StartUpload
  \/ (\E s \in Slots : EndUpload(s)) \/ ImageFails

Spec == Init /\ [][Next]_vars

(***************************************************************************)
(* Properties.                                                             *)
(***************************************************************************)
\* The form of a pet holds only photos of that pet.  When the page moves from
\* one pet to another without being left, only an upload that was begun for
\* the first pet and ends late brings its photos to the second.
Mixed == seen # NotSeen /\ \E i \in DOMAIN photos : photos[i].of # pet
PetsMixedOnlyByUploads ==
  [][Mixed' /\ ~Mixed => \E s \in Slots : uploads[s] # NoUpload /\ uploads'[s] = NoUpload]_vars

Added == Photo(pet, "typed")

\* As long as the page stays with a pet and no new version of it arrives, a
\* URL that was added is taken off the list by the user or by an upload that
\* was begun before it was there, and by nothing else: not by a refetch.
AddedUrlLostOnlyToUploads ==
  [][pet' = pet /\ seen' = seen /\ Added \in Range(photos) /\ Added \notin Range(photos') =>
       \/ RemoveUrl
       \/ \E s \in Slots : EndUpload(s) /\ Added \notin Range(uploads[s].list)]_vars
=============================================================================
