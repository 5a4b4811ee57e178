----------------------------- MODULE MCPetForm -----------------------------
(* The form for TLC, in three studies of one run: names at the limits of     *)
(* their lengths, tags spelt out, and photos with their uploads.  A behaviour *)
(* is one study; the variables of the others stay as they are at first.      *)
EXTENDS PetForm

CONSTANTS Pets, Dead, Slots, MaxPhotos, MaxMoves, MaxPhotoEdits, NoText, NoUpload, NotSeen

VARIABLES study, pet, seen, photos, mounted, urlInput, uploads, own, error, paws,
          moves, photoEdits

\* No white space; kinds that both, or one of the languages trims; and two kinds
\* in the orders that decide where either stops, before the text and after it.
MixedSurrounds ==
  {<< <<>>, <<>> >>, << <<"space">>, <<"bom">> >>, << <<"nel", "bom", "nel">>, <<>> >>,
   << <<"bom", "nel">>, <<>> >>, << <<>>, <<"bom", "nel">> >>}

Tags == INSTANCE PetForm WITH
  Lengths <- {0, 3}, Widths <- {FALSE}, Surrounds <- {<< <<>>, <<>> >>},
  TagLength <- 2, TagCount <- 2, InputLength <- 4, MaxEdits <- 1

Field == INSTANCE PhotoField WITH MaxEdits <- MaxPhotoEdits, edits <- photoEdits

ASSUME FieldAssumption == Field!PhotosAssumption

fieldVars == <<pet, seen, photos, mounted, urlInput, uploads, own, error, paws, moves,
               photoEdits>>

StudyInit ==
  /\ study \in {"texts", "tags", "photos"}
  /\ Init
  /\ Field!Init

StudyNext ==
  \/ study = "texts" /\ Next /\ UNCHANGED <<study, fieldVars>>
  \/ study = "tags" /\ Tags!Next /\ UNCHANGED <<study, fieldVars>>
  \/ study = "photos" /\ Field!Next /\ UNCHANGED <<study, vars>>

StudySpec == StudyInit /\ [][StudyNext]_<<study, vars, fieldVars>>

(***************************************************************************)
(* The properties of the photos, under this module's names for variables.  *)
(***************************************************************************)
\* The variables of the form and of the photos have their types.
FormTypeOK == TypeOK /\ Field!TypeOK

\* The photos of a form are its own pet's, and stay once added, but for what a
\* late upload brings or takes away (PhotoField).
OwnPhotosStay == Field!PetsMixedOnlyByUploads /\ Field!AddedUrlLostOnlyToUploads
=============================================================================
