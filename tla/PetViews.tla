------------------------------ MODULE PetViews ------------------------------
(***************************************************************************)
(* What the pages tell about one pet: its row of the list, the details     *)
(* page and the audit box of the edit page (web/src/pages).  The three say *)
(* the same things in different words, and each decides for itself what to *)
(* leave out.                                                              *)
(*                                                                         *)
(* The pet itself is written by the handlers; a page shows some version of *)
(* it that was in the table, so that a property of every stored version    *)
(* is one of everything shown.  Times are seconds, shown to the minute.    *)
(* What is on screen is a tuple of words, <<>> for nothing.                *)
(***************************************************************************)
EXTENDS Integers, Sequences

CONSTANTS
  Users,        \* e-mail addresses of those who write
  Dates,        \* birth dates
  Minute,       \* seconds of a minute
  Epoch,        \* the first second looked at
  MaxClock,     \* bound on the last one
  MaxUpdates,   \* bound on the updates of the pet
  NoPet

\* The value of a string field that is not set.
Empty == ""

ViewsAssumption ==
  /\ Minute \in Nat \ {0} /\ Epoch \in Nat \ {0}
  /\ MaxClock \in Nat /\ Epoch <= MaxClock /\ MaxUpdates \in Nat
  /\ {Empty, "unknown"} \cap Users = {}
  /\ {Empty, "Unknown", "AgeUnknown"} \cap Dates = {}

VARIABLES
  stored,    \* the row of the table, or NoPet
  clock,     \* the clock NOW() reads
  updates    \* how many updates the pet has had
vars == <<stored, clock, updates>>

\* Rows with any contents, and one of these authors and times.
RowsWith(createdAt, createdBy, modifiedAt, modifiedBy) ==
  [birthDate : Dates \cup {Empty}, birthDateEstimated : BOOLEAN, status : 1..3,
   tags : {<<>>, <<"calm">>}, photoUrls : {<<>>, <<"p", "q">>},
   createdAt : createdAt, createdBy : createdBy,
   modifiedAt : modifiedAt, modifiedBy : modifiedBy]

StoredPets == RowsWith(Epoch..MaxClock, Users, Epoch..MaxClock, Users)

(***************************************************************************)
(* Helpers of the pages.                                                   *)
(***************************************************************************)
\* A timestamp of second zero is shown as none.
FormatTimestamp(t) == IF t = 0 THEN <<>> ELSE <<t \div Minute>>

FormatBirthDate(date, estimated) ==
  IF date = Empty THEN <<"Unknown">>
  ELSE IF estimated THEN <<date, "estimated">> ELSE <<date>>

\* calculateAge is the subject of AgeText; here the date stands for the age.
CalculateAge(date) == <<date>>

\* An author that is not known; the handlers always store one.
OrUnknown(author) == IF author = Empty THEN "unknown" ELSE author

StatusName(status) ==
  CASE status = 1 -> "Available" [] status = 2 -> "Pending" [] status = 3 -> "Adopted"
    [] OTHER -> "Unspecified"

AuditLine(author, t) == <<OrUnknown(author)>> \o FormatTimestamp(t)

(***************************************************************************)
(* The list.                                                               *)
(***************************************************************************)
\* A bug for the checks to find: an update by the creator is left out.
UpdatedShown_OtherAuthor(pet) == OrUnknown(pet.modifiedBy) # OrUnknown(pet.createdBy)

\* The line of the last update is left out when it repeats the first line.
UpdatedShown(pet) ==
  /\ OrUnknown(pet.modifiedBy) # "unknown"
  /\ \/ OrUnknown(pet.modifiedBy) # OrUnknown(pet.createdBy)
     \/ FormatTimestamp(pet.modifiedAt) # FormatTimestamp(pet.createdAt)

ListRow(pet) ==
  [photo   |-> IF pet.photoUrls = <<>> THEN <<>> ELSE <<Head(pet.photoUrls)>>,
   status  |-> StatusName(pet.status),
   age     |-> IF pet.birthDate = Empty THEN <<"AgeUnknown">>
               ELSE IF pet.birthDateEstimated THEN CalculateAge(pet.birthDate) \o <<"est">>
               ELSE CalculateAge(pet.birthDate),
   tags    |-> pet.tags,
   created |-> AuditLine(pet.createdBy, pet.createdAt),
   updated |-> IF UpdatedShown(pet) THEN AuditLine(pet.modifiedBy, pet.modifiedAt) ELSE <<>>]

(***************************************************************************)
(* The details page: its head and its two cards.                           *)
(***************************************************************************)
DetailsHead(pet) ==
  [status |-> StatusName(pet.status),
   age    |-> IF pet.birthDate = Empty THEN <<"AgeUnknown">> ELSE CalculateAge(pet.birthDate)]

PetInformation(pet) ==
  [birthDate |-> FormatBirthDate(pet.birthDate, pet.birthDateEstimated),
   age       |-> IF pet.birthDate = Empty THEN <<>> ELSE CalculateAge(pet.birthDate),
   status    |-> StatusName(pet.status),
   tags      |-> IF pet.tags = <<>> THEN <<"NoTags">> ELSE pet.tags,
   photos    |-> IF pet.photoUrls = <<>> THEN <<"NoPhotos">> ELSE pet.photoUrls]

AuditAndIdentity(pet) ==
  [created  |-> AuditLine(pet.createdBy, pet.createdAt),
   modified |-> AuditLine(pet.modifiedBy, pet.modifiedAt)]

(***************************************************************************)
(* The audit box of the edit page.                                         *)
(***************************************************************************)
AuditInformation(pet) ==
  [created  |-> AuditLine(pet.createdBy, pet.createdAt),
   modified |-> IF pet.modifiedBy \in {Empty, "unknown"} THEN <<>>
                ELSE AuditLine(pet.modifiedBy, pet.modifiedAt)]

(***************************************************************************)
(* Steps.                                                                  *)
(***************************************************************************)
Init ==
  /\ stored = NoPet
  /\ clock = Epoch
  /\ updates = 0

Create ==
  /\ stored = NoPet
  /\ \E u \in Users : stored' \in RowsWith({clock}, {u}, {clock}, {u})
  /\ UNCHANGED <<clock, updates>>

\* An UPDATE that waited for a lock stores the time it began, which is after
\* the row's creation but may be before another update's.
Update ==
  /\ stored # NoPet
  /\ updates < MaxUpdates
  /\ updates' = updates + 1
  /\ stored' \in RowsWith({stored.createdAt}, {stored.createdBy},
                         stored.createdAt..clock, Users)
  /\ UNCHANGED clock

Tick ==
  /\ clock < MaxClock
  /\ clock' = clock + 1
  /\ UNCHANGED <<stored, updates>>

Next == Create \/ Update \/ Tick
Spec == Init /\ [][Next]_vars

(***************************************************************************)
(* Properties.                                                             *)
(***************************************************************************)
\* Every variable has its type, and a pet is created before it is modified.
TypeOK ==
  /\ stored # NoPet => stored \in StoredPets /\ stored.createdAt <= stored.modifiedAt
  /\ clock \in Epoch..MaxClock
  /\ updates \in 0..MaxUpdates

\* The list has no "Updated" line for a pet that was never updated, and lacks
\* one for an updated pet only if the last update is of its creator and
\* cannot be told from the creation by the minute.
UpdatedLineTells ==
  stored # NoPet =>
    LET line == ListRow(stored).updated IN
    /\ updates = 0 => line = <<>>
    /\ line = <<>> => /\ stored.modifiedBy = stored.createdBy
                      /\ stored.modifiedAt - stored.createdAt < Minute

\* The pages do not contradict each other about a pet: they show the same
\* status, authors and times, and a date marked as an estimate on one page is
\* not an exact one on another, whatever the form left behind when the date
\* was removed.
PagesAgree ==
  stored # NoPet =>
    LET row == ListRow(stored)
        head == DetailsHead(stored)
        info == PetInformation(stored)
        audit == AuditAndIdentity(stored)
        box == AuditInformation(stored)
    IN  /\ row.status = head.status /\ head.status = info.status
        /\ row.created = audit.created /\ audit = box
        /\ row.updated \in {audit.modified, <<>>}
        /\ row.updated = <<>> => audit.modified = audit.created
        /\ row.age = <<"AgeUnknown">> <=> info.birthDate = <<"Unknown">>
        /\ head.age = <<"AgeUnknown">> <=> info.age = <<>>
        /\ Len(row.age) = Len(info.birthDate)
        /\ row.photo # <<>> => Head(row.photo) = Head(info.photos)
=============================================================================
