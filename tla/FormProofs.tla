----------------------------- MODULE FormProofs -----------------------------
(***************************************************************************)
(* Proofs about the form of a pet: whose photos it holds, what becomes of  *)
(* its tags when they are joined to a line and split again, and what its   *)
(* texts may bring about on their way into the table.                      *)
(***************************************************************************)
EXTENDS MCPetForm, SequenceTheorems, WellFoundedInduction, TLAPS

(***************************************************************************)
(* Photos.  The lists are lists of photos, and the pet object that was     *)
(* shown is of the pet of the page.                                        *)
(***************************************************************************)
\* A photo of some pet.
AnyPhoto == [of : Pets, kind : Field!Kinds]

\* Whose the photos are.
PhotosInv ==
  /\ pet \in Pets \cup {NoPet}
  /\ mounted => pet \in Pets
  /\ photos \in Seq(AnyPhoto)
  /\ seen # NotSeen => pet \in Pets /\ seen \in Field!Objects(pet)
  /\ uploads \in [Slots -> [list : Seq(AnyPhoto), of : Pets] \cup {NoUpload}]
  /\ urlInput \in {"typed", NoText}

\* Adding a photo adds that one alone.
LEMMA AppendKeepsPhotos ==
  ASSUME NEW S, NEW s \in Seq(S), NEW e \in S
  PROVE  /\ Append(s, e) \in Seq(S)
         /\ \A i \in DOMAIN Append(s, e) : Append(s, e)[i] \in Field!Range(s) \cup {e}
         /\ Field!Range(s) \subseteq Field!Range(Append(s, e))
BY AppendProperties DEF Field!Range

\* Taking one off brings none.
LEMMA RemoveKeepsPhotos ==
  ASSUME NEW S, NEW s \in Seq(S), NEW i \in DOMAIN s
  PROVE  /\ Field!RemoveAt(s, i) \in Seq(S)
         /\ \A j \in DOMAIN Field!RemoveAt(s, i) : Field!RemoveAt(s, i)[j] \in Field!Range(s)
<1>1. i \in 1..Len(s) /\ Len(s) \in Nat
  OBVIOUS
<1>2. \A j \in 1..Len(s) : s[j] \in S /\ s[j] \in Field!Range(s)
  BY DEF Field!Range
<1>3. ASSUME NEW T, \A j \in 1..Len(s) : s[j] \in T
      PROVE  Field!RemoveAt(s, i) \in Seq(T)
  <2>1. SubSeq(s, 1, i - 1) \in Seq(T)
    BY <1>1, <1>3, SubSeqProperties
  <2>2. SubSeq(s, i + 1, Len(s)) \in Seq(T)
    BY <1>1, <1>3, SubSeqProperties
  <2>. QED
    BY <2>1, <2>2, ConcatProperties DEF Field!RemoveAt
<1>4. Field!RemoveAt(s, i) \in Seq(S) /\ Field!RemoveAt(s, i) \in Seq(Field!Range(s))
  BY <1>2, <1>3
<1>. HIDE DEF Field!RemoveAt
<1>. QED
  BY <1>4

\* What a pet object puts on the list is that pet's.
LEMMA ObjectsHaveOwnPhotos ==
  ASSUME NEW p \in Pets, NEW object \in Field!Objects(p)
  PROVE  /\ object.photoUrls \in Seq(AnyPhoto) /\ object.of = p
         /\ \A i \in DOMAIN object.photoUrls : object.photoUrls[i].of = p
<1>1. Field!Photo(p, "stored") \in AnyPhoto /\ Field!Photo(p, "stored").of = p
  BY DEF Field!Photo, Field!Kinds, AnyPhoto
<1>2. object.photoUrls \in {<<>>, <<Field!Photo(p, "stored")>>} /\ object.of = p
  BY DEF Field!Objects
<1>3. ASSUME NEW x \in AnyPhoto, x.of = p
      PROVE  /\ <<x>> \in Seq(AnyPhoto) /\ <<>> \in Seq(AnyPhoto)
             /\ \A i \in DOMAIN <<x>> : <<x>>[i].of = p
             /\ DOMAIN <<>> = {}
  BY <1>3
<1>. HIDE DEF AnyPhoto
<1>. QED
  BY <1>1, <1>2, <1>3

\* Every step of the page keeps that.
LEMMA StepPhotos ==
  ASSUME PhotosInv, [Field!Next]_(Field!vars)
  PROVE  PhotosInv'
<1>. USE DEF PhotosInv
<1>1. ASSUME NEW p \in Pets, NEW object \in Field!Objects(p),
             Field!ShowObject(object), pet' = p
      PROVE  /\ photos' \in Seq(AnyPhoto)
             /\ pet' \in Pets /\ seen' \in Field!Objects(pet')
  BY <1>1, ObjectsHaveOwnPhotos DEF Field!ShowObject, Field!Filled
<1>2. ASSUME NEW p \in Pets, Field!Open(p)
      PROVE  PhotosInv'
  <2>1. pet' = p /\ uploads' = uploads
    BY <1>2 DEF Field!Open
  <2>2. CASE (\E object \in Field!Objects(p) : Field!ShowObject(object)) /\ Field!Mount
    BY <1>1, <2>1, <2>2 DEF Field!Mount
  <2>3. CASE seen' = NotSeen /\ UNCHANGED photos /\ Field!Unmount
    BY <2>1, <2>3 DEF Field!Unmount
  <2>. QED
    BY <1>2, <2>2, <2>3 DEF Field!Open
<1>3. CASE Field!Leave
  BY <1>3 DEF Field!Leave, Field!Unmount
<1>4. CASE Field!Arrive
  BY <1>1, <1>4 DEF Field!Arrive, Field!Mount
<1>5. CASE Field!FetchFails
  BY <1>5 DEF Field!FetchFails, Field!Unmount, Field!page
<1>6. CASE Field!TypeUrl
  BY <1>6 DEF Field!TypeUrl, Field!page
<1>7. CASE Field!AddUrl
  <2>1. Field!Photo(pet, urlInput) \in AnyPhoto
    BY <1>7 DEF Field!AddUrl, Field!Edit, Field!Photo, Field!Kinds, AnyPhoto
  <2>2. photos' \in Seq(AnyPhoto)
    BY <1>7, <2>1, AppendKeepsPhotos DEF Field!AddUrl
  <2>. QED
    BY <1>7, <2>2 DEF Field!AddUrl
<1>8. CASE Field!RemoveUrl
  <2>1. photos' \in Seq(AnyPhoto)
    BY <1>8, RemoveKeepsPhotos DEF Field!RemoveUrl
  <2>. QED
    BY <1>8, <2>1 DEF Field!RemoveUrl
<1>9. CASE Field!StartUpload
  <2>1. /\ UNCHANGED <<pet, seen, photos, mounted, urlInput>> /\ pet \in Pets
    BY <1>9 DEF Field!StartUpload, Field!Edit, Field!page
  <2>2. uploads' \in [Slots -> [list : Seq(AnyPhoto), of : Pets] \cup {NoUpload}]
    <3>1. [list |-> photos, of |-> pet] \in [list : Seq(AnyPhoto), of : Pets]
      BY <2>1
    <3>2. \/ uploads' = uploads
          \/ \E s \in Slots : uploads' = [uploads EXCEPT ![s] = [list |-> photos, of |-> pet]]
      BY <1>9 DEF Field!StartUpload
    <3>. QED
      BY <3>1, <3>2
  <2>. QED
    BY <2>1, <2>2
<1>10. ASSUME NEW s \in Slots, Field!EndUpload(s)
       PROVE  PhotosInv'
  <2>1. uploads[s] \in [list : Seq(AnyPhoto), of : Pets]
    BY <1>10 DEF Field!EndUpload
  <2>2. Field!Photo(uploads[s].of, "file") \in AnyPhoto /\ uploads[s].list \in Seq(AnyPhoto)
    BY <2>1 DEF Field!Photo, Field!Kinds, AnyPhoto
  <2>3. photos' \in Seq(AnyPhoto)
    BY <1>10, <2>2, AppendKeepsPhotos DEF Field!EndUpload
  <2>. QED
    BY <1>10, <2>3 DEF Field!EndUpload
<1>11. CASE Field!ImageFails
  BY <1>11 DEF Field!ImageFails, Field!page
<1>12. CASE UNCHANGED Field!vars
  BY <1>12 DEF Field!vars, Field!page, Field!fields
<1>. QED
  BY <1>2, <1>3, <1>4, <1>5, <1>6, <1>7, <1>8, <1>9, <1>10, <1>11, <1>12
  DEF Field!Next

\* A list comes to hold another pet's photo by the end of an upload alone.
LEMMA MixedByUploads ==
  ASSUME PhotosInv, Field!Next, Field!Mixed', ~Field!Mixed
  PROVE  \E s \in Slots : uploads[s] # NoUpload /\ uploads'[s] = NoUpload
<1>. USE DEF PhotosInv
<1>1. seen' # NotSeen /\ \E i \in DOMAIN photos' : photos'[i].of # pet'
  BY DEF Field!Mixed
<1>2. seen # NotSeen => \A x \in Field!Range(photos) : x.of = pet
  BY DEF Field!Mixed, Field!Range
<1>3. ASSUME NEW p \in Pets, NEW object \in Field!Objects(p),
             Field!ShowObject(object), pet' = p
      PROVE  pet' = pet
  <2>1. CASE object = seen
    BY <1>1, <1>3, <2>1, ObjectsHaveOwnPhotos DEF Field!ShowObject
  <2>2. CASE object # seen
    BY <1>1, <1>3, <2>2, ObjectsHaveOwnPhotos DEF Field!ShowObject, Field!Filled
  <2>. QED
    BY <2>1, <2>2
<1>4. ~(pet' = pet /\ seen' = seen /\ photos' = photos)
  BY <1>1, <1>2 DEF Field!Range
<1>5. ASSUME NEW object \in Field!Objects(pet), pet \in Pets,
             Field!ShowObject(object), pet' = pet
      PROVE  FALSE
  <2>1. CASE object = seen
    BY <1>4, <1>5, <2>1 DEF Field!ShowObject, Field!Filled
  <2>2. CASE object # seen
    BY <1>1, <1>5, <2>2, ObjectsHaveOwnPhotos DEF Field!ShowObject, Field!Filled
  <2>. QED
    BY <2>1, <2>2
<1>6. ASSUME NEW p \in Pets
      PROVE  ~Field!Open(p)
  BY <1>1, <1>3 DEF Field!Open
<1>7. ~Field!Leave
  BY <1>1 DEF Field!Leave
<1>8. ~Field!Arrive
  BY <1>5 DEF Field!Arrive
<1>9. ~Field!FetchFails /\ ~Field!TypeUrl /\ ~Field!StartUpload /\ ~Field!ImageFails
  BY <1>4 DEF Field!FetchFails, Field!TypeUrl, Field!StartUpload, Field!ImageFails, Field!page
<1>10. ~Field!AddUrl
  <2>. SUFFICES ASSUME Field!AddUrl PROVE FALSE
    OBVIOUS
  <2> DEFINE added == Field!Photo(pet, urlInput)
  <2>1. /\ photos' = Append(photos, added) /\ pet' = pet /\ seen' = seen /\ pet \in Pets
        /\ added \in AnyPhoto /\ added.of = pet
    BY DEF Field!AddUrl, Field!Edit, Field!Photo, Field!Kinds, AnyPhoto
  <2>. HIDE DEF added
  <2>2. \A i \in DOMAIN photos' : photos'[i] \in Field!Range(photos) \cup {added}
    BY <2>1, AppendKeepsPhotos
  <2>. QED
    BY <1>1, <1>2, <2>1, <2>2
<1>11. ~Field!RemoveUrl
  <2>. SUFFICES ASSUME Field!RemoveUrl PROVE FALSE
    OBVIOUS
  <2>1. /\ \A i \in DOMAIN photos' : photos'[i] \in Field!Range(photos)
        /\ pet' = pet /\ seen' = seen
    BY RemoveKeepsPhotos DEF Field!RemoveUrl
  <2>. QED
    BY <1>1, <1>2, <2>1
<1>12. ASSUME NEW s \in Slots, Field!EndUpload(s)
       PROVE  uploads[s] # NoUpload /\ uploads'[s] = NoUpload
  BY <1>12 DEF Field!EndUpload
<1>. QED
  BY <1>6, <1>7, <1>8, <1>9, <1>10, <1>11, <1>12 DEF Field!Next

\* A URL added goes by the user's hand or the end of an earlier upload alone.
LEMMA AddedStays ==
  ASSUME PhotosInv, Field!Next, pet' = pet, seen' = seen,
         Field!Added \in Field!Range(photos), Field!Added \notin Field!Range(photos')
  PROVE  \/ Field!RemoveUrl
         \/ \E s \in Slots : Field!EndUpload(s) /\ Field!Added \notin Field!Range(uploads[s].list)
<1>. USE DEF PhotosInv
<1>1. photos' # photos
  OBVIOUS
<1>2. ASSUME NEW p \in Pets PROVE ~Field!Open(p)
  BY DEF Field!Open
<1>3. ~Field!Leave
  BY DEF Field!Leave
<1>4. ~Field!Arrive
  BY <1>1 DEF Field!Arrive, Field!ShowObject, Field!Filled
<1>5. ~Field!FetchFails /\ ~Field!TypeUrl /\ ~Field!StartUpload /\ ~Field!ImageFails
  BY <1>1 DEF Field!FetchFails, Field!TypeUrl, Field!StartUpload, Field!ImageFails, Field!page
<1>6. ~Field!AddUrl
  <2>. SUFFICES ASSUME Field!AddUrl PROVE FALSE
    OBVIOUS
  <2>1. /\ photos' = Append(photos, Field!Photo(pet, urlInput))
        /\ Field!Photo(pet, urlInput) \in AnyPhoto
    BY DEF Field!AddUrl, Field!Edit, Field!Photo, Field!Kinds, AnyPhoto
  <2>. QED
    BY <2>1, AppendKeepsPhotos
<1>7. ASSUME NEW s \in Slots, Field!EndUpload(s)
      PROVE  Field!Added \notin Field!Range(uploads[s].list)
  <2>1. uploads[s] \in [list : Seq(AnyPhoto), of : Pets]
    BY <1>7 DEF Field!EndUpload
  <2>2. Field!Photo(uploads[s].of, "file") \in AnyPhoto /\ uploads[s].list \in Seq(AnyPhoto)
    BY <2>1 DEF Field!Photo, Field!Kinds, AnyPhoto
  <2>3. Field!Range(uploads[s].list) \subseteq Field!Range(photos')
    BY <1>7, <2>2, AppendKeepsPhotos DEF Field!EndUpload
  <2>. QED
    BY <2>3
<1>. QED
  BY <1>2, <1>3, <1>4, <1>5, <1>6, <1>7 DEF Field!Next

(***************************************************************************)
(* The fields around the photos.  An upload may begin only below the       *)
(* bound, so that its list has room for the photo it brings.               *)
(***************************************************************************)
\* How the fields stand to the page and the uploads.
FieldsInv ==
  /\ Len(photos) <= MaxPhotos
  /\ \A s \in Slots : uploads[s] # NoUpload => Len(uploads[s].list) < MaxPhotos
  /\ mounted \in BOOLEAN /\ error \in BOOLEAN
  /\ mounted => pet # NoPet /\ seen # NotSeen
  /\ own \in Slots \cup {NoUpload}
  /\ own # NoUpload => mounted /\ uploads[own] # NoUpload
  /\ paws \subseteq DOMAIN photos

\* A list of at most n photos is one of the bounded lists of the model.
LEMMA PhotoListsAre ==
  ASSUME NEW s \in Seq(AnyPhoto), NEW n \in Nat, Len(s) <= n
  PROVE  s \in BoundedSeq(AnyPhoto, n)
<1>1. Len(s) \in 0..n /\ s \in [1..Len(s) -> AnyPhoto]
  OBVIOUS
<1>. QED
  BY <1>1 DEF BoundedSeq, SeqOf

\* An answer of the service has one photo at most.
LEMMA NoneOrOne ==
  ASSUME NEW x, NEW s \in {<<>>, <<x>>}
  PROVE  Len(s) <= 1
<1>1. CASE s = <<>>
  BY <1>1
<1>2. CASE s = <<x>>
  BY <1>2
<1>. QED
  BY <1>1, <1>2

\* Every step keeps the fields in order: an upload that is waited for is under
\* way, and failed thumbnails are of photos on the list.
LEMMA StepFields ==
  ASSUME PhotosInv, PhotosInv', FieldsInv, [Field!Next]_(Field!vars)
  PROVE  FieldsInv'
<1>. USE DEF FieldsInv
<1>0. /\ MaxPhotos \in Nat \ {0} /\ NoPet \notin Pets
      /\ NoUpload \notin Slots /\ NoUpload \notin Field!Uploads
      /\ \A p \in Pets : NotSeen \notin Field!Objects(p)
  BY FieldAssumption DEF Field!PhotosAssumption
<1>1. ASSUME NEW p \in Pets, NEW object \in Field!Objects(p), Field!ShowObject(object)
      PROVE  Len(photos') <= MaxPhotos /\ seen' # NotSeen
  <2>1. Len(object.photoUrls) <= 1
    <3>. DEFINE x == Field!Photo(p, "stored")
    <3>1. object.photoUrls \in {<<>>, <<x>>}
      BY DEF Field!Objects
    <3>. QED
      BY <3>1, NoneOrOne
  <2>. QED
    BY <1>0, <1>1, <2>1 DEF Field!ShowObject, Field!Filled
<1>2. ASSUME NEW p \in Pets, Field!Open(p)
      PROVE  FieldsInv'
  <2>1. pet' = p /\ pet' # NoPet /\ uploads' = uploads
    BY <1>0, <1>2 DEF Field!Open
  <2>2. CASE (\E object \in Field!Objects(p) : Field!ShowObject(object)) /\ Field!Mount
    BY <1>1, <2>1, <2>2 DEF Field!Mount, Field!PawsKept
  <2>3. CASE seen' = NotSeen /\ UNCHANGED photos /\ Field!Unmount
    BY <2>1, <2>3 DEF Field!Unmount
  <2>. QED
    BY <1>2, <2>2, <2>3 DEF Field!Open
<1>3. CASE Field!Leave
  <2>1. /\ photos' = <<>> /\ uploads' = [s \in Slots |-> NoUpload]
        /\ mounted' = FALSE /\ own' = NoUpload /\ error' = FALSE /\ paws' = {}
    BY <1>3 DEF Field!Leave, Field!Unmount
  <2>2. Len(photos') <= MaxPhotos /\ \A s \in Slots : uploads'[s] = NoUpload
    BY <1>0, <2>1
  <2>3. mounted' = FALSE /\ own' = NoUpload /\ error' = FALSE /\ paws' = {}
    BY <2>1
  <2>. QED
    BY <2>2, <2>3
<1>4. CASE Field!Arrive
  <2>1. pet \in Pets /\ pet' = pet /\ uploads' = uploads /\ Field!Mount
        /\ \E object \in Field!Objects(pet) : Field!ShowObject(object)
    BY <1>4 DEF Field!Arrive, PhotosInv
  <2>. QED
    BY <1>0, <1>1, <2>1 DEF Field!Mount, Field!PawsKept
<1>5. CASE Field!FetchFails
  BY <1>5 DEF Field!FetchFails, Field!Unmount, Field!page
<1>6. CASE Field!TypeUrl
  BY <1>6 DEF Field!TypeUrl, Field!page
<1>7. CASE Field!AddUrl
  <2>1. /\ photos' = Append(photos, Field!Photo(pet, urlInput)) /\ Len(photos) < MaxPhotos
        /\ photos \in Seq(AnyPhoto) /\ photos' \in Seq(AnyPhoto)
    BY <1>7 DEF Field!AddUrl, PhotosInv
  <2>2. Len(photos') = Len(photos) + 1 /\ DOMAIN photos \subseteq DOMAIN photos'
    BY <2>1
  <2>. QED
    BY <1>0, <1>7, <2>1, <2>2 DEF Field!AddUrl, Field!Edit
<1>8. CASE Field!RemoveUrl
  <2>1. Len(photos') <= Len(photos)
    <3>1. PICK i \in DOMAIN photos : photos' = Field!RemoveAt(photos, i)
      BY <1>8 DEF Field!RemoveUrl
    <3>2. photos \in Seq(AnyPhoto) /\ i \in 1..Len(photos) /\ Len(photos) \in Nat
      BY DEF PhotosInv
    <3>3. /\ SubSeq(photos, 1, i - 1) \in Seq(AnyPhoto) /\ Len(SubSeq(photos, 1, i - 1)) = i - 1
          /\ SubSeq(photos, i + 1, Len(photos)) \in Seq(AnyPhoto)
          /\ Len(SubSeq(photos, i + 1, Len(photos))) = Len(photos) - i
      <4>1. \A j \in 1..Len(photos) : photos[j] \in AnyPhoto
        BY <3>2
      <4>. QED
        BY <3>2, <4>1, SubSeqProperties
    <3>. QED
      BY <3>1, <3>2, <3>3, ConcatProperties DEF Field!RemoveAt
  <2>2. Len(photos) \in Nat /\ Len(photos') \in Nat
    BY DEF PhotosInv
  <2>. QED
    BY <1>0, <1>8, <2>1, <2>2 DEF Field!RemoveUrl, Field!Edit, Field!PawsKept
<1>9. CASE Field!StartUpload
  <2>1. /\ UNCHANGED <<pet, seen, photos, mounted, urlInput, paws>>
        /\ mounted /\ Len(photos) < MaxPhotos
    BY <1>9 DEF Field!StartUpload, Field!Edit, Field!page
  <2>2. CASE error' = TRUE /\ UNCHANGED <<uploads, own>>
    BY <2>1, <2>2
  <2>3. ASSUME NEW s \in Slots, uploads' = [uploads EXCEPT ![s] = [list |-> photos, of |-> pet]],
               own' = s, error' = FALSE
        PROVE  FieldsInv'
    <3>1. [list |-> photos, of |-> pet] # NoUpload
      <4>1. photos \in BoundedSeq(AnyPhoto, MaxPhotos)
        BY <1>0, PhotoListsAre DEF PhotosInv
      <4>2. pet \in Pets
        BY <2>1 DEF PhotosInv
      <4>3. BoundedSeq(AnyPhoto, MaxPhotos) = Field!PhotoLists
        BY DEF Field!PhotoLists, AnyPhoto, BoundedSeq, SeqOf, Field!BoundedSeq, Field!SeqOf
      <4>. QED
        BY <1>0, <4>1, <4>2, <4>3 DEF Field!Uploads
    <3>2. \A t \in Slots : uploads'[t] = IF t = s THEN [list |-> photos, of |-> pet] ELSE uploads[t]
      BY <2>3 DEF PhotosInv
    <3>3. \A t \in Slots : uploads'[t] # NoUpload => Len(uploads'[t].list) < MaxPhotos
      <4>1. ASSUME NEW t \in Slots, uploads'[t] # NoUpload
            PROVE  Len(uploads'[t].list) < MaxPhotos
        <5>1. CASE t = s
          <6>1. uploads'[t].list = photos
            BY <3>2, <5>1
          <6>. QED
            BY <2>1, <6>1
        <5>2. CASE t # s
          BY <3>2, <4>1, <5>2
        <5>. QED
          BY <5>1, <5>2
      <4>. QED
        BY <4>1
    <3>4. uploads'[s] # NoUpload
      BY <3>1, <3>2
    <3>. QED
      BY <1>0, <2>1, <2>3, <3>3, <3>4
  <2>. QED
    BY <1>9, <2>2, <2>3 DEF Field!StartUpload
<1>10. ASSUME NEW s \in Slots, Field!EndUpload(s)
       PROVE  FieldsInv'
  <2>1. uploads[s] \in [list : Seq(AnyPhoto), of : Pets] /\ Len(uploads[s].list) < MaxPhotos
    BY <1>10 DEF Field!EndUpload, PhotosInv
  <2>2. Len(photos') <= MaxPhotos
    <3>1. Len(photos') = Len(uploads[s].list) + 1
      BY <1>10, <2>1 DEF Field!EndUpload
    <3>2. Len(uploads[s].list) \in Nat
      BY <2>1
    <3>. QED
      BY <1>0, <2>1, <3>1, <3>2
  <2>3. \A t \in Slots : uploads'[t] = IF t = s THEN NoUpload ELSE uploads[t]
    BY <1>10 DEF Field!EndUpload, PhotosInv
  <2>4. UNCHANGED <<pet, seen, mounted, error>> /\ own' = (IF own = s THEN NoUpload ELSE own)
        /\ paws' \subseteq DOMAIN photos'
    BY <1>10 DEF Field!EndUpload, Field!Released, Field!PawsKept
  <2>. QED
    BY <1>0, <2>2, <2>3, <2>4
<1>11. CASE Field!ImageFails
  BY <1>11 DEF Field!ImageFails, Field!page, Field!Failed
<1>12. CASE UNCHANGED Field!vars
  BY <1>12 DEF Field!vars, Field!page, Field!fields
<1>. QED
  BY <1>2, <1>3, <1>4, <1>5, <1>6, <1>7, <1>8, <1>9, <1>10, <1>11, <1>12
  DEF Field!Next

\* Together the two give every variable of the photos its type.
LEMMA FieldTyped ==
  ASSUME PhotosInv, FieldsInv
  PROVE  Field!TypeOK
<1>. USE DEF PhotosInv, FieldsInv
<1>0. MaxPhotos \in Nat \ {0} /\ NoUpload \notin Field!Uploads
  BY FieldAssumption DEF Field!PhotosAssumption
<1>1. \A s \in Seq(AnyPhoto) : Len(s) <= MaxPhotos => s \in Field!PhotoLists
  <2>1. BoundedSeq(AnyPhoto, MaxPhotos) = Field!PhotoLists
    BY DEF Field!PhotoLists, AnyPhoto, BoundedSeq, SeqOf, Field!BoundedSeq, Field!SeqOf
  <2>. QED
    BY <1>0, <2>1, PhotoListsAre
<1>2. photos \in Field!PhotoLists
  BY <1>1
<1>3. uploads \in [Slots -> Field!Uploads \cup {NoUpload}]
  <2>1. ASSUME NEW s \in Slots, uploads[s] # NoUpload PROVE uploads[s] \in Field!Uploads
    <3>1. uploads[s] \in [list : Seq(AnyPhoto), of : Pets] /\ Len(uploads[s].list) < MaxPhotos
      BY <2>1
    <3>2. Len(uploads[s].list) <= MaxPhotos
      BY <1>0, <3>1
    <3>3. uploads[s].list \in Field!PhotoLists
      BY <1>1, <3>1, <3>2
    <3>. QED
      BY <3>1, <3>3 DEF Field!Uploads
  <2>. QED
    BY <2>1
<1>4. seen \in (UNION {Field!Objects(p) : p \in Pets}) \cup {NotSeen}
  OBVIOUS
<1>. QED
  BY <1>2, <1>3, <1>4 DEF Field!TypeOK

\* The photos of a form are its own pet's, and stay once added, but for what a
\* late upload brings or takes away (PetFormFields.tsx:36-57), for any lists
\* of any length and any number of uploads.
THEOREM PhotosAreOwn == Field!Spec => OwnPhotosStay
<1>1. Field!Init => PhotosInv
  BY DEF Field!Init, PhotosInv
<1>2. PhotosInv /\ [Field!Next]_(Field!vars) => PhotosInv'
  BY StepPhotos
<1>3. PhotosInv /\ [Field!Next]_(Field!vars) =>
        [Field!Mixed' /\ ~Field!Mixed =>
           \E s \in Slots : uploads[s] # NoUpload /\ uploads'[s] = NoUpload]_(Field!vars)
  BY MixedByUploads
<1>4. PhotosInv /\ [Field!Next]_(Field!vars) =>
        [pet' = pet /\ seen' = seen /\ Field!Added \in Field!Range(photos)
           /\ Field!Added \notin Field!Range(photos') =>
           \/ Field!RemoveUrl
           \/ \E s \in Slots :
                Field!EndUpload(s) /\ Field!Added \notin Field!Range(uploads[s].list)]_(Field!vars)
  BY AddedStays
<1>. QED
  BY <1>1, <1>2, <1>3, <1>4, PTL
  DEF Field!Spec, OwnPhotosStay, Field!PetsMixedOnlyByUploads, Field!AddedUrlLostOnlyToUploads

(***************************************************************************)
(* Induction: a set of numbers that has 0 and every successor has all.     *)
(***************************************************************************)
\* Some numbers have a least one: their order is well-founded.
LEMMA LeastNumber ==
  ASSUME NEW T \in SUBSET Nat, T # {}
  PROVE  \E m \in T : \A k \in T : m <= k
<1>. DEFINE R == OpToRel(<, Nat)
<1>1. IsWellFoundedOn(R, Nat)
  BY NatLessThanWellFounded, Zenon
<1>2. PICK m \in T : \A k \in T : ~(<<k, m>> \in R)
  <2>. HIDE DEF R
  <2>. QED
    BY <1>1, WFMin, Zenon
<1>3. \A k \in T : ~(k < m)
  BY <1>2 DEF OpToRel
<1>. QED
  BY <1>3

\* Induction over numbers, for a set in place of a predicate.
LEMMA AllNumbers ==
  ASSUME NEW S, 0 \in S, \A n \in Nat : n \in S => n + 1 \in S
  PROVE  \A n \in Nat : n \in S
<1>1. SUFFICES ASSUME Nat \ S # {} PROVE FALSE
  OBVIOUS
<1>2. PICK m \in Nat \ S : \A k \in Nat \ S : m <= k
  BY <1>1, LeastNumber
<1>3. m # 0 /\ m - 1 \in Nat /\ (m - 1) + 1 = m
  BY <1>2
<1>4. m - 1 \in S
  BY <1>2, <1>3
<1>. QED
  BY <1>2, <1>3, <1>4

\* Induction over sequences, the last element first.
LEMMA AllSequences ==
  ASSUME NEW X, NEW S, <<>> \in S, \A s \in Seq(X), e \in X : s \in S => Append(s, e) \in S
  PROVE  \A s \in Seq(X) : s \in S
<1>. DEFINE N == {n \in Nat : \A s \in Seq(X) : Len(s) = n => s \in S}
<1>1. 0 \in N
  OBVIOUS
<1>2. ASSUME NEW n \in Nat, n \in N PROVE n + 1 \in N
  <2>1. SUFFICES ASSUME NEW s \in Seq(X), Len(s) = n + 1 PROVE s \in S
    OBVIOUS
  <2>2. PICK t \in Seq(X), e \in X : s = Append(t, e)
    <3>1. s # <<>>
      BY <2>1
    <3>. QED
      BY <3>1, SequenceEmptyOrAppend
  <2>3. Len(t) = n
    BY <2>1, <2>2
  <2>. QED
    BY <1>2, <2>2, <2>3
<1>3. \A n \in Nat : n \in N
  <2>. HIDE DEF N
  <2>. QED
    BY <1>1, <1>2, AllNumbers
<1>. QED
  BY <1>3

\* Some numbers up to n have a least and a greatest one,
LEMMA MinMax ==
  ASSUME NEW n \in Nat, NEW S \in SUBSET (1..n), S # {}
  PROVE  /\ Min(S) \in S /\ \A i \in S : Min(S) <= i
         /\ Max(S) \in S /\ \A i \in S : i <= Max(S)
<1>1. \E m \in S : \A k \in S : m <= k
  BY LeastNumber
<1>2. \E m \in S : \A k \in S : m >= k
  <2>. DEFINE T == {m \in Nat : \A k \in S : m >= k}
  <2>1. n \in T
    OBVIOUS
  <2>2. PICK m \in T : \A k \in T : m <= k
    BY <2>1, LeastNumber
  <2>3. m # 0
    <3>1. PICK k \in S : k \in 1..n
      OBVIOUS
    <3>. QED
      BY <3>1
  <2>4. m - 1 \notin T
    BY <2>2
  <2>5. PICK k \in S : ~(m - 1 >= k)
    BY <2>3, <2>4
  <2>6. k = m
    BY <2>5
  <2>. QED
    BY <2>6
<1>3. Min(S) \in S /\ \A i \in S : Min(S) <= i
  BY <1>1 DEF Min
<1>4. Max(S) \in S /\ \A i \in S : Max(S) >= i
  BY <1>2 DEF Max
<1>. QED
  BY <1>3, <1>4

\* and any that bound them from within are these.
LEMMA MinMaxAre ==
  ASSUME NEW n \in Nat, NEW S \in SUBSET (1..n), NEW a \in S, NEW b \in S,
         \A i \in S : a <= i /\ i <= b
  PROVE  Min(S) = a /\ Max(S) = b
<1>1. /\ Min(S) \in S /\ \A i \in S : Min(S) <= i
      /\ Max(S) \in S /\ \A i \in S : i <= Max(S)
  BY MinMax
<1>2. /\ Min(S) \in 1..n /\ Max(S) \in 1..n /\ a \in 1..n /\ b \in 1..n
      /\ Min(S) <= a /\ a <= Min(S) /\ b <= Max(S) /\ Max(S) <= b
  BY <1>1
<1>. QED
  BY <1>2

(***************************************************************************)
(* Cutting the ends of sequences.                                          *)
(***************************************************************************)
\* Between which places the cuts are made: the first and the last symbol that
\* is not cut, if there is one.
LEMMA CutPlaces ==
  ASSUME NEW X, NEW s \in Seq(X), NEW cut
  PROVE  \/ /\ \A i \in 1..Len(s) : s[i] \in cut
            /\ CutFront(s, cut) = <<>> /\ CutBack(s, cut) = <<>> /\ CutBoth(s, cut) = <<>>
         \/ \E a, b \in 1..Len(s) :
              /\ a <= b /\ s[a] \notin cut /\ s[b] \notin cut
              /\ \A i \in 1..Len(s) : s[i] \notin cut => a <= i /\ i <= b
              /\ CutFront(s, cut) = SubSeq(s, a, Len(s))
              /\ CutBack(s, cut) = SubSeq(s, 1, b)
              /\ CutBoth(s, cut) = SubSeq(s, a, b)
<1>. DEFINE S == Others(s, cut)
<1>1. DOMAIN s = 1..Len(s) /\ Len(s) \in Nat
  OBVIOUS
<1>2. S \in SUBSET (1..Len(s)) /\ \A i \in 1..Len(s) : i \in S <=> s[i] \notin cut
  BY <1>1 DEF Others
<1>3. CASE S = {}
  BY <1>2, <1>3 DEF CutFront, CutBack, CutBoth
<1>4. CASE S # {}
  <2>1. /\ CutFront(s, cut) = SubSeq(s, Min(S), Len(s))
        /\ CutBack(s, cut) = SubSeq(s, 1, Max(S))
        /\ CutBoth(s, cut) = SubSeq(s, Min(S), Max(S))
    BY <1>4 DEF CutFront, CutBack, CutBoth
  <2>2. /\ Min(S) \in S /\ \A i \in S : Min(S) <= i
        /\ Max(S) \in S /\ \A i \in S : i <= Max(S)
    <3>. HIDE DEF S
    <3>. QED
      BY <1>1, <1>2, <1>4, MinMax
  <2>. HIDE DEF S
  <2>3. PICK a, b \in 1..Len(s) : a = Min(S) /\ b = Max(S)
    BY <1>2, <2>2
  <2>4. /\ a <= b /\ s[a] \notin cut /\ s[b] \notin cut
        /\ \A i \in 1..Len(s) : s[i] \notin cut => a <= i /\ i <= b
    BY <1>2, <2>2, <2>3
  <2>. QED
    BY <2>1, <2>3, <2>4
<1>. QED
  BY <1>3, <1>4

\* A part of a sequence, by its places.
LEMMA PartOf ==
  ASSUME NEW X, NEW s \in Seq(X), NEW a \in 1..Len(s), NEW b \in 1..Len(s), a <= b
  PROVE  /\ SubSeq(s, a, b) \in Seq(X) /\ Len(SubSeq(s, a, b)) = b - a + 1
         /\ SubSeq(s, a, b)[1] = s[a] /\ SubSeq(s, a, b)[b - a + 1] = s[b]
<1>1. a \in Int /\ b \in Int /\ \A i \in a..b : s[i] \in X
  OBVIOUS
<1>2. /\ SubSeq(s, a, b) \in Seq(X) /\ Len(SubSeq(s, a, b)) = b - a + 1
      /\ \A i \in 1..(b - a + 1) : SubSeq(s, a, b)[i] = s[a + i - 1]
  BY <1>1, SubSeqProperties
<1>3. 1 \in 1..(b - a + 1) /\ b - a + 1 \in 1..(b - a + 1) /\ a + 1 - 1 = a
      /\ a + (b - a + 1) - 1 = b
  OBVIOUS
<1>4. SubSeq(s, a, b)[1] = s[a + 1 - 1] /\ SubSeq(s, a, b)[b - a + 1] = s[a + (b - a + 1) - 1]
  BY <1>2, <1>3
<1>. QED
  BY <1>2, <1>3, <1>4

\* What begins, or ends, with a symbol that is not cut.
Begun(s, cut) == s # <<>> => s[1] \notin cut
Ended(s, cut) == s # <<>> => s[Len(s)] \notin cut

\* A cut leaves a part of the sequence with its ends cut.
LEMMA CutsAreCut ==
  ASSUME NEW X, NEW s \in Seq(X), NEW cut
  PROVE  /\ CutFront(s, cut) \in Seq(X) /\ Len(CutFront(s, cut)) \in 0..Len(s)
         /\ CutBack(s, cut) \in Seq(X) /\ Len(CutBack(s, cut)) \in 0..Len(s)
         /\ CutBoth(s, cut) \in Seq(X) /\ Len(CutBoth(s, cut)) \in 0..Len(s)
         /\ Begun(CutFront(s, cut), cut) /\ Ended(CutBack(s, cut), cut)
         /\ Begun(CutBoth(s, cut), cut) /\ Ended(CutBoth(s, cut), cut)
<1>1. CASE CutFront(s, cut) = <<>> /\ CutBack(s, cut) = <<>> /\ CutBoth(s, cut) = <<>>
  BY <1>1 DEF Begun, Ended
<1>2. ASSUME NEW a \in 1..Len(s), NEW b \in 1..Len(s),
             a <= b, s[a] \notin cut, s[b] \notin cut,
             CutFront(s, cut) = SubSeq(s, a, Len(s)), CutBack(s, cut) = SubSeq(s, 1, b),
             CutBoth(s, cut) = SubSeq(s, a, b)
      PROVE  /\ CutFront(s, cut) \in Seq(X) /\ Len(CutFront(s, cut)) \in 0..Len(s)
             /\ CutBack(s, cut) \in Seq(X) /\ Len(CutBack(s, cut)) \in 0..Len(s)
             /\ CutBoth(s, cut) \in Seq(X) /\ Len(CutBoth(s, cut)) \in 0..Len(s)
             /\ Begun(CutFront(s, cut), cut) /\ Ended(CutBack(s, cut), cut)
             /\ Begun(CutBoth(s, cut), cut) /\ Ended(CutBoth(s, cut), cut)
  <2>1. /\ CutFront(s, cut) \in Seq(X) /\ Len(CutFront(s, cut)) = Len(s) - a + 1
        /\ CutFront(s, cut)[1] = s[a]
    BY <1>2, PartOf
  <2>2. /\ CutBack(s, cut) \in Seq(X) /\ Len(CutBack(s, cut)) = b
        /\ CutBack(s, cut)[b] = s[b]
    <3>1. 1 \in 1..Len(s) /\ 1 <= b /\ b - 1 + 1 = b
      OBVIOUS
    <3>. QED
      BY <1>2, <3>1, PartOf
  <2>3. /\ CutBoth(s, cut) \in Seq(X) /\ Len(CutBoth(s, cut)) = b - a + 1
        /\ CutBoth(s, cut)[1] = s[a] /\ CutBoth(s, cut)[b - a + 1] = s[b]
    BY <1>2, PartOf
  <2>. QED
    BY <1>2, <2>1, <2>2, <2>3 DEF Begun, Ended
<1>. QED
  BY <1>1, <1>2, CutPlaces

\* Nothing is left of a sequence that is all cut.
LEMMA CutAll ==
  ASSUME NEW X, NEW s \in Seq(X), NEW cut, \A i \in DOMAIN s : s[i] \in cut
  PROVE  CutFront(s, cut) = <<>> /\ CutBack(s, cut) = <<>> /\ CutBoth(s, cut) = <<>>
BY DEF CutFront, CutBack, CutBoth, Others

\* Ends that are cut stay as they are.
LEMMA CutStays ==
  ASSUME NEW X, NEW s \in Seq(X), NEW cut
  PROVE  /\ Begun(s, cut) => CutFront(s, cut) = s
         /\ Ended(s, cut) => CutBack(s, cut) = s
         /\ Begun(s, cut) /\ Ended(s, cut) => CutBoth(s, cut) = s
<1>1. CASE \A i \in DOMAIN s : s[i] \in cut
  <2>1. Begun(s, cut) \/ Ended(s, cut) => s = <<>>
    BY <1>1 DEF Begun, Ended
  <2>. QED
    BY <1>1, <2>1, CutAll
<1>2. CASE ~(\A i \in DOMAIN s : s[i] \in cut)
  <2>1. Len(s) \in Nat /\ 1 \in 1..Len(s) /\ Len(s) \in 1..Len(s) /\ s # <<>>
        /\ DOMAIN s = 1..Len(s)
    BY <1>2
  <2>2. PICK a \in 1..Len(s), b \in 1..Len(s) :
          /\ \A i \in 1..Len(s) : s[i] \notin cut => a <= i /\ i <= b
          /\ CutFront(s, cut) = SubSeq(s, a, Len(s))
          /\ CutBack(s, cut) = SubSeq(s, 1, b)
          /\ CutBoth(s, cut) = SubSeq(s, a, b)
    <3>1. ~(\A i \in 1..Len(s) : s[i] \in cut)
      BY <1>2
    <3>2. \E a, b \in 1..Len(s) :
            /\ a <= b /\ s[a] \notin cut /\ s[b] \notin cut
            /\ \A i \in 1..Len(s) : s[i] \notin cut => a <= i /\ i <= b
            /\ CutFront(s, cut) = SubSeq(s, a, Len(s))
            /\ CutBack(s, cut) = SubSeq(s, 1, b)
            /\ CutBoth(s, cut) = SubSeq(s, a, b)
      BY <3>1, CutPlaces, Zenon
    <3>. QED
      BY <3>2, Zenon
  <2>3. Begun(s, cut) => a = 1
    BY <2>1, <2>2 DEF Begun
  <2>4. ASSUME Ended(s, cut) PROVE b = Len(s)
    <3>1. s[Len(s)] \notin cut
      BY <2>1, <2>4 DEF Ended
    <3>2. Len(s) <= b /\ b \in 1..Len(s)
      BY <2>1, <2>2, <3>1
    <3>3. ASSUME NEW m \in Nat, NEW k \in 1..m, m <= k PROVE k = m
      BY <3>3
    <3>. QED
      BY <2>1, <3>2, <3>3, Zenon
  <2>5. SubSeq(s, 1, Len(s)) = s
    BY SubSeqFull
  <2>. QED
    BY <2>2, <2>3, <2>4, <2>5
<1>. QED
  BY <1>1, <1>2

(***************************************************************************)
(* Trimming tags.                                                          *)
(***************************************************************************)
\* A tag without white space around it.
Bare(t) == t # <<>> /\ t[1] # "space" /\ t[Len(t)] # "space"

\* What trimming leaves of a tag has no white space around it,
LEMMA TrimTagTrims ==
  ASSUME NEW X, NEW p \in Seq(X), TrimTag(p) # <<>>
  PROVE  Bare(TrimTag(p))
<1>1. Begun(TrimTag(p), {"space"}) /\ Ended(TrimTag(p), {"space"})
  BY CutsAreCut DEF TrimTag
<1>. QED
  BY <1>1 DEF Begun, Ended, Bare

\* is made of its symbols,
LEMMA TrimTagType ==
  ASSUME NEW X, NEW p \in Seq(X)
  PROVE  TrimTag(p) \in Seq(X)
BY CutsAreCut DEF TrimTag

\* and stays as it is when trimmed again, or with a space put before it.
LEMMA TrimmedStays ==
  ASSUME NEW X, "space" \in X, NEW t \in Seq(X), Bare(t)
  PROVE  TrimTag(t) = t /\ TrimTag(<<"space">> \o t) = t
<1>1. TrimTag(t) = t
  <2>1. Begun(t, {"space"}) /\ Ended(t, {"space"})
    BY DEF Bare, Begun, Ended
  <2>. QED
    BY <2>1, CutStays DEF TrimTag
<1>2. TrimTag(<<"space">> \o t) = t
  <2>. DEFINE u == <<"space">> \o t
              n == Len(t) + 1
  <2>0. <<"space">> \in Seq(X) /\ Len(<<"space">>) = 1 /\ Len(t) \in Nat
    OBVIOUS
  <2>1. u \in Seq(X) /\ Len(u) = n /\ u[1] = "space" /\ \A i \in 2..n : u[i] = t[i - 1]
    <3>1. u[1] = "space"
      BY <2>0
    <3>. QED
      BY <2>0, <3>1, ConcatProperties
  <2>2. u[2] = t[1] /\ u[n] = t[Len(t)] /\ n \in Nat /\ n >= 2
    BY <2>0, <2>1 DEF Bare
  <2>. DEFINE inner == Others(u, {"space"})
  <2>3. /\ 2 \in inner /\ n \in inner
        /\ inner \in SUBSET (1..n) /\ \A i \in inner : 2 <= i /\ i <= n
    <3>. HIDE DEF u
    <3>1. DOMAIN u = 1..n
      BY <2>1, LenProperties
    <3>. QED
      BY <2>1, <2>2, <3>1 DEF Bare, Others
  <2>4. Min(inner) = 2 /\ Max(inner) = n
    <3>. HIDE DEF inner
    <3>. QED
      BY <2>2, <2>3, MinMaxAre
  <2>5. TrimTag(u) = SubSeq(u, 2, n)
    <3>. HIDE DEF u
    <3>. QED
      BY <2>3, <2>4 DEF TrimTag, CutBoth
  <2>6. SubSeq(u, 2, n) = SubSeq(t, 2 - 1, n - 1)
    <3>1. /\ 2 \in (Len(<<"space">>) + 1)..(Len(<<"space">>) + Len(t))
          /\ n \in (Len(<<"space">>) + 1)..(Len(<<"space">>) + Len(t))
      BY <2>0, <2>2
    <3>. HIDE DEF n
    <3>2. SubSeq(<<"space">> \o t, 2, n) = SubSeq(t, 2 - Len(<<"space">>), n - Len(<<"space">>))
      BY <2>0, <3>1, SubSeqOfConcat2
    <3>. QED
      BY <2>0, <3>2
  <2>7. 2 - 1 = 1 /\ n - 1 = Len(t)
    BY <2>0
  <2>8. SubSeq(t, 1, Len(t)) = t
    BY SubSeqFull
  <2>9. TrimTag(<<"space">> \o t) = SubSeq(u, 2, n)
    BY <2>5
  <2>. QED
    BY <2>6, <2>7, <2>8, <2>9, Zenon
<1>. QED
  BY <1>1, <1>2

(***************************************************************************)
(* Joining.  FlattenSeq is recursive; what it does to one more sequence.   *)
(***************************************************************************)
\* f is what FlattenSeq folds the first n sequences of ss with.
Flattens(f, ss, n) == f = [i \in 1..n |-> IF i = 1 THEN ss[i] ELSE f[i-1] \o ss[i]]

\* One element of the recursive function.
LEMMA FlattenSteps ==
  ASSUME NEW f, NEW ss, NEW n, Flattens(f, ss, n), NEW i \in 1..n
  PROVE  f[i] = IF i = 1 THEN ss[i] ELSE f[i-1] \o ss[i]
<1>. DEFINE G(h) == [k \in 1..n |-> IF k = 1 THEN ss[k] ELSE h[k-1] \o ss[k]]
<1>1. \A h : G(h)[i] = IF i = 1 THEN ss[i] ELSE h[i-1] \o ss[i]
  OBVIOUS
<1>2. f = G(f)
  BY DEF Flattens
<1>. HIDE DEF G
<1>3. f[i] = G(f)[i]
  BY <1>2
<1>. QED
  BY <1>1, <1>3, Zenon

\* There is such a function for every length.
LEMMA FlattenExists ==
  ASSUME NEW ss
  PROVE \A n \in Nat : \E f : Flattens(f, ss, n)
<1>. DEFINE S == {n \in Nat : \E f : Flattens(f, ss, n)}
<1>1. 0 \in S
  <2>1. Flattens([i \in 1..0 |-> 0], ss, 0)
    BY DEF Flattens
  <2>. QED
    BY <2>1
<1>2. ASSUME NEW n \in Nat, n \in S PROVE n + 1 \in S
  <2>1. PICK f : Flattens(f, ss, n)
    BY <1>2
  <2>. DEFINE g == [i \in 1..(n+1) |->
                      IF i \in 1..n THEN f[i] ELSE IF i = 1 THEN ss[i] ELSE f[i-1] \o ss[i]]
  <2>2. \A i \in 1..n : f[i] = IF i = 1 THEN ss[i] ELSE f[i-1] \o ss[i]
    BY <2>1 DEF Flattens
  <2>3. \A i \in 1..(n+1) : g[i] = IF i = 1 THEN ss[i] ELSE g[i-1] \o ss[i]
    <3>1. TAKE i \in 1..(n+1)
    <3>2. CASE i = 1
      BY <2>2, <3>2
    <3>3. CASE i # 1
      <4>1. i - 1 \in 1..n /\ i - 1 \in 1..(n+1)
        BY <3>3
      <4>2. g[i-1] = f[i-1]
        BY <4>1
      <4>3. g[i] = IF i \in 1..n THEN f[i] ELSE f[i-1] \o ss[i]
        BY <3>3
      <4>4. i \in 1..n => f[i] = f[i-1] \o ss[i]
        BY <2>2, <3>3
      <4>5. g[i] = f[i-1] \o ss[i]
        BY <4>3, <4>4, Zenon
      <4>. HIDE DEF g
      <4>. QED
        BY <3>3, <4>2, <4>5, Zenon
    <3>. QED
      BY <3>2, <3>3
  <2>4. Flattens(g, ss, n+1)
    BY <2>3, Zenon DEF Flattens
  <2>. QED
    BY <2>4
<1>3. \A n \in Nat : n \in S
  <2>. HIDE DEF S
  <2>. QED
    BY <1>1, <1>2, AllNumbers
<1>. QED
  BY <1>3

\* So FlattenSeq is its last element.
LEMMA FlattenUnrolls ==
  ASSUME NEW ss, Len(ss) \in Nat \ {0}
  PROVE  \E f : Flattens(f, ss, Len(ss)) /\ FlattenSeq(ss) = f[Len(ss)]
<1>. DEFINE F == CHOOSE f : f = [i \in 1..Len(ss) |-> IF i = 1 THEN ss[i] ELSE f[i-1] \o ss[i]]
<1>1. F = [i \in 1..Len(ss) |-> IF i = 1 THEN ss[i] ELSE F[i-1] \o ss[i]]
  BY FlattenExists DEF Flattens
<1>2. FlattenSeq(ss) = F[Len(ss)]
  BY DEF FlattenSeq
<1>. QED
  BY <1>1, <1>2 DEF Flattens

\* As far as two lists of sequences agree, so do they flattened.
LEMMA FlattenAgrees ==
  ASSUME NEW m \in Nat, NEW n \in Nat, NEW ss, NEW tt, NEW f, NEW g,
         Flattens(f, ss, m), Flattens(g, tt, n), m <= n,
         \A i \in 1..m : ss[i] = tt[i]
  PROVE  \A i \in 1..m : f[i] = g[i]
<1>. DEFINE S == {k \in Nat : k \in 1..m => f[k] = g[k]}
<1>1. 0 \in S
  OBVIOUS
<1>2. ASSUME NEW k \in Nat, k \in S PROVE k + 1 \in S
  <2>1. SUFFICES ASSUME k + 1 \in 1..m PROVE f[k+1] = g[k+1]
    OBVIOUS
  <2>2. /\ f[k+1] = IF k + 1 = 1 THEN ss[k+1] ELSE f[(k+1)-1] \o ss[k+1]
        /\ g[k+1] = IF k + 1 = 1 THEN tt[k+1] ELSE g[(k+1)-1] \o tt[k+1]
    <3>1. k + 1 \in 1..n
      BY <2>1
    <3>. QED
      BY <2>1, <3>1, FlattenSteps
  <2>3. CASE k = 0
    BY <2>1, <2>2, <2>3
  <2>4. CASE k # 0
    <3>1. f[k] = g[k] /\ (k + 1) - 1 = k /\ k + 1 # 1
      BY <1>2, <2>1, <2>4
    <3>. QED
      BY <2>1, <2>2, <3>1
  <2>. QED
    BY <2>3, <2>4
<1>. HIDE DEF S
<1>3. \A k \in Nat : k \in S
  BY <1>1, <1>2, AllNumbers
<1>. QED
  BY <1>3 DEF S

\* Nothing flattened is nothing,
LEMMA FlattenNone == FlattenSeq(<<>>) = <<>>
BY DEF FlattenSeq

\* one sequence is itself,
LEMMA FlattenOne ==
  ASSUME NEW X, NEW s \in Seq(X)
  PROVE  FlattenSeq(<<s>>) = s
<1>1. Len(<<s>>) = 1
  OBVIOUS
<1>2. PICK f : Flattens(f, <<s>>, 1) /\ FlattenSeq(<<s>>) = f[1]
  <2>1. \E f : Flattens(f, <<s>>, Len(<<s>>)) /\ FlattenSeq(<<s>>) = f[Len(<<s>>)]
    <3>. DEFINE ss == <<s>>
    <3>1. Len(ss) \in Nat \ {0}
      BY <1>1
    <3>. HIDE DEF ss
    <3>2. \E f : Flattens(f, ss, Len(ss)) /\ FlattenSeq(ss) = f[Len(ss)]
      BY <3>1, FlattenUnrolls
    <3>. QED
      BY <3>2 DEF ss
  <2>. QED
    BY <1>1, <2>1, Zenon
<1>3. f[1] = <<s>>[1]
  BY <1>2, FlattenSteps
<1>. QED
  BY <1>2, <1>3

\* and one more sequence goes to the end.
LEMMA FlattenAppend ==
  ASSUME NEW X, NEW ss \in Seq(Seq(X)), NEW s \in Seq(X)
  PROVE  FlattenSeq(Append(ss, s)) = FlattenSeq(ss) \o s
<1>. DEFINE tt == Append(ss, s)
            n == Len(ss)
<1>1. /\ n \in Nat /\ Len(tt) = n + 1 /\ tt[n + 1] = s
      /\ \A i \in 1..n : ss[i] = tt[i]
  BY AppendProperties
<1>2. CASE n = 0
  <2>1. ss = <<>> /\ tt = <<s>>
    BY <1>2
  <2>2. <<>> \o s = s
    BY ConcatEmptySeq
  <2>. QED
    BY <2>1, <2>2, FlattenOne, FlattenNone
<1>3. CASE n # 0
  <2>. HIDE DEF tt
  <2>1. PICK f : Flattens(f, ss, n) /\ FlattenSeq(ss) = f[n]
    BY <1>1, <1>3, FlattenUnrolls
  <2>2. PICK g : Flattens(g, tt, n + 1) /\ FlattenSeq(tt) = g[n + 1]
    <3>1. Len(tt) \in Nat \ {0}
      BY <1>1
    <3>. QED
      BY <1>1, <3>1, FlattenUnrolls
  <2>3. f[n] = g[n]
    <3>1. n + 1 \in Nat /\ n <= n + 1 /\ n \in 1..n
      BY <1>1, <1>3
    <3>2. \A i \in 1..n : f[i] = g[i]
      <4>. HIDE DEF n
      <4>. QED
        BY <1>1, <2>1, <2>2, <3>1, FlattenAgrees
    <3>. QED
      BY <3>1, <3>2
  <2>4. g[n + 1] = IF n + 1 = 1 THEN tt[n + 1] ELSE g[(n + 1) - 1] \o tt[n + 1]
    <3>1. n + 1 \in 1..(n + 1)
      BY <1>1
    <3>. HIDE DEF n
    <3>. QED
      BY <2>2, <3>1, FlattenSteps
  <2>5. (n + 1) - 1 = n /\ n + 1 # 1
    BY <1>1, <1>3
  <2>6. g[n + 1] = g[n] \o s
    BY <1>1, <2>4, <2>5
  <2>7. FlattenSeq(tt) = FlattenSeq(ss) \o s
    BY <2>1, <2>2, <2>3, <2>6
  <2>. QED
    BY <2>7 DEF tt
<1>. QED
  BY <1>2, <1>3

\* What is flattened has the elements of its parts.
LEMMA FlattenType ==
  ASSUME NEW X
  PROVE  \A ss \in Seq(Seq(X)) : FlattenSeq(ss) \in Seq(X)
<1>. DEFINE S == {ss \in Seq(Seq(X)) : FlattenSeq(ss) \in Seq(X)}
<1>1. <<>> \in S
  <2>1. <<>> \in Seq(Seq(X)) /\ <<>> \in Seq(X)
    OBVIOUS
  <2>2. FlattenSeq(<<>>) \in Seq(X)
    BY <2>1, FlattenNone, Zenon
  <2>. QED
    BY <2>1, <2>2, Zenon
<1>2. ASSUME NEW ss \in Seq(Seq(X)), NEW s \in Seq(X), ss \in S
      PROVE  Append(ss, s) \in S
  BY <1>2, FlattenAppend, ConcatProperties, AppendProperties
<1>3. \A ss \in Seq(Seq(X)) : ss \in S
  <2>. HIDE DEF S
  <2>. QED
    BY <1>1, <1>2, AllSequences
<1>. QED
  BY <1>3

(***************************************************************************)
(* Splitting, symbol by symbol.                                            *)
(***************************************************************************)
\* f has the parts of the first i symbols of the text, for each i up to n.
Splits(f, text, n) ==
  f = [i \in 0..n |-> IF i = 0 THEN << <<>> >> ELSE Extended(f[i-1], text[i])]

\* One element of that function, the parts of the text up to there.
LEMMA SplitSteps ==
  ASSUME NEW f, NEW text, NEW n, Splits(f, text, n), NEW i \in 0..n
  PROVE  f[i] = IF i = 0 THEN << <<>> >> ELSE Extended(f[i-1], text[i])
<1>. DEFINE G(h) == [k \in 0..n |-> IF k = 0 THEN << <<>> >> ELSE Extended(h[k-1], text[k])]
<1>1. \A h : G(h)[i] = IF i = 0 THEN << <<>> >> ELSE Extended(h[i-1], text[i])
  OBVIOUS
<1>2. f = G(f)
  BY DEF Splits
<1>. HIDE DEF G
<1>3. f[i] = G(f)[i]
  BY <1>2
<1>. QED
  BY <1>1, <1>3, Zenon

\* There is such a function for every length.
LEMMA SplitExists ==
  ASSUME NEW text
  PROVE  \A n \in Nat : \E f : Splits(f, text, n)
<1>. DEFINE S == {n \in Nat : \E f : Splits(f, text, n)}
<1>1. 0 \in S
  <2>1. Splits([i \in 0..0 |-> << <<>> >>], text, 0)
    BY DEF Splits
  <2>. QED
    BY <2>1
<1>2. ASSUME NEW n \in Nat, n \in S PROVE n + 1 \in S
  <2>1. PICK f : Splits(f, text, n)
    BY <1>2
  <2>. DEFINE g == [i \in 0..(n+1) |-> IF i \in 0..n THEN f[i] ELSE Extended(f[i-1], text[i])]
  <2>2. \A i \in 0..n : f[i] = IF i = 0 THEN << <<>> >> ELSE Extended(f[i-1], text[i])
    BY <2>1, SplitSteps
  <2>3. \A i \in 0..(n+1) : g[i] = IF i = 0 THEN << <<>> >> ELSE Extended(g[i-1], text[i])
    <3>1. TAKE i \in 0..(n+1)
    <3>2. CASE i = 0
      BY <2>2, <3>2
    <3>3. CASE i # 0
      <4>1. i - 1 \in 0..n /\ i - 1 \in 0..(n+1)
        BY <3>3
      <4>2. g[i-1] = f[i-1]
        BY <4>1
      <4>3. g[i] = IF i \in 0..n THEN f[i] ELSE Extended(f[i-1], text[i])
        BY <3>3
      <4>4. i \in 0..n => f[i] = Extended(f[i-1], text[i])
        BY <2>2, <3>3
      <4>5. g[i] = Extended(f[i-1], text[i])
        BY <4>3, <4>4, Zenon
      <4>. HIDE DEF g
      <4>. QED
        BY <3>3, <4>2, <4>5, Zenon
    <3>. QED
      BY <3>2, <3>3
  <2>4. Splits(g, text, n+1)
    BY <2>3, Zenon DEF Splits
  <2>. QED
    BY <2>4
<1>3. \A n \in Nat : n \in S
  <2>. HIDE DEF S
  <2>. QED
    BY <1>1, <1>2, AllNumbers
<1>. QED
  BY <1>3

\* So Parts is its last element.
LEMMA PartsUnroll ==
  ASSUME NEW text, Len(text) \in Nat
  PROVE  \E f : Splits(f, text, Len(text)) /\ Parts(text) = f[Len(text)]
<1>. DEFINE F == CHOOSE f : f = [i \in 0..Len(text) |->
                                  IF i = 0 THEN << <<>> >> ELSE Extended(f[i-1], text[i])]
<1>1. F = [i \in 0..Len(text) |-> IF i = 0 THEN << <<>> >> ELSE Extended(F[i-1], text[i])]
  BY SplitExists DEF Splits
<1>2. Parts(text) = F[Len(text)]
  BY DEF Parts
<1>. QED
  BY <1>1, <1>2 DEF Splits

\* The parts of a text depend on nothing after it.
LEMMA SplitAgrees ==
  ASSUME NEW m \in Nat, NEW n \in Nat, NEW s, NEW t, NEW f, NEW g,
         Splits(f, s, m), Splits(g, t, n), m <= n, \A i \in 1..m : s[i] = t[i]
  PROVE  \A i \in 0..m : f[i] = g[i]
<1>. DEFINE S == {k \in Nat : k \in 0..m => f[k] = g[k]}
<1>1. 0 \in S
  BY SplitSteps
<1>2. ASSUME NEW k \in Nat, k \in S PROVE k + 1 \in S
  <2>1. SUFFICES ASSUME k + 1 \in 0..m PROVE f[k+1] = g[k+1]
    OBVIOUS
  <2>2. k + 1 \in 1..m /\ k + 1 \in 0..n /\ (k + 1) - 1 = k /\ k + 1 # 0 /\ f[k] = g[k]
    BY <1>2, <2>1
  <2>3. f[k+1] = Extended(f[(k+1)-1], s[k+1]) /\ g[k+1] = Extended(g[(k+1)-1], t[k+1])
    BY <2>1, <2>2, SplitSteps
  <2>. QED
    BY <2>2, <2>3
<1>. HIDE DEF S
<1>3. \A k \in Nat : k \in S
  BY <1>1, <1>2, AllNumbers
<1>. QED
  BY <1>3 DEF S

\* An empty text has one empty part.
LEMMA PartsOfNone == Parts(<<>>) = << <<>> >>
<1>. DEFINE text == <<>>
<1>1. Len(text) = 0
  OBVIOUS
<1>. HIDE DEF text
<1>2. PICK f : Splits(f, text, 0) /\ Parts(text) = f[0]
  BY <1>1, PartsUnroll
<1>3. f[0] = << <<>> >>
  BY <1>2, SplitSteps
<1>. QED
  BY <1>2, <1>3 DEF text

\* One more symbol extends the parts.
LEMMA PartsAppend ==
  ASSUME NEW X, NEW s \in Seq(X), NEW x \in X
  PROVE  Parts(Append(s, x)) = Extended(Parts(s), x)
<1>. DEFINE t == Append(s, x)
            n == Len(s)
<1>1. /\ n \in Nat /\ Len(t) = n + 1 /\ t[n + 1] = x
      /\ \A i \in 1..n : s[i] = t[i]
  BY AppendProperties
<1>. HIDE DEF t
<1>2. PICK f : Splits(f, s, n) /\ Parts(s) = f[n]
  BY <1>1, PartsUnroll
<1>3. PICK g : Splits(g, t, n + 1) /\ Parts(t) = g[n + 1]
  <2>1. Len(t) \in Nat
    BY <1>1
  <2>. QED
    BY <1>1, <2>1, PartsUnroll
<1>. HIDE DEF n
<1>4. /\ n + 1 \in Nat /\ n <= n + 1 /\ n \in 0..n /\ n + 1 \in 0..(n + 1)
      /\ n + 1 # 0 /\ (n + 1) - 1 = n
  BY <1>1
<1>5. f[n] = g[n]
  BY <1>1, <1>2, <1>3, <1>4, SplitAgrees
<1>6. g[n + 1] = Extended(g[(n + 1) - 1], t[n + 1])
  BY <1>3, <1>4, SplitSteps
<1>7. Parts(t) = Extended(Parts(s), x)
  BY <1>1, <1>2, <1>3, <1>4, <1>5, <1>6
<1>. QED
  BY <1>7 DEF t

(***************************************************************************)
(* Tags there and back.                                                    *)
(***************************************************************************)
\* What a part of the line is made of.
Plainly == Symbols \ {"comma"}

\* The tags that the line can tell apart.
Spelled == {t \in Seq(Plainly) : Bare(t)}

\* A symbol other than a comma goes to the end of the last part.
LEMMA ExtendedLast ==
  ASSUME NEW X, NEW ps \in Seq(Seq(X)), NEW t \in Seq(X), NEW e \in X, e # "comma"
  PROVE  Extended(Append(ps, t), e) = Append(ps, Append(t, e))
<1>. DEFINE n == Len(ps) + 1
            qs == Append(ps, t)
            rs == Append(ps, Append(t, e))
            us == [qs EXCEPT ![n] = Append(t, e)]
<1>1. Append(t, e) \in Seq(X)
  BY AppendProperties
<1>2. /\ Len(ps) \in Nat /\ qs \in Seq(Seq(X)) /\ Len(qs) = n /\ qs[n] = t
      /\ rs \in Seq(Seq(X)) /\ Len(rs) = n /\ rs[n] = Append(t, e)
      /\ \A i \in 1..Len(ps) : qs[i] = ps[i] /\ rs[i] = ps[i]
  <2>. DEFINE u == Append(t, e)
  <2>1. u \in Seq(X)
    BY <1>1
  <2>. HIDE DEF u
  <2>2. Append(ps, u) \in Seq(Seq(X)) /\ Len(Append(ps, u)) = n /\ Append(ps, u)[n] = u
        /\ \A i \in 1..Len(ps) : Append(ps, u)[i] = ps[i]
    BY <2>1, AppendProperties
  <2>. QED
    BY <2>2, AppendProperties DEF u
<1>3. Extended(qs, e) = us
  BY <1>2 DEF Extended
<1>4. /\ us \in Seq(Seq(X)) /\ Len(us) = n
      /\ \A i \in 1..n : us[i] = IF i = n THEN Append(t, e) ELSE qs[i]
  <2>1. n \in 1..Len(qs)
    BY <1>2
  <2>. HIDE DEF qs, n
  <2>. QED
    BY <1>1, <1>2, <2>1, ExceptSeq
<1>5. \A i \in 1..n : us[i] = rs[i]
  <2>1. \A i \in 1..n : i = n \/ i \in 1..Len(ps)
    BY <1>2
  <2>. HIDE DEF qs, rs, us
  <2>. QED
    BY <1>2, <1>4, <2>1
<1>6. us = rs
  <2>. HIDE DEF us, rs, n, qs
  <2>. QED
    BY <1>2, <1>4, <1>5, SeqEqual
<1>. QED
  BY <1>3, <1>6

\* The parts of a text have no commas, and there is always one.
LEMMA PartsType ==
  ASSUME NEW text \in Seq(Symbols)
  PROVE  Parts(text) \in Seq(Seq(Plainly)) /\ Parts(text) # <<>>
<1>. DEFINE S == {s \in Seq(Symbols) : Parts(s) \in Seq(Seq(Plainly)) /\ Parts(s) # <<>>}
<1>1. <<>> \in S
  <2>1. <<>> \in Seq(Symbols) /\ <<>> \in Seq(Plainly)
    OBVIOUS
  <2>2. << <<>> >> \in Seq(Seq(Plainly)) /\ << <<>> >> # <<>>
    BY <2>1
  <2>3. Parts(<<>>) \in Seq(Seq(Plainly)) /\ Parts(<<>>) # <<>>
    BY <2>2, PartsOfNone, Zenon
  <2>. QED
    BY <2>1, <2>3, Zenon
<1>2. ASSUME NEW s \in Seq(Symbols), NEW x \in Symbols, s \in S
      PROVE  Append(s, x) \in S
  <2>. SUFFICES Parts(Append(s, x)) \in Seq(Seq(Plainly)) /\ Parts(Append(s, x)) # <<>>
    <3>1. Append(s, x) \in Seq(Symbols)
      BY AppendProperties
    <3>. QED
      BY <3>1, Zenon
  <2>1. Parts(Append(s, x)) = Extended(Parts(s), x)
    BY PartsAppend
  <2>2. CASE x = "comma"
    <3>1. Extended(Parts(s), x) = Append(Parts(s), <<>>)
      BY <2>2 DEF Extended
    <3>2. <<>> \in Seq(Plainly)
      OBVIOUS
    <3>3. Parts(s) \in Seq(Seq(Plainly))
      BY <1>2, Zenon
    <3>. DEFINE q == Parts(s)
                e0 == <<>>
    <3>. HIDE DEF q, e0
    <3>4. Append(q, e0) \in Seq(Seq(Plainly)) /\ Append(q, e0) # <<>>
      <4>1. q \in Seq(Seq(Plainly)) /\ e0 \in Seq(Plainly)
        BY <3>2, <3>3 DEF q, e0
      <4>. QED
        BY <4>1, AppendProperties
    <3>. QED
      BY <2>1, <3>1, <3>4, Zenon DEF q, e0
  <2>3. CASE x # "comma"
    <3>1. PICK ps \in Seq(Seq(Plainly)), t \in Seq(Plainly) : Parts(s) = Append(ps, t)
      BY <1>2, SequenceEmptyOrAppend
    <3>2. x \in Plainly
      BY <2>3 DEF Plainly
    <3>3. Parts(Append(s, x)) = Append(ps, Append(t, x))
      BY <2>1, <2>3, <3>1, <3>2, ExtendedLast
    <3>4. Append(t, x) \in Seq(Plainly)
      BY <3>2, AppendProperties
    <3>5. Append(ps, Append(t, x)) \in Seq(Seq(Plainly)) /\ Append(ps, Append(t, x)) # <<>>
      <4>. DEFINE u == Append(t, x)
      <4>1. u \in Seq(Plainly)
        BY <3>4
      <4>. HIDE DEF u
      <4>. DEFINE Y == Seq(Plainly)
      <4>2. ps \in Seq(Y) /\ u \in Y
        BY <4>1
      <4>. HIDE DEF Y
      <4>3. Append(ps, u) \in Seq(Y) /\ Append(ps, u) # <<>>
        BY <4>2, AppendProperties
      <4>. QED
        BY <4>3 DEF u, Y
    <3>. QED
      BY <3>3, <3>5, Zenon
  <2>. QED
    BY <2>2, <2>3
<1>3. \A s \in Seq(Symbols) : s \in S
  <2>. HIDE DEF S
  <2>. QED
    BY <1>1, <1>2, AllSequences
<1>. QED
  BY <1>3

\* A comma and what follows it up to the next are one more part.
LEMMA CommasSplit ==
  ASSUME NEW s \in Seq(Symbols), NEW t \in Seq(Plainly)
  PROVE  Parts(Append(s, "comma") \o t) = Append(Parts(s), t)
<1>. DEFINE r == Append(s, "comma")
            S == {u \in Seq(Plainly) : Parts(r \o u) = Append(Parts(s), u)}
<1>0. "comma" \in Symbols /\ Plainly \subseteq Symbols /\ r \in Seq(Symbols)
  <2>1. "comma" \in Symbols /\ Plainly \subseteq Symbols
    BY DEF Symbols, Plainly
  <2>. QED
    BY <2>1, AppendProperties
<1>00. Parts(s) \in Seq(Seq(Symbols))
  <2>1. Seq(Plainly) \subseteq Seq(Symbols)
    BY <1>0, SeqMonotonic
  <2>2. Parts(s) \in Seq(Seq(Plainly))
    BY PartsType
  <2>. QED
    BY <2>1, <2>2, SeqMonotonic
<1>1. <<>> \in S
  <2>1. r \o <<>> = r
    <3>. HIDE DEF r
    <3>. QED
      BY <1>0, ConcatEmptySeq
  <2>2. Parts(r) = Append(Parts(s), <<>>)
    BY <1>0, PartsAppend DEF Extended
  <2>. QED
    BY <2>1, <2>2
<1>2. ASSUME NEW u \in Seq(Plainly), NEW x \in Plainly, u \in S
      PROVE  Append(u, x) \in S
  <2>. HIDE DEF r
  <2>1. u \in Seq(Symbols) /\ x \in Symbols /\ x # "comma"
    BY <1>0, SeqMonotonic DEF Plainly
  <2>2. r \o Append(u, x) = Append(r \o u, x)
    BY <1>0, <2>1
  <2>3. r \o u \in Seq(Symbols)
    BY <1>0, <2>1, ConcatProperties
  <2>4. Parts(Append(r \o u, x)) = Extended(Parts(r \o u), x)
    BY <2>1, <2>3, PartsAppend
  <2>5. Extended(Append(Parts(s), u), x) = Append(Parts(s), Append(u, x))
    BY <1>00, <2>1, ExtendedLast
  <2>6. Append(u, x) \in Seq(Plainly)
    BY AppendProperties
  <2>. QED
    BY <1>2, <2>2, <2>4, <2>5, <2>6
<1>3. \A u \in Seq(Plainly) : u \in S
  <2>. HIDE DEF S
  <2>. QED
    BY <1>1, <1>2, AllSequences
<1>. QED
  BY <1>3

\* A text without commas is one part.
LEMMA OnePart ==
  ASSUME NEW t \in Seq(Plainly)
  PROVE  Parts(t) = <<t>>
<1>. DEFINE S == {u \in Seq(Plainly) : Parts(u) = Append(<<>>, u)}
<1>0. Plainly \subseteq Symbols
  BY DEF Plainly
<1>1. <<>> \in S
  BY PartsOfNone
<1>2. ASSUME NEW u \in Seq(Plainly), NEW x \in Plainly, u \in S
      PROVE  Append(u, x) \in S
  <2>1. x # "comma"
    BY DEF Plainly
  <2>2. Parts(Append(u, x)) = Extended(Parts(u), x)
    BY PartsAppend
  <2>. DEFINE none == <<>>
  <2>3. none \in Seq(Seq(Plainly))
    OBVIOUS
  <2>. HIDE DEF none
  <2>4. Extended(Append(none, u), x) = Append(none, Append(u, x))
    BY <2>1, <2>3, ExtendedLast
  <2>5. Append(u, x) \in Seq(Plainly)
    BY AppendProperties
  <2>6. Parts(u) = Append(none, u)
    BY <1>2 DEF none
  <2>7. Parts(Append(u, x)) = Append(<<>>, Append(u, x))
    BY <2>2, <2>4, <2>6 DEF none
  <2>. QED
    BY <2>5, <2>7, Zenon
<1>3. \A u \in Seq(Plainly) : u \in S
  <2>. HIDE DEF S
  <2>. QED
    BY <1>1, <1>2, AllSequences
<1>. QED
  BY <1>3

\* A line of no tags, and one more tag on the line.
LEMMA JoinedNone == Joined(<<>>) = <<>>
<1>1. [i \in DOMAIN <<>> |-> IF i = 1 THEN <<>>[i] ELSE <<"comma", "space">> \o <<>>[i]] = <<>>
  OBVIOUS
<1>. QED
  BY <1>1, FlattenNone DEF Joined

LEMMA JoinedAppend ==
  ASSUME NEW ts \in Seq(Seq(Symbols)), NEW t \in Seq(Symbols)
  PROVE  /\ Joined(ts) \in Seq(Symbols)
         /\ Joined(Append(ts, t)) =
              IF ts = <<>> THEN t ELSE Append(Joined(ts), "comma") \o (<<"space">> \o t)
<1>. DEFINE Pieces(tags) ==
              [i \in DOMAIN tags |->
                 IF i = 1 THEN tags[i] ELSE <<"comma", "space">> \o tags[i]]
            us == Append(ts, t)
            n == Len(ts)
            p == IF ts = <<>> THEN t ELSE <<"comma", "space">> \o t
<1>1. {"comma", "space"} \subseteq Symbols
  BY DEF Symbols
<1>2. <<"comma", "space">> \in Seq(Symbols)
  BY <1>1
<1>3. /\ n \in Nat /\ DOMAIN ts = 1..n /\ DOMAIN us = 1..(n + 1)
      /\ us[n + 1] = t /\ \A i \in 1..n : us[i] = ts[i]
  <2>1. us \in Seq(Seq(Symbols)) /\ Len(us) = n + 1
    BY AppendProperties
  <2>. QED
    BY <2>1, AppendProperties, LenProperties
<1>4. \A s \in Seq(Symbols) : <<"comma", "space">> \o s \in Seq(Symbols)
  BY <1>2, ConcatProperties
<1>5. Pieces(ts) \in Seq(Seq(Symbols)) /\ Len(Pieces(ts)) = n
  <2>1. \A i \in 1..n : ts[i] \in Seq(Symbols)
    BY <1>3
  <2>. QED
    BY <1>3, <1>4, <2>1
<1>6. p \in Seq(Symbols) /\ (n = 0 <=> ts = <<>>)
  BY <1>3, <1>4
<1>7. Pieces(us) = Append(Pieces(ts), p)
  <2>1. \A i \in 1..n : Pieces(us)[i] = Pieces(ts)[i]
    BY <1>3
  <2>2. Pieces(us)[n + 1] = p
    BY <1>3, <1>6
  <2>3. Pieces(us) \in Seq(Seq(Symbols)) /\ Len(Pieces(us)) = n + 1
    <3>1. \A i \in 1..(n + 1) : us[i] \in Seq(Symbols)
      <4>1. \A i \in 1..n : ts[i] \in Seq(Symbols)
        BY <1>3
      <4>2. \A i \in 1..(n + 1) : i \in 1..n \/ i = n + 1
        BY <1>3
      <4>. QED
        BY <1>3, <4>1, <4>2
    <3>. QED
      BY <1>3, <1>4, <3>1
  <2>. DEFINE q == Pieces(ts)
              r == Pieces(us)
              a == Append(q, p)
  <2>. HIDE DEF p
  <2>4. a \in Seq(Seq(Symbols)) /\ Len(a) = n + 1 /\ a[n + 1] = p /\ \A i \in 1..n : a[i] = q[i]
    <3>. HIDE DEF Pieces
    <3>1. q \in Seq(Seq(Symbols)) /\ Len(q) = n /\ p \in Seq(Symbols)
      BY <1>5, <1>6
    <3>. HIDE DEF q
    <3>. QED
      BY <3>1, AppendProperties
  <2>5. \A i \in 1..(n + 1) : r[i] = a[i]
    <3>1. \A i \in 1..(n + 1) : i \in 1..n \/ i = n + 1
      BY <1>3
    <3>2. (\A i \in 1..n : r[i] = q[i]) /\ r[n + 1] = p
      BY <2>1, <2>2
    <3>. HIDE DEF r, a, q
    <3>. QED
      BY <2>4, <3>1, <3>2
  <2>6. r \in Seq(Seq(Symbols)) /\ Len(r) = n + 1
    BY <2>3
  <2>7. r = a
    <3>. HIDE DEF r, a
    <3>. QED
      BY <2>4, <2>5, <2>6, SeqEqual
  <2>. QED
    BY <2>7, Zenon
<1>8. Joined(ts) = FlattenSeq(Pieces(ts)) /\ Joined(us) = FlattenSeq(Pieces(us))
  BY DEF Joined
<1>9. Joined(ts) \in Seq(Symbols) /\ Joined(us) = Joined(ts) \o p
  <2>. HIDE DEF Pieces, us, p
  <2>. QED
    BY <1>5, <1>6, <1>7, <1>8, FlattenAppend, FlattenType
<1>10. CASE ts = <<>>
  <2>1. Joined(ts) = <<>> /\ p = t
    BY <1>10, JoinedNone
  <2>2. <<>> \o t = t
    BY ConcatEmptySeq
  <2>. QED
    BY <1>9, <1>10, <2>1, <2>2
<1>11. CASE ts # <<>>
  <2>. DEFINE j == Joined(ts)
  <2>1. j \in Seq(Symbols)
    BY <1>9
  <2>. HIDE DEF j
  <2>2. j \o (<<"comma", "space">> \o t) = Append(j, "comma") \o (<<"space">> \o t)
    <3>1. /\ <<"comma">> \in Seq(Symbols) /\ <<"space">> \in Seq(Symbols)
          /\ <<"comma", "space">> = <<"comma">> \o <<"space">>
      BY <1>1
    <3>2. <<"space">> \o t \in Seq(Symbols)
      BY <3>1, ConcatProperties
    <3>3. <<"comma", "space">> \o t = <<"comma">> \o (<<"space">> \o t)
      BY <3>1, ConcatAssociative
    <3>4. Append(j, "comma") = j \o <<"comma">>
      BY <1>1, <2>1, AppendIsConcat
    <3>5. (j \o <<"comma">>) \o (<<"space">> \o t) = j \o (<<"comma">> \o (<<"space">> \o t))
      BY <2>1, <3>1, <3>2, ConcatAssociative
    <3>. QED
      BY <3>3, <3>4, <3>5
  <2>. QED
    BY <1>9, <1>11, <2>2 DEF j
<1>. QED
  BY <1>9, <1>10, <1>11

\* The tags of the parts of a line.
TagsOf(parts) == FlattenSeq([k \in DOMAIN parts |-> Kept(TrimTag(parts[k]))])

\* A part gives one tag that the line can tell apart, or none.
LEMMA KeptType ==
  ASSUME NEW p \in Seq(Plainly)
  PROVE  Kept(TrimTag(p)) \in Seq(Spelled)
<1>1. TrimTag(p) \in Seq(Plainly)
  BY TrimTagType
<1>2. CASE TrimTag(p) = <<>>
  <2>1. Kept(TrimTag(p)) = <<>>
    BY <1>2 DEF Kept
  <2>2. <<>> \in Seq(Spelled)
    OBVIOUS
  <2>. QED
    BY <2>1, <2>2, Zenon
<1>3. CASE TrimTag(p) # <<>>
  <2>1. Bare(TrimTag(p))
    BY <1>3, TrimTagTrims
  <2>2. TrimTag(p) \in Spelled
    BY <1>1, <2>1 DEF Spelled
  <2>3. Kept(TrimTag(p)) = <<TrimTag(p)>>
    BY <1>3 DEF Kept
  <2>. QED
    BY <2>2, <2>3
<1>. QED
  BY <1>2, <1>3

\* So do all parts of a line.
LEMMA KeptParts ==
  ASSUME NEW ps \in Seq(Seq(Plainly))
  PROVE  /\ [k \in DOMAIN ps |-> Kept(TrimTag(ps[k]))] \in Seq(Seq(Spelled))
         /\ Len([k \in DOMAIN ps |-> Kept(TrimTag(ps[k]))]) = Len(ps)
<1>. DEFINE W(p) == Kept(TrimTag(p))
            K == [k \in DOMAIN ps |-> W(ps[k])]
            n == Len(ps)
<1>1. n \in Nat /\ DOMAIN ps = 1..n
  OBVIOUS
<1>2. \A k \in 1..n : W(ps[k]) \in Seq(Spelled)
  BY KeptType
<1>. HIDE DEF W
<1>3. K \in [1..n -> Seq(Spelled)]
  BY <1>1, <1>2
<1>. HIDE DEF K, n
<1>4. K \in Seq(Seq(Spelled)) /\ Len(K) = n
  BY <1>1, <1>3
<1>. QED
  BY <1>4 DEF K, n, W

\* One more part gives its tag after the others.
LEMMA TagsOfAppend ==
  ASSUME NEW ps \in Seq(Seq(Plainly)), NEW p \in Seq(Plainly)
  PROVE  TagsOf(Append(ps, p)) = TagsOf(ps) \o Kept(TrimTag(p))
<1>. DEFINE K(qs) == [k \in DOMAIN qs |-> Kept(TrimTag(qs[k]))]
            n == Len(ps)
            qs == Append(ps, p)
            a == Append(K(ps), Kept(TrimTag(p)))
<1>1. /\ n \in Nat /\ qs \in Seq(Seq(Plainly)) /\ Len(qs) = n + 1 /\ qs[n + 1] = p
      /\ \A i \in 1..n : qs[i] = ps[i]
  BY AppendProperties
<1>2. K(ps) \in Seq(Seq(Spelled)) /\ Len(K(ps)) = n /\ Kept(TrimTag(p)) \in Seq(Spelled)
  BY KeptParts, KeptType
<1>3. K(qs) \in Seq(Seq(Spelled)) /\ Len(K(qs)) = n + 1
  BY <1>1, KeptParts
<1>4. \A i \in 1..n : K(qs)[i] = K(ps)[i]
  BY <1>1
<1>5. K(qs)[n + 1] = Kept(TrimTag(p))
  BY <1>1
<1>6. a \in Seq(Seq(Spelled)) /\ Len(a) = n + 1 /\ a[n + 1] = Kept(TrimTag(p))
      /\ \A i \in 1..n : a[i] = K(ps)[i]
  <2>. HIDE DEF K
  <2>. QED
    BY <1>2, AppendProperties
<1>7. K(qs) = a
  <2>1. \A i \in 1..(n + 1) : i \in 1..n \/ i = n + 1
    BY <1>1
  <2>. HIDE DEF K, a, qs
  <2>2. \A i \in 1..(n + 1) : K(qs)[i] = a[i]
    BY <1>4, <1>5, <1>6, <2>1
  <2>. QED
    BY <1>3, <1>6, <2>2, SeqEqual
<1>8. FlattenSeq(a) = FlattenSeq(K(ps)) \o Kept(TrimTag(p))
  <2>. HIDE DEF K
  <2>. QED
    BY <1>2, FlattenAppend
<1>9. TagsOf(qs) = FlattenSeq(K(qs)) /\ TagsOf(ps) = FlattenSeq(K(ps))
  BY DEF TagsOf
<1>. QED
  BY <1>7, <1>8, <1>9, Zenon

\* What the form makes of any text of its tags field is a list of tags that
\* the field can spell.
LEMMA TagListSpelled ==
  ASSUME NEW text \in Seq(Symbols)
  PROVE  TagList(text) \in Seq(Spelled)
<1>1. Parts(text) \in Seq(Seq(Plainly))
  BY PartsType
<1>2. TagList(text) = TagsOf(Parts(text))
  BY DEF TagList, TagsOf
<1>. QED
  BY <1>1, <1>2, KeptParts, FlattenType DEF TagsOf

\* The last tag of a line, with or without the space before it.
LEMMA OneTag ==
  ASSUME NEW t \in Spelled
  PROVE  /\ t \in Seq(Plainly) /\ <<"space">> \o t \in Seq(Plainly)
         /\ Kept(TrimTag(t)) = <<t>> /\ Kept(TrimTag(<<"space">> \o t)) = <<t>>
<1>1. "space" \in Plainly
  BY DEF Plainly, Symbols
<1>2. t \in Seq(Plainly) /\ Bare(t)
  BY DEF Spelled
<1>3. TrimTag(t) = t /\ TrimTag(<<"space">> \o t) = t /\ t # <<>>
  BY <1>1, <1>2, TrimmedStays DEF Bare
<1>4. <<"space">> \o t \in Seq(Plainly)
  <2>1. <<"space">> \in Seq(Plainly)
    BY <1>1
  <2>. QED
    BY <1>2, <2>1, ConcatProperties
<1>. QED
  BY <1>2, <1>3, <1>4 DEF Kept

\* Tags that are not empty, have no commas and no white space around them come
\* back from the tags field as they were, any number of them: the edit page
\* joins them with ", " (EditPet.tsx:51), handleSubmit splits the line at its
\* commas and trims the parts (EditPet.tsx:70-73).
THEOREM TagsComeBack ==
  ASSUME NEW tags \in Seq(Spelled)
  PROVE  TagList(Joined(tags)) = tags
<1>. DEFINE S == {ts \in Seq(Spelled) : TagsOf(Parts(Joined(ts))) = ts}
<1>0. \A ts \in Seq(Spelled) : ts \in Seq(Seq(Symbols))
  <2>1. Plainly \subseteq Symbols
    BY DEF Plainly
  <2>2. Seq(Plainly) \subseteq Seq(Symbols)
    BY <2>1, SeqMonotonic
  <2>3. Spelled \subseteq Seq(Symbols)
    BY <2>2 DEF Spelled
  <2>. QED
    BY <2>3, SeqMonotonic
<1>1. <<>> \in S
  <2>. DEFINE none == <<>>
              one == << <<>> >>
  <2>1. Parts(Joined(none)) = one
    BY JoinedNone, PartsOfNone, Zenon
  <2>2. TrimTag(<<>>) = <<>>
    BY DEF TrimTag, CutBoth, Others
  <2>3. Kept(TrimTag(<<>>)) = <<>>
    BY <2>2, Zenon DEF Kept
  <2>4. [k \in DOMAIN one |-> Kept(TrimTag(one[k]))] = <<none>>
    <3>1. DOMAIN one = 1..1 /\ one[1] = <<>>
      OBVIOUS
    <3>. HIDE DEF one
    <3>. QED
      BY <2>3, <3>1
  <2>5. TagsOf(one) = none
    <3>1. none \in Seq({})
      OBVIOUS
    <3>2. FlattenSeq(<<none>>) = none
      <4>. HIDE DEF none
      <4>. QED
        BY <3>1, FlattenOne
    <3>3. TagsOf(one) = FlattenSeq(<<none>>)
      BY <2>4, Zenon DEF TagsOf
    <3>. QED
      BY <3>2, <3>3, Zenon
  <2>6. none \in Seq(Spelled)
    OBVIOUS
  <2>. QED
    BY <2>1, <2>5, <2>6, Zenon
<1>2. ASSUME NEW ts \in Seq(Spelled), NEW t \in Spelled, ts \in S
      PROVE  Append(ts, t) \in S
  <2>. DEFINE us == Append(ts, t)
  <2>1. us \in Seq(Spelled) /\ us = ts \o <<t>>
    BY AppendProperties, AppendIsConcat
  <2>2. /\ ts \in Seq(Seq(Symbols)) /\ t \in Seq(Symbols)
        /\ t \in Seq(Plainly) /\ <<"space">> \o t \in Seq(Plainly)
        /\ Kept(TrimTag(t)) = <<t>> /\ Kept(TrimTag(<<"space">> \o t)) = <<t>>
    <3>1. Plainly \subseteq Symbols
      BY DEF Plainly
    <3>2. Seq(Plainly) \subseteq Seq(Symbols)
      BY <3>1, SeqMonotonic
    <3>. QED
      BY <1>0, <3>2, OneTag
  <2>3. /\ Joined(ts) \in Seq(Symbols)
        /\ Joined(us) = IF ts = <<>> THEN t ELSE Append(Joined(ts), "comma") \o (<<"space">> \o t)
    BY <2>2, JoinedAppend
  <2>4. CASE ts = <<>>
    <3>. DEFINE none == <<>>
    <3>1. Parts(Joined(us)) = <<t>>
      BY <2>2, <2>3, <2>4, OnePart, Zenon
    <3>2. Append(none, t) = <<t>> /\ none \in Seq(Seq(Plainly))
      OBVIOUS
    <3>3. TagsOf(none) = none
      <4>1. [k \in DOMAIN none |-> Kept(TrimTag(none[k]))] = none
        OBVIOUS
      <4>. QED
        BY <4>1, FlattenNone, Zenon DEF TagsOf
    <3>4. TagsOf(Append(none, t)) = TagsOf(none) \o <<t>>
      <4>. HIDE DEF none
      <4>. QED
        BY <2>2, <3>2, TagsOfAppend
    <3>5. us = <<t>> /\ none \o <<t>> = <<t>>
      BY <2>4
    <3>6. TagsOf(Parts(Joined(us))) = us
      BY <3>1, <3>2, <3>3, <3>4, <3>5, Zenon
    <3>. QED
      BY <2>1, <3>6, Zenon
  <2>5. CASE ts # <<>>
    <3>1. Parts(Joined(us)) = Append(Parts(Joined(ts)), <<"space">> \o t)
      BY <2>2, <2>3, <2>5, CommasSplit
    <3>2. Parts(Joined(ts)) \in Seq(Seq(Plainly))
      BY <2>3, PartsType
    <3>3. TagsOf(Parts(Joined(us))) = TagsOf(Parts(Joined(ts))) \o Kept(TrimTag(<<"space">> \o t))
      <4>. DEFINE q == Parts(Joined(ts))
                  v == <<"space">> \o t
      <4>1. TagsOf(Append(q, v)) = TagsOf(q) \o Kept(TrimTag(v))
        <5>1. q \in Seq(Seq(Plainly)) /\ v \in Seq(Plainly)
          BY <2>2, <3>2
        <5>. HIDE DEF q, v
        <5>. QED
          BY <5>1, TagsOfAppend
      <4>. QED
        BY <3>1, <4>1, Zenon
    <3>4. TagsOf(Parts(Joined(ts))) = ts
      BY <1>2
    <3>5. TagsOf(Parts(Joined(us))) = us
      BY <2>1, <2>2, <3>3, <3>4, Zenon
    <3>. QED
      BY <2>1, <3>5, Zenon
  <2>. QED
    BY <2>4, <2>5
<1>3. \A ts \in Seq(Spelled) : ts \in S
  <2>. HIDE DEF S
  <2>. QED
    BY <1>1, <1>2, AllSequences
<1>4. TagList(Joined(tags)) = TagsOf(Parts(Joined(tags)))
  BY DEF TagList, TagsOf
<1>. QED
  BY <1>3, <1>4

\* What the property calls spellable is what the line can tell apart.
LEMMA SpellableTags ==
  ASSUME NEW tags \in Seq(Seq(Symbols)), Spellable(tags)
  PROVE  tags \in Seq(Spelled)
<1>1. ASSUME NEW i \in 1..Len(tags) PROVE tags[i] \in Spelled
  <2>. DEFINE t == tags[i]
  <2>1. t \in Seq(Symbols) /\ t # <<>> /\ TrimTag(t) = t /\ \A j \in DOMAIN t : t[j] # "comma"
    BY DEF Spellable
  <2>. HIDE DEF t
  <2>2. Bare(t)
    BY <2>1, TrimTagTrims
  <2>3. t \in Seq(Plainly)
    <3>1. \A j \in 1..Len(t) : t[j] \in Plainly
      BY <2>1 DEF Plainly
    <3>. QED
      BY <2>1, <3>1
  <2>. QED
    BY <2>2, <2>3 DEF t, Spelled
<1>2. ASSUME NEW X, NEW Y, NEW s \in Seq(X), \A i \in 1..Len(s) : s[i] \in Y
      PROVE  s \in Seq(Y)
  BY <1>2
<1>. QED
  BY <1>1, <1>2, Zenon

\* Such tags are made of the symbols of a text.
LEMMA SpelledAreTexts ==
  ASSUME NEW tags \in Seq(Spelled)
  PROVE  tags \in Seq(Seq(Symbols))
<1>1. Plainly \subseteq Symbols
  BY DEF Plainly
<1>2. Seq(Plainly) \subseteq Seq(Symbols)
  BY <1>1, SeqMonotonic
<1>3. Spelled \subseteq Seq(Symbols)
  BY <1>2 DEF Spelled
<1>. QED
  BY <1>3, SeqMonotonic

\* So is their line.
LEMMA JoinedType ==
  ASSUME NEW tags \in Seq(Seq(Symbols))
  PROVE  Joined(tags) \in Seq(Symbols)
<1>1. <<>> \in Seq(Symbols)
  OBVIOUS
<1>. QED
  BY <1>1, JoinedAppend

(***************************************************************************)
(* Texts.  A text of the form fits its message, once it is trimmed; a pet  *)
(* in the table keeps the rules of what is answered.                       *)
(***************************************************************************)
\* The fields of the form f, or of a request, or of a pet.
Fields(f, ids, statuses) ==
  f \in [id : ids, name : Text, species : Text, birthDate : Births, estimated : BOOLEAN,
         status : statuses, tags : {f.tags}, photoUrls : Photos]

\* Names and species as long as pet.proto allows.
FitsInputs(f) == Characters(f.name) <= 100 /\ Characters(f.species) <= 50

\* What the form holds: its tags are a text of the field.
FormInv(f) == Fields(f, {NoId, PetId}, 1..3) /\ FitsInputs(f) /\ f.tags \in Seq(Symbols)

\* What the table holds.
StoredInv(p) ==
  /\ Fields(p, {PetId}, 1..3) /\ FitsInputs(p)
  /\ Characters(p.name) >= 1 /\ Characters(p.species) >= 1
  /\ Meets(p.photoUrls, Items(Uri))
  /\ GoTrim(p.name) = p.name /\ GoTrim(p.species) = p.species
  /\ p.tags \in Seq(Seq(Symbols))

\* What holds of the form, the table and the answer to Save.
TextsInv ==
  /\ FormInv(form)
  /\ stored # NoPet => StoredInv(stored) /\ (writer = "form" => stored.tags \in Seq(Spelled))
  /\ told = "saved" =>
       /\ BrowserSends(form)
       /\ stored.status = form.status
       /\ stored.species = GoTrim(JsTrim(form.species))
  /\ told = "rejected" => ~Accepts(RequestOf(form))
  /\ writer \in {"form", "api"}
  /\ told \in {"nothing", "saved", "rejected"}

\* Trimming cuts the ends, and leaves what is between them.
LEMMA TrimmedIs ==
  ASSUME NEW t \in Text, NEW trims
  PROVE  TrimmedOf(t, trims) =
           [lead |-> IF t.chars = 0 THEN CutBoth(t.lead, trims) ELSE CutFront(t.lead, trims),
            chars |-> t.chars, wide |-> t.wide,
            trail |-> IF t.chars = 0 THEN <<>> ELSE CutBack(t.trail, trims),
            look |-> t.look]
<1>1. /\ t = [lead |-> t.lead, chars |-> t.chars, wide |-> t.wide, trail |-> t.trail,
              look |-> t.look]
      /\ t.chars = 0 => t.trail = <<>>
  BY DEF Text
<1>2. CASE t.chars = 0
  BY <1>1, <1>2 DEF TrimmedOf, AllWhite
<1>3. CASE t.chars # 0
  BY <1>1, <1>3 DEF TrimmedOf, AllWhite
<1>. QED
  BY <1>2, <1>3

\* Numbers in their order.
LEMMA Sums ==
  ASSUME NEW n \in Nat, NEW a \in Nat, NEW b \in Nat, NEW c \in 0..a, NEW d \in 0..b
  PROVE  n + (c + d) \in n..(n + (a + b)) /\ n + (a + b) \in Nat
OBVIOUS

\* The fields of a text.
LEMMA TextFields ==
  ASSUME NEW t \in Text
  PROVE  /\ t.lead \in Seq(Pads) /\ t.trail \in Seq(Pads) /\ t.chars \in Nat /\ t.look \in Looks
         /\ t.wide \in BOOLEAN /\ (t.chars = 0 => t.trail = <<>>)
         /\ Len(t.lead) \in Nat /\ Len(t.trail) \in Nat
<1>1. t \in [lead : Seq(Pads), chars : Nat, wide : BOOLEAN, trail : Seq(Pads), look : Looks]
      /\ (t.chars = 0 => t.trail = <<>>)
  BY DEF Text
<1>2. t.wide \in BOOLEAN
  BY <1>1, Zenon
<1>. QED
  BY <1>1, <1>2

\* It leaves a text that is no longer, and all that is not white space.
LEMMA TrimShortens ==
  ASSUME NEW t \in Text, NEW trims
  PROVE  /\ TrimmedOf(t, trims) \in Text
         /\ Characters(TrimmedOf(t, trims)) \in t.chars..Characters(t)
         /\ TrimmedOf(t, trims).chars = t.chars
         /\ Characters(t) \in Nat /\ t.chars \in Nat
<1> DEFINE lead == IF t.chars = 0 THEN CutBoth(t.lead, trims) ELSE CutFront(t.lead, trims)
           trail == IF t.chars = 0 THEN <<>> ELSE CutBack(t.trail, trims)
           u == [lead |-> lead, chars |-> t.chars, wide |-> t.wide, trail |-> trail,
                 look |-> t.look]
<1>1. /\ t.lead \in Seq(Pads) /\ t.trail \in Seq(Pads) /\ t.chars \in Nat
      /\ t.wide \in BOOLEAN /\ t.look \in Looks
      /\ Len(t.lead) \in Nat /\ Len(t.trail) \in Nat
  BY TextFields
<1>2. /\ lead \in Seq(Pads) /\ trail \in Seq(Pads)
      /\ Len(lead) \in 0..Len(t.lead) /\ Len(trail) \in 0..Len(t.trail)
  <2>1. /\ CutBoth(t.lead, trims) \in Seq(Pads) /\ CutFront(t.lead, trims) \in Seq(Pads)
        /\ Len(CutBoth(t.lead, trims)) \in 0..Len(t.lead)
        /\ Len(CutFront(t.lead, trims)) \in 0..Len(t.lead)
    BY <1>1, CutsAreCut
  <2>2. /\ CutBack(t.trail, trims) \in Seq(Pads)
        /\ Len(CutBack(t.trail, trims)) \in 0..Len(t.trail)
    BY <1>1, CutsAreCut
  <2>3. <<>> \in Seq(Pads) /\ Len(<<>>) = 0
    OBVIOUS
  <2>. QED
    BY <1>1, <2>1, <2>2, <2>3
<1>3. t.chars = 0 => trail = <<>>
  OBVIOUS
<1>. HIDE DEF lead, trail
<1>4. TrimmedOf(t, trims) = u
  BY TrimmedIs DEF lead, trail
<1>5. u \in Text
  BY <1>1, <1>2, <1>3 DEF Text
<1>6. /\ Characters(u) = t.chars + (Len(lead) + Len(trail))
      /\ Characters(t) = t.chars + (Len(t.lead) + Len(t.trail))
  BY DEF Characters, PadLength
<1>7. Characters(u) \in t.chars..Characters(t) /\ Characters(t) \in Nat
  <2>1. /\ t.chars + (Len(lead) + Len(trail)) \in
             t.chars..(t.chars + (Len(t.lead) + Len(t.trail)))
        /\ t.chars + (Len(t.lead) + Len(t.trail)) \in Nat
    BY <1>1, <1>2, Sums
  <2>. QED
    BY <1>6, <2>1, Zenon
<1>. QED
  BY <1>1, <1>4, <1>5, <1>7

\* So do both trims.
LEMMA TrimsShorten ==
  ASSUME NEW t \in Text
  PROVE  /\ JsTrim(t) \in Text /\ Characters(JsTrim(t)) \in 0..Characters(t)
         /\ GoTrim(t) \in Text /\ Characters(GoTrim(t)) \in 0..Characters(t)
         /\ Characters(t) \in Nat
<1>1. /\ JsTrim(t) \in Text /\ Characters(JsTrim(t)) \in t.chars..Characters(t)
      /\ GoTrim(t) \in Text /\ Characters(GoTrim(t)) \in t.chars..Characters(t)
      /\ Characters(t) \in Nat /\ t.chars \in Nat
  BY TrimShortens DEF JsTrim, GoTrim
<1>. QED
  BY <1>1

\* A text that is not white space alone is blank to neither.
LEMMA VisibleStays ==
  ASSUME NEW t \in Text, ~AllWhite(t)
  PROVE  Characters(JsTrim(t)) >= 1 /\ ~Blank(JsTrim(t))
<1>1. /\ JsTrim(t) \in Text /\ JsTrim(t).chars = t.chars /\ t.chars \in Nat
      /\ Characters(JsTrim(t)) \in t.chars..Characters(t) /\ Characters(t) \in Nat
  BY TrimShortens DEF JsTrim
<1>2. /\ Characters(GoTrim(JsTrim(t))) \in t.chars..Characters(JsTrim(t))
      /\ Characters(JsTrim(t)) \in Nat
  <2>. DEFINE u == JsTrim(t)
  <2>1. u \in Text /\ u.chars = t.chars
    BY <1>1
  <2>. HIDE DEF u
  <2>2. Characters(GoTrim(u)) \in u.chars..Characters(u) /\ Characters(u) \in Nat
    BY <2>1, TrimShortens DEF GoTrim
  <2>. QED
    BY <2>1, <2>2 DEF u
<1>. QED
  BY <1>1, <1>2 DEF AllWhite, Blank

\* What is white space to the browser alone is all that it trims: of a text
\* without next-line controls it leaves nothing for Go to trim.
LEMMA SameTrims ==
  ASSUME NEW t \in Text, ~HasNextLine(t)
  PROVE  GoTrim(JsTrim(t)) = JsTrim(t)
<1> DEFINE u == [lead |-> <<>>, chars |-> t.chars, wide |-> t.wide, trail |-> <<>>,
                 look |-> t.look]
<1>1. t.lead \in Seq(Pads) /\ t.trail \in Seq(Pads)
  BY TextFields
<1>2. /\ \A i \in DOMAIN t.lead : t.lead[i] \in {"space", "bom"}
      /\ \A i \in DOMAIN t.trail : t.trail[i] \in {"space", "bom"}
  BY <1>1 DEF HasNextLine, Pads
<1>3. /\ CutBoth(t.lead, {"space", "bom"}) = <<>> /\ CutFront(t.lead, {"space", "bom"}) = <<>>
      /\ CutBack(t.trail, {"space", "bom"}) = <<>>
  BY <1>1, <1>2, CutAll
<1>4. JsTrim(t) = u
  BY <1>3, TrimmedIs DEF JsTrim
<1>5. GoTrim(u) = u
  <2>1. u \in Text
    BY <1>4, TrimsShorten
  <2>2. /\ u.lead = <<>> /\ u.chars = t.chars /\ u.wide = t.wide /\ u.trail = <<>>
        /\ u.look = t.look
    OBVIOUS
  <2>3. <<>> \in Seq(Pads) /\ \A i \in DOMAIN <<>> : <<>>[i] \in {"space", "nel"}
    OBVIOUS
  <2>4. /\ CutBoth(<<>>, {"space", "nel"}) = <<>> /\ CutFront(<<>>, {"space", "nel"}) = <<>>
        /\ CutBack(<<>>, {"space", "nel"}) = <<>>
    BY <2>3, CutAll
  <2>. HIDE DEF u
  <2>5. TrimmedOf(u, {"space", "nel"}) =
          [lead |-> <<>>, chars |-> t.chars, wide |-> t.wide, trail |-> <<>>, look |-> t.look]
    BY <2>1, <2>2, <2>4, TrimmedIs
  <2>. QED
    BY <2>5 DEF GoTrim, u
<1>. QED
  BY <1>4, <1>5

\* The second time, a trim takes nothing away.
LEMMA TrimmedTwice ==
  ASSUME NEW t \in Text
  PROVE  GoTrim(GoTrim(t)) = GoTrim(t)
<1> DEFINE go == {"space", "nel"}
           lead == IF t.chars = 0 THEN CutBoth(t.lead, go) ELSE CutFront(t.lead, go)
           trail == IF t.chars = 0 THEN <<>> ELSE CutBack(t.trail, go)
           u == [lead |-> lead, chars |-> t.chars, wide |-> t.wide, trail |-> trail,
                 look |-> t.look]
<1>. HIDE DEF go
<1>1. t.lead \in Seq(Pads) /\ t.trail \in Seq(Pads)
  BY TextFields
<1>2. /\ t.chars = 0 => CutBoth(lead, go) = lead
      /\ t.chars # 0 => CutFront(lead, go) = lead /\ CutBack(trail, go) = trail
  <2>1. CASE t.chars = 0
    <3>1. lead \in Seq(Pads) /\ Begun(lead, go) /\ Ended(lead, go)
      BY <1>1, <2>1, CutsAreCut
    <3>. HIDE DEF lead
    <3>. QED
      BY <2>1, <3>1, CutStays
  <2>2. CASE t.chars # 0
    <3>1. /\ lead \in Seq(Pads) /\ Begun(lead, go)
          /\ trail \in Seq(Pads) /\ Ended(trail, go)
      BY <1>1, <2>2, CutsAreCut
    <3>. HIDE DEF lead, trail
    <3>. QED
      BY <2>2, <3>1, CutStays
  <2>. QED
    BY <2>1, <2>2
<1>3. GoTrim(t) = u
  BY TrimmedIs DEF GoTrim, go
<1>4. u \in Text
  BY <1>3, TrimsShorten
<1>5. t.chars = 0 => trail = <<>>
  OBVIOUS
<1>. HIDE DEF lead, trail
<1>6. /\ u.lead = lead /\ u.chars = t.chars /\ u.wide = t.wide /\ u.trail = trail
      /\ u.look = t.look
  OBVIOUS
<1>. HIDE DEF u
<1>7. TrimmedOf(u, go) = [lead |-> lead, chars |-> t.chars, wide |-> t.wide, trail |-> trail,
                          look |-> t.look]
  BY <1>2, <1>4, <1>5, <1>6, TrimmedIs
<1>. QED
  BY <1>3, <1>7 DEF GoTrim, go, u

\* Trimming changes nothing but white space.
LEMMA TrimmedUnpadded ==
  ASSUME NEW t \in Text
  PROVE  Unpadded(GoTrim(JsTrim(t))) = Unpadded(t)
<1>1. ASSUME NEW v \in Text, NEW trims
      PROVE  Unpadded(TrimmedOf(v, trims)) = Unpadded(v)
  <2>. DEFINE u == TrimmedOf(v, trims)
  <2>1. u.chars = v.chars /\ u.wide = v.wide /\ u.look = v.look
    BY TrimmedIs
  <2>. HIDE DEF u
  <2>2. Unpadded(u) = Unpadded(v)
    BY <2>1, Zenon DEF Unpadded
  <2>. QED
    BY <2>2 DEF u
<1>2. JsTrim(t) \in Text
  BY TrimsShorten
<1>3. Unpadded(GoTrim(JsTrim(t))) = Unpadded(JsTrim(t)) /\ Unpadded(JsTrim(t)) = Unpadded(t)
  BY <1>1, <1>2 DEF GoTrim, JsTrim
<1>. QED
  BY <1>3

\* The inputs count at least what the rules count.
LEMMA UnitsCoverCharacters ==
  ASSUME NEW t \in Text
  PROVE  Characters(t) <= Units(t) /\ Characters(t) \in Nat /\ Units(t) \in Nat
<1>1. t.chars \in Nat /\ Len(t.lead) \in Nat /\ Len(t.trail) \in Nat
  BY TextFields
<1>2. Characters(t) = t.chars + (Len(t.lead) + Len(t.trail))
  BY DEF Characters, PadLength
<1>3. \/ Units(t) = 2 * t.chars + (Len(t.lead) + Len(t.trail))
      \/ Units(t) = t.chars + (Len(t.lead) + Len(t.trail))
  BY Zenon DEF Units, PadLength
<1>4. ASSUME NEW n \in Nat, NEW a \in Nat, NEW b \in Nat
      PROVE  /\ n + (a + b) <= 2 * n + (a + b) /\ n + (a + b) <= n + (a + b)
             /\ n + (a + b) \in Nat /\ 2 * n + (a + b) \in Nat
  OBVIOUS
<1>5. /\ t.chars + (Len(t.lead) + Len(t.trail)) <= 2 * t.chars + (Len(t.lead) + Len(t.trail))
      /\ t.chars + (Len(t.lead) + Len(t.trail)) <= t.chars + (Len(t.lead) + Len(t.trail))
      /\ t.chars + (Len(t.lead) + Len(t.trail)) \in Nat
      /\ 2 * t.chars + (Len(t.lead) + Len(t.trail)) \in Nat
  BY <1>1, <1>4, Zenon
<1>. QED
  BY <1>2, <1>3, <1>5, Zenon

\* The names of the study are texts.
LEMMA NamesAreTexts == Names \subseteq Text
<1>1. SUFFICES ASSUME NEW t \in Names PROVE t \in Text
  OBVIOUS
<1>2. PICK s \in Surrounds, n \in Lengths, w \in Widths :
        t = [lead |-> s[1], chars |-> n, wide |-> w, trail |-> s[2], look |-> "plain"]
  BY DEF Names
<1>3. s[1] \in Seq(Pads) /\ s[2] \in Seq(Pads) /\ n \in Nat /\ w \in BOOLEAN
  BY TextsAssumption
<1>4. t.chars = 0 => t.trail = <<>>
  BY DEF Names
<1>5. t \in [lead : Seq(Pads), chars : Nat, wide : BOOLEAN, trail : Seq(Pads), look : Looks]
  BY <1>2, <1>3 DEF Looks
<1>. QED
  BY <1>4, <1>5 DEF Text

\* So are the texts that it sends besides.
LEMMA PlainTexts ==
  /\ EmptyText \in Text /\ Characters(EmptyText) = 0
  /\ Plain(3) \in Text /\ Characters(Plain(3)) = 3
<1>1. ASSUME NEW n \in Nat
      PROVE  Plain(n) = [lead |-> <<>>, chars |-> n, wide |-> FALSE, trail |-> <<>>,
                         look |-> "plain"]
  BY DEF Plain
<1>2. ASSUME NEW n \in Nat
      PROVE  Plain(n) \in Text /\ Characters(Plain(n)) = n
  <2>1. ASSUME NEW none, none \in Seq(Pads),
               NEW t, t = [lead |-> none, chars |-> n, wide |-> FALSE, trail |-> none,
                           look |-> "plain"],
               t.chars = 0 => t.trail = <<>>
        PROVE  t \in Text
    BY <2>1 DEF Text, Looks
  <2>2. <<>> \in Seq(Pads) /\ Len(<<>>) = 0
    OBVIOUS
  <2>3. Plain(n).chars = n /\ Plain(n).lead = <<>> /\ Plain(n).trail = <<>>
    BY <1>1
  <2>4. Plain(n) \in Text
    BY <1>1, <2>1, <2>2, <2>3, Zenon
  <2>5. Characters(Plain(n)) = n + (0 + 0)
    BY <2>2, <2>3, Zenon DEF Characters, PadLength
  <2>. QED
    BY <2>4, <2>5
<1>. QED
  BY <1>2 DEF EmptyText

(***************************************************************************)
(* Rules.                                                                  *)
(***************************************************************************)
LEMMA MeetsLength ==
  ASSUME NEW t, NEW m, NEW n
  PROVE  Meets(t, Length(m, n)) <=> Characters(t) >= m /\ Characters(t) <= n
BY DEF Meets, TextMeets, Length, LengthAllowed

\* A birth date keeps its rule,
LEMMA BirthsMeet ==
  ASSUME NEW t \in Births
  PROVE  Meets(t, DateOrEmpty)
<1>1. DateOrEmpty.type = "pattern" /\ DateOrEmpty.look = "date"
  BY DEF DateOrEmpty
<1>2. Meets(t, DateOrEmpty) <=> t = EmptyText \/ (t.look = "date" /\ PadLength(t) = 0)
  BY <1>1 DEF Meets, TextMeets
<1>3. t = EmptyText \/ (t.look = "date" /\ t.lead = <<>> /\ t.trail = <<>>)
  BY DEF Births, Looking
<1>4. Len(<<>>) = 0 /\ 0 + 0 = 0
  OBVIOUS
<1>5. t.lead = <<>> /\ t.trail = <<>> => PadLength(t) = 0
  BY <1>4, Zenon DEF PadLength
<1>. QED
  BY <1>2, <1>3, <1>5

\* a status,
LEMMA StatusesMeet ==
  ASSUME NEW n \in 0..3
  PROVE  Meets(n, DefinedOnly(PetStatus))
BY DEF Meets, DefinedOnly, PetStatus

\* an id,
LEMMA IdsMeet == Meets(PetId, Uuid)
BY DEF Meets, TextMeets, PetId, Uuid, Looking, PadLength

\* and anything keeps no rule.
LEMMA AnyMeets ==
  ASSUME NEW v
  PROVE  Meets(v, NoRule)
BY DEF Meets, NoRule

\* What the rules on a request or a pet leave to be checked.
LEMMA OpenRules ==
  ASSUME NEW r, Fields(r, {NoId, PetId}, 0..3), NEW rules \in {Rules(r), Pet},
         rules = Pet => r.id = PetId
  PROVE  Violations(r, rules) = {} <=>
           /\ Characters(r.name) >= 1 /\ Characters(r.name) <= 100
           /\ Characters(r.species) >= 1 /\ Characters(r.species) <= 50
           /\ Meets(r.photoUrls, Items(Uri))
<1>1. rules \in {CreatePetRequest, UpdatePetRequest, Pet}
  BY DEF Rules
<1>2. DOMAIN rules \subseteq {"id", "name", "species", "birthDate", "status", "photoUrls", "tags",
                             "estimated"}
  BY <1>1 DEF CreatePetRequest, UpdatePetRequest, Pet
<1>3. /\ {"name", "species", "photoUrls"} \subseteq DOMAIN rules
      /\ rules["name"] = Length(1, 100) /\ rules["species"] = Length(1, 50)
      /\ rules["photoUrls"] = Items(Uri)
  BY <1>1 DEF CreatePetRequest, UpdatePetRequest, Pet
<1>4. /\ rules["birthDate"] = DateOrEmpty /\ rules["status"] = DefinedOnly(PetStatus)
      /\ rules["tags"] = NoRule /\ rules["estimated"] = NoRule
      /\ "id" \in DOMAIN rules => rules["id"] = Uuid
  BY <1>1 DEF CreatePetRequest, UpdatePetRequest, Pet
<1>5. "id" \in DOMAIN rules => r["id"] = PetId
  BY DEF Rules, CreatePetRequest, UpdatePetRequest, Pet, Fields
<1>6. r["birthDate"] \in Births /\ r["status"] \in 0..3
  BY DEF Fields
<1>7. \A f \in DOMAIN rules \ {"name", "species", "photoUrls"} : Meets(r[f], rules[f])
  BY <1>2, <1>4, <1>5, <1>6, BirthsMeet, StatusesMeet, IdsMeet, AnyMeets
<1>8. Violations(r, rules) = {} <=>
        \A f \in {"name", "species", "photoUrls"} : Meets(r[f], rules[f])
  BY <1>3, <1>7 DEF Violations, Validated
<1>. QED
  BY <1>3, <1>8, MeetsLength

\* Other texts, tags, status and photos leave a form a form.
LEMMA OtherFields ==
  ASSUME NEW ids, NEW S, NEW T, NEW f, Fields(f, ids, S),
         NEW tags, NEW status \in T
  PROVE  Fields([f EXCEPT !.tags = tags, !.status = status], ids, T)
<1> DEFINE g == [f EXCEPT !.tags = tags, !.status = status]
<1>1. g.tags = tags
  BY DEF Fields
<1>2. g \in [id : ids, name : Text, species : Text, birthDate : Births, estimated : BOOLEAN,
             status : T, tags : {tags}, photoUrls : Photos]
  BY DEF Fields
<1>. QED
  BY <1>1, <1>2 DEF Fields

\* Nor do other texts and photos, status and tags.
LEMMA OtherContents ==
  ASSUME NEW ids, NEW S, NEW T, NEW f, Fields(f, ids, S),
         NEW name \in Text, NEW species \in Text, NEW status \in T, NEW tags, NEW urls \in Photos
  PROVE  Fields([f EXCEPT !.name = name, !.species = species, !.status = status,
                          !.tags = tags, !.photoUrls = urls], ids, T)
<1> DEFINE g == [f EXCEPT !.name = name, !.species = species, !.status = status,
                          !.tags = tags, !.photoUrls = urls]
<1>1. g.tags = tags
  BY DEF Fields
<1>2. g \in [id : ids, name : Text, species : Text, birthDate : Births, estimated : BOOLEAN,
             status : T, tags : {tags}, photoUrls : Photos]
  BY DEF Fields
<1>. QED
  BY <1>1, <1>2 DEF Fields

\* What is accepted fits the table: trimming leaves no text too short, and
\* trimming again changes nothing.
LEMMA AcceptedIsStored ==
  ASSUME NEW r, Fields(r, {NoId, PetId}, 0..3), r.tags \in Seq(Seq(Symbols)), Accepts(r)
  PROVE  /\ StoredInv(StoredOf(r))
         /\ StoredOf(r).name = GoTrim(r.name) /\ StoredOf(r).species = GoTrim(r.species)
         /\ StoredOf(r).tags = r.tags
         /\ r.status # 0 => StoredOf(r).status = r.status
<1> DEFINE p == StoredOf(r)
<1>1. /\ r.name \in Text /\ r.species \in Text
      /\ GoTrim(r.name) \in Text /\ GoTrim(r.species) \in Text
      /\ Characters(GoTrim(r.name)) \in 0..Characters(r.name)
      /\ Characters(GoTrim(r.species)) \in 0..Characters(r.species)
      /\ Characters(r.name) \in Nat /\ Characters(r.species) \in Nat
  BY TrimsShorten DEF Fields
<1>2. /\ Characters(r.name) <= 100 /\ Characters(r.species) <= 50
      /\ Meets(r.photoUrls, Items(Uri))
  <2>1. Rules(r) # Pet \/ r.id = PetId
    BY DEF Rules, CreatePetRequest, Pet, Fields
  <2>. QED
    BY <2>1, OpenRules DEF Accepts
<1>3. Characters(GoTrim(r.name)) # 0 /\ Characters(GoTrim(r.species)) # 0
  BY DEF Accepts, Blank
<1>4. /\ p.name = GoTrim(r.name) /\ p.species = GoTrim(r.species)
      /\ p.photoUrls = r.photoUrls /\ p.tags = r.tags
      /\ p.status = IF r.status = 0 THEN 1 ELSE r.status
  BY DEF Fields, StoredOf
<1>5. Fields(p, {PetId}, 1..3)
  <2>1. p.status \in 1..3
    BY <1>4 DEF Fields
  <2>. QED
    BY <1>1, <1>4, <2>1 DEF Fields, StoredOf
<1>6. GoTrim(GoTrim(r.name)) = GoTrim(r.name) /\ GoTrim(GoTrim(r.species)) = GoTrim(r.species)
  BY <1>1, TrimmedTwice
<1>. HIDE DEF p
<1>7. FitsInputs(p) /\ Characters(p.name) >= 1 /\ Characters(p.species) >= 1
  BY <1>1, <1>2, <1>3, <1>4 DEF FitsInputs
<1>8. StoredInv(p)
  BY <1>2, <1>4, <1>5, <1>6, <1>7 DEF StoredInv
<1>. QED
  BY <1>4, <1>8 DEF p

\* The request that is made of a form.
LEMMA RequestFields ==
  ASSUME NEW f, FormInv(f)
  PROVE  /\ Fields(RequestOf(f), {NoId, PetId}, 1..3) /\ FitsInputs(RequestOf(f))
         /\ RequestOf(f).name = JsTrim(f.name) /\ RequestOf(f).species = JsTrim(f.species)
         /\ RequestOf(f).photoUrls = f.photoUrls /\ RequestOf(f).status = f.status
         /\ RequestOf(f).tags = TagList(f.tags)
<1>0. Fields(f, {NoId, PetId}, 1..3) /\ FitsInputs(f)
  BY DEF FormInv
<1>1. /\ JsTrim(f.name) \in Text /\ JsTrim(f.species) \in Text
      /\ Characters(JsTrim(f.name)) \in 0..Characters(f.name)
      /\ Characters(JsTrim(f.species)) \in 0..Characters(f.species)
      /\ Characters(f.name) \in Nat /\ Characters(f.species) \in Nat
  BY <1>0, TrimsShorten DEF Fields
<1>2. /\ RequestOf(f).name = JsTrim(f.name) /\ RequestOf(f).species = JsTrim(f.species)
      /\ RequestOf(f).photoUrls = f.photoUrls /\ RequestOf(f).status = f.status
      /\ RequestOf(f).tags = TagList(f.tags)
  BY <1>0 DEF Fields, RequestOf
<1>3. FitsInputs(RequestOf(f))
  BY <1>0, <1>1, <1>2 DEF FitsInputs
<1>4. Fields(RequestOf(f), {NoId, PetId}, 1..3)
  BY <1>0, <1>1 DEF Fields, RequestOf
<1>. QED
  BY <1>2, <1>3, <1>4

\* A form that is accepted is stored with tags that its line can spell.
LEMMA SavedIsStored ==
  ASSUME NEW f, FormInv(f), Accepts(RequestOf(f))
  PROVE  /\ StoredInv(StoredOf(RequestOf(f))) /\ StoredOf(RequestOf(f)).tags \in Seq(Spelled)
         /\ StoredOf(RequestOf(f)).species = GoTrim(JsTrim(f.species))
         /\ StoredOf(RequestOf(f)).status = f.status
<1> DEFINE r == RequestOf(f)
<1>1. /\ Fields(r, {NoId, PetId}, 0..3) /\ r.status # 0 /\ r.status = f.status
      /\ r.name = JsTrim(f.name) /\ r.species = JsTrim(f.species)
      /\ r.tags = TagList(f.tags) /\ f.name \in Text /\ f.species \in Text
  BY RequestFields DEF Fields, FormInv
<1>2. TagList(f.tags) \in Seq(Spelled)
  BY TagListSpelled DEF FormInv
<1>3. r.tags \in Seq(Seq(Symbols))
  BY <1>1, <1>2, SpelledAreTexts
<1>. HIDE DEF r
<1>4. /\ StoredInv(StoredOf(r))
      /\ StoredOf(r).name = GoTrim(r.name) /\ StoredOf(r).species = GoTrim(r.species)
      /\ StoredOf(r).tags = r.tags /\ StoredOf(r).status = r.status
  <2>1. Accepts(r)
    BY DEF r
  <2>. QED
    BY <1>1, <1>3, <2>1, AcceptedIsStored
<1>. QED
  BY <1>1, <1>2, <1>4 DEF r

\* The form that a pet is loaded into.
LEMMA LoadedFits ==
  ASSUME NEW p, StoredInv(p)
  PROVE  FormInv(FormOf(p))
<1>1. Fields(p, {PetId}, 1..3) /\ FitsInputs(p) /\ p.tags \in Seq(Seq(Symbols))
  BY DEF StoredInv
<1>2. Fields(FormOf(p), {NoId, PetId}, 1..3)
  <2>1. Fields(FormOf(p), {PetId}, 1..3)
    <3>1. (IF p.status = 0 THEN 1 ELSE p.status) \in 1..3
      BY <1>1 DEF Fields
    <3>. QED
      BY <1>1, <3>1, OtherFields DEF FormOf
  <2>. QED
    BY <2>1 DEF Fields
<1>3. /\ FormOf(p).name = p.name /\ FormOf(p).species = p.species
      /\ FormOf(p).tags = Joined(p.tags)
  BY <1>1 DEF Fields, FormOf
<1>4. Joined(p.tags) \in Seq(Symbols)
  BY <1>1, JoinedType
<1>. QED
  BY <1>1, <1>2, <1>3, <1>4 DEF FormInv, FitsInputs

\* Pets with the same fields are the same.
LEMMA SameFields ==
  ASSUME NEW a, NEW b, Fields(a, {PetId}, 1..3), Fields(b, {PetId}, 1..3),
         a.name = b.name, a.species = b.species, a.birthDate = b.birthDate,
         a.estimated = b.estimated, a.status = b.status, a.tags = b.tags,
         a.photoUrls = b.photoUrls
  PROVE  a = b
<1>1. a.id = b.id
  BY DEF Fields
<1>2. a = [id |-> a.id, name |-> a.name, species |-> a.species, birthDate |-> a.birthDate,
           estimated |-> a.estimated, status |-> a.status, tags |-> a.tags,
           photoUrls |-> a.photoUrls]
  BY DEF Fields
<1>3. b = [id |-> b.id, name |-> b.name, species |-> b.species, birthDate |-> b.birthDate,
           estimated |-> b.estimated, status |-> b.status, tags |-> b.tags,
           photoUrls |-> b.photoUrls]
  BY DEF Fields
<1>. QED
  BY <1>1, <1>2, <1>3, Zenon

\* What is sent of a pet that is opened and saved unchanged: its texts trimmed,
\* and all the rest as it was if the line spells its tags.
LEMMA SentAgain ==
  ASSUME NEW p, StoredInv(p), p.tags \in Seq(Spelled),
         NEW r, r = RequestOf(FormOf(p))
  PROVE  /\ Fields(r, {PetId}, 1..3)
         /\ r.name = JsTrim(p.name) /\ r.species = JsTrim(p.species)
         /\ r.birthDate = p.birthDate /\ r.estimated = p.estimated /\ r.status = p.status
         /\ r.photoUrls = p.photoUrls /\ r.tags = p.tags
<1>1. Fields(p, {PetId}, 1..3) /\ p.status # 0 /\ p.name \in Text /\ p.species \in Text
  BY DEF StoredInv, Fields
<1>2. TagList(Joined(p.tags)) = p.tags
  BY TagsComeBack
<1> DEFINE f == FormOf(p)
<1>3. /\ f.name = p.name /\ f.species = p.species /\ f.birthDate = p.birthDate
      /\ f.estimated = p.estimated /\ f.status = p.status /\ f.photoUrls = p.photoUrls
      /\ f.tags = Joined(p.tags) /\ Fields(f, {PetId}, 1..3)
  <2>1. Fields(f, {PetId}, 1..3)
    <3>1. (IF p.status = 0 THEN 1 ELSE p.status) \in 1..3
      BY <1>1 DEF Fields
    <3>. QED
      BY <1>1, <3>1, OtherFields DEF FormOf
  <2>. QED
    BY <1>1, <2>1 DEF FormOf, Fields
<1>4. r = RequestOf(f)
  OBVIOUS
<1>. HIDE DEF f
<1>5. JsTrim(f.name) \in Text /\ JsTrim(f.species) \in Text
  BY <1>1, <1>3, TrimsShorten
<1>6. /\ r.name = JsTrim(f.name) /\ r.species = JsTrim(f.species)
      /\ r.birthDate = f.birthDate /\ r.estimated = f.estimated /\ r.status = f.status
      /\ r.photoUrls = f.photoUrls /\ r.tags = TagList(f.tags)
  BY <1>3, <1>4 DEF RequestOf, Fields
<1>7. Fields(r, {PetId}, 1..3)
  BY <1>3, <1>4, <1>5 DEF RequestOf, Fields
<1>. QED
  BY <1>2, <1>3, <1>6, <1>7

\* Opened and saved unchanged, such a pet is the same pet where the browser
\* trims neither of its texts,
LEMMA ResavedSame ==
  ASSUME NEW p, StoredInv(p), p.tags \in Seq(Spelled),
         JsTrim(p.name) = p.name, JsTrim(p.species) = p.species
  PROVE  StoredOf(RequestOf(FormOf(p))) = p /\ Accepts(RequestOf(FormOf(p)))
<1>1. /\ Fields(p, {PetId}, 1..3) /\ FitsInputs(p) /\ p.status # 0
      /\ Characters(p.name) >= 1 /\ Characters(p.species) >= 1
      /\ Meets(p.photoUrls, Items(Uri))
      /\ GoTrim(p.name) = p.name /\ GoTrim(p.species) = p.species
  BY DEF StoredInv, Fields
<1>2. RequestOf(FormOf(p)) = p
  <2> DEFINE r == RequestOf(FormOf(p))
  <2>1. /\ Fields(r, {PetId}, 1..3)
        /\ r.name = p.name /\ r.species = p.species
        /\ r.birthDate = p.birthDate /\ r.estimated = p.estimated /\ r.status = p.status
        /\ r.photoUrls = p.photoUrls /\ r.tags = p.tags
    <3>. HIDE DEF r
    <3>. QED
      BY SentAgain DEF r
  <2>. HIDE DEF r
  <2>2. r = p
    BY <1>1, <2>1, SameFields
  <2>. QED
    BY <2>2 DEF r
<1>3. StoredOf(p) = p
  <2> DEFINE q == StoredOf(p)
  <2>1. /\ q.name = p.name /\ q.species = p.species /\ q.birthDate = p.birthDate
        /\ q.estimated = p.estimated /\ q.status = p.status /\ q.photoUrls = p.photoUrls
        /\ q.tags = p.tags
    BY <1>1 DEF StoredOf, Fields
  <2>2. Fields(q, {PetId}, 1..3)
    <3>1. (IF p.status = 0 THEN 1 ELSE p.status) \in 1..3
      BY <1>1 DEF Fields
    <3>2. GoTrim(p.name) \in Text /\ GoTrim(p.species) \in Text
      BY <1>1 DEF Fields
    <3>. QED
      BY <1>1, <3>1, <3>2 DEF StoredOf, Fields
  <2>. HIDE DEF q
  <2>3. q = p
    BY <1>1, <2>1, <2>2, SameFields
  <2>. QED
    BY <2>3 DEF q
<1>4. Accepts(p)
  <2>1. Fields(p, {NoId, PetId}, 0..3) /\ p.id = PetId
    BY <1>1 DEF Fields
  <2>2. Violations(p, Rules(p)) = {}
    BY <1>1, <2>1, OpenRules DEF FitsInputs
  <2>3. ~Blank(p.name) /\ ~Blank(p.species)
    BY <1>1 DEF Blank
  <2>. QED
    BY <2>2, <2>3 DEF Accepts
<1>. QED
  BY <1>2, <1>3, <1>4

\* the same but for white space in any case,
LEMMA ResavedUnpadded ==
  ASSUME NEW p, StoredInv(p), p.tags \in Seq(Spelled)
  PROVE  SameButForWhite(StoredOf(RequestOf(FormOf(p))), p)
<1> DEFINE r == RequestOf(FormOf(p))
           q == StoredOf(r)
           c == [q EXCEPT !.name = p.name, !.species = p.species]
<1>1. Fields(p, {PetId}, 1..3) /\ p.name \in Text /\ p.species \in Text
  BY DEF StoredInv, Fields
<1>2. /\ Fields(r, {PetId}, 1..3)
      /\ r.name = JsTrim(p.name) /\ r.species = JsTrim(p.species)
      /\ r.birthDate = p.birthDate /\ r.estimated = p.estimated /\ r.status = p.status
      /\ r.photoUrls = p.photoUrls /\ r.tags = p.tags
  <2>. HIDE DEF r
  <2>. QED
    BY SentAgain DEF r
<1>. HIDE DEF r
<1>3. GoTrim(r.name) \in Text /\ GoTrim(r.species) \in Text /\ r.status # 0
  <2>1. r.name \in Text /\ r.species \in Text /\ r.status # 0
    BY <1>2 DEF Fields
  <2>. QED
    BY <2>1, TrimsShorten
<1>4. /\ q.name = GoTrim(r.name) /\ q.species = GoTrim(r.species)
      /\ q.birthDate = r.birthDate /\ q.estimated = r.estimated /\ q.status = r.status
      /\ q.photoUrls = r.photoUrls /\ q.tags = r.tags
      /\ Fields(q, {PetId}, 1..3)
  BY <1>2, <1>3 DEF StoredOf, Fields
<1>. HIDE DEF q
<1>5. /\ Unpadded(q.name) = Unpadded(p.name)
      /\ Unpadded(q.species) = Unpadded(p.species)
  <2>1. /\ Unpadded(GoTrim(JsTrim(p.name))) = Unpadded(p.name)
        /\ Unpadded(GoTrim(JsTrim(p.species))) = Unpadded(p.species)
    BY <1>1, TrimmedUnpadded
  <2>. QED
    BY <1>2, <1>4, <2>1, Zenon
<1>6. /\ c.name = p.name /\ c.species = p.species /\ c.birthDate = q.birthDate
      /\ c.estimated = q.estimated /\ c.status = q.status /\ c.tags = q.tags
      /\ c.photoUrls = q.photoUrls /\ Fields(c, {PetId}, 1..3)
  BY <1>1, <1>4 DEF Fields
<1>7. c = p
  <2>. HIDE DEF c
  <2>. QED
    BY <1>1, <1>2, <1>4, <1>6, SameFields
<1>8. SameButForWhite(q, p)
  BY <1>5, <1>7 DEF SameButForWhite
<1>. QED
  BY <1>8 DEF r, q

\* A form whose texts fit its inputs is refused for texts of white space or
\* photos;
LEMMA RefusedForBlanks ==
  ASSUME NEW f, FormInv(f), ~Accepts(RequestOf(f))
  PROVE  AllWhite(f.name) \/ AllWhite(f.species) \/ ~Meets(f.photoUrls, Items(Uri))
<1> DEFINE r == RequestOf(f)
<1>1. /\ Fields(r, {NoId, PetId}, 0..3) /\ FitsInputs(r)
      /\ r.name = JsTrim(f.name) /\ r.species = JsTrim(f.species)
      /\ r.photoUrls = f.photoUrls
  BY RequestFields DEF Fields
<1>. HIDE DEF r
<1>2. \/ ~(Characters(r.name) >= 1) \/ ~(Characters(r.species) >= 1)
      \/ ~Meets(f.photoUrls, Items(Uri))
      \/ Blank(r.name) \/ Blank(r.species)
  <2>1. Rules(r) # Pet \/ r.id = PetId
    BY <1>1 DEF Rules, CreatePetRequest, Pet, Fields
  <2>2. Violations(r, Rules(r)) = {} <=>
          /\ Characters(r.name) >= 1 /\ Characters(r.name) <= 100
          /\ Characters(r.species) >= 1 /\ Characters(r.species) <= 50
          /\ Meets(r.photoUrls, Items(Uri))
    BY <1>1, <2>1, OpenRules
  <2>. QED
    BY <1>1, <2>2 DEF Accepts, FitsInputs, r
<1>3. f.name \in Text /\ f.species \in Text
  BY DEF FormInv, Fields
<1>. QED
  BY <1>1, <1>2, <1>3, VisibleStays

\* so is a pet that is opened and saved unchanged.
LEMMA ResaveAccepted ==
  ASSUME NEW p, StoredInv(p)
  PROVE  Accepts(RequestOf(FormOf(p))) \/ AllWhite(p.name) \/ AllWhite(p.species)
<1>1. FormInv(FormOf(p))
  BY LoadedFits
<1>2. /\ FormOf(p).name = p.name /\ FormOf(p).species = p.species
      /\ FormOf(p).photoUrls = p.photoUrls /\ Meets(p.photoUrls, Items(Uri))
  BY DEF FormOf, StoredInv, Fields
<1>. QED
  BY <1>1, <1>2, RefusedForBlanks

(***************************************************************************)
(* Steps, with no bound on texts, tags or changes.  The steps of both      *)
(* studies are such.                                                       *)
(***************************************************************************)
\* Another client writes a pet that the rules allow.
AnyWrite ==
  /\ form = EmptyForm
  /\ \E r : /\ Fields(r, {NoId, PetId}, 0..3) /\ r.tags \in Seq(Seq(Symbols)) /\ Accepts(r)
            /\ stored' = StoredOf(r)
  /\ writer' = "api"
  /\ UNCHANGED <<form, told>>

\* Load.
AnyLoad ==
  /\ stored # NoPet
  /\ form' = FormOf(stored)
  /\ told' = "nothing"
  /\ UNCHANGED <<stored, writer>>

\* The user changes the form, within what its inputs take.
AnyEdit ==
  /\ FormInv(form')
  /\ told' = "nothing"
  /\ UNCHANGED <<stored, writer>>

\* Save.
AnySave ==
  /\ BrowserSends(form)
  /\ IF Accepts(RequestOf(form))
       THEN stored' = StoredOf(RequestOf(form)) /\ writer' = "form" /\ told' = "saved"
       ELSE told' = "rejected" /\ UNCHANGED <<stored, writer>>
  /\ UNCHANGED form

\* A step of the form.
AnyStep ==
  AnyWrite \/ AnyLoad \/ AnyEdit \/ AnySave \/ UNCHANGED <<form, stored, writer, told>>

\* Any such step keeps the invariant.
LEMMA StepTexts ==
  ASSUME TextsInv, AnyStep
  PROVE  TextsInv'
<1>. USE DEF TextsInv
<1>1. CASE AnyWrite
  <2>1. PICK r : /\ Fields(r, {NoId, PetId}, 0..3) /\ r.tags \in Seq(Seq(Symbols)) /\ Accepts(r)
                 /\ stored' = StoredOf(r)
    BY <1>1 DEF AnyWrite
  <2>2. StoredInv(stored')
    BY <2>1, AcceptedIsStored
  <2>3. told # "saved" /\ form' = form /\ told' = told /\ writer' = "api"
    BY <1>1, PlainTexts DEF AnyWrite, BrowserSends, EmptyForm
  <2>. QED
    BY <2>2, <2>3 DEF FormInv, Fields, FitsInputs
<1>2. CASE AnyLoad
  <2>1. StoredInv(stored) /\ form' = FormOf(stored)
    BY <1>2 DEF AnyLoad
  <2>2. FormInv(form')
    BY <2>1, LoadedFits
  <2>. QED
    BY <1>2, <2>2 DEF AnyLoad
<1>3. CASE AnyEdit
  BY <1>3 DEF AnyEdit
<1>4. CASE AnySave
  <2>1. BrowserSends(form) /\ form' = form /\ FormInv(form)
    BY <1>4 DEF AnySave
  <2>2. CASE Accepts(RequestOf(form))
    <3>1. stored' = StoredOf(RequestOf(form)) /\ writer' = "form" /\ told' = "saved"
      BY <1>4, <2>2 DEF AnySave
    <3>2. /\ StoredInv(stored') /\ stored'.tags \in Seq(Spelled)
          /\ stored'.status = form.status
          /\ stored'.species = GoTrim(JsTrim(form.species))
      BY <2>1, <2>2, <3>1, SavedIsStored
    <3>. QED
      BY <2>1, <3>1, <3>2
  <2>3. CASE ~Accepts(RequestOf(form))
    BY <1>4, <2>1, <2>3 DEF AnySave
  <2>. QED
    BY <2>2, <2>3
<1>5. CASE UNCHANGED <<form, stored, writer, told>>
  BY <1>5
<1>. QED
  BY <1>1, <1>2, <1>3, <1>4, <1>5 DEF AnyStep

\* It holds at first.
LEMMA FirstTexts ==
  ASSUME Init
  PROVE  TextsInv
<1>1. Fields(form, {NoId, PetId}, 1..3) /\ FitsInputs(form)
  BY PlainTexts DEF Init, EmptyForm, Fields, FitsInputs, Births, Photos
<1>2. form.tags \in Seq(Symbols)
  BY DEF Init, EmptyForm
<1>. QED
  BY <1>1, <1>2 DEF Init, TextsInv, FormInv

\* What an input lets through is no longer than its rule allows.
LEMMA TextsFit ==
  ASSUME NEW t \in Text, NEW n \in Nat, Units(t) <= n
  PROVE  Characters(t) <= n
<1>1. Characters(t) <= Units(t) /\ Characters(t) \in Nat /\ Units(t) \in Nat
  BY UnitsCoverCharacters
<1>. QED
  BY <1>1

\* Any one field of a form may be changed, within what its input takes.
LEMMA FieldsChange ==
  ASSUME NEW f, FormInv(f)
  PROVE  /\ \A t \in Text : Units(t) <= 100 => FormInv([f EXCEPT !.name = t])
         /\ \A t \in Text : Units(t) <= 50 => FormInv([f EXCEPT !.species = t])
         /\ \A t \in Seq(Symbols) : FormInv([f EXCEPT !.tags = t])
         /\ \A d \in Births : FormInv([f EXCEPT !.birthDate = d])
         /\ \A n \in {1, 2, 3} : FormInv([f EXCEPT !.status = n])
         /\ \A urls \in Photos : FormInv([f EXCEPT !.photoUrls = urls])
         /\ FormInv([f EXCEPT !.estimated = ~@])
<1>. USE DEF FormInv, Fields, FitsInputs
<1>1. ASSUME NEW t \in Text, Units(t) <= 100
      PROVE  FormInv([f EXCEPT !.name = t])
  <2>1. Characters(t) <= 100
    BY <1>1, TextsFit
  <2>. QED
    BY <2>1
<1>2. ASSUME NEW t \in Text, Units(t) <= 50
      PROVE  FormInv([f EXCEPT !.species = t])
  <2>1. Characters(t) <= 50
    BY <1>2, TextsFit
  <2>. QED
    BY <2>1
<1>3. \A t \in Seq(Symbols) : FormInv([f EXCEPT !.tags = t])
  OBVIOUS
<1>4. \A d \in Births : FormInv([f EXCEPT !.birthDate = d])
  OBVIOUS
<1>5. \A n \in {1, 2, 3} : FormInv([f EXCEPT !.status = n])
  OBVIOUS
<1>6. \A urls \in Photos : FormInv([f EXCEPT !.photoUrls = urls])
  OBVIOUS
<1>7. FormInv([f EXCEPT !.estimated = ~@])
  OBVIOUS
<1>. HIDE DEF FormInv
<1>. QED
  BY <1>1, <1>2, <1>3, <1>4, <1>5, <1>6, <1>7

\* The bounded sequences of the studies are sequences.
LEMMA BoundedAreSequences ==
  ASSUME NEW X, NEW n, NEW s \in BoundedSeq(X, n)
  PROVE  s \in Seq(X)
BY DEF BoundedSeq, SeqOf

\* What another client sends.
LEMMA SentRequests ==
  ASSUME NEW name \in Text, NEW status \in 0..3, NEW tags \in Seq(Seq(Symbols)),
         NEW urls \in Photos,
         NEW r, r = [EmptyForm EXCEPT !.name = name, !.species = Plain(3), !.status = status,
                                      !.tags = tags, !.photoUrls = urls]
  PROVE  Fields(r, {NoId, PetId}, 0..3) /\ r.tags \in Seq(Seq(Symbols))
<1>1. Fields(EmptyForm, {NoId, PetId}, 1..3)
  BY PlainTexts DEF EmptyForm, Fields, Births, Photos
<1>2. Fields(r, {NoId, PetId}, 0..3)
  BY <1>1, PlainTexts, OtherContents
<1>3. r.tags = tags
  BY DEF EmptyForm
<1>. QED
  BY <1>2, <1>3

\* A step of the study of names is a step of the form.
LEMMA StudiedTexts ==
  ASSUME TextsInv, [Next]_vars
  PROVE  AnyStep
<1>0. FormInv(form)
  BY DEF TextsInv
<1>1. CASE ApiWrite
  <2>1. PICK name \in Names, tags \in BoundedSeq(TagTexts(TagLength), TagCount),
             status \in {0, 2}, urls \in Photos :
           LET r == [EmptyForm EXCEPT !.name = name, !.species = Plain(3), !.status = status,
                                      !.tags = tags, !.photoUrls = urls]
           IN  Accepts(r) /\ stored' = StoredOf(r)
    BY <1>1 DEF ApiWrite
  <2> DEFINE r == [EmptyForm EXCEPT !.name = name, !.species = Plain(3), !.status = status,
                                    !.tags = tags, !.photoUrls = urls]
  <2>2. tags \in Seq(Seq(Symbols))
    <3>1. tags \in Seq(TagTexts(TagLength))
      BY BoundedAreSequences
    <3>2. TagTexts(TagLength) \subseteq Seq(Symbols)
      BY BoundedAreSequences DEF TagTexts
    <3>. QED
      BY <3>1, <3>2, SeqMonotonic
  <2>3. Fields(r, {NoId, PetId}, 0..3) /\ r.tags \in Seq(Seq(Symbols))
    <3>1. name \in Text /\ status \in 0..3
      BY NamesAreTexts
    <3>. HIDE DEF r
    <3>. QED
      BY <2>2, <3>1, SentRequests DEF r
  <2>. QED
    BY <1>1, <2>1, <2>3 DEF ApiWrite, AnyWrite, AnyStep
<1>2. ASSUME NEW f, Edit(f), FormInv(f)
      PROVE  AnyStep
  BY <1>2 DEF Edit, AnyEdit, AnyStep
<1>3. CASE TypeName
  BY <1>0, <1>2, <1>3, NamesAreTexts, FieldsChange DEF TypeName, InputMax
<1>4. CASE TypeSpecies
  BY <1>0, <1>2, <1>4, NamesAreTexts, FieldsChange DEF TypeSpecies, InputMax
<1>5. CASE TypeTags
  BY <1>0, <1>2, <1>5, BoundedAreSequences, FieldsChange DEF TypeTags, TagTexts
<1>6. CASE ChooseBirthDate
  BY <1>0, <1>2, <1>6, FieldsChange DEF ChooseBirthDate
<1>7. CASE ChooseStatus
  BY <1>0, <1>2, <1>7, FieldsChange DEF ChooseStatus
<1>8. CASE ChangePhotos
  BY <1>0, <1>2, <1>8, FieldsChange DEF ChangePhotos
<1>9. CASE ToggleEstimate
  BY <1>0, <1>2, <1>9, FieldsChange DEF ToggleEstimate
<1>10. CASE Load \/ Save \/ UNCHANGED vars
  BY <1>10 DEF Load, Save, vars, AnyLoad, AnySave, AnyStep
<1>. QED
  BY <1>1, <1>3, <1>4, <1>5, <1>6, <1>7, <1>8, <1>9, <1>10 DEF Next

\* The study of tags has other texts, and the same form,
LEMMA SameForms ==
  /\ Tags!EmptyForm = EmptyForm
  /\ Tags!Symbols = Symbols /\ Tags!Births = Births /\ Tags!Photos = Photos
  /\ Tags!Names \subseteq Text
  /\ Tags!Plain(3) = Plain(3)
  /\ \A t : Tags!Units(t) = Units(t)
  /\ \A r : Tags!BrowserSends(r) <=> BrowserSends(r)
<1>1. Tags!EmptyForm = EmptyForm /\ Tags!Plain(3) = Plain(3)
  BY DEF Tags!EmptyForm, EmptyForm, Tags!EmptyText, EmptyText, Tags!Plain, Plain,
         Tags!Looking, Looking
<1>2. Tags!Symbols = Symbols /\ Tags!Births = Births /\ Tags!Photos = Photos
  BY DEF Tags!Symbols, Symbols, Tags!Births, Births, Tags!Photos, Photos, Tags!EmptyText, EmptyText,
         Tags!Plain, Plain, Tags!Looking, Looking
<1>3. Tags!Names \subseteq Text
  <2>1. SUFFICES ASSUME NEW t \in Tags!Names PROVE t \in Text
    OBVIOUS
  <2>2. PICK s \in {<< <<>>, <<>> >>}, n \in {0, 3}, w \in {FALSE} :
          t = [lead |-> s[1], chars |-> n, wide |-> w, trail |-> s[2], look |-> "plain"]
    BY DEF Tags!Names
  <2>3. s[1] = <<>> /\ s[2] = <<>>
    OBVIOUS
  <2>4. t = [lead |-> <<>>, chars |-> n, wide |-> FALSE, trail |-> <<>>, look |-> "plain"]
    BY <2>2, <2>3
  <2>5. <<>> \in Seq(Pads) /\ n \in Nat /\ "plain" \in Looks
    BY DEF Looks
  <2>. QED
    BY <2>4, <2>5 DEF Text
<1>4. \A t : Tags!Units(t) = Units(t)
  BY DEF Tags!Units, Units, Tags!PadLength, PadLength
<1>5. \A r : Tags!BrowserSends(r) <=> BrowserSends(r)
  BY DEF Tags!BrowserSends, BrowserSends, Tags!Characters, Characters, Tags!PadLength, PadLength
<1>. QED
  BY <1>1, <1>2, <1>3, <1>4, <1>5

\* the same trims,
LEMMA SameTrimming ==
  /\ \A s, cut : Tags!CutBoth(s, cut) = CutBoth(s, cut)
  /\ \A t : Tags!GoTrim(t) = GoTrim(t) /\ Tags!JsTrim(t) = JsTrim(t)
<1>1. \A s, cut : Tags!Others(s, cut) = Others(s, cut)
  BY Zenon DEF Tags!Others, Others
<1>2. \A S : Tags!Min(S) = Min(S) /\ Tags!Max(S) = Max(S)
  BY Zenon DEF Tags!Min, Tags!Max, Min, Max
<1>3. \A s, cut : Tags!CutFront(s, cut) = CutFront(s, cut)
  BY <1>1, <1>2, Zenon DEF Tags!CutFront, CutFront
<1>4. \A s, cut : Tags!CutBack(s, cut) = CutBack(s, cut)
  BY <1>1, <1>2, Zenon DEF Tags!CutBack, CutBack
<1>5. \A s, cut : Tags!CutBoth(s, cut) = CutBoth(s, cut)
  BY <1>1, <1>2, Zenon DEF Tags!CutBoth, CutBoth
<1>6. \A t, trims : Tags!TrimmedOf(t, trims) = TrimmedOf(t, trims)
  BY <1>3, <1>4, <1>5, Zenon DEF Tags!TrimmedOf, TrimmedOf, Tags!AllWhite, AllWhite
<1>. QED
  BY <1>5, <1>6, Zenon DEF Tags!GoTrim, GoTrim, Tags!JsTrim, JsTrim

\* the same rules,
LEMMA SameRules ==
  ASSUME NEW r
  PROVE  Tags!Accepts(r) <=> Accepts(r)
<1>1. \A v, rule : Tags!TextMeets(v, rule) <=> TextMeets(v, rule)
  BY DEF Tags!TextMeets, TextMeets, Tags!LengthAllowed, LengthAllowed, Tags!Characters, Characters,
         Tags!PadLength, PadLength, Tags!EmptyText, EmptyText, Tags!Plain, Plain,
         Tags!Looking, Looking
<1>2. \A v, rule : Tags!Meets(v, rule) <=> Meets(v, rule)
  BY <1>1 DEF Tags!Meets, Meets
<1>3. Tags!Rules(r) = Rules(r)
  BY DEF Tags!Rules, Rules, Tags!CreatePetRequest, CreatePetRequest, Tags!UpdatePetRequest,
         UpdatePetRequest, Tags!Length, Length, Tags!DateOrEmpty, DateOrEmpty,
         Tags!DefinedOnly, DefinedOnly, Tags!PetStatus, PetStatus, Tags!Items, Items, Tags!Uri, Uri,
         Tags!NoRule, NoRule, Tags!Uuid, Uuid
<1>4. \A rules : Tags!Violations(r, rules) = Violations(r, rules)
  BY <1>2 DEF Tags!Violations, Violations, Tags!Validated, Validated
<1>5. \A t : Tags!Blank(t) <=> Blank(t)
  BY SameTrimming DEF Tags!Blank, Blank, Tags!Characters, Characters, Tags!PadLength, PadLength
<1>. QED
  BY <1>3, <1>4, <1>5 DEF Tags!Accepts, Accepts

\* and the same conversions.
LEMMA SameTexts ==
  ASSUME NEW r
  PROVE  /\ Tags!StoredOf(r) = StoredOf(r)
         /\ Tags!FormOf(r) = FormOf(r)
         /\ Tags!RequestOf(r) = RequestOf(r)
<1>1. Tags!StoredOf(r) = StoredOf(r)
  BY SameTrimming DEF Tags!StoredOf, StoredOf, Tags!PetId, PetId, Tags!Looking, Looking
<1>2. \A ss : Tags!FlattenSeq(ss) = FlattenSeq(ss)
  BY Zenon DEF Tags!FlattenSeq, FlattenSeq
<1>3. \A tags : Tags!Joined(tags) = Joined(tags)
  BY <1>2, Zenon DEF Tags!Joined, Joined
<1>4. Tags!FormOf(r) = FormOf(r)
  BY <1>3 DEF Tags!FormOf, FormOf
<1>5. \A text : Tags!Parts(text) = Parts(text)
  BY Zenon DEF Tags!Parts, Parts, Tags!Extended, Extended
<1>6. \A tag : Tags!Kept(Tags!TrimTag(tag)) = Kept(TrimTag(tag))
  BY SameTrimming, Zenon DEF Tags!Kept, Kept, Tags!TrimTag, TrimTag
<1>7. \A text : Tags!TagList(text) = TagList(text)
  BY <1>2, <1>5, <1>6 DEF Tags!TagList, TagList
<1>8. Tags!RequestOf(r) = RequestOf(r)
  BY <1>7, SameTrimming DEF Tags!RequestOf, RequestOf
<1>. QED
  BY <1>1, <1>4, <1>8

\* So its steps are steps of the form, too.
LEMMA StudiedTags ==
  ASSUME TextsInv, Tags!Next
  PROVE  AnyStep
<1>0. FormInv(form)
  BY DEF TextsInv
<1>00. \A n, t : t \in Tags!TagTexts(n) => t \in Seq(Symbols)
  BY SameForms, BoundedAreSequences
  DEF Tags!TagTexts, BoundedSeq, Tags!BoundedSeq, SeqOf, Tags!SeqOf
<1>1. CASE Tags!ApiWrite
  <2>1. PICK name \in Tags!Names, tags \in Tags!BoundedSeq(Tags!TagTexts(2), 2),
             status \in {0, 2}, urls \in Photos :
           LET r == [EmptyForm EXCEPT !.name = name, !.species = Plain(3), !.status = status,
                                      !.tags = tags, !.photoUrls = urls]
           IN  Accepts(r) /\ stored' = StoredOf(r)
    <3>1. PICK name \in Tags!Names, tags \in Tags!BoundedSeq(Tags!TagTexts(2), 2),
               status \in {0, 2}, urls \in Tags!Photos :
             LET r == [Tags!EmptyForm EXCEPT !.name = name, !.species = Tags!Plain(3),
                         !.status = status, !.tags = tags, !.photoUrls = urls]
             IN  Tags!Accepts(r) /\ stored' = Tags!StoredOf(r)
      BY <1>1 DEF Tags!ApiWrite
    <3> DEFINE r == [EmptyForm EXCEPT !.name = name, !.species = Plain(3), !.status = status,
                                      !.tags = tags, !.photoUrls = urls]
    <3>2. Tags!Accepts(r) /\ stored' = Tags!StoredOf(r)
      BY <3>1, SameForms
    <3>3. Accepts(r) /\ stored' = StoredOf(r)
      <4>. HIDE DEF r
      <4>. QED
        BY <3>2, SameRules, SameTexts
    <3>4. urls \in Photos
      BY SameForms
    <3>. QED
      BY <3>3, <3>4
  <2> DEFINE r == [EmptyForm EXCEPT !.name = name, !.species = Plain(3), !.status = status,
                                    !.tags = tags, !.photoUrls = urls]
  <2>2. tags \in Seq(Seq(Symbols))
    <3>1. tags \in Seq(Tags!TagTexts(2))
      BY BoundedAreSequences DEF BoundedSeq, Tags!BoundedSeq, SeqOf, Tags!SeqOf
    <3>2. Tags!TagTexts(2) \subseteq Seq(Symbols)
      BY <1>00
    <3>. QED
      BY <3>1, <3>2, SeqMonotonic
  <2>3. Fields(r, {NoId, PetId}, 0..3) /\ r.tags \in Seq(Seq(Symbols))
    <3>1. name \in Text /\ status \in 0..3
      BY SameForms
    <3>. HIDE DEF r
    <3>. QED
      BY <2>2, <3>1, SentRequests DEF r
  <2>. QED
    BY <1>1, <2>1, <2>3, SameForms DEF Tags!ApiWrite, AnyWrite, AnyStep
<1>2. ASSUME NEW f, Tags!Edit(f), FormInv(f)
      PROVE  AnyStep
  BY <1>2 DEF Tags!Edit, AnyEdit, AnyStep
<1>3. CASE Tags!TypeName
  BY <1>0, <1>2, <1>3, SameForms, FieldsChange DEF Tags!TypeName, Tags!InputMax
<1>4. CASE Tags!TypeSpecies
  BY <1>0, <1>2, <1>4, SameForms, FieldsChange DEF Tags!TypeSpecies, Tags!InputMax
<1>5. CASE Tags!TypeTags
  BY <1>0, <1>00, <1>2, <1>5, FieldsChange DEF Tags!TypeTags
<1>6. CASE Tags!ChooseBirthDate
  BY <1>0, <1>2, <1>6, SameForms, FieldsChange DEF Tags!ChooseBirthDate
<1>7. CASE Tags!ChooseStatus
  BY <1>0, <1>2, <1>7, FieldsChange DEF Tags!ChooseStatus
<1>8. CASE Tags!ChangePhotos
  BY <1>0, <1>2, <1>8, SameForms, FieldsChange DEF Tags!ChangePhotos
<1>9. CASE Tags!ToggleEstimate
  BY <1>0, <1>2, <1>9, FieldsChange DEF Tags!ToggleEstimate
<1>10. CASE Tags!Load
  BY <1>10, SameTexts DEF Tags!Load, AnyLoad, AnyStep
<1>11. CASE Tags!Save
  BY <1>11, SameForms, SameTexts, SameRules DEF Tags!Save, AnySave, AnyStep
<1>. QED
  BY <1>1, <1>3, <1>4, <1>5, <1>6, <1>7, <1>8, <1>9, <1>10, <1>11 DEF Tags!Next

\* The study of photos leaves the texts alone, and the others the photos.
LEMMA StudySteps ==
  ASSUME [StudyNext]_<<study, vars, fieldVars>>
  PROVE  /\ TextsInv => AnyStep
         /\ [Field!Next]_(Field!vars)
<1>1. CASE study = "texts" /\ Next /\ UNCHANGED <<study, fieldVars>>
  BY <1>1, StudiedTexts DEF fieldVars, Field!vars, Field!page, Field!fields, Field!bounds
<1>2. CASE study = "tags" /\ Tags!Next /\ UNCHANGED <<study, fieldVars>>
  BY <1>2, StudiedTags DEF fieldVars, Field!vars, Field!page, Field!fields, Field!bounds
<1>3. CASE study = "photos" /\ Field!Next /\ UNCHANGED <<study, vars>>
  BY <1>3 DEF vars, AnyStep
<1>4. CASE UNCHANGED <<study, vars, fieldVars>>
  BY <1>4 DEF vars, fieldVars, Field!vars, Field!page, Field!fields, Field!bounds, AnyStep
<1>. QED
  BY <1>1, <1>2, <1>3, <1>4 DEF StudyNext

\* The invariant holds, in any instance of the form and in the studies.
LEMMA TextsHold == (Spec => []TextsInv) /\ (StudySpec => []TextsInv)
<1>1. TextsInv /\ [Next]_vars => TextsInv'
  BY StudiedTexts, StepTexts
<1>2. TextsInv /\ [StudyNext]_<<study, vars, fieldVars>> => TextsInv'
  BY StudySteps, StepTexts
<1>. QED
  BY <1>1, <1>2, FirstTexts, PTL DEF Spec, StudySpec, StudyInit

\* What follows from it: pets keep the rules of what is answered,
LEMMA KeptRules ==
  ASSUME TextsInv
  PROVE  AnswersKeepRules
<1>1. CASE stored = NoPet
  BY <1>1 DEF AnswersKeepRules
<1>2. CASE stored # NoPet
  <2>1. /\ Fields(stored, {NoId, PetId}, 0..3) /\ FitsInputs(stored)
        /\ Characters(stored.name) >= 1 /\ Characters(stored.species) >= 1
        /\ Meets(stored.photoUrls, Items(Uri)) /\ stored.id = PetId /\ stored.status # 0
    BY <1>2 DEF TextsInv, StoredInv, Fields
  <2>2. Violations(stored, Pet) = {}
    BY <2>1, OpenRules DEF FitsInputs
  <2>. QED
    BY <2>1, <2>2 DEF AnswersKeepRules
<1>. QED
  BY <1>1, <1>2

\* a pet just saved is on the list filtered by its form,
LEMMA Found ==
  ASSUME TextsInv
  PROVE  FilterFindsSavedPet
<1>1. SUFFICES ASSUME told = "saved", ~HasNextLine(form.species)
               PROVE  /\ Violations(ListRequest(form.status, form.species), ListPetsRequest) = {}
                      /\ Lists(ListRequest(form.status, form.species), stored)
  BY DEF FilterFindsSavedPet
<1> DEFINE r == ListRequest(form.status, form.species)
<1>2. /\ DOMAIN ListPetsRequest = {"status", "species", "pageSize", "page"}
      /\ ListPetsRequest["status"] = NoRule /\ ListPetsRequest["species"] = NoRule
      /\ ListPetsRequest["pageSize"] = Interval(0, 100)
      /\ ListPetsRequest["page"] = Interval(0, 2147483647)
  BY DEF ListPetsRequest, MaxInt32
<1>3. /\ r["pageSize"] = 20 /\ r["page"] = 0
      /\ r.status = form.status /\ r.species = JsTrim(form.species)
  BY DEF ListRequest
<1>4. Meets(20, Interval(0, 100)) /\ Meets(0, Interval(0, 2147483647))
  BY DEF Meets, Interval
<1>5. Violations(r, ListPetsRequest) = {}
  BY <1>2, <1>3, <1>4, AnyMeets DEF Violations, Validated
<1>6. stored.species = JsTrim(form.species) /\ stored.status = form.status
  BY <1>1, SameTrims DEF TextsInv, FormInv, Fields
<1>. QED
  BY <1>3, <1>5, <1>6 DEF Lists

\* a pet that is saved unchanged is kept as ResaveKeepsPet says,
LEMMA KeptPet ==
  ASSUME TextsInv
  PROVE  ResaveKeepsPet
<1>1. CASE stored # NoPet /\ (writer = "form" \/ Spellable(stored.tags))
  <2>1. StoredInv(stored) /\ (writer = "form" => stored.tags \in Seq(Spelled))
    BY <1>1 DEF TextsInv
  <2>2. stored.tags \in Seq(Spelled)
    BY <1>1, <2>1, SpellableTags DEF StoredInv
  <2>. QED
    BY <2>1, <2>2, ResaveAccepted, ResavedUnpadded, ResavedSame DEF ResaveKeepsPet
<1>2. CASE ~(stored # NoPet /\ (writer = "form" \/ Spellable(stored.tags)))
  BY <1>2 DEF ResaveKeepsPet
<1>. QED
  BY <1>1, <1>2

\* the variables have their types,
LEMMA Typed ==
  ASSUME TextsInv
  PROVE  TypeOK
BY DEF TextsInv, FormInv, StoredInv, Fields, TypeOK

\* and a form is rejected only for what RefusedForBlanks names.
LEMMA RejectedOnly ==
  ASSUME TextsInv
  PROVE  RejectedOnlyForBlanksAndPhotos
BY RefusedForBlanks DEF TextsInv, RejectedOnlyForBlanksAndPhotos

\* The invariants of the photos hold, on their own and in the studies.
LEMMA FieldsHold ==
  /\ Field!Spec => [](PhotosInv /\ FieldsInv)
  /\ StudySpec => [](PhotosInv /\ FieldsInv)
<1>1. ASSUME Field!Init PROVE PhotosInv /\ FieldsInv
  <2>1. PhotosInv
    BY <1>1 DEF Field!Init, PhotosInv
  <2>2. MaxPhotos \in Nat \ {0}
    BY FieldAssumption DEF Field!PhotosAssumption
  <2>3. Len(photos) <= MaxPhotos /\ \A s \in Slots : uploads[s] = NoUpload
    BY <1>1, <2>2 DEF Field!Init
  <2>4. mounted = FALSE /\ error = FALSE /\ own = NoUpload /\ paws = {}
    BY <1>1 DEF Field!Init
  <2>. QED
    BY <2>1, <2>3, <2>4 DEF FieldsInv
<1>2. PhotosInv /\ FieldsInv /\ [Field!Next]_(Field!vars) => PhotosInv' /\ FieldsInv'
  BY StepPhotos, StepFields
<1>3. [StudyNext]_<<study, vars, fieldVars>> => [Field!Next]_(Field!vars)
  BY StudySteps
<1>. QED
  BY <1>1, <1>2, <1>3, PTL DEF Field!Spec, StudySpec, StudyInit

\* A pet that the form has saved, or that another client has given tags a
\* comma-separated line can spell, keeps all but white space around its name
\* and species when it is opened and saved unchanged (EditPet.tsx:44-84,
\* handler.go UpdatePet), is accepted unless one of the two is white space
\* alone, and is the very same pet where JavaScript trims neither; every pet
\* answered keeps the rules of the message Pet and has a status; and a pet just
\* saved is on the list filtered by its form, but for next-line controls in the
\* filter.  For texts of any length with any white space around them, mixed in
\* any order, and any number of tags.
THEOREM SavedPetsAreKept == Spec => []SavedPetIsKept
BY TextsHold, KeptRules, Found, KeptPet, PTL DEF SavedPetIsKept

\* A form that the browser sends is rejected for a text of white space or for
\* a photo that is no URI, and for no length: the inputs count UTF-16 units,
\* pet.proto counts characters.  For texts of any length with any white space
\* around them.
THEOREM RejectedForAReason == Spec => []RejectedOnlyForBlanksAndPhotos
BY TextsHold, RejectedOnly, PTL

\* Every variable of the form and of its photos has its type.
THEOREM TypeCorrect == (Spec => []TypeOK) /\ (Field!Spec => []Field!TypeOK)
<1>1. PhotosInv /\ FieldsInv => Field!TypeOK
  BY FieldTyped
<1>. QED
  BY <1>1, TextsHold, Typed, FieldsHold, PTL

\* The three studies that TLC makes of the form have all of these properties,
\* whatever the bounds of its texts, photos, uploads and changes: each study
\* takes steps of one of the two specifications and none of the other.
THEOREM FormStudies ==
  StudySpec => /\ [](FormTypeOK /\ SavedPetIsKept /\ RejectedOnlyForBlanksAndPhotos)
               /\ OwnPhotosStay
<1>1. StudySpec => Field!Spec
  <2>1. [StudyNext]_<<study, vars, fieldVars>> => [Field!Next]_(Field!vars)
    BY StudySteps
  <2>. QED
    BY <2>1, PTL DEF StudySpec, StudyInit, Field!Spec
<1>2. TextsInv /\ PhotosInv /\ FieldsInv => FormTypeOK
  BY Typed, FieldTyped DEF FormTypeOK
<1>3. TextsInv => SavedPetIsKept /\ RejectedOnlyForBlanksAndPhotos
  BY KeptRules, Found, KeptPet, RejectedOnly DEF SavedPetIsKept
<1>. QED
  BY <1>1, <1>2, <1>3, TextsHold, FieldsHold, PhotosAreOwn, PTL
=============================================================================
