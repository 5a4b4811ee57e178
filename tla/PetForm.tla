------------------------------ MODULE PetForm ------------------------------
(***************************************************************************)
(* A pet's contents on their way round: from the form of the create and    *)
(* edit pages (web/src/pages, PetFormFields.tsx) through the request's     *)
(* rules and the handler into the table, and back into the form.  Other    *)
(* clients write the same pet without a form.                              *)
(*                                                                         *)
(* What the conversions do to texts is the subject here; requests and      *)
(* answers are not interleaved (PetPages does that).  Tags are spelt out   *)
(* as sequences of symbols, since commas and spaces decide about them.     *)
(***************************************************************************)
EXTENDS RequestRules, SequencesExt

CONSTANTS
  Lengths,      \* lengths of the names looked at
  Widths,       \* whether their characters may be wide
  Surrounds,    \* the white space before and after them, in pairs
  Letters,      \* symbols of tags besides the space and the comma
  TagLength,    \* bound on the symbols of a tag that another client sends
  TagCount,     \* bound on such tags
  InputLength,  \* bound on the symbols typed into the tags field
  MaxEdits,     \* bound on the fields the user changes
  NoId, NoPet

ASSUME TextsAssumption ==
  /\ Lengths \subseteq Nat /\ Widths \subseteq BOOLEAN
  /\ \A s \in Surrounds : s \in Seq(Pads) \X Seq(Pads)
  /\ {"space", "comma"} \cap Letters = {}
  /\ TagLength \in Nat /\ TagCount \in Nat
  /\ InputLength \in Nat /\ MaxEdits \in Nat

VARIABLES
  form,     \* what the fields of the form hold, and the pet of its page
  stored,   \* the pet in the table, or NoPet
  writer,   \* who wrote it last: "form" or "api"
  told,     \* what came of saving the form as it is: "nothing", "saved", "rejected"
  edits     \* fields changed so far
vars == <<form, stored, writer, told, edits>>

Names ==
  {t \in {[lead |-> s[1], chars |-> n, wide |-> w, trail |-> s[2], look |-> "plain"] :
            s \in Surrounds, n \in Lengths, w \in Widths} :
     t.chars = 0 => ~t.wide /\ t.trail = <<>>}
Symbols == Letters \cup {"space", "comma"}
TagTexts(n) == BoundedSeq(Symbols, n)
Births == {EmptyText, Looking("date")}
Photos == {<<>>, <<Looking("uri")>>, <<Looking("plain")>>}

(***************************************************************************)
(* Trimming.                                                               *)
(***************************************************************************)
\* The sequence s without the members of cut at its front, at its back, at
\* both: each cut stops at the first other symbol it meets.
Others(s, cut) == {i \in DOMAIN s : s[i] \notin cut}
CutFront(s, cut) ==
  IF Others(s, cut) = {} THEN <<>> ELSE SubSeq(s, Min(Others(s, cut)), Len(s))
CutBack(s, cut) ==
  IF Others(s, cut) = {} THEN <<>> ELSE SubSeq(s, 1, Max(Others(s, cut)))
CutBoth(s, cut) ==
  IF Others(s, cut) = {} THEN <<>> ELSE SubSeq(s, Min(Others(s, cut)), Max(Others(s, cut)))

\* White space alone is cut from both its ends.
AllWhite(t) == t.chars = 0
TrimmedOf(t, trims) ==
  IF AllWhite(t) THEN [t EXCEPT !.lead = CutBoth(@, trims)]
  ELSE [t EXCEPT !.lead = CutFront(@, trims), !.trail = CutBack(@, trims)]

\* String.prototype.trim and strings.TrimSpace.
JsTrim(t) == TrimmedOf(t, {"space", "bom"})
GoTrim(t) == TrimmedOf(t, {"space", "nel"})

\* The handler's own check: strings.TrimSpace leaves nothing.
Blank(t) == Characters(GoTrim(t)) = 0

(***************************************************************************)
(* Tags.                                                                   *)
(***************************************************************************)
\* (tags || []).join(', ')
Joined(tags) ==
  FlattenSeq([i \in DOMAIN tags |->
                IF i = 1 THEN tags[i] ELSE <<"comma", "space">> \o tags[i]])

\* A bug for the checks to find: white space around tags is kept.
TrimTag_Never(tag) == tag

TrimTag(tag) == CutBoth(tag, {"space"})

\* A comma begins a part, another symbol goes on with the last one.
Extended(parts, symbol) ==
  IF symbol = "comma" THEN Append(parts, <<>>)
  ELSE [parts EXCEPT ![Len(parts)] = Append(@, symbol)]

\* text.split(',')
Parts(text) ==
  LET parts[i \in 0 .. Len(text)] ==
        IF i = 0 THEN << <<>> >> ELSE Extended(parts[i - 1], text[i])
  IN  parts[Len(text)]

\* .map(trim).filter(Boolean)
Kept(tag) == IF tag = <<>> THEN <<>> ELSE <<tag>>
TagList(text) ==
  LET parts == Parts(text)
  IN  FlattenSeq([k \in DOMAIN parts |-> Kept(TrimTag(parts[k]))])

(***************************************************************************)
(* The form.                                                               *)
(***************************************************************************)
\* A bug for the checks to find: no status is chosen at first.
EmptyForm_NoStatus ==
  [id |-> NoId, name |-> EmptyText, species |-> EmptyText, birthDate |-> EmptyText,
   estimated |-> FALSE, status |-> 0, tags |-> <<>>, photoUrls |-> <<>>]

EmptyForm ==
  [id |-> NoId, name |-> EmptyText, species |-> EmptyText, birthDate |-> EmptyText,
   estimated |-> FALSE, status |-> 1, tags |-> <<>>, photoUrls |-> <<>>]

\* The effect of the edit page; an unspecified status shows as available.
FormOf(pet) ==
  [pet EXCEPT !.tags = Joined(@), !.status = IF @ = 0 THEN 1 ELSE @]

\* handleSubmit: the contents of the request.
RequestOf(f) ==
  [f EXCEPT !.name = JsTrim(@), !.species = JsTrim(@), !.tags = TagList(@)]

\* A bug for the checks to find: the species field is as long as the name's.
InputMax_Same(field) == 100

\* maxLength of the two inputs, in UTF-16 units.
InputMax(field) == IF field = "name" THEN 100 ELSE 50

\* required: the browser asks for a text, but one of white space will do.
BrowserSends(f) == Characters(f.name) > 0 /\ Characters(f.species) > 0

(***************************************************************************)
(* The server.                                                             *)
(***************************************************************************)
PetId == Looking("uuid")

\* The create page sends no id.
Rules(r) == IF r.id = NoId THEN CreatePetRequest ELSE UpdatePetRequest

\* The rules, then the handler's own check for blank texts.
Accepts(r) ==
  /\ Violations(r, Rules(r)) = {}
  /\ ~Blank(r.name)
  /\ ~Blank(r.species)

\* What CreatePet and UpdatePet store of a request, and GetPet returns.
StoredOf(r) ==
  [r EXCEPT !.id = PetId, !.name = GoTrim(@), !.species = GoTrim(@),
            !.status = IF @ = 0 THEN 1 ELSE @]

(***************************************************************************)
(* The list.                                                               *)
(***************************************************************************)
\* What the list page asks for: a status tab and a species text.
ListRequest(status, species) ==
  [status |-> status, species |-> JsTrim(species), pageSize |-> 20, page |-> 0]

\* The WHERE clause of ListPets.
Lists(r, pet) ==
  /\ r.status = 0 \/ pet.status = r.status
  /\ r.species = EmptyText \/ pet.species = r.species

(***************************************************************************)
(* Steps.                                                                  *)
(***************************************************************************)
Init ==
  /\ form = EmptyForm
  /\ stored = NoPet
  /\ writer = "api"
  /\ told = "nothing"
  /\ edits = 0

\* Another client creates or replaces the pet, before the form is opened.
ApiWrite ==
  /\ form = EmptyForm
  /\ \E name \in Names, tags \in BoundedSeq(TagTexts(TagLength), TagCount),
        status \in {0, 2}, urls \in Photos :
       LET r == [EmptyForm EXCEPT !.name = name, !.species = Plain(3), !.status = status,
                                  !.tags = tags, !.photoUrls = urls]
       IN  Accepts(r) /\ stored' = StoredOf(r)
  /\ writer' = "api"
  /\ UNCHANGED <<form, told, edits>>

\* The edit page is opened, or fetches the pet again.
Load ==
  /\ stored # NoPet
  /\ form' = FormOf(stored)
  /\ told' = "nothing"
  /\ UNCHANGED <<stored, writer, edits>>

Edit(f) ==
  /\ f # form
  /\ edits < MaxEdits
  /\ edits' = edits + 1
  /\ form' = f
  /\ told' = "nothing"
  /\ UNCHANGED <<stored, writer>>

TypeName == \E t \in Names : Units(t) <= InputMax("name") /\ Edit([form EXCEPT !.name = t])
TypeSpecies == \E t \in Names : Units(t) <= InputMax("species") /\ Edit([form EXCEPT !.species = t])
TypeTags == \E t \in TagTexts(InputLength) : Edit([form EXCEPT !.tags = t])
ChooseBirthDate == \E d \in Births : Edit([form EXCEPT !.birthDate = d])
ChooseStatus == \E s \in {1, 2, 3} : Edit([form EXCEPT !.status = s])
ChangePhotos == \E urls \in Photos : Edit([form EXCEPT !.photoUrls = urls])

\* The checkbox is disabled without a birth date, whose loss leaves it set.
ToggleEstimate ==
  /\ form.birthDate # EmptyText
  /\ Edit([form EXCEPT !.estimated = ~@])

\* Save Changes or Create Pet.  A rejected form stays as it is.
Save ==
  /\ BrowserSends(form)
  /\ IF Accepts(RequestOf(form))
       THEN stored' = StoredOf(RequestOf(form)) /\ writer' = "form" /\ told' = "saved"
       ELSE told' = "rejected" /\ UNCHANGED <<stored, writer>>
  /\ UNCHANGED <<form, edits>>

Next ==
  \/ ApiWrite \/ Load \/ Save
  \/ TypeName \/ TypeSpecies \/ TypeTags
  \/ ChooseBirthDate \/ ToggleEstimate \/ ChooseStatus \/ ChangePhotos

Spec == Init /\ [][Next]_vars

(***************************************************************************)
(* Properties.                                                             *)
(***************************************************************************)
\* Each variable has its type, and the form's status is one of the menu's.
TypeOK ==
  /\ form.name \in Text /\ form.species \in Text /\ form.status \in 1..3
  /\ stored # NoPet => stored.name \in Text /\ stored.species \in Text
  /\ writer \in {"form", "api"}
  /\ told \in {"nothing", "saved", "rejected"}

\* Every pet the service answers with keeps the rules of the message Pet,
\* which nothing enforces, and has a status: trimming in the handler leaves
\* no name or species that is too short.
AnswersKeepRules ==
  stored # NoPet => Violations(stored, Pet) = {} /\ stored.status # 0

\* Tags a comma-separated line can tell apart.
Spellable(tags) ==
  \A i \in DOMAIN tags :
    /\ tags[i] # <<>> /\ TrimTag(tags[i]) = tags[i]
    /\ \A j \in DOMAIN tags[i] : tags[i][j] # "comma"

\* The two pets differ at most in white space around name and species.
Unpadded(t) == [chars |-> t.chars, wide |-> t.wide, look |-> t.look]
SameButForWhite(a, b) ==
  /\ Unpadded(a.name) = Unpadded(b.name) /\ Unpadded(a.species) = Unpadded(b.species)
  /\ [a EXCEPT !.name = b.name, !.species = b.species] = b

\* Opening a pet and saving it unchanged, when the form wrote it or its tags
\* are such as the form can spell.  It is accepted unless its name or species
\* is white space alone; what it stores differs from the pet at most in white
\* space around the two; and it is the very same pet where JavaScript trims
\* neither.  JavaScript trims a stored text when a byte order mark begins or
\* ends it: the form itself leaves one there that was typed between a next-line
\* control and the text, where JavaScript stops at the control and Go at the
\* mark.
ResaveKeepsPet ==
  stored # NoPet /\ (writer = "form" \/ Spellable(stored.tags)) =>
    LET r == RequestOf(FormOf(stored))
    IN  /\ Accepts(r) \/ AllWhite(stored.name) \/ AllWhite(stored.species)
        /\ SameButForWhite(StoredOf(r), stored)
        /\ JsTrim(stored.name) = stored.name /\ JsTrim(stored.species) = stored.species =>
             Accepts(r) /\ StoredOf(r) = stored

\* A form that the browser sends is rejected only for a name or species of
\* white space or for a photo that is no URI: maxLength of the inputs, counted
\* in UTF-16 units, never lets through what max_len, counted in characters,
\* refuses.
RejectedOnlyForBlanksAndPhotos ==
  told = "rejected" =>
    AllWhite(form.name) \/ AllWhite(form.species) \/ ~Meets(form.photoUrls, Items(Uri))

HasNextLine(t) ==
  \E pads \in {t.lead, t.trail} : \E i \in DOMAIN pads : pads[i] = "nel"

\* A pet just saved is on the list that is filtered by the status and the
\* species text typed into the form: both are trimmed on the way.  Only next-line
\* controls around the text are kept in a filter and trimmed from a pet.
FilterFindsSavedPet ==
  told = "saved" /\ ~HasNextLine(form.species) =>
    LET r == ListRequest(form.status, form.species)
    IN  Violations(r, ListPetsRequest) = {} /\ Lists(r, stored)

\* What is stored of a form keeps the rules, comes back as it was, and is found.
SavedPetIsKept == AnswersKeepRules /\ ResaveKeepsPet /\ FilterFindsSavedPet
=============================================================================
