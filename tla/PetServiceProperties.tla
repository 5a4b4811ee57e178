------------------------ MODULE PetServiceProperties ------------------------
(***************************************************************************)
(* What PetService must never do, what it must eventually do, and the      *)
(* abstract store it implements.                                           *)
(***************************************************************************)
EXTENDS PetService

Answered(r) == pc[r] \in {"replying", "done"}

\* A caller who was told OK, or was told nothing useful, may have had its
\* statement committed.
MayHaveTakenEffect(r) == Answered(r) /\ reply[r].code \in {"OK", "Internal"}

\* Every row is older than its last change, although NOW() is read when a
\* statement starts and rows change when it commits: an UpdatePet can only
\* name an id that a committed CreatePet has answered with.
CreatedBeforeModified ==
  /\ \A p \in Rows : p.createdAt <= p.modifiedAt
  /\ \A r \in Requests : \A p \in reply[r].pets : p.createdAt <= p.modifiedAt

\* What row p holds now is what request r sent.
LastWriter(r, p) ==
  /\ MayHaveTakenEffect(r)
  /\ \/ call[r].op = "Create"
     \/ call[r].op = "Update" /\ target[r] = p.id
  /\ p.body = Stored(call[r])
  /\ p.modifiedBy = call[r].who
  /\ p.modifiedAt = start[r]

Creator(r, p) ==
  /\ MayHaveTakenEffect(r)
  /\ call[r].op = "Create"
  /\ p.createdBy = call[r].who
  /\ p.createdAt = start[r]

\* Contents, modified_by and modified_at of a row come from one and the same
\* request, whichever requests raced for the row, and its creation from one
\* CreatePet: no update leaves its name on another one's contents.
RowHasOneWriter ==
  \A p \in Rows :
    /\ \E r \in Requests : LastWriter(r, p)
    /\ \E r \in Requests : Creator(r, p)

\* A DeletePet for id i that succeeded, or may have.
MayHaveDeleted(d, i) ==
  /\ MayHaveTakenEffect(d)
  /\ call[d].op = "Delete" /\ target[d] = i

\* A pet whose creation was acknowledged stays until a DeletePet removes it,
\* whatever fails in between.
AckedPetStays ==
  \A r \in Requests :
    call[r].op = "Create" /\ Answered(r) =>
      \A p \in reply[r].pets :
        \/ pets[p.id] # NoPet
        \/ \E d \in Requests : MayHaveDeleted(d, p.id)

\* Of the DeletePet requests racing for one pet at most one succeeds.
DeletedOnce ==
  \A d, e \in Requests :
    /\ call[d].op = "Delete" /\ Answered(d) /\ reply[d].code = "OK"
    /\ call[e].op = "Delete" /\ Answered(e) /\ reply[e].code = "OK"
    /\ target[d] = target[e]
    => d = e

\* NotFound for an id that a client was given means that someone deleted the
\* pet: no other race makes a pet disappear for an instant.
NotFoundMeansDeleted ==
  \A r \in Requests :
    Answered(r) /\ reply[r].code = "NotFound" /\ target[r] \in Ids =>
      \E d \in Requests : MayHaveDeleted(d, target[r])

\* What an answer has told a client about a pet stays true.
AnswersHold == AckedPetStays /\ NotFoundMeansDeleted

\* Every pet can be saved back: what GetPet shows of a row, sent unchanged as
\* an UpdatePet the way the edit page does, passes every check and stores the
\* same contents.
ResaveCall(p, u) ==
  [op |-> "Update", name |-> p.body.name, species |-> p.body.species,
   birth |-> p.body.birth, status |-> p.body.status, who |-> u,
   page |-> 0, pageSize |-> 0]

EveryRowCanBeResaved ==
  \A p \in Rows, u \in Users :
    /\ Verdict(ResaveCall(p, u), p.id) = "OK"
    /\ Stored(ResaveCall(p, u)) = p.body

\* A page further back than there have ever been pets is empty: an offset that
\* does not fit OFFSET's int32 is refused and never wraps to the front.
FarPagesAreEmpty ==
  \A r \in Requests :
    call[r].op = "List" /\ reply[r].pets # {} =>
      call[r].page * Limit(call[r]) < Cardinality(issued)

\* A deleted pet never comes back: an UpdatePet that was on its way when the
\* row went does not put it back, and no id is issued twice.
NoResurrection ==
  [][\A i \in issued : pets[i] = NoPet => pets'[i] = NoPet]_vars

\* Every request that arrives is answered, with however few connections: no
\* request waits for a connection while it holds one.
EveryRequestAnswered ==
  \A r \in Requests : pc[r] # "idle" ~> pc[r] = "done"

(***************************************************************************)
(* The strengthening that makes CreatedBeforeModified, NoResurrection and  *)
(* DeletedOnce inductive: who can know an id, and when.                    *)
(***************************************************************************)
\* Ids that clients know, name or are being told have been issued.
IdsComeFromAnswers ==
  /\ known \subseteq issued
  /\ \A r \in Requests :
       /\ target[r] \in Ids => target[r] \in issued
       /\ \A p \in reply[r].pets \cup listed[r] : p.id \in issued

\* Statements start in the clock's past, and an UpdatePet that found its row
\* started after the row was created.
StartsFollowCreation ==
  /\ \A r \in Requests : start[r] <= clock
  /\ \A i \in Ids : pets[i] # NoPet => pets[i].createdAt <= clock
  /\ \A r \in Requests :
       pc[r] = "running" /\ call[r].op = "Update" =>
         \A i \in Ids : target[r] = i /\ pets[i] # NoPet =>
           pets[i].createdAt <= start[r]

\* Rows sit under their issued id, created no later than modified, in the
\* table and wherever they have been read.
RowsInOrder ==
  /\ \A i \in Ids : pets[i] # NoPet =>
       /\ i \in issued
       /\ pets[i].id = i
       /\ pets[i].createdAt <= pets[i].modifiedAt
  /\ \A r \in Requests : \A p \in reply[r].pets \cup listed[r] :
       p.createdAt <= p.modifiedAt

\* A DeletePet that has been answered OK named an issued id that is gone.
DeletedAreGone ==
  \A d \in Requests :
    call[d].op = "Delete" /\ Answered(d) /\ reply[d].code = "OK" =>
      /\ target[d] \in issued
      /\ pets[target[d]] = NoPet

\* Whoever has not asked yet has read nothing and been told nothing.
NothingReadYet ==
  \A r \in Requests : pc[r] = "idle" => listed[r] = {} /\ reply[r].pets = {}

\* A page that a List request has read was not too far back to be there, and
\* its answer holds no more than the page.
PagesAreWithin ==
  \A r \in Requests :
    call[r].op = "List" /\ (listed[r] # {} \/ reply[r].pets # {}) =>
      call[r].page * Limit(call[r]) < Cardinality(issued)

\* An issued id without a row has been deleted.
IssuedOrDeleted ==
  \A i \in issued : pets[i] # NoPet \/ \E d \in Requests : MayHaveDeleted(d, i)

\* Only ListPets has a second statement.
OnlyListsCount ==
  \A r \in Requests : pc[r] \in {"acquireCount", "counting"} => call[r].op = "List"

\* Causality between clients and the table: a pet's id is known to nobody
\* before the pet is committed, so nothing that names it can start earlier.
CausalInv ==
  /\ IdsComeFromAnswers /\ StartsFollowCreation /\ RowsInOrder
  /\ DeletedAreGone /\ OnlyListsCount

(***************************************************************************)
(* The abstract store: the pool, the clock and the split of a statement    *)
(* into start and commit are invisible to clients.                         *)
(***************************************************************************)
Visible(p) ==
  [id |-> p.id, body |-> p.body, createdBy |-> p.createdBy,
   modifiedBy |-> p.modifiedBy]

\* What clients see of a row is not taken for its absence.
ASSUME VisibleAssumption ==
  NoPet \notin [id : Ids, body : Body, createdBy : Users, modifiedBy : Users]

Phase(step) ==
  CASE step = "idle" -> "idle"
    [] step \in {"acquire", "running"} -> "asked"
    [] step \in {"acquireCount", "counting"} -> "paged"
    [] step = "replying" -> "answered"
    [] step = "done" -> "returned"

Seen(rep) == [code |-> rep.code, pets |-> {Visible(p) : p \in rep.pets},
              total |-> rep.total]

StoreBar  == [i \in Ids |-> IF pets[i] = NoPet THEN NoPet ELSE Visible(pets[i])]
PhaseBar  == [r \in Requests |-> Phase(pc[r])]
PagedBar  == [r \in Requests |-> {Visible(p) : p \in listed[r]}]
AnswerBar == [r \in Requests |-> Seen(reply[r])]

Abstract == INSTANCE PetStore WITH
  store <- StoreBar, phase <- PhaseBar, paged <- PagedBar, answer <- AnswerBar

\* Every request takes effect atomically and at most once between its arrival
\* and its answer, and the answer is the one that instant gives; a page and a
\* total of ListPets are the store's at two instants in their order.
ImplementsPetStore == Abstract!Spec
=============================================================================
