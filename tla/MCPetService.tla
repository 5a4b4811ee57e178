---------------------------- MODULE MCPetService ----------------------------
(* PetService for TLC: the calls of each run, as small sets. *)
EXTENDS PetServiceProperties, TLC

T(w) == [word |-> w, padded |-> FALSE]
Padded(w) == [word |-> w, padded |-> TRUE]

Base == [op |-> "Get", name |-> T("Rex"), species |-> T("dog"), birth |-> "absent",
         status |-> "UNSPECIFIED", who |-> "ann", page |-> 0, pageSize |-> 0]

CreateDog == [Base EXCEPT !.op = "Create", !.name = Padded("Rex")]
UpdateCat == [Base EXCEPT !.op = "Update", !.species = T("cat"), !.birth = "date",
                          !.status = "ADOPTED", !.who = "bob"]
UpdateRex == [Base EXCEPT !.op = "Update", !.status = "PENDING"]
GetPet == [Base EXCEPT !.who = "no e-mail"]
DeletePet == [Base EXCEPT !.op = "Delete", !.who = "bob"]
ListAll == [Base EXCEPT !.op = "List", !.species = T("")]
ListCats == [ListAll EXCEPT !.species = T("cat"), !.pageSize = 1]
SecondPage == [ListAll EXCEPT !.page = 1, !.pageSize = 1]

\* pet_race: writers racing for one pet.
WriteCalls == {CreateDog, UpdateCat, UpdateRex, DeletePet}

\* pet_service: every operation.
AllCalls == {CreateDog, UpdateCat, DeletePet, GetPet, ListAll, ListCats, SecondPage}

\* pet_pool: two-statement requests and others on one connection.
PoolCalls == {CreateDog, GetPet, DeletePet, ListAll}

\* pet_inputs: one flaw or several in every part of a request.
InputTexts == {T("Rex"), Padded("Rex"), T(""), Padded("")}
InputCalls ==
  {[Base EXCEPT !.op = o, !.name = n, !.birth = b, !.status = s, !.who = w] :
     o \in {"Create", "Update"}, n \in InputTexts, b \in Births,
     s \in {"UNSPECIFIED", "PENDING", "UNDEFINED"}, w \in Callers}
  \cup {[Base EXCEPT !.op = o, !.who = w] : o \in {"Get", "Delete"}, w \in Callers}
  \cup {[ListAll EXCEPT !.species = n, !.page = p, !.pageSize = z] :
          n \in InputTexts, p \in -1..4, z \in -1..5}

SymmRequests == Permutations(Requests)
Symm == SymmRequests \cup Permutations(Conns)
=============================================================================
