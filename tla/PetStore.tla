------------------------------ MODULE PetStore ------------------------------
(***************************************************************************)
(* What PetService promises its clients: a store of pets on which every    *)
(* request takes effect at most once, at one instant between its arrival   *)
(* and its answer.  ListPets is the exception: its page and its total are  *)
(* each read at one instant, and the two instants differ.  There is no     *)
(* connection pool, no clock and no statement here.                        *)
(***************************************************************************)
EXTENDS PetCalls

CONSTANTS Requests, NoPet

VARIABLES
  store,   \* [Ids -> pet or NoPet]
  phase,   \* [Requests -> idle, asked, paged, answered or returned]
  call, target,
  paged,   \* the pets a List request has read and not answered with yet
  answer

storeVars == <<store, phase, call, target, paged, answer>>

Pet == [id : Ids, body : Body, createdBy : Users, modifiedBy : Users]

Init ==
  /\ store = [i \in Ids |-> NoPet]
  /\ phase = [r \in Requests |-> "idle"]
  /\ call \in [Requests -> CallType]
  /\ target \in [Requests -> Targets]
  /\ paged = [r \in Requests |-> {}]
  /\ answer = [r \in Requests |-> [code |-> "none", pets |-> {}, total |-> 0]]

Alive == {i \in Ids : store[i] # NoPet}
Selected(r) == {i \in Alive : Matches(call[r], store[i])}
Lookup(i) == IF i \in Ids THEN store[i] ELSE NoPet

To(r, p) == phase' = [phase EXCEPT ![r] = p]

Answer(r, code, pets, total) ==
  /\ To(r, "answered")
  /\ answer' = [answer EXCEPT
       ![r] = [code |-> code, pets |-> pets, total |-> total]]

\* The answer of an operation that has taken effect may be lost on its way.
AnswerOrLose(r, code, pets, total) ==
  Answer(r, code, pets, total) \/ Answer(r, "Internal", {}, 0)

\* A request arrives, and is turned down at once when a check refuses it.
Ask(r) ==
  /\ phase[r] = "idle"
  /\ call'[r] \in CallType
  /\ target'[r] \in Targets
  /\ call' = [call EXCEPT ![r] = call'[r]]
  /\ target' = [target EXCEPT ![r] = target'[r]]
  /\ LET verdict == Verdict(call'[r], target'[r])
     IN  \/ verdict = "OK" /\ To(r, "asked") /\ UNCHANGED answer
         \/ verdict # "OK" /\ Answer(r, verdict, {}, 0)
  /\ UNCHANGED <<store, paged>>

Perform(r, op) ==
  /\ phase[r] = "asked"
  /\ call[r].op = op
  /\ UNCHANGED <<call, target>>

Missing(r) ==
  /\ Lookup(target[r]) = NoPet
  /\ AnswerOrLose(r, "NotFound", {}, 0)
  /\ UNCHANGED store

Create(r) ==
  /\ Perform(r, "Create")
  /\ \E i \in Ids \ Alive :
       LET pet == [id |-> i, body |-> Stored(call[r]),
                   createdBy |-> call[r].who, modifiedBy |-> call[r].who]
       IN  /\ store' = [store EXCEPT ![i] = pet]
           /\ AnswerOrLose(r, "OK", {pet}, 0)
  /\ UNCHANGED paged

Get(r) ==
  /\ Perform(r, "Get")
  /\ \/ Missing(r)
     \/ /\ Lookup(target[r]) # NoPet
        /\ AnswerOrLose(r, "OK", {store[target[r]]}, 0)
        /\ UNCHANGED store
  /\ UNCHANGED paged

Update(r) ==
  /\ Perform(r, "Update")
  /\ \/ Missing(r)
     \/ /\ Lookup(target[r]) # NoPet
        /\ LET pet == [store[target[r]] EXCEPT !.body = Stored(call[r]),
                                               !.modifiedBy = call[r].who]
           IN  /\ store' = [store EXCEPT ![target[r]] = pet]
               /\ AnswerOrLose(r, "OK", {pet}, 0)
  /\ UNCHANGED paged

Delete(r) ==
  /\ Perform(r, "Delete")
  /\ \/ Missing(r)
     \/ /\ Lookup(target[r]) # NoPet
        /\ store' = [store EXCEPT ![target[r]] = NoPet]
        /\ AnswerOrLose(r, "OK", {}, 0)
  /\ UNCHANGED paged

\* A page is a part of the selected pets, of the size that the limit and the
\* offset leave: which part, the order of the list decides.
PageSize(r) ==
  LET rest == Cardinality(Selected(r)) - Offset(call[r])
  IN  IF rest <= 0 THEN 0 ELSE IF rest < Limit(call[r]) THEN rest ELSE Limit(call[r])

ListPage(r) ==
  /\ Perform(r, "List")
  /\ \E part \in SUBSET Selected(r) :
       /\ Cardinality(part) = PageSize(r)
       /\ paged' = [paged EXCEPT ![r] = {store[i] : i \in part}]
  /\ To(r, "paged")
  /\ UNCHANGED <<store, answer>>

ListTotal(r) ==
  /\ phase[r] = "paged"
  /\ AnswerOrLose(r, "OK", paged[r], ClampInt32(Cardinality(Selected(r))))
  /\ UNCHANGED <<store, call, target, paged>>

\* The server gives up on a request that has not taken effect.
Fail(r) ==
  /\ phase[r] \in {"asked", "paged"}
  /\ Answer(r, "Internal", {}, 0)
  /\ UNCHANGED <<store, call, target, paged>>

Return(r) ==
  /\ phase[r] = "answered"
  /\ To(r, "returned")
  /\ UNCHANGED <<store, call, target, paged, answer>>

Next == \E r \in Requests :
  \/ Ask(r) \/ Create(r) \/ Get(r) \/ Update(r) \/ Delete(r)
  \/ ListPage(r) \/ ListTotal(r) \/ Fail(r) \/ Return(r)

Spec == Init /\ [][Next]_storeVars
=============================================================================
