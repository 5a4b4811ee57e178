------------------------------ MODULE PetPages ------------------------------
(***************************************************************************)
(* The pages of one pet: details, edit and create (web/src/pages), the     *)
(* routes between them (App.tsx) and the query cache they share.  The user *)
(* goes anywhere at any time, by links, history or address; requests are   *)
(* answered late, lost or refused; others change the same pets.            *)
(*                                                                         *)
(* Three rules of the libraries matter.  A page of the same route keeps    *)
(* its component, and so its state, when only the pet changes.  A mutation *)
(* outlives the component that started it, and its onSuccess is the one    *)
(* the component rendered last.  Rendering and effects follow every event  *)
(* at once, so each action ends with them.                                 *)
(*                                                                         *)
(* A pet's contents are a version number, counted by the server.           *)
(***************************************************************************)
EXTENDS Integers, FiniteSets

CONSTANTS
  Pets,
  Born,          \* those that exist at first
  Writes,        \* the kinds of request users send: "save", "delete", "create"
  Slots,         \* requests of this browser that may be under way at once
  MaxVersion,    \* bound on the versions of a pet
  MaxMoves,      \* bound on the user's moves between pages
  MaxPresses,    \* bound on the presses of Save, Delete and Create
  NoPet, NoData, NoFetch, Sent, NoRequest, NoSlot

Kinds == {"save", "delete", "create"}

ASSUME PagesAssumption ==
  /\ Born \subseteq Pets
  /\ Writes \subseteq Kinds
  /\ MaxVersion \in Nat /\ MaxMoves \in Nat /\ MaxPresses \in Nat

VARIABLES
  stored,     \* the server: [Pets -> version, Unborn or Gone]
  place,      \* the page on screen and its pet
  form,       \* the texts in the page's form
  requests,   \* [Slots -> write request or NoRequest]
  own,        \* the slot of the page's own request, or NoSlot
  visit,      \* creates of this visit to the page: pets made, errors told
  acked,      \* [Pets -> newest outcome of a write this browser was told of]
  cache, stale, failed, observed, flight,
  moves, presses

Queries == INSTANCE QueryCache WITH Keys <- Pets, NoKey <- NoPet

page == <<place, form, own, visit>>
queries == <<cache, stale, failed, observed, flight>>
vars == <<stored, page, requests, acked, queries, moves, presses>>

Versions == 0..MaxVersion
Unborn == -1
Gone == MaxVersion + 1

Place(n, p) == [name |-> n, pet |-> p]
Places ==
  {Place(n, NoPet) : n \in {"list", "new"}}
    \cup {Place(n, p) : n \in {"details", "edit"}, p \in Pets}

\* of and base: the pet and version the texts came from; typed: the user has
\* changed them; seen: they are of the pet object the last effect ran with.
Forms == [of : Pets \cup {NoPet}, base : Versions, typed : BOOLEAN, seen : BOOLEAN]
EmptyForm == [of |-> NoPet, base |-> 0, typed |-> FALSE, seen |-> FALSE]

\* A write under way: what was sent, where its onSuccess will go, and the
\* version it made once the server has run it.
Requests ==
  [kind : Kinds, pet : Pets \cup {NoPet}, text : Pets \cup {NoPet},
   target : Places, made : Versions \cup {Unborn, Gone}]

\* What stands for nothing is none of the things.
ASSUME NothingAssumption ==
  /\ NoPet \notin Pets /\ NoSlot \notin Slots /\ NoRequest \notin Requests
  /\ {NoData, NoFetch, Sent} \cap (Versions \cup {Unborn, Gone}) = {}
  /\ NoFetch # Sent

TypeOK ==
  /\ stored \in [Pets -> Versions \cup {Unborn, Gone}]
  /\ place \in Places
  /\ form \in Forms
  /\ requests \in [Slots -> Requests \cup {NoRequest}]
  /\ own \in Slots \cup {NoSlot}
  /\ own # NoSlot => requests[own] # NoRequest
  /\ visit \in [made : Nat, errors : Nat]
  /\ acked \in [Pets -> Versions \cup {Unborn, Gone}]
  /\ Queries!CacheTypeOK(Versions, {Gone})
  /\ moves \in 0..MaxMoves
  /\ presses \in 0..MaxPresses

\* The browser is opened at any address.
Init ==
  /\ stored = [p \in Pets |-> IF p \in Born THEN 0 ELSE Unborn]
  /\ place \in Places
  /\ place.pet # NoPet => stored[place.pet] # Unborn
  /\ form = EmptyForm
  /\ requests = [s \in Slots |-> NoRequest]
  /\ own = NoSlot
  /\ visit = [made |-> 0, errors |-> 0]
  /\ acked = [p \in Pets |-> Unborn]
  /\ Queries!CacheInit(place.pet)
  /\ moves = 0 /\ presses = 0

(***************************************************************************)
(* Rendering.                                                              *)
(***************************************************************************)
\* A bug for the checks to find: the effect has no dependencies on the pet.
Filled_Once(f, p, data) ==
  IF data = NoData \/ f.seen THEN f
  ELSE [of |-> p, base |-> data, typed |-> FALSE, seen |-> TRUE]

\* A bug for the checks to find: the effect depends on every new response.
Filled_Always(f, p, data) ==
  IF data = NoData THEN [f EXCEPT !.seen = FALSE]
  ELSE [of |-> p, base |-> data, typed |-> FALSE, seen |-> TRUE]

\* The effect of the edit page: another pet object than last time overwrites
\* the form.  Equal responses share one object.
Filled(f, p, data) ==
  IF data = NoData THEN [f EXCEPT !.seen = FALSE]
  ELSE IF f.seen /\ f.of = p /\ f.base = data THEN f
  ELSE [of |-> p, base |-> data, typed |-> FALSE, seen |-> TRUE]

\* The state of the form before effects: kept while the route stays the same.
FormAt(pl) == IF pl.name = place.name THEN form ELSE EmptyForm

\* The router shows a place, when keys staleKeys are stale and fetch is what
\* the observed key is waiting for.  A component that stays goes on observing.
Show(pl, staleKeys, fetch) ==
  /\ place' = pl
  /\ observed' = pl.pet
  /\ flight' = IF pl = place THEN fetch ELSE Queries!FetchOf(pl.pet, staleKeys)
  /\ form' = IF pl.name = "edit" THEN Filled(FormAt(pl), pl.pet, cache[pl.pet])
             ELSE FormAt(pl)

\* The page's own request, seen from the place that is shown next: the edit
\* page's onSuccess goes to the pet it has rendered last.
Retargeted(reqs, pl) ==
  IF own # NoSlot /\ reqs[own] # NoRequest /\ place.name = "edit" /\ pl.name = "edit"
    THEN [reqs EXCEPT ![own].target = Place("details", pl.pet)]
    ELSE reqs

(***************************************************************************)
(* The user.                                                               *)
(***************************************************************************)
\* A link, the history or the address bar; deleted pets can be named still.
Go ==
  /\ moves < MaxMoves
  /\ moves' = moves + 1
  /\ \E pl \in Places \ {place} :
       /\ pl.pet # NoPet => stored[pl.pet] # Unborn
       /\ Show(pl, stale, NoFetch)
       /\ requests' = Retargeted(requests, pl)
       /\ own' = IF pl.name = place.name THEN own ELSE NoSlot
       /\ visit' = [made |-> 0, errors |-> 0]
  /\ UNCHANGED <<stored, acked, cache, stale, failed, presses>>

Type ==
  /\ place.name = "new" \/ (place.name = "edit" /\ Queries!Shown(place.pet))
  /\ ~form.typed
  /\ form' = [form EXCEPT !.typed = TRUE]
  /\ UNCHANGED <<stored, place, own, visit, requests, acked, queries, moves, presses>>

\* A bug for the checks to find: the button is not disabled while waiting.
ButtonEnabled_Always == TRUE

\* The button is disabled while the page's own request is under way.
ButtonEnabled == own = NoSlot

\* mutate(): the request is sent, with the text the form holds now.
Press(kind, target) ==
  /\ kind \in Writes
  /\ ButtonEnabled
  /\ presses < MaxPresses
  /\ presses' = presses + 1
  /\ \E s \in Slots :
       /\ requests[s] = NoRequest
       /\ requests' = [requests EXCEPT ![s] =
            [kind |-> kind, pet |-> place.pet, text |-> form.of,
             target |-> target, made |-> Unborn]]
       /\ own' = s
  /\ UNCHANGED <<stored, place, form, visit, acked, queries, moves>>

PressSave ==
  /\ place.name = "edit" /\ Queries!Shown(place.pet)
  /\ Press("save", Place("details", place.pet))

PressDelete ==
  /\ place.name = "details" /\ Queries!Shown(place.pet)
  /\ Press("delete", Place("list", NoPet))

PressCreate ==
  /\ place.name = "new"
  /\ Press("create", Place("list", NoPet))

(***************************************************************************)
(* The server.                                                             *)
(***************************************************************************)
Alive(p) == stored[p] \in Versions

\* The outcomes a write of this kind can have on pet p.
Outcome(kind, p) ==
  CASE kind = "save"   -> IF Alive(p) THEN {stored[p] + 1} \cap Versions ELSE {}
    [] kind = "delete" -> IF Alive(p) THEN {Gone} ELSE {}
    [] kind = "create" -> IF stored[p] = Unborn THEN {0} ELSE {}

\* Someone else, or a request whose answer this browser has given up on.
OthersWrite ==
  /\ \E kind \in Writes, p \in Pets : \E v \in Outcome(kind, p) :
       stored' = [stored EXCEPT ![p] = v]
  /\ UNCHANGED <<page, requests, acked, queries, moves, presses>>

Commit(s) ==
  LET r == requests[s] IN
  /\ r # NoRequest
  /\ r.made = Unborn
  /\ \E p \in IF r.kind = "create" THEN Pets ELSE {r.pet} : \E v \in Outcome(r.kind, p) :
       /\ stored' = [stored EXCEPT ![p] = v]
       /\ requests' = [requests EXCEPT ![s].pet = p, ![s].made = v,
            ![s].target = IF r.kind = "create" THEN Place("details", p) ELSE @]
  /\ visit' = IF own = s /\ r.kind = "create" THEN [visit EXCEPT !.made = @ + 1] ELSE visit
  /\ UNCHANGED <<place, form, own, acked, queries, moves, presses>>

ServerReads ==
  /\ flight = Sent
  /\ flight' = stored[observed]
  /\ UNCHANGED <<stored, page, requests, acked, cache, stale, failed, observed, moves, presses>>

(***************************************************************************)
(* Answers and time.                                                       *)
(***************************************************************************)
Arrive ==
  /\ \E v \in Versions : Queries!Receive(v)
  /\ form' = IF place.name = "edit" THEN Filled(form, place.pet, cache'[place.pet]) ELSE form
  /\ UNCHANGED <<stored, place, own, visit, requests, acked, moves, presses>>

\* The network fails, or the server answers that there is no such pet.
FetchFails ==
  /\ Queries!GiveUp
  /\ UNCHANGED <<stored, page, requests, acked, moves, presses>>

TimePasses ==
  /\ Queries!Expire \/ Queries!Refocus
  /\ UNCHANGED <<stored, page, requests, acked, moves, presses>>

Newest(p, v) == IF v > acked[p] THEN v ELSE acked[p]

\* A bug for the checks to find: the page goes on waiting.
Released_Never(s) == own

\* The page's own request is over: its button is enabled again.
Released(s) == IF own = s THEN NoSlot ELSE own

\* onSuccess: everything cached is stale, and the router goes to the target,
\* whatever page is on screen by now.
Succeed(s) ==
  LET r == requests[s] IN
  /\ r # NoRequest
  /\ r.made # Unborn
  /\ acked' = [acked EXCEPT ![r.pet] = Newest(r.pet, r.made)]
  /\ stale' = Queries!AllStale
  /\ Show(r.target, stale', Queries!Invalidated)
  /\ requests' = Retargeted([requests EXCEPT ![s] = NoRequest], r.target)
  /\ own' = IF r.target.name # place.name THEN NoSlot ELSE Released(s)
  /\ visit' = IF r.target = place THEN visit ELSE [made |-> 0, errors |-> 0]
  /\ UNCHANGED <<stored, cache, failed, moves, presses>>

\* onError: refused, or the answer lost.  The page stays and tells of it.
Fail(s) ==
  /\ requests[s] # NoRequest
  /\ requests' = [requests EXCEPT ![s] = NoRequest]
  /\ own' = Released(s)
  /\ visit' = IF own = s THEN [visit EXCEPT !.errors = @ + 1] ELSE visit
  /\ UNCHANGED <<stored, place, form, acked, queries, moves, presses>>

Next ==
  \/ Go \/ Type \/ PressSave \/ PressDelete \/ PressCreate
  \/ OthersWrite \/ (\E s \in Slots : Commit(s)) \/ ServerReads
  \/ Arrive \/ FetchFails \/ TimePasses
  \/ (\E s \in Slots : Succeed(s) \/ Fail(s))

Spec == Init /\ [][Next]_vars

\* A fetch gets its answer or fails, and so does a write.
Fairness ==
  /\ WF_vars(ServerReads)
  /\ WF_vars(Arrive \/ FetchFails)
  /\ \A s \in Slots : WF_vars(Succeed(s) \/ Fail(s))

FairSpec == Spec /\ Fairness

(***************************************************************************)
(* Properties.                                                             *)
(***************************************************************************)
\* A save carries the texts of the pet it is sent for, even after the edit
\* page was moved from one pet to another without being left (EditPet.tsx
\* fills the form in an effect and takes the id from the address).
SaveSendsOwnText ==
  \A s \in Slots :
    requests[s] # NoRequest /\ requests[s].kind = "save" => requests[s].text = requests[s].pet

\* The edit page never lets a version be edited that is older than the one it
\* has cached: the form under the pet's name holds that very version.
FormFollowsCache ==
  place.name = "edit" /\ cache[place.pet] # NoData =>
    form.of = place.pet /\ form.base = cache[place.pet]

\* The edit page shows and sends the pet of its address, and nothing else.
EditsOwnPet == SaveSendsOwnText /\ FormFollowsCache

\* While the page stays, what the user has typed is overwritten only by a new
\* version of the pet: a refetch that brings nothing new leaves it alone.
TypedTextLostOnlyToNews ==
  [][form.typed /\ ~form'.typed /\ place' = place =>
       cache'[place.pet] # cache[place.pet]]_vars

\* Data that count as fresh, and that nothing is about to replace, are no
\* older than any write this browser has been told succeeded; of a pet it has
\* deleted there are none.
FreshDataFollowWrites ==
  \A p \in Pets : Queries!Settled(p) => cache[p] >= acked[p]

\* One visit to the create page makes at most one pet more than it showed
\* errors for: the button is disabled while waiting, and success leaves it.
OneCreatePerVisit == visit.made <= visit.errors + 1

\* The page of a pet shows neither an error nor the pet as it is after every
\* write this browser was told of.
Behind(p) ==
  place.pet = p /\ p \notin failed /\ (cache[p] = NoData \/ cache[p] < acked[p])

\* A page that is looked at does not stay behind, neither without data nor
\* with the data of before a save, delete or create (invalidateQueries).
WritesShow == \A p \in Pets : Behind(p) ~> ~Behind(p)
=============================================================================
