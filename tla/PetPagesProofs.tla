--------------------------- MODULE PetPagesProofs ---------------------------
(***************************************************************************)
(* Proofs about the pages of one pet, for every set of pets, every number  *)
(* of requests under way and every bound on versions, moves and presses.   *)
(***************************************************************************)
EXTENDS PetPages, TLAPS

(***************************************************************************)
(* Types.                                                                  *)
(***************************************************************************)
\* Only the pages of a pet have one.
LEMMA PlacesHavePets ==
  ASSUME NEW pl \in Places
  PROVE  /\ pl.pet \in Pets \cup {NoPet}
         /\ pl.name \in {"details", "edit"} => pl.pet \in Pets
         /\ pl.name \in {"list", "new"} => pl.pet = NoPet
         /\ pl.name \in {"list", "new", "details", "edit"}
         /\ pl = Place(pl.name, pl.pet)
BY DEF Places, Place

\* Every pet that is named is there to be named, and the list has no pet.
LEMMA PlacesOfPets ==
  /\ \A p \in Pets : Place("details", p) \in Places /\ Place("edit", p) \in Places
  /\ Place("list", NoPet) \in Places
  /\ \A n, p : Place(n, p).name = n /\ Place(n, p).pet = p
<1>1. \A p \in Pets : Place("details", p) \in Places /\ Place("edit", p) \in Places
  BY DEF Places
<1>2. Place("list", NoPet) \in Places
  BY DEF Places
<1>3. \A n, p : Place(n, p).name = n /\ Place(n, p).pet = p
  BY DEF Place
<1>. QED
  BY <1>1, <1>2, <1>3

\* The effect of the edit page fills the form with what a form may hold.
LEMMA FilledIsForm ==
  ASSUME NEW f \in Forms, NEW p \in Pets, NEW data \in Versions \cup {NoData}
  PROVE  Filled(f, p, data) \in Forms
BY DEF Filled, Forms

\* The page on screen observes its pet, and has one that has existed.
OnScreen ==
  /\ observed = place.pet
  /\ place.pet # NoPet => stored[place.pet] # Unborn

\* Writes name pets, and lead to pages of pets that have existed.
WritesNamePets ==
  \A s \in Slots : requests[s] # NoRequest =>
    /\ requests[s].kind # "create" \/ requests[s].made # Unborn => requests[s].pet \in Pets
    /\ requests[s].target.pet # NoPet => stored[requests[s].target.pet] # Unborn

Typed == TypeOK /\ OnScreen /\ WritesNamePets

\* The server changes a pet to a later state only.
LEMMA OutcomesAreLater ==
  ASSUME TypeOK, NEW kind \in Kinds, NEW p \in Pets, NEW v \in Outcome(kind, p)
  PROVE  /\ v \in Versions \cup {Gone} /\ v # Unborn
         /\ v \in Int /\ stored[p] \in Int /\ v > stored[p]
         /\ kind = "create" => v = 0
<1>1. MaxVersion \in Nat /\ stored[p] \in Versions \cup {Unborn, Gone}
  BY PagesAssumption DEF TypeOK
<1>2. CASE kind = "save"
  BY <1>1, <1>2 DEF Outcome, Alive, Versions, Unborn, Gone
<1>3. CASE kind = "delete"
  BY <1>1, <1>3 DEF Outcome, Alive, Versions, Unborn, Gone
<1>4. CASE kind = "create"
  BY <1>1, <1>4 DEF Outcome, Alive, Versions, Unborn, Gone
<1>. QED
  BY <1>2, <1>3, <1>4 DEF Kinds

\* Shown, a place is on screen and observed, with a form of the right shape.
LEMMA ShownIsTyped ==
  ASSUME TypeOK, OnScreen, NEW pl \in Places, NEW staleKeys,
         NEW fetch \in {NoFetch, Sent} \cup Versions \cup {Gone},
         pl.pet = NoPet => fetch = NoFetch,
         Show(pl, staleKeys, fetch)
  PROVE  /\ place' \in Places /\ place' = pl
         /\ form' \in Forms
         /\ observed' \in Pets \cup {NoPet} /\ observed' = pl.pet
         /\ flight' \in {NoFetch, Sent} \cup Versions \cup {Gone}
         /\ observed' = NoPet => flight' = NoFetch
<1>1. place' = pl /\ observed' = pl.pet /\ pl.pet \in Pets \cup {NoPet}
  BY PlacesHavePets DEF Show
<1>2. FormAt(pl) \in Forms
  BY PagesAssumption DEF FormAt, TypeOK, EmptyForm, Forms, Versions
<1>3. form' \in Forms
  <2>1. CASE pl.name = "edit"
    <3>1. pl.pet \in Pets /\ cache[pl.pet] \in Versions \cup {NoData}
      BY <2>1, PlacesHavePets DEF TypeOK, Queries!CacheTypeOK
    <3>. QED
      BY <1>2, <2>1, <3>1, FilledIsForm DEF Show
  <2>2. CASE pl.name # "edit"
    BY <1>2, <2>2 DEF Show
  <2>. QED
    BY <2>1, <2>2
<1>4. Queries!FetchOf(pl.pet, staleKeys) \in {NoFetch, Sent}
  BY DEF Queries!FetchOf
<1>5. pl.pet = NoPet => Queries!FetchOf(pl.pet, staleKeys) = NoFetch
  BY DEF Queries!FetchOf
<1>. QED
  BY <1>1, <1>3, <1>4, <1>5 DEF Show

\* Only the target of the page's own request can change with the place.
LEMMA RetargetedIsTyped ==
  ASSUME NEW reqs \in [Slots -> Requests \cup {NoRequest}], NEW pl \in Places
  PROVE  /\ Retargeted(reqs, pl) \in [Slots -> Requests \cup {NoRequest}]
         /\ \A s \in Slots :
              /\ (Retargeted(reqs, pl)[s] # NoRequest) <=> (reqs[s] # NoRequest)
              /\ reqs[s] # NoRequest =>
                   /\ Retargeted(reqs, pl)[s].kind = reqs[s].kind
                   /\ Retargeted(reqs, pl)[s].pet = reqs[s].pet
                   /\ Retargeted(reqs, pl)[s].text = reqs[s].text
                   /\ Retargeted(reqs, pl)[s].made = reqs[s].made
                   /\ \/ Retargeted(reqs, pl)[s].target = reqs[s].target
                      \/ /\ s = own /\ place.name = "edit" /\ pl.name = "edit"
                         /\ Retargeted(reqs, pl)[s].target = Place("details", pl.pet)
<1>1. CASE own # NoSlot /\ reqs[own] # NoRequest /\ place.name = "edit" /\ pl.name = "edit"
  <2>. DEFINE t == Place("details", pl.pet)
  <2>1. t \in Places
    BY <1>1, PlacesHavePets, PlacesOfPets
  <2>2. Retargeted(reqs, pl) = [reqs EXCEPT ![own].target = t]
    BY <1>1 DEF Retargeted
  <2>. HIDE DEF t
  <2>3. ASSUME NEW r \in Requests
        PROVE  /\ [r EXCEPT !.target = t] \in Requests
               /\ [r EXCEPT !.target = t].kind = r.kind /\ [r EXCEPT !.target = t].pet = r.pet
               /\ [r EXCEPT !.target = t].text = r.text /\ [r EXCEPT !.target = t].made = r.made
               /\ [r EXCEPT !.target = t].target = t
    BY <2>1 DEF Requests
  <2>4. ASSUME NEW s \in Slots, s # own
        PROVE  Retargeted(reqs, pl)[s] = reqs[s]
    BY <2>2, <2>4
  <2>5. own \in Slots =>
          reqs[own] \in Requests /\ Retargeted(reqs, pl)[own] = [reqs[own] EXCEPT !.target = t]
    BY <1>1, <2>2
  <2>. DEFINE R == Retargeted(reqs, pl)
  <2>6. own \in Slots =>
          /\ R[own] \in Requests
          /\ R[own].kind = reqs[own].kind /\ R[own].pet = reqs[own].pet
          /\ R[own].text = reqs[own].text /\ R[own].made = reqs[own].made
          /\ R[own].target = t
    BY <2>3, <2>5
  <2>7. DOMAIN R = Slots /\ R = [s \in Slots |-> R[s]]
    BY <2>2
  <2>. HIDE DEF R
  <2>8. \A s \in Slots : R[s] \in Requests \cup {NoRequest}
    BY <2>4, <2>6 DEF R
  <2>9. R \in [Slots -> Requests \cup {NoRequest}]
    BY <2>7, <2>8
  <2>10. ASSUME NEW s \in Slots
         PROVE  /\ (R[s] # NoRequest) <=> (reqs[s] # NoRequest)
                /\ reqs[s] # NoRequest =>
                     /\ R[s].kind = reqs[s].kind /\ R[s].pet = reqs[s].pet
                     /\ R[s].text = reqs[s].text /\ R[s].made = reqs[s].made
                     /\ R[s].target = reqs[s].target \/ (s = own /\ R[s].target = t)
    <3>1. CASE s = own
      BY <1>1, <2>6, <3>1, NothingAssumption
    <3>2. CASE s # own
      BY <2>4, <3>2 DEF R
    <3>. QED
      BY <3>1, <3>2
  <2>. QED
    BY <1>1, <2>9, <2>10 DEF R, t
<1>2. CASE ~(own # NoSlot /\ reqs[own] # NoRequest /\ place.name = "edit" /\ pl.name = "edit")
  BY <1>2 DEF Retargeted
<1>. QED
  BY <1>1, <1>2

\* What a state of the pages is made of, each part under its name.
LEMMA Parts ==
  ASSUME Typed
  PROVE  /\ stored \in [Pets -> Versions \cup {Unborn, Gone}]
         /\ place \in Places /\ form \in Forms
         /\ requests \in [Slots -> Requests \cup {NoRequest}]
         /\ own \in Slots \cup {NoSlot} /\ (own # NoSlot => requests[own] # NoRequest)
         /\ visit \in [made : Nat, errors : Nat]
         /\ acked \in [Pets -> Versions \cup {Unborn, Gone}]
         /\ cache \in [Pets -> Versions \cup {NoData}]
         /\ stale \subseteq Pets /\ failed \subseteq Pets
         /\ observed \in Pets \cup {NoPet} /\ observed = place.pet
         /\ flight \in {NoFetch, Sent} \cup Versions \cup {Gone}
         /\ (observed = NoPet => flight = NoFetch)
BY DEF Typed, TypeOK, OnScreen, Queries!CacheTypeOK

LEMMA InitTyped == Init => Typed
<1>. SUFFICES ASSUME Init PROVE Typed
  OBVIOUS
<1>1. stored \in [Pets -> Versions \cup {Unborn, Gone}]
  BY PagesAssumption DEF Init, Versions
<1>2. place \in Places /\ place.pet \in Pets \cup {NoPet}
  BY PlacesHavePets DEF Init
<1>3. EmptyForm \in Forms
  BY PagesAssumption DEF EmptyForm, Forms, Versions
<1>4. Queries!CacheTypeOK(Versions, {Gone})
  BY <1>2 DEF Init, Queries!CacheInit, Queries!CacheTypeOK, Queries!FetchOf
<1>. QED
  BY <1>1, <1>2, <1>3, <1>4, PagesAssumption
  DEF Init, Typed, TypeOK, OnScreen, WritesNamePets, Queries!CacheInit

\* The user's moves between pages.
LEMMA GoTyped ==
  ASSUME Typed, Go
  PROVE  Typed'
<1>. USE DEF Typed
<1>1. PICK pl \in Places \ {place} :
        /\ pl.pet # NoPet => stored[pl.pet] # Unborn
        /\ Show(pl, stale, NoFetch)
        /\ requests' = Retargeted(requests, pl)
        /\ own' = (IF pl.name = place.name THEN own ELSE NoSlot)
        /\ visit' = [made |-> 0, errors |-> 0]
  BY Zenon DEF Go
<1>2. UNCHANGED <<stored, acked, cache, stale, failed, presses>>
      /\ moves < MaxMoves /\ moves' = moves + 1
  BY DEF Go
<1>3. /\ place' \in Places /\ place' = pl
      /\ form' \in Forms
      /\ observed' \in Pets \cup {NoPet} /\ observed' = pl.pet
      /\ flight' \in {NoFetch, Sent} \cup Versions \cup {Gone}
      /\ observed' = NoPet => flight' = NoFetch
  BY <1>1, ShownIsTyped
<1>4. requests \in [Slots -> Requests \cup {NoRequest}]
  BY DEF TypeOK
<1>5. requests' \in [Slots -> Requests \cup {NoRequest}]
  BY <1>1, <1>4, RetargetedIsTyped
<1>6. ASSUME NEW s \in Slots, requests'[s] # NoRequest
      PROVE  requests[s] # NoRequest /\ requests'[s].kind = requests[s].kind
             /\ requests'[s].pet = requests[s].pet /\ requests'[s].made = requests[s].made
             /\ requests'[s].target \in {requests[s].target, Place("details", pl.pet)}
  BY <1>1, <1>4, <1>6, RetargetedIsTyped
<1>7. ASSUME NEW s \in Slots, requests[s] # NoRequest
      PROVE  requests'[s] # NoRequest
  BY <1>1, <1>4, <1>7, RetargetedIsTyped
<1>8. TypeOK'
  BY <1>1, <1>2, <1>3, <1>5, <1>7, PagesAssumption DEF TypeOK, Queries!CacheTypeOK
<1>9. WritesNamePets'
  BY <1>1, <1>2, <1>6, PlacesOfPets DEF WritesNamePets
<1>. QED
  BY <1>1, <1>2, <1>3, <1>8, <1>9 DEF OnScreen

\* A press sends a request about the page on screen.
LEMMA PressTyped ==
  ASSUME Typed, NEW kind \in Kinds, NEW target \in Places, Press(kind, target),
         kind # "create" => place.pet \in Pets,
         target.pet # NoPet => target.pet = place.pet
  PROVE  Typed'
<1>. USE DEF Typed
<1>1. PICK s \in Slots :
        /\ requests[s] = NoRequest
        /\ requests' = [requests EXCEPT ![s] =
             [kind |-> kind, pet |-> place.pet, text |-> form.of,
              target |-> target, made |-> Unborn]]
        /\ own' = s
  BY Zenon DEF Press
<1>2. UNCHANGED <<stored, place, form, visit, acked, queries, moves>>
      /\ presses < MaxPresses /\ presses' = presses + 1
  BY DEF Press
<1>. DEFINE r == [kind |-> kind, pet |-> place.pet, text |-> form.of,
                  target |-> target, made |-> Unborn]
<1>3. r \in Requests
  BY PlacesHavePets DEF TypeOK, Requests, Forms
<1>4. requests' \in [Slots -> Requests \cup {NoRequest}]
  BY <1>1, <1>3 DEF TypeOK
<1>5. TypeOK'
  BY <1>1, <1>2, <1>3, <1>4, NothingAssumption, PagesAssumption
  DEF TypeOK, queries, Queries!CacheTypeOK
<1>6. OnScreen'
  BY <1>2 DEF OnScreen, queries
<1>7. WritesNamePets'
  BY <1>1, <1>2 DEF WritesNamePets, OnScreen, TypeOK
<1>. QED
  BY <1>5, <1>6, <1>7

\* The server runs a write: its own, and that of a request of this browser.
LEMMA CommitTyped ==
  ASSUME Typed, NEW s \in Slots, Commit(s)
  PROVE  Typed'
<1>. USE DEF Typed
<1>. DEFINE r == requests[s]
<1>1. PICK p \in IF r.kind = "create" THEN Pets ELSE {r.pet} : \E v \in Outcome(r.kind, p) :
       /\ stored' = [stored EXCEPT ![p] = v]
       /\ requests' = [requests EXCEPT ![s].pet = p, ![s].made = v,
            ![s].target = IF r.kind = "create" THEN Place("details", p) ELSE @]
  BY Zenon DEF Commit
<1>2. PICK v \in Outcome(r.kind, p) :
       /\ stored' = [stored EXCEPT ![p] = v]
       /\ requests' = [requests EXCEPT ![s].pet = p, ![s].made = v,
            ![s].target = IF r.kind = "create" THEN Place("details", p) ELSE @]
  BY <1>1, Zenon
<1>3. r # NoRequest /\ r \in Requests /\ r.made = Unborn /\ r.kind \in Kinds
  BY DEF Commit, TypeOK, Requests
<1>4. p \in Pets
  BY <1>1, <1>3 DEF WritesNamePets
<1>5. v \in Versions \cup {Gone} /\ v # Unborn
  BY <1>2, <1>3, <1>4, OutcomesAreLater
<1>. DEFINE t == IF r.kind = "create" THEN Place("details", p) ELSE r.target
<1>6. t \in Places /\ (t.pet # NoPet => t.pet = p \/ stored[t.pet] # Unborn)
  BY <1>3, <1>4, PlacesOfPets DEF Requests, WritesNamePets
<1>7. /\ requests'[s] \in Requests
      /\ requests'[s].kind = r.kind /\ requests'[s].pet = p
      /\ requests'[s].made = v /\ requests'[s].target = t
  BY <1>2, <1>3, <1>4, <1>5, <1>6 DEF Requests, TypeOK
<1>8. requests' \in [Slots -> Requests \cup {NoRequest}]
      /\ \A i \in Slots \ {s} : requests'[i] = requests[i]
  BY <1>2, <1>7 DEF TypeOK
<1>9. /\ stored' \in [Pets -> Versions \cup {Unborn, Gone}]
      /\ \A q \in Pets : stored[q] # Unborn => stored'[q] # Unborn
      /\ stored'[p] # Unborn
  BY <1>2, <1>4, <1>5 DEF TypeOK
<1>10. UNCHANGED <<place, form, own, acked, queries, moves, presses>>
       /\ visit' = (IF own = s /\ r.kind = "create" THEN [visit EXCEPT !.made = @ + 1] ELSE visit)
  BY DEF Commit
<1>11. visit' \in [made : Nat, errors : Nat]
  BY <1>10 DEF TypeOK
<1>12. own' # NoSlot => requests'[own'] # NoRequest
  BY <1>7, <1>8, <1>10, NothingAssumption DEF TypeOK
<1>13. TypeOK'
  BY <1>8, <1>9, <1>10, <1>11, <1>12 DEF TypeOK, queries, Queries!CacheTypeOK
<1>14. OnScreen'
  BY <1>9, <1>10, PlacesHavePets DEF OnScreen, TypeOK, queries
<1>15. ASSUME NEW i \in Slots, requests'[i] # NoRequest
       PROVE  /\ requests'[i].kind # "create" \/ requests'[i].made # Unborn => requests'[i].pet \in Pets
              /\ requests'[i].target.pet # NoPet => stored'[requests'[i].target.pet] # Unborn
  <2>1. CASE i = s
    <3>1. t.pet \in Pets \cup {NoPet}
      BY <1>6, PlacesHavePets
    <3>. QED
      BY <1>4, <1>6, <1>7, <1>9, <2>1, <3>1
  <2>2. CASE i # s
    <3>1. requests'[i] = requests[i] /\ requests[i] \in Requests
      BY <1>8, <1>15, <2>2 DEF TypeOK
    <3>2. requests[i].target.pet \in Pets \cup {NoPet}
      BY <3>1, PlacesHavePets DEF Requests
    <3>. QED
      BY <1>9, <1>15, <3>1, <3>2 DEF WritesNamePets
  <2>. QED
    BY <2>1, <2>2
<1>. QED
  BY <1>13, <1>14, <1>15 DEF WritesNamePets

\* onSuccess shows the target of the request, over a cache that is stale.
LEMMA SucceedTyped ==
  ASSUME Typed, NEW s \in Slots, Succeed(s)
  PROVE  Typed'
<1>. USE DEF Typed
<1>. DEFINE r == requests[s]
            left == [requests EXCEPT ![s] = NoRequest]
<1>1. r # NoRequest /\ r \in Requests /\ r.made # Unborn /\ r.target \in Places
  BY DEF Succeed, TypeOK, Requests
<1>2. r.pet \in Pets /\ (r.target.pet # NoPet => stored[r.target.pet] # Unborn)
  BY <1>1 DEF WritesNamePets
<1>3. Show(r.target, stale', Queries!Invalidated)
  BY DEF Succeed
<1>4. /\ Queries!Invalidated \in {NoFetch, Sent} \cup Versions \cup {Gone}
  BY DEF Queries!Invalidated, Queries!Refetched, TypeOK, Queries!CacheTypeOK
<1>5. ASSUME NEW new, NEW fetch \in {NoFetch, Sent} \cup Versions \cup {Gone},
             Show(r.target, new, fetch),
             observed = NoPet => fetch = NoFetch
      PROVE  /\ place' \in Places /\ place' = r.target
             /\ form' \in Forms
             /\ observed' \in Pets \cup {NoPet} /\ observed' = r.target.pet
             /\ flight' \in {NoFetch, Sent} \cup Versions \cup {Gone}
             /\ observed' = NoPet => flight' = NoFetch
  <2>1. CASE r.target = place
    BY <1>1, <1>5, <2>1, ShownIsTyped DEF OnScreen
  <2>2. CASE r.target # place
    <3>1. Show(r.target, new, NoFetch)
      BY <1>5, <2>2 DEF Show
    <3>. QED
      BY <1>1, <3>1, ShownIsTyped
  <2>. QED
    BY <2>1, <2>2
<1>6. observed = NoPet => Queries!Invalidated = NoFetch
  BY DEF Queries!Invalidated, Queries!Refetched
<1>7. /\ place' \in Places /\ place' = r.target
      /\ form' \in Forms
      /\ observed' \in Pets \cup {NoPet} /\ observed' = r.target.pet
      /\ flight' \in {NoFetch, Sent} \cup Versions \cup {Gone}
      /\ observed' = NoPet => flight' = NoFetch
  BY <1>3, <1>4, <1>5, <1>6
<1>8. /\ UNCHANGED <<stored, cache, failed, moves, presses>>
      /\ acked' = [acked EXCEPT ![r.pet] = Newest(r.pet, r.made)]
      /\ stale' = Queries!AllStale
      /\ requests' = Retargeted(left, r.target)
      /\ own' = (IF r.target.name # place.name THEN NoSlot ELSE Released(s))
      /\ visit' = (IF r.target = place THEN visit ELSE [made |-> 0, errors |-> 0])
  BY DEF Succeed
<1>9. left \in [Slots -> Requests \cup {NoRequest}]
  BY DEF TypeOK
<1>10. \A i \in Slots : IF i = s THEN left[i] = NoRequest ELSE left[i] = requests[i]
  BY DEF TypeOK
<1>. HIDE DEF left
<1>11. requests' \in [Slots -> Requests \cup {NoRequest}]
  BY <1>1, <1>8, <1>9, RetargetedIsTyped
<1>12. ASSUME NEW i \in Slots, requests'[i] # NoRequest
       PROVE  /\ i # s /\ requests[i] # NoRequest
              /\ requests'[i].kind = requests[i].kind
              /\ requests'[i].pet = requests[i].pet /\ requests'[i].made = requests[i].made
              /\ requests'[i].target \in {requests[i].target, Place("details", r.target.pet)}
  <2>1. left[i] # NoRequest
    BY <1>1, <1>8, <1>9, <1>12, RetargetedIsTyped
  <2>. QED
    BY <1>1, <1>8, <1>9, <1>10, <2>1, RetargetedIsTyped
<1>13. \A i \in Slots \ {s} : requests[i] # NoRequest => requests'[i] # NoRequest
  BY <1>1, <1>8, <1>9, <1>10, RetargetedIsTyped
<1>14. own' \in Slots \cup {NoSlot} /\ (own' # NoSlot => requests'[own'] # NoRequest)
  BY <1>8, <1>13 DEF Released, TypeOK
<1>15. acked' \in [Pets -> Versions \cup {Unborn, Gone}]
  BY <1>1, <1>2, <1>8 DEF TypeOK, Newest, Requests
<1>16. stale' \subseteq Pets
  BY <1>8 DEF Queries!AllStale
<1>17. TypeOK'
  BY <1>7, <1>8, <1>11, <1>14, <1>15, <1>16 DEF TypeOK, Queries!CacheTypeOK
<1>18. WritesNamePets'
  BY <1>2, <1>8, <1>12, PlacesOfPets DEF WritesNamePets
<1>. QED
  BY <1>2, <1>7, <1>8, <1>17, <1>18 DEF OnScreen

\* Steps that leave the pets, the page, its own request and the writes alone
\* have only the cache to answer for.
LEMMA QueriesTyped ==
  ASSUME Typed, Queries!CacheTypeOK(Versions, {Gone})',
         UNCHANGED <<stored, place, own, requests, visit, acked, observed, moves, presses>>,
         form' \in Forms
  PROVE  Typed'
<1>1. TypeOK'
  BY DEF Typed, TypeOK
<1>2. OnScreen' /\ WritesNamePets'
  BY DEF Typed, OnScreen, WritesNamePets
<1>. QED
  BY <1>1, <1>2 DEF Typed

LEMMA StepTyped ==
  ASSUME Typed, [Next]_vars
  PROVE  Typed'
<1>1. CASE Go
  BY <1>1, GoTyped
<1>2. CASE Type
  <2>1. form' \in Forms /\ UNCHANGED <<stored, place, own, requests, visit, acked, queries, moves, presses>>
    BY <1>2, Parts DEF Type, Forms
  <2>. QED
    BY <2>1, QueriesTyped, Parts DEF queries, Queries!CacheTypeOK
<1>3. CASE PressSave
  <2>1. Press("save", Place("details", place.pet)) /\ place.pet \in Pets
    BY <1>3, PlacesHavePets, Parts DEF PressSave
  <2>2. Place("details", place.pet) \in Places /\ Place("details", place.pet).pet = place.pet
    BY <2>1, PlacesOfPets
  <2>3. "save" \in Kinds
    BY DEF Kinds
  <2>. QED
    BY <2>1, <2>2, <2>3, PressTyped
<1>4. CASE PressDelete
  <2>1. Press("delete", Place("list", NoPet)) /\ place.pet \in Pets
    BY <1>4, PlacesHavePets, Parts DEF PressDelete
  <2>2. "delete" \in Kinds
    BY DEF Kinds
  <2>. QED
    BY <2>1, <2>2, PlacesOfPets, PressTyped
<1>5. CASE PressCreate
  <2>1. Press("create", Place("list", NoPet))
    BY <1>5 DEF PressCreate
  <2>2. "create" \in Kinds
    BY DEF Kinds
  <2>. QED
    BY <2>1, <2>2, PlacesOfPets, PressTyped
<1>6. CASE OthersWrite
  <2>1. PICK kind \in Writes, p \in Pets : \E v \in Outcome(kind, p) : stored' = [stored EXCEPT ![p] = v]
    BY <1>6, Zenon DEF OthersWrite
  <2>2. PICK v \in Outcome(kind, p) : stored' = [stored EXCEPT ![p] = v]
    BY <2>1, Zenon
  <2>3. v \in Versions \cup {Gone} /\ v # Unborn
    BY <2>2, OutcomesAreLater, PagesAssumption DEF Typed
  <2>4. /\ stored' \in [Pets -> Versions \cup {Unborn, Gone}]
        /\ \A q \in Pets : stored[q] # Unborn => stored'[q] # Unborn
    BY <2>2, <2>3, Parts
  <2>5. UNCHANGED <<page, requests, acked, queries, moves, presses>>
    BY <1>6 DEF OthersWrite
  <2>6. TypeOK'
    BY <2>4, <2>5 DEF Typed, TypeOK, page, queries, Queries!CacheTypeOK
  <2>7. OnScreen'
    BY <2>4, <2>5, PlacesHavePets, Parts DEF Typed, OnScreen, page, queries
  <2>8. WritesNamePets'
    <3>1. ASSUME NEW s \in Slots, requests[s] # NoRequest
          PROVE  requests[s].target.pet \in Pets \cup {NoPet}
      <4>1. requests[s].target \in Places
        BY <3>1, Parts DEF Requests
      <4>. QED
        BY <4>1, PlacesHavePets
    <3>. QED
      BY <2>4, <2>5, <3>1 DEF Typed, WritesNamePets
  <2>. QED
    BY <2>6, <2>7, <2>8 DEF Typed
<1>7. ASSUME NEW s \in Slots, Commit(s)
      PROVE  Typed'
  BY <1>7, CommitTyped
<1>8. CASE ServerReads
  <2>1. observed \in Pets /\ stored[observed] \in Versions \cup {Gone}
    BY <1>8, Parts, NothingAssumption DEF ServerReads, Typed, OnScreen
  <2>2. UNCHANGED <<stored, page, requests, acked, cache, stale, failed, observed, moves, presses>>
        /\ flight' = stored[observed]
    BY <1>8 DEF ServerReads
  <2>. QED
    BY <2>1, <2>2, QueriesTyped, Parts, NothingAssumption DEF page, Queries!CacheTypeOK
<1>9. CASE Arrive
  <2>1. PICK v \in Versions : Queries!Receive(v)
    BY <1>9, Zenon DEF Arrive
  <2>2. /\ form' = (IF place.name = "edit" THEN Filled(form, place.pet, cache'[place.pet]) ELSE form)
        /\ UNCHANGED <<stored, place, own, visit, requests, acked, moves, presses>>
    BY <1>9 DEF Arrive
  <2>3. Queries!CacheTypeOK(Versions, {Gone})' /\ observed' = observed
    BY <2>1, Parts DEF Queries!Receive, Queries!CacheTypeOK
  <2>4. form' \in Forms
    <3>1. cache' \in [Pets -> Versions \cup {NoData}]
      BY <2>3 DEF Queries!CacheTypeOK
    <3>2. place.name = "edit" => place.pet \in Pets
      BY PlacesHavePets, Parts
    <3>. QED
      BY <2>2, <3>1, <3>2, FilledIsForm, Parts
  <2>. QED
    BY <2>2, <2>3, <2>4, QueriesTyped
<1>10. CASE FetchFails
  <2>1. Queries!CacheTypeOK(Versions, {Gone})' /\ observed' = observed
    BY <1>10, Parts DEF FetchFails, Queries!GiveUp, Queries!CacheTypeOK
  <2>. QED
    BY <1>10, <2>1, QueriesTyped, Parts DEF FetchFails, page
<1>11. CASE TimePasses
  <2>1. Queries!CacheTypeOK(Versions, {Gone})' /\ observed' = observed
    <3>1. CASE Queries!Expire
      BY <3>1, Parts DEF Queries!Expire, Queries!CacheTypeOK
    <3>2. CASE Queries!Refocus
      BY <3>2, Parts, NothingAssumption DEF Queries!Refocus, Queries!CacheTypeOK
    <3>. QED
      BY <1>11, <3>1, <3>2 DEF TimePasses
  <2>. QED
    BY <1>11, <2>1, QueriesTyped, Parts DEF TimePasses, page
<1>12. ASSUME NEW s \in Slots, Succeed(s)
       PROVE  Typed'
  BY <1>12, SucceedTyped
<1>13. ASSUME NEW s \in Slots, Fail(s)
       PROVE  Typed'
  <2>1. /\ requests' = [requests EXCEPT ![s] = NoRequest]
        /\ own' = Released(s)
        /\ visit' = (IF own = s THEN [visit EXCEPT !.errors = @ + 1] ELSE visit)
        /\ UNCHANGED <<stored, place, form, acked, queries, moves, presses>>
    BY <1>13 DEF Fail
  <2>2. visit' \in [made : Nat, errors : Nat]
    BY <2>1, Parts
  <2>3. own' \in Slots \cup {NoSlot} /\ (own' # NoSlot => requests'[own'] # NoRequest)
    BY <2>1, Parts DEF Released
  <2>4. TypeOK'
    BY <2>1, <2>2, <2>3 DEF Typed, TypeOK, queries, Queries!CacheTypeOK
  <2>5. OnScreen' /\ WritesNamePets'
    BY <2>1, Parts DEF Typed, OnScreen, WritesNamePets, queries
  <2>. QED
    BY <2>4, <2>5 DEF Typed
<1>14. CASE UNCHANGED vars
  BY <1>14 DEF vars, page, queries, Typed, TypeOK, OnScreen, WritesNamePets, Queries!CacheTypeOK
<1>. QED
  BY <1>1, <1>2, <1>3, <1>4, <1>5, <1>6, <1>7, <1>8, <1>9, <1>10, <1>11, <1>12, <1>13, <1>14
  DEF Next

LEMMA AlwaysTyped == Spec => []Typed
BY InitTyped, StepTyped, PTL DEF Spec

\* What the pages and the query cache keep, and what they send, is always of
\* the shape the code gives it.
THEOREM TypeCorrect == Spec => []TypeOK
<1>1. Typed => TypeOK
  BY DEF Typed
<1>. QED
  BY <1>1, AlwaysTyped, PTL

(***************************************************************************)
(* The page, its own request and the text in it.                           *)
(***************************************************************************)
\* A page's own request is of the kind the page sends, and what a request does
\* when it succeeds is what its kind does.
RequestsKnowTheirPage ==
  /\ own # NoSlot =>
       \/ requests[own].kind = "save" /\ place.name = "edit"
       \/ requests[own].kind = "delete" /\ place.name = "details"
       \/ requests[own].kind = "create" /\ place.name = "new"
  /\ \A s \in Slots : requests[s] # NoRequest =>
       /\ requests[s].kind = "save" => requests[s].target.name = "details"
       /\ requests[s].kind = "delete" => requests[s].target.name = "list"
       /\ requests[s].kind = "create" /\ requests[s].made # Unborn =>
            requests[s].made = 0 /\ requests[s].target.name = "details"

\* A form filled from the cache knows what it was filled with.
FormKnowsItsPet == place.name = "edit" /\ cache[place.pet] # NoData => form.seen

\* Only what is cached can be edited and saved.
SavesAreOfCached ==
  \A s \in Slots : requests[s] # NoRequest /\ requests[s].kind = "save" =>
    cache[requests[s].pet] # NoData

FormInv == Typed /\ EditsOwnPet /\ FormKnowsItsPet /\ SavesAreOfCached

\* A visit has made a pet for each error it told of, and one more only while
\* its own create is waiting for the answer.
CreateUnanswered == own # NoSlot /\ requests[own].kind = "create" /\ requests[own].made # Unborn

CreatesAnswered ==
  visit.made <= visit.errors + (IF CreateUnanswered THEN 1 ELSE 0)

\* Filled with data, the form is of those data.
LEMMA FilledIsOfData ==
  ASSUME NEW f \in Forms, NEW p \in Pets, NEW data \in Versions
  PROVE  /\ Filled(f, p, data).seen
         /\ Filled(f, p, data).of = p /\ Filled(f, p, data).base = data
         /\ f.seen /\ f.of = p /\ f.base = data => Filled(f, p, data) = f
BY NothingAssumption DEF Filled, Forms

\* A place that is shown fills its form from the cache.
LEMMA ShownFormIsOfCache ==
  ASSUME Typed, NEW pl \in Places, NEW staleKeys, NEW fetch,
         Show(pl, staleKeys, fetch), cache' = cache
  PROVE  /\ FormFollowsCache' /\ FormKnowsItsPet'
<1>1. place' = pl
  BY DEF Show
<1>2. CASE pl.name = "edit" /\ cache[pl.pet] # NoData
  <2>1. pl.pet \in Pets /\ cache[pl.pet] \in Versions
    BY <1>2, PlacesHavePets, Parts
  <2>2. FormAt(pl) \in Forms
    BY Parts, PagesAssumption DEF FormAt, EmptyForm, Forms, Versions
  <2>3. form' = Filled(FormAt(pl), pl.pet, cache[pl.pet])
    BY <1>2 DEF Show
  <2>. QED
    BY <1>1, <2>1, <2>2, <2>3, FilledIsOfData DEF FormFollowsCache, FormKnowsItsPet
<1>3. CASE ~(pl.name = "edit" /\ cache[pl.pet] # NoData)
  BY <1>1, <1>3 DEF FormFollowsCache, FormKnowsItsPet
<1>. QED
  BY <1>2, <1>3

\* What is under way after Go or Succeed was under way before, and only where
\* it leads may have changed.
LEMMA MovedRequests ==
  ASSUME Typed, NEW reqs \in [Slots -> Requests \cup {NoRequest}],
         \A s \in Slots : reqs[s] # NoRequest => reqs[s] = requests[s],
         NEW pl \in Places, requests' = Retargeted(reqs, pl),
         NEW s \in Slots, requests'[s] # NoRequest
  PROVE  /\ requests[s] # NoRequest
         /\ requests'[s].kind = requests[s].kind /\ requests'[s].pet = requests[s].pet
         /\ requests'[s].text = requests[s].text /\ requests'[s].made = requests[s].made
         /\ \/ requests'[s].target = requests[s].target
            \/ s = own /\ place.name = "edit" /\ requests'[s].target = Place("details", pl.pet)
<1>1. reqs[s] # NoRequest
  BY RetargetedIsTyped
<1>. QED
  BY <1>1, RetargetedIsTyped

LEMMA GoMoves ==
  ASSUME Typed, Go
  PROVE  \E pl \in Places \ {place} :
           /\ Show(pl, stale, NoFetch)
           /\ requests' = Retargeted(requests, pl)
           /\ own' = IF pl.name = place.name THEN own ELSE NoSlot
           /\ visit' = [made |-> 0, errors |-> 0]
           /\ UNCHANGED <<stored, acked, cache, stale, failed>>
BY Zenon DEF Go

LEMMA SucceedMoves ==
  ASSUME Typed, NEW s \in Slots, Succeed(s)
  PROVE  LET left == [requests EXCEPT ![s] = NoRequest] IN
         /\ requests[s] \in Requests /\ requests[s] # NoRequest /\ requests[s].made # Unborn
         /\ requests[s].pet \in Pets /\ requests[s].target \in Places
         /\ left \in [Slots -> Requests \cup {NoRequest}]
         /\ left[s] = NoRequest
         /\ \A i \in Slots : left[i] # NoRequest => left[i] = requests[i] /\ i # s
         /\ \A i \in Slots \ {s} : left[i] = requests[i]
         /\ requests' = Retargeted(left, requests[s].target)
<1>1. requests[s] \in Requests /\ requests[s] # NoRequest /\ requests[s].made # Unborn
  BY Parts DEF Succeed
<1>2. requests[s].target \in Places
  BY <1>1 DEF Requests
<1>. QED
  BY <1>1, <1>2, Parts DEF Succeed, Typed, WritesNamePets

\* Requests that were under way with the same pet and text keep their word.
LEMMA SavesKept ==
  ASSUME FormInv,
         \A s \in Slots : requests'[s] # NoRequest =>
           /\ requests[s] # NoRequest /\ requests'[s].kind = requests[s].kind
           /\ requests'[s].pet = requests[s].pet /\ requests'[s].text = requests[s].text,
         \A p \in Pets : cache[p] # NoData => cache'[p] # NoData
  PROVE  SaveSendsOwnText' /\ SavesAreOfCached'
<1>1. SaveSendsOwnText'
  BY DEF FormInv, EditsOwnPet, SaveSendsOwnText
<1>2. ASSUME NEW s \in Slots, requests'[s] # NoRequest, requests'[s].kind = "save"
      PROVE  cache'[requests'[s].pet] # NoData
  <2>1. requests[s].pet \in Pets
    BY <1>2 DEF FormInv, Typed, WritesNamePets
  <2>. QED
    BY <1>2, <2>1 DEF FormInv, SavesAreOfCached
<1>. QED
  BY <1>1, <1>2 DEF SavesAreOfCached

LEMMA InitForm == Init => FormInv
<1>1. ASSUME Init PROVE EditsOwnPet /\ FormKnowsItsPet /\ SavesAreOfCached
  <2>1. place.name = "edit" => cache[place.pet] = NoData
    BY <1>1, PlacesHavePets DEF Init, Queries!CacheInit
  <2>2. \A s \in Slots : requests[s] = NoRequest
    BY <1>1 DEF Init
  <2>. QED
    BY <2>1, <2>2 DEF EditsOwnPet, SaveSendsOwnText, FormFollowsCache, FormKnowsItsPet, SavesAreOfCached
<1>. QED
  BY <1>1, InitTyped DEF FormInv

\* A press keeps the cache and the form, and sends the text of the form.
LEMMA PressForm ==
  ASSUME FormInv, NEW kind \in Kinds, NEW target \in Places, Press(kind, target),
         kind = "save" => place.name = "edit" /\ cache[place.pet] # NoData
  PROVE  EditsOwnPet' /\ FormKnowsItsPet' /\ SavesAreOfCached'
<1>. USE DEF FormInv
<1>1. PICK s \in Slots :
        /\ requests[s] = NoRequest
        /\ requests' = [requests EXCEPT ![s] =
             [kind |-> kind, pet |-> place.pet, text |-> form.of,
              target |-> target, made |-> Unborn]]
        /\ own' = s
  BY Zenon DEF Press
<1>2. UNCHANGED <<place, form, cache>>
  BY DEF Press, queries
<1>3. FormFollowsCache' /\ FormKnowsItsPet'
  BY <1>2 DEF EditsOwnPet, FormFollowsCache, FormKnowsItsPet
<1>4. /\ requests'[s].kind = kind /\ requests'[s].pet = place.pet
      /\ requests'[s].text = form.of
  BY <1>1, Parts
<1>5. \A i \in Slots \ {s} : requests'[i] = requests[i]
  BY <1>1, Parts
<1>6. kind = "save" => form.of = place.pet
  BY DEF EditsOwnPet, FormFollowsCache
<1>7. SaveSendsOwnText'
  BY <1>4, <1>5, <1>6 DEF EditsOwnPet, SaveSendsOwnText
<1>8. SavesAreOfCached'
  BY <1>2, <1>4, <1>5 DEF SavesAreOfCached
<1>. QED
  BY <1>3, <1>7, <1>8 DEF EditsOwnPet

LEMMA StepForm ==
  ASSUME FormInv, [Next]_vars
  PROVE  FormInv'
<1>. USE DEF FormInv
<1>1. CASE Go
  <2>1. PICK pl \in Places \ {place} :
          Show(pl, stale, NoFetch) /\ requests' = Retargeted(requests, pl) /\ cache' = cache
    BY <1>1, GoMoves
  <2>2. FormFollowsCache' /\ FormKnowsItsPet'
    BY <2>1, ShownFormIsOfCache
  <2>3. requests \in [Slots -> Requests \cup {NoRequest}]
    BY Parts
  <2>. QED
    BY <1>1, <2>1, <2>2, <2>3, MovedRequests, SavesKept, StepTyped DEF EditsOwnPet
<1>2. CASE Type
  <2>1. /\ form'.of = form.of /\ form'.base = form.base /\ form'.seen = form.seen
        /\ UNCHANGED <<place, requests, cache>>
    BY <1>2, Parts DEF Type, Forms, queries
  <2>. QED
    BY <2>1, StepTyped
    DEF EditsOwnPet, SaveSendsOwnText, FormFollowsCache, FormKnowsItsPet, SavesAreOfCached
<1>3. CASE PressSave
  <2>1. /\ Press("save", Place("details", place.pet))
        /\ place.name = "edit" /\ cache[place.pet] # NoData
    BY <1>3 DEF PressSave, Queries!Shown
  <2>2. Place("details", place.pet) \in Places
    BY <2>1, PlacesHavePets, PlacesOfPets, Parts
  <2>3. "save" \in Kinds
    BY DEF Kinds
  <2>. QED
    BY <2>1, <2>2, <2>3, PressForm, StepTyped
<1>4. CASE PressDelete
  <2>1. Press("delete", Place("list", NoPet)) /\ "delete" \in Kinds
    BY <1>4 DEF PressDelete, Kinds
  <2>. QED
    BY <2>1, PlacesOfPets, PressForm, StepTyped
<1>5. CASE PressCreate
  <2>1. Press("create", Place("list", NoPet)) /\ "create" \in Kinds
    BY <1>5 DEF PressCreate, Kinds
  <2>. QED
    BY <2>1, PlacesOfPets, PressForm, StepTyped
<1>6. ASSUME UNCHANGED <<place, form, requests, cache>>
      PROVE  FormInv'
  BY <1>6, StepTyped
  DEF EditsOwnPet, SaveSendsOwnText, FormFollowsCache, FormKnowsItsPet, SavesAreOfCached
<1>7. ASSUME NEW s \in Slots, Commit(s)
      PROVE  FormInv'
  <2>1. UNCHANGED <<place, form, cache>>
    BY <1>7 DEF Commit, queries
  <2>. DEFINE r == requests[s]
  <2>2. PICK p \in IF r.kind = "create" THEN Pets ELSE {r.pet} : \E v \in Outcome(r.kind, p) :
         /\ stored' = [stored EXCEPT ![p] = v]
         /\ requests' = [requests EXCEPT ![s].pet = p, ![s].made = v,
              ![s].target = IF r.kind = "create" THEN Place("details", p) ELSE @]
    BY <1>7, Zenon DEF Commit
  <2>3. PICK v \in Outcome(r.kind, p) :
         /\ stored' = [stored EXCEPT ![p] = v]
         /\ requests' = [requests EXCEPT ![s].pet = p, ![s].made = v,
              ![s].target = IF r.kind = "create" THEN Place("details", p) ELSE @]
    BY <2>2, Zenon
  <2>4. r # NoRequest /\ r \in Requests
    BY <1>7, Parts DEF Commit
  <2>5. /\ requests'[s].kind = r.kind /\ requests'[s].text = r.text
        /\ requests'[s].pet = p
    BY <2>3, <2>4, Parts DEF Requests
  <2>6. \A i \in Slots \ {s} : requests'[i] = requests[i]
    BY <2>3, Parts
  <2>7. r.kind = "save" => p = r.pet
    BY <2>2
  <2>8. SaveSendsOwnText'
    BY <2>4, <2>5, <2>6, <2>7 DEF EditsOwnPet, SaveSendsOwnText
  <2>9. SavesAreOfCached'
    BY <2>1, <2>4, <2>5, <2>6, <2>7 DEF SavesAreOfCached
  <2>10. FormFollowsCache' /\ FormKnowsItsPet'
    BY <2>1 DEF EditsOwnPet, FormFollowsCache, FormKnowsItsPet
  <2>. QED
    BY <2>8, <2>9, <2>10, StepTyped DEF EditsOwnPet
<1>8. CASE Arrive
  <2>1. PICK v \in Versions : Queries!Receive(v)
    BY <1>8, Zenon DEF Arrive
  <2>2. /\ form' = (IF place.name = "edit" THEN Filled(form, place.pet, cache'[place.pet]) ELSE form)
        /\ UNCHANGED <<place, requests>>
    BY <1>8 DEF Arrive
  <2>3. /\ cache' = [cache EXCEPT ![observed] = v]
        /\ v # NoData /\ observed = place.pet
    BY <2>1, NothingAssumption, Parts DEF Queries!Receive
  <2>4. \A p \in Pets : cache[p] # NoData => cache'[p] # NoData
    BY <2>3, Parts
  <2>5. SaveSendsOwnText' /\ SavesAreOfCached'
    BY <2>2, <2>4, SavesKept
  <2>6. CASE place.name = "edit"
    <3>1. place.pet \in Pets /\ cache'[place.pet] = v
      BY <2>3, <2>6, PlacesHavePets, Parts
    <3>. QED
      BY <2>1, <2>2, <2>5, <2>6, <3>1, FilledIsOfData, StepTyped, Parts
      DEF EditsOwnPet, FormFollowsCache, FormKnowsItsPet
  <2>7. CASE place.name # "edit"
    BY <2>2, <2>5, <2>7, StepTyped DEF EditsOwnPet, FormFollowsCache, FormKnowsItsPet
  <2>. QED
    BY <2>6, <2>7
<1>9. ASSUME NEW s \in Slots, Succeed(s)
      PROVE  FormInv'
  <2>. DEFINE left == [requests EXCEPT ![s] = NoRequest]
              pl == requests[s].target
  <2>1. /\ pl \in Places /\ requests' = Retargeted(left, pl)
        /\ left \in [Slots -> Requests \cup {NoRequest}]
        /\ \A i \in Slots : left[i] # NoRequest => left[i] = requests[i]
    BY <1>9, SucceedMoves
  <2>2. Show(pl, stale', Queries!Invalidated) /\ cache' = cache
    BY <1>9 DEF Succeed
  <2>. HIDE DEF left, pl
  <2>3. \A new, fetch : Show(pl, new, fetch) => FormFollowsCache' /\ FormKnowsItsPet'
    BY <2>1, <2>2, ShownFormIsOfCache
  <2>4. FormFollowsCache' /\ FormKnowsItsPet'
    BY <2>2, <2>3
  <2>. QED
    BY <2>1, <2>2, <2>4, MovedRequests, SavesKept, StepTyped DEF EditsOwnPet
<1>10. ASSUME NEW s \in Slots, Fail(s)
       PROVE  FormInv'
  <2>1. requests' = [requests EXCEPT ![s] = NoRequest] /\ UNCHANGED <<place, form, cache>>
    BY <1>10 DEF Fail, queries
  <2>2. \A i \in Slots : requests'[i] # NoRequest => requests'[i] = requests[i]
    BY <2>1, Parts
  <2>. QED
    BY <2>1, <2>2, SavesKept, StepTyped DEF EditsOwnPet, FormFollowsCache, FormKnowsItsPet
<1>11. CASE OthersWrite
  BY <1>6, <1>11 DEF OthersWrite, page, queries
<1>12. CASE ServerReads
  BY <1>6, <1>12 DEF ServerReads, page, queries
<1>13. CASE FetchFails
  BY <1>6, <1>13 DEF FetchFails, Queries!GiveUp, page
<1>14. CASE TimePasses
  BY <1>6, <1>14 DEF TimePasses, Queries!Expire, Queries!Refocus, page
<1>15. CASE UNCHANGED vars
  BY <1>6, <1>15 DEF vars, page, queries
<1>. QED
  BY <1>1, <1>2, <1>3, <1>4, <1>5, <1>7, <1>8, <1>9, <1>10, <1>11, <1>12, <1>13, <1>14, <1>15
  DEF Next

LEMMA AlwaysForm == Spec => []FormInv
BY InitForm, StepForm, PTL DEF Spec

\* The edit page shows and sends the pet of its address, and nothing else:
\* whichever way the user moves between pets, and whatever arrives meanwhile,
\* the effect of EditPet.tsx has filled the form before anything can be pressed.
THEOREM TextsBelongToTheirPet == Spec => []EditsOwnPet
<1>1. FormInv => EditsOwnPet
  BY DEF FormInv
<1>. QED
  BY <1>1, AlwaysForm, PTL

\* The effect runs over a typed text, and nothing new has come: it stays.
LEMMA FilledKeepsTyped ==
  ASSUME FormInv, form.typed, place.name = "edit"
  PROVE  Filled(form, place.pet, cache[place.pet]).typed
<1>1. CASE cache[place.pet] = NoData
  BY <1>1, Parts DEF FormInv, Filled, Forms
<1>2. CASE cache[place.pet] # NoData
  <2>1. form.seen /\ form.of = place.pet /\ form.base = cache[place.pet]
    BY <1>2 DEF FormInv, EditsOwnPet, FormFollowsCache, FormKnowsItsPet
  <2>. QED
    BY <1>2, <2>1 DEF Filled
<1>. QED
  BY <1>1, <1>2

LEMMA TypedTextStays ==
  ASSUME FormInv, [Next]_vars, form.typed, place' = place,
         cache'[place.pet] = cache[place.pet]
  PROVE  form'.typed
<1>1. ASSUME NEW pl, NEW new, NEW fetch, Show(pl, new, fetch)
      PROVE  form'.typed
  <2>1. pl = place /\ FormAt(pl) = form
    BY <1>1 DEF Show, FormAt
  <2>2. form' = (IF place.name = "edit" THEN Filled(form, place.pet, cache[place.pet]) ELSE form)
    BY <1>1, <2>1 DEF Show
  <2>. QED
    BY <2>2, FilledKeepsTyped
<1>2. CASE Go
  BY <1>1, <1>2, GoMoves DEF FormInv
<1>3. ASSUME NEW s \in Slots, Succeed(s)
      PROVE  form'.typed
  BY <1>1, <1>3, Zenon DEF Succeed
<1>4. CASE Arrive
  <2>1. form' = (IF place.name = "edit" THEN Filled(form, place.pet, cache'[place.pet]) ELSE form)
    BY <1>4 DEF Arrive
  <2>2. form' = (IF place.name = "edit" THEN Filled(form, place.pet, cache[place.pet]) ELSE form)
    BY <2>1
  <2>. QED
    BY <2>2, FilledKeepsTyped
<1>5. CASE Type
  BY <1>5, Parts DEF Type, Forms, FormInv
<1>6. CASE PressSave \/ PressDelete \/ PressCreate
  BY <1>6 DEF PressSave, PressDelete, PressCreate, Press
<1>7. CASE OthersWrite \/ ServerReads \/ FetchFails \/ TimePasses
  BY <1>7 DEF OthersWrite, ServerReads, FetchFails, TimePasses, page
<1>8. ASSUME NEW s \in Slots, Commit(s) \/ Fail(s)
      PROVE  form'.typed
  BY <1>8 DEF Commit, Fail
<1>9. CASE UNCHANGED vars
  BY <1>9 DEF vars, page
<1>. QED
  BY <1>2, <1>3, <1>4, <1>5, <1>6, <1>7, <1>8, <1>9 DEF Next

\* What the user has typed is overwritten only by a new version of the pet: a
\* refetch that brings an equal object leaves the effect, and the text, alone.
THEOREM TypedTextSurvives == Spec => TypedTextLostOnlyToNews
<1>1. FormInv /\ [Next]_vars =>
        [form.typed /\ ~form'.typed /\ place' = place =>
           cache'[place.pet] # cache[place.pet]]_vars
  BY TypedTextStays
<1>. QED
  BY <1>1, AlwaysForm, PTL DEF Spec, TypedTextLostOnlyToNews

(***************************************************************************)
(* Creating.                                                               *)
(***************************************************************************)
PageInv == Typed /\ RequestsKnowTheirPage

LEMMA InitPage == Init => PageInv
BY InitTyped DEF Init, PageInv, RequestsKnowTheirPage

LEMMA PressPage ==
  ASSUME PageInv, NEW kind \in Kinds, NEW target \in Places, Press(kind, target),
         \/ kind = "save" /\ place.name = "edit" /\ target.name = "details"
         \/ kind = "delete" /\ place.name = "details" /\ target.name = "list"
         \/ kind = "create" /\ place.name = "new"
  PROVE  RequestsKnowTheirPage'
<1>. USE DEF PageInv
<1>1. PICK s \in Slots :
        /\ requests[s] = NoRequest
        /\ requests' = [requests EXCEPT ![s] =
             [kind |-> kind, pet |-> place.pet, text |-> form.of,
              target |-> target, made |-> Unborn]]
        /\ own' = s
  BY Zenon DEF Press
<1>2. place' = place
  BY DEF Press
<1>3. /\ requests'[s].kind = kind /\ requests'[s].target = target
      /\ requests'[s].made = Unborn
  BY <1>1, Parts
<1>4. \A i \in Slots \ {s} : requests'[i] = requests[i]
  BY <1>1, Parts
<1>. QED
  BY <1>1, <1>2, <1>3, <1>4 DEF RequestsKnowTheirPage

\* A page that is left takes nothing of its request with it.
LEMMA MovedPage ==
  ASSUME PageInv, NEW reqs \in [Slots -> Requests \cup {NoRequest}],
         \A s \in Slots : reqs[s] # NoRequest => reqs[s] = requests[s],
         NEW pl \in Places, requests' = Retargeted(reqs, pl), place' = pl,
         own' # NoSlot => own' = own /\ pl.name = place.name /\ requests'[own] # NoRequest
  PROVE  RequestsKnowTheirPage'
<1>1. ASSUME NEW s \in Slots, requests'[s] # NoRequest
      PROVE  /\ requests[s] # NoRequest
             /\ requests'[s].kind = requests[s].kind /\ requests'[s].made = requests[s].made
             /\ \/ requests'[s].target.name = requests[s].target.name
                \/ s = own /\ place.name = "edit" /\ requests'[s].target.name = "details"
  BY <1>1, MovedRequests, PlacesOfPets DEF PageInv
<1>2. own \in Slots \cup {NoSlot}
  BY Parts DEF PageInv
<1>3. own' # NoSlot => requests'[own'].kind = requests[own].kind /\ place'.name = place.name
  BY <1>1, <1>2
<1>. QED
  BY <1>1, <1>3, NothingAssumption DEF PageInv, RequestsKnowTheirPage

\* What the server does to a request it runs.
LEMMA CommitDoes ==
  ASSUME Typed, NEW s \in Slots, Commit(s)
  PROVE  LET r == requests[s] IN
         /\ r \in Requests /\ r # NoRequest /\ r.made = Unborn /\ r.kind \in Kinds
         /\ \E p \in Pets : \E v \in Outcome(r.kind, p) :
              /\ r.kind # "create" => p = r.pet
              /\ stored' = [stored EXCEPT ![p] = v]
              /\ requests'[s] \in Requests
              /\ requests'[s].kind = r.kind /\ requests'[s].pet = p
              /\ requests'[s].made = v
              /\ requests'[s].target = IF r.kind = "create" THEN Place("details", p) ELSE r.target
         /\ \A i \in Slots \ {s} : requests'[i] = requests[i]
<1>. DEFINE r == requests[s]
<1>1. r \in Requests /\ r # NoRequest /\ r.made = Unborn /\ r.kind \in Kinds
  BY Parts DEF Commit, Requests
<1>2. PICK p \in IF r.kind = "create" THEN Pets ELSE {r.pet} : \E v \in Outcome(r.kind, p) :
       /\ stored' = [stored EXCEPT ![p] = v]
       /\ requests' = [requests EXCEPT ![s].pet = p, ![s].made = v,
            ![s].target = IF r.kind = "create" THEN Place("details", p) ELSE @]
  BY Zenon DEF Commit
<1>3. PICK v \in Outcome(r.kind, p) :
       /\ stored' = [stored EXCEPT ![p] = v]
       /\ requests' = [requests EXCEPT ![s].pet = p, ![s].made = v,
            ![s].target = IF r.kind = "create" THEN Place("details", p) ELSE @]
  BY <1>2, Zenon
<1>4. p \in Pets /\ (r.kind # "create" => p = r.pet)
  BY <1>1, <1>2 DEF Typed, WritesNamePets
<1>5. v \in Versions \cup {Unborn, Gone}
  BY <1>1, <1>3, <1>4, OutcomesAreLater DEF Typed
<1>. DEFINE t == IF r.kind = "create" THEN Place("details", p) ELSE r.target
<1>6. t \in Places
  BY <1>1, <1>4, PlacesOfPets DEF Requests
<1>7. /\ requests'[s] \in Requests
      /\ requests'[s].kind = r.kind /\ requests'[s].pet = p
      /\ requests'[s].made = v /\ requests'[s].target = t
  BY <1>1, <1>3, <1>4, <1>5, <1>6, Parts DEF Requests
<1>8. \A i \in Slots \ {s} : requests'[i] = requests[i]
  BY <1>3, Parts
<1>. QED
  BY <1>1, <1>3, <1>4, <1>7, <1>8

LEMMA StepPage ==
  ASSUME PageInv, [Next]_vars
  PROVE  PageInv'
<1>. USE DEF PageInv
<1>1. CASE Go
  <2>1. PICK pl \in Places \ {place} :
          /\ Show(pl, stale, NoFetch) /\ requests' = Retargeted(requests, pl)
          /\ own' = IF pl.name = place.name THEN own ELSE NoSlot
    BY <1>1, GoMoves
  <2>2. requests \in [Slots -> Requests \cup {NoRequest}] /\ place' = pl
    BY <2>1, Parts DEF Show
  <2>3. own # NoSlot => requests'[own] # NoRequest
    BY <2>1, <2>2, RetargetedIsTyped, Parts
  <2>. QED
    BY <2>1, <2>2, <2>3, MovedPage, StepTyped
<1>2. CASE PressSave
  <2>1. Press("save", Place("details", place.pet)) /\ place.name = "edit"
    BY <1>2 DEF PressSave
  <2>2. Place("details", place.pet) \in Places /\ Place("details", place.pet).name = "details"
    BY <2>1, PlacesHavePets, PlacesOfPets, Parts
  <2>3. "save" \in Kinds
    BY DEF Kinds
  <2>. QED
    BY <2>1, <2>2, <2>3, PressPage, StepTyped
<1>3. CASE PressDelete
  <2>1. Press("delete", Place("list", NoPet)) /\ place.name = "details" /\ "delete" \in Kinds
    BY <1>3 DEF PressDelete, Kinds
  <2>. QED
    BY <2>1, PlacesOfPets, PressPage, StepTyped
<1>4. CASE PressCreate
  <2>1. Press("create", Place("list", NoPet)) /\ place.name = "new" /\ "create" \in Kinds
    BY <1>4 DEF PressCreate, Kinds
  <2>. QED
    BY <2>1, PlacesOfPets, PressPage, StepTyped
<1>5. ASSUME NEW s \in Slots, Commit(s)
      PROVE  PageInv'
  <2>1. UNCHANGED <<place, own>>
    BY <1>5 DEF Commit
  <2>2. /\ requests[s].kind = "create" => requests'[s].made = 0
        /\ requests[s] # NoRequest
        /\ requests'[s].kind = requests[s].kind
        /\ \/ requests[s].kind = "create" /\ requests'[s].target.name = "details"
           \/ requests[s].kind # "create" /\ requests'[s].target = requests[s].target
        /\ \A i \in Slots \ {s} : requests'[i] = requests[i]
    BY <1>5, CommitDoes, OutcomesAreLater, PlacesOfPets DEF Typed
  <2>3. RequestsKnowTheirPage'
    BY <2>1, <2>2, Parts DEF RequestsKnowTheirPage
  <2>. QED
    BY <2>3, StepTyped
<1>6. ASSUME NEW s \in Slots, Succeed(s)
      PROVE  PageInv'
  <2>. DEFINE left == [requests EXCEPT ![s] = NoRequest]
              pl == requests[s].target
  <2>1. /\ pl \in Places /\ requests' = Retargeted(left, pl)
        /\ left \in [Slots -> Requests \cup {NoRequest}]
        /\ \A i \in Slots : left[i] # NoRequest => left[i] = requests[i]
        /\ \A i \in Slots \ {s} : left[i] = requests[i]
    BY <1>6, SucceedMoves
  <2>2. place' = pl /\ own' = (IF pl.name # place.name THEN NoSlot ELSE Released(s))
    BY <1>6 DEF Succeed, Show
  <2>. HIDE DEF left, pl
  <2>3. own' # NoSlot => own' = own /\ pl.name = place.name /\ own # s
    BY <2>2 DEF Released
  <2>4. own' # NoSlot => requests'[own] # NoRequest
    BY <2>1, <2>3, RetargetedIsTyped, Parts
  <2>. QED
    BY <2>1, <2>2, <2>3, <2>4, MovedPage, StepTyped
<1>7. ASSUME NEW s \in Slots, Fail(s)
      PROVE  PageInv'
  <2>1. requests' = [requests EXCEPT ![s] = NoRequest] /\ place' = place /\ own' = Released(s)
    BY <1>7 DEF Fail
  <2>2. \A i \in Slots : requests'[i] # NoRequest => requests'[i] = requests[i]
    BY <2>1, Parts
  <2>3. own' # NoSlot => own' = own /\ requests'[own] = requests[own]
    BY <2>1, Parts DEF Released
  <2>4. RequestsKnowTheirPage'
    BY <2>1, <2>2, <2>3 DEF RequestsKnowTheirPage
  <2>. QED
    BY <2>4, StepTyped
<1>8. ASSUME UNCHANGED <<place, own, requests>>
      PROVE  PageInv'
  BY <1>8, StepTyped DEF RequestsKnowTheirPage
<1>9. CASE Type \/ OthersWrite \/ ServerReads \/ Arrive \/ FetchFails \/ TimePasses
  BY <1>8, <1>9 DEF Type, OthersWrite, ServerReads, Arrive, FetchFails, TimePasses, page
<1>10. CASE UNCHANGED vars
  BY <1>8, <1>10 DEF vars, page
<1>. QED
  BY <1>1, <1>2, <1>3, <1>4, <1>5, <1>6, <1>7, <1>9, <1>10 DEF Next

LEMMA StepCreates ==
  ASSUME PageInv, CreatesAnswered, [Next]_vars
  PROVE  CreatesAnswered'
<1>. USE DEF PageInv
<1>1. visit.made \in Nat /\ visit.errors \in Nat
  BY Parts
<1>2. ASSUME visit' = [made |-> 0, errors |-> 0]
      PROVE  CreatesAnswered'
  BY <1>2 DEF CreatesAnswered
<1>3. ASSUME visit' = visit, CreateUnanswered => CreateUnanswered'
      PROVE  CreatesAnswered'
  BY <1>1, <1>3 DEF CreatesAnswered
<1>4. CASE Go
  BY <1>2, <1>4, GoMoves
<1>5. CASE PressSave \/ PressDelete \/ PressCreate
  <2>1. visit' = visit /\ own = NoSlot
    BY <1>5 DEF PressSave, PressDelete, PressCreate, Press, ButtonEnabled
  <2>. QED
    BY <1>3, <2>1 DEF CreateUnanswered
<1>6. ASSUME NEW s \in Slots, Commit(s)
      PROVE  CreatesAnswered'
  <2>1. /\ requests[s].made = Unborn /\ requests'[s].kind = requests[s].kind
        /\ requests[s].kind = "create" => requests'[s].made # Unborn
        /\ \A i \in Slots \ {s} : requests'[i] = requests[i]
    BY <1>6, CommitDoes, OutcomesAreLater DEF Typed
  <2>2. /\ own' = own
        /\ visit' = (IF own = s /\ requests[s].kind = "create" THEN [visit EXCEPT !.made = @ + 1] ELSE visit)
    BY <1>6 DEF Commit
  <2>3. CASE own = s /\ requests[s].kind = "create"
    <3>1. visit.made <= visit.errors
      BY <1>1, <2>1, <2>3 DEF CreatesAnswered, CreateUnanswered
    <3>2. CreateUnanswered'
      BY <2>1, <2>2, <2>3, NothingAssumption DEF CreateUnanswered
    <3>3. visit'.made = visit.made + 1 /\ visit'.errors = visit.errors
      BY <2>2, <2>3, Parts
    <3>. QED
      BY <1>1, <3>1, <3>2, <3>3 DEF CreatesAnswered
  <2>4. CASE ~(own = s /\ requests[s].kind = "create")
    <3>1. CreateUnanswered => CreateUnanswered'
      BY <2>1, <2>2, <2>4, Parts DEF CreateUnanswered
    <3>. QED
      BY <1>3, <2>2, <2>4, <3>1
  <2>. QED
    BY <2>3, <2>4
<1>7. ASSUME NEW s \in Slots, Succeed(s)
      PROVE  CreatesAnswered'
  <2>. DEFINE left == [requests EXCEPT ![s] = NoRequest]
              pl == requests[s].target
  <2>1. /\ pl \in Places /\ requests' = Retargeted(left, pl)
        /\ requests[s] # NoRequest /\ requests[s].made # Unborn
        /\ left \in [Slots -> Requests \cup {NoRequest}]
        /\ \A i \in Slots \ {s} : left[i] = requests[i]
    BY <1>7, SucceedMoves
  <2>2. /\ own' = (IF pl.name # place.name THEN NoSlot ELSE Released(s))
        /\ visit' = (IF pl = place THEN visit ELSE [made |-> 0, errors |-> 0])
    BY <1>7 DEF Succeed
  <2>3. own = s => pl.name # place.name
    BY <2>1, NothingAssumption DEF RequestsKnowTheirPage
  <2>. HIDE DEF left, pl
  <2>4. CASE pl = place
    <3>1. own # s /\ own' = own /\ visit' = visit
      BY <2>2, <2>3, <2>4 DEF Released
    <3>2. ASSUME own # NoSlot
          PROVE  requests'[own].kind = requests[own].kind /\ requests'[own].made = requests[own].made
      <4>1. own \in Slots /\ left[own] = requests[own] /\ requests[own] # NoRequest
        BY <2>1, <3>1, <3>2, Parts
      <4>. QED
        BY <2>1, <4>1, RetargetedIsTyped
    <3>. QED
      BY <1>3, <3>1, <3>2 DEF CreateUnanswered
  <2>5. CASE pl # place
    BY <1>2, <2>2, <2>5
  <2>. QED
    BY <2>4, <2>5
<1>8. ASSUME NEW s \in Slots, Fail(s)
      PROVE  CreatesAnswered'
  <2>1. /\ requests' = [requests EXCEPT ![s] = NoRequest]
        /\ own' = (IF own = s THEN NoSlot ELSE own)
        /\ visit' = (IF own = s THEN [visit EXCEPT !.errors = @ + 1] ELSE visit)
    BY <1>8 DEF Fail, Released
  <2>2. CASE own = s
    <3>1. visit'.made = visit.made /\ visit'.errors = visit.errors + 1
      BY <2>1, <2>2, Parts
    <3>2. ~CreateUnanswered'
      BY <2>1, <2>2 DEF CreateUnanswered
    <3>. QED
      BY <1>1, <3>1, <3>2 DEF CreatesAnswered
  <2>3. CASE own # s
    <3>1. own' = own /\ (own # NoSlot => requests'[own] = requests[own])
      BY <2>1, <2>3, Parts
    <3>. QED
      BY <1>3, <2>1, <2>3, <3>1 DEF CreateUnanswered
  <2>. QED
    BY <2>2, <2>3
<1>9. CASE Type \/ OthersWrite \/ ServerReads \/ Arrive \/ FetchFails \/ TimePasses
  BY <1>3, <1>9
  DEF Type, OthersWrite, ServerReads, Arrive, FetchFails, TimePasses, page, CreateUnanswered
<1>10. CASE UNCHANGED vars
  BY <1>3, <1>10 DEF vars, page, CreateUnanswered
<1>. QED
  BY <1>4, <1>5, <1>6, <1>7, <1>8, <1>9, <1>10 DEF Next

\* However slow the server and however often Create is pressed, one visit to
\* the page makes one pet, and one more for each failure it told of.
THEOREM CreatesAreCounted == Spec => []OneCreatePerVisit
<1>1. Init => PageInv /\ CreatesAnswered
  BY InitPage DEF Init, CreatesAnswered
<1>2. PageInv /\ CreatesAnswered /\ [Next]_vars => (PageInv /\ CreatesAnswered)'
  BY StepPage, StepCreates
<1>3. PageInv /\ CreatesAnswered => OneCreatePerVisit
  <2>. SUFFICES ASSUME PageInv, CreatesAnswered PROVE OneCreatePerVisit
    OBVIOUS
  <2>1. visit.made \in Nat /\ visit.errors \in Nat
    BY Parts DEF PageInv
  <2>. QED
    BY <2>1 DEF CreatesAnswered, OneCreatePerVisit
<1>. QED
  BY <1>1, <1>2, <1>3, PTL DEF Spec

(***************************************************************************)
(* Fresh data.                                                             *)
(***************************************************************************)
\* The server is at or past every outcome of a write of this browser,
OutcomesAreStored ==
  \A s \in Slots : requests[s] # NoRequest /\ requests[s].made # Unborn =>
    requests[s].made <= stored[requests[s].pet]

\* every outcome it was told of,
ToldAreStored == \A p \in Pets : acked[p] <= stored[p]

\* and so is an answer on its way back.
AnswerIsNew == flight \notin {NoFetch, Sent} => flight >= acked[observed]

\* What is fresh follows every write, and only what is stale is fetched again.
FreshFollowsWrites == \A p \in Pets \ stale : cache[p] # NoData => cache[p] >= acked[p]
RefetchedIsStale == flight # NoFetch /\ cache[observed] # NoData => observed \in stale

FreshInv ==
  /\ FormInv /\ PageInv
  /\ OutcomesAreStored /\ ToldAreStored /\ AnswerIsNew
  /\ FreshFollowsWrites /\ RefetchedIsStale

\* Outcomes are ordered.
LEMMA Numbers ==
  ASSUME Typed
  PROVE  /\ \A p \in Pets : stored[p] \in Int /\ acked[p] \in Int
         /\ \A p \in Pets : cache[p] # NoData => cache[p] \in Int
         /\ flight \notin {NoFetch, Sent} => flight \in Int
         /\ \A s \in Slots : requests[s] # NoRequest =>
              requests[s] \in Requests /\ requests[s].made \in Int
<1>1. Versions \cup {Unborn, Gone} \subseteq Int
  BY PagesAssumption DEF Versions, Unborn, Gone
<1>2. \A r \in Requests : r.made \in Int
  BY <1>1 DEF Requests
<1>. QED
  BY <1>1, <1>2, Parts

LEMMA InitFresh == Init => FreshInv
<1>1. ASSUME Init
      PROVE  OutcomesAreStored /\ ToldAreStored /\ AnswerIsNew /\ FreshFollowsWrites /\ RefetchedIsStale
  <2>1. /\ \A s \in Slots : requests[s] = NoRequest
        /\ \A p \in Pets : acked[p] = Unborn /\ stored[p] \in {0, Unborn} /\ cache[p] = NoData
        /\ flight \in {NoFetch, Sent}
    BY <1>1 DEF Init, Queries!CacheInit, Queries!FetchOf
  <2>2. observed \in Pets \cup {NoPet} /\ (observed = NoPet => flight = NoFetch)
    BY <1>1, InitTyped, Parts
  <2>3. ToldAreStored
    BY <2>1 DEF ToldAreStored, Unborn
  <2>. QED
    BY <2>1, <2>2, <2>3
    DEF OutcomesAreStored, AnswerIsNew, FreshFollowsWrites, RefetchedIsStale
<1>. QED
  BY <1>1, InitForm, InitPage DEF FreshInv

\* Later states of the server leave it ahead.
LEMMA ServerStaysAhead ==
  ASSUME FreshInv, [Next]_vars, acked' = acked,
         \A p \in Pets : stored'[p] >= stored[p],
         NEW done \in SUBSET Slots,
         \A s \in done : requests'[s].pet \in Pets /\ requests'[s].made = stored'[requests'[s].pet],
         \A s \in Slots \ done : requests'[s] # NoRequest =>
           \/ requests'[s].made = Unborn
           \/ /\ requests[s] # NoRequest
              /\ requests'[s].pet = requests[s].pet /\ requests'[s].made = requests[s].made
  PROVE  OutcomesAreStored' /\ ToldAreStored'
<1>. USE DEF FreshInv, FormInv
<1>1. Typed'
  BY StepTyped
<1>2. \A p \in Pets : stored'[p] \in Int
  BY <1>1, Parts, PagesAssumption DEF Typed, TypeOK, Versions, Unborn, Gone
<1>3. ToldAreStored'
  BY <1>2, Numbers DEF ToldAreStored
<1>4. ASSUME NEW s \in Slots, requests'[s] # NoRequest, requests'[s].made # Unborn
      PROVE  requests'[s].made <= stored'[requests'[s].pet]
  <2>1. CASE s \in done
    BY <1>2, <2>1
  <2>2. CASE s \notin done
    <3>1. /\ requests[s] # NoRequest /\ requests[s].made # Unborn
          /\ requests'[s].pet = requests[s].pet /\ requests'[s].made = requests[s].made
      BY <1>4, <2>2
    <3>2. requests[s].pet \in Pets /\ requests[s].made \in Int
      BY <3>1, Numbers DEF Typed, WritesNamePets
    <3>3. requests[s].made <= stored[requests[s].pet]
      BY <3>1 DEF OutcomesAreStored
    <3>. QED
      BY <1>2, <3>1, <3>2, <3>3, Numbers
  <2>. QED
    BY <2>1, <2>2
<1>. QED
  BY <1>3, <1>4 DEF OutcomesAreStored

\* Where nothing is cached anew, nothing fresh appears.
LEMMA CacheStays ==
  ASSUME FreshInv, cache' = cache, acked' = acked, observed' = observed,
         stale \subseteq stale', flight' \in {flight, NoFetch}
  PROVE  AnswerIsNew' /\ FreshFollowsWrites' /\ RefetchedIsStale'
BY DEF FreshInv, AnswerIsNew, FreshFollowsWrites, RefetchedIsStale

\* A place looked at anew is fetched if there is need, and the answer is still
\* to be read.
LEMMA LookedAtAnew ==
  ASSUME Typed, NEW p \in Pets \cup {NoPet}, NEW staleKeys \in SUBSET Pets,
         stale' = staleKeys, observed' = p, cache' = cache,
         flight' = Queries!FetchOf(p, staleKeys)
  PROVE  AnswerIsNew' /\ RefetchedIsStale'
<1>1. flight' \in {NoFetch, Sent}
  BY DEF Queries!FetchOf
<1>2. flight' # NoFetch /\ cache[p] # NoData => p \in staleKeys
  BY DEF Queries!FetchOf
<1>. QED
  BY <1>1, <1>2 DEF AnswerIsNew, RefetchedIsStale

LEMMA StepAhead ==
  ASSUME FreshInv, [Next]_vars
  PROVE  OutcomesAreStored' /\ ToldAreStored'
<1>. USE DEF FreshInv, FormInv
<1>1. stored' = stored => \A p \in Pets : stored'[p] >= stored[p]
  BY Numbers
<1>2. ASSUME \A p \in Pets : stored'[p] >= stored[p], acked' = acked,
             \A s \in Slots : requests'[s] # NoRequest =>
               \/ requests'[s].made = Unborn
               \/ /\ requests[s] # NoRequest
                  /\ requests'[s].pet = requests[s].pet /\ requests'[s].made = requests[s].made
      PROVE  OutcomesAreStored' /\ ToldAreStored'
  <2>. DEFINE none == {}
  <2>1. /\ none \in SUBSET Slots
        /\ \A s \in none : requests'[s].pet \in Pets /\ requests'[s].made = stored'[requests'[s].pet]
        /\ Slots \ none = Slots
    OBVIOUS
  <2>. HIDE DEF none
  <2>2. \A s \in Slots \ none : requests'[s] # NoRequest =>
          \/ requests'[s].made = Unborn
          \/ /\ requests[s] # NoRequest
             /\ requests'[s].pet = requests[s].pet /\ requests'[s].made = requests[s].made
    BY <1>2, <2>1
  <2>. QED
    BY <1>2, <2>1, <2>2, ServerStaysAhead
<1>3. CASE Go
  <2>1. PICK pl \in Places \ {place} :
          requests' = Retargeted(requests, pl) /\ UNCHANGED <<stored, acked>>
    BY <1>3, GoMoves
  <2>2. requests \in [Slots -> Requests \cup {NoRequest}]
    BY Parts
  <2>. QED
    BY <1>1, <1>2, <2>1, <2>2, MovedRequests
<1>4. CASE PressSave \/ PressDelete \/ PressCreate
  <2>1. /\ UNCHANGED <<stored, acked>>
        /\ \E s \in Slots : \E r : r.made = Unborn /\ requests' = [requests EXCEPT ![s] = r]
    <3>1. ASSUME NEW kind, NEW target, Press(kind, target)
          PROVE  /\ UNCHANGED <<stored, acked>>
                 /\ \E s \in Slots : \E r : r.made = Unborn /\ requests' = [requests EXCEPT ![s] = r]
      <4>1. PICK s \in Slots :
              requests' = [requests EXCEPT ![s] =
                [kind |-> kind, pet |-> place.pet, text |-> form.of,
                 target |-> target, made |-> Unborn]]
        BY <3>1, Zenon DEF Press
      <4>2. [kind |-> kind, pet |-> place.pet, text |-> form.of,
             target |-> target, made |-> Unborn].made = Unborn
        OBVIOUS
      <4>. QED
        BY <3>1, <4>1, <4>2, Zenon DEF Press
    <3>. QED
      BY <1>4, <3>1, Zenon DEF PressSave, PressDelete, PressCreate
  <2>2. PICK s \in Slots : \E r : r.made = Unborn /\ requests' = [requests EXCEPT ![s] = r]
    BY <2>1
  <2>3. requests'[s].made = Unborn /\ \A i \in Slots \ {s} : requests'[i] = requests[i]
    BY <2>2, Parts
  <2>. QED
    BY <1>1, <1>2, <2>1, <2>3
<1>5. CASE OthersWrite
  <2>1. PICK kind \in Writes, p \in Pets : \E v \in Outcome(kind, p) : stored' = [stored EXCEPT ![p] = v]
    BY <1>5, Zenon DEF OthersWrite
  <2>2. PICK v \in Outcome(kind, p) : stored' = [stored EXCEPT ![p] = v]
    BY <2>1, Zenon
  <2>3. v \in Int /\ v > stored[p]
    BY <2>2, OutcomesAreLater, PagesAssumption DEF Typed
  <2>4. \A q \in Pets : stored'[q] >= stored[q]
    BY <2>2, <2>3, Numbers, Parts
  <2>5. requests' = requests /\ acked' = acked
    BY <1>5 DEF OthersWrite
  <2>. QED
    BY <1>2, <2>4, <2>5
<1>6. ASSUME NEW s \in Slots, Commit(s)
      PROVE  OutcomesAreStored' /\ ToldAreStored'
  <2>1. PICK p \in Pets : \E v \in Outcome(requests[s].kind, p) :
          /\ stored' = [stored EXCEPT ![p] = v]
          /\ requests'[s].pet = p /\ requests'[s].made = v
    BY <1>6, CommitDoes
  <2>2. PICK v \in Outcome(requests[s].kind, p) :
          /\ stored' = [stored EXCEPT ![p] = v]
          /\ requests'[s].pet = p /\ requests'[s].made = v
    BY <2>1
  <2>3. requests[s].kind \in Kinds /\ \A i \in Slots \ {s} : requests'[i] = requests[i]
    BY <1>6, CommitDoes
  <2>4. v \in Int /\ v > stored[p]
    BY <2>2, <2>3, OutcomesAreLater DEF Typed
  <2>5. \A q \in Pets : stored'[q] >= stored[q]
    BY <2>2, <2>4, Numbers, Parts
  <2>6. \A i \in {s} : requests'[i].pet \in Pets /\ requests'[i].made = stored'[requests'[i].pet]
    BY <2>2, Parts
  <2>7. \A i \in Slots \ {s} : requests'[i] # NoRequest =>
          /\ requests[i] # NoRequest
          /\ requests'[i].pet = requests[i].pet /\ requests'[i].made = requests[i].made
    BY <2>3
  <2>8. acked' = acked /\ {s} \in SUBSET Slots
    BY <1>6 DEF Commit
  <2>. QED
    BY <2>5, <2>6, <2>7, <2>8, ServerStaysAhead
<1>7. ASSUME NEW s \in Slots, Succeed(s)
      PROVE  OutcomesAreStored' /\ ToldAreStored'
  <2>. DEFINE left == [requests EXCEPT ![s] = NoRequest]
              r == requests[s]
  <2>1. /\ r.target \in Places /\ requests' = Retargeted(left, r.target)
        /\ left \in [Slots -> Requests \cup {NoRequest}]
        /\ \A i \in Slots : left[i] # NoRequest => left[i] = requests[i]
        /\ r \in Requests /\ r # NoRequest /\ r.made # Unborn /\ r.pet \in Pets
    BY <1>7, SucceedMoves
  <2>2. stored' = stored /\ acked' = [acked EXCEPT ![r.pet] = Newest(r.pet, r.made)]
    BY <1>7 DEF Succeed
  <2>3. r.made <= stored[r.pet]
    BY <2>1 DEF OutcomesAreStored
  <2>4. ToldAreStored'
    BY <2>1, <2>2, <2>3, Parts DEF ToldAreStored, Newest
  <2>. HIDE DEF left
  <2>5. \A i \in Slots : requests'[i] # NoRequest =>
          /\ requests[i] # NoRequest
          /\ requests'[i].pet = requests[i].pet /\ requests'[i].made = requests[i].made
    BY <2>1, MovedRequests
  <2>6. OutcomesAreStored'
    BY <2>2, <2>5 DEF OutcomesAreStored
  <2>. QED
    BY <2>4, <2>6
<1>8. ASSUME NEW s \in Slots, Fail(s)
      PROVE  OutcomesAreStored' /\ ToldAreStored'
  <2>1. requests' = [requests EXCEPT ![s] = NoRequest] /\ UNCHANGED <<stored, acked>>
    BY <1>8 DEF Fail
  <2>2. \A i \in Slots : requests'[i] # NoRequest => requests'[i] = requests[i]
    BY <2>1, Parts
  <2>. QED
    BY <1>1, <1>2, <2>1, <2>2
<1>9. CASE UNCHANGED <<stored, requests, acked>>
  BY <1>9 DEF OutcomesAreStored, ToldAreStored
<1>10. CASE Type \/ ServerReads \/ Arrive \/ FetchFails \/ TimePasses
  BY <1>9, <1>10 DEF Type, ServerReads, Arrive, FetchFails, TimePasses
<1>11. CASE UNCHANGED vars
  BY <1>9, <1>11 DEF vars
<1>. QED
  BY <1>3, <1>4, <1>5, <1>6, <1>7, <1>8, <1>10, <1>11 DEF Next

LEMMA StepFresh ==
  ASSUME FreshInv, [Next]_vars
  PROVE  AnswerIsNew' /\ FreshFollowsWrites' /\ RefetchedIsStale'
<1>. USE DEF FreshInv, FormInv
<1>1. CASE Go
  <2>1. PICK pl \in Places \ {place} :
          Show(pl, stale, NoFetch) /\ UNCHANGED <<acked, cache, stale>>
    BY <1>1, GoMoves
  <2>2. observed' = pl.pet /\ flight' = Queries!FetchOf(pl.pet, stale)
    BY <2>1 DEF Show
  <2>3. pl.pet \in Pets \cup {NoPet} /\ stale \in SUBSET Pets
    BY PlacesHavePets, Parts
  <2>4. FreshFollowsWrites'
    BY <2>1 DEF FreshFollowsWrites
  <2>. QED
    BY <2>1, <2>2, <2>3, <2>4, LookedAtAnew
<1>2. CASE UNCHANGED <<acked, queries>>
  BY <1>2, CacheStays DEF queries
<1>3. CASE Type \/ PressSave \/ PressDelete \/ PressCreate \/ OthersWrite
  BY <1>2, <1>3 DEF Type, PressSave, PressDelete, PressCreate, Press, OthersWrite
<1>4. ASSUME NEW s \in Slots, Commit(s) \/ Fail(s)
      PROVE  AnswerIsNew' /\ FreshFollowsWrites' /\ RefetchedIsStale'
  BY <1>2, <1>4 DEF Commit, Fail
<1>5. CASE ServerReads
  <2>1. /\ flight = Sent /\ flight' = stored[observed]
        /\ UNCHANGED <<acked, cache, stale, observed>>
    BY <1>5 DEF ServerReads
  <2>2. observed \in Pets
    BY <2>1, Parts, NothingAssumption
  <2>. QED
    BY <2>1, <2>2, NothingAssumption, Numbers
    DEF AnswerIsNew, ToldAreStored, FreshFollowsWrites, RefetchedIsStale
<1>6. CASE Arrive
  <2>1. PICK v \in Versions : Queries!Receive(v)
    BY <1>6, Zenon DEF Arrive
  <2>2. /\ flight = v /\ cache' = [cache EXCEPT ![observed] = v]
        /\ stale' = stale \ {observed} /\ flight' = NoFetch /\ observed' = observed
        /\ acked' = acked
    BY <1>6, <2>1 DEF Queries!Receive, Arrive
  <2>3. v >= acked[observed]
    BY <2>2, NothingAssumption DEF AnswerIsNew
  <2>4. \A p \in Pets : cache'[p] = (IF p = observed THEN v ELSE cache[p])
    BY <2>2, Parts
  <2>5. FreshFollowsWrites'
    BY <2>2, <2>3, <2>4 DEF FreshFollowsWrites
  <2>. QED
    BY <2>2, <2>5 DEF AnswerIsNew, RefetchedIsStale
<1>7. CASE FetchFails
  BY <1>7, CacheStays DEF FetchFails, Queries!GiveUp
<1>8. CASE TimePasses
  <2>1. CASE Queries!Expire
    BY <1>8, <2>1, CacheStays DEF TimePasses, Queries!Expire
  <2>2. CASE Queries!Refocus
    BY <1>8, <2>2
    DEF TimePasses, Queries!Refocus, AnswerIsNew, FreshFollowsWrites, RefetchedIsStale
  <2>. QED
    BY <1>8, <2>1, <2>2 DEF TimePasses
<1>9. ASSUME NEW s \in Slots, Succeed(s)
      PROVE  AnswerIsNew' /\ FreshFollowsWrites' /\ RefetchedIsStale'
  <2>. DEFINE r == requests[s]
              pl == r.target
  <2>1. /\ pl \in Places /\ r \in Requests
        /\ r # NoRequest /\ r.made # Unborn /\ r.pet \in Pets
    BY <1>9, SucceedMoves
  <2>2. /\ cache' = cache /\ stale' = {p \in Pets : cache[p] # NoData}
        /\ acked' = [acked EXCEPT ![r.pet] = Newest(r.pet, r.made)]
        /\ place' = pl /\ observed' = pl.pet
    BY <1>9 DEF Succeed, Show, Queries!AllStale
  <2>3. FreshFollowsWrites'
    BY <2>2 DEF FreshFollowsWrites
  <2>4. flight' = (IF pl = place THEN Queries!Invalidated ELSE Queries!FetchOf(pl.pet, stale'))
    BY <1>9 DEF Succeed, Show
  <2>5. pl.pet \in Pets \cup {NoPet}
    BY <2>1, PlacesHavePets
  <2>6. CASE pl # place
    <3>. DEFINE new == {p \in Pets : cache[p] # NoData}
    <3>1. new \in SUBSET Pets /\ stale' = new /\ flight' = Queries!FetchOf(pl.pet, new)
      BY <2>2, <2>4, <2>6
    <3>. QED
      BY <2>2, <2>3, <2>5, <3>1, LookedAtAnew
  <2>7. CASE pl = place
    <3>1. observed' = observed /\ flight' = Queries!Invalidated
      BY <2>2, <2>4, <2>7, Parts
    <3>2. RefetchedIsStale'
      BY <2>2, <3>1, Parts DEF RefetchedIsStale, Queries!Invalidated, Queries!Refetched
    <3>3. CASE flight' \in {NoFetch, Sent}
      BY <2>3, <3>2, <3>3 DEF AnswerIsNew
    <3>4. CASE flight' \notin {NoFetch, Sent}
      <4>1. observed \in Pets /\ cache[observed] = NoData /\ flight' = flight
        BY <3>1, <3>4, Parts DEF Queries!Invalidated, Queries!Refetched, Queries!FirstFetch
      <4>2. flight >= acked[observed] /\ flight \in Int
        BY <3>4, <4>1, Numbers DEF AnswerIsNew
      <4>3. CASE r.pet # observed
        BY <2>2, <2>3, <3>1, <3>2, <4>1, <4>2, <4>3, Parts DEF AnswerIsNew
      <4>4. CASE r.pet = observed
        <5>1. r.kind # "save"
          BY <2>1, <4>1, <4>4 DEF SavesAreOfCached
        <5>2. r.kind # "delete"
          BY <2>1, <2>5, <2>7, <4>1, PlacesHavePets, Parts, NothingAssumption
          DEF PageInv, RequestsKnowTheirPage
        <5>3. r.made = 0
          BY <2>1, <5>1, <5>2 DEF PageInv, RequestsKnowTheirPage, Requests, Kinds
        <5>4. flight >= 0
          BY <3>4, <4>1, Parts, PagesAssumption DEF Versions, Gone
        <5>5. acked'[observed] = Newest(observed, 0)
          BY <2>2, <4>1, <4>4, <5>3, Parts
        <5>6. flight >= Newest(observed, 0)
          BY <4>2, <5>4 DEF Newest
        <5>. QED
          BY <2>3, <3>1, <3>2, <4>1, <5>5, <5>6 DEF AnswerIsNew
      <4>. QED
        BY <4>3, <4>4
    <3>. QED
      BY <3>3, <3>4
  <2>. QED
    BY <2>6, <2>7
<1>10. CASE UNCHANGED vars
  BY <1>2, <1>10 DEF vars
<1>. QED
  BY <1>1, <1>3, <1>4, <1>5, <1>6, <1>7, <1>8, <1>9, <1>10 DEF Next

\* Whatever the pages show without fetching it again is no older than any save,
\* create or delete that this browser was told had worked.
THEOREM WritesAreSeen == Spec => []FreshDataFollowWrites
<1>1. FreshInv /\ [Next]_vars => FreshInv'
  BY StepForm, StepPage, StepAhead, StepFresh DEF FreshInv
<1>2. FreshInv => FreshDataFollowWrites
  BY DEF FreshInv, FreshFollowsWrites, FreshDataFollowWrites, Queries!Settled
<1>. QED
  BY <1>1, <1>2, InitFresh, PTL DEF Spec
=============================================================================
