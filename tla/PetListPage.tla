---------------------------- MODULE PetListPage ----------------------------
(***************************************************************************)
(* The list page (web/src/pages/PetList.tsx) over a query cache: filters,  *)
(* page turning, the two effects that correct the page number, refetching, *)
(* and a deletion from the list.                                           *)
(*                                                                         *)
(* The page is one JavaScript thread.  A render and the effects it         *)
(* schedules finish before the next event is handled, so every other       *)
(* action waits for RunEffects.  The query cache is QueryCache, with one    *)
(* key for every combination of filter and page.                           *)
(***************************************************************************)
EXTENDS Integers, FiniteSets

CONSTANTS
  Filters,     \* combinations of status tab and species text
  All,         \* the one that filters nothing
  MaxTotal,    \* bound on the pets of a filter; a page holds one pet here
  MaxVersion,  \* bound on the changes made to the table
  MaxClicks,   \* bound on what the user does
  NoData, NoKey, NoFetch, Sent, NoDeletion

ASSUME FiltersAssumption == All \in Filters
ASSUME BoundsAssumption ==
  MaxTotal \in Nat \ {0} /\ MaxVersion \in Nat /\ MaxClicks \in Nat

VARIABLES
  total,       \* the server: how many pets match each filter
  version,     \* the server: how many changes have been committed
  filter, page,        \* React state
  lastFilter,          \* the filter the effects last ran with
  settled,             \* the effects of the last render have run
  observed,            \* the query key the observer is on
  cache,               \* [Keys -> answer or NoData]
  stale,               \* keys to be fetched again when next looked at
  failed,              \* keys whose last fetch failed
  flight,              \* the observed key's fetch: NoFetch, Sent, or its answer
  deletion,            \* NoDeletion, Sent, or the version that committed it
  acknowledged,        \* version of the last deletion the page was told of
  overtaken,           \* keys whose first fetch was under way at that moment
  clicks

server == <<total, version>>
react == <<filter, page, lastFilter, settled, observed>>
queries == <<cache, stale, failed, flight>>
mutation == <<deletion, acknowledged, overtaken>>
vars == <<server, react, queries, mutation, clicks>>

Pages == 0..MaxTotal
Keys == Filters \X Pages
Totals == {t \in [Filters -> 0..MaxTotal] : \A f \in Filters : t[f] <= t[All]}
Answers == [version : 0..MaxVersion, total : 0..MaxTotal]

Key == <<filter, page>>

Queries == INSTANCE QueryCache

\* What stands for nothing is none of the things.
ASSUME NothingAssumption ==
  /\ NoKey \notin Keys
  /\ {NoData, NoFetch, Sent} \cap Answers = {}
  /\ NoFetch # Sent
  /\ {NoDeletion, Sent} \cap (1..MaxVersion) = {} /\ NoDeletion # Sent

TypeOK ==
  /\ total \in Totals
  /\ version \in 0..MaxVersion
  /\ filter \in Filters /\ lastFilter \in Filters
  /\ page \in Pages
  /\ settled \in BOOLEAN
  /\ Queries!CacheTypeOK(Answers, {})
  /\ deletion \in {NoDeletion, Sent} \cup 1..MaxVersion
  /\ acknowledged \in 0..MaxVersion
  /\ overtaken \subseteq Keys
  /\ clicks \in 0..MaxClicks

\* data?.totalCount || 0, at one pet a page, and at least one page.
PageCount(k) ==
  IF cache[k] = NoData \/ cache[k].total = 0 THEN 1 ELSE cache[k].total

Init ==
  /\ total \in Totals
  /\ version = 0
  /\ filter = All /\ lastFilter = All /\ page = 0
  /\ settled = FALSE
  /\ Queries!CacheInit(NoKey)
  /\ deletion = NoDeletion /\ acknowledged = 0 /\ overtaken = {}
  /\ clicks = 0

(***************************************************************************)
(* Rendering.                                                              *)
(***************************************************************************)
\* The page number after both effects: the filter effect asks for the first
\* page, the range effect, which runs last, for the last one there is.
Corrected ==
  IF page >= PageCount(Key) THEN PageCount(Key) - 1
  ELSE IF filter # lastFilter THEN 0
  ELSE page

\* The observer moves to the rendered key.
Observe ==
  /\ observed' = Key
  /\ flight' = IF observed = Key THEN flight ELSE Queries!FetchOf(Key, stale)

RunEffects ==
  /\ ~settled
  /\ Observe
  /\ page' = Corrected
  /\ lastFilter' = filter
  /\ settled' = (Corrected = page)
  /\ UNCHANGED <<server, filter, cache, stale, failed, mutation, clicks>>

(***************************************************************************)
(* The user.                                                               *)
(***************************************************************************)
Click ==
  /\ settled
  /\ clicks < MaxClicks
  /\ clicks' = clicks + 1

\* The list itself is on screen, rather than a spinner or an error.
ListShown == Queries!Shown(Key)

ChooseFilter ==
  /\ Click
  /\ \E f \in Filters \ {filter} : filter' = f
  /\ settled' = FALSE
  /\ UNCHANGED <<server, page, lastFilter, observed, queries, mutation>>

\* A bug for the checks to find: Previous also works on the first page.
TurnPage_Unbounded ==
  /\ Click
  /\ ListShown
  /\ \E p \in {page - 1, page + 1} : p < PageCount(Key) /\ page' = p
  /\ settled' = FALSE
  /\ UNCHANGED <<server, filter, lastFilter, observed, queries, mutation>>

\* Previous and Next, each enabled when there is a page to go to.
TurnPage ==
  /\ Click
  /\ ListShown
  /\ \E p \in {page - 1, page + 1} \cap 0..(PageCount(Key) - 1) : page' = p
  /\ settled' = FALSE
  /\ UNCHANGED <<server, filter, lastFilter, observed, queries, mutation>>

\* The Refresh button.
Refresh ==
  /\ Click
  /\ flight' = Queries!Refetched
  /\ UNCHANGED <<server, react, cache, stale, failed, mutation>>

ClickDelete ==
  /\ Click
  /\ ListShown /\ cache[Key].total > 0
  /\ deletion = NoDeletion
  /\ deletion' = Sent
  /\ UNCHANGED <<server, react, queries, acknowledged, overtaken>>

(***************************************************************************)
(* The server.                                                             *)
(***************************************************************************)
Commit(t) ==
  /\ version < MaxVersion
  /\ version' = version + 1
  /\ total' = t

\* Someone else creates, changes or deletes pets.
OthersWrite ==
  /\ \E t \in Totals : Commit(t)
  /\ UNCHANGED <<react, queries, mutation, clicks>>

CommitDelete ==
  /\ deletion = Sent
  /\ \E t \in Totals :
       /\ t[All] = total[All] - 1
       /\ \A f \in Filters : t[f] \in {total[f], total[f] - 1}
       /\ Commit(t)
  /\ deletion' = version + 1
  /\ UNCHANGED <<react, queries, acknowledged, overtaken, clicks>>

ServerReads ==
  /\ flight = Sent
  /\ flight' = [version |-> version, total |-> total[observed[1]]]
  /\ UNCHANGED <<server, react, cache, stale, failed, mutation, clicks>>

(***************************************************************************)
(* Answers and time.                                                       *)
(***************************************************************************)
Arrive ==
  /\ settled
  /\ flight \in Answers
  /\ Queries!Receive(flight)
  /\ settled' = FALSE
  /\ overtaken' = IF cache[observed] = NoData THEN overtaken ELSE overtaken \ {observed}
  /\ UNCHANGED <<server, filter, page, lastFilter, deletion, acknowledged, clicks>>

FetchFails ==
  /\ settled
  /\ Queries!GiveUp
  /\ settled' = FALSE
  /\ UNCHANGED <<server, filter, page, lastFilter, mutation, clicks>>

\* staleTime passes, or the window gets the focus back.
TimePasses ==
  /\ settled
  /\ Queries!Expire \/ Queries!Refocus
  /\ UNCHANGED <<server, filter, page, lastFilter, settled, mutation, clicks>>

\* onSuccess: every entry is stale now.
DeleteSucceeds ==
  /\ settled
  /\ deletion \notin {NoDeletion, Sent}
  /\ deletion' = NoDeletion
  /\ acknowledged' = deletion
  /\ stale' = Queries!AllStale
  /\ flight' = Queries!Invalidated
  /\ overtaken' = overtaken \cup (IF Queries!FirstFetch THEN {observed} ELSE {})
  /\ UNCHANGED <<server, react, cache, failed, clicks>>

\* onError: an alert, whether or not the pet is gone.
DeleteFails ==
  /\ settled
  /\ deletion # NoDeletion
  /\ deletion' = NoDeletion
  /\ UNCHANGED <<server, react, queries, acknowledged, overtaken, clicks>>

Next ==
  \/ RunEffects
  \/ ChooseFilter \/ TurnPage \/ Refresh \/ ClickDelete
  \/ OthersWrite \/ CommitDelete \/ ServerReads
  \/ Arrive \/ FetchFails \/ TimePasses
  \/ DeleteSucceeds \/ DeleteFails

Spec == Init /\ [][Next]_vars

\* Effects run after every render, and a fetch gets its answer or fails.
FairSpec ==
  /\ Spec
  /\ WF_vars(RunEffects)
  /\ WF_vars(ServerReads)
  /\ WF_vars(Arrive \/ FetchFails)

(***************************************************************************)
(* Properties.                                                             *)
(***************************************************************************)
\* Data that count as fresh, and that nothing is about to replace, were read
\* after every deletion the page has been told of: a refetch that was under
\* way does not bring the deleted pet back.  Only a key's very first fetch
\* may be overtaken by a deletion.
FreshDataFollowDeletions ==
  \A k \in Keys \ overtaken :
    Queries!Settled(k) => cache[k].version >= acknowledged

\* After a deletion the list on screen comes to be one that was read after it,
\* unless its fetch fails or was its first and overtaken by the deletion.
DeletionShows ==
  \A v \in 1..MaxVersion :
    acknowledged = v ~>
      \/ cache[Key] # NoData /\ cache[Key].version >= v
      \/ Key \in failed \cup overtaken

\* The page number is only lowered to the last page that an answer for the
\* page on screen says there is, or because the filter changed.
PageKeptUntilAnswered ==
  [][RunEffects /\ page' < page =>
       filter # lastFilter \/ cache[Key] # NoData]_vars
=============================================================================
