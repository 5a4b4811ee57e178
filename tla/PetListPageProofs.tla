------------------------- MODULE PetListPageProofs -------------------------
(***************************************************************************)
(* Proofs about the list page, for every set of filters, any number of     *)
(* pets and every bound on changes and clicks.                             *)
(***************************************************************************)
EXTENDS PetListPage, TLAPS

(***************************************************************************)
(* Types.                                                                  *)
(***************************************************************************)
\* The page number and the filter on screen name a query.
LEMMA KeyIsKey == TypeOK => Key \in Keys
BY DEF TypeOK, Key, Keys

\* There is at least one page, and no more than there can be pets.
LEMMA PageCountIsPositive ==
  ASSUME TypeOK
  PROVE  PageCount(Key) \in 1..MaxTotal
<1>1. Key \in Keys /\ cache[Key] \in Answers \cup {NoData}
  BY KeyIsKey DEF TypeOK, Queries!CacheTypeOK
<1>2. cache[Key] # NoData => cache[Key].total \in 0..MaxTotal
  BY <1>1 DEF Answers
<1>. QED
  BY <1>2, BoundsAssumption DEF PageCount

\* The two effects leave a page number that is one.
LEMMA CorrectedIsPage ==
  ASSUME TypeOK
  PROVE  Corrected \in Pages
BY PageCountIsPositive, BoundsAssumption DEF Corrected, Pages, TypeOK

LEMMA InitTypeOK == Init => TypeOK
<1>1. 0 \in 0..MaxVersion /\ 0 \in Pages /\ 0 \in 0..MaxClicks
  BY BoundsAssumption DEF Pages
<1>2. All \in Filters /\ {} \subseteq Keys /\ FALSE \in BOOLEAN
  BY FiltersAssumption
<1>3. Init => Queries!CacheTypeOK(Answers, {})
  BY DEF Init, Queries!CacheInit, Queries!CacheTypeOK, Queries!FetchOf
<1>. QED
  BY <1>1, <1>2, <1>3 DEF Init, TypeOK

\* Every step keeps the types: the counters because their bounds are guards.
LEMMA StepTypeOK ==
  ASSUME TypeOK, [Next]_vars
  PROVE  TypeOK'
<1>. USE DEF server, react, queries, mutation
<1>1. CASE RunEffects
  <2>1. observed' \in Keys /\ observed' = Key
    BY <1>1, KeyIsKey DEF RunEffects, Observe
  <2>2. flight' \in {NoFetch, Sent} \cup Answers
    BY <1>1 DEF RunEffects, Observe, Queries!FetchOf, TypeOK, Queries!CacheTypeOK
  <2>3. Queries!CacheTypeOK(Answers, {})'
    BY <1>1, <2>1, <2>2, NothingAssumption DEF RunEffects, TypeOK, Queries!CacheTypeOK
  <2>4. page' \in Pages /\ settled' \in BOOLEAN
    BY <1>1, CorrectedIsPage DEF RunEffects
  <2>. QED
    BY <1>1, <2>3, <2>4 DEF RunEffects, TypeOK
<1>2. CASE ChooseFilter
  <2>1. clicks' \in 0..MaxClicks
    BY <1>2, BoundsAssumption DEF ChooseFilter, Click, TypeOK
  <2>. QED
    BY <1>2, <2>1 DEF ChooseFilter, TypeOK, Queries!CacheTypeOK
<1>3. CASE TurnPage
  <2>1. clicks' \in 0..MaxClicks
    BY <1>3, BoundsAssumption DEF TurnPage, Click, TypeOK
  <2>2. page' \in Pages
    BY <1>3, PageCountIsPositive, BoundsAssumption DEF TurnPage, Pages
  <2>. QED
    BY <1>3, <2>1, <2>2 DEF TurnPage, TypeOK, Queries!CacheTypeOK
<1>4. CASE Refresh
  <2>1. clicks' \in 0..MaxClicks
    BY <1>4, BoundsAssumption DEF Refresh, Click, TypeOK
  <2>2. flight' \in {NoFetch, Sent} \cup Answers /\ (observed = NoKey => flight' = NoFetch)
    BY <1>4 DEF Refresh, Queries!Refetched, TypeOK, Queries!CacheTypeOK
  <2>. QED
    BY <1>4, <2>1, <2>2 DEF Refresh, TypeOK, Queries!CacheTypeOK
<1>5. CASE ClickDelete
  <2>1. clicks' \in 0..MaxClicks
    BY <1>5, BoundsAssumption DEF ClickDelete, Click, TypeOK
  <2>. QED
    BY <1>5, <2>1 DEF ClickDelete, TypeOK, Queries!CacheTypeOK
<1>6. CASE OthersWrite
  <2>1. total' \in Totals /\ version' \in 0..MaxVersion
    BY <1>6, BoundsAssumption DEF OthersWrite, Commit, TypeOK
  <2>. QED
    BY <1>6, <2>1 DEF OthersWrite, TypeOK, Queries!CacheTypeOK
<1>7. CASE CommitDelete
  <2>1. total' \in Totals /\ version' \in 0..MaxVersion /\ version + 1 \in 1..MaxVersion
    BY <1>7, BoundsAssumption DEF CommitDelete, Commit, TypeOK
  <2>. QED
    BY <1>7, <2>1 DEF CommitDelete, TypeOK, Queries!CacheTypeOK
<1>8. CASE ServerReads
  <2>1. observed \in Keys
    BY <1>8, NothingAssumption DEF ServerReads, TypeOK, Queries!CacheTypeOK
  <2>2. total[observed[1]] \in 0..MaxTotal
    BY <2>1 DEF TypeOK, Totals, Keys
  <2>3. flight' \in Answers
    BY <1>8, <2>2 DEF ServerReads, Answers, TypeOK
  <2>. QED
    BY <1>8, <2>1, <2>3, NothingAssumption DEF ServerReads, TypeOK, Queries!CacheTypeOK
<1>9. CASE Arrive
  <2>1. Queries!CacheTypeOK(Answers, {})'
    BY <1>9 DEF Arrive, Queries!Receive, TypeOK, Queries!CacheTypeOK
  <2>2. overtaken' \subseteq Keys /\ settled' \in BOOLEAN
    BY <1>9 DEF Arrive, TypeOK
  <2>. QED
    BY <1>9, <2>1, <2>2 DEF Arrive, TypeOK
<1>10. CASE FetchFails
  <2>1. Queries!CacheTypeOK(Answers, {})'
    BY <1>10 DEF FetchFails, Queries!GiveUp, TypeOK, Queries!CacheTypeOK
  <2>. QED
    BY <1>10, <2>1 DEF FetchFails, TypeOK
<1>11. CASE TimePasses
  <2>1. Queries!CacheTypeOK(Answers, {})'
    <3>1. CASE Queries!Expire
      BY <3>1 DEF Queries!Expire, TypeOK, Queries!CacheTypeOK
    <3>2. CASE Queries!Refocus
      BY <3>2, NothingAssumption DEF Queries!Refocus, TypeOK, Queries!CacheTypeOK
    <3>. QED
      BY <1>11, <3>1, <3>2 DEF TimePasses
  <2>. QED
    BY <1>11, <2>1 DEF TimePasses, TypeOK
<1>12. CASE DeleteSucceeds
  <2>1. flight' \in {NoFetch, Sent} \cup Answers /\ (observed = NoKey => flight' = NoFetch)
    BY <1>12
    DEF DeleteSucceeds, Queries!Invalidated, Queries!Refetched, TypeOK, Queries!CacheTypeOK
  <2>2. stale' \subseteq Keys /\ overtaken' \subseteq Keys
    BY <1>12
    DEF DeleteSucceeds, Queries!AllStale, Queries!FirstFetch, TypeOK, Queries!CacheTypeOK
  <2>3. acknowledged' \in 0..MaxVersion
    BY <1>12 DEF DeleteSucceeds, TypeOK
  <2>. QED
    BY <1>12, <2>1, <2>2, <2>3 DEF DeleteSucceeds, TypeOK, Queries!CacheTypeOK
<1>13. CASE DeleteFails
  BY <1>13 DEF DeleteFails, TypeOK, Queries!CacheTypeOK
<1>14. CASE UNCHANGED vars
  BY <1>14 DEF vars, TypeOK, Queries!CacheTypeOK
<1>. QED
  BY <1>1, <1>2, <1>3, <1>4, <1>5, <1>6, <1>7, <1>8, <1>9, <1>10, <1>11, <1>12, <1>13, <1>14
  DEF Next

\* However clicks, answers and effects follow each other, the page number is
\* never below the first page, and the query on screen is always one there is.
THEOREM TypeCorrect == Spec => []TypeOK
BY InitTypeOK, StepTypeOK, PTL DEF Spec

(***************************************************************************)
(* Fresh data.                                                             *)
(***************************************************************************)
\* The server is at or past every deletion, told of or not.
DeletionsAreCommitted ==
  /\ acknowledged <= version
  /\ deletion \notin {NoDeletion, Sent} => deletion <= version

\* An answer on its way back follows every deletion the page was told of,
\* unless it is a first one and a deletion overtook it.
AnswerIsNew ==
  flight \in Answers /\ (observed \notin overtaken \/ cache[observed] # NoData) =>
    flight.version >= acknowledged

FreshFollowsDeletions ==
  \A k \in Keys \ (overtaken \cup stale) : cache[k] # NoData => cache[k].version >= acknowledged

FreshInv == TypeOK /\ DeletionsAreCommitted /\ AnswerIsNew /\ FreshFollowsDeletions

LEMMA InitFresh == Init => FreshInv
<1>1. Init => DeletionsAreCommitted
  BY NothingAssumption DEF Init, DeletionsAreCommitted
<1>2. Init => flight \notin Answers
  BY NothingAssumption DEF Init, Queries!CacheInit, Queries!FetchOf
<1>3. Init => FreshFollowsDeletions
  BY DEF Init, Queries!CacheInit, FreshFollowsDeletions
<1>. QED
  BY <1>1, <1>2, <1>3, InitTypeOK DEF FreshInv, AnswerIsNew

\* Where no answer comes or goes, the promises about answers stay.
LEMMA AnswersStay ==
  ASSUME FreshInv, UNCHANGED <<cache, acknowledged, overtaken>>,
         stale \subseteq stale',
         \/ flight' \in {NoFetch, Sent}
         \/ flight' = flight /\ observed' = observed
  PROVE  AnswerIsNew' /\ FreshFollowsDeletions'
<1>1. flight' \in {NoFetch, Sent} => flight' \notin Answers
  BY NothingAssumption
<1>2. AnswerIsNew'
  BY <1>1 DEF FreshInv, AnswerIsNew
<1>3. FreshFollowsDeletions'
  BY DEF FreshInv, FreshFollowsDeletions
<1>. QED
  BY <1>2, <1>3

LEMMA StepFresh ==
  ASSUME FreshInv, [Next]_vars
  PROVE  FreshInv'
<1>. USE DEF server, react, queries, mutation
<1>1. TypeOK /\ TypeOK'
  BY StepTypeOK DEF FreshInv
<1>2. ASSUME UNCHANGED <<version, deletion, acknowledged>>
      PROVE  DeletionsAreCommitted'
  BY <1>2 DEF FreshInv, DeletionsAreCommitted
<1>3. CASE RunEffects
  <2>1. /\ UNCHANGED <<cache, stale, acknowledged, overtaken, version, deletion>>
        /\ observed' = Key
        /\ flight' = (IF observed = Key THEN flight ELSE Queries!FetchOf(Key, stale))
    BY <1>3 DEF RunEffects, Observe
  <2>2. Queries!FetchOf(Key, stale) \in {NoFetch, Sent}
    BY DEF Queries!FetchOf
  <2>. QED
    BY <1>1, <1>2, <2>1, <2>2, AnswersStay DEF FreshInv
<1>4. CASE ChooseFilter \/ TurnPage
  BY <1>1, <1>2, <1>4, AnswersStay DEF ChooseFilter, TurnPage, FreshInv
<1>5. CASE Refresh
  <2>1. /\ UNCHANGED <<cache, stale, acknowledged, overtaken, version, deletion, observed>>
        /\ flight' \in {NoFetch, Sent, flight}
    BY <1>5 DEF Refresh, Queries!Refetched
  <2>. QED
    BY <1>1, <1>2, <2>1, AnswersStay DEF FreshInv
<1>6. CASE ClickDelete
  <2>1. DeletionsAreCommitted'
    BY <1>6 DEF ClickDelete, FreshInv, DeletionsAreCommitted
  <2>. QED
    BY <1>1, <1>6, <2>1, AnswersStay DEF ClickDelete, FreshInv
<1>7. CASE OthersWrite \/ CommitDelete
  <2>1. /\ version' = version + 1 /\ acknowledged' = acknowledged
        /\ deletion' \in {deletion, version + 1}
        /\ UNCHANGED <<cache, stale, flight, observed, overtaken>>
    BY <1>7 DEF OthersWrite, CommitDelete, Commit
  <2>2. DeletionsAreCommitted'
    BY <1>1, <2>1 DEF TypeOK, FreshInv, DeletionsAreCommitted
  <2>. QED
    BY <1>1, <2>1, <2>2, AnswersStay DEF FreshInv
<1>8. CASE ServerReads
  <2>1. /\ flight' = [version |-> version, total |-> total[observed[1]]]
        /\ UNCHANGED <<cache, stale, acknowledged, overtaken, version, deletion>>
    BY <1>8 DEF ServerReads
  <2>2. flight'.version = version
    BY <2>1
  <2>3. AnswerIsNew'
    BY <2>1, <2>2 DEF FreshInv, DeletionsAreCommitted, AnswerIsNew
  <2>4. FreshFollowsDeletions'
    BY <2>1 DEF FreshInv, FreshFollowsDeletions
  <2>. QED
    BY <1>1, <1>2, <2>1, <2>3, <2>4 DEF FreshInv
<1>9. CASE Arrive
  <2>1. /\ flight \in Answers /\ cache' = [cache EXCEPT ![observed] = flight]
        /\ stale' = stale \ {observed} /\ flight' = NoFetch
        /\ overtaken' = (IF cache[observed] = NoData THEN overtaken ELSE overtaken \ {observed})
        /\ UNCHANGED <<acknowledged, version, deletion>>
    BY <1>9 DEF Arrive, Queries!Receive
  <2>2. \A k \in Keys : cache'[k] = (IF k = observed THEN flight ELSE cache[k])
    BY <1>1, <2>1 DEF TypeOK, Queries!CacheTypeOK
  <2>3. observed \notin overtaken' => flight.version >= acknowledged
    BY <2>1 DEF FreshInv, AnswerIsNew
  <2>4. FreshFollowsDeletions'
    BY <2>1, <2>2, <2>3 DEF FreshInv, FreshFollowsDeletions
  <2>5. AnswerIsNew'
    BY <2>1, NothingAssumption DEF AnswerIsNew
  <2>. QED
    BY <1>1, <1>2, <2>1, <2>4, <2>5 DEF FreshInv
<1>10. CASE FetchFails
  BY <1>1, <1>2, <1>10, AnswersStay DEF FetchFails, Queries!GiveUp, FreshInv
<1>11. CASE TimePasses
  <2>1. /\ UNCHANGED <<cache, acknowledged, overtaken, version, deletion, observed>>
        /\ stale \subseteq stale' /\ flight' \in {flight, Sent}
    BY <1>11 DEF TimePasses, Queries!Expire, Queries!Refocus
  <2>. QED
    BY <1>1, <1>2, <2>1, AnswersStay DEF FreshInv
<1>12. CASE DeleteSucceeds
  <2>1. /\ deletion \notin {NoDeletion, Sent} /\ deletion' = NoDeletion
        /\ acknowledged' = deletion
        /\ stale' = {k \in Keys : cache[k] # NoData}
        /\ flight' = Queries!Invalidated
        /\ overtaken' = overtaken \cup (IF Queries!FirstFetch THEN {observed} ELSE {})
        /\ UNCHANGED <<cache, version, observed>>
    BY <1>12 DEF DeleteSucceeds, Queries!AllStale
  <2>2. DeletionsAreCommitted'
    BY <2>1 DEF FreshInv, DeletionsAreCommitted
  <2>3. FreshFollowsDeletions'
    BY <2>1 DEF FreshFollowsDeletions
  <2>4. CASE Queries!FirstFetch
    <3>1. observed \in overtaken' /\ cache'[observed'] = NoData
      BY <2>1, <2>4 DEF Queries!FirstFetch
    <3>. QED
      BY <1>1, <2>1, <2>2, <2>3, <3>1 DEF FreshInv, AnswerIsNew
  <2>5. CASE ~Queries!FirstFetch
    <3>1. flight' \in {NoFetch, Sent}
      BY <2>1, <2>5 DEF Queries!Invalidated, Queries!Refetched
    <3>. QED
      BY <1>1, <2>2, <2>3, <3>1, NothingAssumption DEF FreshInv, AnswerIsNew
  <2>. QED
    BY <2>4, <2>5
<1>13. CASE DeleteFails
  <2>1. DeletionsAreCommitted'
    BY <1>13 DEF DeleteFails, FreshInv, DeletionsAreCommitted
  <2>. QED
    BY <1>1, <1>13, <2>1, AnswersStay DEF DeleteFails, FreshInv
<1>14. CASE UNCHANGED vars
  BY <1>1, <1>2, <1>14, AnswersStay DEF vars, FreshInv
<1>. QED
  BY <1>3, <1>4, <1>5, <1>6, <1>7, <1>8, <1>9, <1>10, <1>11, <1>12, <1>13, <1>14 DEF Next

\* A list that counts as fresh was read after every deletion the page was told
\* of, but for a first answer that the deletion overtook: invalidateQueries
\* marks it stale, and a refetch replaces the one that may have read too early.
THEOREM DeletionsAreSeen == Spec => []FreshDataFollowDeletions
<1>1. FreshInv => FreshDataFollowDeletions
  BY DEF FreshInv, FreshFollowsDeletions, FreshDataFollowDeletions, Queries!Settled
<1>. QED
  BY <1>1, InitFresh, StepFresh, PTL DEF Spec
=============================================================================
