----------------------------- MODULE QueryCache -----------------------------
(***************************************************************************)
(* The query cache of the web application (the QueryClient of App.tsx), as *)
(* its pages use it.  One page is on screen at a time and observes at most *)
(* one key; a fetch nobody observes any more is cancelled.                 *)
(*                                                                         *)
(* TanStack Query is a library: its rules are stated here from how the     *)
(* pages in web/src use it, and from the two options App.tsx gives it.     *)
(*                                                                         *)
(* Actions leave the variables of the page alone; the page's module adds   *)
(* what the page does in the same step.                                    *)
(***************************************************************************)
CONSTANTS
  Keys,                          \* query keys
  NoKey, NoData, NoFetch, Sent

VARIABLES
  cache,      \* [Keys -> answer or NoData]
  stale,      \* keys to be fetched again when next looked at
  failed,     \* keys whose last fetch failed
  observed,   \* the key on screen, or NoKey
  flight      \* its fetch: NoFetch, Sent, or the answer on its way back

queries == <<cache, stale, failed, observed, flight>>

CacheTypeOK(Answers, NoAnswers) ==
  /\ cache \in [Keys -> Answers \cup {NoData}]
  /\ stale \subseteq Keys
  /\ failed \subseteq Keys
  /\ observed \in Keys \cup {NoKey}
  /\ flight \in {NoFetch, Sent} \cup Answers \cup NoAnswers
  /\ observed = NoKey => flight = NoFetch

\* Data are there and the last fetch did not fail: the page shows them.
Shown(k) == cache[k] # NoData /\ k \notin failed

\* Looked at anew, a key is fetched unless fresh data are there.
FetchOf(k, staleKeys) ==
  IF k # NoKey /\ (cache[k] = NoData \/ k \in staleKeys) THEN Sent ELSE NoFetch

\* Nothing is cached, and key k is looked at.
CacheInit(k) ==
  /\ cache = [j \in Keys |-> NoData]
  /\ stale = {} /\ failed = {}
  /\ observed = k
  /\ flight = FetchOf(k, {})

\* A fetch asked for while another is under way replaces it, unless there are
\* no data yet: then the one under way is left to finish.
FirstFetch == observed # NoKey /\ cache[observed] = NoData /\ flight # NoFetch
Refetched ==
  IF observed = NoKey THEN NoFetch ELSE IF FirstFetch THEN flight ELSE Sent

\* A bug for the checks to find: a fetch under way is left to finish.
Invalidated_KeepsFetch ==
  IF observed = NoKey THEN NoFetch ELSE IF flight = NoFetch THEN Sent ELSE flight

\* A bug for the checks to find: entries marked stale, none fetched again.
Invalidated_NoRefetch == flight

\* A bug for the checks to find: only the entry on screen is marked stale.
AllStale_OnlyObserved == stale \cup {k \in {observed} \ {NoKey} : cache[k] # NoData}

\* invalidateQueries(): every entry is stale, the observed one fetched again.
AllStale == {k \in Keys : cache[k] # NoData}
Invalidated == Refetched

\* The fetch of the observed key returns an answer.
Receive(answer) ==
  /\ flight = answer
  /\ cache' = [cache EXCEPT ![observed] = answer]
  /\ stale' = stale \ {observed}
  /\ failed' = failed \ {observed}
  /\ flight' = NoFetch
  /\ UNCHANGED observed

\* The fetch and its one retry have failed; what is cached counts as stale.
GiveUp ==
  /\ flight # NoFetch
  /\ stale' = stale \cup {observed}
  /\ failed' = failed \cup {observed}
  /\ flight' = NoFetch
  /\ UNCHANGED <<cache, observed>>

\* staleTime has passed for one entry.
Expire ==
  /\ \E k \in Keys \ stale : cache[k] # NoData /\ stale' = stale \cup {k}
  /\ UNCHANGED <<cache, failed, observed, flight>>

\* The window gets the focus back: stale data are fetched again.
Refocus ==
  /\ observed \in stale
  /\ flight = NoFetch
  /\ flight' = Sent
  /\ UNCHANGED <<cache, stale, failed, observed>>

\* Data that count as fresh, and that nothing is about to replace.
Settled(k) ==
  cache[k] # NoData /\ k \notin stale /\ ~(observed = k /\ flight # NoFetch)
=============================================================================
