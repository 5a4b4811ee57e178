------------------------------ MODULE ListWalk ------------------------------
(***************************************************************************)
(* A reader who goes through a filtered list of pets from its first page   *)
(* to its last, while others insert, change and delete pets.               *)
(*                                                                         *)
(* A page is cut by LIMIT and OFFSET out of the rows that match when the   *)
(* page is read, newest first, and the count that tells how many pages     *)
(* there are is a statement of its own (handler.go ListPets,               *)
(* sql/queries/pets.sql).  created_at is the time at which the inserting   *)
(* transaction started, so that rows appear in another order than the one  *)
(* they are listed in, and two of them may carry the same time.            *)
(***************************************************************************)
EXTENDS Naturals, Sequences, FiniteSets, SequencesExt

CONSTANTS
  Pets,        \* ids
  Old,         \* the pets there are when the walk begins
  PageSize,
  MaxChanges   \* bound on what others do during the walk

WalkAssumption ==
  /\ Pets \subseteq Nat /\ IsFiniteSet(Pets) /\ Old \subseteq Pets
  /\ PageSize \in Nat \ {0} /\ MaxChanges \in Nat

VARIABLES
  row,         \* absent, inserting (not committed), matching the filter, other
  created,     \* created_at of every row
  clock,       \* the database's time
  page,        \* the page the reader is on
  reader,      \* reading, counting, or done
  seen,        \* the pets shown so far
  stayed,      \* those that have matched since the walk began
  arrivals,    \* rows that have come to match during the walk
  departures   \* rows that have ceased to

vars == <<row, created, clock, page, reader, seen, stayed, arrivals, departures>>

Matching == {p \in Pets : row[p] = "matching"}

TypeOK ==
  /\ row \in [Pets -> {"absent", "inserting", "matching", "other", "deleted"}]
  /\ created \in [Pets -> Nat]
  /\ clock \in Nat
  /\ page \in Nat
  /\ reader \in {"reading", "counting", "done"}
  /\ seen \in Seq(Pets)
  /\ Len(seen) <= (page + 1) * PageSize
  /\ stayed \subseteq Matching
  /\ arrivals + departures <= MaxChanges

\* Rows of any age, two of which may be of the same time.
Init ==
  /\ row \in [Pets -> {"absent", "matching", "other"}]
  /\ {p \in Pets : row[p] # "absent"} = Old
  /\ created \in [Pets -> 0..2]
  /\ \A p \in Pets : (p \in Old) <=> (created[p] # 0)
  /\ clock = 2
  /\ page = 0
  /\ reader = "reading"
  /\ seen = <<>>
  /\ stayed = Matching
  /\ arrivals = 0
  /\ departures = 0

(***************************************************************************)
(* The reader.                                                             *)
(***************************************************************************)
\* A bug for the checks to find: ORDER BY created_at DESC alone, under which
\* rows of the same time come in any order, another one in every statement.
Before_AnyTie(p, q) == created[p] >= created[q]

\* ORDER BY created_at DESC, id DESC
Before(p, q) == created[p] > created[q] \/ (created[p] = created[q] /\ p > q)

Offset == page * PageSize

Limit == PageSize

\* The orders in which the database may return the rows.
Listings ==
  {s \in SetToSeqs(Matching) : \A i, j \in DOMAIN s : i < j => Before(s[i], s[j])}

\* SELECT * FROM pets WHERE ... LIMIT $1 OFFSET $2
ReadPage ==
  /\ reader = "reading"
  /\ \E s \in Listings :
       seen' = seen \o SubSeq(s, Offset + 1, IF Offset + Limit < Len(s)
                                             THEN Offset + Limit ELSE Len(s))
  /\ reader' = "counting"
  /\ UNCHANGED <<row, created, clock, page, stayed, arrivals, departures>>

\* SELECT COUNT(*), and the reader's Next: there is a page after this one if
\* the count says so.
CountPets ==
  /\ reader = "counting"
  /\ IF Offset + PageSize < Cardinality(Matching)
     THEN page' = page + 1 /\ reader' = "reading"
     ELSE page' = page /\ reader' = "done"
  /\ UNCHANGED <<row, created, clock, seen, stayed, arrivals, departures>>

(***************************************************************************)
(* The others.                                                             *)
(***************************************************************************)
MayChange == reader # "done" /\ arrivals + departures < MaxChanges

\* A transaction that inserts a row starts: NOW() is the row's created_at,
\* whenever it commits.
BeginInsert(p) ==
  /\ MayChange
  /\ row[p] = "absent"
  /\ row' = [row EXCEPT ![p] = "inserting"]
  /\ \E t \in {clock, clock + 1} :
       clock' = t /\ created' = [created EXCEPT ![p] = t]
  /\ UNCHANGED <<page, reader, seen, stayed, arrivals, departures>>

\* The row appears, among the matching rows or among the others; or an update
\* makes it match, at the place its created_at gives it.
Arrive(p) ==
  /\ MayChange
  /\ row[p] \in {"inserting", "other"}
  /\ row' = [row EXCEPT ![p] = "matching"]
  /\ arrivals' = arrivals + 1
  /\ UNCHANGED <<created, clock, page, reader, seen, stayed, departures>>

\* An update makes the row match the filter no longer, or it is deleted.
Depart(p) ==
  /\ MayChange
  /\ row[p] = "matching"
  /\ row' \in {[row EXCEPT ![p] = "other"], [row EXCEPT ![p] = "deleted"]}
  /\ stayed' = stayed \ {p}
  /\ departures' = departures + 1
  /\ UNCHANGED <<created, clock, page, reader, seen, arrivals>>

Next ==
  \/ ReadPage \/ CountPets
  \/ \E p \in Pets : BeginInsert(p) \/ Arrive(p) \/ Depart(p)

Spec == Init /\ [][Next]_vars

(***************************************************************************)
(* What a walk shows.                                                      *)
(***************************************************************************)
Shown == {seen[i] : i \in DOMAIN seen}

\* A reader who has come to the end has missed at most as many of the pets
\* that were there all the time as others took off the list meanwhile: each
\* of them moves the rows behind it up by one (pets.sql:13-18).
MissedOnlyByDepartures ==
  reader = "done" => Cardinality(stayed \ Shown) <= departures

\* And was shown a pet twice at most once for every row that came: each of
\* those moves the rows behind it down by one.
RepeatedOnlyByArrivals ==
  reader = "done" => Len(seen) - Cardinality(Shown) <= arrivals
=============================================================================
