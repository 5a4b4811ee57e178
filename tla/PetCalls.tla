------------------------------ MODULE PetCalls ------------------------------
(***************************************************************************)
(* What one RPC of pet.v1.PetService carries, the checks it passes before  *)
(* a statement is sent to Postgres, and what the statements compute.       *)
(* Everything here is a pure function of the request and of the rows of    *)
(* the table `pets`; the modules that EXTEND this one add the concurrency. *)
(*                                                                         *)
(* Data are abstracted to what the checks and the SQL distinguish: a text  *)
(* is a word with or without white space around it, a date is one of four  *)
(* kinds, and a pet's photo URLs, tags and birth-date estimate follow the  *)
(* name through every statement, so the name stands for them.              *)
(***************************************************************************)
EXTENDS Integers, FiniteSets

CONSTANTS
  Ids,           \* the UUIDs gen_random_uuid() may return, as numbers
  Malformed,     \* an id that is not a UUID
  Stray,         \* a well-formed UUID that the table never holds
  Words,         \* non-blank texts without surrounding white space
  Blank,         \* the empty text
  Users,         \* e-mail addresses of authenticated callers
  MaxInt32,      \* math.MaxInt32 (a small bound for TLC)
  DefaultLimit,  \* 20 in ListPets
  MaxPageSize    \* 100 in pet.proto

ASSUME IdsAssumption == IsFiniteSet(Ids) /\ Ids \subseteq Nat
ASSUME TargetAssumption == Malformed \notin Ids /\ Stray \notin Ids
ASSUME BlankAssumption == Blank \notin Words
ASSUME UsersAssumption == Users \cap {"nobody", "no e-mail"} = {}
ASSUME PagingAssumption ==
  /\ MaxInt32 \in Nat \ {0}
  /\ DefaultLimit \in 1..MaxInt32
  /\ MaxPageSize \in 1..MaxInt32

Ops == {"Create", "Get", "List", "Update", "Delete"}
Births == {"absent", "date", "impossible", "malformed"}
DefinedStatus == {"AVAILABLE", "PENDING", "ADOPTED"}
Text == [word : Words \cup {Blank}, padded : BOOLEAN]
Callers == Users \cup {"nobody", "no e-mail"}
Targets == Ids \cup {Malformed, Stray}

CallType == [op : Ops, name : Text, species : Text, birth : Births,
             status : DefinedStatus \cup {"UNSPECIFIED", "UNDEFINED"},
             who : Callers, page : Int, pageSize : Int]

Codes == {"none", "OK", "InvalidArgument", "Unauthenticated", "NotFound",
          "Internal"}

(***************************************************************************)
(* The checks, in the order a request meets them.                          *)
(***************************************************************************)
Empty(t) == t.word = Blank /\ ~t.padded

\* strings.TrimSpace.
Trim(t) == [t EXCEPT !.padded = FALSE]

\* A bug for the checks to find: blankness tested on the text as sent.
TrimmedBlank_Raw(t) == Empty(t)

\* Also true of white space alone, which min_len in pet.proto lets through.
TrimmedBlank(t) == Empty(Trim(t))

\* The protovalidate interceptor, which runs before authentication.
WellFormed(c, i) ==
  /\ c.op \in {"Create", "Update"} =>
       /\ ~Empty(c.name)
       /\ ~Empty(c.species)
       /\ c.birth # "malformed"
       /\ c.status # "UNDEFINED"
  /\ c.op \in {"Get", "Update", "Delete"} => i # Malformed
  /\ c.op = "List" => c.pageSize \in 0..MaxPageSize /\ c.page >= 0

Limit(c) == IF c.pageSize > 0 THEN c.pageSize ELSE DefaultLimit

\* The product is taken in int64, so it does not wrap.
Offset(c) == IF c.page > 0 THEN c.page * Limit(c) ELSE 0

\* A bug for the checks to find: no check that the offset fits.
HandlerVerdict_AnyOffset(c) ==
  IF c.op \in {"Get", "Delete", "List"}
    THEN "OK"
  ELSE IF TrimmedBlank(c.name) \/ TrimmedBlank(c.species)
    THEN "InvalidArgument"
  ELSE IF c.who \notin Users
    THEN "Unauthenticated"
  ELSE IF c.birth = "impossible"
    THEN "InvalidArgument"
  ELSE "OK"

\* The checks a handler makes itself, in its order.
HandlerVerdict(c) ==
  IF c.op = "List"
    THEN IF Offset(c) > MaxInt32 THEN "InvalidArgument" ELSE "OK"
  ELSE IF c.op \in {"Get", "Delete"}
    THEN "OK"
  ELSE IF TrimmedBlank(c.name) \/ TrimmedBlank(c.species)
    THEN "InvalidArgument"
  ELSE IF c.who \notin Users
    THEN "Unauthenticated"
  ELSE IF c.birth = "impossible"
    THEN "InvalidArgument"
  ELSE "OK"

\* The answer a request gets without the database, or "OK" to go on to it.
Verdict(c, i) ==
  IF ~WellFormed(c, i) THEN "InvalidArgument"
  ELSE IF c.who = "nobody" THEN "Unauthenticated"
  ELSE HandlerVerdict(c)

(***************************************************************************)
(* Rows of the table and what the statements do with them.                 *)
(***************************************************************************)
StoredText == [word : Words, padded : {FALSE}]

Body == [name : StoredText, species : StoredText, birth : {"absent", "date"},
         status : DefinedStatus]

Row == [id : Ids, body : Body, createdAt : Nat, modifiedAt : Nat,
        createdBy : Users, modifiedBy : Users]

DefaultStatus(s) == IF s = "UNSPECIFIED" THEN "AVAILABLE" ELSE s

\* A bug for the checks to find: texts tested trimmed but stored as sent.
Stored_Untrimmed(c) ==
  [name |-> c.name, species |-> c.species, birth |-> c.birth,
   status |-> DefaultStatus(c.status)]

\* What CreatePet and UpdatePet store of a call: trimmed texts, no
\* unspecified status.
Stored(c) == [name    |-> Trim(c.name),
              species |-> Trim(c.species),
              birth   |-> c.birth,
              status  |-> DefaultStatus(c.status)]

\* The WHERE clause of ListPets and CountPets; an unspecified status or an
\* empty species is no filter, and the species is compared untrimmed.
Matches(c, p) ==
  /\ c.status = "UNSPECIFIED" \/ p.body.status = c.status
  /\ Empty(c.species) \/ p.body.species = c.species

\* ORDER BY created_at DESC, id DESC.
Ahead(p, q) ==
  \/ p.createdAt > q.createdAt
  \/ p.createdAt = q.createdAt /\ p.id > q.id

\* Go's conversion of an int64 to an int32.
Int32(n) == ((n + MaxInt32 + 1) % (2 * (MaxInt32 + 1))) - (MaxInt32 + 1)

\* LIMIT and OFFSET, an int32 parameter, keep the rows with at least offset
\* and fewer than offset + limit rows ahead of them.
PageOf(c, rows) ==
  LET offset == Int32(Offset(c))
  IN  {p \in rows : Cardinality({q \in rows : Ahead(q, p)})
                      \in offset .. (offset + Limit(c) - 1)}

\* The int64 COUNT(*) squeezed into the int32 total_count.
ClampInt32(n) == IF n > MaxInt32 THEN MaxInt32 ELSE n
=============================================================================
