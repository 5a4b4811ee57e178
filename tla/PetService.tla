----------------------------- MODULE PetService -----------------------------
(***************************************************************************)
(* The RPC handlers of internal/pet/handler.go over the sqlc queries of    *)
(* internal/db, a pgx connection pool and one Postgres table.              *)
(*                                                                         *)
(* Every request is a goroutine of its own.  The checks touch no shared    *)
(* state, so a request's arrival runs them in one step; each statement     *)
(* then takes three: a pooled connection is acquired and the statement's   *)
(* implicit transaction starts, which fixes NOW(); the statement takes     *)
(* effect and commits, which frees the connection; the answer reaches the  *)
(* client.  ListPets sends two statements, one after the other, with no    *)
(* transaction around them.  A statement can fail before it takes effect,  *)
(* and its result can be lost after it did: the handler answers Internal   *)
(* to both.                                                                *)
(***************************************************************************)
EXTENDS PetCalls

CONSTANTS
  Requests,   \* the requests of one behaviour, each served once
  Calls,      \* the calls clients make, without the id they name
  Guesses,    \* the ids clients make up
  Conns,      \* the connections of the pool
  MaxClock,   \* bound on the database clock
  NoPet,      \* no row under this id
  NoConn      \* this request holds no connection

ASSUME CallsAssumption == Calls \subseteq CallType /\ Calls # {}
ASSUME GuessesAssumption == Guesses \subseteq {Malformed, Stray}
ASSUME NoPetAssumption == NoPet \notin Row
ASSUME NoConnAssumption == NoConn \notin Conns
ASSUME MaxClockAssumption == MaxClock \in Nat

VARIABLES
  pets,     \* the table: [Ids -> row or NoPet]
  issued,   \* the ids gen_random_uuid() has returned so far
  known,    \* the ids some client has seen in an answer
  clock,    \* the database clock, which does not run backwards
  pc,       \* where each request stands
  call,     \* what it asks
  target,   \* the id it names
  start,    \* NOW() of its statement
  conn,     \* the connection it holds
  listed,   \* the page a List request has read
  reply     \* its answer

vars == <<pets, issued, known, clock, pc, call, target, start, conn, listed, reply>>
request == <<call, target>>

Steps == {"idle", "acquire", "running", "acquireCount", "counting",
          "replying", "done"}

NoReply == [code |-> "none", pets |-> {}, total |-> 0]
Error(code) == [code |-> code, pets |-> {}, total |-> 0]
Ok(rows, total) == [code |-> "OK", pets |-> rows, total |-> total]
Replies == [code : Codes, pets : SUBSET Row, total : Int]

TypeOK ==
  /\ pets \in [Ids -> Row \cup {NoPet}]
  /\ issued \subseteq Ids
  /\ known \subseteq Ids
  /\ clock \in Nat
  /\ pc \in [Requests -> Steps]
  /\ call \in [Requests -> CallType]
  /\ target \in [Requests -> Targets]
  /\ start \in [Requests -> Nat]
  /\ conn \in [Requests -> Conns \cup {NoConn}]
  /\ listed \in [Requests -> SUBSET Row]
  /\ reply \in [Requests -> Replies]

Init ==
  /\ pets = [i \in Ids |-> NoPet]
  /\ issued = {}
  /\ known = {}
  /\ clock = 0
  /\ pc = [r \in Requests |-> "idle"]
  /\ call = [r \in Requests |-> CHOOSE c \in Calls : TRUE]
  /\ target = [r \in Requests |-> Stray]
  /\ start = [r \in Requests |-> 0]
  /\ conn = [r \in Requests |-> NoConn]
  /\ listed = [r \in Requests |-> {}]
  /\ reply = [r \in Requests |-> NoReply]

(***************************************************************************)
(* The steps every handler is made of.                                     *)
(***************************************************************************)
Goto(r, step) == pc' = [pc EXCEPT ![r] = step]
Release(r) == conn' = [conn EXCEPT ![r] = NoConn]

Respond(r, rep) ==
  /\ Goto(r, "replying")
  /\ reply' = [reply EXCEPT ![r] = rep]

\* A bug for the checks to find: every error of a query reported as NotFound.
Outcome_ErrorIsNotFound(r, rep) ==
  /\ \E seen \in {rep, Error("NotFound")} : Respond(r, seen)
  /\ Release(r)

\* A statement has taken effect; its result reaches the handler, or the
\* connection breaks first and the handler has an error to report.
Outcome(r, rep) ==
  /\ \E seen \in {rep, Error("Internal")} : Respond(r, seen)
  /\ Release(r)

Lookup(i) == IF i \in Ids THEN pets[i] ELSE NoPet
Rows == {pets[i] : i \in Ids} \ {NoPet}
Selected(r) == {p \in Rows : Matches(call[r], p)}

\* Bound: no more calls to CreatePet than there are ids.
RoomFor(c) ==
  c.op = "Create" =>
    Cardinality({r \in Requests : pc[r] # "idle" /\ call[r].op = "Create"})
      < Cardinality(Ids)

\* A request arrives and meets the interceptors and the handler's checks.
\* Clients name ids they have been told, or made-up ones.
Receive(r) ==
  /\ pc[r] = "idle"
  /\ \E c \in Calls, i \in known \cup Guesses :
       /\ RoomFor(c)
       /\ c.op \in {"Create", "List"} => i = Stray
       /\ call' = [call EXCEPT ![r] = c]
       /\ target' = [target EXCEPT ![r] = i]
       /\ \/ /\ Verdict(c, i) = "OK"
             /\ Goto(r, "acquire")
             /\ UNCHANGED reply
          \/ /\ Verdict(c, i) # "OK"
             /\ Respond(r, Error(Verdict(c, i)))
  /\ UNCHANGED <<pets, issued, known, clock, start, conn, listed>>

\* pool.Acquire, and the start of the statement's implicit transaction.
Begin(r) ==
  /\ \/ pc[r] = "acquire" /\ Goto(r, "running")
     \/ pc[r] = "acquireCount" /\ Goto(r, "counting")
  /\ \E k \in Conns :
       /\ \A q \in Requests : conn[q] # k
       /\ conn' = [conn EXCEPT ![r] = k]
  /\ start' = [start EXCEPT ![r] = clock]
  /\ UNCHANGED <<pets, issued, known, clock, request, listed, reply>>

Executes(r, op) == pc[r] = "running" /\ call[r].op = op

\* A bug for the checks to find: created_at read when the row is written,
\* modified_at when the statement started.
ExecCreate_TwoClocks(r) ==
  /\ Executes(r, "Create")
  /\ \E i \in Ids \ issued :
       LET row == [id |-> i, body |-> Stored(call[r]),
                   createdAt |-> clock, modifiedAt |-> start[r],
                   createdBy |-> call[r].who, modifiedBy |-> call[r].who]
       IN  /\ pets' = [pets EXCEPT ![i] = row]
           /\ issued' = issued \cup {i}
           /\ Outcome(r, Ok({row}, 0))
  /\ UNCHANGED <<known, clock, request, start, listed>>

ExecCreate(r) ==
  /\ Executes(r, "Create")
  /\ \E i \in Ids \ issued :
       LET row == [id |-> i, body |-> Stored(call[r]),
                   createdAt |-> start[r], modifiedAt |-> start[r],
                   createdBy |-> call[r].who, modifiedBy |-> call[r].who]
       IN  /\ pets' = [pets EXCEPT ![i] = row]
           /\ issued' = issued \cup {i}
           /\ Outcome(r, Ok({row}, 0))
  /\ UNCHANGED <<known, clock, request, start, listed>>

\* No row: pgx.ErrNoRows, or no rows affected by a DELETE.
NotFound(r) ==
  /\ Lookup(target[r]) = NoPet
  /\ Outcome(r, Error("NotFound"))
  /\ UNCHANGED pets

ExecGet(r) ==
  /\ Executes(r, "Get")
  /\ \/ NotFound(r)
     \/ /\ Lookup(target[r]) # NoPet
        /\ Outcome(r, Ok({pets[target[r]]}, 0))
        /\ UNCHANGED pets
  /\ UNCHANGED <<issued, known, clock, request, start, listed>>

\* A bug for the checks to find: modified_by missing from the SET list.
Rewritten_KeepsModifiedBy(r) ==
  [pets[target[r]] EXCEPT !.body = Stored(call[r]),
                          !.modifiedAt = start[r]]

\* The whole row but its id and its creation is replaced.
Rewritten(r) ==
  [pets[target[r]] EXCEPT !.body = Stored(call[r]),
                          !.modifiedAt = start[r],
                          !.modifiedBy = call[r].who]

\* A bug for the checks to find: an upsert instead of an UPDATE.
ExecUpdate_Upsert(r) ==
  /\ Executes(r, "Update")
  /\ target[r] \in Ids
  /\ LET row == [id |-> target[r], body |-> Stored(call[r]),
                 createdAt |-> start[r], modifiedAt |-> start[r],
                 createdBy |-> call[r].who, modifiedBy |-> call[r].who]
     IN  pets' = [pets EXCEPT ![target[r]] = row] /\ Outcome(r, Ok({row}, 0))
  /\ UNCHANGED <<issued, known, clock, request, start, listed>>

ExecUpdate(r) ==
  /\ Executes(r, "Update")
  /\ \/ NotFound(r)
     \/ /\ Lookup(target[r]) # NoPet
        /\ pets' = [pets EXCEPT ![target[r]] = Rewritten(r)]
        /\ Outcome(r, Ok({Rewritten(r)}, 0))
  /\ UNCHANGED <<issued, known, clock, request, start, listed>>

\* A bug for the checks to find: rowsAffected not looked at.
ExecDelete_AlwaysOk(r) ==
  /\ Executes(r, "Delete")
  /\ pets' = [i \in Ids |-> IF i = target[r] THEN NoPet ELSE pets[i]]
  /\ Outcome(r, Ok({}, 0))
  /\ UNCHANGED <<issued, known, clock, request, start, listed>>

ExecDelete(r) ==
  /\ Executes(r, "Delete")
  /\ \/ NotFound(r)
     \/ /\ Lookup(target[r]) # NoPet
        /\ pets' = [pets EXCEPT ![target[r]] = NoPet]
        /\ Outcome(r, Ok({}, 0))
  /\ UNCHANGED <<issued, known, clock, request, start, listed>>

\* A bug for the checks to find: rows left open while CountPets runs.
ExecListPage_RowsOpen(r) ==
  /\ Executes(r, "List")
  /\ listed' = [listed EXCEPT ![r] = PageOf(call[r], Selected(r))]
  /\ Goto(r, "acquireCount")
  /\ UNCHANGED <<pets, issued, known, clock, request, start, conn, reply>>

\* The first statement of ListPets; its rows are closed on return.
ExecListPage(r) ==
  /\ Executes(r, "List")
  /\ listed' = [listed EXCEPT ![r] = PageOf(call[r], Selected(r))]
  /\ Goto(r, "acquireCount")
  /\ Release(r)
  /\ UNCHANGED <<pets, issued, known, clock, request, start, reply>>

\* A bug for the checks to find: the length of the page as the total.
ExecCount_PageLength(r) ==
  /\ pc[r] = "counting"
  /\ Outcome(r, Ok(listed[r], ClampInt32(Cardinality(listed[r]))))
  /\ UNCHANGED <<pets, issued, known, clock, request, start, listed>>

\* The second one.
ExecCount(r) ==
  /\ pc[r] = "counting"
  /\ Outcome(r, Ok(listed[r], ClampInt32(Cardinality(Selected(r)))))
  /\ UNCHANGED <<pets, issued, known, clock, request, start, listed>>

\* The pool, the connection or the request's context gives up on a statement
\* before it takes effect.
FailStatement(r) ==
  /\ pc[r] \in {"acquire", "running", "acquireCount", "counting"}
  /\ Respond(r, Error("Internal"))
  /\ Release(r)
  /\ UNCHANGED <<pets, issued, known, clock, request, start, listed>>

\* The answer reaches the client, which now knows the ids in it.
Deliver(r) ==
  /\ pc[r] = "replying"
  /\ Goto(r, "done")
  /\ known' = known \cup {p.id : p \in reply[r].pets}
  /\ UNCHANGED <<pets, issued, clock, request, start, conn, listed, reply>>

Tick ==
  /\ clock < MaxClock
  /\ clock' = clock + 1
  /\ UNCHANGED <<pets, issued, known, pc, request, start, conn, listed, reply>>

\* The behaviour has served all its requests.
AllServed ==
  /\ \A r \in Requests : pc[r] = "done"
  /\ UNCHANGED vars

Serve(r) ==
  \/ ExecCreate(r) \/ ExecGet(r) \/ ExecUpdate(r) \/ ExecDelete(r)
  \/ ExecListPage(r) \/ ExecCount(r)

Next ==
  \/ \E r \in Requests :
       Receive(r) \/ Begin(r) \/ Serve(r) \/ FailStatement(r) \/ Deliver(r)
  \/ Tick
  \/ AllServed

Spec == Init /\ [][Next]_vars

(***************************************************************************)
(* The Go scheduler runs every goroutine, the pool hands a free connection *)
(* to a waiter, Postgres finishes a statement and the answer is written.   *)
(* No client has to call, no clock to advance and nothing to fail.         *)
(***************************************************************************)
FairSpec ==
  /\ Spec
  /\ \A r \in Requests : WF_vars(Begin(r)) /\ WF_vars(Serve(r)) /\ WF_vars(Deliver(r))
=============================================================================
