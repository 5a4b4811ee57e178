-------------------------- MODULE PetServiceProofs --------------------------
(***************************************************************************)
(* Proofs about PetService for every set of ids, requests, calls and       *)
(* connections.  CausalInv is inductive relative to TypeOK; the properties *)
(* follow from the two.                                                    *)
(***************************************************************************)
EXTENDS PetServiceProperties, FiniteSetTheorems, TLAPS

(***************************************************************************)
(* Facts about the operators.                                              *)
(***************************************************************************)
\* A call that passes the checks of CreatePet or UpdatePet has an
\* authenticated e-mail address and contents fit for the table.
LEMMA StoredIsBody ==
  ASSUME NEW c \in CallType, NEW i \in Targets,
         c.op \in {"Create", "Update"}, Verdict(c, i) = "OK"
  PROVE  Stored(c) \in Body /\ c.who \in Users
<1>1. HandlerVerdict(c) = "OK" /\ WellFormed(c, i)
  BY DEF Verdict
<1>2. /\ c.who \in Users
      /\ ~TrimmedBlank(c.name) /\ ~TrimmedBlank(c.species)
      /\ c.birth # "impossible"
  BY <1>1, Zenon DEF HandlerVerdict
<1>3. c.birth # "malformed" /\ c.status # "UNDEFINED"
  BY <1>1 DEF WellFormed
<1>4. Trim(c.name) \in StoredText /\ Trim(c.species) \in StoredText
  BY <1>2 DEF CallType, Text, StoredText, Trim, TrimmedBlank, Empty
<1>5. c.birth \in {"absent", "date"}
  BY <1>2, <1>3 DEF CallType, Births
<1>6. DefaultStatus(c.status) \in DefinedStatus
  BY <1>3 DEF CallType, DefaultStatus, DefinedStatus
<1>. QED
  BY <1>2, <1>4, <1>5, <1>6 DEF Stored, Body

\* The rows of the table are finitely many, so counting them gives a number.
LEMMA CountIsNat ==
  ASSUME TypeOK, NEW r \in Requests
  PROVE  ClampInt32(Cardinality(Selected(r))) \in Int
<1>. DEFINE All == {pets[i] : i \in Ids}
<1>0. pets \in Surjection(Ids, All)
  BY DEF Surjection, TypeOK
<1>1. IsFiniteSet(All)
  BY <1>0, FS_Surjection, IdsAssumption
<1>2. IsFiniteSet(Selected(r))
  BY <1>1, FS_Subset DEF Selected, Rows
<1>. QED
  BY <1>2, FS_CardinalityType, PagingAssumption DEF ClampInt32

\* What the table holds, and what a WHERE clause selects of it, are rows.
LEMMA RowsAreRows ==
  ASSUME TypeOK
  PROVE  Rows \subseteq Row
BY NoPetAssumption DEF Rows, TypeOK

(***************************************************************************)
(* Type correctness needs to know that a request that got past the checks  *)
(* still carries the call that passed them.                                *)
(***************************************************************************)
Passed == \A r \in Requests :
  pc[r] \in {"acquire", "running"} => Verdict(call[r], target[r]) = "OK"

\* Both together are inductive.
LEMMA TypedAndPassed == Spec => [](TypeOK /\ Passed)
<1>. DEFINE T == TypeOK /\ Passed
<1>1. Init => T
  <2>. SUFFICES ASSUME Init PROVE T
    OBVIOUS
  <2>1. TypeOK
    BY CallsAssumption DEF Init, TypeOK, NoReply, Replies, Codes, Steps, Targets
  <2>2. Passed
    BY DEF Init, Passed
  <2>. QED BY <2>1, <2>2
<1>2. T /\ [Next]_vars => T'
  <2>. SUFFICES ASSUME T, [Next]_vars PROVE T'
    OBVIOUS
  <2>. USE DEF TypeOK, Passed
  <2>e. /\ \A code \in Codes : Error(code) \in Replies
        /\ \A s \in SUBSET Row, n \in Int : Ok(s, n) \in Replies
        /\ Error("Internal") \in Replies /\ Error("NotFound") \in Replies
    BY DEF Error, Ok, Replies, Codes
  <2>o. ASSUME NEW r \in Requests, NEW rep \in Replies, Outcome(r, rep)
        PROVE  /\ pc' \in [Requests -> Steps]
               /\ reply' \in [Requests -> Replies]
               /\ conn' \in [Requests -> Conns \cup {NoConn}]
               /\ \A q \in Requests : pc'[q] \in {"acquire", "running"} => pc'[q] = pc[q]
    BY <2>o, <2>e DEF Outcome, Respond, Goto, Release, Steps
  <2>1. ASSUME NEW r \in Requests, Receive(r) PROVE T'
    <3>1. PICK c \in Calls, i \in known \cup Guesses :
            /\ call' = [call EXCEPT ![r] = c]
            /\ target' = [target EXCEPT ![r] = i]
            /\ \/ Verdict(c, i) = "OK" /\ Goto(r, "acquire") /\ UNCHANGED reply
               \/ Verdict(c, i) # "OK" /\ Respond(r, Error(Verdict(c, i)))
      BY <2>1, Zenon DEF Receive
    <3>2. c \in CallType /\ i \in Targets
      BY CallsAssumption, GuessesAssumption DEF Targets
    <3>3. Verdict(c, i) \in Codes
      BY DEF Verdict, HandlerVerdict, Codes
    <3>4. reply' \in [Requests -> Replies] /\ pc' \in [Requests -> Steps]
      BY <3>1, <3>3, <2>e DEF Goto, Respond, Steps
    <3>5. call' \in [Requests -> CallType] /\ target' \in [Requests -> Targets]
      BY <3>1, <3>2
    <3>6. Passed'
      BY <3>1 DEF Goto, Respond
    <3>. QED BY <2>1, <3>4, <3>5, <3>6 DEF Receive
  <2>2. ASSUME NEW r \in Requests, Begin(r) PROVE T'
    BY <2>2 DEF Begin, Goto, request, Steps
  <2>3. ASSUME NEW r \in Requests, ExecCreate(r) PROVE T'
    <3>1. PICK i \in Ids : 
            LET row == [id |-> i, body |-> Stored(call[r]),
                        createdAt |-> start[r], modifiedAt |-> start[r],
                        createdBy |-> call[r].who, modifiedBy |-> call[r].who]
            IN  /\ pets' = [pets EXCEPT ![i] = row]
                /\ issued' = issued \cup {i}
                /\ Outcome(r, Ok({row}, 0))
      BY <2>3 DEF ExecCreate
    <3>. DEFINE row == [id |-> i, body |-> Stored(call[r]),
                        createdAt |-> start[r], modifiedAt |-> start[r],
                        createdBy |-> call[r].who, modifiedBy |-> call[r].who]
    <3>2. Stored(call[r]) \in Body /\ call[r].who \in Users
      BY <2>3, StoredIsBody DEF ExecCreate, Executes
    <3>3. row \in Row
      BY <3>2 DEF Row
    <3>4. Ok({row}, 0) \in Replies
      BY <3>3, <2>e
    <3>. HIDE DEF row
    <3>5. pets' \in [Ids -> Row \cup {NoPet}] /\ issued' \subseteq Ids
      BY <3>1, <3>3 DEF row
    <3>6. Outcome(r, Ok({row}, 0))
      BY <3>1 DEF row
    <3>. QED BY <2>3, <3>4, <3>5, <3>6, <2>o DEF ExecCreate, request
  <2>n. ASSUME NEW r \in Requests, NotFound(r)
        PROVE  pets' = pets /\ Outcome(r, Error("NotFound"))
    BY <2>n DEF NotFound
  <2>l. ASSUME NEW r \in Requests, Lookup(target[r]) # NoPet
        PROVE  target[r] \in Ids /\ pets[target[r]] \in Row
    BY <2>l DEF Lookup
  <2>4. ASSUME NEW r \in Requests, ExecGet(r) PROVE T'
    <3>1. pets' = pets /\ \E rep \in Replies : Outcome(r, rep)
      BY <2>4, <2>e, <2>l, <2>n DEF ExecGet
    <3>. QED BY <2>4, <3>1, <2>o DEF ExecGet, request
  <2>5. ASSUME NEW r \in Requests, ExecUpdate(r) PROVE T'
    <3>1. Stored(call[r]) \in Body /\ call[r].who \in Users
      BY <2>5, StoredIsBody DEF ExecUpdate, Executes
    <3>2. ASSUME Lookup(target[r]) # NoPet PROVE Rewritten(r) \in Row
      BY <3>1, <3>2, <2>l DEF Rewritten, Row
    <3>3. /\ pets' \in [Ids -> Row \cup {NoPet}]
          /\ \E rep \in Replies : Outcome(r, rep)
      BY <2>5, <3>2, <2>e, <2>n DEF ExecUpdate
    <3>. QED BY <2>5, <3>3, <2>o DEF ExecUpdate, request
  <2>6. ASSUME NEW r \in Requests, ExecDelete(r) PROVE T'
    <3>1. /\ pets' \in [Ids -> Row \cup {NoPet}]
          /\ \E rep \in Replies : Outcome(r, rep)
      BY <2>6, <2>e, <2>n DEF ExecDelete
    <3>. QED BY <2>6, <3>1, <2>o DEF ExecDelete, request
  <2>7. ASSUME NEW r \in Requests, ExecListPage(r) PROVE T'
    <3>1. PageOf(call[r], Selected(r)) \in SUBSET Row
      BY RowsAreRows DEF PageOf, Selected
    <3>. QED BY <2>7, <3>1 DEF ExecListPage, Goto, Release, request, Steps
  <2>8. ASSUME NEW r \in Requests, ExecCount(r) PROVE T'
    <3>1. Ok(listed[r], ClampInt32(Cardinality(Selected(r)))) \in Replies
      BY CountIsNat, <2>e
    <3>. QED BY <2>8, <3>1, <2>o DEF ExecCount, request
  <2>9. ASSUME NEW r \in Requests, FailStatement(r) PROVE T'
    BY <2>9, <2>e DEF FailStatement, Respond, Release, Goto, request, Steps
  <2>10. ASSUME NEW r \in Requests, Deliver(r) PROVE T'
    <3>1. {p.id : p \in reply[r].pets} \subseteq Ids
      BY DEF Replies, Row
    <3>. QED BY <2>10, <3>1 DEF Deliver, Goto, request, Steps
  <2>11. CASE Tick
    BY <2>11 DEF Tick, request
  <2>12. CASE UNCHANGED vars
    BY <2>12 DEF vars
  <2>. QED
    BY <2>1, <2>2, <2>3, <2>4, <2>5, <2>6, <2>7, <2>8, <2>9, <2>10, <2>11, <2>12
    DEF Next, Serve, AllServed
<1>. QED
  BY <1>1, <1>2, PTL DEF Spec

\* Handlers and statements only ever store and answer well-formed rows.
THEOREM TypeCorrect == Spec => []TypeOK
BY TypedAndPassed, PTL

(***************************************************************************)
(* Causality.                                                              *)
(***************************************************************************)
\* The parts of the state that a statement of r leaves alone are those of
\* the other requests.
LEMMA OutcomeIsLocal ==
  ASSUME TypeOK, NEW r \in Requests, NEW rep, Outcome(r, rep)
  PROVE  /\ \A q \in Requests \ {r} : pc'[q] = pc[q] /\ reply'[q] = reply[q]
         /\ pc'[r] = "replying"
         /\ reply'[r] \in {rep, Error("Internal")}
BY DEF Outcome, Respond, Goto, TypeOK

\* Nothing is issued, known or answered before the first request.
LEMMA InitCausal == Init => CausalInv
BY TargetAssumption DEF Init, CausalInv, IdsComeFromAnswers, StartsFollowCreation,
   RowsInOrder, DeletedAreGone, OnlyListsCount, Answered, NoReply

\* No step of a request makes a client know or name an id too early.
LEMMA StepCausal ==
  ASSUME TypeOK, TypeOK', CausalInv, [Next]_vars
  PROVE  CausalInv'
<1>. USE DEF CausalInv, IdsComeFromAnswers, StartsFollowCreation, RowsInOrder,
             DeletedAreGone, OnlyListsCount, Answered
<1>o. /\ Error("Internal").pets = {} /\ Error("NotFound").pets = {}
      /\ Error("Internal").code = "Internal" /\ Error("NotFound").code = "NotFound"
      /\ \A code : Error(code).pets = {} /\ Error(code).code = code
      /\ \A s, n : Ok(s, n).pets = s /\ Ok(s, n).code = "OK"
  BY DEF Error, Ok
<1>1. ASSUME NEW r \in Requests, Receive(r) PROVE CausalInv'
  <2>1. PICK c \in Calls, i \in known \cup Guesses :
          /\ call' = [call EXCEPT ![r] = c]
          /\ target' = [target EXCEPT ![r] = i]
          /\ \/ Goto(r, "acquire") /\ UNCHANGED reply
             \/ Verdict(c, i) # "OK" /\ Respond(r, Error(Verdict(c, i)))
    BY <1>1, Zenon DEF Receive
  <2>2. i \in Ids => i \in issued
    BY GuessesAssumption, TargetAssumption
  <2>3. UNCHANGED <<pets, issued, known, clock, start, listed>>
    BY <1>1 DEF Receive
  <2>4. /\ pc'[r] \in {"acquire", "replying"}
        /\ pc'[r] = "replying" => reply'[r].code # "OK"
        /\ reply'[r].pets \subseteq reply[r].pets
        /\ \A q \in Requests \ {r} : /\ pc'[q] = pc[q] /\ reply'[q] = reply[q]
                                     /\ call'[q] = call[q] /\ target'[q] = target[q]
        /\ target'[r] = i
    BY <2>1, <1>o DEF Goto, Respond, TypeOK
  <2>5. IdsComeFromAnswers'
    BY <2>2, <2>3, <2>4
  <2>6. StartsFollowCreation'
    BY <2>3, <2>4
  <2>7. RowsInOrder'
    BY <2>3, <2>4
  <2>8. DeletedAreGone'
    BY <2>3, <2>4
  <2>9. OnlyListsCount'
    BY <2>3, <2>4
  <2>. QED BY <2>5, <2>6, <2>7, <2>8, <2>9
<1>2. ASSUME NEW r \in Requests, Begin(r) PROVE CausalInv'
  <2>1. /\ UNCHANGED <<pets, issued, known, clock, call, target, listed, reply>>
        /\ \/ pc'[r] = "running"
           \/ pc'[r] = "counting" /\ pc[r] = "acquireCount"
        /\ start'[r] = clock
        /\ \A q \in Requests \ {r} : pc'[q] = pc[q] /\ start'[q] = start[q]
    BY <1>2 DEF Begin, Goto, request, TypeOK
  <2>2. IdsComeFromAnswers' /\ RowsInOrder'
    BY <2>1
  <2>3. StartsFollowCreation'
    BY <2>1 DEF TypeOK
  <2>4. DeletedAreGone' /\ OnlyListsCount'
    BY <2>1
  <2>. QED BY <2>2, <2>3, <2>4
<1>3. ASSUME NEW r \in Requests, ExecCreate(r) PROVE CausalInv'
  <2>1. PICK i \in Ids \ issued : \E row :
          /\ row.id = i /\ row.createdAt = start[r] /\ row.modifiedAt = start[r]
          /\ pets' = [pets EXCEPT ![i] = row]
          /\ issued' = issued \cup {i}
          /\ Outcome(r, Ok({row}, 0))
    <3>1. PICK i \in Ids \ issued :
            LET row == [id |-> i, body |-> Stored(call[r]),
                        createdAt |-> start[r], modifiedAt |-> start[r],
                        createdBy |-> call[r].who, modifiedBy |-> call[r].who]
            IN  /\ pets' = [pets EXCEPT ![i] = row]
                /\ issued' = issued \cup {i}
                /\ Outcome(r, Ok({row}, 0))
      BY <1>3 DEF ExecCreate
    <3>. WITNESS i \in Ids \ issued
    <3>. WITNESS [id |-> i, body |-> Stored(call[r]),
                  createdAt |-> start[r], modifiedAt |-> start[r],
                  createdBy |-> call[r].who, modifiedBy |-> call[r].who]
    <3>. QED BY <3>1
  <2>2. PICK row :
          /\ row.id = i /\ row.createdAt = start[r] /\ row.modifiedAt = start[r]
          /\ pets' = [pets EXCEPT ![i] = row]
          /\ issued' = issued \cup {i}
          /\ Outcome(r, Ok({row}, 0))
    BY <2>1
  <2>3. /\ \A j \in Ids \ {i} : pets'[j] = pets[j]
        /\ pets'[i] = row
        /\ start[r] <= start[r] /\ start[r] <= clock
        /\ UNCHANGED <<known, clock, call, target, start, listed>>
        /\ call[r].op = "Create"
    BY <1>3, <2>2 DEF ExecCreate, Executes, request, TypeOK
  <2>4. /\ \A q \in Requests \ {r} : pc'[q] = pc[q] /\ reply'[q] = reply[q]
        /\ pc'[r] = "replying"
        /\ reply'[r].pets \subseteq {row}
    BY <2>2, <1>o, OutcomeIsLocal
  <2>5. IdsComeFromAnswers'
    BY <2>2, <2>3, <2>4
  <2>6. StartsFollowCreation'
    BY <2>2, <2>3, <2>4
  <2>7. RowsInOrder'
    BY <2>2, <2>3, <2>4
  <2>8. DeletedAreGone'
    BY <2>2, <2>3, <2>4
  <2>9. OnlyListsCount'
    BY <2>3, <2>4
  <2>. QED BY <2>5, <2>6, <2>7, <2>8, <2>9
\* Statements that do not change the table, and what they may answer.
<1>r. ASSUME NEW r \in Requests, NEW rep,
             Outcome(r, rep),
             UNCHANGED <<pets, issued, known, clock, call, target, start, listed>>,
             \A p \in rep.pets : p.id \in issued /\ p.createdAt <= p.modifiedAt,
             call[r].op = "Delete" => rep.code # "OK"
      PROVE  CausalInv'
  <2>1. /\ \A q \in Requests \ {r} : pc'[q] = pc[q] /\ reply'[q] = reply[q]
        /\ pc'[r] = "replying"
        /\ reply'[r].pets \subseteq rep.pets
        /\ reply'[r].code \in {rep.code, "Internal"}
    BY <1>r, <1>o, OutcomeIsLocal
  <2>2. IdsComeFromAnswers'
    BY <1>r, <2>1
  <2>3. StartsFollowCreation'
    BY <1>r, <2>1
  <2>4. RowsInOrder'
    BY <1>r, <2>1
  <2>5. DeletedAreGone' /\ OnlyListsCount'
    BY <1>r, <2>1
  <2>. QED BY <2>2, <2>3, <2>4, <2>5
<1>n. ASSUME NEW r \in Requests, NotFound(r),
             UNCHANGED <<issued, known, clock, request, start, listed>>
      PROVE  CausalInv'
  BY <1>n, <1>r, <1>o DEF NotFound, request
<1>l. ASSUME NEW r \in Requests, Lookup(target[r]) # NoPet
      PROVE  /\ target[r] \in issued /\ target[r] \in Ids
             /\ pets[target[r]] \in Row
             /\ pets[target[r]].id = target[r]
             /\ pets[target[r]].createdAt <= pets[target[r]].modifiedAt
  BY <1>l DEF Lookup, TypeOK
<1>4. ASSUME NEW r \in Requests, ExecGet(r) PROVE CausalInv'
  <2>1. CASE NotFound(r)
    BY <1>4, <2>1, <1>n DEF ExecGet
  <2>2. CASE /\ Lookup(target[r]) # NoPet
             /\ Outcome(r, Ok({pets[target[r]]}, 0))
             /\ UNCHANGED pets
    <3>1. \A p \in Ok({pets[target[r]]}, 0).pets : p.id \in issued /\ p.createdAt <= p.modifiedAt
      BY <2>2, <1>l, <1>o
    <3>. QED BY <1>4, <2>2, <3>1, <1>r DEF ExecGet, Executes, request
  <2>. QED BY <1>4, <2>1, <2>2 DEF ExecGet
<1>5. ASSUME NEW r \in Requests, ExecUpdate(r) PROVE CausalInv'
  <2>1. CASE NotFound(r)
    BY <1>5, <2>1, <1>n DEF ExecUpdate
  <2>2. CASE /\ Lookup(target[r]) # NoPet
             /\ pets' = [pets EXCEPT ![target[r]] = Rewritten(r)]
             /\ Outcome(r, Ok({Rewritten(r)}, 0))
    <3>. DEFINE t == target[r]
                row == Rewritten(r)
    <3>1. /\ t \in issued /\ t \in Ids /\ pets[t] # NoPet
          /\ pets[t].id = t /\ pets[t] \in Row
      BY <2>2, <1>l DEF Lookup
    <3>2. row.id = t /\ row.createdAt = pets[t].createdAt /\ row.modifiedAt = start[r]
      BY <3>1 DEF Rewritten, Row
    <3>3. row.createdAt <= row.modifiedAt /\ row.createdAt <= clock
      BY <1>5, <3>1, <3>2 DEF ExecUpdate, Executes
    <3>. HIDE DEF row
    <3>4. /\ \A j \in Ids \ {t} : pets'[j] = pets[j]
          /\ pets'[t] = row
          /\ UNCHANGED <<issued, known, clock, call, target, start, listed>>
          /\ call[r].op = "Update" /\ pc[r] = "running"
      BY <1>5, <2>2, <3>1 DEF ExecUpdate, Executes, request, TypeOK, row
    <3>5. /\ \A q \in Requests \ {r} : pc'[q] = pc[q] /\ reply'[q] = reply[q]
          /\ pc'[r] = "replying"
          /\ reply'[r].pets \subseteq {row}
      BY <2>2, <1>o, OutcomeIsLocal DEF row
    <3>6. IdsComeFromAnswers'
      BY <3>1, <3>2, <3>4, <3>5
    <3>7. StartsFollowCreation'
      BY <3>1, <3>2, <3>3, <3>4, <3>5
    <3>8. RowsInOrder'
      BY <3>1, <3>2, <3>3, <3>4, <3>5
    <3>9. DeletedAreGone'
      BY <3>1, <3>4, <3>5 DEF TypeOK
    <3>10. OnlyListsCount'
      BY <3>4, <3>5
    <3>. QED BY <3>6, <3>7, <3>8, <3>9, <3>10
  <2>. QED BY <1>5, <2>1, <2>2 DEF ExecUpdate
<1>6. ASSUME NEW r \in Requests, ExecDelete(r) PROVE CausalInv'
  <2>1. CASE NotFound(r)
    BY <1>6, <2>1, <1>n DEF ExecDelete
  <2>2. CASE /\ Lookup(target[r]) # NoPet
             /\ pets' = [pets EXCEPT ![target[r]] = NoPet]
             /\ Outcome(r, Ok({}, 0))
    <3>1. /\ target[r] \in issued /\ target[r] \in Ids
          /\ pets'[target[r]] = NoPet
          /\ \A j \in Ids \ {target[r]} : pets'[j] = pets[j]
          /\ UNCHANGED <<issued, known, clock, call, target, start, listed>>
      BY <1>6, <2>2, <1>l DEF ExecDelete, request, TypeOK
    <3>2. /\ \A q \in Requests \ {r} : pc'[q] = pc[q] /\ reply'[q] = reply[q]
          /\ pc'[r] = "replying"
          /\ reply'[r].pets = {}
      BY <2>2, <1>o, OutcomeIsLocal
    <3>3. IdsComeFromAnswers'
      BY <3>1, <3>2
    <3>4. StartsFollowCreation'
      BY <3>1, <3>2
    <3>5. RowsInOrder'
      BY <3>1, <3>2
    <3>6. DeletedAreGone' /\ OnlyListsCount'
      BY <3>1, <3>2 DEF TypeOK
    <3>. QED BY <3>3, <3>4, <3>5, <3>6
  <2>. QED BY <1>6, <2>1, <2>2 DEF ExecDelete
<1>7. ASSUME NEW r \in Requests, ExecListPage(r) PROVE CausalInv'
  <2>1. \A p \in PageOf(call[r], Selected(r)) : p.id \in issued /\ p.createdAt <= p.modifiedAt
    BY DEF PageOf, Selected, Rows
  <2>2. /\ UNCHANGED <<pets, issued, known, clock, call, target, start, reply>>
        /\ listed'[r] = PageOf(call[r], Selected(r))
        /\ pc'[r] = "acquireCount" /\ call[r].op = "List"
        /\ \A q \in Requests \ {r} : pc'[q] = pc[q] /\ listed'[q] = listed[q]
    BY <1>7 DEF ExecListPage, Executes, Goto, request, TypeOK
  <2>3. IdsComeFromAnswers'
    BY <2>1, <2>2
  <2>4. StartsFollowCreation'
    BY <2>2
  <2>5. RowsInOrder'
    BY <2>1, <2>2
  <2>6. DeletedAreGone' /\ OnlyListsCount'
    BY <2>2
  <2>. QED BY <2>3, <2>4, <2>5, <2>6
<1>8. ASSUME NEW r \in Requests, ExecCount(r) PROVE CausalInv'
  <2>1. /\ UNCHANGED <<pets, issued, known, clock, call, target, start, listed>>
        /\ call[r].op = "List"
        /\ \A p \in listed[r] : p.id \in issued /\ p.createdAt <= p.modifiedAt
    BY <1>8 DEF ExecCount, request
  <2>2. PICK n : Outcome(r, Ok(listed[r], n))
    BY <1>8 DEF ExecCount
  <2>. QED BY <2>1, <2>2, <1>r, <1>o
<1>9. ASSUME NEW r \in Requests, FailStatement(r) PROVE CausalInv'
  <2>1. Outcome(r, Error("Internal"))
    BY <1>9, Zenon DEF FailStatement, Outcome
  <2>. QED BY <1>9, <2>1, <1>r, <1>o DEF FailStatement, request
<1>10. ASSUME NEW r \in Requests, Deliver(r) PROVE CausalInv'
  <2>1. /\ UNCHANGED <<pets, issued, clock, call, target, start, listed, reply>>
        /\ known' = known \cup {p.id : p \in reply[r].pets}
        /\ pc[r] = "replying" /\ pc'[r] = "done"
        /\ \A q \in Requests \ {r} : pc'[q] = pc[q]
    BY <1>10 DEF Deliver, Goto, request, TypeOK
  <2>2. IdsComeFromAnswers'
    BY <2>1
  <2>3. StartsFollowCreation'
    BY <2>1
  <2>4. RowsInOrder'
    BY <2>1
  <2>5. DeletedAreGone' /\ OnlyListsCount'
    BY <2>1
  <2>. QED BY <2>2, <2>3, <2>4, <2>5
<1>11. CASE Tick
  <2>1. /\ clock' = clock + 1
        /\ UNCHANGED <<pets, issued, known, pc, call, target, start, listed, reply>>
    BY <1>11 DEF Tick, request
  <2>2. StartsFollowCreation'
    <3>1. \A q \in Requests : start[q] \in Nat
      BY DEF TypeOK
    <3>2. \A i \in Ids : pets[i] # NoPet => pets[i].createdAt \in Nat
      BY DEF TypeOK, Row
    <3>. QED BY <2>1, <3>1, <3>2 DEF TypeOK
  <2>. QED BY <2>1, <2>2
<1>12. CASE UNCHANGED vars
  BY <1>12 DEF vars
<1>. QED
  BY <1>1, <1>2, <1>3, <1>4, <1>5, <1>6, <1>7, <1>8, <1>9, <1>10, <1>11, <1>12
  DEF Next, Serve, AllServed

\* Nobody names an id before the row under it is committed.
THEOREM Causality == Spec => []CausalInv
<1>1. TypeOK /\ TypeOK' /\ CausalInv /\ [Next]_vars => CausalInv'
  BY StepCausal
<1>. QED
  BY InitCausal, <1>1, TypeCorrect, PTL DEF Spec

(***************************************************************************)
(* What follows from causality.                                            *)
(***************************************************************************)
\* A pet's modified_at is never before its created_at, in the table or in an
\* answer, whatever updates race and however late they commit.
THEOREM ModifiedAfterCreated == Spec => []CreatedBeforeModified
<1>1. CausalInv => CreatedBeforeModified
  BY DEF CausalInv, RowsInOrder, CreatedBeforeModified, Rows
<1>. QED
  BY <1>1, Causality, PTL

\* No step brings a deleted pet back or issues its id again.
THEOREM DeletedStaysDeleted == Spec => NoResurrection
<1>. DEFINE Stays == \A i \in issued : pets[i] = NoPet => pets'[i] = NoPet
<1>1. TypeOK /\ [Next]_vars => [Stays]_vars
  <2>. SUFFICES ASSUME TypeOK, [Next]_vars PROVE Stays
    OBVIOUS
  <2>1. ASSUME NEW r \in Requests, ExecCreate(r) PROVE Stays
    <3>1. \E i \in Ids \ issued : \E row : pets' = [pets EXCEPT ![i] = row]
      BY <2>1 DEF ExecCreate
    <3>. QED BY <3>1 DEF TypeOK
  <2>2. ASSUME NEW r \in Requests, ExecUpdate(r) PROVE Stays
    <3>1. \/ pets' = pets
          \/ /\ Lookup(target[r]) # NoPet
             /\ pets' = [pets EXCEPT ![target[r]] = Rewritten(r)]
      BY <2>2 DEF ExecUpdate, NotFound
    <3>. QED BY <3>1 DEF TypeOK, Lookup
  <2>3. ASSUME NEW r \in Requests, ExecDelete(r) PROVE Stays
    BY <2>3 DEF ExecDelete, NotFound, TypeOK
  <2>4. ASSUME NEW r \in Requests,
               \/ Receive(r) \/ Begin(r) \/ ExecGet(r) \/ ExecListPage(r)
               \/ ExecCount(r) \/ FailStatement(r) \/ Deliver(r)
        PROVE  pets' = pets
    BY <2>4, Zenon DEF Receive, Begin, ExecGet, NotFound, ExecListPage, ExecCount,
       FailStatement, Deliver
  <2>5. Tick \/ UNCHANGED vars => pets' = pets
    BY DEF Tick, vars
  <2>. QED
    BY <2>1, <2>2, <2>3, <2>4, <2>5 DEF Next, Serve, AllServed
<1>. QED
  BY <1>1, TypeCorrect, PTL DEF Spec, NoResurrection

\* Of the requests that delete one pet at most one is told it succeeded.
THEOREM OneDeleteSucceeds == Spec => []DeletedOnce
<1>1. Init => DeletedOnce
  BY DEF Init, DeletedOnce, Answered
<1>. DEFINE Succeeded(d) == call[d].op = "Delete" /\ Answered(d) /\ reply[d].code = "OK"
            Before(d) == Succeeded(d) /\ target'[d] = target[d]
            Now(d) == Lookup(target[d]) # NoPet /\ target'[d] = target[d]
<1>2. ASSUME TypeOK, CausalInv, DeletedOnce, [Next]_vars PROVE DeletedOnce'
  <2>. USE <1>2
  <2>o. /\ Error("Internal").code = "Internal"
        /\ \A code : Error(code).code = code
    BY DEF Error
  <2>s. ASSUME NEW r \in Requests, NEW rep, Outcome(r, rep), UNCHANGED request,
               call[r].op # "Delete" \/ rep.code # "OK"
        PROVE  \A d \in Requests : Succeeded(d)' => Before(d)
    <3>1. /\ \A q \in Requests \ {r} : pc'[q] = pc[q] /\ reply'[q] = reply[q]
          /\ reply'[r] \in {rep, Error("Internal")}
          /\ call' = call /\ target' = target
      BY <2>s, OutcomeIsLocal DEF request
    <3>. QED BY <2>s, <3>1, <2>o DEF Answered
  <2>1. ASSUME NEW r \in Requests, Receive(r)
        PROVE  \A d \in Requests : Succeeded(d)' => Before(d)
    <3>1. PICK c \in Calls, i \in known \cup Guesses :
            /\ call' = [call EXCEPT ![r] = c]
            /\ target' = [target EXCEPT ![r] = i]
            /\ \/ Goto(r, "acquire") /\ UNCHANGED reply
               \/ Verdict(c, i) # "OK" /\ Respond(r, Error(Verdict(c, i)))
      BY <2>1, Zenon DEF Receive
    <3>. QED BY <3>1, <2>o DEF Goto, Respond, TypeOK, Answered
  <2>2. ASSUME NEW r \in Requests, Begin(r)
        PROVE  \A d \in Requests : Succeeded(d)' => Before(d)
    BY <2>2 DEF Begin, Goto, request, TypeOK, Answered
  <2>3. ASSUME NEW r \in Requests, ExecCreate(r)
        PROVE  \A d \in Requests : Succeeded(d)' => Before(d)
    <3>1. (\E rep : Outcome(r, rep)) /\ call[r].op # "Delete" /\ UNCHANGED request
      BY <2>3, Zenon DEF ExecCreate, Executes
    <3>. QED BY <3>1, <2>s
  <2>4. ASSUME NEW r \in Requests, ExecGet(r) \/ ExecUpdate(r)
        PROVE  \A d \in Requests : Succeeded(d)' => Before(d)
    <3>1. (\E rep : Outcome(r, rep)) /\ call[r].op # "Delete" /\ UNCHANGED request
      BY <2>4, Zenon DEF ExecGet, ExecUpdate, NotFound, Executes
    <3>. QED BY <3>1, <2>s
  <2>5. ASSUME NEW r \in Requests, ExecDelete(r)
        PROVE  \/ \A d \in Requests : Succeeded(d)' => Before(d)
               \/ /\ Now(r)
                  /\ \A d \in Requests \ {r} : Succeeded(d)' => Before(d)
    <3>1. CASE NotFound(r)
      BY <2>5, <3>1, <2>s, <2>o DEF NotFound, ExecDelete
    <3>2. CASE /\ Lookup(target[r]) # NoPet
               /\ Outcome(r, Ok({}, 0))
      <4>1. \A q \in Requests \ {r} : pc'[q] = pc[q] /\ reply'[q] = reply[q]
        BY <3>2, OutcomeIsLocal
      <4>. QED BY <2>5, <3>2, <4>1 DEF ExecDelete, request, Answered
    <3>. QED BY <2>5, <3>1, <3>2 DEF ExecDelete
  <2>6. ASSUME NEW r \in Requests, ExecListPage(r)
        PROVE  \A d \in Requests : Succeeded(d)' => Before(d)
    BY <2>6 DEF ExecListPage, Goto, request, TypeOK, Answered
  <2>7. ASSUME NEW r \in Requests, ExecCount(r)
        PROVE  \A d \in Requests : Succeeded(d)' => Before(d)
    <3>1. (\E rep : Outcome(r, rep)) /\ call[r].op # "Delete" /\ UNCHANGED request
      BY <2>7 DEF ExecCount, CausalInv, OnlyListsCount
    <3>. QED BY <3>1, <2>s
  <2>8. ASSUME NEW r \in Requests, FailStatement(r)
        PROVE  \A d \in Requests : Succeeded(d)' => Before(d)
    <3>1. Outcome(r, Error("Internal")) /\ UNCHANGED request
      BY <2>8, Zenon DEF FailStatement, Outcome
    <3>. QED BY <3>1, <2>s, <2>o
  <2>9. ASSUME NEW r \in Requests, Deliver(r)
        PROVE  \A d \in Requests : Succeeded(d)' => Before(d)
    BY <2>9 DEF Deliver, Goto, request, TypeOK, Answered
  <2>10. Tick \/ UNCHANGED vars => \A d \in Requests : Succeeded(d)' => Before(d)
    BY DEF Tick, request, vars, Answered
  <2>11. \/ \A d \in Requests : Succeeded(d)' => Before(d)
         \/ \E r \in Requests :
              /\ Now(r)
              /\ \A d \in Requests \ {r} : Succeeded(d)' => Before(d)
    BY <2>1, <2>2, <2>3, <2>4, <2>5, <2>6, <2>7, <2>8, <2>9, <2>10
    DEF Next, Serve, AllServed
  <2>12. \A d \in Requests : Before(d) => Lookup(target'[d]) = NoPet
    BY DEF CausalInv, DeletedAreGone, Lookup, TypeOK
  <2>13. \A d, e \in Requests : Before(d) /\ Before(e) /\ target'[d] = target'[e] => d = e
    BY DEF DeletedOnce
  <2>. QED
    BY <2>11, <2>12, <2>13 DEF DeletedOnce
<1>3. TypeOK /\ CausalInv /\ DeletedOnce /\ [Next]_vars => DeletedOnce'
  BY <1>2
<1>. QED
  BY <1>1, <1>3, TypeCorrect, Causality, PTL DEF Spec

(***************************************************************************)
(* Who wrote a row, and who made one go.                                   *)
(***************************************************************************)
\* An answered request is over: what it asked, when it started and what it was
\* told do not change any more.
LEMMA AnsweredStays ==
  ASSUME TypeOK, [Next]_vars, NEW q \in Requests, Answered(q)
  PROVE  /\ Answered(q)'
         /\ call'[q] = call[q] /\ target'[q] = target[q]
         /\ start'[q] = start[q] /\ reply'[q] = reply[q]
<1>. DEFINE Kept == /\ Answered(q)'
                    /\ call'[q] = call[q] /\ target'[q] = target[q]
                    /\ start'[q] = start[q] /\ reply'[q] = reply[q]
<1>1. ASSUME NEW r \in Requests, Receive(r) PROVE Kept
  <2>1. PICK c \in Calls, i \in known \cup Guesses :
          /\ call' = [call EXCEPT ![r] = c]
          /\ target' = [target EXCEPT ![r] = i]
          /\ \/ Goto(r, "acquire") /\ UNCHANGED reply
             \/ Verdict(c, i) # "OK" /\ Respond(r, Error(Verdict(c, i)))
    BY <1>1, Zenon DEF Receive
  <2>2. q # r /\ start' = start
    BY <1>1 DEF Receive, Answered
  <2>. QED BY <2>1, <2>2 DEF Goto, Respond, TypeOK, Answered
<1>2. ASSUME NEW r \in Requests, Begin(r) PROVE Kept
  BY <1>2 DEF Begin, Goto, request, TypeOK, Answered
<1>s. ASSUME NEW r \in Requests, NEW rep, Outcome(r, rep), ~Answered(r),
             UNCHANGED <<call, target, start>>
      PROVE  Kept
  BY <1>s, OutcomeIsLocal DEF Answered
<1>3. ASSUME NEW r \in Requests,
             ExecCreate(r) \/ ExecGet(r) \/ ExecUpdate(r) \/ ExecDelete(r) \/ ExecCount(r)
      PROVE  Kept
  <2>1. (\E rep : Outcome(r, rep)) /\ UNCHANGED <<request, start>>
    BY <1>3, Zenon DEF ExecCreate, ExecGet, ExecUpdate, ExecDelete, ExecCount, NotFound
  <2>2. ~Answered(r)
    BY <1>3 DEF ExecCreate, ExecGet, ExecUpdate, ExecDelete, ExecCount, Executes, Answered
  <2>. QED BY <2>1, <2>2, <1>s DEF request
<1>4. ASSUME NEW r \in Requests, ExecListPage(r) PROVE Kept
  BY <1>4 DEF ExecListPage, Executes, Goto, request, TypeOK, Answered
<1>5. ASSUME NEW r \in Requests, FailStatement(r) PROVE Kept
  <2>1. Outcome(r, Error("Internal")) /\ UNCHANGED <<request, start>>
    BY <1>5, Zenon DEF FailStatement, Outcome
  <2>2. ~Answered(r)
    BY <1>5 DEF FailStatement, Answered
  <2>. QED BY <2>1, <2>2, <1>s DEF request
<1>6. ASSUME NEW r \in Requests, Deliver(r) PROVE Kept
  BY <1>6 DEF Deliver, Goto, request, TypeOK, Answered
<1>7. Tick \/ UNCHANGED vars => Kept
  BY DEF Tick, request, vars, Answered
<1>. QED
  BY <1>1, <1>2, <1>3, <1>4, <1>5, <1>6, <1>7 DEF Next, Serve, AllServed

\* What a request may have done it may have done for ever.
LEMMA EffectsStay ==
  ASSUME TypeOK, [Next]_vars, NEW q \in Requests, MayHaveTakenEffect(q)
  PROVE  /\ MayHaveTakenEffect(q)'
         /\ call'[q] = call[q] /\ target'[q] = target[q] /\ start'[q] = start[q]
BY AnsweredStays DEF MayHaveTakenEffect

\* A statement that has taken effect is answered with OK or with Internal.
LEMMA EffectIsAnswered ==
  ASSUME TypeOK, NEW r \in Requests, NEW rows, NEW n, Outcome(r, Ok(rows, n)),
         UNCHANGED request
  PROVE  MayHaveTakenEffect(r)'
<1>1. reply'[r] \in {Ok(rows, n), Error("Internal")} /\ pc'[r] = "replying"
  BY OutcomeIsLocal
<1>. QED
  BY <1>1 DEF Ok, Error, MayHaveTakenEffect, Answered

\* The row that request r inserts under id i.
Inserted(r, i) ==
  [id |-> i, body |-> Stored(call[r]), createdAt |-> start[r], modifiedAt |-> start[r],
   createdBy |-> call[r].who, modifiedBy |-> call[r].who]

\* The three ways in which a request changes the table.
Inserts(r, i) ==
  /\ Executes(r, "Create") /\ i \in Ids \ issued
  /\ Inserted(r, i) \in Row
  /\ pets' = [pets EXCEPT ![i] = Inserted(r, i)]
  /\ issued' = issued \cup {i}
  /\ Outcome(r, Ok({Inserted(r, i)}, 0))

Rewrites(r) ==
  /\ Executes(r, "Update") /\ target[r] \in issued
  /\ pets[target[r]] \in Row /\ pets[target[r]].id = target[r]
  /\ Rewritten(r) \in Row
  /\ pets' = [pets EXCEPT ![target[r]] = Rewritten(r)]
  /\ issued' = issued
  /\ Outcome(r, Ok({Rewritten(r)}, 0))

Removes(r) ==
  /\ Executes(r, "Delete") /\ target[r] \in issued
  /\ pets' = [pets EXCEPT ![target[r]] = NoPet]
  /\ issued' = issued
  /\ Outcome(r, Ok({}, 0))

\* The table changes by one row at a time.
LEMMA TableSteps ==
  ASSUME TypeOK, Passed, CausalInv, [Next]_vars
  PROVE  \/ UNCHANGED <<pets, issued>>
         \/ \E r \in Requests :
              /\ (\E i \in Ids : Inserts(r, i)) \/ Rewrites(r) \/ Removes(r)
              /\ UNCHANGED <<request, start>>
<1>1. ASSUME NEW r \in Requests, ExecCreate(r)
      PROVE  (\E i \in Ids : Inserts(r, i)) /\ UNCHANGED <<request, start>>
  <2>1. PICK i \in Ids \ issued :
          /\ pets' = [pets EXCEPT ![i] = Inserted(r, i)]
          /\ issued' = issued \cup {i}
          /\ Outcome(r, Ok({Inserted(r, i)}, 0))
    BY <1>1 DEF ExecCreate, Inserted
  <2>2. Stored(call[r]) \in Body /\ call[r].who \in Users /\ start[r] \in Nat
    BY <1>1, StoredIsBody DEF ExecCreate, Executes, TypeOK, Passed
  <2>3. Inserted(r, i) \in Row
    BY <2>2 DEF Inserted, Row
  <2>. QED BY <1>1, <2>1, <2>3 DEF ExecCreate, Inserts
<1>2. ASSUME NEW r \in Requests, ExecUpdate(r)
      PROVE  \/ UNCHANGED <<pets, issued>>
             \/ Rewrites(r) /\ UNCHANGED <<request, start>>
  <2>1. CASE NotFound(r)
    BY <1>2, <2>1 DEF ExecUpdate, NotFound
  <2>2. CASE /\ Lookup(target[r]) # NoPet
             /\ pets' = [pets EXCEPT ![target[r]] = Rewritten(r)]
             /\ Outcome(r, Ok({Rewritten(r)}, 0))
    <3>1. /\ target[r] \in issued /\ target[r] \in Ids
          /\ pets[target[r]] \in Row /\ pets[target[r]].id = target[r]
      BY <2>2 DEF Lookup, TypeOK, CausalInv, RowsInOrder
    <3>2. Stored(call[r]) \in Body /\ call[r].who \in Users /\ start[r] \in Nat
      BY <1>2, StoredIsBody DEF ExecUpdate, Executes, TypeOK, Passed
    <3>3. Rewritten(r) \in Row
      BY <3>1, <3>2 DEF Rewritten, Row
    <3>. QED BY <1>2, <2>2, <3>1, <3>3 DEF ExecUpdate, Rewrites
  <2>. QED BY <1>2, <2>1, <2>2 DEF ExecUpdate
<1>3. ASSUME NEW r \in Requests, ExecDelete(r)
      PROVE  \/ UNCHANGED <<pets, issued>>
             \/ Removes(r) /\ UNCHANGED <<request, start>>
  <2>1. CASE NotFound(r)
    BY <1>3, <2>1 DEF ExecDelete, NotFound
  <2>2. CASE /\ Lookup(target[r]) # NoPet
             /\ pets' = [pets EXCEPT ![target[r]] = NoPet]
             /\ Outcome(r, Ok({}, 0))
    <3>1. target[r] \in issued
      BY <2>2 DEF Lookup, CausalInv, RowsInOrder
    <3>. QED BY <1>3, <2>2, <3>1 DEF ExecDelete, Removes
  <2>. QED BY <1>3, <2>1, <2>2 DEF ExecDelete
<1>4. ASSUME NEW r \in Requests,
             \/ Receive(r) \/ Begin(r) \/ ExecGet(r) \/ ExecListPage(r)
             \/ ExecCount(r) \/ FailStatement(r) \/ Deliver(r)
      PROVE  UNCHANGED <<pets, issued>>
  BY <1>4, Zenon DEF Receive, Begin, ExecGet, NotFound, ExecListPage, ExecCount,
     FailStatement, Deliver
<1>5. Tick \/ UNCHANGED vars => UNCHANGED <<pets, issued>>
  BY DEF Tick, vars
<1>. QED
  BY <1>1, <1>2, <1>3, <1>4, <1>5 DEF Next, Serve, AllServed

\* Whoever answered for a row goes on answering for it.
LEMMA WritersStay ==
  ASSUME TypeOK, [Next]_vars, NEW p, NEW r \in Requests
  PROVE  /\ LastWriter(r, p) => LastWriter(r, p)'
         /\ Creator(r, p) => Creator(r, p)'
         /\ \A i : MayHaveDeleted(r, i) => MayHaveDeleted(r, i)'
BY EffectsStay DEF LastWriter, Creator, MayHaveDeleted

\* The contents of a row and the name of who wrote them last come from one
\* request, whichever requests raced for the row.
THEOREM RowsComeFromOneWriter == Spec => []RowHasOneWriter
<1>1. Init => RowHasOneWriter
  BY DEF Init, RowHasOneWriter, Rows
<1>2. TypeOK /\ Passed /\ CausalInv /\ RowHasOneWriter /\ [Next]_vars => RowHasOneWriter'
  <2>. SUFFICES ASSUME TypeOK, Passed, CausalInv, RowHasOneWriter, [Next]_vars, NEW p \in Rows'
                PROVE  /\ \E r \in Requests : LastWriter(r, p)'
                       /\ \E r \in Requests : Creator(r, p)'
    BY DEF RowHasOneWriter
  <2>1. CASE p \in Rows
    BY <2>1, WritersStay DEF RowHasOneWriter
  <2>2. ASSUME NEW r \in Requests, NEW i \in Ids, Inserts(r, i), p = Inserted(r, i),
               UNCHANGED <<request, start>>
        PROVE  LastWriter(r, p)' /\ Creator(r, p)'
    <3>1. MayHaveTakenEffect(r)'
      BY <2>2, EffectIsAnswered DEF Inserts
    <3>. QED BY <2>2, <3>1 DEF Inserts, Executes, Inserted, request, LastWriter, Creator
  <2>3. ASSUME NEW r \in Requests, Rewrites(r), p = Rewritten(r),
               UNCHANGED <<request, start>>
        PROVE  LastWriter(r, p)' /\ \E q \in Requests : Creator(q, p)'
    <3>. DEFINE old == pets[target[r]]
    <3>1. MayHaveTakenEffect(r)'
      BY <2>3, EffectIsAnswered DEF Rewrites
    <3>2. old \in Rows /\ old \in Row
      BY <2>3, NoPetAssumption DEF Rewrites, Rows, TypeOK
    <3>3. PICK q \in Requests : Creator(q, old)
      BY <3>2 DEF RowHasOneWriter
    <3>4. /\ p.id = target[r] /\ p.body = Stored(call[r]) /\ p.modifiedBy = call[r].who
          /\ p.modifiedAt = start[r]
          /\ p.createdBy = old.createdBy /\ p.createdAt = old.createdAt
      BY <2>3, <3>2 DEF Rewritten, Rewrites, Row
    <3>5. LastWriter(r, p)'
      BY <2>3, <3>1, <3>4 DEF LastWriter, Rewrites, Executes, request
    <3>6. Creator(q, p)'
      BY <3>3, <3>4, EffectsStay DEF Creator
    <3>. QED BY <3>5, <3>6
  <2>4. CASE p \notin Rows
    <3>1. PICK i \in Ids : p = pets'[i] /\ p # NoPet /\ p # pets[i]
      BY <2>4 DEF Rows
    <3>2. PICK r \in Requests :
            /\ (\E j \in Ids : Inserts(r, j)) \/ Rewrites(r) \/ Removes(r)
            /\ UNCHANGED <<request, start>>
      BY <3>1, TableSteps
    <3>3. CASE \E j \in Ids : Inserts(r, j)
      <4>1. PICK j \in Ids : Inserts(r, j)
        BY <3>3
      <4>2. p = Inserted(r, j)
        BY <3>1, <4>1 DEF Inserts, TypeOK
      <4>. QED BY <3>2, <4>1, <4>2, <2>2
    <3>4. CASE Rewrites(r)
      <4>1. p = Rewritten(r)
        BY <3>1, <3>4 DEF Rewrites, TypeOK
      <4>. QED BY <3>2, <3>4, <4>1, <2>3
    <3>5. ~Removes(r)
      BY <3>1 DEF Removes, TypeOK
    <3>. QED BY <3>2, <3>3, <3>4, <3>5
  <2>. QED BY <2>1, <2>4
<1>. QED
  BY <1>1, <1>2, TypedAndPassed, Causality, PTL DEF Spec

\* An id that was issued names a row, or a pet that a DeletePet may have
\* removed.
LEMMA NothingVanishes == Spec => []IssuedOrDeleted
<1>1. Init => IssuedOrDeleted
  BY DEF Init, IssuedOrDeleted
<1>2. TypeOK /\ Passed /\ CausalInv /\ IssuedOrDeleted /\ [Next]_vars => IssuedOrDeleted'
  <2>. SUFFICES ASSUME TypeOK, Passed, CausalInv, IssuedOrDeleted, [Next]_vars, NEW i \in issued'
                PROVE  pets'[i] # NoPet \/ \E d \in Requests : MayHaveDeleted(d, i)'
    BY DEF IssuedOrDeleted
  <2>1. CASE i \in issued /\ (pets[i] = NoPet \/ pets'[i] = pets[i])
    BY <2>1, WritersStay DEF IssuedOrDeleted
  <2>2. CASE i \notin issued \/ (pets[i] # NoPet /\ pets'[i] # pets[i])
    <3>1. PICK r \in Requests :
            /\ (\E j \in Ids : Inserts(r, j)) \/ Rewrites(r) \/ Removes(r)
            /\ UNCHANGED <<request, start>>
      BY <2>2, TableSteps
    <3>2. CASE \E j \in Ids : Inserts(r, j)
      <4>1. PICK j \in Ids : Inserts(r, j)
        BY <3>2
      <4>. QED BY <2>2, <4>1, NoPetAssumption DEF Inserts, TypeOK
    <3>3. CASE Rewrites(r)
      BY <2>2, <3>3, NoPetAssumption DEF Rewrites, TypeOK
    <3>4. CASE Removes(r)
      <4>1. MayHaveTakenEffect(r)'
        BY <3>1, <3>4, EffectIsAnswered DEF Removes
      <4>2. i = target[r]
        BY <2>2, <3>4 DEF Removes, TypeOK
      <4>. QED BY <3>1, <3>4, <4>1, <4>2 DEF Removes, Executes, request, MayHaveDeleted
    <3>. QED BY <3>1, <3>2, <3>3, <3>4
  <2>. QED BY <2>1, <2>2
<1>. QED
  BY <1>1, <1>2, TypedAndPassed, Causality, PTL DEF Spec

\* NotFound is what a statement answers that meets no row, and no check does.
LEMMA NotFoundMeetsNoRow ==
  ASSUME TypeOK, [Next]_vars, NEW q \in Requests, ~Answered(q),
         Answered(q)', reply'[q].code = "NotFound"
  PROVE  Lookup(target[q]) = NoPet /\ target' = target
<1>. DEFINE Missed == Lookup(target[q]) = NoPet /\ target' = target
<1>o. /\ \A code : Error(code).code = code
      /\ \A s, n : Ok(s, n).code = "OK"
  BY DEF Error, Ok
<1>1. ASSUME NEW r \in Requests, Receive(r) PROVE FALSE
  <2>1. PICK c \in Calls, i \in known \cup Guesses :
          \/ Goto(r, "acquire") /\ UNCHANGED reply
          \/ Verdict(c, i) # "OK" /\ Respond(r, Error(Verdict(c, i)))
    BY <1>1, Zenon DEF Receive
  <2>2. Verdict(c, i) # "NotFound"
    BY DEF Verdict, HandlerVerdict
  <2>. QED BY <2>1, <2>2, <1>o DEF Goto, Respond, TypeOK, Answered
<1>s. ASSUME NEW r \in Requests, NEW rep, Outcome(r, rep), rep.code # "NotFound"
      PROVE  FALSE
  BY <1>s, <1>o, OutcomeIsLocal DEF Answered
<1>n. ASSUME NEW r \in Requests, NotFound(r), UNCHANGED request
      PROVE  Missed
  <2>1. q = r
    BY <1>n, OutcomeIsLocal DEF NotFound, Answered
  <2>. QED BY <1>n, <2>1 DEF NotFound, request
<1>2. ASSUME NEW r \in Requests, ExecCreate(r) \/ ExecCount(r) PROVE FALSE
  <2>1. \E s, n : Outcome(r, Ok(s, n))
    BY <1>2 DEF ExecCreate, ExecCount
  <2>. QED BY <2>1, <1>s, <1>o
<1>3. ASSUME NEW r \in Requests, ExecGet(r) \/ ExecUpdate(r) \/ ExecDelete(r)
      PROVE  Missed
  <2>1. CASE NotFound(r)
    BY <1>3, <2>1, <1>n DEF ExecGet, ExecUpdate, ExecDelete
  <2>2. CASE ~NotFound(r)
    <3>1. \E s, n : Outcome(r, Ok(s, n))
      BY <1>3, <2>2 DEF ExecGet, ExecUpdate, ExecDelete
    <3>. QED BY <3>1, <1>s, <1>o
  <2>. QED BY <2>1, <2>2
<1>4. ASSUME NEW r \in Requests, FailStatement(r) PROVE FALSE
  <2>1. Outcome(r, Error("Internal"))
    BY <1>4, Zenon DEF FailStatement, Outcome
  <2>. QED BY <2>1, <1>s, <1>o
<1>5. ASSUME NEW r \in Requests, Begin(r) \/ ExecListPage(r) \/ Deliver(r) PROVE FALSE
  BY <1>5 DEF Begin, ExecListPage, Deliver, Goto, TypeOK, Answered
<1>6. Tick \/ UNCHANGED vars => FALSE
  BY DEF Tick, vars, Answered
<1>. QED
  BY <1>1, <1>2, <1>3, <1>4, <1>5, <1>6 DEF Next, Serve, AllServed

\* A created pet stays until somebody deletes it, and only then is its id
\* answered with NotFound.
THEOREM AnswersStayTrue == Spec => []AnswersHold
<1>1. CausalInv /\ IssuedOrDeleted => AckedPetStays
  BY DEF CausalInv, IdsComeFromAnswers, IssuedOrDeleted, AckedPetStays
<1>2. Init => NotFoundMeansDeleted
  BY DEF Init, NotFoundMeansDeleted, Answered
<1>3. TypeOK /\ CausalInv /\ IssuedOrDeleted /\ NotFoundMeansDeleted /\ [Next]_vars
        => NotFoundMeansDeleted'
  <2>. SUFFICES ASSUME TypeOK, CausalInv, IssuedOrDeleted, NotFoundMeansDeleted, [Next]_vars,
                       NEW r \in Requests,
                       Answered(r)', reply'[r].code = "NotFound", target'[r] \in Ids
                PROVE  (\E d \in Requests : MayHaveDeleted(d, target[r]))'
    BY DEF NotFoundMeansDeleted, MayHaveDeleted
  <2>1. PICK d \in Requests : MayHaveDeleted(d, target'[r])
    <3>1. CASE Answered(r)
      BY <3>1, AnsweredStays DEF NotFoundMeansDeleted
    <3>2. CASE ~Answered(r)
      <4>1. Lookup(target[r]) = NoPet /\ target' = target
        BY <3>2, NotFoundMeetsNoRow
      <4>2. target[r] \in issued /\ pets[target[r]] = NoPet
        BY <4>1 DEF Lookup, CausalInv, IdsComeFromAnswers
      <4>. QED BY <4>1, <4>2 DEF IssuedOrDeleted
    <3>. QED BY <3>1, <3>2
  <2>. QED BY <2>1, EffectsStay DEF MayHaveDeleted
<1>. QED
  BY <1>1, <1>2, <1>3, TypeCorrect, Causality, NothingVanishes, PTL DEF AnswersHold, Spec

\* Whatever the table holds passes every check when it is sent back unchanged,
\* and is stored as it was.
THEOREM RowsCanBeResaved == Spec => []EveryRowCanBeResaved
<1>1. ASSUME NEW p \in Row, NEW u \in Users
      PROVE  /\ Verdict(ResaveCall(p, u), p.id) = "OK"
             /\ Stored(ResaveCall(p, u)) = p.body
  <2>. DEFINE c == ResaveCall(p, u)
  <2>1. /\ c.op = "Update" /\ c.who = u
        /\ c.name = p.body.name /\ c.species = p.body.species
        /\ c.birth = p.body.birth /\ c.status = p.body.status
    BY DEF ResaveCall
  <2>2. /\ p.id # Malformed /\ u # "nobody"
        /\ p.body \in Body
    BY TargetAssumption, UsersAssumption DEF Row
  <2>3. \A t \in StoredText : ~Empty(t) /\ ~TrimmedBlank(t) /\ Trim(t) = t
    BY BlankAssumption DEF StoredText, Empty, TrimmedBlank, Trim
  <2>4. WellFormed(c, p.id)
    BY <2>1, <2>2, <2>3 DEF WellFormed, Body, DefinedStatus
  <2>5. HandlerVerdict(c) = "OK"
    BY <2>1, <2>2, <2>3 DEF HandlerVerdict, Body
  <2>6. Verdict(c, p.id) = "OK"
    BY <2>1, <2>2, <2>4, <2>5 DEF Verdict
  <2>7. Stored(c) = p.body
    BY <2>1, <2>2, <2>3 DEF Stored, DefaultStatus, Body, DefinedStatus
  <2>. QED BY <2>6, <2>7
<1>2. TypeOK => EveryRowCanBeResaved
  BY <1>1, RowsAreRows DEF EveryRowCanBeResaved
<1>. QED
  BY <1>2, TypeCorrect, PTL
=============================================================================
