--------------------------- MODULE PetStoreProofs ---------------------------
(***************************************************************************)
(* PetService implements PetStore, for every set of ids, requests, calls   *)
(* and connections: each step of a handler is a step of the store or is    *)
(* not seen by its clients.  The lists come first, since what a page holds *)
(* is a matter of counting.                                                *)
(***************************************************************************)
EXTENDS PetServiceProofs, FunctionTheorems

(***************************************************************************)
(* The order of the list.                                                  *)
(***************************************************************************)
Rank(rows, p) == Cardinality({q \in rows : Ahead(q, p)})

\* No two rows have the same id.
Distinct(rows) == \A p, q \in rows : p.id = q.id => p = q

\* created_at and id together put any two rows in an order.
LEMMA AheadIsTotal ==
  ASSUME NEW rows \in SUBSET Row, Distinct(rows)
  PROVE  /\ \A p \in rows : ~Ahead(p, p)
         /\ \A p, q, s \in rows : Ahead(p, q) /\ Ahead(q, s) => Ahead(p, s)
         /\ \A p, q \in rows : p # q => Ahead(p, q) \/ Ahead(q, p)
<1>1. ASSUME NEW p \in rows PROVE p.createdAt \in Int /\ p.id \in Int
  <2>1. p \in Row
    OBVIOUS
  <2>2. p.createdAt \in Nat /\ p.id \in Ids
    BY <2>1 DEF Row
  <2>3. p.id \in Nat
    BY <2>2, IdsAssumption
  <2>. QED BY <2>2, <2>3
<1>. QED
  BY <1>1 DEF Ahead, Distinct

\* The number of rows ahead of it is a row's place in the list, and every
\* place is taken.
LEMMA RanksAreThePlaces ==
  ASSUME NEW rows \in SUBSET Row, IsFiniteSet(rows), Distinct(rows)
  PROVE  [p \in rows |-> Rank(rows, p)] \in Bijection(rows, 0..(Cardinality(rows) - 1))
<1>. DEFINE n == Cardinality(rows)
            Before(p) == {q \in rows : Ahead(q, p)}
            place == [p \in rows |-> Rank(rows, p)]
<1>1. n \in Nat
  BY FS_CardinalityType
<1>2. ASSUME NEW p \in rows
      PROVE  IsFiniteSet(Before(p)) /\ Rank(rows, p) \in 0..(n - 1)
  <2>1. Before(p) \subseteq rows \ {p}
    BY AheadIsTotal
  <2>2. IsFiniteSet(rows \ {p}) /\ Cardinality(rows \ {p}) = n - 1
    BY FS_RemoveElement
  <2>3. IsFiniteSet(Before(p)) /\ Cardinality(Before(p)) <= n - 1
    BY <2>1, <2>2, FS_Subset
  <2>. QED BY <1>1, <2>3, FS_CardinalityType DEF Rank
<1>3. ASSUME NEW p \in rows, NEW q \in rows, Ahead(p, q)
      PROVE  Rank(rows, p) < Rank(rows, q)
  <2>1. Before(p) \cup {p} \subseteq Before(q) /\ p \notin Before(p)
    BY <1>3, AheadIsTotal
  <2>2. /\ IsFiniteSet(Before(p) \cup {p})
        /\ Cardinality(Before(p) \cup {p}) = Rank(rows, p) + 1
    BY <1>2, <2>1, FS_AddElement DEF Rank
  <2>3. Rank(rows, p) + 1 <= Rank(rows, q)
    BY <1>2, <2>1, <2>2, FS_Subset DEF Rank
  <2>4. Rank(rows, p) \in 0..(n - 1) /\ Rank(rows, q) \in 0..(n - 1)
    BY <1>2, Zenon
  <2>5. Rank(rows, p) \in Int /\ Rank(rows, q) \in Int
    BY <1>1, <2>4
  <2>. QED BY <2>3, <2>5
<1>4. place \in [rows -> 0..(n - 1)]
  BY <1>2
<1>5. ASSUME NEW p \in rows, NEW q \in rows, place[p] = place[q]
      PROVE  p = q
  <2>1. Rank(rows, p) = Rank(rows, q) /\ Rank(rows, p) \in Int
    <3>1. Rank(rows, p) \in 0..(n - 1)
      BY <1>2, Zenon
    <3>2. Rank(rows, p) \in Int
      BY <1>1, <3>1
    <3>. QED BY <1>5, <3>2
  <2>2. ~(Rank(rows, p) < Rank(rows, q)) /\ ~(Rank(rows, q) < Rank(rows, p))
    BY <2>1
  <2>3. ~Ahead(p, q) /\ ~Ahead(q, p)
    BY <1>3, <2>2, Zenon
  <2>. QED BY <2>3, AheadIsTotal
<1>6. place \in Injection(rows, 0..(n - 1))
  BY <1>4, <1>5, Fun_IsInj
<1>7. IsFiniteSet(0..(n - 1)) /\ Cardinality(0..(n - 1)) = n
  BY <1>1, FS_Interval
<1>8. place \in Surjection(rows, 0..(n - 1))
  BY <1>6, <1>7, FS_Injection
<1>. QED
  BY <1>6, <1>8, Fun_IsBij

\* LIMIT size OFFSET offset gives a full page, or the rest of the list.
LEMMA PageIsCounted ==
  ASSUME NEW rows \in SUBSET Row, IsFiniteSet(rows), Distinct(rows),
         NEW offset \in Nat, NEW size \in Nat
  PROVE  LET rest == Cardinality(rows) - offset
         IN  Cardinality({p \in rows : Rank(rows, p) \in offset..(offset + size - 1)})
               = IF rest <= 0 THEN 0 ELSE IF rest < size THEN rest ELSE size
<1>. DEFINE n == Cardinality(rows)
            page == {p \in rows : Rank(rows, p) \in offset..(offset + size - 1)}
            last == IF n < offset + size THEN n - 1 ELSE offset + size - 1
            place == [p \in page |-> Rank(rows, p)]
<1>1. n \in Nat
  BY FS_CardinalityType
<1>2. /\ \A p \in rows : Rank(rows, p) \in 0..(n - 1)
      /\ \A p, q \in rows : Rank(rows, p) = Rank(rows, q) => p = q
      /\ \A k \in 0..(n - 1) : \E p \in rows : Rank(rows, p) = k
  <2>. DEFINE all == [p \in rows |-> Rank(rows, p)]
  <2>1. all \in Bijection(rows, 0..(n - 1))
    BY RanksAreThePlaces
  <2>a. \A p \in rows : all[p] = Rank(rows, p)
    OBVIOUS
  <2>. HIDE DEF all, n
  <2>2. /\ all \in [rows -> 0..(n - 1)]
        /\ \A p, q \in rows : all[p] = all[q] => p = q
        /\ \A k \in 0..(n - 1) : \E p \in rows : all[p] = k
    <3>. DEFINE places == 0..(n - 1)
    <3>. HIDE DEF places
    <3>1. all \in Bijection(rows, places)
      BY <2>1 DEF places
    <3>2. /\ all \in [rows -> places]
          /\ \A p, q \in rows : all[p] = all[q] => p = q
          /\ \A k \in places : \E p \in rows : all[p] = k
      BY <3>1 DEF Bijection, Injection, Surjection, IsInjective
    <3>. QED BY <3>2 DEF places
  <2>. QED BY <2>2, <2>a
<1>3. place \in [page -> offset..last]
  BY <1>1, <1>2
<1>4. \A p, q \in page : place[p] = place[q] => p = q
  BY <1>2
<1>5. \A k \in offset..last : \E p \in page : place[p] = k
  BY <1>1, <1>2
<1>6. place \in Bijection(page, offset..last)
  BY <1>3, <1>4, <1>5, Fun_IsBij
<1>7. IsFiniteSet(page)
  BY FS_Subset
<1>8. Cardinality(offset..last) = Cardinality(page)
  BY <1>6, <1>7, FS_Bijection, Fun_ExistsBij
<1>9. Cardinality(offset..last) = IF offset > last THEN 0 ELSE last - offset + 1
  <2>1. offset \in Int /\ last \in Int
    BY <1>1
  <2>. HIDE DEF last
  <2>. QED BY <2>1, FS_Interval
<1>. QED
  BY <1>1, <1>8, <1>9

\* An offset that passed the check is the one that Postgres gets.
LEMMA OffsetFits ==
  ASSUME NEW c \in CallType, NEW i, c.op = "List", Verdict(c, i) = "OK"
  PROVE  /\ Offset(c) \in 0..MaxInt32
         /\ Int32(Offset(c)) = Offset(c)
         /\ Limit(c) \in Nat \ {0}
         /\ c.page * Limit(c) = Offset(c)
<1>1. c.page \in Nat /\ c.pageSize \in 0..MaxPageSize /\ Offset(c) <= MaxInt32
  <2>1. WellFormed(c, i) /\ HandlerVerdict(c) = "OK"
    BY Zenon DEF Verdict
  <2>2. c.page \in Int /\ c.page >= 0 /\ c.pageSize \in 0..MaxPageSize
    BY <2>1 DEF WellFormed, CallType
  <2>3. ~(Offset(c) > MaxInt32)
    BY <2>1 DEF HandlerVerdict
  <2>4. Limit(c) \in Int
    BY <2>2, PagingAssumption DEF Limit
  <2>5. c.page * Limit(c) \in Int
    BY <2>2, <2>4
  <2>6. Offset(c) \in Int
    BY <2>5 DEF Offset
  <2>. QED BY <2>2, <2>3, <2>6, PagingAssumption
<1>2. Limit(c) \in Nat \ {0}
  BY <1>1, PagingAssumption DEF Limit
<1>3. c.page * Limit(c) \in Nat
  BY <1>1, <1>2
<1>4. Offset(c) = c.page * Limit(c)
  BY <1>1, <1>2 DEF Offset
<1>5. ASSUME NEW n \in 0..MaxInt32 PROVE Int32(n) = n
  <2>. DEFINE m == MaxInt32 + 1
  <2>1. m \in Nat /\ n + m \in 0..(2 * m - 1)
    BY PagingAssumption
  <2>2. (n + m) % (2 * m) = n + m
    BY <2>1
  <2>. QED BY <2>1, <2>2, PagingAssumption DEF Int32
<1>. QED
  BY <1>1, <1>2, <1>3, <1>4, <1>5

(***************************************************************************)
(* What ListPets has read.                                                 *)
(***************************************************************************)
\* The table's rows are finitely many, no two with one id, and no more than
\* ids have been issued.
LEMMA RowsAreCounted ==
  ASSUME TypeOK, CausalInv
  PROVE  /\ Rows \in SUBSET Row /\ IsFiniteSet(Rows) /\ Distinct(Rows)
         /\ \A p \in Rows : p.id \in issued /\ pets[p.id] = p
         /\ IsFiniteSet(issued) /\ Cardinality(issued) \in Nat
         /\ Cardinality(Rows) <= Cardinality(issued)
<1>. DEFINE Alive == {i \in Ids : pets[i] # NoPet}
            held == [i \in Alive |-> pets[i]]
<1>1. \A p \in Rows : p.id \in issued /\ pets[p.id] = p
  BY DEF Rows, CausalInv, RowsInOrder
<1>2. Rows \in SUBSET Row /\ Distinct(Rows)
  BY <1>1, RowsAreRows DEF Distinct
<1>3. IsFiniteSet(issued) /\ Alive \subseteq issued /\ Alive \subseteq Ids
  BY IdsAssumption, FS_Subset DEF TypeOK, CausalInv, RowsInOrder
<1>4. held \in Surjection(Alive, Rows)
  <2>1. held \in [Alive -> Rows]
    BY DEF Rows
  <2>2. \A p \in Rows : \E i \in Alive : held[i] = p
    BY DEF Rows
  <2>. QED BY <2>1, <2>2 DEF Surjection
<1>5. IsFiniteSet(Alive) /\ Cardinality(Alive) <= Cardinality(issued)
  BY <1>3, FS_Subset
<1>6. IsFiniteSet(Rows) /\ Cardinality(Rows) <= Cardinality(Alive)
  BY <1>4, <1>5, FS_Surjection
<1>7. /\ Cardinality(issued) \in Nat /\ Cardinality(Alive) \in Nat
      /\ Cardinality(Rows) \in Nat
  BY <1>3, <1>5, <1>6, FS_CardinalityType
<1>. QED
  BY <1>1, <1>2, <1>3, <1>5, <1>6, <1>7

\* So are the rows that a WHERE clause keeps.
LEMMA SelectedAreCounted ==
  ASSUME TypeOK, CausalInv, NEW r \in Requests
  PROVE  /\ Selected(r) \in SUBSET Row /\ Selected(r) \in SUBSET Rows
         /\ IsFiniteSet(Selected(r)) /\ Distinct(Selected(r))
         /\ Cardinality(Selected(r)) \in Nat
         /\ Cardinality(Selected(r)) <= Cardinality(issued)
<1>1. Selected(r) \in SUBSET Rows
  BY DEF Selected
<1>2. /\ IsFiniteSet(Selected(r)) /\ Cardinality(Selected(r)) \in Nat
      /\ Cardinality(Selected(r)) <= Cardinality(Rows)
      /\ Cardinality(Rows) \in Nat
  BY <1>1, RowsAreCounted, FS_Subset, FS_CardinalityType
<1>3. Selected(r) \in SUBSET Row /\ Distinct(Selected(r))
  BY <1>1, RowsAreCounted DEF Distinct
<1>. QED
  BY <1>1, <1>2, <1>3, RowsAreCounted

\* A page that is not empty starts before the end of the list.
LEMMA PageStartsWithin ==
  ASSUME TypeOK, CausalInv, NEW r \in Requests, call[r].op = "List",
         Verdict(call[r], target[r]) = "OK",
         PageOf(call[r], Selected(r)) # {}
  PROVE  call[r].page * Limit(call[r]) < Cardinality(issued)
<1>. DEFINE rows == Selected(r)
            offset == Offset(call[r])
<1>1. /\ offset \in Nat /\ Int32(offset) = offset
      /\ Limit(call[r]) \in Nat /\ call[r].page * Limit(call[r]) = offset
  BY OffsetFits, PagingAssumption DEF TypeOK
<1>2. PICK p \in rows : Rank(rows, p) \in offset..(offset + Limit(call[r]) - 1)
  BY <1>1 DEF PageOf, Rank
<1>3. Rank(rows, p) \in 0..(Cardinality(rows) - 1)
  <2>. DEFINE place == [q \in rows |-> Rank(rows, q)]
              places == 0..(Cardinality(rows) - 1)
  <2>1. place \in Bijection(rows, places)
    BY SelectedAreCounted, RanksAreThePlaces
  <2>2. place[p] = Rank(rows, p)
    OBVIOUS
  <2>. HIDE DEF place, places
  <2>3. place[p] \in places
    BY <2>1 DEF Bijection, Injection
  <2>. QED BY <2>2, <2>3 DEF places
<1>4. Rank(rows, p) \in Int /\ Cardinality(rows) \in Nat /\ Cardinality(issued) \in Nat
  BY <1>3, SelectedAreCounted, RowsAreCounted
<1>5. offset <= Rank(rows, p) /\ Rank(rows, p) < Cardinality(rows)
  BY <1>1, <1>2, <1>3, <1>4
<1>6. Cardinality(rows) <= Cardinality(issued)
  BY SelectedAreCounted
<1>. QED
  BY <1>1, <1>4, <1>5, <1>6

\* No id is taken back.
LEMMA IssuedGrows ==
  ASSUME TypeOK, TypeOK', CausalInv, [Next]_vars
  PROVE  /\ issued \subseteq issued'
         /\ Cardinality(issued) \in Nat /\ Cardinality(issued') \in Nat
         /\ Cardinality(issued) <= Cardinality(issued')
<1>1. issued \subseteq issued'
  BY DEF Next, Serve, Receive, Begin, ExecCreate, ExecGet, ExecUpdate, ExecDelete,
         ExecListPage, ExecCount, FailStatement, Deliver, Tick, AllServed, vars
<1>2. IsFiniteSet(issued')
  BY IdsAssumption, FS_Subset DEF TypeOK
<1>. QED
  BY <1>1, <1>2, RowsAreCounted, FS_Subset, FS_CardinalityType

\* What a List request has read and said comes from its first statement.
LEMMA PagesComeFromTheTable ==
  ASSUME TypeOK, Passed, CausalInv, NothingReadYet, [Next]_vars,
         NEW q \in Requests, call'[q].op = "List",
         listed'[q] # {} \/ reply'[q].pets # {}
  PROVE  /\ call'[q] = call[q]
         /\ \/ listed[q] # {} \/ reply[q].pets # {}
            \/ /\ Verdict(call[q], target[q]) = "OK"
               /\ PageOf(call[q], Selected(q)) # {}
<1>. DEFINE Had == listed[q] # {} \/ reply[q].pets # {}
            Reads == /\ Verdict(call[q], target[q]) = "OK"
                     /\ PageOf(call[q], Selected(q)) # {}
            Said == call'[q] = call[q] /\ (Had \/ Reads)
<1>o. /\ \A code : Error(code).pets = {}
      /\ \A s, n : Ok(s, n).pets = s
  BY DEF Error, Ok
<1>1. ASSUME UNCHANGED <<call, listed, reply>> PROVE Said
  BY <1>1
<1>2. ASSUME NEW r \in Requests, Receive(r) PROVE Said
  <2>1. CASE q = r
    <3>1. listed[q] = {} /\ reply[q].pets = {} /\ listed' = listed
      BY <1>2, <2>1 DEF Receive, NothingReadYet
    <3>2. reply' = reply \/ \E code : Respond(r, Error(code))
      BY <1>2, Zenon DEF Receive
    <3>3. reply'[q].pets = {}
      BY <2>1, <3>1, <3>2, <1>o DEF Respond, TypeOK
    <3>. QED BY <3>1, <3>3
  <2>2. CASE q # r
    <3>1. \E c, code : /\ call' = [call EXCEPT ![r] = c]
                       /\ reply' = reply \/ Respond(r, Error(code))
      BY <1>2, Zenon DEF Receive
    <3>2. call'[q] = call[q] /\ reply'[q] = reply[q] /\ listed' = listed
      BY <1>2, <2>2, <3>1 DEF Receive, Respond, TypeOK
    <3>. QED BY <3>2
  <2>. QED BY <2>1, <2>2
<1>3. ASSUME NEW r \in Requests, r # q, NEW rep, Outcome(r, rep),
             UNCHANGED <<request, listed>>
      PROVE  Said
  BY <1>3, OutcomeIsLocal DEF request
<1>4. ASSUME NEW r \in Requests, \E op : Executes(r, op) /\ op # "List",
             NEW rep, Outcome(r, rep), UNCHANGED <<request, listed>>
      PROVE  Said
  <2>1. r # q
    BY <1>4 DEF Executes, request
  <2>. QED BY <1>3, <1>4, <2>1
<1>5. ASSUME NEW r \in Requests, ExecCreate(r) PROVE Said
  <2>1. Executes(r, "Create") /\ (\E rep : Outcome(r, rep)) /\ UNCHANGED <<request, listed>>
    BY <1>5, Zenon DEF ExecCreate
  <2>. QED BY <2>1, <1>4
<1>6. ASSUME NEW r \in Requests, ExecGet(r) PROVE Said
  <2>1. Executes(r, "Get") /\ (\E rep : Outcome(r, rep)) /\ UNCHANGED <<request, listed>>
    BY <1>6, Zenon DEF ExecGet, NotFound
  <2>. QED BY <2>1, <1>4
<1>7. ASSUME NEW r \in Requests, ExecUpdate(r) PROVE Said
  <2>1. Executes(r, "Update") /\ (\E rep : Outcome(r, rep)) /\ UNCHANGED <<request, listed>>
    BY <1>7, Zenon DEF ExecUpdate, NotFound
  <2>. QED BY <2>1, <1>4
<1>8. ASSUME NEW r \in Requests, ExecDelete(r) PROVE Said
  <2>1. Executes(r, "Delete") /\ (\E rep : Outcome(r, rep)) /\ UNCHANGED <<request, listed>>
    BY <1>8, Zenon DEF ExecDelete, NotFound
  <2>. QED BY <2>1, <1>4
<1>9. ASSUME NEW r \in Requests, ExecListPage(r) PROVE Said
  <2>1. /\ listed' = [listed EXCEPT ![r] = PageOf(call[r], Selected(r))]
        /\ UNCHANGED <<call, reply>> /\ pc[r] = "running"
    BY <1>9 DEF ExecListPage, Executes, request
  <2>2. CASE q = r
    BY <2>1, <2>2 DEF Passed, TypeOK
  <2>3. CASE q # r
    BY <2>1, <2>3 DEF TypeOK
  <2>. QED BY <2>2, <2>3
<1>10. ASSUME NEW r \in Requests, ExecCount(r) PROVE Said
  <2>1. /\ Outcome(r, Ok(listed[r], ClampInt32(Cardinality(Selected(r)))))
        /\ UNCHANGED <<call, listed>>
    BY <1>10 DEF ExecCount, request
  <2>2. CASE q = r
    BY <2>1, <2>2, <1>o, OutcomeIsLocal
  <2>3. CASE q # r
    BY <2>1, <2>3, OutcomeIsLocal
  <2>. QED BY <2>2, <2>3
<1>11. ASSUME NEW r \in Requests, FailStatement(r) PROVE Said
  <2>1. Respond(r, Error("Internal")) /\ UNCHANGED <<call, listed>>
    BY <1>11 DEF FailStatement, request
  <2>. QED BY <2>1, <1>o DEF Respond, TypeOK
<1>12. ASSUME NEW r \in Requests, Begin(r) \/ Deliver(r) PROVE Said
  BY <1>12, <1>1 DEF Begin, Deliver, request
<1>13. ASSUME Tick \/ AllServed \/ UNCHANGED vars PROVE Said
  BY <1>13, <1>1 DEF Tick, AllServed, vars, request
<1>. QED
  BY <1>2, <1>5, <1>6, <1>7, <1>8, <1>9, <1>10, <1>11, <1>12, <1>13, Zenon DEF Next, Serve

\* A request that has not arrived holds nothing.
LEMMA ReadAfterAsking == Spec => []NothingReadYet
<1>1. Init => NothingReadYet
  BY DEF Init, NothingReadYet, NoReply
<1>2. TypeOK /\ NothingReadYet /\ [Next]_vars => NothingReadYet'
  <2>. SUFFICES ASSUME TypeOK, NothingReadYet, [Next]_vars, NEW q \in Requests, pc'[q] = "idle"
                PROVE  listed'[q] = {} /\ reply'[q].pets = {}
    BY DEF NothingReadYet
  <2>. DEFINE Idle == pc[q] = "idle" /\ listed'[q] = listed[q] /\ reply'[q] = reply[q]
  <2>1. ASSUME NEW r \in Requests, NEW rep, Outcome(r, rep), UNCHANGED listed PROVE Idle
    BY <2>1 DEF Outcome, Respond, Goto, TypeOK
  <2>2. ASSUME NEW r \in Requests, Receive(r) PROVE Idle
    <3>1. /\ (\E step : Goto(r, step) /\ step # "idle")
          /\ q # r => reply'[q] = reply[q]
          /\ listed' = listed
      BY <2>2 DEF Receive, Respond, TypeOK
    <3>. QED BY <3>1 DEF Goto, TypeOK
  <2>3. ASSUME NEW r \in Requests, Begin(r) \/ Deliver(r) PROVE Idle
    BY <2>3 DEF Begin, Deliver, Goto, TypeOK
  <2>4. ASSUME NEW r \in Requests,
               ExecCreate(r) \/ ExecGet(r) \/ ExecUpdate(r) \/ ExecDelete(r) \/ ExecCount(r)
        PROVE  Idle
    <3>1. (\E rep : Outcome(r, rep)) /\ UNCHANGED listed
      BY <2>4, Zenon DEF ExecCreate, ExecGet, ExecUpdate, ExecDelete, ExecCount, NotFound
    <3>. QED BY <3>1, <2>1
  <2>5. ASSUME NEW r \in Requests, ExecListPage(r) PROVE Idle
    BY <2>5 DEF ExecListPage, Goto, TypeOK
  <2>6. ASSUME NEW r \in Requests, FailStatement(r) PROVE Idle
    BY <2>6 DEF FailStatement, Respond, Goto, TypeOK
  <2>7. ASSUME Tick \/ AllServed \/ UNCHANGED vars PROVE Idle
    BY <2>7 DEF Tick, AllServed, vars
  <2>8. Idle
    BY <2>2, <2>3, <2>4, <2>5, <2>6, <2>7, Zenon DEF Next, Serve
  <2>. QED BY <2>8 DEF NothingReadYet
<1>. QED
  BY <1>1, <1>2, TypeCorrect, PTL DEF Spec

\* A page beyond the end of the list is empty, however far beyond.
THEOREM FarPagesStayEmpty == Spec => []FarPagesAreEmpty
<1>1. Init => PagesAreWithin
  BY DEF Init, PagesAreWithin, NoReply
<1>2. TypeOK /\ TypeOK' /\ Passed /\ CausalInv /\ NothingReadYet /\ PagesAreWithin /\ [Next]_vars
        => PagesAreWithin'
  <2>. SUFFICES ASSUME TypeOK, TypeOK', Passed, CausalInv, NothingReadYet, PagesAreWithin, [Next]_vars,
                       NEW q \in Requests, call'[q].op = "List",
                       listed'[q] # {} \/ reply'[q].pets # {}
                PROVE  call'[q].page * Limit(call'[q]) < Cardinality(issued')
    BY DEF PagesAreWithin
  <2>1. call'[q] = call[q]
    BY PagesComeFromTheTable
  <2>2. call[q].page * Limit(call[q]) < Cardinality(issued)
    BY <2>1, PagesComeFromTheTable, PageStartsWithin DEF PagesAreWithin
  <2>. DEFINE first == call[q].page * Limit(call[q])
  <2>3. first \in Int
    <3>1. call[q].page \in Int /\ Limit(call[q]) \in Int
      BY PagingAssumption DEF TypeOK, CallType, Limit
    <3>. QED BY <3>1
  <2>. HIDE DEF first
  <2>4. first < Cardinality(issued')
    BY <2>2, <2>3, IssuedGrows DEF first
  <2>. QED BY <2>1, <2>4 DEF first
<1>3. PagesAreWithin => FarPagesAreEmpty
  BY DEF PagesAreWithin, FarPagesAreEmpty
<1>. QED
  BY <1>1, <1>2, <1>3, TypedAndPassed, Causality, ReadAfterAsking, PTL DEF Spec

(***************************************************************************)
(* The refinement mapping, step by step.                                   *)
(***************************************************************************)
\* A set has as many elements on both sides.
LEMMA SameCounts == \A S : Abstract!Cardinality(S) = Cardinality(S)
BY Zenon DEF Abstract!Cardinality, Cardinality

\* The checks and the contents of a call are the same on both sides.
LEMMA SameCalls ==
  /\ Abstract!CallType = CallType
  /\ Abstract!Targets = Targets
  /\ \A c, i : Abstract!Verdict(c, i) = Verdict(c, i)
  /\ \A c : Abstract!Stored(c) = Stored(c)
  /\ \A c, p : Abstract!Matches(c, p) = Matches(c, p)
  /\ \A c : Abstract!Offset(c) = Offset(c) /\ Abstract!Limit(c) = Limit(c)
  /\ \A n : Abstract!ClampInt32(n) = ClampInt32(n)
<1>. USE DEF Abstract!Empty, Empty, Abstract!Trim, Trim, Abstract!TrimmedBlank, TrimmedBlank,
             Abstract!Text, Text, Abstract!Limit, Limit, Abstract!Offset, Offset
<1>1. Abstract!CallType = CallType
  BY DEF Abstract!CallType, CallType, Abstract!Ops, Ops, Abstract!Births, Births,
         Abstract!DefinedStatus, DefinedStatus, Abstract!Callers, Callers
<1>2. Abstract!Targets = Targets
  BY DEF Abstract!Targets, Targets
<1>3. ASSUME NEW c, NEW i PROVE Abstract!Verdict(c, i) = Verdict(c, i)
  <2>1. Abstract!WellFormed(c, i) <=> WellFormed(c, i)
    BY DEF Abstract!WellFormed, WellFormed
  <2>2. Abstract!HandlerVerdict(c) = HandlerVerdict(c)
    BY DEF Abstract!HandlerVerdict, HandlerVerdict
  <2>. QED BY <2>1, <2>2 DEF Abstract!Verdict, Verdict
<1>4. \A c : Abstract!Stored(c) = Stored(c)
  BY DEF Abstract!Stored, Stored, Abstract!DefaultStatus, DefaultStatus
<1>5. \A c, p : Abstract!Matches(c, p) = Matches(c, p)
  BY DEF Abstract!Matches, Matches
<1>6. \A c : Abstract!Offset(c) = Offset(c) /\ Abstract!Limit(c) = Limit(c)
  OBVIOUS
<1>7. \A n : Abstract!ClampInt32(n) = ClampInt32(n)
  BY DEF Abstract!ClampInt32, ClampInt32
<1>. QED
  BY <1>1, <1>2, <1>3, <1>4, <1>5, <1>6, <1>7

\* A row is there for the client whenever it is in the table.
LEMMA BarOfRows ==
  ASSUME TypeOK
  PROVE  /\ \A p \in Row : Visible(p) # NoPet
         /\ \A i \in Ids : StoreBar[i] = IF pets[i] = NoPet THEN NoPet ELSE Visible(pets[i])
         /\ \A i \in Ids : StoreBar[i] = NoPet <=> pets[i] = NoPet
         /\ \A i : Abstract!Lookup(i) = NoPet <=> Lookup(i) = NoPet
<1>1. ASSUME NEW p \in Row PROVE Visible(p) # NoPet
  <2>1. Visible(p) \in [id : Ids, body : Body, createdBy : Users, modifiedBy : Users]
    BY DEF Visible, Row
  <2>. QED BY <2>1, VisibleAssumption
<1>2. \A i \in Ids : StoreBar[i] = IF pets[i] = NoPet THEN NoPet ELSE Visible(pets[i])
  BY DEF StoreBar
<1>3. \A i \in Ids : pets[i] # NoPet => pets[i] \in Row
  BY DEF TypeOK
<1>4. \A i \in Ids : StoreBar[i] = NoPet <=> pets[i] = NoPet
  BY <1>1, <1>2, <1>3
<1>. QED
  BY <1>1, <1>2, <1>4 DEF Abstract!Lookup, Lookup

\* How the abstract variables follow the concrete ones.
LEMMA BarsFollow ==
  ASSUME TypeOK
  PROVE  /\ UNCHANGED pets => UNCHANGED StoreBar
         /\ UNCHANGED listed => UNCHANGED PagedBar
         /\ UNCHANGED reply => UNCHANGED AnswerBar
         /\ UNCHANGED pc => UNCHANGED PhaseBar
<1>. QED
  BY DEF StoreBar, PagedBar, AnswerBar, PhaseBar

\* A step of a request is a step of its phase.
LEMMA PhaseFollows ==
  ASSUME TypeOK, NEW r \in Requests, NEW step, Goto(r, step)
  PROVE  PhaseBar' = [PhaseBar EXCEPT ![r] = Phase(step)]
BY DEF PhaseBar, Goto, TypeOK

\* What a handler responds with is the answer clients see.
LEMMA AnswerFollows ==
  ASSUME TypeOK, NEW r \in Requests, NEW rep, Respond(r, rep)
  PROVE  Abstract!Answer(r, rep.code, {Visible(p) : p \in rep.pets}, rep.total)
<1>1. PhaseBar' = [PhaseBar EXCEPT ![r] = "answered"]
  BY PhaseFollows DEF Respond, Phase
<1>2. AnswerBar' = [AnswerBar EXCEPT ![r] = Seen(rep)]
  BY DEF AnswerBar, Respond, TypeOK
<1>. QED
  BY <1>1, <1>2 DEF Abstract!Answer, Abstract!To, Seen

\* A statement's outcome is the abstract operation's.
LEMMA OutcomeFollows ==
  ASSUME TypeOK, NEW r \in Requests, NEW rep, Outcome(r, rep)
  PROVE  Abstract!AnswerOrLose(r, rep.code, {Visible(p) : p \in rep.pets}, rep.total)
<1>1. /\ Error("Internal").code = "Internal" /\ Error("Internal").pets = {}
      /\ Error("Internal").total = 0
  BY DEF Error
<1>2. Respond(r, rep) \/ Respond(r, Error("Internal"))
  BY DEF Outcome
<1>3. CASE Respond(r, rep)
  BY <1>3, AnswerFollows DEF Abstract!AnswerOrLose
<1>4. CASE Respond(r, Error("Internal"))
  <2>1. Abstract!Answer(r, "Internal", {Visible(p) : p \in {}}, 0)
    BY <1>1, <1>4, AnswerFollows
  <2>2. {Visible(p) : p \in {}} = {}
    OBVIOUS
  <2>. QED BY <2>1, <2>2 DEF Abstract!AnswerOrLose
<1>. QED
  BY <1>2, <1>3, <1>4

\* Init implements Init.
LEMMA InitRefines == Init /\ TypeOK => Abstract!Init
<1>. SUFFICES ASSUME Init, TypeOK PROVE Abstract!Init
  OBVIOUS
<1>1. StoreBar = [i \in Ids |-> NoPet]
  BY DEF Init, StoreBar
<1>2. PhaseBar = [r \in Requests |-> "idle"]
  BY DEF Init, PhaseBar, Phase
<1>3. PagedBar = [r \in Requests |-> {}]
  BY DEF Init, PagedBar
<1>4. AnswerBar = [r \in Requests |-> [code |-> "none", pets |-> {}, total |-> 0]]
  <2>1. Seen(NoReply) = [code |-> "none", pets |-> {}, total |-> 0]
    BY DEF Seen, NoReply
  <2>. QED BY <2>1 DEF Init, AnswerBar
<1>. QED
  BY <1>1, <1>2, <1>3, <1>4, SameCalls DEF Abstract!Init, TypeOK

\* A request arrives.
LEMMA ReceiveRefines ==
  ASSUME TypeOK, TypeOK', NEW r \in Requests, Receive(r)
  PROVE  Abstract!Ask(r)
<1>1. PICK c \in Calls, i \in known \cup Guesses :
        /\ call' = [call EXCEPT ![r] = c]
        /\ target' = [target EXCEPT ![r] = i]
        /\ \/ Verdict(c, i) = "OK" /\ Goto(r, "acquire") /\ UNCHANGED reply
           \/ Verdict(c, i) # "OK" /\ Respond(r, Error(Verdict(c, i)))
  BY Zenon DEF Receive
<1>2. call'[r] = c /\ target'[r] = i
  BY <1>1 DEF TypeOK
<1>3. PhaseBar[r] = "idle"
  BY DEF Receive, PhaseBar, Phase
<1>4. UNCHANGED <<StoreBar, PagedBar>>
  BY BarsFollow DEF Receive
<1>5. /\ call'[r] \in Abstract!CallType /\ target'[r] \in Abstract!Targets
      /\ Abstract!Verdict(call'[r], target'[r]) = Verdict(call'[r], target'[r])
  BY SameCalls DEF TypeOK
<1>6. CASE Verdict(c, i) = "OK" /\ Goto(r, "acquire") /\ UNCHANGED reply
  <2>1. PhaseBar' = [PhaseBar EXCEPT ![r] = "asked"]
    BY <1>6, PhaseFollows DEF Phase
  <2>2. Verdict(call'[r], target'[r]) = "OK" /\ Abstract!To(r, "asked") /\ UNCHANGED AnswerBar
    BY <1>2, <1>6, <2>1, BarsFollow DEF Abstract!To
  <2>. QED BY <1>1, <1>2, <1>3, <1>4, <1>5, <2>2 DEF Abstract!Ask
<1>7. CASE Verdict(c, i) # "OK" /\ Respond(r, Error(Verdict(c, i)))
  <2>1. \A code : Error(code).code = code /\ Error(code).pets = {} /\ Error(code).total = 0
    BY DEF Error
  <2>. DEFINE rep == Error(Verdict(c, i))
  <2>2. Abstract!Answer(r, Verdict(c, i), {Visible(p) : p \in {}}, 0)
    <3>1. rep.code = Verdict(c, i) /\ rep.pets = {} /\ rep.total = 0
      BY <2>1
    <3>. HIDE DEF rep
    <3>2. Respond(r, rep)
      BY <1>7 DEF rep
    <3>3. Abstract!Answer(r, rep.code, {Visible(p) : p \in rep.pets}, rep.total)
      BY <3>2, AnswerFollows
    <3>. QED BY <3>1, <3>3
  <2>3. {Visible(p) : p \in {}} = {}
    OBVIOUS
  <2>4. /\ Verdict(call'[r], target'[r]) # "OK"
        /\ Abstract!Answer(r, Verdict(call'[r], target'[r]), {}, 0)
    BY <1>2, <1>7, <2>2, <2>3
  <2>. QED BY <1>1, <1>2, <1>3, <1>4, <1>5, <2>4 DEF Abstract!Ask
<1>. QED
  BY <1>1, <1>6, <1>7

\* A statement about one pet, up to what it does to the table.
LEMMA PerformFollows ==
  ASSUME TypeOK, NEW r \in Requests, NEW op, Executes(r, op),
         UNCHANGED <<request, listed>>
  PROVE  Abstract!Perform(r, op) /\ UNCHANGED PagedBar
<1>1. PhaseBar[r] = "asked"
  BY DEF Executes, PhaseBar, Phase
<1>. QED
  BY <1>1, BarsFollow DEF Abstract!Perform, Executes, request

\* No row is no pet.
LEMMA NotFoundRefines ==
  ASSUME TypeOK, NEW r \in Requests, NotFound(r)
  PROVE  Abstract!Missing(r)
<1>1. Abstract!Lookup(target[r]) = NoPet /\ UNCHANGED StoreBar
  BY BarOfRows, BarsFollow DEF NotFound
<1>2. Abstract!AnswerOrLose(r, "NotFound", {}, 0)
  <2>. DEFINE rep == Error("NotFound")
  <2>1. rep.code = "NotFound" /\ {Visible(p) : p \in rep.pets} = {} /\ rep.total = 0
    BY DEF Error
  <2>. HIDE DEF rep
  <2>2. Outcome(r, rep)
    BY DEF NotFound, rep
  <2>3. Abstract!AnswerOrLose(r, rep.code, {Visible(p) : p \in rep.pets}, rep.total)
    BY <2>2, OutcomeFollows
  <2>. QED BY <2>1, <2>3
<1>. QED
  BY <1>1, <1>2 DEF Abstract!Missing

\* An answer with the rows of a statement is the abstract one with the pets.
LEMMA OkFollows ==
  ASSUME TypeOK, NEW r \in Requests, NEW rows, NEW n, Outcome(r, Ok(rows, n))
  PROVE  Abstract!AnswerOrLose(r, "OK", {Visible(p) : p \in rows}, n)
<1>. DEFINE rep == Ok(rows, n)
<1>1. rep.code = "OK" /\ rep.pets = rows /\ rep.total = n
  BY DEF Ok
<1>. HIDE DEF rep
<1>2. Abstract!AnswerOrLose(r, rep.code, {Visible(p) : p \in rep.pets}, rep.total)
  BY OutcomeFollows DEF rep
<1>. QED
  BY <1>1, <1>2

\* The same for a single row.
LEMMA OneRowFollows ==
  ASSUME TypeOK, NEW r \in Requests, NEW row, Outcome(r, Ok({row}, 0))
  PROVE  Abstract!AnswerOrLose(r, "OK", {Visible(row)}, 0)
<1>1. {Visible(p) : p \in {row}} = {Visible(row)}
  OBVIOUS
<1>. QED
  BY <1>1, OkFollows

\* One row of the table changes, and one pet of the store.
LEMMA WriteFollows ==
  ASSUME TypeOK, NEW i \in Ids, NEW row \in Row, pets' = [pets EXCEPT ![i] = row]
  PROVE  StoreBar' = [StoreBar EXCEPT ![i] = Visible(row)]
<1>1. row # NoPet
  BY NoPetAssumption
<1>. QED
  BY <1>1 DEF StoreBar, TypeOK

\* An INSERT adds a pet under an id that no pet has.
LEMMA CreateRefines ==
  ASSUME TypeOK, Passed, CausalInv, NEW r \in Requests, ExecCreate(r)
  PROVE  Abstract!Create(r)
<1>. DEFINE row(i) == [id |-> i, body |-> Stored(call[r]),
                       createdAt |-> start[r], modifiedAt |-> start[r],
                       createdBy |-> call[r].who, modifiedBy |-> call[r].who]
            pet(i) == [id |-> i, body |-> Stored(call[r]),
                       createdBy |-> call[r].who, modifiedBy |-> call[r].who]
<1>1. PICK i \in Ids \ issued :
        pets' = [pets EXCEPT ![i] = row(i)] /\ Outcome(r, Ok({row(i)}, 0))
  BY Zenon DEF ExecCreate
<1>2. Stored(call[r]) \in Body /\ call[r].who \in Users
  BY StoredIsBody DEF ExecCreate, Executes, Passed, TypeOK
<1>3. row(i) \in Row /\ Visible(row(i)) = pet(i)
  BY <1>1, <1>2 DEF Row, TypeOK, Visible
<1>4. i \in Ids \ Abstract!Alive
  BY <1>1, BarOfRows DEF Abstract!Alive, CausalInv, RowsInOrder
<1>. HIDE DEF row, pet
<1>5. /\ StoreBar' = [StoreBar EXCEPT ![i] = pet(i)]
      /\ Abstract!AnswerOrLose(r, "OK", {pet(i)}, 0)
  BY <1>1, <1>3, WriteFollows, OneRowFollows
<1>6. Abstract!Perform(r, "Create") /\ UNCHANGED PagedBar
  BY PerformFollows DEF ExecCreate
<1>7. Abstract!Stored(call[r]) = Stored(call[r])
  BY SameCalls
<1>. QED
  BY <1>4, <1>5, <1>6, <1>7 DEF Abstract!Create, pet

\* A SELECT reads the pet.
LEMMA GetRefines ==
  ASSUME TypeOK, NEW r \in Requests, ExecGet(r)
  PROVE  Abstract!Get(r)
<1>1. Abstract!Perform(r, "Get") /\ UNCHANGED PagedBar
  BY PerformFollows DEF ExecGet
<1>2. CASE NotFound(r)
  BY <1>1, <1>2, NotFoundRefines DEF Abstract!Get
<1>3. CASE /\ Lookup(target[r]) # NoPet
           /\ Outcome(r, Ok({pets[target[r]]}, 0))
           /\ UNCHANGED pets
  <2>1. target[r] \in Ids /\ pets[target[r]] # NoPet
    BY <1>3 DEF Lookup
  <2>2. Abstract!Lookup(target[r]) # NoPet /\ StoreBar[target[r]] = Visible(pets[target[r]])
    BY <1>3, <2>1, BarOfRows
  <2>3. Abstract!AnswerOrLose(r, "OK", {StoreBar[target[r]]}, 0)
    BY <1>3, <2>2, OneRowFollows
  <2>. QED BY <1>1, <1>3, <2>2, <2>3, BarsFollow DEF Abstract!Get
<1>. QED
  BY <1>2, <1>3 DEF ExecGet

\* An UPDATE rewrites the pet with a call that passed the checks.
LEMMA UpdateRefines ==
  ASSUME TypeOK, Passed, NEW r \in Requests, ExecUpdate(r)
  PROVE  Abstract!Update(r)
<1>1. Abstract!Perform(r, "Update") /\ UNCHANGED PagedBar
  BY PerformFollows DEF ExecUpdate
<1>2. CASE NotFound(r)
  BY <1>1, <1>2, NotFoundRefines DEF Abstract!Update
<1>3. CASE /\ Lookup(target[r]) # NoPet
           /\ pets' = [pets EXCEPT ![target[r]] = Rewritten(r)]
           /\ Outcome(r, Ok({Rewritten(r)}, 0))
  <2>. DEFINE old == pets[target[r]]
              pet == [StoreBar[target[r]] EXCEPT !.body = Abstract!Stored(call[r]),
                                                 !.modifiedBy = call[r].who]
  <2>1. target[r] \in Ids /\ old # NoPet /\ old \in Row
    BY <1>3 DEF Lookup, TypeOK
  <2>2. Abstract!Lookup(target[r]) # NoPet /\ StoreBar[target[r]] = Visible(old)
    BY <1>3, <2>1, BarOfRows
  <2>3. Stored(call[r]) \in Body /\ call[r].who \in Users /\ start[r] \in Nat
    BY StoredIsBody DEF ExecUpdate, Executes, Passed, TypeOK
  <2>4. Rewritten(r) \in Row
    BY <2>1, <2>3 DEF Rewritten, Row
  <2>5. Visible(Rewritten(r)) = pet
    <3>. DEFINE body == Stored(call[r])
                who == call[r].who
                new == Rewritten(r)
                seen == [id |-> old.id, body |-> body,
                         createdBy |-> old.createdBy, modifiedBy |-> who]
    <3>1. new = [old EXCEPT !.body = body, !.modifiedAt = start[r], !.modifiedBy = who]
      BY DEF Rewritten
    <3>2. pet = [Visible(old) EXCEPT !.body = body, !.modifiedBy = who]
      BY <2>2, SameCalls
    <3>. HIDE DEF old, new, body, who, pet
    <3>3. /\ new.id = old.id /\ new.body = body
          /\ new.createdBy = old.createdBy /\ new.modifiedBy = who
      BY <2>1, <3>1 DEF Row
    <3>4. Visible(new) = seen
      BY <3>3 DEF Visible
    <3>5. pet \in [id : {old.id}, body : {body}, createdBy : {old.createdBy}, modifiedBy : {who}]
      BY <3>2 DEF Visible
    <3>6. pet = seen
      BY <3>5
    <3>. QED BY <3>4, <3>6 DEF new
  <2>. HIDE DEF pet
  <2>6. /\ StoreBar' = [StoreBar EXCEPT ![target[r]] = pet]
        /\ Abstract!AnswerOrLose(r, "OK", {pet}, 0)
    BY <1>3, <2>1, <2>4, <2>5, WriteFollows, OneRowFollows
  <2>. QED BY <1>1, <2>2, <2>6 DEF Abstract!Update, pet
<1>. QED
  BY <1>2, <1>3 DEF ExecUpdate

\* A DELETE removes the pet.
LEMMA DeleteRefines ==
  ASSUME TypeOK, NEW r \in Requests, ExecDelete(r)
  PROVE  Abstract!Delete(r)
<1>1. Abstract!Perform(r, "Delete") /\ UNCHANGED PagedBar
  BY PerformFollows DEF ExecDelete
<1>2. CASE NotFound(r)
  BY <1>1, <1>2, NotFoundRefines DEF Abstract!Delete
<1>3. CASE /\ Lookup(target[r]) # NoPet
           /\ pets' = [pets EXCEPT ![target[r]] = NoPet]
           /\ Outcome(r, Ok({}, 0))
  <2>1. target[r] \in Ids /\ Abstract!Lookup(target[r]) # NoPet
    BY <1>3, BarOfRows DEF Lookup
  <2>2. StoreBar' = [StoreBar EXCEPT ![target[r]] = NoPet]
    BY <1>3, <2>1 DEF StoreBar, TypeOK
  <2>3. Abstract!AnswerOrLose(r, "OK", {}, 0)
    <3>1. {Visible(p) : p \in {}} = {}
      OBVIOUS
    <3>. QED BY <1>3, <3>1, OkFollows
  <2>. QED BY <1>1, <2>1, <2>2, <2>3 DEF Abstract!Delete
<1>. QED
  BY <1>2, <1>3 DEF ExecDelete

\* The pets that a List request selects are its rows, one by one.
LEMMA SelectionFollows ==
  ASSUME TypeOK, CausalInv, NEW r \in Requests
  PROVE  /\ Abstract!Selected(r) = {p.id : p \in Selected(r)}
         /\ \A p \in Rows : StoreBar[p.id] = Visible(p)
         /\ \A S \in SUBSET Rows : Cardinality({p.id : p \in S}) = Cardinality(S)
<1>1. \A p \in Rows : p \in Row /\ p.id \in Ids /\ pets[p.id] = p /\ p # NoPet
  <2>1. \A p \in Row : p.id \in Ids /\ p # NoPet
    BY NoPetAssumption DEF Row
  <2>. QED BY <2>1, RowsAreCounted
<1>2. \A p \in Rows : StoreBar[p.id] = Visible(p)
  BY <1>1, BarOfRows
<1>3. \A i \in Abstract!Alive : pets[i] \in Rows /\ pets[i].id = i
  BY BarOfRows DEF Abstract!Alive, Rows, CausalInv, RowsInOrder
<1>4. \A p \in Rows : p.id \in Abstract!Alive
  BY <1>1, BarOfRows DEF Abstract!Alive
<1>5. \A c, p : Abstract!Matches(c, Visible(p)) <=> Matches(c, p)
  BY SameCalls DEF Matches, Visible
<1>6. Abstract!Selected(r) = {p.id : p \in Selected(r)}
  <2>1. ASSUME NEW i \in Abstract!Selected(r) PROVE i \in {p.id : p \in Selected(r)}
    <3>1. i \in Abstract!Alive /\ Abstract!Matches(call[r], StoreBar[i])
      BY DEF Abstract!Selected
    <3>2. pets[i] \in Rows /\ pets[i].id = i
      BY <1>3, <3>1
    <3>3. Matches(call[r], pets[i])
      BY <1>2, <1>5, <3>1, <3>2
    <3>. QED BY <3>2, <3>3 DEF Selected
  <2>2. ASSUME NEW p \in Selected(r) PROVE p.id \in Abstract!Selected(r)
    BY <1>2, <1>4, <1>5 DEF Selected, Abstract!Selected
  <2>. QED BY <2>1, <2>2
<1>7. ASSUME NEW S \in SUBSET Rows
      PROVE  Cardinality({p.id : p \in S}) = Cardinality(S)
  <2>. DEFINE ids == {p.id : p \in S}
              naming == [p \in S |-> p.id]
  <2>1. naming \in [S -> ids]
    OBVIOUS
  <2>2. \A i \in ids : \E p \in S : naming[p] = i
    OBVIOUS
  <2>3. \A p, q \in S : naming[p] = naming[q] => p = q
    BY <1>1
  <2>4. naming \in Surjection(S, ids) /\ naming \in Injection(S, ids)
    BY <2>1, <2>2, <2>3 DEF Surjection, Injection, IsInjective
  <2>5. IsFiniteSet(S)
    BY RowsAreCounted, FS_Subset
  <2>. HIDE DEF naming, ids
  <2>6. Cardinality(ids) = Cardinality(S)
    BY <2>4, <2>5, FS_Surjection
  <2>. QED BY <2>6 DEF ids
<1>. QED
  BY <1>2, <1>6, <1>7

\* A page is of the size that the limit and the offset leave.
LEMMA ListPageRefines ==
  ASSUME TypeOK, Passed, CausalInv, NEW r \in Requests, ExecListPage(r)
  PROVE  Abstract!ListPage(r)
<1>. DEFINE rows == Selected(r)
            page == PageOf(call[r], rows)
            part == {p.id : p \in page}
<1>1. /\ pc[r] = "running" /\ call[r].op = "List"
      /\ call[r] \in CallType /\ Verdict(call[r], target[r]) = "OK"
  BY DEF ExecListPage, Executes, Passed, TypeOK
<1>2. Abstract!Perform(r, "List")
  <2>1. PhaseBar[r] = "asked"
    BY <1>1 DEF PhaseBar, Phase
  <2>. QED BY <1>1, <2>1 DEF Abstract!Perform, ExecListPage, request
<1>3. page \subseteq rows /\ rows \subseteq Rows
  BY DEF PageOf, Selected
<1>4. part \in SUBSET Abstract!Selected(r)
  BY <1>3, SelectionFollows
<1>5. Cardinality(part) = Abstract!PageSize(r)
  <2>1. Cardinality(part) = Cardinality(page)
    BY <1>3, SelectionFollows
  <2>2. Cardinality(Abstract!Selected(r)) = Cardinality(rows)
    BY <1>3, SelectionFollows
  <2>. DEFINE offset == Offset(call[r])
              size == Limit(call[r])
  <2>3. offset \in Nat /\ size \in Nat /\ Int32(offset) = offset
    BY <1>1, OffsetFits, PagingAssumption
  <2>4. page = {p \in rows : Rank(rows, p) \in offset..(offset + size - 1)}
    BY <2>3 DEF PageOf, Rank
  <2>5. /\ Abstract!Offset(call[r]) = offset
        /\ Abstract!Limit(call[r]) = size
    BY SameCalls
  <2>. HIDE DEF rows, page, part, offset, size
  <2>6. Cardinality(page) = LET rest == Cardinality(rows) - offset
                            IN  IF rest <= 0 THEN 0 ELSE IF rest < size THEN rest ELSE size
    BY <2>3, <2>4, SelectedAreCounted, PageIsCounted DEF rows
  <2>. QED BY <2>1, <2>2, <2>5, <2>6, SameCounts DEF Abstract!PageSize
<1>6. PagedBar' = [PagedBar EXCEPT ![r] = {StoreBar[i] : i \in part}]
  <2>1. {StoreBar[i] : i \in part} = {Visible(p) : p \in page}
    BY <1>3, SelectionFollows
  <2>. HIDE DEF page
  <2>2. listed' = [listed EXCEPT ![r] = page]
    BY DEF ExecListPage, page
  <2>3. PagedBar' = [PagedBar EXCEPT ![r] = {Visible(p) : p \in page}]
    BY <2>2 DEF PagedBar, TypeOK
  <2>. QED BY <2>1, <2>3
<1>7. Abstract!To(r, "paged")
  <2>1. Goto(r, "acquireCount") /\ Phase("acquireCount") = "paged"
    BY DEF ExecListPage, Phase
  <2>. QED BY <2>1, PhaseFollows DEF Abstract!To
<1>8. UNCHANGED <<StoreBar, AnswerBar>>
  BY BarsFollow DEF ExecListPage
<1>. HIDE DEF part
<1>. QED
  BY <1>2, <1>4, <1>5, <1>6, <1>7, <1>8, SameCounts DEF Abstract!ListPage

\* A total is the number of the pets that the filters keep.
LEMMA ListTotalRefines ==
  ASSUME TypeOK, CausalInv, NEW r \in Requests, ExecCount(r)
  PROVE  Abstract!ListTotal(r)
<1>1. PhaseBar[r] = "paged" /\ PagedBar[r] = {Visible(p) : p \in listed[r]}
  BY DEF ExecCount, PhaseBar, Phase, PagedBar
<1>2. UNCHANGED <<StoreBar, call, target, PagedBar>>
  BY BarsFollow DEF ExecCount, request
<1>3. Cardinality(Abstract!Selected(r)) = Cardinality(Selected(r))
  <2>1. Selected(r) \in SUBSET Rows
    BY DEF Selected
  <2>. QED BY <2>1, SelectionFollows
<1>. DEFINE n == Cardinality(Selected(r))
<1>4. Abstract!ClampInt32(n) = ClampInt32(n)
  BY SameCalls
<1>5. Abstract!AnswerOrLose(r, "OK", PagedBar[r], ClampInt32(n))
  BY <1>1, OkFollows DEF ExecCount
<1>. QED
  BY <1>1, <1>2, <1>3, <1>4, <1>5, SameCounts DEF Abstract!ListTotal

\* Giving up on a statement leaves the store alone.
LEMMA FailRefines ==
  ASSUME TypeOK, NEW r \in Requests, FailStatement(r)
  PROVE  Abstract!Fail(r)
<1>1. PhaseBar[r] \in {"asked", "paged"}
  BY DEF FailStatement, PhaseBar, Phase
<1>2. UNCHANGED <<StoreBar, call, target, PagedBar>>
  BY BarsFollow DEF FailStatement, request
<1>. DEFINE rep == Error("Internal")
<1>3. rep.code = "Internal" /\ {Visible(p) : p \in rep.pets} = {} /\ rep.total = 0
  BY DEF Error
<1>. HIDE DEF rep
<1>4. Respond(r, rep)
  BY DEF FailStatement, rep
<1>5. Abstract!Answer(r, rep.code, {Visible(p) : p \in rep.pets}, rep.total)
  BY <1>4, AnswerFollows
<1>. QED
  BY <1>1, <1>2, <1>3, <1>5 DEF Abstract!Fail

\* The answer reaches the client.
LEMMA ReturnRefines ==
  ASSUME TypeOK, NEW r \in Requests, Deliver(r)
  PROVE  Abstract!Return(r)
<1>1. PhaseBar[r] = "answered"
  BY DEF Deliver, PhaseBar, Phase
<1>2. Abstract!To(r, "returned")
  <2>1. Goto(r, "done") /\ Phase("done") = "returned"
    BY DEF Deliver, Phase
  <2>. QED BY <2>1, PhaseFollows DEF Abstract!To
<1>. QED
  BY <1>1, <1>2, BarsFollow DEF Deliver, request, Abstract!Return

\* Acquiring a connection is not seen by the clients.
LEMMA BeginIsInvisible ==
  ASSUME TypeOK, NEW r \in Requests, Begin(r)
  PROVE  UNCHANGED <<StoreBar, PhaseBar, call, target, PagedBar, AnswerBar>>
<1>1. PICK step : /\ Goto(r, step) /\ Phase(step) = Phase(pc[r])
  <2>1. CASE pc[r] = "acquire" /\ Goto(r, "running")
    BY <2>1 DEF Phase
  <2>2. CASE pc[r] = "acquireCount" /\ Goto(r, "counting")
    BY <2>2 DEF Phase
  <2>. QED BY <2>1, <2>2 DEF Begin
<1>2. UNCHANGED PhaseBar
  BY <1>1 DEF PhaseBar, Goto, TypeOK
<1>. QED
  BY <1>2, BarsFollow DEF Begin, request

\* PetService implements PetStore: every request takes effect at most once,
\* at one instant between its arrival and its answer, and is answered with
\* what that instant gives, or with an error.
THEOREM ServiceImplementsStore == Spec => ImplementsPetStore
<1>1. TypeOK /\ TypeOK' /\ Passed /\ CausalInv /\ [Next]_vars
        => [Abstract!Next]_Abstract!storeVars
  <2>. SUFFICES ASSUME TypeOK, TypeOK', Passed, CausalInv, [Next]_vars
                PROVE  \/ Abstract!Next
                       \/ UNCHANGED <<StoreBar, PhaseBar, call, target, PagedBar, AnswerBar>>
    BY DEF Abstract!storeVars
  <2>1. ASSUME NEW r \in Requests, Receive(r) PROVE Abstract!Next
    BY <2>1, ReceiveRefines DEF Abstract!Next
  <2>2. ASSUME NEW r \in Requests, Serve(r) PROVE Abstract!Next
    BY <2>2, CreateRefines, GetRefines, UpdateRefines, DeleteRefines, ListPageRefines,
       ListTotalRefines DEF Serve, Abstract!Next
  <2>3. ASSUME NEW r \in Requests, FailStatement(r) \/ Deliver(r) PROVE Abstract!Next
    BY <2>3, FailRefines, ReturnRefines DEF Abstract!Next
  <2>4. ASSUME NEW r \in Requests, Begin(r)
        PROVE  UNCHANGED <<StoreBar, PhaseBar, call, target, PagedBar, AnswerBar>>
    BY <2>4, BeginIsInvisible
  <2>5. ASSUME Tick \/ AllServed \/ UNCHANGED vars
        PROVE  UNCHANGED <<StoreBar, PhaseBar, call, target, PagedBar, AnswerBar>>
    BY <2>5, BarsFollow DEF Tick, AllServed, vars, request
  <2>. QED BY <2>1, <2>2, <2>3, <2>4, <2>5, Zenon DEF Next
<1>. QED
  BY <1>1, InitRefines, TypedAndPassed, Causality, PTL DEF Spec, ImplementsPetStore, Abstract!Spec
=============================================================================
