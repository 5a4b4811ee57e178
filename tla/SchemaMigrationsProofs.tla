----------------------- MODULE SchemaMigrationsProofs -----------------------
(***************************************************************************)
(* That processes which take turns keep schema and recorded versions in    *)
(* step, for any number of servers, kills, failures and roll-backs, and    *)
(* that servers which do not take turns still end up on one schema.        *)
(***************************************************************************)
EXTENDS SchemaMigrations, TLAPS

\* At most one process migrates, in whichever direction.
OneAtATime ==
  /\ \A s, q \in Servers : pc[s] = "migrating" /\ pc[q] = "migrating" => s = q
  /\ down # NoVersion => \A s \in Servers : pc[s] # "migrating"

\* So what it has read of the applied versions stays true while it migrates.
PlanIsPending ==
  \A s \in Servers : pc[s] = "migrating" => plan[s] = Versions \ applied

ChosenIsLast == down # NoVersion => applied = 1..down

TurnsInv ==
  TypeOK /\ InStep /\ OneAtATime /\ PlanIsPending /\ ChosenIsLast

\* What the migrations do to a schema that fits them.
LEMMA UpCases ==
  /\ Up(1, {}) = {"pets", "pet_photos", "photo_urls"}
  /\ \A s : /\ Up(2, s) = s \ {"photo_urls"}
           /\ Up(3, s) = (s \cup {"photo_urls"}) \ {"pet_photos"}
           /\ Up(4, s) = s \cup {"nullable birth_date"}
<1>1. Up(1, {}) = {"pets", "pet_photos", "photo_urls"}
  <2>1. "pets" \notin {} OBVIOUS
  <2>2. QED BY <2>1 DEF Up
<1>2. ASSUME NEW s PROVE Up(2, s) = s \ {"photo_urls"}
  BY DEF Up
<1>3. ASSUME NEW s PROVE Up(3, s) = (s \cup {"photo_urls"}) \ {"pet_photos"}
  BY DEF Up
<1>4. ASSUME NEW s PROVE Up(4, s) = s \cup {"nullable birth_date"}
  BY DEF Up
<1>5. QED BY <1>1, <1>2, <1>3, <1>4

\* And what rolling them back does.
LEMMA DownCases ==
  \A s : /\ Down(1, s) = {}
         /\ Down(2, s) = s \cup {"photo_urls"}
         /\ Down(3, s) = (s \cup {"pet_photos"}) \ {"photo_urls"}
         /\ Down(4, s) = s \ {"nullable birth_date"}
BY DEF Down

\* The schemas the migrations of sql/schema build, one after the other.
LEMMA SchemasBuilt ==
  /\ SchemaAt(0) = {}
  /\ SchemaAt(1) = {"pets", "pet_photos", "photo_urls"}
  /\ SchemaAt(2) = {"pets", "pet_photos"}
  /\ SchemaAt(3) = {"pets", "photo_urls"}
  /\ SchemaAt(4) = {"pets", "photo_urls", "nullable birth_date"}
<1>1. /\ SchemaAt(0) = {}
      /\ SchemaAt(1) = Up(1, {})
      /\ SchemaAt(2) = Up(2, Up(1, {}))
      /\ SchemaAt(3) = Up(3, Up(2, Up(1, {})))
      /\ SchemaAt(4) = Up(4, Up(3, Up(2, Up(1, {}))))
  BY DEF SchemaAt
<1>2. SchemaAt(1) = {"pets", "pet_photos", "photo_urls"} BY <1>1, UpCases
<1>3. SchemaAt(2) = {"pets", "pet_photos"} BY <1>1, <1>2, UpCases
<1>4. SchemaAt(3) = {"pets", "photo_urls"}
  <2>1. SchemaAt(3) = Up(3, SchemaAt(2)) BY <1>1
  <2>2. Up(3, SchemaAt(2)) = (SchemaAt(2) \cup {"photo_urls"}) \ {"pet_photos"}
    BY UpCases
  <2>3. ({"pets", "pet_photos"} \cup {"photo_urls"}) \ {"pet_photos"}
          = {"pets", "photo_urls"}
    OBVIOUS
  <2>4. QED BY <2>1, <2>2, <2>3, <1>3
<1>5. SchemaAt(4) = {"pets", "photo_urls", "nullable birth_date"}
  <2>1. SchemaAt(4) = Up(4, SchemaAt(3)) BY <1>1
  <2>2. Up(4, SchemaAt(3)) = SchemaAt(3) \cup {"nullable birth_date"}
    BY UpCases
  <2>3. QED BY <2>1, <2>2, <1>4
<1>6. QED BY <1>1, <1>2, <1>3, <1>4, <1>5

\* None of them has other parts.
LEMMA SchemasFit ==
  ASSUME NEW n \in 0..4
  PROVE  SchemaAt(n) \subseteq Parts
<1>1. /\ SchemaAt(0) \subseteq Parts /\ SchemaAt(1) \subseteq Parts
      /\ SchemaAt(2) \subseteq Parts /\ SchemaAt(3) \subseteq Parts
      /\ SchemaAt(4) \subseteq Parts
  BY SchemasBuilt DEF Parts
<1>2. n = 0 \/ n = 1 \/ n = 2 \/ n = 3 \/ n = 4 OBVIOUS
<1>3. QED BY <1>1, <1>2

\* The next migration always applies and leads to the next schema.
LEMMA UpIsNext ==
  ASSUME NEW n \in 0..3
  PROVE  /\ Applicable(n + 1, SchemaAt(n))
         /\ Up(n + 1, SchemaAt(n)) = SchemaAt(n + 1)
<1>1. Up(1, SchemaAt(0)) = SchemaAt(1) BY UpCases, SchemasBuilt
<1>2. Up(2, SchemaAt(1)) = SchemaAt(2) BY UpCases, SchemasBuilt
<1>3. Up(3, SchemaAt(2)) = SchemaAt(3) BY UpCases, SchemasBuilt
<1>4. Up(4, SchemaAt(3)) = SchemaAt(4) BY UpCases, SchemasBuilt
<1>5. "pets" \in SchemaAt(1) /\ "pets" \in SchemaAt(2) /\ "pets" \in SchemaAt(3)
  BY SchemasBuilt
<1>6. n = 0 \/ n = 1 \/ n = 2 \/ n = 3 OBVIOUS
<1>7. Applicable(0 + 1, SchemaAt(0)) BY DEF Applicable
<1>8. Applicable(n + 1, SchemaAt(n)) BY <1>5, <1>6, <1>7 DEF Applicable
<1>9. QED BY <1>1, <1>2, <1>3, <1>4, <1>6, <1>8

\* Every Down section undoes its Up section.
LEMMA DownIsPrevious ==
  ASSUME NEW n \in 1..4
  PROVE  Down(n, SchemaAt(n)) = SchemaAt(n - 1)
<1>1. Down(1, SchemaAt(1)) = SchemaAt(0) BY DownCases, SchemasBuilt
<1>2. Down(2, SchemaAt(2)) = SchemaAt(1) BY DownCases, SchemasBuilt
<1>3. Down(3, SchemaAt(3)) = SchemaAt(2) BY DownCases, SchemasBuilt
<1>4. Down(4, SchemaAt(4)) = SchemaAt(3) BY DownCases, SchemasBuilt
<1>5. n = 1 \/ n = 2 \/ n = 3 \/ n = 4 OBVIOUS
<1>6. QED BY <1>1, <1>2, <1>3, <1>4, <1>5

\* The version a server applies next is the first pending one.
LEMMA FirstPending ==
  ASSUME NEW n \in 0..4, Versions \ (1..n) # {}
  PROVE  n \in 0..3 /\ First(Versions \ (1..n)) = n + 1
<1>1. n \in 0..3 BY DEF Versions
<1>2. \A v \in Versions \ (1..n) : n + 1 <= v BY <1>1 DEF Versions
<1>3. n + 1 \in Versions \ (1..n) BY <1>1 DEF Versions
<1>4. \A v \in Versions \ (1..n) :
        (\A w \in Versions \ (1..n) : v <= w) <=> v = n + 1
  BY <1>2, <1>3 DEF Versions
<1>5. QED BY <1>1, <1>3, <1>4 DEF First

\* The version that `migrate down` chooses is the last applied one.
LEMMA LastApplied ==
  ASSUME NEW n \in 0..4, 1..n # {}
  PROVE  n \in 1..4 /\ Last(1..n) = n
<1>1. n \in 1..4 OBVIOUS
<1>2. \A v \in 1..n : (\A w \in 1..n : w <= v) <=> v = n BY <1>1
<1>3. QED BY <1>1, <1>2 DEF Last

\* Nothing is migrated, recorded or chosen before the first step.
LEMMA InitTurns == Init => TurnsInv
<1> SUFFICES ASSUME Init PROVE TurnsInv OBVIOUS
<1>1. TypeOK
  BY BoundsAssumption DEF Init, TypeOK, Parts, Versions, NoVersion
<1>2. InStep
  <2>1. 1..0 = {} OBVIOUS
  <2>2. applied = 1..0 /\ schema = SchemaAt(0) BY <2>1, SchemasBuilt DEF Init
  <2>3. QED BY <2>2 DEF InStep
<1>3. OneAtATime /\ PlanIsPending /\ ChosenIsLast
  BY DEF Init, OneAtATime, PlanIsPending, ChosenIsLast
<1>4. QED BY <1>1, <1>2, <1>3 DEF TurnsInv

\* Every step of processes that take turns keeps them in step.
LEMMA StepTurns ==
  ASSUME turns, TurnsInv, [Next]_vars
  PROVE  TurnsInv'
<1> USE BoundsAssumption DEF Versions, NoVersion
<1>1. PICK n \in 0..4 : applied = 1..n /\ schema = SchemaAt(n)
  BY DEF TurnsInv, InStep
<1>2. ASSUME NEW s \in Servers, ReadPending(s) PROVE TurnsInv'
  <2>1. TypeOK'
    BY <1>2 DEF TurnsInv, TypeOK, ReadPending, Goto
  <2>2. InStep'
    BY <1>1, <1>2 DEF ReadPending, InStep
  <2>3. ~Busy BY <1>2 DEF ReadPending
  <2>4. OneAtATime' /\ ChosenIsLast'
    BY <1>2, <2>3 DEF TurnsInv, TypeOK, OneAtATime, ChosenIsLast, ReadPending, Goto, Busy
  <2>5. PlanIsPending'
    BY <1>2, <2>3 DEF TurnsInv, TypeOK, PlanIsPending, ReadPending, Goto, Busy
  <2>6. QED BY <2>1, <2>2, <2>4, <2>5 DEF TurnsInv
<1>3. ASSUME NEW s \in Servers, ApplyNext(s) PROVE TurnsInv'
  <2>1. plan[s] = Versions \ (1..n)
    BY <1>1, <1>3 DEF TurnsInv, PlanIsPending, ApplyNext
  <2>2. n \in 0..3 /\ First(plan[s]) = n + 1
    BY <1>3, <2>1, FirstPending DEF ApplyNext
  <2>3. /\ applied' = applied \cup {n + 1}
        /\ schema' = SchemaAt(n + 1)
        /\ plan' = [plan EXCEPT ![s] = @ \ {n + 1}]
        /\ UNCHANGED <<turns, pc, down, kills, downs>>
    BY <1>1, <1>3, <2>2, UpIsNext DEF ApplyNext
  <2>4. applied' = 1..(n + 1) BY <1>1, <2>2, <2>3
  <2>5. n + 1 \in 0..4 /\ n + 1 \in 1..4 BY <2>2
  <2>6. InStep' BY <2>3, <2>4, <2>5 DEF InStep
  <2>7. TypeOK'
    <3>1. rows' \subseteq Contents
      BY <1>3 DEF TurnsInv, TypeOK, ApplyNext, Surviving
    <3>2. schema' \subseteq Parts
      BY <2>3, <2>5, SchemasFit
    <3>3. QED BY <2>3, <2>5, <3>1, <3>2 DEF TurnsInv, TypeOK
  <2>8. OneAtATime' BY <2>3 DEF TurnsInv, OneAtATime
  <2>9. ChosenIsLast' BY <1>3, <2>3 DEF TurnsInv, OneAtATime, ChosenIsLast, ApplyNext
  <2>10. PlanIsPending'
    <3> SUFFICES ASSUME NEW q \in Servers, pc'[q] = "migrating"
                 PROVE  plan'[q] = Versions \ applied'
      BY DEF PlanIsPending
    <3>1. q = s BY <1>3, <2>3 DEF TurnsInv, OneAtATime, ApplyNext
    <3>2. plan'[s] = plan[s] \ {n + 1} BY <2>3 DEF TurnsInv, TypeOK
    <3>3. QED BY <3>1, <3>2, <1>1, <2>1, <2>3
  <2>11. QED BY <2>6, <2>7, <2>8, <2>9, <2>10 DEF TurnsInv
<1>4. ASSUME NEW s \in Servers, FailMigration(s) \/ Kill(s) PROVE TurnsInv'
  <2>1. TypeOK'
    <3>1. CASE FailMigration(s)
      BY <3>1 DEF TurnsInv, TypeOK, FailMigration, Goto
    <3>2. CASE Kill(s)
      <4>1. kills' \in 0..MaxKills BY <3>2 DEF TurnsInv, TypeOK, Kill
      <4>2. QED BY <3>2, <4>1 DEF TurnsInv, TypeOK, Kill, Goto
    <3>3. QED BY <1>4, <3>1, <3>2
  <2>2. InStep'
    BY <1>1, <1>4 DEF FailMigration, Kill, InStep
  <2>3. OneAtATime' /\ ChosenIsLast'
    BY <1>4 DEF TurnsInv, TypeOK, OneAtATime, ChosenIsLast, FailMigration, Kill, Goto
  <2>4. PlanIsPending'
    BY <1>4 DEF TurnsInv, TypeOK, PlanIsPending, FailMigration, Kill, Goto
  <2>5. QED BY <2>1, <2>2, <2>3, <2>4 DEF TurnsInv
<1>5. ASSUME NEW s \in Servers, Serve(s) PROVE TurnsInv'
  <2>1. TypeOK' BY <1>5 DEF TurnsInv, TypeOK, Serve, Goto
  <2>2. InStep' BY <1>1, <1>5 DEF Serve, InStep
  <2>3. OneAtATime' /\ ChosenIsLast'
    BY <1>5 DEF TurnsInv, TypeOK, OneAtATime, ChosenIsLast, Serve, Goto
  <2>4. PlanIsPending' BY <1>5 DEF TurnsInv, TypeOK, PlanIsPending, Serve, Goto
  <2>5. QED BY <2>1, <2>2, <2>3, <2>4 DEF TurnsInv
<1>6. ASSUME NEW s \in Servers, WriteRow(s) PROVE TurnsInv'
  <2>1. TypeOK' BY <1>6 DEF TurnsInv, TypeOK, WriteRow
  <2>2. InStep' BY <1>1, <1>6 DEF WriteRow, InStep
  <2>3. OneAtATime' /\ ChosenIsLast' /\ PlanIsPending'
    BY <1>6 DEF TurnsInv, OneAtATime, ChosenIsLast, PlanIsPending, WriteRow
  <2>4. QED BY <2>1, <2>2, <2>3 DEF TurnsInv
<1>7. ASSUME ChooseDown PROVE TurnsInv'
  <2>1. n \in 1..4 /\ down' = n
    BY <1>1, <1>7, LastApplied DEF ChooseDown
  <2>2. TypeOK' BY <1>7, <2>1 DEF TurnsInv, TypeOK, ChooseDown
  <2>3. InStep' BY <1>1, <1>7 DEF ChooseDown, InStep
  <2>4. ~Busy BY <1>7 DEF ChooseDown
  <2>5. OneAtATime' /\ PlanIsPending'
    BY <1>7, <2>4 DEF TurnsInv, OneAtATime, PlanIsPending, ChooseDown, Busy
  <2>6. ChosenIsLast' BY <1>1, <1>7, <2>1 DEF ChooseDown, ChosenIsLast
  <2>7. QED BY <2>2, <2>3, <2>5, <2>6 DEF TurnsInv
<1>8. ASSUME RollBack PROVE TurnsInv'
  <2>1. down \in 1..4 /\ 1..n = 1..down
    BY <1>1, <1>8 DEF TurnsInv, TypeOK, ChosenIsLast, RollBack
  <2>2. n = down
    <3>1. down \in 1..n /\ n + 1 \notin 1..n BY <2>1
    <3>2. n < down => n + 1 \in 1..down BY <2>1
    <3>3. QED BY <2>1, <3>1, <3>2
  <2>3. /\ schema' = SchemaAt(n - 1) /\ applied' = 1..(n - 1)
        /\ n - 1 \in 0..4
    BY <1>1, <1>8, <2>1, <2>2, DownIsPrevious DEF RollBack
  <2>4. InStep' BY <2>3 DEF InStep
  <2>5. TypeOK'
    <3>1. rows' \subseteq Contents
      BY <1>8 DEF TurnsInv, TypeOK, RollBack, Surviving
    <3>2. schema' \subseteq Parts BY <2>3, SchemasFit
    <3>3. QED BY <1>8, <3>1, <3>2 DEF TurnsInv, TypeOK, RollBack
  <2>6. OneAtATime' /\ PlanIsPending' /\ ChosenIsLast'
    BY <1>8 DEF TurnsInv, OneAtATime, PlanIsPending, ChosenIsLast, RollBack
  <2>7. QED BY <2>4, <2>5, <2>6 DEF TurnsInv
<1>9. ASSUME FailDown PROVE TurnsInv'
  <2>1. TypeOK' BY <1>9 DEF TurnsInv, TypeOK, FailDown
  <2>2. InStep' BY <1>1, <1>9 DEF FailDown, InStep
  <2>3. OneAtATime' /\ PlanIsPending' /\ ChosenIsLast'
    BY <1>9 DEF TurnsInv, OneAtATime, PlanIsPending, ChosenIsLast, FailDown
  <2>4. QED BY <2>1, <2>2, <2>3 DEF TurnsInv
<1>10. CASE UNCHANGED vars
  <2>1. TypeOK' BY <1>10 DEF TurnsInv, TypeOK, vars
  <2>2. InStep' BY <1>1, <1>10 DEF vars, InStep
  <2>3. OneAtATime' /\ PlanIsPending' /\ ChosenIsLast'
    BY <1>10 DEF TurnsInv, OneAtATime, PlanIsPending, ChosenIsLast, vars
  <2>4. QED BY <2>1, <2>2, <2>3 DEF TurnsInv
<1>11. QED
  BY <1>2, <1>3, <1>4, <1>5, <1>6, <1>7, <1>8, <1>9, <1>10 DEF Next

\* Nobody changes the way processes are deployed on the way.
LEMMA TurnsStay == [Next]_vars => turns' = turns
BY DEF Next, ReadPending, ApplyNext, FailMigration, Serve, Kill, WriteRow,
       ChooseDown, RollBack, FailDown, vars

\* The inductive invariant of any deployment.
InTurns == turns => TurnsInv

\* It holds at first and every step keeps it.
LEMMA InTurnsAlways == Spec => []InTurns
<1>1. Init => InTurns BY InitTurns DEF InTurns
<1>2. InTurns /\ [Next]_vars => InTurns' BY StepTurns, TurnsStay DEF InTurns
<1>3. QED BY <1>1, <1>2, PTL DEF Spec

\* However servers are started, killed and rolled back, one migrating process
\* at a time, the schema is the one the recorded versions build.
THEOREM TurnsKeepSchema == Spec => []SchemaMatchesVersion
<1>1. InTurns => SchemaMatchesVersion BY DEF InTurns, TurnsInv, SchemaMatchesVersion
<1>2. QED BY <1>1, InTurnsAlways, PTL

\* A step that loses photo URLs leaves a schema without their column.
LEMMA LossNeedsDrop ==
  ASSUME [Next]_vars, "photo URLs" \in rows, "photo URLs" \notin rows'
  PROVE  "photo_urls" \notin schema'
<1>1. ASSUME NEW s \in Servers, ApplyNext(s) PROVE "photo_urls" \notin schema'
  BY <1>1 DEF ApplyNext, Surviving
<1>2. CASE RollBack BY <1>2 DEF RollBack, Surviving
<1>3. ASSUME NEW s \in Servers, WriteRow(s) PROVE FALSE
  BY <1>3 DEF WriteRow
<1>4. ASSUME NEW s \in Servers,
             ReadPending(s) \/ FailMigration(s) \/ Serve(s) \/ Kill(s)
      PROVE  FALSE
  BY <1>4 DEF ReadPending, FailMigration, Serve, Kill
<1>5. CASE ChooseDown \/ FailDown \/ UNCHANGED vars
  BY <1>5 DEF ChooseDown, FailDown, vars
<1>6. QED BY <1>1, <1>2, <1>3, <1>4, <1>5 DEF Next

\* Photo URLs outlive every start of every server once 003 has run: a schema
\* without their column is one that 003 is not recorded for.
THEOREM TurnsKeepPhotos == Spec => PhotosSurviveUpgrades
<1>1. ASSUME turns, TurnsInv, [Next]_vars, "photo URLs" \in rows,
             "photo URLs" \notin rows'
      PROVE  3 \notin applied'
  <2>1. TurnsInv' BY <1>1, StepTurns
  <2>2. PICK n \in 0..4 : applied' = 1..n /\ schema' = SchemaAt(n)
    BY <2>1 DEF TurnsInv, InStep
  <2>3. "photo_urls" \notin SchemaAt(n) BY <1>1, <2>2, LossNeedsDrop
  <2>4. n # 3 /\ n # 4 BY <2>3, SchemasBuilt
  <2>5. QED BY <2>2, <2>4
<1>2. InTurns /\ [Next]_vars =>
        [turns /\ 3 \in applied /\ "photo URLs" \in rows /\ "photo URLs" \notin rows' =>
           3 \notin applied']_vars
  BY <1>1 DEF InTurns
<1>3. QED BY <1>2, InTurnsAlways, PTL DEF Spec, PhotosSurviveUpgrades

(***************************************************************************)
(* Without turns.                                                          *)
(***************************************************************************)
\* The first of some versions, and the last of them, is one of them.
LEMMA FirstAndLast ==
  ASSUME NEW S \in SUBSET Versions, S # {}
  PROVE  /\ First(S) \in S /\ \A w \in S : First(S) <= w
         /\ Last(S) \in S /\ \A w \in S : w <= Last(S)
<1>1. \E v \in S : \A w \in S : v <= w
  <2>1. CASE 1 \in S BY <2>1 DEF Versions
  <2>2. CASE 1 \notin S /\ 2 \in S BY <2>2 DEF Versions
  <2>3. CASE 1 \notin S /\ 2 \notin S /\ 3 \in S BY <2>3 DEF Versions
  <2>4. CASE 1 \notin S /\ 2 \notin S /\ 3 \notin S
    <3>1. \A w \in S : w = 4
      BY <2>4 DEF Versions
    <3>. QED BY <3>1
  <2>. QED BY <2>1, <2>2, <2>3, <2>4
<1>2. \E v \in S : \A w \in S : w <= v
  <2>1. CASE 4 \in S BY <2>1 DEF Versions
  <2>2. CASE 4 \notin S /\ 3 \in S BY <2>2 DEF Versions
  <2>3. CASE 4 \notin S /\ 3 \notin S /\ 2 \in S BY <2>3 DEF Versions
  <2>4. CASE 4 \notin S /\ 3 \notin S /\ 2 \notin S
    <3>1. \A w \in S : w = 1
      BY <2>4 DEF Versions
    <3>. QED BY <3>1
  <2>. QED BY <2>1, <2>2, <2>3, <2>4
<1>. QED
  BY <1>1, <1>2 DEF First, Last

\* Migrating a schema in either direction gives a schema.
LEMMA PartsOnly ==
  ASSUME NEW v \in Versions, NEW s \in SUBSET Parts
  PROVE  Up(v, s) \subseteq Parts /\ Down(v, s) \subseteq Parts
<1>1. v = 1 \/ v = 2 \/ v = 3 \/ v = 4
  BY DEF Versions
<1>2. /\ Up(1, s) \subseteq Parts /\ Up(2, s) \subseteq Parts
      /\ Up(3, s) \subseteq Parts /\ Up(4, s) \subseteq Parts
  BY DEF Up, Parts
<1>3. /\ Down(1, s) \subseteq Parts /\ Down(2, s) \subseteq Parts
      /\ Down(3, s) \subseteq Parts /\ Down(4, s) \subseteq Parts
  BY DEF Down, Parts
<1>. QED
  BY <1>1, <1>2, <1>3

\* Types hold in turns or not.
THEOREM TypeCorrect == Spec => []TypeOK
<1>1. Init => TypeOK
  BY BoundsAssumption DEF Init, TypeOK, Parts, Versions, NoVersion
<1>2. TypeOK /\ [Next]_vars => TypeOK'
  <2>. SUFFICES ASSUME TypeOK, [Next]_vars PROVE TypeOK'
    OBVIOUS
  <2>0. \A s : Surviving(s) \subseteq rows
    BY DEF Surviving
  <2>1. ASSUME NEW s \in Servers, ReadPending(s) PROVE TypeOK'
    BY <2>1 DEF TypeOK, ReadPending, Goto
  <2>2. ASSUME NEW s \in Servers, ApplyNext(s) PROVE TypeOK'
    <3>1. First(plan[s]) \in Versions
      BY <2>2, FirstAndLast DEF TypeOK, ApplyNext
    <3>2. /\ schema' = Up(First(plan[s]), schema)
          /\ rows' = Surviving(Up(First(plan[s]), schema))
          /\ applied' = applied \cup {First(plan[s])}
          /\ plan' = [plan EXCEPT ![s] = @ \ {First(plan[s])}]
          /\ UNCHANGED <<turns, pc, down, kills, downs>>
      BY <2>2 DEF ApplyNext
    <3>3. schema' \subseteq Parts
      BY <3>1, <3>2, PartsOnly DEF TypeOK
    <3>. QED BY <2>0, <3>1, <3>2, <3>3 DEF TypeOK
  <2>3. ASSUME NEW s \in Servers, FailMigration(s) PROVE TypeOK'
    BY <2>3 DEF TypeOK, FailMigration, Goto
  <2>4. ASSUME NEW s \in Servers, Serve(s) PROVE TypeOK'
    BY <2>4 DEF TypeOK, Serve, Goto
  <2>5. ASSUME NEW s \in Servers, Kill(s) PROVE TypeOK'
    <3>1. kills' \in 0..MaxKills
      BY <2>5, BoundsAssumption DEF TypeOK, Kill
    <3>. QED BY <2>5, <3>1 DEF TypeOK, Kill, Goto
  <2>6. ASSUME NEW s \in Servers, WriteRow(s) PROVE TypeOK'
    BY <2>6 DEF TypeOK, WriteRow
  <2>7. ASSUME ChooseDown PROVE TypeOK'
    <3>1. down' \in Versions
      BY <2>7, FirstAndLast DEF TypeOK, ChooseDown
    <3>2. downs' \in 0..MaxDowns
      BY <2>7, BoundsAssumption DEF TypeOK, ChooseDown
    <3>. QED BY <2>7, <3>1, <3>2 DEF TypeOK, ChooseDown
  <2>8. ASSUME RollBack PROVE TypeOK'
    <3>1. schema' \subseteq Parts
      BY <2>8, PartsOnly DEF TypeOK, RollBack
    <3>. QED BY <2>0, <2>8, <3>1 DEF TypeOK, RollBack
  <2>9. ASSUME FailDown PROVE TypeOK'
    BY <2>9 DEF TypeOK, FailDown
  <2>10. CASE UNCHANGED vars
    BY <2>10 DEF TypeOK, vars
  <2>. QED
    BY <2>1, <2>2, <2>3, <2>4, <2>5, <2>6, <2>7, <2>8, <2>9, <2>10 DEF Next
<1>. QED
  BY <1>1, <1>2, PTL DEF Spec

\* A server that migrates plans the end of the list, and all before that is
\* recorded; one that serves has found or recorded everything.
PlansReachTheEnd ==
  \A s \in Servers :
    /\ pc[s] = "migrating" => /\ applied \cup plan[s] = Versions
                              /\ \A v \in plan[s], w \in Versions : v < w => w \in plan[s]
    /\ pc[s] = "serving" => applied = Versions

\* A server on its way from 001 to 003.
Mends(s) == pc[s] = "migrating" /\ 3 \in plan[s] /\ 1 \notin plan[s]

\* What a migration adds stays; what running 001 or 002 once more damages is
\* mended by the server that runs it, and that one cannot fail before 003.
DamageIsMended ==
  /\ applied # {} => "pets" \in schema
  /\ 4 \in applied => "nullable birth_date" \in schema
  /\ 3 \in applied =>
       \/ "photo_urls" \in schema /\ "pet_photos" \notin schema
       \/ \E s \in Servers : Mends(s)

Undisturbed == kills = 0 /\ downs = 0

RaceInv ==
  Undisturbed => down = NoVersion /\ PlansReachTheEnd /\ DamageIsMended

\* As long as nothing is killed or rolled back, every step keeps it so.
LEMMA StepRace ==
  ASSUME TypeOK, RaceInv, [Next]_vars, Undisturbed'
  PROVE  down' = NoVersion /\ PlansReachTheEnd' /\ DamageIsMended'
<1>. DEFINE Inv == down = NoVersion /\ PlansReachTheEnd /\ DamageIsMended
<1>1. Undisturbed
  <2>1. kills \in Nat /\ downs \in Nat
    BY BoundsAssumption DEF TypeOK
  <2>2. kills' \in {kills, kills + 1} /\ downs' \in {downs, downs + 1}
    <3>1. ASSUME NEW s \in Servers,
                 ReadPending(s) \/ ApplyNext(s) \/ FailMigration(s) \/ Serve(s) \/ WriteRow(s)
          PROVE  kills' = kills /\ downs' = downs
      BY <3>1, Zenon DEF ReadPending, ApplyNext, FailMigration, Serve, WriteRow
    <3>2. ASSUME NEW s \in Servers, Kill(s)
          PROVE  kills' = kills + 1 /\ downs' = downs
      BY <3>2 DEF Kill
    <3>3. ChooseDown => kills' = kills /\ downs' = downs + 1
      BY DEF ChooseDown
    <3>4. RollBack \/ FailDown \/ UNCHANGED vars => kills' = kills /\ downs' = downs
      BY DEF RollBack, FailDown, vars
    <3>. QED BY <3>1, <3>2, <3>3, <3>4, Zenon DEF Next
  <2>. QED BY <2>1, <2>2 DEF Undisturbed
<1>2. down = NoVersion /\ PlansReachTheEnd /\ DamageIsMended
  BY <1>1 DEF RaceInv
<1>3. ASSUME NEW s \in Servers, ReadPending(s) PROVE Inv'
  <2>1. /\ pc[s] = "stopped" /\ pc' = [pc EXCEPT ![s] = "migrating"]
        /\ plan' = [plan EXCEPT ![s] = Versions \ applied]
        /\ ~Gap(applied) /\ UNCHANGED <<schema, applied, down>>
    BY <1>3 DEF ReadPending, Goto
  <2>2. \A v \in Versions \ applied, w \in Versions : v < w => w \in Versions \ applied
    BY <2>1 DEF Gap
  <2>3. applied \cup (Versions \ applied) = Versions
    BY DEF TypeOK
  <2>4. PlansReachTheEnd'
    BY <1>2, <2>1, <2>2, <2>3 DEF PlansReachTheEnd, TypeOK
  <2>5. \A q \in Servers : Mends(q) => Mends(q)'
    BY <2>1 DEF Mends, TypeOK
  <2>6. DamageIsMended'
    BY <1>2, <2>1, <2>5 DEF DamageIsMended
  <2>. QED BY <1>2, <2>1, <2>4, <2>6
<1>4. ASSUME NEW s \in Servers, ApplyNext(s) PROVE Inv'
  <2>. DEFINE v == First(plan[s])
  <2>1. /\ pc[s] = "migrating" /\ plan[s] # {} /\ Applicable(v, schema)
        /\ schema' = Up(v, schema) /\ applied' = applied \cup {v}
        /\ plan' = [plan EXCEPT ![s] = @ \ {v}]
        /\ UNCHANGED <<pc, down>>
    BY <1>4 DEF ApplyNext
  <2>2. v \in plan[s] /\ v \in Versions /\ \A w \in plan[s] : v <= w
    BY <2>1, FirstAndLast DEF TypeOK
  <2>. HIDE DEF v
  <2>3. PlansReachTheEnd'
    <3>1. plan'[s] = plan[s] \ {v} /\ \A q \in Servers \ {s} : plan'[q] = plan[q]
      BY <2>1 DEF TypeOK
    <3>2. plan[s] \subseteq Versions /\ applied \subseteq Versions
      BY DEF TypeOK
    <3>3. /\ applied' \cup plan'[s] = Versions
          /\ \A x \in plan'[s], w \in Versions : x < w => w \in plan'[s]
      <4>1. \A x \in plan[s], w \in Versions : x < w => w \in plan[s]
        BY <1>2, <2>1 DEF PlansReachTheEnd
      <4>2. \A x \in plan'[s] : x \in Int /\ v \in Int /\ v <= x
        BY <2>2, <3>1, <3>2 DEF Versions
      <4>3. \A x \in plan'[s], w \in Versions : x < w => w # v
        BY <4>2 DEF Versions
      <4>4. applied \cup plan[s] = Versions
        BY <1>2, <2>1 DEF PlansReachTheEnd
      <4>. QED BY <2>1, <2>2, <3>1, <4>1, <4>3, <4>4
    <3>4. \A q \in Servers \ {s} :
            /\ pc[q] = "migrating" => applied' \cup plan'[q] = Versions
            /\ pc[q] = "serving" => applied' = Versions
      BY <1>2, <2>1, <2>2, <3>1 DEF PlansReachTheEnd
    <3>. QED BY <1>2, <2>1, <3>1, <3>3, <3>4 DEF PlansReachTheEnd
  <2>4. v = 1 \/ v = 2 \/ v = 3 \/ v = 4
    BY <2>2 DEF Versions
  <2>5. \A q \in Servers \ {s} : Mends(q) => Mends(q)'
    BY <2>1 DEF Mends, TypeOK
  <2>6. plan'[s] = plan[s] \ {v}
    BY <2>1 DEF TypeOK
  <2>7. /\ 4 \in applied => "nullable birth_date" \in schema
        /\ applied # {} => "pets" \in schema
        /\ 3 \in applied => \/ "photo_urls" \in schema /\ "pet_photos" \notin schema
                            \/ \E q \in Servers : Mends(q)
    BY <1>2, Zenon DEF DamageIsMended
  <2>8. v # 1 => "pets" \in schema
    BY <2>1 DEF Applicable
  <2>9. ASSUME v = 1 \/ v = 2 PROVE Mends(s)'
    <3>1. 3 \in plan[s]
      BY <1>2, <2>1, <2>2, <2>9 DEF PlansReachTheEnd, Versions
    <3>2. 1 \in plan[s] => v = 1
      BY <2>2, <2>9
    <3>3. 3 \in plan'[s] /\ 1 \notin plan'[s]
      BY <2>6, <2>9, <3>1, <3>2
    <3>. QED BY <2>1, <3>3 DEF Mends
  <2>10. CASE v = 1
    <3>1. applied' = applied \cup {1} /\ schema' = Up(1, schema)
      BY <2>1, <2>10
    <3>2. "pets" \in schema' /\ ("pets" \in schema => schema \subseteq schema')
      BY <3>1 DEF Up
    <3>3. 4 \in applied' => 4 \in applied
      BY <3>1
    <3>4. 4 \in applied' => "nullable birth_date" \in schema'
      BY <2>7, <3>2, <3>3
    <3>5. DamageIsMended'
      BY <2>9, <2>10, <3>2, <3>4 DEF DamageIsMended
    <3>. QED BY <1>2, <2>1, <2>3, <3>5
  <2>11. CASE v = 2
    <3>1. applied' = applied \cup {2} /\ schema' = Up(2, schema)
      BY <2>1, <2>11
    <3>2. \A part \in schema : part # "photo_urls" => part \in schema'
      BY <3>1, UpCases
    <3>3. "pets" \in schema'
      BY <2>8, <2>11, <3>2
    <3>4. 4 \in applied' => 4 \in applied
      BY <3>1
    <3>5. 4 \in applied' => "nullable birth_date" \in schema'
      BY <2>7, <3>2, <3>4
    <3>6. DamageIsMended'
      BY <2>9, <2>11, <3>3, <3>5 DEF DamageIsMended
    <3>. QED BY <1>2, <2>1, <2>3, <3>6
  <2>12. CASE v = 3
    <3>1. applied' = applied \cup {3} /\ schema' = Up(3, schema)
      BY <2>1, <2>12
    <3>2. /\ \A part \in schema : part # "pet_photos" => part \in schema'
          /\ "photo_urls" \in schema' /\ "pet_photos" \notin schema'
      BY <3>1, UpCases
    <3>3. "pets" \in schema'
      BY <2>8, <2>12, <3>2
    <3>4. 4 \in applied' => 4 \in applied
      BY <3>1
    <3>5. 4 \in applied' => "nullable birth_date" \in schema'
      BY <2>7, <3>2, <3>4
    <3>6. DamageIsMended'
      BY <3>2, <3>3, <3>5 DEF DamageIsMended
    <3>. QED BY <1>2, <2>1, <2>3, <3>6
  <2>13. CASE v = 4
    <3>1. applied' = applied \cup {4} /\ schema' = Up(4, schema)
      BY <2>1, <2>13
    <3>2. schema' = schema \cup {"nullable birth_date"}
      BY <3>1, UpCases
    <3>3. "pets" \in schema' /\ "nullable birth_date" \in schema'
      <4>1. "pets" \in schema
        BY <2>8, <2>13
      <4>2. schema \subseteq schema' /\ "nullable birth_date" \in schema'
        BY <3>2
      <4>. QED BY <4>1, <4>2
    <3>4. \A q \in Servers : Mends(q) => q # s
      BY <2>2, <2>13 DEF Mends
    <3>5. 3 \in applied' => 3 \in applied
      BY <3>1
    <3>6. "photo_urls" \in schema /\ "pet_photos" \notin schema
            => "photo_urls" \in schema' /\ "pet_photos" \notin schema'
      BY <3>2
    <3>7. (\E q \in Servers : Mends(q)) => \E q \in Servers : Mends(q)'
      BY <2>5, <3>4
    <3>8. DamageIsMended'
      BY <2>7, <3>3, <3>5, <3>6, <3>7 DEF DamageIsMended
    <3>. QED BY <1>2, <2>1, <2>3, <3>8
  <2>. QED BY <2>4, <2>10, <2>11, <2>12, <2>13
<1>5. ASSUME NEW s \in Servers, FailMigration(s) PROVE Inv'
  <2>1. /\ pc[s] = "migrating" /\ pc' = [pc EXCEPT ![s] = "stopped"]
        /\ plan' = [plan EXCEPT ![s] = {}]
        /\ UNCHANGED <<schema, applied, down>>
        /\ plan[s] # {}
        /\ ~Applicable(First(plan[s]), schema) \/ First(plan[s]) = 1
    BY <1>5 DEF FailMigration, Goto
  <2>2. First(plan[s]) = 1
    <3>1. First(plan[s]) \in plan[s] /\ \A w \in plan[s] : First(plan[s]) <= w
      BY <2>1, FirstAndLast DEF TypeOK
    <3>2. CASE 1 \in plan[s]
      BY <3>1, <3>2 DEF TypeOK, Versions
    <3>3. CASE 1 \notin plan[s]
      <4>1. 1 \in applied
        BY <1>2, <2>1, <3>3 DEF PlansReachTheEnd, Versions
      <4>. QED BY <1>2, <2>1, <4>1 DEF DamageIsMended, Applicable
    <3>. QED BY <3>2, <3>3
  <2>3. ~Mends(s)
    BY <2>1, <2>2, FirstAndLast DEF Mends, TypeOK
  <2>4. \A q \in Servers : Mends(q) => Mends(q)'
    BY <2>1, <2>3 DEF Mends, TypeOK
  <2>5. PlansReachTheEnd'
    BY <1>2, <2>1 DEF PlansReachTheEnd, TypeOK
  <2>. QED BY <1>2, <2>1, <2>4, <2>5 DEF DamageIsMended
<1>6. ASSUME NEW s \in Servers, Serve(s) PROVE Inv'
  <2>1. /\ pc[s] = "migrating" /\ plan[s] = {} /\ pc' = [pc EXCEPT ![s] = "serving"]
        /\ UNCHANGED <<schema, applied, down, plan>>
    BY <1>6 DEF Serve, Goto
  <2>2. \A q \in Servers : Mends(q) => Mends(q)'
    BY <2>1 DEF Mends, TypeOK
  <2>3. PlansReachTheEnd'
    BY <1>2, <2>1 DEF PlansReachTheEnd, TypeOK
  <2>. QED BY <1>2, <2>1, <2>2, <2>3 DEF DamageIsMended
<1>7. ASSUME NEW s \in Servers, Kill(s) PROVE FALSE
  <2>1. kills' = kills + 1
    BY <1>7 DEF Kill
  <2>. QED BY <1>1, <2>1 DEF Undisturbed
<1>8. ASSUME ChooseDown PROVE FALSE
  <2>1. downs' = downs + 1
    BY <1>8 DEF ChooseDown
  <2>. QED BY <1>1, <2>1 DEF Undisturbed
<1>9. ASSUME RollBack \/ FailDown PROVE FALSE
  BY <1>2, <1>9 DEF RollBack, FailDown
<1>10. ASSUME UNCHANGED <<schema, applied, down, plan, pc>> PROVE Inv'
  BY <1>2, <1>10 DEF PlansReachTheEnd, DamageIsMended, Mends
<1>11. ASSUME NEW s \in Servers, WriteRow(s) PROVE Inv'
  BY <1>10, <1>11 DEF WriteRow
<1>12. CASE UNCHANGED vars
  BY <1>10, <1>12 DEF vars
<1>. QED
  BY <1>3, <1>4, <1>5, <1>6, <1>7, <1>8, <1>9, <1>11, <1>12, Zenon DEF Next

\* Servers that start together on one database, in turns or all at once, end
\* up with the schema that the four migrations build.
THEOREM RacesConverge == Spec => []RacingServersConverge
<1>1. Init => RaceInv
  BY DEF Init, RaceInv, PlansReachTheEnd, DamageIsMended
<1>2. TypeOK /\ RaceInv /\ [Next]_vars => RaceInv'
  BY StepRace DEF RaceInv
<1>3. TypeOK /\ RaceInv => RacingServersConverge
  <2>. SUFFICES ASSUME TypeOK, RaceInv, Undisturbed, \A s \in Servers : pc[s] = "serving"
                PROVE  schema = SchemaAt(4)
    BY DEF RacingServersConverge, Undisturbed
  <2>1. PlansReachTheEnd /\ DamageIsMended
    BY DEF RaceInv
  <2>2. 1 \in applied /\ 3 \in applied /\ 4 \in applied
    BY <2>1, ServersAssumption DEF PlansReachTheEnd, Versions
  <2>3. \A s \in Servers : ~Mends(s)
    BY DEF Mends
  <2>4. /\ "pets" \in schema /\ "photo_urls" \in schema
        /\ "nullable birth_date" \in schema /\ "pet_photos" \notin schema
    BY <2>1, <2>2, <2>3 DEF DamageIsMended
  <2>5. schema = {"pets", "photo_urls", "nullable birth_date"}
    BY <2>4 DEF TypeOK, Parts
  <2>. QED BY <2>5, SchemasBuilt
<1>. QED
  BY <1>1, <1>2, <1>3, TypeCorrect, PTL DEF Spec
=============================================================================
