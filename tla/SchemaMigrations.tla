-------------------------- MODULE SchemaMigrations --------------------------
(***************************************************************************)
(* The database schema under the goose migrations of sql/schema: servers   *)
(* that migrate it at start-up (AUTO_MIGRATE, internal/db/migrate.go), the *)
(* `migrate` command that rolls it back, and the rows servers write.       *)
(*                                                                         *)
(* goose reads the applied versions once, then runs every pending          *)
(* migration in a transaction of its own together with the row that        *)
(* records it.  Migrate and MigrateDown configure no session locker, so    *)
(* nothing keeps two processes from doing this at the same time, unless    *)
(* those who deploy them see to it that they take turns.                   *)
(***************************************************************************)
EXTENDS Integers, FiniteSets

CONSTANTS
  Servers,      \* processes that run db.Migrate and then serve requests
  MaxKills,     \* bound on servers stopped from outside
  MaxDowns      \* bound on runs of `migrate down`

ASSUME ServersAssumption == Servers # {}
ASSUME BoundsAssumption == MaxKills \in Nat /\ MaxDowns \in Nat

VARIABLES
  turns,     \* whether migrating processes are made to take turns
  schema,    \* what the tables look like
  applied,   \* the versions recorded in goose_db_version
  rows,      \* what `pets` holds of value and no user has removed
  pc,        \* stopped, migrating or serving, per server
  plan,      \* the versions a server still means to apply
  down,      \* the version `migrate down` has chosen, or NoVersion
  kills, downs

vars == <<turns, schema, applied, rows, pc, plan, down, kills, downs>>

Versions == 1..4
NoVersion == 0

\* What the migrations change: two tables, a column and a constraint.
Parts == {"pets", "pet_photos", "photo_urls", "nullable birth_date"}

Contents == {"photo URLs", "unknown birth date"}

TypeOK ==
  /\ turns \in BOOLEAN
  /\ schema \subseteq Parts
  /\ applied \subseteq Versions
  /\ rows \subseteq Contents
  /\ pc \in [Servers -> {"stopped", "migrating", "serving"}]
  /\ plan \in [Servers -> SUBSET Versions]
  /\ down \in Versions \cup {NoVersion}
  /\ kills \in 0..MaxKills
  /\ downs \in 0..MaxDowns

(***************************************************************************)
(* The migrations.                                                         *)
(***************************************************************************)
\* ALTER TABLE pets fails without the table; CREATE TABLE IF NOT EXISTS does
\* not fail, and leaves a table that is there as it is.
Applicable(v, s) == v = 1 \/ "pets" \in s

Up(v, s) ==
  CASE v = 1 -> IF "pets" \in s THEN s \cup {"pet_photos"}
                ELSE {"pets", "pet_photos", "photo_urls"}
    [] v = 2 -> s \ {"photo_urls"}
    [] v = 3 -> (s \cup {"photo_urls"}) \ {"pet_photos"}
    [] v = 4 -> s \cup {"nullable birth_date"}

\* A bug for the checks to find: the Down of 003 leaves pet_photos dropped.
Down_NoPetPhotos(v, s) ==
  CASE v = 1 -> {}
    [] v = 2 -> s \cup {"photo_urls"}
    [] v = 3 -> s \ {"photo_urls"}
    [] v = 4 -> s \ {"nullable birth_date"}

Down(v, s) ==
  CASE v = 1 -> {}
    [] v = 2 -> s \cup {"photo_urls"}
    [] v = 3 -> (s \cup {"pet_photos"}) \ {"photo_urls"}
    [] v = 4 -> s \ {"nullable birth_date"}

\* What the rows lose with a column: dropping photo_urls loses the URLs, and
\* the Down of 004 replaces unknown birth dates by the current date.
Surviving(s) ==
  rows \ ((IF "photo_urls" \in s THEN {} ELSE {"photo URLs"})
          \cup (IF "nullable birth_date" \in s THEN {} ELSE {"unknown birth date"}))

Last(S) == CHOOSE v \in S : \A w \in S : w <= v
First(S) == CHOOSE v \in S : \A w \in S : v <= w

\* goose refuses to apply a version older than one already applied.
Gap(S) == \E v \in Versions \ S, w \in S : v < w

Busy == down # NoVersion \/ \E s \in Servers : pc[s] = "migrating"

Init ==
  /\ turns \in BOOLEAN
  /\ schema = {}
  /\ applied = {}
  /\ rows = {}
  /\ pc = [s \in Servers |-> "stopped"]
  /\ plan = [s \in Servers |-> {}]
  /\ down = NoVersion
  /\ kills = 0
  /\ downs = 0

(***************************************************************************)
(* Servers.                                                                *)
(***************************************************************************)
Goto(s, step) == pc' = [pc EXCEPT ![s] = step]

\* A bug for the checks to find: every migration runs at every start.
ReadPending_All(s) ==
  /\ pc[s] = "stopped"
  /\ turns => ~Busy
  /\ ~Gap(applied)
  /\ Goto(s, "migrating")
  /\ plan' = [plan EXCEPT ![s] = Versions]
  /\ UNCHANGED <<turns, schema, applied, rows, down, kills, downs>>

\* db.NewPool has succeeded and provider.Up has read goose_db_version.
ReadPending(s) ==
  /\ pc[s] = "stopped"
  /\ turns => ~Busy
  /\ ~Gap(applied)
  /\ Goto(s, "migrating")
  /\ plan' = [plan EXCEPT ![s] = Versions \ applied]
  /\ UNCHANGED <<turns, schema, applied, rows, down, kills, downs>>

\* A bug for the checks to find: the version is recorded, and committed,
\* before the statements run, which may then not happen.
ApplyNext_RecordFirst(s) ==
  /\ pc[s] = "migrating"
  /\ plan[s] # {}
  /\ LET v == First(plan[s])
     IN  /\ Applicable(v, schema)
         /\ \/ schema' = Up(v, schema) /\ rows' = Surviving(Up(v, schema))
            \/ UNCHANGED <<schema, rows>>
         /\ applied' = applied \cup {v}
         /\ plan' = [plan EXCEPT ![s] = @ \ {v}]
  /\ UNCHANGED <<turns, pc, down, kills, downs>>

\* A bug for the checks to find: a migration that ran stays planned.
ApplyNext_KeepsPlan(s) ==
  /\ pc[s] = "migrating"
  /\ plan[s] # {}
  /\ LET v == First(plan[s])
     IN  /\ Applicable(v, schema)
         /\ schema' = Up(v, schema)
         /\ rows' = Surviving(Up(v, schema))
         /\ applied' = applied \cup {v}
  /\ UNCHANGED <<turns, pc, plan, down, kills, downs>>

\* One migration and the row that records it, in one transaction.
ApplyNext(s) ==
  /\ pc[s] = "migrating"
  /\ plan[s] # {}
  /\ LET v == First(plan[s])
     IN  /\ Applicable(v, schema)
         /\ schema' = Up(v, schema)
         /\ rows' = Surviving(Up(v, schema))
         /\ applied' = applied \cup {v}
         /\ plan' = [plan EXCEPT ![s] = @ \ {v}]
  /\ UNCHANGED <<turns, pc, down, kills, downs>>

\* The transaction fails and is rolled back: os.Exit(1).  Two processes that
\* create one table at the same time can fail over its catalogue entries,
\* IF NOT EXISTS or not.  (A failure with another reason is a Kill.)
FailMigration(s) ==
  /\ pc[s] = "migrating"
  /\ plan[s] # {}
  /\ \/ ~Applicable(First(plan[s]), schema)
     \/ First(plan[s]) = 1 /\ \E q \in Servers \ {s} : pc[q] = "migrating"
  /\ Goto(s, "stopped")
  /\ plan' = [plan EXCEPT ![s] = {}]
  /\ UNCHANGED <<turns, schema, applied, rows, down, kills, downs>>

Serve(s) ==
  /\ pc[s] = "migrating"
  /\ plan[s] = {}
  /\ Goto(s, "serving")
  /\ UNCHANGED <<turns, schema, applied, rows, plan, down, kills, downs>>

\* A signal, which main only handles once it serves, a crash or a lost
\* database: nothing but committed transactions is left.
Kill(s) ==
  /\ pc[s] # "stopped"
  /\ kills < MaxKills
  /\ kills' = kills + 1
  /\ Goto(s, "stopped")
  /\ plan' = [plan EXCEPT ![s] = {}]
  /\ UNCHANGED <<turns, schema, applied, rows, down, downs>>

\* CreatePet and UpdatePet name every column: without photo_urls they fail,
\* and without a nullable birth_date they fail for a pet that has none.
WriteRow(s) ==
  /\ pc[s] = "serving"
  /\ {"pets", "photo_urls"} \subseteq schema
  /\ \E written \in SUBSET Contents :
       /\ "unknown birth date" \in written => "nullable birth_date" \in schema
       /\ rows' = rows \cup written
  /\ UNCHANGED <<turns, schema, applied, pc, plan, down, kills, downs>>

(***************************************************************************)
(* `migrate down`.                                                         *)
(***************************************************************************)
\* A bug for the checks to find: the version after the last one.
ChooseDown_OffByOne ==
  /\ down = NoVersion
  /\ turns => ~Busy
  /\ downs < MaxDowns
  /\ applied # {}
  /\ down' = Last(applied) + 1
  /\ downs' = downs + 1
  /\ UNCHANGED <<turns, schema, applied, rows, pc, plan, kills>>

ChooseDown ==
  /\ down = NoVersion
  /\ turns => ~Busy
  /\ downs < MaxDowns
  /\ applied # {}
  /\ down' = Last(applied)
  /\ downs' = downs + 1
  /\ UNCHANGED <<turns, schema, applied, rows, pc, plan, kills>>

RollBack ==
  /\ down # NoVersion
  /\ Applicable(down, schema)
  /\ schema' = Down(down, schema)
  /\ rows' = Surviving(Down(down, schema))
  /\ applied' = applied \ {down}
  /\ down' = NoVersion
  /\ UNCHANGED <<turns, pc, plan, kills, downs>>

\* The transaction fails and is rolled back.  The Down of 004 can always
\* fail so: a pet without a birth date may be inserted between its UPDATE
\* and the SET NOT NULL that checks the rows.
FailDown ==
  /\ down # NoVersion
  /\ \/ ~Applicable(down, schema)
     \/ down = 4 /\ \E s \in Servers : pc[s] = "serving"
  /\ down' = NoVersion
  /\ UNCHANGED <<turns, schema, applied, rows, pc, plan, kills, downs>>

Next ==
  \/ \E s \in Servers :
       \/ ReadPending(s) \/ ApplyNext(s) \/ FailMigration(s) \/ Serve(s)
       \/ Kill(s) \/ WriteRow(s)
  \/ ChooseDown \/ RollBack \/ FailDown

Spec == Init /\ [][Next]_vars

\* A migrating process is not suspended for ever.
FairSpec ==
  Spec /\ \A s \in Servers : WF_vars(ApplyNext(s) \/ FailMigration(s) \/ Serve(s))

(***************************************************************************)
(* Properties.                                                             *)
(***************************************************************************)
\* The schema goose builds from nothing, version by version.
SchemaAt(n) ==
  CASE n = 0 -> {}
    [] n = 1 -> Up(1, {})
    [] n = 2 -> Up(2, Up(1, {}))
    [] n = 3 -> Up(3, Up(2, Up(1, {})))
    [] n = 4 -> Up(4, Up(3, Up(2, Up(1, {}))))

InStep == \E n \in 0..4 : applied = 1..n /\ schema = SchemaAt(n)

\* As long as processes take turns, whatever is killed, fails or is rolled
\* back: the recorded versions have no gap and the schema is the one that
\* going up to the last of them builds.
SchemaMatchesVersion == turns => InStep

\* Under the same condition, once photo_urls is back for good (003), starting
\* a server does not lose the URLs: only rolling 003 back does.
PhotosSurviveUpgrades ==
  [][turns /\ 3 \in applied /\ "photo URLs" \in rows /\ "photo URLs" \notin rows' =>
       3 \notin applied']_vars

\* db.Migrate applies pending migrations only: none that is recorded already.
OnlyPendingApplied ==
  [][\A s \in Servers :
       pc[s] = "migrating" /\ plan'[s] # plan[s] /\ pc'[s] = "migrating" =>
         plan[s] \ plan'[s] \subseteq Versions \ applied]_vars

\* Once all servers that started together serve, in turns or not, they serve
\* the latest schema, although they may have run each other's migrations
\* again; none was killed and nothing rolled back meanwhile.
RacingServersConverge ==
  (\A s \in Servers : pc[s] = "serving") /\ kills = 0 /\ downs = 0 => schema = SchemaAt(4)

\* A server that has begun to migrate goes on to serve or stops.
MigrationEnds ==
  \A s \in Servers : pc[s] = "migrating" ~> pc[s] # "migrating"
=============================================================================
