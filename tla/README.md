# A specification of petstore-reference

TLA+ models of this repository: the RPC handlers over Postgres, the schema
migrations, the life of the server process, who it lets in, and the web client
with its pages, forms and query cache.  TLC checks them on small instances; TLAPS
proves all their safety properties for every value of the constants.

    tlc -config pages.cfg MCPetPages      # any .cfg, with the module of the table in section 3
    tlapm PetServiceProofs.tla           # any module named ...Proofs

## 1. The system

| Part | Source | State it keeps | Operations | Talks to | Module |
|---|---|---|---|---|---|
| RPC handlers | `internal/pet/handler.go` | none of their own | Create/Get/List/Update/DeletePet | queries, claims in the request's context | `PetService` |
| Queries, table | `internal/db/pets.sql.go`, `sql/` | table `pets` | one SQL statement each, no transactions | pool | `PetService`, `ListWalk` |
| Pool | `internal/db/pool.go` | connections | acquire, release, close | Postgres | `PetService`, `ServerLifecycle` |
| Request rules | `proto/pet/v1/pet.proto` | none | protovalidate interceptor | before authentication | `RequestRules` |
| Authentication | `internal/auth/auth.go` | none | interceptor, dev middleware | headers, configuration | `Authentication` |
| Configuration | `internal/config/config.go` | read once | Load | environment | `Authentication`, `WebAccess` |
| Migrations | `internal/db/migrate.go`, `sql/schema/` | schema, `goose_db_version` | Migrate, MigrateDown | Postgres; `cmd/server`, `cmd/migrate` | `SchemaMigrations` |
| Server process | `cmd/server/main.go` | listener, stop channel, deferred calls | start, serve, shut down | everything above | `ServerLifecycle` |
| Telemetry | `internal/telemetry/telemetry.go` | spans not exported yet | Init, export, shutdown | environment, collector | `ServerLifecycle` |
| List page | `web/src/pages/PetList.tsx` | filter, page, cache | filter, turn page, refresh, delete | ListPets, DeletePet | `PetListPage` |
| Pages of a pet | `PetDetails`, `EditPet`, `CreatePet` | form, mutations, cache | go, type, save, create, delete | the other RPCs | `PetPages`, `PetForm`, `PetViews` |
| Form fields | `PetFormFields`, `PetImage`, `lib/photos.ts` | photos, upload flag | add, remove, upload | a timer, the page around them | `PhotoField` |
| Query cache | `App.tsx` (TanStack Query) | answers per key, one fetch | fetch, invalidate, refetch | all pages | `QueryCache` |
| Dates | `web/src/lib/date.ts` | none | calculateAge, formatBirthDate | | `AgeText`, `PetViews` |
| Theme, layout | `ThemeSwitcher`, `Layout`, `index.html` | local storage, one switch per page | load, toggle | other tabs | `ThemeSwitch` |
| Transport | `lib/client.ts`, `vite.config.ts`, `Docs.tsx` | none | choose an address, proxy | service, certificates | `WebAccess` |
| Generated code | `gen/`, `web/src/gen/` | none | messages, meaning of the rules | | `RequestRules` and others |
| Test support | `internal/testutil`, `stubs/`, `web/src/test` | | | | none |

Every request is a goroutine; handlers share nothing but the table and the pool.
In the browser, everything happens on one thread, and what interleaves is
answers, timers and the user.  Hard behaviours, in the order of their weight:

* requests racing for one row, with `NOW()` fixed when a statement starts and the
  row changed when it commits;
* an answer lost after the statement committed, reported as `Internal`;
* `ListPets`: two statements, no transaction, two connections in turn; and a
  reader who walks its pages while others write;
* servers that migrate at start-up with no lock between them, and that can be
  killed at any time before they serve;
* a signal at any moment of start-up or shutdown, requests still running, spans
  not exported, deferred calls that `os.Exit` skips;
* answers that arrive after the write that made them stale; mutations that
  outlive their page; a page that moves from one pet to the next and keeps its state;
* a refetch that overwrites a form, an upload that ends on another pet's form;
* conversions that do not quite invert each other: tags joined and split, two
  languages' white space, UTF-16 units against characters, months of different lengths;
* decisions made twice in different places: who can be let in, whether there is
  TLS, which theme is shown, what a page leaves out.

## 2. Modules

| Module | Models | Theorems |
|---|---|---|
| `PetCalls` | requests, their checks, what a statement computes; pure | |
| `PetStore` | the abstract service: a store where each request takes effect at one instant | |
| `PetService` | handlers, pool, clock, table; extends `PetCalls` | |
| `PetServiceProperties` | its properties and the refinement mapping to `PetStore` | |
| `PetServiceProofs` | | type correctness, causality, and what races for a row leave true |
| `PetStoreProofs` | | far pages are empty; the service implements the store |
| `SchemaMigrations` | servers, `migrate down`, the four migrations and the rows they keep or lose | |
| `SchemaMigrationsProofs` | | types; schema and versions in step and no lost URLs, in turns; races converge |
| `ServerLifecycle` | `main()` from start to exit, listener, requests, signals, spans | |
| `Authentication` | `config.Load`, the start-up guard, dev middleware, `authenticate` | |
| `WebAccess` | certificates, Vite, the page's address, CORS | |
| `RequestRules` | the messages' rules and what a text is to them; pure | |
| `PetForm` | form to request to row and back; extends `RequestRules` | |
| `PhotoField` | photos, uploads, thumbnails on the edit page | |
| `QueryCache` | TanStack Query as the pages use it; instantiated by two modules | |
| `PetListPage` | the list page over `QueryCache` | |
| `PetListPageProofs` | | types; fresh data follow deletions |
| `PetPages` | details, edit and create pages, routes and mutations over `QueryCache` | |
| `PetPagesProofs` | | types; own texts, typed texts, creates per visit, fresh data |
| `PetViews` | what the list, details and edit pages say of one pet | |
| `AgeText` | `calculateAge` and the calendar | |
| `ListWalk` | a reader walking the pages of a changing list | |
| `ThemeSwitch` | the theme in several tabs | |
| `MCPetService`, `MCPetPages`, `MCPetForm`, `MCShown`, `MCServer` | instances for TLC | |
| `FormProofs` | | about `PetForm` and `PhotoField`: all of the `form` run |
| `ShownProofs` | | about `AgeText`, `PetViews`, `ListWalk`, `ThemeSwitch`: all of the `shown` run |
| `ServerProofs` | | about `ServerLifecycle`, `Authentication`, `WebAccess`: all safety of the `server` run |

### PetCalls and PetService

A call is a record of what the checks tell apart.  A text is a word with or
without white space around it, because blankness is tested twice, differently:
`min_len` in `pet.proto` sees the text as sent, the handler sees it trimmed.  A
date is absent, a date, of the right shape but impossible, or malformed.  Photo
URLs, tags and the birth-date flag go through every statement like the name and
have no fields of their own.  `Verdict` puts the checks in the order of
`newServerHandler`: request rules, authentication, then the handler's own.
`Int32` is the conversion that `ListPets` applies to the offset; `MaxInt32` is a
constant so that TLC meets its edge.

`PetService` has one variable for the table, one for the clock, and for each
request where it stands (`pc`), what it asks, `NOW()` of its statement, the
connection it holds and its answer.

| Action | Code |
|---|---|
| `Receive` | interceptors and the handler up to its first query; early returns answer at once |
| `Begin` | acquiring a connection; the implicit transaction starts and fixes `NOW()` |
| `ExecCreate` ... `ExecDelete` | the statement commits, the handler builds its answer |
| `ExecListPage`, `ExecCount` | the two statements of `ListPets`, each with a connection of its own |
| `FailStatement` | pool, connection or context gives up before the statement takes effect |
| `Deliver` | the client has the answer, and knows the ids in it |
| `Tick` | the database clock |

The checks read no shared state, so one step for all of them loses no
interleaving.  A lost result is in `Outcome`: any statement that took effect may
be answered `Internal`.  `target` ranges over ids that an answer has carried and
made-up ones, because nobody else can name a UUID that was not issued yet.

Assumptions about Postgres, none of them in the repository: a statement on one
row is atomic and sees the last committed row (READ COMMITTED, row locks); the
clock does not run backwards; `gen_random_uuid()` never repeats.

### PetStore and the refinement

`PetStore` has no pool, no clock and no split of a statement into start and
commit.  `ImplementsPetStore` (the module instantiated with the mapping in
`PetServiceProperties`) says that every request takes effect at most once, at one
instant between arrival and answer, and is answered accordingly; `ListPets` reads
page and total at two instants, which is all the code gives.

### SchemaMigrations

The schema is the set of parts the migrations touch.  `Up` and `Down` are the SQL
files, `IF NOT EXISTS` included: migration 001 run a second time brings
`pet_photos` back.  `ReadPending` is what `provider.Up` reads before it applies
anything; `ApplyNext` is one migration with the row that records it in one
transaction; `Kill` leaves what was committed.  `rows` tells whether the table
holds photo URLs and unknown birth dates, which is what dropping a column and
the Down of 004 destroy.  `turns` is chosen at first and says whether processes
take turns: the code has no lock, so this is a promise of whoever deploys it, and
behaviours with and without it are both there.  A failure of goose itself (a gap
in the versions) leaves the server stopped and is a disabled `ReadPending`.

### ServerLifecycle

`main` walks through `main()` in its order; each step of it may fail as the code
lets it.  `Gone` is the end of the process by whatever means: `os.Exit` and a
signal before `signal.Notify` skip the deferred calls, `Return` comes after them.
The listening goroutine, signals and each request are actors of their own.
`stop` is the channel of capacity 1.  A request that was sent may be accepted
during a shutdown or closed as idle, as `http.Server.Shutdown` does; `Answer` ends
its span, `Export` and `Flush` hand spans to the collector.  The metrics, the
sampling ratio (a span that is not sampled is a request nobody looks at) and the
limit of the batch queue are left out.

### Authentication, WebAccess

Both are small state machines around a decision that two pieces of code take
apart.  `Authentication` has the environment, the configuration `Load` makes of
it, the guard of `main.go:60` and one request through `DevIdentityMiddleware` and
`authenticate`, in the order of its branches; every environment and every set of
headers is enumerated.  `Middleware` and the `Validator` are called by tests
only.  `WebAccess` has the two certificate files, the service and Vite, each of
which looks at them once when it starts, and a page with its address, its proxy and
the allowed origins.  A program looks at both files in one step, and ports are the
default ones.

### RequestRules, PetForm

`RequestRules` states the rules of `pet.proto` as data (`CreatePetRequest` and
the others map a field to its rule) and what they mean (`Meets`, `Violations`) as
`validate_pb.ts` documents them.  A text is a record of what rules and trimming
see: its length in characters, whether these take two UTF-16 units, the white space
before and after them and whether it looks like a date, URI or UUID.  The white space
is a sequence of three kinds in any order: one that both languages trim, U+FEFF
(trimmed by JavaScript only) and U+0085 (by Go only).  Each trim cuts a text from
both ends up to the first character it does not know (`CutFront`, `CutBack`), so one
language's trim can lay open what the other takes next time; a text of white space
alone is all in `lead` and cut from both its ends (`CutBoth`).  `PetForm` takes a pet from
the fields of the form through `RequestOf`, the rules and the handler's
`StoredOf` into the table and back through `FormOf`; other clients write without
a form.  Tags are spelt out as sequences, since `join` and `split` decide about
them: `Joined` is `join(", ")`, `Parts` the `split(",")`, written as a recursive
function so that it can be reasoned about, and `Kept` the filter of empty parts.

### QueryCache, PetListPage, PetPages

A React render and its effects finish before the next event, so an action of a
page ends with them; on the list page, whose effects change what is fetched,
they are an action of their own (`RunEffects`) that everything else waits for.
The cache holds data per key, `stale`, `failed`, and one fetch for the observed
key, cancelled when the key is left.  A refetch replaces the fetch under way,
except the first fetch of a key, which is left to finish.  `PetListPage` moves
the query observer and then sets the page number as the two effects of lines
28-49 do, in their order; `overtaken` remembers the keys whose first fetch was
overtaken by a deletion.  One pet fills a page, so that two pets are enough to
turn it.

`PetPages` has the page on screen, the form with the pet and version its texts
came from, requests of this browser under way, and the cache.  `Show` is the
router: a page of the same route keeps its state when only the pet changes.
`Filled` is the effect that fills the form.  A mutation outlives its component:
`Succeed` invalidates and navigates wherever the user is by then, `Retargeted` is
the `onSuccess` of the last render.  `Commit` and `OthersWrite` are the server,
which for this module is a version per pet.

### PhotoField

The list of photos belongs to the page, the upload flag and thumbnails to the
fields, which leave the screen while a pet loads or an error shows.
`StartUpload` captures the list, as the closure of `handleFileUpload` does, and
`EndUpload` sets the captured list and the new photo.  Thumbnails have
positions for keys and keep their failure when the photo under them changes.

### PetViews, AgeText, ListWalk, ThemeSwitch

`PetViews` writes a page as a record of words; the pages agree when the records
do.  `AgeText` has `calculateAge` line by line, with JavaScript's reading of a
date, and a reference that counts monthly anniversaries.  `ListWalk` reads page
after page with the `ORDER BY`, `LIMIT` and `OFFSET` of `ListPets`; rows appear in
another order than their `created_at` says.  `ThemeSwitch` has the script of
`index.html`, the switch's initial state and its later effect, in tabs that share
the storage.

## 3. Runs

| Run | Module | Instance | What it shows |
|---|---|---|---|
| `pet_service` | `MCPetService` | 3 requests, 2 ids, 2 connections, 7 calls, clock 0..1 | refinement of `PetStore` |
| `pet_race` | `MCPetService` | 4 requests, 1 id, 2 connections, writes only, clock 0..1 | the races for one pet: order of times, one writer per row, answers that stay true, one successful delete, no resurrection |
| `pet_inputs` | `MCPetService` | 2 requests, about 400 calls with every combination of flaws | stored rows can be saved back; page numbers do not wrap |
| `pet_pool` | `MCPetService` | 3 requests, 1 connection, fairness | every request is answered |
| `migrations` | `SchemaMigrations` | 3 servers, 1 kill, 4 roll-backs, in turns or not, fairness | in turns, schema and versions in step and URLs kept; racing servers end with the latest schema; migrations end |
| `migrations_pending` | `SchemaMigrations` | 2 servers at once | **violation**: an applied migration is applied again |
| `pet_list` | `PetListPage` | 2 filters, 2 pets, 2 changes, 3 clicks, fairness | fresh data follow deletions, and a deletion comes to show |
| `pet_list_next` | `PetListPage` | the same | **violation**: Next falls back to the first page |
| `pages` | `MCPetPages` | 2 pets, 2 versions, 2 requests, 2 presses, 2 moves from any address, fairness | a save carries its own pet's text; one create per visit; typed text is lost only to news; writes come to show |
| `form` | `MCPetForm` | names of 0, 1, 50, 51, 100, 101 characters in five kinds of white space, tags of up to 4 symbols; 2 pets, 2 uploads, 2 photos | `SavedPetIsKept`: what is stored keeps the rules; saved again unchanged it changes at most in white space around its name and species, and not at all where JavaScript trims neither; its own species as a filter finds it; what is rejected and why; photos mixed or lost only by late uploads |
| `shown` | `MCShown` | births of 2022-2024 on 1 and 28-31, days of 2023-2025; 2 users, 6 seconds; 5 pets, pages of 2, 3 changes; 2 tabs, 6 steps | ages against counting, pages agree, what a walk misses or repeats, whose theme wins |
| `server` | `MCServer` | 3 requests, 2 signals, every failure; every environment and set of headers; certificates and restarts in any order | `OrderlyLife`: clean stops lose nothing; every identity is backed by evidence; the guard refuses only what nobody could enter; pages reach the service |

`MCPetForm`, `MCShown` and `MCServer` hold several *studies*: parts that share no
state and are checked in one run.  A behaviour picks a study at first and takes
only its steps, while the other parts rest in an initial state, fixed where it has
choices, so that the state spaces add up and do not multiply.  `MCPetPages` has two
sessions of one model, with pets that exist and saves, or with pets to be created
and deleted.  A property that is a conjunction of parts (`AnswersHold`, `EditsOwnPet`,
`SavedPetIsKept`, `OwnPhotosStay`, `PagesAgree`, `WalkIsAccountedFor`, `LookIsKept`,
`OrderlyLife`, `IdentitiesAreEarned`) names each part, stated with its comment in the
module of its component.

Bounds.

* Service: one pet suffices for races for one row, and four requests are a create,
  its update and two rivals, the longest conflict the properties speak of.  Two
  ids make pages, filters and totals differ.  A clock with two values tells an
  earlier start from a later one, which is all a comparison of two times sees; the
  proofs have no bound on it.  `MaxInt32` is 7, so that page 4 of size 4 is out of
  range and would wrap to the front.  Requests and connections are symmetric in
  the runs without liveness.
* Migrations: four roll-backs undo every migration; one kill interrupts a
  migration that another server takes up; three servers are two that race and
  one that starts late.
* Pages: two pets are needed for a page that moves between them, and two slots for
  a mutation that outlives its page beside one of the new page.  Two presses, two
  moves and two versions give each order of a save, a foreign write and a move.
  Behaviours start at any address, so that moves are not spent on getting there.
* Form: the lengths are the limits 0, 50 and 100 and their successors; a wide text
  of 51 or more characters lies between the limits of the two counts.  Around them
  is nothing; a space before and U+FEFF after; U+0085 U+FEFF U+0085 before, which
  alone is the shortest text that Go turns into one JavaScript blanks; and U+FEFF
  U+0085 before or after, where both trims begin and each stops at the other's.  The
  theorems are about white space of any length and order.  Tags of up
  to two symbols, two at a time, spell every placement of a comma and a space.
* Photos: two photos and two uploads are one upload that ends on the other pet's
  form.  Ages: the days lie around each length of month and each side of a leap
  day; AgesGrow has no bound.  Walk: five pets on pages of two are three pages.
* Server: two signals fill the channel of capacity 1 and lose one; three requests
  can be answered, running and accepted at the same time.

`CHECK_DEADLOCK FALSE` stands where a system stops for good: a process that has
exited, a migration that is over, a walk at its end, a page whose bounded clicks and
moves are used up and that has nothing to fetch.  The `pet_*` runs check deadlock;
`AllServed` is their only way to stop.

Fairness.  `PetService`: each request's own steps are weakly fair, that is, the
Go scheduler runs goroutines, pgxpool hands a free connection to a waiter, and
Postgres finishes statements.  With one connection and three requests, weak
fairness of `Begin` is enough since a bounded number of rivals can take the
connection first; for unbounded traffic one would cite pgxpool's queue.  No
client has to call and nothing has to fail.  `SchemaMigrations`: a migrating
process is not suspended for ever.  `ServerLifecycle`: `Notify`, `GoListen` and the
steps of stopping, which are `main()`'s own and the ten seconds of its context;
nothing is assumed of the database, whose ping, migration and queries may hang, nor
of clients.  `PetListPage` and `PetPages`: effects run after each render, a fetch or
write is answered or fails.  The user, other clients and the cache's clocks are never
fair, and `PhotoField`, whose properties are safety alone, assumes nothing.

### The two violations

* `pet_list_next`.  "Next" sets page 1.  Its data are not there yet, so
  `totalCount` is 0, `totalPages` is 1 and the effect of `PetList.tsx:45` sets the
  page back to 0, dropping the fetch.  The directory never shows a second page.
  `placeholderData: keepPreviousData`, or clamping only when there are data,
  would make `PageKeptUntilAnswered` hold.
* `migrations_pending`.  `Migrate` is documented to apply pending migrations.
  Two servers that start together both read "nothing applied", and the slower
  one repeats the other's.  The repetition is harmless for the schema in the end
  (`RacingServersConverge`), but 002 run again drops `photo_urls`, with URLs
  stored by the faster server, and a server killed right after it leaves a
  schema that no version describes.  A goose session locker restores what
  `SchemaMatchesVersion` shows for turns and `SchemaMigrationsProofs` proves.

### Other observations

Seen while modelling; the properties are stated with these exceptions in them or
leave them out, and no run is spent on them.

* `PetFormFields.tsx:43`: an upload captures the list of photos; a URL added while it
  runs is taken off again when it ends, and one removed comes back
  (`AddedUrlLostOnlyToUploads` names the exception).  On a page that moves to
  another pet it carries the first pet's photos along (`PetsMixedOnlyByUploads`).
* `PetList.tsx:188`: a status or species filter that matches nothing leaves `pets`
  empty, and the page says the directory is.
* `EditPet.tsx:76` and `handler.go:198`: a name typed as U+0085 U+FEFF "Rex" passes
  JavaScript's trim untouched and is stored by Go's as U+FEFF "Rex"; opened and saved
  unchanged it becomes "Rex".  U+0085 U+FEFF U+0085 alone is stored as U+FEFF, a name
  that the edit page cannot save.  No text promises otherwise; `ResaveKeepsPet` says
  that nothing else changes and where nothing does.
* A create whose answer is lost is made again by the next press (`OneCreatePerVisit`
  allows one more for each error shown); a refetch that brings another version of a pet
  overwrites what was typed (`TypedTextLostOnlyToNews`); a switch writes the theme it
  read over what another tab has saved since, and an unknown saved theme is read
  differently by `index.html` and the switch (`LookIsKept`); programs started around
  `just certs` see different files and disagree on TLS (`PagesReachService` is about
  programs that saw the same).  Nothing says otherwise; each property names its exception.
* `date.ts:23` and `:39`: years 0 to 99 are read as 1900 to 1999.
* `auth.go:46-58`: the developer identity is injected "when no identity headers are
  present", but the condition does not look at `X-Forwarded-User`, which
  `authenticate` takes for one; a request with that header alone is the developer's.
* `CreatePet.tsx:48`: success navigates to the new pet wherever the user has gone.
* A first fetch overtaken by a deletion shows the deleted pet until it is stale;
  `FreshDataFollowDeletions` excludes that case by name.  That `modified_at` grows
  with every update is not so either: two updates may commit in the other order than
  they started, and no text promises it.

## 4. Proofs

Every theorem holds for all values of the constants that satisfy the `ASSUME`s:
any number of requests, ids, connections, servers, signals, pets, tabs, any clock.
Most `ASSUME`s say only that a bound is a number or that a value that stands for
"nothing" is no value of the kind it stands in for (`NoPet`, `NoKey`, `Sent`, "nobody").
The others: ids are finitely many and ordered (`IdsAssumption`), the sizes of a
page lie in `1..MaxInt32`, a walk's pets are finitely many, the blank text is no
word.  Where a run's properties belong to a part of it (`Auth!Spec`, `Walk!Spec`,
`Field!Spec`, ...), a theorem is about that part on its own, and another one takes it
to the run's studies (`FormStudies`, `ShownStudies`, `ServerStudies`).  The theorems about
`PetPages` hold for all sets `Born` and `Writes`, so for each session of its run.

The property of a theorem is rarely inductive; what is added, and why:

**Service** (`PetServiceProofs`)

* `TypeCorrect` adds that a request past the checks carries a call with verdict OK,
  since a row is well-formed because the call it is made of passed them.
* `Causality` proves `CausalInv`, five parts that are inductive only together: known
  and named ids have been issued (`IdsComeFromAnswers`); statements start in the
  clock's past, and an update that finds its row started after the row's creation
  (`StartsFollowCreation`); rows are created no later than modified (`RowsInOrder`);
  a pet whose delete was acknowledged is gone (`DeletedAreGone`); only lists have a
  second statement (`OnlyListsCount`).  The argument: an update names an id it was
  told, the telling came after the commit, and the clock is monotone.
  `ModifiedAfterCreated`, `DeletedStaysDeleted` and `OneDeleteSucceeds` follow.
* `RowsComeFromOneWriter` carries the writer of each row along: a statement replaces
  contents, user and time together, and `WritersStay` says that a request which has
  written keeps the call, the user and the `NOW()` it wrote with.
* `AnswersStayTrue` needs `IssuedOrDeleted`: an id that was issued and has no row was
  the target of a `DeletePet` that took effect, whatever the client was told.
* `RowsCanBeResaved` is about the checks alone: trimming and defaulting are idempotent.

**Refinement** (`PetStoreProofs`)

* `FarPagesStayEmpty` counts.  `RanksAreThePlaces`: in a total order on a finite set
  the places are `1..n`; so a page holds the rows with `offset` to `offset + limit - 1`
  ahead of them, and none if there are fewer (`PageStartsWithin`).  `OffsetFits` is the
  conversion to 32 bits, and where it does not fit the call is refused.
* `ServiceImplementsStore`.  The mapping hides pool, clock and the start of a statement:
  `BeginIsInvisible`, `Tick` and the acquisitions are stuttering, every `Exec` is the
  store's `Perform` (`CreateRefines` to `ListTotalRefines`), an early return is an answer.
  It needs `CausalInv`, because the store issues an id once and the service must not
  have named it before.

**Migrations** (`SchemaMigrationsProofs`)

* `TurnsKeepSchema`: `InTurns` adds that one process migrates at a time, that therefore
  a plan stays equal to what is pending, and that the version chosen for roll-back
  stays the last one.  `TurnsKeepPhotos` uses it: a step that loses URLs leaves a
  schema without their column, and 003 is not recorded for any such schema.
* `RacesConverge`: without turns the schema is often damaged.  `RaceInv` says that every
  plan reaches to the last migration, with everything before it recorded, and that a
  schema which lacks what 003 builds has a server on its way from 001 to 003.

**Pages** (`PetPagesProofs`, `PetListPageProofs`)

* `TextsBelongToTheirPet`: `FormInv` adds that a form under cached data has been filled and
  that only a cached pet can be saved.  `TypedTextSurvives` follows from it step by step.
* `CreatesAreCounted`: `CreatesAnswered` counts the create under way, and `PageInv` says that a
  page's own request is of the kind that page sends.
* `WritesAreSeen`: `FreshInv` is the chain from an answer to the cache.  What a request made
  is stored, what the browser was told is stored, an answer still on its way is as new
  as all it was told, and only keys marked stale are fetched again.  `DeletionsAreSeen` is the same for the list, with `overtaken` as its
  exception.

**Forms** (`FormProofs`)

* `PhotosAreOwn`: `PhotosInv` says that the lists are lists of photos and that the pet object
  shown is of the page's pet; a removal by position takes off one photo.  `FieldsInv` adds
  the bounds that `Field!TypeOK` names.
* `TagsComeBack`: tags that a line can spell, any number of them, are the same after `join`
  and `split`.  The induction over the list is a least counterexample: `WFMin` of
  `WellFoundedInduction` takes a set, not an operator, so the lengths at which the claim
  fails are made a set and its least element is contradicted (`AllNumbers`, `AllSequences`).
  What the two recursive definitions compute is first shown to exist and to be the same for
  every bound of the recursion (`FlattenExists`, `FlattenAgrees`, `SplitExists`,
  `SplitAgrees`), then unrolled by one element (`FlattenAppend`, `PartsAppend`,
  `JoinedAppend`).  A joined line splits at the commas alone because no tag has one, and the
  trim of a part takes off the one space that `join` put there (`TrimmedStays`).
* `SavedPetsAreKept` and `RejectedForAReason` share `TextsInv`: a form's texts fit the
  inputs' `maxLength`, counted in UTF-16 units, and a character has at least one unit
  (`UnitsCoverCharacters`); both trims only shorten (`TrimShortens`); what is stored
  passed the rules.  What a cut keeps and where it stops is said once for any sequence
  (`CutPlaces`, `CutsAreCut`, `CutAll`), and that it finds nothing more to take from what
  it left (`CutStays`), so that Go's trim of a stored text is the identity however it
  is made up (`TrimmedTwice`).  When a pet is opened and saved again (`SentAgain`), both
  trims take white space alone and leave the visible characters (`VisibleStays`,
  `ResavedUnpadded`), hence `SameButForWhite`; a text with visible characters is accepted
  again (`ResaveAccepted`); and where JavaScript trims neither text the request is the row
  itself (`ResavedSame`).  Its tags are those of `TagsComeBack`.
* `TypeCorrect` is that of both parts.  `FormStudies` takes all of it to the behaviours of
  the run.  Two of its studies are about texts with different sets of them, so the step of
  the invariant is proved once for any sets (`StepTexts`) and used for both.

**What is shown** (`ShownProofs`)

* `AgesGrow`: from one day to the next the months a pet has lived, `12 * years + months`,
  never get fewer, because a new month begins on day 1, and the text shows a monotone
  function of them.  `AgesAreCounted` adds that they are the monthly anniversaries gone
  by, so that the borrowing of days and months in `calculateAge` is right.  It is stated
  for births from the year 100 on, the one hypothesis here that is no `ASSUME`: the
  `Date` constructor takes a year below 100 for one of the last century (section 3), and
  such a pet's age is not counted.
* `LookStays`: `LookInv` ties what a switch and a page's head show to what they read.
  `PagesTellTheSame`: `RowInv` adds that a row that was never updated has equal times.
* `WalksAreAccountedFor`: `WalkInv` bounds by what has left and what has come
  more than the property names.  A pet that the reader has not met although its place is
  before the next offset counts as `Missed` while the walk goes on, and a pet already
  shown whose place is past it counts as `Pushed`, ahead of being shown again; a deletion
  moves at most one pet into the first set, an insertion at most one into the second, and
  reading a page moves pets from the second set to the repeated ones.
  `WalkInv` also bounds what was shown by the rows gone through, which is the part
  of `Walk!TypeOK` that is no typing.
* `ShownStudies` takes all of it to the behaviours of the run: `StudiesAreSpecs` says that a
  behaviour of the studies is one of each part.  Of the types, `NextDayExists` says that a day
  after an existing day exists, and `Switched` that a tab has a theme in its state exactly
  where a page with a switch is rendered.  `ShownAges` is `AgesAreCounted` for the studies.

**Server** (`ServerProofs`)

* `GracefulStop` and `TypeCorrect` share `IInv`: a request is sent or running only while
  `main()` waits or shuts down; the pool is open from its connection until the deferred
  close; nothing is cut off before the end, and at the end only when it is forced or
  failed; tables are migrated before anything is served; spans are gone once they are
  flushed.  The last needs that no request is left when the pool is closed, which is
  why the parts are inductive only together.
* `StartsIfOfUse` and `NamesAreEarned`: `AuthInv` says that a configuration is the one `Load`
  makes of the environment and that the last request went through middleware and
  `authenticate`; the rest is a case analysis over any names, tokens and headers.
* `PagesReach`: `WebInv` says what each program saw of the certificates and that a page is
  one that was served.
* `PartsAreTyped` and `ServerStudies`: the three invariants hold together in the run's
  studies (`PartsHold`), since a step of one part leaves the others as they are.

Only model-checked is liveness: `EveryRequestAnswered`, `MigrationEnds`, `SignalEndsIt`,
`DeletionShows` and `WritesShow`, which are out of the prover's reach like `ENABLED`.  No
invariant and no action property of a passing run is left without a theorem.

## 5. Not modelled

* Code nothing calls or only tests call: `TouchPet`, `Queries.WithTx`, `MigrateTo`,
  `MigrateDownTo`, `auth.Middleware`, `Validator`; read-only commands.
* Output that feeds nothing back: the logger, metrics, `errors.ts`, static routes,
  wording and layout; the reader that `Docs.tsx` frames; the search box, which
  only hides rows of the page on screen.
* `validate_pb.ts` and `pet_pb.ts` are generated and most of the web client's lines;
  `RequestRules` and the message sets take from them what `pet.proto` uses, and the
  rules it does not use, descriptors and serialisation are left out.
* Clients that go away.  A client that resets its HTTP/2 stream is no longer waited for
  by `Shutdown`, which may return while the handler it left, whose context is
  cancelled, still finishes; in `ServerLifecycle` every running request keeps its client.
  `OrderlyLife` is about requests that a client waits for.
* Libraries, beyond what the code relies on: Postgres (see the assumptions under
  PetService), pgxpool's health checks, goose's own bookkeeping, TanStack Query's
  collection of entries after five minutes, React's double effects in strict mode,
  which only development builds have.
* Test support: containers, truncation and mock servers.

## 6. Plan

Done: all modules of section 2, and the theorems of section 4, which cover every safety
property of the passing runs.  Next, in this order:

1. What the liveness properties rest on and can be proved: a measure that every fair step
   lowers, and the invariants that say which fair step is possible in each state they pass.
2. A walk (`ListWalk`) under filters that change, as the list page lets the reader do.
3. The metrics and the limit of the batch queue of `telemetry.go`, with the spans it drops.
