# ModelCairn in TLA+

ModelCairn is a self-hosted gateway in front of OpenAI-compatible providers: one
Go process over one SQLite database, with an administrative API, a web console,
a CLI and a data API that routes chat completions to configured destinations.
These modules model the parts of it where the order of steps decides whether it
is correct: several requests at once, a crash between two writes, a plan that is
executed long after it was computed, a deadline that races an answer.

Line numbers refer to the files under `src/internal/` unless a path says
otherwise. `PROJECT.json` maps every definition to the lines it stands for.

## 1. Inventory

| Part | State it keeps | Operations | Who it meets |
|---|---|---|---|
| Secret store, keyring (`storage/secret_store.go`, `keyring.go`, `rotation.go`) | key files by version, `installation_state`, `secrets`, the active key in memory, `unavailable` | bootstrap, open, Put, Delete, RotateMasterKey, CollectUnusedKeys | every administrative write goes through its mutex; the router decrypts with it |
| Generations (`storage/generation_restore.go`, `generation_link_unix.go`, `backup.go`, `backupmcb1`) | directories under `generations/`, the link `current`, `.previous` markers, one database each | backup, restore, rollback, opening | excluded from each other and from the server by the installation lock |
| Configuration graph (`storage/config_batch.go`, `repository.go`, `config/validate.go`) | envelopes, typed rows, published strategy versions, agent tokens | apply a document, mutate one resource, publish, revoke | read by the router's snapshot and by the bearer check |
| Plan tokens (`storage/plan_token.go`, `plan_transaction.go`, `config/persistence.go`) | revision counters, consumed nonces | issue, execute, console mutations with If-Match | signed under the active master key, so rotation and restore end them |
| Router (`router/engine.go`, `stream_engine.go`, `openaiadapter`, `streaming/chat.go`) | none beyond a request: attempts, deadlines, the transport's progress, what the client has received | Run, RunStream, Execute, OpenStream, relay | upstreams and the client, each in a goroutine of its own |
| Request records (`httpserver/data.go`, `storage/operational.go`, `router/snapshot.go`) | rows of requests and attempts, cooldowns | bearer check, alias, snapshot, begin, complete | concurrent requests and administrators |
| Administrative sessions (`storage/admin_session.go`, `admin_identity.go`, `httpserver/admin.go`, `app/admin_client.go`, `web/src/api/client.ts`) | session rows, the administrator's `auth_version`, cookie, session file | login, use, rotate the CSRF token, logout, password reset | tabs that share a cookie, commands that share a file |
| Failed-login statistics (`storage/failed_login_statistics.go`) | counts in memory, buckets in SQLite | count, roll over, tick, put back, close | login handlers, a ticker, shutdown |
| Login admission (`storage/admin_login.go`) | a bucket for the service and one per source, delays after failures, a bounded table of sources, one derivation slot | allow, failed, succeeded, prune, the slot | login handlers; failures are counted by the statistics |
| Catalogue (`httpserver/catalog.go`, `agent_token.go`, `storage/repository.go`, `agent_token.go`) | rows with identity and version, verifiers and revocations | list page by page, get, create, replace and delete under If-Match, publish, issue, rotate and revoke a bearer | consoles and scripts with copies of any age; every write is a transaction under the store's mutex |
| Archive file (`backupmcb1/mcb1.go`, `restore.go`, `storage/publish.go`) | one file name: temporary file, published file, what is durable | backup create, verify, restore | other `backup create` commands, the operator's file system |
| Settings (`adminsettings`, `storage/admin_settings*.go`) | desired document, effective values of the running service | plan, apply, resolve | sessions take their durations from it |

Without state that several steps share: parsing and export of documents,
validation of chat requests, redaction, password hashing, the byte format of
archives, the console's pages, packaging.

What is hard here:

* **Durability.** A key file and a database commit are two writes; so are a new
  generation's directory and the link that selects it. The machine may stop in
  between, and fsync covers only what it is called on.
* **Uncertain commits.** `tx.Commit` may fail after the commit took place.
* **Staleness.** Plans, router snapshots, published versions, clients' copies and
  clock readings are used later than they were taken; an archive is read twice.
* **Concurrency.** Handlers, the ticker, the HTTP transport's goroutines and
  shutdown interleave; SQLite has one connection, so statements queue.
* **The wall clock** steps back, and times are compared as text.

`PROJECT.json` lists these as hazards, each at its line with the property that
would catch it.

## 2. Plan

| Order | Module | State | Composes with |
|---|---|---|---|
| 1 | `SecretVault` (abstract), `SecretStore`, `SecretStoreProofs` | checked, proved | implements `SecretVault` |
| 2 | `Generations`, `GenerationsProofs` | checked, proved | |
| 3 | `ClientAnswer` (abstract), `RouterEngine`, `RouterEngineProofs` | checked, proved | implements `ClientAnswer` |
| 4 | `ConfigGraph` (proofs in `RouterEngineProofs`) | checked, proved | what `RouterEngine` routes by |
| 5 | `ConfigPlans`, `ConfigPlansProofs` | checked, proved | abstracts the documents of `ConfigGraph` and the layouts of `Generations` |
| 6 | `RequestRecords` (proofs in `RouterEngineProofs`) | checked, proved | abstracts a run of `RouterEngine` |
| 7 | `FailedLoginStatistics`, `FailedLoginStatisticsProofs` | checked, proved | counts what `LoginAdmission` reports as failed |
| 8 | `AdminSession`, `AdminSessionProofs` | checked, proved | takes its durations from the settings of `ConfigPlans` |
| 9 | `LoginAdmission`, `LoginAdmissionProofs` | checked, proved | stands before `AdminSession`'s creation |
| 10 | `Catalog` (proofs in `AdminSessionProofs`) | checked, proved | abstracts the references of `ConfigGraph` |
| 11 | `Archive`, `ArchiveProofs` | checked, proved | what it stages is what `Generations` activates |

What is left: an abstract specification of the data API over several requests
(`RequestRecords` with `RouterEngine` as the run of one request) and the table of
redacted values.

## 3. Modules

### SecretStore

All mutations run under `SecretStore.mu` and the lock admits one process, so one
operation is in progress and `pc` says where it stands. A SQLite transaction is
one step (WAL, `synchronous=FULL`); a file is created, synced, renamed and made
durable in four (`keyring.create`). `files` is what a process sees, `disk` the
directory entries that a power loss leaves, `synced` the keys whose content is
on disk. `PowerLoss` leaves names whose content was never synced as `Torn`.
`CommitFails` has both outcomes. `SecretVault` is the promise: a function from
secrets to values in which only Put and Delete change anything, one secret at a
time, and an unacknowledged change is old or new.

### Generations

Restore builds a directory, fills a database under its own key, seals it and
then switches `current`; rollback rewrites the credentials of the predecessor
and switches back. `Journaled` says what a directory sync makes durable: every
earlier directory change, as a metadata journal does, or the entries of that
directory alone. Credentials are generated once each; `dead` remembers those
that a server refused.

### RouterEngine

One request. The handler's loop is `pc`; the transport moves `wire` (what
reached an upstream) and `wrote` (whether the hook ran before `Do` returned) at
any time; `gone`, `expired` and `attemptExpired` become true at any time, between
the reads of the two contexts as well. `classifyAttempt` is an operator over what
the adapter returned and the state of both contexts when it is called. A write to
the client is a state of its own (`Writing`: an event, the end of a stream, a
plain answer or error). It lasts as long as the client does not read: no context
interrupts it (`streaming/chat.go:92,279`, `httpserver/data.go:113`) and the server
sets no write timeout (`httpserver/server.go:148`). It ends in success, in an error,
or in an error that the code drops (`lost`): `Flush` returns none, and the handler
ignores the one of the plain answer's `Write`. `ClientAnswer` is the client's view: nothing,
then an answer from one destination, which grows and is then whole or cut.

### ConfigGraph

A mutation is a function from databases to databases or `Rejected`: `Put` and
`Delete` state the foreign keys, unique keys and triggers of
`migrations/0001_initial.sql`, `ApplyConfigTx` runs the sorted changes one by
one. A typed row holds the ids it references; `Gone` is an id whose resource was
deleted. `Validate` is the check of the declared resources and of what refers to
them.

### ConfigPlans

Each action is a critical section of `SecretStore.mu` around a transaction. A
token is its claims: purpose, base revision, observed stamps, digest, key, issue
time. Restore copies the archived state under a new key; rollback goes back to
the predecessor and empties `consumed`.

### RequestRecords

Bearer check, alias, snapshot, begin and complete are separate statements over
the single connection and therefore separate actions; administrators move the
alias, switch or delete routes and destinations and change the token between
them. The snapshot gives a handler the positions of the eligible destinations
(`todo`); a run of the engine tries them from the least up and may stop after
any of them. `TextLess` is the comparison of RFC3339Nano texts.

### FailedLoginStatistics

Handlers, the ticker's goroutine, `closeAndFlush` and the main goroutine. A
batch that was taken out of memory is in the hands of the process that writes
it. A flush ends with the error of `tx.Commit` (`:175`), which may follow a commit
that landed: the batch is then in SQLite and is put back all the same. `repeated`
counts what such commits wrote, up to `MaxRepeats`. `dropped` counts what the code gives up: pruned by retention, or written
after close without another attempt.

### LoginAdmission

`allow`, `failed` and `succeeded` are the three critical sections of the table;
the channel `derive` is `slot`. A handler reads the clock, then waits: `at` is
that reading, and it may reach the table after later ones. Tokens are counted in
parts of one (`Token`), so that the code's fraction of a token is an integer. A
handler may be cancelled, find the slot taken, fail, succeed or meet a database
error; each way out gives the slot back or never had it.

### Catalog

A handler's mutation is one transaction, so it is one action; the client's side
is what takes time. `copy` is the row a client read or was answered; every
answer may be lost, so that its next write is a retry or a write from an old
copy. A behaviour follows one kind of resource, because kinds meet only through
references, which are `ConfigGraph`'s. `list.kept` is the history that says
which rows were there during a whole listing. `Usable` is the bearer check
without the expiry, which an edit may move in both directions.

### Archive

`create[n]` is the n-th `backup create`; its file is inode n, and inode 0 is a
file that the operator puts under the name. `synced` are inodes whose content is
on disk, `durable` what the name refers to after a power loss. A reader opens the
name once per pass and reads what is in the inode then; an overwritten inode
breaks the authenticated stream it had opened (`intact`). `EntryReadable` and
`EndReadable` are the reader's checks in its order; `Whole` says the same of the
file and is used by properties only. `Foreign` files are anything an operator may
have, whole or not; what the specification assumes of them is that checksums
which agree were written by whoever wrote the parts.

### AdminSession

A request is sent with the token its client has and executes later, after it
waited for the connection, with the time that its handler read in between.
Tabs share `jar` and keep a token each; commands share `file`, token included.
`promised` is the latest expiry that a response announced.

## 4. Runs

| Run | Instance | Distinct states | Shows |
|---|---|---|---|
| `secret_store` | 5 keys, 2 secrets, 1 value, versions up to 4, 2 faults | 1,066,041 | durability, fail-closed, complete collection, refinement of the vault, and that a stopped store starts |
| `generations` | 2 generations, 2 faults, journaled | 596,635 | `current` and predecessors are complete, dead credentials stay dead |
| `router` | 3 destinations, 2 attempts | 549,496 | one answer, no repetition, the end decides the outcome, record and answer agree but for a dropped write error, every request ends unless it is held in a write |
| `config_graph` | 9 managed resources and a secret, documents of up to 2 changes | 1,692 | projection, versions, revocation, providers |
| `plans` | 1 resource with a secret, 1 settings field, 2 plans, 2 keys, 2 generations, revisions up to 3 | 1,099,422 | a plan finds its base, takes effect once, and its secrets are stored |
| `records` | 2 requests, 2 routes that share one of 2 destinations, 3 half seconds, the clock may step back | 1,059,693 | only permitted destinations, cooldowns hold to the second and have their record |
| `statistics` | 2 handlers, 3 failures, 2 repeats, 2 minutes, retention of one | 717,284 | nothing lost, nothing counted again except by a commit that landed and reported an error, nothing left in memory, older buckets only after close, close returns |
| `sessions` | 2 tabs, 1 command, 1 row, 2 durations, 3 readings, 2 passwords | 1,067,328 | rows valid, expiry kept, reset closes, one reload displaces nobody |
| `login` | 2 handlers, 2 addresses, a table of 1, 3 logins, 5 readings in any order | 333,985 | the global bucket conserves tokens, one derivation, Retry-After suffices |
| `catalog` | 2 clients, 2 names (1 for tokens), 3 identities, 2 versions, 2 bearers, pages of 1 | 1,043,046 | no lost update, complete listings, no bearer revived |
| `archive` | 2 installations, 2 executions of create, 2 changes by the operator, 13 files of his | 2,564,868 | a published file is whole, an announced one survives, a restore is of one backup |
| `router_send` | as `router` | | violated: see 6 |

The type invariant of every module that has one is proved (section 5) and no run
repeats it. `MCConfigPlansClock.cfg` is a further
instance that passes, with two resources, one key and a clock of two readings,
for the expiry of tokens and for plans as rivals (`OneOfRivals`). The other
configurations reproduce the disagreements of section 6.

Why the bounds are enough:

* **SecretStore**: two faults interrupt a rotation and the recovery or the
  rotation after it; five keys and four versions leave room for an orphan of
  each. One value is enough for everything but which value a secret has, and the
  refinement is proved for any.
* **Generations**: two generations and the flat layout give restore, rollback
  and a second restore onto a rolled-back directory; one fault interrupts, the
  second hits the recovery.
* **RouterEngine**: two attempts and three destinations, any of them excluded,
  reach the end of the loop by exhaustion of either.
* **ConfigGraph**: two changes are the smallest document in which order matters.
* **ConfigPlans**: two plans are rivals or repetitions; three revisions allow a
  change and its reversal; the second key goes to a restore or to a rotation. The
  proofs hold for any number.
* **RequestRecords**: requests meet each other only in cooldowns, and
  administrators only in the configuration. The constraint `OneOrQuiet` therefore
  follows one request against administrators who have changed one thing at a
  time, and two requests while routes and token are left alone; the product of
  both is out of reach and the properties do not combine them.
* **FailedLoginStatistics**: with two handlers one may put back while the other
  rolls over; two repeats are one batch of two failures, or one failure that lands
  twice before the commit that is reported.
* **AdminSession**: one row is used by both tabs or by the command in turn; the
  clock may step back before the administrator's creation.
* **LoginAdmission**: a table of one entry is full as soon as two addresses come;
  three logins reach the second delay, and five readings are enough for an entry
  to be forgotten (`ClientIdle` is 4).
* **Catalog**: three identities are two recreations of a name; a second version
  is what a stale copy misses, and a recreated row reaches it again; pages of one
  item have a cursor after every item.
* **Archive**: two executions race; two changes put one archive under the name
  for the first reading and another for the second. Both installations hold the
  same rows (with different ones the run takes too long), so the run cannot tell
  whose rows a published archive has: the theorem `PublishedWhole` does, for any
  contents. `MCForeign` misses being whole
  in each way that a check of the reader names.

Symmetry is used only in runs without liveness, over model values that the
specification does not order: nonces, keys and resources of a plan; requests;
tabs and commands; clients of the catalogue; installations; secrets and
credentials of a generation.

Deadlock is checked except where the model runs to an end: finished requests, an
exited process, logins or executions used up, identities and bearers used up.

### Fairness

* `SecretStore`: weak fairness of the steps of a start. The unit file restarts
  the service and a started process runs.
* `RouterEngine`: weak fairness of the engine's loop, of its conclusions and of
  the handler (a running goroutine), of the total deadline (a timer), and of the
  return of `Do` and of the relay's read once their context has ended (the transport
  and the reader watch it). Upstreams and the client owe nothing, and no write to the
  client is fair: `RequestEnds` excepts a handler that stays in one write for ever.
* `FailedLoginStatistics`: weak fairness of each handler that counts, of the
  ticker's goroutine and of `closeAndFlush`. New logins and the clock owe nothing.

The other modules state safety only. In `LoginAdmission` nothing waits: a handler
that finds the slot taken is refused at once, so there is no starvation to speak
of beyond `OneDerivation`, which says that the slot comes back.

## 5. Proofs

TLAPS proves for all values of the constants, under the assumptions that the
modules name:

**`SecretStoreProofs`** (from `SecretStoreAssumption`, `RowAssumption`):
`TypeCorrectness`, `KeysDurable`, `FailClosed`, `NoMixedVersions`,
`VersionsOnlyGrow`, `CollectionCompletes` and `Refinement`, all from
`Invariance`. None of the properties is inductive. That the committed keys are
durable after a commit needs that the key being published was durable before it,
which needs that it was synced before it was named: `PublicationInv` follows the
four steps. That rows never mix versions needs what the transaction has done so
far (`TransactionInv`). That the store agrees with the database needs that no
operation runs past a failed check (`MemoryInv`). That a collection removes no
key in use and leaves no other needs what it has still listed
(`CollectionInv`). `Refinement` shows that a reader's view is the contents of
the rows (`ViewIsContents`), that every step but Put and Delete keeps it, and
that those are steps of the vault.

**`ConfigPlansProofs`** (from `ConfigPlansAssumption`): `PlansTypeCorrect`,
`PlansTakeEffectOnce`, `RivalPlansExclude`, `SecretsStayPresent` and
`PlansApplyToTheirBase`, all from `PlansInvariance`. The argument does not rest
on the table of nonces, which a rollback empties. A key belongs to one
generation (`KeyInv`), and under one key the revision of a purpose never falls
and moves with every change. So a token that verifies names the revision of its
own base (`PlanInv`), and one that took effect is behind for good (`EffectInv`).

**`GenerationsProofs`** (from `GenerationsAssumption`, `NoneAssumption`, and `Journaled`, which
each theorem assumes: the disagreement in section 6 is what happens without it):
`GenerationsTypeCorrect`, `CurrentComplete`, `PredecessorComplete` and
`CredentialsStayDead`. `CurrentIsComplete` says nothing of the other names in
play; inductive is that `current`, its durable copy and every recorded
predecessor are settled (directory there now and after a power loss, database
complete), that the generation being built is none of them until it is linked,
and that its directory is durable by then, because the sync of the marker came
first. Neither `current` nor its durable copy selects a database that accepts a
dead credential; a rollback clears those of the predecessor before it links it.

**`RouterEngineProofs`** (from `RouterAssumption`, `RequestRecordsAssumption` and
`ConfigGraphAssumption`) is about the three modules a request of the data API
meets. They share a module of proofs and therefore a name space: `RequestRecords`
and `ConfigGraph` have prefixed names (`RecordsInit`, `GraphSpec`).

*The run of a request*: `RunTypeCorrect`, `WrittenStays`, `RecordAgrees`,
`EndDecides` and `OneAnswer`, the refinement of `ClientAnswer`. The attempt
under way is of a destination not tried yet (`AttemptInv`, which needs that the
next destination, the least of those that remain, is one of them); what the
adapter returned says whether the request was written and answered (`ReturnInv`);
a committed stream is of the destination under way until the run ends, and never
goes back into the loop (`AnswerInv`); the run's code determines record and
answer alike, and an answer that is cut beside a stored success had its write's
error dropped (`CodeInv`, `RecordInv`). `EndDecides` is about the last attempt:
once the client left or the total deadline passed, the attempt under way ends the
run, and both are put down to what ended it.

*Records and cooldowns*: `RecordsTypeCorrect`, `PermittedOnly`, `CooldownsHold` and
`RecordsAndCooldowns`, from `RecordsInvariance`. A request's route is one that its
token named when the bearer was checked, and what it tried and has left to try
are different targets of that route (`HandlersInv`), so a completion holds at
most one reset for a destination. A stored cooldown ends in no earlier second
than any reset recorded for its destination (`CooldownInv`), in whatever order
the completions arrive. The comparison of the stored texts orders times only by
their second (`TextOrder`: within a second, "Z" sorts after the point of a
fraction), which is why the properties speak of seconds.

*The configuration graph*: `GraphTypeCorrect`, `ProjectionStays`, `ProvidersAgree`,
`VersionsAreOwn` and `RevocationStays`, from `GraphInvariance`. None is inductive,
and none holds between two changes of a document. What does (`Within`) is that
the rows with foreign keys follow the envelopes, a token's row does but for
routes deleted so far, and every route has a version of its own strategy;
`DeleteStep` and `PutStep` show it for one change, publications on the way
included. That the changes, sorted by `mutationRank`, are each applied once is a
counting argument (`SortedTakesEach`: the place of a change is an injection into
as many places, hence onto them); that they are applied one after the other is a
least counterexample over the recursion (`RunExists`, `ApplyRuns`, `InOrder`).
So the graph that a document leaves is exactly the effective graph that was
validated (`DocumentStep`), and its validity rules out what no foreign key does:
a token that still names a deleted route, and a destination whose credential and
model lead to two providers. Nothing of this depends on the order of the changes:
an order that a key refuses rolls back.

**`AdminSessionProofs`** (from `AdminSessionAssumption`): `SessionTypeCorrect`,
`RowsValid`, `ExpiryHolds` (a row does not expire before an announced time; use may
prolong it), `ResetCloses` and `ReloadsAreTolerated`. The last one needs that the previous token of a row is its last one before the current, and
that no client holds a token its session has not had yet. The same module proves
`Catalog` (from `CatalogAssumption`): `CatalogTypeCorrect`, `WritesAreSeen`,
`BearersStayDead` and `ListingsAreComplete`. Inductive is the relation of every
copy to the row of its identity wherever that is now: the same name, no older
version, the same content if the versions agree (`CopiesFollow`). Of a listing it
is that everything it still has to show lies after the cursor (`ListInv`); that a
page is the least ids after the cursor is a fact about their ranks, by counting.

**`LoginAdmissionProofs`** (from `LoginAdmissionAssumption`): `LoginTypeCorrect`,
which contains the bound of the table, `BucketsConserve` (of the global bucket; a
source's starts full again once it was pruned), `SingleDerivation` and
`RetryAfterIsEnough`. A bucket's stamp only grows, and a refill adds at most the
rate times that growth (`RefillGains`). That the announced seconds are enough is
arithmetic about a quotient that is rounded up (`TokenRetrySuffices`), for each of
the reasons to refuse (`RefusalEnds`).

**`FailedLoginStatisticsProofs`** (from `FailedLoginStatisticsAssumption`):
`StatisticsTypeCorrect`, `StatisticsConserve`, `ClosedServiceIsEmpty` and
`MinutesInOrder`, from `StatisticsInvariance`. What is in memory, in hand, stored and
dropped is what was counted and what was repeated; without an uncertain commit it
is exactly what was counted. Conservation needs that a batch is
never taken while another is in hand (`HandsInv`) and that nobody puts one back
behind `closeAndFlush` (`CloseInv`). It speaks of sums over the buckets, which the
library's induction cannot reach; the first half of the module shows, by least
counterexamples over the finite subsets, that such a sum exists, is unique, does
not depend on the order, and moves by what one bucket moves.

**`ArchiveProofs`** (from `ArchiveAssumption`): `ArchiveTypeCorrect`,
`PublishedWhole`, `AnnouncedStays` and `RestoredOne`. That a restored generation
is one backup is a counting argument: staged secrets lie within the snapshot's
rows, none occurs twice, there are as many as rows; and checksums tie them to the
snapshot that was read with them.

`RowsUseActiveKey`, `ActiveVersionOnlyGrows`, `OneOfRivals` and the types above are
proved and therefore not repeated in a run.

Only model-checked is liveness (`StartEventuallyServes`, `RequestEnds`,
`CloseReturns`): the prover does not handle fairness. Every other property that a
run checks is a theorem.

## 6. Where the code and the documents disagree

One run of `PROJECT.json` expects a violation. The others below are stated in
the modules and reproduced with the configuration named:
`tlc -config <cfg> <module>` stops at the property. A configuration that lists
several stops at the first that fails; without its name it stops at the next.

| Property, configuration | The code | The documents |
|---|---|---|
| `SentRequestIsNotRepeated`, `MCRouterEngineSend` (run `router_send`) | `openaiadapter/adapter.go:89`: the hook sets `written` in the transport's goroutine after the last byte went out; a deadline in between makes `Do` return first and the next destination is tried | `docs/fases/fase-01-contratos-tecnicos.md:63`: "automatic fallback never equates “timeout” with “not processed.”" |
| `DeadlineEndsRequest`, `MCRouterEngineStall` (module `MCRouterEngine`) | `streaming/chat.go:279`, `httpserver/data.go:113`: no context interrupts a write to a client that stays and does not read, and `httpserver/server.go:148` sets no `WriteTimeout`; the request outlives its total timeout | `docs/fases/hito-04-plan-tecnico.md:37`: "Budgets are finite: total timeout, per-attempt timeout, maximum attempts and body size are checked before work and during execution." |
| `PublishedRoutesLoad`, `MCConfigGraphRouting` | `storage/config_batch.go:124`: a destination that only published versions name can be deleted; the route no longer loads | `docs/contratos/config/semantica-apply-v1alpha1.md:27`: "if references exist, it fails or requires removing them first in the same transaction" |
| `CurrentIsComplete`, `MCGenerationsPosix` | `storage/generation_restore.go:62`: `generations/` is not synced after the directory is created; without a metadata journal a power loss can leave `current` dangling | `docs/contratos/backup-mcb1.md:77`: "`data/current` points to a complete generation" |
| `RestoreRetainsAgentTokens`, `MCGenerationsRestored` | `storage/generation_restore.go:191`: sealing clears verifiers and revocations | `docs/contratos/backup-mcb1.md:93`: "Agent-token verifiers, expiration, and revocation are retained" |
| `RevocationIsIrreversible`, `MCGenerationsRestored` | the same line: a token revoked in the archive can be issued again | `docs/contratos/agent-token-lifecycle-v1.md:15`: "`enabled: false` irreversibly revokes that resource identity" |
| `RouteIsBornUsable`, `MCConfigGraphRepeat` | `config/validate.go:171` accepts a destination listed twice, `router/snapshot.go:120` refuses it | `docs/contratos/storage/resource-repositories-v1.md:36`: "so the route can never be born without a usable version" |
| `RoutesRunLastPublication`, `MCConfigGraphRouting` | `storage/repository.go:598`: a new route takes the highest version, not the one published last | `resource-repositories-v1.md:35`: "Publishing creates or reuses an immutable version and atomically moves associated routes" |
| `EnvelopeAgreesWithRevocation`, `MCConfigGraphRouting` | `storage/agent_token.go:163` leaves the envelope enabled | `resource-repositories-v1.md:43`: "The envelope can therefore never claim enabled while its typed row remains revoked." |
| `DocumentedOrderApplies`, `MCConfigGraphOrder` | `storage/config_batch.go:152` runs deletions last | the comment at `:69`: "Deletions are ordered from dependents to dependencies, followed by creates and updates." |
| `SingleUse`, `MCConfigPlansRollback` | `storage/generation_restore.go:409` empties the nonces; a plan without effect is accepted again (no effect is repeated: `PlansTakeEffectOnce`) | `semantica-apply-v1alpha1.md:90`: "A token is single-use, including for a no-op." |
| `RetryAfterIsHonoured`, `MCRequestRecordsRetryAfter` | `router/snapshot.go:199`: RFC3339Nano texts are compared; within its last second a cooldown may be seen as over (it holds to the second: `CooldownHoldsToTheSecond`) | `docs/contratos/matriz-fallos-router-v1.md:18`: "cooldown; honor valid `Retry-After`" |
| `CompletionIsNotRefused`, `MCRequestRecordsRefused` | `storage/operational.go:177`: a destination deleted meanwhile rolls the completion back | `docs/fases/hito-04-plan-tecnico.md:64`: "Persist the Request, Attempts and normalized observations" |
| `NoOlderBuckets`, `MCFailedLoginStatisticsClock` | `storage/failed_login_statistics.go:56`: after close the minute is used as read | `docs/contratos/admin-settings-v1.md:121`: "backwards clock changes do not create older buckets" |
| `ShutdownFlushes`, `MCFailedLoginStatisticsShutdown` | `httpserver/server.go:113`: nothing waits for the flush that shutdown starts | `admin-settings-v1.md:114`: "At shutdown flush remaining counts best-effort. A crash can lose the last unflushed minute" |
| `RejectionIsRetried`, `MCAdminSessionRetry` | `web/src/api/client.ts:39`: the console throws at the first rejection | `docs/contratos/admin-runtime-v1.md:42`: "on a CSRF rejection a client fetches `/session/me` and retries once." |
| `ReloadBreaksNoTab`, `MCAdminSessionReload` | `storage/admin_session.go:325`: the previous token is refused to a handler that read the clock before the rotation | `docs/contratos/sesiones-admin-v1.md:29`: "To avoid breaking another tab during a reload, the previous hash is accepted for at most 60 seconds." |

## 7. Not modelled

* Parsing, encoding and export of documents; validation of chat requests; the
  bytes of tar, JSON and age in an archive; password hashing: conversions without
  state.
* Redaction: a table of the secrets in use, counted per value under one lock
  (`redact/redact.go`), and the replacement of those values in texts. A model of
  the counts beside the store's readers is worth adding; the replacement itself is
  a conversion.
* Schema migration (`storage/migrate.go`): each pending script in a transaction of
  its own with its row in the ledger, before anything else uses the database. A
  crash between two leaves a prefix, from which the next start goes on.
* The size limits of an archive: `backupmcb1/mcb1.go:299` allows 64 MiB of secret
  records, while an installation may hold 4096 secrets of 16 KiB each, encoded.
* The cursor's encoding and the decoding of request bodies in the catalogue.
* That a read of a session is judged by the clock its handler read before it
  waited (`storage/admin_session.go:170`) is modelled; that it may extend a session
  which has meanwhile expired is what the code does and no document denies.
* Audit rows, usage counters, activity and overview queries: written or read
  beside the modelled state, never consulted by it.
* Saturation of a failed-login counter at 2^63-1, which no bound reaches.
* Windows variants of locks and links; `streaming/relay.go` and
  `Repository.Put`/`Delete`, which no code outside the tests calls.
* The console's pages, packaging and scripts.
* Requests left open by a crash stay open in the model as in the code; nothing
  reconciles them.
