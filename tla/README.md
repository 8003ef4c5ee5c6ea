# Verification of fdpneo-server

fdpneo-server is a FAIR Data Point: an asynchronous Python service that keeps
metadata records as RDF graphs in a triple store, decides who may read them with
ODRL offers, and keeps everything relational (audit trail, authorization index,
search rows, metrics, settings, update requests, API keys) in PostgreSQL. A host updater
outside the container applies update requests to the compose stack, and a command
line tool bootstraps, migrates, backs up and moves deployments.

The modules here model the parts whose correctness depends on the order of steps:
several awaits between a check and a write, graphs that are replaced one after the
other, two stores without a common transaction, caches next to the data they were
computed from, agents and commands that stop half-way. Everything is translated from the
code; paths below are relative to `src/fdpneo_server/` unless they start with `deploy/` or
`docs/`.

## Inventory

| component | state | operations | interacts with | hard behaviour | correct when |
|---|---|---|---|---|---|
| LDP handlers (`metadata/ldp/router.py`, `service.py`) | none of their own; each request keeps the graph it read for its ETag and for compensation | GET, PUT, POST, PATCH, DELETE | repository, containment, event bus, SHACL, PDP | no lock between the precondition and the write; a failing membership write is compensated | an ETag write loses nothing; a failed request leaves its record as it was |
| Metadata repository (`metadata/repository.py`, `meta.py`) | record, `meta` and audit graph of each IRI | `put_graph`, `delete_graph`, `set_metadata_state` | triple store adapter (one call per graph) | a write is two or three calls; the meta graph is read, changed and written back | the meta graph follows the life of its record |
| Containment (`metadata/containment.py`) | `ldp:contains` in the parents | `reconcile_create/update/delete` | repository | read-modify-write of the parent; move between parents | links of both directions agree |
| Publication lifecycle (`metadata/states.py`, `lifecycle.py`) | `fdp:metadataState` in the meta graph | transition | repository, audit | a content edit carries the state over | only granted transitions change a state |
| Read paths (`metadata/ldp/`, `extensions.py`, `instances.py`, `data/router.py`, `access/`) | none | GET, expanded records, pages, instances, distributions, SPARQL queries and updates | PDP, lifecycle, triple store | authorization, state gate and fetch are calls of their own | an answer holds what its caller was entitled to |
| Audit trail (`metadata/audit.py`, `shared/events.py`) | `audit_event` rows | append on each event | event bus | published after the store write | the rows replay to the records |
| Policy decision point (`policy/pdp.py`, `cache.py`, `runtime.py`, `resolver.py`) | `authz_index` rows: subject key, record, decision | `authorize`, `authorize_many`, `invalidate_all` | triple store (walk of `dct:isPartOf`), PostgreSQL | decision computed from several reads, committed later; invalidation commits first | a cached decision agrees with the offers |
| ODRL profile (`policy/parser.py`, `model.py`, `evaluator.py`) | none | parse, evaluate | administration, PDP | conflict strategies, moments, operands a key leaves out | a decision is one a policy in force gave |
| Policy and licence administration (`metadata/policies.py`, `licenses.py`) | policy and licence graphs | put, delete | PDP, records that name a document | reference check, drop and invalidation are three steps | no record names what is gone |
| Search index (`metadata/search/`) | `search_document` rows with `anon_read`; saved searches | upsert on events, rebuild; create, rename, share, delete | PDP, event bus | clear and refill; read-check-write of a saved search | flags as the PDP decides; no update undoes another |
| Update requests (`update_requests.py`), update checker (`updates.py`) | `update_request` rows; `release_check` row | request, cancel, next, claim, report; loop and forced check | GitHub, agent | select then insert; compare-and-set of the status; two servers on one row | one worker and one outcome per request; what is published is noticed |
| Host updater (`deploy/updater/fdpneo_updater.py`) | `.env` tags, containers, backup | validate, back up, set the tag, recreate, wait, roll back, report | update requests over HTTP, Docker, GitHub | crash between two steps, lost answers, migrations at container start | the outcome reported is what happened |
| Metrics (`metrics/`) | `metrics_raw`, `_hourly`, `_daily` | observe, roll up, read, re-key to a new base | event bus, loop, cron, backup | transactions that overlap and are repeated | each request shown once, raw rows discarded |
| Schema registry (`metadata/schemas.py`, `prof.py`, `schema_sync.py`, `shacl.py`) | schema graph, its meta, one snapshot per version, profile and its snapshot, compiled shapes | put, delete, provision, sync, validate | repository, triple store | several graphs per version; compiled shapes cached over awaits | a named version resolves, a cache is not stale |
| Profiles and resource definitions (`metadata/profiles/`, `main.py`) | graphs of a bundle, the marker row, the cache of definitions | apply, compensate, reset, migrate, put and delete definitions, publish | all of the above | one graph at a time; a start takes up what the last left | all or nothing; the cache shows the store |
| Backup and restore (`metadata/backup/`, `storage/postgres/state_backup.py`, `shared/write_freeze.py`) | jobs, directories, freeze count | dump, restore, verify, evict | both stores | writes admitted before the freeze; a restore over several calls | a dump is a state that existed; a restore is whole or refused |
| Import (`metadata/backup/import_fdp.py`, `prof_backfill.py`) | the records of another FDP | crawl, write, stamp, index | source over HTTP, repository | ends anywhere, is run again | an imported record is there whole |
| Identifiers (`metadata/pid/`, `metrics/rebase.py`) | graphs under a base; a redirect on GitHub | rebase, publish redirect | every graph, GitHub | writes during the move, overlapping runs | nothing is lost or left behind |
| Accounts (`identity/users.py`, `keycloak_admin.py`, `middleware.py`, `principal.py`, `api_keys.py`) | accounts, recorded roles, keys | create, update, delete, authenticate, mint, revoke | identity provider | guards count before they change; records are throttled | an administrator remains; keys act with current roles |
| Signing keys (`identity/jwks.py`) | a copy of the provider's keys | get | identity provider | refresh under a lock with rotations meanwhile | no withdrawn key is usable, no published one refused |
| Runtime settings (`metadata/settings.py`) | a row per key, a copy with a lifetime of 5 s | read, write, reset | everything | a read over an await and an invalidation | a new value is seen in time |
| Index announcements (`metadata/index_ping.py`, `index_targets.py`) | targets, statuses, last ping | weekly, on change, on demand | settings, HTTP | the throttle drops changes | a change is announced eventually |
| Labels (`metadata/labels.py`, `external_labels.py`) | two memory caches, a table, fetches under way | look up, fetch, keep | graph, hosts | remembered misses and late answers | the label of the graph wins, a miss heals |
| Request limits, shared kernel | a counter per address | check | middleware | none between awaits | not modelled |

`PROJECT.json` lists every component with its sources, its status and what of it is left out.

## Modules

| module | models | checked by |
|---|---|---|
| `MetadataRecords` | states and transitions (`states.py`), the successor of a meta graph (`meta.py: build_meta_graph`) | through `LdpService` |
| `PublicationLifecycle` | abstract: the life of one record's meta graph, each change one step | as `FollowsLifecycle` of `LdpService` |
| `LdpService` | the write handlers, repository, containment, transition, audit | `exclusive`, `services`, `LdpService_proofs` |
| `AuthzIndex` | PDP, its cache table and transactions, policy writes, access-mode switch, search flags | `access`, `services`, `stale_permit`, `stale_edit`, `Access_proofs` |
| `ManagedDocuments`, `DocumentBodies` | the ODRL profile, its evaluation and key, policies and licences with references and time | `access`, `policy_ttl`, `Access_proofs` |
| `ReadAccess` | every read path and the SPARQL endpoint | `access`, `Access_proofs` |
| `RuntimeSettings`, `SigningKeys`, `SavedSearches` | the cached reader, the cached key set, saved searches | `access`, `Access_proofs` |
| `Access` | composes the six above into one specification | `access`, `Access_proofs` |
| `ReleaseCheck`, `IndexAnnouncements`, `Labels` | what runs in the background | `services` |
| `HostUpdater` | update requests, agents, the stack, container start | `updater`, `HostUpdater_proofs` |
| `MetricsRollup` | observation, pipeline, both roll-ups, the dashboard's sum | `metrics`, `MetricsRollup_proofs` |
| `SchemaRegistry` | schema put, delete, sync, snapshots, profiles, the validator's cache, stamps, references | `schemas`, `SchemaRegistry_proofs` |
| `ProfileBootstrap` | apply with compensation, start, reset, migrations, definitions and their cache | `profiles`, `ProfileBootstrap_proofs` |
| `BackupRestore` | dumps, restores, jobs, the freeze, ordinary writes | `backups`, `Operations_proofs` |
| `Redirects`, `ReferenceImport`, `IdentifierRebase`, `MetricsRebase` | the one-off commands | `backups`, `Operations_proofs` |
| `Operations` | the jobs and the one-off commands, composed | `backups`, `Operations_proofs` |
| `Accounts` | accounts, sign-in, requests with tokens or keys, keys | `accounts`, `Accounts_proofs` |

`Access`, `MCServices` and `Operations` put several of them into one run. Their
components do not share state, so a behaviour is of one *part*, chosen at the start; the
others are at rest. The states of the run are the sum of the parts' states, not the product, and a
property is the conjunction of those of the parts. The twelve instanced modules state what their
constants must satisfy as a definition, which the composing module assumes.

### LdpService

`record`, `meta` and `audit` are the store: the graph, the meta graph and the audit rows
of every IRI. A graph is reduced to an abstract body, its `dct:isPartOf` and its
`ldp:contains`. A handler (`phase`, `req`, `seen`, `old`, `stamp`) runs the checks of its
method and then a `queue` of store calls; each call is one await of the code, so two
handlers interleave at every call. `undo` is the compensation the code would run
if link maintenance raised. `Raise` lets any call fail before or after its effect,
`Crash` forgets all handlers and keeps the store. `granted` is a history variable: the
states that admitted requests asked for.

### ReadAccess

One request, as requests that read change nothing: its kind, the caller, and the `Course` of
calls its path makes for each record (`authorize`, `published`, `curate`, `fetch`, in the order of that
path). Between any two calls a record may be published, withdrawn or deleted and a right given
or taken. `held` is what was true at some moment of the request; what is `shown` must be covered by it.
A query's dataset is computed in four calls (`Readable`, `Others`, `Curatable`, `Drafts`) before `Run`;
an update checks its targets and gets the dataset of what its caller may read. `asked` is what the parser lists, which is not
what the text does: `clause` says what it has of a dataset of its own (`FROM`, `USING`, `WITH`), `Answer` what the store may then read,
and `Changes` what an update may change, which with `WITH` is any graph. Only queries are refused on a store that does not isolate graphs (`Safe`).

### AuthzIndex

A process is a request, an event handler or a rebuild: it looks a decision up,
walks `dct:isPartOf` one graph per step, fetches the offer it ended at, holds the decision
in its open transaction (`pend`; a second insert of the same row waits) and commits. A
writer stores or drops a policy and clears the index in a later step. An offer is the set
of contexts that its rules permit. An edit of a record drops no row. `granted` records which permits any stored offer ever gave,
`outdated` the rows of records that an edit has put under another offer, `mixed` that one was edited while a decision was on its way.

### ManagedDocuments

The complement of `AuthzIndex`: a decision is one step, and an offer has rules. `Conforms` is
what `parse_offer` accepts, `Decision` the evaluation with its conflict strategies and kinds of
constraint (role, group, assignee, moment), `SubjectKey` what the index keeps of a caller. Puts parse
before they write; deletes check the references of records that are edited meanwhile. `DocumentBodies` is the menu
of bodies: windows of time, prohibitions, groups, a date without a zone, and nine ways to be out of the profile.

### HostUpdater

A version is its rank. The table `rows` is changed by transactions of the
server; `asking` is an administrator between the select of open rows and the insert. The
stack is `env` (tags), `image` (containers), `serving` and `schema`. An agent's `pc` follows
`handle()` of the agent; its history registers say what it found before it began. Faults: a lost
answer, a failing step, a crash of the agent or the server. `shared` records that two agents ever had requests at once.

### MetricsRollup and MetricsRebase

Time is counted in hours, a day has `HoursPerDay` of them, and dimensions are one value, so
a bucket is a row. A pass is two transactions in READ COMMITTED: statements read what
is committed, writes are pending until the commit, and a statement that meets another
pass's pending row waits. `MetricsRebase` is the one transaction that re-keys the three tables, statement
by statement, beside requests and the first roll-up.

### SchemaRegistry

`shape` and `meta` are the stable graph of a schema and the version in its meta graph; `snap`, `prof`
and `profSnap` the graphs `schemas/<s>/<v>`, `profiles/<s>` and `profiles/<s>/<v>`; `typed` the schemas that
resource definitions refer to; `cache` the validator's closures with the bodies they were built from. A
shape is a body, of which only the schemas it composes matter. A process is one request of the server, or one
schema in a run of the sync command, which has a validator of its own. Its `pc` is the
store call it is about to make: a put goes `replace`, `prior`, `meta`, `version`, `snapshot`,
`profile`, `profsnap`, `invalidate`, `load`; a record write goes `validate` (`load`), `conform`, and either
`stamp` or the provisioning on demand, then `stamp`. `Fail` lets any call raise, `Restart` drops the server's
requests and its cache. The history variables state the exceptions exactly: `torn` (a write of the schema was
overlapped or broken off, and no whole write came since), `setBack` (a write lowered its version number), `missed` (its
shape was replaced while a load was in flight, by a sync, or by a write that ended before its invalidation), `deleted`.

### ProfileBootstrap

A graph's content is the number of the bundle it is from, or a number of an administrator's own. A process
is the server's start (apply, backfill, publish, migrate the vocabulary, rebuild, serve), a command (`Apply`,
`MigrateVocabulary`, `MigrateNamespace`, `MigrateModular`), a factory reset, or a request that puts or deletes a definition;
each goes from call to call, and any call may raise or be the last before a crash. The marker row `applied` is
written last; `n` counts the graphs that compensation would drop. A walk over graphs takes them in an order nobody
promises (`First`, of a set), and a relocation passes over a schema that is not there. `spoiled`, `alone` and `behind` record
what excuses a property: processes that overlapped, a commit that took effect and raised, a cache that something
other than a rebuild on its own decided, a start with `auto_apply` off among them.

### BackupRestore

A graph's content is the number of the write it is from, and the state tables hold a row for each write; derived
tables hold the content they were computed from. A process is a job of the admin API or a command: a dump freezes, rolls up,
copies graphs and rows, seals and verifies; a restore reads, checks, freezes, truncates, migrates, loads, replaces graphs and
rebuilds. `holders` is the freeze's count. Ordinary writes are admitted while it is zero and end later.
`MCBackupRestore` offers full and partial archives, older revisions, foreign bases, damaged parts,
a wrong passphrase, a dry run, a merge.

### Accounts

`account` is the identity provider's; tokens carry the role of their moment. A call is a
request of the server: it presents a token or key, is given a context, records the role (throttled), and then may
mint or revoke a key or change an account through the users facade, whose guards, role and status changes are
provider calls of their own. The console edits accounts past the facade. `raced` and its like say which
overlaps excuse a property.

### The smaller modules

`RuntimeSettings`: the row and one copy per server with an age; a call that fetched holds its value over the notify of a write.
`SigningKeys`: lock, double check, fetch, second fetch, against rotations that happen while a response travels.
`SavedSearches`: the check of the owner and the change are two transactions, the second with the session's
assign-then-flush of changed columns only.
`ReleaseCheck`: the loops of two servers and forced checks on one row, with ETags: an unchanged list keeps what is saved.
`IndexAnnouncements`: loop, throttled change ping and ping on demand under one lock, targets from settings and environment.
`Labels`: hot cache, inline map, table and background fetch, each with the expiry it has.
`Redirects`: fork, branch, two files, pull request; two runs with different targets and a maintainer who merges at any time.
`ReferenceImport`: the crawl queue with its limit, the graph and then the meta graph of each record, the backfill's read-modify-write.
`IdentifierRebase`: copy, rewrite, replace, drop for each graph, beside client writes under the old name and, after the restart, the new one.

## Runs

| run | question | bounds, and why they are enough |
|---|---|---|
| `exclusive` | are links, ETag writes, audit trail and provenance right when no two requests touch one record? | three records (root, catalog, dataset: a child with two possible parents), three requests, two raising calls (the second may hit the compensation), one restart: create, move, delete in any order |
| `access` | who is shown or permitted what, and does what is cached or kept of it agree with its source? | two decisions beside two changes of the policy (its permits are taken back, or it goes), a record (which gives up its rights for those of its catalog) or the mode; a request of every path, on a store that isolates graphs or does not, over two records, one part of the other or each of the other, beside one change; two readers on one of two servers, two writes; two writers with two writes of fourteen policy bodies over three moments; three rotations of two keys; two requests on a saved search. Every property needs one actor between two steps of another, or a value older than one write |
| `services` | what is left of the lifecycle when record requests overlap at every await; does every decision end, is every release noticed, every index told, every label healed? | two handlers, two requests, one raising call, which is each pair of methods and each point of failure; a dataset and its catalog with two changes, of which an edit makes them part of each other; two servers, one release, one change of the switch; two targets, two changes; two lookups, two changes of sources; one raising call or restart each |
| `updater` | is a request worked on once, is the outcome true, do only eligible releases run, is a request taken? | two agents, two administrators, three releases of which one migrates and one is withdrawn, two requests, one fault; deadlock is checked |
| `metrics` | is each request shown once, is each raw row discarded? | two requests, two days of two hours and the next hour, two passes, one rollback: a row may come after its day was folded |
| `schemas` | do versions, profiles, stamps, cached closures and references agree, whatever interleaves or fails? | two processes, three requests, one fault; two schemas, one seeded without a profile, the other new; bodies that compose each other or nothing |
| `profiles` | is a profile whole or absent, the definitions' cache current, a migration lossless, and is the server up again? | four bundles (the configured one, one with another root, one with two roots, one with a refused seed), two events among commands, requests, raising calls, crashes, from an empty, an applied and an older store |
| `backups` | is the freeze held by whom it should, a dump one state, a restore whole or refused; do the one-off commands keep every identifier? | two jobs, a registry of one, one write, three events; the commands with two runs, one failure, one or two edits: a rerun after a broken run, an overlap of two |
| `accounts` | is an administrator left, do keys act with current roles, is the limit kept? | two people, two requests at a time; four instances: two administrators, an account being created, one person with one key, and with two |
| `stale_permit` | *violation*: a decision that commits after the invalidation | one decision, one policy write |
| `stale_edit` | *violation*: a decision that was cached before its record got other rights | one process, one edit, nothing overlaps |
| `policy_ttl` | *violation*: a permit of a time window that is over | two readers, two moments |

Deadlock is checked in `updater`. The other systems come to rest when the bounded
requests, writes or hours are used up, so their configurations turn the check off. Every bound is named in the
`CONSTANTS` of its module. Each property has a mutant in `PROJECT.json`: a variant of one definition, kept next
to it in the module, under which the property fails in its run.

The properties by run:

* `exclusive`: `LinksAgree`, `AuditReplays` (until something fails), `CompensationRestores`, `NoLostUpdate`, and
  `FollowsLifecycle`, the refinement of `PublicationLifecycle`.
* `access`: `IndexCoherent`, `PermitsWereGranted`, `ReadsEntitled`, `CopiesCurrent` (settings and signing keys),
  `ManagedKept` (policies, licences and saved searches).
* `services`: `StateGranted`, `EveryDecisionEnds`, `NewsSpreads` (releases, indexes), `LabelsConverge`.
* `updater`: `OutcomeTrue`, `ClaimedOnce`, `OnlyEligibleReleases`, `RequestsAreTaken`.
* `metrics`: `CountsTrue`, `RawDiscarded`.
* `schemas`: `ArtifactsResolve`, `ProfileCurrent`, `StampsTrue`, `CacheCoherent`, `TypesResolve`, `SnapshotsImmutable`.
* `profiles`: `AllOrNothing`, `CacheCurrent`, `MigrationKeeps`, `Served`.
* `backups`: `FreezeMatches`, `DirectoriesOwned`, `DumpsConsistent`, `RestoreAllOrNothing`, and `IdentifiersKept`
  (redirects, import, rebase of graphs and of metrics).
* `accounts`: `AdminRemains`, `RecordCurrent`, `KeyLimit`, `RolesSettle`.

Several of them hold only where nothing overlaps, because the code has no lock there. The history variables that excuse
an overlap (`torn`, `setBack`, `missed`, `spoiled`, `behind`, `raced`, `lapsed`, `overminted`, `shared`, `late`, `mixed`, `outdated`, `unscoped`) are set by the smallest
event that breaks the property and reset by the event that repairs it, if there is one; the observations below say what
happens in the excused cases.

### Fairness

* `AuthzIndex!Fairness`: weak fairness of each process's step and of what a policy write has begun; strong fairness of `Decide`,
  because a decision that waits for a row of another transaction is enabled again and
  again but not continuously (PostgreSQL wakes the waiter when the other one ends).
* `HostUpdater!FairSpec`: only the agents' steps (`run_forever` catches everything). That the server comes back to serve
  is an antecedent inside `RequestsAreTaken`.
* `MetricsRollup!FairSpec`: the clock goes on, and each pass starts again and goes on.
* `ProfileBootstrap!FairSpec`: the start goes on and is repeated (`restart: unless-stopped` in the compose file).
* `Accounts!FairSpec`: requests go on, people whose account allows it sign in and present a token of their
  current role, older tokens expire, the throttle's interval passes. Presenting is strongly fair: it waits for a free place among the requests.
* `ReleaseCheck!Fairness`: loops, checks and clocks go on; loading and a fetch that succeeds are strongly fair: GitHub
  answers again and again.
* `IndexAnnouncements!Fairness`: the loop wakes after its interval and every caller goes on; taking the lock is strongly fair
  (`asyncio.Lock` is first in, first out).
* `Labels!Fairness`: people ask, calls go on, entries expire; an answer of the host is strongly fair.
* `ManagedDocuments!FairSpec` (`policy_ttl`): time passes, people ask again, a delete or an invalidation that has begun ends.
* `LdpService`, `SchemaRegistry` and the one-off commands assume none: a handler has no loop, lock or wait, so that it ends is not a question.

In `services` the fairness of a part stands in its property (`part = ... /\ Fairness => ...`), as behaviours of another part do
not satisfy it.

## Proofs

Eight modules hold 42 theorems, for any sets of handlers, records, agents, people, jobs, schemas, bundles, any bounds and any fault,
under the named assumption of the module they are about (shapes of the constants, a consistent start). Where a theorem needs
more, its statement says so and the reason is below. Every inductive invariant was checked by TLC on the instance
of its run before it was proved.

`LdpService_proofs`: `TypeCorrect`, `StatesAreGranted` (`Spec => []StateGranted`), `InvariantHolds` for any overlap, and,
under `Exclusive` (clients do not overlap requests on one record), `UpdatesNotLost` (`NoLostUpdate`), `CompensationsRestore`,
`RecordsFollowLifecycle` (the refinement of `PublicationLifecycle`).
`StateGranted` is not inductive: a handler may hold, in a store call not yet run or in its
compensation, a meta graph computed long ago. `IInv` adds that every pending call
carries a granted state (`QueuesGranted`, over both `queue` and `undo`), that the registers fit
the phase (`RegistersMatch`), and `TypeOK`. Granted pairs are never withdrawn, so a call that is granted stays so
whatever others do; there is one lemma per helper that builds calls and one step per action. The other three rest on `XInv`:
each handler has the records of its request to itself, what it read of them still holds when it writes, and its queue is what
its method has left at that point. A compensation then writes back what is remembered, and each store call is one step of the life of
one record or a stutter. All three hold whatever raises and whenever the process restarts.

The module also has `AuditAlwaysReplays` (`AuditReplays`) and `LinksAlwaysAgree` (`LinksAgree`), both under `Exclusive` and until a
call raises or the process stops. `AInv` says of a handler which rows its request still owes for its own record, and that
the rows of all other records replay to whether these exist; an event is published after the write, so at that moment the two
disagree by exactly the row that is owed. `KInv` says the same of links: the parent and the members disagree by the containment
calls that are still queued. Its theorem has two more hypotheses. A PATCH keeps `dct:isPartOf`, because the PATCH handler of
the code reconciles nothing (an observation below), and the links of the seed agree.

`Access_proofs` is about the composition `Access`: an inductive invariant for each of its six parts, and a lemma (`EachPart`) that
every step of `AccessNext` is a step of one part and leaves the others as they are. Apart from the decisions no hypothesis is needed
beyond `AccessAssumption`.

*Decisions*: `PermitsWereAlwaysGranted` (`PermitsWereGranted`) and `IndexAlwaysCoherent` (`IndexCoherent`), and `AlwaysDecided`, both for
`AccessSpec`. The invariant has what
the store keeps (`StoreInv`), what a process has computed and not committed (`PendInv`), how far its walk has come (`WalkInv`), what
a row of the table says (`RowInv`), and what holds while nothing overlapped (`CalmInv`: every pending decision, and every row that is not
`outdated`, is what the current links and offers give). One hypothesis is named, `KeyTells`: no offer treats two contexts of one subject key
differently; the key has the subject and the roles only, and the observations say what happens otherwise. Records may be edited
at any time. The first theorem then holds until a record is edited while a decision is on its way (`mixed`), because a walk
over links that are edited meanwhile may put two versions of the hierarchy together; the second excuses the rows that an edit outdates, because
they stay (the finding `stale_edit`). The hierarchy may be any, cyclic ones included. The offer in effect is a recursive function over the records already visited; that it exists and
obeys its equation is proved by least rank, which needs the set of records to be finite.

*Reads*: `AlwaysEntitled` (`ReadsEntitled`). What the caller was permitted, or the record was, at the moment of a check stays in `held`,
whatever changes later (`Remembers`). `CourseInv` says which calls a path may have left and what those made already established:
past `authorize` the right to read, before the last fetch of a container everything; `QueryInv` the same of the scope of a query and of
its candidates, and `UpdateInv` of the targets of an update. Both speak of a text that is confined to the dataset it is sent with;
`ReadsEntitled` says nothing of the content that other texts reach, nor of what an update with `WITH` changes beside
the graphs its parser lists (observations). Of those it lists, every update changes only what its caller was permitted to modify. Records may be any number and their hierarchy need not be acyclic.

*Copies*: `CopiesAlwaysCurrent` (`CopiesCurrent`). Of a setting, `SettingAges` bounds by the age of a copy, and of a value fetched and not
yet stored, how long ago that value was in force; `SettingKnown` says that on a server no write passed by, both are the value in
force. Of the signing keys, `KeyAges` says of a response under way what the property says of the copy, with the time it has
travelled, and `KeyServed` that a call
whose key was published all the time has it in the response it got and in the copy it looks at; that this copy is of its own
response rests on the lock (`KeyLock`: at most one call is between fetch and release).

*What is managed*: `AlwaysKept` (`ManagedKept`). `DecisionsGiven` says that a cached row is in `granted`, the outcomes that
policies in force gave since the last clearing; `ReferencesLate` that a document about to be dropped is named only by records
that began to after the check. `SearchSeen` says that an update between load and flush knows each column it assigns as it
is, unless another request assigned that column meanwhile; a deleted search stays gone because its id is never made again (`SearchMade`).

`SchemaRegistry_proofs`: `TypeCorrect`, `ArtifactsAlwaysResolve`, `CacheAlwaysCoherent`, `InvariantHolds`, and on a second
invariant `SchemasSound`: `ProfileAlwaysCurrent`, `StampsAlwaysTrue`, `TypesAlwaysResolve`, `SnapshotsNeverChange`. These are all the
properties of the run `schemas`, with no hypothesis on overlaps or faults.
`ArtifactsResolve` needs `RegistersFit`: a process at the profile steps holds a version whose snapshot is
stored, one at the snapshot step a version other than 0 and a shape; snapshots are never removed. `CacheCoherent`
needs `LoadsFresh`: what a load has fetched so far agrees with the store or is on record as missed, and a sync is never at a
step of the server's validator. The case that makes it true is `ChangeStaysFresh`: the shape changes, and every
closure with it is either going to be dropped by the same write, or the shape is recorded. `SchemasSound` says, of a schema that is
not torn, that at most one process writes it, what this process has already stored and what it is about to store, and that
versions above the current one are unused unless the number was set back; a validation in flight holds a
snapshot that is the shape it conforms to.

`HostUpdater_proofs`: `TypeCorrect`, `NoTwoClaims` (`ClaimedOnce`), `OutcomeAlwaysTrue` (`OutcomeTrue`),
`ReplacedOnlyByEligible` (`OnlyEligibleReleases`, where client images are labelled). The first two rest on `Shape`, which
is inductive with any number of agents: besides types, no request an agent works on is pending (`ClaimsHeld`), an agent that
may roll back knows the tag to go back to (`Restorable`), one that reports has an outcome (`Reported`). The other two
speak of behaviours in which no two agents have requests at once; `IInv` adds that at most one agent is in `handle()`
(`Alone`) and ties its registers to the stack at each of its steps: what the poll told it runs (`ToldTrue`), the release
it is about to set is eligible from what runs (`StillEligible`), tag and container are the old or the new ones (`StackFits`), the
backup is of the revision before (`BackupFits`), and an outcome is what became of the stack (`Reporting`). `ServesRevision`, that a
server that answers has migrated to its own revision, links the database to the container.

`Accounts_proofs`: `TypeCorrect`, `RecordAlwaysCurrent` (`RecordCurrent`), `AdminAlwaysRemains` (`AdminRemains`),
`KeyLimitHolds` (`KeyLimit`). `IInv` has a part for each: `RecordInv` follows the only request of a person from the accepted token
to the record it makes, and says what the throttle may have noted; `AdminInv` follows a change of accounts: one is under way, its actor is an
enabled administrator, who takes nothing from the own account, and what is written back to it is what it holds; `KeyInv` follows a
mint: between count and insert there is room for it. Failing calls and restarts keep all three.

`Operations_proofs`, of the jobs: `FreezeAlwaysMatches` (`FreezeMatches`), `DirectoriesAlwaysOwned` (`DirectoriesOwned`), `DumpsAlwaysConsistent`
(`DumpsConsistent`), `RestoresAllOrNothing` (`RestoreAllOrNothing`). The freeze is a counter and its holders are processes, so the first
proof is about a cardinality: `holders` is the number of processes at a step that holds the freeze. Every action moves one process,
which changes the number by at most one (lemmas on the set of holders with one process changed), and the restart of the server
ends all its jobs while commands, which are other programs, never hold the freeze. `FInv` adds the shape of a process
(`Shaped`) and that only a restore gets to the step that takes the freeze (`OpensArchive`). The set of jobs is finite.
`DInv` orders the jobs of the registry: each has its place once, the eviction takes the oldest finished ones, and a directory
that is there belongs to a job the registry shows or to one that still runs. `CInv` follows a copy: which graphs and rows are saved or
restored at each step (`DumpStage`, `RestoreStage`, with a part each for the graphs, the rows, the revision and the verified archive),
and that a process nobody interfered with is alone: no write is admitted and no other copy has begun (`Quiet`). A dump then has one
state, as the stores have not changed since its first call, and a restore has done to each store what its steps so far do. Both conclusions are for
full and partial archives, any options, and any number of jobs. `JobsAsByThemselves` carries all four to `OperationsSpec`, of which
each step is a step of `BackupRestore` or leaves its state as it is.

Of the one-off commands: `IdentifiersAlwaysKept` (`IdentifiersKept`), for `OperationsSpec`, any records, invocations, trees and
bounds. Each of the four has its own invariant, since none of their properties is inductive. `RedirectInv` follows the files of a
run that is alone from the sync of the branch to the pull request (`Undisturbed`); once a publication is told, no run is between
the sync and its end (`Pushing`), so the branch stays as it was told until the next sync. `ImportInv` says that what the crawl has
come across is what it has imported, has skipped, has at hand or has queued (`CrawlStage`), so that an empty queue means a whole
source unless the limit cut it (`CrawlOver`), and which of the imported records the backfill has still to stamp (`StampStage`);
the limit is on a cardinality, hence the source's records are a finite set. `RebaseInv` says that a record is under one base or
the other at every moment (`Somewhere`), that what the new base holds when the old graph is about to be dropped is what was copied
or the last write (`Copied`), and what is left to move (`StillToMove`), as long as nobody wrote since the listing. `RekeyInv` says
that the sum of both prefixes is what was recorded unless the roll-up raced (`Rewrote`: also of the rows written and not
committed), and which aggregates a run is past (`Passed`). `EachPart` says again that a step is of one part.
`OperationsAssumption` has the shapes of the constants, with `Nil` none of the values it stands beside.

`MetricsRollup_proofs`: `CountsAlwaysTrue` (`CountsTrue`). `MInv` says that there is a set of requests the rows of days stand for;
the rows of hours stand for the other rolled-up requests, the raw rows for the rest (`Tables`), each exactly where nothing raced with the
day, and for no more than those anywhere. A pass has pending what it will move: the increments are
the counts of the raw rows it will delete (`RawStage`), the sums those of the hours it will drop (`FoldStage`); a folded day has
nothing else (`FoldedWhole`). The set changes only when days are committed, to what the
sums were taken over. The hypothesis `KeepDays # 0` is that hourly rows are kept for a day at least: the setting has no lower bound
(`config.py:151`), and with 0 the day under way is folded while rows still come. Passes may be any number, but the theorem speaks only of those that
take turns, and the clock passes from an hour to the next at most once during a pass, as the model has it (`Tick`). The sum over the hours of a day is a
fold; that it exists and splits is proved by induction on the size of the set, without an operator parameter.

`ProfileBootstrap_proofs`: `TypeCorrect`, `AlwaysAllOrNothing` (`AllOrNothing`), `CacheAlwaysCurrent` (`CacheCurrent`),
`MigrationsKeep` (`MigrationKeeps`), for any bundles, names, renamings and requests, each call of which may overlap with any other,
raise or be the last. `TInv` says which calls an operation makes and what the process holds at each: it is never past the end of
its order, and walks over names there are. `IInv` adds who is alone (`Apart`, `Unmixed`) and that what a process
that is alone has seen still holds (`Stage`: the graphs it has put are there, the graph it moves is still under the older name until
the newer one is written, the definitions it has read are the store's, the schema it asked for is there). Migrations follow from `IInv`.
For `AllOrNothing`, `AInv` says of a store with no row that every graph in it is one that some process still has to record or to drop (`Owes`),
and of a store with a row that the bundle is whole and nobody compensates. For `CacheCurrent`, `CInv` follows the server's start from its reading to its
publication (`Booting`), says that no request is in a compensation, and that a server that serves is up to date unless a request has yet to rebuild
(`Serving`). The assumption on the constants: documents, definitions, older and newer names are
apart, as the namespaces of the code are, and the bundle of the installation is valid.

Only model-checked: liveness (`Served` and the others), because the prover has no support for fairness of parameterised actions and
`ENABLED`.

## Findings

* `stale_permit` (`AlwaysCoherent`): a decision evaluated under the old offer commits after the policy
  write has cleared the index; nothing drops that row until the next policy write. `docs/architecture/README.md:403` promises
  a synchronous invalidation on the policy write.
* `stale_edit` (`EditsInvalidate`): a decision is cached, then the record's `dct:rights` is written, one after the other; the row of the
  old policy is answered from until the next policy write or mode switch. `docs/architecture/README.md:397` says that the index is
  "invalidated when [...] a record's policy reference changes", and `policy/pdp.py:29` names `invalidate_resource`, "called by the metadata module
  on policy / `dct:rights` writes", which does not exist; only `metadata/policies.py:142`, `:169` and the rebuild (`main.py:1266`, `:1316`) invalidate.
* `policy_ttl` (`StaleExpires`): a cached permit outlives the time window of its policy, since a row of the index has no
  expiry. `docs/architecture/README.md:397` promises a short TTL.

### Observations

These were met while modelling. They are not among the runs, which are kept to one per
question; where one breaks a property, the property excuses it by a history variable.

Records:

* `put_graph` reads the meta graph, builds the next one and writes it back whole: a transition that lands
  in between is undone by the content edit (`metadata/repository.py:190`), where ADR-0010 says that only the
  transition API changes a state.
* Two PUTs with one ETag that overlap both succeed (`metadata/ldp/router.py:489`); overlapping PUT and DELETE may leave a
  record without a meta graph (`metadata/repository.py:172`); overlapping POSTs with one Slug both write
  (`metadata/ldp/router.py:573`).
* A PATCH that changes `dct:isPartOf` leaves `ldp:contains` on the old parent (`metadata/ldp/router.py:650`); a POST body
  without `dct:isPartOf` leaves the member out of its container (`metadata/containment.py:65`).
* Link maintenance may re-create a parent deleted in between, or lose a link when the parent is
  edited at the same time (`metadata/containment.py:133`).
* The compensation of a failed DELETE restores the content, not the creation stamp, version and state
  (`metadata/ldp/router.py:686`).

Decisions and reads:

* The `anon_read` flag of an edited record is set from the cached decision (`metadata/search/indexer.py:128`). The subject key has roles, but no groups and no
  time (`policy/cache.py:71`). A failed `invalidate_all` leaves the old decisions.
* The rebuild after a switch to open mode decides with the ODRL engine (`metadata/search/reindex.py:47`).
* The parser accepts an `xsd:dateTime` without a zone, and comparing it raises `TypeError` (`policy/model.py` says "timezone-aware UTC").
* GET fetches before the state gate, the expanded view and the page gate before they fetch: either may show content of
  another moment than the one that was checked.
* A query or an update whose scope is empty is sent without a dataset, where ADR-0004 says "the engine sees only
  the authorized graphs"; `ReadsEntitled` excuses it (`unscoped`).
* Of an update with `WITH` the parser lists the graph of that clause alone (`access/parser.py:250`), also where the templates name others:
  `docs/architecture/README.md:383` says of "explicit `WITH <graph>` or `GRAPH <uri>` blocks" that "the targets are validated against the authorized modify
  set". A `USING` or `WITH` of the text stands beside the dataset that is sent with it, which the store may refuse or
  give up for the text's own; and an update over several graphs is sent also to a store that failed the isolation self-test, where
  queries are refused (`access/router.py:159`). `Run` has all three; `ReadsEntitled` leaves them out.
* The totals of instances and pages ignore visibility; the dashboard's own lists ask no policy.
* An update of a saved search that overlaps its delete ends in a failed assertion or does nothing.

Updates and metrics:

* Two administrators may both get an update request (`update_requests.py:190`). With two agents an older one may
  downgrade the server. Without labelled client images eligibility rests on what the administrator's page said.
* The agent compares revisions once; a migration that commits afterwards is rolled back onto, and an agent
  that cannot read the revision takes that as unchanged (`deploy/updater/fdpneo_updater.py:327`, `:579`). A report
  that finds no server is given up and its row stays claimed (`:396`).
* A release whose metadata could not be read once is not retried, as the list is unchanged (304); a check of another server that fails
  saves the older payload until the next check.
* The roll-up of a full backup that overlaps the loop's counts rows twice (`metrics/aggregation.py:74`); a
  row that comes after its day was folded replaces the day (`metrics/repository.py:467`); with `KeepDays` 0 counts are lost.
* The metrics rebase matches by plain prefix; its sums read before a concurrent roll-up commits lose its increments; a rename that
  collides with a row the roll-up inserted rolls the whole run back.

Schemas and profiles:

* A shape that is replaced while a load has already fetched it is cached in its old form until the
  next write of it (`metadata/shacl.py:196`). The sync command invalidates the validator of its own process: the
  server validates with the old shape until it restarts (`cli.py:597`).
* Overlapping puts of one schema write the same version, and so the same snapshot; provisioning on demand
  during a put may wrap the new shape under the old version, or turn the profile back to it
  (`metadata/schemas.py:164`, `metadata/prof.py:141`).
* A schema that is deleted and published again starts at version 1, over the snapshots of its first life,
  which ADR-0019 calls immutable (`metadata/schemas.py:240`). An overlapped put that read an older version sets the number back; the
  puts that follow give the same versions out again, over the snapshots that have them. A put broken off between the two graphs of
  `provision_profile` leaves records stamped with a profile version that has no graph (`metadata/prof.py:106`).
* A type registered between the reference check and the drop of a delete refers to a schema without a shape
  (`metadata/schemas.py:249`). The sync's discovery also finds version snapshots (`metadata/schema_sync.py:175`).
* A forced apply or reset that dies between the drop of all graphs and the clearing of the row leaves "applied" with an
  empty store; a commit that took effect but raised leaves the row without graphs; a put that raised after it wrote is not
  compensated. `apply --force` wipes before it validates.
* A crash between the vocabulary migration and the reindex, or between the marker and the backfill, is not taken up by the
  next start; commands never tell the server's cache; definitions left by an aborted apply are not in the cache until a restart;
  of overlapping requests for definitions the older rebuild may be published last.
* With `auto_apply` off, the default, the server never builds its cache of definitions at its start (`main.py:1056`): after a
  restart it has none until an administrator puts or deletes one.
* The start publishes definitions before it migrates the vocabulary (`main.py:509`–`554`), so the first start after an upgrade
  serves what the older terms gave.

Backup, import, identifiers:

* A full restore truncates the state tables before the checksums are verified for all parts; `restore_audit` never verifies the checksum
  of the audit file. Overwriting keeps graphs that are not in the archive.
* Writes admitted before the freeze are not awaited, and only full jobs of the admin API hold it. Eviction removes the
  directory of a job that still runs. A restore of the store's scope leaves cached decisions, and a reader may cache one again between the truncation
  and the replacement of the graphs.
* The import reports `truncated` also when only visited duplicates are left; a rerun overwrites local edits of imported records; the
  backfill's read-modify-write loses a client edit made in between.
* The rebase of graphs leaves old terms in internal `urn:` graphs; a record written at the new place before a rerun is
  overwritten; an edit between copy and drop is lost.
* Publishing the redirect again when it is merged already is refused by GitHub; overlapping runs reset each other's
  branch, and maintainers may merge a half-written one.

Accounts, caches:

* The last-administrator guard counts disabled administrators (ADR-0013); two administrators who demote each
  other both pass. A PATCH of the profile writes `enabled` back as it was read. Deleting a user leaves keys and record. A creation that
  fails between account and role leaves a user without a role.
* A mint authenticated by a key writes its context's older role back (`identity/api_keys.py:289` says otherwise). The throttle notes a
  record before it is made, so the failed record of a changed role is not made again for 300 s (ADR-0011); an older unexpired token records older roles.
* Expired keys count toward the limit; overlapping mints exceed it.
* A settings read that fetched before a commit stores the old value after the notification, until the copy expires.
* On-change pings that come together each ping (`metadata/index_ping.py:19` says throttled); the loop ends when a provider raises;
  statuses may be recorded out of order; a change in the quiet interval waits for the weekly loop.
* A label fetch under way overwrites a graph label in the hot cache for up to an hour; inline and negative entries stay
  3600 s where 300 s is stated; a negative entry in memory outlives its time in the table.

## Plan

What the next work would take up, in this order:

1. Abstract specifications for the life of an update request and for a decision as one step, refined by `HostUpdater` and by `AuthzIndex`
   where writes run alone.
2. Larger instances: three processes in `schemas`, two roots with children in `profiles`, three jobs in `backups`.
3. The membership backfill of the command line beside clients, and the dimensions of a metrics row.

## Not modelled

Left out for good: HTTP parsing and rendering (negotiation, signposting, OpenAPI, error
envelopes), logging, the RDF and SHACL libraries, the triple stores and PostgreSQL beyond what the
callers rely on (a call is atomic; READ COMMITTED with row locks), the identity provider, GitHub, Docker and the hosts of labels beyond
their answers, the streaming of distributions, search ranking and facets, geography and visitors' hashes in the metrics, and
the client. The request limits are a counter that is updated between awaits, and the shared kernel consists of pure
functions: their tests reach what they do. The commands of `cli.py` that only read or print, and the wiring in `main.py` and
`config.py`, have no state of their own. `PROJECT.json` lists every part with its reason. Within the modelled parts: request bodies are
abstract values, the authorization of a write is a choice of the environment where it is not the subject, and
cancelled requests are failures.
