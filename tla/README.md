# A TLA+ model of Patchouli

Patchouli is a memory service for agents: versioned entities in scopes, read,
retrieved and mutated over JSON-RPC, with configurable conflict strategies,
batched work units, keyed idempotency and resumable change subscriptions. This
directory holds TLA+ modules translated from its source, the TLC
configurations that check them on small instances, and TLAPS proofs that hold
for every instance. `PROJECT.json` lists the components, the runs, the source
lines behind each definition, a mutant for each checked property, the hazards
and the findings.

    tlc -config EngineRequests.cfg MCEngine      # a run
    tlapm SqliteProviderProofs.tla               # a proof

## 1. The system

A request travels: TypeScript plugin (`src/service.ts`, `src/memory.ts`) →
socket → server (`crates/server`) → backend engine (`crates/backend`) →
`Provider` trait (`crates/provider`) → router (`crates/provider-router`) →
SQLite (`crates/provider-sqlite`), directly or through the HTTP transport of a
storage node (`crates/provider-remote`).

| Part | State | Operations | What is hard |
|---|---|---|---|
| Provider contract | – | the operations of the trait and their outcomes | which outcome leaves what behind |
| SQLite: entities, units, idempotency | versions, heads, head history, changes, units, captured baselines, staged heads, two idempotency tables | read and commit, immediate or in a unit; publish; sweep; read an identity | several tables in one publication; expiry in the middle of a unit; deadline at the commit; records that move between tables |
| SQLite: change log | changes, retention mark and frontier per scope, watch channel | `read_changes` (which prunes), `wait_for_changes`, the signal | pruning under a reader; mark and deletion as two statements; a commit between check and wait |
| Engine: mutations | nothing but locks; a request carries heads and versions across awaits | create, update, delete | stale reads, several engine processes, retries, drift and its resolution, deadlines, crashes |
| Engine: execution locks | a map of weak references to mutexes | acquire, drop | two mutexes for one key, deadlock, cancellation |
| Engine: subscriptions | cursor and page of each stream | subscribe, stream | gaps, expired cursors, lost wakeups |
| Engine: reads and retrieval | session and causal frontiers (in SQLite) | read, retrieve, page | monotonic reads, page cursors over a changing index |
| Conflict resolution | – (algorithm) | merge rules, grouping, CRDT documents | order independence, collapse of equal variants |
| Configuration, policy selection | – | validate, select | – (pure) |
| Server: connections | connections, subscription tasks, shared writers, shutdown flag | accept, dispatch, subscribe, unsubscribe, drain | abort in the middle of a line, a flag raised before its watcher, drain |
| Server: start and stop | lock files, runtime state, socket file | open, initialize, roll back, bind, serve, shut down | a crash between any two steps, two daemons on one home |
| Artifact store | upload files, table of uploads, objects, artifact entities | begin, append, commit, finish, read | failure between rename and bookkeeping, repeated commits, a download across a replacement |
| Remote transport | – | one HTTP call per operation, long poll | dropped futures, no retry, shutdown |
| Router | list of providers | route, initialize, check, shut down | roll-back of a partial start |
| Daemon client | pending calls, socket | request, reconnect | late answers, reconnection |
| Memory subscriptions, cursor store | cursor per plugin | retry loop, save | handlers of an old attempt, save before delivery |
| Agent loop, ingestor, adapters, protocol package | plugin-local | – | – |

What makes each part correct: the provider publishes a batch entirely or not
at all, never leaves a head without its row, and gives a unit one snapshot; the
engine loses no published write, acknowledges only what is stored, refuses
only what is not, and accepts an identity once; locks exclude and do not
deadlock; a subscription delivers every change or says that it cannot; a read
is as fresh as its session; a walk over pages skips and repeats nothing that
stayed as it was; a merge loses no edit its author had not seen and does not
depend on order; a connection's lines are whole and its calls answered before
the daemon ends; a daemon reports a crash exactly when there was one; a visible
artifact has its bytes.

## 2. Modules

| Module | Models |
|---|---|
| `SqliteProvider` | tables of one scope; one action per provider operation |
| `Engine` (extends `SqliteProvider`) | requests of several engine processes over that provider |
| `AtomicLocks` | abstract admission: a request is admitted when no admitted one shares a key |
| `ExecutionLocks` | the weak registry and the ordered acquisition; refines `AtomicLocks` |
| `ChangeStream` | change log, retention, watch channel and the streams over them |
| `Retrieval` (extends `SqliteProvider`) | reads and retrievals under session and causal constraints; a walk over pages |
| `ConflictResolution` | values, CRDT documents, groups, merge and collapse of one entity's heads |
| `Connections` | accept loop, tasks of connections and subscriptions, their writer, shutdown; the local client |
| `Lifecycle` | processes that start, fail, serve, stop and crash on the same databases and socket path |
| `ArtifactStore` | upload files, table of uploads, objects and entities; commits and downloads in progress |
| `Daemon` (extends both) | the store as part of the life of a daemon |
| `MC…` | instances for TLC, one module for each specification that is run |
| `SqliteProviderProofs` | theorems about the provider: types, then safety |
| `RetrievalProofs` | theorems about constrained reads and walks over pages |
| `EngineProofs` | the engine's invariant, that it implements the provider's contract, and what it promises its clients |
| `ExecutionLocksProofs`, `ChangeStreamProofs` | theorems about the registry and the streams |
| `ConflictResolutionProofs` | theorems about documents, merges and heads |
| `ConnectionsProofs` | theorems about lines, calls and events |
| `DaemonProofs` | theorems about the life of daemons and their store |

**SqliteProvider.** The provider owns one connection behind an exclusive file
lock and every operation hands that connection one closure, so an operation is
one step. Where the closure first sweeps lapsed units
(`sweep_expired_work_units`, a transaction of its own), the step sweeps too,
and the sweep stays although the operation's transaction rolls back. Rows of
`patchouli_entity_version` are split into `published` (no unit) and `staged`;
`heads`, `changes` (with the head history), `frontier`, `captured`/`base`/
`closeMarker` (`patchouli_work_unit_entity`, `_base_version`), `unit`,
`unitHeads`, `idempotency` and `unitIdempotency` are the tables of these names.
Clocks become flags at the points where the code compares: a unit is *due*, a
record *lapsed*, a request *late*. Each operation has an outcome operator (the
variant of the Rust enum it returns) and an action that is written from it, so
every early return is an outcome and what it leaves behind is visible. The
clients of `Spec` are what the contract allows: fresh versions, at least one
head, possibly stale expectations.

**Engine.** A mutation is admission → idempotency read → entity read → commit →
(for a closing mutation that meets drift) resolution → publication → read of
the result. Each await is a step, and a request record holds what crosses it.
`Crash(n)` ends one engine process and its requests; `DeadlinePasses` may come
between any two steps. `Menu` is the set of mutations clients submit. Values
are abstracted to the part no merge rule covers (`rest`): versions that agree
on it fall into one merge group. `derives` is a history variable: which
versions a version incorporates, through the bases its request declared or the
versions a merge replaced. The engine's locks appear as `Held`, the admission
that `ExecutionLocks` is shown to implement.

**ExecutionLocks.** A request takes the registry's mutex, upgrades or registers
one mutex per key, releases it, then locks in the order of a `BTreeSet`. Guards
and `Arc`s are dropped one at a time, without the registry's mutex, and a
future may be dropped at every await (`Cancel`).

**ChangeStream.** All scopes share one log and one cursor sequence; frontier
and retention mark are per scope. `ReadPage` contains the pruning that
`read_changes` performs, for every scope; `Crash` may happen between its two
statements. `Publish` and `Signal` are two steps, since `signal_changes` is
called by the committing future after the connection's thread is done; that
future may be dropped between them (`Abandon`), as the HTTP handler of a
storage node is when its caller times out, and `lost` says that a signal was
dropped and none has been sent since. Consumers filter, save cursors, are
aborted, resume, and start anew after `CURSOR_EXPIRED`.

**Retrieval.** Adds to the provider the session frontiers, the causal tokens
(the cursor of the change they were stored with) and the millisecond each
version was recorded in. A read checks its constraints against the frontier or,
in a unit, against the unit's baseline, and advances its session. A client
walks the pages of a query in one of four orders, in a unit or outside, while
others create, rewrite, delete, stage and publish; the walk's history notes
which entities stayed as they were. A constrained read in a unit is what the
provider's contract allows, and no configuration asks for it (`config.rs:646`). A query is what it selects: every active
value matches, and one that its text or filters drop is like a tombstone to a
search. A behaviour either reads under constraints or walks pages.

**ConflictResolution.** A value is one field under a merge rule and a rest. The
field has its discriminator group and a text, of which the number of occurrences
of each character is kept; a document is the set of its Automerge changes, each
of which inserts and deletes in the object of its root. An update or a deletion
names versions, is prepared into a candidate, meets the heads it did not name,
and is merged, collapsed and stored under the plan's strategy and fallback, all
in one step: the interleavings are those of `Engine`, which keeps of a value
only its rest.

**Connections.** A line is written in two halves, because `write_all` may stop
between them when the socket is full; the holder of the writer's mutex may be
aborted there, and `torn` notes that it was. A connection's task alternates
between looking at the shutdown flag, waiting for a line or for the flag,
handling the call and writing the answer; each subscription has a task that
waits for its stream, for the mutex, and writes. `LocalClient` reads lines, puts
events aside during a call and hands them out later. `Finish` is the end of the
drain, where the engine is shut down.

**Lifecycle, ArtifactStore, Daemon.** A process opens its databases one by one
(each behind a lock file that is tried, not awaited), initializes them one by
one with a roll-back in reverse order, checks them, probes and replaces the
socket file, listens, opens the artifact store and serves; a stop drains, shuts
the databases down and lets the socket's guard compare and unlink. Every step
may fail and every step may be the last. `Providers` is the number of databases of
a process: `RoutingProvider` takes any, and its initialize, roll-back and shutdown
are modelled for any, though the configuration file allows one beside remote
providers. The store appends chunks at the end of
an upload's file, moves the file to its content address at the commit, has the
engine create the entity, and only then forgets the upload. After any error the
upload stays, also when the engine had made the entity by then (`CreateUnheard`):
a storage node that did not answer within its 30 seconds may have committed, and
the final read of a resolved publication may fail. A download selects
a version chunk by chunk. Content is its own address: SHA-256 is taken to tell
contents apart. `Daemon` ties the two together: opening the store discards the
upload files it finds, requests exist only while their daemon serves or drains,
and a crash forgets the table and the requests and keeps the files.

## 3. What TLC checks

Passing runs:

| Run | Instance | Shows |
|---|---|---|
| `provider` | two units. One story has two entities and three versions under one policy, without idempotency; the other one entity and two versions under two policies, with one identity and two mutations | `TypeOK`, `HeadsHaveRows` (with `StagedIsPrivate`), `HistoryMatchesHeads`, `BaselineIsSnapshot`, `BatchIsAtomic`, `SealedUnitHasDrift`, `IdempotencyDisjoint`, `UnitOutcomeIsFinal` (with `PublishedIsImmutable`) |
| `engine_requests` | three requests, five versions. One story starts from an empty database: immediate mutations on two processes, retries, deadlines, crashes. The other from a created entity: a unit of two entities against immediate writers, one entity only under the reject strategy, on one process, with deadlines and crashes | `NoLostUpdate`, `AckedIsDurable`, `RefusedUnlessReread`, `ExactlyOnce`, `ChangeKindsTellHistory`, `RejectNeverForks` |
| `engine_drift` | three requests with drift that is merged or kept | `ProviderContract`: engine steps are provider steps, so what holds of `Spec` holds under the engine; `EveryRequestIsAnswered` |
| `locks` | three requests with crossing keys, three addresses, cancellation | `OneMutexPerKey`, `LocksAreAtomic` (refinement), `EveryRequestEnds` |
| `change_stream` | one filtering consumer, two scopes, three changes, batches of two, pages of two | `NoSilentGap`, `ExpiryIsJustified`, `EveryChangeIsDelivered` |
| `retrieval` | three entities, four versions, one unit, one session, pages of two, two milliseconds, four orders | `ReadsMeetTheirFloor`, `SearchAgreesWithRead`, `WalkReturnsSteadyOnce` |
| `conflict` | four versions, three change identities, two characters, two groups, two rests; every strategy and fallback | `DocumentMatchesValue` (with `GroupsNeverMix`), `OrderIsImmaterial`, `UnseenEditsSurvive`, `NamingAllHeadsResolves` |
| `connections` | one client that makes three calls (handshake, an oversized line, subscribe, unsubscribe, shutdown) and one that stays silent; one subscription of two events; a socket that holds one line | `LinesAreWhole`, `EventsInOrder`, `AnsweredBeforeDown`, `ShutdownCompletes`, `FailureIsNoticed` |
| `daemon` | two daemons, two databases started at most twice, two inode numbers, two uploads (one names its entity and announces its digest, one does neither), two requests at a time, two versions; two uploads meet only within one generation | `RecoveryReportIsExact`, `ServingIsReachable`, `ArtifactsHaveBytes`, `UploadsKeepTheirFile` (with `UploadIsAPrefix`), `OneEntityPerUpload`, `DownloadsAreWhole` |

Why these bounds are enough to meet the cases: an idempotency record concerns
one mutation, so that a collision of two needs one entity, two units and two
policies and not a second entity (`StoryNext` of `MCSqliteProvider`, whose two
stories start together and part where an entity, a policy or a record is added);
a drift needs a baseline, an
immediate publication and a closing mutation (three requests), a lost update
one more; a fork and its merge need five versions; the registry race needs
three requests (one ending, two arriving) and more addresses than keys; the
streams of several consumers are left to the proof, which holds for any number; a page
boundary inside a batch needs a batch as long as a page, and a gap needs a
change before, at and after the mark; a tie at a page boundary needs three
entities and two milliseconds; a merge that has something to merge needs a
create, two branches and the update that joins them (four versions); the race
for the writer needs one subscription and an answer, and a missed flag a
connection that is spawned while it is raised; a roll-back needs two databases,
and a mark left by one process and read by another two starts. Versions are
drawn in order (`MintInOrder`, `MintOne`), which is sound because the code only compares UUIDs for
equality (and sorts them to compare sets); the engine's instances draw in order
(`NewVersions`) while the contract they are checked against lets a client draw any
versions without a row (`Mint <- AnyFresh`), as `ClientsDrawFreely` asks; requests, processes and addresses
are symmetric and symmetry is not used with liveness. The bounds are
`MaxCursor`, `MaxBatch`, `MaxDraw` (versions drawn at once), `MaxTime`,
`MaxVersion`, `MaxCalls`, `MaxSubs`, `MaxEvents`, `MaxGeneration`, `MaxVersions`
and the sets `Version` and `Req`; a request is submitted once. `InStory`
keeps `engine_requests` and `daemon` to the stories of the table. When
the versions are used up no further commit is enabled.

Every property of a passing run has a mutant: a change of one mapped
definition that a plausible bug would make (a dropped comparison, a missing
capture, an off-by-one in the cursor check, a wait without the check), under
which TLC finds the property violated.

Of the modules' type invariants the provider's is a property of its run and
proved, that of `Retrieval` is proved (`RetrievalTypeCorrect`), the locks' and the
streams' are parts of their proved invariants, and those of the other modules
document the variables.

**Deadlock.** The runs `locks`, `conflict`, `connections` and `daemon` allow it,
because their behaviours end: every request is called once, the versions, calls
and generations are used up, the daemon has stopped. The liveness properties
(`EveryRequestEnds`, `ShutdownCompletes`, `FailureIsNoticed`) are what says that
nothing stops early.

**Fairness.** `FairEngineSpec` is weakly fair in each request's own steps: the
runtime polls tasks that can proceed and a provider call returns. Admission is
weakly fair only, since the run's requests are finitely many and a lock is
contended only finitely often. `FairLocksSpec` is
strongly fair in the progress of each request, because tokio's mutexes are
granted in arrival order: a request that waits for a mutex that is released
again and again is not passed over for ever. `Call` and `Cancel` are never
forced. `FairStreamsSpec` is
weakly fair in the steps of each stream, whose consumer keeps reading, and in
`Signal`, which a future that is not dropped performs. `FairConnSpec` is weakly
fair in the steps of each task that can proceed, in the loop's reaction to a
raised flag and in the end of the drain, and in clients that read what they are
sent: the drain has no timeout, and a client that never reads a full socket holds
it up for as long as it stays connected. No call, no hang-up and no event of a
stream is forced. Crashes, aborts, clocks and publications are never forced.

### Disagreements with the documentation

These runs check what a document of the repository says and TLC shows that the
code does otherwise. `PROJECT.json` quotes both sides.

| Run | Property | What the run shows |
|---|---|---|
| `engine_two_closers` | `AckedIsDurable` | the second of two closing mutations is answered with success and never staged |
| `engine_late_reread` | `RefusedIsUnpublished` | the read that builds the response after a resolved publication carries the request's deadline (`engine.rs:1645`): a published mutation is answered `DEADLINE_EXCEEDED`, against `packages/protocol/SPEC.md:117`, "Once acceptance commits, the operation is successful even if the response is delivered after the deadline" |
| `conflict_ungrouped` | `DocumentMatchesValue` | two branches of a field without its discriminator that make the same edit collapse into a version whose document renders another value; every later update of it is refused as corruption |

`engine_requests` checks `AckedIsDurable` with a commit-ordering key shared by the
unit's mutations, which excludes two closers on one process, and
`RefusedUnlessReread`, which is `RefusedIsUnpublished` for all other refusals:
whatever is answered with an error, except `DEADLINE_EXCEEDED` by that final read,
stays unpublished. `conflict` checks `DocumentMatchesValue` with fields that carry
their discriminator. The
passing and the failing runs together delimit where each promise holds.

More disagreements follow from the same actions and have no run of their own;
where a passing property would meet one, its statement or its instance says so.

* When another request deletes the entity between a resolved publication and
  that read, the published mutation is answered `OVERLOADED`.
* Repeating a staged keyed mutation with the close marker stages it again
  (`engine.rs:867`, against `SPEC.md:106`).
* The idempotency record of a closing mutation holds the result computed before
  resolution, while the response is `active_mutation_result` of the heads after
  it, so a replay may name another version than the original answer.
* The idempotency operations do not sweep lapsed units, although
  `provider-sqlite/README.md` says that every operation does, so a lapsed unit
  reserves its identities until some other operation runs.
* A committing call whose future is dropped does not signal
  (`provider-sqlite/src/lib.rs:878`), and a long poll sleeps past its change
  until the next signal, against `provider-remote/README.md:13`.
  `EveryChangeIsDelivered` asks nothing while `lost`.
* An unsubscribe aborts a task that may have written half a line
  (`server/src/lib.rs:352`), and the next answer continues that line, against
  `SPEC.md:11`, "One line MUST contain exactly one complete JSON-RPC object".
  `LinesAreWhole` excepts a `torn` connection, and nothing else can garble one.
* The socket's guard compares and unlinks in two steps, and recognises its file
  by an inode number that may have been used again: the socket of a later daemon
  may be unlinked. `ServingIsReachable` excepts `crossed`.
* An upload that leaves the entity's id to the engine creates two entities when two
  commits of it are in progress at once, or when a commit is answered an error after
  its entity was made and is then repeated (`server/src/lib.rs:644-660`).
  `OneEntityPerUpload` excepts both (`overlap`, `unheard`), for these uploads only:
  one that names its entity makes it once, whatever its commits are told.
* A commit repeated after its response was lost finds the upload gone before the
  engine's idempotency could replay it.

## 4. What is proved

All theorems are for every value of the constants, under the named ASSUMEs of
the modules (finitely many entities; fresh versions that are new and freely drawn;
`None` is no unit, version, record or cursor; seeds are numbered; the four orders
are the known ones; there is a policy; menus are typed; keys are
ordered; change identities are finitely many and ordered; proposals have a place
for each character at most once and `None` is no field; scopes, homes and filters
are functions; pages hold a row; uploads announce a size; bounds are numbers),
each of which TLC evaluates in a run.

* `SqliteProviderProofs!TypeCorrect`: `Spec => []TypeOK`. One lemma per
  operation; publication numbers the changes with a bijection of the mutated
  entities onto an interval, so it uses finiteness of `Key`.
* `SqliteProviderProofs` proves every other property of the provider's run.
  `ProviderInv` is inductive: `TypeOK`, the rows (`RowsInv`: every head has its
  row, staged rows are private to a unit and versions are drawn once), the
  history (`HistoryInv`: the newest row of the history is the current heads and
  nothing lies beyond the frontier) and the units (`UnitsInv`: what an open unit
  captured is what was published at its baseline, committed units have one
  change per mutated entity and the others none, sealed units have drift). The
  argument does not go through the operations one by one: `NextIsStep` shows
  that each of them, with the sweep it may begin with, is a `ProviderStep`, that
  is, published tables that change as one publication changes them (`EntityStep`)
  or not at all, and at most one unit that works or publishes while the others
  keep what they have or expire. The lemmas `RowsStep`, `HistoryStep`,
  `BaselineStep` and `UnitsStep` then speak of that one kind of step. The core of
  the history part is `HeadsAtStable`: a publication above the frontier does not
  change what any cursor at or below it shows. `HeadsKeepRows`,
  `HistoryIsCurrent`, `UnitsReadTheirBaseline`, `BatchesAreAtomic` and
  `DriftIsNeverUndone` follow; `RecordsAreDisjoint` and `OutcomesAreFinal` have
  invariants of their own.
* `DriftIsNeverUndone` needs to know what a resolution is. Were it any set of
  heads, a unit could publish over another sealed unit's entity the very heads
  that unit started from and so undo its drift, with four versions of one entity.
  The provider does not exclude that; the engine does, since
  `resolve_publication_conflict` (`engine.rs:1690-1760`) keeps the unit's own
  heads unless it merges them into a new version. `ResolutionsOf` states that.
* `RetrievalProofs` proves every property of the `retrieval` run. Each step of a
  retrieval workload is a provider step or leaves the provider alone
  (`RetrievalIsProvider`), so `ProviderInv` holds from any database of seeds on
  (`SeededProviderInv`), and `SearchesAgree` is `BaselineIsSnapshot` read once more.
  `ReadsAreFresh` adds that the stored floors are what the sessions were told
  (`FloorInv`). `WalksReturnSteadyOnce` compares what a walk searches of an unchanged
  entity with what it searched at first (`Follows`): the heads it started from still
  have their rows and rows never change (`RowsStayStable`), so while the unit is open
  the entity keeps its place in the order (`FollowsStays`), and it has been returned
  exactly when the cursor has passed that place. What a page does to that needs only
  that the order is strict and total (`BeforeIsOrder`), that a page is an initial
  segment of what remains and that the cursor is its last entry (`PageIsSegment`).
  The existence of that last entry, and of the newest of an entity's versions, is
  proved from the well-foundedness of strict inclusion on finite sets
  (`LeastExists`), since the induction theorems cannot be used.
* `EngineProofs!EngineInvariant`, `!EngineImplementsProvider`. `EngineInv` adds to
  `ProviderInv` what the requests carry across their awaits: types, that a version
  is drawn once and by one request before it has a row (`DrawsInv`), and that what
  a request is about to commit or publish is what the contract lets a client ask
  for, from the heads it has read (`Prepared`, `Resolves`). With it each commit is
  one of `Commits(k, expected)`, each resolution one of `Resolutions`, and so every
  step of the engine is a provider step or a stutter: `ProviderContract` and with it
  all that is proved of the provider hold under any number of requests and engine
  processes. The one proviso on the constants is `ClientsDrawFreely`.
* `EngineProofs` also proves the six safety properties of the run
  `engine_requests`. Every engine step is first put into one of seven classes
  (`StepClass`): nothing is stored, a request reads heads, commits at once, stages,
  publishes its batch, publishes its resolutions, or finds its unit sealed. What is
  proved then speaks of the classes and not of the code paths.
  * `WritesAreNeverLost` rests on `LineageInv`: what an entity has published is
    incorporated by its heads, what a live unit has staged together with its
    baseline by the unit's heads, and what a prepared commit expected by the heads
    it will set. The compare of the heads at the commit, and of the drift at the
    publication, is what carries it over stale reads.
  * `RejectKeepsOneHead` rests on `UnforkedInv`: under the reject strategy one head
    is published, one is staged, and a drifted entity is refused a resolution.
  * `ChangeKindsAreTrue` compares the kind that was computed before the commit with
    the history at the cursor before it (`HeadsAtStable` again).
  * `AcknowledgedIsStored` and `RefusedStaysUnpublished` have hypotheses, because the
    properties do not hold without them. Two requests that close one unit at once
    break the first (run `engine_two_closers`), so it assumes `OneCloser`: requests
    past admission that close one unit come one after the other. Then a closing
    request never finds its unit sealed by another, and what it has staged stays in
    the sealed unit until it publishes it or the unit expires (`AckOf`). Under the
    same hypothesis a refused version stays withheld, and nobody else comes to
    publish the unit it lingers in (`RefusedOf`, `NoOtherPublisher`):
    `RefusedStaysUnpublished` proves `RefusedUnlessReread`. With the further
    hypothesis that no deadline passes between a resolved publication and its final
    read (`RereadInTime`), `TimelyRereadsKeepThePromise` proves
    `RefusedIsUnpublished` itself. The run `engine_late_reread` is what happens
    without it.
  * `LocksAreExclusive` and `OrderedBatchesAreStored` say how a deployment meets the
    hypothesis: the locks of one engine process exclude, so it is enough that the
    closing mutations of a unit run on one process and share their commit-ordering
    key. The batches of `engine_requests` do.
  * `IdentitiesAreAcceptedOnce` and `KeyedOnce`: the record of an identity that is
    used by immediate mutations only is written once, in the transaction that
    publishes the version, and every success answers with it (`OnceOf`). The commit
    that finds the identity missing and the insert are one transaction; the earlier
    read of `prepare_idempotency` only saves work. An identity on a mutation of a unit
    is excluded, because repeating one with the close marker stages it twice.

* `ExecutionLocksProofs!LocksInvariant`, `!KeysHaveOneMutex`,
  `!LocksImplementAtomic`. That all live references of a key agree is not
  inductive: it needs that a live reference is the one the registry holds
  (`Registered`), which holds because only the holder of the registry's mutex
  replaces an entry, and only when the old mutex has no reference left. With
  that guards belong to the owners of mutexes (`Guarded`), so two running
  requests share no key and each step maps to a grant, a release or a stutter
  of `AtomicLocks`.
* `ChangeStreamProofs!StreamsInvariant`, `!DeliveryHasNoGap`,
  `!CursorsExpireWithReason`. `NoSilentGap` is made inductive by four facts:
  what was deleted lies at or below its scope's mark (`GoneIsMarked`, which a
  crash between the two pruning statements keeps because the mark is written
  first); a mark names a change that is gone or old enough to go
  (`MarkIsGone`); positions and saved cursors exist (`PositionsExist`); and a
  page holds exactly the next matching rows (`PageIsNext`). The last one is
  what lets an empty page move the cursor to the frontier.

* `ConflictResolutionProofs` proves every property of the `conflict` run. `Inv` is
  `TypeOK` and, for each stored row, `Sound`: its document is well formed (what was
  put was put by a change of the document, what was deleted was put), is empty
  exactly when the value has no field, and belongs to the field's group.
  * A change made on a document renders what was proposed, and adds only itself
    (`ChangedDocument`); a merged candidate has the union of its group's documents
    and what that renders (`MergedCandidateFacts`), so variants of equal value have
    equal documents and collapsing them drops no change (`MergedRenders`). With
    `MenuIsGrouped`, the hypothesis that proposed fields carry their discriminator,
    `DocumentsMatchValues` follows; without it the property is false, as
    `conflict_ungrouped` shows.
  * `UnseenEditsAreKept`, `NamedHeadsResolve` and `GroupsStayApart` need no such
    hypothesis. Every candidate has a variant that holds its changes and its rest
    (`ResolveLosesNothing`), and new variants get the next versions without a gap
    (`Numbering`).
  * `OrdersYieldSameVariants` compares two orders of the same heads: each head has a
    place in both (`SamePlaces`), its group consists of the same heads (`SameGroups`)
    and merges to the same document and value (`SameMerge`), so each outcome is
    included in the other.
  * Least and greatest numbers, from which equal variants take their first and
    documents their winner, are shown to exist from the well-foundedness of strict
    inclusion on finite sets (`LeastNumber`, `GreatestNumber`).
* `DaemonProofs` proves every property of the `daemon` run.
  `DaemonInv` is `LifecycleInv /\ StoreInv`. In the first, the place a process
  is at tells which databases it has initialized (`MadeInOrder`) and which lock
  files it holds (`HoldsLocks`), and a database is marked running exactly when a
  process has it or its last owner left it unclean (`DatabaseFine`):
  `RecoveryIsReportedExactly` is what the transaction of `initialize` then reads.
  A process from its health check to its drain holds every lock (`OneStarted`),
  so that nobody else probes, unlinks or binds, and a guard that removes a socket
  has checked it before: `ServersAreReached`. In the second, only a daemon at
  work has uploads and requests (`OnlyAtWork`), so there is one daemon that knows
  of an upload and nobody's start discards its file (`OpenUploadsKeepTheirFile`);
  chunks extend a prefix by what comes next (`PrefixGrows`, `PrefixAppends`);
  bytes are placed before a key can reach an entity (`KeysArePlaced`); a version
  names one head for ever, so that what a download has got is the start of the
  version it has pinned (`DownloadsArePinned`); one id goes with an upload
  (`OneId`), so that an upload that names its entity meets it as taken once it is
  made (`NamedOnce`); and an upload that names none and has made its entity is known
  only to the request that is about to forget it, unless its commits overlapped or
  one was answered an error after the entity was made (`UnnamedOnce`,
  `UploadsMakeOnce`).
* `ConnectionsProofs!LinesStayWhole`, `!CallsAreAnswered`, `!EventsComeInOrder`.
  `ConnInv` says of each
  connection what is on the wire (`WireFine`): the halves that were written and
  not yet put together are whole lines, then the first half of one exactly while
  somebody holds the mutex, and it is that holder's line. The holder is the task
  that stands between its two halves (`Turns`), which a write, a failure and a
  cancellation each have to keep; only an aborted task lets the mutex go half way,
  and then the connection is `torn`. `CallsFine` follows the last call through
  the phases of its task: between `top` and the next request it is answered, so a
  connection that has ended (`DownJoined`) owes nothing. A step belongs to one
  connection (`OneConnection`), except that raising the flag is news to all of
  them (`NewsIsHarmless`). For the events, `InOrder` relates what a task has sent to
  what its client has seen and what is still on the socket: together they are the
  events up to the last one sent, in rising order, what was seen before what is on
  its way, and all of it behind the answer that names the subscription. That an
  event is the n-th its client has seen follows by a bijection onto `1..n`
  (`OrderCounts`).

Only model-checked, and why:

* liveness (`EveryRequestIsAnswered`, `EveryRequestEnds`, `EveryChangeIsDelivered`,
  `ShutdownCompletes`, `FailureIsNoticed`): fairness and ENABLED are outside what
  TLAPS proves here. Every other property of a passing run is a theorem, some under
  the hypotheses named above.

## 5. What is left out, and the plan

Not modelled, and why:

* JSON, SQL text, wire formats, the parsing of queries and cursors, the
  validation of configuration and of typed values, the lookup that routes an
  operation to a provider: pure functions of one input, which unit tests reach.
  `Menu` contains only combinations that `config.rs` accepts.
* The relevance order of a retrieval: bm25 scores depend on the whole corpus and
  change between two pages, so that a walk promises nothing about it.
* The layout of CRDT changes in tables, which follow their version rows;
  objects, arrays and numbers inside a merged field; several merge rules.
* Storage errors other than deadline and conflict inside one provider operation,
  which roll its transaction back; checks of stored corruption; schema
  migration; file permissions and symbolic links.
* The remote transport beyond the dropped handler: encoding, authentication, the
  shutdown of a long poll. In `Engine` the provider is in the engine's process: a
  call to a storage node that is not answered in 30 seconds is reported as
  `DEADLINE_EXCEEDED` although it may have committed (`provider-remote/src/lib.rs:88,
  174`), which `RefusedUnlessReread` does not speak of; `ArtifactStore` has it. In
  `Lifecycle` the recovery that a remote provider reports, its storage node's at the
  time of the connection, is left out.
* The daemon client's multiplexing and reconnection, and the memory client's
  worker: `ChangeStream` has their consumer, which saves cursors, is aborted and
  resumes, without the retries and pipelines of `memory.ts`.
* Agent loop, ingestor, adapters of other memory systems and the protocol
  package: clients of the daemon and generated types.

Planned modules: the worker of `memory.ts` with its retry loop and cursor store,
composed with `ChangeStream`; the daemon client at the other end of
`Connections`; the long poll of the remote transport with its shutdown.

Planned theorems: exactly-once for keyed mutations of units, once the code records
a repeated closing mutation.
