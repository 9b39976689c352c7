# TabSlate server: a verification project

TLA+ models of the TabSlate server (a Go service that keeps workspaces, collections,
bookmarks and saved groups in PostgreSQL and synchronises them between a user's devices),
the TLC runs that check them on small instances, and TLAPS proofs for every value of the
constants. Paths are relative to `src/`; `handler/` stands for `internal/handler/`.

## The system

| Part | State | Operations | Talks to |
|---|---|---|---|
| Tables (`db/schema.pg.sql`) | workspaces, collections, bookmarks, groups, tags; `user_sync_seq` | SQL; `incrementSeq` takes a number and the row lock | everything |
| Workspace lifecycle (`handler/workspace_lifecycle.go`) | none of its own | delete, restore, purge, in two deletion models | called by REST routes, sync push, cleanup |
| REST routes (`handler/workspaces.go`, `collections.go`, `bookmarks.go`, `tags.go`) | none | create, update, delete, one transaction each | tables, hub, search |
| Sync push (`handler/sync.go` 47-969, `sync_dependencies.go`) | snapshots and quota ledgers of one request | one transaction for a list of entities, protocol 0 or 2 | lifecycle, tables, hub, search |
| Sync pull (`handler/sync.go` 971-1202) | none | one query per table, then `server_seq` | tables |
| Cleanup worker (`handler/cleanup.go`) | the round under way | expire, purge, hard-delete; account deletion | tables, lifecycle, hub |
| Event hub (`internal/pubsub`) and SSE stream (`handler/sse.go`) | map of subscriber channels | Subscribe, Unsubscribe, Broadcast, Close | handlers after commit, clients |
| Server (`app/server.go`) | router, process context | Run, shutdown | all |
| Authentication (`handler/auth.go`) | users, one-time codes, refresh tokens | register, login, verify, reset, refresh, delete account | mailer, limiter, cache |
| Search (`internal/search`, `handler/search.go`, `cmd/reindex`) | an external index of bookmarks | upsert, delete, search, reindex | routes, lifecycle and push after commit |
| Cache, rate limiter, billing, mailer, captcha, preferences, configuration | small maps, external services | | |

Everything a client changes goes through one pattern: begin, `incrementSeq`, statements that
repeat their own guards, commit, `hub.Broadcast(seq)`. Devices hear of `seq` by a
server-sent event and pull what is newer than what they have.

What is hard here:

* deletion has two models (only the root is marked; or, for old clients, the whole subtree),
  and restore tells them apart by a column and by sequence numbers;
* foreign keys act on their own (`ON DELETE SET NULL`), so the order of statements matters;
* one push mixes lifecycle actions, metadata, re-parenting and tombstones, is decided
  entity by entity against snapshots, and may be refused in part;
* the cleanup worker works from stale lists, statement by statement, beside the clients;
* the pull is not a transaction, answers are lost, pulls are repeated;
* the hub sends on channels it no longer holds the lock for, and drops events when full;
* the search index follows the tables by what each handler remembers to send it;
* sessions are rows that rotations, revocations and the deletion of the account take from
  each other, mostly without a transaction.

What makes each part correct:

* lifecycle and routes: a purged root never changes and keeps nothing under it; an active
  workspace always remains; a restore brings back exactly what the delete took; every change
  is visible to an incremental pull;
* cleanup: never an active workspace, never before its time, in the end always, every
  tombstone published, kept for devices to pull and never brought back, and nothing orphaned;
* push: the answer is the truth, limits hold, nothing live lands under a deleted workspace;
* pull: devices converge and never go back;
* hub: no lost wake-up, no panic, no channel closed twice or left behind;
* search: what the user may see can be found, what is gone is not kept;
* accounts: one valid token per login, a revoked one never again, no session without an
  account; a requested deletion happens, not before its term, unless it is cancelled.

## Modules

| Module | Models | Correspondence |
|---|---|---|
| `SyncTables` | rows, visibility queries, bulk updates and deletes | one record per row with state, parent, `deleted_at`, `seq`; `Absent` for no row; `DropCollections` carries the foreign key |
| `LifecycleService` | `ApplyInTx` | `Rejection` and `Idempotent` are its early returns, `Applied` the tables it leaves |
| `WorkspaceContract` | what the lifecycle promises | abstract: one state per workspace, the allowed moves, an active workspace is never lost |
| `RestApi` | the REST write routes and the legacy push of a deleted workspace | one action per route, guards from the `WHERE` clauses |
| `Cleanup` | the worker beside `RestApi` | `pc` is the statement it is at; `now` and `scanned` its local variables |
| `EventHub` | `InMemoryHub`, SSE streams, shutdown | `Broadcast` in steps: copy, one send per channel; the other methods atomic under the mutex |
| `SyncPull` | the pull beside `RestApi`, with one device | one action per query |
| `SyncDependencies` | quota ledger, parent classification | operators |
| `SyncPush` | the push as a function of database and request | `PushWorkspaces`, `PushCollections`, `PushBookmarks`, `PushGroups` in the order of the code; each `for` loop is `Each` of its `Turn`, each batch of upserts a `Batch` |
| `SearchIndex` | the documents beside `RestApi` | each action is a route of `RestApi` with what it sends after the commit; `Effect` (in `LifecycleService`) is the `WorkspaceLifecycleEffect` |
| `Accounts` | users and refresh tokens: session routes and account phases 3 and 4 | one action per statement; `req[r].pc` is where a request is, `worker.pc` where the worker is; row locks are derived from these |
| `RestApiProofs` | proofs about `RestApi`, and row by row what a step does, for the modules that extend it | |
| `SearchIndexProofs`, `CleanupProofs`, `SyncPullProofs`, `SyncPushProofs` | proofs about these modules, over `RestApiProofs` | |
| `SyncPushAnswers` | proofs about what a push answers and sends to the index, over `SyncPushProofs` | |
| `EventHubProofs`, `AccountsProofs` | proofs | |
| `MC*` | instances for TLC | symmetry sets and `NoLimit` |

`Cleanup`, `SyncPull` and `SearchIndex` extend `RestApi`, and `SyncPush` extends `SearchIndex`;
`RestApi` extends `LifecycleService` and `SyncTables` and instantiates `WorkspaceContract` with
the states of its workspace rows as the refinement mapping. `Accounts` stands alone: it shares
no table with the others, and of the worker only the order of the phases.

### Abstractions, and why they are sound

* **One user.** Every statement has `user_id` in its `WHERE` and each user has a sequence
  row of its own; users do not interact in the modelled parts.
* **A writing transaction is one action.** `incrementSeq` locks the user's sequence row until
  the commit. Routes run at READ COMMITTED and take that lock first, so what they read after it
  is what the previous holder committed. `Apply` and the push run at SERIALIZABLE: when
  they had to wait, PostgreSQL fails them and the route answers with an error, a step
  not taken. The transactions of a user therefore take effect one by one in the
  order of their numbers. The cleanup worker's scans and phase 2 take no lock and are
  separate actions, one per statement. A failed or refused REST transaction rolls back its
  number as well; a push commits its number whatever it refused.
* **Time.** `clock` counts days or milliseconds, whatever the grace periods are given in. In
  `SyncPush` the comparison `updated_at < now` is expressed by `horizon`: rows with a number
  above it are of the same millisecond.
* **Data.** Names, icons, positions, flags and URLs are left out, as are `archived_at` (the
  backfill is modelled for rows that are not archived), tags and group tabs. A client's
  `deleted_at` goes with its state. A push of an old client may also store an active
  collection with a deletion time; `CleanupInit` starts from one.
* **Ids.** `uuid.NewString` gives a fresh id: creation needs an absent row. A row that was
  hard-deleted may come back under the same id in the model (a push may do so); it only adds
  behaviour.
* **Quotas** are unlimited in `RestApi` (what `billing/local` answers without a row of limits)
  and are the subject of `SyncPush`.
* **Documents** reach the index at once and in the order of the commits. The client sends each
  batch from a goroutine and logs failures, so the real index may lag or drift
  (`cmd/reindex` repairs it); what is checked is what the handlers ask for. The two batches of
  one push (`sync.go:962-963`) may arrive in either order.
* **Row locks in `Accounts`.** Only `Refresh` is a transaction. A rotation holds the row of its token
  from its `DELETE` and a share of the users row (the foreign key's check) from its `INSERT`;
  phase 4's `DELETE` holds the users row while it cascades to the tokens; a bulk
  revocation sees the committed rows when it starts and waits for those a rotation holds. A
  request that waits has no step, and `GiveUp` and `PhaseFails` include the deadlock that PostgreSQL
  breaks. One account: every statement names it.
* **External parts**: the client in `EventHub` (pulls when it receives an event) and the
  device in `SyncPull` (keeps the rows it gets and the last `server_seq`).

## Runs

| Run | Question | Instance | Result |
|---|---|---|---|
| `rest_api` | the lifecycle under any sequence of routes, and its search documents | 2 workspaces, 2 collections, 1 bookmark, 1 group, 6 transactions, clock 0..1 | holds, 64,493 states |
| `legacy_restore` | does a legacy restore leave earlier deletions alone? | 2, 1, 1, 1; 8 transactions | **violated** |
| `cleanup` | the worker beside the clients | 2, 1, 1, 1; 3 client transactions, clock 0..4, grace periods 1, window and round period 2 | holds, 974,133 states |
| `cleanup_liveness` | is every expired workspace purged? | 2 workspaces, clock 0..2 | holds, 9.6k states |
| `cleanup_orphan` | does phase 2 orphan bookmarks? | 2, 1, 1, 0; clock 0..3, window 1 | **violated** |
| `accounts` | sessions and the deletion of the account | 2 requests at a time, 3 tokens, clock 0..1, periods 1 | holds, 206,775 states |
| `event_hub` | wake-ups, channels, shutdown | 2 streams, 2 handlers, capacity 1, 2 commits | holds, 240,955 states |
| `event_hub_send` | is Broadcast safe for concurrent use? | the same | **violated** |
| `sync_pull` | does a device converge? | 2, 1, 1, 1; 4 transactions | holds, 283k states |
| `sync_pull_gap` | is an answer complete? | the same | **violated** |
| `sync_push` | every push of up to two entities | 2, 1, 2, 1; limits 1 for collections, bookmarks and groups | holds, 6.8k states |
| `sync_push_rescue` | can a push rescue a collection? | 2, 1, 0, 0 | **violated** |

Numbers of an instance are workspaces, collections, bookmarks, groups.

### Bounds and why they are enough

* `MaxSeq` bounds the transactions of clients (`Commit`); the worker's own (`Store`) are not
  bounded by it. The longest history a property needs is create, fill, delete, change,
  delete again, restore: six suffice for `rest_api`, eight for `legacy_restore`. Without a
  first push a history starts from the empty tables, with it one transaction is saved.
* Two workspaces: the last-active rule, moves between workspaces and purge of one beside the
  other need two; nothing relates three.
* `MaxClock` is one more than the sum of the periods it must pass: 4 passes a grace period of 1
  and a window of 2.
* `RoundPeriod` and `Window` of `cleanup` are 2, several ticks, so that lateness shows: a row that
  expires at 2 may become a tombstone then or at 3, and be removed at 4, after all or half of the
  window. The code's 24 hours in 7 days have the same shape, and the theorem is for all values.
* `accounts`: two requests at a time show every race of two statements, and a third actor is the
  worker; three tokens are a login, its rotation and one more login or rotation.
  `Term = Notice = 1` with a clock of 0 and 1 passes from requested to due. With one tick
  `DeletionKeepsItsTerm` sees a cancelled deletion and one requested anew at the later time.
* `Capacity = 1` stands for the 8 of the code: with two handlers and two commits the channel is
  full, drops and drains. The proofs hold for every capacity.
* In `sync_push`, a behaviour is one step long: `PushInit` enumerates what a push, a delete
  of either model and a purge leave of two workspaces, and `AnswersAreHonest` evaluates
  every request there. The other properties are checked on the steps. Two entities reach every
  interaction of two tables (a lifecycle action and a child, a tombstone and a creation,
  an id listed twice). `MaxEntities` replaces the 1000 of the code.

Deadlock is not checked where the bounds end behaviours: transactions and clock run out.

### Fairness

`LiveSpec` of `Cleanup`: the ticker keeps firing and the goroutine keeps running, so a round
that can go on does (WF of `Round`); a query or transaction that is tried in round after round
does not fail, or is not cut short by a restart, every single time (SF of `FindDue`,
`Promote`, `ScanWorkspaces`, `ExpireWorkspace`). Without the second, a database that always fails
would refute any progress. `LiveSpec` of `EventHub`: goroutines run (WF of a broadcast's
steps and of reading a channel). No fairness is assumed of clients, connections or the
shutdown, nor of a stream's end: `infraCleanup` is the last statement of `Server.Run`, the process
exits after it, and `StreamCatchesUp` asks nothing of a stream that is no longer subscribed.

`LiveAccountSpec`: the same of the worker: its round goes on (WF of `Sweep`), and its query, the
`DELETE` and its cascade do not fail or meet a restart every single time (SF). The worker comes
by once a day and a rotation takes milliseconds, so the `DELETE` does not find one under way
every single time: SF of `LockAccount` with no token locked, and the last conjunct, that a worker which is
at its `DELETE` again and again is there again and again with no token locked. Nothing is
assumed of requests: they may stop anywhere.

### What the violations show

* `BroadcastIsSafe`: `memory.go:54-56` sends after the unlock; a stream that leaves in between closes the
  channel and the send panics. `hub.go:5` asks for safety under concurrent use.
* `NoOrphanByCleanup`: `cleanup.go:265` deletes a collection with live bookmarks in it;
  `ARCHITECTURE.md:309` says the order prevents orphans.
* `PullIsComplete`: `sync.go:1194` reads `server_seq` after the tables, outside a transaction; a commit in
  between is never pulled (`sync.go:972`).
* `RestoreKeepsEarlierDeletions`: REST deletion of a bookmark leaves `is_trashed` at 0, so the legacy cascade takes
  it for a live one and the restore lists it again (`ARCHITECTURE.md:219`).
* `NoRescue`: the version-0 branches overwrite the reason the rescue check looks for (`sync.go:482`, `488`, `503`,
  `510` against `653`).

Disagreements without a run:

* `ARCHITECTURE.md:167` says that the pull reads all five tables with `seq > $2`; `sync.go:993-1005`
  returns the workspaces in full, and `SyncPull` follows the code.
* `cleanup.go:89-90` says that a root is purged after the plan's retention period. The decision uses
  the `deleted_at` of the scan (`cleanup.go:147`) and `Apply` does not compare again: a workspace that is restored
  and deleted again between the scan and its turn is purged early. `Cleanup` has the
  behaviour.
* `cleanup.go:31` says that phase 2 deletes tombstones "after the tombstone window". The cutoff (`cleanup.go:257`)
  measures grace and window from `deleted_at`, not from the moment phase 1 made the tombstone: what
  phase 1 was late by is missing from the window. The rounds are a day apart, so a tombstone made
  almost a day late is removed after a little more than six of the seven days when a restart runs a
  round just then, and one made more than a week late in the same round.
  `TombstoneLosesAtMostARound` is what remains true.
* A push that names a workspace it deletes or purges and moves one of its bookmarks out in the same request, or
  both deletes and restores a workspace in one request, asks the index both to store and to remove the
  bookmark (`sync.go:962-963`): it may stay without a document. `PushedIsIndexed` leaves out just these, and the
  bookmarks brought back by the rescue above. Its exception for the second kind (`Undoes`) looks at the entries of the
  request, not at the workspace before and after: restore, delete and restore again in one push leaves the workspace
  restored, with its bookmarks in both batches. Two entities are too few to see it; the proof needs it.

## Proofs

`RestApiProofs`, for any sets of ids, any bounds:

* `TypeCorrect`: `TypeOK` is inductive. Lemmas give the type of each bulk operation
  (`Mark...`, `Drop...`), then of each lifecycle function, then of each action.
* `DeletionStamped`: inductive with the type invariant; the lifecycle functions change one row
  of the workspace table (`OneRow`) to one of the shapes `RetainedRow`, `RestoredRow`,
  `PurgedRow`.
* `TombstoneFrozen` and `ContractImplemented`: lemma `RowStepStates` says which states a row step relates. The
  contract's `HasActive` survives because `Rejection` compares the number of active workspaces with 1.
* `PurgedIsEmpty`: `PurgedLeavesNothing` is inductive: the purge drops every child, and no
  route links a row to a workspace that is not active. A legacy delete or restore keeps every link
  (`SameParents`).
* `BookmarksKeepTheirCollection`: needs the strengthening `Unlinked` (a bookmark without a row has no
  collection); the purge drops the bookmarks first, so the foreign key finds none (`LinksKept`).

Its second half is about the rows a step writes. `LifecycleStep` describes what is left of each row by a delete, a restore
or a purge (`MarkedChildren`, `DroppedChildren`); `FrozenStep` says that no route changes a row under a
workspace that is not active and keeps its own row. On these rest:

* `TablesAreConsistent`: no row is left of what is gone (`AbsentRows`), every row's parent is there (`ParentsPresent`), no
  number is above the counter (`SeqBounded`) and every row has one (`Sequenced`). None of the four is checked by
  the code: they are what it gets from its foreign keys and from taking the number first.
* `ChangesArePublished`: an action property, from `Consistent` (the purge finds every child by its parent).
* `LegacyCascadeComplete`: `Cascaded` adds that no active bookmark hides in a collection that the
  restore would bring back.
* `RestoresAreExact`: `HistoryOK` adds `Remembered`: what a restore would bring back at this moment
  (`Restorable`) is what was shown when the workspace was deleted. For deletion model 1 these are the rows still
  active; for the legacy model those with the root's number, which `Cascaded` makes exactly the ones the cascade marked.

`SearchIndexProofs`:

* `SearchImplementsRestApi`: a step of the routes with their documents is a step of `RestApi`, so its theorems hold.
* `IndexComplete` and `DocumentsHaveRows`, from `SearchOK`. `Complete` alone is not inductive: without `Consistent` a new workspace
  could show old bookmarks, and the legacy restore sends only bookmarks with sequence evidence, which are
  all of them only because of `Cascaded`.

`CleanupProofs`, for any interleaving of rounds, clients, failures and restarts, and any periods:

* `CleanupTypeCorrect`, `ActiveIsSpared`, `CleanupImplementsContract`: the worker repeats its
  guards in each statement, so what it scanned may be stale.
* `DueBookmarksAreNotStranded`: `RoundOK` carries through the round that between phase 2 of the bookmarks and of
  the collections no bookmark is due by the same cutoff: clients may trash one, but only phase 1 makes tombstones. `Stamped` is
  the other half: the tombstone of a bookmark or collection keeps the deletion time phase 1 chose it by, and no route reaches it.
* `TombstonesPublished` and `NoTombstoneReturns`, for bookmarks, collections and groups: phase 1 is the only step that
  makes a tombstone (`NoNewTombstone`, `OnlyPromoteBuries`), under its own number; a route does not reach one
  because of `Stamped`, and the cascades take active rows (delete) or retained ones (restore).
* `TombstonesLoseAtMostARound`: the round's `now` is not after the clock, so what is due has a deletion time both periods
  before the clock, and a tombstone made within `RoundPeriod` of its expiry loses no more than that (`DueIsKept`);
  `OnlyErased` says that nothing else removes tombstones when phase 2 moves on. Restarts may start
  rounds at any time; the period is in the hypothesis only.

`SyncPullProofs`, for any number of incremental pulls between any transactions:

* `PullImplementsRestApi` and `PullTypeCorrect` (a pull never starts above the server's number).
* `PullsConverge` and `DevicesNeverGoBack`, from `PullOK`. A device that only had quiet pulls has every row up to its
  number (`UpToDate`); the pull under way started from there or from 0 (`Started`), has the server's rows in the tables it
  has queried while nothing else happened (`Fetched`) and the device's own in the others (`Pending`). A tombstone on
  the device is one on the server, and the pull takes it over (`Buried`).

`SyncPushProofs`, for requests of any length (`MaxEntities` is any number), any sets of ids and any limits:

* `PushTypeCorrect`, `PushesKeepTombstones`, `PushesPublish` and `PushesWriteNothingUnderDeleted`.
* Loops. `EachKeeps` is their induction: a set of states that one turn keeps is kept by the loop. It is proved
  with `LeastNumber` and a set in place of a predicate, because the provers take no operator as the parameter of a
  theorem. A batch is the loop over what was queued (`BatchKeeps`).
* Turns. Each refuses, queues or writes (`LegacyDeleteTurn`, `LifecycleTurn`, `SortCollectionTurn`, `UpsertBookmarkTurn`, ...).
* `Trail` relates the tables before the push to those at any point of it: a row is the same, carries the number, or went
  with a workspace purged on the way, and no tombstone has changed. It needs `Descends` (the workspace loops
  move nothing, so a purge takes what was under the workspace before) and `LiveItem` (metadata of a purged root is
  never queued, though its batch does not look at the state).
* `Available` and `AvailableUnder` say that the maps of unavailable parents are right at each turn although they
  are kept up by hand in a dozen places; after the workspaces they give `Openings`, which the loops over
  the children keep, and what a batch writes was open when it was queued (`OpenCollection`, `OpenBookmark`, `OpenGroup`).
  The exception in `NoLiveWriteUnderDeleted` shows as `Brought`: the workspace loops make a row active only by restoring a
  legacy deletion, which a push can follow by a delete of version 2 (`Models`: it knows one deletion model).
* `PushesKeepQuota`. The property compares the rows that count before and after; the code compares ids in a ledger. `Fits`
  says that the ids in the ledger are within the limit or no more than the rows before the push, which `Admit` and a
  release keep (`LedgerFits`). What is left is that at the end every row that counts is in the ledger. While a table's
  entities are sorted out, `Awaits` says that a row that counts is in the ledger or has a tombstone waiting that the batch will
  store; in the batch, `Counts` says it of the rows still to come (`RowCounts`: a tombstone gives its place back only for a row
  that is not of the same millisecond, `quota.young`, and such a row is never stale). Before a table's
  turn its ledger is `Ready`: the workspace loops purge and give back the places of the rows they drop (`Balanced`), the
  collections' cascade those of the bookmarks it marks (`CascadeReady`). Each table is then one instance of `TableFits`.
  The proof needs an invariant of the tables between pushes, `Sound`: nothing under a purged workspace (`PurgedEmpty`), and a
  workspace out of the trash is of deletion model 1 (`Plain`), so that a push after which no model differs made no
  legacy move on the way (`Kept`, `KeptBack`).

`SyncPushAnswers`, under the same assumptions:

* `PushAnswersAreHonest`. By its turn an entity is turned away, waits or is dealt with (`Sorts`, `Stores`); an entity listed
  once is placed by its own turn and spared by the others (`EachReaches`), and what waits is stored by the batch, or rejected as
  stale (`BatchPlaces`). So for each table an entity that is `Taken` is stored as it was sent. Not inductive by itself:
  `CollectionsNumbered` (no collection has a number above the counter) is what makes the cascade take only the tombstones of this push. That
  a push refused whole changes nothing is the same argument with the tables before it in place of the entity.
* `PushesIndex`. `Fate` is what has become of a workspace and of one of its bookmarks after the first n entries of the
  list, case by case, `Verdict` the same of all its workspaces, and `Later` what the children's loops and the cascade add. A bookmark
  that is live at the end and not excepted is in the batch of stores, or in neither batch and in the index before.
  Invariant: no workspace is lost (`AllPresent`).

`EventHubProofs`, for any streams, handlers and capacity:

* `HubTypeCorrect`, `MapIsExact` and `WakeupsReachTheirClient`. The last is not inductive by itself:
  `HubInv` adds that a broadcast's number has been announced (`Announced`), that the map holds the open channels
  (`MapHoldsOpenChannels`) and that no stream is due more than was committed (`Dues`). The argument:
  a commit makes every subscriber due and puts its handler on the way; a handler leaves the way of a
  stream only by filling its channel or finding it full; a full channel is itself on the way; taking an
  event out makes the client pull everything committed.

`AccountsProofs`, for any requests, any number of tokens and any periods:

* `AccountTypeCorrect`, `LoginsHaveOneToken`, `TokensHaveAnAccount`, `SpentTokensStaySpent` and
  `DeletionsKeepTheirTerm`, all from `AccountInv`. None of the properties is inductive alone: each rests on
  what a request under way holds. `TokensInOrder` (tokens are issued in order and descend from an
  earlier login) makes a login's token the only one of its login. `RequestsHold` and `RequestsApart`
  say that a rotation's token is valid and nobody else's, and its successor neither valid, spent nor
  seen by a revocation until the commit exchanges the two. `RowIsThere` and `WorkerKnows`
  say that phase 4 and a rotation never hold the users row together, and that the row phase 4 holds is due.

The assumptions are the named `ASSUME`s of the modules, which the runs evaluate: ids and their absence are different
(`IdAssumption`), bounds and periods are numbers (`BoundAssumption`, `AccountAssumption`, `PushBoundAssumption`; in `GraceAssumption`
the plan's grace may be negative, for which the worker never purges), a plan's limit is a number or unlimited (`PlanAssumption`), the tables are finite, so that their rows can be
counted (`TableAssumption`, which only `PushesKeepQuota` uses), and a channel has a capacity (`CapacityAssumption`). Bounds on transactions, clock and request are arbitrary numbers in every proof.

Only model-checked: liveness (`ExpiredIsPurged`, `StreamCatchesUp`, `RequestedIsDeleted`), because
fairness and `ENABLED` are out of the prover's reach. Every other property of a passing run is also a theorem.
What `Pushed` computes is proved step by step through its loops, never by evaluating them. The runs
that expect a violation show what does not hold.

## Not modelled

* Tags, group tabs and the one-off legacy migration (`schema.pg.sql` 177-187): rows with the shape of
  those that are modelled, without a lifecycle of their own.
* One-time codes, their attempt counters and cooldowns, e-mail verification and the captcha counters of `auth.go`;
  the single-use token of the stream; cache and rate limiter.
* The Redis hub. It shares the hazard of `event_hub_send` with the in-memory hub.
* The text and ranking of search documents, their reordering between commits, and the documents that the
  cascade of a push (`sync.go:733-761`) and phases 1 and 2 of the worker leave behind. `search.go` filters by the
  tables, so a stale document is not shown; it takes a place among the 20 hits.
* Billing provider, preferences, mailer, captcha, configuration: pure input and output, or constants of the models.
* Several server instances sharing one database: each would run a cleanup worker of its own.

`PROJECT.json` gives the reason for each part and lists the hazards in it.

## Plan

Written in this order: `SyncTables`, `LifecycleService`, `RestApi` (the core), `WorkspaceContract`, `Cleanup`, `EventHub`,
`SyncPull`, `SyncDependencies`, `SyncPush`, the first proofs, then `Accounts` and `SearchIndex`, the documents of
`SyncPush`, the tombstone window of `Cleanup`, the proofs about `Accounts`, the rows a step of `RestApi` writes, the proofs about
the modules that extend `RestApi`, and `SyncPushAnswers`. What is left:

1. The legacy moves that `PushKeepsQuota` leaves out: by how much a legacy restore may exceed a limit.
2. One-time codes beside `Accounts`: a counter written back over a renewed code (`auth.go:344`).
3. The create routes with a limit: count and insert in two transactions (`workspaces.go:70`); tags.
4. `RedisHub` as a second implementation beside `EventHub`.
5. Cleanup and pull together: does a device that pulls within the window see each tombstone?
