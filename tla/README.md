# A verification of tortoise-extended

TLA+ models of [tortoise-extended](../src/README.md), a library that adds Redis caching, graphs,
ltree hierarchies, vector search and TimescaleDB tables to Tortoise ORM; the configurations that
model-check them with TLC, and proofs that TLAPS checks. Paths such as `cache/decorators.py` are
relative to `src/src/tortoise_extended/`.

The library is asyncio code over two servers. It holds next to no state of its own in memory: what
can go wrong lies between two awaits, in what PostgreSQL and Redis hold at that moment, and in
Python instances that are older than the rows they stand for. So, everywhere below, **a step is what
happens between two awaits** - one statement to the database or one request to Redis with the code
that follows it - and steps of different tasks interleave freely. None of the code but `move_to`
runs in a transaction.

## 1. Inventory

| Component | State | Operations | Interacts through | Hard because |
|---|---|---|---|---|
| Cache decorators `cache/decorators.py`, `SingleFlight` in `cache/base.py` | futures per cache key (in memory); entries in Redis | `@cached`, `@cached_method`, `@invalidate`, `wrapper.invalidate`, `claim`, `release` | shared futures; Redis | concurrent misses, cancelled owners and waiters, failing stores, invalidation against an execution |
| Cached querysets `cache/queryset.py` | a second `SingleFlight`; entries in Redis | `_execute`, `invalidate_cache`, (de)serialization | same | the same, with two forms of one result |
| Redis manager `RedisCache` in `cache/redis.py` | one installed connection pool | `init`, `close`, `get_pool` | the pool every backend uses | overlapping and failing calls |
| Redis backend in `cache/redis.py` | entries with ttl | `get`, `set`, `delete`, `incr`, `expire`, `set_many`, `delete_pattern`, `flush` | all cache users | partial batches, scans against writers |
| Cacheable model `models/cacheable_model.py` | rows; entries per primary key, per lookup, per list | `get_cached`, `filter_cached`, `save`, `delete`, `refresh_from_db`, `rehydrate` | table and Redis | read-then-store against write-then-evict; stale proxies |
| Graph nodes `models/graph_node.py` | `parent_id`, `child_count`, `depth` | `save`, `delete`, orphan guard; `path_to_root`, `subtree`, depth ranges | one table, several instances of a row | four statements without a transaction; walks of one query per node |
| Graph edges `models/graph_edge.py` | edges of bare ids | lazy queries | read by the traversals | dangling ids |
| Traversal, pathfinding, reachability (`expressions/`) | none (one SQL statement each) | ten recursive queries | node and edge tables | termination, completeness, off-by-one of the limits |
| Hierarchy `models/hierarchy_model.py` | `path`, `parent_id`, `depth`, `namespace` | `move_to`, path and link queries, `validate_hierarchy` | one table, several instances | two encodings of one tree, cascade over a subtree |
| Event streams `models/event_stream.py`, managers `timescale/` | the catalog entry of one table: hypertable, dimension, index, policies; its rows | `setup`, `bulk_insert`, range and bucket queries; one manager call per feature | one table, several processes | every process calls `setup` on start; partial failure |
| Migrations `migrations/operations.py` | the same catalog entry | `CreateHypertable`, `CreateContinuousAggregate`, forward and backward | same | reruns after a failure |
| Soft deletion `models/soft_delete.py` | `deleted_at`; the scope inside a queryset | filtering querysets, delete, restore, purge | one table, several instances of a row | composition of queryset modes; marks decided from memory |
| Users, mixins, fields, indexes, SQL builders, patches | one row or none | conversions, text | - | not concurrent |

What makes each of them correct, in a sentence: a key is executed once and everybody who waited for
it is answered; staleness has a bounded set of causes and ends; the pool that is served works and no
pool is forgotten; a counter equals what it counts; both encodings of a tree describe the same tree;
a recursive query returns exactly what the graph says, and a walk of many queries whatever links it
found on its way; a start that succeeds leaves the table as its class wants it; a pattern delete
returns when its keys are gone and touches no others; an operation on a queryset changes the rows the
chain of its calls asked for.

## 2. Modules

A component module has an MC module, with one configuration per run and per disagreement of section 4,
and a proof module beside it (`...Proofs`). Three pairs of modules share both: `RedisStore` extends `RedisPool`; `GraphModel` puts
`GraphNode` and `GraphWalk` beside one another, `Queries` does so with `GraphQueries` and
`StreamQueries`. `GraphModel` and `Queries` extend the one, instantiate the other with variables of
its own, and assume what the latter needs of its constants; their own specifications (`WalkSpec`,
`QueriesSpec`) leave the other half at rest. Operators whose comment begins with "Mutant" are
plausible bugs of the definition that follows; PROJECT.json says which property catches each.

### CachedCall - cache/decorators.py, cache/queryset.py, SingleFlight

A *call* is one invocation of a decorated coroutine or one await of a cached queryset; `pc` says at
which await it is.

| Action | Code |
|---|---|
| `Lookup`, `LookupFails` | `backend.get`; a hit returns, a `CacheError` counts as a miss |
| `Claim` | `_single_flight.claim`: own the key, or go and await its future |
| `Execute`, `ExecuteNone`, `ExecuteFails` | the function, or `super()._execute()`, returns or raises |
| `Store`, `StoreFails` | `backend.set`, its error suppressed; a timed out write may have been made |
| `Settle`, `SettleQuery` | `future.set_result`, `release`, `return` - no await in between |
| `Wake` | `return await future` |
| `CancelLookup`, `CancelExecution`, `CancelWait` | `CancelledError` at each await; cancelling a waiter cancels the future it awaits, which all waiters share |
| `Write`, `Invalidate`, `InvalidateFails` | `@invalidate`: the function, then the delete |
| `WriteFails` | the function raises or is cancelled after it has changed the data: no delete is sent |
| `InvalidateCall`, `InvalidateQuery`, `Expire` | explicit invalidation, the ttl |

A call may await another one (`Inner`), so flights nest. The two modules have a `_single_flight`
each, keyed by the cache key alone, while Redis prefixes the namespace: hence `FlightOf` and `Slot`
differ. A value remembers which function computed it, from which version of the data, and in which
form it is: the followers of a flight get what the future holds. `missed` is history, the functions an
update of which no delete has made up for: one is *effective* when no execution is about to store what
it read before the change (`Straddling`). Keys are data; two functions may
have equal keys in different namespaces (`prefix=` and `key_builder=` permit it) but never the same
key in one (`SlotsAreSeparate`; section 4 says which queries break that assumption).

### RedisPool - RedisCache

One pool per `init` call, named after it. `Pinged` reads the installed pool before the await of its
`aclose`, `Assign` overwrites it after; `AcloseFails` and `PingFails` stand for errors and for
cancellation. A pool that does not answer is discarded, by an `aclose` that may fail as well
(`DiscardFails`).

### RedisStore - RedisCacheBackend over that pool

Extends `RedisPool`: `GetBackend` needs an installed pool, and backends outlive it. What is stored is
a set of keys, pairs of a namespace and a key; `Inside` says whose names begin with that of another
namespace and a colon.

| Action | Code |
|---|---|
| `Set`, `Delete`, `Expire` | `set` and `incr`, `delete` and an `expire` without time left, the expiry |
| `SetMany`, `Pipelined` | the pipeline is built - a value that does not serialize raises before anything is sent - and executed command by command: `transaction=False` |
| `DeletePattern`, `Scan`, `DeleteFound`, `Return` | the `scan_iter` loop: a page of keys, perhaps empty, perhaps repeated; one `DELETE` per key; `flush` is the pattern `*` |
| `Fail` | a command raises or its task is cancelled; what it asked for may be done |

`steady` is history: the keys that matched at the call and have been stored ever since. Redis
promises that a full SCAN returns those (`Complete`), and no more than that.

### CacheableModel - BaseCacheableModel

`task` is where the operation of a task is (`lookup`, `query`, `fill`, `evict`) and what it has read.
`Alias` are the ways to look a row up whose key is not the one `_invalidate_cache` deletes; `All` is
`filter_cached`. A row's content is one value. `inst[t].hit` is history: that the instance was built
from a cache hit. What `save` hands on decides what the ORM sends (`Statement`): an INSERT for an
instance that is not marked as saved, unless `update_fields` or `force_update` tell it to update
(`Forced`).

### GraphNode - BaseGraphNodeModel.save and delete

A *handle* is a Python instance. `Create; Insert; Increment`, `Save; ReadOldParent; Update;
Decrement; Increment` and `Delete; Guard; Remove; DecrementFormer` are the statements of the three
operations. `Allowed` names what the users of the class do, so that every run and theorem says which
discipline it needs; `Crash` stops an operation between two statements and books in `lost` what the
counters miss from then on.

### GraphWalk - path_to_root, subtree, descendants, ancestors

A call holds a list of instances as it has read them (`found`) and a `queue`. `Ascend` and `Descend`
are one query each with the code that follows it; `Change` is what `save` and `delete` of other tasks
do in between, bounded by `MaxChanges`. The table starts with any links, cycles and dangling ones
included, because nothing in `save` prevents a cycle and the orphan policy permits dangling links; of
the depths, those that count the links and those left at the default. `descendants` and `ancestors`
are one range of depths in the namespace of the node each, their docstrings call them approximations;
links may cross namespaces, and the walks follow them. `SafetyLimit` is how many levels `descendants`
takes when nothing limits it, 1000 in the code. `Enqueued` is the loop that fills the queue.
`siblings` is left out.

### HierarchyModel and Forest - BaseHierarchyModel

`move_to` is a READ COMMITTED transaction: `UpdateSelf` writes the node's row, `Match` takes the
snapshot of the second UPDATE, `Cascade` waits for rows others hold and re-checks them, `Refresh`
reads the row back, `Commit` or `Rollback` ends it. `view` holds the instances of a task, as old as
they are. `Forest` is the abstract specification: nodes with a parent, planted as leaves and grafted
outside of their own subtree.

### GraphQueries - graph_traversal.py, pathfinding.py, graph_vector_search.py

PostgreSQL evaluates `WITH RECURSIVE ... UNION` by iteration; `Iterate` is one round of it.
`Follows`, `Admits` and `WithinLimit` are the JOIN and WHERE clauses of the eleven variants, one
disjunct each; `PathsTo`, `Found`, `LeastHops`, `Cycles`, `HasCycle` are the outer SELECT. The second
half of the module defines what a simple path, a ball and a simple cycle are, without iteration.
`outgoing`, `incoming`, `between` and `between_any` of `models/graph_edge.py` are one filter each, which
includes the namespace, while the recursive queries take none; `DistancesAreLeast` relates the
neighbours at one hop to what these find in one namespace or another. `Cycles` ends with
`LIMIT max_cycles`: any choice of so many rows no longer than those left out.

### StreamQueries - in_range, latest_per_stream, time_series

Each is one statement, so one action that answers from the table: `Within`, `Recent` and `Of` are the
WHERE clauses, `Distinct` is `DISTINCT ON`, `Buckets` the grouping, `Ordered` every order the ORDER
BY permits. Times and streams are integers; of the aggregates only the count is there.

### StreamTable - event_stream.py, timescale/, migrations/operations.py

The table's catalog entry is a set of features; a statement that adds one is refused when what it
`Needs` is missing, when it is there already and the call has no `if_not_exists`, or when rows are in
the way. `setup` of every process, the migration, an operator who calls any manager, and
`bulk_insert` send their statements in any order; the table may have rows from the start
(`StartRows`), and `bulk_insert` waits for nobody's `setup`. Two `CREATE INDEX IF NOT EXISTS` under way
at once may collide (`IndexRace`). The retention policy, once there, drops rows whenever it likes
(`DropOld`); `dropped` is history, the instances that had them. `lost` counts answers that were lost
after the server may have done the work. A row's key is one value: `save()` of an instance, which goes
by `id` alone, is left out.

### SoftDelete and Trash - models/soft_delete.py

A queryset is what it is in the code: `objects` (`_q_objects`), `index` (`_sd_index`, 0 for None) and
`mode` (`_sd_mode`); a condition is the set of rows it holds for. `all`, `filter`, `with_deleted` and
`only_deleted` are links of a chain, `delete`, `restore`, `hard_delete` and `update` its ends, one
statement each. `Delete` and `Restore` of an instance set the mark in memory, `WriteMark` or
`WriteMarkFails` is the `save` that follows; `Save` is a full one. `Trash` is the abstract
specification: a query asks by a set of filters and a scope, and its operations change those rows.
`asked` is the history that maps one to the other - what the calls of a chain said, whatever
`_q_objects` became. `outdated` holds the instances whose row was marked or restored behind their
back, or whose statement failed. `Purging` are the modes of the querysets on which `hard_delete` is
called: on 2, which `only_deleted` sets, it does not keep `Trash`'s promise (section 4).

## 3. Runs

| Run | Instance | Question |
|---|---|---|
| `calls` | 4 calls of 2 functions and a query, one nested in another, equal keys in two namespaces, 1 update; or 4 calls of the query; Redis failing, most calls and the update cancellable | Is there one execution per key, does every call end, do waiters share what there was, are the causes of staleness the known ones? |
| `query_followers` (violation) | 2 awaits of one query | Does a cached query always return instances? |
| `redis` | 3 `init`, 1 `close`, all overlapping; 1 task with batches, 3 namespaces, one nested in another | Is the served pool open, is any pool forgotten? Does a pattern delete remove all it was called for, and nothing else? |
| `nodes` | 3 nodes, 2 handles, overlapping, crashing | Are the counters what they should be at every statement? |
| `node_stale_save` (violation) | 2 nodes, one operation at a time, plain `save()` | Is `child_count` in sync after every write? |
| `walks` | all tables of 4 nodes, one of another namespace, no handles, depths up to 3, limits none, 0, 1, 2, 1 change during the walk | Does every walk end, follow links only, and return what an unchanged table says? |
| `trash` | 2 rows, 2 instances, 1 chain with up to 2 filters, on a column and on `deleted_at`; no purge after `only_deleted` | Do operations change what their chain asked for, do marks change on purpose only? |
| `rows` | 2 tasks, 1 row under 3 lookups, 2 contents, all faults, proxies saved with all arguments | When is an entry stale, when can a proxy overwrite a row, does staleness end? |
| `tree_moves` | 4 nodes with repeating labels, moves one at a time, rolled back anywhere | Do paths and links stay one tree, is it a forest, does a move move the subtree? |
| `tree_shared` | 4 nodes, equal names, 2 namespaces, 2 overlapping moves | Do depth, path and name of a row agree, do tenants stay apart? |
| `queries` | all tables of up to 3 edges over 3 ids, any subset of them stored, 2 edge types, 2 namespaces, limits 0, 1 and 3, at most 0, 1, 2 or any number of cycles; all tables of up to 3 events of 2 streams at 3 times, with ranges, widths and limits around them | Does each query return what the graph, or the stream, says? |
| `setup` | 2 processes of different classes, a migration and 1 row, there or not; or 1 process and 4 instances, two of one key; 1 lost answer, 1 intervention, retention | What does a returned `setup` guarantee, which failures come back, do restarts get through, has who is marked as saved a row? |

**Bounds.** The sets are as small as the behaviours in question allow. Two calls per key show every
relation of owner and follower; a third party only repeats one of the roles. Three nodes are a node
with an old and a new parent; four nodes with two labels build the path `a.b.a.b`, in which a prefix
occurs twice. Two bounds cut a run in two halves that say the same of fewer actors: `OneCast` gives `calls`
its second cast, four callers of one key, so that a waiter is cancelled beside another one;
`OneRowOrOneProcess` gives `setup` either all actors over one row or one process over all rows. Three edges make every cycle through three nodes and a dangling or bidirectional edge
beside it; the limits are none, one and more than any simple path over the stored ids has. `MaxCount`, `MaxLost`,
`MaxDepth`, `MaxViews`, `MaxManaged`, `MaxObjects` and those two stop further operations from *starting* and never cut one off.
In `StreamTable`, `MaxLost = 1` lets one statement be done without its sender knowing, which is what
a rerun has to cope with. In `GraphWalk` four nodes hold a chain, a fork and cycles of every length up
to four, and one change is enough to open, close or cut each of them behind or before the walk; the
walks it makes exact are those with none. Three events over two streams put a tie, an outdated event
and an event on each boundary side by side; the widths 1 and 2 make ranges that meet on a bucket and
within one. In `RedisStore` a scan of up to three keys has pages of every content and a writer
between any two; a second batch meets no state the single commands do not produce.

**Fairness.** `calls`: a task that has been started is resumed when what it awaits is there (asyncio's
event loop, and servers that answer or fail), an `@invalidate` wrapper gets to its delete, an entry
with a ttl expires. Nobody has to start or cancel anything. `rows`: only expiry is fair; a property
about what the cache ends up with needs no progress of tasks. `setup`: the server answers, a process
whose start failed is started again (its supervisor does), and a migration that failed is run again.
`EventuallyConfigured` excuses tables from which an operator took something away, and processes in
whose way rows are (`RowsInTheWay`). `walks`: the walk goes
on, its queries are answered; changes by others need not come.

Deadlock is not checked in runs of terminating calls (`calls`, `redis`, `setup`, `walks`, `queries` and
the violation on `calls`) and in `nodes`, where a bound on the counters may stop the last operation.

## 4. What the runs found

Two disagreements with the documentation, each a run that ends in a violation:

- **Followers of a cached query get dictionaries** (`query_followers`, `QueriesReturnInstances`).
  `CachedQuerySet._execute` settles the shared future with the serialized records and a follower
  returns them by a `cast`; the leader, and every cache hit, returns instances.
- **A plain `save()` of a graph node writes `child_count`** as it was when the instance was loaded
  (`node_stale_save`, `SettledCounts` without the discipline on columns).

The others have a configuration each, which is not among the runs; `tlc -config <module>_<name>.cfg
<module>` shows the violation. The properties that hold claim nothing of these cases.

| Configuration | The documentation says | The code does |
|---|---|---|
| `MCCachedCall_namespaces` | `src/doc/api/cache.md:362`: "**Use namespaces** — Separate cache regions for different models" | One `SingleFlight` serves all namespaces (`decorators.py:26`, 169): a call joins the flight of an equal key (a `prefix=` or `key_builder=`) in another one and returns the other function's result. The entries in Redis stay apart (`EntriesAreOwn`). A function that awaits, inside, another one with its own key in another namespace awaits its own future for ever |
| `MCGraphWalk_max_depth` | `graph_node.py:357`: "max_depth: Maximum depth to traverse" | `subtree(max_depth=0)` returns the children: the limit is tested on a child that has been taken (`WithinMaxDepth`; `QuietWalksAreExact` is for positive ones) |
| `MCGraphWalk_path_order` | `graph_node.py:329`: "List of nodes from root to this node" | `path_to_root` sorts by `depth`, which nothing maintains: where it was left at its default the path comes from the node up (`PathFromRoot`; `PathsAreRootFirst` is about depths that grow along it) |
| `MCCacheableModel_forced_save` | `cacheable_model.py:61-62`: `.save()` on a cache hit "would issue an ``INSERT`` against an existing PK" | `update_fields` and `force_update` make it an UPDATE: the row is overwritten (`ProxiesNeverOverwrite`; `OverwrittenOnlyWhenTold` says that there is no other way) |
| `MCQueries_namespaces` | `src/doc/api/graph.md:236`: "Use `namespace` field for multi-tenant graph isolation" | Traversals and paths change over between the edges of two namespaces (`WalksKeepToANamespace`) |
| `MCQueries_latest_order` | `event_stream.py:426`: "one per stream, newest first" | `latest_per_stream` returns the rows in the order of the streams, and a `limit` keeps the first ones (`NewestFirst`) |
| `MCStreamTable_start_race` | `event_stream.py:149`: "Safe to call on every application start." | Of two processes that start together the slower one may fail: `add_dimension` has no `if_not_exists`, and the index is checked for before it is locked (`SafeOnEveryStart`). The next start succeeds (`RaceLostOnce`) |
| `MCStreamTable_early_rows` | the same | Rows inserted before the table is converted or partitioned, by a process that did not wait for `setup` or whose class has no dimension, make every `setup` fail (`StartsGetThrough`; `EventuallyConfigured` excepts them) |
| `MCSoftDelete_purge` | `soft_delete.py:118`: "Physically delete every row matched by this queryset.", `src/doc/api/models.md:233-234` | `only_deleted().hard_delete()` purges the live rows of the filters too (`ImplementsTrash`; `trash` has no such call) |

Behaviours that no sentence of the documentation denies, and that the properties therefore name as
their exceptions:

- a waiter under `asyncio.wait_for` that times out cancels the future, and with it all other
  waiters (`WaitersShareTheExecution`); the execution goes on and is stored;
- an entry is stale after an update that raised or was cancelled once it had changed the data, after
  an invalidation that failed, and after one that ran between the read and the store of an execution,
  until its ttl ends or the next effective delete (`StaleOnlyIfMissed`, `EventuallyFresh`; `ttl=0`
  never expires);
- `init` and `close` calls that overlap overwrite each other's pool, an `aclose` that raises leaves
  the new pool unserved and open, or a pool that did not answer (`NoForgottenPool`);
- `delete()` after an unsaved assignment to `parent_id` decrements the wrong parent; two instances
  of one node that are both reparented decrement one parent twice; a child inserted between the
  orphan guard's count and the delete keeps a `parent_id` without a row;
- entries by other arguments than the primary key are never evicted, a refresh of some fields
  stores the others as they are in memory;
- `subtree()` follows links into other namespaces, where `descendants()` does not look;
- `move_to` with an instance older than the row rewrites the node and misses its descendants, or
  takes those now under the old path; two overlapping moves pass the cycle guard and close a cycle;
  two siblings of one name share one path, and the next move of either takes both subtrees. So
  `tree_moves` has one move at a time, of fresh instances, beside other names, and `tree_shared`,
  which has all of that, claims less;
- `depth` is a plain column with default 0 which the guide (`src/doc/api/graph.md:203`) does not
  set: `HierarchyModel.Create` stands for a user who does;
- `has_cycle` follows edges through deleted nodes, `find_cycles` does not (`CycleIsSeen` and
  `CyclesOnce` state each);
- an instance stays marked as saved when the retention policy has dropped its row (`SavedHaveRows`);
- a `delete()` or `restore()` of an instance whose save fails keeps the mark in memory, so calling it
  again returns without a statement; one of an instance older than its row does nothing either, and a
  full `save()` of it writes the old mark back (`MemoryAgrees`, `MarksChangeOnPurpose`);
- `time_series` has no row for an empty bucket, though `TimeBucketRow` gives one a value of None; the
  SQL of `latest_per_stream` and `time_series` names fields, not their columns;
- `flush` of a namespace purges those nested in its name (`Inside`); the count `delete_pattern`
  returns is that of the deletes it sent; backends keep the pool they were made with, closed or not;
- the key of a cached query leaves out `limit(0)`, joins, `select_related` and grouping: queries that
  differ in these only share an entry, which `SlotsAreSeparate` excludes.

## 5. Proofs

All theorems hold for every value of the constants, under the named assumptions of the module.

| Module | Theorems | The invariant behind them |
|---|---|---|
| `CachedCallProofs` | `TypeCorrect`, `StampedeControl`, `WaitersAreServed`, `ClaimsAreReleased` | `FlightInv`: an executing call *owns* its flight and created its future, a claimed flight is an executing call's, an unsettled future is an executing call's, a waiter's future exists. None of the properties is inductive alone: that two calls never execute behind a key follows only because both would be the value of `flight`. `FinishKeepsFlight` is the tail of the wrapper, shared by five actions, `MoveKeepsFlight` every step that leaves flights alone |
| | `Freshness` | `FreshInv`: as long as no update has been missed, an entry or a result about to be stored is old only while a delete is pending; an effective delete is one that finds no such result. Uses `SlotsAreSeparate` |
| | `EntriesBelong` | `OwnInv`: also a result that is still to be stored is its own function's. Uses `SlotsAreSeparate` |
| | `SharedAlike` | `ShareInv`: a future is settled by its own execution, with what that returns (`Answers`), or by a cancelled waiter (`Cut`), and by nobody later; a waiter, which joined a flight of its own key (`Joined`), ends with what the future holds from then on; of another function's flight nothing is claimed. The history in `awaits` and `outcome` makes the property speak of calls that ended at different times |
| `RedisPoolProofs` | `TypeCorrect`, `ServedPool`, `LostPools` | `PoolInv`: what each call knows of the pool it opens (nobody else sees it before it is installed) and of the one it tears down |
| | `PoolUnderStore`, `StoreTypeCorrect`, `PurgesAreComplete`, `PurgesStayWithin` | `StoreInv`: a steady key was found or is still to be returned before the last page, and a found key that is not on the page any more has been deleted, so it is not steady (`Sound`); pages hold matching keys only. Rests on what Redis promises of a full SCAN |
| `SoftDeleteProofs` | `TypeCorrect`, `MemoryIsRight`, `MarksAreMeant` | `SoftInv`: an instance under way remembers the mark it is about to write (`Pending`), an idle one that is not outdated that of its row |
| | `KeepsItsPromise` | `Layout`: for each queryset, the scope is at `index`, everything else in `objects` is a filter asked for, and mode and scope correspond; hence `Matched` is `Trash!Selected`, and each step of `SoftDelete` is one of `Trash` or a stutter |
| `GraphNodeProofs` | `TypeCorrect`, `CountsAreAccountedFor`, `CountsSettle`, `CountsStayNatural` | `CountInv` = `Structure` (where each operation is and what its handle knows of the row) and `CountsMatch`. Every action is an instance of one lemma, `StepKeepsCountInv`, about a step of one handle on one node that keeps the books balanced; cardinalities are moved by `DifferByOne`. Assumes `Disciplined`: one instance per node, columns named in `save`, no deletes with unsaved parents |
| | `WalkTypeCorrect`, `WalksKeepToLinks` | `Trail` of `WalkInv`, whatever the table does: `found` names no node twice, each is linked to one before it as it was *read*, and the queue holds rows of `found` |
| | `QuietWalksReturnAll` | `Quiet` of `WalkInv`, while nothing has changed: each row found is as stored, and the children of one that does not wait in the queue are found, unless it lies at the limit. A walk is no longer than the table (`WalkFits`, by an injection), so the levels `Below` and `Above` of so many rounds are all there are. `TreeGoesDown` and `PathGoesUp` relate links to depths where those are kept |
| | `PathsAreRootFirst` | from the types: the rank of a row in a sequence that falls is its place from the end (`Falling`), in one of equal depths its place (`Level`) |
| `CacheableModelProofs` | `TypeCorrect`, `Freshness`, `ProxySafety` | `CacheInv`: also a *fill* under way holds the row's content or is excused. `ProxySafety` is an action property: hits are unsaved (`HitsAreUnsaved`), so what they send without being `Forced` is an INSERT, and one over a row fails. Assumes `FullRefreshes` |
| `HierarchyModelProofs` | `TypeCorrect`, `ColumnsAgree`, `NamespaceIsolation` | every row - committed, written or held in memory, however old - has depth, path and name in agreement, since shift and rebase are computed from the same two instances (`ShiftedRow`); written rows are of the namespace of the move |
| | `HierarchyIsValid`, `QueriesAreRight`, `MoveIsOfSubtree`, `HierarchyRefinesForest` | `TreeInv`. `Tree` is inductive only as a whole: a path is that of the parent and a label (`Chained`), paths differ within a namespace (`PathsDiffer`), every prefix of a path is the path of a node (`Rooted`). `Progress` says, at each statement of `move_to`, which rows of the table as it *will* be are written: `MoveKeepsTree` shows that table to be a tree (`Moved`, `RebaseInjective`, `TargetIsOutside`), so a commit keeps it and a rollback changes nothing. Descendants by links are those by path (`SubtreeByPath`, by the least counterexample). A commit is one `Graft` of `Forest`, a `Create` one `Plant`, all else stutters. Assumes `OneAtATime`: moves neither overlap nor use outdated instances, siblings differ in name |
| `QueriesProofs` | `TypeCorrect`, `WalksAreComplete` | `Levels`: rows are simple paths, the working table holds those of the greatest length, and a simple path not found yet extends one of them; with an empty working table none is left |
| | `DistancesAreRight` | the same `Levels`; the ball of k hops is what simple paths of at most k hops end at (`BallByPaths`), so the least row of a node is its distance; the edges a join admits are those the edge queries find in the namespaces taken together |
| | `CyclesAreRight` | `Levels` with chains, paths over nodes greater than their first, in place of simple paths: a chain that closes is a simple cycle from its least node on, and exactly one rotation of a cycle starts there (`OneStartsAtLeast`); with `max_cycles`, a cycle is left out only for that many others that are no longer |
| | `CycleIsNotMissed` | `Strides`: the rows of `has_cycle` are the ends and lengths of the walks within the limit; a simple cycle is one that closes, a shortest one that closes is a simple cycle (`ShortestIsSimple`) |
| | `LatestOfEachStream`, `ReportsJoin` | `StreamInv`: the events are finitely many, each answer is right of them. Of an order by stream the k-th row has k - 1 streams before it (`PlaceBySize`); the rows of a range are summed up bucket by bucket (`SeriesCounts`); no bucket reaches over a boundary that is a multiple of its width (`BucketSide`) |
| `StreamTableProofs` | `TypeCorrect`, `UpIsConfigured`, `RaceIsLostOnce`, `StatementsInOrder`, `SavedInstancesHaveRows` | `Stages`: the features behind the label a process is at are on the table, so that what its statement needs is; `Races`: who has lost the race does not send `add_dimension` again. No assumption on the rows the table starts with, nor on who inserts when |

The other type invariants, `ClaimedWhileExecuting`, `NeverNegative` and `RootFirst` are proved and
therefore in no run; `WalkTypeOK`, which says how a walk may end, is in one.

Theorems about `GraphWalk` and `StreamQueries` are about the specification of those modules, `Walk!Spec`
and `Streams!Spec`, under the ASSUME of `GraphModel` and `Queries`. Where an argument is by induction
(over paths, walks, levels, ranks, sums) it is so over numbers: the library's theorems on induction take
an operator, but its theorem that a well-founded set has minimal elements does not, and `LeastNat`,
`SetInduction` and `Recursion` follow from that one.

Only model-checked: liveness (`EveryCallEnds`, both `EventuallyFresh`, `EventuallyConfigured`,
`WalksEnd`), which the prover does not treat. Every other property of a passing run is a theorem; what
the theorems assume beyond the constants is in the table: `Disciplined`, `OneAtATime`,
`FullRefreshes`, and for `KeepsItsPromise` that `hard_delete` is not called after `only_deleted`.

## 6. Modelled from their use

asyncio (a task runs until it awaits, cancellation arrives at an await, cancelling the awaiter of a
bare future cancels the future), redis (one request is atomic, a timed out one may have been served),
PostgreSQL (READ COMMITTED, row locks and re-checks, all-or-nothing COPY, evaluation of recursive
queries), TimescaleDB (what needs what, what is refused) and Tortoise (an UPDATE of a missing row
changes nothing, an INSERT of a present one raises) are not in the repository and are modelled from
how it uses them; PROJECT.json marks these definitions as external. Two choices: a closed pool is
taken to be useless, though redis-py may reconnect one; `remove_hypertable` in the migrations is
taken to do what its name says.

## 7. Not modelled

- Values, keys, SQL text, paths as characters: members of small sets. What the conversions do to a
  value (`_coerce.py`, `_stable_signature`, `_q_signature`, serializers) is a matter of strings, hashes
  and JSON, where a model would repeat the code. Read there: `timedelta`, `bytes` and enums are not
  coerced back from JSON; an error of unpickling is not wrapped.
- `siblings`, the aggregates of `time_series` other than the count, the time in `deleted_at`, the check of
  `Meta.indexes` when an edge class is created.
- Vector distances and their ranking, hybrid search, lquery patterns, SQL builders: floating point
  and text. Fields, indexes, patches, the user model: one value or one row, no interleaving.

## 8. Plan

In this order, most important behaviour first:

1. An abstract single flight (a key is free or has one owner and a set of followers, all answered
   alike) and an abstract read-through cache, implemented by `CachedCall` and `CacheableModel`
   through refinement mappings; then the step simulations as theorems.
2. Composition of `CachedCall` with `RedisStore`: calls that keep the backend of a closed pool, and
   a pattern delete as the invalidation of an update.
3. `GraphWalk` over the rows `GraphNode` writes: that what its steps do to a row is a `Change`, as a
   theorem; two instances of a node in `GraphNode`.
4. Proofs without the disciplines: which of the tree's parts survive overlapping moves, what bounds
   the counters of nodes with two handles.
