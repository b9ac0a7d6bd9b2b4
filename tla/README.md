# Verification of rbatis-cache

TLA+ models, TLC runs and TLAPS proofs for the second-level query cache of
`src/` (crate `rbatis-cache`, its executor integration, its local backend, and
the Moka, Redis and Memcached backends).

A module is named after the component it models; `MC*` modules hold what TLC
needs (symmetry sets, one-namespace map), `*.cfg` files are the instances, and
`PROJECT.json` lists components, runs, mutants, hazards, findings and theorems
and maps each definition to source lines.

## 1. The system

A query is looked up under a digest of everything that determines its result
(`key.rs`), the namespace's *generation* included. A DML bumps the generation
after its commit, so the old entries are never looked up again and die by TTL.
There are two ways in: the stand-alone `CacheInterceptor::get_or_load`, and the
`before`/`after` hooks `RbatisCacheInterceptor` gives to rbatis.

| component | state | operations | talks to |
|---|---|---|---|
| `CacheInterceptor` (`interceptor.rs`) | table `flights`: digest -> `Arc<Mutex<()>>` | `get_or_load`, `invalidate_after_commit`, `lookup`, `store` | backend, the caller's loader |
| `RbatisCacheInterceptor` (`rbatis_intercept.rs`) | none of its own | `before`, `after`, `resolve_key`, `lookup_value`, `store_value` | `SingleFlight`, `L1Cache`, buffers, backend |
| `SingleFlight` (`singleflight.rs`) | table digest -> `LoadState` (value behind a mutex, `Notify`) | `try_begin_load`, `wait`, `complete_load`, `mark_done` (never called) | called by `before` and `after` |
| `L1Cache` (`l1.rs`) | one entry per executor | `get`, `put`, `clear` | hooks |
| `TransactionalCacheBuffer` (`transactional.rs`) | pending entries, namespaces to clear | `put`, `pending_get`, `clear_namespace`, `flush_to`, `discard` | hooks fill it, the listener flushes it |
| `CacheTransactionListener` (`listener.rs`) | the table of buffers | `on_event` (begin, commit, rollback, failures) | buffers, backend |
| `CacheKey`, `CacheEnvelope`, `SqlMetadata` | none | digest, deadline and `is_fresh`, `is_cacheable`, encode, decode | both paths |
| `CachePolicy` | configuration | failure mode, transaction mode, limits, TTL | both paths |
| `LocalBackend` (`local/`) | entries with sequence numbers, generations | `get`, `put`, `generation`, `bump_generation`, eviction (FIFO, LRU, LFU), cleanup thread | implements `CacheBackend` |
| Moka backend | moka cache, one atomic counter | the same four calls | moka crate |
| Redis backend | breaker: two atomics | the same four calls through `run`: breaker, timeout, failure count | Redis server |
| Memcached backend | none of its own | the same four calls, on threads of `spawn_blocking` | Memcached servers |
| metrics, plugin, configuration parsers, codecs, no-op locks | counters, configuration | set-up, counting, conversion | - |

Hard behaviours, each listed at its line under `hazards`: any number of tasks
interleave at every await; the generation moves between two reads of it; a
future is dropped with a lock and a flight in hand; a leader disappears, or
completes another digest than the one it was elected for; a notification races
a subscription; a bump is lost, or applied although it reported an error; a
transaction rolls back what the cache could have learnt from it; writers race
for the last free slot of a full map, and evict by counts that others are aging; a
timed-out or abandoned command reaches the server late; a server loses its counter; calls race on the circuit breaker; hosts
that share L2 disagree about the time.

What makes each component correct:

* `get_or_load`: no answer older than an invalidation that had returned when the
  call began; one loader per digest; a flight in use stays in the table; every
  call ends.
* `SingleFlight`: a load in the table has somebody who will complete it; every
  statement ends, whatever became of its leader.
* hooks, buffers, listener: uncommitted data stays out of L2; a transaction reads
  its own writes; L2 is not older than the announced commits; a statement gets
  the result of its own query.
* `LocalBackend`: the size limit, up to the races; the policy's order of eviction among
  what a search has read, and what racing LFU searches leave of it.
* external backends: a generation a finished call has returned is not gone back
  behind, and no two bumps return the same one, while the counter lives. The Redis
  breaker opens after a run of failures and on nothing else.
* L1, envelopes and keys: a value is not served beyond its lifetime in the levels it
  passes; an entry answers only the question it was stored for. (That L1 keeps its limit,
  and evicts for an executor only what is its own, the code does not keep: section 6.)

## 2. Modules

**`CacheContract`** - what a caller may rely on: versions of the data, announced
versions, requests and answers; no generation, entry or flight. A request that
began when version *v* was announced is answered from a version of at least *v*
that was committed, or gives up.

**`GetOrLoad`** - `get_or_load` and `invalidate_after_commit`. `pc[r]` is the await
at which the call of `r` stands; `gen`, `payload`, `flight` are its locals
`generation`/`key`, `payload` and `flight`; `flights` is the table, `owner` the
guards, `store`/`generation` the backend. One action per await or table access:

| action | code | | action | code |
|---|---|---|---|---|
| `Begin` | parse, bypass tests | | `Recheck` | second `cached` |
| `ReadGeneration`, `GenerationFails` | `backend.generation` | | `Load` | loader |
| `LoadDirect` | `bypass`, fail-open `load` | | `Put` | `backend.put` |
| `Lookup` | first `cached` | | `Unlock` | `drop(guard)` |
| `Join` | `flights.entry(..)` | | `ReleaseFlight`, `Leave` | `release_flight`, return |
| `Lock` | `flight.lock().await` | | `Abandon` | `?` after the loader, dropped future |

The backend keeps the promise of the `CacheBackend` trait: its calls are atomic
and a generation never goes back. `Faults` lists the failures an instance
allows. `announced` and `floor` are history variables. An entry past its
deadline counts as absent, which is all `is_fresh` lets a reader see.
`release_flight`'s `strong_count == 2` is `OnlySharer`: the table and the caller
hold the only clones.

**`GetOrLoadProofs`**, **`GetOrLoadRefinement`** - section 5.

**`SingleFlight`** - `try_begin_load`, `LoadState::wait`, `complete_load` and the
loop of `before` around them, then the query, then `after`. All statements run one
query, so a digest is a generation. Borders of actions are the awaits, plus the
points of `wait` and `complete_load` where no lock is held: between the look at the
state and `notified()`, and between the release of the map reference and
`remove`. DashMap's shard lock is `ShardUnread`. `digest` is the key of the
election, computed once before the loop; `target` is the key computed last, by
`before` in its loop or by `after`: they differ after a bump.

**`ExecutorCache`** - the hooks, `L1Cache`, the transaction buffers and the listener
for sessions that open executors (plain or transactional), query, write, commit
and roll back. The database is external: one writing transaction at a time, read
committed; `fate[v]` says what became of version *v*. `policy` holds the two modes of
`CachePolicy` and the failures to come, chosen by `Init`. The buffer is searched under
generation 0, as `before` does; L1 has one entry per executor and ignores the digest,
as `l1.rs` does, and may lose it at any time, which stands for its TTL and its
limit. `flush_to` is `FlushBump`, then one `FlushPut` for each pending entry.

**`LocalBackend`** - `get`, `put`, `bump_generation` with `evict_if_needed` split at its
accesses to the map, the cleanup thread (`Prune`) and a clock. The map is a DashMap, which
is external: `shardOf` spreads the entries over shards, each behind a lock. An iterator goes
from shard to shard and holds the lock it has until it has the next; an entry it gave out,
like the best one so far of a `min_by_key`, keeps its shard locked for reading (`Reading`,
`Writing`). So every pass is one step *per shard*, and other threads read, insert, touch,
remove and prune before it, behind it and between two passes:

| action | code | | action | code |
|---|---|---|---|---|
| `Room` | `len() < max`, return | | `Age` | LFU: `iter_mut`, subtract (`lfu.rs` 25-27) |
| `Retain` | `retain`, a shard | | `Search` | `min_by_key`, a shard (`fifo.rs`, `lru.rs`, `lfu.rs` 30-33) |
| `Full` | the `while` condition | | `Remove` | `remove(&k)` |
| `Least` | LFU: the least count (`lfu.rs` 23) | | `Stamp`, `Insert` | `fetch_add`, `insert` |

`Before` is the order of each policy. The limit, the policy and the spread are chosen by
`Init`. Two history variables serve the properties: `read[p]`, the entries that are still as
the search of `p` read them, and `counts[p]`, the counts of the entries that nobody has used
since `p` began to look for an LFU victim.

**`GenerationPromise`** - what `generation` and `bump_generation` of the trait promise a
caller: `floor` is the largest value a finished call has returned, `begun[p]` the
floor when the call of `p` began, `taken` the values bumps have returned. A read
returns at least `begun[p]`, a bump more than that and a value not taken; a call may
fail; losing the counter starts the promise again. In the *serial* promise only a bump
that no other bump overlapped vouches for its value.

**`BackendCalls`** - the calls every backend has: `Begin`, `Succeed`, `Fail` (an error, or
a dropped future), with the history variables of the promise. **`RedisBackend`** is
`run` (refuse, send, answer, error, timeout), `record_failure` at each of its
accesses to the two atomics, and a server that may apply an `INCR` after its caller
has gone. **`MemcachedBackend`** is `add` then `increment` on a thread that outlives its
caller. **`MokaBackend`** is the counter of all namespaces and, in a second step, the
entry `generation` reads. **`Backends`** picks one of them in `Init` - an interceptor
has one `Arc<dyn CacheBackend>` - and refines `GenerationPromise` (`PromiseSpec`).
The breaker's counts for the properties (`streak`, `unopened`) stop above `MostLost`, where
the properties are decided.

**`CacheKey`** - `build` with `update_component` (`Digest`, `Frame`) over text as sequences
of naturals, and `is_cacheable` of `SqlMetadata`. `Boundaries` is what must tell two
questions apart. **`CacheKeyProofs`** - section 5.

**`L1Cache`** - `get`, `put` and `clear_for_executor` at each access to the map: `GetHit`,
`GetMiss`, `Clean`; `Replace`, `Absent`, `Room`, `Oldest`, `Evict`, `InsertNew`; `Clear`.
Deadlines are kept as the time left, so the clock needs no bound. The limit is one on
executors, and the victim of `Oldest` the oldest entry of all, as in the code.
**`EntryLifetime`**
composes it with `CacheKey` and the envelope into the way of a result through both
levels: `Ask`, `GetShared` (a fresh L2 entry, promoted), `Load`, `LoadUnasked` (a `before`
that does not look), `Finish` (`store_value`), and `Tick`; the clocks of the hosts
differ by up to `Skew`. **`EntryLifetimeProofs`** - section 5.

`MCGetOrLoad`, `MCSingleFlight`, `MCExecutorCache`, `MCLocalBackend`, `MCBackends` and
`MCEntryLifetime` instantiate them for TLC; **`SingleFlightProofs`**,
**`ExecutorCacheProofs`**, **`LocalBackendProofs`** and **`BackendsProofs`** prove about them
(section 5).

Composition: `GetOrLoad` refines `CacheContract` (`ContractSpec`, an `INSTANCE` with
a refinement mapping) over a backend that keeps the promise and never loses its
counter; `Backends` shows which of that the external backends keep. `SingleFlight`,
`ExecutorCache` and `EntryLifetime` are three views of the same hooks - the election
and one shared entry; the levels of the cache and transactions; time, limits and
keys - and are not composed with one another.

## 3. Runs

| run | instance | shows |
|---|---|---|
| `GetOrLoadSafety` | 2 requests, 2 writers, 1 key, 2 commits, 2 bumps; failing reads and bumps | `TypeOK`, `NoStaleAnswer`, `StoreCurrent`, `SingleLoader`, `NoWrongRelease`, and the refinement `ContractSpec` |
| `GetOrLoadLive` | 3 requests on one flight; failing generation and put, abandoned calls, lost entries; fairness | `SingleLoader`, `NoWrongRelease`, `LoadOnlyOnMiss`, `EveryCallEnds` |
| `SingleFlightSafety` | 2 statements, 3 attempts (the code's constant), 1 bump; failing queries, refused stores, lost entries | `TypeOK`, `CurrentEntryHasLeader` |
| `SingleFlightLive` | 2 statements, 2 attempts; cancelled statements, failing key resolution; fairness | `EveryStatementEnds` |
| `ExecutorModes` | 2 sessions, 1 query, 2 versions, 2 bumps; Bypass failing closed with every call failing, and Defer failing open with failing bumps and puts and lost entries | `TypeOK`, `BypassReadsOwnWrites`, `DeferUnpolluted`, `DeferCommitted` |
| `ExecutorStaleL2`, `ExecutorWrongQuery`, `ExecutorBypassWrites` | 2 sessions, Bypass, no failures | violate `StoreCurrent`, `AnswersTheQuery`, `StoreUnpolluted` |
| `LocalBackend` | 2 threads, 2 digests on different shards, the debugging entry; FIFO and LRU with limit 1 or 2, a clock and 4 numbers, LFU with limit 2 and 6 numbers | `TypeOK`, `BoundedOvershoot`, `EvictionFollowsPolicy`, `AgingKeepsOrder` |
| `Backends` | 2 callers on Redis (threshold 3, cooldown 1), Memcached or Moka; 2 bumps, 1 in flight without a caller; timeouts, errors, dropped futures, lost counters | `TypeOK`, `BreakerOpens`, `OpensOnConsecutiveFailures`, the refinement `PromiseSpec` |
| `MokaContract` | 2 callers on Moka | violates `ShowsLatestBump` |
| `EntryLifetime` | 2 executors, limit 1, TTL 2, null TTL 1, skew 1; two questions whose bytes run together, and a locking read | `TypeOK`, `LifetimeBounded`, `SharedAnswersTheQuestion` |

Why the bounds are enough.

* Requests and statements: a flight is misused by a holder, a waiter and a
  newcomer; three requests are all three, and two play them too because a
  finished call starts again.
* Versions and generations: staleness needs one commit behind another; two of
  each give an entry of the generation before, of the current one, and a
  reader between the two. `MaxGeneration` and `MaxVersion` stop writers only,
  so a run at its bound still goes on reading (deadlock is checked).
  `RoomToBump` keeps `ExecutorCache` from starting a DML it could not finish.
* `Flight` and `LoadState` are identities of allocations: more than can be
  referenced at once, so the allocator never blocks.
* `ExecutorModes` needs two versions: a write, a result buffered, a second write
  that makes it an overwritten one, and the commit or rollback of both.
* `LocalBackend`: two digests and the debugging entry are one or two more than the limits,
  so calls evict. Two shards give a search a shard behind it and one before it, and the
  second has two entries that share a lock. `Scope` gives each strategy its limits and
  bounds. With a limit of one the overshoot of an off-by-one (`RoomAtLimit`) shows within
  four numbers, which fill the map and race twice for room. LFU needs six: two insertions,
  an entry that is used, and two searches, the second of which starts while the first is
  in any of its passes; then both may subtract the same minimum, and an `Age` that lets
  its lock go before it has the next (`WritingBriefly`) is refuted. Time adds nothing to
  the order of accesses, so LFU has no clock here; expiry is the same code for the other
  two. The cleanup thread prunes a shard by any time it may have read. `len`, which DashMap
  adds up shard by shard, is one step. The run may stop at its bound, and a backend nobody
  calls is idle, so deadlock is not checked there.
* `Backends`: two bumps that race, or one late and one new, are all that two values
  can be confused by; a third caller would repeat the part of one of them.
  `Threshold` 3 leaves two failures to lose: two callers that reset late lose 4
  before the circuit opens (`BreakerOpens` with `<` for `<=` is violated), where a
  threshold of 2 cannot tell a loss of each caller's count from a loss of one. `Cooldown` 1
  separates a circuit that is open from one that is not. `MaxGeneration` stops new bumps only, `MaxLate` only a
  second bump from staying in flight when its caller leaves.
* `EntryLifetime`: two executors promote and lose copies of one entry, and a limit of 1
  makes them evict each other; a TTL of 2 and a null TTL of 1 tell the two apart; with `MaxAge`, which is counted no
  further, no envelope and no L1 entry is fresh any more. The proofs lift the rest.

Every property has a mutant of the code (dropped recheck, put under the
generation of now, unconditional release, a missing `clear_namespace`, `set` for
`add`, components without their length, ...) that TLC finds violating it; the
mutants stand beside the action they change.

## 4. Fairness

Only the two liveness runs assume any.

* `GetOrLoad!Fairness`: weak fairness of each call's next step - tokio polls a ready
  task, the loader and the backend answer or fail - and strong fairness of `Lock`,
  because tokio's `Mutex` queues its waiters first come, first served. Callers may
  stop calling, writers may stop writing, and failures may never happen.
* `SingleFlight!Fairness`: the same for a started statement (its timer fires:
  `Timeout` is one of its steps), strong fairness for the mutex of a `LoadState`, and
  for the steps that need DashMap's shard for writing, which `parking_lot`-style
  locks grant to a waiting writer. A follower that is never woken still ends by its
  timeout, at most `MAX_SINGLEFLIGHT_ATTEMPTS` times.

## 5. Proofs

`GetOrLoadProofs` proves, for every set of requests, writers, keys, namespaces,
flights and faults, the invariants that `GetOrLoadSafety` and `GetOrLoadLive` check on
small instances:

| theorem | statement |
|---|---|
| `Invariance` | `Spec => []Inv` |
| `TypeCorrect`, `NeverStale`, `StoreNeverStale` | `[]TypeOK`, `[]NoStaleAnswer`, `[]StoreCurrent` |
| `ReleaseIsSafe`, `OneLoader` | `[]NoWrongRelease`, `[]SingleLoader` |
| `LoadsOnce` | `[]LoadOnlyOnMiss`, if the backend's reads do not fail (`"get" \notin Faults`) |
| `GetOrLoadRefinement!ImplementsContract` | `Spec => ContractSpec` |

None of the properties is inductive. `Inv` is `TypeOK`, and:

* `FlightInv`. `HoldsFlight`: a call between `Join` and `ReleaseFlight` holds the very
  flight the table maps its digest to. `OwnsMutex`: a call is past `Lock` exactly while
  it owns the mutex of its flight. Two loaders of a digest would own one mutex,
  hence `SingleLoader`; `ReleaseFlight` keeps `HoldsFlight` for the others because
  `OnlySharer` says they hold other flights.
* `DataInv`. `AnnouncedCommitted`: what is announced at a generation is committed.
  `StoreInv`: an entry under generation *g* carries at least what was announced when
  the namespace was at *g*. `CallInv`: a call's generation is not in the future, what
  was announced when it began was announced by the generation it read, and what it
  has loaded is at least that new.

The crux is `Put`: it writes under the generation read *before* the load, so the
version loaded is at least what was announced at that generation, whatever was
committed and bumped since. `PutUnderCurrentGeneration` breaks exactly this.

The refinement maps each step: `Begin` is `Ask`, a step to `idle` is `Answer` or
`GiveUp`, a commit is `Commit`, an announcing `Invalidate` is `Announce` (or a stutter
when a newer commit was announced already), all others stutter. It uses `Inv`.

Its assumptions: the bounds are naturals, `NamespaceOf` is a function from keys to
namespaces, `Faults` are known kinds, `None` is no other value. TLC evaluates all
of them in the runs.

`CacheKeyProofs` proves `DigestSeparates`: for any two questions,
`Digest(x) = Digest(y) <=> Boundaries(x) = Boundaries(y)`. Each component is framed by its
length, so two streams that begin with a frame are equal only if the components
and the rests are (`FrameDecodes`); eight uses of it peel the stream from the front,
and the last component is what is left (`FrameInjective`). It assumes that BLAKE3 has no
collisions, as a digest stands for the stream it hashes, and that `NoTenant` is
no text. Without the frame the mutant `Unframed` lets two questions run together.

`EntryLifetimeProofs` proves, for every finite set of executors, every set of questions,
every limit, TTL, null TTL and skew, what the run `EntryLifetime` checks:

| theorem | statement |
|---|---|
| `Invariance` | `Spec => []Inv` |
| `TypeCorrect` | `[]TypeOK` |
| `NothingOutlives` | `[]LifetimeBounded` |
| `AnswersTheQuestion` | `[]SharedAnswersTheQuestion` |

`Inv` has three parts. `TypeInv` is the full type. `AskInv`: a call under way asks a
cacheable question, and what it was served lies under the digest of that
question; `DigestSeparates` turns this into equal boundaries. `AgeInv`: a bound on the
age alone is not inductive, but the *sum* of an entry's age and the time it has
left is kept by every tick and is set by `NewEnvelope` and by `PutOf` only; in L2 it is
at most the entry's lifetime and the skew, and as a promoted entry was fresh, its sum
in L1 stays under that plus one TTL.

`SingleFlightProofs`, for any statements, `LoadState`s, attempts and generations:

| theorem | statement |
|---|---|
| `ShapeHolds`, `SingleFlightTyped` | `[]Shape`, `[]TypeOK`, for every set of faults |
| `CurrentLoadHasItsLeader` | `[]CurrentEntryHasLeader`, if `Faults \cap {"generation", "cancel"} = {}` |

`Shape` adds to the types that a statement in the loop has a round left and holds the
`LoadState` it looks at. `LeadInv`: a leader is past `before`; where it completes a load, its
`digest` is not newer than the `target` it resolved last; where it is done, its `LoadState` is
out of the table or lies under another digest; and no load is of a future generation.
So a leader that completes another digest than its own leaves behind a load of a
generation that is over. The hypothesis is that of the run: a dropped future, or a key
that cannot be resolved again, does leave a load without a leader (section 6), and then
followers end by their timeouts only.

`ExecutorCacheProofs`, for any sessions, queries, versions and generations, and any set of
policies and failures:

| theorem | statement |
|---|---|
| `ExecutorInductive`, `ExecutorTyped` | `[]Inv`, `[]TypeOK` |
| `BypassTransactionsReadOwnWrites` | `[]BypassReadsOwnWrites` |
| `DeferKeepsTheStoreUnpolluted` | `[]DeferUnpolluted` |
| `DeferPublishesCommittedStates` | `[]DeferCommitted` |

`StatementInv` says what the locals of a statement mean at each await. `FateInv` ties the
fate of a version to `committed` and `latest`. `BypassInv`: the statements of a Bypass
transaction that has written never are where the caches are looked at, and what they have read
is `latest`. `DeferInv`: the buffer of a transaction that has written will clear its namespace
before it stores; what a transaction holds, buffers or has stored is committed or its own; and
no entry of the current generation is a state that was overwritten inside a
transaction. A step moves one session, so most of the proof says what a write of
one session leaves true of what the others hold (`DatabaseStep`, `CommittedKept`).

`LocalBackendProofs`, for any finite set of threads, any keys, shards, spreads, limits,
strategies and times:

| theorem | statement |
|---|---|
| `LocalInductive`, `LocalTyped` | `[]Inv`, `[]TypeOK` |
| `OvershootBounded` | `[]BoundedOvershoot` |
| `EvictionOrdered` | `[]EvictionFollowsPolicy` |

`Shape` is the full type with what the locals of a call mean at each label, `Budget` the
numbers drawn and to be drawn. `Overshoot` counts entries *and* the calls that will insert
without looking again: together they stay within the larger of the limit and 1, plus the
other threads. It is counted up to every shard. A call also goes on to insert when its
search finds *nothing*, and as a search takes a step for each shard, others may fill the
shards behind it meanwhile. So for every *s* the entries in the first *s* shards (`UpTo`) and
the calls that have found room, or nothing in those *s* shards (`Inserters`), stay within
the bound together; the last *s* is `BoundedOvershoot`. `Chosen` is about a search: what is in
`read[p]` is still there, and what the search holds is the first of it; the shard of that
entry stays locked until the search is over (`Locked`), so no insertion can slip a smaller
entry under the same key, and `Before` is a strict weak order (`Ordered`), so the first of
the shards so far and the first of the next shard have a first. The number of threads is a
cardinality, hence the assumption that `Client` is finite.

`AgingKeepsOrder` is checked by `LocalBackend` and not proved: an invariant would have to say by
how much the counts in the shards that passes under way have done lag behind those in the
shards they have not, which is a sum over all such passes.

`BackendsProofs`, for any finite set of callers, any threshold, cooldown and bounds:

| theorem | statement |
|---|---|
| `BackendsInductive`, `BackendsTyped` | `[]Inv`, `[]TypeOK` |
| `BreakerStillOpens` | `[]BreakerOpens` |
| `OpenedByConsecutiveFailures` | `OpensOnConsecutiveFailures` (an action property) |
| `PromiseKept` | `Spec => PromiseSpec` (the refinement) |

The promise needs `CallsOK` (a value in hand is not behind the floor of the call's beginning),
and for Redis and Memcached `Fresh`: the server's counter is not behind any value that was or
will be vouched for, and no two bumps hold one value. This is preserved by every kind of
step for both servers alike (`BeginFaithful`, ... `SameFaithful`), because a bump is one
increment of the server whoever waits for it. Moka counts and shows in two steps, so its part
of `Inv` (`MokaOK`) says instead that a bump that vouches is alone, and that a counted
number is above the floor. `RedisOK`, `MemcachedOK` and `MokaOK` also keep the counter plus
all that is still to be applied within `MaxGeneration`.

For the breaker, `unopened <= MostLost` is not inductive: each caller between the store of the
deadline and the reset of the count can still wipe out what has been counted by then.
`BreakerOK` counts them in advance: with only such callers on the way,
`unopened + Cardinality(Resetting) * Short + Short <= MostLost + Smaller(failures, Short)`,
where `Short` is the threshold less one. A failure below the threshold raises both sides by
one; a reset takes at most `Short` from the right and `Short` from the left. The first
failure after an opening is recorded by a caller that is not resetting, so that the
product starts one caller short.

What no theorem states: liveness (`EveryCallEnds`, `EveryStatementEnds`) is out of the
prover's reach, and stays with TLC, and so does `AgingKeepsOrder`. Every other invariant, every
action property and both refinements that a passing run checks are proved; the four violated
properties are of course not.

## 6. What the code does not keep

Four runs end in a violation; `findings` quotes the lines.

* `ExecutorStaleL2` - `after` resolves the key again, so a result read before a
  commit is stored under the generation that commit's bump made. `get_or_load`
  does not have this: its proof rests on the key being built before the load.
* `ExecutorWrongQuery` - L1 answers any query of an executor with the entry it
  has. As the digest holds the generation, an L1 entry survives bumps too.
* `ExecutorBypassWrites` - `before` bypasses the cache in a transaction, `after` does
  not, and stores uncommitted data in L2.
* `MokaContract` - a bump counts and shows in two steps; of two racing bumps the
  older may show its number last, and `generation()` then stays behind a bump that
  has returned. This is why Moka keeps only the serial promise.

Four more places where the code does other than its docs or tests say, found while modelling
and seen in the behaviours of the models, and no run is kept for them:

* A Defer transaction that reads, writes and reads again is answered with what its own DML
  has replaced. The first result is buffered; a DML clears L1 and marks the namespace, but
  leaves the buffer, which is searched under generation 0 (`rbatis_intercept.rs` 288); an
  entry of L2 does the same. The comment on the DML says "清 L1（本 executor 会话立即一致）"
  (415). `BypassReadsOwnWrites` is about Bypass only.
* LFU may remove a more used entry. The minimum is stale when it is subtracted (`lfu.rs` 26):
  two threads read the minimum 1 over *a*, older and used twice, and *b*, used once; both
  subtract it, both counts are 0, and *a* goes. `mod.rs` 66 says "驱逐访问次数最少、同次数最旧的条目",
  the test at 431 asserts it on one thread. What remains is `AgingKeepsOrder`: an older entry
  that was used no more than another does go first.
* L1 may hold more entries than its limit. Two puts of new executors both see room, or remove
  the same victim, before either inserts (`l1.rs` 67-74); a later put removes one entry and
  adds one, so the excess stays. The test at 112, on one thread, asserts "capacity must stay
  bounded". No bound below the number of executors holds, so no property states one.
* L1 evicts for an executor what is another's. `l1.rs` says that the entries of *each
  executor* are limited (7, 22, 35), and that a put over the limit removes "该 executor
  最旧的条目", the oldest of that executor (56). In the code an executor has one entry, the
  limit is on executors, and the victim is the oldest entry of any of them (68). The test at
  line 107 expects what the code does. The model follows the code.

Read in the code while modelling, visible in the models and not checked by a run:
a failed loader leaves its flight in the table until the digest is loaded again
(`interceptor.rs` 122); a follower between its look at the state and `notified()`
misses the notification and sleeps until its timeout (`singleflight.rs` 114);
`complete_load` is no no-op for a statement that does not lead (76), and a load whose
generation is over when `after` runs stays in its table - `CurrentEntryHasLeader` says
that this costs memory, not progress; followers are woken before the value is stored
(`rbatis_intercept.rs` 379); in fail-closed mode `after` drops the error of
`resolve_key` (374); racing writers of `LocalBackend` exceed the limit (by no more than
`BoundedOvershoot` allows) and may evict an entry written after the victim was chosen. A
missed or dropped notification of `SingleFlight` is bounded by the timeout, which is all that
`EveryStatementEnds` says of it; a bump that fails in `flush_to` is logged and lost
(`listener.rs` 88), and no property demands more.

In the backends and levels: the reset that ends one call's opening of the Redis
circuit wipes out failures other calls have counted since (`redis_cache.rs` 142): with *n*
callers and threshold *t*, up to *n*(*t* - 1) failures without a success may pass before it
opens (`BreakerOpens`; TLC reaches that number). Moka's counter is shared by all namespaces, its `put`
ignores the `ttl` it is given, and when its generation entry expires or is evicted the
generation reads 0 again and entries stored under 0 are within reach; Redis and
Memcached do the same when the server loses the key. The guarantees of
`GetOrLoad` hold between such losses. L1 measures every entry by `CachePolicy::ttl`, an
empty result too (`rbatis_intercept.rs` 211), which is the TTL in `LifetimeBounded`. `flush_to` stores empty results for the full TTL
(`transactional.rs` 66).

In code that is not modelled, and so only read: a clock before the epoch reads as 0,
for which every entry is fresh, while the comment at `envelope.rs` 71 says old entries
are rejected; `redis.port` puts `127.0.0.1` in the place of a host set before it
(`configuration_builder.rs` 63 of the Redis backend), and `redis.soTimeout` sets the connection
timeout (81) where `redis_config.rs` 26 says the operation timeout; Memcached's
`operation_timeout` is parsed, but the connection says `timeout=2` (`client_wrapper.rs` 36);
a tenant named `-` shares its digests with no tenant at all (`key.rs` 68).

## 7. Not modelled

* `CacheInterceptor::lookup` and `store`: nothing in the crate calls them yet.
* BLAKE3 and sqlparser: external; a digest stands for the stream that is hashed,
  and a statement for what the parser finds in it. The models other than
  `EntryLifetime` take a digest to be the pair of a query and a generation.
* Encodings, byte codecs and serializers: a decoding error is a backend that fails.
* A clock before 1970 (above).
* The entries of the external backends: one command each, taken by `BackendCalls` as
  an `entry` call that shares the breaker and the threads with the others; the choice
  of a Memcached server (`consistent_hash.rs`) is not modelled.
* `LocalBackend` without a limit (`max_entries` absent): nothing is evicted then.
* Configuration parsers, metrics, logging wrappers, plugin, no-op locks: no shared
  state the control flow depends on.

## 8. Plan

Done: `CacheContract`, `GetOrLoad`, its proofs and refinement; `SingleFlight`;
`ExecutorCache`; `LocalBackend`; `GenerationPromise` and the external backends; `CacheKey`,
`L1Cache`, `EntryLifetime`; and the proofs of every invariant and action property that
the passing runs check but `AgingKeepsOrder`, with both refinements.

What the proofs changed in the models: `BreakerOpens` first allowed for one lost failure per
caller, which holds for a threshold of 2 only; its invariant could not be made inductive,
TLC then found the violation for a threshold of 3, and the bound is now `MostLost`. `TypeOK`
of `ExecutorCache` now orders `announced`, `committed` and `latest`; the callers of a backend are
assumed finite. `BoundedOvershoot` of `LocalBackend` was an invariant of a simple count as long
as a search was one step; with one step for each shard it had to be counted up to every shard.

Left to prove: `AgingKeepsOrder`; `CurrentEntryHasLeader` under dropped futures, with the leaderless load as the
exception.

Left to model: `SingleFlight` composed with `ExecutorCache`, a follower answered from the
leader's store; `GetOrLoad` over a generation that may go back, and what remains of
`NoStaleAnswer` there; puts that a server applies late.
