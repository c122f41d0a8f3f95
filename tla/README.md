# A TLA+ model of llm-mojo

llm-mojo runs Qwen2 on a GPU from Mojo. What is hard to get right by testing is
not the numerics but what surrounds them: a paged KV cache with explicit block
ownership and a prefix cache that shares immutable blocks; an engine that
admits, preempts, replays and finishes requests over both, with steps queued
ahead on two device contexts; policies that delay admissions on a forecast; and
the Python around the engine, where several worktrees and commands share stores
of models and fixtures, and evaluations vouch for what they ran. This directory
models these parts, checks them with TLC and proves with TLAPS the central facts
of the block manager, the prefix index, the synchronously stepped engine, the
two-context runner, the setup and launch commands, the fixture cache, and the
evidence of evaluations and campaigns.

Contents: [inventory](#inventory) · [modules](#modules) · [runs](#runs) ·
[bounds](#bounds) · [fairness](#fairness) · [proofs](#proofs) ·
[findings](#findings) · [limits](#what-the-models-assume-and-leave-out) ·
[not modelled](#not-modelled) · [plan](#plan)

## Inventory

Paths are relative to `src/src/llm_mojo/` unless they begin with `studies/`
(then to `src/`).

| component | state | operations | interacts with |
|---|---|---|---|
| Block manager, `serving/blocks.mojo` | free list, block states and references, per-sequence table, length, reservation | add, attach, reserve, commit, register, evict_registered, truncate, release, detach, reset | called by prefix cache and engine |
| KV pool, `serving/kv_pool.mojo` | `written` count per block, device buffers | append, truncate, reset, relayout | written by runners, cleared by whoever frees a block |
| Prefix cache, `serving/prefix_cache.mojo` | entries (key, block, last use), use clock | match, reclaim, admit, publish, clear | owns the Registered state of blocks |
| Engine, `serving/engine.mojo` | requests, tickets, steps, failure flag, pending steps | add, abort, step, step_async, drain_async, clear_cache | drives all of the above and a runner |
| Prefill policies, `serving/engine.mojo` | cohort and its forecast; a cost policy | admission permission, invalidation, chunk choice | decide inside the scheduler |
| Step batch, `serving/batch.mojo` | rows of one step | validate | engine to runner |
| Runners, `serving/runner.mojo`, `models/qwen2/runner.mojo` | staging banks, tickets, two device contexts | execute; submit, collect, drain, reset | write the pool, select tokens |
| Greedy generation, `cli/generate_cli.mojo` | one sequence, a report of events | prefill, sample, decode, report | audited by `validation/model.py` |
| Prefill audits, `studies/.../retention/independent_raw_audit.py` | index, owners, block counts | replay of every step | read what an engine run recorded |
| Evidence retention, `studies/.../frequency-prefill/retention/prefix_retention.py` | directories of packed and restored measurements | pack, restore | git, files, the audits |
| Numerical evaluations, `validation/{model,decoder,mlp,evidence}.py` | build receipt, reference data, reports | build, and twelve tools | compiler, drivers, files |
| Fixture cache, `validation/{fixtures,suite}.py` | shared entries (tree, record, lock), links of worktrees | ensure, rebuild, attach, generate locally, detach, prune | several worktrees at once |
| Model store, `runtime/store.py`, `models/qwen2/assets.py` | shared downloads and prepared model, links | provision, adopt, publish, link | several commands at once |
| Build and tables, `runtime/build.py`, `models/qwen2/tokenizer_assets.py` | binary and receipt, tables and manifest | build, generate | sources of the checkout |
| Setup and launch, `cli/` | none of their own | setup, launch, tokenizer | store, tables, build |
| Chat sessions, tokenizer, model, kernels, terminal, toolchain, benchmarks | see [not modelled](#not-modelled) | | |

What makes each of them correct:

* **Block manager and pool.** No block is free and held, or free twice; stored
  reference counts are the tables' references; a block is written only through
  its single owner; a table is never remapped while it lives.
* **Prefix cache.** The index names exactly the Registered blocks; what a key
  names is computed from exactly that history; an operation that passed its
  validation cannot run out of blocks half way; tenants are kept apart.
* **Engine.** FIFO admission, preemption of the newest only; no step raises on
  its own; replay is invisible; one terminal event per request; a failure leaks
  nothing; every request ends. Stepping asynchronously: blocks under queued
  work stay with their request, a successor never has to evict, a token that is
  not yet known is the immediate predecessor's.
* **Two-context runner.** Whatever the pace of the contexts, tokens are those
  of running the steps in order, and nothing is queued when nothing is pending.
* **Prefill policies.** The record of a run replays by independent rules; a
  forecast that stayed valid was exact; a chunk is the largest its target
  allows.
* **Generation.** Its report balances: an audit written in another language
  accepts every report and none with an event missing.
* **Stores and builds.** What verifies is what its key says; valid entries are
  only replaced by valid ones; "ready" stays true; a launch runs what its own
  sources make; nobody's own files are lost.
* **Evaluations and retention.** A passed report names what ran and what was
  read, and its checks cover every row; an archive reads back as its source; a
  restored measurement is the one that was packed.

The hard behaviours: one step of the engine is dozens of calls on three
structures; preemption inside scheduling and eviction inside admission and
publication; a runner that fails after writing part of a batch; slots, blocks
and staging banks reused while work that names them is outstanding; files
looked at and then used by commands that run side by side and can be killed
anywhere.

## Modules

```
TokenService            BlockOwnership        TicketRunner      PrefillAudit
     ^ refines               ^ refines             ^ refines          ^ refines
EngineAsync                  |                AsyncRunner       PrefillEngine
EngineSync                   |                                        |
EngineScheduler              |                                  PrefillTrace
     | CachedSequences       |
     +---- KVRows            |         PrefillCampaign = PrefillEngine + Retention
           PrefixCache       |         Setup > CheckoutBuild > ModelStore
           BlockManager -----+         Evaluation > Schedules
                                       FixtureCache  StepCost  ColumnArchive
                                       GenerationReport

KVCache_proofs <- EngineServices_proofs (AsyncRunner, CachedSequences)
KVCache_proofs <- EngineScheduler_proofs <- EngineSync_proofs <- EngineAsync_proofs
Setup_proofs     FixtureCache_proofs     Evidence_proofs (Evaluation, Retention)
```

### Serving

* **BlockOwnership** (abstract): blocks are free, owned by one sequence or
  cached; only owners write; only unread cached blocks are reclaimed.
* **BlockManager** models `BlockManager` and the counts of `KVPool`, one action
  per call; validation is the guard, since the code validates before it changes
  anything. A call that frees blocks includes the caller's clearing of their
  counts, which the code always makes next. `Write` is a runner's append:
  `enqueued` remembers what the counts stand for until `Commit`. Tables are
  1-based, and "no sequence" is 0 instead of -1.
* **PrefixCache** adds the index. `admit` and `publish` make several manager
  calls; each is a step and `call` is the operation in progress, so invariants
  are checked in its middle, too. The clock saturates at `MaxClock`.
* **KVRows** gives rows contents: the history a row was computed from. An
  append reads the previous row through the sequence's own table.
* **CachedSequences** is the most general client of the index: it stands for
  every caller that respects the contracts of manager and index.
* **EngineScheduler** models requests, `add`, `abort`, `_finish`, `_preempt`,
  `_make_room`, `_schedule`, `_schedule_prefill`, for both reservation
  policies, with and without prefix caching, mixed or standalone. `step.phase`
  is the program counter of the call; `mode` is chosen by Init and stays.
* **EngineSync** completes `step`: batch, execution sequence by sequence, its
  failure before, between or after writes, commit, publication, sampling; and
  the host's calls between steps.
* **EngineAsync** models `step_async`, `drain_async` and `_fail_async` over the
  same scheduler. `queue` holds the outstanding steps with tokens chosen at
  submission and unseen until retirement; `inflight` is what the runner's work
  may touch. Submission, collection and the drain that follows may each raise.
* **TokenService** (abstract) is what a host may rely on. `account` in the
  engine is history: it is written where the code appends events and read only
  by properties.
* **TicketRunner** (abstract): consecutive tickets, at most two unanswered, and
  answers that running the steps one after the other would give.
* **AsyncRunner** models `QwenAsyncRunner`, with `stage_metadata` and
  `forward_staged`: the host fills a pinned record and queues commands on one
  of two contexts; each context runs its queue at its own pace; workspaces and
  KV are shared; waits order them. Host enqueues of one call are one action:
  device commands queued in between commute with those still to be queued.
* **PrefillTrace** is the trace of a study (seed, handoff, measured requests,
  clear) and the vocabulary of records; **PrefillEngine** the engine under the
  fixed, adaptive and frequency policies, scheduling as one action because
  nothing runs beside a step; **PrefillAudit** the independent audit's replay,
  which knows keys, owners and counts but no physical block.
* **StepCost** is the cost policy: a prediction in saturating integers and the
  binary search for the largest chunk under a target.
* **GenerationReport** is the generation loop with its events, and beside it
  the study's audit of them. Which measured multi-row configuration a call
  takes is left open, and so are the tokens.

### Around the engine

* **ModelStore**, **CheckoutBuild**, **Setup**: provisioning of the shared
  store, the tables and binaries that stay in a checkout, and the commands that
  run both, each file-system step an action. A content is `Valid` or not;
  sources are versions, and what is made from them the set of versions read.
* **FixtureCache**: one family of oracle fixtures in the shared store, and the
  suite, hand commands and prune that read and write it from several worktrees.
  A lock is an inode at a path: a process may hold one that was unlinked.
* **Schedules**, **Evaluation**: the declared call schedules and censuses, and
  each of the twelve tools as the sequence of its checks, reads and runs,
  against edits, builds, removals and new reference data.
* **ColumnArchive**: the columnar rewriting of a log of records and its reader.
* **Retention**, **PrefillCampaign**: pack and restore of a finished campaign,
  which the engine's traces produce.

Definitions marked "Mutant" are the same definition with a plausible bug. No
specification uses them; PROJECT.json pairs each with the property that fails
when it takes the definition's place.

## Runs

| run | what it shows |
|---|---|
| `block_manager` | the manager's and the pool's audits hold after every call of any client; writes are private, cached blocks stay; refines `BlockOwnership` |
| `prefix_index` | for two tenants, an index smaller than the pool and the general client: the index is exact, shared rows are the reader's own history, no operation gets stuck, no live table is remapped |
| `engine_cached` | prefix caching and lifetime reservations, and steps that fail: rows attended to are right, no step raises by itself, the watermark is kept beside residents |
| `async_pressure` | queued successors on a short pool: audit, FIFO, progress of the oldest, no eviction under a step, symbolic tokens resolve to what was delivered; with failures at any step |
| `async_service` | four configurations with aborts, empty requests, stops, slot reuse and failures anywhere refine `TokenService`, and a failure whose drain succeeds leaks nothing; the two-context runner refines `TicketRunner` |
| `async_liveness` | every accepted request ends |
| `fixture_cache` | entries are what their keys say and are kept, a run that passes read oracles of the inputs its checkout holds then, own files survive |
| `setup` | the store only improves, "ready" stays, a launch is fresh |
| `evaluation` | receipts and passed reports are true and complete; archives read back; generation reports balance |
| `prefill_policies` | every closed trace refines `PrefillAudit`; valid dense forecasts are exact; restored campaigns are the packed ones; chunks are the largest allowed |
| `standalone_watermark`, `setup_tables` | the counterexamples of the [findings](#findings) |

Three runs hold parts that do not interact: a behaviour of `MCEvaluation` is
one of the evaluations, of a compaction, or of a generation; of `MCPrefill` a
campaign or a cost policy; of `MCAsyncService` the engine over the abstract
tickets, or the runner under them. The part is chosen by Init.

A synchronous step is a behaviour of `EngineAsync`, too (an engine may step
synchronously before its first asynchronous step), so the asynchronous runs
check it as well; only `engine_cached` is synchronous throughout.

## Bounds

* 4 blocks and 3 sequences for the manager: two readers of one cached block
  beside an owner, and a free list that runs out. Blocks of 2 positions: a
  boundary falls inside a prompt, at its end and inside the output.
* 3 blocks for the engine, with sequences of up to 6 positions: any request
  fits alone (the code's condition) and no two grown ones do, so preemption of
  oneself, of another, and admission beside a resident all occur. 4 blocks for
  the index: a history of two cached blocks, a second tenant, and still blocks
  to run out of.
* `MaxTickets = 3`; 2 slots in `async_service`, so that a slot is reused beside
  a live request and an outstanding step. `TokenBudget = 3`,
  `MaxSequences = 2`: a prompt of 3 fills a step alone and must be split beside
  a decode. In `engine_cached` the budget is 4 and `PrefillCap = 2`: the cap
  binds beside a decode, and not otherwise. `MaxClock = 2`: most victims
  are ties. `Sampled = {1, 2}`, 2 being the stop token. `Watermark = 1`.
* The runner takes 3 steps between two resets (`MaxSteps`): a bank is used
  again while the other context may still read it; one reset; four shapes of
  steps, with no sample, one or two, chained or not.
* Two worktrees, of which one is attended, two versions of inputs, one fault
  and one prune for the fixtures; two processes, one or two checkouts, three
  commands, one fault and one edit for setup. Each protocol is between two
  parties, and a third command finds what the first two left.
* Twelve tools, two builds, two evaluations, two changes, one output path.
  `Schedules` uses the declarations of `tests/fixtures` unscaled, on lengths
  around each threshold (4, 17, 64, 257), with an exhaustive bound of 4.
* Archives of up to 5 lines in blocks of 3: a full and a partial block, three
  layouts of keys, a line that is refused.
* A context of 6 and 2 layers for generation: budgets cut short by the context,
  exhausted prompts, chunks that leave one row.
* Several hundred traces of four measured requests, blocks of 2 tokens, pools
  of 7 to 14. Reasons that no trace of this size meets: `no_private_blocks`,
  `incompatible_initial_state`, `zero_gap_budget`, `sequence_slots`,
  `geometry_changed`, `unfrozen`, `not_member`. Campaigns: three, of which two
  are complete and one is over other sources; one edit, two faults, one
  restoration.
* Six-bit integers for the cost: predictions that fit and others far beyond;
  targets below the largest integer, which stands for "any".

`Permutations` of blocks, of request IDs, of tenants (same prompts), of
processes, checkouts, references and stages are symmetries: they are only
compared for equality. Liveness is checked without symmetry. Deadlock is
checked in the block manager, index, engine, liveness and fixture runs; the others really may stop: an engine whose failure drain raised keeps
its blocks for good, a killed command or a finished evaluation, campaign or
generation has nothing left to do once its bounds are reached.

## Fairness

Only `EveryRequestEnds` needs any. `FairAsync` assumes that a call of `step`,
`step_async` or a drain that has begun runs to its end (straight-line code over
finite loops, and the runner returns), and that the host keeps stepping while
requests are live, as the CLI and trace drivers do. Hosts owe nothing else: no
request, no abort, no cache clear. Failures are off in that run: a failed step
ends all its requests, which `async_service` covers. Scheduling needs no
fairness among requests; that FIFO order provides it is the point. Crashes and
edits elsewhere owe nothing to anyone, so nothing is claimed of the Python
parts beyond safety.

## Proofs

TLAPS proves the following for every value of the constants that satisfies the
assumptions of the modules, which are what the constructors validate:
`GeometryAssumption` (a finite pool, positive block size and limits),
`CacheAssumption` (an index no larger than the pool), `EngineAssumption`
(positive limits, a token budget within the context, a watermark within the
pool); and what the inputs are: `PromptsAssumption` (the general client's
prompts are nonempty sequences), `HostAssumption` (the engine's host submits
sequences, empty ones too, and budgets that are natural numbers),
`ShapesAssumption` (a runner's steps have a bounded number of samples), and
`StoreAssumption`, `BuildAssumption` and `FixtureAssumption` (finitely many
processes, checkouts and worktrees, and bounds that are natural numbers), and
`RetentionAssumption` (a commit and documents for every campaign). Four
theorems have a hypothesis of their own, which is a constant of the model that
the runs set, too; it is named in the table and explained under
[limits](#what-the-models-assume-and-leave-out).

| theorem | says |
|---|---|
| `Inductive` | `Spec => []IInv` |
| `TypeCorrect`, `AuditNeverFails`, `PoolCountsAgree` | `TypeOK`, `Consistent` (the manager's `check`) and `PoolAgrees` (`check_pool`, strengthened) always hold |
| `WritesArePrivate`, `RegisteredStays`, `TablesKeepTheirPlaces` | the three action properties of the manager |
| `ManagerImplementsOwnership` | `BlockManager` refines `BlockOwnership` |
| `ClientInductive` | the invariant of index, rows and operation in progress |
| `IndexStaysExact` | `PrefixCache.check` never fails, in the middle of an operation either |
| `SharedAuditNeverFails` | nor does the manager's, beneath the index |
| `SharedTablesKeepTheirPlaces` | `NoRemap`, also where prefixes are shared and published twice |
| `SharingIsInvisible` | shared rows are the reader's own history, over its own tenant's keys |
| `OperationsFinish` | reclaim, admit and publish never fail half way |
| `EngineInductive` | the invariant of the engine stepped synchronously |
| `RowsAreOwnHistory` | `KVCorrect`: attention reads rows of one's own history only |
| `FirstComeFirstServed` | residents are older than waiters |
| `StepsNeverRaise` | no step runs into one of the code's own checks |
| `OldestIsNeverPreempted` | preemption never takes the oldest live request |
| `RequestsStayConsistent` | the requests' part of the engine's audit holds between calls |
| `AsyncInductive` | the invariant of the engine however it is stepped |
| `NothingFreedInFlight` | `InFlightHeld`: what the device may use is held by a request, by its ticket |
| `FailureLeaksNothing` | `FailureReleases`: after a failure every block is free and empty, unless the drain raised as well and left tickets uncollected |
| `RunnerInductive`, `DrainedIsDone` | the two-context runner's invariant; nothing is queued when nothing is pending |
| `RunnerImplementsTickets` | `AsyncRunner` refines `TicketRunner` |
| `SetupOrder` | who provisions, makes tables or makes the binary holds the lock of it |
| `StoreImproves` | `StoreOnlyImproves`: no step of a command replaces or removes a valid shared entry |
| `LaunchesAreFresh` | `LaunchIsFresh`: a launch executes what its own sources make (`~MayEditTables`, `~MayRestore`) |
| `ReadinessStays` | `ReadyStays`: what setup called ready stays so until the checkout itself is edited |
| `FixtureOrder` | types, and the link a run tests through is that of its inputs |
| `OwnFilesSurvive` | `OwnFilesKept`: files that no validation generates are never lost |
| `EntriesAreGenerated`, `EntriesAreForTheirKeys` | trees of the shared store, and so `EntryIsForItsKey`: generated from the inputs of their key (`~MayRevert`) |
| `PassesDescribeTheCheckout` | `PassDescribesCheckout`: when a run passes, every oracle it read is of the inputs its checkout holds then (`~MayRevert`) |
| `ValidEntriesAreKept` | `ValidEntryKept`: no validation replaces an entry that verifies (`PruneAlone`) |
| `ReceiptsAreTrue` | `ReceiptIsTrue`: a receipt beside its binary names the sources it was compiled from |
| `PassesAreWhatRan` | `PassIsWhatRan`: a passed report is about the build, the references and the candidate it names |
| `RestorationsAreMeasured` | `RestoresWhatIsPacked`: a restoration that succeeds is what was packed, and what was packed restores |

### The manager

`IInv` is `TypeOK /\ Consistent /\ PoolAgrees`. None of its parts is inductive
alone. That the pool agrees after `Reserve` needs the popped blocks to be empty
(`PoolAgrees` for Reset blocks) and to be Reset (`FreeOnce`); that reference
counts stay exact after a truncation needs tables without repetition and
private blocks with a single owner; that a free list stays without repetition
after `Return` needs private blocks not to be on it; and that states match
lengths after a commit needs `lengths <= enqueued <= reserved` with tables
exactly as long as the reservation. `KVCache_proofs` begins with the
arithmetic (ceilings, whole blocks, coverage of a block by a length), derives
what one state tells (`HeldState`, `FreeUnheld`, `PrivateSole`, ...), then has a lemma for giving blocks back,
which truncate, detach and reset share, then one lemma per action, and combines
them in `NextIInv`. The action properties and the refinement follow from `IInv`
of the state a step starts in: a commit is a stutter of the discipline, a
registration a `Retain`, a truncation and a release a `GiveBack`.

### The index

`CacheInv` adds to `IInv` that the index is exact and that what the operation in
progress was validated for is still there (`ReclaimCall`, `AdmitCall`,
`PublishCall`, ...). The last is needed because an operation is many steps:
after its first eviction only the count of what is left to reclaim says that
another victim exists, and in the middle of a publication only `Remaining` says
that a block not yet filed is private or already indexed under this very
history. `ClientInv` adds the rows: each block the index names holds the rows of
its key, each sequence's blocks those of its own history (`OwnRows`), and the
arguments of the operation in progress are those the client knows. Rows need the
index to be exact, since a borrowed block's contents are known by its key alone.

The victim of an eviction is the least recently used of the entries that may
go; that there is one is the least element of a set of natural numbers, which
`LeastNatural` takes from well-founded induction on finite subsets. How
many may still go is counted with cardinalities.

### The engine

One call of `step` takes many steps of the model, and the audit does not hold in
the middle. `EngineInv` says phase by phase what does. It is a conjunction of
four:

* `Core`: a request that goes on stands where its history ends; one that is
  selected has room, then has its rows run, then has them committed; what the
  step in progress selected or aims at stays possible until it is used; a call on
  the index stands for the request it was made for.
* `Fifo`: residents are older than waiters, a prefill is the newest resident,
  no request is selected before an older decode was.
* `Rows`: what a sequence's blocks hold are rows of its request's history.
* `Synchronous`: nothing is outstanding.

They need each other: that making room never takes a request that was already
selected rests on the order; that some resident other than the selected ones has
blocks to give rests on who holds them and on the index being reclaimable; that
the batch is valid rests on both; and the rows of a shared block rest on what
the index files. `EngineScheduler_proofs` has the boundary, the choice of
decodes, making room, preemption, admission and the calls on the index;
`EngineSync_proofs` has execution and its failure, commit, publication, sampling
and the host's calls, and combines them. Two results need a little more.
`OldestKeepsBlocks` needs `Fits`: a live request's peak never exceeds the pool,
which `add` checks and no later step weakens. `RequestsConsistent` after a
failure needs `LeftEmpty`: a failed engine holds no sequence. TLC checked
`EngineInv`, `Fits` and `LeftEmpty` on the pool of `engine_cached` in all eight
modes before they were proved.

These theorems are about `EngineSpec`, every host and mode of it. `async_pressure`
checks `ResidentsOlderThanWaiters` and `OldestKeepsBlocks` of the asynchronous
engine, which they do not cover.

### Asynchronous stepping

`EngineAsync_proofs` is about `AsyncSpec`, an engine that may step synchronously
first. Until its first asynchronous step it is the engine above (`EngineInv`,
with `LeftEmpty` and `Cleared` after a failure); that step is refused with the
prefix cache on, so from then on nothing is cached (`Uncached`). Then:

* `Accounted`: a request's `uses` and `samples` are exactly those of the places
  in the queue that still count for it; with a use it holds blocks under the
  ticket the place names, and a request that drains has one.
* `Flying`: what a queued step may read or write is in the tables of the
  requests it selected.
* `Batched`, `Aim`: what the call selected or aims at is a resident; `Waits`:
  how long the queue is at each phase.

`InFlightHeld` alone is not inductive: that `retire` may release a request when
its last use is settled needs the counts to be exact, and they are not the length
of anything. While a batch is enqueued request by request, or a step retires
place by place, a queue entry counts in part. `Counted` says which places do, at
each phase, and most of the proof is that each action moves it by one place.
Scheduling a second step keeps `Flying` because whatever releases, truncates or
preempts leaves requests with a use alone (`PassChanges`).

A failure forgets the queue without settling it, so nothing of the above is left
but that every block the device may use is held, and that some request holds
blocks if anything is in flight (`Grounded`). The drain ends both. A call that fails
is over only when nothing is live or when its drain raised, and then tickets are
uncollected (`Emptied`): so between two calls of a failed engine with nothing in
flight no request holds blocks; then no sequence is active, no
reference is left, no block is registered, and the free list, which repeats
nothing, is the pool (`AllReleased`).

TLC checked `AsyncInv` on the instance of `async_pressure`, and with fewer
tickets in the five modes of `async_liveness`, before it was proved.

### The runner

A wait makes the commands of a step run after all those of the one before it, so
of two steps on their way only one is in progress. `Progress` says which command
it has reached and what those before have left in bank, workspace and pool, and
that the bank behind it still holds what its predecessor selected; `Bookkeeping`
says what the host has noted of both. The refinement follows since `Done` says
that a bank's samples are those that running the steps in order computes, unless
one was nonfinite and is still to be collected (`Tainted`).

### Setup and launch

`Base` is the types, the locks (`Locks`) and that what a setup is about to move
out of the way did not verify (`Unverified`). The last needs the first: only the
holder of the store's lock moves or publishes entries, so nobody has put a valid
one there since the look. With `Base`, each step of a command is shown once to
have `Effects`, which bound what it may change of the store, of the links, of
its checkout's products and of its locks. That is what makes several commands
tractable: an invariant of one process is kept by all others' steps through
`Effects` alone, and by its own step action by action.

`Freshness` is what a launch rests on. That the tables and the binary at the end
are those of the checkout is not inductive; what is: a manifest or receipt names
the one version its content was made from, whoever makes one has read a single
version that the checkout had since its command began, and so has everybody who
was waiting for it. The compilation hashes its sources before and after, which
tells of an edit between only if no edit is undone (`~MayRestore`); the
generation of tables hashes once, afterwards, which `~MayEditTables` makes
harmless and `setup_tables` shows is not in general.

`Undisturbed` follows a setup that no edit, fault or other layout disturbs
(`quiet`): at each of its steps what it has already linked and made is good
(`SoFar`), and for a checkout that was told it is ready all of it is.

### Fixtures

`FixtureTypes` and `Confined` come first: what a step of one worktree leaves
alone of every other's checkout, run, lock and staging area, and of entries for
other inputs than its own. With the fields of a run before and after each step
(`LookFields`, `RebuildFields`, `TestFields`) the rest is about one worktree at a
time.

* `OwnFiles`: somebody's files are in the checkout or set aside, and *not* in
  the checkout while a generator writes in place, or a clone is made. The second
  part carries the induction: it is why overwriting the directory loses nothing.
* `Generated`: every tree in the store, described or not, comes from the inputs
  of its key. A generation may read inputs that change under it, so `made` is
  bounded by the inputs at its start and now; when both ends agree
  (`ChangedInputs`) it is a single version, since inputs only move on
  (`~MayRevert`). A run passes only by `Confirm`, which compares the checkout's
  inputs with those it began with (`PassedByConfirm`), and what it read meanwhile
  is of the latter.
* `Orderly`: an open lock is the one at its path (`LockKept`), has one holder
  (`OneHolder`), and who found nothing valid under it still finds nothing valid
  (`Unverified`). The three need each other and prune: a lock file that prune
  removes while it is open lets a second process create, and hold, another one.
  Hence `PruneAlone`, under which `PruneApart` says that prune runs only while
  all worktrees are idle. That a new lock file has an inode nobody has open is
  counted: there are more inodes than worktrees, entries and prunes to hold one.

TLC checked `OwnFiles`, `Generated` and `Orderly` on the instance of
`fixture_cache` before they were proved.

### Evidence

Of an evaluation, `Follows` says what it knows past each step of its course
(`Stage`, common to the three that compare their receipt again). What it knows is
mostly conditional, as the checks are: *if* no build was begun since the receipt
was taken, the binary is the receipt's or gone, and what was executed is that
binary (`HasBuild`); *if* the arrays are those of the manifest now, those that
were read were too (`HasArrays`); *if* the sources are the build's, the capture's
declarations were seen among them (`HasDeclarations`). The second look discharges
each condition. For builds that is the receipt's date, which a later build
exceeds (`Receipted`); for sources and references it is that they do not come
back to what was recorded, the abstraction of a digest. `Compiling` is the same
argument for a compilation, and `ReceiptIsTrue` rests on it alone.

A restoration accepts one file after the other (`Accepting`): from the archive
on, what it holds is of the bundle it expects, which was announced and therefore
packed from one complete campaign (`Coherent`). The second half of
`RestoresWhatIsPacked` needs that a pack's archive manifest is a bundle or
damaged, whatever is exchanged between packs (`Manifests`).

### What stays with TLC

* Liveness (`EveryRequestEnds`): the prover has no support for it here.
* `WatermarkKept`: true of lifetime reservation and mixed steps, which
  `engine_cached` has, and false of a standalone prefill (see findings).
* Of asynchronous stepping, `EngineAudit`, `SuccessorNeverEvicts` and
  `ChainedAsDelivered`, which speak of where each request stands. `AsyncInv` has
  only what is held, so it would have to be joined with the parts of `Core` and
  `Rows` that stay true when a step is scheduled on another's promises.
* The refinements `DeliversTokens` and that of `PrefillAudit`.
* What recursive functions compute for every input: schedules and their census
  (`PassCoversRows`), archives (`ArchiveIsSource`), generation reports
  (`ReportIsAudited`) and the policies (`ForecastExact`, `ChunkIsLargest`). The
  theorems of the library that take an operator as a parameter (structural
  induction) cannot be used; where an induction was unavoidable above, it goes by
  a least element instead.

## Findings

* **The watermark is not applied in standalone incremental mode**
  (`standalone_watermark`). The comment at `serving/engine.mojo:1087` says the
  margin applies while any request resides, even if none was selected. The code
  looks for residents only under lifetime reservation and otherwise at
  `len(selected) > 0` (lines 1040 and 1090); a standalone prefill is scheduled
  first, when nothing is selected. Nothing unsafe follows: the resident's next
  decode preempts.
* **Tokenizer tables of old sources can count as valid** (`setup_tables`). The
  generator loads its sources when it starts, and `generator_identity` hashes
  them after the tables are made (`models/qwen2/tokenizer_assets.py:228`). An
  edit in between records the old tables under the new sources.
  `src/docs/tokenizer.md:49` says their validity is keyed to that checkout's
  generator sources, and `:57` that outdated tables are regenerated.

## What the models assume and leave out

These were met while modelling; each is a constant or a guard of the model, and
what lies behind it is not claimed.

* **Fixtures.** `MayRevert = FALSE`: an edit does not restore earlier inputs
  while a generation runs, for hashes taken before and after would agree.
  `PruneAlone = TRUE`: with a prune beside a validation `ValidEntryKept` fails,
  but `prune` says itself to run it when no validation uses the store
  (`fixtures.py:641`). So what prune decides from links it read before it takes
  the locks, and a lock file it removes while someone waits for it, are not
  checked beside a validation.
* **Setup.** `MayRestore = FALSE`, the same for a compilation;
  `MayEditTables = FALSE` in `setup`, the finding aside. A crash between the
  rename and the change of mode leaves a valid model that stays writable: later
  setups accept it. Nobody puts files of their own at a link's path while a
  setup runs, except the tokenizer command, which downloads `tokenizer.json`
  under another lock (`models/qwen2/tokenizer_assets.py:46`). That file can
  arrive between the look of `ensure_link` (`runtime/store.py:88`) and its
  `os.replace` (`:97`) and be replaced by the link. The model's steps allow it
  and no property excludes it, although `src/docs/cli.md:37` and the function's
  docstring (`:86`) say that real files are never replaced; the link leads to
  the same content, so nothing is lost.
* **Evaluations.** Changes never return to a content that a build or a run has
  recorded; one builder at a time and one binary path; the prepared model's
  directory is verified before a run only; the model's tools discard what the
  second `verify_build` returns (`model.py:263`, 442, 607, 653), so
  `PassIsWhatRan` is claimed of the holdout, the policies and the MLP suite,
  which compare it; lifecycle and batch replace their one file, and parity
  looks whether it exists before it writes. An MLP case of 18 rows would have
  an empty first call; none is declared. Numerical comparison is pass or fail.
* **Retention.** A campaign's files do not change while pack reads them, and a
  restored directory is not edited during its restoration.
* **Prefill.** Synchronous, mixed, lifetime reservation, prefix caching, no
  watermark, as the studies run it. `StepCost` leaves out the guards of
  `set_cost_policy` that look at the other policies.
* **Runner.** A first submission that fails, and is then drained, leaves the
  runner ready but not valid; `IdleIsDone` says nothing of it. A failure between two device commands of one call is any prefix
  of them; a caller that drained tickets it did not collect submits no more, as
  `_fail_async` has it; `preflight`, the metadata's bounds and the choice of a
  route are left out. Nonfinite results are samples of their own.
* **Engine.** Timestamps, step records and counters of observation are left
  out; tokens are small integers and every request has the same stop token.
  Events of a boundary whose failure drain raises are in `account` although
  `failure_events` never receives them.

## Not modelled

* Chat sessions: bookkeeping of one sequence between two calls; what the engine
  promises them is `TokenService`.
* The Qwen2 forward pass, kernels and layers: numerics. The kernels' finishing
  step has a development of its own in `kernels/`.
* Tokenizer: byte-level processing of one call over a fixed vocabulary.
* Terminal, argument parsing, toolchain, configuration: I/O and constants.
* Benchmarks, study summaries and documentation pages: sequential reports over
  finished files.
* `KVPool.relayout` and the slot layouts (they apply to an empty pool);
  `StepBatch`'s flattened arrays, other than what `BatchValid` says of them.
* The sibling copies of the retention script, `decode_comparison`, the MLP
  reuse fixture and the censuses over families and variants.

## Plan

What is modelled is as above. Of the proofs, these are next:

1. Where requests stand while steps are outstanding, on top of `AsyncInv`: their
   lengths and rows, for `EngineAudit`, `SuccessorNeverEvicts` and
   `ChainedAsDelivered`.
2. `DeliversTokens` for the synchronous engine, from `RowsAreOwnHistory` and the
   bookkeeping of `account`.
3. `ChunkIsLargest` from the monotonicity of the saturated operations.
