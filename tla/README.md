# arena-alligator in TLA+

A model of the concurrent core of arena-alligator: how slots and blocks are
claimed, split, merged and given back, how the memory below them is carved up
and outlives its users, how tasks wait for it, and what the counters say. TLC
checks the models on small instances, TLAPS proves the main safety properties
for every value of the constants.

Paths below are relative to the sources of the crate (`src/src/...`), those of
examples to the crate (`src/examples/...`).

## The system

| Part | Source | Modelled by |
|---|---|---|
| `AtomicBitmap`: one bit per free slot, claimed and freed by single atomic instructions, scanned word by word from a rotating cursor | `bitmap.rs` | `AtomicBitmap` |
| ... its range operations (`set_range`, `all_set_in_range`, `range_mask`) | `bitmap.rs` | `BitmapRange` |
| `BuddyArena`: a bitmap per order, a summary word of the orders that may have free blocks, splitting on allocation and merging on release | `buddy.rs`, `allocation.rs` | `BuddyArena` |
| ... its sizes (`order_for_request`, capped capacity) | `buddy.rs` | `Sizes`, `Construction` |
| `FixedArena`: equal slots over one bitmap | `arena.rs`, `allocation.rs` | `FixedArena` |
| `Buffer`: appending, spilling to the heap, freezing, abandoning | `buffer.rs` | `FixedArena` |
| `BufferHandle`: the owner behind the frozen `Bytes` | `handle.rs`, `ext.rs` | `FixedArena` |
| `RawRegion`: a slot written through a pointer and frozen by range | `hazmat/raw_region.rs` | `FixedArena` |
| Backing memory: one `Arc`, deallocated by its last owner through a type-erased deallocator | `arena.rs`, `dealloc.rs` | `FixedArena`, `Construction` |
| Zeroing: cold slots zeroed on allocation, used ones scrubbed on release, a bitmap of what was scrubbed | `arena.rs`, `buddy.rs`, `allocation.rs` | `FixedArena`, `BuddyArena` |
| Metrics: counters written one by one, and snapshots that read them one by one | `metrics.rs` | `Metrics`; splits and coalesces in `BuddyArena` |
| Fixed waiters: a counter and tokio's `Notify` | `async_alloc.rs` | `FixedWaiters` |
| Buddy waiters: a queue per order, scoring, a streak ban | `async_alloc.rs` | `BuddyWaiters`; over the blocks of an arena, `AsyncBuddy` |
| A waiter of the user's own: a Treiber stack of wakers | `examples/treiber_waker.rs` | `TreiberWaiter` |
| Geometry, slot and hint resolution | `geometry.rs`, `spec.rs` | `Sizes`, `Construction` |
| Builders, page sizes, prefaulting | `arena.rs`, `buddy.rs` | `Construction` |
| Errors, re-exports, the loom shim | `error.rs`, `lib.rs`, `sync.rs` | not modelled: no state |

An arena handle calls `allocate`, which claims a bit, and wraps the slot or
block in a `Buffer` with a clone of the arena's `Arc`. The buffer is written,
perhaps spills, and is dropped or frozen into `Bytes`. Whichever value ends up
as the last owner calls `ArenaRef::release`, which scrubs, frees the bit, and
counts; then it drops its `Arc`. Nothing in this path takes a lock. In an
async arena `release` ends with a wake: `allocate_async` registers a waiter,
tries to allocate, and parks if that fails. Only the queues of the buddy waiters
are locked.

## Modules

### `SlotPool`, `RegionPool`: what is promised

`SlotPool` is a pool of slots in which a call takes effect at one instant: it
gets a free slot, or finds at some instant of the call that there is none.
`RegionPool` hands out sets of places to owners: a region is handed out only
if it is disjoint from every region that is out.

### `AtomicBitmap`: claims

State: the set bits (`free`), `cursor`, the slots each thread holds, and the
locals of its `try_alloc` (`word`, `left`, `bit`). One action is one atomic
instruction: `TakeCursor` (`fetch_add` on the cursor), `SeeBit`, `SkipWord`
and `GiveUp` (the load of a word, with its three outcomes), `Claim` and
`LoseBit` (the `fetch_and`, won or lost), `ClaimExact`, `Free`. `standing` and
`full` are history: the slots free since a call began, and the calls during
which all slots were once taken.

A holder's slot may be freed by any thread, as a `Buffer` may be sent to one.

### `BuddyArena`, `SequentialBuddy`: blocks

A block is an order and an index and stands for the leaves (blocks of order 0)
it covers. State: `free` (all bitmaps together), `summary`
(`nonempty_orders`), the live buffers, which leaves are dirty and which are
marked in `zeroed_bitmap`, the metrics, and per thread the place in the call,
the block in hand and the orders still to scan. `Request` to `Finish` are
`allocate`, `Release` to `PutBack` are `ArenaRef::release` and
`release_block`; `StillFree`, `SeeEmpty` and `ClearSummary` are
`maybe_clear_summary`, called from both.

The bitmaps are not modelled word by word. A `try_alloc` or `any_free` takes
what `AtomicBitmap` is proved to guarantee for every number of words: it finds
a block that is free when it is claimed, or nothing if no block was free during
the whole scan (`seen`). This is the composition of the two modules:
`NoneIsHonest`, proved in one, is the guard in the other.

`Finish` is one step: splits, zeroing and the counters of a block which only
its thread can reach, and metrics that only `BlocksCounted` looks at, when no
call is under way. The same holds for `Release`,
which counts the free before the block becomes visible, as the code does.

`SequentialBuddy` adds a note of whether two calls have overlapped.

### `FixedArena`: slots, handles and memory

A process is an owner: a value of type `Buffer`, `RawRegion` or `Bytes`, from
the claim in `allocate` to the drop of its `Arc`. State: the free and scrubbed
slots, the contents of the memory (whose data each unit holds), the handles and
the strong count, how often the memory was deallocated, `bytes_live`, and what
each owner is and has. `ArenaRef::release` is the steps `Scrub`, `FreeSlot`,
`CountFree`; its caller goes on with `Spilled` or `Unref`.

`Bytes` of the `bytes` crate is external: clones and slices share the owner,
the last one drops it. A failing `allocate` only counts a failure, which is in
`Metrics`. The builder's modes exclude each other, so raw regions exist only without
auto-spill.

### `FixedWaiters`: waiting for a slot

A process is a task. State: the free slots, the waiter count, tokio's `Notify`
(a stored permit, a line, and the state of each future in it), and what each
task does and holds. `Call` to `Fail` are one turn of `allocate_with_waiter`
(`register`, `prepare` in its two halves, the retry), `Poll` and `CountOut` are
`poll`, `DropAlone`, `DropAmongOthers` and `PassOn` the drop of a registration
that was woken, `Cancel` that of one that was not. `Release`, `WakeNobody`,
`SeeWaiters` and `WakeOne` are `release` with `wake`. A scan takes what
`AtomicBitmap` guarantees, as in `BuddyArena`. `Notify` is external: `Enable`
takes the permit or joins the line, `NotifyOne` serves the first in line or
stores the permit, `Leave` passes on a notification no poll has seen.

### `BuddyWaiters`: waiting for a block

Tasks and wakers (threads inside `release_block`). State: per order the queue,
the count and whether the head timestamp is set; the streak; per entry its
state and its sender; the task's registration; the waker's locals. `Register`
to `Poll` are `allocate_with_buddy_waiter`, `Wake` to `Ban` are `score_orders`,
`Pick` to `StoreStreak` the rest of `buddy_wake`. The lock of a queue is implied
by the places at which a task or waker holds it (`Unlocked`); what the holder
does with lock-free state (count, head, entry states) is a step each, because
`revoke`, the drop of a registration and `score_orders` do not take the lock.

The arena is left open: `try_allocate` may succeed or fail, and a wake of any
order may come at any time. So what is checked holds over every arena. Ages are
left out: candidates are served in any order.

### `AsyncBuddy`: waiting, over an arena

`BuddyWaiters` composed with the blocks of an arena: a retry succeeds exactly if
a block is there, and the only wakes are those of releases, for the order the
block was merged to. `Allocate` and the publishing of a released block are one
step each (how they interleave is `BuddyArena`'s). `got` keeps a buffer from
being dropped before the call that allocated it has returned. No future is
dropped while it waits, so that a sleeper is never the fault of a cancellation.

### `TreiberWaiter`: a waiter of the user's own

The example `examples/treiber_waker.rs` under `allocate_with_waiter`: one action
per atomic instruction of `push` (`PushLoad`, `PushLink`), `pop_and_wake`
(`PopLoad` to `PopWake`) and `poll` (`PollPending`, `Refresh`, `RecheckReady`,
`RecheckPending`). The epochs of crossbeam are external: a node is used again
only when nobody can reach it. A future may be polled without having been woken
and may move to another task, which makes the waker in its entry stale.
`flavor` is the runtime's and never changes: on `current_thread`, which the
example's `main` asks for, a poll or a drop runs to its end before the next, and
nothing drops a parked future, as nothing in `main` does.

### `BitmapRange`, `BitmapUses`: marks

`set_range` and `all_set_in_range`, a word at a time, for owners whose ranges
share words and not bits, which is how the arenas use a zeroed bitmap. A word
and a mask are sets of bits; `LowBits` keeps the wrapping shift of the code,
and `UpTo` the case that avoids it. `BitmapUses` puts it beside `AtomicBitmap`:
no bitmap is used both ways.

### `Metrics`: counters and snapshots

Every counter of `MetricsState`, one action per atomic instruction, written by
owners that allocate, fail, freeze, spill and release; and the reader of
`fixed_snapshot` and `buddy_snapshot`, which loads the fields in the order of
the code. A call is decided by its scan and counted afterwards, whether it
succeeded (`ClaimRegion`, then `RecordOk`) or failed (`FindNothing`, then
`record_alloc_failure`, by which time a slot may be free again). `calls` is
history, the calls that were decided. `kind` chooses the order of a release: a
fixed arena frees the slot and then counts, a buddy arena counts first.

### `Powers`, `Sizes` and `Construction`: from sizes to an arena and back

`Sizes` is the arithmetic on a `usize` of `Bits` bits, wrap-around and
overflow included: `BuddyGeometry`, `SlotSpec`, `BuddyHint`, `align_up`,
`order_for_request`. `Construction` is one thread that makes a geometry,
realigns it, makes a builder over memory of its own or the caller's, builds or
fails, prefaults, is asked for buffers (`allocate`, `raw_alloc`,
`allocate_async`), and drops the arena, which runs the deallocator and frees its
box. `Option` is the `None` that they share with the bitmap.

## What the runs check

Sizes are distinct states.

| Run | Instance | Shows |
|---|---|---|
| `groundwork` | 3 threads, 3 slots in two words of 2 bits; 2 owners, 6 bits in three words; construction with a `usize` of 5 bits, every size, alignments 0, 3 and all powers of two, 2 page sizes and none; 737,278 | Slots are owned by exactly one thread or free (`SlotsPartitioned`); cursor and words stay in range (`TypeOK`). `None` is returned only if no slot was free throughout the call (`NoneIsHonest`). Ranges are marked and answered for bit by bit, whoever shares their words (`RangesExact`). Slots and blocks are aligned and inside the memory (`ExtentsInside`); the memory is released once, with its own extent, and the deallocator's box freed once (`ReleasedOnce`); a failed build leaves the caller's memory alone (`CallersMemory`); prefaulting misses no page, or, from a start inside a page, at most the last (`PagesTouched`); geometry is the least that was asked for (`GeometryLeast`), carving the largest that fits (`CarvedLargest`), every error is due (`RefusalsJustified`). A request that fits gets the smallest block that holds it; a larger one gets none, and up to half the address space is refused rather than left to wait (`RequestsFit`). |
| `progress` | waiters with 3 tasks and 2 slots; a bitmap of one word with 3 threads; a fixed arena with raw regions, 2 owners and 2 slots; 176,473 | No wake is lost: nobody sleeps beside a free slot once nothing is under way (`NobodyOverslept`), and while buffers are dropped every parked task is woken (`AwaitEnds`). The count is the registrations (`CountMatches`). On one word `try_alloc` is linearizable (`Linearizable`), and a caller spins for ever only while others keep winning (`OnlyWinnersDelay`). With raw writes, range freezes and failed ones, slots stay exclusive (`RawSlotsOwned`), and the memory is deallocated once everything is dropped (`MemoryReturned`). |
| `buddy_orders` | 2 threads, 4 leaves, zeroing; 612,138 | Blocks divide the arena (`BlocksPartitioned`), buffers never overlap (`HandsOutRegions`, a refinement), `ArenaFull` is honest (`FullIsHonest`), a buffer arrives zeroed (`FreshIsZero`), splits, coalesces and `bytes_live` account for the blocks (`BlocksCounted`), and as long as calls do not overlap coalescing is complete (`SequentialCoalesced`). |
| `buddy_missed_merge` | 2 threads, 2 leaves | *Violation.* With overlap it is not: two buddies released together can stay apart. |
| `fixed_life` | 3 owners, 2 slots of 2 units, auto-spill; the counters of either arena with 2 owners, 2 regions, 4 calls; 1,057,783 | Slots exclusive (`SlotsOwned`), data stable (`BytesStable`), spills lossless (`SpillKeepsData`), memory outlives every user and is deallocated once (`OutlivesUsers`), slots arrive zeroed (`FreshIsZero`). A snapshot that nothing disturbs is exact: calls, failed ones among them, buffers and bytes (`SnapshotExact`), and none shows a `bytes_live` that went below zero, or beyond what a buddy arena has or the owners of a fixed one can hold (`SnapshotBounded`). |
| `fixed_retries` | 3 tasks, 1 slot | *Violation.* On a full arena two waiters wake each other for ever (`RetriesEnd`). |
| `waiter_entries` | queues of 2 orders with 2 tasks, 1 waker, 3 entries, alone and over an arena of 2 leaves; the stack with 3 tasks, 2 nodes, 1 slot, on several threads and on one; 1,776,547 | A wake and a revoke never both take a sender (`SenderTakenOnce`), the counts are the live entries and those being counted out (`CountMatches`), no sleeping task falls out of its queue (`SleepersQueued`). Over an arena, with more pops to a wake than there are entries, a task is left asleep beside a free arena only if its head timestamp is gone (`OnlyHiddenAbandoned`). In the stack no entry is lost or popped twice (`EntriesKept`), a woken entry is polled (`WokenArePolled`), and on one thread no wake is lost (`OneThreadNobodyOverslept`). |
| `buddy_stranded` | 3 tasks, 1 waker, 1 order | *Violation.* A sleeping task can be invisible to scoring (`SleepersVisible`). |
| `buddy_abandoned` | 2 tasks, 1 waker, 1 order, 4 entries, 2 pops to a wake | *Violation.* A task can be left asleep beside an arena that is wholly free (`NobodyAbandoned`). |
| `treiber_lost` | 3 tasks, 3 nodes, 1 slot | *Violation.* On several threads the example loses wakes (`NobodyLeftParked`). |
| `geometry_unbuilt` | construction, as in `groundwork` | *Violation.* A geometry that was made can be refused by `build` (`GeometriesBuild`). |
| `async_too_large` | construction, as in `groundwork` | *Violation.* `allocate_async` can wait for more than the arena has (`TooLargeFailsFast`). |

Type invariants are part of `CountMatches` (both), `EntriesKept` and
`ReleasedOnce`, and `TypeOK` of `groundwork` is that of the bitmap; those of
`BuddyArena`, `FixedArena` and `Metrics` are proved.

### Disagreements

* `buddy_missed_merge`. `lib.rs:19` and the crate's README say neighbours
  coalesce on release. Two releases of two buddies can each miss the other; the
  pair stays split until one of them is allocated and released again.
* `fixed_retries`. A registration that was woken is dropped at the end of each
  turn of the loop (`async_alloc.rs:606-614`), and its drop passes the wake on
  if anyone else is registered (`:487`). On a full arena that task fails as well
  and passes it back: two parked tasks keep each other busy. The guard was put
  there against "a hot retry loop under full-arena conditions" (`:486`).
* `buddy_stranded`. `revoke` changes the state of its entry and then the count.
  In between, a wake of the last other entry sets `NO_WAITERS_TIMESTAMP` and
  leaves the count at 1; a task that registers now does not store its timestamp
  (`:518`). No wake that starts later sees it, nor anyone who queues behind it,
  which is what the comment at `:314-317` wants to exclude.
* `buddy_abandoned`. `allocate_async` has no fast path: a call that succeeds at
  once has pushed an entry all the same and leaves it, revoked, in the queue.
  Only a wake that finds a live entry of the order pops it, and then it counts
  against `MAX_POPS_PER_WAKE` (`:349`). After eight immediate successes
  the only wake of the last release spends its pops on such entries, and the
  waiter behind them sleeps beside a free arena, though `allocate_async` "parks
  until a large-enough block becomes available" (`:691-692`). No race is needed.
* `treiber_lost`. The trait wants `prepare` to "Arm the registration before the
  post-registration allocation retry" (`:58`). The example's `prepare` sets a
  flag; its entry is pushed by the first poll, after the retry. A release in
  between finds nobody to wake. The example's `main` uses one thread, where it
  cannot happen (`OneThreadNobodyOverslept`).
* `geometry_unbuilt`. `BuddyGeometry` checks its sizes against `usize`, and "Once
  built, the geometry is guaranteed valid for arena construction"
  (`geometry.rs:8-9`). `build` asks `Layout` for the memory (`buddy.rs:479`),
  whose limit is `isize::MAX`. One total size passes the one and fails the other,
  half the address space: `build` returns `SizeOverflow`.
* `async_too_large`. For a request above half the address space
  `next_power_of_two` (`buddy.rs:262`) gives 0 when overflow checks are off, as in
  release builds; 0 passes the size check, and the order of it is above the
  largest. `allocate_async` takes that for a request worth waiting for
  and never returns, where it should return `RequestTooLarge` "immediately when
  `len` exceeds the arena's total capacity" (`async_alloc.rs:713`). `allocate` returns
  `ArenaFull`. With overflow checks both panic.

Other sentences of the documentation are stronger than the code, or can be read
so, and what holds instead is a property.

* `bitmap.rs:88` has `None` mean that all slots are taken. With several words
  the scan is not a snapshot, and `NoneIsHonest` holds.
* `error.rs:7` has `ArenaFull` mean that every block of the needed size is in
  use. `FullIsHonest` speaks of blocks that are free for the whole of a call.
  A block that another call is splitting or merging is in no bitmap, so
  `ArenaFull` can be returned while most of the arena is in nobody's use: this
  `FullIsHonest` allows, and no property excludes it.
* A fixed arena frees the slot before it counts the free (`allocation.rs:33`), so
  `bytes_live` may exceed `bytes_reserved` for an instant, and `SnapshotBounded`
  holds.
* `arena.rs:13-14` has building touch every page. From a start inside a page, in
  steps of the page size, the last page may be left out; no other is, which is
  what `PagesTouched` says.
* `error.rs:30` and `:47` have `SizeOverflow` mean that the size overflows
  `usize`. It is also what `build` returns for a size that is a `usize` but more
  than `Layout` allows, `isize::MAX` less the padding of the alignment.
  `RefusalsJustified` accepts it from there on, and for a geometry at half the
  address space only.
* `spec.rs:18` has the number of slots "derived from `block_len / size`". The
  code divides by the size after it was aligned down, which gives more slots and
  is what `spec.rs:8-9` ask for, "the number of slots that fit". `CarvedLargest`
  takes that reading; the other is the mutation it is tested against.
* A hint above half the address space overflows `next_power_of_two` as well:
  without overflow checks `build` hangs, with them it panics. `RefusalsJustified`
  says that nothing else makes it do either.

The comment at `bitmap.rs:229` bounds the retry loop by the bits of a word. The
bound holds if nobody frees; with frees only `OnlyWinnersDelay` does.

### Bounds

Two words are the least that make a scan race, and three slots make the last
word partial. Four leaves (three orders) are the least for a merge that
goes on after a merge and a split that passes through an order. Two units
per slot tell a full buffer from a partial one and give raw freezes proper
subranges. `MaxHandles`, `MaxClones` and `MaxHeap` (2, 2, 3) bound counters
that the code does not: each allows one more than the first, and a spilled
buffer grows past its old capacity. Threads and owners are symmetric where a
run uses symmetry, which only safety runs do.

Three tasks are the least for two waiters and one who releases, or takes the
slot from under a woken one; two slots let two wakes travel at once. For the
buddy waiters two tasks and a third entry put live entries behind cancelled
ones, `MaxPops` = 2 makes a wake stop at its bound, and two orders let it fan
out; `MaxPops` and `MaxConsecutive` are 8 and 10 in the code. `Entries` bounds
the entries alive at once, not the registrations: an entry that nobody refers to
is used again. In `buddy_abandoned` two pops to a wake stand for eight, and two
revoked entries for eight of them. Two nodes let a push or a pop come between
another's load of the head and its exchange, and a third registration use a
node again; four tasks and three nodes were checked as well, and the proofs need
no bound.

In `BitmapRange` two owners and three words of two bits have ranges that end on
a boundary, cover a word, and span three. Two regions of different sizes and
four calls let two owners of `Metrics` overlap in every pair of steps, in calls
after a release and after a failure too; the proofs need no bound. Five bits give `Construction` every power of two up to 16, sizes
between them, and overflow at the top; two bases tell an aligned start from an
unaligned one.

Runs that check several components at once do so one at a time, by a variable
that never changes: what holds of the one is not weakened by the others.

Deadlock is checked for the bitmap, the buddy arena and the queues of waiters, in
which some call is always possible, and for construction, where a failed build
and a dropped arena have an explicit step (`Ended`). A fixed arena may have been
dropped, so `fixed_life` and `progress` may end; that tasks of `FixedWaiters` do
not all stop while there is something to do is `NobodyOverslept`. In `AsyncBuddy` the bound on the entries may be reached, or everybody
abandoned: `waiter_entries` has an explicit step for that (`Stopped`), and
`buddy_abandoned` does not look for deadlock.

### Fairness

A thread inside a call keeps running (`WF` on the steps of a call, none on
starting one or on dropping a value): the code in a call never waits, and the
scheduler is assumed to give every thread time. In `FixedArena` the same goes
for the steps inside `allocate` and `release`. Without it `OnlyWinnersDelay`
and `MemoryReturned` would say nothing. In `FixedWaiters` a task
that was notified is polled, which is the executor's contract (`RunSpec`);
`AwaitEnds` assumes besides that whoever has a buffer drops it some day
(`FairSpec`). `RetriesEnd` is refuted under `RunSpec`: buffers may be kept.

## What is proved

For every finite or infinite set of threads or owners, every number of slots, words and
orders (`AtomicBitmap`, `BitmapRange`, `BuddyArena`); for every finite set of owners
(`FixedArena`), of owners and regions (`Metrics`), of tasks (`FixedWaiters`,
`TreiberWaiter`) and of tasks and wakers
(`BuddyWaiters`), where something is counted; for every width of `usize` and
every set of sizes, alignments, pages and addresses (`Construction`).
Assumptions are on the constants only: positive capacities and widths, `Width`
doubling from order to order, sizes within `usize`, placeholders distinct from
values.

The proof system has no induction over data that it can apply, and knows nothing
of `2 ^ k`. Both are got round the same way: a set of counterexamples that is not
empty has a least member (`LeastOf`, from the well-foundedness of the naturals),
and the step below it is a contradiction. So `Powers` defines powers of two by
recursion, and that the recursion has a solution and doubles (`DoublesExist`,
`DoublesAgree`, `Pow2Recursion`) is proved, not assumed.

`AtomicBitmapProofs`
: `TypeCorrect`; `ExclusiveOwnership` (`SlotsPartitioned` is inductive with
  the types); `ScanCoversStanding`, the inductive reason that a scan misses
  nothing: a standing slot lies among the `left` words ahead, which needs the
  arithmetic of the wrap-around (`WrapStep`, `WrapReaches`); `HonestNone`
  from it: with no words left there is no standing slot. `OneWordLinearizable`
  is the refinement of `SlotPool` by a bitmap of one word.
  `RangesMarkedExactly`, by `PassedWordsSet`: a call has set, or seen set, the bits
  of its range in the words it has passed, and ranges never overlap, though they
  share words. That the mask of a word is the
  part of the range in that word is division with remainder; that padding to a
  power of two leaves room for every slot is `WordsSuffice`.

`BuddyArenaProofs`
: `TypeCorrect`; `ArenaDivided`, whose core is geometry: the children of a
  block divide its leaves (`Children`), buddies make up their parent
  (`Merging`), so splits and merges carry a division into a division
  (`SplitDivides`, `MergeDivides`). `BlocksPartitioned` needs every block in
  one place (`OnePlace`) besides the division, else a claim could leave a copy
  behind. `ScanCoversStanding` and `HonestFull` say that the summary, however
  stale, costs no allocation: the full scan goes over every order.
  `ScrubbedLeavesZero` is the inductive fact about the marks that are never
  cleared, `FreshBuffersZero` follows. `ImplementsRegionPool` is the
  refinement, from `ArenaDivided`. `SplitsAccounted` is
  `BlocksCounted`. It counts leaves and pieces: `bytes_live` is the leaves of the
  buffers (the lemma `LiveLeaves`; a buffer and its count change in one step
  here, and `Metrics` is where they come apart), a split adds as many pieces as orders it passes, a merge
  takes one away, and what a thread has merged so far is in its hand.
  `SequentialMerges`, by `OneCallAtATime`: no two free blocks are ever buddies,
  and a block about to be put back still has no free buddy.

`FixedArenaProofs`
: `TypeCorrect`; `ExclusiveSlots` (by the lemma `OwnersChange`, which says
  what a step may do to the owners of slots), with raw regions or without, so
  that it covers `RawSlotsOwned`; `StableBytes` from it;
  `SpillIsLossless` with the strengthening `AllCopied`, which follows the copy
  through the release; `MemoryOutlivesUsers` with `Counted`: the strong count
  is the handles plus the owners that have an `Arc`, a cardinality;
  `FreshSlotsZero` with `MarksTrue`: a marked slot is zero unless someone has
  it; `ImplementsRegionPool`.

`WaiterProofs`
: The two users of `allocate_with_waiter`. Of `FixedWaiters`, `CountExact` and
  `NoWakeLost`. The second is the subtle one, because a wake is
  passed from hand to hand: by a release that is about to notify, a future that
  was notified, a dropped registration that notifies the next. Each of them
  `Carries` a wake. The invariant (`WakesTravel`) says that a task which waits,
  or is about to, and has a free slot that its scan cannot be counted on to
  find, has a carrier somewhere. It rests on `Line` (the line of `Notify` and
  the states of its futures agree) and on `Count`: while somebody is registered
  the count is positive, so no release skips its wake and no drop keeps it.

  Of `TreiberWaiter`, `StackTypeCorrect`, `NoEntryLost` (`EntriesKept`) and
  `NoWakeForgotten` (`WokenArePolled`), on either runtime. The nodes of the stack
  are the least set closed under `next` that has the head, so what a push, a pop
  and a relinked node do to it is a lemma each (`StackedPush`, `StackedPop`,
  `StackedLink`), without induction along the list. A pop may swing the head
  because the successor it has read is still the successor: nobody relinks a
  node that someone holds, which is what the epochs are for.

  `OneThreadWakes` (`OneThreadNobodyOverslept`) is what the race of `treiber_lost`
  leaves of the example: with one thread it loses no wake. The invariant
  (`OneInv`) counts: as long as somebody waits whom no release has chosen, there
  are at most as many free slots as there are others who will use one or pass it
  on (`Owed`): an `allocate` about to try, a release that has not chosen an entry
  yet, a future that was chosen. A release frees one slot and becomes one of
  them; when it chooses an entry the debt goes to that entry's future, which is
  there (`Owners`). A release that finds the stack empty is owed nothing:
  everybody who waits and was not chosen is in the stack (`EntriesKept`), so
  nobody is left.

`BuddyWaitersProofs`
: `OneTaker`, `CountExact` and `NobodyStranded`, from one invariant with a lemma
  per action. A live entry has one task and its sender (`Owned`), and is in the
  queue of that task's order and no other (`InQueues`): so whoever wins its
  state takes away exactly one of those that are counted (`Counted`). That a
  count stays within the number of tasks needs the lock (`Locked`): between a
  win and its `fetch_sub` the task that was won cannot come back to the same
  order (`Spare`).

`MetricsProofs`
: `CountersKept`: what every counter is at every instant, in terms of where the
  owners are (`Tallies`); `bytes_live` is the units, one by one, of the regions
  of those who are counted in and not yet out (`LiveTally`). A fixed arena counts
  a release when the slot may be someone else's already, so the regions of those
  owners may coincide, and units are told apart by owner; in a buddy arena
  every region that is out is kept by one owner (`RegionsKept`), which bounds
  them by the arena. `SnapshotsExact` follows with `Loaded`: what an undisturbed
  snapshot has loaded is still so, and nobody is in a call. The calls it shows
  are all that were made, because a call is in `calls` and in neither counter
  exactly while its owner has yet to count it (`CallUncounted`). `SnapshotsBounded`
  follows from the bound on `bytes_live` at every instant. No counter passes
  below zero on the way.

`SizesProofs`
: What the arithmetic computes, as lemmas. Products of powers of two, the least
  power above and the greatest below a number (`NextPowerIs`, `PrevPowerIs`),
  trailing zeros, a shift that loses no bit, rounding to an alignment; from them
  the answers of `snap_to_valid_geometry` (`SnapIs`), `SlotSpec::resolve`
  (`SlotsAre`), `BuddyHint::resolve` (`HintIs`) and `order_for_request`
  (`OrderIs`), overflow included.

`ConstructionProofs`
: `BuiltRight` is the inductive invariant `BuildInv`, with a lemma per step.
  `Shape` says what is there at each stage, `GeometryMade` where a geometry came
  from, `Owned` who has to release what, `Touched` which pages were touched,
  `ArenaMade` how the fields of a finished arena follow from the builder,
  `Answered` how an order follows from a request. The properties the run checks
  follow: `ExtentsFit`, `MemoryReleasedOnce`, `CallerKeepsMemory`,
  `NoPageMissed`, `RoundsLeast`, `CarvesLargest`, `ErrorsJustified`,
  `SmallestBlock`. `RoundsLeast` needs that raising the smallest block for an
  alignment leaves a least geometry least: whatever fits the new question is
  among what fitted the old one.

Only model-checked: the liveness properties (`OnlyWinnersDelay`,
`MemoryReturned`, `AwaitEnds`), which are out of the prover's
reach; and `OnlyHiddenAbandoned`. It says that in an arena with nothing in use a
waiter is found by the release that completed its block, so a proof needs the
geometry of `BuddyArenaProofs` for merges that go to the end, the queues of
`BuddyWaitersProofs`, and an account of which of several wakes serves whom, all
in one invariant. `RawSlotsOwned` is `SlotsOwned` of an arena with raw regions,
which `ExclusiveSlots` covers.

## Not modelled

* Weak memory. Every atomic operation is sequentially consistent here; the
  orderings in the code (a relaxed load in the scan, acquire and release
  elsewhere) are the business of its loom tests. It matters most for the
  waiters, where a count goes up before the bitmap is read, and the bitmap is
  set before the count is read.
* The wake calls in `FixedArena` and `BuddyArena`: they touch only the waiters,
  whose modules have them.
* What a cancelled future does to a buddy waiter over an arena. A registration
  dropped after its entry was woken keeps the wake (`async_alloc.rs:575`), and
  the streak ban may spend a wake on an order whose waiter then goes away; with
  either `OnlyHiddenAbandoned` does not hold, nor with two wakes that overlap.
  Nothing in the documentation says what should hold instead.
* The ages of waiters and so what the score and the streak ban do against
  starvation: clocks in the state make it unbounded, and the documentation
  promises no bound.
* Waiters other than `NotifyWaiters` and that of `examples/treiber_waker.rs`. The
  other examples only call the crate.
* A `Buffer` over a buddy block. It is the same code as over a slot, with the
  release of `BuddyArena`. `RawBuddyArena::raw_alloc` repeats the scan of
  `allocate`; its sizes are in `Construction`.
* What has no state: `Display` of errors, re-exports, the loom shim, and the
  typestates of the builders, which the compiler checks.
