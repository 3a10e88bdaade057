# Verification of the limit order book

TLA+ models of this repository's matching engine, its memory pool, and the
programs that drive it: the LOBSTER replay with its command line and its feature
output, and the tick replay. TLC checks them on small instances; TLAPS proves the
main properties for every instance. Paths are relative to the repository root;
`cpp` is `src/OrderBook.cpp`, `hpp` is `include/OrderBook.hpp`, `lob` is
`include/LobsterReplay.hpp`.

```
tlc -workers 2 -config BookQueues.cfg MCOrderBook      # a run
tlapm OrderBookProofs.tla                              # a proof module
```

## 1. Inventory

| Component | State | Operations | Works with |
| --- | --- | --- | --- |
| **OrderBook** (`src/OrderBook.cpp`, `include/OrderBook.hpp`) | `bids`, `asks`: price to `PriceLevel` (intrusive list, cached volume and count); `order_map`: id to `Order*`; the pool; the trade handler | `insert_order` (LIMIT, IOC, FOK, MARKET), `cancel_order`, `amend_order`, `reduce_order`, destructor; getters and depth snapshots | calls the pool; calls the trade handler synchronously inside its matching loop |
| **MemoryPool** (`include/MemoryPool.hpp`) | free list, set of overflow objects, sticky overflow flag, overflow count | `allocate`, `deallocate` | owned by the book |
| **ReferenceBook** (`tests/test_differential.cpp:37-198`) | FIFO per price, live ids | the book's, without `reduce_order` | compared with the engine after random operations |
| **LobsterReplay** (`include/LobsterReplay.hpp`) | a book, the seed index, next synthetic id, statistics | seed, `apply_message`, `attribute_to_seed`, `prune_phantom_levels`, `recover_missing_levels`, `resync_level_sizes`, compare | drives a book; counts its fills through the handler; feeds FeatureEmit |
| **FeatureEmit** (`include/FeatureEmit.hpp`) | previous two-sided quote | `OfiTracker::update`, row formatting | called once per replayed message |
| **MarketDataFeed** (`include/MarketDataFeed.hpp`) | the book it drives | `replay_from_csv`, `process_tick` | drives a book |
| **run_lobster, run_feed, demo** (`src/*.cpp`) | command line options; sums of trades | select a mode, print | LobsterReplay, MarketDataFeed |
| **benchmarks, tests, research** | none of the system's own | timing, checks, statistics | everything above |

Everything is single-threaded. What is hard here is therefore not concurrency
but *redundancy*: one resting order is represented six times over (the object,
the two links of its neighbours, the level's ends, the level's cached volume and
count, the index, the pool) and each operation must update all of them, in every
order in which operations can follow one another; and *observation*: the trade
handler runs in the middle of a loop body. For the replay it is the missing
message: the feed is a window onto the venue's book and never says what happened
outside it.

What makes each component correct:

- **OrderBook**: price priority, time priority, the promises of the order types,
  never crossed, fills that account exactly for quantities; index, lists and
  caches that agree; every call returns; nothing leaks.
- **MemoryPool**: an address in use is never handed out; no slot is lost or free
  twice; a pointer goes back where it came from; the overflow figures are honest.
- **LobsterReplay**: a complete feed is mirrored order by order; the replay never
  trades while it matches; it stops at, or records, exactly the first row it does
  not match; each repair forgives what it says and nothing else.
- **FeatureEmit**: the increments sum to the flow at the touch and never span an
  update that had one side empty; a row tells the venue's book, not our drifted one.
- **MarketDataFeed** and **run_feed**: every share of an accepted row rests, was
  cancelled, or was traded and counted.
- **run_lobster**: the exit status and the printed claims are true of the run.

## 2. Modules

| Module | What it is |
| --- | --- |
| `Fifo` | the queue of a price as a sequence: its volume, taking from its front, leaving entries out |
| `BookTypes` | sides, prices with their reserved sentinels, quantities, order types, trades, price comparison |
| `MemoryPool` | `include/MemoryPool.hpp` |
| `Allocator` | abstract: what the owner of a pool relies on |
| `OrderBook` | `src/OrderBook.cpp` and `hpp`, extends the two above |
| `ReferenceBook` | abstract: the oracle of `tests/test_differential.cpp` |
| `BookCalls` | abstract: each public call of the book as one operator, for its callers |
| `OrderBookRefinement` | the mapping from the engine to the oracle and to `BookCalls` |
| `Venue` | the exchange that writes the two LOBSTER files, external to this code |
| `FeatureEmit`, `OfiStream` | the order flow imbalance tracker; the tracker fed with any quotes |
| `LobsterReplay` | `lob`, over `BookCalls`, `Venue` and `FeatureEmit` |
| `RunLobster` | `src/lobster_replay.cpp`, extends `LobsterReplay` |
| `MarketDataFeed` | `include/MarketDataFeed.hpp` with the blotter of `src/replay_main.cpp`, over `BookCalls` |
| `MC...` | instances for TLC |
| `BookLemmas` | lemmas on `Fifo`, on ranks of prices and on sums |
| `OrderBookProofs` | theorems about the pool; what each kind of change does to the stored book; theorems about the book, its caches, fills and time priority |
| `BookCallsProofs` | lemmas: what each call of `BookCalls` does to a book, its shares and its touch |
| `OrderBookRefinementProofs` | theorems: the engine implements the oracle, and its calls come to what `BookCalls` says |
| `OfiStreamProofs` | theorems about the tracker |
| `LobsterReplayProofs` | theorems about the replay and the program around it |
| `MirroredFeedProofs` | theorems about the replay of a feed that shows the whole book |
| `MarketDataFeedProofs` | theorems about the tick replay |

The engine is modelled twice, at two grains. `OrderBook` has its memory, links,
caches and the fill-by-fill loop. `BookCalls` says at once what a call comes to,
which is all that the replay and the feed, which never look inside a call, need.
`OrderBookRefinement` ties them: a run checks, and theorems prove for every size of
book, that each call of the engine comes to what `BookCalls` says, so the models of
the callers rest on the engine and not on a second opinion of it.

### How the engine corresponds to the code

**Memory is explicit.** An `Order` is a record in `mem` at an address, `next`
and `prev` are addresses, and an address with no object holds `RawOrder`. So
reuse of a slot, dangling pointers and double frees are states of the model, not
things it assumes away. Addresses come from `MemoryPool`, which is extended, not
instantiated: `AppendOrder` conjoins `Allocate(a)`, `RemoveOrder` conjoins
`Deallocate(a)`. `live` is the set of addresses holding a constructed object; it
is the placement-new and destructor calls of the pool.

**Levels.** `levels[side]` is a function whose domain is the keys of `bids` or
`asks`. `Appended` with `LinkedAt`, and `Removed` with `UnlinkedFrom`, are
`append_order` and `remove_order`, split into their effect on the level and on
the objects. `PutOrErase` is the erasure of a level whose count reached zero.

**Steps.** A public call is one step, for a single thread runs it to completion
and nobody sees the middle, with one exception: `insert_order` calls the handler
once per fill. So `InsertOrder` passes the guards (`cpp:93-113`) and starts the
loop; `Fill` is the loop body up to and including the handler call (`cpp:19-31`),
after which `pc = "settle"` is what a handler sees; `RetireMaker` or `KeepMaker`
is the rest of the body; `RestRemainder` or `DiscardRemainder` is what follows
the loop (`cpp:117-133`). `amend_order` that loses priority is `AmendRequeue`:
the cancel and the entry to `insert_order` in one step, then the same loop. The
sell side's code mirrors the buy side's (`cpp:43-69`); the model has one
definition with the side as a parameter. The destructor frees orders one by one,
in any order (`DestroyOrder`, the hash map's), then the levels.

`CallerStep` lets the caller make any call with any arguments whenever the book
is idle: reserved prices, zero quantities, unknown and duplicate ids included.
`cancel_order` and `reduce_order` of an unknown id, and a zero delta, change
nothing and are covered by `IgnoreRequest`.

**Abstractions.**
- Ids and addresses are compared for equality only. The pool's constructor pushes
  the slots in address order; the model starts from any order of them.
- `NO_ASK` and `MaxQty` stand for 2^32 - 1. Quantities never grow beyond what a
  caller passed, so no width is exceeded: a fill and an accepted reduction are at
  most the order's size (`InFlight`, `TypeOK`), a level's `uint64_t` volume would
  take 2^32 orders to overflow, its `uint32_t` count likewise.
- `overflow_total` saturates at the bound `MaxOverflow`.
- `can_fully_fill` stops as soon as it has seen enough; the model sums all
  crossing levels, which gives the same answer.
- The comparisons `if (level)`, `lit != end()` in cancel, amend and reduce guard
  against a missing level. The model looks the level up unconditionally, and TLC
  stops with an error if it is ever missing: `QueuesWellFormed` says it never is.
  The matching loop's test for an emptied level after a maker that was *not* used
  up (`cpp:38`) can never succeed, by the same invariant.
- The handler is set before the first order and only observes.
- `trades` and the variables of the call in progress are reset when it returns.
- What a caller reads (`GetBestBid`, `GetBestAsk`, `GetOrderQty`, `Snapshot`) comes
  from the keys of a side in its map's order and from the cached fields, as in
  `hpp:163-222`; `spread` and `mid_price` are differences of these.

### How the replay corresponds to the code

**The venue** (`Venue`) is what `lob` says of its input, and is external. It keeps
a book of its own, in which orders arrive without crossing, are cancelled in part
or whole, or are executed at the front of the best level. An event at a price that
is among the best `FileLevels` of its side is *announced*: it becomes the next
line of the message file, and the best levels after it the next line of the
orderbook file. Any other event happens silently (`VenueAlone`, up to `MaxSilent`
of them). Orders that rested before the files begin have ids that no message has
introduced. Hidden executions, crosses and halts touch nothing.

**One turn of the loop** is a chain of steps, `pc` naming the next:

| Step | Code |
| --- | --- |
| `ReadMessage` | `lob:485-520` a line of each file |
| `SeedBook` | `lob:546-572` on the first message only |
| `ApplyNewLimit`, `ApplyToOrder`, `ApplyToSeed`, `ApplyUnknown`, `ApplySkipped` | the cases of `apply_message`, `lob:400-440`, `ApplyToSeed` with `attribute_to_seed` |
| `Prune`, `Recover`, `Resync` | `lob:580-590`, in the modes that repair |
| `Emit` | `lob:592-652` the feature row |
| `Accept`, `ContinuePast`, `Diverge` | `lob:654-678` the comparison and what follows from it |
| `RejectInput`, `EndOfFile` | the early returns, and `lob:680-691` |

`rec` is what the repairs change: the book, the seed index, the next synthetic id
and the count of trades. The repairs are operators from one `rec` to the next, so
that the code's order (bids before asks, levels from the best down, each seeing
what the one before it did) is their composition. `st` has the statistics; the
code's three counters of skipped messages are one. `pub` is the row without its
padding. `agreed` and `first` are history: how many leading messages left us with
the venue's top levels, and the first message's event.

`opts` has the options: `published` stands for `features_from_published` together
with `continue_past_divergence`, which the command line sets together
(`src/lobster_replay.cpp:117-121`); `emit` for a sink. `RejectInput` stands for
every kind of input the loop refuses: a file that ends early, a short line, an
unknown event type, rows with fewer levels than are compared. A field that is no
number makes `std::stod` and the like throw instead, after the message was counted
(`lob:112-117`, `130-133`): then `err` is `exception`. Either may happen at any
line, in the middle of a good file.

**The program** (`RunLobster`) reads the command line word by word. `Refuse` has all
its early exits with status 2, an unwritable features file included. An empty path
after `--emit-features` opens no file and sets no sink. Nothing catches what the
replay throws: `Abort` ends the program without a report. Printed sentences are
records of what they claim (`Claim`): what, and of how many messages. The
positional argument that sets the depth is the constant `Levels`.

**The tracker.** `prev` has the four `prev_` fields, which a one-sided update leaves
as they are, and `have_prev` is the flag that it clears. In `OfiStream` any quote
follows any other.

**The feed** (`MarketDataFeed`). A line is a tick of any event with any fields, a
header, or an empty line; `HEADER` stands for every line on which a number does
not parse, at which the program ends with an uncaught exception (`Unparsable`). A
file that cannot be opened returns at once (`CannotOpen`). The trade handler
of `run_feed` is `Blotter`, over the set of fills of a call. `process_tick` warns
of events it does not know, but `replay_from_csv` passes it only ADD and CANCEL, so
no such step exists.

## 3. Runs

| Run | Configuration | Size | What it shows |
| --- | --- | --- | --- |
| `pool` | 3 slots, 2 heap addresses | 192 states | exhausts, spills, recovers, spills again |
| `book_queues` | 4 ids, 2 prices, sizes to 2, 2 slots and 2 heap addresses | 56,934 states | lists of up to four orders: links, index, caches, time priority |
| `book_matching` | 3 ids, 3 prices, sizes to 3, 2 slots and 1 heap address | 81,814 states | sweeps over several levels with all order types |
| `book_refines` | 3 ids, 2 prices, sizes to 2 | 9,422 states | the engine implements the oracle and the callers' view of it, and its snapshots show what rests |
| `book_liveness` | the same, with fairness, without symmetry | 101,436 states | `CallReturns` |
| `lobster_complete` | 3 prices, sizes to 2, all levels published, 2 compared, 3 messages, no silent event; strict, continuing, or with all repairs | 825,359 states | a complete feed is mirrored, and the repairs leave it alone |
| `run_lobster` | 3 prices, sizes to 2, 1 level published and compared, 3 messages, 2 silent events, 7 command lines | 1,717,882 states | the program in every mode, from its command line to its exit, and what the three repairs do together |
| `ofi_stream` | 3 prices, sizes to 2 | 2,254 states | the tracker on any stream |
| `feed_replay` | 3 ids, 2 prices, sizes to 2, 6 lines | 8,268 states | every share is accounted for |
| `resync_fails` | 1 level, 4 messages, 2 silent events | a counterexample | finding 1 |
| `first_message_reduces` | all levels published | a counterexample | finding 2 |
| `report_overstates` | 2 prices, sizes of 1, 2 messages, 1 silent event, `--published-features` | a counterexample | findings 3 and 4 |

State counts are distinct states, up to the permutation of ids, slots and heap
addresses where the configuration names `Symmetry`. No run of a liveness property
does. Deadlock is checked in all: a destroyed book, a returned call of the replay
or of the feed, and an exited program stutter by an action of their own.

**Why the bounds are enough to be interesting.** *Engine:* four orders in one
queue give a head, a tail and two interior nodes that are each other's neighbours,
so every case of unlinking occurs next to every other. Two slots for four orders
put half of them on the heap and make every slot reused. Two prices are enough for
a level to appear, empty and reappear on either side; three prices give a sweep
through two levels that stops short of a third. Sizes to 3 give a taker that
exhausts two makers exactly, or one and part of the next. There are as many
addresses as ids: an id rests at most once, so the heap never runs out and
`operator new` never fails. *Replay:* a window of one level over two or three
prices is the smallest in which a level can die, appear or change size unseen and
then surface; two silent events are needed for a phantom behind a phantom, and one
for everything else. Three messages give one that hides a level, one that surfaces
it, and one after the repair. In `lobster_complete` the opening books include queues
of two pre-window orders at one price, for which one stand-in has to serve, and of
which a message may take one, or part of the larger. The command lines of `run_lobster` reach
each mode, each refusal, an option after the file names, one that is taken for a
path, and an empty path.
*Feed:* six lines are a header, three insertions, a cancel and one more.

**What the properties say.**
- `CachesExact` and `QueuesWellFormed` hold also in `settle`, when the handler
  runs: a handler that reads depth sees volumes that add up. (A maker that has
  just been used up is still listed there, with size zero.)
- `TimePriority` is an action property over the ids met by walking each list from
  its head: a step may remove ids anywhere and add new ones behind, never swap.
- `PricePriority` relates the fills already reported to the book: none is at a
  better price than an earlier one, nothing better is left on the book, and a maker
  is left behind only when used up.
- `FillsAddUp`: with the remainder, the fills are exactly what was asked.
- `ImplementsReference`: every step of the engine is a step of the oracle or
  none, so the trade streams agree fill by fill and the books agree price by
  price, order by order. `reduce_order`, which the oracle does not have and the
  differential test never calls, must be an amend in place or a cancel.
- `ResultsAgree`, `FillsAgree`: what `BookCalls` says of an insertion holds at every
  step of its loop for what is left of it, each trade is one of the fills it predicts
  and none is left over.
- `SnapshotsAgree`: what the engine reports of its depth, from its level maps and
  their cached volumes and counts, is what the orders in the queues come to: every
  price, best first, its volume and the number of its orders. It is about what a
  caller reads between the steps of the loop as well, except while a handler runs:
  then a used-up maker is still counted in its level, as `CachesExact` says.
- `CompleteFeedIsMirrored`: with the whole book in the rows, and a first message
  that does not reduce anything, the orders the messages introduced rest with us
  as they do at the venue, in the same order of the queue, and one stand-in per
  level holds what was there before. Of the run's modes one continues past
  divergences, so that the property is about what would follow one, too, and one
  repairs, and must find nothing to repair.
- `HorizonIsExact` relates what the code concludes by comparing two lists of
  levels to the truth, which is the venue's own book: a run stops at, or
  `first_divergence` records, the first message after which the top levels differ.
- `NeverTrades`: as long as every row has matched, applying the next message
  makes the engine trade in no mode; so a trade means a run that had diverged.
- `PruneOnlyPhantoms`: a level is dropped only if the venue has none there,
  although the window cannot show the venue's whole book.
- `SizesAreNotForgiven`: pruning and adopting leave alone a level that both hold,
  so `--recover` cannot explain away a wrong size.
- `RepairsSuffice`: after the three repairs of `--resync` the comparison succeeds,
  except when pruning has promoted a phantom it did not judge (finding 1).
- `ToldOrdersAreSpared`: an excess is taken from an order of the venue's only when
  no stand-in is left at its price.
- `FeaturesFollowVenue`, `EveryMessageHasARow`: feature rows tell the venue's touch
  always in published mode, and up to the horizon otherwise; the diverging message
  has its row.
- `SuccessIsHonest`, `OptionsTakeEffect`: what the exit status and the command line
  are worth. `ReportAsPrinted` takes the printed sentences at their word, and is
  violated (findings 3 and 4).
- `ValidNeverSpansAGap`, `Telescopes`, `MirrorNegates`: an increment is valid
  exactly between two consecutive two-sided quotes; at a constant touch the sum of
  any number of increments is the net change of the sizes; a market and its mirror
  image have opposite imbalance.
- `SharesConserved`: accepted shares rest, were cancelled, or were traded, where
  each traded share counts for both its sides. `SummaryIsSane` bounds the VWAP that
  `run_feed` divides and the spread it subtracts in unsigned arithmetic.

Each property is paired with a small mutant of the code's model that breaks it
(the operators commented as such, next to what they mutate), listed in
`PROJECT.json`.

**Fairness.** `FairSpec` is weak fairness of `EngineStep`: the one thread does not
stop in the middle of a call. Nothing is assumed of callers, who may never call
again. Under it, `CallReturns` says that the matching loop terminates. The other
programs read a finite file once from front to back, and have no liveness of
their own worth stating beyond that.

### Findings

1. **A resync run can fail** (`resync_fails`). `prune_phantom_levels` looks at the
   first `levels` levels of our book before it drops any (`lob:368`). When one of them
   is a phantom, the level behind it moves up into the compared window unjudged; if that
   is a phantom too, neither adoption nor resizing touches it, and the run ends in
   a divergence that `lob:260-262` says cannot happen. `RepairsSuffice` says that
   this is the only way.
2. **A correct stream may fail at its first message** (`first_message_reduces`). Only
   a first message that is a new order is taken back out of the first row before
   the book is seeded (`lob:549`). When it reduces a level that survives, those
   shares are missing from the seed and are removed a second time, although
   `tests/test_lobster_replay.cpp:8` says that a correct stream reconciles.

3. **The printed horizon is one too many** (`report_overstates`). What is printed as
   "matched exactly for the first N" messages (`src/lobster_replay.cpp:131`) and as
   "Strict reconstruction horizon: N messages" (`:149`) is the number of the message
   that diverged; one fewer matched. `README.md:89` tabulates the second as "Messages
   reconciled exactly".
4. **A run that diverged claims that none did** (`report_overstates`). With
   `--published-features` the replay goes on past a divergence and ends well, and the
   closing sentence says "with zero divergences" (`:157-159`) without a look at
   `first_divergence`. The counterexample of the run shows both: two messages, of
   which the first matched, are reported as two that matched exactly and as two
   reconciled with zero divergences.

Smaller places where the words and the code differ are stated by properties
the way the code has it, or are visible in an action:

- The word after `--emit-features` is its path, also when it is an option, which
  then has no effect (`OptionsTakeEffect`).
- The first line of a tick file is dropped whether or not it is a header
  (`SkipFirstLine`), and EXECUTE rows are dropped before the function that would
  warn of them (`IgnoreLine`).

## 4. Proofs

The theorems hold for any set of ids, any prices and sizes, any pool, any window
and depth, any venue and any command line. The assumptions are those stated with
the constants: `PoolAssumption` (slots and heap addresses are finite and disjoint
sets that do not contain `NULL`), `BookAssumption` (there is a price between the
sentinels and a positive quantity), `VenueAssumption` and `ReplayAssumption` (the
bounds are numbers, the opening queues hold quantities, the shares an event takes
are numbers, the compared depth is positive, a mode is a set of options, and the
ids from which the replay numbers its stand-ins are above every id of the venue's:
`lob:40` starts them at 9 * 10^11), `CommandLineAssumption`, `StreamAssumption` and
`FeedAssumption` (words are words; prices, sizes and bounds are numbers).

| Module | Theorem | States |
| --- | --- | --- |
| `OrderBookProofs` | `PoolSafety`, `PoolTypeCorrect`, `SlotsConserved`, `HeapRouted`, `OverflowAccounted` | `PoolInv`, its conjuncts, and `OverflowAccounting` |
| | `PoolImplementsAllocator` | the pool implements `Allocator` |
| | `BookSafety` | `BookInv` is invariant |
| | `TypeCorrect`, `NeverCrossed`, `IndexAlwaysAgrees`, `QueuesAlwaysWellFormed`, `CallsStayInFlight`, `BookConservesSlots`, `NothingLeaks` | the properties of the same substance that the runs check |
| | `CachesAlwaysExact` | `CachesExact` |
| | `BestPriceFirst`, `FirstInFirstServed` | `PricePriority`, `TimePriority` |
| | `FillsAlwaysAddUp`, `TimeInForceHonoured` | `FillsAddUp`, `TimeInForce` |
| `OrderBookRefinementProofs` | `EngineImplementsReference` | `ImplementsReference` |
| | `CallsAlwaysAgree`, `FillsAlwaysAgree`, `SnapshotsAlwaysAgree` | `ResultsAgree`, `FillsAgree`, `SnapshotsAgree` |
| `OfiStreamProofs` | `FlowTelescopes`, `NoIncrementSpansAGap`, `MirrorImageNegates` | the three properties of `ofi_stream` |
| `LobsterReplayProofs` | `ReplaySafety` | `ReplayInv` is invariant |
| | `HorizonAlwaysExact`, `FeaturesAlwaysFollowVenue`, `EveryMessageAlwaysHasARow`, `PruningIsSafe` | `HorizonIsExact`, `FeaturesFollowVenue`, `EveryMessageHasARow`, `PruneOnlyPhantoms` |
| | `BookSafety` | `BookInv` of the replay is invariant |
| | `ReplayTypeOK`, `ReplayNeverTrades`, `SizesAreNeverForgiven` | `TypeOK`, `NeverTrades`, `SizesAreNotForgiven` |
| | `ToldOrdersAreAlwaysSpared`, `RepairsAlwaysSuffice` | `ToldOrdersAreSpared`, `RepairsSuffice` |
| | `RunSafety` | `RunInv` is invariant |
| | `SuccessIsAlwaysHonest`, `OptionsAlwaysTakeEffect` | `SuccessIsHonest`, `OptionsTakeEffect` |
| `MirroredFeedProofs` | `CompleteSafety` | `CompleteInv` is invariant |
| | `CompleteFeedIsAlwaysMirrored` | `CompleteFeedIsMirrored` |
| | `CompleteFeedReconciles` | a replay of a complete feed fails only for its input |
| `MarketDataFeedProofs` | `FeedSafety` | `FeedInv` is invariant |
| | `NoShareIsLost`, `SummaryMakesSense` | `SharesConserved`, `SummaryIsSane` |

**Sums and walks.** The laws of a sum over a set, of a walk along a list and of
what is left of a queue are inductions, and the induction theorems of the library
take the predicate as an operator, which these provers cannot instantiate.
`BookLemmas` writes the predicate as the *set* of the numbers, subsets or sequences
that satisfy it: `NumberInduction`, `SubsetInduction` and `SeqInduction` follow from
the library's theorems on well-founded orders, which have no such parameter. With
them it has that sums do not depend on the order of summation (`SumInjection`),
that they change by one term when one term changes or a member joins or leaves,
and what `TakeFront` and `EntriesAt` leave of a queue. Recursion is written as
functions (`Fifo`, `QueueAt`), which the proofs can expand.

**The pool.** `PoolInv` is inductive as it stands. `AllocateInv` and
`DeallocateInv` are stated about `Allocate` and `Deallocate` rather than about
`PoolNext`, so the book's proof cites them for its own steps. The refinement needs
the invariant for one thing: that the address taken from the free list is not in
use. `OverflowAccounting` is inductive with it: an overflow adds an address that
was not in the set and one to the count.

**The book.** `BookInv == StoreInv /\ CallTypeOK /\ InFlight /\ NoLeak`.

- *Why the existential queue.* That a linked list is a proper list cannot be said
  by its local link conditions alone: they also hold of a list with a cycle
  beside it. `QueuesWellFormed` therefore says that for each level there *is* an
  injective enumeration `q` of exactly its orders that begins at `head`, ends at
  `tail` and that `next` and `prev` follow. Under a change one has to name the
  new enumeration: `q` without its i-th element (`RemoveOrderInv`), or with the new
  order at the end (`AppendInv`). This needs no recursion and no induction, for
  queues of any length.
- *Why all conjuncts at once.* Unlinking touches the objects its order points at;
  that they are live, of the same level, and nobody else's neighbours is
  `QueuesWellFormed`; that the level exists is too; that erasing the id loses no
  other order is `IndexAgrees`; that the pool takes the address back properly is
  `SlotConservation` and `HeapRouting`. Removing preserves `Uncrossed` trivially,
  appending does because matching has stopped.
- *`InFlight`* carries what one step of a call leaves for the next: the taker's id is
  not resting (so appending it orphans nobody), the maker shown to the handler is
  the head of the best level, and only it may have size zero.
- The second part of the module has one lemma per kind of change (`RemoveOrderInv`,
  `AppendInv`, `ResizeInv`), and `ThreadsStable` for the queues a change leaves
  alone; the third has one lemma per action that cites them.
- During teardown the lists may not be read (`Open` is false): the code frees the
  orders first and the levels, whose pointers now dangle, after. That nothing
  leaks follows from `IndexAgrees` when the index is empty.

**Caches.** `VolumesExact` is `CachesExact` with the sum over a level's orders taken
of one function for all levels, the sizes in memory. It is inductive with
`StoreInv`: a level's orders gain one, lose one, or one of them changes its size,
and the cached volume changes by as much.

**Price priority.** `PricePriority` alone is not inductive: that a later fill leaves
no unfinished maker behind depends on what the loop has done to the makers of
the earlier ones. `FillsInv` adds it: whenever something is left to match, all
makers traded against are gone from the index, and while the handler runs all but
the last are, which is the one it is shown, and if that has anything left, the
taker has not.

**Fills and order types.** `FillsAddUp` needs beside itself only that the maker of
the next fill is none of the earlier ones, which `FillsInv` has. A
FOK order is let in when the volumes of the crossing levels suffice;
`CallKeepsPromise` says that they go on sufficing for what remains after each fill,
which takes from both the same (`VolumesExact` again, in every state of the loop), so
that matching cannot end with anything left.

**Time priority.** Each kind of change names the enumeration before and after it,
and one is an order-preserving piece of the other, followed by what is new
(`QueueKept`). The walk that `TimePriority` compares is that enumeration, by induction
along it (`QueueIsWalk`, `QueuesReadNext`).

**The refinement.** `EngineImplementsReference` has two layers.

- *The reading.* A level reads as the FIFO that its list shows (`RawFifo`), less a
  used-up maker at its head (`Seen`, which is `FifoAt`). `RemovedFifos`,
  `ResizedFifos` and `AppendedFifos` say what the three kinds of change do to it:
  cut one entry, change one size, append one, and leave every other level alone.
  They rest on what the proofs of `OrderBook` have of the enumeration before and
  after (`QueueKept`), and on a level having one enumeration only (`EditSame`).
- *The operations.* Each action maps to a step of the oracle or to none.
  `Fill` is the oracle's fill, because a used-up maker disappears from the reading
  there and then (`FillMatches`), so `RetireMaker` and `KeepMaker` are stutters
  (`LoopStutters`); a removal erases (`RemovalErases`), a partial reduction is an
  amend in place (`ReductionAmends`), the destructor closes and what follows it is
  a stutter. Besides `BookInv` this needs `VolumesExact`: the oracle checks a FOK
  order by adding up its queues, the engine by its cached volumes (`FullyFillable`).

**The callers' view.** What `BookCalls` says of an insertion is not inductive: it is
one operator from a book to a book. The proof states how it goes with *one* fill:
taking `x` shares from the front of the best level that crosses (`BitesBest`, `Bitten`)
and then inserting what is left comes to the same book as inserting it all
(`BittenInsert`), and the fills of the whole are that one and those of the rest
(`BittenFills`). These are lemmas about any book in good order, with any queues
(`BookCallsProofs`); the shares of the better levels drop by `x` for all the others
(`BittenLevels`), and the best has none before it. That the engine's fill is such a
bite is `FillBites`; so `Outcome`, what the call in progress comes to, is the same
before and after it. When nothing crosses any more, an insertion only appends
(`QuietInsert`), which is `RestRemainder`. `QueueOK` supplies the book in good order:
`IndexAgrees` gives that an id rests once, `Uncrossed` the rest.

**The snapshots.** `SnapshotsAlwaysAgree` has two halves. The order in which a map's
iterator meets the keys is the order of their ranks (`IterationRanks`, from
`SortingRanks`: only one enumeration is sorted), so both depths list the same prices.
The cached volume and count of a level are those of the queue it reads as, in any
state in which no used-up maker is listed (`CachedFields`, from `VolumesExact` and
`QueuesWellFormed`).

**The tracker.** `StreamInv` adds to the properties that `have_prev` says whether the
last quote had two sides, and that `prev` is then that quote. The rest is linear
arithmetic under the four comparisons of an increment.

**The replay.** There are two invariants, for what the comparison decides does
not depend on what the repairs do, and most of the theorems need only the first.

`ReplayInv` has the counters' types, `Judgement`, `RowIsCurrent` and
`FeaturesFollowVenue`. *Judgement* is the point: while a message is worked on, the row
is the venue's book and all earlier messages are judged; before and after, this
one is too; and a run that does not continue has no recorded divergence. None of
the repairs is looked into: whatever they do to the book, the comparison decides,
and it is exact. That the comparison is exact is `ComparedIsTopAgrees`: both lists
are snapshots by rank, the row to the depth of the file and ours to the depth
that is compared, and agreeing up to there means agreeing on how many levels there
are and on each. It rests on lemmas about ranks in a finite set of prices
(`RankIsOrder`, `PriceAtRank`, `DepthFacts`, `SameTouchAtAnyDepth`): that a price's
rank, the number of better ones, orders the prices, and that each number below
the cardinality is the rank of one.

`PruningIsSafe` uses the same lemmas: a tracked price of the venue's that its row
does not list ranks behind everything listed, so the row is full and the price is
worse than its last one (`AuthoritativeIsRight`), which is what the code's bound
tests.

`BookInv == ReplayInv /\ RecInv /\ FeedInv` looks into the repairs. `RecInv` says
that the reconstruction is a book in good order (`RecOK`: ids rest once, nothing
rests with size zero, the book is not crossed, a seed names a stand-in already
numbered, ids from the next synthetic one on are free) and that no trade has happened
while all has matched; `FeedInv`
that the venue's book is one too and that the message is what the venue just did.
`NeverTrades` follows from the two meeting: an arrival does not cross the venue's
book, and after a match both touches are the same (`SameTouch`), so it does not
cross ours; seeded, adopted and resized levels are the row's, which is uncrossed,
and what pruning leaves is on the row's side of its best levels. The repairs are folds
over levels; a fold keeps what each of its steps keeps, by induction on the levels.

Two theorems say what the repairs are for. A resync works through a level's stand-ins
and then through the orders the venue told us of; that sequence is the level,
rearranged (`Rearranges`), and what is taken is taken from its front
(`RetireIsLeft`), so if an order of the venue's loses anything, no stand-in is left
(`RetireSpares`). For `RepairsAlwaysSuffice`, `RepairInv` adds what each phase leaves to
the next: after adoption each listed price is held or the other side of our
book stands in its way (`AllAdopted`); after resizing what is held has the listed
size (`AllSized`). When, besides, no level is left that the row rules out, nothing can
stand in a listed price's way, for it would itself be ruled out (`ListedAreHeld`); what
we hold and the row does not list is behind it (`UnlistedIsBelow`), and beyond a row
that ends early there is nothing (`NothingBelowRow`). So the two lists agree rank by rank
(`RowRanks`, `RepairedMatches`). That nothing is left that the row rules out is the
property's own condition: finding 1 is what happens without it.

**The mirrored feed.** `CompleteInv` is about a feed whose rows show the whole book. It
says of every level that the venue's queue is some orders from before the window
followed by orders that messages have introduced, and that ours is one stand-in with
the volume of the first part, if there is any, followed by the second part itself
(`LevelMirrors`, `Mirrors`). It is not inductive without `BookInv`, from which come that
ids rest once, that stand-ins have ids no message can name, and that the row is
the venue's book. The seams of the loop need their own clauses (`Synced`): between reading
a message and applying it the venue is one event ahead, so that the reconstruction mirrors
*some* book that the message leads from to the venue's (`Follows`); and before the first
message all of the venue's orders have ids no message has introduced (`Unseen`).

- *Seeding* (`SeedMirrors`): the row of the first message without that message's own
  shares is the book before it (`OwnSharesFacts`, `SeedsForBook`), and the fold over its
  levels gives each one stand-in and trades with none (`SowLevel`, `SowSide`).
- *Applying* (`ApplyMirrored`): a new order joins the end of both queues
  (`NewOrderMirrored`); a reduction of an introduced order finds it and takes the
  same from both, because what is taken of an order in two queues put one after the other
  is taken from the one that has it (`LessenedConcat`, `ToldShrinks`); a reduction of any
  other order finds the stand-in of its level, which loses what the orders before the
  window lose together (`PreWindowShrinks`). So no reference is unknown.
- *Repairing and comparing*: a mirrored book has the venue's levels and their sizes
  (`MirrorSame`), so nothing is pruned, adopted or corrected (`PruneMirrored`,
  `RecoverMirrored`, `ResyncMirrored`), and the comparison succeeds (`ComparedMirrored`).

The run `lobster_complete` checks the property in three modes; the theorem has it for
every set of options. `CompleteFeedReconciles` is the
other half of finding 2: a correct, complete stream whose first message reduces nothing
does reconcile.

**The program.** `RunInv` adds that nothing is judged before the command line is
read, that the options among the words already read are in force or were taken
for a path, and that an exit status of 0 was given to a replay that passed.

**The tick replay.** `FeedInv` has the book in good order, the balance, and
`BlotterSane`. The balance counts every share of every queue (`HeldShares`); that an
insertion adds what it was asked less twice what it traded (`InsertHeld`) is proved
of `BookCalls`, from the fills being the part of the opposite
queues that `TakeFront` takes (`FillFacts`, `FillBounds`).

**Only model-checked.**
- `CallReturns` (liveness under fairness).

## 5. What is left

In order of importance:

1. **Re-entrant handlers.** What the matching loop may still rely on when a handler
   calls back into the book. The book does not offer it and nobody does it.
2. **Larger windows** of the replay: two published levels with silent events exceed
   what TLC does in minutes.

## 6. Not modelled

- `operator new` failing in the middle of an insert (the code has no recovery from
  it), a handler that throws or calls back into the book, the layout and timing of
  memory.
- Number parsing, text output and the layout of the CSV files; the pauses of the
  feed's real-time option; the snapshots that `run_feed` and the demo print.
- The replay's positional argument for the depth; the reasons
  for which an input line is refused, which are one action; blank lines of the
  message file, which are passed over.
- Prices and sizes beyond the width of the fields they are cast to (`lob` casts a
  file's 64-bit numbers to the book's 32-bit ones): the venue's are taken to fit.
- The random driver of the differential test and the benchmarks, which have no
  state of the system's own, and the Python study, which is floating-point
  statistics.
