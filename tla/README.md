# A verification model of the ITCH exchange

The repository replays a NASDAQ ITCH 5.0 feed into limit order books and matches orders against
the same books. This directory models it from the bytes to the numbers reported: the readers
that turn bytes into frames, the views that read fields out of frames, the builder that turns
messages into calls of a book and the observer that checks it, the books and their data
structures, the matching engine, the benchmarks' recorded workload, and the statistics and the
histogram the applications report. The modules are plain TLA+; TLC checks them on small
instances and TLAPS proves theorems about the price ladder, the pool, the order index, the
books, the matching engine, the frame reader and the statistics for every value of their
constants.

Paths below are relative to `src/include/itch/` unless they say otherwise.

## 1. The system

### Components, their state and their operations

| Component | State | Operations |
|---|---|---|
| `PriceLadder` (`book/price_ladder.hpp`) | window of slots with a bitmap, base tick, ordered overflow map, level count | find, insert, erase, best, for_each_level; insert may rebase |
| `AvlLevelMap` (`book/avl_level_map.hpp`) | pooled AVL tree | the same interface |
| `Pool`, `Handle` (`book/pool.hpp`, `book/handle.hpp`) | slots, generation per slot, free list threaded through the slots, quarantine | allocate, free, dereference |
| `OrderIndex` (`book/order_index.hpp`) | open-addressed table, live count | insert, find, erase with backward shift |
| `BookT` (`book/flat_book.hpp`, `book/records.hpp`) | two pools, the index, a level container per side, counters, cached best prices | add, cancel, execute, remove, replace, queries |
| `MapBook` (`book/map_book.hpp`) | hash map of orders, ordered map of levels per side, a list per level, counters | the same operations |
| `NaiveBook` (`src/tests/naive_book.hpp`) | orders in arrival order | the same, recomputed on each query |
| `MatchingEngine` (`engine/matching_engine.hpp`) | a book, the next reference, the self-trade mode | submit, cancel, set_stp_mode |
| `BookBuilder` (`replay/book_builder.hpp`) | the symbol and its locate code, statistics | a handler per message type |
| `ReplayObserver` (`replay/invariants.hpp`) | expected quantities, counters, digest | before_add, note_reduction, after_apply |
| `FrameCursor`, `FrameReader` (`wire/framing.hpp`, `wire/source.hpp`) | buffer, offset, fill, totals | next, refill |
| `MappedFile`, `MemorySource`, `FdSource`, `GzipSource` | a mapping, a position, a descriptor, an inflate stream | read |
| views and dispatch (`wire/views.hpp`, generated) | none | field access, switch on the type byte |
| core (`core/*.hpp`, `src/src/assert.cpp`) | the assertion handler | integer types, hash, assertions |
| `Workload`, `Recorder`, `one_pass` (`src/bench/workload.hpp`, `src/bench/bench_book.cpp`) | recorded operations, resolved symbol | load, apply |
| `Collector` (`src/apps/itch_histogram.cpp`) | table of distances, totals, ranges, peaks | before_add, after_apply, within, quantile |
| `Stats` (`src/apps/itch_stats.cpp`) | counts by type and by locate, byte totals, timestamps | observe, run_mapped, run_streamed |
| `itch_replay` (`src/apps`) | none of its own | drives the above over a file |

### How they interact

Everything is called synchronously in one thread. A source fills a
`FrameReader`, whose frames `dispatch` hands to a `BookBuilder`; the builder
filters by symbol, tells its observer what is about to happen, calls the book,
and tells the observer what happened. A `BookT` looks a reference up in its
`OrderIndex`, follows the handle into the order `Pool`, from there to the level,
and changes its level container (`PriceLadder` or `AvlLevelMap`) only when a
level appears or empties. A `MatchingEngine` owns no orders: it asks the book for
the touch and the front of its queue, executes against it, and rests what is
left. The pieces share state by handle: an order names its level and its
neighbours, a level its first and last order, the index and the container name
both. Freeing a record is correct only if every one of these names is gone.

### What is hard

There is no concurrency, no persistence and no network protocol, so there are no
interleavings of threads, no crashes and no message loss to model. What is hard
is *long sequences of legal calls* on structures with redundant state:

* the ladder moves levels between its window and its map when the inside drifts,
  and every later lookup depends on each of them having landed on the right side;
* intrusive queues are edited from both ends and from the middle, and records are
  reused at once;
* totals, counts and best prices are cached and updated incrementally;
* deletion in the index moves other entries;
* generations wrap;
* the matching loop changes the book under its own feet and can stop in five
  places;
* what an order did is seen twice, by a book and by an observer that counts from the
  messages alone, and a symbol is resolved in the middle of a stream;
* fields are read at generated offsets out of frames whose length was checked elsewhere;
* a frame may straddle the end of a buffer at any byte, a read may return less
  than was asked for or throw, and a compressed stream may be cut off or broken
  anywhere.

### What makes each component correct

* Level container and index: a map from key to handle (`HandleMap`); the inside
  is the best stored price; the walk is strictly outwards.
* Pool: a slot is issued to nobody or to one holder; no slot is lost; a stale
  handle is rejected until its generation comes round.
* Book: a price-time priority book (`LimitOrderBook`), with redundant state equal
  to what a recount gives.
* Engine: shares conserved, price-time priority, limits, self-trade prevention,
  never crossed between calls, always returns.
* Builder and observer: the book holds exactly the orders of its symbol, and the
  quantities agree with those accumulated from messages alone.
* Messages: what is written into any field is what is read out of it, and no read
  leaves the frame.
* Workload: every pass rebuilds the book of the recording.
* Statistics: the same bytes give the same report by either path, and the numbers in
  a report agree with each other.
* Framing: the frames read through any sequence of refills are those of the whole
  input; a compressed stream is delivered once, and ends only where it may.

## 2. The modules

| Module | Models | Uses |
|---|---|---|
| `BookTypes` | sides, `kNoPrice`, the inside of a side, a set read from the inside outwards; a place in a queue, a queue closed up | |
| `HandleMap` | abstract: a map from key to handle | |
| `PriceLadder` | the ladder as a value and its member functions as operators | `BookTypes` |
| `LadderClient` | a side of a book driving a ladder (`level_for`, the emptying half of `reduce`) | `PriceLadder`, implements `HandleMap` |
| `LadderWalk` | `for_each_level`, the merge one pass at a time | `LadderClient` |
| `SlotAllocator` | abstract: handles issued and returned | |
| `Pool` | `Pool` and `Handle` | implements `SlotAllocator`; proved |
| `OrderIndex` | the table, one pass of the deletion loop per step | implements `HandleMap`; proved |
| `StoresProof` | proofs: the pool and the index | extends both |
| `LimitOrderBook`, `LimitOrderBookProof` | abstract book: price-time priority queues | `BookTypes`; proved |
| `AvlLevelMap` | the other level container: a balanced tree of pooled nodes | implements `HandleMap` |
| `FlatBook`, `FlatBookProof` | `BookT` | implements `LimitOrderBook`; proved |
| `MapBook`, `MapBookProof` | the reference book, whole | implements `LimitOrderBook`; proved as `Differential` drives it |
| `BookDigest` | `book_digest`, and reading a book back from what it feeds | extends `MapBook` |
| `NaiveBook` | the naive book and a `MapBook` driven alike | extends `BookDigest` |
| `Differential` | the differential tests: the three books driven alike | extends `FlatBook`, composes `NaiveBook` |
| `MatchingEngine` | `submit`, one pass of its loop per step | extends `LimitOrderBook`; proved |
| `MarketFeed` | external: what an exchange sends about several stocks | `BookTypes` |
| `BookBuilder` | the handlers, with `ReplayObserver` | extends `LimitOrderBook` |
| `Replay` | the loop of `itch_replay`: the feed read by the builder | composes `MarketFeed` and `BookBuilder` |
| `Workload` | the recorder reading the feed, and passes over what it recorded | composes `MarketFeed` and `LimitOrderBook` |
| `Histogram` | the collector of `itch_histogram` | extends `LimitOrderBook` |
| `FeedPrograms` | `itch_replay`, `bench_book` or `itch_histogram` reading a session | extends `Replay`, composes `Workload` and `Histogram`; proved |
| `BookProgramsProof` | proofs: the engine; the programs that read a session | extends `MatchingEngine` and `FeedPrograms` |
| `Messages`, `Views` | layouts of the 23 message types; their views and `dispatch` | |
| `Wire` | a message written, framed, damaged, cut out again, dispatched and read | `Views`, `FrameCursor` |
| `FrameCursor` | `next` of `FrameCursor`, as an operator on bytes | |
| `FrameStream` | abstract: what a cursor returns that sees so many bytes ahead | `FrameCursor` |
| `FrameReader`, `FrameReaderProof` | `FrameReader` over any source, one pass of the loop of `next` per step | `FrameCursor`, implements `FrameStream`; proved |
| `FeedStats` | `itch_stats`, streamed and mapped | extends `FrameReader`; proved in `FrameReaderProof` |
| `GzipSource` | `GzipSource`, one pass of the loop of `read` per step | proved in `FrameReaderProof` |
| `BookTypesProof`, `LadderClientProof` | proofs: least and greatest elements, queues, sums, reading a set outwards; the ladder | |
| `MCLevelContainers`, `MCDifferential`, `MCTwoBooks`, `MCStores`, `MCFeedPrograms`, `MCFrameReader`, `MCReaders`, `MCDecoding` | instances for TLC | |

How state and actions correspond to the code:

* **PriceLadder.** A ladder is a record with the fields of the class. `words` is
  the set of slots whose bit is set, `overflow` a function with `NoLevel` where the
  map has no entry. The vector `rebase` lifts the window into is `Lifted`; what it
  puts back is `Kept`, what it emplaces in the map `Spilled`, what the scan of the
  map pulls in `Pulled`. Casts to the 32-bit `Price` are `% PriceMod`. `insert`
  is `Inserted`: placing *and* the rebase it may trigger. `LadderClient` adds the
  `price` of every live level record, because `BookT` erases a level by the price
  recorded in it, and `aborted`, which says that an `ITCH_ASSERT` of the ladder
  failed.
* **FlatBook.** A book is a record of the class's fields; mutations are operators
  on it because `replace` composes two. `Added` is `add` (`WithLevel` is
  `level_for`, `Enqueued` the body, `NotedAdded` is `note_added`); `Reduced` is
  `reduce` (`Lessened`, `Unlinked`, `LevelCleared`, `NotedRemoved`). A pool is any
  choice of a free record, the index and the level containers are functions: that
  the real ones behave so is what `Pool`, `OrderIndex` and `LadderClient` are
  checked for. `RestingEntry` and `RestingQueues` are how it is read as a
  `LimitOrderBook`: through the index, and along the links from the head of each level.
  A failed precondition ends the process, so the call has no step.
* **AvlLevelMap.** A tree is a record of the pool of nodes, the root and the free list,
  threaded through `left` as in the code; `InsertAt` and `EraseAt` are the recursive
  members, and `Moved` is the case with two children: the successor's payload moves up
  and `size_` is put back before the inner erase takes it down again. `WalkFrom` is the
  loop of `for_each_level` with its stack.
* **MapBook.** A book is a record of its four members; a level has its quantity and its
  list. `Inserted`, `Reduced` and `Detached` are `insert`, `reduce` with `reduce_level`,
  and the part of it for an order with nothing left; `replace` composes them. The
  iterator of an entry is the order's place in its list, which is unique.
* **NaiveBook.** Each action is a call of both books; `Both...` names say so. The naive
  book checks no precondition, so it is given the calls a `MapBook` accepts, as in the
  differential tests.
* **BookDigest.** `Digest(b)` is the sequence of numbers fed, `ReadBack` what a reader can
  tell from it. The 64-bit chain is taken to be free of collisions, which is what the code
  hopes of it, so equal digests are equal sequences.
* **Differential.** `All...` actions are one call of the three books; `Same` is `same()` of
  the tests, on the `Layout` of each side.
* **LimitOrderBook.** The queues of `MapBook` without its derived values: level
  quantities, counts and best prices are computed when asked for. `cancel` and
  `execute` are one action.
* **MatchingEngine.** The local variables of `submit` are state variables and each
  pass of its loop is a step, so what holds *between* passes can be stated. The
  ways out of the loop are the actions `StpCancelBoth`, `StpCancelNewest`,
  `FilledComplete`, `CancelRemainder` and `Rest`.
* **BookBuilder, Replay.** A message is a record with its kind, its locate and what its
  handler reads. `Handle` is the dispatch; each handler is a chain of `before_add`,
  `note_reduction`, the book's operation, the counters and `after_apply`, in the code's
  order, and sets `aborted` where an assertion of the observer or a precondition of the
  book fails. `MarketFeed` keeps the market of all stocks apart, so that the book can be
  compared with it: announced before traded, references unique, no stock crossed. The
  structural digest folded into the journal is left out: `BookDigest` says what it can
  tell apart. `FeedPrograms` chooses the program that reads, and starts it.
* **Workload.** `Recorded` is the operation a handler pushes, with the fields the handler
  leaves at zero; `Begin` and `ApplyNext` are a pass on a fresh book.
* **Histogram.** The collector sees the book before (`BeforeAdd`, on the queues passed to
  it) and after (`AfterApply`, primed). Distances are in whole pennies, divided towards
  zero as in C++. Means are left out. Prices are positive: the minima start at 0, which
  stands for none yet.
* **Messages, Views, Wire.** A layout is the sequence of a message's fields with their
  widths; an offset is a sum of widths, where the code asserts each `offsetof`. A view
  says, field by field, in which pieces its accessor loads bytes and how wide the result
  is. `Wire` writes fields with the tests' `WireBuilder`, may cut, grow or retype the
  frame, passes it through `FrameCursor` and reads every field back.
* **FeedStats.** A message's body is type, locate, timestamp, a byte each, and the symbol of a
  directory message; `Answered` is what `run_streamed` does with an answer of the reader.
  What `run_mapped` would report is computed from the same stream (`RunMapped`), look by look
  (`Mapped`); a frame is two bytes at least, so as many looks as there are bytes come to the end.
  `StatsOfItch` is what the program is entitled to: its buffer is longer than a 16-bit prefix can
  promise, and every known message has a locate and a timestamp.
* **Pool.** `link` is the field a slot lends to the free list; it holds `Data`
  while the slot is live because the owner overwrites it. `held` are the handles in
  circulation, `stale` one that its holder failed to drop, `reuses` the number of
  times its slot has been issued since (modulo the number of odd generations).
* **OrderIndex.** `hash` is any function chosen once. `hole` and `scan` are `i` and
  `j` of `erase_at`; `Pass`, `Shift` and `Done` are the three ways through a pass of
  its loops.
* **FrameReader.** `buf` is the filled part of the buffer, so `filled_` is its
  length; `pos` is the cursor's offset. A pass of the loop of `next` is `Produce`
  (a frame or a fault), `Refill(n)` (the source hands out `n` bytes), `Exhausted`
  (it hands out none, and the cursor looks once more) or `SourceThrows`, which
  leaves `pos` where it was although the tail has moved; no call follows that. The
  source is what all of them have in common: any number of bytes from one to what was
  asked for, nothing when it is at its end or asked for nothing. A verdict carries
  the status, the error and the frame. Byte values, the table of lengths and the
  size of the buffer are constants.
* **FrameStream.** The reader's promise, with the buffer gone: `Return` is one
  look of a cursor at the next `Window` bytes. For a window as long as the stream
  that is the zero-copy path over a `MappedFile`.
* **GzipSource.** A compressed stream is a number of tokens with, for each, how many
  bytes it and those before it stand for; `given` of them are there and one may be
  `corrupt`. `Inflates(upto)` is a call of `inflate` that comes to the token `upto`,
  as far as tokens and room allow, and `InflateOk`, `InflateEnd`, `InflateError` are its
  returns. The code's `Z_BUF_ERROR` with input unread is one of the errors; without
  input unread `inflate` is never called, so its `continue` has no step. A stream is one
  gzip member: `read` is finished at the first `Z_STREAM_END` whatever follows it.

Definitions introduced by "A mutant" are plausible wrong versions of the
definition that follows. No specification uses them; they show that the
properties can tell the difference.

## 3. What is checked

Components that do not interact are checked in one run: the initial state chooses which
one the behaviour exercises, and the variables of the others stay as they are. So the
containers, the stores, the programs that read a feed, the byte readers and the decoders
have one run each. A system that needs nothing but values for its constants is run as it
is, without an MC module: `LadderClient` in `ladder_low`, `FlatBook` in `flat_book_zero`,
`Pool` in `pool_quarantine` and `MatchingEngine`.

| Run | Instance | Distinct states | Question |
|---|---|---|---|
| `level_containers` | ladder: window of 8 ticks of 2 units, margin 1; prices 8 9 12 14 22 23 40 50; 5 levels. Tree: 5 prices | 10,152 (up to symmetry) | does every level stay findable, in order, through any rebases and rotations? |
| `ladder_low` | the same window, prices 2 6 40 | violation | does the window invariant hold near price zero? |
| `books` | 3 references, 3 prices, quantities 0 to 2, 2 owners, 3 order and 3 level records | 14,425 (up to symmetry) | is the pooled, intrusive book exact; do the three books agree; are two of them price-time priority books; what does the digest determine? |
| `flat_book_zero` | prices 0 and 5 | violation | can no order rest at price zero? |
| `book_digest_full` | two books of 2 references, 2 prices, quantities 1 2 | violation | are books with one digest the same book? |
| `matching_engine` | 3 references, 2 prices, quantities 1 2, owner 7 and the exempt 0, all modes | 474,608 | does a submission, pass by pass, keep its promises? |
| `stores` | pool: 3 slots, generations modulo 8, quarantine 0, 1 or 2. Index: 8 slots, 4 references hashing to slots 0, 6 or 7 in every way | 80,480 | is a slot ever lost, doubled or wrongly accepted? does deletion keep every probe chain whole, and end? |
| `pool_quarantine` | 2 slots, generations modulo 4, quarantine 1 | violation | does a quarantine make detection certain? |
| `feed_programs` | 2 stocks, 3 references, quantities 1 2. `itch_replay`: 2 prices, 7 messages; asked for one stock, for none by name, for one not listed. `bench_book`: 5 messages, 2 passes. `itch_histogram`: prices 2 3 6 12 for a penny of 2, a table of 4, 4 messages | 407,836 (up to symmetry) | is the book the market's, does a recorded workload rebuild it every time, do all counts, tables and ranges agree? |
| `readers` | every stream of up to 8 bytes 0 1 2, frames of 1 and 2 bytes, a buffer of 4. gzip: every stream of 2 to 4 tokens of 0 to 2 bytes, cut off or corrupt anywhere; reads of 0 to 3 bytes, 2 tokens at once | 257,279 | do refills change any frame, total or verdict? is a compressed stream delivered once, and ended as it may? |
| `frame_reader_oversize` | streams of up to 6 bytes | violation | does `NeedMore` mean the input is truncated? |
| `decoding` | every message type, two fields written at the ends of their ranges, frames cut, grown and retyped; the builder's messages. Statistics: streams of up to 2 messages with 9 endings, read in pieces of any size | 28,369 | is what is read what was written, inside the frame? is a streamed report the mapped one, and does it add up? |

Why the bounds are enough:

* `level_containers`: the prices of the ladder are chosen by the role they play, not by
  range: two aligned prices that share a window, the first tick and the one past the last
  tick of the windows that arise, two sub-penny prices (one between window slots, one
  beyond), and two far ones that force the window to jump with or without
  overlap. Five levels let a rebase displace and pull in at the same time. The
  theorems of section 5 remove the bounds for everything but the count and the walk.
  Five prices make every shape of a tree of height three, every rotation on insert and
  erase, and an erase of a root whose successor is not its child or has a child itself. One
  handle per price is enough to see a handle at the wrong price.
* `books`: three orders on a level are the shortest queue with a middle; three
  prices let a level clear at, behind and beyond the best; as many records as
  references make every freed record the next one reused; quantity 0 is the boundary value
  the code accepts. For the digest, two orders are enough to share a quantity two ways, and
  to swap places.
* `matching_engine`: an incoming order meets up to two resting orders, on one level
  or on two, with every combination of owners, modes and partial fills. `MaxRef`
  bounds the references the engine may assign: an order that could rest is only
  submitted while one is left. Market and immediate-or-cancel orders are not bounded.
* `stores`: with generations modulo 8 a slot wraps after four cycles, so every
  boundary (last rejected, first accepted) is reached with a free list of every
  shape. `Limits` up to 2 of 3 slots reaches exhaustion by quarantine. Hashing to 0, 6 and
  7 in a table of 8 makes clusters that go round the end of the table; four entries is
  where the half-full assertion bites. References differ in nothing but their hash, so
  hashes are taken in ascending order.
* `feed_programs`: the session names the prices 2 and 3 (`FeedPrices`), enough for a spread and
  a move; the histogram's messages all four. Seven messages are two announcements in either
  order and a life of two orders, one of each stock, with a replace between; five for the
  workload, which multiplies by its passes. A second pass is the one that could start from a
  used book. The histogram's prices are half a penny, one and a half, two, and more than the
  table apart, on both sides of one another; four messages are enough for a replace on a side
  with another order, opposite one. `MaxMessages`, `RecordedMessages`, `Passes` and `MaxSamples`
  are the bounds; the theorems of section 5 remove them.
* `readers`: with bytes 0 to 2 a length prefix goes up to 8, twice the buffer, so every error of
  the cursor occurs, and a buffer of the least size the code allows makes frames straddle it at
  every byte. Eight bytes hold two whole frames and the start of a third. The theorems of
  section 5 remove the bounds for everything but liveness. Four gzip tokens are two chunks, so
  the stream can be cut off or break at and between their ends; a token of two bytes fills a
  buffer from within, one of none makes a pass that produces nothing, and reads of 3 end inside
  and at tokens.
* `decoding`: nothing in a view depends on a neighbouring field, so two fields written, all
  others zero, show any overlap; numbers whose bytes all differ show any byte order. The
  endings are clean, in a prefix, in a body, and each error of the cursor; two messages
  make a directory entry overwritten and two timestamps.

All runs check for deadlock except those of systems that really stop: `ladder_low`, where
the process ends when an assertion fails; `readers` and `frame_reader_oversize`, where a
reader is abandoned when a read has thrown; `decoding`, which ends with a report or a message
read; and `feed_programs`, whose sessions are bounded.

### The properties that carry the weight

Most runs check one property that joins the parts of an invariant; the parts have
definitions and comments of their own.

* `LadderSound` (`NeverAborts`, `LookupFindsLevel`, `WindowIffInRange`, `BestIsInside`),
  `WalkIsInsideOut`: where a level is stored, what the count says, what the inside is, in
  which order levels are walked, after any rebases; no assertion of the ladder can
  fail under its real caller.
* `TreeSound`: the tree is ordered, balanced, with right heights and sizes, no node is lost,
  and every walk starts at the inside and misses nothing.
* `RecordsExact` (`HandlesExact`, `QueueLinks`): every name for a record leads to a live
  record that names it back, and no record is orphaned. `CachesExact` (`CountsExact`,
  `BestCached`): cached values equal a recount.
* `Validates`: the reference book's own `validate()`, after every operation; `AnswersAgree`:
  every answer of the flat book is the reference book's, level by level and order by order,
  and every one of those is the naive book's.
* `DigestDeterminesQueues`: what `book_digest` feeds can be read back into the queues, the
  depth and the counters.
* `ImplementsLimitOrderBook`, `MapImplementsLimitOrderBook` (`FlatBook`, `MapBook`),
  `ImplementsHandleMap`, `TreeImplementsHandleMap`, `IndexImplementsHandleMap` (the ladder,
  the tree, the index), `ImplementsSlotAllocator`, `ImplementsFrameStream`: each structure
  implements what its client relies on.
* `QueuedExactlyOnce`, `NoQueueJumping`: no order is lost or passed by another in a queue.
* `EngineSound` (`SharesConserved`, `NeverCrossedAtRest`), `PriceTimePriority` (and no fill
  past the limit), `NoSelfTrade`, `ReturnsAccounted`, `SubmitReturns`: the engine.
* `IssuedOnce`, `PoolSound` (`FreeListWellFormed`, `StaleCaughtUntilWrap`): the pool.
* `TableSound` (`ProbeChains`, the loop invariant of the deletion, and `EntriesExact`),
  `EraseReturns`: the index.
* `BookIsTheMarkets`: however the messages of several stocks interleave and whenever the
  symbol is resolved, the book holds exactly the exchange's orders of its stock.
  `CountsAgree`: no assertion fails on such a feed, the observer's expectation is the
  book's total, and both count each message once.
* `RebuildsTheMarket`: a recorded workload, any number of times, gives the book of the
  session it was recorded from.
* `TableMatchesTotals`, `RangesCoverTheBook`: the histogram.
* `DecodedAsSent`, `ReadInsideTheFrame`: the views.
* `ReaderSound` (`BufferIsStream`, `FrameIsItsTypesLength`), `OutcomeExplained`
  (`FramesAccounted`, `StopsExplained`), `CallsReturn`: no byte is lost or repeated by a
  refill, the totals are those of a cursor over the whole stream, and a call stops, for the
  reason it gives.
* `GzipSound` (`BytesAccounted`, `EndIsEnd`), `ReadReturns`: only a short stream is forgiven,
  and only where that is allowed; 0 means the end.
* `ReportsAgree` (`PathsAgree`, `TotalsBalance`), `RunEnds`: the statistics. The one number
  that does differ between the paths is the trailing bytes after a *malformed* frame:
  a mapped run reports the rest of the file, a streamed run the rest of its buffer.

### Fairness

Weak fairness is assumed of the steps of a call that has begun: `WF_vars(Step)` in
`MatchingEngine`, of `EraseStep` of the index in `MCStores`, and of `Pass` of the reader and
of the gzip source in `MCReaders`, which takes for granted that a read of the source below
returns. The calls are straight-line code in a single thread, which does not stop half way.
Nothing is assumed about the caller: it need not ever submit, cancel, erase or read.
`FeedStats` is a whole program, whose loop asks until it has something to report: `MCDecoding`
assumes `WF_statVars(AskNext \/ ReaderRuns)` of it. That the source throws is never assumed.

## 4. What the code does otherwise than it says

* **`ladder_low`.** `rebase` (`book/price_ladder.hpp:338`) casts the first price of
  the window to the unsigned `Price`. When the inside is within half a window of
  zero (below $20.48) the base is negative, the bound wraps to a huge price, and
  `lower_bound` finds nothing to pull in. A level that belongs in the window stays
  in the overflow map, against the invariant the file states at line 25 and asserts
  at line 200; `find` then denies that it exists. TLC finds it with two levels. The same
  two calls on the real book, a sell at 1999999900 and then one at 100000, make
  `validate()` abort.
* **`flat_book_zero`.** `book/flat_book.hpp:375` relies on no order resting at price
  zero, and nothing rejects one. The cached best is then overwritten by a worse
  price. With `AvlLevelMap` the real book shows exactly that; with `PriceLadder` it
  aborts in `best()` as soon as the order is added.
* **`pool_quarantine`.** The comment at `book/pool.hpp:38` and section 16 of
  `DESIGN.md` say that with a quarantine a stale handle is certain to be caught. A
  quarantine delays the reuse of a slot; after as many cycles as there are odd
  generations the handle is accepted again. `book/handle.hpp:20` puts it correctly.
* **`frame_reader_oversize`.** The comment at `wire/source.hpp:228` says that
  `FrameReader::next` returns `NeedMore` only when the source is exhausted. A length prefix
  larger than the buffer fills it; `refill` then asks the source for nothing
  (`wire/source.hpp:274`) and takes the nothing it gets for the end. The caller sees a
  truncated body where a cursor over the same bytes says malformed. No frame of a known
  type is that long, and with the default buffer of 1 MiB no prefix is either: it takes a
  capacity below 65,537, such as the minimum the constructor accepts.
* **`book_digest_full`.** `book/book_types.hpp:59` says that `book_digest` feeds a book's
  full state, and that implementations that agree on it agree on the book. It feeds no
  order's own quantity or owner, so two orders on a level may share its quantity either way.
  Queue order and depth are covered, as `books` shows.

Three more, read in the code and in no run, because they concern one figure or line of text
of a report each:

* `quantile` (`src/apps/itch_histogram.cpp:118`) rounds its target down, so the distance it
  returns may cover less than the fraction its comment promises; with one measured add the
  median is 0 whatever the distance was.
* `itch_histogram` ends with "no book activity" (line 253) when no add was *measured*: adds to
  an empty side, one on each, are activity it does not see.
* A comment in `on_order_replace` (`replay/book_builder.hpp:167`) says an observer sees both
  halves of a replace as it would see them standalone. `before_add` is called before the book
  is: the order that leaves is still in it. The histogram, and its model, measure a replaced
  best order from itself. `ReplayObserver` reads no book there and is not affected.

## 5. What is proved

`LadderClientProof` proves, for every window size, margin, tick size, price
width, set of prices and set of handles:

* `IInvInvariant`: `Spec => []IInv` under `PricesFit`;
* `LadderCorrect`: under `PricesFit`, `LadderSound`: the type invariant, `NeverAborts`,
  `LookupFindsLevel`, `WindowIffInRange` and `BestIsInside` hold always;
* `LadderImplementsMap`: under `PricesFit`, the ladder, read through `find`,
  implements `HandleMap`;
* `LadderWalksInsideOut`: under `PricesFit`, `WalkIsInsideOut` holds always: what
  `for_each_level` reports is every live level once, outwards, as many as `size()` says.

Assumptions: `LadderAssumption` (the window is a positive even number of ticks, a
tick is at least one unit, prices fit `Price`, the null handle is not a handle) and
`PricesFit`: every price is at least half a window above zero and half a window
below the largest price. The second is exactly what keeps the cast in `rebase` from
wrapping; `ladder_low` is what happens without it, so the theorem cannot do without
it either.

The argument. None of the properties is inductive: that `find` returns a level says nothing of
where a *rebase* will look for it. `IInv` says of every stored level that it is on the side of
the window where its price belongs, of every set bit that its slot holds a level with that
price, and of the levels stored that they are the live records, one for one; and that the base
is not negative, so that slots and prices correspond. The first part of the module shows what
each operator does to it: arithmetic of ticks and slots first (`TickFacts`, `SlotFacts`,
`WindowRange`), then `PlacedFacts`, `ErasedFacts`, `LiftedFacts` (lifting the window loses
nothing), `RecentredFacts` (a rebase changes nothing `find` can see) and `BestFacts` (the best
of two disjoint parts is the best of the whole). The second has one step per action. The third
is about the walk: `OutwardsFacts` says that a finite set has one reading from the inside
outwards, counting what comes before each element; `Split` is the invariant of the merge, that
what either iterator has passed comes before what the other has not; `MergeFacts` has every
level reported and in order. `BookTypesProof` has what the least and the greatest element of a
set of naturals satisfy, and what a sum over a finite set does when a term changes or joins it.

`StoresProof` proves of the pool, for every capacity, even number of generations and set of
quarantine limits (`PoolAssumption`):

* `PoolIInvInvariant`: `Spec => []IInv`;
* `PoolCorrect`: `IssuedOnce` holds always: the type invariant and `NoDoubleIssue`;
* `PoolIsSound`: `PoolSound` holds always: the free list reaches every free slot once and
  ends, and a stale handle is accepted exactly when its slot is live again after a whole
  round of generations;
* `PoolImplementsAllocator`: the pool, seen through the handles in circulation,
  implements `SlotAllocator`.

The argument. What the links reach from the head is a recursive notion. The invariant
(`ListOK`) says instead that there *is* a sequence of all the slots that are neither live
nor held back, each once, which the links spell out from the head on; `ChainRead` then
shows that following the links gives this very sequence. `PushFree` puts a slot before
it, an allocation takes its first. With it go the quarantine, whose slots are free,
distinct and within the limit (`QuarantineOK`), the count of the live (`CountOK`), and
the arithmetic of generations (`StaleOK`): a slot's generation is ahead of the stale
handle's by two for each reuse and one more while it is free, wrapped at most once.
`BumpFacts` shows that parity survives the wrap, `Entered` and `Released` what passes
through the quarantine.

It proves of the index, for every table of two slots or more, every hash and all sets of
references and handles (`OrderIndexAssumption`; the constructor makes at least 16 slots):

* `IndexIsSound`: `TableSound` holds always, between two passes of the deletion loop too: every
  slot from where an entry is looked for to where it lies is occupied, but for the hole about
  to be closed; no reference is stored twice; the live count is exact;
* `IndexImplementsMap`: the table, read through `find`, implements `HandleMap`: a deletion takes
  one reference away at once, and no entry it then moves is ever lost to `find`. With
  `LadderImplementsMap` it justifies that `FlatBook` takes its index and containers as functions.

The argument. `ProbeChains`, restated by slots (`Whole`), is nearly inductive as it stands: the
hole excuses only the entries the scan has yet to reach. What it lacks is that a slot always
remains free (`live < Size`, which the assertion of `insert` keeps and without which no probe
for an absent reference would end) and that the hole of an erase in progress is empty. `StaysIs`
is the heart: the cyclic interval test of `erase_at` says exactly that the entry's probe starts
behind the hole, so that an entry which passes the test needs no slot up to the hole
(`PassWhole`), and one which fails it still has its way when moved into the hole (`ShiftWhole`).
The lemmas before are arithmetic of going round the table (`RoundTrip`, `NextSlot`,
`PastTheHole`); `FindFacts` then has the probe stop where the entry is.

`LimitOrderBookProof` proves of the abstract book, for every set of references, prices,
quantities and owners (`LimitOrderBookAssumption`), `BookKeepsPriority`: `QueuedExactlyOnce`
holds always and no step violates `NoQueueJumping`. The invariant adds that no order of no
shares rests. Replacing is removing and adding, so the lemmas are about a book as a value:
what appending, cutting down and closing up a queue make of it.

`FlatBookProof` proves, for every set of references, prices, quantities, owners and
records (`FlatBookAssumption`: prices and order records are finitely many, as 32-bit values
are, and the null handle is no record; `FreeAssumption`, `NoOrderAssumption`: what marks a
free record and an absent order is neither):

* `FlatBookIsWhole`: `RecordsExact` and `CountsExact` hold always: every name for a record
  is answered, the links of every level make one queue of just the orders on it, and the
  quantities and counts of levels, sides and book are those of a recount;
* `FlatBookCaches`: if no order may be priced at `kNoPrice`, `CachesExact` holds always, the
  cached best prices included. `flat_book_zero` is what happens without the hypothesis;
* `FlatBookImplements`: the book implements `LimitOrderBook`.

The argument. `QueueLinks` says of neighbours that they agree, which permits two queues on
a level or a ring beside one. `FlatInv` says that there is a family `ch` of sequences, one
for each level, such that the links of the level spell out its sequence, which holds the
orders on the level and no others (`QueueOK`); that the index and the level containers
lead to the records that name them back, and to each from one place only (`IndexOK`,
`LaddersOK`); that the counts are sums over the live records (`CountsOK`); that no record
is empty; and that the best prices are those of the stored levels (`BestOK`). The family is
the ghost of the book's history: `add` appends to a member, `reduce` cuts one out of the
middle of it. Each part of an operation has its lemmas (`WithLevel`, `Enqueued`,
`Lessened`, `Unlinked`, `LevelCleared`), for `replace` composes them. For the refinement,
following the links of a level from its head gives its member of the family, so the
abstract queues are the family read as references.

`MapBookProof` proves of the reference book, for every set of references, prices, quantities and
owners and under the assumptions of the flat book:

* `MapBookValidates`: `Validates` holds always, so `validate()` never fails, whichever calls the
  differential test draws;
* `MapBookImplements`: the book implements `LimitOrderBook`.

The argument. `Validates` is not inductive: it asks that the orders a level queues are known, at
its price and add up to its quantity, and that the totals agree, but not that an order is in the
queue it names. `MapSound` says of every price of a side, those without a level included, that
its queue is of the orders there, each once (`MapQueueOK`), so that a level appears with its first
order and goes with its last; the counters are sums over all prices (`MapStatsOK`), which do not
care which prices have a level. Halfway through `reduce` an order has no shares left, so the
positive quantities are kept apart: `MapWhole` is what the first half preserves and the second
needs. Each mutation has three lemmas: which parts it changes (`MapDetachedParts`), what the book
then shows at each key (`MapDetachedPoints`), and that it is whole (`MapDetachedWhole`).
`MapReducedSteps` and `MapInsertedSteps` are the steps of the abstract book, and `MapBookChecks`
turns the sums over prices into those over levels, and the walk into `OutwardsFacts`.

`BookProgramsProof` proves of the matching engine, for every set of prices, quantities and
owners and any number of references (`MatchingEngineAssumption`, `NoOrderAssumption`):

* `EngineIsSound`: `EngineSound` holds always: between any two passes of `submit` no share is
  created or lost, and the book is not crossed at rest;
* `EngineKeepsPriority`: `PriceTimePriority`, and no fill beyond the limit;
* `EnginePreventsSelfTrade`: `NoSelfTrade`;
* `EngineAccounts`: `ReturnsAccounted`, a property of the steps that return.

The argument. The invariant of the book goes with five more parts. That fills come in
priority needs more than the fills: every fill was due before every order that *still*
rests on that side (`FillsCameFirst`). Time is the order of references, so queues ascend
and no reference to come rests yet (`InOrderOfArrival`). No bid reaches an ask in the
middle of a match either (`Uncrossed`); the order that may rest has a reference left
(`RoomToRest`), and there are no fills between calls. Each way out of the loop has a lemma,
and those that return share one (`ReturnKeeps`).

`FrameReaderProof` proves, for every alphabet, table of lengths, set of streams and
buffer that holds a frame of every type (`CursorAssumption`, `ReaderAssumption`):

* `ReaderIInvInvariant`: `Spec => []IInv`;
* `ReaderCorrect`: `ReaderSound` holds always: the type invariant, `BufferIsStream` and
  `FrameIsItsTypesLength`;
* `ReaderAccounts`: `OutcomeExplained` holds always: the totals are those of a cursor over
  the whole stream (`FramesAccounted`), and a call stops only where the stream ends, ends
  inside a frame, or holds one longer than the buffer (`StopsExplained`);
* `ReaderImplementsStream`: the reader implements `FrameStream` with its capacity as the
  window, so no frame and no verdict depends on how the reads were cut;
* `StatsAgree`, of `FeedStats` and under `StatsOfItch`: `ReportsAgree` holds always, so that
  `itch_stats` says of a stream what it says of the same bytes in a mapped file, and its totals
  balance.

The argument. The buffer is the piece of the stream between what is consumed and what has
been read; for that to survive a refill the cursor must lie in the buffer, which an
exception breaks, so `IInv` says what remains true after one. That a verdict is the one
a cursor with a full window gives rests on `ScanIsLocal`, that a cursor which has found a
frame or a fault finds the same with more bytes in sight, and on `AheadFacts`: when it
has found neither, the buffer is the whole window before the call returns. `PieceOfPiece`
and its neighbours are the arithmetic of pieces of a sequence. Where the n-th frame ends is
defined by recursion; the invariant (`Counted`) says that a function which satisfies the
recursion exists and takes the reader's own offset as its last value, and `EndsAgree` that
no two such functions differ.

For the statistics, the invariant (`SInv`) is that the streamed run has come to what as many looks
at the mapped file come to (`Keeping`), frame by frame by `LookIsAhead`. Where the stream ends for
the reader it ends for the mapped run: `NeverFull` shows that a buffer longer than any prefix is
never full of one frame, which is where `StatsOfItch` is needed; `MappedStays` that a cursor which
has stopped stays, so that the number of looks does not matter. The totals are sums over types or
locates, and `ObserveBalances` adds one message to each; the facts about sums are those the flat
book needs (`BookTypesProof`).

It proves of the gzip source, for every set of streams, sizes of reads and of the chunk
(`GzipAssumption`: what a token stands for is not taken back by a later one, and the trailer
stands for nothing), `GzipIsSound`: `GzipSound` holds always. `GzipInv` adds what the properties
take for granted about the moments between passes: a token is taken only with every byte before
it written, so that an end forgiven loses part of the last token at most; no token taken is
corrupt; the last token taken ends the stream, so a call in progress never stands behind it; and
a call in progress was asked for something, so that it returns 0 only where it found the end.
`GzipInflates` is what one call of `inflate` leaves, whatever it returns.

`BookProgramsProof` proves of the three programs that read a session, for every set of stocks,
references, prices and quantities and sessions of any length (`FeedProgramsAssumption`: no two
locates are announced for one symbol, the empty symbol is nobody's, prices are positive, the
feed's prices and the owner 0 are the book's, and a penny is positive):

* `ReplayRebuildsTheMarket`: `BookIsTheMarkets` holds always;
* `ReplayCountsAgree`: `CountsAgree` holds always, so no assertion of the builder, the book or
  the observer can fail on a feed that keeps the exchange's promises;
* `BenchRebuildsTheMarket`: `RebuildsTheMarket` holds always;
* `HistogramTableMatches`, `HistogramRangesCover`: `TableMatchesTotals` and `RangesCoverTheBook`
  hold always;
* `ProgramsQueueOnce`, `ProgramsKeepPriority`: `QueuedExactlyOnce` and `NoQueueJumping`,
  whichever program runs.

The argument. Each program has an invariant of its own, and `ProgramInv` says that the one that
runs keeps its. What they share is the book, of which `LimitOrderBookProof` is cited, and the
market (`FeedInv`: announced stocks, references issued once, no stock crossed).

* *Replay.* `ReplayInv` has `entry = BookOf(market, symbol)`, an equation of whole functions, and
  one lemma per message shows both sides moving together. Resolution is the subtle part: until
  it, the book must be empty although other stocks trade, and it is because nothing is traded
  before it is announced and the first announcement of the symbol resolves it (`Settled`). Not
  crossed follows from the market; that no reduction exceeds an order, from the feed. The
  observer's expectation is a sum over resting orders (`QtyOf`), whose change under each
  operation `QtyJoins`, `QtyLeaves`, `QtyReduced` and `QtyReplaced` compute; its peaks bound levels
  because every level holds an order (`LevelsAreOrders`).
* *Workload.* That a pass over the operations ends in the market's book is no invariant of the
  pass. The invariant says that a trace exists, a book (with its queues) for each prefix of
  what was recorded, each reached from the one before by the operation between them
  (`Recording`), and that the pass stands at its place in it (`Passed`). Recording extends the
  trace, applying moves along it, and starting again goes back to its empty book. That all
  digests agree follows: every pass ends in the last book of the one trace, queues included.
* *Histogram.* `Collected` is what the collector knows of itself: measured orders are those
  within the table and those beyond, nothing is counted beyond the largest distance, the range
  of bids lies in that of prices. `Within` says of every resting order that the ranges cover it.
  The best bid is noted only after a message, so the invariant that it is in range is restored
  by `after_apply` alone; `Ready` is what holds between the book's change and that. Sums over
  the table are those `BookTypesProof` has lemmas of (`SumJoined`).

Two definitions have the form they have for the prover's sake: `MarketFeed` has one action per
kind of message and `Send` for what all of them do, so that `Replay` can pair each with its
handler; and `Histogram` increments the table by an operator (`OneMore`), where a nested
`EXCEPT` is not translated as meant.

The same device is behind the recursive notions that are proved about, the free list, the queue
of a level, the boundaries of frames, the mapped run, the merge of a walk and the passes of a
workload: a witness is carried or built up (`CountsExist`), and the least place at which the
recursive function could differ from it, or at which what is claimed of it could fail, does not
exist. So no induction over data is needed.

Only model-checked: liveness (`SubmitReturns`, `EraseReturns`, `CallsReturn`, `ReadReturns`,
`RunEnds`), which is out of the prover's reach; the tree (`AvlLevelMap`), whose operations
recurse over data and are `RECURSIVE` operators, which cost a module its SMT backend; the
naive book's answers (`AnswersAgree`) and the digest read back (`DigestDeterminesQueues`), which
are recursions over data too; the views.

## 6. What is not modelled

* Opening, mapping, closing and moving a source; the retry of an interrupted `read`. What
  a read may return is in `FrameReader`. The narrowing of `n` to zlib's 32-bit `uInt`,
  which takes a buffer of 4 GiB.
* Diagnostic counters (probes, shifts, hits, rebases, high water of levels,
  `EngineStats`): nothing reads them back.
* The hash itself: digests are taken to tell any two fed sequences apart.
* The journal digest of `ReplayObserver`: it feeds what the invariants already compare.
* Applications and benchmarks beyond what is said above: argument parsing, timing, statistics of
  timings, printing. `itch_replay` is `FrameReader`, dispatch and `BookBuilder` in a row, each
  modelled, the last two with the feed as `Replay`; the loops of `itch_histogram` and of the
  benchmarks end at the first frame that is not whole without saying why, so there is nothing
  there to state.
* A gzip file of several members: what should follow the first is nowhere stated.
* A state after a failed assertion. It ends the process in every shipped build; only
  the test harness installs a handler that throws, and it abandons the object.

## 7. Plan

In order; the book and its structures come first because everything else relies on them.

1. *Done:* `PriceLadder` with its client, walk and proofs; `Pool` with its proofs; `OrderIndex`;
   `LimitOrderBook`; `FlatBook`; `MatchingEngine`; `FrameReader` over `FrameCursor` with its
   proofs; `GzipSource`.
2. *Done:* `AvlLevelMap`; `MapBook`, `NaiveBook` and the digest; `BookBuilder` with
   `ReplayObserver` over a feed; the workload; the wire; the histogram and the statistics.
3. *Done:* proofs of the ladder, the pool, the index, the abstract book, the flat book, the
   engine, the reference book, the frame reader, the gzip source, the statistics and the programs
   that read a feed.
4. `FlatBook` composed with `PriceLadder`, so that the book's best and lookups are the
   ladder's.
