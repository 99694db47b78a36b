# dashscan in TLA+

dashscan indexes the Dash chain into PostgreSQL (a Rust indexer), serves it over HTTP (a TypeScript
API) and shows it in a web frontend. This directory holds its specifications, the TLC runs that check
them on small instances, and the proofs of what holds for every instance.

## 1. Inventory

All paths are below `src/`.

| Component | State | Operations | Talks to |
|---|---|---|---|
| Catch-up synchroniser (`indexer/src/processor/catch_up.rs`, `p2p.rs`) | channels, batch, `last_height` | `catch_up`, `stream_blocks` | node over P2P and RPC, block writer |
| Block writer (`processor/block_writer.rs`, `db/*.rs`) | ledger tables in PostgreSQL | `write_batch`, `process_block`, `index_pending_transaction` | PostgreSQL, RPC fallback |
| UTXO cache (`processor/utxo_cache.rs`) | three hash maps, a cap | `insert`, `lookup`, `mark_spent` | block writer, across the batches of one catch-up |
| Live synchroniser (`main.rs`, `processor/mod.rs`) | five event channels, a refresh counter | `continuous_indexing`, `polling_loop`, `index_new_blocks` | everything above, ZMQ listeners |
| ZMQ listeners (`zmq.rs`) | `pending_txid`, `tx_cursor` | three subscribers with reconnects | node, live synchroniser |
| Peer crawler, peer store (`crawler.rs`, `peers.rs`) | `running`, block counter, Redis set | `tick`, `trigger`, `crawl_round`, `replace` | peers over P2P, Redis |
| Governance (`processor/governance.rs`, `dao.rs`, `api/src/dao/GovernanceDAO.ts`) | cycle, proposals and votes in Redis | `sync_governance`, `flush`, `getProposalVoteSeries` | RPC, Redis |
| Masternodes (`processor/mod.rs`, `db/masternodes.rs`) | one table | `sync_masternodes` | RPC, PostgreSQL |
| Market service (`api/src/services/MarketService.ts`) | Redis entries, `inFlight` | `load` | CoinGecko, Kraken, Redis |
| Xpub service (`api/src/services/XpubService.ts`) | Redis entries, `inFlight` | `resolve`, `scanBranch` | Redis, PostgreSQL |
| API queries (`api/src/dao`) | none; several statements and pages make one answer | paged lists, `getTransactionStats`, `getAddressesActivity` | PostgreSQL, written meanwhile |
| Frontend lists (`frontend/src/lib/api`) | the pages read so far | `getNextPageParam` | API |
| API server, rest of the frontend | none of the system's | routing, formatting, views | API |

What is hard, component by component, and what makes it correct:

- **Catch-up.** A large range is split between two streams that fill bounded channels from blocking
  threads; a merge thread drains A and then B; an async consumer batches and commits. Streams fail, the
  process stops anywhere, and a restart knows only `MAX(height)`. Correct: ascending order, no block
  lost on the way, no deadlock, no gap below `MAX(height)`, the tip is reached.
- **Ledger.** The same transaction is written by the mempool handler and again by its block. Spends,
  the UTXO set, spenders, heights, locks and additive totals are redundant and maintained by separate
  statements. Announcements are lost, come before their parents, and conflict. Correct: the redundant
  tables agree with each other and with the chain.
- **UTXO cache.** It is consulted per output, capped per transaction, and dropped per reference count.
  Correct: resolution finds what the database would, and nothing stale or unbounded stays.
- **Live loop.** `select!` takes events in random order; notifications are lost, repeated and late; a
  failing height is skipped. Correct: no gaps, no lock lost for good, progress.
- **ZMQ locks.** Two messages are paired by arrival. Correct: a lock goes to its transaction.
- **Crawler.** A `running` flag, a round with a deadline, a delete followed by inserts. Correct: one
  round at a time, readers see old or new data.
- **Governance.** A sync is a dozen Redis commands and RPC calls, any of which may fail; a change of
  cycle drops what an earlier, perhaps unfinished, sync left. The API puts the votes into buckets of
  time. Correct: nothing of the last cycle survives the marker, a vote is counted once.
- **Market.** Requests of several API processes share Redis entries and failure markers that expire,
  and those of one process share a refresh; every await is a place where others run. Correct: one
  refresh per key and process, one attempt per marker, answers no older than promised, nobody waits for
  ever.
- **Xpub.** A gap-limited scan in batches from a cached entry that other scans overwrite, over a table
  that grows. Correct: the scan is the wallet as the gap limit defines it.
- **API reads.** A page, a slice of a window or a total is read at one time and the next at another,
  while blocks arrive and pending rows get heights. Correct: nothing twice, nothing lost, and where the
  code cannot have both, it is said which.

`PROJECT.json` lists the hazards with their lines and the properties that cover them.

## 2. Modules

| Module | Models | Checked as |
|---|---|---|
| `DashNode` | the node: chain and mempool; external to the repository, it fixes what the indexer may rely on | part of `Ledger` |
| `Ledger` | ledger tables and all handlers that change them | `MCLedger`: runs `ledger`, `ledger_orphan` |
| `DataFacts` | sums over finite sets, least elements, finite orders, division: lemmas for the proofs below | tlapm |
| `LedgerProofs` | theorems about `Ledger` | tlapm |
| `UtxoCache` | the cache and Phase 6 of `write_batch` | `MCUtxoCache`: run `utxocache` |
| `UtxoCacheProofs` | theorems about `UtxoCache` | tlapm |
| `IndexPrefix` | abstract: table `blocks` is a growing contiguous range | property `PrefixSpec` of `CatchUp` |
| `CatchUp` | the catch-up threads and channels | runs `catchup`, `catchup_single`, `catchup_gap` |
| `CatchUpProofs` | theorems about `CatchUp`, with the refinement of `IndexPrefix` | tlapm |
| `LiveSync` | the live loop, the poller and notifications over table `blocks` | runs `livesync`, `livesync_gap`, `livesync_start` |
| `LiveSyncProofs` | theorems about `LiveSync` | tlapm |
| `MarketPromise` | abstract: what the market endpoints promise, without a cache | property `KeepsPromise` of `MarketCache` |
| `MarketCache` | `MarketService.load` over the Redis all processes share | `MCMarketCache`: run `market` |
| `MarketProofs` | theorems about `MarketCache` | tlapm |
| `XpubScan` | `XpubService.resolve` and the scan of one branch | part of `ApiReads` |
| `ListPaging` | four transaction lists, read page by page | part of `ApiReads` |
| `TimeSlices` | windows of time counted from several sources | part of `ApiReads` |
| `Governance` | `sync_governance`, the votes in Redis, the vote chart | part of `ApiReads`; `MCGovernance`: run `governance_tally` |
| `GovernanceProofs` | theorems about `Governance` | tlapm |
| `ApiReads` | the API reads of several steps, one per behaviour | `MCApiReads`: run `reads` |
| `ReadsProofs` | theorems about `XpubScan`, `ListPaging`, `TimeSlices` and `ApiReads` | tlapm |

### Ledger

State: `height` (absent, NULL or a number) and `chainLocked` are columns of `transactions`; `link[t]` is
the set of inputs of `t` whose `tx_inputs.prev_tx_id` is set; `utxo` is the table; `spentBy` is
`tx_outputs.spent_by_tx_id`; `totals` are `addresses.received/sent/tx_count`; `hourly` is
`chain_stats_hourly` summed over hours. `tip` is `MAX(blocks.height)`.

Each handler runs in one database transaction and the live loop runs one handler at a time, so a
handler is one action: `IndexPendingTransaction`, `SkipKnownTransaction`, `CatchUpBatch`, `ProcessBlock`
(both through `WriteBatch`), `FinishCatchUp` (the lock backfill), `ApplyChainLock`. `Start` and `Stop`
are the process. `NodeAccepts`, `NodeMines`, `NodeEvicts` are the node, and `wire` the announcements on
their way, which `LoseAnnouncement` drops.

`write_batch` is the composition of its phases in the code's order, each an operator: `HeightAfter`
(3), `UtxoAfter` (5b, the mempool query, 7b), `Linked` (6), `LinkAfter` (7), `SpentByAfter` (7b),
`TotalsAfter` (7c), `HourlyAfter` (7d). Blocks are written here in height order; which order the
synchronisers really produce is the subject of `CatchUp`. An RPC answer (`answered`) is any subset of
the inputs asked for, because a failed call is only logged.

Abstracted: an output is a model value with an owner and an amount; coinbases are transactions
without spends; per-day tables hold the same sums as `totals`, grouped.

### CatchUp

A block is its height. `stream`, `next`, `end`, `got` are the two P2P threads; `chan` the three bounded
channels; `mergeFrom` the merge thread; `pending`, `last`, `run` the consumer. Every `send` and `recv` is
an action that waits on its channel. A stream can fail whenever it waits for the peer; the sender is
then dropped exactly as when it ends, which is what `HandOver` and `Disconnected` look at. `Join` turns
a stream's error into the exit of the process; `Crash` is any other stop, with the open transaction
rolled back.

### UtxoCache

`hashToId`, `byId` and `refcount` are the keys (and counts) of the three maps. A batch goes through
`CacheOutputs` (one transaction each, in any order: the batch is a set), `Resolve` (Phases 6a to 6c at
once: it reads the cache and does not change it), `DropSpent` (one output each, in the order of a hash
map) and `Commit`; `Fail` is a rolled-back batch, which ends `catch_up` and the cache.

`Ledger!Linked` uses the outcome `ResolutionExact` states: a creator is found if and only if it is in
the database or in the batch.

### LiveSync

A block is a height and the branch it was mined on; both together stand for its hash. `indexed` is table
`blocks`. `main` and `cursor` are the live loop, which handles one event at a time: `HandleNotice` is the
`zmq_rx` branch, `BeginIndexNew`, `IndexHeight`, `EndIndexNew` the poll branch. The polling task is a
process of its own (`poller`): it reads the node's height and the table's in two steps, sends into a
channel of one, and dies alone when a read panics. `Store` is `index_block_by_hash`: a known hash is
skipped, a known height with another hash violates the primary key and is logged. `CatchUp` commits a
prefix of what is missing, which is what `catchup_single` shows of it; it takes effect at once, since
the node's steps before and after it are the same as during it. `failed`, `jumped` and `replaced` record
why a height is missing or stale, and no action reads them.

### MarketCache and MarketPromise

`stage[r]` says at which `await` of `load` a request's code waits: `reading` (`cache.get`), `dropping`
(`delete` of an entry that does not parse), `probing` (the failure marker), `awaiting` (another's
refresh), `fetching` (the upstream), `saving` (`set`), `marking` (`set` of the marker), `settling` (the
`finally`). There is one action per continuation, named after the command it follows, and one per
other event: `Ask`, `FetchSucceeds`, `FetchFails`, `Settle`, `Wake`, `Tick`. `pipe[i]` is the one Redis
connection of instance `i`: a queue of commands with their replies. Redis executes the oldest that is
not executed (`Execute`) or fails it (`FailCommand`), and the continuation of the oldest answered one
runs; commands of two instances interleave freely, those of one keep their order. `inFlight` is the
map of that name. `Draining` is the event loop's rule that resolved promises run before anything that
arrives from outside. A request asks for the primary key and, when that lookup throws, for the
fallback (`getCurrentData`).

`MarketPromise` has a clock, what the upstreams gave, when they failed last, and the answers. The
refinement maps its variables to `clock`, `fetched`, `failed`, `asked` and `answer`.

Abstracted: a value is its source and the time it was fetched. `getHistoricalChart` is the same
protocol under other keys.

### XpubScan

An address is its index on the branch; `used` is table `addresses`, `branch` the shared Redis entry,
`running` the map `inFlight` of each server. `ReadBranch`, `LookUp` and `StoreBranch` are the three
awaits of `scanBranch`; what runs between them are operators on the record `scan[c]`: `Extended`
(deriving further), `Confirmed` (`confirmUpTo`), `Walked` (the loop over the addresses), `Ended` (its
conditions). `AddressSeen` is the indexer and `BranchExpires` the life time of the entry. `usedAt[c]`
records the table when the scan that `c` awaits began, and no action reads it except to pass it on.

### ListPaging

A row is its id, in the order of insertion; it is pending until `AddBlock` gives it a height. The cursor
list is SQL in the order of height and id (`BelowCursor`, `Merged`); the offset lists are any pages their
`ORDER BY` allows (`PossiblePages`): where it leaves rows tied, each page may order them differently.
`HasNextPage` is the client's decision, from the total that came with the last page, an estimate
for the list of all transactions.

### TimeSlices

Instants are those of the code's `- 1` ms, so a slice is closed on both ends. `StatsSlices` and
`ActivitySlices` cut a window into live slices, `UsesHours`, `InDays` and `InWeeks` say what comes from
rollups. A live slice is resolved into its lowest and highest height (`ResolveSlice`) and counted by
height afterwards (`CountSlice`, `RankAddresses`), with blocks arriving in between. A block's timestamp may
lie before an earlier block's by `Skew`.

### Governance

`task` is `sync_governance` at one of its commands: `get_cycle`, `flush` (keys, one delete per proposal,
registry), `set_cycle`, `gobject list`, `upsert_proposals`, and per proposal `getcurrentvotes` and
`insert_votes`. `AbortSync` is a failed call or a stop of the indexer at any of them; `IndexBlock` may
fail to read the tip, which then counts as 0. The node (`CastVote`, `Expire`, `CurrentVotes`) is
external. The chart is a function of the cached votes: `StepOf`, `Buckets`, `IndexOf`, `Point`.

### ApiReads

The four readers share no state, so a behaviour is about one of them (`topic`) and the others stay in
their initial state: the state space is the sum and not the product of theirs.

## 3. Runs

| Run | Question | Instance |
|---|---|---|
| `ledger` | Do the tables agree, always? | 4 transactions (funding, two rival spends, a child), 2 addresses and an output without one, 3 blocks, batches of 1 and 2, `start_height` 0 and 1; 697,197 states |
| `ledger_orphan` | Are coins a pending transaction spends withheld when their parent confirms? | the same; violated (finding) |
| `catchup` | Order, completeness, gaps, deadlock and progress of a split range | threshold 3, channels of 2 and 4, chunks of 2, batches of 2, tip up to 8, 2 failures; 28,873 states |
| `catchup_single` | Does the unsplit path implement `IndexPrefix`? | threshold above the tip; 5,741 states |
| `catchup_gap` | Is there never a gap on restart? | as `catchup`; violated (finding) |
| `livesync` | Where do gaps and stale blocks come from; is the tip reached? | `start_height` 1, tip up to 4, one reorganisation of depth 1 or 2, 2 failures, any number of restarts, 2 notifications on their way; 223,691 states |
| `livesync_gap` | Does polling fetch what notifications miss? | no failures, no reorganisation, tip up to 3; violated (finding) |
| `livesync_start` | Is nothing below `START_HEIGHT` indexed? | `start_height` 2, tip up to 3; violated (finding) |
| `utxocache` | Is the cache consistent and invisible? | 5 transactions, 6 outputs of which one has no address, cap 3; 66,180 states |
| `market` | One refresh, one attempt per marker, the promise, does every request end? | 2 requests on one instance with a failing Redis command, or on two; an entry from before, or garbage; 5 ticks; 742,584 states |
| `reads` | Is what several reads make up right, whatever is written meanwhile? | 2 scans of a wallet of 5 addresses; 4 rows and 3 blocks, pages of 1 and 2; 3 blocks in 7 instants; 2 proposals and 2 votes over a change of cycle; 493,546 states |
| `governance_tally` | Does the chart end at the node's tally? | 1 proposal, 2 masternodes, 2 votes, no failures; violated (finding) |

**Bounds.** `MaxHeight`, `MaxTip` bound the chain; `MaxFailures` the failures and crashes before
the tip is reached; `MaxBase` bounds `start_height`. The ledger instance has the smallest set of
transactions with a double spend, a chain of two pending transactions, a parent below `start_height`
and a batch holding parent and child. In `catchup` each half of a range is longer than a chunk and
than its channel, so that both streams block, B fills its channel while A drains, and the last batch may
be full, partial or empty. In `utxocache` the cap is below the number of outputs with an address, and one
transaction gathers a hit, a miss and an output without address. In `livesync` a notification can be
lost, late, or of a block that was replaced; two failures let one height fail and the poller die, or
two heights fail in a row.
In `market` a tick is the life of a failure marker, two are the time to live of an entry and three
the stale life: in five ticks an entry of time 0 is fresh, stale and gone, and a marker is written, alive and expired,
with room for a second attempt. Two requests are enough for one to join, overtake,
overwrite or await the other's refresh; `faults` bounds the failed commands. In `reads` the wallet's cap
is two batches and a half, so that the first batch is cut to the gap limit and the last to the cap;
`arrivals` bounds the addresses that appear during a scan; a page ends inside a block and at its edge; an hour is
two instants, a week two days and windows begin and end on and off both; a vote falls before a
window, on the edge of a bucket and into the tail that buckets leave over; `MaxSyncFaults` bounds the
aborted syncs and the failed reads of the tip. The bounds on rows, blocks, votes and time
(`MaxRows`, `MaxBlocks`, `MaxVotes`, `MaxTime`, `MaxInstant`) end a behaviour.

**Fairness.** `CatchUp` and `LiveSync` have liveness. In `CatchUp`: weak fairness on starting
(compose restarts the container unless stopped), on each stream, on the merge thread and on the
consumer: they are threads that run whenever their channel allows, and a peer that does not answer runs into the read timeout, which is
`StreamFails`. Failures themselves are not fair. `Restart` is not fair, and may be repeated for ever:
`ReachesTip` holds all the same. In `LiveSync`: weak fairness on starting, on the polling task (a timer) and on the indexing loop; strong fairness on the two
branches of `select!`, which picks at random among the ready channels. Crashes are not fair and not
bounded; failed calls are bounded, which states that RPC and database recover. `MarketFairness`: Redis
executes commands (`Execute`) and the event loop runs every continuation whose promise has settled,
the upstream request among them, which ends by its timeout at the latest (`RequestStep`). Nothing
makes users ask, and time need not pass. `XpubFairness`: the database and Redis answer each scan.

**Deadlock.** Checked where the system cannot stop: a live process can always be restarted
(`CatchUp`, `LiveSync`), the ledger can always be stopped or started, and `UtxoCache` states with
`Done` that the chain is exhausted. Not checked in `market`, `reads` and `governance_tally`: there every request
ends and bounded inputs run out, and what must not hang is stated by `EveryRequestEnds` and
`EveryScanEnds`.

## 4. Findings

1. `ledger_orphan`: a mempool child indexed before its parent has `prev_tx_id` NULL for ever, so when
   the parent confirms, the query at `block_writer.rs:204` misses the child and the spent output enters
   the UTXO set. Shortest trace: the parent is accepted while the indexer is down, the child is indexed
   live, the parent is mined.
2. `catchup_gap`: if stream A of a split range fails, the merge thread goes on to stream B, whose blocks
   are committed above the hole. The process exits with an error, and the restart resumes above
   `MAX(height)`. `GapOnlyFromHalf` (run `catchup`) shows that this is the only source of gaps.

3. `livesync_gap`: polling compares `MAX(height)` with the node's height, so a block whose notification
   was lost is never fetched once a later notified block is written. `GapHasCause` shows that this and a
   failed height are the only sources of gaps in the live loop.
4. `livesync_start`: with `START_HEIGHT` at the tip and an empty table, `index_new_blocks` starts at
   block 1, because `start_height` replaces the 0 of an empty table in `catch_up` only.
5. `governance_tally`: the node replaces a masternode's earlier vote, and `insert_votes` (`dao.rs:84`)
   only adds votes by hash, so a masternode that changes its mind is counted twice, with its weight,
   until the cycle changes. `SeriesCountsOnce` (run `reads`) shows that the chart itself is right about
   what is cached.

What the runs show besides, and no document denies: an offset list may show a row twice when a block
arrives between two pages, and may miss rows of one block whose order it leaves open
(`OnlyTiesAreSkipped`); a live slice may count a block whose timestamp is out of order although it lies
outside the window (`WindowIsExact`).

## 5. Proofs

`LedgerProofs` proves for all transactions, outputs, addresses, chains and batch sizes that satisfy
`NodeAssumption` and `LedgerAssumption`: `TypeOK`, `UtxoIsUnspent`, `ConfirmedSpenderWins`,
`HeightsMatchChain`, `SweptAreLocked` and `MinedSpendIsFinal`. The inductive invariant `IInv` adds to them
what they silently rely on:

- `ChainInv`: a coin is spent once on the chain and a transaction mined once. Without it two blocks of one
  batch could spend the same output and "the confirmed spender" would not be one.
- `TipInv`, `HeightInv`: the indexed blocks are exactly those from `base + 1` to `tip`, and heights come
  from them.
- `LinkInv`, `SpentInv`: a link points to an indexed creator; an output with a recorded spender has that
  output among the spender's links, or the spender is mined. These connect the mempool query of
  `write_batch`, which reads links, with `spentBy`, which the same step does not read: it is why
  `UtxoIsUnspent` survives a parent that is inserted again.

`IInv` was checked by TLC on the instance of run `ledger` before it was proved. Each action has a lemma;
`WriteBatch` is proved once for `CatchUpBatch` and `ProcessBlock`.

`UtxoCacheProofs` proves `TypeOK`, `RefcountExact`, `CacheBounded`, `CachedAreUnspent` and
`ResolutionExact` for all instances with finitely many outputs; the strengthening says which entries can
still be spent in the `mark` phase and that an entry's creator is indexed or in the batch. Cardinalities
come from the library's theorems about finite sets.

`LiveSyncProofs` proves `TypeOK`, `StaleOnlyReorged` and `GapHasCause` for every chain, queue length,
`start_height` and number of reorganisations, failures and restarts, from `LiveAssumption`. `CursorInv`
says that while `index_new_blocks` runs, nothing at or above its cursor is indexed and everything between
`MAX(height)` and the cursor has failed; `NoticeInv` that a queued notification is of the node's chain or
of a replaced height. That `MAX(height)` exists is a lemma, from the well-foundedness of `<` on the
naturals. `IInv` was checked by TLC on the instance of run `livesync` first.

`CatchUpProofs` proves `TypeOK`, `MergedAscends`, `OkMeansComplete` and `GapOnlyFromHalf` for every
threshold, channel, chunk and batch size, and the refinement of `IndexPrefix` where no range is split
(`Threshold > MaxTip`). A block on its way is not sent, in its stream's channel, in the merged channel, in
the batch or in the table. The invariant says that these places hold adjoining runs of heights:
`StreamInv` for a stream and its channel, `OrderInv` for what is merged, `WholeInv` for what of the range
is still complete when stream A has not failed, `ModeInv` for how the merge thread is connected,
`QuietInv` for a consumer that is not running, `PrefixInv` for the table. The refinement needs more than a
step simulation: that a commit extends a prefix follows only from where the batch came from. The invariant
was checked by TLC on the instances of `catchup` and `catchup_single` first.

`MarketProofs` proves `MarketTypeOK`, `OneRefreshPerInstance` and `OneAttemptPerMarker` for every number
of instances, requests, keys' values, failures and ticks. `FlightInv`: a request refreshes iff its
instance's map names it. `PipeInv`: a command on a connection is the one its request's stage waits for, a
request has one, and executed commands come first. `AttemptInv` is the heart: while a marker is alive,
every answer "no marker" still unread on the connection of the instance that wrote it has that marker's
own reply behind it; so the refresh that wrote it has not settled, and the reader joins it. `OutcomeInv`:
whoever awaits a refresh finds an outcome when it is over.

`MarketProofs` also proves `KeepsPromise`, the refinement of `MarketPromise`, step by step. `PromiseInv`
says what every value and every refusal on its way to a request can show for itself: what Redis holds
(`RedisOK`), what an executed command answered and its request has not read (`PipesGood`), and what a
request has in its variables at each stage (`RequestOK`) was fetched from the upstream it names, is no
older than its life allows from the time the lookup began, and comes with the failure that explains it
when it is stale, from the fallback, or none at all. A step that answers is a step of `MarketPromise`;
every other one maps to a clock tick, a pull, a failure, a question or a stutter. It needs
`LivesAssumption` (`Ttl >= 2`, `FailureLife >= 1`): a lookup may take a tick, so an entry must outlive
one. A value is fresh for an hour against a tick of a minute, and a failure marker lasts a tick.
`CacheAssumption` says what Redis may hold before the first request: nothing, garbage, or a value the
primary upstream gave at most a tick ago.

`LedgerProofs` proves `TotalsMatchChain` and `BalancesAgree` besides. The totals are sums over sets of
outputs. `DataFacts` proves what a sum of a disjoint union, of a difference and of a subset is, by
a minimal counterexample among the subsets of a finite set. A batch's outputs are new, nothing mined spends them, and
nothing mined spends what it spends, so each sum of `TotalsAfter` is the old one plus that of a disjoint
part, and `BalancesAgree` is a difference of two such sums, with `UtxoIsUnspent`. Both need
`FiniteAssumption`: finitely many transactions and outputs.

`GovernanceProofs` proves `GovernanceTypeOK` and `NewCycleStartsEmpty`: a proposal with votes is
registered (`NamedInv`), so the registry that `flush` reads names all there is to drop (`DropInv`), and
the marker moves only when all is dropped (`MarkInv`) or there never was anything (`FirstInv`). It proves
`SeriesCountsOnce` for every window, preset and set of cached votes, from types alone: a bucket holds the
votes after the end of the one before it and up to its own (`IndexFacts`), so by the lemmas about sums a
running total is the weight of all votes up to the bucket's end (`TotalIsUpTo`), and the whole buckets, of a
preset width or one rounded up to whole seconds, leave less than a bucket uncovered (`BucketsCover`).

`ReadsProofs` proves every invariant of run `reads`, for each reader and for `ApiReads`.

- *Wallet.* `XpubTypeOK`, `KnownIsUsed` and `ReplyIsTheWallet` for every batch size, cap, gap limit,
  number of callers and servers. `WalkInv` says of a scan under way that what was used when it began is
  known up to where it looked, and that no gap ends before where it stands; `HistoryInv` that rows are
  never deleted, `RunningInv` that a caller which joins shares the moment the scan is measured against.
- *Cursor list.* `CursorWalkIsExact`: the first rows of each address, merged, hold the first rows of the
  wallet (`MergedIsTop`); so the cursor is the last row loaded, and what there was at first is what is
  loaded and what is below the cursor (`CursorIsLast`). A block puts its rows above both.
- *Offset lists.* `OnlyTiesAreSkipped` and `EndIsTheEnd`: a row of which fewer rows come first than the
  pages are long is loaded, or it ties with another (`RankLoaded`). New rows sink every row of the list
  alike, which makes pages repeat rows and never pass over one. The rank is a cardinality; that a page
  holds the first rows but for ties is `FitsFacts`.
- *Windows.* `WindowIsExact`: the slices of a window follow one another, and they and the rollups share no
  instant and leave none out, whatever the units and thresholds (`WindowDivides`). A block in order is in
  the heights of a slice only when its time is in the slice (`RangeHolds`). `CountsInv` then says that a
  block in order that is counted, or resolved, is inside the window and in no slice that is left, and that
  what is inside and was there at the question is counted, in a slice that is left, or rolled up.
- *Together.* A step of one reader is a stutter of the others, so `ReadsInv` is the conjunction of their
  invariants (`ReadsTyping`, `ReadsKeepPromises`).

The invariant of the windows was checked by TLC on 222,833 states of an instance like that of `reads`
before it was proved.

**Only model-checked.** All liveness: `CatchUpEnds`, `ReachesTip`, `TipReached`, `EveryRequestEnds` and
`EveryScanEnds`, which need `ENABLED`. The five violated properties have their counterexamples and nothing
to prove. What a recursive definition computes is proved where it is a sum over a finite set, by a minimal
counterexample among subsets; the library's induction theorems over predicates cannot be instantiated by
the installed provers.

## 6. Plan

Done, in this order: `DashNode`, `Ledger`, `LedgerProofs`; `UtxoCache`, `UtxoCacheProofs`; `CatchUp`,
`IndexPrefix`, `CatchUpProofs`; `LiveSync`, `LiveSyncProofs`; `MarketPromise`, `MarketCache`,
`MarketProofs`; `XpubScan`; `Governance`, `GovernanceProofs`; `ListPaging`, `TimeSlices`, `ApiReads`;
`DataFacts`, `ReadsProofs`. Every invariant of a passing run, every action property and both refinements
are theorems. Left, in this order:

1. An abstract ledger, a function from the indexed part of the chain to what the tables answer, and
   `Ledger` shown to implement it once no transaction is pending.
2. `Crawler`: rounds, the running flag that a panic leaves set, the peer store and its readers.
3. `ZmqLocks`: pairing of lock messages, once the order in which Dash Core sends them is written down.
4. The composition of `CatchUp` and `LiveSync` with `Ledger`, so that blocks reach `write_batch` in the
   orders the synchronisers produce; today `Ledger` takes blocks in height order, and the two
   synchronisers are about table `blocks` alone.

### Not modelled

- **ZMQ lock messages.** `rawtxlock` and `rawtxlocksig` are paired by arrival (`zmq.rs:142`). Whether the
  pairing is right depends on the order Dash Core sends them in, which nothing in the repository says; a
  model would assume its own conclusion.
- **Peer crawler and peer store.** Nothing but one API answer reads the peer set. The hazards stay listed.
- **Masternode sync.** One upsert of what one RPC call returned.
- **Deriving addresses from an xpub, parsing requests, formatting answers, reshaping historical
  charts, GeoIP.** Functions without state.
- **Routes, models, migrations, server-side rendering, views.** Wiring and presentation; most of the
  TypeScript of the repository is of this kind, which is why the specifications, although they cover
  the stateful part of it, are about a small share of its lines.
- **The refresh of the view `address_balances`.** A copy that is read as such; the hazard is listed.

Seen while modelling and not worth a model: `GovernanceController.ts:109-111` answers with an error when the
last superblock is not in the database and does not return, so a second answer follows.
