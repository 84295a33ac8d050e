# bitcoin-data-exporter: TLA+ models, checks and proofs

bitcoin-data-exporter turns a Bitcoin node and a few web APIs into CSV files that Splunk
indexes. This directory holds TLA+ models of its parts, the TLC configurations that check
them, and TLAPS proofs of what matters most.

    tlc -config MCIngest_anytime.cfg MCIngest.tla       # one run; the list is in section 3
    tlapm Ingest_proofs.tla                             # the proofs of one module; section 5

## 1. Inventory

The program is a set of independent processes, one per `run.py` subcommand, that share
nothing but directories. Each is a loop that must survive being killed, restarted by
systemd, and disconnected from its source.

| Component | State it keeps | Operations | What is hard about it | What makes it correct |
|---|---|---|---|---|
| **rpc-ingest loop** `rpc/ingest.py` | pass locals: target height, current hash, staged batch, atomic mode | `_run_one_pass`, `_recover_from_reorg`, `_drain`, checkpoint | the node reorganises between any two RPC calls; crash between the seven durable writes of a checkpoint; RPC failure mid-batch; stop between blocks | every block of the active chain exported once, in all four streams; restart resumes without loss |
| **Ingest state files** `rpc/reorg_state.py` | `index.csv` (append only), `block_status.csv` (rewritten), `current.csv` (pointer); in memory `_pending`, `_entries`, `_all_current` | `needs_export`, `add`, `flush`, `discard_pending`, `earliest_stale`, `set_canonical…`, `seed_index_from_blocks_csv` | durable and in-memory copies diverge on crash; schema upgrade of old rows | index never ahead of the exports; flags tell the truth about the chain; every old row re-exported |
| **Part writer** `rpc/part_writer.py`, `common/csv_writer.py` | growing part under `state_dir`, closed parts under `output_dir`, counter file | `write_batched`, `write_atomic`, `_close_if_open`, start-up scan | crash between `os.replace` and the counter; Splunk deletes parts as they appear; mode switch with a part open | a part number is handed off once, nothing returned is lost or stranded |
| **Catch-up pool** `rpc/catchup.py` | futures window | `iter_parsed_blocks` | workers read the chain at different times | blocks are consumed in order and linked |
| **Block parser** `rpc/block_parser.py` | none | `aggregate_transaction`, `aggregate_block` | aggregates of aggregates; fees when the node reports none; sequence locks, halvings | the aggregates are what the detail rows add up to; rows join |
| **RPC client** `rpc/client.py` | per thread one HTTP connection and the cookie it was opened with | `run_cli`, `_http_call`, `_HttpRpcConnection.call` | node restarts with a new cookie, warms up, drops idle connections; a call is sent again while an answer may be under way | an answer belongs to its call; bounded retries; only who opts in sees an RPC error at once |
| **Mining pools** `rpc/mining_pools.py`, `api/mining_pools_dataset.py` | the matcher built from the dataset at start-up, rebuilt when the loop finds the dataset stale and has refreshed it | match, download | tags are Unicode, the coinbase is bytes; shared payout addresses; the dataset may be missing, or another one at the next block | a tag outweighs an address; the pool is the one of the dataset in force |
| **Stale blocks** `rpc/stale_blocks*.py` | registry of known stale headers, last-pull times | node poll, GitHub pull, `upsert_sighting`, `flush` | two feeds report a block in either order; crash between export and flush | each header and each status change exported, duplicates only by a crash |
| **Mempool watch** `rpc/mempool_watch*.py`, `zmq_sequence.py` | flagged transactions (`flagged.json`), ZMQ sequence numbers | ZMQ handlers, `reconcile`, depth check | lost and reordered notifications; reconciliation races queued events; crash between export and save | each flagged transaction reaches a final status that agrees with the node |
| **API poller** `api/poller.py`, `client.py`, `rate_limiter.py` | token bucket, two events, each thread's schedule and retries | endpoint loop, `acquire`, 429 handling, Ctrl-C | threads share a bucket; stop while one waits or is past its checks; the order of the two events | rate bound; a 429 stops everybody and is told to systemd; no bursts |
| **Price backfill** `api/price_gap_backfill.py` | checkpoint, set of existing dates, pending rows | `run_backfill`, `flush` | runs beside the live poller on the same CSV; Ctrl-C or a kill in a flush | no minute twice, checkpoint never past what is written |
| **Config/CLI** `config.py`, `cli.py`, `export_schema.py` | none | validation, dispatch | – | bounds reach the loops |
| **Splunk apps, systemd, scripts** | none | – | – | outside the program: consumer and supervisor |

How they interact:

* `rpc-ingest` calls the node (`getblockcount`, `getblockhash`, `getblock`) through the RPC
  client, hands the parser's rows to one `PartSequencer` per stream (blocks, transactions, inputs,
  outputs), and keeps its own state files. The catch-up pool calls the node from worker
  processes.
* Closed parts under `output_dir` belong to Splunk, which consumes and *deletes* them;
  the program reads parts back only on its first start (`seed_index_from_blocks_csv`).
* `stale-blocks-ingest` and `mempool-watch` follow the same node on their own, each with its own
  registry; the price backfill and `api-poll` meet in `prices.csv`.

The code lines where each hazard bites, and the properties that watch it, are listed in
`PROJECT.json` under `hazards`.

## 2. Modules

| Module | Models | Used by |
|---|---|---|
| `Ingest` | the whole of rpc-ingest, its state files, the node, its faults | `MCIngest`, `Ingest_proofs` |
| `ExportLog` | the abstract promise of rpc-ingest to its readers | `Ingest` (as `Log`) |
| `MCIngest` | block trees and fault budgets for TLC | runs `MCIngest_*.cfg` |
| `PartSequencer` | one logical CSV as numbered parts, crash by crash | runs `PartSequencer_*.cfg`, `PartSequencer_proofs` |
| `MempoolWatch` | mempool-watch, the node's mempool, chain and ZMQ messages, the list file | `MCMempoolWatch`, `MempoolWatch_proofs` |
| `MCMempoolWatch` | transactions and rivals for TLC | runs `MCMempoolWatch_*.cfg` |
| `StaleBlocks` | stale-blocks-ingest, its registry, the node's tips and the published list | run `StaleBlocks_feeds.cfg`, `StaleBlocks_proofs` |
| `EventLog` | the abstract promise of both to their readers: the event history of a transaction or a block | `MempoolWatch` (as `Alerts`), `StaleBlocks` (as `Log`) |
| `PriceBackfill` | the price backfill, prices.csv, the live poller's appends | `MCPriceBackfill`, `PriceBackfill_proofs` |
| `ApiPoll` | the poller's threads, its token bucket and its main thread, on a discrete clock | `MCApiPoll`, `ApiPoll_proofs` |
| `RpcClient` | one thread's RPC calls over either transport, and the node at the other end | run `RpcClient_calls.cfg`, `RpcClient_proofs` |
| `RpcCall` | the abstract promise of a call to its caller | `RpcClient` (as `Promise`) |
| `BlockParser` | the parser and the pool matcher as operators on one block | `BlockRows` |
| `BlockRows` | the rows of a whole chain, parsed block by block out of a ledger | `MCBlockRows` |
| `*_proofs` | inductive invariants and theorems about the module they are named after | TLAPS |

### Ingest

*State.* `tip` and `active` are the node's chain. `index`, `exports`, `blocksCsv`,
`blockStatus` and `current` are what survives a crash: index.csv (schema version of each
row), how often each stream has each block's rows, where blocks.csv has them (needed only for the
seeding), block_status.csv and current.csv. `pending`, `memStatus` and `allCurrent` are the
in-memory halves of the stores. `buf`, `at`, `goal`, `detached`, `atomic`,
`processed`, `parEnd`, `seen` and `ending` are the pass's locals; `pc` is the next step. `overtaken` notes that
the chain was replaced while the loop had not caught up. A
block stands for its hash; the block tree (`Parent`, `Height`) is a constant, with one genesis block. Nothing is abstracted of the order of
durable writes: each is an action.

| Actions | Code |
|---|---|
| `BeginPass`, `ReadCurrent`, `SeedFromBlocksCsv`, `CheckLiveHash` | `_run_one_pass` up to the live-hash comparison |
| `WalkBack`, `WalkBackFails`, `FlushDetached` | `_recover_from_reorg`: one block per step, because every one asks the node again; its three `RuntimeError`s end the process |
| `PlanPass`, `IdlePointer`, `IdleStatus` | schema rewind, atomic or batched mode, pool or no pool, nothing to do |
| `ProcessHeight`, `ProcessPrefetched`, `PrefetchedMismatch`, `EndPass` | the height loop, sequential and parallel, and its `break`s |
| `Drain(s)`, `FlushIndex`, `FlushStatus`, `WritePointer` | the checkpoint, in its order |
| `RpcFails`, `Stop`, `Exit`, `Crash`, `Restart` | `except RpcCliError`, SIGTERM, a kill, the constructors |
| `NodeMoves`, `SplunkTakes` | the environment |

A pool worker may have read any block that has been on the active chain at its height since the pool
started (`seen`, empty while no pool runs). `parEnd`, `parallel_end` in the code, stays until the pass ends, as it tells which heights of a batch the pool has read. latest.csv and reorg/*.csv are written and never read back, so they are left out.

### PartSequencer

A part is a sequence of pieces, each the rows of one write call, whole or torn.
`Write` begins `write_batched` or `write_atomic`; `Rename`, `SaveClosed`, `Advance`, `AppendRows`,
`Save` and `Replace` are its durable effects in their order; `Crash` may fall before any
of them and `CrashInAppend` inside one; `SplunkTakes` removes a part any time.
`Ingest` uses what this module establishes through `PlaceRows`: a batch joins the open part, an
atomic block closes the open part and goes out closed.

`RenameGap` says whether a crash may fall between `os.replace` and the counter's save.
It is FALSE in the passing run: that window is the finding below, and with it excluded everything else is shown
to hold.

### ExportLog

Two actions: `Deliver` rows of blocks not on record to one stream; `Record` blocks all
streams have. `Ingest!ImplementsExportLog` is the refinement with `delivered <- exports` and
`recorded <-` the blocks whose row has the current schema version.

### MempoolWatch

*State.* `mempool`, `chain` and `body` are the node; `queue` is what it published and the process has
not received, `dropped` that something was lost since. `listFile` and `listState` are the list on disk: what it matches, and whether it is loaded, edited since, or does not load.
`subscribed` is chosen at the start: without a `zmq_endpoint` nothing is published to the watcher, which then only polls. `last` is the latest exported event of each transaction,
`flagged` is flagged.json, `store` its copy in memory; `dirty` says that an event is out and the file not yet
written, the window in which a crash hurts. `checked`, `unfetched` and `tipHeight` are the fields of
`MempoolWatcher`; `batch`, `fetched`, `snapshot`, `todo`, `subject`, `scan` and `cache` are locals of
`handle_events`, `reconcile` and `_find_confirming_block`.

| Actions | Code |
|---|---|
| `BeginReconcile`, `ReadTip`, `Recheck`, `StopReconcile`, `FindGone`, `ScanBlock`, `GoneHandled` | `reconcile`: the mempool first, then the tip, then one call per step; a chunk is one transaction |
| `OnLeftUnmined(answered)`, `CheckDepth`, `DepthChecked` | `_on_left_unmined` and `_check_confirmed_depth`, from a handler or from `reconcile`; an error answer to `gettxspendingprevout` counts as no spender |
| `Receive`, `NothingReceived`, `Fetch` | `receive_batch` with the counter check, and `_fetch_many`, which asks before anything of the batch is applied |
| `ApplyAdded`, `ApplyRemoved`, `ApplyConnected`, `ConnectUnfetched`, `Confirm`, `CheckDepths` | the loop of `handle_events` |
| `EndIteration` | the gap, the reload of the list (a broken one is passed over), the reconcile timer |
| `Flush` | the rewrite of flagged.json behind every export |
| `RpcFails`, `Stop`, `Exit`, `Crash`, `Restart` | `except RpcCliError`, SIGTERM, a kill, the constructors |
| `Enter`, `Evict`, `Connect`, `EditList`, `BreakList`, `MendList`, `Lose` | the environment |

`Restart` waits for a list that loads, as the constructor raises on any other. A node step may fall between any two RPC calls. It publishes what Bitcoin Core publishes: R for a removal that no
block explains, A for an addition, D and C for blocks, and nothing for a transaction a block took. A transaction outside the
mempool cannot be fetched without its block (no `-txindex`). Whether it touches a listed address is the
membership in `known`, so an edit of the list changes the answer.

### StaleBlocks

*State.* `tip` and `dataset` are what the two feeds say now: the status of each stale tip, and the rows of the list, each with
a header that hashes to its block or does not. `exports` and `last` are stale_block_headers.csv as a reader counts it, `file` is
registry.csv, `registry` and `dirty` the `StaleBlockRegistry`. `todo` is what the pass in hand has still to go
through, `fresh` the pull timer. `saving` is the window between an export and the flush behind it;
`cut` counts, per block, the crashes that fell into it.

| Actions | Code |
|---|---|
| `BeginPoll`, `PollTip(s, answered)`, `EndPoll`, `PollFails` | `_run_node_poll`; a header that cannot be obtained leaves an `unusable` sighting |
| `FetchList`, `FetchFails`, `PullRow(s)`, `EndPull` | `_run_github_pull`, with its two `continue`s |
| `Sight`, `Upserted`, `Flush` | `_ingest_sighting` (export, mark, flush) and `upsert_sighting` |
| `Wake(elapsed)`, `Stop`, `Exit`, `Crash`, `Restart` | the loop around them |
| `FeedsMove` | the environment |

Upsert, export and mark are one action: nothing of them but the exported row is durable, and no call to
the outside lies between them. The flush is the next one, so a crash can fall between. The rows of a pass are taken in
any order, which covers the order of either feed.

### EventLog

`Follows` is the order in which the events of one key may come. `Report` exports the next event; after a
crash cut an event off from the record (`Doubt`) any may come. For mempool-watch a key is a transaction and `Follows` the life of
an alert; for stale-blocks-ingest it is a block, and a header may follow no header but not the other way round.

### PriceBackfill

*State.* `filled` and `polled` are prices.csv: how many rows of each minute the backfill and the poller appended.
`checkpoint` is the state file. `next`, `existing`, `pending`, `unflushed` are locals of `run_backfill`; `start` and `end` its
arguments; `leaving` says that the flush under way is the one of the finally clause. A requested timestamp is a step
`1..LastStep`; `PriceTime` says which minute the instance answers it with, or that there is none, so that two
steps may get the same minute.

| Actions | Code |
|---|---|
| `Launch(s, e)`, `ReadExisting` | the operator starts the script; `_load_checkpoint`, `_existing_dates` |
| `Fetch`, `Advance(timer)`, `RequestFails`, `RangeDone` | one round of the loop, and its ends |
| `WriteRows`, `ClearPending`, `SaveCheckpoint` | `flush`, one effect per step |
| `Interrupt`, `InterruptAgain`, `Kill` | Ctrl-C in the try block and in the finally clause, and a kill, which may tear an append |
| `PollerAppends(m)` | the live poller |

`overlap` and `repeats` record the two situations in which the code may write a minute twice; `WrittenOnce` says there is no third.

### ApiPoll

*State.* `now` is the clock. `level` and `refilled` are the bucket, its tokens counted in ticks of refill. `stop` and `rateLimited` are
the events. Of each thread: the `thread` step, the end of its wait (`until`), `next_due` (`due`) and the
attempt. Of the main thread: `main`, the thread it joins and its `patience`. `grants` records when each token was taken, `ended` when
each thread's last two rounds ended, `late` what was sent after a stop.

| Actions | Code |
|---|---|
| `Halts`, `Begins`, `Schedules` | `endpoint_loop` |
| `Acquires`, `Throttled` | `TokenBucket.acquire`: the locked part is one step, the wait another |
| `Answered`, `BacksOff`, `HandlesLimit` | `_get_with_retry`, `get_json`, `fetch_and_write`; the two events are set in two steps |
| `NoticesStop`, `CtrlC`, `JoinNext`, `Returns` | `run_poller` from `time.sleep(1)` to the exit codes |
| `Tick` | time, which passes between any two steps: a thread may be as late as it likes |

### RpcClient and RpcCall

*State.* The node's: whether it is up, which cookie it takes (`cookie`, counted by restart), whether it still `held` the
connection, requests it has read (`inbox`), answers under way (`wire`). The client's: `conn` and `auth` of
`_HttpRpcConnection`, the call in hand, its attempt, and how many of its round trips broke off. `conn` is `"dormant"` when http.client
has dropped its socket and would open a new one with the old `auth`: the state after an error reply with `Connection: close`.

| Actions | Code |
|---|---|
| `Ask`, `Retries`, `Fails` | `run_cli`, `_http_call`: retries and the opt-in to `RpcError` |
| `ReadsCookie`, `Sends`, `SendFails`, `NoAnswer`, `BreaksOff` | `_roundtrip`, and `call` when it raises: reconnect once, then fail |
| `Receives`, `After`, `Close` | `call` from the status code on, and what becomes of the connection |
| `Stops`, `ComesUp`, `DropsIdle`, `Answers` | bitcoind |

bitcoin-cli is the same client with a connection that ends with each answer. `RpcCall` promises the caller a bounded number
of attempts, an `RpcError` only if it opted in, and `RpcCliError` only after all attempts. Error -28, which a node
that warms up gives, is an RPC error like any other: a caller that opted in takes it for a permanent answer, a
caller that did not gets it retried. The promise allows both.

### BlockParser and BlockRows

`BlockParser` has one operator per function of block_parser.py and per idea in its two long ones (`InputEvent`, `OutputEvent`, `Fee`,
`TxEvent`, `BlockEvent`), and the matcher of mining_pools.py. Amounts are satoshis, a hex string is its length, the coinbase's
script the set of byte strings that occur in it. A pool's tags are texts, and `Utf8` and `Latin1` give the bytes of a text: `Decoded` finds
the texts whose Latin-1 bytes are in the script, as `coinbase_hex_to_ascii` does, and a text beyond Latin-1 never. A coinbase that is not hex has an empty script. A filter (`Those`) keeps entries at their places, a sum is the community modules' `SumFunction`. Averages, medians and fields copied as they are are left out.

`BlockRows` gives it a history: bitcoind assembles blocks out of the coins there are (`Include`), connects them (`Connect`), and
every block's rows join those of the blocks before. What getblock reports may lack the fee and any of the spent outputs, as it does for a
node without undo data. Each block is parsed with some dataset or none, which need not be the last one's (`pools` remembers it per height): the
loop rebuilds the matcher after it refreshed a stale dataset (ingest.py:560-567), and a restart takes what there is. The ledger is held to the rules of consensus the properties rest on: amounts are not negative, a transaction's outputs are worth its
inputs less its fee and a coinbase's at most subsidy and fees, less what the miner leaves unclaimed (`Paying`: the first output takes what the others leave), a coin is spent once.
`LedgerAssumption` says of the templates what is true of any payload: outputs with natural amounts, witnesses made of lengths, a coinbase script that is there; and of the datasets that their tags are texts.

## 3. Runs

| Run | Shows | Instance |
|---|---|---|
| `ingest_anytime` | the record is never ahead of the exports, duplicates only by a crash or an upgrade, what the pool read of a batch lies on one chain, refinement of ExportLog | two branches from the genesis block (10 blocks), reorg at any step, pool of 2 workers, batches of 3, confirmations 1, one crash and one RPC failure |
| `ingest_between` | no hole in the record, recovery never lost, flags follow the chain, active chain exported; in the end everything exported, old rows too | fork above height 1 with room to flip back, blocks 0–1 on record with schema 1, reorg only while no pass runs, one crash, one RPC failure, one stop |
| `parts` | numbers handed off once, parts immutable, nothing lost or stranded | 5 parts, 5 writes, cap of 2 writes, 2 crashes, torn appends |
| `watch` | record and events agree, a confirming block holds the transaction, no silent forgetting, refinement of EventLog, in the end agreement with the node unless the list stays broken | with and without a subscriber; 2 transactions that spend the same input, 4 blocks, a reorg of 1, 3 moves of the node or the list (one may break it), 1 fault (crash, stop, lost message, failed call), blocks may hold what the mempool never had |
| `stale_feeds` | no event lost, none repeated but by a crash that cut it off, entries only improve, refinement of EventLog, every block that stays reported gets its header in the end | 2 blocks, 2 tip statuses, 3 changes of the feeds, 2 faults (crash, stop, unanswered or failed call) |
| `backfill` | checkpoint honest, loss bounded, no minute twice but in two named cases, the range gets filled | 4 steps on 2 minutes, one without a price, 2 start timestamps, batches of 2, a kill, 2 Ctrl-C, a refused request, a poller row per minute |
| `poll` | rate bound, one late request per thread, no burst, exit code, the process ends | 2 endpoints of interval 2, a bucket of 2 tokens refilled every 4 ticks, 1 retry, 4 ticks, 2 Ctrl-C |
| `rpc` | answers belong to their calls, one refusal per restart, refinement of RpcCall | 4 calls, 2 retries, 2 restarts, both transports |
| `blockrows` | aggregates add up, rows join, fees are true, pool from the coinbase | heights 0–2, up to 2 transactions of up to 2 inputs, 2 templates, 3 coinbases, halving every 2 blocks, `nSequence` of 2+1+1 bits; at each block no dataset or one of 4 pools, three of which share a payout address, with tags in ASCII, in Latin-1 and beyond |
| `ingest_v_gap`, `parts_v_reuse`, `watch_v_removed` | the findings of section 6 | |

`ReorgMode` is how far the node's behaviour is restricted in `Ingest`. `"anytime"` restricts nothing; the run
with `"between"` states what holds when reorgs keep a distance, and `ingest_v_gap` shows that the restriction is needed.
`StatusFollowsChain` speaks of histories in which the chain was replaced only when the loop had caught up (`~overtaken`).

*Why the bounds are enough.* The walk-back needs a fork deeper than one block, a chain that is longer
on either side, and room to flip back: the trees have both. The pool starts only when more heights
wait than `PrefetchPerWorker * Workers`; with 1 and 2 it starts, and two branches meet in its range. `BatchSize` 2
puts a checkpoint in the middle and at the end of a pass; with 3, as in `ingest_anytime`, a batch has room
to change its branch and to change back. `WalkBackFails` is reached through
`MaxReorgDepth` 2. One crash anywhere is the interesting case (two crashes only repeat it from a state
a restart can also reach); `PartSequencer` allows two because the second one meets the first one's leftovers. A part cap
of two writes rotates by size, by mode switch and by both at once. Symmetry is not used: the trees
fix each block's place.

For mempool-watch two transactions are the least that makes a replacement, and nothing in the code relates three. Three moves
are what it takes for a transaction to leave, come back and be mined, or to be mined, disconnected and mined again
while one message of them is lost. `ScanBlocks` and `ForgetAfter` are 2, so that both the scan window and the burying are
reached and missed within 4 blocks.

For stale-blocks-ingest one block meets every case of the registry, the second one lets a crash hit one block's event while
another's is on record. Three changes of the feeds give a block first as a tip, then as a row, valid or fake, and a change of the
tip's status; two faults give a crash and, after it, an unanswered header.

The backfill's four steps make two batches, the second of which begins with a step without a price and ends with a minute that is
already there; two start timestamps make a checkpoint of another range; the second Ctrl-C falls into the first one's finally
clause. The poller's four ticks are two intervals: a thread falls behind by one and is tempted to catch up; two tokens for
two threads and one retry make everybody wait for the bucket. Two restarts are needed to meet an outdated cookie with another outdated
cookie behind it, four calls to use a connection before and after. Three blocks hold a halving, a coinbase output spent a block
later, a transaction that spends another one of its own block, and a change of the dataset in either direction. The three coinbases are stamped with an ASCII tag, with the UTF-8
bytes of a tag beyond Latin-1, and with the Latin-1 byte of a fourth pool's tag: found, not found, and found. Bounds named `Max...` are bounds of the models (except `MaxReorgDepth` and
`MaxRetries`, which are the program's).

*Fairness.* `Ingest!FairSpec` adds `WF_vars(Process)`: the loop waits for nothing but its own steps
(each RPC call returns or raises), a pass is begun again after `poll_interval`, and a process that ended
is started again (`Restart=on-failure`, or the operator after a clean stop). The node, Splunk and the faults
are owed nothing, and faults are bounded by `MaxFaults`, so the liveness properties speak of a history in which
they stop happening. `MempoolWatch!FairSpec` adds `WF_vars(Process)` for the same reason, and
`SF_vars(EndIteration(TRUE))`: `time.monotonic() >= next_reconcile` is tested at the end of every iteration, and
the time comes. Without it a message lost as the very last one would be repaired by nobody, since no later
counter shows the gap. `StaleBlocks!FairSpec` adds `SF_vars(Wake(TRUE))` on the same ground: the interval between two pulls is finite and
measured on every wake. `PriceBackfill!FairSpec` has `WF_vars(Run)`, a script that runs goes on (a request is answered or times out), and
`SF_vars(Launch(...))`: the operator, whom the script tells to re-run the same command, does so. `ApiPoll!FairSpec` has weak fairness of
the main thread and of each endpoint's (a request ends after `request_timeout_seconds` at the latest); none for Ctrl-C and none
for time: the joins of `EndsAfterStop` end because the threads do.

*Deadlock.* The `MCIngest`, `MCMempoolWatch`, `StaleBlocks` and `MCPriceBackfill` runs check it. The other models stop by design: `PartSequencer`, `RpcClient` and
`BlockRows` when their budget of writes, calls or blocks is used up, `ApiPoll` when the process has exited.

## 4. Properties

Each is stated with its code lines in its module. The ones a reviewer would ask about first:

* *Nothing recorded that is not exported*: `IndexImpliesExported`, `RecordedIsExported`, `NothingSkipped`, `NothingLost`. In each component
  a durable record gates the next export; each of these relates the two files at every step a process may die.
* *Nothing exported twice but for a named reason*: `DuplicatesBounded`, `OncePerCut`, `HandedOffOnce`, `WrittenOnce`, with the reasons spelled out in
  the formula.
* *The record follows the world*: `StatusFollowsChain`, `WalkNeverLost`, `ActiveChainExported`, `RecordMatchesEvents`, `ConfirmedByItsBlock`, `NotForgotten`,
  `NeverDowngraded`, `ExportedNeverChanges`, `OneBranch`.
* *The world is not hurt*: `RateBound`, `NoBurst`, `OneLateRequest`, `OneRefusalPerRestart`, `LossBounded`.
* *Answers mean what they say*: `AnswerIsOurs`, `ExitCodeTellsWhy`, `BlockAddsUp`, `InputsJoinOutputs`, `FeesAreTrue`, `PoolFromCoinbase`.
* *It gets there*: `EventuallyExported`, `EventuallyAgrees`, `EventuallyReported`, `EventuallyFilled`, `EndsAfterStop`.
* *Refinement*: `ImplementsExportLog`, `ImplementsEventLog` (twice), `ImplementsRpcCall`.

`doubtful` marks the transactions whose event and entry a crash has torn apart; the
safety properties of `MempoolWatch` make no claim about their history, `EventuallyAgrees` does about their end. Beside the definitions
stand *slips*, variants of a definition with a plausible bug; `PROJECT.json` names for every property one under
which TLC finds it violated. `MCBlockRows` also has two assumptions TLC evaluates: `LockRoundTrip` (what BIP68 packs into `nSequence` is decoded)
and `SubsidyRule`, which states the subsidy by its rule (halved once per interval, nothing from the 64th halving on), since the ledger of `BlockRows` mints by the
parser's own `BlockSubsidy`.

## 5. Proofs

Every theorem holds for all values of the constants that satisfy the module's named assumption. In every proof module the
invariant is shown initially, kept by one lemma per action (or group of actions), and put together by PTL.

`Ingest_proofs`: every block tree and configuration, reorgs at any step, any number of faults.

* `TypeCorrect`: `Spec => []TypeOK`. TypeOK carries two facts beyond types that make it
  inductive: `goal + Confirmations <= tip` during a pass (so the heights of the loop exist), and the loop
  never passes `goal`.
* `IndexHonest` and `NoNeedlessDuplicate` (`IndexImpliesExported`, `DuplicatesBounded`). Neither is
  inductive: whether a flush of the index is safe depends on which streams the staged blocks have
  reached. `Inv` adds `Staged` (what is staged is not on record, leaves nothing behind a checkpoint,
  and has reached exactly the streams drained so far) and `Counted` (each delivery is
  accounted for by a completed or half-completed export, a crash, or the older schema).
  A crash turns a half-completed export into a counted one: the case that needs `Counted` in this form.
* `LoopImplementsExportLog`: from `TypeOK` and `Inv`, a drain is a `Deliver`, an index
  flush a `Record`, every other step a stutter.
* `BatchOnOneBranch` (`OneBranch`), with reorgs at any step. Each hash of a pool is compared with the one before it only, so the inductive form, `Strand`, is about
  the staged blocks and the last one processed together: those of the pool's heights are ancestors of it, without a gap. Whatever is read later builds on
  that last block or ends the pool.
* `NeverLost` (`WalkNeverLost`) and `ChainExported` (`ActiveChainExported`), for `ReorgMode = "between"`; with `"anytime"` both are
  false, the first finding of section 6. Neither is inductive: what a walk-back meets was decided by the checkpoint of an earlier pass.
  `UnbrokenCorrect` is the invariant, and holds in both modes until the loop is overtaken. `Known`: index.csv holds
  the parent of every block it holds, and the block of current.csv, so a path down the tree never leaves it.
  `HalfDone`: before current.csv exists, blocks in blocks.csv that index.csv lacks are those of an interrupted first checkpoint, which
  the seeding takes up; without it a crash between the drain of blocks and the index flush would break the record. `Pass`: what each step of a
  recovery or a pass has established, in particular that a pass extends the record along the active chain (`Extending`).
* `StatusCorrect` (`StatusFollowsChain`), with reorgs at any step: the property speaks of histories in which the loop was not
  overtaken, and so does the invariant, `FlagsCorrect`. `Flags` says of the flags on disk and of those in memory that they are right but for
  blocks the pass in hand has still to write (`Above`), that a recovery has every block that left the chain either in its list or still
  before it (`Walked`), and that what is recorded or staged is `Confirmations` below the tip (`Distant`), so that no reorg orphans a block the walk-back does not pass.
  That last part needs `OldKeptDistance`: the older version left its rows as far below the tip as `reorg_confirmations` asks now. If the setting is raised
  together with the upgrade, the rows above the first new current.csv can be orphaned by a reorg that recovery never passes, and stay unflagged.
  Both runs' instances satisfy it.

`PartSequencer_proofs`: any number of parts, batches and crashes, but `ASSUME ~RenameGap`, i.e. no crash between
`os.replace` and the counter's save (with one, `parts_v_reuse` has a counterexample). `Numbering` is inductive: `Unseen` (no
number above the one in memory has been used), `Settled` (the same of the counter file, whatever a crash takes from
memory) and `Scannable` (of the directories, before there is a counter file). `HandsOffOnce` and `ExportedStays` follow
from it. `NeverLost` needs `RowsAtHand` besides: rows of a returned batch lie under `state_dir` only in the open part, which
is what lets a restart or an orphaned part be discarded.

`StaleBlocks_proofs`: every set of blocks and tip statuses, any number of faults. `TypeCorrect`, `NothingLost`, `ExportedOnce`,
`EntriesOnlyImprove` and `FeedsImplementEventLog`, and `HeaderOnRecord`, which no run checks. None of the properties is inductive. `Inv` adds
`Entries` (an entry in memory knows at least what the one on disk knows, and they agree on what is exported unless a flush is
due) and `Accounted` (what either of them takes for exported is out; an event is out at most once more than crashes have cut
its block off; without such a crash the latest event is the one marked). The case that needs them in this form is
the crash inside `saving`: the entry falls back to the one on disk, and the event that is out becomes one of `cut`'s.

`PriceBackfill_proofs`: any range, batch size, number of kills, interrupts, refused requests and rows of the live poller.
`NeverSkips` (`NothingSkipped`) needs `RunCovers`: whatever a run has passed is in the file or in the batch at hand, and the set of
minutes it skips by holds nothing else. `RowsOnce` (`WrittenOnce`) needs `RunRepeats`, which names the two ways a minute of the
batch can already be in the file. `BatchAtRisk` (`LossBounded`) needs `RunBounded`.

`ApiPoll_proofs`: any number of endpoints, intervals, tokens and retries. `RateBounded` (`RateBound`) speaks of two acquisitions at
any distance; the inductive form is `Budget`, of every acquisition and now: tokens taken since, and the level left, are paid by a full bucket
and the time since. `AlwaysTold` carries `LastRequest`, `FirstThings` and `Spaced`, from which `LateRequests`,
`ExitCodes` and `NeverABurst` follow.

`RpcClient_proofs`: any number of retries, calls and restarts of the node. `AnswersAreOurs` (`AnswerIsOurs`) needs `LinkClean`: a
connection that is kept holds no request and no answer but the one waited for. `RefusalsBounded` needs `Refused`: a refused
request carried a cookie older than the node's, and `auth` counts the cookies read. `Implements`: both transports implement `RpcCall`.

`MempoolWatch_proofs`: any set of transactions and rivals, any scan window and depth, any number of blocks, reorgs, crashes, lost messages
and failed calls. `TypeCorrect` (checked by no run), `RecordHonest` (`RecordMatchesEvents`), `ConfirmedHonest` (`ConfirmedByItsBlock`), `NeverForgotten`
(`NotForgotten`) and `WatchImplementsEventLog` (`ImplementsEventLog`). The invariant `IInv` has three parts. `RecordOK` is about the entries: the property
compares flagged.json with the events between two flushes only, but the next event is chosen by the copy in memory, so `Matches` holds of `store` even while a
flush is due, and `store = flagged` when none is. `NodeOK` says that the chain never gets shorter and that a block keeps what it was mined with (`Unmade` of the blocks to
come); without it a scan could name a block that changes afterwards. `ProcessOK` is about the loop in hand: the subject of a scan is still tracked as in the
mempool, and what is left of a depth check is still confirmed, which is what makes each event one that `Follows` allows. `StepKinds` sorts the
steps by what they do to an entry, once for both action properties.

`BlockRows_proofs`: chains and blocks of any size, any templates, datasets and parser constants. All four properties:

* `InputsJoin` (`InputsJoinOutputs`). The row an input joins was exported blocks before by another call, so the invariant, `Joined`, is about the coins in
  between: each unspent output is told by an output row that is exported or will be with the draft (`CoinsPublished`); what getblock told of the draft's
  inputs agrees with it (`DraftJoins`); no two output rows have one txid and index (`OneRow`), which rests on txids being numbered (`Numbered`).
* `FeesTrue` (`FeesAreTrue`). `Valued`: every transaction of the draft pays what the rows of the coins it spends are worth less its outputs (`Balanced`), and `fees`
  is the sum of what they pay. `Reckoned` carries that over to the exported rows and to each block's `Pays`. The case that matters is
  the derived fee: `PrevoutsComplete` is what makes the sum over the spent outputs the node told of the sum over all of them.
* `AddsUpCorrect` (`BlockAddsUp`). `Summed` says it of every block row; a `Connect` leaves the rows of earlier heights alone (`Below`), so the property
  is about one call of `AggregateBlock`: its counts and sums over sequences, transaction by transaction, are those over the set of
  rows. They are because rows of different places differ, and because a sum over a block is the sum of the sums of its parts.
* `PoolCorrect` (`PoolFromCoinbase`), by cases on the matcher's two searches, for each row with the dataset of its height; it does not assume that pools have tags or addresses
  of their own. `DecodedFinds` says what the first search finds: a tag both encodings write alike wherever it is stamped (`Stamped`), another one only where its Latin-1 bytes
  happen to be (`Misread`).

The lemmas they rest on come first in the module. The library's induction theorems cannot be used, so induction over heights,
places and finite sets is stated for *sets* (`SetInduction`, `LeastNatural`: a set of naturals that is not empty has a least element), each use naming
the set of the arguments the claim holds of. From them: the elements of a flattened sequence, and the algebra of `SumFunction` (split, reindex along a
bijection, sum of parts, a count as a sum).

What stays with TLC: all liveness (`EventuallyExported`, `EventuallyAgrees`, `EventuallyReported`, `EventuallyFilled`,
`EndsAfterStop`), since fairness is stated with ENABLED, which TLAPS does not reach. Every invariant and every other action property of a passing run is a theorem, under the conditions named above.

## 6. What the runs found

* **A reorg in the middle of a sequential pass is not noticed** (`ingest_v_gap`). The loop asks the node for the hash
  of each height and does not compare `previousblockhash` with the block before. The new
  chain's blocks below the height in hand are never exported, and a later walk-back that comes to such a
  block finds no index row and ends the process. The parallel path does compare.
* **A part number can be handed off twice** (`parts_v_reuse`): crash between `os.replace` and the counter's save.
* **A mined transaction can end as `removed`** (`watch_v_removed`): it was evicted and accepted again before a
  reconciliation (the start-up scan takes minutes), which puts it in `checked`, and mined before the queued messages
  are applied. R exports `removed` and forgets it; A is skipped, because the batch was fetched while it was still in `checked`; C
  finds no entry. No message is lost and nothing fails.

Smaller things the models show, which are stated as conditions of the properties that hold:

* A crash behind `block_status.flush()` in the middle of a recovery, and a chain that flips back before the restart, leave an
  active block flagged `canonical=false`: hence `~overtaken` in `StatusFollowsChain`.
* A row of an older schema whose block is orphaned before it is exported again makes every later pass rewind to it; in
  `ingest_between` the blocks of the older schema lie below the fork.
* If `reorg_confirmations` is raised together with the upgrade from schema 1, rows of the older schema may lie above the height the loop resumes at; a reorg that
  orphans them leaves no trace in block_status.csv. The proof of `StatusCorrect` needs them excluded (`OldKeptDistance`).
* A pool tag with characters beyond ASCII is not found where a pool stamps it as UTF-8: `coinbase_hex_to_ascii` reads the bytes as Latin-1. mining_pools.py:59-60 says that "any pool tag
  substring embedded in there still comes through fine". config/pools-v2.json has four such tags (two of F2Pool's, lines 390 and 392, one each of 8baochi and mononaut); their blocks fall through to
  another tag, to an address or to "unknown". `PoolFromCoinbase` says which tags are found; its mutant `DecodedUtf8` is what the comment describes.
* The backfill can write a minute the live poller wrote after the script had read prices.csv, and, after a Ctrl-C between the append of a batch
  and `pending_rows = []`, the batch a second time: the two exceptions of `WrittenOnce`.
* An endpoint whose write fails is polled no more, and nothing but its traceback says so.
* A node that warms up answers a fail-fast call with an `RpcError`.
* A dataset somebody replaces by hand is as fresh as its file: `refresh_if_stale` returns False, and a running rpc-ingest does not load it before the next refresh or restart, while
  ingest.py:560-565 promises the reload for a file fetched "manually or on a scheduler" too. `BlockRows` takes the dataset of a block as given and does not say when it changes.

## 7. Order of work, and what is left

1. `Ingest`, `ExportLog`, `PartSequencer`: checked, with theorems for all their safety properties.
2. `MempoolWatch`, `EventLog`: checked, with theorems for all its safety properties.
3. `StaleBlocks`: checked, with theorems for all its safety properties.
4. `PriceBackfill`, `ApiPoll`, `RpcClient`, `RpcCall`: checked, with theorems for all their safety properties.
5. `BlockParser`, `BlockRows`: checked, with theorems for all their safety properties.
6. The catch-up pool's futures window and its shutdown: not begun.

## 8. Not modelled, and why

Bytes of a CSV line (a torn append is a piece of its own in `PartSequencer`, and one atomic step for index.csv), CSV columns
and formats, logging, YAML loading, HTTP, and everything Splunk does beyond taking and deleting a part. A node that loses
height (a restored snapshot) is outside `NodeMoves`. Of mempool-watch: an error answer of a call other than `getrawtransaction` and
`gettxspendingprevout` (it counts as a failed call), and the one-shot `check_single_tx`, which touches no state. Of stale-blocks-ingest:
the header's fields, heights and sources, and a list that withdraws rows. After a crash has cut a `header_only` event off from
the record, a poll whose `getblockheader` fails exports `unusable` after it, an earlier event rather than the duplicate row stale_blocks.py:41
speaks of; the model has this behaviour and promises nothing of such a block's history. Of the backfill: its spot checks against a second instance,
which only log, and its fixed-interval pacing. Of the RPC client: the chain options it derives host, port and cookie path from, and a configured
user and password (which never go stale). The download of the pools dataset is one request and one atomic replace; what it changes
for a block, the dataset in force, is in `BlockRows`, but not the age of the file that decides when. Of the parser: the rounding of `btc_to_sats` (amounts are satoshis from the start), and a spent output
reported with a value but no height, or the reverse (bitcoind reports both or none). The dashboards'
generators and the Splunk apps write configuration, not data. The catch-up pool's processes appear as what they may have read; its window
of futures only limits memory.
