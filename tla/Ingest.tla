------------------------------- MODULE Ingest -------------------------------
(***************************************************************************)
(* rpc-ingest: the loop that follows a Bitcoin node, exports every block   *)
(* of the active chain once into four CSV streams, and keeps the files it  *)
(* restarts from (btc_parser_app/rpc/ingest.py and rpc/reorg_state.py).    *)
(*                                                                         *)
(* The node is the environment: it may grow or reorganise its chain        *)
(* between any two RPC calls.  The process may crash between any two       *)
(* durable writes, lose its RPC connection at any call, and be asked to    *)
(* stop.  A block stands for its hash: Parent is previousblockhash.        *)
(***************************************************************************)
EXTENDS Integers, FiniteSets

CONSTANTS
  Block, NoBlock,      \* the blocks that can ever exist; "no hash" (None, "")
  Parent, Height,      \* previousblockhash and height of each block
  MaxHeight,           \* bound: the highest tip the node reaches
  InitHeight,          \* the node's tip when the history starts
  OldHeight,           \* blocks 0..OldHeight were exported by schema 1; -1: none
  Confirmations,       \* rpc.reorg_confirmations
  MaxReorgDepth,       \* rpc.max_reorg_depth
  BatchSize,           \* rpc.batch_size
  Workers,             \* rpc.catchup_workers
  PrefetchPerWorker,   \* PREFETCH_PER_WORKER
  ReorgMode,           \* when the node may leave its chain, see MayReorg
  MaxFaults            \* bounds: how often each Fault happens

Streams == {"blocks", "transactions", "inputs", "outputs"}
OldStreams == {"blocks", "transactions"}     \* all that schema 1 exported
Fault == {"crash", "rpc", "stop"}
Status == {"none", "canonical", "detached"}  \* "none": no row in block_status.csv
CURRENT_INDEX_SCHEMA_VERSION == 2

ASSUME ChainAssumption ==
  /\ NoBlock \notin Block
  /\ Height \in [Block -> Nat]
  /\ Parent \in [Block -> Block \union {NoBlock}]
  /\ \A b \in Block : IF Height[b] = 0 THEN Parent[b] = NoBlock
                      ELSE Parent[b] \in Block /\ Height[Parent[b]] = Height[b] - 1
  /\ \A b, c \in Block : Height[b] = 0 /\ Height[c] = 0 => b = c   \* the genesis block

ASSUME ConfigAssumption ==
  /\ MaxHeight \in Nat /\ InitHeight \in 0..MaxHeight /\ OldHeight \in -1..InitHeight
  /\ Confirmations \in Nat /\ MaxReorgDepth \in Nat \ {0} /\ BatchSize \in Nat \ {0}
  /\ Workers \in Nat \ {0} /\ PrefetchPerWorker \in Nat \ {0}
  /\ ReorgMode \in {"between", "anytime"}
  /\ MaxFaults \in [Fault -> Nat]

\* The chains of blocks from height 0 up to height n, for every n or for one.
Chains == UNION {{c \in [0..n -> Block] : /\ \A h \in 0..n : Height[c[h]] = h
                                          /\ \A h \in 1..n : Parent[c[h]] = c[h-1]}
                   : n \in 0..MaxHeight}
ChainsTo(n) == {c \in Chains : DOMAIN c = 0..n}

HeightOf(b) == IF b = NoBlock THEN -1 ELSE Height[b]
AtMost(m, n) == IF m <= n THEN m ELSE n

VARIABLES
  \* the node
  tip, active,         \* getblockcount; getblockhash, as a function of the height
  overtaken,           \* it has left its chain before the loop had caught up with it
  \* files under state_dir and output_dir
  index,               \* index.csv: schema_version of each block, 0 when it has no row
  exports,             \* how often each stream has the rows of each block
  blocksCsv,           \* where blocks.csv has them: "none", "open" or "closed" part
  blockStatus,         \* block_status.csv: "none" (no row), "canonical", "detached"
  current,             \* current.csv
  \* the process
  pc,                  \* the next step of the loop, see Stages
  at,                  \* current_hash, the walk-back's blockhash, then last_hash
  goal,                \* latest_height of this pass
  detached,            \* the walk-back's list of detached blocks
  pending,             \* IndexStore._pending
  buf,                 \* batch_buffers: the blocks staged for the next drain
  memStatus,           \* BlockStatusStore._entries
  allCurrent,          \* IndexStore._all_current
  atomic, processed,   \* atomic_mode; processed modulo batch_size
  parEnd, seen,        \* parallel_end (-1: no pool); what the workers of the open pool can
                       \* have read
  ending,              \* the running checkpoint is the one that ends the pass
  stopping,            \* the stop event
  faults               \* how often each Fault has happened (bounds the model only)

node == <<tip, active, overtaken>>
files == <<index, exports, blocksCsv, blockStatus, current>>
stores == <<pending, memStatus, allCurrent>>
locals == <<at, goal, detached, buf, atomic, processed, parEnd, seen, ending>>
vars == <<node, files, stores, locals, pc, stopping, faults>>

\* A slip this loop could contain.
StageAfterIndexTooEarly ==
  [blocks |-> "transactions", transactions |-> "inputs", inputs |-> "index",
   index |-> "outputs", outputs |-> "status", status |-> "pointer"]

\* A drain writes the four streams in this order; a checkpoint goes on to
\* index.csv, block_status.csv and current.csv.
StageAfter ==
  [blocks |-> "transactions", transactions |-> "inputs", inputs |-> "outputs",
   outputs |-> "index", index |-> "status", status |-> "pointer"]
Stages == DOMAIN StageAfter \union
  {"down", "idle", "check", "live", "walk", "audit", "plan", "loop", "pointer",
   "idlePointer", "idleStatus"}

-----------------------------------------------------------------------------
Init ==
  /\ tip = InitHeight
  /\ active \in ChainsTo(InitHeight)
  /\ overtaken = FALSE
  /\ LET old == {active[h] : h \in 0..OldHeight} IN
       /\ index = [b \in Block |-> IF b \in old THEN 1 ELSE 0]
       /\ exports = [s \in Streams |->
                      [b \in Block |-> IF s \in OldStreams /\ b \in old THEN 1 ELSE 0]]
  /\ blocksCsv = [b \in Block |-> "none"]
  /\ current = IF OldHeight < 0 THEN NoBlock ELSE active[OldHeight]
  /\ blockStatus = [b \in Block |-> "none"]
  /\ memStatus = blockStatus
  /\ pending = {} /\ allCurrent = FALSE
  /\ pc = "idle" /\ at = NoBlock /\ goal = 0 /\ detached = {} /\ buf = {}
  /\ atomic = FALSE /\ processed = 0 /\ parEnd = -1 /\ seen = {} /\ ending = FALSE
  /\ stopping = FALSE
  /\ faults = [f \in Fault |-> 0]

-----------------------------------------------------------------------------
(* The node.  A new chain is always longer than the one it replaces.        *)

Settled == current # NoBlock /\ tip >= Confirmations /\ current = active[tip - Confirmations]
MayReorg == ReorgMode = "anytime" \/ pc \in {"idle", "down"}

NodeMoves ==
  /\ \E n \in tip + 1 .. MaxHeight : \E c \in ChainsTo(n) :
       /\ MayReorg \/ c[tip] = active[tip]
       /\ tip' = n
       /\ active' = c
       /\ overtaken' = (overtaken \/ (c[tip] # active[tip] /\ ~(pc = "idle" /\ Settled)))
       /\ seen' = IF seen # {} THEN seen \union {c[h] : h \in 0..n} ELSE {}
  /\ UNCHANGED <<files, stores, at, goal, detached, buf, atomic, processed,
                 parEnd, ending, pc, stopping, faults>>

\* Splunk's batch input consumes and deletes closed parts.  Nothing reads them
\* back once current.csv exists, so they may as well stay from then on.
SplunkTakes ==
  /\ current = NoBlock
  /\ \E b \in Block : blocksCsv[b] = "closed" /\ blocksCsv' = [blocksCsv EXCEPT ![b] = "none"]
  /\ UNCHANGED <<node, index, exports, blockStatus, current, stores, locals, pc,
                 stopping, faults>>

-----------------------------------------------------------------------------
(* The pass.  Locals go back to their defaults whenever _run_one_pass is    *)
(* left, by returning, by an exception, or because the process dies.        *)

ResetLocals ==
  /\ at' = NoBlock /\ goal' = 0 /\ detached' = {} /\ buf' = {}
  /\ atomic' = FALSE /\ processed' = 0 /\ parEnd' = -1 /\ seen' = {} /\ ending' = FALSE

ProcessDies ==
  /\ pc' = "down"
  /\ ResetLocals
  /\ pending' = {} /\ allCurrent' = FALSE
  /\ memStatus' = blockStatus
  /\ stopping' = FALSE
  /\ UNCHANGED <<node, files>>

Hit(f) == faults[f] < MaxFaults[f] /\ faults' = [faults EXCEPT ![f] = @ + 1]

Crash == pc # "down" /\ Hit("crash") /\ ProcessDies

\* SIGTERM only sets an event; run_rpc_ingest and the height loop look at it.
Stop ==
  /\ pc # "down" /\ ~stopping
  /\ Hit("stop")
  /\ stopping' = TRUE
  /\ UNCHANGED <<node, files, stores, locals, pc>>

Exit == pc = "idle" /\ stopping /\ ProcessDies /\ UNCHANGED faults

\* The constructors read index.csv and block_status.csv back.
Restart ==
  /\ pc = "down"
  /\ pc' = "idle"
  /\ UNCHANGED <<node, files, stores, locals, stopping, faults>>

\* index.discard_pending(), for the rows a pass staged and never drained.
KeepPending == pending                                       \* slip: it is not called
DiscardPending == {}

\* A call still failing after run_cli's retries: RpcCliError leaves the pass.
RpcFails ==
  /\ pc \in {"check", "live", "walk", "audit", "loop"}
  /\ Hit("rpc")
  /\ pending' = DiscardPending
  /\ ResetLocals
  /\ pc' = "idle"
  /\ UNCHANGED <<node, files, memStatus, allCurrent, stopping>>

BeginPass ==
  /\ pc = "idle" /\ ~stopping
  /\ tip >= Confirmations
  /\ goal' = tip - Confirmations
  /\ pc' = "check"
  /\ UNCHANGED <<node, files, stores, at, detached, buf, atomic, processed, parEnd,
                 seen, ending, stopping, faults>>

HeightIsActive(b) == Height[b] <= tip                         \* slip: no hash compared
OnActiveChain(b) == active[Height[b]] = b

ReadCurrent ==
  /\ pc = "check" /\ current # NoBlock
  /\ at' = current
  /\ pc' = "live"
  /\ UNCHANGED <<node, files, stores, goal, detached, buf, atomic, processed, parEnd,
                 seen, ending, stopping, faults>>

\* seed_index_from_blocks_csv: the rows of blocks.csv still on disk become
\* schema 1 rows of the index.
SeedFromBlocksCsv ==
  /\ pc = "check" /\ current = NoBlock
  /\ LET found == {b \in Block : blocksCsv[b] # "none"} IN
       /\ index' = [b \in Block |-> IF b \in found /\ index[b] = 0 THEN 1 ELSE index[b]]
       /\ IF found = {}
          THEN at' = NoBlock /\ pc' = "plan"
          ELSE /\ at' \in {b \in found : \A c \in found : Height[c] <= Height[b]}
               /\ pc' = "live"
  /\ UNCHANGED <<node, exports, blocksCsv, blockStatus, current, stores, goal, detached, buf,
                 atomic, processed, parEnd, seen, ending, stopping, faults>>

\* The node's hash at that height decides between going on and a reorg.
CheckLiveHash ==
  /\ pc = "live"
  /\ pc' = IF OnActiveChain(at) THEN "plan" ELSE "walk"
  /\ UNCHANGED <<node, files, stores, locals, stopping, faults>>

-----------------------------------------------------------------------------
(* _recover_from_reorg                                                     *)

CanStepBack ==
  /\ Cardinality(detached) < MaxReorgDepth
  /\ index[at] # 0
  /\ Height[at] > 0

SetCanonical(status, S) == [b \in Block |-> IF b \in S THEN "detached" ELSE status[b]]
LeaveDetached(status, b) == status                            \* slip: no flip back
SetCanonicalIfPresent(status, b) ==
  IF status[b] = "none" THEN status ELSE [status EXCEPT ![b] = "canonical"]

WalkBack ==
  /\ pc = "walk" /\ CanStepBack
  /\ detached' = detached \union {at}
  /\ at' = Parent[at]
  /\ IF OnActiveChain(Parent[at])
     THEN pc' = "audit" /\ memStatus' = SetCanonical(memStatus, detached')
     ELSE UNCHANGED <<pc, memStatus>>
  /\ UNCHANGED <<node, files, pending, allCurrent, goal, buf, atomic, processed,
                 parEnd, seen, ending, stopping, faults>>

\* The RuntimeErrors of the walk-back are not caught: the process ends.
WalkBackFails == pc = "walk" /\ ~CanStepBack /\ ProcessDies /\ UNCHANGED faults

\* After the audit's own RPC call: block_status.flush(), then the reorg log.
FlushDetached ==
  /\ pc = "audit"
  /\ blockStatus' = memStatus
  /\ pc' = "plan"
  /\ UNCHANGED <<node, index, exports, blocksCsv, current, stores, locals, stopping, faults>>

-----------------------------------------------------------------------------
(* The schema rewind, the mode of the pass, and the height loop            *)

Stale == IF allCurrent THEN {} ELSE {b \in Block : index[b] = 1}
EarliestStale == {b \in Stale : \A c \in Stale : Height[b] <= Height[c]}

\* Where the loop starts: the checked block, or below the earliest stale row.
RewoundToStale ==                                             \* slip: one block short
  IF \E b \in EarliestStale : Height[b] - 1 < HeightOf(at) THEN EarliestStale ELSE {at}
Rewound ==
  IF \E b \in EarliestStale : Height[b] - 1 < HeightOf(at)
  THEN {Parent[b] : b \in EarliestStale} ELSE {at}

AtomicMode(start) == goal - HeightOf(start) <= (IF Confirmations > 1 THEN Confirmations ELSE 1)

\* parallel_end when the pass starts the worker pool, -1 when it does not.
ParallelEnd(start) ==
  LET end == AtMost(goal, goal + Confirmations - MaxReorgDepth) IN
  IF Workers > 1 /\ ~AtomicMode(start) /\ end - HeightOf(start) > PrefetchPerWorker * Workers
  THEN end ELSE -1

PlanPass ==
  /\ pc = "plan"
  /\ allCurrent' = (Stale = {})
  /\ \E start \in Rewound :
       /\ at' = start
       /\ IF HeightOf(start) >= goal
          THEN pc' = "idlePointer" /\ UNCHANGED <<atomic, parEnd, seen>>
          ELSE /\ pc' = "loop"
               /\ atomic' = AtomicMode(start)
               /\ parEnd' = ParallelEnd(start)
               /\ seen' = IF parEnd' >= 0 THEN {active[h] : h \in 0..tip} ELSE {}
  /\ UNCHANGED <<node, files, pending, memStatus, goal, detached, buf, processed,
                 ending, stopping, faults>>

\* Nothing to parse: the pointer is rewritten before block_status is flushed.
IdlePointer ==
  /\ pc = "idlePointer"
  /\ current' = at
  /\ pc' = "idleStatus"
  /\ UNCHANGED <<node, index, exports, blocksCsv, blockStatus, stores, locals, stopping, faults>>

IdleStatus ==
  /\ pc = "idleStatus"
  /\ blockStatus' = memStatus
  /\ ResetLocals
  /\ pc' = "idle"
  /\ UNCHANGED <<node, index, exports, blocksCsv, current, stores, stopping, faults>>

NeedsExportAgain(b) == b \notin pending                       \* slip: index not asked
NeedsFirstExport(b) == index[b] = 0 /\ b \notin pending       \* slip: schema not asked
NeedsExport(b) ==
  IF index[b] # 0 THEN index[b] < CURRENT_INDEX_SCHEMA_VERSION ELSE b \notin pending

MoreHeightsOverrun == ~stopping /\ HeightOf(at) <= goal       \* slip: one block too far
MoreHeights == ~stopping /\ HeightOf(at) < goal
NextHeight == HeightOf(at) + 1

\* _process_height and _process_prefetched once they know the block.
ProcessBlock(b) ==
  /\ IF NeedsExport(b)
     THEN buf' = buf \union {b} /\ pending' = pending \union {b}
     ELSE UNCHANGED <<buf, pending>>
  /\ memStatus' = SetCanonicalIfPresent(memStatus, b)
  /\ at' = b
  /\ processed' = (processed + 1) % BatchSize
  /\ pc' = IF atomic \/ processed' = 0 THEN "blocks" ELSE "loop"
  /\ UNCHANGED <<node, files, allCurrent, goal, detached, atomic, ending, stopping, faults>>

\* Sequential: the hash the node gives for the height now, whatever it builds on.
ProcessHeight ==
  /\ pc = "loop" /\ MoreHeights /\ NextHeight > parEnd
  /\ ProcessBlock(active[NextHeight])
  /\ UNCHANGED <<parEnd, seen>>

BuildsOnAny(b, start) == b # start                           \* slip: no parent compared
BuildsOn(b, start) == start = NoBlock \/ Parent[b] = start

\* Parallel: a hash some worker read earlier in the pass, if it builds on the last one.
ProcessPrefetched ==
  /\ pc = "loop" /\ MoreHeights /\ NextHeight <= parEnd
  /\ \E b \in seen :
       /\ Height[b] = NextHeight
       /\ BuildsOn(b, at)
       /\ ProcessBlock(b)
  /\ seen' = IF NextHeight = parEnd THEN {} ELSE seen
  /\ UNCHANGED parEnd

BeginEnd ==
  /\ ending' = TRUE
  /\ pc' = "blocks"
  /\ seen' = {}
  /\ UNCHANGED <<node, files, stores, at, goal, detached, buf, atomic, processed,
                 parEnd, stopping, faults>>

EndPass == pc = "loop" /\ ~MoreHeights /\ BeginEnd

PrefetchedMismatch ==
  /\ pc = "loop" /\ MoreHeights /\ NextHeight <= parEnd
  /\ \E b \in seen : Height[b] = NextHeight /\ ~BuildsOn(b, at)
  /\ BeginEnd

-----------------------------------------------------------------------------
(* The checkpoint: _drain, index.flush, block_status.flush, write_pointer  *)

\* A batch joins the open part; a block of its own goes out closed, and
\* closes the open part before it.
PlaceRows ==
  [b \in Block |-> IF b \in buf THEN (IF atomic THEN "closed" ELSE "open")
                   ELSE IF atomic /\ blocksCsv[b] = "open" THEN "closed"
                   ELSE blocksCsv[b]]

Drain(s) ==
  /\ pc = s
  /\ exports' = [exports EXCEPT ![s] =
                   [b \in Block |-> IF b \in buf THEN @[b] + 1 ELSE @[b]]]
  /\ blocksCsv' = IF s = "blocks" /\ buf # {} THEN PlaceRows ELSE blocksCsv
  /\ buf' = IF s = "outputs" THEN {} ELSE buf
  /\ pc' = StageAfter[s]
  /\ UNCHANGED <<node, index, blockStatus, current, stores, at, goal, detached, atomic,
                 processed, parEnd, seen, ending, stopping, faults>>

FlushIndex ==
  /\ pc = "index"
  /\ index' = [b \in Block |-> IF b \in pending THEN CURRENT_INDEX_SCHEMA_VERSION
                               ELSE index[b]]
  /\ pending' = {}
  /\ pc' = StageAfter[pc]
  /\ UNCHANGED <<node, exports, blocksCsv, blockStatus, current, memStatus, allCurrent, locals,
                 stopping, faults>>

FlushStatus ==
  /\ pc = "status"
  /\ blockStatus' = memStatus
  /\ pc' = StageAfter[pc]
  /\ UNCHANGED <<node, index, exports, blocksCsv, current, stores, locals, stopping, faults>>

LatestHash == active[goal]                                    \* slip: where the pass headed
LastHash == IF at = NoBlock THEN current ELSE at

WritePointer ==
  /\ pc = "pointer"
  /\ current' = LastHash
  /\ IF ending
     THEN pc' = "idle" /\ ResetLocals
     ELSE pc' = "loop" /\ UNCHANGED locals
  /\ UNCHANGED <<node, index, exports, blocksCsv, blockStatus, stores, stopping, faults>>

-----------------------------------------------------------------------------
Process ==
  \/ Exit \/ Restart
  \/ BeginPass \/ ReadCurrent \/ SeedFromBlocksCsv \/ CheckLiveHash
  \/ WalkBack \/ WalkBackFails \/ FlushDetached
  \/ PlanPass \/ IdlePointer \/ IdleStatus
  \/ ProcessHeight \/ ProcessPrefetched \/ EndPass \/ PrefetchedMismatch
  \/ (\E s \in Streams : Drain(s)) \/ FlushIndex \/ FlushStatus \/ WritePointer

Next == NodeMoves \/ SplunkTakes \/ Crash \/ Stop \/ RpcFails \/ Process

Spec == Init /\ [][Next]_vars

\* The loop never waits for anything but its own steps, and systemd or the
\* operator starts a process that ended; the node and the faults owe nothing.
FairSpec == Spec /\ WF_vars(Process)

-----------------------------------------------------------------------------
(* What the loop promises.                                                 *)

CheckpointStages == DOMAIN StageAfter \union {"pointer"}

\* Every variable has its type; latest_height keeps its distance from the
\* node's tip, the loop never goes above it, and a walk-back stands on a block.
TypeOK ==
  /\ tip \in 0..MaxHeight /\ active \in ChainsTo(tip) /\ overtaken \in BOOLEAN
  /\ index \in [Block -> 0..CURRENT_INDEX_SCHEMA_VERSION]
  /\ exports \in [Streams -> [Block -> Nat]]
  /\ blocksCsv \in [Block -> {"none", "open", "closed"}]
  /\ blockStatus \in [Block -> Status] /\ memStatus \in [Block -> Status]
  /\ current \in Block \union {NoBlock} /\ at \in Block \union {NoBlock}
  /\ pc \in Stages
  /\ goal \in 0..MaxHeight /\ parEnd \in -1..MaxHeight
  /\ detached \subseteq Block /\ pending \subseteq Block /\ buf \subseteq Block
  /\ seen \subseteq Block
  /\ processed \in 0..BatchSize - 1
  /\ allCurrent \in BOOLEAN /\ atomic \in BOOLEAN
  /\ ending \in BOOLEAN /\ stopping \in BOOLEAN
  /\ faults \in [Fault -> Nat]
  /\ pc \notin {"idle", "down"} => goal + Confirmations <= tip
  /\ pc \in {"loop"} \union CheckpointStages => HeightOf(at) <= goal
  /\ pc \in {"live", "walk", "audit"} => at \in Block

\* index.csv never claims a block before its rows are durable in all four
\* streams, at whatever step the process crashes, loses the node, or stops
\* (IndexStore, reorg_state.py:104-108).
IndexImpliesExported ==
  \A b \in Block : index[b] = CURRENT_INDEX_SCHEMA_VERSION =>
                     \A s \in Streams : exports[s][b] > 0

\* A block's rows are handed out once, plus once per crash, plus once for
\* the streams schema 1 had already written: a flip-flop of the chain, an RPC
\* failure or a stop never duplicates a row (ingest.py:46-49, 581-591).
DuplicatesBounded ==
  \A s \in Streams, b \in Block :
    exports[s][b] <= 1 + faults["crash"] +
                     (IF s \in OldStreams /\ Height[b] <= OldHeight THEN 1 ELSE 0)

\* "Don't export anything built on it" (ingest.py:437-444): however late a worker
\* reads its height and whatever the node has moved to by then, the blocks of a
\* batch the pool has read lie on one chain.
OneBranch ==
  \E chain \in Chains : \A b \in pending :
    Height[b] <= parEnd => Height[b] \in DOMAIN chain /\ chain[Height[b]] = b

\* The record of exported blocks has no hole: whatever is indexed, so is the
\* block it builds on.  Hence the walk-back never reaches a block it has no
\* record of, the RuntimeError that keeps the service down until somebody
\* repairs the state by hand (ingest.py:210-223).
WalkNeverLost ==
  /\ \A b \in Block : index[b] # 0 /\ Height[b] > 0 => index[Parent[b]] # 0
  /\ pc = "walk" => index[at] # 0 /\ Height[at] > 0

\* Whenever the loop has caught up, every block of the active chain up to
\* current.csv is on record as exported.
ActiveChainExported ==
  pc = "idle" /\ Settled => \A h \in 0..Height[current] : index[active[h]] # 0

\* block_status.csv answers "is this block canonical now" (reorg_state.py:23),
\* through crashes and flip-flops, as long as the chain is only replaced when the
\* loop has caught up: of the exported blocks exactly those off the active chain
\* are flagged canonical=false.  (A chain that flips back while the loop is
\* between the walk-back's flush and the pointer leaves one wrongly flagged.)
StatusFollowsChain ==
  pc = "idle" /\ Settled /\ ~overtaken =>
    /\ \A h \in 0..Height[current] : blockStatus[active[h]] # "detached"
    /\ \A b \in Block : index[b] # 0 /\ ~OnActiveChain(b) => blockStatus[b] = "detached"

\* However the faults fall, the active chain ends up exported in full, and every
\* row of an older schema is picked back up (earliest_stale, reorg_state.py:173-180).
EventuallyExported ==
  <>[](/\ \A h \in 0..tip - Confirmations : index[active[h]] = CURRENT_INDEX_SCHEMA_VERSION
       /\ \A b \in Block : index[b] # 1)

\* The loop implements the promise ExportLog makes: a block whose row has the
\* current schema is on record, and so are its deliveries.
Log == INSTANCE ExportLog WITH delivered <- exports,
                               recorded <- {b \in Block : index[b] = CURRENT_INDEX_SCHEMA_VERSION}
ImplementsExportLog == Log!Spec

=============================================================================
