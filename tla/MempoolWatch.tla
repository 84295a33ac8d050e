---------------------------- MODULE MempoolWatch ----------------------------
(***************************************************************************)
(* mempool-watch: one event per state change of every transaction that     *)
(* touches a listed address (rpc/mempool_watch.py, mempool_watch_state.py, *)
(* zmq_sequence.py, and the reload of sanctions_list.py).                  *)
(*                                                                         *)
(* The node tells what happens over ZMQ, in order but possibly with        *)
(* losses, and answers RPC calls with what is true now.  The process       *)
(* applies the messages late and, from time to time, reconciles its record *)
(* with the node's mempool.  A transaction can be fetched while it is in   *)
(* the mempool, or from its block (the node has no -txindex).              *)
(***************************************************************************)
EXTENDS Integers, Sequences, SequencesExt

CONSTANTS
  Tx, NoTx,            \* the transactions; none of them
  Rivals,              \* the pairs of them that spend the same input
  Listed,              \* those that touch a listed address, at first
  ScanBlocks,          \* mempool_watch.max_confirmation_scan_blocks
  ForgetAfter,         \* mempool_watch.forget_after_confirmations
  DirectlyMined,       \* what a block may hold though this mempool never had it
  MaxBlocks,           \* bound: blocks ever mined
  MaxReorg,            \* bound: blocks a reorg disconnects
  MaxMoves,            \* bound: moves of the node and edits of the list
  MaxFaults            \* bound: crashes, stops, failed RPC calls, lost messages

ASSUME WatchAssumption ==
  /\ IsFiniteSet(Tx) /\ NoTx \notin Tx /\ Rivals \subseteq {{t, u} : t, u \in Tx} /\ Listed \subseteq Tx
  /\ ScanBlocks \in Nat \ {0} /\ ForgetAfter \in Nat \ {0}
  /\ DirectlyMined \subseteq Tx
  /\ MaxBlocks \in Nat \ {0} /\ {MaxReorg, MaxMoves, MaxFaults} \subseteq Nat

Blocks == 1..MaxBlocks               \* in the order they are mined
NoBlock == 0
Rival(t) == {u \in Tx \ {t} : {t, u} \in Rivals}
Events == {"seen", "confirmed", "unconfirmed", "replaced", "removed"}
Untracked == [status |-> "untracked", block |-> NoBlock, since |-> 0]

VARIABLES
  \* the node and the list on disk
  mempool, chain,      \* getrawmempool; the active chain, from height 0
  body, made,          \* what each block contains, at which height; how many exist
  queue, dropped,      \* the ZMQ messages under way; one was lost since the last
  listFile, listState, \* what the list matches; newer than what is loaded, or broken
  subscribed,          \* zmq_endpoint is set; if not, the watcher only polls
  \* output_dir and state_dir
  last,                \* the latest event exported for each transaction
  flagged,             \* flagged.json
  \* the process
  pc,                  \* its next step, see Stages
  known,               \* SanctionsList._entries, as the transactions it matches
  store,               \* FlaggedTxStore._entries
  dirty,               \* an event is exported or an entry changed, flush() is due
  checked, unfetched, tipHeight,       \* MempoolWatcher's own fields
  heard, gap,          \* a message counter is known; gap_detected
  due,                 \* reconcile_due
  batch, fetched,      \* the events in hand; _fetch_many's answers for them
  snapshot, todo,      \* reconcile's mempool; what the loop in hand still has to do
  subject, scan, cache,                \* _find_confirming_block
  stopping,
  \* bookkeeping of the model
  doubtful, moves, faults

node == <<mempool, chain, body, made, queue, dropped, listFile, listState, subscribed>>
zmq == <<heard, gap>>
memory == <<known, checked, unfetched, tipHeight, zmq, due>>
locals == <<batch, fetched, snapshot, todo, subject, scan, cache>>
record == <<last, flagged, store, dirty>>
counts == <<doubtful, moves, faults>>
vars == <<node, record, pc, memory, locals, stopping, counts>>

TxsOf(b) == body[b].txs
HeightOf(b) == body[b].height
OnChain(b) == b \in ToSet(chain)
Confirmations(b) == IF OnChain(b) THEN Len(chain) - HeightOf(b) ELSE -1
MinedIn(c) == UNION {TxsOf(c[i]) : i \in DOMAIN c}
Tracked(status) == {t \in Tx : store[t].status = status}
Stages == {"down", "idle", "tip", "recheck", "scan", "leaving", "depth", "receive", "fetch",
           "apply", "connect", "end"}

LocalsAtRest ==
  /\ batch = <<>> /\ fetched = [t \in Tx |-> "no"] /\ snapshot = {} /\ todo = {}
  /\ subject = NoTx /\ scan = 0 /\ cache = <<>>

Init ==
  /\ mempool \in {S \in SUBSET Tx : \A t \in S : Rival(t) \intersect S = {}}
  /\ chain = <<1>> /\ made = 1 /\ body = [b \in Blocks |-> [txs |-> {}, height |-> 0]]
  /\ queue = <<>> /\ dropped = FALSE
  /\ listFile = Listed /\ listState = "loaded" /\ subscribed \in BOOLEAN
  /\ last = [t \in Tx |-> "none"]
  /\ flagged = [t \in Tx |-> Untracked] /\ store = flagged /\ dirty = FALSE
  /\ pc = "idle" /\ known = Listed
  /\ checked = {} /\ unfetched = {} /\ tipHeight = 0
  /\ heard = FALSE /\ gap = FALSE /\ due = TRUE
  /\ LocalsAtRest
  /\ stopping = FALSE
  /\ doubtful = {} /\ moves = 0 /\ faults = 0

-----------------------------------------------------------------------------
(* The node.                                                               *)

Message(label, x) == [label |-> label, of |-> x, gap |-> FALSE]
Messages(label, S) == SetToSeq({Message(label, x) : x \in S})

\* A subscriber that is down gets nothing, nor does one that only polls.
Publish(ms) ==
  IF pc = "down" \/ ~subscribed \/ ms = <<>> THEN UNCHANGED <<queue, dropped>>
  ELSE /\ queue' = queue \o [ms EXCEPT ![1].gap = dropped]
       /\ dropped' = FALSE

Moves ==
  /\ moves < MaxMoves
  /\ moves' = moves + 1
  /\ UNCHANGED <<record, pc, memory, locals, stopping, doubtful, faults>>

\* A transaction enters the mempool and replaces its rivals there.
Enter(t) ==
  /\ Moves
  /\ t \notin mempool
  /\ ({t} \union Rival(t)) \intersect MinedIn(chain) = {}
  /\ mempool' = (mempool \ Rival(t)) \union {t}
  /\ Publish(Messages("R", mempool \intersect Rival(t)) \o <<Message("A", t)>>)
  /\ UNCHANGED <<chain, body, made, listFile, listState, subscribed>>

Evict(t) ==
  /\ Moves
  /\ t \in mempool
  /\ mempool' = mempool \ {t}
  /\ Publish(<<Message("R", t)>>)
  /\ UNCHANGED <<chain, body, made, listFile, listState, subscribed>>

\* The chain grows by a block, or k blocks give way to k + 1.
Connect(k, content) ==
  LET kept == SubSeq(chain, 1, Len(chain) - k)
      off == SubSeq(chain, Len(chain) - k + 1, Len(chain))
      on == [i \in 1..k+1 |-> made + i]
      mined == MinedIn(kept) \union UNION {content[i] : i \in 1..k+1}
      beaten == UNION {Rival(t) : t \in mined}
      back == MinedIn(off) \ (mined \union beaten)
  IN /\ Moves
     /\ k < Len(chain) /\ made + k + 1 <= MaxBlocks
     /\ \A i \in 1..k+1 : content[i] \intersect MinedIn(kept) = {}
     /\ \A i, j \in 1..k+1 : i # j => content[i] \intersect content[j] = {}
     /\ mined \intersect beaten = {}
     /\ \A i \in 1..k+1 : content[i] \subseteq mempool \union MinedIn(off) \union DirectlyMined
     /\ chain' = kept \o on
     /\ made' = made + k + 1
     /\ body' = [b \in Blocks |-> IF b \in ToSet(on)
                                THEN [txs |-> content[b - made], height |-> Len(kept) + b - made - 1]
                                ELSE body[b]]
     /\ mempool' = (mempool \ (mined \union beaten)) \union back
     /\ Publish([i \in 1..k |-> Message("D", off[k + 1 - i])]
                \o Messages("R", mempool \intersect beaten) \o Messages("A", back)
                \o [i \in 1..k+1 |-> Message("C", on[i])])
     /\ UNCHANGED <<listFile, listState, subscribed>>

\* An address of a transaction is put on the list, or taken off it.
EditList(t) ==
  /\ listFile' = SymDiff(listFile, {t}) /\ listState' = "edited"
  /\ Moves /\ UNCHANGED <<mempool, chain, body, made, queue, dropped, subscribed>>

\* An edit the loader refuses (no address column, an unreadable file).  To mend
\* it is not a move of the bound.
BreakList ==
  /\ listState # "broken" /\ listState' = "broken"
  /\ Moves /\ UNCHANGED <<mempool, chain, body, made, queue, dropped, listFile, subscribed>>

MendList ==
  /\ listState = "broken" /\ listState' = "edited"
  /\ UNCHANGED <<mempool, chain, body, made, queue, dropped, listFile, subscribed, record, pc, memory,
                 locals, stopping, counts>>

NodeMoves ==
  \/ \E t \in Tx : Enter(t) \/ Evict(t) \/ EditList(t)
  \/ BreakList \/ MendList
  \/ \E k \in 0..MaxReorg : \E content \in [1..k+1 -> SUBSET Tx] : Connect(k, content)

Hit == faults < MaxFaults /\ faults' = faults + 1

\* A message is lost; the counter of the next one shows it.
Lose(i) ==
  /\ Hit
  /\ LET rest == RemoveAt(queue, i) IN
       IF i = Len(queue) THEN queue' = rest /\ dropped' = TRUE
       ELSE queue' = [rest EXCEPT ![i].gap = TRUE] /\ UNCHANGED dropped
  /\ UNCHANGED <<mempool, chain, body, made, listFile, listState, subscribed, record, pc, memory,
                 locals, stopping, doubtful, moves>>

-----------------------------------------------------------------------------
(* Starting and stopping.                                                  *)

LocalsReset ==
  /\ batch' = <<>> /\ fetched' = [t \in Tx |-> "no"] /\ snapshot' = {} /\ todo' = {}
  /\ subject' = NoTx /\ scan' = 0 /\ cache' = <<>>

ProcessDies ==
  /\ pc' = "down"
  /\ queue' = <<>> /\ dropped' = FALSE
  /\ known' = {} /\ store' = flagged /\ dirty' = FALSE
  /\ checked' = {} /\ unfetched' = {} /\ tipHeight' = 0
  /\ heard' = FALSE /\ gap' = FALSE /\ due' = TRUE
  /\ LocalsReset
  /\ stopping' = FALSE
  /\ doubtful' = doubtful \union {t \in Tx : store[t] # flagged[t]}
  /\ UNCHANGED <<mempool, chain, body, made, listFile, listState, subscribed, last, flagged, moves>>

Crash == pc # "down" /\ Hit /\ ProcessDies

Stop ==
  /\ pc # "down" /\ ~stopping
  /\ Hit
  /\ stopping' = TRUE
  /\ UNCHANGED <<node, record, pc, memory, locals, doubtful, moves>>

Exit == pc = "idle" /\ stopping /\ ProcessDies /\ UNCHANGED faults

\* The process does not start with a list it cannot load.
Restart ==
  /\ pc = "down" /\ listState # "broken"
  /\ pc' = "idle" /\ known' = listFile /\ listState' = "loaded"
  /\ UNCHANGED <<mempool, chain, body, made, queue, dropped, listFile, subscribed, record, checked,
                 unfetched, tipHeight, zmq, due, locals, stopping, counts>>

-----------------------------------------------------------------------------
(* Entries: an event is exported, then flagged.json is rewritten.          *)

Track(t, event, entry) ==
  /\ last' = [last EXCEPT ![t] = event]
  /\ store' = [store EXCEPT ![t] = entry]
  /\ dirty' = TRUE
  /\ UNCHANGED flagged

Flush ==
  /\ dirty
  /\ flagged' = store
  /\ dirty' = FALSE
  /\ UNCHANGED <<node, last, store, pc, memory, locals, stopping, counts>>

ReportedAgain(t) == FALSE                     \* slip: a tracked one is reported again
AlreadyTracked(t) == store[t].status # "untracked"

OnAdded(t) ==
  /\ checked' = checked \union {t}
  /\ IF t \in known /\ ~AlreadyTracked(t)
     THEN Track(t, "seen", [status |-> "mempool", block |-> NoBlock, since |-> tipHeight])
     ELSE UNCHANGED record

\* Slips: the entry stays one of the mempool; the block is taken to be the tip.
ExportConfirmed(t, b) == Track(t, "confirmed", [store[t] EXCEPT !.block = b])
ConfirmedAtTip(t, b) ==
  Track(t, "confirmed", [store[t] EXCEPT !.status = "confirmed", !.block = Last(chain)])
MarkConfirmed(t, b) ==
  Track(t, "confirmed", [store[t] EXCEPT !.status = "confirmed", !.block = b])

\* Where a helper called by a handler or by reconcile goes on.
AfterEvent ==
  /\ batch' = Tail(batch)
  /\ IF Len(batch) > 1 THEN pc' = "apply" /\ UNCHANGED fetched
     ELSE pc' = "end" /\ fetched' = [t \in Tx |-> "no"]

LowestScanned == Max({store[subject].since, tipHeight - ScanBlocks + 1, 0})
NotInBlocks == pc = "scan" /\ scan < LowestScanned

\* An error answer to gettxspendingprevout says as much as that nobody spends it.
OnLeftUnmined(answered) ==
  /\ pc = "leaving" \/ NotInBlocks
  /\ Track(subject,
           IF answered /\ mempool \intersect Rival(subject) # {} THEN "replaced" ELSE "removed",
           Untracked)
  /\ subject' = NoTx /\ scan' = 0
  /\ IF batch = <<>> THEN pc' = "recheck" /\ UNCHANGED <<batch, fetched>> ELSE AfterEvent
  /\ UNCHANGED <<node, memory, snapshot, todo, cache, stopping, counts>>

\* _check_confirmed_depth, one entry after the other.
DeepAtOnce(b) == Confirmations(b) >= 1        \* slip: any confirmation will do
DeepEnough(b) == Confirmations(b) >= ForgetAfter

CheckDepth(t) ==
  /\ pc = "depth" /\ ~dirty /\ t \in todo
  /\ LET b == store[t].block IN
       IF ~OnChain(b)
       THEN Track(t, "unconfirmed", [store[t] EXCEPT !.status = "mempool", !.block = NoBlock])
       ELSE IF DeepEnough(b)
       THEN store' = [store EXCEPT ![t] = Untracked] /\ dirty' = TRUE /\ UNCHANGED <<last, flagged>>
       ELSE UNCHANGED record
  /\ todo' = todo \ {t}
  /\ UNCHANGED <<node, pc, memory, batch, fetched, snapshot, subject, scan, cache, stopping, counts>>

DepthChecked ==
  /\ pc = "depth" /\ ~dirty /\ todo = {}
  /\ IF batch = <<>>
     THEN pc' = "receive" /\ due' = FALSE /\ UNCHANGED <<batch, fetched>>
     ELSE AfterEvent /\ UNCHANGED due
  /\ snapshot' = {} /\ cache' = <<>>
  /\ UNCHANGED <<node, record, known, checked, unfetched, tipHeight, zmq, todo, subject, scan,
                 stopping, counts>>

-----------------------------------------------------------------------------
(* reconcile: the mempool and the tip are read, then compared.             *)

BeginReconcile ==
  /\ pc = "idle" /\ ~stopping /\ due
  /\ snapshot' = mempool
  /\ pc' = "tip"
  /\ UNCHANGED <<node, record, memory, batch, fetched, todo, subject, scan, cache, stopping, counts>>

StillChecked == checked \intersect snapshot

ReadTip ==
  /\ pc = "tip"
  /\ tipHeight' = Len(chain) - 1
  /\ todo' = snapshot \ checked
  /\ checked' = StillChecked
  /\ pc' = "recheck"
  /\ UNCHANGED <<node, record, known, unfetched, zmq, due, batch, fetched, snapshot, subject, scan,
                 cache, stopping, counts>>

Recheck(t) ==
  /\ pc = "recheck" /\ ~dirty /\ t \in todo
  /\ todo' = todo \ {t}
  /\ IF t \in mempool THEN OnAdded(t) ELSE UNCHANGED <<checked, record>>
  /\ UNCHANGED <<node, pc, known, unfetched, tipHeight, zmq, due, batch, fetched, snapshot, subject,
                 scan, cache, stopping, counts>>

\* A stop is honoured between two chunks; the pass then counts as done.
StopReconcile ==
  /\ pc = "recheck" /\ ~dirty /\ todo # {} /\ stopping
  /\ pc' = "receive" /\ due' = FALSE
  /\ LocalsReset
  /\ UNCHANGED <<node, record, known, checked, unfetched, tipHeight, zmq, stopping, counts>>

\* Tracked transactions the snapshot does not have: mined, or gone.
Rechecked == pc = "recheck" /\ ~dirty /\ todo = {}
Gone == Tracked("mempool") \ snapshot

FindGone(t) ==
  /\ Rechecked /\ t \in Gone
  /\ subject' = t
  /\ scan' = tipHeight
  /\ pc' = "scan"
  /\ UNCHANGED <<node, record, memory, batch, fetched, snapshot, todo, cache, stopping, counts>>

\* _find_confirming_block: one height per step, from the tip down; cache keeps
\* the block of every height this pass has looked at.
CachedAt(h) == {b \in Blocks : \E i \in DOMAIN cache : cache[i] = <<h, b>>}

ScanBlock ==
  /\ pc = "scan" /\ scan >= LowestScanned
  /\ LET b == IF CachedAt(scan) # {} THEN CHOOSE x \in CachedAt(scan) : TRUE
              ELSE chain[scan + 1] IN
       /\ cache' = IF CachedAt(scan) # {} THEN cache ELSE Append(cache, <<scan, b>>)
       /\ IF subject \in TxsOf(b)
          THEN MarkConfirmed(subject, b) /\ subject' = NoTx /\ scan' = 0 /\ pc' = "recheck"
          ELSE scan' = scan - 1 /\ UNCHANGED <<record, subject, pc>>
  /\ UNCHANGED <<node, memory, batch, fetched, snapshot, todo, stopping, counts>>

GoneHandled ==
  /\ Rechecked /\ Gone = {}
  /\ todo' = Tracked("confirmed")
  /\ pc' = "depth"
  /\ UNCHANGED <<node, record, memory, batch, fetched, snapshot, subject, scan, cache, stopping, counts>>

Reconcile ==
  \/ BeginReconcile \/ ReadTip \/ StopReconcile \/ ScanBlock \/ GoneHandled
  \/ \E t \in Tx : Recheck(t) \/ FindGone(t)

-----------------------------------------------------------------------------
(* The other half of an iteration: handle_events, and the loop's tail.     *)

\* receive_batch takes what has arrived; an unexpected counter is a gap.
Receiving == pc = "receive" \/ (pc = "idle" /\ ~stopping /\ ~due)
AddedIn(events) == {e.of : e \in {e \in ToSet(events) : e.label = "A"}}

Receive(n) ==
  /\ Receiving
  /\ batch' = SubSeq(queue, 1, n)
  /\ queue' = SubSeq(queue, n + 1, Len(queue))
  /\ gap' = (gap \/ \E i \in 1..n : queue[i].gap /\ (heard \/ i > 1))
  /\ heard' = TRUE
  /\ todo' = AddedIn(batch') \ checked
  /\ pc' = IF todo' = {} THEN "apply" ELSE "fetch"
  /\ UNCHANGED <<mempool, chain, body, made, dropped, listFile, listState, subscribed, record, known, checked,
                 unfetched, tipHeight, due, fetched, snapshot, subject, scan, cache, stopping, counts>>

NothingReceived ==
  /\ Receiving /\ queue = <<>>
  /\ pc' = "end"
  /\ UNCHANGED <<node, record, memory, locals, stopping, counts>>

\* _fetch_many: every new transaction of the batch, up front.
Fetch(t) ==
  /\ pc = "fetch" /\ t \in todo
  /\ fetched' = [fetched EXCEPT ![t] = IF t \in mempool THEN "tx" ELSE "none"]
  /\ todo' = todo \ {t}
  /\ pc' = IF todo' = {} THEN "apply" ELSE "fetch"
  /\ UNCHANGED <<node, record, memory, batch, snapshot, subject, scan, cache, stopping, counts>>

Applies(label) == pc = "apply" /\ ~dirty /\ Head(batch).label = label
Subject == Head(batch).of

ApplyAdded ==
  /\ Applies("A")
  /\ CASE fetched[Subject] = "tx" -> OnAdded(Subject) /\ UNCHANGED unfetched
       [] fetched[Subject] = "none" -> unfetched' = unfetched \union {Subject}
                                       /\ UNCHANGED <<checked, record>>
       [] OTHER -> UNCHANGED <<checked, unfetched, record>>
  /\ AfterEvent
  /\ UNCHANGED <<node, known, tipHeight, zmq, due, snapshot, todo, subject, scan, cache, stopping, counts>>

ApplyRemoved ==
  /\ Applies("R")
  /\ unfetched' = unfetched \ {Subject}
  /\ checked' = checked \ {Subject}
  /\ IF store[Subject].status = "mempool"
     THEN pc' = "leaving" /\ subject' = Subject /\ UNCHANGED <<batch, fetched>>
     ELSE AfterEvent /\ UNCHANGED subject
  /\ UNCHANGED <<node, record, known, tipHeight, zmq, due, snapshot, todo, scan, cache, stopping, counts>>

ApplyConnected ==
  /\ Applies("C")
  /\ tipHeight' = Max({tipHeight, HeightOf(Subject)})
  /\ todo' = unfetched \intersect TxsOf(Subject)
  /\ pc' = "connect"
  /\ UNCHANGED <<node, record, known, checked, unfetched, zmq, due, batch, fetched, snapshot, subject,
                 scan, cache, stopping, counts>>

\* Transactions never fetched before are fetched from the block ...
ConnectUnfetched(t) ==
  /\ pc = "connect" /\ ~dirty /\ t \in todo
  /\ OnAdded(t)
  /\ todo' = todo \ {t}
  /\ UNCHANGED <<node, pc, known, unfetched, tipHeight, zmq, due, batch, fetched, snapshot, subject,
                 scan, cache, stopping, counts>>

BlockFetched == pc = "connect" /\ ~dirty /\ todo = {}

\* ... then every tracked transaction of the block is confirmed ...
Confirm(t) ==
  /\ BlockFetched /\ t \in Tracked("mempool") \intersect TxsOf(Subject)
  /\ MarkConfirmed(t, Subject)
  /\ UNCHANGED <<node, pc, memory, locals, stopping, counts>>

\* ... and the depth of all of them is checked, as it is after a disconnect.
CheckDepths ==
  /\ \/ /\ BlockFetched /\ Tracked("mempool") \intersect TxsOf(Subject) = {}
        /\ checked' = checked \ TxsOf(Subject)
        /\ unfetched' = unfetched \ TxsOf(Subject)
     \/ Applies("D") /\ UNCHANGED <<checked, unfetched>>
  /\ todo' = Tracked("confirmed")
  /\ pc' = "depth"
  /\ UNCHANGED <<node, record, known, tipHeight, zmq, due, batch, fetched, snapshot, subject, scan,
                 cache, stopping, counts>>

\* The rest of an iteration: the gap, the list, the timer.
ReloadOnly == checked                         \* slip: the reload clears nothing
\* SanctionsList.reload_if_changed; a list that does not load is passed over.
Reloads == listState = "edited"
CheckedAfterReload == IF Reloads THEN {} ELSE checked

EndIteration(timer) ==
  /\ pc = "end" /\ ~dirty
  /\ IF Reloads THEN known' = listFile /\ listState' = "loaded" ELSE UNCHANGED <<known, listState>>
  /\ checked' = CheckedAfterReload
  /\ due' = (due \/ gap \/ Reloads \/ timer)
  /\ gap' = FALSE
  /\ pc' = "idle"
  /\ UNCHANGED <<mempool, chain, body, made, queue, dropped, listFile, subscribed, record,
                 unfetched, tipHeight, heard, locals, stopping, counts>>

HandleEvents ==
  \/ NothingReceived \/ ApplyAdded \/ ApplyRemoved \/ ApplyConnected \/ CheckDepths
  \/ (\E n \in 1..Len(queue) : Receive(n))
  \/ (\E t \in Tx : Fetch(t) \/ ConnectUnfetched(t) \/ Confirm(t))
  \/ (\E timer \in BOOLEAN : EndIteration(timer))

-----------------------------------------------------------------------------
\* RpcCliError: the batch in hand is gone, and a reconciliation is due.
CallsNode ==
  \/ pc \in {"tip", "leaving"} \/ NotInBlocks
  \/ pc = "scan" /\ CachedAt(scan) = {}
  \/ pc \in {"recheck", "fetch", "depth", "connect"} /\ todo # {}
  \/ pc = "apply" /\ Head(batch).label = "C"
  \/ pc = "idle" /\ ~stopping /\ due

RpcFails ==
  /\ CallsNode /\ ~dirty
  /\ Hit
  /\ due' = TRUE /\ pc' = "idle"
  /\ LocalsReset
  /\ UNCHANGED <<node, record, known, checked, unfetched, tipHeight, zmq, stopping, doubtful, moves>>

Process ==
  \/ Exit \/ Restart \/ Flush \/ DepthChecked
  \/ (\E answered \in BOOLEAN : OnLeftUnmined(answered))
  \/ (\E t \in Tx : CheckDepth(t))
  \/ Reconcile \/ HandleEvents

Next ==
  \/ NodeMoves \/ (\E i \in DOMAIN queue : Lose(i)) \/ Crash \/ Stop \/ RpcFails
  \/ Process

Spec == Init /\ [][Next]_vars

\* The process waits for nothing but its own steps and is started again when
\* it ended; and the time of the next reconciliation always comes.
FairSpec == Spec /\ WF_vars(Process) /\ SF_vars(EndIteration(TRUE))

-----------------------------------------------------------------------------
(* What the watcher promises.                                              *)

Entry == [status : {"untracked", "mempool", "confirmed"}, block : Blocks \union {NoBlock},
          since : 0..MaxBlocks - 1]

TypeOK ==
  /\ mempool \subseteq Tx /\ chain \in Seq(Blocks) /\ chain # <<>>
  /\ body \in [Blocks -> [txs : SUBSET Tx, height : 0..MaxBlocks - 1]] /\ made \in Blocks
  /\ queue \in Seq([label : {"A", "R"}, of : Tx, gap : BOOLEAN]
                   \union [label : {"C", "D"}, of : Blocks, gap : BOOLEAN])
  /\ listFile \subseteq Tx /\ listState \in {"loaded", "edited", "broken"} /\ subscribed \in BOOLEAN
  /\ known \subseteq Tx
  /\ last \in [Tx -> Events \union {"none"}]
  /\ flagged \in [Tx -> Entry] /\ store \in [Tx -> Entry]
  /\ pc \in Stages
  /\ dropped \in BOOLEAN /\ dirty \in BOOLEAN /\ heard \in BOOLEAN /\ gap \in BOOLEAN
  /\ due \in BOOLEAN /\ stopping \in BOOLEAN
  /\ checked \subseteq Tx /\ unfetched \subseteq Tx /\ tipHeight \in 0..MaxBlocks - 1
  /\ fetched \in [Tx -> {"no", "none", "tx"}]
  /\ snapshot \subseteq Tx /\ todo \subseteq Tx /\ doubtful \subseteq Tx
  /\ subject \in Tx \union {NoTx} /\ scan \in -1..MaxBlocks - 1
  /\ pc \in {"apply", "connect"} => batch # <<>>
  /\ pc \in {"scan", "leaving"} => subject \in Tx

\* flagged.json and the exported events agree on what a transaction is, once
\* the entry is flushed and unless a crash came between the two
\* (mempool_watch.py:299, 322, 335, 369).
RecordMatchesEvents ==
  ~dirty => \A t \in Tx \ doubtful :
       CASE flagged[t].status = "mempool" -> last[t] \in {"seen", "unconfirmed"}
         [] flagged[t].status = "confirmed" -> last[t] = "confirmed"
         [] OTHER -> last[t] \in {"none", "replaced", "removed", "confirmed"}

\* An entry is only given up with an event, or once its block has been buried
\* (_on_left_unmined, _check_confirmed_depth: mempool_watch.py:301, 350).
NotForgotten ==
  [][\A t \in Tx \ doubtful :
        store[t].status # "untracked" /\ pc' # "down" /\ store'[t].status = "untracked"
        => last'[t] # last[t] \/ Confirmations(store[t].block) >= ForgetAfter]_vars

\* A block named as the confirmation of a transaction contains it, though the
\* chain may change between any two calls of the scan (mempool_watch.py:399).
ConfirmedByItsBlock ==
  \A t \in Tracked("confirmed") : t \in TxsOf(store[t].block)

\* Nobody is left waiting: in the end flagged.json says of every transaction
\* what the node says (reconcile, mempool_watch.py:410), unless the list never
\* loads again (sanctions_list.py:120).
Agrees(t) ==
  /\ t \in mempool \intersect listFile => flagged[t].status = "mempool"
  /\ flagged[t].status = "mempool" => t \in mempool
  /\ flagged[t].status = "confirmed" => OnChain(flagged[t].block)
EventuallyAgrees == <>[](listState = "broken" \/ \A t \in Tx : Agrees(t))

\* "left the mempool unmined" (README.md:689): what was reported gone is not in
\* a block, when the watcher is up to date and nothing has failed.
UpToDate == pc = "idle" /\ ~due /\ queue = <<>>
RemovedIsUnmined ==
  faults = 0 /\ UpToDate => \A t \in Tx : last[t] = "removed" => t \notin MinedIn(chain)

\* The watcher implements the promise to whoever reads its events: a
\* transaction is seen anew after it left, or once nobody tracks its block.
Follows ==
  [none |-> {"seen"},
   seen |-> {"confirmed", "replaced", "removed"},
   confirmed |-> {"unconfirmed", "seen"},
   unconfirmed |-> {"confirmed", "replaced", "removed"},
   replaced |-> {"seen"},
   removed |-> {"seen"}]
Alerts == INSTANCE EventLog WITH Key <- Tx
ImplementsEventLog == Alerts!Spec

=============================================================================
