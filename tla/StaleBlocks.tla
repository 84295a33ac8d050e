----------------------------- MODULE StaleBlocks -----------------------------
(***************************************************************************)
(* stale-blocks-ingest: one event per stale block, and one more when its   *)
(* header becomes available (rpc/stale_blocks.py, stale_blocks_state.py,   *)
(* stale_blocks_github.py).                                                *)
(*                                                                         *)
(* Two feeds report the same blocks: the node's chain tips, whose headers  *)
(* may or may not be obtained, and a published list, some of whose headers *)
(* are fake.  Both go through one registry, rewritten after every event.   *)
(***************************************************************************)
EXTENDS Integers

CONSTANTS
  Block,               \* the hashes of stale blocks
  Infos,               \* a tip's chaintip_status and branchlen
  MaxMoves,            \* bound: changes of the two feeds
  MaxFaults            \* bound: crashes, stops, unanswered calls, failed pulls

ASSUME StaleAssumption ==
  /\ "none" \notin Infos
  /\ MaxMoves \in Nat /\ MaxFaults \in Nat

UNUSABLE == "unusable"
HEADER_ONLY == "header_only"
Statuses == {UNUSABLE, HEADER_ONLY}
Known == Statuses \union {"none"}      \* "none": not on record, or not exported
StatusRank == [s \in Known |-> CASE s = "none" -> 0 [] s = UNUSABLE -> 1 [] s = HEADER_ONLY -> 2]

\* What a feed says of one block.  A list's row is valid if its header hashes to
\* the block; the node's always does, when it is obtained.
Sighting == [block : Block, info : Infos \union {"none"}, valid : BOOLEAN]
Row(b, valid) == [block |-> b, info |-> "none", valid |-> valid]
Tip(b, info) == [block |-> b, info |-> info, valid |-> TRUE]

VARIABLES
  tip,                 \* getchaintips: what it says of the blocks that are stale tips
  dataset,             \* the rows of stale-blocks.csv
  exports, last,       \* how often each event was exported; the latest of each block
  file,                \* registry.csv
  pc, stopping,
  registry, dirty,     \* StaleBlockRegistry._entries, _dirty
  saving,              \* an event is out, the flush behind it is due
  todo,                \* the tips or rows the pass in hand has still to go through
  fresh,               \* the last pull is not poll_interval_seconds old
  cut,                 \* crashes between an event of the block and its flush
  moves, faults

feeds == <<tip, dataset>>
events == <<exports, last>>
process == <<registry, dirty, saving, todo, fresh>>
vars == <<feeds, events, file, pc, stopping, process, cut, moves, faults>>

NoEntry == [status |-> "none", header |-> FALSE, info |-> "none", exported |-> "none"]

Init ==
  /\ tip = [b \in Block |-> "none"] /\ dataset = {}
  /\ exports = [b \in Block |-> [s \in Statuses |-> 0]] /\ last = [b \in Block |-> "none"]
  /\ file = [b \in Block |-> NoEntry]
  /\ pc = "idle" /\ stopping = FALSE
  /\ registry = file /\ dirty = FALSE /\ saving = FALSE /\ todo = {} /\ fresh = FALSE
  /\ cut = [b \in Block |-> 0] /\ moves = 0 /\ faults = 0

-----------------------------------------------------------------------------
(* The two feeds and the faults.                                           *)

FeedsMove ==
  /\ moves < MaxMoves
  /\ moves' = moves + 1
  /\ \/ /\ \E b \in Block, info \in Infos \union {"none"} : tip' = [tip EXCEPT ![b] = info]
        /\ UNCHANGED dataset
     \/ /\ \E b \in Block, valid \in BOOLEAN : dataset' = dataset \union {Row(b, valid)}
        /\ UNCHANGED tip
  /\ UNCHANGED <<events, file, pc, stopping, process, cut, faults>>

Hit == faults < MaxFaults /\ faults' = faults + 1

ProcessDies ==
  /\ pc' = "down" /\ stopping' = FALSE
  /\ registry' = file /\ dirty' = FALSE
  /\ saving' = FALSE /\ todo' = {} /\ fresh' = FALSE
  /\ cut' = [b \in Block |-> IF saving /\ registry[b].exported # file[b].exported
                             THEN cut[b] + 1 ELSE cut[b]]
  /\ UNCHANGED <<feeds, events, file, moves>>

Crash == pc # "down" /\ Hit /\ ProcessDies

Stop ==
  /\ pc # "down" /\ ~stopping
  /\ Hit
  /\ stopping' = TRUE
  /\ UNCHANGED <<feeds, events, file, pc, process, cut, moves>>

Exit == pc \in {"idle", "wait"} /\ stopping /\ ProcessDies /\ UNCHANGED faults

Restart ==
  /\ pc = "down"
  /\ pc' = "idle"
  /\ UNCHANGED <<feeds, events, file, stopping, process, cut, moves, faults>>

-----------------------------------------------------------------------------
(* The registry.                                                           *)

\* Slip: the status of the latest sighting is taken as it comes.
LatestSighting(e, header, info) ==
  [e EXCEPT !.status = IF header THEN HEADER_ONLY ELSE UNUSABLE,
            !.header = @ \/ header,
            !.info = IF info # "none" THEN info ELSE @]
\* Slip: a new entry counts as exported.
NewIsExported(e, header, info) ==
  LET status == IF header THEN HEADER_ONLY ELSE UNUSABLE
  IN [e EXCEPT !.status = IF StatusRank[status] > StatusRank[@] THEN status ELSE @,
               !.header = @ \/ header,
               !.exported = IF e.status = "none" THEN status ELSE @]
\* upsert_sighting: the status only rises, and a header once known stays.
Upserted(e, header, info) ==
  LET status == IF header THEN HEADER_ONLY ELSE UNUSABLE
  IN [e EXCEPT !.status = IF StatusRank[status] > StatusRank[@] THEN status ELSE @,
               !.header = @ \/ header,
               !.info = IF info # "none" THEN info ELSE @]

\* flush() does nothing unless something changed.
Saved == IF dirty THEN registry ELSE file

FlushAtEnd == FALSE                    \* slip: only the end of the pass flushes
FlushNow == TRUE

\* _ingest_sighting, up to the flush behind an event.
Sight(b, header, info) ==
  LET e == Upserted(registry[b], header, info)
  IN IF e.status # e.exported
     THEN /\ exports' = [exports EXCEPT ![b][e.status] = @ + 1]
          /\ last' = [last EXCEPT ![b] = e.status]
          /\ registry' = [registry EXCEPT ![b] = [e EXCEPT !.exported = e.status]]
          /\ dirty' = TRUE /\ saving' = FlushNow
     ELSE /\ registry' = [registry EXCEPT ![b] = e]
          /\ dirty' = (dirty \/ e # registry[b])
          /\ UNCHANGED <<events, saving>>

Flush ==
  /\ saving
  /\ file' = Saved
  /\ dirty' = FALSE /\ saving' = FALSE
  /\ UNCHANGED <<feeds, events, pc, stopping, registry, todo, fresh, cut, moves, faults>>

\* Slip: the pass ends before its last event is flushed.
EndUnsaved(stage) ==
  /\ pc = stage /\ todo = {}
  /\ UNCHANGED <<feeds, events, file, stopping, registry, dirty, saving, todo, cut, moves, faults>>
\* The flush at the end of a pass.
EndPass(stage) ==
  /\ pc = stage /\ ~saving /\ todo = {}
  /\ file' = Saved
  /\ dirty' = FALSE
  /\ UNCHANGED <<feeds, events, stopping, registry, saving, todo, cut, moves, faults>>

-----------------------------------------------------------------------------
(* Pass 1: the node's tips.                                                *)

AfterPoll == IF fresh THEN "wait" ELSE "fetch"

BeginPoll ==
  /\ pc = "idle" /\ ~stopping
  /\ todo' = {Tip(b, tip[b]) : b \in {b \in Block : tip[b] # "none"}}
  /\ pc' = "poll"
  /\ UNCHANGED <<feeds, events, file, stopping, registry, dirty, saving, fresh, cut, moves, faults>>

PollFails ==
  /\ pc = "idle" /\ ~stopping
  /\ Hit
  /\ pc' = AfterPoll
  /\ UNCHANGED <<feeds, events, file, stopping, process, cut, moves>>

\* A header that cannot be obtained leaves the sighting without one.
PollTip(s, answered) ==
  /\ pc = "poll" /\ ~saving /\ s \in todo
  /\ Sight(s.block, answered, s.info)
  /\ todo' = todo \ {s}
  /\ UNCHANGED <<feeds, file, pc, stopping, fresh, cut, moves>>

EndPoll == EndPass("poll") /\ pc' = AfterPoll /\ UNCHANGED fresh

-----------------------------------------------------------------------------
(* Pass 2: the list.                                                       *)

FetchList ==
  /\ pc = "fetch"
  /\ todo' = dataset
  /\ pc' = "pull"
  /\ UNCHANGED <<feeds, events, file, stopping, registry, dirty, saving, fresh, cut, moves, faults>>

FetchFails ==
  /\ pc = "fetch"
  /\ Hit
  /\ pc' = "wait"
  /\ UNCHANGED <<feeds, events, file, stopping, process, cut, moves>>

\* Slip: every block on record is passed over, with a header or without.
AnyOnRecord(s) == registry[s.block].status # "none" \/ ~s.valid
PassedOver(s) == registry[s.block].status = HEADER_ONLY \/ ~s.valid

PullRow(s) ==
  /\ pc = "pull" /\ ~saving /\ s \in todo
  /\ IF PassedOver(s) THEN UNCHANGED <<events, registry, dirty, saving>>
     ELSE Sight(s.block, TRUE, "none")
  /\ todo' = todo \ {s}
  /\ UNCHANGED <<feeds, file, pc, stopping, fresh, cut, moves, faults>>

EndPull == EndPass("pull") /\ pc' = "wait" /\ fresh' = TRUE

\* The next wake; by then the last pull may be old.
Wake(elapsed) ==
  /\ pc = "wait" /\ ~stopping
  /\ pc' = "idle"
  /\ fresh' = (fresh /\ ~elapsed)
  /\ UNCHANGED <<feeds, events, file, stopping, registry, dirty, saving, todo, cut, moves, faults>>

-----------------------------------------------------------------------------
Process ==
  \/ Exit \/ Restart \/ Flush
  \/ BeginPoll \/ (\E s \in todo : PollTip(s, TRUE) /\ UNCHANGED faults) \/ EndPoll
  \/ FetchList \/ (\E s \in todo : PullRow(s)) \/ EndPull
  \/ \E elapsed \in BOOLEAN : Wake(elapsed)

Next ==
  \/ FeedsMove \/ Crash \/ Stop \/ PollFails \/ FetchFails
  \/ \E s \in todo : PollTip(s, FALSE) /\ Hit
  \/ Process

Spec == Init /\ [][Next]_vars

\* The process waits for nothing but its own steps and is started again when it
\* ended; and the interval between two pulls always ends.
FairSpec == Spec /\ WF_vars(Process) /\ SF_vars(Wake(TRUE))

-----------------------------------------------------------------------------
(* What stale-blocks-ingest promises.                                      *)

Entry == [status : Known, header : BOOLEAN, info : Infos \union {"none"},
          exported : Known]

TypeOK ==
  /\ tip \in [Block -> Infos \union {"none"}] /\ dataset \subseteq Sighting
  /\ exports \in [Block -> [Statuses -> Nat]] /\ last \in [Block -> Known]
  /\ file \in [Block -> Entry] /\ registry \in [Block -> Entry]
  /\ pc \in {"down", "idle", "poll", "fetch", "pull", "wait"}
  /\ stopping \in BOOLEAN /\ dirty \in BOOLEAN /\ saving \in BOOLEAN /\ fresh \in BOOLEAN
  /\ todo \subseteq Sighting
  /\ saving => dirty /\ pc \in {"poll", "pull"}
  /\ cut \in [Block -> Nat] /\ moves \in Nat /\ faults \in Nat

\* No event is lost: what registry.csv takes for exported has been exported,
\* whatever crash came when (stale_blocks.py:153-161).
RecordedIsExported ==
  \A b \in Block : file[b].exported # "none" => exports[b][file[b].exported] > 0

\* "exported effectively once" (stale_blocks.py:35-44): each of the two events of
\* a block at most once, and once more for every crash that fell between an
\* event of this block and the flush.
OncePerCut == \A b \in Block, s \in Statuses : exports[b][s] <= 1 + cut[b]

\* "never downgraded" (stale_blocks_state.py:16-19): the entries on disk only get
\* better, through crashes, restarts and worse sightings.
NeverDowngraded ==
  [][\A b \in Block : /\ StatusRank[file'[b].status] >= StatusRank[file[b].status]
                      /\ file[b].header => file'[b].header]_vars

\* A block is exported with a header when, and only when, one is on record
\* (stale_blocks.py:140, stale_blocks_state.py:120-126).
HeaderIffStatus == \A b \in Block : registry[b].header <=> registry[b].status = HEADER_ONLY

\* What the reader sees of a block goes from no header to a header, unless a
\* crash cut one of its events off.
Follows == [none |-> Statuses, unusable |-> {HEADER_ONLY}, header_only |-> {}]
Log == INSTANCE EventLog WITH Key <- Block, doubtful <- {b \in Block : cut[b] > 0}
ImplementsEventLog == Log!Spec

\* A block that is listed, or remains a tip of the node, is reported with its
\* header in the end, whatever failed in between.
EventuallyReported ==
  \A b \in Block : <>(Row(b, TRUE) \in dataset) \/ <>[](tip[b] # "none")
                     => <>[](last[b] = HEADER_ONLY)
=============================================================================
