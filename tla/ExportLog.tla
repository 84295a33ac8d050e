------------------------------ MODULE ExportLog ------------------------------
(***************************************************************************)
(* What rpc-ingest promises whoever reads its output: every stream gets    *)
(* the rows of a block at least once before the block is recorded as       *)
(* exported, and never again afterwards.  Nothing is ever un-recorded.     *)
(***************************************************************************)
EXTENDS Integers

CONSTANTS Block, Streams
VARIABLES delivered,   \* how often each stream was handed the rows of each block
          recorded     \* the blocks whose export is on record as complete

Init ==
  /\ delivered \in [Streams -> [Block -> {0, 1}]]
  /\ recorded = {}

\* One stream is handed the rows of some blocks that are not on record.
Deliver(s, S) ==
  /\ S \intersect recorded = {}
  /\ delivered' = [delivered EXCEPT ![s] =
                     [b \in Block |-> IF b \in S THEN @[b] + 1 ELSE @[b]]]
  /\ UNCHANGED recorded

\* Blocks go on record once every stream has their rows.
Record(S) ==
  /\ \A b \in S, s \in Streams : delivered[s][b] > 0
  /\ recorded' = recorded \union S
  /\ UNCHANGED delivered

Next == \E S \in SUBSET Block : Record(S) \/ \E s \in Streams : Deliver(s, S)

Spec == Init /\ [][Next]_<<delivered, recorded>>
=============================================================================
