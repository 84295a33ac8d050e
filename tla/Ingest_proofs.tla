---------------------------- MODULE Ingest_proofs ----------------------------
(***************************************************************************)
(* What rpc-ingest keeps true for every block tree and every configuration *)
(* the assumptions of Ingest allow, whatever the node and the faults do.   *)
(***************************************************************************)
EXTENDS Ingest, WellFoundedInduction, TLAPS

\* The streams a checkpoint that has come to stage p has drained.
Drained(p) ==
  CASE p = "transactions" -> {"blocks"}
    [] p = "inputs" -> {"blocks", "transactions"}
    [] p = "outputs" -> {"blocks", "transactions", "inputs"}
    [] p = "index" -> Streams
    [] OTHER -> {}

\* Where blocks may be staged, and where nothing is.
StagingStages == {"loop", "index"} \union Streams

\* What is staged is not indexed yet, leaves nothing behind after a checkpoint,
\* and is on its way through the streams in one piece.
Staged ==
  /\ pc \in {"loop"} \union Streams => buf = pending
  /\ pc = "index" => buf = {}
  /\ pc \notin StagingStages => pending = {} /\ buf = {}
  /\ \A b \in pending : index[b] < CURRENT_INDEX_SCHEMA_VERSION
  /\ \A b \in pending : \A s \in Drained(pc) : exports[s][b] > 0

\* How often a stream may have the rows of a block: once for its completed or
\* half completed export, once per crash, once for the older schema.
Completing(s, b) ==
  index[b] = CURRENT_INDEX_SCHEMA_VERSION \/ (b \in pending /\ s \in Drained(pc))
Older(s, b) == s \in OldStreams /\ Height[b] <= OldHeight
Counted ==
  \A s \in Streams, b \in Block :
    exports[s][b] <= (IF Completing(s, b) THEN 1 ELSE 0) + faults["crash"]
                       + (IF Older(s, b) THEN 1 ELSE 0)

Inv == Staged /\ IndexImpliesExported /\ Counted

-----------------------------------------------------------------------------
(* Facts about chains and heights.                                         *)

\* A chain of n + 1 blocks gives every height its block, linked to the one below.
LEMMA ChainFacts ==
  ASSUME NEW n \in Nat, NEW c \in ChainsTo(n)
  PROVE  /\ c \in [0..n -> Block]
         /\ \A h \in 0..n : Height[c[h]] = h
         /\ \A h \in 1..n : Parent[c[h]] = c[h-1]
<1>1. PICK m \in 0..MaxHeight :
        c \in {d \in [0..m -> Block] : /\ \A h \in 0..m : Height[d[h]] = h
                                       /\ \A h \in 1..m : Parent[d[h]] = d[h-1]}
  BY DEF ChainsTo, Chains
<1>2. 0..m = 0..n
  BY <1>1 DEF ChainsTo
<1>3. \A h \in 1..n : h \in 1..m
  BY <1>1, <1>2, ConfigAssumption
<1> QED
  BY <1>1, <1>2, <1>3

\* The node's chain, and so whatever it says of a height it has.
LEMMA ActiveFacts ==
  ASSUME TypeOK
  PROVE  \A h \in 0..tip : active[h] \in Block /\ Height[active[h]] = h
<1>1. tip \in Nat /\ active \in ChainsTo(tip)
  BY ConfigAssumption DEF TypeOK
<1> QED
  BY <1>1, ChainFacts

\* A block below another is one lower, and the genesis block stands on nothing.
LEMMA ParentFacts ==
  ASSUME NEW b \in Block
  PROVE  /\ Height[b] \in Nat /\ HeightOf(b) = Height[b] /\ b # NoBlock
         /\ Parent[b] \in Block \union {NoBlock}
         /\ HeightOf(Parent[b]) = Height[b] - 1
         /\ Height[b] > 0 => Parent[b] \in Block
<1>1. CASE Height[b] = 0
  BY <1>1, ChainAssumption DEF HeightOf
<1>2. CASE Height[b] # 0
  BY <1>2, ChainAssumption DEF HeightOf
<1> QED
  BY <1>1, <1>2

\* The stages by name.
LEMMA StageNames ==
  /\ DOMAIN StageAfter = {"blocks", "transactions", "inputs", "outputs", "index", "status"}
  /\ Stages = {"down", "idle", "check", "live", "walk", "audit", "plan", "loop",
               "idlePointer", "idleStatus", "blocks", "transactions", "inputs", "outputs",
               "index", "status", "pointer"}
  /\ CheckpointStages = {"blocks", "transactions", "inputs", "outputs", "index", "status",
                         "pointer"}
  /\ StageAfter["blocks"] = "transactions" /\ StageAfter["transactions"] = "inputs"
  /\ StageAfter["inputs"] = "outputs" /\ StageAfter["outputs"] = "index"
  /\ StageAfter["index"] = "status" /\ StageAfter["status"] = "pointer"
<1>1. DOMAIN StageAfter = {"blocks", "transactions", "inputs", "outputs", "index", "status"}
  BY DEF StageAfter
<1>2. Stages = {"down", "idle", "check", "live", "walk", "audit", "plan", "loop",
               "idlePointer", "idleStatus", "blocks", "transactions", "inputs", "outputs",
               "index", "status", "pointer"}
  BY <1>1 DEF Stages
<1>3. CheckpointStages = {"blocks", "transactions", "inputs", "outputs", "index", "status",
                         "pointer"}
  BY <1>1 DEF CheckpointStages
<1> QED
  BY <1>1, <1>2, <1>3 DEF StageAfter

\* HeightOf is a height, or -1 where there is no block.
LEMMA HeightOfType ==
  ASSUME NEW b \in Block \union {NoBlock}
  PROVE  HeightOf(b) \in Int /\ HeightOf(b) >= -1
BY ChainAssumption DEF HeightOf
-----------------------------------------------------------------------------
(* Types                                                                   *)

\* The program starts in a well typed state.
LEMMA InitTypeOK == Init => TypeOK
<1> SUFFICES ASSUME Init PROVE TypeOK
  OBVIOUS
<1> USE ConfigAssumption
<1>1. active \in [0..InitHeight -> Block]
  BY ChainFacts DEF Init
<1>2. current \in Block \union {NoBlock}
  BY <1>1 DEF Init
<1>3. /\ index \in [Block -> 0..CURRENT_INDEX_SCHEMA_VERSION]
      /\ exports \in [Streams -> [Block -> Nat]]
  BY DEF Init, CURRENT_INDEX_SCHEMA_VERSION
<1>4. faults \in [Fault -> Nat]
  BY DEF Init
<1>5. /\ allCurrent \in BOOLEAN /\ atomic \in BOOLEAN
      /\ ending \in BOOLEAN /\ stopping \in BOOLEAN /\ overtaken \in BOOLEAN
  BY DEF Init
<1>6. /\ tip \in 0..MaxHeight /\ active \in ChainsTo(tip)
      /\ blocksCsv \in [Block -> {"none", "open", "closed"}]
      /\ blockStatus \in [Block -> Status] /\ memStatus \in [Block -> Status]
      /\ at \in Block \union {NoBlock}
      /\ goal \in 0..MaxHeight /\ parEnd \in -1..MaxHeight
  BY DEF Init, Status
<1>7. /\ detached \subseteq Block /\ pending \subseteq Block /\ buf \subseteq Block
      /\ seen \subseteq Block
      /\ processed \in 0..BatchSize - 1
      /\ pc = "idle"
  BY DEF Init
<1> QED
  BY <1>2, <1>3, <1>4, <1>5, <1>6, <1>7, StageNames DEF TypeOK

\* The pool works up to a height of the pass, if it works at all.
LEMMA ParallelEndType ==
  ASSUME goal \in 0..MaxHeight, NEW start \in Block \union {NoBlock}
  PROVE  ParallelEnd(start) \in -1..MaxHeight
<1>1. \A w \in Nat, e \in Int, h \in Int :
        h >= -1 /\ e <= goal /\ e - h > w => e \in -1..MaxHeight
  BY ConfigAssumption
<1>2. PrefetchPerWorker * Workers \in Nat
  BY ConfigAssumption
<1>3. AtMost(goal, goal + Confirmations - MaxReorgDepth) \in Int
  BY ConfigAssumption DEF AtMost
<1>4. AtMost(goal, goal + Confirmations - MaxReorgDepth) <= goal
  BY ConfigAssumption DEF AtMost
<1>5. -1 \in -1..MaxHeight
  BY ConfigAssumption
<1> QED
  BY <1>1, <1>2, <1>3, <1>4, <1>5, HeightOfType DEF ParallelEnd

\* A pass that is left has its locals back at values of their types.
LEMMA ResetLocalsTypes ==
  ASSUME ResetLocals
  PROVE  /\ at' \in Block \union {NoBlock} /\ goal' \in 0..MaxHeight
         /\ detached' \subseteq Block /\ buf' \subseteq Block /\ seen' \subseteq Block
         /\ processed' \in 0..BatchSize - 1 /\ parEnd' \in -1..MaxHeight
         /\ atomic' \in BOOLEAN /\ ending' \in BOOLEAN
<1>1. atomic' \in BOOLEAN /\ ending' \in BOOLEAN
  BY DEF ResetLocals
<1> QED
  BY <1>1, ConfigAssumption DEF ResetLocals

\* Counting a fault keeps the counters natural numbers.
LEMMA HitTypes ==
  ASSUME faults \in [Fault -> Nat], NEW f \in Fault, Hit(f)
  PROVE  faults' \in [Fault -> Nat]
BY DEF Hit

\* A process that dies leaves a well typed state.
LEMMA ProcessDiesTypes ==
  ASSUME TypeOK, ProcessDies, faults' \in [Fault -> Nat]
  PROVE  TypeOK'
<1>1. ResetLocals
  BY DEF ProcessDies
<1>2. allCurrent' \in BOOLEAN /\ stopping' \in BOOLEAN
  BY DEF ProcessDies
<1> QED
  BY <1>1, <1>2, ResetLocalsTypes, StageNames DEF TypeOK, ProcessDies, node, files

\* Applying a block, on either path, keeps the types.
LEMMA ProcessBlockTypes ==
  ASSUME TypeOK, NEW b \in Block, ProcessBlock(b), pc = "loop", Height[b] <= goal,
         parEnd' \in -1..MaxHeight, seen' \subseteq Block
  PROVE  TypeOK'
<1>1. processed' \in 0..BatchSize - 1
  BY ConfigAssumption DEF TypeOK, ProcessBlock
<1>2. buf' \subseteq Block /\ pending' \subseteq Block
  BY DEF TypeOK, ProcessBlock
<1>3. memStatus' \in [Block -> Status]
  BY DEF TypeOK, ProcessBlock, SetCanonicalIfPresent, Status
<1>4. at' \in Block /\ HeightOf(at)' <= goal'
  BY ParentFacts DEF ProcessBlock
<1>5. pc' \in {"blocks", "loop"}
  BY DEF ProcessBlock
<1> QED
  BY <1>1, <1>2, <1>3, <1>4, <1>5, StageNames DEF TypeOK, ProcessBlock, node, files

\* Every step keeps the types.
LEMMA TypeOKStep == TypeOK /\ [Next]_vars => TypeOK'
<1> SUFFICES ASSUME TypeOK, [Next]_vars PROVE TypeOK'
  OBVIOUS
<1> USE ConfigAssumption, StageNames
<1> USE DEF TypeOK, node, files, stores, locals
<1>1. CASE NodeMoves
  <2>0. PICK n \in tip + 1 .. MaxHeight : \E c \in ChainsTo(n) :
          /\ tip' = n /\ active' = c
          /\ seen' = IF seen # {} THEN seen \union {c[h] : h \in 0..n} ELSE {}
    BY <1>1 DEF NodeMoves
  <2>1. PICK c \in ChainsTo(n) :
          /\ tip' = n /\ active' = c
          /\ seen' = IF seen # {} THEN seen \union {c[h] : h \in 0..n} ELSE {}
    BY <2>0
  <2>2. \A h \in 0..n : c[h] \in Block
    <3>1. n \in Nat
      OBVIOUS
    <3>2. c \in [0..n -> Block]
      BY <3>1, ChainFacts
    <3> QED
      BY <3>2
  <2>3. seen' \subseteq Block
    BY <2>1, <2>2
  <2>4. overtaken' \in BOOLEAN
    BY <1>1 DEF NodeMoves
  <2> QED
    BY <1>1, <2>1, <2>3, <2>4 DEF NodeMoves
<1>2. CASE SplunkTakes
  BY <1>2 DEF SplunkTakes
<1>3. CASE Crash
  BY <1>3, HitTypes, ProcessDiesTypes DEF Crash, Fault
<1>4. CASE Stop
  <2>1. stopping' \in BOOLEAN /\ faults' \in [Fault -> Nat]
    BY <1>4, HitTypes DEF Stop, Fault
  <2> QED
    BY <1>4, <2>1 DEF Stop
<1>5. CASE RpcFails
  <2>1. faults' \in [Fault -> Nat]
    BY <1>5, HitTypes DEF RpcFails, Fault
  <2> QED
    BY <1>5, <2>1, ResetLocalsTypes DEF RpcFails, DiscardPending
<1>6. CASE Exit
  BY <1>6, ProcessDiesTypes DEF Exit
<1>7. CASE Restart
  BY <1>7 DEF Restart
<1>8. CASE BeginPass
  BY <1>8 DEF BeginPass
<1>9. CASE ReadCurrent
  BY <1>9 DEF ReadCurrent
<1>10. CASE SeedFromBlocksCsv
  BY <1>10 DEF SeedFromBlocksCsv, CURRENT_INDEX_SCHEMA_VERSION
<1>11. CASE CheckLiveHash
  BY <1>11 DEF CheckLiveHash
<1>12. CASE WalkBack
  BY <1>12, ParentFacts DEF WalkBack, CanStepBack, SetCanonical, Status
<1>13. CASE WalkBackFails
  BY <1>13, ProcessDiesTypes DEF WalkBackFails
<1>14. CASE FlushDetached
  BY <1>14 DEF FlushDetached
<1>15. CASE PlanPass
  <2>1. PICK start \in Rewound :
          /\ at' = start
          /\ IF HeightOf(start) >= goal
             THEN pc' = "idlePointer" /\ UNCHANGED <<atomic, parEnd, seen>>
             ELSE /\ pc' = "loop"
                  /\ atomic' = AtomicMode(start)
                  /\ parEnd' = ParallelEnd(start)
                  /\ seen' = IF parEnd' >= 0 THEN {active[h] : h \in 0..tip} ELSE {}
    BY <1>15 DEF PlanPass
  <2>2. start \in Block \union {NoBlock}
    BY ParentFacts DEF Rewound, EarliestStale, Stale
  <2>3. HeightOf(start) \in Int /\ HeightOf(start) >= -1
    BY <2>2, HeightOfType
  <2>4. parEnd' \in -1..MaxHeight
    BY <2>1, <2>2, ParallelEndType
  <2>5. seen' \subseteq Block
    BY <2>1, ActiveFacts
  <2>6. atomic' \in BOOLEAN /\ allCurrent' \in BOOLEAN
    <3>1. AtomicMode(start) \in BOOLEAN
      BY DEF AtomicMode
    <3>2. atomic' \in BOOLEAN
      BY <2>1, <3>1
    <3>3. allCurrent' \in BOOLEAN
      BY <1>15 DEF PlanPass
    <3> QED
      BY <3>2, <3>3
  <2>7. pc' \in {"idlePointer", "loop"} /\ (pc' = "loop" => HeightOf(at') <= goal)
    BY <2>1, <2>3
  <2> QED
    BY <1>15, <2>1, <2>2, <2>4, <2>5, <2>6, <2>7 DEF PlanPass, HeightOf
<1>16. CASE IdlePointer
  BY <1>16 DEF IdlePointer
<1>17. CASE IdleStatus
  BY <1>17, ResetLocalsTypes DEF IdleStatus
<1>18. CASE ProcessHeight
  <2>1. NextHeight \in 0..tip /\ NextHeight <= goal
    BY <1>18, HeightOfType DEF ProcessHeight, MoreHeights, NextHeight
  <2>2. active[NextHeight] \in Block /\ Height[active[NextHeight]] = NextHeight
    BY <2>1, ActiveFacts
  <2> QED
    BY <1>18, <2>1, <2>2, ProcessBlockTypes DEF ProcessHeight
<1>19. CASE ProcessPrefetched
  <2>1. PICK b \in seen : Height[b] = NextHeight /\ ProcessBlock(b)
    BY <1>19 DEF ProcessPrefetched
  <2>2. Height[b] <= goal
    BY <1>19, <2>1, HeightOfType DEF ProcessPrefetched, MoreHeights, NextHeight
  <2>3. parEnd' \in -1..MaxHeight /\ seen' \subseteq Block
    BY <1>19 DEF ProcessPrefetched
  <2> QED
    BY <1>19, <2>1, <2>2, <2>3, ProcessBlockTypes DEF ProcessPrefetched
<1>20. CASE EndPass \/ PrefetchedMismatch
  <2>1. pc = "loop" /\ BeginEnd
    BY <1>20 DEF EndPass, PrefetchedMismatch
  <2>2. ending' \in BOOLEAN
    BY <2>1 DEF BeginEnd
  <2> QED
    BY <2>1, <2>2 DEF BeginEnd
<1>21. ASSUME NEW s \in Streams, Drain(s) PROVE TypeOK'
  <2>1. exports' \in [Streams -> [Block -> Nat]]
    BY <1>21 DEF Drain
  <2>2. blocksCsv' \in [Block -> {"none", "open", "closed"}]
    BY <1>21 DEF Drain, PlaceRows
  <2>3. pc' \in CheckpointStages /\ pc \in CheckpointStages
    BY <1>21 DEF Drain, Streams
  <2> QED
    BY <1>21, <2>1, <2>2, <2>3 DEF Drain
<1>22. CASE FlushIndex
  BY <1>22 DEF FlushIndex, CURRENT_INDEX_SCHEMA_VERSION
<1>23. CASE FlushStatus
  BY <1>23 DEF FlushStatus
<1>24. CASE WritePointer
  <2>1. CASE ending
    BY <1>24, <2>1, ResetLocalsTypes DEF WritePointer, LastHash
  <2>2. CASE ~ending
    BY <1>24, <2>2 DEF WritePointer, LastHash
  <2> QED
    BY <2>1, <2>2
<1>25. CASE UNCHANGED vars
  BY <1>25 DEF vars
<1> QED
  BY <1>1, <1>2, <1>3, <1>4, <1>5, <1>6, <1>7, <1>8, <1>9, <1>10, <1>11, <1>12, <1>13,
     <1>14, <1>15, <1>16, <1>17, <1>18, <1>19, <1>20, <1>21, <1>22, <1>23, <1>24, <1>25
     DEF Next, Process

-----------------------------------------------------------------------------
(* What is staged, recorded and counted                                    *)

\* Which streams a stage has drained: all but the ones the drain is still to reach.
LEMMA DrainedFacts ==
  /\ Drained("blocks") = {}
  /\ Drained("transactions") = {"blocks"}
  /\ Drained("inputs") = {"blocks", "transactions"}
  /\ Drained("outputs") = {"blocks", "transactions", "inputs"}
  /\ Drained("index") = Streams
  /\ Drained("loop") = {}
  /\ \A p : p \notin StagingStages => Drained(p) = {}
BY DEF Drained, StagingStages, Streams

\* A step that records and exports nothing, with nothing staged before or
\* after it, or drops what was staged and not drained.
LEMMA QuietStep ==
  ASSUME TypeOK, Inv, index' \in [Block -> 0..CURRENT_INDEX_SCHEMA_VERSION],
         pc \notin StagingStages \/ pc = "loop", pc' \notin StagingStages,
         pending' = {}, buf' = {}, exports' = exports,
         \A b \in Block : index'[b] = CURRENT_INDEX_SCHEMA_VERSION
                            <=> index[b] = CURRENT_INDEX_SCHEMA_VERSION,
         faults'["crash"] = faults["crash"]
  PROVE  Inv'
<1>1. Staged'
  BY DEF Staged, StagingStages
<1>2. IndexImpliesExported'
  BY DEF Inv, IndexImpliesExported
<1>3. ASSUME NEW s \in Streams, NEW b \in Block
      PROVE  Completing(s, b)' <=> Completing(s, b)
  BY DrainedFacts DEF Completing
<1>4. \A s \in Streams, b \in Block : Older(s, b)' <=> Older(s, b)
  BY DEF Older
<1>5. Counted'
  BY <1>3, <1>4 DEF Inv, Counted
<1> QED
  BY <1>1, <1>2, <1>5 DEF Inv

\* At the start nothing is staged, and only the older streams have rows.
LEMMA InitInv == Init => Inv
<1> SUFFICES ASSUME Init PROVE Inv
  OBVIOUS
<1> DEFINE old == {active[h] : h \in 0..OldHeight}
<1> USE ConfigAssumption DEF CURRENT_INDEX_SCHEMA_VERSION
<1>1. \A b \in old : b \in Block /\ Height[b] <= OldHeight
  BY InitTypeOK, ActiveFacts DEF Init
<1>2. Staged
  BY DEF Init, Staged, StagingStages, Streams
<1>3. IndexImpliesExported
  BY DEF Init, IndexImpliesExported
<1>4. Counted
  <2> SUFFICES ASSUME NEW s \in Streams, NEW b \in Block
               PROVE  exports[s][b] <= (IF Completing(s, b) THEN 1 ELSE 0) + faults["crash"]
                                         + (IF Older(s, b) THEN 1 ELSE 0)
    BY DEF Counted
  <2>1. exports[s][b] = IF s \in OldStreams /\ b \in old THEN 1 ELSE 0
    BY DEF Init
  <2>2. ~Completing(s, b) /\ faults["crash"] = 0
    BY DEF Init, Completing, Fault
  <2>3. s \in OldStreams /\ b \in old => Older(s, b)
    BY <1>1 DEF Older
  <2> QED
    BY <2>1, <2>2, <2>3
<1> QED
  BY <1>2, <1>3, <1>4 DEF Inv

\* A step that touches neither the books nor the progress of a checkpoint.
LEMMA SameBooks ==
  ASSUME Inv, UNCHANGED <<index, exports, pending, faults["crash"]>>, Staged',
         Drained(pc') = Drained(pc)
  PROVE  Inv'
<1>1. IndexImpliesExported'
  BY DEF Inv, IndexImpliesExported
<1>2. Counted'
  BY DEF Inv, Counted, Completing, Older
<1> QED
  BY <1>1, <1>2 DEF Inv

\* The same with nothing staged and no stage of the loop or a drain involved.
LEMMA StepAside ==
  ASSUME Inv, UNCHANGED <<index, exports, pending, buf, faults["crash"]>>,
         pc' = pc \/ (pc \notin StagingStages /\ pc' \notin StagingStages)
  PROVE  Inv'
<1>1. Drained(pc') = Drained(pc)
  BY DrainedFacts
<1>2. Staged'
  BY <1>1 DEF Inv, Staged, StagingStages
<1> QED
  BY <1>1, <1>2, SameBooks

\* A crash forgets what was staged: its half done export is the one counted.
LEMMA CrashInv ==
  ASSUME TypeOK, Inv, ProcessDies, faults' = [faults EXCEPT !["crash"] = @ + 1]
  PROVE  Inv'
<1>1. /\ UNCHANGED <<index, exports>> /\ pending' = {} /\ buf' = {} /\ pc' = "down"
      /\ faults["crash"] \in Nat /\ faults'["crash"] = faults["crash"] + 1
  BY DEF ProcessDies, ResetLocals, files, TypeOK, Fault
<1>2. Staged'
  BY <1>1 DEF Staged, StagingStages, Streams
<1>3. IndexImpliesExported'
  BY <1>1 DEF Inv, IndexImpliesExported
<1>4. Counted'
  <2> SUFFICES ASSUME NEW s \in Streams, NEW b \in Block
               PROVE  exports'[s][b] <= (IF Completing(s, b)' THEN 1 ELSE 0) + faults'["crash"]
                                          + (IF Older(s, b) THEN 1 ELSE 0)
    BY DEF Counted, Older
  <2>1. exports[s][b] <= (IF Completing(s, b) THEN 1 ELSE 0) + faults["crash"]
                           + (IF Older(s, b) THEN 1 ELSE 0)
    BY DEF Inv, Counted
  <2>2. exports[s][b] \in Nat
    BY DEF TypeOK
  <2> QED
    BY <1>1, <2>1, <2>2
<1> QED
  BY <1>2, <1>3, <1>4 DEF Inv

\* Applying a block stages it only if it has no current row yet.
LEMMA ProcessBlockInv ==
  ASSUME TypeOK, Inv, NEW b \in Block, pc = "loop", ProcessBlock(b)
  PROVE  Inv'
<1>1. UNCHANGED <<index, exports, faults>> /\ pc' \in {"loop", "blocks"}
  BY DEF ProcessBlock, files
<1>2. Drained(pc') = {} /\ Drained(pc) = {}
  BY <1>1, DrainedFacts
<1>3. buf = pending /\ buf' = pending'
  BY DEF ProcessBlock, Inv, Staged
<1>4. \A c \in pending' : index'[c] < CURRENT_INDEX_SCHEMA_VERSION
  <2>1. NeedsExport(b) => index[b] < CURRENT_INDEX_SCHEMA_VERSION
    BY DEF NeedsExport, CURRENT_INDEX_SCHEMA_VERSION
  <2> QED
    BY <1>1, <2>1 DEF ProcessBlock, Inv, Staged
<1>5. Staged'
  BY <1>1, <1>2, <1>3, <1>4 DEF Staged, StagingStages, Streams
<1>6. IndexImpliesExported'
  BY <1>1 DEF Inv, IndexImpliesExported
<1>7. Counted'
  BY <1>1, <1>2 DEF Inv, Counted, Completing, Older
<1> QED
  BY <1>5, <1>6, <1>7 DEF Inv

\* Draining one stream gives it the staged rows, none of which is on record.
LEMMA DrainInv ==
  ASSUME TypeOK, Inv, NEW s \in Streams, Drain(s)
  PROVE  Inv'
<1>1. /\ buf = pending /\ pc = s /\ UNCHANGED <<index, pending, faults>>
      /\ \A b \in pending : index[b] < CURRENT_INDEX_SCHEMA_VERSION
  BY DEF Drain, Inv, Staged, stores
<1>2. /\ s \notin Drained(pc) /\ Drained(pc') = Drained(pc) \union {s}
      /\ Drained(pc) \subseteq Streams /\ pc' \in Streams \union {"index"}
  BY <1>1, StageNames, DrainedFacts DEF Drain, Streams
<1>3. ASSUME NEW t \in Streams, NEW b \in Block
      PROVE  exports'[t][b] = IF t = s /\ b \in pending THEN exports[t][b] + 1
                              ELSE exports[t][b]
  BY <1>1 DEF Drain, TypeOK
<1>4. \A t \in Streams, b \in Block : exports[t][b] \in Nat
  BY DEF TypeOK
<1>5. pending \subseteq Block
  BY DEF TypeOK
<1>6. Staged'
  <2>1. \A b \in pending' : \A t \in Drained(pc') : exports'[t][b] > 0
    BY <1>1, <1>2, <1>3, <1>4, <1>5 DEF Inv, Staged
  <2>2. (pc' \in Streams => buf' = pending') /\ (pc' = "index" => buf' = {})
    BY <1>1, StageNames DEF Drain, Streams
  <2> QED
    BY <1>1, <1>2, <2>1, <2>2 DEF Staged, StagingStages, Streams
<1>7. IndexImpliesExported'
  BY <1>1, <1>3, <1>4 DEF Inv, IndexImpliesExported
<1>8. Counted'
  <2> SUFFICES ASSUME NEW t \in Streams, NEW b \in Block
               PROVE  exports'[t][b] <= (IF Completing(t, b)' THEN 1 ELSE 0) + faults["crash"]
                                          + (IF Older(t, b) THEN 1 ELSE 0)
    BY <1>1 DEF Counted, Older
  <2>1. exports[t][b] <= (IF Completing(t, b) THEN 1 ELSE 0) + faults["crash"]
                           + (IF Older(t, b) THEN 1 ELSE 0)
    BY DEF Inv, Counted
  <2>2. faults["crash"] \in Nat
    BY DEF TypeOK, Fault
  <2>3. CASE t = s /\ b \in pending
    <3>1. ~Completing(t, b) /\ Completing(t, b)'
      BY <1>1, <1>2, <2>3 DEF Completing, TypeOK, CURRENT_INDEX_SCHEMA_VERSION
    <3> QED
      BY <1>3, <1>4, <2>1, <2>2, <2>3, <3>1 DEF Older
  <2>4. CASE ~(t = s /\ b \in pending)
    <3>1. Completing(t, b)' <=> Completing(t, b)
      BY <1>1, <1>2, <2>4 DEF Completing
    <3> QED
      BY <1>3, <2>1, <2>4, <3>1
  <2> QED
    BY <2>3, <2>4
<1> QED
  BY <1>6, <1>7, <1>8 DEF Inv

\* The index gets the rows whose four streams are complete.
LEMMA FlushIndexInv ==
  ASSUME TypeOK, Inv, FlushIndex
  PROVE  Inv'
<1> USE DEF CURRENT_INDEX_SCHEMA_VERSION
<1>1. /\ pc = "index" /\ pc' = "status" /\ pending' = {} /\ buf = {} /\ buf' = {}
      /\ UNCHANGED <<exports, faults>>
  BY StageNames DEF FlushIndex, Inv, Staged, locals
<1>2. \A b \in Block : index'[b] = IF b \in pending THEN 2 ELSE index[b]
  BY DEF FlushIndex
<1>3. Drained(pc) = Streams /\ Drained(pc') = {}
  BY <1>1, DrainedFacts DEF StagingStages, Streams
<1>4. Staged'
  BY <1>1 DEF Staged, StagingStages, Streams
<1>5. IndexImpliesExported'
  BY <1>1, <1>2, <1>3 DEF Inv, Staged, IndexImpliesExported
<1>6. \A s \in Streams, b \in Block : Completing(s, b)' <=> Completing(s, b)
  BY <1>1, <1>2, <1>3 DEF Completing
<1>7. Counted'
  BY <1>1, <1>6 DEF Inv, Counted, Older
<1> QED
  BY <1>4, <1>5, <1>7 DEF Inv

\* Every step keeps the record behind the exports, and the exports counted.
LEMMA InvStep == TypeOK /\ TypeOK' /\ Inv /\ [Next]_vars => Inv'
<1> SUFFICES ASSUME TypeOK, TypeOK', Inv, [Next]_vars PROVE Inv'
  OBVIOUS
<1> USE StageNames DEF node, files, stores, locals
<1>0. /\ index' \in [Block -> 0..CURRENT_INDEX_SCHEMA_VERSION]
      /\ pc \notin StagingStages => pending = {} /\ buf = {}
  BY DEF TypeOK, Inv, Staged
<1>1. CASE NodeMoves \/ SplunkTakes
  BY <1>1, StepAside DEF NodeMoves, SplunkTakes
<1>2. CASE Crash
  BY <1>2, CrashInv DEF Crash, Hit
<1>3. CASE Stop
  BY <1>3, StepAside DEF Stop, Hit, TypeOK, Fault
<1>4. CASE RpcFails
  BY <1>0, <1>4, QuietStep DEF RpcFails, Hit, DiscardPending, ResetLocals, StagingStages,
     Streams, TypeOK, Fault
<1>5. CASE Exit \/ WalkBackFails
  BY <1>0, <1>5, QuietStep DEF Exit, WalkBackFails, ProcessDies, ResetLocals, StagingStages,
     Streams
<1>6. CASE Restart \/ BeginPass \/ ReadCurrent \/ CheckLiveHash \/ WalkBack \/ FlushDetached
  BY <1>6, StepAside DEF Restart, BeginPass, ReadCurrent, CheckLiveHash, WalkBack,
     FlushDetached, StagingStages, Streams
<1>7. CASE IdlePointer \/ FlushStatus
  BY <1>7, StepAside DEF IdlePointer, FlushStatus, StagingStages, Streams
<1>8. CASE SeedFromBlocksCsv
  <2>1. \A b \in Block : index'[b] = 2 <=> index[b] = 2
    BY <1>8 DEF SeedFromBlocksCsv, TypeOK
  <2> QED
    BY <1>0, <1>8, <2>1, QuietStep DEF SeedFromBlocksCsv, StagingStages, Streams,
       CURRENT_INDEX_SCHEMA_VERSION
<1>9. CASE IdleStatus
  BY <1>0, <1>9, QuietStep DEF IdleStatus, ResetLocals, StagingStages, Streams
<1>10. CASE PlanPass
  <2>1. UNCHANGED <<index, exports, pending, buf, faults>> /\ pc = "plan"
        /\ pc' \in {"loop", "idlePointer"}
    BY <1>10 DEF PlanPass
  <2>2. Drained(pc) = {} /\ Drained(pc') = {}
    BY <2>1, DrainedFacts DEF StagingStages, Streams
  <2>3. Staged'
    BY <1>0, <2>1, <2>2 DEF Staged, StagingStages, Streams
  <2> QED
    BY <2>1, <2>2, <2>3, SameBooks
<1>11. CASE ProcessHeight \/ ProcessPrefetched
  <2>1. PICK b \in Block : ProcessBlock(b) /\ pc = "loop"
    <3>1. CASE ProcessPrefetched
      BY <3>1 DEF ProcessPrefetched, TypeOK
    <3>2. CASE ProcessHeight
      <4>1. NextHeight \in 0..tip
        BY <3>2, ConfigAssumption, HeightOfType
           DEF TypeOK, ProcessHeight, MoreHeights, NextHeight
      <4> QED
        BY <3>2, <4>1, ActiveFacts DEF ProcessHeight
    <3> QED
      BY <1>11, <3>1, <3>2
  <2> QED
    BY <2>1, ProcessBlockInv
<1>12. CASE EndPass \/ PrefetchedMismatch
  <2>1. /\ UNCHANGED <<index, exports, pending, buf, faults>>
        /\ pc = "loop" /\ pc' = "blocks"
    BY <1>12 DEF EndPass, PrefetchedMismatch, BeginEnd
  <2>2. Drained(pc) = {} /\ Drained(pc') = {}
    BY <2>1, DrainedFacts
  <2>3. Staged'
    BY <2>1, <2>2 DEF Inv, Staged, StagingStages, Streams
  <2> QED
    BY <2>1, <2>2, <2>3, SameBooks
<1>13. ASSUME NEW s \in Streams, Drain(s) PROVE Inv'
  BY <1>13, DrainInv
<1>14. CASE FlushIndex
  BY <1>14, FlushIndexInv
<1>15. CASE WritePointer
  <2>1. /\ UNCHANGED <<index, exports, pending, faults>> /\ buf' = {} /\ pending = {}
        /\ pc = "pointer" /\ pc' \in {"idle", "loop"}
    BY <1>0, <1>15 DEF WritePointer, ResetLocals, StagingStages, Streams
  <2>2. Drained(pc) = {} /\ Drained(pc') = {}
    BY <2>1, DrainedFacts DEF StagingStages, Streams
  <2>3. Staged'
    BY <2>1, <2>2 DEF Staged, StagingStages, Streams
  <2> QED
    BY <2>1, <2>2, <2>3, SameBooks
<1>16. CASE UNCHANGED vars
  BY <1>16, StepAside DEF vars
<1> QED
  BY <1>1, <1>2, <1>3, <1>4, <1>5, <1>6, <1>7, <1>8, <1>9, <1>10, <1>11, <1>12, <1>13,
     <1>14, <1>15, <1>16 DEF Next, Process

-----------------------------------------------------------------------------
(* Chains share what is below a common block.                              *)

\* Every set of heights has a lowest one ...
LEMMA LeastNatural ==
  ASSUME NEW T \in SUBSET Nat, T # {}
  PROVE  \E n \in T : \A m \in T : n <= m
<1>1. IsWellFoundedOn(OpToRel(<, Nat), Nat)
  BY NatLessThanWellFounded
<1>2. \E n \in T : \A m \in T : ~ (<<m, n>> \in OpToRel(<, Nat))
  BY <1>1, WFMin
<1>3. \A m, n \in Nat : m < n => <<m, n>> \in OpToRel(<, Nat)
  BY DEF OpToRel
<1>4. \A m, n \in Nat : ~(m < n) => n <= m
  OBVIOUS
<1> QED
  BY <1>2, <1>3, <1>4

\* ... so a set that holds 0 and with each number the next one holds them all.
LEMMA SetInduction ==
  ASSUME NEW S \in SUBSET Nat, 0 \in S, \A n \in S : n + 1 \in S
  PROVE  S = Nat
<1> DEFINE T == Nat \ S
<1> SUFFICES ASSUME T # {} PROVE FALSE
  OBVIOUS
<1>1. PICK n \in T : \A m \in T : n <= m
  <2> HIDE DEF T
  <2>1. T \in SUBSET Nat
    BY DEF T
  <2> QED
    BY <2>1, LeastNatural
<1>2. n \in Nat /\ n # 0
  BY <1>1
<1>3. n - 1 \in S
  BY <1>1, <1>2
<1> QED
  BY <1>1, <1>2, <1>3

\* Two chains that share a block share everything below it.
LEMMA SameBelow ==
  ASSUME NEW n \in Nat, NEW c \in ChainsTo(n), NEW m \in Nat, NEW d \in ChainsTo(m),
         NEW h \in Nat, h <= n, h <= m, c[h] = d[h]
  PROVE  \A k \in 0..h : c[k] = d[k]
<1> DEFINE S == {j \in Nat : j <= h => c[h - j] = d[h - j]}
<1>1. 0 \in S
  OBVIOUS
<1>2. ASSUME NEW j \in S PROVE j + 1 \in S
  <2>1. CASE j + 1 <= h
    <3>1. c[h - j] = d[h - j] /\ h - j \in 1..n /\ h - j \in 1..m
      BY <1>2, <2>1
    <3>2. Parent[c[h - j]] = c[h - j - 1] /\ Parent[d[h - j]] = d[h - j - 1]
      BY <3>1, ChainFacts
    <3> QED
      BY <3>1, <3>2
  <2>2. CASE ~(j + 1 <= h)
    BY <2>2
  <2> QED
    BY <2>1, <2>2
<1>3. S = Nat
  <2> HIDE DEF S
  <2>1. S \in SUBSET Nat
    BY DEF S
  <2> QED
    BY <1>1, <1>2, <2>1, SetInduction
<1> QED
  <2> SUFFICES ASSUME NEW k \in 0..h PROVE c[k] = d[k]
    OBVIOUS
  <2>1. h - k \in S
    <3> HIDE DEF S
    <3>1. h - k \in Nat
      OBVIOUS
    <3> QED
      BY <1>3, <3>1
  <2>2. c[h - (h - k)] = d[h - (h - k)] /\ h - (h - k) = k
    BY <2>1
  <2> QED
    BY <2>2

\* What makes a function a chain.
LEMMA IsChain ==
  ASSUME NEW n \in 0..MaxHeight, NEW c \in [0..n -> Block],
         \A h \in 0..n : Height[c[h]] = h, \A h \in 1..n : Parent[c[h]] = c[h-1]
  PROVE  c \in ChainsTo(n)
<1> DEFINE F(k) == {d \in [0..k -> Block] : /\ \A h \in 0..k : Height[d[h]] = h
                                           /\ \A h \in 1..k : Parent[d[h]] = d[h-1]}
<1>1. c \in F(n)
  OBVIOUS
<1>2. Chains = UNION {F(k) : k \in 0..MaxHeight}
  BY DEF Chains
<1>3. DOMAIN c = 0..n
  OBVIOUS
<1> HIDE DEF F
<1>4. c \in Chains
  <2>1. F(n) \in {F(k) : k \in 0..MaxHeight}
    OBVIOUS
  <2> QED
    BY <1>1, <1>2, <2>1
<1> QED
  BY <1>3, <1>4 DEF ChainsTo

\* A chain cut short is a chain.
LEMMA ChainPrefix ==
  ASSUME NEW n \in 0..MaxHeight, NEW c \in ChainsTo(n), NEW m \in 0..n
  PROVE  [h \in 0..m |-> c[h]] \in ChainsTo(m)
<1> DEFINE d == [h \in 0..m |-> c[h]]
<1>1. /\ c \in [0..n -> Block]
      /\ \A h \in 0..n : Height[c[h]] = h
      /\ \A h \in 1..n : Parent[c[h]] = c[h-1]
  BY ChainFacts
<1>2. /\ d \in [0..m -> Block]
      /\ \A h \in 0..m : Height[d[h]] = h
      /\ \A h \in 1..m : Parent[d[h]] = d[h-1]
  BY <1>1
<1>3. m \in 0..MaxHeight
  BY ConfigAssumption
<1> HIDE DEF d
<1>4. d \in ChainsTo(m)
  BY <1>2, <1>3, IsChain
<1> QED
  BY <1>4 DEF d

\* Every block up to MaxHeight ends a chain.
LEMMA ChainOf ==
  ASSUME NEW b \in Block, Height[b] <= MaxHeight
  PROVE  \E c \in ChainsTo(Height[b]) : c[Height[b]] = b
<1> DEFINE S == {n \in Nat : n <= MaxHeight =>
                   \A x \in Block : Height[x] = n => \E c \in ChainsTo(n) : c[n] = x}
<1>1. 0 \in S
  <2> SUFFICES ASSUME NEW x \in Block, Height[x] = 0
               PROVE  \E c \in ChainsTo(0) : c[0] = x
    OBVIOUS
  <2> DEFINE c == [h \in 0..0 |-> x]
  <2>1. c \in [0..0 -> Block] /\ c[0] = x /\ \A h \in 0..0 : Height[c[h]] = h
    OBVIOUS
  <2>2. \A h \in 1..0 : Parent[c[h]] = c[h-1]
    OBVIOUS
  <2>3. 0 \in 0..MaxHeight
    BY ConfigAssumption
  <2>4. c \in ChainsTo(0)
    <3> HIDE DEF c
    <3> QED
      BY <2>1, <2>2, <2>3, IsChain
  <2> QED
    BY <2>1, <2>4
<1>2. ASSUME NEW n \in S PROVE n + 1 \in S
  <2> SUFFICES ASSUME n + 1 <= MaxHeight, NEW x \in Block, Height[x] = n + 1
               PROVE  \E c \in ChainsTo(n + 1) : c[n + 1] = x
    OBVIOUS
  <2>1. Parent[x] \in Block /\ Height[Parent[x]] = n
    BY ChainAssumption
  <2>2. PICK d \in ChainsTo(n) : d[n] = Parent[x]
    BY <2>1, ConfigAssumption
  <2>3. d \in [0..n -> Block] /\ (\A h \in 0..n : Height[d[h]] = h)
        /\ \A h \in 1..n : Parent[d[h]] = d[h-1]
    BY ChainFacts
  <2> DEFINE c == [h \in 0..n+1 |-> IF h = n + 1 THEN x ELSE d[h]]
  <2>4. c \in [0..n+1 -> Block] /\ c[n + 1] = x
    BY <2>3
  <2>5. \A h \in 0..n+1 : Height[c[h]] = h
    BY <2>3
  <2>6. \A h \in 1..n+1 : Parent[c[h]] = c[h-1]
    BY <2>2, <2>3
  <2>7. c \in ChainsTo(n + 1)
    <3> HIDE DEF c
    <3>1. n + 1 \in 0..MaxHeight
      BY ConfigAssumption
    <3> QED
      BY <2>4, <2>5, <2>6, <3>1, IsChain
  <2> QED
    BY <2>4, <2>7
<1>3. S = Nat
  <2> HIDE DEF S
  <2>1. S \in SUBSET Nat
    BY DEF S
  <2> QED
    BY <1>1, <1>2, <2>1, SetInduction
<1>4. Height[b] \in S
  BY <1>3, ParentFacts
<1> QED
  BY <1>4

\* x is b or one of the blocks b builds on.
Onto(x, b) ==
  /\ Height[x] <= Height[b]
  /\ \E c \in ChainsTo(Height[b]) : c[Height[b]] = b /\ c[Height[x]] = x

\* A block is its own first ancestor.
LEMMA OntoSelf ==
  ASSUME NEW b \in Block, Height[b] <= MaxHeight
  PROVE  Onto(b, b)
<1>1. Height[b] <= Height[b]
  BY ParentFacts
<1> QED
  BY <1>1, ChainOf DEF Onto

\* What one block builds on and another builds on it.
LEMMA OntoTrans ==
  ASSUME NEW x \in Block, NEW y \in Block, NEW z \in Block, Onto(x, y), Onto(y, z)
  PROVE  Onto(x, z)
<1>1. PICK c \in ChainsTo(Height[y]) : c[Height[y]] = y /\ c[Height[x]] = x
  BY DEF Onto
<1>2. PICK d \in ChainsTo(Height[z]) : d[Height[z]] = z /\ d[Height[y]] = y
  BY DEF Onto
<1>3. /\ Height[x] \in Nat /\ Height[y] \in Nat /\ Height[z] \in Nat
      /\ Height[x] <= Height[y] /\ Height[y] <= Height[z]
  BY ParentFacts DEF Onto
<1>4. \A k \in 0..Height[y] : c[k] = d[k]
  BY <1>1, <1>2, <1>3, SameBelow
<1>5. d[Height[x]] = x /\ Height[x] <= Height[z]
  BY <1>1, <1>3, <1>4
<1> QED
  BY <1>2, <1>5 DEF Onto

\* The ancestors of a block are the block itself and the ancestors of its parent.
LEMMA OntoParent ==
  ASSUME NEW x \in Block, NEW b \in Block, Height[b] <= MaxHeight, Onto(x, b), x # b
  PROVE  Height[b] > 0 /\ Parent[b] \in Block /\ Onto(x, Parent[b])
<1> DEFINE n == Height[b]
<1>1. n \in Nat /\ Height[x] \in Nat /\ Height[x] <= n
  BY ParentFacts DEF Onto
<1>2. PICK c \in ChainsTo(n) : c[n] = b /\ c[Height[x]] = x
  BY DEF Onto
<1>3. Height[x] # n
  BY <1>2
<1>4. n > 0 /\ Parent[b] \in Block /\ Height[Parent[b]] = n - 1
  BY <1>1, <1>3, ChainAssumption
<1>5. c[n - 1] = Parent[b]
  BY <1>1, <1>2, <1>4, ChainFacts
<1>6. [h \in 0..n-1 |-> c[h]] \in ChainsTo(n - 1)
  BY <1>1, <1>4, ConfigAssumption, ChainPrefix
<1>7. Height[x] \in 0..n-1
  BY <1>1, <1>3, <1>4
<1>8. \E d \in ChainsTo(n - 1) : d[n - 1] = Parent[b] /\ d[Height[x]] = x
  <2>1. n - 1 \in 0..n-1
    BY <1>1, <1>4
  <2> QED
    BY <1>2, <1>5, <1>6, <1>7, <2>1
<1> QED
  BY <1>4, <1>7, <1>8 DEF Onto

\* A block is above the one it builds on.
LEMMA ParentBelow ==
  ASSUME NEW b \in Block, Height[b] <= MaxHeight, Height[b] > 0
  PROVE  Onto(Parent[b], b)
<1>1. Height[b] \in Nat /\ Parent[b] \in Block /\ Height[Parent[b]] = Height[b] - 1
  BY ChainAssumption
<1>2. PICK c \in ChainsTo(Height[b]) : c[Height[b]] = b
  BY ChainOf
<1>3. c[Height[b] - 1] = Parent[b]
  BY <1>1, <1>2, ChainFacts
<1> QED
  BY <1>1, <1>2, <1>3 DEF Onto

-----------------------------------------------------------------------------
(* A batch that the pool has read is of one branch.                        *)

\* Up to the last height of the pool, what is staged are ancestors of last_hash.
Strand ==
  pending # {} /\ HeightOf(at) <= parEnd => at \in Block /\ \A b \in pending : Onto(b, at)

\* OneBranch alone is not inductive: it does not say that the chain goes on to
\* last_hash, the block the next one is compared with.
Branch == OneBranch /\ Strand

\* Nothing staged is of one branch.
LEMMA NothingStaged ==
  ASSUME TypeOK, pending = {}
  PROVE  Branch
<1>1. active \in Chains
  BY DEF TypeOK, ChainsTo
<1> QED
  BY <1>1 DEF Branch, OneBranch, Strand

\* The ancestors of one block lie on one chain.
LEMMA OntoOneChain ==
  ASSUME NEW a \in Block, Height[a] <= MaxHeight,
         NEW S \in SUBSET Block, \A b \in S : Onto(b, a)
  PROVE  \E chain \in Chains : \A b \in S : Height[b] \in DOMAIN chain /\ chain[Height[b]] = b
<1> DEFINE n == Height[a]
<1>1. n \in Nat
  BY ParentFacts
<1>2. PICK chain \in ChainsTo(n) : chain[n] = a
  BY ChainOf
<1>3. ASSUME NEW b \in S
      PROVE  Height[b] \in 0..n /\ chain[Height[b]] = b
  <2>1. b \in Block /\ Height[b] \in Nat /\ Height[b] <= n
    BY <1>3, ParentFacts DEF Onto
  <2>2. PICK c \in ChainsTo(n) : c[n] = a /\ c[Height[b]] = b
    BY <1>3 DEF Onto
  <2>3. \A k \in 0..n : chain[k] = c[k]
    BY <1>1, <1>2, <2>2, SameBelow
  <2> QED
    BY <1>1, <2>1, <2>2, <2>3
<1>4. chain \in Chains /\ DOMAIN chain = 0..n
  BY <1>2 DEF ChainsTo
<1> QED
  BY <1>3, <1>4

\* A block of the pool joins the branch it builds on.
LEMMA PrefetchedBranch ==
  ASSUME TypeOK, TypeOK', Branch, ProcessPrefetched
  PROVE  Branch'
<1>1. PICK b \in seen : Height[b] = NextHeight /\ BuildsOn(b, at) /\ ProcessBlock(b)
  BY DEF ProcessPrefetched
<1>2. /\ b \in Block /\ at' = b /\ pending' \subseteq pending \union {b}
      /\ parEnd' = parEnd /\ NextHeight <= parEnd
  BY <1>1 DEF TypeOK, ProcessBlock, ProcessPrefetched
<1>3. HeightOf(at) \in Int /\ HeightOf(at) >= -1 /\ Height[b] = HeightOf(at) + 1
  BY <1>1, HeightOfType DEF TypeOK, NextHeight
<1>4. HeightOf(at) <= parEnd /\ Height[b] <= parEnd /\ Height[b] <= MaxHeight
  BY <1>1, <1>2, <1>3, ConfigAssumption DEF TypeOK
<1>5. Onto(b, b)
  BY <1>2, <1>4, OntoSelf
<1>6. ASSUME NEW x \in pending, at \in Block, Onto(x, at)
      PROVE  Onto(x, b)
  <2>1. Parent[b] = at /\ x \in Block
    BY <1>1, <1>6, ChainAssumption DEF BuildsOn, TypeOK
  <2>2. Height[b] > 0
    BY <1>2, <2>1, <1>6, ChainAssumption
  <2>3. Onto(at, b)
    BY <1>2, <1>4, <2>1, <2>2, ParentBelow
  <2> QED
    BY <1>2, <1>6, <2>1, <2>3, OntoTrans
<1>7. \A x \in pending : at \in Block /\ Onto(x, at)
  BY <1>4 DEF Branch, Strand
<1>8. \A x \in pending' : Onto(x, b)
  BY <1>2, <1>5, <1>6, <1>7
<1>9. Strand'
  BY <1>2, <1>8 DEF Strand, Onto
<1>10. pending' \in SUBSET Block
  BY DEF TypeOK
<1>11. OneBranch'
  BY <1>2, <1>4, <1>8, <1>10, OntoOneChain DEF OneBranch
<1> QED
  BY <1>9, <1>11 DEF Branch

\* A block the node is asked for lies above those of the pool.
LEMMA SequentialBranch ==
  ASSUME TypeOK, Branch, ProcessHeight
  PROVE  Branch'
<1> DEFINE b == active[NextHeight]
<1>1. NextHeight \in 0..tip
  BY ConfigAssumption, HeightOfType DEF TypeOK, ProcessHeight, MoreHeights, NextHeight
<1>2. b \in Block /\ Height[b] = NextHeight /\ HeightOf(b) = NextHeight
  BY <1>1, ActiveFacts, ParentFacts
<1>3. /\ at' = b /\ pending' \subseteq pending \union {b} /\ parEnd' = parEnd
      /\ NextHeight > parEnd /\ parEnd \in Int /\ NextHeight \in Int
  BY <1>1, ConfigAssumption DEF ProcessHeight, ProcessBlock, TypeOK
<1> HIDE DEF b
<1>4. Strand'
  <2>1. ~(HeightOf(at') <= parEnd')
    BY <1>2, <1>3
  <2> QED
    BY <2>1 DEF Strand, HeightOf
<1>5. OneBranch'
  <2>1. PICK chain \in Chains : \A x \in pending :
          Height[x] <= parEnd => Height[x] \in DOMAIN chain /\ chain[Height[x]] = x
    BY DEF Branch, OneBranch
  <2>2. ~(Height[b] <= parEnd)
    BY <1>2, <1>3
  <2> QED
    BY <1>3, <2>1, <2>2 DEF OneBranch
<1> QED
  BY <1>4, <1>5 DEF Branch

\* Every other step leaves what is staged and last_hash alone, or nothing is staged.
LEMMA BranchStep ==
  TypeOK /\ TypeOK' /\ Inv /\ Branch /\ [Next]_vars => Branch'
<1> SUFFICES ASSUME TypeOK, TypeOK', Inv, Branch, [Next]_vars PROVE Branch'
  OBVIOUS
<1> USE DEF files, stores, locals
<1>1. ASSUME UNCHANGED <<pending, at, parEnd>> PROVE Branch'
  BY <1>1 DEF Branch, OneBranch, Strand, HeightOf, Onto
<1>2. ASSUME pending' = {} PROVE Branch'
  <2>1. active' \in Chains
    BY DEF TypeOK, ChainsTo
  <2> QED
    BY <1>2, <2>1 DEF Branch, OneBranch, Strand
<1>3. pc \notin StagingStages => pending = {}
  BY DEF Inv, Staged
<1>4. CASE NodeMoves \/ SplunkTakes \/ Stop \/ UNCHANGED vars
  BY <1>1, <1>4 DEF NodeMoves, SplunkTakes, Stop, vars
<1>5. CASE Crash \/ Exit \/ WalkBackFails \/ RpcFails
  BY <1>2, <1>5 DEF Crash, Exit, WalkBackFails, ProcessDies, RpcFails, DiscardPending
<1>6. CASE Restart \/ BeginPass \/ CheckLiveHash \/ FlushDetached \/ IdlePointer \/ FlushStatus
  BY <1>1, <1>6 DEF Restart, BeginPass, CheckLiveHash, FlushDetached, IdlePointer, FlushStatus
<1>7. CASE ReadCurrent \/ SeedFromBlocksCsv \/ WalkBack
  <2>1. pending' = pending /\ pc \in {"check", "walk"}
    BY <1>7 DEF ReadCurrent, SeedFromBlocksCsv, WalkBack
  <2> QED
    BY <1>2, <1>3, <2>1 DEF StagingStages, Streams
<1>8. CASE PlanPass \/ IdleStatus \/ WritePointer
  <2>1. pending' = pending /\ pc \in {"plan", "idleStatus", "pointer"}
    BY <1>8 DEF PlanPass, IdleStatus, WritePointer
  <2> QED
    BY <1>2, <1>3, <2>1 DEF StagingStages, Streams
<1>9. CASE ProcessHeight
  BY <1>9, SequentialBranch
<1>10. CASE ProcessPrefetched
  BY <1>10, PrefetchedBranch
<1>11. CASE EndPass \/ PrefetchedMismatch
  BY <1>1, <1>11 DEF EndPass, PrefetchedMismatch, BeginEnd
<1>12. ASSUME NEW s \in Streams, Drain(s) PROVE Branch'
  BY <1>1, <1>12 DEF Drain
<1>13. CASE FlushIndex
  BY <1>2, <1>13 DEF FlushIndex
<1> QED
  BY <1>4, <1>5, <1>6, <1>7, <1>8, <1>9, <1>10, <1>11, <1>12, <1>13 DEF Next, Process

-----------------------------------------------------------------------------
(* The record of exported blocks is never broken off.                      *)

Indexed(b) == index[b] # 0
OnActive(b) == Height[b] <= tip /\ active[Height[b]] = b

\* What index.csv, blocks.csv and the staged rows know of is within the node's
\* reach, and index.csv has no hole.
Known ==
  /\ \A b \in Block : Indexed(b) \/ blocksCsv[b] # "none" \/ b \in pending => Height[b] <= tip
  /\ \A b \in Block : Indexed(b) /\ Height[b] > 0 => Indexed(Parent[b])
  /\ current # NoBlock => Indexed(current)

\* A block whose rows reached blocks.csv and not index.csv: a checkpoint is on
\* its way to record it, or was interrupted.  Until current.csv exists the next
\* pass takes it from blocks.csv, and then the block below it must be there too.
AfterSeed == {"live", "walk", "audit", "plan", "loop", "idlePointer", "idleStatus",
              "blocks", "status", "pointer"}
MidDrain == {"transactions", "inputs", "outputs", "index"}
HalfDone ==
  \A b \in Block : blocksCsv[b] # "none" /\ ~Indexed(b) =>
    /\ pc \notin AfterSeed
    /\ pc \in MidDrain => b \in pending
    /\ Height[b] > 0 => Indexed(Parent[b]) \/ blocksCsv[Parent[b]] = "open"

\* A pass that has found where it stands extends what is on record along the
\* node's chain, one height after the other.
InPass == {"loop", "idlePointer", "idleStatus"} \union CheckpointStages
Extending ==
  pc \in InPass =>
    /\ at = NoBlock \/ Indexed(at) \/ at \in pending
    /\ \A h \in 0..HeightOf(at) : Indexed(active[h]) \/ active[h] \in pending
    /\ \A b \in pending : OnActive(b) /\ Height[b] <= HeightOf(at)
Pass ==
  /\ pc \in {"live", "walk", "audit"} => Indexed(at)
  /\ pc = "walk" => ~OnActive(at)
  /\ pc \in {"audit", "plan"} => at = NoBlock \/ (Indexed(at) /\ OnActive(at))
  /\ pc = "idlePointer" => at # NoBlock
  /\ Extending
  /\ pc \in {"idle", "down"} => parEnd = -1 /\ seen = {}
  /\ seen \subseteq {active[h] : h \in 0..tip}
  /\ atomic => \A b, c \in pending : b = c
  /\ pc = "loop" /\ atomic => pending = {}
  /\ pc \in MidDrain /\ ~atomic => \A b \in pending : blocksCsv[b] = "open"

\* The node has not changed its chain under a pass.
Steady == ReorgMode = "between" \/ ~overtaken

Unbroken == Known /\ (current = NoBlock => HalfDone) /\ Pass

\* What the node answers for a height is on its chain, and its chain has one
\* block per height.
LEMMA OnActiveFacts ==
  ASSUME TypeOK
  PROVE  /\ \A h \in 0..tip : active[h] \in Block /\ OnActive(active[h])
         /\ \A b \in Block : OnActive(b) => Height[b] \in 0..tip
         /\ \A b \in Block : OnActive(b) /\ Height[b] > 0 => active[Height[b] - 1] = Parent[b]
         /\ \A b \in Block : OnActive(b) /\ Height[b] > 0 => OnActive(Parent[b])
<1>1. tip \in Nat /\ tip \in 0..MaxHeight /\ active \in ChainsTo(tip)
  BY ConfigAssumption DEF TypeOK
<1>2. \A h \in 0..tip : active[h] \in Block /\ OnActive(active[h])
  BY ActiveFacts, <1>1 DEF OnActive
<1>3. \A b \in Block : OnActive(b) => Height[b] \in 0..tip
  BY <1>1, ParentFacts DEF OnActive
<1>4. ASSUME NEW b \in Block, OnActive(b), Height[b] > 0
      PROVE  active[Height[b] - 1] = Parent[b] /\ OnActive(Parent[b])
  <2>1. Height[b] \in 1..tip /\ active[Height[b]] = b
    BY <1>1, <1>3, <1>4 DEF OnActive
  <2>2. Parent[active[Height[b]]] = active[Height[b] - 1]
    BY <1>1, <2>1, ChainFacts
  <2>3. Height[b] - 1 \in 0..tip
    BY <1>1, <2>1
  <2> QED
    BY <1>2, <2>1, <2>2, <2>3
<1> QED
  BY <1>2, <1>3, <1>4

\* What a block of the node's chain builds on is on the node's chain.
LEMMA OntoOnActive ==
  ASSUME TypeOK, NEW x \in Block, NEW b \in Block, OnActive(b), Onto(x, b)
  PROVE  OnActive(x)
<1>1. tip \in Nat /\ active \in ChainsTo(tip)
  BY ConfigAssumption DEF TypeOK
<1>2. PICK c \in ChainsTo(Height[b]) : c[Height[b]] = b /\ c[Height[x]] = x
  BY DEF Onto
<1>3. /\ Height[b] \in Nat /\ Height[x] \in Nat /\ Height[x] <= Height[b]
      /\ Height[b] <= tip /\ active[Height[b]] = b
  BY ParentFacts DEF Onto, OnActive
<1>4. \A k \in 0..Height[b] : c[k] = active[k]
  BY <1>1, <1>2, <1>3, SameBelow
<1> QED
  BY <1>1, <1>2, <1>3, <1>4 DEF OnActive

\* Of two blocks on the node's chain the higher builds on the lower.
LEMMA OnActiveOnto ==
  ASSUME TypeOK, NEW x \in Block, NEW b \in Block, OnActive(b), OnActive(x),
         Height[x] <= Height[b]
  PROVE  Onto(x, b)
<1>1. tip \in 0..MaxHeight /\ active \in ChainsTo(tip)
  BY DEF TypeOK
<1>2. Height[b] \in 0..tip /\ Height[x] \in 0..Height[b]
  BY OnActiveFacts, ParentFacts, <1>1, ConfigAssumption
<1>3. [h \in 0..Height[b] |-> active[h]] \in ChainsTo(Height[b])
  BY <1>1, <1>2, ChainPrefix
<1>4. Height[b] \in 0..Height[b]
  BY <1>2
<1>5. \E c \in ChainsTo(Height[b]) : c[Height[b]] = b /\ c[Height[x]] = x
  BY <1>2, <1>3, <1>4 DEF OnActive
<1> QED
  BY <1>5 DEF Onto

\* If a block of the node's chain is on record, so is the chain below it.
LEMMA DownLinked ==
  ASSUME TypeOK, Known, NEW b \in Block, OnActive(b), Indexed(b)
  PROVE  \A h \in 0..Height[b] : Indexed(active[h])
<1> DEFINE n == Height[b]
           S == {j \in Nat : j <= n => Indexed(active[n - j])}
<1>1. n \in 0..tip /\ n \in Nat /\ tip \in Nat
  BY OnActiveFacts, ParentFacts, ConfigAssumption DEF TypeOK
<1>2. 0 \in S
  <2>1. n - 0 = n
    BY <1>1
  <2> QED
    BY <2>1 DEF OnActive
<1>3. ASSUME NEW j \in S PROVE j + 1 \in S
  <2>1. CASE j + 1 <= n
    <3>1. n - j \in 0..tip /\ n - j > 0 /\ n - (j + 1) = n - j - 1 /\ Indexed(active[n - j])
      BY <1>1, <1>3, <2>1
    <3>2. active[n - j] \in Block /\ Height[active[n - j]] = n - j /\ OnActive(active[n - j])
      BY <3>1, ActiveFacts, OnActiveFacts
    <3>3. Parent[active[n - j]] = active[n - j - 1] /\ Indexed(Parent[active[n - j]])
      BY <3>1, <3>2, OnActiveFacts DEF Known
    <3> QED
      BY <1>3, <3>1, <3>3
  <2>2. CASE ~(j + 1 <= n)
    BY <1>3, <2>2
  <2> QED
    BY <2>1, <2>2
<1>4. S = Nat
  <2> HIDE DEF S
  <2>1. S \in SUBSET Nat
    BY DEF S
  <2> QED
    BY <1>2, <1>3, <2>1, SetInduction
<1> SUFFICES ASSUME NEW h \in 0..n PROVE Indexed(active[h])
  OBVIOUS
<1>5. n - h \in Nat /\ n - h <= n /\ n - (n - h) = h
  BY <1>1
<1>6. n - h \in S
  <2> HIDE DEF S
  <2> QED
    BY <1>4, <1>5
<1> QED
  BY <1>5, <1>6

\* The history starts with an unbroken record, whatever the older schema left.
LEMMA InitUnbroken == Init => Unbroken
<1> SUFFICES ASSUME Init PROVE Unbroken
  OBVIOUS
<1> DEFINE old == {active[h] : h \in 0..OldHeight}
<1>0. TypeOK
  BY InitTypeOK
<1>1. /\ tip = InitHeight /\ blocksCsv = [b \in Block |-> "none"] /\ pending = {}
      /\ index = [b \in Block |-> IF b \in old THEN 1 ELSE 0]
      /\ current = IF OldHeight < 0 THEN NoBlock ELSE active[OldHeight]
      /\ pc = "idle" /\ seen = {} /\ parEnd = -1 /\ atomic = FALSE
  BY DEF Init
<1>2. \A h \in 0..OldHeight : h \in 0..tip
  BY <1>1, ConfigAssumption
<1>3. ASSUME NEW b \in Block, Indexed(b)
      PROVE  Height[b] <= tip /\ (Height[b] > 0 => Indexed(Parent[b]))
  <2>1. PICK h \in 0..OldHeight : b = active[h]
    BY <1>1, <1>3 DEF Indexed
  <2>2. Height[b] = h /\ h \in 0..tip
    BY <1>0, <1>2, <2>1, ActiveFacts
  <2>3. ASSUME h > 0 PROVE Indexed(Parent[b])
    <3>1. Parent[b] = active[h - 1] /\ Parent[b] \in Block
      BY <1>0, <2>1, <2>2, <2>3, OnActiveFacts, ParentFacts
    <3>2. h - 1 \in 0..OldHeight
      BY <2>3, ConfigAssumption
    <3>3. Parent[b] \in old
      BY <3>1, <3>2
    <3> HIDE DEF old
    <3> QED
      BY <1>1, <3>1, <3>3 DEF Indexed
  <2> QED
    BY <2>2, <2>3, <1>1, ConfigAssumption
<1>4. current # NoBlock => Indexed(current)
  <2> SUFFICES ASSUME ~(OldHeight < 0) PROVE Indexed(current)
    BY <1>1
  <2>1. OldHeight \in 0..OldHeight
    BY ConfigAssumption
  <2>2. active[OldHeight] \in Block /\ active[OldHeight] \in old
    BY <1>0, <1>2, <2>1, ActiveFacts
  <2> QED
    BY <1>1, <2>2 DEF Indexed
<1>5. Known
  BY <1>1, <1>3, <1>4 DEF Known
<1>6. HalfDone
  BY <1>1 DEF HalfDone
<1>7. Pass
  BY <1>1, StageNames DEF Pass, Extending, InPass, MidDrain
<1> QED
  BY <1>5, <1>6, <1>7 DEF Unbroken

\* Nothing to prove about the record where a step leaves it alone.
LEMMA SameRecord ==
  ASSUME Unbroken, UNCHANGED <<index, blocksCsv, current, tip>>, pending' \subseteq pending,
         pc' \in AfterSeed => pc \in AfterSeed,
         pc' \in MidDrain => pc \in MidDrain /\ pending' = pending
  PROVE  Known' /\ (current = NoBlock => HalfDone)'
<1>1. \A b \in Block : Indexed(b)' <=> Indexed(b)
  BY DEF Indexed
<1>2. Known'
  BY <1>1 DEF Unbroken, Known, Indexed
<1>3. (current = NoBlock => HalfDone)'
  BY <1>1 DEF Unbroken, HalfDone, Indexed
<1> QED
  BY <1>2, <1>3

\* A pass that is left, or does not start, claims nothing.
LEMMA LeaveUnbroken ==
  ASSUME TypeOK, Unbroken, UNCHANGED <<index, blocksCsv, current, tip, active>>,
         pending' = {}, seen' = {}, parEnd' = -1, atomic' = FALSE,
         pc' \in {"idle", "down", "check"}
  PROVE  Unbroken'
<1>1. Known' /\ (current = NoBlock => HalfDone)'
  BY SameRecord DEF AfterSeed, MidDrain
<1>2. Pass'
  BY StageNames DEF Pass, Extending, InPass, MidDrain
<1> QED
  BY <1>1, <1>2 DEF Unbroken

\* A pass stands within the node's reach.
LEMMA AtBelowTip ==
  ASSUME TypeOK, Unbroken, pc \in InPass
  PROVE  HeightOf(at) <= tip /\ \A h \in 0..HeightOf(at) : h \in 0..tip
<1>1. tip \in Nat
  BY ConfigAssumption DEF TypeOK
<1>2. CASE at = NoBlock
  BY <1>1, <1>2 DEF HeightOf
<1>3. CASE at # NoBlock
  <2>1. at \in Block /\ Height[at] <= tip
    BY <1>3 DEF Unbroken, Pass, Extending, Known, TypeOK
  <2> QED
    BY <1>1, <2>1, ParentFacts
<1> QED
  BY <1>2, <1>3

\* The node moves: either the loop is between two passes, or the new chain
\* agrees with the old one up to the old tip.
LEMMA NodeMovesUnbroken ==
  ASSUME Steady', TypeOK, TypeOK', Inv, Unbroken, NodeMoves
  PROVE  Unbroken'
<1>1. PICK n \in tip + 1 .. MaxHeight : \E c \in ChainsTo(n) :
        /\ MayReorg \/ c[tip] = active[tip]
        /\ tip' = n /\ active' = c
        /\ overtaken' = (overtaken \/ (c[tip] # active[tip] /\ ~(pc = "idle" /\ Settled)))
        /\ seen' = IF seen # {} THEN seen \union {c[h] : h \in 0..n} ELSE {}
  BY DEF NodeMoves
<1>2. PICK c \in ChainsTo(n) :
        /\ pc \in {"idle", "down"} \/ c[tip] = active[tip]
        /\ tip' = n /\ active' = c
        /\ seen' = IF seen # {} THEN seen \union {c[h] : h \in 0..n} ELSE {}
  BY <1>1 DEF MayReorg, Steady
<1>3. UNCHANGED <<index, blocksCsv, current, pending, pc, at, atomic, parEnd>>
  BY DEF NodeMoves, files, stores
<1>4. tip \in Nat /\ n \in Nat /\ tip < n
  BY ConfigAssumption DEF TypeOK
<1>5. \A b \in Block : Indexed(b)' <=> Indexed(b)
  BY <1>3 DEF Indexed
<1>6. Known'
  <2>1. \A b \in Block : Height[b] <= tip => Height[b] <= n
    BY <1>4, ParentFacts
  <2> QED
    BY <1>2, <1>3, <1>5, <2>1 DEF Unbroken, Known, Indexed
<1>7. (current = NoBlock => HalfDone)'
  BY <1>3, <1>5 DEF Unbroken, HalfDone, Indexed
<1>8. Pass'
  <2>1. CASE pc \in {"idle", "down"}
    <3>1. pending = {} /\ seen' = {} /\ parEnd' = -1
      <4>1. pending = {}
        BY <2>1, StageNames DEF Inv, Staged, StagingStages, Streams
      <4> QED
        BY <1>2, <1>3, <2>1, <4>1 DEF Unbroken, Pass
    <3> QED
      BY <1>3, <2>1, <3>1, StageNames DEF Pass, Extending, InPass, MidDrain
  <2>2. CASE c[tip] = active[tip]
    <3>1. \A k \in 0..tip : active'[k] = active[k]
      <4>1. active \in ChainsTo(tip)
        BY DEF TypeOK
      <4>2. \A k \in 0..tip : c[k] = active[k]
        BY <1>4, <2>2, <4>1, SameBelow
      <4> QED
        BY <1>2, <4>2
    <3>2. \A b \in Block : Height[b] <= tip => (OnActive(b)' <=> OnActive(b))
      <4> SUFFICES ASSUME NEW b \in Block, Height[b] <= tip
                   PROVE  OnActive(b)' <=> OnActive(b)
        OBVIOUS
      <4>1. Height[b] \in 0..tip /\ Height[b] <= n
        BY <1>4, ParentFacts
      <4> QED
        BY <1>2, <3>1, <4>1 DEF OnActive
    <3>3. seen' \subseteq {active'[h] : h \in 0..tip'}
      <4>1. seen \subseteq {active[h] : h \in 0..tip}
        BY DEF Unbroken, Pass
      <4>2. \A h \in 0..tip : h \in 0..n /\ c[h] = active[h]
        BY <1>2, <1>4, <3>1
      <4>3. seen \subseteq {c[h] : h \in 0..n}
        BY <4>1, <4>2
      <4> QED
        BY <1>2, <4>3
    <3>4. pc \in {"live", "walk", "audit"} => Indexed(at)' /\ at \in Block /\ Height[at] <= tip
      BY <1>3 DEF Unbroken, Pass, Known, TypeOK, Indexed
    <3>5. pc = "walk" => ~OnActive(at)'
      BY <1>3, <3>2, <3>4 DEF Unbroken, Pass, OnActive
    <3>6. pc \in {"audit", "plan"} => at = NoBlock \/ (Indexed(at)' /\ OnActive(at)')
      <4>1. CASE at = NoBlock
        BY <4>1
      <4>2. CASE at # NoBlock
        <5>1. at \in Block
          BY <4>2 DEF TypeOK
        <5> QED
          BY <1>3, <1>5, <3>2, <5>1 DEF Unbroken, Pass, OnActive, Indexed
      <4> QED
        BY <4>1, <4>2
    <3>7. pc \in InPass => \A h \in 0..HeightOf(at) : h \in 0..tip
      BY AtBelowTip
    <3>8. Extending'
      <4> SUFFICES ASSUME pc \in InPass
                   PROVE  /\ at = NoBlock \/ index'[at] # 0 \/ at \in pending
                          /\ \A h \in 0..HeightOf(at) :
                               index'[active'[h]] # 0 \/ active'[h] \in pending
                          /\ \A b \in pending : OnActive(b)' /\ Height[b] <= HeightOf(at)
        BY <1>3 DEF Extending, Indexed
      <4>1. at = NoBlock \/ index'[at] # 0 \/ at \in pending
        BY <1>3 DEF Unbroken, Pass, Extending, Indexed
      <4>2. \A h \in 0..HeightOf(at) : index'[active'[h]] # 0 \/ active'[h] \in pending
        BY <1>3, <3>1, <3>7 DEF Unbroken, Pass, Extending, Indexed
      <4>3. ASSUME NEW b \in pending PROVE OnActive(b)' /\ Height[b] <= HeightOf(at)
        <5>1. b \in Block /\ OnActive(b) /\ Height[b] <= HeightOf(at)
          BY <4>3 DEF Unbroken, Pass, Extending, TypeOK
        <5> QED
          BY <3>2, <5>1 DEF OnActive
      <4> QED
        BY <4>1, <4>2, <4>3
    <3>9. pc \in {"idle", "down"} => parEnd' = -1 /\ seen' = {}
      BY <1>2, <1>3 DEF Unbroken, Pass
    <3> QED
      BY <1>3, <3>3, <3>4, <3>5, <3>6, <3>8, <3>9 DEF Unbroken, Pass
  <2> QED
    BY <1>2, <2>1, <2>2
<1> QED
  BY <1>6, <1>7, <1>8 DEF Unbroken

\* The first pass takes its record from what blocks.csv holds.
LEMMA SeedUnbroken ==
  ASSUME TypeOK, Inv, Unbroken, SeedFromBlocksCsv
  PROVE  Unbroken'
<1> DEFINE found == {b \in Block : blocksCsv[b] # "none"}
<1>1. /\ pc = "check" /\ current = NoBlock
      /\ index' = [b \in Block |-> IF b \in found /\ index[b] = 0 THEN 1 ELSE index[b]]
      /\ IF found = {}
         THEN at' = NoBlock /\ pc' = "plan"
         ELSE /\ at' \in {b \in found : \A c \in found : Height[c] <= Height[b]}
              /\ pc' = "live"
      /\ UNCHANGED <<tip, active, blocksCsv, current, pending, atomic, parEnd, seen>>
  BY DEF SeedFromBlocksCsv, node, stores
<1>2. \A b \in Block : index'[b] # 0 <=> Indexed(b) \/ b \in found
  BY <1>1 DEF TypeOK, Indexed
<1>3. HalfDone /\ pc \notin MidDrain
  BY <1>1 DEF Unbroken, MidDrain
<1>4. Known'
  <2>1. \A b \in Block : index'[b] # 0 => Height[b] <= tip
    BY <1>2 DEF Unbroken, Known
  <2>2. ASSUME NEW b \in Block, index'[b] # 0, Height[b] > 0
        PROVE  index'[Parent[b]] # 0
    <3>1. Parent[b] \in Block
      BY <2>2, ParentFacts
    <3>2. Indexed(Parent[b]) \/ blocksCsv[Parent[b]] = "open"
      BY <1>2, <1>3, <2>2 DEF Unbroken, Known, HalfDone
    <3> QED
      BY <1>2, <3>1, <3>2
  <2> QED
    BY <1>1, <2>1, <2>2 DEF Unbroken, Known, Indexed
<1>5. HalfDone'
  BY <1>1, <1>2 DEF HalfDone, Indexed
<1>6. Pass'
  <2>1. at' = NoBlock \/ index'[at'] # 0
    BY <1>1, <1>2
  <2>2. pc' \in {"plan", "live"} /\ (pc' = "live" => index'[at'] # 0)
        /\ (pc' = "plan" => at' = NoBlock)
    BY <1>1, <1>2
  <2> QED
    BY <1>1, <2>2, StageNames DEF Unbroken, Pass, Extending, InPass, MidDrain, Indexed
<1> QED
  BY <1>4, <1>5, <1>6 DEF Unbroken

\* The walk-back goes from block to block on record, and stops on the node's chain.
LEMMA WalkBackUnbroken ==
  ASSUME TypeOK, Unbroken, WalkBack
  PROVE  Unbroken'
<1>1. /\ pc = "walk" /\ index[at] # 0 /\ Height[at] > 0 /\ at \in Block
      /\ at' = Parent[at]
      /\ pc' = IF OnActiveChain(Parent[at]) THEN "audit" ELSE "walk"
      /\ UNCHANGED <<tip, active, index, blocksCsv, current, pending, atomic, parEnd, seen>>
  BY DEF WalkBack, CanStepBack, TypeOK, node, files
<1>2. Parent[at] \in Block /\ Indexed(Parent[at]) /\ Height[Parent[at]] <= tip
  BY <1>1, ParentFacts DEF Unbroken, Known, Indexed
<1>3. OnActive(Parent[at]) <=> OnActiveChain(Parent[at])
  BY <1>2 DEF OnActive, OnActiveChain
<1>4. Known' /\ (current = NoBlock => HalfDone)'
  BY <1>1, SameRecord DEF AfterSeed, MidDrain
<1>5. Pass'
  BY <1>1, <1>2, <1>3, StageNames
     DEF Unbroken, Pass, Extending, InPass, MidDrain, OnActive, Indexed
<1> QED
  BY <1>4, <1>5 DEF Unbroken

\* A pass starts at the block it has checked, or lower, and on record.
LEMMA RewoundFacts ==
  ASSUME TypeOK, Unbroken, pc = "plan", NEW start \in Rewound
  PROVE  /\ start = NoBlock \/ Indexed(start)
         /\ start \in Block \union {NoBlock}
         /\ HeightOf(start) <= HeightOf(at)
<1>1. at \in Block \union {NoBlock} /\ (at = NoBlock \/ Indexed(at))
  BY DEF Unbroken, Pass, TypeOK
<1>2. CASE start = at
  BY <1>1, <1>2, HeightOfType
<1>3. CASE start # at
  <2>1. PICK b \in EarliestStale : start = Parent[b]
    BY <1>3 DEF Rewound
  <2>2. PICK e \in EarliestStale : Height[e] - 1 < HeightOf(at)
    BY <1>3 DEF Rewound
  <2>3. /\ b \in Block /\ e \in Block /\ Indexed(b)
        /\ Height[b] <= Height[e] /\ Height[e] <= Height[b]
    BY <2>1, <2>2 DEF EarliestStale, Stale, Indexed
  <2>4. HeightOf(start) = Height[b] - 1 /\ Height[b] \in Nat /\ Height[e] \in Nat
        /\ start \in Block \union {NoBlock} /\ (Height[b] > 0 => start \in Block)
    BY <2>1, <2>3, ParentFacts
  <2>5. HeightOf(start) <= HeightOf(at)
    BY <1>1, <2>2, <2>3, <2>4, HeightOfType
  <2>6. CASE Height[b] > 0
    BY <2>1, <2>3, <2>4, <2>5, <2>6 DEF Unbroken, Known
  <2>7. CASE ~(Height[b] > 0)
    <3>1. start = NoBlock
      BY <2>1, <2>3, <2>4, <2>7, ChainAssumption
    <3> QED
      BY <2>5, <3>1
  <2> QED
    BY <2>6, <2>7
<1> QED
  BY <1>2, <1>3

\* The pass starts on top of a recorded part of the node's chain, rewound or not.
LEMMA PlanPassUnbroken ==
  ASSUME TypeOK, Inv, Unbroken, PlanPass
  PROVE  Unbroken'
<1>1. pc = "plan"
      /\ UNCHANGED <<tip, active, index, blocksCsv, current, pending>>
  BY DEF PlanPass, node, files
<1>2. PICK start \in Rewound :
        /\ at' = start
        /\ IF HeightOf(start) >= goal
           THEN pc' = "idlePointer" /\ UNCHANGED <<atomic, parEnd, seen>>
           ELSE /\ pc' = "loop"
                /\ seen' = IF parEnd' >= 0 THEN {active[h] : h \in 0..tip} ELSE {}
  BY DEF PlanPass
<1>3. pending = {}
  BY <1>1, StageNames DEF Inv, Staged, StagingStages, Streams
<1>4. at \in Block \union {NoBlock} /\ (at = NoBlock \/ (Indexed(at) /\ OnActive(at)))
      /\ goal \in Nat
  BY <1>1 DEF Unbroken, Pass, TypeOK
<1>5. \A h \in 0..HeightOf(at) : Indexed(active[h])
  <2>1. CASE at = NoBlock
    BY <2>1 DEF HeightOf
  <2>2. CASE at # NoBlock
    BY <1>4, <2>2, DownLinked, ParentFacts DEF Unbroken
  <2> QED
    BY <2>1, <2>2
<1>6. /\ start = NoBlock \/ Indexed(start)
      /\ start \in Block \union {NoBlock}
      /\ HeightOf(start) <= HeightOf(at)
  BY <1>1, RewoundFacts
<1>7. \A h \in 0..HeightOf(start) : Indexed(active[h])
  BY <1>4, <1>5, <1>6, HeightOfType
<1>8. Known' /\ (current = NoBlock => HalfDone)'
  BY <1>1, <1>2, SameRecord DEF AfterSeed, MidDrain
<1>9. seen' \subseteq {active'[h] : h \in 0..tip'}
  BY <1>1, <1>2 DEF Unbroken, Pass
<1>10. pc' = "idlePointer" => at' # NoBlock
  BY <1>2, <1>4 DEF HeightOf
<1>11. Extending'
  BY <1>1, <1>2, <1>3, <1>6, <1>7 DEF Extending, InPass, Indexed
<1>12. Pass'
  BY <1>1, <1>2, <1>3, <1>9, <1>10, <1>11 DEF Pass, MidDrain
<1> QED
  BY <1>8, <1>12 DEF Unbroken

\* The loop stages the block its chain has next.
LEMMA ProcessBlockUnbroken ==
  ASSUME TypeOK, Unbroken, pc = "loop", NEW b \in Block, ProcessBlock(b), OnActive(b),
         Height[b] = NextHeight, seen' \subseteq seen
  PROVE  Unbroken'
<1>1. /\ at' = b /\ pc' = IF atomic \/ processed' = 0 THEN "blocks" ELSE "loop"
      /\ pending' = IF NeedsExport(b) THEN pending \union {b} ELSE pending
      /\ UNCHANGED <<tip, active, index, blocksCsv, current, atomic>>
  BY DEF ProcessBlock, node, files
<1>2. pc' \in {"loop", "blocks"}
  BY <1>1
<1>3. Indexed(b) \/ b \in pending'
  BY <1>1 DEF NeedsExport, Indexed
<1>4. Height[b] <= tip /\ active[Height[b]] = b
  BY DEF OnActive
<1>5. Known'
  BY <1>1, <1>4 DEF Unbroken, Known, Indexed
<1>6. (current = NoBlock => HalfDone)'
  BY <1>1, <1>2 DEF Unbroken, HalfDone, AfterSeed, MidDrain, Indexed
<1>7. Extending'
  <2>1. HeightOf(b) = HeightOf(at) + 1 /\ HeightOf(b) = Height[b] /\ HeightOf(at) \in Int
    BY ParentFacts, HeightOfType DEF NextHeight, TypeOK
  <2>2. ASSUME NEW h \in 0..HeightOf(b)
        PROVE  Indexed(active[h]) \/ active[h] \in pending'
    <3>1. CASE h \in 0..HeightOf(at)
      BY <1>1, <3>1 DEF Unbroken, Pass, Extending, InPass
    <3>2. CASE h \notin 0..HeightOf(at)
      <4>1. h = Height[b]
        BY <2>1, <3>2
      <4> QED
        BY <1>3, <1>4, <4>1
    <3> QED
      BY <3>1, <3>2
  <2>3. ASSUME NEW x \in pending' PROVE OnActive(x) /\ Height[x] <= HeightOf(b)
    <3>1. CASE x = b
      BY <2>1, <3>1
    <3>2. CASE x # b
      <4>1. x \in pending /\ x \in Block /\ OnActive(x) /\ Height[x] <= HeightOf(at)
        BY <1>1, <2>3, <3>2 DEF Unbroken, Pass, Extending, InPass, TypeOK
      <4> QED
        BY <2>1, <4>1, ParentFacts
    <3> QED
      BY <3>1, <3>2
  <2> QED
    BY <1>1, <1>3, <2>2, <2>3 DEF Extending, OnActive, Indexed
<1>8. atomic => \A x, y \in pending' : x = y
  BY <1>1 DEF Unbroken, Pass
<1>9. seen' \subseteq {active'[h] : h \in 0..tip'}
  BY <1>1 DEF Unbroken, Pass
<1>10. Pass'
  BY <1>1, <1>2, <1>7, <1>8, <1>9 DEF Pass, MidDrain
<1> QED
  BY <1>5, <1>6, <1>10 DEF Unbroken

\* What a drain writes into blocks.csv stands on what is recorded, or on a block
\* of the same batch, which then is in the open part.
LEMMA DrainUnbroken ==
  ASSUME TypeOK, Inv, Unbroken, NEW s \in Streams, Drain(s)
  PROVE  Unbroken'
<1>1. /\ pc = s /\ pc' = StageAfter[s]
      /\ blocksCsv' = IF s = "blocks" /\ buf # {} THEN PlaceRows ELSE blocksCsv
      /\ UNCHANGED <<tip, active, index, current, pending, at, atomic, parEnd, seen>>
      /\ pc' \in MidDrain /\ pc \in InPass
  BY StageNames DEF Drain, node, stores, Streams, MidDrain, InPass
<1>2. CASE s # "blocks" \/ buf = {}
  <2>1. blocksCsv' = blocksCsv
    BY <1>1, <1>2
  <2>2. s # "blocks" => pc \in MidDrain
    BY <1>1 DEF Streams, MidDrain
  <2>3. s = "blocks" => pending = {} /\ pc \in AfterSeed
    BY <1>1, <1>2 DEF Inv, Staged, AfterSeed, Streams
  <2>4. Known'
    BY <1>1, <2>1 DEF Unbroken, Known, Indexed
  <2>5. (current = NoBlock => HalfDone)'
    <3>1. pc' \notin AfterSeed
      BY <1>1 DEF MidDrain, AfterSeed
    <3> QED
      BY <1>1, <2>1, <2>2, <2>3, <3>1 DEF Unbroken, HalfDone, Indexed
  <2>6. Pass'
    BY <1>1, <2>1, <2>2, <2>3 DEF Unbroken, Pass, Extending, MidDrain, InPass, OnActive, Indexed
  <2> QED
    BY <2>4, <2>5, <2>6 DEF Unbroken
<1>3. CASE s = "blocks" /\ buf # {}
  <2>1. blocksCsv' = PlaceRows /\ pc = "blocks" /\ pc' = "transactions" /\ buf = pending
    BY <1>1, <1>3, StageNames DEF Inv, Staged, Streams
  <2>2. \A b \in Block : blocksCsv'[b] # "none" => b \in pending \/ blocksCsv[b] # "none"
    BY <2>1 DEF PlaceRows
  <2>3. ~atomic => \A b \in pending : blocksCsv'[b] = "open"
    BY <2>1 DEF PlaceRows, TypeOK
  <2>4. Known'
    BY <1>1, <2>2 DEF Unbroken, Known, Indexed
  <2>5. ASSUME current = NoBlock, NEW b \in Block, blocksCsv'[b] # "none", ~Indexed(b)
        PROVE  /\ b \in pending
               /\ Height[b] > 0 => Indexed(Parent[b]) \/ blocksCsv'[Parent[b]] = "open"
    <3>1. b \in pending
      BY <2>1, <2>2, <2>5 DEF Unbroken, HalfDone, AfterSeed
    <3>2. ASSUME Height[b] > 0, ~Indexed(Parent[b]) PROVE blocksCsv'[Parent[b]] = "open"
      <4>1. OnActive(b) /\ Height[b] <= HeightOf(at)
        BY <1>1, <3>1 DEF Unbroken, Pass, Extending
      <4>2. Parent[b] = active[Height[b] - 1] /\ Height[b] - 1 \in 0..HeightOf(at)
            /\ Parent[b] \in Block /\ b # Parent[b]
        BY <3>2, <4>1, OnActiveFacts, ParentFacts, HeightOfType DEF TypeOK
      <4>3. Parent[b] \in pending
        BY <1>1, <3>2, <4>2 DEF Unbroken, Pass, Extending
      <4>4. ~atomic
        BY <3>1, <4>2, <4>3 DEF Unbroken, Pass
      <4> QED
        BY <2>3, <4>3, <4>4
    <3> QED
      BY <3>1, <3>2
  <2>6. (current = NoBlock => HalfDone)'
    BY <1>1, <2>1, <2>5 DEF HalfDone, AfterSeed, Indexed
  <2>7. Pass'
    BY <1>1, <2>1, <2>3 DEF Unbroken, Pass, Extending, MidDrain, InPass, OnActive, Indexed
  <2> QED
    BY <2>4, <2>6, <2>7 DEF Unbroken
<1> QED
  BY <1>2, <1>3

\* The flush of index.csv records the batch on top of what was recorded.
LEMMA FlushIndexUnbroken ==
  ASSUME TypeOK, Inv, Unbroken, FlushIndex
  PROVE  Unbroken'
<1>1. /\ pc = "index" /\ pc' = "status" /\ pending' = {}
      /\ index' = [b \in Block |-> IF b \in pending THEN CURRENT_INDEX_SCHEMA_VERSION
                                   ELSE index[b]]
      /\ UNCHANGED <<tip, active, blocksCsv, current, at, atomic, parEnd, seen>>
  BY StageNames DEF FlushIndex, node, locals
<1>2. pc \in InPass /\ pc \in MidDrain
  BY <1>1, StageNames DEF InPass, MidDrain
<1>3. \A b \in Block : index'[b] # 0 <=> Indexed(b) \/ b \in pending
  BY <1>1 DEF Indexed, CURRENT_INDEX_SCHEMA_VERSION
<1>4. Known'
  <2>1. ASSUME NEW b \in Block, index'[b] # 0, Height[b] > 0
        PROVE  index'[Parent[b]] # 0
    <3>1. Parent[b] \in Block
      BY <2>1, ParentFacts
    <3>2. CASE Indexed(b)
      BY <1>3, <2>1, <3>1, <3>2 DEF Unbroken, Known
    <3>3. CASE b \in pending
      <4>1. OnActive(b) /\ Height[b] <= HeightOf(at)
        BY <1>2, <3>3 DEF Unbroken, Pass, Extending
      <4>2. Parent[b] = active[Height[b] - 1] /\ Height[b] - 1 \in 0..HeightOf(at)
        BY <2>1, <4>1, OnActiveFacts, ParentFacts, HeightOfType DEF TypeOK
      <4>3. Indexed(Parent[b]) \/ Parent[b] \in pending
        BY <1>2, <4>2 DEF Unbroken, Pass, Extending
      <4> QED
        BY <1>3, <3>1, <4>3
    <3> QED
      BY <1>3, <2>1, <3>2, <3>3
  <2>2. \A b \in Block : index'[b] # 0 \/ blocksCsv'[b] # "none" \/ b \in pending'
                           => Height[b] <= tip'
    BY <1>1, <1>3 DEF Unbroken, Known
  <2>3. current # NoBlock => index'[current] # 0
    BY <1>3 DEF Unbroken, Known, TypeOK
  <2> QED
    BY <1>1, <2>1, <2>2, <2>3 DEF Known, Indexed
<1>5. (current = NoBlock => HalfDone)'
  <2>1. current = NoBlock => \A b \in Block : blocksCsv'[b] # "none" => index'[b] # 0
    BY <1>1, <1>2, <1>3 DEF Unbroken, HalfDone
  <2> QED
    BY <1>1, <2>1 DEF HalfDone, Indexed
<1>6. Extending'
  <2>1. at = NoBlock \/ index'[at] # 0
    BY <1>2, <1>3 DEF Unbroken, Pass, Extending, TypeOK
  <2>2. ASSUME NEW h \in 0..HeightOf(at) PROVE index'[active[h]] # 0
    <3>1. Indexed(active[h]) \/ active[h] \in pending
      BY <1>2, <2>2 DEF Unbroken, Pass, Extending
    <3>2. h \in 0..tip
      BY <1>2, <2>2, AtBelowTip
    <3>3. active[h] \in Block
      BY <3>2, ActiveFacts
    <3> QED
      BY <1>3, <3>1, <3>3
  <2> QED
    BY <1>1, <2>1, <2>2 DEF Extending, Indexed
<1>7. Pass'
  BY <1>1, <1>6 DEF Unbroken, Pass, MidDrain
<1> QED
  BY <1>4, <1>5, <1>7 DEF Unbroken

\* current.csv gets a recorded block.
LEMMA WritePointerUnbroken ==
  ASSUME TypeOK, Inv, Unbroken, WritePointer
  PROVE  Unbroken'
<1>1. /\ pc = "pointer" /\ current' = LastHash
      /\ UNCHANGED <<tip, active, index, blocksCsv, pending>>
      /\ \/ pc' = "idle" /\ ResetLocals
         \/ pc' = "loop" /\ UNCHANGED <<at, atomic, parEnd, seen>>
  BY DEF WritePointer, node, stores, locals
<1>2. pending = {} /\ pc \in InPass /\ pc \in AfterSeed
  BY <1>1, StageNames DEF Inv, Staged, StagingStages, Streams, InPass, AfterSeed
<1>3. current' = NoBlock => current = NoBlock
  BY <1>1 DEF LastHash
<1>4. Known'
  <2>1. current' # NoBlock => Indexed(current')
    BY <1>1, <1>2 DEF Unbroken, Known, Pass, Extending, LastHash
  <2> QED
    BY <1>1, <2>1 DEF Unbroken, Known, Indexed
<1>5. (current = NoBlock => HalfDone)'
  <2>1. current' = NoBlock => \A b \in Block : blocksCsv[b] # "none" => Indexed(b)
    BY <1>2, <1>3 DEF Unbroken, HalfDone
  <2> QED
    BY <1>1, <2>1 DEF HalfDone, Indexed
<1>6. CASE pc' = "idle" /\ ResetLocals
  <2>1. Pass'
    BY <1>1, <1>2, <1>6, StageNames
       DEF Unbroken, Pass, Extending, InPass, MidDrain, ResetLocals
  <2> QED
    BY <1>4, <1>5, <2>1 DEF Unbroken
<1>7. CASE pc' = "loop" /\ UNCHANGED <<at, atomic, parEnd, seen>>
  <2>1. Pass'
    BY <1>1, <1>2, <1>7, StageNames
       DEF Unbroken, Pass, Extending, InPass, MidDrain, OnActive, Indexed
  <2> QED
    BY <1>4, <1>5, <2>1 DEF Unbroken
<1> QED
  BY <1>1, <1>6, <1>7

\* A loop that has not been overtaken had not been before.
LEMMA OvertakenStays == [Next]_vars /\ ~overtaken' => ~overtaken
<1>1. [Next]_vars => overtaken' = overtaken \/ NodeMoves
  BY DEF Next, Process, vars, node, files, stores, locals, SplunkTakes, Crash, ProcessDies, Stop,
     RpcFails, Exit, Restart, BeginPass, ReadCurrent, SeedFromBlocksCsv, CheckLiveHash,
     WalkBack, WalkBackFails, FlushDetached, PlanPass, IdlePointer, IdleStatus, ProcessHeight,
     ProcessPrefetched, ProcessBlock, EndPass, PrefetchedMismatch, BeginEnd, Drain, FlushIndex,
     FlushStatus, WritePointer
<1>2. NodeMoves /\ ~overtaken' => ~overtaken
  BY DEF NodeMoves
<1> QED
  BY <1>1, <1>2

\* Every step keeps the record unbroken, as long as the node keeps steady.
LEMMA UnbrokenStep ==
  ASSUME Steady', TypeOK, TypeOK', Inv, Unbroken, [Next]_vars
  PROVE  Unbroken'
<1> USE DEF node, files, stores, locals
<1>1. CASE NodeMoves
  BY <1>1, NodeMovesUnbroken
<1>2. CASE SplunkTakes
  <2>1. /\ UNCHANGED <<tip, active, index, current, pending, pc, at, atomic, parEnd, seen>>
        /\ \A b \in Block : blocksCsv'[b] = blocksCsv[b] \/ blocksCsv'[b] = "none"
        /\ \A b \in Block : blocksCsv[b] = "open" => blocksCsv'[b] = "open"
    BY <1>2 DEF SplunkTakes, TypeOK
  <2>2. Known'
    BY <2>1 DEF Unbroken, Known, Indexed
  <2>3. (current = NoBlock => HalfDone)'
    <3>1. ASSUME current = NoBlock, NEW b \in Block, blocksCsv'[b] # "none", ~Indexed(b)
          PROVE  /\ pc \notin AfterSeed /\ (pc \in MidDrain => b \in pending)
                 /\ Height[b] > 0 => Indexed(Parent[b]) \/ blocksCsv'[Parent[b]] = "open"
      BY <2>1, <3>1, ParentFacts DEF Unbroken, HalfDone
    <3> QED
      BY <2>1, <3>1 DEF HalfDone, Indexed
  <2>4. Pass'
    <3>1. \A b \in pending : b \in Block
      BY DEF TypeOK
    <3> QED
      BY <2>1, <3>1 DEF Unbroken, Pass, Extending, OnActive, Indexed
  <2> QED
    BY <2>2, <2>3, <2>4 DEF Unbroken
<1>3. CASE Crash \/ Exit \/ WalkBackFails
  <2>1. ProcessDies
    BY <1>3 DEF Crash, Exit, WalkBackFails
  <2> QED
    BY <2>1, LeaveUnbroken DEF ProcessDies, ResetLocals
<1>4. CASE Stop \/ UNCHANGED vars
  <2>1. UNCHANGED <<tip, active, index, blocksCsv, current, pending, pc, at, atomic,
                    parEnd, seen>>
    BY <1>4 DEF Stop, vars
  <2>2. Known' /\ (current = NoBlock => HalfDone)'
    BY <2>1, SameRecord
  <2>3. Pass'
    BY <2>1 DEF Unbroken, Pass, Extending, OnActive, Indexed
  <2> QED
    BY <2>2, <2>3 DEF Unbroken
<1>5. CASE RpcFails
  BY <1>5, LeaveUnbroken DEF RpcFails, ResetLocals, DiscardPending
<1>6. CASE Restart
  <2>1. /\ pc = "down" /\ pc' = "idle"
        /\ UNCHANGED <<tip, active, index, blocksCsv, current, pending, at, atomic,
                       parEnd, seen>>
    BY <1>6 DEF Restart
  <2>2. Known' /\ (current = NoBlock => HalfDone)'
    BY <2>1, SameRecord DEF AfterSeed, MidDrain
  <2>3. Pass'
    BY <2>1, StageNames DEF Unbroken, Pass, Extending, InPass, MidDrain
  <2> QED
    BY <2>2, <2>3 DEF Unbroken
<1>7. CASE BeginPass \/ ReadCurrent
  <2>1. /\ pc \in {"idle", "check"} /\ pc' \in {"check", "live"}
        /\ UNCHANGED <<tip, active, index, blocksCsv, current, pending, atomic, parEnd, seen>>
        /\ pc' = "live" => at' = current /\ current # NoBlock
    BY <1>7 DEF BeginPass, ReadCurrent
  <2>2. Known'
    BY <2>1 DEF Unbroken, Known, Indexed
  <2>3. (current = NoBlock => HalfDone)'
    BY <2>1 DEF Unbroken, HalfDone, AfterSeed, MidDrain, Indexed
  <2>4. Pass'
    BY <2>1, StageNames DEF Unbroken, Known, Pass, Extending, InPass, MidDrain, Indexed
  <2> QED
    BY <2>2, <2>3, <2>4 DEF Unbroken
<1>8. CASE SeedFromBlocksCsv
  BY <1>8, SeedUnbroken
<1>9. CASE CheckLiveHash
  <2>1. /\ pc = "live" /\ pc' = IF OnActiveChain(at) THEN "plan" ELSE "walk"
        /\ UNCHANGED <<tip, active, index, blocksCsv, current, pending, at, atomic,
                       parEnd, seen>>
    BY <1>9 DEF CheckLiveHash
  <2>2. at \in Block /\ Indexed(at) /\ Height[at] <= tip
    BY <2>1 DEF Unbroken, Pass, Known, TypeOK
  <2>3. OnActive(at) <=> OnActiveChain(at)
    BY <2>2 DEF OnActive, OnActiveChain
  <2>4. Known' /\ (current = NoBlock => HalfDone)'
    BY <2>1, SameRecord DEF AfterSeed, MidDrain
  <2>5. Pass'
    BY <2>1, <2>2, <2>3, StageNames
       DEF Unbroken, Pass, Extending, InPass, MidDrain, OnActive, Indexed
  <2> QED
    BY <2>4, <2>5 DEF Unbroken
<1>10. CASE WalkBack
  BY <1>10, WalkBackUnbroken
<1>11. CASE FlushDetached \/ FlushStatus
  <2>1. /\ (pc = "audit" /\ pc' = "plan") \/ (pc = "status" /\ pc' = "pointer")
        /\ UNCHANGED <<tip, active, index, blocksCsv, current, pending, at, atomic,
                       parEnd, seen>>
    BY <1>11, StageNames DEF FlushDetached, FlushStatus
  <2>2. Known' /\ (current = NoBlock => HalfDone)'
    BY <2>1, SameRecord DEF AfterSeed, MidDrain
  <2>3. Pass'
    BY <2>1, StageNames DEF Unbroken, Pass, Extending, InPass, MidDrain, OnActive, Indexed
  <2> QED
    BY <2>2, <2>3 DEF Unbroken
<1>12. CASE PlanPass
  BY <1>12, PlanPassUnbroken
<1>13. CASE IdlePointer
  <2>1. /\ pc = "idlePointer" /\ pc' = "idleStatus" /\ current' = at
        /\ UNCHANGED <<tip, active, index, blocksCsv, pending, at, atomic, parEnd, seen>>
    BY <1>13 DEF IdlePointer
  <2>2. at # NoBlock /\ Indexed(at)
    BY <2>1, StageNames
       DEF Inv, Staged, StagingStages, Streams, Unbroken, Pass, Extending, InPass
  <2>3. Known'
    BY <2>1, <2>2 DEF Unbroken, Known, Indexed
  <2>4. (current = NoBlock => HalfDone)'
    BY <2>1, <2>2
  <2>5. Pass'
    BY <2>1, StageNames DEF Unbroken, Pass, Extending, InPass, MidDrain, OnActive, Indexed
  <2> QED
    BY <2>3, <2>4, <2>5 DEF Unbroken
<1>14. CASE IdleStatus
  <2>1. pending = {}
    BY <1>14, StageNames DEF IdleStatus, Inv, Staged, StagingStages, Streams
  <2> QED
    BY <1>14, <2>1, LeaveUnbroken DEF IdleStatus, ResetLocals
<1>15. CASE ProcessHeight
  <2>1. NextHeight \in 0..tip
    BY <1>15, ConfigAssumption, HeightOfType DEF TypeOK, ProcessHeight, MoreHeights, NextHeight
  <2>2. /\ active[NextHeight] \in Block /\ OnActive(active[NextHeight])
        /\ Height[active[NextHeight]] = NextHeight
    BY <2>1, ActiveFacts, OnActiveFacts
  <2> QED
    BY <1>15, <2>2, ProcessBlockUnbroken DEF ProcessHeight
<1>16. CASE ProcessPrefetched
  <2>1. PICK b \in seen : Height[b] = NextHeight /\ ProcessBlock(b)
    BY <1>16 DEF ProcessPrefetched
  <2>2. b \in Block /\ OnActive(b)
    BY OnActiveFacts DEF Unbroken, Pass
  <2> QED
    BY <1>16, <2>1, <2>2, ProcessBlockUnbroken DEF ProcessPrefetched
<1>17. CASE EndPass \/ PrefetchedMismatch
  <2>1. /\ pc = "loop" /\ pc' = "blocks" /\ seen' = {}
        /\ UNCHANGED <<tip, active, index, blocksCsv, current, pending, at, atomic>>
    BY <1>17 DEF EndPass, PrefetchedMismatch, BeginEnd
  <2>2. Known' /\ (current = NoBlock => HalfDone)'
    BY <2>1, SameRecord DEF AfterSeed, MidDrain
  <2>3. Pass'
    BY <2>1, StageNames DEF Unbroken, Pass, Extending, InPass, MidDrain, OnActive, Indexed
  <2> QED
    BY <2>2, <2>3 DEF Unbroken
<1>18. ASSUME NEW s \in Streams, Drain(s) PROVE Unbroken'
  BY <1>18, DrainUnbroken
<1>19. CASE FlushIndex
  BY <1>19, FlushIndexUnbroken
<1>20. CASE WritePointer
  BY <1>20, WritePointerUnbroken
<1> QED
  BY <1>1, <1>2, <1>3, <1>4, <1>5, <1>6, <1>7, <1>8, <1>9, <1>10, <1>11, <1>12, <1>13,
     <1>14, <1>15, <1>16, <1>17, <1>18, <1>19, <1>20 DEF Next, Process

-----------------------------------------------------------------------------
(* The flags of block_status.csv follow the chain.                         *)

\* An orphan on record is flagged, or current.csv still leads the walk-back to
\* it; and what current.csv stands on is never flagged while it is active.
Fits(status) ==
  /\ \A b \in Block : Indexed(b) /\ ~OnActive(b) /\ status[b] # "detached" =>
                        current # NoBlock /\ Onto(b, current)
  /\ \A b \in Block : status[b] = "detached" =>
                        /\ Height[b] <= tip /\ current # NoBlock
                        /\ ~(OnActive(b) /\ Onto(b, current))

\* Every orphan on record is flagged; no active block up to last_hash is.
Orphans(status) == \A b \in Block : Indexed(b) /\ ~OnActive(b) => status[b] = "detached"
Above(status) ==
  \A b \in Block : status[b] = "detached" /\ OnActive(b) => Height[b] > HeightOf(at)

\* The loop keeps its distance from the tip, so that whatever a reorg orphans
\* is an ancestor of current.csv.
Distant ==
  /\ \A b \in Block : Indexed(b) \/ b \in pending => Height[b] + Confirmations <= tip
  /\ current = NoBlock => \A b \in Block : blocksCsv[b] # "none" =>
                            OnActive(b) /\ Height[b] + Confirmations <= tip

\* The walk-back from current.csv has passed every ancestor it leaves behind.
Walked ==
  /\ pc \in {"idle", "down", "check", "live"} => detached = {}
  /\ pc = "live" => at = current \/ current = NoBlock
  /\ pc \in {"walk", "audit", "plan"} => current = NoBlock \/ (at # NoBlock /\ Onto(at, current))
  /\ pc \in {"walk", "audit"} => current # NoBlock
  /\ pc = "walk" =>
       /\ \A b \in Block : Onto(b, current) => Onto(b, at) \/ b \in detached
       /\ \A b \in detached : Indexed(b) /\ ~OnActive(b)

Planned == {"plan"} \union InPass
Flags ==
  /\ Fits(blockStatus) /\ Fits(memStatus)
  /\ Distant
  /\ Walked
  /\ pc \in {"audit"} \union Planned => Orphans(memStatus)
  /\ pc \in Planned => Orphans(blockStatus)
  /\ pc \in InPass => Above(memStatus)
  /\ pc = "idlePointer" => Above(blockStatus)
  /\ pc = "pointer" => blockStatus = memStatus

\* The older schema's exporter kept reorg_confirmations below the tip as well.
OldKeptDistance == OldHeight = -1 \/ OldHeight + Confirmations <= InitHeight

\* Heights within the node's reach are within the model's.
LEMMA Reach ==
  ASSUME TypeOK, NEW b \in Block, Height[b] <= tip
  PROVE  Height[b] <= MaxHeight /\ Height[b] \in Nat
BY ParentFacts, ConfigAssumption DEF TypeOK

\* A current.csv that is on the node's chain leaves no orphan unflagged.
LEMMA FitsOnActive ==
  ASSUME TypeOK, NEW status, Fits(status), current = NoBlock \/ OnActive(current)
  PROVE  Orphans(status)
<1> SUFFICES ASSUME NEW b \in Block, Indexed(b), ~OnActive(b), status[b] # "detached"
             PROVE  FALSE
  BY DEF Orphans
<1>1. current # NoBlock /\ Onto(b, current) /\ current \in Block
  BY DEF Fits, TypeOK
<1> QED
  BY <1>1, OntoOnActive

\* Nothing is flagged at the start, and whatever is on record is active.
LEMMA InitFlags == OldKeptDistance /\ Init => Flags
<1> SUFFICES ASSUME OldKeptDistance, Init PROVE Flags
  OBVIOUS
<1> DEFINE old == {active[h] : h \in 0..OldHeight}
<1>0. TypeOK
  BY InitTypeOK
<1>1. /\ tip = InitHeight /\ blocksCsv = [b \in Block |-> "none"] /\ pending = {}
      /\ index = [b \in Block |-> IF b \in old THEN 1 ELSE 0]
      /\ blockStatus = [b \in Block |-> "none"] /\ memStatus = blockStatus
      /\ pc = "idle" /\ detached = {}
  BY DEF Init
<1>2. ASSUME NEW b \in Block, Indexed(b)
      PROVE  OnActive(b) /\ Height[b] + Confirmations <= tip
  <2>1. PICK h \in 0..OldHeight : b = active[h]
    BY <1>1, <1>2 DEF Indexed
  <2>2. h \in 0..tip /\ h + Confirmations <= tip
    BY <1>1, <2>1, ConfigAssumption DEF OldKeptDistance
  <2> QED
    BY <1>0, <2>1, <2>2, ActiveFacts, OnActiveFacts
<1>3. Fits(blockStatus) /\ Fits(memStatus)
  BY <1>1, <1>2 DEF Fits
<1>4. Distant
  BY <1>1, <1>2 DEF Distant
<1>5. Walked
  BY <1>1 DEF Walked
<1> QED
  BY <1>1, <1>3, <1>4, <1>5, StageNames DEF Flags, Planned, InPass

\* The node, the index and current.csv as they were, and each status one of
\* the two there were: the flags fit as they did.
LEMMA SameFits ==
  ASSUME Flags, UNCHANGED <<tip, active, index, current>>,
         memStatus' \in {memStatus, blockStatus}, blockStatus' \in {memStatus, blockStatus}
  PROVE  Fits(blockStatus)' /\ Fits(memStatus)'
BY DEF Flags, Fits, OnActive, Indexed

\* A pass that is left, or does not start, claims nothing about the flags.
LEMMA LeaveFlags ==
  ASSUME Flags, UNCHANGED <<tip, active, index, blocksCsv, current>>,
         memStatus' \in {memStatus, blockStatus}, blockStatus' \in {memStatus, blockStatus},
         pending' \subseteq pending, detached' = {}, pc' \in {"idle", "down", "check"}
  PROVE  Flags'
<1>1. Fits(blockStatus)' /\ Fits(memStatus)'
  BY SameFits
<1>2. Distant'
  BY DEF Flags, Distant, OnActive, Indexed
<1>3. Walked'
  BY DEF Walked
<1> QED
  BY <1>1, <1>2, <1>3, StageNames DEF Flags, Planned, InPass

\* The node moves: its old chain goes on, or the loop had caught up with it and
\* everything on record that leaves the chain is below current.csv.
LEMMA NodeMovesFlags ==
  ASSUME TypeOK, TypeOK', Unbroken, Flags, NodeMoves, ~overtaken'
  PROVE  Flags'
<1>1. PICK n \in tip + 1 .. MaxHeight : \E c \in ChainsTo(n) :
        /\ tip' = n /\ active' = c
        /\ overtaken' = (overtaken \/ (c[tip] # active[tip] /\ ~(pc = "idle" /\ Settled)))
  BY DEF NodeMoves
<1>2. PICK c \in ChainsTo(n) :
        /\ tip' = n /\ active' = c
        /\ (pc = "idle" /\ Settled) \/ c[tip] = active[tip]
  BY <1>1
<1>3. UNCHANGED <<index, blocksCsv, current, pending, pc, at, detached, memStatus, blockStatus>>
  BY DEF NodeMoves, files, stores
<1>4. tip \in Nat /\ n \in Nat /\ tip < n /\ Confirmations \in Nat
  BY ConfigAssumption DEF TypeOK
<1>5. \A b \in Block : /\ Height[b] <= tip => Height[b] <= n
                       /\ Height[b] + Confirmations <= tip => Height[b] + Confirmations <= n
  BY <1>4, ParentFacts
<1>6. CASE c[tip] = active[tip]
  <2>1. \A k \in 0..tip : active'[k] = active[k]
    <3>1. active \in ChainsTo(tip)
      BY DEF TypeOK
    <3>2. \A k \in 0..tip : c[k] = active[k]
      BY <1>4, <1>6, <3>1, SameBelow
    <3> QED
      BY <1>2, <3>2
  <2>2. \A b \in Block : Height[b] <= tip => (OnActive(b)' <=> OnActive(b))
    <3> SUFFICES ASSUME NEW b \in Block, Height[b] <= tip
                 PROVE  OnActive(b)' <=> OnActive(b)
      OBVIOUS
    <3>1. Height[b] \in 0..tip /\ Height[b] <= n
      BY <1>4, ParentFacts
    <3> QED
      BY <1>2, <2>1, <3>1 DEF OnActive
  <2>3. /\ \A b \in Block : Indexed(b) => Height[b] <= tip
        /\ current = NoBlock => \A b \in Block : blocksCsv[b] # "none" => Height[b] <= tip
        /\ \A b \in Block : memStatus[b] = "detached" => Height[b] <= tip
        /\ \A b \in Block : blockStatus[b] = "detached" => Height[b] <= tip
    BY DEF Unbroken, Known, Flags, Fits
  <2>4. Fits(blockStatus)' /\ Fits(memStatus)'
    BY <1>2, <1>3, <1>5, <2>2, <2>3 DEF Flags, Fits, Indexed
  <2>5. Distant'
    BY <1>2, <1>3, <1>5, <2>2, <2>3 DEF Flags, Distant, Indexed
  <2>6. Walked'
    <3>1. pc = "walk" => \A b \in detached : Indexed(b) /\ ~OnActive(b)'
      BY <2>2, <2>3 DEF Flags, Walked, TypeOK
    <3> QED
      BY <1>3, <3>1 DEF Flags, Walked, Indexed
  <2>7. /\ pc \in {"audit"} \union Planned => Orphans(memStatus)'
        /\ pc \in Planned => Orphans(blockStatus)'
    BY <1>3, <2>2, <2>3 DEF Flags, Orphans, Indexed
  <2>8. /\ pc \in InPass => Above(memStatus)'
        /\ pc = "idlePointer" => Above(blockStatus)'
    BY <1>3, <2>2, <2>3 DEF Flags, Above
  <2> QED
    BY <1>3, <2>4, <2>5, <2>6, <2>7, <2>8 DEF Flags
<1>7. CASE pc = "idle" /\ Settled
  <2>1. tip - Confirmations \in 0..tip /\ current = active[tip - Confirmations]
    BY <1>4, <1>7 DEF Settled
  <2>2. current # NoBlock /\ current \in Block /\ OnActive(current)
        /\ Height[current] = tip - Confirmations
    BY <1>7, <2>1, OnActiveFacts, ActiveFacts DEF Settled
  <2>3. \A b \in Block : Onto(b, current) => OnActive(b)
    BY <2>2, OntoOnActive
  <2>4. ASSUME NEW b \in Block, Indexed(b), OnActive(b)
        PROVE  Onto(b, current)
    <3>1. Height[b] + Confirmations <= tip /\ Height[b] \in Nat
      BY <2>4, ParentFacts DEF Flags, Distant
    <3>2. Height[b] <= Height[current]
      BY <1>4, <2>2, <3>1
    <3> QED
      BY <2>2, <2>4, <3>2, OnActiveOnto
  <2>5. Fits(blockStatus)' /\ Fits(memStatus)'
    BY <1>2, <1>3, <1>5, <2>2, <2>3, <2>4 DEF Flags, Fits, Indexed
  <2>6. Distant'
    BY <1>2, <1>3, <1>5, <2>2 DEF Flags, Distant, Indexed
  <2>7. Walked'
    BY <1>3, <1>7 DEF Flags, Walked
  <2> QED
    BY <1>3, <1>7, <2>5, <2>6, <2>7, StageNames DEF Flags, Planned, InPass
<1> QED
  BY <1>2, <1>6, <1>7

\* The rows of blocks.csv a first pass takes are all on the node's chain.
LEMMA SeedFlags ==
  ASSUME TypeOK, Flags, SeedFromBlocksCsv
  PROVE  Flags'
<1> DEFINE found == {b \in Block : blocksCsv[b] # "none"}
<1>1. /\ pc = "check" /\ current = NoBlock
      /\ index' = [b \in Block |-> IF b \in found /\ index[b] = 0 THEN 1 ELSE index[b]]
      /\ pc' \in {"plan", "live"}
      /\ UNCHANGED <<tip, active, blocksCsv, current, pending, detached, memStatus, blockStatus>>
  BY DEF SeedFromBlocksCsv, node, stores
<1>2. \A b \in Block : index'[b] # 0 <=> Indexed(b) \/ b \in found
  BY <1>1 DEF TypeOK, Indexed
<1>3. \A b \in found : OnActive(b) /\ Height[b] + Confirmations <= tip
  BY <1>1 DEF Flags, Distant
<1>4. Fits(blockStatus)' /\ Fits(memStatus)'
  BY <1>1, <1>2, <1>3 DEF Flags, Fits, OnActive, Indexed
<1>5. Distant'
  BY <1>1, <1>2, <1>3 DEF Flags, Distant, OnActive, Indexed
<1>6. Walked'
  BY <1>1 DEF Flags, Walked
<1>7. Orphans(memStatus)' /\ Orphans(blockStatus)'
  BY <1>1, <1>4 DEF Fits, Orphans
<1> QED
  BY <1>1, <1>4, <1>5, <1>6, <1>7, StageNames DEF Flags, Planned, InPass

\* The hash of the node decides whether every orphan is flagged already, or the
\* walk-back has to find the ones current.csv stands on.
LEMMA CheckLiveHashFlags ==
  ASSUME TypeOK, Unbroken, Flags, CheckLiveHash
  PROVE  Flags'
<1>1. /\ pc = "live" /\ pc' = IF OnActiveChain(at) THEN "plan" ELSE "walk"
      /\ UNCHANGED <<tip, active, index, blocksCsv, current, pending, at, detached, memStatus,
                     blockStatus>>
  BY DEF CheckLiveHash, node, files, stores, locals
<1>2. /\ at \in Block /\ Indexed(at) /\ Height[at] <= tip
      /\ at = current \/ current = NoBlock
      /\ detached = {}
  BY <1>1 DEF Unbroken, Pass, Known, TypeOK, Flags, Walked
<1>3. Onto(at, at)
  BY <1>2, Reach, OntoSelf
<1>4. Fits(blockStatus)' /\ Fits(memStatus)' /\ Distant'
  BY <1>1, SameFits DEF Flags, Distant, OnActive, Indexed
<1>5. CASE OnActiveChain(at)
  <2>1. OnActive(at) /\ pc' = "plan"
    BY <1>1, <1>2, <1>5 DEF OnActive, OnActiveChain
  <2>2. Orphans(memStatus) /\ Orphans(blockStatus)
    BY <1>2, <2>1, FitsOnActive DEF Flags
  <2>3. Orphans(memStatus)' /\ Orphans(blockStatus)'
    BY <1>1, <2>2 DEF Orphans, OnActive, Indexed
  <2>4. Walked'
    BY <1>1, <1>2, <1>3, <2>1, ChainAssumption DEF Walked
  <2> QED
    BY <1>4, <2>1, <2>3, <2>4, StageNames DEF Flags, Planned, InPass
<1>6. CASE ~OnActiveChain(at)
  <2>1. ~OnActive(at) /\ pc' = "walk"
    BY <1>1, <1>2, <1>6 DEF OnActive, OnActiveChain
  <2>2. current # NoBlock /\ current = at
    BY <1>2, <2>1 DEF Flags, Fits
  <2>3. Walked'
    BY <1>1, <1>2, <1>3, <2>1, <2>2 DEF Walked
  <2> QED
    BY <1>4, <2>1, <2>3, StageNames DEF Flags, Planned, InPass
<1> QED
  BY <1>5, <1>6

\* The walk-back flags what it passes, and stops where the node's chain and the
\* ancestors of current.csv meet: all orphans are flagged then.
LEMMA WalkBackFlags ==
  ASSUME TypeOK, Unbroken, Flags, WalkBack
  PROVE  Flags'
<1>1. /\ pc = "walk" /\ Height[at] > 0 /\ at \in Block
      /\ at' = Parent[at] /\ detached' = detached \union {at}
      /\ IF OnActiveChain(Parent[at])
         THEN pc' = "audit" /\ memStatus' = SetCanonical(memStatus, detached')
         ELSE pc' = "walk" /\ memStatus' = memStatus
      /\ UNCHANGED <<tip, active, index, blocksCsv, current, pending, blockStatus>>
  BY DEF WalkBack, CanStepBack, TypeOK, node, files
<1>2. /\ Indexed(at) /\ ~OnActive(at) /\ Height[at] <= tip
      /\ current # NoBlock /\ current \in Block /\ Height[current] <= tip
      /\ Onto(at, current)
      /\ \A b \in Block : Onto(b, current) => Onto(b, at) \/ b \in detached
      /\ \A b \in detached : Indexed(b) /\ ~OnActive(b)
  BY <1>1 DEF Unbroken, Known, Pass, Flags, Walked, TypeOK
<1>3. /\ Parent[at] \in Block /\ Onto(Parent[at], at) /\ Onto(Parent[at], current)
      /\ Height[Parent[at]] <= tip
  <2>1. Parent[at] \in Block /\ Onto(Parent[at], at)
    BY <1>1, <1>2, ParentFacts, Reach, ParentBelow
  <2>2. Height[Parent[at]] <= tip
    BY <1>1, <1>2, ParentFacts DEF Unbroken, Known
  <2> QED
    BY <1>1, <1>2, <2>1, <2>2, OntoTrans
<1>4. \A b \in Block : Onto(b, current) => Onto(b, Parent[at]) \/ b \in detached'
  BY <1>1, <1>2, Reach, OntoParent
<1>5. \A b \in detached' : b \in Block /\ Indexed(b) /\ ~OnActive(b) /\ Height[b] <= tip
  BY <1>1, <1>2 DEF Unbroken, Known, TypeOK
<1>6. Distant'
  BY <1>1 DEF Flags, Distant, OnActive, Indexed
<1>7. CASE ~OnActiveChain(Parent[at])
  <2>1. pc' = "walk" /\ memStatus' = memStatus
    BY <1>1, <1>7
  <2>2. Fits(blockStatus)' /\ Fits(memStatus)'
    BY <1>1, <2>1, SameFits
  <2>3. Walked'
    BY <1>1, <1>2, <1>3, <1>4, <1>5, <2>1, ParentFacts DEF Walked, OnActive, Indexed
  <2> QED
    BY <1>6, <2>1, <2>2, <2>3, StageNames DEF Flags, Planned, InPass
<1>8. CASE OnActiveChain(Parent[at])
  <2>1. /\ pc' = "audit"
        /\ memStatus' = [b \in Block |-> IF b \in detached' THEN "detached" ELSE memStatus[b]]
    BY <1>1, <1>8 DEF SetCanonical
  <2>2. OnActive(Parent[at])
    BY <1>3, <1>8 DEF OnActive, OnActiveChain
  <2>3. ASSUME NEW b \in Block, Indexed(b), ~OnActive(b) PROVE memStatus'[b] = "detached"
    <3>1. CASE memStatus[b] = "detached"
      BY <2>1, <3>1
    <3>2. CASE memStatus[b] # "detached"
      <4>1. Onto(b, current)
        BY <2>3, <3>2 DEF Flags, Fits
      <4>2. ~Onto(b, Parent[at])
        BY <1>3, <2>2, <2>3, OntoOnActive
      <4> QED
        BY <1>4, <2>1, <4>1, <4>2
    <3> QED
      BY <3>1, <3>2
  <2>4. ASSUME NEW b \in Block, memStatus'[b] = "detached"
        PROVE  Height[b] <= tip /\ ~(OnActive(b) /\ Onto(b, current))
    BY <1>5, <2>1, <2>4 DEF Flags, Fits
  <2>5. Fits(memStatus)'
    BY <1>1, <1>2, <2>3, <2>4 DEF Fits, OnActive, Indexed
  <2>6. Fits(blockStatus)'
    BY <1>1 DEF Flags, Fits, OnActive, Indexed
  <2>7. Orphans(memStatus)'
    BY <1>1, <2>3 DEF Orphans, OnActive, Indexed
  <2>8. Walked'
    BY <1>1, <1>2, <1>3, <2>1, ParentFacts DEF Walked
  <2> QED
    BY <1>6, <2>1, <2>5, <2>6, <2>7, <2>8, StageNames DEF Flags, Planned, InPass
<1> QED
  BY <1>7, <1>8

\* Where a pass starts, nothing active up to there is flagged.
LEMMA PlanPassFlags ==
  ASSUME TypeOK, Unbroken, Flags, PlanPass
  PROVE  Flags'
<1>1. /\ pc = "plan" /\ pc' \in {"loop", "idlePointer"} /\ at' \in Rewound
      /\ UNCHANGED <<tip, active, index, blocksCsv, current, pending, detached, memStatus,
                     blockStatus>>
  BY DEF PlanPass, node, files
<1>2. /\ at' \in Block \union {NoBlock} /\ HeightOf(at') <= HeightOf(at)
      /\ at \in Block \union {NoBlock}
      /\ HeightOf(at) \in Int /\ HeightOf(at') \in Int
  BY <1>1, RewoundFacts, HeightOfType DEF TypeOK
<1>3. \A b \in Block : OnActive(b) /\ Height[b] <= HeightOf(at) =>
        current = NoBlock \/ Onto(b, current)
  <2> SUFFICES ASSUME NEW b \in Block, OnActive(b), Height[b] <= HeightOf(at),
                      current # NoBlock
               PROVE  Onto(b, current)
    OBVIOUS
  <2>1. at # NoBlock /\ Onto(at, current) /\ at \in Block /\ current \in Block
    BY <1>1 DEF Flags, Walked, TypeOK
  <2>2. OnActive(at) /\ HeightOf(at) = Height[at]
    BY <1>1, <2>1, ParentFacts DEF Unbroken, Pass
  <2>3. Onto(b, at)
    BY <2>1, <2>2, OnActiveOnto
  <2> QED
    BY <2>1, <2>3, OntoTrans
<1>4. \A b \in Block : Height[b] \in Nat
  BY ParentFacts
<1>5. Above(memStatus)' /\ Above(blockStatus)'
  <2>1. ASSUME NEW b \in Block, OnActive(b),
               memStatus[b] = "detached" \/ blockStatus[b] = "detached"
        PROVE  Height[b] > HeightOf(at')
    <3>1. ~(Height[b] <= HeightOf(at))
      BY <1>3, <2>1 DEF Flags, Fits
    <3> QED
      BY <1>2, <1>4, <3>1
  <2> QED
    BY <1>1, <2>1 DEF Above, OnActive
<1>6. Fits(blockStatus)' /\ Fits(memStatus)'
  BY <1>1, SameFits
<1>7. Distant' /\ Walked'
  BY <1>1 DEF Flags, Distant, Walked, OnActive, Indexed
<1>8. Orphans(memStatus)' /\ Orphans(blockStatus)'
  BY <1>1 DEF Flags, Planned, Orphans, OnActive, Indexed
<1> QED
  BY <1>1, <1>5, <1>6, <1>7, <1>8, StageNames DEF Flags

\* A pointer moved to the last block of the pass fits what is flagged.
LEMMA MovePointer ==
  ASSUME TypeOK, Flags, pc \in InPass, pc = "pointer" \/ at # NoBlock,
         Above(blockStatus), Orphans(blockStatus),
         current' = LastHash, UNCHANGED <<tip, active, index, memStatus, blockStatus>>
  PROVE  Fits(blockStatus)' /\ Fits(memStatus)'
<1>1. CASE at = NoBlock
  <2>1. current' = current
    BY <1>1 DEF LastHash
  <2> QED
    BY <2>1, SameFits
<1>2. CASE at # NoBlock
  <2>1. current' = at /\ at \in Block /\ HeightOf(at) = Height[at] /\ Height[at] \in Nat
    BY <1>2, ParentFacts DEF LastHash, TypeOK
  <2>2. \A b \in Block : Onto(b, at) => Height[b] <= Height[at]
    BY DEF Onto
  <2>3. Above(memStatus) /\ Orphans(memStatus)
    BY DEF Flags, Planned
  <2>4. \A b \in Block : Height[b] > HeightOf(at) => ~Onto(b, at)
    BY <2>1, <2>2, ParentFacts
  <2> QED
    BY <1>2, <2>1, <2>3, <2>4, ChainAssumption DEF Flags, Fits, Above, Orphans, OnActive, Indexed
<1> QED
  BY <1>1, <1>2

\* The block the loop stages is the next of the chain; its flag is taken back.
LEMMA ProcessBlockFlags ==
  ASSUME TypeOK, Flags, pc = "loop", NEW b \in Block, ProcessBlock(b), OnActive(b),
         Height[b] = NextHeight, NextHeight <= goal
  PROVE  Flags'
<1>1. /\ at' = b /\ pc' \in {"blocks", "loop"}
      /\ pending' \subseteq pending \union {b}
      /\ memStatus' = SetCanonicalIfPresent(memStatus, b)
      /\ UNCHANGED <<tip, active, index, blocksCsv, current, detached, blockStatus>>
  BY DEF ProcessBlock, node, files
<1>2. /\ memStatus'[b] # "detached"
      /\ \A x \in Block : x # b => memStatus'[x] = memStatus[x]
  BY <1>1 DEF SetCanonicalIfPresent, TypeOK
<1>3. Height[b] + Confirmations <= tip
  BY StageNames, ConfigAssumption, HeightOfType DEF TypeOK, NextHeight
<1>4. Fits(blockStatus)' /\ Fits(memStatus)'
  BY <1>1, <1>2 DEF Flags, Fits, OnActive, Indexed
<1>5. Distant'
  BY <1>1, <1>3 DEF Flags, Distant, OnActive, Indexed
<1>6. Walked'
  BY <1>1 DEF Walked
<1>7. Orphans(memStatus)' /\ Orphans(blockStatus)'
  BY <1>1, <1>2 DEF Flags, Planned, InPass, Orphans, OnActive, Indexed
<1>8. Above(memStatus)'
  <2>1. HeightOf(b) = HeightOf(at) + 1 /\ HeightOf(b) = Height[b] /\ HeightOf(at) \in Int
    BY ParentFacts, HeightOfType DEF NextHeight, TypeOK
  <2>2. ASSUME NEW x \in Block, memStatus'[x] = "detached", OnActive(x)
        PROVE  Height[x] > HeightOf(b)
    <3>1. x # b /\ Height[x] > HeightOf(at)
      BY <1>2, <2>2 DEF Flags, Above, InPass
    <3>2. Height[x] # Height[b]
      BY <2>2, <3>1 DEF OnActive
    <3> QED
      BY <2>1, <3>1, <3>2, ParentFacts
  <2> QED
    BY <1>1, <2>2 DEF Above, OnActive
<1> QED
  BY <1>1, <1>4, <1>5, <1>6, <1>7, <1>8, StageNames DEF Flags

\* A drain, or the flush of the index, only adds blocks of the node's chain.
LEMMA CheckpointFlags ==
  ASSUME TypeOK, Inv, Unbroken, Flags, FlushIndex \/ \E s \in Streams : Drain(s)
  PROVE  Flags'
<1>1. /\ pc \in InPass \ {"idlePointer", "idleStatus"} /\ pc # "status" /\ pc # "pointer"
      /\ pc' \in CheckpointStages /\ pc' # "pointer"
      /\ UNCHANGED <<tip, active, current, at, detached, memStatus, blockStatus>>
      /\ pending' \subseteq pending
  BY StageNames DEF FlushIndex, Drain, Streams, node, stores, locals, InPass
<1>2. \A b \in pending : b \in Block /\ OnActive(b) /\ Height[b] + Confirmations <= tip
  BY <1>1 DEF Unbroken, Pass, Extending, Flags, Distant, TypeOK
<1>3. \A b \in Block : index'[b] # 0 => Indexed(b) \/ b \in pending
  BY DEF FlushIndex, Drain, Indexed
<1>4. \A b \in Block : blocksCsv'[b] # "none" => blocksCsv[b] # "none" \/ b \in pending
  <2>1. CASE FlushIndex
    BY <2>1 DEF FlushIndex
  <2>2. ASSUME NEW s \in Streams, Drain(s)
        PROVE  \A b \in Block : blocksCsv'[b] # "none" => blocksCsv[b] # "none" \/ b \in pending
    <3>1. buf = pending
      BY <2>2 DEF Drain, Inv, Staged
    <3> QED
      BY <2>2, <3>1 DEF Drain, PlaceRows
  <2> QED
    BY <2>1, <2>2
<1>5. Fits(blockStatus)' /\ Fits(memStatus)'
  BY <1>1, <1>2, <1>3 DEF Flags, Fits, OnActive, Indexed
<1>6. Distant'
  BY <1>1, <1>2, <1>3, <1>4 DEF Flags, Distant, OnActive, Indexed
<1>7. Walked'
  BY <1>1, StageNames DEF Walked
<1>8. Orphans(memStatus)' /\ Orphans(blockStatus)'
  BY <1>1, <1>2, <1>3 DEF Flags, Planned, Orphans, OnActive, Indexed
<1>9. Above(memStatus)'
  BY <1>1 DEF Flags, Above, OnActive
<1> QED
  BY <1>1, <1>5, <1>6, <1>7, <1>8, <1>9, StageNames DEF Flags

\* Every step keeps the flags right, as long as the loop is not overtaken.
LEMMA FlagsStep ==
  ASSUME TypeOK, TypeOK', Inv, Unbroken, Flags, [Next]_vars, ~overtaken'
  PROVE  Flags'
<1> USE DEF node, files, stores, locals
<1>1. CASE NodeMoves
  BY <1>1, NodeMovesFlags
<1>2. CASE SplunkTakes
  <2>1. /\ UNCHANGED <<tip, active, index, current, pending, pc, at, detached, memStatus,
                       blockStatus>>
        /\ \A b \in Block : blocksCsv'[b] = blocksCsv[b] \/ blocksCsv'[b] = "none"
    BY <1>2 DEF SplunkTakes, TypeOK
  <2>2. Fits(blockStatus)' /\ Fits(memStatus)'
    BY <2>1, SameFits
  <2> QED
    BY <2>1, <2>2 DEF Flags, Distant, Walked, Orphans, Above, OnActive, Indexed
<1>3. CASE Crash \/ Exit \/ WalkBackFails
  <2>1. ProcessDies
    BY <1>3 DEF Crash, Exit, WalkBackFails
  <2> QED
    BY <2>1, LeaveFlags DEF ProcessDies, ResetLocals
<1>4. CASE Stop \/ UNCHANGED vars
  <2>1. UNCHANGED <<tip, active, index, blocksCsv, current, pending, pc, at, detached,
                    memStatus, blockStatus>>
    BY <1>4 DEF Stop, vars
  <2>2. Fits(blockStatus)' /\ Fits(memStatus)'
    BY <2>1, SameFits
  <2> QED
    BY <2>1, <2>2 DEF Flags, Distant, Walked, Orphans, Above, OnActive, Indexed
<1>5. CASE RpcFails
  BY <1>5, LeaveFlags DEF RpcFails, ResetLocals, DiscardPending
<1>6. CASE Restart \/ BeginPass
  <2>1. detached = {}
    BY <1>6 DEF Restart, BeginPass, Flags, Walked
  <2> QED
    BY <1>6, <2>1, LeaveFlags DEF Restart, BeginPass
<1>7. CASE ReadCurrent
  <2>1. /\ pc = "check" /\ pc' = "live" /\ at' = current
        /\ UNCHANGED <<tip, active, index, blocksCsv, current, pending, detached, memStatus,
                       blockStatus>>
    BY <1>7 DEF ReadCurrent
  <2>2. Fits(blockStatus)' /\ Fits(memStatus)'
    BY <2>1, SameFits
  <2> QED
    BY <2>1, <2>2, StageNames DEF Flags, Distant, Walked, Planned, InPass, OnActive, Indexed
<1>8. CASE SeedFromBlocksCsv
  BY <1>8, SeedFlags
<1>9. CASE CheckLiveHash
  BY <1>9, CheckLiveHashFlags
<1>10. CASE WalkBack
  BY <1>10, WalkBackFlags
<1>11. CASE FlushDetached
  <2>1. /\ pc = "audit" /\ pc' = "plan" /\ blockStatus' = memStatus
        /\ UNCHANGED <<tip, active, index, blocksCsv, current, pending, at, detached,
                       memStatus>>
    BY <1>11 DEF FlushDetached
  <2>2. Fits(blockStatus)' /\ Fits(memStatus)'
    BY <2>1, SameFits
  <2> QED
    BY <2>1, <2>2, StageNames
       DEF Flags, Distant, Walked, Planned, InPass, Orphans, OnActive, Indexed
<1>12. CASE FlushStatus
  <2>1. /\ pc = "status" /\ pc' = "pointer" /\ blockStatus' = memStatus
        /\ UNCHANGED <<tip, active, index, blocksCsv, current, pending, at, detached,
                       memStatus>>
    BY <1>12, StageNames DEF FlushStatus
  <2>2. Fits(blockStatus)' /\ Fits(memStatus)'
    BY <2>1, SameFits
  <2> QED
    BY <2>1, <2>2, StageNames
       DEF Flags, Distant, Walked, Planned, InPass, Orphans, Above, OnActive, Indexed
<1>13. CASE PlanPass
  BY <1>13, PlanPassFlags
<1>14. CASE IdlePointer
  <2>1. /\ pc = "idlePointer" /\ pc' = "idleStatus" /\ current' = at
        /\ UNCHANGED <<tip, active, index, blocksCsv, pending, at, detached, memStatus,
                       blockStatus>>
    BY <1>14 DEF IdlePointer
  <2>2. at # NoBlock /\ current' = LastHash
    BY <2>1 DEF Unbroken, Pass, LastHash
  <2>3. Above(blockStatus) /\ Orphans(blockStatus) /\ pc \in InPass
    BY <2>1 DEF Flags, Planned, InPass
  <2>4. Fits(blockStatus)' /\ Fits(memStatus)'
    BY <2>1, <2>2, <2>3, MovePointer
  <2> QED
    BY <2>1, <2>2, <2>4, StageNames
       DEF Flags, Distant, Walked, Planned, InPass, Orphans, Above, OnActive, Indexed
<1>15. CASE IdleStatus
  BY <1>15, LeaveFlags DEF IdleStatus, ResetLocals
<1>16. CASE ProcessHeight
  <2>1. NextHeight \in 0..tip /\ NextHeight <= goal
    BY <1>16, ConfigAssumption, HeightOfType DEF TypeOK, ProcessHeight, MoreHeights, NextHeight
  <2>2. /\ active[NextHeight] \in Block /\ OnActive(active[NextHeight])
        /\ Height[active[NextHeight]] = NextHeight
    BY <2>1, ActiveFacts, OnActiveFacts
  <2> QED
    BY <1>16, <2>1, <2>2, ProcessBlockFlags DEF ProcessHeight
<1>17. CASE ProcessPrefetched
  <2>1. PICK b \in seen : Height[b] = NextHeight /\ ProcessBlock(b)
    BY <1>17 DEF ProcessPrefetched
  <2>2. b \in Block /\ OnActive(b)
    BY OnActiveFacts DEF Unbroken, Pass
  <2>3. NextHeight <= goal
    BY <1>17, HeightOfType DEF TypeOK, ProcessPrefetched, MoreHeights, NextHeight
  <2> QED
    BY <1>17, <2>1, <2>2, <2>3, ProcessBlockFlags DEF ProcessPrefetched
<1>18. CASE EndPass \/ PrefetchedMismatch
  <2>1. /\ pc = "loop" /\ pc' = "blocks"
        /\ UNCHANGED <<tip, active, index, blocksCsv, current, pending, at, detached,
                       memStatus, blockStatus>>
    BY <1>18 DEF EndPass, PrefetchedMismatch, BeginEnd
  <2>2. Fits(blockStatus)' /\ Fits(memStatus)'
    BY <2>1, SameFits
  <2> QED
    BY <2>1, <2>2, StageNames
       DEF Flags, Distant, Walked, Planned, InPass, Orphans, Above, OnActive, Indexed
<1>19. CASE FlushIndex \/ \E s \in Streams : Drain(s)
  BY <1>19, CheckpointFlags
<1>20. CASE WritePointer
  <2>1. /\ pc = "pointer" /\ current' = LastHash
        /\ UNCHANGED <<tip, active, index, blocksCsv, pending, memStatus, blockStatus>>
        /\ \/ pc' = "idle" /\ ResetLocals
           \/ pc' = "loop" /\ UNCHANGED <<at, detached>>
    BY <1>20 DEF WritePointer
  <2>2. Above(blockStatus) /\ Orphans(blockStatus) /\ pc \in InPass
    BY <2>1, StageNames DEF Flags, Planned, InPass
  <2>3. Fits(blockStatus)' /\ Fits(memStatus)'
    BY <2>1, <2>2, MovePointer
  <2>4. Distant'
    BY <2>1 DEF Flags, Distant, LastHash, OnActive, Indexed
  <2>5. CASE pc' = "idle" /\ ResetLocals
    BY <2>3, <2>4, <2>5, StageNames DEF Flags, Walked, Planned, InPass, ResetLocals
  <2>6. CASE pc' = "loop" /\ UNCHANGED <<at, detached>>
    BY <2>1, <2>2, <2>3, <2>4, <2>6, StageNames
       DEF Flags, Walked, Planned, InPass, Orphans, Above, OnActive, Indexed
  <2> QED
    BY <2>1, <2>5, <2>6
<1> QED
  BY <1>1, <1>2, <1>3, <1>4, <1>5, <1>6, <1>7, <1>8, <1>9, <1>10, <1>11, <1>12, <1>13,
     <1>14, <1>15, <1>16, <1>17, <1>18, <1>19, <1>20 DEF Next, Process

-----------------------------------------------------------------------------
(* The theorems.                                                           *)

\* In every reachable state every variable has its type, a pass keeps below the
\* height it set out for, and that height keeps its distance from the tip.
THEOREM TypeCorrect == Spec => []TypeOK
<1>1. TypeOK /\ [Next]_vars => TypeOK'
  BY TypeOKStep
<1> QED
  BY InitTypeOK, <1>1, PTL DEF Spec

\* The inductive invariant: what is staged, recorded and counted.
THEOREM InvCorrect == Spec => []Inv
<1>1. TypeOK /\ TypeOK' /\ Inv /\ [Next]_vars => Inv'
  BY InvStep
<1> QED
  BY InitInv, <1>1, TypeCorrect, PTL DEF Spec

\* A block index.csv records under the current schema has its rows in all four
\* streams, whatever faults and reorgs the history holds.
THEOREM IndexHonest == Spec => []IndexImpliesExported
<1>1. Inv => IndexImpliesExported
  BY DEF Inv
<1> QED
  BY <1>1, InvCorrect, PTL

\* No stream ever gets the rows of a block more often than once, plus once per
\* crash, plus once if an older schema had exported the block before.
THEOREM NoNeedlessDuplicate == Spec => []DuplicatesBounded
<1>1. TypeOK /\ Inv => DuplicatesBounded
  <2> SUFFICES ASSUME TypeOK, Inv, NEW s \in Streams, NEW b \in Block
               PROVE  exports[s][b] <= 1 + faults["crash"] +
                        (IF s \in OldStreams /\ Height[b] <= OldHeight THEN 1 ELSE 0)
    BY DEF DuplicatesBounded
  <2>1. exports[s][b] <= (IF Completing(s, b) THEN 1 ELSE 0) + faults["crash"]
                           + (IF Older(s, b) THEN 1 ELSE 0)
    BY DEF Inv, Counted
  <2>2. exports[s][b] \in Nat /\ faults["crash"] \in Nat
    BY DEF TypeOK, Fault
  <2> QED
    BY <2>1, <2>2 DEF Older
<1> QED
  BY <1>1, InvCorrect, TypeCorrect, PTL

\* OneBranch: a batch the pool has read never mixes two branches, wherever the
\* node has moved while its workers were reading.
THEOREM BatchOnOneBranch == Spec => []OneBranch
<1>1. Init => Branch
  BY InitTypeOK, NothingStaged DEF Init
<1>2. TypeOK /\ TypeOK' /\ Inv /\ Branch /\ [Next]_vars => Branch'
  BY BranchStep
<1>3. Branch => OneBranch
  BY DEF Branch
<1> QED
  BY <1>1, <1>2, <1>3, TypeCorrect, InvCorrect, PTL DEF Spec

\* As long as the node has never left its chain under a pass, the record of
\* exported blocks grows along its chain and is never broken off.
THEOREM UnbrokenCorrect == Spec => [](Steady => Unbroken)
<1>1. Init => (Steady => Unbroken)
  BY InitUnbroken
<1>2. TypeOK /\ TypeOK' /\ Inv /\ (Steady => Unbroken) /\ [Next]_vars => (Steady => Unbroken)'
  <2>1. [Next]_vars /\ Steady' => Steady
    BY OvertakenStays DEF Steady
  <2> QED
    BY <2>1, UnbrokenStep
<1> QED
  BY <1>1, <1>2, TypeCorrect, InvCorrect, PTL DEF Spec

\* Then no reorg walks back past what is on record, which would stop the service.
THEOREM NeverLost == ReorgMode = "between" /\ Spec => []WalkNeverLost
<1> SUFFICES ASSUME ReorgMode = "between" PROVE Spec => []WalkNeverLost
  OBVIOUS
<1>1. TypeOK /\ (Steady => Unbroken) => WalkNeverLost
  <2> SUFFICES ASSUME TypeOK, Unbroken PROVE WalkNeverLost
    BY DEF Steady
  <2>1. \A b \in Block : index[b] # 0 /\ Height[b] > 0 => index[Parent[b]] # 0
    BY DEF Unbroken, Known, Indexed
  <2>2. ASSUME pc = "walk" PROVE index[at] # 0 /\ Height[at] > 0
    <3>1. at \in Block /\ Indexed(at) /\ ~OnActive(at) /\ Height[at] \in Nat
      BY <2>2, ParentFacts DEF Unbroken, Pass, TypeOK
    <3>2. 0 \in 0..tip
      BY ConfigAssumption DEF TypeOK
    <3>3. active[0] \in Block /\ Height[active[0]] = 0 /\ OnActive(active[0])
      BY <3>2, ActiveFacts, OnActiveFacts
    <3>4. Height[at] # 0
      BY <3>1, <3>3, ChainAssumption
    <3> QED
      BY <3>1, <3>4 DEF Indexed
  <2> QED
    BY <2>1, <2>2 DEF WalkNeverLost
<1> QED
  BY <1>1, UnbrokenCorrect, TypeCorrect, PTL

\* And whenever the loop has caught up, the whole active chain is exported.
THEOREM ChainExported == ReorgMode = "between" /\ Spec => []ActiveChainExported
<1> SUFFICES ASSUME ReorgMode = "between" PROVE Spec => []ActiveChainExported
  OBVIOUS
<1>1. TypeOK /\ (Steady => Unbroken) => ActiveChainExported
  <2> SUFFICES ASSUME TypeOK, Unbroken, Settled
               PROVE  \A h \in 0..Height[current] : index[active[h]] # 0
    BY DEF ActiveChainExported, Steady
  <2>1. tip - Confirmations \in 0..tip /\ current = active[tip - Confirmations]
    BY ConfigAssumption DEF Settled, TypeOK
  <2>2. current \in Block /\ OnActive(current) /\ Indexed(current)
    BY <2>1, OnActiveFacts DEF Settled, Unbroken, Known
  <2> QED
    BY <2>2, DownLinked DEF Unbroken, Indexed
<1> QED
  BY <1>1, UnbrokenCorrect, TypeCorrect, PTL

\* If the older exporter kept its distance from the tip, the flags stay right as
\* long as the chain is only replaced when the loop has caught up with it.
THEOREM FlagsCorrect == OldKeptDistance /\ Spec => [](~overtaken => Flags)
<1> SUFFICES ASSUME OldKeptDistance PROVE Spec => [](~overtaken => Flags)
  OBVIOUS
<1>1. Init => (~overtaken => Flags)
  BY InitFlags
<1>2. TypeOK /\ TypeOK' /\ Inv /\ (Steady => Unbroken) /\ (~overtaken => Flags) /\ [Next]_vars
        => (~overtaken => Flags)'
  <2>1. [Next]_vars /\ ~overtaken' => ~overtaken
    BY OvertakenStays
  <2> QED
    BY <2>1, FlagsStep DEF Steady
<1> QED
  BY <1>1, <1>2, TypeCorrect, InvCorrect, UnbrokenCorrect, PTL DEF Spec

\* Then block_status.csv answers which exported block is canonical.
THEOREM StatusCorrect == OldKeptDistance /\ Spec => []StatusFollowsChain
<1> SUFFICES ASSUME OldKeptDistance PROVE Spec => []StatusFollowsChain
  OBVIOUS
<1>1. TypeOK /\ (Steady => Unbroken) /\ (~overtaken => Flags) => StatusFollowsChain
  <2> SUFFICES ASSUME TypeOK, Unbroken, Flags, Settled
               PROVE  /\ \A h \in 0..Height[current] : blockStatus[active[h]] # "detached"
                      /\ \A b \in Block : index[b] # 0 /\ ~OnActiveChain(b)
                                           => blockStatus[b] = "detached"
    BY DEF StatusFollowsChain, Steady
  <2>1. tip - Confirmations \in 0..tip /\ current = active[tip - Confirmations]
    BY ConfigAssumption DEF Settled, TypeOK
  <2>2. current \in Block /\ OnActive(current) /\ Height[current] \in 0..tip /\ tip \in Nat
    BY <2>1, OnActiveFacts, ConfigAssumption DEF TypeOK
  <2>3. ASSUME NEW h \in 0..Height[current] PROVE blockStatus[active[h]] # "detached"
    <3>1. h \in 0..tip
      BY <2>2
    <3>2. active[h] \in Block /\ OnActive(active[h]) /\ Height[active[h]] <= Height[current]
      BY <2>3, <3>1, ActiveFacts, OnActiveFacts
    <3>3. Onto(active[h], current)
      BY <2>2, <3>2, OnActiveOnto
    <3> QED
      BY <3>2, <3>3 DEF Flags, Fits
  <2>4. Orphans(blockStatus)
    BY <2>2, FitsOnActive DEF Flags
  <2>5. \A b \in Block : index[b] # 0 /\ ~OnActiveChain(b) => Indexed(b) /\ ~OnActive(b)
    BY DEF OnActive, OnActiveChain, Indexed
  <2> QED
    BY <2>3, <2>4, <2>5 DEF Orphans
<1> QED
  BY <1>1, FlagsCorrect, UnbrokenCorrect, TypeCorrect, PTL

-----------------------------------------------------------------------------
(* The loop implements the export log.                                     *)

Recorded == {b \in Block : index[b] = CURRENT_INDEX_SCHEMA_VERSION}

\* Nothing is on record when the program starts, at most the older rows are out.
LEMMA LogInit == Init => Log!Init
<1> SUFFICES ASSUME Init PROVE Log!Init
  OBVIOUS
<1>1. exports \in [Streams -> [Block -> {0, 1}]]
  BY DEF Init
<1>2. Recorded = {}
  BY DEF Init, Recorded, CURRENT_INDEX_SCHEMA_VERSION
<1> QED
  BY <1>1, <1>2 DEF Log!Init, Recorded

\* A drain delivers, an index flush records, every other step is invisible.
LEMMA LogStep == TypeOK /\ Inv /\ [Next]_vars => [Log!Next]_<<exports, Recorded>>
<1> SUFFICES ASSUME TypeOK, Inv, [Next]_vars PROVE [Log!Next]_<<exports, Recorded>>
  OBVIOUS
<1> USE DEF node, files, stores, locals, Recorded
<1>1. ASSUME NEW s \in Streams, Drain(s) PROVE Log!Next
  <2>1. buf = pending /\ buf \in SUBSET Block
    BY <1>1 DEF Drain, Inv, Staged, TypeOK
  <2>2. buf \intersect Recorded = {}
    BY <2>1 DEF Inv, Staged, TypeOK, CURRENT_INDEX_SCHEMA_VERSION
  <2>3. exports' = [exports EXCEPT ![s] =
                      [b \in Block |-> IF b \in buf THEN @[b] + 1 ELSE @[b]]]
    BY <1>1 DEF Drain
  <2>4. UNCHANGED Recorded
    BY <1>1 DEF Drain
  <2>5. Log!Deliver(s, buf)
    BY <2>2, <2>3, <2>4 DEF Log!Deliver
  <2> QED
    BY <2>1, <2>5 DEF Log!Next
<1>2. CASE FlushIndex
  <2>1. pending \in SUBSET Block
    BY DEF TypeOK
  <2>2. \A b \in pending, s \in Streams : exports[s][b] > 0
    BY <1>2, DrainedFacts DEF FlushIndex, Inv, Staged
  <2>3. Recorded' = Recorded \union pending /\ exports' = exports
    BY <1>2, <2>1 DEF FlushIndex
  <2> QED
    BY <2>1, <2>2, <2>3 DEF Log!Next, Log!Record
<1>3. CASE SeedFromBlocksCsv
  BY <1>3 DEF SeedFromBlocksCsv, CURRENT_INDEX_SCHEMA_VERSION, TypeOK
<1>4. CASE UNCHANGED <<index, exports>>
  BY <1>4
<1>5. [Next]_vars => \/ \E s \in Streams : Drain(s)
                     \/ FlushIndex \/ SeedFromBlocksCsv \/ UNCHANGED <<index, exports>>
  BY DEF Next, Process, vars, NodeMoves, SplunkTakes, Crash, ProcessDies, Stop, RpcFails,
     Exit, Restart, BeginPass, ReadCurrent, CheckLiveHash, WalkBack, WalkBackFails,
     FlushDetached, PlanPass, IdlePointer, IdleStatus, ProcessHeight, ProcessPrefetched,
     ProcessBlock, EndPass, PrefetchedMismatch, BeginEnd, FlushStatus, WritePointer
<1> QED
  BY <1>1, <1>2, <1>3, <1>4, <1>5

\* The export loop, whatever faults and reorgs it meets, is an export log.
THEOREM LoopImplementsExportLog == Spec => ImplementsExportLog
<1>1. TypeOK /\ Inv /\ [Next]_vars => [Log!Next]_<<exports, Recorded>>
  BY LogStep
<1> QED
  BY <1>1, LogInit, TypeCorrect, InvCorrect, PTL
     DEF Spec, ImplementsExportLog, Log!Spec, Recorded
=============================================================================
