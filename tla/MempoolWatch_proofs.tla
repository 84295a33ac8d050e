------------------------- MODULE MempoolWatch_proofs -------------------------
(***************************************************************************)
(* The safety of the mempool watcher for any set of transactions, any      *)
(* scan and forget depth, and any number of blocks, reorgs, crashes, lost  *)
(* messages and failed calls.                                              *)
(***************************************************************************)
EXTENDS MempoolWatch, FiniteSetTheorems, SequenceTheorems, TLAPS

Msg == [label : {"A", "R"}, of : Tx, gap : BOOLEAN]
       \union [label : {"C", "D"}, of : Blocks, gap : BOOLEAN]

\* The node: its chain never gets shorter, so a height once heard of exists, and
\* a block keeps what it was mined with.
Unmade == \A b \in Blocks : b > made => TxsOf(b) = {}
NodeOK ==
  /\ mempool \subseteq Tx /\ listFile \subseteq Tx
  /\ listState \in {"loaded", "edited", "broken"} /\ subscribed \in BOOLEAN
  /\ chain \in Seq(Blocks) /\ chain # <<>> /\ Len(chain) <= made /\ made \in Blocks
  /\ body \in [Blocks -> [txs : SUBSET Tx, height : 0..MaxBlocks - 1]]
  /\ \A b \in Blocks : HeightOf(b) < Len(chain)
  /\ Unmade
  /\ queue \in Seq(Msg) /\ dropped \in BOOLEAN

\* An entry and the latest event say the same, even while a flush is due.
Matches(status, event) ==
  CASE status = "mempool" -> event \in {"seen", "unconfirmed"}
    [] status = "confirmed" -> event = "confirmed"
    [] OTHER -> event \in {"none", "replaced", "removed", "confirmed"}
Certified(entries) ==
  \A t \in Tx : entries[t].status = "confirmed" =>
    entries[t].block \in Blocks /\ t \in TxsOf(entries[t].block)
RecordOK ==
  /\ last \in [Tx -> Events \union {"none"}]
  /\ flagged \in [Tx -> Entry] /\ store \in [Tx -> Entry]
  /\ dirty \in BOOLEAN /\ doubtful \subseteq Tx
  /\ ~dirty => store = flagged
  /\ \A t \in Tx \ doubtful : Matches(store[t].status, last[t])
  /\ Certified(store) /\ Certified(flagged)

\* The process: the transactions a step works on are in the state it takes them
\* for, and the events in hand are there.
Bodies ==
  /\ known \subseteq Tx /\ checked \subseteq Tx /\ unfetched \subseteq Tx
  /\ snapshot \subseteq Tx /\ todo \subseteq Tx
  /\ fetched \in [Tx -> {"no", "none", "tx"}]
  /\ heard \in BOOLEAN /\ gap \in BOOLEAN /\ due \in BOOLEAN /\ stopping \in BOOLEAN
Scanning ==
  /\ tipHeight \in 0..MaxBlocks - 1 /\ scan \in -1..MaxBlocks - 1
  /\ tipHeight < Len(chain) /\ scan < Len(chain)
  /\ subject \in Tx \union {NoTx}
  /\ pc \in {"scan", "leaving"} => subject \in Tx /\ store[subject].status = "mempool"
  /\ pc = "depth" => todo \subseteq Tracked("confirmed")
InHand ==
  /\ batch \in Seq(Msg)
  /\ pc \in {"fetch", "apply", "connect"} => batch # <<>>
  /\ pc = "connect" => Head(batch).label = "C"
ProcessOK == pc \in Stages /\ Bodies /\ Scanning /\ InHand

IInv == NodeOK /\ RecordOK /\ ProcessOK

-----------------------------------------------------------------------------
(* What the actions are built from.                                        *)

LEMMA Numbers ==
  /\ IsFiniteSet(Tx) /\ NoTx \notin Tx /\ ScanBlocks \in Nat \ {0} /\ ForgetAfter \in Nat \ {0}
  /\ MaxBlocks \in Nat \ {0} /\ MaxReorg \in Nat /\ Listed \subseteq Tx
  BY WatchAssumption

LEMMA OneMessage ==
  /\ \A label \in {"A", "R"} : \A t \in Tx : Message(label, t) \in Msg
  /\ \A label \in {"C", "D"} : \A b \in Blocks : Message(label, b) \in Msg
  BY DEF Message, Msg

LEMMA MessageFacts ==
  ASSUME NEW m \in Msg
  PROVE  /\ m.label \in {"A", "R"} => m.of \in Tx
         /\ m.label \in {"C", "D"} => m.of \in Blocks
         /\ m.label \in {"A", "R", "C", "D"}
         /\ m.gap \in BOOLEAN
         /\ \A g \in BOOLEAN : [m EXCEPT !.gap = g] \in Msg
  BY DEF Msg

\* A finite set of transactions can be announced in some order.
LEMMA ManyMessages ==
  ASSUME NEW label \in {"A", "R"}, NEW S, S \subseteq Tx
  PROVE  Messages(label, S) \in Seq(Msg)
  <1> DEFINE M == {Message(label, x) : x \in S}
             n == Cardinality(M)
  <1>1. M \subseteq Msg
    BY OneMessage
  <1>2. IsFiniteSet(S)
    BY Numbers, FS_Subset
  <1>3. IsFiniteSet(M)
    <2> DEFINE f == [x \in S |-> Message(label, x)]
    <2>1. f \in Surjection(S, M)
      BY DEF Surjection
    <2>2. QED BY <1>2, <2>1, FS_Surjection DEF ExistsSurjection
  <1>4. n \in Nat /\ ExistsBijection(1..n, M)
    BY <1>3, FS_CardinalityType
  <1> HIDE DEF M, n
  <1>5. \E f \in [1..n -> M] : IsInjective(f)
    BY <1>4 DEF ExistsBijection, Bijection, Injection, IsInjective
  <1>6. SetToSeq(M) \in [1..n -> M]
    BY <1>5 DEF SetToSeq, n
  <1>7. SetToSeq(M) \in [1..n -> Msg]
    BY <1>6, <1>1
  <1>8. SetToSeq(M) \in Seq(Msg)
    BY <1>7, <1>4, SeqDef
  <1>9. QED BY <1>8 DEF Messages, M

LEMMA WithGap ==
  ASSUME NEW ms \in Seq(Msg), ms # <<>>, NEW i \in 1..Len(ms), NEW g \in BOOLEAN
  PROVE  [ms EXCEPT ![i].gap = g] \in Seq(Msg)
  <1>1. ms[i] \in Msg
    BY ElementOfSeq
  <1>2. [ms[i] EXCEPT !.gap = g] \in Msg
    BY <1>1, MessageFacts
  <1>3. [ms EXCEPT ![i] = [ms[i] EXCEPT !.gap = g]] \in Seq(Msg)
    BY <1>2, ExceptSeq
  <1>4. QED BY <1>3

LEMMA PublishType ==
  ASSUME queue \in Seq(Msg), dropped \in BOOLEAN, NEW ms \in Seq(Msg), Publish(ms)
  PROVE  queue' \in Seq(Msg) /\ dropped' \in BOOLEAN
  <1>1. CASE pc = "down" \/ ~subscribed \/ ms = <<>>
    BY <1>1 DEF Publish
  <1>2. CASE ~(pc = "down" \/ ~subscribed \/ ms = <<>>)
    <2>1. 1 \in 1..Len(ms)
      BY <1>2, EmptySeq
    <2>2. [ms EXCEPT ![1].gap = dropped] \in Seq(Msg)
      BY <1>2, <2>1, WithGap
    <2>3. queue' = queue \o [ms EXCEPT ![1].gap = dropped] /\ dropped' = FALSE
      BY <1>2 DEF Publish
    <2>4. QED BY <2>2, <2>3, ConcatProperties
  <1>3. QED BY <1>1, <1>2

LEMMA MaxOfTwo ==
  ASSUME NEW a \in Int, NEW b \in Int
  PROVE  Max({a, b}) \in {a, b} /\ Max({a, b}) >= a /\ Max({a, b}) >= b
  <1>1. \E x \in {a, b} : \A y \in {a, b} : x >= y
    OBVIOUS
  <1>2. QED BY <1>1 DEF Max

LEMMA LowestIsNat ==
  ASSUME RecordOK, ProcessOK, subject \in Tx
  PROVE  LowestScanned \in Int /\ LowestScanned >= 0
  <1>1. store[subject].since \in Int /\ tipHeight - ScanBlocks + 1 \in Int
    BY Numbers DEF RecordOK, ProcessOK, Scanning, Entry
  <1>2. \A a, b \in Int : \E x \in {a, b, 0} : \A y \in {a, b, 0} : x >= y
    OBVIOUS
  <1>3. \A a, b \in Int : Max({a, b, 0}) \in Int /\ Max({a, b, 0}) >= 0
    BY <1>2 DEF Max
  <1>4. QED BY <1>1, <1>3 DEF LowestScanned

LEMMA TailOfBatch ==
  ASSUME batch \in Seq(Msg), batch # <<>>
  PROVE  /\ Tail(batch) \in Seq(Msg)
         /\ Len(batch) > 1 => Tail(batch) # <<>>
         /\ Head(batch) \in Msg
  <1> DEFINE rest == Tail(batch)
  <1>1. Head(batch) \in Msg /\ rest \in Seq(Msg) /\ Len(rest) = Len(batch) - 1
    BY HeadTailProperties
  <1> HIDE DEF rest
  <1>2. Len(batch) > 1 => rest # <<>>
    BY <1>1, EmptySeq, LenProperties
  <1>3. QED BY <1>1, <1>2 DEF rest

\* What a handler or a pass ends with.
LEMMA AfterEventOK ==
  ASSUME ProcessOK, batch # <<>>, AfterEvent
  PROVE  /\ batch' \in Seq(Msg) /\ fetched' \in [Tx -> {"no", "none", "tx"}]
         /\ pc' \in {"apply", "end"} /\ (pc' = "apply" => batch' # <<>>)
  BY TailOfBatch DEF AfterEvent, ProcessOK, Bodies, InHand

LEMMA SameNode == ASSUME NodeOK, UNCHANGED node PROVE NodeOK'
  BY DEF node, NodeOK, Unmade, TxsOf, HeightOf

LEMMA SameRecord ==
  ASSUME RecordOK, UNCHANGED <<record, doubtful, body>> PROVE RecordOK'
  BY DEF RecordOK, record, Certified, TxsOf

LEMMA TrackOK ==
  ASSUME RecordOK, NEW t \in Tx, NEW event \in Events, NEW entry \in Entry,
         Matches(entry.status, event),
         entry.status = "confirmed" => entry.block \in Blocks /\ t \in TxsOf(entry.block),
         Track(t, event, entry), UNCHANGED <<body, doubtful>>
  PROVE  RecordOK' /\ store' = [store EXCEPT ![t] = entry]
  <1>1. /\ last' = [last EXCEPT ![t] = event] /\ store' = [store EXCEPT ![t] = entry]
        /\ dirty' = TRUE /\ flagged' = flagged /\ body' = body /\ doubtful' = doubtful
    BY DEF Track
  <1>2. \A x \in Tx \ doubtful : Matches(store'[x].status, last'[x])
    BY <1>1 DEF RecordOK
  <1>3. Certified(store)'
    BY <1>1 DEF RecordOK, Certified, TxsOf
  <1>4. Certified(flagged)'
    BY <1>1 DEF RecordOK, Certified, TxsOf
  <1>5. QED BY <1>1, <1>2, <1>3, <1>4 DEF RecordOK

LEMMA OnAddedOK ==
  ASSUME RecordOK, ProcessOK, NodeOK, NEW t \in Tx, OnAdded(t), UNCHANGED <<body, doubtful>>
  PROVE  /\ RecordOK' /\ checked' \subseteq Tx
         /\ \A x \in Tx : store[x].status # "untracked" => store'[x] = store[x]
  <1>1. CASE t \in known /\ ~AlreadyTracked(t)
    <2> DEFINE e == [status |-> "mempool", block |-> NoBlock, since |-> tipHeight]
    <2>1. e \in Entry /\ e.status = "mempool"
      BY DEF Entry, ProcessOK, Scanning
    <2>2. Track(t, "seen", e) /\ "seen" \in Events /\ Matches(e.status, "seen")
      BY <1>1 DEF OnAdded, Events, Matches
    <2> HIDE DEF e
    <2>3. RecordOK' /\ store' = [store EXCEPT ![t] = e]
      BY <2>1, <2>2, TrackOK
    <2>4. QED BY <1>1, <2>3 DEF OnAdded, ProcessOK, Bodies, AlreadyTracked, RecordOK
  <1>2. CASE ~(t \in known /\ ~AlreadyTracked(t))
    <2>1. UNCHANGED record
      BY <1>2 DEF OnAdded
    <2>2. QED BY <2>1, SameRecord DEF OnAdded, ProcessOK, Bodies, record
  <1>3. QED BY <1>1, <1>2

LEMMA MarkConfirmedOK ==
  ASSUME RecordOK, NEW t \in Tx, NEW b \in Blocks, t \in TxsOf(b), MarkConfirmed(t, b),
         UNCHANGED <<body, doubtful>>
  PROVE  RecordOK'
  <1> DEFINE e == [store[t] EXCEPT !.status = "confirmed", !.block = b]
  <1>1. e \in Entry /\ e.status = "confirmed" /\ e.block = b
    BY DEF Entry, RecordOK
  <1>2. Track(t, "confirmed", e) /\ "confirmed" \in Events /\ Matches(e.status, "confirmed")
    BY DEF MarkConfirmed, Events, Matches
  <1> HIDE DEF e
  <1>3. QED BY <1>1, <1>2, TrackOK

-----------------------------------------------------------------------------
(* The invariant, action by action.                                        *)

LEMMA InitInv == Init => IInv
  <1> SUFFICES ASSUME Init PROVE IInv
    OBVIOUS
  <1>1. 1 \in Blocks /\ 0 \in 0..MaxBlocks - 1 /\ chain \in Seq(Blocks) /\ chain # <<>>
        /\ Len(chain) = 1 /\ <<>> \in Seq(Msg)
    BY Numbers DEF Init, Blocks
  <1>2. Untracked \in Entry /\ Untracked.status = "untracked"
    BY <1>1 DEF Untracked, Entry, NoBlock
  <1>3. NodeOK
    <2>1. body = [b \in Blocks |-> [txs |-> {}, height |-> 0]] /\ made = 1
      BY DEF Init
    <2>2. /\ body \in [Blocks -> [txs : SUBSET Tx, height : 0..MaxBlocks - 1]]
          /\ \A b \in Blocks : HeightOf(b) < Len(chain) /\ TxsOf(b) = {}
      BY <1>1, <2>1 DEF HeightOf, TxsOf
    <2>3. /\ mempool \subseteq Tx /\ listFile \subseteq Tx
          /\ listState \in {"loaded", "edited", "broken"} /\ subscribed \in BOOLEAN
      BY Numbers DEF Init
    <2>4. queue \in Seq(Msg) /\ dropped = FALSE
      BY <1>1 DEF Init
    <2>5. Unmade
      BY <2>2 DEF Unmade
    <2>6. chain \in Seq(Blocks) /\ chain # <<>> /\ Len(chain) <= made /\ made \in Blocks
      BY <1>1, <2>1
    <2>7. dropped \in BOOLEAN
      BY <2>4
    <2>8. QED BY <2>2, <2>3, <2>4, <2>5, <2>6, <2>7 DEF NodeOK
  <1>4. RecordOK
    BY <1>2 DEF Init, RecordOK, Certified, Matches
  <1>5. ProcessOK
    <2>1. Bodies
      BY Numbers DEF Init, Bodies, LocalsAtRest
    <2>2. tipHeight = 0 /\ scan = 0 /\ subject = NoTx /\ pc = "idle" /\ batch = <<>>
      BY DEF Init, LocalsAtRest
    <2>3. QED BY <1>1, <2>1, <2>2, Numbers DEF ProcessOK, Scanning, InHand, Stages
  <1>6. QED BY <1>3, <1>4, <1>5 DEF IInv

-----------------------------------------------------------------------------
(* The node moves.                                                         *)

\* The process and its record stay as they are.
LEMMA NodeStep ==
  ASSUME IInv, UNCHANGED <<record, pc, memory, locals, stopping, doubtful>>,
         Len(chain) \in Nat, Len(chain') \in Nat, Len(chain') >= Len(chain)
  PROVE  ProcessOK'
  <1>1. Bodies'
    BY DEF IInv, ProcessOK, Bodies, memory, locals, zmq
  <1>2. Scanning'
    BY DEF IInv, ProcessOK, Scanning, memory, locals, record, Tracked
  <1>3. InHand'
    BY DEF IInv, ProcessOK, InHand, locals
  <1>4. QED BY <1>1, <1>2, <1>3 DEF IInv, ProcessOK

LEMMA EnterOK == ASSUME IInv, NEW t \in Tx, Enter(t) PROVE IInv'
  <1> USE DEF Enter, Moves
  <1>1. Messages("R", mempool \intersect Rival(t)) \in Seq(Msg)
    BY ManyMessages DEF Rival
  <1>2. <<Message("A", t)>> \in Seq(Msg)
    BY OneMessage
  <1>3. queue' \in Seq(Msg) /\ dropped' \in BOOLEAN
    BY <1>1, <1>2, ConcatProperties, PublishType DEF IInv, NodeOK
  <1>4. NodeOK'
    BY <1>3 DEF IInv, NodeOK, Unmade, TxsOf, HeightOf
  <1>5. RecordOK' /\ ProcessOK'
    BY SameRecord, NodeStep, LenProperties DEF IInv, NodeOK
  <1>6. QED BY <1>4, <1>5 DEF IInv

LEMMA EvictOK == ASSUME IInv, NEW t \in Tx, Evict(t) PROVE IInv'
  <1> USE DEF Evict, Moves
  <1>1. <<Message("R", t)>> \in Seq(Msg)
    BY OneMessage
  <1>2. queue' \in Seq(Msg) /\ dropped' \in BOOLEAN
    BY <1>1, PublishType DEF IInv, NodeOK
  <1>3. NodeOK'
    BY <1>2 DEF IInv, NodeOK, Unmade, TxsOf, HeightOf
  <1>4. RecordOK' /\ ProcessOK'
    BY SameRecord, NodeStep, LenProperties DEF IInv, NodeOK
  <1>5. QED BY <1>3, <1>4 DEF IInv

LEMMA EditListOK == ASSUME IInv, NEW t \in Tx, EditList(t) PROVE IInv'
  <1> USE DEF EditList, Moves
  <1>1. NodeOK'
    BY DEF IInv, NodeOK, Unmade, TxsOf, HeightOf, SymDiff
  <1>2. RecordOK' /\ ProcessOK'
    BY SameRecord, NodeStep, LenProperties DEF IInv, NodeOK
  <1>3. QED BY <1>1, <1>2 DEF IInv

LEMMA ListMovesOK == ASSUME IInv, BreakList \/ MendList PROVE IInv'
  <1> USE DEF BreakList, MendList, Moves, counts
  <1>1. NodeOK'
    BY DEF IInv, NodeOK, Unmade, TxsOf, HeightOf
  <1>2. RecordOK' /\ ProcessOK'
    BY SameRecord, NodeStep, LenProperties DEF IInv, NodeOK
  <1>3. QED BY <1>1, <1>2 DEF IInv

LEMMA LoseOK == ASSUME IInv, NEW i \in DOMAIN queue, Lose(i) PROVE IInv'
  <1> DEFINE rest == RemoveAt(queue, i)
  <1>1. queue \in Seq(Msg) /\ i \in 1..Len(queue) /\ Len(queue) \in Nat
    BY LenProperties DEF IInv, NodeOK
  <1>2. \A j \in 1..Len(queue) : queue[j] \in Msg
    BY <1>1, ElementOfSeq
  <1> DEFINE before == SubSeq(queue, 1, i - 1)
             after == SubSeq(queue, i + 1, Len(queue))
  <1>3. before \in Seq(Msg) /\ after \in Seq(Msg) /\ Len(before) = i - 1 /\ Len(after) = Len(queue) - i
    BY <1>1, <1>2, SubSeqProperties
  <1>b. rest = before \o after
    BY DEF RemoveAt
  <1> HIDE DEF before, after, rest
  <1>4. rest \in Seq(Msg) /\ Len(rest) = Len(queue) - 1
    BY <1>1, <1>3, <1>b, ConcatProperties
  <1>5. IF i = Len(queue) THEN queue' = rest /\ dropped' = TRUE
        ELSE queue' = [rest EXCEPT ![i].gap = TRUE] /\ UNCHANGED dropped
    BY DEF Lose, rest
  <1>6. ASSUME i = Len(queue) PROVE queue' \in Seq(Msg) /\ dropped' \in BOOLEAN
    BY <1>4, <1>5, <1>6
  <1>7. ASSUME i # Len(queue) PROVE queue' \in Seq(Msg) /\ dropped' \in BOOLEAN
    <2>1. i \in 1..Len(rest) /\ rest # <<>>
      BY <1>1, <1>4, <1>7, EmptySeq
    <2>2. [rest EXCEPT ![i].gap = TRUE] \in Seq(Msg)
      BY <1>4, <2>1, WithGap
    <2>3. QED BY <1>5, <1>7, <2>2 DEF IInv, NodeOK
  <1>8. queue' \in Seq(Msg) /\ dropped' \in BOOLEAN
    BY <1>6, <1>7
  <1>9. NodeOK'
    BY <1>8 DEF IInv, NodeOK, Unmade, TxsOf, HeightOf, Lose
  <1>10. RecordOK' /\ ProcessOK'
    BY SameRecord, NodeStep, LenProperties DEF IInv, NodeOK, Lose
  <1>11. QED BY <1>9, <1>10 DEF IInv

\* What blocks hold are transactions.
LEMMA MinedType ==
  ASSUME NodeOK, NEW c \in Seq(Blocks)
  PROVE  MinedIn(c) \subseteq Tx
  <1>1. \A i \in DOMAIN c : c[i] \in Blocks
    BY ElementOfSeq, LenProperties
  <1>2. \A b \in Blocks : TxsOf(b) \subseteq Tx
    BY DEF NodeOK, TxsOf
  <1>3. QED BY <1>1, <1>2 DEF MinedIn

LEMMA ConnectOK ==
  ASSUME IInv, NEW k \in 0..MaxReorg, NEW content \in [1..k+1 -> SUBSET Tx], Connect(k, content)
  PROVE  IInv'
  <1> DEFINE kept == SubSeq(chain, 1, Len(chain) - k)
             off == SubSeq(chain, Len(chain) - k + 1, Len(chain))
             on == [i \in 1..k+1 |-> made + i]
             mined == MinedIn(kept) \union UNION {content[i] : i \in 1..k+1}
             beaten == UNION {Rival(t) : t \in mined}
             back == MinedIn(off) \ (mined \union beaten)
             ds == [i \in 1..k |-> Message("D", off[k + 1 - i])]
             cs == [i \in 1..k+1 |-> Message("C", on[i])]
             rs == Messages("R", mempool \intersect beaten)
             as == Messages("A", back)
  <1>1. /\ k < Len(chain) /\ made + k + 1 <= MaxBlocks
        /\ chain' = kept \o on /\ made' = made + k + 1
        /\ body' = [b \in Blocks |-> IF b \in ToSet(on)
                       THEN [txs |-> content[b - made], height |-> Len(kept) + b - made - 1]
                       ELSE body[b]]
        /\ mempool' = (mempool \ (mined \union beaten)) \union back
        /\ Publish(ds \o rs \o as \o cs)
        /\ UNCHANGED <<listFile, listState, subscribed, record, pc, memory, locals, stopping, doubtful>>
    BY DEF Connect, Moves
  <1> DEFINE n == Len(chain)
  <1>2. /\ k \in Nat /\ n \in Nat /\ made \in Nat /\ made >= 1 /\ n <= made /\ chain \in Seq(Blocks)
        /\ MaxBlocks \in Nat
    BY Numbers, LenProperties DEF IInv, NodeOK, Blocks
  <1>3. \A i \in 1..n : chain[i] \in Blocks
    BY <1>2, ElementOfSeq
  <1>4. kept \in Seq(Blocks) /\ Len(kept) = n - k
    BY <1>1, <1>2, <1>3, SubSeqProperties
  <1>5. off \in Seq(Blocks) /\ Len(off) = k
    <2> DEFINE first == n - k + 1
    <2>1. first \in Int /\ n \in Int /\ \A i \in first..n : chain[i] \in Blocks
      BY <1>1, <1>2, <1>3
    <2>2. n - first + 1 = k /\ (first <= n \/ k = 0)
      BY <1>1, <1>2
    <2>3. off = SubSeq(chain, first, n)
      OBVIOUS
    <2> HIDE DEF first, n, off
    <2>4. off \in Seq(Blocks) /\ Len(off) = IF first <= n THEN n - first + 1 ELSE 0
      BY <2>1, <2>3, SubSeqProperties
    <2>5. QED BY <1>2, <2>1, <2>2, <2>4
  <1>6. \A i \in 1..k+1 : on[i] \in Blocks /\ on[i] = made + i
    <2>1. \A i \in 1..k+1 : on[i] = made + i
      OBVIOUS
    <2>2. \A i \in 1..k+1 : made + i \in Blocks
      BY <1>1, <1>2 DEF Blocks
    <2>3. QED BY <2>1, <2>2
  <1>7. on \in Seq(Blocks) /\ Len(on) = k + 1 /\ ToSet(on) = {made + i : i \in 1..k+1}
    <2>1. on \in [1..k+1 -> Blocks] /\ k + 1 \in Nat
      <3>1. \A i \in 1..k+1 : made + i \in Blocks
        BY <1>6
      <3>2. on \in [1..k+1 -> Blocks]
        BY <3>1, Zenon
      <3>3. k + 1 \in Nat
        BY <1>2
      <3>4. QED BY <3>2, <3>3
    <2>2. on \in Seq(Blocks)
      BY <2>1, SeqDef
    <2>3. DOMAIN on = 1..k+1
      OBVIOUS
    <2>4. Len(on) = k + 1
      BY <1>2, <2>2, <2>3, LenProperties
    <2>5. QED BY <2>2, <2>3, <2>4 DEF ToSet
  <1> HIDE DEF n, kept, off, on
  <1>8. chain' \in Seq(Blocks) /\ Len(chain') = n + 1
    <2>1. kept \o on \in Seq(Blocks) /\ Len(kept \o on) = Len(kept) + Len(on)
      BY <1>4, <1>7, ConcatProperties
    <2>2. Len(kept) + Len(on) = n + 1
      BY <1>2, <1>4, <1>7
    <2>3. QED BY <1>1, <2>1, <2>2
  <1>9. mined \subseteq Tx /\ beaten \subseteq Tx /\ back \subseteq Tx
    BY <1>4, <1>5, MinedType DEF IInv, Rival
  <1>10. ds \in Seq(Msg) /\ cs \in Seq(Msg)
    <2>1. \A i \in 1..k : off[k + 1 - i] \in Blocks
      BY <1>2, <1>5, ElementOfSeq
    <2>2. ds \in [1..k -> Msg] /\ cs \in [1..k+1 -> Msg]
      BY <2>1, <1>6, OneMessage
    <2>3. k \in Nat /\ k + 1 \in Nat
      BY <1>2
    <2> HIDE DEF ds, cs
    <2>4. QED BY <2>2, <2>3, SeqDef
  <1>11. rs \in Seq(Msg) /\ as \in Seq(Msg)
    BY <1>9, ManyMessages
  <1> HIDE DEF mined, beaten, back, ds, cs, rs, as
  <1>12. queue' \in Seq(Msg) /\ dropped' \in BOOLEAN
    <2>1. ds \o rs \o as \o cs \in Seq(Msg)
      BY <1>10, <1>11, ConcatProperties
    <2>2. QED BY <1>1, <2>1, PublishType DEF IInv, NodeOK
  <1>13. \A b \in Blocks : b <= made => body'[b] = body[b]
    BY <1>1, <1>2, <1>7 DEF Blocks
  <1>14. \A b \in Blocks : b > made' => body'[b] = body[b]
    BY <1>1, <1>2, <1>7 DEF Blocks
  <1>15. ASSUME NEW b \in Blocks
         PROVE  body'[b] \in [txs : SUBSET Tx, height : 0..MaxBlocks - 1] /\ body'[b].height < n + 1
    <2>1. CASE b \in ToSet(on)
      <3>1. PICK i \in 1..k+1 : b = made + i
        BY <1>7, <2>1
      <3>2. b - made \in 1..k+1 /\ Len(kept) + b - made - 1 = n - k + i - 1
        BY <1>2, <1>4, <3>1
      <3>3. content[b - made] \subseteq Tx
        BY <3>2
      <3>4. n - k + i - 1 \in 0..MaxBlocks - 1 /\ n - k + i - 1 < n + 1
        BY <1>1, <1>2 DEF n
      <3>5. body'[b] = [txs |-> content[b - made], height |-> n - k + i - 1]
        BY <1>1, <2>1, <3>2
      <3>6. QED BY <3>3, <3>4, <3>5
    <2>2. CASE b \notin ToSet(on)
      <3>1. body'[b] = body[b]
        BY <1>1, <2>2
      <3>2. body[b] \in [txs : SUBSET Tx, height : 0..MaxBlocks - 1] /\ body[b].height < n
        BY DEF IInv, NodeOK, HeightOf, n
      <3>3. QED BY <1>2, <3>1, <3>2
    <2>3. QED BY <2>1, <2>2
  <1>16. NodeOK'
    <2>1. /\ mempool' \subseteq Tx /\ listFile' \subseteq Tx
          /\ listState' \in {"loaded", "edited", "broken"} /\ subscribed' \in BOOLEAN
      BY <1>1, <1>9 DEF IInv, NodeOK
    <2>2. chain' # <<>> /\ Len(chain') <= made' /\ made' \in Blocks
      BY <1>1, <1>2, <1>8, EmptySeq DEF Blocks
    <2>3. body' \in [Blocks -> [txs : SUBSET Tx, height : 0..MaxBlocks - 1]]
      BY <1>1, <1>15
    <2>4. \A b \in Blocks : body'[b].height < Len(chain')
      BY <1>8, <1>15
    <2>5. \A b \in Blocks : b > made' => body'[b].txs = {}
      <3>1. SUFFICES ASSUME NEW b \in Blocks, b > made' PROVE body'[b].txs = {}
        OBVIOUS
      <3>2. b > made
        BY <1>1, <1>2, <3>1 DEF Blocks
      <3>3. QED BY <1>14, <3>1, <3>2 DEF IInv, NodeOK, Unmade, TxsOf
    <2>6. QED BY <1>8, <1>12, <2>1, <2>2, <2>3, <2>4, <2>5 DEF NodeOK, Unmade, HeightOf, TxsOf
  <1>17. RecordOK'
    <2>1. ASSUME NEW entries, Certified(entries)
          PROVE  \A t \in Tx : entries[t].status = "confirmed" =>
                   entries[t].block \in Blocks /\ t \in body'[entries[t].block].txs
      <3>1. SUFFICES ASSUME NEW t \in Tx, entries[t].status = "confirmed"
                     PROVE  entries[t].block \in Blocks /\ t \in body'[entries[t].block].txs
        OBVIOUS
      <3>2. entries[t].block \in Blocks /\ t \in body[entries[t].block].txs
        BY <2>1, <3>1 DEF Certified, TxsOf
      <3>3. ~(entries[t].block > made)
        BY <3>2 DEF IInv, NodeOK, Unmade, TxsOf
      <3>4. entries[t].block <= made
        BY <1>2, <3>2, <3>3 DEF Blocks
      <3>5. QED BY <1>13, <3>2, <3>4
    <2>2. Certified(store)' /\ Certified(flagged)'
      BY <1>1, <2>1 DEF IInv, RecordOK, Certified, TxsOf, record
    <2>3. QED BY <1>1, <2>2 DEF IInv, RecordOK, record
  <1>18. ProcessOK'
    BY <1>1, <1>2, <1>8, NodeStep DEF n
  <1>19. QED BY <1>16, <1>17, <1>18 DEF IInv

-----------------------------------------------------------------------------
(* Starting, stopping and reconcile.                                       *)

LEMMA TipType == ASSUME NodeOK PROVE Len(chain) - 1 \in 0..MaxBlocks - 1 /\ Len(chain) \in Nat
  <1>1. Len(chain) \in Nat \ {0}
    BY EmptySeq DEF NodeOK
  <1>2. QED BY <1>1, Numbers DEF NodeOK, Blocks

\* A step that keeps the node, the record and the events in hand.
LEMMA QuietStep ==
  ASSUME IInv, UNCHANGED <<node, record, doubtful>>, ProcessOK'
  PROVE  IInv'
  BY SameNode, SameRecord DEF IInv, node

\* ... or that looks at the list.
LEMMA ListStep ==
  ASSUME IInv, listState' \in {"loaded", "edited", "broken"}, ProcessOK',
         UNCHANGED <<mempool, chain, body, made, queue, dropped, listFile, subscribed, record, doubtful>>
  PROVE  IInv'
  <1>1. NodeOK'
    BY DEF IInv, NodeOK, Unmade, TxsOf, HeightOf
  <1>2. QED BY <1>1, SameRecord DEF IInv

LEMMA ProcessDiesOK == ASSUME IInv, ProcessDies PROVE IInv'
  <1>1. /\ UNCHANGED <<mempool, chain, body, made, listFile, listState, subscribed, last, flagged>>
        /\ queue' = <<>> /\ dropped' = FALSE /\ store' = flagged /\ dirty' = FALSE
        /\ doubtful' = doubtful \union {t \in Tx : store[t] # flagged[t]}
    BY DEF ProcessDies
  <1>2. NodeOK'
    <2>1. queue' \in Seq(Msg) /\ dropped' \in BOOLEAN
      BY <1>1, EmptySeq
    <2>2. QED BY <1>1, <2>1 DEF IInv, NodeOK, Unmade, TxsOf, HeightOf
  <1>3. RecordOK'
    <2>1. \A t \in Tx \ doubtful' : Matches(store'[t].status, last'[t])
      BY <1>1 DEF IInv, RecordOK
    <2>2. QED BY <1>1, <2>1 DEF IInv, RecordOK, Certified, TxsOf
  <1>4. ProcessOK'
    <2>1. Bodies'
      BY DEF ProcessDies, LocalsReset, Bodies, IInv, ProcessOK
    <2>2. Scanning' /\ pc' = "down"
      BY TipType, Numbers DEF ProcessDies, LocalsReset, Scanning, IInv, ProcessOK
    <2>3. InHand'
      BY EmptySeq DEF ProcessDies, LocalsReset, InHand
    <2>4. QED BY <2>1, <2>2, <2>3 DEF ProcessOK, Stages
  <1>5. QED BY <1>2, <1>3, <1>4 DEF IInv

LEMMA StopOK == ASSUME IInv, Stop PROVE IInv'
  BY QuietStep DEF Stop, IInv, ProcessOK, Bodies, Scanning, InHand, Tracked, node, record, memory, locals, zmq

LEMMA RestartOK == ASSUME IInv, Restart PROVE IInv'
  <1>1. Bodies'
    BY DEF Restart, IInv, NodeOK, ProcessOK, Bodies, locals, zmq
  <1>2. Scanning' /\ InHand' /\ pc' = "idle"
    BY DEF Restart, IInv, ProcessOK, Scanning, InHand, record, locals
  <1>3. ProcessOK'
    BY <1>1, <1>2 DEF ProcessOK, Stages
  <1>4. QED BY <1>3, ListStep DEF Restart, counts

LEMMA FlushOK == ASSUME IInv, Flush PROVE IInv'
  <1>1. NodeOK'
    BY SameNode DEF Flush, IInv
  <1>2. RecordOK'
    BY DEF Flush, IInv, RecordOK, Certified, TxsOf, node, counts
  <1>3. ProcessOK'
    BY DEF Flush, IInv, ProcessOK, Bodies, Scanning, InHand, Tracked, node, memory, locals, zmq
  <1>4. QED BY <1>1, <1>2, <1>3 DEF IInv

LEMMA BeginReconcileOK == ASSUME IInv, BeginReconcile PROVE IInv'
  <1>1. Bodies'
    BY DEF BeginReconcile, IInv, NodeOK, ProcessOK, Bodies, memory, zmq
  <1>2. Scanning' /\ InHand' /\ pc' = "tip"
    BY DEF BeginReconcile, IInv, ProcessOK, Scanning, InHand, node, record, memory
  <1>3. ProcessOK'
    BY <1>1, <1>2 DEF ProcessOK, Stages
  <1>4. QED BY <1>3, QuietStep DEF BeginReconcile, counts

LEMMA ReadTipOK == ASSUME IInv, ReadTip PROVE IInv'
  <1>1. Bodies'
    BY DEF ReadTip, IInv, ProcessOK, Bodies, zmq, StillChecked
  <1>2. Scanning' /\ InHand' /\ pc' = "recheck"
    BY TipType DEF ReadTip, IInv, ProcessOK, Scanning, InHand, node, record
  <1>3. ProcessOK'
    BY <1>1, <1>2 DEF ProcessOK, Stages
  <1>4. QED BY <1>3, QuietStep DEF ReadTip, counts

LEMMA StopReconcileOK == ASSUME IInv, StopReconcile PROVE IInv'
  <1>1. Bodies'
    BY DEF StopReconcile, LocalsReset, IInv, ProcessOK, Bodies, zmq
  <1>2. Scanning' /\ InHand' /\ pc' = "receive"
    <2>1. Scanning' /\ pc' = "receive"
      BY TipType, Numbers DEF StopReconcile, LocalsReset, IInv, ProcessOK, Scanning, node
    <2>2. InHand'
      BY EmptySeq DEF StopReconcile, LocalsReset, InHand
    <2>3. QED BY <2>1, <2>2
  <1>3. ProcessOK'
    BY <1>1, <1>2 DEF ProcessOK, Stages
  <1>4. QED BY <1>3, QuietStep DEF StopReconcile, counts

LEMMA FindGoneOK == ASSUME IInv, NEW t \in Tx, FindGone(t) PROVE IInv'
  <1>1. Bodies'
    BY DEF FindGone, IInv, ProcessOK, Bodies, memory, zmq
  <1>2. subject' \in Tx /\ store'[subject'].status = "mempool"
    BY DEF FindGone, Gone, Tracked, record
  <1>3. Scanning' /\ InHand' /\ pc' = "scan"
    BY <1>2, Numbers DEF FindGone, IInv, ProcessOK, Scanning, InHand, node, record, memory
  <1>4. ProcessOK'
    BY <1>1, <1>3 DEF ProcessOK, Stages
  <1>5. QED BY <1>4, QuietStep DEF FindGone, counts

LEMMA GoneHandledOK == ASSUME IInv, GoneHandled PROVE IInv'
  <1>1. Bodies'
    BY DEF GoneHandled, IInv, ProcessOK, Bodies, memory, zmq, Tracked
  <1>2. Scanning' /\ InHand' /\ pc' = "depth"
    BY DEF GoneHandled, IInv, ProcessOK, Scanning, InHand, node, record, memory, Tracked
  <1>3. ProcessOK'
    BY <1>1, <1>2 DEF ProcessOK, Stages
  <1>4. QED BY <1>3, QuietStep DEF GoneHandled, counts

LEMMA RecheckOK == ASSUME IInv, NEW t \in Tx, Recheck(t) PROVE IInv'
  <1>1. NodeOK'
    BY SameNode DEF Recheck, IInv
  <1>2. RecordOK' /\ checked' \subseteq Tx
    <2>1. CASE t \in mempool
      BY <2>1, OnAddedOK DEF Recheck, IInv, node, counts
    <2>2. CASE t \notin mempool
      BY <2>2, SameRecord DEF Recheck, IInv, node, counts, ProcessOK, Bodies
    <2>3. QED BY <2>1, <2>2
  <1>3. Bodies'
    BY <1>2 DEF Recheck, IInv, ProcessOK, Bodies, zmq
  <1>4. Scanning' /\ InHand' /\ pc' = "recheck"
    BY DEF Recheck, IInv, ProcessOK, Scanning, InHand, node
  <1>5. QED BY <1>1, <1>2, <1>3, <1>4 DEF IInv, ProcessOK, Stages

LEMMA ScanBlockOK == ASSUME IInv, ScanBlock PROVE IInv'
  <1>1. NodeOK'
    BY SameNode DEF ScanBlock, IInv
  <1>2. subject \in Tx /\ pc = "scan"
    BY DEF ScanBlock, IInv, ProcessOK, Scanning
  <1> DEFINE b == IF CachedAt(scan) # {} THEN CHOOSE x \in CachedAt(scan) : TRUE ELSE chain[scan + 1]
  <1>3. scan \in Int /\ scan >= 0 /\ scan < Len(chain) /\ scan <= MaxBlocks - 1
    BY <1>2, LowestIsNat, Numbers DEF ScanBlock, IInv, ProcessOK, Scanning
  <1>4. b \in Blocks
    <2>1. scan + 1 \in 1..Len(chain)
      BY <1>3, TipType DEF IInv
    <2>2. chain[scan + 1] \in Blocks
      BY <2>1, ElementOfSeq DEF IInv, NodeOK
    <2>3. CachedAt(scan) # {} => (CHOOSE x \in CachedAt(scan) : TRUE) \in Blocks
      BY DEF CachedAt
    <2>4. QED BY <2>2, <2>3
  <1>5. /\ IF subject \in TxsOf(b)
           THEN MarkConfirmed(subject, b) /\ subject' = NoTx /\ scan' = 0 /\ pc' = "recheck"
           ELSE scan' = scan - 1 /\ UNCHANGED <<record, subject, pc>>
        /\ UNCHANGED <<node, memory, batch, fetched, snapshot, todo, stopping, counts>>
    BY DEF ScanBlock
  <1> HIDE DEF b
  <1>6. CASE subject \in TxsOf(b)
    <2>1. RecordOK'
      BY <1>2, <1>4, <1>5, <1>6, MarkConfirmedOK DEF IInv, node, counts
    <2>2. Bodies'
      BY <1>5 DEF IInv, ProcessOK, Bodies, memory, zmq
    <2>3. Scanning' /\ InHand' /\ pc' = "recheck"
      BY <1>3, <1>5, <1>6, TipType, Numbers DEF IInv, ProcessOK, Scanning, InHand, node, memory
    <2>4. QED BY <1>1, <2>1, <2>2, <2>3 DEF IInv, ProcessOK, Stages
  <1>7. CASE subject \notin TxsOf(b)
    <2>1. RecordOK'
      BY <1>5, <1>7, SameRecord DEF IInv, node, counts
    <2>2. Bodies'
      BY <1>5 DEF IInv, ProcessOK, Bodies, memory, zmq
    <2>3. Scanning' /\ InHand' /\ pc' = "scan"
      BY <1>2, <1>3, <1>5, <1>7, TipType, Numbers DEF IInv, ProcessOK, Scanning, InHand, node, memory, record
    <2>4. QED BY <1>1, <2>1, <2>2, <2>3 DEF IInv, ProcessOK, Stages
  <1>8. QED BY <1>6, <1>7

-----------------------------------------------------------------------------
(* What events and passes share.                                           *)

LEMMA OnLeftUnminedOK == ASSUME IInv, NEW answered \in BOOLEAN, OnLeftUnmined(answered) PROVE IInv'
  <1> DEFINE e == IF answered /\ mempool \intersect Rival(subject) # {} THEN "replaced" ELSE "removed"
  <1>1. subject \in Tx /\ store[subject].status = "mempool" /\ pc \in {"scan", "leaving"}
    BY DEF OnLeftUnmined, NotInBlocks, IInv, ProcessOK, Scanning
  <1>2. Untracked \in Entry /\ Untracked.status = "untracked"
    BY Numbers DEF Untracked, Entry, NoBlock
  <1>3. e \in Events /\ Matches(Untracked.status, e)
    BY <1>2 DEF Events, Matches
  <1>4. /\ Track(subject, e, Untracked) /\ subject' = NoTx /\ scan' = 0
        /\ IF batch = <<>> THEN pc' = "recheck" /\ UNCHANGED <<batch, fetched>> ELSE AfterEvent
        /\ UNCHANGED <<node, memory, snapshot, todo, cache, stopping, counts>>
    BY DEF OnLeftUnmined
  <1> HIDE DEF e
  <1>5. RecordOK'
    BY <1>1, <1>2, <1>3, <1>4, TrackOK DEF IInv, node, counts
  <1>6. NodeOK'
    BY <1>4, SameNode DEF IInv
  <1>7. /\ batch' \in Seq(Msg) /\ fetched' \in [Tx -> {"no", "none", "tx"}]
        /\ pc' \in {"recheck", "apply", "end"} /\ (pc' = "apply" => batch' # <<>>)
    BY <1>4, AfterEventOK DEF IInv, ProcessOK, Bodies, InHand
  <1>8. Bodies' /\ Scanning' /\ InHand'
    BY <1>4, <1>7, TipType, Numbers DEF IInv, ProcessOK, Bodies, Scanning, InHand, node, memory, zmq
  <1>9. QED BY <1>5, <1>6, <1>7, <1>8 DEF IInv, ProcessOK, Stages

LEMMA CheckDepthOK == ASSUME IInv, NEW t \in Tx, CheckDepth(t) PROVE IInv'
  <1> DEFINE e == [store[t] EXCEPT !.status = "mempool", !.block = NoBlock]
             b == store[t].block
  <1>1. /\ pc = "depth" /\ t \in todo /\ todo' = todo \ {t} /\ pc' = pc
        /\ UNCHANGED <<node, memory, batch, fetched, snapshot, subject, scan, cache, stopping, counts>>
    BY DEF CheckDepth
  <1>2. store[t].status = "confirmed" /\ \A x \in todo : store[x].status = "confirmed"
    BY <1>1 DEF IInv, ProcessOK, Scanning, Tracked
  <1>3. RecordOK' /\ \A x \in Tx : x # t => store'[x] = store[x]
    <2>1. CASE ~OnChain(b)
      <3>1. e \in Entry /\ e.status = "mempool" /\ "unconfirmed" \in Events
        BY DEF Entry, IInv, RecordOK, Events
      <3>2. Track(t, "unconfirmed", e) /\ Matches(e.status, "unconfirmed")
        BY <2>1, <3>1 DEF CheckDepth, Matches
      <3> HIDE DEF e
      <3>3. RecordOK' /\ store' = [store EXCEPT ![t] = e]
        BY <1>1, <3>1, <3>2, TrackOK DEF IInv, node, counts
      <3>4. QED BY <3>3 DEF IInv, RecordOK
    <2>2. CASE OnChain(b) /\ DeepEnough(b)
      <3>1. /\ store' = [store EXCEPT ![t] = Untracked] /\ dirty' = TRUE
            /\ UNCHANGED <<last, flagged, body, doubtful>>
        BY <1>1, <2>2 DEF CheckDepth, node, counts
      <3>2. Untracked \in Entry /\ Untracked.status = "untracked"
        BY Numbers DEF Untracked, Entry, NoBlock
      <3>3. \A x \in Tx \ doubtful : Matches(store'[x].status, last'[x])
        BY <1>2, <3>1, <3>2 DEF IInv, RecordOK, Matches
      <3>4. QED BY <3>1, <3>2, <3>3 DEF IInv, RecordOK, Certified, TxsOf
    <2>3. CASE OnChain(b) /\ ~DeepEnough(b)
      <3>1. UNCHANGED record
        BY <2>3 DEF CheckDepth
      <3>2. QED BY <1>1, <3>1, SameRecord DEF IInv, node, counts, record
    <2>4. QED BY <2>1, <2>2, <2>3
  <1>4. NodeOK'
    BY <1>1, SameNode DEF IInv
  <1>5. Bodies' /\ InHand'
    BY <1>1 DEF IInv, ProcessOK, Bodies, InHand, memory, zmq
  <1>6. Scanning'
    BY <1>1, <1>2, <1>3 DEF IInv, ProcessOK, Bodies, Scanning, node, memory, Tracked
  <1>7. QED BY <1>1, <1>3, <1>4, <1>5, <1>6 DEF IInv, ProcessOK

LEMMA DepthCheckedOK == ASSUME IInv, DepthChecked PROVE IInv'
  <1>1. /\ batch' \in Seq(Msg) /\ fetched' \in [Tx -> {"no", "none", "tx"}] /\ due' \in BOOLEAN
        /\ pc' \in {"receive", "apply", "end"} /\ (pc' = "apply" => batch' # <<>>)
    BY AfterEventOK DEF DepthChecked, IInv, ProcessOK, Bodies, InHand
  <1>2. Bodies' /\ Scanning' /\ InHand'
    BY <1>1 DEF DepthChecked, IInv, ProcessOK, Bodies, Scanning, InHand, node, zmq
  <1>3. ProcessOK'
    BY <1>1, <1>2 DEF ProcessOK, Stages
  <1>4. QED BY <1>3, QuietStep DEF DepthChecked, counts

-----------------------------------------------------------------------------
(* Events.                                                                 *)

LEMMA AddedType ==
  ASSUME NEW events \in Seq(Msg)
  PROVE  AddedIn(events) \subseteq Tx
  <1>1. \A i \in DOMAIN events : events[i] \in Msg
    BY ElementOfSeq, LenProperties
  <1>2. \A e \in ToSet(events) : e.label = "A" => e.of \in Tx
    BY <1>1, MessageFacts DEF ToSet
  <1>3. QED BY <1>2 DEF AddedIn

LEMMA ReceiveOK == ASSUME IInv, NEW n \in 1..Len(queue), Receive(n) PROVE IInv'
  <1>1. queue \in Seq(Msg) /\ Len(queue) \in Nat /\ \A i \in 1..Len(queue) : queue[i] \in Msg
    BY ElementOfSeq, LenProperties DEF IInv, NodeOK
  <1>2. /\ batch' = SubSeq(queue, 1, n) /\ queue' = SubSeq(queue, n + 1, Len(queue))
        /\ gap' \in BOOLEAN /\ heard' = TRUE /\ todo' = AddedIn(batch') \ checked
        /\ pc' = IF todo' = {} THEN "apply" ELSE "fetch"
        /\ UNCHANGED <<mempool, chain, body, made, dropped, listFile, listState, subscribed, record, known,
                       checked, unfetched, tipHeight, due, fetched, snapshot, subject, scan, cache, stopping, counts>>
    BY DEF Receive, IInv, ProcessOK, Bodies
  <1>3. batch' \in Seq(Msg) /\ Len(batch') = n
    BY <1>1, <1>2, SubSeqProperties
  <1>4. queue' \in Seq(Msg)
    BY <1>1, <1>2, SubSeqProperties
  <1>5. batch' # <<>> /\ todo' \subseteq Tx
    <2> DEFINE received == batch'
    <2>1. received \in Seq(Msg) /\ Len(received) # 0 /\ todo' = AddedIn(received) \ checked
      BY <1>2, <1>3
    <2> HIDE DEF received
    <2>2. received # <<>> /\ AddedIn(received) \subseteq Tx
      BY <2>1, EmptySeq, AddedType
    <2>3. QED BY <2>1, <2>2 DEF received
  <1>6. NodeOK'
    BY <1>2, <1>4 DEF IInv, NodeOK, Unmade, TxsOf, HeightOf
  <1>7. RecordOK'
    BY <1>2, SameRecord DEF IInv, counts
  <1>8. Bodies'
    BY <1>2, <1>5 DEF IInv, ProcessOK, Bodies
  <1>9. Scanning' /\ InHand' /\ pc' \in {"apply", "fetch"}
    BY <1>2, <1>3, <1>5 DEF IInv, ProcessOK, Scanning, InHand
  <1>10. QED BY <1>6, <1>7, <1>8, <1>9 DEF IInv, ProcessOK, Stages

LEMMA NothingReceivedOK == ASSUME IInv, NothingReceived PROVE IInv'
  <1>1. Bodies' /\ Scanning' /\ InHand' /\ pc' = "end"
    BY DEF NothingReceived, IInv, ProcessOK, Bodies, Scanning, InHand, node, record, memory, locals, zmq
  <1>2. ProcessOK'
    BY <1>1 DEF ProcessOK, Stages
  <1>3. QED BY <1>2, QuietStep DEF NothingReceived, counts

LEMMA FetchOK == ASSUME IInv, NEW t \in Tx, Fetch(t) PROVE IInv'
  <1>1. Bodies'
    BY DEF Fetch, IInv, ProcessOK, Bodies, memory, zmq
  <1>2. Scanning' /\ InHand' /\ pc' \in {"apply", "fetch"}
    BY DEF Fetch, IInv, ProcessOK, Scanning, InHand, node, record, memory
  <1>3. ProcessOK'
    BY <1>1, <1>2 DEF ProcessOK, Stages
  <1>4. QED BY <1>3, QuietStep DEF Fetch, counts

LEMMA SubjectType ==
  ASSUME IInv, pc \in {"apply", "connect"}
  PROVE  /\ batch # <<>> /\ Head(batch) \in Msg
         /\ Head(batch).label \in {"A", "R"} => Subject \in Tx
         /\ Head(batch).label \in {"C", "D"} => Subject \in Blocks
  BY TailOfBatch, MessageFacts DEF IInv, ProcessOK, InHand, Subject

LEMMA ApplyAddedOK == ASSUME IInv, ApplyAdded PROVE IInv'
  <1>1. pc = "apply" /\ batch # <<>> /\ Subject \in Tx
    BY SubjectType DEF ApplyAdded, Applies
  <1>2. NodeOK'
    BY SameNode DEF ApplyAdded, IInv
  <1>3. RecordOK' /\ checked' \subseteq Tx /\ unfetched' \subseteq Tx
    <2>1. CASE fetched[Subject] = "tx"
      BY <1>1, <2>1, OnAddedOK DEF ApplyAdded, IInv, ProcessOK, Bodies, node, counts
    <2>2. CASE fetched[Subject] # "tx"
      <3>1. UNCHANGED <<checked, record>> /\ unfetched' \subseteq unfetched \union {Subject}
        BY <1>1, <2>2 DEF ApplyAdded, IInv, ProcessOK, Bodies
      <3>2. QED BY <1>1, <3>1, SameRecord DEF ApplyAdded, IInv, ProcessOK, Bodies, node, counts
    <2>3. QED BY <2>1, <2>2
  <1>4. /\ batch' \in Seq(Msg) /\ fetched' \in [Tx -> {"no", "none", "tx"}]
        /\ pc' \in {"apply", "end"} /\ (pc' = "apply" => batch' # <<>>)
    BY <1>1, AfterEventOK DEF ApplyAdded, IInv
  <1>5. Bodies' /\ Scanning' /\ InHand'
    BY <1>3, <1>4 DEF ApplyAdded, IInv, ProcessOK, Bodies, Scanning, InHand, node, zmq
  <1>6. QED BY <1>2, <1>3, <1>4, <1>5 DEF IInv, ProcessOK, Stages

LEMMA ApplyRemovedOK == ASSUME IInv, ApplyRemoved PROVE IInv'
  <1>1. pc = "apply" /\ batch # <<>> /\ Subject \in Tx
    BY SubjectType DEF ApplyRemoved, Applies
  <1>2. CASE store[Subject].status = "mempool"
    <2>1. pc' = "leaving" /\ subject' = Subject /\ UNCHANGED <<batch, fetched>>
      BY <1>2 DEF ApplyRemoved
    <2>2. Bodies' /\ InHand'
      BY <2>1 DEF ApplyRemoved, IInv, ProcessOK, Bodies, InHand, node, zmq
    <2>3. Scanning'
      BY <1>1, <1>2, <2>1 DEF ApplyRemoved, IInv, ProcessOK, Scanning, node, record
    <2>4. ProcessOK'
      BY <2>1, <2>2, <2>3 DEF ProcessOK, Stages
    <2>5. QED BY <2>4, QuietStep DEF ApplyRemoved, counts
  <1>3. CASE store[Subject].status # "mempool"
    <2>1. /\ batch' \in Seq(Msg) /\ fetched' \in [Tx -> {"no", "none", "tx"}]
          /\ pc' \in {"apply", "end"} /\ (pc' = "apply" => batch' # <<>>)
      BY <1>1, <1>3, AfterEventOK DEF ApplyRemoved, IInv
    <2>2. UNCHANGED subject
      BY <1>3 DEF ApplyRemoved
    <2>3. Bodies' /\ Scanning' /\ InHand'
      BY <2>1, <2>2 DEF ApplyRemoved, IInv, ProcessOK, Bodies, Scanning, InHand, node, record, zmq
    <2>4. ProcessOK'
      BY <2>1, <2>3 DEF ProcessOK, Stages
    <2>5. QED BY <2>4, QuietStep DEF ApplyRemoved, counts
  <1>4. QED BY <1>2, <1>3

LEMMA ApplyConnectedOK == ASSUME IInv, ApplyConnected PROVE IInv'
  <1>1. pc = "apply" /\ batch # <<>> /\ Subject \in Blocks /\ Head(batch).label = "C"
    BY SubjectType DEF ApplyConnected, Applies
  <1>2. HeightOf(Subject) \in 0..MaxBlocks - 1 /\ HeightOf(Subject) < Len(chain)
    BY <1>1 DEF IInv, NodeOK, HeightOf
  <1>3. tipHeight \in 0..MaxBlocks - 1 /\ tipHeight < Len(chain)
    BY DEF IInv, ProcessOK, Scanning
  <1>4. tipHeight' \in {tipHeight, HeightOf(Subject)}
    <2>1. tipHeight \in Int /\ HeightOf(Subject) \in Int
      BY <1>2, <1>3
    <2>2. tipHeight' = Max({tipHeight, HeightOf(Subject)})
      BY DEF ApplyConnected
    <2>3. QED BY <2>1, <2>2, MaxOfTwo
  <1>5. tipHeight' \in 0..MaxBlocks - 1 /\ tipHeight' < Len(chain)
    BY <1>2, <1>3, <1>4
  <1>6. Bodies'
    BY DEF ApplyConnected, IInv, ProcessOK, Bodies, zmq
  <1>7. Scanning' /\ InHand' /\ pc' = "connect"
    BY <1>1, <1>5 DEF ApplyConnected, IInv, ProcessOK, Scanning, InHand, node
  <1>8. ProcessOK'
    BY <1>6, <1>7 DEF ProcessOK, Stages
  <1>9. QED BY <1>8, QuietStep DEF ApplyConnected, counts

LEMMA ConnectUnfetchedOK == ASSUME IInv, NEW t \in Tx, ConnectUnfetched(t) PROVE IInv'
  <1>1. NodeOK'
    BY SameNode DEF ConnectUnfetched, IInv
  <1>2. RecordOK' /\ checked' \subseteq Tx
    BY OnAddedOK DEF ConnectUnfetched, IInv, node, counts
  <1>3. Bodies'
    BY <1>2 DEF ConnectUnfetched, IInv, ProcessOK, Bodies, zmq
  <1>4. Scanning' /\ InHand' /\ pc' = "connect"
    BY DEF ConnectUnfetched, IInv, ProcessOK, Scanning, InHand, node
  <1>5. QED BY <1>1, <1>2, <1>3, <1>4 DEF IInv, ProcessOK, Stages

LEMMA ConfirmOK == ASSUME IInv, NEW t \in Tx, Confirm(t) PROVE IInv'
  <1>1. pc = "connect" /\ Subject \in Blocks /\ t \in TxsOf(Subject)
    BY SubjectType DEF Confirm, BlockFetched, IInv, ProcessOK, InHand
  <1>2. MarkConfirmed(t, Subject) /\ UNCHANGED <<node, pc, memory, locals, stopping, counts>>
    BY DEF Confirm
  <1>3. RecordOK'
    BY <1>1, <1>2, MarkConfirmedOK DEF IInv, node, counts
  <1>4. NodeOK'
    BY <1>2, SameNode DEF IInv
  <1>5. Bodies' /\ Scanning' /\ InHand'
    BY <1>1, <1>2 DEF IInv, ProcessOK, Bodies, Scanning, InHand, node, memory, locals, zmq
  <1>6. QED BY <1>2, <1>3, <1>4, <1>5 DEF IInv, ProcessOK

LEMMA CheckDepthsOK == ASSUME IInv, CheckDepths PROVE IInv'
  <1>1. batch # <<>> /\ checked' \subseteq Tx /\ unfetched' \subseteq Tx
    BY DEF CheckDepths, BlockFetched, Applies, IInv, ProcessOK, Bodies, InHand
  <1>2. Bodies'
    BY <1>1 DEF CheckDepths, IInv, ProcessOK, Bodies, zmq, Tracked
  <1>3. Scanning' /\ InHand' /\ pc' = "depth"
    BY <1>1 DEF CheckDepths, IInv, ProcessOK, Scanning, InHand, node, record, Tracked
  <1>4. ProcessOK'
    BY <1>2, <1>3 DEF ProcessOK, Stages
  <1>5. QED BY <1>4, QuietStep DEF CheckDepths, counts

LEMMA EndIterationOK == ASSUME IInv, NEW timer \in BOOLEAN, EndIteration(timer) PROVE IInv'
  <1>1. checked' \subseteq Tx /\ known' \subseteq Tx
    BY DEF EndIteration, CheckedAfterReload, Reloads, IInv, ProcessOK, Bodies, NodeOK
  <1>2. due' \in BOOLEAN /\ gap' \in BOOLEAN
    BY DEF EndIteration, Reloads, IInv, ProcessOK, Bodies
  <1>3. Bodies' /\ Scanning' /\ InHand' /\ pc' = "idle"
    BY <1>1, <1>2 DEF EndIteration, IInv, ProcessOK, Bodies, Scanning, InHand, record, locals
  <1>4. ProcessOK'
    BY <1>3 DEF ProcessOK, Stages
  <1>5. listState' \in {"loaded", "edited", "broken"}
    BY DEF EndIteration, IInv, NodeOK
  <1>6. QED BY <1>4, <1>5, ListStep DEF EndIteration, counts

LEMMA RpcFailsOK == ASSUME IInv, RpcFails PROVE IInv'
  <1>1. Bodies'
    BY DEF RpcFails, LocalsReset, IInv, ProcessOK, Bodies, zmq
  <1>2. Scanning' /\ pc' = "idle"
    BY TipType, Numbers DEF RpcFails, LocalsReset, IInv, ProcessOK, Scanning, node
  <1>3. InHand'
    BY EmptySeq DEF RpcFails, LocalsReset, InHand
  <1>4. ProcessOK'
    BY <1>1, <1>2, <1>3 DEF ProcessOK, Stages
  <1>5. QED BY <1>4, QuietStep DEF RpcFails

LEMMA ProcessStep == ASSUME IInv, Process PROVE IInv'
  <1>1. CASE Reconcile
    BY <1>1, BeginReconcileOK, ReadTipOK, StopReconcileOK, ScanBlockOK, GoneHandledOK, RecheckOK,
       FindGoneOK DEF Reconcile
  <1>2. CASE HandleEvents
    BY <1>2, NothingReceivedOK, ApplyAddedOK, ApplyRemovedOK, ApplyConnectedOK, CheckDepthsOK, ReceiveOK,
       FetchOK, ConnectUnfetchedOK, ConfirmOK, EndIterationOK DEF HandleEvents
  <1>3. CASE Exit
    BY <1>3, ProcessDiesOK DEF Exit
  <1>4. QED BY <1>1, <1>2, <1>3, RestartOK, FlushOK, OnLeftUnminedOK, DepthCheckedOK, CheckDepthOK
           DEF Process

LEMMA StepInv == IInv /\ [Next]_vars => IInv'
  <1> SUFFICES ASSUME IInv, [Next]_vars PROVE IInv'
    OBVIOUS
  <1>1. CASE UNCHANGED vars
    BY <1>1, QuietStep DEF vars, counts, IInv, ProcessOK, Bodies, Scanning, InHand, Tracked, node, record,
       memory, locals, zmq
  <1>2. CASE NodeMoves
    BY <1>2, EnterOK, EvictOK, EditListOK, ListMovesOK, ConnectOK DEF NodeMoves
  <1>3. CASE \E i \in DOMAIN queue : Lose(i)
    BY <1>3, LoseOK
  <1>4. CASE Crash
    BY <1>4, ProcessDiesOK DEF Crash
  <1>5. CASE Stop \/ RpcFails \/ Process
    BY <1>5, StopOK, RpcFailsOK, ProcessStep
  <1>6. QED BY <1>1, <1>2, <1>3, <1>4, <1>5 DEF Next

\* The node, the record and the process stay sound, whatever happens to each.
THEOREM Invariance == Spec => []IInv
  BY InitInv, StepInv, PTL DEF Spec

\* Type correctness; a height the process remembers is one of the chain's.
THEOREM TypeCorrect == Spec => []TypeOK
  <1>1. IInv => TypeOK
    BY DEF IInv, NodeOK, RecordOK, ProcessOK, Bodies, Scanning, InHand, TypeOK, Msg
  <1>2. QED BY <1>1, Invariance, PTL

\* flagged.json and the exported events agree, crashes between the two aside
\* (mempool_watch.py:299, 322, 335, 369).
THEOREM RecordHonest == Spec => []RecordMatchesEvents
  <1>1. IInv => RecordMatchesEvents
    BY DEF IInv, RecordOK, Matches, RecordMatchesEvents
  <1>2. QED BY <1>1, Invariance, PTL

\* The block named as a confirmation contains the transaction, whatever the
\* chain does during the scan (mempool_watch.py:399).
THEOREM ConfirmedHonest == Spec => []ConfirmedByItsBlock
  <1>1. IInv => ConfirmedByItsBlock
    BY DEF IInv, RecordOK, Certified, ConfirmedByItsBlock, Tracked
  <1>2. QED BY <1>1, Invariance, PTL

-----------------------------------------------------------------------------
(* What a step tells the reader of the events.                             *)

\* An event that fits the one before it; an entry is given up for one that
\* says the transaction left.
Tells(t, event, entry) ==
  /\ Track(t, event, entry) /\ UNCHANGED doubtful
  /\ entry.status = "untracked" => event \in {"replaced", "removed"} /\ store[t].status = "mempool"
  /\ t \in doubtful \/ event \in Follows[last[t]]
Told == \E t \in Tx : \E event \in Events : \E entry \in Entry : Tells(t, event, entry)

\* The entry of a deeply buried transaction is dropped without an event.
Drops(t) ==
  /\ store[t].status = "confirmed" /\ DeepEnough(store[t].block)
  /\ store' = [store EXCEPT ![t] = Untracked] /\ UNCHANGED <<last, doubtful>>

StepKinds ==
  \/ UNCHANGED <<last, store, doubtful>>
  \/ ProcessDies
  \/ \E t \in Tx : Drops(t)
  \/ Told

LEMMA AddedKind ==
  ASSUME IInv, NEW t \in Tx, OnAdded(t), UNCHANGED doubtful
  PROVE  UNCHANGED <<last, store, doubtful>> \/ Told
  <1> DEFINE e == [status |-> "mempool", block |-> NoBlock, since |-> tipHeight]
  <1>1. CASE t \in known /\ ~AlreadyTracked(t)
    <2>1. e \in Entry /\ e.status = "mempool" /\ "seen" \in Events
      BY DEF Entry, IInv, ProcessOK, Scanning, Events
    <2>2. Track(t, "seen", e)
      BY <1>1 DEF OnAdded
    <2> HIDE DEF e
    <2>3. t \in doubtful \/ last[t] \in {"none", "replaced", "removed", "confirmed"}
      BY <1>1 DEF AlreadyTracked, IInv, RecordOK, Matches
    <2>4. t \in doubtful \/ "seen" \in Follows[last[t]]
      BY <2>3 DEF Follows
    <2>5. Tells(t, "seen", e)
      BY <2>1, <2>2, <2>4 DEF Tells
    <2>6. QED BY <2>1, <2>5 DEF Told
  <1>2. CASE ~(t \in known /\ ~AlreadyTracked(t))
    BY <1>2 DEF OnAdded, record
  <1>3. QED BY <1>1, <1>2

LEMMA ConfirmedKind ==
  ASSUME IInv, NEW t \in Tx, NEW b \in Blocks, store[t].status = "mempool", MarkConfirmed(t, b),
         UNCHANGED doubtful
  PROVE  Told
  <1> DEFINE e == [store[t] EXCEPT !.status = "confirmed", !.block = b]
  <1>1. e \in Entry /\ e.status = "confirmed" /\ "confirmed" \in Events
    BY DEF Entry, IInv, RecordOK, Events
  <1>2. Track(t, "confirmed", e)
    BY DEF MarkConfirmed
  <1> HIDE DEF e
  <1>3. t \in doubtful \/ last[t] \in {"seen", "unconfirmed"}
    BY DEF IInv, RecordOK, Matches
  <1>4. t \in doubtful \/ "confirmed" \in Follows[last[t]]
    BY <1>3 DEF Follows
  <1>5. Tells(t, "confirmed", e)
    BY <1>1, <1>2, <1>4 DEF Tells
  <1>6. QED BY <1>1, <1>5 DEF Told

LEMMA LeftKind == ASSUME IInv, NEW answered \in BOOLEAN, OnLeftUnmined(answered) PROVE Told
  <1> DEFINE e == IF answered /\ mempool \intersect Rival(subject) # {} THEN "replaced" ELSE "removed"
  <1>1. subject \in Tx /\ store[subject].status = "mempool"
    BY DEF OnLeftUnmined, NotInBlocks, IInv, ProcessOK, Scanning
  <1>2. Untracked \in Entry
    BY Numbers DEF Untracked, Entry, NoBlock
  <1>3. e \in {"replaced", "removed"} /\ e \in Events
    BY DEF Events
  <1>4. Track(subject, e, Untracked) /\ UNCHANGED doubtful
    BY DEF OnLeftUnmined, counts
  <1> HIDE DEF e
  <1>5. subject \in doubtful \/ last[subject] \in {"seen", "unconfirmed"}
    BY <1>1 DEF IInv, RecordOK, Matches
  <1>6. subject \in doubtful \/ e \in Follows[last[subject]]
    BY <1>3, <1>5 DEF Follows
  <1>7. Tells(subject, e, Untracked)
    BY <1>1, <1>3, <1>4, <1>6 DEF Tells
  <1>8. QED BY <1>1, <1>2, <1>3, <1>7 DEF Told

LEMMA DepthKind == ASSUME IInv, NEW t \in Tx, CheckDepth(t) PROVE StepKinds
  <1> DEFINE e == [store[t] EXCEPT !.status = "mempool", !.block = NoBlock]
             b == store[t].block
  <1>1. store[t].status = "confirmed" /\ UNCHANGED doubtful
    BY DEF CheckDepth, IInv, ProcessOK, Scanning, Tracked, counts
  <1>2. CASE ~OnChain(b)
    <2>1. e \in Entry /\ e.status = "mempool" /\ "unconfirmed" \in Events
      BY DEF Entry, IInv, RecordOK, Events
    <2>2. Track(t, "unconfirmed", e)
      BY <1>2 DEF CheckDepth
    <2> HIDE DEF e
    <2>3. t \in doubtful \/ last[t] = "confirmed"
      BY <1>1 DEF IInv, RecordOK, Matches
    <2>4. t \in doubtful \/ "unconfirmed" \in Follows[last[t]]
      BY <2>3 DEF Follows
    <2>5. Tells(t, "unconfirmed", e)
      BY <1>1, <2>1, <2>2, <2>4 DEF Tells
    <2>6. QED BY <2>1, <2>5 DEF Told, StepKinds
  <1>3. CASE OnChain(b) /\ DeepEnough(b)
    <2>1. Drops(t)
      BY <1>1, <1>3 DEF CheckDepth, Drops
    <2>2. QED BY <2>1 DEF StepKinds
  <1>4. CASE OnChain(b) /\ ~DeepEnough(b)
    BY <1>1, <1>4 DEF CheckDepth, record, StepKinds
  <1>5. QED BY <1>2, <1>3, <1>4

LEMMA ScanKind == ASSUME IInv, ScanBlock PROVE StepKinds
  <1> DEFINE b == IF CachedAt(scan) # {} THEN CHOOSE x \in CachedAt(scan) : TRUE ELSE chain[scan + 1]
  <1>1. subject \in Tx /\ store[subject].status = "mempool" /\ UNCHANGED doubtful
    BY DEF ScanBlock, IInv, ProcessOK, Scanning, counts
  <1>2. scan \in Int /\ scan >= 0 /\ scan < Len(chain)
    BY <1>1, LowestIsNat, Numbers DEF ScanBlock, IInv, ProcessOK, Scanning
  <1>3. b \in Blocks
    <2>1. scan + 1 \in 1..Len(chain)
      BY <1>2, TipType DEF IInv
    <2>2. chain[scan + 1] \in Blocks
      BY <2>1, ElementOfSeq DEF IInv, NodeOK
    <2>3. CachedAt(scan) # {} => (CHOOSE x \in CachedAt(scan) : TRUE) \in Blocks
      BY DEF CachedAt
    <2>4. QED BY <2>2, <2>3
  <1>4. MarkConfirmed(subject, b) \/ UNCHANGED record
    BY DEF ScanBlock
  <1> HIDE DEF b
  <1>5. QED BY <1>1, <1>3, <1>4, ConfirmedKind DEF record, StepKinds

LEMMA NextKinds == ASSUME IInv, [Next]_vars PROVE StepKinds
  <1>1. CASE UNCHANGED <<last, store, doubtful>>
    BY <1>1 DEF StepKinds
  <1>2. CASE Crash \/ Exit
    BY <1>2 DEF Crash, Exit, StepKinds
  <1>3. ASSUME NEW t \in Tx, Recheck(t) \/ ConnectUnfetched(t) PROVE StepKinds
    BY <1>3, AddedKind DEF Recheck, ConnectUnfetched, record, counts, StepKinds
  <1>4. CASE ApplyAdded
    <2>1. Subject \in Tx /\ UNCHANGED doubtful
      BY <1>4, SubjectType DEF ApplyAdded, Applies, counts
    <2>2. OnAdded(Subject) \/ UNCHANGED record
      BY <1>4 DEF ApplyAdded, IInv, ProcessOK, Bodies
    <2>3. QED BY <2>1, <2>2, AddedKind DEF record, StepKinds
  <1>5. ASSUME NEW t \in Tx, Confirm(t) PROVE StepKinds
    <2>1. Subject \in Blocks
      BY <1>5, SubjectType DEF Confirm, BlockFetched, IInv, ProcessOK, InHand
    <2>2. QED BY <1>5, <2>1, ConfirmedKind DEF Confirm, Tracked, counts, StepKinds
  <1>6. CASE \E answered \in BOOLEAN : OnLeftUnmined(answered)
    BY <1>6, LeftKind DEF StepKinds
  <1>7. CASE UNCHANGED vars
    BY <1>1, <1>7 DEF vars, record, counts
  <1>8. CASE NodeMoves \/ (\E i \in DOMAIN queue : Lose(i)) \/ Stop \/ RpcFails
    <2>1. UNCHANGED <<last, store, doubtful>>
      BY <1>8 DEF NodeMoves, Enter, Evict, EditList, BreakList, MendList, Connect, Moves, Lose, Stop,
            RpcFails, record, counts
    <2>2. QED BY <1>1, <2>1
  <1>9. CASE Reconcile
    <2>1. CASE \/ BeginReconcile \/ ReadTip \/ StopReconcile \/ GoneHandled \/ \E t \in Tx : FindGone(t)
      BY <1>1, <2>1 DEF BeginReconcile, ReadTip, StopReconcile, GoneHandled, FindGone, record, counts
    <2>2. QED BY <1>3, <1>9, <2>1, ScanKind DEF Reconcile
  <1>10. CASE HandleEvents
    <2>1. CASE \/ NothingReceived \/ ApplyRemoved \/ ApplyConnected \/ CheckDepths
               \/ (\E n \in 1..Len(queue) : Receive(n)) \/ (\E t \in Tx : Fetch(t))
               \/ (\E timer \in BOOLEAN : EndIteration(timer))
      <3>1. UNCHANGED <<record, counts>>
        BY <2>1 DEF NothingReceived, ApplyRemoved, ApplyConnected, CheckDepths, Receive, Fetch, EndIteration
      <3>2. QED BY <1>1, <3>1 DEF record, counts
    <2>2. QED BY <1>3, <1>4, <1>5, <1>10, <2>1 DEF HandleEvents
  <1>11. CASE Restart \/ Flush \/ DepthChecked
    BY <1>1, <1>11 DEF Restart, Flush, DepthChecked, record, counts
  <1>12. QED BY <1>2, <1>6, <1>7, <1>8, <1>9, <1>10, <1>11, DepthKind DEF Next, Process

\* No entry is given up without an event before its block is buried
\* (mempool_watch.py:301, 350).
THEOREM NeverForgotten == Spec => NotForgotten
  <1> DEFINE Kept == \A t \in Tx \ doubtful :
        store[t].status # "untracked" /\ pc' # "down" /\ store'[t].status = "untracked"
        => last'[t] # last[t] \/ Confirmations(store[t].block) >= ForgetAfter
  <1>1. ASSUME IInv, [Next]_vars PROVE Kept
    <2>1. StepKinds
      BY <1>1, NextKinds
    <2>2. CASE UNCHANGED <<last, store, doubtful>>
      BY <2>2
    <2>3. CASE ProcessDies
      BY <2>3 DEF ProcessDies
    <2>4. ASSUME NEW t \in Tx, Drops(t) PROVE Kept
      BY <1>1, <2>4 DEF Drops, DeepEnough, IInv, RecordOK
    <2>5. ASSUME NEW t \in Tx, NEW event \in Events, NEW entry \in Entry, Tells(t, event, entry) PROVE Kept
      <3>1. \A x \in Tx : x # t => store'[x] = store[x]
        BY <1>1, <2>5 DEF Tells, Track, IInv, RecordOK
      <3>2. store'[t] = entry /\ last'[t] = event
        BY <1>1, <2>5 DEF Tells, Track, IInv, RecordOK
      <3>3. t \notin doubtful /\ entry.status = "untracked" => last[t] \in {"seen", "unconfirmed"}
        BY <1>1, <2>5 DEF Tells, IInv, RecordOK, Matches
      <3>4. t \notin doubtful /\ entry.status = "untracked" => last'[t] # last[t]
        BY <2>5, <3>2, <3>3 DEF Tells
      <3>5. QED BY <3>1, <3>2, <3>4
    <2>6. QED BY <2>1, <2>2, <2>3, <2>4, <2>5 DEF StepKinds, Told
  <1>2. IInv /\ [Next]_vars => [Kept]_vars
    BY <1>1
  <1>3. QED BY <1>2, Invariance, PTL DEF Spec, NotForgotten

LEMMA AlertsInit == Init => Alerts!Init
  BY DEF Init, Alerts!Init

LEMMA AlertsStep == ASSUME IInv, [Next]_vars PROVE [Alerts!Next]_<<last, doubtful>>
  <1>1. StepKinds
    BY NextKinds
  <1>2. CASE UNCHANGED <<last, store, doubtful>>
    BY <1>2
  <1>3. CASE ProcessDies
    <2> DEFINE lost == {t \in Tx : store[t] # flagged[t]}
    <2>1. doubtful' = doubtful \union lost /\ UNCHANGED last /\ lost \in SUBSET Tx
      BY <1>3 DEF ProcessDies
    <2> HIDE DEF lost
    <2>2. Alerts!Doubt(lost)
      BY <2>1 DEF Alerts!Doubt
    <2>3. QED BY <2>1, <2>2 DEF Alerts!Next
  <1>4. CASE \E t \in Tx : Drops(t)
    BY <1>4 DEF Drops
  <1>5. ASSUME NEW t \in Tx, NEW event \in Events, NEW entry \in Entry, Tells(t, event, entry)
        PROVE  [Alerts!Next]_<<last, doubtful>>
    <2>1. event \in Alerts!Events
      BY DEF Events, Alerts!Events, Follows
    <2>2. Alerts!Report(t, event)
      BY <1>5 DEF Tells, Track, Alerts!Report
    <2>3. QED BY <2>1, <2>2 DEF Alerts!Next
  <1>6. QED BY <1>1, <1>2, <1>3, <1>4, <1>5 DEF StepKinds, Told

\* The events of a transaction follow each other as EventLog promises: a Track
\* is a report, a crash before the flush a doubt, all else a stutter.
THEOREM WatchImplementsEventLog == Spec => ImplementsEventLog
  <1>1. IInv /\ [Next]_vars => [Alerts!Next]_<<last, doubtful>>
    BY AlertsStep
  <1>2. QED BY <1>1, AlertsInit, Invariance, PTL DEF Spec, ImplementsEventLog, Alerts!Spec
=============================================================================
