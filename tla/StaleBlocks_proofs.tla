-------------------------- MODULE StaleBlocks_proofs --------------------------
(***************************************************************************)
(* Theorems about StaleBlocks, for every set of blocks and any number of   *)
(* faults.  The invariant follows the one thing that is out of step: the   *)
(* event that is exported while its flush is still due.                    *)
(***************************************************************************)
EXTENDS StaleBlocks, TLAPS

-----------------------------------------------------------------------------
(* Statuses and entries.                                                   *)

LEMMA RankFacts ==
  /\ Known = {"none", UNUSABLE, HEADER_ONLY} /\ Statuses = {UNUSABLE, HEADER_ONLY}
  /\ StatusRank["none"] = 0 /\ StatusRank[UNUSABLE] = 1 /\ StatusRank[HEADER_ONLY] = 2
  /\ UNUSABLE # "none" /\ HEADER_ONLY # "none" /\ UNUSABLE # HEADER_ONLY
  BY DEF Known, Statuses, StatusRank, UNUSABLE, HEADER_ONLY

\* An entry is exported at most at the status it has, and has a header exactly
\* if its status says so.
Sound(e) ==
  /\ StatusRank[e.exported] <= StatusRank[e.status]
  /\ e.header <=> e.status = HEADER_ONLY

\* e knows at least what old knows.
NoWorse(old, e) ==
  /\ StatusRank[old.status] <= StatusRank[e.status]
  /\ old.header => e.header

\* What upsert_sighting does to an entry: nothing is lost, and nothing exported.
LEMMA UpsertedFacts ==
  ASSUME NEW e \in Entry, NEW header \in BOOLEAN, NEW info \in Infos \union {"none"}, Sound(e)
  PROVE  LET u == Upserted(e, header, info) IN
         /\ u \in Entry /\ Sound(u) /\ NoWorse(e, u)
         /\ u.exported = e.exported /\ u.status \in Statuses
<1> DEFINE u == Upserted(e, header, info)
           status == IF header THEN HEADER_ONLY ELSE UNUSABLE
           best == IF StatusRank[status] > StatusRank[e.status] THEN status ELSE e.status
<1>1. /\ u = [e EXCEPT !.status = best, !.header = e.header \/ header,
                      !.info = IF info # "none" THEN info ELSE e.info]
      /\ e = [status |-> e.status, header |-> e.header, info |-> e.info, exported |-> e.exported]
      /\ e.status \in Known /\ e.header \in BOOLEAN /\ e.info \in Infos \union {"none"}
      /\ e.exported \in Known
  BY DEF Upserted, Entry
<1>2. /\ u = [status |-> best, header |-> e.header \/ header,
              info |-> IF info # "none" THEN info ELSE e.info, exported |-> e.exported]
  BY <1>1
<1>3. /\ best \in Statuses
      /\ StatusRank[e.status] <= StatusRank[best]
      /\ best = HEADER_ONLY <=> (e.status = HEADER_ONLY \/ header)
  BY <1>1, RankFacts
<1>4. /\ StatusRank[e.exported] <= StatusRank[best]
      /\ StatusRank[e.exported] \in Nat /\ best \in Known
  BY <1>1, <1>3, RankFacts DEF Sound
<1>5. (e.header \/ header) <=> best = HEADER_ONLY
  BY <1>3 DEF Sound
<1> HIDE DEF best
<1>6. u \in Entry
  BY <1>1, <1>2, <1>4 DEF Entry
<1>7. /\ u.status = best /\ u.header = (e.header \/ header) /\ u.exported = e.exported
  BY <1>2
<1> HIDE DEF u
<1> QED
  BY <1>3, <1>4, <1>5, <1>6, <1>7 DEF Sound, NoWorse, u

LEMMA MarkedFacts ==
  ASSUME NEW e \in Entry, Sound(e)
  PROVE  LET m == [e EXCEPT !.exported = e.status] IN
         /\ m \in Entry /\ Sound(m) /\ NoWorse(e, m)
         /\ m.status = e.status /\ m.exported = e.status
  BY RankFacts DEF Entry, Sound, NoWorse

-----------------------------------------------------------------------------
(* Type correctness.                                                       *)

\* A sighting leaves the registry and the events well-typed, and an event that
\* is out makes the registry dirty.
LEMMA SightType ==
  ASSUME TypeOK, NEW b \in Block, NEW header \in BOOLEAN, NEW info \in Infos \union {"none"},
         Sound(registry[b]), ~saving, Sight(b, header, info)
  PROVE  /\ registry' \in [Block -> Entry] /\ dirty' \in BOOLEAN /\ saving' \in BOOLEAN
         /\ saving' => dirty'
         /\ exports' \in [Block -> [Statuses -> Nat]] /\ last' \in [Block -> Known]
<1> DEFINE e == Upserted(registry[b], header, info)
           m == [e EXCEPT !.exported = e.status]
<1>1. registry[b] \in Entry
  BY DEF TypeOK
<1>2. e \in Entry /\ Sound(e) /\ e.status \in Statuses
  BY <1>1, UpsertedFacts
<1>3. m \in Entry
  BY <1>2, MarkedFacts
<1> HIDE DEF m
<1>4. CASE e.status # e.exported
  <2>1. /\ exports' = [exports EXCEPT ![b][e.status] = @ + 1]
        /\ last' = [last EXCEPT ![b] = e.status]
        /\ registry' = [registry EXCEPT ![b] = m]
        /\ dirty' = TRUE /\ saving' = TRUE
    BY <1>4 DEF Sight, FlushNow, m
  <2> HIDE DEF e
  <2>2. exports' \in [Block -> [Statuses -> Nat]]
    <3>1. exports[b] \in [Statuses -> Nat]
      BY DEF TypeOK
    <3>2. [exports[b] EXCEPT ![e.status] = @ + 1] \in [Statuses -> Nat]
      BY <3>1, <1>2
    <3>3. exports' = [exports EXCEPT ![b] = [exports[b] EXCEPT ![e.status] = @ + 1]]
      BY <2>1
    <3> QED
      BY <3>2, <3>3 DEF TypeOK
  <2>3. last' \in [Block -> Known]
    BY <2>1, <1>2 DEF TypeOK, Known
  <2>4. registry' \in [Block -> Entry]
    BY <2>1, <1>3 DEF TypeOK
  <2> QED
    BY <2>1, <2>2, <2>3, <2>4
<1>5. CASE e.status = e.exported
  <2>1. /\ registry' = [registry EXCEPT ![b] = e]
        /\ dirty' = (dirty \/ e # registry[b])
        /\ UNCHANGED <<events, saving>>
    BY <1>5 DEF Sight
  <2> HIDE DEF e
  <2>2. dirty' = (dirty \/ e # registry[b])
    BY <2>1
  <2>4. dirty' \in BOOLEAN
    BY <2>2, Zenon
  <2>3. saving' = saving /\ exports' = exports /\ last' = last
    BY <2>1 DEF events
  <2>5. saving' => dirty'
    BY <2>3
  <2>6. registry' \in [Block -> Entry]
    BY <2>1, <1>2 DEF TypeOK
  <2> QED
    BY <2>3, <2>4, <2>5, <2>6 DEF TypeOK
<1> QED
  BY <1>4, <1>5

\* Every step keeps the types; the entries have to be sound for the upsert.
LEMMA TypeOKStep ==
  ASSUME TypeOK, \A b \in Block : Sound(registry[b]), [Next]_vars
  PROVE  TypeOK'
<1> USE DEF TypeOK
<1>1. CASE FeedsMove
  <2>1. \A b \in Block, valid \in BOOLEAN : Row(b, valid) \in Sighting
    BY DEF Row, Sighting
  <2>2. tip' \in [Block -> Infos \union {"none"}] /\ dataset' \subseteq Sighting /\ moves' \in Nat
    BY <1>1, <2>1, StaleAssumption DEF FeedsMove
  <2> QED
    BY <1>1, <2>2 DEF FeedsMove, events, process
<1>2. ASSUME ProcessDies, faults' \in Nat
      PROVE  TypeOK'
  <2>1. cut' \in [Block -> Nat]
    BY <1>2 DEF ProcessDies
  <2>2. registry' = file /\ ~dirty' /\ ~saving' /\ todo' = {} /\ ~fresh' /\ ~stopping' /\ pc' = "down"
        /\ dirty' \in BOOLEAN /\ saving' \in BOOLEAN /\ fresh' \in BOOLEAN /\ stopping' \in BOOLEAN
    BY <1>2 DEF ProcessDies
  <2>3. UNCHANGED <<tip, dataset, exports, last, file, moves>>
    BY <1>2 DEF ProcessDies, feeds, events
  <2> QED
    BY <1>2, <2>1, <2>2, <2>3
<1>3. CASE Crash
  BY <1>2, <1>3 DEF Crash, Hit
<1>4. CASE Exit
  BY <1>2, <1>4 DEF Exit
<1>5. CASE Stop \/ Restart \/ PollFails \/ FetchFails
  <2>1. UNCHANGED <<tip, dataset, exports, last, file, registry, dirty, saving, todo, fresh, cut, moves>>
    BY <1>5 DEF Stop, Restart, PollFails, FetchFails, feeds, events, process
  <2>2. faults' \in Nat
    BY <1>5 DEF Stop, Restart, PollFails, FetchFails, Hit
  <2>3. stopping' \in BOOLEAN /\ pc' \in {"down", "idle", "poll", "fetch", "pull", "wait"}
    BY <1>5 DEF Stop, Restart, PollFails, FetchFails, AfterPoll
  <2>4. saving' => pc' \in {"poll", "pull"}
    BY <1>5, <2>1 DEF Stop, Restart, PollFails, FetchFails
  <2> QED
    BY <2>1, <2>2, <2>3, <2>4
<1>6. CASE Flush
  BY <1>6 DEF Flush, Saved, feeds, events
<1>7. CASE BeginPoll
  <2>1. \A b \in Block : tip[b] # "none" => Tip(b, tip[b]) \in Sighting
    BY DEF Tip, Sighting
  <2>2. todo' = {Tip(b, tip[b]) : b \in {b \in Block : tip[b] # "none"}}
    BY <1>7 DEF BeginPoll
  <2>3. todo' \subseteq Sighting
    BY <2>1, <2>2
  <2> QED
    BY <1>7, <2>3 DEF BeginPoll, feeds, events
<1>8. CASE FetchList
  BY <1>8 DEF FetchList, feeds, events
<1>9. ASSUME NEW s \in todo, NEW answered \in BOOLEAN, PollTip(s, answered), faults' \in Nat
      PROVE  TypeOK'
  <2>1. s.block \in Block /\ s.info \in Infos \union {"none"}
    BY DEF Sighting
  <2>2. Sight(s.block, answered, s.info) /\ ~saving
    BY <1>9 DEF PollTip
  <2>3. /\ registry' \in [Block -> Entry] /\ dirty' \in BOOLEAN /\ saving' \in BOOLEAN
        /\ saving' => dirty'
        /\ exports' \in [Block -> [Statuses -> Nat]] /\ last' \in [Block -> Known]
    BY <2>1, <2>2, SightType
  <2> QED
    BY <1>9, <2>3 DEF PollTip, feeds
<1>10. ASSUME NEW s \in todo, PullRow(s)
       PROVE  TypeOK'
  <2>1. s.block \in Block /\ ~saving
    BY <1>10 DEF Sighting, PullRow
  <2>2. CASE PassedOver(s)
    BY <1>10, <2>2 DEF PullRow, feeds, events
  <2>3. CASE ~PassedOver(s)
    <3>1. Sight(s.block, TRUE, "none")
      BY <1>10, <2>3 DEF PullRow
    <3>2. /\ registry' \in [Block -> Entry] /\ dirty' \in BOOLEAN /\ saving' \in BOOLEAN
          /\ saving' => dirty'
          /\ exports' \in [Block -> [Statuses -> Nat]] /\ last' \in [Block -> Known]
      BY <2>1, <3>1, SightType
    <3> QED
      BY <1>10, <3>2 DEF PullRow, feeds
  <2> QED
    BY <2>2, <2>3
<1>11. CASE EndPoll \/ EndPull
  <2>1. UNCHANGED <<tip, dataset, exports, last, stopping, registry, saving, todo, cut, moves, faults>>
    BY <1>11 DEF EndPoll, EndPull, EndPass, feeds, events
  <2>2. file' \in [Block -> Entry] /\ dirty' = FALSE /\ ~saving
    BY <1>11 DEF EndPoll, EndPull, EndPass, Saved
  <2>3. fresh' \in BOOLEAN /\ pc' \in {"down", "idle", "poll", "fetch", "pull", "wait"}
    BY <1>11 DEF EndPoll, EndPull, EndPass, AfterPoll
  <2> QED
    BY <2>1, <2>2, <2>3
<1>12. ASSUME NEW elapsed \in BOOLEAN, Wake(elapsed)
       PROVE  TypeOK'
  BY <1>12 DEF Wake, feeds, events
<1>13. CASE UNCHANGED vars
  BY <1>13 DEF vars, feeds, events, process
<1>14. CASE Next
  <2>1. CASE \E s \in todo : PollTip(s, FALSE) /\ Hit
    <3>1. PICK s \in todo : PollTip(s, FALSE) /\ faults' = faults + 1
      BY <2>1 DEF Hit
    <3>2. faults' \in Nat
      BY <3>1
    <3> QED
      BY <1>9, <3>1, <3>2
  <2>2. CASE \E s \in todo : PollTip(s, TRUE) /\ UNCHANGED faults
    <3>1. PICK s \in todo : PollTip(s, TRUE) /\ faults' = faults
      BY <2>2
    <3>2. faults' \in Nat
      BY <3>1
    <3> QED
      BY <1>9, <3>1, <3>2
  <2>3. CASE \E s \in todo : PullRow(s)
    BY <1>10, <2>3
  <2>4. CASE \E elapsed \in BOOLEAN : Wake(elapsed)
    BY <1>12, <2>4
  <2> HIDE DEF TypeOK
  <2> QED
    BY <1>14, <2>1, <2>2, <2>3, <2>4, <1>1, <1>3, <1>4, <1>5, <1>6, <1>7, <1>8, <1>11
    DEF Next, Process
<1> QED
  BY <1>13, <1>14

-----------------------------------------------------------------------------
(* The invariant.                                                          *)

Reached(e, s) == StatusRank[s] <= StatusRank[e.exported]

\* The entries in memory and on disk, and how they may differ.
Entries ==
  /\ \A b \in Block : Sound(registry[b]) /\ Sound(file[b]) /\ NoWorse(file[b], registry[b])
  /\ ~dirty => registry = file
  /\ ~saving => \A b \in Block : registry[b].exported = file[b].exported

\* What they say of the events: those marked are out, each only once but for
\* the crashes, and the latest is the one marked.
Accounted ==
  \A b \in Block :
    /\ registry[b].exported # "none" => exports[b][registry[b].exported] > 0
    /\ file[b].exported # "none" => exports[b][file[b].exported] > 0
    /\ \A s \in Statuses : exports[b][s] <= cut[b] + (IF Reached(registry[b], s) THEN 1 ELSE 0)
    /\ cut[b] = 0 => last[b] = registry[b].exported

Inv == Entries /\ Accounted

\* A flush writes the registry as it is.
LEMMA SavedIsRegistry ==
  ASSUME Entries PROVE Saved = registry
  BY DEF Entries, Saved

\* A sighting keeps the invariant: an event goes out together with its mark.
LEMMA SightStep ==
  ASSUME TypeOK, Inv, NEW b \in Block, NEW header \in BOOLEAN,
         NEW info \in Infos \union {"none"},
         ~saving, Sight(b, header, info), UNCHANGED <<file, cut>>
  PROVE  Inv'
<1> DEFINE e == Upserted(registry[b], header, info)
           m == [e EXCEPT !.exported = e.status]
<1>1. registry[b] \in Entry /\ Sound(registry[b]) /\ NoWorse(file[b], registry[b])
      /\ registry[b].exported = file[b].exported /\ file[b] \in Entry
  BY DEF TypeOK, Inv, Entries
<1>2. /\ e \in Entry /\ Sound(e) /\ NoWorse(registry[b], e)
      /\ e.exported = registry[b].exported /\ e.status \in Statuses
  BY <1>1, UpsertedFacts
<1>3. m \in Entry /\ Sound(m) /\ NoWorse(e, m) /\ m.status = e.status /\ m.exported = e.status
  BY <1>2, MarkedFacts
<1>4. NoWorse(file[b], e) /\ NoWorse(file[b], m)
  BY <1>1, <1>2, <1>3, RankFacts DEF NoWorse, Entry
<1> HIDE DEF m
<1>5. CASE e.status # e.exported
  <2>1. /\ exports' = [exports EXCEPT ![b][e.status] = @ + 1]
        /\ last' = [last EXCEPT ![b] = e.status]
        /\ registry' = [registry EXCEPT ![b] = m]
        /\ dirty' = TRUE /\ saving' = TRUE
    BY <1>5 DEF Sight, FlushNow, m
  <2> HIDE DEF e
  <2>2. Entries'
    BY <2>1, <1>3, <1>4 DEF Inv, Entries, TypeOK
  <2>3. \A c \in Block \ {b} : exports'[c] = exports[c] /\ last'[c] = last[c]
                               /\ registry'[c] = registry[c]
    BY <2>1 DEF TypeOK
  <2>4. /\ exports[b] \in [Statuses -> Nat] /\ cut[b] \in Nat
        /\ exports'[b] = [exports[b] EXCEPT ![e.status] = @ + 1]
        /\ registry'[b] = m /\ last'[b] = e.status
    BY <2>1 DEF TypeOK
  <2>5. StatusRank[e.exported] < StatusRank[e.status]
    BY <1>2, <1>5, RankFacts DEF Sound, Entry
  <2>6. exports[b][e.status] <= cut[b]
    <3>1. ~Reached(registry[b], e.status)
      BY <1>2, <2>5, RankFacts DEF Reached, Entry
    <3>2. exports[b][e.status] <= cut[b] + (IF Reached(registry[b], e.status) THEN 1 ELSE 0)
      BY <1>2 DEF Inv, Accounted
    <3> QED
      BY <3>1, <3>2, <2>4
  <2>7. \A s \in Statuses :
          exports'[b][s] <= cut[b] + (IF Reached(m, s) THEN 1 ELSE 0)
    <3> SUFFICES ASSUME NEW s \in Statuses
                 PROVE  exports'[b][s] <= cut[b] + (IF Reached(m, s) THEN 1 ELSE 0)
      OBVIOUS
    <3>1. CASE s = e.status
      BY <3>1, <2>4, <2>6, <1>2, <1>3, RankFacts DEF Reached
    <3>2. CASE s # e.status
      <4>1. exports'[b][s] = exports[b][s]
        BY <3>2, <2>4
      <4>2. exports[b][s] <= cut[b] + (IF Reached(registry[b], s) THEN 1 ELSE 0)
        BY DEF Inv, Accounted
      <4>3. Reached(registry[b], s) => Reached(m, s)
        BY <1>2, <1>3, <2>5, RankFacts DEF Reached, Entry
      <4> QED
        BY <4>1, <4>2, <4>3, <2>4
    <3> QED
      BY <3>1, <3>2
  <2>8. \A s \in Statuses : exports[b][s] > 0 => exports'[b][s] > 0
    BY <2>4
  <2>9. exports'[b][e.status] > 0
    BY <2>4, <1>2
  <2>10. file[b].exported # "none" => exports'[b][file[b].exported] > 0
    BY <2>8, <1>1, RankFacts DEF Inv, Accounted, Entry
  <2>11. Accounted'
    BY <2>3, <2>4, <2>7, <2>9, <2>10, <1>3 DEF Inv, Accounted
  <2> QED
    BY <2>2, <2>11 DEF Inv
<1>6. CASE e.status = e.exported
  <2>1. /\ registry' = [registry EXCEPT ![b] = e]
        /\ dirty' = (dirty \/ e # registry[b])
        /\ UNCHANGED <<exports, last, saving>>
    BY <1>6 DEF Sight, events
  <2> HIDE DEF e
  <2>2. /\ \A c \in Block : registry'[c].exported = registry[c].exported
        /\ \A c \in Block \ {b} : registry'[c] = registry[c]
        /\ registry'[b] = e
    BY <2>1, <1>2 DEF TypeOK
  <2>3. ~dirty' => registry' = registry /\ ~dirty
    BY <2>1 DEF TypeOK
  <2>4. Entries'
    BY <2>1, <2>2, <2>3, <1>2, <1>4 DEF Inv, Entries
  <2>5. Accounted'
    BY <2>1, <2>2 DEF Inv, Accounted, Reached
  <2> QED
    BY <2>4, <2>5 DEF Inv
<1> QED
  BY <1>5, <1>6

\* Every step keeps the invariant.
LEMMA InvStep ==
  ASSUME TypeOK, Inv, [Next]_vars
  PROVE  Inv'
<1>1. CASE UNCHANGED <<events, file, registry, dirty, saving, cut>>
  BY <1>1 DEF events, Inv, Entries, Accounted, Reached
<1>2. CASE ProcessDies
  <2>1. Entries'
    BY <1>2, RankFacts DEF ProcessDies, Inv, Entries, NoWorse, Entry, TypeOK
  <2>2. ASSUME NEW b \in Block
        PROVE  /\ file[b].exported # "none" => exports[b][file[b].exported] > 0
               /\ \A s \in Statuses :
                    exports[b][s] <= cut'[b] + (IF Reached(file[b], s) THEN 1 ELSE 0)
               /\ cut'[b] = 0 => last[b] = file[b].exported
    <3>1. cut[b] \in Nat /\ \A s \in Statuses : exports[b][s] \in Nat
      BY DEF TypeOK
    <3>2. CASE registry[b].exported = file[b].exported
      BY <1>2, <3>1, <3>2 DEF ProcessDies, Inv, Accounted, Reached, TypeOK
    <3>3. CASE registry[b].exported # file[b].exported
      <4>1. saving
        BY <3>3 DEF Inv, Entries
      <4>2. cut'[b] = cut[b] + 1
        BY <1>2, <3>3, <4>1 DEF ProcessDies
      <4> QED
        BY <3>1, <4>2 DEF Inv, Accounted
    <3> QED
      BY <3>2, <3>3
  <2>3. registry' = file /\ UNCHANGED <<file, exports, last>>
    BY <1>2 DEF ProcessDies, events
  <2>4. Accounted'
    BY <2>2, <2>3 DEF Accounted, Reached
  <2> QED
    BY <2>1, <2>4 DEF Inv
<1>3. CASE Flush \/ EndPoll \/ EndPull
  <2>1. file' = registry /\ UNCHANGED <<exports, last, registry, cut>> /\ ~dirty' /\ ~saving'
    BY <1>3, SavedIsRegistry DEF Inv, Flush, EndPoll, EndPull, EndPass, events
  <2>2. Entries'
    BY <2>1, RankFacts DEF Inv, Entries, NoWorse, TypeOK, Entry
  <2>3. Accounted'
    BY <2>1 DEF Inv, Accounted, Reached
  <2> QED
    BY <2>2, <2>3 DEF Inv
<1>4. ASSUME NEW s \in todo, NEW answered \in BOOLEAN, PollTip(s, answered)
      PROVE  Inv'
  <2>1. s.block \in Block /\ s.info \in Infos \union {"none"}
    BY DEF Sighting, TypeOK
  <2> QED
    BY <1>4, <2>1, SightStep DEF PollTip
<1>5. ASSUME NEW s \in todo, PullRow(s)
      PROVE  Inv'
  <2>1. s.block \in Block
    BY DEF Sighting, TypeOK
  <2>2. CASE PassedOver(s)
    BY <1>5, <2>2, <1>1 DEF PullRow
  <2>3. CASE ~PassedOver(s)
    BY <1>5, <2>1, <2>3, SightStep DEF PullRow
  <2> QED
    BY <2>2, <2>3
<1>6. CASE FeedsMove \/ Stop \/ Restart \/ PollFails \/ FetchFails \/ BeginPoll \/ FetchList
  BY <1>1, <1>6 DEF FeedsMove, Stop, Restart, PollFails, FetchFails, BeginPoll, FetchList, process
<1>7. ASSUME NEW elapsed \in BOOLEAN, Wake(elapsed)
      PROVE  Inv'
  BY <1>1, <1>7 DEF Wake
<1>8. CASE UNCHANGED vars
  BY <1>1, <1>8 DEF vars, process
<1>9. CASE Next
  <2>1. CASE Crash \/ Exit
    BY <1>2, <2>1 DEF Crash, Exit
  <2>2. CASE \E s \in todo : (PollTip(s, FALSE) /\ Hit) \/ (PollTip(s, TRUE) /\ UNCHANGED faults)
    BY <1>4, <2>2
  <2>3. CASE \E s \in todo : PullRow(s)
    BY <1>5, <2>3
  <2>4. CASE \E elapsed \in BOOLEAN : Wake(elapsed)
    BY <1>7, <2>4
  <2> QED
    BY <1>9, <2>1, <2>2, <2>3, <2>4, <1>3, <1>6 DEF Next, Process
<1> QED
  BY <1>8, <1>9

LEMMA InitInv == Init => TypeOK /\ Inv
<1> SUFFICES ASSUME Init PROVE TypeOK /\ Inv
  OBVIOUS
<1>1. NoEntry \in Entry /\ Sound(NoEntry) /\ NoWorse(NoEntry, NoEntry) /\ NoEntry.exported = "none"
  BY RankFacts DEF NoEntry, Entry, Sound, NoWorse
<1>2. TypeOK
  BY <1>1 DEF Init, TypeOK, Known, Sighting
<1>3. Entries
  BY <1>1 DEF Init, Entries
<1>4. ASSUME NEW b \in Block
      PROVE  /\ registry[b].exported = "none" /\ file[b].exported = "none"
             /\ \A s \in Statuses : exports[b][s] = 0
             /\ cut[b] = 0 /\ last[b] = "none"
  BY <1>1 DEF Init
<1>5. \A s \in Statuses : ~ StatusRank[s] <= StatusRank["none"]
  BY RankFacts
<1>6. Accounted
  <2> SUFFICES ASSUME NEW b \in Block
               PROVE  /\ \A s \in Statuses : exports[b][s] <= cut[b] + (IF Reached(registry[b], s) THEN 1 ELSE 0)
                      /\ registry[b].exported = "none" /\ file[b].exported = "none"
                      /\ last[b] = "none"
    BY <1>4 DEF Accounted
  <2>1. \A s \in Statuses : ~Reached(registry[b], s)
    BY <1>4, <1>5 DEF Reached
  <2> QED
    BY <1>4, <2>1
<1> QED
  BY <1>2, <1>3, <1>6 DEF Inv

-----------------------------------------------------------------------------
(* The theorems.                                                           *)

\* The inductive invariant holds throughout, and with it the types: memory and
\* disk differ only by what a due flush will write, and every event is
\* accounted for (stale_blocks.py:153-161, stale_blocks_state.py:87-169).
THEOREM InvCorrect == Spec => [](TypeOK /\ Inv)
<1>1. Init => TypeOK /\ Inv
  BY InitInv
<1>2. (TypeOK /\ Inv) /\ [Next]_vars => (TypeOK /\ Inv)'
  <2>1. Inv => \A b \in Block : Sound(registry[b])
    BY DEF Inv, Entries
  <2> QED
    BY <2>1, TypeOKStep, InvStep
<1> QED
  BY <1>1, <1>2, PTL DEF Spec

\* Every variable keeps its type, and only a pass has an event to flush.
THEOREM TypeCorrect == Spec => []TypeOK
  BY InvCorrect, PTL

\* What registry.csv takes for exported has been exported.
THEOREM NothingLost == Spec => []RecordedIsExported
<1>1. TypeOK /\ Inv => RecordedIsExported
  BY DEF Inv, Accounted, RecordedIsExported
<1> QED
  BY <1>1, InvCorrect, PTL

\* An event of a block is exported once, and once more per crash that cut one of
\* its events off from the flush.
THEOREM ExportedOnce == Spec => []OncePerCut
<1>1. TypeOK /\ Inv => OncePerCut
  BY DEF TypeOK, Inv, Accounted, OncePerCut
<1> QED
  BY <1>1, InvCorrect, PTL

\* A block counts as one with a header exactly when a header is on record.
THEOREM HeaderOnRecord == Spec => []HeaderIffStatus
<1>1. TypeOK /\ Inv => HeaderIffStatus
  BY DEF Inv, Entries, Sound, HeaderIffStatus
<1> QED
  BY <1>1, InvCorrect, PTL
\* An entry on disk never gets worse: it is only replaced by the one in memory,
\* which knows at least as much.
THEOREM EntriesOnlyImprove == Spec => NeverDowngraded
<1>1. TypeOK /\ Inv /\ [Next]_vars
      => [\A b \in Block : /\ StatusRank[file'[b].status] >= StatusRank[file[b].status]
                           /\ file[b].header => file'[b].header]_vars
  <2> SUFFICES ASSUME TypeOK, Inv, [Next]_vars, NEW b \in Block
               PROVE  /\ StatusRank[file'[b].status] >= StatusRank[file[b].status]
                      /\ file[b].header => file'[b].header
    OBVIOUS
  <2>1. file' = file \/ file' = registry
    <3>1. file' = file \/ file' = Saved
      BY DEF Next, Process, vars, process, FeedsMove, Crash, Stop, PollFails, FetchFails, PollTip,
             Exit, Restart, Flush, BeginPoll, EndPoll, EndPass, FetchList, PullRow, EndPull, Wake,
             ProcessDies
    <3> QED
      BY <3>1, SavedIsRegistry DEF Inv
  <2>2. NoWorse(file[b], registry[b]) /\ file[b] \in Entry
    BY DEF Inv, Entries, TypeOK
  <2>3. StatusRank[file[b].status] \in Nat
    BY <2>2, RankFacts DEF Entry
  <2> QED
    BY <2>1, <2>2, <2>3 DEF NoWorse
<1> QED
  BY <1>1, InvCorrect, PTL DEF Spec, NeverDowngraded

Doubtful == {b \in Block : cut[b] > 0}

\* An event that goes out follows the one before it.
LEMMA SightReports ==
  ASSUME TypeOK, Inv, NEW b \in Block, NEW header \in BOOLEAN,
         NEW info \in Infos \union {"none"}, Sight(b, header, info), UNCHANGED cut
  PROVE  [Log!Next]_<<last, Doubtful>>
<1> DEFINE e == Upserted(registry[b], header, info)
<1>1. registry[b] \in Entry /\ Sound(registry[b])
  BY DEF TypeOK, Inv, Entries
<1>2. e \in Entry /\ Sound(e) /\ e.exported = registry[b].exported /\ e.status \in Statuses
  BY <1>1, UpsertedFacts
<1>3. UNCHANGED Doubtful
  BY DEF Doubtful
<1>4. CASE e.status # e.exported
  <2>1. last' = [last EXCEPT ![b] = e.status]
    BY <1>4 DEF Sight
  <2> HIDE DEF e
  <2>2. e.status \in Follows[e.exported]
    BY <1>2, <1>4, RankFacts DEF Sound, Entry, Follows, UNUSABLE, HEADER_ONLY
  <2>3. cut[b] = 0 => last[b] = e.exported
    BY <1>2 DEF Inv, Accounted
  <2>4. b \in Doubtful \/ e.status \in Follows[last[b]]
    BY <2>2, <2>3 DEF Doubtful, TypeOK
  <2>5. e.status \in Log!Events
    BY <1>2, RankFacts DEF Log!Events, Follows
  <2>6. Log!Report(b, e.status)
    BY <2>1, <2>4, <1>3 DEF Log!Report, Doubtful
  <2> QED
    BY <2>5, <2>6 DEF Log!Next
<1>5. CASE e.status = e.exported
  <2>1. UNCHANGED last
    BY <1>5 DEF Sight, events
  <2> QED
    BY <2>1, <1>3
<1> QED
  BY <1>4, <1>5

LEMMA LogStep ==
  ASSUME TypeOK, Inv, [Next]_vars PROVE [Log!Next]_<<last, Doubtful>>
<1>1. ASSUME ProcessDies PROVE [Log!Next]_<<last, Doubtful>>
  <2> DEFINE cutOff == {b \in Block : saving /\ registry[b].exported # file[b].exported}
  <2>1. \A b \in Block : cut'[b] = IF b \in cutOff THEN cut[b] + 1 ELSE cut[b]
    BY <1>1 DEF ProcessDies
  <2>2. Doubtful' = Doubtful \union cutOff
    BY <2>1 DEF Doubtful, TypeOK
  <2>3. UNCHANGED last
    BY <1>1 DEF ProcessDies, events
  <2>4. cutOff \in SUBSET Block
    OBVIOUS
  <2> HIDE DEF cutOff
  <2>5. \E C \in SUBSET Block : Doubtful' = Doubtful \union C /\ UNCHANGED last
    BY <2>2, <2>3, <2>4
  <2> QED
    BY <2>5 DEF Log!Next, Log!Doubt, Doubtful
<1>2. ASSUME NEW s \in todo, NEW answered \in BOOLEAN, PollTip(s, answered)
      PROVE  [Log!Next]_<<last, Doubtful>>
  <2>1. s.block \in Block /\ s.info \in Infos \union {"none"}
    BY DEF Sighting, TypeOK
  <2>2. Sight(s.block, answered, s.info) /\ UNCHANGED cut
    BY <1>2 DEF PollTip
  <2> QED
    BY <2>1, <2>2, SightReports
<1>3. ASSUME NEW s \in todo, PullRow(s)
      PROVE  [Log!Next]_<<last, Doubtful>>
  <2>1. s.block \in Block
    BY DEF Sighting, TypeOK
  <2>2. UNCHANGED cut
    BY <1>3 DEF PullRow
  <2>3. CASE PassedOver(s)
    BY <1>3, <2>2, <2>3 DEF PullRow, events, Doubtful
  <2>4. CASE ~PassedOver(s)
    BY <1>3, <2>1, <2>2, <2>4, SightReports DEF PullRow
  <2> QED
    BY <2>3, <2>4
<1>4. CASE UNCHANGED <<last, cut>>
  BY <1>4 DEF Doubtful
<1>5. CASE Next
  <2>1. CASE Crash \/ Exit
    BY <1>1, <2>1 DEF Crash, Exit
  <2>2. CASE \E s \in todo : (PollTip(s, FALSE) /\ Hit) \/ (PollTip(s, TRUE) /\ UNCHANGED faults)
    BY <1>2, <2>2
  <2>3. CASE \E s \in todo : PullRow(s)
    BY <1>3, <2>3
  <2>4. CASE \/ FeedsMove \/ Stop \/ Restart \/ PollFails \/ FetchFails \/ BeginPoll \/ FetchList
             \/ Flush \/ EndPoll \/ EndPull \/ \E elapsed \in BOOLEAN : Wake(elapsed)
    BY <1>4, <2>4 DEF FeedsMove, Stop, Restart, PollFails, FetchFails, BeginPoll, FetchList, Flush,
                      EndPoll, EndPull, EndPass, Wake, events
  <2> QED
    BY <1>5, <2>1, <2>2, <2>3, <2>4 DEF Next, Process
<1>6. CASE UNCHANGED vars
  <2>1. UNCHANGED <<last, cut>>
    BY <1>6 DEF vars, events
  <2> QED
    BY <1>4, <2>1
<1> QED
  BY <1>5, <1>6

LEMMA LogInit == Init => Log!Init
  BY DEF Init, Log!Init

\* The events of a block follow each other as promised, whatever crashes: an
\* export is a report, a crash that cuts one off a doubt, all else a stutter.
THEOREM FeedsImplementEventLog == Spec => ImplementsEventLog
<1>1. TypeOK /\ Inv /\ [Next]_vars => [Log!Next]_<<last, Doubtful>>
  BY LogStep
<1> QED
  BY <1>1, LogInit, InvCorrect, PTL DEF Spec, ImplementsEventLog, Log!Spec, Doubtful
=============================================================================
