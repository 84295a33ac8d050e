------------------------- MODULE PriceBackfill_proofs -------------------------
(***************************************************************************)
(* The safety of the price backfill for any range, any batch size and any  *)
(* number of kills, interrupts, refused requests and rows of the poller.   *)
(***************************************************************************)
EXTENDS PriceBackfill, SequenceTheorems, TLAPS

Running == pc \notin {"off", "snapshot"}

\* The minute of a step is in prices.csv, or will be with the next flush.
Covered(s) == Priced(s) => PriceTime[s] \in InFile \union ToSet(pending)

\* What a run knows: everything it passed is covered, existing_dates tells of
\* the file and the batch and of nothing else, and an emptied batch was written.
RunCovers ==
  /\ pc # "off" => \A s \in Step : start <= s /\ s < next => Covered(s)
  /\ pc = "advance" => Covered(next) /\ next \in Step
  /\ Running => ToSet(pending) \subseteq existing
  /\ Running => existing \subseteq InFile \union ToSet(pending)
  /\ pc = "clear" => ToSet(pending) \subseteq InFile
  /\ pc \in {"off", "snapshot", "save"} => pending = <<>>

\* A minute of the batch that is in the file already got there behind the
\* run's back, or by the flush that Ctrl-C cut short.
Excuse(m) == m \in overlap \/ (leaving /\ result = "interrupted" /\ repeats > 0)
RunRepeats ==
  /\ Running => InFile \subseteq existing \union overlap
  /\ Running /\ pc # "clear" => \A m \in ToSet(pending) \intersect InFile : Excuse(m)

\* How far the run is ahead of the checkpoint it would resume from.
Ahead == next - ResumeFrom(start)
RunBounded ==
  /\ Running => Ahead >= 0 /\ Ahead <= FlushEvery
  /\ pc = "snapshot" => Ahead = 0 /\ unflushed = 0
  /\ pc \in {"fetch", "advance"} => Ahead = unflushed /\ unflushed < FlushEvery
  /\ pc \in {"off", "snapshot"} => ~leaving

\* The range of the run, and where it is.
RunShape ==
  /\ pc # "off" => start \in Starts /\ end \in Step /\ next >= 1 /\ next <= LastStep + 1
  /\ pc = "advance" => next <= end
  /\ leaving => pc \in {"write", "clear", "save"}
  /\ pc = "off" => unflushed = 0

IInv == TypeOK /\ RunShape /\ RunCovers /\ NothingSkipped /\ RunRepeats /\ RunBounded

-----------------------------------------------------------------------------

LEMMA Numbers ==
  /\ LastStep \in Nat \ {0} /\ FlushEvery \in Nat \ {0} /\ MaxPolls \in Nat
  /\ PriceTime \in [Step -> Minute \union {NoPrice}] /\ NoPrice \notin Minute
  /\ Starts \subseteq Step /\ MaxFaults \in [Fault -> Nat]
  BY BackfillAssumption DEF BackfillAssumption

LEMMA PricedMinute ==
  ASSUME NEW s \in Step, Priced(s)
  PROVE  PriceTime[s] \in Minute
  BY Numbers DEF Priced

LEMMA NoRows ==
  ASSUME NEW S
  PROVE  <<>> \in Seq(S) /\ ToSet(<<>>) = {}
  BY DEF ToSet

LEMMA OneRowMore ==
  ASSUME NEW S, NEW s \in Seq(S), NEW e \in S
  PROVE  Append(s, e) \in Seq(S) /\ ToSet(Append(s, e)) = ToSet(s) \union {e}
  <1>1. /\ Append(s, e) \in Seq(S) /\ Len(Append(s, e)) = Len(s) + 1 /\ Len(s) \in Nat
        /\ \A i \in 1..Len(s) : Append(s, e)[i] = s[i]
        /\ Append(s, e)[Len(s) + 1] = e
        /\ DOMAIN s = 1..Len(s) /\ DOMAIN Append(s, e) = 1..Len(s) + 1
    BY AppendProperties, LenProperties
  <1>2. QED BY <1>1 DEF ToSet

LEMMA FewerRows ==
  ASSUME NEW S, NEW s \in Seq(S), NEW n \in 0..Len(s)
  PROVE  ToSet(SubSeq(s, 1, n)) \subseteq ToSet(s)
  <1>1. Len(s) \in Nat /\ DOMAIN s = 1..Len(s)
    BY LenProperties
  <1>2. Len(SubSeq(s, 1, n)) = n /\ DOMAIN SubSeq(s, 1, n) = 1..n
        /\ \A i \in 1..n : SubSeq(s, 1, n)[i] = s[i]
    BY <1>1
  <1>3. QED BY <1>1, <1>2 DEF ToSet

\* An append adds a row for each minute of the batch, and drops none.
LEMMA AppendedRows ==
  ASSUME TypeOK, NEW ms, ToSet(ms) \subseteq Minute, filled' = Appended(ms), polled' = polled
  PROVE  /\ filled' \in [Minute -> Nat]
         /\ InFile' = InFile \union ToSet(ms)
         /\ \A m \in Minute : filled'[m] > filled[m] <=> m \in ToSet(ms)
  BY DEF TypeOK, Appended, InFile

LEMMA SameFile ==
  ASSUME UNCHANGED <<filled, polled>>
  PROVE  InFile' = InFile
  BY DEF InFile

LEMMA InitOK == Init => IInv
  <1> SUFFICES ASSUME Init PROVE IInv
    OBVIOUS
  <1>1. pending \in Seq(Minute)
    BY NoRows DEF Init
  <1>2. filled \in [Minute -> Nat] /\ polled \in [Minute -> Nat] /\ faults \in [Fault -> Nat]
    BY DEF Init
  <1>3. start \in Step /\ 0 \in 0..LastStep + 1
    BY Numbers DEF Init, Step
  <1>4. TypeOK
    BY <1>1, <1>2, <1>3 DEF Init, TypeOK, Stages, Results
  <1>5. NothingSkipped
    BY DEF Init, NothingSkipped, NoCheckpoint, Step
  <1>6. QED BY <1>4, <1>5
        DEF Init, IInv, RunShape, RunCovers, RunRepeats, RunBounded, Running

\* The memory of a run that ended tells nothing.
LEMMA GoneOK ==
  ASSUME IInv, MemoryGone, result' \in Results, UNCHANGED <<start, end, overlap>>,
         filled' \in [Minute -> Nat], polled' \in [Minute -> Nat], InFile \subseteq InFile',
         repeats' \in Nat, faults' \in [Fault -> Nat],
         checkpoint' \in [start : Starts, next : 1..LastStep + 1] \union {NoCheckpoint},
         NothingSkipped'
  PROVE  IInv'
  <1>1. pending' \in Seq(Minute) /\ pending' = <<>>
    BY NoRows DEF MemoryGone
  <1>2. TypeOK'
    <2>1. /\ pc' = "off" /\ next' \in 0..LastStep + 1 /\ existing' \subseteq Minute
          /\ unflushed' \in Nat
      BY Numbers DEF MemoryGone
    <2>2. leaving' \in BOOLEAN
      BY DEF MemoryGone
    <2>3. QED BY <1>1, <2>1, <2>2 DEF IInv, TypeOK, Stages
  <1>3. QED BY <1>1, <1>2
        DEF MemoryGone, IInv, RunShape, RunCovers, RunRepeats, RunBounded, Running

\* What was written stays written.
LEMMA SkippedKept ==
  ASSUME NothingSkipped, InFile \subseteq InFile', checkpoint' = checkpoint
  PROVE  NothingSkipped'
  BY DEF NothingSkipped, Written

LEMMA PollerOK ==
  ASSUME IInv, NEW m \in Minute, PollerAppends(m)
  PROVE  IInv'
  <1>1. /\ polled' = [polled EXCEPT ![m] = @ + 1] /\ filled' = filled
        /\ overlap' = overlap \union {m}
        /\ UNCHANGED <<checkpoint, pc, start, end, next, existing, pending, unflushed, leaving,
                       result, repeats, faults>>
    BY DEF PollerAppends, memory
  <1>2. polled' \in [Minute -> Nat] /\ InFile' = InFile \union {m}
    BY <1>1 DEF IInv, TypeOK, InFile
  <1>3. TypeOK'
    BY <1>1, <1>2 DEF IInv, TypeOK
  <1>4. NothingSkipped'
    BY <1>1, <1>2, SkippedKept DEF IInv
  <1>5. RunShape' /\ RunCovers'
    BY <1>1, <1>2 DEF IInv, RunShape, RunCovers, Covered, Running
  <1>6. RunRepeats'
    BY <1>1, <1>2 DEF IInv, RunRepeats, Excuse, Running
  <1>7. RunBounded'
    BY <1>1 DEF IInv, RunBounded, Ahead, ResumeFrom, Running
  <1>8. QED BY <1>3, <1>4, <1>5, <1>6, <1>7 DEF IInv

LEMMA LaunchOK ==
  ASSUME IInv, NEW s \in Starts, NEW e \in Step, Launch(s, e)
  PROVE  IInv'
  <1>1. /\ pc = "off" /\ s <= e /\ start' = s /\ end' = e /\ result' \in {"complete", "none"}
        /\ UNCHANGED <<filled, polled, checkpoint, existing, pending, unflushed, leaving,
                       overlap, repeats, faults>>
    BY DEF Launch, files, counts
  <1>2. pending = <<>> /\ unflushed = 0 /\ ~leaving /\ InFile' = InFile
    BY <1>1, SameFile DEF IInv, RunCovers, RunShape, RunBounded
  <1>3. s \in Step /\ ResumeFrom(s) \in 1..LastStep + 1
    BY Numbers DEF IInv, TypeOK, ResumeFrom, NoCheckpoint, Step
  <1>4. NothingSkipped'
    BY <1>1, <1>2, SkippedKept DEF IInv
  <1>5. CASE ResumeFrom(s) > e
    <2>1. pc' = "off" /\ next' = next
      BY <1>1, <1>5 DEF Launch
    <2>2. TypeOK'
      BY <1>1, <1>3, <2>1 DEF IInv, TypeOK, Results
    <2>3. QED BY <1>1, <1>2, <1>4, <2>1, <2>2
          DEF IInv, RunShape, RunCovers, RunRepeats, RunBounded, Running
  <1>6. CASE ~(ResumeFrom(s) > e)
    <2>1. pc' = "snapshot" /\ next' = ResumeFrom(s)
      BY <1>1, <1>6 DEF Launch
    <2>2. TypeOK'
      BY <1>1, <1>3, <2>1 DEF IInv, TypeOK, Results, Stages
    <2>3. ASSUME NEW t \in Step, s <= t, t < ResumeFrom(s) PROVE Covered(t)'
      <3>1. checkpoint.start = s /\ t < checkpoint.next
        BY <2>3, <1>3 DEF ResumeFrom, Step
      <3>2. Written(t)
        BY <2>3, <3>1 DEF IInv, NothingSkipped
      <3>3. QED BY <1>2, <3>2 DEF Written, Covered
    <2>4. RunCovers'
      BY <1>1, <1>2, <2>1, <2>3 DEF RunCovers, Running
    <2>5. RunBounded'
      BY <1>1, <1>2, <1>3, <2>1 DEF RunBounded, Ahead, ResumeFrom, Running
    <2>6. RunShape'
      BY <1>1, <1>2, <1>3, <2>1 DEF RunShape
    <2>7. RunRepeats'
      BY <2>1 DEF RunRepeats, Running
    <2>8. QED BY <1>4, <2>2, <2>4, <2>5, <2>6, <2>7 DEF IInv
  <1>7. QED BY <1>5, <1>6

LEMMA ReadExistingOK ==
  ASSUME IInv, ReadExisting
  PROVE  IInv'
  <1>1. /\ pc = "snapshot" /\ pc' = "fetch" /\ existing' = InFile /\ overlap' = {}
        /\ UNCHANGED <<filled, polled, checkpoint, start, end, next, pending, unflushed, leaving,
                       result, repeats, faults>>
    BY DEF ReadExisting, KnownDates, files
  <1>2. pending = <<>> /\ ToSet(pending) = {} /\ InFile' = InFile
    BY <1>1, NoRows, SameFile DEF IInv, RunCovers
  <1>3. InFile \subseteq Minute
    BY DEF InFile
  <1>4. TypeOK'
    BY <1>1, <1>3 DEF IInv, TypeOK, Stages
  <1>5. NothingSkipped'
    BY <1>1, <1>2, SkippedKept DEF IInv
  <1>6. RunCovers' /\ RunRepeats'
    BY <1>1, <1>2 DEF IInv, RunCovers, RunRepeats, Covered, Running
  <1>7. RunShape' /\ RunBounded'
    BY <1>1, Numbers DEF IInv, RunShape, RunBounded, Ahead, ResumeFrom, Running
  <1>8. QED BY <1>4, <1>5, <1>6, <1>7 DEF IInv

LEMMA FetchOK ==
  ASSUME IInv, Fetch
  PROVE  IInv'
  <1>1. /\ pc = "fetch" /\ next <= end /\ pc' = "advance"
        /\ UNCHANGED <<filled, polled, checkpoint, start, end, next, unflushed, leaving, result,
                       overlap, repeats, faults>>
    BY DEF Fetch, files, counts
  <1>2. next \in Step /\ start \in Starts /\ end \in Step /\ InFile' = InFile /\ ~leaving
    BY <1>1, Numbers, SameFile DEF IInv, TypeOK, RunShape, Step
  <1>3. /\ pending' \in Seq(Minute) /\ existing' \subseteq Minute
        /\ ToSet(pending) \subseteq ToSet(pending')
        /\ Priced(next) => PriceTime[next] \in InFile \union ToSet(pending')
        /\ ToSet(pending') \subseteq existing' /\ existing \subseteq existing'
        /\ existing' \subseteq InFile \union ToSet(pending')
        /\ ToSet(pending') \intersect InFile
             \subseteq (ToSet(pending) \intersect InFile) \union overlap
    <2>1. /\ pending \in Seq(Minute) /\ existing \subseteq Minute
          /\ ToSet(pending) \subseteq existing /\ existing \subseteq InFile \union ToSet(pending)
          /\ InFile \subseteq existing \union overlap
      BY <1>1 DEF IInv, TypeOK, RunCovers, RunRepeats, Running
    <2>2. CASE Priced(next) /\ PriceTime[next] \notin existing
      <3>1. pending' = Append(pending, PriceTime[next]) /\ existing' = existing \union {PriceTime[next]}
        BY <2>2 DEF Fetch, Remember
      <3>2. PriceTime[next] \in Minute
        BY <1>2, <2>2, PricedMinute
      <3>3. pending' \in Seq(Minute) /\ ToSet(pending') = ToSet(pending) \union {PriceTime[next]}
        BY <2>1, <3>1, <3>2, OneRowMore
      <3>4. QED BY <2>1, <2>2, <3>1, <3>2, <3>3
    <2>3. CASE ~(Priced(next) /\ PriceTime[next] \notin existing)
      BY <2>1, <2>3 DEF Fetch
    <2>4. QED BY <2>2, <2>3
  <1>4. TypeOK'
    BY <1>1, <1>3 DEF IInv, TypeOK, Stages
  <1>5. NothingSkipped'
    BY <1>1, <1>2, SkippedKept DEF IInv
  <1>6. RunCovers'
    BY <1>1, <1>2, <1>3 DEF IInv, RunCovers, Covered, Running, Priced
  <1>7. RunRepeats'
    BY <1>1, <1>2, <1>3 DEF IInv, RunRepeats, Excuse, Running
  <1>8. RunShape' /\ RunBounded'
    BY <1>1, <1>2 DEF IInv, RunShape, RunBounded, Ahead, ResumeFrom, Running
  <1>9. QED BY <1>4, <1>5, <1>6, <1>7, <1>8 DEF IInv

LEMMA AdvanceOK ==
  ASSUME IInv, NEW timer \in BOOLEAN, Advance(timer)
  PROVE  IInv'
  <1>1. /\ pc = "advance" /\ next' = next + 1 /\ unflushed' = unflushed + 1
        /\ pc' \in {"write", "fetch"} /\ (unflushed' >= FlushEvery => pc' = "write")
        /\ UNCHANGED <<filled, polled, checkpoint, start, end, existing, pending, leaving, result,
                       overlap, repeats, faults>>
    BY DEF Advance, FlushDue, files, counts
  <1>2. /\ next \in Step /\ next <= end /\ end \in Step /\ start \in Starts /\ Covered(next)
        /\ InFile' = InFile /\ ~leaving /\ unflushed \in Nat /\ next + 1 \in 1..LastStep + 1
    BY <1>1, SameFile, Numbers DEF IInv, TypeOK, RunCovers, RunShape, Step
  <1>3. TypeOK'
    BY <1>1, <1>2, Numbers DEF IInv, TypeOK, Stages
  <1>4. NothingSkipped'
    BY <1>1, <1>2, SkippedKept DEF IInv
  <1>5. RunCovers'
    <2>1. ASSUME NEW s \in Step, start <= s, s < next + 1 PROVE Covered(s)
      <3>1. s < next \/ s = next
        BY <1>2, <2>1 DEF Step
      <3>2. QED BY <1>1, <1>2, <2>1, <3>1 DEF IInv, RunCovers
    <2>2. \A s \in Step : Covered(s)' <=> Covered(s)
      BY <1>1, <1>2 DEF Covered, Priced
    <2>3. QED BY <1>1, <1>2, <2>1, <2>2 DEF IInv, RunCovers, Running
  <1>6. RunRepeats'
    BY <1>1, <1>2 DEF IInv, RunRepeats, Excuse, Running
  <1>7. RunShape'
    BY <1>1, <1>2, Numbers DEF IInv, RunShape, Step
  <1>8. RunBounded'
    <2>1. ResumeFrom(start) \in Int /\ ResumeFrom(start)' = ResumeFrom(start)
      BY <1>1, <1>2, Numbers DEF IInv, TypeOK, ResumeFrom, NoCheckpoint, Step
    <2>2. Ahead = unflushed /\ unflushed < FlushEvery
      BY <1>1 DEF IInv, RunBounded
    <2>3. Ahead' = unflushed'
      BY <1>1, <1>2, <2>1, <2>2 DEF Ahead, Step
    <2>4. QED BY <1>1, <1>2, <2>2, <2>3, Numbers DEF RunBounded, Running
  <1>9. QED BY <1>3, <1>4, <1>5, <1>6, <1>7, <1>8 DEF IInv

\* Into the finally clause, from wherever Ctrl-C finds the run.
LEMMA LeaveOK ==
  ASSUME IInv, Running, ~leaving, NEW why \in Results \ {"none"}, Leave(why),
         repeats' \in Nat, faults' \in [Fault -> Nat], UNCHANGED <<filled, polled, checkpoint>>,
         repeats' >= repeats, pc = "clear" => why = "interrupted" /\ repeats' > 0
  PROVE  IInv'
  <1>1. /\ leaving' = TRUE /\ result' = why /\ pc' = "write"
        /\ UNCHANGED <<start, end, next, existing, pending, unflushed, overlap>>
    BY DEF Leave, files
  <1>2. InFile' = InFile /\ pc # "off"
    BY SameFile DEF Running
  <1>3. TypeOK'
    BY <1>1 DEF IInv, TypeOK, Stages
  <1>4. NothingSkipped'
    BY <1>1, <1>2, SkippedKept DEF IInv
  <1>5. RunCovers'
    BY <1>1, <1>2 DEF IInv, RunCovers, Covered, Running
  <1>6. RunRepeats'
    BY <1>1, <1>2 DEF IInv, RunRepeats, Excuse, Running
  <1>7. RunShape' /\ RunBounded'
    BY <1>1, <1>2 DEF IInv, RunShape, RunBounded, Ahead, ResumeFrom, Running
  <1>8. QED BY <1>3, <1>4, <1>5, <1>6, <1>7 DEF IInv

LEMMA HitType ==
  ASSUME TypeOK, NEW f \in Fault, Hit(f)
  PROVE  faults' \in [Fault -> Nat]
  BY DEF TypeOK, Hit

LEMMA LeavesOK ==
  ASSUME IInv, RangeDone \/ RequestFails \/ Interrupt \/ InterruptAgain
  PROVE  IInv'
  <1>1. CASE RangeDone
    BY <1>1, LeaveOK DEF RangeDone, Leave, files, Running, IInv, TypeOK, RunShape, Results
  <1>2. CASE RequestFails
    <2>1. PICK why \in {"limited", "failed"} : Leave(why)
      BY <1>2 DEF RequestFails
    <2>2. faults' \in [Fault -> Nat] /\ why \in Results \ {"none"}
      BY <1>2, HitType DEF RequestFails, IInv, Fault, Results
    <2>3. QED BY <1>2, <2>1, <2>2, LeaveOK
          DEF RequestFails, Leave, files, Running, IInv, TypeOK, RunShape
  <1>3. CASE Interrupt
    <2>1. faults' \in [Fault -> Nat] /\ "interrupted" \in Results \ {"none"}
      BY <1>3, HitType DEF Interrupt, IInv, Fault, Results
    <2>2. repeats' \in Nat /\ repeats' >= repeats /\ (pc = "clear" => repeats' > 0)
      BY <1>3 DEF Interrupt, IInv, TypeOK
    <2>3. QED BY <1>3, <2>1, <2>2, LeaveOK DEF Interrupt, Leave, files, Running
  <1>4. CASE InterruptAgain
    <2>1. faults' \in [Fault -> Nat] /\ InFile' = InFile
      BY <1>4, HitType, SameFile DEF InterruptAgain, IInv, Fault, files
    <2>2. NothingSkipped'
      BY <1>4, <2>1, SkippedKept DEF InterruptAgain, IInv, files
    <2>3. QED BY <1>4, <2>1, <2>2, GoneOK DEF InterruptAgain, IInv, TypeOK, Results, files
  <1>5. QED BY <1>1, <1>2, <1>3, <1>4

LEMMA FlushOK ==
  ASSUME IInv, WriteRows \/ ClearPending \/ SaveCheckpoint
  PROVE  IInv'
  <1>1. CASE WriteRows
    <2>1. /\ pc = "write" /\ pc' = "clear" /\ filled' = Appended(pending)
          /\ UNCHANGED <<polled, checkpoint, start, end, next, existing, pending, unflushed,
                         leaving, result, overlap, repeats, faults>>
      BY <1>1 DEF WriteRows, memory, counts
    <2>2. ToSet(pending) \subseteq Minute
      BY <2>1 DEF IInv, TypeOK, RunCovers, Running
    <2>3. filled' \in [Minute -> Nat] /\ InFile' = InFile \union ToSet(pending)
      BY <2>1, <2>2, AppendedRows DEF IInv
    <2>4. TypeOK'
      BY <2>1, <2>3 DEF IInv, TypeOK, Stages
    <2>5. NothingSkipped'
      BY <2>1, <2>3, SkippedKept DEF IInv
    <2>6. RunCovers'
      BY <2>1, <2>3 DEF IInv, RunCovers, Covered, Running
    <2>7. RunRepeats'
      BY <2>1, <2>3 DEF IInv, RunCovers, RunRepeats, Running
    <2>8. RunShape' /\ RunBounded'
      BY <2>1 DEF IInv, RunShape, RunBounded, Ahead, ResumeFrom, Running
    <2>9. QED BY <2>4, <2>5, <2>6, <2>7, <2>8 DEF IInv
  <1>2. CASE ClearPending
    <2>1. /\ pc = "clear" /\ pc' = "save" /\ pending' = <<>> /\ unflushed' = 0
          /\ UNCHANGED <<filled, polled, checkpoint, start, end, next, existing, leaving, result,
                         overlap, repeats, faults>>
      BY <1>2 DEF ClearPending, EmptyPending, files, counts
    <2>2. InFile' = InFile /\ pending' \in Seq(Minute) /\ ToSet(pending') = {}
      BY <2>1, SameFile, NoRows
    <2>3. TypeOK'
      BY <2>1, <2>2 DEF IInv, TypeOK, Stages
    <2>4. NothingSkipped'
      BY <2>1, <2>2, SkippedKept DEF IInv
    <2>5. RunCovers'
      BY <2>1, <2>2 DEF IInv, RunCovers, Covered, Running
    <2>6. RunRepeats'
      BY <2>1, <2>2 DEF IInv, RunRepeats, Running
    <2>7. RunShape' /\ RunBounded'
      BY <2>1 DEF IInv, RunShape, RunBounded, Ahead, ResumeFrom, Running
    <2>8. QED BY <2>3, <2>4, <2>5, <2>6, <2>7 DEF IInv
  <1>3. CASE SaveCheckpoint
    <2>1. /\ pc = "save" /\ checkpoint' = [start |-> start, next |-> next]
          /\ UNCHANGED <<filled, polled, start, end, result, overlap, repeats, faults>>
      BY <1>3 DEF SaveCheckpoint, NewCheckpoint, counts
    <2>2. /\ InFile' = InFile /\ start \in Starts /\ next \in 1..LastStep + 1 /\ start \in Step
          /\ pending = <<>> /\ ToSet(pending) = {} /\ unflushed = 0
      BY <2>1, SameFile, NoRows, Numbers DEF IInv, TypeOK, RunShape
    <2>3. NothingSkipped'
      BY <2>1, <2>2 DEF IInv, RunCovers, Covered, NothingSkipped, Written
    <2>4. checkpoint' \in [start : Starts, next : 1..LastStep + 1]
      BY <2>1, <2>2
    <2>5. CASE leaving
      BY <1>3, <2>1, <2>2, <2>3, <2>4, <2>5, GoneOK DEF SaveCheckpoint, IInv, TypeOK
    <2>6. CASE ~leaving
      <3>1. pc' = "fetch" /\ UNCHANGED <<next, existing, pending, unflushed, leaving>>
        BY <1>3, <2>6 DEF SaveCheckpoint, memory
      <3>2. TypeOK'
        BY <2>1, <2>4, <3>1 DEF IInv, TypeOK, Stages
      <3>3. RunCovers' /\ RunRepeats'
        BY <2>1, <2>2, <3>1 DEF IInv, RunCovers, RunRepeats, Covered, Excuse, Running
      <3>4. RunShape'
        BY <2>1, <2>6, <3>1 DEF IInv, RunShape
      <3>5. Ahead' = 0
        BY <2>1, <2>2, <3>1 DEF Ahead, ResumeFrom
      <3>6. QED BY <2>2, <2>3, <2>6, <3>1, <3>2, <3>3, <3>4, <3>5, Numbers
            DEF IInv, RunBounded, Running
    <2>7. QED BY <2>5, <2>6 DEF IInv, TypeOK
  <1>4. QED BY <1>1, <1>2, <1>3

LEMMA KillOK ==
  ASSUME IInv, Kill
  PROVE  IInv'
  <1>1. PICK n \in 0..Len(pending) :
          (n > 0 => pc = "write") /\ filled' = Appended(SubSeq(pending, 1, n))
    BY DEF Kill
  <1>2. /\ faults' \in [Fault -> Nat] /\ MemoryGone /\ result' = "killed"
        /\ UNCHANGED <<polled, checkpoint, start, end, overlap, repeats>>
    BY HitType DEF Kill, IInv, Fault
  <1>3. ToSet(SubSeq(pending, 1, n)) \subseteq Minute
    <2>1. pending \in Seq(Minute)
      BY DEF IInv, TypeOK
    <2>2. ToSet(pending) \subseteq Minute
      BY <2>1, LenProperties DEF ToSet
    <2>3. QED BY <2>1, <2>2, FewerRows
  <1>4. filled' \in [Minute -> Nat] /\ InFile \subseteq InFile'
    BY <1>1, <1>2, <1>3, AppendedRows DEF IInv
  <1>5. NothingSkipped'
    BY <1>2, <1>4, SkippedKept DEF IInv
  <1>6. QED BY <1>2, <1>4, <1>5, GoneOK DEF IInv, TypeOK, Results

LEMMA StepOK ==
  ASSUME IInv, Next
  PROVE  IInv'
  BY PollerOK, LaunchOK, ReadExistingOK, FetchOK, AdvanceOK, LeavesOK, FlushOK, KillOK
  DEF Next, Run

\* The invariant the properties follow from.
THEOREM Invariance == Spec => []IInv
  <1>1. IInv /\ [Next]_vars => IInv'
    <2> SUFFICES ASSUME IInv, [Next]_vars PROVE IInv' OBVIOUS
    <2>1. CASE UNCHANGED vars
      <3>1. InFile' = InFile
        BY <2>1, SameFile DEF vars, files
      <3>2. QED BY <2>1, <3>1
            DEF vars, files, memory, counts, IInv, TypeOK, RunShape, RunCovers, NothingSkipped,
                RunRepeats, RunBounded, Covered, Written, Excuse, Ahead, ResumeFrom, Running
    <2>2. QED BY <2>1, StepOK
  <1>2. QED BY InitOK, <1>1, PTL DEF Spec

-----------------------------------------------------------------------------

\* Type correctness: the checkpoint is of a range somebody asked for.
THEOREM TypeCorrect == Spec => []TypeOK
  BY Invariance, PTL DEF IInv

\* A checkpoint never passes a minute that is not in prices.csv, wherever the
\* run before was stopped (price_gap_backfill.py:319-323, 385-391).
THEOREM NeverSkips == Spec => []NothingSkipped
  BY Invariance, PTL DEF IInv

\* A run is ahead of its checkpoint by one batch at most (price_gap_backfill.py:50-52).
THEOREM BatchAtRisk == Spec => []LossBounded
  <1>1. IInv => LossBounded
    BY DEF IInv, RunBounded, LossBounded, Ahead, Running
  <1>2. QED BY Invariance, <1>1, PTL

\* No minute is appended twice but for a poller's row behind the run's back, or a
\* Ctrl-C inside flush (price_gap_backfill.py:385-391, 424-436, 455-458).
THEOREM RowsOnce == Spec => WrittenOnce
  <1> DEFINE Once == \A m \in Minute : filled'[m] > filled[m] /\ m \in InFile =>
               m \in overlap \/ (leaving /\ result = "interrupted" /\ repeats > 0)
  <1>1. ASSUME IInv, [Next]_vars, NEW m \in Minute, filled'[m] > filled[m], m \in InFile
        PROVE  m \in overlap \/ (leaving /\ result = "interrupted" /\ repeats > 0)
    <2>1. filled' # filled
      BY <1>1 DEF IInv, TypeOK
    <2>2. WriteRows \/ Kill
      BY <1>1, <2>1 DEF Next, Run, vars, files, PollerAppends, Launch, ReadExisting, Fetch, Advance,
         RangeDone, RequestFails, Interrupt, InterruptAgain, Leave, ClearPending, SaveCheckpoint
    <2>3. m \in ToSet(pending) /\ pc = "write"
      <3>1. pending \in Seq(Minute) /\ ToSet(pending) \subseteq Minute
        BY LenProperties, <1>1 DEF ToSet, IInv, TypeOK
      <3>2. CASE WriteRows
        BY <1>1, <3>1, <3>2, AppendedRows DEF WriteRows, IInv
      <3>3. CASE Kill
        <4>1. PICK n \in 0..Len(pending) :
                (n > 0 => pc = "write") /\ filled' = Appended(SubSeq(pending, 1, n))
          BY <3>3 DEF Kill
        <4>2. ToSet(SubSeq(pending, 1, n)) \subseteq ToSet(pending)
          BY <3>1, FewerRows
        <4>3. m \in ToSet(SubSeq(pending, 1, n))
          BY <1>1, <3>1, <3>3, <4>1, <4>2, AppendedRows DEF Kill, IInv
        <4>4. n > 0
          <5>1. CASE n = 0
            <6>1. SubSeq(pending, 1, n) = <<>>
              BY <3>1, <5>1
            <6>2. QED BY <4>3, <6>1, NoRows
          <5>2. QED BY <4>1, <5>1
        <4>5. QED BY <4>1, <4>2, <4>3, <4>4
      <3>4. QED BY <2>2, <3>2, <3>3
    <2>4. QED BY <1>1, <2>3 DEF IInv, RunRepeats, Excuse, Running
  <1>2. IInv /\ [Next]_vars => [Once]_vars
    BY <1>1
  <1>3. QED BY <1>2, Invariance, PTL DEF Spec, WrittenOnce

=============================================================================
