---------------------------- MODULE PriceBackfill ----------------------------
(***************************************************************************)
(* The price history backfill (api/price_gap_backfill.py): a script run by *)
(* hand that walks a range of minutes, asks a mempool instance for the     *)
(* price at each, and appends the minutes prices.csv does not have.  The   *)
(* live poller appends to the same file meanwhile.                         *)
(*                                                                         *)
(* A requested timestamp is a step, 1..LastStep; the answer carries the    *)
(* price's own minute (date_unix), or there is none.  Rows go to the file  *)
(* in batches, each followed by an atomic rewrite of the checkpoint.       *)
(***************************************************************************)
EXTENDS Integers, Sequences, SequencesExt

CONSTANTS
  Minute, NoPrice,     \* the values of date_unix; no price for a timestamp
  LastStep,            \* the highest timestamp of a range
  PriceTime,           \* the minute the instance answers each step with
  Starts,              \* values of --start-timestamp the operator uses
  FlushEvery,          \* FLUSH_EVERY_STEPS
  MaxPolls,            \* bound: rows the live poller appends
  MaxFaults            \* bounds: how often each Fault happens

Step == 1..LastStep
Fault == {"kill", "interrupt", "refusal"}

ASSUME BackfillAssumption ==
  /\ NoPrice \notin Minute
  /\ LastStep \in Nat \ {0} /\ FlushEvery \in Nat \ {0} /\ MaxPolls \in Nat
  /\ PriceTime \in [Step -> Minute \union {NoPrice}]
  /\ Starts \subseteq Step /\ Starts # {}
  /\ MaxFaults \in [Fault -> Nat]

Priced(s) == PriceTime[s] # NoPrice
NoCheckpoint == [start |-> 0, next |-> 0]

VARIABLES
  \* files under --export-dir
  filled, polled,      \* prices.csv: rows of each minute, by who appended them
  checkpoint,          \* price_gap_backfill_state.csv
  \* the script
  pc,                  \* its next step
  start, end, next,    \* the range of the latest run; next_timestamp
  existing,            \* existing_dates
  pending,             \* pending_rows
  unflushed,           \* steps_since_flush
  leaving,             \* the running flush is the one of the finally clause
  result,              \* how the latest run ended, or "none" while one is under way
  \* bookkeeping of the model
  overlap,             \* minutes the poller appended since existing was read
  repeats,             \* flushes interrupted when the rows were written already
  faults

files == <<filled, polled, checkpoint>>
memory == <<next, existing, pending, unflushed, leaving>>
counts == <<overlap, repeats, faults>>
vars == <<files, pc, start, end, memory, result, counts>>

Stages == {"off", "snapshot", "fetch", "advance", "write", "clear", "save"}
Results == {"none", "complete", "failed", "limited", "interrupted", "killed"}

InFile == {m \in Minute : filled[m] + polled[m] > 0}
Written(s) == Priced(s) => PriceTime[s] \in InFile

Init ==
  /\ filled = [m \in Minute |-> 0] /\ polled \in [Minute -> {0, 1}]
  /\ checkpoint = NoCheckpoint
  /\ pc = "off" /\ start = 1 /\ end = 0 /\ result = "none"
  /\ next = 0 /\ existing = {} /\ pending = <<>> /\ unflushed = 0 /\ leaving = FALSE
  /\ overlap = {} /\ repeats = 0 /\ faults = [f \in Fault |-> 0]

-----------------------------------------------------------------------------
Hit(f) == faults[f] < MaxFaults[f] /\ faults' = [faults EXCEPT ![f] = @ + 1]

\* The live poller appends the row of its minute, without looking.
PollerAppends(m) ==
  /\ polled[m] < MaxPolls
  /\ polled' = [polled EXCEPT ![m] = @ + 1]
  /\ overlap' = overlap \union {m}
  /\ UNCHANGED <<filled, checkpoint, pc, start, end, memory, result, repeats, faults>>

MemoryGone ==
  /\ pc' = "off"
  /\ next' = 0 /\ existing' = {} /\ pending' = <<>> /\ unflushed' = 0 /\ leaving' = FALSE

\* _load_checkpoint: only a checkpoint of the same --start-timestamp counts.
ResumeFrom(s) == IF checkpoint.start = s THEN checkpoint.next ELSE s

Launch(s, e) ==
  /\ pc = "off" /\ s <= e
  /\ start' = s /\ end' = e
  /\ IF ResumeFrom(s) > e
     THEN result' = "complete" /\ UNCHANGED <<pc, next>>
     ELSE result' = "none" /\ pc' = "snapshot" /\ next' = ResumeFrom(s)
  /\ UNCHANGED <<files, existing, pending, unflushed, leaving, counts>>

KnownFromRun == {}                                            \* slip: the file is not read
KnownDates == InFile

ReadExisting ==
  /\ pc = "snapshot"
  /\ existing' = KnownDates
  /\ overlap' = {}
  /\ pc' = "fetch"
  /\ UNCHANGED <<files, start, end, next, pending, unflushed, leaving, result, repeats, faults>>

\* One round of the loop: the answer is filed ...
Remember(m) == existing \union {m}

Fetch ==
  /\ pc = "fetch" /\ next <= end
  /\ IF Priced(next) /\ PriceTime[next] \notin existing
     THEN /\ pending' = Append(pending, PriceTime[next])
          /\ existing' = Remember(PriceTime[next])
     ELSE UNCHANGED <<pending, existing>>
  /\ pc' = "advance"
  /\ UNCHANGED <<files, start, end, next, unflushed, leaving, result, counts>>

\* ... then the next timestamp is due, and maybe a flush: after so many
\* steps, or because so many seconds have passed.
FlushLate(n) == n > FlushEvery                                \* slip: one step late
FlushDue(n) == n >= FlushEvery

Advance(timer) ==
  /\ pc = "advance"
  /\ next' = next + 1
  /\ unflushed' = unflushed + 1
  /\ pc' = IF timer \/ FlushDue(unflushed') THEN "write" ELSE "fetch"
  /\ UNCHANGED <<files, start, end, existing, pending, leaving, result, counts>>

\* The finally clause: the range is done, a request failed, or Ctrl-C.
Leave(why) ==
  /\ leaving' = TRUE
  /\ result' = why
  /\ pc' = "write"
  /\ UNCHANGED <<files, start, end, next, existing, pending, unflushed, overlap>>

RangeDone == pc = "fetch" /\ next > end /\ Leave("complete") /\ UNCHANGED <<repeats, faults>>

\* HTTP 429 ends the run with 75, any other failure with 1.
RequestFails ==
  /\ pc = "fetch" /\ next <= end
  /\ Hit("refusal")
  /\ \E why \in {"limited", "failed"} : Leave(why)
  /\ UNCHANGED repeats

Interrupt ==
  /\ pc \in {"fetch", "advance", "write", "clear", "save"} /\ ~leaving
  /\ Hit("interrupt")
  /\ Leave("interrupted")
  /\ repeats' = IF pc = "clear" THEN repeats + 1 ELSE repeats

\* A second Ctrl-C, inside the finally clause or before the loop.
InterruptAgain ==
  /\ pc = "snapshot" \/ leaving
  /\ Hit("interrupt")
  /\ result' = "interrupted"
  /\ MemoryGone
  /\ UNCHANGED <<files, start, end, overlap, repeats>>

-----------------------------------------------------------------------------
(* flush                                                                   *)

Appended(ms) == [m \in Minute |-> filled[m] + (IF m \in ToSet(ms) THEN 1 ELSE 0)]

WriteRows ==
  /\ pc = "write"
  /\ filled' = Appended(pending)
  /\ pc' = "clear"
  /\ UNCHANGED <<polled, checkpoint, start, end, memory, result, counts>>

KeepPending == pending                                        \* slip: not emptied
EmptyPending == <<>>

ClearPending ==
  /\ pc = "clear"
  /\ pending' = EmptyPending
  /\ unflushed' = 0
  /\ pc' = "save"
  /\ UNCHANGED <<files, start, end, next, existing, leaving, result, counts>>

SaveEnd == [start |-> start, next |-> end + 1]                \* slip: the range counts as done
SkipFailed == [start |-> start, next |-> next + 1]            \* slip: past the failed request
NewCheckpoint == [start |-> start, next |-> next]

SaveCheckpoint ==
  /\ pc = "save"
  /\ checkpoint' = NewCheckpoint
  /\ IF leaving THEN MemoryGone
     ELSE pc' = "fetch" /\ UNCHANGED memory
  /\ UNCHANGED <<filled, polled, start, end, result, counts>>

\* SIGKILL, SIGTERM or a power loss: no finally clause, and an append under
\* way leaves the rows that had reached the file.
Kill ==
  /\ pc # "off"
  /\ Hit("kill")
  /\ \E n \in 0..Len(pending) :
       /\ n > 0 => pc = "write"
       /\ filled' = Appended(SubSeq(pending, 1, n))
  /\ result' = "killed"
  /\ MemoryGone
  /\ UNCHANGED <<polled, checkpoint, start, end, overlap, repeats>>

-----------------------------------------------------------------------------
Run ==
  \/ ReadExisting \/ Fetch \/ RangeDone \/ WriteRows \/ ClearPending \/ SaveCheckpoint
  \/ (\E timer \in BOOLEAN : Advance(timer))

Next ==
  \/ (\E m \in Minute : PollerAppends(m))
  \/ (\E s \in Starts, e \in Step : Launch(s, e))
  \/ RequestFails \/ Interrupt \/ InterruptAgain \/ Kill
  \/ Run

Spec == Init /\ [][Next]_vars

\* A running script goes on; and whatever else the operator asks for, the
\* whole range is asked for again and again.
FairSpec == Spec /\ WF_vars(Run) /\ SF_vars(Launch(Min(Starts), LastStep))

-----------------------------------------------------------------------------
(* What the backfill promises.                                             *)

TypeOK ==
  /\ filled \in [Minute -> Nat] /\ polled \in [Minute -> Nat]
  /\ checkpoint \in [start : Starts, next : 1..LastStep + 1] \union {NoCheckpoint}
  /\ pc \in Stages /\ result \in Results
  /\ start \in Step /\ end \in Step \union {0}
  /\ next \in 0..LastStep + 1 /\ unflushed \in Nat
  /\ existing \subseteq Minute /\ pending \in Seq(Minute)
  /\ leaving \in BOOLEAN
  /\ overlap \subseteq Minute /\ repeats \in Nat /\ faults \in [Fault -> Nat]
  /\ pc = "save" => pending = <<>> /\ unflushed = 0

\* Re-running resumes from the checkpoint "instead of skipping past"
\* (price_gap_backfill.py:319-323): every minute below a checkpoint is in
\* prices.csv, wherever a run was killed, interrupted or refused.
NothingSkipped ==
  \A s \in Step : checkpoint.start <= s /\ s < checkpoint.next => Written(s)

\* "A hard kill can lose at most the last unflushed batch"
\* (price_gap_backfill.py:50-52): no run is ahead of its checkpoint by more.
LossBounded ==
  pc \notin {"off", "snapshot"} =>
    next - ResumeFrom(start) <= FlushEvery

\* No minute is written twice (price_gap_backfill.py:52-53, 115-117), except in
\* the two ways the code leaves open: the poller wrote it after existing_dates
\* was read, or Ctrl-C came between the append of a batch and pending_rows = [].
WrittenOnce ==
  [][\A m \in Minute : filled'[m] > filled[m] /\ m \in InFile =>
       m \in overlap \/ (leaving /\ result = "interrupted" /\ repeats > 0)]_vars

\* Once the operator keeps asking, the range is filled, through kills, Ctrl-C
\* and refused requests.
EventuallyFilled == <>[](\A s \in Min(Starts)..LastStep : Written(s))

=============================================================================
