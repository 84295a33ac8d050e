---------------------------- MODULE ApiPoll_proofs ----------------------------
(***************************************************************************)
(* The poller's types, and the bound its token bucket puts on the whole    *)
(* application, for any number of endpoints, intervals and bucket sizes.   *)
(***************************************************************************)
EXTENDS ApiPoll, FiniteSetTheorems, SequenceTheorems, TLAPS

Capacity == BucketSize * RefillTicks

\* Why the bucket bounds every window that ends now: the tokens taken since
\* then and the level left are paid by a full bucket and the time since.
Budget ==
  \A i \in DOMAIN grants :
    /\ grants[i] <= refilled
    /\ (Len(grants) - i + 1) * RefillTicks + level <= Capacity + (refilled - grants[i])

\* Only a request that may be tried again waits for its next attempt.
Retrying == \A e \in Endpoint : thread[e] = "backoff" => attempt[e] < MaxRetries

IInv == TypeOK /\ Retrying /\ Budget /\ RateBound

-----------------------------------------------------------------------------

LEMMA Numbers ==
  /\ Endpoints \in Nat \ {0} /\ Interval \in [Endpoint -> Nat \ {0}]
  /\ RefillTicks \in Nat \ {0} /\ BucketSize \in Nat \ {0}
  /\ MaxRetries \in Nat /\ Backoff \in Nat /\ JoinTimeout \in Nat
  BY PollAssumption DEF PollAssumption

LEMMA CapacityIsNat == Capacity \in Nat /\ RefillTicks <= Capacity
  BY Numbers DEF Capacity

\* compute_start_offsets never divides by zero and never yields a negative offset.
LEMMA OffsetIsNat == \A e \in Endpoint : StartOffset(e) \in Nat
  <1> SUFFICES ASSUME NEW e \in Endpoint PROVE StartOffset(e) \in Nat
    OBVIOUS
  <1>1. IsFiniteSet(Endpoint)
    BY Numbers, FS_Interval DEF Endpoint
  <1>2. IsFiniteSet(Group(e)) /\ Group(e) # {}
    BY <1>1, FS_Subset DEF Group
  <1>3. Cardinality(Group(e)) \in Nat /\ Cardinality(Group(e)) # 0
    BY <1>2, FS_CardinalityType, FS_EmptySet
  <1>4. IsFiniteSet({f \in Group(e) : f < e})
    BY <1>2, FS_Subset
  <1>5. Cardinality({f \in Group(e) : f < e}) \in Nat
    BY <1>4, FS_CardinalityType
  <1>6. Interval[e] \in Nat
    BY Numbers
  <1> DEFINE before == Cardinality({f \in Group(e) : f < e})
             peers == Cardinality(Group(e))
  <1> HIDE DEF before, peers
  <1>7. before * Interval[e] \in Nat
    BY <1>5, <1>6 DEF before
  <1>8. (before * Interval[e]) \div peers \in Nat
    BY <1>3, <1>7 DEF peers
  <1>9. QED BY <1>8 DEF StartOffset, before, peers

LEMMA InitOK == Init => IInv
  <1> SUFFICES ASSUME Init PROVE IInv
    OBVIOUS
  <1>1. grants \in Seq(Nat) /\ DOMAIN grants = {}
    BY DEF Init
  <1>2. /\ now \in Nat /\ level \in 0..BucketSize * RefillTicks /\ refilled \in 0..now
        /\ main = "watch" /\ code = Running /\ joining \in 1..Endpoints + 1
        /\ patience \in Nat /\ ctrlC \in Nat
    BY Numbers, CapacityIsNat DEF Init, Capacity
  <1>3. /\ stop \in BOOLEAN /\ rateLimited \in BOOLEAN /\ answered429 \in BOOLEAN
    BY DEF Init
  <1>4. /\ thread \in [Endpoint -> Steps] /\ until \in [Endpoint -> Nat]
        /\ due \in [Endpoint -> Nat] /\ late \in [Endpoint -> Nat]
    BY OffsetIsNat DEF Init, Steps
  <1>5. attempt \in [Endpoint -> 0..MaxRetries]
    BY Numbers DEF Init
  <1>6. ended \in [Endpoint -> Int \X Int]
    BY Numbers DEF Init
  <1>7. TypeOK
    BY <1>1, <1>2, <1>3, <1>4, <1>5, <1>6 DEF TypeOK
  <1>8. Budget /\ RateBound
    BY <1>1 DEF Budget, RateBound
  <1>9. QED BY <1>4, <1>7, <1>8 DEF IInv, Init, Retrying

-----------------------------------------------------------------------------
(* The token bucket.                                                       *)

LEMMA RefillType ==
  ASSUME TypeOK
  PROVE  /\ Refill \in 0..Capacity /\ Refill <= level + (now - refilled)
  BY CapacityIsNat DEF TypeOK, Refill, IsLess, Capacity

\* A token more, for a window that is one longer.
LEMMA OneMore ==
  ASSUME NEW k \in Int
  PROVE  (k + 1) * RefillTicks = k * RefillTicks + RefillTicks
  BY Numbers

\* Nothing is taken: the level gains what the time is worth, at most.
LEMMA WaitOK ==
  ASSUME IInv, refilled' = now, level' = Refill, grants' = grants
  PROVE  Budget' /\ RateBound'
  <1>1. RateBound'
    BY DEF IInv, RateBound
  <1>2. ASSUME NEW i \in DOMAIN grants
        PROVE  /\ grants[i] <= now
               /\ (Len(grants) - i + 1) * RefillTicks + Refill <= Capacity + (now - grants[i])
    <2>1. /\ grants \in Seq(Nat) /\ grants[i] \in Nat /\ Len(grants) - i + 1 \in Nat
          /\ now \in Nat /\ refilled \in 0..now /\ level \in Int
      BY <1>2, LenProperties, ElementOfSeq, Numbers DEF IInv, TypeOK
    <2> DEFINE spent == (Len(grants) - i + 1) * RefillTicks
    <2>2. spent \in Int
      BY <2>1, Numbers
    <2>3. grants[i] <= refilled /\ spent + level <= Capacity + (refilled - grants[i])
      BY <1>2 DEF IInv, Budget
    <2>4. Refill \in Int /\ Refill <= level + (now - refilled) /\ Capacity \in Nat
      BY RefillType, CapacityIsNat DEF IInv
    <2> HIDE DEF spent
    <2>5. grants[i] <= now /\ spent + Refill <= Capacity + (now - grants[i])
      BY <2>1, <2>2, <2>3, <2>4
    <2>6. QED BY <2>5 DEF spent
  <1>3. Budget'
    BY <1>2 DEF Budget, Capacity
  <1>4. QED BY <1>1, <1>3

\* A token is taken: it is the newest grant of every window that ends now.
LEMMA TakeOK ==
  ASSUME IInv, Refill >= RefillTicks, refilled' = now, level' = Refill - RefillTicks,
         grants' = Append(grants, now)
  PROVE  Budget' /\ RateBound'
  <1> DEFINE n == Len(grants)
  <1>1. /\ grants \in Seq(Nat) /\ n \in Nat /\ DOMAIN grants = 1..n
        /\ now \in Nat /\ refilled \in 0..now /\ level \in Int
        /\ RefillTicks \in Nat /\ Capacity \in Nat
        /\ Refill \in 0..Capacity /\ Refill <= level + (now - refilled)
    BY LenProperties, RefillType, CapacityIsNat, Numbers DEF IInv, TypeOK, Capacity
  <1>2. /\ Len(grants') = n + 1 /\ DOMAIN grants' = 1..n + 1 /\ grants'[n + 1] = now
        /\ \A i \in 1..n : grants'[i] = grants[i] /\ grants[i] \in Nat
    BY <1>1, AppendProperties, LenProperties, ElementOfSeq
  <1>3. ASSUME NEW i \in 1..n
        PROVE  /\ grants[i] <= now
               /\ (n + 1 - i + 1) * RefillTicks + (Refill - RefillTicks)
                    <= Capacity + (now - grants[i])
    <2> DEFINE spent == (n - i + 1) * RefillTicks
    <2>1. spent \in Int /\ n - i + 1 \in Int
      BY <1>1, <1>3
    <2>2. grants[i] <= refilled /\ spent + level <= Capacity + (refilled - grants[i])
      BY <1>1, <1>3 DEF IInv, Budget
    <2>3. (n + 1 - i + 1) * RefillTicks = spent + RefillTicks
      <3>1. n + 1 - i + 1 = (n - i + 1) + 1
        BY <1>1, <1>3
      <3>2. QED BY <2>1, <3>1, OneMore
    <2>4. grants[i] \in Nat
      BY <1>2, <1>3
    <2> HIDE DEF spent
    <2>5. QED BY <1>1, <2>1, <2>2, <2>3, <2>4
  <1>4. (n + 1 - (n + 1) + 1) * RefillTicks = RefillTicks
    <2>1. n + 1 - (n + 1) + 1 = 1
      BY <1>1
    <2>2. 1 * RefillTicks = RefillTicks
      BY Numbers
    <2>3. QED BY <2>1, <2>2
  <1>5. ASSUME NEW i \in 1..n + 1
        PROVE  /\ grants'[i] <= now
               /\ (n + 1 - i + 1) * RefillTicks + (Refill - RefillTicks)
                    <= Capacity + (now - grants'[i])
    <2>1. CASE i \in 1..n
      BY <2>1, <1>2, <1>3
    <2>2. CASE i = n + 1
      BY <2>2, <1>1, <1>2, <1>4
    <2>3. QED BY <1>1, <1>5, <2>1, <2>2
  <1>6. Budget'
    BY <1>2, <1>5 DEF Budget, Capacity
  <1>7. ASSUME NEW i \in 1..n + 1, NEW j \in 1..n + 1, i <= j
        PROVE  (j - i + 1) * RefillTicks <= Capacity + (grants'[j] - grants'[i])
    <2>1. CASE j \in 1..n
      <3>1. i \in 1..n
        BY <1>1, <1>7, <2>1
      <3>2. QED BY <1>1, <1>2, <1>7, <2>1, <3>1 DEF IInv, RateBound, Capacity
    <2>2. CASE j = n + 1
      <3> DEFINE spent == (n + 1 - i + 1) * RefillTicks
      <3>1. spent \in Int /\ grants'[i] \in Nat /\ Refill - RefillTicks \in Nat
        BY <1>1, <1>2
      <3>2. spent + (Refill - RefillTicks) <= Capacity + (now - grants'[i])
        BY <1>5
      <3> HIDE DEF spent
      <3>3. spent <= Capacity + (now - grants'[i])
        BY <1>1, <3>1, <3>2
      <3>4. QED BY <1>2, <2>2, <3>3 DEF spent
    <2>3. QED BY <1>1, <1>7, <2>1, <2>2
  <1>8. RateBound'
    BY <1>2, <1>7 DEF RateBound, Capacity
  <1>9. QED BY <1>6, <1>8

\* Nobody but acquire() touches the bucket.
LEMMA SameBucket ==
  ASSUME IInv, UNCHANGED bucket
  PROVE  Budget' /\ RateBound'
  BY DEF IInv, Budget, RateBound, bucket, Capacity

-----------------------------------------------------------------------------
(* The steps.                                                              *)

LEMMA AcquiresOK ==
  ASSUME IInv, NEW e \in Endpoint, Acquires(e)
  PROVE  IInv'
  <1>1. CASE Refill >= RefillTicks
    <2>1. /\ level' = Refill - RefillTicks /\ grants' = Append(grants, now)
          /\ late' = [late EXCEPT ![e] = IF stop THEN @ + 1 ELSE @]
          /\ thread' = [thread EXCEPT ![e] = "flight"] /\ refilled' = now
          /\ UNCHANGED <<now, stop, rateLimited, until, due, ended, attempt, main, code,
                         joining, patience, answered429, ctrlC>>
      BY <1>1 DEF Acquires, Goes, events, mainVars
    <2>2. level' \in 0..BucketSize * RefillTicks /\ grants' \in Seq(Nat)
      <3>1. grants' \in Seq(Nat)
        BY <2>1, AppendProperties DEF IInv, TypeOK
      <3>2. Refill \in 0..Capacity /\ RefillTicks \in Nat /\ Capacity \in Nat
        BY RefillType, Numbers, CapacityIsNat DEF IInv
      <3>3. level' \in 0..Capacity
        BY <1>1, <2>1, <3>2
      <3>4. QED BY <3>1, <3>3 DEF Capacity
    <2>3. late' \in [Endpoint -> Nat] /\ thread' \in [Endpoint -> Steps]
      BY <2>1 DEF IInv, TypeOK, Steps
    <2>4. TypeOK'
      BY <2>1, <2>2, <2>3 DEF IInv, TypeOK
    <2>5. Retrying'
      BY <2>1 DEF IInv, TypeOK, Retrying
    <2>6. QED BY <1>1, <2>1, <2>4, <2>5, TakeOK DEF IInv
  <1>2. CASE ~(Refill >= RefillTicks)
    <2>1. /\ level' = Refill /\ grants' = grants /\ late' = late
          /\ until' = [until EXCEPT ![e] = now + (RefillTicks - Refill)]
          /\ thread' = [thread EXCEPT ![e] = "throttled"] /\ refilled' = now
          /\ UNCHANGED <<now, stop, rateLimited, due, ended, attempt, main, code,
                         joining, patience, answered429, ctrlC>>
      BY <1>2 DEF Acquires, Goes, Waits, events, mainVars
    <2>2. level' \in 0..BucketSize * RefillTicks /\ now + (RefillTicks - Refill) \in Nat
      <3>1. Refill \in 0..Capacity /\ RefillTicks \in Nat /\ now \in Nat
        BY RefillType, Numbers DEF IInv, TypeOK
      <3>2. level' \in 0..Capacity
        BY <2>1, <3>1
      <3>3. now + (RefillTicks - Refill) \in Nat
        BY <1>2, <3>1, CapacityIsNat
      <3>4. QED BY <3>2, <3>3 DEF Capacity
    <2>3. until' \in [Endpoint -> Nat] /\ thread' \in [Endpoint -> Steps]
      BY <2>1, <2>2 DEF IInv, TypeOK, Steps
    <2>4. TypeOK'
      BY <2>1, <2>2, <2>3 DEF IInv, TypeOK
    <2>5. Retrying'
      BY <2>1 DEF IInv, TypeOK, Retrying
    <2>6. QED BY <2>1, <2>4, <2>5, WaitOK DEF IInv
  <1>3. QED BY <1>1, <1>2

\* The rest of a thread's steps change one entry of each of its functions.
LEMMA WaitType ==
  ASSUME TypeOK, NEW e \in Endpoint, NEW end \in Nat
  PROVE  [until EXCEPT ![e] = end] \in [Endpoint -> Nat]
         /\ [due EXCEPT ![e] = end] \in [Endpoint -> Nat]
  BY DEF TypeOK

LEMMA GivenUp ==
  ASSUME TypeOK, NEW e \in Endpoint,
         attempt' = attempt \/ attempt' = [attempt EXCEPT ![e] = 0]
  PROVE  /\ attempt' \in [Endpoint -> 0..MaxRetries]
         /\ \A f \in Endpoint : f # e => attempt'[f] = attempt[f]
  <1>1. CASE attempt' = attempt
    BY <1>1 DEF TypeOK
  <1>2. CASE attempt' = [attempt EXCEPT ![e] = 0]
    BY <1>2, Numbers DEF TypeOK
  <1>3. QED BY <1>1, <1>2

LEMMA TriedAgain ==
  ASSUME TypeOK, NEW e \in Endpoint, attempt[e] < MaxRetries,
         attempt' = [attempt EXCEPT ![e] = @ + 1]
  PROVE  /\ attempt' \in [Endpoint -> 0..MaxRetries]
         /\ \A f \in Endpoint : f # e => attempt'[f] = attempt[f]
  BY Numbers DEF TypeOK

\* What the steps that leave the bucket, the clock and the main thread alone keep.
LEMMA QuietOK ==
  ASSUME IInv, NEW e \in Endpoint, NEW step \in Steps, thread' = [thread EXCEPT ![e] = step],
         until' \in [Endpoint -> Nat], due' \in [Endpoint -> Nat],
         attempt' \in [Endpoint -> 0..MaxRetries], ended' \in [Endpoint -> Int \X Int],
         attempt' = attempt \/ step # "backoff",
         \A f \in Endpoint : f # e => attempt'[f] = attempt[f],
         step = "backoff" => attempt[e] < MaxRetries,
         stop' \in BOOLEAN, rateLimited' \in BOOLEAN, answered429' \in BOOLEAN,
         UNCHANGED <<now, level, refilled, grants, main, code, joining, patience, late, ctrlC>>
  PROVE  IInv'
  <1>1. thread' \in [Endpoint -> Steps]
    BY DEF IInv, TypeOK
  <1>2. TypeOK'
    BY <1>1 DEF IInv, TypeOK
  <1>3. Retrying'
    BY DEF IInv, TypeOK, Retrying
  <1>4. QED BY <1>2, <1>3, SameBucket DEF IInv, bucket

LEMMA ThreadOK ==
  ASSUME IInv, NEW e \in Endpoint, Thread(e)
  PROVE  IInv'
  <1> USE Numbers DEF IInv, Goes, Waits, GivesUp, bucket, events, timing, mainVars, history
  <1>0. \A step \in {"acquire", "throttled", "flight", "backoff", "limited", "stopping", "after",
                      "sleep", "gone", "failed"} : step \in Steps
    BY DEF Steps
  <1> TypeOK /\ now \in Nat /\ 0 \in 0..MaxRetries /\ 0 \in Nat
    BY DEF TypeOK
  <1>1. CASE Halts(e)
    <2>1. until' \in [Endpoint -> Nat] /\ thread' = [thread EXCEPT ![e] = "gone"]
      BY <1>1, WaitType DEF Halts
    <2>2. QED BY <1>0, <1>1, <2>1, QuietOK DEF Halts, TypeOK
  <1>2. CASE Begins(e)
    <2>1. /\ until' \in [Endpoint -> Nat] /\ thread' = [thread EXCEPT ![e] = "acquire"]
          /\ due' \in [Endpoint -> Nat]
      BY <1>2 DEF Begins, TypeOK
    <2>2. QED BY <1>0, <1>2, <2>1, QuietOK DEF Begins, TypeOK
  <1>3. CASE Acquires(e)
    BY <1>3, AcquiresOK
  <1>4. CASE Throttled(e)
    <2>1. PICK step \in {"after", "acquire"} :
            /\ thread' = [thread EXCEPT ![e] = step]
            /\ attempt' \in {attempt, [attempt EXCEPT ![e] = 0]}
      BY <1>4 DEF Throttled
    <2>2. /\ until' \in [Endpoint -> Nat] /\ attempt' \in [Endpoint -> 0..MaxRetries]
          /\ \A f \in Endpoint : f # e => attempt'[f] = attempt[f]
      <3>1. until' \in [Endpoint -> Nat]
        BY <1>4, WaitType DEF Throttled
      <3>2. attempt' = attempt \/ attempt' = [attempt EXCEPT ![e] = 0]
        BY <2>1
      <3>3. QED BY <3>1, <3>2, GivenUp
    <2>3. QED BY <1>0, <1>4, <2>1, <2>2, QuietOK DEF Throttled, TypeOK
  <1>5. CASE Answered(e)
    <2>1. PICK step \in {"after", "failed", "limited", "backoff"} :
            /\ thread' = [thread EXCEPT ![e] = step]
            /\ attempt' = attempt \/ (step = "after" /\ attempt' = [attempt EXCEPT ![e] = 0])
            /\ step = "backoff" => attempt[e] < MaxRetries
            /\ until' = until \/ until' = [until EXCEPT ![e] = now + Backoff]
            /\ answered429' = answered429 \/ answered429' = TRUE
      BY <1>5 DEF Answered, RetriesLeft
    <2>2. /\ until' \in [Endpoint -> Nat] /\ attempt' \in [Endpoint -> 0..MaxRetries]
          /\ \A f \in Endpoint : f # e => attempt'[f] = attempt[f]
      <3>1. now + Backoff \in Nat
        OBVIOUS
      <3>2. until' \in [Endpoint -> Nat]
        BY <2>1, <3>1 DEF TypeOK
      <3>3. QED BY <2>1, <3>2, GivenUp
    <2>3. answered429' \in BOOLEAN
      BY <2>1 DEF TypeOK
    <2>4. QED BY <1>0, <1>5, <2>1, <2>2, <2>3, QuietOK DEF Answered, TypeOK
  <1>6. CASE BacksOff(e)
    <2>1. PICK step \in {"after", "acquire"} : thread' = [thread EXCEPT ![e] = step]
      BY <1>6 DEF BacksOff
    <2>2. /\ until' \in [Endpoint -> Nat] /\ attempt' \in [Endpoint -> 0..MaxRetries]
          /\ \A f \in Endpoint : f # e => attempt'[f] = attempt[f]
      <3>1. until' \in [Endpoint -> Nat]
        BY <1>6, WaitType DEF BacksOff
      <3>2. CASE attempt' = [attempt EXCEPT ![e] = 0]
        BY <3>1, <3>2, GivenUp
      <3>3. CASE attempt' = [attempt EXCEPT ![e] = @ + 1]
        <4>1. attempt[e] < MaxRetries
          BY <1>6 DEF BacksOff, Retrying
        <4>2. QED BY <3>1, <3>3, <4>1, TriedAgain
      <3>4. QED BY <1>6, <3>2, <3>3 DEF BacksOff
    <2>3. QED BY <1>0, <1>6, <2>1, <2>2, QuietOK DEF BacksOff, TypeOK
  <1>7. CASE HandlesLimit(e)
    <2>1. PICK step \in {"after", "stopping"} :
            /\ thread' = [thread EXCEPT ![e] = step]
            /\ attempt' = attempt \/ (step = "after" /\ attempt' = [attempt EXCEPT ![e] = 0])
      BY <1>7 DEF HandlesLimit
    <2>2. /\ attempt' \in [Endpoint -> 0..MaxRetries]
          /\ \A f \in Endpoint : f # e => attempt'[f] = attempt[f]
      BY <2>1, GivenUp
    <2>3. stop' \in BOOLEAN /\ rateLimited' \in BOOLEAN
      BY <1>7 DEF HandlesLimit, Sets
    <2>4. QED BY <1>0, <1>7, <2>1, <2>2, <2>3, QuietOK DEF HandlesLimit, TypeOK
  <1>8. CASE Schedules(e)
    <2>1. NextDue(e) \in Nat
      BY DEF NextDue, TypeOK
    <2>2. /\ thread' = [thread EXCEPT ![e] = "sleep"]
          /\ until' \in [Endpoint -> Nat] /\ due' \in [Endpoint -> Nat]
      BY <1>8, <2>1, WaitType DEF Schedules
    <2>3. ended' \in [Endpoint -> Int \X Int]
      <3>1. now \in Int /\ ended[e][2] \in Int /\ ended' = [ended EXCEPT ![e] = <<ended[e][2], now>>]
        BY <1>8 DEF Schedules, TypeOK
      <3>2. <<ended[e][2], now>> \in Int \X Int
        BY <3>1
      <3> DEFINE last == <<ended[e][2], now>>
      <3> HIDE DEF last
      <3>3. ended \in [Endpoint -> Int \X Int] /\ last \in Int \X Int
            /\ ended' = [ended EXCEPT ![e] = last]
        BY <3>1, <3>2 DEF TypeOK, last
      <3>4. QED BY <3>3
    <2>4. QED BY <1>0, <1>8, <2>2, <2>3, QuietOK DEF Schedules, TypeOK
  <1>9. QED BY <1>1, <1>2, <1>3, <1>4, <1>5, <1>6, <1>7, <1>8 DEF Thread

LEMMA MainOK ==
  ASSUME IInv, Tick \/ CtrlC \/ Main
  PROVE  IInv'
  <1> USE Numbers DEF IInv, Joins, bucket, events, timing, mainVars, history
  <1>1. CASE Tick
    BY <1>1, SameBucket DEF Tick, TypeOK, Retrying
  <1>2. CASE CtrlC
    <2>1. /\ main' \in {"leave", "exited"} /\ code' \in {code, Traceback}
          /\ ctrlC' = ctrlC + 1 /\ joining' \in {joining, 1}
          /\ patience' \in {patience, now + JoinTimeout}
          /\ UNCHANGED <<now, level, refilled, grants, rateLimited, thread, until, due, ended,
                         attempt, late, answered429>>
      BY <1>2 DEF CtrlC
    <2>2. stop' \in BOOLEAN
      BY <1>2 DEF CtrlC, TypeOK
    <2>3. TypeOK'
      BY <2>1, <2>2 DEF TypeOK
    <2>4. QED BY <2>1, <2>3, SameBucket DEF Retrying
  <1>3. CASE NoticesStop
    BY <1>3, SameBucket DEF NoticesStop, TypeOK, Retrying
  <1>4. CASE JoinNext
    BY <1>4, SameBucket DEF JoinNext, TypeOK, Retrying
  <1>5. CASE Returns
    BY <1>5, SameBucket DEF Returns, TypeOK, Retrying
  <1>6. QED BY <1>1, <1>2, <1>3, <1>4, <1>5 DEF Main

\* The invariant both theorems follow from.
THEOREM Invariance == Spec => []IInv
  <1>1. IInv /\ [Next]_vars => IInv'
    <2> SUFFICES ASSUME IInv, [Next]_vars PROVE IInv' OBVIOUS
    <2>1. CASE UNCHANGED vars
      <3>1. TypeOK' /\ Retrying' /\ UNCHANGED bucket
        BY <2>1 DEF vars, bucket, events, timing, mainVars, history, IInv, TypeOK, Retrying
      <3>2. QED BY <3>1, SameBucket DEF IInv
    <2>2. CASE Next
      BY <2>2, ThreadOK, MainOK DEF Next
    <2>3. QED BY <2>1, <2>2
  <1>2. QED BY InitOK, <1>1, PTL DEF Spec

-----------------------------------------------------------------------------

\* Type correctness: no level below zero or above the bucket, no attempt beyond
\* the last retry, no join past the last thread.
THEOREM TypeCorrect == Spec => []TypeOK
  BY Invariance, PTL DEF IInv

\* However many threads share the bucket and however late they are, no window
\* sees more requests than the bucket holds plus its refill (rate_limiter.py:3-7).
THEOREM RateBounded == Spec => []RateBound
  BY Invariance, PTL DEF IInv

-----------------------------------------------------------------------------
(* What the two events tell, and to whom.                                  *)

\* A request that went out late is its thread's last: none waits for a token.
LastRequest ==
  \A e \in Endpoint :
    /\ late[e] <= 1
    /\ late[e] = 1 => stop /\ thread[e] \notin {"offset", "sleep", "acquire", "throttled"}

\* Only a 429 sets rate_limited_event, and sets it first.
FirstThings ==
  /\ rateLimited => answered429
  /\ \A e \in Endpoint : thread[e] \in {"limited", "stopping"} => answered429
  /\ \A e \in Endpoint : thread[e] = "stopping" => rateLimited
  /\ stop /\ ctrlC = 0 => rateLimited
  /\ main \in {"join", "leave"} => stop
  /\ main = "leave" => ctrlC # 0
  /\ main # "exited" => code = Running

\* The round under way is due after the end of the one before it.
Spaced ==
  \A e \in Endpoint :
    /\ ended[e][2] <= due[e]
    /\ thread[e] = "offset" => ended[e] = <<-Interval[e], -Interval[e]>>
    /\ thread[e] = "sleep" => ended[e][1] + Interval[e] <= until[e]

Told == LastRequest /\ FirstThings /\ Spaced /\ ExitCodeTellsWhy

LEMMA InitTold == Init => Told
  BY Numbers DEF Init, Told, LastRequest, FirstThings, Spaced, ExitCodeTellsWhy

LEMMA LastRequestOK ==
  ASSUME TypeOK, LastRequest, NEW e \in Endpoint, Thread(e)
  PROVE  LastRequest'
  <1> USE DEF TypeOK, LastRequest, Goes, Waits, GivesUp, bucket, events, timing, mainVars, history
  <1>1. CASE Halts(e)
    BY <1>1 DEF Halts
  <1>2. CASE Begins(e)
    BY <1>2 DEF Begins
  <1>3. CASE Acquires(e)
    <2>1. late[e] = 0
      BY <1>3 DEF Acquires
    <2>2. CASE Refill >= RefillTicks
      <3>1. /\ late' = [late EXCEPT ![e] = IF stop THEN @ + 1 ELSE @] /\ stop' = stop
            /\ thread' = [thread EXCEPT ![e] = "flight"]
        BY <1>3, <2>2 DEF Acquires
      <3>2. late'[e] = (IF stop THEN 1 ELSE 0) /\ thread'[e] = "flight"
        BY <2>1, <3>1
      <3>3. \A f \in Endpoint : f # e => late'[f] = late[f] /\ thread'[f] = thread[f]
        BY <3>1
      <3>4. QED BY <3>1, <3>2, <3>3
    <2>3. CASE ~(Refill >= RefillTicks)
      BY <1>3, <2>1, <2>3 DEF Acquires
    <2>4. QED BY <2>2, <2>3
  <1>4. CASE Throttled(e)
    BY <1>4 DEF Throttled
  <1>5. CASE Answered(e)
    BY <1>5 DEF Answered
  <1>6. CASE BacksOff(e)
    BY <1>6 DEF BacksOff, StopSeen
  <1>7. CASE HandlesLimit(e)
    BY <1>7 DEF HandlesLimit, Sets
  <1>8. CASE Schedules(e)
    BY <1>8 DEF Schedules
  <1>9. QED BY <1>1, <1>2, <1>3, <1>4, <1>5, <1>6, <1>7, <1>8 DEF Thread

LEMMA FirstThingsOK ==
  ASSUME TypeOK, FirstThings, NEW e \in Endpoint, Thread(e)
  PROVE  FirstThings'
  <1> USE DEF TypeOK, FirstThings, Goes, Waits, GivesUp, bucket, events, timing, mainVars, history
  <1>1. CASE Halts(e)
    BY <1>1 DEF Halts
  <1>2. CASE Begins(e)
    BY <1>2 DEF Begins
  <1>3. CASE Acquires(e)
    BY <1>3 DEF Acquires
  <1>4. CASE Throttled(e)
    BY <1>4 DEF Throttled
  <1>5. CASE Answered(e)
    BY <1>5 DEF Answered
  <1>6. CASE BacksOff(e)
    BY <1>6 DEF BacksOff
  <1>7. CASE HandlesLimit(e)
    BY <1>7 DEF HandlesLimit, Sets, FirstEvent
  <1>8. CASE Schedules(e)
    BY <1>8 DEF Schedules
  <1>9. QED BY <1>1, <1>2, <1>3, <1>4, <1>5, <1>6, <1>7, <1>8 DEF Thread

LEMMA SpacedOK ==
  ASSUME TypeOK, Spaced, NEW e \in Endpoint, Thread(e)
  PROVE  Spaced'
  <1> USE Numbers DEF TypeOK, Spaced, Goes, Waits, GivesUp, bucket, events, timing, mainVars,
                      history
  <1>1. CASE Halts(e)
    BY <1>1 DEF Halts
  <1>2. CASE Begins(e)
    BY <1>2 DEF Begins
  <1>3. CASE Acquires(e)
    BY <1>3 DEF Acquires
  <1>4. CASE Throttled(e)
    BY <1>4 DEF Throttled
  <1>5. CASE Answered(e)
    BY <1>5 DEF Answered
  <1>6. CASE BacksOff(e)
    BY <1>6 DEF BacksOff
  <1>7. CASE HandlesLimit(e)
    BY <1>7 DEF HandlesLimit
  <1>8. CASE Schedules(e)
    <2>1. /\ ended' = [ended EXCEPT ![e] = <<@[2], now>>]
          /\ due' = [due EXCEPT ![e] = NextDue(e)] /\ until' = [until EXCEPT ![e] = NextDue(e)]
          /\ thread' = [thread EXCEPT ![e] = "sleep"]
      BY <1>8 DEF Schedules
    <2>2. /\ ended'[e][1] = ended[e][2] /\ ended'[e][2] = now
          /\ due'[e] = NextDue(e) /\ until'[e] = NextDue(e) /\ thread'[e] = "sleep"
      BY <2>1
    <2>3. NextDue(e) >= now /\ NextDue(e) >= due[e] + Interval[e] /\ NextDue(e) \in Nat
      BY DEF NextDue
    <2>4. ended[e][2] \in Int /\ ended[e][2] <= due[e] /\ due[e] \in Nat /\ Interval[e] \in Nat
      OBVIOUS
    <2>5. \A f \in Endpoint : f # e => /\ ended'[f] = ended[f] /\ due'[f] = due[f]
                                       /\ until'[f] = until[f] /\ thread'[f] = thread[f]
      BY <2>1
    <2>6. ended'[e][2] <= due'[e] /\ ended'[e][1] + Interval[e] <= until'[e]
      BY <2>2, <2>3, <2>4
    <2>7. QED BY <2>2, <2>5, <2>6
  <1>9. QED BY <1>1, <1>2, <1>3, <1>4, <1>5, <1>6, <1>7, <1>8 DEF Thread

LEMMA ToldMain ==
  ASSUME TypeOK, Told, Tick \/ CtrlC \/ Main
  PROVE  Told'
  <1> USE DEF Joins, bucket, events, timing, mainVars, history
  <1>1. LastRequest' /\ Spaced'
    <2>1. stop => stop'
      BY DEF Tick, CtrlC, Main, NoticesStop, JoinNext, Returns
    <2>2. UNCHANGED <<thread, until, due, ended, late>>
      BY DEF Tick, CtrlC, Main, NoticesStop, JoinNext, Returns
    <2>3. QED BY <2>1, <2>2 DEF Told, LastRequest, Spaced
  <1>2. FirstThings'
    BY DEF Tick, CtrlC, Main, NoticesStop, JoinNext, Returns, Told, FirstThings, TypeOK
  <1>3. ExitCodeTellsWhy'
    BY DEF Tick, CtrlC, Main, NoticesStop, JoinNext, Returns, Told, FirstThings,
           ExitCodeTellsWhy, TypeOK, EXIT_RATE_LIMITED, Traceback
  <1>4. QED BY <1>1, <1>2, <1>3 DEF Told

THEOREM AlwaysTold == Spec => []Told
  <1>1. TypeOK /\ Told /\ [Next]_vars => Told'
    <2> SUFFICES ASSUME TypeOK, Told, [Next]_vars PROVE Told' OBVIOUS
    <2>1. CASE UNCHANGED vars
      BY <2>1 DEF vars, events, timing, mainVars, history, Told, LastRequest, FirstThings, Spaced,
                  ExitCodeTellsWhy
    <2>2. CASE Tick \/ CtrlC \/ Main
      BY <2>2, ToldMain
    <2>3. ASSUME NEW e \in Endpoint, Thread(e) PROVE Told'
      <3>1. main # "exited" /\ main' = main
        BY <2>3 DEF Thread, Halts, Begins, Acquires, Throttled, Answered, BacksOff, HandlesLimit,
                    Schedules, mainVars
      <3>2. ExitCodeTellsWhy'
        BY <3>1 DEF ExitCodeTellsWhy
      <3>3. QED BY <2>3, <3>2, LastRequestOK, FirstThingsOK, SpacedOK DEF Told
    <2>4. QED BY <2>1, <2>2, <2>3 DEF Next
  <1>2. QED BY InitTold, <1>1, TypeCorrect, PTL DEF Spec

\* After the stop at most the request that was past its checks goes out, in each
\* thread, and no retry of it (poller.py:3-7, client.py:101-134).
THEOREM LateRequests == Spec => []OneLateRequest
  <1>1. Told => OneLateRequest
    BY DEF Told, LastRequest, OneLateRequest
  <1>2. QED BY AlwaysTold, <1>1, PTL

\* Exit code 75 and a 429 go together unless Ctrl-C came in between, since the
\* first event is set before the second is seen (client.py:37-54, poller.py:223-228).
THEOREM ExitCodes == Spec => []ExitCodeTellsWhy
  BY AlwaysTold, PTL DEF Told

\* A thread that fell behind starts one round at once, and no second one before
\* its interval is over (poller.py:118-124).
THEOREM NeverABurst == Spec => NoBurst
  <1> DEFINE Fires == \A e \in Endpoint :
               thread[e] \in {"offset", "sleep"} /\ thread'[e] = "acquire"
                 => now - ended[e][1] >= Interval[e]
  <1>1. ASSUME TypeOK, Told, [Next]_vars, NEW e \in Endpoint,
               thread[e] \in {"offset", "sleep"}, thread'[e] = "acquire"
        PROVE  now - ended[e][1] >= Interval[e]
    <2>1. PICK f \in Endpoint : Thread(f)
      <3>1. thread' # thread
        BY <1>1
      <3>2. QED BY <1>1, <3>1
            DEF Next, vars, Tick, CtrlC, Main, NoticesStop, JoinNext, Returns
    <2>2. f = e
      BY <1>1, <2>1 DEF Thread, Halts, Begins, Acquires, Throttled, Answered, BacksOff,
                        HandlesLimit, Schedules, Goes, GivesUp, TypeOK
    <2>3. Begins(e)
      BY <1>1, <2>1, <2>2 DEF Thread, Halts, Begins, Acquires, Throttled, Answered, BacksOff,
                              HandlesLimit, Schedules, Goes, GivesUp, TypeOK
    <2>4. now \in Nat /\ until[e] \in Nat /\ ended[e][1] \in Int /\ Interval[e] \in Nat
      BY <1>1, Numbers DEF TypeOK
    <2>5. CASE thread[e] = "offset"
      BY <1>1, <2>4, <2>5, Numbers DEF Told, Spaced
    <2>6. CASE thread[e] = "sleep"
      BY <1>1, <2>3, <2>4, <2>6 DEF Begins, Over, Told, Spaced
    <2>7. QED BY <1>1, <2>5, <2>6
  <1>2. TypeOK /\ Told /\ [Next]_vars => Fires
    BY <1>1
  <1>3. TypeOK /\ Told /\ [Next]_vars => [Fires]_vars
    BY <1>2
  <1>4. QED BY <1>3, AlwaysTold, TypeCorrect, PTL DEF Spec, NoBurst

=============================================================================
