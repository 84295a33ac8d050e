--------------------------- MODULE RpcClient_proofs ---------------------------
(***************************************************************************)
(* The safety of RpcClient for any number of retries, calls and restarts:  *)
(* the answer a call returns is its own, an outdated cookie costs one      *)
(* attempt per restart, and both transports implement RpcCall.             *)
(***************************************************************************)
EXTENDS RpcClient, SequenceTheorems, TLAPS

\* An attempt is under way.
Trying == pc \in {"roundtrip", "connect", "await"}

\* Only the request that is waited for is on the connection, or its answer is.
LinkClean ==
  /\ pc # "await" => inbox = <<>> /\ wire = <<>>
  /\ pc = "await" => conn = "open"
  /\ pc = "connect" => conn = "none"
  /\ Len(inbox) + Len(wire) <= 1
  /\ \A i \in DOMAIN inbox : inbox[i].id = id /\ inbox[i].auth = auth
  /\ \A i \in DOMAIN wire : wire[i].id = id

\* A refused request carried a cookie older than the node's.
Refused ==
  /\ conn # "none" \/ pc = "connect" => refusals <= auth
  /\ refusals <= cookie
  /\ node = "down" => cookie < MaxRestarts
  /\ \A i \in DOMAIN wire : wire[i].kind = "unauthorized" => auth < cookie

\* Where the call stands.
CallShape ==
  /\ outcome = "pending" <=> pc # "idle"
  /\ pc # "idle" => id >= 1
  /\ pc = "backoff" => attempt < MaxRetries
  /\ Trying => broken <= 1

IInv == TypeOK /\ LinkClean /\ Refused /\ CallShape /\ AnswerIsOurs

-----------------------------------------------------------------------------

LEMMA NoneSent ==
  ASSUME NEW S
  PROVE  <<>> \in Seq(S) /\ Len(<<>>) = 0 /\ DOMAIN <<>> = {}
  OBVIOUS

LEMMA OneSent ==
  ASSUME NEW S, NEW e \in S
  PROVE  /\ Append(<<>>, e) = <<e>> /\ <<e>> \in Seq(S)
         /\ Len(<<e>>) = 1 /\ <<e>>[1] = e /\ DOMAIN <<e>> = {1}
  OBVIOUS

LEMMA OneWaits ==
  ASSUME NEW S, NEW s \in Seq(S), s # <<>>, Len(s) <= 1
  PROVE  /\ Len(s) = 1 /\ DOMAIN s = {1} /\ Head(s) = s[1] /\ s[1] \in S
         /\ Tail(s) = <<>>
  <1>1. Len(s) = 1 /\ DOMAIN s = {1} /\ Head(s) = s[1] /\ s[1] \in S
    BY EmptySeq, HeadTailProperties
  <1>2. Tail(s) \in Seq(S) /\ Len(Tail(s)) = 0
    BY <1>1, HeadTailProperties
  <1>3. QED BY <1>1, <1>2, EmptySeq

LEMMA Lengths ==
  ASSUME NEW S, NEW s \in Seq(S)
  PROVE  Len(s) \in Nat /\ (s = <<>> <=> Len(s) = 0)
  BY EmptySeq, LenProperties

LEMMA Bounds == MaxRetries \in Nat /\ MaxCalls \in Nat /\ MaxRestarts \in Nat
  BY RpcAssumption DEF RpcAssumption

LEMMA InitOK == Init => IInv
  <1> SUFFICES ASSUME Init PROVE IInv
    OBVIOUS
  <1>1. inbox \in Seq(Request) /\ wire \in Seq(Reply)
    BY NoneSent DEF Init
  <1>2. /\ transport \in Transports /\ node = "up" /\ conn = "none"
        /\ cookie \in 0..MaxRestarts /\ auth \in 0..cookie
        /\ pc = "idle" /\ outcome = "none" /\ broken \in 0..2 /\ refusals \in Nat
        /\ id \in 0..MaxCalls /\ answered \in 0..MaxCalls /\ attempt \in 0..MaxRetries
    BY Bounds DEF Init
  <1>5. held \in BOOLEAN /\ optIn \in BOOLEAN /\ reused \in BOOLEAN
    BY DEF Init
  <1>3. LinkClean /\ Refused /\ CallShape /\ AnswerIsOurs
    BY NoneSent, Bounds DEF Init, LinkClean, Refused, CallShape, AnswerIsOurs, Trying
  <1>4. QED BY <1>1, <1>2, <1>3, <1>5 DEF IInv, TypeOK

\* A failed attempt leaves the connection closed, whoever closed it.
LEMMA BreaksOffOK ==
  ASSUME IInv, Trying, BreaksOff
  PROVE  IInv'
  <1> USE Bounds DEF IInv, BreaksOff, Close, Trying, bitcoind, call
  <1>1. TypeOK'
    <2>1. inbox' \in Seq(Request) /\ wire' \in Seq(Reply)
      BY NoneSent
    <2>2. UNCHANGED <<transport, node, cookie, auth, refusals, id, optIn, reused, answered>>
      BY DEF Fails
    <2>3. broken' \in 0..2 /\ attempt' = attempt
      BY DEF TypeOK, CallShape, Fails
    <2>4. pc' \in {"roundtrip", "backoff", "idle"} /\ outcome' \in {outcome, "RpcCliError"}
      BY DEF Fails
    <2>5. QED BY <2>1, <2>2, <2>3, <2>4 DEF TypeOK
  <1>2. LinkClean' /\ Refused'
    BY DEF TypeOK, LinkClean, Refused, MayReconnect, Fails
  <1>3. CallShape' /\ AnswerIsOurs'
    BY DEF TypeOK, CallShape, AnswerIsOurs, MayReconnect, Fails, RetriesLeft
  <1>4. QED BY <1>1, <1>2, <1>3

LEMMA NodeOK ==
  ASSUME IInv, Stops \/ ComesUp \/ DropsIdle \/ Answers
  PROVE  IInv'
  <1> USE Bounds DEF IInv, bitcoind, link, connection, call, Trying
  <1>1. CASE Stops \/ ComesUp \/ DropsIdle
    <2>1. CASE Stops
      <3>1. /\ inbox' = <<>> /\ node' = "down" /\ cookie < MaxRestarts /\ held' = FALSE
            /\ UNCHANGED <<transport, cookie, wire, conn, auth, pc, id, optIn, attempt, reused,
                           outcome, answered, broken, refusals>>
        BY <2>1 DEF Stops
      <3>2. inbox' \in Seq(Request) /\ Len(inbox') = 0 /\ DOMAIN inbox' = {}
        BY <3>1, NoneSent
      <3>3. Len(inbox) \in Nat /\ Len(wire) \in Nat
        BY Lengths DEF TypeOK
      <3>4. TypeOK'
        BY <3>1, <3>2 DEF TypeOK
      <3>5. LinkClean'
        BY <3>1, <3>2, <3>3 DEF LinkClean
      <3>6. QED BY <3>1, <3>4, <3>5 DEF Refused, CallShape, AnswerIsOurs
    <2>2. CASE ComesUp
      <3>1. /\ node' \in {"warmup", "up"} /\ cookie' \in {cookie, cookie + 1}
            /\ cookie' = cookie \/ node = "down"
            /\ UNCHANGED <<transport, held, inbox, wire, conn, auth, pc, id, optIn, attempt,
                           reused, outcome, answered, broken, refusals>>
        BY <2>2 DEF ComesUp
      <3>2. cookie' <= MaxRestarts
        BY <2>2 DEF ComesUp, TypeOK, Refused
      <3>3. TypeOK'
        BY <3>1, <3>2 DEF TypeOK
      <3>4. QED
        BY <3>1, <3>3 DEF TypeOK, LinkClean, Refused, CallShape, AnswerIsOurs
    <2>3. CASE DropsIdle
      BY <2>3 DEF DropsIdle, TypeOK, LinkClean, Refused, CallShape, AnswerIsOurs
    <2>4. QED BY <1>1, <2>1, <2>2, <2>3
  <1>2. CASE Answers
    <2>1. PICK kind \in AnswersOf(Head(inbox)), closes \in BOOLEAN :
            /\ wire' = Append(wire, [id |-> Head(inbox).id, kind |-> kind, closes |-> closes])
            /\ inbox' = Tail(inbox) /\ held' = ~closes
      BY <1>2 DEF Answers
    <2>2. /\ pc = "await" /\ wire = <<>>
          /\ inbox[1] \in Request /\ Tail(inbox) = <<>>
          /\ Head(inbox) = inbox[1] /\ Head(inbox).id = id /\ Head(inbox).auth = auth
      <3>1. pc = "await" /\ inbox # <<>> /\ inbox \in Seq(Request) /\ Len(inbox) >= 1
        BY <1>2, Lengths DEF Answers, LinkClean, TypeOK
      <3> wire \in Seq(Reply) /\ Len(inbox) + Len(wire) <= 1
        BY DEF TypeOK, LinkClean
      <3> HIDE DEF IInv
      <3>2. Len(inbox) \in Nat /\ Len(wire) \in Nat
        BY <3>1, Lengths
      <3>3. Len(inbox) <= 1 /\ Len(wire) = 0
        BY <3>1, <3>2
      <3>4. wire = <<>> /\ DOMAIN inbox = {1} /\ Head(inbox) = inbox[1]
            /\ inbox[1] \in Request /\ Tail(inbox) = <<>>
        BY <3>1, <3>3, Lengths, OneWaits
      <3>5. QED BY <3>1, <3>3, <3>4 DEF LinkClean, IInv
    <2>3. kind \in Kinds /\ (kind = "unauthorized" => auth < cookie)
      BY <2>2 DEF AnswersOf, Kinds, TypeOK
    <2> DEFINE answer == [id |-> id, kind |-> kind, closes |-> closes]
    <2>4. answer \in Reply
      BY <2>2, <2>3 DEF Request, Reply
    <2>5. wire' = <<answer>> /\ inbox' = <<>>
      BY <2>1, <2>2, <2>4, OneSent
    <2>6. UNCHANGED <<transport, node, cookie, conn, auth, pc, id, optIn, attempt, reused,
                      outcome, answered, broken, refusals>>
      BY <1>2 DEF Answers
    <2>7. TypeOK'
      <3>1. inbox' \in Seq(Request) /\ wire' \in Seq(Reply)
        BY <2>4, <2>5, OneSent, NoneSent
      <3>2. QED BY <2>1, <2>6, <3>1 DEF TypeOK
    <2>8. LinkClean' /\ Refused' /\ CallShape' /\ AnswerIsOurs'
      BY <2>2, <2>3, <2>4, <2>5, <2>6, OneSent, NoneSent DEF LinkClean, Refused, CallShape, AnswerIsOurs, TypeOK
    <2>9. QED BY <2>7, <2>8
  <1>3. QED BY <1>1, <1>2

LEMMA ReceivesOK ==
  ASSUME IInv, Receives
  PROVE  IInv'
  <1> USE Bounds DEF IInv, bitcoind, Trying
  <1> DEFINE answer == Head(wire)
  <1>1. /\ pc = "await" /\ wire # <<>> /\ inbox = <<>> /\ conn = "open"
        /\ answer = wire[1] /\ answer \in Reply /\ Tail(wire) = <<>>
        /\ answer.id = id /\ (answer.kind = "unauthorized" => auth < cookie)
        /\ refusals <= auth
    <2>1. pc = "await" /\ wire # <<>> /\ wire \in Seq(Reply) /\ Len(wire) >= 1 /\ conn = "open"
      BY Lengths DEF Receives, LinkClean, TypeOK
    <2> inbox \in Seq(Request) /\ Len(inbox) + Len(wire) <= 1
      BY DEF TypeOK, LinkClean
    <2> HIDE DEF IInv
    <2>2. Len(inbox) \in Nat /\ Len(wire) \in Nat
      BY <2>1, Lengths
    <2>3. Len(wire) <= 1 /\ Len(inbox) = 0
      BY <2>1, <2>2
    <2>4. inbox = <<>> /\ DOMAIN wire = {1} /\ answer = wire[1]
          /\ answer \in Reply /\ Tail(wire) = <<>>
      BY <2>1, <2>3, Lengths, OneWaits
    <2>5. QED BY <2>1, <2>3, <2>4 DEF LinkClean, Refused, IInv
  <1>2. /\ conn' \in {"none", "dormant", "open"} /\ held' \in BOOLEAN
        /\ inbox' = <<>> /\ wire' = <<>>
        /\ answer.kind = "unauthorized" => conn' = "none"
    BY <1>1 DEF Receives, After, TypeOK
  <1>3. UNCHANGED <<transport, node, cookie, auth, broken>>
    BY DEF Receives
  <1>4. CASE answer.kind = "result" \/ (answer.kind = "error" /\ FailsFast)
    <2>1. /\ pc' = "idle" /\ outcome' \in {"result", "RpcError"} /\ answered' = id
          /\ UNCHANGED <<id, optIn, attempt, reused, refusals>>
      BY <1>1, <1>4 DEF Receives
    <2>2. QED BY <1>1, <1>2, <1>3, <2>1
          DEF TypeOK, LinkClean, Refused, CallShape, AnswerIsOurs
  <1>5. CASE ~(answer.kind = "result" \/ (answer.kind = "error" /\ FailsFast))
    <2>1. /\ Fails
          /\ refusals' = refusals + (IF answer.kind = "unauthorized" THEN 1 ELSE 0)
      BY <1>1, <1>5 DEF Receives
    <2>2. refusals' \in Nat /\ refusals' <= cookie /\ (conn' # "none" => refusals' <= auth)
      BY <1>1, <1>2, <2>1 DEF TypeOK, Refused
    <2>3. QED BY <1>1, <1>2, <1>3, <2>1, <2>2
          DEF TypeOK, LinkClean, Refused, CallShape, AnswerIsOurs, Fails, RetriesLeft
  <1>6. QED BY <1>4, <1>5

LEMMA ClientOK ==
  ASSUME IInv, Client
  PROVE  IInv'
  <1> USE Bounds DEF IInv, bitcoind, link, connection, Trying
  <1>1. CASE Ask
    BY <1>1 DEF Ask, Attempt, TypeOK, LinkClean, Refused, CallShape, AnswerIsOurs
  <1>2. CASE Retries
    BY <1>2 DEF Retries, Attempt, TypeOK, LinkClean, Refused, CallShape, AnswerIsOurs
  <1>3. CASE ReadsCookie
    BY <1>3 DEF ReadsCookie, Fails, RetriesLeft, call, TypeOK, LinkClean, Refused, CallShape,
                AnswerIsOurs
  <1>4. CASE Sends
    <2>1. /\ pc # "idle" /\ id \in 1..MaxCalls /\ inbox = <<>> /\ wire = <<>>
          /\ auth \in 0..MaxRestarts
      BY <1>4 DEF Sends, LinkClean, CallShape, TypeOK
    <2>2. /\ inbox' = <<[id |-> id, auth |-> auth]>>
          /\ [id |-> id, auth |-> auth] \in Request
      BY <1>4, <2>1, OneSent DEF Sends, Request
    <2>3. /\ pc' = "await" /\ conn' = "open" /\ held' = TRUE /\ refusals <= auth
          /\ UNCHANGED <<transport, node, cookie, wire, auth, id, optIn, attempt, reused,
                         outcome, answered, broken, refusals>>
      BY <1>4 DEF Sends, call, Refused
    <2>4. TypeOK'
      BY <2>2, <2>3, OneSent DEF TypeOK
    <2>5. LinkClean' /\ Refused' /\ CallShape' /\ AnswerIsOurs'
      BY <1>4, <2>1, <2>2, <2>3, OneSent, NoneSent DEF Sends, LinkClean, Refused, CallShape, AnswerIsOurs, TypeOK
    <2>6. QED BY <2>4, <2>5
  <1>5. CASE SendFails \/ NoAnswer
    BY <1>5, BreaksOffOK DEF SendFails, NoAnswer
  <1>6. CASE Receives
    BY <1>6, ReceivesOK
  <1>7. QED BY <1>1, <1>2, <1>3, <1>4, <1>5, <1>6 DEF Client

\* The invariant the properties follow from.
THEOREM Invariance == Spec => []IInv
  <1>1. IInv /\ [Next]_vars => IInv'
    <2> SUFFICES ASSUME IInv, [Next]_vars PROVE IInv' OBVIOUS
    <2>1. CASE UNCHANGED vars
      BY <2>1 DEF vars, bitcoind, link, connection, call, IInv, TypeOK, LinkClean, Refused,
                  CallShape, AnswerIsOurs, Trying
    <2>2. CASE Next
      BY <2>2, NodeOK, ClientOK DEF Next
    <2>3. QED BY <2>1, <2>2
  <1>2. QED BY InitOK, <1>1, PTL DEF Spec

-----------------------------------------------------------------------------

\* Type correctness, with the bound of one reconnection per attempt.
THEOREM TypeCorrect == Spec => []TypeOK
  BY Invariance, PTL DEF IInv

\* No call returns the answer to another one's request, although client.py never
\* compares ids (client.py:241-284).
THEOREM AnswersAreOurs == Spec => []AnswerIsOurs
  BY Invariance, PTL DEF IInv

\* A restart costs at most one attempt of all calls made after it (client.py:206-221).
THEOREM RefusalsBounded == Spec => []OneRefusalPerRestart
  <1>1. IInv => OneRefusalPerRestart
    BY DEF IInv, Refused, OneRefusalPerRestart
  <1>2. QED BY Invariance, <1>1, PTL

-----------------------------------------------------------------------------

\* A failed attempt is RpcCall's Fail, or its End when no retry is left.
LEMMA FailsImplements ==
  ASSUME IInv, Trying, Fails
  PROVE  Promise!Next
  BY Bounds DEF IInv, TypeOK, CallShape, Trying, Fails, RetriesLeft,
     Promise!Next, Promise!Fail, Promise!End

LEMMA StepImplements ==
  ASSUME IInv, [Next]_vars
  PROVE  [Promise!Next]_(Promise!vars)
  <1> USE DEF Promise!vars
  <1>1. CASE UNCHANGED vars
    BY <1>1 DEF vars, call
  <1>2. CASE Stops \/ ComesUp \/ DropsIdle \/ Answers \/ Sends
    BY <1>2 DEF Stops, ComesUp, DropsIdle, Answers, Sends, call
  <1>3. CASE Ask
    BY <1>3 DEF Ask, Attempt, IInv, TypeOK, CallShape, Promise!Next, Promise!Ask
  <1>4. CASE Retries
    BY <1>4 DEF Retries, Attempt
  <1>5. CASE ReadsCookie \/ SendFails \/ NoAnswer
    <2>1. Fails \/ (UNCHANGED call /\ pc # "backoff" /\ pc' # "backoff")
      BY <1>5 DEF ReadsCookie, SendFails, NoAnswer, BreaksOff
    <2>2. Trying
      BY <1>5 DEF ReadsCookie, SendFails, NoAnswer, Trying
    <2>3. QED BY <2>1, <2>2, FailsImplements DEF call
  <1>6. CASE Receives
    <2>1. \/ Fails
          \/ /\ pc' = "idle" /\ UNCHANGED <<id, optIn, attempt>>
             /\ outcome' = "result" \/ (FailsFast /\ outcome' = "RpcError")
      BY <1>6 DEF Receives
    <2>2. Trying /\ outcome = "pending"
      BY <1>6 DEF Receives, Trying, IInv, CallShape
    <2>3. QED BY <2>1, <2>2, <1>6, FailsImplements
          DEF FailsFast, Receives, Promise!Next, Promise!End
  <1>7. QED BY <1>1, <1>2, <1>3, <1>4, <1>5, <1>6 DEF Next, Client

\* Whichever the transport, a call keeps RpcCall's promise (client.py:19-21, 101-122,
\* 304-330).
THEOREM Implements == Spec => ImplementsRpcCall
  <1>1. Init => Promise!Init
    BY DEF Init, Promise!Init
  <1>2. QED BY <1>1, StepImplements, Invariance, PTL DEF Spec, ImplementsRpcCall, Promise!Spec

=============================================================================
