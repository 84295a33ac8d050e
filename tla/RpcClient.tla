------------------------------ MODULE RpcClient ------------------------------
(***************************************************************************)
(* One thread's calls through rpc/client.py, over bitcoin-cli or over its  *)
(* own kept-alive HTTP connection, to a bitcoind that restarts (and        *)
(* rotates its cookie), warms up, drops idle connections, answers late,    *)
(* with an error, or with something that is no JSON-RPC reply.             *)
(*                                                                         *)
(* bitcoin-cli connects anew for every attempt: it is modelled as the same *)
(* round trip on a connection that no attempt leaves behind.  A connection *)
(* is never shared (_http_connection), so one client stands for all.       *)
(***************************************************************************)
EXTENDS Naturals, Sequences

CONSTANTS
  MaxRetries,          \* rpc.max_cli_retries
  MaxCalls,            \* bound: calls of the thread
  MaxRestarts          \* bound: restarts of bitcoind

ASSUME RpcAssumption == {MaxRetries, MaxCalls, MaxRestarts} \subseteq Nat

\* The wrappers, and those of them that pass retry_rpc_errors=False.
Method == {"getblockcount", "getblockhash", "getblock", "getblockheader", "getchaintips",
           "getnetworkinfo", "getrawmempool", "getrawtransaction", "gettxout",
           "gettxspendingprevout"}
FailFast == {"getrawtransaction", "gettxout", "gettxspendingprevout"}

Transports == {"cli", "http"}        \* rpc.transport
Kinds == {"result", "error", "unauthorized", "garbage"}
Request == [id : 1..MaxCalls, auth : 0..MaxRestarts]
Reply == [id : 1..MaxCalls, kind : Kinds, closes : BOOLEAN]

VARIABLES
  transport,
  \* bitcoind
  node, cookie,        \* its state; which cookie it takes (counted by restart)
  held,                \* it still holds the client's connection
  inbox, wire,         \* on that connection: requests it has read, answers on their way
  \* _HttpRpcConnection: _conn ("dormant": no socket, http.client opens one) and _auth
  conn, auth,
  \* the call
  pc, id, optIn,
  attempt, reused,     \* of _http_call; of call()
  broken,              \* the attempt's round trips that broke off
  outcome, answered,   \* how the last call ended; the request its answer was for
  refusals             \* HTTP 401s so far

bitcoind == <<node, cookie>>
link == <<held, inbox, wire>>
connection == <<conn, auth>>
call == <<id, optIn, attempt, reused, outcome, answered>>
vars == <<transport, bitcoind, link, connection, pc, call, broken, refusals>>

Init ==
  /\ transport \in Transports
  /\ node = "up" /\ cookie = 0
  /\ held = FALSE /\ inbox = <<>> /\ wire = <<>>
  /\ conn = "none" /\ auth = 0
  /\ pc = "idle" /\ id = 0 /\ optIn = FALSE
  /\ attempt = 0 /\ reused = FALSE /\ broken = 0
  /\ outcome = "none" /\ answered = 0 /\ refusals = 0

-----------------------------------------------------------------------------
(* bitcoind.                                                               *)

Stops ==
  /\ node # "down" /\ cookie < MaxRestarts
  /\ node' = "down" /\ held' = FALSE /\ inbox' = <<>>
  /\ UNCHANGED <<transport, cookie, wire, connection, pc, call, broken, refusals>>

\* It writes a new cookie before it answers anything but "warming up".
ComesUp ==
  /\ \/ node = "down" /\ node' = "warmup" /\ cookie' = cookie + 1
     \/ node = "warmup" /\ node' = "up" /\ UNCHANGED cookie
  /\ UNCHANGED <<transport, link, connection, pc, call, broken, refusals>>

\* -rpcservertimeout.
DropsIdle ==
  /\ held /\ inbox = <<>>
  /\ held' = FALSE
  /\ UNCHANGED <<transport, bitcoind, inbox, wire, connection, pc, call, broken, refusals>>

\* It answers in order, and may close the connection after an answer.
AnswersOf(request) ==
  IF request.auth # cookie THEN {"unauthorized"}
  ELSE IF node = "warmup" THEN {"error", "garbage"} ELSE {"result", "error", "garbage"}

Answers ==
  /\ held /\ inbox # <<>> /\ node # "down"
  /\ \E kind \in AnswersOf(Head(inbox)), closes \in BOOLEAN :
       /\ wire' = Append(wire, [id |-> Head(inbox).id, kind |-> kind, closes |-> closes])
       /\ inbox' = Tail(inbox) /\ held' = ~closes
  /\ UNCHANGED <<transport, bitcoind, connection, pc, call, broken, refusals>>

-----------------------------------------------------------------------------
(* The call.                                                               *)

\* An attempt starts; call() notes whether it was left a connection.
Attempt(n) ==
  /\ attempt' = n /\ reused' = (conn # "none") /\ broken' = 0
  /\ pc' = "roundtrip"

Ask ==
  /\ pc = "idle" /\ id < MaxCalls
  /\ \E method \in Method : optIn' = (method \in FailFast)
  /\ id' = id + 1 /\ Attempt(0)
  /\ outcome' = "pending" /\ answered' = 0
  /\ UNCHANGED <<transport, bitcoind, link, connection, refusals>>

FailsFastAlways == TRUE                                       \* slip: nobody opts in
FailsFast == optIn

\* An attempt failed.
RetriesLeftPlus == attempt <= MaxRetries                      \* slip: one too many
RetriesLeft == attempt < MaxRetries
Fails ==
  /\ IF RetriesLeft THEN pc' = "backoff" /\ UNCHANGED outcome
                    ELSE pc' = "idle" /\ outcome' = "RpcCliError"
  /\ UNCHANGED <<id, optIn, attempt, reused, answered>>

Retries ==
  /\ pc = "backoff" /\ Attempt(attempt + 1)
  /\ UNCHANGED <<transport, bitcoind, link, connection, id, optIn, outcome, answered, refusals>>

\* _roundtrip: without a connection the cookie is read first.  A node that is
\* down has removed it, or left the old one behind.
ReadsCookie ==
  /\ pc = "roundtrip" /\ conn = "none"
  /\ \/ auth' = cookie /\ pc' = "connect" /\ UNCHANGED call
     \/ node = "down" /\ Fails /\ UNCHANGED auth
  /\ UNCHANGED <<transport, bitcoind, link, conn, broken, refusals>>

StaysOpen == UNCHANGED <<conn, held, inbox, wire>>            \* slip: no close()
Close == conn' = "none" /\ held' = FALSE /\ inbox' = <<>> /\ wire' = <<>>

\* A round trip broke off.  On a connection it was left, call() closes that and
\* tries again at once, once.
MayReconnect == reused /\ broken = 0
BreaksOff ==
  /\ Close /\ broken' = broken + 1
  /\ IF MayReconnect THEN pc' = "roundtrip" /\ UNCHANGED call ELSE Fails
  /\ UNCHANGED <<transport, bitcoind, auth, refusals>>

\* The request goes out, over a new socket if there is none.
Sends ==
  /\ pc = "connect" \/ (pc = "roundtrip" /\ conn # "none")
  /\ IF conn = "open" THEN held ELSE node # "down"
  /\ conn' = "open" /\ held' = TRUE
  /\ inbox' = Append(inbox, [id |-> id, auth |-> auth])
  /\ pc' = "await"
  /\ UNCHANGED <<transport, bitcoind, wire, auth, call, broken, refusals>>

SendFails ==
  /\ pc = "connect" \/ (pc = "roundtrip" /\ conn # "none")
  /\ ~(IF conn = "open" THEN held ELSE node # "down")
  /\ BreaksOff

\* No answer: the connection is gone, or cli_timeout_seconds are over.
NoAnswer == pc = "await" /\ BreaksOff

AfterKept(answer) == IF transport = "cli" THEN "none" ELSE "open"   \* slip: never closed
\* bitcoin-cli's connection ends with it; http.client drops the socket of a
\* connection the node closes, _HttpRpcConnection only forgets it after a result.
After(answer) ==
  CASE transport = "cli" \/ answer.kind \in {"unauthorized", "garbage"} -> "none"
    [] answer.closes -> IF answer.kind = "error" THEN "dormant" ELSE "none"
    [] OTHER -> "open"

Receives ==
  /\ pc = "await" /\ wire # <<>>
  /\ LET answer == Head(wire) IN
     /\ conn' = After(answer)
     /\ IF conn' = "open" THEN wire' = Tail(wire) /\ UNCHANGED <<held, inbox>>
        ELSE wire' = <<>> /\ inbox' = <<>> /\ held' = FALSE
     /\ CASE answer.kind = "result" ->
               /\ pc' = "idle" /\ outcome' = "result" /\ answered' = answer.id
               /\ UNCHANGED <<id, optIn, attempt, reused, refusals>>
          [] answer.kind = "error" /\ FailsFast ->
               /\ pc' = "idle" /\ outcome' = "RpcError" /\ answered' = answer.id
               /\ UNCHANGED <<id, optIn, attempt, reused, refusals>>
          [] OTHER ->
               /\ Fails
               /\ refusals' = refusals + (IF answer.kind = "unauthorized" THEN 1 ELSE 0)
  /\ UNCHANGED <<transport, bitcoind, auth, broken>>

Client == Ask \/ Retries \/ ReadsCookie \/ Sends \/ SendFails \/ NoAnswer \/ Receives

Next == Stops \/ ComesUp \/ DropsIdle \/ Answers \/ Client

Spec == Init /\ [][Next]_vars

-----------------------------------------------------------------------------
(* What a call promises.                                                   *)

TypeOK ==
  /\ transport \in Transports
  /\ node \in {"down", "warmup", "up"} /\ cookie \in 0..MaxRestarts /\ auth \in 0..cookie
  /\ held \in BOOLEAN /\ optIn \in BOOLEAN /\ reused \in BOOLEAN
  /\ inbox \in Seq(Request) /\ wire \in Seq(Reply)
  /\ conn \in {"none", "dormant", "open"}
  /\ pc \in {"idle", "roundtrip", "connect", "await", "backoff"}
  /\ id \in 0..MaxCalls /\ answered \in 0..MaxCalls
  /\ attempt \in 0..MaxRetries /\ refusals \in Nat
  /\ outcome \in {"none", "pending", "result", "RpcError", "RpcCliError"}
  \* "reconnect once, straight away" (client.py:249-253)
  /\ broken \in 0..2

\* An answer is the answer to the request of this very call: the ids are never
\* compared, so no answer that came too late may be left on a connection that is
\* used again (client.py:241-284).
AnswerIsOurs == outcome \in {"result", "RpcError"} => answered = id

\* "a bitcoind restart (which rotates it) is just another retried failure"
\* (client.py:15-17): an outdated cookie costs one attempt per restart at most.
OneRefusalPerRestart == refusals <= cookie

\* Both transports keep the promise to the caller.
Promise == INSTANCE RpcCall WITH
  failures <- IF pc = "backoff" THEN attempt + 1 ELSE attempt
ImplementsRpcCall == Promise!Spec

=============================================================================
