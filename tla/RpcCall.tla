------------------------------- MODULE RpcCall -------------------------------
(***************************************************************************)
(* What a call of rpc/client.py promises its caller, whichever transport   *)
(* carries it ("Retry/timeout handling is identical too", client.py:19-21):*)
(* it ends with the node's answer, with RpcError at the first error the    *)
(* node answers if the caller opted in, or with RpcCliError after          *)
(* MaxRetries retries, and never later than that.                          *)
(***************************************************************************)
EXTENDS Naturals

CONSTANT MaxRetries      \* rpc.max_cli_retries

VARIABLES
  id,                    \* the call, counted from 1
  optIn,                 \* retry_rpc_errors = False
  failures,              \* its attempts that failed
  outcome                \* how it ended

vars == <<id, optIn, failures, outcome>>

Init == id = 0 /\ optIn = FALSE /\ failures = 0 /\ outcome = "none"

Ask ==
  /\ outcome # "pending"
  /\ id' = id + 1 /\ optIn' \in BOOLEAN
  /\ failures' = 0 /\ outcome' = "pending"

Fail ==
  /\ outcome = "pending" /\ failures < MaxRetries
  /\ failures' = failures + 1
  /\ UNCHANGED <<id, optIn, outcome>>

End ==
  /\ outcome = "pending"
  /\ \/ outcome' = "result"
     \/ optIn /\ outcome' = "RpcError"
     \/ failures = MaxRetries /\ outcome' = "RpcCliError"
  /\ UNCHANGED <<id, optIn, failures>>

Next == Ask \/ Fail \/ End

Spec == Init /\ [][Next]_vars

=============================================================================
