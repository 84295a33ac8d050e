------------------------------ MODULE EventLog ------------------------------
(***************************************************************************)
(* What mempool-watch and stale-blocks-ingest promise whoever reads their  *)
(* events: the events of one transaction, or of one block, follow each     *)
(* other the way its life goes.  Only after a crash has cut one of them    *)
(* off from the record may they repeat or skip.                            *)
(***************************************************************************)
CONSTANTS Key,         \* what the events are about
          Follows      \* the events that may come after each event, and after "none"
VARIABLES last,        \* the latest event exported for each key
          doubtful     \* the keys a crash has made doubtful

Events == UNION {Follows[e] : e \in DOMAIN Follows}

Init == last = [k \in Key |-> "none"] /\ doubtful = {}

Report(k, e) ==
  /\ k \in doubtful \/ e \in Follows[last[k]]
  /\ last' = [last EXCEPT ![k] = e]
  /\ UNCHANGED doubtful

Doubt(S) == doubtful' = doubtful \union S /\ UNCHANGED last

Next == \/ \E k \in Key, e \in Events : Report(k, e)
        \/ \E S \in SUBSET Key : Doubt(S)

Spec == Init /\ [][Next]_<<last, doubtful>>
=============================================================================
