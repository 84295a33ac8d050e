------------------------------ MODULE MCApiPoll ------------------------------
(* ApiPoll with endpoints that share one interval, as in config.yaml.      *)
EXTENDS ApiPoll

IntervalOf == [e \in 1..Endpoints |-> 2]

=============================================================================
