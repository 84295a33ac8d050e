------------------------------ MODULE MCIngest ------------------------------
(* Small block trees for TLC.  A block name gives its branch and height.   *)
EXTENDS Ingest, TLC

CONSTANTS g, a1, a2, a3, a4, a5, b1, b2, b3, b4, None

\* One fork above a1, and room to flip back.
BlockForkAt1 == {g, a1, a2, a3, a4, b2, b3}
ParentForkAt1 == g :> None @@ a1 :> g @@ a2 :> a1 @@ a3 :> a2 @@ a4 :> a3
                 @@ b2 :> a1 @@ b3 :> b2
HeightForkAt1 == g :> 0 @@ a1 :> 1 @@ a2 :> 2 @@ a3 :> 3 @@ a4 :> 4
                 @@ b2 :> 2 @@ b3 :> 3
\* A fork above the genesis block: within two blocks of depth the chain can
\* flip back, and two branches can meet in the heights the pool reads ahead.
BlockForkAtG == {g, a1, a2, a3, a4, a5, b1, b2, b3, b4}
ParentForkAtG == g :> None @@ a1 :> g @@ a2 :> a1 @@ a3 :> a2 @@ a4 :> a3 @@ a5 :> a4
                 @@ b1 :> g @@ b2 :> b1 @@ b3 :> b2 @@ b4 :> b3
HeightForkAtG == g :> 0 @@ a1 :> 1 @@ a2 :> 2 @@ a3 :> 3 @@ a4 :> 4 @@ a5 :> 5
                 @@ b1 :> 1 @@ b2 :> 2 @@ b3 :> 3 @@ b4 :> 4

NeverUpgraded == -1

Faults(c, r, s) == [f \in Fault |-> CASE f = "crash" -> c [] f = "rpc" -> r [] f = "stop" -> s]
NoFaults == Faults(0, 0, 0)
OneOfEach == Faults(1, 1, 1)
CrashAndRpc == Faults(1, 1, 0)
=============================================================================
