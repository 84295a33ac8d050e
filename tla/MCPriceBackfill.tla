--------------------------- MODULE MCPriceBackfill ---------------------------
(* Four timestamps: two share a minute, one has no price.                  *)
EXTENDS PriceBackfill, TLC

CONSTANTS m1, m2, None

Prices == 1 :> m1 @@ 2 :> m2 @@ 3 :> None @@ 4 :> m2

SomeFaults == "kill" :> 1 @@ "interrupt" :> 2 @@ "refusal" :> 1
=============================================================================
