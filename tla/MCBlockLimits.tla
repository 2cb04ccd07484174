--------------------------- MODULE MCBlockLimits ---------------------------
(***************************************************************************)
(* Model-checking instances of BlockLimits.  Alice sends a, b and large,   *)
(* where large is in an ecosystem of its own; Bob sends set, which changes *)
(* the limit of the first ecosystem, and fail, whose contract fails.       *)
(***************************************************************************)
EXTENDS BlockLimits

CONSTANTS a, b, large, set, fail, alice, bob, e1, e2

Key == [t \in Txs |-> IF t \in {a, b, large} THEN alice ELSE bob]
Ecosystem == [t \in Txs |-> IF t = large THEN e2 ELSE e1]
Size == [t \in Txs |-> IF t = large THEN 8 ELSE 2]
Bytes == [t \in Txs |-> Size[t] + 1]
Fuel == [t \in Txs |-> IF t = b THEN 2 ELSE 1]
Limit == [t \in Txs |-> IF t = set THEN 1 ELSE Unset]
InitialLimits == {Unset}
=============================================================================
