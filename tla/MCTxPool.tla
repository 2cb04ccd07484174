----------------------------- MODULE MCTxPool -----------------------------
(***************************************************************************)
(* Model-checking instances of TxPool.                                     *)
(***************************************************************************)
EXTENDS TxPool, TLC

CONSTANTS t1, t2

\* t1 may be played at once; t2 is early until the clock has moved.
OneEarly == [t \in Txs |-> IF t = t2 THEN 1 ELSE 0]
NoneEarly == [t \in Txs |-> 0]
=============================================================================
