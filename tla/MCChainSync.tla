---------------------------- MODULE MCChainSync ----------------------------
(***************************************************************************)
(* Model-checking instances of ChainSync.                                  *)
(***************************************************************************)
EXTENDS ChainSync, TLC

CONSTANTS h1, h2, me, t1, t2, f1

\* Lists of one transaction; f1 fails when it is played, so it may
\* be carried by any number of blocks.
OneList == {<<t1>>, <<f1>>}
TwoLists == {<<t1>>, <<t2>>, <<f1>>}

\* t1 and t2 are interchangeable in TwoLists.
SymmetricTxs == Permutations({t1, t2})
=============================================================================
