------------------------- MODULE MCGenerationQueue -------------------------
(***************************************************************************)
(* Model-checking instances of GenerationQueue.  The configurations use a  *)
(* duration of 2.5 seconds, so that the ends of the slots fall both on and *)
(* between whole seconds, and the duration of the repository's own test.   *)
(***************************************************************************)
EXTENDS GenerationQueue

\* All positions but this node's: the authors of the blocks of peers.
Peers == Positions \ {MyPosition}
NoPeers == {}
=============================================================================
