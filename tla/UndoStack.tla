----------------------------- MODULE UndoStack -----------------------------
(***************************************************************************)
(* What the rollback log promises, without saying how: the database is a   *)
(* value on top of a stack of the values it had before each block.  A      *)
(* commit of new blocks pushes; a rollback of the last block pops, and the *)
(* value it restores is the very one that was pushed.                      *)
(***************************************************************************)
EXTENDS Integers, Sequences

VARIABLES
  state,  \* the committed database
  past    \* the committed databases before each block of the chain

\* One or more blocks are added; the first of them was played on state.
Push ==
  /\ Len(past') > Len(past)
  /\ SubSeq(past', 1, Len(past)) = past
  /\ past'[Len(past) + 1] = state

\* The last block is taken away and leaves no trace.
Pop ==
  /\ past # <<>>
  /\ state' = past[Len(past)]
  /\ past' = SubSeq(past, 1, Len(past) - 1)

Spec == past = <<>> /\ [][Push \/ Pop]_<<state, past>>
=============================================================================
