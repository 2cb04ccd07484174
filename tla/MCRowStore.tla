----------------------------- MODULE MCRowStore -----------------------------
(* A small instance of RowStore: one table of contracts, two ecosystems. *)
EXTENDS RowStore

CONSTANTS t1

MCEcosystemOf == [t \in UserTables |-> 1]
MCNameOf == [t \in UserTables |-> "t"]
=============================================================================
