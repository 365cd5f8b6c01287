------------------------------ MODULE MCPages ------------------------------
(* Values for the constants of PageTable. *)
EXTENDS PageProperties

MCTlbSize  == [DTLB |-> 1, STLB |-> 2]
MCMshrSize == [DTLB |-> 2, STLB |-> 1]
=============================================================================
