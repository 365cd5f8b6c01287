---------------------------- MODULE MCController ----------------------------
(* Values for the constants of MemoryController: three lines on two banks  *)
(* of up to two rows each.                                                 *)
EXTENDS ControllerProperties

MCLines == {1, 2, 3}
=============================================================================
