------------------------- MODULE InstructionStream -------------------------
(***************************************************************************)
(* What the back end of the core is promised: the instructions of the      *)
(* trace arrive in program order, in groups, and behind a branch that was  *)
(* predicted wrongly none does before that branch has executed, since the  *)
(* simulator does not follow wrong paths.                                  *)
(***************************************************************************)
EXTENDS Naturals

CONSTANTS
  Length,          (* of the trace *)
  Branches         (* positions of branches in it *)

VARIABLES arrived, executed, mispredicted
streamVars == <<arrived, executed, mispredicted>>

StreamInit == arrived = 0 /\ executed = {} /\ mispredicted = {}

(* Only the last of a group may be a branch that stops the stream.         *)
Arrive(n) ==
  /\ arrived + n <= Length
  /\ mispredicted \subseteq executed
  /\ arrived' = arrived + n
  /\ mispredicted' \in {mispredicted, mispredicted \cup (Branches \cap {arrived'})}
  /\ UNCHANGED executed

Execute(i) ==
  /\ i \in 1 .. arrived \ executed
  /\ executed' = executed \cup {i}
  /\ UNCHANGED <<arrived, mispredicted>>

SomeArrive == \E n \in 1 .. Length : Arrive(n)

StreamNext == SomeArrive \/ \E i \in 1 .. arrived : Execute(i)

StreamSpec == StreamInit /\ [][StreamNext]_streamVars

(* Whatever executes, does; but the next instructions come.                *)
FairStreamSpec == StreamSpec /\ WF_streamVars(SomeArrive)
=============================================================================
