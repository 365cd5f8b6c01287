----------------------------- MODULE MCFrontEnd -----------------------------
(***************************************************************************)
(* Instances of FrontEnd for TLC.                                          *)
(***************************************************************************)
EXTENDS FrontEndProperties

At(l, b) == [line |-> l, branch |-> b]

(* Three lines, the first one met again while it may still be waited for,  *)
(* with branches at the end of a line and in the middle.                   *)
MCTrace == << At(1, "no"), At(1, "taken"), At(2, "untaken"), At(1, "no"),
              At(3, "taken"), At(2, "no") >>

(* Two lines, of which only one has a frame at a time.                     *)
MCSwapTrace == << At(1, "untaken"), At(2, "no"), At(2, "no") >>
=============================================================================
