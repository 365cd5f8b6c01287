------------------------------- MODULE MCLsq -------------------------------
(***************************************************************************)
(* Instances of LoadStoreQueue for TLC.                                    *)
(***************************************************************************)
EXTENDS LsqProperties

Instr(ld, st, reads, writes) ==
  [source_memory |-> ld, destination_memory |-> st,
   source_registers |-> reads, destination_registers |-> writes]

(* An instruction that updates a, a load it forwards to, a computation, a  *)
(* store of two addresses behind it, loads that wait for that store or go  *)
(* to memory, and a later store to one of the addresses.                   *)
MCMixed == << Instr(<<"a">>, <<"a">>, {}, {"r1"}),
              Instr(<<"a">>, <<>>, {}, {"r2"}),
              Instr(<<>>, <<>>, {"r1", "r2"}, {"r1"}),
              Instr(<<>>, <<"a", "b">>, {"r1"}, {}),
              Instr(<<"b", "a">>, <<>>, {}, {"r2"}),
              Instr(<<"c">>, <<"b">>, {}, {}) >>

(* Stores that fill the store queue, one ready before an older one that    *)
(* waits for a register, around loads with two operands.                   *)
MCStores == << Instr(<<>>, <<"a">>, {}, {"r1"}),
               Instr(<<"b">>, <<"b">>, {"r1"}, {"r1"}),
               Instr(<<"a">>, <<"a", "b">>, {}, {"r2"}),
               Instr(<<"a", "b">>, <<>>, {}, {"r1"}),
               Instr(<<>>, <<>>, {"r1", "r2"}, {"r2"}),
               Instr(<<"b">>, <<"a">>, {"r2"}, {}),
               Instr(<<"a">>, <<>>, {}, {"r3"}) >>

MCPrograms == {MCMixed, MCStores}

(* A store that waits by registers for a load, which waits for a           *)
(* computation, and loads of two operands each that wait for the store:    *)
(* half as many as the load queue has entries, all within SCHEDULER_SIZE.  *)
MCLoadsAhead == {<< Instr(<<>>, <<>>, {}, {"r1"}),
                    Instr(<<"c">>, <<>>, {"r1"}, {"r2"}),
                    Instr(<<>>, <<"a", "b">>, {"r2"}, {}),
                    Instr(<<"a", "b">>, <<>>, {}, {}),
                    Instr(<<"a", "b">>, <<>>, {}, {}),
                    Instr(<<"a", "b">>, <<>>, {}, {}) >>}

(* A store of two addresses, a later store to one of them, and a load of   *)
(* both.                                                                   *)
MCTwoStores == {<< Instr(<<>>, <<"a", "b">>, {}, {}),
                   Instr(<<>>, <<"a">>, {}, {}),
                   Instr(<<"a", "b">>, <<>>, {}, {}) >>}
=============================================================================
