--------------------------- MODULE LoadStoreQueue ---------------------------
(***************************************************************************)
(* The back end of class O3_CPU: the reorder buffer with its register      *)
(* dependencies, the load and the store queue with forwarding between      *)
(* them, and retirement into the write queue of the L1D.                   *)
(*                                                                         *)
(* The program is a straight trace.  Instructions are named by their       *)
(* instr_id, the position in it; an entry of the ROB is found by that name *)
(* where the code uses its index.  The DTLB and the L1D answer what they   *)
(* were asked in any order, each request once.                             *)
(***************************************************************************)
EXTENDS Integers, Sequences, FiniteSets, FiniteSetsExt

CONSTANTS
  Programs,        (* traces: source_memory and destination_memory list the *)
                   (* addresses, source_registers and destination_registers *)
                   (* hold the registers of an instruction                  *)
  ROB_SIZE, SCHEDULER_SIZE, LQ_SIZE, SQ_SIZE,
  WQ_SIZE          (* of the L1D                                            *)

VARIABLES
  program,
  head, tail,      (* the ROB holds head .. tail - 1                        *)
  ROB,             (* by instruction                                        *)
  LQ, SQ,          (* by slot                                               *)
  SQ_tail,
  STA,             (* store addresses not in the SQ yet, in program order,  *)
                   (* each as the instr_id of its store                     *)
  ready,           (* the Ready-To-Load and Ready-To-Store lists            *)
  DTLB, L1D,       (* requests under way: <<list to go on to, slot>>; slots *)
  WQ,              (* addresses with retired data                           *)
  inflight_executions,  (* inflight_reg_ + inflight_mem_executions          *)
  got              (* history: by load, the store whose data it read        *)

queues == <<LQ, SQ, SQ_tail, STA, ready>>
vars   == <<program, head, tail, ROB, queues, DTLB, L1D, WQ, inflight_executions, got>>

NUM_INSTR_SOURCES      == 4
MAX_INSTR_DESTINATIONS == 4  (* NUM_INSTR_DESTINATIONS_SPARC; 2 but for SPARC *)

IsSeq(s) == s \in Seq(Range(s))

ASSUME LsqAssumption ==
  /\ {ROB_SIZE, SCHEDULER_SIZE, LQ_SIZE, SQ_SIZE, WQ_SIZE} \subseteq Nat \ {0}
  /\ \A p \in Programs :
       /\ IsSeq(p)
       /\ \A i \in DOMAIN p :
            /\ IsSeq(p[i].source_memory) /\ IsSeq(p[i].destination_memory)
            /\ Len(p[i].source_memory) <= NUM_INSTR_SOURCES
            /\ \A max \in {MAX_INSTR_DESTINATIONS, SQ_SIZE, WQ_SIZE} :
                 Len(p[i].destination_memory) <= max

Instrs    == DOMAIN program
loads(i)  == program[i].source_memory
stores(i) == program[i].destination_memory
is_memory(i) == loads(i) # <<>> \/ stores(i) # <<>>
Writes(i, a) == a \in Range(stores(i))

None     == -1
Empty    == [instr |-> 0]
Window   == head .. tail - 1
LqSlots  == 0 .. LQ_SIZE - 1
SqSlots  == 0 .. SQ_SIZE - 1
Used(Q)  == {q \in DOMAIN Q : Q[q] # Empty}

(* What an instruction brings into the ROB.                                *)
Fresh(i) == [scheduled |-> "no", executed |-> "no", producers |-> {},
             num_mem_ops |-> Len(loads(i)) + Len(stores(i)),
             memory_instrs_depend_on_me |-> {},
             lq_index |-> [k \in DOMAIN loads(i) |-> None],
             sq_index |-> [k \in DOMAIN stores(i) |-> None]]

(***************************************************************************)
(* Dispatch, register dependencies and execution.  The code appends to the *)
(* STA where it reads the trace, and looks at the addresses of an          *)
(* instruction only after its dispatch.                                    *)
(***************************************************************************)
(* Faulty: one instruction too many. *)
Faulty_Dispatch ==
  /\ tail \in Instrs /\ tail - head <= ROB_SIZE
  /\ tail' = tail + 1
  /\ STA' = STA \o [k \in DOMAIN stores(tail) |-> tail]
  /\ UNCHANGED <<program, head, ROB, LQ, SQ, SQ_tail, ready, DTLB, L1D, WQ,
                 inflight_executions, got>>

Dispatch ==
  /\ tail \in Instrs /\ tail - head < ROB_SIZE
  /\ tail' = tail + 1
  /\ STA' = STA \o [k \in DOMAIN stores(tail) |-> tail]
  /\ UNCHANGED <<program, head, ROB, LQ, SQ, SQ_tail, ready, DTLB, L1D, WQ,
                 inflight_executions, got>>

Youngest(S) == Max(S \cup {0})

(* The instructions i waits for: by source register, the youngest older    *)
(* one that writes it and has not executed.                                *)
reg_dependency(i) ==
  {Youngest({j \in head .. i - 1 : ROB[j].executed # "COMPLETED"
                                   /\ r \in program[j].destination_registers})
     : r \in program[i].source_registers} \ {0}

(* schedule_instruction() goes in order from the head up to the end of the *)
(* array: next_fetch[1], where its second loop would end, stays 0.         *)
Schedule(i) ==
  /\ i \in Window /\ ROB[i].scheduled = "no"
  /\ \A j \in head .. i - 1 : ROB[j].scheduled # "no"
  /\ i - head < SCHEDULER_SIZE
  /\ i % ROB_SIZE >= head % ROB_SIZE
  /\ ROB' = [ROB EXCEPT
       ![i].producers = reg_dependency(i),
       ![i].scheduled = IF is_memory(i) THEN "INFLIGHT" ELSE "COMPLETED"]
  /\ UNCHANGED <<program, head, tail, queues, DTLB, L1D, WQ, inflight_executions, got>>

do_execution(i) ==
  /\ i \in Window /\ ~is_memory(i)
  /\ ROB[i].scheduled = "COMPLETED" /\ ROB[i].producers = {} /\ ROB[i].executed = "no"
  /\ ROB' = [ROB EXCEPT ![i].executed = "INFLIGHT"]
  /\ inflight_executions' = inflight_executions + 1
  /\ UNCHANGED <<program, head, tail, queues, DTLB, L1D, WQ, got>>

(* Faulty: what waits by a register is not released. *)
Faulty_Completed(i) == [ROB EXCEPT ![i].executed = "COMPLETED"]

(* complete_execution() with reg_RAW_release().                            *)
Completed(i) == [j \in Instrs |-> [ROB[j] EXCEPT
                   !.producers = @ \ {i},
                   !.executed  = IF j = i THEN "COMPLETED" ELSE @]]

complete_execution(i) ==
  /\ i \in Window /\ ROB[i].executed = "INFLIGHT"
  /\ is_memory(i) => ROB[i].num_mem_ops = 0
  /\ inflight_executions > 0
  /\ ROB' = Completed(i)
  /\ inflight_executions' = inflight_executions - 1
  /\ UNCHANGED <<program, head, tail, queues, DTLB, L1D, WQ, got>>

(***************************************************************************)
(* Into the queues: check_and_add_lsq() runs over all operands, each of    *)
(* which changes the state that the next one sees.                         *)
(***************************************************************************)
State == [ROB |-> ROB, LQ |-> LQ, SQ |-> SQ, SQ_tail |-> SQ_tail, STA |-> STA,
          ready |-> ready, done |-> inflight_executions, got |-> got]

(* Faulty: the last operand is told a count too late. *)
Faulty_OpDone(s, i) ==
  [s EXCEPT !.ROB[i].num_mem_ops = @ - 1,
            !.done = IF s.ROB[i].num_mem_ops = 0 THEN @ + 1 ELSE @]

(* One operand of i is done.                                               *)
OpDone(s, i) ==
  [s EXCEPT !.ROB[i].num_mem_ops = @ - 1,
            !.done = IF s.ROB[i].num_mem_ops = 1 THEN @ + 1 ELSE @]

(* Faulty: the search begins at the head. *)
Faulty_mem_RAW_dependency(i, a) ==
  LET S == {j \in head .. i - 1 : Writes(j, a)}
  IN IF S = {} THEN 0 ELSE Min(S)

(* mem_RAW_dependency: the youngest older store to a in the ROB.           *)
mem_RAW_dependency(i, a) == Youngest({j \in head .. i - 1 : Writes(j, a)})

(* Faulty: forwarding is left to execute_store(). *)
Faulty_Forwards(s, p, a) == FALSE

(* The store p has its data for a in the SQ.                               *)
Forwards(s, p, a) ==
  \E q \in Used(s.SQ) : /\ s.SQ[q].instr = p /\ stores(p)[s.SQ[q].operand] = a
                        /\ s.SQ[q].fetched

(* The loads in D have read the data of p.                                 *)
Reads(g, D, p) == [d \in DOMAIN g \cup D |-> IF d \in DOMAIN g THEN g[d] ELSE p]

Received(s, i, k, p) == [s EXCEPT !.got = Reads(@, {<<i, k>>}, p)]

add_load_queue(s, i, k) ==
  LET q == Min({x \in LqSlots : s.LQ[x] = Empty})
      p == mem_RAW_dependency(i, loads(i)[k])
      placed == [s EXCEPT !.ROB[i].lq_index[k] = q]
      marked == IF p = 0 THEN placed ELSE
                  [placed EXCEPT !.ROB[p].memory_instrs_depend_on_me = @ \cup {i}]
  IN IF p # 0 /\ Forwards(s, p, loads(i)[k]) THEN OpDone(Received(marked, i, k, p), i)
     ELSE [marked EXCEPT
             !.LQ[q] = [instr |-> i, operand |-> k, producer |-> p],
             !.ready.RTL0 = IF p = 0 THEN Append(@, q) ELSE @]

LoadFits(s, i, k) == s.ROB[i].lq_index[k] = None /\ Cardinality(Used(s.LQ)) < LQ_SIZE

AddLoad(s, i, k) ==
  IF k \in DOMAIN loads(i) /\ LoadFits(s, i, k) THEN add_load_queue(s, i, k) ELSE s

add_store_queue(s, i, k) ==
  [s EXCEPT !.ROB[i].sq_index[k] = s.SQ_tail,
            !.SQ[s.SQ_tail] = [instr |-> i, operand |-> k, fetched |-> FALSE],
            !.SQ_tail = (@ + 1) % SQ_SIZE,
            !.STA = Tail(@),
            !.ready.RTS0 = Append(@, s.SQ_tail)]

(* Faulty: in any order. *)
Faulty_StoreFits(s, i, k) ==
  s.ROB[i].sq_index[k] = None /\ Cardinality(Used(s.SQ)) < SQ_SIZE

StoreFits(s, i, k) ==
  /\ s.ROB[i].sq_index[k] = None /\ Cardinality(Used(s.SQ)) < SQ_SIZE
  /\ s.STA # <<>> /\ Head(s.STA) = i

AddStore(s, i, k) ==
  IF k \in DOMAIN stores(i) /\ StoreFits(s, i, k) THEN add_store_queue(s, i, k) ELSE s

LoadsAdded(s, i)  == AddLoad(AddLoad(AddLoad(AddLoad(s, i, 1), i, 2), i, 3), i, 4)
StoresAdded(s, i) == AddStore(AddStore(AddStore(AddStore(s, i, 1), i, 2), i, 3), i, 4)

check_and_add_lsq(i) == StoresAdded(LoadsAdded(State, i), i)

AllAdded(entry) == None \notin Range(entry.lq_index) \cup Range(entry.sq_index)

Addable(i) == /\ is_memory(i) /\ ROB[i].scheduled = "INFLIGHT" /\ ROB[i].producers = {}
              /\ \/ \E k \in DOMAIN loads(i)  : LoadFits(State, i, k)
                 \/ \E k \in DOMAIN stores(i) : StoreFits(State, i, k)

(* schedule_memory_instruction() tries the instructions in program order,  *)
(* so that one gets what no older one could take.                          *)
do_memory_scheduling(i) ==
  /\ i \in Window /\ Addable(i) /\ \A j \in head .. i - 1 : ~Addable(j)
  /\ \E s \in {check_and_add_lsq(i)} :
       /\ ROB' = IF AllAdded(s.ROB[i])
                   THEN [s.ROB EXCEPT ![i].scheduled = "COMPLETED", ![i].executed = "INFLIGHT"]
                   ELSE s.ROB
       /\ LQ' = s.LQ /\ SQ' = s.SQ /\ SQ_tail' = s.SQ_tail /\ STA' = s.STA
       /\ ready' = s.ready /\ inflight_executions' = s.done /\ got' = s.got
  /\ UNCHANGED <<program, head, tail, DTLB, L1D, WQ>>

(***************************************************************************)
(* operate_lsq() and what the DTLB and the L1D answer.                     *)
(***************************************************************************)
(* The oldest of RTS0 or RTL0 goes to the DTLB, to come back in next.      *)
Translate(list, next) ==
  /\ ready[list] # <<>>
  /\ DTLB' = DTLB \cup {<<next, Head(ready[list])>>}
  /\ ready' = [ready EXCEPT ![list] = Tail(@)]
  /\ UNCHANGED <<program, head, tail, ROB, LQ, SQ, SQ_tail, STA, L1D, WQ, inflight_executions, got>>

(* complete_data_fetch() for the DTLB, with handle_merged_translation().   *)
Translated ==
  \E r \in DTLB :
    /\ DTLB' = DTLB \ {r}
    /\ ready' = [ready EXCEPT ![r[1]] = Append(@, r[2])]
    /\ UNCHANGED <<program, head, tail, ROB, LQ, SQ, SQ_tail, STA, L1D, WQ,
                   inflight_executions, got>>

LqSlot(d) == ROB[d[1]].lq_index[d[2]]

(* The operands that the store in slot q wakes: those of the marked        *)
(* instructions that read its address and were added, each with the slot   *)
(* it was given.                                                           *)
Dependents(q) ==
  {d \in ROB[SQ[q].instr].memory_instrs_depend_on_me \X (1 .. NUM_INSTR_SOURCES) :
     /\ d[2] \in DOMAIN loads(d[1])
     /\ LqSlot(d) # None
     /\ loads(d[1])[d[2]] = stores(SQ[q].instr)[SQ[q].operand]}

(* SANITY_CHECK: the slot waits for this store, and was not released for   *)
(* an earlier operand, or the program ends.                                *)
ProducerMatches(q) ==
  /\ \A d \in Dependents(q) : /\ LQ[LqSlot(d)] # Empty
                              /\ LQ[LqSlot(d)].producer = SQ[q].instr
  /\ \A d, e \in Dependents(q) : LqSlot(d) = LqSlot(e) => d = e

Woken(q) == {LqSlot(d) : d \in Dependents(q)}

(* How many operands of j the store in slot q ends: the loads it wakes,    *)
(* counted where their slot says, and the store itself.                    *)
OpsEnded(q, j) == Cardinality({x \in Woken(q) : LQ[x].instr = j})
                  + IF j = SQ[q].instr THEN 1 ELSE 0

StoreDone(q) ==
  [State EXCEPT
     !.SQ[q].fetched = TRUE,
     !.ROB  = [j \in Instrs |-> [ROB[j] EXCEPT !.num_mem_ops = @ - OpsEnded(q, j)]],
     !.LQ   = [x \in LqSlots |-> IF x \in Woken(q) THEN Empty ELSE LQ[x]],
     !.done = @ + Cardinality({j \in Instrs : ROB[j].num_mem_ops \in 1 .. OpsEnded(q, j)}),
     !.got  = Reads(@, {<<LQ[x].instr, LQ[x].operand>> : x \in Woken(q)}, SQ[q].instr)]

execute_store ==
  /\ ready.RTS1 # <<>>
  /\ ProducerMatches(Head(ready.RTS1))
  /\ \E s \in {StoreDone(Head(ready.RTS1))} :
       /\ ROB' = s.ROB /\ LQ' = s.LQ /\ SQ' = s.SQ
       /\ inflight_executions' = s.done /\ got' = s.got
  /\ ready' = [ready EXCEPT !.RTS1 = Tail(@)]
  /\ UNCHANGED <<program, head, tail, SQ_tail, STA, DTLB, L1D, WQ>>

execute_load ==
  /\ ready.RTL1 # <<>>
  /\ L1D' = L1D \cup {Head(ready.RTL1)}
  /\ ready' = [ready EXCEPT !.RTL1 = Tail(@)]
  /\ UNCHANGED <<program, head, tail, ROB, LQ, SQ, SQ_tail, STA, DTLB, WQ,
                 inflight_executions, got>>

(* release_load_queue.                                                     *)
Released(s, q) == [s EXCEPT !.LQ[q] = Empty]

(* What memory holds for a: the data of the last retired store.            *)
Memory(a) == Youngest({j \in 1 .. head - 1 : Writes(j, a)})

FromMemory(q) == LET e == LQ[q] IN
  Released(OpDone(Received(State, e.instr, e.operand, Memory(loads(e.instr)[e.operand])),
                  e.instr), q)

(* complete_data_fetch() for the L1D, with handle_merged_load().           *)
LoadDone ==
  \E q \in L1D : \E s \in {FromMemory(q)} :
    /\ L1D' = L1D \ {q}
    /\ ROB' = s.ROB /\ LQ' = s.LQ /\ inflight_executions' = s.done /\ got' = s.got
    /\ UNCHANGED <<program, head, tail, SQ, SQ_tail, STA, ready, DTLB, WQ>>

(***************************************************************************)
(* Retirement, in order; the WQ must have room for all stores at once.     *)
(***************************************************************************)
retire_rob ==
  /\ head \in Window /\ ROB[head].executed = "COMPLETED"
  /\ Cardinality(WQ) + Len(stores(head)) <= WQ_SIZE
  /\ WQ' = WQ \cup Range(stores(head))
  /\ SQ' = [q \in SqSlots |-> IF q \in Range(ROB[head].sq_index) THEN Empty ELSE SQ[q]]
  /\ ROB' = [ROB EXCEPT ![head] = Fresh(head)]
  /\ head' = head + 1
  /\ UNCHANGED <<program, tail, LQ, SQ_tail, STA, ready, DTLB, L1D, inflight_executions, got>>

(* The L1D writes a store down or allocates for it.                        *)
DrainWQ ==
  \E a \in WQ :
    /\ WQ' = WQ \ {a}
    /\ UNCHANGED <<program, head, tail, ROB, queues, DTLB, L1D, inflight_executions, got>>

Init ==
  /\ program \in Programs
  /\ head = 1 /\ tail = 1
  /\ ROB = [i \in Instrs |-> Fresh(i)]
  /\ LQ = [q \in LqSlots |-> Empty] /\ SQ = [q \in SqSlots |-> Empty] /\ SQ_tail = 0
  /\ STA = <<>>
  /\ ready = [l \in {"RTL0", "RTL1", "RTS0", "RTS1"} |-> <<>>]
  /\ DTLB = {} /\ L1D = {} /\ WQ = {}
  /\ inflight_executions = 0
  /\ got = <<>>

OutOfOrder(i) == \/ Schedule(i)
                 \/ do_execution(i)
                 \/ complete_execution(i)
                 \/ do_memory_scheduling(i)

operate_lsq == \/ Translate("RTS0", "RTS1")
               \/ execute_store
               \/ Translate("RTL0", "RTL1")
               \/ execute_load

Next == \/ Dispatch
        \/ \E i \in Instrs : OutOfOrder(i)
        \/ operate_lsq
        \/ Translated
        \/ LoadDone
        \/ retire_rob
        \/ DrainWQ

Spec == Init /\ [][Next]_vars

(* Every stage runs in every cycle, and the caches answer everything.  A   *)
(* program is finite, so that it is enough that some step is taken as long *)
(* as there is one.                                                        *)
FairSpec == Spec /\ WF_vars(Next)
=============================================================================
