--------------------------- MODULE LsqProperties ---------------------------
(***************************************************************************)
(* What the load and store queues must keep true.                          *)
(***************************************************************************)
EXTENDS LoadStoreQueue

Owned(Q, i) == {q \in Used(Q) : Q[q].instr = i}

(* Slots and lists are within their types, num_mem_ops never counts below  *)
(* zero (the assertions at every decrement), and queues stay in size.      *)
TypeOK ==
  /\ head <= tail /\ tail - head <= ROB_SIZE
  /\ \A i \in Instrs : ROB[i].num_mem_ops \in Nat
  /\ \A q \in Used(LQ) : LQ[q].instr \in Window /\ LQ[q].producer \in 0 .. LQ[q].instr - 1
  /\ \A q \in Used(SQ) : SQ[q].instr \in Window /\ SQ[q].fetched \in BOOLEAN
  /\ \A l \in {"RTL0", "RTL1"} : Range(ready[l]) \subseteq LqSlots
  /\ \A l \in {"RTS0", "RTS1"} : Range(ready[l]) \subseteq SqSlots
  /\ L1D \subseteq LqSlots
  /\ Cardinality(WQ) <= WQ_SIZE
  /\ inflight_executions \in Nat

(* Out of order, by forwarding or from the cache, every load reads what it *)
(* would read in program order: the data of the last store to its address  *)
(* before it.                                                              *)
ReadsInProgramOrder ==
  \A load \in DOMAIN got :
    LET i == load[1]
        a == loads(i)[load[2]]
    IN got[load] = Youngest({j \in 1 .. i - 1 : Writes(j, a)})

(* num_mem_ops counts what an instruction has left to do, wherever it is:  *)
(* operands not in a queue, loads in the LQ and stores in the SQ that did  *)
(* not execute.  inflight_executions counts the instructions that          *)
(* update_rob() has to complete; at zero it looks at none.                 *)
OperandsCounted ==
  /\ \A i \in Window :
       ROB[i].num_mem_ops =
           Cardinality({k \in DOMAIN loads(i)  : ROB[i].lq_index[k] = None})
         + Cardinality({k \in DOMAIN stores(i) : ROB[i].sq_index[k] = None})
         + Cardinality(Owned(LQ, i))
         + Cardinality({q \in Owned(SQ, i) : ~SQ[q].fetched})
  /\ inflight_executions =
       Cardinality({i \in Window : \/ ROB[i].executed = "INFLIGHT" /\ ~is_memory(i)
                                   \/ /\ is_memory(i) /\ ROB[i].num_mem_ops = 0
                                      /\ ROB[i].executed # "COMPLETED"})

(* A load in the LQ is waited for by someone who will wake it: a list or a *)
(* cache that holds its slot exactly once, or an older store, marked, that *)
(* has not executed.                                                       *)
NoLoadStranded ==
  \A q \in Used(LQ) :
    LET p == LQ[q].producer
        a == loads(LQ[q].instr)[LQ[q].operand]
    IN IF p = 0
         THEN Cardinality({n \in DOMAIN ready.RTL0 : ready.RTL0[n] = q})
              + Cardinality({n \in DOMAIN ready.RTL1 : ready.RTL1[n] = q})
              + Cardinality({r \in DTLB : r = <<"RTL1", q>>})
              + Cardinality({q} \cap L1D) = 1
         ELSE /\ p \in Window /\ LQ[q].instr \in ROB[p].memory_instrs_depend_on_me
              /\ ~Forwards(State, p, a)

(* Stores enter and leave the SQ in program order, so that the slots in    *)
(* use are one run of the ring, oldest first, that ends at the tail.       *)
StoresInOrder ==
  LET n == Cardinality(Used(SQ))
      At(m) == SQ[(SQ_tail - n + m + SQ_SIZE) % SQ_SIZE]
  IN /\ \A m \in 0 .. n - 1 : At(m) # Empty
     /\ \A m \in 1 .. n - 1 : At(m - 1).instr <= At(m).instr
     /\ n > 0 /\ STA # <<>> => At(n - 1).instr <= Head(STA)

(* "producer_id does not match to the store instr_id" does not happen.     *)
ForwardsToWaiting == \A q \in Range(ready.RTS1) : ProducerMatches(q)

(* Every instruction retires: the core never waits for itself.             *)
AllRetire == <>(head = Len(program) + 1)
=============================================================================
