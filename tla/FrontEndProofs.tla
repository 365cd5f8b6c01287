--------------------------- MODULE FrontEndProofs ---------------------------
(***************************************************************************)
(* Proofs about the front end for every trace, all widths and all sizes.   *)
(***************************************************************************)
EXTENDS FrontEndProperties, WellFoundedInduction, SequenceTheorems,
        FiniteSetTheorems, TLAPS

-----------------------------------------------------------------------------
(* Lemmas on the data of the model.                                        *)

(* A set of numbers up to a bound has a greatest one, Max returns it.      *)
LEMMA MaxOfBounded ==
  ASSUME NEW m \in Nat, NEW S, S \subseteq 0 .. m, S # {}
  PROVE  Max(S) \in S
<1> DEFINE T == {m - x : x \in S}
<1>1. T \subseteq Nat /\ T # {}
  <2>1. \A x \in S : x \in Nat /\ x <= m
    OBVIOUS
  <2>2. \A x \in S : m - x \in Nat
    BY <2>1
  <2>3. QED
    BY <2>2
<1>2. PICK t \in T : \A u \in T : ~ (<<u, t>> \in OpToRel(<, Nat))
  BY <1>1, NatLessThanWellFounded, WFMin
<1>3. \A u \in T : t <= u
  <2>1. TAKE u \in T
  <2>2. <<u, t>> \in Nat \X Nat /\ t \in Nat /\ u \in Nat
    BY <1>1, <1>2, <2>1
  <2>3. ~ (u < t)
    BY <1>2, <2>1, <2>2 DEF OpToRel
  <2>4. QED
    BY <2>2, <2>3
<1>4. PICK x \in S : t = m - x
  BY <1>2
<1>5. \A y \in S : x >= y
  <2>1. TAKE y \in S
  <2>2. m - x <= m - y
    BY <1>3, <1>4, <2>1
  <2>3. QED
    BY <1>4, <2>1, <2>2
<1>6. QED
  BY <1>4, <1>5 DEF Max

(* As many instructions leave as the buffer holds at most.                 *)
LEMMA DispatchWidth ==
  ASSUME dispatched \in Nat, decoded \in Nat, dispatched <= decoded,
         dispatched - retired <= ROB_SIZE, retired \in Nat
  PROVE  /\ ToDispatch \in Nat /\ dispatched + ToDispatch <= decoded
         /\ dispatched + ToDispatch - retired <= ROB_SIZE
<1> DEFINE S == {n \in 0 .. DECODE_WIDTH :
                   /\ dispatched + n - retired <= ROB_SIZE
                   /\ \A i \in dispatched + 1 .. dispatched + n :
                        i \in DECODE_BUFFER /\ (warmup_complete => event_cycle[i] = "passed")}
<1>1. DECODE_WIDTH \in Nat /\ ROB_SIZE \in Nat
  BY FrontEndAssumption
<1>2. 0 \in S
  BY <1>1
<1>3. Max(S) \in S
  BY <1>1, <1>2, MaxOfBounded
<1>4. ASSUME NEW n \in S
      PROVE  n \in Nat /\ dispatched + n <= decoded /\ dispatched + n - retired <= ROB_SIZE
  <2>1. CASE n = 0
    BY <2>1
  <2>2. CASE n # 0
    <3>1. dispatched + n \in dispatched + 1 .. dispatched + n
      BY <1>1, <2>2
    <3>2. dispatched + n \in DECODE_BUFFER
      BY <3>1
    <3>3. QED
      BY <1>1, <3>2 DEF DECODE_BUFFER
  <2>3. QED
    BY <2>1, <2>2
<1>5. QED
  BY <1>3, <1>4 DEF ToDispatch

LEMMA DecodeWidth ==
  ASSUME dispatched \in Nat, decoded \in Nat, instr_unique_id \in Nat,
         dispatched <= decoded, decoded <= instr_unique_id,
         decoded - dispatched <= DECODE_SIZE, NEW marks
  PROVE  /\ ToDecode(marks) \in Nat /\ decoded + ToDecode(marks) <= instr_unique_id
         /\ decoded + ToDecode(marks) - dispatched <= DECODE_SIZE
<1> DEFINE S == {n \in 0 .. DECODE_WIDTH :
                   /\ decoded + n - dispatched <= DECODE_SIZE
                   /\ \A i \in decoded + 1 .. decoded + n :
                        i \in IFETCH_BUFFER /\ marks[i] = "COMPLETED"}
<1>1. DECODE_WIDTH \in Nat
  BY FrontEndAssumption
<1>2. 0 \in S
  BY <1>1
<1>3. Max(S) \in S
  BY <1>1, <1>2, MaxOfBounded
<1>4. ASSUME NEW n \in S
      PROVE  n \in Nat /\ decoded + n <= instr_unique_id /\ decoded + n - dispatched <= DECODE_SIZE
  <2>1. CASE n = 0
    BY <2>1
  <2>2. CASE n # 0
    <3>1. decoded + n \in decoded + 1 .. decoded + n
      BY <1>1, <2>2
    <3>2. decoded + n \in IFETCH_BUFFER
      BY <3>1
    <3>3. QED
      BY <1>1, <3>2 DEF IFETCH_BUFFER
  <2>3. QED
    BY <2>1, <2>2
<1>5. QED
  BY <1>3, <1>4 DEF ToDecode

-----------------------------------------------------------------------------
(* The inductive invariant.                                                *)

(* The buffers hold neighbouring parts of the trace, each within its size. *)
Ordered ==
  /\ retired \in Nat /\ dispatched \in Nat /\ decoded \in Nat
  /\ instr_unique_id \in 0 .. Length
  /\ retired <= dispatched /\ dispatched <= decoded /\ decoded <= instr_unique_id
  /\ dispatched - retired <= ROB_SIZE /\ decoded - dispatched <= DECODE_SIZE
  /\ executed \subseteq 1 .. dispatched
  /\ mispredicted \subseteq Branches /\ mispredicted \subseteq 1 .. instr_unique_id

(* A mispredicted branch that has not executed is the last instruction     *)
(* read, and what has to happen before another is read has not happened.   *)
Waits ==
  \A i \in mispredicted \ executed :
    /\ i = instr_unique_id /\ loop = NotReading
    /\ fetch_stall = 1 /\ fetch_resume = "unset"

(* fetch_resume_cycle is set during a stall only.                          *)
ResumesStall == fetch_resume # "unset" => fetch_stall = 1

(* The loop does not go on after a stall, or at the end of the trace.      *)
LoopEnds == loop # NotReading => fetch_stall = 0 /\ instr_unique_id < Length

(* It counts.                                                              *)
LoopCounts == loop.num_reads \in Nat

StallInv == Ordered /\ Waits /\ ResumesStall /\ LoopEnds /\ LoopCounts

LEMMA Sizes == /\ DECODE_WIDTH \in Nat /\ FETCH_WIDTH \in Nat \ {0} /\ ROB_SIZE \in Nat
               /\ DECODE_SIZE \in Nat /\ Length \in Nat /\ Instrs = 1 .. Length
<1>1. /\ DECODE_WIDTH \in Nat /\ FETCH_WIDTH \in Nat \ {0} /\ ROB_SIZE \in Nat
  BY FrontEndAssumption
<1>2. Trace \in Seq([line : Nat, branch : {"no", "taken", "untaken"}])
  BY FrontEndAssumption, Zenon
<1>3. Length \in Nat
  BY <1>2, LenProperties, Zenon DEF Length
<1>4. QED
  BY <1>1, <1>3 DEF DECODE_SIZE, Instrs

(* An instruction that is read is a new one; only a misprediction stalls,  *)
(* and the loop ends with it.                                              *)
LEMMA ReadKeeps ==
  ASSUME StallInv, NEW p \in {"right", "wrong"}, ReadInstruction(p)
  PROVE  StallInv'
<1> DEFINE i == instr_unique_id + 1
           limit == instrs_to_read_after(i, p)
           marked == Mispredicts(p)
<1>1. /\ Ordered /\ Waits /\ ResumesStall /\ LoopEnds /\ LoopCounts /\ loop # NotReading
  BY DEF StallInv, ReadInstruction
<1>2. /\ fetch_stall = 0 /\ fetch_resume = "unset" /\ mispredicted \subseteq executed
      /\ instr_unique_id \in Nat /\ instr_unique_id < Length /\ Length \in Nat
  <2>1. fetch_stall = 0 /\ instr_unique_id < Length
    BY <1>1 DEF LoopEnds
  <2>2. fetch_resume = "unset"
    BY <1>1, <2>1 DEF ResumesStall
  <2>3. mispredicted \subseteq executed
    BY <1>1, <2>1 DEF Waits
  <2>4. QED
    BY <1>1, <2>1, <2>2, <2>3, Sizes DEF Ordered
<1>3. /\ retired' = retired /\ dispatched' = dispatched /\ decoded' = decoded
      /\ executed' = executed /\ fetch_resume' = fetch_resume /\ instr_unique_id' = i
      /\ fetch_stall' = IF marked THEN 1 ELSE fetch_stall
      /\ mispredicted' = IF marked THEN mispredicted \cup {i} ELSE mispredicted
      /\ marked => i \in Branches
  BY DEF ReadInstruction, Mispredicts, decode, rob
<1>4. /\ loop' = NotReading
         \/ /\ loop' = [num_reads |-> loop.num_reads + 1, instrs_to_read |-> limit]
            /\ ~(loop.num_reads + 1 >= limit) /\ i # Length
      /\ marked => limit = 0
  BY DEF ReadInstruction, instrs_to_read_after
<1>5. marked => loop' = NotReading
  <2>1. loop.num_reads + 1 >= 0
    BY <1>1 DEF LoopCounts
  <2>2. QED
    BY <1>4, <2>1
<1>6. Ordered'
  <2>1. i \in 0 .. Length /\ decoded <= i /\ i \in 1 .. i /\ 1 .. instr_unique_id \subseteq 1 .. i
    BY <1>1, <1>2 DEF Ordered
  <2>2. mispredicted' \subseteq Branches /\ mispredicted' \subseteq 1 .. i
    BY <1>1, <1>3, <2>1 DEF Ordered
  <2>3. QED
    BY <1>1, <1>3, <2>1, <2>2 DEF Ordered
<1>7. Waits'
  BY <1>2, <1>3, <1>5 DEF Waits
<1>8. ResumesStall'
  BY <1>2, <1>3 DEF ResumesStall
<1>9. LoopEnds'
  <2>1. SUFFICES ASSUME loop' # NotReading
                 PROVE  fetch_stall' = 0 /\ instr_unique_id' < Length
    BY DEF LoopEnds
  <2>2. ~marked /\ i # Length
    BY <1>4, <1>5, <2>1
  <2>3. QED
    BY <1>2, <1>3, <2>2
<1>10. LoopCounts'
  BY <1>1, <1>4 DEF LoopCounts, NotReading
<1>11. QED
  BY <1>6, <1>7, <1>8, <1>9, <1>10 DEF StallInv

(* Fetching takes a stall back only when the branch has executed.          *)
LEMMA FetchKeeps ==
  ASSUME StallInv, fetch_instruction
  PROVE  StallInv'
<1> DEFINE n == ToDecode(fetched')
<1>1. /\ Ordered /\ Waits /\ ResumesStall /\ LoopCounts /\ loop = NotReading
  BY DEF StallInv, fetch_instruction, Cycle
<1>2. n \in Nat /\ decoded + n <= instr_unique_id /\ decoded + n - dispatched <= DECODE_SIZE
  BY <1>1, DecodeWidth DEF Ordered
<1> HIDE DEF n
<1>3. /\ retired' = retired /\ dispatched' = dispatched /\ decoded' = decoded + n
      /\ executed' = executed /\ instr_unique_id' = instr_unique_id
      /\ mispredicted' = mispredicted /\ loop' = loop
      /\ \/ fetch_stall' = fetch_stall /\ fetch_resume' = fetch_resume
         \/ fetch_stall = 1 /\ fetch_resume = "passed" /\ fetch_stall' = 0 /\ fetch_resume' = "unset"
  BY DEF fetch_instruction, reader, rob, n
<1>4. Ordered'
  BY <1>1, <1>2, <1>3 DEF Ordered
<1>5. Waits' /\ ResumesStall'
  BY <1>1, <1>3 DEF Waits, ResumesStall
<1>6. LoopEnds' /\ LoopCounts'
  BY <1>1, <1>3 DEF LoopEnds, LoopCounts
<1>7. QED
  BY <1>4, <1>5, <1>6 DEF StallInv

(* Dispatch moves what the DECODE_BUFFER holds into a ROB with room.       *)
LEMMA DispatchKeeps ==
  ASSUME StallInv, decode_and_dispatch
  PROVE  StallInv'
<1>1. Ordered /\ Waits /\ ResumesStall /\ LoopEnds /\ LoopCounts
  BY DEF StallInv
<1>2. /\ ToDispatch \in Nat /\ dispatched + ToDispatch <= decoded
      /\ dispatched + ToDispatch - retired <= ROB_SIZE
  BY <1>1, DispatchWidth DEF Ordered
<1>3. /\ retired' = retired /\ dispatched' = dispatched + ToDispatch /\ decoded' = decoded
      /\ executed' = executed /\ instr_unique_id' = instr_unique_id
      /\ mispredicted' = mispredicted /\ loop' = loop
      /\ fetch_stall' = fetch_stall /\ fetch_resume' = fetch_resume
  BY DEF decode_and_dispatch, reader, stall
<1>4. Ordered'
  <2> DEFINE n == ToDispatch
  <2> HIDE DEF n
  <2>1. n \in Nat /\ dispatched + n <= decoded /\ dispatched + n - retired <= ROB_SIZE
    BY <1>2 DEF n
  <2>2. dispatched' = dispatched + n
    BY <1>3 DEF n
  <2>3. QED
    BY <1>1, <1>3, <2>1, <2>2, Sizes DEF Ordered
<1>5. Waits' /\ ResumesStall' /\ LoopEnds' /\ LoopCounts'
  BY <1>1, <1>3 DEF Waits, ResumesStall, LoopEnds, LoopCounts
<1>6. QED
  BY <1>4, <1>5 DEF StallInv

(* A mispredicted branch that executes lets the stall end.                 *)
LEMMA ExecutionKeeps ==
  ASSUME StallInv, NEW i, complete_execution(i)
  PROVE  StallInv'
<1>1. Ordered /\ Waits /\ ResumesStall /\ LoopEnds /\ LoopCounts
  BY DEF StallInv
<1>2. /\ i \in 1 .. dispatched /\ i \notin executed /\ executed' = executed \cup {i}
      /\ fetch_resume' = IF i \in mispredicted THEN "running" ELSE fetch_resume
      /\ retired' = retired /\ dispatched' = dispatched /\ decoded' = decoded
      /\ instr_unique_id' = instr_unique_id /\ mispredicted' = mispredicted /\ loop' = loop
      /\ fetch_stall' = fetch_stall
  BY <1>1 DEF complete_execution, ROB, reader, decode, Ordered
<1>3. Ordered' /\ LoopEnds' /\ LoopCounts'
  BY <1>1, <1>2 DEF Ordered, LoopEnds, LoopCounts
<1>4. ResumesStall'
  BY <1>1, <1>2 DEF ResumesStall, Waits
<1>5. Waits'
  <2>1. SUFFICES ASSUME NEW j \in mispredicted \ executed, j # i
                 PROVE  /\ j = instr_unique_id /\ loop = NotReading /\ fetch_stall = 1
                        /\ fetch_resume' = "unset"
    BY <1>2 DEF Waits
  <2>2. j = instr_unique_id /\ loop = NotReading /\ fetch_stall = 1 /\ fetch_resume = "unset"
    BY <1>1, <2>1 DEF Waits
  <2>3. i \notin mispredicted
    BY <1>1, <1>2, <2>1, <2>2 DEF Waits
  <2>4. QED
    BY <1>2, <2>2, <2>3
<1>6. QED
  BY <1>3, <1>4, <1>5 DEF StallInv

(* All other steps leave what it is about alone, but for the penalty that  *)
(* passes, the loop that begins and the retirement of an instruction.      *)
LEMMA OthersKeep ==
  ASSUME StallInv,
         \/ BeginReading \/ LatencyOver \/ PenaltyOver \/ retire_rob
         \/ CompleteWarmup \/ ReadHit \/ ReadMiss \/ (\E m \in MSHR : Fill(m))
         \/ complete_instr_fetch \/ UNCHANGED vars
  PROVE  StallInv'
<1> DEFINE same == /\ dispatched' = dispatched /\ decoded' = decoded /\ executed' = executed
                   /\ instr_unique_id' = instr_unique_id /\ mispredicted' = mispredicted
                   /\ fetch_stall' = fetch_stall
<1>1. Ordered /\ Waits /\ ResumesStall /\ LoopEnds /\ LoopCounts
  BY DEF StallInv
<1>2. CASE BeginReading
  <2>1. /\ same /\ retired' = retired /\ fetch_resume' = fetch_resume
        /\ fetch_stall = 0 /\ instr_unique_id < Length
        /\ loop' = [num_reads |-> 0, instrs_to_read |-> FETCH_WIDTH]
    BY <1>2 DEF BeginReading, decode, rob, stall
  <2>2. mispredicted \subseteq executed
    BY <1>1, <2>1 DEF Waits
  <2>3. Ordered' /\ Waits' /\ ResumesStall' /\ LoopEnds' /\ LoopCounts'
    BY <1>1, <2>1, <2>2 DEF Ordered, Waits, ResumesStall, LoopEnds, LoopCounts
  <2>4. QED
    BY <2>3 DEF StallInv
<1>3. CASE PenaltyOver
  <2>1. /\ same /\ retired' = retired /\ loop' = loop
        /\ fetch_resume = "running" /\ fetch_resume' = "passed"
    BY <1>3 DEF PenaltyOver, reader, decode, rob
  <2>2. Ordered' /\ Waits' /\ ResumesStall' /\ LoopEnds' /\ LoopCounts'
    BY <1>1, <2>1 DEF Ordered, Waits, ResumesStall, LoopEnds, LoopCounts
  <2>3. QED
    BY <2>2 DEF StallInv
<1>4. CASE retire_rob
  <2>1. /\ same /\ loop' = loop /\ fetch_resume' = fetch_resume
        /\ retired < dispatched /\ retired' = retired + 1
    BY <1>4 DEF retire_rob, reader, decode, stall
  <2>2. Ordered' /\ Waits' /\ ResumesStall' /\ LoopEnds' /\ LoopCounts'
    BY <1>1, <2>1, Sizes DEF Ordered, Waits, ResumesStall, LoopEnds, LoopCounts
  <2>3. QED
    BY <2>2 DEF StallInv
<1>5. CASE \/ LatencyOver \/ CompleteWarmup \/ ReadHit \/ ReadMiss
           \/ (\E m \in MSHR : Fill(m)) \/ complete_instr_fetch \/ UNCHANGED vars
  <2>1. same /\ retired' = retired /\ loop' = loop /\ fetch_resume' = fetch_resume
    BY <1>5 DEF LatencyOver, CompleteWarmup, ReadHit, ReadMiss, Fill,
                complete_instr_fetch, vars, reader, decode, rob, stall
  <2>2. Ordered' /\ Waits' /\ ResumesStall' /\ LoopEnds' /\ LoopCounts'
    BY <1>1, <2>1 DEF Ordered, Waits, ResumesStall, LoopEnds, LoopCounts
  <2>3. QED
    BY <2>2 DEF StallInv
<1>6. QED
  BY <1>2, <1>3, <1>4, <1>5

(* The invariant that mispredictions stop the reading: they do until they  *)
(* have executed, and nothing behind them is in any buffer.                *)
THEOREM StallInvariant == Spec => []StallInv
<1>1. Init => StallInv
  BY Sizes DEF Init, StallInv, Ordered, Waits, ResumesStall, LoopEnds, LoopCounts, NotReading
<1>2. StallInv /\ [Next]_vars => StallInv'
  BY ReadKeeps, FetchKeeps, DispatchKeeps, ExecutionKeeps, OthersKeep DEF Next
<1>3. QED
  BY <1>1, <1>2, PTL DEF Spec

-----------------------------------------------------------------------------
(* The refinement of InstructionStream.                                    *)

(* The instructions that enter the ROB arrive, in the abstract.            *)
LEMMA DispatchArrives ==
  ASSUME StallInv, decode_and_dispatch
  PROVE  Stream!SomeArrive \/ UNCHANGED <<dispatched, executed, mispredicted>>
<1> DEFINE n == ToDispatch
           seen == mispredicted \cap 1 .. dispatched
<1>1. Ordered /\ Waits
  BY DEF StallInv
<1>2. n \in Nat /\ dispatched + n <= decoded
  BY <1>1, DispatchWidth DEF Ordered
<1>3. dispatched' = dispatched + n /\ executed' = executed /\ mispredicted' = mispredicted
  BY DEF decode_and_dispatch, reader
<1> HIDE DEF n
<1>4. CASE n = 0
  BY <1>1, <1>3, <1>4 DEF Ordered
<1>5. CASE n # 0
  <2>1. n \in 1 .. Length /\ dispatched + n <= Length
    BY <1>1, <1>2, <1>5, Sizes DEF Ordered
  <2>2. \A i \in mispredicted \ executed : i >= dispatched + n
    BY <1>1, <1>2 DEF Waits, Ordered
  <2>3. seen \subseteq executed
    BY <1>1, <1>2, <1>5, <2>2 DEF Ordered
  <2>4. seen' = seen \/ seen' = seen \cup (Branches \cap {dispatched'})
    <3>1. \A i \in seen' : i \in seen \/ i = dispatched + n
      <4>1. SUFFICES ASSUME NEW i \in mispredicted, i \in 1 .. dispatched + n, i > dispatched
                     PROVE  i = dispatched + n
        BY <1>1, <1>2, <1>3 DEF Ordered
      <4>2. i \notin executed
        BY <1>1, <4>1 DEF Ordered
      <4>3. QED
        BY <1>1, <1>2, <2>2, <4>1, <4>2 DEF Ordered
    <3>2. seen \subseteq seen'
      BY <1>1, <1>2, <1>3 DEF Ordered
    <3>3. mispredicted \subseteq Branches
      BY <1>1 DEF Ordered
    <3>4. CASE dispatched + n \in mispredicted
      <4>1. dispatched + n \in Branches /\ dispatched + n \in seen'
        BY <1>1, <1>2, <1>3, <2>1, <3>3, <3>4 DEF Ordered
      <4>2. seen' = seen \cup {dispatched + n}
        BY <3>1, <3>2, <4>1
      <4>3. QED
        BY <1>3, <4>1, <4>2
    <3>5. CASE dispatched + n \notin mispredicted
      BY <1>3, <3>1, <3>2, <3>5
    <3>6. QED
      BY <3>4, <3>5
  <2>5. Stream!Arrive(n)
    BY <1>3, <2>1, <2>3, <2>4 DEF Stream!Arrive
  <2>6. QED
    BY <2>1, <2>5 DEF Stream!SomeArrive
<1>6. QED
  BY <1>4, <1>5

(* Whatever is read, the mispredicted branches in the ROB stay the same.   *)
LEMMA ReadIsSilent ==
  ASSUME StallInv, NEW p \in {"right", "wrong"}, ReadInstruction(p)
  PROVE  UNCHANGED <<dispatched, executed, mispredicted \cap 1 .. dispatched>>
<1>1. instr_unique_id \in Nat /\ dispatched \in Nat /\ dispatched <= instr_unique_id
  BY Sizes DEF StallInv, Ordered
<1>2. /\ dispatched' = dispatched /\ executed' = executed
      /\ mispredicted' \in {mispredicted, mispredicted \cup {instr_unique_id + 1}}
  BY DEF ReadInstruction, rob
<1>3. instr_unique_id + 1 \notin 1 .. dispatched
  BY <1>1
<1>4. QED
  BY <1>2, <1>3

(* The front end hands the ROB the instructions of the trace in order, and *)
(* none behind a mispredicted branch before that branch has executed, for  *)
(* every trace and whatever the L1I does.                                  *)
THEOREM RefinesStream == Spec => Stream!StreamSpec
<1>1. Init => Stream!StreamInit
  BY DEF Init, Stream!StreamInit
<1>2. StallInv /\ [Next]_vars => [Stream!StreamNext]_(Stream!streamVars)
  <2>1. SUFFICES ASSUME StallInv, [Next]_vars
                 PROVE  Stream!StreamNext \/ UNCHANGED Stream!streamVars
    OBVIOUS
  <2> DEFINE silent == UNCHANGED <<dispatched, executed, mispredicted \cap 1 .. dispatched>>
  <2>2. CASE decode_and_dispatch
    BY <2>1, <2>2, DispatchArrives DEF Stream!StreamNext, Stream!streamVars
  <2>3. ASSUME NEW i \in ROB, complete_execution(i)
        PROVE  Stream!StreamNext
    <3>1. /\ i \in 1 .. dispatched \ executed /\ executed' = executed \cup {i}
          /\ dispatched' = dispatched /\ mispredicted' = mispredicted
      BY <2>1, <2>3 DEF complete_execution, ROB, reader, StallInv, Ordered
    <3>2. Stream!Execute(i)
      BY <3>1 DEF Stream!Execute
    <3>3. QED
      BY <3>1, <3>2 DEF Stream!StreamNext
  <2>4. ASSUME NEW p \in {"right", "wrong"}, ReadInstruction(p)
        PROVE  silent
    BY <2>1, <2>4, ReadIsSilent
  <2>5. CASE \/ BeginReading \/ fetch_instruction \/ LatencyOver \/ PenaltyOver
             \/ retire_rob \/ CompleteWarmup \/ ReadHit \/ ReadMiss
             \/ (\E m \in MSHR : Fill(m)) \/ complete_instr_fetch \/ UNCHANGED vars
    <3>1. dispatched' = dispatched /\ executed' = executed /\ mispredicted' = mispredicted
      BY <2>5 DEF BeginReading, fetch_instruction, LatencyOver, PenaltyOver,
                  retire_rob, CompleteWarmup, ReadHit, ReadMiss, Fill, complete_instr_fetch,
                  vars, reader, decode, rob, stall
    <3>2. silent
      BY <3>1
    <3>3. QED
      BY <3>2 DEF Stream!streamVars
  <2>6. QED
    BY <2>1, <2>2, <2>3, <2>4, <2>5 DEF Next, Stream!streamVars
<1>3. QED
  BY <1>1, <1>2, StallInvariant, PTL DEF Spec, Stream!StreamSpec
-----------------------------------------------------------------------------
(* The scan of the IFETCH_BUFFER.                                          *)

(* A set of numbers that is not empty has a least one.                     *)
LEMMA LeastNumber ==
  ASSUME NEW S, S \subseteq Nat, S # {}
  PROVE  \E n \in S : \A m \in S : n <= m
<1>1. PICK n \in S : \A m \in S : ~ (<<m, n>> \in OpToRel(<, Nat))
  BY NatLessThanWellFounded, WFMin
<1>2. ASSUME NEW m \in S
      PROVE  n <= m
  <2>1. <<m, n>> \in Nat \X Nat
    BY <1>1
  <2>2. ~ (m < n)
    BY <1>1, <2>1 DEF OpToRel
  <2>3. QED
    BY <2>1, <2>2
<1>3. QED
  BY <1>2

Scanned(f, n) ==
  f = [i \in decoded .. n |-> IF i = decoded THEN [fetched |-> fetched, rq |-> RQ]
                                             ELSE RequestLine(f[i - 1], i)]

(* The states the scan passes through exist, up to any entry.              *)
LEMMA ScanExists ==
  ASSUME decoded \in Nat, instr_unique_id \in Nat
  PROVE  \A n \in decoded .. instr_unique_id : \E f : Scanned(f, n)
<1> DEFINE Missing == {n \in decoded .. instr_unique_id : ~ \E f : Scanned(f, n)}
<1>1. SUFFICES ASSUME Missing # {} PROVE FALSE
  OBVIOUS
<1>2. PICK n \in Missing : \A m \in Missing : n <= m
  <2>1. Missing \subseteq Nat
    OBVIOUS
  <2>2. QED
    BY <1>1, <2>1, LeastNumber
<1>3. CASE n = decoded
  <2> DEFINE g == [i \in decoded .. n |-> [fetched |-> fetched, rq |-> RQ]]
  <2>1. Scanned(g, n)
    BY <1>3 DEF Scanned
  <2>2. QED
    BY <1>2, <2>1
<1>4. CASE n # decoded
  <2>1. n - 1 \in decoded .. instr_unique_id /\ n - 1 \notin Missing
    BY <1>2, <1>4
  <2>2. PICK f : Scanned(f, n - 1)
    BY <2>1
  <2> DEFINE g == [i \in decoded .. n |-> IF i = n THEN RequestLine(f[n - 1], n) ELSE f[i]]
  <2>3. ASSUME NEW i \in decoded .. n
        PROVE  g[i] = IF i = decoded THEN [fetched |-> fetched, rq |-> RQ]
                                     ELSE RequestLine(g[i - 1], i)
    <3>1. CASE i = n
      <4>1. n - 1 \in decoded .. n /\ n - 1 # n
        BY <2>1
      <4>2. g[n - 1] = f[n - 1] /\ g[n] = RequestLine(f[n - 1], n)
        BY <4>1, <1>2
      <4>3. QED
        BY <3>1, <4>2, <1>4
    <3>2. CASE i # n
      <4>1. i \in decoded .. n - 1 /\ g[i] = f[i]
        BY <3>2, <2>3, <1>2
      <4>2. f[i] = IF i = decoded THEN [fetched |-> fetched, rq |-> RQ]
                                  ELSE RequestLine(f[i - 1], i)
        BY <2>2, <4>1 DEF Scanned
      <4>3. i # decoded => i - 1 \in decoded .. n /\ i - 1 # n
        BY <4>1, <1>2
      <4>4. i # decoded => g[i - 1] = f[i - 1]
        BY <4>3
      <4>5. QED
        BY <4>1, <4>2, <4>4
    <3>3. QED
      BY <3>1, <3>2
  <2>4. Scanned(g, n)
    BY <2>3 DEF Scanned
  <2>5. QED
    BY <1>2, <2>4
<1>5. QED
  BY <1>3, <1>4

(* What holds before the scan, and what no request of an entry ends, holds *)
(* after it.                                                               *)
LEMMA ScanKeeps ==
  ASSUME decoded \in Nat, instr_unique_id \in Nat, decoded <= instr_unique_id,
         NEW Good, [fetched |-> fetched, rq |-> RQ] \in Good,
         \A s \in Good, i \in IFETCH_BUFFER : RequestLine(s, i) \in Good
  PROVE  RequestLines \in Good
<1> DEFINE f == CHOOSE g : Scanned(g, instr_unique_id)
           Lost == {n \in decoded .. instr_unique_id : f[n] \notin Good}
<1>1. RequestLines = f[instr_unique_id]
  BY DEF RequestLines, Scanned
<1>2. Scanned(f, instr_unique_id)
  BY ScanExists
<1> HIDE DEF f
<1>3. \A n \in decoded .. instr_unique_id :
        f[n] = IF n = decoded THEN [fetched |-> fetched, rq |-> RQ] ELSE RequestLine(f[n - 1], n)
  BY <1>2 DEF Scanned
<1>4. Lost = {}
  <2>1. SUFFICES ASSUME Lost # {} PROVE FALSE
    OBVIOUS
  <2>2. PICK n \in Lost : \A m \in Lost : n <= m
    <3>1. Lost \subseteq Nat
      OBVIOUS
    <3>2. QED
      BY <2>1, <3>1, LeastNumber
  <2>3. n # decoded
    BY <1>3, <2>2
  <2>4. n - 1 \in decoded .. instr_unique_id /\ n - 1 \notin Lost /\ n \in IFETCH_BUFFER
    BY <2>2, <2>3 DEF IFETCH_BUFFER
  <2>5. RequestLine(f[n - 1], n) \in Good
    BY <2>4
  <2>6. QED
    BY <1>3, <2>2, <2>3, <2>5
<1>5. QED
  BY <1>1, <1>4
-----------------------------------------------------------------------------
(* The types.                                                              *)

Marks == {"no", "INFLIGHT", "COMPLETED"}
Cycles == {"unset", "running", "passed"}

(* What the reader writes; while it goes on, the IFETCH_BUFFER has room.   *)
ReaderTyped ==
  /\ DOMAIN table \subseteq Lines /\ \A l \in DOMAIN table : table[l] \in Frames
  /\ instruction_pa \in Seq(Frames) /\ Len(instruction_pa) = instr_unique_id
  /\ loop \in [num_reads : 0 .. FETCH_WIDTH, instrs_to_read : {0, FETCH_WIDTH}]
  /\ instr_unique_id - decoded <= IFETCH_SIZE
  /\ loop # NotReading => instr_unique_id - decoded < IFETCH_SIZE

ModesTyped ==
  warmup_complete \in BOOLEAN /\ fetch_stall \in {0, 1} /\ fetch_resume \in Cycles

MarksTyped == fetched \in [Instrs -> Marks] /\ event_cycle \in [Instrs -> Cycles]

L1ITyped ==
  /\ RQ \in Seq(Request) /\ PROCESSED \in Seq(Request) /\ MSHR \subseteq Request
  /\ Len(RQ) <= RQ_SIZE /\ IsFiniteSet(MSHR) /\ Cardinality(MSHR) <= MSHR_SIZE

TypedInv == ReaderTyped /\ ModesTyped /\ MarksTyped /\ L1ITyped

(* The trace is made of lines.                                             *)
LEMMA TraceLines == Lines \subseteq Nat /\ \A i \in Instrs : Trace[i].line \in Lines
<1>1. Trace \in Seq([line : Nat, branch : {"no", "taken", "untaken"}])
  BY FrontEndAssumption, Zenon
<1>2. \A i \in Instrs : Trace[i] \in [line : Nat, branch : {"no", "taken", "untaken"}]
  BY <1>1, ElementOfSeq, Zenon DEF Instrs, Length
<1>3. QED
  BY <1>2 DEF Lines

(* va_to_pa() maps the line it looks up, to a frame.                       *)
LEMMA Translated ==
  ASSUME DOMAIN table \subseteq Lines, \A l \in DOMAIN table : table[l] \in Frames,
         NEW l \in Lines
  PROVE  /\ l \in DOMAIN va_to_pa(l) /\ DOMAIN va_to_pa(l) \subseteq Lines
         /\ \A k \in DOMAIN va_to_pa(l) : va_to_pa(l)[k] \in Frames
<1> DEFINE used == {table[k] : k \in DOMAIN table}
           with(t, f) == [k \in DOMAIN t \cup {l} |-> IF k = l THEN f ELSE t[k]]
           first == Min(DOMAIN table)
           free == CHOOSE f \in Frames : f \notin used
           rest == [k \in DOMAIN table \ {first} |-> table[k]]
<1>1. va_to_pa(l) = IF l \in DOMAIN table THEN table
                    ELSE IF used # Frames THEN with(table, free)
                    ELSE with(rest, table[first])
  BY DEF va_to_pa
<1>2. CASE l \in DOMAIN table
  BY <1>1, <1>2
<1>3. CASE l \notin DOMAIN table /\ used # Frames
  <2>1. \E f \in Frames : f \notin used
    BY <1>3
  <2>2. free \in Frames
    BY <2>1
  <2> HIDE DEF free
  <2>3. QED
    BY <1>1, <1>3, <2>2
<1>4. CASE l \notin DOMAIN table /\ used = Frames
  <2>1. DOMAIN table # {} /\ DOMAIN table \subseteq Nat
    BY <1>4, FrontEndAssumption, TraceLines
  <2>2. PICK n \in DOMAIN table : \A m \in DOMAIN table : n <= m
    BY <2>1, LeastNumber
  <2>3. first \in DOMAIN table
    BY <2>2 DEF Min
  <2> HIDE DEF first
  <2>4. QED
    BY <1>1, <1>4, <2>3
<1>5. QED
  BY <1>2, <1>3, <1>4

LEMMA ReadTyped ==
  ASSUME StallInv, TypedInv, NEW p \in {"right", "wrong"}, ReadInstruction(p)
  PROVE  TypedInv'
<1> DEFINE i == instr_unique_id + 1
           l == Trace[i].line
           reads == loop.num_reads + 1
           limit == instrs_to_read_after(i, p)
<1>1. /\ i \in Instrs /\ instr_unique_id \in Nat /\ decoded \in Nat /\ Length \in Nat
      /\ fetch_stall = 0 /\ FETCH_WIDTH \in Nat \ {0} /\ IFETCH_SIZE \in Nat
  BY Sizes DEF StallInv, Ordered, LoopEnds, ReadInstruction, IFETCH_SIZE
<1>2. l \in Lines
  BY <1>1, TraceLines
<1>3. /\ instr_unique_id' = i /\ decoded' = decoded /\ table' = va_to_pa(l)
      /\ instruction_pa' = Append(instruction_pa, table'[l]) /\ loop # NotReading
      /\ loop' = IF reads >= limit \/ i - decoded = IFETCH_SIZE \/ i = Length
                 THEN NotReading ELSE [num_reads |-> reads, instrs_to_read |-> limit]
  BY DEF ReadInstruction, decode
<1>4. /\ l \in DOMAIN table' /\ DOMAIN table' \subseteq Lines
      /\ \A k \in DOMAIN table' : table'[k] \in Frames
  BY <1>2, <1>3, Translated DEF TypedInv, ReaderTyped
<1>5. instruction_pa' \in Seq(Frames) /\ Len(instruction_pa') = i
  <2>1. instruction_pa \in Seq(Frames) /\ Len(instruction_pa) = instr_unique_id
    BY DEF TypedInv, ReaderTyped
  <2>2. table'[l] \in Frames
    BY <1>4
  <2>3. QED
    BY <1>3, <2>1, <2>2, AppendProperties
<1>6. loop \in [num_reads : 0 .. FETCH_WIDTH, instrs_to_read : {0, FETCH_WIDTH}]
      /\ instr_unique_id - decoded < IFETCH_SIZE
  BY <1>3 DEF TypedInv, ReaderTyped
<1>7. limit \in {0, FETCH_WIDTH} /\ reads \in Nat
  BY <1>1, <1>6 DEF instrs_to_read_after
<1> HIDE DEF limit, reads, l
<1>8. /\ loop' \in [num_reads : 0 .. FETCH_WIDTH, instrs_to_read : {0, FETCH_WIDTH}]
      /\ i - decoded <= IFETCH_SIZE
      /\ loop' # NotReading => i - decoded < IFETCH_SIZE
  BY <1>1, <1>3, <1>6, <1>7 DEF NotReading
<1>9. ReaderTyped'
  BY <1>3, <1>4, <1>5, <1>8 DEF ReaderTyped
<1>10. ModesTyped'
  BY DEF TypedInv, ModesTyped, ReadInstruction
<1>11. MarksTyped' /\ L1ITyped'
  BY DEF TypedInv, MarksTyped, L1ITyped, ReadInstruction, decode, L1I
<1>12. QED
  BY <1>9, <1>10, <1>11 DEF TypedInv

(* A scan leaves marks, and a read queue within its size.                  *)
LEMMA ScanTyped ==
  ASSUME StallInv, TypedInv
  PROVE  /\ RequestLines.fetched \in [Instrs -> Marks]
         /\ RequestLines.rq \in Seq(Request) /\ Len(RequestLines.rq) <= RQ_SIZE
<1> DEFINE Good == {s \in [fetched : [Instrs -> Marks], rq : Seq(Request)] : Len(s.rq) <= RQ_SIZE}
<1>1. decoded \in Nat /\ instr_unique_id \in Nat /\ decoded <= instr_unique_id /\ RQ_SIZE \in Nat
  BY Sizes, FrontEndAssumption DEF StallInv, Ordered
<1>2. [fetched |-> fetched, rq |-> RQ] \in Good
  BY DEF TypedInv, MarksTyped, L1ITyped
<1>3. ASSUME NEW s \in Good, NEW i \in IFETCH_BUFFER
      PROVE  RequestLine(s, i) \in Good
  <2> DEFINE pa == instruction_pa[i]
             r == [pa |-> pa, line |-> line(i)]
             marks == MarkLine(s.fetched, line(i), "INFLIGHT")
  <2>1. CASE s.fetched[i] # "no" \/ Refuses(s.rq, pa)
    BY <2>1 DEF RequestLine
  <2>2. CASE ~(s.fetched[i] # "no" \/ Refuses(s.rq, pa))
    <3>1. r \in Request
      <4>1. i \in Instrs /\ i \in 1 .. Len(instruction_pa) /\ instruction_pa \in Seq(Frames)
        BY <1>1, Sizes DEF IFETCH_BUFFER, StallInv, Ordered, TypedInv, ReaderTyped
      <4>2. pa \in Frames
        BY <4>1, ElementOfSeq
      <4>3. line(i) \in Lines
        BY <4>1, TraceLines DEF line
      <4>4. QED
        BY <4>2, <4>3 DEF Request
    <3>2. marks \in [Instrs -> Marks]
      BY DEF MarkLine, Marks
    <3>3. add_rq(s.rq, i) \in Seq(Request) /\ Len(add_rq(s.rq, i)) <= RQ_SIZE
      <4>1. CASE Merges(s.rq, pa)
        BY <4>1 DEF add_rq
      <4>2. CASE ~Merges(s.rq, pa)
        <5>1. s.rq \in Seq(Request) /\ Len(s.rq) \in Nat /\ ~(Len(s.rq) >= RQ_SIZE)
          BY <2>2, <4>2, LenProperties DEF Refuses
        <5>2. add_rq(s.rq, i) = Append(s.rq, r)
          BY <4>2 DEF add_rq
        <5> HIDE DEF r
        <5>3. Append(s.rq, r) \in Seq(Request) /\ Len(Append(s.rq, r)) = Len(s.rq) + 1
          BY <3>1, <5>1, AppendProperties
        <5>4. QED
          BY <1>1, <5>1, <5>2, <5>3
      <4>3. QED
        BY <4>1, <4>2
    <3>4. RequestLine(s, i) = [fetched |-> marks, rq |-> add_rq(s.rq, i)]
      BY <2>2 DEF RequestLine
    <3> HIDE DEF marks
    <3>5. QED
      BY <3>2, <3>3, <3>4
  <2>3. QED
    BY <2>1, <2>2
<1> HIDE DEF Good
<1>4. RequestLines \in Good
  BY <1>1, <1>2, <1>3, ScanKeeps
<1>5. QED
  BY <1>4 DEF Good

LEMMA FetchTyped ==
  ASSUME StallInv, TypedInv, fetch_instruction
  PROVE  TypedInv'
<1>1. /\ decoded \in Nat /\ instr_unique_id \in Nat /\ ToDecode(fetched') \in Nat
      /\ IFETCH_SIZE \in Nat
  BY DecodeWidth, Sizes DEF StallInv, Ordered, IFETCH_SIZE
<1>2. /\ decoded' = decoded + ToDecode(fetched') /\ UNCHANGED reader /\ loop = NotReading
      /\ fetched' = RequestLines.fetched /\ RQ' = RequestLines.rq
      /\ UNCHANGED <<event_cycle, MSHR, PROCESSED, warmup_complete>>
  BY DEF fetch_instruction, Cycle
<1>3. ReaderTyped'
  <2> DEFINE n == ToDecode(fetched')
  <2>1. n \in Nat /\ decoded' = decoded + n
    BY <1>1, <1>2
  <2> HIDE DEF n
  <2>2. QED
    BY <1>1, <1>2, <2>1 DEF TypedInv, ReaderTyped, reader
<1>4. ModesTyped'
  BY DEF TypedInv, ModesTyped, fetch_instruction, Cycles
<1>5. MarksTyped' /\ L1ITyped'
  BY <1>2, ScanTyped DEF TypedInv, MarksTyped, L1ITyped
<1>6. QED
  BY <1>3, <1>4, <1>5 DEF TypedInv

(* The L1I moves requests within their queues.                             *)
LEMMA L1IStepTyped ==
  ASSUME TypedInv, ReadHit \/ ReadMiss \/ (\E m \in MSHR : Fill(m)) \/ complete_instr_fetch
  PROVE  L1ITyped'
<1>1. /\ RQ \in Seq(Request) /\ PROCESSED \in Seq(Request) /\ MSHR \subseteq Request
      /\ Len(RQ) <= RQ_SIZE /\ IsFiniteSet(MSHR) /\ Cardinality(MSHR) <= MSHR_SIZE
      /\ RQ_SIZE \in Nat /\ MSHR_SIZE \in Nat /\ Cardinality(MSHR) \in Nat
  BY FrontEndAssumption, FS_CardinalityType DEF TypedInv, L1ITyped
<1>2. ASSUME NEW q \in Seq(Request), q # <<>>
      PROVE  Head(q) \in Request /\ Tail(q) \in Seq(Request) /\ Len(Tail(q)) = Len(q) - 1
  BY <1>2, HeadTailProperties, Zenon
<1>3. CASE ReadHit
  <2>1. /\ RQ # <<>> /\ PROCESSED' = Append(PROCESSED, Head(RQ)) /\ RQ' = Tail(RQ) /\ MSHR' = MSHR
    BY <1>3 DEF ReadHit
  <2>2. PROCESSED' \in Seq(Request)
    BY <1>1, <1>2, <2>1, AppendProperties
  <2>3. Len(RQ) \in Nat
    BY <1>1, LenProperties
  <2>4. QED
    BY <1>1, <1>2, <2>1, <2>2, <2>3 DEF L1ITyped
<1>4. CASE ReadMiss
  <2>1. /\ RQ # <<>> /\ RQ' = Tail(RQ) /\ PROCESSED' = PROCESSED
        /\ \/ MSHR' = MSHR
           \/ Cardinality(MSHR) < MSHR_SIZE /\ MSHR' = MSHR \cup {Head(RQ)}
    BY <1>4 DEF ReadMiss
  <2>2. MSHR' \subseteq Request /\ IsFiniteSet(MSHR') /\ Cardinality(MSHR') <= MSHR_SIZE
    <3>1. CASE MSHR' = MSHR
      BY <1>1, <3>1
    <3>2. CASE Cardinality(MSHR) < MSHR_SIZE /\ MSHR' = MSHR \cup {Head(RQ)}
      <4>1. /\ IsFiniteSet(MSHR')
            /\ Cardinality(MSHR') = Cardinality(MSHR) \/ Cardinality(MSHR') = Cardinality(MSHR) + 1
        BY <1>1, <3>2, FS_AddElement
      <4>2. QED
        BY <1>1, <1>2, <2>1, <3>2, <4>1
    <3>3. QED
      BY <2>1, <3>1, <3>2
  <2>3. Len(RQ) \in Nat
    BY <1>1, LenProperties
  <2>4. QED
    BY <1>1, <1>2, <2>1, <2>2, <2>3 DEF L1ITyped
<1>5. CASE \E m \in MSHR : Fill(m)
  <2>1. PICK m \in MSHR : /\ MSHR' = MSHR \ {m} /\ PROCESSED' = Append(PROCESSED, m)
                          /\ RQ' = RQ
    BY <1>5 DEF Fill
  <2>2. PROCESSED' \in Seq(Request)
    BY <1>1, <2>1, AppendProperties
  <2>3. IsFiniteSet(MSHR') /\ Cardinality(MSHR') = Cardinality(MSHR) - 1
    BY <1>1, <2>1, FS_RemoveElement
  <2>4. QED
    BY <1>1, <2>1, <2>2, <2>3 DEF L1ITyped
<1>6. CASE complete_instr_fetch
  <2>1. PROCESSED # <<>> /\ PROCESSED' = Tail(PROCESSED) /\ RQ' = RQ /\ MSHR' = MSHR
    BY <1>6 DEF complete_instr_fetch
  <2>2. QED
    BY <1>1, <1>2, <2>1 DEF L1ITyped
<1>7. QED
  BY <1>3, <1>4, <1>5, <1>6

LEMMA OthersTyped ==
  ASSUME StallInv, TypedInv,
         \/ BeginReading \/ decode_and_dispatch \/ LatencyOver \/ PenaltyOver
         \/ (\E i \in ROB : complete_execution(i)) \/ retire_rob \/ CompleteWarmup
         \/ ReadHit \/ ReadMiss \/ (\E m \in MSHR : Fill(m)) \/ complete_instr_fetch
         \/ UNCHANGED vars
  PROVE  TypedInv'
<1>1. ReaderTyped'
  <2>1. CASE BeginReading
    BY <2>1, Sizes DEF BeginReading, decode, TypedInv, ReaderTyped
  <2>2. CASE ~BeginReading
    <3>1. UNCHANGED reader /\ UNCHANGED decoded
      BY <2>2 DEF decode_and_dispatch, LatencyOver, PenaltyOver, complete_execution, retire_rob,
             CompleteWarmup, ReadHit, ReadMiss, Fill, complete_instr_fetch, vars, decode
    <3>2. QED
      BY <3>1 DEF reader, TypedInv, ReaderTyped
  <2>3. QED
    BY <2>1, <2>2
<1>2. ModesTyped'
  BY DEF TypedInv, ModesTyped, Cycles, BeginReading, decode_and_dispatch, LatencyOver, PenaltyOver,
         complete_execution, retire_rob, CompleteWarmup, ReadHit, ReadMiss, Fill,
         complete_instr_fetch, vars, stall
<1>3. fetched' \in [Instrs -> Marks]
  <2>1. CASE complete_instr_fetch
    <3> DEFINE l == Head(PROCESSED).line
    <3>1. fetched' = MarkLine(fetched, l, "COMPLETED")
      BY <2>1 DEF complete_instr_fetch
    <3> HIDE DEF l
    <3>2. QED
      BY <3>1 DEF MarkLine, Marks, TypedInv, MarksTyped
  <2>2. CASE ~complete_instr_fetch
    BY <2>2 DEF TypedInv, MarksTyped, BeginReading, decode_and_dispatch, LatencyOver, PenaltyOver,
           complete_execution, retire_rob, CompleteWarmup, ReadHit, ReadMiss, Fill, vars
  <2>3. QED
    BY <2>1, <2>2
<1>4. event_cycle' \in [Instrs -> Cycles]
  <2>1. CASE decode_and_dispatch
    <3> DEFINE first == StartsLatency(dispatched' + 1)  over == dispatched + 1 .. dispatched'
    <3>1. event_cycle' = [i \in Instrs |-> IF i \in first THEN "running"
                                           ELSE IF i \in over THEN "passed" ELSE event_cycle[i]]
      BY <2>1 DEF decode_and_dispatch
    <3> HIDE DEF first, over
    <3>2. QED
      BY <3>1 DEF Cycles, TypedInv, MarksTyped
  <2>2. CASE LatencyOver
    BY <2>2 DEF LatencyOver, Cycles, TypedInv, MarksTyped
  <2>3. CASE ~decode_and_dispatch /\ ~LatencyOver
    BY <2>3 DEF TypedInv, MarksTyped, BeginReading, PenaltyOver,
           complete_execution, retire_rob, CompleteWarmup, ReadHit, ReadMiss, Fill,
           complete_instr_fetch, vars, decode
  <2>4. QED
    BY <2>1, <2>2, <2>3
<1>5. L1ITyped'
  <2>1. CASE ReadHit \/ ReadMiss \/ (\E m \in MSHR : Fill(m)) \/ complete_instr_fetch
    BY <2>1, L1IStepTyped
  <2>2. CASE ~(ReadHit \/ ReadMiss \/ (\E m \in MSHR : Fill(m)) \/ complete_instr_fetch)
    BY <2>2 DEF TypedInv, L1ITyped, L1I, BeginReading, decode_and_dispatch, LatencyOver,
           PenaltyOver, complete_execution, retire_rob, CompleteWarmup, vars
  <2>3. QED
    BY <2>1, <2>2
<1>6. QED
  BY <1>1, <1>2, <1>3, <1>4, <1>5 DEF TypedInv, MarksTyped

(* The types hold in every reachable state.                                *)
LEMMA TypedInvariant == Spec => []TypedInv
<1>1. Init => TypedInv
  <2> SUFFICES ASSUME Init PROVE TypedInv
    OBVIOUS
  <2>1. ReaderTyped
    BY Sizes DEF Init, ReaderTyped, NotReading, IFETCH_SIZE
  <2>2. ModesTyped /\ MarksTyped
    BY DEF Init, ModesTyped, MarksTyped, Marks, Cycles
  <2>3. L1ITyped
    BY FS_EmptySet, FrontEndAssumption DEF Init, L1ITyped
  <2>4. QED
    BY <2>1, <2>2, <2>3 DEF TypedInv
<1>2. StallInv /\ TypedInv /\ [Next]_vars => TypedInv'
  BY ReadTyped, FetchTyped, OthersTyped DEF Next
<1>3. QED
  BY <1>1, <1>2, StallInvariant, PTL DEF Spec

(* The buffers hold neighbouring parts of the trace and are never entered  *)
(* when they are full, nor are the queues of the L1I, for every trace and  *)
(* all sizes.                                                              *)
THEOREM FrontEndTyped == Spec => []TypeOK
<1>1. StallInv /\ TypedInv => TypeOK
  <2> SUFFICES ASSUME StallInv, TypedInv PROVE TypeOK
    OBVIOUS
  <2>1. /\ instr_unique_id - decoded \in 0 .. IFETCH_SIZE
        /\ decoded - dispatched \in 0 .. DECODE_SIZE
        /\ dispatched - retired \in 0 .. ROB_SIZE /\ instr_unique_id \in 0 .. Length
        /\ executed \subseteq 1 .. dispatched /\ mispredicted \subseteq Branches
    BY Sizes DEF StallInv, Ordered, TypedInv, ReaderTyped, IFETCH_SIZE
  <2>2. QED
    BY <2>1 DEF TypeOK, TypedInv, ReaderTyped, ModesTyped, MarksTyped, L1ITyped, Marks, Cycles
<1>2. QED
  BY <1>1, StallInvariant, TypedInvariant, PTL
-----------------------------------------------------------------------------
(* The answers.                                                            *)

(* Where every line has a frame to itself, no page is swapped out.         *)
EnoughFrames == IsFiniteSet(Frames) => Cardinality(Frames) >= Cardinality(Lines)

(* A frame has one page, and what the reader noted is still its frame.     *)
TableKept ==
  /\ \A k, l \in DOMAIN table : table[k] = table[l] => k = l
  /\ \A i \in 1 .. instr_unique_id :
       line(i) \in DOMAIN table /\ instruction_pa[i] = table[line(i)]

(* A request is for the frame of the line its ip names.                    *)
NamedBy(S) == \A r \in S : r.line \in DOMAIN table /\ r.pa = table[r.line]

(* Nothing is marked that was not read.                                    *)
Unread(marks) == \A i \in Instrs : i > instr_unique_id => marks[i] = "no"

AnswerInv == TableKept /\ NamedBy(UnderWay) /\ Unread(fetched) /\ AnswerComing

LEMMA LinesFinite == IsFiniteSet(Lines)
<1> DEFINE f == [i \in Instrs |-> Trace[i].line]
<1>1. IsFiniteSet(Instrs)
  BY Sizes, FS_Interval
<1>2. f \in Surjection(Instrs, Lines)
  BY DEF Surjection, Lines
<1> HIDE DEF f
<1>3. QED
  BY <1>1, <1>2, FS_Surjection

(* A line that is not mapped finds a free frame.                           *)
LEMMA FreeFrame ==
  ASSUME EnoughFrames, DOMAIN table \subseteq Lines, NEW l \in Lines \ DOMAIN table,
         table = [k \in DOMAIN table |-> table[k]]
  PROVE  {table[k] : k \in DOMAIN table} # Frames
<1> SUFFICES ASSUME {table[k] : k \in DOMAIN table} = Frames
             PROVE  FALSE
  OBVIOUS
<1> DEFINE D == DOMAIN table
<1>1. table \in Surjection(D, Frames)
  BY DEF Surjection
<1>2. /\ IsFiniteSet(Lines \ {l}) /\ Cardinality(Lines \ {l}) = Cardinality(Lines) - 1
      /\ Cardinality(Lines) \in Nat
  BY LinesFinite, FS_RemoveElement, FS_CardinalityType
<1>3. IsFiniteSet(D) /\ Cardinality(D) <= Cardinality(Lines) - 1
  BY <1>2, FS_Subset
<1> HIDE DEF D
<1>4. IsFiniteSet(Frames) /\ Cardinality(Frames) <= Cardinality(D)
  BY <1>1, <1>3, FS_Surjection
<1>5. Cardinality(D) \in Nat /\ Cardinality(Frames) \in Nat
  BY <1>3, <1>4, FS_CardinalityType
<1>6. QED
  BY <1>2, <1>3, <1>4, <1>5 DEF EnoughFrames

(* What a sequence holds, when it gains or loses an element.               *)
LEMMA SetOfAppend ==
  ASSUME NEW S, NEW s \in Seq(S), NEW e \in S
  PROVE  ToSet(Append(s, e)) = ToSet(s) \cup {e}
<1>1. Len(s) \in Nat /\ DOMAIN s = 1 .. Len(s)
  BY LenProperties
<1>2. /\ Append(s, e) \in Seq(S) /\ Len(Append(s, e)) = Len(s) + 1
      /\ \A i \in 1 .. Len(s) : Append(s, e)[i] = s[i]
      /\ Append(s, e)[Len(s) + 1] = e
  BY AppendProperties
<1>3. DOMAIN Append(s, e) = 1 .. Len(s) \cup {Len(s) + 1}
  BY <1>1, <1>2, LenProperties
<1>4. QED
  BY <1>1, <1>2, <1>3 DEF ToSet

LEMMA SetOfTail ==
  ASSUME NEW S, NEW s \in Seq(S), s # <<>>
  PROVE  ToSet(s) = {Head(s)} \cup ToSet(Tail(s))
<1>1. Len(s) \in Nat \ {0} /\ DOMAIN s = 1 .. Len(s) /\ Head(s) = s[1]
  BY EmptySeq, LenProperties
<1>2. /\ DOMAIN Tail(s) = 1 .. Len(s) - 1
      /\ \A i \in 1 .. Len(s) - 1 : Tail(s)[i] = s[i + 1]
  BY <1>1, HeadTailProperties, LenProperties
<1>3. ASSUME NEW e
      PROVE  e \in ToSet(s) <=> e = s[1] \/ e \in ToSet(Tail(s))
  <2>1. e \in ToSet(s) <=> \E i \in 1 .. Len(s) : e = s[i]
    BY <1>1 DEF ToSet
  <2>2. e \in ToSet(Tail(s)) <=> \E i \in 1 .. Len(s) - 1 : e = s[i + 1]
    BY <1>2 DEF ToSet
  <2>3. ASSUME NEW i \in 1 .. Len(s), i # 1
        PROVE  i - 1 \in 1 .. Len(s) - 1 /\ s[(i - 1) + 1] = s[i]
    BY <1>1, <2>3
  <2>4. \A i \in 1 .. Len(s) - 1 : i + 1 \in 1 .. Len(s)
    BY <1>1
  <2>5. 1 \in 1 .. Len(s)
    BY <1>1
  <2>6. QED
    BY <2>1, <2>2, <2>3, <2>4, <2>5
<1>4. QED
  BY <1>1, <1>3

(* Reading maps one line more, and leaves the others where they are.       *)
LEMMA ReadAnswers ==
  ASSUME EnoughFrames, StallInv, TypedInv, table = [k \in DOMAIN table |-> table[k]], AnswerInv,
         NEW p \in {"right", "wrong"}, ReadInstruction(p)
  PROVE  AnswerInv' /\ table' = [k \in DOMAIN table' |-> table'[k]]
<1> DEFINE i == instr_unique_id + 1
           l == Trace[i].line
           used == {table[k] : k \in DOMAIN table}
           free == CHOOSE f \in Frames : f \notin used
<1>1. /\ i \in Instrs /\ instr_unique_id \in Nat /\ decoded \in Nat /\ Length \in Nat
      /\ Instrs = 1 .. Length
  BY Sizes DEF StallInv, Ordered, LoopEnds, ReadInstruction
<1>2. l \in Lines /\ DOMAIN table \subseteq Lines /\ (\A k \in DOMAIN table : table[k] \in Frames)
      /\ instruction_pa \in Seq(Frames) /\ Len(instruction_pa) = instr_unique_id
  BY <1>1, TraceLines DEF TypedInv, ReaderTyped
<1>3. /\ instr_unique_id' = i /\ decoded' = decoded /\ table' = va_to_pa(l)
      /\ instruction_pa' = Append(instruction_pa, table'[l])
      /\ fetched' = fetched /\ RQ' = RQ /\ MSHR' = MSHR /\ PROCESSED' = PROCESSED
  BY DEF ReadInstruction, decode, L1I
<1>4. /\ table' = [k \in DOMAIN table' |-> table'[k]]
      /\ DOMAIN table' = DOMAIN table \cup {l}
      /\ \A k \in DOMAIN table : table'[k] = table[k]
      /\ l \notin DOMAIN table => table'[l] \notin used
  <2>1. CASE l \in DOMAIN table
    BY <1>3, <2>1 DEF va_to_pa
  <2>2. CASE l \notin DOMAIN table
    <3>1. used # Frames
      BY <1>2, <2>2, FreeFrame
    <3>2. free \notin used
      BY <1>2, <3>1
    <3> HIDE DEF free
    <3>3. table' = [k \in DOMAIN table \cup {l} |-> IF k = l THEN free ELSE table[k]]
      BY <1>3, <2>2, <3>1 DEF va_to_pa, free
    <3> HIDE DEF used
    <3>4. QED
      BY <2>2, <3>2, <3>3
  <2>3. QED
    BY <2>1, <2>2
<1>5. /\ \A j \in 1 .. instr_unique_id : instruction_pa'[j] = instruction_pa[j]
      /\ instruction_pa'[i] = table'[l]
  <2>1. table'[l] \in Frames
    BY <1>2, <1>3, Translated
  <2>2. QED
    BY <1>2, <1>3, <2>1, AppendProperties
<1>6. TableKept'
  <2>1. \A k, m \in DOMAIN table' : table'[k] = table'[m] => k = m
    BY <1>4 DEF AnswerInv, TableKept
  <2>2. ASSUME NEW j \in 1 .. i
        PROVE  line(j) \in DOMAIN table' /\ instruction_pa'[j] = table'[line(j)]
    <3>1. CASE j = i
      BY <1>4, <1>5, <3>1 DEF line
    <3>2. CASE j # i
      <4>1. j \in 1 .. instr_unique_id
        BY <1>1, <3>2
      <4>2. QED
        BY <1>4, <1>5, <4>1 DEF AnswerInv, TableKept
    <3>3. QED
      BY <3>1, <3>2
  <2>3. QED
    BY <1>3, <2>1, <2>2 DEF TableKept, line
<1>7. NamedBy(UnderWay)'
  BY <1>3, <1>4 DEF AnswerInv, NamedBy, UnderWay
<1>8. Unread(fetched)' /\ fetched[i] = "no"
  BY <1>1, <1>3 DEF AnswerInv, Unread
<1>9. AnswerComing'
  <2>1. SUFFICES ASSUME NEW j \in IFETCH_BUFFER', fetched[j] = "INFLIGHT"
                 PROVE  \E r \in UnderWay : r.line = line(j)
    BY <1>3 DEF AnswerComing, UnderWay, line
  <2>2. j # i
    BY <1>8, <2>1
  <2>3. j \in IFETCH_BUFFER
    BY <1>1, <1>3, <2>1, <2>2 DEF IFETCH_BUFFER
  <2>4. QED
    BY <2>1, <2>3 DEF AnswerInv, AnswerComing
<1>10. QED
  BY <1>4, <1>6, <1>7, <1>8, <1>9 DEF AnswerInv

(* The states of the scan: what is marked INFLIGHT is asked for.           *)
Scans(s) ==
  /\ s \in [fetched : [Instrs -> Marks], rq : Seq(Request)]
  /\ NamedBy(ToSet(s.rq))
  /\ Unread(s.fetched)
  /\ \A i \in IFETCH_BUFFER :
       s.fetched[i] = "INFLIGHT" =>
         \E r \in ToSet(s.rq) \cup MSHR \cup ToSet(PROCESSED) : r.line = line(i)

(* A request is merged with one of its own line only.                      *)
LEMMA RequestScans ==
  ASSUME StallInv, TypedInv, AnswerInv, NEW s, Scans(s), NEW i \in IFETCH_BUFFER
  PROVE  Scans(RequestLine(s, i))
<1> DEFINE pa == instruction_pa[i]
           r == [pa |-> pa, line |-> line(i)]
           marks == MarkLine(s.fetched, line(i), "INFLIGHT")
           rq == add_rq(s.rq, i)
<1>1. CASE s.fetched[i] # "no" \/ Refuses(s.rq, pa)
  BY <1>1 DEF RequestLine
<1>2. CASE ~(s.fetched[i] # "no" \/ Refuses(s.rq, pa))
  <2>1. /\ decoded \in Nat /\ instr_unique_id \in Nat /\ instr_unique_id <= Length
        /\ Length \in Nat /\ Instrs = 1 .. Length
        /\ i \in 1 .. instr_unique_id /\ i \in Instrs
    BY Sizes DEF StallInv, Ordered, IFETCH_BUFFER
  <2>2. line(i) \in DOMAIN table /\ pa = table[line(i)]
    BY <2>1 DEF AnswerInv, TableKept
  <2>3. r \in Request
    <3>1. pa \in Frames /\ line(i) \in Lines
      BY <2>2 DEF TypedInv, ReaderTyped
    <3>2. QED
      BY <3>1 DEF Request
  <2>4. /\ rq \in Seq(Request) /\ NamedBy(ToSet(rq)) /\ ToSet(s.rq) \subseteq ToSet(rq)
        /\ \E q \in ToSet(rq) : q.line = line(i)
    <3>1. CASE Merges(s.rq, pa)
      <4>1. rq = s.rq
        BY <3>1 DEF add_rq
      <4>2. PICK q \in ToSet(s.rq) : q.pa = pa
        BY <3>1 DEF Merges, ToSet
      <4>3. q.line = line(i)
        BY <2>2, <4>2 DEF Scans, NamedBy, AnswerInv, TableKept
      <4>4. QED
        BY <4>1, <4>2, <4>3 DEF Scans
    <3>2. CASE ~Merges(s.rq, pa)
      <4>1. rq = Append(s.rq, r)
        BY <3>2 DEF add_rq
      <4>2. r.line = line(i) /\ r.pa = pa
        OBVIOUS
      <4>3. s.rq \in Seq(Request)
        BY DEF Scans
      <4> HIDE DEF r, rq
      <4>4. rq \in Seq(Request) /\ ToSet(rq) = ToSet(s.rq) \cup {r}
        BY <2>3, <4>1, <4>3, SetOfAppend, AppendProperties
      <4>5. QED
        BY <2>2, <4>2, <4>4 DEF Scans, NamedBy
    <3>3. QED
      BY <3>1, <3>2
  <2> HIDE DEF rq, pa
  <2>5. marks \in [Instrs -> Marks] /\ Unread(marks)
    <3>1. s.fetched \in [Instrs -> Marks] /\ Unread(s.fetched)
      BY DEF Scans
    <3>2. \A j \in Instrs : j > instr_unique_id => j \notin IFETCH_BUFFER
      BY <2>1 DEF IFETCH_BUFFER
    <3>3. QED
      BY <3>1, <3>2 DEF MarkLine, Marks, Unread
  <2>6. ASSUME NEW j \in IFETCH_BUFFER, marks[j] = "INFLIGHT"
        PROVE  \E q \in ToSet(rq) \cup MSHR \cup ToSet(PROCESSED) : q.line = line(j)
    <3>1. j \in Instrs
      BY <2>1 DEF IFETCH_BUFFER
    <3>2. CASE line(j) = line(i)
      BY <2>4, <3>2
    <3>3. CASE line(j) # line(i)
      <4>1. s.fetched[j] = "INFLIGHT"
        BY <2>6, <3>1, <3>3 DEF MarkLine
      <4>2. QED
        BY <2>4, <4>1 DEF Scans
    <3>4. QED
      BY <3>2, <3>3
  <2> HIDE DEF marks
  <2>7. RequestLine(s, i) = [fetched |-> marks, rq |-> rq]
    BY <1>2 DEF RequestLine, marks, rq, pa
  <2>8. QED
    BY <2>4, <2>5, <2>6, <2>7 DEF Scans
<1>3. QED
  BY <1>1, <1>2

LEMMA FetchAnswers ==
  ASSUME StallInv, TypedInv, AnswerInv, fetch_instruction
  PROVE  AnswerInv'
<1> DEFINE Good == {s \in [fetched : [Instrs -> Marks], rq : Seq(Request)] : Scans(s)}
<1>1. decoded \in Nat /\ instr_unique_id \in Nat /\ decoded <= instr_unique_id
  BY Sizes DEF StallInv, Ordered
<1>2. [fetched |-> fetched, rq |-> RQ] \in Good
  BY DEF Scans, TypedInv, MarksTyped, L1ITyped, AnswerInv, NamedBy, UnderWay, AnswerComing
<1>3. \A s \in Good, i \in IFETCH_BUFFER : RequestLine(s, i) \in Good
  BY RequestScans DEF Scans
<1> HIDE DEF Good
<1>4. Scans(RequestLines)
  <2>1. RequestLines \in Good
    BY <1>1, <1>2, <1>3, ScanKeeps
  <2>2. QED
    BY <2>1 DEF Good
<1>5. /\ fetched' = RequestLines.fetched /\ RQ' = RequestLines.rq /\ UNCHANGED <<MSHR, PROCESSED>>
      /\ UNCHANGED reader /\ decoded' = decoded + ToDecode(fetched')
  BY DEF fetch_instruction
<1>6. ToDecode(fetched') \in Nat
  BY <1>1, DecodeWidth DEF StallInv, Ordered
<1>7. IFETCH_BUFFER' \subseteq IFETCH_BUFFER
  <2> DEFINE n == ToDecode(fetched')
  <2>1. n \in Nat /\ decoded' = decoded + n /\ instr_unique_id' = instr_unique_id
    BY <1>5, <1>6 DEF reader
  <2> HIDE DEF n
  <2>2. QED
    BY <1>1, <2>1 DEF IFETCH_BUFFER
<1>8. UNCHANGED <<table, instr_unique_id, instruction_pa>>
  BY <1>5 DEF reader
<1>9. TableKept' /\ Unread(fetched)'
  BY <1>4, <1>5, <1>8 DEF AnswerInv, TableKept, Unread, Scans
<1>10. NamedBy(UnderWay)' /\ AnswerComing'
  BY <1>4, <1>5, <1>7, <1>8 DEF AnswerInv, NamedBy, UnderWay, Scans, AnswerComing
<1>11. QED
  BY <1>9, <1>10 DEF AnswerInv

(* In the L1I a request keeps its line until the core has its answer.      *)
LEMMA L1IAnswers ==
  ASSUME StallInv, TypedInv, AnswerInv,
         ReadHit \/ ReadMiss \/ (\E m \in MSHR : Fill(m)) \/ complete_instr_fetch
  PROVE  AnswerInv'
<1>1. RQ \in Seq(Request) /\ PROCESSED \in Seq(Request) /\ MSHR \subseteq Request
  BY DEF TypedInv, L1ITyped
<1>2. UNCHANGED <<table, instr_unique_id, instruction_pa, decoded>>
  BY DEF ReadHit, ReadMiss, Fill, complete_instr_fetch, reader, decode
<1>3. TableKept' /\ (UnderWay' \subseteq UnderWay => NamedBy(UnderWay)')
  BY <1>2 DEF AnswerInv, TableKept, NamedBy
<1>4. CASE ReadHit \/ ReadMiss \/ (\E m \in MSHR : Fill(m))
  <2>1. fetched' = fetched
    BY <1>4 DEF ReadHit, ReadMiss, Fill
  <2>2. /\ UnderWay' \subseteq UnderWay
        /\ \A r \in UnderWay : \E q \in UnderWay' : q.line = r.line
    <3>1. CASE ReadHit
      <4>1. RQ # <<>> /\ RQ' = Tail(RQ) /\ PROCESSED' = Append(PROCESSED, Head(RQ)) /\ MSHR' = MSHR
        BY <3>1 DEF ReadHit
      <4>2. Head(RQ) \in Request
        BY <1>1, <4>1, HeadTailProperties
      <4>3. ToSet(RQ) = {Head(RQ)} \cup ToSet(RQ') /\ ToSet(PROCESSED') = ToSet(PROCESSED) \cup {Head(RQ)}
        BY <1>1, <4>1, <4>2, SetOfAppend, SetOfTail
      <4>4. UnderWay' = UnderWay
        BY <4>1, <4>3 DEF UnderWay
      <4>5. QED
        BY <4>4
    <3>2. CASE ReadMiss
      <4>1. RQ # <<>> /\ RQ' = Tail(RQ) /\ PROCESSED' = PROCESSED
            /\ \/ (\E m \in MSHR : m.pa = Head(RQ).pa) /\ MSHR' = MSHR
               \/ MSHR' = MSHR \cup {Head(RQ)}
        BY <3>2 DEF ReadMiss
      <4>2. ToSet(RQ) = {Head(RQ)} \cup ToSet(RQ')
        BY <1>1, <4>1, SetOfTail
      <4>3. UnderWay' \subseteq UnderWay
        BY <4>1, <4>2 DEF UnderWay
      <4>4. \E q \in UnderWay' : q.line = Head(RQ).line
        <5>1. CASE MSHR' = MSHR \cup {Head(RQ)}
          BY <5>1 DEF UnderWay
        <5>2. CASE (\E m \in MSHR : m.pa = Head(RQ).pa) /\ MSHR' = MSHR
          <6>1. PICK m \in MSHR : m.pa = Head(RQ).pa
            BY <5>2
          <6>2. m \in UnderWay /\ Head(RQ) \in UnderWay /\ m \in UnderWay'
            BY <4>2, <5>2 DEF UnderWay
          <6>3. m.line = Head(RQ).line
            BY <6>1, <6>2 DEF AnswerInv, NamedBy, TableKept
          <6>4. QED
            BY <6>2, <6>3
        <5>3. QED
          BY <4>1, <5>1, <5>2
      <4>5. \A r \in UnderWay : r = Head(RQ) \/ r \in UnderWay'
        BY <4>1, <4>2 DEF UnderWay
      <4>6. QED
        BY <4>3, <4>4, <4>5
    <3>3. CASE \E m \in MSHR : Fill(m)
      <4>1. PICK m \in MSHR : /\ MSHR' = MSHR \ {m} /\ PROCESSED' = Append(PROCESSED, m)
                              /\ RQ' = RQ
        BY <3>3 DEF Fill
      <4>2. ToSet(PROCESSED') = ToSet(PROCESSED) \cup {m}
        BY <1>1, <4>1, SetOfAppend
      <4>3. UnderWay' = UnderWay
        BY <4>1, <4>2 DEF UnderWay
      <4>4. QED
        BY <4>3
    <3>4. QED
      BY <1>4, <3>1, <3>2, <3>3
  <2>3. Unread(fetched)' /\ AnswerComing'
    BY <1>2, <2>1, <2>2 DEF AnswerInv, Unread, AnswerComing, IFETCH_BUFFER, line
  <2>4. QED
    BY <1>3, <2>2, <2>3 DEF AnswerInv
<1>5. CASE complete_instr_fetch
  <2> DEFINE l == Head(PROCESSED).line
  <2>1. /\ PROCESSED # <<>> /\ PROCESSED' = Tail(PROCESSED) /\ RQ' = RQ /\ MSHR' = MSHR
        /\ fetched' = MarkLine(fetched, l, "COMPLETED")
    BY <1>5 DEF complete_instr_fetch
  <2>2. ToSet(PROCESSED) = {Head(PROCESSED)} \cup ToSet(PROCESSED')
    BY <1>1, <2>1, SetOfTail
  <2>3. UnderWay' \subseteq UnderWay /\ \A r \in UnderWay : r.line = l \/ r \in UnderWay'
    BY <2>1, <2>2 DEF UnderWay
  <2>4. /\ decoded \in Nat /\ instr_unique_id \in Nat /\ instr_unique_id <= Length
        /\ Length \in Nat /\ Instrs = 1 .. Length
    BY Sizes DEF StallInv, Ordered
  <2>5. IFETCH_BUFFER \subseteq Instrs /\ \A i \in Instrs : i > instr_unique_id => i \notin IFETCH_BUFFER
    BY <2>4 DEF IFETCH_BUFFER
  <2> HIDE DEF l
  <2>6. \A i \in Instrs : \/ fetched'[i] = fetched[i] /\ ~(i \in IFETCH_BUFFER /\ line(i) = l)
                          \/ fetched'[i] = "COMPLETED" /\ i \in IFETCH_BUFFER
    BY <2>1 DEF MarkLine
  <2>7. Unread(fetched)'
    BY <1>2, <2>5, <2>6 DEF AnswerInv, Unread
  <2>8. AnswerComing'
    <3>1. SUFFICES ASSUME NEW i \in IFETCH_BUFFER, fetched'[i] = "INFLIGHT"
                   PROVE  \E r \in UnderWay' : r.line = line(i)
      BY <1>2 DEF AnswerComing, IFETCH_BUFFER, line
    <3>2. fetched[i] = "INFLIGHT" /\ line(i) # l
      BY <2>5, <2>6, <3>1
    <3>3. PICK r \in UnderWay : r.line = line(i)
      BY <3>1, <3>2 DEF AnswerInv, AnswerComing
    <3>4. QED
      BY <2>3, <3>2, <3>3
  <2>9. QED
    BY <1>3, <2>3, <2>7, <2>8 DEF AnswerInv
<1>6. QED
  BY <1>4, <1>5

(* The table is a function.                                                *)
TableInv == AnswerInv /\ table = [k \in DOMAIN table |-> table[k]]

LEMMA AnswersKept ==
  ASSUME EnoughFrames, StallInv, TypedInv, TableInv, [Next]_vars
  PROVE  TableInv'
<1>1. AnswerInv
  BY DEF TableInv
<1>2. CASE \E p \in {"right", "wrong"} : ReadInstruction(p)
  BY <1>2, ReadAnswers DEF TableInv
<1>3. CASE ~(\E p \in {"right", "wrong"} : ReadInstruction(p))
  <2>1. table' = table
    BY <1>3 DEF Next, BeginReading, fetch_instruction, decode_and_dispatch, LatencyOver, PenaltyOver,
           complete_execution, retire_rob, CompleteWarmup, ReadHit, ReadMiss, Fill,
           complete_instr_fetch, vars, reader
  <2>2. CASE fetch_instruction
    BY <1>1, <2>1, <2>2, FetchAnswers DEF TableInv
  <2>3. CASE ReadHit \/ ReadMiss \/ (\E m \in MSHR : Fill(m)) \/ complete_instr_fetch
    BY <1>1, <2>1, <2>3, L1IAnswers DEF TableInv
  <2>4. CASE \/ BeginReading \/ decode_and_dispatch \/ LatencyOver \/ PenaltyOver
             \/ (\E i \in ROB : complete_execution(i)) \/ retire_rob \/ CompleteWarmup
             \/ UNCHANGED vars
    <3>1. UNCHANGED <<table, instr_unique_id, instruction_pa, fetched, decoded, RQ, MSHR, PROCESSED>>
      BY <2>4 DEF BeginReading, decode_and_dispatch, LatencyOver, PenaltyOver,
             complete_execution, retire_rob, CompleteWarmup, vars, reader, decode, L1I
    <3>2. QED
      BY <1>1, <3>1 DEF TableInv, AnswerInv, TableKept, NamedBy, Unread, AnswerComing, UnderWay,
                        IFETCH_BUFFER, line
  <2>5. QED
    BY <1>3, <2>2, <2>3, <2>4 DEF Next
<1>4. QED
  BY <1>2, <1>3

(* Where every line has a frame of its own, an instruction that waits for  *)
(* its line has its answer on the way, whatever the scan finds merged or   *)
(* refused by the L1I.                                                     *)
THEOREM AnswersCome == EnoughFrames => (Spec => []AnswerComing)
<1> SUFFICES ASSUME EnoughFrames
             PROVE  Spec => []AnswerComing
  OBVIOUS
<1>1. Init => TableInv
  <2> SUFFICES ASSUME Init PROVE TableInv
    OBVIOUS
  <2>1. table = << >> /\ instr_unique_id = 0 /\ RQ = <<>> /\ MSHR = {} /\ PROCESSED = <<>>
        /\ fetched = [i \in Instrs |-> "no"] /\ decoded = 0
    BY DEF Init
  <2>2. DOMAIN table = {} /\ UnderWay = {} /\ IFETCH_BUFFER = {}
    BY <2>1 DEF UnderWay, ToSet, IFETCH_BUFFER
  <2>3. 1 .. instr_unique_id = {}
    BY <2>1
  <2>4. QED
    BY <2>1, <2>2, <2>3 DEF TableInv, AnswerInv, TableKept, NamedBy, Unread, AnswerComing
<1>2. StallInv /\ TypedInv /\ TableInv /\ [Next]_vars => TableInv'
  BY AnswersKept
<1>3. TableInv => AnswerComing
  BY DEF TableInv, AnswerInv
<1>4. QED
  BY <1>1, <1>2, <1>3, StallInvariant, TypedInvariant, PTL DEF Spec
=============================================================================
