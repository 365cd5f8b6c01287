------------------------------ MODULE FrontEnd ------------------------------
(***************************************************************************)
(* The front end of class O3_CPU: instructions are read from the trace     *)
(* into the IFETCH_BUFFER, their lines fetched from the L1I, and the       *)
(* instructions moved through the DECODE_BUFFER into the ROB.  A branch    *)
(* that is predicted wrongly stops the reading until it has executed.      *)
(*                                                                         *)
(* Instructions are named by their instr_id, the position in the trace.    *)
(* Code lines lie at one offset of different pages, so that a line stands  *)
(* for its page and a frame for the physical line.                         *)
(***************************************************************************)
EXTENDS Integers, Sequences, FiniteSets, SequencesExt, FiniteSetsExt

CONSTANTS
  Trace,           (* instructions: the code line and whether a branch is   *)
                   (* taken, not taken, or the instruction is no branch     *)
  Frames,
  FETCH_WIDTH, DECODE_WIDTH, ROB_SIZE,
  RQ_SIZE, MSHR_SIZE   (* of the L1I                                        *)

VARIABLES
  warmup_complete,
  table,           (* the mapped lines and their frames                     *)
  instr_unique_id, (* of the last instruction read: the IFETCH_BUFFER holds *)
                   (* decoded + 1 .. instr_unique_id                        *)
  decoded,         (* the DECODE_BUFFER holds dispatched + 1 .. decoded     *)
  dispatched,      (* the ROB holds retired + 1 .. dispatched               *)
  retired,
  instruction_pa, fetched, event_cycle,  (* by instruction; the latency of  *)
                   (* decoding is unset, running, or passed                  *)
  executed,
  loop,            (* read_from_trace() in progress                         *)
  fetch_stall,
  fetch_resume,    (* fetch_resume_cycle: unset, running, or passed         *)
  RQ, MSHR, PROCESSED,  (* of the L1I                                       *)
  mispredicted     (* branch_mispredicted, kept after retirement            *)

reader  == <<table, instr_unique_id, loop, instruction_pa, mispredicted>>
decode  == <<decoded, event_cycle>>
rob     == <<dispatched, retired, executed>>
stall   == <<fetch_stall, fetch_resume>>
L1I     == <<RQ, MSHR, PROCESSED>>
vars    == <<warmup_complete, reader, fetched, decode, rob, stall, L1I>>

IFETCH_SIZE == FETCH_WIDTH * 2
DECODE_SIZE == DECODE_WIDTH * 3

ASSUME FrontEndAssumption ==
  /\ {FETCH_WIDTH, DECODE_WIDTH, ROB_SIZE, RQ_SIZE, MSHR_SIZE} \subseteq Nat \ {0}
  /\ Frames # {}
  /\ Trace \in Seq([line : Nat, branch : {"no", "taken", "untaken"}])

Length   == Len(Trace)
Instrs   == 1 .. Length
Lines    == {Trace[i].line : i \in Instrs}
Branches == {i \in Instrs : Trace[i].branch # "no"}

IFETCH_BUFFER == decoded + 1 .. instr_unique_id
DECODE_BUFFER == dispatched + 1 .. decoded
ROB           == retired + 1 .. dispatched

NotReading == [num_reads |-> 0, instrs_to_read |-> 0]

Init ==
  /\ warmup_complete = FALSE
  /\ table = << >> /\ instr_unique_id = 0 /\ loop = NotReading
  /\ instruction_pa = << >> /\ mispredicted = {}
  /\ fetched = [i \in Instrs |-> "no"]
  /\ decoded = 0 /\ event_cycle = [i \in Instrs |-> "unset"]
  /\ dispatched = 0 /\ retired = 0 /\ executed = {}
  /\ fetch_stall = 0 /\ fetch_resume = "unset"
  /\ RQ = <<>> /\ MSHR = {} /\ PROCESSED = <<>>

(* The handlers of a cycle do not run while the trace is read.             *)
Cycle == loop = NotReading

-----------------------------------------------------------------------------
(* Reading the trace.                                                      *)

(* The table after va_to_pa() has looked up a line: its page is mapped,    *)
(* takes a free frame, no matter which, or that of the first page.         *)
va_to_pa(page) ==
  LET used == {table[l] : l \in DOMAIN table}
      with(t, f) == [l \in DOMAIN t \cup {page} |-> IF l = page THEN f ELSE t[l]]
      first == Min(DOMAIN table)
  IN  IF page \in DOMAIN table THEN table
      ELSE IF used # Frames THEN with(table, CHOOSE f \in Frames : f \notin used)
      ELSE with([l \in DOMAIN table \ {first} |-> table[l]], table[first])

(* main() calls read_from_trace() when there is room and no stall.         *)
BeginReading ==
  /\ Cycle
  /\ fetch_stall = 0 /\ instr_unique_id - decoded < IFETCH_SIZE /\ instr_unique_id < Length
  /\ loop' = [num_reads |-> 0, instrs_to_read |-> FETCH_WIDTH]
  /\ UNCHANGED <<warmup_complete, table, instr_unique_id, instruction_pa,
                 mispredicted, fetched, decode, rob, stall, L1I>>

(* A branch is marked branch_mispredicted after warmup only.               *)
Mispredicts(prediction) == prediction = "wrong" /\ warmup_complete

(* Faulty: stops the next reading after a misprediction, but not this.     *)
Faulty_instrs_to_read_after(i, prediction) ==
  IF prediction = "right" /\ Trace[i].branch = "taken" THEN 0 ELSE loop.instrs_to_read

(* instrs_to_read_this_cycle after an instruction: no more are read behind *)
(* a branch found mispredicted, or one predicted taken.                    *)
instrs_to_read_after(i, prediction) ==
  IF Mispredicts(prediction) \/ (prediction = "right" /\ Trace[i].branch = "taken")
  THEN 0 ELSE loop.instrs_to_read

(* One turn of the loop of read_from_trace(), with add_to_ifetch_buffer()  *)
(* and predict_branch(), which may be right or wrong.                      *)
ReadInstruction(prediction) ==
  LET i     == instr_unique_id + 1
      reads == loop.num_reads + 1
      limit == instrs_to_read_after(i, prediction)
  IN
  /\ loop # NotReading
  /\ prediction = "wrong" => i \in Branches
  /\ instr_unique_id' = i
  /\ table' = va_to_pa(Trace[i].line)
  /\ instruction_pa' = Append(instruction_pa, table'[Trace[i].line])
  /\ fetch_stall'  = IF Mispredicts(prediction) THEN 1 ELSE fetch_stall
  /\ mispredicted' = IF Mispredicts(prediction) THEN mispredicted \cup {i} ELSE mispredicted
  /\ loop' = IF reads >= limit \/ i - decoded = IFETCH_SIZE \/ i = Length
             THEN NotReading
             ELSE [num_reads |-> reads, instrs_to_read |-> limit]
  /\ UNCHANGED <<warmup_complete, fetched, decode, rob, fetch_resume, L1I>>

-----------------------------------------------------------------------------
(* Fetch and decode.                                                       *)

line(i) == Trace[i].line

(* All instructions of a line in the IFETCH_BUFFER.                        *)
MarkLine(marks, l, state) ==
  [i \in Instrs |-> IF i \in IFETCH_BUFFER /\ line(i) = l THEN state ELSE marks[i]]

(* CACHE::add_rq() merges a request of a physical line it already has, and *)
(* then keeps the ip of the older one; it refuses one it has no room for.  *)
Merges(rq, pa)  == \E k \in DOMAIN rq : rq[k].pa = pa
Refuses(rq, pa) == ~Merges(rq, pa) /\ Len(rq) >= RQ_SIZE
add_rq(rq, i)   == IF Merges(rq, instruction_pa[i]) THEN rq
                   ELSE Append(rq, [pa |-> instruction_pa[i], line |-> line(i)])

(* Faulty: marks the line as requested although the L1I refused.           *)
Faulty_RequestLine(s, i) ==
  IF s.fetched[i] # "no" THEN s
  ELSE [fetched |-> MarkLine(s.fetched, line(i), "INFLIGHT"),
        rq |-> IF Refuses(s.rq, instruction_pa[i]) THEN s.rq ELSE add_rq(s.rq, i)]

(* The request for one instruction of the IFETCH_BUFFER: when it is taken, *)
(* all instructions of the line wait for the answer, fetched or not.       *)
RequestLine(s, i) ==
  IF s.fetched[i] # "no" \/ Refuses(s.rq, instruction_pa[i]) THEN s
  ELSE [fetched |-> MarkLine(s.fetched, line(i), "INFLIGHT"), rq |-> add_rq(s.rq, i)]

(* The scan of the IFETCH_BUFFER from its head.                            *)
RequestLines ==
  LET upto[i \in decoded .. instr_unique_id] ==
        IF i = decoded THEN [fetched |-> fetched, rq |-> RQ] ELSE RequestLine(upto[i - 1], i)
  IN  upto[instr_unique_id]

(* Faulty: looks at the width and not at the room.                         *)
Faulty_ToDecode(marks) ==
  Max({n \in 0 .. DECODE_WIDTH :
         \A i \in decoded + 1 .. decoded + n : i \in IFETCH_BUFFER /\ marks[i] = "COMPLETED"})

(* How many instructions leave for the DECODE_BUFFER: the fetched ones at  *)
(* the head, as far as width and room allow.                               *)
ToDecode(marks) ==
  Max({n \in 0 .. DECODE_WIDTH :
         /\ decoded + n - dispatched <= DECODE_SIZE
         /\ \A i \in decoded + 1 .. decoded + n : i \in IFETCH_BUFFER /\ marks[i] = "COMPLETED"})

fetch_instruction ==
  LET resumed == fetch_stall = 1 /\ fetch_resume = "passed" IN
  /\ Cycle
  /\ fetch_stall'  = IF resumed THEN 0 ELSE fetch_stall
  /\ fetch_resume' = IF resumed THEN "unset" ELSE fetch_resume
  /\ fetched' = RequestLines.fetched
  /\ RQ' = RequestLines.rq
  /\ decoded' = decoded + ToDecode(fetched')
  /\ UNCHANGED <<warmup_complete, reader, event_cycle, rob, MSHR, PROCESSED>>

(* How many instructions leave for the ROB: during warmup any, later those *)
(* whose decode latency is over.                                           *)
ToDispatch ==
  Max({n \in 0 .. DECODE_WIDTH :
         /\ dispatched + n - retired <= ROB_SIZE
         /\ \A i \in dispatched + 1 .. dispatched + n :
              i \in DECODE_BUFFER /\ (warmup_complete => event_cycle[i] = "passed")})

(* The latency starts for the first DECODE_WIDTH instructions without one; *)
(* in a full buffer the walk ends at the head, where the tail is too.      *)
StartsLatency(first) ==
  LET due == {i \in first .. decoded : /\ event_cycle[i] = "unset"
                                       /\ decoded - first + 1 = DECODE_SIZE => i = first}
  IN  {i \in due : Cardinality({j \in due : j < i}) < DECODE_WIDTH}

decode_and_dispatch ==
  /\ Cycle
  /\ DECODE_BUFFER # {}
  /\ dispatched' = dispatched + ToDispatch
  /\ event_cycle' = [i \in Instrs |->
                       IF i \in StartsLatency(dispatched' + 1) THEN "running"
                       ELSE IF i \in dispatched + 1 .. dispatched' THEN "passed"
                       ELSE event_cycle[i]]
  /\ UNCHANGED <<warmup_complete, reader, fetched, decoded, retired, executed, stall, L1I>>

(* Time passes: the first decode latency that runs, or the penalty of a    *)
(* misprediction.                                                          *)
LatencyOver ==
  LET running == {i \in DECODE_BUFFER : event_cycle[i] = "running"} IN
  /\ Cycle
  /\ running # {}
  /\ event_cycle' = [event_cycle EXCEPT ![Min(running)] = "passed"]
  /\ UNCHANGED <<warmup_complete, reader, fetched, decoded, rob, stall, L1I>>

PenaltyOver ==
  /\ Cycle
  /\ fetch_resume = "running"
  /\ fetch_resume' = "passed"
  /\ UNCHANGED <<warmup_complete, reader, fetched, decode, rob, fetch_stall, L1I>>

-----------------------------------------------------------------------------
(* The back end, of which only this is seen from here.                     *)

complete_execution(i) ==
  /\ Cycle
  /\ i \in ROB \ executed
  /\ executed' = executed \cup {i}
  /\ fetch_resume' = IF i \in mispredicted THEN "running" ELSE fetch_resume
  /\ UNCHANGED <<warmup_complete, reader, fetched, decode, dispatched, retired, fetch_stall,
                 L1I>>

retire_rob ==
  /\ Cycle
  /\ retired < dispatched /\ retired + 1 \in executed
  /\ retired' = retired + 1
  /\ UNCHANGED <<warmup_complete, reader, fetched, decode, dispatched, executed, stall, L1I>>

(* Enough instructions have retired.                                       *)
CompleteWarmup ==
  /\ Cycle
  /\ ~warmup_complete
  /\ warmup_complete' = TRUE
  /\ UNCHANGED <<reader, fetched, decode, rob, stall, L1I>>

-----------------------------------------------------------------------------
(* The L1I.                                                                *)

(* A read that hits.                                                       *)
ReadHit ==
  /\ Cycle
  /\ RQ # <<>>
  /\ PROCESSED' = Append(PROCESSED, Head(RQ)) /\ RQ' = Tail(RQ)
  /\ UNCHANGED <<warmup_complete, reader, fetched, decode, rob, stall, MSHR>>

(* A read that misses: a miss of its line that is under way keeps its ip.  *)
ReadMiss ==
  /\ Cycle
  /\ RQ # <<>>
  /\ RQ' = Tail(RQ)
  /\ \/ /\ \E m \in MSHR : m.pa = Head(RQ).pa
        /\ UNCHANGED MSHR
     \/ /\ \A m \in MSHR : m.pa # Head(RQ).pa
        /\ Cardinality(MSHR) < MSHR_SIZE
        /\ MSHR' = MSHR \cup {Head(RQ)}
  /\ UNCHANGED <<warmup_complete, reader, fetched, decode, rob, stall, PROCESSED>>

Fill(m) ==
  /\ Cycle
  /\ MSHR' = MSHR \ {m} /\ PROCESSED' = Append(PROCESSED, m)
  /\ UNCHANGED <<warmup_complete, reader, fetched, decode, rob, stall, RQ>>

(* The core takes an answer: all instructions of the line, by its ip, are  *)
(* fetched.                                                                *)
complete_instr_fetch ==
  /\ Cycle
  /\ PROCESSED # <<>>
  /\ PROCESSED' = Tail(PROCESSED)
  /\ fetched' = MarkLine(fetched, Head(PROCESSED).line, "COMPLETED")
  /\ UNCHANGED <<warmup_complete, reader, decode, rob, stall, RQ, MSHR>>

-----------------------------------------------------------------------------
Next ==
  \/ BeginReading
  \/ \E prediction \in {"right", "wrong"} : ReadInstruction(prediction)
  \/ fetch_instruction
  \/ decode_and_dispatch
  \/ LatencyOver
  \/ PenaltyOver
  \/ \E i \in ROB : complete_execution(i)
  \/ retire_rob
  \/ CompleteWarmup
  \/ ReadHit
  \/ ReadMiss
  \/ \E m \in MSHR : Fill(m)
  \/ complete_instr_fetch

Spec == Init /\ [][Next]_vars

(* main() runs every handler in every cycle; the trace is finite.          *)
FairSpec == Spec /\ WF_vars(Next)
=============================================================================
