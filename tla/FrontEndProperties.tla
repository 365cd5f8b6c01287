------------------------- MODULE FrontEndProperties -------------------------
(***************************************************************************)
(* What the front end must keep true.                                      *)
(***************************************************************************)
EXTENDS FrontEnd

Request == [pa : Frames, line : Lines]

(* Types and sizes: no buffer is entered when it is full. *)
TypeOK ==
  /\ warmup_complete \in BOOLEAN /\ fetch_stall \in {0, 1}
  /\ DOMAIN table \subseteq Lines /\ \A l \in DOMAIN table : table[l] \in Frames
  /\ instruction_pa \in Seq(Frames) /\ Len(instruction_pa) = instr_unique_id
  /\ loop \in [num_reads : 0 .. FETCH_WIDTH, instrs_to_read : {0, FETCH_WIDTH}]
  /\ instr_unique_id \in 0 .. Length
  /\ instr_unique_id - decoded \in 0 .. IFETCH_SIZE
  /\ decoded - dispatched \in 0 .. DECODE_SIZE
  /\ dispatched - retired \in 0 .. ROB_SIZE
  /\ fetched \in [Instrs -> {"no", "INFLIGHT", "COMPLETED"}]
  /\ event_cycle \in [Instrs -> {"unset", "running", "passed"}]
  /\ executed \subseteq 1 .. dispatched /\ mispredicted \subseteq Branches
  /\ fetch_resume \in {"unset", "running", "passed"}
  /\ RQ \in Seq(Request) /\ MSHR \subseteq Request /\ PROCESSED \in Seq(Request)
  /\ Len(RQ) <= RQ_SIZE /\ Cardinality(MSHR) <= MSHR_SIZE

(* An instruction that waits for its line has the answer of that line on   *)
(* its way: an entry is marked INFLIGHT only for a request the L1I took,   *)
(* and the L1I's answer, which is known by its ip, names the line.         *)
UnderWay == ToSet(RQ) \cup MSHR \cup ToSet(PROCESSED)

AnswerComing ==
  \A i \in IFETCH_BUFFER :
    fetched[i] = "INFLIGHT" => \E r \in UnderWay : r.line = line(i)

(* The back end sees a stream: every instruction enters the ROB, in order, *)
(* and none behind a mispredicted branch before that branch has executed.  *)
Stream == INSTANCE InstructionStream WITH
            arrived <- dispatched,
            mispredicted <- mispredicted \cap 1 .. dispatched

ImplementsFairStream == Stream!FairStreamSpec

=============================================================================
