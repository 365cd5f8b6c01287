---------------------------- MODULE LineService ----------------------------
(***************************************************************************)
(* What the DRAM-cache manager promises the LLC: the requests of a cache   *)
(* line's index are served one at a time in the order they were accepted,  *)
(* a write ends when it is served, and a read is then answered once, in    *)
(* the order reads were served.                                            *)
(***************************************************************************)
EXTENDS Integers, Sequences

CONSTANTS Addr, NumLines

VARIABLES
  queue,    (* the accepted, unfinished requests of each index, oldest first *)
  due,      (* reads served and not yet answered                             *)
  waiting   (* reads the LLC waits for, by address                           *)

lineVars == <<queue, due, waiting>>

Index(a) == a % NumLines
Request  == [addr : Addr, isWrite : BOOLEAN]

LineInit ==
  /\ queue = [i \in 0 .. NumLines - 1 |-> <<>>]
  /\ due = <<>>
  /\ waiting = [a \in Addr |-> 0]

Accept(r) ==
  /\ queue' = [queue EXCEPT ![Index(r.addr)] = Append(@, r)]
  /\ waiting' = IF r.isWrite THEN waiting
                             ELSE [waiting EXCEPT ![r.addr] = @ + 1]
  /\ UNCHANGED due

(* The oldest request of an index is served; a read may be answered later. *)
Serve(i) ==
  /\ queue[i] # <<>>
  /\ queue' = [queue EXCEPT ![i] = Tail(@)]
  /\ LET r == Head(queue[i]) IN
       \/ r.isWrite /\ UNCHANGED <<due, waiting>>
       \/ ~r.isWrite /\ due' = Append(due, r.addr) /\ UNCHANGED waiting
       \/ /\ ~r.isWrite /\ due = <<>>
          /\ waiting' = [waiting EXCEPT ![r.addr] = @ - 1] /\ UNCHANGED due

Answer ==
  /\ due # <<>>
  /\ due' = Tail(due)
  /\ waiting' = [waiting EXCEPT ![Head(due)] = @ - 1]
  /\ UNCHANGED queue

LineNext ==
  \/ \E r \in Request : Accept(r)
  \/ \E i \in 0 .. NumLines - 1 : Serve(i)
  \/ Answer

LineSpec == LineInit /\ [][LineNext]_lineVars

FairLineSpec ==
  /\ LineSpec
  /\ \A i \in 0 .. NumLines - 1 : WF_lineVars(Serve(i))
  /\ WF_lineVars(Answer)
=============================================================================
