--------------------------- MODULE DcmProperties ---------------------------
(***************************************************************************)
(* What DRAM_CACHE_MANAGER must keep true while requests conflict, stall   *)
(* on full queues and complete inside one another's handlers.              *)
(***************************************************************************)
EXTENDS DramCacheManager

CallType  == [fn : HandlerNames, addr : Addr] \cup {NoCall}
FrameType == [op : Rest, addr : Addr]

(* Every variable stays within its type (the members of                    *)
(* DRAM_CACHE_MANAGER and the queues of the two controllers).              *)
TypeOK ==
  /\ policy \in Policies /\ bypass \in BOOLEAN /\ warm \in BOOLEAN
  /\ tags \in [Indices -> TagEntry]
  /\ orb \in [Addr -> OrbEntry]
  /\ crb \in Seq(Packet) /\ wb \in Seq(Addr)
  /\ bypassReads \in [Addr -> Int] /\ llcWaiting \in [Addr -> Int]
  /\ pendingNear \in Seq(Packet) /\ pendingFar \in Seq(HeldPkt)
  /\ resp \in Seq(Response)
  /\ near \in MemQueues /\ far \in MemQueues
  /\ phase \in Phases
  /\ call \in CallType
  /\ frames \in Seq(FrameType)
  /\ submitted \in 0 .. MaxRequests
  /\ unsaved \subseteq Addr

(* At most one admitted request per DRAM-cache index: checkConflictInORB() *)
(* holds back the others, and promoteFromCRB() admits without asking it.   *)
OneRequestPerIndex ==
  \A a, b \in Admitted : returnIndexDC(a) = returnIndexDC(b) => a = b

(* No request is stranded in the CRB: one is promoted only when a request  *)
(* of its index completes, so such a request must exist (or have just      *)
(* completed) as long as the held one is there.                            *)
HeldHasBlocker ==
  \A k \in DOMAIN crb :
    \/ Busy(returnIndexDC(crb[k].addr))
    \/ /\ call.fn = "promoteFromCRB"
       /\ returnIndexDC(call.addr) = returnIndexDC(crb[k].addr)

-----------------------------------------------------------------------------

Count(q, Test(_)) == Cardinality({k \in DOMAIN q : Test(q[k])})
Bit(P)            == IF P THEN 1 ELSE 0

(* Every read the LLC waits for is in exactly one place, and no read is    *)
(* answered that the LLC does not wait for: none is lost to a rejected     *)
(* add_rq(), a refused dispatch, a merge in a controller or a promotion.   *)
ReadsConserved ==
  \A a \in Addr :
    llcWaiting[a] = Bit(InOrb(a) /\ ~orb[a].isWrite)
                    + Count(crb, LAMBDA p : p.addr = a /\ ~p.isWrite)
                    + Count(resp, LAMBDA r : r.addr = a)
                    + bypassReads[a]

(* Between handlers each request that waits for near (far) memory has      *)
(* exactly one read on its way there, queued or pending, and no read is on *)
(* its way without its request: a completion can be credited to no other.  *)
OneReadPerWaiter ==
  Idle => \A a \in Addr :
    LET Read(p) == p.addr = a /\ ~p.isWrite IN
    /\ Bit(a \in near.rq) + Count(pendingNear, Read)
         = Bit(orb[a].state = "WAITING_LOC_MEM_READ_RESP")
    /\ Bit(a \in far.rq) + Count(pendingFar, Read)
         = Bit(orb[a].state = "WAITING_FAR_MEM_READ_RESP") + bypassReads[a]

(* A line written by the LLC is never dropped on its way to far memory: it *)
(* is dirty in the tag store, or the victim of a request whose tag check   *)
(* is not back yet, or in WB, on the link or in farMC's write queue.       *)
DirtyNotLost ==
  \A a \in unsaved :
    \/ \E i \in Indices : tags[i].valid /\ tags[i].dirty /\ tags[i].far = a
    \/ \E b \in Addr : /\ orb[b].state \in {"LOC_MEM_READ", "WAITING_LOC_MEM_READ_RESP"}
                       /\ orb[b].dirtyLineAddr = a
    \/ \E k \in DOMAIN wb : wb[k] = a
    \/ \E k \in DOMAIN pendingFar : pendingFar[k].addr = a /\ pendingFar[k].isWrite
    \/ a \in far.wq

(* Occupancies never exceed the sizes, although promoteFromCRB() admits    *)
(* with no check of the ORB and MEMORY_CONTROLLER::add_rq() with none of   *)
(* its read queue.                                                         *)
WithinCapacity ==
  /\ Cardinality(Admitted) <= OrbMaxSize
  /\ Len(crb) <= CrbMaxSize
  /\ Cardinality(near.rq) <= DramRqSize /\ Cardinality(near.wq) <= DramWqSize
  /\ Cardinality(far.rq) <= DramRqSize /\ Cardinality(far.wq) <= DramWqSize

(* Nothing reaches nearMC ahead of a dispatch that has been pending since  *)
(* before: dispatchToNear() queues behind pendingNearDispatches even when  *)
(* the controller has room.                                                *)
Reaches(mc, newmc) == [isWrite : {FALSE}, addr : newmc.rq \ mc.rq]
                        \cup [isWrite : {TRUE}, addr : newmc.wq \ mc.wq]

NearDispatchInOrder ==
  [][\A p \in Reaches(near, near') :
       pendingNear # <<>> => /\ Head(pendingNear).addr = p.addr
                             /\ Head(pendingNear).isWrite = p.isWrite]_vars

(* The same of the reads that reach farMC: docs/memory_dispatch_audit.md   *)
(* has it that FIFO order is preserved by construction.                    *)
FarDispatchInOrder ==
  [][\A a \in far'.rq \ far.rq :
       (\E k \in DOMAIN pendingFar : ~pendingFar[k].isWrite)
         => Head(SelectSeq(pendingFar, LAMBDA p : ~p.isWrite)).addr = a]_vars

(* Delayed responses become ready in the order they were queued, as the    *)
(* comment of processPendingResponses() has it.                            *)
ResponsesReadyInOrder ==
  \A j, k \in DOMAIN resp : j < k => resp[j].hold <= resp[k].hold

(* return_data() never meets a response nobody waits for: the comment of   *)
(* its defensive branch says that this should not happen.                  *)
NoUntrackedResponse ==
  call.fn = "return_data" =>
    bypassReads[call.addr] > 0 \/ orb[call.addr].state \in Waiting

(* A read admitted in bypass mode is answered by farMC, never by the near  *)
(* completion of another request for its line: the comment at the head of  *)
(* return_data() has it routed correctly even if bypass is toggled off.    *)
BypassedReadAnsweredByFar ==
  (call.fn = "return_data" /\ bypassReads[call.addr] > 0) =>
    \A k \in DOMAIN frames : frames[k].op # "doneNear"

-----------------------------------------------------------------------------
(* The manager implements LineService: the queue of an index is the        *)
(* request admitted for it, then those the CRB holds for it.  A read in    *)
(* bypass mode never enters it: it is a matter between LLC and farMC.      *)

Plain(p) == [addr |-> p.addr, isWrite |-> p.isWrite]
HeldFor(q, i) == {k \in DOMAIN q : returnIndexDC(q[k].addr) = i}
Nth(K, n)     == CHOOSE k \in K : Cardinality({j \in K : j <= k}) = n

HeldQueue(q, i) == [n \in 1 .. Cardinality(HeldFor(q, i)) |-> Plain(q[Nth(HeldFor(q, i), n)])]
Owners(i)       == {[addr |-> a, isWrite |-> orb[a].isWrite] :
                      a \in {b \in Admitted : returnIndexDC(b) = i}}
LineQueue(i)    == SetToSeq(Owners(i)) \o HeldQueue(crb, i)

LineQueues == [i \in Indices |-> LineQueue(i)]
ReadsDue   == [k \in DOMAIN resp |-> resp[k].addr]
ReadsOwed  == [a \in Addr |-> llcWaiting[a] - bypassReads[a]]

Line == INSTANCE LineService WITH queue <- LineQueues, due <- ReadsDue, waiting <- ReadsOwed

(* Every step of the manager is a step of the service, or none: requests   *)
(* of an index are never reordered, dropped, duplicated or answered twice. *)
ImplementsLineService == Line!LineSpec

-----------------------------------------------------------------------------
(* Liveness.  Every stage of operate() runs in every cycle, so handlers    *)
(* and stages are weakly fair.  A controller with queued requests serves   *)
(* some read (write) in infinitely many cycles: with a bounded number of   *)
(* requests neither kind can starve the other for ever.                    *)

Fairness ==
  /\ WF_vars(Handler)
  /\ WF_vars(Operate)
  /\ WF_vars(CompleteWarmup) /\ WF_vars(NextCycle)
  /\ SF_vars(\E a \in Addr : NearServeRead(a))
  /\ SF_vars(\E a \in Addr : NearServeWrite(a))
  /\ SF_vars(\E a \in Addr : FarServeRead(a))
  /\ SF_vars(\E a \in Addr : FarServeWrite(a))

FairSpec == Spec /\ Fairness

(* Every read the LLC hands down is answered and everything accepted       *)
(* drains: held requests, pending dispatches and write-backs all go.       *)
Drained ==
  <>[](/\ \A a \in Addr : llcWaiting[a] = 0
       /\ crb = <<>> /\ wb = <<>> /\ pendingNear = <<>> /\ pendingFar = <<>>
       /\ Admitted = {})

(* The service's own fairness: the oldest request of every index is served *)
(* in the end, whatever the other indices do.                              *)
ImplementsFairLineService == Line!FairLineSpec
=============================================================================
