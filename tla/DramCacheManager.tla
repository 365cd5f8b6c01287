-------------------------- MODULE DramCacheManager --------------------------
(***************************************************************************)
(* DRAM_CACHE_MANAGER: the controller between the last-level cache (LLC)   *)
(* and two memory controllers, a near one (the DRAM cache) and a far one   *)
(* (the backing store).                                                    *)
(*                                                                         *)
(* One simulated cycle runs the stages of operate() in order, then lets    *)
(* the LLC submit requests; `phase` is the stage that runs next.  A        *)
(* handler of the C++ calls others, and MEMORY_CONTROLLER::add_rq() may    *)
(* call return_data() back before it returns, so handlers nest.  `call` is *)
(* the handler about to run and `frames` holds what its callers still have *)
(* to do: nothing else runs until both are empty.                          *)
(*                                                                         *)
(* The two MEMORY_CONTROLLERs appear by their interface only: the sets of  *)
(* addresses queued, and one request served per cycle in an order left     *)
(* open.  Absolute cycle numbers become countdowns (`hold`).               *)
(***************************************************************************)
EXTENDS Integers, FiniteSets, Sequences, SequencesExt

CONSTANTS
  Addr,            (* line addresses; 0 marks an empty controller slot     *)
  NumLines,        (* DCM_NUM_LINES                                        *)
  Policies,        (* the policies the command line may have selected      *)
  BypassModes,     (* initial values of bypassDcache                       *)
  BypassToggles,   (* may setBypassDcache() be called between cycles?      *)
  Callbacks,       (* completions an access signals: 1, or 2 for a packet  *)
                   (* that is both `instruction` and `is_data`             *)
  OrbMaxSize,      (* DCM_ORB_MAX_SIZE                                     *)
  CrbMaxSize,      (* DCM_CRB_MAX_SIZE                                     *)
  DramRqSize,      (* DRAM_RQ_SIZE                                         *)
  DramWqSize,      (* DRAM_WQ_SIZE                                         *)
  LinkLatency,     (* linkLatencyCycles                                    *)
  FrontendLatency, (* frontendLatencyCycles                                *)
  BackendLatency,  (* backendLatencyCycles                                 *)
  MaxRequests      (* bound: requests the LLC submits after warmup         *)

AllPolicies == {"baseline", "bear", "oracle"}

ASSUME DcmAssumption ==
  /\ Addr \subseteq Nat \ {0}
  /\ NumLines \in Nat \ {0}
  /\ Policies \subseteq AllPolicies
  /\ BypassModes \subseteq BOOLEAN
  /\ BypassToggles \in BOOLEAN
  /\ Callbacks \subseteq {1, 2}
  /\ OrbMaxSize \in Nat \ {0} /\ CrbMaxSize \in Nat
  /\ DramRqSize \in Nat \ {0} /\ DramWqSize \in Nat \ {0}
  /\ LinkLatency \in Nat /\ FrontendLatency \in Nat /\ BackendLatency \in Nat
  /\ MaxRequests \in Nat

VARIABLES
  policy,       (* policy                                                  *)
  bypass,       (* bypassDcache                                            *)
  warm,         (* all_warmup_complete >= NUM_CPUS                         *)
  tags,         (* tagMetadataStore                                        *)
  orb,          (* ORB: the admitted request of each address, or NoEntry   *)
  crb,          (* CRB: requests held back by a conflict, oldest first     *)
  wb,           (* WB: victims waiting to go to far memory                 *)
  bypassReads,  (* bypassOutstandingReads, a multiset of addresses         *)
  pendingNear,  (* pendingNearDispatches                                   *)
  pendingFar,   (* pendingFarDispatches                                    *)
  resp,         (* pendingResponses                                        *)
  near, far,    (* the queues of nearMC and farMC                          *)
  phase,        (* the stage of the cycle that runs next                   *)
  call,         (* the handler about to run                                *)
  frames,       (* what the callers of that handler still have to do       *)
  llcWaiting,   (* LLC: reads handed down and not yet returned, by address *)
  submitted,    (* LLC: requests submitted since the end of warmup         *)
  unsaved       (* history: written lines not yet written to far memory    *)

mcVars   == <<near, far>>
dcmVars  == <<tags, orb, crb, wb, bypassReads, pendingNear, pendingFar, resp>>
llcVars  == <<llcWaiting, submitted>>
ctlVars  == <<phase, call, frames>>
modeVars == <<policy, bypass, warm>>
vars == <<mcVars, dcmVars, llcVars, ctlVars, modeVars, unsaved>>

(* Faulty_<name> is <name> with a bug in it, of the kind a change to the   *)
(* code could bring in.  No specification uses one: each is there to show  *)
(* that a property would tell.                                             *)

-----------------------------------------------------------------------------
(* Records.                                                                *)

returnIndexDC(a) == a % NumLines
returnTagDC(a)   == a \div NumLines
Indices          == 0 .. NumLines - 1

Packet    == [addr : Addr, isWrite : BOOLEAN, cb : {1, 2}]
HeldPkt   == [addr : Addr, isWrite : BOOLEAN, cb : {1, 2}, hold : Nat]
Response  == [addr : Addr, hold : Nat]
TagEntry  == [valid : BOOLEAN, dirty : BOOLEAN, tag : Nat, far : Addr \cup {0}]
MemQueues == [rq : SUBSET Addr, wq : SUBSET Addr]

Waiting  == {"WAITING_LOC_MEM_READ_RESP", "WAITING_FAR_MEM_READ_RESP"}
ToDrive  == {"LOC_MEM_READ", "FAR_MEM_READ", "LOC_MEM_WRITE"}
OrbEntry == [state : {"none"} \cup Waiting \cup ToDrive, isWrite : BOOLEAN,
             isHit : BOOLEAN, dirtyLineAddr : Addr \cup {0}, cb : {1, 2}]
NoEntry  == [state |-> "none", isWrite |-> FALSE, isHit |-> FALSE,
             dirtyLineAddr |-> 0, cb |-> 1]

HandlerNames == {"return_data", "driveState", "promoteFromCRB"}
Rest       == {"return_data", "fill", "popNear", "popFar", "doneNear", "doneFar"}
Call(fn, a)  == [fn |-> fn, addr |-> a]
Frame(op, a) == [op |-> op, addr |-> a]
NoCall       == Call("none", 0)

Phases == {"far", "wb", "near", "nearMC", "farMC", "resp", "llc"}

InOrb(a)    == orb[a].state # "none"

(* A conflict check blind to requests that wait for far memory.            *)
Faulty_Busy(i) ==
  \E a \in Addr : /\ InOrb(a) /\ returnIndexDC(a) = i
                  /\ orb[a].state # "WAITING_FAR_MEM_READ_RESP"

Busy(i)     == \E a \in Addr : InOrb(a) /\ returnIndexDC(a) = i
Admitted    == {a \in Addr : InOrb(a)}
Idle        == call = NoCall /\ frames = <<>>
At(p)       == phase = p /\ Idle
WbThreshold == OrbMaxSize \div 2

-----------------------------------------------------------------------------
(* Tag store and policy: a request is classified against the line its      *)
(* index holds, and the line is replaced at once.                          *)

isHit(a) == LET slot == tags[returnIndexDC(a)]
            IN  slot.valid /\ slot.tag = returnTagDC(a)

DirtyVictim(a) == LET slot == tags[returnIndexDC(a)]
                  IN  slot.valid /\ slot.dirty /\ ~isHit(a)

(* A hit that forgets that the line was dirty.                             *)
Faulty_Installed(a, isWrite) ==
  [tags EXCEPT ![returnIndexDC(a)] =
     [valid |-> TRUE, dirty |-> isWrite, tag |-> returnTagDC(a), far |-> a]]

Installed(a, isWrite) ==
  [tags EXCEPT ![returnIndexDC(a)] =
     [valid |-> TRUE,
      dirty |-> isWrite \/ (isHit(a) /\ @.dirty),
      tag   |-> returnTagDC(a),
      far   |-> a]]

chooseInitialState(a, isWrite) ==
  LET writeHit  == isWrite /\ isHit(a)
      cleanMiss == ~isHit(a) /\ ~DirtyVictim(a)
  IN  CASE policy \in {"bear", "oracle"} /\ writeHit -> "LOC_MEM_WRITE"
        [] policy = "oracle" /\ cleanMiss ->
             IF isWrite THEN "LOC_MEM_WRITE" ELSE "FAR_MEM_READ"
        [] OTHER -> "LOC_MEM_READ"

(* admitRequest() with classifyAndInstall(); driveState() follows.         *)
admitRequest(p) ==
  /\ orb' = [orb EXCEPT ![p.addr] =
       [state |-> chooseInitialState(p.addr, p.isWrite),
        isWrite |-> p.isWrite, isHit |-> isHit(p.addr), cb |-> p.cb,
        dirtyLineAddr |-> IF DirtyVictim(p.addr)
                          THEN tags[returnIndexDC(p.addr)].far ELSE 0]]
  /\ tags' = Installed(p.addr, p.isWrite)
  /\ unsaved' = IF p.isWrite THEN unsaved \cup {p.addr} ELSE unsaved
  /\ call' = Call("driveState", p.addr)

-----------------------------------------------------------------------------
(* Sending to a memory controller.  trySend() checks the occupancy first;  *)
(* a read of a line in the write queue is forwarded (its completion is     *)
(* signalled at once), one of a line already in the read queue would be    *)
(* merged and is refused; a write of a queued line merges into it.         *)

(* A merged read taken for a queued one.                                   *)
Faulty_trySend(mc, p) ==
  CASE p.isWrite /\ Cardinality(mc.wq) >= DramWqSize  -> "blocked"
    [] ~p.isWrite /\ Cardinality(mc.rq) >= DramRqSize -> "blocked"
    [] ~p.isWrite /\ p.addr \in mc.wq                 -> "forwarded"
    [] OTHER                                          -> "queued"

(* No look at the occupancy.                                               *)
FaultyUnbounded_trySend(mc, p) ==
  CASE ~p.isWrite /\ p.addr \in mc.wq -> "forwarded"
    [] ~p.isWrite /\ p.addr \in mc.rq -> "blocked"
    [] OTHER                          -> "queued"

trySend(mc, p) ==
  CASE p.isWrite /\ Cardinality(mc.wq) >= DramWqSize  -> "blocked"
    [] ~p.isWrite /\ Cardinality(mc.rq) >= DramRqSize -> "blocked"
    [] ~p.isWrite /\ p.addr \in mc.wq                 -> "forwarded"
    [] ~p.isWrite /\ p.addr \in mc.rq                 -> "blocked"
    [] OTHER                                          -> "queued"

Enqueued(mc, p) == IF p.isWrite THEN [mc EXCEPT !.wq = @ \cup {p.addr}]
                                ELSE [mc EXCEPT !.rq = @ \cup {p.addr}]

After(outcome, mc, p) == IF outcome = "queued" THEN Enqueued(mc, p) ELSE mc

(* What runs after an attempt to send p, `rest` being the caller's frames. *)
Continue(outcome, p, rest) ==
  IF outcome = "forwarded"
  THEN /\ call' = Call("return_data", p.addr)
       /\ frames' = IF p.cb = 2 THEN <<Frame("return_data", p.addr)>> \o rest
                                ELSE rest
  ELSE call' = NoCall /\ frames' = rest

(* Straight to the controller, past the dispatches that are pending.       *)
Faulty_NearOutcome(p) == trySend(near, p)

NearOutcome(p) == IF pendingNear = <<>> THEN trySend(near, p) ELSE "blocked"

dispatchToNear(p) ==
  /\ near' = After(NearOutcome(p), near, p)
  /\ pendingNear' = IF NearOutcome(p) = "blocked" THEN Append(pendingNear, p)
                                                  ELSE pendingNear

(* dispatchToFar(): over a link with latency everything is held first.     *)
FarOutcome(p) == IF LinkLatency > 0 THEN "blocked" ELSE trySend(far, p)

Held(p) == [addr |-> p.addr, isWrite |-> p.isWrite, cb |-> p.cb,
            hold |-> LinkLatency]

dispatchToFarGuaranteed(p) ==
  /\ far' = After(FarOutcome(p), far, p)
  /\ pendingFar' = IF FarOutcome(p) = "blocked" THEN Append(pendingFar, Held(p))
                                                ELSE pendingFar

OrbPacket(a, isWrite) == [addr |-> a, isWrite |-> isWrite, cb |-> orb[a].cb]
WritePacket(a)        == [addr |-> a, isWrite |-> TRUE, cb |-> 1]

-----------------------------------------------------------------------------
(* Completion.                                                             *)

(* scheduleResponse(): at once, or through pendingResponses.               *)
scheduleResponse(a, delay) ==
  IF delay = 0
  THEN /\ llcWaiting' = [llcWaiting EXCEPT ![a] = @ - 1]
       /\ UNCHANGED resp
  ELSE /\ resp' = Append(resp, [addr |-> a, hold |-> delay])
       /\ UNCHANGED llcWaiting

(* A completion that promotes nothing.                                     *)
Faulty_completeRequest(a, delay) ==
  /\ IF orb[a].isWrite THEN UNCHANGED <<resp, llcWaiting>>
                       ELSE scheduleResponse(a, delay)
  /\ orb' = [orb EXCEPT ![a] = NoEntry]
  /\ call' = NoCall

(* completeRequest(): promoteFromCRB() follows.                            *)
completeRequest(a, delay) ==
  /\ IF orb[a].isWrite THEN UNCHANGED <<resp, llcWaiting>>
                       ELSE scheduleResponse(a, delay)
  /\ orb' = [orb EXCEPT ![a] = NoEntry]
  /\ call' = Call("promoteFromCRB", a)

-----------------------------------------------------------------------------
(* Handlers.                                                               *)

(* driveState(), one action per state it handles.                          *)
DriveLocMemRead ==
  LET a == call.addr  p == OrbPacket(a, FALSE) IN
  /\ call.fn = "driveState" /\ orb[a].state = "LOC_MEM_READ"
  /\ orb' = [orb EXCEPT ![a].state = "WAITING_LOC_MEM_READ_RESP"]
  /\ dispatchToNear(p)
  /\ Continue(NearOutcome(p), p, frames)
  /\ UNCHANGED <<tags, crb, wb, bypassReads, pendingFar, resp, far, phase,
                 llcVars, modeVars, unsaved>>

DriveFarMemRead ==
  LET a == call.addr  p == OrbPacket(a, FALSE) IN
  /\ call.fn = "driveState" /\ orb[a].state = "FAR_MEM_READ"
  /\ orb' = [orb EXCEPT ![a].state = "WAITING_FAR_MEM_READ_RESP"]
  /\ dispatchToFarGuaranteed(p)
  /\ Continue(FarOutcome(p), p, frames)
  /\ UNCHANGED <<tags, crb, wb, bypassReads, pendingNear, resp, near, phase,
                 llcVars, modeVars, unsaved>>

(* A local write signals nothing back: the request completes here.         *)
DriveLocMemWrite ==
  LET a == call.addr IN
  /\ call.fn = "driveState" /\ orb[a].state = "LOC_MEM_WRITE"
  /\ dispatchToNear(WritePacket(a))
  /\ completeRequest(a, 0)
  /\ UNCHANGED <<tags, crb, wb, bypassReads, pendingFar, far, phase, frames,
                 submitted, modeVars, unsaved>>

(* promoteFromCRB(): admit the oldest held request of the freed index.     *)
SameIndex(a) == {k \in 1 .. Len(crb) :
                   returnIndexDC(crb[k].addr) = returnIndexDC(a)}

(* The newest held request is promoted.                                    *)
Faulty_IsOldest(k, K) == k \in K /\ \A j \in K : j <= k

IsOldest(k, K) == k \in K /\ \A j \in K : k <= j

Promote ==
  /\ call.fn = "promoteFromCRB"
  /\ \E k \in DOMAIN crb :
       /\ IsOldest(k, SameIndex(call.addr))
       /\ crb' = RemoveAt(crb, k)
       /\ admitRequest(crb[k])
  /\ UNCHANGED <<wb, bypassReads, pendingNear, pendingFar, resp, mcVars,
                 phase, frames, llcVars, modeVars>>

NothingToPromote ==
  /\ call.fn = "promoteFromCRB"
  /\ SameIndex(call.addr) = {}
  /\ call' = NoCall
  /\ UNCHANGED <<dcmVars, mcVars, phase, frames, llcVars, modeVars, unsaved>>

(* The response does not strike the read off bypassOutstandingReads.       *)
Faulty_ReturnBypassed ==
  LET a == call.addr IN
  /\ call.fn = "return_data" /\ bypassReads[a] > 0
  /\ llcWaiting' = [llcWaiting EXCEPT ![a] = @ - 1]
  /\ call' = NoCall
  /\ UNCHANGED <<dcmVars, mcVars, phase, frames, submitted, modeVars, unsaved>>

(* return_data(): a response for a bypassed read goes straight to the LLC. *)
ReturnBypassed ==
  LET a == call.addr IN
  /\ call.fn = "return_data" /\ bypassReads[a] > 0
  /\ bypassReads' = [bypassReads EXCEPT ![a] = @ - 1]
  /\ llcWaiting' = [llcWaiting EXCEPT ![a] = @ - 1]
  /\ call' = NoCall
  /\ UNCHANGED <<tags, orb, crb, wb, pendingNear, pendingFar, resp, mcVars,
                 phase, frames, submitted, modeVars, unsaved>>

Returned(a) == call = Call("return_data", a) /\ bypassReads[a] = 0

(* Every tag check writes back, dirty victim or not.                       *)
Faulty_pushDirtyWriteBack(a) == wb' = Append(wb, orb[a].dirtyLineAddr)

(* pushDirtyWriteBack(), when the request displaced a dirty line.          *)
pushDirtyWriteBack(a) ==
  wb' = IF orb[a].dirtyLineAddr # 0 THEN Append(wb, orb[a].dirtyLineAddr)
                                    ELSE wb

(* The tag-check read of a hit read is back: answer the LLC.               *)
ReturnTagReadHit ==
  LET a == call.addr IN
  /\ Returned(a) /\ orb[a].state = "WAITING_LOC_MEM_READ_RESP"
  /\ ~orb[a].isWrite /\ orb[a].isHit
  /\ pushDirtyWriteBack(a)
  /\ completeRequest(a, FrontendLatency + BackendLatency)
  /\ UNCHANGED <<tags, crb, bypassReads, pendingNear, pendingFar, mcVars,
                 phase, frames, submitted, modeVars, unsaved>>

(* The tag-check read of a write, or of a read that missed, is back.       *)
ReturnTagRead ==
  LET a == call.addr IN
  /\ Returned(a) /\ orb[a].state = "WAITING_LOC_MEM_READ_RESP"
  /\ orb[a].isWrite \/ ~orb[a].isHit
  /\ pushDirtyWriteBack(a)
  /\ orb' = [orb EXCEPT ![a].state = IF orb[a].isWrite THEN "LOC_MEM_WRITE"
                                                       ELSE "FAR_MEM_READ"]
  /\ call' = Call("driveState", a)
  /\ UNCHANGED <<tags, crb, bypassReads, pendingNear, pendingFar, resp, mcVars,
                 phase, frames, llcVars, modeVars, unsaved>>

(* The line is back from far memory: answer the LLC, then fill near memory. *)
ReturnFarRead ==
  LET a == call.addr IN
  /\ Returned(a) /\ orb[a].state = "WAITING_FAR_MEM_READ_RESP"
  /\ completeRequest(a, FrontendLatency + BackendLatency + BackendLatency)
  /\ frames' = <<Frame("fill", a)>> \o frames
  /\ UNCHANGED <<tags, crb, wb, bypassReads, pendingNear, pendingFar, mcVars,
                 phase, submitted, modeVars, unsaved>>

(* No admitted request waits for this response: it is dropped.             *)
ReturnUntracked ==
  LET a == call.addr IN
  /\ Returned(a) /\ orb[a].state \notin Waiting
  /\ call' = NoCall
  /\ UNCHANGED <<dcmVars, mcVars, phase, frames, llcVars, modeVars, unsaved>>

(* What is left of a caller once the handler it called has returned.       *)
Resume(op) == call = NoCall /\ frames # <<>> /\ Head(frames).op = op

ResumeReturn ==    (* MEMORY_CONTROLLER::add_rq() signals is_data as well   *)
  /\ Resume("return_data")
  /\ call' = Call("return_data", Head(frames).addr)
  /\ frames' = Tail(frames)
  /\ UNCHANGED <<dcmVars, mcVars, phase, llcVars, modeVars, unsaved>>

ResumeFill ==      (* return_data(): the background fill write              *)
  /\ Resume("fill")
  /\ dispatchToNear(WritePacket(Head(frames).addr))
  /\ frames' = Tail(frames)
  /\ UNCHANGED <<tags, orb, crb, wb, bypassReads, pendingFar, resp, far, phase,
                 call, llcVars, modeVars, unsaved>>

ResumePop ==       (* the pending dispatch that was forwarded is done       *)
  /\ \/ Resume("popNear") /\ pendingNear' = Tail(pendingNear) /\ UNCHANGED pendingFar
     \/ Resume("popFar") /\ pendingFar' = Tail(pendingFar) /\ UNCHANGED pendingNear
  /\ frames' = Tail(frames)
  /\ UNCHANGED <<tags, orb, crb, wb, bypassReads, resp, mcVars, phase, call,
                 llcVars, modeVars, unsaved>>

ResumeDone ==      (* MEMORY_CONTROLLER::process() removes the queue entry  *)
  /\ \/ Resume("doneNear") /\ near' = [near EXCEPT !.rq = @ \ {Head(frames).addr}]
                           /\ UNCHANGED far
     \/ Resume("doneFar") /\ far' = [far EXCEPT !.rq = @ \ {Head(frames).addr}]
                          /\ UNCHANGED near
  /\ frames' = Tail(frames)
  /\ UNCHANGED <<dcmVars, phase, call, llcVars, modeVars, unsaved>>

-----------------------------------------------------------------------------
(* operate(), stage by stage.                                              *)

(* processPendingFarDispatches(): release the front while it is ready.     *)
FarReady == pendingFar # <<>> /\ Head(pendingFar).hold = 0

ReleaseFar ==
  /\ At("far") /\ FarReady
  /\ LET p == Head(pendingFar)  outcome == trySend(far, p) IN
       /\ outcome # "blocked"
       /\ far' = After(outcome, far, p)
       /\ pendingFar' = IF outcome = "queued" THEN Tail(pendingFar) ELSE pendingFar
       /\ Continue(outcome, p,
                   IF outcome = "forwarded" THEN <<Frame("popFar", p.addr)>> ELSE <<>>)
  /\ UNCHANGED <<tags, orb, crb, wb, bypassReads, pendingNear, resp, near,
                 phase, llcVars, modeVars, unsaved>>

FarReleased ==
  /\ At("far")
  /\ FarReady => trySend(far, Head(pendingFar)) = "blocked"
  /\ phase' = "wb"
  /\ UNCHANGED <<dcmVars, mcVars, call, frames, llcVars, modeVars, unsaved>>

(* drainWB(): at most one write-back a cycle, popped once it is accepted.  *)
DrainWB ==
  /\ At("wb")
  /\ LET p == WritePacket(Head(wb))
         accepted == wb # <<>> /\ (LinkLatency > 0 \/ trySend(far, p) = "queued") IN
       IF accepted
       THEN /\ dispatchToFarGuaranteed(p)
            /\ wb' = Tail(wb)
       ELSE UNCHANGED <<far, pendingFar, wb>>
  /\ phase' = "near"
  /\ UNCHANGED <<tags, orb, crb, bypassReads, pendingNear, resp, near, call,
                 frames, llcVars, modeVars, unsaved>>

(* processPendingNearDispatches().                                         *)
ReleaseNear ==
  /\ At("near") /\ pendingNear # <<>>
  /\ LET p == Head(pendingNear)  outcome == trySend(near, p) IN
       /\ outcome # "blocked"
       /\ near' = After(outcome, near, p)
       /\ pendingNear' = IF outcome = "queued" THEN Tail(pendingNear) ELSE pendingNear
       /\ Continue(outcome, p,
                   IF outcome = "forwarded" THEN <<Frame("popNear", p.addr)>> ELSE <<>>)
  /\ UNCHANGED <<tags, orb, crb, wb, bypassReads, pendingFar, resp, far, phase,
                 llcVars, modeVars, unsaved>>

NearReleased ==
  /\ At("near")
  /\ pendingNear # <<>> => trySend(near, Head(pendingNear)) = "blocked"
  /\ phase' = "nearMC"
  /\ UNCHANGED <<dcmVars, mcVars, call, frames, llcVars, modeVars, unsaved>>

(* nearMC->operate() and farMC->operate(): a read completes, a write       *)
(* completes, or nothing does in this cycle.                               *)
NearServeRead(a) ==
  /\ At("nearMC") /\ a \in near.rq
  /\ call' = Call("return_data", a)
  /\ frames' = <<Frame("doneNear", a)>>
  /\ phase' = "farMC"
  /\ UNCHANGED <<dcmVars, mcVars, llcVars, modeVars, unsaved>>

NearServeWrite(a) ==
  /\ At("nearMC") /\ a \in near.wq
  /\ near' = [near EXCEPT !.wq = @ \ {a}]
  /\ phase' = "farMC"
  /\ UNCHANGED <<dcmVars, far, call, frames, llcVars, modeVars, unsaved>>

NearWaits ==
  /\ At("nearMC")
  /\ phase' = "farMC"
  /\ UNCHANGED <<dcmVars, mcVars, call, frames, llcVars, modeVars, unsaved>>

FarServeRead(a) ==
  /\ At("farMC") /\ a \in far.rq
  /\ call' = Call("return_data", a)
  /\ frames' = <<Frame("doneFar", a)>>
  /\ phase' = "resp"
  /\ UNCHANGED <<dcmVars, mcVars, llcVars, modeVars, unsaved>>

FarServeWrite(a) ==
  /\ At("farMC") /\ a \in far.wq
  /\ far' = [far EXCEPT !.wq = @ \ {a}]
  /\ unsaved' = unsaved \ {a}
  /\ phase' = "resp"
  /\ UNCHANGED <<dcmVars, near, call, frames, llcVars, modeVars>>

FarWaits ==
  /\ At("farMC")
  /\ phase' = "resp"
  /\ UNCHANGED <<dcmVars, mcVars, call, frames, llcVars, modeVars, unsaved>>

(* processPendingResponses(): deliver the front while it is due.           *)
DeliverResponse ==
  /\ At("resp") /\ resp # <<>> /\ Head(resp).hold = 0
  /\ llcWaiting' = [llcWaiting EXCEPT ![Head(resp).addr] = @ - 1]
  /\ resp' = Tail(resp)
  /\ UNCHANGED <<tags, orb, crb, wb, bypassReads, pendingNear, pendingFar,
                 mcVars, ctlVars, submitted, modeVars, unsaved>>

ResponsesDelivered ==
  /\ At("resp")
  /\ resp # <<>> => Head(resp).hold > 0
  /\ phase' = "llc"
  /\ UNCHANGED <<dcmVars, mcVars, call, frames, llcVars, modeVars, unsaved>>

-----------------------------------------------------------------------------
(* The LLC's turn.                                                         *)

(* No regard for write-back pressure, which makes add_rq() refuse.         *)
Faulty_Full(p) ==
  CASE bypass /\ p.isWrite -> Cardinality(far.wq) = DramWqSize
    [] bypass /\ ~p.isWrite -> Cardinality(far.rq) = DramRqSize
    [] ~bypass /\ Busy(returnIndexDC(p.addr)) -> Len(crb) = CrbMaxSize
    [] OTHER -> Cardinality(Admitted) = OrbMaxSize

(* get_occupancy() = get_size(): the LLC keeps such a request back.        *)
Full(p) ==
  CASE bypass /\ p.isWrite -> Cardinality(far.wq) = DramWqSize
    [] bypass /\ ~p.isWrite -> Cardinality(far.rq) = DramRqSize
    [] ~bypass /\ Busy(returnIndexDC(p.addr)) -> Len(crb) = CrbMaxSize
    [] OTHER -> Len(wb) >= WbThreshold \/ Cardinality(Admitted) = OrbMaxSize

(* A request the LLC hands down; it ignores the code add_rq() returns.     *)
Submit(p) ==
  /\ At("llc") /\ warm
  /\ ~Full(p)
  /\ submitted < MaxRequests
  /\ submitted' = submitted + 1
  /\ llcWaiting' = IF p.isWrite THEN llcWaiting
                                ELSE [llcWaiting EXCEPT ![p.addr] = @ + 1]

(* The branches of add_rq() and add_wq() after warmup.                     *)
AddBypassed(p) ==
  /\ Submit(p) /\ bypass
  /\ bypassReads' = IF p.isWrite THEN bypassReads
                                 ELSE [bypassReads EXCEPT ![p.addr] = @ + 1]
  /\ unsaved' = IF p.isWrite THEN unsaved \cup {p.addr} ELSE unsaved
  /\ dispatchToFarGuaranteed(p)
  /\ Continue(FarOutcome(p), p, <<>>)
  /\ UNCHANGED <<tags, orb, crb, wb, pendingNear, resp, near, phase, modeVars>>

(* A conflicting request is held; a full CRB rejects it (-2).              *)
AddConflicting(p) ==
  /\ Submit(p) /\ ~bypass /\ Busy(returnIndexDC(p.addr))
  /\ crb' = IF Len(crb) >= CrbMaxSize THEN crb ELSE Append(crb, p)
  /\ UNCHANGED <<tags, orb, wb, bypassReads, pendingNear, pendingFar, resp,
                 mcVars, ctlVars, modeVars, unsaved>>

(* Write-back pressure or a full ORB rejects a request (-2).               *)
Rejected == Len(wb) >= WbThreshold \/ Cardinality(Admitted) >= OrbMaxSize

AddAdmitted(p) ==
  /\ Submit(p) /\ ~bypass /\ ~Busy(returnIndexDC(p.addr))
  /\ IF Rejected THEN UNCHANGED <<orb, tags, unsaved, call>> ELSE admitRequest(p)
  /\ UNCHANGED <<crb, wb, bypassReads, pendingNear, pendingFar, resp, mcVars,
                 phase, frames, modeVars>>

Requests == {p \in Packet : p.cb \in Callbacks /\ (p.isWrite => p.cb = 1)}

(* During warmup add_rq()/add_wq() only update the tag store.              *)
WarmupAccess(p) ==
  /\ At("llc") /\ ~warm /\ ~bypass
  /\ tags' = Installed(p.addr, p.isWrite)
  /\ unsaved' = {tags'[i].far : i \in {j \in Indices : tags'[j].dirty}}
  /\ UNCHANGED <<orb, crb, wb, bypassReads, pendingNear, pendingFar, resp,
                 mcVars, ctlVars, llcVars, modeVars>>

CompleteWarmup ==
  /\ At("llc") /\ ~warm
  /\ warm' = TRUE
  /\ UNCHANGED <<dcmVars, mcVars, ctlVars, llcVars, policy, bypass, unsaved>>

setBypassDcache ==
  /\ At("llc") /\ warm /\ BypassToggles
  /\ bypass' = ~bypass
  /\ UNCHANGED <<dcmVars, mcVars, ctlVars, llcVars, policy, warm, unsaved>>

(* current_core_cycle advances.                                            *)
Elapse(q) == [k \in DOMAIN q |->
                [q[k] EXCEPT !.hold = IF @ > 0 THEN @ - 1 ELSE 0]]

NextCycle ==
  /\ At("llc") /\ warm
  /\ phase' = "far"
  /\ pendingFar' = Elapse(pendingFar)
  /\ resp' = Elapse(resp)
  /\ UNCHANGED <<tags, orb, crb, wb, bypassReads, pendingNear, mcVars, call,
                 frames, llcVars, modeVars, unsaved>>

-----------------------------------------------------------------------------

Init ==
  /\ policy \in Policies /\ bypass \in BypassModes /\ warm = FALSE
  /\ tags = [i \in Indices |->
               [valid |-> FALSE, dirty |-> FALSE, tag |-> 0, far |-> 0]]
  /\ orb = [a \in Addr |-> NoEntry]
  /\ crb = <<>> /\ wb = <<>>
  /\ bypassReads = [a \in Addr |-> 0]
  /\ pendingNear = <<>> /\ pendingFar = <<>> /\ resp = <<>>
  /\ near = [rq |-> {}, wq |-> {}] /\ far = [rq |-> {}, wq |-> {}]
  /\ phase = "llc" /\ call = NoCall /\ frames = <<>>
  /\ llcWaiting = [a \in Addr |-> 0]
  /\ submitted = 0
  /\ unsaved = {}

Handler ==
  \/ DriveLocMemRead \/ DriveFarMemRead \/ DriveLocMemWrite
  \/ Promote \/ NothingToPromote
  \/ ReturnBypassed \/ ReturnTagReadHit \/ ReturnTagRead \/ ReturnFarRead
  \/ ReturnUntracked
  \/ ResumeReturn \/ ResumeFill \/ ResumePop \/ ResumeDone

Operate ==
  \/ ReleaseFar \/ FarReleased \/ DrainWB \/ ReleaseNear \/ NearReleased
  \/ \E a \in Addr : NearServeRead(a) \/ NearServeWrite(a)
  \/ \E a \in Addr : FarServeRead(a) \/ FarServeWrite(a)
  \/ NearWaits \/ FarWaits
  \/ DeliverResponse \/ ResponsesDelivered

Llc ==
  \/ \E p \in Requests : AddBypassed(p) \/ AddConflicting(p) \/ AddAdmitted(p)
  \/ \E p \in Requests : WarmupAccess(p)
  \/ CompleteWarmup \/ setBypassDcache \/ NextCycle

Next == Handler \/ Operate \/ Llc

Spec == Init /\ [][Next]_vars
=============================================================================
