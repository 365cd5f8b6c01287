--------------------------- MODULE DcmQueueProofs ---------------------------
(***************************************************************************)
(* Proofs about what DRAM_CACHE_MANAGER keeps in its buffers: they never   *)
(* overflow, no dirty line falls out of them, and the requests of an index *)
(* are served in the order they were accepted.                             *)
(***************************************************************************)
EXTENDS DcmProofs, FiniteSetTheorems, FunctionTheorems

-----------------------------------------------------------------------------
(* Capacities.                                                             *)

Fits(mc) == /\ IsFiniteSet(mc.rq) /\ Cardinality(mc.rq) <= DramRqSize
            /\ IsFiniteSet(mc.wq) /\ Cardinality(mc.wq) <= DramWqSize

(* There is room for the request that promoteFromCRB() admits.             *)
OrbFits ==
  /\ IsFiniteSet(Admitted) /\ Cardinality(Admitted) <= OrbMaxSize
  /\ call.fn = "promoteFromCRB" => Cardinality(Admitted) < OrbMaxSize

(* trySend() queues only where get_occupancy() is below get_size().        *)
LEMMA AfterFits ==
  ASSUME NEW mc \in MemQueues, Fits(mc), NEW p \in Packet, NEW o,
         o = "queued" => trySend(mc, p) = "queued"
  PROVE  Fits(After(o, mc, p))
<1>0. /\ IsFiniteSet(mc.rq) /\ IsFiniteSet(mc.wq)
      /\ Cardinality(mc.rq) \in Nat /\ Cardinality(mc.wq) \in Nat
      /\ Cardinality(mc.rq) <= DramRqSize /\ Cardinality(mc.wq) <= DramWqSize
      /\ DramRqSize \in Nat /\ DramWqSize \in Nat
  BY FS_CardinalityType, DcmAssumption DEF Fits
<1>1. CASE o # "queued"
  BY <1>1 DEF After
<1>2. CASE o = "queued" /\ p.isWrite
  <2> DEFINE w == mc.wq \cup {p.addr}
  <2>1. Cardinality(mc.wq) < DramWqSize
    BY <1>0, <1>2 DEF trySend
  <2>2. IsFiniteSet(w) /\ Cardinality(w) <= DramWqSize
    <3>1. IsFiniteSet(w) /\ Cardinality(w) = IF p.addr \in mc.wq THEN Cardinality(mc.wq)
                                                            ELSE Cardinality(mc.wq) + 1
      BY <1>0, FS_AddElement
    <3> HIDE DEF w
    <3>2. QED
      BY <1>0, <2>1, <3>1
  <2>3. After(o, mc, p).rq = mc.rq /\ After(o, mc, p).wq = w
    BY <1>2 DEF After, Enqueued, MemQueues
  <2>4. QED
    BY <1>0, <2>2, <2>3 DEF Fits
<1>3. CASE o = "queued" /\ ~p.isWrite
  <2> DEFINE r == mc.rq \cup {p.addr}
  <2>1. Cardinality(mc.rq) < DramRqSize
    BY <1>0, <1>3 DEF trySend
  <2>2. IsFiniteSet(r) /\ Cardinality(r) <= DramRqSize
    <3>1. IsFiniteSet(r) /\ Cardinality(r) = IF p.addr \in mc.rq THEN Cardinality(mc.rq)
                                                            ELSE Cardinality(mc.rq) + 1
      BY <1>0, FS_AddElement
    <3> HIDE DEF r
    <3>2. QED
      BY <1>0, <2>1, <3>1
  <2>3. After(o, mc, p).wq = mc.wq /\ After(o, mc, p).rq = r
    BY <1>3 DEF After, Enqueued, MemQueues
  <2>4. QED
    BY <1>0, <2>2, <2>3 DEF Fits
<1>4. QED
  BY <1>1, <1>2, <1>3

(* A served request makes room.                                            *)
LEMMA ServedFits ==
  ASSUME NEW mc \in MemQueues, Fits(mc), NEW a
  PROVE  /\ Fits([mc EXCEPT !.rq = @ \ {a}])
         /\ Fits([mc EXCEPT !.wq = @ \ {a}])
<1> DEFINE r == mc.rq \ {a}  w == mc.wq \ {a}
<1>0. /\ IsFiniteSet(mc.rq) /\ IsFiniteSet(mc.wq)
      /\ Cardinality(mc.rq) \in Nat /\ Cardinality(mc.wq) \in Nat
      /\ Cardinality(mc.rq) <= DramRqSize /\ Cardinality(mc.wq) <= DramWqSize
      /\ DramRqSize \in Nat /\ DramWqSize \in Nat
  BY FS_CardinalityType, DcmAssumption DEF Fits
<1>1. IsFiniteSet(r) /\ Cardinality(r) <= DramRqSize
  <2>1. IsFiniteSet(r) /\ Cardinality(r) = IF a \in mc.rq THEN Cardinality(mc.rq) - 1
                                                        ELSE Cardinality(mc.rq)
    BY <1>0, FS_RemoveElement
  <2> HIDE DEF r
  <2>2. QED
    BY <1>0, <2>1
<1>2. IsFiniteSet(w) /\ Cardinality(w) <= DramWqSize
  <2>1. IsFiniteSet(w) /\ Cardinality(w) = IF a \in mc.wq THEN Cardinality(mc.wq) - 1
                                                        ELSE Cardinality(mc.wq)
    BY <1>0, FS_RemoveElement
  <2> HIDE DEF w
  <2>2. QED
    BY <1>0, <2>1
<1>3. [mc EXCEPT !.rq = @ \ {a}].rq = r /\ [mc EXCEPT !.rq = @ \ {a}].wq = mc.wq
      /\ [mc EXCEPT !.wq = @ \ {a}].wq = w /\ [mc EXCEPT !.wq = @ \ {a}].rq = mc.rq
  BY DEF MemQueues
<1>4. QED
  BY <1>0, <1>1, <1>2, <1>3 DEF Fits

(* dispatchToNear() goes through trySend().                                *)
LEMMA DispatchToNearFits ==
  ASSUME TypeInv, Fits(near), NEW p \in Packet, dispatchToNear(p)
  PROVE  Fits(near')
<1> DEFINE o == NearOutcome(p)
<1>1. near' = After(o, near, p) /\ near \in MemQueues
  BY DEF dispatchToNear, TypeInv, TypeOK
<1>2. o = "queued" => trySend(near, p) = "queued"
  BY DEF NearOutcome
<1> HIDE DEF o
<1>3. QED
  BY <1>1, <1>2, AfterFits

(* So does dispatchToFarGuaranteed().                                      *)
LEMMA DispatchToFarFits ==
  ASSUME TypeInv, Fits(far), NEW p \in Packet, dispatchToFarGuaranteed(p)
  PROVE  Fits(far')
<1> DEFINE o == FarOutcome(p)
<1>1. far' = After(o, far, p) /\ far \in MemQueues
  BY DEF dispatchToFarGuaranteed, TypeInv, TypeOK
<1>2. o = "queued" => trySend(far, p) = "queued"
  BY DEF FarOutcome
<1> HIDE DEF o
<1>3. QED
  BY <1>1, <1>2, AfterFits

(* The front of a pending queue is a packet.                               *)
LEMMA FrontIsPacket ==
  ASSUME TypeInv
  PROVE  /\ pendingNear # <<>> => Head(pendingNear) \in Packet
         /\ pendingFar # <<>> => Head(pendingFar) \in HeldPkt
<1>1. pendingNear \in Seq(Packet) /\ pendingFar \in Seq(HeldPkt)
  BY DEF TypeInv, TypeOK
<1>2. QED
  BY <1>1, HeadTailProperties

(* nearMC is sent to from three handlers and one stage, and served by      *)
(* itself.                                                                 *)
LEMMA NearFits ==
  ASSUME TypeInv, Fits(near), [Next]_vars
  PROVE  Fits(near')
<1> USE DEF dcmVars, mcVars, llcVars, ctlVars, modeVars
<1>0. near \in MemQueues
  BY DEF TypeInv, TypeOK
<1>1. ASSUME near' = near
      PROVE  Fits(near')
  BY <1>1
<1>2. CASE DriveLocMemRead
  <2>1. call.addr \in Addr /\ dispatchToNear(OrbPacket(call.addr, FALSE))
    BY <1>2, CallAddrType DEF DriveLocMemRead, TypeInv
  <2>2. OrbPacket(call.addr, FALSE) \in Packet
    BY <2>1, OrbPacketType DEF TypeInv
  <2>3. QED
    BY <2>1, <2>2, DispatchToNearFits
<1>3. CASE DriveLocMemWrite
  <2>1. call.addr \in Addr /\ dispatchToNear(WritePacket(call.addr))
    BY <1>3, CallAddrType DEF DriveLocMemWrite, TypeInv
  <2>2. QED
    BY <2>1, WritePacketType, DispatchToNearFits
<1>4. CASE ResumeFill
  <2>1. Head(frames).addr \in Addr /\ dispatchToNear(WritePacket(Head(frames).addr))
    BY <1>4, ResumeType DEF ResumeFill, Resume, TypeInv
  <2>2. QED
    BY <2>1, WritePacketType, DispatchToNearFits
<1>5. CASE ReleaseNear
  <2> DEFINE p == Head(pendingNear)  o == trySend(near, p)
  <2>1. p \in Packet /\ near' = After(o, near, p)
    BY <1>5, FrontIsPacket DEF ReleaseNear
  <2> HIDE DEF p
  <2>2. QED
    BY <1>0, <2>1, AfterFits
<1>6. CASE ResumeDone
  <2>1. near' = near \/ near' = [near EXCEPT !.rq = @ \ {Head(frames).addr}]
    BY <1>6 DEF ResumeDone
  <2>2. QED
    BY <1>0, <1>1, <2>1, ServedFits
<1>7. ASSUME NEW a \in Addr, NearServeWrite(a)
      PROVE  Fits(near')
  <2>1. near' = [near EXCEPT !.wq = @ \ {a}]
    BY <1>7 DEF NearServeWrite
  <2>2. QED
    BY <1>0, <2>1, ServedFits
<1>8. CASE DriveFarMemRead \/ Promote \/ NothingToPromote \/ ReturnBypassed
           \/ ReturnTagReadHit \/ ReturnTagRead \/ ReturnFarRead \/ ReturnUntracked
           \/ ResumeReturn \/ ResumePop
  BY <1>1, <1>8 DEF DriveFarMemRead, Promote, NothingToPromote, ReturnBypassed,
     ReturnTagReadHit, ReturnTagRead, ReturnFarRead, ReturnUntracked, ResumeReturn, ResumePop
<1>9. CASE ReleaseFar \/ FarReleased \/ DrainWB \/ NearReleased \/ NearWaits \/ FarWaits
           \/ DeliverResponse \/ ResponsesDelivered
  BY <1>1, <1>9 DEF ReleaseFar, FarReleased, DrainWB, NearReleased, NearWaits, FarWaits,
     DeliverResponse, ResponsesDelivered
<1>10. ASSUME NEW a \in Addr, NearServeRead(a) \/ FarServeRead(a) \/ FarServeWrite(a)
       PROVE  Fits(near')
  BY <1>1, <1>10 DEF NearServeRead, FarServeRead, FarServeWrite
<1>11. CASE Llc
  BY <1>1, <1>11 DEF Llc, AddBypassed, AddConflicting, AddAdmitted, WarmupAccess,
     CompleteWarmup, setBypassDcache, NextCycle
<1>12. CASE UNCHANGED vars
  BY <1>1, <1>12 DEF vars
<1>13. QED
  BY <1>2, <1>3, <1>4, <1>5, <1>6, <1>7, <1>8, <1>9, <1>10, <1>11, <1>12
     DEF Next, Handler, Operate

(* So is farMC, from one handler, the LLC's bypass and two stages.         *)
LEMMA FarFits ==
  ASSUME TypeInv, Fits(far), [Next]_vars
  PROVE  Fits(far')
<1> USE DEF dcmVars, mcVars, llcVars, ctlVars, modeVars
<1>0. far \in MemQueues
  BY DEF TypeInv, TypeOK
<1>1. ASSUME far' = far
      PROVE  Fits(far')
  BY <1>1
<1>2. CASE DriveFarMemRead
  <2>1. call.addr \in Addr /\ dispatchToFarGuaranteed(OrbPacket(call.addr, FALSE))
    BY <1>2, CallAddrType DEF DriveFarMemRead, TypeInv
  <2>2. OrbPacket(call.addr, FALSE) \in Packet
    BY <2>1, OrbPacketType DEF TypeInv
  <2>3. QED
    BY <2>1, <2>2, DispatchToFarFits
<1>3. CASE DrainWB
  <2>1. CASE far' = far
    BY <1>1, <2>1
  <2>2. CASE far' # far
    <3>1. wb # <<>> /\ dispatchToFarGuaranteed(WritePacket(Head(wb)))
      BY <1>3, <2>2 DEF DrainWB
    <3>2. wb \in Seq(Addr)
      BY DEF TypeInv, TypeOK
    <3>3. Head(wb) \in Addr
      BY <3>1, <3>2, HeadTailProperties
    <3>4. QED
      BY <3>1, <3>3, WritePacketType, DispatchToFarFits
  <2>3. QED
    BY <2>1, <2>2
<1>4. ASSUME NEW p \in Requests, AddBypassed(p)
      PROVE  Fits(far')
  <2>1. p \in Packet /\ dispatchToFarGuaranteed(p)
    BY <1>4 DEF AddBypassed, Requests
  <2>2. QED
    BY <2>1, DispatchToFarFits
<1>5. CASE ReleaseFar
  <2> DEFINE h == Head(pendingFar)  o == trySend(far, h)
             p == [addr |-> h.addr, isWrite |-> h.isWrite, cb |-> h.cb]
  <2>1. h \in HeldPkt /\ far' = After(o, far, h)
    BY <1>5, FrontIsPacket DEF ReleaseFar, FarReady
  <2>2. p \in Packet /\ p.addr = h.addr /\ p.isWrite = h.isWrite
    BY <2>1 DEF HeldPkt, Packet
  <2> HIDE DEF p, h
  <2>3. trySend(far, p) = o /\ After(o, far, p) = After(o, far, h)
    BY <2>2 DEF trySend, After, Enqueued
  <2>4. QED
    BY <1>0, <2>1, <2>2, <2>3, AfterFits
<1>6. CASE ResumeDone
  <2>1. far' = far \/ far' = [far EXCEPT !.rq = @ \ {Head(frames).addr}]
    BY <1>6 DEF ResumeDone
  <2>2. QED
    BY <1>0, <1>1, <2>1, ServedFits
<1>7. ASSUME NEW a \in Addr, FarServeWrite(a)
      PROVE  Fits(far')
  <2>1. far' = [far EXCEPT !.wq = @ \ {a}]
    BY <1>7 DEF FarServeWrite
  <2>2. QED
    BY <1>0, <2>1, ServedFits
<1>8. CASE DriveLocMemRead \/ DriveLocMemWrite \/ Promote \/ NothingToPromote
           \/ ReturnBypassed \/ ReturnTagReadHit \/ ReturnTagRead \/ ReturnFarRead
           \/ ReturnUntracked \/ ResumeReturn \/ ResumeFill \/ ResumePop
  BY <1>1, <1>8 DEF DriveLocMemRead, DriveLocMemWrite, Promote, NothingToPromote,
     ReturnBypassed, ReturnTagReadHit, ReturnTagRead, ReturnFarRead, ReturnUntracked,
     ResumeReturn, ResumeFill, ResumePop
<1>9. CASE FarReleased \/ ReleaseNear \/ NearReleased \/ NearWaits \/ FarWaits
           \/ DeliverResponse \/ ResponsesDelivered
  BY <1>1, <1>9 DEF FarReleased, ReleaseNear, NearReleased, NearWaits, FarWaits,
     DeliverResponse, ResponsesDelivered
<1>10. ASSUME NEW a \in Addr, NearServeRead(a) \/ NearServeWrite(a) \/ FarServeRead(a)
       PROVE  Fits(far')
  BY <1>1, <1>10 DEF NearServeRead, NearServeWrite, FarServeRead
<1>11. ASSUME NEW p \in Requests, AddConflicting(p) \/ AddAdmitted(p) \/ WarmupAccess(p)
       PROVE  Fits(far')
  BY <1>1, <1>11 DEF AddConflicting, AddAdmitted, WarmupAccess
<1>12. CASE CompleteWarmup \/ setBypassDcache \/ NextCycle \/ UNCHANGED vars
  BY <1>1, <1>12 DEF CompleteWarmup, setBypassDcache, NextCycle, vars
<1>13. QED
  BY <1>2, <1>3, <1>4, <1>5, <1>6, <1>7, <1>8, <1>9, <1>10, <1>11, <1>12
     DEF Next, Handler, Operate, Llc

(* The ORB: a step that neither admits nor ends a request.                 *)
LEMMA OrbFitsKept ==
  ASSUME OrbFits,
         \A a \in Addr : InOrb(a)' <=> InOrb(a),
         call' # call => call'.fn # "promoteFromCRB"
  PROVE  OrbFits'
<1>1. Admitted' = Admitted
  BY DEF Admitted
<1>2. QED
  BY <1>1 DEF OrbFits

(* An admission where there is room.                                       *)
LEMMA OrbFitsAdmit ==
  ASSUME TypeInv, OrbFits, NEW p \in Packet, admitRequest(p),
         Cardinality(Admitted) < OrbMaxSize
  PROVE  OrbFits'
<1> DEFINE A == Admitted  B == Admitted'
<1>1. p.addr \in Addr
  BY DEF Packet
<1>2. chooseInitialState(p.addr, p.isWrite) # "none"
  BY InitialStateType DEF ToDrive
<1>3. B = A \cup {p.addr}
  <2>1. orb \in [Addr -> OrbEntry]
    BY DEF TypeInv, TypeOK
  <2>2. /\ orb'[p.addr].state = chooseInitialState(p.addr, p.isWrite)
        /\ \A a \in Addr \ {p.addr} : orb'[a] = orb[a]
    BY <1>1, <2>1 DEF admitRequest
  <2>3. QED
    BY <1>1, <1>2, <2>2 DEF Admitted, InOrb
<1>4. IsFiniteSet(A) /\ Cardinality(A) \in Nat /\ Cardinality(A) < OrbMaxSize
      /\ OrbMaxSize \in Nat
  BY FS_CardinalityType, DcmAssumption DEF OrbFits
<1>5. call'.fn # "promoteFromCRB"
  BY DEF admitRequest, Call
<1> HIDE DEF A, B
<1>6. IsFiniteSet(B) /\ Cardinality(B) = IF p.addr \in A THEN Cardinality(A)
                                                        ELSE Cardinality(A) + 1
  BY <1>3, <1>4, FS_AddElement
<1>7. IsFiniteSet(B) /\ Cardinality(B) <= OrbMaxSize
  BY <1>4, <1>6
<1>8. QED
  BY <1>5, <1>7 DEF OrbFits, B

(* A completion makes the room promoteFromCRB() takes for granted.         *)
LEMMA OrbFitsComplete ==
  ASSUME TypeInv, OrbFits, NEW a \in Addr, NEW d, InOrb(a), completeRequest(a, d)
  PROVE  OrbFits'
<1> DEFINE A == Admitted  B == Admitted'
<1>1. B = A \ {a} /\ a \in A
  <2>1. orb \in [Addr -> OrbEntry] /\ orb' = [orb EXCEPT ![a] = NoEntry]
    BY DEF TypeInv, TypeOK, completeRequest
  <2>2. orb'[a].state = "none" /\ \A b \in Addr \ {a} : orb'[b] = orb[b]
    BY <2>1 DEF NoEntry
  <2>3. QED
    BY <2>2 DEF Admitted, InOrb
<1>2. IsFiniteSet(A) /\ Cardinality(A) \in Nat /\ Cardinality(A) <= OrbMaxSize
      /\ OrbMaxSize \in Nat
  BY FS_CardinalityType, DcmAssumption DEF OrbFits
<1> HIDE DEF A, B
<1>3. IsFiniteSet(B) /\ Cardinality(B) = Cardinality(A) - 1
  BY <1>1, <1>2, FS_RemoveElement
<1>4. IsFiniteSet(B) /\ Cardinality(B) < OrbMaxSize /\ Cardinality(B) <= OrbMaxSize
  BY <1>2, <1>3
<1>5. QED
  BY <1>4 DEF OrbFits, B

(* promoteFromCRB() admits without looking at the ORB's size: completing   *)
(* has just made room.                                                     *)
LEMMA HandlersKeepOrbFits ==
  ASSUME TypeInv, OrbFits, Handler
  PROVE  OrbFits'
<1> USE DEF dcmVars, mcVars, llcVars, ctlVars, modeVars
<1>1. CASE DriveLocMemRead \/ DriveFarMemRead
  <2>1. call.addr \in Addr
    BY <1>1, CallAddrType DEF DriveLocMemRead, DriveFarMemRead, TypeInv
  <2>2. PICK st \in Waiting : orb' = [orb EXCEPT ![call.addr].state = st]
    BY <1>1 DEF DriveLocMemRead, DriveFarMemRead, Waiting
  <2>3. InOrb(call.addr) /\ orb \in [Addr -> OrbEntry]
    BY <1>1 DEF DriveLocMemRead, DriveFarMemRead, InOrb, TypeInv, TypeOK
  <2>4. \A a \in Addr : InOrb(a)' <=> InOrb(a)
    BY <2>1, <2>2, <2>3 DEF InOrb, OrbEntry, Waiting
  <2>5. call'.fn # "promoteFromCRB"
    BY <1>1, ContinueCall DEF DriveLocMemRead, DriveFarMemRead
  <2>6. QED
    BY <2>4, <2>5, OrbFitsKept
<1>2. CASE DriveLocMemWrite
  <2>1. call.addr \in Addr /\ InOrb(call.addr) /\ completeRequest(call.addr, 0)
    BY <1>2, CallAddrType DEF DriveLocMemWrite, InOrb, TypeInv
  <2>2. QED
    BY <2>1, OrbFitsComplete
<1>3. CASE Promote
  <2>1. PICK k \in DOMAIN crb : admitRequest(crb[k])
    BY <1>3 DEF Promote
  <2>2. crb[k] \in Packet
    BY LenProperties, ElementOfSeq DEF TypeInv, TypeOK
  <2>3. Cardinality(Admitted) < OrbMaxSize
    BY <1>3 DEF Promote, OrbFits
  <2>4. QED
    BY <2>1, <2>2, <2>3, OrbFitsAdmit
<1>4. CASE NothingToPromote \/ ReturnBypassed \/ ReturnUntracked
           \/ ResumeReturn \/ ResumeFill \/ ResumePop \/ ResumeDone
  <2>1. UNCHANGED orb /\ (call' # call => call'.fn # "promoteFromCRB")
    BY <1>4 DEF NothingToPromote, ReturnBypassed, ReturnUntracked, ResumeReturn,
       ResumeFill, ResumePop, ResumeDone, Call, NoCall
  <2>2. QED
    BY <2>1, OrbFitsKept DEF InOrb
<1>5. CASE ReturnTagReadHit
  <2>1. /\ call.addr \in Addr /\ InOrb(call.addr)
        /\ completeRequest(call.addr, FrontendLatency + BackendLatency)
    BY <1>5, ReturnedType DEF ReturnTagReadHit, InOrb, TypeInv
  <2>2. QED
    BY <2>1, OrbFitsComplete
<1>6. CASE ReturnFarRead
  <2>1. /\ call.addr \in Addr /\ InOrb(call.addr)
        /\ completeRequest(call.addr, FrontendLatency + BackendLatency + BackendLatency)
    BY <1>6, ReturnedType DEF ReturnFarRead, InOrb, TypeInv
  <2>2. QED
    BY <2>1, OrbFitsComplete
<1>7. CASE ReturnTagRead
  <2>1. call.addr \in Addr
    BY <1>7, ReturnedType DEF ReturnTagRead, TypeInv
  <2>2. \A a \in Addr : InOrb(a)' <=> InOrb(a)
    BY <1>7, <2>1 DEF ReturnTagRead, InOrb, TypeInv, TypeOK
  <2>3. call'.fn # "promoteFromCRB"
    BY <1>7 DEF ReturnTagRead, Call
  <2>4. QED
    BY <2>2, <2>3, OrbFitsKept
<1>8. QED
  BY <1>1, <1>2, <1>3, <1>4, <1>5, <1>6, <1>7 DEF Handler

(* The ORB: every admission but a promotion looks at the occupancy.        *)
LEMMA NextKeepsOrbFits ==
  ASSUME TypeInv, OrbFits, [Next]_vars
  PROVE  OrbFits'
<1> USE DEF dcmVars, ctlVars
<1>1. ASSUME UNCHANGED orb, call' # call => call'.fn # "promoteFromCRB"
      PROVE  OrbFits'
  BY <1>1, OrbFitsKept DEF InOrb
<1>2. CASE Handler
  BY <1>2, HandlersKeepOrbFits
<1>3. CASE Operate
  <2>1. UNCHANGED orb
    BY <1>3 DEF Operate, ReleaseFar, FarReleased, DrainWB, ReleaseNear, NearReleased,
       NearServeRead, NearServeWrite, FarServeRead, FarServeWrite, NearWaits,
       FarWaits, DeliverResponse, ResponsesDelivered
  <2>2. call' # call => call'.fn # "promoteFromCRB"
    BY <1>3 DEF Operate, ReleaseFar, FarReleased, DrainWB, ReleaseNear, NearReleased,
       NearServeRead, NearServeWrite, FarServeRead, FarServeWrite, NearWaits,
       FarWaits, DeliverResponse, ResponsesDelivered, Continue, Call, NoCall
  <2>3. QED
    BY <1>1, <2>1, <2>2
<1>4. ASSUME NEW p \in Requests, AddAdmitted(p), admitRequest(p), ~Rejected
      PROVE  OrbFits'
  <2>1. Cardinality(Admitted) < OrbMaxSize
    <3>1. Cardinality(Admitted) \in Nat /\ OrbMaxSize \in Nat
      BY FS_CardinalityType, DcmAssumption DEF OrbFits
    <3>2. ~(Cardinality(Admitted) >= OrbMaxSize)
      BY <1>4 DEF Rejected
    <3>3. QED
      BY <3>1, <3>2
  <2>2. QED
    BY <1>4, <2>1, OrbFitsAdmit DEF Requests
<1>5. ASSUME NEW p \in Requests, AddBypassed(p) \/ AddConflicting(p) \/ WarmupAccess(p)
      PROVE  OrbFits'
  BY <1>1, <1>5 DEF AddBypassed, AddConflicting, WarmupAccess, Continue, Call, NoCall
<1>6. ASSUME NEW p \in Requests, AddAdmitted(p), UNCHANGED <<orb, call>>
      PROVE  OrbFits'
  BY <1>1, <1>6
<1>7. CASE CompleteWarmup \/ setBypassDcache \/ NextCycle \/ UNCHANGED vars
  BY <1>1, <1>7 DEF CompleteWarmup, setBypassDcache, NextCycle, vars
<1>8. QED
  BY <1>2, <1>3, <1>4, <1>5, <1>6, <1>7 DEF Next, Llc, AddAdmitted

(* The CRB: add_rq() and add_wq() turn a request away when it is full.     *)
LEMMA CrbFits ==
  ASSUME TypeInv, Len(crb) <= CrbMaxSize, [Next]_vars
  PROVE  Len(crb') <= CrbMaxSize
<1> USE DEF dcmVars, mcVars, llcVars, ctlVars, modeVars
<1>0. crb \in Seq(Packet) /\ Len(crb) \in Nat /\ CrbMaxSize \in Nat
  BY LenProperties, DcmAssumption DEF TypeInv, TypeOK
<1>1. CASE crb' = crb
  BY <1>1
<1>2. CASE Promote
  <2>1. PICK k \in DOMAIN crb : crb' = RemoveAt(crb, k)
    BY <1>2 DEF Promote
  <2>2. Len(RemoveAt(crb, k)) = Len(crb) - 1
    BY <1>0, RemoveAtProperties
  <2>3. QED
    BY <1>0, <2>1, <2>2
<1>3. ASSUME NEW p \in Requests, AddConflicting(p)
      PROVE  Len(crb') <= CrbMaxSize
  <2>1. CASE Len(crb) >= CrbMaxSize
    BY <1>3, <2>1 DEF AddConflicting
  <2>2. CASE ~(Len(crb) >= CrbMaxSize)
    <3>1. crb' = Append(crb, p) /\ p \in Packet
      BY <1>3, <2>2 DEF AddConflicting, Requests
    <3>2. Len(crb') = Len(crb) + 1
      BY <1>0, <3>1, AppendProperties
    <3>3. QED
      BY <1>0, <2>2, <3>2
  <2>3. QED
    BY <2>1, <2>2
<1>4. CASE Handler /\ ~Promote
  <2>1. crb' = crb
    BY <1>4 DEF Handler, DriveLocMemRead, DriveFarMemRead, DriveLocMemWrite,
       NothingToPromote, ReturnBypassed, ReturnTagReadHit, ReturnTagRead, ReturnFarRead,
       ReturnUntracked, ResumeReturn, ResumeFill, ResumePop, ResumeDone
  <2>2. QED
    BY <1>1, <2>1
<1>5. CASE Operate
  <2>1. crb' = crb
    BY <1>5 DEF Operate, ReleaseFar, FarReleased, DrainWB, ReleaseNear, NearReleased,
       NearServeRead, NearServeWrite, FarServeRead, FarServeWrite, NearWaits,
       FarWaits, DeliverResponse, ResponsesDelivered
  <2>2. QED
    BY <1>1, <2>1
<1>6. ASSUME NEW p \in Requests, AddBypassed(p) \/ AddAdmitted(p) \/ WarmupAccess(p)
      PROVE  Len(crb') <= CrbMaxSize
  BY <1>1, <1>6 DEF AddBypassed, AddAdmitted, WarmupAccess
<1>7. CASE CompleteWarmup \/ setBypassDcache \/ NextCycle \/ UNCHANGED vars
  BY <1>1, <1>7 DEF CompleteWarmup, setBypassDcache, NextCycle, vars
<1>8. QED
  BY <1>2, <1>3, <1>4, <1>5, <1>6, <1>7 DEF Next, Llc

CapacityInv == OrbFits /\ Len(crb) <= CrbMaxSize /\ Fits(near) /\ Fits(far)

(* All buffers are empty at the start.                                     *)
LEMMA InitCapacity == Init => CapacityInv
<1> SUFFICES ASSUME Init PROVE CapacityInv
  OBVIOUS
<1>1. Admitted = {} /\ call.fn # "promoteFromCRB"
  BY DEF Init, Admitted, InOrb, NoEntry, NoCall, Call
<1>2. OrbFits
  BY <1>1, FS_EmptySet, DcmAssumption DEF OrbFits
<1>3. Fits(near) /\ Fits(far)
  BY FS_EmptySet, DcmAssumption DEF Init, Fits
<1>4. Len(crb) <= CrbMaxSize
  BY DcmAssumption DEF Init
<1>5. QED
  BY <1>2, <1>3, <1>4 DEF CapacityInv

(* Every step keeps within all sizes.                                      *)
LEMMA NextKeepsCapacity == TypeInv /\ CapacityInv /\ [Next]_vars => CapacityInv'
BY NextKeepsOrbFits, CrbFits, NearFits, FarFits DEF CapacityInv

(* The inductive form of WithinCapacity, with room for the promotion due.  *)
THEOREM CapacityInvariant == Spec => []CapacityInv
BY TypeInvariant, InitCapacity, NextKeepsCapacity, PTL DEF Spec

(* No buffer ever holds more than its size, although promoteFromCRB() and  *)
(* MEMORY_CONTROLLER::add_rq() do not look.                                *)
THEOREM NoOverflow == Spec => []WithinCapacity
<1>1. CapacityInv => WithinCapacity
  BY DEF CapacityInv, OrbFits, Fits, WithinCapacity
<1>2. QED
  BY <1>1, CapacityInvariant, PTL

-----------------------------------------------------------------------------
(* Dirty lines.                                                            *)

(* An address is its tag and its index.                                    *)
LEMMA LineOfTag ==
  ASSUME NEW a \in Addr, NEW b \in Addr,
         returnIndexDC(a) = returnIndexDC(b), returnTagDC(a) = returnTagDC(b)
  PROVE  a = b
<1> DEFINE n == NumLines
<1>1. n \in Nat \ {0} /\ a \in Nat /\ b \in Nat
  BY DcmAssumption
<1> HIDE DEF n
<1>2. a = n * (a \div n) + (a % n) /\ b = n * (b \div n) + (b % n)
  BY <1>1, SMT
<1>3. QED
  BY <1>2 DEF returnIndexDC, returnTagDC, n

(* A dirty entry of the tag store is valid, and its far address has the    *)
(* entry's index and tag: a hit finds its own line.                        *)
TagsKnown ==
  \A i \in Indices : tags[i].dirty =>
    /\ tags[i].valid /\ tags[i].far \in Addr
    /\ returnIndexDC(tags[i].far) = i /\ returnTagDC(tags[i].far) = tags[i].tag

(* Only a forwarded read is popped after its completion: the write at the  *)
(* front of pendingFarDispatches is never taken for it.                    *)
PopsReads ==
  \A k \in DOMAIN frames : frames[k].op = "popFar" => ~Head(pendingFar).isWrite

(* The places of a dirty line.                                             *)
InTags(a)   == \E i \in Indices : tags[i].valid /\ tags[i].dirty /\ tags[i].far = a
AsVictim(a) == \E b \in Addr : /\ orb[b].state \in {"LOC_MEM_READ", "WAITING_LOC_MEM_READ_RESP"}
                               /\ orb[b].dirtyLineAddr = a
InWb(a)     == \E k \in DOMAIN wb : wb[k] = a
OnLink(a)   == \E k \in DOMAIN pendingFar : pendingFar[k].addr = a /\ pendingFar[k].isWrite
ToFar(a)    == OnLink(a) \/ a \in far.wq
Stored(a)   == InTags(a) \/ AsVictim(a) \/ InWb(a) \/ ToFar(a)

(* What a sequence keeps when something is appended or its head is taken.  *)
LEMMA AppendKeeps ==
  ASSUME NEW S, NEW s \in Seq(S), NEW e \in S
  PROVE  /\ \A k \in DOMAIN s : k \in DOMAIN Append(s, e) /\ Append(s, e)[k] = s[k]
         /\ \E k \in DOMAIN Append(s, e) : Append(s, e)[k] = e
         /\ s # <<>> => Head(Append(s, e)) = Head(s)
<1>1. /\ Append(s, e) \in Seq(S) /\ Len(Append(s, e)) = Len(s) + 1
      /\ \A i \in 1 .. Len(s) : Append(s, e)[i] = s[i]
      /\ Append(s, e)[Len(s) + 1] = e
  BY AppendProperties
<1>2. Len(s) \in Nat /\ DOMAIN s = 1 .. Len(s)
      /\ DOMAIN Append(s, e) = 1 .. Len(s) + 1
  BY <1>1, LenProperties
<1>3. \A k \in DOMAIN s : k \in DOMAIN Append(s, e) /\ Append(s, e)[k] = s[k]
  BY <1>1, <1>2
<1>4. Len(s) + 1 \in DOMAIN Append(s, e)
  BY <1>2
<1>5. s # <<>> => Head(Append(s, e)) = Head(s)
  <2>1. SUFFICES ASSUME s # <<>> PROVE Head(Append(s, e)) = Head(s)
    OBVIOUS
  <2>2. 1 \in DOMAIN s
    BY <2>1, <1>2, EmptySeq
  <2> DEFINE t == Append(s, e)
  <2>3. t[1] = s[1]
    BY <2>2, <1>3
  <2>4. Head(t) = t[1] /\ Head(s) = s[1]
    OBVIOUS
  <2>5. QED
    BY <2>3, <2>4
<1>6. QED
  BY <1>1, <1>3, <1>4, <1>5

(* All elements but the head are still there.                              *)
LEMMA TailKeeps ==
  ASSUME NEW S, NEW s \in Seq(S), s # <<>>, NEW k \in DOMAIN s
  PROVE  s[k] = Head(s) \/ \E j \in DOMAIN Tail(s) : Tail(s)[j] = s[k]
<1>1. /\ Tail(s) \in Seq(S) /\ Len(Tail(s)) = Len(s) - 1 /\ Head(s) = s[1]
      /\ \A i \in 1 .. Len(Tail(s)) : Tail(s)[i] = s[i + 1]
  BY HeadTailProperties
<1>2. /\ Len(s) \in Nat /\ DOMAIN s = 1 .. Len(s)
      /\ DOMAIN Tail(s) = 1 .. Len(Tail(s))
  BY <1>1, LenProperties
<1>3. CASE k = 1
  BY <1>1, <1>3
<1>4. CASE k # 1
  <2>1. k - 1 \in DOMAIN Tail(s) /\ Tail(s)[k - 1] = s[k]
    BY <1>1, <1>2, <1>4
  <2>2. QED
    BY <2>1
<1>5. QED
  BY <1>3, <1>4

(* classifyAndInstall(): the line it replaces, if dirty, becomes the       *)
(* victim of the request that is admitted, which must first read its tag.  *)
LEMMA AdmitKeepsLines ==
  ASSUME TypeInv, TagsKnown, NEW p \in Packet, admitRequest(p), ~InOrb(p.addr)
  PROVE  /\ TagsKnown'
         /\ \A a \in Addr : /\ InTags(a) => InTags(a)' \/ AsVictim(a)'
                            /\ AsVictim(a) => AsVictim(a)'
         /\ p.isWrite => InTags(p.addr)'
<1> DEFINE x == p.addr
           i == returnIndexDC(x)
           st == chooseInitialState(x, p.isWrite)
           victim == IF DirtyVictim(x) THEN tags[i].far ELSE 0
<1>1. x \in Addr /\ p.isWrite \in BOOLEAN /\ i \in Indices
  BY IndexType DEF Packet
<1>2. tags \in [Indices -> TagEntry] /\ orb \in [Addr -> OrbEntry]
  BY DEF TypeInv, TypeOK
<1>3. tags[i] \in TagEntry
  BY <1>1, <1>2
<1>4. /\ \A j \in Indices : j # i => tags'[j] = tags[j]
      /\ tags'[i].valid /\ (tags'[i].dirty <=> p.isWrite \/ (isHit(x) /\ tags[i].dirty))
      /\ tags'[i].tag = returnTagDC(x) /\ tags'[i].far = x
  <2> DEFINE line == [valid |-> TRUE, dirty |-> p.isWrite \/ (isHit(x) /\ tags[i].dirty),
                      tag |-> returnTagDC(x), far |-> x]
  <2>1. tags' = [tags EXCEPT ![i] = line]
    BY <1>1, <1>2 DEF admitRequest, Installed
  <2>2. /\ line.valid /\ (line.dirty <=> p.isWrite \/ (isHit(x) /\ tags[i].dirty))
        /\ line.tag = returnTagDC(x) /\ line.far = x
    OBVIOUS
  <2> HIDE DEF line
  <2>3. QED
    BY <1>1, <1>2, <2>1, <2>2
<1>5. /\ \A b \in Addr : b # x => orb'[b] = orb[b]
      /\ orb'[x].state = st /\ orb'[x].dirtyLineAddr = victim
  BY <1>1, <1>2 DEF admitRequest
<1>6. isHit(x) <=> tags[i].valid /\ tags[i].tag = returnTagDC(x)
  BY DEF isHit
<1>7. TagsKnown'
  BY <1>1, <1>4 DEF TagsKnown
<1>8. ASSUME NEW a \in Addr, AsVictim(a)
      PROVE  AsVictim(a)'
  BY <1>5, <1>8 DEF AsVictim, InOrb
<1>9. ASSUME NEW a \in Addr, InTags(a)
      PROVE  InTags(a)' \/ AsVictim(a)'
  <2>1. PICK j \in Indices : tags[j].valid /\ tags[j].dirty /\ tags[j].far = a
    BY <1>9 DEF InTags
  <2>2. CASE j # i
    BY <1>4, <2>1, <2>2 DEF InTags
  <2>3. CASE j = i /\ isHit(x)
    <3>1. a = x
      BY <1>1, <1>6, <2>1, <2>3, LineOfTag DEF TagsKnown
    <3>2. QED
      BY <1>1, <1>4, <2>1, <2>3, <3>1 DEF InTags
  <2>4. CASE j = i /\ ~isHit(x)
    <3>1. DirtyVictim(x)
      BY <2>1, <2>4 DEF DirtyVictim
    <3>2. victim = a
      BY <2>1, <2>4, <3>1
    <3>3. st = "LOC_MEM_READ"
      BY <2>4, <3>1 DEF chooseInitialState
    <3>4. QED
      BY <1>1, <1>5, <3>2, <3>3 DEF AsVictim
  <2>5. QED
    BY <2>2, <2>3, <2>4
<1>10. p.isWrite => InTags(x)'
  BY <1>1, <1>4 DEF InTags
<1>11. QED
  BY <1>7, <1>8, <1>9, <1>10

(* The tag store: lines leave it for an ORB entry only.                    *)
LEMMA TagsStep ==
  ASSUME TypeInv, IndexInv, TagsKnown, [Next]_vars, ~\E p \in Requests : WarmupAccess(p)
  PROVE  /\ TagsKnown'
         /\ \A a \in Addr : InTags(a) => InTags(a)' \/ AsVictim(a)'
<1> USE DEF dcmVars, mcVars, llcVars, ctlVars, modeVars
<1>1. ASSUME tags' = tags
      PROVE  TagsKnown' /\ \A a \in Addr : InTags(a) => InTags(a)'
  BY <1>1 DEF TagsKnown, InTags
<1>2. CASE Promote
  <2>1. PICK k \in DOMAIN crb : IsOldest(k, SameIndex(call.addr)) /\ admitRequest(crb[k])
    BY <1>2 DEF Promote
  <2>2. crb[k] \in Packet
    BY LenProperties, ElementOfSeq DEF TypeInv, TypeOK
  <2>3. ~Busy(returnIndexDC(crb[k].addr))
    BY <1>2, <2>1 DEF Promote, IndexInv, FreedIndex, IsOldest, SameIndex
  <2>4. ~InOrb(crb[k].addr)
    BY <2>2, <2>3 DEF Busy, Packet
  <2>5. QED
    BY <2>1, <2>2, <2>4, AdmitKeepsLines
<1>3. ASSUME NEW p \in Requests, AddAdmitted(p)
      PROVE  TagsKnown' /\ \A a \in Addr : InTags(a) => InTags(a)' \/ AsVictim(a)'
  <2>1. p \in Packet /\ ~InOrb(p.addr)
    BY <1>3 DEF AddAdmitted, Requests, Busy, Packet
  <2>2. CASE admitRequest(p)
    BY <2>1, <2>2, AdmitKeepsLines
  <2>3. CASE tags' = tags
    BY <1>1, <2>3
  <2>4. QED
    BY <1>3, <2>2, <2>3 DEF AddAdmitted
<1>4. CASE Handler /\ ~Promote
  <2>1. tags' = tags
    BY <1>4 DEF Handler, DriveLocMemRead, DriveFarMemRead, DriveLocMemWrite,
       NothingToPromote, ReturnBypassed, ReturnTagReadHit, ReturnTagRead, ReturnFarRead,
       ReturnUntracked, ResumeReturn, ResumeFill, ResumePop, ResumeDone
  <2>2. QED
    BY <1>1, <2>1
<1>5. CASE Operate
  <2>1. tags' = tags
    BY <1>5 DEF Operate, ReleaseFar, FarReleased, DrainWB, ReleaseNear, NearReleased,
       NearServeRead, NearServeWrite, FarServeRead, FarServeWrite, NearWaits,
       FarWaits, DeliverResponse, ResponsesDelivered
  <2>2. QED
    BY <1>1, <2>1
<1>6. ASSUME NEW p \in Requests, AddBypassed(p) \/ AddConflicting(p)
      PROVE  tags' = tags
  BY <1>6 DEF AddBypassed, AddConflicting
<1>7. CASE CompleteWarmup \/ setBypassDcache \/ NextCycle \/ UNCHANGED vars
  <2>1. tags' = tags
    BY <1>7 DEF CompleteWarmup, setBypassDcache, NextCycle, vars
  <2>2. QED
    BY <1>1, <2>1
<1>8. QED
  BY <1>1, <1>2, <1>3, <1>4, <1>5, <1>6, <1>7 DEF Next, Llc

(* The ORB: a victim leaves its entry for WB only.                         *)
LEMMA VictimStep ==
  ASSUME TypeInv, IndexInv, TagsKnown, [Next]_vars
  PROVE  \A a \in Addr : AsVictim(a) => AsVictim(a)' \/ InWb(a)'
<1> USE DEF dcmVars, mcVars, llcVars, ctlVars, modeVars
<1>0. orb \in [Addr -> OrbEntry]
  BY DEF TypeInv, TypeOK
<1>1. ASSUME orb' = orb
      PROVE  \A a \in Addr : AsVictim(a) => AsVictim(a)'
  BY <1>1 DEF AsVictim
<1>2. CASE Promote
  <2>1. PICK k \in DOMAIN crb : IsOldest(k, SameIndex(call.addr)) /\ admitRequest(crb[k])
    BY <1>2 DEF Promote
  <2>2. crb[k] \in Packet
    BY LenProperties, ElementOfSeq DEF TypeInv, TypeOK
  <2>3. ~Busy(returnIndexDC(crb[k].addr))
    BY <1>2, <2>1 DEF Promote, IndexInv, FreedIndex, IsOldest, SameIndex
  <2>4. ~InOrb(crb[k].addr)
    BY <2>2, <2>3 DEF Busy, Packet
  <2>5. QED
    BY <2>1, <2>2, <2>4, AdmitKeepsLines
<1>3. ASSUME NEW p \in Requests, AddAdmitted(p)
      PROVE  \A a \in Addr : AsVictim(a) => AsVictim(a)'
  <2>1. p \in Packet /\ ~InOrb(p.addr)
    BY <1>3 DEF AddAdmitted, Requests, Busy, Packet
  <2>2. CASE admitRequest(p)
    BY <2>1, <2>2, AdmitKeepsLines
  <2>3. CASE orb' = orb
    BY <1>1, <2>3
  <2>4. QED
    BY <1>3, <2>2, <2>3 DEF AddAdmitted
<1>4. CASE DriveLocMemRead
  <2>1. call.addr \in Addr
    BY <1>4, CallAddrType DEF DriveLocMemRead, TypeInv
  <2>2. /\ orb'[call.addr].state = "WAITING_LOC_MEM_READ_RESP"
        /\ orb'[call.addr].dirtyLineAddr = orb[call.addr].dirtyLineAddr
        /\ \A b \in Addr : b # call.addr => orb'[b] = orb[b]
    BY <1>0, <1>4, <2>1 DEF DriveLocMemRead, OrbEntry
  <2>3. QED
    BY <2>1, <2>2 DEF AsVictim
<1>5. CASE DriveFarMemRead
  <2>1. \A b \in Addr : b # call.addr => orb'[b] = orb[b]
    BY <1>0, <1>5 DEF DriveFarMemRead
  <2>2. QED
    BY <1>5, <2>1 DEF AsVictim, DriveFarMemRead
<1>6. CASE DriveLocMemWrite
  <2>1. \A b \in Addr : b # call.addr => orb'[b] = orb[b]
    BY <1>0, <1>6 DEF DriveLocMemWrite, completeRequest
  <2>2. QED
    BY <1>6, <2>1 DEF AsVictim, DriveLocMemWrite
<1>7. CASE ReturnFarRead
  <2>1. \A b \in Addr : b # call.addr => orb'[b] = orb[b]
    BY <1>0, <1>7 DEF ReturnFarRead, completeRequest
  <2>2. QED
    BY <1>7, <2>1 DEF AsVictim, ReturnFarRead
<1>8. CASE ReturnTagReadHit \/ ReturnTagRead
  <2>1. call.addr \in Addr
    BY <1>8, ReturnedType DEF ReturnTagReadHit, ReturnTagRead, TypeInv
  <2>2. /\ \A b \in Addr : b # call.addr => orb'[b] = orb[b]
        /\ pushDirtyWriteBack(call.addr)
    BY <1>0, <1>8 DEF ReturnTagReadHit, ReturnTagRead, completeRequest
  <2>3. ASSUME NEW a \in Addr, orb[call.addr].dirtyLineAddr = a
        PROVE  InWb(a)'
    <3>1. a # 0 /\ wb \in Seq(Addr)
      BY DcmAssumption DEF TypeInv, TypeOK
    <3>2. wb' = Append(wb, a)
      BY <2>2, <2>3, <3>1 DEF pushDirtyWriteBack
    <3>3. \E k \in DOMAIN Append(wb, a) : Append(wb, a)[k] = a
      BY <3>1, AppendKeeps
    <3>4. QED
      BY <3>2, <3>3 DEF InWb
  <2>4. QED
    BY <2>2, <2>3 DEF AsVictim
<1>9. CASE NothingToPromote \/ ReturnBypassed \/ ReturnUntracked \/ ResumeReturn
           \/ ResumeFill \/ ResumePop \/ ResumeDone
  <2>1. orb' = orb
    BY <1>9 DEF NothingToPromote, ReturnBypassed, ReturnUntracked, ResumeReturn,
       ResumeFill, ResumePop, ResumeDone
  <2>2. QED
    BY <1>1, <2>1
<1>10. CASE Operate
  <2>1. orb' = orb
    BY <1>10 DEF Operate, ReleaseFar, FarReleased, DrainWB, ReleaseNear, NearReleased,
       NearServeRead, NearServeWrite, FarServeRead, FarServeWrite, NearWaits,
       FarWaits, DeliverResponse, ResponsesDelivered
  <2>2. QED
    BY <1>1, <2>1
<1>11. ASSUME NEW p \in Requests, AddBypassed(p) \/ AddConflicting(p) \/ WarmupAccess(p)
       PROVE  orb' = orb
  BY <1>11 DEF AddBypassed, AddConflicting, WarmupAccess
<1>12. CASE CompleteWarmup \/ setBypassDcache \/ NextCycle \/ UNCHANGED vars
  <2>1. orb' = orb
    BY <1>12 DEF CompleteWarmup, setBypassDcache, NextCycle, vars
  <2>2. QED
    BY <1>1, <2>1
<1>13. QED
  BY <1>1, <1>2, <1>3, <1>4, <1>5, <1>6, <1>7, <1>8, <1>9, <1>10, <1>11, <1>12
     DEF Next, Handler, Llc

(* ResumePop runs when the frame of its own caller is the only one left.   *)
LEMMA OnlyFramePops ==
  ASSUME TypeInv, ResumePop
  PROVE  DOMAIN Tail(frames) = {} /\ frames[1] = Head(frames) /\ 1 \in DOMAIN frames
<1>1. /\ 1 \in DOMAIN frames /\ frames[1].op \in {"popNear", "popFar"}
      /\ frames # <<>> /\ frames[1] = Head(frames)
  BY ResumeType DEF ResumePop, Resume, TypeInv
<1>2. frames \in Seq(FrameType) /\ Len(frames) = 1
  BY <1>1 DEF TypeInv, TypeOK, ReleasedAtFront
<1>3. Tail(frames) \in Seq(FrameType) /\ Len(Tail(frames)) = 0
  BY <1>1, <1>2, HeadTailProperties
<1>4. DOMAIN Tail(frames) = 1 .. Len(Tail(frames)) /\ 1 .. 0 = {}
  BY <1>3, LenProperties
<1>5. QED
  BY <1>1, <1>3, <1>4, Zenon

(* The pop of a forwarded dispatch, and the front it pops.                 *)
LEMMA PopsReadsKept ==
  ASSUME TypeInv, PopsReads,
         pendingFar # <<>> => Head(pendingFar') = Head(pendingFar),
         \/ frames' = frames
         \/ frames # <<>> /\ frames' = Tail(frames)
         \/ \E op \in {"return_data", "fill"} : \E a \in Addr :
              frames' = <<Frame(op, a)>> \o frames
  PROVE  PopsReads'
<1>1. frames \in Seq(FrameType)
  BY DEF TypeInv, TypeOK
<1>2. ASSUME NEW j \in DOMAIN frames, frames[j].op = "popFar"
      PROVE  ~Head(pendingFar').isWrite
  BY <1>2 DEF PopsReads, TypeInv, ReleasedAtFront
<1>3. CASE frames' = frames
  BY <1>2, <1>3 DEF PopsReads
<1>4. CASE frames # <<>> /\ frames' = Tail(frames)
  <2>1. \A k \in DOMAIN Tail(frames) :
          k + 1 \in DOMAIN frames /\ Tail(frames)[k] = frames[k + 1]
    BY <1>1, <1>4, TailElements
  <2>2. QED
    BY <1>2, <1>4, <2>1 DEF PopsReads
<1>5. ASSUME NEW op \in {"return_data", "fill"}, NEW a \in Addr,
             frames' = <<Frame(op, a)>> \o frames
      PROVE  PopsReads'
  <2>1. Frame(op, a) \in FrameType /\ Frame(op, a).op = op
    BY DEF Frame, FrameType, Rest
  <2>2. \A k \in DOMAIN (<<Frame(op, a)>> \o frames) :
          \/ (<<Frame(op, a)>> \o frames)[k] = Frame(op, a)
          \/ /\ k - 1 \in DOMAIN frames
             /\ (<<Frame(op, a)>> \o frames)[k] = frames[k - 1]
    BY <1>1, <2>1, PushElements
  <2>3. QED
    BY <1>2, <1>5, <2>1, <2>2 DEF PopsReads
<1>6. QED
  BY <1>3, <1>4, <1>5

(* A dispatch to farMC leaves the front of the pending ones alone.         *)
LEMMA FarFrontKept ==
  ASSUME TypeOK, NEW p \in Packet, dispatchToFarGuaranteed(p)
  PROVE  pendingFar # <<>> => Head(pendingFar') = Head(pendingFar)
<1>1. pendingFar \in Seq(HeldPkt) /\ Held(p) \in HeldPkt
  BY HeldType DEF TypeOK
<1>2. pendingFar # <<>> => Head(Append(pendingFar, Held(p))) = Head(pendingFar)
  BY <1>1, AppendKeeps
<1>3. QED
  BY <1>2 DEF dispatchToFarGuaranteed

(* With no frame that pops there is nothing to show.                       *)
LEMMA NoPopReads ==
  ASSUME \A k \in DOMAIN frames' : frames'[k].op # "popFar"
  PROVE  PopsReads'
BY DEF PopsReads

(* Handlers put nothing in front of the pending dispatches.                *)
LEMMA HandlersPopReads ==
  ASSUME TypeInv, PopsReads, Handler
  PROVE  PopsReads'
<1> USE DEF dcmVars, mcVars, llcVars, ctlVars, modeVars
<1>1. CASE DriveLocMemRead
  <2>1. OrbPacket(call.addr, FALSE).addr \in Addr
    BY <1>1, CallAddrType DEF DriveLocMemRead, OrbPacket, TypeInv
  <2>2. \/ frames' = frames
        \/ frames' = <<Frame("return_data", OrbPacket(call.addr, FALSE).addr)>> \o frames
    BY <1>1 DEF DriveLocMemRead, Continue
  <2>3. QED
    BY <1>1, <2>1, <2>2, PopsReadsKept DEF DriveLocMemRead
<1>2. CASE DriveFarMemRead
  <2>1. call.addr \in Addr
    BY <1>2, CallAddrType DEF DriveFarMemRead, TypeInv
  <2>2. OrbPacket(call.addr, FALSE) \in Packet /\ OrbPacket(call.addr, FALSE).addr \in Addr
    BY <2>1, OrbPacketType DEF Packet, TypeInv
  <2>3. pendingFar # <<>> => Head(pendingFar') = Head(pendingFar)
    BY <1>2, <2>2, FarFrontKept DEF DriveFarMemRead, TypeInv
  <2>4. \/ frames' = frames
        \/ frames' = <<Frame("return_data", OrbPacket(call.addr, FALSE).addr)>> \o frames
    BY <1>2 DEF DriveFarMemRead, Continue
  <2>5. QED
    BY <2>2, <2>3, <2>4, PopsReadsKept
<1>3. CASE DriveLocMemWrite \/ Promote \/ NothingToPromote \/ ReturnBypassed
           \/ ReturnTagReadHit \/ ReturnTagRead \/ ReturnUntracked
  <2>1. frames' = frames /\ pendingFar' = pendingFar
    BY <1>3 DEF DriveLocMemWrite, Promote, NothingToPromote, ReturnBypassed,
       ReturnTagReadHit, ReturnTagRead, ReturnUntracked
  <2>2. QED
    BY <2>1, PopsReadsKept
<1>4. CASE ReturnFarRead
  <2>1. call.addr \in Addr
    BY <1>4, ReturnedType DEF ReturnFarRead, TypeInv
  <2>2. frames' = <<Frame("fill", call.addr)>> \o frames /\ pendingFar' = pendingFar
    BY <1>4 DEF ReturnFarRead
  <2>3. QED
    BY <2>1, <2>2, PopsReadsKept
<1>5. CASE ResumeReturn \/ ResumeDone \/ ResumeFill
  <2>1. frames # <<>> /\ frames' = Tail(frames) /\ pendingFar' = pendingFar
    BY <1>5 DEF ResumeReturn, ResumeDone, ResumeFill, Resume
  <2>2. QED
    BY <2>1, PopsReadsKept
<1>6. CASE ResumePop
  <2>1. DOMAIN Tail(frames) = {}
    BY <1>6, OnlyFramePops
  <2>2. QED
    BY <1>6, <2>1, NoPopReads DEF ResumePop
<1>7. QED
  BY <1>1, <1>2, <1>3, <1>4, <1>5, <1>6 DEF Handler

(* A dispatch that is forwarded is a read.                                 *)
LEMMA ReleasePopsReads ==
  ASSUME TypeInv, ReleaseFar
  PROVE  PopsReads'
<1> DEFINE p == Head(pendingFar)
           outcome == trySend(far, p)
<1>1. CASE outcome = "forwarded"
  <2>1. ~p.isWrite /\ pendingFar' = pendingFar
    BY <1>1 DEF trySend, ReleaseFar
  <2>2. QED
    BY <2>1 DEF PopsReads
<1>2. CASE outcome # "forwarded"
  <2>1. frames' = <<>>
    BY <1>2 DEF ReleaseFar, Continue
  <2>2. QED
    BY <2>1, NoPopReads
<1>3. QED
  BY <1>1, <1>2

(* The front answered by forwarding stays a read until its pop.            *)
LEMMA NextKeepsPopsReads ==
  ASSUME TypeInv, PopsReads, [Next]_vars
  PROVE  PopsReads'
<1> USE DEF dcmVars, mcVars, llcVars, ctlVars, modeVars
<1>1. CASE Handler
  BY <1>1, HandlersPopReads
<1>2. CASE ReleaseFar
  BY <1>2, ReleasePopsReads
<1>3. CASE ReleaseNear
  <2> DEFINE p == Head(pendingNear)
             rest == IF trySend(near, p) = "forwarded" THEN <<Frame("popNear", p.addr)>>
                                                       ELSE <<>>
  <2>0. p \in Packet
    <3>1. pendingNear \in Seq(Packet) /\ pendingNear # <<>>
      BY <1>3 DEF ReleaseNear, TypeInv, TypeOK
    <3>2. QED
      BY <3>1, HeadTailProperties
  <2>1. frames' = rest \/ frames' = <<Frame("return_data", p.addr)>> \o rest
    BY <1>3 DEF ReleaseNear, Continue
  <2>2. p.addr \in Addr
    BY <2>0 DEF Packet
  <2>3. /\ <<>> \in Seq(FrameType) /\ <<Frame("popNear", p.addr)>> \in Seq(FrameType)
        /\ Frame("return_data", p.addr) \in FrameType
    BY <2>2, FrameIsType, EmptySeq DEF Rest, Frame, FrameType
  <2> HIDE DEF p
  <2>3a. rest \in Seq(FrameType)
    BY <2>3
  <2>4. \A k \in DOMAIN rest : rest[k].op # "popFar"
    BY DEF Frame
  <2> HIDE DEF rest
  <2>5. \A k \in DOMAIN (<<Frame("return_data", p.addr)>> \o rest) :
          \/ (<<Frame("return_data", p.addr)>> \o rest)[k] = Frame("return_data", p.addr)
          \/ /\ k - 1 \in DOMAIN rest
             /\ (<<Frame("return_data", p.addr)>> \o rest)[k] = rest[k - 1]
    BY <2>3, <2>3a, PushElements
  <2>6. Frame("return_data", p.addr).op # "popFar"
    BY DEF Frame
  <2>7. \A k \in DOMAIN frames' : frames'[k].op # "popFar"
    BY <2>1, <2>4, <2>5, <2>6
  <2>8. QED
    BY <2>7, NoPopReads
<1>4. CASE FarReleased \/ NearReleased \/ DrainWB \/ NearWaits \/ FarWaits
           \/ ResponsesDelivered \/ DeliverResponse \/ NextCycle
  <2>1. frames' = <<>>
    BY <1>4, IdleFrames DEF FarReleased, NearReleased, DrainWB, NearWaits, FarWaits,
       ResponsesDelivered, DeliverResponse, NextCycle
  <2>2. QED
    BY <2>1, NoPopReads
<1>5. ASSUME NEW a \in Addr, NearServeRead(a) \/ NearServeWrite(a)
                             \/ FarServeRead(a) \/ FarServeWrite(a)
      PROVE  PopsReads'
  <2>1. frames' \in {<<>>, <<Frame("doneNear", a)>>, <<Frame("doneFar", a)>>}
    BY <1>5, IdleFrames DEF NearServeRead, NearServeWrite, FarServeRead, FarServeWrite
  <2>2. QED
    BY <2>1, NoPopReads DEF Frame
<1>6. ASSUME NEW p \in Requests, AddBypassed(p)
      PROVE  PopsReads'
  <2>1. p \in Packet /\ p.addr \in Addr
    BY DEF Requests, Packet
  <2>2. pendingFar # <<>> => Head(pendingFar') = Head(pendingFar)
    BY <1>6, <2>1, FarFrontKept DEF AddBypassed, TypeInv
  <2>3. frames' = frames \/ frames' = <<Frame("return_data", p.addr)>> \o frames
    BY <1>6, <2>1, SubmitType DEF AddBypassed, Continue
  <2>4. QED
    BY <2>1, <2>2, <2>3, PopsReadsKept
<1>7. ASSUME NEW p \in Requests, AddConflicting(p) \/ AddAdmitted(p) \/ WarmupAccess(p)
      PROVE  PopsReads'
  <2>1. frames' = frames /\ pendingFar' = pendingFar
    BY <1>7 DEF AddConflicting, AddAdmitted, WarmupAccess
  <2>2. QED
    BY <2>1, PopsReadsKept
<1>8. CASE CompleteWarmup \/ setBypassDcache \/ UNCHANGED vars
  <2>1. frames' = frames /\ pendingFar' = pendingFar
    BY <1>8 DEF CompleteWarmup, setBypassDcache, vars
  <2>2. QED
    BY <2>1, PopsReadsKept
<1>9. QED
  BY <1>1, <1>2, <1>3, <1>4, <1>5, <1>6, <1>7, <1>8 DEF Next, Operate, Llc

(* dispatchToFarGuaranteed() keeps the writes on their way, and adds its   *)
(* own.                                                                    *)
LEMMA DispatchKeepsToFar ==
  ASSUME TypeOK, NEW p \in Packet, dispatchToFarGuaranteed(p)
  PROVE  /\ \A a \in Addr : ToFar(a) => ToFar(a)'
         /\ p.isWrite => ToFar(p.addr)'
<1>1. /\ pendingFar \in Seq(HeldPkt) /\ Held(p) \in HeldPkt /\ far \in MemQueues
      /\ p.addr \in Addr /\ p.isWrite \in BOOLEAN
  BY HeldType DEF TypeOK, Packet
<1>2. CASE FarOutcome(p) = "blocked"
  <2>1. pendingFar' = Append(pendingFar, Held(p)) /\ far' = far
    BY <1>2 DEF dispatchToFarGuaranteed, After
  <2>2. /\ \A k \in DOMAIN pendingFar : k \in DOMAIN pendingFar' /\ pendingFar'[k] = pendingFar[k]
        /\ \E k \in DOMAIN pendingFar' : pendingFar'[k] = Held(p)
    BY <1>1, <2>1, AppendKeeps
  <2>3. Held(p).addr = p.addr /\ Held(p).isWrite = p.isWrite
    BY DEF Held
  <2>4. QED
    BY <2>1, <2>2, <2>3 DEF ToFar, OnLink
<1>3. CASE FarOutcome(p) # "blocked"
  <2>1. pendingFar' = pendingFar /\ far' = After(FarOutcome(p), far, p)
    BY <1>3 DEF dispatchToFarGuaranteed
  <2>2. \A a \in far.wq : a \in After(FarOutcome(p), far, p).wq
    BY <1>1 DEF After, Enqueued, MemQueues
  <2>3. p.isWrite => p.addr \in After(FarOutcome(p), far, p).wq
    BY <1>1, <1>3 DEF After, Enqueued, MemQueues, FarOutcome, trySend
  <2>4. QED
    BY <2>1, <2>2, <2>3 DEF ToFar, OnLink
<1>4. QED
  BY <1>2, <1>3

(* A step that leaves the link alone and takes no write from farMC.        *)
LEMMA ToFarKept ==
  ASSUME NEW a \in Addr, ToFar(a), pendingFar' = pendingFar, a \in far.wq => a \in far'.wq
  PROVE  ToFar(a)'
BY DEF ToFar, OnLink

(* The front of the pending dispatches leaves them for farMC, and a write  *)
(* is never popped for a forwarded read.                                   *)
LEMMA ReleaseKeepsToFar ==
  ASSUME TypeInv, ReleaseFar, NEW a \in Addr, ToFar(a)
  PROVE  ToFar(a)'
<1> DEFINE p == Head(pendingFar)
           outcome == trySend(far, p)
<1>1. /\ pendingFar \in Seq(HeldPkt) /\ pendingFar # <<>> /\ far \in MemQueues
  BY DEF TypeInv, TypeOK, ReleaseFar, FarReady
<1>2. /\ far' = After(outcome, far, p)
      /\ pendingFar' = IF outcome = "queued" THEN Tail(pendingFar) ELSE pendingFar
  BY DEF ReleaseFar
<1> HIDE DEF p, outcome
<1>3. \A b \in far.wq : b \in far'.wq
  BY <1>1, <1>2 DEF After, Enqueued, MemQueues
<1>4. CASE outcome # "queued"
  BY <1>2, <1>3, <1>4, ToFarKept
<1>5. CASE outcome = "queued" /\ a \in far.wq
  BY <1>3, <1>5 DEF ToFar
<1>6. CASE outcome = "queued" /\ OnLink(a)
  <2>1. PICK k \in DOMAIN pendingFar : pendingFar[k].addr = a /\ pendingFar[k].isWrite
    BY <1>6 DEF OnLink
  <2>2. pendingFar[k] = p \/ \E j \in DOMAIN Tail(pendingFar) : Tail(pendingFar)[j] = pendingFar[k]
    BY <1>1, TailKeeps DEF p
  <2>3. CASE pendingFar[k] = p
    <3>1. a \in far'.wq
      BY <1>1, <1>2, <1>6, <2>1, <2>3 DEF After, Enqueued, MemQueues
    <3>2. QED
      BY <3>1 DEF ToFar
  <2>4. CASE \E j \in DOMAIN Tail(pendingFar) : Tail(pendingFar)[j] = pendingFar[k]
    <3>1. pendingFar' = Tail(pendingFar)
      BY <1>2, <1>6
    <3>2. QED
      BY <2>1, <2>4, <3>1 DEF ToFar, OnLink
  <2>5. QED
    BY <2>2, <2>3, <2>4
<1>7. QED
  BY <1>4, <1>5, <1>6 DEF ToFar

(* The pop takes that read and no write.                                   *)
LEMMA PopKeepsToFar ==
  ASSUME TypeInv, PopsReads, ResumePop, NEW a \in Addr, ToFar(a)
  PROVE  ToFar(a)'
<1> USE DEF mcVars
<1>1. CASE pendingFar' = pendingFar
  BY <1>1, ToFarKept DEF ResumePop
<1>2. CASE Resume("popFar") /\ pendingFar' = Tail(pendingFar)
  <2>1. 1 \in DOMAIN frames /\ frames[1].op = "popFar"
    BY <1>2, OnlyFramePops DEF Resume
  <2>2. ~Head(pendingFar).isWrite /\ pendingFar # <<>> /\ pendingFar \in Seq(HeldPkt)
    BY <2>1 DEF PopsReads, TypeInv, ReleasedAtFront, TypeOK
  <2>3. ASSUME NEW k \in DOMAIN pendingFar, pendingFar[k].isWrite
        PROVE  \E j \in DOMAIN pendingFar' : pendingFar'[j] = pendingFar[k]
    BY <1>2, <2>2, <2>3, TailKeeps
  <2>4. far' = far
    BY DEF ResumePop
  <2>5. QED
    BY <2>3, <2>4 DEF ToFar, OnLink
<1>3. QED
  BY <1>1, <1>2 DEF ResumePop

(* A cycle that passes changes how long dispatches wait, nothing else.     *)
LEMMA ElapseKeepsToFar ==
  ASSUME TypeInv, NextCycle, NEW a \in Addr, ToFar(a)
  PROVE  ToFar(a)'
<1>1. pendingFar \in Seq(HeldPkt)
  BY DEF TypeInv, TypeOK
<1>2. \A k \in DOMAIN pendingFar : pendingFar[k] \in HeldPkt
  BY <1>1, LenProperties, ElementOfSeq
<1>3. /\ DOMAIN pendingFar' = DOMAIN pendingFar
      /\ \A k \in DOMAIN pendingFar : /\ pendingFar'[k].addr = pendingFar[k].addr
                                      /\ pendingFar'[k].isWrite = pendingFar[k].isWrite
  BY <1>2 DEF NextCycle, Elapse, HeldPkt
<1>4. far' = far
  BY DEF NextCycle, mcVars
<1>5. QED
  BY <1>3, <1>4 DEF ToFar, OnLink

(* Writes on their way to far memory arrive there.                         *)
LEMMA ToFarStep ==
  ASSUME TypeInv, PopsReads, [Next]_vars, NEW a \in Addr, ToFar(a), ~FarServeWrite(a)
  PROVE  ToFar(a)'
<1> USE DEF dcmVars, mcVars, llcVars, ctlVars, modeVars
<1>1. CASE DriveFarMemRead
  <2>1. OrbPacket(call.addr, FALSE) \in Packet
    BY <1>1, CallAddrType, OrbPacketType DEF DriveFarMemRead, TypeInv
  <2>2. QED
    BY <1>1, <2>1, DispatchKeepsToFar DEF DriveFarMemRead, TypeInv
<1>2. ASSUME NEW p \in Requests, AddBypassed(p)
      PROVE  ToFar(a)'
  BY <1>2, DispatchKeepsToFar DEF AddBypassed, Requests, TypeInv
<1>3. CASE DrainWB
  <2>1. CASE UNCHANGED <<far, pendingFar>>
    BY <2>1, ToFarKept
  <2>2. CASE wb # <<>> /\ dispatchToFarGuaranteed(WritePacket(Head(wb)))
    <3>1. Head(wb) \in Addr
      BY <2>2, HeadTailProperties DEF TypeInv, TypeOK
    <3>2. QED
      BY <2>2, <3>1, WritePacketType, DispatchKeepsToFar DEF TypeInv
  <2>3. QED
    BY <1>3, <2>1, <2>2 DEF DrainWB
<1>4. CASE ReleaseFar
  BY <1>4, ReleaseKeepsToFar
<1>5. CASE ResumePop
  BY <1>5, PopKeepsToFar
<1>6. CASE NextCycle
  BY <1>6, ElapseKeepsToFar
<1>7. CASE ResumeDone
  <2>1. pendingFar' = pendingFar /\ far'.wq = far.wq
    BY <1>7 DEF ResumeDone, TypeInv, TypeOK, MemQueues
  <2>2. QED
    BY <2>1, ToFarKept
<1>8. ASSUME NEW b \in Addr, FarServeWrite(b)
      PROVE  ToFar(a)'
  <2>1. a # b
    BY <1>8
  <2>2. pendingFar' = pendingFar /\ far'.wq = far.wq \ {b}
    BY <1>8 DEF FarServeWrite, TypeInv, TypeOK, MemQueues
  <2>3. QED
    BY <2>1, <2>2, ToFarKept
<1>9. CASE DriveLocMemRead \/ DriveLocMemWrite \/ Promote \/ NothingToPromote
           \/ ReturnBypassed \/ ReturnTagReadHit \/ ReturnTagRead \/ ReturnFarRead
           \/ ReturnUntracked \/ ResumeReturn \/ ResumeFill
  <2>1. pendingFar' = pendingFar /\ far' = far
    BY <1>9 DEF DriveLocMemRead, DriveLocMemWrite, Promote, NothingToPromote,
       ReturnBypassed, ReturnTagReadHit, ReturnTagRead, ReturnFarRead, ReturnUntracked,
       ResumeReturn, ResumeFill
  <2>2. QED
    BY <2>1, ToFarKept
<1>10. ASSUME NEW b \in Addr, NearServeRead(b) \/ NearServeWrite(b) \/ FarServeRead(b)
       PROVE  ToFar(a)'
  BY <1>10, ToFarKept DEF NearServeRead, NearServeWrite, FarServeRead
<1>11. CASE FarReleased \/ ReleaseNear \/ NearReleased \/ NearWaits \/ FarWaits
            \/ DeliverResponse \/ ResponsesDelivered \/ CompleteWarmup \/ setBypassDcache
            \/ UNCHANGED vars
  <2>1. pendingFar' = pendingFar /\ far' = far
    BY <1>11 DEF FarReleased, ReleaseNear, NearReleased, NearWaits, FarWaits,
       DeliverResponse, ResponsesDelivered, CompleteWarmup, setBypassDcache, vars
  <2>2. QED
    BY <2>1, ToFarKept
<1>12. ASSUME NEW p \in Requests, AddConflicting(p) \/ AddAdmitted(p) \/ WarmupAccess(p)
       PROVE  ToFar(a)'
  BY <1>12, ToFarKept DEF AddConflicting, AddAdmitted, WarmupAccess
<1>13. QED
  BY <1>1, <1>2, <1>3, <1>4, <1>5, <1>6, <1>7, <1>8, <1>9, <1>10, <1>11, <1>12
     DEF Next, Handler, Operate, Llc

(* A victim leaves WB once the link, or farMC, has taken it.               *)
LEMMA WbStep ==
  ASSUME TypeInv, [Next]_vars, NEW a \in Addr, InWb(a)
  PROVE  InWb(a)' \/ ToFar(a)'
<1> USE DEF dcmVars, mcVars, llcVars, ctlVars, modeVars
<1>0. wb \in Seq(Addr)
  BY DEF TypeInv, TypeOK
<1>1. ASSUME wb' = wb
      PROVE  InWb(a)'
  BY <1>1 DEF InWb
<1>2. CASE DrainWB
  <2>1. CASE wb' = wb
    BY <1>1, <2>1
  <2>2. CASE wb # <<>> /\ dispatchToFarGuaranteed(WritePacket(Head(wb))) /\ wb' = Tail(wb)
    <3>1. PICK k \in DOMAIN wb : wb[k] = a
      BY DEF InWb
    <3>2. wb[k] = Head(wb) \/ \E j \in DOMAIN Tail(wb) : Tail(wb)[j] = wb[k]
      BY <1>0, <2>2, TailKeeps
    <3>3. CASE wb[k] = Head(wb)
      <4>1. WritePacket(a) \in Packet /\ dispatchToFarGuaranteed(WritePacket(a))
        BY <2>2, <3>1, <3>3, WritePacketType
      <4>2. WritePacket(a).isWrite /\ WritePacket(a).addr = a
        BY DEF WritePacket
      <4>3. QED
        BY <4>1, <4>2, DispatchKeepsToFar DEF TypeInv
    <3>4. CASE \E j \in DOMAIN Tail(wb) : Tail(wb)[j] = wb[k]
      BY <2>2, <3>1, <3>4 DEF InWb
    <3>5. QED
      BY <3>2, <3>3, <3>4
  <2>3. QED
    BY <1>2, <2>1, <2>2 DEF DrainWB
<1>3. CASE ReturnTagReadHit \/ ReturnTagRead
  <2>1. call.addr \in Addr /\ orb[call.addr] \in OrbEntry /\ pushDirtyWriteBack(call.addr)
    BY <1>3, ReturnedType DEF ReturnTagReadHit, ReturnTagRead, TypeInv
  <2>2. CASE wb' = wb
    BY <1>1, <2>2
  <2>3. ASSUME NEW v \in Addr, wb' = Append(wb, v)
        PROVE  InWb(a)'
    <3>1. \A k \in DOMAIN wb : k \in DOMAIN wb' /\ wb'[k] = wb[k]
      BY <1>0, <2>3, AppendKeeps
    <3>2. QED
      BY <3>1 DEF InWb
  <2>4. QED
    BY <2>1, <2>2, <2>3 DEF pushDirtyWriteBack, OrbEntry
<1>4. CASE DriveLocMemRead \/ DriveFarMemRead \/ DriveLocMemWrite \/ Promote
           \/ NothingToPromote \/ ReturnBypassed \/ ReturnFarRead \/ ReturnUntracked
           \/ ResumeReturn \/ ResumeFill \/ ResumePop \/ ResumeDone
  <2>1. wb' = wb
    BY <1>4 DEF DriveLocMemRead, DriveFarMemRead, DriveLocMemWrite, Promote,
       NothingToPromote, ReturnBypassed, ReturnFarRead, ReturnUntracked,
       ResumeReturn, ResumeFill, ResumePop, ResumeDone
  <2>2. QED
    BY <1>1, <2>1
<1>5. CASE Operate /\ ~DrainWB
  <2>1. wb' = wb
    BY <1>5 DEF Operate, ReleaseFar, FarReleased, ReleaseNear, NearReleased,
       NearServeRead, NearServeWrite, FarServeRead, FarServeWrite, NearWaits,
       FarWaits, DeliverResponse, ResponsesDelivered
  <2>2. QED
    BY <1>1, <2>1
<1>6. ASSUME NEW p \in Requests, AddBypassed(p) \/ AddConflicting(p) \/ AddAdmitted(p)
                                 \/ WarmupAccess(p)
      PROVE  wb' = wb
  BY <1>6 DEF AddBypassed, AddConflicting, AddAdmitted, WarmupAccess
<1>7. CASE CompleteWarmup \/ setBypassDcache \/ NextCycle \/ UNCHANGED vars
  <2>1. wb' = wb
    BY <1>7 DEF CompleteWarmup, setBypassDcache, NextCycle, vars
  <2>2. QED
    BY <1>1, <2>1
<1>8. QED
  BY <1>1, <1>2, <1>3, <1>4, <1>5, <1>6, <1>7 DEF Next, Handler, Llc

(* During warmup the dirty lines are those of the tag store.               *)
LEMMA WarmupStep ==
  ASSUME TypeInv, TagsKnown, NEW p \in Requests, WarmupAccess(p)
  PROVE  TagsKnown' /\ \A a \in unsaved' : InTags(a)'
<1> DEFINE x == p.addr
           i == returnIndexDC(x)
           line == [valid |-> TRUE, dirty |-> p.isWrite \/ (isHit(x) /\ tags[i].dirty),
                    tag |-> returnTagDC(x), far |-> x]
<1>1. x \in Addr /\ i \in Indices
  BY IndexType DEF Packet, Requests
<1>2. tags \in [Indices -> TagEntry] /\ tags' = [tags EXCEPT ![i] = line]
  BY DEF TypeInv, TypeOK, WarmupAccess, Installed
<1>3. line.valid /\ line.tag = returnTagDC(x) /\ line.far = x
  OBVIOUS
<1> HIDE DEF line
<1>4. tags'[i] = line /\ \A j \in Indices : j # i => tags'[j] = tags[j]
  BY <1>1, <1>2
<1>5. TagsKnown'
  BY <1>1, <1>3, <1>4 DEF TagsKnown
<1>6. unsaved' = {tags'[j].far : j \in {k \in Indices : tags'[k].dirty}}
  BY DEF WarmupAccess
<1>7. \A j \in Indices : tags'[j].dirty => tags'[j].valid
  BY <1>5 DEF TagsKnown
<1>8. QED
  BY <1>5, <1>6, <1>7 DEF InTags

(* What is stored stays stored until farMC has written it.                 *)
LEMMA StoredStep ==
  ASSUME TypeInv, IndexInv, TagsKnown, PopsReads, [Next]_vars,
         ~\E p \in Requests : WarmupAccess(p),
         NEW a \in Addr, Stored(a), ~FarServeWrite(a)
  PROVE  Stored(a)'
<1>1. InTags(a) => InTags(a)' \/ AsVictim(a)'
  BY TagsStep
<1>2. AsVictim(a) => AsVictim(a)' \/ InWb(a)'
  BY VictimStep
<1>3. InWb(a) => InWb(a)' \/ ToFar(a)'
  BY WbStep
<1>4. ToFar(a) => ToFar(a)'
  BY ToFarStep
<1>5. QED
  BY <1>1, <1>2, <1>3, <1>4 DEF Stored

(* A line is stored by the step that first writes it.                      *)
LEMMA NewlyUnsaved ==
  ASSUME TypeInv, IndexInv, TagsKnown, [Next]_vars,
         ~\E p \in Requests : WarmupAccess(p),
         NEW a \in unsaved', a \notin unsaved
  PROVE  Stored(a)'
<1> USE DEF dcmVars, mcVars, llcVars, ctlVars, modeVars
<1>1. ASSUME NEW p \in Packet, admitRequest(p), ~InOrb(p.addr)
      PROVE  Stored(a)'
  <2>1. p.isWrite /\ a = p.addr
    BY <1>1 DEF admitRequest
  <2>2. QED
    BY <1>1, <2>1, AdmitKeepsLines DEF Stored
<1>2. CASE Promote
  <2>1. PICK k \in DOMAIN crb : IsOldest(k, SameIndex(call.addr)) /\ admitRequest(crb[k])
    BY <1>2 DEF Promote
  <2>2. crb[k] \in Packet
    BY LenProperties, ElementOfSeq DEF TypeInv, TypeOK
  <2>3. ~Busy(returnIndexDC(crb[k].addr))
    BY <1>2, <2>1 DEF Promote, IndexInv, FreedIndex, IsOldest, SameIndex
  <2>4. ~InOrb(crb[k].addr)
    BY <2>2, <2>3 DEF Busy, Packet
  <2>5. QED
    BY <1>1, <2>1, <2>2, <2>4
<1>3. ASSUME NEW p \in Requests, AddAdmitted(p)
      PROVE  Stored(a)'
  <2>1. p \in Packet /\ ~InOrb(p.addr)
    BY <1>3 DEF AddAdmitted, Requests, Busy, Packet
  <2>2. CASE admitRequest(p)
    BY <1>1, <2>1, <2>2
  <2>3. CASE unsaved' = unsaved
    BY <2>3
  <2>4. QED
    BY <1>3, <2>2, <2>3 DEF AddAdmitted
<1>4. ASSUME NEW p \in Requests, AddBypassed(p)
      PROVE  Stored(a)'
  <2>1. p \in Packet /\ p.isWrite /\ a = p.addr
    BY <1>4 DEF AddBypassed, Requests
  <2>2. QED
    BY <1>4, <2>1, DispatchKeepsToFar DEF AddBypassed, TypeInv, Stored
<1>5. CASE Handler /\ ~Promote
  BY <1>5 DEF Handler, DriveLocMemRead, DriveFarMemRead, DriveLocMemWrite,
     NothingToPromote, ReturnBypassed, ReturnTagReadHit, ReturnTagRead, ReturnFarRead,
     ReturnUntracked, ResumeReturn, ResumeFill, ResumePop, ResumeDone
<1>6. CASE Operate
  BY <1>6 DEF Operate, ReleaseFar, FarReleased, DrainWB, ReleaseNear, NearReleased,
     NearServeRead, NearServeWrite, FarServeRead, FarServeWrite, NearWaits,
     FarWaits, DeliverResponse, ResponsesDelivered
<1>7. ASSUME NEW p \in Requests, AddConflicting(p)
      PROVE  Stored(a)'
  BY <1>7 DEF AddConflicting
<1>8. CASE CompleteWarmup \/ setBypassDcache \/ NextCycle \/ UNCHANGED vars
  BY <1>8 DEF CompleteWarmup, setBypassDcache, NextCycle, vars
<1>9. QED
  BY <1>2, <1>3, <1>4, <1>5, <1>6, <1>7, <1>8 DEF Next, Llc

LineInv == TagsKnown /\ PopsReads /\ \A a \in unsaved : Stored(a)

(* Nothing is dirty at the start.                                          *)
LEMMA InitLines == Init => LineInv
BY DEF Init, LineInv, TagsKnown, PopsReads

(* Every step keeps the lines of the LLC stored.                           *)
LEMMA NextKeepsLines == TypeInv /\ IndexInv /\ LineInv /\ [Next]_vars => LineInv'
<1> SUFFICES ASSUME TypeInv, IndexInv, LineInv, [Next]_vars PROVE LineInv'
  OBVIOUS
<1> USE DEF LineInv
<1>1. PopsReads'
  BY NextKeepsPopsReads
<1>2. CASE \E p \in Requests : WarmupAccess(p)
  <2>1. TagsKnown' /\ \A a \in unsaved' : InTags(a)'
    BY <1>2, WarmupStep
  <2>2. QED
    BY <1>1, <2>1 DEF Stored
<1>3. CASE ~\E p \in Requests : WarmupAccess(p)
  <2>1. TagsKnown'
    BY <1>3, TagsStep
  <2>2. ASSUME NEW a \in unsaved', a \in unsaved
        PROVE  Stored(a)'
    <3>1. a \in Addr
      BY <2>2 DEF TypeInv, TypeOK
    <3>2. ~FarServeWrite(a)
      BY <2>2 DEF FarServeWrite
    <3>3. QED
      BY <1>3, <2>2, <3>1, <3>2, StoredStep
  <2>3. QED
    BY <1>1, <1>3, <2>1, <2>2, NewlyUnsaved
<1>4. QED
  BY <1>2, <1>3

(* The inductive form of DirtyNotLost.                                     *)
THEOREM LineInvariant == Spec => []LineInv
BY TypeInvariant, IndexInvariant, InitLines, NextKeepsLines, PTL DEF Spec

(* A line the LLC has written is kept somewhere until far memory has it,   *)
(* whatever promotions, forwarded reads and full queues its way there      *)
(* meets.                                                                  *)
THEOREM NothingDirtyLost == Spec => []DirtyNotLost
<1>1. LineInv => DirtyNotLost
  BY DEF LineInv, DirtyNotLost, Stored, InTags, AsVictim, InWb, ToFar, OnLink
<1>2. QED
  BY <1>1, LineInvariant, PTL


-----------------------------------------------------------------------------
(* Positions.  The rank of a number in a finite set of numbers is how many *)
(* of the set are not greater; Nth() is its inverse.                       *)

Rank(K, k) == Cardinality({j \in K : j <= k})

(* Ranks count from one, and a greater number has a greater rank.          *)
LEMMA RankOrder ==
  ASSUME NEW K, IsFiniteSet(K), K \subseteq Nat
  PROVE  /\ \A k \in K : Rank(K, k) \in 1 .. Cardinality(K)
         /\ \A j, k \in K : j < k => Rank(K, j) < Rank(K, k)
         /\ \A j, k \in K : Rank(K, j) = Rank(K, k) => j = k
<1> DEFINE Upto(k) == {j \in K : j <= k}
<1>0. Cardinality(K) \in Nat
  BY FS_CardinalityType
<1>1. \A k \in K : /\ IsFiniteSet(Upto(k)) /\ Cardinality(Upto(k)) <= Cardinality(K)
                   /\ Cardinality(Upto(k)) \in Nat
  BY FS_Subset, FS_CardinalityType
<1>2. \A k \in K : k \in Upto(k)
  OBVIOUS
<1>3. \A k \in K : Cardinality(Upto(k)) # 0
  BY <1>1, <1>2, FS_EmptySet
<1>4. \A k \in K : Rank(K, k) \in 1 .. Cardinality(K)
  BY <1>0, <1>1, <1>3 DEF Rank
<1>5. ASSUME NEW j \in K, NEW k \in K, j < k
      PROVE  Rank(K, j) < Rank(K, k)
  <2>0. j \in Nat /\ k \in Nat /\ \A i \in K : i \in Nat
    OBVIOUS
  <2>1. Upto(j) \subseteq Upto(k) /\ k \in Upto(k) /\ k \notin Upto(j)
    <3>1. \A i \in K : i <= j => i <= k
      BY <1>5, <2>0
    <3>2. ~(k <= j)
      BY <1>5, <2>0
    <3>3. QED
      BY <1>2, <3>1, <3>2
  <2> HIDE DEF Upto
  <2>2. Cardinality(Upto(j)) <= Cardinality(Upto(k)) /\ Cardinality(Upto(j)) # Cardinality(Upto(k))
    BY <1>1, <2>1, FS_Subset
  <2>3. Cardinality(Upto(j)) < Cardinality(Upto(k))
    BY <1>1, <2>2
  <2>4. QED
    BY <2>3 DEF Rank, Upto
<1>6. ASSUME NEW j \in K, NEW k \in K, Rank(K, j) = Rank(K, k)
      PROVE  j = k
  <2>1. Rank(K, j) \in Nat /\ Rank(K, k) \in Nat /\ j \in Nat /\ k \in Nat
    BY <1>0, <1>4
  <2>2. ~(j < k) /\ ~(k < j)
    BY <1>5, <1>6, <2>1
  <2>3. QED
    BY <2>1, <2>2
<1>7. QED
  BY <1>4, <1>5, <1>6

(* Every rank is that of some number: Nth() finds it.                      *)
LEMMA NthOfRank ==
  ASSUME NEW K, IsFiniteSet(K), K \subseteq Nat
  PROVE  /\ \A n \in 1 .. Cardinality(K) : Nth(K, n) \in K /\ Rank(K, Nth(K, n)) = n
         /\ \A k \in K : Nth(K, Rank(K, k)) = k
<1> DEFINE C == Cardinality(K)  f == [k \in K |-> Rank(K, k)]
<1>0. C \in Nat
  BY FS_CardinalityType
<1>1. f \in Injection(K, 1 .. C)
  <2>1. f \in [K -> 1 .. C] /\ \A j, k \in K : f[j] = f[k] => j = k
    BY RankOrder
  <2>2. QED
    BY <2>1, Fun_IsInj
<1>2. IsFiniteSet(1 .. C) /\ Cardinality(1 .. C) = C
  <2>1. 1 \in Int /\ C \in Int
    BY <1>0
  <2> HIDE DEF C
  <2>2. Cardinality(1 .. C) = (IF 1 > C THEN 0 ELSE C - 1 + 1) /\ IsFiniteSet(1 .. C)
    BY <2>1, FS_Interval
  <2>3. QED
    BY <1>0, <2>2
<1>3. f \in Surjection(K, 1 .. C)
  BY <1>1, <1>2, FS_Injection
<1>4. \A n \in 1 .. C : \E k \in K : Rank(K, k) = n
  <2>1. \A n \in 1 .. C : \E k \in K : f[k] = n
    <3> HIDE DEF f
    <3>1. QED
      BY <1>3, Fun_SurjectionProperties
  <2>2. QED
    BY <2>1
<1> HIDE DEF f
<1>5. ASSUME NEW n \in 1 .. C
      PROVE  Nth(K, n) \in K /\ Rank(K, Nth(K, n)) = n
  BY <1>4 DEF Nth, Rank
<1>6. ASSUME NEW k \in K
      PROVE  Nth(K, Rank(K, k)) = k
  <2>1. Rank(K, k) \in 1 .. C
    BY RankOrder
  <2>2. Nth(K, Rank(K, k)) \in K /\ Rank(K, Nth(K, Rank(K, k))) = Rank(K, k)
    BY <1>5, <2>1
  <2>3. QED
    BY <2>2, RankOrder
<1>7. QED
  BY <1>5, <1>6

(* Numbers that are moved without changing their order keep their ranks.   *)
Moves(g, K, M) ==
  /\ IsFiniteSet(K) /\ K \subseteq Nat /\ M \subseteq Nat
  /\ g \in [K -> M] /\ \A m \in M : \E k \in K : g[k] = m
  /\ \A j, k \in K : j < k => g[j] < g[k]

LEMMA MovedRanks ==
  ASSUME NEW K, NEW M, NEW g, Moves(g, K, M)
  PROVE  /\ IsFiniteSet(M) /\ Cardinality(M) = Cardinality(K)
         /\ \A n \in 1 .. Cardinality(K) : Nth(K, n) \in K /\ Nth(M, n) = g[Nth(K, n)]
<1> USE DEF Moves
<1>1. \A j, k \in K : j <= k <=> g[j] <= g[k]
  <2> SUFFICES ASSUME NEW j \in K, NEW k \in K
               PROVE  j <= k <=> g[j] <= g[k]
    OBVIOUS
  <2>1. j \in Nat /\ k \in Nat /\ g[j] \in Nat /\ g[k] \in Nat
    OBVIOUS
  <2>2. (j < k => g[j] < g[k]) /\ (k < j => g[k] < g[j]) /\ (j = k => g[j] = g[k])
    OBVIOUS
  <2>3. QED
    BY <2>1, <2>2
<1>2. \A j, k \in K : g[j] = g[k] => j = k
  <2> SUFFICES ASSUME NEW j \in K, NEW k \in K, g[j] = g[k]
               PROVE  j = k
    OBVIOUS
  <2>1. j \in Nat /\ k \in Nat /\ g[j] \in Nat
    OBVIOUS
  <2>2. j <= k /\ k <= j
    BY <1>1, <2>1
  <2>3. QED
    BY <2>1, <2>2
<1>3. g \in Bijection(K, M)
  BY <1>2, Fun_IsBij
<1>4. IsFiniteSet(M) /\ Cardinality(M) = Cardinality(K)
  BY <1>3, FS_Bijection, Fun_ExistsBij
<1>5. ASSUME NEW k \in K
      PROVE  Rank(M, g[k]) = Rank(K, k)
  <2> DEFINE A == {j \in K : j <= k}  B == {m \in M : m <= g[k]}  h == [j \in A |-> g[j]]
  <2>1. h \in [A -> B]
    BY <1>1
  <2>2. \A i, j \in A : h[i] = h[j] => i = j
    BY <1>2
  <2>3. \A m \in B : \E j \in A : h[j] = m
    BY <1>1
  <2>4. h \in Bijection(A, B)
    BY <2>1, <2>2, <2>3, Fun_IsBij
  <2>5. IsFiniteSet(A)
    BY FS_Subset
  <2> HIDE DEF A, B, h
  <2>6. Cardinality(B) = Cardinality(A)
    BY <2>4, <2>5, FS_Bijection, Fun_ExistsBij
  <2>7. QED
    BY <2>6 DEF A, B, Rank
<1>6. ASSUME NEW n \in 1 .. Cardinality(K)
      PROVE  Nth(K, n) \in K /\ Nth(M, n) = g[Nth(K, n)]
  <2>1. Nth(K, n) \in K /\ Rank(K, Nth(K, n)) = n
    BY NthOfRank
  <2>2. g[Nth(K, n)] \in M /\ Rank(M, g[Nth(K, n)]) = n
    BY <1>5, <2>1
  <2>3. Nth(M, Rank(M, g[Nth(K, n)])) = g[Nth(K, n)]
    BY <1>4, <2>2, NthOfRank
  <2>4. QED
    BY <2>1, <2>2, <2>3
<1>7. QED
  BY <1>4, <1>6

(* The first leaves: the others move up.                                   *)
LEMMA WithoutFirst ==
  ASSUME NEW K, IsFiniteSet(K), K \subseteq Nat, NEW f \in K, \A k \in K : f <= k
  PROVE  /\ IsFiniteSet(K \ {f}) /\ Cardinality(K \ {f}) = Cardinality(K) - 1
         /\ Cardinality(K) \in Nat \ {0} /\ Nth(K, 1) = f
         /\ \A n \in 1 .. Cardinality(K) - 1 : Nth(K \ {f}, n) = Nth(K, n + 1)
<1> DEFINE M == K \ {f}  C == Cardinality(K)
<1>1. IsFiniteSet(M) /\ Cardinality(M) = C - 1 /\ C \in Nat /\ C # 0
  BY FS_RemoveElement, FS_CardinalityType, FS_EmptySet
<1>2. Rank(K, f) = 1
  <2>1. \A j \in K : j <= f <=> j = f
    <3> SUFFICES ASSUME NEW j \in K PROVE j <= f <=> j = f
      OBVIOUS
    <3>1. j \in Nat /\ f \in Nat /\ f <= j
      OBVIOUS
    <3>2. QED
      BY <3>1
  <2>2. {j \in K : j <= f} = {f}
    BY <2>1
  <2>3. QED
    BY <2>2, FS_Singleton DEF Rank
<1>3. Nth(K, 1) = f
  BY <1>2, NthOfRank
<1>4. \A k \in M : Rank(K, k) = Rank(M, k) + 1
  <2> SUFFICES ASSUME NEW k \in M
               PROVE  Rank(K, k) = Rank(M, k) + 1
    OBVIOUS
  <2> DEFINE A == {j \in K : j <= k}  B == {j \in M : j <= k}
  <2>1. f \in A /\ B = A \ {f}
    OBVIOUS
  <2>2. IsFiniteSet(A)
    BY FS_Subset
  <2> HIDE DEF A, B
  <2>3. Cardinality(B) = Cardinality(A) - 1 /\ Cardinality(A) \in Nat
    BY <2>1, <2>2, FS_RemoveElement, FS_CardinalityType
  <2>4. QED
    BY <2>3 DEF A, B, Rank
<1>5. ASSUME NEW n \in 1 .. C - 1
      PROVE  Nth(M, n) = Nth(K, n + 1)
  <2>1. Nth(M, n) \in M /\ Rank(M, Nth(M, n)) = n
    BY <1>1, NthOfRank
  <2>2. Nth(M, n) \in K /\ Rank(K, Nth(M, n)) = n + 1
    BY <1>4, <2>1
  <2>3. QED
    BY <2>2, NthOfRank
<1> HIDE DEF M, C
<1>6. QED
  BY <1>1, <1>3, <1>5 DEF M, C

(* A new last one.                                                         *)
LEMMA WithLast ==
  ASSUME NEW K, IsFiniteSet(K), K \subseteq Nat, NEW l \in Nat, \A k \in K : k < l
  PROVE  /\ IsFiniteSet(K \cup {l}) /\ Cardinality(K \cup {l}) = Cardinality(K) + 1
         /\ Cardinality(K) \in Nat /\ Nth(K \cup {l}, Cardinality(K) + 1) = l
         /\ \A n \in 1 .. Cardinality(K) : Nth(K, n) \in K /\ Nth(K \cup {l}, n) = Nth(K, n)
<1> DEFINE M == K \cup {l}  C == Cardinality(K)
<1>0. l \notin K
  OBVIOUS
<1>1. IsFiniteSet(M) /\ Cardinality(M) = C + 1 /\ C \in Nat /\ M \subseteq Nat
  BY <1>0, FS_AddElement, FS_CardinalityType
<1>2. Rank(M, l) = C + 1
  <2>1. {j \in M : j <= l} = M
    <3>1. \A j \in M : j <= l
      <4> SUFFICES ASSUME NEW j \in M PROVE j <= l
        OBVIOUS
      <4>1. j \in Nat /\ l \in Nat /\ (j = l \/ j < l)
        OBVIOUS
      <4>2. QED
        BY <4>1
    <3>2. QED
      BY <3>1
  <2>2. QED
    BY <1>1, <2>1 DEF Rank
<1>3. Nth(M, C + 1) = l
  <2>1. l \in M
    OBVIOUS
  <2> HIDE DEF M, C
  <2>2. QED
    BY <1>1, <1>2, <2>1, NthOfRank
<1>4. \A k \in K : Rank(M, k) = Rank(K, k)
  <2>1. \A k \in K : {j \in M : j <= k} = {j \in K : j <= k}
    OBVIOUS
  <2>2. QED
    BY <2>1 DEF Rank
<1>5. ASSUME NEW n \in 1 .. C
      PROVE  Nth(K, n) \in K /\ Nth(M, n) = Nth(K, n)
  <2>1. Nth(K, n) \in K /\ Rank(K, Nth(K, n)) = n
    BY NthOfRank
  <2>2. Nth(K, n) \in M /\ Rank(M, Nth(K, n)) = n
    BY <1>4, <2>1
  <2>3. QED
    BY <1>1, <2>1, <2>2, NthOfRank
<1> HIDE DEF M, C
<1>6. QED
  BY <1>1, <1>3, <1>5 DEF M, C

-----------------------------------------------------------------------------
(* The requests the CRB holds for an index, as a queue.                    *)

LineRequest == [addr : Addr, isWrite : BOOLEAN]

(* The positions of an index in the CRB are finitely many numbers.         *)
LEMMA HeldPositions ==
  ASSUME NEW q \in Seq(Packet), NEW i
  PROVE  /\ IsFiniteSet(HeldFor(q, i))
         /\ HeldFor(q, i) \subseteq Nat /\ HeldFor(q, i) \subseteq 1 .. Len(q)
         /\ Cardinality(HeldFor(q, i)) \in Nat /\ Len(q) \in Nat
         /\ \A k \in HeldFor(q, i) : q[k] \in Packet /\ Plain(q[k]) \in LineRequest
         /\ \A n \in 1 .. Cardinality(HeldFor(q, i)) :
              /\ Nth(HeldFor(q, i), n) \in HeldFor(q, i)
              /\ HeldQueue(q, i)[n] = Plain(q[Nth(HeldFor(q, i), n)])
<1>1. Len(q) \in Nat /\ DOMAIN q = 1 .. Len(q) /\ \A k \in 1 .. Len(q) : q[k] \in Packet
  BY LenProperties, ElementOfSeq
<1>2. HeldFor(q, i) \subseteq 1 .. Len(q)
  BY <1>1 DEF HeldFor
<1>3. IsFiniteSet(1 .. Len(q)) /\ 1 .. Len(q) \subseteq Nat
  <2>1. 1 \in Int /\ Len(q) \in Int
    BY <1>1
  <2>2. QED
    BY <2>1, FS_Interval
<1>4. IsFiniteSet(HeldFor(q, i)) /\ Cardinality(HeldFor(q, i)) \in Nat
  BY <1>2, <1>3, FS_Subset, FS_CardinalityType
<1>5. \A k \in HeldFor(q, i) : q[k] \in Packet /\ Plain(q[k]) \in LineRequest
  BY <1>1, <1>2 DEF Plain, Packet, LineRequest
<1>6. \A n \in 1 .. Cardinality(HeldFor(q, i)) : Nth(HeldFor(q, i), n) \in HeldFor(q, i)
  BY <1>2, <1>3, <1>4, NthOfRank
<1>7. \A n \in 1 .. Cardinality(HeldFor(q, i)) :
        HeldQueue(q, i)[n] = Plain(q[Nth(HeldFor(q, i), n)])
  BY DEF HeldQueue
<1>8. QED
  BY <1>1, <1>2, <1>3, <1>4, <1>5, <1>6, <1>7

(* It is a sequence of requests.                                           *)
LEMMA HeldIsQueue ==
  ASSUME NEW q \in Seq(Packet), NEW i
  PROVE  /\ HeldQueue(q, i) \in Seq(LineRequest)
         /\ Len(HeldQueue(q, i)) = Cardinality(HeldFor(q, i))
         /\ HeldFor(q, i) = {} => HeldQueue(q, i) = <<>>
<1> DEFINE C == Cardinality(HeldFor(q, i))
<1>1. C \in Nat /\ HeldQueue(q, i) = [n \in 1 .. C |-> Plain(q[Nth(HeldFor(q, i), n)])]
  BY HeldPositions DEF HeldQueue
<1>2. \A n \in 1 .. C : Plain(q[Nth(HeldFor(q, i), n)]) \in LineRequest
  BY HeldPositions
<1>3. HeldFor(q, i) = {} => C = 0
  BY FS_EmptySet
<1> HIDE DEF C
<1>4. HeldQueue(q, i) \in [1 .. C -> LineRequest]
  BY <1>1, <1>2
<1>5. HeldQueue(q, i) \in Seq(LineRequest)
  BY <1>1, <1>4, SeqDef
<1>6. Len(HeldQueue(q, i)) = C
  <2>1. DOMAIN HeldQueue(q, i) = 1 .. C /\ DOMAIN HeldQueue(q, i) = 1 .. Len(HeldQueue(q, i))
        /\ Len(HeldQueue(q, i)) \in Nat
    BY <1>4, <1>5, LenProperties
  <2>2. QED
    BY <1>1, <2>1
<1>7. C = 0 => HeldQueue(q, i) = <<>>
  BY <1>5, <1>6, EmptySeq
<1>8. QED
  BY <1>3, <1>5, <1>6, <1>7 DEF C

(* Two equal queues.                                                       *)
LEMMA EqualQueues ==
  ASSUME NEW s \in Seq(LineRequest), NEW t \in Seq(LineRequest), Len(s) = Len(t),
         \A n \in 1 .. Len(s) : s[n] = t[n]
  PROVE  s = t
BY SeqEqual

(* A request is held back: it queues up behind those of its index.         *)
LEMMA HeldBack ==
  ASSUME crb \in Seq(Packet), NEW p \in Packet, crb' = Append(crb, p), NEW i
  PROVE  HeldQueue(crb', i) = IF returnIndexDC(p.addr) = i THEN Append(HeldQueue(crb, i), Plain(p))
                                                      ELSE HeldQueue(crb, i)
<1> DEFINE K == HeldFor(crb, i)  M == HeldFor(crb', i)  l == Len(crb) + 1  C == Cardinality(K)
<1>1. /\ crb' \in Seq(Packet) /\ Len(crb') = l /\ Len(crb) \in Nat /\ crb'[l] = p
      /\ \A k \in 1 .. Len(crb) : crb'[k] = crb[k]
      /\ DOMAIN crb = 1 .. Len(crb) /\ DOMAIN crb' = 1 .. l
  BY AppendProperties, LenProperties
<1>2. \A k : k \in 1 .. l <=> k \in 1 .. Len(crb) \/ k = l
  BY <1>1
<1>3. /\ IsFiniteSet(K) /\ K \subseteq Nat /\ K \subseteq 1 .. Len(crb) /\ C \in Nat
      /\ \A n \in 1 .. C : Nth(K, n) \in K /\ HeldQueue(crb, i)[n] = Plain(crb[Nth(K, n)])
      /\ HeldQueue(crb, i) \in Seq(LineRequest) /\ Len(HeldQueue(crb, i)) = C
  BY HeldPositions, HeldIsQueue
<1>4. /\ \A n \in 1 .. Cardinality(M) : HeldQueue(crb', i)[n] = Plain(crb'[Nth(M, n)])
      /\ HeldQueue(crb', i) \in Seq(LineRequest) /\ Len(HeldQueue(crb', i)) = Cardinality(M)
  BY <1>1, HeldPositions, HeldIsQueue
<1>5. M = IF returnIndexDC(p.addr) = i THEN K \cup {l} ELSE K
  BY <1>1, <1>2 DEF HeldFor
<1>6. CASE returnIndexDC(p.addr) = i
  <2> DEFINE q == Append(HeldQueue(crb, i), Plain(p))
  <2>0. Plain(p) \in LineRequest /\ M = K \cup {l}
    BY <1>5, <1>6 DEF Plain, Packet, LineRequest
  <2>1. /\ q \in Seq(LineRequest) /\ Len(q) = C + 1 /\ q[C + 1] = Plain(p)
        /\ \A n \in 1 .. C : q[n] = HeldQueue(crb, i)[n]
    BY <1>3, <2>0, AppendProperties
  <2>2. l \in Nat /\ \A k \in K : k < l
    BY <1>1, <1>3
  <2> HIDE DEF q, l, K, M, C
  <2>3. /\ Cardinality(M) = C + 1 /\ Nth(M, C + 1) = l
        /\ \A n \in 1 .. C : Nth(M, n) = Nth(K, n)
    BY <1>3, <2>0, <2>2, WithLast DEF C
  <2>4. HeldQueue(crb', i)[C + 1] = Plain(p)
    <3>1. C + 1 \in 1 .. Cardinality(M)
      BY <1>3, <2>3
    <3>2. QED
      BY <1>1, <1>4, <2>3, <3>1
  <2>5. \A n \in 1 .. C : HeldQueue(crb', i)[n] = q[n]
    <3> SUFFICES ASSUME NEW n \in 1 .. C
                 PROVE  HeldQueue(crb', i)[n] = q[n]
      OBVIOUS
    <3>1. n \in 1 .. Cardinality(M)
      BY <1>3, <2>3
    <3>2. HeldQueue(crb', i)[n] = Plain(crb'[Nth(K, n)])
      BY <1>4, <2>3, <3>1
    <3>3. crb'[Nth(K, n)] = crb[Nth(K, n)]
      BY <1>1, <1>3
    <3>4. QED
      BY <1>3, <2>1, <3>2, <3>3
  <2>6. \A n \in 1 .. C + 1 : n \in 1 .. C \/ n = C + 1
    BY <1>3
  <2>7. HeldQueue(crb', i) = q
    BY <1>4, <2>1, <2>3, <2>4, <2>5, <2>6, EqualQueues
  <2>8. QED
    BY <1>6, <2>7 DEF q
<1>7. CASE returnIndexDC(p.addr) # i
  <2>1. M = K
    BY <1>5, <1>7
  <2> HIDE DEF K, M, C
  <2>2. \A n \in 1 .. C : HeldQueue(crb', i)[n] = HeldQueue(crb, i)[n]
    <3> SUFFICES ASSUME NEW n \in 1 .. C
                 PROVE  HeldQueue(crb', i)[n] = HeldQueue(crb, i)[n]
      OBVIOUS
    <3>1. HeldQueue(crb', i)[n] = Plain(crb'[Nth(K, n)])
      BY <1>4, <2>1 DEF C
    <3>2. crb'[Nth(K, n)] = crb[Nth(K, n)]
      BY <1>1, <1>3
    <3>3. QED
      BY <1>3, <3>1, <3>2
  <2>3. HeldQueue(crb', i) = HeldQueue(crb, i)
    BY <1>3, <1>4, <2>1, <2>2, EqualQueues DEF C
  <2>4. QED
    BY <1>7, <2>3
<1>8. QED
  BY <1>6, <1>7

(* The positions behind an erased one move up by one.                      *)
LEMMA ErasedPositions ==
  ASSUME crb \in Seq(Packet), NEW e \in DOMAIN crb, crb' = RemoveAt(crb, e), NEW i
  PROVE  /\ crb' \in Seq(Packet)
         /\ LET K == HeldFor(crb, i) \ {e}  M == HeldFor(crb', i) IN
            /\ Cardinality(M) = Cardinality(K)
            /\ \A n \in 1 .. Cardinality(K) :
                 Nth(K, n) \in K /\ crb'[Nth(M, n)] = crb[Nth(K, n)]
<1> DEFINE K == HeldFor(crb, i) \ {e}  M == HeldFor(crb', i)
           g == [k \in K |-> IF k < e THEN k ELSE k - 1]
<1>1. /\ crb' \in Seq(Packet) /\ Len(crb') = Len(crb) - 1 /\ Len(crb) \in Nat
      /\ DOMAIN crb = 1 .. Len(crb) /\ DOMAIN crb' = 1 .. Len(crb) - 1
      /\ \A j \in 1 .. Len(crb) - 1 : crb'[j] = IF j < e THEN crb[j] ELSE crb[j + 1]
  <2>1. /\ crb' \in Seq(Packet) /\ Len(crb') = Len(crb) - 1
        /\ \A j \in DOMAIN crb' : crb'[j] = IF j < e THEN crb[j] ELSE crb[j + 1]
    BY RemoveAtProperties
  <2>2. DOMAIN crb = 1 .. Len(crb) /\ Len(crb) \in Nat /\ DOMAIN crb' = 1 .. Len(crb')
    BY <2>1, LenProperties
  <2>3. QED
    BY <2>1, <2>2
<1>2. /\ IsFiniteSet(HeldFor(crb, i)) /\ HeldFor(crb, i) \subseteq 1 .. Len(crb)
      /\ HeldFor(crb', i) \subseteq 1 .. Len(crb) - 1
  BY <1>1, HeldPositions
<1>3. IsFiniteSet(K) /\ K \subseteq 1 .. Len(crb) /\ e \notin K /\ e \in 1 .. Len(crb)
  BY <1>1, <1>2, FS_RemoveElement
<1>4. K \subseteq Nat /\ M \subseteq Nat
  BY <1>1, <1>2, <1>3
<1>5. \A k \in K : /\ g[k] \in 1 .. Len(crb) - 1 /\ crb'[g[k]] = crb[k]
  <2> SUFFICES ASSUME NEW k \in K
               PROVE  /\ g[k] \in 1 .. Len(crb) - 1 /\ crb'[g[k]] = crb[k]
    OBVIOUS
  <2>1. g[k] = IF k < e THEN k ELSE k - 1
    OBVIOUS
  <2>2. k \in 1 .. Len(crb) /\ k # e
    BY <1>3
  <2> HIDE DEF K, M, g
  <2>3. g[k] \in 1 .. Len(crb) - 1 /\ (g[k] < e => g[k] = k) /\ (~(g[k] < e) => g[k] + 1 = k)
    BY <1>1, <1>3, <2>1, <2>2
  <2>4. QED
    BY <1>1, <2>3
<1>6. g \in [K -> M]
  <2>1. \A k \in K : g[k] \in M
    BY <1>1, <1>5 DEF HeldFor
  <2>2. QED
    BY <2>1
<1>7. \A m \in M : \E k \in K : g[k] = m
  <2> SUFFICES ASSUME NEW m \in M
               PROVE  \E k \in K : g[k] = m
    OBVIOUS
  <2> DEFINE k == IF m < e THEN m ELSE m + 1
  <2>1. m \in 1 .. Len(crb) - 1
    BY <1>2
  <2>2. k \in 1 .. Len(crb) /\ k # e /\ m = (IF k < e THEN k ELSE k - 1)
    BY <1>1, <1>3, <2>1
  <2>3. crb'[m] = crb[k]
    BY <1>1, <2>1
  <2>4. k \in K
    <3>1. returnIndexDC(crb'[m].addr) = i
      BY DEF HeldFor
    <3>2. QED
      BY <1>1, <2>2, <2>3, <3>1 DEF HeldFor
  <2> HIDE DEF k
  <2>5. g[k] = m
    BY <2>2, <2>4
  <2>6. QED
    BY <2>4, <2>5
<1>8. \A j, k \in K : j < k => g[j] < g[k]
  <2> SUFFICES ASSUME NEW j \in K, NEW k \in K, j < k
               PROVE  g[j] < g[k]
    OBVIOUS
  <2>1. j \in Nat /\ k \in Nat /\ e \in Nat /\ j # e /\ k # e
    BY <1>3, <1>4
  <2>2. g[j] = (IF j < e THEN j ELSE j - 1) /\ g[k] = (IF k < e THEN k ELSE k - 1)
    OBVIOUS
  <2> HIDE DEF g, K
  <2>3. QED
    BY <2>1, <2>2
<1> HIDE DEF K, M, g
<1>9. /\ Cardinality(M) = Cardinality(K)
      /\ \A n \in 1 .. Cardinality(K) : Nth(K, n) \in K /\ Nth(M, n) = g[Nth(K, n)]
  <2>1. Moves(g, K, M)
    BY <1>3, <1>4, <1>6, <1>7, <1>8 DEF Moves
  <2>2. QED
    BY <2>1, MovedRanks
<1>10. \A n \in 1 .. Cardinality(K) : Nth(K, n) \in K /\ crb'[Nth(M, n)] = crb[Nth(K, n)]
  BY <1>5, <1>9
<1>11. QED
  BY <1>1, <1>9, <1>10 DEF K, M

(* A request leaves the CRB: the oldest of its index, so that the queue of *)
(* that index loses its head, and the queues of the others stay.           *)
LEMMA HeldPromoted ==
  ASSUME crb \in Seq(Packet), NEW e \in DOMAIN crb, crb' = RemoveAt(crb, e), NEW i,
         \A k \in HeldFor(crb, returnIndexDC(crb[e].addr)) : e <= k
  PROVE  IF returnIndexDC(crb[e].addr) = i
         THEN /\ HeldQueue(crb, i) # <<>> /\ Head(HeldQueue(crb, i)) = Plain(crb[e])
              /\ HeldQueue(crb', i) = Tail(HeldQueue(crb, i))
         ELSE HeldQueue(crb', i) = HeldQueue(crb, i)
<1> DEFINE K == HeldFor(crb, i)  L == HeldFor(crb, i) \ {e}  M == HeldFor(crb', i)
           C == Cardinality(K)
<1>1. /\ crb' \in Seq(Packet) /\ Cardinality(M) = Cardinality(L)
      /\ \A n \in 1 .. Cardinality(L) : Nth(L, n) \in L /\ crb'[Nth(M, n)] = crb[Nth(L, n)]
  BY ErasedPositions
<1>2. /\ IsFiniteSet(K) /\ K \subseteq Nat /\ C \in Nat
      /\ \A n \in 1 .. C : Nth(K, n) \in K /\ HeldQueue(crb, i)[n] = Plain(crb[Nth(K, n)])
      /\ HeldQueue(crb, i) \in Seq(LineRequest) /\ Len(HeldQueue(crb, i)) = C
  BY HeldPositions, HeldIsQueue
<1>3. /\ \A n \in 1 .. Cardinality(M) : HeldQueue(crb', i)[n] = Plain(crb'[Nth(M, n)])
      /\ HeldQueue(crb', i) \in Seq(LineRequest) /\ Len(HeldQueue(crb', i)) = Cardinality(M)
  BY <1>1, HeldPositions, HeldIsQueue
<1>4. \A n \in 1 .. Cardinality(L) : HeldQueue(crb', i)[n] = Plain(crb[Nth(L, n)])
  BY <1>1, <1>3
<1>5. CASE returnIndexDC(crb[e].addr) = i
  <2> DEFINE q == HeldQueue(crb, i)
  <2>1. e \in K /\ \A k \in K : e <= k
    BY <1>5 DEF HeldFor
  <2> HIDE DEF K, M
  <2>2. /\ Cardinality(L) = C - 1 /\ C # 0 /\ Nth(K, 1) = e
        /\ \A n \in 1 .. C - 1 : Nth(L, n) = Nth(K, n + 1)
    BY <1>2, <2>1, WithoutFirst DEF K
  <2> HIDE DEF L, C
  <2>3. q # <<>> /\ q[1] = Plain(crb[e])
    <3>1. 1 \in 1 .. C
      BY <1>2, <2>2
    <3>2. Len(<<>>) = 0
      OBVIOUS
    <3>3. QED
      BY <1>2, <2>2, <3>1, <3>2
  <2> HIDE DEF q
  <2>4. /\ Tail(q) \in Seq(LineRequest) /\ Len(Tail(q)) = C - 1 /\ Head(q) = q[1]
        /\ \A n \in 1 .. C - 1 : Tail(q)[n] = q[n + 1]
    BY <1>2, <2>3, HeadTailProperties DEF q
  <2>5. ASSUME NEW n \in 1 .. C - 1
        PROVE  HeldQueue(crb', i)[n] = Tail(q)[n]
    <3>1. n + 1 \in 1 .. C /\ n \in 1 .. Cardinality(L)
      BY <1>2, <2>2
    <3>2. HeldQueue(crb', i)[n] = Plain(crb[Nth(K, n + 1)])
      BY <1>4, <2>2, <3>1
    <3>3. q[n + 1] = Plain(crb[Nth(K, n + 1)])
      BY <1>2, <3>1 DEF q
    <3>4. QED
      BY <2>4, <3>2, <3>3
  <2>6. HeldQueue(crb', i) = Tail(q)
    BY <1>1, <1>3, <2>2, <2>4, <2>5, EqualQueues
  <2>7. QED
    BY <1>5, <2>3, <2>4, <2>6 DEF q
<1>6. CASE returnIndexDC(crb[e].addr) # i
  <2>1. L = K
    BY <1>6 DEF HeldFor
  <2> HIDE DEF L, K, M, C
  <2>2. \A n \in 1 .. C : HeldQueue(crb', i)[n] = HeldQueue(crb, i)[n]
    BY <1>2, <1>4, <2>1 DEF C
  <2>3. HeldQueue(crb', i) = HeldQueue(crb, i)
    BY <1>1, <1>2, <1>3, <2>1, <2>2, EqualQueues DEF C
  <2>4. QED
    BY <1>6, <2>3
<1>7. QED
  BY <1>5, <1>6

-----------------------------------------------------------------------------
(* The queue of an index: its owner, then those held back.                 *)

OwnersOf(o, i) == {[addr |-> a, isWrite |-> o[a].isWrite] :
                     a \in {b \in Addr : o[b].state # "none" /\ returnIndexDC(b) = i}}
QueueOf(o, q, i) == SetToSeq(OwnersOf(o, i)) \o HeldQueue(q, i)

(* A set of none and a set of one as a sequence.                           *)
LEMMA SeqOfSet == SetToSeq({}) = <<>> /\ \A x : SetToSeq({x}) = <<x>>
<1>1. SetToSeq({}) = <<>>
  <2>1. Cardinality({}) = 0 /\ 1 .. 0 = {}
    BY FS_EmptySet
  <2>2. SetToSeq({}) = CHOOSE f \in [{} -> {}] : IsInjective(f)
    BY <2>1 DEF SetToSeq
  <2>3. [i \in {} |-> i] \in [{} -> {}] /\ IsInjective([i \in {} |-> i])
    BY DEF IsInjective
  <2>4. SetToSeq({}) \in [{} -> {}]
    BY <2>2, <2>3
  <2>5. SetToSeq({}) \in [1 .. 0 -> {}]
    BY <2>1, <2>4
  <2>6. SetToSeq({}) \in Seq({}) /\ DOMAIN SetToSeq({}) = {}
    BY <2>4, <2>5, SeqDef
  <2>7. QED
    BY <2>6, EmptySeq, LenProperties
<1>2. ASSUME NEW x
      PROVE  SetToSeq({x}) = <<x>>
  <2> DEFINE s == SetToSeq({x})
  <2>1. Cardinality({x}) = 1 /\ 1 .. 1 = {1}
    BY FS_Singleton
  <2>2. s = CHOOSE f \in [{1} -> {x}] : IsInjective(f)
    BY <2>1 DEF SetToSeq
  <2>3. [i \in {1} |-> x] \in [{1} -> {x}] /\ IsInjective([i \in {1} |-> x])
    BY DEF IsInjective
  <2> HIDE DEF s
  <2>4. s \in [{1} -> {x}]
    BY <2>2, <2>3
  <2>5. s \in [1 .. 1 -> {x}] /\ s[1] = x
    BY <2>1, <2>4
  <2>6. s \in Seq({x}) /\ Len(s) = 1
    <3>1. s \in Seq({x})
      <4>1. PICK n \in Nat : n = 1
        OBVIOUS
      <4>2. s \in [1 .. n -> {x}]
        BY <2>5, <4>1
      <4>3. QED
        BY <4>2, SeqDef
    <3>2. DOMAIN s = {1} /\ DOMAIN s = 1 .. Len(s) /\ Len(s) \in Nat
      BY <2>4, <3>1, LenProperties
    <3>3. Len(s) = 1
      BY <3>2
    <3>4. QED
      BY <3>1, <3>3
  <2>7. <<x>> \in Seq({x}) /\ Len(<<x>>) = 1 /\ <<x>>[1] = x
    OBVIOUS
  <2>8. s = <<x>>
    BY <2>1, <2>5, <2>6, <2>7, SeqEqual
  <2>9. QED
    BY <2>8 DEF s
<1>3. QED
  BY <1>1, <1>2

(* Put in front of a queue.                                                *)
LEMMA InFront ==
  ASSUME NEW q \in Seq(LineRequest), NEW x \in LineRequest
  PROVE  /\ <<>> \o q = q
         /\ <<x>> \o q # <<>> /\ Head(<<x>> \o q) = x /\ Tail(<<x>> \o q) = q
         /\ \A r \in LineRequest : Append(<<x>> \o q, r) = <<x>> \o Append(q, r)
<1> DEFINE t == <<x>> \o q
<1>1. Len(q) \in Nat
  BY LenProperties
<1>2. <<>> \o q = q
  <2> DEFINE e == <<>>
  <2>1. e \in Seq(LineRequest) /\ Len(e) = 0
    OBVIOUS
  <2> HIDE DEF e
  <2>2. /\ e \o q \in Seq(LineRequest) /\ Len(e \o q) = Len(q)
        /\ \A n \in 1 .. Len(q) : (e \o q)[n] = q[n]
    <3>1. /\ e \o q \in Seq(LineRequest) /\ Len(e \o q) = Len(e) + Len(q)
          /\ \A n \in 1 .. Len(e) + Len(q) :
               (e \o q)[n] = IF n <= Len(e) THEN e[n] ELSE q[n - Len(e)]
      BY <2>1, ConcatProperties
    <3>2. Len(e) + Len(q) = Len(q) /\ \A n \in 1 .. Len(q) : ~(n <= Len(e)) /\ n - Len(e) = n
      BY <1>1, <2>1
    <3>3. QED
      BY <3>1, <3>2
  <2>3. e \o q = q
    BY <2>2, EqualQueues
  <2>4. QED
    BY <2>3 DEF e
<1>3. ASSUME NEW s \in Seq(LineRequest)
      PROVE  /\ <<x>> \o s \in Seq(LineRequest) /\ Len(<<x>> \o s) = Len(s) + 1
             /\ (<<x>> \o s)[1] = x /\ \A n \in 1 .. Len(s) : (<<x>> \o s)[n + 1] = s[n]
  <2> DEFINE e == <<x>>
  <2>1. e \in Seq(LineRequest) /\ Len(e) = 1 /\ e[1] = x
    OBVIOUS
  <2>2. Len(s) \in Nat
    BY LenProperties
  <2> HIDE DEF e
  <2>3. /\ e \o s \in Seq(LineRequest) /\ Len(e \o s) = Len(e) + Len(s)
        /\ \A n \in 1 .. Len(e) + Len(s) :
             (e \o s)[n] = IF n <= Len(e) THEN e[n] ELSE s[n - Len(e)]
    BY <2>1, ConcatProperties
  <2>4. Len(e \o s) = Len(s) + 1
    BY <2>1, <2>2, <2>3
  <2>5. (e \o s)[1] = x
    BY <2>1, <2>2, <2>3
  <2>6. ASSUME NEW n \in 1 .. Len(s)
        PROVE  (e \o s)[n + 1] = s[n]
    <3>1. n + 1 \in 1 .. Len(e) + Len(s) /\ ~(n + 1 <= Len(e)) /\ n + 1 - Len(e) = n
      BY <2>1, <2>2
    <3>2. QED
      BY <2>3, <3>1
  <2>7. QED
    BY <2>3, <2>4, <2>5, <2>6 DEF e
<1>4. /\ t \in Seq(LineRequest) /\ Len(t) = Len(q) + 1 /\ t[1] = x
      /\ \A n \in 1 .. Len(q) : t[n + 1] = q[n]
  BY <1>3
<1>5. ASSUME NEW r \in LineRequest
      PROVE  Append(t, r) = <<x>> \o Append(q, r)
  <2> DEFINE u == <<x>> \o Append(q, r)  v == Append(t, r)  aq == Append(q, r)
  <2>1. /\ aq \in Seq(LineRequest) /\ Len(aq) = Len(q) + 1 /\ aq[Len(q) + 1] = r
        /\ \A n \in 1 .. Len(q) : aq[n] = q[n]
    BY AppendProperties
  <2>2. /\ u \in Seq(LineRequest) /\ Len(u) = Len(aq) + 1
        /\ u[1] = x /\ \A n \in 1 .. Len(aq) : u[n + 1] = aq[n]
    BY <1>3, <2>1
  <2> HIDE DEF t, u, aq
  <2>3. /\ v \in Seq(LineRequest) /\ Len(v) = Len(t) + 1 /\ v[Len(t) + 1] = r
        /\ \A n \in 1 .. Len(t) : v[n] = t[n]
    BY <1>4, AppendProperties
  <2> HIDE DEF v
  <2>4. ASSUME NEW n \in 1 .. Len(q) + 2
        PROVE  u[n] = v[n]
    <3>1. CASE n = 1
      BY <1>1, <1>4, <2>2, <2>3, <3>1
    <3>2. CASE n \in 2 .. Len(q) + 1
      <4>1. n - 1 \in 1 .. Len(q) /\ n - 1 \in 1 .. Len(aq) /\ n - 1 + 1 = n /\ n \in 1 .. Len(t)
        BY <1>1, <1>4, <2>1, <3>2
      <4>2. u[n] = aq[n - 1] /\ aq[n - 1] = q[n - 1]
        BY <2>1, <2>2, <4>1
      <4>3. v[n] = t[n] /\ t[n] = q[n - 1]
        BY <1>4, <2>3, <4>1
      <4>4. QED
        BY <4>2, <4>3
    <3>3. CASE n = Len(q) + 2
      <4>1. Len(q) + 1 \in 1 .. Len(aq) /\ Len(q) + 1 + 1 = n /\ Len(t) + 1 = n
        BY <1>1, <1>4, <2>1, <3>3
      <4>2. u[n] = aq[Len(q) + 1] /\ v[n] = r
        BY <2>2, <2>3, <4>1
      <4>3. QED
        BY <2>1, <4>2
    <3>4. QED
      BY <1>1, <3>1, <3>2, <3>3
  <2>5. Len(u) = Len(q) + 2 /\ Len(v) = Len(q) + 2
    BY <1>1, <1>4, <2>1, <2>2, <2>3
  <2>6. u = v
    BY <2>2, <2>3, <2>4, <2>5, EqualQueues
  <2>7. QED
    BY <2>6 DEF u, v
<1> HIDE DEF t
<1>6. t # <<>> /\ Head(t) = x
  <2>1. t # <<>>
    <3>1. Len(<<>>) = 0
      OBVIOUS
    <3>2. QED
      BY <1>1, <1>4, <3>1
  <2>2. QED
    BY <1>4, <2>1
<1>7. Tail(t) = q
  <2>1. /\ Tail(t) \in Seq(LineRequest) /\ Len(Tail(t)) = Len(t) - 1
        /\ \A n \in 1 .. Len(Tail(t)) : Tail(t)[n] = t[n + 1]
    BY <1>4, <1>6, HeadTailProperties
  <2>2. Len(Tail(t)) = Len(q)
    BY <1>1, <1>4, <2>1
  <2>3. QED
    BY <1>4, <2>1, <2>2, EqualQueues
<1>8. QED
  BY <1>2, <1>5, <1>6, <1>7 DEF t

(* A queue is its head in front of its tail.                               *)
LEMMA HeadTailRebuilt ==
  ASSUME NEW s \in Seq(LineRequest), s # <<>>
  PROVE  <<Head(s)>> \o Tail(s) = s
<1> DEFINE x == Head(s)  q == Tail(s)  e == <<x>>
<1>1. /\ x \in LineRequest /\ q \in Seq(LineRequest) /\ Len(q) = Len(s) - 1 /\ x = s[1]
      /\ \A n \in 1 .. Len(q) : q[n] = s[n + 1]
  BY HeadTailProperties
<1>2. Len(s) \in Nat /\ Len(s) # 0
  BY LenProperties, EmptySeq
<1>3. e \in Seq(LineRequest) /\ Len(e) = 1 /\ e[1] = x
  BY <1>1
<1> HIDE DEF x, q, e
<1>4. /\ e \o q \in Seq(LineRequest) /\ Len(e \o q) = Len(e) + Len(q)
      /\ \A n \in 1 .. Len(e) + Len(q) :
           (e \o q)[n] = IF n <= Len(e) THEN e[n] ELSE q[n - Len(e)]
  <2>1. q \in Seq(LineRequest) /\ e \in Seq(LineRequest)
    BY <1>1, <1>3
  <2>2. QED
    BY <2>1, ConcatProperties
<1>5. Len(e \o q) = Len(s) /\ Len(e) + Len(q) = Len(s)
  BY <1>1, <1>2, <1>3, <1>4
<1>6. ASSUME NEW n \in 1 .. Len(s)
      PROVE  (e \o q)[n] = s[n]
  <2>1. CASE n = 1
    <3>1. n <= Len(e) /\ n \in 1 .. Len(e) + Len(q)
      BY <1>2, <1>3, <1>5, <2>1
    <3>2. QED
      BY <1>1, <1>3, <1>4, <2>1, <3>1
  <2>2. CASE n # 1
    <3>1. ~(n <= Len(e)) /\ n \in 1 .. Len(e) + Len(q) /\ n - Len(e) \in 1 .. Len(q)
          /\ n - Len(e) + 1 = n
      BY <1>1, <1>2, <1>3, <1>5, <2>2
    <3>2. q[n - Len(e)] = s[n - Len(e) + 1]
      BY <1>1, <3>1
    <3>3. QED
      BY <1>4, <3>1, <3>2
  <2>3. QED
    BY <2>1, <2>2
<1>7. e \o q = s
  BY <1>4, <1>5, <1>6, EqualQueues
<1>8. QED
  BY <1>7 DEF x, q, e

(* The queue of an index nobody owns.                                      *)
LEMMA FreeQueue ==
  ASSUME NEW o, NEW q \in Seq(Packet), NEW i,
         \A a \in Addr : o[a].state # "none" => returnIndexDC(a) # i
  PROVE  QueueOf(o, q, i) = HeldQueue(q, i)
<1>1. OwnersOf(o, i) = {}
  BY DEF OwnersOf
<1>2. HeldQueue(q, i) \in Seq(LineRequest)
  BY HeldIsQueue
<1>3. <<>> \o HeldQueue(q, i) = HeldQueue(q, i)
  <2>1. CASE LineRequest = {}
    <3>1. HeldQueue(q, i) = <<>>
      BY <1>2, <2>1, EmptySeq, ElementOfSeq, LenProperties
    <3>2. QED
      BY <3>1
  <2>2. CASE LineRequest # {}
    BY <1>2, <2>2, InFront
  <2>3. QED
    BY <2>1, <2>2
<1>4. QED
  BY <1>1, <1>3, SeqOfSet DEF QueueOf

(* The queue of an index that a owns.                                      *)
LEMMA OwnedQueue ==
  ASSUME NEW o, NEW q \in Seq(Packet), NEW i, NEW a \in Addr,
         o[a].state # "none", returnIndexDC(a) = i, o[a].isWrite \in BOOLEAN,
         \A b \in Addr : o[b].state # "none" /\ returnIndexDC(b) = i => b = a
  PROVE  LET r == [addr |-> a, isWrite |-> o[a].isWrite] IN
         /\ QueueOf(o, q, i) = <<r>> \o HeldQueue(q, i)
         /\ QueueOf(o, q, i) # <<>>
         /\ Head(QueueOf(o, q, i)) = r /\ Tail(QueueOf(o, q, i)) = HeldQueue(q, i)
         /\ \A x \in LineRequest : Append(QueueOf(o, q, i), x) = <<r>> \o Append(HeldQueue(q, i), x)
<1> DEFINE r == [addr |-> a, isWrite |-> o[a].isWrite]
<1>1. OwnersOf(o, i) = {r}
  <2>1. {b \in Addr : o[b].state # "none" /\ returnIndexDC(b) = i} = {a}
    OBVIOUS
  <2>2. QED
    BY <2>1 DEF OwnersOf
<1>2. r \in LineRequest
  BY DEF LineRequest
<1> HIDE DEF r
<1>3. QueueOf(o, q, i) = <<r>> \o HeldQueue(q, i)
  BY <1>1, SeqOfSet DEF QueueOf
<1>4. HeldQueue(q, i) \in Seq(LineRequest)
  BY HeldIsQueue
<1>5. QED
  BY <1>2, <1>3, <1>4, InFront DEF r

-----------------------------------------------------------------------------
(* What a step does to the queues of the indices.                          *)

(* The queues as functions of the ORB and the CRB, before and after.       *)
LEMMA QueueIs ==
  /\ \A i : LineQueue(i) = QueueOf(orb, crb, i)
  /\ \A i : LineQueue(i)' = QueueOf(orb', crb', i)
<1>1. \A i : LineQueue(i) = QueueOf(orb, crb, i)
  BY DEF LineQueue, QueueOf, Owners, OwnersOf, Admitted, InOrb
<1>2. \A i : LineQueue(i)' = QueueOf(orb', crb', i)
  BY DEF LineQueue, QueueOf, Owners, OwnersOf, Admitted, InOrb
<1>3. QED
  BY <1>1, <1>2

(* The owner of an index, its only one, is at the head of its queue.       *)
LEMMA OwnerFirst ==
  ASSUME TypeInv, IndexInv, NEW a \in Addr, InOrb(a)
  PROVE  LET i == returnIndexDC(a)  r == [addr |-> a, isWrite |-> orb[a].isWrite] IN
         /\ i \in Indices /\ r \in LineRequest
         /\ LineQueue(i) = <<r>> \o HeldQueue(crb, i)
         /\ LineQueue(i) # <<>>
         /\ Head(LineQueue(i)) = r /\ Tail(LineQueue(i)) = HeldQueue(crb, i)
         /\ \A x \in LineRequest : Append(LineQueue(i), x) = <<r>> \o Append(HeldQueue(crb, i), x)
<1> DEFINE i == returnIndexDC(a)  r == [addr |-> a, isWrite |-> orb[a].isWrite]
<1>1. orb \in [Addr -> OrbEntry] /\ crb \in Seq(Packet)
  BY DEF TypeInv, TypeOK
<1>2. orb[a].isWrite \in BOOLEAN /\ orb[a].state # "none"
  BY <1>1 DEF OrbEntry, InOrb
<1>3. \A b \in Addr : orb[b].state # "none" /\ returnIndexDC(b) = i => b = a
  BY DEF IndexInv, OneRequestPerIndex, Admitted, InOrb
<1>4. i \in Indices /\ r \in LineRequest
  BY <1>2, IndexType DEF LineRequest
<1>5. LineQueue(i) = QueueOf(orb, crb, i)
  BY QueueIs
<1>6. /\ QueueOf(orb, crb, i) = <<r>> \o HeldQueue(crb, i)
      /\ QueueOf(orb, crb, i) # <<>>
      /\ Head(QueueOf(orb, crb, i)) = r /\ Tail(QueueOf(orb, crb, i)) = HeldQueue(crb, i)
      /\ \A x \in LineRequest :
           Append(QueueOf(orb, crb, i), x) = <<r>> \o Append(HeldQueue(crb, i), x)
  BY <1>1, <1>2, <1>3, OwnedQueue
<1>7. QED
  BY <1>4, <1>5, <1>6

(* A step that neither admits, ends nor holds back a request.              *)
LEMMA QueuesKept ==
  ASSUME crb' = crb,
         \A a \in Addr : /\ orb'[a].state # "none" <=> orb[a].state # "none"
                         /\ orb[a].state # "none" => orb'[a].isWrite = orb[a].isWrite
  PROVE  LineQueues' = LineQueues
<1>1. \A i : OwnersOf(orb', i) = OwnersOf(orb, i)
  BY DEF OwnersOf
<1>2. \A i : LineQueue(i)' = LineQueue(i)
  BY <1>1, QueueIs DEF QueueOf
<1>3. QED
  BY <1>2 DEF LineQueues

(* A step that only changes the queue of one index.                        *)
LEMMA OneQueueChanged ==
  ASSUME NEW i \in Indices, NEW q, LineQueue(i)' = q,
         \A j \in Indices : j # i => LineQueue(j)' = LineQueue(j)
  PROVE  LineQueues' = [LineQueues EXCEPT ![i] = q]
BY DEF LineQueues

(* Queues of indices whose owners and held requests stay.                  *)
LEMMA OtherQueue ==
  ASSUME NEW i, HeldQueue(crb', i) = HeldQueue(crb, i),
         \A a \in Addr : returnIndexDC(a) = i => orb'[a] = orb[a]
  PROVE  LineQueue(i)' = LineQueue(i)
<1>1. OwnersOf(orb', i) = OwnersOf(orb, i)
  BY DEF OwnersOf
<1>2. QED
  BY <1>1, QueueIs DEF QueueOf

(* completeRequest() takes the head off the queue of the index.            *)
LEMMA CompletedLeaves ==
  ASSUME TypeInv, IndexInv, NEW a \in Addr, NEW d, InOrb(a), completeRequest(a, d), crb' = crb
  PROVE  LineQueues' = [LineQueues EXCEPT ![returnIndexDC(a)] = Tail(LineQueue(returnIndexDC(a)))]
<1> DEFINE i == returnIndexDC(a)
<1>1. i \in Indices /\ Tail(LineQueue(i)) = HeldQueue(crb, i)
  BY OwnerFirst
<1>2. orb \in [Addr -> OrbEntry] /\ crb \in Seq(Packet)
  BY DEF TypeInv, TypeOK
<1>3. orb'[a].state = "none" /\ \A b \in Addr : b # a => orb'[b] = orb[b]
  BY <1>2 DEF completeRequest, NoEntry
<1>4. LineQueue(i)' = HeldQueue(crb, i)
  <2>1. \A b \in Addr : orb'[b].state # "none" => returnIndexDC(b) # i
    BY <1>3 DEF IndexInv, OneRequestPerIndex, Admitted, InOrb
  <2>2. QueueOf(orb', crb', i) = HeldQueue(crb', i)
    BY <1>2, <2>1, FreeQueue
  <2>3. QED
    BY <2>2, QueueIs
<1>5. ASSUME NEW j \in Indices, j # i
      PROVE  LineQueue(j)' = LineQueue(j)
  BY <1>3, <1>5, OtherQueue
<1>6. QED
  BY <1>1, <1>4, <1>5, OneQueueChanged

(* admitRequest() where nobody owns the index.                             *)
LEMMA AdmittedFirst ==
  ASSUME TypeInv, NEW p \in Packet, admitRequest(p), crb' \in Seq(Packet),
         NEW i, i = returnIndexDC(p.addr), ~Busy(i)
  PROVE  /\ i \in Indices /\ Plain(p) \in LineRequest
         /\ LineQueue(i) = HeldQueue(crb, i)
         /\ LineQueue(i)' = <<Plain(p)>> \o HeldQueue(crb', i)
         /\ \A a \in Addr : returnIndexDC(a) # i => orb'[a] = orb[a]
<1> DEFINE x == p.addr
<1>1. x \in Addr /\ i \in Indices /\ p.isWrite \in BOOLEAN /\ Plain(p) \in LineRequest
  BY IndexType DEF Packet, Plain, LineRequest
<1>2. orb \in [Addr -> OrbEntry] /\ crb \in Seq(Packet)
  BY DEF TypeInv, TypeOK
<1>3. \A a \in Addr : orb[a].state # "none" => returnIndexDC(a) # i
  BY DEF Busy, InOrb
<1>4. /\ orb'[x].state # "none" /\ orb'[x].isWrite = p.isWrite
      /\ \A a \in Addr : a # x => orb'[a] = orb[a]
  <2>1. chooseInitialState(x, p.isWrite) # "none"
    BY InitialStateType DEF ToDrive
  <2>2. QED
    BY <1>1, <1>2, <2>1 DEF admitRequest
<1>5. QueueOf(orb, crb, i) = HeldQueue(crb, i)
  BY <1>2, <1>3, FreeQueue
<1>6. QueueOf(orb', crb', i) = <<[addr |-> x, isWrite |-> orb'[x].isWrite]>> \o HeldQueue(crb', i)
  <2>1. \A b \in Addr : orb'[b].state # "none" /\ returnIndexDC(b) = i => b = x
    BY <1>3, <1>4
  <2>2. orb'[x].isWrite \in BOOLEAN
    BY <1>1, <1>4
  <2>3. QED
    BY <1>1, <1>4, <2>1, <2>2, OwnedQueue
<1>7. \A a \in Addr : returnIndexDC(a) # i => orb'[a] = orb[a]
  BY <1>4
<1>8. QED
  BY <1>1, <1>4, <1>5, <1>6, <1>7, QueueIs DEF Plain

(* promoteFromCRB() moves a request within its queue: from the head of     *)
(* those held back to the place of the owner.                              *)
LEMMA PromotedStays ==
  ASSUME TypeInv, IndexInv, Promote
  PROVE  LineQueues' = LineQueues
<1>1. PICK k \in DOMAIN crb : /\ IsOldest(k, SameIndex(call.addr))
                              /\ crb' = RemoveAt(crb, k) /\ admitRequest(crb[k])
  BY DEF Promote
<1>2. crb \in Seq(Packet) /\ DOMAIN crb = 1 .. Len(crb) /\ crb[k] \in Packet /\ crb' \in Seq(Packet)
  <2>1. crb \in Seq(Packet)
    BY DEF TypeInv, TypeOK
  <2>2. QED
    BY <1>1, <2>1, LenProperties, ElementOfSeq, RemoveAtProperties
<1>3. PICK p \in Packet : p = crb[k]
  BY <1>2
<1>4. PICK i : i = returnIndexDC(p.addr)
  OBVIOUS
<1>5. returnIndexDC(call.addr) = i /\ ~Busy(i) /\ admitRequest(p)
  BY <1>1, <1>3, <1>4 DEF Promote, IsOldest, SameIndex, IndexInv, FreedIndex
<1>6. \A j \in HeldFor(crb, i) : k <= j
  BY <1>1, <1>2, <1>5 DEF IsOldest, SameIndex, HeldFor
<1>7. /\ i \in Indices /\ LineQueue(i) = HeldQueue(crb, i)
      /\ LineQueue(i)' = <<Plain(p)>> \o HeldQueue(crb', i)
      /\ Plain(p) \in LineRequest
      /\ \A a \in Addr : returnIndexDC(a) # i => orb'[a] = orb[a]
  BY <1>2, <1>4, <1>5, AdmittedFirst
<1>8. /\ HeldQueue(crb, i) # <<>> /\ Head(HeldQueue(crb, i)) = Plain(p)
      /\ HeldQueue(crb', i) = Tail(HeldQueue(crb, i))
      /\ \A j : j # i => HeldQueue(crb', j) = HeldQueue(crb, j)
  BY <1>1, <1>2, <1>3, <1>4, <1>6, HeldPromoted
<1>9. LineQueue(i)' = LineQueue(i)
  <2>1. HeldQueue(crb, i) \in Seq(LineRequest)
    BY <1>2, HeldIsQueue
  <2>2. <<Head(HeldQueue(crb, i))>> \o Tail(HeldQueue(crb, i)) = HeldQueue(crb, i)
    BY <1>8, <2>1, HeadTailRebuilt
  <2>3. QED
    BY <1>7, <1>8, <2>2
<1>10. ASSUME NEW j \in Indices, j # i
       PROVE  LineQueue(j)' = LineQueue(j)
  BY <1>7, <1>8, <1>10, OtherQueue
<1>11. \A j \in Indices : LineQueue(j)' = LineQueue(j)
  BY <1>9, <1>10
<1>12. QED
  BY <1>11 DEF LineQueues

(* add_rq() and add_wq() hold a request back: it queues up.                *)
LEMMA HeldBackQueuesUp ==
  ASSUME TypeInv, IndexInv, NEW p \in Packet, NEW a \in Addr, InOrb(a),
         returnIndexDC(a) = returnIndexDC(p.addr), orb' = orb, crb' = Append(crb, p)
  PROVE  LineQueues' = [LineQueues EXCEPT ![returnIndexDC(p.addr)] =
                                            Append(LineQueue(returnIndexDC(p.addr)), Plain(p))]
<1> DEFINE i == returnIndexDC(p.addr)  r == [addr |-> a, isWrite |-> orb[a].isWrite]
<1>1. crb \in Seq(Packet) /\ orb \in [Addr -> OrbEntry] /\ crb' \in Seq(Packet)
  BY AppendProperties DEF TypeInv, TypeOK
<1>2. Plain(p) \in LineRequest
  BY DEF Packet, Plain, LineRequest
<1>3. /\ i \in Indices
      /\ Append(LineQueue(i), Plain(p)) = <<r>> \o Append(HeldQueue(crb, i), Plain(p))
  BY <1>2, OwnerFirst
<1>4. /\ HeldQueue(crb', i) = Append(HeldQueue(crb, i), Plain(p))
      /\ \A j : j # i => HeldQueue(crb', j) = HeldQueue(crb, j)
  BY <1>1, HeldBack
<1>5. LineQueue(i)' = <<r>> \o HeldQueue(crb', i)
  <2>1. orb[a].isWrite \in BOOLEAN /\ orb[a].state # "none"
    BY <1>1 DEF OrbEntry, InOrb
  <2>2. \A b \in Addr : orb[b].state # "none" /\ returnIndexDC(b) = i => b = a
    BY DEF IndexInv, OneRequestPerIndex, Admitted, InOrb
  <2>3. QueueOf(orb, crb', i) = <<r>> \o HeldQueue(crb', i)
    <3>1. returnIndexDC(a) = i
      OBVIOUS
    <3> HIDE DEF i
    <3>2. ASSUME NEW q \in Seq(Packet)
          PROVE  QueueOf(orb, q, i) = <<r>> \o HeldQueue(q, i)
      BY <2>1, <2>2, <3>1, OwnedQueue
    <3>3. QED
      BY <1>1, <3>2
  <2>4. QED
    BY <2>3, QueueIs
<1>6. LineQueue(i)' = Append(LineQueue(i), Plain(p))
  BY <1>3, <1>4, <1>5
<1>7. ASSUME NEW j \in Indices, j # i
      PROVE  LineQueue(j)' = LineQueue(j)
  BY <1>4, <1>7, OtherQueue
<1>8. QED
  BY <1>3, <1>6, <1>7, OneQueueChanged

(* They admit one whose index nobody owns, and for which none is held.     *)
LEMMA AdmittedQueuesUp ==
  ASSUME TypeInv, HeldHasBlocker, call.fn # "promoteFromCRB", NEW p \in Packet, admitRequest(p),
         ~Busy(returnIndexDC(p.addr)), crb' = crb
  PROVE  LineQueues' = [LineQueues EXCEPT ![returnIndexDC(p.addr)] =
                                            Append(LineQueue(returnIndexDC(p.addr)), Plain(p))]
<1> DEFINE i == returnIndexDC(p.addr)
<1>1. crb \in Seq(Packet)
  BY DEF TypeInv, TypeOK
<1>2. HeldFor(crb, i) = {}
  BY DEF HeldHasBlocker, HeldFor
<1>3. HeldQueue(crb, i) = <<>>
  BY <1>1, <1>2, HeldIsQueue
<1>4. /\ i \in Indices /\ Plain(p) \in LineRequest
      /\ LineQueue(i) = HeldQueue(crb, i)
      /\ LineQueue(i)' = <<Plain(p)>> \o HeldQueue(crb', i)
      /\ \A a \in Addr : returnIndexDC(a) # i => orb'[a] = orb[a]
  BY <1>1, AdmittedFirst
<1>5. LineQueue(i)' = Append(LineQueue(i), Plain(p))
  <2>1. \A x : <<x>> \o <<>> = Append(<<>>, x)
    OBVIOUS
  <2>2. QED
    BY <1>3, <1>4, <2>1
<1>6. ASSUME NEW j \in Indices, j # i
      PROVE  LineQueue(j)' = LineQueue(j)
  BY <1>4, <1>6, OtherQueue
<1>7. QED
  BY <1>4, <1>5, <1>6, OneQueueChanged

-----------------------------------------------------------------------------
(* The reads served and not yet answered.                                  *)

DueOf(r) == [k \in DOMAIN r |-> r[k].addr]

(* They are as many as the pending responses.                              *)
LEMMA DueIsQueue ==
  ASSUME NEW r \in Seq(Response)
  PROVE  /\ DueOf(r) \in Seq(Addr) /\ Len(DueOf(r)) = Len(r)
         /\ \A k \in 1 .. Len(r) : DueOf(r)[k] = r[k].addr
<1>1. Len(r) \in Nat /\ DOMAIN r = 1 .. Len(r) /\ \A k \in 1 .. Len(r) : r[k] \in Response
  BY LenProperties, ElementOfSeq
<1>2. DueOf(r) = [k \in 1 .. Len(r) |-> r[k].addr] /\ \A k \in 1 .. Len(r) : r[k].addr \in Addr
  BY <1>1 DEF DueOf, Response
<1>3. DueOf(r) \in [1 .. Len(r) -> Addr]
  BY <1>2
<1>4. DueOf(r) \in Seq(Addr)
  BY <1>1, <1>3, SeqDef
<1>5. Len(DueOf(r)) = Len(r)
  <2>1. DOMAIN DueOf(r) = 1 .. Len(r) /\ DOMAIN DueOf(r) = 1 .. Len(DueOf(r))
        /\ Len(DueOf(r)) \in Nat
    BY <1>3, <1>4, LenProperties
  <2>2. QED
    BY <1>1, <2>1
<1>6. QED
  BY <1>2, <1>4, <1>5

(* A response is queued.                                                   *)
LEMMA DueAppended ==
  ASSUME NEW r \in Seq(Response), NEW x \in Response
  PROVE  DueOf(Append(r, x)) = Append(DueOf(r), x.addr)
<1> DEFINE s == Append(r, x)  d == Append(DueOf(r), x.addr)
<1>1. /\ s \in Seq(Response) /\ Len(s) = Len(r) + 1 /\ s[Len(r) + 1] = x
      /\ \A k \in 1 .. Len(r) : s[k] = r[k]
  BY AppendProperties
<1>2. DueOf(r) \in Seq(Addr) /\ Len(DueOf(r)) = Len(r) /\ x.addr \in Addr /\ Len(r) \in Nat
      /\ \A k \in 1 .. Len(r) : DueOf(r)[k] = r[k].addr
  BY DueIsQueue, LenProperties DEF Response
<1>3. /\ d \in Seq(Addr) /\ Len(d) = Len(r) + 1 /\ d[Len(r) + 1] = x.addr
      /\ \A k \in 1 .. Len(r) : d[k] = r[k].addr
  BY <1>2, AppendProperties
<1> HIDE DEF s, d
<1>4. /\ DueOf(s) \in Seq(Addr) /\ Len(DueOf(s)) = Len(s)
      /\ \A k \in 1 .. Len(s) : DueOf(s)[k] = s[k].addr
  BY <1>1, DueIsQueue
<1>5. \A k \in 1 .. Len(r) + 1 : k \in 1 .. Len(r) \/ k = Len(r) + 1
  BY <1>2
<1>6. \A k \in 1 .. Len(DueOf(s)) : DueOf(s)[k] = d[k]
  BY <1>1, <1>3, <1>4, <1>5
<1>7. DueOf(s) = d
  BY <1>1, <1>3, <1>4, <1>6, SeqEqual
<1>8. QED
  BY <1>7 DEF s, d

(* The front response is delivered.                                        *)
LEMMA DueTaken ==
  ASSUME NEW r \in Seq(Response), r # <<>>
  PROVE  /\ DueOf(r) # <<>> /\ Head(DueOf(r)) = Head(r).addr
         /\ DueOf(Tail(r)) = Tail(DueOf(r))
<1> DEFINE s == Tail(r)  d == DueOf(r)
<1>1. /\ s \in Seq(Response) /\ Len(s) = Len(r) - 1 /\ Head(r) = r[1]
      /\ \A k \in 1 .. Len(s) : s[k] = r[k + 1]
  BY HeadTailProperties
<1>2. Len(r) \in Nat /\ Len(r) # 0
  BY LenProperties, EmptySeq
<1>3. d \in Seq(Addr) /\ Len(d) = Len(r) /\ \A k \in 1 .. Len(r) : d[k] = r[k].addr
  BY DueIsQueue
<1>4. /\ DueOf(s) \in Seq(Addr) /\ Len(DueOf(s)) = Len(s)
      /\ \A k \in 1 .. Len(s) : DueOf(s)[k] = s[k].addr
  BY <1>1, DueIsQueue
<1> HIDE DEF s, d
<1>5. d # <<>>
  <2>1. Len(<<>>) = 0
    OBVIOUS
  <2>2. QED
    BY <1>2, <1>3, <2>1
<1>6. /\ Tail(d) \in Seq(Addr) /\ Len(Tail(d)) = Len(d) - 1 /\ Head(d) = d[1]
      /\ \A k \in 1 .. Len(Tail(d)) : Tail(d)[k] = d[k + 1]
  BY <1>3, <1>5, HeadTailProperties
<1>7. Head(d) = Head(r).addr
  <2>1. 1 \in 1 .. Len(r)
    BY <1>2
  <2>2. QED
    BY <1>1, <1>3, <1>6, <2>1
<1>8. Len(Tail(d)) = Len(s) /\ \A k \in 1 .. Len(s) : k + 1 \in 1 .. Len(r)
  BY <1>1, <1>2, <1>3, <1>6
<1>9. \A k \in 1 .. Len(DueOf(s)) : DueOf(s)[k] = Tail(d)[k]
  BY <1>1, <1>3, <1>4, <1>6, <1>8
<1>10. DueOf(s) = Tail(d)
  BY <1>4, <1>6, <1>8, <1>9, SeqEqual
<1>11. QED
  BY <1>5, <1>7, <1>10 DEF s, d

(* A cycle that passes changes none.                                       *)
LEMMA DueElapsed ==
  ASSUME NEW r \in Seq(Response)
  PROVE  DueOf(Elapse(r)) = DueOf(r)
<1>1. DOMAIN Elapse(r) = DOMAIN r
  BY DEF Elapse
<1>2. ASSUME NEW k \in DOMAIN r
      PROVE  Elapse(r)[k].addr = r[k].addr
  <2>1. r[k] \in Response
    BY LenProperties, ElementOfSeq
  <2>2. Elapse(r)[k] = [r[k] EXCEPT !.hold = IF r[k].hold > 0 THEN r[k].hold - 1 ELSE 0]
    BY DEF Elapse
  <2>3. QED
    BY <2>1, <2>2 DEF Response
<1>3. QED
  BY <1>1, <1>2 DEF DueOf

(* ReadsDue before and after a step.                                       *)
LEMMA DueIs == ReadsDue = DueOf(resp) /\ ReadsDue' = DueOf(resp')
BY DEF ReadsDue, DueOf

-----------------------------------------------------------------------------
(* What the refinement needs of the states besides: without latency no     *)
(* response is ever held, and only writes are written to near memory.      *)

ServeInv ==
  /\ FrontendLatency + BackendLatency = 0 => resp = <<>>
  /\ \A a \in Addr : orb[a].state = "LOC_MEM_WRITE" => orb[a].isWrite

(* Neither latency is zero unless their sums are.                          *)
LEMMA NoLatency ==
  /\ FrontendLatency + BackendLatency = 0 <=> FrontendLatency + BackendLatency + BackendLatency = 0
BY DcmAssumption

(* admitRequest() answers LOC_MEM_WRITE for writes only.                   *)
LEMMA AdmitServe ==
  ASSUME TypeInv, ServeInv, NEW p \in Packet, admitRequest(p)
  PROVE  \A a \in Addr : orb'[a].state = "LOC_MEM_WRITE" => orb'[a].isWrite
<1>1. orb \in [Addr -> OrbEntry] /\ p.addr \in Addr
  BY DEF TypeInv, TypeOK, Packet
<1>2. chooseInitialState(p.addr, p.isWrite) = "LOC_MEM_WRITE" => p.isWrite
  BY DEF chooseInitialState
<1>3. /\ orb'[p.addr].state = chooseInitialState(p.addr, p.isWrite)
      /\ orb'[p.addr].isWrite = p.isWrite
      /\ \A a \in Addr : a # p.addr => orb'[a] = orb[a]
  BY <1>1 DEF admitRequest
<1>4. QED
  BY <1>2, <1>3 DEF ServeInv

(* completeRequest() holds no response when there is no latency.           *)
LEMMA CompleteServe ==
  ASSUME TypeInv, ServeInv, NEW a \in Addr, NEW d, completeRequest(a, d),
         FrontendLatency + BackendLatency = 0 => d = 0
  PROVE  ServeInv'
<1>1. FrontendLatency + BackendLatency = 0 => resp' = <<>>
  BY DEF completeRequest, scheduleResponse, ServeInv
<1>2. \A b \in Addr : orb'[b].state = "LOC_MEM_WRITE" => orb'[b].isWrite
  BY DEF completeRequest, NoEntry, ServeInv, TypeInv, TypeOK
<1>3. QED
  BY <1>1, <1>2 DEF ServeInv

(* Every step keeps both.                                                  *)
LEMMA NextKeepsServe == TypeInv /\ ServeInv /\ [Next]_vars => ServeInv'
<1> SUFFICES ASSUME TypeInv, ServeInv, [Next]_vars
             PROVE  ServeInv'
  OBVIOUS
<1> USE DEF dcmVars, mcVars, llcVars, ctlVars, modeVars
<1>0. orb \in [Addr -> OrbEntry] /\ resp \in Seq(Response)
  BY DEF TypeInv, TypeOK
<1>1. ASSUME UNCHANGED <<orb, resp>>
      PROVE  ServeInv'
  BY <1>1 DEF ServeInv
<1>2. CASE DriveLocMemRead \/ DriveFarMemRead
  <2>1. resp' = resp /\ call.addr \in Addr
    BY <1>2, CallAddrType DEF DriveLocMemRead, DriveFarMemRead, TypeInv
  <2>2. PICK st \in Waiting : orb' = [orb EXCEPT ![call.addr].state = st]
    BY <1>2 DEF DriveLocMemRead, DriveFarMemRead, Waiting
  <2>3. \A a \in Addr : orb'[a].state = "LOC_MEM_WRITE" => orb'[a].isWrite
    BY <1>0, <2>1, <2>2 DEF Waiting, ServeInv, OrbEntry
  <2>4. QED
    BY <2>1, <2>3 DEF ServeInv
<1>3. CASE DriveLocMemWrite
  <2>1. call.addr \in Addr /\ completeRequest(call.addr, 0)
    BY <1>3, CallAddrType DEF DriveLocMemWrite, TypeInv
  <2>2. QED
    BY <2>1, CompleteServe
<1>4. CASE Promote
  <2>1. PICK k \in DOMAIN crb : admitRequest(crb[k])
    BY <1>4 DEF Promote
  <2>2. crb[k] \in Packet /\ resp' = resp
    BY <1>4, LenProperties, ElementOfSeq DEF TypeInv, TypeOK, Promote
  <2>3. QED
    BY <2>1, <2>2, AdmitServe DEF ServeInv
<1>5. CASE ReturnTagReadHit
  <2>1. call.addr \in Addr /\ completeRequest(call.addr, FrontendLatency + BackendLatency)
    BY <1>5, ReturnedType DEF ReturnTagReadHit, TypeInv
  <2>2. QED
    BY <2>1, CompleteServe
<1>6. CASE ReturnFarRead
  <2>1. /\ call.addr \in Addr
        /\ completeRequest(call.addr, FrontendLatency + BackendLatency + BackendLatency)
    BY <1>6, ReturnedType DEF ReturnFarRead, TypeInv
  <2>2. QED
    BY <2>1, CompleteServe, NoLatency
<1>7. CASE ReturnTagRead
  <2>1. call.addr \in Addr /\ resp' = resp
    BY <1>7, ReturnedType DEF ReturnTagRead, TypeInv
  <2>2. \A a \in Addr : orb'[a].state = "LOC_MEM_WRITE" => orb'[a].isWrite
    <3>1. orb' = [orb EXCEPT ![call.addr].state =
                    IF orb[call.addr].isWrite THEN "LOC_MEM_WRITE" ELSE "FAR_MEM_READ"]
      BY <1>7 DEF ReturnTagRead
    <3>2. QED
      BY <1>0, <2>1, <3>1 DEF ServeInv, OrbEntry
  <2>3. QED
    BY <2>1, <2>2 DEF ServeInv
<1>8. CASE NothingToPromote \/ ReturnBypassed \/ ReturnUntracked
           \/ ResumeReturn \/ ResumeFill \/ ResumePop \/ ResumeDone
  BY <1>1, <1>8 DEF NothingToPromote, ReturnBypassed, ReturnUntracked, ResumeReturn,
     ResumeFill, ResumePop, ResumeDone
<1>9. CASE Operate /\ ~DeliverResponse
  BY <1>1, <1>9 DEF Operate, ReleaseFar, FarReleased, DrainWB, ReleaseNear, NearReleased,
     NearServeRead, NearServeWrite, FarServeRead, FarServeWrite, NearWaits, FarWaits,
     ResponsesDelivered
<1>10. CASE DeliverResponse
  <2>1. resp # <<>> /\ orb' = orb
    BY <1>10 DEF DeliverResponse
  <2>2. QED
    BY <2>1 DEF ServeInv
<1>11. ASSUME NEW p \in Requests, AddAdmitted(p)
       PROVE  ServeInv'
  <2>1. p \in Packet /\ resp' = resp
    BY <1>11 DEF AddAdmitted, Requests
  <2>2. CASE orb' = orb
    BY <1>1, <2>1, <2>2
  <2>3. CASE admitRequest(p)
    BY <2>1, <2>3, AdmitServe DEF ServeInv
  <2>4. QED
    BY <1>11, <2>2, <2>3 DEF AddAdmitted
<1>12. CASE NextCycle
  <2>1. orb' = orb /\ resp' = Elapse(resp)
    BY <1>12 DEF NextCycle
  <2>2. resp = <<>> => Elapse(resp) = <<>>
    BY DEF Elapse
  <2>3. QED
    BY <2>1, <2>2 DEF ServeInv
<1>13. ASSUME NEW p \in Requests, AddBypassed(p) \/ AddConflicting(p) \/ WarmupAccess(p)
       PROVE  ServeInv'
  BY <1>1, <1>13 DEF AddBypassed, AddConflicting, WarmupAccess
<1>14. CASE CompleteWarmup \/ setBypassDcache \/ UNCHANGED vars
  BY <1>1, <1>14 DEF CompleteWarmup, setBypassDcache, vars
<1>15. QED
  BY <1>2, <1>3, <1>4, <1>5, <1>6, <1>7, <1>8, <1>9, <1>10, <1>11, <1>12, <1>13, <1>14
     DEF Next, Handler, Llc

-----------------------------------------------------------------------------
(* The steps of the service that handlers and stages take.                 *)

(* The reads the LLC waits for other than in bypass mode.                  *)
Owed(f, g) == [b \in Addr |-> f[b] - g[b]]

Fewer(f, a) == [f EXCEPT ![a] = @ - 1]
More(f, a)  == [f EXCEPT ![a] = @ + 1]

(* One more, one fewer.                                                    *)
LEMMA OwedMoves ==
  ASSUME NEW f \in [Addr -> Int], NEW g \in [Addr -> Int], NEW a \in Addr
  PROVE  Owed(Fewer(f, a), g) = Fewer(Owed(f, g), a) /\ Owed(More(f, a), g) = More(Owed(f, g), a)
<1>1. Owed([f EXCEPT ![a] = @ - 1], g) = [Owed(f, g) EXCEPT ![a] = @ - 1]
  <2> DEFINE h == [f EXCEPT ![a] = @ - 1]  e == [Owed(f, g) EXCEPT ![a] = @ - 1]
  <2>1. \A b \in Addr : h[b] - g[b] = e[b]
    <3> SUFFICES ASSUME NEW b \in Addr PROVE h[b] - g[b] = e[b]
      OBVIOUS
    <3>1. CASE b = a
      <4>1. h[b] = f[a] - 1 /\ e[b] = f[a] - g[a] - 1
        BY <3>1 DEF Owed
      <4>2. f[a] \in Int /\ g[a] \in Int
        OBVIOUS
      <4> HIDE DEF h, e
      <4>3. QED
        BY <3>1, <4>1, <4>2
    <3>2. CASE b # a
      BY <3>2 DEF Owed
    <3>3. QED
      BY <3>1, <3>2
  <2>2. e = [b \in Addr |-> e[b]]
    BY DEF Owed
  <2> HIDE DEF h, e
  <2>3. Owed(h, g) = e
    BY <2>1, <2>2 DEF Owed
  <2>4. QED
    BY <2>3 DEF h, e
<1>2. Owed([f EXCEPT ![a] = @ + 1], g) = [Owed(f, g) EXCEPT ![a] = @ + 1]
  <2> DEFINE h == [f EXCEPT ![a] = @ + 1]  e == [Owed(f, g) EXCEPT ![a] = @ + 1]
  <2>1. \A b \in Addr : h[b] - g[b] = e[b]
    <3> SUFFICES ASSUME NEW b \in Addr PROVE h[b] - g[b] = e[b]
      OBVIOUS
    <3>1. CASE b = a
      <4>1. h[b] = f[a] + 1 /\ e[b] = f[a] - g[a] + 1
        BY <3>1 DEF Owed
      <4>2. f[a] \in Int /\ g[a] \in Int
        OBVIOUS
      <4> HIDE DEF h, e
      <4>3. QED
        BY <3>1, <4>1, <4>2
    <3>2. CASE b # a
      BY <3>2 DEF Owed
    <3>3. QED
      BY <3>1, <3>2
  <2>2. e = [b \in Addr |-> e[b]]
    BY DEF Owed
  <2> HIDE DEF h, e
  <2>3. Owed(h, g) = e
    BY <2>1, <2>2 DEF Owed
  <2>4. QED
    BY <2>3 DEF h, e
<1>3. QED
  BY <1>1, <1>2 DEF Fewer, More

(* ReadsOwed before and after a step.                                      *)
LEMMA OwedIs ==
  ReadsOwed = Owed(llcWaiting, bypassReads) /\ ReadsOwed' = Owed(llcWaiting', bypassReads')
BY DEF ReadsOwed, Owed

(* A completion serves the oldest request of its index: a write ends, a    *)
(* read is answered at once or when its response is due.                   *)
LEMMA CompletionServes ==
  ASSUME TypeInv, IndexInv, NEW a \in Addr, NEW d \in Nat, InOrb(a), completeRequest(a, d),
         UNCHANGED <<crb, bypassReads>>, d = 0 /\ ~orb[a].isWrite => resp = <<>>
  PROVE  Line!LineNext
<1> DEFINE i == returnIndexDC(a)  r == [addr |-> a, isWrite |-> orb[a].isWrite]
<1>1. PICK x : x = r
  OBVIOUS
<1>2. i \in 0 .. NumLines - 1 /\ LineQueues[i] = LineQueue(i) /\ LineQueue(i) # <<>>
      /\ Head(LineQueue(i)) = x
  BY <1>1, OwnerFirst DEF LineQueues, Indices
<1>3. LineQueues' = [LineQueues EXCEPT ![i] = Tail(LineQueue(i))]
  BY CompletedLeaves
<1>4. resp \in Seq(Response) /\ llcWaiting \in [Addr -> Int] /\ bypassReads \in [Addr -> Int]
  BY DEF TypeInv, TypeOK
<1>5. \/ x.isWrite /\ UNCHANGED <<ReadsDue, ReadsOwed>>
      \/ ~x.isWrite /\ ReadsDue' = Append(ReadsDue, x.addr) /\ UNCHANGED ReadsOwed
      \/ /\ ~x.isWrite /\ ReadsDue = <<>>
         /\ ReadsOwed' = [ReadsOwed EXCEPT ![x.addr] = @ - 1] /\ UNCHANGED ReadsDue
  <2>1. CASE orb[a].isWrite
    BY <1>1, <2>1 DEF completeRequest, ReadsDue, ReadsOwed
  <2>2. CASE ~orb[a].isWrite /\ d # 0
    <3>1. resp' = Append(resp, [addr |-> a, hold |-> d]) /\ llcWaiting' = llcWaiting
      BY <2>2 DEF completeRequest, scheduleResponse
    <3>2. [addr |-> a, hold |-> d] \in Response
      BY DEF Response
    <3>3. DueOf(resp') = Append(DueOf(resp), a)
      BY <1>4, <3>1, <3>2, DueAppended
    <3>4. UNCHANGED ReadsOwed
      BY <3>1 DEF ReadsOwed
    <3>5. QED
      BY <1>1, <2>2, <3>3, <3>4, DueIs
  <2>3. CASE ~orb[a].isWrite /\ d = 0
    <3>1. resp = <<>> /\ resp' = resp /\ llcWaiting' = [llcWaiting EXCEPT ![a] = @ - 1]
      BY <2>3 DEF completeRequest, scheduleResponse
    <3>2. ReadsDue = <<>> /\ UNCHANGED ReadsDue
      BY <3>1 DEF ReadsDue
    <3>3. ReadsOwed' = [ReadsOwed EXCEPT ![a] = @ - 1]
      <4>1. llcWaiting' = Fewer(llcWaiting, a) /\ bypassReads' = bypassReads
        BY <3>1 DEF Fewer
      <4>2. ReadsOwed' = Fewer(ReadsOwed, a)
        BY <1>4, <4>1, OwedIs, OwedMoves
      <4>3. QED
        BY <4>2 DEF Fewer
    <3>4. QED
      BY <1>1, <2>3, <3>2, <3>3
  <2>4. QED
    BY <2>1, <2>2, <2>3
<1>6. Line!Serve(i)
  <2> HIDE DEF i, r
  <2>1. LineQueues[i] # <<>> /\ LineQueues' = [LineQueues EXCEPT ![i] = Tail(@)]
    BY <1>2, <1>3
  <2>2. Head(LineQueues[i]) = x
    BY <1>2
  <2>3. QED
    BY <1>5, <2>1, <2>2 DEF Line!Serve
<1>7. QED
  BY <1>2, <1>6 DEF Line!LineNext

(* A request joins the queue of its index: the LLC waits for a read.       *)
LEMMA RequestAccepted ==
  ASSUME TypeInv, NEW p \in Packet, UNCHANGED <<resp, bypassReads>>,
         llcWaiting' = IF p.isWrite THEN llcWaiting ELSE [llcWaiting EXCEPT ![p.addr] = @ + 1],
         LineQueues' = [LineQueues EXCEPT ![returnIndexDC(p.addr)] =
                                            Append(LineQueue(returnIndexDC(p.addr)), Plain(p))]
  PROVE  Line!LineNext
<1> DEFINE i == returnIndexDC(p.addr)  x == Plain(p)
<1>1. x \in Line!Request /\ x.addr = p.addr /\ x.isWrite = p.isWrite /\ p.addr \in Addr
  BY DEF Packet, Plain, Line!Request
<1>2. i \in Indices /\ LineQueues[i] = LineQueue(i) /\ Line!Index(p.addr) = i
  BY <1>1, IndexType DEF LineQueues, Line!Index, returnIndexDC
<1>3. llcWaiting \in [Addr -> Int] /\ bypassReads \in [Addr -> Int]
  BY DEF TypeInv, TypeOK
<1>4. ReadsOwed' = IF x.isWrite THEN ReadsOwed ELSE [ReadsOwed EXCEPT ![x.addr] = @ + 1]
  <2>1. ReadsOwed' = IF p.isWrite THEN ReadsOwed ELSE [ReadsOwed EXCEPT ![p.addr] = @ + 1]
    <3>1. CASE p.isWrite
      BY <3>1, OwedIs
    <3>2. CASE ~p.isWrite
      <4>1. llcWaiting' = More(llcWaiting, p.addr) /\ bypassReads' = bypassReads
        BY <3>2 DEF More
      <4>2. ReadsOwed' = More(ReadsOwed, p.addr)
        BY <1>1, <1>3, <4>1, OwedIs, OwedMoves
      <4>3. QED
        BY <3>2, <4>2 DEF More
    <3>3. QED
      BY <3>1, <3>2
  <2> HIDE DEF x
  <2>2. QED
    BY <1>1, <2>1
<1>5. UNCHANGED ReadsDue
  BY DEF ReadsDue
<1>6. LineQueues' = [LineQueues EXCEPT ![Line!Index(x.addr)] = Append(@, x)]
  <2>1. Line!Index(x.addr) = i
    BY <1>1, <1>2
  <2> HIDE DEF i, x
  <2>2. LineQueues' = [LineQueues EXCEPT ![i] = Append(LineQueues[i], x)]
    BY <1>2 DEF i, x
  <2>3. QED
    BY <2>1, <2>2
<1> HIDE DEF i, x
<1>7. Line!Accept(x)
  BY <1>4, <1>5, <1>6 DEF Line!Accept
<1>8. QED
  BY <1>1, <1>7 DEF Line!LineNext

(* The front response is delivered.                                        *)
LEMMA ResponseAnswers ==
  ASSUME TypeInv, DeliverResponse
  PROVE  Line!LineNext
<1>1. /\ resp # <<>> /\ resp' = Tail(resp) /\ UNCHANGED <<orb, crb, bypassReads>>
      /\ llcWaiting' = [llcWaiting EXCEPT ![Head(resp).addr] = @ - 1]
  BY DEF DeliverResponse
<1>2. resp \in Seq(Response) /\ llcWaiting \in [Addr -> Int] /\ bypassReads \in [Addr -> Int]
  BY DEF TypeInv, TypeOK
<1>3. Head(resp).addr \in Addr
  <2>1. Head(resp) \in Response
    BY <1>1, <1>2, HeadTailProperties
  <2>2. QED
    BY <2>1 DEF Response
<1>4. ReadsDue # <<>> /\ ReadsDue' = Tail(ReadsDue) /\ Head(ReadsDue) = Head(resp).addr
  BY <1>1, <1>2, DueTaken, DueIs
<1>5. ReadsOwed' = [ReadsOwed EXCEPT ![Head(resp).addr] = @ - 1]
  <2>1. llcWaiting' = Fewer(llcWaiting, Head(resp).addr) /\ bypassReads' = bypassReads
    BY <1>1 DEF Fewer
  <2>2. ReadsOwed' = Fewer(ReadsOwed, Head(resp).addr)
    BY <1>2, <1>3, <2>1, OwedIs, OwedMoves
  <2>3. QED
    BY <2>2 DEF Fewer
<1>6. UNCHANGED LineQueues
  BY <1>1, QueuesKept
<1>7. Line!Answer
  BY <1>4, <1>5, <1>6 DEF Line!Answer
<1>8. QED
  BY <1>7 DEF Line!LineNext

(* A step the service does not see: it neither admits, ends nor holds back *)
(* a request.                                                              *)
LEMMA NotSeen ==
  ASSUME UNCHANGED <<orb, crb, resp, bypassReads, llcWaiting>>
  PROVE  UNCHANGED Line!lineVars
<1>1. UNCHANGED LineQueues
  BY QueuesKept
<1>2. UNCHANGED ReadsDue /\ UNCHANGED ReadsOwed
  BY DEF ReadsDue, ReadsOwed
<1>3. QED
  BY <1>1, <1>2 DEF Line!lineVars

(* A request that moves on in its state machine stays where it is.         *)
LEMMA MovedOn ==
  ASSUME TypeInv, NEW a \in Addr, InOrb(a), NEW st, st # "none",
         orb' = [orb EXCEPT ![a].state = st],
         UNCHANGED <<crb, resp, bypassReads, llcWaiting>>
  PROVE  UNCHANGED Line!lineVars
<1>1. orb \in [Addr -> OrbEntry]
  BY DEF TypeInv, TypeOK
<1>2. orb'[a].state = st /\ orb'[a].isWrite = orb[a].isWrite
      /\ \A b \in Addr : b # a => orb'[b] = orb[b]
  BY <1>1 DEF OrbEntry
<1>3. UNCHANGED LineQueues
  BY <1>2, QueuesKept DEF InOrb
<1>4. UNCHANGED ReadsDue /\ UNCHANGED ReadsOwed
  BY DEF ReadsDue, ReadsOwed
<1>5. QED
  BY <1>3, <1>4 DEF Line!lineVars

(* Handlers serve, or are not seen.                                        *)
LEMMA HandlersRefine ==
  ASSUME TypeInv, IndexInv, ServeInv, Handler
  PROVE  [Line!LineNext]_(Line!lineVars)
<1> USE DEF dcmVars, mcVars, llcVars, ctlVars, modeVars
<1>1. CASE DriveLocMemRead \/ DriveFarMemRead
  <2>1. PICK st \in Waiting : orb' = [orb EXCEPT ![call.addr].state = st]
    BY <1>1 DEF DriveLocMemRead, DriveFarMemRead, Waiting
  <2>2. /\ call.addr \in Addr /\ InOrb(call.addr)
        /\ UNCHANGED <<crb, resp, bypassReads, llcWaiting>>
    BY <1>1, CallAddrType DEF DriveLocMemRead, DriveFarMemRead, TypeInv, InOrb
  <2>3. st # "none"
    BY DEF Waiting
  <2>4. PICK a \in Addr : a = call.addr
    BY <2>2
  <2>5. UNCHANGED Line!lineVars
    BY <2>1, <2>2, <2>3, <2>4, MovedOn
  <2>6. QED
    BY <2>5
<1>2. CASE ReturnTagRead
  <2>1. /\ call.addr \in Addr /\ InOrb(call.addr)
        /\ UNCHANGED <<crb, resp, bypassReads, llcWaiting>>
    BY <1>2, ReturnedType DEF ReturnTagRead, TypeInv, InOrb
  <2>2. PICK st : st = IF orb[call.addr].isWrite THEN "LOC_MEM_WRITE" ELSE "FAR_MEM_READ"
    OBVIOUS
  <2>3. st # "none" /\ orb' = [orb EXCEPT ![call.addr].state = st]
    BY <1>2, <2>2 DEF ReturnTagRead
  <2>4. PICK a \in Addr : a = call.addr
    BY <2>1
  <2>5. UNCHANGED Line!lineVars
    BY <2>1, <2>3, <2>4, MovedOn
  <2>6. QED
    BY <2>5
<1>3. CASE DriveLocMemWrite
  <2>1. /\ call.addr \in Addr /\ InOrb(call.addr) /\ completeRequest(call.addr, 0)
        /\ UNCHANGED <<crb, bypassReads>> /\ orb[call.addr].isWrite
    BY <1>3, CallAddrType DEF DriveLocMemWrite, InOrb, TypeInv, ServeInv
  <2>2. PICK a \in Addr : a = call.addr
    BY <2>1
  <2>3. 0 \in Nat
    OBVIOUS
  <2>4. QED
    BY <2>1, <2>2, <2>3, CompletionServes
<1>4. CASE Promote
  <2>1. UNCHANGED LineQueues
    BY <1>4, PromotedStays
  <2>2. UNCHANGED ReadsDue /\ UNCHANGED ReadsOwed
    <3>1. UNCHANGED <<resp, llcWaiting, bypassReads>>
      BY <1>4 DEF Promote
    <3>2. QED
      BY <3>1 DEF ReadsDue, ReadsOwed
  <2>3. QED
    BY <2>1, <2>2 DEF Line!lineVars
<1>5. CASE ReturnBypassed
  <2>1. PICK a \in Addr : a = call.addr
    BY <1>5, CallAddrType DEF ReturnBypassed, TypeInv
  <2>2. /\ UNCHANGED <<orb, crb, resp>>
        /\ bypassReads' = [bypassReads EXCEPT ![a] = @ - 1]
        /\ llcWaiting' = [llcWaiting EXCEPT ![a] = @ - 1]
    BY <1>5, <2>1 DEF ReturnBypassed
  <2>3. llcWaiting \in [Addr -> Int] /\ bypassReads \in [Addr -> Int]
    BY DEF TypeInv, TypeOK
  <2>4. UNCHANGED ReadsOwed
    BY <2>2, <2>3 DEF ReadsOwed
  <2>5. UNCHANGED LineQueues /\ UNCHANGED ReadsDue
    BY <2>2, QueuesKept DEF ReadsDue
  <2>6. QED
    BY <2>4, <2>5 DEF Line!lineVars
<1>6. CASE ReturnTagReadHit
  <2>1. PICK a \in Addr : a = call.addr
    BY <1>6, ReturnedType DEF ReturnTagReadHit, TypeInv
  <2>2. PICK d \in Nat : d = FrontendLatency + BackendLatency
    BY LatencyType
  <2>3. InOrb(a) /\ completeRequest(a, d) /\ UNCHANGED <<crb, bypassReads>>
    BY <1>6, <2>1, <2>2 DEF ReturnTagReadHit, InOrb
  <2>4. d = 0 => resp = <<>>
    BY <2>2 DEF ServeInv
  <2>5. QED
    BY <2>3, <2>4, CompletionServes
<1>7. CASE ReturnFarRead
  <2>1. PICK a \in Addr : a = call.addr
    BY <1>7, ReturnedType DEF ReturnFarRead, TypeInv
  <2>2. PICK d \in Nat : d = FrontendLatency + BackendLatency + BackendLatency
    BY LatencyType
  <2>3. InOrb(a) /\ completeRequest(a, d) /\ UNCHANGED <<crb, bypassReads>>
    BY <1>7, <2>1, <2>2 DEF ReturnFarRead, InOrb
  <2>4. d = 0 => resp = <<>>
    BY <2>2, NoLatency DEF ServeInv
  <2>5. QED
    BY <2>3, <2>4, CompletionServes
<1>8. CASE NothingToPromote \/ ReturnUntracked \/ ResumeReturn \/ ResumeFill \/ ResumePop
           \/ ResumeDone
  <2>1. UNCHANGED <<orb, crb, resp, bypassReads, llcWaiting>>
    BY <1>8 DEF NothingToPromote, ReturnUntracked, ResumeReturn, ResumeFill, ResumePop, ResumeDone
  <2>2. QED
    BY <2>1, NotSeen
<1>9. QED
  BY <1>1, <1>2, <1>3, <1>4, <1>5, <1>6, <1>7, <1>8 DEF Handler

(* The stages of operate(): only processPendingResponses() is seen.        *)
LEMMA StagesRefine ==
  ASSUME TypeInv, Operate
  PROVE  [Line!LineNext]_(Line!lineVars)
<1> USE DEF dcmVars, mcVars, llcVars, ctlVars, modeVars
<1>1. CASE DeliverResponse
  BY <1>1, ResponseAnswers
<1>2. CASE ~DeliverResponse
  <2>1. UNCHANGED <<orb, crb, resp, bypassReads, llcWaiting>>
    BY <1>2 DEF Operate, ReleaseFar, FarReleased, DrainWB, ReleaseNear, NearReleased,
       NearServeRead, NearServeWrite, FarServeRead, FarServeWrite, NearWaits, FarWaits,
       ResponsesDelivered
  <2>2. QED
    BY <2>1, NotSeen
<1>3. QED
  BY <1>1, <1>2

(* What the LLC submits is accepted: get_occupancy() and get_size() let    *)
(* nothing through that add_rq() would reject.                             *)
LEMMA LlcRefines ==
  ASSUME TypeInv, IndexInv, HeldHasBlocker, CapacityInv, Llc
  PROVE  [Line!LineNext]_(Line!lineVars)
<1> USE DEF dcmVars, mcVars, llcVars, ctlVars, modeVars
<1>0. llcWaiting \in [Addr -> Int] /\ bypassReads \in [Addr -> Int] /\ resp \in Seq(Response)
      /\ crb \in Seq(Packet) /\ Len(crb) \in Nat
  BY LenProperties DEF TypeInv, TypeOK
<1>1. ASSUME NEW p \in Requests, AddBypassed(p)
      PROVE  UNCHANGED Line!lineVars
  <2>1. /\ UNCHANGED <<orb, crb, resp>> /\ p.addr \in Addr
        /\ bypassReads' = IF p.isWrite THEN bypassReads ELSE [bypassReads EXCEPT ![p.addr] = @ + 1]
        /\ llcWaiting' = IF p.isWrite THEN llcWaiting ELSE [llcWaiting EXCEPT ![p.addr] = @ + 1]
    BY <1>1 DEF AddBypassed, Submit, Requests, Packet
  <2>2. UNCHANGED ReadsOwed
    BY <1>0, <2>1 DEF ReadsOwed
  <2>3. UNCHANGED LineQueues /\ UNCHANGED ReadsDue
    BY <2>1, QueuesKept DEF ReadsDue
  <2>4. QED
    BY <2>2, <2>3 DEF Line!lineVars
<1>2. ASSUME NEW p \in Requests, AddConflicting(p)
      PROVE  Line!LineNext
  <2>1. /\ p \in Packet /\ UNCHANGED <<orb, resp, bypassReads>>
        /\ llcWaiting' = IF p.isWrite THEN llcWaiting ELSE [llcWaiting EXCEPT ![p.addr] = @ + 1]
        /\ ~Full(p) /\ ~bypass /\ Busy(returnIndexDC(p.addr))
        /\ crb' = IF Len(crb) >= CrbMaxSize THEN crb ELSE Append(crb, p)
    BY <1>2 DEF AddConflicting, Submit, Requests
  <2>2. Len(crb) # CrbMaxSize
    BY <2>1 DEF Full, Packet
  <2>3. ~(Len(crb) >= CrbMaxSize)
    <3>1. Len(crb) <= CrbMaxSize /\ CrbMaxSize \in Nat
      BY DcmAssumption DEF CapacityInv
    <3>2. QED
      BY <1>0, <2>2, <3>1
  <2>4. PICK a \in Addr : InOrb(a) /\ returnIndexDC(a) = returnIndexDC(p.addr)
    BY <2>1 DEF Busy
  <2>5. LineQueues' = [LineQueues EXCEPT ![returnIndexDC(p.addr)] =
                                            Append(LineQueue(returnIndexDC(p.addr)), Plain(p))]
    BY <2>1, <2>3, <2>4, HeldBackQueuesUp
  <2>6. QED
    BY <2>1, <2>5, RequestAccepted
<1>3. ASSUME NEW p \in Requests, AddAdmitted(p)
      PROVE  Line!LineNext
  <2>1. /\ p \in Packet /\ UNCHANGED <<crb, resp, bypassReads>>
        /\ llcWaiting' = IF p.isWrite THEN llcWaiting ELSE [llcWaiting EXCEPT ![p.addr] = @ + 1]
        /\ ~Full(p) /\ ~bypass /\ ~Busy(returnIndexDC(p.addr))
        /\ call.fn # "promoteFromCRB"
        /\ ~Rejected => admitRequest(p)
    BY <1>3 DEF AddAdmitted, Submit, Requests, At, Idle, NoCall, Call
  <2>2. ~(Len(wb) >= WbThreshold) /\ Cardinality(Admitted) # OrbMaxSize
    BY <2>1 DEF Full
  <2>3. ~Rejected
    <3>1. Cardinality(Admitted) \in Nat /\ Cardinality(Admitted) <= OrbMaxSize /\ OrbMaxSize \in Nat
      BY FS_CardinalityType, DcmAssumption DEF CapacityInv, OrbFits
    <3>2. ~(Cardinality(Admitted) >= OrbMaxSize)
      BY <2>2, <3>1
    <3>3. QED
      BY <2>2, <3>2 DEF Rejected
  <2>4. LineQueues' = [LineQueues EXCEPT ![returnIndexDC(p.addr)] =
                                            Append(LineQueue(returnIndexDC(p.addr)), Plain(p))]
    BY <2>1, <2>3, AdmittedQueuesUp
  <2>5. QED
    BY <2>1, <2>4, RequestAccepted
<1>4. CASE NextCycle
  <2>1. resp' = Elapse(resp) /\ UNCHANGED <<orb, crb, bypassReads, llcWaiting>>
    BY <1>4 DEF NextCycle
  <2>2. UNCHANGED ReadsDue
    BY <1>0, <2>1, DueElapsed, DueIs
  <2>3. UNCHANGED LineQueues /\ UNCHANGED ReadsOwed
    BY <2>1, QueuesKept DEF ReadsOwed
  <2>4. QED
    BY <2>2, <2>3 DEF Line!lineVars
<1>5. CASE (\E p \in Requests : WarmupAccess(p)) \/ CompleteWarmup \/ setBypassDcache
  <2>1. UNCHANGED <<orb, crb, resp, bypassReads, llcWaiting>>
    BY <1>5 DEF WarmupAccess, CompleteWarmup, setBypassDcache
  <2>2. QED
    BY <2>1, NotSeen
<1>6. QED
  BY <1>1, <1>2, <1>3, <1>4, <1>5 DEF Llc

(* Initially nothing is accepted, due or owed.                             *)
LEMMA InitLine == Init => Line!LineInit
<1> SUFFICES ASSUME Init PROVE Line!LineInit
  OBVIOUS
<1>1. crb = <<>> /\ resp = <<>> /\ orb = [a \in Addr |-> NoEntry]
      /\ llcWaiting = [a \in Addr |-> 0] /\ bypassReads = [a \in Addr |-> 0]
  BY DEF Init
<1>2. \A i : LineQueue(i) = <<>>
  <2>1. crb \in Seq(Packet)
    BY <1>1
  <2>2. \A i : HeldFor(crb, i) = {}
    BY <1>1 DEF HeldFor
  <2>3. \A i : HeldQueue(crb, i) = <<>>
    BY <2>1, <2>2, HeldIsQueue
  <2>4. \A a \in Addr : orb[a].state = "none"
    BY <1>1 DEF NoEntry
  <2>5. \A i : QueueOf(orb, crb, i) = HeldQueue(crb, i)
    BY <2>1, <2>4, FreeQueue
  <2>6. QED
    BY <2>3, <2>5, QueueIs
<1>3. LineQueues = [i \in 0 .. NumLines - 1 |-> <<>>]
  BY <1>2 DEF LineQueues, Indices
<1>4. ReadsDue = <<>>
  BY <1>1 DEF ReadsDue
<1>5. ReadsOwed = [a \in Addr |-> 0]
  BY <1>1 DEF ReadsOwed
<1>6. QED
  BY <1>3, <1>4, <1>5 DEF Line!LineInit

(* Every step of the manager is a step of the service, or none: requests   *)
(* of an index are served in the order they were accepted, and a read is   *)
(* answered once, in the order reads were served.                          *)
THEOREM RefinesLineService == Spec => ImplementsLineService
<1>1. Init => ServeInv
  <2> SUFFICES ASSUME Init PROVE ServeInv
    OBVIOUS
  <2>1. resp = <<>> /\ orb = [a \in Addr |-> NoEntry]
    BY DEF Init
  <2>2. \A a \in Addr : orb[a].state # "LOC_MEM_WRITE"
    BY <2>1 DEF NoEntry
  <2>3. QED
    BY <2>1, <2>2 DEF ServeInv
<1>2. TypeInv /\ ServeInv /\ [Next]_vars => ServeInv'
  BY NextKeepsServe
<1>3. TypeInv /\ IndexInv /\ HeldHasBlocker /\ CapacityInv /\ ServeInv /\ [Next]_vars
        => [Line!LineNext]_(Line!lineVars)
  <2> SUFFICES ASSUME TypeInv, IndexInv, HeldHasBlocker, CapacityInv, ServeInv, [Next]_vars
               PROVE  [Line!LineNext]_(Line!lineVars)
    OBVIOUS
  <2>1. CASE UNCHANGED vars
    <3>1. UNCHANGED <<orb, crb, resp, bypassReads, llcWaiting>>
      BY <2>1 DEF vars, dcmVars, llcVars
    <3>2. QED
      BY <3>1, NotSeen
  <2>2. QED
    BY <2>1, HandlersRefine, StagesRefine, LlcRefines DEF Next
<1>4. QED
  BY <1>1, <1>2, <1>3, InitLine, TypeInvariant, IndexInvariant, NoneStranded, CapacityInvariant, PTL
     DEF Spec, ImplementsLineService, Line!LineSpec
=============================================================================
