----------------------------- MODULE DcmProofs -----------------------------
(***************************************************************************)
(* Proofs about DRAM_CACHE_MANAGER for every value of its constants.       *)
(***************************************************************************)
EXTENDS DcmProperties, SequenceTheorems, TLAPS

-----------------------------------------------------------------------------
(* Lemmas on the data of the model.                                        *)

(* An address has an index of the tag store and a tag (returnIndexDC(),    *)
(* returnTagDC()).                                                         *)
LEMMA IndexType ==
  \A a \in Addr : returnIndexDC(a) \in Indices /\ returnTagDC(a) \in Nat
BY DcmAssumption, SMT DEF returnIndexDC, returnTagDC, Indices

(* Erasing one element of the CRB keeps the others, in their order.        *)
LEMMA RemoveAtProperties ==
  ASSUME NEW S, NEW s \in Seq(S), NEW k \in DOMAIN s
  PROVE  /\ RemoveAt(s, k) \in Seq(S)
         /\ Len(RemoveAt(s, k)) = Len(s) - 1
         /\ \A j \in DOMAIN RemoveAt(s, k) :
              /\ j \in DOMAIN s /\ j + 1 \in DOMAIN s
              /\ RemoveAt(s, k)[j] = IF j < k THEN s[j] ELSE s[j + 1]
<1> DEFINE front == SubSeq(s, 1, k - 1)  back == SubSeq(s, k + 1, Len(s))
<1>1. Len(s) \in Nat /\ DOMAIN s = 1 .. Len(s) /\ \A i \in 1 .. Len(s) : s[i] \in S
  BY LenProperties, ElementOfSeq
<1>2. /\ front \in Seq(S) /\ Len(front) = k - 1
      /\ \A i \in 1 .. k - 1 : front[i] = s[i]
  <2>1. k \in Int /\ 1 \in Int /\ k - 1 \in Int /\ \A i \in 1 .. k - 1 : s[i] \in S
    BY <1>1
  <2>2. /\ front \in Seq(S) /\ Len(front) = IF 1 <= k - 1 THEN k - 1 - 1 + 1 ELSE 0
        /\ \A i \in 1 .. k - 1 - 1 + 1 : front[i] = s[1 + i - 1]
    BY <2>1, SubSeqProperties
  <2> HIDE DEF front
  <2>3. QED
    BY <1>1, <2>2
<1>3. /\ back \in Seq(S) /\ Len(back) = Len(s) - k
      /\ \A i \in 1 .. Len(s) - k : back[i] = s[k + i]
  <2>1. k + 1 \in Int /\ Len(s) \in Int /\ \A i \in k + 1 .. Len(s) : s[i] \in S
    BY <1>1
  <2>2. /\ back \in Seq(S)
        /\ Len(back) = IF k + 1 <= Len(s) THEN Len(s) - (k + 1) + 1 ELSE 0
        /\ \A i \in 1 .. Len(s) - (k + 1) + 1 : back[i] = s[k + 1 + i - 1]
    BY <2>1, SubSeqProperties
  <2> HIDE DEF back
  <2>3. Len(s) - (k + 1) + 1 = Len(s) - k
    BY <1>1
  <2>4. \A i \in 1 .. Len(s) - k : k + 1 + i - 1 = k + i
    BY <1>1
  <2>5. QED
    BY <1>1, <2>2, <2>3, <2>4
<1> HIDE DEF front, back
<1>4. /\ front \o back \in Seq(S)
      /\ Len(front \o back) = Len(s) - 1
      /\ \A i \in 1 .. Len(s) - 1 :
           (front \o back)[i] = IF i <= k - 1 THEN front[i] ELSE back[i - (k - 1)]
  <2>1. /\ front \o back \in Seq(S)
        /\ Len(front \o back) = Len(front) + Len(back)
        /\ \A i \in 1 .. Len(front) + Len(back) :
             (front \o back)[i] = IF i <= Len(front) THEN front[i]
                                                     ELSE back[i - Len(front)]
    BY <1>2, <1>3, ConcatProperties
  <2>2. Len(front) + Len(back) = Len(s) - 1
    BY <1>1, <1>2, <1>3
  <2>3. QED
    BY <1>2, <2>1, <2>2
<1>5. DOMAIN (front \o back) = 1 .. Len(s) - 1
  BY <1>4, LenProperties
<1>6. RemoveAt(s, k) = front \o back
  BY DEF RemoveAt, front, back
<1>7. ASSUME NEW j \in 1 .. Len(s) - 1
      PROVE  /\ j \in 1 .. Len(s) /\ j + 1 \in 1 .. Len(s)
             /\ (front \o back)[j] = IF j < k THEN s[j] ELSE s[j + 1]
  <2>1. CASE j < k
    BY <1>1, <1>2, <1>4, <2>1, SMT
  <2>2. CASE ~(j < k)
    <3>1. j - (k - 1) \in 1 .. Len(s) - k /\ ~(j <= k - 1)
      BY <1>1, <2>2, SMT
    <3>2. back[j - (k - 1)] = s[k + (j - (k - 1))]
      BY <1>3, <3>1
    <3>3. k + (j - (k - 1)) = j + 1
      BY <1>1, SMT
    <3>4. QED
      BY <1>1, <1>4, <2>2, <3>1, <3>2, <3>3, SMT
  <2>3. QED
    BY <2>1, <2>2
<1>8. QED
  BY <1>1, <1>4, <1>5, <1>6, <1>7

(* The frames left when the innermost caller is done.                      *)
LEMMA TailElements ==
  ASSUME NEW S, NEW s \in Seq(S), s # <<>>
  PROVE  \A k \in DOMAIN Tail(s) :
           /\ k + 1 \in DOMAIN s /\ Tail(s)[k] = s[k + 1]
           /\ k + 1 = Len(s) => k = Len(Tail(s))
<1>1. /\ Tail(s) \in Seq(S) /\ Len(Tail(s)) = Len(s) - 1
      /\ \A i \in 1 .. Len(Tail(s)) : Tail(s)[i] = s[i + 1]
  BY HeadTailProperties
<1>2. /\ Len(s) \in Nat /\ DOMAIN s = 1 .. Len(s)
      /\ Len(Tail(s)) \in Nat /\ DOMAIN Tail(s) = 1 .. Len(Tail(s))
  BY <1>1, LenProperties
<1>3. QED
  BY <1>1, <1>2

(* The frames once a handler has called another.                           *)
LEMMA PushElements ==
  ASSUME NEW S, NEW s \in Seq(S), NEW e \in S
  PROVE  \A k \in DOMAIN (<<e>> \o s) :
           \/ (<<e>> \o s)[k] = e
           \/ /\ k - 1 \in DOMAIN s /\ (<<e>> \o s)[k] = s[k - 1]
              /\ k - 1 = Len(s) => k = Len(<<e>> \o s)
<1> DEFINE t == <<e>>
<1>1. t \in Seq(S) /\ Len(t) = 1 /\ t[1] = e
  OBVIOUS
<1> HIDE DEF t
<1>2. /\ t \o s \in Seq(S) /\ Len(t \o s) = 1 + Len(s)
      /\ \A i \in 1 .. 1 + Len(s) :
           (t \o s)[i] = IF i <= 1 THEN t[i] ELSE s[i - 1]
  BY <1>1, ConcatProperties
<1>3. /\ Len(s) \in Nat /\ DOMAIN s = 1 .. Len(s)
      /\ DOMAIN (t \o s) = 1 .. 1 + Len(s)
  BY <1>2, LenProperties
<1>4. \A k \in 1 .. 1 + Len(s) :
        \/ (t \o s)[k] = e
        \/ /\ k - 1 \in 1 .. Len(s) /\ (t \o s)[k] = s[k - 1]
           /\ k - 1 = Len(s) => k = Len(t \o s)
  BY <1>1, <1>2, <1>3
<1>5. \A k \in DOMAIN (t \o s) :
        \/ (t \o s)[k] = e
        \/ /\ k - 1 \in DOMAIN s /\ (t \o s)[k] = s[k - 1]
           /\ k - 1 = Len(s) => k = Len(t \o s)
  BY <1>3, <1>4
<1>6. QED
  BY <1>5 DEF t

-----------------------------------------------------------------------------
(* Types of what the operators of the model return.                        *)

(* A dirty line knows its address, which a write-back needs.               *)
DirtyLinesKnown == \A i \in Indices : tags[i].dirty => tags[i].far \in Addr

(* The dispatch a forwarding controller is answering is still at the front *)
(* of its pending queue, and its caller is the outermost one.              *)
ReleasedAtFront ==
  \A k \in DOMAIN frames :
    /\ frames[k].op = "popNear" => k = Len(frames) /\ pendingNear # <<>>
    /\ frames[k].op = "popFar"  => k = Len(frames) /\ pendingFar # <<>>

TypeInv == TypeOK /\ DirtyLinesKnown /\ ReleasedAtFront

(* An attempt to send leaves a controller's queues sets of addresses.      *)
LEMMA AfterType ==
  ASSUME NEW o, NEW mc \in MemQueues, NEW p, p.addr \in Addr
  PROVE  After(o, mc, p) \in MemQueues
BY DEF After, Enqueued, MemQueues

(* A frame pushed on the frames of the callers.                            *)
LEMMA FrameIsType ==
  ASSUME NEW op \in Rest, NEW a \in Addr, NEW rest \in Seq(FrameType)
  PROVE  /\ <<Frame(op, a)>> \in Seq(FrameType)
         /\ <<Frame(op, a)>> \o rest \in Seq(FrameType)
BY ConcatProperties DEF Frame, FrameType

(* A call of a named handler.                                              *)
LEMMA CallIsType ==
  ASSUME NEW fn \in HandlerNames, NEW a \in Addr
  PROVE  Call(fn, a) \in CallType
BY DEF Call, CallType

(* What runs after trySend() is a typed call with typed frames.            *)
LEMMA ContinueType ==
  ASSUME NEW o, NEW p, p.addr \in Addr, NEW rest \in Seq(FrameType),
         Continue(o, p, rest)
  PROVE  call' \in CallType /\ frames' \in Seq(FrameType)
BY CallIsType, FrameIsType DEF Continue, HandlerNames, Rest, CallType

(* A dispatch held for the link.                                           *)
LEMMA HeldType ==
  ASSUME NEW p \in Packet
  PROVE  Held(p) \in HeldPkt
BY DcmAssumption DEF Held, Packet, HeldPkt

(* dispatchToNear() queues a packet in nearMC or behind the pending ones.  *)
LEMMA DispatchToNearType ==
  ASSUME TypeOK, NEW p \in Packet, dispatchToNear(p)
  PROVE  near' \in MemQueues /\ pendingNear' \in Seq(Packet)
<1>1. p.addr \in Addr
  BY DEF Packet
<1>2. near' \in MemQueues
  BY <1>1, AfterType DEF dispatchToNear, TypeOK
<1>3. pendingNear' \in Seq(Packet)
  BY AppendProperties DEF dispatchToNear, TypeOK
<1>4. QED
  BY <1>2, <1>3

(* dispatchToFarGuaranteed() does so in farMC.                             *)
LEMMA DispatchToFarType ==
  ASSUME TypeOK, NEW p \in Packet, dispatchToFarGuaranteed(p)
  PROVE  far' \in MemQueues /\ pendingFar' \in Seq(HeldPkt)
<1>1. p.addr \in Addr
  BY DEF Packet
<1>2. far' \in MemQueues
  BY <1>1, AfterType DEF dispatchToFarGuaranteed, TypeOK
<1>3. pendingFar' \in Seq(HeldPkt)
  BY HeldType, AppendProperties DEF dispatchToFarGuaranteed, TypeOK
<1>4. QED
  BY <1>2, <1>3

(* A write sent to a controller.                                           *)
LEMMA WritePacketType ==
  ASSUME NEW a \in Addr
  PROVE  WritePacket(a) \in Packet
BY DEF WritePacket, Packet

(* The packet of an admitted request.                                      *)
LEMMA OrbPacketType ==
  ASSUME TypeOK, NEW a \in Addr
  PROVE  OrbPacket(a, FALSE) \in Packet
BY DEF OrbPacket, Packet, TypeOK, OrbEntry

(* classifyAndInstall() keeps the tag store typed and every dirty line's   *)
(* far address known.                                                      *)
LEMMA InstalledType ==
  ASSUME TypeInv, NEW a \in Addr, NEW w \in BOOLEAN
  PROVE  /\ Installed(a, w) \in [Indices -> TagEntry]
         /\ \A i \in Indices : Installed(a, w)[i].dirty => Installed(a, w)[i].far \in Addr
<1> DEFINE i == returnIndexDC(a)
           line == [valid |-> TRUE, dirty |-> w \/ (isHit(a) /\ tags[i].dirty),
                    tag |-> returnTagDC(a), far |-> a]
<1>1. i \in Indices /\ returnTagDC(a) \in Nat
  BY IndexType
<1>2. line \in TagEntry /\ line.far \in Addr
  BY <1>1 DEF TagEntry
<1>3. tags \in [Indices -> TagEntry]
  BY DEF TypeInv, TypeOK
<1>4. Installed(a, w) = [tags EXCEPT ![i] = line]
  BY <1>1, <1>3 DEF Installed
<1> HIDE DEF line
<1>5. QED
  BY <1>1, <1>2, <1>3, <1>4 DEF TypeInv, DirtyLinesKnown

(* chooseInitialState() answers a state that driveState() handles.         *)
LEMMA InitialStateType ==
  ASSUME NEW a, NEW w
  PROVE  chooseInitialState(a, w) \in ToDrive
BY DEF chooseInitialState, ToDrive

(* admitRequest() leaves a typed entry, tag store and call.                *)
LEMMA AdmitType ==
  ASSUME TypeInv, NEW p \in Packet, admitRequest(p)
  PROVE  /\ orb' \in [Addr -> OrbEntry] /\ tags' \in [Indices -> TagEntry]
         /\ DirtyLinesKnown' /\ unsaved' \subseteq Addr /\ call' \in CallType
<1>1. p.addr \in Addr /\ p.isWrite \in BOOLEAN /\ p.cb \in {1, 2}
  BY DEF Packet
<1>2. tags' \in [Indices -> TagEntry] /\ DirtyLinesKnown'
  BY <1>1, InstalledType DEF admitRequest, DirtyLinesKnown
<1>3. orb' \in [Addr -> OrbEntry]
  <2>1. isHit(p.addr) \in BOOLEAN
    BY <1>1, IndexType DEF isHit, TypeInv, TypeOK, TagEntry
  <2>2. tags[returnIndexDC(p.addr)].far \in Addr \cup {0}
    BY <1>1, IndexType DEF TypeInv, TypeOK, TagEntry
  <2>3. chooseInitialState(p.addr, p.isWrite) \in ToDrive
    BY InitialStateType
  <2>4. orb \in [Addr -> OrbEntry]
    BY DEF TypeInv, TypeOK
  <2>5. QED
    BY <1>1, <2>1, <2>2, <2>3, <2>4 DEF admitRequest, OrbEntry
<1>4. unsaved' \subseteq Addr
  BY <1>1 DEF admitRequest, TypeInv, TypeOK
<1>5. call' \in CallType
  BY <1>1, CallIsType DEF admitRequest, HandlerNames
<1>6. QED
  BY <1>2, <1>3, <1>4, <1>5

(* scheduleResponse() answers the LLC or queues a typed response.          *)
LEMMA ScheduleResponseType ==
  ASSUME TypeOK, NEW a \in Addr, NEW d \in Nat, scheduleResponse(a, d)
  PROVE  resp' \in Seq(Response) /\ llcWaiting' \in [Addr -> Int]
<1>1. [addr |-> a, hold |-> d] \in Response
  BY DEF Response
<1>2. resp \in Seq(Response) /\ llcWaiting \in [Addr -> Int]
  BY DEF TypeOK
<1>3. CASE d = 0
  BY <1>2, <1>3 DEF scheduleResponse
<1>4. CASE d # 0
  BY <1>1, <1>2, <1>4, AppendProperties DEF scheduleResponse
<1>5. QED
  BY <1>3, <1>4

(* completeRequest() frees the entry and calls promoteFromCRB().           *)
LEMMA CompleteRequestType ==
  ASSUME TypeOK, NEW a \in Addr, NEW d \in Nat, completeRequest(a, d)
  PROVE  /\ resp' \in Seq(Response) /\ llcWaiting' \in [Addr -> Int]
         /\ orb' \in [Addr -> OrbEntry] /\ call' \in CallType
<1>1. resp' \in Seq(Response) /\ llcWaiting' \in [Addr -> Int]
  BY ScheduleResponseType DEF completeRequest, TypeOK
<1>2. NoEntry \in OrbEntry
  BY DEF NoEntry, OrbEntry
<1>3. orb' \in [Addr -> OrbEntry]
  BY <1>2 DEF completeRequest, TypeOK
<1>4. call' \in CallType
  BY CallIsType DEF completeRequest, HandlerNames
<1>5. QED
  BY <1>1, <1>3, <1>4

(* A cycle that passes keeps a queue with countdowns typed.                *)
LEMMA ElapseType ==
  ASSUME NEW S, NEW q \in Seq(S), \A e \in S : [e EXCEPT !.hold = IF e.hold > 0 THEN e.hold - 1 ELSE 0] \in S
  PROVE  Elapse(q) \in Seq(S)
<1>1. Len(q) \in Nat /\ DOMAIN q = 1 .. Len(q) /\ \A k \in 1 .. Len(q) : q[k] \in S
  BY LenProperties, ElementOfSeq
<1>2. Elapse(q) \in [1 .. Len(q) -> S]
  BY <1>1 DEF Elapse
<1>3. QED
  BY <1>1, <1>2, SeqDef

(* The latencies a response is held for.                                   *)
LEMMA LatencyType ==
  /\ FrontendLatency + BackendLatency \in Nat
  /\ FrontendLatency + BackendLatency + BackendLatency \in Nat
BY DcmAssumption

(* A handler about to run has an address.                                  *)
LEMMA CallAddrType ==
  ASSUME TypeOK, call.fn # "none"
  PROVE  call.addr \in Addr
BY DEF TypeOK, CallType, NoCall, Call

(* A caller that resumes leaves its own callers' frames.                   *)
LEMMA ResumeType ==
  ASSUME TypeOK, frames # <<>>
  PROVE  /\ Head(frames) \in FrameType /\ Head(frames).addr \in Addr
         /\ Tail(frames) \in Seq(FrameType)
         /\ 1 \in DOMAIN frames /\ Head(frames) = frames[1]
<1>1. frames \in Seq(FrameType)
  BY DEF TypeOK
<1>2. Head(frames) \in FrameType /\ Tail(frames) \in Seq(FrameType)
  BY <1>1, HeadTailProperties
<1>3. 1 \in DOMAIN frames /\ Head(frames) = frames[1]
  BY <1>1, EmptySeq, LenProperties
<1>4. QED
  BY <1>2, <1>3 DEF FrameType

(* A response that reaches return_data() has an address.                   *)
LEMMA ReturnedType ==
  ASSUME TypeOK, Returned(call.addr)
  PROVE  call.addr \in Addr /\ orb[call.addr] \in OrbEntry
<1>1. call.fn # "none"
  BY DEF Returned, Call
<1>2. QED
  BY <1>1, CallAddrType DEF TypeOK

(* pushDirtyWriteBack() queues addresses only: 0, for no victim, is left   *)
(* out.                                                                    *)
LEMMA PushDirtyWriteBackType ==
  ASSUME TypeOK, NEW a \in Addr, pushDirtyWriteBack(a)
  PROVE  wb' \in Seq(Addr)
<1>1. orb[a].dirtyLineAddr \in Addr \cup {0} /\ wb \in Seq(Addr)
  BY DEF TypeOK, OrbEntry
<1>2. QED
  BY <1>1, AppendProperties DEF pushDirtyWriteBack

-----------------------------------------------------------------------------
(* Every handler, stage and LLC action keeps the types.                    *)

(* Each handler keeps the type invariant's first two parts.                *)
LEMMA TypeOfHandlers ==
  ASSUME TypeInv, Handler
  PROVE  TypeOK' /\ DirtyLinesKnown'
<1> USE DEF TypeInv, dcmVars, mcVars, llcVars, ctlVars, modeVars
<1>1. CASE DriveLocMemRead
  <2> DEFINE a == call.addr
  <2>1. a \in Addr
    BY <1>1, CallAddrType DEF DriveLocMemRead
  <2>2. OrbPacket(a, FALSE) \in Packet /\ OrbPacket(a, FALSE).addr \in Addr
    BY <2>1, OrbPacketType DEF Packet
  <2>3. near' \in MemQueues /\ pendingNear' \in Seq(Packet)
    BY <1>1, <2>2, DispatchToNearType DEF DriveLocMemRead
  <2>4. call' \in CallType /\ frames' \in Seq(FrameType)
    BY <1>1, <2>2, ContinueType DEF DriveLocMemRead, TypeOK
  <2>5. orb' \in [Addr -> OrbEntry]
    BY <1>1, <2>1 DEF DriveLocMemRead, TypeOK, OrbEntry, Waiting
  <2>6. QED
    BY <1>1, <2>3, <2>4, <2>5 DEF DriveLocMemRead, TypeOK, DirtyLinesKnown
<1>2. CASE DriveFarMemRead
  <2> DEFINE a == call.addr
  <2>1. a \in Addr
    BY <1>2, CallAddrType DEF DriveFarMemRead
  <2>2. OrbPacket(a, FALSE) \in Packet /\ OrbPacket(a, FALSE).addr \in Addr
    BY <2>1, OrbPacketType DEF Packet
  <2>3. far' \in MemQueues /\ pendingFar' \in Seq(HeldPkt)
    BY <1>2, <2>2, DispatchToFarType DEF DriveFarMemRead
  <2>4. call' \in CallType /\ frames' \in Seq(FrameType)
    BY <1>2, <2>2, ContinueType DEF DriveFarMemRead, TypeOK
  <2>5. orb' \in [Addr -> OrbEntry]
    BY <1>2, <2>1 DEF DriveFarMemRead, TypeOK, OrbEntry, Waiting
  <2>6. QED
    BY <1>2, <2>3, <2>4, <2>5 DEF DriveFarMemRead, TypeOK, DirtyLinesKnown
<1>3. CASE DriveLocMemWrite
  <2>1. call.addr \in Addr
    BY <1>3, CallAddrType DEF DriveLocMemWrite
  <2>2. near' \in MemQueues /\ pendingNear' \in Seq(Packet)
    BY <1>3, <2>1, WritePacketType, DispatchToNearType DEF DriveLocMemWrite
  <2>3. /\ resp' \in Seq(Response) /\ llcWaiting' \in [Addr -> Int]
        /\ orb' \in [Addr -> OrbEntry] /\ call' \in CallType
    BY <1>3, <2>1, CompleteRequestType DEF DriveLocMemWrite
  <2>4. QED
    BY <1>3, <2>2, <2>3 DEF DriveLocMemWrite, TypeOK, DirtyLinesKnown
<1>4. CASE Promote
  <2>1. PICK k \in DOMAIN crb : crb' = RemoveAt(crb, k) /\ admitRequest(crb[k])
    BY <1>4 DEF Promote
  <2>2. crb \in Seq(Packet)
    BY DEF TypeOK
  <2>3. crb' \in Seq(Packet) /\ crb[k] \in Packet
    BY <2>1, <2>2, RemoveAtProperties, LenProperties, ElementOfSeq
  <2>4. /\ orb' \in [Addr -> OrbEntry] /\ tags' \in [Indices -> TagEntry]
        /\ DirtyLinesKnown' /\ unsaved' \subseteq Addr /\ call' \in CallType
    BY <2>1, <2>3, AdmitType
  <2>5. QED
    BY <1>4, <2>3, <2>4 DEF Promote, TypeOK
<1>5. CASE NothingToPromote
  BY <1>5 DEF NothingToPromote, TypeOK, DirtyLinesKnown, CallType
<1>6. CASE ReturnBypassed
  <2>1. /\ bypassReads \in [Addr -> Int] /\ llcWaiting \in [Addr -> Int]
        /\ call.addr \in Addr
    BY <1>6, CallAddrType DEF ReturnBypassed, TypeOK
  <2>2. bypassReads' \in [Addr -> Int] /\ llcWaiting' \in [Addr -> Int]
    BY <1>6, <2>1 DEF ReturnBypassed
  <2>3. QED
    BY <1>6, <2>2 DEF ReturnBypassed, TypeOK, DirtyLinesKnown, CallType
<1>7. CASE ReturnTagReadHit
  <2>1. call.addr \in Addr
    BY <1>7, ReturnedType DEF ReturnTagReadHit
  <2>2. wb' \in Seq(Addr)
    BY <1>7, <2>1, PushDirtyWriteBackType DEF ReturnTagReadHit
  <2>3. /\ resp' \in Seq(Response) /\ llcWaiting' \in [Addr -> Int]
        /\ orb' \in [Addr -> OrbEntry] /\ call' \in CallType
    BY <1>7, <2>1, LatencyType, CompleteRequestType DEF ReturnTagReadHit
  <2>4. QED
    BY <1>7, <2>2, <2>3 DEF ReturnTagReadHit, TypeOK, DirtyLinesKnown
<1>8. CASE ReturnTagRead
  <2>1. call.addr \in Addr
    BY <1>8, ReturnedType DEF ReturnTagRead
  <2>2. wb' \in Seq(Addr)
    BY <1>8, <2>1, PushDirtyWriteBackType DEF ReturnTagRead
  <2>3. orb' \in [Addr -> OrbEntry]
    <3>1. orb \in [Addr -> OrbEntry]
      BY DEF TypeOK
    <3>2. \A st \in ToDrive : [orb[call.addr] EXCEPT !.state = st] \in OrbEntry
      BY <2>1, <3>1 DEF OrbEntry
    <3>3. PICK st \in ToDrive : orb' = [orb EXCEPT ![call.addr].state = st]
      BY <1>8 DEF ReturnTagRead, ToDrive
    <3>4. QED
      BY <2>1, <3>1, <3>2, <3>3
  <2>4. call' \in CallType
    BY <1>8, <2>1, CallIsType DEF ReturnTagRead, HandlerNames
  <2>5. QED
    BY <1>8, <2>2, <2>3, <2>4 DEF ReturnTagRead, TypeOK, DirtyLinesKnown
<1>9. CASE ReturnFarRead
  <2>1. call.addr \in Addr
    BY <1>9, ReturnedType DEF ReturnFarRead
  <2>2. /\ resp' \in Seq(Response) /\ llcWaiting' \in [Addr -> Int]
        /\ orb' \in [Addr -> OrbEntry] /\ call' \in CallType
    BY <1>9, <2>1, LatencyType, CompleteRequestType DEF ReturnFarRead
  <2>3. frames' \in Seq(FrameType)
    BY <1>9, <2>1, FrameIsType DEF ReturnFarRead, TypeOK, Rest
  <2>4. QED
    BY <1>9, <2>2, <2>3 DEF ReturnFarRead, TypeOK, DirtyLinesKnown
<1>10. CASE ReturnUntracked
  BY <1>10 DEF ReturnUntracked, TypeOK, DirtyLinesKnown, CallType
<1>11. CASE ResumeReturn
  <2>1. Head(frames).addr \in Addr /\ Tail(frames) \in Seq(FrameType)
    BY <1>11, ResumeType DEF ResumeReturn, Resume
  <2>2. call' \in CallType
    BY <1>11, <2>1, CallIsType DEF ResumeReturn, HandlerNames
  <2>3. QED
    BY <1>11, <2>1, <2>2 DEF ResumeReturn, TypeOK, DirtyLinesKnown
<1>12. CASE ResumeFill
  <2>1. Head(frames).addr \in Addr /\ Tail(frames) \in Seq(FrameType)
    BY <1>12, ResumeType DEF ResumeFill, Resume
  <2>2. near' \in MemQueues /\ pendingNear' \in Seq(Packet)
    BY <1>12, <2>1, WritePacketType, DispatchToNearType DEF ResumeFill
  <2>3. QED
    BY <1>12, <2>1, <2>2 DEF ResumeFill, TypeOK, DirtyLinesKnown
<1>13. CASE ResumePop
  <2>1. Tail(frames) \in Seq(FrameType) /\ 1 \in DOMAIN frames /\ Head(frames) = frames[1]
    BY <1>13, ResumeType DEF ResumePop, Resume
  <2>2. pendingNear' \in Seq(Packet) /\ pendingFar' \in Seq(HeldPkt)
    <3>1. pendingNear \in Seq(Packet) /\ pendingFar \in Seq(HeldPkt)
      BY DEF TypeOK
    <3>2. CASE Resume("popNear") /\ pendingNear' = Tail(pendingNear) /\ UNCHANGED pendingFar
      BY <2>1, <3>1, <3>2, HeadTailProperties DEF Resume, ReleasedAtFront
    <3>3. CASE Resume("popFar") /\ pendingFar' = Tail(pendingFar) /\ UNCHANGED pendingNear
      BY <2>1, <3>1, <3>3, HeadTailProperties DEF Resume, ReleasedAtFront
    <3>4. QED
      BY <1>13, <3>2, <3>3 DEF ResumePop
  <2>3. QED
    BY <1>13, <2>1, <2>2 DEF ResumePop, TypeOK, DirtyLinesKnown
<1>14. CASE ResumeDone
  <2>1. Tail(frames) \in Seq(FrameType)
    BY <1>14, ResumeType DEF ResumeDone, Resume
  <2>2. near' \in MemQueues /\ far' \in MemQueues
    BY <1>14 DEF ResumeDone, TypeOK, MemQueues
  <2>3. QED
    BY <1>14, <2>1, <2>2 DEF ResumeDone, TypeOK, DirtyLinesKnown
<1>15. QED
  BY <1>1, <1>2, <1>3, <1>4, <1>5, <1>6, <1>7, <1>8, <1>9, <1>10, <1>11, <1>12,
     <1>13, <1>14 DEF Handler

(* What a handler may do to the frames and the pending queues.             *)
LEMMA FramesStep ==
  ASSUME TypeInv,
         pendingNear # <<>> => pendingNear' # <<>>,
         pendingFar # <<>> => pendingFar' # <<>>,
         \/ frames' = frames
         \/ frames # <<>> /\ frames' = Tail(frames)
         \/ \E op \in {"return_data", "fill"} : \E a \in Addr :
              frames' = <<Frame(op, a)>> \o frames
  PROVE  ReleasedAtFront'
<1>1. frames \in Seq(FrameType)
  BY DEF TypeInv, TypeOK
<1>2. CASE frames' = frames
  BY <1>2 DEF TypeInv, ReleasedAtFront
<1>3. CASE frames # <<>> /\ frames' = Tail(frames)
  <2>1. \A k \in DOMAIN Tail(frames) :
          /\ k + 1 \in DOMAIN frames /\ Tail(frames)[k] = frames[k + 1]
          /\ k + 1 = Len(frames) => k = Len(Tail(frames))
    BY <1>1, <1>3, TailElements
  <2>2. QED
    BY <1>3, <2>1 DEF TypeInv, ReleasedAtFront
<1>4. ASSUME NEW op \in {"return_data", "fill"}, NEW a \in Addr,
             frames' = <<Frame(op, a)>> \o frames
      PROVE  ReleasedAtFront'
  <2>1. Frame(op, a) \in FrameType /\ Frame(op, a).op = op
    BY DEF Frame, FrameType, Rest
  <2>2. \A k \in DOMAIN (<<Frame(op, a)>> \o frames) :
          \/ (<<Frame(op, a)>> \o frames)[k] = Frame(op, a)
          \/ /\ k - 1 \in DOMAIN frames
             /\ (<<Frame(op, a)>> \o frames)[k] = frames[k - 1]
             /\ k - 1 = Len(frames) => k = Len(<<Frame(op, a)>> \o frames)
    BY <1>1, <2>1, PushElements
  <2>3. QED
    BY <1>4, <2>1, <2>2 DEF TypeInv, ReleasedAtFront
<1>5. QED
  BY <1>2, <1>3, <1>4

(* dispatchToNear() takes nothing away from what is pending.               *)
LEMMA PendingNearKept ==
  ASSUME TypeOK, NEW p \in Packet, dispatchToNear(p)
  PROVE  pendingNear # <<>> => pendingNear' # <<>>
<1>1. pendingNear \in Seq(Packet)
  BY DEF TypeOK
<1>2. Append(pendingNear, p) # <<>>
  BY <1>1, AppendProperties
<1>3. QED
  BY <1>2 DEF dispatchToNear

(* Nor does dispatchToFarGuaranteed().                                     *)
LEMMA PendingFarKept ==
  ASSUME TypeOK, NEW p \in Packet, dispatchToFarGuaranteed(p)
  PROVE  pendingFar # <<>> => pendingFar' # <<>>
<1>1. pendingFar \in Seq(HeldPkt) /\ Held(p) \in HeldPkt
  BY HeldType DEF TypeOK
<1>2. Append(pendingFar, Held(p)) # <<>>
  BY <1>1, AppendProperties
<1>3. QED
  BY <1>2 DEF dispatchToFarGuaranteed

(* A frame that is to pop a pending dispatch stays innermost in its queue: *)
(* no handler pops, or pushes, in between.                                 *)
LEMMA ReleasedOfHandlers ==
  ASSUME TypeInv, Handler
  PROVE  ReleasedAtFront'
<1> USE DEF TypeInv, dcmVars, mcVars, llcVars, ctlVars, modeVars
<1>1. CASE DriveLocMemRead
  <2> DEFINE p == OrbPacket(call.addr, FALSE)
  <2>1. call.addr \in Addr
    BY <1>1, CallAddrType DEF DriveLocMemRead
  <2>2. p \in Packet /\ p.addr \in Addr
    BY <2>1, OrbPacketType DEF Packet
  <2>3. pendingNear # <<>> => pendingNear' # <<>>
    BY <1>1, <2>2, PendingNearKept DEF DriveLocMemRead
  <2>4. frames' = frames \/ frames' = <<Frame("return_data", p.addr)>> \o frames
    BY <1>1 DEF DriveLocMemRead, Continue
  <2>5. QED
    BY <1>1, <2>2, <2>3, <2>4, FramesStep DEF DriveLocMemRead
<1>2. CASE DriveFarMemRead
  <2> DEFINE p == OrbPacket(call.addr, FALSE)
  <2>1. call.addr \in Addr
    BY <1>2, CallAddrType DEF DriveFarMemRead
  <2>2. p \in Packet /\ p.addr \in Addr
    BY <2>1, OrbPacketType DEF Packet
  <2>3. pendingFar # <<>> => pendingFar' # <<>>
    BY <1>2, <2>2, PendingFarKept DEF DriveFarMemRead
  <2>4. frames' = frames \/ frames' = <<Frame("return_data", p.addr)>> \o frames
    BY <1>2 DEF DriveFarMemRead, Continue
  <2>5. QED
    BY <1>2, <2>2, <2>3, <2>4, FramesStep DEF DriveFarMemRead
<1>3. CASE DriveLocMemWrite
  <2>1. WritePacket(call.addr) \in Packet
    BY <1>3, CallAddrType, WritePacketType DEF DriveLocMemWrite
  <2>2. pendingNear # <<>> => pendingNear' # <<>>
    BY <1>3, <2>1, PendingNearKept DEF DriveLocMemWrite
  <2>3. QED
    BY <1>3, <2>2, FramesStep DEF DriveLocMemWrite
<1>4. CASE Promote \/ NothingToPromote \/ ReturnBypassed \/ ReturnTagReadHit
           \/ ReturnTagRead \/ ReturnUntracked
  BY <1>4, FramesStep DEF Promote, NothingToPromote, ReturnBypassed,
     ReturnTagReadHit, ReturnTagRead, ReturnUntracked
<1>5. CASE ReturnFarRead
  <2>1. call.addr \in Addr
    BY <1>5, ReturnedType DEF ReturnFarRead
  <2>2. frames' = <<Frame("fill", call.addr)>> \o frames
    BY <1>5 DEF ReturnFarRead
  <2>3. QED
    BY <1>5, <2>1, <2>2, FramesStep DEF ReturnFarRead
<1>6. CASE ResumeReturn \/ ResumeDone
  BY <1>6, FramesStep DEF ResumeReturn, ResumeDone, Resume
<1>7. CASE ResumeFill
  <2>1. WritePacket(Head(frames).addr) \in Packet
    BY <1>7, ResumeType, WritePacketType DEF ResumeFill, Resume
  <2>2. pendingNear # <<>> => pendingNear' # <<>>
    BY <1>7, <2>1, PendingNearKept DEF ResumeFill
  <2>3. QED
    BY <1>7, <2>2, FramesStep DEF ResumeFill, Resume
<1>8. CASE ResumePop
  <2>1. /\ 1 \in DOMAIN frames /\ frames[1].op \in {"popNear", "popFar"}
        /\ frames # <<>> /\ frames' = Tail(frames)
    BY <1>8, ResumeType DEF ResumePop, Resume
  <2>2. frames \in Seq(FrameType) /\ Len(frames) = 1
    BY <2>1 DEF TypeOK, ReleasedAtFront
  <2>3. Tail(frames) \in Seq(FrameType) /\ Len(Tail(frames)) = 0
    BY <2>1, <2>2, HeadTailProperties
  <2>4. DOMAIN Tail(frames) = {}
    <3>1. DOMAIN Tail(frames) = 1 .. Len(Tail(frames))
      BY <2>3, LenProperties
    <3>2. 1 .. 0 = {}
      OBVIOUS
    <3>3. QED
      BY <2>3, <3>1, <3>2, Zenon
  <2>5. QED
    BY <2>1, <2>4 DEF ReleasedAtFront
<1>9. QED
  BY <1>1, <1>2, <1>3, <1>4, <1>5, <1>6, <1>7, <1>8 DEF Handler

(* Handlers keep the type invariant.                                       *)
LEMMA HandlersKeepTypes ==
  ASSUME TypeInv, Handler
  PROVE  TypeInv'
BY TypeOfHandlers, ReleasedOfHandlers DEF TypeInv

-----------------------------------------------------------------------------
(* The stages of operate().                                                *)

(* A stage begins with no handler running.                                 *)
LEMMA IdleFrames ==
  ASSUME NEW p, At(p)
  PROVE  frames = <<>> /\ call = NoCall
BY DEF At, Idle

(* Without a dispatch being released there is nothing to show.             *)
LEMMA NoPopFrames ==
  ASSUME \A k \in DOMAIN frames' : frames'[k].op \notin {"popNear", "popFar"}
  PROVE  ReleasedAtFront'
BY DEF ReleasedAtFront

(* processPendingFarDispatches() keeps the type invariant.                 *)
LEMMA ReleaseFarTypes ==
  ASSUME TypeInv, ReleaseFar
  PROVE  TypeInv'
<1> DEFINE p == Head(pendingFar)
           outcome == trySend(far, p)
           rest == IF outcome = "forwarded" THEN <<Frame("popFar", p.addr)>> ELSE <<>>
<1>1. pendingFar \in Seq(HeldPkt) /\ pendingFar # <<>>
  BY DEF TypeInv, TypeOK, ReleaseFar, FarReady
<1>2. p \in HeldPkt /\ p.addr \in Addr /\ Tail(pendingFar) \in Seq(HeldPkt)
  <2>1. p \in HeldPkt /\ Tail(pendingFar) \in Seq(HeldPkt)
    BY <1>1, HeadTailProperties
  <2>2. QED
    BY <2>1 DEF HeldPkt
<1>3. /\ far' = After(outcome, far, p)
      /\ pendingFar' = IF outcome = "queued" THEN Tail(pendingFar) ELSE pendingFar
      /\ Continue(outcome, p, rest)
  BY DEF ReleaseFar
<1>4. <<>> \in Seq(FrameType) /\ <<Frame("popFar", p.addr)>> \in Seq(FrameType)
  BY <1>2, FrameIsType, EmptySeq DEF Rest
<1>5. rest \in Seq(FrameType)
  BY <1>4
<1> HIDE DEF p, outcome, rest
<1>6. call' \in CallType /\ frames' \in Seq(FrameType)
  BY <1>2, <1>3, <1>5, ContinueType
<1>7. far' \in MemQueues /\ pendingFar' \in Seq(HeldPkt)
  BY <1>1, <1>2, <1>3, AfterType DEF TypeInv, TypeOK
<1>8. TypeOK' /\ DirtyLinesKnown'
  BY <1>6, <1>7 DEF TypeInv, TypeOK, DirtyLinesKnown, ReleaseFar, llcVars, modeVars
<1>9. ReleasedAtFront'
  <2>1. CASE outcome = "forwarded"
    <3>1. pendingFar' # <<>> /\ rest = <<Frame("popFar", p.addr)>>
      BY <1>1, <1>3, <2>1 DEF rest
    <3>2. Len(rest) = 1 /\ rest[1].op = "popFar" /\ DOMAIN rest = {1}
      BY <3>1 DEF Frame
    <3>3. CASE frames' = rest
      BY <3>1, <3>2, <3>3 DEF ReleasedAtFront
    <3>4. CASE frames' = <<Frame("return_data", p.addr)>> \o rest
      <4>1. Frame("return_data", p.addr) \in FrameType
            /\ Frame("return_data", p.addr).op = "return_data"
        BY <1>2 DEF Frame, FrameType, Rest
      <4>2. \A k \in DOMAIN (<<Frame("return_data", p.addr)>> \o rest) :
              \/ (<<Frame("return_data", p.addr)>> \o rest)[k] = Frame("return_data", p.addr)
              \/ /\ k - 1 \in DOMAIN rest
                 /\ (<<Frame("return_data", p.addr)>> \o rest)[k] = rest[k - 1]
                 /\ k - 1 = Len(rest) => k = Len(<<Frame("return_data", p.addr)>> \o rest)
        BY <1>5, <4>1, PushElements
      <4>3. QED
        BY <3>1, <3>2, <3>4, <4>1, <4>2 DEF ReleasedAtFront
    <3>5. QED
      BY <1>3, <2>1, <3>3, <3>4 DEF Continue
  <2>2. CASE outcome # "forwarded"
    <3>1. frames' = <<>>
      BY <1>3, <2>2 DEF Continue, rest
    <3>2. QED
      BY <3>1, NoPopFrames
  <2>3. QED
    BY <2>1, <2>2
<1>10. QED
  BY <1>8, <1>9 DEF TypeInv

(* processPendingNearDispatches() keeps the type invariant.                *)
LEMMA ReleaseNearTypes ==
  ASSUME TypeInv, ReleaseNear
  PROVE  TypeInv'
<1> DEFINE p == Head(pendingNear)
           outcome == trySend(near, p)
           rest == IF outcome = "forwarded" THEN <<Frame("popNear", p.addr)>> ELSE <<>>
<1>1. pendingNear \in Seq(Packet) /\ pendingNear # <<>>
  BY DEF TypeInv, TypeOK, ReleaseNear
<1>2. p \in Packet /\ p.addr \in Addr /\ Tail(pendingNear) \in Seq(Packet)
  <2>1. p \in Packet /\ Tail(pendingNear) \in Seq(Packet)
    BY <1>1, HeadTailProperties
  <2>2. QED
    BY <2>1 DEF Packet
<1>3. /\ near' = After(outcome, near, p)
      /\ pendingNear' = IF outcome = "queued" THEN Tail(pendingNear) ELSE pendingNear
      /\ Continue(outcome, p, rest)
  BY DEF ReleaseNear
<1>4. <<>> \in Seq(FrameType) /\ <<Frame("popNear", p.addr)>> \in Seq(FrameType)
  BY <1>2, FrameIsType, EmptySeq DEF Rest
<1>5. rest \in Seq(FrameType)
  BY <1>4
<1> HIDE DEF p, outcome, rest
<1>6. call' \in CallType /\ frames' \in Seq(FrameType)
  BY <1>2, <1>3, <1>5, ContinueType
<1>7. near' \in MemQueues /\ pendingNear' \in Seq(Packet)
  BY <1>1, <1>2, <1>3, AfterType DEF TypeInv, TypeOK
<1>8. TypeOK' /\ DirtyLinesKnown'
  BY <1>6, <1>7 DEF TypeInv, TypeOK, DirtyLinesKnown, ReleaseNear, llcVars, modeVars
<1>9. ReleasedAtFront'
  <2>1. CASE outcome = "forwarded"
    <3>1. pendingNear' # <<>> /\ rest = <<Frame("popNear", p.addr)>>
      BY <1>1, <1>3, <2>1 DEF rest
    <3>2. Len(rest) = 1 /\ rest[1].op = "popNear" /\ DOMAIN rest = {1}
      BY <3>1 DEF Frame
    <3>3. CASE frames' = rest
      BY <3>1, <3>2, <3>3 DEF ReleasedAtFront
    <3>4. CASE frames' = <<Frame("return_data", p.addr)>> \o rest
      <4>1. Frame("return_data", p.addr) \in FrameType
            /\ Frame("return_data", p.addr).op = "return_data"
        BY <1>2 DEF Frame, FrameType, Rest
      <4>2. \A k \in DOMAIN (<<Frame("return_data", p.addr)>> \o rest) :
              \/ (<<Frame("return_data", p.addr)>> \o rest)[k] = Frame("return_data", p.addr)
              \/ /\ k - 1 \in DOMAIN rest
                 /\ (<<Frame("return_data", p.addr)>> \o rest)[k] = rest[k - 1]
                 /\ k - 1 = Len(rest) => k = Len(<<Frame("return_data", p.addr)>> \o rest)
        BY <1>5, <4>1, PushElements
      <4>3. QED
        BY <3>1, <3>2, <3>4, <4>1, <4>2 DEF ReleasedAtFront
    <3>5. QED
      BY <1>3, <2>1, <3>3, <3>4 DEF Continue
  <2>2. CASE outcome # "forwarded"
    <3>1. frames' = <<>>
      BY <1>3, <2>2 DEF Continue, rest
    <3>2. QED
      BY <3>1, NoPopFrames
  <2>3. QED
    BY <2>1, <2>2
<1>10. QED
  BY <1>8, <1>9 DEF TypeInv

(* drainWB() keeps the type invariant.                                     *)
LEMMA DrainWBTypes ==
  ASSUME TypeInv, DrainWB
  PROVE  TypeInv'
<1>1. frames' = <<>>
  BY IdleFrames DEF DrainWB
<1>2. ReleasedAtFront'
  BY <1>1, NoPopFrames
<1>3. CASE UNCHANGED <<far, pendingFar, wb>>
  BY <1>2, <1>3 DEF DrainWB, TypeInv, TypeOK, DirtyLinesKnown, Phases, llcVars, modeVars
<1>4. CASE wb # <<>> /\ dispatchToFarGuaranteed(WritePacket(Head(wb))) /\ wb' = Tail(wb)
  <2>1. Head(wb) \in Addr /\ wb' \in Seq(Addr)
    BY <1>4, HeadTailProperties DEF TypeInv, TypeOK
  <2>2. WritePacket(Head(wb)) \in Packet
    BY <2>1, WritePacketType
  <2>3. far' \in MemQueues /\ pendingFar' \in Seq(HeldPkt)
    BY <1>4, <2>2, DispatchToFarType DEF TypeInv
  <2>4. QED
    BY <1>2, <2>1, <2>3 DEF DrainWB, TypeInv, TypeOK, DirtyLinesKnown, Phases, llcVars, modeVars
<1>5. QED
  BY <1>3, <1>4 DEF DrainWB

(* So does every other stage of operate().                                 *)
LEMMA StagesKeepTypes ==
  ASSUME TypeInv, Operate
  PROVE  TypeInv'
<1> USE DEF TypeInv, dcmVars, mcVars, llcVars, ctlVars, modeVars
<1>1. CASE ReleaseFar \/ ReleaseNear \/ DrainWB
  BY <1>1, ReleaseFarTypes, ReleaseNearTypes, DrainWBTypes
<1>2. CASE FarReleased \/ NearReleased \/ NearWaits \/ FarWaits \/ ResponsesDelivered
  <2>1. frames' = <<>>
    BY <1>2, IdleFrames DEF FarReleased, NearReleased, NearWaits, FarWaits, ResponsesDelivered
  <2>2. ReleasedAtFront'
    BY <2>1, NoPopFrames
  <2>3. QED
    BY <1>2, <2>2 DEF FarReleased, NearReleased, NearWaits, FarWaits, ResponsesDelivered,
       TypeOK, DirtyLinesKnown, Phases
<1>3. ASSUME NEW a \in Addr, NearServeRead(a) \/ FarServeRead(a)
      PROVE  TypeInv'
  <2>1. PICK op \in {"doneNear", "doneFar"} : frames' = <<Frame(op, a)>>
    BY <1>3 DEF NearServeRead, FarServeRead
  <2>2. frames' \in Seq(FrameType)
    BY <2>1, FrameIsType, EmptySeq DEF Rest
  <2>3. ReleasedAtFront'
    <3>1. \A k \in DOMAIN <<Frame(op, a)>> : <<Frame(op, a)>>[k].op = op
      BY DEF Frame
    <3>2. QED
      BY <2>1, <3>1, NoPopFrames
  <2>4. call' \in CallType
    BY <1>3, CallIsType DEF NearServeRead, FarServeRead, HandlerNames
  <2>5. QED
    BY <1>3, <2>2, <2>3, <2>4 DEF NearServeRead, FarServeRead, TypeOK, DirtyLinesKnown, Phases
<1>4. ASSUME NEW a \in Addr, NearServeWrite(a) \/ FarServeWrite(a)
      PROVE  TypeInv'
  <2>1. frames' = <<>>
    BY <1>4, IdleFrames DEF NearServeWrite, FarServeWrite
  <2>2. ReleasedAtFront'
    BY <2>1, NoPopFrames
  <2>3. near' \in MemQueues /\ far' \in MemQueues /\ unsaved' \subseteq Addr
    BY <1>4 DEF NearServeWrite, FarServeWrite, TypeOK, MemQueues
  <2>4. QED
    BY <1>4, <2>2, <2>3 DEF NearServeWrite, FarServeWrite, TypeOK, DirtyLinesKnown, Phases
<1>5. CASE DeliverResponse
  <2>1. resp' \in Seq(Response) /\ Head(resp) \in Response
    BY <1>5, HeadTailProperties DEF DeliverResponse, TypeOK
  <2>2. llcWaiting \in [Addr -> Int] /\ Head(resp).addr \in Addr
    BY <2>1 DEF TypeOK, Response
  <2>3. llcWaiting' \in [Addr -> Int]
    BY <1>5, <2>2 DEF DeliverResponse
  <2>4. QED
    BY <1>5, <2>1, <2>3 DEF DeliverResponse, TypeOK, DirtyLinesKnown, ReleasedAtFront
<1>6. QED
  BY <1>1, <1>2, <1>3, <1>4, <1>5 DEF Operate

-----------------------------------------------------------------------------
(* The LLC's turn.                                                         *)

(* A request of the LLC finds no handler running.                          *)
LEMMA SubmitType ==
  ASSUME TypeInv, NEW p \in Packet, Submit(p)
  PROVE  /\ submitted' \in 0 .. MaxRequests /\ llcWaiting' \in [Addr -> Int]
         /\ frames = <<>>
<1>1. p.addr \in Addr /\ llcWaiting \in [Addr -> Int] /\ submitted \in 0 .. MaxRequests
  BY DEF Packet, TypeInv, TypeOK
<1>2. submitted' \in 0 .. MaxRequests
  BY <1>1, DcmAssumption DEF Submit
<1>3. llcWaiting' \in [Addr -> Int]
  BY <1>1 DEF Submit
<1>4. QED
  BY <1>2, <1>3, IdleFrames DEF Submit

(* The bypass branches of add_rq() and add_wq().                           *)
LEMMA AddBypassedTypes ==
  ASSUME TypeInv, NEW p \in Packet, AddBypassed(p)
  PROVE  TypeInv'
<1>1. p.addr \in Addr /\ <<>> \in Seq(FrameType)
  BY EmptySeq DEF Packet
<1>2. /\ submitted' \in 0 .. MaxRequests /\ llcWaiting' \in [Addr -> Int]
      /\ frames = <<>>
  BY SubmitType DEF AddBypassed
<1>3. far' \in MemQueues /\ pendingFar' \in Seq(HeldPkt)
  BY DispatchToFarType DEF AddBypassed, TypeInv
<1>4. call' \in CallType /\ frames' \in Seq(FrameType)
  BY <1>1, ContinueType DEF AddBypassed
<1>5. bypassReads' \in [Addr -> Int] /\ unsaved' \subseteq Addr
  <2>1. bypassReads \in [Addr -> Int] /\ unsaved \subseteq Addr
    BY DEF TypeInv, TypeOK
  <2>2. QED
    BY <1>1, <2>1 DEF AddBypassed
<1>6. ReleasedAtFront'
  <2>1. pendingFar # <<>> => pendingFar' # <<>>
    BY PendingFarKept DEF AddBypassed, TypeInv
  <2>2. frames' = frames \/ frames' = <<Frame("return_data", p.addr)>> \o frames
    BY <1>2 DEF AddBypassed, Continue
  <2>3. QED
    BY <1>1, <2>1, <2>2, FramesStep DEF AddBypassed
<1>7. QED
  BY <1>2, <1>3, <1>4, <1>5, <1>6 DEF AddBypassed, TypeInv, TypeOK, DirtyLinesKnown, modeVars

(* The two queues with countdowns.                                         *)
LEMMA ElapseTypes ==
  ASSUME TypeOK
  PROVE  Elapse(pendingFar) \in Seq(HeldPkt) /\ Elapse(resp) \in Seq(Response)
<1>1. pendingFar \in Seq(HeldPkt) /\ resp \in Seq(Response)
  BY DEF TypeOK
<1>2. \A e \in HeldPkt : [e EXCEPT !.hold = IF e.hold > 0 THEN e.hold - 1 ELSE 0] \in HeldPkt
  BY DEF HeldPkt
<1>3. \A e \in Response : [e EXCEPT !.hold = IF e.hold > 0 THEN e.hold - 1 ELSE 0] \in Response
  BY DEF Response
<1>4. QED
  BY <1>1, <1>2, <1>3, ElapseType

(* The LLC's turn keeps the type invariant.                                *)
LEMMA LlcKeepsTypes ==
  ASSUME TypeInv, Llc
  PROVE  TypeInv'
<1> USE DEF TypeInv, dcmVars, mcVars, llcVars, ctlVars, modeVars
<1>1. ASSUME NEW p \in Requests, AddBypassed(p)
      PROVE  TypeInv'
  BY <1>1, AddBypassedTypes DEF Requests
<1>2. ASSUME NEW p \in Requests, AddConflicting(p)
      PROVE  TypeInv'
  <2>1. /\ submitted' \in 0 .. MaxRequests /\ llcWaiting' \in [Addr -> Int]
        /\ frames = <<>>
    BY <1>2, SubmitType DEF AddConflicting, Requests
  <2>2. crb' \in Seq(Packet)
    BY <1>2, AppendProperties DEF AddConflicting, Requests, TypeOK
  <2>3. QED
    BY <1>2, <2>1, <2>2 DEF AddConflicting, TypeOK, DirtyLinesKnown, ReleasedAtFront
<1>3. ASSUME NEW p \in Requests, AddAdmitted(p)
      PROVE  TypeInv'
  <2>1. /\ submitted' \in 0 .. MaxRequests /\ llcWaiting' \in [Addr -> Int]
        /\ frames = <<>>
    BY <1>3, SubmitType DEF AddAdmitted, Requests
  <2>2. CASE UNCHANGED <<orb, tags, unsaved, call>>
    BY <1>3, <2>1, <2>2 DEF AddAdmitted, TypeOK, DirtyLinesKnown, ReleasedAtFront
  <2>3. CASE admitRequest(p)
    <3>1. /\ orb' \in [Addr -> OrbEntry] /\ tags' \in [Indices -> TagEntry]
          /\ DirtyLinesKnown' /\ unsaved' \subseteq Addr /\ call' \in CallType
      BY <2>3, AdmitType DEF Requests
    <3>2. QED
      BY <1>3, <2>1, <3>1 DEF AddAdmitted, TypeOK, ReleasedAtFront
  <2>4. QED
    BY <1>3, <2>2, <2>3 DEF AddAdmitted
<1>4. ASSUME NEW p \in Requests, WarmupAccess(p)
      PROVE  TypeInv'
  <2>1. tags' \in [Indices -> TagEntry] /\ DirtyLinesKnown'
    BY <1>4, InstalledType DEF WarmupAccess, Requests, Packet, DirtyLinesKnown
  <2>2. unsaved' \subseteq Addr
    BY <1>4, <2>1 DEF WarmupAccess, DirtyLinesKnown
  <2>3. QED
    BY <1>4, <2>1, <2>2 DEF WarmupAccess, TypeOK, ReleasedAtFront
<1>5. CASE CompleteWarmup \/ setBypassDcache
  BY <1>5 DEF CompleteWarmup, setBypassDcache, TypeOK, DirtyLinesKnown, ReleasedAtFront
<1>6. CASE NextCycle
  <2>1. frames' = <<>>
    BY <1>6, IdleFrames DEF NextCycle
  <2>2. pendingFar' \in Seq(HeldPkt) /\ resp' \in Seq(Response)
    BY <1>6, ElapseTypes DEF NextCycle
  <2>3. ReleasedAtFront'
    BY <2>1, NoPopFrames
  <2>4. QED
    BY <1>6, <2>2, <2>3 DEF NextCycle, TypeOK, DirtyLinesKnown, Phases
<1>7. QED
  BY <1>1, <1>2, <1>3, <1>4, <1>5, <1>6 DEF Llc

-----------------------------------------------------------------------------

(* The constructor establishes it.                                         *)
LEMMA InitTypes == Init => TypeInv
<1> SUFFICES ASSUME Init PROVE TypeInv
  OBVIOUS
<1>1. tags \in [Indices -> TagEntry] /\ orb \in [Addr -> OrbEntry]
  BY DEF Init, TagEntry, OrbEntry, NoEntry
<1>2. bypassReads \in [Addr -> Int] /\ llcWaiting \in [Addr -> Int]
  BY DEF Init
<1>3. /\ crb \in Seq(Packet) /\ wb \in Seq(Addr) /\ pendingNear \in Seq(Packet)
      /\ pendingFar \in Seq(HeldPkt) /\ resp \in Seq(Response)
      /\ frames \in Seq(FrameType)
  BY EmptySeq DEF Init
<1>4. near \in MemQueues /\ far \in MemQueues
  BY DEF Init, MemQueues
<1>5. /\ policy \in Policies /\ bypass \in BOOLEAN /\ warm \in BOOLEAN
      /\ phase \in Phases /\ call \in CallType
      /\ submitted \in 0 .. MaxRequests /\ unsaved \subseteq Addr
  <2>1. bypass \in BOOLEAN
    BY DcmAssumption, Zenon DEF Init
  <2>2. submitted \in 0 .. MaxRequests
    BY DcmAssumption DEF Init
  <2>3. QED
    BY <2>1, <2>2 DEF Init, Phases, CallType
<1>6. TypeOK
  BY <1>1, <1>2, <1>3, <1>4, <1>5 DEF TypeOK
<1>7. DirtyLinesKnown /\ ReleasedAtFront
  BY DEF Init, DirtyLinesKnown, ReleasedAtFront
<1>8. QED
  BY <1>6, <1>7 DEF TypeInv

(* Every step keeps it.                                                    *)
LEMMA NextKeepsTypes == TypeInv /\ [Next]_vars => TypeInv'
<1> SUFFICES ASSUME TypeInv, [Next]_vars PROVE TypeInv'
  OBVIOUS
<1>1. CASE Next
  BY <1>1, HandlersKeepTypes, StagesKeepTypes, LlcKeepsTypes DEF Next
<1>2. CASE UNCHANGED vars
  BY <1>2 DEF TypeInv, TypeOK, DirtyLinesKnown, ReleasedAtFront, vars, dcmVars,
     mcVars, llcVars, ctlVars, modeVars
<1>3. QED
  BY <1>1, <1>2

(* The inductive form of type correctness: with the types, every dirty     *)
(* line of the tag store has its far address, and a pending dispatch that  *)
(* was forwarded is still at the front of its queue when return_data() is  *)
(* back.                                                                   *)
THEOREM TypeInvariant == Spec => []TypeInv
BY InitTypes, NextKeepsTypes, PTL DEF Spec

(* Type correctness: no handler of DRAM_CACHE_MANAGER, in whatever order   *)
(* they nest, reads or leaves a member outside its type; in particular no  *)
(* pending dispatch is popped from an empty queue.                         *)
THEOREM TypeCorrect == Spec => []TypeOK
BY TypeInvariant, PTL DEF TypeInv

-----------------------------------------------------------------------------
(* One request per index.                                                  *)

(* While promoteFromCRB() is about to run for an index nobody owns it.     *)
FreedIndex ==
  call.fn = "promoteFromCRB" => ~Busy(returnIndexDC(call.addr))

IndexInv == OneRequestPerIndex /\ FreedIndex

(* A step that neither admits nor ends a request.                          *)
LEMMA IndexInvKept ==
  ASSUME IndexInv,
         \A a \in Addr : InOrb(a)' <=> InOrb(a),
         call' # call => call'.fn # "promoteFromCRB"
  PROVE  IndexInv'
BY DEF IndexInv, OneRequestPerIndex, FreedIndex, Busy, Admitted

(* A step that admits p, nobody owning its index.                          *)
LEMMA IndexInvAdmit ==
  ASSUME TypeInv, IndexInv, NEW p \in Packet, admitRequest(p),
         ~Busy(returnIndexDC(p.addr))
  PROVE  IndexInv'
<1>1. p.addr \in Addr
  BY DEF Packet
<1>2. \A a \in Addr : InOrb(a)' => InOrb(a) \/ a = p.addr
  BY DEF admitRequest, InOrb, TypeInv, TypeOK
<1>3. call'.fn # "promoteFromCRB"
  BY DEF admitRequest, Call
<1>4. OneRequestPerIndex'
  BY <1>1, <1>2 DEF IndexInv, OneRequestPerIndex, Admitted, Busy
<1>5. QED
  BY <1>3, <1>4 DEF IndexInv, FreedIndex

(* A step that ends the request of a.                                      *)
LEMMA IndexInvComplete ==
  ASSUME TypeInv, IndexInv, NEW a \in Addr, NEW d, InOrb(a), completeRequest(a, d)
  PROVE  IndexInv'
<1>1. \A b \in Addr : InOrb(b)' => InOrb(b) /\ b # a
  BY DEF completeRequest, InOrb, NoEntry, TypeInv, TypeOK
<1>2. OneRequestPerIndex'
  BY <1>1 DEF IndexInv, OneRequestPerIndex, Admitted
<1>3. call' = Call("promoteFromCRB", a)
  BY DEF completeRequest
<1>4. ~Busy(returnIndexDC(a))'
  BY <1>1 DEF IndexInv, OneRequestPerIndex, Admitted, Busy
<1>5. QED
  BY <1>2, <1>3, <1>4 DEF IndexInv, FreedIndex, Call

(* What runs after trySend() is never promoteFromCRB().                    *)
LEMMA ContinueCall ==
  ASSUME NEW o, NEW p, NEW rest, Continue(o, p, rest)
  PROVE  call'.fn # "promoteFromCRB"
BY DEF Continue, Call, NoCall

(* Handlers keep it: only promoteFromCRB() admits, for the index just      *)
(* freed.                                                                  *)
LEMMA HandlersKeepIndexInv ==
  ASSUME TypeInv, IndexInv, Handler
  PROVE  IndexInv'
<1> USE DEF dcmVars, mcVars, llcVars, ctlVars, modeVars
<1>1. CASE DriveLocMemRead \/ DriveFarMemRead
  <2>1. call.addr \in Addr
    BY <1>1, CallAddrType DEF DriveLocMemRead, DriveFarMemRead, TypeInv
  <2>2. PICK st \in Waiting : orb' = [orb EXCEPT ![call.addr].state = st]
    BY <1>1 DEF DriveLocMemRead, DriveFarMemRead, Waiting
  <2>3. InOrb(call.addr) /\ orb \in [Addr -> OrbEntry]
    BY <1>1 DEF DriveLocMemRead, DriveFarMemRead, InOrb, TypeInv, TypeOK
  <2>4. \A a \in Addr : InOrb(a)' <=> InOrb(a)
    BY <2>1, <2>2, <2>3 DEF InOrb, OrbEntry, Waiting
  <2>5. call'.fn # "promoteFromCRB"
    BY <1>1, ContinueCall DEF DriveLocMemRead, DriveFarMemRead
  <2>6. QED
    BY <2>4, <2>5, IndexInvKept
<1>2. CASE DriveLocMemWrite
  <2>1. call.addr \in Addr /\ InOrb(call.addr) /\ completeRequest(call.addr, 0)
    BY <1>2, CallAddrType DEF DriveLocMemWrite, InOrb, TypeInv
  <2>2. QED
    BY <2>1, IndexInvComplete
<1>3. CASE Promote
  <2>1. PICK k \in DOMAIN crb :
          IsOldest(k, SameIndex(call.addr)) /\ admitRequest(crb[k])
    BY <1>3 DEF Promote
  <2>2. crb[k] \in Packet
    BY LenProperties, ElementOfSeq DEF TypeInv, TypeOK
  <2>3. returnIndexDC(crb[k].addr) = returnIndexDC(call.addr)
    BY <2>1 DEF IsOldest, SameIndex
  <2>4. ~Busy(returnIndexDC(crb[k].addr))
    BY <1>3, <2>3 DEF Promote, IndexInv, FreedIndex
  <2>5. QED
    BY <2>1, <2>2, <2>4, IndexInvAdmit
<1>4. CASE NothingToPromote \/ ReturnBypassed \/ ReturnUntracked
           \/ ResumeReturn \/ ResumeFill \/ ResumePop \/ ResumeDone
  <2>1. UNCHANGED orb /\ (call' # call => call'.fn # "promoteFromCRB")
    BY <1>4 DEF NothingToPromote, ReturnBypassed, ReturnUntracked, ResumeReturn,
       ResumeFill, ResumePop, ResumeDone, Call, NoCall
  <2>2. QED
    BY <2>1, IndexInvKept DEF InOrb
<1>5. CASE ReturnTagReadHit
  <2>1. /\ call.addr \in Addr /\ InOrb(call.addr)
        /\ completeRequest(call.addr, FrontendLatency + BackendLatency)
    BY <1>5, ReturnedType DEF ReturnTagReadHit, InOrb, TypeInv
  <2>2. QED
    BY <2>1, IndexInvComplete
<1>6. CASE ReturnFarRead
  <2>1. /\ call.addr \in Addr /\ InOrb(call.addr)
        /\ completeRequest(call.addr, FrontendLatency + BackendLatency + BackendLatency)
    BY <1>6, ReturnedType DEF ReturnFarRead, InOrb, TypeInv
  <2>2. QED
    BY <2>1, IndexInvComplete
<1>7. CASE ReturnTagRead
  <2>1. call.addr \in Addr
    BY <1>7, ReturnedType DEF ReturnTagRead, TypeInv
  <2>2. \A a \in Addr : InOrb(a)' <=> InOrb(a)
    BY <1>7, <2>1 DEF ReturnTagRead, InOrb, TypeInv, TypeOK
  <2>3. call'.fn # "promoteFromCRB"
    BY <1>7 DEF ReturnTagRead, Call
  <2>4. QED
    BY <2>2, <2>3, IndexInvKept
<1>8. QED
  BY <1>1, <1>2, <1>3, <1>4, <1>5, <1>6, <1>7 DEF Handler

(* The stages of operate() admit nothing and end nothing themselves.       *)
LEMMA StagesKeepIndexInv ==
  ASSUME IndexInv, Operate
  PROVE  IndexInv'
<1>1. UNCHANGED orb
  BY DEF Operate, ReleaseFar, FarReleased, DrainWB, ReleaseNear, NearReleased,
     NearServeRead, NearServeWrite, FarServeRead, FarServeWrite, NearWaits,
     FarWaits, DeliverResponse, ResponsesDelivered, dcmVars
<1>2. call' # call => call'.fn # "promoteFromCRB"
  BY DEF Operate, ReleaseFar, FarReleased, DrainWB, ReleaseNear, NearReleased,
     NearServeRead, NearServeWrite, FarServeRead, FarServeWrite, NearWaits,
     FarWaits, DeliverResponse, ResponsesDelivered, ctlVars, Continue, Call, NoCall
<1>3. QED
  BY <1>1, <1>2, IndexInvKept DEF InOrb

(* add_rq() and add_wq() admit after checkConflictInORB() only.            *)
LEMMA LlcKeepsIndexInv ==
  ASSUME TypeInv, IndexInv, Llc
  PROVE  IndexInv'
<1> USE DEF dcmVars, ctlVars
<1>1. ASSUME NEW p \in Requests, AddAdmitted(p), admitRequest(p)
      PROVE  IndexInv'
  BY <1>1, IndexInvAdmit DEF AddAdmitted, Requests
<1>2. ASSUME UNCHANGED orb, call' # call => call'.fn # "promoteFromCRB"
      PROVE  IndexInv'
  BY <1>2, IndexInvKept DEF InOrb
<1>3. ASSUME NEW p \in Requests, AddBypassed(p) \/ AddConflicting(p) \/ WarmupAccess(p)
      PROVE  IndexInv'
  BY <1>2, <1>3 DEF AddBypassed, AddConflicting, WarmupAccess, Continue, Call, NoCall
<1>4. ASSUME NEW p \in Requests, AddAdmitted(p), UNCHANGED <<orb, call>>
      PROVE  IndexInv'
  BY <1>2, <1>4
<1>5. CASE CompleteWarmup \/ setBypassDcache \/ NextCycle
  BY <1>2, <1>5 DEF CompleteWarmup, setBypassDcache, NextCycle
<1>6. QED
  BY <1>1, <1>3, <1>4, <1>5 DEF Llc, AddAdmitted

(* Every step keeps one request per index.                                 *)
LEMMA NextKeepsIndexInv == TypeInv /\ IndexInv /\ [Next]_vars => IndexInv'
<1> SUFFICES ASSUME TypeInv, IndexInv, [Next]_vars PROVE IndexInv'
  OBVIOUS
<1>1. CASE Next
  BY <1>1, HandlersKeepIndexInv, StagesKeepIndexInv, LlcKeepsIndexInv DEF Next
<1>2. CASE UNCHANGED vars
  BY <1>2, IndexInvKept DEF InOrb, vars, dcmVars, ctlVars
<1>3. QED
  BY <1>1, <1>2

(* The constructor establishes it.                                         *)
LEMMA InitIndexInv == Init => IndexInv
BY DEF Init, IndexInv, OneRequestPerIndex, FreedIndex, Admitted, InOrb, NoEntry,
   NoCall, Call

(* The inductive form of one request per index: promoteFromCRB() only runs *)
(* for an index that no admitted request holds.                            *)
THEOREM IndexInvariant == Spec => []IndexInv
BY TypeInvariant, InitIndexInv, NextKeepsIndexInv, PTL DEF Spec

(* No two admitted requests ever share a DRAM-cache index: not when        *)
(* promoteFromCRB() runs inside return_data() or driveState(), and not     *)
(* when a request arrives at an index whose owner completes in this cycle. *)
THEOREM OneOwner == Spec => []OneRequestPerIndex
BY IndexInvariant, PTL DEF IndexInv

-----------------------------------------------------------------------------
(* No request is stranded in the CRB.                                      *)

(* A step that leaves the CRB alone and ends no request, with no promotion *)
(* due before it.                                                          *)
LEMMA HeldKept ==
  ASSUME TypeInv, HeldHasBlocker, call.fn # "promoteFromCRB", crb' = crb,
         \A a \in Addr : InOrb(a) => InOrb(a)'
  PROVE  HeldHasBlocker'
BY DEF HeldHasBlocker, Busy

(* A step that ends the request of a: a promotion is due for its index.    *)
LEMMA HeldComplete ==
  ASSUME TypeInv, HeldHasBlocker, call.fn # "promoteFromCRB", crb' = crb,
         NEW a \in Addr, NEW d, completeRequest(a, d)
  PROVE  HeldHasBlocker'
<1>1. \A b \in Addr : InOrb(b) /\ b # a => InOrb(b)'
  BY DEF completeRequest, InOrb, TypeInv, TypeOK
<1>2. call'.fn = "promoteFromCRB" /\ call'.addr = a
  BY DEF completeRequest, Call
<1>3. ASSUME NEW k \in DOMAIN crb
      PROVE  \/ Busy(returnIndexDC(crb[k].addr))'
             \/ returnIndexDC(a) = returnIndexDC(crb[k].addr)
  BY <1>1 DEF HeldHasBlocker, Busy
<1>4. QED
  BY <1>2, <1>3 DEF HeldHasBlocker

(* A promotion leaves its index with an owner, and the others as they      *)
(* were.                                                                   *)
LEMMA HeldPromote ==
  ASSUME TypeInv, HeldHasBlocker, Promote
  PROVE  HeldHasBlocker'
<1>1. PICK k \in DOMAIN crb : /\ IsOldest(k, SameIndex(call.addr))
                              /\ crb' = RemoveAt(crb, k) /\ admitRequest(crb[k])
  BY DEF Promote
<1>2. crb \in Seq(Packet)
  BY DEF TypeInv, TypeOK
<1>3. crb[k] \in Packet /\ crb[k].addr \in Addr
  <2>1. crb[k] \in Packet
    BY <1>2, LenProperties, ElementOfSeq
  <2>2. QED
    BY <2>1 DEF Packet
<1>4. returnIndexDC(crb[k].addr) = returnIndexDC(call.addr)
  BY <1>1 DEF IsOldest, SameIndex
<1> DEFINE Owned(i) == \E a \in Addr : orb'[a].state # "none" /\ returnIndexDC(a) = i
<1>5. /\ orb'[crb[k].addr].state # "none"
      /\ \A a \in Addr : orb[a].state # "none" => orb'[a].state # "none"
  <2>1. chooseInitialState(crb[k].addr, crb[k].isWrite) # "none"
    BY InitialStateType DEF ToDrive
  <2>2. orb \in [Addr -> OrbEntry]
    BY DEF TypeInv, TypeOK
  <2>3. /\ orb'[crb[k].addr].state = chooseInitialState(crb[k].addr, crb[k].isWrite)
        /\ \A a \in Addr \ {crb[k].addr} : orb'[a] = orb[a]
    BY <1>1, <1>3, <2>2 DEF admitRequest
  <2>4. QED
    BY <2>1, <2>3
<1>6. Owned(returnIndexDC(call.addr))
  BY <1>3, <1>4, <1>5
<1>7. ASSUME NEW i \in DOMAIN crb'
      PROVE  \E j \in DOMAIN crb : crb'[i] = crb[j]
  BY <1>1, <1>2, RemoveAtProperties
<1>8. ASSUME NEW j \in DOMAIN crb
      PROVE  Owned(returnIndexDC(crb[j].addr))
  <2>1. CASE returnIndexDC(crb[j].addr) = returnIndexDC(call.addr)
    BY <1>6, <2>1
  <2>2. CASE Busy(returnIndexDC(crb[j].addr))
    BY <1>5, <2>2 DEF Busy, InOrb
  <2>3. QED
    BY <2>1, <2>2 DEF HeldHasBlocker
<1>9. \A i \in DOMAIN crb' : Owned(returnIndexDC(crb'[i].addr))
  BY <1>7, <1>8
<1>10. QED
  BY <1>9 DEF HeldHasBlocker, Busy, InOrb

(* Handlers keep a blocker for every held request.                         *)
LEMMA HandlersKeepHeld ==
  ASSUME TypeInv, HeldHasBlocker, Handler
  PROVE  HeldHasBlocker'
<1> USE DEF dcmVars, mcVars, llcVars, ctlVars, modeVars
<1>1. CASE DriveLocMemRead \/ DriveFarMemRead
  <2>1. call.fn # "promoteFromCRB" /\ crb' = crb
    BY <1>1 DEF DriveLocMemRead, DriveFarMemRead
  <2>2. PICK st \in Waiting : orb' = [orb EXCEPT ![call.addr].state = st]
    BY <1>1 DEF DriveLocMemRead, DriveFarMemRead, Waiting
  <2>3. orb \in [Addr -> OrbEntry]
    BY DEF TypeInv, TypeOK
  <2>4. \A a \in Addr : InOrb(a) => InOrb(a)'
    BY <2>2, <2>3 DEF InOrb, OrbEntry, Waiting
  <2>5. QED
    BY <2>1, <2>4, HeldKept
<1>2. CASE DriveLocMemWrite
  <2>1. /\ call.addr \in Addr /\ completeRequest(call.addr, 0)
        /\ call.fn # "promoteFromCRB" /\ crb' = crb
    BY <1>2, CallAddrType DEF DriveLocMemWrite, TypeInv
  <2>2. QED
    BY <2>1, HeldComplete
<1>3. CASE Promote
  BY <1>3, HeldPromote
<1>4. CASE NothingToPromote
  <2>1. /\ UNCHANGED <<crb, orb>>
        /\ \A k \in DOMAIN crb : returnIndexDC(crb[k].addr) # returnIndexDC(call.addr)
    <3>1. crb \in Seq(Packet)
      BY DEF TypeInv, TypeOK
    <3>2. DOMAIN crb = 1 .. Len(crb)
      BY <3>1, LenProperties
    <3>3. QED
      BY <1>4, <3>2 DEF NothingToPromote, SameIndex
  <2>2. QED
    BY <2>1 DEF HeldHasBlocker, Busy, InOrb
<1>5. CASE ReturnBypassed \/ ReturnUntracked
           \/ ResumeReturn \/ ResumeFill \/ ResumePop \/ ResumeDone
  <2>1. UNCHANGED <<crb, orb>> /\ call.fn # "promoteFromCRB"
    BY <1>5 DEF ReturnBypassed, ReturnUntracked, Returned, ResumeReturn, ResumeFill,
       ResumePop, ResumeDone, Resume, Call, NoCall
  <2>2. QED
    BY <2>1, HeldKept DEF InOrb
<1>6. CASE ReturnTagReadHit
  <2>1. /\ call.addr \in Addr /\ call.fn # "promoteFromCRB" /\ crb' = crb
        /\ completeRequest(call.addr, FrontendLatency + BackendLatency)
    BY <1>6, ReturnedType DEF ReturnTagReadHit, TypeInv, Returned, Call
  <2>2. QED
    BY <2>1, HeldComplete
<1>7. CASE ReturnFarRead
  <2>1. /\ call.addr \in Addr /\ call.fn # "promoteFromCRB" /\ crb' = crb
        /\ completeRequest(call.addr, FrontendLatency + BackendLatency + BackendLatency)
    BY <1>7, ReturnedType DEF ReturnFarRead, TypeInv, Returned, Call
  <2>2. QED
    BY <2>1, HeldComplete
<1>8. CASE ReturnTagRead
  <2>1. call.fn # "promoteFromCRB" /\ crb' = crb
    BY <1>8 DEF ReturnTagRead, Returned, Call
  <2>2. PICK st \in ToDrive : orb' = [orb EXCEPT ![call.addr].state = st]
    BY <1>8 DEF ReturnTagRead, ToDrive
  <2>3. orb \in [Addr -> OrbEntry]
    BY DEF TypeInv, TypeOK
  <2>4. \A a \in Addr : InOrb(a) => InOrb(a)'
    BY <2>2, <2>3 DEF InOrb, OrbEntry, ToDrive
  <2>5. QED
    BY <2>1, <2>4, HeldKept
<1>9. QED
  BY <1>1, <1>2, <1>3, <1>4, <1>5, <1>6, <1>7, <1>8 DEF Handler

(* The stages of operate() leave ORB and CRB alone.                        *)
LEMMA StagesKeepHeld ==
  ASSUME TypeInv, HeldHasBlocker, Operate
  PROVE  HeldHasBlocker'
<1>1. UNCHANGED <<crb, orb>>
  BY DEF Operate, ReleaseFar, FarReleased, DrainWB, ReleaseNear, NearReleased,
     NearServeRead, NearServeWrite, FarServeRead, FarServeWrite, NearWaits,
     FarWaits, DeliverResponse, ResponsesDelivered, dcmVars
<1>2. call.fn # "promoteFromCRB"
  BY DEF Operate, ReleaseFar, FarReleased, DrainWB, ReleaseNear, NearReleased,
     NearServeRead, NearServeWrite, FarServeRead, FarServeWrite, NearWaits,
     FarWaits, DeliverResponse, ResponsesDelivered, At, Idle, Call, NoCall
<1>3. QED
  BY <1>1, <1>2, HeldKept DEF InOrb

(* A request is held only behind one that owns its index.                  *)
LEMMA LlcKeepsHeld ==
  ASSUME TypeInv, HeldHasBlocker, Llc
  PROVE  HeldHasBlocker'
<1> USE DEF dcmVars, ctlVars
<1>1. call.fn # "promoteFromCRB"
  BY DEF Llc, AddBypassed, AddConflicting, AddAdmitted, Submit, WarmupAccess,
     CompleteWarmup, setBypassDcache, NextCycle, At, Idle, NoCall, Call
<1>2. ASSUME UNCHANGED <<crb, orb>>
      PROVE  HeldHasBlocker'
  BY <1>1, <1>2, HeldKept DEF InOrb
<1>3. ASSUME NEW p \in Requests, AddConflicting(p)
      PROVE  HeldHasBlocker'
  <2>1. crb \in Seq(Packet) /\ p \in Packet
    BY DEF TypeInv, TypeOK, Requests
  <2>2. UNCHANGED orb /\ Busy(returnIndexDC(p.addr)) /\ crb' \in {crb, Append(crb, p)}
    BY <1>3 DEF AddConflicting
  <2>3. \A i \in DOMAIN Append(crb, p) :
          (i \in DOMAIN crb /\ Append(crb, p)[i] = crb[i]) \/ Append(crb, p)[i] = p
    <3>1. /\ Append(crb, p) \in Seq(Packet) /\ Len(Append(crb, p)) = Len(crb) + 1
          /\ \A i \in 1 .. Len(crb) : Append(crb, p)[i] = crb[i]
          /\ Append(crb, p)[Len(crb) + 1] = p
      BY <2>1, AppendProperties
    <3>2. /\ Len(crb) \in Nat /\ DOMAIN crb = 1 .. Len(crb)
          /\ DOMAIN Append(crb, p) = 1 .. Len(crb) + 1
      BY <2>1, <3>1, LenProperties
    <3>3. QED
      BY <3>1, <3>2
  <2>4. CASE crb' = crb
    BY <1>2, <2>2, <2>4
  <2>5. CASE crb' = Append(crb, p)
    BY <1>1, <2>2, <2>3, <2>5 DEF HeldHasBlocker, Busy, InOrb
  <2>6. QED
    BY <2>2, <2>4, <2>5
<1>4. ASSUME NEW p \in Requests, AddAdmitted(p)
      PROVE  HeldHasBlocker'
  <2>1. crb' = crb
    BY <1>4 DEF AddAdmitted
  <2>2. \A a \in Addr : InOrb(a) => InOrb(a)'
    <3>1. chooseInitialState(p.addr, p.isWrite) # "none"
      BY InitialStateType DEF ToDrive
    <3>2. orb' = orb \/ \E e : e.state # "none" /\ orb' = [orb EXCEPT ![p.addr] = e]
      BY <1>4, <3>1 DEF AddAdmitted, admitRequest
    <3>3. orb \in [Addr -> OrbEntry]
      BY DEF TypeInv, TypeOK
    <3>4. QED
      BY <3>2, <3>3 DEF InOrb
  <2>3. QED
    BY <1>1, <2>1, <2>2, HeldKept
<1>5. QED
  BY <1>2, <1>3, <1>4 DEF Llc, AddBypassed, WarmupAccess, CompleteWarmup,
     setBypassDcache, NextCycle

(* Every step keeps a blocker for every held request.                      *)
LEMMA NextKeepsHeld == TypeInv /\ HeldHasBlocker /\ [Next]_vars => HeldHasBlocker'
<1> SUFFICES ASSUME TypeInv, HeldHasBlocker, [Next]_vars PROVE HeldHasBlocker'
  OBVIOUS
<1>1. CASE Next
  BY <1>1, HandlersKeepHeld, StagesKeepHeld, LlcKeepsHeld DEF Next
<1>2. CASE UNCHANGED vars
  BY <1>2 DEF HeldHasBlocker, Busy, InOrb, vars, dcmVars, ctlVars
<1>3. QED
  BY <1>1, <1>2

(* The constructor leaves the CRB empty.                                   *)
LEMMA InitHeld == Init => HeldHasBlocker
BY DEF Init, HeldHasBlocker

(* No request is stranded in the CRB: whenever one is held for an index, a *)
(* request of that index is admitted, or has just completed and            *)
(* promoteFromCRB() is about to run for it.                                *)
THEOREM NoneStranded == Spec => []HeldHasBlocker
BY TypeInvariant, InitHeld, NextKeepsHeld, PTL DEF Spec

-----------------------------------------------------------------------------
(* Dispatches to near memory are not reordered.                            *)

InOrder(newNear) ==
  \A p \in Reaches(near, newNear) :
    pendingNear # <<>> => /\ Head(pendingNear).addr = p.addr
                          /\ Head(pendingNear).isWrite = p.isWrite

(* A step that adds nothing to nearMC's queues.                            *)
LEMMA NothingReaches ==
  ASSUME NEW mc, mc.rq \subseteq near.rq, mc.wq \subseteq near.wq
  PROVE  InOrder(mc)
BY DEF InOrder, Reaches

(* dispatchToNear() sends nothing while a dispatch is pending.             *)
LEMMA DispatchInOrder ==
  ASSUME NEW p, dispatchToNear(p)
  PROVE  InOrder(near')
<1>1. CASE pendingNear = <<>>
  BY <1>1 DEF InOrder
<1>2. CASE pendingNear # <<>>
  <2>1. near' = near
    BY <1>2 DEF dispatchToNear, NearOutcome, After
  <2>2. QED
    BY <2>1, NothingReaches
<1>3. QED
  BY <1>1, <1>2

(* processPendingNearDispatches() sends the front.                         *)
LEMMA ReleaseInOrder ==
  ASSUME TypeOK, ReleaseNear
  PROVE  InOrder(near')
<1> DEFINE p == Head(pendingNear)  outcome == trySend(near, p)
<1>1. near \in MemQueues /\ p \in Packet
  <2>1. pendingNear \in Seq(Packet) /\ pendingNear # <<>> /\ near \in MemQueues
    BY DEF ReleaseNear, TypeOK
  <2>2. QED
    BY <2>1, HeadTailProperties
<1>2. near' = After(outcome, near, p)
  BY DEF ReleaseNear
<1>3. CASE outcome # "queued"
  <2>1. near' = near
    BY <1>2, <1>3 DEF After
  <2>2. QED
    BY <2>1, NothingReaches
<1>4. CASE outcome = "queued" /\ p.isWrite
  <2>1. near'.rq = near.rq /\ near'.wq = near.wq \cup {p.addr}
    BY <1>1, <1>2, <1>4 DEF After, Enqueued, MemQueues
  <2>2. QED
    BY <1>4, <2>1 DEF InOrder, Reaches
<1>5. CASE outcome = "queued" /\ ~p.isWrite
  <2>1. near'.wq = near.wq /\ near'.rq = near.rq \cup {p.addr}
    BY <1>1, <1>2, <1>5 DEF After, Enqueued, MemQueues
  <2>2. p.isWrite = FALSE
    BY <1>1, <1>5 DEF Packet
  <2>3. QED
    BY <2>1, <2>2 DEF InOrder, Reaches
<1>6. QED
  BY <1>3, <1>4, <1>5

(* A handler adds to nearMC by dispatchToNear() only.                      *)
LEMMA HandlersInOrder ==
  ASSUME TypeOK, Handler
  PROVE  InOrder(near')
<1> USE DEF dcmVars, mcVars
<1>1. CASE DriveLocMemRead \/ DriveLocMemWrite \/ ResumeFill
  BY <1>1, DispatchInOrder DEF DriveLocMemRead, DriveLocMemWrite, ResumeFill
<1>2. CASE ResumeDone
  <2>1. near'.rq \subseteq near.rq /\ near'.wq \subseteq near.wq
    BY <1>2 DEF ResumeDone, TypeOK, MemQueues
  <2>2. QED
    BY <2>1, NothingReaches
<1>3. CASE \/ DriveFarMemRead \/ Promote \/ NothingToPromote \/ ReturnBypassed
           \/ ReturnTagReadHit \/ ReturnTagRead \/ ReturnFarRead
           \/ ReturnUntracked \/ ResumeReturn \/ ResumePop
  <2>1. near' = near
    BY <1>3 DEF DriveFarMemRead, Promote, NothingToPromote, ReturnBypassed,
       ReturnTagReadHit, ReturnTagRead, ReturnFarRead, ReturnUntracked,
       ResumeReturn, ResumePop
  <2>2. QED
    BY <2>1, NothingReaches
<1>4. QED
  BY <1>1, <1>2, <1>3 DEF Handler

(* Nothing but the stage of the near dispatches adds to nearMC.            *)
LEMMA StagesInOrder ==
  ASSUME TypeOK, Operate
  PROVE  InOrder(near')
<1> USE DEF dcmVars, mcVars
<1>1. CASE ReleaseNear
  BY <1>1, ReleaseInOrder
<1>2. ASSUME NEW a \in Addr, NearServeWrite(a)
      PROVE  InOrder(near')
  <2>1. near'.rq \subseteq near.rq /\ near'.wq \subseteq near.wq
    BY <1>2 DEF NearServeWrite, TypeOK, MemQueues
  <2>2. QED
    BY <2>1, NothingReaches
<1>3. ASSUME NEW a \in Addr,
             NearServeRead(a) \/ FarServeRead(a) \/ FarServeWrite(a)
      PROVE  InOrder(near')
  <2>1. near' = near
    BY <1>3 DEF NearServeRead, FarServeRead, FarServeWrite
  <2>2. QED
    BY <2>1, NothingReaches
<1>4. CASE \/ ReleaseFar \/ FarReleased \/ DrainWB \/ NearReleased \/ NearWaits
           \/ FarWaits \/ DeliverResponse \/ ResponsesDelivered
  <2>1. near' = near
    BY <1>4 DEF ReleaseFar, FarReleased, DrainWB, NearReleased, NearWaits,
       FarWaits, DeliverResponse, ResponsesDelivered
  <2>2. QED
    BY <2>1, NothingReaches
<1>5. QED
  BY <1>1, <1>2, <1>3, <1>4 DEF Operate

(* The LLC's turn: add_rq() and add_wq() reach nearMC through driveState().  *)
LEMMA LlcInOrder ==
  ASSUME Llc
  PROVE  InOrder(near')
<1>1. near' = near
  BY DEF Llc, AddBypassed, AddConflicting, AddAdmitted, WarmupAccess,
     CompleteWarmup, setBypassDcache, NextCycle, mcVars
<1>2. QED
  BY <1>1, NothingReaches

(* No step of the manager lets a request reach nearMC before a dispatch    *)
(* that has been pending since before: dispatchToNear() looks at           *)
(* pendingNearDispatches on every path, reads, local writes and background *)
(* fills alike, and only the front is released.                            *)
THEOREM NearInOrder == Spec => NearDispatchInOrder
<1>1. TypeInv /\ [Next]_vars => [InOrder(near')]_vars
  BY HandlersInOrder, StagesInOrder, LlcInOrder DEF Next, TypeInv
<1>2. [InOrder(near')]_vars =>
        [\A p \in Reaches(near, near') :
           pendingNear # <<>> => /\ Head(pendingNear).addr = p.addr
                                 /\ Head(pendingNear).isWrite = p.isWrite]_vars
  BY DEF InOrder
<1>3. QED
  BY <1>1, <1>2, TypeInvariant, PTL DEF Spec, NearDispatchInOrder
=============================================================================
