--------------------------- MODULE DcmReadsProofs ---------------------------
(***************************************************************************)
(* Proofs that DRAM_CACHE_MANAGER answers every read the LLC hands down    *)
(* once, wherever it is held in between.                                   *)
(***************************************************************************)
EXTENDS DcmQueueProofs, FunctionTheorems

-----------------------------------------------------------------------------
(* Counting the elements of a queue that are in a set.                     *)

Hits(s, M)    == {k \in DOMAIN s : s[k] \in M}
CountIn(s, M) == Cardinality(Hits(s, M))

(* A count is a number.                                                    *)
LEMMA CountType ==
  ASSUME NEW S, NEW s \in Seq(S), NEW M
  PROVE  IsFiniteSet(Hits(s, M)) /\ CountIn(s, M) \in Nat
<1>1. DOMAIN s = 1 .. Len(s) /\ Len(s) \in Nat
  BY LenProperties
<1>2. IsFiniteSet(1 .. Len(s))
  BY <1>1, FS_Interval
<1>3. IsFiniteSet(Hits(s, M))
  BY <1>1, <1>2, FS_Subset DEF Hits
<1>4. QED
  BY <1>3, FS_CardinalityType DEF CountIn

LEMMA CountNone ==
  ASSUME NEW s, NEW M, \A k \in DOMAIN s : s[k] \notin M
  PROVE  CountIn(s, M) = 0
<1>1. Hits(s, M) = {}
  BY DEF Hits
<1>2. QED
  BY <1>1, FS_EmptySet DEF CountIn

LEMMA CountEmpty == \A M : CountIn(<<>>, M) = 0
<1>1. TAKE M
<1>2. \A k \in DOMAIN <<>> : <<>>[k] \notin M
  OBVIOUS
<1>3. QED
  BY <1>2, CountNone

(* An element queued counts if it is in the set.                           *)
LEMMA CountAppend ==
  ASSUME NEW S, NEW s \in Seq(S), NEW e \in S, NEW M
  PROVE  CountIn(Append(s, e), M) = CountIn(s, M) + (IF e \in M THEN 1 ELSE 0)
<1> DEFINE t == Append(s, e)  n == Len(s) + 1  H == Hits(s, M)
<1>1. /\ t \in Seq(S) /\ Len(t) = n /\ t[n] = e
      /\ \A i \in 1 .. Len(s) : t[i] = s[i]
  BY AppendProperties
<1>2. /\ DOMAIN s = 1 .. Len(s) /\ Len(s) \in Nat /\ DOMAIN t = 1 .. n
  BY <1>1, LenProperties
<1>3. IsFiniteSet(H) /\ Cardinality(H) \in Nat /\ n \notin H
  <2>1. n \notin DOMAIN s
    BY <1>2
  <2>2. QED
    BY <2>1, CountType DEF CountIn, Hits
<1> HIDE DEF t
<1>4. Hits(t, M) = IF e \in M THEN H \cup {n} ELSE H
  <2>1. \A k \in 1 .. n : k = n \/ k \in 1 .. Len(s)
    BY <1>2
  <2>2. n \in 1 .. n /\ 1 .. Len(s) \subseteq 1 .. n
    BY <1>2
  <2>3. QED
    BY <1>1, <1>2, <2>1, <2>2 DEF Hits
<1>5. CASE e \in M
  BY <1>3, <1>4, <1>5, FS_AddElement DEF CountIn, t
<1>6. CASE e \notin M
  BY <1>3, <1>4, <1>6 DEF CountIn, t
<1>7. QED
  BY <1>5, <1>6

(* So does one taken out, wherever it was.                                 *)
LEMMA CountRemoveAt ==
  ASSUME NEW S, NEW s \in Seq(S), NEW k \in DOMAIN s, NEW M
  PROVE  CountIn(RemoveAt(s, k), M) = CountIn(s, M) - (IF s[k] \in M THEN 1 ELSE 0)
<1> DEFINE t == RemoveAt(s, k)  H == Hits(s, M) \ {k}  G == Hits(t, M)
           f == [j \in G |-> IF j < k THEN j ELSE j + 1]
<1>1. /\ t \in Seq(S) /\ Len(t) = Len(s) - 1
      /\ \A j \in DOMAIN t : /\ j \in DOMAIN s /\ j + 1 \in DOMAIN s
                             /\ t[j] = IF j < k THEN s[j] ELSE s[j + 1]
  BY RemoveAtProperties
<1>2. /\ DOMAIN s = 1 .. Len(s) /\ Len(s) \in Nat /\ DOMAIN t = 1 .. Len(s) - 1
      /\ k \in 1 .. Len(s)
  <2>1. DOMAIN s = 1 .. Len(s) /\ Len(s) \in Nat
    BY LenProperties
  <2>2. DOMAIN t = 1 .. Len(t)
    BY <1>1, LenProperties
  <2>3. QED
    BY <1>1, <2>1, <2>2
<1> HIDE DEF t
<1>3. G = {j \in 1 .. Len(s) - 1 : t[j] \in M} /\ Hits(s, M) = {j \in 1 .. Len(s) : s[j] \in M}
  BY <1>2 DEF Hits
<1>4. f \in Bijection(G, H)
  <2>1. ASSUME NEW j \in G
        PROVE  f[j] \in H
    <3>1. j \in 1 .. Len(s) - 1 /\ t[j] \in M
      BY <1>3
    <3>2. f[j] \in 1 .. Len(s) /\ f[j] # k /\ s[f[j]] = t[j]
      BY <1>1, <1>2, <3>1
    <3>3. QED
      BY <1>3, <3>1, <3>2
  <2>2. \A i, j \in G : f[i] = f[j] => i = j
    BY <1>2, <1>3
  <2>3. ASSUME NEW h \in H
        PROVE  \E j \in G : f[j] = h
    <3>1. h \in 1 .. Len(s) /\ s[h] \in M /\ h # k
      BY <1>3
    <3>2. CASE h < k
      <4>1. h \in 1 .. Len(s) - 1
        BY <1>2, <3>1, <3>2
      <4>2. h \in DOMAIN t /\ t[h] = s[h]
        BY <1>1, <1>2, <3>2, <4>1
      <4>3. h \in G
        BY <1>3, <3>1, <4>1, <4>2
      <4>4. QED
        BY <3>2, <4>3
    <3>3. CASE ~(h < k)
      <4>1. h - 1 \in 1 .. Len(s) - 1 /\ ~(h - 1 < k) /\ h - 1 + 1 = h
        BY <1>2, <3>1, <3>3
      <4>2. h - 1 \in DOMAIN t /\ t[h - 1] = s[h]
        BY <1>1, <1>2, <4>1
      <4>3. h - 1 \in G
        BY <1>3, <3>1, <4>1, <4>2
      <4>4. f[h - 1] = h
        BY <4>1, <4>3
      <4>5. QED
        BY <4>3, <4>4
    <3>4. QED
      BY <3>2, <3>3
  <2>4. f \in [G -> H]
    BY <2>1
  <2>5. QED
    BY <2>2, <2>3, <2>4, Fun_IsBij
<1>5. IsFiniteSet(Hits(s, M)) /\ Cardinality(Hits(s, M)) \in Nat
  BY CountType DEF CountIn
<1>6. IsFiniteSet(H) /\ Cardinality(H) = Cardinality(Hits(s, M))
                          - (IF k \in Hits(s, M) THEN 1 ELSE 0)
  <2> HIDE DEF H
  <2>1. IsFiniteSet(H)
        /\ Cardinality(H) = IF k \in Hits(s, M) THEN Cardinality(Hits(s, M)) - 1
                                                ELSE Cardinality(Hits(s, M))
    BY <1>5, FS_RemoveElement, Zenon DEF H
  <2>2. QED
    BY <1>5, <2>1, SMT
<1>7. Cardinality(G) = Cardinality(H)
  <2>1. ExistsBijection(H, G)
    <3>1. ExistsBijection(G, H)
      BY <1>4 DEF ExistsBijection
    <3>2. QED
      BY <3>1, Fun_ExistsBijSymmetric
  <2>2. QED
    BY <1>6, <2>1, FS_Bijection
<1>8. k \in Hits(s, M) <=> s[k] \in M
  BY <1>2, <1>3
<1>9. QED
  BY <1>6, <1>7, <1>8 DEF CountIn, t

(* The front taken out.                                                    *)
LEMMA CountTail ==
  ASSUME NEW S, NEW s \in Seq(S), s # <<>>, NEW M
  PROVE  CountIn(Tail(s), M) = CountIn(s, M) - (IF Head(s) \in M THEN 1 ELSE 0)
<1>1. 1 \in DOMAIN s /\ Head(s) = s[1] /\ DOMAIN s = 1 .. Len(s) /\ Len(s) \in Nat
  BY EmptySeq, LenProperties
<1>2. /\ RemoveAt(s, 1) \in Seq(S) /\ Len(RemoveAt(s, 1)) = Len(s) - 1
      /\ \A j \in DOMAIN RemoveAt(s, 1) : RemoveAt(s, 1)[j] = IF j < 1 THEN s[j] ELSE s[j + 1]
  BY <1>1, RemoveAtProperties
<1>3. /\ Tail(s) \in Seq(S) /\ Len(Tail(s)) = Len(s) - 1
      /\ \A j \in 1 .. Len(Tail(s)) : Tail(s)[j] = s[j + 1]
  BY HeadTailProperties
<1>4. Tail(s) = RemoveAt(s, 1)
  <2>1. DOMAIN RemoveAt(s, 1) = 1 .. Len(s) - 1
    BY <1>2, LenProperties
  <2>2. \A j \in 1 .. Len(Tail(s)) : Tail(s)[j] = RemoveAt(s, 1)[j]
    BY <1>1, <1>2, <1>3, <2>1
  <2>3. QED
    BY <1>2, <1>3, <2>2, SeqEqual
<1>5. CountIn(RemoveAt(s, 1), M) = CountIn(s, M) - (IF s[1] \in M THEN 1 ELSE 0)
  BY <1>1, CountRemoveAt
<1>6. QED
  BY <1>1, <1>4, <1>5

(* Time that passes changes no count that does not look at it.             *)
LEMMA CountElapse ==
  ASSUME NEW S, NEW s \in Seq(S), NEW M,
         \A e \in S : [e EXCEPT !.hold = IF e.hold > 0 THEN e.hold - 1 ELSE 0] \in M <=> e \in M
  PROVE  CountIn(Elapse(s), M) = CountIn(s, M)
<1>1. \A k \in DOMAIN s : s[k] \in S
  BY LenProperties, ElementOfSeq
<1>2. Hits(Elapse(s), M) = Hits(s, M)
  BY <1>1 DEF Elapse, Hits
<1>3. QED
  BY <1>2 DEF CountIn

-----------------------------------------------------------------------------
(* Where a read the LLC waits for is.                                      *)

ReadsOf(a)   == {p \in Packet : p.addr = a /\ ~p.isWrite}
AnswersOf(a) == {r \in Response : r.addr = a}
OwnsRead(a)  == InOrb(a) /\ ~orb[a].isWrite

Conserved ==
  \A a \in Addr :
    llcWaiting[a] = (IF OwnsRead(a) THEN 1 ELSE 0) + CountIn(crb, ReadsOf(a))
                    + CountIn(resp, AnswersOf(a)) + bypassReads[a]

(* The places are those that ReadsConserved counts.                        *)
LEMMA ConservedReads == ASSUME TypeInv PROVE Conserved <=> ReadsConserved
<1>1. crb \in Seq(Packet) /\ resp \in Seq(Response)
  BY DEF TypeInv, TypeOK
<1>2. (\A k \in DOMAIN crb : crb[k] \in Packet) /\ (\A k \in DOMAIN resp : resp[k] \in Response)
  BY <1>1, LenProperties, ElementOfSeq
<1>3. ASSUME NEW a \in Addr
      PROVE  /\ Hits(crb, ReadsOf(a)) = {k \in DOMAIN crb : crb[k].addr = a /\ ~crb[k].isWrite}
             /\ Hits(resp, AnswersOf(a)) = {k \in DOMAIN resp : resp[k].addr = a}
  BY <1>2 DEF Hits, ReadsOf, AnswersOf
<1>4. QED
  BY <1>3 DEF Conserved, ReadsConserved, Count, CountIn, Bit, OwnsRead

(* The terms of the sum are numbers.                                       *)
LEMMA SumType ==
  ASSUME TypeInv, NEW a \in Addr
  PROVE  /\ llcWaiting[a] \in Int /\ bypassReads[a] \in Int
         /\ CountIn(crb, ReadsOf(a)) \in Nat /\ CountIn(resp, AnswersOf(a)) \in Nat
<1>1. crb \in Seq(Packet) /\ resp \in Seq(Response)
  BY DEF TypeInv, TypeOK
<1>2. QED
  BY <1>1, CountType DEF TypeInv, TypeOK

(* A step that moves no read.                                              *)
LEMMA ConservedKept ==
  ASSUME Conserved, llcWaiting' = llcWaiting, crb' = crb, resp' = resp,
         bypassReads' = bypassReads, \A a \in Addr : OwnsRead(a)' <=> OwnsRead(a)
  PROVE  Conserved'
BY DEF Conserved

(* completeRequest() answers a read, or queues its response.               *)
LEMMA CompleteConserves ==
  ASSUME TypeInv, Conserved, NEW a \in Addr, NEW d \in Nat, InOrb(a), completeRequest(a, d),
         crb' = crb, bypassReads' = bypassReads
  PROVE  Conserved'
<1> DEFINE r == [addr |-> a, hold |-> d]
<1>1. \A b \in Addr : OwnsRead(b)' <=> OwnsRead(b) /\ b # a
  BY DEF completeRequest, OwnsRead, InOrb, NoEntry, TypeInv, TypeOK
<1>2. CASE orb[a].isWrite
  <2>1. \A b \in Addr : OwnsRead(b)' <=> OwnsRead(b)
    BY <1>1, <1>2 DEF OwnsRead
  <2>2. resp' = resp /\ llcWaiting' = llcWaiting
    BY <1>2 DEF completeRequest
  <2>3. QED
    BY <2>1, <2>2, ConservedKept
<1>3. CASE ~orb[a].isWrite /\ d = 0
  <2>1. resp' = resp /\ llcWaiting' = [llcWaiting EXCEPT ![a] = @ - 1]
    BY <1>3 DEF completeRequest, scheduleResponse
  <2>2. OwnsRead(a)
    BY <1>3 DEF OwnsRead
  <2>3. SUFFICES ASSUME NEW b \in Addr
                 PROVE  llcWaiting'[b] = (IF OwnsRead(b)' THEN 1 ELSE 0)
                          + CountIn(crb, ReadsOf(b)) + CountIn(resp, AnswersOf(b)) + bypassReads[b]
    BY <2>1 DEF Conserved
  <2>4. llcWaiting'[b] = IF b = a THEN llcWaiting[b] - 1 ELSE llcWaiting[b]
    BY <2>1 DEF TypeInv, TypeOK
  <2>5. llcWaiting[b] = (IF OwnsRead(b) THEN 1 ELSE 0)
                          + CountIn(crb, ReadsOf(b)) + CountIn(resp, AnswersOf(b)) + bypassReads[b]
    BY DEF Conserved
  <2>6. QED
    BY <1>1, <2>2, <2>4, <2>5, SumType
<1>4. CASE ~orb[a].isWrite /\ d # 0
  <2>1. resp' = Append(resp, r) /\ llcWaiting' = llcWaiting
    BY <1>4 DEF completeRequest, scheduleResponse
  <2>2. OwnsRead(a) /\ r \in Response /\ resp \in Seq(Response)
    BY <1>4 DEF OwnsRead, Response, TypeInv, TypeOK
  <2>3. SUFFICES ASSUME NEW b \in Addr
                 PROVE  llcWaiting[b] = (IF OwnsRead(b)' THEN 1 ELSE 0)
                          + CountIn(crb, ReadsOf(b)) + CountIn(Append(resp, r), AnswersOf(b))
                          + bypassReads[b]
    BY <2>1 DEF Conserved
  <2>4. r \in AnswersOf(b) <=> b = a
    BY <2>2 DEF AnswersOf
  <2>5. CountIn(Append(resp, r), AnswersOf(b))
          = CountIn(resp, AnswersOf(b)) + (IF b = a THEN 1 ELSE 0)
    BY <2>2, <2>4, CountAppend
  <2>6. llcWaiting[b] = (IF OwnsRead(b) THEN 1 ELSE 0)
                          + CountIn(crb, ReadsOf(b)) + CountIn(resp, AnswersOf(b)) + bypassReads[b]
    BY DEF Conserved
  <2>7. QED
    BY <1>1, <2>2, <2>5, <2>6, SumType
<1>5. QED
  BY <1>2, <1>3, <1>4

(* An admission: the read leaves the CRB, or has just been submitted.      *)
LEMMA AdmitOwns ==
  ASSUME TypeInv, NEW p \in Packet, ~InOrb(p.addr), admitRequest(p)
  PROVE  /\ ~OwnsRead(p.addr)
         /\ \A a \in Addr : OwnsRead(a)' <=> IF a = p.addr THEN ~p.isWrite ELSE OwnsRead(a)
<1>1. p.addr \in Addr /\ orb \in [Addr -> OrbEntry]
  BY DEF Packet, TypeInv, TypeOK
<1>2. chooseInitialState(p.addr, p.isWrite) # "none"
  BY InitialStateType DEF ToDrive
<1>3. /\ orb'[p.addr].state = chooseInitialState(p.addr, p.isWrite)
      /\ orb'[p.addr].isWrite = p.isWrite
      /\ \A a \in Addr \ {p.addr} : orb'[a] = orb[a]
  BY <1>1 DEF admitRequest
<1>4. QED
  BY <1>2, <1>3 DEF OwnsRead, InOrb

LEMMA PromoteConserves ==
  ASSUME TypeInv, IndexInv, Conserved, Promote
  PROVE  Conserved'
<1>1. PICK k \in DOMAIN crb : /\ IsOldest(k, SameIndex(call.addr))
                              /\ crb' = RemoveAt(crb, k) /\ admitRequest(crb[k])
  BY DEF Promote
<1>2. crb \in Seq(Packet) /\ crb[k] \in Packet
  BY LenProperties, ElementOfSeq DEF TypeInv, TypeOK
<1> DEFINE p == crb[k]
<1>3. ~InOrb(p.addr) /\ p.addr \in Addr
  <2>1. returnIndexDC(p.addr) = returnIndexDC(call.addr) /\ p.addr \in Addr
    BY <1>1, <1>2 DEF IsOldest, SameIndex, Packet
  <2>2. ~Busy(returnIndexDC(p.addr))
    BY <2>1 DEF Promote, IndexInv, FreedIndex
  <2>3. QED
    BY <2>1, <2>2 DEF Busy
<1>4. /\ ~OwnsRead(p.addr)
      /\ \A a \in Addr : OwnsRead(a)' <=> IF a = p.addr THEN ~p.isWrite ELSE OwnsRead(a)
  BY <1>1, <1>2, <1>3, AdmitOwns
<1>5. llcWaiting' = llcWaiting /\ resp' = resp /\ bypassReads' = bypassReads
  BY DEF Promote, llcVars
<1>6. SUFFICES ASSUME NEW a \in Addr
               PROVE  llcWaiting[a] = (IF OwnsRead(a)' THEN 1 ELSE 0)
                        + CountIn(RemoveAt(crb, k), ReadsOf(a)) + CountIn(resp, AnswersOf(a))
                        + bypassReads[a]
  BY <1>1, <1>5 DEF Conserved
<1>7. p \in ReadsOf(a) <=> p.addr = a /\ ~p.isWrite
  BY <1>2 DEF ReadsOf
<1>8. CountIn(RemoveAt(crb, k), ReadsOf(a))
        = CountIn(crb, ReadsOf(a)) - (IF p \in ReadsOf(a) THEN 1 ELSE 0)
  BY <1>2, CountRemoveAt
<1>9. llcWaiting[a] = (IF OwnsRead(a) THEN 1 ELSE 0)
                      + CountIn(crb, ReadsOf(a)) + CountIn(resp, AnswersOf(a)) + bypassReads[a]
  BY DEF Conserved
<1> HIDE DEF p
<1>10. QED
  BY <1>4, <1>7, <1>8, <1>9, SumType

(* Handlers: a read goes from the CRB to the ORB and from there to the     *)
(* LLC or its response, and a bypassed one to the LLC.                     *)
LEMMA HandlersConserve ==
  ASSUME TypeInv, IndexInv, Conserved, Handler
  PROVE  Conserved'
<1> USE DEF dcmVars, mcVars, llcVars, ctlVars, modeVars
<1>1. CASE DriveLocMemRead \/ DriveFarMemRead
  <2>1. call.addr \in Addr
    BY <1>1, CallAddrType DEF DriveLocMemRead, DriveFarMemRead, TypeInv
  <2>2. PICK st \in Waiting : orb' = [orb EXCEPT ![call.addr].state = st]
    BY <1>1 DEF DriveLocMemRead, DriveFarMemRead, Waiting
  <2>3. InOrb(call.addr) /\ orb \in [Addr -> OrbEntry]
    BY <1>1 DEF DriveLocMemRead, DriveFarMemRead, InOrb, TypeInv, TypeOK
  <2>4. \A a \in Addr : OwnsRead(a)' <=> OwnsRead(a)
    BY <2>1, <2>2, <2>3 DEF OwnsRead, InOrb, OrbEntry, Waiting
  <2>5. QED
    BY <1>1, <2>4, ConservedKept DEF DriveLocMemRead, DriveFarMemRead
<1>2. CASE DriveLocMemWrite
  <2>1. call.addr \in Addr /\ InOrb(call.addr) /\ completeRequest(call.addr, 0) /\ 0 \in Nat
    BY <1>2, CallAddrType DEF DriveLocMemWrite, InOrb, TypeInv
  <2>2. QED
    BY <1>2, <2>1, CompleteConserves DEF DriveLocMemWrite
<1>3. CASE Promote
  BY <1>3, PromoteConserves
<1>4. CASE NothingToPromote \/ ReturnUntracked \/ ResumeReturn \/ ResumeFill
           \/ ResumePop \/ ResumeDone
  <2>1. /\ orb' = orb /\ llcWaiting' = llcWaiting /\ crb' = crb /\ resp' = resp
        /\ bypassReads' = bypassReads
    BY <1>4 DEF NothingToPromote, ReturnUntracked, ResumeReturn, ResumeFill, ResumePop,
       ResumeDone
  <2>2. QED
    BY <2>1, ConservedKept DEF OwnsRead, InOrb
<1>5. CASE ReturnBypassed
  <2>1. call.addr \in Addr
    BY <1>5, CallAddrType DEF ReturnBypassed, TypeInv
  <2>2. /\ orb' = orb /\ crb' = crb /\ resp' = resp
        /\ llcWaiting' = [llcWaiting EXCEPT ![call.addr] = @ - 1]
        /\ bypassReads' = [bypassReads EXCEPT ![call.addr] = @ - 1]
    BY <1>5 DEF ReturnBypassed
  <2>3. SUFFICES ASSUME NEW a \in Addr
                 PROVE  llcWaiting'[a] = (IF OwnsRead(a) THEN 1 ELSE 0)
                          + CountIn(crb, ReadsOf(a)) + CountIn(resp, AnswersOf(a)) + bypassReads'[a]
    BY <2>2 DEF Conserved, OwnsRead, InOrb
  <2>4. /\ llcWaiting'[a] = IF a = call.addr THEN llcWaiting[a] - 1 ELSE llcWaiting[a]
        /\ bypassReads'[a] = IF a = call.addr THEN bypassReads[a] - 1 ELSE bypassReads[a]
    BY <2>1, <2>2 DEF TypeInv, TypeOK
  <2>5. llcWaiting[a] = (IF OwnsRead(a) THEN 1 ELSE 0)
                        + CountIn(crb, ReadsOf(a)) + CountIn(resp, AnswersOf(a)) + bypassReads[a]
    BY DEF Conserved
  <2>6. QED
    BY <2>4, <2>5, SumType
<1>6. CASE ReturnTagReadHit
  <2>1. /\ call.addr \in Addr /\ InOrb(call.addr)
        /\ completeRequest(call.addr, FrontendLatency + BackendLatency)
    BY <1>6, ReturnedType DEF ReturnTagReadHit, InOrb, TypeInv
  <2>2. QED
    BY <1>6, <2>1, LatencyType, CompleteConserves DEF ReturnTagReadHit
<1>7. CASE ReturnFarRead
  <2>1. /\ call.addr \in Addr /\ InOrb(call.addr)
        /\ completeRequest(call.addr, FrontendLatency + BackendLatency + BackendLatency)
    BY <1>7, ReturnedType DEF ReturnFarRead, InOrb, TypeInv
  <2>2. QED
    BY <1>7, <2>1, LatencyType, CompleteConserves DEF ReturnFarRead
<1>8. CASE ReturnTagRead
  <2>1. call.addr \in Addr /\ orb[call.addr].state = "WAITING_LOC_MEM_READ_RESP"
    BY <1>8, ReturnedType DEF ReturnTagRead, TypeInv
  <2>2. \A a \in Addr : OwnsRead(a)' <=> OwnsRead(a)
    BY <1>8, <2>1 DEF ReturnTagRead, OwnsRead, InOrb, TypeInv, TypeOK
  <2>3. QED
    BY <1>8, <2>2, ConservedKept DEF ReturnTagRead
<1>9. QED
  BY <1>1, <1>2, <1>3, <1>4, <1>5, <1>6, <1>7, <1>8 DEF Handler

(* Of the stages of operate() only processPendingResponses() answers.      *)
LEMMA StagesConserve ==
  ASSUME TypeInv, Conserved, Operate
  PROVE  Conserved'
<1> USE DEF dcmVars, llcVars
<1>1. CASE DeliverResponse
  <2> DEFINE h == Head(resp)
  <2>1. /\ orb' = orb /\ crb' = crb /\ bypassReads' = bypassReads
        /\ llcWaiting' = [llcWaiting EXCEPT ![h.addr] = @ - 1] /\ resp' = Tail(resp)
    BY <1>1 DEF DeliverResponse
  <2>2. resp \in Seq(Response) /\ resp # <<>>
    BY <1>1 DEF DeliverResponse, TypeInv, TypeOK
  <2>3. h \in Response /\ h.addr \in Addr
    <3>1. h \in Response
      BY <2>2, HeadTailProperties
    <3>2. QED
      BY <3>1 DEF Response
  <2>4. SUFFICES ASSUME NEW a \in Addr
                 PROVE  llcWaiting'[a] = (IF OwnsRead(a) THEN 1 ELSE 0)
                          + CountIn(crb, ReadsOf(a)) + CountIn(Tail(resp), AnswersOf(a))
                          + bypassReads[a]
    BY <2>1 DEF Conserved, OwnsRead, InOrb
  <2>5. llcWaiting'[a] = IF a = h.addr THEN llcWaiting[a] - 1 ELSE llcWaiting[a]
    BY <2>1, <2>3 DEF TypeInv, TypeOK
  <2>6. h \in AnswersOf(a) <=> a = h.addr
    BY <2>3 DEF AnswersOf
  <2>7. CountIn(Tail(resp), AnswersOf(a))
          = CountIn(resp, AnswersOf(a)) - (IF a = h.addr THEN 1 ELSE 0)
    BY <2>2, <2>6, CountTail
  <2>8. llcWaiting[a] = (IF OwnsRead(a) THEN 1 ELSE 0)
                        + CountIn(crb, ReadsOf(a)) + CountIn(resp, AnswersOf(a)) + bypassReads[a]
    BY DEF Conserved
  <2> HIDE DEF h
  <2>9. QED
    BY <2>5, <2>7, <2>8, SumType
<1>2. CASE ~DeliverResponse
  <2>1. /\ orb' = orb /\ llcWaiting' = llcWaiting /\ crb' = crb /\ resp' = resp
        /\ bypassReads' = bypassReads
    BY <1>2 DEF Operate, ReleaseFar, FarReleased, DrainWB, ReleaseNear, NearReleased,
       NearServeRead, NearServeWrite, FarServeRead, FarServeWrite, NearWaits,
       FarWaits, ResponsesDelivered
  <2>2. QED
    BY <2>1, ConservedKept DEF OwnsRead, InOrb
<1>3. QED
  BY <1>1, <1>2

(* A read submitted is one more that the LLC waits for.                    *)
LEMMA SubmitWaits ==
  ASSUME TypeInv, NEW p \in Packet, Submit(p), NEW a \in Addr
  PROVE  llcWaiting'[a] = llcWaiting[a] + (IF ~p.isWrite /\ a = p.addr THEN 1 ELSE 0)
BY DEF Submit, Packet, TypeInv, TypeOK

(* The LLC only submits what get_occupancy() leaves room for, so that      *)
(* add_rq() never turns a read away.                                       *)
LEMMA LlcConserves ==
  ASSUME TypeInv, CapacityInv, Conserved, Llc
  PROVE  Conserved'
<1> USE DEF dcmVars, llcVars
<1>0. \A a \in Addr : llcWaiting[a] = (IF OwnsRead(a) THEN 1 ELSE 0)
             + CountIn(crb, ReadsOf(a)) + CountIn(resp, AnswersOf(a)) + bypassReads[a]
  BY DEF Conserved
<1>1. ASSUME NEW p \in Requests, AddBypassed(p)
      PROVE  Conserved'
  <2>1. p \in Packet /\ p.addr \in Addr
    BY DEF Requests, Packet
  <2>2. /\ orb' = orb /\ crb' = crb /\ resp' = resp
        /\ bypassReads' = IF p.isWrite THEN bypassReads
                                       ELSE [bypassReads EXCEPT ![p.addr] = @ + 1]
    BY <1>1 DEF AddBypassed
  <2>3. SUFFICES ASSUME NEW a \in Addr
                 PROVE  llcWaiting'[a] = (IF OwnsRead(a) THEN 1 ELSE 0)
                          + CountIn(crb, ReadsOf(a)) + CountIn(resp, AnswersOf(a)) + bypassReads'[a]
    BY <2>2 DEF Conserved, OwnsRead, InOrb
  <2>4. bypassReads'[a] = bypassReads[a] + (IF ~p.isWrite /\ a = p.addr THEN 1 ELSE 0)
    BY <2>1, <2>2 DEF TypeInv, TypeOK
  <2>5. llcWaiting'[a] = llcWaiting[a] + (IF ~p.isWrite /\ a = p.addr THEN 1 ELSE 0)
    BY <1>1, <2>1, SubmitWaits DEF AddBypassed
  <2>6. QED
    BY <1>0, <2>4, <2>5, SumType
<1>2. ASSUME NEW p \in Requests, AddConflicting(p)
      PROVE  Conserved'
  <2>1. p \in Packet /\ p.addr \in Addr /\ crb \in Seq(Packet) /\ Len(crb) \in Nat
    BY LenProperties DEF Requests, Packet, TypeInv, TypeOK
  <2>2. Len(crb) # CrbMaxSize
    BY <1>2 DEF AddConflicting, Submit, Full
  <2>3. ~(Len(crb) >= CrbMaxSize)
    BY <2>1, <2>2, DcmAssumption DEF CapacityInv
  <2>4. /\ orb' = orb /\ resp' = resp /\ bypassReads' = bypassReads
        /\ crb' = Append(crb, p)
    BY <1>2, <2>3 DEF AddConflicting
  <2>5. SUFFICES ASSUME NEW a \in Addr
                 PROVE  llcWaiting'[a] = (IF OwnsRead(a) THEN 1 ELSE 0)
                          + CountIn(Append(crb, p), ReadsOf(a)) + CountIn(resp, AnswersOf(a))
                          + bypassReads[a]
    BY <2>4 DEF Conserved, OwnsRead, InOrb
  <2>6. p \in ReadsOf(a) <=> ~p.isWrite /\ a = p.addr
    BY <2>1 DEF ReadsOf
  <2>7. CountIn(Append(crb, p), ReadsOf(a))
          = CountIn(crb, ReadsOf(a)) + (IF ~p.isWrite /\ a = p.addr THEN 1 ELSE 0)
    BY <2>1, <2>6, CountAppend
  <2>8. llcWaiting'[a] = llcWaiting[a] + (IF ~p.isWrite /\ a = p.addr THEN 1 ELSE 0)
    BY <1>2, <2>1, SubmitWaits DEF AddConflicting
  <2>9. QED
    BY <1>0, <2>7, <2>8, SumType
<1>3. ASSUME NEW p \in Requests, AddAdmitted(p)
      PROVE  Conserved'
  <2>1. p \in Packet /\ p.addr \in Addr
    BY DEF Requests, Packet
  <2>2. ~Rejected
    <3>1. ~(Len(wb) >= WbThreshold \/ Cardinality(Admitted) = OrbMaxSize)
      BY <1>3 DEF AddAdmitted, Submit, Full
    <3>2. /\ Cardinality(Admitted) \in Nat /\ Cardinality(Admitted) <= OrbMaxSize
          /\ OrbMaxSize \in Nat
      BY FS_CardinalityType, DcmAssumption DEF CapacityInv, OrbFits
    <3>3. QED
      BY <3>1, <3>2 DEF Rejected
  <2>3. /\ admitRequest(p) /\ crb' = crb /\ resp' = resp /\ bypassReads' = bypassReads
        /\ ~InOrb(p.addr)
    BY <1>3, <2>1, <2>2 DEF AddAdmitted, Busy
  <2>4. /\ ~OwnsRead(p.addr)
        /\ \A a \in Addr : OwnsRead(a)' <=> IF a = p.addr THEN ~p.isWrite ELSE OwnsRead(a)
    BY <2>1, <2>3, AdmitOwns
  <2>5. SUFFICES ASSUME NEW a \in Addr
                 PROVE  llcWaiting'[a] = (IF OwnsRead(a)' THEN 1 ELSE 0)
                          + CountIn(crb, ReadsOf(a)) + CountIn(resp, AnswersOf(a)) + bypassReads[a]
    BY <2>3 DEF Conserved
  <2>6. llcWaiting'[a] = llcWaiting[a] + (IF ~p.isWrite /\ a = p.addr THEN 1 ELSE 0)
    BY <1>3, <2>1, SubmitWaits DEF AddAdmitted
  <2>7. QED
    BY <1>0, <2>4, <2>6, SumType
<1>4. CASE NextCycle
  <2>1. /\ orb' = orb /\ llcWaiting' = llcWaiting /\ crb' = crb /\ resp' = Elapse(resp)
        /\ bypassReads' = bypassReads
    BY <1>4 DEF NextCycle
  <2>2. resp \in Seq(Response)
    BY DEF TypeInv, TypeOK
  <2>3. ASSUME NEW a \in Addr
        PROVE  CountIn(Elapse(resp), AnswersOf(a)) = CountIn(resp, AnswersOf(a))
    <3>1. \A e \in Response :
            [e EXCEPT !.hold = IF e.hold > 0 THEN e.hold - 1 ELSE 0] \in AnswersOf(a)
              <=> e \in AnswersOf(a)
      BY DEF Response, AnswersOf
    <3>2. QED
      BY <2>2, <3>1, CountElapse
  <2>4. QED
    BY <2>1, <2>3 DEF Conserved, OwnsRead, InOrb
<1>5. ASSUME (\E p \in Requests : WarmupAccess(p)) \/ CompleteWarmup \/ setBypassDcache
      PROVE  Conserved'
  <2>1. /\ orb' = orb /\ llcWaiting' = llcWaiting /\ crb' = crb /\ resp' = resp
        /\ bypassReads' = bypassReads
    BY <1>5 DEF WarmupAccess, CompleteWarmup, setBypassDcache
  <2>2. QED
    BY <2>1, ConservedKept DEF OwnsRead, InOrb
<1>6. QED
  BY <1>1, <1>2, <1>3, <1>4, <1>5 DEF Llc

(* Every step conserves the reads.                                         *)
LEMMA NextConserves ==
  TypeInv /\ IndexInv /\ CapacityInv /\ Conserved /\ [Next]_vars => Conserved'
<1> SUFFICES ASSUME TypeInv, IndexInv, CapacityInv, Conserved, [Next]_vars
             PROVE  Conserved'
  OBVIOUS
<1>1. CASE Next
  BY <1>1, HandlersConserve, StagesConserve, LlcConserves DEF Next
<1>2. CASE UNCHANGED vars
  BY <1>2, ConservedKept DEF OwnsRead, InOrb, vars, dcmVars, llcVars
<1>3. QED
  BY <1>1, <1>2

(* The LLC waits for nothing at the start.                                 *)
LEMMA InitConserved == Init => Conserved
BY CountEmpty DEF Init, Conserved, OwnsRead, InOrb, NoEntry

(* Every read the LLC waits for is in exactly one place, and none is       *)
(* answered that it does not wait for, whatever conflicts, stalls, nested  *)
(* completions and changes of bypass lie between.                          *)
THEOREM NoReadLost == Spec => []ReadsConserved
<1>1. Spec => []Conserved
  BY TypeInvariant, IndexInvariant, CapacityInvariant, InitConserved, NextConserves, PTL DEF Spec
<1>2. TypeInv /\ Conserved => ReadsConserved
  BY ConservedReads
<1>3. QED
  BY <1>1, <1>2, TypeInvariant, PTL

-----------------------------------------------------------------------------
(* One read on its way for each request that waits.  Where packets signal  *)
(* twice, or bypass is switched with requests in flight, a completion can  *)
(* be credited to another request; the code that main() runs does neither. *)

ASingleAnswer == ~BypassToggles /\ Callbacks \subseteq {1}

OneCallback ==
  /\ \A a \in Addr : orb[a].cb = 1
  /\ \A k \in DOMAIN crb : crb[k].cb = 1
  /\ \A k \in DOMAIN pendingNear : pendingNear[k].cb = 1
  /\ \A k \in DOMAIN pendingFar : pendingFar[k].cb = 1

(* Requests are admitted, or all go past the cache.                        *)
OneMode ==
  /\ \A a \in Addr : bypassReads[a] \in Nat
  /\ bypass => crb = <<>> /\ \A a \in Addr : orb[a].state = "none"
  /\ ~bypass => \A a \in Addr : bypassReads[a] = 0

(* What the outermost caller has to do: take out the read it answered.     *)
Ends        == {"popNear", "popFar", "doneNear", "doneFar"}
Ending(op, a) == frames # <<>> /\ frames[Len(frames)] = Frame(op, a)

(* Its callees' frames are background fills.                               *)
FillsAbove ==
  \A k \in DOMAIN frames :
    frames[k].op = "fill" \/ (frames[k].op \in Ends /\ k = Len(frames))

HeldReadsOf(a) == {p \in HeldPkt : p.addr = a /\ ~p.isWrite}

(* An answered read is where its caller will take it out.                  *)
AnsweredThere ==
  \A a \in Addr :
    /\ Ending("doneNear", a) => a \in near.rq
    /\ Ending("doneFar", a)  => a \in far.rq
    /\ Ending("popNear", a)  => pendingNear # <<>> /\ Head(pendingNear) \in ReadsOf(a)
    /\ Ending("popFar", a)   => pendingFar # <<>> /\ Head(pendingFar) \in HeldReadsOf(a)

One(P) == IF P THEN 1 ELSE 0

Answering(a) == call = Call("return_data", a)
NearReads(a) == One(a \in near.rq) + CountIn(pendingNear, ReadsOf(a))
FarReads(a)  == One(a \in far.rq) + CountIn(pendingFar, HeldReadsOf(a))
NearEnds(a)  == One(Ending("doneNear", a) \/ Ending("popNear", a))
FarEnds(a)   == One(Ending("doneFar", a) \/ Ending("popFar", a))
NearDue(a)   == One(orb[a].state = "WAITING_LOC_MEM_READ_RESP" /\ ~Answering(a))
FarDue(a)    == One(orb[a].state = "WAITING_FAR_MEM_READ_RESP" /\ ~Answering(a))
                  + bypassReads[a] - One(bypassReads[a] > 0 /\ Answering(a))

(* Reads on their way, less the one answered, are those still due.         *)
NearAccount == \A a \in Addr : NearReads(a) - NearEnds(a) = NearDue(a)
FarAccount  == \A a \in Addr : FarReads(a) - FarEnds(a) = FarDue(a)

(* return_data() finds who waits.                                          *)
Tracked == \A a \in Addr : Answering(a) => bypassReads[a] > 0 \/ orb[a].state \in Waiting

AnswerInv == /\ OneCallback /\ OneMode /\ FillsAbove /\ AnsweredThere
             /\ NearAccount /\ FarAccount /\ Tracked

(* Queues whose packets all signal once.                                   *)
Once(q) == \A k \in DOMAIN q : q[k].cb = 1

LEMMA OnceKept ==
  ASSUME NEW S, NEW q \in Seq(S), Once(q)
  PROVE  /\ \A e \in S : e.cb = 1 => Once(Append(q, e))
         /\ q # <<>> => Once(Tail(q)) /\ Head(q).cb = 1
         /\ \A k \in DOMAIN q : Once(RemoveAt(q, k))
<1>1. ASSUME NEW e \in S, e.cb = 1
      PROVE  Once(Append(q, e))
  <2>1. /\ Append(q, e) \in Seq(S) /\ Len(Append(q, e)) = Len(q) + 1
        /\ \A i \in 1 .. Len(q) : Append(q, e)[i] = q[i]
        /\ Append(q, e)[Len(q) + 1] = e
    BY AppendProperties
  <2>2. DOMAIN q = 1 .. Len(q) /\ Len(q) \in Nat /\ DOMAIN Append(q, e) = 1 .. Len(q) + 1
    BY <2>1, LenProperties
  <2>3. \A i \in 1 .. Len(q) + 1 : i \in 1 .. Len(q) \/ i = Len(q) + 1
    BY <2>2
  <2>4. QED
    BY <1>1, <2>1, <2>2, <2>3 DEF Once
<1>2. ASSUME q # <<>>
      PROVE  Once(Tail(q)) /\ Head(q).cb = 1
  <2>1. 1 \in DOMAIN q /\ Head(q) = q[1]
    BY <1>2, EmptySeq, LenProperties
  <2>2. \A k \in DOMAIN Tail(q) : k + 1 \in DOMAIN q /\ Tail(q)[k] = q[k + 1]
    BY <1>2, TailElements
  <2>3. QED
    BY <2>1, <2>2 DEF Once
<1>3. ASSUME NEW k \in DOMAIN q
      PROVE  Once(RemoveAt(q, k))
  <2>1. \A j \in DOMAIN RemoveAt(q, k) :
          /\ j \in DOMAIN q /\ j + 1 \in DOMAIN q
          /\ RemoveAt(q, k)[j] = IF j < k THEN q[j] ELSE q[j + 1]
    BY RemoveAtProperties
  <2>2. QED
    BY <2>1 DEF Once
<1>4. QED
  BY <1>1, <1>2, <1>3

LEMMA OnceElapse ==
  ASSUME NEW q \in Seq(HeldPkt), Once(q)
  PROVE  Once(Elapse(q))
<1>1. \A k \in DOMAIN q : q[k] \in HeldPkt
  BY LenProperties, ElementOfSeq
<1>2. QED
  BY <1>1 DEF Once, Elapse, HeldPkt

(* A dispatch of a packet that signals once.                               *)
LEMMA DispatchOnce ==
  ASSUME TypeInv, OneCallback, NEW p \in Packet, p.cb = 1
  PROVE  /\ dispatchToNear(p) => Once(pendingNear')
         /\ dispatchToFarGuaranteed(p) => Once(pendingFar')
<1>1. /\ pendingNear \in Seq(Packet) /\ Once(pendingNear)
      /\ pendingFar \in Seq(HeldPkt) /\ Once(pendingFar)
  BY DEF TypeInv, TypeOK, OneCallback, Once
<1>2. Held(p) \in HeldPkt /\ Held(p).cb = 1
  BY HeldType DEF Held
<1>3. Once(Append(pendingNear, p)) /\ Once(Append(pendingFar, Held(p)))
  BY <1>1, <1>2, OnceKept
<1>4. QED
  BY <1>1, <1>3 DEF dispatchToNear, dispatchToFarGuaranteed

(* The ORB: a request keeps the packet it was admitted with.               *)
LEMMA OrbOnce ==
  ASSUME ASingleAnswer, TypeInv, OneCallback, [Next]_vars
  PROVE  \A a \in Addr : orb'[a].cb = 1
<1> USE DEF dcmVars, ctlVars
<1>0. orb \in [Addr -> OrbEntry] /\ \A a \in Addr : orb[a].cb = 1
  BY DEF TypeInv, TypeOK, OneCallback
<1>1. ASSUME orb' = orb
      PROVE  \A a \in Addr : orb'[a].cb = 1
  BY <1>0, <1>1
<1>2. ASSUME NEW p \in Packet, p.cb = 1, admitRequest(p)
      PROVE  \A a \in Addr : orb'[a].cb = 1
  BY <1>0, <1>2 DEF admitRequest, Packet
<1>3. ASSUME NEW b, NEW d, completeRequest(b, d)
      PROVE  \A a \in Addr : orb'[a].cb = 1
  BY <1>0, <1>3 DEF completeRequest, NoEntry
<1>4. ASSUME NEW b, NEW st, orb' = [orb EXCEPT ![b].state = st]
      PROVE  \A a \in Addr : orb'[a].cb = 1
  BY <1>0, <1>4 DEF OrbEntry
<1>5. CASE DriveLocMemRead \/ DriveFarMemRead \/ ReturnTagRead
  BY <1>4, <1>5 DEF DriveLocMemRead, DriveFarMemRead, ReturnTagRead
<1>6. CASE DriveLocMemWrite \/ ReturnTagReadHit \/ ReturnFarRead
  BY <1>3, <1>6 DEF DriveLocMemWrite, ReturnTagReadHit, ReturnFarRead
<1>7. CASE Promote
  <2>1. PICK k \in DOMAIN crb : admitRequest(crb[k])
    BY <1>7 DEF Promote
  <2>2. crb[k] \in Packet /\ crb[k].cb = 1
    BY LenProperties, ElementOfSeq DEF TypeInv, TypeOK, OneCallback
  <2>3. QED
    BY <1>2, <2>1, <2>2
<1>8. CASE NothingToPromote \/ ReturnBypassed \/ ReturnUntracked \/ ResumeReturn
           \/ ResumeFill \/ ResumePop \/ ResumeDone
  BY <1>1, <1>8 DEF NothingToPromote, ReturnBypassed, ReturnUntracked, ResumeReturn,
     ResumeFill, ResumePop, ResumeDone
<1>9. CASE Operate
  <2>1. orb' = orb
    BY <1>9 DEF Operate, ReleaseFar, FarReleased, DrainWB, ReleaseNear, NearReleased,
       NearServeRead, NearServeWrite, FarServeRead, FarServeWrite, NearWaits,
       FarWaits, DeliverResponse, ResponsesDelivered
  <2>2. QED
    BY <1>1, <2>1
<1>10. ASSUME NEW p \in Requests, AddAdmitted(p)
       PROVE  \A a \in Addr : orb'[a].cb = 1
  <2>1. p \in Packet /\ p.cb = 1
    BY DEF Requests, ASingleAnswer
  <2>2. QED
    BY <1>1, <1>2, <1>10, <2>1 DEF AddAdmitted
<1>11. ASSUME NEW p \in Requests, AddBypassed(p) \/ AddConflicting(p) \/ WarmupAccess(p)
       PROVE  \A a \in Addr : orb'[a].cb = 1
  BY <1>1, <1>11 DEF AddBypassed, AddConflicting, WarmupAccess
<1>12. CASE CompleteWarmup \/ setBypassDcache \/ NextCycle \/ UNCHANGED vars
  BY <1>1, <1>12 DEF CompleteWarmup, setBypassDcache, NextCycle, vars
<1>13. QED
  BY <1>5, <1>6, <1>7, <1>8, <1>9, <1>10, <1>11, <1>12 DEF Next, Handler, Llc

(* The CRB.                                                                *)
LEMMA CrbOnce ==
  ASSUME ASingleAnswer, TypeInv, OneCallback, [Next]_vars
  PROVE  Once(crb')
<1> USE DEF dcmVars
<1>0. crb \in Seq(Packet) /\ Once(crb)
  BY DEF TypeInv, TypeOK, OneCallback, Once
<1>1. CASE crb' = crb
  BY <1>0, <1>1
<1>2. CASE Promote
  BY <1>0, <1>2, OnceKept DEF Promote
<1>3. ASSUME NEW p \in Requests, AddConflicting(p)
      PROVE  Once(crb')
  <2>1. p \in Packet /\ p.cb = 1
    BY DEF Requests, ASingleAnswer
  <2>2. Once(Append(crb, p))
    BY <1>0, <2>1, OnceKept
  <2>3. QED
    BY <1>0, <1>3, <2>2 DEF AddConflicting
<1>4. CASE (Handler /\ ~Promote) \/ Operate
  <2>1. crb' = crb
    BY <1>4 DEF Handler, DriveLocMemRead, DriveFarMemRead, DriveLocMemWrite,
       NothingToPromote, ReturnBypassed, ReturnTagReadHit, ReturnTagRead, ReturnFarRead,
       ReturnUntracked, ResumeReturn, ResumeFill, ResumePop, ResumeDone,
       Operate, ReleaseFar, FarReleased, DrainWB, ReleaseNear, NearReleased,
       NearServeRead, NearServeWrite, FarServeRead, FarServeWrite, NearWaits,
       FarWaits, DeliverResponse, ResponsesDelivered
  <2>2. QED
    BY <1>1, <2>1
<1>5. ASSUME NEW p \in Requests, AddBypassed(p) \/ AddAdmitted(p) \/ WarmupAccess(p)
      PROVE  Once(crb')
  BY <1>1, <1>5 DEF AddBypassed, AddAdmitted, WarmupAccess
<1>6. CASE CompleteWarmup \/ setBypassDcache \/ NextCycle \/ UNCHANGED vars
  BY <1>1, <1>6 DEF CompleteWarmup, setBypassDcache, NextCycle, vars
<1>7. QED
  BY <1>2, <1>3, <1>4, <1>5, <1>6 DEF Next, Llc

(* The pending dispatches.                                                 *)
LEMMA PendingOnce ==
  ASSUME ASingleAnswer, TypeInv, OneCallback, [Next]_vars
  PROVE  Once(pendingNear') /\ Once(pendingFar')
<1> USE DEF dcmVars
<1>0. /\ pendingNear \in Seq(Packet) /\ Once(pendingNear)
      /\ pendingFar \in Seq(HeldPkt) /\ Once(pendingFar)
  BY DEF TypeInv, TypeOK, OneCallback, Once
<1>1. ASSUME pendingNear' = pendingNear, pendingFar' = pendingFar
      PROVE  Once(pendingNear') /\ Once(pendingFar')
  BY <1>0, <1>1
<1>2. CASE DriveLocMemRead \/ DriveFarMemRead
  <2>1. call.addr \in Addr
    BY <1>2, CallAddrType DEF DriveLocMemRead, DriveFarMemRead, TypeInv
  <2>2. OrbPacket(call.addr, FALSE) \in Packet /\ OrbPacket(call.addr, FALSE).cb = 1
    BY <2>1, OrbPacketType DEF OrbPacket, OneCallback, TypeInv
  <2>3. QED
    BY <1>0, <1>2, <2>2, DispatchOnce DEF DriveLocMemRead, DriveFarMemRead
<1>3. CASE DriveLocMemWrite
  <2>1. WritePacket(call.addr) \in Packet /\ WritePacket(call.addr).cb = 1
    BY <1>3, CallAddrType, WritePacketType DEF DriveLocMemWrite, WritePacket, TypeInv
  <2>2. QED
    BY <1>0, <1>3, <2>1, DispatchOnce DEF DriveLocMemWrite
<1>4. CASE ResumeFill
  <2>1. WritePacket(Head(frames).addr) \in Packet /\ WritePacket(Head(frames).addr).cb = 1
    BY <1>4, ResumeType, WritePacketType DEF ResumeFill, Resume, WritePacket, TypeInv
  <2>2. QED
    BY <1>0, <1>4, <2>1, DispatchOnce DEF ResumeFill
<1>5. CASE ResumePop
  <2>1. /\ Resume("popNear") => pendingNear # <<>>
        /\ Resume("popFar") => pendingFar # <<>>
    BY ResumeType DEF Resume, TypeInv, ReleasedAtFront
  <2>2. QED
    BY <1>0, <1>5, <2>1, OnceKept DEF ResumePop
<1>6. CASE ReleaseFar \/ ReleaseNear
  <2>1. /\ ReleaseFar => pendingFar # <<>> /\ pendingNear' = pendingNear
                         /\ (pendingFar' = Tail(pendingFar) \/ pendingFar' = pendingFar)
        /\ ReleaseNear => pendingNear # <<>> /\ pendingFar' = pendingFar
                         /\ (pendingNear' = Tail(pendingNear) \/ pendingNear' = pendingNear)
    BY DEF ReleaseFar, ReleaseNear, FarReady
  <2>2. QED
    BY <1>0, <1>6, <2>1, OnceKept
<1>7. CASE DrainWB
  <2>1. CASE pendingFar' = pendingFar
    BY <1>1, <1>7, <2>1 DEF DrainWB
  <2>2. CASE pendingFar' # pendingFar
    <3>1. wb # <<>> /\ dispatchToFarGuaranteed(WritePacket(Head(wb)))
      BY <1>7, <2>2 DEF DrainWB
    <3>2. Head(wb) \in Addr
      BY <3>1, HeadTailProperties DEF TypeInv, TypeOK
    <3>3. WritePacket(Head(wb)) \in Packet /\ WritePacket(Head(wb)).cb = 1
      BY <3>2, WritePacketType DEF WritePacket
    <3>4. QED
      BY <1>0, <1>7, <3>1, <3>3, DispatchOnce DEF DrainWB
  <2>3. QED
    BY <2>1, <2>2
<1>8. ASSUME NEW p \in Requests, AddBypassed(p)
      PROVE  Once(pendingNear') /\ Once(pendingFar')
  <2>1. p \in Packet /\ p.cb = 1
    BY DEF Requests, ASingleAnswer
  <2>2. QED
    BY <1>0, <1>8, <2>1, DispatchOnce DEF AddBypassed
<1>9. CASE NextCycle
  BY <1>0, <1>9, OnceElapse DEF NextCycle
<1>10. CASE Promote \/ NothingToPromote \/ ReturnBypassed \/ ReturnTagReadHit \/ ReturnTagRead
            \/ ReturnFarRead \/ ReturnUntracked \/ ResumeReturn \/ ResumeDone
  BY <1>1, <1>10 DEF Promote, NothingToPromote, ReturnBypassed, ReturnTagReadHit,
     ReturnTagRead, ReturnFarRead, ReturnUntracked, ResumeReturn, ResumeDone
<1>11. CASE Operate /\ ~ReleaseFar /\ ~ReleaseNear /\ ~DrainWB
  <2>1. pendingNear' = pendingNear /\ pendingFar' = pendingFar
    BY <1>11 DEF Operate, FarReleased, NearReleased,
       NearServeRead, NearServeWrite, FarServeRead, FarServeWrite, NearWaits,
       FarWaits, DeliverResponse, ResponsesDelivered
  <2>2. QED
    BY <1>1, <2>1
<1>12. ASSUME NEW p \in Requests, AddAdmitted(p) \/ AddConflicting(p) \/ WarmupAccess(p)
       PROVE  Once(pendingNear') /\ Once(pendingFar')
  BY <1>1, <1>12 DEF AddAdmitted, AddConflicting, WarmupAccess
<1>13. CASE CompleteWarmup \/ setBypassDcache \/ UNCHANGED vars
  BY <1>1, <1>13 DEF CompleteWarmup, setBypassDcache, vars
<1>14. QED
  BY <1>2, <1>3, <1>4, <1>5, <1>6, <1>7, <1>8, <1>9, <1>10, <1>11, <1>12, <1>13
     DEF Next, Handler, Llc

(* Where the LLC's packets signal once, all of the manager's do.           *)
LEMMA NextKeepsOneCallback ==
  ASSUME ASingleAnswer, TypeInv, OneCallback, [Next]_vars
  PROVE  OneCallback'
BY OrbOnce, CrbOnce, PendingOnce DEF OneCallback, Once

(* Without switching, bypassed and admitted requests never meet.           *)
LEMMA NextKeepsOneMode ==
  ASSUME ASingleAnswer, TypeInv, OneMode, [Next]_vars
  PROVE  OneMode'
<1> USE DEF dcmVars, llcVars, modeVars
<1>0. bypass \in BOOLEAN /\ orb \in [Addr -> OrbEntry] /\ bypassReads \in [Addr -> Int]
  BY DEF TypeInv, TypeOK
<1>1. ASSUME bypass' = bypass, crb' = crb, bypassReads' = bypassReads,
             bypass => \A a \in Addr : orb'[a].state = "none"
      PROVE  OneMode'
  BY <1>1 DEF OneMode
<1>2. ASSUME bypass' = bypass, ~bypass, bypassReads' = bypassReads
      PROVE  OneMode'
  BY <1>2 DEF OneMode
<1>3. CASE DriveLocMemRead \/ DriveFarMemRead \/ DriveLocMemWrite
           \/ ReturnTagReadHit \/ ReturnTagRead \/ ReturnFarRead
  <2>1. call.addr \in Addr /\ orb[call.addr].state # "none"
    BY <1>3, CallAddrType, ReturnedType DEF DriveLocMemRead, DriveFarMemRead, DriveLocMemWrite,
       ReturnTagReadHit, ReturnTagRead, ReturnFarRead, TypeInv
  <2>2. ~bypass
    BY <2>1 DEF OneMode
  <2>3. bypass' = bypass /\ bypassReads' = bypassReads
    BY <1>3 DEF DriveLocMemRead, DriveFarMemRead, DriveLocMemWrite,
       ReturnTagReadHit, ReturnTagRead, ReturnFarRead
  <2>4. QED
    BY <1>2, <2>2, <2>3
<1>4. CASE Promote
  <2>1. crb # <<>>
    BY <1>4 DEF Promote
  <2>2. ~bypass /\ bypass' = bypass /\ bypassReads' = bypassReads
    BY <1>4, <2>1 DEF Promote, OneMode
  <2>3. QED
    BY <1>2, <2>2
<1>5. CASE ReturnBypassed
  <2>1. call.addr \in Addr /\ bypassReads[call.addr] > 0
    BY <1>5, CallAddrType DEF ReturnBypassed, TypeInv
  <2>2. bypass
    BY <2>1 DEF OneMode
  <2>3. /\ bypass' = bypass /\ crb' = crb /\ orb' = orb
        /\ bypassReads' = [bypassReads EXCEPT ![call.addr] = @ - 1]
    BY <1>5 DEF ReturnBypassed
  <2>4. \A a \in Addr : bypassReads'[a] \in Nat
    BY <1>0, <2>1, <2>3 DEF OneMode
  <2>5. QED
    BY <2>2, <2>3, <2>4 DEF OneMode
<1>6. CASE NothingToPromote \/ ReturnUntracked \/ ResumeReturn \/ ResumeFill \/ ResumePop
           \/ ResumeDone
  <2>1. bypass' = bypass /\ crb' = crb /\ bypassReads' = bypassReads /\ orb' = orb
    BY <1>6 DEF NothingToPromote, ReturnUntracked, ResumeReturn, ResumeFill, ResumePop, ResumeDone
  <2>2. QED
    BY <1>1, <2>1 DEF OneMode
<1>7. CASE Operate
  <2>1. bypass' = bypass /\ crb' = crb /\ bypassReads' = bypassReads /\ orb' = orb
    BY <1>7 DEF Operate, ReleaseFar, FarReleased, DrainWB, ReleaseNear, NearReleased,
       NearServeRead, NearServeWrite, FarServeRead, FarServeWrite, NearWaits,
       FarWaits, DeliverResponse, ResponsesDelivered
  <2>2. QED
    BY <1>1, <2>1 DEF OneMode
<1>8. ASSUME NEW p \in Requests, AddBypassed(p)
      PROVE  OneMode'
  <2>1. /\ bypass /\ bypass' = bypass /\ crb' = crb /\ orb' = orb
        /\ bypassReads' = IF p.isWrite THEN bypassReads
                                       ELSE [bypassReads EXCEPT ![p.addr] = @ + 1]
    BY <1>8 DEF AddBypassed
  <2>2. \A a \in Addr : bypassReads'[a] \in Nat
    BY <1>0, <2>1 DEF OneMode
  <2>3. QED
    BY <2>1, <2>2 DEF OneMode
<1>9. ASSUME NEW p \in Requests, AddConflicting(p) \/ AddAdmitted(p) \/ WarmupAccess(p)
      PROVE  OneMode'
  BY <1>2, <1>9 DEF AddConflicting, AddAdmitted, WarmupAccess
<1>10. CASE CompleteWarmup \/ setBypassDcache \/ NextCycle \/ UNCHANGED vars
  <2>1. bypass' = bypass /\ crb' = crb /\ bypassReads' = bypassReads /\ orb' = orb
    BY <1>10 DEF CompleteWarmup, setBypassDcache, NextCycle, vars, ASingleAnswer
  <2>2. QED
    BY <1>1, <2>1 DEF OneMode
<1>11. QED
  BY <1>3, <1>4, <1>5, <1>6, <1>7, <1>8, <1>9, <1>10 DEF Next, Handler, Llc

-----------------------------------------------------------------------------
(* The frames of the callers.                                              *)

LEMMA PushFill ==
  ASSUME TypeInv, FillsAbove, NEW a \in Addr, frames' = <<Frame("fill", a)>> \o frames
  PROVE  FillsAbove' /\ \A op \in Ends, b \in Addr : Ending(op, b)' <=> Ending(op, b)
<1> DEFINE f == Frame("fill", a)  t == <<f>> \o frames
<1>1. f \in FrameType /\ f.op = "fill" /\ frames \in Seq(FrameType)
  BY DEF Frame, FrameType, Rest, TypeInv, TypeOK
<1>2. <<f>> \in Seq(FrameType) /\ Len(<<f>>) = 1 /\ <<f>>[1] = f
  BY <1>1
<1>3. /\ t \in Seq(FrameType) /\ Len(t) = 1 + Len(frames)
      /\ \A i \in 1 .. 1 + Len(frames) : t[i] = IF i <= 1 THEN f ELSE frames[i - 1]
  <2>1. /\ t \in Seq(FrameType) /\ Len(t) = Len(<<f>>) + Len(frames)
        /\ \A i \in 1 .. Len(<<f>>) + Len(frames) :
             t[i] = IF i <= Len(<<f>>) THEN <<f>>[i] ELSE frames[i - Len(<<f>>)]
    BY <1>1, <1>2, ConcatProperties
  <2>2. \A i \in 1 .. 1 + Len(frames) : i <= 1 => i = 1
    OBVIOUS
  <2> HIDE DEF t, f
  <2>3. QED
    BY <1>2, <2>1, <2>2
<1>4. /\ Len(frames) \in Nat /\ DOMAIN frames = 1 .. Len(frames)
      /\ DOMAIN t = 1 .. 1 + Len(frames) /\ t # <<>> /\ frames' = t
      /\ (frames = <<>> <=> Len(frames) = 0)
  BY <1>1, <1>3, LenProperties, EmptySeq
<1> HIDE DEF f, t
<1>5. ASSUME NEW k \in DOMAIN t
      PROVE  t[k].op = "fill" \/ (t[k].op \in Ends /\ k = Len(t))
  <2>1. CASE k = 1
    BY <1>1, <1>3, <1>4, <2>1
  <2>2. CASE k # 1
    <3>1. k - 1 \in DOMAIN frames /\ t[k] = frames[k - 1]
      BY <1>3, <1>4, <2>2
    <3>2. QED
      BY <1>3, <1>4, <3>1 DEF FillsAbove
  <2>3. QED
    BY <2>1, <2>2
<1>6. ASSUME NEW op \in Ends, NEW b \in Addr
      PROVE  Ending(op, b)' <=> Ending(op, b)
  <2>1. CASE frames = <<>>
    <3>1. t[Len(t)] = f
      BY <1>3, <1>4, <2>1
    <3>2. f # Frame(op, b)
      BY <1>1 DEF Frame, Ends
    <3>3. QED
      BY <1>4, <2>1, <3>1, <3>2 DEF Ending
  <2>2. CASE frames # <<>>
    <3>1. t[Len(t)] = frames[Len(frames)]
      BY <1>3, <1>4, <2>2
    <3>2. QED
      BY <1>4, <2>2, <3>1 DEF Ending
  <2>3. QED
    BY <2>1, <2>2
<1>7. QED
  BY <1>4, <1>5, <1>6 DEF FillsAbove

(* The innermost caller is done.                                           *)
LEMMA PopFrame ==
  ASSUME TypeInv, FillsAbove, frames # <<>>, frames' = Tail(frames)
  PROVE  /\ Head(frames).op = "fill" =>
              FillsAbove' /\ \A op \in Ends, b \in Addr : Ending(op, b)' <=> Ending(op, b)
         /\ Head(frames).op \in Ends =>
              /\ frames' = <<>>
              /\ \A op \in Ends, b \in Addr :
                   Ending(op, b) <=> op = Head(frames).op /\ b = Head(frames).addr
         /\ Head(frames).op # "return_data"
<1>1. /\ frames \in Seq(FrameType) /\ Len(frames) \in Nat /\ DOMAIN frames = 1 .. Len(frames)
      /\ Len(frames) # 0
  BY LenProperties, EmptySeq DEF TypeInv, TypeOK
<1>2. /\ Tail(frames) \in Seq(FrameType) /\ Len(Tail(frames)) = Len(frames) - 1
      /\ \A i \in 1 .. Len(Tail(frames)) : Tail(frames)[i] = frames[i + 1]
  BY <1>1, HeadTailProperties
<1>3. DOMAIN Tail(frames) = 1 .. Len(frames) - 1
  BY <1>2, LenProperties
<1>4. 1 \in DOMAIN frames /\ Head(frames) = frames[1] /\ frames[1] \in FrameType
  BY <1>1, ResumeType DEF TypeInv
<1>5. Tail(frames) = <<>> <=> Len(frames) = 1
  <2>1. Tail(frames) = <<>> <=> Len(Tail(frames)) = 0
    BY <1>2, EmptySeq
  <2>2. QED
    BY <1>1, <1>2, <2>1
<1>6. ASSUME Head(frames).op = "fill"
      PROVE  FillsAbove' /\ \A op \in Ends, b \in Addr : Ending(op, b)' <=> Ending(op, b)
  <2>1. ASSUME NEW k \in DOMAIN Tail(frames)
        PROVE  Tail(frames)[k].op = "fill"
               \/ (Tail(frames)[k].op \in Ends /\ k = Len(Tail(frames)))
    <3>1. k + 1 \in DOMAIN frames /\ Tail(frames)[k] = frames[k + 1]
      BY <1>1, <1>2, <1>3
    <3>2. k + 1 = Len(frames) => k = Len(Tail(frames))
      BY <1>1, <1>2, <1>3
    <3>3. QED
      BY <3>1, <3>2 DEF FillsAbove
  <2>2. ASSUME NEW op \in Ends, NEW b \in Addr
        PROVE  Ending(op, b)' <=> Ending(op, b)
    <3>1. CASE Len(frames) = 1
      <4>1. frames[Len(frames)] # Frame(op, b)
        BY <1>4, <1>6, <3>1 DEF Frame, Ends
      <4>2. QED
        BY <1>5, <3>1, <4>1 DEF Ending
    <3>2. CASE Len(frames) # 1
      <4>1. Len(frames) - 1 \in 1 .. Len(Tail(frames)) /\ Len(frames) - 1 + 1 = Len(frames)
        BY <1>1, <1>2, <3>2
      <4>2. Tail(frames)[Len(Tail(frames))] = frames[Len(frames)]
        BY <1>2, <4>1
      <4>3. QED
        BY <1>5, <3>2, <4>2 DEF Ending
    <3>3. QED
      BY <3>1, <3>2
  <2>3. QED
    BY <2>1, <2>2 DEF FillsAbove
<1>7. ASSUME Head(frames).op \in Ends
      PROVE  /\ frames' = <<>>
             /\ \A op \in Ends, b \in Addr :
                  Ending(op, b) <=> op = Head(frames).op /\ b = Head(frames).addr
  <2>1. Len(frames) = 1
    BY <1>4, <1>7 DEF FillsAbove, Ends
  <2>2. \A op, b : frames[1] = Frame(op, b) <=> op = frames[1].op /\ b = frames[1].addr
    BY <1>4 DEF Frame, FrameType
  <2>3. QED
    BY <1>4, <1>5, <2>1, <2>2 DEF Ending
<1>8. Head(frames).op # "return_data"
  BY <1>4 DEF FillsAbove, Ends
<1>9. QED
  BY <1>6, <1>7, <1>8

(* A controller calls return_data() with nothing else under way.           *)
LEMMA FirstFrame ==
  ASSUME NEW o \in Ends, NEW a \in Addr, frames' = <<Frame(o, a)>>
  PROVE  /\ FillsAbove'
         /\ \A op \in Ends, b \in Addr : Ending(op, b)' <=> op = o /\ b = a
<1>1. Len(frames') = 1 /\ frames'[1] = Frame(o, a) /\ frames' # <<>> /\ DOMAIN frames' = {1}
  OBVIOUS
<1>2. \A op, b : Frame(o, a) = Frame(op, b) <=> op = o /\ b = a
  BY DEF Frame
<1>3. Frame(o, a).op = o
  BY DEF Frame
<1>4. QED
  BY <1>1, <1>2, <1>3 DEF FillsAbove, Ending

LEMMA NoFrame ==
  /\ frames = <<>> => FillsAbove /\ \A op \in Ends, b \in Addr : ~Ending(op, b)
  /\ frames' = <<>> => FillsAbove' /\ \A op \in Ends, b \in Addr : ~Ending(op, b)'
BY DEF FillsAbove, Ending

-----------------------------------------------------------------------------
(* The accounts.                                                           *)

LEMMA AccountType ==
  ASSUME TypeInv, OneMode, NEW a \in Addr
  PROVE  /\ NearReads(a) \in Nat /\ FarReads(a) \in Nat
         /\ NearEnds(a) \in {0, 1} /\ FarEnds(a) \in {0, 1}
         /\ NearDue(a) \in {0, 1} /\ FarDue(a) \in Int /\ bypassReads[a] \in Nat
<1>1. pendingNear \in Seq(Packet) /\ pendingFar \in Seq(HeldPkt)
  BY DEF TypeInv, TypeOK
<1>2. CountIn(pendingNear, ReadsOf(a)) \in Nat /\ CountIn(pendingFar, HeldReadsOf(a)) \in Nat
  BY <1>1, CountType
<1>3. QED
  BY <1>2 DEF NearReads, FarReads, NearEnds, FarEnds, NearDue, FarDue, One, OneMode

(* A step that neither sends, serves nor owes anything new.                *)
LEMMA NearKept ==
  ASSUME NearAccount,
         \A a \in Addr : /\ NearReads(a)' = NearReads(a)
                         /\ NearEnds(a)' = NearEnds(a)
                         /\ NearDue(a)' = NearDue(a)
  PROVE  NearAccount'
BY DEF NearAccount

LEMMA FarKept ==
  ASSUME FarAccount,
         \A a \in Addr : /\ FarReads(a)' = FarReads(a)
                         /\ FarEnds(a)' = FarEnds(a)
                         /\ FarDue(a)' = FarDue(a)
  PROVE  FarAccount'
BY DEF FarAccount

LEMMA NearReadsKept ==
  ASSUME near'.rq = near.rq, pendingNear' = pendingNear
  PROVE  \A a \in Addr : NearReads(a)' = NearReads(a)
BY DEF NearReads

LEMMA FarReadsKept ==
  ASSUME far'.rq = far.rq, pendingFar' = pendingFar
  PROVE  \A a \in Addr : FarReads(a)' = FarReads(a)
BY DEF FarReads

LEMMA EndsKept ==
  ASSUME \A op \in Ends, b \in Addr : Ending(op, b)' <=> Ending(op, b)
  PROVE  \A a \in Addr : NearEnds(a)' = NearEnds(a) /\ FarEnds(a)' = FarEnds(a)
BY DEF Ends, NearEnds, FarEnds, One

(* The answered read is still where it was.                                *)
LEMMA ThereKept ==
  ASSUME AnsweredThere,
         \A op \in Ends, b \in Addr : Ending(op, b)' => Ending(op, b),
         near.rq \subseteq near'.rq, far.rq \subseteq far'.rq,
         pendingNear # <<>> => pendingNear' # <<>> /\ Head(pendingNear') = Head(pendingNear),
         pendingFar # <<>> => pendingFar' # <<>> /\ Head(pendingFar') = Head(pendingFar)
  PROVE  AnsweredThere'
<1>1. \A a \in Addr : /\ Ending("doneNear", a)' => Ending("doneNear", a)
                      /\ Ending("doneFar", a)' => Ending("doneFar", a)
                      /\ Ending("popNear", a)' => Ending("popNear", a)
                      /\ Ending("popFar", a)' => Ending("popFar", a)
  BY DEF Ends
<1>2. QED
  BY <1>1 DEF AnsweredThere, ReadsOf, HeldReadsOf

(* What a dispatch puts on its way to nearMC.                              *)
LEMMA NearSent ==
  ASSUME TypeInv, NEW p \in Packet, dispatchToNear(p)
  PROVE  /\ near.rq \subseteq near'.rq
         /\ pendingNear # <<>> => pendingNear' # <<>> /\ Head(pendingNear') = Head(pendingNear)
         /\ \A a \in Addr :
              NearReads(a)' = NearReads(a) + One(~p.isWrite /\ p.addr = a
                                                 /\ NearOutcome(p) # "forwarded")
         /\ p.isWrite => NearOutcome(p) # "forwarded"
<1> DEFINE o == NearOutcome(p)
<1>1. /\ pendingNear \in Seq(Packet) /\ near \in MemQueues
      /\ near' = After(o, near, p)
      /\ pendingNear' = IF o = "blocked" THEN Append(pendingNear, p) ELSE pendingNear
  BY DEF dispatchToNear, TypeInv, TypeOK
<1>2. /\ o \in {"blocked", "forwarded", "queued"}
      /\ o = "queued" => p.isWrite \/ p.addr \notin near.rq
      /\ o = "forwarded" => ~p.isWrite
  BY DEF NearOutcome, trySend
<1>3. \A a \in Addr : CountIn(pendingNear, ReadsOf(a)) \in Nat
  BY <1>1, CountType
<1> HIDE DEF o
<1>4. CASE o = "blocked"
  <2>1. near' = near
    BY <1>1, <1>4 DEF After
  <2>2. Append(pendingNear, p) # <<>>
        /\ (pendingNear # <<>> => Head(Append(pendingNear, p)) = Head(pendingNear))
    BY <1>1, AppendKeeps, AppendProperties
  <2>3. ASSUME NEW a \in Addr
        PROVE  NearReads(a)' = NearReads(a) + One(~p.isWrite /\ p.addr = a)
    <3>1. CountIn(Append(pendingNear, p), ReadsOf(a))
            = CountIn(pendingNear, ReadsOf(a)) + (IF p \in ReadsOf(a) THEN 1 ELSE 0)
      BY <1>1, CountAppend
    <3>2. p \in ReadsOf(a) <=> ~p.isWrite /\ p.addr = a
      BY DEF ReadsOf
    <3>3. NearReads(a)' = One(a \in near.rq) + CountIn(Append(pendingNear, p), ReadsOf(a))
      BY <1>1, <1>4, <2>1 DEF NearReads, ReadsOf
    <3>4. QED
      BY <1>3, <3>1, <3>2, <3>3 DEF NearReads, One
  <2>4. QED
    BY <1>1, <1>2, <1>4, <2>1, <2>2, <2>3 DEF o
<1>5. CASE o = "forwarded"
  <2>1. near' = near /\ pendingNear' = pendingNear
    BY <1>1, <1>5 DEF After
  <2>2. \A a \in Addr : NearReads(a)' = NearReads(a) /\ NearReads(a) + 0 = NearReads(a)
    BY <1>3, <2>1 DEF NearReads, One
  <2>3. QED
    BY <1>2, <1>5, <2>1, <2>2 DEF o, One
<1>6. CASE o = "queued"
  <2>1. /\ pendingNear' = pendingNear
        /\ near'.rq = IF p.isWrite THEN near.rq ELSE near.rq \cup {p.addr}
    BY <1>1, <1>6 DEF After, Enqueued, MemQueues
  <2>2. ASSUME NEW a \in Addr
        PROVE  NearReads(a)' = NearReads(a) + One(~p.isWrite /\ p.addr = a)
    <3>1. NearReads(a)' = One(a \in near'.rq) + CountIn(pendingNear, ReadsOf(a))
      BY <2>1 DEF NearReads, ReadsOf
    <3>2. QED
      BY <1>2, <1>3, <1>6, <2>1, <3>1 DEF NearReads, One
  <2>3. QED
    BY <1>2, <1>6, <2>1, <2>2 DEF o
<1>7. QED
  BY <1>2, <1>4, <1>5, <1>6

(* And to farMC.                                                           *)
LEMMA FarSent ==
  ASSUME TypeInv, NEW p \in Packet, dispatchToFarGuaranteed(p)
  PROVE  /\ far.rq \subseteq far'.rq
         /\ pendingFar # <<>> => pendingFar' # <<>> /\ Head(pendingFar') = Head(pendingFar)
         /\ \A a \in Addr :
              FarReads(a)' = FarReads(a) + One(~p.isWrite /\ p.addr = a
                                               /\ FarOutcome(p) # "forwarded")
         /\ p.isWrite => FarOutcome(p) # "forwarded"
<1> DEFINE o == FarOutcome(p)  h == Held(p)
<1>1. /\ pendingFar \in Seq(HeldPkt) /\ far \in MemQueues
      /\ far' = After(o, far, p)
      /\ pendingFar' = IF o = "blocked" THEN Append(pendingFar, h) ELSE pendingFar
  BY DEF dispatchToFarGuaranteed, TypeInv, TypeOK
<1>2. /\ o \in {"blocked", "forwarded", "queued"}
      /\ o = "queued" => p.isWrite \/ p.addr \notin far.rq
      /\ o = "forwarded" => ~p.isWrite
  BY DEF FarOutcome, trySend
<1>3. \A a \in Addr : CountIn(pendingFar, HeldReadsOf(a)) \in Nat
  BY <1>1, CountType
<1>4. h \in HeldPkt /\ h.addr = p.addr /\ h.isWrite = p.isWrite
  BY HeldType DEF Held
<1> HIDE DEF o, h
<1>5. CASE o = "blocked"
  <2>1. far' = far
    BY <1>1, <1>5 DEF After
  <2>2. Append(pendingFar, h) # <<>>
        /\ (pendingFar # <<>> => Head(Append(pendingFar, h)) = Head(pendingFar))
    BY <1>1, <1>4, AppendKeeps, AppendProperties
  <2>3. ASSUME NEW a \in Addr
        PROVE  FarReads(a)' = FarReads(a) + One(~p.isWrite /\ p.addr = a)
    <3>1. CountIn(Append(pendingFar, h), HeldReadsOf(a))
            = CountIn(pendingFar, HeldReadsOf(a)) + (IF h \in HeldReadsOf(a) THEN 1 ELSE 0)
      BY <1>1, <1>4, CountAppend
    <3>2. h \in HeldReadsOf(a) <=> ~p.isWrite /\ p.addr = a
      BY <1>4 DEF HeldReadsOf
    <3>3. FarReads(a)' = One(a \in far.rq) + CountIn(Append(pendingFar, h), HeldReadsOf(a))
      BY <1>1, <1>5, <2>1 DEF FarReads, HeldReadsOf
    <3>4. QED
      BY <1>3, <3>1, <3>2, <3>3 DEF FarReads, One
  <2>4. QED
    BY <1>1, <1>2, <1>5, <2>1, <2>2, <2>3 DEF o
<1>6. CASE o = "forwarded"
  <2>1. far' = far /\ pendingFar' = pendingFar
    BY <1>1, <1>6 DEF After
  <2>2. \A a \in Addr : FarReads(a)' = FarReads(a) /\ FarReads(a) + 0 = FarReads(a)
    BY <1>3, <2>1 DEF FarReads, One
  <2>3. QED
    BY <1>2, <1>6, <2>1, <2>2 DEF o, One
<1>7. CASE o = "queued"
  <2>1. /\ pendingFar' = pendingFar
        /\ far'.rq = IF p.isWrite THEN far.rq ELSE far.rq \cup {p.addr}
    BY <1>1, <1>7 DEF After, Enqueued, MemQueues
  <2>2. ASSUME NEW a \in Addr
        PROVE  FarReads(a)' = FarReads(a) + One(~p.isWrite /\ p.addr = a)
    <3>1. FarReads(a)' = One(a \in far'.rq) + CountIn(pendingFar, HeldReadsOf(a))
      BY <2>1 DEF FarReads, HeldReadsOf
    <3>2. QED
      BY <1>2, <1>3, <1>7, <2>1, <3>1 DEF FarReads, One
  <2>3. QED
    BY <1>2, <1>7, <2>1, <2>2 DEF o
<1>8. QED
  BY <1>2, <1>5, <1>6, <1>7

-----------------------------------------------------------------------------
(* What a step keeps of the accounts.                                      *)

AccountInv == FillsAbove /\ AnsweredThere /\ NearAccount /\ FarAccount /\ Tracked

(* A step that sends as many reads as it makes due, and ends none.         *)
LEMMA Balanced ==
  ASSUME TypeInv, TypeInv', OneMode, OneMode', AccountInv,
         FillsAbove', AnsweredThere', Tracked',
         \A op \in Ends, b \in Addr : Ending(op, b)' <=> Ending(op, b),
         \A a \in Addr : /\ NearReads(a)' - NearReads(a) = NearDue(a)' - NearDue(a)
                         /\ FarReads(a)' - FarReads(a) = FarDue(a)' - FarDue(a)
  PROVE  AccountInv'
<1>1. \A a \in Addr : NearEnds(a)' = NearEnds(a) /\ FarEnds(a)' = FarEnds(a)
  BY EndsKept
<1>2. ASSUME NEW a \in Addr
      PROVE  /\ NearReads(a)' - NearEnds(a)' = NearDue(a)'
             /\ FarReads(a)' - FarEnds(a)' = FarDue(a)'
  <2>1. /\ NearReads(a) \in Nat /\ FarReads(a) \in Nat
        /\ NearEnds(a) \in {0, 1} /\ FarEnds(a) \in {0, 1}
        /\ NearDue(a) \in {0, 1} /\ FarDue(a) \in Int
    BY AccountType
  <2>2. /\ NearReads(a)' \in Nat /\ FarReads(a)' \in Nat
        /\ NearDue(a)' \in {0, 1} /\ FarDue(a)' \in Int
  <3>1. (TypeInv /\ OneMode => NearReads(a) \in Nat /\ FarReads(a) \in Nat
                               /\ NearDue(a) \in {0, 1} /\ FarDue(a) \in Int)'
    BY AccountType, PTL
  <3>2. QED
    BY <3>1
  <2>3. /\ NearReads(a)' - NearReads(a) = NearDue(a)' - NearDue(a)
        /\ FarReads(a)' - FarReads(a) = FarDue(a)' - FarDue(a)
        /\ NearReads(a) - NearEnds(a) = NearDue(a)
        /\ FarReads(a) - FarEnds(a) = FarDue(a)
        /\ NearEnds(a)' = NearEnds(a) /\ FarEnds(a)' = FarEnds(a)
    BY <1>1 DEF AccountInv, NearAccount, FarAccount
  <2> DEFINE nr == NearReads(a)  nrp == NearReads(a)'  nd == NearDue(a)  ndp == NearDue(a)'
             fr == FarReads(a)  frp == FarReads(a)'  fd == FarDue(a)  fdp == FarDue(a)'
             ne == NearEnds(a)  fe == FarEnds(a)
  <2>4. /\ nr \in Nat /\ nrp \in Nat /\ nd \in {0, 1} /\ ndp \in {0, 1} /\ ne \in {0, 1}
        /\ fr \in Nat /\ frp \in Nat /\ fd \in Int /\ fdp \in Int /\ fe \in {0, 1}
        /\ nrp - nr = ndp - nd /\ nr - ne = nd /\ frp - fr = fdp - fd /\ fr - fe = fd
    BY <2>1, <2>2, <2>3
  <2>5. nrp - ne = ndp /\ frp - fe = fdp
    <3> HIDE DEF nr, nrp, nd, ndp, fr, frp, fd, fdp, ne, fe
    <3>1. QED
      BY <2>4
  <2>6. QED
    BY <2>3, <2>5
<1>3. QED
  BY <1>2 DEF AccountInv, NearAccount, FarAccount

(* A step that moves no read, and makes none due.                          *)
LEMMA Quiet ==
  ASSUME AccountInv, Tracked',
         near'.rq = near.rq, far'.rq = far.rq,
         pendingNear' = pendingNear, pendingFar' = pendingFar, frames' = frames,
         \A a \in Addr : NearDue(a)' = NearDue(a) /\ FarDue(a)' = FarDue(a)
  PROVE  AccountInv'
<1>1. \A op \in Ends, b \in Addr : Ending(op, b)' <=> Ending(op, b)
  BY DEF Ending
<1>2. FillsAbove' /\ AnsweredThere'
  BY <1>1, ThereKept DEF AccountInv, FillsAbove
<1>3. \A a \in Addr : NearReads(a)' = NearReads(a) /\ FarReads(a)' = FarReads(a)
  BY NearReadsKept, FarReadsKept
<1>4. \A a \in Addr : NearEnds(a)' = NearEnds(a) /\ FarEnds(a)' = FarEnds(a)
  BY <1>1, EndsKept
<1>5. QED
  BY <1>2, <1>3, <1>4, NearKept, FarKept DEF AccountInv

(* Nothing is answered, before or after.                                   *)
LEMMA NoneAnswered ==
  /\ call.fn # "return_data" => \A a \in Addr : ~Answering(a)
  /\ call'.fn # "return_data" => Tracked' /\ \A a \in Addr : ~Answering(a)'
BY DEF Answering, Call, Tracked

(* The same requests wait, and the same one is answered.                   *)
LEMMA DueKept ==
  ASSUME bypassReads' = bypassReads,
         \A a \in Addr : \A st \in Waiting : orb'[a].state = st <=> orb[a].state = st,
         \A a \in Addr : Answering(a)' <=> Answering(a)
  PROVE  \A a \in Addr : NearDue(a)' = NearDue(a) /\ FarDue(a)' = FarDue(a)
BY DEF NearDue, FarDue, Waiting, One

(* return_data() ends what was due for its line.                           *)
LEMMA ReturnedDue ==
  ASSUME TypeInv, NEW a \in Addr, Returned(a), bypassReads' = bypassReads,
         call'.fn # "return_data", orb'[a].state \notin Waiting,
         \A b \in Addr : b # a => orb'[b].state = orb[b].state
  PROVE  /\ Tracked'
         /\ \A b \in Addr : NearDue(b)' = NearDue(b) /\ FarDue(b)' = FarDue(b)
<1>1. bypassReads \in [Addr -> Int]
  BY DEF TypeInv, TypeOK
<1>2. \A b \in Addr : Answering(b) <=> b = a
  BY DEF Returned, Answering, Call
<1>3. \A b \in Addr : ~Answering(b)'
  BY NoneAnswered
<1>4. ASSUME NEW b \in Addr
      PROVE  NearDue(b)' = NearDue(b) /\ FarDue(b)' = FarDue(b)
  <2>1. CASE b = a
    BY <1>1, <1>2, <1>3, <2>1 DEF NearDue, FarDue, One, Waiting, Returned
  <2>2. CASE b # a
    BY <1>1, <1>2, <1>3, <2>2 DEF NearDue, FarDue, One
  <2>3. QED
    BY <2>1, <2>2
<1>5. QED
  BY <1>4, NoneAnswered

(* A packet that signals once leaves its caller's frames as they are.      *)
LEMMA ContinueOnce ==
  ASSUME NEW o, NEW p, p.cb = 1, NEW rest, Continue(o, p, rest)
  PROVE  /\ frames' = rest
         /\ call' = IF o = "forwarded" THEN Call("return_data", p.addr) ELSE NoCall
BY DEF Continue

(* driveState(): the request waits as its read is sent, unless that one is *)
(* forwarded, and then it is answered next.                                *)
LEMMA DriveNearBalanced ==
  ASSUME TypeInv, TypeInv', OneCallback, OneMode, OneMode', AccountInv, DriveLocMemRead
  PROVE  AccountInv'
<1> DEFINE a == call.addr  p == OrbPacket(a, FALSE)
<1>1. /\ a \in Addr /\ p \in Packet /\ p.addr = a /\ ~p.isWrite /\ p.cb = 1
      /\ orb \in [Addr -> OrbEntry]
  <2>1. a \in Addr
    BY CallAddrType DEF DriveLocMemRead, TypeInv
  <2>2. QED
    BY <2>1, OrbPacketType DEF OrbPacket, OneCallback, TypeInv, TypeOK
<1>2. /\ dispatchToNear(p) /\ Continue(NearOutcome(p), p, frames)
      /\ orb[a].state = "LOC_MEM_READ" /\ call.fn = "driveState"
      /\ orb' = [orb EXCEPT ![a].state = "WAITING_LOC_MEM_READ_RESP"]
      /\ bypassReads' = bypassReads /\ far' = far /\ pendingFar' = pendingFar
  BY DEF DriveLocMemRead
<1>3. /\ frames' = frames
      /\ call' = IF NearOutcome(p) = "forwarded" THEN Call("return_data", a) ELSE NoCall
  BY <1>1, <1>2, ContinueOnce
<1> HIDE DEF a, p
<1>4. \A op \in Ends, b \in Addr : Ending(op, b)' <=> Ending(op, b)
  BY <1>3 DEF Ending
<1>5. /\ near.rq \subseteq near'.rq
      /\ pendingNear # <<>> => pendingNear' # <<>> /\ Head(pendingNear') = Head(pendingNear)
      /\ \A b \in Addr : NearReads(b)' = NearReads(b) + One(a = b /\ NearOutcome(p) # "forwarded")
      /\ \A b \in Addr : FarReads(b)' = FarReads(b)
  BY <1>1, <1>2, NearSent, FarReadsKept
<1>6. FillsAbove' /\ AnsweredThere'
  BY <1>2, <1>3, <1>4, <1>5, ThereKept DEF AccountInv, FillsAbove
<1>7. /\ \A b \in Addr : ~Answering(b)
      /\ \A b \in Addr : Answering(b)' <=> b = a /\ NearOutcome(p) = "forwarded"
  BY <1>2, <1>3, NoneAnswered DEF Answering, Call, NoCall
<1>8. /\ orb'[a].state = "WAITING_LOC_MEM_READ_RESP"
      /\ \A b \in Addr : b # a => orb'[b].state = orb[b].state
  BY <1>1, <1>2 DEF OrbEntry
<1>9. Tracked'
  BY <1>7, <1>8 DEF Tracked, Waiting
<1>10. \A b \in Addr : /\ NearDue(b)' = NearDue(b) + One(a = b /\ NearOutcome(p) # "forwarded")
                       /\ FarDue(b)' = FarDue(b)
  <2>1. ASSUME NEW b \in Addr
        PROVE  NearDue(b)' = NearDue(b) + One(a = b /\ NearOutcome(p) # "forwarded")
    BY <1>2, <1>7, <1>8 DEF NearDue, One
  <2>2. ASSUME NEW b \in Addr
        PROVE  FarDue(b)' = FarDue(b)
    <3>1. b = a => bypassReads[b] = 0
      BY <1>1, <1>2 DEF OneMode
    <3>2. QED
      BY <1>2, <1>7, <1>8, <3>1 DEF FarDue, One
  <2>3. QED
    BY <2>1, <2>2
<1>11. \A b \in Addr : /\ NearReads(b)' - NearReads(b) = NearDue(b)' - NearDue(b)
                       /\ FarReads(b)' - FarReads(b) = FarDue(b)' - FarDue(b)
  <2>1. SUFFICES ASSUME NEW b \in Addr
                 PROVE  /\ NearReads(b)' - NearReads(b) = NearDue(b)' - NearDue(b)
                        /\ FarReads(b)' - FarReads(b) = FarDue(b)' - FarDue(b)
    OBVIOUS
  <2>2. /\ NearReads(b) \in Nat /\ FarReads(b) \in Nat
        /\ NearDue(b) \in {0, 1} /\ FarDue(b) \in Int
    BY AccountType
  <2>3. QED
    BY <1>5, <1>10, <2>2 DEF One
<1>12. QED
  BY <1>4, <1>6, <1>9, <1>11, Balanced

LEMMA DriveFarBalanced ==
  ASSUME TypeInv, TypeInv', OneCallback, OneMode, OneMode', AccountInv, DriveFarMemRead
  PROVE  AccountInv'
<1> DEFINE a == call.addr  p == OrbPacket(a, FALSE)
<1>1. /\ a \in Addr /\ p \in Packet /\ p.addr = a /\ ~p.isWrite /\ p.cb = 1
      /\ orb \in [Addr -> OrbEntry]
  <2>1. a \in Addr
    BY CallAddrType DEF DriveFarMemRead, TypeInv
  <2>2. QED
    BY <2>1, OrbPacketType DEF OrbPacket, OneCallback, TypeInv, TypeOK
<1>2. /\ dispatchToFarGuaranteed(p) /\ Continue(FarOutcome(p), p, frames)
      /\ orb[a].state = "FAR_MEM_READ" /\ call.fn = "driveState"
      /\ orb' = [orb EXCEPT ![a].state = "WAITING_FAR_MEM_READ_RESP"]
      /\ bypassReads' = bypassReads /\ near' = near /\ pendingNear' = pendingNear
  BY DEF DriveFarMemRead
<1>3. /\ frames' = frames
      /\ call' = IF FarOutcome(p) = "forwarded" THEN Call("return_data", a) ELSE NoCall
  BY <1>1, <1>2, ContinueOnce
<1> HIDE DEF a, p
<1>4. \A op \in Ends, b \in Addr : Ending(op, b)' <=> Ending(op, b)
  BY <1>3 DEF Ending
<1>5. /\ far.rq \subseteq far'.rq
      /\ pendingFar # <<>> => pendingFar' # <<>> /\ Head(pendingFar') = Head(pendingFar)
      /\ \A b \in Addr : FarReads(b)' = FarReads(b) + One(a = b /\ FarOutcome(p) # "forwarded")
      /\ \A b \in Addr : NearReads(b)' = NearReads(b)
  BY <1>1, <1>2, FarSent, NearReadsKept
<1>6. FillsAbove' /\ AnsweredThere'
  BY <1>2, <1>3, <1>4, <1>5, ThereKept DEF AccountInv, FillsAbove
<1>7. /\ \A b \in Addr : ~Answering(b)
      /\ \A b \in Addr : Answering(b)' <=> b = a /\ FarOutcome(p) = "forwarded"
  BY <1>2, <1>3, NoneAnswered DEF Answering, Call, NoCall
<1>8. /\ orb'[a].state = "WAITING_FAR_MEM_READ_RESP"
      /\ \A b \in Addr : b # a => orb'[b].state = orb[b].state
  BY <1>1, <1>2 DEF OrbEntry
<1>9. Tracked'
  BY <1>7, <1>8 DEF Tracked, Waiting
<1>10. \A b \in Addr : bypassReads[b] = 0
  BY <1>1, <1>2 DEF OneMode
<1>11. \A b \in Addr : /\ FarDue(b)' = FarDue(b) + One(a = b /\ FarOutcome(p) # "forwarded")
                       /\ NearDue(b)' = NearDue(b)
  BY <1>2, <1>7, <1>8, <1>10 DEF NearDue, FarDue, One
<1>12. \A b \in Addr : /\ NearReads(b)' - NearReads(b) = NearDue(b)' - NearDue(b)
                       /\ FarReads(b)' - FarReads(b) = FarDue(b)' - FarDue(b)
  <2>1. SUFFICES ASSUME NEW b \in Addr
                 PROVE  /\ NearReads(b)' - NearReads(b) = NearDue(b)' - NearDue(b)
                        /\ FarReads(b)' - FarReads(b) = FarDue(b)' - FarDue(b)
    OBVIOUS
  <2>2. /\ NearReads(b) \in Nat /\ FarReads(b) \in Nat
        /\ NearDue(b) \in {0, 1} /\ FarDue(b) \in Int
    BY AccountType
  <2>3. QED
    BY <1>5, <1>11, <2>2 DEF One
<1>13. QED
  BY <1>4, <1>6, <1>9, <1>12, Balanced

(* A write sent to nearMC counts for nothing.                              *)
LEMMA NearWriteBalanced ==
  ASSUME TypeInv, AccountInv, NEW p \in Packet, p.isWrite, dispatchToNear(p),
         Tracked', FillsAbove', far' = far, pendingFar' = pendingFar,
         \A op \in Ends, b \in Addr : Ending(op, b)' <=> Ending(op, b),
         \A b \in Addr : NearDue(b)' = NearDue(b) /\ FarDue(b)' = FarDue(b)
  PROVE  AccountInv'
<1>1. /\ near.rq \subseteq near'.rq
      /\ pendingNear # <<>> => pendingNear' # <<>> /\ Head(pendingNear') = Head(pendingNear)
      /\ \A b \in Addr : NearReads(b)' = NearReads(b) + 0
  BY NearSent DEF One
<1>2. AnsweredThere'
  BY <1>1, ThereKept DEF AccountInv
<1>3. pendingNear \in Seq(Packet)
  BY DEF TypeInv, TypeOK
<1>4. ASSUME NEW b \in Addr
      PROVE  NearReads(b)' = NearReads(b) /\ FarReads(b)' = FarReads(b)
  <2>1. NearReads(b) \in Int
    BY <1>3, CountType DEF NearReads, One
  <2>2. QED
    BY <1>1, <2>1, FarReadsKept
<1>5. \A b \in Addr : NearEnds(b)' = NearEnds(b) /\ FarEnds(b)' = FarEnds(b)
  BY EndsKept
<1>6. NearAccount'
  BY <1>4, <1>5, NearKept DEF AccountInv
<1>7. FarAccount'
  BY <1>4, <1>5, FarKept DEF AccountInv
<1>8. QED
  BY <1>2, <1>6, <1>7 DEF AccountInv

LEMMA DriveWriteBalanced ==
  ASSUME TypeInv, AccountInv, DriveLocMemWrite
  PROVE  AccountInv'
<1> DEFINE a == call.addr  p == WritePacket(a)
<1>1. /\ a \in Addr /\ p \in Packet /\ p.isWrite /\ orb \in [Addr -> OrbEntry]
  BY CallAddrType, WritePacketType DEF DriveLocMemWrite, WritePacket, TypeInv, TypeOK
<1>2. /\ dispatchToNear(p) /\ orb[a].state = "LOC_MEM_WRITE" /\ call.fn = "driveState"
      /\ orb' = [orb EXCEPT ![a] = NoEntry] /\ call' = Call("promoteFromCRB", a)
      /\ bypassReads' = bypassReads /\ far' = far /\ pendingFar' = pendingFar /\ frames' = frames
  BY DEF DriveLocMemWrite, completeRequest
<1> HIDE DEF p, a
<1>3. Tracked' /\ \A b \in Addr : ~Answering(b) /\ ~Answering(b)'
  BY <1>2, NoneAnswered DEF Call
<1>4. \A b \in Addr : \A st \in Waiting : orb'[b].state = st <=> orb[b].state = st
  BY <1>1, <1>2 DEF NoEntry, Waiting
<1>5. \A b \in Addr : NearDue(b)' = NearDue(b) /\ FarDue(b)' = FarDue(b)
  BY <1>2, <1>3, <1>4, DueKept
<1>6. FillsAbove' /\ \A op \in Ends, b \in Addr : Ending(op, b)' <=> Ending(op, b)
  BY <1>2 DEF Ending, FillsAbove, AccountInv
<1>7. QED
  BY <1>1, <1>2, <1>3, <1>5, <1>6, NearWriteBalanced

(* promoteFromCRB() admits a request nobody waited for yet.                *)
LEMMA AdmitBalanced ==
  ASSUME TypeInv, AccountInv, NEW p \in Packet, ~InOrb(p.addr), admitRequest(p),
         call.fn # "return_data", bypassReads' = bypassReads,
         near' = near, far' = far, pendingNear' = pendingNear, pendingFar' = pendingFar,
         frames' = frames
  PROVE  AccountInv'
<1>1. p.addr \in Addr /\ orb \in [Addr -> OrbEntry]
  BY DEF Packet, TypeInv, TypeOK
<1>2. chooseInitialState(p.addr, p.isWrite) \notin Waiting
  BY InitialStateType DEF ToDrive, Waiting
<1>3. /\ orb'[p.addr].state = chooseInitialState(p.addr, p.isWrite)
      /\ \A b \in Addr \ {p.addr} : orb'[b] = orb[b]
      /\ call'.fn # "return_data"
  BY <1>1 DEF admitRequest, Call
<1>4. \A b \in Addr : \A st \in Waiting : orb'[b].state = st <=> orb[b].state = st
  BY <1>1, <1>2, <1>3 DEF InOrb, Waiting
<1>5. Tracked' /\ \A b \in Addr : ~Answering(b) /\ ~Answering(b)'
  BY <1>3, NoneAnswered
<1>6. \A b \in Addr : NearDue(b)' = NearDue(b) /\ FarDue(b)' = FarDue(b)
  BY <1>4, <1>5, DueKept
<1>7. QED
  BY <1>5, <1>6, Quiet

LEMMA PromoteBalanced ==
  ASSUME TypeInv, IndexInv, AccountInv, Promote
  PROVE  AccountInv'
<1>1. PICK k \in DOMAIN crb : IsOldest(k, SameIndex(call.addr)) /\ admitRequest(crb[k])
  BY DEF Promote
<1>2. crb[k] \in Packet
  BY LenProperties, ElementOfSeq DEF TypeInv, TypeOK
<1>3. ~InOrb(crb[k].addr)
  <2>1. returnIndexDC(crb[k].addr) = returnIndexDC(call.addr) /\ crb[k].addr \in Addr
    BY <1>1, <1>2 DEF IsOldest, SameIndex, Packet
  <2>2. ~Busy(returnIndexDC(crb[k].addr))
    BY <2>1 DEF Promote, IndexInv, FreedIndex
  <2>3. QED
    BY <2>1, <2>2 DEF Busy
<1>4. QED
  BY <1>1, <1>2, <1>3, AdmitBalanced DEF Promote, mcVars

(* The handlers that answer, but for the far read that fills.              *)
LEMMA ReturnsBalanced ==
  ASSUME TypeInv, OneMode, AccountInv,
         ReturnBypassed \/ ReturnTagReadHit \/ ReturnTagRead \/ ReturnUntracked
  PROVE  AccountInv'
<1> USE DEF dcmVars, mcVars
<1>0. /\ near'.rq = near.rq /\ far'.rq = far.rq /\ frames' = frames
      /\ pendingNear' = pendingNear /\ pendingFar' = pendingFar
      /\ orb \in [Addr -> OrbEntry] /\ bypassReads \in [Addr -> Int]
  BY DEF ReturnBypassed, ReturnTagReadHit, ReturnTagRead, ReturnUntracked, TypeInv, TypeOK
<1>1. CASE ReturnBypassed
  <2> DEFINE a == call.addr
  <2>1. /\ a \in Addr /\ call.fn = "return_data" /\ bypassReads[a] > 0
        /\ bypassReads' = [bypassReads EXCEPT ![a] = @ - 1] /\ orb' = orb
    BY <1>1, CallAddrType DEF ReturnBypassed, TypeInv
  <2>2. call' = NoCall /\ call \in [fn : HandlerNames, addr : Addr]
    BY <1>1 DEF ReturnBypassed, TypeInv, TypeOK, CallType, NoCall, Call
  <2> HIDE DEF a
  <2>3. \A b \in Addr : ~Answering(b)' /\ (Answering(b) <=> b = call.addr)
    <3>1. call = [fn |-> "return_data", addr |-> call.addr]
      BY <2>1, <2>2
    <3>2. \A b \in Addr : Answering(b) <=> b = call.addr
      BY <3>1 DEF Call, Answering
    <3>3. call'.fn # "return_data"
      BY <2>2 DEF NoCall, Call
    <3>4. QED
      BY <3>2, <3>3, NoneAnswered
  <2>4. orb[a].state \notin Waiting
    <3>1. bypass
      BY <2>1 DEF OneMode
    <3>2. QED
      BY <2>1, <3>1 DEF OneMode, Waiting
  <2>5. \A b \in Addr : NearDue(b)' = NearDue(b) /\ FarDue(b)' = FarDue(b)
    <3>1. SUFFICES ASSUME NEW b \in Addr
                   PROVE  NearDue(b)' = NearDue(b) /\ FarDue(b)' = FarDue(b)
      OBVIOUS
    <3>2. CASE b = a
      BY <1>0, <2>1, <2>3, <2>4, <3>2 DEF NearDue, FarDue, One, Waiting, a
    <3>3. CASE b # a
      BY <1>0, <2>1, <2>3, <3>3 DEF NearDue, FarDue, One, a
    <3>4. QED
      BY <3>2, <3>3
  <2>6. Tracked'
    BY <2>3 DEF Tracked
  <2>7. QED
    BY <1>0, <2>5, <2>6, Quiet
<1>2. CASE ReturnTagReadHit \/ ReturnTagRead \/ ReturnUntracked
  <2> DEFINE a == call.addr
  <2>1. /\ a \in Addr /\ Returned(a) /\ bypassReads' = bypassReads
        /\ call'.fn # "return_data"
    BY <1>2, ReturnedType DEF ReturnTagReadHit, ReturnTagRead, ReturnUntracked,
       completeRequest, Call, NoCall, TypeInv
  <2>2. orb'[a].state \notin Waiting /\ \A b \in Addr : b # a => orb'[b].state = orb[b].state
    BY <1>0, <1>2, <2>1 DEF ReturnTagReadHit, ReturnTagRead, ReturnUntracked,
       completeRequest, NoEntry, OrbEntry, Waiting
  <2>3. Tracked' /\ \A b \in Addr : NearDue(b)' = NearDue(b) /\ FarDue(b)' = FarDue(b)
    BY <2>1, <2>2, ReturnedDue
  <2>4. QED
    BY <1>0, <2>3, Quiet
<1>3. QED
  BY <1>1, <1>2

LEMMA FarReturnBalanced ==
  ASSUME TypeInv, AccountInv, ReturnFarRead
  PROVE  AccountInv'
<1> DEFINE a == call.addr
<1>0. /\ near' = near /\ far' = far /\ frames' = <<Frame("fill", a)>> \o frames
      /\ pendingNear' = pendingNear /\ pendingFar' = pendingFar
      /\ orb \in [Addr -> OrbEntry]
  BY DEF ReturnFarRead, TypeInv, TypeOK, mcVars
<1>1. /\ a \in Addr /\ Returned(a) /\ bypassReads' = bypassReads
      /\ call'.fn # "return_data" /\ orb' = [orb EXCEPT ![a] = NoEntry]
  BY ReturnedType DEF ReturnFarRead, completeRequest, Call, TypeInv
<1>2. orb'[a].state \notin Waiting /\ \A b \in Addr : b # a => orb'[b].state = orb[b].state
  BY <1>0, <1>1 DEF NoEntry, Waiting
<1>3. Tracked' /\ \A b \in Addr : NearDue(b)' = NearDue(b) /\ FarDue(b)' = FarDue(b)
  BY <1>1, <1>2, ReturnedDue
<1>4. FillsAbove' /\ \A op \in Ends, b \in Addr : Ending(op, b)' <=> Ending(op, b)
  BY <1>0, <1>1, PushFill DEF AccountInv
<1>5. AnsweredThere'
  BY <1>0, <1>4, ThereKept DEF AccountInv
<1>6. \A b \in Addr : /\ NearEnds(b)' = NearEnds(b) /\ FarEnds(b)' = FarEnds(b)
                      /\ NearReads(b)' = NearReads(b) /\ FarReads(b)' = FarReads(b)
  BY <1>0, <1>4, EndsKept, NearReadsKept, FarReadsKept
<1>7. QED
  BY <1>3, <1>4, <1>5, <1>6, NearKept, FarKept DEF AccountInv

(* The background fill.                                                    *)
LEMMA FillBalanced ==
  ASSUME TypeInv, AccountInv, ResumeFill
  PROVE  AccountInv'
<1> DEFINE p == WritePacket(Head(frames).addr)
<1>1. p \in Packet /\ p.isWrite /\ dispatchToNear(p)
  BY ResumeType, WritePacketType DEF ResumeFill, Resume, WritePacket, TypeInv
<1>2. /\ frames # <<>> /\ frames' = Tail(frames) /\ Head(frames).op = "fill"
      /\ call = NoCall /\ call' = call
      /\ orb' = orb /\ bypassReads' = bypassReads /\ far' = far /\ pendingFar' = pendingFar
  BY DEF ResumeFill, Resume
<1> HIDE DEF p
<1>3. FillsAbove' /\ \A op \in Ends, b \in Addr : Ending(op, b)' <=> Ending(op, b)
  BY <1>2, PopFrame DEF AccountInv
<1>4. Tracked' /\ \A b \in Addr : ~Answering(b) /\ ~Answering(b)'
  BY <1>2, NoneAnswered DEF NoCall, Call
<1>5. \A b \in Addr : NearDue(b)' = NearDue(b) /\ FarDue(b)' = FarDue(b)
  BY <1>2, <1>4, DueKept
<1>6. QED
  BY <1>1, <1>2, <1>3, <1>4, <1>5, NearWriteBalanced

-----------------------------------------------------------------------------
(* Reads that leave a queue.                                               *)

(* Between handlers no caller has anything left to do.                     *)
LEMMA IdleAccount ==
  ASSUME TypeInv, OneMode, AccountInv, call = NoCall, frames = <<>>, NEW a \in Addr
  PROVE  /\ NearReads(a) = One(orb[a].state = "WAITING_LOC_MEM_READ_RESP")
         /\ FarReads(a) = One(orb[a].state = "WAITING_FAR_MEM_READ_RESP") + bypassReads[a]
         /\ bypassReads[a] \in Nat
<1>1. ~Answering(a)
  BY NoneAnswered DEF NoCall, Call
<1>2. NearEnds(a) = 0 /\ FarEnds(a) = 0
  BY NoFrame DEF NearEnds, FarEnds, Ends, One
<1>3. NearReads(a) \in Nat /\ FarReads(a) \in Nat /\ bypassReads[a] \in Nat
  BY AccountType
<1>4. /\ NearReads(a) - 0 = One(orb[a].state = "WAITING_LOC_MEM_READ_RESP")
      /\ FarReads(a) - 0 = One(orb[a].state = "WAITING_FAR_MEM_READ_RESP") + bypassReads[a] - 0
  BY <1>1, <1>2 DEF AccountInv, NearAccount, FarAccount, NearDue, FarDue, One
<1>5. QED
  BY <1>3, <1>4 DEF One

(* A read that counts is there.                                            *)
LEMMA CountedRead ==
  ASSUME NEW S, NEW s \in Seq(S), s # <<>>, NEW M, Head(s) \in M
  PROVE  CountIn(s, M) >= 1
<1>1. CountIn(Tail(s), M) = CountIn(s, M) - 1
  BY CountTail
<1>2. Tail(s) \in Seq(S)
  BY HeadTailProperties
<1>3. CountIn(s, M) \in Nat /\ CountIn(Tail(s), M) \in Nat
  BY <1>2, CountType
<1>4. QED
  BY <1>1, <1>3

(* nearMC signals a read: the request that waits for it is answered, and   *)
(* there is one.                                                           *)
LEMMA NearAnswered ==
  ASSUME TypeInv, OneMode, AccountInv, call = NoCall, frames = <<>>,
         NEW o \in {"popNear", "doneNear"}, NEW a \in Addr,
         frames' = <<Frame(o, a)>>, call' = Call("return_data", a),
         near' = near, far' = far, pendingNear' = pendingNear, pendingFar' = pendingFar,
         orb' = orb, bypassReads' = bypassReads,
         o = "doneNear" => a \in near.rq,
         o = "popNear" => pendingNear # <<>> /\ Head(pendingNear) \in ReadsOf(a)
  PROVE  AccountInv'
<1>1. pendingNear \in Seq(Packet) /\ pendingFar \in Seq(HeldPkt)
  BY DEF TypeInv, TypeOK
<1>2. orb[a].state = "WAITING_LOC_MEM_READ_RESP"
  <2>1. /\ CountIn(pendingNear, ReadsOf(a)) \in Nat
        /\ o = "popNear" => CountIn(pendingNear, ReadsOf(a)) >= 1
    BY <1>1, CountType, CountedRead
  <2>2. NearReads(a) >= 1
    BY <2>1 DEF NearReads, One
  <2>3. QED
    BY <2>2, IdleAccount DEF One
<1>3. \A b \in Addr : bypassReads[b] = 0
  BY <1>2 DEF OneMode
<1>4. \A b \in Addr : ~Answering(b) /\ (Answering(b)' <=> b = a)
  BY NoneAnswered DEF NoCall, Call, Answering
<1>5. Tracked'
  BY <1>2, <1>4 DEF Tracked, Waiting
<1>6. FillsAbove' /\ \A op \in Ends, b \in Addr : Ending(op, b)' <=> op = o /\ b = a
  BY FirstFrame DEF Ends
<1>7. AnsweredThere'
  BY <1>6 DEF AnsweredThere, Ends, ReadsOf
<1>8. /\ \A b \in Addr : NearReads(b)' = NearReads(b) /\ FarReads(b)' = FarReads(b)
      /\ \A b \in Addr : FarEnds(b)' = 0 /\ NearEnds(b)' = One(b = a)
  BY <1>6, NearReadsKept, FarReadsKept DEF FarEnds, NearEnds, Ends, One
<1>9. ASSUME NEW b \in Addr
      PROVE  /\ NearReads(b)' - NearEnds(b)' = NearDue(b)'
             /\ FarReads(b)' - FarEnds(b)' = FarDue(b)'
  <2>1. /\ NearReads(b)' = One(orb[b].state = "WAITING_LOC_MEM_READ_RESP")
        /\ FarReads(b)' = One(orb[b].state = "WAITING_FAR_MEM_READ_RESP") + 0
    BY <1>3, <1>8, IdleAccount
  <2>2. /\ NearDue(b)' = One(orb[b].state = "WAITING_LOC_MEM_READ_RESP" /\ b # a)
        /\ FarDue(b)' = One(orb[b].state = "WAITING_FAR_MEM_READ_RESP" /\ b # a)
    BY <1>3, <1>4 DEF NearDue, FarDue, One
  <2>3. QED
    BY <1>2, <1>8, <2>1, <2>2 DEF One
<1>10. QED
  BY <1>5, <1>6, <1>7, <1>9 DEF AccountInv, NearAccount, FarAccount

LEMMA FarAnswered ==
  ASSUME TypeInv, OneMode, AccountInv, call = NoCall, frames = <<>>,
         NEW o \in {"popFar", "doneFar"}, NEW a \in Addr,
         frames' = <<Frame(o, a)>>, call' = Call("return_data", a),
         near' = near, far' = far, pendingNear' = pendingNear, pendingFar' = pendingFar,
         orb' = orb, bypassReads' = bypassReads,
         o = "doneFar" => a \in far.rq,
         o = "popFar" => pendingFar # <<>> /\ Head(pendingFar) \in HeldReadsOf(a)
  PROVE  AccountInv'
<1>1. pendingNear \in Seq(Packet) /\ pendingFar \in Seq(HeldPkt) /\ bypass \in BOOLEAN
  BY DEF TypeInv, TypeOK
<1>2. orb[a].state = "WAITING_FAR_MEM_READ_RESP" \/ bypassReads[a] > 0
  <2>1. /\ CountIn(pendingFar, HeldReadsOf(a)) \in Nat
        /\ o = "popFar" => CountIn(pendingFar, HeldReadsOf(a)) >= 1
    BY <1>1, CountType, CountedRead
  <2>2. FarReads(a) >= 1
    BY <2>1 DEF FarReads, One
  <2>3. QED
    BY <2>2, IdleAccount DEF One
<1>3. orb[a].state = "WAITING_FAR_MEM_READ_RESP" <=> bypassReads[a] = 0
  BY <1>1, <1>2 DEF OneMode
<1>4. \A b \in Addr : ~Answering(b) /\ (Answering(b)' <=> b = a)
  BY NoneAnswered DEF NoCall, Call, Answering
<1>5. Tracked'
  BY <1>2, <1>4 DEF Tracked, Waiting
<1>6. FillsAbove' /\ \A op \in Ends, b \in Addr : Ending(op, b)' <=> op = o /\ b = a
  BY FirstFrame DEF Ends
<1>7. AnsweredThere'
  BY <1>6 DEF AnsweredThere, Ends, HeldReadsOf
<1>8. /\ \A b \in Addr : NearReads(b)' = NearReads(b) /\ FarReads(b)' = FarReads(b)
      /\ \A b \in Addr : NearEnds(b)' = 0 /\ FarEnds(b)' = One(b = a)
  BY <1>6, NearReadsKept, FarReadsKept DEF FarEnds, NearEnds, Ends, One
<1>9. ASSUME NEW b \in Addr
      PROVE  /\ NearReads(b)' - NearEnds(b)' = NearDue(b)'
             /\ FarReads(b)' - FarEnds(b)' = FarDue(b)'
  <2>1. /\ NearReads(b)' = One(orb[b].state = "WAITING_LOC_MEM_READ_RESP")
        /\ FarReads(b)' = One(orb[b].state = "WAITING_FAR_MEM_READ_RESP") + bypassReads[b]
        /\ bypassReads[b] \in Nat
    BY <1>8, IdleAccount
  <2>2. NearReads(b)' - NearEnds(b)' = NearDue(b)'
    <3>1. NearDue(b)' = One(orb[b].state = "WAITING_LOC_MEM_READ_RESP" /\ b # a)
      BY <1>4 DEF NearDue, One
    <3>2. orb[a].state # "WAITING_LOC_MEM_READ_RESP"
      BY <1>2, <1>3 DEF OneMode
    <3>3. QED
      BY <1>8, <2>1, <3>1, <3>2 DEF One
  <2>3. CASE b = a
    <3>1. FarDue(b)' = bypassReads[b] - One(bypassReads[b] > 0)
      BY <1>4, <2>1, <2>3 DEF FarDue, One
    <3>2. FarReads(b)' - 1 = bypassReads[b] - One(bypassReads[b] > 0)
      BY <1>3, <2>1, <2>3 DEF One
    <3>3. QED
      BY <1>8, <2>2, <2>3, <3>1, <3>2 DEF One
  <2>4. CASE b # a
    BY <1>4, <1>8, <2>1, <2>2, <2>4 DEF FarDue, One
  <2>5. QED
    BY <2>3, <2>4
<1>10. QED
  BY <1>5, <1>6, <1>7, <1>9 DEF AccountInv, NearAccount, FarAccount

(* A step between handlers that leads to none.                             *)
LEMMA IdleStep ==
  ASSUME TypeInv, OneMode, AccountInv, call = NoCall, frames = <<>>,
         call' = NoCall, frames' = <<>>, orb' = orb, bypassReads' = bypassReads,
         \A a \in Addr : NearReads(a)' = NearReads(a) /\ FarReads(a)' = FarReads(a)
  PROVE  AccountInv'
<1>1. Tracked' /\ \A a \in Addr : ~Answering(a) /\ ~Answering(a)'
  BY NoneAnswered DEF NoCall, Call
<1>2. \A a \in Addr : NearDue(a)' = NearDue(a) /\ FarDue(a)' = FarDue(a)
  BY <1>1, DueKept
<1>3. FillsAbove' /\ \A op \in Ends, b \in Addr : ~Ending(op, b) /\ ~Ending(op, b)'
  BY NoFrame
<1>4. AnsweredThere'
  BY <1>3 DEF AnsweredThere, Ends
<1>5. \A a \in Addr : NearEnds(a)' = NearEnds(a) /\ FarEnds(a)' = FarEnds(a)
  BY <1>3, EndsKept
<1>6. QED
  BY <1>1, <1>2, <1>3, <1>4, <1>5, NearKept, FarKept DEF AccountInv

(* processPendingNearDispatches(): a read goes from one queue to the next, *)
(* or is answered where it is.                                             *)
LEMMA ReleaseNearBalanced ==
  ASSUME TypeInv, OneCallback, OneMode, AccountInv, ReleaseNear
  PROVE  AccountInv'
<1> DEFINE p == Head(pendingNear)  o == trySend(near, p)
<1>1. /\ call = NoCall /\ frames = <<>> /\ pendingNear # <<>> /\ pendingNear \in Seq(Packet)
      /\ orb' = orb /\ bypassReads' = bypassReads /\ far' = far /\ pendingFar' = pendingFar
      /\ near \in MemQueues
  BY DEF ReleaseNear, At, Idle, TypeInv, TypeOK
<1>2. /\ o # "blocked" /\ near' = After(o, near, p)
      /\ pendingNear' = IF o = "queued" THEN Tail(pendingNear) ELSE pendingNear
      /\ Continue(o, p, IF o = "forwarded" THEN <<Frame("popNear", p.addr)>> ELSE <<>>)
  BY DEF ReleaseNear
<1>3. p \in Packet /\ p.addr \in Addr /\ p.cb = 1
  <2>1. p \in Packet
    BY <1>1, HeadTailProperties
  <2>2. p.cb = 1
    BY <1>1, OnceKept DEF OneCallback, Once
  <2>3. QED
    BY <2>1, <2>2 DEF Packet
<1>4. /\ o \in {"blocked", "forwarded", "queued"}
      /\ o = "queued" => p.isWrite \/ p.addr \notin near.rq
      /\ o = "forwarded" => ~p.isWrite
  BY DEF trySend
<1> HIDE DEF o
<1>5. /\ frames' = IF o = "forwarded" THEN <<Frame("popNear", p.addr)>> ELSE <<>>
      /\ call' = IF o = "forwarded" THEN Call("return_data", p.addr) ELSE NoCall
  BY <1>2, <1>3, ContinueOnce
<1>6. CASE o = "forwarded"
  <2>1. near' = near /\ pendingNear' = pendingNear
    BY <1>2, <1>6 DEF After
  <2>2. p \in ReadsOf(p.addr)
    BY <1>3, <1>4, <1>6 DEF ReadsOf
  <2>3. /\ frames' = <<Frame("popNear", p.addr)>> /\ call' = Call("return_data", p.addr)
    BY <1>5, <1>6
  <2>4. QED
    BY <1>1, <1>3, <2>1, <2>2, <2>3, NearAnswered
<1>7. CASE o = "queued"
  <2>1. near'.rq = IF p.isWrite THEN near.rq ELSE near.rq \cup {p.addr}
    BY <1>1, <1>2, <1>7 DEF After, Enqueued, MemQueues
  <2>2. ASSUME NEW a \in Addr
        PROVE  NearReads(a)' = NearReads(a)
    <3>1. CountIn(Tail(pendingNear), ReadsOf(a))
            = CountIn(pendingNear, ReadsOf(a)) - (IF p \in ReadsOf(a) THEN 1 ELSE 0)
      BY <1>1, CountTail
    <3>2. p \in ReadsOf(a) <=> ~p.isWrite /\ p.addr = a
      BY <1>3 DEF ReadsOf
    <3>3. CountIn(pendingNear, ReadsOf(a)) \in Nat
      BY <1>1, CountType
    <3>4. NearReads(a)' = One(a \in near'.rq) + CountIn(Tail(pendingNear), ReadsOf(a))
      BY <1>2, <1>7 DEF NearReads, ReadsOf
    <3> HIDE DEF p
    <3>5. QED
      BY <1>4, <1>7, <2>1, <3>1, <3>2, <3>3, <3>4 DEF NearReads, One
  <2>3. \A a \in Addr : FarReads(a)' = FarReads(a)
    BY <1>1, FarReadsKept
  <2>4. frames' = <<>> /\ call' = NoCall
    BY <1>5, <1>7
  <2>5. QED
    BY <1>1, <2>2, <2>3, <2>4, IdleStep
<1>8. QED
  BY <1>2, <1>4, <1>6, <1>7

(* processPendingFarDispatches().                                          *)
LEMMA ReleaseFarBalanced ==
  ASSUME TypeInv, OneCallback, OneMode, AccountInv, ReleaseFar
  PROVE  AccountInv'
<1> DEFINE p == Head(pendingFar)  o == trySend(far, p)
<1>1. /\ call = NoCall /\ frames = <<>> /\ pendingFar # <<>> /\ pendingFar \in Seq(HeldPkt)
      /\ orb' = orb /\ bypassReads' = bypassReads /\ near' = near /\ pendingNear' = pendingNear
      /\ far \in MemQueues
  BY DEF ReleaseFar, FarReady, At, Idle, TypeInv, TypeOK
<1>2. /\ o # "blocked" /\ far' = After(o, far, p)
      /\ pendingFar' = IF o = "queued" THEN Tail(pendingFar) ELSE pendingFar
      /\ Continue(o, p, IF o = "forwarded" THEN <<Frame("popFar", p.addr)>> ELSE <<>>)
  BY DEF ReleaseFar
<1>3. p \in HeldPkt /\ p.addr \in Addr /\ p.cb = 1
  <2>1. p \in HeldPkt
    BY <1>1, HeadTailProperties
  <2>2. p.cb = 1
    BY <1>1, OnceKept DEF OneCallback, Once
  <2>3. QED
    BY <2>1, <2>2 DEF HeldPkt
<1>4. /\ o \in {"blocked", "forwarded", "queued"}
      /\ o = "queued" => p.isWrite \/ p.addr \notin far.rq
      /\ o = "forwarded" => ~p.isWrite
  BY DEF trySend
<1> HIDE DEF o
<1>5. /\ frames' = IF o = "forwarded" THEN <<Frame("popFar", p.addr)>> ELSE <<>>
      /\ call' = IF o = "forwarded" THEN Call("return_data", p.addr) ELSE NoCall
  BY <1>2, <1>3, ContinueOnce
<1>6. CASE o = "forwarded"
  <2>1. far' = far /\ pendingFar' = pendingFar
    BY <1>2, <1>6 DEF After
  <2>2. p \in HeldReadsOf(p.addr)
    BY <1>3, <1>4, <1>6 DEF HeldReadsOf
  <2>3. /\ frames' = <<Frame("popFar", p.addr)>> /\ call' = Call("return_data", p.addr)
    BY <1>5, <1>6
  <2>4. QED
    BY <1>1, <1>3, <2>1, <2>2, <2>3, FarAnswered
<1>7. CASE o = "queued"
  <2>1. far'.rq = IF p.isWrite THEN far.rq ELSE far.rq \cup {p.addr}
    BY <1>1, <1>2, <1>7 DEF After, Enqueued, MemQueues
  <2>2. ASSUME NEW a \in Addr
        PROVE  FarReads(a)' = FarReads(a)
    <3>1. CountIn(Tail(pendingFar), HeldReadsOf(a))
            = CountIn(pendingFar, HeldReadsOf(a)) - (IF p \in HeldReadsOf(a) THEN 1 ELSE 0)
      BY <1>1, CountTail
    <3>2. p \in HeldReadsOf(a) <=> ~p.isWrite /\ p.addr = a
      BY <1>3 DEF HeldReadsOf
    <3>3. CountIn(pendingFar, HeldReadsOf(a)) \in Nat
      BY <1>1, CountType
    <3>4. FarReads(a)' = One(a \in far'.rq) + CountIn(Tail(pendingFar), HeldReadsOf(a))
      BY <1>2, <1>7 DEF FarReads, HeldReadsOf
    <3> HIDE DEF p
    <3>5. QED
      BY <1>4, <1>7, <2>1, <3>1, <3>2, <3>3, <3>4 DEF FarReads, One
  <2>3. \A a \in Addr : NearReads(a)' = NearReads(a)
    BY <1>1, NearReadsKept
  <2>4. frames' = <<>> /\ call' = NoCall
    BY <1>5, <1>7
  <2>5. QED
    BY <1>1, <2>2, <2>3, <2>4, IdleStep
<1>8. QED
  BY <1>2, <1>4, <1>6, <1>7

(* The outermost caller takes out the read it answered.                    *)
LEMMA EndBalanced ==
  ASSUME TypeInv, OneMode, AccountInv, call = NoCall, call' = NoCall, frames' = <<>>,
         orb' = orb, bypassReads' = bypassReads,
         \A a \in Addr : /\ NearReads(a)' = NearReads(a) - NearEnds(a)
                         /\ FarReads(a)' = FarReads(a) - FarEnds(a)
  PROVE  AccountInv'
<1>1. Tracked' /\ \A a \in Addr : ~Answering(a) /\ ~Answering(a)'
  BY NoneAnswered DEF NoCall, Call
<1>2. \A a \in Addr : NearDue(a)' = NearDue(a) /\ FarDue(a)' = FarDue(a)
  BY <1>1, DueKept
<1>3. FillsAbove' /\ \A op \in Ends, b \in Addr : ~Ending(op, b)'
  BY NoFrame
<1>4. AnsweredThere'
  BY <1>3 DEF AnsweredThere, Ends
<1>5. \A a \in Addr : NearEnds(a)' = 0 /\ FarEnds(a)' = 0
  BY <1>3 DEF NearEnds, FarEnds, Ends, One
<1>6. ASSUME NEW a \in Addr
      PROVE  /\ NearReads(a)' - NearEnds(a)' = NearDue(a)'
             /\ FarReads(a)' - FarEnds(a)' = FarDue(a)'
  <2>1. NearDue(a) \in Int /\ FarDue(a) \in Int
    BY AccountType
  <2>2. NearReads(a)' = NearDue(a) /\ FarReads(a)' = FarDue(a)
    BY DEF AccountInv, NearAccount, FarAccount
  <2>3. QED
    BY <1>2, <1>5, <2>1, <2>2
<1>7. QED
  BY <1>1, <1>3, <1>4, <1>6 DEF AccountInv, NearAccount, FarAccount

LEMMA PopBalanced ==
  ASSUME TypeInv, OneMode, AccountInv, ResumePop
  PROVE  AccountInv'
<1> DEFINE a == Head(frames).addr
<1>1. /\ call = NoCall /\ call' = NoCall /\ orb' = orb /\ bypassReads' = bypassReads
      /\ near' = near /\ far' = far /\ frames # <<>> /\ frames' = Tail(frames)
      /\ Head(frames).op \in {"popNear", "popFar"}
  BY DEF ResumePop, Resume, mcVars
<1>2. /\ a \in Addr /\ frames' = <<>>
      /\ \A op \in Ends, b \in Addr : Ending(op, b) <=> op = Head(frames).op /\ b = a
  BY <1>1, ResumeType, PopFrame DEF TypeInv, AccountInv, Ends
<1>3. pendingNear \in Seq(Packet) /\ pendingFar \in Seq(HeldPkt)
  BY DEF TypeInv, TypeOK
<1>4. CASE Resume("popNear")
  <2>1. /\ pendingNear' = Tail(pendingNear) /\ pendingFar' = pendingFar
        /\ Head(frames).op = "popNear"
    BY <1>4 DEF ResumePop, Resume
  <2>2. pendingNear # <<>> /\ Head(pendingNear) \in ReadsOf(a)
    BY <1>2, <2>1 DEF AccountInv, AnsweredThere, Ends
  <2> HIDE DEF a
  <2>3. \A b \in Addr : NearEnds(b) = One(b = a) /\ FarEnds(b) = 0
    BY <1>2, <2>1 DEF NearEnds, FarEnds, Ends, One
  <2>4. ASSUME NEW b \in Addr
        PROVE  NearReads(b)' = NearReads(b) - One(b = a)
    <3>1. CountIn(Tail(pendingNear), ReadsOf(b))
            = CountIn(pendingNear, ReadsOf(b)) - (IF Head(pendingNear) \in ReadsOf(b) THEN 1 ELSE 0)
      BY <1>3, <2>2, CountTail
    <3>2. Head(pendingNear) \in ReadsOf(b) <=> b = a
      BY <2>2 DEF ReadsOf
    <3>3. CountIn(pendingNear, ReadsOf(b)) \in Nat
      BY <1>3, CountType
    <3>4. NearReads(b)' = One(b \in near.rq) + CountIn(Tail(pendingNear), ReadsOf(b))
      BY <1>1, <2>1 DEF NearReads, ReadsOf
    <3>5. QED
      BY <3>1, <3>2, <3>3, <3>4 DEF NearReads, One
  <2>5. ASSUME NEW b \in Addr
        PROVE  FarReads(b)' = FarReads(b) - 0
    <3>1. FarReads(b) \in Nat
      BY AccountType
    <3>2. QED
      BY <1>1, <2>1, <3>1, FarReadsKept
  <2>6. QED
    BY <1>1, <1>2, <2>3, <2>4, <2>5, EndBalanced
<1>5. CASE Resume("popFar")
  <2>1. /\ pendingFar' = Tail(pendingFar) /\ pendingNear' = pendingNear
        /\ Head(frames).op = "popFar"
    BY <1>5 DEF ResumePop, Resume
  <2>2. pendingFar # <<>> /\ Head(pendingFar) \in HeldReadsOf(a)
    BY <1>2, <2>1 DEF AccountInv, AnsweredThere, Ends
  <2> HIDE DEF a
  <2>3. \A b \in Addr : FarEnds(b) = One(b = a) /\ NearEnds(b) = 0
    BY <1>2, <2>1 DEF NearEnds, FarEnds, Ends, One
  <2>4. ASSUME NEW b \in Addr
        PROVE  FarReads(b)' = FarReads(b) - One(b = a)
    <3>1. CountIn(Tail(pendingFar), HeldReadsOf(b))
            = CountIn(pendingFar, HeldReadsOf(b)) - (IF Head(pendingFar) \in HeldReadsOf(b) THEN 1 ELSE 0)
      BY <1>3, <2>2, CountTail
    <3>2. Head(pendingFar) \in HeldReadsOf(b) <=> b = a
      BY <2>2 DEF HeldReadsOf
    <3>3. CountIn(pendingFar, HeldReadsOf(b)) \in Nat
      BY <1>3, CountType
    <3>4. FarReads(b)' = One(b \in far.rq) + CountIn(Tail(pendingFar), HeldReadsOf(b))
      BY <1>1, <2>1 DEF FarReads, HeldReadsOf
    <3>5. QED
      BY <3>1, <3>2, <3>3, <3>4 DEF FarReads, One
  <2>5. ASSUME NEW b \in Addr
        PROVE  NearReads(b)' = NearReads(b) - 0
    <3>1. NearReads(b) \in Nat
      BY AccountType
    <3>2. QED
      BY <1>1, <2>1, <3>1, NearReadsKept
  <2>6. QED
    BY <1>1, <1>2, <2>3, <2>4, <2>5, EndBalanced
<1>6. QED
  BY <1>4, <1>5 DEF ResumePop

LEMMA DoneBalanced ==
  ASSUME TypeInv, OneMode, AccountInv, ResumeDone
  PROVE  AccountInv'
<1> DEFINE a == Head(frames).addr
<1>1. /\ call = NoCall /\ call' = NoCall /\ orb' = orb /\ bypassReads' = bypassReads
      /\ pendingNear' = pendingNear /\ pendingFar' = pendingFar
      /\ frames # <<>> /\ frames' = Tail(frames) /\ Head(frames).op \in {"doneNear", "doneFar"}
      /\ near \in MemQueues /\ far \in MemQueues
  BY DEF ResumeDone, Resume, dcmVars, TypeInv, TypeOK
<1>2. /\ a \in Addr /\ frames' = <<>>
      /\ \A op \in Ends, b \in Addr : Ending(op, b) <=> op = Head(frames).op /\ b = a
  BY <1>1, ResumeType, PopFrame DEF TypeInv, AccountInv, Ends
<1>3. CASE Resume("doneNear")
  <2>1. /\ near' = [near EXCEPT !.rq = @ \ {a}] /\ far' = far /\ Head(frames).op = "doneNear"
    BY <1>3 DEF ResumeDone, Resume
  <2>2. a \in near.rq
    BY <1>2, <2>1 DEF AccountInv, AnsweredThere, Ends
  <2> HIDE DEF a
  <2>3. \A b \in Addr : NearEnds(b) = One(b = a) /\ FarEnds(b) = 0
    BY <1>2, <2>1 DEF NearEnds, FarEnds, Ends, One
  <2>4. ASSUME NEW b \in Addr
        PROVE  NearReads(b)' = NearReads(b) - One(b = a) /\ FarReads(b)' = FarReads(b) - 0
    <3>1. CountIn(pendingNear, ReadsOf(b)) \in Nat /\ FarReads(b) \in Nat
      BY CountType, AccountType DEF TypeInv, TypeOK
    <3>2. near'.rq = near.rq \ {a}
      BY <1>1, <2>1 DEF MemQueues
    <3>3. NearReads(b)' = One(b \in near.rq \ {a}) + CountIn(pendingNear, ReadsOf(b))
      BY <1>1, <3>2 DEF NearReads, ReadsOf
    <3>4. FarReads(b)' = FarReads(b)
      BY <1>1, <2>1, FarReadsKept
    <3>5. QED
      BY <2>2, <3>1, <3>3, <3>4 DEF NearReads, One
  <2>5. QED
    BY <1>1, <1>2, <2>3, <2>4, EndBalanced
<1>4. CASE Resume("doneFar")
  <2>1. /\ far' = [far EXCEPT !.rq = @ \ {a}] /\ near' = near /\ Head(frames).op = "doneFar"
    BY <1>4 DEF ResumeDone, Resume
  <2>2. a \in far.rq
    BY <1>2, <2>1 DEF AccountInv, AnsweredThere, Ends
  <2> HIDE DEF a
  <2>3. \A b \in Addr : FarEnds(b) = One(b = a) /\ NearEnds(b) = 0
    BY <1>2, <2>1 DEF NearEnds, FarEnds, Ends, One
  <2>4. ASSUME NEW b \in Addr
        PROVE  FarReads(b)' = FarReads(b) - One(b = a) /\ NearReads(b)' = NearReads(b) - 0
    <3>1. CountIn(pendingFar, HeldReadsOf(b)) \in Nat /\ NearReads(b) \in Nat
      BY CountType, AccountType DEF TypeInv, TypeOK
    <3>2. far'.rq = far.rq \ {a}
      BY <1>1, <2>1 DEF MemQueues
    <3>3. FarReads(b)' = One(b \in far.rq \ {a}) + CountIn(pendingFar, HeldReadsOf(b))
      BY <1>1, <3>2 DEF FarReads, HeldReadsOf
    <3>4. NearReads(b)' = NearReads(b)
      BY <1>1, <2>1, NearReadsKept
    <3>5. QED
      BY <2>2, <3>1, <3>3, <3>4 DEF FarReads, One
  <2>5. QED
    BY <1>1, <1>2, <2>3, <2>4, EndBalanced
<1>5. QED
  BY <1>3, <1>4 DEF ResumeDone

-----------------------------------------------------------------------------
(* Every step.                                                             *)

LEMMA HandlersBalanced ==
  ASSUME TypeInv, TypeInv', IndexInv, OneCallback, OneMode, OneMode', AccountInv, Handler
  PROVE  AccountInv'
<1>1. CASE NothingToPromote
  <2>1. /\ near'.rq = near.rq /\ far'.rq = far.rq /\ pendingNear' = pendingNear
        /\ pendingFar' = pendingFar /\ frames' = frames /\ orb' = orb
        /\ bypassReads' = bypassReads /\ call.fn # "return_data" /\ call'.fn # "return_data"
    BY <1>1 DEF NothingToPromote, dcmVars, mcVars, NoCall, Call
  <2>2. Tracked' /\ \A a \in Addr : ~Answering(a) /\ ~Answering(a)'
    BY <2>1, NoneAnswered
  <2>3. \A a \in Addr : NearDue(a)' = NearDue(a) /\ FarDue(a)' = FarDue(a)
    BY <2>1, <2>2, DueKept
  <2>4. QED
    BY <2>1, <2>2, <2>3, Quiet
<1>2. CASE ResumeReturn
  <2>1. frames # <<>> /\ frames' = Tail(frames) /\ Head(frames).op = "return_data"
    BY <1>2 DEF ResumeReturn, Resume
  <2>2. QED
    BY <2>1, PopFrame DEF AccountInv
<1>3. QED
  BY <1>1, <1>2, DriveNearBalanced, DriveFarBalanced, DriveWriteBalanced, PromoteBalanced,
     ReturnsBalanced, FarReturnBalanced, FillBalanced, PopBalanced, DoneBalanced DEF Handler

(* drainWB() sends a write.                                                *)
LEMMA DrainBalanced ==
  ASSUME TypeInv, OneMode, AccountInv, DrainWB
  PROVE  AccountInv'
<1>1. /\ call = NoCall /\ call' = NoCall /\ frames = <<>> /\ frames' = <<>> /\ orb' = orb
      /\ bypassReads' = bypassReads /\ near' = near /\ pendingNear' = pendingNear
  BY DEF DrainWB, At, Idle
<1>2. \A a \in Addr : NearReads(a)' = NearReads(a)
  BY <1>1, NearReadsKept
<1>3. \A a \in Addr : FarReads(a)' = FarReads(a)
  <2>1. CASE far' = far /\ pendingFar' = pendingFar
    BY <2>1, FarReadsKept
  <2>2. CASE wb # <<>> /\ dispatchToFarGuaranteed(WritePacket(Head(wb)))
    <3>1. Head(wb) \in Addr
      BY <2>2, HeadTailProperties DEF TypeInv, TypeOK
    <3>2. WritePacket(Head(wb)) \in Packet /\ WritePacket(Head(wb)).isWrite
      BY <3>1, WritePacketType DEF WritePacket
    <3>3. \A a \in Addr : FarReads(a)' = FarReads(a) + 0
      BY <2>2, <3>2, FarSent DEF One
    <3>4. \A a \in Addr : FarReads(a) \in Nat
      BY AccountType
    <3>5. QED
      BY <3>3, <3>4
  <2>3. QED
    BY <2>1, <2>2 DEF DrainWB
<1>4. QED
  BY <1>1, <1>2, <1>3, IdleStep

LEMMA StagesBalanced ==
  ASSUME TypeInv, OneCallback, OneMode, AccountInv, Operate
  PROVE  AccountInv'
<1> USE DEF dcmVars, mcVars, ctlVars
<1>1. CASE FarReleased \/ NearReleased \/ NearWaits \/ FarWaits \/ DeliverResponse
           \/ ResponsesDelivered \/ (\E a \in Addr : NearServeWrite(a) \/ FarServeWrite(a))
  <2>1. /\ call = NoCall /\ call' = NoCall /\ frames = <<>> /\ frames' = <<>> /\ orb' = orb
        /\ bypassReads' = bypassReads
        /\ pendingNear' = pendingNear /\ pendingFar' = pendingFar
    BY <1>1 DEF FarReleased, NearReleased, NearWaits, FarWaits, DeliverResponse,
       ResponsesDelivered, NearServeWrite, FarServeWrite, At, Idle
  <2>2. near'.rq = near.rq /\ far'.rq = far.rq
    <3>1. near \in MemQueues /\ far \in MemQueues
      BY DEF TypeInv, TypeOK
    <3>2. QED
      BY <1>1, <3>1 DEF FarReleased, NearReleased, NearWaits, FarWaits, DeliverResponse,
         ResponsesDelivered, NearServeWrite, FarServeWrite, MemQueues
  <2>3. \A a \in Addr : NearReads(a)' = NearReads(a) /\ FarReads(a)' = FarReads(a)
    BY <2>1, <2>2, NearReadsKept, FarReadsKept
  <2>4. QED
    BY <2>1, <2>3, IdleStep
<1>2. ASSUME NEW a \in Addr, NearServeRead(a)
      PROVE  AccountInv'
  <2>1. /\ call = NoCall /\ frames = <<>> /\ a \in near.rq
        /\ call' = Call("return_data", a) /\ frames' = <<Frame("doneNear", a)>>
        /\ near' = near /\ far' = far /\ pendingNear' = pendingNear
        /\ pendingFar' = pendingFar /\ orb' = orb /\ bypassReads' = bypassReads
    BY <1>2 DEF NearServeRead, At, Idle
  <2>2. QED
    BY <2>1, NearAnswered
<1>3. ASSUME NEW a \in Addr, FarServeRead(a)
      PROVE  AccountInv'
  <2>1. /\ call = NoCall /\ frames = <<>> /\ a \in far.rq
        /\ call' = Call("return_data", a) /\ frames' = <<Frame("doneFar", a)>>
        /\ near' = near /\ far' = far /\ pendingNear' = pendingNear
        /\ pendingFar' = pendingFar /\ orb' = orb /\ bypassReads' = bypassReads
    BY <1>3 DEF FarServeRead, At, Idle
  <2>2. QED
    BY <2>1, FarAnswered
<1>4. QED
  BY <1>1, <1>2, <1>3, ReleaseFarBalanced, ReleaseNearBalanced, DrainBalanced DEF Operate

(* A read that goes past the cache is due from far memory, or answered at  *)
(* once where farMC forwards it.                                           *)
LEMMA BypassBalanced ==
  ASSUME TypeInv, TypeInv', OneMode, OneMode', AccountInv,
         NEW p \in Packet, p.cb = 1, AddBypassed(p)
  PROVE  AccountInv'
<1> DEFINE sent == ~p.isWrite /\ FarOutcome(p) # "forwarded"
<1>1. /\ call = NoCall /\ frames = <<>> /\ bypass /\ orb' = orb
      /\ dispatchToFarGuaranteed(p) /\ Continue(FarOutcome(p), p, <<>>)
      /\ bypassReads' = IF p.isWrite THEN bypassReads
                                     ELSE [bypassReads EXCEPT ![p.addr] = @ + 1]
      /\ near' = near /\ pendingNear' = pendingNear
  BY DEF AddBypassed, Submit, At, Idle
<1>2. /\ p.addr \in Addr /\ bypassReads \in [Addr -> Int] /\ \A b \in Addr : bypassReads[b] \in Nat
      /\ \A b \in Addr : orb[b].state = "none"
  BY <1>1 DEF Packet, TypeInv, TypeOK, OneMode
<1>3. /\ frames' = <<>>
      /\ call' = IF FarOutcome(p) = "forwarded" THEN Call("return_data", p.addr) ELSE NoCall
  BY <1>1, ContinueOnce
<1>4. /\ \A b \in Addr : FarReads(b)' = FarReads(b) + One(~p.isWrite /\ p.addr = b
                                                          /\ FarOutcome(p) # "forwarded")
      /\ p.isWrite => FarOutcome(p) # "forwarded"
      /\ \A b \in Addr : NearReads(b)' = NearReads(b)
  BY <1>1, FarSent, NearReadsKept
<1>5. \A op \in Ends, b \in Addr : ~Ending(op, b) /\ ~Ending(op, b)'
  BY <1>1, <1>3, NoFrame
<1>6. FillsAbove' /\ AnsweredThere'
  BY <1>3, <1>5, NoFrame DEF AnsweredThere, Ends
<1>7. /\ \A b \in Addr : ~Answering(b)
      /\ \A b \in Addr : Answering(b)' <=> b = p.addr /\ FarOutcome(p) = "forwarded"
  BY <1>1, <1>3, NoneAnswered DEF Answering, Call, NoCall
<1>8. \A b \in Addr : bypassReads'[b] = bypassReads[b] + One(~p.isWrite /\ p.addr = b)
  BY <1>1, <1>2 DEF One
<1>9. Tracked'
  BY <1>2, <1>4, <1>7, <1>8 DEF Tracked, One
<1>10. \A b \in Addr : /\ NearDue(b)' = NearDue(b)
                       /\ FarDue(b)' = FarDue(b) + One(~p.isWrite /\ p.addr = b
                                                       /\ FarOutcome(p) # "forwarded")
  <2>1. SUFFICES ASSUME NEW b \in Addr
                 PROVE  /\ NearDue(b)' = NearDue(b)
                        /\ FarDue(b)' = FarDue(b) + One(~p.isWrite /\ p.addr = b
                                                        /\ FarOutcome(p) # "forwarded")
    OBVIOUS
  <2>2. NearDue(b) = 0 /\ NearDue(b)' = 0
    BY <1>1, <1>2 DEF NearDue, One
  <2>3. FarDue(b) = bypassReads[b]
    BY <1>2, <1>7 DEF FarDue, One
  <2>4. FarDue(b)' = bypassReads'[b] - One(bypassReads'[b] > 0 /\ b = p.addr
                                           /\ FarOutcome(p) = "forwarded")
    BY <1>1, <1>2, <1>7, <1>8 DEF FarDue, One
  <2>5. QED
    BY <1>2, <1>4, <1>8, <2>2, <2>3, <2>4 DEF One
<1>11. \A b \in Addr : /\ NearReads(b)' - NearReads(b) = NearDue(b)' - NearDue(b)
                       /\ FarReads(b)' - FarReads(b) = FarDue(b)' - FarDue(b)
  <2>1. SUFFICES ASSUME NEW b \in Addr
                 PROVE  /\ NearReads(b)' - NearReads(b) = NearDue(b)' - NearDue(b)
                        /\ FarReads(b)' - FarReads(b) = FarDue(b)' - FarDue(b)
    OBVIOUS
  <2>2. /\ NearReads(b) \in Nat /\ FarReads(b) \in Nat
        /\ NearDue(b) \in {0, 1} /\ FarDue(b) \in Int
    BY AccountType
  <2>3. QED
    BY <1>4, <1>10, <2>2 DEF One
<1>12. QED
  BY <1>5, <1>6, <1>9, <1>11, Balanced

LEMMA LlcBalanced ==
  ASSUME ASingleAnswer, TypeInv, TypeInv', OneMode, OneMode', AccountInv, Llc
  PROVE  AccountInv'
<1> USE DEF dcmVars, mcVars, ctlVars
<1>1. ASSUME NEW p \in Requests, AddBypassed(p)
      PROVE  AccountInv'
  <2>1. p \in Packet /\ p.cb = 1
    BY DEF Requests, ASingleAnswer
  <2>2. QED
    BY <1>1, <2>1, BypassBalanced
<1>2. ASSUME NEW p \in Requests, AddAdmitted(p), ~Rejected
      PROVE  AccountInv'
  <2>1. p \in Packet /\ p.addr \in Addr /\ admitRequest(p)
    BY <1>2 DEF Requests, AddAdmitted, Packet
  <2>2. ~InOrb(p.addr)
    BY <1>2, <2>1 DEF AddAdmitted, Busy
  <2>3. /\ call.fn # "return_data" /\ bypassReads' = bypassReads
        /\ near' = near /\ far' = far /\ pendingNear' = pendingNear
        /\ pendingFar' = pendingFar /\ frames' = frames
    BY <1>2 DEF AddAdmitted, Submit, At, Idle, NoCall, Call
  <2>4. QED
    BY <2>1, <2>2, <2>3, AdmitBalanced
<1>3. CASE \/ \E p \in Requests : AddConflicting(p) \/ (AddAdmitted(p) /\ Rejected)
           \/ \E p \in Requests : WarmupAccess(p)
           \/ CompleteWarmup
  <2>1. /\ call = NoCall /\ call' = NoCall /\ frames = <<>> /\ frames' = <<>> /\ orb' = orb
        /\ bypassReads' = bypassReads /\ near' = near /\ far' = far
        /\ pendingNear' = pendingNear /\ pendingFar' = pendingFar
    BY <1>3 DEF AddConflicting, AddAdmitted, WarmupAccess, CompleteWarmup, Submit, At, Idle
  <2>2. \A a \in Addr : NearReads(a)' = NearReads(a) /\ FarReads(a)' = FarReads(a)
    BY <2>1, NearReadsKept, FarReadsKept
  <2>3. QED
    BY <2>1, <2>2, IdleStep
<1>4. CASE NextCycle
  <2>1. /\ call = NoCall /\ call' = NoCall /\ frames = <<>> /\ frames' = <<>> /\ orb' = orb
        /\ bypassReads' = bypassReads /\ near' = near /\ far' = far
        /\ pendingNear' = pendingNear /\ pendingFar' = Elapse(pendingFar)
        /\ pendingFar \in Seq(HeldPkt)
    BY <1>4 DEF NextCycle, At, Idle, TypeInv, TypeOK
  <2>2. ASSUME NEW a \in Addr
        PROVE  FarReads(a)' = FarReads(a)
    <3>1. \A e \in HeldPkt : [e EXCEPT !.hold = IF e.hold > 0 THEN e.hold - 1 ELSE 0]
                               \in HeldReadsOf(a) <=> e \in HeldReadsOf(a)
      BY DEF HeldReadsOf, HeldPkt
    <3>2. CountIn(Elapse(pendingFar), HeldReadsOf(a)) = CountIn(pendingFar, HeldReadsOf(a))
      BY <2>1, <3>1, CountElapse
    <3>3. QED
      BY <2>1, <3>2 DEF FarReads, HeldReadsOf
  <2>3. QED
    BY <2>1, <2>2, NearReadsKept, IdleStep
<1>5. QED
  BY <1>1, <1>2, <1>3, <1>4 DEF Llc, setBypassDcache, ASingleAnswer

LEMMA NextBalanced ==
  ASSUME ASingleAnswer, TypeInv, TypeInv', IndexInv, OneMode', AnswerInv, [Next]_vars
  PROVE  AccountInv'
<1>1. OneCallback /\ OneMode /\ AccountInv
  BY DEF AnswerInv, AccountInv
<1>2. CASE UNCHANGED vars
  <2>1. /\ near' = near /\ far' = far /\ pendingNear' = pendingNear /\ pendingFar' = pendingFar
        /\ frames' = frames /\ orb' = orb /\ bypassReads' = bypassReads /\ call' = call
    BY <1>2 DEF vars, mcVars, dcmVars, ctlVars
  <2>2. Tracked' /\ \A a \in Addr : Answering(a)' <=> Answering(a)
    BY <1>1, <2>1 DEF AccountInv, Tracked, Answering
  <2>3. \A a \in Addr : NearDue(a)' = NearDue(a) /\ FarDue(a)' = FarDue(a)
    BY <2>1, <2>2, DueKept
  <2>4. QED
    BY <1>1, <2>1, <2>2, <2>3, Quiet
<1>3. QED
  BY <1>1, <1>2, HandlersBalanced, StagesBalanced, LlcBalanced DEF Next

LEMMA InitAnswers == Init => AnswerInv
<1> SUFFICES ASSUME Init
             PROVE  AnswerInv
  OBVIOUS
<1>1. /\ orb = [a \in Addr |-> NoEntry] /\ crb = <<>> /\ bypassReads = [a \in Addr |-> 0]
      /\ pendingNear = <<>> /\ pendingFar = <<>> /\ near.rq = {} /\ far.rq = {}
      /\ call = NoCall /\ frames = <<>>
  BY DEF Init
<1>2. OneCallback /\ OneMode
  BY <1>1 DEF OneCallback, OneMode, NoEntry
<1>3. FillsAbove /\ \A op \in Ends, b \in Addr : ~Ending(op, b)
  BY <1>1, NoFrame
<1>4. AnsweredThere
  BY <1>3 DEF AnsweredThere, Ends
<1>5. \A a \in Addr : ~Answering(a)
  BY <1>1, NoneAnswered DEF NoCall, Call
<1>6. \A a \in Addr : NearReads(a) = 0 /\ FarReads(a) = 0 /\ NearEnds(a) = 0 /\ FarEnds(a) = 0
  BY <1>1, <1>3, CountEmpty DEF NearReads, FarReads, NearEnds, FarEnds, Ends, One
<1>7. \A a \in Addr : NearDue(a) = 0 /\ FarDue(a) = 0
  BY <1>1, <1>5 DEF NearDue, FarDue, NoEntry, One
<1>8. QED
  BY <1>2, <1>3, <1>4, <1>5, <1>6, <1>7 DEF AnswerInv, NearAccount, FarAccount, Tracked

(* The account between handlers is the one OneReadPerWaiter states.        *)
LEMMA AccountedReads ==
  ASSUME TypeInv, AnswerInv
  PROVE  OneReadPerWaiter /\ NoUntrackedResponse
<1>1. OneMode /\ AccountInv
  BY DEF AnswerInv, AccountInv
<1>2. ASSUME Idle, NEW a \in Addr
      PROVE  LET Read(p) == p.addr = a /\ ~p.isWrite IN
             /\ Bit(a \in near.rq) + Count(pendingNear, Read)
                  = Bit(orb[a].state = "WAITING_LOC_MEM_READ_RESP")
             /\ Bit(a \in far.rq) + Count(pendingFar, Read)
                  = Bit(orb[a].state = "WAITING_FAR_MEM_READ_RESP") + bypassReads[a]
  <2> DEFINE Read(p) == p.addr = a /\ ~p.isWrite
  <2>1. /\ \A k \in DOMAIN pendingNear : pendingNear[k] \in Packet
        /\ \A k \in DOMAIN pendingFar : pendingFar[k] \in HeldPkt
    BY LenProperties, ElementOfSeq DEF TypeInv, TypeOK
  <2>2. {k \in DOMAIN pendingNear : Read(pendingNear[k])} = Hits(pendingNear, ReadsOf(a))
    BY <2>1 DEF Hits, ReadsOf
  <2>3. {k \in DOMAIN pendingFar : Read(pendingFar[k])} = Hits(pendingFar, HeldReadsOf(a))
    BY <2>1 DEF Hits, HeldReadsOf
  <2>4. /\ Count(pendingNear, Read) = CountIn(pendingNear, ReadsOf(a))
        /\ Count(pendingFar, Read) = CountIn(pendingFar, HeldReadsOf(a))
    BY <2>2, <2>3 DEF Count, CountIn
  <2>5. /\ NearReads(a) = One(orb[a].state = "WAITING_LOC_MEM_READ_RESP")
        /\ FarReads(a) = One(orb[a].state = "WAITING_FAR_MEM_READ_RESP") + bypassReads[a]
    BY <1>1, <1>2, IdleAccount DEF Idle
  <2>6. QED
    BY <2>4, <2>5 DEF NearReads, FarReads, One, Bit
<1>3. OneReadPerWaiter
  BY <1>2 DEF OneReadPerWaiter
<1>4. ASSUME call.fn = "return_data"
      PROVE  bypassReads[call.addr] > 0 \/ orb[call.addr].state \in Waiting
  <2>1. call \in [fn : HandlerNames, addr : Addr]
    BY <1>4 DEF TypeInv, TypeOK, CallType, NoCall, Call
  <2>2. call.addr \in Addr /\ Answering(call.addr)
    BY <1>4, <2>1 DEF Answering, Call
  <2>3. QED
    BY <1>1, <2>2 DEF AccountInv, Tracked
<1>5. QED
  BY <1>3, <1>4 DEF NoUntrackedResponse

LEMMA NextKeepsAnswers ==
  ASSUME ASingleAnswer
  PROVE  TypeInv /\ TypeInv' /\ IndexInv /\ AnswerInv /\ [Next]_vars => AnswerInv'
<1> SUFFICES ASSUME TypeInv, TypeInv', IndexInv, AnswerInv, [Next]_vars
             PROVE  AnswerInv'
  OBVIOUS
<1>1. OneCallback' /\ OneMode'
  BY NextKeepsOneCallback, NextKeepsOneMode DEF AnswerInv
<1>2. AccountInv'
  BY <1>1, NextBalanced
<1>3. QED
  BY <1>1, <1>2 DEF AnswerInv, AccountInv

(* The accounts of the reads on their way to near and far memory balance.  *)
THEOREM AnswerInvariant == ASingleAnswer => (Spec => []AnswerInv)
<1> SUFFICES ASSUME ASingleAnswer
             PROVE  Spec => []AnswerInv
  OBVIOUS
<1>1. TypeInv /\ TypeInv' /\ IndexInv /\ AnswerInv /\ [Next]_vars => AnswerInv'
  BY NextKeepsAnswers
<1>2. QED
  BY <1>1, InitAnswers, TypeInvariant, IndexInvariant, PTL DEF Spec

(* Where a packet signals once and bypass is not switched, between         *)
(* handlers each request that waits for near (far) memory has exactly one  *)
(* read on its way there, and no read is on its way without its request.   *)
THEOREM OneReadEach == ASingleAnswer => (Spec => []OneReadPerWaiter)
<1> SUFFICES ASSUME ASingleAnswer
             PROVE  Spec => []OneReadPerWaiter
  OBVIOUS
<1>1. TypeInv /\ AnswerInv => OneReadPerWaiter
  BY AccountedReads
<1>2. Spec => []AnswerInv
  BY AnswerInvariant
<1>3. QED
  BY <1>1, <1>2, TypeInvariant, PTL

(* And return_data() never meets a response that nobody waits for: its     *)
(* defensive branch is dead there.                                         *)
THEOREM AllTracked == ASingleAnswer => (Spec => []NoUntrackedResponse)
<1> SUFFICES ASSUME ASingleAnswer
             PROVE  Spec => []NoUntrackedResponse
  OBVIOUS
<1>1. TypeInv /\ AnswerInv => NoUntrackedResponse
  BY AccountedReads
<1>2. Spec => []AnswerInv
  BY AnswerInvariant
<1>3. QED
  BY <1>1, <1>2, TypeInvariant, PTL
=============================================================================
