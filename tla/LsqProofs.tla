---------------------------- MODULE LsqProofs ----------------------------
(***************************************************************************)
(* The queues of the processor core keep what LsqProperties asks of them,  *)
(* for every program and every size.                                       *)
(***************************************************************************)
EXTENDS LsqProperties, FiniteSetTheorems, SequenceTheorems, WellFoundedInduction,
        TLAPS

(***************************************************************************)
(* The invariant.  It is about a state as check_and_add_lsq() passes it    *)
(* on; head, tail and what the caches hold do not change on the way.       *)
(***************************************************************************)
Progress == {"no", "INFLIGHT", "COMPLETED"}

RobEntry(i) ==
  [scheduled : Progress, executed : Progress, producers : SUBSET Int,
   num_mem_ops : Int, memory_instrs_depend_on_me : SUBSET Instrs,
   lq_index : [DOMAIN loads(i)  -> LqSlots \cup {None}],
   sq_index : [DOMAIN stores(i) -> SqSlots \cup {None}]]

LqEntry == [instr : Nat \ {0}, operand : Nat, producer : Nat]
SqEntry == [instr : Nat \ {0}, operand : Nat, fetched : BOOLEAN]
Lists   == {"RTL0", "RTL1", "RTS0", "RTS1"}

WindowOK ==
  /\ program \in Programs
  /\ head \in Nat \ {0} /\ tail \in Nat
  /\ head <= tail /\ tail - head <= ROB_SIZE /\ tail <= Len(program) + 1

Fields == {"ROB", "LQ", "SQ", "SQ_tail", "STA", "ready", "done", "got"}

Typed(s) ==
  /\ DOMAIN s = Fields
  /\ DOMAIN s.ROB = Instrs /\ \A i \in Instrs : s.ROB[i] \in RobEntry(i)
  /\ s.LQ \in [LqSlots -> LqEntry \cup {Empty}]
  /\ s.SQ \in [SqSlots -> SqEntry \cup {Empty}] /\ s.SQ_tail \in SqSlots
  /\ s.STA \in Seq(Nat)
  /\ s.ready \in [Lists -> Seq(Nat)]
  /\ s.done \in Int

(* Nothing is left of an instruction outside the window.                   *)
FreshOutside(s) == \A i \in Instrs \ Window : s.ROB[i] = Fresh(i)

(* A slot of the LQ in use belongs to an operand that names it.            *)
LoadsPlaced(s) ==
  \A q \in LqSlots : s.LQ[q] # Empty =>
    LET e == s.LQ[q]
    IN /\ e.instr \in Window /\ e.operand \in DOMAIN loads(e.instr)
       /\ s.ROB[e.instr].lq_index[e.operand] = q

Address(e) == loads(e.instr)[e.operand]

(* The store p of the ROB, or 0 for none, is the last before i to a.       *)
LastWriter(i, a, p) ==
  IF p = 0 THEN \A j \in head .. i - 1 : ~Writes(j, a)
  ELSE /\ p \in head .. i - 1 /\ Writes(p, a)
       /\ \A j \in p + 1 .. i - 1 : ~Writes(j, a)

(* A load waits for that store.                                            *)
ProducerLast(s) ==
  \A q \in LqSlots : s.LQ[q] # Empty =>
    LastWriter(s.LQ[q].instr, Address(s.LQ[q]), s.LQ[q].producer)

(* Its producer knows it and has not executed for the address.             *)
ProducerWakes(s) ==
  \A q \in LqSlots : s.LQ[q] # Empty /\ s.LQ[q].producer # 0 =>
    LET e == s.LQ[q]
    IN /\ e.instr \in s.ROB[e.producer].memory_instrs_depend_on_me
       /\ ~Forwards(s, e.producer, Address(e))

(* The slots of the SQ in use and the operands that name one correspond.   *)
StoresPlaced(s) ==
  /\ \A q \in SqSlots : s.SQ[q] # Empty =>
       LET e == s.SQ[q]
       IN /\ e.instr \in Window /\ e.operand \in DOMAIN stores(e.instr)
          /\ s.ROB[e.instr].sq_index[e.operand] = q
  /\ \A i \in Instrs : \A k \in DOMAIN stores(i) : s.ROB[i].sq_index[k] # None =>
       LET e == s.SQ[s.ROB[i].sq_index[k]]
       IN e # Empty /\ e.instr = i /\ e.operand = k

(* How many slots of the SQ were filled after slot q.                      *)
Age(s, q) == IF q < s.SQ_tail THEN s.SQ_tail - 1 - q ELSE s.SQ_tail - 1 - q + SQ_SIZE

Ring(s) ==
  \A q, r \in SqSlots : s.SQ[q] # Empty /\ Age(s, r) <= Age(s, q) =>
    s.SQ[r] # Empty /\ s.SQ[q].instr <= s.SQ[r].instr

StaSorted(s) ==
  /\ \A m \in 1 .. Len(s.STA) : s.STA[m] < tail
  /\ \A m, n \in 1 .. Len(s.STA) : m <= n => s.STA[m] <= s.STA[n]
  /\ \A q \in SqSlots : s.SQ[q] # Empty =>
       \A m \in 1 .. Len(s.STA) : s.SQ[q].instr <= s.STA[m]

LoadsOut(s, i)  == {k \in DOMAIN loads(i)  : s.ROB[i].lq_index[k] = None}
StoresOut(s, i) == {k \in DOMAIN stores(i) : s.ROB[i].sq_index[k] = None}
LoadsIn(s, i)   == {q \in LqSlots : s.LQ[q] # Empty /\ s.LQ[q].instr = i}
StoresIn(s, i)  == {q \in SqSlots : s.SQ[q] # Empty /\ s.SQ[q].instr = i /\ ~s.SQ[q].fetched}

Counted(s) ==
  \A i \in Instrs :
    s.ROB[i].num_mem_ops = Cardinality(LoadsOut(s, i)) + Cardinality(StoresOut(s, i))
                           + Cardinality(LoadsIn(s, i)) + Cardinality(StoresIn(s, i))

DoneFirst(s) ==
  \A i \in Instrs : is_memory(i) /\ s.ROB[i].executed = "COMPLETED" => s.ROB[i].num_mem_ops = 0

ToComplete(s) == {i \in Window : \/ s.ROB[i].executed = "INFLIGHT" /\ ~is_memory(i)
                                 \/ /\ is_memory(i) /\ s.ROB[i].num_mem_ops = 0
                                    /\ s.ROB[i].executed # "COMPLETED"}

DoneCounted(s) == s.done = Cardinality(ToComplete(s))

(* A load without a producer is in one list or cache, once, and another is *)
(* in none; so are a store that has not executed and one that has.         *)
Waits(s, q)    == s.LQ[q] # Empty /\ s.LQ[q].producer = 0
Executes(s, q) == s.SQ[q] # Empty /\ ~s.SQ[q].fetched
Listed(s, l)   == Range(s.ready[l])

LoadsAsked(s) ==
  /\ IsInjective(s.ready["RTL0"]) /\ IsInjective(s.ready["RTL1"])
  /\ Listed(s, "RTL0") \cup Listed(s, "RTL1") \cup L1D \subseteq LqSlots
  /\ \A q \in LqSlots :
       /\ Waits(s, q) <=> \/ q \in Listed(s, "RTL0") \/ q \in Listed(s, "RTL1")
                         \/ <<"RTL1", q>> \in DTLB  \/ q \in L1D
       /\ q \in Listed(s, "RTL0") => q \notin Listed(s, "RTL1") \cup L1D /\ <<"RTL1", q>> \notin DTLB
       /\ q \in Listed(s, "RTL1") => q \notin L1D /\ <<"RTL1", q>> \notin DTLB
       /\ q \in L1D => <<"RTL1", q>> \notin DTLB

StoresAsked(s) ==
  /\ IsInjective(s.ready["RTS0"]) /\ IsInjective(s.ready["RTS1"])
  /\ Listed(s, "RTS0") \cup Listed(s, "RTS1") \subseteq SqSlots
  /\ \A q \in SqSlots :
       /\ Executes(s, q) <=> \/ q \in Listed(s, "RTS0") \/ q \in Listed(s, "RTS1")
                            \/ <<"RTS1", q>> \in DTLB
       /\ q \in Listed(s, "RTS0") => q \notin Listed(s, "RTS1") /\ <<"RTS1", q>> \notin DTLB
       /\ q \in Listed(s, "RTS1") => <<"RTS1", q>> \notin DTLB

CachesTyped == DTLB \subseteq ({"RTL1"} \X LqSlots) \cup ({"RTS1"} \X SqSlots)

Stored(i, a) == {j \in 1 .. i - 1 : Writes(j, a)}

GotRight(s) ==
  \A load \in DOMAIN s.got :
    s.got[load] = Youngest(Stored(load[1], loads(load[1])[load[2]]))

Settled(s) ==
  /\ Typed(s)
  /\ FreshOutside(s)
  /\ LoadsPlaced(s)
  /\ ProducerLast(s)
  /\ ProducerWakes(s)
  /\ StoresPlaced(s)
  /\ Ring(s)
  /\ StaSorted(s)
  /\ Counted(s)
  /\ DoneFirst(s)
  /\ DoneCounted(s)
  /\ GotRight(s)

Queued(s) == Settled(s) /\ LoadsAsked(s) /\ StoresAsked(s)

LsqInv == /\ WindowOK
          /\ CachesTyped
          /\ IsFiniteSet(WQ) /\ Cardinality(WQ) <= WQ_SIZE
          /\ Queued(State)

-----------------------------------------------------------------------------
(* Lemmas on the data of the model.                                        *)

(* A set of numbers up to a bound has a greatest one, Max returns it.      *)
LEMMA MaxOfBounded ==
  ASSUME NEW m \in Nat, NEW S, S \subseteq 0 .. m, S # {}
  PROVE  Max(S) \in S /\ \A x \in S : x <= Max(S)
<1> DEFINE T == {u \in 0 .. m : \A x \in S : x <= u}
<1>1. T \subseteq Nat /\ m \in T
  OBVIOUS
<1>2. PICK u \in T : \A v \in T : ~ (<<v, u>> \in OpToRel(<, Nat))
  BY <1>1, NatLessThanWellFounded, WFMin
<1>3. ASSUME NEW v \in T PROVE u <= v
  <2>1. <<v, u>> \in Nat \X Nat
    BY <1>1, <1>2
  <2>2. ~ (v < u)
    BY <1>2, <2>1 DEF OpToRel
  <2>3. QED
    BY <2>1, <2>2
<1>4. u \in S
  <2>1. SUFFICES ASSUME u \notin S PROVE FALSE
    OBVIOUS
  <2>2. \A x \in S : x <= u /\ x # u /\ x \in Nat
    BY <2>1
  <2>3. PICK x \in S : x \in Nat
    BY <2>2
  <2>4. u - 1 \in T
    BY <2>2, <2>3
  <2>5. QED
    BY <1>3, <2>4
<1>5. \E x \in S : \A y \in S : x >= y
  BY <1>4
<1>6. Max(S) \in S /\ \A y \in S : Max(S) >= y
  BY <1>5 DEF Max
<1>7. QED
  BY <1>6

(* Min of a set of slots that is not empty is one of them.                 *)
LEMMA MinOfSome ==
  ASSUME NEW S, S \subseteq Nat, S # {}
  PROVE  Min(S) \in S
<1>1. PICK u \in S : \A v \in S : ~ (<<v, u>> \in OpToRel(<, Nat))
  BY NatLessThanWellFounded, WFMin
<1>2. ASSUME NEW v \in S PROVE u <= v
  <2>1. <<v, u>> \in Nat \X Nat
    BY <1>1
  <2>2. ~ (v < u)
    BY <1>1, <2>1 DEF OpToRel
  <2>3. QED
    BY <2>1, <2>2
<1>3. QED
  BY <1>2 DEF Min

LEMMA YoungestType ==
  ASSUME NEW m \in Nat, NEW S, S \subseteq 1 .. m
  PROVE  /\ Youngest(S) \in S \cup {0}
         /\ \A x \in S : x <= Youngest(S)
<1>1. S \cup {0} \subseteq 0 .. m /\ S \cup {0} # {}
  OBVIOUS
<1>2. Max(S \cup {0}) \in S \cup {0} /\ \A x \in S \cup {0} : x <= Max(S \cup {0})
  BY <1>1, MaxOfBounded
<1>3. QED
  BY <1>2 DEF Youngest

LEMMA YoungestIs ==
  ASSUME NEW m \in Nat, NEW S, S \subseteq 1 .. m, NEW y \in S, \A x \in S : x <= y
  PROVE  Youngest(S) = y
<1> DEFINE z == Youngest(S)
<1>1. z \in S \cup {0} /\ \A x \in S : x <= z
  BY YoungestType
<1> HIDE DEF z
<1>2. y \in 1 .. m /\ y <= z
  BY <1>1
<1>3. z \in S
  BY <1>1, <1>2
<1>4. z <= y /\ z \in 1 .. m
  BY <1>3
<1>5. z = y
  BY <1>2, <1>4
<1>6. QED
  BY <1>5 DEF z

LEMMA OldestSlots == /\ LqSlots \subseteq Nat /\ IsFiniteSet(LqSlots) /\ Cardinality(LqSlots) = LQ_SIZE
                     /\ SqSlots \subseteq Nat /\ IsFiniteSet(SqSlots) /\ Cardinality(SqSlots) = SQ_SIZE
                     /\ LQ_SIZE \in Nat \ {0} /\ SQ_SIZE \in Nat \ {0}
                     /\ ROB_SIZE \in Nat \ {0} /\ WQ_SIZE \in Nat \ {0}
<1>1. LQ_SIZE \in Nat \ {0} /\ SQ_SIZE \in Nat \ {0} /\ ROB_SIZE \in Nat \ {0} /\ WQ_SIZE \in Nat \ {0}
  BY LsqAssumption
<1>2. ASSUME NEW n \in Nat \ {0}
      PROVE  IsFiniteSet(0 .. n - 1) /\ Cardinality(0 .. n - 1) = n
  <2>1. 0 \in Int /\ n - 1 \in Int /\ ~ (0 > n - 1)
    OBVIOUS
  <2>2. IsFiniteSet(0 .. n - 1) /\ Cardinality(0 .. n - 1) = n - 1 - 0 + 1
    BY <2>1, FS_Interval
  <2>3. QED
    BY <2>2
<1>3. QED
  BY <1>1, <1>2 DEF LqSlots, SqSlots

(* A program is a sequence, and its instructions name few addresses.       *)
LEMMA Operands ==
  ASSUME program \in Programs
  PROVE  /\ Len(program) \in Nat /\ Instrs = 1 .. Len(program)
         /\ \A i \in Instrs :
              /\ DOMAIN loads(i)  = 1 .. Len(loads(i))  /\ Len(loads(i))  \in 0 .. 4
              /\ DOMAIN stores(i) = 1 .. Len(stores(i)) /\ Len(stores(i)) \in 0 .. 4
              /\ loads(i)  \in Seq(Range(loads(i)))
              /\ stores(i) \in Seq(Range(stores(i)))
              /\ is_memory(i) <=> Len(loads(i)) + Len(stores(i)) > 0
<1>1. program \in Seq(Range(program))
  BY LsqAssumption DEF IsSeq
<1>2. Len(program) \in Nat /\ Instrs = 1 .. Len(program)
  BY <1>1, LenProperties DEF Instrs
<1>3. ASSUME NEW i \in Instrs
      PROVE  /\ DOMAIN loads(i)  = 1 .. Len(loads(i))  /\ Len(loads(i))  \in 0 .. 4
             /\ DOMAIN stores(i) = 1 .. Len(stores(i)) /\ Len(stores(i)) \in 0 .. 4
             /\ loads(i)  \in Seq(Range(loads(i)))
             /\ stores(i) \in Seq(Range(stores(i)))
             /\ is_memory(i) <=> Len(loads(i)) + Len(stores(i)) > 0
  <2>1. /\ loads(i) \in Seq(Range(loads(i))) /\ stores(i) \in Seq(Range(stores(i)))
        /\ Len(loads(i)) <= 4 /\ Len(stores(i)) <= 4
    BY <1>3, LsqAssumption
       DEF IsSeq, Instrs, loads, stores, NUM_INSTR_SOURCES, MAX_INSTR_DESTINATIONS
  <2>2. /\ Len(loads(i)) \in Nat /\ DOMAIN loads(i) = 1 .. Len(loads(i))
        /\ Len(stores(i)) \in Nat /\ DOMAIN stores(i) = 1 .. Len(stores(i))
    BY <2>1, LenProperties
  <2>3. /\ loads(i) # <<>> <=> Len(loads(i)) > 0
        /\ stores(i) # <<>> <=> Len(stores(i)) > 0
    BY <2>1, <2>2, EmptySeq
  <2>4. QED
    BY <2>1, <2>2, <2>3 DEF is_memory
<1>4. QED
  BY <1>2, <1>3

LEMMA WindowType ==
  ASSUME WindowOK
  PROVE  /\ head \in Nat \ {0} /\ tail \in Nat /\ Window \subseteq Instrs /\ IsFiniteSet(Window)
         /\ \A i \in Window : i \in Nat \ {0} /\ head <= i /\ i < tail
<1>1. Len(program) \in Nat /\ Instrs = 1 .. Len(program)
  BY Operands DEF WindowOK
<1>2. head \in Nat \ {0} /\ tail \in Nat /\ tail <= Len(program) + 1
  BY DEF WindowOK
<1>3. IsFiniteSet(head .. tail - 1)
  BY <1>2, FS_Interval
<1>4. QED
  BY <1>1, <1>2, <1>3 DEF Window

(***************************************************************************)
(* Lists without duplicates.                                               *)
(***************************************************************************)
LEMMA ListAppend ==
  ASSUME NEW S, NEW l \in Seq(S), IsInjective(l), NEW x \in S, x \notin Range(l)
  PROVE  Append(l, x) \in Seq(S) /\ IsInjective(Append(l, x))
         /\ Range(Append(l, x)) = Range(l) \cup {x}
<1> DEFINE t == Append(l, x)
<1>1. Len(l) \in Nat /\ DOMAIN l = 1 .. Len(l)
  BY LenProperties
<1>2. /\ t \in Seq(S) /\ Len(t) = Len(l) + 1
      /\ \A n \in 1 .. Len(l) : t[n] = l[n]
      /\ t[Len(l) + 1] = x
  BY AppendProperties
<1>3. DOMAIN t = 1 .. Len(l) + 1
  BY <1>2, LenProperties
<1> HIDE DEF t
<1>4. \A n \in 1 .. Len(l) : l[n] # x
  BY <1>1 DEF Range
<1>5. IsInjective(t)
  BY <1>1, <1>2, <1>3, <1>4 DEF IsInjective
<1>6. Range(t) = Range(l) \cup {x}
  <2>1. \A y \in Range(t) : y \in Range(l) \cup {x}
    BY <1>1, <1>2, <1>3 DEF Range
  <2>2. \A n \in DOMAIN l : l[n] = t[n] /\ n \in DOMAIN t
    BY <1>1, <1>2, <1>3
  <2>3. x = t[Len(l) + 1] /\ Len(l) + 1 \in DOMAIN t
    BY <1>1, <1>2, <1>3
  <2>4. QED
    BY <2>1, <2>2, <2>3 DEF Range
<1>7. QED
  BY <1>2, <1>5, <1>6 DEF t

LEMMA ListTail ==
  ASSUME NEW S, NEW l \in Seq(S), IsInjective(l), l # <<>>
  PROVE  /\ Head(l) \in Range(l) /\ Tail(l) \in Seq(S) /\ IsInjective(Tail(l))
         /\ Range(Tail(l)) = Range(l) \ {Head(l)}
<1> DEFINE t == Tail(l)
<1>1. Len(l) \in Nat \ {0} /\ DOMAIN l = 1 .. Len(l)
  BY LenProperties, EmptySeq
<1>2. t \in Seq(S) /\ Len(t) = Len(l) - 1 /\ \A n \in 1 .. Len(t) : t[n] = l[n + 1]
  BY HeadTailProperties
<1>3. DOMAIN t = 1 .. Len(l) - 1
  BY <1>2, LenProperties
<1>4. Head(l) = l[1]
  OBVIOUS
<1> HIDE DEF t
<1>5. \A n \in 1 .. Len(l) - 1 : t[n] = l[n + 1] /\ n + 1 \in DOMAIN l
  BY <1>1, <1>2
<1>6. IsInjective(t)
  BY <1>1, <1>3, <1>5 DEF IsInjective
<1>7. Range(t) = Range(l) \ {l[1]}
  <2>1. ASSUME NEW n \in DOMAIN t PROVE t[n] \in Range(l) /\ t[n] # l[1]
    <3>1. n \in Nat /\ t[n] = l[n + 1] /\ n + 1 \in DOMAIN l /\ 1 \in DOMAIN l /\ n + 1 # 1
      BY <1>1, <1>3, <1>5
    <3>2. QED
      BY <3>1 DEF Range, IsInjective
  <2>2. \A n \in DOMAIN l : n = 1 \/ (n - 1 \in DOMAIN t /\ t[n - 1] = l[n])
    BY <1>1, <1>3, <1>5
  <2>3. QED
    BY <2>1, <2>2 DEF Range
<1>8. Head(l) \in Range(l)
  BY <1>1, <1>4 DEF Range
<1>9. QED
  BY <1>2, <1>4, <1>6, <1>7, <1>8 DEF t

(***************************************************************************)
(* One operand is done, one load is added: what changes.                   *)
(***************************************************************************)
SameQueues(s, t) ==
  /\ t.SQ = s.SQ /\ t.SQ_tail = s.SQ_tail /\ t.STA = s.STA
  /\ t.ready["RTS0"] = s.ready["RTS0"] /\ t.ready["RTS1"] = s.ready["RTS1"]

(* The operand k of i is given slot q, and its producer p, if any, knows.  *)
Marks(R, T, i, k, q, p) ==
  /\ DOMAIN T = Instrs
  /\ \A j \in Instrs :
       /\ T[j] \in RobEntry(j)
       /\ j \notin {i, p} => T[j] = R[j]
       /\ T[j].executed = R[j].executed
       /\ T[j].sq_index = R[j].sq_index
       /\ \A x \in DOMAIN loads(j) :
            IF j = i /\ x = k THEN T[j].lq_index[x] = q ELSE T[j].lq_index[x] = R[j].lq_index[x]
       /\ j # p => T[j].memory_instrs_depend_on_me = R[j].memory_instrs_depend_on_me
       /\ j = p => T[j].memory_instrs_depend_on_me = R[j].memory_instrs_depend_on_me \cup {i}

Marked(s, i, k, q, p) ==
  LET placed == [s EXCEPT !.ROB[i].lq_index[k] = q]
  IN IF p = 0 THEN placed ELSE
       [placed EXCEPT !.ROB[p].memory_instrs_depend_on_me = @ \cup {i}]

AddedWaiting(s, t, i, k, q, p) ==
  /\ Marks(s.ROB, t.ROB, i, k, q, p) /\ SameQueues(s, t)
  /\ \A j \in Instrs : t.ROB[j].num_mem_ops = s.ROB[j].num_mem_ops
  /\ t.LQ = [s.LQ EXCEPT ![q] = [instr |-> i, operand |-> k, producer |-> p]]
  /\ t.ready \in [Lists -> Seq(Nat)]
  /\ t.ready["RTL0"] = IF p = 0 THEN Append(s.ready["RTL0"], q) ELSE s.ready["RTL0"]
  /\ t.ready["RTL1"] = s.ready["RTL1"]
  /\ t.done = s.done /\ t.got = s.got

AddedForwarded(s, t, i, k, q, p) ==
  /\ Marks(s.ROB, t.ROB, i, k, q, p) /\ SameQueues(s, t)
  /\ \A j \in Instrs : t.ROB[j].num_mem_ops = s.ROB[j].num_mem_ops - (IF j = i THEN 1 ELSE 0)
  /\ t.LQ = s.LQ /\ t.ready = s.ready
  /\ t.done = s.done + (IF s.ROB[i].num_mem_ops = 1 THEN 1 ELSE 0)
  /\ t.got = Reads(s.got, {<<i, k>>}, p)

(* A free slot of the load queue.                                          *)
FreeSlot(s) == Min({x \in LqSlots : s.LQ[x] = Empty})

LEMMA FreeSlotIsFree ==
  ASSUME NEW s, Typed(s), Cardinality(Used(s.LQ)) < LQ_SIZE
  PROVE  FreeSlot(s) \in LqSlots /\ s.LQ[FreeSlot(s)] = Empty
<1> DEFINE S == {x \in LqSlots : s.LQ[x] = Empty}
<1>1. S # {}
  <2>1. SUFFICES ASSUME S = {} PROVE FALSE
    OBVIOUS
  <2>2. DOMAIN s.LQ = LqSlots
    BY DEF Typed
  <2>3. Used(s.LQ) = LqSlots
    BY <2>1, <2>2 DEF Used
  <2>4. Cardinality(LqSlots) = LQ_SIZE /\ LQ_SIZE \in Nat
    BY OldestSlots
  <2>5. QED
    BY <2>3, <2>4
<1>2. S \subseteq Nat
  BY OldestSlots
<1>3. Min(S) \in S
  BY <1>1, <1>2, MinOfSome
<1>4. QED
  BY <1>3 DEF FreeSlot

LEMMA MarksEffect ==
  ASSUME WindowOK, NEW s, Typed(s), NEW i \in Instrs, NEW k \in DOMAIN loads(i),
         NEW q \in LqSlots, NEW p \in Instrs \cup {0}, p # i, NEW m,
         m = Marked(s, i, k, q, p)
  PROVE  /\ DOMAIN m = Fields
         /\ m.LQ = s.LQ /\ m.ready = s.ready /\ m.done = s.done /\ m.got = s.got
         /\ Marks(s.ROB, m.ROB, i, k, q, p) /\ SameQueues(s, m)
         /\ \A j \in Instrs : m.ROB[j].num_mem_ops = s.ROB[j].num_mem_ops
<1>1. Instrs \subseteq Nat \ {0}
  BY Operands DEF WindowOK
<1> DEFINE n == [s EXCEPT !.ROB[i].lq_index[k] = q]
<1> DEFINE e == [s.ROB[i] EXCEPT !.lq_index[k] = q]
<1>2. /\ DOMAIN n = Fields /\ DOMAIN n.ROB = Instrs
      /\ n.LQ = s.LQ /\ n.SQ = s.SQ /\ n.SQ_tail = s.SQ_tail /\ n.STA = s.STA
      /\ n.ready = s.ready /\ n.done = s.done /\ n.got = s.got
      /\ \A j \in Instrs : n.ROB[j] = IF j = i THEN e ELSE s.ROB[j]
  BY DEF Typed, Fields
<1>3. /\ e \in RobEntry(i)
      /\ e.executed = s.ROB[i].executed /\ e.sq_index = s.ROB[i].sq_index
      /\ e.num_mem_ops = s.ROB[i].num_mem_ops
      /\ e.memory_instrs_depend_on_me = s.ROB[i].memory_instrs_depend_on_me
      /\ \A x \in DOMAIN loads(i) :
           e.lq_index[x] = IF x = k THEN q ELSE s.ROB[i].lq_index[x]
  <2> DEFINE u == [s.ROB[i].lq_index EXCEPT ![k] = q]
  <2>1. s.ROB[i] \in RobEntry(i) /\ s.ROB[i].lq_index \in [DOMAIN loads(i) -> LqSlots \cup {None}]
    BY DEF Typed, RobEntry
  <2>2. u \in [DOMAIN loads(i) -> LqSlots \cup {None}]
        /\ \A x \in DOMAIN loads(i) : u[x] = IF x = k THEN q ELSE s.ROB[i].lq_index[x]
    BY <2>1
  <2>3. e = [s.ROB[i] EXCEPT !.lq_index = u]
    BY <2>1 DEF RobEntry
  <2> HIDE DEF u, e
  <2>4. QED
    BY <2>1, <2>2, <2>3 DEF RobEntry
<1>4. CASE p = 0
  <2>1. m = n
    BY <1>4 DEF Marked
  <2> HIDE DEF e, n
  <2>2. QED
    BY <1>1, <1>2, <1>3, <1>4, <2>1 DEF Typed, Marks, SameQueues
<1>5. CASE p # 0
  <2> DEFINE f == [s.ROB[p] EXCEPT !.memory_instrs_depend_on_me = @ \cup {i}]
  <2>1. m = [n EXCEPT !.ROB[p].memory_instrs_depend_on_me = @ \cup {i}]
    BY <1>5 DEF Marked
  <2> HIDE DEF e, n
  <2>2. p \in DOMAIN n.ROB /\ n.ROB[p] = s.ROB[p]
    BY <1>2, <1>5
  <2>3. /\ DOMAIN m = Fields /\ DOMAIN m.ROB = Instrs
        /\ m.LQ = s.LQ /\ m.SQ = s.SQ /\ m.SQ_tail = s.SQ_tail /\ m.STA = s.STA
        /\ m.ready = s.ready /\ m.done = s.done /\ m.got = s.got
        /\ \A j \in Instrs : m.ROB[j] = IF j = p THEN f ELSE n.ROB[j]
    <3> DEFINE g == [n.ROB[p] EXCEPT !.memory_instrs_depend_on_me = @ \cup {i}]
    <3>1. /\ DOMAIN m = Fields /\ m.ROB = [n.ROB EXCEPT ![p] = g]
          /\ m.LQ = s.LQ /\ m.SQ = s.SQ /\ m.SQ_tail = s.SQ_tail /\ m.STA = s.STA
          /\ m.ready = s.ready /\ m.done = s.done /\ m.got = s.got
      BY <1>2, <2>1 DEF Fields
    <3>2. g = f
      BY <2>2
    <3> HIDE DEF f, g
    <3>3. DOMAIN m.ROB = Instrs /\ \A j \in Instrs : m.ROB[j] = IF j = p THEN g ELSE n.ROB[j]
      BY <1>2, <3>1
    <3>4. QED
      BY <3>1, <3>2, <3>3
  <2>4. /\ f \in RobEntry(p)
        /\ f.executed = s.ROB[p].executed /\ f.sq_index = s.ROB[p].sq_index
        /\ f.num_mem_ops = s.ROB[p].num_mem_ops /\ f.lq_index = s.ROB[p].lq_index
        /\ f.memory_instrs_depend_on_me = s.ROB[p].memory_instrs_depend_on_me \cup {i}
    <3>1. s.ROB[p] \in RobEntry(p)
      BY <1>5 DEF Typed
    <3>2. s.ROB[p].memory_instrs_depend_on_me \cup {i} \in SUBSET Instrs
      BY <1>1, <3>1 DEF RobEntry
    <3>3. QED
      BY <3>1, <3>2 DEF RobEntry
  <2> HIDE DEF f
  <2>5. \A j \in Instrs : m.ROB[j] = IF j = p THEN f ELSE IF j = i THEN e ELSE s.ROB[j]
    BY <1>2, <2>3
  <2>6. ASSUME NEW j \in Instrs
        PROVE  /\ m.ROB[j] \in RobEntry(j)
               /\ j \notin {i, p} => m.ROB[j] = s.ROB[j]
               /\ m.ROB[j].executed = s.ROB[j].executed
               /\ m.ROB[j].sq_index = s.ROB[j].sq_index
               /\ m.ROB[j].num_mem_ops = s.ROB[j].num_mem_ops
               /\ \A x \in DOMAIN loads(j) :
                    IF j = i /\ x = k THEN m.ROB[j].lq_index[x] = q
                    ELSE m.ROB[j].lq_index[x] = s.ROB[j].lq_index[x]
               /\ j # p => m.ROB[j].memory_instrs_depend_on_me = s.ROB[j].memory_instrs_depend_on_me
               /\ j = p => m.ROB[j].memory_instrs_depend_on_me =
                               s.ROB[j].memory_instrs_depend_on_me \cup {i}
    <3>1. CASE j = p
      BY <1>5, <2>4, <2>5, <3>1
    <3>2. CASE j = i
      BY <1>3, <2>5, <3>2
    <3>3. CASE j \notin {i, p}
      BY <2>5, <3>3 DEF Typed
    <3>4. QED
      BY <3>1, <3>2, <3>3
  <2>7. QED
    BY <2>3, <2>6 DEF Marks, SameQueues
<1>6. QED
  BY <1>4, <1>5

LEMMA OpDoneEffect ==
  ASSUME NEW s, DOMAIN s = Fields, DOMAIN s.ROB = Instrs, NEW i \in Instrs,
         \A j \in Instrs : s.ROB[j] \in RobEntry(j), NEW t, t = OpDone(s, i)
  PROVE  /\ DOMAIN t = Fields /\ DOMAIN t.ROB = Instrs
         /\ t.LQ = s.LQ /\ t.SQ = s.SQ /\ t.SQ_tail = s.SQ_tail /\ t.STA = s.STA
         /\ t.ready = s.ready /\ t.got = s.got
         /\ t.done = s.done + (IF s.ROB[i].num_mem_ops = 1 THEN 1 ELSE 0) \/ s.done \notin Int
         /\ \A j \in Instrs :
              /\ t.ROB[j] \in RobEntry(j)
              /\ j # i => t.ROB[j] = s.ROB[j]
              /\ t.ROB[j].executed = s.ROB[j].executed
              /\ t.ROB[j].sq_index = s.ROB[j].sq_index
              /\ t.ROB[j].lq_index = s.ROB[j].lq_index
              /\ t.ROB[j].memory_instrs_depend_on_me = s.ROB[j].memory_instrs_depend_on_me
              /\ t.ROB[j].num_mem_ops = s.ROB[j].num_mem_ops - (IF j = i THEN 1 ELSE 0)
<1> DEFINE e == [s.ROB[i] EXCEPT !.num_mem_ops = @ - 1]
<1>1. /\ DOMAIN t = Fields /\ DOMAIN t.ROB = Instrs
      /\ t.LQ = s.LQ /\ t.SQ = s.SQ /\ t.SQ_tail = s.SQ_tail /\ t.STA = s.STA
      /\ t.ready = s.ready /\ t.got = s.got
      /\ t.done = IF s.ROB[i].num_mem_ops = 1 THEN s.done + 1 ELSE s.done
      /\ \A j \in Instrs : t.ROB[j] = IF j = i THEN e ELSE s.ROB[j]
  BY DEF OpDone, Fields
<1>2. /\ e \in RobEntry(i)
      /\ e.executed = s.ROB[i].executed /\ e.sq_index = s.ROB[i].sq_index
      /\ e.lq_index = s.ROB[i].lq_index
      /\ e.memory_instrs_depend_on_me = s.ROB[i].memory_instrs_depend_on_me
      /\ e.num_mem_ops = s.ROB[i].num_mem_ops - 1
  BY DEF RobEntry
<1> HIDE DEF e
<1>3. \A j \in Instrs : s.ROB[j].num_mem_ops \in Int
  BY DEF RobEntry
<1>4. QED
  BY <1>1, <1>2, <1>3

LEMMA ProducerIs ==
  ASSUME WindowOK, NEW i \in Window, NEW a
  PROVE  LastWriter(i, a, mem_RAW_dependency(i, a))
<1> DEFINE S == {j \in head .. i - 1 : Writes(j, a)}
           p == mem_RAW_dependency(i, a)
<1>1. i \in Nat \ {0} /\ head \in Nat \ {0} /\ S \subseteq 1 .. i
  BY WindowType
<1>2. p \in S \cup {0} /\ \A j \in S : j <= p
  BY <1>1, YoungestType DEF mem_RAW_dependency
<1>3. CASE p = 0
  <2>1. \A j \in S : FALSE
    BY <1>1, <1>2, <1>3
  <2>2. QED
    BY <1>3, <2>1 DEF LastWriter
<1>4. CASE p # 0
  <2>1. p \in S
    BY <1>2, <1>4
  <2>2. ASSUME NEW j \in p + 1 .. i - 1 PROVE ~Writes(j, a)
    BY <1>1, <1>2, <2>1
  <2>3. QED
    BY <1>4, <2>1, <2>2 DEF LastWriter
<1>5. QED
  BY <1>3, <1>4

LEMMA AddLoadEffect ==
  ASSUME WindowOK, NEW s, Typed(s), NEW i \in Window, NEW k \in DOMAIN loads(i),
         LoadFits(s, i, k), NEW t, t = add_load_queue(s, i, k)
  PROVE  \E q \in LqSlots, p \in Instrs \cup {0} :
           /\ DOMAIN t = Fields /\ s.LQ[q] = Empty /\ p # i
           /\ LastWriter(i, loads(i)[k], p)
           /\ \/ p # 0 /\ AddedForwarded(s, t, i, k, q, p)
              \/ AddedWaiting(s, t, i, k, q, p) /\ (p # 0 => ~Forwards(s, p, loads(i)[k]))
<1> DEFINE a == loads(i)[k]
           q == FreeSlot(s)
           p == mem_RAW_dependency(i, a)
           marked == Marked(s, i, k, q, p)
           done == p # 0 /\ Forwards(s, p, a)
<1>1. i \in Instrs /\ i \in Nat \ {0} /\ head \in Nat \ {0} /\ i < tail
  BY WindowType
<1>2. q \in LqSlots /\ s.LQ[q] = Empty
  BY FreeSlotIsFree DEF LoadFits
<1>3. LastWriter(i, a, p)
  BY ProducerIs
<1>4. p \in Instrs \cup {0} /\ p # i
  <2>1. CASE p = 0
    BY <1>1, <2>1
  <2>2. CASE p # 0
    <3>1. p \in head .. i - 1
      BY <1>3, <2>2 DEF LastWriter
    <3>2. p \in Window /\ p # i
      BY <1>1, <3>1 DEF Window, WindowOK
    <3>3. QED
      BY <3>2, WindowType
  <2>3. QED
    BY <2>1, <2>2
<1>5. t = IF done THEN OpDone(Received(marked, i, k, p), i)
          ELSE [marked EXCEPT
                  !.LQ[q] = [instr |-> i, operand |-> k, producer |-> p],
                  !.ready.RTL0 = IF p = 0 THEN Append(@, q) ELSE @]
  BY DEF add_load_queue, FreeSlot, Marked
<1> HIDE DEF q, p
<1>6. /\ DOMAIN marked = Fields
      /\ marked.LQ = s.LQ /\ marked.ready = s.ready /\ marked.done = s.done
      /\ marked.got = s.got
      /\ Marks(s.ROB, marked.ROB, i, k, q, p) /\ SameQueues(s, marked)
      /\ \A j \in Instrs : marked.ROB[j].num_mem_ops = s.ROB[j].num_mem_ops
  BY <1>1, <1>2, <1>4, MarksEffect
<1> HIDE DEF marked
<1>7. CASE ~done
  <2>1. t = [marked EXCEPT
               !.LQ[q] = [instr |-> i, operand |-> k, producer |-> p],
               !.ready.RTL0 = IF p = 0 THEN Append(@, q) ELSE @]
    BY <1>5, <1>7
  <2>2. /\ DOMAIN t = Fields /\ t.ROB = marked.ROB
        /\ t.SQ = marked.SQ /\ t.SQ_tail = marked.SQ_tail /\ t.STA = marked.STA
        /\ t.done = marked.done /\ t.got = marked.got
        /\ t.LQ = [s.LQ EXCEPT ![q] = [instr |-> i, operand |-> k, producer |-> p]]
        /\ t.ready = [s.ready EXCEPT !.RTL0 = IF p = 0 THEN Append(@, q) ELSE @]
    BY <1>6, <2>1 DEF Fields
  <2>3. /\ t.ready["RTL0"] = IF p = 0 THEN Append(s.ready["RTL0"], q) ELSE s.ready["RTL0"]
        /\ t.ready["RTL1"] = s.ready["RTL1"]
        /\ t.ready["RTS0"] = s.ready["RTS0"] /\ t.ready["RTS1"] = s.ready["RTS1"]
    BY <2>2 DEF Typed, Lists
  <2>a. Marks(s.ROB, t.ROB, i, k, q, p) /\ SameQueues(s, t)
    BY <1>6, <2>2, <2>3 DEF Marks, SameQueues
  <2>b. t.ready \in [Lists -> Seq(Nat)]
    <3>1. q \in Nat /\ s.ready \in [Lists -> Seq(Nat)] /\ s.ready["RTL0"] \in Seq(Nat)
      BY <1>2, OldestSlots DEF Typed, Lists
    <3>2. Append(s.ready["RTL0"], q) \in Seq(Nat)
      BY <3>1, AppendProperties
    <3>3. QED
      BY <2>2, <3>1, <3>2
  <2>4. AddedWaiting(s, t, i, k, q, p)
    BY <1>6, <2>2, <2>3, <2>a, <2>b DEF AddedWaiting
  <2>5. QED
    BY <1>2, <1>3, <1>4, <1>7, <2>2, <2>4
<1>8. CASE done
  <2> DEFINE r == Received(marked, i, k, p)
  <2>1. /\ DOMAIN r = Fields /\ r.ROB = marked.ROB /\ r.LQ = s.LQ
        /\ r.SQ = marked.SQ /\ r.SQ_tail = marked.SQ_tail /\ r.STA = marked.STA
        /\ r.ready = s.ready /\ r.done = s.done
        /\ r.got = Reads(s.got, {<<i, k>>}, p)
    BY <1>6 DEF Fields, Received
  <2>2. t = OpDone(r, i)
    BY <1>5, <1>8
  <2> HIDE DEF r
  <2>3. /\ DOMAIN r.ROB = Instrs /\ \A j \in Instrs : r.ROB[j] \in RobEntry(j)
    BY <1>6, <2>1 DEF Marks
  <2>4. /\ DOMAIN t = Fields /\ DOMAIN t.ROB = Instrs
        /\ t.LQ = r.LQ /\ t.SQ = r.SQ /\ t.SQ_tail = r.SQ_tail /\ t.STA = r.STA
        /\ t.ready = r.ready /\ t.got = r.got
        /\ t.done = r.done + (IF r.ROB[i].num_mem_ops = 1 THEN 1 ELSE 0) \/ r.done \notin Int
        /\ \A j \in Instrs :
             /\ t.ROB[j] \in RobEntry(j)
             /\ j # i => t.ROB[j] = r.ROB[j]
             /\ t.ROB[j].executed = r.ROB[j].executed
             /\ t.ROB[j].sq_index = r.ROB[j].sq_index
             /\ t.ROB[j].lq_index = r.ROB[j].lq_index
             /\ t.ROB[j].memory_instrs_depend_on_me = r.ROB[j].memory_instrs_depend_on_me
             /\ t.ROB[j].num_mem_ops = r.ROB[j].num_mem_ops - (IF j = i THEN 1 ELSE 0)
    BY <1>1, <2>1, <2>2, <2>3, OpDoneEffect
  <2>5. s.done \in Int
    BY DEF Typed
  <2>6. SameQueues(s, t)
    BY <1>6, <2>1, <2>4 DEF SameQueues
  <2>a. Marks(s.ROB, t.ROB, i, k, q, p)
    <3>1. ASSUME NEW j \in Instrs
          PROVE  /\ t.ROB[j] \in RobEntry(j)
                 /\ j \notin {i, p} => t.ROB[j] = s.ROB[j]
                 /\ t.ROB[j].executed = s.ROB[j].executed
                 /\ t.ROB[j].sq_index = s.ROB[j].sq_index
                 /\ \A x \in DOMAIN loads(j) :
                      IF j = i /\ x = k THEN t.ROB[j].lq_index[x] = q
                    ELSE t.ROB[j].lq_index[x] = s.ROB[j].lq_index[x]
                 /\ j # p => t.ROB[j].memory_instrs_depend_on_me = s.ROB[j].memory_instrs_depend_on_me
                 /\ j = p => t.ROB[j].memory_instrs_depend_on_me =
                                 s.ROB[j].memory_instrs_depend_on_me \cup {i}
      <4>1. r.ROB[j] = marked.ROB[j]
        BY <2>1
      <4>2. QED
        BY <1>6, <2>4, <4>1 DEF Marks
    <3>2. QED
      BY <2>4, <3>1 DEF Marks
  <2>7. AddedForwarded(s, t, i, k, q, p)
    <3>1. \A j \in Instrs :
            t.ROB[j].num_mem_ops = s.ROB[j].num_mem_ops - (IF j = i THEN 1 ELSE 0)
      BY <1>6, <2>1, <2>4
    <3>2. t.done = s.done + (IF s.ROB[i].num_mem_ops = 1 THEN 1 ELSE 0)
      BY <1>1, <1>6, <2>1, <2>4, <2>5
    <3>3. t.LQ = s.LQ /\ t.ready = s.ready /\ t.got = Reads(s.got, {<<i, k>>}, p)
      BY <2>1, <2>4
    <3>4. QED
      BY <2>6, <2>a, <3>1, <3>2, <3>3 DEF AddedForwarded
  <2>8. QED
    BY <1>2, <1>3, <1>4, <1>8, <2>4, <2>7
<1>9. QED
  BY <1>7, <1>8

(***************************************************************************)
(* A load added to its queue keeps the invariant.                          *)
(***************************************************************************)
LEMMA PartsFinite ==
  ASSUME WindowOK, NEW s, NEW i \in Instrs
  PROVE  /\ IsFiniteSet(LoadsOut(s, i)) /\ Cardinality(LoadsOut(s, i)) \in Nat
         /\ IsFiniteSet(StoresOut(s, i)) /\ Cardinality(StoresOut(s, i)) \in Nat
         /\ IsFiniteSet(LoadsIn(s, i)) /\ Cardinality(LoadsIn(s, i)) \in Nat
         /\ IsFiniteSet(StoresIn(s, i)) /\ Cardinality(StoresIn(s, i)) \in Nat
<1>1. /\ DOMAIN loads(i) = 1 .. Len(loads(i)) /\ DOMAIN stores(i) = 1 .. Len(stores(i))
      /\ Len(loads(i)) \in Int /\ Len(stores(i)) \in Int
  BY Operands DEF WindowOK
<1>2. IsFiniteSet(DOMAIN loads(i)) /\ IsFiniteSet(DOMAIN stores(i))
  BY <1>1, FS_Interval
<1>3. IsFiniteSet(LqSlots) /\ IsFiniteSet(SqSlots)
  BY OldestSlots
<1>4. /\ LoadsOut(s, i) \in SUBSET DOMAIN loads(i)
      /\ StoresOut(s, i) \in SUBSET DOMAIN stores(i)
      /\ LoadsIn(s, i) \in SUBSET LqSlots /\ StoresIn(s, i) \in SUBSET SqSlots
  BY DEF LoadsOut, StoresOut, LoadsIn, StoresIn
<1>5. /\ IsFiniteSet(LoadsOut(s, i)) /\ IsFiniteSet(StoresOut(s, i))
      /\ IsFiniteSet(LoadsIn(s, i)) /\ IsFiniteSet(StoresIn(s, i))
  BY <1>2, <1>3, <1>4, FS_Subset
<1>6. QED
  BY <1>5, FS_CardinalityType

(* What is about stores is kept by what leaves them alone.                 *)
LEMMA StoresKept ==
  ASSUME WindowOK, NEW s, NEW t, SameQueues(s, t),
         \A j \in Instrs : t.ROB[j].sq_index = s.ROB[j].sq_index
  PROVE  /\ StoresPlaced(s) => StoresPlaced(t)
         /\ Ring(s) => Ring(t)
         /\ StaSorted(s) => StaSorted(t)
         /\ StoresAsked(s) => StoresAsked(t)
         /\ \A j \in Instrs : StoresOut(t, j) = StoresOut(s, j) /\ StoresIn(t, j) = StoresIn(s, j)
         /\ \A p, a : Forwards(t, p, a) <=> Forwards(s, p, a)
<1>1. t.SQ = s.SQ /\ t.SQ_tail = s.SQ_tail /\ t.STA = s.STA
      /\ t.ready["RTS0"] = s.ready["RTS0"] /\ t.ready["RTS1"] = s.ready["RTS1"]
  BY DEF SameQueues
<1>2. StoresPlaced(s) => StoresPlaced(t)
  BY <1>1, WindowType DEF StoresPlaced
<1>3. Ring(s) => Ring(t)
  BY <1>1 DEF Ring, Age
<1>4. StaSorted(s) => StaSorted(t)
  BY <1>1 DEF StaSorted
<1>5. StoresAsked(s) => StoresAsked(t)
  BY <1>1 DEF StoresAsked, Executes, Listed
<1>6. ASSUME NEW j \in Instrs
      PROVE  StoresOut(t, j) = StoresOut(s, j) /\ StoresIn(t, j) = StoresIn(s, j)
  BY <1>1 DEF StoresOut, StoresIn
<1>7. \A p, a : Forwards(t, p, a) <=> Forwards(s, p, a)
  BY <1>1 DEF Forwards
<1>8. QED
  BY <1>2, <1>3, <1>4, <1>5, <1>6, <1>7

LEMMA MarksParts ==
  ASSUME WindowOK, NEW s, Queued(s), NEW t, NEW i \in Window, NEW k \in DOMAIN loads(i),
         NEW q \in LqSlots, NEW p \in Instrs \cup {0}, s.ROB[i].lq_index[k] = None,
         LastWriter(i, loads(i)[k], p), Marks(s.ROB, t.ROB, i, k, q, p)
  PROVE  /\ FreshOutside(t)
         /\ \A j \in Instrs : j # i => LoadsOut(t, j) = LoadsOut(s, j)
         /\ LoadsOut(t, i) = LoadsOut(s, i) \ {k} /\ k \in LoadsOut(s, i)
<1>1. i \in Instrs /\ p \in Window \cup {0}
  BY WindowType DEF LastWriter, Window, WindowOK
<1>2. FreshOutside(t)
  <2>1. ASSUME NEW j \in Instrs \ Window PROVE t.ROB[j] = Fresh(j)
    <3>1. 0 \notin Instrs
      BY Operands DEF WindowOK
    <3>2. j \notin {i, p}
      BY <1>1, <3>1
    <3>3. QED
      BY <3>2 DEF Queued, Settled, FreshOutside, Marks
  <2>2. QED
    BY <2>1 DEF FreshOutside
<1>3. ASSUME NEW j \in Instrs, j # i PROVE LoadsOut(t, j) = LoadsOut(s, j)
  BY <1>3 DEF LoadsOut, Marks
<1>4. q # None
  BY OldestSlots DEF None
<1>5. LoadsOut(t, i) = LoadsOut(s, i) \ {k} /\ k \in LoadsOut(s, i)
  BY <1>1, <1>4 DEF LoadsOut, Marks
<1>6. QED
  BY <1>2, <1>3, <1>5

(* A producer is in the ROB.                                               *)
LEMMA ProducerInWindow ==
  ASSUME WindowOK, NEW s, LoadsPlaced(s), ProducerLast(s), NEW q \in LqSlots,
         s.LQ[q] # Empty, s.LQ[q].producer # 0
  PROVE  s.LQ[q].producer \in Window /\ s.LQ[q].producer \in Instrs
<1> DEFINE u == s.LQ[q]
<1>1. u.instr \in Window /\ LastWriter(u.instr, Address(u), u.producer)
  BY DEF ProducerLast, LoadsPlaced
<1>2. u.producer \in head .. u.instr - 1 /\ u.instr < tail
  BY <1>1, WindowType DEF LastWriter
<1>3. u.producer \in Window
  BY <1>1, <1>2, WindowType DEF Window
<1>4. QED
  BY <1>3, WindowType

LEMMA AddWaitingKeeps ==
  ASSUME WindowOK, CachesTyped, NEW s, Queued(s), NEW i \in Window, NEW k \in DOMAIN loads(i),
         NEW q \in LqSlots, NEW p \in Instrs \cup {0}, p # i,
         s.ROB[i].lq_index[k] = None, s.LQ[q] = Empty, LastWriter(i, loads(i)[k], p),
         NEW t, DOMAIN t = Fields, AddedWaiting(s, t, i, k, q, p),
         p # 0 => ~Forwards(s, p, loads(i)[k])
  PROVE  Queued(t)
<1> DEFINE e == [instr |-> i, operand |-> k, producer |-> p]
<1>1. /\ i \in Instrs /\ i \in Nat \ {0} /\ p \in Nat /\ k \in Nat
      /\ q \in Nat /\ q \in LqSlots
  BY WindowType, Operands, OldestSlots DEF WindowOK
<1>2. /\ Typed(s) /\ FreshOutside(s) /\ LoadsPlaced(s) /\ ProducerLast(s) /\ ProducerWakes(s)
      /\ StoresPlaced(s) /\ Ring(s) /\ StaSorted(s) /\ Counted(s) /\ DoneFirst(s)
      /\ DoneCounted(s) /\ LoadsAsked(s) /\ StoresAsked(s) /\ GotRight(s)
  BY DEF Queued, Settled
<1>3. /\ Marks(s.ROB, t.ROB, i, k, q, p) /\ SameQueues(s, t)
      /\ \A j \in Instrs : t.ROB[j].num_mem_ops = s.ROB[j].num_mem_ops
      /\ t.LQ = [s.LQ EXCEPT ![q] = e]
      /\ t.ready \in [Lists -> Seq(Nat)]
      /\ t.ready["RTL0"] = IF p = 0 THEN Append(s.ready["RTL0"], q) ELSE s.ready["RTL0"]
      /\ t.ready["RTL1"] = s.ready["RTL1"]
      /\ t.done = s.done /\ t.got = s.got
  BY DEF AddedWaiting
<1>4. /\ e \in LqEntry /\ e # Empty /\ e.instr = i /\ e.operand = k /\ e.producer = p
      /\ Address(e) = loads(i)[k]
  BY <1>1 DEF LqEntry, Empty, Address
<1> HIDE DEF e
<1>5. /\ t.LQ \in [LqSlots -> LqEntry \cup {Empty}]
      /\ \A x \in LqSlots : t.LQ[x] = IF x = q THEN e ELSE s.LQ[x]
  BY <1>2, <1>3, <1>4 DEF Typed
<1>6. \A j \in Instrs : t.ROB[j].sq_index = s.ROB[j].sq_index
  BY <1>3 DEF Marks
<1>7. /\ StoresPlaced(t) /\ Ring(t) /\ StaSorted(t) /\ StoresAsked(t)
      /\ \A j \in Instrs : StoresOut(t, j) = StoresOut(s, j) /\ StoresIn(t, j) = StoresIn(s, j)
      /\ \A x, a : Forwards(t, x, a) <=> Forwards(s, x, a)
  BY <1>2, <1>3, <1>6, StoresKept
<1>8. /\ FreshOutside(t)
      /\ \A j \in Instrs : j # i => LoadsOut(t, j) = LoadsOut(s, j)
      /\ LoadsOut(t, i) = LoadsOut(s, i) \ {k} /\ k \in LoadsOut(s, i)
  BY <1>3, MarksParts
<1>9. Typed(t)
  BY <1>2, <1>3, <1>5 DEF Typed, Marks, SameQueues
<1>10. LoadsPlaced(t)
  <2>1. ASSUME NEW x \in LqSlots, t.LQ[x] # Empty
        PROVE  /\ t.LQ[x].instr \in Window /\ t.LQ[x].operand \in DOMAIN loads(t.LQ[x].instr)
               /\ t.ROB[t.LQ[x].instr].lq_index[t.LQ[x].operand] = x
    <3>1. CASE x = q
      BY <1>1, <1>3, <1>4, <1>5, <3>1 DEF Marks
    <3>2. CASE x # q
      <4>1. /\ t.LQ[x] = s.LQ[x] /\ s.LQ[x].instr \in Window
            /\ s.LQ[x].operand \in DOMAIN loads(s.LQ[x].instr)
            /\ s.ROB[s.LQ[x].instr].lq_index[s.LQ[x].operand] = x
        BY <1>2, <1>5, <2>1, <3>2 DEF LoadsPlaced
      <4>2. s.LQ[x].instr \in Instrs /\ x # None
        BY <4>1, WindowType, OldestSlots DEF None
      <4>3. ~(s.LQ[x].instr = i /\ s.LQ[x].operand = k)
        BY <4>1, <4>2
      <4>4. QED
        BY <1>3, <4>1, <4>2, <4>3 DEF Marks
    <3>3. QED
      BY <3>1, <3>2
  <2>2. QED
    BY <2>1 DEF LoadsPlaced
<1>11. ProducerLast(t)
  <2>1. ASSUME NEW x \in LqSlots, t.LQ[x] # Empty
        PROVE  LastWriter(t.LQ[x].instr, Address(t.LQ[x]), t.LQ[x].producer)
    <3>1. CASE x = q
      BY <1>4, <1>5, <3>1
    <3>2. CASE x # q
      BY <1>2, <1>5, <2>1, <3>2 DEF ProducerLast
    <3>3. QED
      BY <3>1, <3>2
  <2>2. QED
    BY <2>1 DEF ProducerLast
<1>12. ProducerWakes(t)
  <2>1. ASSUME NEW x \in LqSlots, t.LQ[x] # Empty, t.LQ[x].producer # 0
        PROVE  /\ t.LQ[x].instr \in t.ROB[t.LQ[x].producer].memory_instrs_depend_on_me
               /\ ~Forwards(t, t.LQ[x].producer, Address(t.LQ[x]))
    <3>1. CASE x = q
      BY <1>3, <1>4, <1>5, <1>7, <2>1, <3>1 DEF Marks
    <3>2. CASE x # q
      <4> DEFINE u == s.LQ[x]
      <4>1. t.LQ[x] = u /\ u # Empty /\ u.producer # 0
        BY <1>5, <2>1, <3>2
      <4>2. /\ u.instr \in s.ROB[u.producer].memory_instrs_depend_on_me
            /\ ~Forwards(s, u.producer, Address(u))
        BY <1>2, <4>1 DEF ProducerWakes
      <4>4. u.producer \in Instrs
        BY <1>2, <4>1, ProducerInWindow
      <4>5. u.instr \in t.ROB[u.producer].memory_instrs_depend_on_me
        BY <1>3, <4>2, <4>4 DEF Marks
      <4>6. QED
        BY <1>7, <4>1, <4>2, <4>5
    <3>3. QED
      BY <3>1, <3>2
  <2>2. QED
    BY <2>1 DEF ProducerWakes
<1>13. ASSUME NEW j \in Instrs
       PROVE  /\ j # i => LoadsIn(t, j) = LoadsIn(s, j)
              /\ LoadsIn(t, i) = LoadsIn(s, i) \cup {q} /\ q \notin LoadsIn(s, i)
  BY <1>1, <1>2, <1>4, <1>5 DEF LoadsIn
<1>14. Counted(t)
  <2>1. ASSUME NEW j \in Instrs
        PROVE  t.ROB[j].num_mem_ops =
                 Cardinality(LoadsOut(t, j)) + Cardinality(StoresOut(t, j))
                 + Cardinality(LoadsIn(t, j)) + Cardinality(StoresIn(t, j))
    <3>1. s.ROB[j].num_mem_ops =
            Cardinality(LoadsOut(s, j)) + Cardinality(StoresOut(s, j))
            + Cardinality(LoadsIn(s, j)) + Cardinality(StoresIn(s, j))
      BY <1>2 DEF Counted
    <3>2. CASE j # i
      BY <1>3, <1>7, <1>8, <1>13, <3>1, <3>2
    <3>3. CASE j = i
      <4>1. /\ IsFiniteSet(LoadsOut(s, i)) /\ Cardinality(LoadsOut(s, i)) \in Nat
            /\ IsFiniteSet(LoadsIn(s, i)) /\ Cardinality(LoadsIn(s, i)) \in Nat
            /\ Cardinality(StoresOut(s, i)) \in Nat /\ Cardinality(StoresIn(s, i)) \in Nat
        BY <1>1, PartsFinite
      <4>2. Cardinality(LoadsOut(t, i)) = Cardinality(LoadsOut(s, i)) - 1
        <5> DEFINE S == LoadsOut(s, i)
        <5>1. IsFiniteSet(S) /\ k \in S /\ LoadsOut(t, i) = S \ {k}
          BY <1>8, <4>1
        <5> HIDE DEF S
        <5>2. Cardinality(S \ {k}) = Cardinality(S) - 1
          BY <5>1, FS_RemoveElement
        <5>3. QED
          BY <5>1, <5>2 DEF S
      <4>3. Cardinality(LoadsIn(t, i)) = Cardinality(LoadsIn(s, i)) + 1
        BY <1>1, <1>13, <4>1, FS_AddElement
      <4>4. QED
        BY <1>3, <1>7, <3>1, <3>3, <4>1, <4>2, <4>3
    <3>4. QED
      BY <3>2, <3>3
  <2>2. QED
    BY <2>1 DEF Counted
<1>15. DoneFirst(t)
  BY <1>2, <1>3 DEF DoneFirst, Marks
<1>16. DoneCounted(t)
  <2>1. \A j \in Window : j \in Instrs
    BY WindowType
  <2>2. ToComplete(t) = ToComplete(s)
    BY <1>3, <2>1 DEF ToComplete, Marks
  <2>3. QED
    BY <1>2, <1>3, <2>2 DEF DoneCounted
<1>17. LoadsAsked(t)
  <2>1. \A x \in LqSlots : Waits(t, x) <=> IF x = q THEN p = 0 ELSE Waits(s, x)
    BY <1>4, <1>5 DEF Waits
  <2>2. ~Waits(s, q)
    BY DEF Waits
  <2>3. Listed(t, "RTL1") = Listed(s, "RTL1")
    BY <1>3 DEF Listed
  <2>4. CASE p # 0
    <3>1. Listed(t, "RTL0") = Listed(s, "RTL0") /\ t.ready["RTL0"] = s.ready["RTL0"]
      BY <1>3, <2>4 DEF Listed
    <3>2. QED
      BY <1>2, <1>3, <2>1, <2>2, <2>3, <2>4, <3>1 DEF LoadsAsked
  <2>5. CASE p = 0
    <3>1. /\ s.ready["RTL0"] \in Seq(Nat) /\ IsInjective(s.ready["RTL0"])
          /\ q \notin Range(s.ready["RTL0"])
      BY <1>2, <2>2 DEF LoadsAsked, Listed, Typed, Lists
    <3>2. t.ready["RTL0"] = Append(s.ready["RTL0"], q)
      BY <1>3, <2>5
    <3>3. IsInjective(t.ready["RTL0"]) /\ Listed(t, "RTL0") = Listed(s, "RTL0") \cup {q}
      BY <1>1, <3>1, <3>2, ListAppend DEF Listed
    <3>4. QED
      BY <1>2, <1>3, <2>1, <2>2, <2>3, <2>5, <3>3 DEF LoadsAsked
  <2>6. QED
    BY <2>4, <2>5
<1>18. GotRight(t)
  BY <1>2, <1>3 DEF GotRight
<1>19. QED
  BY <1>7, <1>8, <1>9, <1>10, <1>11, <1>12, <1>14, <1>15, <1>16, <1>17, <1>18 DEF Queued, Settled

(***************************************************************************)
(* What a load that is done read, and what its instruction has left.       *)
(***************************************************************************)
LEMMA LastStored ==
  ASSUME WindowOK, NEW i \in Window, NEW a, NEW p, LastWriter(i, a, p)
  PROVE  Youngest(Stored(i, a)) = IF p = 0 THEN Memory(a) ELSE p
<1>1. i \in Nat \ {0} /\ head \in Nat \ {0} /\ head <= i
  BY WindowType
<1>2. CASE p = 0
  <2>1. \A j \in head .. i - 1 : ~Writes(j, a)
    BY <1>2 DEF LastWriter
  <2>2. Stored(i, a) = {j \in 1 .. head - 1 : Writes(j, a)}
    BY <1>1, <2>1 DEF Stored
  <2>3. QED
    BY <1>2, <2>2 DEF Memory
<1>3. CASE p # 0
  <2>1. p \in head .. i - 1 /\ Writes(p, a) /\ \A j \in p + 1 .. i - 1 : ~Writes(j, a)
    BY <1>3 DEF LastWriter
  <2>2. p \in Stored(i, a) /\ Stored(i, a) \subseteq 1 .. i
    BY <1>1, <2>1 DEF Stored
  <2>3. ASSUME NEW j \in Stored(i, a) PROVE j <= p
    BY <1>1, <2>1 DEF Stored
  <2>4. Youngest(Stored(i, a)) = p
    BY <1>1, <2>2, <2>3, YoungestIs
  <2>5. QED
    BY <1>3, <2>4
<1>4. QED
  BY <1>2, <1>3

LEMMA GotKept ==
  ASSUME WindowOK, NEW s, NEW t, GotRight(s), NEW i \in Window, NEW k, NEW p,
         LastWriter(i, loads(i)[k], p),
         t.got = Reads(s.got, {<<i, k>>}, IF p = 0 THEN Memory(loads(i)[k]) ELSE p)
  PROVE  GotRight(t)
<1> DEFINE v == IF p = 0 THEN Memory(loads(i)[k]) ELSE p
<1>1. v = Youngest(Stored(i, loads(i)[k]))
  BY LastStored
<1>2. /\ DOMAIN t.got = DOMAIN s.got \cup {<<i, k>>}
      /\ \A y \in DOMAIN s.got : t.got[y] = s.got[y]
      /\ <<i, k>> \notin DOMAIN s.got => t.got[<<i, k>>] = v
  BY DEF Reads
<1> HIDE DEF v
<1>3. ASSUME NEW load \in DOMAIN t.got
      PROVE  t.got[load] = Youngest(Stored(load[1], loads(load[1])[load[2]]))
  <2>1. CASE load \in DOMAIN s.got
    BY <1>2, <2>1 DEF GotRight
  <2>2. CASE load \notin DOMAIN s.got
    <3>1. load = <<i, k>> /\ load[1] = i /\ load[2] = k
      BY <1>2, <2>2
    <3>2. QED
      BY <1>1, <1>2, <2>2, <3>1
  <2>3. QED
    BY <2>1, <2>2
<1>4. QED
  BY <1>3 DEF GotRight

(* An operand of i is done.                                                *)
OneLess(s, t, i) ==
  /\ \A j \in Instrs :
       /\ t.ROB[j].executed = s.ROB[j].executed
       /\ t.ROB[j].num_mem_ops = s.ROB[j].num_mem_ops - (IF j = i THEN 1 ELSE 0)
  /\ t.done = s.done + (IF s.ROB[i].num_mem_ops = 1 THEN 1 ELSE 0)

LEMMA DoneKept ==
  ASSUME WindowOK, NEW s, NEW t, NEW i \in Window, is_memory(i),
         \A j \in Instrs : s.ROB[j].num_mem_ops \in Int, s.ROB[i].num_mem_ops >= 1,
         DoneFirst(s), DoneCounted(s), OneLess(s, t, i)
  PROVE  DoneFirst(t) /\ DoneCounted(t)
<1>1. i \in Instrs /\ \A j \in Window : j \in Instrs
  BY WindowType
<1>2. \A j \in Instrs :
        /\ t.ROB[j].executed = s.ROB[j].executed
        /\ j # i => t.ROB[j].num_mem_ops = s.ROB[j].num_mem_ops
  BY DEF OneLess
<1>3. t.ROB[i].num_mem_ops = s.ROB[i].num_mem_ops - 1
  BY <1>1 DEF OneLess
<1>4. s.ROB[i].executed # "COMPLETED"
  BY <1>1 DEF DoneFirst
<1>5. DoneFirst(t)
  BY <1>2, <1>4 DEF DoneFirst
<1>6. i \notin ToComplete(s) /\ IsFiniteSet(ToComplete(s)) /\ Cardinality(ToComplete(s)) \in Nat
  <2>1. ToComplete(s) \in SUBSET Window
    BY DEF ToComplete
  <2>2. IsFiniteSet(ToComplete(s))
    BY <2>1, WindowType, FS_Subset
  <2>3. i \notin ToComplete(s)
    BY DEF ToComplete
  <2>4. QED
    BY <2>2, <2>3, FS_CardinalityType
<1>7. ToComplete(t) = IF s.ROB[i].num_mem_ops = 1 THEN ToComplete(s) \cup {i} ELSE ToComplete(s)
  BY <1>1, <1>2, <1>3, <1>4 DEF ToComplete
<1>8. Cardinality(ToComplete(t)) =
        Cardinality(ToComplete(s)) + (IF s.ROB[i].num_mem_ops = 1 THEN 1 ELSE 0)
  <2>1. Cardinality(ToComplete(s) \cup {i}) = Cardinality(ToComplete(s)) + 1
    <3> DEFINE S == ToComplete(s)
    <3>1. IsFiniteSet(S) /\ i \notin S
      BY <1>6
    <3> HIDE DEF S
    <3>2. Cardinality(S \cup {i}) = Cardinality(S) + 1
      BY <3>1, FS_AddElement
    <3>3. QED
      BY <3>2 DEF S
  <2>2. QED
    BY <1>6, <1>7, <2>1
<1>9. DoneCounted(t)
  BY <1>8 DEF DoneCounted, OneLess
<1>10. QED
  BY <1>5, <1>9

LEMMA AddForwardedKeeps ==
  ASSUME WindowOK, CachesTyped, NEW s, Queued(s), NEW i \in Window, NEW k \in DOMAIN loads(i),
         NEW q \in LqSlots, NEW p \in Instrs, p # i,
         s.ROB[i].lq_index[k] = None, s.LQ[q] = Empty, LastWriter(i, loads(i)[k], p),
         NEW t, DOMAIN t = Fields, AddedForwarded(s, t, i, k, q, p)
  PROVE  Queued(t)
<1>1. i \in Instrs /\ i \in Nat \ {0} /\ k \in Nat /\ p # 0 /\ is_memory(i)
  BY WindowType, Operands DEF WindowOK
<1>2. /\ Typed(s) /\ FreshOutside(s) /\ LoadsPlaced(s) /\ ProducerLast(s) /\ ProducerWakes(s)
      /\ StoresPlaced(s) /\ Ring(s) /\ StaSorted(s) /\ Counted(s) /\ DoneFirst(s)
      /\ DoneCounted(s) /\ LoadsAsked(s) /\ StoresAsked(s) /\ GotRight(s)
  BY DEF Queued, Settled
<1>3. /\ Marks(s.ROB, t.ROB, i, k, q, p) /\ SameQueues(s, t)
      /\ \A j \in Instrs : t.ROB[j].num_mem_ops = s.ROB[j].num_mem_ops - (IF j = i THEN 1 ELSE 0)
      /\ t.LQ = s.LQ /\ t.ready = s.ready
      /\ t.done = s.done + (IF s.ROB[i].num_mem_ops = 1 THEN 1 ELSE 0)
      /\ t.got = Reads(s.got, {<<i, k>>}, p)
  BY DEF AddedForwarded
<1>4. \A j \in Instrs : t.ROB[j].sq_index = s.ROB[j].sq_index
  BY <1>3 DEF Marks
<1>5. /\ StoresPlaced(t) /\ Ring(t) /\ StaSorted(t) /\ StoresAsked(t)
      /\ \A j \in Instrs : StoresOut(t, j) = StoresOut(s, j) /\ StoresIn(t, j) = StoresIn(s, j)
      /\ \A x, a : Forwards(t, x, a) <=> Forwards(s, x, a)
  BY <1>2, <1>3, <1>4, StoresKept
<1>6. /\ FreshOutside(t)
      /\ \A j \in Instrs : j # i => LoadsOut(t, j) = LoadsOut(s, j)
      /\ LoadsOut(t, i) = LoadsOut(s, i) \ {k} /\ k \in LoadsOut(s, i)
  BY <1>3, MarksParts
<1>7. Typed(t)
  <2>1. t.done \in Int
    BY <1>2, <1>3 DEF Typed
  <2>2. QED
    BY <1>2, <1>3, <2>1 DEF Typed, Marks, SameQueues
<1>8. LoadsPlaced(t)
  <2>1. ASSUME NEW x \in LqSlots, t.LQ[x] # Empty
        PROVE  /\ t.LQ[x].instr \in Window /\ t.LQ[x].operand \in DOMAIN loads(t.LQ[x].instr)
               /\ t.ROB[t.LQ[x].instr].lq_index[t.LQ[x].operand] = x
    <3>1. /\ t.LQ[x] = s.LQ[x] /\ s.LQ[x].instr \in Window
          /\ s.LQ[x].operand \in DOMAIN loads(s.LQ[x].instr)
          /\ s.ROB[s.LQ[x].instr].lq_index[s.LQ[x].operand] = x
      BY <1>2, <1>3, <2>1 DEF LoadsPlaced
    <3>2. s.LQ[x].instr \in Instrs /\ x # None
      BY <3>1, WindowType, OldestSlots DEF None
    <3>3. ~(s.LQ[x].instr = i /\ s.LQ[x].operand = k)
      BY <3>1, <3>2
    <3>4. QED
      BY <1>3, <3>1, <3>2, <3>3 DEF Marks
  <2>2. QED
    BY <2>1 DEF LoadsPlaced
<1>9. ProducerLast(t)
  BY <1>2, <1>3 DEF ProducerLast
<1>10. ProducerWakes(t)
  <2>1. ASSUME NEW x \in LqSlots, t.LQ[x] # Empty, t.LQ[x].producer # 0
        PROVE  /\ t.LQ[x].instr \in t.ROB[t.LQ[x].producer].memory_instrs_depend_on_me
               /\ ~Forwards(t, t.LQ[x].producer, Address(t.LQ[x]))
    <3> DEFINE u == s.LQ[x]
    <3>1. t.LQ[x] = u /\ u # Empty /\ u.producer # 0
      BY <1>3, <2>1
    <3>2. /\ u.instr \in s.ROB[u.producer].memory_instrs_depend_on_me
          /\ ~Forwards(s, u.producer, Address(u))
      BY <1>2, <3>1 DEF ProducerWakes
    <3>3. u.producer \in Instrs
      BY <1>2, <3>1, ProducerInWindow
    <3>4. u.instr \in t.ROB[u.producer].memory_instrs_depend_on_me
      BY <1>3, <3>2, <3>3 DEF Marks
    <3>5. QED
      BY <1>5, <3>1, <3>2, <3>4
  <2>2. QED
    BY <2>1 DEF ProducerWakes
<1>11. \A j \in Instrs : LoadsIn(t, j) = LoadsIn(s, j)
  BY <1>3 DEF LoadsIn
<1>12. /\ IsFiniteSet(LoadsOut(s, i)) /\ Cardinality(LoadsOut(s, i)) \in Nat
       /\ IsFiniteSet(LoadsIn(s, i)) /\ Cardinality(LoadsIn(s, i)) \in Nat
       /\ Cardinality(StoresOut(s, i)) \in Nat /\ Cardinality(StoresIn(s, i)) \in Nat
  BY <1>1, PartsFinite
<1>13. Cardinality(LoadsOut(t, i)) = Cardinality(LoadsOut(s, i)) - 1
       /\ Cardinality(LoadsOut(t, i)) \in Nat
  <2> DEFINE S == LoadsOut(s, i)
  <2>1. IsFiniteSet(S) /\ k \in S /\ LoadsOut(t, i) = S \ {k}
    BY <1>6, <1>12
  <2> HIDE DEF S
  <2>2. Cardinality(S \ {k}) = Cardinality(S) - 1 /\ IsFiniteSet(S \ {k})
    BY <2>1, FS_RemoveElement
  <2>3. Cardinality(S \ {k}) \in Nat
    BY <2>2, FS_CardinalityType
  <2>4. QED
    BY <2>1, <2>2, <2>3 DEF S
<1>14. \A j \in Instrs : s.ROB[j].num_mem_ops =
            Cardinality(LoadsOut(s, j)) + Cardinality(StoresOut(s, j))
            + Cardinality(LoadsIn(s, j)) + Cardinality(StoresIn(s, j))
  BY <1>2 DEF Counted
<1>15. Counted(t)
  <2>1. ASSUME NEW j \in Instrs
        PROVE  t.ROB[j].num_mem_ops =
                 Cardinality(LoadsOut(t, j)) + Cardinality(StoresOut(t, j))
                 + Cardinality(LoadsIn(t, j)) + Cardinality(StoresIn(t, j))
    <3>2. CASE j # i
      <4>1. t.ROB[j].num_mem_ops = s.ROB[j].num_mem_ops
        BY <1>2, <1>3, <3>2 DEF Typed, RobEntry
      <4>2. QED
        BY <1>5, <1>6, <1>11, <1>14, <3>2, <4>1
    <3>3. CASE j = i
      <4>1. t.ROB[i].num_mem_ops = s.ROB[i].num_mem_ops - 1
        BY <1>1, <1>3
      <4>2. QED
        BY <1>1, <1>5, <1>11, <1>12, <1>13, <1>14, <3>3, <4>1
    <3>4. QED
      BY <3>2, <3>3
  <2>2. QED
    BY <2>1 DEF Counted
<1>16. DoneFirst(t) /\ DoneCounted(t)
  <2>1. s.ROB[i].num_mem_ops >= 1
    BY <1>1, <1>12, <1>13, <1>14
  <2>2. \A j \in Instrs : s.ROB[j].num_mem_ops \in Int
    BY <1>2 DEF Typed, RobEntry
  <2>3. OneLess(s, t, i)
    BY <1>3 DEF OneLess, Marks
  <2>4. QED
    BY <1>1, <1>2, <2>1, <2>2, <2>3, DoneKept
<1>17. LoadsAsked(t)
  BY <1>2, <1>3 DEF LoadsAsked, Waits, Listed
<1>18. GotRight(t)
  BY <1>1, <1>2, <1>3, GotKept
<1>19. QED
  BY <1>5, <1>6, <1>7, <1>8, <1>9, <1>10, <1>15, <1>16, <1>17, <1>18 DEF Queued, Settled

SameProgress(s, t) == \A j \in Instrs : t.ROB[j].executed = s.ROB[j].executed

LEMMA AddLoadKeeps ==
  ASSUME WindowOK, CachesTyped, NEW s, Queued(s), NEW i \in Window, NEW k
  PROVE  Queued(AddLoad(s, i, k)) /\ SameProgress(s, AddLoad(s, i, k))
<1>1. CASE k \in DOMAIN loads(i) /\ LoadFits(s, i, k)
  <2> DEFINE t == add_load_queue(s, i, k)
  <2>1. AddLoad(s, i, k) = t /\ Typed(s) /\ s.ROB[i].lq_index[k] = None
    BY <1>1 DEF AddLoad, Queued, Settled, LoadFits
  <2>2. PICK q \in LqSlots, p \in Instrs \cup {0} :
           /\ DOMAIN t = Fields /\ s.LQ[q] = Empty /\ p # i
           /\ LastWriter(i, loads(i)[k], p)
           /\ \/ p # 0 /\ AddedForwarded(s, t, i, k, q, p)
              \/ AddedWaiting(s, t, i, k, q, p) /\ (p # 0 => ~Forwards(s, p, loads(i)[k]))
    BY <1>1, <2>1, AddLoadEffect
  <2> HIDE DEF t
  <2>3. Queued(t)
    BY <1>1, <2>1, <2>2, AddForwardedKeeps, AddWaitingKeeps
  <2>4. SameProgress(s, t)
    BY <2>2 DEF SameProgress, AddedForwarded, AddedWaiting, Marks
  <2>5. QED
    BY <2>1, <2>3, <2>4
<1>2. CASE ~(k \in DOMAIN loads(i) /\ LoadFits(s, i, k))
  BY <1>2 DEF AddLoad, SameProgress
<1>3. QED
  BY <1>1, <1>2

(***************************************************************************)
(* A store added to its queue keeps the invariant.                         *)
(***************************************************************************)
LEMMA AgeType ==
  ASSUME NEW s, s.SQ_tail \in SqSlots
  PROVE  /\ \A x \in SqSlots : Age(s, x) \in 0 .. SQ_SIZE - 1
         /\ Age(s, s.SQ_tail) = SQ_SIZE - 1
         /\ \A x, y \in SqSlots : Age(s, x) = Age(s, y) => x = y
<1>1. SQ_SIZE \in Nat \ {0} /\ SqSlots = 0 .. SQ_SIZE - 1
  BY OldestSlots DEF SqSlots
<1>2. s.SQ_tail \in 0 .. SQ_SIZE - 1
  BY <1>1
<1>3. \A x \in 0 .. SQ_SIZE - 1 : Age(s, x) \in 0 .. SQ_SIZE - 1
  BY <1>1, <1>2 DEF Age
<1>4. Age(s, s.SQ_tail) = SQ_SIZE - 1
  BY <1>1, <1>2 DEF Age
<1>5. \A x, y \in 0 .. SQ_SIZE - 1 : Age(s, x) = Age(s, y) => x = y
  BY <1>1, <1>2 DEF Age
<1>6. QED
  BY <1>1, <1>3, <1>4, <1>5

(* The slot at the tail is free, unless the queue is full.                 *)
LEMMA TailIsFree ==
  ASSUME NEW s, Typed(s), Ring(s), Cardinality(Used(s.SQ)) < SQ_SIZE
  PROVE  s.SQ[s.SQ_tail] = Empty
<1>1. SUFFICES ASSUME s.SQ[s.SQ_tail] # Empty PROVE FALSE
  OBVIOUS
<1>2. s.SQ_tail \in SqSlots /\ DOMAIN s.SQ = SqSlots
  BY DEF Typed
<1>3. ASSUME NEW r \in SqSlots PROVE s.SQ[r] # Empty
  <2>1. Age(s, r) <= Age(s, s.SQ_tail)
    BY <1>2, AgeType, OldestSlots
  <2>2. QED
    BY <1>1, <1>2, <2>1 DEF Ring
<1>4. Used(s.SQ) = SqSlots
  BY <1>2, <1>3 DEF Used
<1>5. QED
  BY <1>4, OldestSlots

AddedStore(s, t, i, k, q) ==
  /\ DOMAIN t = Fields /\ DOMAIN t.ROB = Instrs
  /\ \A j \in Instrs :
       /\ t.ROB[j] \in RobEntry(j)
       /\ j # i => t.ROB[j] = s.ROB[j]
       /\ t.ROB[j].executed = s.ROB[j].executed
       /\ t.ROB[j].num_mem_ops = s.ROB[j].num_mem_ops
       /\ t.ROB[j].lq_index = s.ROB[j].lq_index
       /\ t.ROB[j].memory_instrs_depend_on_me = s.ROB[j].memory_instrs_depend_on_me
       /\ \A x \in DOMAIN stores(j) :
            IF j = i /\ x = k THEN t.ROB[j].sq_index[x] = q
            ELSE t.ROB[j].sq_index[x] = s.ROB[j].sq_index[x]
  /\ t.LQ = s.LQ
  /\ t.SQ = [s.SQ EXCEPT ![q] = [instr |-> i, operand |-> k, fetched |-> FALSE]]
  /\ t.SQ_tail = (IF q = SQ_SIZE - 1 THEN 0 ELSE q + 1) /\ t.SQ_tail \in SqSlots
  /\ t.STA = Tail(s.STA)
  /\ t.ready \in [Lists -> Seq(Nat)]
  /\ t.ready["RTS0"] = Append(s.ready["RTS0"], q)
  /\ \A l \in Lists : l # "RTS0" => t.ready[l] = s.ready[l]
  /\ t.done = s.done /\ t.got = s.got

LEMMA AddStoreEffect ==
  ASSUME WindowOK, NEW s, Typed(s), NEW i \in Instrs, NEW k \in DOMAIN stores(i)
  PROVE  AddedStore(s, add_store_queue(s, i, k), i, k, s.SQ_tail)
<1> DEFINE q == s.SQ_tail
           t == add_store_queue(s, i, k)
           e == [s.ROB[i] EXCEPT !.sq_index[k] = q]
<1>1. q \in SqSlots /\ q \in Nat /\ q <= SQ_SIZE - 1 /\ SQ_SIZE \in Nat \ {0}
  BY OldestSlots DEF Typed, SqSlots
<1>2. /\ DOMAIN t = Fields /\ DOMAIN t.ROB = Instrs
      /\ t.LQ = s.LQ
      /\ t.SQ = [s.SQ EXCEPT ![q] = [instr |-> i, operand |-> k, fetched |-> FALSE]]
      /\ t.SQ_tail = (q + 1) % SQ_SIZE /\ t.STA = Tail(s.STA)
      /\ t.ready = [s.ready EXCEPT !.RTS0 = Append(@, q)]
      /\ t.done = s.done /\ t.got = s.got
      /\ \A j \in Instrs : t.ROB[j] = IF j = i THEN e ELSE s.ROB[j]
  BY DEF Typed, Fields, add_store_queue
<1>3. /\ e \in RobEntry(i)
      /\ e.executed = s.ROB[i].executed /\ e.lq_index = s.ROB[i].lq_index
      /\ e.num_mem_ops = s.ROB[i].num_mem_ops
      /\ e.memory_instrs_depend_on_me = s.ROB[i].memory_instrs_depend_on_me
      /\ \A x \in DOMAIN stores(i) :
           e.sq_index[x] = IF x = k THEN q ELSE s.ROB[i].sq_index[x]
  <2> DEFINE u == [s.ROB[i].sq_index EXCEPT ![k] = q]
  <2>1. s.ROB[i] \in RobEntry(i) /\ s.ROB[i].sq_index \in [DOMAIN stores(i) -> SqSlots \cup {None}]
    BY DEF Typed, RobEntry
  <2>2. u \in [DOMAIN stores(i) -> SqSlots \cup {None}]
        /\ \A x \in DOMAIN stores(i) : u[x] = IF x = k THEN q ELSE s.ROB[i].sq_index[x]
    BY <1>1, <2>1
  <2>3. e = [s.ROB[i] EXCEPT !.sq_index = u]
    BY <2>1 DEF RobEntry
  <2> HIDE DEF u, e, q, t
  <2>4. QED
    BY <2>1, <2>2, <2>3 DEF RobEntry
<1> HIDE DEF e, t
<1>4. (q + 1) % SQ_SIZE = IF q = SQ_SIZE - 1 THEN 0 ELSE q + 1
  BY <1>1
<1>5. t.SQ_tail = (IF q = SQ_SIZE - 1 THEN 0 ELSE q + 1) /\ t.SQ_tail \in SqSlots
  BY <1>1, <1>2, <1>4 DEF SqSlots
<1>6. /\ t.ready \in [Lists -> Seq(Nat)]
      /\ t.ready["RTS0"] = Append(s.ready["RTS0"], q)
      /\ \A l \in Lists : l # "RTS0" => t.ready[l] = s.ready[l]
  <2>1. s.ready \in [Lists -> Seq(Nat)] /\ s.ready["RTS0"] \in Seq(Nat)
    BY DEF Typed, Lists
  <2>2. Append(s.ready["RTS0"], q) \in Seq(Nat)
    BY <1>1, <2>1, AppendProperties
  <2>3. QED
    BY <1>2, <2>1, <2>2 DEF Lists
<1>7. ASSUME NEW j \in Instrs
      PROVE  /\ t.ROB[j] \in RobEntry(j)
             /\ j # i => t.ROB[j] = s.ROB[j]
             /\ t.ROB[j].executed = s.ROB[j].executed
             /\ t.ROB[j].num_mem_ops = s.ROB[j].num_mem_ops
             /\ t.ROB[j].lq_index = s.ROB[j].lq_index
             /\ t.ROB[j].memory_instrs_depend_on_me = s.ROB[j].memory_instrs_depend_on_me
             /\ \A x \in DOMAIN stores(j) :
                  IF j = i /\ x = k THEN t.ROB[j].sq_index[x] = q
                  ELSE t.ROB[j].sq_index[x] = s.ROB[j].sq_index[x]
  BY <1>2, <1>3 DEF Typed
<1>8. AddedStore(s, t, i, k, q)
  BY <1>2, <1>5, <1>6, <1>7 DEF AddedStore
<1>9. QED
  BY <1>8 DEF t

LEMMA AddedStoreKeeps ==
  ASSUME WindowOK, CachesTyped, NEW s, Queued(s), NEW i \in Window, NEW k \in DOMAIN stores(i),
         s.ROB[i].sq_index[k] = None, s.SQ[s.SQ_tail] = Empty,
         s.STA # <<>>, Head(s.STA) = i, NEW t, AddedStore(s, t, i, k, s.SQ_tail)
  PROVE  Queued(t)
<1> DEFINE q == s.SQ_tail
           e == [instr |-> i, operand |-> k, fetched |-> FALSE]
<1>1. /\ i \in Instrs /\ i \in Nat \ {0} /\ k \in Nat
  BY WindowType, Operands DEF WindowOK
<1>2. /\ Typed(s) /\ FreshOutside(s) /\ LoadsPlaced(s) /\ ProducerLast(s) /\ ProducerWakes(s)
      /\ StoresPlaced(s) /\ Ring(s) /\ StaSorted(s) /\ Counted(s) /\ DoneFirst(s)
      /\ DoneCounted(s) /\ LoadsAsked(s) /\ StoresAsked(s) /\ GotRight(s)
  BY DEF Queued, Settled
<1>3. /\ q \in SqSlots /\ q \in Nat /\ q # None /\ SQ_SIZE \in Nat \ {0} /\ q <= SQ_SIZE - 1
      /\ s.SQ[q] = Empty /\ DOMAIN s.SQ = SqSlots
  BY <1>2, OldestSlots DEF Typed, None, SqSlots
<1>4. /\ e \in SqEntry /\ e # Empty /\ e.instr = i /\ e.operand = k /\ e.fetched = FALSE
  BY <1>1 DEF SqEntry, Empty
<1> HIDE DEF q, e
<1>5. /\ t.SQ \in [SqSlots -> SqEntry \cup {Empty}]
      /\ \A x \in SqSlots : t.SQ[x] = IF x = q THEN e ELSE s.SQ[x]
  BY <1>2, <1>3, <1>4 DEF Typed, AddedStore, q, e
<1>6. /\ DOMAIN t = Fields /\ DOMAIN t.ROB = Instrs
      /\ t.LQ = s.LQ
      /\ t.SQ_tail = (IF q = SQ_SIZE - 1 THEN 0 ELSE q + 1) /\ t.SQ_tail \in SqSlots
      /\ t.STA = Tail(s.STA)
      /\ t.ready \in [Lists -> Seq(Nat)]
      /\ t.ready["RTS0"] = Append(s.ready["RTS0"], q)
      /\ t.ready["RTL0"] = s.ready["RTL0"] /\ t.ready["RTL1"] = s.ready["RTL1"]
      /\ t.ready["RTS1"] = s.ready["RTS1"]
      /\ t.done = s.done /\ t.got = s.got
  BY DEF AddedStore, q, Lists
<1>7. \A j \in Instrs :
       /\ t.ROB[j] \in RobEntry(j)
       /\ j # i => t.ROB[j] = s.ROB[j]
       /\ t.ROB[j].executed = s.ROB[j].executed
       /\ t.ROB[j].num_mem_ops = s.ROB[j].num_mem_ops
       /\ t.ROB[j].lq_index = s.ROB[j].lq_index
       /\ t.ROB[j].memory_instrs_depend_on_me = s.ROB[j].memory_instrs_depend_on_me
       /\ \A x \in DOMAIN stores(j) :
            IF j = i /\ x = k THEN t.ROB[j].sq_index[x] = q
            ELSE t.ROB[j].sq_index[x] = s.ROB[j].sq_index[x]
  BY DEF AddedStore, q
<1>8. /\ s.STA \in Seq(Nat) /\ Len(s.STA) \in Nat \ {0} /\ s.STA[1] = i
      /\ t.STA \in Seq(Nat) /\ Len(t.STA) = Len(s.STA) - 1
      /\ \A m \in 1 .. Len(t.STA) : t.STA[m] = s.STA[m + 1]
  <2>1. s.STA \in Seq(Nat)
    BY <1>2 DEF Typed
  <2>2. QED
    BY <1>6, <2>1, HeadTailProperties, EmptySeq
<1>9. Typed(t)
  BY <1>2, <1>5, <1>6, <1>7, <1>8 DEF Typed
<1>10. FreshOutside(t)
  BY <1>1, <1>2, <1>7 DEF FreshOutside
<1>11. LoadsPlaced(t)
  <2>1. ASSUME NEW x \in LqSlots, t.LQ[x] # Empty
        PROVE  /\ t.LQ[x].instr \in Window /\ t.LQ[x].operand \in DOMAIN loads(t.LQ[x].instr)
               /\ t.ROB[t.LQ[x].instr].lq_index[t.LQ[x].operand] = x
    <3>1. /\ t.LQ[x] = s.LQ[x] /\ s.LQ[x].instr \in Window
          /\ s.LQ[x].operand \in DOMAIN loads(s.LQ[x].instr)
          /\ s.ROB[s.LQ[x].instr].lq_index[s.LQ[x].operand] = x
      BY <1>2, <1>6, <2>1 DEF LoadsPlaced
    <3>2. s.LQ[x].instr \in Instrs
      BY <3>1, WindowType
    <3>3. QED
      BY <1>7, <3>1, <3>2
  <2>2. QED
    BY <2>1 DEF LoadsPlaced
<1>12. ProducerLast(t)
  BY <1>2, <1>6 DEF ProducerLast
<1>13. \A p, a : Forwards(t, p, a) => Forwards(s, p, a)
  <2>1. DOMAIN t.SQ = SqSlots
    BY <1>5
  <2>2. QED
    BY <1>3, <1>4, <1>5, <2>1 DEF Forwards, Used
<1>14. ProducerWakes(t)
  <2>1. ASSUME NEW x \in LqSlots, t.LQ[x] # Empty, t.LQ[x].producer # 0
        PROVE  /\ t.LQ[x].instr \in t.ROB[t.LQ[x].producer].memory_instrs_depend_on_me
               /\ ~Forwards(t, t.LQ[x].producer, Address(t.LQ[x]))
    <3> DEFINE u == s.LQ[x]
    <3>1. t.LQ[x] = u /\ u # Empty /\ u.producer # 0
      BY <1>6, <2>1
    <3>2. /\ u.instr \in s.ROB[u.producer].memory_instrs_depend_on_me
          /\ ~Forwards(s, u.producer, Address(u))
      BY <1>2, <3>1 DEF ProducerWakes
    <3>3. u.producer \in Instrs
      BY <1>2, <3>1, ProducerInWindow
    <3>4. u.instr \in t.ROB[u.producer].memory_instrs_depend_on_me
      BY <1>7, <3>2, <3>3
    <3>5. QED
      BY <1>13, <3>1, <3>2, <3>4
  <2>2. QED
    BY <2>1 DEF ProducerWakes
<1>15. StoresPlaced(t)
  <2>1. ASSUME NEW x \in SqSlots, t.SQ[x] # Empty
        PROVE  /\ t.SQ[x].instr \in Window /\ t.SQ[x].operand \in DOMAIN stores(t.SQ[x].instr)
               /\ t.ROB[t.SQ[x].instr].sq_index[t.SQ[x].operand] = x
    <3>1. CASE x = q
      BY <1>1, <1>4, <1>5, <1>7, <3>1
    <3>2. CASE x # q
      <4>1. /\ t.SQ[x] = s.SQ[x] /\ s.SQ[x].instr \in Window
            /\ s.SQ[x].operand \in DOMAIN stores(s.SQ[x].instr)
            /\ s.ROB[s.SQ[x].instr].sq_index[s.SQ[x].operand] = x
        BY <1>2, <1>5, <2>1, <3>2 DEF StoresPlaced
      <4>2. s.SQ[x].instr \in Instrs /\ x # None
        BY <4>1, WindowType, OldestSlots DEF None
      <4>3. ~(s.SQ[x].instr = i /\ s.SQ[x].operand = k)
        BY <4>1, <4>2
      <4>4. QED
        BY <1>7, <4>1, <4>2, <4>3
    <3>3. QED
      BY <3>1, <3>2
  <2>2. ASSUME NEW j \in Instrs, NEW x \in DOMAIN stores(j), t.ROB[j].sq_index[x] # None
        PROVE  /\ t.SQ[t.ROB[j].sq_index[x]] # Empty
               /\ t.SQ[t.ROB[j].sq_index[x]].instr = j
               /\ t.SQ[t.ROB[j].sq_index[x]].operand = x
    <3>1. CASE j = i /\ x = k
      BY <1>3, <1>4, <1>5, <1>7, <3>1
    <3>2. CASE ~(j = i /\ x = k)
      <4> DEFINE y == s.ROB[j].sq_index[x]
      <4>1. t.ROB[j].sq_index[x] = y /\ y # None
        BY <1>7, <2>2, <3>2
      <4>2. y \in SqSlots
        BY <1>2, <4>1 DEF Typed, RobEntry
      <4>3. s.SQ[y] # Empty /\ s.SQ[y].instr = j /\ s.SQ[y].operand = x
        BY <1>2, <4>1 DEF StoresPlaced
      <4>4. t.SQ[y] = s.SQ[y]
        BY <1>3, <1>5, <4>2, <4>3
      <4>5. QED
        BY <4>1, <4>3, <4>4
    <3>3. QED
      BY <3>1, <3>2
  <2>3. QED
    BY <2>1, <2>2 DEF StoresPlaced
<1>16. \A x \in SqSlots : s.SQ[x] # Empty => s.SQ[x].instr <= i
  <2>1. 1 \in 1 .. Len(s.STA)
    BY <1>8
  <2>2. QED
    BY <1>2, <1>8, <2>1 DEF StaSorted
<1>17. Ring(t)
  <2>1. \A x \in SqSlots : Age(t, x) = IF x = q THEN 0 ELSE Age(s, x) + 1
    <3>1. SqSlots = 0 .. SQ_SIZE - 1
      BY DEF SqSlots
    <3>2. t.SQ_tail = (IF q = SQ_SIZE - 1 THEN 0 ELSE q + 1) /\ s.SQ_tail = q
      BY <1>6 DEF q
    <3>3. QED
      BY <1>3, <3>1, <3>2 DEF Age
  <2>2. \A x \in SqSlots : Age(s, x) \in Nat
    BY <1>3, AgeType DEF q
  <2>3. ASSUME NEW x \in SqSlots, NEW r \in SqSlots, t.SQ[x] # Empty, Age(t, r) <= Age(t, x)
        PROVE  t.SQ[r] # Empty /\ t.SQ[x].instr <= t.SQ[r].instr
    <3>1. CASE r = q
      <4>1. CASE x = q
        BY <1>1, <1>4, <1>5, <3>1, <4>1
      <4>2. CASE x # q
        <5>1. s.SQ[x] # Empty /\ t.SQ[x] = s.SQ[x]
          BY <1>5, <2>3, <4>2
        <5>2. QED
          BY <1>4, <1>5, <1>16, <3>1, <5>1
      <4>3. QED
        BY <4>1, <4>2
    <3>2. CASE r # q
      <4>1. x # q
        BY <2>1, <2>2, <2>3, <3>2
      <4>2. s.SQ[x] # Empty /\ t.SQ[x] = s.SQ[x] /\ t.SQ[r] = s.SQ[r]
        BY <1>5, <2>3, <3>2, <4>1
      <4>3. Age(s, r) <= Age(s, x)
        BY <2>1, <2>2, <2>3, <3>2, <4>1
      <4>4. QED
        BY <1>2, <4>2, <4>3 DEF Ring
    <3>3. QED
      BY <3>1, <3>2
  <2>4. QED
    BY <2>3 DEF Ring
<1>18. StaSorted(t)
  <2>1. ASSUME NEW m \in 1 .. Len(t.STA)
        PROVE  /\ m + 1 \in 1 .. Len(s.STA) /\ m + 1 \in Nat /\ 1 \in 1 .. Len(s.STA)
               /\ t.STA[m] = s.STA[m + 1]
    BY <1>8
  <2>2. \A m \in 1 .. Len(t.STA) : t.STA[m] < tail
    BY <1>2, <2>1 DEF StaSorted
  <2>3. ASSUME NEW m \in 1 .. Len(t.STA), NEW n \in 1 .. Len(t.STA), m <= n
        PROVE  t.STA[m] <= t.STA[n]
    BY <1>2, <2>1, <2>3 DEF StaSorted
  <2>4. ASSUME NEW x \in SqSlots, t.SQ[x] # Empty, NEW m \in 1 .. Len(t.STA)
        PROVE  t.SQ[x].instr <= t.STA[m]
    <3>1. CASE x = q
      <4>1. s.STA[1] <= s.STA[m + 1]
        BY <1>2, <2>1 DEF StaSorted
      <4>2. QED
        BY <1>4, <1>5, <1>8, <2>1, <3>1, <4>1
    <3>2. CASE x # q
      BY <1>2, <1>5, <2>1, <2>4, <3>2 DEF StaSorted
    <3>3. QED
      BY <3>1, <3>2
  <2>5. QED
    BY <2>2, <2>3, <2>4 DEF StaSorted
<1>19. ASSUME NEW j \in Instrs
       PROVE  /\ LoadsOut(t, j) = LoadsOut(s, j) /\ LoadsIn(t, j) = LoadsIn(s, j)
              /\ j # i => StoresOut(t, j) = StoresOut(s, j) /\ StoresIn(t, j) = StoresIn(s, j)
              /\ StoresOut(t, i) = StoresOut(s, i) \ {k} /\ k \in StoresOut(s, i)
              /\ StoresIn(t, i) = StoresIn(s, i) \cup {q} /\ q \notin StoresIn(s, i)
  <2>1. LoadsOut(t, j) = LoadsOut(s, j) /\ LoadsIn(t, j) = LoadsIn(s, j)
    BY <1>6, <1>7 DEF LoadsOut, LoadsIn
  <2>2. j # i => StoresOut(t, j) = StoresOut(s, j)
    BY <1>7 DEF StoresOut
  <2>3. StoresOut(t, i) = StoresOut(s, i) \ {k} /\ k \in StoresOut(s, i)
    BY <1>1, <1>3, <1>7 DEF StoresOut
  <2>4. j # i => StoresIn(t, j) = StoresIn(s, j)
    BY <1>3, <1>4, <1>5 DEF StoresIn
  <2>5. StoresIn(t, i) = StoresIn(s, i) \cup {q} /\ q \notin StoresIn(s, i)
    BY <1>3, <1>4, <1>5 DEF StoresIn
  <2>6. QED
    BY <2>1, <2>2, <2>3, <2>4, <2>5
<1>20. Counted(t)
  <2>1. ASSUME NEW j \in Instrs
        PROVE  t.ROB[j].num_mem_ops =
                 Cardinality(LoadsOut(t, j)) + Cardinality(StoresOut(t, j))
                 + Cardinality(LoadsIn(t, j)) + Cardinality(StoresIn(t, j))
    <3>1. s.ROB[j].num_mem_ops =
            Cardinality(LoadsOut(s, j)) + Cardinality(StoresOut(s, j))
            + Cardinality(LoadsIn(s, j)) + Cardinality(StoresIn(s, j))
      BY <1>2 DEF Counted
    <3>2. CASE j # i
      BY <1>7, <1>19, <3>1, <3>2
    <3>3. CASE j = i
      <4>1. /\ IsFiniteSet(StoresOut(s, i)) /\ Cardinality(StoresOut(s, i)) \in Nat
            /\ IsFiniteSet(StoresIn(s, i)) /\ Cardinality(StoresIn(s, i)) \in Nat
            /\ Cardinality(LoadsOut(s, i)) \in Nat /\ Cardinality(LoadsIn(s, i)) \in Nat
        BY <1>1, PartsFinite
      <4>2. Cardinality(StoresOut(t, i)) = Cardinality(StoresOut(s, i)) - 1
        <5> DEFINE S == StoresOut(s, i)
        <5>1. IsFiniteSet(S) /\ k \in S /\ StoresOut(t, i) = S \ {k}
          BY <1>19, <4>1
        <5> HIDE DEF S
        <5>2. Cardinality(S \ {k}) = Cardinality(S) - 1
          BY <5>1, FS_RemoveElement
        <5>3. QED
          BY <5>1, <5>2 DEF S
      <4>3. Cardinality(StoresIn(t, i)) = Cardinality(StoresIn(s, i)) + 1
        <5> DEFINE S == StoresIn(s, i)
        <5>1. IsFiniteSet(S) /\ q \notin S /\ StoresIn(t, i) = S \cup {q}
          BY <1>19, <4>1
        <5> HIDE DEF S
        <5>2. Cardinality(S \cup {q}) = Cardinality(S) + 1
          BY <5>1, FS_AddElement
        <5>3. QED
          BY <5>1, <5>2 DEF S
      <4>4. QED
        BY <1>7, <1>19, <3>1, <3>3, <4>1, <4>2, <4>3
    <3>4. QED
      BY <3>2, <3>3
  <2>2. QED
    BY <2>1 DEF Counted
<1>21. DoneFirst(t)
  BY <1>2, <1>7 DEF DoneFirst
<1>22. DoneCounted(t)
  <2>1. \A j \in Window : j \in Instrs
    BY WindowType
  <2>2. \A j \in Window : /\ t.ROB[j].executed = s.ROB[j].executed
                         /\ t.ROB[j].num_mem_ops = s.ROB[j].num_mem_ops
    BY <1>7, <2>1
  <2>3. ToComplete(t) = ToComplete(s)
    BY <2>2 DEF ToComplete
  <2>4. QED
    BY <1>2, <1>6, <2>3 DEF DoneCounted
<1>23. LoadsAsked(t)
  BY <1>2, <1>6 DEF LoadsAsked, Waits, Listed
<1>24. StoresAsked(t)
  <2>1. \A x \in SqSlots : Executes(t, x) <=> x = q \/ Executes(s, x)
    BY <1>4, <1>5 DEF Executes
  <2>2. ~Executes(s, q)
    BY <1>3 DEF Executes
  <2>3. Listed(t, "RTS1") = Listed(s, "RTS1")
    BY <1>6 DEF Listed
  <2>4. /\ s.ready["RTS0"] \in Seq(Nat) /\ IsInjective(s.ready["RTS0"])
        /\ q \notin Range(s.ready["RTS0"])
    BY <1>2, <1>3, <2>2 DEF StoresAsked, Listed, Typed, Lists
  <2>5. IsInjective(t.ready["RTS0"]) /\ Listed(t, "RTS0") = Listed(s, "RTS0") \cup {q}
    BY <1>3, <1>6, <2>4, ListAppend DEF Listed
  <2>6. QED
    BY <1>2, <1>3, <1>6, <2>1, <2>2, <2>3, <2>5 DEF StoresAsked
<1>25. GotRight(t)
  BY <1>2, <1>6 DEF GotRight
<1>26. QED
  BY <1>9, <1>10, <1>11, <1>12, <1>14, <1>15, <1>17, <1>18, <1>20, <1>21, <1>22, <1>23,
     <1>24, <1>25 DEF Queued, Settled

LEMMA AddStoreKeeps ==
  ASSUME WindowOK, CachesTyped, NEW s, Queued(s), NEW i \in Window, NEW k
  PROVE  Queued(AddStore(s, i, k)) /\ SameProgress(s, AddStore(s, i, k))
<1>1. CASE k \in DOMAIN stores(i) /\ StoreFits(s, i, k)
  <2> DEFINE t == add_store_queue(s, i, k)
  <2>1. AddStore(s, i, k) = t /\ Typed(s) /\ Ring(s) /\ i \in Instrs
    BY <1>1, WindowType DEF AddStore, Queued, Settled
  <2>2. AddedStore(s, t, i, k, s.SQ_tail)
    BY <1>1, <2>1, AddStoreEffect
  <2>3. /\ s.ROB[i].sq_index[k] = None /\ s.SQ[s.SQ_tail] = Empty
        /\ s.STA # <<>> /\ Head(s.STA) = i
    BY <1>1, <2>1, TailIsFree DEF StoreFits
  <2> HIDE DEF t
  <2>4. Queued(t)
    BY <1>1, <2>2, <2>3, AddedStoreKeeps
  <2>5. SameProgress(s, t)
    BY <2>2 DEF SameProgress, AddedStore
  <2>6. QED
    BY <2>1, <2>4, <2>5
<1>2. CASE ~(k \in DOMAIN stores(i) /\ StoreFits(s, i, k))
  BY <1>2 DEF AddStore, SameProgress
<1>3. QED
  BY <1>1, <1>2

(***************************************************************************)
(* From a state passed on to the variables.                                *)
(***************************************************************************)
Becomes(t) ==
  /\ ROB' = t.ROB /\ LQ' = t.LQ /\ SQ' = t.SQ /\ SQ_tail' = t.SQ_tail /\ STA' = t.STA
  /\ ready' = t.ready /\ inflight_executions' = t.done /\ got' = t.got

LEMMA StateFields ==
  /\ State.ROB = ROB /\ State.LQ = LQ /\ State.SQ = SQ /\ State.SQ_tail = SQ_tail
  /\ State.STA = STA /\ State.ready = ready /\ State.done = inflight_executions
  /\ State.got = got /\ DOMAIN State = Fields
BY DEF State, Fields

LEMMA SettledNext ==
  ASSUME NEW t, Settled(t), Becomes(t), UNCHANGED <<program, head, tail>>
  PROVE  Settled(State)'
<1>1. /\ (State.ROB)' = t.ROB /\ (State.LQ)' = t.LQ /\ (State.SQ)' = t.SQ
      /\ (State.SQ_tail)' = t.SQ_tail /\ (State.STA)' = t.STA /\ (State.ready)' = t.ready
      /\ (State.done)' = t.done /\ (State.got)' = t.got /\ (DOMAIN State)' = Fields
  BY StateFields DEF Becomes, State, Fields
<1>2. /\ program' = program /\ head' = head /\ tail' = tail
  OBVIOUS
<1>3. /\ Typed(t) /\ FreshOutside(t) /\ LoadsPlaced(t) /\ ProducerLast(t) /\ ProducerWakes(t)
      /\ StoresPlaced(t) /\ Ring(t) /\ StaSorted(t) /\ Counted(t) /\ DoneFirst(t)
      /\ DoneCounted(t) /\ GotRight(t)
  BY DEF Settled
<1>4. Typed(State)'
  BY <1>1, <1>2, <1>3 DEF Typed, RobEntry, loads, stores, Instrs
<1>5. FreshOutside(State)'
  BY <1>1, <1>2, <1>3 DEF FreshOutside, Fresh, loads, stores, Instrs, Window
<1>6. LoadsPlaced(State)'
  BY <1>1, <1>2, <1>3 DEF LoadsPlaced, loads, Window
<1>7. ProducerLast(State)'
  BY <1>1, <1>2, <1>3 DEF ProducerLast, LastWriter, Address, Writes, loads, stores
<1>8. ProducerWakes(State)'
  BY <1>1, <1>2, <1>3 DEF ProducerWakes, Forwards, Used, Address, loads, stores
<1>9. StoresPlaced(State)'
  BY <1>1, <1>2, <1>3 DEF StoresPlaced, stores, Instrs, Window
<1>10. Ring(State)'
  BY <1>1, <1>2, <1>3 DEF Ring, Age
<1>11. StaSorted(State)'
  BY <1>1, <1>2, <1>3 DEF StaSorted
<1>12. Counted(State)'
  BY <1>1, <1>2, <1>3 DEF Counted, LoadsOut, StoresOut, LoadsIn, StoresIn, loads, stores, Instrs
<1>13. DoneFirst(State)'
  BY <1>1, <1>2, <1>3 DEF DoneFirst, is_memory, loads, stores, Instrs
<1>14. DoneCounted(State)'
  BY <1>1, <1>2, <1>3 DEF DoneCounted, ToComplete, is_memory, loads, stores, Window
<1>15. GotRight(State)'
  BY <1>1, <1>2, <1>3 DEF GotRight, Stored, Writes, loads, stores
<1>16. QED
  BY <1>4, <1>5, <1>6, <1>7, <1>8, <1>9, <1>10, <1>11, <1>12, <1>13, <1>14, <1>15 DEF Settled

LEMMA QueuedNext ==
  ASSUME NEW t, Queued(t), Becomes(t), UNCHANGED <<program, head, tail, DTLB, L1D>>
  PROVE  Queued(State)'
<1>1. /\ (State.LQ)' = t.LQ /\ (State.SQ)' = t.SQ /\ (State.ready)' = t.ready
  BY StateFields DEF Becomes, State
<1>2. Settled(State)'
  BY SettledNext DEF Queued
<1>3. DTLB' = DTLB /\ L1D' = L1D /\ LoadsAsked(t) /\ StoresAsked(t)
  BY DEF Queued
<1>4. LoadsAsked(State)'
  BY <1>1, <1>3 DEF LoadsAsked, Waits, Listed
<1>5. StoresAsked(State)'
  BY <1>1, <1>3 DEF StoresAsked, Executes, Listed
<1>6. QED
  BY <1>2, <1>4, <1>5 DEF Queued

LEMMA AllAddedKeep ==
  ASSUME WindowOK, CachesTyped, NEW s, Queued(s), NEW i \in Window
  PROVE  /\ Queued(LoadsAdded(s, i)) /\ SameProgress(s, LoadsAdded(s, i))
         /\ Queued(StoresAdded(s, i)) /\ SameProgress(s, StoresAdded(s, i))
<1>1. ASSUME NEW u, NEW k, Queued(u), SameProgress(s, u)
      PROVE  /\ Queued(AddLoad(u, i, k)) /\ SameProgress(s, AddLoad(u, i, k))
             /\ Queued(AddStore(u, i, k)) /\ SameProgress(s, AddStore(u, i, k))
  BY <1>1, AddLoadKeeps, AddStoreKeeps DEF SameProgress
<1>2. SameProgress(s, s)
  BY DEF SameProgress
<1>3. Queued(LoadsAdded(s, i)) /\ SameProgress(s, LoadsAdded(s, i))
  <2> DEFINE a == AddLoad(s, i, 1)
             b == AddLoad(a, i, 2)
             c == AddLoad(b, i, 3)
             d == AddLoad(c, i, 4)
  <2>1. Queued(a) /\ SameProgress(s, a)
    BY <1>1, <1>2
  <2>2. Queued(b) /\ SameProgress(s, b)
    BY <1>1, <2>1
  <2>3. Queued(c) /\ SameProgress(s, c)
    BY <1>1, <2>2
  <2>4. Queued(d) /\ SameProgress(s, d)
    BY <1>1, <2>3
  <2>5. QED
    BY <2>4 DEF LoadsAdded
<1>4. Queued(StoresAdded(s, i)) /\ SameProgress(s, StoresAdded(s, i))
  <2> DEFINE a == AddStore(s, i, 1)
             b == AddStore(a, i, 2)
             c == AddStore(b, i, 3)
             d == AddStore(c, i, 4)
  <2>1. Queued(a) /\ SameProgress(s, a)
    BY <1>1, <1>2
  <2>2. Queued(b) /\ SameProgress(s, b)
    BY <1>1, <2>1
  <2>3. Queued(c) /\ SameProgress(s, c)
    BY <1>1, <2>2
  <2>4. Queued(d) /\ SameProgress(s, d)
    BY <1>1, <2>3
  <2>5. QED
    BY <2>4 DEF StoresAdded
<1>5. QED
  BY <1>3, <1>4

(* Only what an instruction has reached changes: how far it is scheduled   *)
(* and executed, what it waits for and how many are to complete.           *)
SameOperands(s, t) ==
  /\ DOMAIN t = Fields /\ DOMAIN t.ROB = Instrs
  /\ SameQueues(s, t) /\ t.LQ = s.LQ /\ t.ready = s.ready /\ t.got = s.got
  /\ \A j \in Instrs :
       /\ t.ROB[j] \in RobEntry(j)
       /\ t.ROB[j].lq_index = s.ROB[j].lq_index
       /\ t.ROB[j].sq_index = s.ROB[j].sq_index
       /\ t.ROB[j].num_mem_ops = s.ROB[j].num_mem_ops
       /\ t.ROB[j].memory_instrs_depend_on_me = s.ROB[j].memory_instrs_depend_on_me

LEMMA ProgressKeeps ==
  ASSUME WindowOK, NEW s, Queued(s), NEW t, SameOperands(s, t), t.done \in Int,
         FreshOutside(t), DoneFirst(t), DoneCounted(t)
  PROVE  Queued(t)
<1>1. \A j \in Window : j \in Instrs
  BY WindowType
<1>2. /\ Typed(s) /\ LoadsPlaced(s) /\ ProducerLast(s) /\ ProducerWakes(s)
      /\ StoresPlaced(s) /\ Ring(s) /\ StaSorted(s) /\ Counted(s)
      /\ LoadsAsked(s) /\ StoresAsked(s) /\ GotRight(s)
  BY DEF Queued, Settled
<1>3. /\ DOMAIN t = Fields /\ DOMAIN t.ROB = Instrs
      /\ SameQueues(s, t) /\ t.LQ = s.LQ /\ t.ready = s.ready /\ t.got = s.got
  BY DEF SameOperands
<1>4. \A j \in Instrs :
        /\ t.ROB[j] \in RobEntry(j)
        /\ t.ROB[j].lq_index = s.ROB[j].lq_index
        /\ t.ROB[j].sq_index = s.ROB[j].sq_index
        /\ t.ROB[j].num_mem_ops = s.ROB[j].num_mem_ops
        /\ t.ROB[j].memory_instrs_depend_on_me = s.ROB[j].memory_instrs_depend_on_me
  BY DEF SameOperands
<1>5. Typed(t)
  BY <1>2, <1>3, <1>4 DEF Typed, SameQueues
<1>6. LoadsPlaced(t)
  BY <1>1, <1>2, <1>3, <1>4 DEF LoadsPlaced
<1>7. ProducerLast(t)
  BY <1>2, <1>3 DEF ProducerLast
<1>8. /\ StoresPlaced(t) /\ Ring(t) /\ StaSorted(t) /\ StoresAsked(t)
      /\ \A j \in Instrs : StoresOut(t, j) = StoresOut(s, j) /\ StoresIn(t, j) = StoresIn(s, j)
      /\ \A x, a : Forwards(t, x, a) <=> Forwards(s, x, a)
  BY <1>2, <1>3, <1>4, StoresKept
<1>9. ProducerWakes(t)
  <2>1. ASSUME NEW x \in LqSlots, t.LQ[x] # Empty, t.LQ[x].producer # 0
        PROVE  /\ t.LQ[x].instr \in t.ROB[t.LQ[x].producer].memory_instrs_depend_on_me
               /\ ~Forwards(t, t.LQ[x].producer, Address(t.LQ[x]))
    <3>1. s.LQ[x].producer \in Instrs /\ t.LQ[x] = s.LQ[x]
      BY <1>2, <1>3, <2>1, ProducerInWindow
    <3>2. QED
      BY <1>2, <1>3, <1>4, <1>8, <2>1, <3>1 DEF ProducerWakes
  <2>2. QED
    BY <2>1 DEF ProducerWakes
<1>10. Counted(t)
  <2>1. \A j \in Instrs : LoadsOut(t, j) = LoadsOut(s, j) /\ LoadsIn(t, j) = LoadsIn(s, j)
    BY <1>3, <1>4 DEF LoadsOut, LoadsIn
  <2>2. QED
    BY <1>2, <1>4, <1>8, <2>1 DEF Counted
<1>11. LoadsAsked(t)
  BY <1>2, <1>3 DEF LoadsAsked, Waits, Listed
<1>12. GotRight(t)
  BY <1>2, <1>3 DEF GotRight
<1>13. QED
  BY <1>5, <1>6, <1>7, <1>8, <1>9, <1>10, <1>11, <1>12 DEF Queued, Settled

(* One entry of the ROB is scheduled or executed further, what it waits    *)
(* for is found, or what others wait for is taken away.                    *)
Further(s, t, i, e) ==
  /\ DOMAIN t = Fields /\ DOMAIN t.ROB = Instrs
  /\ SameQueues(s, t) /\ t.LQ = s.LQ /\ t.ready = s.ready /\ t.got = s.got
  /\ e \in RobEntry(i)
  /\ e.lq_index = s.ROB[i].lq_index /\ e.sq_index = s.ROB[i].sq_index
  /\ e.num_mem_ops = s.ROB[i].num_mem_ops
  /\ e.memory_instrs_depend_on_me = s.ROB[i].memory_instrs_depend_on_me
  /\ \A j \in Instrs : t.ROB[j] = IF j = i THEN e ELSE s.ROB[j]

LEMMA FurtherKeeps ==
  ASSUME WindowOK, NEW s, Queued(s), NEW t, NEW i \in Window, NEW e, Further(s, t, i, e),
         e.executed # s.ROB[i].executed =>
           e.executed = "INFLIGHT" /\ s.ROB[i].executed # "COMPLETED",
         t.done = s.done + (IF ~is_memory(i) /\ e.executed # s.ROB[i].executed THEN 1 ELSE 0)
  PROVE  Queued(t)
<1>1. i \in Instrs /\ IsFiniteSet(Window) /\ \A j \in Window : j \in Instrs
  BY WindowType
<1>2. /\ Typed(s) /\ FreshOutside(s) /\ DoneFirst(s) /\ DoneCounted(s)
  BY DEF Queued, Settled
<1>3. \A j \in Instrs : t.ROB[j] = IF j = i THEN e ELSE s.ROB[j]
  BY DEF Further
<1>4. SameOperands(s, t)
  BY <1>2 DEF Typed, Further, SameOperands
<1>5. FreshOutside(t)
  BY <1>2, <1>3 DEF FreshOutside
<1>6. e.num_mem_ops = s.ROB[i].num_mem_ops
  BY DEF Further
<1>7. DoneFirst(t)
  BY <1>2, <1>3, <1>6 DEF DoneFirst
<1>8. \A j \in Window : j # i => t.ROB[j] = s.ROB[j]
  BY <1>1, <1>3
<1>9. CASE is_memory(i) \/ e.executed = s.ROB[i].executed
  <2>1. ToComplete(t) = ToComplete(s)
    BY <1>1, <1>3, <1>6, <1>8, <1>9 DEF ToComplete
  <2>2. t.done = s.done
    BY <1>2, <1>9 DEF Typed
  <2>3. QED
    BY <1>2, <1>4, <1>5, <1>7, <2>1, <2>2, ProgressKeeps DEF Typed, DoneCounted
<1>10. CASE ~is_memory(i) /\ e.executed # s.ROB[i].executed
  <2> DEFINE S == ToComplete(s)
  <2>1. i \notin S /\ ToComplete(t) = S \cup {i}
    BY <1>1, <1>3, <1>8, <1>10 DEF ToComplete
  <2>2. S \in SUBSET Window
    BY DEF ToComplete
  <2>3. IsFiniteSet(S)
    BY <1>1, <2>2, FS_Subset
  <2> HIDE DEF S
  <2>4. Cardinality(S \cup {i}) = Cardinality(S) + 1
    BY <2>1, <2>3, FS_AddElement
  <2>5. DoneCounted(t)
    BY <1>2, <1>10, <2>1, <2>4 DEF DoneCounted, S
  <2>6. t.done \in Int
    BY <1>2, <1>10 DEF Typed
  <2>7. QED
    BY <1>4, <1>5, <1>7, <2>5, <2>6, ProgressKeeps
<1>11. QED
  BY <1>9, <1>10

(* One whose operands are all in the queues executes.                      *)
Started(s, i) == [s EXCEPT !.ROB = [@ EXCEPT ![i].scheduled = "COMPLETED",
                                             ![i].executed = "INFLIGHT"]]

LEMMA StartedKeeps ==
  ASSUME WindowOK, NEW s, Queued(s), NEW i \in Window, is_memory(i),
         s.ROB[i].executed # "COMPLETED"
  PROVE  Queued(Started(s, i))
<1> DEFINE t == Started(s, i)
           e == [s.ROB[i] EXCEPT !.scheduled = "COMPLETED", !.executed = "INFLIGHT"]
<1>1. i \in Instrs
  BY WindowType
<1>2. Typed(s)
  BY DEF Queued, Settled
<1>3. /\ DOMAIN t = Fields /\ DOMAIN t.ROB = Instrs
      /\ t.LQ = s.LQ /\ SameQueues(s, t) /\ t.ready = s.ready /\ t.done = s.done /\ t.got = s.got
      /\ \A j \in Instrs : t.ROB[j] = IF j = i THEN e ELSE s.ROB[j]
  <2>1. s.ROB[i] \in RobEntry(i)
    BY <1>1, <1>2 DEF Typed
  <2>2. t.ROB = [s.ROB EXCEPT ![i].scheduled = "COMPLETED", ![i].executed = "INFLIGHT"]
    BY <1>2 DEF Started, Typed, Fields
  <2>3. QED
    BY <1>1, <1>2, <2>1, <2>2 DEF Started, Typed, Fields, RobEntry, SameQueues
<1>4. /\ e \in RobEntry(i) /\ e.executed = "INFLIGHT"
      /\ e.lq_index = s.ROB[i].lq_index
      /\ e.sq_index = s.ROB[i].sq_index /\ e.num_mem_ops = s.ROB[i].num_mem_ops
      /\ e.memory_instrs_depend_on_me = s.ROB[i].memory_instrs_depend_on_me
  BY <1>1, <1>2 DEF Typed, RobEntry, Progress
<1> HIDE DEF t, e
<1>5. Further(s, t, i, e)
  BY <1>3, <1>4 DEF Further
<1>6. s.done \in Int
  BY <1>2 DEF Typed
<1>7. QED
  BY <1>3, <1>4, <1>5, <1>6, FurtherKeeps DEF t

LEMMA SchedulingKeeps ==
  ASSUME LsqInv, NEW i \in Instrs, do_memory_scheduling(i)
  PROVE  LsqInv'
<1>1. WindowOK /\ CachesTyped /\ Queued(State) /\ i \in Window
  BY DEF LsqInv, do_memory_scheduling
<1>2. is_memory(i) /\ \/ \E k \in DOMAIN loads(i)  : ROB[i].lq_index[k] = None
                      \/ \E k \in DOMAIN stores(i) : ROB[i].sq_index[k] = None
  BY DEF do_memory_scheduling, Addable, LoadFits, StoreFits, State
<1>3. ROB[i].executed # "COMPLETED"
  <2>1. LoadsOut(State, i) # {} \/ StoresOut(State, i) # {}
    BY <1>2 DEF LoadsOut, StoresOut, State
  <2> DEFINE A == LoadsOut(State, i)
             B == StoresOut(State, i)
  <2>2. /\ IsFiniteSet(A) /\ IsFiniteSet(B)
        /\ Cardinality(A) \in Nat /\ Cardinality(B) \in Nat
        /\ Cardinality(LoadsIn(State, i)) \in Nat /\ Cardinality(StoresIn(State, i)) \in Nat
    BY <1>1, PartsFinite
  <2>3. ROB[i].num_mem_ops = Cardinality(A) + Cardinality(B)
            + Cardinality(LoadsIn(State, i)) + Cardinality(StoresIn(State, i))
    BY <1>1, StateFields DEF Queued, Settled, Counted
  <2>4. A # {} \/ B # {}
    BY <2>1
  <2> HIDE DEF A, B
  <2>5. Cardinality(A) # 0 \/ Cardinality(B) # 0
    BY <2>2, <2>4, FS_EmptySet
  <2>6. ROB[i].num_mem_ops # 0
    BY <2>2, <2>3, <2>5
  <2>7. QED
    BY <1>1, <1>2, <2>6, StateFields DEF Queued, Settled, DoneFirst
<1>4. PICK s \in {check_and_add_lsq(i)} :
       /\ ROB' = IF AllAdded(s.ROB[i])
                   THEN [s.ROB EXCEPT ![i].scheduled = "COMPLETED", ![i].executed = "INFLIGHT"]
                   ELSE s.ROB
       /\ LQ' = s.LQ /\ SQ' = s.SQ /\ SQ_tail' = s.SQ_tail /\ STA' = s.STA
       /\ ready' = s.ready /\ inflight_executions' = s.done /\ got' = s.got
  BY DEF do_memory_scheduling
<1>5. Queued(s) /\ s.ROB[i].executed # "COMPLETED"
  <2>1. Queued(LoadsAdded(State, i)) /\ SameProgress(State, LoadsAdded(State, i))
    BY <1>1, AllAddedKeep
  <2>2. Queued(s) /\ SameProgress(LoadsAdded(State, i), s)
    BY <1>1, <1>4, <2>1, AllAddedKeep DEF check_and_add_lsq
  <2>3. QED
    BY <1>3, <2>1, <2>2, StateFields DEF SameProgress
<1>6. UNCHANGED <<program, head, tail, DTLB, L1D, WQ>>
  BY DEF do_memory_scheduling
<1>7. Queued(State)'
  <2>1. CASE ~AllAdded(s.ROB[i])
    BY <1>4, <1>5, <1>6, <2>1, QueuedNext DEF Becomes
  <2>2. CASE AllAdded(s.ROB[i])
    <3> DEFINE t == Started(s, i)
    <3>1. Queued(t)
      BY <1>1, <1>2, <1>5, StartedKeeps
    <3>2. DOMAIN s = Fields
      BY <1>5 DEF Queued, Settled, Typed
    <3>3. Becomes(t)
      BY <1>4, <2>2, <3>2 DEF Becomes, Started, Fields
    <3> HIDE DEF t
    <3>4. QED
      BY <1>6, <3>1, <3>3, QueuedNext
  <2>3. QED
    BY <2>1, <2>2
<1>8. QED
  BY <1>6, <1>7 DEF LsqInv, WindowOK, CachesTyped

(***************************************************************************)
(* The steps of the ROB.                                                   *)
(***************************************************************************)
LEMMA InvNext ==
  ASSUME LsqInv, NEW t, Queued(t), Becomes(t),
         UNCHANGED <<program, head, tail, DTLB, L1D, WQ>>
  PROVE  LsqInv'
<1>1. Queued(State)'
  BY QueuedNext
<1>2. QED
  BY <1>1 DEF LsqInv, WindowOK, CachesTyped

LEMMA ScheduleKeeps ==
  ASSUME LsqInv, NEW i \in Instrs, Schedule(i)
  PROVE  LsqInv'
<1> DEFINE e == [ROB[i] EXCEPT !.producers = reg_dependency(i),
                   !.scheduled = IF is_memory(i) THEN "INFLIGHT" ELSE "COMPLETED"]
           t == [State EXCEPT !.ROB = ROB']
<1>1. /\ WindowOK /\ Queued(State) /\ i \in Window
      /\ DOMAIN ROB = Instrs /\ ROB[i] \in RobEntry(i) /\ inflight_executions \in Int
  BY StateFields DEF LsqInv, Queued, Settled, Typed, Schedule
<1>2. reg_dependency(i) \subseteq Int
  <2>1. i \in Nat \ {0} /\ head \in Nat \ {0}
    BY <1>1, WindowType
  <2>2. ASSUME NEW r
        PROVE  Youngest({j \in head .. i - 1 : ROB[j].executed # "COMPLETED"
                                               /\ r \in program[j].destination_registers}) \in Int
    <3> DEFINE S == {j \in head .. i - 1 : ROB[j].executed # "COMPLETED"
                                           /\ r \in program[j].destination_registers}
    <3>1. S \subseteq 1 .. i /\ S \subseteq Int
      BY <2>1
    <3> HIDE DEF S
    <3>2. Youngest(S) \in S \cup {0}
      BY <2>1, <3>1, YoungestType
    <3> DEFINE y == Youngest(S)
    <3> HIDE DEF y
    <3>3. y \in Int
      <4>1. y \in S \cup {0}
        BY <3>2 DEF y
      <4>2. QED
        BY <3>1, <4>1
    <3>4. QED
      BY <3>3 DEF S, y
  <2>3. QED
    BY <2>2 DEF reg_dependency
<1>3. /\ e \in RobEntry(i) /\ e.executed = ROB[i].executed
      /\ e.lq_index = ROB[i].lq_index
      /\ e.sq_index = ROB[i].sq_index /\ e.num_mem_ops = ROB[i].num_mem_ops
      /\ e.memory_instrs_depend_on_me = ROB[i].memory_instrs_depend_on_me
  BY <1>1, <1>2 DEF RobEntry, Progress
<1>4. /\ DOMAIN ROB' = Instrs /\ \A j \in Instrs : ROB'[j] = IF j = i THEN e ELSE ROB[j]
      /\ UNCHANGED <<program, head, tail, queues, DTLB, L1D, WQ, inflight_executions, got>>
  BY <1>1 DEF Schedule
<1>5. /\ DOMAIN t = Fields /\ t.ROB = ROB' /\ SameQueues(State, t) /\ t.LQ = LQ /\ t.SQ = SQ
      /\ t.SQ_tail = SQ_tail /\ t.STA = STA
      /\ t.ready = ready /\ t.got = got /\ t.done = inflight_executions
  BY StateFields DEF State, Fields, SameQueues
<1> HIDE DEF e, t
<1>6. Further(State, t, i, e)
  BY <1>3, <1>4, <1>5, StateFields DEF Further
<1>7. Queued(t)
  <2>1. State.ROB[i].executed = e.executed
        /\ t.done = State.done + (IF ~is_memory(i) /\ e.executed # e.executed THEN 1 ELSE 0)
    BY <1>1, <1>3, <1>5, StateFields
  <2>2. QED
    BY <1>1, <1>6, <2>1, FurtherKeeps
<1>8. Becomes(t)
  BY <1>4, <1>5 DEF Becomes, queues
<1>9. QED
  BY <1>4, <1>7, <1>8, InvNext

LEMMA ExecutionKeeps ==
  ASSUME LsqInv, NEW i \in Instrs, do_execution(i)
  PROVE  LsqInv'
<1> DEFINE e == [ROB[i] EXCEPT !.executed = "INFLIGHT"]
           t == [State EXCEPT !.ROB = ROB', !.done = inflight_executions + 1]
<1>1. /\ WindowOK /\ Queued(State) /\ i \in Window
      /\ ~is_memory(i) /\ ROB[i].executed = "no"
      /\ DOMAIN ROB = Instrs /\ ROB[i] \in RobEntry(i) /\ inflight_executions \in Int
  BY StateFields DEF LsqInv, Queued, Settled, Typed, do_execution
<1>2. /\ e \in RobEntry(i) /\ e.executed = "INFLIGHT"
      /\ e.lq_index = ROB[i].lq_index
      /\ e.sq_index = ROB[i].sq_index /\ e.num_mem_ops = ROB[i].num_mem_ops
      /\ e.memory_instrs_depend_on_me = ROB[i].memory_instrs_depend_on_me
  BY <1>1 DEF RobEntry, Progress
<1>3. /\ DOMAIN ROB' = Instrs /\ \A j \in Instrs : ROB'[j] = IF j = i THEN e ELSE ROB[j]
      /\ inflight_executions' = inflight_executions + 1
      /\ UNCHANGED <<program, head, tail, queues, DTLB, L1D, WQ, got>>
  BY <1>1 DEF do_execution
<1>4. /\ DOMAIN t = Fields /\ t.ROB = ROB' /\ SameQueues(State, t) /\ t.LQ = LQ /\ t.SQ = SQ
      /\ t.SQ_tail = SQ_tail /\ t.STA = STA
      /\ t.ready = ready /\ t.got = got /\ t.done = inflight_executions + 1
  BY StateFields DEF State, Fields, SameQueues
<1> HIDE DEF e, t
<1>5. Further(State, t, i, e)
  BY <1>2, <1>3, <1>4, StateFields DEF Further
<1>6. Queued(t)
  BY <1>1, <1>2, <1>4, <1>5, FurtherKeeps, StateFields
<1>7. Becomes(t)
  BY <1>3, <1>4 DEF Becomes, queues
<1>8. QED
  BY <1>3, <1>6, <1>7, InvNext

LEMMA CompletionKeeps ==
  ASSUME LsqInv, NEW i \in Instrs, complete_execution(i)
  PROVE  LsqInv'
<1> DEFINE e(j) == [ROB[j] EXCEPT !.producers = @ \ {i},
                                  !.executed  = IF j = i THEN "COMPLETED" ELSE @]
           t == [State EXCEPT !.ROB = ROB', !.done = inflight_executions - 1]
<1>1. /\ WindowOK /\ Queued(State) /\ i \in Window
      /\ ROB[i].executed = "INFLIGHT" /\ (is_memory(i) => ROB[i].num_mem_ops = 0)
      /\ FreshOutside(State) /\ DoneFirst(State) /\ DoneCounted(State)
      /\ inflight_executions \in Int /\ \A j \in Instrs : ROB[j] \in RobEntry(j)
  BY StateFields DEF LsqInv, Queued, Settled, Typed, complete_execution
<1>2. ASSUME NEW j \in Instrs
      PROVE  /\ e(j) \in RobEntry(j) /\ e(j).lq_index = ROB[j].lq_index
             /\ e(j).sq_index = ROB[j].sq_index /\ e(j).num_mem_ops = ROB[j].num_mem_ops
             /\ e(j).memory_instrs_depend_on_me = ROB[j].memory_instrs_depend_on_me
             /\ e(j).executed = IF j = i THEN "COMPLETED" ELSE ROB[j].executed
             /\ j # i /\ ROB[j] = Fresh(j) => e(j) = Fresh(j)
  <2>1. ROB[j] \in RobEntry(j)
    BY <1>1
  <2>2. /\ e(j) \in RobEntry(j) /\ e(j).lq_index = ROB[j].lq_index
        /\ e(j).sq_index = ROB[j].sq_index /\ e(j).num_mem_ops = ROB[j].num_mem_ops
        /\ e(j).memory_instrs_depend_on_me = ROB[j].memory_instrs_depend_on_me
        /\ e(j).executed = IF j = i THEN "COMPLETED" ELSE ROB[j].executed
    <3>1. ROB[j].producers \ {i} \in SUBSET Int
      BY <2>1 DEF RobEntry
    <3>2. QED
      BY <2>1, <3>1 DEF RobEntry, Progress
  <2>3. ASSUME j # i, ROB[j] = Fresh(j) PROVE e(j) = Fresh(j)
    <3> DEFINE P == ROB[j].producers \ {i}
    <3>1. P = ROB[j].producers
      BY <2>3 DEF Fresh
    <3>2. e(j) = [ROB[j] EXCEPT !.producers = P]
      BY <2>1, <2>3 DEF RobEntry
    <3> HIDE DEF P
    <3>3. [ROB[j] EXCEPT !.producers = P] = ROB[j]
      BY <2>1, <3>1 DEF RobEntry
    <3>4. QED
      BY <2>3, <3>2, <3>3
  <2>4. QED
    BY <2>2, <2>3
<1>3. /\ DOMAIN ROB' = Instrs /\ \A j \in Instrs : ROB'[j] = e(j)
      /\ inflight_executions' = inflight_executions - 1
      /\ UNCHANGED <<program, head, tail, queues, DTLB, L1D, WQ, got>>
  BY DEF complete_execution, Completed
<1>4. /\ DOMAIN t = Fields /\ t.ROB = ROB' /\ SameQueues(State, t) /\ t.LQ = LQ /\ t.SQ = SQ
      /\ t.SQ_tail = SQ_tail /\ t.STA = STA
      /\ t.ready = ready /\ t.got = got /\ t.done = inflight_executions - 1
  BY StateFields DEF State, Fields, SameQueues
<1> HIDE DEF e, t
<1>5. SameOperands(State, t)
  BY <1>2, <1>3, <1>4, StateFields DEF SameOperands
<1>6. FreshOutside(t)
  BY <1>1, <1>2, <1>3, <1>4, StateFields DEF FreshOutside
<1>7. DoneFirst(t)
  BY <1>1, <1>2, <1>3, <1>4, StateFields DEF DoneFirst
<1>8. DoneCounted(t)
  <2> DEFINE S == ToComplete(State)
  <2>1. IsFiniteSet(Window) /\ \A j \in Window : j \in Instrs
    BY <1>1, WindowType
  <2>2. i \in S /\ S \in SUBSET Window
    BY <1>1, StateFields DEF ToComplete
  <2>3. \A j \in Window : /\ t.ROB[j].num_mem_ops = ROB[j].num_mem_ops
                          /\ t.ROB[j].executed = IF j = i THEN "COMPLETED" ELSE ROB[j].executed
    BY <1>2, <1>3, <1>4, <2>1
  <2>4. ToComplete(t) = S \ {i}
    BY <2>2, <2>3, StateFields DEF ToComplete
  <2>5. IsFiniteSet(S)
    BY <2>1, <2>2, FS_Subset
  <2>6. Cardinality(S) = inflight_executions
    BY <1>1, StateFields DEF DoneCounted
  <2> HIDE DEF S
  <2>7. Cardinality(S \ {i}) = Cardinality(S) - 1
    BY <2>2, <2>5, FS_RemoveElement
  <2>8. QED
    BY <1>4, <2>4, <2>6, <2>7 DEF DoneCounted
<1>9. t.done \in Int
  BY <1>1, <1>4
<1>10. Queued(t)
  BY <1>1, <1>5, <1>6, <1>7, <1>8, <1>9, ProgressKeeps
<1>11. Becomes(t)
  BY <1>3, <1>4 DEF Becomes, queues
<1>12. QED
  BY <1>3, <1>10, <1>11, InvNext

(***************************************************************************)
(* The steps of the lists: a slot goes from one place that holds it to the *)
(* next.                                                                   *)
(***************************************************************************)
LEMMA ListsNext ==
  ASSUME LsqInv, ready' \in [Lists -> Seq(Nat)],
         UNCHANGED <<program, head, tail, ROB, LQ, SQ, SQ_tail, STA, inflight_executions, got>>
  PROVE  Settled(State)' /\ WindowOK'
<1> DEFINE t == [State EXCEPT !.ready = ready']
<1>1. /\ DOMAIN t = Fields /\ t.ROB = ROB /\ t.LQ = LQ /\ t.SQ = SQ /\ t.SQ_tail = SQ_tail
      /\ t.STA = STA /\ t.ready = ready' /\ t.done = inflight_executions /\ t.got = got
  BY StateFields DEF State, Fields
<1>2. /\ Typed(State) /\ FreshOutside(State) /\ LoadsPlaced(State) /\ ProducerLast(State)
      /\ ProducerWakes(State) /\ StoresPlaced(State) /\ Ring(State) /\ StaSorted(State)
      /\ Counted(State) /\ DoneFirst(State) /\ DoneCounted(State) /\ GotRight(State) /\ WindowOK
  BY DEF LsqInv, Queued, Settled
<1> HIDE DEF t
<1>3. Typed(t)
  BY <1>1, <1>2, StateFields DEF Typed
<1>4. FreshOutside(t)
  BY <1>1, <1>2, StateFields DEF FreshOutside
<1>5. LoadsPlaced(t)
  BY <1>1, <1>2, StateFields DEF LoadsPlaced
<1>6. ProducerLast(t)
  BY <1>1, <1>2, StateFields DEF ProducerLast
<1>7. ProducerWakes(t)
  BY <1>1, <1>2, StateFields DEF ProducerWakes, Forwards
<1>8. StoresPlaced(t)
  BY <1>1, <1>2, StateFields DEF StoresPlaced
<1>9. Ring(t)
  BY <1>1, <1>2, StateFields DEF Ring, Age
<1>10. StaSorted(t)
  BY <1>1, <1>2, StateFields DEF StaSorted
<1>11. Counted(t)
  <2>1. ASSUME NEW j \in Instrs
        PROVE  /\ LoadsOut(t, j) = LoadsOut(State, j) /\ StoresOut(t, j) = StoresOut(State, j)
               /\ LoadsIn(t, j) = LoadsIn(State, j) /\ StoresIn(t, j) = StoresIn(State, j)
    BY <1>1, StateFields DEF LoadsOut, StoresOut, LoadsIn, StoresIn
  <2>2. QED
    BY <1>1, <1>2, <2>1, StateFields DEF Counted
<1>12. DoneFirst(t)
  BY <1>1, <1>2, StateFields DEF DoneFirst
<1>13. DoneCounted(t)
  BY <1>1, <1>2, StateFields DEF DoneCounted, ToComplete
<1>14. GotRight(t)
  BY <1>1, <1>2, StateFields DEF GotRight
<1>15. Settled(t)
  BY <1>3, <1>4, <1>5, <1>6, <1>7, <1>8, <1>9, <1>10, <1>11, <1>12, <1>13, <1>14 DEF Settled
<1>16. Becomes(t)
  BY <1>1 DEF Becomes
<1>17. Settled(State)'
  BY <1>15, <1>16, SettledNext
<1>18. QED
  BY <1>2, <1>17 DEF WindowOK

LEMMA NextFields ==
  (State.LQ)' = LQ' /\ (State.SQ)' = SQ' /\ (State.ready)' = ready'
BY DEF State

LEMMA AskedNow ==
  ASSUME LsqInv
  PROVE  /\ WindowOK /\ CachesTyped /\ Queued(State)
         /\ ready \in [Lists -> Seq(Nat)] /\ \A l \in Lists : ready[l] \in Seq(Nat)
         /\ \A l \in Lists : IsInjective(ready[l])
         /\ Range(ready["RTL0"]) \cup Range(ready["RTL1"]) \cup L1D \subseteq LqSlots
         /\ Range(ready["RTS0"]) \cup Range(ready["RTS1"]) \subseteq SqSlots
         /\ \A q \in LqSlots :
              /\ Waits(State, q) <=>
                   \/ q \in Range(ready["RTL0"]) \/ q \in Range(ready["RTL1"])
                   \/ <<"RTL1", q>> \in DTLB  \/ q \in L1D
              /\ q \in Range(ready["RTL0"]) =>
                   q \notin Range(ready["RTL1"]) \cup L1D /\ <<"RTL1", q>> \notin DTLB
              /\ q \in Range(ready["RTL1"]) => q \notin L1D /\ <<"RTL1", q>> \notin DTLB
              /\ q \in L1D => <<"RTL1", q>> \notin DTLB
         /\ \A q \in SqSlots :
              /\ Executes(State, q) <=>
                   \/ q \in Range(ready["RTS0"]) \/ q \in Range(ready["RTS1"])
                   \/ <<"RTS1", q>> \in DTLB
              /\ q \in Range(ready["RTS0"]) =>
                   q \notin Range(ready["RTS1"]) /\ <<"RTS1", q>> \notin DTLB
              /\ q \in Range(ready["RTS1"]) => <<"RTS1", q>> \notin DTLB
<1>1. /\ WindowOK /\ CachesTyped /\ Queued(State)
      /\ Typed(State) /\ LoadsAsked(State) /\ StoresAsked(State)
  BY DEF LsqInv, Queued, Settled
<1>2. ready \in [Lists -> Seq(Nat)] /\ \A l \in Lists : ready[l] \in Seq(Nat)
  BY <1>1, StateFields DEF Typed
<1>3. \A l \in Lists : IsInjective(ready[l])
  BY <1>1, StateFields DEF LoadsAsked, StoresAsked, Lists
<1>4. QED
  BY <1>1, <1>2, <1>3, StateFields DEF LoadsAsked, StoresAsked, Listed

(* What is said of the places is all that is left to show.                 *)
LEMMA AskedNext ==
  ASSUME LsqInv, ready' \in [Lists -> Seq(Nat)],
         UNCHANGED <<program, head, tail, ROB, LQ, SQ, SQ_tail, STA, inflight_executions, got, WQ>>,
         CachesTyped', \A l \in Lists : IsInjective(ready'[l]),
         Range(ready'["RTL0"]) \cup Range(ready'["RTL1"]) \cup L1D' \subseteq LqSlots,
         Range(ready'["RTS0"]) \cup Range(ready'["RTS1"]) \subseteq SqSlots,
         \A q \in LqSlots :
           /\ Waits(State, q) <=>
                \/ q \in Range(ready'["RTL0"]) \/ q \in Range(ready'["RTL1"])
                \/ <<"RTL1", q>> \in DTLB'  \/ q \in L1D'
           /\ q \in Range(ready'["RTL0"]) =>
                q \notin Range(ready'["RTL1"]) \cup L1D' /\ <<"RTL1", q>> \notin DTLB'
           /\ q \in Range(ready'["RTL1"]) => q \notin L1D' /\ <<"RTL1", q>> \notin DTLB'
           /\ q \in L1D' => <<"RTL1", q>> \notin DTLB',
         \A q \in SqSlots :
           /\ Executes(State, q) <=>
                \/ q \in Range(ready'["RTS0"]) \/ q \in Range(ready'["RTS1"])
                \/ <<"RTS1", q>> \in DTLB'
           /\ q \in Range(ready'["RTS0"]) =>
                q \notin Range(ready'["RTS1"]) /\ <<"RTS1", q>> \notin DTLB'
           /\ q \in Range(ready'["RTS1"]) => <<"RTS1", q>> \notin DTLB'
  PROVE  LsqInv'
<1>1. Settled(State)' /\ WindowOK'
  BY ListsNext
<1>2. LoadsAsked(State)'
  BY NextFields, StateFields DEF LoadsAsked, Waits, Listed, Lists
<1>3. StoresAsked(State)'
  BY NextFields, StateFields DEF StoresAsked, Executes, Listed, Lists
<1>4. QED
  BY <1>1, <1>2, <1>3 DEF LsqInv, Queued

LEMMA TranslateKeeps ==
  ASSUME LsqInv, NEW l \in Lists, NEW n \in Lists,
         <<l, n>> \in {<<"RTS0", "RTS1">>, <<"RTL0", "RTL1">>}, Translate(l, n)
  PROVE  LsqInv'
<1> DEFINE q == Head(ready[l])
<1>1. /\ ready[l] \in Seq(Nat) /\ IsInjective(ready[l]) /\ ready[l] # <<>>
      /\ ready \in [Lists -> Seq(Nat)]
      /\ DTLB' = DTLB \cup {<<n, q>>} /\ ready' = [ready EXCEPT ![l] = Tail(@)]
      /\ UNCHANGED <<program, head, tail, ROB, LQ, SQ, SQ_tail, STA, L1D, WQ,
                     inflight_executions, got>>
  BY AskedNow DEF Translate
<1>2. /\ q \in Range(ready[l]) /\ Tail(ready[l]) \in Seq(Nat) /\ IsInjective(Tail(ready[l]))
      /\ Range(Tail(ready[l])) = Range(ready[l]) \ {q}
  BY <1>1, ListTail
<1> HIDE DEF q
<1>3. /\ ready' \in [Lists -> Seq(Nat)] /\ \A m \in Lists : IsInjective(ready'[m])
      /\ Range(ready'[l]) = Range(ready[l]) \ {q}
      /\ \A m \in Lists : m # l => ready'[m] = ready[m]
  BY <1>1, <1>2, AskedNow
<1>4. CASE l = "RTS0" /\ n = "RTS1"
  <2>1. q \in SqSlots
    BY <1>2, <1>4, AskedNow
  <2>2. CachesTyped'
    BY <1>1, <1>4, <2>1, AskedNow DEF CachesTyped
  <2>3. /\ Range(ready'["RTS0"]) = Range(ready["RTS0"]) \ {q}
        /\ ready'["RTS1"] = ready["RTS1"] /\ ready'["RTL0"] = ready["RTL0"]
        /\ ready'["RTL1"] = ready["RTL1"]
        /\ \A x : /\ <<"RTS1", x>> \in DTLB' <=> x = q \/ <<"RTS1", x>> \in DTLB
                  /\ <<"RTL1", x>> \in DTLB' <=> <<"RTL1", x>> \in DTLB
    BY <1>1, <1>3, <1>4 DEF Lists
  <2>4. QED
    BY <1>1, <1>2, <1>3, <1>4, <2>1, <2>2, <2>3, AskedNow, AskedNext
<1>5. CASE l = "RTL0" /\ n = "RTL1"
  <2>1. q \in LqSlots
    BY <1>2, <1>5, AskedNow
  <2>2. CachesTyped'
    BY <1>1, <1>5, <2>1, AskedNow DEF CachesTyped
  <2>3. /\ Range(ready'["RTL0"]) = Range(ready["RTL0"]) \ {q}
        /\ ready'["RTL1"] = ready["RTL1"] /\ ready'["RTS0"] = ready["RTS0"]
        /\ ready'["RTS1"] = ready["RTS1"]
        /\ \A x : /\ <<"RTL1", x>> \in DTLB' <=> x = q \/ <<"RTL1", x>> \in DTLB
                  /\ <<"RTS1", x>> \in DTLB' <=> <<"RTS1", x>> \in DTLB
    BY <1>1, <1>3, <1>5 DEF Lists
  <2>4. QED
    BY <1>1, <1>2, <1>3, <1>5, <2>1, <2>2, <2>3, AskedNow, AskedNext
<1>6. QED
  BY <1>4, <1>5

LEMMA TranslatedKeeps ==
  ASSUME LsqInv, Translated
  PROVE  LsqInv'
<1>1. PICK r \in DTLB :
        /\ DTLB' = DTLB \ {r}
        /\ ready' = [ready EXCEPT ![r[1]] = Append(@, r[2])]
        /\ UNCHANGED <<program, head, tail, ROB, LQ, SQ, SQ_tail, STA, L1D, WQ,
                       inflight_executions, got>>
  BY DEF Translated
<1> DEFINE l == r[1]
           q == r[2]
<1>2. /\ r = <<l, q>>
      /\ \/ l = "RTL1" /\ q \in LqSlots
         \/ l = "RTS1" /\ q \in SqSlots
  BY AskedNow DEF CachesTyped
<1> HIDE DEF l, q
<1>3. /\ l \in Lists /\ q \in Nat /\ ready \in [Lists -> Seq(Nat)]
      /\ ready[l] \in Seq(Nat) /\ IsInjective(ready[l]) /\ q \notin Range(ready[l])
  BY <1>1, <1>2, AskedNow, OldestSlots DEF Lists
<1>4. /\ Append(ready[l], q) \in Seq(Nat) /\ IsInjective(Append(ready[l], q))
      /\ Range(Append(ready[l], q)) = Range(ready[l]) \cup {q}
  BY <1>3, ListAppend
<1>5. ready' = [ready EXCEPT ![l] = Append(@, q)] /\ DTLB' = DTLB \ {<<l, q>>}
  BY <1>1, <1>2 DEF l, q
<1>6. /\ ready' \in [Lists -> Seq(Nat)] /\ \A m \in Lists : IsInjective(ready'[m])
      /\ Range(ready'[l]) = Range(ready[l]) \cup {q}
      /\ \A m \in Lists : m # l => ready'[m] = ready[m]
  BY <1>3, <1>4, <1>5, AskedNow
<1>7. CachesTyped' /\ <<l, q>> \in DTLB
  BY <1>1, <1>2, AskedNow DEF CachesTyped
<1>8. CASE l = "RTL1" /\ q \in LqSlots
  <2>1. /\ Range(ready'["RTL1"]) = Range(ready["RTL1"]) \cup {q}
        /\ ready'["RTL0"] = ready["RTL0"] /\ ready'["RTS0"] = ready["RTS0"]
        /\ ready'["RTS1"] = ready["RTS1"]
        /\ \A x : /\ <<"RTL1", x>> \in DTLB' <=> x # q /\ <<"RTL1", x>> \in DTLB
                  /\ <<"RTS1", x>> \in DTLB' <=> <<"RTS1", x>> \in DTLB
    BY <1>5, <1>6, <1>8 DEF Lists
  <2>2. QED
    BY <1>1, <1>6, <1>7, <1>8, <2>1, AskedNow, AskedNext
<1>9. CASE l = "RTS1" /\ q \in SqSlots
  <2>1. /\ Range(ready'["RTS1"]) = Range(ready["RTS1"]) \cup {q}
        /\ ready'["RTL0"] = ready["RTL0"] /\ ready'["RTS0"] = ready["RTS0"]
        /\ ready'["RTL1"] = ready["RTL1"]
        /\ \A x : /\ <<"RTS1", x>> \in DTLB' <=> x # q /\ <<"RTS1", x>> \in DTLB
                  /\ <<"RTL1", x>> \in DTLB' <=> <<"RTL1", x>> \in DTLB
    BY <1>5, <1>6, <1>9 DEF Lists
  <2>2. QED
    BY <1>1, <1>6, <1>7, <1>9, <2>1, AskedNow, AskedNext
<1>10. QED
  BY <1>2, <1>8, <1>9

LEMMA LoadKeeps ==
  ASSUME LsqInv, execute_load
  PROVE  LsqInv'
<1> DEFINE q == Head(ready["RTL1"])
<1>1. /\ ready["RTL1"] \in Seq(Nat) /\ IsInjective(ready["RTL1"]) /\ ready["RTL1"] # <<>>
      /\ ready \in [Lists -> Seq(Nat)]
      /\ L1D' = L1D \cup {q} /\ ready' = [ready EXCEPT !.RTL1 = Tail(@)]
      /\ UNCHANGED <<program, head, tail, ROB, LQ, SQ, SQ_tail, STA, DTLB, WQ,
                     inflight_executions, got>>
  BY AskedNow DEF execute_load, Lists
<1>2. /\ q \in Range(ready["RTL1"]) /\ Tail(ready["RTL1"]) \in Seq(Nat)
      /\ IsInjective(Tail(ready["RTL1"]))
      /\ Range(Tail(ready["RTL1"])) = Range(ready["RTL1"]) \ {q}
  BY <1>1, ListTail
<1> HIDE DEF q
<1>3. /\ ready' \in [Lists -> Seq(Nat)] /\ \A m \in Lists : IsInjective(ready'[m])
      /\ Range(ready'["RTL1"]) = Range(ready["RTL1"]) \ {q}
      /\ ready'["RTL0"] = ready["RTL0"] /\ ready'["RTS0"] = ready["RTS0"]
      /\ ready'["RTS1"] = ready["RTS1"]
  BY <1>1, <1>2, AskedNow DEF Lists
<1>4. CachesTyped' /\ DTLB' = DTLB
  BY <1>1, AskedNow DEF CachesTyped
<1>5. q \in LqSlots
  BY <1>2, AskedNow
<1>6. QED
  BY <1>1, <1>2, <1>3, <1>4, <1>5, AskedNow, AskedNext

LEMMA DrainKeeps ==
  ASSUME LsqInv, DrainWQ
  PROVE  LsqInv'
<1>1. PICK a \in WQ :
        /\ WQ' = WQ \ {a}
        /\ UNCHANGED <<program, head, tail, ROB, queues, DTLB, L1D, inflight_executions, got>>
  BY DEF DrainWQ
<1>2. /\ IsFiniteSet(WQ') /\ Cardinality(WQ') <= WQ_SIZE
  <2>1. IsFiniteSet(WQ) /\ Cardinality(WQ) <= WQ_SIZE /\ WQ_SIZE \in Nat
    BY OldestSlots DEF LsqInv
  <2>2. Cardinality(WQ) \in Nat /\ IsFiniteSet(WQ \ {a}) /\ Cardinality(WQ \ {a}) = Cardinality(WQ) - 1
    BY <2>1, FS_CardinalityType, FS_RemoveElement
  <2>3. QED
    BY <1>1, <2>1, <2>2
<1>3. Queued(State)'
  <2>1. Becomes(State)
    BY <1>1, StateFields DEF Becomes, queues
  <2>2. QED
    BY <1>1, <2>1, QueuedNext DEF LsqInv
<1>4. QED
  BY <1>1, <1>2, <1>3 DEF LsqInv, WindowOK, CachesTyped

(***************************************************************************)
(* Operands end: the loads in the slots W leave the queue, the stores in   *)
(* the slots U have their data; of instruction j it is E[j] of them.       *)
(***************************************************************************)
LoadsOf(s, W, j)  == {x \in W : s.LQ[x].instr = j}
StoresOf(s, U, j) == {x \in U : s.SQ[x].instr = j}

Ends(s, t, W, U, E) ==
  /\ DOMAIN t = Fields /\ DOMAIN t.ROB = Instrs
  /\ \A j \in Instrs :
       /\ t.ROB[j] \in RobEntry(j)
       /\ E[j] = Cardinality(LoadsOf(s, W, j)) + Cardinality(StoresOf(s, U, j))
       /\ E[j] = 0 => t.ROB[j] = s.ROB[j]
       /\ t.ROB[j].executed = s.ROB[j].executed
       /\ t.ROB[j].num_mem_ops = s.ROB[j].num_mem_ops - E[j]
       /\ t.ROB[j].lq_index = s.ROB[j].lq_index
       /\ t.ROB[j].sq_index = s.ROB[j].sq_index
       /\ t.ROB[j].memory_instrs_depend_on_me = s.ROB[j].memory_instrs_depend_on_me
  /\ t.LQ \in [LqSlots -> LqEntry \cup {Empty}]
  /\ \A x \in LqSlots : t.LQ[x] = IF x \in W THEN Empty ELSE s.LQ[x]
  /\ t.SQ \in [SqSlots -> SqEntry \cup {Empty}]
  /\ \A x \in SqSlots :
       /\ t.SQ[x] = Empty <=> s.SQ[x] = Empty
       /\ s.SQ[x] # Empty => /\ t.SQ[x].instr = s.SQ[x].instr
                             /\ t.SQ[x].operand = s.SQ[x].operand
                             /\ t.SQ[x].fetched <=> x \in U \/ s.SQ[x].fetched
  /\ t.SQ_tail = s.SQ_tail /\ t.STA = s.STA /\ t.ready \in [Lists -> Seq(Nat)]
  /\ t.done = s.done + Cardinality({j \in Instrs : s.ROB[j].num_mem_ops \in 1 .. E[j]})

LEMMA EndsParts ==
  ASSUME WindowOK, NEW s, Settled(s), NEW t, NEW W, NEW U, NEW E, Ends(s, t, W, U, E),
         W \subseteq {x \in LqSlots : s.LQ[x] # Empty},
         U \subseteq {x \in SqSlots : Executes(s, x)},
         NEW j \in Instrs
  PROVE  /\ Cardinality(LoadsIn(t, j)) = Cardinality(LoadsIn(s, j)) - Cardinality(LoadsOf(s, W, j))
         /\ Cardinality(StoresIn(t, j)) = Cardinality(StoresIn(s, j)) - Cardinality(StoresOf(s, U, j))
         /\ E[j] \in Nat /\ E[j] <= s.ROB[j].num_mem_ops
         /\ E[j] # 0 => j \in Window /\ is_memory(j)
<1> DEFINE L == LoadsIn(s, j)
           S == StoresIn(s, j)
           A == LoadsOf(s, W, j)
           B == StoresOf(s, U, j)
<1>1. /\ IsFiniteSet(L) /\ Cardinality(L) \in Nat /\ IsFiniteSet(S) /\ Cardinality(S) \in Nat
      /\ Cardinality(LoadsOut(s, j)) \in Nat /\ Cardinality(StoresOut(s, j)) \in Nat
  BY PartsFinite
<1>2. A \subseteq L /\ LoadsIn(t, j) = L \ A
  BY DEF Ends, LoadsIn, LoadsOf
<1>3. B \subseteq S /\ StoresIn(t, j) = S \ B
  <2>1. B \subseteq S
    BY DEF StoresIn, StoresOf, Executes
  <2>2. ASSUME NEW x \in SqSlots
        PROVE  x \in StoresIn(t, j) <=> x \in S \ B
    BY DEF Ends, StoresIn, StoresOf, Executes
  <2>3. StoresIn(t, j) \subseteq SqSlots /\ S \subseteq SqSlots
    BY DEF StoresIn
  <2>4. QED
    BY <2>1, <2>2, <2>3
<1>4. /\ E[j] = Cardinality(A) + Cardinality(B)
      /\ s.ROB[j].num_mem_ops = Cardinality(LoadsOut(s, j)) + Cardinality(StoresOut(s, j))
                                + Cardinality(L) + Cardinality(S)
  BY DEF Ends, Settled, Counted
<1>5. A # {} => j \in Window /\ is_memory(j)
  <2>1. ASSUME NEW x \in A PROVE j \in Window /\ is_memory(j)
    <3>1. /\ x \in LqSlots /\ s.LQ[x] # Empty /\ s.LQ[x].instr = j
          /\ j \in Window /\ s.LQ[x].operand \in DOMAIN loads(j)
      BY <2>1 DEF Settled, LoadsPlaced, LoadsOf
    <3>2. QED
      BY <3>1 DEF is_memory
  <2>2. QED
    BY <2>1
<1>6. B # {} => j \in Window /\ is_memory(j)
  <2>1. ASSUME NEW x \in B PROVE j \in Window /\ is_memory(j)
    <3>1. /\ x \in SqSlots /\ s.SQ[x] # Empty /\ s.SQ[x].instr = j
          /\ j \in Window /\ s.SQ[x].operand \in DOMAIN stores(j)
      BY <2>1 DEF Settled, StoresPlaced, StoresOf, Executes
    <3>2. QED
      BY <3>1 DEF is_memory
  <2>2. QED
    BY <2>1
<1> HIDE DEF L, S, A, B
<1>7. /\ IsFiniteSet(A) /\ Cardinality(A) \in Nat /\ Cardinality(A) <= Cardinality(L)
      /\ IsFiniteSet(B) /\ Cardinality(B) \in Nat /\ Cardinality(B) <= Cardinality(S)
  BY <1>1, <1>2, <1>3, FS_Subset, FS_CardinalityType
<1>8. Cardinality(L \ A) = Cardinality(L) - Cardinality(A)
      /\ Cardinality(S \ B) = Cardinality(S) - Cardinality(B)
  <2>1. L \cap A = A /\ S \cap B = B
    BY <1>2, <1>3
  <2>2. Cardinality(L \ A) = Cardinality(L) - Cardinality(L \cap A)
    BY <1>1, FS_Difference
  <2>3. Cardinality(S \ B) = Cardinality(S) - Cardinality(S \cap B)
    BY <1>1, FS_Difference
  <2>4. QED
    BY <2>1, <2>2, <2>3
<1>9. E[j] \in Nat /\ E[j] <= s.ROB[j].num_mem_ops
  BY <1>1, <1>4, <1>7
<1>10. E[j] # 0 => A # {} \/ B # {}
  BY <1>4, <1>7, FS_EmptySet
<1>11. QED
  BY <1>2, <1>3, <1>5, <1>6, <1>8, <1>9, <1>10 DEF L, S, A, B

LEMMA EndsKeep ==
  ASSUME WindowOK, NEW s, Settled(s), NEW t, NEW W, NEW U, NEW E, Ends(s, t, W, U, E),
         W \subseteq {x \in LqSlots : s.LQ[x] # Empty},
         U \subseteq {x \in SqSlots : Executes(s, x)},
         GotRight(t),
         \A x \in LqSlots \ W : s.LQ[x] # Empty /\ s.LQ[x].producer # 0 =>
            ~Forwards(t, s.LQ[x].producer, Address(s.LQ[x]))
  PROVE  Settled(t)
<1>1. /\ Typed(s) /\ FreshOutside(s) /\ LoadsPlaced(s) /\ ProducerLast(s) /\ ProducerWakes(s)
      /\ StoresPlaced(s) /\ Ring(s) /\ StaSorted(s) /\ Counted(s) /\ DoneFirst(s)
      /\ DoneCounted(s)
  BY DEF Settled
<1>2. /\ DOMAIN t = Fields /\ DOMAIN t.ROB = Instrs
      /\ t.LQ \in [LqSlots -> LqEntry \cup {Empty}]
      /\ \A x \in LqSlots : t.LQ[x] = IF x \in W THEN Empty ELSE s.LQ[x]
      /\ t.SQ \in [SqSlots -> SqEntry \cup {Empty}]
      /\ \A x \in SqSlots :
           /\ t.SQ[x] = Empty <=> s.SQ[x] = Empty
           /\ s.SQ[x] # Empty => /\ t.SQ[x].instr = s.SQ[x].instr
                                 /\ t.SQ[x].operand = s.SQ[x].operand
      /\ t.SQ_tail = s.SQ_tail /\ t.STA = s.STA /\ t.ready \in [Lists -> Seq(Nat)]
  BY DEF Ends
<1>3. \A j \in Instrs :
       /\ t.ROB[j] \in RobEntry(j)
       /\ E[j] = 0 => t.ROB[j] = s.ROB[j]
       /\ t.ROB[j].executed = s.ROB[j].executed
       /\ t.ROB[j].num_mem_ops = s.ROB[j].num_mem_ops - E[j]
       /\ t.ROB[j].lq_index = s.ROB[j].lq_index
       /\ t.ROB[j].sq_index = s.ROB[j].sq_index
       /\ t.ROB[j].memory_instrs_depend_on_me = s.ROB[j].memory_instrs_depend_on_me
  BY DEF Ends
<1>4. \A j \in Instrs :
        /\ E[j] \in Nat /\ E[j] <= s.ROB[j].num_mem_ops /\ s.ROB[j].num_mem_ops \in Int
        /\ E[j] # 0 => j \in Window /\ is_memory(j)
  BY <1>1, EndsParts DEF Typed, RobEntry
<1>5. Window \subseteq Instrs /\ IsFiniteSet(Window) /\ \A j \in Window : j \in Instrs
  BY WindowType
<1> DEFINE D == {j \in Instrs : s.ROB[j].num_mem_ops \in 1 .. E[j]}
           T == ToComplete(s)
<1>6. /\ IsFiniteSet(T) /\ IsFiniteSet(D) /\ Cardinality(D) \in Nat /\ T \cap D = {}
      /\ ToComplete(t) = T \cup D
  <2>1. T \in SUBSET Window /\ D \in SUBSET Window
    BY <1>4 DEF ToComplete
  <2>2. IsFiniteSet(T) /\ IsFiniteSet(D) /\ Cardinality(D) \in Nat
    BY <1>5, <2>1, FS_Subset, FS_CardinalityType
  <2>3. \A j \in D : is_memory(j) /\ s.ROB[j].num_mem_ops # 0 /\ s.ROB[j].num_mem_ops = E[j]
    BY <1>4
  <2>4. T \cap D = {}
    BY <2>3 DEF ToComplete
  <2>5. ASSUME NEW j \in Window PROVE j \in ToComplete(t) <=> j \in T \cup D
    <3>1. /\ j \in Instrs /\ t.ROB[j].executed = s.ROB[j].executed
          /\ t.ROB[j].num_mem_ops = s.ROB[j].num_mem_ops - E[j]
          /\ E[j] \in Nat /\ E[j] <= s.ROB[j].num_mem_ops /\ s.ROB[j].num_mem_ops \in Int
      BY <1>3, <1>4, <1>5
    <3>2. CASE E[j] = 0
      BY <3>1, <3>2 DEF ToComplete
    <3>3. CASE E[j] # 0
      <4>1. is_memory(j) /\ s.ROB[j].num_mem_ops # 0
        BY <1>4, <3>1, <3>3
      <4>2. s.ROB[j].executed # "COMPLETED"
        BY <1>1, <3>1, <4>1 DEF DoneFirst
      <4>3. t.ROB[j].num_mem_ops = 0 <=> s.ROB[j].num_mem_ops \in 1 .. E[j]
        BY <3>1, <3>3
      <4>4. j \notin T
        BY <4>1 DEF ToComplete
      <4>5. QED
        BY <3>1, <4>1, <4>2, <4>3, <4>4 DEF ToComplete
    <3>4. QED
      BY <3>2, <3>3
  <2>6. ToComplete(t) \subseteq Window
    BY DEF ToComplete
  <2>7. ToComplete(t) = T \cup D
    BY <2>1, <2>5, <2>6
  <2>8. QED
    BY <2>2, <2>4, <2>7
<1>7. t.done = s.done + Cardinality(D) /\ s.done = Cardinality(T) /\ s.done \in Int
  BY <1>1 DEF Ends, DoneCounted, Typed
<1> HIDE DEF D, T
<1>8. DoneCounted(t) /\ t.done \in Int
  <2>1. Cardinality(T \cup D) = Cardinality(T) + Cardinality(D)
    <3>1. Cardinality(T \cup D) = Cardinality(T) + Cardinality(D) - Cardinality(T \cap D)
      BY <1>6, FS_Union
    <3>2. Cardinality(T \cap D) = 0 /\ Cardinality(T) \in Nat
      BY <1>6, FS_EmptySet, FS_CardinalityType
    <3>3. QED
      BY <1>6, <3>1, <3>2
  <2>2. QED
    BY <1>6, <1>7, <2>1 DEF DoneCounted
<1>9. Typed(t)
  BY <1>1, <1>2, <1>3, <1>8 DEF Typed
<1>10. FreshOutside(t)
  BY <1>1, <1>3, <1>4 DEF FreshOutside
<1>11. LoadsPlaced(t)
  BY <1>1, <1>2, <1>3, <1>5 DEF LoadsPlaced
<1>12. ProducerLast(t)
  BY <1>1, <1>2 DEF ProducerLast
<1>13. ProducerWakes(t)
  <2>1. ASSUME NEW x \in LqSlots, t.LQ[x] # Empty, t.LQ[x].producer # 0
        PROVE  /\ t.LQ[x].instr \in t.ROB[t.LQ[x].producer].memory_instrs_depend_on_me
               /\ ~Forwards(t, t.LQ[x].producer, Address(t.LQ[x]))
    <3>1. x \notin W /\ t.LQ[x] = s.LQ[x]
      BY <1>2, <2>1
    <3>2. s.LQ[x].producer \in Instrs
      BY <1>1, <2>1, <3>1, ProducerInWindow
    <3>3. t.LQ[x].instr \in t.ROB[t.LQ[x].producer].memory_instrs_depend_on_me
      BY <1>1, <1>3, <2>1, <3>1, <3>2 DEF ProducerWakes
    <3>4. QED
      BY <2>1, <3>1, <3>3
  <2>2. QED
    BY <2>1 DEF ProducerWakes
<1>14. StoresPlaced(t)
  <2>1. ASSUME NEW x \in SqSlots, t.SQ[x] # Empty
        PROVE  /\ t.SQ[x].instr \in Window /\ t.SQ[x].operand \in DOMAIN stores(t.SQ[x].instr)
               /\ t.ROB[t.SQ[x].instr].sq_index[t.SQ[x].operand] = x
    <3>1. /\ s.SQ[x] # Empty /\ t.SQ[x].instr = s.SQ[x].instr
          /\ t.SQ[x].operand = s.SQ[x].operand
      BY <1>2, <2>1
    <3>2. /\ s.SQ[x].instr \in Window /\ s.SQ[x].operand \in DOMAIN stores(s.SQ[x].instr)
          /\ s.ROB[s.SQ[x].instr].sq_index[s.SQ[x].operand] = x
      BY <1>1, <3>1 DEF StoresPlaced
    <3>3. t.ROB[s.SQ[x].instr].sq_index = s.ROB[s.SQ[x].instr].sq_index
      BY <1>3, <1>5, <3>2
    <3>4. QED
      BY <3>1, <3>2, <3>3
  <2>2. ASSUME NEW j \in Instrs, NEW k \in DOMAIN stores(j), t.ROB[j].sq_index[k] # None
        PROVE  LET e == t.SQ[t.ROB[j].sq_index[k]] IN e # Empty /\ e.instr = j /\ e.operand = k
    <3>1. t.ROB[j].sq_index = s.ROB[j].sq_index /\ s.ROB[j].sq_index[k] \in SqSlots
      BY <1>1, <1>3, <2>2 DEF Typed, RobEntry
    <3>2. QED
      BY <1>1, <1>2, <2>2, <3>1 DEF StoresPlaced
  <2>3. QED
    BY <2>1, <2>2 DEF StoresPlaced
<1>15. Ring(t)
  <2>1. \A x \in SqSlots : Age(t, x) = Age(s, x)
    BY <1>2 DEF Age
  <2>2. QED
    BY <1>1, <1>2, <2>1 DEF Ring
<1>16. StaSorted(t)
  BY <1>1, <1>2 DEF StaSorted
<1>17. Counted(t)
  <2>1. ASSUME NEW j \in Instrs
        PROVE  t.ROB[j].num_mem_ops =
                 Cardinality(LoadsOut(t, j)) + Cardinality(StoresOut(t, j))
                 + Cardinality(LoadsIn(t, j)) + Cardinality(StoresIn(t, j))
    <3>1. LoadsOut(t, j) = LoadsOut(s, j) /\ StoresOut(t, j) = StoresOut(s, j)
      BY <1>3 DEF LoadsOut, StoresOut
    <3>2. /\ Cardinality(LoadsIn(t, j)) = Cardinality(LoadsIn(s, j)) - Cardinality(LoadsOf(s, W, j))
          /\ Cardinality(StoresIn(t, j)) = Cardinality(StoresIn(s, j)) - Cardinality(StoresOf(s, U, j))
      BY EndsParts
    <3>3. /\ Cardinality(LoadsIn(s, j)) \in Nat /\ Cardinality(StoresIn(s, j)) \in Nat
          /\ Cardinality(LoadsOut(s, j)) \in Nat /\ Cardinality(StoresOut(s, j)) \in Nat
      BY PartsFinite
    <3>4. /\ s.ROB[j].num_mem_ops =
               Cardinality(LoadsOut(s, j)) + Cardinality(StoresOut(s, j))
               + Cardinality(LoadsIn(s, j)) + Cardinality(StoresIn(s, j))
          /\ t.ROB[j].num_mem_ops = s.ROB[j].num_mem_ops - E[j]
          /\ E[j] = Cardinality(LoadsOf(s, W, j)) + Cardinality(StoresOf(s, U, j))
      BY <1>1 DEF Counted, Ends
    <3>5. Cardinality(LoadsOf(s, W, j)) \in Nat /\ Cardinality(StoresOf(s, U, j)) \in Nat
      <4>1. IsFiniteSet(LqSlots) /\ IsFiniteSet(SqSlots)
        BY OldestSlots
      <4>2. LoadsOf(s, W, j) \in SUBSET LqSlots /\ StoresOf(s, U, j) \in SUBSET SqSlots
        BY DEF LoadsOf, StoresOf
      <4>3. QED
        BY <4>1, <4>2, FS_Subset, FS_CardinalityType
    <3>6. QED
      BY <3>1, <3>2, <3>3, <3>4, <3>5
  <2>2. QED
    BY <2>1 DEF Counted
<1>18. DoneFirst(t)
  <2>1. ASSUME NEW j \in Instrs, is_memory(j), t.ROB[j].executed = "COMPLETED"
        PROVE  t.ROB[j].num_mem_ops = 0
    <3>1. s.ROB[j].num_mem_ops = 0
      BY <1>1, <1>3, <2>1 DEF DoneFirst
    <3>2. QED
      BY <1>3, <1>4, <3>1
  <2>2. QED
    BY <2>1 DEF DoneFirst
<1>19. QED
  BY <1>8, <1>9, <1>10, <1>11, <1>12, <1>13, <1>14, <1>15, <1>16, <1>17, <1>18 DEF Settled

(* From a settled state and what is said of the lists and the caches.      *)
LEMMA EndNext ==
  ASSUME LsqInv, NEW t, Settled(t), Becomes(t), UNCHANGED <<program, head, tail, WQ, DTLB>>,
         ready' \in [Lists -> Seq(Nat)], \A l \in Lists : IsInjective(ready'[l]),
         Range(ready'["RTL0"]) \cup Range(ready'["RTL1"]) \cup L1D' \subseteq LqSlots,
         Range(ready'["RTS0"]) \cup Range(ready'["RTS1"]) \subseteq SqSlots,
         \A q \in LqSlots :
           /\ Waits(t, q) <=>
                \/ q \in Range(ready'["RTL0"]) \/ q \in Range(ready'["RTL1"])
                \/ <<"RTL1", q>> \in DTLB  \/ q \in L1D'
           /\ q \in Range(ready'["RTL0"]) =>
                q \notin Range(ready'["RTL1"]) \cup L1D' /\ <<"RTL1", q>> \notin DTLB
           /\ q \in Range(ready'["RTL1"]) => q \notin L1D' /\ <<"RTL1", q>> \notin DTLB
           /\ q \in L1D' => <<"RTL1", q>> \notin DTLB,
         \A q \in SqSlots :
           /\ Executes(t, q) <=>
                \/ q \in Range(ready'["RTS0"]) \/ q \in Range(ready'["RTS1"])
                \/ <<"RTS1", q>> \in DTLB
           /\ q \in Range(ready'["RTS0"]) =>
                q \notin Range(ready'["RTS1"]) /\ <<"RTS1", q>> \notin DTLB
           /\ q \in Range(ready'["RTS1"]) => <<"RTS1", q>> \notin DTLB
  PROVE  LsqInv'
<1>1. Settled(State)' /\ WindowOK' /\ CachesTyped'
  BY SettledNext DEF LsqInv, WindowOK, CachesTyped
<1>2. (State.LQ)' = t.LQ /\ (State.SQ)' = t.SQ /\ (State.ready)' = ready'
  BY NextFields DEF Becomes
<1>3. LoadsAsked(State)'
  BY <1>2 DEF LoadsAsked, Waits, Listed, Lists
<1>4. StoresAsked(State)'
  BY <1>2 DEF StoresAsked, Executes, Listed, Lists
<1>5. QED
  BY <1>1, <1>3, <1>4 DEF LsqInv, Queued

LEMMA LoadDoneKeeps ==
  ASSUME LsqInv, LoadDone
  PROVE  LsqInv'
<1>1. PICK q \in L1D : \E s \in {FromMemory(q)} :
        /\ L1D' = L1D \ {q}
        /\ ROB' = s.ROB /\ LQ' = s.LQ /\ inflight_executions' = s.done /\ got' = s.got
        /\ UNCHANGED <<program, head, tail, SQ, SQ_tail, STA, ready, DTLB, WQ>>
  BY DEF LoadDone
<1> DEFINE i == LQ[q].instr
           k == LQ[q].operand
           v == Memory(loads(i)[k])
           r == Received(State, i, k, v)
           o == OpDone(r, i)
           t == Released(o, q)
           E == [j \in Instrs |-> IF j = i THEN 1 ELSE 0]
<1>2. /\ WindowOK /\ Settled(State) /\ Typed(State) /\ GotRight(State)
      /\ q \in LqSlots /\ LQ[q] # Empty /\ LQ[q].producer = 0
  BY AskedNow, StateFields DEF Queued, Settled, Waits
<1>3. i \in Window /\ i \in Instrs /\ LastWriter(i, loads(i)[k], 0)
  BY <1>2, WindowType, StateFields DEF Settled, LoadsPlaced, ProducerLast, Address
<1>4. /\ ROB' = t.ROB /\ LQ' = t.LQ /\ inflight_executions' = t.done /\ got' = t.got
      /\ L1D' = L1D \ {q} /\ UNCHANGED <<program, head, tail, SQ, SQ_tail, STA, ready, DTLB, WQ>>
  BY <1>1 DEF FromMemory
<1>5. /\ DOMAIN r = Fields /\ r.ROB = ROB /\ r.LQ = LQ /\ r.SQ = SQ /\ r.SQ_tail = SQ_tail
      /\ r.STA = STA /\ r.ready = ready /\ r.done = inflight_executions
      /\ r.got = Reads(got, {<<i, k>>}, v)
  BY StateFields DEF Received, State, Fields
<1>6. /\ DOMAIN ROB = Instrs /\ inflight_executions \in Int /\ ready \in [Lists -> Seq(Nat)]
      /\ LQ \in [LqSlots -> LqEntry \cup {Empty}] /\ SQ \in [SqSlots -> SqEntry \cup {Empty}]
      /\ \A j \in Instrs : ROB[j] \in RobEntry(j)
  BY <1>2, StateFields DEF Typed
<1> HIDE DEF i, v, r
<1>7. /\ DOMAIN o = Fields /\ DOMAIN o.ROB = Instrs
      /\ o.LQ = LQ /\ o.SQ = SQ /\ o.SQ_tail = SQ_tail /\ o.STA = STA
      /\ o.ready = ready /\ o.got = r.got
      /\ o.done = inflight_executions + (IF ROB[i].num_mem_ops = 1 THEN 1 ELSE 0)
      /\ \A j \in Instrs :
           /\ o.ROB[j] \in RobEntry(j)
           /\ j # i => o.ROB[j] = ROB[j]
           /\ o.ROB[j].executed = ROB[j].executed
           /\ o.ROB[j].sq_index = ROB[j].sq_index
           /\ o.ROB[j].lq_index = ROB[j].lq_index
           /\ o.ROB[j].memory_instrs_depend_on_me = ROB[j].memory_instrs_depend_on_me
           /\ o.ROB[j].num_mem_ops = ROB[j].num_mem_ops - (IF j = i THEN 1 ELSE 0)
  <2>1. DOMAIN r = Fields /\ DOMAIN r.ROB = Instrs /\ \A j \in Instrs : r.ROB[j] \in RobEntry(j)
    BY <1>5, <1>6
  <2> DEFINE p == o
  <2>2. p = OpDone(r, i)
    OBVIOUS
  <2> HIDE DEF p
  <2>3. /\ DOMAIN p = Fields /\ DOMAIN p.ROB = Instrs
        /\ p.LQ = r.LQ /\ p.SQ = r.SQ /\ p.SQ_tail = r.SQ_tail /\ p.STA = r.STA
        /\ p.ready = r.ready /\ p.got = r.got
        /\ p.done = r.done + (IF r.ROB[i].num_mem_ops = 1 THEN 1 ELSE 0) \/ r.done \notin Int
        /\ \A j \in Instrs :
             /\ p.ROB[j] \in RobEntry(j)
             /\ j # i => p.ROB[j] = r.ROB[j]
             /\ p.ROB[j].executed = r.ROB[j].executed
             /\ p.ROB[j].sq_index = r.ROB[j].sq_index
             /\ p.ROB[j].lq_index = r.ROB[j].lq_index
             /\ p.ROB[j].memory_instrs_depend_on_me = r.ROB[j].memory_instrs_depend_on_me
             /\ p.ROB[j].num_mem_ops = r.ROB[j].num_mem_ops - (IF j = i THEN 1 ELSE 0)
    BY <1>3, <2>1, <2>2, OpDoneEffect
  <2>4. QED
    BY <1>5, <1>6, <2>3 DEF p
<1> HIDE DEF o
<1>8. /\ DOMAIN t = Fields /\ t.ROB = o.ROB /\ t.SQ = SQ /\ t.SQ_tail = SQ_tail /\ t.STA = STA
      /\ t.ready = ready /\ t.got = r.got /\ t.done = o.done
      /\ t.LQ = [LQ EXCEPT ![q] = Empty]
  BY <1>7 DEF Released, Fields
<1> HIDE DEF t
<1>9. \A j \in Instrs : /\ E[j] = IF j = i THEN 1 ELSE 0
                        /\ Cardinality(LoadsOf(State, {q}, j)) = E[j]
                        /\ Cardinality(StoresOf(State, {}, j)) = 0
  <2>1. ASSUME NEW j \in Instrs
        PROVE  /\ LoadsOf(State, {q}, j) = IF j = i THEN {q} ELSE {}
               /\ StoresOf(State, {}, j) = {}
    BY StateFields DEF LoadsOf, StoresOf, i
  <2>2. QED
    BY <2>1, FS_Singleton, FS_EmptySet
<1>10. Cardinality({j \in Instrs : ROB[j].num_mem_ops \in 1 .. E[j]}) =
         IF ROB[i].num_mem_ops = 1 THEN 1 ELSE 0
  <2> DEFINE D == {j \in Instrs : ROB[j].num_mem_ops \in 1 .. E[j]}
  <2>1. \A j \in Instrs : ROB[j].num_mem_ops \in Int
    BY <1>6 DEF RobEntry
  <2>2. D = IF ROB[i].num_mem_ops = 1 THEN {i} ELSE {}
    BY <1>3, <1>9, <2>1
  <2> HIDE DEF D
  <2>3. Cardinality(D) = IF ROB[i].num_mem_ops = 1 THEN 1 ELSE 0
    BY <2>2, FS_Singleton, FS_EmptySet
  <2>4. QED
    BY <2>3 DEF D
<1> HIDE DEF E
<1>11. Ends(State, t, {q}, {}, E)
  <2>1. \A j \in Instrs : E[j] = Cardinality(LoadsOf(State, {q}, j))
                               + Cardinality(StoresOf(State, {}, j))
    BY <1>9
  <2>2. t.LQ \in [LqSlots -> LqEntry \cup {Empty}]
        /\ \A x \in LqSlots : t.LQ[x] = IF x \in {q} THEN Empty ELSE LQ[x]
    BY <1>2, <1>6, <1>8
  <2>3. t.done = State.done + Cardinality({j \in Instrs : State.ROB[j].num_mem_ops \in 1 .. E[j]})
    BY <1>7, <1>8, <1>10, StateFields
  <2>4. \A j \in Instrs :
           /\ t.ROB[j] \in RobEntry(j)
           /\ E[j] = 0 => t.ROB[j] = ROB[j]
           /\ t.ROB[j].executed = ROB[j].executed
           /\ t.ROB[j].sq_index = ROB[j].sq_index
           /\ t.ROB[j].lq_index = ROB[j].lq_index
           /\ t.ROB[j].memory_instrs_depend_on_me = ROB[j].memory_instrs_depend_on_me
           /\ t.ROB[j].num_mem_ops = ROB[j].num_mem_ops - E[j]
    BY <1>7, <1>8, <1>9
  <2>5. /\ t.SQ \in [SqSlots -> SqEntry \cup {Empty}] /\ t.SQ = State.SQ
        /\ t.ready \in [Lists -> Seq(Nat)] /\ t.SQ_tail = State.SQ_tail /\ t.STA = State.STA
        /\ DOMAIN t = Fields /\ DOMAIN t.ROB = Instrs
    BY <1>6, <1>7, <1>8, StateFields
  <2>6. QED
    BY <2>1, <2>2, <2>3, <2>4, <2>5, StateFields DEF Ends
<1>12. GotRight(t)
  <2>1. t.got = Reads(State.got, {<<i, k>>}, IF 0 = 0 THEN Memory(loads(i)[k]) ELSE 0)
    BY <1>5, <1>8, StateFields DEF v
  <2>2. QED
    BY <1>2, <1>3, <2>1, GotKept
<1>13. Settled(t)
  <2>1. \A x \in LqSlots \ {q} : State.LQ[x] # Empty /\ State.LQ[x].producer # 0 =>
            ~Forwards(t, State.LQ[x].producer, Address(State.LQ[x]))
    BY <1>2, <1>8, StateFields DEF Settled, ProducerWakes, Forwards
  <2>2. {q} \subseteq {x \in LqSlots : State.LQ[x] # Empty}
    BY <1>2, StateFields
  <2>3. QED
    BY <1>2, <1>11, <1>12, <2>1, <2>2, EndsKeep
<1>14. Becomes(t)
  BY <1>4, <1>8 DEF Becomes
<1>15. /\ \A x \in LqSlots : Waits(t, x) <=> x # q /\ Waits(State, x)
       /\ \A x \in SqSlots : Executes(t, x) <=> Executes(State, x)
  BY <1>2, <1>6, <1>8, StateFields DEF Waits, Executes
<1>16. ready' = ready /\ L1D' = L1D \ {q} /\ UNCHANGED <<program, head, tail, WQ, DTLB>>
  BY <1>4
<1>17. QED
  BY <1>2, <1>13, <1>14, <1>15, <1>16, AskedNow, EndNext

(***************************************************************************)
(* A store executes: whoever waits for it reads its data.                  *)
(***************************************************************************)
LEMMA WokenWait ==
  ASSUME WindowOK, Settled(State), NEW q \in SqSlots, Executes(State, q), ProducerMatches(q)
  PROVE  /\ SQ[q].instr \in Window /\ SQ[q].operand \in DOMAIN stores(SQ[q].instr)
         /\ \A x \in Woken(q) : x \in LqSlots /\ LQ[x] # Empty /\ LQ[x].producer = SQ[q].instr
         /\ \A x \in LqSlots : /\ LQ[x] # Empty /\ LQ[x].producer = SQ[q].instr
                               /\ Address(LQ[x]) = stores(SQ[q].instr)[SQ[q].operand]
                               => x \in Woken(q)
<1> DEFINE p == SQ[q].instr
           a == stores(p)[SQ[q].operand]
<1>1. p \in Window /\ SQ[q].operand \in DOMAIN stores(p) /\ p \in Instrs /\ p # 0
  BY WindowType, StateFields DEF Settled, StoresPlaced, Executes
<1>2. \A j \in Instrs : ROB[j] \in RobEntry(j)
  BY StateFields DEF Settled, Typed
<1>3. ROB[p].memory_instrs_depend_on_me \subseteq Instrs
  BY <1>1, <1>2 DEF RobEntry
<1>4. ASSUME NEW x \in Woken(q) PROVE x \in LqSlots /\ LQ[x] # Empty /\ LQ[x].producer = p
  <2>1. PICK d \in Dependents(q) : x = LqSlot(d)
    BY <1>4 DEF Woken
  <2>2. d[1] \in Instrs /\ d[2] \in DOMAIN loads(d[1]) /\ LqSlot(d) # None
    BY <1>3, <2>1 DEF Dependents
  <2>3. LqSlot(d) \in LqSlots \cup {None}
    BY <1>2, <2>2 DEF LqSlot, RobEntry
  <2>4. QED
    BY <2>1, <2>2, <2>3 DEF ProducerMatches
<1>5. ASSUME NEW x \in LqSlots, LQ[x] # Empty, LQ[x].producer = p, Address(LQ[x]) = a
      PROVE  x \in Woken(q)
  <2> DEFINE i == LQ[x].instr
             k == LQ[x].operand
  <2>1. i \in Window /\ k \in DOMAIN loads(i) /\ ROB[i].lq_index[k] = x /\ i \in Instrs
    BY <1>5, WindowType, StateFields DEF Settled, LoadsPlaced
  <2>2. i \in ROB[p].memory_instrs_depend_on_me
    BY <1>1, <1>5, StateFields DEF Settled, ProducerWakes
  <2>3. k \in 1 .. NUM_INSTR_SOURCES
    BY <2>1, Operands DEF NUM_INSTR_SOURCES, WindowOK
  <2>4. x # None
    BY OldestSlots DEF None
  <2>5. loads(i)[k] = a
    BY <1>5 DEF Address
  <2>6. LqSlot(<<i, k>>) = x /\ <<i, k>>[1] = i /\ <<i, k>>[2] = k
    BY <2>1 DEF LqSlot
  <2> HIDE DEF i, k
  <2>7. <<i, k>> \in Dependents(q)
    BY <2>1, <2>2, <2>3, <2>4, <2>5, <2>6 DEF Dependents
  <2>8. QED
    BY <2>6, <2>7 DEF Woken
<1>6. QED
  BY <1>1, <1>4, <1>5

LEMMA StoreKeeps ==
  ASSUME LsqInv, execute_store
  PROVE  LsqInv'
<1> DEFINE q == Head(ready["RTS1"])
           p == SQ[q].instr
           a == stores(p)[SQ[q].operand]
           W == Woken(q)
           s == StoreDone(q)
           t == [s EXCEPT !.ready = ready']
           E == [j \in Instrs |-> OpsEnded(q, j)]
           N == {<<LQ[x].instr, LQ[x].operand>> : x \in W}
<1>1. /\ ready["RTS1"] # <<>> /\ ProducerMatches(q)
      /\ ROB' = s.ROB /\ LQ' = s.LQ /\ SQ' = s.SQ
      /\ inflight_executions' = s.done /\ got' = s.got
      /\ ready' = [ready EXCEPT !.RTS1 = Tail(@)]
      /\ UNCHANGED <<program, head, tail, SQ_tail, STA, DTLB, L1D, WQ>>
  BY DEF execute_store
<1>2. /\ ready \in [Lists -> Seq(Nat)] /\ ready["RTS1"] \in Seq(Nat) /\ IsInjective(ready["RTS1"])
  BY AskedNow DEF Lists
<1>3. /\ q \in Range(ready["RTS1"]) /\ Tail(ready["RTS1"]) \in Seq(Nat)
      /\ IsInjective(Tail(ready["RTS1"]))
      /\ Range(Tail(ready["RTS1"])) = Range(ready["RTS1"]) \ {q}
  BY <1>1, <1>2, ListTail
<1>4. /\ WindowOK /\ Settled(State) /\ q \in SqSlots /\ Executes(State, q)
      /\ SQ[q] # Empty /\ ~SQ[q].fetched
  BY <1>3, AskedNow, StateFields DEF Queued, Executes
<1>5. /\ p \in Window /\ SQ[q].operand \in DOMAIN stores(p)
      /\ \A x \in W : x \in LqSlots /\ LQ[x] # Empty /\ LQ[x].producer = p
      /\ \A x \in LqSlots : /\ LQ[x] # Empty /\ LQ[x].producer = p
                            /\ Address(LQ[x]) = a
                            => x \in W
  BY <1>1, <1>4, WokenWait
<1>6. p \in Instrs /\ p # 0
  BY <1>4, <1>5, WindowType
<1>7. /\ DOMAIN ROB = Instrs /\ inflight_executions \in Int
      /\ LQ \in [LqSlots -> LqEntry \cup {Empty}] /\ SQ \in [SqSlots -> SqEntry \cup {Empty}]
      /\ \A j \in Instrs : ROB[j] \in RobEntry(j)
  BY <1>4, StateFields DEF Settled, Typed
<1>8. /\ DOMAIN s = Fields /\ s.SQ = [SQ EXCEPT ![q].fetched = TRUE]
      /\ s.ROB = [j \in Instrs |-> [ROB[j] EXCEPT !.num_mem_ops = @ - OpsEnded(q, j)]]
      /\ s.LQ = [x \in LqSlots |-> IF x \in W THEN Empty ELSE LQ[x]]
      /\ s.done = inflight_executions
                  + Cardinality({j \in Instrs : ROB[j].num_mem_ops \in 1 .. OpsEnded(q, j)})
      /\ s.got = Reads(got, N, p)
      /\ s.SQ_tail = SQ_tail /\ s.STA = STA
  BY DEF StoreDone, State, Fields
<1> HIDE DEF q, W, s
<1>9. /\ DOMAIN t = Fields /\ t.SQ = s.SQ /\ t.ROB = s.ROB /\ t.LQ = s.LQ /\ t.done = s.done
      /\ t.got = s.got /\ t.SQ_tail = SQ_tail /\ t.STA = STA /\ t.ready = ready'
  BY <1>8 DEF Fields
<1> HIDE DEF t
<1>10. ASSUME NEW j \in Instrs
       PROVE  /\ OpsEnded(q, j) \in Nat
              /\ OpsEnded(q, j) = Cardinality(LoadsOf(State, W, j))
                                  + Cardinality(StoresOf(State, {q}, j))
  <2> DEFINE A == {x \in W : LQ[x].instr = j}
  <2>1. LoadsOf(State, W, j) = A /\ StoresOf(State, {q}, j) = IF j = p THEN {q} ELSE {}
    BY StateFields DEF LoadsOf, StoresOf
  <2>2. OpsEnded(q, j) = Cardinality(A) + (IF j = p THEN 1 ELSE 0)
    BY DEF OpsEnded, W
  <2>3. A \in SUBSET LqSlots
    BY <1>5
  <2> HIDE DEF A
  <2>4. Cardinality(A) \in Nat
    BY <2>3, OldestSlots, FS_Subset, FS_CardinalityType
  <2>5. Cardinality(StoresOf(State, {q}, j)) = IF j = p THEN 1 ELSE 0
    BY <2>1, FS_Singleton, FS_EmptySet
  <2>6. QED
    BY <2>1, <2>2, <2>4, <2>5
<1>11. ASSUME NEW j \in Instrs
       PROVE  /\ E[j] = OpsEnded(q, j)
              /\ t.ROB[j] \in RobEntry(j)
              /\ E[j] = 0 => t.ROB[j] = ROB[j]
              /\ t.ROB[j].executed = ROB[j].executed
              /\ t.ROB[j].num_mem_ops = ROB[j].num_mem_ops - E[j]
              /\ t.ROB[j].lq_index = ROB[j].lq_index
              /\ t.ROB[j].sq_index = ROB[j].sq_index
              /\ t.ROB[j].memory_instrs_depend_on_me = ROB[j].memory_instrs_depend_on_me
  <2> DEFINE n == OpsEnded(q, j)
  <2>1. E[j] = n
    OBVIOUS
  <2>2. t.ROB[j] = [ROB[j] EXCEPT !.num_mem_ops = @ - n]
    BY <1>8, <1>9
  <2>3. n \in Nat /\ ROB[j] \in RobEntry(j)
    BY <1>7, <1>10
  <2> HIDE DEF n, E
  <2>4. QED
    BY <2>1, <2>2, <2>3 DEF RobEntry, n
<1>12. ASSUME NEW x \in SqSlots
       PROVE  /\ t.SQ[x] = Empty <=> SQ[x] = Empty
              /\ x # q => t.SQ[x] = SQ[x]
              /\ SQ[x] # Empty => /\ t.SQ[x] \in SqEntry
                                  /\ t.SQ[x].instr = SQ[x].instr
                                  /\ t.SQ[x].operand = SQ[x].operand
                                  /\ t.SQ[x].fetched <=> x \in {q} \/ SQ[x].fetched
  <2>1. CASE x # q
    <3>1. t.SQ[x] = SQ[x]
      BY <1>7, <1>8, <1>9, <2>1
    <3>2. QED
      BY <1>7, <2>1, <3>1
  <2>2. CASE x = q
    <3>1. t.SQ[x] = [SQ[q] EXCEPT !.fetched = TRUE] /\ SQ[q] \in SqEntry
      BY <1>4, <1>7, <1>8, <1>9, <2>2
    <3>2. t.SQ[x] \in SqEntry /\ t.SQ[x].instr = SQ[q].instr /\ t.SQ[x].operand = SQ[q].operand
          /\ t.SQ[x].fetched = TRUE
      BY <3>1 DEF SqEntry
    <3>3. t.SQ[x] # Empty
      BY <3>2 DEF SqEntry, Empty
    <3>4. QED
      BY <1>4, <2>2, <3>2, <3>3
  <2>3. QED
    BY <2>1, <2>2
<1>13. t.SQ \in [SqSlots -> SqEntry \cup {Empty}]
  <2>1. \A x \in SqSlots : t.SQ[x] \in SqEntry \cup {Empty}
    BY <1>12
  <2>2. t.SQ = [SQ EXCEPT ![q].fetched = TRUE]
    BY <1>8, <1>9
  <2>3. t.SQ = [x \in SqSlots |-> t.SQ[x]]
    BY <1>7, <2>2
  <2>4. QED
    BY <2>1, <2>3
<1>14. /\ t.LQ \in [LqSlots -> LqEntry \cup {Empty}]
       /\ \A x \in LqSlots : t.LQ[x] = IF x \in W THEN Empty ELSE LQ[x]
  BY <1>7, <1>8, <1>9
<1>15. /\ ready' \in [Lists -> Seq(Nat)] /\ \A l \in Lists : IsInjective(ready'[l])
       /\ Range(ready'["RTS1"]) = Range(ready["RTS1"]) \ {q}
       /\ ready'["RTL0"] = ready["RTL0"] /\ ready'["RTS0"] = ready["RTS0"]
       /\ ready'["RTL1"] = ready["RTL1"]
  BY <1>1, <1>2, <1>3, AskedNow DEF Lists
<1>16. t.done = inflight_executions
                + Cardinality({j \in Instrs : ROB[j].num_mem_ops \in 1 .. E[j]})
  <2>1. {j \in Instrs : ROB[j].num_mem_ops \in 1 .. E[j]} =
        {j \in Instrs : ROB[j].num_mem_ops \in 1 .. OpsEnded(q, j)}
    OBVIOUS
  <2> HIDE DEF E
  <2>2. QED
    BY <1>8, <1>9, <2>1
<1> HIDE DEF E
<1>17. Ends(State, t, W, {q}, E)
  <2>1. DOMAIN t.ROB = Instrs
    BY <1>8, <1>9
  <2>2. \A j \in Instrs :
          /\ t.ROB[j] \in RobEntry(j)
          /\ E[j] = Cardinality(LoadsOf(State, W, j)) + Cardinality(StoresOf(State, {q}, j))
          /\ E[j] = 0 => t.ROB[j] = ROB[j]
          /\ t.ROB[j].executed = ROB[j].executed
          /\ t.ROB[j].num_mem_ops = ROB[j].num_mem_ops - E[j]
          /\ t.ROB[j].lq_index = ROB[j].lq_index
          /\ t.ROB[j].sq_index = ROB[j].sq_index
          /\ t.ROB[j].memory_instrs_depend_on_me = ROB[j].memory_instrs_depend_on_me
    BY <1>10, <1>11
  <2>3. \A x \in SqSlots :
          /\ t.SQ[x] = Empty <=> SQ[x] = Empty
          /\ SQ[x] # Empty => /\ t.SQ[x].instr = SQ[x].instr
                              /\ t.SQ[x].operand = SQ[x].operand
                              /\ t.SQ[x].fetched <=> x \in {q} \/ SQ[x].fetched
    BY <1>12
  <2>4. DOMAIN t = Fields /\ t.SQ_tail = SQ_tail /\ t.STA = STA
        /\ t.ready \in [Lists -> Seq(Nat)]
    BY <1>9, <1>15
  <2>5. QED
    BY <1>13, <1>14, <1>16, <2>1, <2>2, <2>3, <2>4, StateFields DEF Ends
<1>18. GotRight(t)
  <2>1. /\ DOMAIN t.got = DOMAIN got \cup N /\ \A y \in DOMAIN got : t.got[y] = got[y]
        /\ \A y \in N : y \notin DOMAIN got => t.got[y] = p
    BY <1>8, <1>9 DEF Reads
  <2>2. ASSUME NEW y \in N PROVE Youngest(Stored(y[1], loads(y[1])[y[2]])) = p
    <3>1. PICK x \in W : y = <<LQ[x].instr, LQ[x].operand>>
      BY <2>2
    <3> DEFINE i == LQ[x].instr
               k == LQ[x].operand
    <3>2. i \in Window /\ LastWriter(i, loads(i)[k], p)
      BY <1>4, <1>5, <3>1, StateFields DEF Settled, LoadsPlaced, ProducerLast, Address
    <3>3. Youngest(Stored(i, loads(i)[k])) = p
      BY <1>4, <1>6, <3>2, LastStored
    <3>4. y[1] = i /\ y[2] = k
      BY <3>1
    <3>5. QED
      BY <3>3, <3>4
  <2>3. GotRight(State)
    BY <1>4 DEF Settled
  <2> HIDE DEF N
  <2>4. ASSUME NEW load \in DOMAIN t.got
        PROVE  t.got[load] = Youngest(Stored(load[1], loads(load[1])[load[2]]))
    BY <2>1, <2>2, <2>3, StateFields DEF GotRight
  <2>5. QED
    BY <2>4 DEF GotRight
<1>19. ASSUME NEW x \in LqSlots \ W, LQ[x] # Empty, LQ[x].producer # 0
       PROVE  ~Forwards(t, LQ[x].producer, Address(LQ[x]))
  <2>1. SUFFICES ASSUME NEW y \in Used(t.SQ), t.SQ[y].instr = LQ[x].producer,
                        stores(LQ[x].producer)[t.SQ[y].operand] = Address(LQ[x]), t.SQ[y].fetched
                 PROVE  FALSE
    BY DEF Forwards
  <2>2. ~Forwards(State, LQ[x].producer, Address(LQ[x]))
    BY <1>4, <1>19, StateFields DEF Settled, ProducerWakes
  <2>3. y \in SqSlots /\ t.SQ[y] # Empty
    BY <1>13, <2>1 DEF Used
  <2>4. CASE y # q
    <3>1. t.SQ[y] = SQ[y] /\ y \in Used(SQ)
      BY <1>7, <1>12, <2>3, <2>4 DEF Used
    <3>2. QED
      BY <2>1, <2>2, <3>1, StateFields DEF Forwards
  <2>5. CASE y = q
    <3>1. t.SQ[y].instr = p /\ t.SQ[y].operand = SQ[q].operand
      BY <1>4, <1>12, <2>5
    <3>2. LQ[x].producer = p /\ Address(LQ[x]) = a
      BY <2>1, <3>1
    <3>3. QED
      BY <1>5, <1>19, <3>2
  <2>6. QED
    BY <2>4, <2>5
<1>20. Settled(t)
  <2>1. W \subseteq {x \in LqSlots : State.LQ[x] # Empty}
        /\ {q} \subseteq {x \in SqSlots : Executes(State, x)}
    BY <1>4, <1>5, StateFields
  <2>2. QED
    BY <1>4, <1>17, <1>18, <1>19, <2>1, EndsKeep, StateFields
<1>21. Becomes(t)
  BY <1>1, <1>9 DEF Becomes, s
<1>22. /\ \A x \in LqSlots : Waits(t, x) <=> Waits(State, x)
       /\ \A x \in SqSlots : Executes(t, x) <=> x # q /\ Executes(State, x)
  BY <1>5, <1>6, <1>12, <1>14, StateFields DEF Waits, Executes
<1>23. UNCHANGED <<program, head, tail, WQ, DTLB>> /\ L1D' = L1D
  BY <1>1
<1>24. QED
  BY <1>3, <1>4, <1>15, <1>20, <1>21, <1>22, <1>23, AskedNow, EndNext

(***************************************************************************)
(* The window moves: dispatch at its end, retirement at its beginning.     *)
(***************************************************************************)
LEMMA NextState ==
  /\ (State.ROB)' = ROB' /\ (State.LQ)' = LQ' /\ (State.SQ)' = SQ' /\ (State.SQ_tail)' = SQ_tail'
  /\ (State.STA)' = STA' /\ (State.ready)' = ready' /\ (State.done)' = inflight_executions'
  /\ (State.got)' = got' /\ (DOMAIN State)' = Fields
BY DEF State, Fields

LEMMA InvParts ==
  ASSUME LsqInv
  PROVE  /\ WindowOK /\ CachesTyped /\ Settled(State)
         /\ Typed(State) /\ FreshOutside(State) /\ LoadsPlaced(State) /\ ProducerLast(State)
         /\ ProducerWakes(State) /\ StoresPlaced(State) /\ Ring(State) /\ StaSorted(State)
         /\ Counted(State) /\ DoneFirst(State) /\ DoneCounted(State) /\ GotRight(State)
         /\ LoadsAsked(State) /\ StoresAsked(State)
BY DEF LsqInv, Queued, Settled

LEMMA DispatchKeeps ==
  ASSUME LsqInv, Dispatch
  PROVE  LsqInv'
<1> DEFINE n == Len(stores(tail))
           added == [k \in DOMAIN stores(tail) |-> tail]
<1>1. /\ tail \in Instrs /\ tail - head < ROB_SIZE /\ tail' = tail + 1
      /\ STA' = STA \o added
      /\ UNCHANGED <<program, head, ROB, LQ, SQ, SQ_tail, ready, DTLB, L1D, WQ,
                     inflight_executions, got>>
  BY DEF Dispatch
<1>2. /\ WindowOK /\ CachesTyped /\ Typed(State) /\ FreshOutside(State) /\ LoadsPlaced(State)
      /\ ProducerLast(State) /\ ProducerWakes(State) /\ StoresPlaced(State) /\ Ring(State)
      /\ StaSorted(State) /\ Counted(State) /\ DoneFirst(State) /\ DoneCounted(State)
      /\ GotRight(State) /\ LoadsAsked(State) /\ StoresAsked(State)
  BY InvParts
<1>3. /\ head \in Nat \ {0} /\ tail \in Nat /\ head <= tail /\ Instrs = 1 .. Len(program)
      /\ Len(program) \in Nat /\ ROB_SIZE \in Nat
  BY <1>2, Operands, OldestSlots DEF WindowOK
<1>4. /\ DOMAIN stores(tail) = 1 .. n /\ n \in Nat
      /\ is_memory(tail) => Len(loads(tail)) + Len(stores(tail)) > 0
      /\ Len(loads(tail)) + Len(stores(tail)) \in Nat
  BY <1>1, <1>2, Operands DEF WindowOK
<1>5. WindowOK'
  BY <1>1, <1>2, <1>3 DEF WindowOK
<1>6. Window' = Window \cup {tail} /\ tail \notin Window
  BY <1>1, <1>3 DEF Window
<1>7. /\ UNCHANGED <<program, head>> /\ ROB' = ROB /\ LQ' = LQ /\ SQ' = SQ /\ SQ_tail' = SQ_tail
      /\ ready' = ready /\ inflight_executions' = inflight_executions /\ got' = got
      /\ Instrs' = Instrs
  BY <1>1 DEF Instrs
<1>8. /\ STA \in Seq(Nat) /\ STA' \in Seq(Nat)
      /\ Len(STA) \in Nat /\ Len(STA') = Len(STA) + n
      /\ \A m \in 1 .. Len(STA') : STA'[m] = IF m <= Len(STA) THEN STA[m] ELSE tail
  <2>1. added \in Seq(Nat) /\ Len(added) = n /\ \A m \in 1 .. n : added[m] = tail
    <3>1. added \in [1 .. n -> Nat]
      BY <1>3, <1>4
    <3>2. added \in Seq(Nat)
      BY <1>4, <3>1, SeqDef
    <3>3. QED
      BY <1>4, <3>2, LenProperties
  <2>2. STA \in Seq(Nat)
    BY <1>2, StateFields DEF Typed
  <2> HIDE DEF added, n
  <2>3. /\ STA' \in Seq(Nat) /\ Len(STA') = Len(STA) + Len(added)
        /\ \A m \in 1 .. Len(STA) + Len(added) :
             STA'[m] = IF m <= Len(STA) THEN STA[m] ELSE added[m - Len(STA)]
    BY <1>1, <2>1, <2>2, ConcatProperties
  <2>4. Len(STA) \in Nat
    BY <2>2, LenProperties
  <2>5. QED
    BY <1>4, <2>1, <2>2, <2>3, <2>4
<1> HIDE DEF added, n
<1>9. Typed(State)'
  BY <1>2, <1>7, <1>8, NextState, StateFields DEF Typed, RobEntry, loads, stores, Instrs
<1>10. FreshOutside(State)'
  BY <1>2, <1>6, <1>7, NextState, StateFields DEF FreshOutside, Fresh, loads, stores
<1>11. LoadsPlaced(State)'
  BY <1>2, <1>6, <1>7, NextState, StateFields DEF LoadsPlaced, loads
<1>12. ProducerLast(State)'
  BY <1>2, <1>7, NextState, StateFields DEF ProducerLast, LastWriter, Address, Writes, loads, stores
<1>13. ProducerWakes(State)'
  BY <1>2, <1>7, NextState, StateFields DEF ProducerWakes, Forwards, Used, Address, loads, stores
<1>14. StoresPlaced(State)'
  BY <1>2, <1>6, <1>7, NextState, StateFields DEF StoresPlaced, stores
<1>15. Ring(State)'
  BY <1>2, <1>7, NextState, StateFields DEF Ring, Age
<1>16. StaSorted(State)'
  <2>1. /\ \A m \in 1 .. Len(STA) : STA[m] < tail /\ STA[m] \in Nat
        /\ \A m, k \in 1 .. Len(STA) : m <= k => STA[m] <= STA[k]
        /\ \A q \in SqSlots : SQ[q] # Empty =>
             /\ \A m \in 1 .. Len(STA) : SQ[q].instr <= STA[m]
             /\ SQ[q].instr \in Nat /\ SQ[q].instr < tail
    <3>1. \A m \in 1 .. Len(STA) : STA[m] \in Nat
      BY <1>8, ElementOfSeq
    <3>2. \A q \in SqSlots : SQ[q] # Empty => SQ[q].instr \in Nat /\ SQ[q].instr < tail
      BY <1>2, WindowType, StateFields DEF StoresPlaced
    <3>3. QED
      BY <1>2, <3>1, <3>2, StateFields DEF StaSorted
  <2>2. ASSUME NEW m \in 1 .. Len(STA') PROVE STA'[m] < tail + 1
    <3>1. CASE m <= Len(STA)
      <4>1. m \in 1 .. Len(STA) /\ STA'[m] = STA[m]
        BY <1>4, <1>8, <3>1 DEF n
      <4>2. QED
        BY <1>3, <2>1, <4>1
    <3>2. CASE ~(m <= Len(STA))
      BY <1>3, <1>8, <3>2
    <3>3. QED
      BY <3>1, <3>2
  <2>3. ASSUME NEW m \in 1 .. Len(STA'), NEW k \in 1 .. Len(STA'), m <= k
        PROVE  STA'[m] <= STA'[k]
    <3>1. m \in Nat /\ k \in Nat /\ m >= 1 /\ k >= 1
      BY <1>4, <1>8 DEF n
    <3>2. CASE k <= Len(STA)
      BY <1>8, <2>1, <2>3, <3>1, <3>2
    <3>3. CASE ~(k <= Len(STA))
      <4>1. STA'[k] = tail /\ (m <= Len(STA) => STA'[m] = STA[m] /\ m \in 1 .. Len(STA))
            /\ (~(m <= Len(STA)) => STA'[m] = tail)
        BY <1>8, <3>1, <3>3
      <4>2. QED
        BY <1>3, <2>1, <4>1
    <3>4. QED
      BY <3>2, <3>3
  <2>4. ASSUME NEW q \in SqSlots, SQ'[q] # Empty, NEW m \in 1 .. Len(STA')
        PROVE  SQ'[q].instr <= STA'[m]
    <3>1. SQ'[q] = SQ[q] /\ SQ[q] # Empty
      BY <1>7, <2>4
    <3>2. CASE m <= Len(STA)
      <4>1. m \in 1 .. Len(STA) /\ STA'[m] = STA[m]
        BY <1>4, <1>8, <3>2 DEF n
      <4>2. QED
        BY <2>1, <3>1, <4>1
    <3>3. CASE ~(m <= Len(STA))
      BY <1>3, <1>8, <2>1, <3>1, <3>3
    <3>4. QED
      BY <3>2, <3>3
  <2>5. QED
    BY <1>1, <2>2, <2>3, <2>4, NextState DEF StaSorted
<1>17. Counted(State)'
  <2>1. ASSUME NEW j \in Instrs
        PROVE  /\ LoadsOut(State, j)' = LoadsOut(State, j)
               /\ StoresOut(State, j)' = StoresOut(State, j)
               /\ LoadsIn(State, j)' = LoadsIn(State, j)
               /\ StoresIn(State, j)' = StoresIn(State, j)
    BY <1>7, NextState, StateFields DEF LoadsOut, StoresOut, LoadsIn, StoresIn, loads, stores
  <2>2. QED
    BY <1>2, <1>7, <2>1, NextState, StateFields DEF Counted
<1>18. DoneFirst(State)'
  BY <1>2, <1>7, NextState, StateFields DEF DoneFirst, is_memory, loads, stores
<1>19. DoneCounted(State)'
  <2>1. ROB[tail].executed = "no" /\ (is_memory(tail) => ROB[tail].num_mem_ops # 0)
    <3>1. ROB[tail] = Fresh(tail)
      BY <1>1, <1>2, <1>6, StateFields DEF FreshOutside
    <3>2. QED
      BY <1>4, <3>1 DEF Fresh
  <2>2. ToComplete(State)' = ToComplete(State)
    BY <1>6, <1>7, <2>1, NextState, StateFields DEF ToComplete, is_memory, loads, stores
  <2>3. QED
    BY <1>2, <1>7, <2>2, NextState, StateFields DEF DoneCounted
<1>20. GotRight(State)'
  BY <1>2, <1>7, NextState, StateFields DEF GotRight, Stored, Writes, loads, stores
<1>21. LoadsAsked(State)' /\ StoresAsked(State)' /\ CachesTyped'
  BY <1>1, <1>2, <1>7, NextState, StateFields
     DEF LoadsAsked, StoresAsked, Waits, Executes, Listed, CachesTyped
<1>22. QED
  BY <1>1, <1>5, <1>9, <1>10, <1>11, <1>12, <1>13, <1>14, <1>15, <1>16, <1>17, <1>18, <1>19,
     <1>20, <1>21 DEF LsqInv, Queued, Settled

(* What the head has left when it retires: nothing in the LQ, its slots of *)
(* the SQ, all with their data, and nobody who waits for it.               *)
LEMMA HeadIsDone ==
  ASSUME LsqInv, head \in Window, ROB[head].executed = "COMPLETED"
  PROVE  /\ \A x \in LqSlots : LQ[x] # Empty => LQ[x].instr # head /\ LQ[x].producer # head
         /\ \A x \in SqSlots : x \in Range(ROB[head].sq_index) <=> SQ[x] # Empty /\ SQ[x].instr = head
         /\ \A x \in SqSlots : SQ[x] # Empty /\ SQ[x].instr = head => SQ[x].fetched
<1> DEFINE h == head
           A == LoadsIn(State, h)
           B == StoresIn(State, h)
           C == StoresOut(State, h)
<1>1. /\ WindowOK /\ Settled(State)
      /\ LoadsPlaced(State) /\ ProducerLast(State) /\ ProducerWakes(State) /\ StoresPlaced(State)
      /\ Counted(State) /\ DoneFirst(State) /\ Typed(State)
  BY InvParts
<1>2. h \in Instrs /\ h \in Nat \ {0}
  BY <1>1, WindowType
<1>3. A = {} /\ B = {} /\ C = {}
  <2>1. CASE is_memory(h)
    <3>1. ROB[h].num_mem_ops = 0
      BY <1>1, <1>2, <2>1, StateFields DEF DoneFirst
    <3>2. ROB[h].num_mem_ops = Cardinality(LoadsOut(State, h)) + Cardinality(C)
                               + Cardinality(A) + Cardinality(B)
      BY <1>1, <1>2, StateFields DEF Counted
    <3>3. /\ IsFiniteSet(A) /\ Cardinality(A) \in Nat /\ IsFiniteSet(B) /\ Cardinality(B) \in Nat
          /\ IsFiniteSet(C) /\ Cardinality(C) \in Nat /\ Cardinality(LoadsOut(State, h)) \in Nat
      BY <1>1, <1>2, PartsFinite
    <3> HIDE DEF A, B, C
    <3>4. Cardinality(A) = 0 /\ Cardinality(B) = 0 /\ Cardinality(C) = 0
      BY <3>1, <3>2, <3>3
    <3>5. QED
      BY <3>3, <3>4, FS_EmptySet
  <2>2. CASE ~is_memory(h)
    <3>1. DOMAIN loads(h) = {} /\ DOMAIN stores(h) = {}
      BY <1>1, <1>2, <2>2, Operands DEF is_memory, WindowOK
    <3>2. A = {}
      BY <1>1, <3>1, StateFields DEF LoadsPlaced, LoadsIn
    <3>3. B = {}
      BY <1>1, <3>1, StateFields DEF StoresPlaced, StoresIn
    <3>4. C = {}
      BY <3>1 DEF StoresOut
    <3>5. QED
      BY <3>2, <3>3, <3>4
  <2>3. QED
    BY <2>1, <2>2
<1>4. \A x \in LqSlots : LQ[x] # Empty => LQ[x].instr # h
  BY <1>3, StateFields DEF LoadsIn
<1>5. \A x \in SqSlots : SQ[x] # Empty /\ SQ[x].instr = h => SQ[x].fetched
  BY <1>3, StateFields DEF StoresIn
<1>6. /\ \A k \in DOMAIN stores(h) : ROB[h].sq_index[k] \in SqSlots /\ ROB[h].sq_index[k] # None
      /\ DOMAIN ROB[h].sq_index = DOMAIN stores(h)
  BY <1>1, <1>2, <1>3, StateFields DEF StoresOut, Typed, RobEntry
<1>7. \A k \in DOMAIN stores(h) : LET e == SQ[ROB[h].sq_index[k]]
                                  IN e # Empty /\ e.instr = h /\ e.operand = k
  BY <1>1, <1>2, <1>6, StateFields DEF StoresPlaced
<1>8. ASSUME NEW x \in SqSlots
      PROVE  x \in Range(ROB[h].sq_index) <=> SQ[x] # Empty /\ SQ[x].instr = h
  <2>1. ASSUME x \in Range(ROB[h].sq_index) PROVE SQ[x] # Empty /\ SQ[x].instr = h
    BY <1>6, <1>7, <2>1 DEF Range
  <2>2. ASSUME SQ[x] # Empty, SQ[x].instr = h PROVE x \in Range(ROB[h].sq_index)
    <3>1. SQ[x].operand \in DOMAIN stores(h) /\ ROB[h].sq_index[SQ[x].operand] = x
      BY <1>1, <2>2, StateFields DEF StoresPlaced
    <3>2. QED
      BY <1>6, <3>1 DEF Range
  <2>3. QED
    BY <2>1, <2>2
<1>9. ASSUME NEW x \in LqSlots, LQ[x] # Empty, LQ[x].producer = h PROVE FALSE
  <2>1. LastWriter(LQ[x].instr, Address(LQ[x]), h) /\ ~Forwards(State, h, Address(LQ[x]))
    BY <1>1, <1>2, <1>9, StateFields DEF ProducerLast, ProducerWakes
  <2>2. Writes(h, Address(LQ[x]))
    BY <1>2, <2>1 DEF LastWriter
  <2>3. PICK k \in DOMAIN stores(h) : stores(h)[k] = Address(LQ[x])
    BY <2>2 DEF Writes, Range
  <2> DEFINE q == ROB[h].sq_index[k]
  <2>4. q \in SqSlots /\ SQ[q] # Empty /\ SQ[q].instr = h /\ SQ[q].operand = k /\ SQ[q].fetched
    BY <1>5, <1>6, <1>7
  <2> HIDE DEF q
  <2>5. q \in Used(SQ)
    BY <1>1, <2>4, StateFields DEF Typed, Used
  <2>6. Forwards(State, h, Address(LQ[x]))
    BY <2>3, <2>4, <2>5, StateFields DEF Forwards
  <2>7. QED
    BY <2>1, <2>6
<1>10. QED
  BY <1>4, <1>5, <1>8, <1>9

LEMMA RetireKeeps ==
  ASSUME LsqInv, retire_rob
  PROVE  LsqInv'
<1> DEFINE h == head
           R == Range(ROB[head].sq_index)
<1>1. /\ h \in Window /\ ROB[h].executed = "COMPLETED"
      /\ Cardinality(WQ) + Len(stores(h)) <= WQ_SIZE
      /\ WQ' = WQ \cup Range(stores(h))
      /\ SQ' = [q \in SqSlots |-> IF q \in R THEN Empty ELSE SQ[q]]
      /\ ROB' = [ROB EXCEPT ![h] = Fresh(h)]
      /\ head' = h + 1
      /\ UNCHANGED <<program, tail, LQ, SQ_tail, STA, ready, DTLB, L1D, inflight_executions, got>>
  BY DEF retire_rob
<1>2. /\ WindowOK /\ CachesTyped /\ Typed(State) /\ FreshOutside(State) /\ LoadsPlaced(State)
      /\ ProducerLast(State) /\ ProducerWakes(State) /\ StoresPlaced(State) /\ Ring(State)
      /\ StaSorted(State) /\ Counted(State) /\ DoneFirst(State) /\ DoneCounted(State)
      /\ GotRight(State) /\ LoadsAsked(State) /\ StoresAsked(State)
  BY InvParts
<1>3. /\ h \in Nat \ {0} /\ tail \in Nat /\ h < tail /\ h \in Instrs /\ Instrs = 1 .. Len(program)
      /\ ROB_SIZE \in Nat
  BY <1>1, <1>2, WindowType, Operands, OldestSlots DEF WindowOK
<1>4. /\ \A x \in LqSlots : LQ[x] # Empty => LQ[x].instr # h /\ LQ[x].producer # h
      /\ \A x \in SqSlots : x \in R <=> SQ[x] # Empty /\ SQ[x].instr = h
      /\ \A x \in SqSlots : SQ[x] # Empty /\ SQ[x].instr = h => SQ[x].fetched
  BY <1>1, HeadIsDone
<1>5. WindowOK'
  BY <1>1, <1>2, <1>3 DEF WindowOK
<1>6. Window' = Window \ {h} /\ \A j \in Window : j \in Instrs
  BY <1>1, <1>2, <1>3, WindowType DEF Window
<1>7. /\ program' = program /\ LQ' = LQ /\ SQ_tail' = SQ_tail /\ STA' = STA /\ ready' = ready
      /\ inflight_executions' = inflight_executions /\ got' = got /\ Instrs' = Instrs
      /\ DTLB' = DTLB /\ L1D' = L1D /\ tail' = tail
  BY <1>1 DEF Instrs
<1>8. /\ DOMAIN ROB' = Instrs /\ ROB'[h] = Fresh(h)
      /\ \A j \in Instrs : j # h => ROB'[j] = ROB[j]
  BY <1>1, <1>2, <1>3, StateFields DEF Typed
<1>9. /\ SQ' \in [SqSlots -> SqEntry \cup {Empty}]
      /\ \A x \in SqSlots : SQ'[x] = IF x \in R THEN Empty ELSE SQ[x]
  BY <1>1, <1>2, StateFields DEF Typed
<1>10. \A x \in SqSlots : SQ'[x] # Empty => SQ'[x] = SQ[x] /\ SQ[x].instr # h
  BY <1>4, <1>9
<1> DEFINE f == Fresh(h)
<1>11. /\ f \in RobEntry(h) /\ f.executed = "no"
       /\ f.num_mem_ops = Len(loads(h)) + Len(stores(h))
       /\ \A k \in DOMAIN loads(h) : f.lq_index[k] = None
       /\ \A k \in DOMAIN stores(h) : f.sq_index[k] = None
  <2>1. Len(loads(h)) + Len(stores(h)) \in Int
    BY <1>2, <1>3, Operands DEF WindowOK
  <2>2. QED
    BY <2>1 DEF Fresh, RobEntry, Progress
<1> HIDE DEF h, R, f
<1>12. IsFiniteSet(WQ') /\ Cardinality(WQ') <= WQ_SIZE
  <2> DEFINE S == Range(stores(h))
             n == Len(stores(h))
  <2>1. stores(h) \in Surjection(1 .. n, S) /\ n \in Nat
    <3>1. DOMAIN stores(h) = 1 .. n /\ n \in Nat /\ stores(h) \in Seq(S)
      BY <1>2, <1>3, Operands DEF WindowOK
    <3>2. stores(h) \in [1 .. n -> S]
      BY <3>1
    <3>3. QED
      BY <3>1, <3>2 DEF Range, Surjection
  <2>2. IsFiniteSet(1 .. n) /\ Cardinality(1 .. n) = n
    <3>1. IsFiniteSet(1 .. n) /\ Cardinality(1 .. n) = IF 1 > n THEN 0 ELSE n - 1 + 1
      BY <2>1, FS_Interval
    <3>2. QED
      BY <2>1, <3>1
  <2> HIDE DEF n, S
  <2>3. IsFiniteSet(S) /\ Cardinality(S) <= n
    BY <2>1, <2>2, FS_Surjection
  <2>4. IsFiniteSet(WQ) /\ Cardinality(WQ) \in Nat /\ Cardinality(S) \in Nat
    BY <2>3, FS_CardinalityType DEF LsqInv
  <2>5. IsFiniteSet(WQ \cup S)
        /\ Cardinality(WQ \cup S) = Cardinality(WQ) + Cardinality(S) - Cardinality(WQ \cap S)
    BY <2>3, <2>4, FS_Union
  <2>6. Cardinality(WQ \cap S) \in Nat
    BY <2>4, FS_Intersection, FS_CardinalityType
  <2>7. Cardinality(WQ) + n <= WQ_SIZE /\ WQ' = WQ \cup S /\ WQ_SIZE \in Nat
    BY <1>1, OldestSlots DEF h, n, S
  <2>8. QED
    BY <2>1, <2>3, <2>4, <2>5, <2>6, <2>7
<1>13. Typed(State)'
  <2>1. ASSUME NEW j \in Instrs PROVE ROB'[j] \in RobEntry(j)
    BY <1>2, <1>8, <1>11, StateFields DEF Typed, f
  <2>2. QED
    BY <1>2, <1>7, <1>8, <1>9, <2>1, NextState, StateFields
       DEF Typed, RobEntry, loads, stores, Instrs
<1>14. FreshOutside(State)'
  BY <1>2, <1>6, <1>7, <1>8, NextState, StateFields DEF FreshOutside, Fresh, loads, stores
<1>15. LoadsPlaced(State)'
  <2>1. ASSUME NEW x \in LqSlots, LQ[x] # Empty
        PROVE  /\ LQ[x].instr \in Window' /\ LQ[x].operand \in DOMAIN loads(LQ[x].instr)
               /\ ROB'[LQ[x].instr].lq_index[LQ[x].operand] = x
    BY <1>2, <1>4, <1>6, <1>8, <2>1, StateFields DEF LoadsPlaced
  <2>2. QED
    BY <1>7, <2>1, NextState DEF LoadsPlaced, loads
<1>16. ProducerLast(State)'
  <2>1. ASSUME NEW x \in LqSlots, LQ[x] # Empty
        PROVE  LET i == LQ[x].instr
                   a == Address(LQ[x])
                   p == LQ[x].producer
               IN IF p = 0 THEN \A j \in h + 1 .. i - 1 : ~Writes(j, a)
                  ELSE /\ p \in h + 1 .. i - 1 /\ Writes(p, a)
                       /\ \A j \in p + 1 .. i - 1 : ~Writes(j, a)
    <3> DEFINE i == LQ[x].instr
               a == Address(LQ[x])
               p == LQ[x].producer
    <3>1. LastWriter(i, a, p) /\ i \in Nat /\ p # h
      BY <1>2, <1>4, <2>1, WindowType, StateFields DEF ProducerLast, LoadsPlaced
    <3> HIDE DEF i, a, p
    <3>2. CASE p = 0
      <4>1. \A j \in h .. i - 1 : ~Writes(j, a)
        BY <3>1, <3>2 DEF LastWriter, h
      <4>2. \A j \in h + 1 .. i - 1 : j \in h .. i - 1
        BY <1>3, <3>1
      <4>3. QED
        BY <3>2, <4>1, <4>2 DEF i, a, p
    <3>3. CASE p # 0
      <4>1. /\ p \in h .. i - 1 /\ Writes(p, a)
            /\ \A j \in p + 1 .. i - 1 : ~Writes(j, a)
        BY <3>1, <3>3 DEF LastWriter, h
      <4>2. p \in h + 1 .. i - 1
        BY <1>3, <3>1, <4>1
      <4>3. QED
        BY <3>3, <4>1, <4>2 DEF i, a, p
    <3>4. QED
      BY <3>2, <3>3
  <2>2. head' = h + 1
    BY <1>1 DEF h
  <2>3. QED
    BY <1>7, <2>1, <2>2, NextState DEF ProducerLast, LastWriter, Address, Writes, loads, stores
<1>17. ProducerWakes(State)'
  <2>1. ASSUME NEW x \in LqSlots, LQ[x] # Empty, LQ[x].producer # 0
        PROVE  /\ LQ[x].instr \in ROB'[LQ[x].producer].memory_instrs_depend_on_me
               /\ ~ \E q \in Used(SQ') :
                      /\ SQ'[q].instr = LQ[x].producer
                      /\ stores(LQ[x].producer)[SQ'[q].operand] = Address(LQ[x])
                      /\ SQ'[q].fetched
    <3>1. LQ[x].producer \in Instrs /\ LQ[x].producer # h
      BY <1>2, <1>4, <2>1, ProducerInWindow, StateFields
    <3>2. LQ[x].instr \in ROB[LQ[x].producer].memory_instrs_depend_on_me
          /\ ~Forwards(State, LQ[x].producer, Address(LQ[x]))
      BY <1>2, <2>1, StateFields DEF ProducerWakes
    <3>3. \A q \in Used(SQ') : q \in Used(SQ) /\ SQ'[q] = SQ[q]
      <4>1. DOMAIN SQ' = SqSlots /\ DOMAIN SQ = SqSlots
        BY <1>2, <1>9, StateFields DEF Typed
      <4>2. QED
        BY <1>9, <4>1 DEF Used
    <3>4. QED
      BY <1>8, <3>1, <3>2, <3>3, StateFields DEF Forwards
  <2>2. QED
    BY <1>7, <2>1, NextState DEF ProducerWakes, Forwards, Used, Address, loads, stores
<1>18. StoresPlaced(State)'
  <2>1. ASSUME NEW x \in SqSlots, SQ'[x] # Empty
        PROVE  /\ SQ'[x].instr \in Window' /\ SQ'[x].operand \in DOMAIN stores(SQ'[x].instr)
               /\ ROB'[SQ'[x].instr].sq_index[SQ'[x].operand] = x
    <3>1. SQ'[x] = SQ[x] /\ SQ[x].instr # h /\ SQ[x] # Empty
      BY <1>10, <2>1
    <3>2. QED
      BY <1>2, <1>6, <1>8, <3>1, StateFields DEF StoresPlaced
  <2>2. ASSUME NEW j \in Instrs, NEW k \in DOMAIN stores(j), ROB'[j].sq_index[k] # None
        PROVE  LET e == SQ'[ROB'[j].sq_index[k]] IN e # Empty /\ e.instr = j /\ e.operand = k
    <3>1. j # h
      BY <1>8, <1>11, <2>2 DEF f
    <3>2. ROB'[j] = ROB[j] /\ ROB[j].sq_index[k] \in SqSlots
      BY <1>2, <1>8, <2>2, <3>1, StateFields DEF Typed, RobEntry
    <3> DEFINE x == ROB[j].sq_index[k]
    <3>3. SQ[x] # Empty /\ SQ[x].instr = j /\ SQ[x].operand = k
      BY <1>2, <2>2, <3>2, StateFields DEF StoresPlaced
    <3>4. SQ'[x] = SQ[x]
      BY <1>4, <1>9, <3>1, <3>2, <3>3
    <3>5. QED
      BY <3>2, <3>3, <3>4
  <2>3. QED
    BY <1>7, <2>1, <2>2, NextState DEF StoresPlaced, stores
<1>19. Ring(State)'
  <2>1. ASSUME NEW q \in SqSlots, NEW r \in SqSlots, SQ'[q] # Empty, Age(State, r) <= Age(State, q)
        PROVE  SQ'[r] # Empty /\ SQ'[q].instr <= SQ'[r].instr
    <3>1. SQ'[q] = SQ[q] /\ SQ[q].instr # h /\ SQ[q] # Empty
      BY <1>10, <2>1
    <3>2. SQ[r] # Empty /\ SQ[q].instr <= SQ[r].instr
      BY <1>2, <2>1, <3>1, StateFields DEF Ring
    <3>3. /\ SQ[q].instr \in Nat /\ SQ[r].instr \in Nat /\ h <= SQ[q].instr
      BY <1>2, <3>1, <3>2, WindowType, StateFields DEF StoresPlaced, h
    <3>4. SQ[r].instr # h
      BY <1>3, <3>1, <3>2, <3>3
    <3>5. SQ'[r] = SQ[r]
      BY <1>4, <1>9, <3>4
    <3>6. QED
      BY <3>1, <3>2, <3>5
  <2>2. \A x : Age(State, x)' = Age(State, x)
    BY <1>7, NextState, StateFields DEF Age
  <2>3. QED
    BY <2>1, <2>2, NextState DEF Ring
<1>20. StaSorted(State)'
  BY <1>2, <1>7, <1>10, NextState, StateFields DEF StaSorted
<1>21. ASSUME NEW j \in Instrs
       PROVE  /\ LoadsIn(State, j)' = LoadsIn(State, j)
              /\ StoresIn(State, j)' = StoresIn(State, j)
              /\ j # h => LoadsOut(State, j)' = LoadsOut(State, j)
                          /\ StoresOut(State, j)' = StoresOut(State, j)
  <2>1. LoadsIn(State, j)' = LoadsIn(State, j)
    BY <1>7, NextState, StateFields DEF LoadsIn
  <2>2. StoresIn(State, j)' = StoresIn(State, j)
    BY <1>4, <1>9, NextState, StateFields DEF StoresIn
  <2>3. ASSUME j # h PROVE LoadsOut(State, j)' = LoadsOut(State, j)
                           /\ StoresOut(State, j)' = StoresOut(State, j)
    BY <1>7, <1>8, <2>3, NextState, StateFields DEF LoadsOut, StoresOut, loads, stores
  <2>4. QED
    BY <2>1, <2>2, <2>3
<1>22. ASSUME NEW j \in Instrs, j = h
       PROVE  /\ LoadsIn(State, j) = {} /\ StoresIn(State, j) = {}
              /\ LoadsOut(State, j)' = DOMAIN loads(j) /\ StoresOut(State, j)' = DOMAIN stores(j)
  <2>1. LoadsIn(State, j) = {} /\ StoresIn(State, j) = {}
    BY <1>4, <1>22, StateFields DEF LoadsIn, StoresIn
  <2>2. ROB'[j] = f
    BY <1>8, <1>22 DEF f
  <2>3. /\ loads(j)' = loads(j) /\ stores(j)' = stores(j)
        /\ \A k \in DOMAIN loads(j) : ROB'[j].lq_index[k] = None
        /\ \A k \in DOMAIN stores(j) : ROB'[j].sq_index[k] = None
    BY <1>7, <1>11, <1>22, <2>2 DEF loads, stores
  <2>4. LoadsOut(State, j)' = DOMAIN loads(j) /\ StoresOut(State, j)' = DOMAIN stores(j)
    BY <2>3, NextState DEF LoadsOut, StoresOut
  <2>5. QED
    BY <2>1, <2>4
<1>23. Counted(State)'
  <2>1. ASSUME NEW j \in Instrs
        PROVE  ROB'[j].num_mem_ops =
                 Cardinality(LoadsOut(State, j)') + Cardinality(StoresOut(State, j)')
                 + Cardinality(LoadsIn(State, j)') + Cardinality(StoresIn(State, j)')
    <3>1. CASE j # h
      <4>1. ROB[j].num_mem_ops = Cardinality(LoadsOut(State, j)) + Cardinality(StoresOut(State, j))
                 + Cardinality(LoadsIn(State, j)) + Cardinality(StoresIn(State, j))
        BY <1>2, StateFields DEF Counted
      <4>2. QED
        BY <1>8, <1>21, <3>1, <4>1
    <3>2. CASE j = h
      <4>1. ROB'[j].num_mem_ops = Len(loads(h)) + Len(stores(h))
        BY <1>8, <1>11, <3>2 DEF f
      <4>2. /\ DOMAIN loads(h) = 1 .. Len(loads(h)) /\ Len(loads(h)) \in Nat
            /\ DOMAIN stores(h) = 1 .. Len(stores(h)) /\ Len(stores(h)) \in Nat
        BY <1>2, <1>3, Operands DEF WindowOK
      <4>3. \A n \in Nat : Cardinality(1 .. n) = n
        <5>1. TAKE n \in Nat
        <5>2. Cardinality(1 .. n) = IF 1 > n THEN 0 ELSE n - 1 + 1
          BY FS_Interval
        <5>3. QED
          BY <5>2
      <4>4. /\ Cardinality(DOMAIN loads(h)) = Len(loads(h))
            /\ Cardinality(DOMAIN stores(h)) = Len(stores(h))
        BY <4>2, <4>3
      <4>5. QED
        <5>1. /\ LoadsIn(State, j)' = {} /\ StoresIn(State, j)' = {}
              /\ LoadsOut(State, j)' = DOMAIN loads(j)
              /\ StoresOut(State, j)' = DOMAIN stores(j)
          BY <1>21, <1>22, <3>2
        <5>2. QED
          BY <3>2, <4>1, <4>2, <4>4, <5>1, FS_EmptySet
    <3>3. QED
      BY <3>1, <3>2
  <2>2. QED
    BY <1>7, <2>1, NextState DEF Counted
<1>24. DoneFirst(State)'
  <2>1. ASSUME NEW j \in Instrs, is_memory(j), ROB'[j].executed = "COMPLETED"
        PROVE  ROB'[j].num_mem_ops = 0
    BY <1>2, <1>8, <1>11, <2>1, StateFields DEF DoneFirst, f
  <2>2. QED
    BY <1>7, <2>1, NextState DEF DoneFirst, is_memory, loads, stores
<1>25. DoneCounted(State)'
  <2>1. h \notin ToComplete(State)
    BY <1>1, StateFields DEF ToComplete, h
  <2>2. \A j \in Window' : ROB'[j] = ROB[j]
    BY <1>6, <1>8
  <2>3. ToComplete(State)' = ToComplete(State)
    BY <1>6, <1>7, <2>1, <2>2, NextState, StateFields DEF ToComplete, is_memory, loads, stores
  <2>4. QED
    BY <1>2, <1>7, <2>3, NextState, StateFields DEF DoneCounted
<1>26. GotRight(State)'
  BY <1>2, <1>7, NextState, StateFields DEF GotRight, Stored, Writes, loads, stores
<1>27. LoadsAsked(State)' /\ CachesTyped'
  BY <1>2, <1>7, NextState, StateFields DEF LoadsAsked, Waits, Listed, CachesTyped
<1>28. StoresAsked(State)'
  <2>1. \A x \in SqSlots : Executes(State, x)' <=> Executes(State, x)
    BY <1>4, <1>9, NextState, StateFields DEF Executes
  <2>2. QED
    BY <1>2, <1>7, <2>1, NextState, StateFields DEF StoresAsked, Listed
<1>29. QED
  BY <1>5, <1>12, <1>13, <1>14, <1>15, <1>16, <1>17, <1>18, <1>19, <1>20, <1>23, <1>24, <1>25,
     <1>26, <1>27, <1>28 DEF LsqInv, Queued, Settled

(***************************************************************************)
(* The invariant holds.                                                    *)
(***************************************************************************)
LEMMA IntervalSize ==
  ASSUME NEW n \in Nat
  PROVE  IsFiniteSet(1 .. n) /\ Cardinality(1 .. n) = n
<1>1. IsFiniteSet(1 .. n) /\ Cardinality(1 .. n) = IF 1 > n THEN 0 ELSE n - 1 + 1
  BY FS_Interval
<1>2. QED
  BY <1>1

LEMMA InitInv ==
  ASSUME Init
  PROVE  LsqInv
<1>1. /\ program \in Programs /\ head = 1 /\ tail = 1
      /\ ROB = [i \in Instrs |-> Fresh(i)]
      /\ LQ = [q \in LqSlots |-> Empty] /\ SQ = [q \in SqSlots |-> Empty] /\ SQ_tail = 0
      /\ STA = <<>> /\ ready = [l \in Lists |-> <<>>]
      /\ DTLB = {} /\ L1D = {} /\ WQ = {} /\ inflight_executions = 0 /\ got = <<>>
  BY DEF Init, Lists
<1>2. /\ Len(program) \in Nat /\ Instrs = 1 .. Len(program) /\ ROB_SIZE \in Nat
      /\ 0 \in SqSlots /\ WQ_SIZE \in Nat
  BY <1>1, Operands, OldestSlots DEF SqSlots
<1>3. WindowOK /\ Window = {}
  BY <1>1, <1>2 DEF WindowOK, Window
<1>4. ASSUME NEW i \in Instrs
      PROVE  /\ ROB[i] = Fresh(i) /\ Fresh(i) \in RobEntry(i) /\ ROB[i].executed = "no"
             /\ ROB[i].num_mem_ops = Len(loads(i)) + Len(stores(i))
             /\ \A k \in DOMAIN loads(i) : ROB[i].lq_index[k] = None
             /\ \A k \in DOMAIN stores(i) : ROB[i].sq_index[k] = None
  <2>1. Len(loads(i)) + Len(stores(i)) \in Int
    BY <1>1, Operands
  <2>2. QED
    BY <1>1, <2>1 DEF Fresh, RobEntry, Progress
<1>5. \A l \in Lists : ready[l] = <<>> /\ Range(ready[l]) = {} /\ IsInjective(ready[l])
  BY <1>1 DEF Range, IsInjective
<1>6. Typed(State)
  <2>1. <<>> \in Seq(Nat)
    BY EmptySeq
  <2>2. QED
    BY <1>1, <1>2, <1>4, <2>1, StateFields DEF Typed
<1>7. FreshOutside(State)
  BY <1>4, StateFields DEF FreshOutside
<1>8. LoadsPlaced(State) /\ ProducerLast(State) /\ ProducerWakes(State)
  BY <1>1, StateFields DEF LoadsPlaced, ProducerLast, ProducerWakes
<1>9. StoresPlaced(State) /\ Ring(State)
  BY <1>1, <1>4, StateFields DEF StoresPlaced, Ring
<1>10. StaSorted(State)
  BY <1>1, EmptySeq, StateFields DEF StaSorted
<1>11. Counted(State)
  <2>1. ASSUME NEW i \in Instrs
        PROVE  ROB[i].num_mem_ops =
                 Cardinality(LoadsOut(State, i)) + Cardinality(StoresOut(State, i))
                 + Cardinality(LoadsIn(State, i)) + Cardinality(StoresIn(State, i))
    <3>1. /\ LoadsOut(State, i) = 1 .. Len(loads(i)) /\ Len(loads(i)) \in Nat
          /\ StoresOut(State, i) = 1 .. Len(stores(i)) /\ Len(stores(i)) \in Nat
      BY <1>1, <1>4, Operands, StateFields DEF LoadsOut, StoresOut
    <3>2. LoadsIn(State, i) = {} /\ StoresIn(State, i) = {}
      BY <1>1, StateFields DEF LoadsIn, StoresIn
    <3>3. QED
      BY <1>4, <3>1, <3>2, IntervalSize, FS_EmptySet
  <2>2. QED
    BY <2>1, StateFields DEF Counted
<1>12. DoneFirst(State)
  BY <1>4, StateFields DEF DoneFirst
<1>13. DoneCounted(State)
  <2>1. ToComplete(State) = {}
    BY <1>3 DEF ToComplete
  <2>2. QED
    BY <1>1, <2>1, FS_EmptySet, StateFields DEF DoneCounted
<1>14. LoadsAsked(State) /\ StoresAsked(State)
  BY <1>1, <1>5, StateFields DEF LoadsAsked, StoresAsked, Waits, Executes, Listed, Lists
<1>15. GotRight(State)
  BY <1>1, StateFields DEF GotRight
<1>16. CachesTyped /\ IsFiniteSet(WQ) /\ Cardinality(WQ) <= WQ_SIZE
  BY <1>1, <1>2, FS_EmptySet DEF CachesTyped
<1>17. QED
  BY <1>3, <1>6, <1>7, <1>8, <1>9, <1>10, <1>11, <1>12, <1>13, <1>14, <1>15, <1>16
     DEF LsqInv, Queued, Settled

LEMMA StutterKeeps ==
  ASSUME LsqInv, UNCHANGED vars
  PROVE  LsqInv'
<1>1. Becomes(State)
  BY StateFields DEF Becomes, vars, queues
<1>2. UNCHANGED <<program, head, tail, DTLB, L1D, WQ>>
  BY DEF vars
<1>3. QED
  BY <1>1, <1>2, InvNext DEF LsqInv

(* The inductive invariant: what every slot, list, counter and index of    *)
(* the queues says of the others, in every reachable state.                *)
THEOREM LsqInvariant == Spec => []LsqInv
<1>1. Init => LsqInv
  BY InitInv
<1>2. LsqInv /\ [Next]_vars => LsqInv'
  <2> SUFFICES ASSUME LsqInv, [Next]_vars PROVE LsqInv'
    OBVIOUS
  <2>1. CASE Dispatch
    BY <2>1, DispatchKeeps
  <2>2. ASSUME NEW i \in Instrs, OutOfOrder(i) PROVE LsqInv'
    BY <2>2, ScheduleKeeps, ExecutionKeeps, CompletionKeeps, SchedulingKeeps DEF OutOfOrder
  <2>3. CASE Translate("RTS0", "RTS1")
    BY <2>3, TranslateKeeps DEF Lists
  <2>4. CASE execute_store
    BY <2>4, StoreKeeps
  <2>5. CASE Translate("RTL0", "RTL1")
    BY <2>5, TranslateKeeps DEF Lists
  <2>6. CASE execute_load
    BY <2>6, LoadKeeps
  <2>7. CASE Translated
    BY <2>7, TranslatedKeeps
  <2>8. CASE LoadDone
    BY <2>8, LoadDoneKeeps
  <2>9. CASE retire_rob
    BY <2>9, RetireKeeps
  <2>10. CASE DrainWQ
    BY <2>10, DrainKeeps
  <2>11. CASE UNCHANGED vars
    BY <2>11, StutterKeeps
  <2>12. QED
    BY <2>1, <2>2, <2>3, <2>4, <2>5, <2>6, <2>7, <2>8, <2>9, <2>10, <2>11 DEF Next, operate_lsq
<1>3. QED
  BY <1>1, <1>2, PTL DEF Spec

(***************************************************************************)
(* What follows from it.                                                   *)
(***************************************************************************)
LEMMA PartsAre ==
  ASSUME LsqInv, NEW i
  PROVE  /\ Owned(LQ, i) = LoadsIn(State, i)
         /\ {q \in Owned(SQ, i) : ~SQ[q].fetched} = StoresIn(State, i)
<1>1. DOMAIN LQ = LqSlots /\ DOMAIN SQ = SqSlots
  BY InvParts, StateFields DEF Typed
<1>2. QED
  BY <1>1, StateFields DEF Owned, Used, LoadsIn, StoresIn

LEMMA InvTypeOK ==
  ASSUME LsqInv
  PROVE  TypeOK
<1>1. /\ WindowOK /\ Typed(State) /\ LoadsPlaced(State) /\ ProducerLast(State)
      /\ StoresPlaced(State) /\ Counted(State) /\ DoneCounted(State)
  BY InvParts
<1>2. head <= tail /\ tail - head <= ROB_SIZE
  BY <1>1 DEF WindowOK
<1>3. ASSUME NEW i \in Instrs PROVE ROB[i].num_mem_ops \in Nat
  <2>1. /\ Cardinality(LoadsOut(State, i)) \in Nat /\ Cardinality(StoresOut(State, i)) \in Nat
        /\ Cardinality(LoadsIn(State, i)) \in Nat /\ Cardinality(StoresIn(State, i)) \in Nat
    BY <1>1, PartsFinite
  <2>2. ROB[i].num_mem_ops = Cardinality(LoadsOut(State, i)) + Cardinality(StoresOut(State, i))
                  + Cardinality(LoadsIn(State, i)) + Cardinality(StoresIn(State, i))
    BY <1>1, StateFields DEF Counted
  <2>3. QED
    BY <2>1, <2>2
<1>4. ASSUME NEW q \in Used(LQ)
      PROVE  LQ[q].instr \in Window /\ LQ[q].producer \in 0 .. LQ[q].instr - 1
  <2>1. q \in LqSlots /\ LQ[q] # Empty
    BY <1>1, StateFields DEF Typed, Used
  <2>2. LQ[q].instr \in Window /\ LastWriter(LQ[q].instr, Address(LQ[q]), LQ[q].producer)
    BY <1>1, <2>1, StateFields DEF LoadsPlaced, ProducerLast
  <2>3. LQ[q].instr \in Nat \ {0} /\ head \in Nat
    BY <1>1, <2>2, WindowType
  <2>4. LQ[q].producer = 0 \/ LQ[q].producer \in head .. LQ[q].instr - 1
    BY <2>2 DEF LastWriter
  <2>5. QED
    BY <2>2, <2>3, <2>4
<1>5. ASSUME NEW q \in Used(SQ) PROVE SQ[q].instr \in Window /\ SQ[q].fetched \in BOOLEAN
  <2>1. q \in SqSlots /\ SQ[q] # Empty /\ SQ[q] \in SqEntry
    BY <1>1, StateFields DEF Typed, Used
  <2>2. QED
    BY <1>1, <2>1, StateFields DEF StoresPlaced, SqEntry
<1>6. /\ \A l \in {"RTL0", "RTL1"} : Range(ready[l]) \subseteq LqSlots
      /\ \A l \in {"RTS0", "RTS1"} : Range(ready[l]) \subseteq SqSlots
      /\ L1D \subseteq LqSlots
  BY AskedNow
<1>7. inflight_executions \in Nat
  <2>1. ToComplete(State) \in SUBSET Window /\ IsFiniteSet(Window)
    BY <1>1, WindowType DEF ToComplete
  <2>2. Cardinality(ToComplete(State)) \in Nat
    BY <2>1, FS_Subset, FS_CardinalityType
  <2>3. QED
    BY <1>1, <2>2, StateFields DEF DoneCounted
<1>8. Cardinality(WQ) <= WQ_SIZE
  BY DEF LsqInv
<1>9. QED
  BY <1>2, <1>3, <1>4, <1>5, <1>6, <1>7, <1>8 DEF TypeOK

(* Slots, lists and counters are within their types: num_mem_ops and       *)
(* inflight_executions never count below zero, which the assertions of     *)
(* the code watch over, and the L1D's write queue never overflows.         *)
THEOREM LsqTyped == Spec => []TypeOK
<1>1. LsqInv => TypeOK
  BY InvTypeOK
<1>2. QED
  BY <1>1, LsqInvariant, PTL

(* Every load reads what it would read in program order, whichever way it  *)
(* got its data: forwarded as it entered the queue, woken by the store it  *)
(* waited for, or from the cache.                                          *)
THEOREM ReadsAreRight == Spec => []ReadsInProgramOrder
<1>1. LsqInv => ReadsInProgramOrder
  BY InvParts, StateFields DEF GotRight, ReadsInProgramOrder, Stored
<1>2. QED
  BY <1>1, LsqInvariant, PTL

(* num_mem_ops and inflight_executions count what is left to do.           *)
THEOREM CountsAreRight == Spec => []OperandsCounted
<1>1. LsqInv => OperandsCounted
  <2> SUFFICES ASSUME LsqInv PROVE OperandsCounted
    OBVIOUS
  <2>1. Counted(State) /\ DoneCounted(State) /\ \A i \in Window : i \in Instrs
    BY InvParts, WindowType
  <2>2. ASSUME NEW i \in Window
        PROVE  ROB[i].num_mem_ops =
                   Cardinality({k \in DOMAIN loads(i)  : ROB[i].lq_index[k] = None})
                 + Cardinality({k \in DOMAIN stores(i) : ROB[i].sq_index[k] = None})
                 + Cardinality(Owned(LQ, i))
                 + Cardinality({q \in Owned(SQ, i) : ~SQ[q].fetched})
    BY <2>1, PartsAre, StateFields DEF Counted, LoadsOut, StoresOut
  <2>3. QED
    BY <2>1, <2>2, StateFields DEF OperandsCounted, DoneCounted, ToComplete
<1>2. QED
  BY <1>1, LsqInvariant, PTL

(* A list without duplicates holds a slot once or not at all.              *)
LEMMA HeldOnce ==
  ASSUME NEW l \in Seq(Nat), IsInjective(l), NEW q
  PROVE  Cardinality({n \in DOMAIN l : l[n] = q}) = IF q \in Range(l) THEN 1 ELSE 0
<1> DEFINE S == {n \in DOMAIN l : l[n] = q}
<1>1. CASE q \in Range(l)
  <2>1. PICK n \in DOMAIN l : l[n] = q
    BY <1>1 DEF Range
  <2>2. S = {n}
    BY <2>1 DEF IsInjective
  <2>3. QED
    BY <1>1, <2>2, FS_Singleton
<1>2. CASE q \notin Range(l)
  <2>1. S = {}
    BY <1>2 DEF Range
  <2>2. QED
    BY <1>2, <2>1, FS_EmptySet
<1>3. QED
  BY <1>1, <1>2

(* Every load of the queue is waited for by exactly one list or cache, or  *)
(* by a store that knows it and has not executed: none is stranded.        *)
THEOREM NoneStranded == Spec => []NoLoadStranded
<1>1. LsqInv => NoLoadStranded
  <2> SUFFICES ASSUME LsqInv, NEW q \in Used(LQ)
               PROVE  IF LQ[q].producer = 0
         THEN Cardinality({n \in DOMAIN ready["RTL0"] : ready["RTL0"][n] = q})
              + Cardinality({n \in DOMAIN ready["RTL1"] : ready["RTL1"][n] = q})
              + Cardinality({r \in DTLB : r = <<"RTL1", q>>})
              + Cardinality({q} \cap L1D) = 1
         ELSE /\ LQ[q].producer \in Window
              /\ LQ[q].instr \in ROB[LQ[q].producer].memory_instrs_depend_on_me
              /\ ~Forwards(State, LQ[q].producer, Address(LQ[q]))
    BY DEF NoLoadStranded, Address
  <2>1. /\ WindowOK /\ LoadsPlaced(State) /\ ProducerLast(State) /\ ProducerWakes(State)
        /\ q \in LqSlots /\ LQ[q] # Empty
    BY InvParts, StateFields DEF Typed, Used
  <2>2. CASE LQ[q].producer # 0
    BY <2>1, <2>2, ProducerInWindow, StateFields DEF ProducerWakes
  <2>3. CASE LQ[q].producer = 0
    <3>1. Waits(State, q)
      BY <2>1, <2>3, StateFields DEF Waits
    <3>2. /\ Cardinality({n \in DOMAIN ready["RTL0"] : ready["RTL0"][n] = q})
               = IF q \in Range(ready["RTL0"]) THEN 1 ELSE 0
          /\ Cardinality({n \in DOMAIN ready["RTL1"] : ready["RTL1"][n] = q})
               = IF q \in Range(ready["RTL1"]) THEN 1 ELSE 0
      BY AskedNow, HeldOnce DEF Lists
    <3>3. Cardinality({r \in DTLB : r = <<"RTL1", q>>}) = IF <<"RTL1", q>> \in DTLB THEN 1 ELSE 0
      <4>1. {r \in DTLB : r = <<"RTL1", q>>} =
              IF <<"RTL1", q>> \in DTLB THEN {<<"RTL1", q>>} ELSE {}
        OBVIOUS
      <4>2. QED
        BY <4>1, FS_Singleton, FS_EmptySet
    <3>4. Cardinality({q} \cap L1D) = IF q \in L1D THEN 1 ELSE 0
      <4>1. {q} \cap L1D = IF q \in L1D THEN {q} ELSE {}
        OBVIOUS
      <4>2. QED
        BY <4>1, FS_Singleton, FS_EmptySet
    <3>5. QED
      BY <2>1, <2>3, <3>1, <3>2, <3>3, <3>4, AskedNow
  <2>4. QED
    BY <2>2, <2>3
<1>2. QED
  BY <1>1, LsqInvariant, PTL

(***************************************************************************)
(* The store queue is a ring.                                              *)
(***************************************************************************)
(* The slot of an age.                                                     *)
SlotOf(s, y) == IF y < s.SQ_tail THEN s.SQ_tail - 1 - y ELSE s.SQ_tail - 1 - y + SQ_SIZE

LEMMA SlotOfAge ==
  ASSUME NEW s, s.SQ_tail \in SqSlots, NEW y \in 0 .. SQ_SIZE - 1
  PROVE  /\ SlotOf(s, y) \in SqSlots /\ Age(s, SlotOf(s, y)) = y
         /\ (s.SQ_tail - 1 - y + SQ_SIZE) % SQ_SIZE = SlotOf(s, y)
<1>1. SQ_SIZE \in Nat \ {0} /\ SqSlots = 0 .. SQ_SIZE - 1
  BY OldestSlots DEF SqSlots
<1> DEFINE n == SQ_SIZE
           k == s.SQ_tail
<1>2. n \in Nat \ {0} /\ k \in 0 .. n - 1 /\ y \in 0 .. n - 1
  BY <1>1
<1>3. SlotOf(s, y) = IF y < k THEN k - 1 - y ELSE k - 1 - y + n
  BY DEF SlotOf
<1>4. \A x : Age(s, x) = IF x < k THEN k - 1 - x ELSE k - 1 - x + n
  BY DEF Age
<1> HIDE DEF n, k
<1>5. SlotOf(s, y) \in 0 .. n - 1 /\ Age(s, SlotOf(s, y)) = y
  BY <1>2, <1>3, <1>4
<1>6. \A x \in 0 .. n - 1 : x % n = x /\ (x + n) % n = x
  BY <1>2
<1>7. (k - 1 - y + n) % n = SlotOf(s, y)
  <2>1. CASE y < k
    <3>1. k - 1 - y \in 0 .. n - 1
      BY <1>2, <2>1
    <3>2. QED
      BY <1>3, <1>6, <2>1, <3>1
  <2>2. CASE ~(y < k)
    <3>1. k - 1 - y + n \in 0 .. n - 1
      BY <1>2, <2>2
    <3>2. QED
      BY <1>3, <1>6, <2>2, <3>1
  <2>3. QED
    BY <2>1, <2>2
<1>8. QED
  BY <1>1, <1>5, <1>7 DEF n, k

(* So many slots are younger than m slots.                                 *)
LEMMA YoungerSlots ==
  ASSUME NEW s, s.SQ_tail \in SqSlots, NEW m \in 0 .. SQ_SIZE
  PROVE  /\ IsFiniteSet({q \in SqSlots : Age(s, q) < m})
         /\ Cardinality({q \in SqSlots : Age(s, q) < m}) = m
<1> DEFINE T == {q \in SqSlots : Age(s, q) < m}
           g == [q \in T |-> Age(s, q) + 1]
<1>1. SQ_SIZE \in Nat \ {0} /\ IsFiniteSet(SqSlots) /\ m \in Nat
  BY OldestSlots
<1>2. \A x \in SqSlots : Age(s, x) \in 0 .. SQ_SIZE - 1
  BY AgeType
<1>3. g \in [T -> 1 .. m]
  BY <1>1, <1>2
<1>4. \A x, y \in T : g[x] = g[y] => x = y
  <2>1. ASSUME NEW x \in T, NEW y \in T, g[x] = g[y] PROVE x = y
    <3>1. Age(s, x) = Age(s, y)
      BY <1>2, <2>1
    <3>2. QED
      BY <3>1, AgeType
  <2>2. QED
    BY <2>1
<1>5. \A y \in 1 .. m : \E x \in T : g[x] = y
  <2>1. ASSUME NEW y \in 1 .. m PROVE \E x \in T : g[x] = y
    <3>1. y - 1 \in 0 .. SQ_SIZE - 1
      BY <1>1
    <3>2. SlotOf(s, y - 1) \in SqSlots /\ Age(s, SlotOf(s, y - 1)) = y - 1
      BY <3>1, SlotOfAge
    <3>3. SlotOf(s, y - 1) \in T /\ g[SlotOf(s, y - 1)] = y
      BY <1>1, <3>2
    <3>4. QED
      BY <3>3
  <2>2. QED
    BY <2>1
<1>6. IsFiniteSet(T)
  <2>1. T \in SUBSET SqSlots
    OBVIOUS
  <2>2. QED
    BY <1>1, <2>1, FS_Subset
<1> HIDE DEF T, g
<1>7. g \in Bijection(T, 1 .. m)
  BY <1>3, <1>4, <1>5 DEF Bijection, Injection, Surjection, IsInjective
<1>8. ExistsBijection(T, 1 .. m)
  BY <1>7 DEF ExistsBijection
<1>9. Cardinality(1 .. m) = Cardinality(T)
  BY <1>6, <1>8, FS_Bijection
<1>10. Cardinality(T) = m
  BY <1>1, <1>9, IntervalSize
<1>11. QED
  BY <1>6, <1>10 DEF T

(* The slots in use are the n youngest.                                    *)
LEMMA UsedAreYoungest ==
  ASSUME NEW s, Typed(s), Ring(s)
  PROVE  /\ Cardinality(Used(s.SQ)) \in 0 .. SQ_SIZE
         /\ \A q \in SqSlots : s.SQ[q] # Empty <=> Age(s, q) < Cardinality(Used(s.SQ))
<1> DEFINE U == Used(s.SQ)
           n == Cardinality(U)
<1>1. /\ s.SQ_tail \in SqSlots /\ DOMAIN s.SQ = SqSlots /\ SQ_SIZE \in Nat \ {0}
      /\ IsFiniteSet(SqSlots) /\ Cardinality(SqSlots) = SQ_SIZE
  BY OldestSlots DEF Typed
<1>2. U \in SUBSET SqSlots /\ \A q \in SqSlots : q \in U <=> s.SQ[q] # Empty
  BY <1>1 DEF Used
<1> HIDE DEF U
<1>3. IsFiniteSet(U) /\ n \in Nat /\ n <= SQ_SIZE
  BY <1>1, <1>2, FS_Subset, FS_CardinalityType
<1>4. ASSUME NEW q \in SqSlots
      PROVE  q \in U <=> Age(s, q) < n
  <2> DEFINE y == Age(s, q)
  <2>1. y \in 0 .. SQ_SIZE - 1 /\ \A r \in SqSlots : Age(s, r) \in 0 .. SQ_SIZE - 1
    BY <1>1, AgeType
  <2>2. CASE q \in U
    <3> DEFINE T == {r \in SqSlots : Age(s, r) < y + 1}
    <3>1. T \in SUBSET U
      BY <1>2, <2>1, <2>2 DEF Ring
    <3>2. y + 1 \in 0 .. SQ_SIZE
      BY <1>1, <2>1
    <3> DEFINE m == y + 1
    <3> HIDE DEF m
    <3>3. Cardinality({r \in SqSlots : Age(s, r) < m}) = m
      BY <1>1, <3>2, YoungerSlots DEF m
    <3>4. Cardinality(T) = y + 1
      BY <3>3 DEF m
    <3> HIDE DEF T, y
    <3>5. Cardinality(T) <= n
      BY <1>3, <3>1, FS_Subset
    <3>6. y < n
      BY <1>3, <2>1, <3>4, <3>5
    <3>7. QED
      BY <2>2, <3>6 DEF y
  <2>3. CASE q \notin U
    <3> DEFINE T == {r \in SqSlots : Age(s, r) < y}
    <3>1. U \in SUBSET T
      <4>1. ASSUME NEW r \in U PROVE r \in SqSlots /\ Age(s, r) < y
        <5>1. r \in SqSlots /\ s.SQ[r] # Empty /\ s.SQ[q] = Empty
          BY <1>2, <2>3
        <5>2. ~(y <= Age(s, r))
          BY <5>1 DEF Ring
        <5>3. QED
          BY <2>1, <5>1, <5>2
      <4>2. QED
        BY <4>1
    <3>2. y \in 0 .. SQ_SIZE
      BY <1>1, <2>1
    <3> HIDE DEF y
    <3>3. IsFiniteSet(T) /\ Cardinality(T) = y
      BY <1>1, <3>2, YoungerSlots
    <3> HIDE DEF T
    <3>4. n <= y
      BY <3>1, <3>3, FS_Subset
    <3>5. QED
      BY <1>3, <2>3, <3>2, <3>4 DEF y
  <2>4. QED
    BY <2>2, <2>3
<1>5. QED
  BY <1>1, <1>2, <1>3, <1>4 DEF U

(* The stores in the SQ are in program order, in one run of the ring that  *)
(* ends at the tail, and older than all that are still to come.            *)
THEOREM StoresAreInOrder == Spec => []StoresInOrder
<1>1. LsqInv => StoresInOrder
  <2> SUFFICES ASSUME LsqInv PROVE StoresInOrder
    OBVIOUS
  <2> DEFINE n == Cardinality(Used(SQ))
             At(m) == SQ[(SQ_tail - n + m + SQ_SIZE) % SQ_SIZE]
  <2>1. /\ Typed(State) /\ Ring(State) /\ StaSorted(State)
        /\ SQ_tail \in SqSlots /\ SQ_SIZE \in Nat \ {0} /\ SQ_tail \in Nat
    BY InvParts, OldestSlots, StateFields DEF Typed
  <2>2. /\ n \in 0 .. SQ_SIZE
        /\ \A q \in SqSlots : SQ[q] # Empty <=> Age(State, q) < n
    BY <2>1, UsedAreYoungest, StateFields
  <2> DEFINE Slot(m) == SlotOf(State, n - 1 - m)
  <2>3. ASSUME NEW m \in 0 .. n - 1
        PROVE  /\ Slot(m) \in SqSlots /\ Age(State, Slot(m)) = n - 1 - m
               /\ At(m) = SQ[Slot(m)] /\ SQ[Slot(m)] # Empty
    <3> HIDE DEF n
    <3> DEFINE y == n - 1 - m
    <3>1. /\ y \in 0 .. SQ_SIZE - 1 /\ y < n
          /\ SQ_tail - 1 - y + SQ_SIZE = SQ_tail - n + m + SQ_SIZE
      BY <2>1, <2>2, <2>3
    <3> HIDE DEF y
    <3>2. /\ SlotOf(State, y) \in SqSlots /\ Age(State, SlotOf(State, y)) = y
          /\ (SQ_tail - 1 - y + SQ_SIZE) % SQ_SIZE = SlotOf(State, y)
      BY <2>1, <3>1, SlotOfAge, StateFields
    <3>3. SQ[SlotOf(State, y)] # Empty
      BY <2>2, <3>1, <3>2
    <3>4. QED
      BY <3>1, <3>2, <3>3 DEF y
  <2> HIDE DEF n, Slot
  <2>4. \A m \in 0 .. n - 1 : At(m) # Empty
    BY <2>3
  <2>5. ASSUME NEW m \in 1 .. n - 1 PROVE At(m - 1).instr <= At(m).instr
    <3>1. m - 1 \in 0 .. n - 1 /\ m \in 0 .. n - 1
      BY <2>2
    <3>2. Age(State, Slot(m)) <= Age(State, Slot(m - 1))
      <4>1. Age(State, Slot(m)) = n - 1 - m /\ Age(State, Slot(m - 1)) = n - 1 - (m - 1)
        BY <2>3, <3>1
      <4>2. QED
        BY <2>2, <4>1
    <3>3. QED
      BY <2>1, <2>3, <3>1, <3>2, StateFields DEF Ring
  <2>6. ASSUME n > 0, STA # <<>> PROVE At(n - 1).instr <= Head(STA)
    <3>1. n - 1 \in 0 .. n - 1
      BY <2>2, <2>6
    <3>2. STA \in Seq(Nat) /\ Len(STA) \in Nat \ {0} /\ Head(STA) = STA[1]
      BY <2>1, <2>6, LenProperties, EmptySeq, StateFields DEF Typed
    <3> DEFINE q == Slot(n - 1)
    <3>3. q \in SqSlots /\ At(n - 1) = SQ[q] /\ SQ[q] # Empty
      BY <2>3, <3>1
    <3> HIDE DEF q
    <3>4. 1 \in 1 .. Len(STA)
      BY <3>2
    <3>5. SQ[q].instr <= STA[1]
      BY <2>1, <3>3, <3>4, StateFields DEF StaSorted
    <3>6. QED
      BY <3>2, <3>3, <3>5
  <2>7. QED
    BY <2>4, <2>5, <2>6 DEF StoresInOrder, n
<1>2. QED
  BY <1>1, LsqInvariant, PTL

==========================================================================
