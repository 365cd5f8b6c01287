-------------------------- MODULE ControllerProofs --------------------------
(***************************************************************************)
(* Proofs about MEMORY_CONTROLLER for queues, banks and latencies of any   *)
(* size and any number of requests.                                        *)
(***************************************************************************)
EXTENDS ControllerProperties, FiniteSetTheorems, FunctionTheorems, TLAPS

-----------------------------------------------------------------------------
(* The search for the earliest event.                                      *)

Before(q, s, t) == q[s].event < q[t].event \/ (q[s].event = q[t].event /\ s <= t)

(* A set of numbers has a least one.                                       *)
LEMMA LeastExists ==
  ASSUME NEW S, S \subseteq Nat, S # {}
  PROVE  \E x \in S : \A y \in S : x <= y
<1>1. PICK x \in S : \A y \in S : ~ (<<y, x>> \in OpToRel(<, Nat))
  BY NatLessThanWellFounded, WFMin
<1>2. \A y \in S : x <= y
  <2>1. TAKE y \in S
  <2>2. <<y, x>> \in Nat \X Nat
    BY <2>1, <1>1
  <2>3. ~ (y < x)
    BY <2>1, <2>2, <1>1 DEF OpToRel
  <2>4. QED
    BY <2>2, <2>3
<1>3. QED
  BY <1>2

(* So has a finite set of slots by their event cycles: the one that fewest *)
(* others come before.                                                     *)
LEMMA FirstExists ==
  ASSUME NEW q, NEW S, S \subseteq Nat, S # {}, IsFiniteSet(S),
         \A s \in S : q[s].event \in Int
  PROVE  \E s \in S : \A t \in S : Before(q, s, t)
<1> DEFINE earlier(s) == {t \in S : ~Before(q, s, t)}
           ranks == {Cardinality(earlier(s)) : s \in S}
<1>1. \A s \in S : IsFiniteSet(earlier(s)) /\ Cardinality(earlier(s)) \in Nat
  <2>1. TAKE s \in S
  <2>2. earlier(s) \in SUBSET S
    OBVIOUS
  <2>3. QED
    BY <2>2, FS_Subset, FS_CardinalityType
<1>2. PICK s \in S : \A t \in S : Cardinality(earlier(s)) <= Cardinality(earlier(t))
  <2>1. ranks \subseteq Nat /\ ranks # {}
    BY <1>1
  <2>2. PICK r \in ranks : \A u \in ranks : r <= u
    BY <2>1, LeastExists
  <2>3. QED
    BY <2>2
<1>3. ASSUME NEW t \in S, ~Before(q, s, t)
      PROVE  FALSE
  <2>1. earlier(t) \subseteq earlier(s)
    <3>1. SUFFICES ASSUME NEW u \in S, ~Before(q, t, u)
                   PROVE  ~Before(q, s, u)
      OBVIOUS
    <3>2. /\ s \in Nat /\ t \in Nat /\ u \in Nat
          /\ q[s].event \in Int /\ q[t].event \in Int /\ q[u].event \in Int
      BY <1>2, <1>3, <3>1
    <3>3. QED
      BY <1>3, <3>1, <3>2 DEF Before
  <2>2. t \in earlier(s) /\ t \notin earlier(t)
    <3>1. t \in Nat /\ q[t].event \in Int
      BY <1>3
    <3>2. Before(q, t, t)
      BY <3>1 DEF Before
    <3>3. QED
      BY <1>3, <3>2, Zenon
  <2> DEFINE A == earlier(s)  B == earlier(t)
  <2>3. IsFiniteSet(A) /\ Cardinality(A) \in Nat /\ Cardinality(B) \in Nat
        /\ Cardinality(A) <= Cardinality(B) /\ B \in SUBSET A /\ A # B
    BY <1>1, <1>2, <2>1, <2>2
  <2> HIDE DEF A, B
  <2>4. QED
    BY <2>3, FS_Subset
<1>4. QED
  BY <1>3

(* Earliest() returns a slot that no other comes before.                   *)
LEMMA EarliestIsFirst ==
  ASSUME NEW q, NEW S, S \subseteq Nat, S # {}, IsFiniteSet(S),
         \A s \in S : q[s].event \in Int
  PROVE  Earliest(q, S) \in S /\ \A t \in S : Before(q, Earliest(q, S), t)
<1>1. \E s \in S : \A t \in S : Before(q, s, t)
  BY FirstExists
<1>2. QED
  BY <1>1 DEF Earliest, Before

(* Two queues whose slots of S come in the same order have the same        *)
(* earliest slot.                                                          *)
LEMMA SameEarliest ==
  ASSUME NEW q, NEW r, NEW S, S \subseteq Nat, IsFiniteSet(S),
         \A s \in S : q[s].event \in Int /\ r[s].event \in Int,
         \A s, t \in S : Before(q, s, t) => Before(r, s, t)
  PROVE  Earliest(q, S) = Earliest(r, S)
<1>1. CASE S = {}
  BY <1>1 DEF Earliest
<1>2. CASE S # {}
  <2>1. Earliest(q, S) \in S /\ \A t \in S : Before(q, Earliest(q, S), t)
    BY <1>2, EarliestIsFirst
  <2>2. Earliest(r, S) \in S /\ \A t \in S : Before(r, Earliest(r, S), t)
    BY <1>2, EarliestIsFirst
  <2> DEFINE x == Earliest(q, S)  y == Earliest(r, S)
  <2> HIDE DEF x, y
  <2>3. x \in S /\ y \in S /\ Before(r, x, y) /\ Before(r, y, x)
    BY <2>1, <2>2 DEF x, y
  <2>4. x = y
    <3>1. /\ x \in Nat /\ y \in Nat /\ r[x].event \in Int /\ r[y].event \in Int
      BY <2>3
    <3>2. \/ r[x].event < r[y].event
          \/ r[x].event = r[y].event /\ x <= y
      BY <2>3, Zenon DEF Before
    <3>3. \/ r[y].event < r[x].event
          \/ r[y].event = r[x].event /\ y <= x
      BY <2>3, Zenon DEF Before
    <3>4. QED
      BY <3>1, <3>2, <3>3
  <2>5. QED
    BY <2>4 DEF x, y
<1>3. QED
  BY <1>1, <1>2

-----------------------------------------------------------------------------
(* Banks and slots.                                                        *)

(* A line's bank and row are in range.                                     *)
LEMMA BankOfLine ==
  ASSUME NEW a \in Nat
  PROVE  dram_get_bank(a) \in BankIds /\ dram_get_row(a) \in Nat
<1>1. dram_get_bank(a) \in BankIds
  BY McAssumption DEF dram_get_bank, BankIds
<1>2. dram_get_row(a) \in Nat
  <2> DEFINE n == Banks * Columns
  <2>1. n \in Nat \ {0}
    BY McAssumption
  <2> HIDE DEF n
  <2>2. a \div n \in Nat
    BY <2>1
  <2>3. QED
    BY <2>2 DEF dram_get_row, n
<1>3. QED
  BY <1>1, <1>2

(* The slots of a queue are a finite set of the queue's size.              *)
LEMMA SlotSets ==
  ASSUME NEW d \in Dirs
  PROVE  /\ Slots(d) \subseteq Nat \ {0} /\ IsFiniteSet(Slots(d))
         /\ Cardinality(Slots(d)) = IF d = "rd" THEN RqSize ELSE WqSize
<1>1. 1 \in Int /\ RqSize \in Nat \ {0} /\ WqSize \in Nat \ {0}
  BY McAssumption
<1>2. /\ IsFiniteSet(1 .. RqSize) /\ Cardinality(1 .. RqSize) = RqSize
      /\ IsFiniteSet(1 .. WqSize) /\ Cardinality(1 .. WqSize) = WqSize
  <2>1. RqSize \in Int /\ WqSize \in Int
    BY <1>1
  <2>2. /\ IsFiniteSet(1 .. RqSize)
        /\ Cardinality(1 .. RqSize) = IF 1 > RqSize THEN 0 ELSE RqSize - 1 + 1
    BY <2>1, <1>1, FS_Interval
  <2>3. /\ IsFiniteSet(1 .. WqSize)
        /\ Cardinality(1 .. WqSize) = IF 1 > WqSize THEN 0 ELSE WqSize - 1 + 1
    BY <2>1, <1>1, FS_Interval
  <2>4. QED
    BY <1>1, <2>2, <2>3
<1>3. QED
  BY <1>1, <1>2 DEF Slots, Dirs

(* The search for an empty slot succeeds where there is room.              *)
LEMMA EmptySlot ==
  ASSUME NEW d \in Dirs, NEW q, DOMAIN q = Slots(d),
         Occupancy(q) < (IF d = "rd" THEN RqSize ELSE WqSize)
  PROVE  FirstEmpty(q) \in Slots(d) /\ q[FirstEmpty(q)].addr = 0
<1> DEFINE S == Slots(d)  full == {s \in S : q[s].addr # 0}  free == {s \in S : q[s].addr = 0}
<1>1. free # {}
  <2>1. SUFFICES ASSUME free = {} PROVE FALSE
    OBVIOUS
  <2>2. full = S
    BY <2>1
  <2>3. Cardinality(full) < (IF d = "rd" THEN RqSize ELSE WqSize)
    BY DEF Occupancy
  <2>4. Cardinality(S) = IF d = "rd" THEN RqSize ELSE WqSize
    BY SlotSets
  <2> HIDE DEF S, full
  <2>5. QED
    BY <2>2, <2>3, <2>4, McAssumption
<1>2. free \subseteq Nat
  BY SlotSets
<1>3. PICK x \in free : \A y \in free : x <= y
  <2> HIDE DEF free
  <2>1. QED
    BY <1>1, <1>2, LeastExists
<1>4. x \in DOMAIN q /\ q[x].addr = 0 /\ \A t \in DOMAIN q : q[t].addr = 0 => x <= t
  BY <1>3
<1>5. QED
  BY <1>4 DEF FirstEmpty

-----------------------------------------------------------------------------
(* The inductive invariant.                                                *)

(* What TypeOK says, with the exact domains that EXCEPT needs, and without *)
(* what follows from the other parts.                                      *)
Typed ==
  /\ DOMAIN queue = Dirs /\ \A d \in Dirs : queue[d] \in [Slots(d) -> Slot]
  /\ DOMAIN nextSched = Dirs /\ DOMAIN nextProc = Dirs
  /\ scheduled \in [Dirs -> Int]
  /\ bank \in [BankIds -> Bank]
  /\ mode \in Dirs /\ dbus \in Int
  /\ stage \in {"callers", "returning", "switch", "schedule", "process"}
  /\ stage = "returning" => mode = "rd"
  /\ submitted \in 0 .. MaxRequests
  /\ owed \in [Addr -> Int]

(* A line is in a queue at most once: add_rq() and add_wq() merge.         *)
QueuedOnce ==
  \A d \in Dirs : \A s, t \in Queued(d) :
    queue[d][s].addr = queue[d][t].addr => s = t

Inv == /\ Typed /\ BankOwnsRequest /\ CountersMatch /\ CachedIndicesFresh
       /\ ReadReturnsOnce /\ QueuedOnce

(* An index of update_schedule_cycle() is a waiting slot, one of           *)
(* update_process_cycle() a scheduled one; 0 says there is none.           *)
LEMMA IndexFound ==
  ASSUME NEW d \in Dirs, NEW q \in [Slots(d) -> Slot], NEW S \in SUBSET Slots(d)
  PROVE  /\ S # {} => Earliest(q, S) \in S
         /\ S = {} => Earliest(q, S) = 0
<1>1. S \subseteq Nat /\ IsFiniteSet(S) /\ \A s \in S : q[s].event \in Int
  <2>1. S \subseteq Slots(d) /\ S \in SUBSET Slots(d)
    OBVIOUS
  <2>2. IsFiniteSet(S)
    BY <2>1, SlotSets, FS_Subset
  <2>3. \A s \in Slots(d) : q[s].event \in Int
    BY DEF Slot
  <2>4. QED
    BY <2>1, <2>2, <2>3, SlotSets
<1>2. CASE S = {}
  BY <1>2 DEF Earliest
<1>3. CASE S # {}
  <2>1. Earliest(q, S) \in S
    BY <1>1, <1>3, EarliestIsFirst
  <2>2. QED
    BY <2>1, <1>3
<1>4. QED
  BY <1>2, <1>3

(* A search over the same slots with the same events finds the same slot.  *)
LEMMA IndexKept ==
  ASSUME NEW d \in Dirs, NEW q, NEW r, NEW S \in SUBSET Slots(d),
         \A s \in S : q[s].event \in Int /\ q[s].event = r[s].event
  PROVE  Earliest(q, S) = Earliest(r, S)
<1>1. S \subseteq Nat /\ IsFiniteSet(S)
  <2>1. S \subseteq Slots(d) /\ S \in SUBSET Slots(d)
    OBVIOUS
  <2>2. QED
    BY <2>1, SlotSets, FS_Subset
<1>2. \A s, t \in S : Before(q, s, t) => Before(r, s, t)
  BY DEF Before
<1>3. QED
  BY <1>1, <1>2, SameEarliest

(* What a slot of a typed queue holds.                                     *)
LEMMA SlotTyped ==
  ASSUME Typed, NEW d \in Dirs, NEW s \in Slots(d)
  PROVE  /\ queue[d][s].addr \in Addr \cup {0} /\ queue[d][s].addr \in Nat
         /\ queue[d][s].sched \in BOOLEAN /\ queue[d][s].event \in Int
         /\ OnBank(d, s) \in BankIds
<1>1. queue[d] \in [Slots(d) -> Slot]
  BY DEF Typed
<1>2. queue[d][s] \in Slot
  BY <1>1
<1>3. queue[d][s].addr \in Addr \cup {0}
      /\ queue[d][s].sched \in BOOLEAN /\ queue[d][s].event \in Int
  BY <1>2 DEF Slot
<1>4. queue[d][s].addr \in Nat
  <2>1. \A a \in Addr \cup {0} : a \in Nat
    BY McAssumption
  <2>2. QED
    BY <1>3, <2>1
<1>5. OnBank(d, s) \in BankIds
  BY <1>4, BankOfLine DEF OnBank
<1>6. QED
  BY <1>3, <1>4, <1>5

(* Each bank serves one request, so that there are at most as many         *)
(* scheduled requests as banks.                                            *)
LEMMA OnePerBank ==
  ASSUME Inv, NEW d \in Dirs
  PROVE  /\ IsFiniteSet(Started(d))
         /\ Cardinality(Started(d)) \in 0 .. Banks
<1> DEFINE S == Started(d)
           f == [s \in S |-> OnBank(d, s)]
<1>1. IsFiniteSet(S)
  <2>1. S \in SUBSET Slots(d)
    BY DEF Started
  <2>2. QED
    BY <2>1, SlotSets, FS_Subset
<1>2. \A s \in S : OnBank(d, s) \in BankIds
  BY SlotTyped DEF Inv, Started
<1>3. \A s, t \in S : OnBank(d, s) = OnBank(d, t) => s = t
  BY DEF Inv, BankOwnsRequest
<1>4. f \in Injection(S, BankIds)
  BY <1>2, <1>3, Fun_IsInj
<1>5. IsFiniteSet(BankIds) /\ Cardinality(BankIds) = Banks
  <2>1. 0 \in Int /\ Banks - 1 \in Int /\ Banks \in Nat \ {0}
    BY McAssumption
  <2>2. IsFiniteSet(0 .. Banks - 1) /\ Cardinality(0 .. Banks - 1)
           = IF 0 > Banks - 1 THEN 0 ELSE Banks - 1 - 0 + 1
    BY <2>1, FS_Interval
  <2>3. QED
    BY <2>1, <2>2 DEF BankIds
<1>6. Cardinality(S) <= Cardinality(BankIds)
  <2> HIDE DEF S, f
  <2>1. QED
    BY <1>1, <1>4, <1>5, FS_Injection
<1>7. Cardinality(S) \in Nat
  BY <1>1, FS_CardinalityType
<1>8. QED
  BY <1>1, <1>5, <1>6, <1>7, McAssumption

-----------------------------------------------------------------------------
(* add_rq() and add_wq().                                                  *)

(* The slots that owe a return_data() for a line.                          *)
Held(a) == {s \in Queued("rd") : /\ queue["rd"][s].addr = a
                                 /\ ~(stage = "returning" /\ s = nextProc["rd"])}

(* The reads held for a line can be counted.                               *)
LEMMA HeldFinite ==
  ASSUME NEW a
  PROVE  IsFiniteSet(Held(a)) /\ Cardinality(Held(a)) \in Nat
<1>1. Held(a) \in SUBSET Slots("rd")
  BY DEF Held, Queued
<1>2. IsFiniteSet(Held(a))
  BY <1>1, SlotSets, FS_Subset DEF Dirs
<1>3. QED
  BY <1>2, FS_CardinalityType

(* A queued request changes one empty slot, and neither the scheduled      *)
(* requests nor their banks.                                               *)
LEMMA InsertKeeps ==
  ASSUME Inv, NEW d \in Dirs, NEW a \in Addr,
         Occupancy(queue[d]) < (IF d = "rd" THEN RqSize ELSE WqSize),
         a \notin Addresses(d), Insert(d, a),
         UNCHANGED <<nextProc, scheduled, bank, mode, dbus, stage>>
  PROVE  /\ FirstEmpty(queue[d]) \in Slots(d) \ Queued(d)
         /\ \A e \in Dirs : \A s \in Slots(e) :
              queue'[e][s] = IF e = d /\ s = FirstEmpty(queue[d])
                             THEN [addr |-> a, sched |-> FALSE, event |-> 0]
                             ELSE queue[e][s]
         /\ DOMAIN queue' = Dirs /\ \A e \in Dirs : queue'[e] \in [Slots(e) -> Slot]
         /\ DOMAIN nextSched' = Dirs
         /\ BankOwnsRequest' /\ CountersMatch' /\ CachedIndicesFresh' /\ QueuedOnce'
<1> DEFINE x == FirstEmpty(queue[d])
           no == FALSE
           new == [addr |-> a, sched |-> no, event |-> 0]
<1>0. /\ Typed /\ BankOwnsRequest /\ CountersMatch /\ CachedIndicesFresh /\ QueuedOnce
      /\ queue[d] \in [Slots(d) -> Slot]
  BY DEF Inv, Typed
<1>1. x \in Slots(d) /\ queue[d][x].addr = 0
  BY <1>0, EmptySlot
<1>2. x \notin Queued(d) /\ x \notin Started(d)
  BY <1>0, <1>1 DEF BankOwnsRequest, Queued
<1>3. /\ DOMAIN queue' = Dirs
      /\ queue'[d] = [queue[d] EXCEPT ![x] = new]
      /\ \A e \in Dirs : e # d => queue'[e] = queue[e]
  BY <1>0 DEF Insert, Typed
<1>4. a \in Nat \ {0} /\ new \in Slot /\ new.addr = a /\ ~new.sched /\ new.event = 0
  BY McAssumption DEF Slot
<1> HIDE DEF x, no, new
<1>5. \A e \in Dirs : \A s \in Slots(e) :
        queue'[e][s] = IF e = d /\ s = x THEN new ELSE queue[e][s]
  BY <1>0, <1>1, <1>3 DEF Typed
<1>6. \A e \in Dirs : queue'[e] \in [Slots(e) -> Slot]
  BY <1>0, <1>1, <1>3, <1>4 DEF Typed
<1>7. \A e \in Dirs : Started(e)' = Started(e)
        /\ \A s \in Started(e) : queue'[e][s] = queue[e][s]
  <2>1. TAKE e \in Dirs
  <2>2. \A s \in Slots(e) : queue'[e][s].sched <=> queue[e][s].sched
    BY <1>1, <1>2, <1>4, <1>5 DEF Started
  <2>3. \A s \in Started(e) : ~(e = d /\ s = x)
    BY <1>2
  <2>4. QED
    BY <2>2, <2>3, <1>5 DEF Started
<1>8. \A e \in Dirs : Queued(e)' = IF e = d THEN Queued(e) \cup {x} ELSE Queued(e)
  BY <1>1, <1>4, <1>5 DEF Queued
<1>9. BankOwnsRequest'
  <2>1. \A e \in Dirs : \A s \in Started(e) : OnBank(e, s)' = OnBank(e, s)
    BY <1>7 DEF OnBank
  <2>2. \A e \in Dirs : \A s \in Started(e) :
          /\ e = mode /\ s \in Queued(e)'
          /\ LET b == bank[OnBank(e, s)] IN
               /\ b.working /\ b.slot = s /\ b.dir = e
               /\ b.row = dram_get_row(queue'[e][s].addr)
    BY <1>0, <1>7, <1>8 DEF BankOwnsRequest
  <2>3. \A b \in BankIds : bank[b].working =>
          \E s \in Started(mode) : bank[b].slot = s /\ OnBank(mode, s)' = b
    BY <1>0, <2>1 DEF BankOwnsRequest, Typed
  <2>4. mode' = mode /\ bank' = bank /\ mode \in Dirs
    BY <1>0 DEF Typed
  <2>5. QED
    BY <1>7, <2>1, <2>2, <2>3, <2>4 DEF BankOwnsRequest
<1>10. CountersMatch'
  BY <1>0, <1>7 DEF CountersMatch
<1>11. DOMAIN nextSched' = Dirs
       /\ \A e \in Dirs : nextSched'[e] = update_schedule_cycle(queue'[e])
  <2>1. nextSched' = [nextSched EXCEPT ![d] = update_schedule_cycle(queue'[d])]
    BY DEF Insert
  <2>2. QED
    BY <1>0, <1>3, <2>1 DEF Typed, CachedIndicesFresh
<1>12. \A e \in Dirs : update_process_cycle(queue'[e]) = update_process_cycle(queue[e])
  <2>1. TAKE e \in Dirs
  <2> DEFINE q == queue[e]  r == queue'[e]  S == Started(e)
  <2>2. S \in SUBSET Slots(e) /\ \A s \in S : q[s].event \in Int /\ q[s].event = r[s].event
    BY <1>0, <1>7, SlotTyped DEF Started
  <2>3. {s \in DOMAIN q : q[s].sched} = S /\ {s \in DOMAIN r : r[s].sched} = S
    <3>1. DOMAIN q = Slots(e) /\ DOMAIN r = Slots(e)
      BY <1>0, <1>6 DEF Typed
    <3>2. {s \in Slots(e) : queue'[e][s].sched} = S
      BY <1>7 DEF Started
    <3>3. QED
      BY <3>1, <3>2 DEF Started
  <2> HIDE DEF q, r, S
  <2>4. Earliest(q, S) = Earliest(r, S)
    BY <2>2, IndexKept
  <2>5. QED
    BY <2>3, <2>4 DEF update_process_cycle, q, r
<1>13. CachedIndicesFresh'
  BY <1>0, <1>7, <1>11, <1>12 DEF CachedIndicesFresh
<1>14. QueuedOnce'
  <2>1. ASSUME NEW e \in Dirs, NEW s \in Queued(e)', NEW t \in Queued(e)',
               queue'[e][s].addr = queue'[e][t].addr
        PROVE  s = t
    <3>1. s \in Slots(e) /\ t \in Slots(e)
      BY <2>1 DEF Queued
    <3>2. CASE e # d
      BY <2>1, <3>1, <3>2, <1>0, <1>5, <1>8 DEF QueuedOnce
    <3>3. CASE e = d
      <4>1. \A u \in Queued(d) : queue[d][u].addr # a
        BY <1>4 DEF Addresses, Queued
      <4>2. QED
        BY <2>1, <3>1, <3>3, <4>1, <1>0, <1>2, <1>4, <1>5, <1>8 DEF QueuedOnce
    <3>4. QED
      BY <3>2, <3>3
  <2>2. QED
    BY <2>1 DEF QueuedOnce
<1>15. QED
  BY <1>1, <1>2, <1>3, <1>5, <1>6, <1>9, <1>10, <1>11, <1>13, <1>14 DEF x, new, no

(* add_rq() fills the first empty slot and searches again.                 *)
LEMMA AddReadKeeps ==
  ASSUME Inv, NEW a \in Addr, add_rq(a)
  PROVE  Inv'
<1>0. "rd" \in Dirs /\ Typed /\ ReadReturnsOnce /\ submitted' \in 0 .. MaxRequests
      /\ a \in Nat \ {0}
  BY McAssumption DEF Inv, add_rq, Send, Typed, Dirs
<1>1. CASE a \in Addresses("wr") \cup Addresses("rd")
  <2>1. UNCHANGED <<queue, nextSched, owed, nextProc, scheduled, bank, mode, dbus, stage>>
    BY <1>1 DEF add_rq
  <2>2. Typed' /\ ReadReturnsOnce' /\ QueuedOnce'
    BY <1>0, <2>1 DEF Inv, Typed, ReadReturnsOnce, QueuedOnce, Queued
  <2>3. BankOwnsRequest' /\ CountersMatch' /\ CachedIndicesFresh'
    BY <2>1 DEF Inv, BankOwnsRequest, CountersMatch, CachedIndicesFresh, Queued, Started,
                OnBank
  <2>4. QED
    BY <2>2, <2>3 DEF Inv
<1>2. CASE a \notin Addresses("wr") \cup Addresses("rd")
  <2> DEFINE x == FirstEmpty(queue["rd"])
  <2>1. /\ Insert("rd", a) /\ owed' = [owed EXCEPT ![a] = @ + 1]
        /\ Occupancy(queue["rd"]) < RqSize
        /\ UNCHANGED <<nextProc, scheduled, bank, mode, dbus, stage>>
    BY <1>2 DEF add_rq, Send
  <2>2. /\ x \in Slots("rd") \ Queued("rd")
        /\ \A e \in Dirs : \A s \in Slots(e) :
             queue'[e][s] = IF e = "rd" /\ s = x
                            THEN [addr |-> a, sched |-> FALSE, event |-> 0]
                            ELSE queue[e][s]
        /\ DOMAIN queue' = Dirs /\ \A e \in Dirs : queue'[e] \in [Slots(e) -> Slot]
        /\ DOMAIN nextSched' = Dirs
        /\ BankOwnsRequest' /\ CountersMatch' /\ CachedIndicesFresh' /\ QueuedOnce'
    BY <1>0, <1>2, <2>1, InsertKeeps
  <2> HIDE DEF x
  <2>3. Typed'
    BY <1>0, <2>1, <2>2 DEF Typed
  <2>4. ReadReturnsOnce'
    <3>1. \A s \in Slots("rd") :
            queue'["rd"][s].addr = IF s = x THEN a ELSE queue["rd"][s].addr
      BY <1>0, <2>2
    <3>2. Queued("rd")' = Queued("rd") \cup {x}
      BY <1>0, <2>2, <3>1 DEF Queued
    <3>3. stage = "returning" => x # nextProc["rd"]
      BY <2>2, <1>0 DEF Inv, CachedIndicesFresh, Typed, BankOwnsRequest
    <3>4. \A c \in Addr : Held(c)' = IF c = a THEN Held(c) \cup {x} ELSE Held(c)
      BY <2>1, <2>2, <3>1, <3>2, <3>3 DEF Held, Queued
    <3>5. x \notin Held(a)
      BY <2>2 DEF Held
    <3>6. Cardinality(Held(a) \cup {x}) = Cardinality(Held(a)) + 1
      BY <3>5, HeldFinite, FS_AddElement
    <3>7. \A c \in Addr : owed[c] = Cardinality(Held(c))
      BY <1>0 DEF ReadReturnsOnce, Held
    <3>8. \A c \in Addr : owed'[c] = Cardinality(Held(c)')
      BY <1>0, <2>1, <3>4, <3>6, <3>7 DEF Typed
    <3>9. QED
      BY <3>8 DEF ReadReturnsOnce, Held
  <2>5. QED
    BY <2>2, <2>3, <2>4 DEF Inv
<1>3. QED
  BY <1>1, <1>2

(* add_wq() does, unless it merges.                                        *)
LEMMA AddWriteKeeps ==
  ASSUME Inv, NEW a \in Addr, add_wq(a)
  PROVE  Inv'
<1>0. "wr" \in Dirs /\ "rd" \in Dirs /\ Typed /\ ReadReturnsOnce
      /\ submitted' \in 0 .. MaxRequests
  BY McAssumption DEF Inv, add_wq, Send, Typed, Dirs
<1>1. CASE a \in Addresses("wr")
  <2>1. UNCHANGED <<queue, nextSched, owed, nextProc, scheduled, bank, mode, dbus, stage>>
    BY <1>1 DEF add_wq
  <2>2. Typed' /\ ReadReturnsOnce' /\ QueuedOnce'
    BY <1>0, <2>1 DEF Inv, Typed, ReadReturnsOnce, QueuedOnce, Queued
  <2>3. BankOwnsRequest' /\ CountersMatch' /\ CachedIndicesFresh'
    BY <2>1 DEF Inv, BankOwnsRequest, CountersMatch, CachedIndicesFresh, Queued, Started,
                OnBank
  <2>4. QED
    BY <2>2, <2>3 DEF Inv
<1>2. CASE a \notin Addresses("wr")
  <2>1. /\ Insert("wr", a) /\ owed' = owed
        /\ Occupancy(queue["wr"]) < WqSize
        /\ UNCHANGED <<nextProc, scheduled, bank, mode, dbus, stage>>
    BY <1>2 DEF add_wq, Send
  <2>2. /\ \A e \in Dirs : \A s \in Slots(e) :
             queue'[e][s] = IF e = "wr" /\ s = FirstEmpty(queue["wr"])
                            THEN [addr |-> a, sched |-> FALSE, event |-> 0]
                            ELSE queue[e][s]
        /\ DOMAIN queue' = Dirs /\ \A e \in Dirs : queue'[e] \in [Slots(e) -> Slot]
        /\ DOMAIN nextSched' = Dirs
        /\ BankOwnsRequest' /\ CountersMatch' /\ CachedIndicesFresh' /\ QueuedOnce'
    BY <1>0, <1>2, <2>1, InsertKeeps
  <2>3. Typed'
    BY <1>0, <2>1, <2>2 DEF Typed
  <2>4. \A s \in Slots("rd") : queue'["rd"][s] = queue["rd"][s]
    BY <1>0, <2>2
  <2>5. ReadReturnsOnce'
    BY <1>0, <2>1, <2>4 DEF ReadReturnsOnce, Queued
  <2>6. QED
    BY <2>2, <2>3, <2>5 DEF Inv
<1>3. QED
  BY <1>1, <1>2

-----------------------------------------------------------------------------
(* operate(): the direction of the bus, and schedule().                    *)

(* No request enters or leaves a queue.                                    *)
SameLines == \A d \in Dirs : \A s \in Slots(d) :
               queue'[d][s].addr = queue[d][s].addr

(* A bank that was released is idle.                                       *)
LEMMA FreeBankTyped ==
  ASSUME NEW r \in Nat \cup {NoRow}, NEW v \in Int
  PROVE  FreeBank(r, v) \in Bank /\ ~FreeBank(r, v).working
BY DEF FreeBank, Bank

(* The banks a switch releases are as many as the requests it takes back.  *)
LEMMA BanksOfStarted ==
  ASSUME Inv
  PROVE  Cardinality({b \in BankIds : Owns(mode, b) /\ bank[b].dir = mode})
           = Cardinality(Started(mode))
<1> DEFINE S == Started(mode)
           B == {b \in BankIds : Owns(mode, b) /\ bank[b].dir = mode}
           f == [s \in S |-> OnBank(mode, s)]
<1>0. mode \in Dirs /\ Typed /\ BankOwnsRequest
  BY DEF Inv, Typed
<1>1. IsFiniteSet(S)
  BY <1>0, OnePerBank
<1>2. \A s \in S : OnBank(mode, s) \in B
  <2>1. TAKE s \in S
  <2>2. OnBank(mode, s) \in BankIds
    BY <1>0, SlotTyped DEF Started
  <2>3. Owns(mode, OnBank(mode, s))
    BY DEF Started, Owns, OnBank
  <2>4. bank[OnBank(mode, s)].dir = mode
    BY <1>0 DEF BankOwnsRequest
  <2>5. QED
    BY <2>2, <2>3, <2>4
<1>3. \A s, t \in S : OnBank(mode, s) = OnBank(mode, t) => s = t
  BY <1>0 DEF BankOwnsRequest
<1>4. \A b \in B : \E s \in S : OnBank(mode, s) = b
  BY DEF Owns, Started, OnBank
<1>5. f \in [S -> B]
      /\ (\A s, t \in S : f[s] = f[t] => s = t) /\ \A b \in B : \E s \in S : f[s] = b
  <2> HIDE DEF S, B
  <2>1. f \in [S -> B] /\ \A s \in S : f[s] = OnBank(mode, s)
    BY <1>2
  <2> HIDE DEF f
  <2>2. QED
    BY <1>3, <1>4, <2>1
<1> HIDE DEF S, B, f
<1>6. f \in Bijection(S, B)
  BY <1>5, Fun_IsBij
<1>7. ExistsBijection(S, B)
  BY <1>6 DEF ExistsBijection
<1>8. Cardinality(B) = Cardinality(S)
  BY <1>1, <1>7, FS_Bijection
<1>9. QED
  BY <1>8 DEF S, B

(* A change of direction takes back every scheduled request with its bank  *)
(* and its count.                                                          *)
LEMMA SwitchModeKeeps ==
  ASSUME Inv, SwitchMode
  PROVE  Inv' /\ SameLines
<1>0. /\ Typed /\ BankOwnsRequest /\ CountersMatch /\ CachedIndicesFresh
      /\ ReadReturnsOnce /\ QueuedOnce
      /\ stage = "switch" /\ stage' = "schedule" /\ submitted' = submitted /\ owed' = owed
      /\ mode \in Dirs
  BY DEF Inv, SwitchMode, Typed
<1>1. CASE ~(GoesWriting \/ GoesReading)
  <2>1. UNCHANGED <<mode, queue, bank, scheduled, nextSched, nextProc, dbus>>
    BY <1>1 DEF SwitchMode
  <2>2. Typed' /\ ReadReturnsOnce' /\ QueuedOnce'
    BY <1>0, <2>1 DEF Typed, ReadReturnsOnce, QueuedOnce, Queued
  <2>3. BankOwnsRequest' /\ CountersMatch' /\ CachedIndicesFresh'
    BY <1>0, <2>1 DEF BankOwnsRequest, CountersMatch, CachedIndicesFresh, Queued, Started,
                      OnBank
  <2>4. QED
    BY <2>1, <2>2, <2>3 DEF Inv, SameLines
<1>2. CASE GoesWriting \/ GoesReading
  <2> DEFINE no == FALSE
  <2>1. /\ mode' = Other(mode) /\ reset_remain_requests(mode)
        /\ dbus' = dbus + TurnAround
    BY <1>2 DEF SwitchMode
  <2>2. /\ DOMAIN queue' = Dirs
        /\ \A d \in Dirs : queue'[d] = IF d = mode THEN Unscheduled(queue[d]) ELSE queue[d]
    BY <1>0, <2>1 DEF reset_remain_requests, Typed
  <2>3. \A d \in Dirs : d # mode => Started(d) = {}
    BY <1>0 DEF BankOwnsRequest
  <2>4. Unscheduled(queue[mode]) =
          [s \in Slots(mode) |-> IF queue[mode][s].sched
                                 THEN [queue[mode][s] EXCEPT !.sched = no, !.event = 0]
                                 ELSE queue[mode][s]]
    <3>1. DOMAIN queue[mode] = Slots(mode)
      BY <1>0 DEF Typed
    <3>2. QED
      BY <3>1 DEF Unscheduled
  <2>5. /\ queue'[mode] \in [Slots(mode) -> Slot]
        /\ \A s \in Slots(mode) : /\ ~queue'[mode][s].sched
                                  /\ queue'[mode][s].addr = queue[mode][s].addr
    <3>1. \A s \in Slots(mode) : queue[mode][s] \in Slot
      BY <1>0 DEF Typed
    <3>2. no \in BOOLEAN /\ ~no
      OBVIOUS
    <3> HIDE DEF no
    <3>3. \A r \in Slot : /\ [r EXCEPT !.sched = no, !.event = 0] \in Slot
                          /\ [r EXCEPT !.sched = no, !.event = 0].sched = no
                          /\ [r EXCEPT !.sched = no, !.event = 0].addr = r.addr
      <4>1. TAKE r \in Slot
      <4> DEFINE one == [r EXCEPT !.sched = no]
                 two == [one EXCEPT !.event = 0]
      <4>2. one \in Slot /\ one.sched = no /\ one.addr = r.addr
        BY <3>2 DEF Slot
      <4> HIDE DEF one
      <4>3. two \in Slot /\ two.sched = no /\ two.addr = r.addr
        BY <4>2 DEF Slot
      <4>4. two = [r EXCEPT !.sched = no, !.event = 0]
        BY DEF one
      <4>5. QED
        BY <4>3, <4>4
    <3> DEFINE back(r) == [r EXCEPT !.sched = no, !.event = 0]
    <3>4. \A s \in Slots(mode) : /\ back(queue[mode][s]) \in Slot
                                 /\ ~back(queue[mode][s]).sched
                                 /\ back(queue[mode][s]).addr = queue[mode][s].addr
      BY <3>1, <3>2, <3>3
    <3>5. Unscheduled(queue[mode]) =
            [s \in Slots(mode) |-> IF queue[mode][s].sched THEN back(queue[mode][s])
                                                          ELSE queue[mode][s]]
      BY <2>4
    <3> HIDE DEF back
    <3>6. QED
      BY <1>0, <2>2, <3>1, <3>4, <3>5
  <2>6. \A d \in Dirs : /\ queue'[d] \in [Slots(d) -> Slot]
                        /\ \A s \in Slots(d) : queue'[d][s].addr = queue[d][s].addr
    BY <1>0, <2>2, <2>5 DEF Typed
  <2>7. \A d \in Dirs : Started(d)' = {} /\ Queued(d)' = Queued(d)
    BY <2>2, <2>3, <2>5, <2>6 DEF Started, Queued
  <2>8. bank' \in [BankIds -> Bank] /\ \A b \in BankIds : ~bank'[b].working
    <3>1. bank' = [b \in BankIds |-> IF Owns(mode, b) THEN FreeBank(RowLeft(mode, b), 0)
                                                      ELSE bank[b]]
      BY <2>1 DEF reset_remain_requests
    <3>2. \A b \in BankIds : Owns(mode, b) => RowLeft(mode, b) \in Nat \cup {NoRow}
      <4>1. ASSUME NEW b \in BankIds, Owns(mode, b)
            PROVE  RowLeft(mode, b) \in Nat \cup {NoRow}
        <5> DEFINE s == CHOOSE s \in Slots(mode) :
                     queue[mode][s].sched /\ dram_get_bank(queue[mode][s].addr) = b
        <5>1. s \in Slots(mode)
          BY <4>1 DEF Owns
        <5> HIDE DEF s
        <5>2. queue[mode][s].addr \in Nat
          BY <1>0, <5>1, SlotTyped
        <5>3. dram_get_row(queue[mode][s].addr) \in Nat
          BY <5>2, BankOfLine
        <5>4. QED
          BY <5>3 DEF RowLeft, s
      <4>2. QED
        BY <4>1
    <3>3. \A b \in BankIds : bank[b].working => Owns(mode, b)
      BY <1>0 DEF BankOwnsRequest, Started, OnBank, Owns
    <3>4. 0 \in Int /\ \A b \in BankIds : bank[b] \in Bank
      BY <1>0 DEF Typed
    <3>5. \A b \in BankIds : LET v == IF Owns(mode, b) THEN FreeBank(RowLeft(mode, b), 0)
                                                       ELSE bank[b]
                             IN  v \in Bank /\ ~v.working
      BY <3>2, <3>3, <3>4, FreeBankTyped
    <3>6. QED
      BY <3>1, <3>5
  <2>9. scheduled' = [d \in Dirs |-> 0]
    <3> DEFINE B(d) == {b \in BankIds : Owns(mode, b) /\ bank[b].dir = d}
    <3>1. scheduled' = [d \in Dirs |-> scheduled[d] - Cardinality(B(d))]
      BY <2>1 DEF reset_remain_requests
    <3>2. \A d \in Dirs : scheduled[d] = Cardinality(B(d)) /\ scheduled[d] \in Int
      <4>1. TAKE d \in Dirs
      <4>2. scheduled[d] = Cardinality(Started(d)) /\ scheduled[d] \in Int
        BY <1>0 DEF CountersMatch, Typed
      <4>3. CASE d = mode
        <5>1. Cardinality(B(mode)) = Cardinality(Started(mode))
          BY BanksOfStarted
        <5>2. QED
          BY <4>2, <4>3, <5>1
      <4>4. CASE d # mode
        <5>1. B(d) = {}
          BY <1>0, <4>4 DEF BankOwnsRequest, Owns, Started, OnBank
        <5>2. QED
          BY <2>3, <4>2, <4>4, <5>1
      <4>5. QED
        BY <4>3, <4>4
    <3> HIDE DEF B
    <3>3. QED
      BY <3>1, <3>2
  <2>10. mode' \in Dirs /\ dbus' \in Int
    BY <1>0, <2>1, McAssumption DEF Other, Dirs, Typed
  <2>11. /\ nextSched' = [d \in Dirs |-> update_schedule_cycle(queue'[d])]
         /\ nextProc' = [d \in Dirs |-> update_process_cycle(queue'[d])]
    BY <2>1 DEF reset_remain_requests
  <2>12. Typed'
    <3>1. scheduled' \in [Dirs -> Int] /\ DOMAIN nextSched' = Dirs /\ DOMAIN nextProc' = Dirs
      BY <2>9, <2>11
    <3>2. QED
      BY <1>0, <2>2, <2>6, <2>8, <2>10, <3>1 DEF Typed
  <2>13. BankOwnsRequest'
    BY <2>7, <2>8, <2>10 DEF BankOwnsRequest
  <2>14. CountersMatch'
    BY <2>7, <2>9, FS_EmptySet DEF CountersMatch
  <2>15. CachedIndicesFresh'
    BY <1>0, <2>11 DEF CachedIndicesFresh
  <2>16. ReadReturnsOnce' /\ QueuedOnce'
    <3>1. "rd" \in Dirs
      BY DEF Dirs
    <3>2. \A d \in Dirs : \A s \in Queued(d) : queue'[d][s].addr = queue[d][s].addr
      BY <2>6 DEF Queued
    <3>3. \A a : Held(a)' = Held(a)
      BY <1>0, <2>7, <3>1, <3>2 DEF Held
    <3>4. ReadReturnsOnce'
      BY <1>0, <3>3 DEF ReadReturnsOnce, Held
    <3>5. QED
      BY <1>0, <2>7, <3>2, <3>4 DEF QueuedOnce
  <2>17. QED
    BY <2>6, <2>12, <2>13, <2>14, <2>15, <2>16 DEF Inv, SameLines
<1>3. QED
  BY <1>1, <1>2

(* schedule() pairs one request with one idle bank and counts it.          *)
LEMMA ScheduleKeeps ==
  ASSUME Inv, Schedule
  PROVE  Inv' /\ SameLines
<1>0. /\ Typed /\ BankOwnsRequest /\ CountersMatch /\ CachedIndicesFresh
      /\ ReadReturnsOnce /\ QueuedOnce
      /\ stage = "schedule" /\ stage' = "process" /\ submitted' = submitted /\ owed' = owed
      /\ mode \in Dirs /\ mode' = mode /\ dbus' = dbus
  BY DEF Inv, Schedule, Typed
<1>1. CASE ~(nextSched[mode] # 0 /\ Candidates # {})
  <2>1. UNCHANGED <<bank, scheduled, queue, nextSched, nextProc>>
    BY <1>1 DEF Schedule
  <2>2. Typed' /\ ReadReturnsOnce' /\ QueuedOnce'
    BY <1>0, <2>1 DEF Typed, ReadReturnsOnce, QueuedOnce, Queued
  <2>3. BankOwnsRequest' /\ CountersMatch' /\ CachedIndicesFresh'
    BY <1>0, <2>1 DEF BankOwnsRequest, CountersMatch, CachedIndicesFresh, Queued, Started,
                      OnBank
  <2>4. QED
    BY <2>1, <2>2, <2>3 DEF Inv, SameLines
<1>2. CASE nextSched[mode] # 0 /\ Candidates # {}
  <2> DEFINE from == IF RowHits # {} THEN RowHits ELSE Candidates
             s == Earliest(queue[mode], from)
             a == queue[mode][s].addr
             k == dram_get_bank(a)
             latency == IF RowHits # {} THEN tCAS ELSE tOpen + tCAS
             yes == TRUE
             work == [working |-> yes, slot |-> s, dir |-> mode,
                      row |-> dram_get_row(a), avail |-> latency]
  <2>1. s \in Candidates
    <3>1. from \in SUBSET Slots(mode) /\ from # {} /\ from \subseteq Candidates
      BY <1>2 DEF RowHits, Candidates
    <3>2. queue[mode] \in [Slots(mode) -> Slot]
      BY <1>0 DEF Typed
    <3> HIDE DEF from
    <3>3. Earliest(queue[mode], from) \in from
      BY <1>0, <3>1, <3>2, IndexFound
    <3>4. QED
      BY <3>1, <3>3
  <2>2. /\ bank' = [bank EXCEPT ![k] = work]
        /\ scheduled' = [scheduled EXCEPT ![mode] = @ + 1]
        /\ queue' = [queue EXCEPT ![mode][s].sched = yes, ![mode][s].event = latency]
        /\ nextSched' = [nextSched EXCEPT ![mode] = update_schedule_cycle(queue'[mode])]
        /\ nextProc' = [nextProc EXCEPT ![mode] = update_process_cycle(queue'[mode])]
    BY <1>2 DEF Schedule
  <2>3. latency \in Int /\ yes \in BOOLEAN /\ yes
    BY McAssumption
  <2>4. /\ s \in Slots(mode) /\ a # 0 /\ ~queue[mode][s].sched /\ ~bank[k].working
        /\ a \in Nat /\ k \in BankIds /\ dram_get_row(a) \in Nat /\ s \in Nat
    <3>1. s \in Slots(mode) /\ a # 0 /\ ~queue[mode][s].sched /\ ~bank[k].working
      BY <2>1 DEF Candidates, BankOf
    <3>2. a \in Nat /\ s \in Nat
      BY <1>0, <3>1, SlotTyped, SlotSets
    <3>3. QED
      BY <3>1, <3>2, BankOfLine
  <2>5. /\ work \in Bank /\ work.working /\ work.slot = s /\ work.dir = mode
        /\ work.row = dram_get_row(a)
    BY <1>0, <2>3, <2>4 DEF Bank
  <2> HIDE DEF from, s, latency, yes, work
  <2>6. /\ DOMAIN queue' = Dirs
        /\ \A d \in Dirs : queue'[d] \in [Slots(d) -> Slot]
        /\ \A d \in Dirs : \A t \in Slots(d) :
             /\ queue'[d][t].addr = queue[d][t].addr
             /\ IF d = mode /\ t = s THEN queue'[d][t].sched = yes
                                     ELSE queue'[d][t] = queue[d][t]
    <3>1. /\ DOMAIN queue' = Dirs
          /\ \A d \in Dirs : d # mode => queue'[d] = queue[d]
          /\ queue'[mode] = [queue[mode] EXCEPT
               ![s] = [queue[mode][s] EXCEPT !.sched = yes, !.event = latency]]
      BY <1>0, <2>2, <2>4 DEF Typed
    <3> DEFINE new == [queue[mode][s] EXCEPT !.sched = yes, !.event = latency]
    <3>2. queue[mode] \in [Slots(mode) -> Slot] /\ queue[mode][s] \in Slot
      BY <1>0, <2>4 DEF Typed
    <3>3. new \in Slot /\ new.sched = yes /\ new.addr = a
      BY <2>3, <3>2 DEF Slot
    <3> HIDE DEF new
    <3>4. queue'[mode] = [queue[mode] EXCEPT ![s] = new]
      BY <3>1 DEF new
    <3>5. queue'[mode] \in [Slots(mode) -> Slot] /\ queue'[mode][s] = new
          /\ \A t \in Slots(mode) : t # s => queue'[mode][t] = queue[mode][t]
      BY <2>4, <3>2, <3>3, <3>4
    <3>6. QED
      BY <1>0, <3>1, <3>3, <3>5 DEF Typed
  <2>7. \A d \in Dirs : /\ Started(d)' = IF d = mode THEN Started(d) \cup {s} ELSE Started(d)
                        /\ Queued(d)' = Queued(d)
    BY <1>0, <2>3, <2>4, <2>6 DEF Started, Queued
  <2>8. s \notin Started(mode) /\ s \in Queued(mode)
    BY <2>4 DEF Started, Queued
  <2>9. bank' \in [BankIds -> Bank] /\ bank'[k] = work
        /\ \A b \in BankIds : b # k => bank'[b] = bank[b]
    BY <1>0, <2>2, <2>4, <2>5 DEF Typed
  <2>10. \A d \in Dirs : \A t \in Slots(d) : OnBank(d, t)' = OnBank(d, t)
    BY <2>6 DEF OnBank
  <2>11. /\ DOMAIN nextSched' = Dirs /\ DOMAIN nextProc' = Dirs
         /\ scheduled' \in [Dirs -> Int]
         /\ \A d \in Dirs : scheduled'[d] = IF d = mode THEN scheduled[d] + 1 ELSE scheduled[d]
         /\ \A d \in Dirs : nextSched'[d] = IF d = mode THEN update_schedule_cycle(queue'[d])
                                                        ELSE nextSched[d]
         /\ \A d \in Dirs : nextProc'[d] = IF d = mode THEN update_process_cycle(queue'[d])
                                                       ELSE nextProc[d]
    BY <1>0, <2>2 DEF Typed
  <2>12. Typed'
    BY <1>0, <2>6, <2>9, <2>11 DEF Typed
  <2>13. BankOwnsRequest'
    <3>1. \A t \in Started(mode) : OnBank(mode, t) \in BankIds /\ OnBank(mode, t) # k
      BY <1>0, <2>4, SlotTyped DEF BankOwnsRequest, Started
    <3>2. \A d \in Dirs : d # mode => Started(d) = {}
      BY <1>0 DEF BankOwnsRequest
    <3>3. OnBank(mode, s) = k
      BY DEF OnBank
    <3>4. \A t \in Started(mode) \cup {s} :
            /\ t \in Queued(mode)
            /\ LET b == bank'[OnBank(mode, t)] IN
                 /\ b.working /\ b.slot = t /\ b.dir = mode
                 /\ b.row = dram_get_row(queue[mode][t].addr)
      <4>1. CASE s \in Started(mode)
        BY <2>8, <4>1
      <4>2. ASSUME NEW t \in Started(mode)
            PROVE  /\ t \in Queued(mode)
                   /\ LET b == bank'[OnBank(mode, t)] IN
                        /\ b.working /\ b.slot = t /\ b.dir = mode
                        /\ b.row = dram_get_row(queue[mode][t].addr)
        BY <1>0, <2>9, <3>1 DEF BankOwnsRequest
      <4>3. QED
        BY <2>5, <2>8, <2>9, <3>3, <4>2
    <3>5. \A b \in BankIds : bank'[b].working =>
            \E t \in Started(mode) \cup {s} : bank'[b].slot = t /\ OnBank(mode, t) = b
      BY <1>0, <2>5, <2>9, <3>3 DEF BankOwnsRequest
    <3>6. \A t \in Started(mode) \cup {s} : t \in Slots(mode)
      BY <2>4 DEF Started
    <3>7. QED
      BY <1>0, <2>6, <2>7, <2>10, <3>2, <3>4, <3>5, <3>6 DEF BankOwnsRequest
  <2>14. CountersMatch'
    <3>1. Cardinality(Started(mode) \cup {s}) = Cardinality(Started(mode)) + 1
      BY <1>0, <2>8, OnePerBank, FS_AddElement
    <3>2. QED
      BY <1>0, <2>7, <2>11, <3>1 DEF CountersMatch
  <2>15. CachedIndicesFresh'
    BY <1>0, <2>6, <2>11 DEF CachedIndicesFresh, Typed
  <2>16. ReadReturnsOnce' /\ QueuedOnce'
    <3>1. "rd" \in Dirs
      BY DEF Dirs
    <3>2. \A d \in Dirs : \A t \in Queued(d) : queue'[d][t].addr = queue[d][t].addr
      BY <2>6 DEF Queued
    <3>3. \A c : Held(c)' = Held(c)
      BY <1>0, <2>7, <3>1, <3>2 DEF Held
    <3>4. ReadReturnsOnce'
      BY <1>0, <3>3 DEF ReadReturnsOnce, Held
    <3>5. QED
      BY <1>0, <2>7, <3>2, <3>4 DEF QueuedOnce
  <2>17. QED
    BY <2>6, <2>12, <2>13, <2>14, <2>15, <2>16 DEF Inv, SameLines
<1>3. QED
  BY <1>1, <1>2

-----------------------------------------------------------------------------
(* operate(): process().                                                   *)

(* An index of the queue the bus serves names a scheduled request.         *)
LEMMA ProcessedIsStarted ==
  ASSUME Inv, nextProc[mode] # 0 \/ stage = "returning"
  PROVE  nextProc[mode] \in Started(mode)
<1>0. mode \in Dirs /\ Typed /\ CachedIndicesFresh
  BY DEF Inv, Typed
<1>1. CASE stage = "returning"
  BY <1>0, <1>1 DEF CachedIndicesFresh
<1>2. CASE stage # "returning"
  <2> DEFINE q == queue[mode]  S == Started(mode)
  <2>1. q \in [Slots(mode) -> Slot] /\ S \in SUBSET Slots(mode)
    BY <1>0 DEF Typed, Started
  <2>2. {s \in DOMAIN q : q[s].sched} = S
    BY <2>1 DEF Started
  <2>3. nextProc[mode] = update_process_cycle(q)
    BY <1>0, <1>2 DEF CachedIndicesFresh
  <2> HIDE DEF q, S
  <2>4. nextProc[mode] = Earliest(q, S)
    BY <2>2, <2>3 DEF update_process_cycle
  <2>5. S # {}
    BY <1>0, <1>2, <2>1, <2>4, IndexFound
  <2>6. Earliest(q, S) \in S
    BY <1>0, <2>1, <2>5, IndexFound
  <2>7. QED
    BY <2>4, <2>6 DEF S
<1>3. QED
  BY <1>1, <1>2

(* Retiring a request empties its slot, releases its bank and leaves every *)
(* other request, scheduled or waiting, as it was.                         *)
LEMMA RetireKeeps ==
  ASSUME Inv, nextProc[mode] \in Started(mode), Retire,
         UNCHANGED <<nextSched, mode>>, stage' = "callers"
  PROVE  /\ DOMAIN queue' = Dirs /\ \A d \in Dirs : queue'[d] \in [Slots(d) -> Slot]
         /\ DOMAIN nextProc' = Dirs /\ scheduled' \in [Dirs -> Int]
         /\ bank' \in [BankIds -> Bank]
         /\ \A d \in Dirs : \A s \in Slots(d) :
              queue'[d][s] = IF d = mode /\ s = nextProc[mode] THEN Empty ELSE queue[d][s]
         /\ BankOwnsRequest' /\ CountersMatch' /\ CachedIndicesFresh' /\ QueuedOnce'
<1> DEFINE n == nextProc[mode]
           a == queue[mode][n].addr
           k == dram_get_bank(a)
<1>0. /\ Typed /\ BankOwnsRequest /\ CountersMatch /\ CachedIndicesFresh /\ QueuedOnce
      /\ mode \in Dirs /\ mode' = mode
  BY DEF Inv, Typed
<1>1. n \in Slots(mode) /\ n \in Queued(mode) /\ k \in BankIds /\ k = OnBank(mode, n)
  BY <1>0, SlotTyped DEF Started, BankOwnsRequest, OnBank
<1>2. /\ bank' = [bank EXCEPT ![k] = FreeBank(@.row, @.avail)]
      /\ scheduled' = [scheduled EXCEPT ![mode] = @ - 1]
      /\ queue' = [queue EXCEPT ![mode][n] = Empty]
      /\ nextProc' = [nextProc EXCEPT ![mode] = update_process_cycle(queue'[mode])]
  BY DEF Retire, Processed
<1>3. Empty \in Slot /\ Empty.addr = 0 /\ ~Empty.sched
  BY DEF Empty, Slot
<1> HIDE DEF n, k
<1>4. /\ DOMAIN queue' = Dirs /\ \A d \in Dirs : queue'[d] \in [Slots(d) -> Slot]
      /\ \A d \in Dirs : d # mode => queue'[d] = queue[d]
      /\ \A d \in Dirs : \A s \in Slots(d) :
           queue'[d][s] = IF d = mode /\ s = n THEN Empty ELSE queue[d][s]
  BY <1>0, <1>1, <1>2, <1>3 DEF Typed
<1>5. /\ DOMAIN nextProc' = Dirs /\ scheduled' \in [Dirs -> Int]
      /\ \A d \in Dirs : scheduled'[d] = IF d = mode THEN scheduled[d] - 1 ELSE scheduled[d]
      /\ \A d \in Dirs : nextProc'[d] = IF d = mode THEN update_process_cycle(queue'[d])
                                                    ELSE nextProc[d]
  BY <1>0, <1>2 DEF Typed
<1>6. /\ bank' \in [BankIds -> Bank] /\ ~bank'[k].working
      /\ \A b \in BankIds : b # k => bank'[b] = bank[b]
  <2>1. bank[k] \in Bank
    BY <1>0, <1>1 DEF Typed
  <2>2. bank[k].row \in Nat \cup {NoRow} /\ bank[k].avail \in Int
    BY <2>1 DEF Bank
  <2>3. FreeBank(bank[k].row, bank[k].avail) \in Bank
        /\ ~FreeBank(bank[k].row, bank[k].avail).working
    BY <2>2, FreeBankTyped
  <2>4. QED
    BY <1>0, <1>1, <1>2, <2>3 DEF Typed
<1>7. \A d \in Dirs : /\ Started(d)' = IF d = mode THEN Started(d) \ {n} ELSE Started(d)
                      /\ Queued(d)' = IF d = mode THEN Queued(d) \ {n} ELSE Queued(d)
  BY <1>3, <1>4 DEF Started, Queued
<1>8. n \in Started(mode)
  BY DEF n
<1>9. BankOwnsRequest'
  <2>1. \A d \in Dirs : d # mode => Started(d) = {}
    BY <1>0 DEF BankOwnsRequest
  <2>2. \A t \in Started(mode) \ {n} :
          /\ t \in Slots(mode) /\ OnBank(mode, t) \in BankIds /\ OnBank(mode, t) # k
          /\ queue'[mode][t] = queue[mode][t]
    BY <1>0, <1>1, <1>4, <1>8, SlotTyped DEF BankOwnsRequest, Started
  <2>3. \A t \in Started(mode) \ {n} : OnBank(mode, t)' = OnBank(mode, t)
    BY <1>0, <2>2 DEF OnBank
  <2>4. \A t \in Started(mode) \ {n} :
          /\ t \in Queued(mode) \ {n}
          /\ LET b == bank'[OnBank(mode, t)] IN
               /\ b.working /\ b.slot = t /\ b.dir = mode
               /\ b.row = dram_get_row(queue'[mode][t].addr)
    BY <1>0, <1>6, <2>2 DEF BankOwnsRequest
  <2>5. \A b \in BankIds : bank'[b].working =>
          \E t \in Started(mode) \ {n} : bank'[b].slot = t /\ OnBank(mode, t) = b
    BY <1>0, <1>1, <1>6 DEF BankOwnsRequest
  <2>6. QED
    BY <1>0, <1>7, <2>1, <2>3, <2>4, <2>5 DEF BankOwnsRequest
<1>10. CountersMatch'
  <2>1. Cardinality(Started(mode) \ {n}) = Cardinality(Started(mode)) - 1
    BY <1>0, <1>8, OnePerBank, FS_RemoveElement
  <2>2. QED
    BY <1>0, <1>5, <1>7, <2>1 DEF CountersMatch
<1>11. CachedIndicesFresh'
  <2>1. update_schedule_cycle(queue'[mode]) = update_schedule_cycle(queue[mode])
    <3> DEFINE q == queue[mode]  r == queue'[mode]
               S == {s \in Slots(mode) : queue[mode][s].addr # 0 /\ ~queue[mode][s].sched}
    <3>1. S \in SUBSET Slots(mode)
          /\ \A s \in S : q[s].event \in Int /\ q[s].event = r[s].event
      BY <1>0, <1>4, <1>8, SlotTyped DEF Started
    <3>2. {s \in DOMAIN q : q[s].addr # 0 /\ ~q[s].sched} = S
          /\ {s \in DOMAIN r : r[s].addr # 0 /\ ~r[s].sched} = S
      <4>1. DOMAIN q = Slots(mode) /\ DOMAIN r = Slots(mode)
        BY <1>0, <1>4 DEF Typed
      <4>2. {s \in Slots(mode) : queue'[mode][s].addr # 0 /\ ~queue'[mode][s].sched} = S
        BY <1>0, <1>3, <1>4, <1>8 DEF Started
      <4>3. QED
        BY <4>1, <4>2
    <3> HIDE DEF q, r, S
    <3>3. Earliest(q, S) = Earliest(r, S)
      BY <1>0, <3>1, IndexKept
    <3>4. QED
      BY <3>2, <3>3 DEF update_schedule_cycle, q, r
  <2>2. \A d \in Dirs : nextSched[d] = update_schedule_cycle(queue[d])
                        /\ (d # mode => nextProc[d] = update_process_cycle(queue[d]))
    BY <1>0 DEF CachedIndicesFresh
  <2>3. QED
    BY <1>0, <1>4, <1>5, <2>1, <2>2 DEF CachedIndicesFresh
<1>12. QueuedOnce'
  <2>1. \A d \in Dirs : \A s \in Queued(d)' : s \in Queued(d) /\ queue'[d][s] = queue[d][s]
    BY <1>4, <1>7 DEF Queued
  <2>2. QED
    BY <1>0, <2>1 DEF QueuedOnce
<1>13. QED
  BY <1>4, <1>5, <1>6, <1>9, <1>10, <1>11, <1>12 DEF n

(* process() of a write retires it at once.                                *)
LEMMA ProcessWriteKeeps ==
  ASSUME Inv, ProcessWrite
  PROVE  Inv'
<1>0. /\ Typed /\ ReadReturnsOnce /\ mode = "wr" /\ mode \in Dirs /\ "rd" \in Dirs
      /\ stage = "process" /\ stage' = "callers" /\ dbus' = BusReturn
      /\ UNCHANGED <<nextSched, mode, submitted, owed>> /\ nextProc[mode] # 0 /\ Retire
  BY DEF Inv, ProcessWrite, Due, Dirs
<1>1. nextProc[mode] \in Started(mode)
  BY <1>0, ProcessedIsStarted
<1>2. /\ DOMAIN queue' = Dirs /\ \A d \in Dirs : queue'[d] \in [Slots(d) -> Slot]
      /\ DOMAIN nextProc' = Dirs /\ scheduled' \in [Dirs -> Int]
      /\ bank' \in [BankIds -> Bank]
      /\ \A d \in Dirs : \A s \in Slots(d) :
           queue'[d][s] = IF d = mode /\ s = nextProc[mode] THEN Empty ELSE queue[d][s]
      /\ BankOwnsRequest' /\ CountersMatch' /\ CachedIndicesFresh' /\ QueuedOnce'
  BY <1>0, <1>1, RetireKeeps
<1>3. Typed'
  BY <1>0, <1>2, McAssumption DEF Typed
<1>4. ReadReturnsOnce'
  <2>1. \A s \in Slots("rd") : queue'["rd"][s] = queue["rd"][s]
    BY <1>0, <1>2
  <2>2. \A c : Held(c)' = Held(c)
    BY <1>0, <2>1 DEF Held, Queued
  <2>3. QED
    BY <1>0, <2>2 DEF ReadReturnsOnce, Held
<1>5. QED
  BY <1>2, <1>3, <1>4 DEF Inv

(* The end of process(), after return_data(): the read's slot and bank are *)
(* released.                                                               *)
LEMMA ReadReturnedKeeps ==
  ASSUME Inv, ReadReturned
  PROVE  Inv'
<1>0. /\ Typed /\ ReadReturnsOnce /\ mode = "rd" /\ mode \in Dirs
      /\ stage = "returning" /\ stage' = "callers"
      /\ UNCHANGED <<nextSched, mode, dbus, submitted, owed>> /\ Retire
  BY DEF Inv, Typed, ReadReturned
<1>1. nextProc[mode] \in Started(mode)
  BY <1>0, ProcessedIsStarted
<1>2. /\ DOMAIN queue' = Dirs /\ \A d \in Dirs : queue'[d] \in [Slots(d) -> Slot]
      /\ DOMAIN nextProc' = Dirs /\ scheduled' \in [Dirs -> Int]
      /\ bank' \in [BankIds -> Bank]
      /\ \A d \in Dirs : \A s \in Slots(d) :
           queue'[d][s] = IF d = mode /\ s = nextProc[mode] THEN Empty ELSE queue[d][s]
      /\ BankOwnsRequest' /\ CountersMatch' /\ CachedIndicesFresh' /\ QueuedOnce'
  BY <1>0, <1>1, RetireKeeps
<1>3. Typed'
  BY <1>0, <1>2 DEF Typed
<1>4. ReadReturnsOnce'
  <2>1. \A s \in Slots("rd") : queue'["rd"][s] = IF s = nextProc["rd"] THEN Empty
                                                                  ELSE queue["rd"][s]
    BY <1>0, <1>2
  <2>2. Empty.addr = 0
    BY DEF Empty
  <2>3. \A c \in Addr : Held(c)' = Held(c)
    BY <1>0, <2>1, <2>2 DEF Held, Queued
  <2>4. QED
    BY <1>0, <2>3 DEF ReadReturnsOnce, Held
<1>5. QED
  BY <1>2, <1>3, <1>4 DEF Inv

(* process() of a read up to return_data().                                *)
LEMMA ProcessReadKeeps ==
  ASSUME Inv, ProcessRead
  PROVE  Inv' /\ SameLines
<1> DEFINE n == nextProc[mode]
           a == queue[mode][n].addr
<1>0. /\ Typed /\ BankOwnsRequest /\ CountersMatch /\ CachedIndicesFresh
      /\ ReadReturnsOnce /\ QueuedOnce
      /\ mode = "rd" /\ mode \in Dirs /\ stage = "process" /\ stage' = "returning"
      /\ dbus' = BusReturn /\ nextProc[mode] # 0
      /\ UNCHANGED <<nextSched, nextProc, scheduled, bank, mode, submitted>>
      /\ owed' = [owed EXCEPT ![a] = @ - 1]
      /\ queue' = [queue EXCEPT ![mode][n].event = BusReturn]
  BY DEF Inv, Typed, ProcessRead, Due, Processed
<1>1. n \in Started(mode)
  BY <1>0, ProcessedIsStarted
<1>2. n \in Slots(mode) /\ n \in Queued(mode) /\ a \in Addr
  BY <1>0, <1>1, SlotTyped DEF Started, BankOwnsRequest, Queued
<1> HIDE DEF n
<1>3. /\ DOMAIN queue' = Dirs /\ \A d \in Dirs : queue'[d] \in [Slots(d) -> Slot]
      /\ \A d \in Dirs : d # mode => queue'[d] = queue[d]
      /\ \A d \in Dirs : \A s \in Slots(d) :
           /\ queue'[d][s].addr = queue[d][s].addr
           /\ queue'[d][s].sched = queue[d][s].sched
           /\ ~(d = mode /\ s = n) => queue'[d][s] = queue[d][s]
  <2> DEFINE new == [queue[mode][n] EXCEPT !.event = BusReturn]
  <2>1. queue[mode] \in [Slots(mode) -> Slot] /\ queue[mode][n] \in Slot
    BY <1>0, <1>2 DEF Typed
  <2>2. BusReturn \in Int
    BY McAssumption
  <2>3. new \in Slot /\ new.addr = queue[mode][n].addr /\ new.sched = queue[mode][n].sched
    BY <2>1, <2>2 DEF Slot
  <2>4. /\ DOMAIN queue' = Dirs
        /\ queue'[mode] = [queue[mode] EXCEPT ![n] = new]
        /\ \A d \in Dirs : d # mode => queue'[d] = queue[d]
    BY <1>0, <1>2 DEF Typed
  <2> HIDE DEF new
  <2>5. queue'[mode] \in [Slots(mode) -> Slot] /\ queue'[mode][n] = new
        /\ \A s \in Slots(mode) : s # n => queue'[mode][s] = queue[mode][s]
    BY <1>2, <2>1, <2>3, <2>4
  <2>6. QED
    BY <1>0, <2>3, <2>4, <2>5 DEF Typed
<1>4. \A d \in Dirs : Started(d)' = Started(d) /\ Queued(d)' = Queued(d)
  BY <1>3 DEF Started, Queued
<1>5. \A d \in Dirs : \A s \in Slots(d) : OnBank(d, s)' = OnBank(d, s)
  BY <1>3 DEF OnBank
<1>6. Typed'
  <2>1. dbus' \in Int /\ owed' \in [Addr -> Int]
    BY <1>0, <1>2, McAssumption DEF Typed
  <2>2. QED
    BY <1>0, <1>3, <2>1 DEF Typed
<1>7. BankOwnsRequest'
  <2>1. \A d \in Dirs : \A s \in Started(d) : s \in Slots(d)
    BY DEF Started
  <2>2. QED
    BY <1>0, <1>3, <1>4, <1>5, <2>1 DEF BankOwnsRequest
<1>8. CountersMatch'
  BY <1>0, <1>4 DEF CountersMatch
<1>9. CachedIndicesFresh'
  <2>1. update_schedule_cycle(queue'[mode]) = update_schedule_cycle(queue[mode])
    <3> DEFINE q == queue[mode]  r == queue'[mode]
               S == {s \in Slots(mode) : queue[mode][s].addr # 0 /\ ~queue[mode][s].sched}
    <3>1. S \in SUBSET Slots(mode)
          /\ \A s \in S : q[s].event \in Int /\ q[s].event = r[s].event
      BY <1>0, <1>1, <1>3, SlotTyped DEF Started
    <3>2. {s \in DOMAIN q : q[s].addr # 0 /\ ~q[s].sched} = S
          /\ {s \in DOMAIN r : r[s].addr # 0 /\ ~r[s].sched} = S
      <4>1. DOMAIN q = Slots(mode) /\ DOMAIN r = Slots(mode)
        BY <1>0, <1>3 DEF Typed
      <4>2. {s \in Slots(mode) : queue'[mode][s].addr # 0 /\ ~queue'[mode][s].sched} = S
        BY <1>0, <1>3
      <4>3. QED
        BY <4>1, <4>2
    <3> HIDE DEF q, r, S
    <3>3. Earliest(q, S) = Earliest(r, S)
      BY <1>0, <3>1, IndexKept
    <3>4. QED
      BY <3>2, <3>3 DEF update_schedule_cycle, q, r
  <2>2. n \in Started(mode)' /\ n = nextProc[mode]
    BY <1>0, <1>1, <1>4 DEF n
  <2>3. \A d \in Dirs : nextSched[d] = update_schedule_cycle(queue[d])
                        /\ (d # mode => nextProc[d] = update_process_cycle(queue[d]))
    BY <1>0 DEF CachedIndicesFresh
  <2>4. QED
    BY <1>0, <1>3, <2>1, <2>2, <2>3 DEF CachedIndicesFresh
<1>10. ReadReturnsOnce'
  <2>1. \A s \in Slots("rd") : queue'["rd"][s].addr = queue["rd"][s].addr
    BY <1>0, <1>3
  <2>2. \A c : Held(c)' = IF c = a THEN Held(c) \ {n} ELSE Held(c)
    BY <1>0, <1>2, <1>4, <2>1 DEF Held, Queued, n
  <2>3. n \in Held(a)
    BY <1>0, <1>2 DEF Held
  <2>4. Cardinality(Held(a) \ {n}) = Cardinality(Held(a)) - 1
    <3>1. IsFiniteSet(Held(a))
      BY HeldFinite
    <3> DEFINE H == Held(a)
    <3>2. IsFiniteSet(H) /\ n \in H
      BY <2>3, <3>1
    <3> HIDE DEF H
    <3>3. Cardinality(H \ {n}) = Cardinality(H) - 1
      BY <3>2, FS_RemoveElement
    <3>4. QED
      BY <3>3 DEF H
  <2>5. \A c \in Addr : owed[c] = Cardinality(Held(c))
    BY <1>0 DEF ReadReturnsOnce, Held
  <2>6. \A c \in Addr : owed'[c] = Cardinality(Held(c)')
    BY <1>0, <1>2, <2>2, <2>4, <2>5 DEF Typed
  <2>7. QED
    BY <2>6 DEF ReadReturnsOnce, Held
<1>11. QueuedOnce'
  <2>1. \A d \in Dirs : \A s \in Queued(d) : queue'[d][s].addr = queue[d][s].addr
    BY <1>3 DEF Queued
  <2>2. QED
    BY <1>0, <1>4, <2>1 DEF QueuedOnce
<1>12. QED
  BY <1>3, <1>6, <1>7, <1>8, <1>9, <1>10, <1>11 DEF Inv, SameLines

(* process() with nothing due or the bus busy at most puts off the bank.   *)
LEMMA ProcessWaitsKeeps ==
  ASSUME Inv, ProcessWaits
  PROVE  Inv'
<1>0. /\ Typed /\ BankOwnsRequest /\ CountersMatch /\ CachedIndicesFresh
      /\ ReadReturnsOnce /\ QueuedOnce
      /\ mode \in Dirs /\ stage = "process" /\ stage' = "callers"
      /\ UNCHANGED <<queue, nextSched, nextProc, scheduled, mode, dbus, submitted, owed>>
  BY DEF Inv, Typed, ProcessWaits
<1>1. /\ bank' \in [BankIds -> Bank]
      /\ \A b \in BankIds : /\ bank'[b].working = bank[b].working /\ bank'[b].slot = bank[b].slot
                            /\ bank'[b].dir = bank[b].dir /\ bank'[b].row = bank[b].row
  <2>1. CASE bank' = bank
    BY <1>0, <2>1 DEF Typed
  <2>2. CASE bank' # bank
    <3> DEFINE k == dram_get_bank(Processed.addr)
               late == [bank[k] EXCEPT !.avail = dbus]
    <3>1. bank' = [bank EXCEPT ![k] = late] /\ nextProc[mode] # 0
      BY <2>2 DEF ProcessWaits, Due
    <3>2. nextProc[mode] \in Started(mode)
      BY <3>1, ProcessedIsStarted
    <3>3. k \in BankIds
      BY <1>0, <3>2, SlotTyped DEF Started, OnBank, Processed
    <3>4. bank[k] \in Bank /\ dbus \in Int
      BY <1>0, <3>3 DEF Typed
    <3>5. /\ late \in Bank /\ late.working = bank[k].working /\ late.slot = bank[k].slot
          /\ late.dir = bank[k].dir /\ late.row = bank[k].row
      BY <3>4 DEF Bank
    <3> HIDE DEF k, late
    <3>6. QED
      BY <1>0, <3>1, <3>3, <3>5 DEF Typed
  <2>3. QED
    BY <2>1, <2>2
<1>2. Typed' /\ ReadReturnsOnce' /\ QueuedOnce'
  BY <1>0, <1>1 DEF Typed, ReadReturnsOnce, QueuedOnce, Queued
<1>3. BankOwnsRequest'
  <2>1. \A d \in Dirs : Started(d)' = Started(d) /\ Queued(d)' = Queued(d)
    BY <1>0 DEF Started, Queued
  <2>2. \A d \in Dirs : \A s \in Started(d) : OnBank(d, s) \in BankIds /\ OnBank(d, s)' = OnBank(d, s)
    BY <1>0, SlotTyped DEF OnBank, Started
  <2>3. \A d \in Dirs : \A s \in Started(d) :
          /\ d = mode /\ s \in Queued(d)
          /\ LET b == bank'[OnBank(d, s)] IN
               /\ b.working /\ b.slot = s /\ b.dir = d
               /\ b.row = dram_get_row(queue'[d][s].addr)
    BY <1>0, <1>1, <2>2 DEF BankOwnsRequest
  <2>4. \A b \in BankIds : bank'[b].working =>
          \E s \in Started(mode) : bank'[b].slot = s /\ OnBank(mode, s) = b
    BY <1>0, <1>1 DEF BankOwnsRequest
  <2>5. QED
    BY <1>0, <2>1, <2>2, <2>3, <2>4 DEF BankOwnsRequest
<1>4. CountersMatch' /\ CachedIndicesFresh'
  BY <1>0 DEF CountersMatch, CachedIndicesFresh, Started
<1>5. QED
  BY <1>2, <1>3, <1>4 DEF Inv

-----------------------------------------------------------------------------
(* The cycle counter advances.                                             *)

(* Ageing changes event cycles and nothing else, and keeps their order.    *)
LEMMA AgedKeepsOrder ==
  ASSUME NEW d \in Dirs, NEW q \in [Slots(d) -> Slot]
  PROVE  /\ Aged(q) \in [Slots(d) -> Slot]
         /\ \A s \in Slots(d) : /\ Aged(q)[s].addr = q[s].addr
                                /\ Aged(q)[s].sched = q[s].sched
         /\ \A s, t \in Slots(d) :
              q[s].addr # 0 /\ q[t].addr # 0 /\ Before(q, s, t) => Before(Aged(q), s, t)
<1> DEFINE e(s)    == q[s].event - 1
           past(s) == {e(t) : t \in {u \in DOMAIN q : q[u].addr # 0 /\ e(s) <= e(u) /\ e(u) < 0}}
           ev(s)   == IF e(s) < 0 THEN -Cardinality(past(s)) ELSE e(s)
           aged(s) == IF q[s].addr = 0 THEN q[s] ELSE [q[s] EXCEPT !.event = ev(s)]
<1>1. Aged(q) = [s \in Slots(d) |-> aged(s)]
  BY DEF Aged
<1>2. DOMAIN q = Slots(d) /\ \A s \in Slots(d) : q[s] \in Slot /\ q[s].event \in Int /\ e(s) \in Int
  BY DEF Slot
<1>3. \A s \in Slots(d) : /\ past(s) \subseteq e(s) .. -1
                          /\ IsFiniteSet(past(s)) /\ Cardinality(past(s)) \in Nat
  <2>1. TAKE s \in Slots(d)
  <2>2. e(s) \in Int /\ -1 \in Int
    BY <1>2
  <2>3. past(s) \subseteq e(s) .. -1
    BY <1>2
  <2> DEFINE P == past(s)  R == e(s) .. -1
  <2>4. P \in SUBSET R
    BY <2>3
  <2>5. IsFiniteSet(R)
    BY <2>2, FS_Interval
  <2> HIDE DEF P, R
  <2>6. IsFiniteSet(P) /\ Cardinality(P) \in Nat
    BY <2>4, <2>5, FS_Subset, FS_CardinalityType
  <2>7. QED
    BY <2>3, <2>6 DEF P
<1>4. \A s \in Slots(d) : q[s].addr # 0 /\ e(s) < 0 => Cardinality(past(s)) > 0
  <2>1. SUFFICES ASSUME NEW s \in Slots(d), q[s].addr # 0, e(s) < 0
                 PROVE  Cardinality(past(s)) > 0
    OBVIOUS
  <2>2. e(s) \in past(s)
    BY <1>2, <2>1
  <2> DEFINE P == past(s)
  <2>3. P # {} /\ IsFiniteSet(P) /\ Cardinality(P) \in Nat
    BY <1>3, <2>2
  <2> HIDE DEF P
  <2>4. Cardinality(P) # 0
    BY <2>3, FS_EmptySet
  <2>5. Cardinality(P) > 0
    BY <2>3, <2>4
  <2>6. QED
    BY <2>5 DEF P
<1>5. \A s, t \in Slots(d) : q[s].addr # 0 /\ e(s) < e(t) /\ e(t) < 0
        => Cardinality(past(t)) < Cardinality(past(s))
  <2>1. SUFFICES ASSUME NEW s \in Slots(d), NEW t \in Slots(d), q[s].addr # 0,
                        e(s) < e(t), e(t) < 0
                 PROVE  Cardinality(past(t)) < Cardinality(past(s))
    OBVIOUS
  <2>2. e(s) \in past(s) /\ e(s) \notin past(t)
    BY <1>2, <2>1
  <2>3. past(t) \subseteq past(s)
    BY <1>2, <2>1
  <2> DEFINE P == past(s)  Q == past(t)
  <2>4. Q \in SUBSET P /\ Q # P /\ IsFiniteSet(P) /\ Cardinality(P) \in Nat
        /\ Cardinality(Q) \in Nat
    BY <1>3, <2>2, <2>3
  <2> HIDE DEF P, Q
  <2>5. Cardinality(Q) < Cardinality(P)
    BY <2>4, FS_Subset
  <2>6. QED
    BY <2>5 DEF P, Q
<1>6. \A s, t \in Slots(d) : e(s) = e(t) => past(s) = past(t)
  OBVIOUS
<1> HIDE DEF past
<1>7. \A s \in Slots(d) : ev(s) \in Int
  BY <1>2, <1>3
<1>8. \A s, t \in Slots(d) : q[s].addr # 0 /\ q[t].addr # 0 =>
        /\ e(s) < e(t) => ev(s) < ev(t)
        /\ e(s) = e(t) => ev(s) = ev(t)
  BY <1>2, <1>3, <1>4, <1>5, <1>6
<1> HIDE DEF ev
<1>9. \A s \in Slots(d) : /\ aged(s) \in Slot
                          /\ aged(s).addr = q[s].addr /\ aged(s).sched = q[s].sched
                          /\ q[s].addr # 0 => aged(s).event = ev(s)
  <2>1. \A r \in Slot : \A v \in Int :
          LET w == [r EXCEPT !.event = v]
          IN  w \in Slot /\ w.addr = r.addr /\ w.sched = r.sched /\ w.event = v
    BY DEF Slot
  <2>2. QED
    BY <1>2, <1>7, <2>1
<1> HIDE DEF aged
<1>10. \A s, t \in Slots(d) :
         q[s].addr # 0 /\ q[t].addr # 0 /\ Before(q, s, t) => Before(Aged(q), s, t)
  <2>1. SUFFICES ASSUME NEW s \in Slots(d), NEW t \in Slots(d),
                        q[s].addr # 0, q[t].addr # 0, Before(q, s, t)
                 PROVE  Before(Aged(q), s, t)
    OBVIOUS
  <2>2. Aged(q)[s].event = ev(s) /\ Aged(q)[t].event = ev(t)
    BY <1>1, <1>9, <2>1
  <2>3. e(s) < e(t) \/ (e(s) = e(t) /\ s <= t)
    BY <1>2, <2>1 DEF Before
  <2> HIDE DEF e
  <2>4. ev(s) < ev(t) \/ (ev(s) = ev(t) /\ s <= t)
    BY <1>8, <2>1, <2>3
  <2>5. QED
    BY <2>2, <2>4 DEF Before
<1>11. QED
  BY <1>1, <1>9, <1>10

(* Ranking the events anew does not change what a fresh search finds.      *)
LEMMA AgedIndices ==
  ASSUME NEW d \in Dirs, NEW q \in [Slots(d) -> Slot],
         \A s \in Slots(d) : q[s].sched => q[s].addr # 0
  PROVE  /\ update_schedule_cycle(Aged(q)) = update_schedule_cycle(q)
         /\ update_process_cycle(Aged(q)) = update_process_cycle(q)
<1> DEFINE r == Aged(q)
           W == {s \in Slots(d) : q[s].addr # 0 /\ ~q[s].sched}
           S == {s \in Slots(d) : q[s].sched}
<1>1. /\ r \in [Slots(d) -> Slot]
      /\ \A s \in Slots(d) : r[s].addr = q[s].addr /\ r[s].sched = q[s].sched
      /\ \A s, t \in Slots(d) : q[s].addr # 0 /\ q[t].addr # 0 /\ Before(q, s, t) => Before(r, s, t)
  BY AgedKeepsOrder
<1> HIDE DEF r
<1>2. \A s \in Slots(d) : q[s].event \in Int /\ r[s].event \in Int
  BY <1>1 DEF Slot
<1>3. {s \in DOMAIN r : r[s].addr # 0 /\ ~r[s].sched} = W /\ {s \in DOMAIN r : r[s].sched} = S
      /\ {s \in DOMAIN q : q[s].addr # 0 /\ ~q[s].sched} = W /\ {s \in DOMAIN q : q[s].sched} = S
  BY <1>1
<1>4. W \in SUBSET Slots(d) /\ \A s, t \in W : Before(q, s, t) => Before(r, s, t)
  BY <1>1
<1>5. S \in SUBSET Slots(d) /\ \A s, t \in S : Before(q, s, t) => Before(r, s, t)
  BY <1>1
<1> HIDE DEF W, S
<1>6. W \subseteq Nat /\ S \subseteq Nat /\ IsFiniteSet(W) /\ IsFiniteSet(S)
  <2>1. W \subseteq Slots(d) /\ S \subseteq Slots(d) /\ Slots(d) \subseteq Nat
        /\ IsFiniteSet(Slots(d))
    BY <1>4, <1>5, SlotSets
  <2>2. QED
    BY <1>4, <1>5, <2>1, FS_Subset
<1>7. Earliest(q, W) = Earliest(r, W)
  <2>1. \A s \in W : q[s].event \in Int /\ r[s].event \in Int
    BY <1>2, <1>4
  <2>2. QED
    BY <1>4, <1>6, <2>1, SameEarliest
<1>8. Earliest(q, S) = Earliest(r, S)
  <2>1. \A s \in S : q[s].event \in Int /\ r[s].event \in Int
    BY <1>2, <1>5
  <2>2. QED
    BY <1>5, <1>6, <2>1, SameEarliest
<1>9. QED
  BY <1>3, <1>7, <1>8 DEF update_schedule_cycle, update_process_cycle, r

(* A cycle passes.                                                         *)
LEMMA NextCycleKeeps ==
  ASSUME Inv, NextCycle
  PROVE  Inv' /\ SameLines
<1>0. /\ Typed /\ BankOwnsRequest /\ CountersMatch /\ CachedIndicesFresh
      /\ ReadReturnsOnce /\ QueuedOnce
      /\ mode \in Dirs /\ stage = "callers" /\ stage' = "switch"
      /\ queue' = [d \in Dirs |-> Aged(queue[d])]
      /\ bank' = [b \in BankIds |-> [bank[b] EXCEPT !.avail = AtLeast(@ - 1, 0)]]
      /\ dbus' = AtLeast(dbus - 1, DbusFloor)
      /\ UNCHANGED <<nextSched, nextProc, scheduled, mode, submitted, owed>>
  BY DEF Inv, Typed, NextCycle
<1>1. \A d \in Dirs : queue[d] \in [Slots(d) -> Slot]
  BY <1>0 DEF Typed
<1>2. DOMAIN queue' = Dirs /\ \A d \in Dirs : queue'[d] = Aged(queue[d])
  BY <1>0
<1>3. \A d \in Dirs : /\ queue'[d] \in [Slots(d) -> Slot]
                      /\ \A s \in Slots(d) : /\ queue'[d][s].addr = queue[d][s].addr
                                             /\ queue'[d][s].sched = queue[d][s].sched
  <2>1. TAKE d \in Dirs
  <2> DEFINE q == queue[d]
  <2>2. q \in [Slots(d) -> Slot]
    BY <1>1
  <2> HIDE DEF q
  <2>3. Aged(q) \in [Slots(d) -> Slot]
        /\ \A s \in Slots(d) : Aged(q)[s].addr = q[s].addr /\ Aged(q)[s].sched = q[s].sched
    BY <2>2, AgedKeepsOrder
  <2>4. QED
    BY <1>2, <2>3 DEF q
<1>4. \A d \in Dirs : Started(d)' = Started(d) /\ Queued(d)' = Queued(d)
  BY <1>3 DEF Started, Queued
<1>5. \A d \in Dirs : \A s \in Slots(d) : OnBank(d, s)' = OnBank(d, s)
  BY <1>3 DEF OnBank
<1>6. /\ bank' \in [BankIds -> Bank]
      /\ \A b \in BankIds : /\ bank'[b].working = bank[b].working /\ bank'[b].slot = bank[b].slot
                            /\ bank'[b].dir = bank[b].dir /\ bank'[b].row = bank[b].row
  <2>1. \A r \in Bank : \A v \in Int :
          LET w == [r EXCEPT !.avail = v]
          IN  /\ w \in Bank /\ w.working = r.working /\ w.slot = r.slot
              /\ w.dir = r.dir /\ w.row = r.row
    BY DEF Bank
  <2>2. \A b \in BankIds : bank[b] \in Bank /\ bank[b].avail \in Int
    BY <1>0 DEF Typed, Bank
  <2>3. \A b \in BankIds : AtLeast(bank[b].avail - 1, 0) \in Int
    BY <2>2 DEF AtLeast
  <2>4. \A b \in BankIds : bank'[b] = [bank[b] EXCEPT !.avail = AtLeast(bank[b].avail - 1, 0)]
    BY <1>0
  <2> DEFINE later(b) == [bank[b] EXCEPT !.avail = AtLeast(bank[b].avail - 1, 0)]
  <2>5. \A b \in BankIds : /\ later(b) \in Bank /\ later(b).working = bank[b].working
                           /\ later(b).slot = bank[b].slot /\ later(b).dir = bank[b].dir
                           /\ later(b).row = bank[b].row
    BY <2>1, <2>2, <2>3
  <2>6. bank' = [b \in BankIds |-> later(b)]
    BY <1>0
  <2> HIDE DEF later
  <2>7. QED
    BY <2>5, <2>6
<1>7. Typed'
  <2>1. DbusFloor \in Int
    <3>1. MaxRequests \in Nat /\ TurnAround \in Nat
      BY McAssumption
    <3>2. MaxRequests * TurnAround \in Nat
      BY <3>1
    <3>3. 2 * MaxRequests * TurnAround \in Int
      BY <3>1
    <3>4. QED
      BY <3>3 DEF DbusFloor
  <2>2. dbus' \in Int
    <3> DEFINE floor == DbusFloor
    <3>1. floor \in Int /\ dbus \in Int
      BY <1>0, <2>1 DEF Typed
    <3> HIDE DEF floor
    <3>2. AtLeast(dbus - 1, floor) \in Int
      BY <3>1 DEF AtLeast
    <3>3. QED
      BY <1>0, <3>2 DEF floor
  <2>3. QED
    BY <1>0, <1>2, <1>3, <1>6, <2>2 DEF Typed
<1>8. BankOwnsRequest'
  <2>1. \A d \in Dirs : \A s \in Started(d) :
          s \in Slots(d) /\ OnBank(d, s) \in BankIds /\ OnBank(d, s)' = OnBank(d, s)
    BY <1>0, <1>5, SlotTyped DEF Started
  <2>2. \A d \in Dirs : \A s \in Started(d) :
          /\ d = mode /\ s \in Queued(d)
          /\ LET b == bank'[OnBank(d, s)] IN
               /\ b.working /\ b.slot = s /\ b.dir = d
               /\ b.row = dram_get_row(queue'[d][s].addr)
    BY <1>0, <1>3, <1>6, <2>1 DEF BankOwnsRequest
  <2>3. \A b \in BankIds : bank'[b].working =>
          \E s \in Started(mode) : bank'[b].slot = s /\ OnBank(mode, s)' = b
    BY <1>0, <1>6, <2>1 DEF BankOwnsRequest
  <2>4. mode' = mode /\ mode \in Dirs
    BY <1>0
  <2>5. QED
    BY <1>4, <2>1, <2>2, <2>3, <2>4 DEF BankOwnsRequest
<1>9. CountersMatch'
  BY <1>0, <1>4 DEF CountersMatch
<1>10. CachedIndicesFresh'
  <2>1. \A d \in Dirs : /\ update_schedule_cycle(queue'[d]) = update_schedule_cycle(queue[d])
                        /\ update_process_cycle(queue'[d]) = update_process_cycle(queue[d])
    <3>1. TAKE d \in Dirs
    <3> DEFINE q == queue[d]
    <3>2. q \in [Slots(d) -> Slot]
      BY <1>1
    <3>3. \A s \in Slots(d) : q[s].sched => q[s].addr # 0
      BY <1>0 DEF BankOwnsRequest, Started, Queued
    <3> HIDE DEF q
    <3>4. /\ update_schedule_cycle(Aged(q)) = update_schedule_cycle(q)
          /\ update_process_cycle(Aged(q)) = update_process_cycle(q)
      BY <3>2, <3>3, AgedIndices
    <3>5. QED
      BY <1>2, <3>4 DEF q
  <2>2. QED
    BY <1>0, <2>1 DEF CachedIndicesFresh
<1>11. ReadReturnsOnce'
  <2>1. "rd" \in Dirs
    BY DEF Dirs
  <2>2. \A s \in Queued("rd") : queue'["rd"][s].addr = queue["rd"][s].addr
    BY <1>3, <2>1 DEF Queued
  <2>3. \A c : Held(c)' = Held(c)
    BY <1>0, <1>4, <2>1, <2>2 DEF Held
  <2>4. QED
    BY <1>0, <2>3 DEF ReadReturnsOnce, Held
<1>12. QueuedOnce'
  <2>1. \A d \in Dirs : \A s \in Queued(d) : queue'[d][s].addr = queue[d][s].addr
    BY <1>3 DEF Queued
  <2>2. QED
    BY <1>0, <1>4, <2>1 DEF QueuedOnce
<1>13. QED
  BY <1>3, <1>7, <1>8, <1>9, <1>10, <1>11, <1>12 DEF Inv, SameLines

-----------------------------------------------------------------------------
(* The invariant holds in every reachable state.                           *)

(* The constructor establishes the invariant.                              *)
LEMMA InitInv ==
  ASSUME Init
  PROVE  Inv
<1>1. /\ queue = [d \in Dirs |-> [s \in Slots(d) |-> Empty]]
      /\ nextSched = [d \in Dirs |-> 0] /\ nextProc = [d \in Dirs |-> 0]
      /\ scheduled = [d \in Dirs |-> 0]
      /\ bank = [b \in BankIds |-> FreeBank(NoRow, 0)]
      /\ mode = "rd" /\ dbus = 0 /\ stage = "callers"
      /\ submitted = 0 /\ owed = [a \in Addr |-> 0]
  BY DEF Init
<1>2. Empty \in Slot /\ Empty.addr = 0 /\ ~Empty.sched
  BY DEF Empty, Slot
<1>3. \A d \in Dirs : /\ queue[d] \in [Slots(d) -> Slot]
                      /\ \A s \in Slots(d) : queue[d][s].addr = 0 /\ ~queue[d][s].sched
  BY <1>1, <1>2
<1>4. \A d \in Dirs : Queued(d) = {} /\ Started(d) = {}
  BY <1>3 DEF Queued, Started
<1>5. FreeBank(NoRow, 0) \in Bank /\ ~FreeBank(NoRow, 0).working
  <2>1. NoRow \in Nat \cup {NoRow} /\ 0 \in Int
    OBVIOUS
  <2>2. QED
    BY <2>1, FreeBankTyped
<1>6. Typed
  BY <1>1, <1>3, <1>5, McAssumption DEF Typed, Dirs
<1>7. BankOwnsRequest /\ QueuedOnce
  BY <1>1, <1>4, <1>5 DEF BankOwnsRequest, QueuedOnce
<1>8. CountersMatch
  BY <1>1, <1>4, FS_EmptySet DEF CountersMatch
<1>9. CachedIndicesFresh
  <2>1. SUFFICES ASSUME NEW d \in Dirs
                 PROVE  /\ nextSched[d] = update_schedule_cycle(queue[d])
                        /\ nextProc[d] = update_process_cycle(queue[d])
    BY <1>1 DEF CachedIndicesFresh
  <2> DEFINE q == queue[d]
  <2>2. DOMAIN q = Slots(d) /\ \A s \in Slots(d) : q[s].addr = 0 /\ ~q[s].sched
    BY <1>3
  <2> HIDE DEF q
  <2>3. {s \in DOMAIN q : q[s].addr # 0 /\ ~q[s].sched} = {} /\ {s \in DOMAIN q : q[s].sched} = {}
    BY <2>2
  <2>4. update_schedule_cycle(q) = 0 /\ update_process_cycle(q) = 0
    BY <2>3 DEF update_schedule_cycle, update_process_cycle, Earliest
  <2>5. QED
    BY <1>1, <2>4 DEF q
<1>10. ReadReturnsOnce
  <2>1. \A a : Held(a) = {}
    BY <1>4 DEF Held, Dirs
  <2>2. QED
    BY <1>1, <2>1, FS_EmptySet DEF ReadReturnsOnce, Held
<1>11. QED
  BY <1>6, <1>7, <1>8, <1>9, <1>10 DEF Inv

(* Every step keeps it.                                                    *)
LEMMA StepInv ==
  ASSUME Inv, [Next]_vars
  PROVE  Inv'
<1>1. CASE UNCHANGED vars
  <2>1. Typed' /\ ReadReturnsOnce' /\ QueuedOnce'
    BY <1>1 DEF vars, Inv, Typed, ReadReturnsOnce, QueuedOnce, Queued
  <2>2. BankOwnsRequest' /\ CountersMatch' /\ CachedIndicesFresh'
    BY <1>1 DEF vars, Inv, BankOwnsRequest, CountersMatch, CachedIndicesFresh, Queued,
                Started, OnBank
  <2>3. QED
    BY <2>1, <2>2 DEF Inv
<1>2. CASE \E a \in Addr : add_rq(a) \/ add_wq(a)
  BY <1>2, AddReadKeeps, AddWriteKeeps
<1>3. CASE SwitchMode
  BY <1>3, SwitchModeKeeps
<1>4. CASE Schedule
  BY <1>4, ScheduleKeeps
<1>5. CASE ProcessWrite
  BY <1>5, ProcessWriteKeeps
<1>6. CASE ProcessRead
  BY <1>6, ProcessReadKeeps
<1>7. CASE ReadReturned
  BY <1>7, ReadReturnedKeeps
<1>8. CASE ProcessWaits
  BY <1>8, ProcessWaitsKeeps
<1>9. CASE NextCycle
  BY <1>9, NextCycleKeeps
<1>10. QED
  BY <1>1, <1>2, <1>3, <1>4, <1>5, <1>6, <1>7, <1>8, <1>9 DEF Next, Operate, Process

(* The controller's inductive invariant.                                   *)
LEMMA Invariant == Spec => []Inv
<1>1. Init => Inv
  BY InitInv
<1>2. Inv /\ [Next]_vars => Inv'
  BY StepInv
<1>3. QED
  BY <1>1, <1>2, PTL DEF Spec

-----------------------------------------------------------------------------
(* What it gives.                                                          *)

(* Every variable stays within its type; in particular no more requests    *)
(* are scheduled than there are banks, and the cached indices name slots.  *)
THEOREM ControllerTyped == Spec => []TypeOK
<1>1. Inv => TypeOK
  <2>1. SUFFICES ASSUME Inv
                 PROVE  TypeOK
    OBVIOUS
  <2>2. Typed /\ CachedIndicesFresh /\ CountersMatch
    BY <2>1 DEF Inv
  <2>3. \A d \in Dirs : scheduled[d] \in 0 .. Banks
    BY <2>1, <2>2, OnePerBank DEF CountersMatch
  <2>4. scheduled \in [Dirs -> 0 .. Banks]
    BY <2>2, <2>3 DEF Typed
  <2>5. \A d \in Dirs : nextSched[d] \in Slots(d) \cup {0} /\ nextProc[d] \in Slots(d) \cup {0}
    <3>1. TAKE d \in Dirs
    <3> DEFINE q == queue[d]
               W == {s \in DOMAIN q : q[s].addr # 0 /\ ~q[s].sched}
               S == {s \in DOMAIN q : q[s].sched}
    <3>2. q \in [Slots(d) -> Slot] /\ W \in SUBSET Slots(d) /\ S \in SUBSET Slots(d)
      BY <2>2 DEF Typed
    <3>3. nextSched[d] = Earliest(q, W)
      BY <2>2 DEF CachedIndicesFresh, update_schedule_cycle
    <3>4. nextProc[d] = Earliest(q, S) \/ nextProc[d] \in Slots(d)
      BY <2>2 DEF CachedIndicesFresh, update_process_cycle, Started
    <3> HIDE DEF q, W, S
    <3>5. Earliest(q, W) \in Slots(d) \cup {0} /\ Earliest(q, S) \in Slots(d) \cup {0}
      BY <3>2, IndexFound
    <3>6. QED
      BY <3>3, <3>4, <3>5
  <2>6. QED
    BY <2>2, <2>4, <2>5 DEF Typed, TypeOK
<1>2. QED
  BY <1>1, Invariant, PTL

(* A scheduled request and its bank name each other: assert(0) of          *)
(* process() never fires, and no bank stays busy for a request that is     *)
(* gone.                                                                   *)
THEOREM BanksOwned == Spec => []BankOwnsRequest
<1>1. Inv => BankOwnsRequest
  BY DEF Inv
<1>2. QED
  BY <1>1, Invariant, PTL

(* scheduled_reads and scheduled_writes count the scheduled requests: the  *)
(* assertions of reset_remain_requests() never fire.                       *)
THEOREM CountersExact == Spec => []CountersMatch
<1>1. Inv => CountersMatch
  BY DEF Inv
<1>2. QED
  BY <1>1, Invariant, PTL

(* The indices operate() keeps are what a new search would find, although  *)
(* only some steps search again.                                           *)
THEOREM IndicesFresh == Spec => []CachedIndicesFresh
<1>1. Inv => CachedIndicesFresh
  BY DEF Inv
<1>2. QED
  BY <1>1, Invariant, PTL

(* Each read taken is in one slot until its return_data(), and returns     *)
(* once.                                                                   *)
THEOREM ReadsReturn == Spec => []ReadReturnsOnce
<1>1. Inv => ReadReturnsOnce
  BY DEF Inv
<1>2. QED
  BY <1>1, Invariant, PTL

-----------------------------------------------------------------------------
(* The refinement of MemoryPort.                                           *)

(* A queue holds at most as many lines as it has occupied slots.           *)
LEMMA LinesBounded ==
  ASSUME Inv, NEW d \in Dirs
  PROVE  Cardinality(Addresses(d)) \in Nat /\ Occupancy(queue[d]) \in Nat
         /\ Cardinality(Addresses(d)) <= Occupancy(queue[d])
<1> DEFINE S == Queued(d)  T == Addresses(d)  f == [s \in S |-> queue[d][s].addr]
<1>1. queue[d] \in [Slots(d) -> Slot]
  BY DEF Inv, Typed
<1>2. IsFiniteSet(S)
  <2>1. S \in SUBSET Slots(d)
    BY DEF Queued
  <2>2. QED
    BY <2>1, SlotSets, FS_Subset
<1>3. f \in [S -> T] /\ \A a \in T : \E s \in S : f[s] = a
  BY DEF Queued, Addresses
<1>4. Occupancy(queue[d]) = Cardinality(S)
  BY <1>1 DEF Occupancy, Queued
<1> HIDE DEF S, T, f
<1>5. f \in Surjection(S, T)
  BY <1>3, Fun_IsSurj
<1>6. IsFiniteSet(T) /\ Cardinality(T) <= Cardinality(S)
  BY <1>2, <1>5, FS_Surjection
<1>7. Cardinality(S) \in Nat /\ Cardinality(T) \in Nat
  BY <1>2, <1>6, FS_CardinalityType
<1>8. QED
  BY <1>4, <1>6, <1>7 DEF T

(* The abstract queues depend on the addresses in the slots alone.         *)
LEMMA LinesKept ==
  ASSUME SameLines
  PROVE  UNCHANGED <<Addresses("rd"), Addresses("wr")>>
BY DEF SameLines, Addresses, Dirs

(* An insertion adds its line to the abstract queue.                       *)
LEMMA InsertAddsLine ==
  ASSUME Inv, NEW d \in Dirs, NEW a \in Addr,
         Occupancy(queue[d]) < (IF d = "rd" THEN RqSize ELSE WqSize),
         a \notin Addresses(d), Insert(d, a),
         UNCHANGED <<nextProc, scheduled, bank, mode, dbus, stage>>
  PROVE  \A e \in Dirs : Addresses(e)' = IF e = d THEN Addresses(e) \cup {a} ELSE Addresses(e)
<1> DEFINE x == FirstEmpty(queue[d])
<1>1. /\ x \in Slots(d) \ Queued(d)
      /\ \A e \in Dirs : \A s \in Slots(e) :
           queue'[e][s] = IF e = d /\ s = x
                          THEN [addr |-> a, sched |-> FALSE, event |-> 0]
                          ELSE queue[e][s]
  BY InsertKeeps
<1> HIDE DEF x
<1>2. \A e \in Dirs : \A s \in Slots(e) :
        queue'[e][s].addr = IF e = d /\ s = x THEN a ELSE queue[e][s].addr
  BY <1>1
<1>3. a # 0 /\ x \in Slots(d) /\ queue[d][x].addr = 0
  BY <1>1, McAssumption DEF Queued
<1>4. QED
  BY <1>2, <1>3 DEF Addresses

(* A retirement takes its line, and no other slot holds it.                *)
LEMMA RetireTakesLine ==
  ASSUME Inv, nextProc[mode] \in Started(mode), Retire,
         UNCHANGED <<nextSched, mode>>, stage' = "callers"
  PROVE  LET a == queue[mode][nextProc[mode]].addr IN
           /\ a \in Addr /\ a \in Addresses(mode)
           /\ \A d \in Dirs : Addresses(d)' = IF d = mode THEN Addresses(d) \ {a}
                                                         ELSE Addresses(d)
<1> DEFINE n == nextProc[mode]  a == queue[mode][n].addr
<1>1. Typed /\ BankOwnsRequest /\ QueuedOnce /\ mode \in Dirs
  BY DEF Inv, Typed
<1>2. n \in Slots(mode) /\ n \in Queued(mode) /\ a # 0 /\ a \in Addr
  BY <1>1, SlotTyped DEF Started, BankOwnsRequest, Queued
<1>3. \A d \in Dirs : \A s \in Slots(d) :
        queue'[d][s] = IF d = mode /\ s = n THEN Empty ELSE queue[d][s]
  BY RetireKeeps
<1>4. Empty.addr = 0
  BY DEF Empty
<1>5. \A s \in Slots(mode) : s # n => queue[mode][s].addr # a
  BY <1>1, <1>2 DEF QueuedOnce, Queued
<1> HIDE DEF n
<1>6. \A d \in Dirs : \A s \in Slots(d) :
        queue'[d][s].addr = IF d = mode /\ s = n THEN 0 ELSE queue[d][s].addr
  BY <1>3, <1>4
<1>7. \A d \in Dirs : d # mode => Addresses(d)' = Addresses(d)
  BY <1>6 DEF Addresses
<1>8. Addresses(mode)' = Addresses(mode) \ {a} /\ a \in Addresses(mode)
  <2>1. {queue'[mode][s].addr : s \in Slots(mode)} \ {0}
          = ({queue[mode][s].addr : s \in Slots(mode)} \ {0}) \ {a}
    BY <1>1, <1>2, <1>5, <1>6
  <2>2. mode' = mode
    OBVIOUS
  <2>3. QED
    BY <1>2, <2>1, <2>2 DEF Addresses
<1>9. QED
  BY <1>1, <1>2, <1>7, <1>8 DEF n

(* The instance of MemoryPort counts with the same definition.             *)
LEMMA SameCardinality ==
  ASSUME NEW S
  PROVE  Port!Cardinality(S) = Cardinality(S)
BY Zenon DEF Port!Cardinality, Cardinality

(* Every step of the controller is one of the port, or none.               *)
LEMMA StepRefines ==
  ASSUME Inv, [Next]_vars
  PROVE  [Port!PortNext]_<<Addresses("rd"), Addresses("wr")>>
<1>0. Typed /\ "rd" \in Dirs /\ "wr" \in Dirs
  BY DEF Inv, Dirs
<1>1. CASE UNCHANGED vars
  BY <1>1 DEF vars, Addresses
<1>2. ASSUME NEW a \in Addr, add_rq(a)
      PROVE  [Port!PortNext]_<<Addresses("rd"), Addresses("wr")>>
  <2>1. CASE a \in Addresses("wr") \cup Addresses("rd")
    BY <1>2, <2>1 DEF add_rq, Addresses
  <2>2. CASE a \notin Addresses("wr") \cup Addresses("rd")
    <3>1. /\ Insert("rd", a) /\ Occupancy(queue["rd"]) < RqSize
          /\ UNCHANGED <<nextProc, scheduled, bank, mode, dbus, stage>>
      BY <1>2, <2>2 DEF add_rq, Send
    <3>2. Addresses("rd")' = Addresses("rd") \cup {a} /\ Addresses("wr")' = Addresses("wr")
      BY <1>0, <2>2, <3>1, InsertAddsLine
    <3>3. Cardinality(Addresses("rd")) < RqSize
      BY <1>0, <3>1, LinesBounded, McAssumption
    <3>4. Port!AddRead(a)
      <4>1. a \notin Addresses("rd") /\ a \notin Addresses("wr")
        BY <2>2
      <4> DEFINE r == Addresses("rd")  w == Addresses("wr")
      <4>2. /\ Cardinality(r) < RqSize /\ a \notin r /\ a \notin w
            /\ r' = r \cup {a} /\ w' = w
        BY <3>2, <3>3, <4>1
      <4>3. QED
        BY <4>2, SameCardinality DEF Port!AddRead
    <3>5. QED
      BY <3>4 DEF Port!PortNext
  <2>3. QED
    BY <2>1, <2>2
<1>3. ASSUME NEW a \in Addr, add_wq(a)
      PROVE  [Port!PortNext]_<<Addresses("rd"), Addresses("wr")>>
  <2>1. CASE a \in Addresses("wr")
    BY <1>3, <2>1 DEF add_wq, Addresses
  <2>2. CASE a \notin Addresses("wr")
    <3>1. /\ Insert("wr", a) /\ Occupancy(queue["wr"]) < WqSize
          /\ UNCHANGED <<nextProc, scheduled, bank, mode, dbus, stage>>
      BY <1>3, <2>2 DEF add_wq, Send
    <3>2. Addresses("wr")' = Addresses("wr") \cup {a} /\ Addresses("rd")' = Addresses("rd")
      BY <1>0, <2>2, <3>1, InsertAddsLine
    <3>3. Cardinality(Addresses("wr")) < WqSize
      BY <1>0, <3>1, LinesBounded, McAssumption
    <3>4. Port!AddWrite(a)
      <4> DEFINE r == Addresses("rd")  w == Addresses("wr")
      <4>1. Cardinality(w) < WqSize /\ w' = w \cup {a} /\ r' = r
        BY <3>2, <3>3
      <4>2. QED
        BY <4>1, SameCardinality DEF Port!AddWrite
    <3>5. QED
      BY <3>4 DEF Port!PortNext
  <2>3. QED
    BY <2>1, <2>2
<1>4. CASE SwitchMode
  BY <1>4, SwitchModeKeeps, LinesKept
<1>5. CASE Schedule
  BY <1>5, ScheduleKeeps, LinesKept
<1>6. CASE ProcessRead
  BY <1>6, ProcessReadKeeps, LinesKept
<1>7. CASE ProcessWaits
  BY <1>7 DEF ProcessWaits, Addresses
<1>8. CASE NextCycle
  BY <1>8, NextCycleKeeps, LinesKept
<1>9. CASE ProcessWrite
  <2> DEFINE a == queue[mode][nextProc[mode]].addr
  <2>1. mode = "wr" /\ nextProc[mode] # 0 /\ Retire /\ UNCHANGED <<nextSched, mode>>
        /\ stage' = "callers"
    BY <1>9 DEF ProcessWrite, Due
  <2>2. nextProc[mode] \in Started(mode)
    BY <2>1, ProcessedIsStarted
  <2>3. /\ a \in Addr /\ a \in Addresses(mode)
        /\ \A d \in Dirs : Addresses(d)' = IF d = mode THEN Addresses(d) \ {a} ELSE Addresses(d)
    BY <2>1, <2>2, RetireTakesLine
  <2> HIDE DEF a
  <2>4. a \in Addresses("wr") /\ Addresses("wr")' = Addresses("wr") \ {a}
        /\ Addresses("rd")' = Addresses("rd")
    BY <1>0, <2>1, <2>3
  <2>5. Port!ServeWrite(a)
    BY <2>4 DEF Port!ServeWrite
  <2>6. QED
    BY <2>3, <2>5 DEF Port!PortNext
<1>10. CASE ReadReturned
  <2> DEFINE a == queue[mode][nextProc[mode]].addr
  <2>1. mode = "rd" /\ stage = "returning" /\ Retire /\ UNCHANGED <<nextSched, mode>>
        /\ stage' = "callers"
    BY <1>0, <1>10 DEF ReadReturned, Typed
  <2>2. nextProc[mode] \in Started(mode)
    BY <2>1, ProcessedIsStarted
  <2>3. /\ a \in Addr /\ a \in Addresses(mode)
        /\ \A d \in Dirs : Addresses(d)' = IF d = mode THEN Addresses(d) \ {a} ELSE Addresses(d)
    BY <2>1, <2>2, RetireTakesLine
  <2> HIDE DEF a
  <2>4. a \in Addresses("rd") /\ Addresses("rd")' = Addresses("rd") \ {a}
        /\ Addresses("wr")' = Addresses("wr")
    BY <1>0, <2>1, <2>3
  <2>5. Port!ServeRead(a)
    BY <2>4 DEF Port!ServeRead
  <2>6. QED
    BY <2>3, <2>5 DEF Port!PortNext
<1>11. QED
  BY <1>1, <1>2, <1>3, <1>4, <1>5, <1>6, <1>7, <1>8, <1>9, <1>10 DEF Next, Operate, Process

(* The controller is the two bounded sets of lines that DramCacheManager   *)
(* is written against: switches, schedules and cycles are stutters, and    *)
(* each queued line is served once.                                        *)
THEOREM RefinesMemoryPort == Spec => ImplementsMemoryPort
<1>1. Init => Port!PortInit
  <2>1. SUFFICES ASSUME Init PROVE Port!PortInit
    OBVIOUS
  <2>2. \A d \in Dirs : \A s \in Slots(d) : queue[d][s].addr = 0
    BY <2>1 DEF Init, Empty
  <2>3. \A d \in Dirs : Addresses(d) = {}
    BY <2>2 DEF Addresses
  <2>4. QED
    BY <2>3 DEF Port!PortInit, Dirs
<1>2. Inv /\ [Next]_vars => [Port!PortNext]_<<Addresses("rd"), Addresses("wr")>>
  BY StepRefines
<1>3. QED
  BY <1>1, <1>2, Invariant, PTL DEF Spec, ImplementsMemoryPort, Port!PortSpec, Port!portVars

=============================================================================
