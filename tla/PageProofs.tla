----------------------------- MODULE PageProofs -----------------------------
(***************************************************************************)
(* Proofs about va_to_pa() and the TLBs for every number of pages and      *)
(* frames and every size of the TLBs.                                      *)
(***************************************************************************)
EXTENDS PageProperties, FiniteSetTheorems, SequenceTheorems, TLAPS

-----------------------------------------------------------------------------
(* Lemmas on the data of the model.                                        *)

(* A set of pages has a first one: the scan of the map finds a victim.     *)
LEMMA FirstPage ==
  ASSUME NEW S, S \subseteq Nat, S # {}
  PROVE  /\ (CHOOSE v \in S : \A u \in S : v <= u) \in S
         /\ \A u \in S : (CHOOSE v \in S : \A w \in S : v <= w) <= u
<1>1. PICK x \in S : \A y \in S : ~ (<<y, x>> \in OpToRel(<, Nat))
  BY NatLessThanWellFounded, WFMin
<1>2. \A y \in S : x <= y
  <2>1. TAKE y \in S
  <2>2. <<y, x>> \in Nat \X Nat
    BY <2>1, <1>1
  <2>3. ~ (y < x)
    BY <2>1, <2>2, <1>1 DEF OpToRel
  <2>4. QED
    BY <2>2, <2>3
<1>3. QED
  BY <1>1, <1>2

(* A TLB that takes a translation keeps to its size, holds it afterwards,  *)
(* and changes no other.                                                   *)
LEMMA FilledProperties ==
  ASSUME NEW b, NEW size \in Nat, NEW v, NEW f,
         IsFiniteSet(DOMAIN b), Cardinality(DOMAIN b) <= size,
         NEW c \in Filled(b, size, v, f)
  PROVE  /\ IsFiniteSet(DOMAIN c) /\ Cardinality(DOMAIN c) <= size
         /\ DOMAIN c \subseteq DOMAIN b \cup {v}
         /\ \A z \in DOMAIN c : c[z] = IF z = v THEN f ELSE b[z]
<1>0. Cardinality(DOMAIN b) \in Nat
  BY FS_CardinalityType
<1>1. CASE Cardinality(DOMAIN b) < size
  <2>1. c = With(b, v, f)
    BY <1>1 DEF Filled
  <2>2. DOMAIN c = DOMAIN b \cup {v} /\ c[v] = f /\ \A z \in DOMAIN b : z # v => c[z] = b[z]
    BY <2>1 DEF With
  <2>3. /\ IsFiniteSet(DOMAIN b \cup {v})
        /\ Cardinality(DOMAIN b \cup {v}) =
             IF v \in DOMAIN b THEN Cardinality(DOMAIN b) ELSE Cardinality(DOMAIN b) + 1
    BY FS_AddElement
  <2>4. QED
    BY <1>0, <1>1, <2>2, <2>3
<1>2. CASE ~ (Cardinality(DOMAIN b) < size)
  <2>1. PICK u \in DOMAIN b : c = With(Without(b, u), v, f)
    BY <1>2 DEF Filled
  <2> DEFINE less == DOMAIN b \ {u}
  <2>2. DOMAIN Without(b, u) = less /\ \A z \in less : Without(b, u)[z] = b[z]
    BY DEF Without, Restrict
  <2>3. DOMAIN c = less \cup {v} /\ c[v] = f /\ \A z \in less : z # v => c[z] = b[z]
    BY <2>1, <2>2 DEF With
  <2>4. IsFiniteSet(less) /\ Cardinality(less) = Cardinality(DOMAIN b) - 1
    BY <2>1, FS_RemoveElement
  <2>5. /\ IsFiniteSet(less \cup {v})
        /\ Cardinality(less \cup {v}) =
             IF v \in less THEN Cardinality(less) ELSE Cardinality(less) + 1
    BY <2>4, FS_AddElement
  <2> HIDE DEF less
  <2>6. IsFiniteSet(DOMAIN c) /\ Cardinality(DOMAIN c) <= size
    BY <1>0, <2>3, <2>4, <2>5
  <2>7. QED
    BY <2>3, <2>6 DEF less
<1>3. QED
  BY <1>1, <1>2

-----------------------------------------------------------------------------
(* The page table.                                                         *)

TableTypes ==
  /\ DOMAIN page_table \subseteq Pages /\ IsFiniteSet(DOMAIN page_table)
  /\ \A v \in DOMAIN page_table : page_table[v] \in Nat \ {0}
  /\ DOMAIN inverse_table \subseteq Nat \ {0}
  /\ \A f \in DOMAIN inverse_table : inverse_table[f] \in Pages
  /\ previous_ppage \in Nat /\ num_adjacent_page \in Nat /\ allocated_pages \in Nat

TableInv == TableTypes /\ TablesInverse /\ WithinMemory

(* With memory full there is a victim, and it is mapped.                   *)
LEMMA VictimMapped ==
  ASSUME TableInv, allocated_pages >= DRAM_PAGES
  PROVE  NRU_vpage \in DOMAIN page_table
<1>1. DOMAIN page_table # {}
  BY PageAssumption, FS_EmptySet DEF TableInv, TableTypes, WithinMemory
<1>2. DOMAIN page_table \subseteq Nat
  BY PageAssumption DEF TableInv, TableTypes
<1>3. QED
  BY <1>1, <1>2, FirstPage DEF NRU_vpage

(* A new page gets a frame that no page has.                               *)
LEMMA AllocateStep ==
  ASSUME TableInv, NEW v \in Pages, ~Mapped(v), Allocate(v)
  PROVE  /\ TableInv' /\ v \in DOMAIN page_table'
         /\ \A u \in DOMAIN page_table : u # v => u \in DOMAIN page_table' /\ page_table'[u] = page_table[u]
<1>1. PICK f \in Draws \cup {previous_ppage + 1}, fragmented \in BOOLEAN :
         /\ NewFrame(f, fragmented)
         /\ page_table' = With(page_table, v, f)
         /\ inverse_table' = With(inverse_table, f, v)
         /\ previous_ppage' = f
         /\ IF fragmented THEN num_adjacent_page' \in Runs
                          ELSE num_adjacent_page' = num_adjacent_page - 1
  BY DEF Allocate
<1>2. /\ allocated_pages < DRAM_PAGES /\ allocated_pages' = allocated_pages + 1
      /\ v \notin DOMAIN page_table
  BY DEF Allocate, Mapped
<1>3. f \in Nat \ {0} /\ f \notin DOMAIN inverse_table
      /\ (~fragmented => num_adjacent_page > 0)
  <2>1. previous_ppage + 1 \in Nat \ {0}
    BY DEF TableInv, TableTypes
  <2>2. QED
    BY <1>1, <2>1, PageAssumption DEF NewFrame, Free, TableInv, TableTypes
<1>4. /\ DOMAIN page_table' = DOMAIN page_table \cup {v} /\ page_table'[v] = f
      /\ \A u \in DOMAIN page_table : u # v => page_table'[u] = page_table[u]
  BY <1>1 DEF With
<1>5. /\ DOMAIN inverse_table' = DOMAIN inverse_table \cup {f} /\ inverse_table'[f] = v
      /\ \A g \in DOMAIN inverse_table : g # f => inverse_table'[g] = inverse_table[g]
  BY <1>1 DEF With
<1>6. /\ IsFiniteSet(DOMAIN page_table')
      /\ Cardinality(DOMAIN page_table') = Cardinality(DOMAIN page_table) + 1
  BY <1>2, <1>4, FS_AddElement DEF TableInv, TableTypes
<1>7. TableTypes'
  <2>1. num_adjacent_page' \in Nat
    <3>1. CASE fragmented
      <4>1. num_adjacent_page' \in Runs
        BY <3>1, <1>1
      <4>2. QED
        BY <4>1, PageAssumption
    <3>2. CASE ~fragmented
      <4>1. num_adjacent_page' = num_adjacent_page - 1
        BY <3>2, <1>1
      <4>2. num_adjacent_page > 0
        BY <3>2, <1>3
      <4>3. num_adjacent_page \in Nat
        BY DEF TableInv, TableTypes
      <4>4. QED
        BY <4>1, <4>2, <4>3
    <3>3. QED
      BY <3>1, <3>2
  <2>2. previous_ppage' \in Nat /\ allocated_pages' \in Nat
    BY <1>1, <1>2, <1>3 DEF TableInv, TableTypes
  <2>3. QED
    BY <1>3, <1>4, <1>5, <1>6, <2>1, <2>2 DEF TableInv, TableTypes
<1>8. TablesInverse'
  BY <1>2, <1>3, <1>4, <1>5 DEF TableInv, TablesInverse
<1>9. WithinMemory'
  BY <1>2, <1>6, PageAssumption DEF TableInv, TableTypes, WithinMemory
<1>10. QED
  BY <1>4, <1>7, <1>8, <1>9 DEF TableInv

(* A swap hands the frame of the victim on, and takes it from no one else. *)
LEMMA SwapStep ==
  ASSUME TableInv, NEW v \in Pages, ~Mapped(v), Swap(v)
  PROVE  /\ TableInv' /\ v \in DOMAIN page_table'
         /\ NRU_vpage \in DOMAIN page_table
         /\ \A u \in DOMAIN page_table : u # NRU_vpage =>
              u \in DOMAIN page_table' /\ page_table'[u] = page_table[u]
<1> DEFINE n == NRU_vpage  f == page_table[n]
<1>1. /\ page_table' = With(Without(page_table, n), v, f)
      /\ inverse_table' = With(inverse_table, f, v)
      /\ allocated_pages >= DRAM_PAGES
      /\ UNCHANGED <<previous_ppage, num_adjacent_page, allocated_pages>>
  BY DEF Swap, Exchanged
<1>2. n \in DOMAIN page_table /\ v \notin DOMAIN page_table
  BY <1>1, VictimMapped DEF Mapped
<1> HIDE DEF n
<1>3. f \in Nat \ {0} /\ f \in DOMAIN inverse_table /\ inverse_table[f] = n
  BY <1>2 DEF TableInv, TableTypes, TablesInverse
<1>4. /\ DOMAIN page_table' = (DOMAIN page_table \ {n}) \cup {v} /\ page_table'[v] = f
      /\ \A u \in DOMAIN page_table \ {n} : page_table'[u] = page_table[u]
  <2>1. /\ DOMAIN Without(page_table, n) = DOMAIN page_table \ {n}
        /\ \A u \in DOMAIN page_table \ {n} : Without(page_table, n)[u] = page_table[u]
    BY DEF Without, Restrict
  <2>2. QED
    BY <1>1, <1>2, <2>1 DEF With
<1>5. /\ DOMAIN inverse_table' = DOMAIN inverse_table /\ inverse_table'[f] = v
      /\ \A g \in DOMAIN inverse_table : g # f => inverse_table'[g] = inverse_table[g]
  BY <1>1, <1>3 DEF With
<1> HIDE DEF f
<1>6. /\ IsFiniteSet(DOMAIN page_table')
      /\ Cardinality(DOMAIN page_table') = Cardinality(DOMAIN page_table)
  <2> DEFINE rest == DOMAIN page_table \ {n}
  <2>1. IsFiniteSet(DOMAIN page_table) /\ Cardinality(DOMAIN page_table) \in Nat
    BY FS_CardinalityType DEF TableInv, TableTypes
  <2>2. IsFiniteSet(rest) /\ Cardinality(rest) = Cardinality(DOMAIN page_table) - 1
    BY <1>2, <2>1, FS_RemoveElement
  <2>3. v \notin rest
    BY <1>2
  <2> HIDE DEF rest
  <2>4. IsFiniteSet(rest \cup {v}) /\ Cardinality(rest \cup {v}) = Cardinality(rest) + 1
    BY <2>2, <2>3, FS_AddElement
  <2>5. QED
    BY <1>4, <2>1, <2>2, <2>4 DEF rest
<1>7. TableTypes'
  BY <1>1, <1>3, <1>4, <1>5, <1>6 DEF TableInv, TableTypes
<1>8. \A u \in DOMAIN page_table \ {n} : page_table[u] # f
  BY <1>2, <1>3 DEF TableInv, TablesInverse, f
<1>9. TablesInverse'
  <2>1. ASSUME NEW u \in DOMAIN page_table'
        PROVE  page_table'[u] \in DOMAIN inverse_table' /\ inverse_table'[page_table'[u]] = u
    BY <1>3, <1>4, <1>5, <1>8 DEF TableInv, TablesInverse
  <2>2. ASSUME NEW g \in DOMAIN inverse_table'
        PROVE  inverse_table'[g] \in DOMAIN page_table' /\ page_table'[inverse_table'[g]] = g
    <3>1. CASE g = f
      BY <3>1, <1>4, <1>5
    <3>2. CASE g # f
      <4>1. /\ inverse_table'[g] = inverse_table[g] /\ inverse_table[g] \in DOMAIN page_table
            /\ page_table[inverse_table[g]] = g
        BY <3>2, <2>2, <1>5 DEF TableInv, TablesInverse
      <4>2. inverse_table[g] # n
        BY <4>1, <3>2 DEF f
      <4>3. QED
        BY <4>1, <4>2, <1>4
    <3>3. QED
      BY <3>1, <3>2
  <2>3. QED
    BY <2>1, <2>2 DEF TablesInverse
<1>10. WithinMemory'
  BY <1>1, <1>6 DEF TableInv, WithinMemory
<1>11. QED
  BY <1>2, <1>4, <1>7, <1>9, <1>10 DEF TableInv, n

(* va_to_pa() maps the page it is asked for.                               *)
LEMMA TranslationStep ==
  ASSUME TableInv, NEW v \in Pages, va_to_pa(v)
  PROVE  TableInv' /\ v \in DOMAIN page_table' /\ page_table'[v] \in Nat \ {0}
<1>1. CASE Mapped(v)
  <2>1. UNCHANGED tables
    BY <1>1 DEF va_to_pa
  <2>2. TableInv'
    BY <2>1 DEF tables, TableInv, TableTypes, TablesInverse, WithinMemory
  <2>3. QED
    BY <1>1, <2>1, <2>2 DEF tables, Mapped, TableInv, TableTypes
<1>2. CASE ~Mapped(v) /\ Allocate(v)
  BY <1>2, AllocateStep DEF TableInv, TableTypes
<1>3. CASE ~Mapped(v) /\ Swap(v)
  BY <1>3, SwapStep DEF TableInv, TableTypes
<1>4. QED
  BY <1>1, <1>2, <1>3 DEF va_to_pa

-----------------------------------------------------------------------------
(* The TLBs.                                                               *)

BlockTypes ==
  /\ block = [t \in TLBs |-> block[t]]
  /\ \A t \in TLBs : /\ DOMAIN block[t] \subseteq Pages /\ IsFiniteSet(DOMAIN block[t])
                     /\ Cardinality(DOMAIN block[t]) <= TlbSize[t]

MissTypes ==
  /\ MSHR = [t \in TLBs |-> MSHR[t]]
  /\ \A t \in TLBs : /\ DOMAIN MSHR[t] \subseteq Pages /\ IsFiniteSet(DOMAIN MSHR[t])
                     /\ Cardinality(DOMAIN MSHR[t]) <= MshrSize[t]

QueueTypes == RQ \in [TLBs -> Seq(Pages)] /\ waiting \subseteq Pages

(* A translation f of v is the table's, or is known to be overtaken; it    *)
(* will be so after a step.                                                *)
Right(v, f)     == (Mapped(v) /\ f = page_table[v]) \/ v \in overtaken
RightNext(v, f) == (v \in DOMAIN page_table' /\ f = page_table'[v]) \/ v \in overtaken'

BlocksRight == \A t \in TLBs : \A v \in DOMAIN block[t] : Right(v, block[t][v])
MissesRight == \A t \in TLBs : \A v \in DOMAIN MSHR[t] :
                 MSHR[t][v] # 0 => Right(v, MSHR[t][v])

IInv == /\ TableInv /\ BlockTypes /\ MissTypes /\ QueueTypes
        /\ BlocksRight /\ MissesRight

(* Only the page a swap takes its frame from loses its translation.        *)
LEMMA RightKept ==
  ASSUME TableInv, NEW w \in Pages, va_to_pa(w), NEW v, NEW f, Right(v, f)
  PROVE  RightNext(v, f) \/ (~Mapped(w) /\ allocated_pages >= DRAM_PAGES /\ v = NRU_vpage)
<1>1. CASE Mapped(w)
  BY <1>1 DEF va_to_pa, tables, Right, RightNext, Mapped
<1>2. CASE ~Mapped(w) /\ Allocate(w)
  <2>1. overtaken' = overtaken
    BY <1>2 DEF Allocate
  <2>2. CASE v \in overtaken
    BY <2>1, <2>2 DEF RightNext
  <2>3. CASE Mapped(v) /\ f = page_table[v]
    BY <1>2, <2>3, AllocateStep DEF RightNext, Mapped
  <2>4. QED
    BY <2>2, <2>3 DEF Right
<1>3. CASE ~Mapped(w) /\ Swap(w)
  <2>1. /\ allocated_pages >= DRAM_PAGES
        /\ overtaken \ {NRU_vpage} \subseteq overtaken'
    BY <1>3 DEF Swap
  <2>2. CASE v = NRU_vpage
    BY <1>3, <2>1, <2>2
  <2>3. CASE v # NRU_vpage /\ v \in overtaken
    BY <2>1, <2>3 DEF RightNext
  <2>4. CASE v # NRU_vpage /\ Mapped(v) /\ f = page_table[v]
    BY <1>3, <2>4, SwapStep DEF RightNext, Mapped
  <2>5. QED
    BY <2>2, <2>3, <2>4 DEF Right
<1>4. QED
  BY <1>1, <1>2, <1>3 DEF va_to_pa

(* The victim of a swap is marked when a miss still holds its translation. *)
LEMMA VictimMarked ==
  ASSUME NEW w, Swap(w), NEW t \in TLBs, NRU_vpage \in DOMAIN MSHR[t], MSHR[t][NRU_vpage] # 0
  PROVE  NRU_vpage \in overtaken'
<1>1. UnderWay(NRU_vpage)
  BY DEF UnderWay
<1>2. QED
  BY <1>1 DEF Swap

(* What va_to_pa() leaves in the TLBs and in the misses stays right.       *)
LEMMA WalkKeepsRight ==
  ASSUME TableInv, BlockTypes, BlocksRight, MissesRight,
         NEW w \in Pages, va_to_pa(w), block' = BlocksKept(w)
  PROVE  /\ BlockTypes'
         /\ \A t \in TLBs : \A v \in DOMAIN block'[t] : RightNext(v, block'[t][v])
         /\ \A t \in TLBs : \A v \in DOMAIN MSHR[t] :
              MSHR[t][v] # 0 => RightNext(v, MSHR[t][v])
<1> DEFINE swaps == ~Mapped(w) /\ allocated_pages >= DRAM_PAGES
<1>1. ASSUME NEW t \in TLBs
      PROVE  /\ DOMAIN block'[t] = IF swaps THEN DOMAIN block[t] \ {NRU_vpage} ELSE DOMAIN block[t]
             /\ \A v \in DOMAIN block'[t] : block'[t][v] = block[t][v]
  <2>1. CASE swaps
    <3>1. block'[t] = Without(block[t], NRU_vpage)
      BY <2>1 DEF BlocksKept, invalidate_entry
    <3>2. QED
      BY <2>1, <3>1 DEF Without, Restrict
  <2>2. CASE ~swaps
    BY <2>2 DEF BlocksKept
  <2>3. QED
    BY <2>1, <2>2
<1>2. block' = [t \in TLBs |-> block'[t]]
  <2>1. CASE swaps
    BY <2>1 DEF BlocksKept, invalidate_entry
  <2>2. CASE ~swaps
    BY <2>2 DEF BlocksKept, BlockTypes
  <2>3. QED
    BY <2>1, <2>2
<1>3. BlockTypes'
  <2>1. ASSUME NEW t \in TLBs
        PROVE  /\ DOMAIN block'[t] \subseteq Pages /\ IsFiniteSet(DOMAIN block'[t])
               /\ Cardinality(DOMAIN block'[t]) <= TlbSize[t]
    <3>1. DOMAIN block'[t] \subseteq DOMAIN block[t]
      BY <1>1, <2>1
    <3>2. /\ DOMAIN block[t] \subseteq Pages /\ IsFiniteSet(DOMAIN block[t])
          /\ Cardinality(DOMAIN block[t]) <= TlbSize[t] /\ TlbSize[t] \in Nat
      BY <2>1, PageAssumption DEF BlockTypes
    <3>3. /\ IsFiniteSet(DOMAIN block'[t]) /\ Cardinality(DOMAIN block[t]) \in Nat
          /\ Cardinality(DOMAIN block'[t]) \in Nat
          /\ Cardinality(DOMAIN block'[t]) <= Cardinality(DOMAIN block[t])
      BY <3>1, <3>2, FS_Subset, FS_CardinalityType
    <3>4. QED
      BY <3>1, <3>2, <3>3
  <2>2. QED
    BY <1>2, <2>1 DEF BlockTypes
<1>4. ASSUME NEW t \in TLBs, NEW v \in DOMAIN block'[t]
      PROVE  RightNext(v, block'[t][v])
  <2>1. v \in DOMAIN block[t] /\ block'[t][v] = block[t][v] /\ ~ (swaps /\ v = NRU_vpage)
    BY <1>1, <1>4
  <2>2. Right(v, block[t][v])
    BY <2>1, <1>4 DEF BlocksRight
  <2>3. QED
    BY <2>1, <2>2, RightKept
<1>5. ASSUME NEW t \in TLBs, NEW v \in DOMAIN MSHR[t], MSHR[t][v] # 0
      PROVE  RightNext(v, MSHR[t][v])
  <2>1. Right(v, MSHR[t][v])
    BY <1>5 DEF MissesRight
  <2>2. CASE swaps /\ v = NRU_vpage
    <3>1. Swap(w)
      BY <2>2, PageAssumption DEF va_to_pa, Allocate, TableInv, TableTypes
    <3>2. QED
      BY <2>2, <3>1, <1>5, VictimMarked DEF RightNext
  <2>3. QED
    BY <2>1, <2>2, RightKept
<1>6. QED
  BY <1>3, <1>4, <1>5

(* Queues of pages stay queues of pages.                                   *)
LEMMA AddedTyped ==
  ASSUME NEW q \in Seq(Pages), NEW v \in Pages
  PROVE  Added(q, v) \in Seq(Pages)
BY DEF Added

(* The head of a queue of pages is a page, and the rest is a queue.        *)
LEMMA HeadTail ==
  ASSUME NEW q \in Seq(Pages), q # <<>>
  PROVE  Head(q) \in Pages /\ Tail(q) \in Seq(Pages)
OBVIOUS

(* A miss less.                                                            *)
LEMMA FewerMisses ==
  ASSUME NEW m, NEW size \in Nat, NEW v,
         DOMAIN m \subseteq Pages, IsFiniteSet(DOMAIN m), Cardinality(DOMAIN m) <= size
  PROVE  /\ DOMAIN Without(m, v) = DOMAIN m \ {v}
         /\ DOMAIN Without(m, v) \subseteq Pages /\ IsFiniteSet(DOMAIN Without(m, v))
         /\ Cardinality(DOMAIN Without(m, v)) <= size
         /\ \A u \in DOMAIN m \ {v} : Without(m, v)[u] = m[u]
<1>1. /\ DOMAIN Without(m, v) = DOMAIN m \ {v}
      /\ \A u \in DOMAIN m \ {v} : Without(m, v)[u] = m[u]
  BY DEF Without, Restrict
<1>2. /\ IsFiniteSet(DOMAIN m \ {v}) /\ Cardinality(DOMAIN m) \in Nat
      /\ Cardinality(DOMAIN m \ {v}) \in Nat
      /\ Cardinality(DOMAIN m \ {v}) <= Cardinality(DOMAIN m)
  BY FS_Subset, FS_CardinalityType
<1>3. QED
  BY <1>1, <1>2

-----------------------------------------------------------------------------
(* The steps.                                                              *)

(* A miss of the DTLB reserves a place and goes down to the STLB.          *)
LEMMA MissStep == ASSUME IInv, Miss PROVE IInv'
<1> DEFINE v == Head(RQ["DTLB"])
<1>1. /\ RQ["DTLB"] # <<>> /\ NewMiss("DTLB", v)
      /\ RQ' = [DTLB |-> Tail(RQ["DTLB"]), STLB |-> Added(RQ["STLB"], v)]
      /\ MSHR' = [MSHR EXCEPT !["DTLB"] = With(@, v, 0)]
      /\ UNCHANGED <<tables, block, waiting, overtaken, accesses>>
  BY DEF Miss
<1>2. v \in Pages /\ Tail(RQ["DTLB"]) \in Seq(Pages) /\ Added(RQ["STLB"], v) \in Seq(Pages)
  BY <1>1, HeadTail, AddedTyped DEF IInv, QueueTypes, TLBs
<1> HIDE DEF v
<1>3. QueueTypes'
  <2>1. RQ' = [t \in TLBs |-> IF t = "DTLB" THEN Tail(RQ["DTLB"]) ELSE Added(RQ["STLB"], v)]
    BY <1>1 DEF TLBs
  <2>2. QED
    BY <1>1, <1>2, <2>1 DEF IInv, QueueTypes
<1>4. TableInv' /\ BlockTypes' /\ BlocksRight'
  BY <1>1 DEF IInv, TableInv, TableTypes, TablesInverse, WithinMemory, BlockTypes, BlocksRight,
              Right, Mapped, tables
<1> DEFINE m == With(MSHR["DTLB"], v, 0)
<1>5. /\ DOMAIN m = DOMAIN MSHR["DTLB"] \cup {v}
      /\ DOMAIN m \subseteq Pages /\ IsFiniteSet(DOMAIN m)
      /\ Cardinality(DOMAIN m) <= MshrSize["DTLB"]
      /\ m[v] = 0 /\ \A u \in DOMAIN MSHR["DTLB"] : m[u] = MSHR["DTLB"][u]
  <2>1. /\ DOMAIN MSHR["DTLB"] \subseteq Pages /\ IsFiniteSet(DOMAIN MSHR["DTLB"])
        /\ v \notin DOMAIN MSHR["DTLB"] /\ Cardinality(DOMAIN MSHR["DTLB"]) < MshrSize["DTLB"]
        /\ MshrSize["DTLB"] \in Nat
    BY <1>1, PageAssumption DEF IInv, MissTypes, NewMiss, TLBs
  <2> DEFINE old == MSHR["DTLB"]  size == MshrSize["DTLB"]
  <2> HIDE DEF old, size, m
  <2>2. /\ DOMAIN old \subseteq Pages /\ IsFiniteSet(DOMAIN old)
        /\ v \notin DOMAIN old /\ Cardinality(DOMAIN old) < size /\ size \in Nat
    BY <2>1 DEF old, size
  <2>3. /\ IsFiniteSet(DOMAIN old \cup {v})
        /\ Cardinality(DOMAIN old \cup {v}) = Cardinality(DOMAIN old) + 1
        /\ Cardinality(DOMAIN old) \in Nat
    BY <2>2, FS_AddElement, FS_CardinalityType
  <2>4. DOMAIN m = DOMAIN old \cup {v} /\ m[v] = 0 /\ \A u \in DOMAIN old : m[u] = old[u]
    BY <2>2 DEF With, old, m
  <2>5. Cardinality(DOMAIN m) <= size /\ DOMAIN m \subseteq Pages /\ IsFiniteSet(DOMAIN m)
    BY <1>2, <2>2, <2>3, <2>4
  <2>6. QED
    BY <2>4, <2>5 DEF old, size
<1>6. MSHR'["DTLB"] = m /\ MSHR'["STLB"] = MSHR["STLB"] /\ MSHR' = [t \in TLBs |-> MSHR'[t]]
  BY <1>1 DEF IInv, MissTypes, TLBs
<1> HIDE DEF m
<1>7. MissTypes'
  BY <1>5, <1>6 DEF IInv, MissTypes, TLBs
<1>8. MissesRight'
  <2>1. ASSUME NEW t \in TLBs, NEW u \in DOMAIN MSHR'[t], MSHR'[t][u] # 0
        PROVE  u \in DOMAIN MSHR[t] /\ MSHR'[t][u] = MSHR[t][u]
    BY <2>1, <1>5, <1>6 DEF TLBs
  <2>2. ASSUME NEW t \in TLBs, NEW u \in DOMAIN MSHR'[t], MSHR'[t][u] # 0
        PROVE  RightNext(u, MSHR'[t][u])
    BY <2>1, <2>2, <1>1 DEF IInv, MissesRight, Right, RightNext, Mapped, tables
  <2>3. QED
    BY <2>2 DEF MissesRight, Right, RightNext, Mapped
<1>9. QED
  BY <1>3, <1>4, <1>7, <1>8 DEF IInv

(* The STLB's walk, with a swap if memory is full.                         *)
LEMMA WalkStep == ASSUME IInv, Walk PROVE IInv'
<1> DEFINE v == Head(RQ["STLB"])
<1>1. /\ RQ["STLB"] # <<>> /\ NewMiss("STLB", v)
      /\ va_to_pa(v)
      /\ block' = BlocksKept(v)
      /\ MSHR' = [MSHR EXCEPT !["STLB"] = With(@, v, page_table'[v])]
      /\ RQ' = [RQ EXCEPT !["STLB"] = Tail(@)]
      /\ UNCHANGED <<waiting, accesses>>
  BY DEF Walk
<1>2. v \in Pages /\ Tail(RQ["STLB"]) \in Seq(Pages)
  BY <1>1, HeadTail DEF IInv, QueueTypes, TLBs
<1> HIDE DEF v
<1>3. QueueTypes'
  BY <1>1, <1>2 DEF IInv, QueueTypes, TLBs
<1>4. TableInv' /\ v \in DOMAIN page_table'
  BY <1>1, <1>2, TranslationStep DEF IInv
<1>5. /\ BlockTypes'
      /\ \A t \in TLBs : \A u \in DOMAIN block'[t] : RightNext(u, block'[t][u])
      /\ \A t \in TLBs : \A u \in DOMAIN MSHR[t] :
           MSHR[t][u] # 0 => RightNext(u, MSHR[t][u])
  BY <1>1, <1>2, WalkKeepsRight DEF IInv
<1>6. BlocksRight'
  BY <1>5 DEF BlocksRight, Right, RightNext, Mapped
<1> DEFINE f == page_table'[v]  m == With(MSHR["STLB"], v, f)
<1>7. RightNext(v, f)
  BY <1>4 DEF RightNext
<1> HIDE DEF f
<1>8. /\ DOMAIN m = DOMAIN MSHR["STLB"] \cup {v}
      /\ DOMAIN m \subseteq Pages /\ IsFiniteSet(DOMAIN m)
      /\ Cardinality(DOMAIN m) <= MshrSize["STLB"]
      /\ m[v] = f /\ \A u \in DOMAIN MSHR["STLB"] : m[u] = MSHR["STLB"][u]
  <2>1. /\ DOMAIN MSHR["STLB"] \subseteq Pages /\ IsFiniteSet(DOMAIN MSHR["STLB"])
        /\ v \notin DOMAIN MSHR["STLB"] /\ Cardinality(DOMAIN MSHR["STLB"]) < MshrSize["STLB"]
        /\ MshrSize["STLB"] \in Nat
    BY <1>1, PageAssumption DEF IInv, MissTypes, NewMiss, TLBs
  <2> DEFINE old == MSHR["STLB"]  size == MshrSize["STLB"]
  <2> HIDE DEF old, size, m
  <2>2. /\ DOMAIN old \subseteq Pages /\ IsFiniteSet(DOMAIN old)
        /\ v \notin DOMAIN old /\ Cardinality(DOMAIN old) < size /\ size \in Nat
    BY <2>1 DEF old, size
  <2>3. /\ IsFiniteSet(DOMAIN old \cup {v})
        /\ Cardinality(DOMAIN old \cup {v}) = Cardinality(DOMAIN old) + 1
        /\ Cardinality(DOMAIN old) \in Nat
    BY <2>2, FS_AddElement, FS_CardinalityType
  <2>4. DOMAIN m = DOMAIN old \cup {v} /\ m[v] = f /\ \A u \in DOMAIN old : m[u] = old[u]
    BY <2>2 DEF With, old, m
  <2>5. Cardinality(DOMAIN m) <= size /\ DOMAIN m \subseteq Pages /\ IsFiniteSet(DOMAIN m)
    BY <1>2, <2>2, <2>3, <2>4
  <2>6. QED
    BY <2>4, <2>5 DEF old, size
<1>9. MSHR'["STLB"] = m /\ MSHR'["DTLB"] = MSHR["DTLB"] /\ MSHR' = [t \in TLBs |-> MSHR'[t]]
  BY <1>1 DEF IInv, MissTypes, TLBs, f
<1> HIDE DEF m
<1>10. MissTypes'
  BY <1>8, <1>9 DEF IInv, MissTypes, TLBs
<1>11. MissesRight'
  <2>1. ASSUME NEW t \in TLBs, NEW u \in DOMAIN MSHR'[t], MSHR'[t][u] # 0
        PROVE  RightNext(u, MSHR'[t][u])
    <3>1. CASE t = "STLB" /\ u = v
      BY <3>1, <1>7, <1>8, <1>9
    <3>2. CASE ~ (t = "STLB" /\ u = v)
      <4>1. u \in DOMAIN MSHR[t] /\ MSHR'[t][u] = MSHR[t][u]
        BY <2>1, <3>2, <1>8, <1>9 DEF TLBs
      <4>2. QED
        BY <2>1, <4>1, <1>5
    <3>3. QED
      BY <3>1, <3>2
  <2>2. QED
    BY <2>1 DEF MissesRight, Right, RightNext, Mapped
<1>12. QED
  BY <1>3, <1>4, <1>5, <1>6, <1>10, <1>11 DEF IInv

(* Direct translation of code, with a swap likewise.                       *)
LEMMA TranslateCodeStep == ASSUME IInv, NEW v \in Pages, TranslateCode(v) PROVE IInv'
<1>1. va_to_pa(v) /\ block' = BlocksKept(v) /\ UNCHANGED <<RQ, MSHR, waiting>>
  BY DEF TranslateCode
<1>2. TableInv' /\ MissTypes' /\ QueueTypes'
  BY <1>1, TranslationStep DEF IInv, MissTypes, QueueTypes
<1>3. /\ BlockTypes'
      /\ \A t \in TLBs : \A u \in DOMAIN block'[t] : RightNext(u, block'[t][u])
      /\ \A t \in TLBs : \A u \in DOMAIN MSHR[t] :
           MSHR[t][u] # 0 => RightNext(u, MSHR[t][u])
  BY <1>1, WalkKeepsRight DEF IInv
<1>4. BlocksRight' /\ MissesRight'
  BY <1>1, <1>3 DEF BlocksRight, MissesRight, Right, RightNext, Mapped
<1>5. QED
  BY <1>2, <1>3, <1>4 DEF IInv

(* The steps that leave the tables and the blocks alone.                   *)
LEMMA TablesStay ==
  ASSUME IInv, UNCHANGED <<tables, overtaken>>
  PROVE  TableInv' /\ \A v, f : Right(v, f) => RightNext(v, f)
BY DEF IInv, TableInv, TableTypes, TablesInverse, WithinMemory, Right, RightNext, Mapped, tables

(* A step that leaves maps and TLBs alone.                                 *)
LEMMA BlocksStay ==
  ASSUME IInv, UNCHANGED <<tables, overtaken, block>>
  PROVE  TableInv' /\ BlockTypes' /\ BlocksRight'
BY DEF IInv, TableInv, TableTypes, TablesInverse, WithinMemory, BlockTypes, BlocksRight,
       Right, Mapped, tables

(* The core asks for a translation.                                        *)
LEMMA AccessStep == ASSUME IInv, NEW v \in Pages, Access(v) PROVE IInv'
<1>1. /\ RQ' = [RQ EXCEPT !["DTLB"] = Added(@, v)] /\ waiting' = waiting \cup {v}
      /\ UNCHANGED <<tables, block, MSHR, overtaken>>
  BY DEF Access
<1>2. QueueTypes'
  <2>1. Added(RQ["DTLB"], v) \in Seq(Pages)
    BY AddedTyped DEF IInv, QueueTypes, TLBs
  <2>2. QED
    BY <1>1, <2>1 DEF IInv, QueueTypes, TLBs
<1>3. TableInv' /\ BlockTypes' /\ BlocksRight'
  BY <1>1, BlocksStay
<1>4. MissTypes' /\ MissesRight'
  BY <1>1 DEF IInv, MissTypes, MissesRight, Right, Mapped, tables
<1>5. QED
  BY <1>2, <1>3, <1>4 DEF IInv

(* A read joins a miss under way.                                          *)
LEMMA ReadMergeStep == ASSUME IInv, NEW t \in TLBs, ReadMerge(t) PROVE IInv'
<1>1. /\ RQ[t] # <<>> /\ RQ' = [RQ EXCEPT ![t] = Tail(@)]
      /\ UNCHANGED <<tables, block, MSHR, waiting, overtaken, accesses>>
  BY DEF ReadMerge
<1>2. QueueTypes'
  <2>1. Tail(RQ[t]) \in Seq(Pages)
    BY <1>1, HeadTail DEF IInv, QueueTypes
  <2>2. QED
    BY <1>1, <2>1 DEF IInv, QueueTypes
<1>3. TableInv' /\ BlockTypes' /\ BlocksRight'
  BY <1>1, BlocksStay
<1>4. MissTypes' /\ MissesRight'
  BY <1>1 DEF IInv, MissTypes, MissesRight, Right, Mapped, tables
<1>5. QED
  BY <1>2, <1>3, <1>4 DEF IInv

(* An answer from the STLB's blocks or from its fill reaches the miss of   *)
(* the DTLB, if there is one.                                              *)
LEMMA AnswerKeepsMisses ==
  ASSUME IInv, NEW v, NEW f, Right(v, f), UNCHANGED <<tables, overtaken>>,
         MSHR' = [t \in TLBs |-> MSHR'[t]],
         MSHR'["DTLB"] = [MSHR["DTLB"] EXCEPT ![v] = f],
         DOMAIN MSHR'["STLB"] \subseteq DOMAIN MSHR["STLB"],
         \A u \in DOMAIN MSHR'["STLB"] : MSHR'["STLB"][u] = MSHR["STLB"][u]
  PROVE  MissTypes' /\ MissesRight'
<1>1. ASSUME NEW t \in TLBs
      PROVE  /\ DOMAIN MSHR'[t] \subseteq DOMAIN MSHR[t]
             /\ \A u \in DOMAIN MSHR'[t] :
                  MSHR'[t][u] = MSHR[t][u] \/ (u = v /\ MSHR'[t][u] = f)
  <2>1. CASE t = "DTLB"
    BY <2>1
  <2>2. CASE t = "STLB"
    BY <2>2
  <2>3. QED
    BY <2>1, <2>2 DEF TLBs
<1>2. ASSUME NEW t \in TLBs
      PROVE  /\ DOMAIN MSHR'[t] \subseteq Pages /\ IsFiniteSet(DOMAIN MSHR'[t])
             /\ Cardinality(DOMAIN MSHR'[t]) <= MshrSize[t]
  <2>1. /\ DOMAIN MSHR[t] \subseteq Pages /\ IsFiniteSet(DOMAIN MSHR[t])
        /\ Cardinality(DOMAIN MSHR[t]) <= MshrSize[t] /\ MshrSize[t] \in Nat
    BY PageAssumption DEF IInv, MissTypes
  <2>2. /\ IsFiniteSet(DOMAIN MSHR'[t]) /\ Cardinality(DOMAIN MSHR[t]) \in Nat
        /\ Cardinality(DOMAIN MSHR'[t]) \in Nat
        /\ Cardinality(DOMAIN MSHR'[t]) <= Cardinality(DOMAIN MSHR[t])
    BY <1>1, <2>1, FS_Subset, FS_CardinalityType
  <2>3. QED
    BY <1>1, <2>1, <2>2
<1>3. MissTypes'
  BY <1>2 DEF MissTypes
<1>4. ASSUME NEW t \in TLBs, NEW u \in DOMAIN MSHR'[t], MSHR'[t][u] # 0
      PROVE  RightNext(u, MSHR'[t][u])
  <2>1. CASE u = v /\ MSHR'[t][u] = f
    BY <2>1, TablesStay
  <2>2. CASE MSHR'[t][u] = MSHR[t][u]
    <3>1. Right(u, MSHR[t][u])
      BY <1>1, <1>4, <2>2 DEF IInv, MissesRight
    <3>2. QED
      BY <2>2, <3>1, TablesStay
  <2>3. QED
    BY <1>1, <1>4, <2>1, <2>2
<1>5. MissesRight'
  BY <1>4 DEF MissesRight, Right, RightNext, Mapped
<1>6. QED
  BY <1>3, <1>5

(* A hit answers from a block, which is right.                             *)
LEMMA ReadHitStep == ASSUME IInv, NEW t \in TLBs, ReadHit(t) PROVE IInv'
<1> DEFINE v == Head(RQ[t])
<1>1. /\ RQ[t] # <<>> /\ v \in DOMAIN block[t]
      /\ RQ' = [RQ EXCEPT ![t] = Tail(@)]
      /\ IF t = "DTLB" THEN waiting' = waiting \ {v} /\ UNCHANGED MSHR
         ELSE /\ MSHR' = [MSHR EXCEPT !["DTLB"][v] = block[t][v]]
              /\ UNCHANGED waiting
      /\ UNCHANGED <<tables, block, overtaken, accesses>>
  BY DEF ReadHit
<1>2. Right(v, block[t][v])
  BY <1>1 DEF IInv, BlocksRight
<1> DEFINE f == block[t][v]
<1> HIDE DEF v, f
<1>3. QueueTypes'
  <2>1. Tail(RQ[t]) \in Seq(Pages)
    BY <1>1, HeadTail DEF IInv, QueueTypes
  <2>2. waiting' \subseteq Pages
    BY <1>1 DEF IInv, QueueTypes
  <2>3. QED
    BY <1>1, <2>1, <2>2 DEF IInv, QueueTypes
<1>4. TableInv' /\ BlockTypes' /\ BlocksRight'
  BY <1>1, BlocksStay
<1>5. MissTypes' /\ MissesRight'
  <2>1. CASE t = "DTLB"
    BY <2>1, <1>1 DEF IInv, MissTypes, MissesRight, Right, Mapped, tables
  <2>2. CASE t # "DTLB"
    <3>1. MSHR' = [MSHR EXCEPT !["DTLB"][v] = f]
      BY <2>2, <1>1 DEF f
    <3>2. /\ MSHR' = [s \in TLBs |-> MSHR'[s]] /\ MSHR'["STLB"] = MSHR["STLB"]
          /\ MSHR'["DTLB"] = [MSHR["DTLB"] EXCEPT ![v] = f]
      BY <3>1 DEF IInv, MissTypes, TLBs
    <3>3. QED
      BY <3>2, <1>1, <1>2, AnswerKeepsMisses DEF f
  <2>3. QED
    BY <2>1, <2>2
<1>6. QED
  BY <1>3, <1>4, <1>5 DEF IInv

(* A fill brings in what the miss holds.                                   *)
LEMMA FillStep == ASSUME IInv, NEW t \in TLBs, NEW v \in Pages, Fill(t, v) PROVE IInv'
<1> DEFINE f == MSHR[t][v]  held == block[t]  size == TlbSize[t]
<1>1. PICK b \in Filled(held, size, v, f) : block' = [block EXCEPT ![t] = b]
  BY DEF Fill
<1>2. /\ v \in DOMAIN MSHR[t] /\ f # 0
      /\ IF t = "DTLB"
           THEN /\ MSHR' = [MSHR EXCEPT ![t] = Without(@, v)]
                /\ waiting' = waiting \ {v}
           ELSE /\ MSHR' = [STLB |-> Without(MSHR[t], v),
                            DTLB |-> [MSHR["DTLB"] EXCEPT ![v] = f]]
                /\ UNCHANGED waiting
      /\ UNCHANGED <<tables, RQ, overtaken, accesses>>
  BY DEF Fill
<1>3. Right(v, f)
  BY <1>2 DEF IInv, MissesRight
<1>4. /\ DOMAIN held \subseteq Pages /\ IsFiniteSet(DOMAIN held)
      /\ Cardinality(DOMAIN held) <= size /\ size \in Nat
  BY PageAssumption DEF IInv, BlockTypes
<1> HIDE DEF f, held, size
<1>5. /\ IsFiniteSet(DOMAIN b) /\ Cardinality(DOMAIN b) <= size
      /\ DOMAIN b \subseteq DOMAIN held \cup {v}
      /\ \A z \in DOMAIN b : b[z] = IF z = v THEN f ELSE held[z]
  BY <1>1, <1>4, FilledProperties
<1>6. TableInv' /\ QueueTypes'
  <2>1. waiting' \subseteq Pages
    BY <1>2 DEF IInv, QueueTypes
  <2>2. QED
    BY <1>2, <2>1, TablesStay DEF IInv, QueueTypes
<1>7. block' = [s \in TLBs |-> block'[s]] /\ \A s \in TLBs : block'[s] = IF s = t THEN b ELSE block[s]
  BY <1>1 DEF IInv, BlockTypes
<1>8. BlockTypes'
  <2>1. ASSUME NEW s \in TLBs
        PROVE  /\ DOMAIN block'[s] \subseteq Pages /\ IsFiniteSet(DOMAIN block'[s])
               /\ Cardinality(DOMAIN block'[s]) <= TlbSize[s]
    <3>1. CASE s = t
      BY <3>1, <1>4, <1>5, <1>7 DEF size
    <3>2. CASE s # t
      BY <3>2, <1>7 DEF IInv, BlockTypes
    <3>3. QED
      BY <3>1, <3>2
  <2>2. QED
    BY <1>7, <2>1 DEF BlockTypes
<1>9. BlocksRight'
  <2>1. ASSUME NEW s \in TLBs, NEW u \in DOMAIN block'[s]
        PROVE  RightNext(u, block'[s][u])
    <3>1. CASE s = t /\ u = v
      <4>1. block'[s][u] = f
        BY <3>1, <2>1, <1>5, <1>7
      <4>2. QED
        BY <3>1, <4>1, <1>2, <1>3, TablesStay
    <3>2. CASE ~ (s = t /\ u = v)
      <4>1. u \in DOMAIN block[s] /\ block'[s][u] = block[s][u]
        BY <3>2, <2>1, <1>5, <1>7 DEF held
      <4>2. Right(u, block[s][u])
        BY <4>1 DEF IInv, BlocksRight
      <4>3. QED
        BY <4>1, <4>2, <1>2, TablesStay
    <3>3. QED
      BY <3>1, <3>2
  <2>2. QED
    BY <2>1 DEF BlocksRight, Right, RightNext, Mapped
<1> DEFINE old == MSHR[t]
<1>10. /\ DOMAIN Without(old, v) = DOMAIN old \ {v}
       /\ \A u \in DOMAIN old \ {v} : Without(old, v)[u] = old[u]
  BY DEF Without, Restrict
<1>11. MissTypes' /\ MissesRight'
  <2>1. CASE t = "DTLB"
    <3>1. \A s \in TLBs : MSHR'[s] = IF s = t THEN Without(old, v) ELSE MSHR[s]
      BY <2>1, <1>2 DEF IInv, MissTypes
    <3>2. MSHR' = [s \in TLBs |-> MSHR'[s]]
      BY <2>1, <1>2 DEF IInv, MissTypes
    <3> HIDE DEF old
    <3>3. ASSUME NEW s \in TLBs
          PROVE  /\ DOMAIN MSHR'[s] \subseteq DOMAIN MSHR[s]
                 /\ \A u \in DOMAIN MSHR'[s] : MSHR'[s][u] = MSHR[s][u]
      BY <3>1, <1>10 DEF old
    <3>4. ASSUME NEW s \in TLBs
          PROVE  /\ DOMAIN MSHR'[s] \subseteq Pages /\ IsFiniteSet(DOMAIN MSHR'[s])
                 /\ Cardinality(DOMAIN MSHR'[s]) <= MshrSize[s]
      <4>1. /\ DOMAIN MSHR[s] \subseteq Pages /\ IsFiniteSet(DOMAIN MSHR[s])
            /\ Cardinality(DOMAIN MSHR[s]) <= MshrSize[s] /\ MshrSize[s] \in Nat
        BY PageAssumption DEF IInv, MissTypes
      <4>2. /\ IsFiniteSet(DOMAIN MSHR'[s]) /\ Cardinality(DOMAIN MSHR[s]) \in Nat
            /\ Cardinality(DOMAIN MSHR'[s]) \in Nat
            /\ Cardinality(DOMAIN MSHR'[s]) <= Cardinality(DOMAIN MSHR[s])
        BY <3>3, <4>1, FS_Subset, FS_CardinalityType
      <4>3. QED
        BY <3>3, <4>1, <4>2
    <3>5. MissTypes'
      BY <3>2, <3>4 DEF MissTypes
    <3>6. ASSUME NEW s \in TLBs, NEW u \in DOMAIN MSHR'[s], MSHR'[s][u] # 0
          PROVE  RightNext(u, MSHR'[s][u])
      <4>1. Right(u, MSHR[s][u])
        BY <3>3, <3>6 DEF IInv, MissesRight
      <4>2. QED
        BY <3>3, <3>6, <4>1, <1>2, TablesStay
    <3>7. MissesRight'
      BY <3>6 DEF MissesRight, Right, RightNext, Mapped
    <3>8. QED
      BY <3>5, <3>7
  <2>2. CASE t = "STLB"
    <3>1. MSHR' = [s \in TLBs |-> IF s = "STLB" THEN Without(old, v)
                                                ELSE [MSHR["DTLB"] EXCEPT ![v] = f]]
      BY <2>2, <1>2 DEF TLBs
    <3>2. /\ MSHR' = [s \in TLBs |-> MSHR'[s]] /\ MSHR'["STLB"] = Without(old, v)
          /\ MSHR'["DTLB"] = [MSHR["DTLB"] EXCEPT ![v] = f]
      BY <3>1 DEF TLBs
    <3>3. /\ DOMAIN MSHR'["STLB"] \subseteq DOMAIN MSHR["STLB"]
          /\ \A u \in DOMAIN MSHR'["STLB"] : MSHR'["STLB"][u] = MSHR["STLB"][u]
      BY <2>2, <3>2, <1>10
    <3>4. QED
      BY <3>2, <3>3, <1>2, <1>3, AnswerKeepsMisses
  <2>3. QED
    BY <2>1, <2>2 DEF TLBs
<1>12. QED
  BY <1>6, <1>8, <1>9, <1>11 DEF IInv

-----------------------------------------------------------------------------
(* The theorems.                                                           *)

(* Empty tables and TLBs.                                                  *)
LEMMA InitHolds == Init => IInv
<1> SUFFICES ASSUME Init PROVE IInv
  OBVIOUS
<1>1. DOMAIN Nothing = {} /\ IsFiniteSet({}) /\ Cardinality({}) = 0
  BY FS_EmptySet DEF Nothing
<1>2. TableInv
  BY <1>1, PageAssumption DEF Init, TableInv, TableTypes, TablesInverse, WithinMemory
<1>3. BlockTypes /\ MissTypes
  BY <1>1, PageAssumption DEF Init, BlockTypes, MissTypes
<1>4. QueueTypes /\ BlocksRight /\ MissesRight
  BY <1>1 DEF Init, QueueTypes, BlocksRight, MissesRight
<1>5. QED
  BY <1>2, <1>3, <1>4 DEF IInv

(* Every step keeps the invariant.                                         *)
LEMMA StepHolds == IInv /\ [Next]_vars => IInv'
<1> SUFFICES ASSUME IInv, [Next]_vars PROVE IInv'
  OBVIOUS
<1>1. CASE UNCHANGED vars
  <2>1. QueueTypes' /\ MissTypes' /\ MissesRight'
    BY <1>1 DEF vars, tables, tlbs, IInv, QueueTypes, MissTypes, MissesRight, Right, Mapped
  <2>2. TableInv' /\ BlockTypes' /\ BlocksRight'
    BY <1>1, BlocksStay DEF vars, tlbs
  <2>3. QED
    BY <2>1, <2>2 DEF IInv
<1>2. CASE Miss
  BY <1>2, MissStep
<1>3. CASE Walk
  BY <1>3, WalkStep
<1>4. ASSUME NEW t \in TLBs, ReadHit(t) PROVE IInv'
  BY <1>4, ReadHitStep
<1>5. ASSUME NEW t \in TLBs, ReadMerge(t) PROVE IInv'
  BY <1>5, ReadMergeStep
<1>6. ASSUME NEW t \in TLBs, NEW v \in Pages, Fill(t, v) PROVE IInv'
  BY <1>6, FillStep
<1>7. ASSUME NEW v \in Pages, Access(v) PROVE IInv'
  BY <1>7, AccessStep
<1>8. ASSUME NEW v \in Pages, TranslateCode(v) PROVE IInv'
  BY <1>8, TranslateCodeStep
<1>9. QED
  BY <1>1, <1>2, <1>3, <1>4, <1>5, <1>6, <1>7, <1>8 DEF Next, Operate, Program

(* The inductive invariant of the page table and the TLBs.                 *)
LEMMA Invariance == Spec => []IInv
  BY InitHolds, StepHolds, PTL DEF Spec

(* The maps and the TLBs stay within their types and sizes, and the run of *)
(* adjacent frames never counts below zero, for every number of pages and  *)
(* frames, whatever draw_rand() gives.                                     *)
THEOREM TablesTyped == Spec => []TypeOK
<1>1. IInv => TypeOK
  BY DEF IInv, TableInv, TableTypes, BlockTypes, MissTypes, QueueTypes, TypeOK
<1>2. QED
  BY <1>1, Invariance, PTL

(* page_table and inverse_table stay inverse to each other: no step of     *)
(* va_to_pa(), a swap included, gives a frame to two pages or loses one.   *)
THEOREM MapsInverse == Spec => []TablesInverse
<1>1. IInv => TablesInverse
  BY DEF IInv, TableInv
<1>2. QED
  BY <1>1, Invariance, PTL

(* As many frames are in use as pages are mapped, never more than memory   *)
(* has.                                                                    *)
THEOREM MemoryBounded == Spec => []WithinMemory
<1>1. IInv => WithinMemory
  BY DEF IInv, TableInv
<1>2. QED
  BY <1>1, Invariance, PTL

(* A TLB holds a translation that is not the table's only of a page that   *)
(* was swapped out while a miss of it was under way.                       *)
THEOREM StaleKnown == Spec => []StaleOnlyIfOvertaken
<1>1. IInv => StaleOnlyIfOvertaken
  BY DEF IInv, BlocksRight, Right, StaleOnlyIfOvertaken, Fresh
<1>2. QED
  BY <1>1, Invariance, PTL
=============================================================================
