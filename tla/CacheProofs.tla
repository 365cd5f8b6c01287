---------------------------- MODULE CacheProofs ----------------------------
(***************************************************************************)
(* Proofs about the caches, whatever their sizes, the lines and the        *)
(* prefetchers: the replacement of every set first, then the inductive     *)
(* invariant CacheInv of queues, MSHRs and manager (TablesInv) and blocks  *)
(* (BlocksTyped), one lemma for each handler, and what follows from it:    *)
(* last, that the caches never wait for one another.                       *)
(***************************************************************************)
EXTENDS CacheProperties, FiniteSetTheorems, SequenceTheorems, TLAPS

-----------------------------------------------------------------------------
(* Sets of blocks.                                                         *)

IsBlock(b) == b = [line |-> b.line, valid |-> b.valid, dirty |-> b.dirty, lru |-> b.lru]

IsSet(set, n) == /\ DOMAIN set = 0 .. n - 1
                 /\ \A w \in 0 .. n - 1 : IsBlock(set[w])

IsStack(set, n) ==
  /\ IsSet(set, n)
  /\ \A w \in 0 .. n - 1 : set[w].lru \in 0 .. n - 1
  /\ \A v, w \in 0 .. n - 1 : set[v].lru = set[w].lru => v = w

(* A set of n ways is finite and has n ways.                               *)
LEMMA WaysOfSet ==
  ASSUME NEW n \in Nat \ {0}
  PROVE  IsFiniteSet(0 .. n - 1) /\ Cardinality(0 .. n - 1) = n
<1>1. 0 \in Int /\ n - 1 \in Int
  OBVIOUS
<1>2. IsFiniteSet(0 .. n - 1) /\ Cardinality(0 .. n - 1) = IF 0 > n - 1 THEN 0 ELSE n - 1 - 0 + 1
  BY <1>1, FS_Interval
<1>3. QED
  BY <1>2

(* The two forms of an LRU stack, by ways and by the model's set of        *)
(* blocks.                                                                 *)
LEMMA StackOfAges ==
  ASSUME NEW n \in Nat \ {0}, NEW set, IsSet(set, n)
  PROVE  IsStack(set, n) <=> IsLruStack(set)
BY WaysOfSet DEF IsStack, IsSet, IsLruStack, Ways

(* A set of ways has a first one.                                          *)
LEMMA FirstWay ==
  ASSUME NEW S, S \subseteq Nat, S # {}
  PROVE  (CHOOSE v \in S : \A w \in S : v <= w) \in S
<1>1. PICK x \in S : \A y \in S : ~ (<<y, x>> \in OpToRel(<, Nat))
  BY NatLessThanWellFounded, WFMin
<1>2. \A y \in S : x <= y
  <2>1. TAKE y \in S
  <2>2. <<y, x>> \in Nat \X Nat
    BY <2>1, <1>1
  <2>3. ~ (y < x)
    BY <2>1, <2>2, <1>1 DEF OpToRel
  <2>4. QED
    BY <2>2, <2>3
<1>3. QED
  BY <1>1, <1>2

(* The oldest block exists, since n ages of n blocks fill 0 .. n-1.        *)
LEMMA OldestExists ==
  ASSUME NEW n \in Nat \ {0}, NEW set, IsStack(set, n)
  PROVE  \E w \in 0 .. n - 1 : set[w].lru = n - 1
<1> SUFFICES ASSUME \A w \in 0 .. n - 1 : set[w].lru # n - 1
             PROVE  FALSE
  OBVIOUS
<1> DEFINE S == 0 .. n - 1  T == 0 .. n - 2  age == [w \in S |-> set[w].lru]
<1>1. age \in [S -> T]
  BY DEF IsStack
<1>2. IsFiniteSet(S) /\ Cardinality(S) = n
  BY WaysOfSet
<1>3. IsFiniteSet(T) /\ Cardinality(T) = n - 1
  <2>1. 0 \in Int /\ n - 2 \in Int
    OBVIOUS
  <2>2. IsFiniteSet(T) /\ Cardinality(T) = IF 0 > n - 2 THEN 0 ELSE n - 2 - 0 + 1
    BY <2>1, FS_Interval
  <2>3. QED
    BY <2>2
<1>4. PICK v, w \in S : v # w /\ age[v] = age[w]
  <2>1. Cardinality(T) < Cardinality(S)
    BY <1>2, <1>3
  <2> HIDE DEF S, T, age
  <2>2. QED
    BY <1>1, <1>2, <1>3, <2>1, FS_PigeonHole
<1>5. set[v].lru = set[w].lru
  BY <1>4
<1>6. QED
  BY <1>4, <1>5 DEF IsStack

(* lru_victim() finds a way: "[...] no victim!" is never asserted.         *)
LEMMA VictimIsWay ==
  ASSUME NEW n \in Nat \ {0}, NEW set, IsStack(set, n)
  PROVE  lru_victim(set) \in 0 .. n - 1
<1> DEFINE invalid == {w \in Ways(set) : ~set[w].valid}
<1>1. Ways(set) = 0 .. n - 1 /\ Cardinality(Ways(set)) = n
  BY WaysOfSet DEF IsStack, IsSet, Ways
<1>2. CASE invalid # {}
  <2>1. invalid \subseteq Nat
    BY <1>1
  <2>2. lru_victim(set) = CHOOSE w \in invalid : \A v \in invalid : w <= v
    BY <1>2 DEF lru_victim
  <2>3. lru_victim(set) \in invalid
    BY <1>2, <2>1, <2>2, FirstWay
  <2>4. QED
    BY <2>3, <1>1
<1>3. CASE invalid = {}
  <2>1. lru_victim(set) = CHOOSE w \in 0 .. n - 1 : set[w].lru = n - 1
    BY <1>1, <1>3 DEF lru_victim
  <2>2. QED
    BY <2>1, OldestExists
<1>4. QED
  BY <1>2, <1>3

(* Setting a block's age leaves it a block.                                *)
LEMMA AgedBlock ==
  ASSUME NEW b, IsBlock(b), NEW age
  PROVE  IsBlock([b EXCEPT !.lru = age]) /\ [b EXCEPT !.lru = age].lru = age
BY DEF IsBlock

(* Filling a block does not touch its age.                                 *)
LEMMA FilledBlock ==
  ASSUME NEW b, IsBlock(b), NEW l, NEW dirty
  PROVE  LET c == [b EXCEPT !.line = l, !.valid = TRUE, !.dirty = dirty]
         IN IsBlock(c) /\ c.lru = b.lru
<1> DEFINE b1 == [b EXCEPT !.line = l]
           yes == TRUE
           b2 == [b1 EXCEPT !.valid = yes]
           b3 == [b2 EXCEPT !.dirty = dirty]
<1>1. IsBlock(b1) /\ b1.lru = b.lru
  BY DEF IsBlock
<1> HIDE DEF b1, yes
<1>2. IsBlock(b2) /\ b2.lru = b1.lru
  BY <1>1 DEF IsBlock
<1> HIDE DEF b2
<1>3. IsBlock(b3) /\ b3.lru = b2.lru
  BY <1>2 DEF IsBlock
<1>4. b3 = [b EXCEPT !.line = l, !.valid = TRUE, !.dirty = dirty]
  BY DEF b2, b1, yes
<1>5. QED
  BY <1>1, <1>2, <1>3, <1>4

(* lru_update() keeps the ages a permutation.                              *)
LEMMA UpdateKeepsStack ==
  ASSUME NEW n \in Nat \ {0}, NEW set, IsStack(set, n), NEW way \in 0 .. n - 1
  PROVE  IsStack(lru_update(set, way), n)
<1> DEFINE new == lru_update(set, way)
           aged(w) == IF w = way THEN 0
                      ELSE IF set[w].lru < set[way].lru THEN set[w].lru + 1 ELSE set[w].lru
<1>1. DOMAIN set = 0 .. n - 1 /\ \A w \in 0 .. n - 1 : IsBlock(set[w]) /\ set[w].lru \in 0 .. n - 1
  BY DEF IsStack, IsSet
<1>2. /\ DOMAIN new = 0 .. n - 1
      /\ \A w \in 0 .. n - 1 : new[w] = [set[w] EXCEPT !.lru = aged(w)]
  BY <1>1 DEF lru_update, Ways
<1> HIDE DEF new
<1>3. \A w \in 0 .. n - 1 : IsBlock(new[w]) /\ new[w].lru = aged(w)
  <2> SUFFICES ASSUME NEW w \in 0 .. n - 1
               PROVE  IsBlock(new[w]) /\ new[w].lru = aged(w)
    OBVIOUS
  <2> DEFINE age == aged(w)
  <2>1. new[w] = [set[w] EXCEPT !.lru = age] /\ IsBlock(set[w])
    BY <1>1, <1>2
  <2> HIDE DEF age, aged
  <2>2. QED
    BY <2>1, AgedBlock DEF age
<1>4. \A w \in 0 .. n - 1 : aged(w) \in 0 .. n - 1
  BY <1>1
<1>5. \A v, w \in 0 .. n - 1 : aged(v) = aged(w) => v = w
  BY <1>1 DEF IsStack
<1> HIDE DEF aged
<1>6. /\ \A w \in 0 .. n - 1 : new[w].lru \in 0 .. n - 1
      /\ \A v, w \in 0 .. n - 1 : new[v].lru = new[w].lru => v = w
  BY <1>3, <1>4, <1>5
<1>7. QED
  BY <1>2, <1>3, <1>6 DEF IsStack, IsSet, new

(* A block that changes, its age aside, leaves the set a stack.            *)
LEMMA ChangedBlock ==
  ASSUME NEW n \in Nat \ {0}, NEW set, IsStack(set, n), NEW way \in 0 .. n - 1, NEW b,
         IsBlock(b), b.lru = set[way].lru
  PROVE  IsStack([set EXCEPT ![way] = b], n)
BY DEF IsStack, IsSet

(* Hence fill_cache() leaves the LRU stack as it is.                       *)
LEMMA FilledKeepsStack ==
  ASSUME NEW n \in Nat \ {0}, NEW set, IsStack(set, n), NEW way \in 0 .. n - 1, NEW l, NEW dirty
  PROVE  IsStack(Filled(set, way, l, dirty), n)
<1> DEFINE b == [set[way] EXCEPT !.line = l, !.valid = TRUE, !.dirty = dirty]
<1>1. IsBlock(set[way])
  BY DEF IsStack, IsSet
<1>2. IsBlock(b) /\ b.lru = set[way].lru
  BY <1>1, FilledBlock
<1> HIDE DEF b
<1>3. IsStack([set EXCEPT ![way] = b], n)
  BY <1>2, ChangedBlock
<1>4. Filled(set, way, l, dirty) = lru_update([set EXCEPT ![way] = b], way)
  BY DEF Filled, b
<1>5. QED
  BY <1>3, <1>4, UpdateKeepsStack

-----------------------------------------------------------------------------
(* The caches.                                                             *)

Sets(c) == 0 .. NumSet[c] - 1

StacksInv ==
  /\ blocks = [c \in Caches |-> blocks[c]]
  /\ \A c \in Caches : /\ blocks[c] = [s \in Sets(c) |-> blocks[c][s]]
                       /\ \A s \in Sets(c) : IsStack(blocks[c][s], NumWay[c])

(* One set changes and stays a stack.                                      *)
LEMMA OneSetChanges ==
  ASSUME StacksInv, NEW c \in Caches, NEW s, NEW set,
         s \in Sets(c) => IsStack(set, NumWay[c]),
         blocks' = [blocks EXCEPT ![c][s] = set]
  PROVE  StacksInv'
<1> DEFINE row == [blocks[c] EXCEPT ![s] = set]
<1>1. blocks' = [blocks EXCEPT ![c] = row]
  OBVIOUS
<1>2. row = [r \in Sets(c) |-> row[r]] /\ \A r \in Sets(c) : IsStack(row[r], NumWay[c])
  BY DEF StacksInv
<1> HIDE DEF row
<1>3. blocks' = [d \in Caches |-> blocks'[d]]
  BY <1>1 DEF StacksInv
<1>4. \A d \in Caches : blocks'[d] = IF d = c THEN row ELSE blocks[d]
  BY <1>1 DEF StacksInv
<1>5. ASSUME NEW d \in Caches
      PROVE  /\ blocks'[d] = [r \in Sets(d) |-> blocks'[d][r]]
             /\ \A r \in Sets(d) : IsStack(blocks'[d][r], NumWay[d])
  <2>1. CASE d = c
    BY <2>1, <1>2, <1>4
  <2>2. CASE d # c
    BY <2>2, <1>4 DEF StacksInv
  <2>3. QED
    BY <2>1, <2>2
<1>6. QED
  BY <1>3, <1>5 DEF StacksInv

(* check_hit() names a way of the set.                                     *)
LEMMA HitIsWay ==
  ASSUME NEW c \in Caches, NEW l, Hits(c, l) # {}
  PROVE  check_hit(c, l) \in 0 .. NumWay[c] - 1
<1>1. Hits(c, l) \subseteq Nat /\ Hits(c, l) \subseteq 0 .. NumWay[c] - 1
  BY CacheAssumption DEF Hits
<1>2. check_hit(c, l) \in Hits(c, l)
  BY <1>1, FirstWay DEF check_hit
<1>3. QED
  BY <1>1, <1>2

(* A line that fills the victim of its set, and a hit that is used.        *)
LEMMA FillStep ==
  ASSUME StacksInv, NEW c \in Caches, NEW l, NEW dirty, NEW s,
         blocks' = [blocks EXCEPT ![c][s] = Filled(@, lru_victim(blocks[c][s]), l, dirty)]
  PROVE  StacksInv'
<1> DEFINE set == Filled(blocks[c][s], lru_victim(blocks[c][s]), l, dirty)
<1>1. ASSUME s \in Sets(c)
      PROVE  IsStack(set, NumWay[c])
  <2>1. NumWay[c] \in Nat \ {0} /\ IsStack(blocks[c][s], NumWay[c])
    BY <1>1, CacheAssumption DEF StacksInv
  <2>2. QED
    BY <2>1, VictimIsWay, FilledKeepsStack
<1>2. blocks' = [blocks EXCEPT ![c][s] = set]
  OBVIOUS
<1> HIDE DEF set
<1>3. QED
  BY <1>1, <1>2, OneSetChanges

(* A hit that only updates the replacement state keeps the stacks.         *)
LEMMA UseStep ==
  ASSUME StacksInv, NEW c \in Caches, NEW l, Hits(c, l) # {}, blocks' = Used(c, l)
  PROVE  StacksInv'
<1> DEFINE s == get_set(c, l)  set == lru_update(blocks[c][s], check_hit(c, l))
<1>1. ASSUME s \in Sets(c)
      PROVE  IsStack(set, NumWay[c])
  <2>1. NumWay[c] \in Nat \ {0} /\ IsStack(blocks[c][s], NumWay[c])
    BY <1>1, CacheAssumption DEF StacksInv
  <2>2. QED
    BY <2>1, HitIsWay, UpdateKeepsStack
<1>2. blocks' = [blocks EXCEPT ![c][s] = set]
  BY DEF Used
<1> HIDE DEF s, set
<1>3. QED
  BY <1>1, <1>2, OneSetChanges

(* A write-back that hits marks the block dirty and makes it the youngest. *)
LEMMA WritebackHitStep ==
  ASSUME StacksInv, NEW c \in Caches, WritebackHit(c)
  PROVE  StacksInv'
<1> DEFINE l == Head(WQ[c]).line  s == get_set(c, l)  w == check_hit(c, l)
           d == [blocks[c][s] EXCEPT ![w].dirty = TRUE]
           set == IF c = "L1D" THEN lru_update(d, w) ELSE d
<1>1. Hits(c, l) # {} /\ blocks' = [blocks EXCEPT ![c][s] = set]
  BY DEF WritebackHit
<1>2. w \in 0 .. NumWay[c] - 1 /\ NumWay[c] \in Nat \ {0}
  BY <1>1, HitIsWay, CacheAssumption
<1>3. ASSUME s \in Sets(c)
      PROVE  IsStack(set, NumWay[c])
  <2>1. IsStack(blocks[c][s], NumWay[c])
    BY <1>3 DEF StacksInv
  <2> DEFINE old == blocks[c][s]  yes == TRUE  b == [old[w] EXCEPT !.dirty = yes]
  <2> HIDE DEF l, s, w
  <2>2. IsBlock(old[w])
    BY <1>2, <2>1 DEF IsStack, IsSet
  <2> HIDE DEF yes
  <2>3. IsBlock(b) /\ b.lru = old[w].lru
    BY <2>2 DEF IsBlock
  <2>4. d = [old EXCEPT ![w] = b]
    BY DEF yes
  <2> HIDE DEF b, old
  <2>5. IsStack([old EXCEPT ![w] = b], NumWay[c])
    BY <1>2, <2>1, <2>3, ChangedBlock DEF old
  <2> HIDE DEF d
  <2>6. QED
    BY <1>2, <2>4, <2>5, UpdateKeepsStack
<1> HIDE DEF set, d, w, s
<1>4. QED
  BY <1>1, <1>3, OneSetChanges

(* No other handler touches the blocks.                                    *)
LEMMA StepKeepsStacks == StacksInv /\ [Next]_vars => StacksInv'
<1> SUFFICES ASSUME StacksInv, [Next]_vars PROVE StacksInv'
  OBVIOUS
<1>1. ASSUME UNCHANGED blocks PROVE StacksInv'
  BY <1>1 DEF StacksInv
<1>2. CASE UNCHANGED vars
  BY <1>1, <1>2 DEF vars
<1>3. ASSUME NEW c \in Caches, HandleFill(c) PROVE StacksInv'
  BY <1>3, FillStep DEF HandleFill
<1>4. ASSUME NEW c \in Caches, HandleWriteback(c) PROVE StacksInv'
  <2>1. CASE WritebackHit(c)
    BY <2>1, WritebackHitStep
  <2>2. CASE WritebackMiss(c)
    BY <2>2, FillStep DEF WritebackMiss
  <2>3. CASE StoreMiss \/ StoreMerge
    BY <2>3, <1>1 DEF StoreMiss, StoreMerge
  <2>4. QED
    BY <1>4, <2>1, <2>2, <2>3 DEF HandleWriteback
<1>5. ASSUME NEW c \in Caches, HandleRead(c) PROVE StacksInv'
  <2>1. CASE ReadHit(c)
    BY <2>1, UseStep DEF ReadHit
  <2>2. CASE ReadMiss(c) \/ ReadMerge(c)
    BY <2>2, <1>1 DEF ReadMiss, ReadMerge
  <2>3. QED
    BY <1>5, <2>1, <2>2 DEF HandleRead
<1>6. ASSUME NEW c \in Caches, HandlePrefetch(c) PROVE StacksInv'
  <2>1. CASE PrefetchHit(c)
    BY <2>1, UseStep DEF PrefetchHit
  <2>2. CASE PrefetchMiss(c) \/ PrefetchMerge(c)
    BY <2>2, <1>1 DEF PrefetchMiss, PrefetchMerge
  <2>3. QED
    BY <1>6, <2>1, <2>2 DEF HandlePrefetch
<1>7. CASE (\E c \in Level1 : CoreTakes(c)) \/ ManagerStep
  BY <1>7, <1>1 DEF CoreTakes, ManagerStep
<1>8. CASE Environment
  BY <1>8, <1>1 DEF Environment, Fetch, Load, Store, Prefetch
<1>9. QED
  BY <1>2, <1>3, <1>4, <1>5, <1>6, <1>7, <1>8 DEF Next, System, Operate

(* The constructor numbers the ways.                                       *)
LEMMA InitStacks == Init => StacksInv
<1> SUFFICES ASSUME Init PROVE StacksInv
  OBVIOUS
<1>1. \A c \in Caches : NumWay[c] \in Nat \ {0}
  BY CacheAssumption
<1>2. blocks = [c \in Caches |-> [s \in Sets(c) |-> [w \in 0 .. NumWay[c] - 1 |-> EmptyBlock(w)]]]
  BY DEF Init, Sets
<1>3. \A w : IsBlock(EmptyBlock(w)) /\ EmptyBlock(w).lru = w
  BY DEF IsBlock, EmptyBlock
<1>4. \A c \in Caches : IsStack([w \in 0 .. NumWay[c] - 1 |-> EmptyBlock(w)], NumWay[c])
  BY <1>1, <1>3 DEF IsStack, IsSet
<1>5. QED
  BY <1>2, <1>4 DEF StacksInv

(* Every set has a block to evict, be it full or not.                      *)
VictimFound == \A c \in Caches : \A s \in Sets(c) :
                 lru_victim(blocks[c][s]) \in 0 .. NumWay[c] - 1

(* Every set of every cache is an LRU stack in every reachable state.      *)
LEMMA StacksInvariant == Spec => []StacksInv
  BY InitStacks, StepKeepsStacks, PTL DEF Spec

(* In every cache, whatever its number of sets and ways, the ages of the   *)
(* blocks of a set stay a permutation of 0 .. NUM_WAY-1 through fills,     *)
(* hits and write-backs.                                                   *)
THEOREM AgesPermuted == Spec => []LruStacks
<1>1. StacksInv => LruStacks
  BY CacheAssumption, StackOfAges DEF StacksInv, LruStacks, IsStack
<1>2. QED
  BY <1>1, StacksInvariant, PTL

(* lru_victim() finds a block of every set at any time: its assertion that *)
(* there is a victim never fires.                                          *)
THEOREM AlwaysVictim == Spec => []VictimFound
<1>1. StacksInv => VictimFound
  BY CacheAssumption, VictimIsWay DEF StacksInv, VictimFound
<1>2. QED
  BY <1>1, StacksInvariant, PTL

(* Packets.                                                                *)

PacketSet ==
  [line : Lines, word : Words \cup {0}, type : Types, fill_level : {1, 2, 4},
   fill_l1i : BOOLEAN, fill_l1d : BOOLEAN, instruction : BOOLEAN, is_data : BOOLEAN,
   deps : SUBSET Loads, returned : BOOLEAN]

(* A packet in cache c: it fills the first level if it was asked for there, *)
(* by the cache its line belongs to.                                       *)
Fits(c, p) ==
  /\ p.instruction \/ p.is_data
  /\ p.fill_l1i => p.line \in CodeLines
  /\ p.fill_l1d => p.line \in DataLines
  /\ p.fill_level = 1 <=> p.fill_l1i \/ p.fill_l1d
  /\ p.type = "prefetch" => p.deps = {}
  /\ c = "L1I" => p.line \in CodeLines /\ ~p.fill_l1d
  /\ c = "L1D" => p.line \in DataLines /\ ~p.fill_l1i

(* What the RQ, the PQ and the MSHR of cache c hold.                       *)
Reads(c)  == {p \in PacketSet : Fits(c, p) /\ p.fill_level = 1 /\ p.type # "prefetch" /\ ~p.returned}
Prefs(c)  == {p \in PacketSet : Fits(c, p) /\ p.type = "prefetch" /\ ~p.returned}
Misses(c) == {p \in PacketSet : Fits(c, p) /\ p.fill_level <= FillLevel[c]}
Writes    == [line : Lines, word : Words \cup {0}]

(* The packets that are to be handed up to cache u, and those that still   *)
(* wait for the level below.                                               *)
Wanted(u) == {p \in PacketSet : IF u = "L1I" THEN p.fill_l1i
                                ELSE IF u = "L1D" THEN p.fill_l1d ELSE p.fill_level < 4}
Open      == {p \in PacketSet : ~p.returned}

(* Those that load i depends on.                                           *)
Holding(i) == {p \in PacketSet : i \in p.deps}

Inner == Caches \ {"LLC"}

(* The caches by name, the level below each and the level each fills.      *)
LEMMA CacheNames == /\ Caches = {"L1I", "L1D", "L2C", "LLC"} /\ Inner = {"L1I", "L1D", "L2C"}
                    /\ Lower["L1I"] = "L2C" /\ Lower["L1D"] = "L2C" /\ Lower["L2C"] = "LLC"
                    /\ FillLevel["L1I"] = 1 /\ FillLevel["L1D"] = 1
                    /\ FillLevel["L2C"] = 2 /\ FillLevel["LLC"] = 4
BY DEF Caches, Inner, Lower, FillLevel, Level1

(* The levels a packet is returned to are those that want it.              *)
LEMMA UppersWant ==
  ASSUME NEW c \in Caches, NEW p \in PacketSet, Fits(c, p), NEW u \in Caches
  PROVE  u \in Uppers(c, p) <=> u \in Inner /\ Lower[u] = c /\ p \in Wanted(u)
<1>1. p.fill_level \in {1, 2, 4} /\ {p.fill_l1i, p.fill_l1d} \subseteq BOOLEAN
  BY DEF PacketSet
<1>2. CASE c = "L2C"
  BY <1>1, <1>2, CacheNames DEF Uppers, Wanted, Fits
<1>3. CASE c = "LLC"
  BY <1>1, <1>3, CacheNames DEF Uppers, Wanted, Fits
<1>4. CASE c \in {"L1I", "L1D"}
  BY <1>1, <1>4, CacheNames DEF Uppers
<1>5. QED
  BY <1>2, <1>3, <1>4, CacheNames

(* A missed packet that goes on to the level below is still wanted by the  *)
(* levels that wanted it.                                                  *)
LEMMA SentPacket ==
  ASSUME NEW c \in Inner, NEW p \in PacketSet
  PROVE  /\ Sent(p) \in PacketSet /\ Sent(p).line = p.line
         /\ Sent(p).returned = p.returned
         /\ \A u : Sent(p) \in Wanted(u) <=> p \in Wanted(u)
         /\ p \in Reads(c) => Sent(p) \in Reads(Lower[c])
         /\ p \in Prefs(c) => Sent(p) \in Prefs(Lower[c])
<1> DEFINE q == [p EXCEPT !.deps = {}, !.word = 0]
<1>1. /\ q \in PacketSet /\ q.line = p.line /\ q.type = p.type /\ q.fill_level = p.fill_level
      /\ q.fill_l1i = p.fill_l1i /\ q.fill_l1d = p.fill_l1d /\ q.instruction = p.instruction
      /\ q.is_data = p.is_data /\ q.returned = p.returned /\ q.deps = {}
  BY DEF PacketSet
<1>2. q = Sent(p)
  BY DEF Sent
<1> HIDE DEF q
<1>3. Lower[c] \in {"L2C", "LLC"}
  BY CacheNames
<1>4. QED
  BY <1>1, <1>2, <1>3 DEF Wanted, Reads, Prefs, Fits

(* Two reads of a line in one read queue become one that every level       *)
(* asking for either wants.                                                *)
LEMMA MergedReadPacket ==
  ASSUME NEW c \in Caches, NEW e \in Reads(c), NEW p \in Reads(c), e.line = p.line
  PROVE  /\ MergedRead(e, p) \in Reads(c) /\ MergedRead(e, p).line = p.line
         /\ MergedRead(e, p).deps = e.deps \cup p.deps
         /\ \A u \in Inner : MergedRead(e, p) \in Wanted(u) <=> e \in Wanted(u) \/ p \in Wanted(u)
<1> DEFINE q == MergedRead(e, p)
<1>1. /\ e \in PacketSet /\ p \in PacketSet
      /\ p.instruction \in BOOLEAN /\ p.fill_l1i \in BOOLEAN /\ p.fill_l1d \in BOOLEAN
      /\ e.instruction \in BOOLEAN /\ e.is_data \in BOOLEAN
      /\ e.fill_l1i \in BOOLEAN /\ e.fill_l1d \in BOOLEAN
      /\ p.deps \in SUBSET Loads /\ e.deps \in SUBSET Loads
  BY DEF Reads, PacketSet
<1> DEFINE i == e.instruction \/ p.instruction
           d == e.is_data \/ ~p.instruction
           fi == e.fill_l1i \/ p.fill_l1i
           fd == e.fill_l1d \/ p.fill_l1d
           ds == e.deps \cup p.deps
<1>2. i \in BOOLEAN /\ d \in BOOLEAN /\ fi \in BOOLEAN /\ fd \in BOOLEAN /\ ds \in SUBSET Loads
  BY <1>1
<1>3. q = [e EXCEPT !.instruction = i, !.is_data = d, !.fill_l1i = fi, !.fill_l1d = fd, !.deps = ds]
  BY <1>1 DEF MergedRead, PacketSet
<1> HIDE DEF q, i, d, fi, fd, ds
<1>4. /\ q \in PacketSet /\ q.line = e.line /\ q.type = e.type /\ q.fill_level = e.fill_level
      /\ q.fill_l1i = fi /\ q.fill_l1d = fd /\ q.instruction = i /\ q.is_data = d
      /\ q.returned = e.returned /\ q.deps = ds
  <2>1. e = [line |-> e.line, word |-> e.word, type |-> e.type, fill_level |-> e.fill_level,
             fill_l1i |-> e.fill_l1i, fill_l1d |-> e.fill_l1d, instruction |-> e.instruction,
             is_data |-> e.is_data, deps |-> e.deps, returned |-> e.returned]
    BY <1>1 DEF PacketSet
  <2>2. q = [line |-> e.line, word |-> e.word, type |-> e.type, fill_level |-> e.fill_level,
             fill_l1i |-> fi, fill_l1d |-> fd, instruction |-> i,
             is_data |-> d, deps |-> ds, returned |-> e.returned]
    BY <1>3, <2>1
  <2>3. /\ e.line \in Lines /\ e.word \in Words \cup {0} /\ e.type \in Types
        /\ e.fill_level \in {1, 2, 4} /\ e.deps \in SUBSET Loads
        /\ e.instruction \in BOOLEAN /\ e.is_data \in BOOLEAN /\ e.returned \in BOOLEAN
        /\ e.fill_l1i \in BOOLEAN /\ e.fill_l1d \in BOOLEAN
    BY <1>1 DEF PacketSet
  <2>4. QED
    BY <1>2, <2>2, <2>3 DEF PacketSet
<1>5. q \in Reads(c)
  BY <1>4 DEF Reads, Fits, i, d, fi, fd
<1>6. ASSUME NEW u \in Inner
      PROVE  q \in Wanted(u) <=> e \in Wanted(u) \/ p \in Wanted(u)
  BY <1>1, <1>4 DEF Wanted, Reads, fi, fd
<1>7. QED
  BY <1>4, <1>5, <1>6 DEF q, ds

(* Two prefetches of a line in one prefetch queue become one in the same   *)
(* way.                                                                    *)
LEMMA MergedPrefetchPacket ==
  ASSUME NEW c \in Caches, NEW e \in Prefs(c), NEW p \in Prefs(c), e.line = p.line
  PROVE  /\ MergedPrefetch(e, p) \in Prefs(c) /\ MergedPrefetch(e, p).line = p.line
         /\ \A u \in Inner : MergedPrefetch(e, p) \in Wanted(u) <=> e \in Wanted(u) \/ p \in Wanted(u)
<1> DEFINE q == MergedPrefetch(e, p)
<1>1. /\ e \in PacketSet /\ p \in PacketSet
      /\ {p.instruction, p.is_data, p.fill_l1i, p.fill_l1d} \subseteq BOOLEAN
      /\ {e.instruction, e.is_data, e.fill_l1i, e.fill_l1d} \subseteq BOOLEAN
      /\ e.fill_level \in {1, 2, 4} /\ p.fill_level \in {1, 2, 4}
  BY DEF Prefs, PacketSet
<1> DEFINE f == IF p.fill_level < e.fill_level THEN p.fill_level ELSE e.fill_level
           i == e.instruction \/ p.instruction
           d == e.is_data \/ p.is_data
           fi == e.fill_l1i \/ p.fill_l1i
           fd == e.fill_l1d \/ p.fill_l1d
<1>2. i \in BOOLEAN /\ d \in BOOLEAN /\ fi \in BOOLEAN /\ fd \in BOOLEAN /\ f \in {1, 2, 4}
      /\ (f = 1 <=> e.fill_level = 1 \/ p.fill_level = 1)
      /\ (f < 4 <=> e.fill_level < 4 \/ p.fill_level < 4)
  BY <1>1
<1>3. q = [e EXCEPT !.fill_level = f, !.instruction = i, !.is_data = d, !.fill_l1i = fi, !.fill_l1d = fd]
  BY <1>1 DEF MergedPrefetch, PacketSet
<1> HIDE DEF q, i, d, fi, fd, f
<1>4. /\ q \in PacketSet /\ q.line = e.line /\ q.type = e.type /\ q.fill_level = f
      /\ q.fill_l1i = fi /\ q.fill_l1d = fd /\ q.instruction = i /\ q.is_data = d
      /\ q.returned = e.returned /\ q.deps = e.deps
  <2>1. e = [line |-> e.line, word |-> e.word, type |-> e.type, fill_level |-> e.fill_level,
             fill_l1i |-> e.fill_l1i, fill_l1d |-> e.fill_l1d, instruction |-> e.instruction,
             is_data |-> e.is_data, deps |-> e.deps, returned |-> e.returned]
    BY <1>1 DEF PacketSet
  <2>2. q = [line |-> e.line, word |-> e.word, type |-> e.type, fill_level |-> f,
             fill_l1i |-> fi, fill_l1d |-> fd, instruction |-> i,
             is_data |-> d, deps |-> e.deps, returned |-> e.returned]
    BY <1>3, <2>1
  <2>3. /\ e.line \in Lines /\ e.word \in Words \cup {0} /\ e.type \in Types
        /\ e.fill_level \in {1, 2, 4} /\ e.deps \in SUBSET Loads
        /\ e.instruction \in BOOLEAN /\ e.is_data \in BOOLEAN /\ e.returned \in BOOLEAN
        /\ e.fill_l1i \in BOOLEAN /\ e.fill_l1d \in BOOLEAN
    BY <1>1 DEF PacketSet
  <2>4. QED
    BY <1>2, <2>2, <2>3 DEF PacketSet
<1>5. q \in Prefs(c)
  BY <1>2, <1>4 DEF Prefs, Fits, i, d, fi, fd
<1>6. ASSUME NEW u \in Inner
      PROVE  q \in Wanted(u) <=> e \in Wanted(u) \/ p \in Wanted(u)
  BY <1>1, <1>2, <1>4 DEF Wanted, fi, fd
<1>7. QED
  BY <1>4, <1>5, <1>6 DEF q

(* No line is code and data.                                               *)
Separate == CodeLines \cap DataLines = {}

(* What a miss becomes that a packet joins: no cache gets what it did not  *)
(* ask for, and none is forgotten if no line is code and data.             *)
Joins(c, e, p, q) ==
  /\ q \in Misses(c) /\ q.line = e.line /\ q.returned = e.returned
  /\ \A u \in Inner : Lower[u] = c =>
       /\ q \in Wanted(u) => e \in Wanted(u) \/ p \in Wanted(u)
       /\ Separate /\ (e \in Wanted(u) \/ p \in Wanted(u)) => q \in Wanted(u)

(* A read that meets a prefetch in the MSHR takes its entry over, for the  *)
(* levels that wanted the prefetch too.                                    *)
LEMMA ReplacedPacket ==
  ASSUME NEW c \in Caches, NEW e \in Misses(c), NEW p \in Reads(c), e.line = p.line
  PROVE  Joins(c, e, p, Replaced(e, p)) /\ Replaced(e, p).deps = p.deps
         /\ Replaced(e, p).type = p.type
<1> DEFINE q == Replaced(e, p)
<1>1. /\ e \in PacketSet /\ p \in PacketSet /\ e.returned \in BOOLEAN
      /\ {p.fill_l1i, p.fill_l1d, e.fill_l1i, e.fill_l1d} \subseteq BOOLEAN
      /\ e.fill_level \in {1, 2, 4} /\ FillLevel[c] >= 1
  BY CacheNames DEF Reads, Misses, PacketSet
<1> DEFINE b == e.returned
<1>2. q = [p EXCEPT !.returned = b]
  BY DEF Replaced
<1> HIDE DEF q, b
<1>3. /\ q \in PacketSet /\ q.line = p.line /\ q.type = p.type /\ q.fill_level = p.fill_level
      /\ q.fill_l1i = p.fill_l1i /\ q.fill_l1d = p.fill_l1d /\ q.instruction = p.instruction
      /\ q.is_data = p.is_data /\ q.returned = b /\ q.deps = p.deps
  BY <1>1, <1>2 DEF PacketSet, b
<1>4. q \in Misses(c)
  BY <1>1, <1>3 DEF Misses, Reads, Fits
<1>5. ASSUME NEW u \in Inner, Lower[u] = c
      PROVE  /\ q \in Wanted(u) <=> p \in Wanted(u)
             /\ Separate /\ e \in Wanted(u) => p \in Wanted(u)
  <2>1. q \in Wanted(u) <=> p \in Wanted(u)
    BY <1>1, <1>3 DEF Wanted
  <2>2. ASSUME Separate, e \in Wanted(u)
        PROVE  p \in Wanted(u)
    <3>1. CASE u = "L1I"
      <4>1. p.line \in CodeLines /\ p.line \notin DataLines
        BY <2>2, <3>1 DEF Wanted, Misses, Fits, Separate
      <4>2. QED
        BY <1>1, <3>1, <4>1 DEF Wanted, Reads, Fits
    <3>2. CASE u = "L1D"
      <4>1. p.line \in DataLines /\ p.line \notin CodeLines
        BY <2>2, <3>2 DEF Wanted, Misses, Fits, Separate
      <4>2. QED
        BY <1>1, <3>2, <4>1 DEF Wanted, Reads, Fits
    <3>3. CASE u = "L2C"
      BY <1>1, <3>3 DEF Wanted, Reads
    <3>4. QED
      BY <3>1, <3>2, <3>3, CacheNames
  <2>3. QED
    BY <2>1, <2>2
<1>6. QED
  BY <1>3, <1>4, <1>5 DEF Joins, q, b

(* A read that meets a read in the MSHR adds its levels and its loads to   *)
(* it.                                                                     *)
LEMMA JoinedByReadPacket ==
  ASSUME NEW c \in Caches, NEW e \in Misses(c), NEW p \in Reads(c), e.line = p.line
  PROVE  Joins(c, e, p, JoinedByRead(e, p)) /\ JoinedByRead(e, p).deps = e.deps \cup p.deps
<1>1. CASE e.type = "prefetch"
  <2>1. JoinedByRead(e, p) = Replaced(e, p)
    BY <1>1 DEF JoinedByRead
  <2>2. e.deps = {}
    BY <1>1 DEF Misses, Fits
  <2>3. QED
    BY <2>1, <2>2, ReplacedPacket
<1>2. CASE e.type # "prefetch"
  <2> DEFINE q == JoinedByRead(e, p)
  <2>1. /\ e \in PacketSet /\ p \in PacketSet
        /\ {p.instruction, p.is_data, p.fill_l1i, p.fill_l1d} \subseteq BOOLEAN
        /\ {e.instruction, e.is_data, e.fill_l1i, e.fill_l1d} \subseteq BOOLEAN
        /\ e.fill_level \in {1, 2, 4} /\ p.fill_level = 1 /\ FillLevel[c] >= 1
        /\ e.deps \in SUBSET Loads /\ p.deps \in SUBSET Loads
    BY CacheNames DEF Reads, Misses, PacketSet
  <2> DEFINE i == IF p.type = "rfo" THEN e.instruction ELSE e.instruction \/ p.instruction
             d == IF p.type = "rfo" THEN e.is_data ELSE e.is_data \/ ~p.instruction
             fi == e.fill_l1i \/ p.fill_l1i
             fd == e.fill_l1d \/ p.fill_l1d
             ds == e.deps \cup p.deps
             f == IF p.fill_level < e.fill_level THEN p.fill_level ELSE e.fill_level
             e1 == IF p.type = "rfo" THEN e
                   ELSE [e EXCEPT !.instruction = @ \/ p.instruction, !.is_data = @ \/ ~p.instruction]
  <2>2. i \in BOOLEAN /\ d \in BOOLEAN /\ fi \in BOOLEAN /\ fd \in BOOLEAN /\ ds \in SUBSET Loads
        /\ f = 1
    <3>1. i \in BOOLEAN /\ d \in BOOLEAN
      BY <2>1, Zenon
    <3>2. fi \in BOOLEAN /\ fd \in BOOLEAN /\ ds \in SUBSET Loads /\ f = 1
      BY <2>1
    <3>3. QED
      BY <3>1, <3>2, Zenon
  <2>3. q = [e1 EXCEPT !.fill_level = IF p.fill_level < @ THEN p.fill_level ELSE @,
                       !.fill_l1i = @ \/ p.fill_l1i, !.fill_l1d = @ \/ p.fill_l1d,
                       !.deps = @ \cup p.deps]
    BY <1>2 DEF JoinedByRead
  <2>4. /\ e1 \in PacketSet /\ e1.line = e.line /\ e1.type = e.type /\ e1.fill_level = e.fill_level
        /\ e1.fill_l1i = e.fill_l1i /\ e1.fill_l1d = e.fill_l1d /\ e1.instruction = i
        /\ e1.is_data = d /\ e1.returned = e.returned /\ e1.deps = e.deps
    <3>1. e = [line |-> e.line, word |-> e.word, type |-> e.type, fill_level |-> e.fill_level,
               fill_l1i |-> e.fill_l1i, fill_l1d |-> e.fill_l1d, instruction |-> e.instruction,
               is_data |-> e.is_data, deps |-> e.deps, returned |-> e.returned]
      BY <2>1 DEF PacketSet
    <3>2. e1 = [line |-> e.line, word |-> e.word, type |-> e.type, fill_level |-> e.fill_level,
                fill_l1i |-> e.fill_l1i, fill_l1d |-> e.fill_l1d, instruction |-> i,
                is_data |-> d, deps |-> e.deps, returned |-> e.returned]
      <4>1. CASE p.type = "rfo"
        BY <3>1, <4>1
      <4>2. CASE p.type # "rfo"
        <5> DEFINE j == e.instruction \/ p.instruction  k == e.is_data \/ ~p.instruction
        <5>1. e1 = [e EXCEPT !.instruction = j, !.is_data = k] /\ i = j /\ d = k
          BY <4>2
        <5> HIDE DEF e1, i, d, j, k
        <5>2. QED
          BY <3>1, <5>1
      <4>3. QED
        BY <4>1, <4>2
    <3>3. /\ e.line \in Lines /\ e.word \in Words \cup {0} /\ e.type \in Types
          /\ e.fill_level \in {1, 2, 4} /\ e.deps \in SUBSET Loads
          /\ e.instruction \in BOOLEAN /\ e.is_data \in BOOLEAN /\ e.returned \in BOOLEAN
          /\ e.fill_l1i \in BOOLEAN /\ e.fill_l1d \in BOOLEAN
      BY <2>1 DEF PacketSet
    <3> HIDE DEF e1, i, d
    <3>4. QED
      BY <2>2, <3>2, <3>3 DEF PacketSet
  <2> HIDE DEF e1, q
  <2>5. q = [e1 EXCEPT !.fill_level = f, !.fill_l1i = fi, !.fill_l1d = fd, !.deps = ds]
    BY <2>1, <2>3, <2>4 DEF PacketSet
  <2> HIDE DEF i, d, fi, fd, ds, f
  <2>6. /\ q \in PacketSet /\ q.line = e.line /\ q.type = e.type /\ q.fill_level = 1
        /\ q.fill_l1i = fi /\ q.fill_l1d = fd /\ q.instruction = i /\ q.is_data = d
        /\ q.returned = e.returned /\ q.deps = ds
    BY <2>1, <2>2, <2>4, <2>5 DEF PacketSet
  <2>7. q \in Misses(c)
    BY <1>2, <2>1, <2>6 DEF Misses, Reads, Fits, i, d, fi, fd
  <2>8. ASSUME NEW u \in Inner
        PROVE  q \in Wanted(u) <=> e \in Wanted(u) \/ p \in Wanted(u)
    BY <2>1, <2>6 DEF Wanted, fi, fd
  <2>9. QED
    BY <2>6, <2>7, <2>8 DEF Joins, q, ds
<1>3. QED
  BY <1>1, <1>2

(* A prefetch that meets a miss in the MSHR adds its levels and leaves its *)
(* loads alone.                                                            *)
LEMMA JoinedByPrefetchPacket ==
  ASSUME NEW c \in Caches, NEW e \in Misses(c), NEW p \in Prefs(c), e.line = p.line, NEW q,
         q = [e EXCEPT !.fill_level = IF p.fill_level < @ THEN p.fill_level ELSE @,
                       !.fill_l1i = @ \/ p.fill_l1i, !.fill_l1d = @ \/ p.fill_l1d]
  PROVE  Joins(c, e, p, q) /\ q.deps = e.deps
<1>1. /\ e \in PacketSet /\ p \in PacketSet
      /\ {p.fill_l1i, p.fill_l1d, e.fill_l1i, e.fill_l1d} \subseteq BOOLEAN
      /\ e.fill_level \in {1, 2, 4} /\ p.fill_level \in {1, 2, 4} /\ FillLevel[c] \in {1, 2, 4}
  BY CacheNames DEF Prefs, Misses, PacketSet
<1> DEFINE f == IF p.fill_level < e.fill_level THEN p.fill_level ELSE e.fill_level
           fi == e.fill_l1i \/ p.fill_l1i
           fd == e.fill_l1d \/ p.fill_l1d
<1>2. fi \in BOOLEAN /\ fd \in BOOLEAN /\ f \in {1, 2, 4} /\ f <= e.fill_level
      /\ (f = 1 <=> e.fill_level = 1 \/ p.fill_level = 1)
      /\ (f < 4 <=> e.fill_level < 4 \/ p.fill_level < 4)
  BY <1>1
<1>3. q = [e EXCEPT !.fill_level = f, !.fill_l1i = fi, !.fill_l1d = fd]
  BY <1>1 DEF PacketSet
<1> HIDE DEF fi, fd, f
<1>4. /\ q \in PacketSet /\ q.line = e.line /\ q.type = e.type /\ q.fill_level = f
      /\ q.fill_l1i = fi /\ q.fill_l1d = fd /\ q.instruction = e.instruction
      /\ q.is_data = e.is_data /\ q.returned = e.returned /\ q.deps = e.deps
  BY <1>1, <1>2, <1>3 DEF PacketSet
<1>5. q \in Misses(c)
  <2>1. f <= FillLevel[c]
    BY <1>1, <1>2 DEF Misses
  <2>2. QED
    BY <1>2, <1>4, <2>1 DEF Misses, Prefs, Fits, fi, fd
<1>6. ASSUME NEW u \in Inner
      PROVE  q \in Wanted(u) <=> e \in Wanted(u) \/ p \in Wanted(u)
  BY <1>1, <1>2, <1>4 DEF Wanted, fi, fd
<1>7. QED
  BY <1>4, <1>5, <1>6 DEF Joins

(* The fields of a new packet.                                             *)
LEMMA PacketFields ==
  ASSUME NEW l \in Lines, NEW w \in Words \cup {0}, NEW t \in Types, NEW lvl \in {1, 2, 4},
         NEW ins \in BOOLEAN, NEW deps \in SUBSET Loads
  PROVE  LET q == Packet(l, w, t, lvl, ins, deps)
         IN /\ q \in PacketSet /\ q.line = l /\ q.type = t /\ q.fill_level = lvl
            /\ (q.fill_l1i <=> lvl = 1 /\ ins) /\ (q.fill_l1d <=> lvl = 1 /\ ~ins)
            /\ (q.instruction <=> ins) /\ (q.is_data <=> ~ins) /\ q.deps = deps /\ ~q.returned
<1> DEFINE fi == lvl = 1 /\ ins  fd == lvl = 1 /\ ~ins  d == ~ins  no == FALSE
           q == [line |-> l, word |-> w, type |-> t, fill_level |-> lvl, fill_l1i |-> fi,
                 fill_l1d |-> fd, instruction |-> ins, is_data |-> d, deps |-> deps, returned |-> no]
<1>1. fi \in BOOLEAN /\ fd \in BOOLEAN /\ d \in BOOLEAN /\ no \in BOOLEAN
  BY Zenon
<1>2. Packet(l, w, t, lvl, ins, deps) = q
  BY Zenon DEF Packet
<1> HIDE DEF fi, fd, d, no
<1>3. /\ q \in PacketSet /\ q.line = l /\ q.type = t /\ q.fill_level = lvl
      /\ q.fill_l1i = fi /\ q.fill_l1d = fd /\ q.instruction = ins /\ q.is_data = d
      /\ q.deps = deps /\ q.returned = no
  BY <1>1 DEF PacketSet
<1> HIDE DEF q
<1>4. QED
  BY <1>2, <1>3, Zenon DEF fi, fd, d, no

(* A store that misses joins a miss of the L1D.                            *)
LEMMA StorePackets ==
  ASSUME NEW l \in DataLines
  PROVE  /\ StorePacket(l) \in Reads("L1D") /\ StorePacket(l) \in Misses("L1D")
         /\ StorePacket(l).line = l /\ StorePacket(l).deps = {}
         /\ StorePacket(l).type = "rfo"
         /\ StorePacket(l) \in Reads("L2C") /\ StorePacket(l) \in Wanted("L1D")
<1> DEFINE q == StorePacket(l)
<1>1. /\ l \in Lines /\ 0 \in Words \cup {0} /\ "rfo" \in Types /\ {} \in SUBSET Loads
      /\ FALSE \in BOOLEAN /\ 1 \in {1, 2, 4}
  BY DEF Lines, Types
<1>2. q \in PacketSet /\ q.line = l /\ q.deps = {} /\ q.type = "rfo" /\ q.fill_level = 1
      /\ q.fill_l1i = FALSE /\ q.fill_l1d = TRUE /\ q.is_data = TRUE /\ q.returned = FALSE
  <2> DEFINE no == FALSE  yes == TRUE
  <2>1. no \in BOOLEAN /\ yes \in BOOLEAN
    OBVIOUS
  <2>2. q = [line |-> l, word |-> 0, type |-> "rfo", fill_level |-> 1, fill_l1i |-> no,
             fill_l1d |-> yes, instruction |-> no, is_data |-> yes, deps |-> {}, returned |-> no]
    BY DEF StorePacket, Packet
  <2> HIDE DEF q, no, yes
  <2>3. /\ q \in PacketSet /\ q.line = l /\ q.deps = {} /\ q.type = "rfo" /\ q.fill_level = 1
        /\ q.fill_l1i = no /\ q.fill_l1d = yes /\ q.is_data = yes /\ q.returned = no
    BY <1>1, <2>1, <2>2 DEF PacketSet
  <2>4. QED
    BY <2>3, Zenon DEF no, yes
<1> HIDE DEF q
<1>3. q \in Reads("L1D") /\ q \in Misses("L1D") /\ q \in Reads("L2C") /\ q \in Wanted("L1D")
  BY <1>2, CacheNames DEF Reads, Misses, Fits, Wanted
<1>4. QED
  BY <1>2, <1>3 DEF q

(* A store that meets a miss of the L1D changes where it fills, not its    *)
(* line nor its loads.                                                     *)
LEMMA JoinedByStorePacket ==
  ASSUME NEW e \in Misses("L1D"), NEW q, q = [e EXCEPT !.fill_level = 1, !.fill_l1d = TRUE]
  PROVE  q \in Misses("L1D") /\ q.line = e.line /\ q.returned = e.returned /\ q.deps = e.deps
         /\ q.type = e.type
<1>1. e \in PacketSet
  BY DEF Misses
<1> DEFINE yes == TRUE
<1>2. q = [e EXCEPT !.fill_level = 1, !.fill_l1d = yes] /\ yes \in BOOLEAN /\ yes
  OBVIOUS
<1> HIDE DEF yes
<1>3. /\ q \in PacketSet /\ q.line = e.line /\ q.type = e.type /\ q.fill_level = 1
      /\ q.fill_l1i = e.fill_l1i /\ q.fill_l1d = yes /\ q.instruction = e.instruction
      /\ q.is_data = e.is_data /\ q.returned = e.returned /\ q.deps = e.deps
  BY <1>1, <1>2 DEF PacketSet
<1>4. /\ q.line \in DataLines /\ ~q.fill_l1i /\ q.fill_l1d /\ FillLevel["L1D"] = 1
      /\ (q.instruction \/ q.is_data) /\ q \in PacketSet /\ q.fill_level = 1
      /\ q.type = "prefetch" => q.deps = {}
  BY <1>2, <1>3, CacheNames DEF Misses, Fits
<1>5. Fits("L1D", q)
  BY <1>4 DEF Fits
<1>6. q \in Misses("L1D")
  <2>1. q \in PacketSet /\ q.fill_level <= FillLevel["L1D"]
    BY <1>4
  <2>2. QED
    BY <1>5, <2>1, Zenon DEF Misses
<1>7. QED
  BY <1>3, <1>6

(* Marking a miss answered changes nothing else.                           *)
LEMMA ReturnedPacket ==
  ASSUME NEW c \in Caches, NEW e \in Misses(c)
  PROVE  /\ [e EXCEPT !.returned = TRUE] \in Misses(c)
         /\ [e EXCEPT !.returned = TRUE] \notin Open
         /\ [e EXCEPT !.returned = TRUE].line = e.line
         /\ [e EXCEPT !.returned = TRUE].deps = e.deps
         /\ [e EXCEPT !.returned = TRUE].returned
         /\ \A u : [e EXCEPT !.returned = TRUE] \in Wanted(u) <=> e \in Wanted(u)
         /\ \A i : [e EXCEPT !.returned = TRUE] \in Holding(i) <=> e \in Holding(i)
<1>1. e \in PacketSet
  BY DEF Misses
<1> DEFINE yes == TRUE  q == [e EXCEPT !.returned = yes]
<1>2. yes \in BOOLEAN /\ yes
  OBVIOUS
<1> HIDE DEF yes
<1>3. /\ q \in PacketSet /\ q.line = e.line /\ q.type = e.type /\ q.fill_level = e.fill_level
      /\ q.fill_l1i = e.fill_l1i /\ q.fill_l1d = e.fill_l1d /\ q.instruction = e.instruction
      /\ q.is_data = e.is_data /\ q.returned = yes /\ q.deps = e.deps
  BY <1>1, <1>2 DEF PacketSet
<1>4. q = [e EXCEPT !.returned = TRUE]
  BY DEF yes
<1> HIDE DEF q
<1>5. /\ q \in Misses(c) /\ q \notin Open /\ \A u : q \in Wanted(u) <=> e \in Wanted(u)
      /\ \A i : q \in Holding(i) <=> e \in Holding(i)
  BY <1>1, <1>2, <1>3 DEF Misses, Fits, Open, Wanted, Holding
<1>6. QED
  BY <1>2, <1>3, <1>4, <1>5

(* Sets and queues that hold at most one packet of each line.              *)

In(S, l, A) == \E p \in S : p.line = l /\ p \in A
OneEach(S)  == \A p, q \in S : p.line = q.line => p = q
Distinct(q) == \A i, j \in DOMAIN q : q[i].line = q[j].line => i = j

(* Where each line has one packet, a line has a packet of A when its own   *)
(* packet is in A.                                                         *)
LEMMA InIs ==
  ASSUME NEW S, OneEach(S), NEW p \in S
  PROVE  \A A : In(S, p.line, A) <=> p \in A
BY DEF In, OneEach

(* The packet of a line leaves: that line has none, the others are as      *)
(* before.                                                                 *)
LEMMA InRemove ==
  ASSUME NEW S, OneEach(S), NEW p \in S
  PROVE  /\ OneEach(S \ {p})
         /\ \A l, A : In(S \ {p}, l, A) <=> In(S, l, A) /\ l # p.line
BY DEF In, OneEach

(* A packet of a new line enters: the other lines are as before.           *)
LEMMA InInsert ==
  ASSUME NEW S, OneEach(S), NEW p, \A q \in S : q.line # p.line
  PROVE  /\ OneEach(S \cup {p})
         /\ \A l, A : In(S \cup {p}, l, A) <=> In(S, l, A) \/ (l = p.line /\ p \in A)
BY DEF In, OneEach

(* The packet of a line is changed for another: only that line can tell.   *)
LEMMA InReplace ==
  ASSUME NEW S, OneEach(S), NEW e \in S, NEW q, q.line = e.line
  PROVE  /\ OneEach((S \ {e}) \cup {q})
         /\ \A l, A : In((S \ {e}) \cup {q}, l, A) <=> IF l = e.line THEN q \in A ELSE In(S, l, A)
BY DEF In, OneEach

(* A queue of distinct lines loses its head, gains a line, or has a packet *)
(* changed.                                                                *)
LEMMA QueueHead ==
  ASSUME NEW T, NEW q \in Seq(T), Distinct(q), q # <<>>
  PROVE  /\ Head(q) \in Range(q) /\ Head(q) \in T /\ OneEach(Range(q))
         /\ Tail(q) \in Seq(T) /\ Distinct(Tail(q)) /\ Len(Tail(q)) = Len(q) - 1
         /\ Range(Tail(q)) = Range(q) \ {Head(q)} /\ Len(q) \in Nat \ {0}
<1>1. /\ Len(q) \in Nat \ {0} /\ DOMAIN q = 1 .. Len(q) /\ Head(q) = q[1] /\ 1 \in DOMAIN q
      /\ Head(q) \in T
  BY EmptySeq, LenProperties, HeadTailProperties
<1>2. /\ Tail(q) \in Seq(T) /\ Len(Tail(q)) = Len(q) - 1
      /\ \A i \in 1 .. Len(Tail(q)) : Tail(q)[i] = q[i + 1]
  BY HeadTailProperties
<1>3. DOMAIN Tail(q) = 1 .. Len(q) - 1
  BY <1>2, LenProperties
<1>4. \A i \in 1 .. Len(q) - 1 : Tail(q)[i] = q[i + 1] /\ i + 1 \in DOMAIN q /\ i + 1 # 1
  BY <1>1, <1>2
<1>5. Distinct(Tail(q))
  BY <1>3, <1>4 DEF Distinct
<1>6. OneEach(Range(q))
  BY DEF OneEach, Range, Distinct
<1>7. Range(Tail(q)) = Range(q) \ {Head(q)}
  <2>1. ASSUME NEW x \in Range(Tail(q))
        PROVE  x \in Range(q) /\ x # Head(q)
    <3>1. PICK i \in 1 .. Len(q) - 1 : x = q[i + 1]
      BY <1>3, <1>4, <2>1 DEF Range
    <3>2. q[i + 1] # q[1]
      BY <1>1, <1>4 DEF Distinct
    <3>3. QED
      BY <1>1, <1>4, <3>1, <3>2 DEF Range
  <2>2. ASSUME NEW x \in Range(q), x # Head(q)
        PROVE  x \in Range(Tail(q))
    <3>1. PICK i \in 1 .. Len(q) : x = q[i]
      BY <1>1 DEF Range
    <3>2. i # 1 /\ i - 1 \in 1 .. Len(q) - 1 /\ (i - 1) + 1 = i
      BY <1>1, <2>2, <3>1
    <3>3. Tail(q)[i - 1] = x
      BY <1>4, <3>1, <3>2
    <3>4. QED
      BY <1>3, <3>2, <3>3 DEF Range
  <2>3. QED
    BY <2>1, <2>2
<1>8. Head(q) \in Range(q)
  BY <1>1 DEF Range
<1>9. QED
  BY <1>1, <1>2, <1>5, <1>6, <1>7, <1>8

(* A queue of distinct lines gains a line it did not have.                 *)
LEMMA QueueAppend ==
  ASSUME NEW T, NEW q \in Seq(T), Distinct(q), NEW p \in T, \A e \in Range(q) : e.line # p.line
  PROVE  /\ Append(q, p) \in Seq(T) /\ Distinct(Append(q, p)) /\ Len(Append(q, p)) = Len(q) + 1
         /\ Range(Append(q, p)) = Range(q) \cup {p} /\ Len(q) \in Nat
<1>1. Len(q) \in Nat /\ DOMAIN q = 1 .. Len(q)
  BY LenProperties
<1>2. /\ Append(q, p) \in Seq(T) /\ Len(Append(q, p)) = Len(q) + 1
      /\ \A i \in 1 .. Len(q) : Append(q, p)[i] = q[i]
      /\ Append(q, p)[Len(q) + 1] = p
  BY AppendProperties
<1>3. DOMAIN Append(q, p) = 1 .. Len(q) \cup {Len(q) + 1} /\ Len(q) + 1 \notin 1 .. Len(q)
  BY <1>1, <1>2, LenProperties
<1>4. \A i \in 1 .. Len(q) : q[i].line # p.line
  BY <1>1 DEF Range
<1>5. Distinct(Append(q, p))
  BY <1>1, <1>2, <1>3, <1>4 DEF Distinct
<1>6. Range(Append(q, p)) = Range(q) \cup {p}
  BY <1>1, <1>2, <1>3 DEF Range
<1>7. QED
  BY <1>1, <1>2, <1>5, <1>6

(* A queue of distinct lines has one packet changed for another of its     *)
(* line.                                                                   *)
LEMMA QueueReplace ==
  ASSUME NEW T, NEW q \in Seq(T), Distinct(q), NEW k \in 1 .. Len(q), NEW e \in T, e.line = q[k].line,
         NEW r \in Seq(T), Len(r) = Len(q),
         \A i \in 1 .. Len(q) : r[i] = IF i = k THEN e ELSE q[i]
  PROVE  Distinct(r) /\ Range(r) = (Range(q) \ {q[k]}) \cup {e}
<1>1. Len(q) \in Nat /\ DOMAIN q = 1 .. Len(q)
  BY LenProperties
<1>2. DOMAIN r = 1 .. Len(q) /\ \A i \in 1 .. Len(q) : r[i] = IF i = k THEN e ELSE q[i]
  BY LenProperties
<1>3. Distinct(r)
  <2>1. \A i \in 1 .. Len(q) : r[i].line = q[i].line
    BY <1>2
  <2>2. QED
    BY <1>1, <1>2, <2>1 DEF Distinct
<1>4. Range(r) = (Range(q) \ {q[k]}) \cup {e}
  <2>1. \A i \in 1 .. Len(q) : i # k => q[i] # q[k]
    BY <1>1 DEF Distinct
  <2>2. \A x : x \in Range(r) <=> \E i \in 1 .. Len(q) : x = IF i = k THEN e ELSE q[i]
    BY <1>2 DEF Range
  <2>3. \A x : x \in Range(q) <=> \E i \in 1 .. Len(q) : x = q[i]
    BY <1>1 DEF Range
  <2>4. QED
    BY <1>1, <2>1, <2>2, <2>3
<1>5. QED
  BY <1>3, <1>4

(* First() finds one of the queue.                                         *)
LEMMA OlderQueued ==
  ASSUME NEW T, NEW q \in Seq(T), NEW p, Queued(q, p) # {}
  PROVE  /\ First(Queued(q, p)) \in DOMAIN q
         /\ Older(q, p) = q[First(Queued(q, p))] /\ Older(q, p).line = p.line
         /\ Older(q, p) \in Range(q) /\ Older(q, p) \in T
<1>1. Queued(q, p) \subseteq Nat /\ DOMAIN q = 1 .. Len(q)
  BY LenProperties DEF Queued
<1>2. First(Queued(q, p)) \in Queued(q, p)
  BY <1>1, FirstWay DEF First
<1>3. First(Queued(q, p)) \in 1 .. Len(q) /\ Older(q, p) = q[First(Queued(q, p))]
      /\ Older(q, p).line = p.line
  BY <1>1, <1>2 DEF Queued, Older
<1>4. QED
  BY <1>1, <1>3, ElementOfSeq DEF Range

(* What add_rq() and add_pq() do to the queue.                             *)
LEMMA QueueMerged ==
  ASSUME NEW T, NEW q \in Seq(T), Distinct(q), NEW p, Queued(q, p) # {}, NEW size,
         NEW merged \in T, merged.line = p.line, NEW r, r = Added(q, p, size, merged)
  PROVE  /\ r \in Seq(T) /\ Distinct(r) /\ Len(r) = Len(q)
         /\ Range(r) = (Range(q) \ {Older(q, p)}) \cup {merged}
<1> DEFINE k == First(Queued(q, p))
<1>1. k \in 1 .. Len(q) /\ q[k] = Older(q, p) /\ Older(q, p).line = p.line
  BY OlderQueued, LenProperties
<1>2. r = [q EXCEPT ![k] = merged]
  BY DEF Added
<1>3. merged.line = q[k].line
  BY <1>1
<1> HIDE DEF k
<1>4. r \in Seq(T) /\ Len(r) = Len(q)
      /\ \A i \in 1 .. Len(q) : r[i] = IF i = k THEN merged ELSE q[i]
  BY <1>1, <1>2, ExceptSeq
<1>5. Distinct(r) /\ Range(r) = (Range(q) \ {q[k]}) \cup {merged}
  BY <1>1, <1>3, <1>4, QueueReplace
<1>6. QED
  BY <1>1, <1>4, <1>5

(* add_rq() and add_pq() with a line the queue does not have: appended, or *)
(* refused when the queue is full.                                         *)
LEMMA QueueGrown ==
  ASSUME NEW T, NEW q \in Seq(T), Distinct(q), NEW p \in T, Queued(q, p) = {}, NEW size \in Nat,
         Len(q) <= size, NEW merged, NEW r, r = Added(q, p, size, merged)
  PROVE  /\ r \in Seq(T) /\ Distinct(r) /\ Len(r) <= size
         /\ \A e \in Range(q) : e.line # p.line
         /\ Len(q) = size => r = q
         /\ Len(q) # size => Range(r) = Range(q) \cup {p}
<1>1. Len(q) \in Nat
  BY LenProperties
<1>2. \A e \in Range(q) : e.line # p.line
  BY DEF Queued, Range
<1>3. CASE Len(q) = size
  BY <1>2, <1>3 DEF Added
<1>4. CASE Len(q) # size
  <2>1. r = Append(q, p)
    BY <1>4 DEF Added
  <2>2. QED
    BY <1>1, <1>2, <1>4, <2>1, QueueAppend
<1>5. QED
  BY <1>3, <1>4

(* A queue is no longer than the set its lines are from.                   *)
LEMMA QueueBounded ==
  ASSUME NEW T, NEW q \in Seq(T), Distinct(q), NEW X, IsFiniteSet(X),
         \A e \in Range(q) : e.line \in X
  PROVE  Len(q) <= Cardinality(X)
<1> DEFINE f == [i \in 1 .. Len(q) |-> q[i].line]
<1>1. Len(q) \in Nat /\ DOMAIN q = 1 .. Len(q)
  BY LenProperties
<1>2. f \in Injection(1 .. Len(q), X)
  BY <1>1 DEF Injection, IsInjective, Distinct, Range
<1> HIDE DEF f
<1>3. Cardinality(1 .. Len(q)) <= Cardinality(X)
  BY <1>2, FS_Injection
<1>4. Cardinality(1 .. Len(q)) = Len(q)
  <2>1. 1 \in Int /\ Len(q) \in Int /\ (1 > Len(q) => Len(q) = 0)
    BY <1>1
  <2>2. Cardinality(1 .. Len(q)) = IF 1 > Len(q) THEN 0 ELSE Len(q) - 1 + 1
    BY <2>1, FS_Interval
  <2>3. QED
    BY <1>1, <2>1, <2>2
<1>5. QED
  BY <1>3, <1>4

(* The misses of a cache after a return_data().                            *)
Marked(S, l) == {IF e.line = l THEN [e EXCEPT !.returned = TRUE] ELSE e : e \in S}

(* return_data() marks the misses of a line as returned: the same lines,   *)
(* wanted by the same levels, and no longer open.                          *)
LEMMA MarkedMisses ==
  ASSUME NEW c \in Caches, NEW S \in SUBSET Misses(c), NEW l
  PROVE  /\ Marked(S, l) \subseteq Misses(c)
         /\ OneEach(S) => OneEach(Marked(S, l))
         /\ \A k : (\E e \in Marked(S, l) : e.line = k) <=> (\E e \in S : e.line = k)
         /\ \A k : In(Marked(S, l), k, Open) <=> In(S, k, Open) /\ k # l
         /\ \A k, u : In(Marked(S, l), k, Wanted(u)) <=> In(S, k, Wanted(u))
         /\ \A k, i : In(Marked(S, l), k, Holding(i)) <=> In(S, k, Holding(i))
         /\ \A e \in Marked(S, l) : e.line = l => e.returned
         /\ IsFiniteSet(S) => IsFiniteSet(Marked(S, l)) /\ Cardinality(Marked(S, l)) <= Cardinality(S)
<1> DEFINE mark(e) == IF e.line = l THEN [e EXCEPT !.returned = TRUE] ELSE e
<1>1. ASSUME NEW e \in S
      PROVE  /\ mark(e) \in Misses(c) /\ mark(e).line = e.line
             /\ mark(e) \in Open <=> e \in Open /\ e.line # l
             /\ \A u : mark(e) \in Wanted(u) <=> e \in Wanted(u)
             /\ \A i : mark(e) \in Holding(i) <=> e \in Holding(i)
             /\ e.line = l => mark(e).returned
  <2>1. e \in Misses(c)
    OBVIOUS
  <2>2. CASE e.line = l
    <3> DEFINE q == [e EXCEPT !.returned = TRUE]
    <3>1. /\ q \in Misses(c) /\ q \notin Open /\ q.line = e.line /\ q.returned
          /\ \A u : q \in Wanted(u) <=> e \in Wanted(u)
          /\ \A i : q \in Holding(i) <=> e \in Holding(i)
      BY <2>1, ReturnedPacket
    <3>2. mark(e) = q
      BY <2>2
    <3> HIDE DEF q, mark
    <3>3. QED
      BY <2>2, <3>1, <3>2
  <2>3. CASE e.line # l
    BY <2>1, <2>3
  <2>4. QED
    BY <2>2, <2>3
<1>2. Marked(S, l) = {mark(e) : e \in S}
  BY DEF Marked
<1> HIDE DEF mark
<1>3. Marked(S, l) \subseteq Misses(c)
  BY <1>1, <1>2
<1>4. OneEach(S) => OneEach(Marked(S, l))
  BY <1>1, <1>2 DEF OneEach
<1>5. \A k : (\E e \in Marked(S, l) : e.line = k) <=> (\E e \in S : e.line = k)
  BY <1>1, <1>2
<1>6. \A k : In(Marked(S, l), k, Open) <=> In(S, k, Open) /\ k # l
  BY <1>1, <1>2 DEF In
<1>7. \A k, u : In(Marked(S, l), k, Wanted(u)) <=> In(S, k, Wanted(u))
  BY <1>1, <1>2 DEF In
<1>7a. \A k, i : In(Marked(S, l), k, Holding(i)) <=> In(S, k, Holding(i))
  BY <1>1, <1>2 DEF In
<1>8. ASSUME IsFiniteSet(S)
      PROVE  IsFiniteSet(Marked(S, l)) /\ Cardinality(Marked(S, l)) <= Cardinality(S)
  <2> DEFINE f == [e \in S |-> mark(e)]
  <2>1. f \in Surjection(S, Marked(S, l))
    BY <1>2 DEF Surjection
  <2> HIDE DEF f
  <2>2. QED
    BY <1>8, <2>1, FS_Surjection
<1>9. \A e \in Marked(S, l) : e.line = l => e.returned
  BY <1>1, <1>2
<1>10. QED
  BY <1>3, <1>4, <1>5, <1>6, <1>7, <1>7a, <1>8, <1>9

(* The queues and the misses of all caches.                                *)

ReadsTyped(q) ==
  /\ q = [c \in Caches |-> q[c]]
  /\ \A c \in Caches : q[c] \in Seq(Reads(c)) /\ Distinct(q[c]) /\ Len(q[c]) <= RqSize[c]

PrefsTyped(q) ==
  /\ q = [c \in Caches |-> q[c]]
  /\ \A c \in Caches : q[c] \in Seq(Prefs(c)) /\ Distinct(q[c]) /\ Len(q[c]) <= PqSize[c]

MissesTyped(m) ==
  /\ m = [c \in Caches |-> m[c]]
  /\ \A c \in Caches : /\ m[c] \in SUBSET Misses(c) /\ OneEach(m[c])
                       /\ IsFiniteSet(m[c]) /\ Cardinality(m[c]) <= MshrSize[c]

(* L1I is given no write, and L1D only stores.                             *)
WriteLines(c) == IF c = "L1I" THEN {} ELSE IF c = "L1D" THEN DataLines ELSE Lines
WritesOf(c)   == [line : WriteLines(c), word : Words \cup {0}]

WritesTyped(w) ==
  /\ w = [c \in Caches |-> w[c]]
  /\ \A c \in Caches : w[c] \in Seq(WritesOf(c)) /\ Len(w[c]) <= WqSize[c]

(* next_fill_index names an answered miss, if there is one.                *)
NextGood(m, n) ==
  /\ n = [c \in Caches |-> n[c]]
  /\ \A c \in Caches :
       /\ n[c] \in Lines \cup {0}
       /\ IF n[c] = 0 THEN \A e \in m[c] : ~e.returned
                      ELSE \E e \in m[c] : e.line = n[c] /\ e.returned

Tables(r, q, w, m, n) ==
  ReadsTyped(r) /\ PrefsTyped(q) /\ WritesTyped(w) /\ MissesTyped(m) /\ NextGood(m, n)

(* Where the level below u may hold a request that is to be handed up to u *)
(* for line l, and whether u waits for it.                                 *)
InReads(r, u, l)  == In(Range(r[Lower[u]]), l, Wanted(u))
InPrefs(q, u, l)  == In(Range(q[Lower[u]]), l, Wanted(u))
InMisses(m, u, l) == In(m[Lower[u]], l, Wanted(u))
Waits(m, u, l)    == In(m[u], l, Open)

(* One request below answers a miss, and none what is no miss.             *)
Linked(r, q, m, u, l) ==
  /\ ~(InReads(r, u, l) /\ InPrefs(q, u, l))
  /\ ~(InReads(r, u, l) /\ InMisses(m, u, l))
  /\ ~(InPrefs(q, u, l) /\ InMisses(m, u, l))
  /\ InReads(r, u, l) \/ InPrefs(q, u, l) \/ InMisses(m, u, l) => Waits(m, u, l)
  /\ Separate /\ Waits(m, u, l) => InReads(r, u, l) \/ InPrefs(q, u, l) \/ InMisses(m, u, l)

Links(r, q, m) == \A u \in Inner : \A l \in Lines : Linked(r, q, m, u, l)

(* Misses that are the same but for the answers they got.                  *)
SameMisses(m2, m) ==
  /\ \A u \in Inner : \A k : InMisses(m2, u, k) <=> InMisses(m, u, k)
  /\ \A c \in Caches : \A k : (\E e \in m2[c] : e.line = k) <=> (\E e \in m[c] : e.line = k)
  /\ \A c \in Caches : \A k, i : In(m2[c], k, Holding(i)) <=> In(m[c], k, Holding(i))

Answered(m2, m, us, l) ==
  \A c \in Caches : \A k : Waits(m2, c, k) <=> Waits(m, c, k) /\ ~(c \in us /\ k = l)

(* A queue that is asked for what p asks for, too.                         *)
Asks(S2, S, p)  == \A k : \A u \in Inner : In(S2, k, Wanted(u)) <=>
                     In(S, k, Wanted(u)) \/ (k = p.line /\ p \in Wanted(u))
Holds(S2, S, p) == \A k, i : In(S2, k, Holding(i)) <=>
                     In(S, k, Holding(i)) \/ (k = p.line /\ p \in Holding(i))

Refused(q2, q, p, size) == Queued(q, p) = {} /\ Len(q) = size /\ q2 = q

-----------------------------------------------------------------------------
(* One cache's entry of a table changes.                                   *)

(* An EXCEPT on the entry of one cache leaves the other caches their       *)
(* entries.                                                                *)
LEMMA EntryChanged ==
  ASSUME NEW f, f = [c \in Caches |-> f[c]], NEW c \in Caches, NEW x, NEW g, g = [f EXCEPT ![c] = x]
  PROVE  /\ g = [d \in Caches |-> g[d]] /\ g[c] = x
         /\ \A d \in Caches : d # c => g[d] = f[d]
OBVIOUS

(* The level below a cache is another cache, and no first level.           *)
LEMMA LowerOf == \A u \in Inner : Lower[u] \in Caches /\ u \in Caches /\ Lower[u] # u
                                  /\ Lower[u] # "L1I" /\ Lower[u] # "L1D"
BY CacheNames

(* No line is 0, which stands for no line.                                 *)
LEMMA LinesNotZero == 0 \notin Lines /\ Lines \subseteq Nat
BY CacheAssumption

(* Whatever kind of packet a line has, some packet has that line.          *)
LEMMA InAny == \A S, l, A : In(S, l, A) => \E p \in S : p.line = l
BY DEF In

(* return_data() marks the misses it finds, and takes care of the next     *)
(* fill.                                                                   *)
LEMMA Returned ==
  ASSUME NEW us, NEW l \in Lines, NEW m, NEW n, MissesTyped(m), NextGood(m, n),
         \A c \in Caches : c \in us => \E e \in m[c] : e.line = l,
         return_data(us, l, m, n)
  PROVE  /\ MissesTyped(MSHR') /\ NextGood(MSHR', nextFill')
         /\ SameMisses(MSHR', m) /\ Answered(MSHR', m, us, l)
<1>1. \A c \in Caches : MSHR'[c] = IF c \in us THEN Marked(m[c], l) ELSE m[c]
  BY DEF return_data, Marked
<1>2. MSHR' = [c \in Caches |-> MSHR'[c]]
  BY DEF return_data
<1>3. ASSUME NEW c \in Caches
      PROVE  /\ MSHR'[c] \in SUBSET Misses(c) /\ OneEach(MSHR'[c])
             /\ IsFiniteSet(MSHR'[c]) /\ Cardinality(MSHR'[c]) <= MshrSize[c]
             /\ \A k, u : In(MSHR'[c], k, Wanted(u)) <=> In(m[c], k, Wanted(u))
             /\ \A k : In(MSHR'[c], k, Open) <=> In(m[c], k, Open) /\ ~(c \in us /\ k = l)
             /\ \A k : (\E e \in MSHR'[c] : e.line = k) <=> (\E e \in m[c] : e.line = k)
             /\ \A k, i : In(MSHR'[c], k, Holding(i)) <=> In(m[c], k, Holding(i))
             /\ c \in us => \A e \in MSHR'[c] : e.line = l => e.returned
  <2>1. /\ m[c] \in SUBSET Misses(c) /\ OneEach(m[c])
        /\ IsFiniteSet(m[c]) /\ Cardinality(m[c]) <= MshrSize[c] /\ MshrSize[c] \in Nat
    BY CacheAssumption DEF MissesTyped
  <2>2. CASE c \in us
    <3>1. MSHR'[c] = Marked(m[c], l)
      BY <1>1, <2>2
    <3>2. /\ Marked(m[c], l) \subseteq Misses(c) /\ OneEach(Marked(m[c], l))
          /\ IsFiniteSet(Marked(m[c], l)) /\ Cardinality(Marked(m[c], l)) <= Cardinality(m[c])
          /\ \A k, u : In(Marked(m[c], l), k, Wanted(u)) <=> In(m[c], k, Wanted(u))
          /\ \A k : In(Marked(m[c], l), k, Open) <=> In(m[c], k, Open) /\ k # l
          /\ \A k : (\E e \in Marked(m[c], l) : e.line = k) <=> (\E e \in m[c] : e.line = k)
          /\ \A k, i : In(Marked(m[c], l), k, Holding(i)) <=> In(m[c], k, Holding(i))
          /\ \A e \in Marked(m[c], l) : e.line = l => e.returned
      BY <2>1, MarkedMisses
    <3>3. Cardinality(Marked(m[c], l)) \in Nat /\ Cardinality(m[c]) \in Nat
      BY <2>1, <3>2, FS_CardinalityType
    <3>4. QED
      BY <2>1, <2>2, <3>1, <3>2, <3>3
  <2>3. CASE c \notin us
    BY <1>1, <2>1, <2>3
  <2>4. QED
    BY <2>2, <2>3
<1>4. MissesTyped(MSHR')
  BY <1>2, <1>3 DEF MissesTyped
<1>5. SameMisses(MSHR', m)
  <2>1. \A u \in Inner : \A k : InMisses(MSHR', u, k) <=> InMisses(m, u, k)
    BY <1>3, LowerOf DEF InMisses
  <2>2. QED
    BY <1>3, <2>1 DEF SameMisses
<1>6. Answered(MSHR', m, us, l)
  BY <1>3 DEF Waits, Answered
<1>7. NextGood(MSHR', nextFill')
  <2>1. PICK keep \in BOOLEAN :
          nextFill' = [c \in Caches |-> IF c \in us /\ ~(keep /\ n[c] # 0) THEN l ELSE n[c]]
    BY DEF return_data
  <2>2. ASSUME NEW c \in Caches
        PROVE  /\ nextFill'[c] \in Lines \cup {0}
               /\ IF nextFill'[c] = 0 THEN \A e \in MSHR'[c] : ~e.returned
                  ELSE \E e \in MSHR'[c] : e.line = nextFill'[c] /\ e.returned
    <3>1. /\ n[c] \in Lines \cup {0}
          /\ IF n[c] = 0 THEN \A e \in m[c] : ~e.returned
             ELSE \E e \in m[c] : e.line = n[c] /\ e.returned
      BY DEF NextGood
    <3>2. CASE c \notin us
      <4>1. nextFill'[c] = n[c] /\ MSHR'[c] = m[c]
        BY <1>1, <2>1, <3>2
      <4>2. QED
        BY <3>1, <4>1
    <3>3. CASE c \in us /\ nextFill'[c] = l
      <4>1. PICK e \in MSHR'[c] : e.line = l
        BY <1>3, <3>3
      <4>2. e.returned
        BY <1>3, <3>3, <4>1
      <4>3. QED
        BY <3>3, <4>1, <4>2, LinesNotZero
    <3>4. CASE c \in us /\ nextFill'[c] # l
      <4>1. nextFill'[c] = n[c] /\ n[c] # 0
        BY <2>1, <3>4
      <4>2. PICK e \in m[c] : e.line = n[c] /\ e.returned
        BY <3>1, <4>1
      <4>3. e.line # l
        BY <3>4, <4>1, <4>2
      <4>4. e \in MSHR'[c]
        BY <1>1, <3>4, <4>3 DEF Marked
      <4>5. QED
        BY <3>1, <4>1, <4>2, <4>4
    <3>5. QED
      BY <3>2, <3>3, <3>4
  <2>3. nextFill' = [c \in Caches |-> nextFill'[c]]
    BY <2>1
  <2>4. QED
    BY <2>2, <2>3 DEF NextGood
<1>8. QED
  BY <1>4, <1>5, <1>6, <1>7

(* What a queue asks for after a request was given to it.                  *)
LEMMA ReadAdded ==
  ASSUME NEW c \in Caches, NEW t \in Seq(Reads(c)), Distinct(t), Len(t) <= RqSize[c],
         NEW p \in Reads(c), NEW r, r = Added(t, p, RqSize[c], MergedRead(Older(t, p), p))
  PROVE  /\ r \in Seq(Reads(c)) /\ Distinct(r) /\ Len(r) <= RqSize[c]
         /\ Refused(r, t, p, RqSize[c]) \/ (Asks(Range(r), Range(t), p) /\ Holds(Range(r), Range(t), p))
<1> DEFINE old == Older(t, p)
           new == MergedRead(old, p)
<1>1. RqSize[c] \in Nat /\ OneEach(Range(t))
  BY CacheAssumption DEF OneEach, Range, Distinct
<1>2. ASSUME Queued(t, p) # {}
      PROVE  /\ old \in Range(t) /\ old \in Reads(c) /\ old.line = p.line
             /\ new \in Reads(c) /\ new.line = p.line /\ new.deps = old.deps \cup p.deps
             /\ \A u \in Inner : new \in Wanted(u) <=> old \in Wanted(u) \/ p \in Wanted(u)
  <2>1. old \in Range(t) /\ old \in Reads(c) /\ old.line = p.line
    BY <1>2, OlderQueued
  <2> HIDE DEF old
  <2>2. QED
    BY <2>1, MergedReadPacket
<1> HIDE DEF old, new
<1>3. r = Added(t, p, RqSize[c], new)
  BY DEF new, old
<1>4. CASE Queued(t, p) # {}
  <2>0. /\ r \in Seq(Reads(c)) /\ Distinct(r) /\ Len(r) = Len(t)
        /\ Range(r) = (Range(t) \ {old}) \cup {new}
    <3>1. new \in Reads(c) /\ new.line = p.line /\ old = Older(t, p)
      BY <1>2, <1>4 DEF old
    <3>2. QED
      BY <1>3, <1>4, <3>1, QueueMerged
  <2>1. \A k, A : In(Range(r), k, A) <=> IF k = p.line THEN new \in A ELSE In(Range(t), k, A)
    <3>1. old \in Range(t) /\ new.line = old.line /\ old.line = p.line
      BY <1>2, <1>4
    <3>2. \A k, A : In((Range(t) \ {old}) \cup {new}, k, A) <=>
                      IF k = old.line THEN new \in A ELSE In(Range(t), k, A)
      BY <1>1, <3>1, InReplace
    <3>3. QED
      BY <2>0, <3>1, <3>2
  <2>2. \A A : In(Range(t), p.line, A) <=> old \in A
    BY <1>1, <1>2, <1>4, InIs
  <2>3. \A i : new \in Holding(i) <=> old \in Holding(i) \/ p \in Holding(i)
    BY <1>2, <1>4 DEF Holding, Reads
  <2>4. QED
    BY <1>2, <1>4, <2>0, <2>1, <2>2, <2>3 DEF Asks, Holds
<1>5. CASE Queued(t, p) = {} /\ Len(t) # RqSize[c]
  <2>1. /\ r \in Seq(Reads(c)) /\ Distinct(r) /\ Len(r) <= RqSize[c]
        /\ Range(r) = Range(t) \cup {p} /\ \A e \in Range(t) : e.line # p.line
    BY <1>1, <1>3, <1>5, QueueGrown
  <2>2. \A k, A : In(Range(t) \cup {p}, k, A) <=> In(Range(t), k, A) \/ (k = p.line /\ p \in A)
    BY <1>1, <2>1, InInsert
  <2>3. QED
    BY <2>1, <2>2 DEF Asks, Holds
<1>6. CASE Queued(t, p) = {} /\ Len(t) = RqSize[c]
  BY <1>1, <1>3, <1>6, QueueGrown DEF Refused
<1>7. QED
  BY <1>4, <1>5, <1>6

(* add_pq(): the prefetch is refused, or the queue now asks for its line   *)
(* too.                                                                    *)
LEMMA PrefAdded ==
  ASSUME NEW c \in Caches, NEW t \in Seq(Prefs(c)), Distinct(t), Len(t) <= PqSize[c],
         NEW p \in Prefs(c), NEW r, r = Added(t, p, PqSize[c], MergedPrefetch(Older(t, p), p))
  PROVE  /\ r \in Seq(Prefs(c)) /\ Distinct(r) /\ Len(r) <= PqSize[c]
         /\ Refused(r, t, p, PqSize[c]) \/ (Asks(Range(r), Range(t), p))
<1> DEFINE old == Older(t, p)
           new == MergedPrefetch(old, p)
<1>1. PqSize[c] \in Nat /\ OneEach(Range(t))
  BY CacheAssumption DEF OneEach, Range, Distinct
<1>2. ASSUME Queued(t, p) # {}
      PROVE  /\ old \in Range(t) /\ old \in Prefs(c) /\ old.line = p.line
             /\ new \in Prefs(c) /\ new.line = p.line
             /\ \A u \in Inner : new \in Wanted(u) <=> old \in Wanted(u) \/ p \in Wanted(u)
  <2>1. old \in Range(t) /\ old \in Prefs(c) /\ old.line = p.line
    BY <1>2, OlderQueued
  <2> HIDE DEF old
  <2>2. QED
    BY <2>1, MergedPrefetchPacket
<1> HIDE DEF old, new
<1>3. r = Added(t, p, PqSize[c], new)
  BY DEF new, old
<1>4. CASE Queued(t, p) # {}
  <2>0. /\ r \in Seq(Prefs(c)) /\ Distinct(r) /\ Len(r) = Len(t)
        /\ Range(r) = (Range(t) \ {old}) \cup {new}
    <3>1. new \in Prefs(c) /\ new.line = p.line /\ old = Older(t, p)
      BY <1>2, <1>4 DEF old
    <3>2. QED
      BY <1>3, <1>4, <3>1, QueueMerged
  <2>1. \A k, A : In(Range(r), k, A) <=> IF k = p.line THEN new \in A ELSE In(Range(t), k, A)
    <3>1. old \in Range(t) /\ new.line = old.line /\ old.line = p.line
      BY <1>2, <1>4
    <3>2. \A k, A : In((Range(t) \ {old}) \cup {new}, k, A) <=>
                      IF k = old.line THEN new \in A ELSE In(Range(t), k, A)
      BY <1>1, <3>1, InReplace
    <3>3. QED
      BY <2>0, <3>1, <3>2
  <2>2. \A A : In(Range(t), p.line, A) <=> old \in A
    BY <1>1, <1>2, <1>4, InIs
  <2>4. QED
    BY <1>2, <1>4, <2>0, <2>1, <2>2 DEF Asks
<1>5. CASE Queued(t, p) = {} /\ Len(t) # PqSize[c]
  <2>1. /\ r \in Seq(Prefs(c)) /\ Distinct(r) /\ Len(r) <= PqSize[c]
        /\ Range(r) = Range(t) \cup {p} /\ \A e \in Range(t) : e.line # p.line
    BY <1>1, <1>3, <1>5, QueueGrown
  <2>2. \A k, A : In(Range(t) \cup {p}, k, A) <=> In(Range(t), k, A) \/ (k = p.line /\ p \in A)
    BY <1>1, <2>1, InInsert
  <2>3. QED
    BY <2>1, <2>2 DEF Asks
<1>6. CASE Queued(t, p) = {} /\ Len(t) = PqSize[c]
  BY <1>1, <1>3, <1>6, QueueGrown DEF Refused
<1>7. QED
  BY <1>4, <1>5, <1>6

(* add_rq(): the request is answered at once from the write queue, or is   *)
(* queued.                                                                 *)
LEMMA AskRead ==
  ASSUME NEW c \in Caches, NEW p \in Reads(c), NEW r, NEW m,
         ReadsTyped(r), MissesTyped(m), NextGood(m, nextFill),
         \A u \in Caches : u \in Uppers(c, p) => \E e \in m[u] : e.line = p.line,
         add_rq(c, p, r, m)
  PROVE  /\ ReadsTyped(RQ') /\ MissesTyped(MSHR') /\ NextGood(MSHR', nextFill')
         /\ SameMisses(MSHR', m)
         /\ \A d \in Caches : d # c => RQ'[d] = r[d]
         /\ \/ /\ QueuedWrites(c, p) # {} /\ RQ' = r
               /\ Answered(MSHR', m, Uppers(c, p), p.line)
            \/ /\ QueuedWrites(c, p) = {} /\ MSHR' = m
               /\ \/ Refused(RQ'[c], r[c], p, RqSize[c])
                  \/ Asks(Range(RQ'[c]), Range(r[c]), p) /\ Holds(Range(RQ'[c]), Range(r[c]), p)
<1>1. p.line \in Lines
  BY DEF Reads, PacketSet
<1>2. CASE QueuedWrites(c, p) # {}
  <2> DEFINE us == Uppers(c, p)  l == p.line
  <2>1. return_data(us, l, m, nextFill) /\ RQ' = r
    BY <1>2 DEF add_rq
  <2>2. l \in Lines /\ \A u \in Caches : u \in us => \E e \in m[u] : e.line = l
    BY <1>1
  <2> HIDE DEF us, l
  <2>3. /\ MissesTyped(MSHR') /\ NextGood(MSHR', nextFill')
        /\ SameMisses(MSHR', m) /\ Answered(MSHR', m, us, l)
    BY <2>1, <2>2, Returned
  <2>4. QED
    BY <1>2, <2>1, <2>3 DEF us, l
<1>3. CASE QueuedWrites(c, p) = {}
  <2> DEFINE t == Added(r[c], p, RqSize[c], MergedRead(Older(r[c], p), p))
  <2>1. MSHR' = m /\ nextFill' = nextFill /\ RQ' = [r EXCEPT ![c] = t]
    BY <1>3 DEF add_rq
  <2>2. r = [d \in Caches |-> r[d]] /\ r[c] \in Seq(Reads(c)) /\ Distinct(r[c]) /\ Len(r[c]) <= RqSize[c]
    BY DEF ReadsTyped
  <2>3. /\ t \in Seq(Reads(c)) /\ Distinct(t) /\ Len(t) <= RqSize[c]
        /\ Refused(t, r[c], p, RqSize[c]) \/ (Asks(Range(t), Range(r[c]), p) /\ Holds(Range(t), Range(r[c]), p))
    <3> DEFINE s == r[c]
    <3>1. s \in Seq(Reads(c)) /\ Distinct(s) /\ Len(s) <= RqSize[c]
          /\ t = Added(s, p, RqSize[c], MergedRead(Older(s, p), p))
      BY <2>2
    <3> HIDE DEF s, t
    <3>2. /\ t \in Seq(Reads(c)) /\ Distinct(t) /\ Len(t) <= RqSize[c]
          /\ Refused(t, s, p, RqSize[c]) \/ (Asks(Range(t), Range(s), p) /\ Holds(Range(t), Range(s), p))
      BY <3>1, ReadAdded
    <3>3. QED
      BY <3>2 DEF s
  <2> HIDE DEF t
  <2>4. RQ' = [d \in Caches |-> RQ'[d]] /\ RQ'[c] = t /\ \A d \in Caches : d # c => RQ'[d] = r[d]
    BY <2>1, <2>2, EntryChanged
  <2>5. ReadsTyped(RQ')
    <3>1. \A d \in Caches : RQ'[d] \in Seq(Reads(d)) /\ Distinct(RQ'[d]) /\ Len(RQ'[d]) <= RqSize[d]
      <4>1. TAKE d \in Caches
      <4>2. CASE d = c
        BY <2>3, <2>4, <4>2
      <4>3. CASE d # c
        BY <2>4, <4>3 DEF ReadsTyped
      <4>4. QED
        BY <4>2, <4>3
    <3>2. QED
      BY <2>4, <3>1 DEF ReadsTyped
  <2>6. SameMisses(MSHR', m)
    BY <2>1 DEF SameMisses
  <2>7. QED
    BY <1>3, <2>1, <2>3, <2>4, <2>5, <2>6
<1>4. QED
  BY <1>2, <1>3

(* add_pq() likewise.                                                      *)
LEMMA AskPrefetch ==
  ASSUME NEW c \in Caches, NEW p \in Prefs(c), NEW q, NEW m,
         PrefsTyped(q), MissesTyped(m), NextGood(m, nextFill),
         \A u \in Caches : u \in Uppers(c, p) => \E e \in m[u] : e.line = p.line,
         add_pq(c, p, q, m)
  PROVE  /\ PrefsTyped(PQ') /\ MissesTyped(MSHR') /\ NextGood(MSHR', nextFill')
         /\ SameMisses(MSHR', m)
         /\ \A d \in Caches : d # c => PQ'[d] = q[d]
         /\ \/ /\ QueuedWrites(c, p) # {} /\ PQ' = q
               /\ Answered(MSHR', m, Uppers(c, p), p.line)
            \/ /\ QueuedWrites(c, p) = {} /\ MSHR' = m
               /\ \/ Refused(PQ'[c], q[c], p, PqSize[c])
                  \/ Asks(Range(PQ'[c]), Range(q[c]), p)
<1>1. p.line \in Lines
  BY DEF Prefs, PacketSet
<1>2. CASE QueuedWrites(c, p) # {}
  <2> DEFINE us == Uppers(c, p)  l == p.line
  <2>1. return_data(us, l, m, nextFill) /\ PQ' = q
    BY <1>2 DEF add_pq
  <2>2. l \in Lines /\ \A u \in Caches : u \in us => \E e \in m[u] : e.line = l
    BY <1>1
  <2> HIDE DEF us, l
  <2>3. /\ MissesTyped(MSHR') /\ NextGood(MSHR', nextFill')
        /\ SameMisses(MSHR', m) /\ Answered(MSHR', m, us, l)
    BY <2>1, <2>2, Returned
  <2>4. QED
    BY <1>2, <2>1, <2>3 DEF us, l
<1>3. CASE QueuedWrites(c, p) = {}
  <2> DEFINE t == Added(q[c], p, PqSize[c], MergedPrefetch(Older(q[c], p), p))
  <2>1. MSHR' = m /\ nextFill' = nextFill /\ PQ' = [q EXCEPT ![c] = t]
    BY <1>3 DEF add_pq
  <2>2. q = [d \in Caches |-> q[d]] /\ q[c] \in Seq(Prefs(c)) /\ Distinct(q[c]) /\ Len(q[c]) <= PqSize[c]
    BY DEF PrefsTyped
  <2>3. /\ t \in Seq(Prefs(c)) /\ Distinct(t) /\ Len(t) <= PqSize[c]
        /\ Refused(t, q[c], p, PqSize[c]) \/ (Asks(Range(t), Range(q[c]), p))
    <3> DEFINE s == q[c]
    <3>1. s \in Seq(Prefs(c)) /\ Distinct(s) /\ Len(s) <= PqSize[c]
          /\ t = Added(s, p, PqSize[c], MergedPrefetch(Older(s, p), p))
      BY <2>2
    <3> HIDE DEF s, t
    <3>2. /\ t \in Seq(Prefs(c)) /\ Distinct(t) /\ Len(t) <= PqSize[c]
          /\ Refused(t, s, p, PqSize[c]) \/ (Asks(Range(t), Range(s), p))
      BY <3>1, PrefAdded
    <3>3. QED
      BY <3>2 DEF s
  <2> HIDE DEF t
  <2>4. PQ' = [d \in Caches |-> PQ'[d]] /\ PQ'[c] = t /\ \A d \in Caches : d # c => PQ'[d] = q[d]
    BY <2>1, <2>2, EntryChanged
  <2>5. PrefsTyped(PQ')
    <3>1. \A d \in Caches : PQ'[d] \in Seq(Prefs(d)) /\ Distinct(PQ'[d]) /\ Len(PQ'[d]) <= PqSize[d]
      <4>1. TAKE d \in Caches
      <4>2. CASE d = c
        BY <2>3, <2>4, <4>2
      <4>3. CASE d # c
        BY <2>4, <4>3 DEF PrefsTyped
      <4>4. QED
        BY <4>2, <4>3
    <3>2. QED
      BY <2>4, <3>1 DEF PrefsTyped
  <2>6. SameMisses(MSHR', m)
    BY <2>1 DEF SameMisses
  <2>7. QED
    BY <1>3, <2>1, <2>3, <2>4, <2>5, <2>6
<1>4. QED
  BY <1>2, <1>3

(* What a step does to the packets of a cache: one leaves, is new, or is   *)
(* exchanged for another of its line.                                      *)
Drops(S2, S, p) ==
  /\ \A k, A : In(S2, k, A) <=> In(S, k, A) /\ k # p.line
  /\ \A A : In(S, p.line, A) <=> p \in A

Adds(S2, S, p) ==
  /\ \A k, A : In(S2, k, A) <=> In(S, k, A) \/ (k = p.line /\ p \in A)
  /\ \A A : ~In(S, p.line, A)

Swaps(S2, S, e, p) ==
  /\ \A k, A : In(S2, k, A) <=> IF k = e.line THEN p \in A ELSE In(S, k, A)
  /\ \A A : In(S, e.line, A) <=> e \in A

Others(f, g, c) == \A d \in Caches : d # c => f[d] = g[d]

(* The head of a read queue leaves it.                                     *)
LEMMA PoppedRead ==
  ASSUME ReadsTyped(RQ), NEW c \in Caches, RQ[c] # <<>>, NEW r, r = Popped(RQ, c)
  PROVE  /\ Head(RQ[c]) \in Reads(c) /\ ReadsTyped(r) /\ Others(r, RQ, c)
         /\ Drops(Range(r[c]), Range(RQ[c]), Head(RQ[c]))
<1> DEFINE q == RQ[c]  p == Head(RQ[c])
<1>1. q \in Seq(Reads(c)) /\ Distinct(q) /\ Len(q) <= RqSize[c] /\ RqSize[c] \in Nat /\ q # <<>>
  BY CacheAssumption DEF ReadsTyped
<1>2. r = [d \in Caches |-> r[d]] /\ r[c] = Tail(q) /\ \A d \in Caches : d # c => r[d] = RQ[d]
  <2>1. RQ = [d \in Caches |-> RQ[d]] /\ r = [RQ EXCEPT ![c] = Tail(q)]
    BY DEF ReadsTyped, Popped
  <2>2. QED
    BY <2>1, EntryChanged
<1> HIDE DEF q
<1>3. /\ Head(q) \in Range(q) /\ Head(q) \in Reads(c) /\ OneEach(Range(q))
      /\ Tail(q) \in Seq(Reads(c)) /\ Distinct(Tail(q)) /\ Len(Tail(q)) = Len(q) - 1
      /\ Range(Tail(q)) = Range(q) \ {Head(q)} /\ Len(q) \in Nat \ {0}
  BY <1>1, QueueHead
<1>4. ASSUME NEW d \in Caches
      PROVE  r[d] \in Seq(Reads(d)) /\ Distinct(r[d]) /\ Len(r[d]) <= RqSize[d]
  <2>1. CASE d = c
    <3>1. Len(Tail(q)) <= RqSize[c]
      BY <1>1, <1>3
    <3>2. QED
      BY <1>2, <1>3, <2>1, <3>1
  <2>2. CASE d # c
    BY <1>2, <2>2 DEF ReadsTyped
  <2>3. QED
    BY <2>1, <2>2
<1>5. Drops(Range(r[c]), Range(q), Head(q))
  <2>1. \A k, A : In(Range(q) \ {Head(q)}, k, A) <=> In(Range(q), k, A) /\ k # Head(q).line
    BY <1>3, InRemove
  <2>2. \A A : In(Range(q), Head(q).line, A) <=> Head(q) \in A
    BY <1>3, InIs
  <2>3. QED
    BY <1>2, <1>3, <2>1, <2>2 DEF Drops
<1>6. QED
  BY <1>2, <1>3, <1>4, <1>5 DEF ReadsTyped, Others, q

(* The head of a prefetch queue leaves it.                                 *)
LEMMA PoppedPrefetch ==
  ASSUME PrefsTyped(PQ), NEW c \in Caches, PQ[c] # <<>>, NEW r, r = Popped(PQ, c)
  PROVE  /\ Head(PQ[c]) \in Prefs(c) /\ PrefsTyped(r) /\ Others(r, PQ, c)
         /\ Drops(Range(r[c]), Range(PQ[c]), Head(PQ[c]))
<1> DEFINE q == PQ[c]  p == Head(PQ[c])
<1>1. q \in Seq(Prefs(c)) /\ Distinct(q) /\ Len(q) <= PqSize[c] /\ PqSize[c] \in Nat /\ q # <<>>
  BY CacheAssumption DEF PrefsTyped
<1>2. r = [d \in Caches |-> r[d]] /\ r[c] = Tail(q) /\ \A d \in Caches : d # c => r[d] = PQ[d]
  <2>1. PQ = [d \in Caches |-> PQ[d]] /\ r = [PQ EXCEPT ![c] = Tail(q)]
    BY DEF PrefsTyped, Popped
  <2>2. QED
    BY <2>1, EntryChanged
<1> HIDE DEF q
<1>3. /\ Head(q) \in Range(q) /\ Head(q) \in Prefs(c) /\ OneEach(Range(q))
      /\ Tail(q) \in Seq(Prefs(c)) /\ Distinct(Tail(q)) /\ Len(Tail(q)) = Len(q) - 1
      /\ Range(Tail(q)) = Range(q) \ {Head(q)} /\ Len(q) \in Nat \ {0}
  BY <1>1, QueueHead
<1>4. ASSUME NEW d \in Caches
      PROVE  r[d] \in Seq(Prefs(d)) /\ Distinct(r[d]) /\ Len(r[d]) <= PqSize[d]
  <2>1. CASE d = c
    <3>1. Len(Tail(q)) <= PqSize[c]
      BY <1>1, <1>3
    <3>2. QED
      BY <1>2, <1>3, <2>1, <3>1
  <2>2. CASE d # c
    BY <1>2, <2>2 DEF PrefsTyped
  <2>3. QED
    BY <2>1, <2>2
<1>5. Drops(Range(r[c]), Range(q), Head(q))
  <2>1. \A k, A : In(Range(q) \ {Head(q)}, k, A) <=> In(Range(q), k, A) /\ k # Head(q).line
    BY <1>3, InRemove
  <2>2. \A A : In(Range(q), Head(q).line, A) <=> Head(q) \in A
    BY <1>3, InIs
  <2>3. QED
    BY <1>2, <1>3, <2>1, <2>2 DEF Drops
<1>6. QED
  BY <1>2, <1>3, <1>4, <1>5 DEF PrefsTyped, Others, q

(* The misses of one cache change.                                         *)
LEMMA MissesChanged ==
  ASSUME MissesTyped(MSHR), NEW c \in Caches, NEW S \in SUBSET Misses(c), OneEach(S),
         IsFiniteSet(S), Cardinality(S) <= MshrSize[c], NEW m, m = [MSHR EXCEPT ![c] = S]
  PROVE  MissesTyped(m) /\ Others(m, MSHR, c) /\ m[c] = S
<1>1. m = [d \in Caches |-> m[d]] /\ m[c] = S /\ \A d \in Caches : d # c => m[d] = MSHR[d]
  <2>1. MSHR = [d \in Caches |-> MSHR[d]]
    BY DEF MissesTyped
  <2>2. QED
    BY <2>1, EntryChanged
<1>2. ASSUME NEW d \in Caches
      PROVE  /\ m[d] \in SUBSET Misses(d) /\ OneEach(m[d])
             /\ IsFiniteSet(m[d]) /\ Cardinality(m[d]) <= MshrSize[d]
  <2>1. CASE d = c
    BY <1>1, <2>1
  <2>2. CASE d # c
    BY <1>1, <2>2 DEF MissesTyped
  <2>3. QED
    BY <2>1, <2>2
<1>3. QED
  BY <1>1, <1>2 DEF MissesTyped, Others

(* A miss leaves an MSHR, which keeps its size and its distinct lines.     *)
LEMMA MissLeaves ==
  ASSUME MissesTyped(MSHR), NEW c \in Caches, NEW e \in MSHR[c], NEW m,
         m = [MSHR EXCEPT ![c] = @ \ {e}]
  PROVE  /\ MissesTyped(m) /\ Others(m, MSHR, c) /\ m[c] = MSHR[c] \ {e}
         /\ Drops(m[c], MSHR[c], e) /\ e \in Misses(c)
<1> DEFINE S == MSHR[c]  T == S \ {e}
<1>1. S \in SUBSET Misses(c) /\ OneEach(S) /\ IsFiniteSet(S) /\ Cardinality(S) <= MshrSize[c]
      /\ MshrSize[c] \in Nat /\ e \in S
  BY CacheAssumption DEF MissesTyped
<1>2. IsFiniteSet(T) /\ Cardinality(T) = Cardinality(S) - 1 /\ Cardinality(S) \in Nat
  BY <1>1, FS_RemoveElement, FS_CardinalityType
<1>3. OneEach(T) /\ \A k, A : In(T, k, A) <=> In(S, k, A) /\ k # e.line
  BY <1>1, InRemove
<1>4. \A A : In(S, e.line, A) <=> e \in A
  BY <1>1, InIs
<1>5. m = [MSHR EXCEPT ![c] = T] /\ T \in SUBSET Misses(c) /\ Cardinality(T) <= MshrSize[c]
  BY <1>1, <1>2
<1>6. MissesTyped(m) /\ Others(m, MSHR, c) /\ m[c] = T
  BY <1>2, <1>3, <1>5, MissesChanged
<1>7. QED
  BY <1>1, <1>3, <1>4, <1>6 DEF Drops

(* A new line enters an MSHR that has room, not returned yet.              *)
LEMMA MissEnters ==
  ASSUME MissesTyped(MSHR), NextGood(MSHR, nextFill), NEW c \in Caches, NEW p \in Misses(c),
         ~p.returned, InMshr(c, p.line) = {}, Cardinality(MSHR[c]) < MshrSize[c],
         NEW m, m = [MSHR EXCEPT ![c] = @ \cup {p}]
  PROVE  /\ MissesTyped(m) /\ Others(m, MSHR, c) /\ m[c] = MSHR[c] \cup {p}
         /\ Adds(m[c], MSHR[c], p) /\ NextGood(m, nextFill)
<1> DEFINE S == MSHR[c]  T == S \cup {p}
<1>1. S \in SUBSET Misses(c) /\ OneEach(S) /\ IsFiniteSet(S) /\ MshrSize[c] \in Nat
  BY CacheAssumption DEF MissesTyped
<1>2. \A e \in S : e.line # p.line
  BY DEF InMshr
<1>3. p \notin S
  BY <1>2
<1>4. IsFiniteSet(T) /\ Cardinality(T) = Cardinality(S) + 1 /\ Cardinality(S) \in Nat
  BY <1>1, <1>3, FS_AddElement, FS_CardinalityType
<1>5. OneEach(T) /\ \A k, A : In(T, k, A) <=> In(S, k, A) \/ (k = p.line /\ p \in A)
  BY <1>1, <1>2, InInsert
<1>6. \A A : ~In(S, p.line, A)
  BY <1>2 DEF In
<1>7. m = [MSHR EXCEPT ![c] = T] /\ T \in SUBSET Misses(c) /\ Cardinality(T) <= MshrSize[c]
  BY <1>1, <1>4
<1>8. MissesTyped(m) /\ Others(m, MSHR, c) /\ m[c] = T
  BY <1>4, <1>5, <1>7, MissesChanged
<1>9. NextGood(m, nextFill)
  BY <1>8 DEF NextGood, Others
<1>10. QED
  BY <1>5, <1>6, <1>8, <1>9 DEF Adds

(* A miss is changed for another of its line, returned as much as it was.  *)
LEMMA MissJoined ==
  ASSUME MissesTyped(MSHR), NextGood(MSHR, nextFill), NEW c \in Caches, NEW e \in MSHR[c],
         NEW p \in Misses(c), p.line = e.line, p.returned = e.returned,
         NEW m, m = [MSHR EXCEPT ![c] = (@ \ {e}) \cup {p}]
  PROVE  /\ MissesTyped(m) /\ Others(m, MSHR, c) /\ m[c] = (MSHR[c] \ {e}) \cup {p}
         /\ Swaps(m[c], MSHR[c], e, p) /\ NextGood(m, nextFill)
<1> DEFINE S == MSHR[c]  T == (S \ {e}) \cup {p}
<1>1. S \in SUBSET Misses(c) /\ OneEach(S) /\ IsFiniteSet(S) /\ MshrSize[c] \in Nat /\ e \in S
      /\ Cardinality(S) <= MshrSize[c]
  BY CacheAssumption DEF MissesTyped
<1>2. p \notin S \ {e}
  BY <1>1 DEF OneEach
<1>3. IsFiniteSet(S \ {e}) /\ Cardinality(S \ {e}) = Cardinality(S) - 1 /\ Cardinality(S) \in Nat
  BY <1>1, FS_RemoveElement, FS_CardinalityType
<1>4. IsFiniteSet(T) /\ Cardinality(T) = Cardinality(S \ {e}) + 1
  BY <1>2, <1>3, FS_AddElement
<1>5. OneEach(T) /\ \A k, A : In(T, k, A) <=> IF k = e.line THEN p \in A ELSE In(S, k, A)
  BY <1>1, InReplace
<1>6. \A A : In(S, e.line, A) <=> e \in A
  BY <1>1, InIs
<1>7. m = [MSHR EXCEPT ![c] = T] /\ T \in SUBSET Misses(c) /\ Cardinality(T) <= MshrSize[c]
  BY <1>1, <1>3, <1>4
<1>8. MissesTyped(m) /\ Others(m, MSHR, c) /\ m[c] = T
  <2>1. T \in SUBSET Misses(c) /\ OneEach(T) /\ IsFiniteSet(T) /\ Cardinality(T) <= MshrSize[c]
    BY <1>4, <1>5, <1>7
  <2>2. m = [MSHR EXCEPT ![c] = T]
    BY <1>7
  <2> HIDE DEF S, T
  <2>3. QED
    BY <2>1, <2>2, MissesChanged
<1>9. NextGood(m, nextFill)
  <2>1. ASSUME NEW d \in Caches, d # c
        PROVE  /\ nextFill[d] \in Lines \cup {0}
               /\ IF nextFill[d] = 0 THEN \A f \in m[d] : ~f.returned
                  ELSE \E f \in m[d] : f.line = nextFill[d] /\ f.returned
    BY <1>8, <2>1 DEF NextGood, Others
  <2>2. /\ nextFill[c] \in Lines \cup {0}
        /\ IF nextFill[c] = 0 THEN \A f \in S : ~f.returned
           ELSE \E f \in S : f.line = nextFill[c] /\ f.returned
    BY DEF NextGood
  <2>3. /\ nextFill[c] \in Lines \cup {0}
        /\ IF nextFill[c] = 0 THEN \A f \in T : ~f.returned
           ELSE \E f \in T : f.line = nextFill[c] /\ f.returned
    BY <1>1, <2>2
  <2>4. nextFill = [d \in Caches |-> nextFill[d]]
    BY DEF NextGood
  <2>5. QED
    BY <1>8, <2>1, <2>3, <2>4 DEF NextGood
<1>10. QED
  BY <1>5, <1>6, <1>8, <1>9 DEF Swaps

(* The manager: a read it has accepted and not answered is in one place,   *)
(* and the LLC waits for it.                                               *)
MemInv ==
  /\ queue = [i \in 0 .. NumIndices - 1 |-> queue[i]]
  /\ \A i \in 0 .. NumIndices - 1 : queue[i] \in Seq(Manager!Request)
  /\ due \in Seq(Lines)
  /\ waiting \in [Lines -> {0, 1}]
  /\ \A i \in 0 .. NumIndices - 1 : \A k \in 1 .. Len(queue[i]) :
       ~queue[i][k].isWrite =>
         LET a == queue[i][k].addr IN
         /\ i = a % NumIndices /\ waiting[a] = 1 /\ \A j \in 1 .. Len(due) : due[j] # a
         /\ \A j \in 1 .. Len(queue[i]) : ~queue[i][j].isWrite /\ queue[i][j].addr = a => j = k
  /\ \A j \in 1 .. Len(due) : waiting[due[j]] = 1
  /\ \A j, k \in 1 .. Len(due) : due[j] = due[k] => j = k

(* The queue of DRAM-cache indices a line belongs to.                      *)
LEMMA IndexOf == \A l \in Lines : l % NumIndices \in 0 .. NumIndices - 1
BY CacheAssumption

(* Head and tail, by position.                                             *)
LEMMA Shifted ==
  ASSUME NEW T, NEW s \in Seq(T), s # <<>>
  PROVE  /\ Len(s) \in Nat \ {0} /\ Head(s) = s[1] /\ Head(s) \in T /\ Tail(s) \in Seq(T)
         /\ Len(Tail(s)) = Len(s) - 1
         /\ \A i \in 1 .. Len(Tail(s)) : i + 1 \in 1 .. Len(s) /\ i + 1 # 1 /\ Tail(s)[i] = s[i + 1]
<1>1. Len(s) \in Nat \ {0} /\ Head(s) = s[1] /\ Head(s) \in T
  BY EmptySeq, LenProperties, HeadTailProperties
<1>2. /\ Tail(s) \in Seq(T) /\ Len(Tail(s)) = Len(s) - 1
      /\ \A i \in 1 .. Len(Tail(s)) : Tail(s)[i] = s[i + 1]
  BY HeadTailProperties
<1>3. QED
  BY <1>1, <1>2

(* A sequence gains an element at its end.                                 *)
LEMMA Appended ==
  ASSUME NEW T, NEW s \in Seq(T), NEW e \in T, NEW t, t = Append(s, e)
  PROVE  /\ t \in Seq(T) /\ Len(s) \in Nat /\ Len(t) = Len(s) + 1 /\ t[Len(s) + 1] = e
         /\ \A i \in 1 .. Len(s) : t[i] = s[i]
         /\ \A i \in 1 .. Len(t) : i \in 1 .. Len(s) \/ i = Len(s) + 1
<1>1. Len(s) \in Nat
  BY LenProperties
<1>2. /\ t \in Seq(T) /\ Len(t) = Len(s) + 1 /\ t[Len(s) + 1] = e
      /\ \A i \in 1 .. Len(s) : t[i] = s[i]
  BY AppendProperties
<1>3. QED
  BY <1>1, <1>2

(* A request the manager accepts: a write, or a read of a line that it is  *)
(* not reading.                                                            *)
LEMMA Accepted ==
  ASSUME MemInv, NEW l \in Lines, NEW write \in BOOLEAN, ~write => waiting[l] = 0,
         Manager!Accept([addr |-> l, isWrite |-> write])
  PROVE  /\ MemInv'
         /\ write => waiting' = waiting
         /\ ~write => waiting' = [waiting EXCEPT ![l] = 1]
<1> DEFINE x == l % NumIndices
           new == [addr |-> l, isWrite |-> write]
           t == Append(queue[x], new)
<1>1. x \in 0 .. NumIndices - 1
  BY IndexOf
<1>2. /\ queue' = [queue EXCEPT ![x] = t] /\ due' = due
      /\ waiting' = IF write THEN waiting ELSE [waiting EXCEPT ![l] = @ + 1]
  BY DEF Manager!Accept, Manager!Index
<1>3. waiting \in [Lines -> {0, 1}]
  BY DEF MemInv
<1>4. /\ write => waiting' = waiting
      /\ ~write => waiting' = [waiting EXCEPT ![l] = 1]
      /\ waiting' \in [Lines -> {0, 1}]
      /\ \A a \in Lines : waiting[a] = 1 => waiting'[a] = 1
      /\ ~write => waiting'[l] = 1
  <2>1. CASE write
    BY <1>2, <1>3, <2>1
  <2>2. CASE ~write
    <3>1. waiting' = [waiting EXCEPT ![l] = @ + 1] /\ waiting[l] = 0
      BY <1>2, <2>2
    <3>2. waiting' = [waiting EXCEPT ![l] = 1]
      BY <1>3, <3>1
    <3>3. QED
      BY <1>3, <2>2, <3>2
  <2>3. QED
    BY <2>1, <2>2
<1>5. new \in Manager!Request /\ new.addr = l /\ new.isWrite = write
  BY DEF Manager!Request
<1>6. queue[x] \in Seq(Manager!Request)
  BY <1>1 DEF MemInv
<1> HIDE DEF new
<1>7. /\ t \in Seq(Manager!Request) /\ Len(queue[x]) \in Nat /\ Len(t) = Len(queue[x]) + 1
      /\ t[Len(queue[x]) + 1] = new
      /\ \A i \in 1 .. Len(queue[x]) : t[i] = queue[x][i]
      /\ \A i \in 1 .. Len(t) : i \in 1 .. Len(queue[x]) \/ i = Len(queue[x]) + 1
  BY <1>5, <1>6, Appended
<1> HIDE DEF t
<1>8. queue' = [i \in 0 .. NumIndices - 1 |-> queue'[i]]
      /\ queue'[x] = t /\ \A i \in 0 .. NumIndices - 1 : i # x => queue'[i] = queue[i]
  BY <1>1, <1>2 DEF MemInv
<1>9. \A i \in 0 .. NumIndices - 1 : queue'[i] \in Seq(Manager!Request)
  BY <1>7, <1>8 DEF MemInv
<1>10. \A j \in 1 .. Len(due) : due[j] \in Lines /\ waiting[due[j]] = 1
  BY ElementOfSeq DEF MemInv
<1>11. ASSUME NEW i \in 0 .. NumIndices - 1, NEW k \in 1 .. Len(queue'[i]), ~queue'[i][k].isWrite
       PROVE  LET a == queue'[i][k].addr IN
              /\ i = a % NumIndices /\ waiting'[a] = 1 /\ \A j \in 1 .. Len(due') : due'[j] # a
              /\ \A j \in 1 .. Len(queue'[i]) : ~queue'[i][j].isWrite /\ queue'[i][j].addr = a => j = k
  <2>1. ASSUME NEW j \in 1 .. Len(queue[i]), ~queue[i][j].isWrite
        PROVE  /\ queue[i][j].addr \in Lines
               /\ i = queue[i][j].addr % NumIndices /\ waiting[queue[i][j].addr] = 1
               /\ \A n \in 1 .. Len(due) : due[n] # queue[i][j].addr
               /\ \A n \in 1 .. Len(queue[i]) :
                    ~queue[i][n].isWrite /\ queue[i][n].addr = queue[i][j].addr => n = j
    <3>1. queue[i] \in Seq(Manager!Request)
      BY DEF MemInv
    <3>2. queue[i][j] \in Manager!Request
      BY <3>1, ElementOfSeq
    <3>3. queue[i][j].addr \in Lines
      BY <3>2 DEF Manager!Request
    <3>4. QED
      BY <2>1, <3>3 DEF MemInv
  <2>2. CASE i # x
    BY <1>2, <1>4, <1>8, <1>11, <2>1, <2>2
  <2>3. CASE i = x /\ k \in 1 .. Len(queue[x])
    <3>1. queue'[i] = t /\ t[k] = queue[i][k] /\ ~queue[i][k].isWrite
      BY <1>7, <1>8, <1>11, <2>3
    <3>2. waiting[queue[i][k].addr] = 1
      BY <2>1, <2>3, <3>1
    <3>3. ~write => queue[i][k].addr # l
      BY <3>2
    <3>4. ASSUME NEW j \in 1 .. Len(t), ~t[j].isWrite, t[j].addr = t[k].addr
          PROVE  j = k
      <4>1. CASE j \in 1 .. Len(queue[x])
        BY <1>7, <2>1, <2>3, <3>1, <3>4, <4>1
      <4>2. CASE j = Len(queue[x]) + 1
        BY <1>5, <1>7, <3>1, <3>3, <3>4, <4>2
      <4>3. QED
        BY <1>7, <4>1, <4>2
    <3>5. QED
      BY <1>2, <1>4, <2>1, <2>3, <3>1, <3>4
  <2>4. CASE i = x /\ k = Len(queue[x]) + 1
    <3>1. queue'[i] = t /\ t[k] = new /\ ~write /\ new.addr = l
      BY <1>5, <1>7, <1>8, <1>11, <2>4
    <3>2. waiting[l] = 0
      BY <3>1
    <3>3. \A j \in 1 .. Len(due) : due[j] # l
      BY <1>10, <3>2
    <3>4. ASSUME NEW j \in 1 .. Len(t), ~t[j].isWrite, t[j].addr = l
          PROVE  j = k
      <4>1. CASE j \in 1 .. Len(queue[x])
        <5>1. ~queue[i][j].isWrite /\ queue[i][j].addr = l
          BY <1>7, <2>4, <3>4, <4>1
        <5>2. waiting[l] = 1
          BY <2>1, <2>4, <4>1, <5>1
        <5>3. QED
          BY <3>2, <5>2
      <4>2. QED
        BY <1>7, <2>4, <4>1
    <3>5. QED
      BY <1>2, <1>4, <2>4, <3>1, <3>3, <3>4
  <2>5. QED
    BY <1>7, <1>8, <2>2, <2>3, <2>4
<1>12. \A j \in 1 .. Len(due') : waiting'[due'[j]] = 1
  BY <1>2, <1>4, <1>10
<1>13. due' \in Seq(Lines) /\ \A j, k \in 1 .. Len(due') : due'[j] = due'[k] => j = k
  BY <1>2 DEF MemInv
<1>14. QED
  BY <1>4, <1>8, <1>9, <1>11, <1>12, <1>13 DEF MemInv

(* The manager answers a read the LLC waits for, or none.                  *)
LEMMA Served ==
  ASSUME MemInv, Manager!Answer \/ \E i \in 0 .. NumIndices - 1 : Manager!Serve(i)
  PROVE  /\ MemInv'
         /\ \/ waiting' = waiting
            \/ \E l \in Lines : waiting[l] = 1 /\ waiting' = [waiting EXCEPT ![l] = 0]
<1>1. /\ queue = [i \in 0 .. NumIndices - 1 |-> queue[i]]
      /\ due \in Seq(Lines) /\ waiting \in [Lines -> {0, 1}]
      /\ \A j \in 1 .. Len(due) : waiting[due[j]] = 1 /\ due[j] \in Lines
      /\ \A j, k \in 1 .. Len(due) : due[j] = due[k] => j = k
      /\ Len(due) \in Nat
  BY ElementOfSeq, LenProperties DEF MemInv
<1>2. ASSUME NEW i \in 0 .. NumIndices - 1
      PROVE  /\ queue[i] \in Seq(Manager!Request)
             /\ \A k \in 1 .. Len(queue[i]) : ~queue[i][k].isWrite =>
                  /\ queue[i][k].addr \in Lines
                  /\ i = queue[i][k].addr % NumIndices /\ waiting[queue[i][k].addr] = 1
                  /\ \A n \in 1 .. Len(due) : due[n] # queue[i][k].addr
                  /\ \A n \in 1 .. Len(queue[i]) :
                       ~queue[i][n].isWrite /\ queue[i][n].addr = queue[i][k].addr => n = k
  <2>1. queue[i] \in Seq(Manager!Request)
    BY DEF MemInv
  <2>2. \A k \in 1 .. Len(queue[i]) : queue[i][k] \in Manager!Request
    BY <2>1, ElementOfSeq
  <2>3. \A k \in 1 .. Len(queue[i]) : queue[i][k].addr \in Lines
    BY <2>2 DEF Manager!Request
  <2>4. QED
    BY <2>1, <2>3 DEF MemInv
<1>3. CASE Manager!Answer
  <2> DEFINE l == Head(due)
  <2>1. /\ due # <<>> /\ due' = Tail(due) /\ queue' = queue
        /\ waiting' = [waiting EXCEPT ![l] = @ - 1]
    BY <1>3 DEF Manager!Answer
  <2>2. /\ Len(due) \in Nat \ {0} /\ l = due[1] /\ l \in Lines /\ due' \in Seq(Lines)
        /\ Len(due') = Len(due) - 1
        /\ \A i \in 1 .. Len(due') : i + 1 \in 1 .. Len(due) /\ i + 1 # 1 /\ due'[i] = due[i + 1]
    BY <1>1, <2>1, Shifted
  <2> HIDE DEF l
  <2>3. waiting[l] = 1 /\ waiting' = [waiting EXCEPT ![l] = 0] /\ waiting' \in [Lines -> {0, 1}]
    <3>1. waiting[l] = 1
      BY <1>1, <2>2
    <3>2. waiting' = [waiting EXCEPT ![l] = 0]
      BY <1>1, <2>1, <2>2, <3>1
    <3>3. QED
      BY <1>1, <2>2, <3>1, <3>2
  <2>4. \A a \in Lines : a # l => waiting'[a] = waiting[a]
    BY <1>1, <2>1
  <2>5. \A j \in 1 .. Len(due') : waiting'[due'[j]] = 1
    <3>1. TAKE j \in 1 .. Len(due')
    <3>2. j + 1 \in 1 .. Len(due) /\ j + 1 # 1 /\ due'[j] = due[j + 1] /\ 1 \in 1 .. Len(due)
      BY <2>2
    <3>3. due[j + 1] # l /\ due[j + 1] \in Lines
      BY <1>1, <2>2, <3>2
    <3>4. QED
      BY <1>1, <2>4, <3>2, <3>3
  <2>6. \A j, k \in 1 .. Len(due') : due'[j] = due'[k] => j = k
    <3>1. TAKE j, k \in 1 .. Len(due')
    <3>2. j + 1 \in 1 .. Len(due) /\ k + 1 \in 1 .. Len(due)
          /\ due'[j] = due[j + 1] /\ due'[k] = due[k + 1]
      BY <2>2
    <3>3. due'[j] = due'[k] => j + 1 = k + 1
      BY <1>1, <3>2
    <3>4. QED
      BY <3>3
  <2>7. ASSUME NEW i \in 0 .. NumIndices - 1, NEW k \in 1 .. Len(queue'[i]), ~queue'[i][k].isWrite
        PROVE  LET a == queue'[i][k].addr IN
               /\ i = a % NumIndices /\ waiting'[a] = 1 /\ \A j \in 1 .. Len(due') : due'[j] # a
               /\ \A j \in 1 .. Len(queue'[i]) : ~queue'[i][j].isWrite /\ queue'[i][j].addr = a => j = k
    <3>1. /\ queue'[i] = queue[i] /\ queue[i][k].addr \in Lines
          /\ i = queue[i][k].addr % NumIndices /\ waiting[queue[i][k].addr] = 1
          /\ \A n \in 1 .. Len(due) : due[n] # queue[i][k].addr
          /\ \A n \in 1 .. Len(queue[i]) :
               ~queue[i][n].isWrite /\ queue[i][n].addr = queue[i][k].addr => n = k
      BY <1>2, <2>1, <2>7
    <3>2. queue[i][k].addr # l
      BY <2>2, <3>1
    <3>3. \A j \in 1 .. Len(due') : due'[j] # queue[i][k].addr
      BY <2>2, <3>1
    <3>4. QED
      BY <2>4, <3>1, <3>2, <3>3
  <2>8. MemInv'
    BY <1>1, <1>2, <2>1, <2>2, <2>3, <2>5, <2>6, <2>7 DEF MemInv
  <2>9. QED
    BY <2>2, <2>3, <2>8
<1>4. ASSUME NEW i \in 0 .. NumIndices - 1, Manager!Serve(i)
      PROVE  /\ MemInv'
             /\ \/ waiting' = waiting
                \/ \E l \in Lines : waiting[l] = 1 /\ waiting' = [waiting EXCEPT ![l] = 0]
  <2> DEFINE s == queue[i]  h == Head(queue[i])
  <2>1. /\ s # <<>> /\ queue' = [queue EXCEPT ![i] = Tail(s)]
        /\ \/ h.isWrite /\ due' = due /\ waiting' = waiting
           \/ ~h.isWrite /\ due' = Append(due, h.addr) /\ waiting' = waiting
           \/ ~h.isWrite /\ due = <<>> /\ waiting' = [waiting EXCEPT ![h.addr] = @ - 1] /\ due' = due
    BY <1>4 DEF Manager!Serve
  <2>2. s \in Seq(Manager!Request)
    BY <1>2
  <2>3. /\ Len(s) \in Nat \ {0} /\ h = s[1] /\ Tail(s) \in Seq(Manager!Request)
        /\ Len(Tail(s)) = Len(s) - 1
        /\ \A n \in 1 .. Len(Tail(s)) : n + 1 \in 1 .. Len(s) /\ n + 1 # 1 /\ Tail(s)[n] = s[n + 1]
    BY <2>1, <2>2, Shifted
  <2>4. queue' = [n \in 0 .. NumIndices - 1 |-> queue'[n]]
        /\ queue'[i] = Tail(s) /\ \A n \in 0 .. NumIndices - 1 : n # i => queue'[n] = queue[n]
    BY <1>1, <2>1
  <2>5. \A n \in 0 .. NumIndices - 1 : queue'[n] \in Seq(Manager!Request)
    BY <1>2, <2>3, <2>4
  (* The reads that are still queued, and that none of them is the head. *)
  <2>6. ASSUME NEW n \in 0 .. NumIndices - 1, NEW k \in 1 .. Len(queue'[n]), ~queue'[n][k].isWrite
        PROVE  /\ queue'[n][k].addr \in Lines
               /\ n = queue'[n][k].addr % NumIndices /\ waiting[queue'[n][k].addr] = 1
               /\ \A j \in 1 .. Len(due) : due[j] # queue'[n][k].addr
               /\ \A j \in 1 .. Len(queue'[n]) :
                    ~queue'[n][j].isWrite /\ queue'[n][j].addr = queue'[n][k].addr => j = k
               /\ ~h.isWrite => queue'[n][k].addr # h.addr
    <3>1. 1 \in 1 .. Len(s)
      BY <2>3
    <3>2. ~h.isWrite => i = h.addr % NumIndices
      BY <1>2, <2>3, <3>1
    <3>3. CASE n # i
      BY <1>2, <2>4, <2>6, <3>2, <3>3
    <3>4. CASE n = i
      <4>1. /\ queue'[n] = Tail(s) /\ k \in 1 .. Len(Tail(s))
            /\ k + 1 \in 1 .. Len(s) /\ k + 1 # 1 /\ Tail(s)[k] = s[k + 1]
        BY <2>3, <2>4, <2>6, <3>4
      <4>2. /\ s[k + 1].addr \in Lines /\ ~s[k + 1].isWrite
            /\ i = s[k + 1].addr % NumIndices /\ waiting[s[k + 1].addr] = 1
            /\ \A j \in 1 .. Len(due) : due[j] # s[k + 1].addr
            /\ \A j \in 1 .. Len(s) : ~s[j].isWrite /\ s[j].addr = s[k + 1].addr => j = k + 1
        BY <1>2, <2>6, <4>1
      <4>3. ASSUME NEW j \in 1 .. Len(Tail(s)), ~Tail(s)[j].isWrite, Tail(s)[j].addr = Tail(s)[k].addr
            PROVE  j = k
        <5>1. j + 1 \in 1 .. Len(s) /\ Tail(s)[j] = s[j + 1]
          BY <2>3
        <5>2. j + 1 = k + 1
          BY <4>1, <4>2, <4>3, <5>1
        <5>3. QED
          BY <4>1, <5>2
      <4>4. ~h.isWrite => s[k + 1].addr # h.addr
        BY <2>3, <3>1, <4>1, <4>2
      <4>5. QED
        BY <3>4, <4>1, <4>2, <4>3, <4>4
    <3>5. QED
      BY <3>3, <3>4
  <2>7. CASE h.isWrite /\ due' = due /\ waiting' = waiting
    BY <1>1, <2>4, <2>5, <2>6, <2>7 DEF MemInv
  <2>8. ASSUME ~h.isWrite
        PROVE  /\ h.addr \in Lines /\ waiting[h.addr] = 1
               /\ \A n \in 1 .. Len(due) : due[n] # h.addr
    <3>1. 1 \in 1 .. Len(s)
      BY <2>3
    <3>2. QED
      BY <1>2, <2>3, <2>8, <3>1
  <2>9. CASE ~h.isWrite /\ due' = Append(due, h.addr) /\ waiting' = waiting
    <3>1. /\ due' \in Seq(Lines) /\ Len(due') = Len(due) + 1 /\ due'[Len(due) + 1] = h.addr
          /\ \A n \in 1 .. Len(due) : due'[n] = due[n]
          /\ \A n \in 1 .. Len(due') : n \in 1 .. Len(due) \/ n = Len(due) + 1
      BY <1>1, <2>8, <2>9, Appended
    <3>2. \A j \in 1 .. Len(due') : waiting'[due'[j]] = 1
      BY <1>1, <2>8, <2>9, <3>1
    <3>3. \A j, k \in 1 .. Len(due') : due'[j] = due'[k] => j = k
      BY <1>1, <2>8, <2>9, <3>1
    <3>4. ASSUME NEW n \in 0 .. NumIndices - 1, NEW k \in 1 .. Len(queue'[n]), ~queue'[n][k].isWrite
          PROVE  \A j \in 1 .. Len(due') : due'[j] # queue'[n][k].addr
      BY <2>6, <2>9, <3>1, <3>4
    <3>5. QED
      BY <1>1, <2>4, <2>5, <2>6, <2>9, <3>1, <3>2, <3>3, <3>4 DEF MemInv
  <2>10. CASE ~h.isWrite /\ due = <<>> /\ waiting' = [waiting EXCEPT ![h.addr] = @ - 1] /\ due' = due
    <3> DEFINE l == h.addr
    <3>1. l \in Lines /\ waiting[l] = 1
      BY <2>8, <2>10
    <3>2. waiting' = [waiting EXCEPT ![l] = 0] /\ waiting' \in [Lines -> {0, 1}]
      BY <1>1, <2>10, <3>1
    <3>3. \A a \in Lines : a # l => waiting'[a] = waiting[a]
      BY <1>1, <3>2
    <3>4. Len(due) = 0
      BY <2>10
    <3>5. \A n \in 0 .. NumIndices - 1 : \A k \in 1 .. Len(queue'[n]) : ~queue'[n][k].isWrite =>
            waiting'[queue'[n][k].addr] = 1
      BY <2>6, <2>10, <3>3
    <3>6. MemInv'
      BY <1>1, <2>4, <2>5, <2>6, <2>10, <3>2, <3>4, <3>5 DEF MemInv
    <3>7. QED
      BY <3>1, <3>2, <3>6
  <2>11. QED
    BY <2>1, <2>7, <2>9, <2>10
<1>5. QED
  BY <1>3, <1>4

(* The same, as the caches above see it.                                   *)

(* What each upper level still has in the read queue below it when the     *)
(* head leaves.                                                            *)
LEMMA ReadLeaves ==
  ASSUME ReadsTyped(RQ), NEW c \in Caches, RQ[c] # <<>>, NEW r, r = Popped(RQ, c),
         NEW p, p = Head(RQ[c])
  PROVE  /\ p \in Reads(c) /\ p \in PacketSet /\ Fits(c, p) /\ p.line \in Lines
         /\ ReadsTyped(r) /\ Others(r, RQ, c)
         /\ \A u \in Inner : \A k : InReads(r, u, k) <=>
                                    InReads(RQ, u, k) /\ ~(Lower[u] = c /\ k = p.line)
         /\ \A u \in Inner : Lower[u] = c => (InReads(RQ, u, p.line) <=> p \in Wanted(u))
<1>1. /\ p \in Reads(c) /\ ReadsTyped(r) /\ Others(r, RQ, c) /\ Drops(Range(r[c]), Range(RQ[c]), p)
  BY PoppedRead
<1>2. p \in PacketSet /\ Fits(c, p) /\ p.line \in Lines
  BY <1>1 DEF Reads, PacketSet
<1>3. ASSUME NEW u \in Inner
      PROVE  /\ \A k : InReads(r, u, k) <=> InReads(RQ, u, k) /\ ~(Lower[u] = c /\ k = p.line)
             /\ Lower[u] = c => (InReads(RQ, u, p.line) <=> p \in Wanted(u))
  <2>1. CASE Lower[u] = c
    BY <1>1, <2>1 DEF InReads, Drops
  <2>2. CASE Lower[u] # c
    BY <1>1, <2>2, LowerOf DEF InReads, Others
  <2>3. QED
    BY <2>1, <2>2
<1>4. QED
  BY <1>1, <1>2, <1>3

(* What each upper level still has in the prefetch queue below it when the *)
(* head leaves.                                                            *)
LEMMA PrefetchLeaves ==
  ASSUME PrefsTyped(PQ), NEW c \in Caches, PQ[c] # <<>>, NEW r, r = Popped(PQ, c),
         NEW p, p = Head(PQ[c])
  PROVE  /\ p \in Prefs(c) /\ p \in PacketSet /\ Fits(c, p) /\ p.line \in Lines
         /\ PrefsTyped(r) /\ Others(r, PQ, c)
         /\ \A u \in Inner : \A k : InPrefs(r, u, k) <=>
                                    InPrefs(PQ, u, k) /\ ~(Lower[u] = c /\ k = p.line)
         /\ \A u \in Inner : Lower[u] = c => (InPrefs(PQ, u, p.line) <=> p \in Wanted(u))
<1>1. /\ p \in Prefs(c) /\ PrefsTyped(r) /\ Others(r, PQ, c) /\ Drops(Range(r[c]), Range(PQ[c]), p)
  BY PoppedPrefetch
<1>2. p \in PacketSet /\ Fits(c, p) /\ p.line \in Lines
  BY <1>1 DEF Prefs, PacketSet
<1>3. ASSUME NEW u \in Inner
      PROVE  /\ \A k : InPrefs(r, u, k) <=> InPrefs(PQ, u, k) /\ ~(Lower[u] = c /\ k = p.line)
             /\ Lower[u] = c => (InPrefs(PQ, u, p.line) <=> p \in Wanted(u))
  <2>1. CASE Lower[u] = c
    BY <1>1, <2>1 DEF InPrefs, Drops
  <2>2. CASE Lower[u] # c
    BY <1>1, <2>2, LowerOf DEF InPrefs, Others
  <2>3. QED
    BY <2>1, <2>2
<1>4. QED
  BY <1>1, <1>2, <1>3

(* What each upper level still has in the MSHR below it when a miss        *)
(* leaves, and which misses are open.                                      *)
LEMMA MissSeenLeaving ==
  ASSUME NEW m, NEW m2, NEW c \in Caches, NEW e, Others(m2, m, c), Drops(m2[c], m[c], e)
  PROVE  /\ \A u \in Inner : \A k : InMisses(m2, u, k) <=>
                                    InMisses(m, u, k) /\ ~(Lower[u] = c /\ k = e.line)
         /\ \A u \in Inner : Lower[u] = c => (InMisses(m, u, e.line) <=> e \in Wanted(u))
         /\ e \notin Open => \A d \in Caches : \A k : Waits(m2, d, k) <=> Waits(m, d, k)
<1>1. ASSUME NEW u \in Inner
      PROVE  /\ \A k : InMisses(m2, u, k) <=> InMisses(m, u, k) /\ ~(Lower[u] = c /\ k = e.line)
             /\ Lower[u] = c => (InMisses(m, u, e.line) <=> e \in Wanted(u))
  <2>1. CASE Lower[u] = c
    BY <2>1 DEF InMisses, Drops
  <2>2. CASE Lower[u] # c
    BY <2>2, LowerOf DEF InMisses, Others
  <2>3. QED
    BY <2>1, <2>2
<1>2. ASSUME e \notin Open, NEW d \in Caches
      PROVE  \A k : Waits(m2, d, k) <=> Waits(m, d, k)
  <2>1. CASE d = c
    BY <1>2, <2>1 DEF Waits, Drops
  <2>2. CASE d # c
    BY <2>2 DEF Waits, Others
  <2>3. QED
    BY <2>1, <2>2
<1>3. QED
  BY <1>1, <1>2

(* What each upper level has in the MSHR below it when a miss enters, and  *)
(* which misses are open.                                                  *)
LEMMA MissSeenEntering ==
  ASSUME NEW m, NEW m2, NEW c \in Caches, NEW p \in Open, Others(m2, m, c), Adds(m2[c], m[c], p)
  PROVE  /\ \A u \in Inner : \A k : InMisses(m2, u, k) <=>
              InMisses(m, u, k) \/ (Lower[u] = c /\ k = p.line /\ p \in Wanted(u))
         /\ \A u \in Inner : Lower[u] = c => ~InMisses(m, u, p.line)
         /\ \A d \in Caches : \A k : Waits(m2, d, k) <=> Waits(m, d, k) \/ (d = c /\ k = p.line)
         /\ ~Waits(m, c, p.line)
<1>1. ASSUME NEW u \in Inner
      PROVE  /\ \A k : InMisses(m2, u, k) <=>
                         InMisses(m, u, k) \/ (Lower[u] = c /\ k = p.line /\ p \in Wanted(u))
             /\ Lower[u] = c => ~InMisses(m, u, p.line)
  <2>1. CASE Lower[u] = c
    BY <2>1 DEF InMisses, Adds
  <2>2. CASE Lower[u] # c
    BY <2>2, LowerOf DEF InMisses, Others
  <2>3. QED
    BY <2>1, <2>2
<1>2. ASSUME NEW d \in Caches
      PROVE  \A k : Waits(m2, d, k) <=> Waits(m, d, k) \/ (d = c /\ k = p.line)
  <2>1. CASE d = c
    BY <2>1 DEF Waits, Adds
  <2>2. CASE d # c
    BY <2>2 DEF Waits, Others
  <2>3. QED
    BY <2>1, <2>2
<1>3. ~Waits(m, c, p.line)
  BY DEF Waits, Adds
<1>4. QED
  BY <1>1, <1>2, <1>3

(* What each upper level has in the MSHR below it when a miss is joined,   *)
(* and which misses are open.                                              *)
LEMMA MissSeenJoined ==
  ASSUME NEW m, NEW m2, NEW c \in Caches, NEW e \in PacketSet, NEW p \in PacketSet,
         p.returned = e.returned, p.line = e.line, Others(m2, m, c), Swaps(m2[c], m[c], e, p)
  PROVE  /\ \A u \in Inner : \A k : InMisses(m2, u, k) <=>
              IF Lower[u] = c /\ k = e.line THEN p \in Wanted(u) ELSE InMisses(m, u, k)
         /\ \A u \in Inner : Lower[u] = c => (InMisses(m, u, e.line) <=> e \in Wanted(u))
         /\ \A d \in Caches : \A k : Waits(m2, d, k) <=> Waits(m, d, k)
<1>1. ASSUME NEW u \in Inner
      PROVE  /\ \A k : InMisses(m2, u, k) <=>
                         IF Lower[u] = c /\ k = e.line THEN p \in Wanted(u) ELSE InMisses(m, u, k)
             /\ Lower[u] = c => (InMisses(m, u, e.line) <=> e \in Wanted(u))
  <2>1. CASE Lower[u] = c
    BY <2>1 DEF InMisses, Swaps
  <2>2. CASE Lower[u] # c
    BY <2>2, LowerOf DEF InMisses, Others
  <2>3. QED
    BY <2>1, <2>2
<1>2. p \in Open <=> e \in Open
  BY DEF Open
<1>3. ASSUME NEW d \in Caches
      PROVE  \A k : Waits(m2, d, k) <=> Waits(m, d, k)
  <2>1. CASE d = c
    BY <1>2, <2>1 DEF Waits, Swaps
  <2>2. CASE d # c
    BY <2>2 DEF Waits, Others
  <2>3. QED
    BY <2>1, <2>2
<1>4. QED
  BY <1>1, <1>3

(* Who wants a packet that a level sends down, or that ends there.         *)
LEMMA WantedBySender ==
  ASSUME NEW c \in Inner, NEW p \in PacketSet, Fits(c, p), NEW u \in Inner, Lower[u] = Lower[c]
  PROVE  p \in Wanted(u) <=> u = c /\ p.fill_level <= FillLevel[c]
<1>1. p.fill_level \in {1, 2, 4} /\ {p.fill_l1i, p.fill_l1d} \subseteq BOOLEAN
  BY DEF PacketSet
<1>2. CASE c = "L2C"
  BY <1>1, <1>2, CacheNames DEF Wanted, Fits
<1>3. CASE c \in {"L1I", "L1D"}
  BY <1>1, <1>3, CacheNames DEF Wanted, Fits
<1>4. QED
  BY <1>2, <1>3, CacheNames

(* A packet that fills no level above a cache is wanted by none.           *)
LEMMA EndsThere ==
  ASSUME NEW c \in Caches, NEW p \in PacketSet, Fits(c, p), p.fill_level >= FillLevel[c],
         NEW u \in Inner, Lower[u] = c
  PROVE  p \notin Wanted(u)
<1>1. p.fill_level \in {1, 2, 4} /\ {p.fill_l1i, p.fill_l1d} \subseteq BOOLEAN
  BY DEF PacketSet
<1>2. QED
  BY <1>1, CacheNames DEF Wanted, Fits

-----------------------------------------------------------------------------
(* The invariant of queues and misses.                                     *)

(* The LLC waits for what the manager says it does.                        *)
WaitLink == \A l \in Lines : waiting[l] = IF Waits(MSHR, "LLC", l) THEN 1 ELSE 0

TablesInv ==
  /\ ReadsTyped(RQ) /\ PrefsTyped(PQ) /\ WritesTyped(WQ)
  /\ MissesTyped(MSHR) /\ NextGood(MSHR, nextFill) /\ Links(RQ, PQ, MSHR)
  /\ MemInv /\ WaitLink

(* What is wanted of a packet below is waited for above.                   *)
LEMMA WantedIsMissed ==
  ASSUME Links(RQ, PQ, MSHR), NEW c \in Caches, NEW p \in PacketSet, Fits(c, p), p.line \in Lines,
         \A u \in Inner : Lower[u] = c /\ p \in Wanted(u) =>
           InReads(RQ, u, p.line) \/ InPrefs(PQ, u, p.line) \/ InMisses(MSHR, u, p.line)
  PROVE  /\ \A u \in Caches : u \in Uppers(c, p) <=> u \in Inner /\ Lower[u] = c /\ p \in Wanted(u)
         /\ \A u \in Caches : u \in Uppers(c, p) => u # c /\ \E e \in MSHR[u] : e.line = p.line
         /\ "LLC" \notin Uppers(c, p)
<1>1. \A u \in Caches : u \in Uppers(c, p) <=> u \in Inner /\ Lower[u] = c /\ p \in Wanted(u)
  BY UppersWant
<1>2. ASSUME NEW u \in Caches, u \in Uppers(c, p)
      PROVE  u # c /\ \E e \in MSHR[u] : e.line = p.line
  <2>1. u \in Inner /\ Lower[u] = c /\ p \in Wanted(u)
    BY <1>1, <1>2
  <2>2. Waits(MSHR, u, p.line)
    BY <2>1 DEF Links, Linked
  <2>3. QED
    BY <2>1, <2>2, LowerOf DEF Waits, In
<1>3. "LLC" \in Caches /\ "LLC" \notin Inner
  BY CacheNames
<1>4. QED
  BY <1>1, <1>2, <1>3

(* A read hit answers the levels that want the line: each has one demand   *)
(* less below it and one open miss less.                                   *)
LEMMA ReadHitStep ==
  ASSUME TablesInv, NEW c \in Caches, ReadHit(c)
  PROVE  TablesInv'
<1> DEFINE p == Head(RQ[c])  l == p.line  us == Uppers(c, p)
<1>1. /\ RQ[c] # <<>> /\ RQ' = Popped(RQ, c) /\ return_data(us, l, MSHR, nextFill)
      /\ UNCHANGED <<PQ, WQ, queue, due, waiting>>
  BY DEF ReadHit, memory
<1>2. /\ ReadsTyped(RQ) /\ PrefsTyped(PQ) /\ WritesTyped(WQ)
      /\ MissesTyped(MSHR) /\ NextGood(MSHR, nextFill) /\ Links(RQ, PQ, MSHR)
      /\ MemInv /\ WaitLink
  BY DEF TablesInv
<1> HIDE DEF p
<1>3. /\ p \in PacketSet /\ Fits(c, p) /\ l \in Lines /\ ReadsTyped(RQ')
      /\ \A u \in Inner : \A k : InReads(RQ', u, k) <=> InReads(RQ, u, k) /\ ~(Lower[u] = c /\ k = l)
      /\ \A u \in Inner : Lower[u] = c => (InReads(RQ, u, l) <=> p \in Wanted(u))
  BY <1>1, <1>2, ReadLeaves DEF p
<1>4. /\ \A u \in Caches : u \in us <=> u \in Inner /\ Lower[u] = c /\ p \in Wanted(u)
      /\ \A u \in Caches : u \in us => u # c /\ \E e \in MSHR[u] : e.line = l
      /\ "LLC" \notin us
  BY <1>2, <1>3, WantedIsMissed
<1> HIDE DEF l, us
<1>5. /\ MissesTyped(MSHR') /\ NextGood(MSHR', nextFill')
      /\ SameMisses(MSHR', MSHR) /\ Answered(MSHR', MSHR, us, l)
  BY <1>1, <1>2, <1>3, <1>4, Returned
<1>6. Links(RQ', PQ', MSHR')
  <2>1. SUFFICES ASSUME NEW u \in Inner, NEW k \in Lines
                 PROVE  Linked(RQ', PQ', MSHR', u, k)
    BY DEF Links
  <2>2. Linked(RQ, PQ, MSHR, u, k)
    BY <1>2 DEF Links
  <2>3. /\ InReads(RQ', u, k) <=> InReads(RQ, u, k) /\ ~(Lower[u] = c /\ k = l)
        /\ Lower[u] = c => (InReads(RQ, u, l) <=> p \in Wanted(u))
        /\ InPrefs(PQ', u, k) <=> InPrefs(PQ, u, k)
        /\ InMisses(MSHR', u, k) <=> InMisses(MSHR, u, k)
        /\ Waits(MSHR', u, k) <=> Waits(MSHR, u, k) /\ ~(Lower[u] = c /\ p \in Wanted(u) /\ k = l)
    BY <1>1, <1>3, <1>4, <1>5, LowerOf DEF SameMisses, Answered
  <2>4. QED
    BY <2>2, <2>3 DEF Linked
<1>7. WaitLink'
  BY <1>1, <1>2, <1>4, <1>5, CacheNames DEF WaitLink, Answered
<1>8. MemInv' /\ PrefsTyped(PQ') /\ WritesTyped(WQ')
  BY <1>1, <1>2 DEF MemInv
<1>9. QED
  BY <1>3, <1>5, <1>6, <1>7, <1>8 DEF TablesInv

(* The lines a cache misses on are no more than its misses.                *)
LinesOf(S) == {e.line : e \in S}

(* A set of packets has no more lines than packets.                        *)
LEMMA LinesFinite ==
  ASSUME NEW S, IsFiniteSet(S)
  PROVE  IsFiniteSet(LinesOf(S)) /\ Cardinality(LinesOf(S)) <= Cardinality(S)
<1> DEFINE f == [e \in S |-> e.line]
<1>1. f \in Surjection(S, LinesOf(S))
  BY DEF LinesOf, Surjection
<1> HIDE DEF f
<1>2. QED
  BY <1>1, FS_Surjection

(* The requests in a read queue are for lines the levels above miss on:    *)
(* there is room for one more while they have room for one more miss.      *)
LEMMA RoomBelow ==
  ASSUME ReadsTyped(RQ), MissesTyped(MSHR), Links(RQ, PQ, MSHR), NEW c \in Inner,
         Cardinality(MSHR[c]) < MshrSize[c]
  PROVE  Len(RQ[Lower[c]]) < RqSize[Lower[c]]
<1> DEFINE d == Lower[c]
<1>1. \A u \in Caches : /\ IsFiniteSet(MSHR[u]) /\ Cardinality(MSHR[u]) <= MshrSize[u]
                        /\ MshrSize[u] \in Nat /\ RqSize[u] \in Nat
                        /\ RQ[u] \in Seq(Reads(u)) /\ Distinct(RQ[u])
                        /\ Cardinality(MSHR[u]) \in Nat
  BY CacheAssumption, FS_CardinalityType DEF MissesTyped, ReadsTyped
<1>2. \A u \in Caches : IsFiniteSet(LinesOf(MSHR[u])) /\ Cardinality(LinesOf(MSHR[u])) <= Cardinality(MSHR[u])
                        /\ Cardinality(LinesOf(MSHR[u])) \in Nat
  BY <1>1, LinesFinite, FS_CardinalityType
<1>3. ASSUME NEW p \in Range(RQ[d]), NEW u \in Inner, Lower[u] = d, p \in Wanted(u)
      PROVE  p.line \in LinesOf(MSHR[u])
  <2>1. p \in Reads(d)
    <3>1. d \in Caches
      BY LowerOf
    <3>2. PICK i \in DOMAIN RQ[d] : p = RQ[d][i]
      BY DEF Range
    <3>3. QED
      BY <1>1, <3>1, <3>2, ElementOfSeq, LenProperties
  <2>2. p.line \in Lines
    BY <2>1 DEF Reads, PacketSet
  <2>3. InReads(RQ, u, p.line)
    BY <1>3 DEF InReads, In
  <2>4. Waits(MSHR, u, p.line)
    BY <2>2, <2>3 DEF Links, Linked
  <2>5. QED
    BY <2>4 DEF Waits, In, LinesOf
<1>4. ASSUME NEW p \in Range(RQ[d])
      PROVE  p \in Reads(d)
  <2>1. d \in Caches
    BY LowerOf
  <2>2. PICK i \in DOMAIN RQ[d] : p = RQ[d][i]
    BY DEF Range
  <2>3. QED
    BY <1>1, <2>1, <2>2, ElementOfSeq, LenProperties
<1>5. CASE c = "L2C"
  <2>1. d = "LLC" /\ "LLC" \in Caches /\ "L2C" \in Caches /\ RqSize["LLC"] >= MshrSize["L2C"]
    BY <1>5, CacheNames, CacheAssumption
  <2>2. \A p \in Range(RQ["LLC"]) : p.line \in LinesOf(MSHR["L2C"])
    <3>1. TAKE p \in Range(RQ["LLC"])
    <3>2. p \in Wanted("L2C")
      BY <1>4, <2>1 DEF Wanted, Reads
    <3>3. QED
      BY <1>3, <1>5, <2>1, <3>2
  <2>3. Len(RQ["LLC"]) <= Cardinality(LinesOf(MSHR["L2C"]))
    BY <1>1, <1>2, <2>1, <2>2, QueueBounded
  <2>4. Len(RQ["LLC"]) \in Nat
    BY <1>1, <2>1, LenProperties
  <2>5. QED
    BY <1>1, <1>2, <1>5, <2>1, <2>3, <2>4
<1>6. CASE c \in {"L1I", "L1D"}
  <2> DEFINE X == LinesOf(MSHR["L1I"])  Y == LinesOf(MSHR["L1D"])
  <2>1. d = "L2C" /\ {"L1I", "L1D", "L2C"} \subseteq Caches
        /\ RqSize["L2C"] >= MshrSize["L1I"] + MshrSize["L1D"]
        /\ Lower["L1I"] = "L2C" /\ Lower["L1D"] = "L2C" /\ "L1I" \in Inner /\ "L1D" \in Inner
    BY <1>6, CacheNames, CacheAssumption
  <2>2. \A p \in Range(RQ["L2C"]) : p.line \in X \cup Y
    <3>1. TAKE p \in Range(RQ["L2C"])
    <3>2. p \in Wanted("L1I") \/ p \in Wanted("L1D")
      BY <1>4, <2>1 DEF Wanted, Reads, Fits
    <3>3. QED
      BY <1>3, <2>1, <3>2
  <2>3. IsFiniteSet(X) /\ IsFiniteSet(Y) /\ Cardinality(X) \in Nat /\ Cardinality(Y) \in Nat
        /\ Cardinality(X) <= Cardinality(MSHR["L1I"]) /\ Cardinality(Y) <= Cardinality(MSHR["L1D"])
    BY <1>2, <2>1
  <2> HIDE DEF X, Y
  <2>4. IsFiniteSet(X \cup Y) /\ IsFiniteSet(X \cap Y)
        /\ Cardinality(X \cup Y) = Cardinality(X) + Cardinality(Y) - Cardinality(X \cap Y)
    BY <2>3, FS_Union, FS_Intersection
  <2>5. Cardinality(X \cap Y) \in Nat
    BY <2>4, FS_CardinalityType
  <2>6. Len(RQ["L2C"]) <= Cardinality(X \cup Y)
    BY <1>1, <2>1, <2>2, <2>4, QueueBounded
  <2>7. Len(RQ["L2C"]) \in Nat
    BY <1>1, <2>1, LenProperties
  <2>8. MshrSize["L1I"] \in Nat /\ MshrSize["L1D"] \in Nat /\ RqSize["L2C"] \in Nat
        /\ Cardinality(MSHR["L1I"]) <= MshrSize["L1I"] /\ Cardinality(MSHR["L1D"]) <= MshrSize["L1D"]
        /\ Cardinality(MSHR["L1I"]) \in Nat /\ Cardinality(MSHR["L1D"]) \in Nat
    BY <1>1, <2>1
  <2>9. CASE c = "L1I"
    BY <2>1, <2>3, <2>4, <2>5, <2>6, <2>7, <2>8, <2>9
  <2>10. CASE c = "L1D"
    BY <2>1, <2>3, <2>4, <2>5, <2>6, <2>7, <2>8, <2>10
  <2>11. QED
    BY <1>6, <2>9, <2>10
<1>7. QED
  BY <1>5, <1>6, CacheNames

(* A read that misses waits in the MSHR and for the level below.           *)
LEMMA ReadSent ==
  ASSUME TablesInv, NEW c \in Inner, NEW p \in Reads(Lower[c]), NEW x \in Misses(c), ~x.returned,
         x.line = p.line, Cardinality(MSHR[c]) < MshrSize[c],
         NEW m, MissesTyped(m), NextGood(m, nextFill), Others(m, MSHR, c), Adds(m[c], MSHR[c], x),
         \A u \in Inner : Lower[u] = Lower[c] => (p \in Wanted(u) <=> u = c),
         NEW r, ReadsTyped(r), Others(r, RQ, c),
         \A u \in Inner : \A k : InReads(r, u, k) <=>
                                 InReads(RQ, u, k) /\ ~(Lower[u] = c /\ k = p.line),
         \A u \in Inner : Lower[u] = c => (InReads(RQ, u, p.line) <=> x \in Wanted(u)),
         add_rq(Lower[c], p, r, m), UNCHANGED <<PQ, queue, due, waiting>>, WritesTyped(WQ')
  PROVE  TablesInv'
<1> DEFINE d == Lower[c]  l == p.line
<1>1. /\ ReadsTyped(RQ) /\ PrefsTyped(PQ)
      /\ MissesTyped(MSHR) /\ NextGood(MSHR, nextFill) /\ Links(RQ, PQ, MSHR)
      /\ MemInv /\ WaitLink
  BY DEF TablesInv
<1>2. /\ c \in Caches /\ d \in Caches /\ d # c /\ c # "LLC" /\ p \in PacketSet /\ Fits(d, p) /\ l \in Lines
      /\ x \in Open /\ x.line = l
  BY LowerOf, CacheNames DEF Reads, Misses, PacketSet, Open
<1>3. \E e \in m[c] : e.line = l
  BY <1>2 DEF Adds, In
<1>4. /\ \A u \in Inner : \A k : InMisses(m, u, k) <=>
              InMisses(MSHR, u, k) \/ (Lower[u] = c /\ k = l /\ x \in Wanted(u))
      /\ \A u \in Inner : Lower[u] = c => ~InMisses(MSHR, u, l)
      /\ \A f \in Caches : \A k : Waits(m, f, k) <=> Waits(MSHR, f, k) \/ (f = c /\ k = l)
      /\ ~Waits(MSHR, c, l)
  <2>1. /\ \A u \in Inner : \A k : InMisses(m, u, k) <=>
              InMisses(MSHR, u, k) \/ (Lower[u] = c /\ k = x.line /\ x \in Wanted(u))
        /\ \A u \in Inner : Lower[u] = c => ~InMisses(MSHR, u, x.line)
        /\ \A f \in Caches : \A k : Waits(m, f, k) <=> Waits(MSHR, f, k) \/ (f = c /\ k = x.line)
        /\ ~Waits(MSHR, c, x.line)
    BY <1>2, MissSeenEntering
  <2>2. QED
    BY <2>1, <1>2
<1>5. \A u \in Caches : u \in Uppers(d, p) <=> u = c
  <2>1. \A u \in Caches : u \in Uppers(d, p) <=> u \in Inner /\ Lower[u] = d /\ p \in Wanted(u)
    BY <1>2, UppersWant
  <2>2. QED
    BY <2>1, <1>2
<1>6. \A u \in Caches : u \in Uppers(d, p) => \E e \in m[u] : e.line = l
  BY <1>2, <1>3, <1>5
<1>7. Len(r[d]) < RqSize[d] /\ Len(r[d]) \in Nat /\ RqSize[d] \in Nat
  <2>1. r[d] = RQ[d]
    BY <1>2 DEF Others
  <2>2. QED
    BY <1>1, <1>2, <2>1, RoomBelow, CacheAssumption, LenProperties DEF ReadsTyped
<1>8. /\ ReadsTyped(RQ') /\ MissesTyped(MSHR') /\ NextGood(MSHR', nextFill')
      /\ SameMisses(MSHR', m)
      /\ \A f \in Caches : f # d => RQ'[f] = r[f]
      /\ \/ /\ QueuedWrites(d, p) # {} /\ RQ' = r
            /\ Answered(MSHR', m, Uppers(d, p), l)
         \/ /\ QueuedWrites(d, p) = {} /\ MSHR' = m
            /\ \/ Refused(RQ'[d], r[d], p, RqSize[d])
               \/ Asks(Range(RQ'[d]), Range(r[d]), p) /\ Holds(Range(RQ'[d]), Range(r[d]), p)
  <2>1. /\ d \in Caches /\ p \in Reads(d) /\ ReadsTyped(r) /\ MissesTyped(m) /\ NextGood(m, nextFill)
        /\ \A u \in Caches : u \in Uppers(d, p) => \E e \in m[u] : e.line = p.line
        /\ add_rq(d, p, r, m)
    BY <1>2, <1>3, <1>6
  <2> HIDE DEF d
  <2>2. QED
    BY <2>1, AskRead
<1>9. ~Refused(RQ'[d], r[d], p, RqSize[d])
  BY <1>7 DEF Refused
<1>10. \A u \in Inner : \A k : Lower[u] # d => (InReads(RQ', u, k) <=> InReads(r, u, k))
  BY <1>8, LowerOf DEF InReads
<1> HIDE DEF l, d
<1>11. \/ /\ \A u \in Inner : \A k : InReads(RQ', u, k) <=> InReads(r, u, k)
          /\ \A f \in Caches : \A k : Waits(MSHR', f, k) <=> Waits(MSHR, f, k)
       \/ /\ \A u \in Inner : \A k : InReads(RQ', u, k) <=> InReads(r, u, k) \/ (u = c /\ k = l)
          /\ MSHR' = m
  <2>1. CASE RQ' = r /\ Answered(MSHR', m, Uppers(d, p), l)
    <3>1. \A f \in Caches : \A k : Waits(MSHR', f, k) <=> Waits(m, f, k) /\ ~(f = c /\ k = l)
      BY <1>5, <2>1 DEF Answered
    <3>2. \A f \in Caches : \A k : Waits(MSHR', f, k) <=> Waits(MSHR, f, k)
      BY <1>4, <3>1
    <3>3. QED
      BY <2>1, <3>2
  <2>2. CASE MSHR' = m /\ Asks(Range(RQ'[d]), Range(r[d]), p)
    <3>1. \A u \in Inner : \A k : Lower[u] = d =>
            (InReads(RQ', u, k) <=> InReads(r, u, k) \/ (u = c /\ k = l))
      BY <2>2 DEF Asks, InReads, l, d
    <3>2. \A u \in Inner : \A k : InReads(RQ', u, k) <=> InReads(r, u, k) \/ (u = c /\ k = l)
      BY <1>10, <3>1 DEF d
    <3>3. QED
      BY <2>2, <3>2
  <2>3. QED
    BY <1>8, <1>9, <2>1, <2>2
<1>12. Links(RQ', PQ', MSHR')
  <2>1. SUFFICES ASSUME NEW u \in Inner, NEW k \in Lines
                 PROVE  Linked(RQ', PQ', MSHR', u, k)
    BY DEF Links
  <2>2. Linked(RQ, PQ, MSHR, u, k)
    BY <1>1 DEF Links
  <2>3. /\ InReads(r, u, k) <=> InReads(RQ, u, k) /\ ~(Lower[u] = c /\ k = l)
        /\ Lower[u] = c => (InReads(RQ, u, l) <=> x \in Wanted(u))
        /\ InPrefs(PQ', u, k) <=> InPrefs(PQ, u, k)
        /\ InMisses(MSHR', u, k) <=> InMisses(MSHR, u, k) \/ (Lower[u] = c /\ k = l /\ x \in Wanted(u))
        /\ Lower[u] = c => u # c
        /\ u \in Caches
    BY <1>4, <1>8, LowerOf DEF SameMisses, l
  <2>4. ~Waits(MSHR, c, l)
    BY <1>4
  <2>5. CASE /\ InReads(RQ', u, k) <=> InReads(r, u, k)
             /\ Waits(MSHR', u, k) <=> Waits(MSHR, u, k)
    BY <2>2, <2>3, <2>5 DEF Linked
  <2>6. CASE /\ InReads(RQ', u, k) <=> InReads(r, u, k) \/ (u = c /\ k = l)
             /\ Waits(MSHR', u, k) <=> Waits(MSHR, u, k) \/ (u = c /\ k = l)
    BY <2>2, <2>3, <2>4, <2>6 DEF Linked
  <2>7. Waits(m, u, k) <=> Waits(MSHR, u, k) \/ (u = c /\ k = l)
    BY <1>4, <2>3
  <2>8. QED
    BY <1>11, <2>3, <2>5, <2>6, <2>7
<1>13. WaitLink'
  <2>1. \A k \in Lines : Waits(MSHR', "LLC", k) <=> Waits(MSHR, "LLC", k)
    <3>1. "LLC" \in Caches /\ c # "LLC"
      BY <1>2, CacheNames
    <3>2. \A k : Waits(m, "LLC", k) <=> Waits(MSHR, "LLC", k)
      BY <1>4, <3>1
    <3>3. QED
      BY <1>11, <3>1, <3>2
  <2>2. QED
    BY <1>1, <2>1 DEF WaitLink
<1>14. MemInv' /\ PrefsTyped(PQ')
  BY <1>1 DEF MemInv
<1>15. QED
  BY <1>8, <1>12, <1>13, <1>14 DEF TablesInv

(* A prefetch that misses goes down; it waits in the MSHR if the cache is  *)
(* to keep the line.                                                       *)
LEMMA PrefetchSent ==
  ASSUME TablesInv, NEW c \in Inner, NEW p \in Prefs(Lower[c]), NEW x \in PacketSet, x.line = p.line,
         NEW keep \in BOOLEAN, NEW m, MissesTyped(m), NextGood(m, nextFill),
         \A u \in Inner : \A k : InMisses(m, u, k) <=>
              InMisses(MSHR, u, k) \/ (Lower[u] = c /\ k = p.line /\ x \in Wanted(u)),
         \A u \in Inner : Lower[u] = c => ~InMisses(MSHR, u, p.line),
         \A f \in Caches : \A k : Waits(m, f, k) <=> Waits(MSHR, f, k) \/ (keep /\ f = c /\ k = p.line),
         keep => ~Waits(MSHR, c, p.line) /\ Waits(m, c, p.line),
         \A u \in Inner : Lower[u] = Lower[c] => (p \in Wanted(u) <=> keep /\ u = c),
         NEW r, PrefsTyped(r), Others(r, PQ, c), Len(PQ[Lower[c]]) < PqSize[Lower[c]],
         \A u \in Inner : \A k : InPrefs(r, u, k) <=>
                                 InPrefs(PQ, u, k) /\ ~(Lower[u] = c /\ k = p.line),
         \A u \in Inner : Lower[u] = c => (InPrefs(PQ, u, p.line) <=> x \in Wanted(u)),
         add_pq(Lower[c], p, r, m), UNCHANGED <<RQ, WQ, queue, due, waiting>>
  PROVE  TablesInv'
<1> DEFINE d == Lower[c]  l == p.line
<1>1. /\ ReadsTyped(RQ) /\ PrefsTyped(PQ) /\ WritesTyped(WQ)
      /\ MissesTyped(MSHR) /\ NextGood(MSHR, nextFill) /\ Links(RQ, PQ, MSHR)
      /\ MemInv /\ WaitLink
  BY DEF TablesInv
<1>2. /\ c \in Caches /\ d \in Caches /\ d # c /\ c # "LLC" /\ p \in PacketSet /\ Fits(d, p) /\ l \in Lines
      /\ x.line = l
  BY LowerOf, CacheNames DEF Prefs, PacketSet
<1>3. keep => \E e \in m[c] : e.line = l
  BY DEF Waits, In
<1>4. /\ \A u \in Inner : \A k : InMisses(m, u, k) <=>
              InMisses(MSHR, u, k) \/ (Lower[u] = c /\ k = l /\ x \in Wanted(u))
      /\ \A u \in Inner : Lower[u] = c => ~InMisses(MSHR, u, l)
      /\ \A f \in Caches : \A k : Waits(m, f, k) <=> Waits(MSHR, f, k) \/ (keep /\ f = c /\ k = l)
      /\ keep => ~Waits(MSHR, c, l)
  OBVIOUS
<1>5. \A u \in Caches : u \in Uppers(d, p) <=> keep /\ u = c
  <2>1. \A u \in Caches : u \in Uppers(d, p) <=> u \in Inner /\ Lower[u] = d /\ p \in Wanted(u)
    BY <1>2, UppersWant
  <2>2. QED
    BY <2>1, <1>2
<1>6. \A u \in Caches : u \in Uppers(d, p) => \E e \in m[u] : e.line = l
  BY <1>2, <1>3, <1>5
<1>7. Len(r[d]) < PqSize[d] /\ Len(r[d]) \in Nat /\ PqSize[d] \in Nat
  <2>1. r[d] = PQ[d]
    BY <1>2 DEF Others
  <2>2. QED
    BY <1>1, <1>2, <2>1, CacheAssumption, LenProperties DEF PrefsTyped
<1>8. /\ PrefsTyped(PQ') /\ MissesTyped(MSHR') /\ NextGood(MSHR', nextFill')
      /\ SameMisses(MSHR', m)
      /\ \A f \in Caches : f # d => PQ'[f] = r[f]
      /\ \/ /\ QueuedWrites(d, p) # {} /\ PQ' = r
            /\ Answered(MSHR', m, Uppers(d, p), l)
         \/ /\ QueuedWrites(d, p) = {} /\ MSHR' = m
            /\ \/ Refused(PQ'[d], r[d], p, PqSize[d])
               \/ Asks(Range(PQ'[d]), Range(r[d]), p)
  <2>1. /\ d \in Caches /\ p \in Prefs(d) /\ PrefsTyped(r) /\ MissesTyped(m) /\ NextGood(m, nextFill)
        /\ \A u \in Caches : u \in Uppers(d, p) => \E e \in m[u] : e.line = p.line
        /\ add_pq(d, p, r, m)
    BY <1>2, <1>3, <1>6
  <2> HIDE DEF d
  <2>2. QED
    BY <2>1, AskPrefetch
<1>9. ~Refused(PQ'[d], r[d], p, PqSize[d])
  BY <1>7 DEF Refused
<1>10. \A u \in Inner : \A k : Lower[u] # d => (InPrefs(PQ', u, k) <=> InPrefs(r, u, k))
  BY <1>8, LowerOf DEF InPrefs
<1> HIDE DEF l, d
<1>11. \/ /\ \A u \in Inner : \A k : InPrefs(PQ', u, k) <=> InPrefs(r, u, k)
          /\ \A f \in Caches : \A k : Waits(MSHR', f, k) <=> Waits(MSHR, f, k)
       \/ /\ \A u \in Inner : \A k : InPrefs(PQ', u, k) <=> InPrefs(r, u, k) \/ (keep /\ u = c /\ k = l)
          /\ MSHR' = m
  <2>1. CASE PQ' = r /\ Answered(MSHR', m, Uppers(d, p), l)
    <3>1. \A f \in Caches : \A k : Waits(MSHR', f, k) <=> Waits(m, f, k) /\ ~(keep /\ f = c /\ k = l)
      BY <1>5, <2>1 DEF Answered
    <3>2. \A f \in Caches : \A k : Waits(MSHR', f, k) <=> Waits(MSHR, f, k)
      BY <1>4, <3>1
    <3>3. QED
      BY <2>1, <3>2
  <2>2. CASE MSHR' = m /\ Asks(Range(PQ'[d]), Range(r[d]), p)
    <3>1. \A u \in Inner : \A k : Lower[u] = d =>
            (InPrefs(PQ', u, k) <=> InPrefs(r, u, k) \/ (keep /\ u = c /\ k = l))
      BY <2>2 DEF Asks, InPrefs, l, d
    <3>2. \A u \in Inner : \A k : InPrefs(PQ', u, k) <=> InPrefs(r, u, k) \/ (keep /\ u = c /\ k = l)
      BY <1>10, <3>1 DEF d
    <3>3. QED
      BY <2>2, <3>2
  <2>3. QED
    BY <1>8, <1>9, <2>1, <2>2
<1>12. Links(RQ', PQ', MSHR')
  <2>1. SUFFICES ASSUME NEW u \in Inner, NEW k \in Lines
                 PROVE  Linked(RQ', PQ', MSHR', u, k)
    BY DEF Links
  <2>2. Linked(RQ, PQ, MSHR, u, k)
    BY <1>1 DEF Links
  <2>3. /\ InPrefs(r, u, k) <=> InPrefs(PQ, u, k) /\ ~(Lower[u] = c /\ k = l)
        /\ Lower[u] = c => (InPrefs(PQ, u, l) <=> x \in Wanted(u))
        /\ InReads(RQ', u, k) <=> InReads(RQ, u, k)
        /\ InMisses(MSHR', u, k) <=> InMisses(MSHR, u, k) \/ (Lower[u] = c /\ k = l /\ x \in Wanted(u))
        /\ Lower[u] = c => u # c
        /\ u \in Caches
    BY <1>4, <1>8, LowerOf DEF SameMisses, l
  <2>4. keep => ~Waits(MSHR, c, l)
    BY <1>4
  <2>5. CASE /\ InPrefs(PQ', u, k) <=> InPrefs(r, u, k)
             /\ Waits(MSHR', u, k) <=> Waits(MSHR, u, k)
    BY <2>2, <2>3, <2>5 DEF Linked
  <2>6. CASE /\ InPrefs(PQ', u, k) <=> InPrefs(r, u, k) \/ (keep /\ u = c /\ k = l)
             /\ Waits(MSHR', u, k) <=> Waits(MSHR, u, k) \/ (keep /\ u = c /\ k = l)
    BY <2>2, <2>3, <2>4, <2>6 DEF Linked
  <2>7. Waits(m, u, k) <=> Waits(MSHR, u, k) \/ (keep /\ u = c /\ k = l)
    BY <1>4, <2>3
  <2>8. QED
    BY <1>11, <2>3, <2>5, <2>6, <2>7
<1>13. WaitLink'
  <2>1. \A k \in Lines : Waits(MSHR', "LLC", k) <=> Waits(MSHR, "LLC", k)
    <3>1. "LLC" \in Caches /\ c # "LLC"
      BY <1>2, CacheNames
    <3>2. \A k : Waits(m, "LLC", k) <=> Waits(MSHR, "LLC", k)
      BY <1>4, <3>1
    <3>3. QED
      BY <1>11, <3>1, <3>2
  <2>2. QED
    BY <1>1, <2>1 DEF WaitLink
<1>14. MemInv' /\ ReadsTyped(RQ')
  BY <1>1 DEF MemInv
<1>15. QED
  BY <1>8, <1>12, <1>13, <1>14 DEF TablesInv

(* What a cache reads or prefetches for itself is a miss of it.            *)
LEMMA MissOfRead ==
  ASSUME NEW c \in Caches, NEW p \in Reads(c)
  PROVE  p \in Misses(c) /\ ~p.returned /\ p.fill_level <= FillLevel[c]
BY CacheNames DEF Reads, Misses

(* A prefetch that fills a cache or a level above it can be a miss of it.  *)
LEMMA MissOfPrefetch ==
  ASSUME NEW c \in Caches, NEW p \in Prefs(c), p.fill_level <= FillLevel[c]
  PROVE  p \in Misses(c) /\ ~p.returned
BY DEF Prefs, Misses

(* The LLC asks the manager for what it misses.                            *)
LEMMA ManagerAsked ==
  ASSUME MissesTyped(MSHR), NextGood(MSHR, nextFill), MemInv, WaitLink, NEW p \in Misses("LLC"),
         ~p.returned, p.line \in Lines, NEW m, NextGood(m, nextFill), Adds(m["LLC"], MSHR["LLC"], p),
         Others(m, MSHR, "LLC"),
         ToManager(p.line, FALSE), MSHR' = m
  PROVE  MemInv' /\ WaitLink'
<1> DEFINE l == p.line
<1>1. p \in Open /\ "LLC" \in Caches
  BY CacheNames DEF Open, Misses
<1>2. /\ \A d \in Caches : \A k : Waits(m, d, k) <=> Waits(MSHR, d, k) \/ (d = "LLC" /\ k = l)
      /\ ~Waits(MSHR, "LLC", l)
  BY <1>1, MissSeenEntering
<1>3. Manager!Accept([addr |-> l, isWrite |-> FALSE]) /\ FALSE \in BOOLEAN /\ waiting[l] = 0 /\ l \in Lines
  BY <1>2 DEF ToManager, WaitLink
<1> HIDE DEF l
<1>4. MemInv' /\ waiting' = [waiting EXCEPT ![l] = 1]
  BY <1>3, Accepted
<1>5. WaitLink'
  <2>1. \A k \in Lines : waiting'[k] = IF k = l THEN 1 ELSE waiting[k]
    BY <1>4 DEF MemInv
  <2>2. QED
    BY <1>1, <1>2, <2>1 DEF WaitLink
<1>6. QED
  BY <1>4, <1>5

(* A read that misses in a cache above the LLC.                            *)
LEMMA InnerReadMiss ==
  ASSUME TablesInv, NEW c \in Inner, ReadMiss(c)
  PROVE  TablesInv'
<1> DEFINE p == Head(RQ[c])  m == [MSHR EXCEPT ![c] = @ \cup {p}]  r == Popped(RQ, c)
           q == Sent(p)
<1>1. /\ RQ[c] # <<>> /\ NewMiss(c, p.line) /\ add_rq(Lower[c], q, r, m) /\ c \in Caches
      /\ UNCHANGED <<WQ, PQ, queue, due, waiting>>
  BY CacheNames DEF ReadMiss, memory
<1>2. /\ ReadsTyped(RQ) /\ PrefsTyped(PQ) /\ WritesTyped(WQ)
      /\ MissesTyped(MSHR) /\ NextGood(MSHR, nextFill)
  BY DEF TablesInv
<1> DEFINE x == p
<1> HIDE DEF x
<1>3. /\ x \in Reads(c) /\ x \in PacketSet /\ Fits(c, x) /\ ReadsTyped(r) /\ Others(r, RQ, c)
      /\ \A u \in Inner : \A k : InReads(r, u, k) <=> InReads(RQ, u, k) /\ ~(Lower[u] = c /\ k = x.line)
      /\ \A u \in Inner : Lower[u] = c => (InReads(RQ, u, x.line) <=> x \in Wanted(u))
  BY <1>1, <1>2, ReadLeaves DEF x
<1>4. x \in Misses(c) /\ ~x.returned /\ x.fill_level <= FillLevel[c]
  BY <1>1, <1>3, MissOfRead
<1>5. q \in Reads(Lower[c]) /\ q.line = x.line
      /\ \A u \in Inner : Lower[u] = Lower[c] => (q \in Wanted(u) <=> u = c)
  <2>1. q = Sent(x)
    BY DEF x
  <2>2. q \in Reads(Lower[c]) /\ q.line = x.line /\ \A u : q \in Wanted(u) <=> x \in Wanted(u)
    BY <1>3, <2>1, SentPacket
  <2>3. \A u \in Inner : Lower[u] = Lower[c] => (x \in Wanted(u) <=> u = c)
    BY <1>3, <1>4, WantedBySender
  <2>4. QED
    BY <2>2, <2>3
<1>6. Cardinality(MSHR[c]) < MshrSize[c] /\ InMshr(c, x.line) = {}
  BY <1>1 DEF NewMiss, x
<1>7. MissesTyped(m) /\ Others(m, MSHR, c) /\ Adds(m[c], MSHR[c], x) /\ NextGood(m, nextFill)
  BY <1>1, <1>2, <1>4, <1>6, MissEnters DEF x
<1> HIDE DEF p, m, r, q
<1>8. WritesTyped(WQ') /\ UNCHANGED <<PQ, queue, due, waiting>>
  BY <1>1, <1>2
<1>9. QED
  BY <1>1, <1>3, <1>4, <1>5, <1>6, <1>7, <1>8, ReadSent

(* A read that misses in the LLC.                                          *)
LEMMA LastReadMiss ==
  ASSUME TablesInv, ReadMiss("LLC")
  PROVE  TablesInv'
<1> DEFINE c == "LLC"  p == Head(RQ[c])  m == [MSHR EXCEPT ![c] = @ \cup {p}]  r == Popped(RQ, c)
<1>1. /\ RQ[c] # <<>> /\ NewMiss(c, p.line) /\ ToManager(p.line, FALSE) /\ c \in Caches
      /\ RQ' = r /\ MSHR' = m /\ nextFill' = nextFill /\ UNCHANGED <<WQ, PQ>>
  BY CacheNames DEF ReadMiss
<1>2. /\ ReadsTyped(RQ) /\ PrefsTyped(PQ) /\ WritesTyped(WQ) /\ Links(RQ, PQ, MSHR)
      /\ MissesTyped(MSHR) /\ NextGood(MSHR, nextFill) /\ MemInv /\ WaitLink
  BY DEF TablesInv
<1> DEFINE x == p
<1> HIDE DEF x
<1>3. /\ x \in Reads(c) /\ x \in PacketSet /\ Fits(c, x) /\ ReadsTyped(RQ') /\ Others(RQ', RQ, c)
      /\ \A u \in Inner : \A k : InReads(RQ', u, k) <=> InReads(RQ, u, k) /\ ~(Lower[u] = c /\ k = x.line)
      /\ \A u \in Inner : Lower[u] = c => (InReads(RQ, u, x.line) <=> x \in Wanted(u))
      /\ x.line \in Lines
  BY <1>1, <1>2, ReadLeaves DEF x
<1>4. x \in Misses(c) /\ ~x.returned /\ x \in Open
  BY <1>1, <1>3, MissOfRead DEF Open
<1>5. Cardinality(MSHR[c]) < MshrSize[c] /\ InMshr(c, x.line) = {}
  BY <1>1 DEF NewMiss, x
<1>6. MissesTyped(MSHR') /\ Others(MSHR', MSHR, c) /\ Adds(MSHR'[c], MSHR[c], x) /\ NextGood(MSHR', nextFill)
  BY <1>1, <1>2, <1>4, <1>5, MissEnters DEF x
<1>7. /\ \A u \in Inner : \A k : InMisses(MSHR', u, k) <=>
              InMisses(MSHR, u, k) \/ (Lower[u] = c /\ k = x.line /\ x \in Wanted(u))
      /\ \A f \in Caches : \A k : Waits(MSHR', f, k) <=> Waits(MSHR, f, k) \/ (f = c /\ k = x.line)
  <2>1. "LLC" \in Caches
    BY CacheNames
  <2>2. QED
    BY <2>1, <1>4, <1>6, MissSeenEntering
<1>8. MemInv' /\ WaitLink'
  <2>1. ToManager(x.line, FALSE)
    BY <1>1 DEF x
  <2> HIDE DEF m, p
  <2>2. QED
    BY <1>2, <1>3, <1>4, <1>6, <2>1, ManagerAsked
<1> HIDE DEF m, p, r
<1>9. Links(RQ', PQ', MSHR')
  <2>1. SUFFICES ASSUME NEW u \in Inner, NEW k \in Lines
                 PROVE  Linked(RQ', PQ', MSHR', u, k)
    BY DEF Links
  <2>2. Linked(RQ, PQ, MSHR, u, k)
    BY <1>2 DEF Links
  <2>3. /\ InReads(RQ', u, k) <=> InReads(RQ, u, k) /\ ~(Lower[u] = c /\ k = x.line)
        /\ Lower[u] = c => (InReads(RQ, u, x.line) <=> x \in Wanted(u))
        /\ InPrefs(PQ', u, k) <=> InPrefs(PQ, u, k)
        /\ InMisses(MSHR', u, k) <=> InMisses(MSHR, u, k) \/ (Lower[u] = c /\ k = x.line /\ x \in Wanted(u))
        /\ Waits(MSHR', u, k) <=> Waits(MSHR, u, k)
    BY <1>1, <1>3, <1>7, LowerOf, CacheNames
  <2>4. QED
    BY <2>2, <2>3 DEF Linked
<1>10. QED
  BY <1>1, <1>2, <1>3, <1>6, <1>8, <1>9 DEF TablesInv

(* A store that misses in the L1D.                                         *)
LEMMA StoreMissStep ==
  ASSUME TablesInv, StoreMiss, WritesTyped(WQ')
  PROVE  TablesInv'
<1> DEFINE c == "L1D"  l == Head(WQ[c]).line  p == StorePacket(l)
           m == [MSHR EXCEPT ![c] = @ \cup {p}]
<1>1. /\ WQ[c] # <<>> /\ InMshr(c, l) = {} /\ Cardinality(MSHR[c]) < MshrSize[c]
      /\ add_rq("L2C", p, RQ, m) /\ UNCHANGED <<PQ, queue, due, waiting>>
      /\ c \in Caches /\ c \in Inner /\ Lower[c] = "L2C"
  BY CacheNames DEF StoreMiss, memory
<1>2. /\ ReadsTyped(RQ) /\ MissesTyped(MSHR) /\ NextGood(MSHR, nextFill) /\ WritesTyped(WQ)
  BY DEF TablesInv
<1>3. l \in DataLines
  <2>1. WQ[c] \in Seq(WritesOf(c))
    BY <1>1, <1>2 DEF WritesTyped
  <2>2. Head(WQ[c]) \in WritesOf(c)
    BY <1>1, <2>1, HeadTailProperties
  <2>3. QED
    BY <2>2 DEF WritesOf, WriteLines
<1> DEFINE x == p
<1> HIDE DEF x
<1>4. x \in Reads("L2C") /\ x \in Misses(c) /\ x.line = l /\ ~x.returned /\ x \in PacketSet /\ x \in Reads(c)
  BY <1>3, StorePackets DEF x, Reads
<1>5. \A u \in Inner : Lower[u] = Lower[c] => (x \in Wanted(u) <=> u = c)
  <2>1. x.fill_level <= FillLevel[c] /\ Fits(c, x)
    BY <1>4 DEF Misses
  <2>2. QED
    BY <1>1, <1>4, <2>1, WantedBySender
<1>6. MissesTyped(m) /\ Others(m, MSHR, c) /\ Adds(m[c], MSHR[c], x) /\ NextGood(m, nextFill)
  BY <1>1, <1>2, <1>4, MissEnters DEF x
<1>7. add_rq(Lower[c], x, RQ, m) /\ x \in Reads(Lower[c])
  BY <1>1, <1>4 DEF x
<1>8. Others(RQ, RQ, c) /\ \A u \in Inner : Lower[u] # c
  BY LowerOf DEF Others
<1> HIDE DEF m, p, l
<1>9. QED
  BY <1>1, <1>2, <1>4, <1>5, <1>6, <1>7, <1>8, ReadSent

(* A prefetch that misses in a cache above the LLC.                        *)
LEMMA InnerPrefetchMiss ==
  ASSUME TablesInv, NEW c \in Inner, PrefetchMiss(c)
  PROVE  TablesInv'
<1> DEFINE p == Head(PQ[c])  keep == p.fill_level <= FillLevel[c]
           m == IF p.fill_level <= FillLevel[c] THEN [MSHR EXCEPT ![c] = @ \cup {p}] ELSE MSHR
           r == Popped(PQ, c)
           q == Sent(p)
<1>1. /\ PQ[c] # <<>> /\ NewMiss(c, p.line) /\ add_pq(Lower[c], q, r, m) /\ c \in Caches
      /\ UNCHANGED <<WQ, RQ, queue, due, waiting>> /\ Len(PQ[Lower[c]]) < PqSize[Lower[c]]
  BY CacheNames DEF PrefetchMiss, memory
<1>2. /\ ReadsTyped(RQ) /\ PrefsTyped(PQ) /\ WritesTyped(WQ)
      /\ MissesTyped(MSHR) /\ NextGood(MSHR, nextFill)
  BY DEF TablesInv
<1> DEFINE x == p  B == keep
<1> HIDE DEF x, B
<1>3. /\ x \in Prefs(c) /\ x \in PacketSet /\ Fits(c, x) /\ PrefsTyped(r) /\ Others(r, PQ, c)
      /\ \A u \in Inner : \A k : InPrefs(r, u, k) <=> InPrefs(PQ, u, k) /\ ~(Lower[u] = c /\ k = x.line)
      /\ \A u \in Inner : Lower[u] = c => (InPrefs(PQ, u, x.line) <=> x \in Wanted(u))
  BY <1>1, <1>2, PrefetchLeaves DEF x
<1>4. (B <=> x.fill_level <= FillLevel[c]) /\ B \in BOOLEAN
  BY DEF B, x
<1>5. q \in Prefs(Lower[c]) /\ q.line = x.line
      /\ \A u \in Inner : Lower[u] = Lower[c] => (q \in Wanted(u) <=> B /\ u = c)
  <2>1. q = Sent(x)
    BY DEF x
  <2>2. q \in Prefs(Lower[c]) /\ q.line = x.line /\ \A u : q \in Wanted(u) <=> x \in Wanted(u)
    BY <1>3, <2>1, SentPacket
  <2>3. \A u \in Inner : Lower[u] = Lower[c] => (x \in Wanted(u) <=> u = c /\ x.fill_level <= FillLevel[c])
    BY <1>3, WantedBySender
  <2>4. QED
    BY <1>4, <2>2, <2>3
<1>6. Cardinality(MSHR[c]) < MshrSize[c] /\ InMshr(c, x.line) = {}
  BY <1>1 DEF NewMiss, x
<1>7. /\ MissesTyped(m) /\ NextGood(m, nextFill)
      /\ \A u \in Inner : \A k : InMisses(m, u, k) <=>
              InMisses(MSHR, u, k) \/ (Lower[u] = c /\ k = x.line /\ x \in Wanted(u))
      /\ \A u \in Inner : Lower[u] = c => ~InMisses(MSHR, u, x.line)
      /\ \A f \in Caches : \A k : Waits(m, f, k) <=> Waits(MSHR, f, k) \/ (B /\ f = c /\ k = x.line)
      /\ B => ~Waits(MSHR, c, x.line) /\ Waits(m, c, x.line)
  <2>1. CASE B
    <3> DEFINE n == [MSHR EXCEPT ![c] = @ \cup {x}]
    <3>1. m = n
      BY <2>1, <1>4 DEF x
    <3>2. x \in Misses(c) /\ ~x.returned /\ x \in Open
      BY <1>1, <1>3, <1>4, <2>1, MissOfPrefetch DEF Open
    <3>3. MissesTyped(n) /\ Others(n, MSHR, c) /\ Adds(n[c], MSHR[c], x) /\ NextGood(n, nextFill)
      BY <1>1, <1>2, <1>6, <3>2, MissEnters
    <3> HIDE DEF n, m
    <3>4. /\ \A u \in Inner : \A k : InMisses(n, u, k) <=>
                  InMisses(MSHR, u, k) \/ (Lower[u] = c /\ k = x.line /\ x \in Wanted(u))
          /\ \A u \in Inner : Lower[u] = c => ~InMisses(MSHR, u, x.line)
          /\ \A f \in Caches : \A k : Waits(n, f, k) <=> Waits(MSHR, f, k) \/ (f = c /\ k = x.line)
          /\ ~Waits(MSHR, c, x.line)
      <4>1. c \in Caches
        BY CacheNames
      <4>2. QED
        BY <4>1, <3>2, <3>3, MissSeenEntering
    <3>5. c \in Caches
      BY CacheNames
    <3>6. QED
      BY <2>1, <3>1, <3>3, <3>4, <3>5
  <2>2. CASE ~B
    <3>1. m = MSHR
      BY <2>2, <1>4 DEF x
    <3>2. \A u \in Inner : Lower[u] = c => x \notin Wanted(u)
      <4>1. x.fill_level >= FillLevel[c]
        <5>1. x.fill_level \in {1, 2, 4} /\ FillLevel[c] \in {1, 2, 4}
          BY <1>3, CacheNames DEF PacketSet
        <5>2. ~(x.fill_level <= FillLevel[c])
          BY <1>4, <2>2, Zenon
        <5>3. QED
          BY <5>1, <5>2
      <4>2. QED
        BY <1>1, <1>3, <4>1, EndsThere
    <3>3. \A u \in Inner : Lower[u] = c => ~InMisses(MSHR, u, x.line)
      BY <1>6 DEF InMisses, In, InMshr
    <3> HIDE DEF m
    <3>4. QED
      BY <1>2, <2>2, <3>1, <3>2, <3>3
  <2>3. QED
    BY <1>4, <2>1, <2>2
<1>8. /\ add_pq(Lower[c], q, r, m) /\ Len(PQ[Lower[c]]) < PqSize[Lower[c]]
      /\ UNCHANGED <<RQ, WQ, queue, due, waiting>>
  BY <1>1
<1>9. x.line = q.line /\ \A k : k = x.line <=> k = q.line
  BY <1>5
<1> HIDE DEF p, m, r, q, keep
<1>10. /\ \A u \in Inner : \A k : InMisses(m, u, k) <=>
              InMisses(MSHR, u, k) \/ (Lower[u] = c /\ k = q.line /\ x \in Wanted(u))
       /\ \A u \in Inner : Lower[u] = c => ~InMisses(MSHR, u, q.line)
       /\ \A f \in Caches : \A k : Waits(m, f, k) <=> Waits(MSHR, f, k) \/ (B /\ f = c /\ k = q.line)
       /\ B => ~Waits(MSHR, c, q.line) /\ Waits(m, c, q.line)
       /\ \A u \in Inner : \A k : InPrefs(r, u, k) <=> InPrefs(PQ, u, k) /\ ~(Lower[u] = c /\ k = q.line)
       /\ \A u \in Inner : Lower[u] = c => (InPrefs(PQ, u, q.line) <=> x \in Wanted(u))
  BY <1>3, <1>7, <1>9
<1>11. /\ x \in PacketSet /\ PrefsTyped(r) /\ Others(r, PQ, c) /\ B \in BOOLEAN
       /\ MissesTyped(m) /\ NextGood(m, nextFill)
  BY <1>3, <1>4, <1>7
<1>12. QED
  BY <1>5, <1>8, <1>9, <1>10, <1>11, PrefetchSent

(* A prefetch that misses in the LLC.                                      *)
LEMMA LastPrefetchMiss ==
  ASSUME TablesInv, PrefetchMiss("LLC")
  PROVE  TablesInv'
<1> DEFINE c == "LLC"  p == Head(PQ[c])  m == [MSHR EXCEPT ![c] = @ \cup {p}]  r == Popped(PQ, c)
<1>0. PQ[c] # <<>> /\ "LLC" \in Caches /\ PrefsTyped(PQ)
  BY CacheNames DEF PrefetchMiss, TablesInv
<1>1. p.fill_level <= FillLevel["LLC"]
  <2>1. p \in PacketSet
    BY <1>0, PrefetchLeaves
  <2>2. QED
    BY <2>1, CacheNames DEF PacketSet
<1>2. /\ NewMiss(c, p.line) /\ ToManager(p.line, FALSE)
      /\ PQ' = r /\ MSHR' = m /\ nextFill' = nextFill /\ UNCHANGED <<WQ, RQ>>
  BY <1>1 DEF PrefetchMiss
<1>3. /\ ReadsTyped(RQ) /\ PrefsTyped(PQ) /\ WritesTyped(WQ) /\ Links(RQ, PQ, MSHR)
      /\ MissesTyped(MSHR) /\ NextGood(MSHR, nextFill) /\ MemInv /\ WaitLink
  BY DEF TablesInv
<1> DEFINE x == p
<1> HIDE DEF x
<1>4. /\ x \in Prefs(c) /\ x \in PacketSet /\ Fits(c, x) /\ PrefsTyped(PQ') /\ Others(PQ', PQ, c)
      /\ \A u \in Inner : \A k : InPrefs(PQ', u, k) <=> InPrefs(PQ, u, k) /\ ~(Lower[u] = c /\ k = x.line)
      /\ \A u \in Inner : Lower[u] = c => (InPrefs(PQ, u, x.line) <=> x \in Wanted(u))
      /\ x.line \in Lines
  BY <1>0, <1>2, PrefetchLeaves DEF x
<1>5. x \in Misses(c) /\ ~x.returned /\ x \in Open
  BY <1>0, <1>1, <1>4, MissOfPrefetch DEF Open, x
<1>6. Cardinality(MSHR[c]) < MshrSize[c] /\ InMshr(c, x.line) = {}
  BY <1>2 DEF NewMiss, x
<1>7. MissesTyped(MSHR') /\ Others(MSHR', MSHR, c) /\ Adds(MSHR'[c], MSHR[c], x) /\ NextGood(MSHR', nextFill)
  BY <1>0, <1>2, <1>3, <1>5, <1>6, MissEnters DEF x
<1>8. /\ \A u \in Inner : \A k : InMisses(MSHR', u, k) <=>
              InMisses(MSHR, u, k) \/ (Lower[u] = c /\ k = x.line /\ x \in Wanted(u))
      /\ \A f \in Caches : \A k : Waits(MSHR', f, k) <=> Waits(MSHR, f, k) \/ (f = c /\ k = x.line)
  BY <1>0, <1>5, <1>7, MissSeenEntering
<1>9. MemInv' /\ WaitLink'
  <2>1. ToManager(x.line, FALSE)
    BY <1>2 DEF x
  <2> HIDE DEF m, p
  <2>2. QED
    BY <1>2, <1>3, <1>4, <1>5, <1>7, <2>1, ManagerAsked
<1> HIDE DEF m, p, r
<1>10. Links(RQ', PQ', MSHR')
  <2>1. SUFFICES ASSUME NEW u \in Inner, NEW k \in Lines
                 PROVE  Linked(RQ', PQ', MSHR', u, k)
    BY DEF Links
  <2>2. Linked(RQ, PQ, MSHR, u, k)
    BY <1>3 DEF Links
  <2>3. /\ InPrefs(PQ', u, k) <=> InPrefs(PQ, u, k) /\ ~(Lower[u] = c /\ k = x.line)
        /\ Lower[u] = c => (InPrefs(PQ, u, x.line) <=> x \in Wanted(u))
        /\ InReads(RQ', u, k) <=> InReads(RQ, u, k)
        /\ InMisses(MSHR', u, k) <=> InMisses(MSHR, u, k) \/ (Lower[u] = c /\ k = x.line /\ x \in Wanted(u))
        /\ Waits(MSHR', u, k) <=> Waits(MSHR, u, k)
    BY <1>2, <1>4, <1>8, LowerOf, CacheNames
  <2>4. QED
    BY <2>2, <2>3 DEF Linked
<1>11. QED
  BY <1>2, <1>3, <1>4, <1>7, <1>9, <1>10 DEF TablesInv

(* A prefetch hit answers the levels that want the line, as a read hit     *)
(* does.                                                                   *)
LEMMA PrefetchHitStep ==
  ASSUME TablesInv, NEW c \in Caches, PrefetchHit(c)
  PROVE  TablesInv'
<1> DEFINE p == Head(PQ[c])  l == p.line  us == Uppers(c, p)
<1>1. /\ PQ[c] # <<>> /\ PQ' = Popped(PQ, c) /\ return_data(us, l, MSHR, nextFill)
      /\ UNCHANGED <<RQ, WQ, queue, due, waiting>>
  BY DEF PrefetchHit, memory
<1>2. /\ ReadsTyped(RQ) /\ PrefsTyped(PQ) /\ WritesTyped(WQ)
      /\ MissesTyped(MSHR) /\ NextGood(MSHR, nextFill) /\ Links(RQ, PQ, MSHR)
      /\ MemInv /\ WaitLink
  BY DEF TablesInv
<1> HIDE DEF p
<1>3. /\ p \in PacketSet /\ Fits(c, p) /\ l \in Lines /\ PrefsTyped(PQ')
      /\ \A u \in Inner : \A k : InPrefs(PQ', u, k) <=> InPrefs(PQ, u, k) /\ ~(Lower[u] = c /\ k = l)
      /\ \A u \in Inner : Lower[u] = c => (InPrefs(PQ, u, l) <=> p \in Wanted(u))
  BY <1>1, <1>2, PrefetchLeaves DEF p
<1>4. /\ \A u \in Caches : u \in us <=> u \in Inner /\ Lower[u] = c /\ p \in Wanted(u)
      /\ \A u \in Caches : u \in us => u # c /\ \E e \in MSHR[u] : e.line = l
      /\ "LLC" \notin us
  BY <1>2, <1>3, WantedIsMissed
<1> HIDE DEF l, us
<1>5. /\ MissesTyped(MSHR') /\ NextGood(MSHR', nextFill')
      /\ SameMisses(MSHR', MSHR) /\ Answered(MSHR', MSHR, us, l)
  BY <1>1, <1>2, <1>3, <1>4, Returned
<1>6. Links(RQ', PQ', MSHR')
  <2>1. SUFFICES ASSUME NEW u \in Inner, NEW k \in Lines
                 PROVE  Linked(RQ', PQ', MSHR', u, k)
    BY DEF Links
  <2>2. Linked(RQ, PQ, MSHR, u, k)
    BY <1>2 DEF Links
  <2>3. /\ InPrefs(PQ', u, k) <=> InPrefs(PQ, u, k) /\ ~(Lower[u] = c /\ k = l)
        /\ Lower[u] = c => (InPrefs(PQ, u, l) <=> p \in Wanted(u))
        /\ InReads(RQ', u, k) <=> InReads(RQ, u, k)
        /\ InMisses(MSHR', u, k) <=> InMisses(MSHR, u, k)
        /\ Waits(MSHR', u, k) <=> Waits(MSHR, u, k) /\ ~(Lower[u] = c /\ p \in Wanted(u) /\ k = l)
    BY <1>1, <1>3, <1>4, <1>5, LowerOf DEF SameMisses, Answered
  <2>4. QED
    BY <2>2, <2>3 DEF Linked
<1>7. WaitLink'
  BY <1>1, <1>2, <1>4, <1>5, CacheNames DEF WaitLink, Answered
<1>8. MemInv' /\ ReadsTyped(RQ') /\ WritesTyped(WQ')
  BY <1>1, <1>2 DEF MemInv
<1>9. QED
  BY <1>3, <1>5, <1>6, <1>7, <1>8 DEF TablesInv

(* check_mshr() finds a miss of the line when there is one.                *)
LEMMA ChosenMiss ==
  ASSUME MissesTyped(MSHR), NEW c \in Caches, NEW l, InMshr(c, l) # {}
  PROVE  /\ check_mshr(c, l) \in MSHR[c] /\ check_mshr(c, l).line = l
         /\ check_mshr(c, l) \in Misses(c) /\ check_mshr(c, l) \in PacketSet
BY DEF check_mshr, InMshr, MissesTyped, Misses

(* A read or a prefetch joins a miss in flight.                            *)
LEMMA Joined ==
  ASSUME MissesTyped(MSHR), NextGood(MSHR, nextFill), WaitLink, NEW c \in Caches, NEW p \in PacketSet,
         NEW e \in MSHR[c], e.line = p.line, NEW q, Joins(c, e, p, q),
         MSHR' = [MSHR EXCEPT ![c] = (@ \ {e}) \cup {q}], UNCHANGED <<nextFill, waiting>>
  PROVE  /\ MissesTyped(MSHR') /\ NextGood(MSHR', nextFill') /\ WaitLink'
         /\ \A d \in Caches : \A k : Waits(MSHR', d, k) <=> Waits(MSHR, d, k)
         /\ \A u \in Inner : \A k : ~(Lower[u] = c /\ k = p.line) =>
              (InMisses(MSHR', u, k) <=> InMisses(MSHR, u, k))
         /\ \A u \in Inner : Lower[u] = c =>
              /\ InMisses(MSHR', u, p.line) => InMisses(MSHR, u, p.line) \/ p \in Wanted(u)
              /\ Separate /\ (InMisses(MSHR, u, p.line) \/ p \in Wanted(u)) => InMisses(MSHR', u, p.line)
<1>1. e \in Misses(c) /\ q \in Misses(c) /\ e \in PacketSet /\ q \in PacketSet
      /\ q.line = e.line /\ q.returned = e.returned
  BY DEF MissesTyped, Misses, Joins
<1> DEFINE m == [MSHR EXCEPT ![c] = (@ \ {e}) \cup {q}]
<1>2. MSHR' = m
  OBVIOUS
<1>3. MissesTyped(m) /\ Others(m, MSHR, c) /\ Swaps(m[c], MSHR[c], e, q) /\ NextGood(m, nextFill)
  BY <1>1, MissJoined
<1> HIDE DEF m
<1>4. /\ \A u \in Inner : \A k : InMisses(m, u, k) <=>
              IF Lower[u] = c /\ k = e.line THEN q \in Wanted(u) ELSE InMisses(MSHR, u, k)
      /\ \A u \in Inner : Lower[u] = c => (InMisses(MSHR, u, e.line) <=> e \in Wanted(u))
      /\ \A d \in Caches : \A k : Waits(m, d, k) <=> Waits(MSHR, d, k)
  BY <1>1, <1>3, MissSeenJoined
<1>5. \A u \in Inner : Lower[u] = c =>
         /\ InMisses(m, u, p.line) => InMisses(MSHR, u, p.line) \/ p \in Wanted(u)
         /\ Separate /\ (InMisses(MSHR, u, p.line) \/ p \in Wanted(u)) => InMisses(m, u, p.line)
  <2>1. \A u \in Inner : Lower[u] = c =>
           /\ InMisses(m, u, p.line) <=> q \in Wanted(u)
           /\ InMisses(MSHR, u, p.line) <=> e \in Wanted(u)
    BY <1>4
  <2>2. \A u \in Inner : Lower[u] = c =>
           /\ q \in Wanted(u) => e \in Wanted(u) \/ p \in Wanted(u)
           /\ Separate /\ (e \in Wanted(u) \/ p \in Wanted(u)) => q \in Wanted(u)
    BY DEF Joins
  <2>3. QED
    BY <2>1, <2>2
<1>6. \A u \in Inner : \A k : ~(Lower[u] = c /\ k = p.line) =>
              (InMisses(m, u, k) <=> InMisses(MSHR, u, k))
  BY <1>4
<1>7. WaitLink'
  <2>1. "LLC" \in Caches
    BY CacheNames
  <2>2. \A k \in Lines : Waits(MSHR', "LLC", k) <=> Waits(MSHR, "LLC", k)
    BY <1>2, <1>4, <2>1
  <2>3. QED
    BY <2>2 DEF WaitLink
<1>8. NextGood(MSHR', nextFill')
  BY <1>2, <1>3
<1>9. MissesTyped(MSHR')
  BY <1>2, <1>3
<1>10. QED
  BY <1>2, <1>4, <1>5, <1>6, <1>7, <1>8, <1>9

(* A read that joins a miss leaves the read queue for the MSHR of the same *)
(* cache.                                                                  *)
LEMMA ReadMergeStep ==
  ASSUME TablesInv, NEW c \in Caches, ReadMerge(c)
  PROVE  TablesInv'
<1> DEFINE p == Head(RQ[c])  e == check_mshr(c, p.line)  q == JoinedByRead(e, p)
<1>1. /\ RQ[c] # <<>> /\ InMshr(c, p.line) # {} /\ RQ' = Popped(RQ, c)
      /\ MSHR' = [MSHR EXCEPT ![c] = (@ \ {e}) \cup {q}]
      /\ UNCHANGED <<PQ, WQ, nextFill, queue, due, waiting>>
  BY DEF ReadMerge, memory
<1>2. /\ ReadsTyped(RQ) /\ PrefsTyped(PQ) /\ WritesTyped(WQ) /\ Links(RQ, PQ, MSHR)
      /\ MissesTyped(MSHR) /\ NextGood(MSHR, nextFill) /\ MemInv /\ WaitLink
  BY DEF TablesInv
<1>3. e \in MSHR[c] /\ e.line = p.line /\ e \in Misses(c)
  BY <1>1, <1>2, ChosenMiss
<1> HIDE DEF p, e
<1>4. /\ p \in Reads(c) /\ p \in PacketSet /\ p.line \in Lines /\ ReadsTyped(RQ')
      /\ \A u \in Inner : \A k : InReads(RQ', u, k) <=> InReads(RQ, u, k) /\ ~(Lower[u] = c /\ k = p.line)
      /\ \A u \in Inner : Lower[u] = c => (InReads(RQ, u, p.line) <=> p \in Wanted(u))
  BY <1>1, <1>2, ReadLeaves DEF p
<1>5. Joins(c, e, p, q)
  BY <1>3, <1>4, JoinedByReadPacket
<1> HIDE DEF q
<1>6. /\ MissesTyped(MSHR') /\ NextGood(MSHR', nextFill') /\ WaitLink'
      /\ \A d \in Caches : \A k : Waits(MSHR', d, k) <=> Waits(MSHR, d, k)
      /\ \A u \in Inner : \A k : ~(Lower[u] = c /\ k = p.line) =>
           (InMisses(MSHR', u, k) <=> InMisses(MSHR, u, k))
      /\ \A u \in Inner : Lower[u] = c =>
           /\ InMisses(MSHR', u, p.line) => InMisses(MSHR, u, p.line) \/ p \in Wanted(u)
           /\ Separate /\ (InMisses(MSHR, u, p.line) \/ p \in Wanted(u)) => InMisses(MSHR', u, p.line)
  BY <1>1, <1>2, <1>3, <1>4, <1>5, Joined
<1>7. Links(RQ', PQ', MSHR')
  <2>1. SUFFICES ASSUME NEW u \in Inner, NEW k \in Lines
                 PROVE  Linked(RQ', PQ', MSHR', u, k)
    BY DEF Links
  <2>2. Linked(RQ, PQ, MSHR, u, k)
    BY <1>2 DEF Links
  <2>3. /\ InReads(RQ', u, k) <=> InReads(RQ, u, k) /\ ~(Lower[u] = c /\ k = p.line)
        /\ InPrefs(PQ', u, k) <=> InPrefs(PQ, u, k)
        /\ Waits(MSHR', u, k) <=> Waits(MSHR, u, k)
    BY <1>1, <1>4, <1>6, LowerOf
  <2>4. CASE Lower[u] = c /\ k = p.line
    <3>1. /\ InReads(RQ, u, k) <=> p \in Wanted(u)
          /\ InMisses(MSHR', u, k) => InMisses(MSHR, u, k) \/ p \in Wanted(u)
          /\ Separate /\ (InMisses(MSHR, u, k) \/ p \in Wanted(u)) => InMisses(MSHR', u, k)
      BY <1>4, <1>6, <2>4
    <3>2. QED
      BY <2>2, <2>3, <2>4, <3>1 DEF Linked
  <2>5. CASE ~(Lower[u] = c /\ k = p.line)
    <3>1. InMisses(MSHR', u, k) <=> InMisses(MSHR, u, k)
      BY <1>6, <2>5
    <3>2. QED
      BY <2>2, <2>3, <2>5, <3>1 DEF Linked
  <2>6. QED
    BY <2>4, <2>5
<1>8. MemInv' /\ PrefsTyped(PQ') /\ WritesTyped(WQ')
  BY <1>1, <1>2 DEF MemInv
<1>9. QED
  BY <1>4, <1>6, <1>7, <1>8 DEF TablesInv

(* A prefetch that joins a miss leaves the prefetch queue for the MSHR of  *)
(* the same cache.                                                         *)
LEMMA PrefetchMergeStep ==
  ASSUME TablesInv, NEW c \in Caches, PrefetchMerge(c)
  PROVE  TablesInv'
<1> DEFINE p == Head(PQ[c])  e == check_mshr(c, p.line)
           q == [e EXCEPT !.fill_level = IF p.fill_level < @ THEN p.fill_level ELSE @,
                          !.fill_l1i = @ \/ p.fill_l1i, !.fill_l1d = @ \/ p.fill_l1d]
<1>1. /\ PQ[c] # <<>> /\ InMshr(c, p.line) # {} /\ PQ' = Popped(PQ, c)
      /\ MSHR' = [MSHR EXCEPT ![c] = (@ \ {e}) \cup {q}]
      /\ UNCHANGED <<RQ, WQ, nextFill, queue, due, waiting>>
  BY DEF PrefetchMerge, memory
<1>2. /\ ReadsTyped(RQ) /\ PrefsTyped(PQ) /\ WritesTyped(WQ) /\ Links(RQ, PQ, MSHR)
      /\ MissesTyped(MSHR) /\ NextGood(MSHR, nextFill) /\ MemInv /\ WaitLink
  BY DEF TablesInv
<1>3. e \in MSHR[c] /\ e.line = p.line /\ e \in Misses(c)
  BY <1>1, <1>2, ChosenMiss
<1> HIDE DEF p, e
<1>4. /\ p \in Prefs(c) /\ p \in PacketSet /\ p.line \in Lines /\ PrefsTyped(PQ')
      /\ \A u \in Inner : \A k : InPrefs(PQ', u, k) <=> InPrefs(PQ, u, k) /\ ~(Lower[u] = c /\ k = p.line)
      /\ \A u \in Inner : Lower[u] = c => (InPrefs(PQ, u, p.line) <=> p \in Wanted(u))
  BY <1>1, <1>2, PrefetchLeaves DEF p
<1>5. Joins(c, e, p, q)
  BY <1>3, <1>4, JoinedByPrefetchPacket
<1> HIDE DEF q
<1>6. /\ MissesTyped(MSHR') /\ NextGood(MSHR', nextFill') /\ WaitLink'
      /\ \A d \in Caches : \A k : Waits(MSHR', d, k) <=> Waits(MSHR, d, k)
      /\ \A u \in Inner : \A k : ~(Lower[u] = c /\ k = p.line) =>
           (InMisses(MSHR', u, k) <=> InMisses(MSHR, u, k))
      /\ \A u \in Inner : Lower[u] = c =>
           /\ InMisses(MSHR', u, p.line) => InMisses(MSHR, u, p.line) \/ p \in Wanted(u)
           /\ Separate /\ (InMisses(MSHR, u, p.line) \/ p \in Wanted(u)) => InMisses(MSHR', u, p.line)
  BY <1>1, <1>2, <1>3, <1>4, <1>5, Joined
<1>7. Links(RQ', PQ', MSHR')
  <2>1. SUFFICES ASSUME NEW u \in Inner, NEW k \in Lines
                 PROVE  Linked(RQ', PQ', MSHR', u, k)
    BY DEF Links
  <2>2. Linked(RQ, PQ, MSHR, u, k)
    BY <1>2 DEF Links
  <2>3. /\ InPrefs(PQ', u, k) <=> InPrefs(PQ, u, k) /\ ~(Lower[u] = c /\ k = p.line)
        /\ InReads(RQ', u, k) <=> InReads(RQ, u, k)
        /\ Waits(MSHR', u, k) <=> Waits(MSHR, u, k)
    BY <1>1, <1>4, <1>6, LowerOf
  <2>4. CASE Lower[u] = c /\ k = p.line
    <3>1. /\ InPrefs(PQ, u, k) <=> p \in Wanted(u)
          /\ InMisses(MSHR', u, k) => InMisses(MSHR, u, k) \/ p \in Wanted(u)
          /\ Separate /\ (InMisses(MSHR, u, k) \/ p \in Wanted(u)) => InMisses(MSHR', u, k)
      BY <1>4, <1>6, <2>4
    <3>2. QED
      BY <2>2, <2>3, <2>4, <3>1 DEF Linked
  <2>5. CASE ~(Lower[u] = c /\ k = p.line)
    <3>1. InMisses(MSHR', u, k) <=> InMisses(MSHR, u, k)
      BY <1>6, <2>5
    <3>2. QED
      BY <2>2, <2>3, <2>5, <3>1 DEF Linked
  <2>6. QED
    BY <2>4, <2>5
<1>8. MemInv' /\ ReadsTyped(RQ') /\ WritesTyped(WQ')
  BY <1>1, <1>2 DEF MemInv
<1>9. QED
  BY <1>4, <1>6, <1>7, <1>8 DEF TablesInv

(* A store that joins a miss of the L1D asks for nothing more.             *)
LEMMA StoreMergeStep ==
  ASSUME TablesInv, StoreMerge, WritesTyped(WQ')
  PROVE  TablesInv'
<1> DEFINE c == "L1D"  l == Head(WQ[c]).line  p == StorePacket(l)  e == check_mshr(c, l)
           q == IF e.type = "prefetch" THEN Replaced(e, p)
                ELSE [e EXCEPT !.fill_level = 1, !.fill_l1d = TRUE]
<1>1. /\ WQ[c] # <<>> /\ InMshr(c, l) # {}
      /\ MSHR' = [MSHR EXCEPT ![c] = (@ \ {e}) \cup {q}]
      /\ UNCHANGED <<RQ, PQ, nextFill, queue, due, waiting>>
      /\ c \in Caches /\ \A u \in Inner : Lower[u] # c
  BY CacheNames DEF StoreMerge, memory
<1>2. /\ ReadsTyped(RQ) /\ PrefsTyped(PQ) /\ WritesTyped(WQ) /\ Links(RQ, PQ, MSHR)
      /\ MissesTyped(MSHR) /\ NextGood(MSHR, nextFill) /\ MemInv /\ WaitLink
  BY DEF TablesInv
<1>3. l \in DataLines
  <2>1. WQ[c] \in Seq(WritesOf(c))
    BY <1>1, <1>2 DEF WritesTyped
  <2>2. Head(WQ[c]) \in WritesOf(c)
    BY <1>1, <2>1, HeadTailProperties
  <2>3. QED
    BY <2>2 DEF WritesOf, WriteLines
<1>4. e \in MSHR[c] /\ e.line = l /\ e \in Misses(c)
  BY <1>1, <1>2, ChosenMiss
<1> HIDE DEF l, e
<1>5. p \in Reads(c) /\ p.line = l /\ p \in PacketSet
  BY <1>3, StorePackets DEF Reads
<1> HIDE DEF p
<1>6. q \in Misses(c) /\ q.line = e.line /\ q.returned = e.returned
  <2>1. CASE e.type = "prefetch"
    <3>1. Joins(c, e, p, Replaced(e, p))
      BY <1>1, <1>4, <1>5, ReplacedPacket
    <3>2. QED
      BY <2>1, <3>1 DEF Joins
  <2>2. CASE e.type # "prefetch"
    <3> DEFINE n == [e EXCEPT !.fill_level = 1, !.fill_l1d = TRUE]
    <3>1. n \in Misses(c) /\ n.line = e.line /\ n.returned = e.returned
      BY <1>4, JoinedByStorePacket
    <3>2. q = n
      BY <2>2
    <3> HIDE DEF n, q
    <3>3. QED
      BY <3>1, <3>2
  <2>3. QED
    BY <2>1, <2>2
<1> HIDE DEF q
<1>7. Joins(c, e, p, q)
  BY <1>1, <1>6 DEF Joins
<1>8. /\ MissesTyped(MSHR') /\ NextGood(MSHR', nextFill') /\ WaitLink'
      /\ \A d \in Caches : \A k : Waits(MSHR', d, k) <=> Waits(MSHR, d, k)
      /\ \A u \in Inner : \A k : ~(Lower[u] = c /\ k = p.line) =>
           (InMisses(MSHR', u, k) <=> InMisses(MSHR, u, k))
  BY <1>1, <1>2, <1>4, <1>5, <1>7, Joined
<1>9. Links(RQ', PQ', MSHR')
  <2>1. SUFFICES ASSUME NEW u \in Inner, NEW k \in Lines
                 PROVE  Linked(RQ', PQ', MSHR', u, k)
    BY DEF Links
  <2>2. Linked(RQ, PQ, MSHR, u, k)
    BY <1>2 DEF Links
  <2>3. /\ InPrefs(PQ', u, k) <=> InPrefs(PQ, u, k)
        /\ InReads(RQ', u, k) <=> InReads(RQ, u, k)
        /\ InMisses(MSHR', u, k) <=> InMisses(MSHR, u, k)
        /\ Waits(MSHR', u, k) <=> Waits(MSHR, u, k)
    BY <1>1, <1>8, LowerOf
  <2>4. QED
    BY <2>2, <2>3 DEF Linked
<1>10. MemInv' /\ ReadsTyped(RQ') /\ PrefsTyped(PQ')
  BY <1>1, <1>2 DEF MemInv
<1>11. QED
  BY <1>8, <1>9, <1>10 DEF TablesInv

(* Dirty blocks and the writes on their way down.                          *)

BlocksTyped ==
  \A c \in Caches : \A s \in Sets(c) : \A w \in 0 .. NumWay[c] - 1 :
    blocks[c][s][w].dirty => blocks[c][s][w].line \in Lines

(* Every line has a set in every cache.                                    *)
LEMMA SetOf == \A c \in Caches : \A l \in Lines : get_set(c, l) \in Sets(c)
BY CacheAssumption DEF get_set, Sets

(* The victim of a set, dirty or not.                                      *)
LEMMA VictimTyped ==
  ASSUME StacksInv, BlocksTyped, NEW c \in Caches, NEW s \in Sets(c)
  PROVE  /\ lru_victim(blocks[c][s]) \in 0 .. NumWay[c] - 1
         /\ blocks[c][s][lru_victim(blocks[c][s])].dirty =>
              blocks[c][s][lru_victim(blocks[c][s])].line \in Lines
<1>1. NumWay[c] \in Nat \ {0} /\ IsStack(blocks[c][s], NumWay[c])
  BY CacheAssumption DEF StacksInv
<1>2. lru_victim(blocks[c][s]) \in 0 .. NumWay[c] - 1
  BY <1>1, VictimIsWay
<1>3. QED
  BY <1>2 DEF BlocksTyped

(* The head of a write queue is gone.                                      *)
LEMMA PoppedWrite ==
  ASSUME WritesTyped(WQ), NEW c \in Caches, WQ[c] # <<>>, NEW w, w = Popped(WQ, c)
  PROVE  Head(WQ[c]) \in WritesOf(c) /\ Head(WQ[c]).line \in Lines /\ c # "L1I"
         /\ WritesTyped(w) /\ Others(w, WQ, c) /\ w[c] = Tail(WQ[c])
<1> DEFINE q == WQ[c]
<1>1. q \in Seq(WritesOf(c)) /\ Len(q) <= WqSize[c] /\ WqSize[c] \in Nat /\ q # <<>>
  BY CacheAssumption DEF WritesTyped
<1>2. w = [d \in Caches |-> w[d]] /\ w[c] = Tail(q) /\ \A d \in Caches : d # c => w[d] = WQ[d]
  <2>1. WQ = [d \in Caches |-> WQ[d]] /\ w = [WQ EXCEPT ![c] = Tail(q)]
    BY DEF WritesTyped, Popped
  <2>2. QED
    BY <2>1, EntryChanged
<1> HIDE DEF q
<1>3. Head(q) \in WritesOf(c) /\ Tail(q) \in Seq(WritesOf(c)) /\ Len(Tail(q)) <= WqSize[c]
  <2>1. Len(q) \in Nat \ {0}
    BY <1>1, EmptySeq, LenProperties
  <2>2. Head(q) \in WritesOf(c) /\ Tail(q) \in Seq(WritesOf(c)) /\ Len(Tail(q)) = Len(q) - 1
    BY <1>1, HeadTailProperties
  <2>3. QED
    BY <1>1, <2>1, <2>2
<1>4. Head(q).line \in Lines /\ c # "L1I"
  BY <1>3 DEF WritesOf, WriteLines, Lines
<1>5. ASSUME NEW d \in Caches
      PROVE  w[d] \in Seq(WritesOf(d)) /\ Len(w[d]) <= WqSize[d]
  <2>1. CASE d = c
    BY <1>2, <1>3, <2>1
  <2>2. CASE d # c
    BY <1>2, <2>2 DEF WritesTyped
  <2>3. QED
    BY <2>1, <2>2
<1>6. QED
  BY <1>2, <1>3, <1>4, <1>5 DEF WritesTyped, Others, q

(* A write is queued: add_wq() with room.                                  *)
LEMMA WriteAdded ==
  ASSUME WritesTyped(WQ), NEW w, WritesTyped(w), NEW d \in Caches, w[d] = WQ[d],
         NEW p \in WritesOf(d), Len(WQ[d]) < WqSize[d], add_wq(d, p, w)
  PROVE  /\ WritesTyped(WQ') /\ Others(WQ', w, d)
         /\ \/ QueuedWrites(d, p) # {} /\ WQ' = w
            \/ WQ'[d] = Append(WQ[d], p)
<1>1. CASE QueuedWrites(d, p) # {}
  BY <1>1 DEF add_wq, Others
<1>2. CASE QueuedWrites(d, p) = {}
  <2> DEFINE t == Append(w[d], p)
  <2>1. WQ' = [w EXCEPT ![d] = t] /\ w = [f \in Caches |-> w[f]]
    BY <1>2 DEF add_wq, WritesTyped
  <2>2. w[d] \in Seq(WritesOf(d)) /\ Len(w[d]) < WqSize[d] /\ WqSize[d] \in Nat
    BY CacheAssumption DEF WritesTyped
  <2>3. t \in Seq(WritesOf(d)) /\ Len(t) <= WqSize[d]
    <3>1. Len(w[d]) \in Nat
      BY <2>2, LenProperties
    <3>2. t \in Seq(WritesOf(d)) /\ Len(t) = Len(w[d]) + 1
      BY <2>2, AppendProperties
    <3>3. QED
      BY <2>2, <3>1, <3>2
  <2>4. t = Append(WQ[d], p)
    OBVIOUS
  <2> HIDE DEF t
  <2>5. WQ' = [f \in Caches |-> WQ'[f]] /\ WQ'[d] = t /\ \A f \in Caches : f # d => WQ'[f] = w[f]
    BY <2>1, EntryChanged
  <2>6. ASSUME NEW f \in Caches
        PROVE  WQ'[f] \in Seq(WritesOf(f)) /\ Len(WQ'[f]) <= WqSize[f]
    <3>1. CASE f = d
      BY <2>3, <2>5, <3>1
    <3>2. CASE f # d
      BY <2>5, <3>2 DEF WritesTyped
    <3>3. QED
      BY <3>1, <3>2
  <2>7. QED
    BY <2>4, <2>5, <2>6 DEF WritesTyped, Others
<1>3. QED
  BY <1>1, <1>2

(* A victim is written back.                                               *)
LEMMA WrittenBack ==
  ASSUME WritesTyped(WQ), MemInv, NEW c \in Caches, NEW w, WritesTyped(w), Others(w, WQ, c),
         NEW victim, victim.dirty => victim.line \in Lines, WriteBack(c, victim, w)
  PROVE  WritesTyped(WQ') /\ MemInv' /\ UNCHANGED waiting
<1>1. CASE ~victim.dirty
  BY <1>1 DEF WriteBack, MemInv, memory
<1>2. CASE victim.dirty /\ c = "LLC"
  <2> DEFINE l == victim.line
  <2>1. l \in Lines /\ TRUE \in BOOLEAN /\ Manager!Accept([addr |-> l, isWrite |-> TRUE]) /\ WQ' = w
    BY <1>2 DEF WriteBack, ToManager
  <2> HIDE DEF l
  <2>2. QED
    BY <2>1, Accepted
<1>3. CASE victim.dirty /\ c # "LLC"
  <2> DEFINE d == Lower[c]  p == WritePacket(victim.line, 0)
  <2>1. /\ Len(WQ[d]) < WqSize[d] /\ add_wq(d, p, w) /\ UNCHANGED <<queue, due, waiting>>
    BY <1>3 DEF WriteBack, memory
  <2>2. d \in Caches /\ d # c /\ d # "L1I" /\ d # "L1D"
    BY <1>3, CacheNames
  <2>3. p \in WritesOf(d) /\ w[d] = WQ[d]
    BY <1>3, <2>2 DEF WritesOf, WriteLines, WritePacket, Others
  <2> HIDE DEF d, p
  <2>4. WritesTyped(WQ')
    BY <2>1, <2>2, <2>3, WriteAdded
  <2>5. QED
    BY <2>1, <2>4 DEF MemInv
<1>4. QED
  BY <1>1, <1>2, <1>3

(* A miss that was answered fills the cache and is handed up.              *)
LEMMA FillTables ==
  ASSUME TablesInv, StacksInv, BlocksTyped, NEW c \in Caches, HandleFill(c)
  PROVE  TablesInv' /\ nextFill[c] \in Lines /\ check_mshr(c, nextFill[c]) \in MSHR[c]
         /\ check_mshr(c, nextFill[c]).line = nextFill[c]
<1> DEFINE l == nextFill[c]
           e == check_mshr(c, l)
           s == get_set(c, e.line)
           way == lru_victim(blocks[c][s])
           m == [MSHR EXCEPT ![c] = @ \ {e}]
           us == Uppers(c, e)
<1>1. /\ l # 0 /\ WriteBack(c, blocks[c][s][way], WQ) /\ UNCHANGED <<RQ, PQ>>
      /\ \E f \in NextFills(m[c]) : return_data(us, e.line, m, [nextFill EXCEPT ![c] = f])
  BY DEF HandleFill
<1>2. /\ ReadsTyped(RQ) /\ PrefsTyped(PQ) /\ WritesTyped(WQ) /\ Links(RQ, PQ, MSHR)
      /\ MissesTyped(MSHR) /\ NextGood(MSHR, nextFill) /\ MemInv /\ WaitLink
  BY DEF TablesInv
<1>3. l \in Lines /\ \E x \in MSHR[c] : x.line = l /\ x.returned
  BY <1>1, <1>2 DEF NextGood
<1>4. e \in MSHR[c] /\ e.line = l /\ e.returned /\ e \in Misses(c) /\ e \in PacketSet /\ Fits(c, e)
      /\ e \notin Open
  <2>1. PICK x \in MSHR[c] : x.line = l /\ x.returned
    BY <1>3
  <2>2. InMshr(c, l) # {}
    BY <2>1 DEF InMshr
  <2>3. e \in MSHR[c] /\ e.line = l /\ e \in Misses(c)
    BY <1>2, <2>2, ChosenMiss
  <2>4. e = x
    BY <1>2, <2>1, <2>3 DEF MissesTyped, OneEach
  <2>5. QED
    BY <2>1, <2>3, <2>4 DEF Misses, Open
<1>5. WritesTyped(WQ') /\ MemInv' /\ UNCHANGED waiting
  <2>1. s \in Sets(c)
    BY <1>3, <1>4, SetOf
  <2> DEFINE v == blocks[c][s][way]
  <2>2. v.dirty => v.line \in Lines
    BY <2>1, VictimTyped
  <2>3. WriteBack(c, v, WQ) /\ Others(WQ, WQ, c)
    BY <1>1 DEF Others
  <2> HIDE DEF v, way, s, e, l, m, us
  <2>4. QED
    BY <1>2, <2>2, <2>3, WrittenBack
<1> HIDE DEF e, s, way
<1>6. /\ MissesTyped(m) /\ Others(m, MSHR, c) /\ m[c] = MSHR[c] \ {e}
      /\ Drops(m[c], MSHR[c], e)
  BY <1>2, <1>4, MissLeaves
<1> HIDE DEF m
<1>7. /\ \A u \in Inner : \A k : InMisses(m, u, k) <=>
                                    InMisses(MSHR, u, k) /\ ~(Lower[u] = c /\ k = l)
      /\ \A u \in Inner : Lower[u] = c => (InMisses(MSHR, u, l) <=> e \in Wanted(u))
      /\ \A d \in Caches : \A k : Waits(m, d, k) <=> Waits(MSHR, d, k)
  <2>1. /\ \A u \in Inner : \A k : InMisses(m, u, k) <=>
                                      InMisses(MSHR, u, k) /\ ~(Lower[u] = c /\ k = e.line)
        /\ \A u \in Inner : Lower[u] = c => (InMisses(MSHR, u, e.line) <=> e \in Wanted(u))
        /\ \A d \in Caches : \A k : Waits(m, d, k) <=> Waits(MSHR, d, k)
    BY <1>4, <1>6, MissSeenLeaving
  <2>2. QED
    BY <1>4, <2>1
<1>8. PICK f \in NextFills(m[c]) : return_data(us, e.line, m, [nextFill EXCEPT ![c] = f])
  BY <1>1
<1> DEFINE n == [nextFill EXCEPT ![c] = f]
<1>9. NextGood(m, n)
  <2>1. f \in Lines \cup {0} /\ IF f = 0 THEN \A x \in m[c] : ~x.returned
                                ELSE \E x \in m[c] : x.line = f /\ x.returned
    <3>1. \A x \in m[c] : x.line \in Lines /\ x.line # 0
      BY <1>6, LinesNotZero DEF MissesTyped, Misses, PacketSet
    <3>2. QED
      BY <1>8, <3>1 DEF NextFills
  <2>2. nextFill = [d \in Caches |-> nextFill[d]]
    BY <1>2 DEF NextGood
  <2>3. n = [d \in Caches |-> n[d]] /\ n[c] = f /\ \A d \in Caches : d # c => n[d] = nextFill[d]
    BY <2>2
  <2> HIDE DEF n
  <2>4. ASSUME NEW d \in Caches
        PROVE  /\ n[d] \in Lines \cup {0}
               /\ IF n[d] = 0 THEN \A x \in m[d] : ~x.returned
                              ELSE \E x \in m[d] : x.line = n[d] /\ x.returned
    <3>1. CASE d = c
      BY <2>1, <2>3, <3>1
    <3>2. CASE d # c
      BY <1>2, <1>6, <2>3, <3>2 DEF NextGood, Others
    <3>3. QED
      BY <3>1, <3>2
  <2>5. QED
    BY <2>3, <2>4 DEF NextGood
<1>10. /\ \A u \in Caches : u \in us <=> u \in Inner /\ Lower[u] = c /\ e \in Wanted(u)
       /\ \A u \in Caches : u \in us => u # c /\ \E x \in MSHR[u] : x.line = l
       /\ "LLC" \notin us
  <2>1. e.line \in Lines /\ \A u \in Inner : Lower[u] = c /\ e \in Wanted(u) => InMisses(MSHR, u, e.line)
    BY <1>3, <1>4, <1>7
  <2>2. /\ \A u \in Caches : u \in us <=> u \in Inner /\ Lower[u] = c /\ e \in Wanted(u)
        /\ \A u \in Caches : u \in us => u # c /\ \E x \in MSHR[u] : x.line = e.line
        /\ "LLC" \notin us
    BY <1>2, <1>4, <2>1, WantedIsMissed
  <2>3. QED
    BY <1>4, <2>2
<1>11. \A u \in Caches : u \in us => \E x \in m[u] : x.line = l
  BY <1>6, <1>10 DEF Others
<1>12. return_data(us, l, m, n)
  BY <1>4, <1>8
<1> HIDE DEF l, us, n
<1>13. /\ MissesTyped(MSHR') /\ NextGood(MSHR', nextFill')
       /\ SameMisses(MSHR', m) /\ Answered(MSHR', m, us, l)
  BY <1>3, <1>6, <1>9, <1>11, <1>12, Returned
<1>14. Links(RQ', PQ', MSHR')
  <2>1. SUFFICES ASSUME NEW u \in Inner, NEW k \in Lines
                 PROVE  Linked(RQ', PQ', MSHR', u, k)
    BY DEF Links
  <2>2. Linked(RQ, PQ, MSHR, u, k)
    BY <1>2 DEF Links
  <2>3. /\ InReads(RQ', u, k) <=> InReads(RQ, u, k)
        /\ InPrefs(PQ', u, k) <=> InPrefs(PQ, u, k)
        /\ InMisses(MSHR', u, k) <=> InMisses(MSHR, u, k) /\ ~(Lower[u] = c /\ k = l)
        /\ Lower[u] = c => (InMisses(MSHR, u, l) <=> e \in Wanted(u))
        /\ Waits(MSHR', u, k) <=> Waits(MSHR, u, k) /\ ~(Lower[u] = c /\ e \in Wanted(u) /\ k = l)
    BY <1>1, <1>7, <1>10, <1>13, LowerOf DEF SameMisses, Answered
  <2>4. QED
    BY <2>2, <2>3 DEF Linked
<1>15. WaitLink'
  <2>1. \A k \in Lines : Waits(MSHR', "LLC", k) <=> Waits(MSHR, "LLC", k)
    BY <1>7, <1>10, <1>13, CacheNames DEF Answered
  <2>2. QED
    BY <1>2, <1>5, <2>1 DEF WaitLink
<1>16. ReadsTyped(RQ') /\ PrefsTyped(PQ')
  BY <1>1, <1>2
<1>17. QED
  BY <1>3, <1>4, <1>5, <1>13, <1>14, <1>15, <1>16 DEF TablesInv, l, e

(* A step that only writes back.                                           *)
LEMMA OnlyWrites ==
  ASSUME TablesInv, UNCHANGED <<RQ, PQ, MSHR, nextFill, waiting>>, WritesTyped(WQ'), MemInv'
  PROVE  TablesInv'
<1>1. Links(RQ', PQ', MSHR')
  BY DEF TablesInv
<1>2. WaitLink'
  BY DEF TablesInv, WaitLink
<1>3. ReadsTyped(RQ') /\ PrefsTyped(PQ') /\ MissesTyped(MSHR') /\ NextGood(MSHR', nextFill')
  BY DEF TablesInv
<1>4. QED
  BY <1>1, <1>2, <1>3 DEF TablesInv

(* A write hit touches blocks and write queues only.                       *)
LEMMA WritebackHitTables ==
  ASSUME TablesInv, NEW c \in Caches, WritebackHit(c)
  PROVE  TablesInv'
<1>1. WQ[c] # <<>> /\ WQ' = Popped(WQ, c) /\ UNCHANGED <<RQ, PQ, MSHR, nextFill, queue, due, waiting>>
  BY DEF WritebackHit, memory
<1>2. WritesTyped(WQ) /\ MemInv
  BY DEF TablesInv
<1>3. WritesTyped(WQ')
  BY <1>1, <1>2, PoppedWrite
<1>4. MemInv'
  BY <1>1, <1>2 DEF MemInv
<1>5. QED
  BY <1>1, <1>3, <1>4, OnlyWrites

(* A write miss passes the dirty victim on and asks for nothing.           *)
LEMMA WritebackMissTables ==
  ASSUME TablesInv, StacksInv, BlocksTyped, NEW c \in Caches, WritebackMiss(c)
  PROVE  TablesInv'
<1> DEFINE l == Head(WQ[c]).line  s == get_set(c, l)  v == blocks[c][s][lru_victim(blocks[c][s])]
           w == Popped(WQ, c)
<1>1. WQ[c] # <<>> /\ WriteBack(c, v, w) /\ UNCHANGED <<RQ, PQ, MSHR, nextFill>>
  BY DEF WritebackMiss
<1>2. WritesTyped(WQ) /\ MemInv
  BY DEF TablesInv
<1>3. l \in Lines /\ WritesTyped(w) /\ Others(w, WQ, c)
  BY <1>1, <1>2, PoppedWrite
<1>4. v.dirty => v.line \in Lines
  BY <1>3, SetOf, VictimTyped
<1> HIDE DEF l, s, v, w
<1>5. WritesTyped(WQ') /\ MemInv' /\ UNCHANGED waiting
  BY <1>1, <1>2, <1>3, <1>4, WrittenBack
<1>6. QED
  BY <1>1, <1>5, OnlyWrites

(* A store of the core enters the write queue of the L1D.                  *)
LEMMA StoreTables ==
  ASSUME TablesInv, NEW l \in DataLines, NEW w \in Words, Store(l, w)
  PROVE  TablesInv'
<1> DEFINE c == "L1D"  p == WritePacket(l, w)
<1>1. /\ Len(WQ[c]) < WqSize[c] /\ add_wq(c, p, WQ) /\ c \in Caches
      /\ UNCHANGED <<RQ, PQ, MSHR, nextFill, queue, due, waiting>>
  BY CacheNames DEF Store, memory
<1>2. WritesTyped(WQ) /\ MemInv
  BY DEF TablesInv
<1>3. p \in WritesOf(c)
  BY DEF WritesOf, WriteLines, WritePacket
<1> HIDE DEF p
<1>4. WritesTyped(WQ')
  BY <1>1, <1>2, <1>3, WriteAdded
<1>5. MemInv'
  BY <1>1, <1>2 DEF MemInv
<1>6. QED
  BY <1>1, <1>4, <1>5, OnlyWrites

(* A step of the manager, which may answer a read of the LLC.              *)
LEMMA ManagerTables ==
  ASSUME TablesInv, ManagerStep
  PROVE  TablesInv'
<1> DEFINE answered == {l \in Lines : waiting'[l] < waiting[l]}
<1>1. /\ Manager!Answer \/ \E i \in 0 .. NumIndices - 1 : Manager!Serve(i)
      /\ answered = {} => UNCHANGED <<MSHR, nextFill>>
      /\ answered # {} => return_data({"LLC"}, CHOOSE l \in answered : TRUE, MSHR, nextFill)
      /\ UNCHANGED <<RQ, WQ, PQ>>
  BY DEF ManagerStep
<1>2. /\ ReadsTyped(RQ) /\ PrefsTyped(PQ) /\ WritesTyped(WQ) /\ Links(RQ, PQ, MSHR)
      /\ MissesTyped(MSHR) /\ NextGood(MSHR, nextFill) /\ MemInv /\ WaitLink
  BY DEF TablesInv
<1>3. /\ MemInv'
      /\ \/ waiting' = waiting
         \/ \E l \in Lines : waiting[l] = 1 /\ waiting' = [waiting EXCEPT ![l] = 0]
  BY <1>1, <1>2, Served
<1>4. waiting \in [Lines -> {0, 1}]
  BY <1>2 DEF MemInv
<1>5. CASE waiting' = waiting
  <2>1. \A l \in Lines : ~(waiting'[l] < waiting[l])
    BY <1>4, <1>5
  <2>2. UNCHANGED <<MSHR, nextFill>>
    BY <1>1, <2>1
  <2>3. UNCHANGED <<RQ, PQ, MSHR, nextFill, waiting>> /\ WritesTyped(WQ')
    BY <1>1, <1>2, <1>5, <2>2
  <2>4. QED
    BY <1>3, <2>3, OnlyWrites
<1>6. ASSUME NEW l \in Lines, waiting[l] = 1, waiting' = [waiting EXCEPT ![l] = 0]
      PROVE  TablesInv'
  <2>1. \A k \in Lines : waiting'[k] = IF k = l THEN 0 ELSE waiting[k]
    BY <1>4, <1>6
  <2>2. answered = {l}
    BY <1>4, <1>6, <2>1
  <2>3. return_data({"LLC"}, l, MSHR, nextFill)
    BY <1>1, <2>2
  <2> DEFINE us == {"LLC"}
  <2>4. "LLC" \in Caches /\ Waits(MSHR, "LLC", l)
    BY <1>2, <1>6, CacheNames DEF WaitLink
  <2>5. \A c \in Caches : c \in us => \E e \in MSHR[c] : e.line = l
    BY <2>4 DEF Waits, In
  <2>6. return_data(us, l, MSHR, nextFill) /\ \A c \in Inner : c \notin us
    BY <2>3, CacheNames
  <2>7. \A k : k \in us <=> k = "LLC"
    OBVIOUS
  <2> HIDE DEF us, answered
  <2>8. /\ MissesTyped(MSHR') /\ NextGood(MSHR', nextFill')
        /\ SameMisses(MSHR', MSHR) /\ Answered(MSHR', MSHR, us, l)
    BY <1>2, <2>5, <2>6, Returned
  <2>9. Links(RQ', PQ', MSHR')
    <3>1. SUFFICES ASSUME NEW u \in Inner, NEW k \in Lines
                   PROVE  Linked(RQ', PQ', MSHR', u, k)
      BY DEF Links
    <3>2. Linked(RQ, PQ, MSHR, u, k)
      BY <1>2 DEF Links
    <3>3. /\ InReads(RQ', u, k) <=> InReads(RQ, u, k)
          /\ InPrefs(PQ', u, k) <=> InPrefs(PQ, u, k)
          /\ InMisses(MSHR', u, k) <=> InMisses(MSHR, u, k)
          /\ Waits(MSHR', u, k) <=> Waits(MSHR, u, k)
      BY <1>1, <2>6, <2>8, LowerOf DEF SameMisses, Answered
    <3>4. QED
      BY <3>2, <3>3 DEF Linked
  <2>10. WaitLink'
    <3>1. \A k \in Lines : Waits(MSHR', "LLC", k) <=> Waits(MSHR, "LLC", k) /\ k # l
      BY <2>4, <2>7, <2>8 DEF Answered
    <3>2. QED
      BY <1>2, <2>1, <3>1 DEF WaitLink
  <2>11. QED
    BY <1>1, <1>2, <1>3, <2>8, <2>9, <2>10 DEF TablesInv
<1>7. QED
  BY <1>3, <1>5, <1>6

(* A read the core gives to a first-level cache.                           *)
LEMMA FreshRead ==
  ASSUME TablesInv, NEW c \in {"L1I", "L1D"}, NEW p \in Reads(c), add_rq(c, p, RQ, MSHR),
         UNCHANGED <<PQ, WQ, queue, due, waiting>>
  PROVE  TablesInv'
<1>1. /\ ReadsTyped(RQ) /\ PrefsTyped(PQ) /\ WritesTyped(WQ) /\ Links(RQ, PQ, MSHR)
      /\ MissesTyped(MSHR) /\ NextGood(MSHR, nextFill) /\ MemInv /\ WaitLink
  BY DEF TablesInv
<1>2. c \in Caches /\ p \in PacketSet /\ Fits(c, p) /\ \A u \in Inner : Lower[u] # c
  BY CacheNames DEF Reads
<1>3. \A u \in Caches : u \notin Uppers(c, p)
  BY <1>2, UppersWant
<1>4. /\ ReadsTyped(RQ') /\ MissesTyped(MSHR') /\ NextGood(MSHR', nextFill')
      /\ SameMisses(MSHR', MSHR)
      /\ \A d \in Caches : d # c => RQ'[d] = RQ[d]
      /\ MSHR' = MSHR \/ Answered(MSHR', MSHR, Uppers(c, p), p.line)
  BY <1>1, <1>2, <1>3, AskRead
<1>5. \A d \in Caches : \A k : Waits(MSHR', d, k) <=> Waits(MSHR, d, k)
  BY <1>3, <1>4 DEF Answered
<1>6. Links(RQ', PQ', MSHR')
  <2>1. SUFFICES ASSUME NEW u \in Inner, NEW k \in Lines
                 PROVE  Linked(RQ', PQ', MSHR', u, k)
    BY DEF Links
  <2>2. Linked(RQ, PQ, MSHR, u, k)
    BY <1>1 DEF Links
  <2>3. RQ'[Lower[u]] = RQ[Lower[u]]
    BY <1>2, <1>4, LowerOf
  <2>4. /\ InReads(RQ', u, k) <=> InReads(RQ, u, k)
        /\ InPrefs(PQ', u, k) <=> InPrefs(PQ, u, k)
        /\ InMisses(MSHR', u, k) <=> InMisses(MSHR, u, k)
        /\ Waits(MSHR', u, k) <=> Waits(MSHR, u, k)
    BY <1>4, <1>5, <2>3, LowerOf DEF SameMisses, InReads
  <2>5. QED
    BY <2>2, <2>4 DEF Linked
<1>7. WaitLink'
  BY <1>1, <1>5, CacheNames DEF WaitLink
<1>8. MemInv' /\ PrefsTyped(PQ') /\ WritesTyped(WQ')
  BY <1>1 DEF MemInv
<1>9. QED
  BY <1>4, <1>6, <1>7, <1>8 DEF TablesInv

(* The packets of the core and of the prefetchers.                         *)
LEMMA CorePackets ==
  ASSUME NEW l \in Lines, NEW w \in Words \cup {0}, NEW ins \in BOOLEAN, NEW deps \in SUBSET Loads,
         ins => l \in CodeLines, ~ins => l \in DataLines
  PROVE  Packet(l, w, "load", 1, ins, deps) \in Reads(IF ins THEN "L1I" ELSE "L1D")
<1> DEFINE t == "load"  lvl == 1  q == Packet(l, w, t, lvl, ins, deps)
<1>1. t \in Types /\ lvl \in {1, 2, 4} /\ t # "prefetch" /\ lvl = 1
  BY DEF Types
<1> HIDE DEF t, lvl
<1>2. /\ q \in PacketSet /\ q.line = l /\ q.type = t /\ q.fill_level = lvl
      /\ (q.fill_l1i <=> lvl = 1 /\ ins) /\ (q.fill_l1d <=> lvl = 1 /\ ~ins)
      /\ (q.instruction <=> ins) /\ (q.is_data <=> ~ins) /\ q.deps = deps /\ ~q.returned
  BY <1>1, PacketFields
<1> HIDE DEF q
<1>3. q \in Reads(IF ins THEN "L1I" ELSE "L1D")
  BY <1>1, <1>2 DEF Reads, Fits
<1>4. QED
  BY <1>3 DEF q, t, lvl

(* A fetch of the core enters the read queue of the L1I.                   *)
LEMMA FetchTables ==
  ASSUME TablesInv, NEW l \in CodeLines, Fetch(l)
  PROVE  TablesInv'
<1> DEFINE p == Packet(l, 0, "load", 1, TRUE, {})
<1>1. add_rq("L1I", p, RQ, MSHR) /\ UNCHANGED <<PQ, WQ, queue, due, waiting>>
  BY DEF Fetch, memory
<1>2. l \in Lines /\ 0 \in Words \cup {0} /\ TRUE \in BOOLEAN /\ {} \in SUBSET Loads
  BY DEF Lines
<1>3. p \in Reads("L1I")
  <2> DEFINE yes == TRUE
  <2>1. yes \in BOOLEAN /\ yes
    OBVIOUS
  <2> HIDE DEF yes
  <2>2. Packet(l, 0, "load", 1, yes, {}) \in Reads(IF yes THEN "L1I" ELSE "L1D")
    BY <1>2, <2>1, CorePackets
  <2>3. QED
    BY <2>2 DEF yes
<1> HIDE DEF p
<1>4. QED
  BY <1>1, <1>3, FreshRead

(* A load of the core enters the read queue of the L1D, merges there, or   *)
(* is forwarded by a write.                                                *)
LEMMA LoadTables ==
  ASSUME TablesInv, NEW l \in DataLines, NEW w \in Words, sent.loads \in Nat, MaxLoads \in Nat,
         Load(l, w)
  PROVE  TablesInv'
<1> DEFINE i == sent.loads + 1  p == Packet(l, w, "load", 1, FALSE, {i})
<1>1. add_rq("L1D", p, RQ, MSHR) /\ UNCHANGED <<PQ, WQ, queue, due, waiting>> /\ i \in Loads
  <2>1. add_rq("L1D", p, RQ, MSHR) /\ UNCHANGED <<PQ, WQ, queue, due, waiting>> /\ i <= MaxLoads
    BY DEF Load, memory
  <2>2. i \in Loads
    BY <2>1 DEF Loads
  <2>3. QED
    BY <2>1, <2>2
<1>2. l \in Lines /\ w \in Words \cup {0} /\ {i} \in SUBSET Loads
  BY <1>1 DEF Lines
<1>3. p \in Reads("L1D")
  <2> DEFINE no == FALSE
  <2>1. no \in BOOLEAN /\ ~no
    OBVIOUS
  <2> HIDE DEF no, i
  <2>2. Packet(l, w, "load", 1, no, {i}) \in Reads(IF no THEN "L1I" ELSE "L1D")
    BY <1>2, <2>1, CorePackets
  <2>3. QED
    BY <2>2 DEF no
<1> HIDE DEF p
<1>4. QED
  BY <1>1, <1>3, FreshRead

(* A prefetch ends in the cache it is sent to, or below: nobody above      *)
(* waits for it.                                                           *)
LEMMA PrefetchTables ==
  ASSUME TablesInv, NEW f \in Prefetchers, NEW l \in Lines,
         f.cache = "L1I" => l \in CodeLines, f.cache = "L1D" => l \in DataLines,
         Prefetch(f.cache, l, f.fill_level)
  PROVE  TablesInv'
<1> DEFINE c == f.cache  lvl == f.fill_level  ins == c = "L1I"
           p == Packet(l, 0, "prefetch", lvl, ins, {})
<1>1. /\ add_pq(c, p, PQ, MSHR) /\ c \in Caches /\ lvl \in {1, 2, 4} /\ lvl >= FillLevel[c]
      /\ UNCHANGED <<RQ, WQ, queue, due, waiting>>
  BY CacheAssumption DEF Prefetch, memory
<1>2. /\ ReadsTyped(RQ) /\ PrefsTyped(PQ) /\ WritesTyped(WQ) /\ Links(RQ, PQ, MSHR)
      /\ MissesTyped(MSHR) /\ NextGood(MSHR, nextFill) /\ MemInv /\ WaitLink
  BY DEF TablesInv
<1> HIDE DEF c, lvl
<1>3. ins \in BOOLEAN /\ (ins => l \in CodeLines) /\ (ins <=> c = "L1I") /\ (c = "L1D" => l \in DataLines)
  BY DEF c
<1>4. /\ p \in PacketSet /\ p.line = l /\ p.type = "prefetch" /\ p.fill_level = lvl
      /\ (p.fill_l1i <=> lvl = 1 /\ ins) /\ (p.fill_l1d <=> lvl = 1 /\ ~ins)
      /\ (p.instruction <=> ins) /\ (p.is_data <=> ~ins) /\ p.deps = {} /\ ~p.returned
  <2> DEFINE t == "prefetch"  w == 0  deps == {}
  <2>1. t \in Types /\ w \in Words \cup {0} /\ deps \in SUBSET Loads
    BY DEF Types
  <2> HIDE DEF t, w, deps, ins
  <2>2. LET q == Packet(l, w, t, lvl, ins, deps)
        IN /\ q \in PacketSet /\ q.line = l /\ q.type = t /\ q.fill_level = lvl
           /\ (q.fill_l1i <=> lvl = 1 /\ ins) /\ (q.fill_l1d <=> lvl = 1 /\ ~ins)
           /\ (q.instruction <=> ins) /\ (q.is_data <=> ~ins) /\ q.deps = deps /\ ~q.returned
    BY <1>1, <1>3, <2>1, PacketFields
  <2>3. QED
    BY <2>2, Zenon DEF t, w, deps
<1> HIDE DEF p, ins
<1>5. lvl = 1 => c = "L1I" \/ c = "L1D"
  BY <1>1, CacheNames
<1>6. p \in Prefs(c) /\ Fits(c, p)
  BY <1>3, <1>4, <1>5 DEF Prefs, Fits
<1>7. \A u \in Inner : Lower[u] = c => p \notin Wanted(u)
  BY <1>1, <1>4, <1>6, EndsThere
<1>8. \A u \in Caches : u \notin Uppers(c, p)
  BY <1>1, <1>4, <1>6, <1>7, UppersWant
<1>9. /\ PrefsTyped(PQ') /\ MissesTyped(MSHR') /\ NextGood(MSHR', nextFill')
      /\ SameMisses(MSHR', MSHR)
      /\ \A d \in Caches : d # c => PQ'[d] = PQ[d]
      /\ \/ PQ' = PQ /\ Answered(MSHR', MSHR, Uppers(c, p), p.line)
         \/ /\ MSHR' = MSHR
            /\ Refused(PQ'[c], PQ[c], p, PqSize[c]) \/ Asks(Range(PQ'[c]), Range(PQ[c]), p)
  BY <1>1, <1>2, <1>6, <1>8, AskPrefetch
<1>10. \A d \in Caches : \A k : Waits(MSHR', d, k) <=> Waits(MSHR, d, k)
  BY <1>8, <1>9 DEF Answered
<1>11. ASSUME NEW u \in Inner
       PROVE  \A k : InPrefs(PQ', u, k) <=> InPrefs(PQ, u, k)
  <2>1. CASE Lower[u] # c
    BY <1>9, <2>1, LowerOf DEF InPrefs
  <2>2. CASE Lower[u] = c /\ Asks(Range(PQ'[c]), Range(PQ[c]), p)
    BY <1>7, <2>2 DEF InPrefs, Asks
  <2>3. CASE PQ' = PQ \/ (Lower[u] = c /\ Refused(PQ'[c], PQ[c], p, PqSize[c]))
    BY <2>3 DEF InPrefs, Refused
  <2>4. QED
    BY <1>9, <2>1, <2>2, <2>3
<1>12. Links(RQ', PQ', MSHR')
  <2>1. SUFFICES ASSUME NEW u \in Inner, NEW k \in Lines
                 PROVE  Linked(RQ', PQ', MSHR', u, k)
    BY DEF Links
  <2>2. Linked(RQ, PQ, MSHR, u, k)
    BY <1>2 DEF Links
  <2>3. /\ InReads(RQ', u, k) <=> InReads(RQ, u, k)
        /\ InPrefs(PQ', u, k) <=> InPrefs(PQ, u, k)
        /\ InMisses(MSHR', u, k) <=> InMisses(MSHR, u, k)
        /\ Waits(MSHR', u, k) <=> Waits(MSHR, u, k)
    BY <1>1, <1>9, <1>10, <1>11, LowerOf DEF SameMisses
  <2>4. QED
    BY <2>2, <2>3 DEF Linked
<1>13. WaitLink'
  BY <1>1, <1>2, <1>10, CacheNames DEF WaitLink
<1>14. MemInv' /\ ReadsTyped(RQ') /\ WritesTyped(WQ')
  BY <1>1, <1>2 DEF MemInv
<1>15. QED
  BY <1>9, <1>12, <1>13, <1>14 DEF TablesInv

(* What the steps do to the blocks.                                        *)

Same(b, a) == b.line = a.line /\ b.valid = a.valid /\ b.dirty = a.dirty

(* A block that only ages holds the same line, as valid and as dirty.      *)
LEMMA AgeOnly ==
  ASSUME NEW b, IsBlock(b), NEW age
  PROVE  Same([b EXCEPT !.lru = age], b)
BY DEF IsBlock, Same

(* lru_update() changes ages only.                                         *)
LEMMA UpdateKeepsContent ==
  ASSUME NEW n \in Nat \ {0}, NEW set, IsStack(set, n), NEW way \in 0 .. n - 1
  PROVE  \A w \in 0 .. n - 1 : Same(lru_update(set, way)[w], set[w])
<1> DEFINE aged(w) == IF w = way THEN 0
                      ELSE IF set[w].lru < set[way].lru THEN set[w].lru + 1 ELSE set[w].lru
<1>1. TAKE w \in 0 .. n - 1
<1>2. IsBlock(set[w]) /\ DOMAIN set = 0 .. n - 1
  BY DEF IsStack, IsSet
<1> DEFINE age == aged(w)
<1>3. lru_update(set, way)[w] = [set[w] EXCEPT !.lru = age]
  BY <1>2 DEF lru_update, Ways
<1> HIDE DEF age
<1>4. QED
  BY <1>2, <1>3, AgeOnly

(* fill_cache() changes the block it fills only.                           *)
FilledOnly(new, old, n, way, l, dirty) ==
  /\ new[way].line = l /\ new[way].valid = TRUE /\ new[way].dirty = dirty
  /\ \A w \in 0 .. n - 1 : w # way => Same(new[w], old[w])

(* A fill changes the line of one way and the ages of the set, no more.    *)
LEMMA FilledContent ==
  ASSUME NEW n \in Nat \ {0}, NEW set, IsStack(set, n), NEW way \in 0 .. n - 1, NEW l, NEW dirty
  PROVE  FilledOnly(Filled(set, way, l, dirty), set, n, way, l, dirty)
<1> DEFINE b == [set[way] EXCEPT !.line = l, !.valid = TRUE, !.dirty = dirty]
           mid == [set EXCEPT ![way] = b]
<1>1. IsBlock(set[way]) /\ DOMAIN set = 0 .. n - 1
  BY DEF IsStack, IsSet
<1>2. b.line = l /\ b.valid = TRUE /\ b.dirty = dirty /\ IsBlock(b) /\ b.lru = set[way].lru
  <2>1. IsBlock(b) /\ b.lru = set[way].lru
    BY <1>1, FilledBlock
  <2> DEFINE old == set[way]
  <2>2. [old EXCEPT !.line = l, !.valid = TRUE, !.dirty = dirty].line = l
        /\ [old EXCEPT !.line = l, !.valid = TRUE, !.dirty = dirty].valid = TRUE
        /\ [old EXCEPT !.line = l, !.valid = TRUE, !.dirty = dirty].dirty = dirty
    <3>1. old = [line |-> old.line, valid |-> old.valid, dirty |-> old.dirty, lru |-> old.lru]
      BY <1>1 DEF IsBlock
    <3> HIDE DEF old
    <3>2. QED
      BY <3>1
  <2>3. QED
    BY <2>1, <2>2
<1>3. Filled(set, way, l, dirty) = lru_update(mid, way)
  BY DEF Filled
<1> HIDE DEF b
<1>4. IsStack(mid, n)
  BY <1>2, ChangedBlock
<1>5. mid[way] = b /\ \A w \in 0 .. n - 1 : w # way => mid[w] = set[w]
  BY <1>1
<1> HIDE DEF mid
<1>6. \A w \in 0 .. n - 1 : Same(lru_update(mid, way)[w], mid[w])
  BY <1>4, UpdateKeepsContent
<1>7. QED
  BY <1>2, <1>3, <1>5, <1>6 DEF Same, FilledOnly

(* One set is replaced by another.                                         *)
LEMMA OneSetEffect ==
  ASSUME StacksInv, NEW c \in Caches, NEW s \in Sets(c), NEW set,
         blocks' = [blocks EXCEPT ![c][s] = set]
  PROVE  /\ blocks'[c][s] = set
         /\ \A d \in Caches : \A t \in Sets(d) : ~(d = c /\ t = s) => blocks'[d][t] = blocks[d][t]
<1> DEFINE row == [blocks[c] EXCEPT ![s] = set]
<1>1. blocks' = [blocks EXCEPT ![c] = row]
  OBVIOUS
<1>2. row[s] = set /\ \A t \in Sets(c) : t # s => row[t] = blocks[c][t]
  BY DEF StacksInv
<1> HIDE DEF row
<1>3. \A d \in Caches : blocks'[d] = IF d = c THEN row ELSE blocks[d]
  BY <1>1 DEF StacksInv
<1>4. QED
  BY <1>2, <1>3

AllBut(c, s, w) ==
  \A d \in Caches : \A t \in Sets(d) : \A v \in 0 .. NumWay[d] - 1 :
    ~(d = c /\ t = s /\ v = w) => Same(blocks'[d][t][v], blocks[d][t][v])

(* A set that changes at one way leaves all other blocks of all caches     *)
(* alone.                                                                  *)
LEMMA OneBlockEffect ==
  ASSUME StacksInv, NEW c \in Caches, NEW s \in Sets(c), NEW set,
         blocks' = [blocks EXCEPT ![c][s] = set], NEW way,
         \A w \in 0 .. NumWay[c] - 1 : w # way => Same(set[w], blocks[c][s][w])
  PROVE  blocks'[c][s] = set /\ AllBut(c, s, way)
<1>1. /\ blocks'[c][s] = set
      /\ \A d \in Caches : \A t \in Sets(d) : ~(d = c /\ t = s) => blocks'[d][t] = blocks[d][t]
  BY OneSetEffect
<1>2. ASSUME NEW d \in Caches, NEW t \in Sets(d), NEW v \in 0 .. NumWay[d] - 1,
             ~(d = c /\ t = s /\ v = way)
      PROVE  Same(blocks'[d][t][v], blocks[d][t][v])
  <2>1. CASE d = c /\ t = s
    BY <1>1, <1>2, <2>1
  <2>2. CASE ~(d = c /\ t = s)
    BY <1>1, <2>2 DEF Same
  <2>3. QED
    BY <2>1, <2>2
<1>3. QED
  BY <1>1, <1>2 DEF AllBut

(* A victim is replaced.                                                   *)
FillsBlock(c, s, w, l, dirty) ==
  /\ AllBut(c, s, w)
  /\ blocks'[c][s][w].line = l /\ blocks'[c][s][w].valid = TRUE /\ blocks'[c][s][w].dirty = dirty

(* A filled set puts its line in one block and leaves the others alone.    *)
LEMMA FillsAt ==
  ASSUME StacksInv, NEW c \in Caches, NEW s \in Sets(c), NEW l, NEW dirty,
         NEW way \in 0 .. NumWay[c] - 1, NEW set,
         FilledOnly(set, blocks[c][s], NumWay[c], way, l, dirty),
         blocks' = [blocks EXCEPT ![c][s] = set]
  PROVE  FillsBlock(c, s, way, l, dirty)
<1>1. \A w \in 0 .. NumWay[c] - 1 : w # way => Same(set[w], blocks[c][s][w])
  BY DEF FilledOnly
<1>2. blocks'[c][s] = set /\ AllBut(c, s, way)
  BY <1>1, OneBlockEffect
<1>3. set[way].line = l /\ set[way].valid = TRUE /\ set[way].dirty = dirty
  BY DEF FilledOnly
<1>4. QED
  BY <1>2, <1>3 DEF FillsBlock

(* fill_cache() on the victim of a set fills that block.                   *)
LEMMA FillEffect ==
  ASSUME StacksInv, NEW c \in Caches, NEW s \in Sets(c), NEW l, NEW dirty,
         NEW way, way = lru_victim(blocks[c][s]),
         blocks' = [blocks EXCEPT ![c][s] = Filled(@, way, l, dirty)]
  PROVE  way \in 0 .. NumWay[c] - 1 /\ FillsBlock(c, s, way, l, dirty)
<1> DEFINE old == blocks[c][s]
           set == Filled(old, way, l, dirty)
<1>1. NumWay[c] \in Nat \ {0} /\ IsStack(old, NumWay[c])
  BY CacheAssumption DEF StacksInv
<1>2. way \in 0 .. NumWay[c] - 1
  BY <1>1, VictimIsWay
<1>4. blocks' = [blocks EXCEPT ![c][s] = set]
  OBVIOUS
<1>3. FilledOnly(set, old, NumWay[c], way, l, dirty)
  <2> HIDE DEF old
  <2>1. QED
    BY <1>1, <1>2, FilledContent
<1> HIDE DEF set
<1>5. FillsBlock(c, s, way, l, dirty)
  BY <1>2, <1>3, <1>4, FillsAt
<1>6. QED
  BY <1>2, <1>5

(* A hit is used.                                                          *)
AllSame == \A d \in Caches : \A t \in Sets(d) : \A v \in 0 .. NumWay[d] - 1 :
             Same(blocks'[d][t][v], blocks[d][t][v])

(* A hit ages blocks and changes no line.                                  *)
LEMMA UseEffect ==
  ASSUME StacksInv, NEW c \in Caches, NEW l \in Lines, Hits(c, l) # {}, blocks' = Used(c, l)
  PROVE  AllSame
<1> DEFINE s == get_set(c, l)  w == check_hit(c, l)  set == lru_update(blocks[c][s], w)
<1>1. NumWay[c] \in Nat \ {0} /\ s \in Sets(c) /\ w \in 0 .. NumWay[c] - 1
  BY CacheAssumption, SetOf, HitIsWay
<1>2. IsStack(blocks[c][s], NumWay[c])
  BY <1>1 DEF StacksInv
<1>3. \A v \in 0 .. NumWay[c] - 1 : Same(set[v], blocks[c][s][v])
  BY <1>1, <1>2, UpdateKeepsContent
<1>4. blocks' = [blocks EXCEPT ![c][s] = set]
  BY DEF Used
<1> HIDE DEF set, s, w
<1>5. blocks'[c][s] = set /\ AllBut(c, s, w)
  BY <1>1, <1>3, <1>4, OneBlockEffect
<1>6. QED
  BY <1>1, <1>3, <1>5 DEF AllBut, AllSame

(* A write-back that hits.                                                 *)
LEMMA WritebackHitEffect ==
  ASSUME StacksInv, WritesTyped(WQ), NEW c \in Caches, WritebackHit(c)
  PROVE  \E s \in Sets(c) : \E w \in 0 .. NumWay[c] - 1 :
           /\ AllBut(c, s, w) /\ s = get_set(c, Head(WQ[c]).line)
           /\ blocks'[c][s][w].line = Head(WQ[c]).line /\ blocks[c][s][w].line = Head(WQ[c]).line
           /\ blocks'[c][s][w].valid = blocks[c][s][w].valid
           /\ blocks'[c][s][w].dirty = TRUE
<1> DEFINE l == Head(WQ[c]).line  s == get_set(c, l)  w == check_hit(c, l)
           d == [blocks[c][s] EXCEPT ![w].dirty = TRUE]
           set == IF c = "L1D" THEN lru_update(d, w) ELSE d
<1>1. WQ[c] # <<>> /\ Hits(c, l) # {} /\ blocks' = [blocks EXCEPT ![c][s] = set]
  BY DEF WritebackHit
<1>2. l \in Lines
  BY <1>1, PoppedWrite
<1>3. w \in 0 .. NumWay[c] - 1 /\ NumWay[c] \in Nat \ {0} /\ s \in Sets(c)
  BY <1>1, <1>2, HitIsWay, CacheAssumption, SetOf
<1>4. w \in Hits(c, l)
  <2>1. Hits(c, l) \subseteq Nat
    BY CacheAssumption DEF Hits
  <2>2. QED
    BY <1>1, <2>1, FirstWay DEF check_hit
<1>5. IsStack(blocks[c][s], NumWay[c]) /\ blocks[c][s][w].line = l
  BY <1>3, <1>4 DEF StacksInv, Hits
<1> DEFINE old == blocks[c][s]  b == [old[w] EXCEPT !.dirty = TRUE]
<1> HIDE DEF l, s, w
<1>6. IsBlock(old[w]) /\ DOMAIN old = 0 .. NumWay[c] - 1
  BY <1>3, <1>5 DEF IsStack, IsSet
<1>7. /\ IsBlock(b) /\ b.lru = old[w].lru /\ b.line = old[w].line /\ b.valid = old[w].valid
      /\ b.dirty = TRUE
  <2> DEFINE yes == TRUE  x == old[w]
  <2>1. IsBlock(x) /\ b = [x EXCEPT !.dirty = yes]
    BY <1>6
  <2> HIDE DEF yes, x, b
  <2>2. IsBlock(b) /\ b.lru = x.lru /\ b.line = x.line /\ b.valid = x.valid /\ b.dirty = yes
    BY <2>1 DEF IsBlock
  <2>3. QED
    BY <2>2 DEF yes, x
<1>8. d = [old EXCEPT ![w] = b]
  OBVIOUS
<1> HIDE DEF b, old, d
<1>9. IsStack(d, NumWay[c])
  BY <1>3, <1>5, <1>7, <1>8, ChangedBlock DEF old
<1>10. d[w] = b /\ \A v \in 0 .. NumWay[c] - 1 : v # w => d[v] = old[v]
  BY <1>3, <1>6, <1>8
<1>11. \A v \in 0 .. NumWay[c] - 1 : Same(set[v], d[v])
  <2>1. \A v \in 0 .. NumWay[c] - 1 : Same(lru_update(d, w)[v], d[v])
    BY <1>3, <1>9, UpdateKeepsContent
  <2>2. QED
    BY <2>1 DEF Same
<1> HIDE DEF set
<1>12. /\ set[w].line = l /\ set[w].valid = old[w].valid /\ set[w].dirty = TRUE
       /\ \A v \in 0 .. NumWay[c] - 1 : v # w => Same(set[v], blocks[c][s][v])
  BY <1>3, <1>5, <1>7, <1>10, <1>11 DEF Same, old
<1>13. blocks'[c][s] = set /\ AllBut(c, s, w)
  BY <1>1, <1>3, <1>12, OneBlockEffect
<1>14. QED
  BY <1>3, <1>5, <1>12, <1>13 DEF l, s, old

(* The blocks and the core.                                                *)

(* A block is filled with a line.                                          *)
LEMMA BlocksFilled ==
  ASSUME BlocksTyped, NEW c \in Caches, NEW s, NEW w, NEW l \in Lines, NEW dirty,
         FillsBlock(c, s, w, l, dirty)
  PROVE  BlocksTyped'
<1> SUFFICES ASSUME NEW d \in Caches, NEW t \in Sets(d), NEW v \in 0 .. NumWay[d] - 1,
                    blocks'[d][t][v].dirty
             PROVE  blocks'[d][t][v].line \in Lines
  BY DEF BlocksTyped, Sets
<1>1. CASE d = c /\ t = s /\ v = w
  BY <1>1 DEF FillsBlock
<1>2. CASE ~(d = c /\ t = s /\ v = w)
  BY <1>2 DEF FillsBlock, AllBut, Same, BlocksTyped
<1>3. QED
  BY <1>1, <1>2

(* Blocks that keep their lines keep their types.                          *)
LEMMA BlocksUsed ==
  ASSUME BlocksTyped, AllSame
  PROVE  BlocksTyped'
BY DEF BlocksTyped, AllSame, Same, Sets

(* A write hit dirties a block that holds the line.                        *)
LEMMA BlocksWritten ==
  ASSUME StacksInv, WritesTyped(WQ), BlocksTyped, NEW c \in Caches, WritebackHit(c)
  PROVE  BlocksTyped'
<1>1. Head(WQ[c]).line \in Lines
  BY PoppedWrite DEF WritebackHit
<1>2. PICK s \in Sets(c) : \E w \in 0 .. NumWay[c] - 1 :
             AllBut(c, s, w) /\ blocks'[c][s][w].line = Head(WQ[c]).line
  BY WritebackHitEffect
<1>3. PICK w \in 0 .. NumWay[c] - 1 :
             AllBut(c, s, w) /\ blocks'[c][s][w].line = Head(WQ[c]).line
  BY <1>2
<1> SUFFICES ASSUME NEW d \in Caches, NEW t \in Sets(d), NEW v \in 0 .. NumWay[d] - 1,
                    blocks'[d][t][v].dirty
             PROVE  blocks'[d][t][v].line \in Lines
  BY DEF BlocksTyped, Sets
<1>4. CASE d = c /\ t = s /\ v = w
  BY <1>1, <1>3, <1>4
<1>5. CASE ~(d = c /\ t = s /\ v = w)
  BY <1>3, <1>5 DEF AllBut, Same, BlocksTyped
<1>6. QED
  BY <1>4, <1>5

(* What a fill and a write-back that misses put in the cache.              *)
LEMMA HandleFillEffect ==
  ASSUME TablesInv, StacksInv, BlocksTyped, NEW c \in Caches, HandleFill(c)
  PROVE  LET e == check_mshr(c, nextFill[c])
             s == get_set(c, nextFill[c])
             way == lru_victim(blocks[c][s])
         IN /\ nextFill[c] \in Lines /\ e \in MSHR[c] /\ e.line = nextFill[c]
            /\ s \in Sets(c) /\ way \in 0 .. NumWay[c] - 1
            /\ FillsBlock(c, s, way, nextFill[c], c = "L1D" /\ e.type = "rfo")
            /\ WriteBack(c, blocks[c][s][way], WQ)
<1> DEFINE e == check_mshr(c, nextFill[c])
           l == nextFill[c]
           s == get_set(c, l)
           way == lru_victim(blocks[c][s])
           dirty == c = "L1D" /\ e.type = "rfo"
<1>1. l \in Lines /\ e \in MSHR[c] /\ e.line = l
  BY FillTables
<1>2. s \in Sets(c)
  BY <1>1, SetOf
<1>3. blocks' = [blocks EXCEPT ![c][s] = Filled(@, way, l, dirty)] /\ WriteBack(c, blocks[c][s][way], WQ)
  BY <1>1 DEF HandleFill
<1>4. way \in 0 .. NumWay[c] - 1 /\ FillsBlock(c, s, way, l, dirty)
  <2> DEFINE v == way
  <2>1. v = lru_victim(blocks[c][s]) /\ blocks' = [blocks EXCEPT ![c][s] = Filled(@, v, l, dirty)]
    BY <1>3
  <2> HIDE DEF v, way, dirty, s, l
  <2>2. v \in 0 .. NumWay[c] - 1 /\ FillsBlock(c, s, v, l, dirty)
    BY <1>2, <2>1, FillEffect
  <2>3. QED
    BY <2>2 DEF v
<1>5. QED
  BY <1>1, <1>2, <1>3, <1>4

(* A write miss fills the victim of its set with the line, dirty, and      *)
(* writes the old line back.                                               *)
LEMMA WritebackMissEffect ==
  ASSUME StacksInv, WritesTyped(WQ), NEW c \in Caches, WritebackMiss(c)
  PROVE  LET l == Head(WQ[c]).line
             s == get_set(c, l)
             way == lru_victim(blocks[c][s])
         IN /\ l \in Lines /\ s \in Sets(c) /\ way \in 0 .. NumWay[c] - 1
            /\ FillsBlock(c, s, way, l, TRUE)
            /\ WriteBack(c, blocks[c][s][way], Popped(WQ, c))
            /\ c # "L1D" /\ c # "L1I"
<1> DEFINE l == Head(WQ[c]).line
           s == get_set(c, l)
           way == lru_victim(blocks[c][s])
           dirty == TRUE
<1>1. l \in Lines /\ c # "L1I" /\ c # "L1D"
  BY PoppedWrite DEF WritebackMiss
<1>2. s \in Sets(c)
  BY <1>1, SetOf
<1>3. /\ blocks' = [blocks EXCEPT ![c][s] = Filled(@, way, l, dirty)]
      /\ WriteBack(c, blocks[c][s][way], Popped(WQ, c))
  BY <1>1 DEF WritebackMiss
<1>4. way \in 0 .. NumWay[c] - 1 /\ FillsBlock(c, s, way, l, dirty)
  <2> DEFINE v == way
  <2>1. v = lru_victim(blocks[c][s]) /\ blocks' = [blocks EXCEPT ![c][s] = Filled(@, v, l, dirty)]
    BY <1>3
  <2> HIDE DEF v, way, dirty, s, l
  <2>2. v \in 0 .. NumWay[c] - 1 /\ FillsBlock(c, s, v, l, dirty)
    BY <1>2, <2>1, FillEffect
  <2>3. QED
    BY <2>2 DEF v
<1>5. QED
  BY <1>1, <1>2, <1>3, <1>4

(* What the core counts and waits for.                                     *)
CoreTyped ==
  /\ fetching \subseteq CodeLines
  /\ loadLine \in [Loads -> DataLines \cup {0}]
  /\ sent \in [fetches : Nat, loads : Nat, stores : Nat, prefetches : Nat]

(* The counters of the core stay natural numbers.                          *)
LEMMA Counted ==
  ASSUME CoreTyped, NEW k \in {"fetches", "loads", "stores", "prefetches"}, Count(k)
  PROVE  sent' \in [fetches : Nat, loads : Nat, stores : Nat, prefetches : Nat]
BY DEF CoreTyped, Count

(* Nobody but the core changes it.                                         *)
CacheInv == StacksInv /\ TablesInv /\ BlocksTyped /\ CoreTyped

(* Every step keeps the counters and the loads of the core typed.          *)
LEMMA CoreStep ==
  ASSUME CoreTyped, [Next]_vars
  PROVE  CoreTyped'
<1>1. ASSUME UNCHANGED <<fetching, loadLine, sent>> PROVE CoreTyped'
  BY <1>1 DEF CoreTyped
<1>2. CASE UNCHANGED vars
  BY <1>1, <1>2 DEF vars, core
<1>3. ASSUME NEW c \in Caches, Operate(c) PROVE CoreTyped'
  BY <1>1, <1>3 DEF Operate, HandleFill, HandleWriteback, WritebackHit, WritebackMiss, StoreMiss,
       StoreMerge, HandleRead, ReadHit, ReadMiss, ReadMerge, HandlePrefetch, PrefetchHit, PrefetchMiss,
       PrefetchMerge, core
<1>4. ASSUME NEW c \in Level1, CoreTakes(c) PROVE CoreTyped'
  BY <1>4 DEF CoreTakes, CoreTyped
<1>5. CASE ManagerStep
  BY <1>1, <1>5 DEF ManagerStep, core
<1>6. ASSUME NEW l \in CodeLines, Fetch(l) PROVE CoreTyped'
  <2>1. fetching' = fetching \cup {l} /\ Count("fetches") /\ loadLine' = loadLine
    BY <1>6 DEF Fetch
  <2>2. QED
    BY <2>1, Counted DEF CoreTyped
<1>7. ASSUME NEW l \in DataLines, NEW w \in Words, Load(l, w) PROVE CoreTyped'
  <2>1. fetching' = fetching /\ Count("loads") /\ loadLine' = [loadLine EXCEPT ![sent.loads + 1] = l]
    BY <1>7 DEF Load
  <2>2. QED
    BY <2>1, Counted DEF CoreTyped
<1>8. ASSUME NEW l \in DataLines, NEW w \in Words, Store(l, w) PROVE CoreTyped'
  <2>1. Count("stores") /\ UNCHANGED <<fetching, loadLine>>
    BY <1>8 DEF Store
  <2>2. QED
    BY <2>1, Counted DEF CoreTyped
<1>9. ASSUME NEW f \in Prefetchers, NEW l \in Lines, Prefetch(f.cache, l, f.fill_level) PROVE CoreTyped'
  <2>1. Count("prefetches") /\ UNCHANGED <<fetching, loadLine>>
    BY <1>9 DEF Prefetch
  <2>2. QED
    BY <2>1, Counted DEF CoreTyped
<1>10. QED
  BY <1>2, <1>3, <1>4, <1>5, <1>6, <1>7, <1>8, <1>9 DEF Next, System, Environment

(* Every step keeps the lines of valid and of dirty blocks real lines.     *)
LEMMA BlocksStep ==
  ASSUME StacksInv, TablesInv, BlocksTyped, [Next]_vars
  PROVE  BlocksTyped'
<1>0. WritesTyped(WQ) /\ ReadsTyped(RQ) /\ PrefsTyped(PQ)
  BY DEF TablesInv
<1>1. ASSUME UNCHANGED blocks PROVE BlocksTyped'
  BY <1>1 DEF BlocksTyped, Sets
<1>2. CASE UNCHANGED vars
  BY <1>1, <1>2 DEF vars
<1>3. ASSUME NEW c \in Caches, HandleFill(c) PROVE BlocksTyped'
  <2> DEFINE e == check_mshr(c, nextFill[c])  l == nextFill[c]  s == get_set(c, l)
             way == lru_victim(blocks[c][s])  dirty == c = "L1D" /\ e.type = "rfo"
  <2>1. l \in Lines /\ FillsBlock(c, s, way, l, dirty)
    BY <1>3, HandleFillEffect
  <2> HIDE DEF l, s, way, dirty
  <2>2. QED
    BY <2>1, BlocksFilled
<1>4. ASSUME NEW c \in Caches, HandleWriteback(c) PROVE BlocksTyped'
  <2>1. CASE WritebackHit(c)
    BY <1>0, <2>1, BlocksWritten
  <2>2. CASE WritebackMiss(c)
    <3> DEFINE l == Head(WQ[c]).line  s == get_set(c, l)
               way == lru_victim(blocks[c][s])  dirty == TRUE
    <3>1. l \in Lines /\ FillsBlock(c, s, way, l, dirty)
      BY <1>0, <2>2, WritebackMissEffect
    <3> HIDE DEF l, s, way, dirty
    <3>2. QED
      BY <3>1, BlocksFilled
  <2>3. CASE StoreMiss \/ StoreMerge
    BY <2>3, <1>1 DEF StoreMiss, StoreMerge
  <2>4. QED
    BY <1>4, <2>1, <2>2, <2>3 DEF HandleWriteback
<1>5. ASSUME NEW c \in Caches, HandleRead(c) PROVE BlocksTyped'
  <2>1. CASE ReadHit(c)
    <3> DEFINE l == Head(RQ[c]).line
    <3>1. Hits(c, l) # {} /\ blocks' = Used(c, l) /\ RQ[c] # <<>>
      BY <2>1 DEF ReadHit
    <3>2. l \in Lines
      BY <1>0, <3>1, ReadLeaves
    <3> HIDE DEF l
    <3>3. QED
      BY <3>1, <3>2, UseEffect, BlocksUsed
  <2>2. CASE ReadMiss(c) \/ ReadMerge(c)
    BY <2>2, <1>1 DEF ReadMiss, ReadMerge
  <2>3. QED
    BY <1>5, <2>1, <2>2 DEF HandleRead
<1>6. ASSUME NEW c \in Caches, HandlePrefetch(c) PROVE BlocksTyped'
  <2>1. CASE PrefetchHit(c)
    <3> DEFINE l == Head(PQ[c]).line
    <3>1. Hits(c, l) # {} /\ blocks' = Used(c, l) /\ PQ[c] # <<>>
      BY <2>1 DEF PrefetchHit
    <3>2. l \in Lines
      BY <1>0, <3>1, PrefetchLeaves
    <3> HIDE DEF l
    <3>3. QED
      BY <3>1, <3>2, UseEffect, BlocksUsed
  <2>2. CASE PrefetchMiss(c) \/ PrefetchMerge(c)
    BY <2>2, <1>1 DEF PrefetchMiss, PrefetchMerge
  <2>3. QED
    BY <1>6, <2>1, <2>2 DEF HandlePrefetch
<1>7. CASE (\E c \in Level1 : CoreTakes(c)) \/ ManagerStep
  BY <1>7, <1>1 DEF CoreTakes, ManagerStep
<1>8. CASE Environment
  BY <1>8, <1>1 DEF Environment, Fetch, Load, Store, Prefetch
<1>9. QED
  BY <1>2, <1>3, <1>4, <1>5, <1>6, <1>7, <1>8 DEF Next, System, Operate

(* The invariant of the caches.                                            *)

(* Every step keeps the queues, the MSHRs, the manager and what links      *)
(* them.                                                                   *)
LEMMA TablesStep ==
  ASSUME StacksInv, TablesInv, BlocksTyped, CoreTyped, [Next]_vars
  PROVE  TablesInv'
<1>1. ASSUME UNCHANGED <<RQ, PQ, WQ, MSHR, nextFill, queue, due, waiting>> PROVE TablesInv'
  <2>1. WritesTyped(WQ') /\ MemInv'
    BY <1>1 DEF TablesInv, MemInv
  <2>2. QED
    BY <1>1, <2>1, OnlyWrites
<1>2. CASE UNCHANGED vars
  BY <1>1, <1>2 DEF vars, memory
<1>3. ASSUME NEW c \in Caches, HandleFill(c) PROVE TablesInv'
  BY <1>3, FillTables
<1>4. ASSUME NEW c \in Caches, HandleWriteback(c) PROVE TablesInv'
  <2>1. CASE WritebackHit(c)
    BY <2>1, WritebackHitTables
  <2>2. CASE WritebackMiss(c)
    BY <2>2, WritebackMissTables
  <2>3. CASE StoreMiss \/ StoreMerge
    <3> DEFINE w == Popped(WQ, "L1D")
    <3>1. WQ["L1D"] # <<>> /\ WQ' = w /\ WritesTyped(WQ) /\ "L1D" \in Caches
      BY <2>3, CacheNames DEF StoreMiss, StoreMerge, TablesInv
    <3>2. WritesTyped(w)
      BY <3>1, PoppedWrite
    <3> HIDE DEF w
    <3>3. WritesTyped(WQ')
      BY <3>1, <3>2
    <3>4. QED
      BY <2>3, <3>3, StoreMissStep, StoreMergeStep
  <2>4. QED
    BY <1>4, <2>1, <2>2, <2>3 DEF HandleWriteback
<1>5. ASSUME NEW c \in Caches, HandleRead(c) PROVE TablesInv'
  <2>1. CASE ReadHit(c)
    BY <2>1, ReadHitStep
  <2>2. CASE ReadMiss(c)
    BY <2>2, InnerReadMiss, LastReadMiss DEF Inner
  <2>3. CASE ReadMerge(c)
    BY <2>3, ReadMergeStep
  <2>4. QED
    BY <1>5, <2>1, <2>2, <2>3 DEF HandleRead
<1>6. ASSUME NEW c \in Caches, HandlePrefetch(c) PROVE TablesInv'
  <2>1. CASE PrefetchHit(c)
    BY <2>1, PrefetchHitStep
  <2>2. CASE PrefetchMiss(c)
    BY <2>2, InnerPrefetchMiss, LastPrefetchMiss DEF Inner
  <2>3. CASE PrefetchMerge(c)
    BY <2>3, PrefetchMergeStep
  <2>4. QED
    BY <1>6, <2>1, <2>2, <2>3 DEF HandlePrefetch
<1>7. ASSUME NEW c \in Level1, CoreTakes(c) PROVE TablesInv'
  BY <1>7, <1>1 DEF CoreTakes, memory
<1>8. CASE ManagerStep
  BY <1>8, ManagerTables
<1>9. ASSUME NEW l \in CodeLines, Fetch(l) PROVE TablesInv'
  BY <1>9, FetchTables
<1>10. ASSUME NEW l \in DataLines, NEW w \in Words, Load(l, w) PROVE TablesInv'
  <2>1. sent.loads \in Nat /\ MaxLoads \in Nat
    BY CacheAssumption DEF CoreTyped
  <2>2. QED
    BY <1>10, <2>1, LoadTables
<1>11. ASSUME NEW l \in DataLines, NEW w \in Words, Store(l, w) PROVE TablesInv'
  BY <1>11, StoreTables
<1>12. ASSUME NEW f \in Prefetchers, NEW l \in Lines,
              f.cache = "L1I" => l \in CodeLines, f.cache = "L1D" => l \in DataLines,
              Prefetch(f.cache, l, f.fill_level)
       PROVE  TablesInv'
  BY <1>12, PrefetchTables
<1>13. QED
  BY <1>2, <1>3, <1>4, <1>5, <1>6, <1>7, <1>8, <1>9, <1>10, <1>11, <1>12
     DEF Next, System, Environment, Operate

(* Every step keeps the inductive invariant of the hierarchy.              *)
LEMMA StepKeepsCaches == CacheInv /\ [Next]_vars => CacheInv'
BY StepKeepsStacks, TablesStep, BlocksStep, CoreStep DEF CacheInv

(* At first everything is empty.                                           *)
LEMMA InitCaches == Init => CacheInv
<1> SUFFICES ASSUME Init PROVE CacheInv
  OBVIOUS
<1>1. /\ RQ = [c \in Caches |-> <<>>] /\ WQ = [c \in Caches |-> <<>>] /\ PQ = [c \in Caches |-> <<>>]
      /\ MSHR = [c \in Caches |-> {}] /\ nextFill = [c \in Caches |-> 0]
      /\ \A c \in Caches : {RqSize[c], WqSize[c], PqSize[c], MshrSize[c]} \subseteq Nat
  BY CacheAssumption DEF Init
<1>2. ReadsTyped(RQ)
  BY <1>1 DEF ReadsTyped, Distinct
<1>3. PrefsTyped(PQ)
  BY <1>1 DEF PrefsTyped, Distinct
<1>4. WritesTyped(WQ)
  BY <1>1 DEF WritesTyped
<1>5. MissesTyped(MSHR)
  <2>1. IsFiniteSet({}) /\ Cardinality({}) = 0
    BY FS_EmptySet
  <2>2. QED
    BY <1>1, <2>1 DEF MissesTyped, OneEach
<1>6. NextGood(MSHR, nextFill)
  BY <1>1 DEF NextGood
<1>7. Links(RQ, PQ, MSHR)
  <2>1. \A u \in Inner : Range(RQ[Lower[u]]) = {} /\ Range(PQ[Lower[u]]) = {} /\ MSHR[Lower[u]] = {}
    BY <1>1, LowerOf DEF Range
  <2>2. \A u \in Inner : MSHR[u] = {}
    BY <1>1, LowerOf
  <2>3. QED
    BY <2>1, <2>2 DEF Links, Linked, InReads, InPrefs, InMisses, Waits, In
<1>8. MemInv
  BY DEF Init, MemInv, Manager!LineInit
<1>9. WaitLink
  <2>1. MSHR["LLC"] = {} /\ \A l \in Lines : waiting[l] = 0
    BY <1>1, CacheNames DEF Init, Manager!LineInit
  <2>2. QED
    BY <2>1 DEF WaitLink, Waits, In
<1>10. BlocksTyped
  <2>1. blocks = [c \in Caches |-> [s \in Sets(c) |-> [w \in 0 .. NumWay[c] - 1 |-> EmptyBlock(w)]]]
    BY DEF Init, Sets
  <2>2. \A w : EmptyBlock(w).dirty = FALSE
    BY DEF EmptyBlock
  <2>3. QED
    BY <2>1, <2>2 DEF BlocksTyped
<1>11. CoreTyped
  BY DEF CoreTyped, Init
<1>12. QED
  BY <1>2, <1>3, <1>4, <1>5, <1>6, <1>7, <1>8, <1>9, <1>10, <1>11, InitStacks DEF CacheInv, TablesInv

(* The inductive invariant of the hierarchy holds of every state.          *)
LEMMA CacheInvariant == Spec => []CacheInv
BY InitCaches, StepKeepsCaches, PTL DEF Spec

(* For any sizes, no read, write or prefetch queue and no MSHR of a cache  *)
(* is entered when it is full - the checks of add_rq(), add_wq(), add_pq() *)
(* and of the misses are made before the packet is removed from where it   *)
(* was - and every entry is a packet of a real line.                       *)
THEOREM CachesTyped == Spec => []TypeOK
<1>1. CacheInv => TypeOK
  <2> SUFFICES ASSUME CacheInv PROVE TypeOK
    OBVIOUS
  <2>0. /\ ReadsTyped(RQ) /\ PrefsTyped(PQ) /\ WritesTyped(WQ) /\ MissesTyped(MSHR)
        /\ NextGood(MSHR, nextFill) /\ CoreTyped
    BY DEF CacheInv, TablesInv
  <2>1. \A p \in PacketSet : PacketOK(p)
    BY DEF PacketSet, PacketOK
  <2>2. ASSUME NEW c \in Caches
        PROVE  /\ Len(RQ[c]) <= RqSize[c] /\ \A i \in DOMAIN RQ[c] : PacketOK(RQ[c][i])
               /\ Len(PQ[c]) <= PqSize[c] /\ \A i \in DOMAIN PQ[c] : PacketOK(PQ[c][i])
               /\ Len(WQ[c]) <= WqSize[c] /\ \A i \in DOMAIN WQ[c] : WQ[c][i].line \in Lines
               /\ Cardinality(MSHR[c]) <= MshrSize[c] /\ \A e \in MSHR[c] : PacketOK(e)
               /\ nextFill[c] \in Lines \cup {0}
    <3>1. Len(RQ[c]) <= RqSize[c] /\ RQ[c] \in Seq(Reads(c))
      BY <2>0 DEF ReadsTyped
    <3>2. Len(PQ[c]) <= PqSize[c] /\ PQ[c] \in Seq(Prefs(c))
      BY <2>0 DEF PrefsTyped
    <3>3. Len(WQ[c]) <= WqSize[c] /\ WQ[c] \in Seq(WritesOf(c))
      BY <2>0 DEF WritesTyped
    <3>4. Cardinality(MSHR[c]) <= MshrSize[c] /\ MSHR[c] \subseteq Misses(c)
      BY <2>0 DEF MissesTyped
    <3>5. \A w \in WritesOf(c) : w.line \in Lines
      BY DEF WritesOf, WriteLines, Lines
    <3>6. Reads(c) \subseteq PacketSet /\ Prefs(c) \subseteq PacketSet /\ Misses(c) \subseteq PacketSet
      BY DEF Reads, Prefs, Misses
    <3>7. \A i \in DOMAIN RQ[c] : RQ[c][i] \in Reads(c)
      BY <3>1
    <3>8. \A i \in DOMAIN PQ[c] : PQ[c][i] \in Prefs(c)
      BY <3>2
    <3>9. \A i \in DOMAIN WQ[c] : WQ[c][i] \in WritesOf(c)
      BY <3>3
    <3>10. nextFill[c] \in Lines \cup {0}
      BY <2>0 DEF NextGood
    <3>11. QED
      BY <2>1, <3>1, <3>2, <3>3, <3>4, <3>5, <3>6, <3>7, <3>8, <3>9, <3>10
  <2>3. fetching \subseteq CodeLines /\ loadLine \in [Loads -> DataLines \cup {0}]
    BY <2>0 DEF CoreTyped
  <2>4. QED
    BY <2>2, <2>3 DEF TypeOK
<1>2. QED
  BY <1>1, CacheInvariant, PTL

(* handle_fill() looks at next_fill_index alone. Whenever some miss of a   *)
(* cache was answered it names an answered miss, whatever answers, merges  *)
(* and fills come between: no answered miss is left in the MSHR for good.  *)
THEOREM FillsInTurn == Spec => []NextFillIsDue
<1>1. CacheInv => NextFillIsDue
  BY DEF CacheInv, TablesInv, NextGood, NextFillIsDue
<1>2. QED
  BY <1>1, CacheInvariant, PTL

(* Requests counted.                                                       *)

(* A set whose elements are all equal has at most one.                     *)
LEMMA AtMostOne ==
  ASSUME NEW S, \A x, y \in S : x = y
  PROVE  Cardinality(S) = IF S = {} THEN 0 ELSE 1
<1>1. CASE S = {}
  BY <1>1, FS_EmptySet
<1>2. CASE S # {}
  <2>1. PICK x \in S : TRUE
    BY <1>2
  <2>2. S = {x}
    BY <2>1
  <2>3. QED
    BY <1>2, <2>2, FS_Singleton
<1>3. QED
  BY <1>1, <1>2

(* The entries of a queue that go up to u with line l: none or one.        *)
Mine(u, l, p) == p.line = l /\ u \in Uppers(Lower[u], p)

(* The packets below that will answer an upper level are those it wants.   *)
LEMMA MineIsWanted ==
  ASSUME NEW u \in Inner, NEW l, NEW p \in PacketSet, Fits(Lower[u], p)
  PROVE  Mine(u, l, p) <=> p.line = l /\ p \in Wanted(u)
BY LowerOf, UppersWant DEF Mine

(* A queue below holds at most one packet that will answer an upper level  *)
(* for a line.                                                             *)
LEMMA MineInQueue ==
  ASSUME NEW u \in Inner, NEW l, NEW T, NEW q \in Seq(T), Distinct(q),
         \A p \in T : p \in PacketSet /\ Fits(Lower[u], p)
  PROVE  Cardinality({i \in DOMAIN q : Mine(u, l, q[i])})
           = IF In(Range(q), l, Wanted(u)) THEN 1 ELSE 0
<1> DEFINE S == {i \in DOMAIN q : Mine(u, l, q[i])}
<1>1. \A i \in DOMAIN q : q[i] \in T
  OBVIOUS
<1>2. \A i \in DOMAIN q : Mine(u, l, q[i]) <=> q[i].line = l /\ q[i] \in Wanted(u)
  BY <1>1, MineIsWanted
<1>3. \A i, j \in S : i = j
  BY <1>2 DEF Distinct
<1>4. S # {} <=> In(Range(q), l, Wanted(u))
  BY <1>2 DEF In, Range
<1> HIDE DEF S
<1>5. Cardinality(S) = IF S = {} THEN 0 ELSE 1
  BY <1>3, AtMostOne
<1>6. Cardinality(S) = IF In(Range(q), l, Wanted(u)) THEN 1 ELSE 0
  BY <1>4, <1>5
<1>7. QED
  BY <1>6 DEF S

(* An MSHR below holds at most one packet that will answer an upper level  *)
(* for a line.                                                             *)
LEMMA MineInMisses ==
  ASSUME NEW u \in Inner, NEW l, NEW m, OneEach(m),
         \A p \in m : p \in PacketSet /\ Fits(Lower[u], p)
  PROVE  Cardinality({e \in m : Mine(u, l, e)}) = IF In(m, l, Wanted(u)) THEN 1 ELSE 0
<1> DEFINE S == {e \in m : Mine(u, l, e)}
<1>1. \A e \in m : Mine(u, l, e) <=> e.line = l /\ e \in Wanted(u)
  BY MineIsWanted
<1>2. \A i, j \in S : i = j
  BY <1>1 DEF OneEach
<1>3. S # {} <=> In(m, l, Wanted(u))
  BY <1>1 DEF In
<1> HIDE DEF S
<1>4. Cardinality(S) = IF S = {} THEN 0 ELSE 1
  BY <1>2, AtMostOne
<1>5. Cardinality(S) = IF In(m, l, Wanted(u)) THEN 1 ELSE 0
  BY <1>3, <1>4
<1>6. QED
  BY <1>5 DEF S

(* A cache has at most one open miss of a line.                            *)
LEMMA MissesWaiting ==
  ASSUME MissesTyped(MSHR), NEW u \in Caches, NEW l
  PROVE  Cardinality({e \in MSHR[u] : e.line = l /\ ~e.returned}) = IF Waits(MSHR, u, l) THEN 1 ELSE 0
<1> DEFINE S == {e \in MSHR[u] : e.line = l /\ ~e.returned}
<1>1. \A e \in MSHR[u] : e \in PacketSet
  BY DEF MissesTyped, Misses
<1>2. \A i, j \in S : i = j
  BY DEF MissesTyped, OneEach
<1>3. S # {} <=> Waits(MSHR, u, l)
  BY <1>1 DEF Waits, In, Open
<1> HIDE DEF S
<1>4. Cardinality(S) = IF S = {} THEN 0 ELSE 1
  BY <1>2, AtMostOne
<1>5. Cardinality(S) = IF Waits(MSHR, u, l) THEN 1 ELSE 0
  BY <1>3, <1>4
<1>6. QED
  BY <1>5 DEF S

(* The requests below that will be returned to cache u.                    *)
LEMMA DueBelow ==
  ASSUME TablesInv, NEW u \in Inner, NEW l \in Lines
  PROVE  AnswersDue(u, l) = (IF InReads(RQ, u, l) THEN 1 ELSE 0) + (IF InPrefs(PQ, u, l) THEN 1 ELSE 0)
                            + (IF InMisses(MSHR, u, l) THEN 1 ELSE 0)
<1> DEFINE d == Lower[u]
<1>1. d \in Caches /\ u # "LLC"
  BY LowerOf DEF Inner
<1>2. /\ RQ[d] \in Seq(Reads(d)) /\ Distinct(RQ[d]) /\ PQ[d] \in Seq(Prefs(d)) /\ Distinct(PQ[d])
      /\ MSHR[d] \subseteq Misses(d) /\ OneEach(MSHR[d])
  BY <1>1 DEF TablesInv, ReadsTyped, PrefsTyped, MissesTyped
<1>3. /\ \A p \in Reads(d) : p \in PacketSet /\ Fits(d, p)
      /\ \A p \in Prefs(d) : p \in PacketSet /\ Fits(d, p)
      /\ \A p \in Misses(d) : p \in PacketSet /\ Fits(d, p)
  BY DEF Reads, Prefs, Misses
<1>4. Cardinality({i \in DOMAIN RQ[d] : Mine(u, l, RQ[d][i])}) = IF InReads(RQ, u, l) THEN 1 ELSE 0
  BY <1>2, <1>3, MineInQueue DEF InReads
<1>5. Cardinality({i \in DOMAIN PQ[d] : Mine(u, l, PQ[d][i])}) = IF InPrefs(PQ, u, l) THEN 1 ELSE 0
  BY <1>2, <1>3, MineInQueue DEF InPrefs
<1>6. Cardinality({e \in MSHR[d] : Mine(u, l, e)}) = IF InMisses(MSHR, u, l) THEN 1 ELSE 0
  BY <1>2, <1>3, MineInMisses DEF InMisses
<1>7. AnswersDue(u, l) = Cardinality({i \in DOMAIN RQ[d] : Mine(u, l, RQ[d][i])})
                         + Cardinality({i \in DOMAIN PQ[d] : Mine(u, l, PQ[d][i])})
                         + Cardinality({e \in MSHR[d] : Mine(u, l, e)})
  BY <1>1 DEF AnswersDue, Mine
<1>8. QED
  BY <1>4, <1>5, <1>6, <1>7

(* return_data() finds a miss that waits for its answer, once: its         *)
(* assertion holds.                                                        *)
NoStrayAnswer ==
  \A u \in Caches : \A l \in Lines :
    AnswersDue(u, l) <= Cardinality({e \in MSHR[u] : e.line = l /\ ~e.returned})

(* The answers under way to a cache for a line are at most its open misses *)
(* of it, and as many when no line is both code and data.                  *)
LEMMA DueIsAwaited ==
  ASSUME TablesInv, NEW u \in Caches, NEW l \in Lines
  PROVE  /\ AnswersDue(u, l) <= Cardinality({e \in MSHR[u] : e.line = l /\ ~e.returned})
         /\ Separate => AnswersDue(u, l) = Cardinality({e \in MSHR[u] : e.line = l /\ ~e.returned})
<1>1. Cardinality({e \in MSHR[u] : e.line = l /\ ~e.returned}) = IF Waits(MSHR, u, l) THEN 1 ELSE 0
  BY MissesWaiting DEF TablesInv
<1>2. CASE u = "LLC"
  <2>1. AnswersDue(u, l) = IF Waits(MSHR, u, l) THEN 1 ELSE 0
    BY <1>2 DEF AnswersDue, TablesInv, WaitLink
  <2>2. QED
    BY <1>1, <2>1
<1>3. CASE u # "LLC"
  <2>1. u \in Inner /\ Linked(RQ, PQ, MSHR, u, l)
    BY <1>3 DEF Inner, TablesInv, Links
  <2>2. AnswersDue(u, l) = (IF InReads(RQ, u, l) THEN 1 ELSE 0) + (IF InPrefs(PQ, u, l) THEN 1 ELSE 0)
                           + (IF InMisses(MSHR, u, l) THEN 1 ELSE 0)
    BY <2>1, DueBelow
  <2>3. QED
    BY <1>1, <2>1, <2>2 DEF Linked
<1>4. QED
  BY <1>2, <1>3

(* CACHE::return_data() stops the program when the MSHR it answers "cannot *)
(* find a matching entry". In every state, for every line and every cache  *)
(* above another, the packets below that will end in a return_data() to    *)
(* that cache are at most its open misses of the line: the assertion       *)
(* cannot fail, whether or not lines are both code and data.               *)
THEOREM NoStrayAnswers == Spec => []NoStrayAnswer
<1>1. CacheInv => NoStrayAnswer
  BY DueIsAwaited DEF CacheInv, NoStrayAnswer
<1>2. QED
  BY <1>1, CacheInvariant, PTL

(* Where no line is both code and data, exactly one answer is on its way   *)
(* for every open miss of L1I, L1D and L2C: no merge in a queue or an      *)
(* MSHR, no refusal by a full queue and no forwarding from a write queue   *)
(* loses a level that waits, and none is answered twice. With a line that  *)
(* is both, a merge keeps one of the two first levels and the other waits  *)
(* for good: the hypothesis is needed.                                     *)
THEOREM MissesAnswered == Separate => (Spec => []OneAnswerPerMiss)
<1> SUFFICES ASSUME Separate PROVE Spec => []OneAnswerPerMiss
  OBVIOUS
<1>1. CacheInv => OneAnswerPerMiss
  BY DueIsAwaited DEF CacheInv, OneAnswerPerMiss
<1>2. QED
  BY <1>1, CacheInvariant, PTL

(* A line is filled once.                                                  *)

Missed(m, c, l) == \E e \in m[c] : e.line = l

(* A line is in one way of a first-level cache, and in none while it is    *)
(* missed.                                                                 *)
OnceInv ==
  \A c \in Level1 : \A l \in Lines :
    /\ \A v, w \in Hits(c, l) : v = w
    /\ Missed(MSHR, c, l) => Hits(c, l) = {}

Packets(m) == \A c \in Caches : m[c] \subseteq Misses(c)

SameLines(m2, m) == \A c \in Caches : \A l : Missed(m2, c, l) => Missed(m, c, l)

(* return_data() changes no line.                                          *)
LEMMA MarkedLines ==
  ASSUME NEW c \in Caches, NEW S \in SUBSET Misses(c), NEW l, NEW y \in Marked(S, l)
  PROVE  \E x \in S : x.line = y.line
<1>1. PICK x \in S : y = IF x.line = l THEN [x EXCEPT !.returned = TRUE] ELSE x
  BY DEF Marked
<1>2. x \in Misses(c)
  OBVIOUS
<1>3. [x EXCEPT !.returned = TRUE].line = x.line
  BY <1>2, ReturnedPacket
<1>4. QED
  BY <1>1, <1>3

(* return_data() changes no line of an MSHR.                               *)
LEMMA ReturnedLines ==
  ASSUME NEW us, NEW l, NEW m, NEW n, Packets(m), return_data(us, l, m, n)
  PROVE  SameLines(MSHR', m)
<1> SUFFICES ASSUME NEW c \in Caches, NEW k, NEW y \in MSHR'[c], y.line = k
             PROVE  \E x \in m[c] : x.line = k
  BY DEF SameLines, Missed
<1>1. MSHR'[c] = IF c \in us THEN Marked(m[c], l) ELSE m[c]
  BY DEF return_data, Marked
<1>2. CASE c \notin us
  BY <1>1, <1>2
<1>3. CASE c \in us
  <2> DEFINE S == m[c]
  <2>1. S \in SUBSET Misses(c)
    BY DEF Packets
  <2> HIDE DEF S
  <2>2. \A x \in Marked(S, l) : \E e \in S : e.line = x.line
    BY <2>1, MarkedLines
  <2>3. QED
    BY <1>1, <1>3, <2>2 DEF S
<1>4. QED
  BY <1>2, <1>3

(* add_rq() and add_pq() change no line of an MSHR, even when they answer  *)
(* at once.                                                                *)
LEMMA AddedLines ==
  ASSUME NEW d, NEW p, NEW q, NEW m, Packets(m), add_rq(d, p, q, m) \/ add_pq(d, p, q, m)
  PROVE  SameLines(MSHR', m)
<1>1. CASE MSHR' = m
  BY <1>1 DEF SameLines, Missed
<1>2. CASE return_data(Uppers(d, p), p.line, m, nextFill)
  BY <1>2, ReturnedLines
<1>3. QED
  BY <1>1, <1>2 DEF add_rq, add_pq

(* A handler starts a miss on a line the cache does not have, or none.     *)
NewMisses(c, l) ==
  \A d \in Caches : \A k : Missed(MSHR', d, k) => Missed(MSHR, d, k) \/ (d = c /\ k = l)

(* A miss of a cache adds at most its own line to its MSHR.                *)
LEMMA MissesAdded ==
  ASSUME MissesTyped(MSHR), NEW c \in Caches, NEW p, NEW m,
         m = MSHR \/ (p \in Misses(c) /\ m = [MSHR EXCEPT ![c] = @ \cup {p}]),
         (MSHR' = m) \/ (\E d, x, q : add_rq(d, x, q, m) \/ add_pq(d, x, q, m))
  PROVE  NewMisses(c, p.line)
<1>1. MSHR = [d \in Caches |-> MSHR[d]] /\ Packets(MSHR)
  BY DEF MissesTyped, Packets
<1>2. Packets(m) /\ \A d \in Caches : \A k : Missed(m, d, k) => Missed(MSHR, d, k) \/ (d = c /\ k = p.line)
  <2>1. CASE m = MSHR
    BY <1>1, <2>1
  <2>2. CASE p \in Misses(c) /\ m = [MSHR EXCEPT ![c] = @ \cup {p}]
    <3> DEFINE x == MSHR[c] \cup {p}
    <3>1. m[c] = x /\ \A d \in Caches : d # c => m[d] = MSHR[d]
      BY <1>1, <2>2
    <3>2. Packets(m)
      BY <1>1, <2>2, <3>1 DEF Packets
    <3>3. \A d \in Caches : \A k : Missed(m, d, k) => Missed(MSHR, d, k) \/ (d = c /\ k = p.line)
      BY <3>1 DEF Missed
    <3>4. QED
      BY <3>2, <3>3
  <2>3. QED
    BY <2>1, <2>2
<1>3. SameLines(MSHR', m)
  <2>1. CASE MSHR' = m
    BY <2>1 DEF SameLines, Missed
  <2>2. CASE \E d, x, q : add_rq(d, x, q, m) \/ add_pq(d, x, q, m)
    <3>1. Packets(m)
      BY <1>2
    <3>2. PICK d, x, q : add_rq(d, x, q, m) \/ add_pq(d, x, q, m)
      BY <2>2
    <3>3. QED
      BY <3>1, <3>2, AddedLines
  <2>3. QED
    BY <2>1, <2>2
<1>4. QED
  BY <1>2, <1>3 DEF SameLines, NewMisses

(* The ways that hold a line.                                              *)
LEMMA SameHits ==
  ASSUME NEW c \in Caches, NEW l \in Lines,
         \A w \in 0 .. NumWay[c] - 1 : /\ blocks'[c][get_set(c, l)][w].line = blocks[c][get_set(c, l)][w].line
                                      /\ blocks'[c][get_set(c, l)][w].valid = blocks[c][get_set(c, l)][w].valid
  PROVE  Hits(c, l)' = Hits(c, l)
BY DEF Hits, get_set

(* A cache whose blocks keep their lines has the hits it had.              *)
LEMMA HitsKept ==
  ASSUME NEW c \in Caches, NEW l \in Lines,
         AllSame \/ \E d \in Caches : \E s, w : AllBut(d, s, w) /\ d # c
  PROVE  Hits(c, l)' = Hits(c, l)
<1>1. get_set(c, l) \in Sets(c)
  BY SetOf
<1>2. \A w \in 0 .. NumWay[c] - 1 : Same(blocks'[c][get_set(c, l)][w], blocks[c][get_set(c, l)][w])
  BY <1>1 DEF AllSame, AllBut
<1>3. QED
  BY <1>2, SameHits DEF Same

(* A write hit changes no hits.                                            *)
LEMMA HitsWritten ==
  ASSUME StacksInv, WritesTyped(WQ), NEW d \in Caches, WritebackHit(d), NEW c \in Caches, NEW l \in Lines
  PROVE  Hits(c, l)' = Hits(c, l)
<1>1. get_set(c, l) \in Sets(c)
  BY SetOf
<1>2. PICK s \in Sets(d) : \E w \in 0 .. NumWay[d] - 1 :
           /\ AllBut(d, s, w)
           /\ blocks'[d][s][w].line = Head(WQ[d]).line /\ blocks[d][s][w].line = Head(WQ[d]).line
           /\ blocks'[d][s][w].valid = blocks[d][s][w].valid
  BY WritebackHitEffect
<1>3. PICK w \in 0 .. NumWay[d] - 1 :
           /\ AllBut(d, s, w)
           /\ blocks'[d][s][w].line = Head(WQ[d]).line /\ blocks[d][s][w].line = Head(WQ[d]).line
           /\ blocks'[d][s][w].valid = blocks[d][s][w].valid
  BY <1>2
<1>4. ASSUME NEW v \in 0 .. NumWay[c] - 1
      PROVE  /\ blocks'[c][get_set(c, l)][v].line = blocks[c][get_set(c, l)][v].line
             /\ blocks'[c][get_set(c, l)][v].valid = blocks[c][get_set(c, l)][v].valid
  <2>1. CASE c = d /\ get_set(c, l) = s /\ v = w
    BY <1>3, <2>1
  <2>2. CASE ~(c = d /\ get_set(c, l) = s /\ v = w)
    BY <1>1, <1>3, <2>2 DEF AllBut, Same
  <2>3. QED
    BY <2>1, <2>2
<1>5. QED
  BY <1>4, SameHits

(* A fill makes at most its own way hold the line it fills.                *)
LEMMA HitsFilled ==
  ASSUME NEW c \in Caches, NEW k \in Lines, NEW w, NEW dirty,
         FillsBlock(c, get_set(c, k), w, k, dirty), NEW l \in Lines
  PROVE  Hits(c, l)' \subseteq Hits(c, l) \cup (IF l = k THEN {w} ELSE {})
<1>1. get_set(c, l) \in Sets(c)
  BY SetOf
<1> SUFFICES ASSUME NEW v \in 0 .. NumWay[c] - 1,
                    blocks'[c][get_set(c, l)][v].valid, blocks'[c][get_set(c, l)][v].line = l,
                    ~(l = k /\ v = w)
             PROVE  blocks[c][get_set(c, l)][v].valid /\ blocks[c][get_set(c, l)][v].line = l
  BY DEF Hits, get_set
<1>2. CASE get_set(c, l) = get_set(c, k) /\ v = w
  BY <1>2 DEF FillsBlock
<1>3. CASE ~(get_set(c, l) = get_set(c, k) /\ v = w)
  BY <1>1, <1>3 DEF FillsBlock, AllBut, Same
<1>4. QED
  BY <1>2, <1>3

(* A line that missed in a cache may enter its MSHR.                       *)
LEMMA OnceKept ==
  ASSUME OnceInv, NEW d \in Caches, NEW k, NewMisses(d, k), Hits(d, k) = {},
         \A c \in Level1 : \A l \in Lines : Hits(c, l)' \subseteq Hits(c, l)
  PROVE  OnceInv'
<1> SUFFICES ASSUME NEW c \in Level1, NEW l \in Lines
             PROVE  /\ \A v, w \in Hits(c, l)' : v = w
                    /\ Missed(MSHR', c, l) => Hits(c, l)' = {}
  BY DEF OnceInv, Missed
<1>1. c \in Caches
  BY DEF Caches, Level1
<1>2. Hits(c, l)' \subseteq Hits(c, l)
  BY <1>1
<1>3. \A v, w \in Hits(c, l)' : v = w
  BY <1>2 DEF OnceInv
<1>4. Missed(MSHR', c, l) => Missed(MSHR, c, l) \/ (c = d /\ l = k)
  BY <1>1 DEF NewMisses
<1>5. Missed(MSHR', c, l) => Hits(c, l) = {}
  BY <1>4 DEF OnceInv
<1>6. QED
  BY <1>2, <1>3, <1>5

(* A step that adds no miss and no hit to the first levels keeps their     *)
(* lines single.                                                           *)
LEMMA OnceSame ==
  ASSUME OnceInv, SameLines(MSHR', MSHR),
         \A c \in Level1 : \A l \in Lines : Hits(c, l)' \subseteq Hits(c, l)
  PROVE  OnceInv'
<1> SUFFICES ASSUME NEW c \in Level1, NEW l \in Lines
             PROVE  /\ \A v, w \in Hits(c, l)' : v = w
                    /\ Missed(MSHR', c, l) => Hits(c, l)' = {}
  BY DEF OnceInv, Missed
<1>1. c \in Caches
  BY DEF Caches, Level1
<1>2. Hits(c, l)' \subseteq Hits(c, l)
  BY <1>1
<1>3. Missed(MSHR', c, l) => Missed(MSHR, c, l)
  BY <1>1 DEF SameLines
<1>4. QED
  BY <1>2, <1>3 DEF OnceInv

(* A fill ends the miss of the line it puts in.                            *)
LEMMA FillLines ==
  ASSUME TablesInv, StacksInv, BlocksTyped, NEW c \in Caches, HandleFill(c)
  PROVE  SameLines(MSHR', MSHR) /\ ~Missed(MSHR', c, nextFill[c])
<1> DEFINE e == check_mshr(c, nextFill[c])
           x == MSHR[c] \ {e}
           m == [MSHR EXCEPT ![c] = x]
<1>1. MissesTyped(MSHR) /\ e \in MSHR[c] /\ e.line = nextFill[c]
  BY FillTables DEF TablesInv
<1>2. \E n : return_data(Uppers(c, e), e.line, m, n)
  BY DEF HandleFill
<1>3. MSHR = [d \in Caches |-> MSHR[d]] /\ Packets(MSHR) /\ OneEach(MSHR[c])
  BY <1>1 DEF MissesTyped, Packets
<1> HIDE DEF e
<1>4. m[c] = x /\ \A d \in Caches : d # c => m[d] = MSHR[d]
  BY <1>3
<1> HIDE DEF m
<1>5. Packets(m) /\ SameLines(m, MSHR)
  BY <1>3, <1>4 DEF Packets, SameLines, Missed
<1>6. ~Missed(m, c, e.line)
  BY <1>1, <1>3, <1>4 DEF Missed, OneEach
<1>7. SameLines(MSHR', m)
  BY <1>2, <1>5, ReturnedLines
<1>8. QED
  BY <1>1, <1>5, <1>6, <1>7 DEF SameLines

(* A fill takes its line out of the MSHR as it puts it in a block.         *)
LEMMA OnceFilled ==
  ASSUME TablesInv, StacksInv, BlocksTyped, OnceInv, NEW c \in Caches, HandleFill(c)
  PROVE  OnceInv'
<1> DEFINE e == check_mshr(c, nextFill[c])  k == nextFill[c]  s == get_set(c, k)
           way == lru_victim(blocks[c][s])  dirty == c = "L1D" /\ e.type = "rfo"
<1>1. k \in Lines /\ FillsBlock(c, s, way, k, dirty) /\ e \in MSHR[c] /\ e.line = k
  BY HandleFillEffect
<1>2. SameLines(MSHR', MSHR) /\ ~Missed(MSHR', c, k)
  BY FillLines
<1>3. Missed(MSHR, c, k)
  BY <1>1 DEF Missed
<1> HIDE DEF e, k, way, dirty
<1>4. \A l \in Lines : Hits(c, l)' \subseteq Hits(c, l) \cup (IF l = k THEN {way} ELSE {})
  BY <1>1, HitsFilled DEF s
<1>5. \A d \in Caches : \A l \in Lines : d # c => Hits(d, l)' = Hits(d, l)
  BY <1>1, HitsKept DEF FillsBlock
<1> SUFFICES ASSUME NEW d \in Level1, NEW l \in Lines
             PROVE  /\ \A v, w \in Hits(d, l)' : v = w
                    /\ Missed(MSHR', d, l) => Hits(d, l)' = {}
  BY DEF OnceInv, Missed
<1>6. d \in Caches /\ (Missed(MSHR', d, l) => Missed(MSHR, d, l))
  BY <1>2 DEF Caches, Level1, SameLines
<1>7. CASE d # c
  BY <1>5, <1>6, <1>7 DEF OnceInv
<1>8. CASE d = c /\ l # k
  BY <1>4, <1>6, <1>8 DEF OnceInv
<1>9. CASE d = c /\ l = k
  <2>1. Hits(d, l) = {} /\ Hits(d, l)' \subseteq {way}
    BY <1>3, <1>4, <1>9 DEF OnceInv
  <2>2. QED
    BY <1>2, <1>9, <2>1
<1>10. QED
  BY <1>7, <1>8, <1>9

(* A packet joins a miss: the lines missed are the same.                   *)
LEMMA JoinedLines ==
  ASSUME MissesTyped(MSHR), NEW c \in Caches, NEW e \in MSHR[c], NEW q, q.line = e.line,
         MSHR' = [MSHR EXCEPT ![c] = (@ \ {e}) \cup {q}]
  PROVE  SameLines(MSHR', MSHR)
<1>1. MSHR = [d \in Caches |-> MSHR[d]]
  BY DEF MissesTyped
<1>2. MSHR'[c] = (MSHR[c] \ {e}) \cup {q} /\ \A d \in Caches : d # c => MSHR'[d] = MSHR[d]
  BY <1>1
<1>3. QED
  BY <1>2 DEF SameLines, Missed

(* No block changes, no hit changes.                                       *)
LEMMA HitsUnchanged ==
  ASSUME UNCHANGED blocks
  PROVE  \A c \in Level1 : \A l \in Lines : Hits(c, l)' \subseteq Hits(c, l)
BY DEF Hits, get_set, Level1, Caches

(* A step that leaves blocks and MSHRs alone keeps the first levels' lines *)
(* single.                                                                 *)
LEMMA NoneMissed ==
  ASSUME OnceInv, UNCHANGED <<blocks, MSHR>>
  PROVE  OnceInv'
BY HitsUnchanged, OnceSame DEF SameLines, Missed

(* A read enters the MSHR only when its line is in no block.               *)
LEMMA ReadMissOnce ==
  ASSUME TablesInv, OnceInv, NEW c \in Caches, ReadMiss(c)
  PROVE  OnceInv'
<1> DEFINE p == Head(RQ[c])  m == [MSHR EXCEPT ![c] = @ \cup {p}]
<1>1. RQ[c] # <<>> /\ Hits(c, p.line) = {} /\ UNCHANGED blocks
  BY DEF ReadMiss, NewMiss
<1>2. ReadsTyped(RQ) /\ MissesTyped(MSHR)
  BY DEF TablesInv
<1>3. p \in Misses(c)
  BY <1>1, <1>2, ReadLeaves, MissOfRead
<1>4. MSHR' = m \/ \E d, x, q : add_rq(d, x, q, m) \/ add_pq(d, x, q, m)
  BY DEF ReadMiss
<1>5. NewMisses(c, p.line)
  <2>1. m = MSHR \/ (p \in Misses(c) /\ m = [MSHR EXCEPT ![c] = @ \cup {p}])
    BY <1>3
  <2> HIDE DEF p, m
  <2>2. QED
    BY <1>2, <1>4, <2>1, MissesAdded
<1> HIDE DEF p, m
<1>6. QED
  BY <1>1, <1>5, HitsUnchanged, OnceKept

(* A prefetch enters the MSHR only when its line is in no block.           *)
LEMMA PrefetchMissOnce ==
  ASSUME TablesInv, OnceInv, NEW c \in Caches, PrefetchMiss(c)
  PROVE  OnceInv'
<1> DEFINE p == Head(PQ[c])  n == [MSHR EXCEPT ![c] = @ \cup {p}]
           m == IF p.fill_level <= FillLevel[c] THEN n ELSE MSHR
<1>1. PQ[c] # <<>> /\ Hits(c, p.line) = {} /\ UNCHANGED blocks
  BY DEF PrefetchMiss, NewMiss
<1>2. PrefsTyped(PQ) /\ MissesTyped(MSHR)
  BY DEF TablesInv
<1>3. p \in Prefs(c)
  BY <1>1, <1>2, PrefetchLeaves
<1>4. MSHR' = m \/ \E d, x, q : add_rq(d, x, q, m) \/ add_pq(d, x, q, m)
  BY DEF PrefetchMiss
<1>5. NewMisses(c, p.line)
  <2>1. m = MSHR \/ (p \in Misses(c) /\ m = [MSHR EXCEPT ![c] = @ \cup {p}])
    BY <1>3, MissOfPrefetch
  <2> HIDE DEF p, m, n
  <2>2. QED
    BY <1>2, <1>4, <2>1, MissesAdded
<1> HIDE DEF p, m, n
<1>6. QED
  BY <1>1, <1>5, HitsUnchanged, OnceKept

(* A store enters the MSHR of the L1D only when its line is in no block.   *)
LEMMA StoreMissOnce ==
  ASSUME TablesInv, OnceInv, StoreMiss
  PROVE  OnceInv'
<1> DEFINE c == "L1D"  l == Head(WQ[c]).line  p == StorePacket(l)  m == [MSHR EXCEPT ![c] = @ \cup {p}]
<1>1. /\ WQ[c] # <<>> /\ Hits(c, l) = {} /\ UNCHANGED blocks /\ c \in Caches
      /\ add_rq("L2C", p, RQ, m)
  BY CacheNames DEF StoreMiss
<1>2. WritesTyped(WQ) /\ MissesTyped(MSHR)
  BY DEF TablesInv
<1>3. p \in Misses(c) /\ p.line = l
  <2>1. Head(WQ[c]) \in WritesOf(c)
    BY <1>1, <1>2, PoppedWrite
  <2>2. l \in DataLines
    BY <2>1 DEF WritesOf, WriteLines
  <2>3. QED
    BY <2>2, StorePackets
<1>4. NewMisses(c, l)
  <2>1. /\ m = MSHR \/ (p \in Misses(c) /\ m = [MSHR EXCEPT ![c] = @ \cup {p}])
        /\ MSHR' = m \/ \E d, x, q : add_rq(d, x, q, m) \/ add_pq(d, x, q, m)
    BY <1>1, <1>3
  <2> HIDE DEF p, m, c
  <2>2. NewMisses(c, p.line)
    BY <1>1, <1>2, <2>1, MissesAdded
  <2>3. QED
    BY <1>3, <2>2
<1> HIDE DEF c, l, p, m
<1>5. QED
  BY <1>1, <1>4, HitsUnchanged, OnceKept

(* A packet joins a miss.                                                  *)
LEMMA MergeOnce ==
  ASSUME MissesTyped(MSHR), OnceInv, NEW c \in Caches, NEW e \in MSHR[c], NEW q, q.line = e.line,
         MSHR' = [MSHR EXCEPT ![c] = (@ \ {e}) \cup {q}], UNCHANGED blocks
  PROVE  OnceInv'
BY JoinedLines, HitsUnchanged, OnceSame

(* A read that joins a miss adds no line.                                  *)
LEMMA ReadMergeOnce ==
  ASSUME TablesInv, OnceInv, NEW c \in Caches, ReadMerge(c)
  PROVE  OnceInv'
<1> DEFINE p == Head(RQ[c])  e == check_mshr(c, p.line)  q == JoinedByRead(e, p)
<1>1. /\ RQ[c] # <<>> /\ InMshr(c, p.line) # {} /\ UNCHANGED blocks
      /\ MSHR' = [MSHR EXCEPT ![c] = (@ \ {e}) \cup {q}]
  BY DEF ReadMerge
<1>2. ReadsTyped(RQ) /\ MissesTyped(MSHR)
  BY DEF TablesInv
<1>3. e \in MSHR[c] /\ e.line = p.line /\ e \in Misses(c) /\ p \in Reads(c)
  BY <1>1, <1>2, ChosenMiss, ReadLeaves
<1> HIDE DEF p, e
<1>4. q.line = e.line
  BY <1>3, JoinedByReadPacket DEF Joins
<1> HIDE DEF q
<1>5. QED
  BY <1>1, <1>2, <1>3, <1>4, MergeOnce

(* A prefetch that joins a miss adds no line.                              *)
LEMMA PrefetchMergeOnce ==
  ASSUME TablesInv, OnceInv, NEW c \in Caches, PrefetchMerge(c)
  PROVE  OnceInv'
<1> DEFINE p == Head(PQ[c])  e == check_mshr(c, p.line)
           q == [e EXCEPT !.fill_level = IF p.fill_level < @ THEN p.fill_level ELSE @,
                          !.fill_l1i = @ \/ p.fill_l1i, !.fill_l1d = @ \/ p.fill_l1d]
<1>1. /\ PQ[c] # <<>> /\ InMshr(c, p.line) # {} /\ UNCHANGED blocks
      /\ MSHR' = [MSHR EXCEPT ![c] = (@ \ {e}) \cup {q}]
  BY DEF PrefetchMerge
<1>2. PrefsTyped(PQ) /\ MissesTyped(MSHR)
  BY DEF TablesInv
<1>3. e \in MSHR[c] /\ e.line = p.line /\ e \in Misses(c) /\ p \in Prefs(c)
  BY <1>1, <1>2, ChosenMiss, PrefetchLeaves
<1> HIDE DEF p, e
<1>4. Joins(c, e, p, q)
  BY <1>3, JoinedByPrefetchPacket
<1> HIDE DEF q
<1>5. q.line = e.line
  BY <1>4 DEF Joins
<1>6. QED
  BY <1>1, <1>2, <1>3, <1>5, MergeOnce

(* A store that joins a miss adds no line.                                 *)
LEMMA StoreMergeOnce ==
  ASSUME TablesInv, OnceInv, StoreMerge
  PROVE  OnceInv'
<1> DEFINE c == "L1D"  l == Head(WQ[c]).line  p == StorePacket(l)  e == check_mshr(c, l)
           n == [e EXCEPT !.fill_level = 1, !.fill_l1d = TRUE]
           q == IF e.type = "prefetch" THEN Replaced(e, p) ELSE n
<1>1. /\ WQ[c] # <<>> /\ InMshr(c, l) # {} /\ UNCHANGED blocks /\ c \in Caches
      /\ MSHR' = [MSHR EXCEPT ![c] = (@ \ {e}) \cup {q}]
  BY CacheNames DEF StoreMerge
<1>2. WritesTyped(WQ) /\ MissesTyped(MSHR)
  BY DEF TablesInv
<1>3. e \in MSHR[c] /\ e.line = l /\ e \in Misses(c)
  BY <1>1, <1>2, ChosenMiss
<1>4. p \in Reads(c) /\ p.line = l
  <2>1. Head(WQ[c]) \in WritesOf(c)
    BY <1>1, <1>2, PoppedWrite
  <2>2. l \in DataLines
    BY <2>1 DEF WritesOf, WriteLines
  <2>3. QED
    BY <2>2, StorePackets
<1> HIDE DEF l, e, p
<1>5. Replaced(e, p).line = e.line
  BY <1>1, <1>3, <1>4, ReplacedPacket DEF Joins
<1>6. n.line = e.line
  BY <1>3, JoinedByStorePacket
<1> HIDE DEF n
<1>7. q.line = e.line
  BY <1>5, <1>6
<1> HIDE DEF q, c
<1>8. QED
  BY <1>1, <1>2, <1>3, <1>7, MergeOnce

(* Data is returned, and the blocks hold what they held.                   *)
LEMMA ReturnOnce ==
  ASSUME TablesInv, OnceInv, \A c \in Caches : \A l \in Lines : Hits(c, l)' = Hits(c, l),
         (MSHR' = MSHR) \/ (\E us, l, n : return_data(us, l, MSHR, n))
                        \/ (\E d, x, q : add_rq(d, x, q, MSHR) \/ add_pq(d, x, q, MSHR))
  PROVE  OnceInv'
<1>1. Packets(MSHR)
  BY DEF TablesInv, MissesTyped, Packets
<1>2. SameLines(MSHR', MSHR)
  <2>1. CASE MSHR' = MSHR
    BY <2>1 DEF SameLines, Missed
  <2>2. CASE MSHR' # MSHR
    BY <1>1, <2>2, ReturnedLines, AddedLines
  <2>3. QED
    BY <2>1, <2>2
<1>3. \A c \in Level1 : \A l \in Lines : Hits(c, l)' \subseteq Hits(c, l)
  BY DEF Level1, Caches
<1>4. QED
  BY <1>2, <1>3, OnceSame

(* The hits depend on the blocks only.                                     *)
LEMMA HitsAreSame ==
  ASSUME UNCHANGED blocks
  PROVE  \A c \in Caches : \A l \in Lines : Hits(c, l)' = Hits(c, l)
BY DEF Hits, get_set

(* Every step keeps the lines of the first levels single, in blocks and    *)
(* MSHR together.                                                          *)
LEMMA StepKeepsOnce ==
  ASSUME CacheInv, OnceInv, [Next]_vars
  PROVE  OnceInv'
<1>0. /\ StacksInv /\ TablesInv /\ BlocksTyped /\ ReadsTyped(RQ) /\ PrefsTyped(PQ) /\ WritesTyped(WQ)
  BY DEF CacheInv, TablesInv
<1>1. ASSUME UNCHANGED <<blocks, MSHR>> PROVE OnceInv'
  BY <1>1, NoneMissed
<1>2. CASE UNCHANGED vars
  BY <1>1, <1>2 DEF vars
<1>3. ASSUME NEW c \in Caches, HandleFill(c) PROVE OnceInv'
  BY <1>0, <1>3, OnceFilled
<1>4. ASSUME NEW c \in Caches, HandleWriteback(c) PROVE OnceInv'
  <2>1. CASE WritebackHit(c)
    <3>1. MSHR' = MSHR
      BY <2>1 DEF WritebackHit
    <3>2. \A d \in Caches : \A l \in Lines : Hits(d, l)' = Hits(d, l)
      BY <1>0, <2>1, HitsWritten
    <3>3. QED
      BY <1>0, <3>1, <3>2, ReturnOnce
  <2>2. CASE WritebackMiss(c)
    <3> DEFINE l == Head(WQ[c]).line  s == get_set(c, l)
               way == lru_victim(blocks[c][s])  dirty == TRUE
    <3>1. FillsBlock(c, s, way, l, dirty) /\ c \notin Level1
      BY <1>0, <2>2, WritebackMissEffect DEF Level1
    <3> HIDE DEF l, s, way, dirty
    <3>2. \A d \in Level1 : d \in Caches /\ d # c
      BY <3>1 DEF Level1, Caches
    <3>3. \A d \in Level1 : \A k \in Lines : Hits(d, k)' \subseteq Hits(d, k)
      BY <3>1, <3>2, HitsKept DEF FillsBlock
    <3>4. SameLines(MSHR', MSHR)
      BY <2>2 DEF WritebackMiss, SameLines, Missed
    <3>5. QED
      BY <3>3, <3>4, OnceSame
  <2>3. CASE StoreMiss
    BY <1>0, <2>3, StoreMissOnce
  <2>4. CASE StoreMerge
    BY <1>0, <2>4, StoreMergeOnce
  <2>5. QED
    BY <1>4, <2>1, <2>2, <2>3, <2>4 DEF HandleWriteback
<1>5. ASSUME NEW c \in Caches, HandleRead(c) PROVE OnceInv'
  <2>1. CASE ReadHit(c)
    <3> DEFINE l == Head(RQ[c]).line
    <3>1. Hits(c, l) # {} /\ blocks' = Used(c, l) /\ RQ[c] # <<>>
          /\ \E us, k, n : return_data(us, k, MSHR, n)
      BY <2>1 DEF ReadHit
    <3>2. l \in Lines
      BY <1>0, <3>1, ReadLeaves
    <3> HIDE DEF l
    <3>3. AllSame
      BY <1>0, <3>1, <3>2, UseEffect
    <3>4. \A d \in Caches : \A k \in Lines : Hits(d, k)' = Hits(d, k)
      BY <3>3, HitsKept
    <3>5. QED
      BY <1>0, <3>1, <3>4, ReturnOnce
  <2>2. CASE ReadMiss(c)
    BY <1>0, <2>2, ReadMissOnce
  <2>3. CASE ReadMerge(c)
    BY <1>0, <2>3, ReadMergeOnce
  <2>4. QED
    BY <1>5, <2>1, <2>2, <2>3 DEF HandleRead
<1>6. ASSUME NEW c \in Caches, HandlePrefetch(c) PROVE OnceInv'
  <2>1. CASE PrefetchHit(c)
    <3> DEFINE l == Head(PQ[c]).line
    <3>1. Hits(c, l) # {} /\ blocks' = Used(c, l) /\ PQ[c] # <<>>
          /\ \E us, k, n : return_data(us, k, MSHR, n)
      BY <2>1 DEF PrefetchHit
    <3>2. l \in Lines
      BY <1>0, <3>1, PrefetchLeaves
    <3> HIDE DEF l
    <3>3. AllSame
      BY <1>0, <3>1, <3>2, UseEffect
    <3>4. \A d \in Caches : \A k \in Lines : Hits(d, k)' = Hits(d, k)
      BY <3>3, HitsKept
    <3>5. QED
      BY <1>0, <3>1, <3>4, ReturnOnce
  <2>2. CASE PrefetchMiss(c)
    BY <1>0, <2>2, PrefetchMissOnce
  <2>3. CASE PrefetchMerge(c)
    BY <1>0, <2>3, PrefetchMergeOnce
  <2>4. QED
    BY <1>6, <2>1, <2>2, <2>3 DEF HandlePrefetch
<1>7. CASE \E c \in Level1 : CoreTakes(c)
  BY <1>7, <1>1 DEF CoreTakes
<1>8. CASE ManagerStep
  <2>1. UNCHANGED blocks /\ ((MSHR' = MSHR) \/ \E us, l, n : return_data(us, l, MSHR, n))
    BY <1>8 DEF ManagerStep
  <2>2. QED
    BY <1>0, <2>1, HitsAreSame, ReturnOnce
<1>9. CASE Environment
  <2>1. UNCHANGED blocks /\ ((MSHR' = MSHR) \/ \E d, x, q : add_rq(d, x, q, MSHR) \/ add_pq(d, x, q, MSHR))
    BY <1>9 DEF Environment, Fetch, Load, Store, Prefetch
  <2>2. QED
    BY <1>0, <2>1, HitsAreSame, ReturnOnce
<1>10. QED
  BY <1>2, <1>3, <1>4, <1>5, <1>6, <1>7, <1>8, <1>9 DEF Next, System, Operate

(* At first no line is held or missed.                                     *)
LEMMA InitOnce == Init => OnceInv
<1> SUFFICES ASSUME Init PROVE OnceInv
  OBVIOUS
<1>1. blocks = [c \in Caches |-> [s \in Sets(c) |-> [w \in 0 .. NumWay[c] - 1 |-> EmptyBlock(w)]]]
  BY DEF Init, Sets
<1>2. \A w : ~EmptyBlock(w).valid
  BY DEF EmptyBlock
<1>3. ASSUME NEW c \in Level1, NEW l \in Lines
      PROVE  Hits(c, l) = {}
  <2>1. c \in Caches
    BY DEF Level1, Caches
  <2>2. get_set(c, l) \in Sets(c)
    BY <2>1, SetOf
  <2>3. QED
    BY <1>1, <1>2, <2>1, <2>2 DEF Hits
<1>4. QED
  BY <1>3 DEF OnceInv

(* L1I and L1D never hold a line in two ways, nor hold a line they have a  *)
(* miss for: a miss is taken only when check_hit() fails, and              *)
(* handle_fill() leaves the MSHR in the step that fills the block.         *)
THEOREM LinesFilledOnce == Spec => []FilledOnce
<1>1. OnceInv /\ CacheInv => FilledOnce
  <2> SUFFICES ASSUME OnceInv, CacheInv, NEW c \in Level1, NEW l \in Lines
               PROVE  Cardinality(Hits(c, l)) + Cardinality(InMshr(c, l)) <= 1
    BY DEF FilledOnce
  <2>1. \A e, f \in InMshr(c, l) : e = f
    BY DEF CacheInv, TablesInv, MissesTyped, OneEach, InMshr, Level1, Caches
  <2>2. \A v, w \in Hits(c, l) : v = w
    BY DEF OnceInv
  <2>3. InMshr(c, l) # {} => Hits(c, l) = {}
    BY DEF OnceInv, InMshr, Missed
  <2>4. Cardinality(Hits(c, l)) = IF Hits(c, l) = {} THEN 0 ELSE 1
    BY <2>2, AtMostOne
  <2>5. Cardinality(InMshr(c, l)) = IF InMshr(c, l) = {} THEN 0 ELSE 1
    BY <2>1, AtMostOne
  <2>6. QED
    BY <2>3, <2>4, <2>5
<1>2. Spec => [](CacheInv /\ OnceInv)
  <2>1. Init => CacheInv /\ OnceInv
    BY InitCaches, InitOnce
  <2>2. CacheInv /\ OnceInv /\ [Next]_vars => CacheInv' /\ OnceInv'
    BY StepKeepsCaches, StepKeepsOnce
  <2>3. QED
    BY <2>1, <2>2, PTL DEF Spec
<1>3. QED
  BY <1>1, <1>2, PTL

(* Dirty data.                                                             *)

DirtyBlock(l) ==
  \E c \in Caches : \E s \in Sets(c) : \E w \in 0 .. NumWay[c] - 1 :
    blocks[c][s][w].dirty /\ blocks[c][s][w].line = l

InWrites(w, l) == \E c \in {"L2C", "LLC"} : \E i \in 1 .. Len(w[c]) : w[c][i].line = l

(* The write queues and the blocks that Dirty() looks through.             *)
LEMMA DirtyIs ==
  ASSUME StacksInv, WritesTyped(WQ), NEW l
  PROVE  Dirty(l) <=> DirtyBlock(l) \/ InWrites(WQ, l)
<1>1. \A c \in Caches : /\ DOMAIN blocks[c] = Sets(c)
                        /\ \A s \in Sets(c) : DOMAIN blocks[c][s] = 0 .. NumWay[c] - 1
  BY DEF StacksInv, IsStack, IsSet
<1>2. \A c \in {"L2C", "LLC"} : DOMAIN WQ[c] = 1 .. Len(WQ[c])
  BY DEF WritesTyped, Caches
<1>3. QED
  BY <1>1, <1>2 DEF Dirty, DirtyBlock, InWrites

(* The manager accepts a write.                                            *)
LEMMA WriteAccepted ==
  ASSUME MemInv, NEW l \in Lines, ToManager(l, TRUE)
  PROVE  WritesAccepted(l)' > WritesAccepted(l)
<1> DEFINE r == [addr |-> l, isWrite |-> TRUE]  k == l % NumIndices
           S(q) == {i \in DOMAIN q : q[i] = r}  q == queue[k]  t == queue'[k]
<1>1. k \in 0 .. NumIndices - 1
  BY CacheAssumption
<1>2. q \in Seq(Manager!Request) /\ queue = [i \in 0 .. NumIndices - 1 |-> queue[i]]
  BY <1>1 DEF MemInv
<1>3. t = Append(q, r)
  <2>1. queue' = [queue EXCEPT ![k] = Append(@, r)]
    BY DEF ToManager, Manager!Accept, Manager!Index
  <2> HIDE DEF k, r
  <2>2. queue'[k] = Append(queue[k], r)
    BY <1>1, <1>2, <2>1
  <2>3. QED
    BY <2>2
<1>4. r \in Manager!Request
  BY DEF Manager!Request
<1> HIDE DEF r, q, t
<1>5. /\ Len(q) \in Nat /\ DOMAIN q = 1 .. Len(q) /\ DOMAIN t = 1 .. Len(q) + 1
      /\ t[Len(q) + 1] = r /\ \A i \in 1 .. Len(q) : t[i] = q[i]
  BY <1>2, <1>3, <1>4
<1>6. S(t) = S(q) \cup {Len(q) + 1} /\ Len(q) + 1 \notin S(q)
  BY <1>5
<1>7. IsFiniteSet(S(q))
  <2>1. IsFiniteSet(1 .. Len(q))
    BY <1>5, FS_Interval
  <2>2. S(q) \subseteq 1 .. Len(q)
    BY <1>5
  <2>3. QED
    BY <2>1, <2>2, FS_Subset
<1> DEFINE A == S(q)  B == S(t)
<1>8. WritesAccepted(l) = Cardinality(A) /\ WritesAccepted(l)' = Cardinality(B)
  BY DEF WritesAccepted, r, q, t
<1>9. B = A \cup {Len(q) + 1} /\ Len(q) + 1 \notin A /\ IsFiniteSet(A)
  BY <1>6, <1>7
<1> HIDE DEF A, B, S
<1>10. Cardinality(B) = Cardinality(A) + 1 /\ Cardinality(A) \in Nat
  BY <1>9, FS_AddElement, FS_CardinalityType
<1>11. Cardinality(B) > Cardinality(A)
  BY <1>10
<1>12. QED
  BY <1>8, <1>11

(* A write given to a queue is in it, with all that was.                   *)
LEMMA WriteQueued ==
  ASSUME WritesTyped(WQ), NEW w, WritesTyped(w), NEW d \in {"L2C", "LLC"}, w[d] = WQ[d],
         NEW p \in WritesOf(d), Len(WQ[d]) < WqSize[d], add_wq(d, p, w)
  PROVE  InWrites(WQ', p.line) /\ \A l : InWrites(w, l) => InWrites(WQ', l)
<1>0. d \in Caches /\ WQ[d] \in Seq(WritesOf(d)) /\ Len(WQ[d]) \in Nat
  BY LenProperties DEF Caches, WritesTyped
<1>1. /\ Others(WQ', w, d)
      /\ \/ QueuedWrites(d, p) # {} /\ WQ' = w
         \/ WQ'[d] = Append(WQ[d], p)
  BY <1>0, WriteAdded
<1>2. CASE QueuedWrites(d, p) # {} /\ WQ' = w
  <2>1. PICK i \in DOMAIN WQ[d] : WQ[d][i].line = p.line
    BY <1>2 DEF QueuedWrites, Queued
  <2>2. i \in 1 .. Len(w[d]) /\ w[d][i].line = p.line
    BY <1>0, <2>1
  <2>3. InWrites(w, p.line)
    BY <2>2 DEF InWrites
  <2>4. QED
    BY <1>2, <2>3
<1>3. CASE WQ'[d] = Append(WQ[d], p)
  <2> DEFINE t == WQ'[d]
  <2>1. /\ Len(t) = Len(w[d]) + 1 /\ t[Len(t)] = p /\ \A i \in 1 .. Len(w[d]) : t[i] = w[d][i]
    <3>1. w[d] \in Seq(WritesOf(d)) /\ t = Append(w[d], p)
      BY <1>0, <1>3
    <3>2. QED
      BY <3>1, AppendProperties
  <2>2. Len(t) \in 1 .. Len(t) /\ \A i \in 1 .. Len(w[d]) : i \in 1 .. Len(t)
    BY <1>0, <2>1
  <2>3. InWrites(WQ', p.line)
    BY <2>1, <2>2 DEF InWrites
  <2>4. ASSUME NEW l, NEW c \in {"L2C", "LLC"}, NEW i \in 1 .. Len(w[c]), w[c][i].line = l
        PROVE  InWrites(WQ', l)
    <3>1. CASE c = d
      BY <2>1, <2>2, <2>4, <3>1 DEF InWrites
    <3>2. CASE c # d
      <4>1. WQ'[c] = w[c]
        BY <1>1, <3>2 DEF Others, Caches
      <4>2. QED
        BY <2>4, <4>1 DEF InWrites
    <3>3. QED
      BY <3>1, <3>2
  <2>5. QED
    BY <2>3, <2>4 DEF InWrites
<1>4. QED
  BY <1>1, <1>2, <1>3

(* A dirty victim goes down, or nothing happens.                           *)
LEMMA VictimKept ==
  ASSUME WritesTyped(WQ), MemInv, NEW c \in Caches, NEW w, WritesTyped(w), Others(w, WQ, c),
         NEW victim, victim.dirty => victim.line \in Lines, WriteBack(c, victim, w)
  PROVE  /\ victim.dirty => \/ InWrites(WQ', victim.line)
                            \/ WritesAccepted(victim.line)' > WritesAccepted(victim.line)
         /\ \A l : InWrites(w, l) => InWrites(WQ', l)
<1>1. CASE ~victim.dirty
  BY <1>1 DEF WriteBack
<1>2. CASE victim.dirty /\ c = "LLC"
  <2> DEFINE l == victim.line
  <2>1. l \in Lines /\ ToManager(l, TRUE) /\ WQ' = w
    BY <1>2 DEF WriteBack
  <2> HIDE DEF l
  <2>2. WritesAccepted(l)' > WritesAccepted(l)
    BY <2>1, WriteAccepted
  <2>3. QED
    BY <2>1, <2>2 DEF l
<1>3. CASE victim.dirty /\ c # "LLC"
  <2> DEFINE d == Lower[c]  l == victim.line  p == WritePacket(l, 0)
  <2>1. Len(WQ[d]) < WqSize[d] /\ add_wq(d, p, w)
    BY <1>3 DEF WriteBack
  <2>2. d \in {"L2C", "LLC"} /\ d # c /\ d \in Caches
    BY <1>3, CacheNames
  <2>3. p \in WritesOf(d) /\ w[d] = WQ[d] /\ p.line = l
    BY <1>3, <2>2 DEF WritesOf, WriteLines, WritePacket, Others
  <2> HIDE DEF d, p, l
  <2>4. InWrites(WQ', p.line) /\ \A k : InWrites(w, k) => InWrites(WQ', k)
    BY <2>1, <2>2, <2>3, WriteQueued
  <2>5. QED
    BY <2>3, <2>4 DEF l
<1>4. QED
  BY <1>1, <1>2, <1>3

(* What is in the write queues but for the one taken.                      *)
LEMMA WriteTaken ==
  ASSUME WritesTyped(WQ), NEW c \in Caches, WQ[c] # <<>>, NEW w, w = Popped(WQ, c), NEW l, InWrites(WQ, l)
  PROVE  InWrites(w, l) \/ l = Head(WQ[c]).line
<1>1. Others(w, WQ, c) /\ w[c] = Tail(WQ[c]) /\ WQ[c] \in Seq(WritesOf(c))
  BY PoppedWrite DEF WritesTyped
<1>2. PICK d \in {"L2C", "LLC"} : \E i \in 1 .. Len(WQ[d]) : WQ[d][i].line = l
  BY DEF InWrites
<1>3. CASE d # c
  <2>1. w[d] = WQ[d]
    BY <1>1, <1>3 DEF Others, Caches
  <2>2. QED
    BY <1>2, <2>1 DEF InWrites
<1>4. CASE d = c
  <2> DEFINE q == WQ[c]
  <2>1. PICK i \in 1 .. Len(q) : q[i].line = l
    BY <1>2, <1>4
  <2>2. Head(q) = q[1] /\ Len(Tail(q)) = Len(q) - 1 /\ Len(q) \in Nat
        /\ \A j \in 1 .. Len(q) - 1 : Tail(q)[j] = q[j + 1]
    BY <1>1
  <2>3. CASE i = 1
    BY <2>1, <2>2, <2>3
  <2>4. CASE i # 1
    <3>1. i - 1 \in 1 .. Len(Tail(q)) /\ Tail(q)[i - 1] = q[i]
      BY <2>1, <2>2, <2>4
    <3>2. QED
      BY <1>1, <1>4, <2>1, <3>1 DEF InWrites
  <2>5. QED
    BY <2>3, <2>4
<1>5. QED
  BY <1>3, <1>4

(* Blocks that keep their lines keep their dirty lines.                    *)
LEMMA DirtySame ==
  ASSUME AllSame, NEW l, DirtyBlock(l)
  PROVE  DirtyBlock(l)'
BY DEF AllSame, Same, DirtyBlock, Sets

(* No block changes, every dirty line stays.                               *)
LEMMA DirtyUnchanged ==
  ASSUME UNCHANGED blocks, NEW l, DirtyBlock(l)
  PROVE  DirtyBlock(l)'
BY DEF DirtyBlock, Sets

(* A fill loses no dirty line but that of the block it takes.              *)
LEMMA DirtyFilled ==
  ASSUME NEW c \in Caches, NEW s \in Sets(c), NEW w \in 0 .. NumWay[c] - 1, NEW k, NEW dirty,
         FillsBlock(c, s, w, k, dirty)
  PROVE  /\ \A l : DirtyBlock(l) => DirtyBlock(l)' \/ (blocks[c][s][w].dirty /\ blocks[c][s][w].line = l)
         /\ dirty => DirtyBlock(k)'
<1>1. ASSUME NEW l, DirtyBlock(l), ~(blocks[c][s][w].dirty /\ blocks[c][s][w].line = l)
      PROVE  DirtyBlock(l)'
  <2>1. PICK d \in Caches : \E t \in Sets(d) : \E v \in 0 .. NumWay[d] - 1 :
             blocks[d][t][v].dirty /\ blocks[d][t][v].line = l
    BY <1>1 DEF DirtyBlock
  <2>0. PICK t \in Sets(d) : \E v \in 0 .. NumWay[d] - 1 : blocks[d][t][v].dirty /\ blocks[d][t][v].line = l
    BY <2>1
  <2>5. PICK v \in 0 .. NumWay[d] - 1 : blocks[d][t][v].dirty /\ blocks[d][t][v].line = l
    BY <2>0
  <2>2. ~(d = c /\ t = s /\ v = w)
    BY <1>1, <2>5
  <2>3. Same(blocks'[d][t][v], blocks[d][t][v])
    BY <2>2 DEF FillsBlock, AllBut
  <2>4. QED
    BY <2>5, <2>3 DEF Same, DirtyBlock, Sets
<1>2. ASSUME dirty PROVE DirtyBlock(k)'
  BY <1>2 DEF FillsBlock, DirtyBlock, Sets
<1>3. QED
  BY <1>1, <1>2

(* A write hit loses no dirty line.                                        *)
LEMMA DirtyWritten ==
  ASSUME StacksInv, WritesTyped(WQ), NEW c \in Caches, WritebackHit(c)
  PROVE  \A l : DirtyBlock(l) => DirtyBlock(l)'
<1>1. PICK s \in Sets(c) : \E w \in 0 .. NumWay[c] - 1 :
           /\ AllBut(c, s, w)
           /\ blocks'[c][s][w].line = Head(WQ[c]).line /\ blocks[c][s][w].line = Head(WQ[c]).line
           /\ blocks'[c][s][w].dirty = TRUE
  BY WritebackHitEffect
<1>2. PICK w \in 0 .. NumWay[c] - 1 :
           /\ AllBut(c, s, w)
           /\ blocks'[c][s][w].line = Head(WQ[c]).line /\ blocks[c][s][w].line = Head(WQ[c]).line
           /\ blocks'[c][s][w].dirty = TRUE
  BY <1>1
<1>4. ASSUME NEW l, DirtyBlock(l)
      PROVE  DirtyBlock(l)'
  <2>1. PICK d \in Caches : \E t \in Sets(d) : \E v \in 0 .. NumWay[d] - 1 :
             blocks[d][t][v].dirty /\ blocks[d][t][v].line = l
    BY <1>4 DEF DirtyBlock
  <2>5. PICK t \in Sets(d) : \E v \in 0 .. NumWay[d] - 1 : blocks[d][t][v].dirty /\ blocks[d][t][v].line = l
    BY <2>1
  <2>6. PICK v \in 0 .. NumWay[d] - 1 : blocks[d][t][v].dirty /\ blocks[d][t][v].line = l
    BY <2>5
  <2>2. CASE d = c /\ t = s /\ v = w
    BY <1>2, <2>6, <2>2 DEF DirtyBlock, Sets
  <2>3. CASE ~(d = c /\ t = s /\ v = w)
    <3>1. Same(blocks'[d][t][v], blocks[d][t][v])
      BY <1>2, <2>3 DEF AllBut
    <3>2. QED
      BY <2>6, <3>1 DEF Same, DirtyBlock, Sets
  <2>4. QED
    BY <2>2, <2>3
<1>5. QED
  BY <1>4

(* The dirty data of a line after a step: in the caches, or accepted.      *)
KeptNext(l) == DirtyBlock(l)' \/ InWrites(WQ', l) \/ WritesAccepted(l)' > WritesAccepted(l)

(* The block that is replaced, if it is dirty, goes down.                  *)
LEMMA ReplacedKeeps ==
  ASSUME WritesTyped(WQ), MemInv, NEW c \in Caches, NEW s \in Sets(c), NEW way \in 0 .. NumWay[c] - 1,
         NEW k, NEW dirty, FillsBlock(c, s, way, k, dirty),
         blocks[c][s][way].dirty => blocks[c][s][way].line \in Lines,
         NEW w, WritesTyped(w), Others(w, WQ, c), WriteBack(c, blocks[c][s][way], w),
         NEW l, DirtyBlock(l) \/ InWrites(w, l)
  PROVE  KeptNext(l)
<1>1. PICK v : v = blocks[c][s][way]
  OBVIOUS
<1>2. /\ v.dirty => InWrites(WQ', v.line) \/ WritesAccepted(v.line)' > WritesAccepted(v.line)
      /\ \A j : InWrites(w, j) => InWrites(WQ', j)
  <2>1. (v.dirty => v.line \in Lines) /\ WriteBack(c, v, w)
    BY <1>1
  <2>2. QED
    BY <2>1, VictimKept
<1>3. DirtyBlock(l) => DirtyBlock(l)' \/ (v.dirty /\ v.line = l)
  BY <1>1, DirtyFilled
<1>4. CASE v.dirty /\ v.line = l
  <2>1. PICK j : j = v.line
    OBVIOUS
  <2>2. InWrites(WQ', j) \/ WritesAccepted(j)' > WritesAccepted(j)
    BY <1>2, <1>4, <2>1
  <2>3. KeptNext(j)
    BY <2>2 DEF KeptNext
  <2>4. QED
    BY <1>4, <2>1, <2>3
<1>5. CASE ~(v.dirty /\ v.line = l)
  BY <1>2, <1>3, <1>5 DEF KeptNext
<1>6. QED
  BY <1>4, <1>5

(* A fill sends the dirty line it evicts to the write queue below, or to   *)
(* the manager.                                                            *)
LEMMA FillKeeps ==
  ASSUME StacksInv, TablesInv, BlocksTyped, NEW c \in Caches, HandleFill(c), NEW l,
         DirtyBlock(l) \/ InWrites(WQ, l)
  PROVE  KeptNext(l)
<1> DEFINE e == check_mshr(c, nextFill[c])  k == nextFill[c]  s == get_set(c, k)
           way == lru_victim(blocks[c][s])  dirty == c = "L1D" /\ e.type = "rfo"
<1>1. /\ s \in Sets(c) /\ way \in 0 .. NumWay[c] - 1
      /\ FillsBlock(c, s, way, k, dirty) /\ WriteBack(c, blocks[c][s][way], WQ)
  BY HandleFillEffect
<1>2. blocks[c][s][way].dirty => blocks[c][s][way].line \in Lines
  BY <1>1, VictimTyped
<1>3. WritesTyped(WQ) /\ MemInv /\ Others(WQ, WQ, c)
  BY DEF TablesInv, Others
<1> HIDE DEF e, k, s, way, dirty
<1>4. QED
  BY <1>1, <1>2, <1>3, ReplacedKeeps

(* A write miss keeps the line it writes, in the block it takes, and sends *)
(* the dirty line it evicts on.                                            *)
LEMMA WritebackMissKeeps ==
  ASSUME StacksInv, TablesInv, BlocksTyped, NEW c \in Caches, WritebackMiss(c), NEW l,
         DirtyBlock(l) \/ InWrites(WQ, l)
  PROVE  KeptNext(l)
<1> DEFINE k == Head(WQ[c]).line  s == get_set(c, k)  w == Popped(WQ, c)
           way == lru_victim(blocks[c][s])  dirty == TRUE
<1>1. WritesTyped(WQ) /\ MemInv
  BY DEF TablesInv
<1>2. /\ s \in Sets(c) /\ way \in 0 .. NumWay[c] - 1
      /\ FillsBlock(c, s, way, k, dirty) /\ WriteBack(c, blocks[c][s][way], w)
  BY <1>1, WritebackMissEffect
<1>3. blocks[c][s][way].dirty => blocks[c][s][way].line \in Lines
  BY <1>2, VictimTyped
<1>4. WQ[c] # <<>> /\ w = Popped(WQ, c) /\ dirty
  BY DEF WritebackMiss
<1>5. PICK j : j = k
  OBVIOUS
<1> HIDE DEF w
<1>6. WritesTyped(w) /\ Others(w, WQ, c)
  BY <1>1, <1>4, PoppedWrite
<1>7. DirtyBlock(j)'
  <2> HIDE DEF k, s, way, dirty
  <2>1. FillsBlock(c, s, way, j, dirty)
    BY <1>2, <1>5
  <2>2. QED
    BY <1>2, <1>4, <2>1, DirtyFilled
<1>8. InWrites(WQ, l) => InWrites(w, l) \/ l = j
  BY <1>1, <1>4, <1>5, WriteTaken
<1>9. CASE l = j
  BY <1>7, <1>9 DEF KeptNext
<1>10. CASE l # j
  <2>1. DirtyBlock(l) \/ InWrites(w, l)
    BY <1>8, <1>10
  <2> HIDE DEF k, s, way, dirty
  <2>2. QED
    BY <1>1, <1>2, <1>3, <1>6, <2>1, ReplacedKeeps
<1>11. QED
  BY <1>9, <1>10

(* A write hit keeps the line it writes in the block it hits.              *)
LEMMA WritebackHitKeeps ==
  ASSUME StacksInv, TablesInv, NEW c \in Caches, WritebackHit(c), NEW l,
         DirtyBlock(l) \/ InWrites(WQ, l)
  PROVE  KeptNext(l)
<1>1. WritesTyped(WQ) /\ WQ[c] # <<>> /\ WQ' = Popped(WQ, c)
  BY DEF TablesInv, WritebackHit
<1>2. PICK j : j = Head(WQ[c]).line
  OBVIOUS
<1>3. DirtyBlock(l) => DirtyBlock(l)'
  BY <1>1, DirtyWritten
<1>4. DirtyBlock(j)'
  <2>1. PICK s \in Sets(c) : \E w \in 0 .. NumWay[c] - 1 :
             blocks'[c][s][w].line = Head(WQ[c]).line /\ blocks'[c][s][w].dirty = TRUE
    BY <1>1, WritebackHitEffect
  <2>2. QED
    BY <1>2, <2>1 DEF DirtyBlock, Sets
<1> DEFINE w == Popped(WQ, c)
<1>5. w = Popped(WQ, c) /\ WQ' = w
  BY <1>1
<1> HIDE DEF w
<1>6. InWrites(WQ, l) => InWrites(w, l) \/ l = j
  BY <1>1, <1>2, <1>5, WriteTaken
<1>7. CASE l = j
  BY <1>4, <1>7 DEF KeptNext
<1>8. CASE l # j
  BY <1>3, <1>5, <1>6, <1>8 DEF KeptNext
<1>9. QED
  BY <1>7, <1>8

(* The L1D's own write queue is not one that dirty data goes through.      *)
LEMMA StoresKeep ==
  ASSUME \A c \in {"L2C", "LLC"} : WQ'[c] = WQ[c], NEW l, InWrites(WQ, l)
  PROVE  InWrites(WQ', l)
BY DEF InWrites

(* No step loses the data of a dirty line.                                 *)
LEMMA StepKeepsDirty ==
  ASSUME CacheInv, [Next]_vars, NEW l, DirtyBlock(l) \/ InWrites(WQ, l)
  PROVE  KeptNext(l)
<1>0. /\ StacksInv /\ TablesInv /\ BlocksTyped /\ ReadsTyped(RQ) /\ PrefsTyped(PQ) /\ WritesTyped(WQ)
  BY DEF CacheInv, TablesInv
<1>1. ASSUME UNCHANGED <<blocks, WQ>> PROVE KeptNext(l)
  BY <1>1, DirtyUnchanged DEF KeptNext
<1>2. ASSUME UNCHANGED blocks, \A c \in {"L2C", "LLC"} : WQ'[c] = WQ[c] PROVE KeptNext(l)
  BY <1>2, DirtyUnchanged, StoresKeep DEF KeptNext
<1>3. CASE UNCHANGED vars
  BY <1>1, <1>3 DEF vars
<1>4. ASSUME NEW c \in Caches, HandleFill(c) PROVE KeptNext(l)
  BY <1>0, <1>4, FillKeeps
<1>5. ASSUME NEW c \in Caches, HandleWriteback(c) PROVE KeptNext(l)
  <2>1. CASE WritebackHit(c)
    BY <1>0, <2>1, WritebackHitKeeps
  <2>2. CASE WritebackMiss(c)
    BY <1>0, <2>2, WritebackMissKeeps
  <2>3. CASE StoreMiss \/ StoreMerge
    <3>1. UNCHANGED blocks /\ WQ["L1D"] # <<>> /\ WQ' = Popped(WQ, "L1D") /\ "L1D" \in Caches
      BY <2>3, CacheNames DEF StoreMiss, StoreMerge
    <3>2. WQ = [d \in Caches |-> WQ[d]]
      BY <1>0 DEF WritesTyped
    <3>3. \A d \in {"L2C", "LLC"} : WQ'[d] = WQ[d]
      BY <3>1, <3>2 DEF Popped, Caches
    <3>4. QED
      BY <1>2, <3>1, <3>3
  <2>4. QED
    BY <1>5, <2>1, <2>2, <2>3 DEF HandleWriteback
<1>6. ASSUME NEW c \in Caches, HandleRead(c) PROVE KeptNext(l)
  <2>1. CASE ReadHit(c)
    <3> DEFINE k == Head(RQ[c]).line
    <3>1. Hits(c, k) # {} /\ blocks' = Used(c, k) /\ RQ[c] # <<>> /\ UNCHANGED WQ
      BY <2>1 DEF ReadHit
    <3>2. k \in Lines
      BY <1>0, <3>1, ReadLeaves
    <3> HIDE DEF k
    <3>3. QED
      BY <1>0, <3>1, <3>2, UseEffect, DirtySame DEF KeptNext
  <2>2. CASE ReadMiss(c) \/ ReadMerge(c)
    BY <2>2, <1>1 DEF ReadMiss, ReadMerge
  <2>3. QED
    BY <1>6, <2>1, <2>2 DEF HandleRead
<1>7. ASSUME NEW c \in Caches, HandlePrefetch(c) PROVE KeptNext(l)
  <2>1. CASE PrefetchHit(c)
    <3> DEFINE k == Head(PQ[c]).line
    <3>1. Hits(c, k) # {} /\ blocks' = Used(c, k) /\ PQ[c] # <<>> /\ UNCHANGED WQ
      BY <2>1 DEF PrefetchHit
    <3>2. k \in Lines
      BY <1>0, <3>1, PrefetchLeaves
    <3> HIDE DEF k
    <3>3. QED
      BY <1>0, <3>1, <3>2, UseEffect, DirtySame DEF KeptNext
  <2>2. CASE PrefetchMiss(c) \/ PrefetchMerge(c)
    BY <2>2, <1>1 DEF PrefetchMiss, PrefetchMerge
  <2>3. QED
    BY <1>7, <2>1, <2>2 DEF HandlePrefetch
<1>8. CASE (\E c \in Level1 : CoreTakes(c)) \/ ManagerStep
  BY <1>8, <1>1 DEF CoreTakes, ManagerStep
<1>9. CASE Environment
  <2>1. ASSUME NEW k \in DataLines, NEW w \in Words, Store(k, w) PROVE KeptNext(l)
    <3>1. UNCHANGED blocks /\ add_wq("L1D", WritePacket(k, w), WQ)
      BY <2>1 DEF Store
    <3>2. WQ = [d \in Caches |-> WQ[d]]
      BY <1>0 DEF WritesTyped
    <3>3. \A d \in {"L2C", "LLC"} : WQ'[d] = WQ[d]
      BY <3>1, <3>2 DEF add_wq, Caches
    <3>4. QED
      BY <1>2, <3>1, <3>3
  <2>2. QED
    BY <1>9, <1>1, <2>1 DEF Environment, Fetch, Load, Prefetch
<1>10. QED
  BY <1>3, <1>4, <1>5, <1>6, <1>7, <1>8, <1>9 DEF Next, System, Operate

(* The newest data of a line, in a dirty block of some cache or in a write *)
(* queue below L1D, goes to the next level or is accepted by the manager:  *)
(* no eviction, merge of writes or full queue on the way down drops it.    *)
THEOREM DirtyDataIsKept == Spec => DirtyDataKept
<1>1. StacksInv /\ WritesTyped(WQ) => \A l \in Lines : Dirty(l) <=> DirtyBlock(l) \/ InWrites(WQ, l)
  BY DirtyIs
<1>2. (StacksInv /\ WritesTyped(WQ) => \A l \in Lines : Dirty(l) <=> DirtyBlock(l) \/ InWrites(WQ, l))'
  BY <1>1, PTL
<1>3. CacheInv /\ [Next]_vars => DirtyKept
  <2> SUFFICES ASSUME CacheInv, [Next]_vars, NEW l \in Lines, Dirty(l)
               PROVE  Dirty(l)' \/ WritesAccepted(l)' > WritesAccepted(l)
    BY DEF DirtyKept
  <2>1. StacksInv /\ WritesTyped(WQ) /\ StacksInv' /\ WritesTyped(WQ)'
    BY StepKeepsCaches DEF CacheInv, TablesInv
  <2>2. DirtyBlock(l) \/ InWrites(WQ, l)
    BY <1>1, <2>1
  <2>3. KeptNext(l)
    BY <2>2, StepKeepsDirty
  <2>4. Dirty(l)' <=> DirtyBlock(l)' \/ InWrites(WQ, l)'
    BY <1>2, <2>1
  <2>5. InWrites(WQ, l)' <=> InWrites(WQ', l)
    BY DEF InWrites
  <2>6. QED
    BY <2>3, <2>4, <2>5 DEF KeptNext
<1>4. QED
  BY <1>3, CacheInvariant, PTL DEF Spec, DirtyDataKept

(* The loads the core waits for.                                           *)

(* The packets of the L1D some load or store of the core waits for.        *)
Demands(S) == {e \in S : e.type # "prefetch"}

(* Every answer, read, miss and write of the L1D is due to one load or one *)
(* store of the core: PROCESSED is never full when it is given an answer.  *)
Outstanding ==
  Len(PROCESSED["L1D"]) + Len(RQ["L1D"]) + Cardinality(Demands(MSHR["L1D"])) + Len(WQ["L1D"])

DemandInv ==
  /\ sent.loads <= MaxLoads /\ sent.stores <= MaxStores
  /\ Outstanding <= sent.loads + sent.stores

Answers == [line : Lines, deps : SUBSET Loads]

AnswersTyped ==
  /\ PROCESSED = [c \in Level1 |-> PROCESSED[c]]
  /\ \A c \in Level1 : PROCESSED[c] \in Seq(Answers)

(* Where load i may be, with line l.                                       *)
InRead(r, c, l, i) == In(Range(r[c]), l, Holding(i))
InMiss(m, c, l, i) == In(m[c], l, Holding(i))
Told(a, i)         == \E k \in 1 .. Len(a) : i \in a[k].deps
ToldOnce(a)        == \A j, k \in 1 .. Len(a) : \A i \in Loads :
                        i \in a[j].deps /\ i \in a[k].deps => j = k

(* A load that waits is in one of the three; and no fetch is a load.       *)
LoadHeld(r, m, a, at, i) ==
  /\ \A l : InRead(r, "L1D", l, i) => at[i] = l /\ ~InMiss(m, "L1D", l, i) /\ ~Told(a, i)
  /\ \A l : InMiss(m, "L1D", l, i) => at[i] = l /\ ~Told(a, i)
  /\ Told(a, i) => at[i] # 0
  /\ at[i] # 0 => InRead(r, "L1D", at[i], i) \/ InMiss(m, "L1D", at[i], i) \/ Told(a, i)

NoFetchHeld(r, m, a, i) ==
  /\ \A l : ~InRead(r, "L1I", l, i) /\ ~InMiss(m, "L1I", l, i)
  /\ ~Told(a, i)

HoldInv ==
  /\ ToldOnce(PROCESSED["L1D"])
  /\ \A i \in Loads : /\ LoadHeld(RQ, MSHR, PROCESSED["L1D"], loadLine, i)
                      /\ NoFetchHeld(RQ, MSHR, PROCESSED["L1I"], i)
                      /\ i > sent.loads => loadLine[i] = 0

LoadInv == AnswersTyped /\ DemandInv /\ HoldInv

(* The answers after one more, and after the oldest is taken.              *)
LEMMA ToldMore ==
  ASSUME NEW a \in Seq(Answers), NEW x \in Answers, NEW b, b = Append(a, x)
  PROVE  /\ \A i : Told(b, i) <=> Told(a, i) \/ i \in x.deps
         /\ ToldOnce(a) /\ (\A i \in Loads : i \in x.deps => ~Told(a, i)) => ToldOnce(b)
         /\ b \in Seq(Answers) /\ Len(b) = Len(a) + 1 /\ Len(a) \in Nat
<1>1. /\ b \in Seq(Answers) /\ Len(a) \in Nat /\ Len(b) = Len(a) + 1 /\ b[Len(a) + 1] = x
      /\ \A i \in 1 .. Len(a) : b[i] = a[i]
      /\ \A i \in 1 .. Len(b) : i \in 1 .. Len(a) \/ i = Len(a) + 1
  BY Appended
<1>2. 1 .. Len(a) \subseteq 1 .. Len(b) /\ Len(a) + 1 \in 1 .. Len(b)
  BY <1>1
<1>3. \A i : Told(b, i) <=> Told(a, i) \/ i \in x.deps
  BY <1>1, <1>2 DEF Told
<1>4. ASSUME ToldOnce(a), \A i \in Loads : i \in x.deps => ~Told(a, i),
             NEW j \in 1 .. Len(b), NEW k \in 1 .. Len(b), NEW i \in Loads,
             i \in b[j].deps, i \in b[k].deps
      PROVE  j = k
  <2>1. CASE j \in 1 .. Len(a) /\ k \in 1 .. Len(a)
    BY <1>1, <1>4, <2>1 DEF ToldOnce
  <2>2. CASE j \notin 1 .. Len(a) /\ k \notin 1 .. Len(a)
    BY <1>1, <2>2
  <2>3. CASE j \in 1 .. Len(a) /\ k \notin 1 .. Len(a)
    BY <1>1, <1>4, <2>3 DEF Told
  <2>4. CASE j \notin 1 .. Len(a) /\ k \in 1 .. Len(a)
    BY <1>1, <1>4, <2>4 DEF Told
  <2>5. QED
    BY <2>1, <2>2, <2>3, <2>4
<1>5. QED
  BY <1>1, <1>3, <1>4 DEF ToldOnce

(* The answers without the oldest: its loads are told no longer, the       *)
(* others as before.                                                       *)
LEMMA ToldLess ==
  ASSUME NEW a \in Seq(Answers), a # <<>>, ToldOnce(a)
  PROVE  /\ \A i \in Loads : Told(Tail(a), i) <=> Told(a, i) /\ i \notin Head(a).deps
         /\ \A i \in Loads : i \in Head(a).deps => Told(a, i)
         /\ ToldOnce(Tail(a)) /\ Tail(a) \in Seq(Answers) /\ Head(a) \in Answers
         /\ Len(Tail(a)) = Len(a) - 1 /\ Len(a) \in Nat
<1> DEFINE b == Tail(a)
<1>1. /\ Len(a) \in Nat \ {0} /\ Head(a) = a[1] /\ Head(a) \in Answers /\ b \in Seq(Answers)
      /\ Len(b) = Len(a) - 1
      /\ \A i \in 1 .. Len(b) : i + 1 \in 1 .. Len(a) /\ i + 1 # 1 /\ b[i] = a[i + 1]
  BY Shifted
<1> HIDE DEF b
<1>2. 1 \in 1 .. Len(a) /\ \A i \in 1 .. Len(a) : i = 1 \/ (i - 1 \in 1 .. Len(b) /\ (i - 1) + 1 = i)
  BY <1>1
<1>3. \A j, k \in 1 .. Len(b) : j + 1 = k + 1 => j = k
  OBVIOUS
<1>4. ToldOnce(b)
  BY <1>1, <1>3 DEF ToldOnce
<1>5. ASSUME NEW i \in Loads
      PROVE  Told(b, i) <=> Told(a, i) /\ i \notin Head(a).deps
  <2>1. ASSUME Told(b, i) PROVE Told(a, i) /\ i \notin Head(a).deps
    <3>1. PICK k \in 1 .. Len(b) : i \in b[k].deps
      BY <2>1 DEF Told
    <3>2. k + 1 \in 1 .. Len(a) /\ k + 1 # 1 /\ i \in a[k + 1].deps
      BY <1>1, <3>1
    <3>3. QED
      BY <1>1, <1>2, <3>2 DEF Told, ToldOnce
  <2>2. ASSUME Told(a, i), i \notin Head(a).deps PROVE Told(b, i)
    <3>1. PICK k \in 1 .. Len(a) : i \in a[k].deps
      BY <2>2 DEF Told
    <3>2. k - 1 \in 1 .. Len(b) /\ b[k - 1] = a[k]
      BY <1>1, <1>2, <2>2, <3>1
    <3>3. QED
      BY <3>1, <3>2 DEF Told
  <2>3. QED
    BY <2>1, <2>2
<1>6. \A i \in Loads : i \in Head(a).deps => Told(a, i)
  BY <1>1, <1>2 DEF Told
<1>7. QED
  BY <1>1, <1>4, <1>5, <1>6 DEF b

(* What a step does to the packets of a first-level cache, for a packet p: *)
(* they stay, p leaves, or what depends on p is added.                     *)
ReadsStay(c)    == \A l, i : InRead(RQ', c, l, i) <=> InRead(RQ, c, l, i)
ReadTaken(c, p) == /\ \A l, i : InRead(RQ', c, l, i) <=> InRead(RQ, c, l, i) /\ l # p.line
                   /\ \A i : InRead(RQ, c, p.line, i) <=> i \in p.deps
MissesStay(c)   == \A l, i : InMiss(MSHR', c, l, i) <=> InMiss(MSHR, c, l, i)
MissTaken(c, p) == /\ \A l, i : InMiss(MSHR', c, l, i) <=> InMiss(MSHR, c, l, i) /\ l # p.line
                   /\ \A i : InMiss(MSHR, c, p.line, i) <=> i \in p.deps
MissGiven(c, p) == \A l, i : InMiss(MSHR', c, l, i) <=>
                              InMiss(MSHR, c, l, i) \/ (l = p.line /\ i \in p.deps)
Silent(c)       == PROCESSED'[c] = PROCESSED[c]
Tells(c, p)     == \/ PROCESSED'[c] = Append(PROCESSED[c], [line |-> p.line, deps |-> p.deps])
                   \/ (c = "L1I" \/ p.deps = {}) /\ Silent(c)

Moves(c) ==
  \/ ReadsStay(c) /\ MissesStay(c) /\ Silent(c)
  \/ \E p \in PacketSet : ReadTaken(c, p) /\ MissGiven(c, p) /\ Silent(c)
  \/ \E p \in PacketSet : ReadTaken(c, p) /\ MissesStay(c) /\ Tells(c, p)
  \/ \E p \in PacketSet : ReadsStay(c) /\ MissTaken(c, p) /\ Tells(c, p)

(* Moves of the L1D keep every load in its one place.                      *)
LEMMA LoadMoves ==
  ASSUME AnswersTyped, HoldInv, Moves("L1D"), loadLine' = loadLine
  PROVE  /\ PROCESSED'["L1D"] \in Seq(Answers) /\ ToldOnce(PROCESSED'["L1D"])
         /\ \A i \in Loads : LoadHeld(RQ', MSHR', PROCESSED'["L1D"], loadLine', i)
<1> DEFINE a == PROCESSED["L1D"]  b == PROCESSED'["L1D"]
<1>1. a \in Seq(Answers) /\ ToldOnce(a) /\ \A i \in Loads : LoadHeld(RQ, MSHR, a, loadLine, i)
  BY DEF AnswersTyped, HoldInv, Level1
<1> HIDE DEF a
<1>2. CASE ReadsStay("L1D") /\ MissesStay("L1D") /\ Silent("L1D")
  <2>1. b = a
    BY <1>2 DEF Silent, a
  <2> HIDE DEF b
  <2>2. ASSUME NEW i \in Loads PROVE LoadHeld(RQ', MSHR', b, loadLine', i)
    BY <1>1, <1>2, <2>1 DEF LoadHeld, ReadsStay, MissesStay
  <2>3. QED
    BY <1>1, <2>1, <2>2 DEF b
<1>3. ASSUME NEW p \in PacketSet, ReadTaken("L1D", p), MissGiven("L1D", p), Silent("L1D")
      PROVE  b \in Seq(Answers) /\ ToldOnce(b) /\ \A i \in Loads : LoadHeld(RQ', MSHR', b, loadLine', i)
  <2>1. b = a
    BY <1>3 DEF Silent, a
  <2> HIDE DEF b
  <2>2. ASSUME NEW i \in Loads PROVE LoadHeld(RQ', MSHR', b, loadLine', i)
    BY <1>1, <1>3, <2>1 DEF LoadHeld, ReadTaken, MissGiven
  <2>3. QED
    BY <1>1, <2>1, <2>2
<1>4. ASSUME NEW p \in PacketSet, Tells("L1D", p), \A i \in Loads : i \in p.deps => ~Told(a, i)
      PROVE  /\ b \in Seq(Answers) /\ ToldOnce(b)
             /\ \A i \in Loads : Told(b, i) <=> Told(a, i) \/ i \in p.deps
  <2> DEFINE x == [line |-> p.line, deps |-> p.deps]
  <2>1. x \in Answers /\ x.deps = p.deps
    BY DEF Answers, PacketSet
  <2> HIDE DEF x
  <2>2. CASE b = Append(a, x)
    BY <1>1, <1>4, <2>1, <2>2, ToldMore
  <2>3. CASE p.deps = {} /\ b = a
    BY <1>1, <2>3
  <2>4. QED
    BY <1>4, <2>2, <2>3 DEF Tells, Silent, a, x
<1>5. ASSUME NEW p \in PacketSet, ReadTaken("L1D", p), MissesStay("L1D"), Tells("L1D", p)
      PROVE  b \in Seq(Answers) /\ ToldOnce(b) /\ \A i \in Loads : LoadHeld(RQ', MSHR', b, loadLine', i)
  <2>1. \A i \in Loads : i \in p.deps => ~Told(a, i)
    BY <1>1, <1>5 DEF LoadHeld, ReadTaken
  <2>2. /\ b \in Seq(Answers) /\ ToldOnce(b)
        /\ \A i \in Loads : Told(b, i) <=> Told(a, i) \/ i \in p.deps
    BY <1>4, <1>5, <2>1
  <2> HIDE DEF b
  <2>3. p.line # 0
    BY LinesNotZero DEF PacketSet
  <2>4. ASSUME NEW i \in Loads PROVE LoadHeld(RQ', MSHR', b, loadLine', i)
    BY <1>1, <1>5, <2>2, <2>3 DEF LoadHeld, ReadTaken, MissesStay
  <2>5. QED
    BY <2>2, <2>4
<1>6. ASSUME NEW p \in PacketSet, ReadsStay("L1D"), MissTaken("L1D", p), Tells("L1D", p)
      PROVE  b \in Seq(Answers) /\ ToldOnce(b) /\ \A i \in Loads : LoadHeld(RQ', MSHR', b, loadLine', i)
  <2>1. \A i \in Loads : i \in p.deps => ~Told(a, i)
    BY <1>1, <1>6 DEF LoadHeld, MissTaken
  <2>2. /\ b \in Seq(Answers) /\ ToldOnce(b)
        /\ \A i \in Loads : Told(b, i) <=> Told(a, i) \/ i \in p.deps
    BY <1>4, <1>6, <2>1
  <2> HIDE DEF b
  <2>3. p.line # 0
    BY LinesNotZero DEF PacketSet
  <2>4. ASSUME NEW i \in Loads PROVE LoadHeld(RQ', MSHR', b, loadLine', i)
    BY <1>1, <1>6, <2>2, <2>3 DEF LoadHeld, ReadsStay, MissTaken
  <2>5. QED
    BY <2>2, <2>4
<1>7. QED
  BY <1>2, <1>3, <1>5, <1>6 DEF Moves

(* Moves of the L1I bring no load there.                                   *)
LEMMA FetchMoves ==
  ASSUME AnswersTyped, HoldInv, Moves("L1I")
  PROVE  /\ PROCESSED'["L1I"] \in Seq(Answers)
         /\ \A i \in Loads : NoFetchHeld(RQ', MSHR', PROCESSED'["L1I"], i)
<1> DEFINE a == PROCESSED["L1I"]  b == PROCESSED'["L1I"]
<1>1. a \in Seq(Answers) /\ \A i \in Loads : NoFetchHeld(RQ, MSHR, a, i)
  BY DEF AnswersTyped, HoldInv, Level1
<1> HIDE DEF a
<1>2. CASE ReadsStay("L1I") /\ MissesStay("L1I") /\ Silent("L1I")
  <2>1. b = a
    BY <1>2 DEF Silent, a
  <2> HIDE DEF b
  <2>2. ASSUME NEW i \in Loads PROVE NoFetchHeld(RQ', MSHR', b, i)
    BY <1>1, <1>2, <2>1 DEF NoFetchHeld, ReadsStay, MissesStay
  <2>3. QED
    BY <1>1, <2>1, <2>2 DEF b
<1>3. ASSUME NEW p \in PacketSet, Tells("L1I", p), \A i \in Loads : i \notin p.deps
      PROVE  /\ b \in Seq(Answers)
             /\ \A i \in Loads : Told(b, i) <=> Told(a, i)
  <2> DEFINE x == [line |-> p.line, deps |-> p.deps]
  <2>1. x \in Answers /\ x.deps = p.deps
    BY DEF Answers, PacketSet
  <2> HIDE DEF x
  <2>2. CASE b = Append(a, x)
    BY <1>1, <1>3, <2>1, <2>2, ToldMore
  <2>3. CASE b = a
    BY <1>1, <2>3
  <2>4. QED
    BY <1>3, <2>2, <2>3 DEF Tells, Silent, a, x
<1>4. ASSUME NEW p \in PacketSet, ReadTaken("L1I", p), MissGiven("L1I", p), Silent("L1I")
      PROVE  b \in Seq(Answers) /\ \A i \in Loads : NoFetchHeld(RQ', MSHR', b, i)
  <2>1. b = a
    BY <1>4 DEF Silent, a
  <2> HIDE DEF b
  <2>2. ASSUME NEW i \in Loads PROVE NoFetchHeld(RQ', MSHR', b, i)
    BY <1>1, <1>4, <2>1 DEF NoFetchHeld, ReadTaken, MissGiven
  <2>3. QED
    BY <1>1, <2>1, <2>2
<1>5. ASSUME NEW p \in PacketSet, Tells("L1I", p), ReadTaken("L1I", p), MissesStay("L1I")
      PROVE  b \in Seq(Answers) /\ \A i \in Loads : NoFetchHeld(RQ', MSHR', b, i)
  <2>1. \A i \in Loads : i \notin p.deps
    BY <1>1, <1>5 DEF NoFetchHeld, ReadTaken
  <2>2. b \in Seq(Answers) /\ \A i \in Loads : Told(b, i) <=> Told(a, i)
    BY <1>3, <1>5, <2>1
  <2> HIDE DEF b
  <2>3. QED
    BY <1>1, <1>5, <2>2 DEF NoFetchHeld, ReadTaken, MissesStay
<1>6. ASSUME NEW p \in PacketSet, Tells("L1I", p), ReadsStay("L1I"), MissTaken("L1I", p)
      PROVE  b \in Seq(Answers) /\ \A i \in Loads : NoFetchHeld(RQ', MSHR', b, i)
  <2>1. \A i \in Loads : i \notin p.deps
    BY <1>1, <1>6 DEF NoFetchHeld, MissTaken
  <2>2. b \in Seq(Answers) /\ \A i \in Loads : Told(b, i) <=> Told(a, i)
    BY <1>3, <1>6, <2>1
  <2> HIDE DEF b
  <2>3. QED
    BY <1>1, <1>6, <2>2 DEF NoFetchHeld, ReadsStay, MissTaken
<1>7. QED
  BY <1>2, <1>4, <1>5, <1>6 DEF Moves

(* Misses that hold the same loads, and no more demands of the L1D.        *)
SameHolds(m2, m) ==
  /\ \A c \in Caches : \A l, i : InMiss(m2, c, l, i) <=> InMiss(m, c, l, i)
  /\ Cardinality(Demands(m2["L1D"])) <= Cardinality(Demands(m["L1D"]))

(* Answered misses are demanded as before.                                 *)
LEMMA MarkedDemands ==
  ASSUME NEW S \in SUBSET Misses("L1D"), IsFiniteSet(S), NEW l
  PROVE  Cardinality(Demands(Marked(S, l))) <= Cardinality(Demands(S))
<1> DEFINE D == Demands(S)
<1>1. D \in SUBSET Misses("L1D") /\ IsFiniteSet(D) /\ "L1D" \in Caches
  BY FS_Subset, CacheNames DEF Demands
<1>2. \A e \in S : LET f == [e EXCEPT !.returned = TRUE] IN f.type = e.type
  BY DEF Misses, PacketSet
<1>3. Demands(Marked(S, l)) = Marked(D, l)
  BY <1>2 DEF Demands, Marked
<1> HIDE DEF D
<1>4. Cardinality(Marked(D, l)) <= Cardinality(D)
  BY <1>1, MarkedMisses
<1>5. QED
  BY <1>3, <1>4 DEF D

(* The demands of the L1D are a finite set.                                *)
LEMMA DemandsFinite ==
  ASSUME NEW m, MissesTyped(m)
  PROVE  /\ IsFiniteSet(Demands(m["L1D"])) /\ Cardinality(Demands(m["L1D"])) \in Nat
         /\ m["L1D"] \in SUBSET Misses("L1D") /\ IsFiniteSet(m["L1D"])
<1>1. m["L1D"] \in SUBSET Misses("L1D") /\ IsFiniteSet(m["L1D"])
  BY CacheNames DEF MissesTyped
<1>2. IsFiniteSet(Demands(m["L1D"]))
  BY <1>1, FS_Subset DEF Demands
<1>3. QED
  BY <1>1, <1>2, FS_CardinalityType

(* return_data() moves no load.                                            *)
LEMMA ReturnedHolds ==
  ASSUME NEW us, NEW l, NEW m, NEW n, MissesTyped(m), return_data(us, l, m, n)
  PROVE  SameHolds(MSHR', m)
<1>1. \A c \in Caches : MSHR'[c] = IF c \in us THEN Marked(m[c], l) ELSE m[c]
  BY DEF return_data, Marked
<1>2. \A c \in Caches : m[c] \in SUBSET Misses(c)
  BY DEF MissesTyped
<1>3. ASSUME NEW c \in Caches, NEW k, NEW i
      PROVE  InMiss(MSHR', c, k, i) <=> InMiss(m, c, k, i)
  <2>1. In(Marked(m[c], l), k, Holding(i)) <=> In(m[c], k, Holding(i))
    BY <1>2, MarkedMisses
  <2>2. CASE c \in us
    BY <1>1, <2>1, <2>2 DEF InMiss
  <2>3. CASE c \notin us
    BY <1>1, <2>3 DEF InMiss
  <2>4. QED
    BY <2>2, <2>3
<1>4. Cardinality(Demands(MSHR'["L1D"])) <= Cardinality(Demands(m["L1D"]))
  <2>1. MSHR'["L1D"] = IF "L1D" \in us THEN Marked(m["L1D"], l) ELSE m["L1D"]
    BY <1>1, CacheNames
  <2>2. /\ m["L1D"] \in SUBSET Misses("L1D") /\ IsFiniteSet(m["L1D"])
        /\ Cardinality(Demands(m["L1D"])) \in Nat
    BY DemandsFinite
  <2>3. Cardinality(Demands(Marked(m["L1D"], l))) <= Cardinality(Demands(m["L1D"]))
    BY <2>2, MarkedDemands
  <2>4. CASE "L1D" \in us
    BY <2>1, <2>3, <2>4
  <2>5. CASE "L1D" \notin us
    <3>1. MSHR'["L1D"] = m["L1D"]
      BY <2>1, <2>5
    <3>2. QED
      BY <2>2, <3>1
  <2>6. QED
    BY <2>4, <2>5
<1>5. QED
  BY <1>3, <1>4 DEF SameHolds

(* Nothing happens to the misses.                                          *)
LEMMA EqualHolds ==
  ASSUME NEW m, MissesTyped(m), NEW m2, \A c \in Caches : m2[c] = m[c]
  PROVE  SameHolds(m2, m)
<1>1. Cardinality(Demands(m["L1D"])) \in Nat /\ m2["L1D"] = m["L1D"]
  BY DemandsFinite, CacheNames
<1>2. Cardinality(Demands(m2["L1D"])) <= Cardinality(Demands(m["L1D"]))
  BY <1>1
<1>3. QED
  BY <1>2 DEF SameHolds, InMiss

(* add_rq() changes one read queue and moves no load of an MSHR.           *)
LEMMA ReadAddedHolds ==
  ASSUME NEW d \in Caches, NEW p, NEW q, NEW m, MissesTyped(m), q = [c \in Caches |-> q[c]],
         add_rq(d, p, q, m)
  PROVE  SameHolds(MSHR', m) /\ \A c \in Caches : c # d => RQ'[c] = q[c]
<1>1. CASE QueuedWrites(d, p) # {}
  <2>1. return_data(Uppers(d, p), p.line, m, nextFill) /\ RQ' = q
    BY <1>1 DEF add_rq
  <2>2. QED
    BY <2>1, ReturnedHolds
<1>2. CASE QueuedWrites(d, p) = {}
  <2>1. MSHR' = m /\ RQ' = [q EXCEPT ![d] = Added(@, p, RqSize[d], MergedRead(Older(@, p), p))]
    BY <1>2 DEF add_rq
  <2>2. \A c \in Caches : c # d => RQ'[c] = q[c]
    BY <2>1
  <2>3. SameHolds(MSHR', m)
    BY <2>1, EqualHolds
  <2>4. QED
    BY <2>2, <2>3
<1>3. QED
  BY <1>1, <1>2

(* Nor does add_pq().                                                      *)
LEMMA PrefetchAddedHolds ==
  ASSUME NEW d, NEW p, NEW q, NEW m, MissesTyped(m), add_pq(d, p, q, m)
  PROVE  SameHolds(MSHR', m)
<1>1. CASE QueuedWrites(d, p) # {}
  <2>1. return_data(Uppers(d, p), p.line, m, nextFill)
    BY <1>1 DEF add_pq
  <2>2. QED
    BY <2>1, ReturnedHolds
<1>2. CASE QueuedWrites(d, p) = {}
  BY <1>2, EqualHolds DEF add_pq
<1>3. QED
  BY <1>1, <1>2

(* A step that moves the loads of both first levels and asks for nothing.  *)
Moved == /\ \A c \in Level1 : Moves(c)
         /\ Outstanding' <= Outstanding
         /\ PROCESSED' = [c \in Level1 |-> PROCESSED'[c]]
         /\ UNCHANGED <<loadLine, sent>>

(* A step between the places a load may be keeps the invariant of loads.   *)
LEMMA MovedKeeps ==
  ASSUME LoadInv, CoreTyped, Moved, Outstanding \in Nat, Outstanding' \in Nat
  PROVE  LoadInv'
<1>1. AnswersTyped /\ DemandInv /\ HoldInv /\ loadLine' = loadLine /\ sent' = sent
  BY DEF LoadInv, Moved
<1>2. /\ PROCESSED'["L1D"] \in Seq(Answers) /\ ToldOnce(PROCESSED'["L1D"])
      /\ \A i \in Loads : LoadHeld(RQ', MSHR', PROCESSED'["L1D"], loadLine', i)
  BY <1>1, LoadMoves DEF Moved, Level1
<1>3. /\ PROCESSED'["L1I"] \in Seq(Answers)
      /\ \A i \in Loads : NoFetchHeld(RQ', MSHR', PROCESSED'["L1I"], i)
  BY <1>1, FetchMoves DEF Moved, Level1
<1>4. AnswersTyped'
  BY <1>2, <1>3 DEF AnswersTyped, Moved, Level1
<1>5. HoldInv'
  BY <1>1, <1>2, <1>3 DEF HoldInv
<1>6. DemandInv'
  <2>1. sent.loads \in Nat /\ sent.stores \in Nat /\ Outstanding' <= Outstanding
    BY DEF CoreTyped, Moved
  <2>2. Outstanding' <= sent.loads + sent.stores
    BY <1>1, <2>1 DEF DemandInv
  <2>3. QED
    BY <1>1, <2>2 DEF DemandInv
<1>7. QED
  BY <1>4, <1>5, <1>6 DEF LoadInv

(* The sizes that add up to Outstanding.                                   *)
LEMMA Sizes ==
  ASSUME TablesInv, AnswersTyped
  PROVE  /\ Len(PROCESSED["L1D"]) \in Nat /\ Len(RQ["L1D"]) \in Nat
         /\ Cardinality(Demands(MSHR["L1D"])) \in Nat /\ Len(WQ["L1D"]) \in Nat
         /\ Outstanding \in Nat
<1>1. Len(PROCESSED["L1D"]) \in Nat
  <2>1. PROCESSED["L1D"] \in Seq(Answers)
    BY DEF AnswersTyped, Level1
  <2>2. QED
    BY <2>1, LenProperties
<1>2. Len(RQ["L1D"]) \in Nat
  <2>1. RQ["L1D"] \in Seq(Reads("L1D"))
    BY CacheNames DEF TablesInv, ReadsTyped
  <2>2. QED
    BY <2>1, LenProperties
<1>3. Len(WQ["L1D"]) \in Nat
  <2>1. WQ["L1D"] \in Seq(WritesOf("L1D"))
    BY CacheNames DEF TablesInv, WritesTyped
  <2>2. QED
    BY <2>1, LenProperties
<1>4. Cardinality(Demands(MSHR["L1D"])) \in Nat
  BY DemandsFinite DEF TablesInv
<1> DEFINE a == Len(PROCESSED["L1D"])  r == Len(RQ["L1D"])
           m == Cardinality(Demands(MSHR["L1D"]))  w == Len(WQ["L1D"])
<1>5. Outstanding = a + r + m + w /\ a \in Nat /\ r \in Nat /\ m \in Nat /\ w \in Nat
  BY <1>1, <1>2, <1>3, <1>4 DEF Outstanding
<1> HIDE DEF a, r, m, w
<1>6. Outstanding \in Nat
  BY <1>5
<1>7. QED
  BY <1>1, <1>2, <1>3, <1>4, <1>6

(* The answer of the L1D finds room in PROCESSED, which nobody asks for.   *)
RoomForAnswers == ProcessedSize >= MaxLoads + MaxStores

(* As long as the L1D has a read, a miss or a write to serve, or the core  *)
(* a load to send, PROCESSED has room.                                     *)
LEMMA AnswerFits ==
  ASSUME TablesInv, LoadInv, CoreTyped, RoomForAnswers,
         Len(RQ["L1D"]) + Cardinality(Demands(MSHR["L1D"])) + Len(WQ["L1D"]) > 0
         \/ sent.loads < MaxLoads
  PROVE  Len(PROCESSED["L1D"]) < ProcessedSize
<1>1. /\ Len(PROCESSED["L1D"]) \in Nat /\ Len(RQ["L1D"]) \in Nat
      /\ Cardinality(Demands(MSHR["L1D"])) \in Nat /\ Len(WQ["L1D"]) \in Nat
  BY Sizes DEF LoadInv
<1>2. sent.loads \in Nat /\ sent.stores \in Nat /\ {MaxLoads, MaxStores, ProcessedSize} \subseteq Nat
  BY CacheAssumption DEF CoreTyped
<1>3. sent.loads <= MaxLoads /\ sent.stores <= MaxStores /\ Outstanding <= sent.loads + sent.stores
  BY DEF LoadInv, DemandInv
<1> DEFINE a == Len(PROCESSED["L1D"])  r == Len(RQ["L1D"])
           m == Cardinality(Demands(MSHR["L1D"]))  w == Len(WQ["L1D"])  o == Outstanding
<1>4. /\ o = a + r + m + w /\ a \in Nat /\ r \in Nat /\ m \in Nat /\ w \in Nat
      /\ r + m + w > 0 \/ sent.loads < MaxLoads
      /\ o <= sent.loads + sent.stores /\ sent.loads <= MaxLoads /\ sent.stores <= MaxStores
  BY <1>1, <1>3 DEF Outstanding
<1> HIDE DEF a, r, m, w, o
<1>5. a < ProcessedSize
  BY <1>2, <1>4 DEF RoomForAnswers
<1>6. QED
  BY <1>5 DEF a

(* What a cache hands to the core.                                         *)
LEMMA ToldCore ==
  ASSUME AnswersTyped, NEW c \in Caches, NEW p \in PacketSet, ToCore(c, p),
         c = "L1D" /\ p.type # "prefetch" => Len(PROCESSED["L1D"]) < ProcessedSize,
         p.type = "prefetch" => p.deps = {}
  PROVE  /\ PROCESSED' = [d \in Level1 |-> PROCESSED'[d]]
         /\ c \in Level1 => Tells(c, p)
         /\ \A d \in Level1 : d # c => Silent(d)
         /\ c = "L1D" /\ p.type # "prefetch" =>
              Len(PROCESSED'["L1D"]) = Len(PROCESSED["L1D"]) + 1
         /\ ~(c = "L1D" /\ p.type # "prefetch") => PROCESSED'["L1D"] = PROCESSED["L1D"]
<1> DEFINE x == [line |-> p.line, deps |-> p.deps]
<1>1. PROCESSED = [d \in Level1 |-> PROCESSED[d]] /\ PROCESSED["L1D"] \in Seq(Answers)
      /\ Level1 = {"L1I", "L1D"}
  BY DEF AnswersTyped, Level1
<1>2. x \in Answers
  BY DEF Answers, PacketSet
<1> HIDE DEF x
<1>3. CASE c \in Level1 /\ PROCESSED' = [PROCESSED EXCEPT ![c] = Append(@, x)]
           /\ (c = "L1D" => p.type # "prefetch")
  <2>1. PROCESSED'[c] = Append(PROCESSED[c], x) /\ \A d \in Level1 : d # c => PROCESSED'[d] = PROCESSED[d]
    BY <1>1, <1>3
  <2>2. PROCESSED' = [d \in Level1 |-> PROCESSED'[d]]
    BY <1>1, <1>3
  <2>3. Len(Append(PROCESSED["L1D"], x)) = Len(PROCESSED["L1D"]) + 1
    BY <1>1, <1>2, ToldMore
  <2>4. CASE c = "L1D"
    BY <1>1, <1>3, <2>1, <2>2, <2>3, <2>4 DEF Tells, Silent, x
  <2>5. CASE c # "L1D"
    BY <1>1, <1>3, <2>1, <2>2, <2>5 DEF Tells, Silent, x
  <2>6. QED
    BY <2>4, <2>5
<1>4. CASE PROCESSED' = PROCESSED /\ (c = "L1D" => p.type = "prefetch")
  BY <1>1, <1>4 DEF Tells, Silent
<1>5. QED
  BY <1>1, <1>3, <1>4 DEF ToCore, x

(* What happens in another cache moves no load of a first level.           *)
LEMMA MovesElsewhere ==
  ASSUME NEW d \in Level1, RQ'[d] = RQ[d], Silent(d), MissesStay(d)
  PROVE  Moves(d)
BY DEF Moves, ReadsStay, InRead

(* One more element, one less.                                             *)
LEMMA DemandLeaves ==
  ASSUME NEW S, IsFiniteSet(S), NEW e \in S
  PROVE  Cardinality(Demands(S \ {e})) = Cardinality(Demands(S)) - (IF e.type = "prefetch" THEN 0 ELSE 1)
<1>1. IsFiniteSet(Demands(S))
  BY FS_Subset DEF Demands
<1>2. CASE e.type = "prefetch"
  <2>1. Demands(S \ {e}) = Demands(S)
    BY <1>2 DEF Demands
  <2>2. QED
    BY <1>1, <1>2, <2>1, FS_CardinalityType
<1>3. CASE e.type # "prefetch"
  <2>1. Demands(S \ {e}) = Demands(S) \ {e} /\ e \in Demands(S)
    BY <1>3 DEF Demands
  <2>2. QED
    BY <1>1, <1>3, <2>1, FS_RemoveElement
<1>4. QED
  BY <1>2, <1>3

(* A miss enters: one demand more at most, none if it is a prefetch.       *)
LEMMA DemandEnters ==
  ASSUME NEW S, IsFiniteSet(S), NEW p
  PROVE  /\ Cardinality(Demands(S \cup {p})) <= Cardinality(Demands(S)) + 1
         /\ p.type = "prefetch" => Cardinality(Demands(S \cup {p})) = Cardinality(Demands(S))
         /\ Cardinality(Demands(S)) \in Nat /\ Cardinality(Demands(S \cup {p})) \in Nat
<1>1. IsFiniteSet(Demands(S)) /\ Cardinality(Demands(S)) \in Nat
  BY FS_Subset, FS_CardinalityType DEF Demands
<1>2. Demands(S \cup {p}) = IF p.type = "prefetch" THEN Demands(S) ELSE Demands(S) \cup {p}
  BY DEF Demands
<1>3. /\ Cardinality(Demands(S) \cup {p}) <= Cardinality(Demands(S)) + 1
      /\ Cardinality(Demands(S) \cup {p}) \in Nat
  <2>1. Cardinality(Demands(S) \cup {p}) =
          IF p \in Demands(S) THEN Cardinality(Demands(S)) ELSE Cardinality(Demands(S)) + 1
    BY <1>1, FS_AddElement
  <2>2. QED
    BY <1>1, <2>1
<1>4. QED
  BY <1>1, <1>2, <1>3

(* A demand that joins a miss is one more at most.                         *)
LEMMA DemandJoins ==
  ASSUME NEW S, IsFiniteSet(S), NEW e \in S, NEW q
  PROVE  /\ Cardinality(Demands((S \ {e}) \cup {q})) <= Cardinality(Demands(S)) + 1
         /\ (e.type # "prefetch" \/ q.type = "prefetch") =>
              Cardinality(Demands((S \ {e}) \cup {q})) <= Cardinality(Demands(S))
         /\ Cardinality(Demands(S)) \in Nat /\ Cardinality(Demands((S \ {e}) \cup {q})) \in Nat
<1> DEFINE T == S \ {e}
<1>1. Cardinality(Demands(T)) = Cardinality(Demands(S)) - (IF e.type = "prefetch" THEN 0 ELSE 1)
  BY DemandLeaves
<1>2. IsFiniteSet(T) /\ Cardinality(Demands(S)) \in Nat
  BY FS_Subset, FS_CardinalityType DEF Demands
<1> HIDE DEF T
<1>3. /\ Cardinality(Demands(T \cup {q})) <= Cardinality(Demands(T)) + 1
      /\ q.type = "prefetch" => Cardinality(Demands(T \cup {q})) = Cardinality(Demands(T))
      /\ Cardinality(Demands(T)) \in Nat /\ Cardinality(Demands(T \cup {q})) \in Nat
  BY <1>2, DemandEnters
<1>4. /\ Cardinality(Demands(T \cup {q})) <= Cardinality(Demands(S)) + 1
      /\ (e.type # "prefetch" \/ q.type = "prefetch") =>
           Cardinality(Demands(T \cup {q})) <= Cardinality(Demands(S))
  BY <1>1, <1>2, <1>3
<1>5. QED
  BY <1>2, <1>3, <1>4 DEF T

(* Four sizes that change by no more than four differences.                *)
LEMMA SumOfFour ==
  ASSUME NEW a \in Nat, NEW r \in Nat, NEW m \in Nat, NEW w \in Nat,
         NEW a2 \in Nat, NEW r2 \in Nat, NEW m2 \in Nat, NEW w2 \in Nat,
         NEW da \in Int, NEW dr \in Int, NEW dm \in Int, NEW dw \in Int, da + dr + dm + dw <= 0,
         a2 <= a + da, r2 <= r + dr, m2 <= m + dm, w2 <= w + dw
  PROVE  a2 + r2 + m2 + w2 <= a + r + m + w /\ a2 + r2 + m2 + w2 \in Nat
OBVIOUS

(* A step that moves loads and adds no demand keeps LoadInv.               *)
LEMMA StepMoves ==
  ASSUME TablesInv, TablesInv', LoadInv, CoreTyped, \A c \in Level1 : Moves(c),
         PROCESSED' = [c \in Level1 |-> PROCESSED'[c]], UNCHANGED <<loadLine, sent>>,
         NEW da \in Int, NEW dr \in Int, NEW dm \in Int, NEW dw \in Int, da + dr + dm + dw <= 0,
         Len(PROCESSED'["L1D"]) <= Len(PROCESSED["L1D"]) + da,
         Len(RQ'["L1D"]) <= Len(RQ["L1D"]) + dr,
         Cardinality(Demands(MSHR'["L1D"])) <= Cardinality(Demands(MSHR["L1D"])) + dm,
         Len(WQ'["L1D"]) <= Len(WQ["L1D"]) + dw
  PROVE  LoadInv'
<1> DEFINE a == Len(PROCESSED["L1D"])  r == Len(RQ["L1D"])
           m == Cardinality(Demands(MSHR["L1D"]))  w == Len(WQ["L1D"])  o == Outstanding
           a2 == Len(PROCESSED'["L1D"])  r2 == Len(RQ'["L1D"])
           m2 == Cardinality(Demands(MSHR'["L1D"]))  w2 == Len(WQ'["L1D"])  o2 == Outstanding'
<1>1. a \in Nat /\ r \in Nat /\ m \in Nat /\ w \in Nat /\ o \in Nat
  BY Sizes DEF LoadInv
<1>2. AnswersTyped'
  <2>1. AnswersTyped /\ HoldInv /\ Level1 = {"L1I", "L1D"}
    BY DEF LoadInv, Level1
  <2>2. PROCESSED'["L1D"] \in Seq(Answers) /\ PROCESSED'["L1I"] \in Seq(Answers)
    BY <2>1, LoadMoves, FetchMoves
  <2>3. QED
    BY <2>1, <2>2 DEF AnswersTyped
<1>3. a2 \in Nat /\ r2 \in Nat /\ m2 \in Nat /\ w2 \in Nat
  <2>1. PROCESSED'["L1D"] \in Seq(Answers) /\ RQ'["L1D"] \in Seq(Reads("L1D"))
        /\ WQ'["L1D"] \in Seq(WritesOf("L1D")) /\ MissesTyped(MSHR')
    BY <1>2, CacheNames DEF AnswersTyped, Level1, TablesInv, ReadsTyped, WritesTyped
  <2>2. QED
    BY <2>1, LenProperties, DemandsFinite
<1>4. o = a + r + m + w /\ o2 = a2 + r2 + m2 + w2
  BY DEF Outstanding
<1>5. a2 <= a + da /\ r2 <= r + dr /\ m2 <= m + dm /\ w2 <= w + dw
  OBVIOUS
<1> HIDE DEF a, r, m, w, o, a2, r2, m2, w2, o2
<1>6. o2 <= o /\ o2 \in Nat
  <2>1. a2 + r2 + m2 + w2 <= a + r + m + w /\ a2 + r2 + m2 + w2 \in Nat
    BY <1>1, <1>3, <1>5, SumOfFour
  <2>2. QED
    BY <1>4, <2>1
<1>7. Outstanding \in Nat /\ Outstanding' \in Nat /\ Outstanding' <= Outstanding
  BY <1>1, <1>6 DEF o, o2
<1>8. QED
  BY <1>7, MovedKeeps DEF Moved

(* A step that leaves the first levels alone but for answers to misses.    *)
LEMMA StepsElsewhere ==
  ASSUME TablesInv, TablesInv', LoadInv, CoreTyped, NEW m, SameHolds(MSHR', m), MissesTyped(m),
         \A c \in Level1 : RQ'[c] = RQ[c] /\ m[c] = MSHR[c],
         Len(WQ'["L1D"]) <= Len(WQ["L1D"]), UNCHANGED <<PROCESSED, loadLine, sent>>
  PROVE  LoadInv'
<1>1. Level1 = {"L1I", "L1D"} /\ Level1 \subseteq Caches
  BY DEF Level1, Caches
<1>2. \A c \in Level1 : MissesStay(c) /\ Silent(c)
  BY <1>1 DEF SameHolds, MissesStay, InMiss, Silent
<1>3. \A c \in Level1 : Moves(c)
  BY <1>2, MovesElsewhere
<1>4. PROCESSED' = [c \in Level1 |-> PROCESSED'[c]]
  BY DEF LoadInv, AnswersTyped
<1>5. /\ Len(PROCESSED["L1D"]) \in Nat /\ Len(RQ["L1D"]) \in Nat /\ Len(WQ["L1D"]) \in Nat
      /\ Cardinality(Demands(MSHR["L1D"])) \in Nat
  BY Sizes DEF LoadInv
<1>6. PROCESSED'["L1D"] = PROCESSED["L1D"] /\ RQ'["L1D"] = RQ["L1D"] /\ m["L1D"] = MSHR["L1D"]
      /\ Cardinality(Demands(MSHR'["L1D"])) <= Cardinality(Demands(m["L1D"]))
  BY <1>1 DEF SameHolds
<1>7. /\ 0 \in Int /\ 0 + 0 + 0 + 0 <= 0
      /\ Len(PROCESSED'["L1D"]) <= Len(PROCESSED["L1D"]) + 0
      /\ Len(RQ'["L1D"]) <= Len(RQ["L1D"]) + 0
      /\ Cardinality(Demands(MSHR'["L1D"])) <= Cardinality(Demands(MSHR["L1D"])) + 0
      /\ Len(WQ'["L1D"]) <= Len(WQ["L1D"]) + 0
  BY <1>5, <1>6
<1>8. QED
  BY <1>3, <1>4, <1>7, StepMoves

(* handle_fill() takes a miss out of the MSHR and tells the core.          *)
LEMMA FillHolds ==
  ASSUME CacheInv, TablesInv', LoadInv, RoomForAnswers, NEW c \in Caches, HandleFill(c)
  PROVE  LoadInv'
<1> DEFINE e == check_mshr(c, nextFill[c])
           m == [MSHR EXCEPT ![c] = @ \ {e}]
           s == get_set(c, e.line)
           way == lru_victim(blocks[c][s])
<1>1. /\ TablesInv /\ StacksInv /\ BlocksTyped /\ CoreTyped /\ AnswersTyped /\ HoldInv
      /\ MissesTyped(MSHR)
  BY DEF CacheInv, TablesInv, LoadInv
<1>2. e \in MSHR[c]
  BY <1>1, FillTables
<1>3. /\ MissesTyped(m) /\ Others(m, MSHR, c) /\ m[c] = MSHR[c] \ {e}
      /\ Drops(m[c], MSHR[c], e) /\ e \in Misses(c)
  BY <1>1, <1>2, MissLeaves
<1>4. /\ \E n : return_data(Uppers(c, e), e.line, m, n)
      /\ WriteBack(c, blocks[c][s][way], WQ) /\ ToCore(c, e) /\ UNCHANGED <<RQ, loadLine, sent>>
  BY DEF HandleFill
<1> HIDE DEF m
<1>5. SameHolds(MSHR', m)
  BY <1>3, <1>4, ReturnedHolds
<1>6. WQ'["L1D"] = WQ["L1D"]
  <2>1. WQ = [d \in Caches |-> WQ[d]] /\ (c # "LLC" => Lower[c] # "L1D")
    BY <1>1, LowerOf, CacheNames DEF TablesInv, WritesTyped
  <2>2. CASE WQ' = WQ
    BY <2>2
  <2>3. CASE c # "LLC" /\ add_wq(Lower[c], WritePacket(blocks[c][s][way].line, 0), WQ)
    BY <2>1, <2>3 DEF add_wq
  <2>4. QED
    BY <1>4, <2>2, <2>3 DEF WriteBack
<1> HIDE DEF e
<1>7. e \in PacketSet /\ (e.type = "prefetch" => e.deps = {})
  BY <1>3 DEF Misses, Fits
<1>8. c = "L1D" /\ e.type # "prefetch" => Len(PROCESSED["L1D"]) < ProcessedSize
  <2>1. SUFFICES ASSUME c = "L1D", e.type # "prefetch" PROVE Len(PROCESSED["L1D"]) < ProcessedSize
    OBVIOUS
  <2>2. IsFiniteSet(Demands(MSHR["L1D"])) /\ e \in Demands(MSHR["L1D"])
    BY <1>1, <1>2, <2>1, DemandsFinite DEF Demands
  <2>3. Cardinality(Demands(MSHR["L1D"])) \in Nat /\ Cardinality(Demands(MSHR["L1D"])) # 0
    BY <2>2, FS_EmptySet, FS_CardinalityType
  <2> DEFINE x == Len(RQ["L1D"])  y == Cardinality(Demands(MSHR["L1D"]))  z == Len(WQ["L1D"])
  <2>4. x \in Nat /\ y \in Nat /\ y # 0 /\ z \in Nat
    BY <1>1, <2>3, Sizes
  <2> HIDE DEF x, y, z
  <2>5. x + y + z > 0
    BY <2>4
  <2>6. QED
    BY <1>1, <2>5, AnswerFits DEF x, y, z
<1>9. /\ PROCESSED' = [d \in Level1 |-> PROCESSED'[d]]
      /\ c \in Level1 => Tells(c, e)
      /\ \A d \in Level1 : d # c => Silent(d)
      /\ c = "L1D" /\ e.type # "prefetch" => Len(PROCESSED'["L1D"]) = Len(PROCESSED["L1D"]) + 1
      /\ ~(c = "L1D" /\ e.type # "prefetch") => PROCESSED'["L1D"] = PROCESSED["L1D"]
  BY <1>1, <1>4, <1>7, <1>8, ToldCore
<1>10. \A d \in Level1 : Moves(d)
  <2>1. SUFFICES ASSUME NEW d \in Level1 PROVE Moves(d)
    OBVIOUS
  <2>2. d \in Caches /\ RQ'[d] = RQ[d]
    BY <1>4 DEF Level1, Caches
  <2>3. CASE d # c
    <3>1. MissesStay(d)
      BY <1>3, <1>5, <2>2, <2>3 DEF MissesStay, SameHolds, InMiss, Others
    <3>2. QED
      BY <1>9, <2>2, <2>3, <3>1, MovesElsewhere
  <2>4. CASE d = c
    <3>1. MissTaken(d, e)
      <4>1. \A l, i : InMiss(MSHR', d, l, i) <=> InMiss(MSHR, d, l, i) /\ l # e.line
        BY <1>3, <1>5, <2>2, <2>4 DEF SameHolds, InMiss, Drops
      <4>2. \A i : InMiss(MSHR, d, e.line, i) <=> i \in e.deps
        BY <1>3, <1>7, <2>4 DEF InMiss, Drops, Holding
      <4>3. QED
        BY <4>1, <4>2 DEF MissTaken
    <3>2. ReadsStay(d)
      BY <2>2 DEF ReadsStay, InRead
    <3>3. QED
      BY <1>7, <1>9, <2>4, <3>1, <3>2 DEF Moves
  <2>5. QED
    BY <2>3, <2>4
<1>11. /\ Len(PROCESSED["L1D"]) \in Nat /\ Len(RQ["L1D"]) \in Nat /\ Len(WQ["L1D"]) \in Nat
       /\ Cardinality(Demands(MSHR["L1D"])) \in Nat /\ IsFiniteSet(MSHR["L1D"])
       /\ Cardinality(Demands(MSHR'["L1D"])) \in Nat /\ Cardinality(Demands(m["L1D"])) \in Nat
  BY <1>1, <1>3, Sizes, DemandsFinite DEF TablesInv
<1>12. Cardinality(Demands(MSHR'["L1D"])) <= Cardinality(Demands(m["L1D"]))
       /\ RQ'["L1D"] = RQ["L1D"]
  BY <1>4, <1>5 DEF SameHolds
<1>13. CASE c = "L1D" /\ e.type # "prefetch"
  <2>1. Cardinality(Demands(m["L1D"])) = Cardinality(Demands(MSHR["L1D"])) - 1
    BY <1>2, <1>3, <1>11, <1>13, DemandLeaves
  <2>2. /\ 1 \in Int /\ 0 \in Int /\ -1 \in Int /\ 1 + 0 + (-1) + 0 <= 0
        /\ Len(PROCESSED'["L1D"]) <= Len(PROCESSED["L1D"]) + 1
        /\ Len(RQ'["L1D"]) <= Len(RQ["L1D"]) + 0
        /\ Cardinality(Demands(MSHR'["L1D"])) <= Cardinality(Demands(MSHR["L1D"])) + (-1)
        /\ Len(WQ'["L1D"]) <= Len(WQ["L1D"]) + 0
    BY <1>6, <1>9, <1>11, <1>12, <1>13, <2>1
  <2>3. QED
    BY <1>1, <1>4, <1>9, <1>10, <2>2, StepMoves
<1>14. CASE ~(c = "L1D" /\ e.type # "prefetch")
  <2>1. Cardinality(Demands(m["L1D"])) <= Cardinality(Demands(MSHR["L1D"]))
    <3>1. CASE c = "L1D"
      BY <1>2, <1>3, <1>11, <1>14, <3>1, DemandLeaves
    <3>2. CASE c # "L1D"
      <4>1. m["L1D"] = MSHR["L1D"]
        BY <1>3, <3>2, CacheNames DEF Others
      <4>2. QED
        BY <1>11, <4>1
    <3>3. QED
      BY <3>1, <3>2
  <2>2. /\ 0 \in Int /\ 0 + 0 + 0 + 0 <= 0
        /\ Len(PROCESSED'["L1D"]) <= Len(PROCESSED["L1D"]) + 0
        /\ Len(RQ'["L1D"]) <= Len(RQ["L1D"]) + 0
        /\ Cardinality(Demands(MSHR'["L1D"])) <= Cardinality(Demands(MSHR["L1D"])) + 0
        /\ Len(WQ'["L1D"]) <= Len(WQ["L1D"]) + 0
    BY <1>6, <1>9, <1>11, <1>12, <1>14, <2>1
  <2>3. QED
    BY <1>1, <1>4, <1>9, <1>10, <2>2, StepMoves
<1>15. QED
  BY <1>13, <1>14

(* Write queues of the L1D get no longer when another cache writes back.   *)
LEMMA OtherWrites ==
  ASSUME WritesTyped(WQ), NEW c \in Caches, NEW w, WritesTyped(w), w["L1D"] = WQ["L1D"],
         NEW victim, WriteBack(c, victim, w)
  PROVE  WQ'["L1D"] = WQ["L1D"]
<1>1. w = [d \in Caches |-> w[d]] /\ (c # "LLC" => Lower[c] # "L1D") /\ "L1D" \in Caches
  BY LowerOf, CacheNames DEF WritesTyped
<1>2. CASE WQ' = w
  BY <1>2
<1>3. CASE c # "LLC" /\ add_wq(Lower[c], WritePacket(victim.line, 0), w)
  BY <1>1, <1>3 DEF add_wq
<1>4. QED
  BY <1>2, <1>3 DEF WriteBack

(* A write is popped.                                                      *)
LEMMA WritePops ==
  ASSUME WritesTyped(WQ), NEW c \in Caches, WQ[c] # <<>>, NEW w, w = Popped(WQ, c)
  PROVE  /\ Len(w["L1D"]) <= Len(WQ["L1D"])
         /\ c = "L1D" => Len(w["L1D"]) = Len(WQ["L1D"]) - 1
         /\ c # "L1D" => w["L1D"] = WQ["L1D"]
<1>1. /\ "L1D" \in Caches /\ WQ["L1D"] \in Seq(WritesOf("L1D")) /\ Len(WQ["L1D"]) \in Nat
      /\ Others(w, WQ, c) /\ w[c] = Tail(WQ[c])
  BY PoppedWrite, CacheNames, LenProperties DEF WritesTyped
<1>2. CASE c = "L1D"
  <2>1. Len(Tail(WQ["L1D"])) = Len(WQ["L1D"]) - 1
    BY <1>1, <1>2, HeadTailProperties
  <2> DEFINE x == Len(w["L1D"])  y == Len(WQ["L1D"])
  <2>2. y \in Nat /\ x = y - 1
    BY <1>1, <1>2, <2>1
  <2> HIDE DEF x, y
  <2>3. x <= y
    BY <2>2
  <2>4. QED
    BY <1>2, <2>2, <2>3 DEF x, y
<1>3. CASE c # "L1D"
  <2>1. w["L1D"] = WQ["L1D"]
    BY <1>1, <1>3 DEF Others
  <2>2. QED
    BY <1>1, <1>3, <2>1
<1>4. QED
  BY <1>2, <1>3

(* A write that hits takes a write out of the queue and moves no load.     *)
LEMMA WritebackHitHolds ==
  ASSUME CacheInv, TablesInv', LoadInv, NEW c \in Caches, WritebackHit(c)
  PROVE  LoadInv'
<1>1. /\ TablesInv /\ CoreTyped /\ MissesTyped(MSHR) /\ WritesTyped(WQ)
  BY DEF CacheInv, TablesInv
<1>2. WQ[c] # <<>> /\ WQ' = Popped(WQ, c) /\ UNCHANGED <<RQ, MSHR, PROCESSED, loadLine, sent>>
  BY DEF WritebackHit, core
<1>3. Len(WQ'["L1D"]) <= Len(WQ["L1D"])
  BY <1>1, <1>2, WritePops
<1>4. SameHolds(MSHR', MSHR)
  BY <1>1, <1>2, EqualHolds
<1>5. QED
  BY <1>1, <1>2, <1>3, <1>4, StepsElsewhere

(* Below L1D a written line that misses takes a way of its own and moves   *)
(* no load.                                                                *)
LEMMA WritebackMissHolds ==
  ASSUME CacheInv, TablesInv', LoadInv, NEW c \in Caches, WritebackMiss(c)
  PROVE  LoadInv'
<1>1. /\ TablesInv /\ CoreTyped /\ MissesTyped(MSHR) /\ WritesTyped(WQ)
  BY DEF CacheInv, TablesInv
<1> DEFINE w == Popped(WQ, c)
<1>2. /\ WQ[c] # <<>> /\ c # "L1D" /\ UNCHANGED <<RQ, MSHR, PROCESSED, loadLine, sent>>
      /\ \E v : WriteBack(c, v, w)
  BY DEF WritebackMiss, core
<1>3. w["L1D"] = WQ["L1D"] /\ WritesTyped(w)
  BY <1>1, <1>2, WritePops, PoppedWrite
<1> HIDE DEF w
<1>4. WQ'["L1D"] = WQ["L1D"]
  BY <1>1, <1>2, <1>3, OtherWrites
<1>5. Len(WQ'["L1D"]) <= Len(WQ["L1D"])
  BY <1>1, <1>4, Sizes DEF LoadInv
<1>6. SameHolds(MSHR', MSHR)
  BY <1>1, <1>2, EqualHolds
<1>7. QED
  BY <1>1, <1>2, <1>5, <1>6, StepsElsewhere

(* Names of the first levels, and what stays typed, for the steps below.   *)
LEMMA FirstLevels == Level1 = {"L1I", "L1D"} /\ Level1 \subseteq Caches /\ "L1D" \in Caches
                     /\ "L2C" \notin Level1 /\ "LLC" \notin Level1
BY DEF Level1, Caches

(* What the two invariants say together, as the lemmas on loads use it.    *)
LEMMA HeldTyped ==
  ASSUME CacheInv, LoadInv
  PROVE  /\ TablesInv /\ CoreTyped /\ AnswersTyped /\ HoldInv /\ ReadsTyped(RQ) /\ PrefsTyped(PQ)
         /\ WritesTyped(WQ) /\ MissesTyped(MSHR) /\ NextGood(MSHR, nextFill)
         /\ IsFiniteSet(MSHR["L1D"]) /\ Cardinality(Demands(MSHR["L1D"])) \in Nat
         /\ Len(PROCESSED["L1D"]) \in Nat /\ Len(RQ["L1D"]) \in Nat /\ Len(WQ["L1D"]) \in Nat
         /\ PROCESSED = [c \in Level1 |-> PROCESSED[c]]
<1>1. /\ TablesInv /\ CoreTyped /\ AnswersTyped /\ HoldInv
  BY DEF CacheInv, LoadInv
<1>2. /\ ReadsTyped(RQ) /\ PrefsTyped(PQ)
         /\ WritesTyped(WQ) /\ MissesTyped(MSHR) /\ NextGood(MSHR, nextFill)
  BY <1>1 DEF TablesInv
<1>3. IsFiniteSet(MSHR["L1D"])
  BY <1>2, DemandsFinite
<1>4. PROCESSED = [c \in Level1 |-> PROCESSED[c]]
  BY <1>1 DEF AnswersTyped
<1>5. QED
  BY <1>1, <1>2, <1>3, <1>4, Sizes

(* Misses that hold the same in a cache that another change left alone.    *)
LEMMA StaysWithin ==
  ASSUME NEW c \in Level1, NEW m, SameHolds(MSHR', m), m[c] = MSHR[c]
  PROVE  MissesStay(c)
<1>1. c \in Caches
  BY FirstLevels
<1>2. QED
  BY <1>1 DEF SameHolds, MissesStay, InMiss

(* A store that misses is a miss instead of a write.                       *)
LEMMA StoreMissHolds ==
  ASSUME CacheInv, TablesInv', LoadInv, StoreMiss
  PROVE  LoadInv'
<1> DEFINE l == Head(WQ["L1D"]).line  p == StorePacket(l)
           m == [MSHR EXCEPT !["L1D"] = @ \cup {p}]
<1>1. /\ WQ["L1D"] # <<>> /\ InMshr("L1D", l) = {} /\ Cardinality(MSHR["L1D"]) < MshrSize["L1D"]
      /\ add_rq("L2C", p, RQ, m) /\ WQ' = Popped(WQ, "L1D") /\ UNCHANGED <<PROCESSED, loadLine, sent>>
  BY DEF StoreMiss, core
<1>2. /\ TablesInv /\ CoreTyped /\ MissesTyped(MSHR) /\ WritesTyped(WQ) /\ NextGood(MSHR, nextFill)
      /\ ReadsTyped(RQ) /\ PROCESSED = [c \in Level1 |-> PROCESSED[c]]
      /\ IsFiniteSet(MSHR["L1D"]) /\ Cardinality(Demands(MSHR["L1D"])) \in Nat
      /\ Len(PROCESSED["L1D"]) \in Nat /\ Len(RQ["L1D"]) \in Nat /\ Len(WQ["L1D"]) \in Nat
  BY HeldTyped
<1>3. l \in DataLines
  <2>1. Head(WQ["L1D"]) \in WritesOf("L1D")
    BY <1>1, <1>2, FirstLevels, PoppedWrite
  <2>2. QED
    BY <2>1 DEF WritesOf, WriteLines
<1>4. p \in Misses("L1D") /\ p.line = l /\ p.deps = {} /\ ~p.returned /\ p \in PacketSet
  BY <1>3, StorePackets DEF Misses, Reads
<1>5. /\ MissesTyped(m) /\ Others(m, MSHR, "L1D") /\ m["L1D"] = MSHR["L1D"] \cup {p}
      /\ Adds(m["L1D"], MSHR["L1D"], p)
  BY <1>1, <1>2, <1>4, FirstLevels, MissEnters
<1> HIDE DEF m, p, l
<1>6. SameHolds(MSHR', m) /\ RQ'["L1D"] = RQ["L1D"] /\ RQ'["L1I"] = RQ["L1I"]
  <2>1. RQ = [c \in Caches |-> RQ[c]] /\ "L2C" \in Caches /\ "L1D" \in Caches /\ "L1I" \in Caches
    BY <1>2, CacheNames DEF ReadsTyped
  <2>2. QED
    BY <1>1, <1>5, <2>1, ReadAddedHolds
<1>7. MissesStay("L1D")
  <2>1. \A k, i : InMiss(MSHR', "L1D", k, i) <=> InMiss(m, "L1D", k, i)
    BY <1>6, FirstLevels DEF SameHolds
  <2>2. \A k, i : InMiss(m, "L1D", k, i) <=> InMiss(MSHR, "L1D", k, i) \/ (k = p.line /\ p \in Holding(i))
    BY <1>5 DEF InMiss, Adds
  <2>3. \A i : p \notin Holding(i)
    BY <1>4 DEF Holding
  <2>4. QED
    BY <2>1, <2>2, <2>3 DEF MissesStay
<1>8. MissesStay("L1I")
  BY <1>5, <1>6, FirstLevels, StaysWithin DEF Others
<1>9. \A c \in Level1 : Moves(c)
  BY <1>1, <1>6, <1>7, <1>8, FirstLevels, MovesElsewhere DEF Silent
<1>10. /\ Cardinality(Demands(MSHR'["L1D"])) <= Cardinality(Demands(m["L1D"]))
       /\ Cardinality(Demands(m["L1D"])) <= Cardinality(Demands(MSHR["L1D"])) + 1
       /\ Cardinality(Demands(m["L1D"])) \in Nat /\ Cardinality(Demands(MSHR'["L1D"])) \in Nat
  BY <1>2, <1>5, <1>6, DemandEnters, DemandsFinite DEF SameHolds, TablesInv
<1>11. Len(WQ'["L1D"]) = Len(WQ["L1D"]) - 1
  BY <1>1, <1>2, FirstLevels, WritePops
<1>12. /\ 1 \in Int /\ 0 \in Int /\ -1 \in Int /\ 0 + 0 + 1 + (-1) <= 0
       /\ Len(PROCESSED'["L1D"]) <= Len(PROCESSED["L1D"]) + 0
       /\ Len(RQ'["L1D"]) <= Len(RQ["L1D"]) + 0
       /\ Cardinality(Demands(MSHR'["L1D"])) <= Cardinality(Demands(MSHR["L1D"])) + 1
       /\ Len(WQ'["L1D"]) <= Len(WQ["L1D"]) + (-1)
  BY <1>1, <1>2, <1>6, <1>10, <1>11
<1>13. QED
  BY <1>1, <1>2, <1>9, <1>12, StepMoves

(* A miss another packet joins holds what the joined entry holds.          *)
LEMMA MergedMiss ==
  ASSUME MissesTyped(MSHR), NextGood(MSHR, nextFill), NEW c \in Caches, NEW e \in MSHR[c],
         NEW q \in Misses(c), q.line = e.line, q.returned = e.returned,
         MSHR' = [MSHR EXCEPT ![c] = (@ \ {e}) \cup {q}]
  PROVE  /\ MSHR'[c] = (MSHR[c] \ {e}) \cup {q}
         /\ \A d \in Level1 : d # c => MissesStay(d)
         /\ \A k, i : InMiss(MSHR', c, k, i) <=>
                     IF k = e.line THEN i \in q.deps ELSE InMiss(MSHR, c, k, i)
         /\ \A i : InMiss(MSHR, c, e.line, i) <=> i \in e.deps
<1>0. e \in Misses(c) /\ q \in Misses(c) /\ e \in PacketSet /\ q \in PacketSet
      /\ q.line = e.line /\ q.returned = e.returned
  BY DEF MissesTyped, Misses
<1> DEFINE m == [MSHR EXCEPT ![c] = (@ \ {e}) \cup {q}]
<1>1. MSHR' = m
  OBVIOUS
<1>2. MissesTyped(m) /\ Others(m, MSHR, c) /\ Swaps(m[c], MSHR[c], e, q)
  BY <1>0, MissJoined
<1>3. m[c] = (MSHR[c] \ {e}) \cup {q}
  <2>1. MSHR = [d \in Caches |-> MSHR[d]]
    BY DEF MissesTyped
  <2>2. QED
    BY <2>1
<1> HIDE DEF m
<1>4. \A d \in Level1 : d # c => MissesStay(d)
  BY <1>1, <1>2, FirstLevels DEF Others, MissesStay, InMiss
<1>5. \A k, i : InMiss(m, c, k, i) <=> IF k = e.line THEN i \in q.deps ELSE InMiss(MSHR, c, k, i)
  BY <1>0, <1>2 DEF Swaps, InMiss, Holding
<1>6. \A i : InMiss(MSHR, c, e.line, i) <=> i \in e.deps
  BY <1>0, <1>2 DEF Swaps, InMiss, Holding
<1>7. MSHR'[c] = (MSHR[c] \ {e}) \cup {q}
  BY <1>1, <1>3
<1>8. \A k, i : InMiss(MSHR', c, k, i) <=> IF k = e.line THEN i \in q.deps ELSE InMiss(MSHR, c, k, i)
  BY <1>1, <1>5
<1>9. QED
  BY <1>4, <1>6, <1>7, <1>8

(* A store that merges adds one demand at most, and no load.               *)
LEMMA StoreMergeHolds ==
  ASSUME CacheInv, TablesInv', LoadInv, StoreMerge
  PROVE  LoadInv'
<1> DEFINE l == Head(WQ["L1D"]).line  e == check_mshr("L1D", l)
           q == IF e.type = "prefetch" THEN Replaced(e, StorePacket(l))
                ELSE [e EXCEPT !.fill_level = 1, !.fill_l1d = TRUE]
<1>1. /\ WQ["L1D"] # <<>> /\ InMshr("L1D", l) # {}
      /\ MSHR' = [MSHR EXCEPT !["L1D"] = (@ \ {e}) \cup {q}]
      /\ WQ' = Popped(WQ, "L1D") /\ UNCHANGED <<RQ, PROCESSED, loadLine, sent>>
  BY DEF StoreMerge, core
<1>2. /\ TablesInv /\ CoreTyped /\ MissesTyped(MSHR) /\ WritesTyped(WQ) /\ NextGood(MSHR, nextFill)
      /\ ReadsTyped(RQ) /\ PROCESSED = [c \in Level1 |-> PROCESSED[c]]
      /\ IsFiniteSet(MSHR["L1D"]) /\ Cardinality(Demands(MSHR["L1D"])) \in Nat
      /\ Len(PROCESSED["L1D"]) \in Nat /\ Len(RQ["L1D"]) \in Nat /\ Len(WQ["L1D"]) \in Nat
  BY HeldTyped
<1>3. l \in DataLines
  <2>1. Head(WQ["L1D"]) \in WritesOf("L1D")
    BY <1>1, <1>2, FirstLevels, PoppedWrite
  <2>2. QED
    BY <2>1 DEF WritesOf, WriteLines
<1>4. e \in MSHR["L1D"] /\ e.line = l /\ e \in Misses("L1D") /\ e \in PacketSet
  BY <1>1, <1>2, FirstLevels, ChosenMiss
<1> HIDE DEF e, l
<1>5. q \in Misses("L1D") /\ q.line = e.line /\ q.returned = e.returned /\ q.deps = e.deps
  <2>1. CASE e.type = "prefetch"
    <3>1. StorePacket(l) \in Reads("L1D") /\ StorePacket(l).line = l /\ StorePacket(l).deps = {}
      BY <1>3, StorePackets
    <3>2. Joins("L1D", e, StorePacket(l), Replaced(e, StorePacket(l)))
          /\ Replaced(e, StorePacket(l)).deps = {}
      BY <1>4, <3>1, FirstLevels, ReplacedPacket
    <3>3. e.deps = {}
      BY <1>4, <2>1 DEF Misses, Fits
    <3>4. QED
      BY <2>1, <3>2, <3>3 DEF Joins
  <2>2. CASE e.type # "prefetch"
    BY <1>4, <2>2, JoinedByStorePacket
  <2>3. QED
    BY <2>1, <2>2
<1>6. q \in PacketSet
  BY <1>5 DEF Misses
<1> HIDE DEF q
<1>7. /\ MSHR'["L1D"] = (MSHR["L1D"] \ {e}) \cup {q}
      /\ \A d \in Level1 : d # "L1D" => MissesStay(d)
      /\ \A k, i : InMiss(MSHR', "L1D", k, i) <=>
                  IF k = e.line THEN i \in q.deps ELSE InMiss(MSHR, "L1D", k, i)
      /\ \A i : InMiss(MSHR, "L1D", e.line, i) <=> i \in e.deps
  BY <1>1, <1>2, <1>4, <1>5, FirstLevels, MergedMiss
<1>8. MissesStay("L1D")
  BY <1>5, <1>7 DEF MissesStay
<1>9. MissesStay("L1I")
  BY <1>7, FirstLevels
<1>10. \A c \in Level1 : Moves(c)
  BY <1>1, <1>8, <1>9, FirstLevels, MovesElsewhere DEF Silent
<1>11. Cardinality(Demands(MSHR'["L1D"])) <= Cardinality(Demands(MSHR["L1D"])) + 1
  BY <1>2, <1>4, <1>7, DemandJoins
<1>12. Len(WQ'["L1D"]) = Len(WQ["L1D"]) - 1
  BY <1>1, <1>2, FirstLevels, WritePops
<1>13. /\ 1 \in Int /\ 0 \in Int /\ -1 \in Int /\ 0 + 0 + 1 + (-1) <= 0
       /\ Len(PROCESSED'["L1D"]) <= Len(PROCESSED["L1D"]) + 0
       /\ Len(RQ'["L1D"]) <= Len(RQ["L1D"]) + 0
       /\ Cardinality(Demands(MSHR'["L1D"])) <= Cardinality(Demands(MSHR["L1D"])) + 1
       /\ Len(WQ'["L1D"]) <= Len(WQ["L1D"]) + (-1)
  BY <1>1, <1>2, <1>11, <1>12
<1>14. QED
  BY <1>1, <1>2, <1>10, <1>13, StepMoves

(* The head of a read queue of a first level leaves it.                    *)
LEMMA ReadTakenFrom ==
  ASSUME ReadsTyped(RQ), NEW c \in Level1, RQ[c] # <<>>, NEW p, p = Head(RQ[c]),
         NEW r, r = Popped(RQ, c), RQ'[c] = r[c]
  PROVE  /\ p \in Reads(c) /\ p \in PacketSet /\ p.type # "prefetch" /\ ReadTaken(c, p)
         /\ Len(RQ'[c]) = Len(RQ[c]) - 1 /\ Len(RQ[c]) \in Nat /\ Len(RQ[c]) # 0
<1>1. c \in Caches
  BY FirstLevels
<1>2. p \in Reads(c) /\ Drops(Range(r[c]), Range(RQ[c]), p)
  BY <1>1, PoppedRead
<1>3. p \in PacketSet /\ p.type # "prefetch"
  BY <1>2 DEF Reads
<1>4. r[c] = Tail(RQ[c])
  BY <1>1 DEF ReadsTyped, Popped
<1>5. ReadTaken(c, p)
  <2>1. \A l, i : InRead(RQ', c, l, i) <=> InRead(RQ, c, l, i) /\ l # p.line
    BY <1>2 DEF InRead, Drops
  <2>2. \A i : InRead(RQ, c, p.line, i) <=> i \in p.deps
    BY <1>2, <1>3 DEF InRead, Drops, Holding
  <2>3. QED
    BY <2>1, <2>2 DEF ReadTaken
<1>6. RQ[c] \in Seq(Reads(c))
  BY <1>1 DEF ReadsTyped
<1>7. Len(Tail(RQ[c])) = Len(RQ[c]) - 1 /\ Len(RQ[c]) \in Nat /\ Len(RQ[c]) # 0
  BY <1>6, HeadTailProperties, EmptySeq, LenProperties
<1>8. QED
  BY <1>2, <1>3, <1>4, <1>5, <1>7

(* A queue of reads that another cache takes from stays.                   *)
LEMMA ReadsLeft ==
  ASSUME ReadsTyped(RQ), NEW c \in Caches, RQ' = Popped(RQ, c)
  PROVE  \A d \in Level1 : d # c => RQ'[d] = RQ[d]
BY FirstLevels DEF ReadsTyped, Popped

(* A read that hits: its loads are told.                                   *)
LEMMA ReadHitHolds ==
  ASSUME CacheInv, TablesInv', LoadInv, RoomForAnswers, NEW c \in Caches, ReadHit(c)
  PROVE  LoadInv'
<1> DEFINE p == Head(RQ[c])
<1>1. /\ RQ[c] # <<>> /\ ToCore(c, p) /\ return_data(Uppers(c, p), p.line, MSHR, nextFill)
      /\ RQ' = Popped(RQ, c) /\ UNCHANGED <<WQ, loadLine, sent>>
  BY DEF ReadHit
<1>2. /\ TablesInv /\ CoreTyped /\ MissesTyped(MSHR) /\ WritesTyped(WQ) /\ NextGood(MSHR, nextFill)
      /\ ReadsTyped(RQ) /\ PROCESSED = [d \in Level1 |-> PROCESSED[d]] /\ AnswersTyped
      /\ IsFiniteSet(MSHR["L1D"]) /\ Cardinality(Demands(MSHR["L1D"])) \in Nat
      /\ Len(PROCESSED["L1D"]) \in Nat /\ Len(RQ["L1D"]) \in Nat /\ Len(WQ["L1D"]) \in Nat
  BY HeldTyped
<1> HIDE DEF p
<1>3. SameHolds(MSHR', MSHR)
  BY <1>1, <1>2, ReturnedHolds
<1>4. \A d \in Level1 : d # c => RQ'[d] = RQ[d]
  BY <1>1, <1>2, ReadsLeft
<1>5. CASE c \notin Level1
  <2>1. PROCESSED' = PROCESSED /\ \A d \in Level1 : d # c
    BY <1>1, <1>5 DEF ToCore
  <2>2. \A d \in Level1 : RQ'[d] = RQ[d] /\ MSHR[d] = MSHR[d]
    BY <1>4, <2>1
  <2>3. WQ'["L1D"] = WQ["L1D"] /\ Len(WQ'["L1D"]) <= Len(WQ["L1D"])
    BY <1>1, <1>2
  <2>4. QED
    BY <1>1, <1>2, <1>3, <2>1, <2>2, <2>3, StepsElsewhere
<1>6. CASE c \in Level1
  <2>1. /\ p \in PacketSet /\ p.type # "prefetch" /\ ReadTaken(c, p)
        /\ Len(RQ'[c]) = Len(RQ[c]) - 1 /\ Len(RQ[c]) \in Nat /\ Len(RQ[c]) # 0
    BY <1>1, <1>2, <1>6, ReadTakenFrom DEF p
  <2>2. \A d \in Level1 : MissesStay(d)
    BY <1>3, StaysWithin
  <2>3. c = "L1D" => Len(PROCESSED["L1D"]) < ProcessedSize
    <3>1. SUFFICES ASSUME c = "L1D" PROVE Len(PROCESSED["L1D"]) < ProcessedSize
      OBVIOUS
    <3> DEFINE x == Len(RQ["L1D"])  y == Cardinality(Demands(MSHR["L1D"]))  z == Len(WQ["L1D"])
    <3>2. x \in Nat /\ x # 0 /\ y \in Nat /\ z \in Nat
      BY <1>2, <2>1, <3>1
    <3> HIDE DEF x, y, z
    <3>3. x + y + z > 0
      BY <3>2
    <3>4. QED
      BY <1>2, <3>3, AnswerFits DEF x, y, z
  <2>4. /\ PROCESSED' = [d \in Level1 |-> PROCESSED'[d]]
        /\ Tells(c, p)
        /\ \A d \in Level1 : d # c => Silent(d)
        /\ c = "L1D" => Len(PROCESSED'["L1D"]) = Len(PROCESSED["L1D"]) + 1
        /\ c # "L1D" => PROCESSED'["L1D"] = PROCESSED["L1D"]
    BY <1>1, <1>2, <1>6, <2>1, <2>3, ToldCore
  <2>5. ASSUME NEW d \in Level1 PROVE Moves(d)
    <3>1. CASE d = c
      BY <2>1, <2>2, <2>4, <3>1 DEF Moves
    <3>2. CASE d # c
      BY <1>4, <2>2, <2>4, <3>2, MovesElsewhere
    <3>3. QED
      BY <3>1, <3>2
  <2>6. Cardinality(Demands(MSHR'["L1D"])) <= Cardinality(Demands(MSHR["L1D"]))
        /\ Cardinality(Demands(MSHR'["L1D"])) \in Nat
    BY <1>3, DemandsFinite DEF SameHolds, TablesInv
  <2>7. CASE c = "L1D"
    <3>1. /\ 1 \in Int /\ 0 \in Int /\ -1 \in Int /\ 1 + (-1) + 0 + 0 <= 0
          /\ Len(PROCESSED'["L1D"]) <= Len(PROCESSED["L1D"]) + 1
          /\ Len(RQ'["L1D"]) <= Len(RQ["L1D"]) + (-1)
          /\ Cardinality(Demands(MSHR'["L1D"])) <= Cardinality(Demands(MSHR["L1D"])) + 0
          /\ Len(WQ'["L1D"]) <= Len(WQ["L1D"]) + 0
      BY <1>1, <1>2, <2>1, <2>4, <2>6, <2>7
    <3>2. QED
      BY <1>1, <1>2, <2>4, <2>5, <3>1, StepMoves
  <2>8. CASE c # "L1D"
    <3>1. RQ'["L1D"] = RQ["L1D"]
      BY <1>4, <2>8, FirstLevels
    <3>2. /\ 0 \in Int /\ 0 + 0 + 0 + 0 <= 0
          /\ Len(PROCESSED'["L1D"]) <= Len(PROCESSED["L1D"]) + 0
          /\ Len(RQ'["L1D"]) <= Len(RQ["L1D"]) + 0
          /\ Cardinality(Demands(MSHR'["L1D"])) <= Cardinality(Demands(MSHR["L1D"])) + 0
          /\ Len(WQ'["L1D"]) <= Len(WQ["L1D"]) + 0
      BY <1>1, <1>2, <2>4, <2>6, <2>8, <3>1
    <3>3. QED
      BY <1>1, <1>2, <2>4, <2>5, <3>2, StepMoves
  <2>9. QED
    BY <2>7, <2>8
<1>7. QED
  BY <1>5, <1>6

(* A read that misses: what depends on it waits in the MSHR.               *)
LEMMA ReadMissHolds ==
  ASSUME CacheInv, TablesInv', LoadInv, NEW c \in Caches, ReadMiss(c)
  PROVE  LoadInv'
<1> DEFINE p == Head(RQ[c])  m == [MSHR EXCEPT ![c] = @ \cup {p}]  r == Popped(RQ, c)
<1>1. /\ RQ[c] # <<>> /\ NewMiss(c, p.line) /\ UNCHANGED <<WQ, PROCESSED, loadLine, sent>>
      /\ \/ c = "LLC" /\ RQ' = r /\ MSHR' = m
         \/ c # "LLC" /\ add_rq(Lower[c], Sent(p), r, m)
  BY DEF ReadMiss, core
<1>2. /\ TablesInv /\ CoreTyped /\ MissesTyped(MSHR) /\ WritesTyped(WQ) /\ NextGood(MSHR, nextFill)
      /\ ReadsTyped(RQ) /\ PROCESSED = [d \in Level1 |-> PROCESSED[d]] /\ AnswersTyped
      /\ IsFiniteSet(MSHR["L1D"]) /\ Cardinality(Demands(MSHR["L1D"])) \in Nat
      /\ Len(PROCESSED["L1D"]) \in Nat /\ Len(RQ["L1D"]) \in Nat /\ Len(WQ["L1D"]) \in Nat
  BY HeldTyped
<1>3. /\ p \in Reads(c) /\ ReadsTyped(r) /\ Others(r, RQ, c)
  BY <1>1, <1>2, PoppedRead
<1>4. p \in Misses(c) /\ ~p.returned /\ p \in PacketSet
  BY <1>3, MissOfRead DEF Reads
<1>5. MissesTyped(m) /\ Others(m, MSHR, c) /\ m[c] = MSHR[c] \cup {p} /\ Adds(m[c], MSHR[c], p)
  BY <1>1, <1>2, <1>4, MissEnters DEF NewMiss
<1> HIDE DEF m, p, r
<1>7. SameHolds(MSHR', m) /\ \A d \in Level1 : RQ'[d] = r[d]
  <2>1. CASE c = "LLC"
    BY <1>1, <1>5, <2>1, EqualHolds, CacheNames
  <2>2. CASE c # "LLC"
    <3>1. Lower[c] \in Caches /\ Lower[c] \notin Level1
      BY <2>2, LowerOf, CacheNames, FirstLevels
    <3>2. r = [d \in Caches |-> r[d]]
      BY <1>3 DEF ReadsTyped
    <3>3. SameHolds(MSHR', m) /\ \A d \in Caches : d # Lower[c] => RQ'[d] = r[d]
      BY <1>1, <1>5, <2>2, <3>1, <3>2, ReadAddedHolds, CacheNames
    <3>4. QED
      BY <3>1, <3>3, FirstLevels
  <2>3. QED
    BY <2>1, <2>2
<1>8. \A d \in Level1 : d # c => RQ'[d] = RQ[d] /\ m[d] = MSHR[d]
  BY <1>3, <1>5, <1>7, FirstLevels DEF Others
<1>9. CASE c \notin Level1
  <2>1. \A d \in Level1 : RQ'[d] = RQ[d] /\ m[d] = MSHR[d]
    BY <1>8, <1>9
  <2>2. WQ'["L1D"] = WQ["L1D"] /\ Len(WQ'["L1D"]) <= Len(WQ["L1D"])
    BY <1>1, <1>2
  <2>3. QED
    BY <1>1, <1>2, <1>5, <1>7, <2>1, <2>2, StepsElsewhere
<1>10. CASE c \in Level1
  <2>1. /\ p \in PacketSet /\ p.type # "prefetch" /\ ReadTaken(c, p)
        /\ Len(RQ'[c]) = Len(RQ[c]) - 1 /\ Len(RQ[c]) \in Nat /\ Len(RQ[c]) # 0
    <3>1. RQ'[c] = r[c]
      BY <1>7, <1>10
    <3>2. QED
      BY <1>1, <1>2, <1>10, <3>1, ReadTakenFrom DEF p, r
  <2>2. MissGiven(c, p)
    <3>1. \A l, i : InMiss(MSHR', c, l, i) <=> InMiss(m, c, l, i)
      BY <1>7 DEF SameHolds
    <3>2. \A l, i : InMiss(m, c, l, i) <=> InMiss(MSHR, c, l, i) \/ (l = p.line /\ i \in p.deps)
      BY <1>4, <1>5 DEF InMiss, Adds, Holding
    <3>3. QED
      BY <3>1, <3>2 DEF MissGiven
  <2>3. \A d \in Level1 : Silent(d)
    BY <1>1 DEF Silent
  <2>4. ASSUME NEW d \in Level1 PROVE Moves(d)
    <3>1. CASE d = c
      BY <2>1, <2>2, <2>3, <3>1 DEF Moves
    <3>2. CASE d # c
      <4>1. MissesStay(d)
        BY <1>7, <1>8, <3>2, StaysWithin
      <4>2. QED
        BY <1>8, <2>3, <3>2, <4>1, MovesElsewhere
    <3>3. QED
      BY <3>1, <3>2
  <2>5. Cardinality(Demands(MSHR'["L1D"])) <= Cardinality(Demands(m["L1D"]))
        /\ Cardinality(Demands(MSHR'["L1D"])) \in Nat /\ Cardinality(Demands(m["L1D"])) \in Nat
    BY <1>5, <1>7, DemandsFinite DEF SameHolds, TablesInv
  <2>6. PROCESSED' = [d \in Level1 |-> PROCESSED'[d]]
    BY <1>1, <1>2
  <2>7. CASE c = "L1D"
    <3>1. Cardinality(Demands(m["L1D"])) <= Cardinality(Demands(MSHR["L1D"])) + 1
      BY <1>2, <1>5, <2>7, DemandEnters
    <3>2. /\ 1 \in Int /\ 0 \in Int /\ -1 \in Int /\ 0 + (-1) + 1 + 0 <= 0
          /\ Len(PROCESSED'["L1D"]) <= Len(PROCESSED["L1D"]) + 0
          /\ Len(RQ'["L1D"]) <= Len(RQ["L1D"]) + (-1)
          /\ Cardinality(Demands(MSHR'["L1D"])) <= Cardinality(Demands(MSHR["L1D"])) + 1
          /\ Len(WQ'["L1D"]) <= Len(WQ["L1D"]) + 0
      BY <1>1, <1>2, <2>1, <2>5, <2>7, <3>1
    <3>3. QED
      BY <1>1, <1>2, <2>4, <2>6, <3>2, StepMoves
  <2>8. CASE c # "L1D"
    <3>1. RQ'["L1D"] = RQ["L1D"] /\ m["L1D"] = MSHR["L1D"]
      BY <1>8, <2>8, FirstLevels
    <3>2. /\ 0 \in Int /\ 0 + 0 + 0 + 0 <= 0
          /\ Len(PROCESSED'["L1D"]) <= Len(PROCESSED["L1D"]) + 0
          /\ Len(RQ'["L1D"]) <= Len(RQ["L1D"]) + 0
          /\ Cardinality(Demands(MSHR'["L1D"])) <= Cardinality(Demands(MSHR["L1D"])) + 0
          /\ Len(WQ'["L1D"]) <= Len(WQ["L1D"]) + 0
      BY <1>1, <1>2, <2>5, <2>8, <3>1
    <3>3. QED
      BY <1>1, <1>2, <2>4, <2>6, <3>2, StepMoves
  <2>9. QED
    BY <2>7, <2>8
<1>11. QED
  BY <1>9, <1>10

(* A read that joins a miss: the miss holds its loads too.                 *)
LEMMA ReadMergeHolds ==
  ASSUME CacheInv, TablesInv', LoadInv, NEW c \in Caches, ReadMerge(c)
  PROVE  LoadInv'
<1> DEFINE p == Head(RQ[c])  e == check_mshr(c, p.line)  q == JoinedByRead(e, p)
<1>1. /\ RQ[c] # <<>> /\ InMshr(c, p.line) # {} /\ RQ' = Popped(RQ, c)
      /\ MSHR' = [MSHR EXCEPT ![c] = (@ \ {e}) \cup {q}]
      /\ UNCHANGED <<WQ, PROCESSED, loadLine, sent>>
  BY DEF ReadMerge, core
<1>2. /\ TablesInv /\ CoreTyped /\ MissesTyped(MSHR) /\ WritesTyped(WQ) /\ NextGood(MSHR, nextFill)
      /\ ReadsTyped(RQ) /\ PROCESSED = [d \in Level1 |-> PROCESSED[d]] /\ AnswersTyped
      /\ IsFiniteSet(MSHR["L1D"]) /\ Cardinality(Demands(MSHR["L1D"])) \in Nat
      /\ Len(PROCESSED["L1D"]) \in Nat /\ Len(RQ["L1D"]) \in Nat /\ Len(WQ["L1D"]) \in Nat
  BY HeldTyped
<1>3. e \in MSHR[c] /\ e.line = p.line /\ e \in Misses(c)
  BY <1>1, <1>2, ChosenMiss
<1> HIDE DEF p, e
<1>4. p \in Reads(c)
  BY <1>1, <1>2, PoppedRead DEF p
<1>5. q \in Misses(c) /\ q.line = e.line /\ q.returned = e.returned /\ q.deps = e.deps \cup p.deps
  BY <1>3, <1>4, JoinedByReadPacket DEF Joins
<1> HIDE DEF q
<1>6. /\ MSHR'[c] = (MSHR[c] \ {e}) \cup {q}
      /\ \A d \in Level1 : d # c => MissesStay(d)
      /\ \A k, i : InMiss(MSHR', c, k, i) <=>
                  IF k = e.line THEN i \in q.deps ELSE InMiss(MSHR, c, k, i)
      /\ \A i : InMiss(MSHR, c, e.line, i) <=> i \in e.deps
  BY <1>1, <1>2, <1>3, <1>5, MergedMiss
<1>7. \A d \in Level1 : d # c => RQ'[d] = RQ[d]
  BY <1>1, <1>2, ReadsLeft
<1>8. \A d \in Caches : d # c => MSHR'[d] = MSHR[d]
  BY <1>1, <1>2 DEF MissesTyped
<1>9. \A d \in Level1 : Silent(d)
  BY <1>1 DEF Silent
<1>10. \A d \in Level1 : d # c => Moves(d)
  BY <1>6, <1>7, <1>9, MovesElsewhere
<1>11. PROCESSED' = [d \in Level1 |-> PROCESSED'[d]]
  BY <1>1, <1>2
<1>12. CASE c # "L1D"
  <2>1. ASSUME c \in Level1 PROVE Moves(c)
    <3>1. ReadTaken(c, p) /\ p \in PacketSet
      <4>1. RQ'[c] = Popped(RQ, c)[c]
        BY <1>1
      <4>2. QED
        BY <1>1, <1>2, <2>1, <4>1, ReadTakenFrom DEF p
    <3>2. MissGiven(c, p)
      BY <1>3, <1>5, <1>6 DEF MissGiven
    <3>3. QED
      BY <1>9, <2>1, <3>1, <3>2 DEF Moves
  <2>2. \A d \in Level1 : Moves(d)
    BY <1>10, <2>1
  <2>3. RQ'["L1D"] = RQ["L1D"] /\ MSHR'["L1D"] = MSHR["L1D"]
    BY <1>7, <1>8, <1>12, FirstLevels
  <2>4. /\ 0 \in Int /\ 0 + 0 + 0 + 0 <= 0
        /\ Len(PROCESSED'["L1D"]) <= Len(PROCESSED["L1D"]) + 0
        /\ Len(RQ'["L1D"]) <= Len(RQ["L1D"]) + 0
        /\ Cardinality(Demands(MSHR'["L1D"])) <= Cardinality(Demands(MSHR["L1D"])) + 0
        /\ Len(WQ'["L1D"]) <= Len(WQ["L1D"]) + 0
    BY <1>1, <1>2, <2>3
  <2>5. QED
    BY <1>1, <1>2, <1>11, <2>2, <2>4, StepMoves
<1>13. CASE c = "L1D"
  <2>1. /\ ReadTaken(c, p) /\ p \in PacketSet /\ c \in Level1
        /\ Len(RQ'[c]) = Len(RQ[c]) - 1 /\ Len(RQ[c]) \in Nat /\ Len(RQ[c]) # 0
    <3>1. RQ'[c] = Popped(RQ, c)[c] /\ c \in Level1
      BY <1>1, <1>13, FirstLevels
    <3>2. QED
      BY <1>1, <1>2, <3>1, ReadTakenFrom DEF p
  <2>2. MissGiven(c, p)
    BY <1>3, <1>5, <1>6 DEF MissGiven
  <2>3. Moves(c)
    BY <1>9, <2>1, <2>2 DEF Moves
  <2>4. \A d \in Level1 : Moves(d)
    BY <1>10, <2>3
  <2>5. Cardinality(Demands(MSHR'["L1D"])) <= Cardinality(Demands(MSHR["L1D"])) + 1
    BY <1>2, <1>3, <1>6, <1>13, DemandJoins
  <2>6. /\ 1 \in Int /\ 0 \in Int /\ -1 \in Int /\ 0 + (-1) + 1 + 0 <= 0
        /\ Len(PROCESSED'["L1D"]) <= Len(PROCESSED["L1D"]) + 0
        /\ Len(RQ'["L1D"]) <= Len(RQ["L1D"]) + (-1)
        /\ Cardinality(Demands(MSHR'["L1D"])) <= Cardinality(Demands(MSHR["L1D"])) + 1
        /\ Len(WQ'["L1D"]) <= Len(WQ["L1D"]) + 0
    BY <1>1, <1>2, <1>13, <2>1, <2>5
  <2>7. QED
    BY <1>1, <1>2, <1>11, <2>4, <2>6, StepMoves
<1>14. QED
  BY <1>12, <1>13

(* What holds the same as what holds the same.                             *)
LEMMA SameHoldsTwice ==
  ASSUME NEW m, NEW m1, NEW m2, MissesTyped(m), MissesTyped(m1), MissesTyped(m2),
         SameHolds(m2, m1), SameHolds(m1, m)
  PROVE  SameHolds(m2, m)
<1> DEFINE x == Cardinality(Demands(m["L1D"]))  y == Cardinality(Demands(m1["L1D"]))
           z == Cardinality(Demands(m2["L1D"]))
<1>1. x \in Nat /\ y \in Nat /\ z \in Nat /\ z <= y /\ y <= x
  BY DemandsFinite DEF SameHolds
<1> HIDE DEF x, y, z
<1>2. z <= x
  BY <1>1
<1>3. QED
  BY <1>2 DEF SameHolds, x, z

(* A prefetch holds no load and is no demand.                              *)
LEMMA PrefetchEnters ==
  ASSUME MissesTyped(MSHR), NextGood(MSHR, nextFill), NEW c \in Caches, NEW p \in Misses(c),
         ~p.returned, p.type = "prefetch", InMshr(c, p.line) = {}, Cardinality(MSHR[c]) < MshrSize[c],
         NEW m, m = [MSHR EXCEPT ![c] = @ \cup {p}]
  PROVE  MissesTyped(m) /\ SameHolds(m, MSHR)
<1>1. MissesTyped(m) /\ Others(m, MSHR, c) /\ m[c] = MSHR[c] \cup {p} /\ Adds(m[c], MSHR[c], p)
  BY MissEnters
<1>2. p.deps = {} /\ p \notin Demands({p}) /\ \A i : p \notin Holding(i)
  BY DEF Misses, Fits, Demands, Holding
<1>3. ASSUME NEW d \in Caches, NEW l, NEW i
      PROVE  InMiss(m, d, l, i) <=> InMiss(MSHR, d, l, i)
  <2>1. CASE d = c
    BY <1>1, <1>2, <2>1 DEF InMiss, Adds
  <2>2. CASE d # c
    BY <1>1, <2>2 DEF InMiss, Others
  <2>3. QED
    BY <2>1, <2>2
<1>4. Cardinality(Demands(m["L1D"])) <= Cardinality(Demands(MSHR["L1D"]))
  <2>1. Cardinality(Demands(MSHR["L1D"])) \in Nat /\ IsFiniteSet(MSHR["L1D"])
    BY DemandsFinite
  <2>2. CASE c = "L1D"
    <3>1. Cardinality(Demands(MSHR["L1D"] \cup {p})) = Cardinality(Demands(MSHR["L1D"]))
      BY <2>1, DemandEnters
    <3>2. QED
      BY <1>1, <2>1, <2>2, <3>1
  <2>3. CASE c # "L1D"
    <3>1. m["L1D"] = MSHR["L1D"]
      BY <1>1, <2>3, FirstLevels DEF Others
    <3>2. QED
      BY <2>1, <3>1
  <2>4. QED
    BY <2>2, <2>3
<1>5. QED
  BY <1>1, <1>3, <1>4 DEF SameHolds

(* A step that leaves reads alone and moves no load of a miss.             *)
LEMMA StepsSilently ==
  ASSUME CacheInv, TablesInv', LoadInv, SameHolds(MSHR', MSHR),
         UNCHANGED <<RQ, WQ, PROCESSED, loadLine, sent>>
  PROVE  LoadInv'
<1>1. /\ TablesInv /\ CoreTyped /\ MissesTyped(MSHR) /\ Len(WQ["L1D"]) \in Nat
  BY HeldTyped
<1>2. Len(WQ'["L1D"]) <= Len(WQ["L1D"]) /\ \A c \in Level1 : RQ'[c] = RQ[c] /\ MSHR[c] = MSHR[c]
  BY <1>1
<1>3. QED
  BY <1>1, <1>2, StepsElsewhere

(* A prefetch that hits moves no load.                                     *)
LEMMA PrefetchHitHolds ==
  ASSUME CacheInv, TablesInv', LoadInv, NEW c \in Caches, PrefetchHit(c)
  PROVE  LoadInv'
<1>1. MissesTyped(MSHR)
  BY HeldTyped
<1>2. /\ UNCHANGED <<RQ, WQ, PROCESSED, loadLine, sent>>
      /\ \E us, l : return_data(us, l, MSHR, nextFill)
  BY DEF PrefetchHit, core
<1>3. SameHolds(MSHR', MSHR)
  BY <1>1, <1>2, ReturnedHolds
<1>4. QED
  BY <1>2, <1>3, StepsSilently

(* A prefetch that misses enters the MSHR without loads and is no demand.  *)
LEMMA PrefetchMissHolds ==
  ASSUME CacheInv, TablesInv', LoadInv, NEW c \in Caches, PrefetchMiss(c)
  PROVE  LoadInv'
<1> DEFINE p == Head(PQ[c])
           m == IF p.fill_level <= FillLevel[c] THEN [MSHR EXCEPT ![c] = @ \cup {p}] ELSE MSHR
<1>1. /\ PQ[c] # <<>> /\ NewMiss(c, p.line) /\ UNCHANGED <<RQ, WQ, PROCESSED, loadLine, sent>>
      /\ (MSHR' = m) \/ \E d, x, q : add_pq(d, x, q, m)
  BY DEF PrefetchMiss, core
<1>2. MissesTyped(MSHR) /\ NextGood(MSHR, nextFill) /\ PrefsTyped(PQ)
  BY HeldTyped
<1>3. p \in Prefs(c)
  BY <1>1, <1>2, PoppedPrefetch
<1> HIDE DEF p
<1>4. MissesTyped(m) /\ SameHolds(m, MSHR)
  <2>1. CASE p.fill_level <= FillLevel[c]
    <3>1. p \in Misses(c) /\ ~p.returned /\ p.type = "prefetch"
      BY <1>3, <2>1, MissOfPrefetch DEF Prefs
    <3>2. QED
      BY <1>1, <1>2, <2>1, <3>1, PrefetchEnters DEF NewMiss
  <2>2. CASE ~(p.fill_level <= FillLevel[c])
    BY <1>2, <2>2, EqualHolds
  <2>3. QED
    BY <2>1, <2>2
<1> HIDE DEF m
<1>5. SameHolds(MSHR', m)
  BY <1>1, <1>4, EqualHolds, PrefetchAddedHolds
<1>6. SameHolds(MSHR', MSHR)
  BY <1>2, <1>4, <1>5, SameHoldsTwice DEF TablesInv
<1>7. QED
  BY <1>1, <1>6, StepsSilently

(* A prefetch that meets a miss leaves its loads and its type alone.       *)
LEMMA PrefetchMergeHolds ==
  ASSUME CacheInv, TablesInv', LoadInv, NEW c \in Caches, PrefetchMerge(c)
  PROVE  LoadInv'
<1> DEFINE p == Head(PQ[c])  e == check_mshr(c, p.line)
           q == [e EXCEPT !.fill_level = IF p.fill_level < @ THEN p.fill_level ELSE @,
                          !.fill_l1i = @ \/ p.fill_l1i, !.fill_l1d = @ \/ p.fill_l1d]
<1>1. /\ PQ[c] # <<>> /\ InMshr(c, p.line) # {}
      /\ MSHR' = [MSHR EXCEPT ![c] = (@ \ {e}) \cup {q}]
      /\ UNCHANGED <<RQ, WQ, PROCESSED, loadLine, sent>>
  BY DEF PrefetchMerge, core
<1>2. /\ MissesTyped(MSHR) /\ NextGood(MSHR, nextFill) /\ PrefsTyped(PQ)
      /\ IsFiniteSet(MSHR["L1D"]) /\ Cardinality(Demands(MSHR["L1D"])) \in Nat
  BY HeldTyped
<1>3. e \in MSHR[c] /\ e.line = p.line /\ e \in Misses(c) /\ e \in PacketSet
  BY <1>1, <1>2, ChosenMiss
<1> HIDE DEF p, e
<1>4. p \in Prefs(c)
  BY <1>1, <1>2, PoppedPrefetch DEF p
<1>5. Joins(c, e, p, q)
  BY <1>3, <1>4, JoinedByPrefetchPacket
<1>6. q.type = e.type /\ q.deps = e.deps
  BY <1>3 DEF PacketSet
<1>7. q \in Misses(c) /\ q.line = e.line /\ q.returned = e.returned
  BY <1>5 DEF Joins
<1> HIDE DEF q
<1>8. /\ MSHR'[c] = (MSHR[c] \ {e}) \cup {q}
      /\ \A k, i : InMiss(MSHR', c, k, i) <=>
                  IF k = e.line THEN i \in q.deps ELSE InMiss(MSHR, c, k, i)
      /\ \A i : InMiss(MSHR, c, e.line, i) <=> i \in e.deps
  <2>1. MissesTyped(MSHR) /\ NextGood(MSHR, nextFill) /\ e \in MSHR[c]
        /\ MSHR' = [MSHR EXCEPT ![c] = (@ \ {e}) \cup {q}]
    BY <1>1, <1>2, <1>3
  <2>2. QED
    BY <1>7, <2>1, MergedMiss
<1>9. \A d \in Caches : d # c => MSHR'[d] = MSHR[d]
  BY <1>1, <1>2 DEF MissesTyped
<1>10. ASSUME NEW d \in Caches, NEW l, NEW i
       PROVE  InMiss(MSHR', d, l, i) <=> InMiss(MSHR, d, l, i)
  <2>1. CASE d = c
    BY <1>6, <1>8, <2>1
  <2>2. CASE d # c
    BY <1>9, <2>2 DEF InMiss
  <2>3. QED
    BY <2>1, <2>2
<1>11. Cardinality(Demands(MSHR'["L1D"])) <= Cardinality(Demands(MSHR["L1D"]))
  <2>1. CASE c = "L1D"
    BY <1>2, <1>3, <1>6, <1>8, <2>1, DemandJoins
  <2>2. CASE c # "L1D"
    <3>1. MSHR'["L1D"] = MSHR["L1D"]
      BY <1>9, <2>2, FirstLevels
    <3>2. QED
      BY <1>2, <3>1
  <2>3. QED
    BY <2>1, <2>2
<1>12. SameHolds(MSHR', MSHR)
  BY <1>10, <1>11 DEF SameHolds
<1>13. QED
  BY <1>1, <1>12, StepsSilently

(* The manager answers the LLC alone.                                      *)
LEMMA ManagerHolds ==
  ASSUME CacheInv, TablesInv', LoadInv, ManagerStep
  PROVE  LoadInv'
<1>1. MissesTyped(MSHR)
  BY HeldTyped
<1>2. /\ UNCHANGED <<RQ, WQ, PROCESSED, loadLine, sent>>
      /\ (MSHR' = MSHR) \/ \E us, l : return_data(us, l, MSHR, nextFill)
  BY DEF ManagerStep, core
<1>3. SameHolds(MSHR', MSHR)
  BY <1>1, <1>2, EqualHolds, ReturnedHolds
<1>4. QED
  BY <1>2, <1>3, StepsSilently

(* Moves keep every load in its place while the core only counts.          *)
LEMMA HoldMoved ==
  ASSUME AnswersTyped, HoldInv, CoreTyped, \A c \in Level1 : Moves(c),
         PROCESSED' = [c \in Level1 |-> PROCESSED'[c]], loadLine' = loadLine, sent'.loads = sent.loads
  PROVE  AnswersTyped' /\ HoldInv'
<1>1. /\ PROCESSED'["L1D"] \in Seq(Answers) /\ ToldOnce(PROCESSED'["L1D"])
      /\ \A i \in Loads : LoadHeld(RQ', MSHR', PROCESSED'["L1D"], loadLine', i)
  BY LoadMoves DEF Level1
<1>2. /\ PROCESSED'["L1I"] \in Seq(Answers)
      /\ \A i \in Loads : NoFetchHeld(RQ', MSHR', PROCESSED'["L1I"], i)
  BY FetchMoves DEF Level1
<1>3. AnswersTyped'
  BY <1>1, <1>2 DEF AnswersTyped, Level1
<1>4. HoldInv'
  BY <1>1, <1>2 DEF HoldInv
<1>5. QED
  BY <1>3, <1>4

(* Arithmetic of the sizes, with what the core sent.                       *)
LEMMA SumsCompared ==
  ASSUME NEW a \in Nat, NEW r \in Nat, NEW m \in Nat, NEW w \in Nat,
         NEW a2 \in Nat, NEW r2 \in Nat, NEW m2 \in Nat, NEW w2 \in Nat,
         NEW da \in Int, NEW dr \in Int, NEW dm \in Int, NEW dw \in Int, NEW k \in Int,
         da + dr + dm + dw <= k,
         a2 <= a + da, r2 <= r + dr, m2 <= m + dm, w2 <= w + dw,
         NEW x \in Nat, NEW y \in Nat, NEW x2 \in Nat, NEW y2 \in Nat,
         a + r + m + w <= x + y, x2 + y2 = x + y + k
  PROVE  a2 + r2 + m2 + w2 <= x2 + y2
OBVIOUS

(* As many demands more as the core has sent more.                         *)
LEMMA DemandGrows ==
  ASSUME TablesInv, TablesInv', AnswersTyped, AnswersTyped', DemandInv, CoreTyped, CoreTyped',
         NEW k \in Int, sent'.loads + sent'.stores = sent.loads + sent.stores + k,
         sent'.loads <= MaxLoads, sent'.stores <= MaxStores,
         NEW da \in Int, NEW dr \in Int, NEW dm \in Int, NEW dw \in Int, da + dr + dm + dw <= k,
         Len(PROCESSED'["L1D"]) <= Len(PROCESSED["L1D"]) + da,
         Len(RQ'["L1D"]) <= Len(RQ["L1D"]) + dr,
         Cardinality(Demands(MSHR'["L1D"])) <= Cardinality(Demands(MSHR["L1D"])) + dm,
         Len(WQ'["L1D"]) <= Len(WQ["L1D"]) + dw
  PROVE  DemandInv'
<1> DEFINE a == Len(PROCESSED["L1D"])  r == Len(RQ["L1D"])
           m == Cardinality(Demands(MSHR["L1D"]))  w == Len(WQ["L1D"])
           a2 == Len(PROCESSED'["L1D"])  r2 == Len(RQ'["L1D"])
           m2 == Cardinality(Demands(MSHR'["L1D"]))  w2 == Len(WQ'["L1D"])
           x == sent.loads  y == sent.stores  x2 == sent'.loads  y2 == sent'.stores
<1>1. a \in Nat /\ r \in Nat /\ m \in Nat /\ w \in Nat
  BY Sizes
<1>2. a2 \in Nat /\ r2 \in Nat /\ m2 \in Nat /\ w2 \in Nat
  <2>1. PROCESSED'["L1D"] \in Seq(Answers) /\ RQ'["L1D"] \in Seq(Reads("L1D"))
        /\ WQ'["L1D"] \in Seq(WritesOf("L1D")) /\ MissesTyped(MSHR')
    BY FirstLevels DEF AnswersTyped, TablesInv, ReadsTyped, WritesTyped
  <2>2. QED
    BY <2>1, DemandsFinite, LenProperties
<1>3. x \in Nat /\ y \in Nat /\ x2 \in Nat /\ y2 \in Nat
  BY DEF CoreTyped
<1>4. a2 <= a + da /\ r2 <= r + dr /\ m2 <= m + dm /\ w2 <= w + dw
  OBVIOUS
<1>5. a + r + m + w <= x + y /\ x2 + y2 = x + y + k
  BY DEF DemandInv, Outstanding
<1>6. (a2 + r2 + m2 + w2 <= x2 + y2) => DemandInv'
  BY DEF DemandInv, Outstanding
<1> HIDE DEF a, r, m, w, a2, r2, m2, w2, x, y, x2, y2
<1>7. a2 + r2 + m2 + w2 <= x2 + y2
  BY <1>1, <1>2, <1>3, <1>4, <1>5, SumsCompared
<1>8. QED
  BY <1>6, <1>7

(* A queue that is given a packet gets one longer at most.                 *)
LEMMA AddedLength ==
  ASSUME NEW c \in Caches, NEW t \in Seq(Reads(c)), Distinct(t), NEW p \in Reads(c),
         NEW r, r = Added(t, p, RqSize[c], MergedRead(Older(t, p), p))
  PROVE  Len(r) <= Len(t) + 1 /\ Len(t) \in Nat
<1>1. Len(t) \in Nat /\ Len(t) <= Len(t) + 1
  BY LenProperties
<1>2. CASE Queued(t, p) # {}
  <2>1. Older(t, p) \in Reads(c) /\ Older(t, p).line = p.line
    BY <1>2, OlderQueued
  <2>2. MergedRead(Older(t, p), p) \in Reads(c) /\ MergedRead(Older(t, p), p).line = p.line
    BY <2>1, MergedReadPacket
  <2>3. Len(r) = Len(t)
    BY <1>2, <2>2, QueueMerged
  <2>4. QED
    BY <1>1, <2>3
<1>3. CASE Queued(t, p) = {} /\ Len(t) = RqSize[c]
  BY <1>1, <1>3 DEF Added
<1>4. CASE Queued(t, p) = {} /\ Len(t) # RqSize[c]
  <2>1. r = Append(t, p)
    BY <1>4 DEF Added
  <2>2. Len(r) = Len(t) + 1
    BY <2>1, AppendProperties
  <2>3. QED
    BY <1>1, <2>2
<1>5. QED
  BY <1>2, <1>3, <1>4

(* A read of the core is forwarded, or held by the read queue.             *)
LEMMA FreshHolds ==
  ASSUME CacheInv, LoadInv, NEW c \in Level1, NEW p \in Reads(c), add_rq(c, p, RQ, MSHR),
         QueuedWrites(c, p) = {} => HasRoom(c, p)
  PROVE  /\ SameHolds(MSHR', MSHR) /\ \A d \in Level1 : d # c => RQ'[d] = RQ[d]
         /\ QueuedWrites(c, p) # {} => RQ' = RQ
         /\ QueuedWrites(c, p) = {} => \A l, i : InRead(RQ', c, l, i) <=>
                                          InRead(RQ, c, l, i) \/ (l = p.line /\ i \in p.deps)
         /\ Len(RQ'[c]) <= Len(RQ[c]) + 1
<1>1. /\ ReadsTyped(RQ) /\ MissesTyped(MSHR) /\ c \in Caches /\ RQ = [d \in Caches |-> RQ[d]]
  BY HeldTyped, FirstLevels DEF ReadsTyped
<1>2. SameHolds(MSHR', MSHR) /\ \A d \in Level1 : d # c => RQ'[d] = RQ[d]
  BY <1>1, ReadAddedHolds, FirstLevels
<1> DEFINE t == RQ[c]
<1>3. t \in Seq(Reads(c)) /\ Distinct(t) /\ Len(t) <= RqSize[c] /\ RqSize[c] \in Nat /\ Len(t) \in Nat
  BY <1>1, CacheAssumption, LenProperties DEF ReadsTyped
<1>4. CASE QueuedWrites(c, p) # {}
  <2>1. RQ' = RQ
    BY <1>4 DEF add_rq
  <2>2. Len(RQ'[c]) <= Len(RQ[c]) + 1
    BY <1>3, <2>1
  <2>3. QED
    BY <1>2, <1>4, <2>1, <2>2
<1>5. CASE QueuedWrites(c, p) = {}
  <2> DEFINE r == Added(t, p, RqSize[c], MergedRead(Older(t, p), p))
  <2>1. RQ'[c] = r
    BY <1>1, <1>5 DEF add_rq
  <2> HIDE DEF t
  <2>2. /\ Refused(r, t, p, RqSize[c]) \/ Holds(Range(r), Range(t), p)
        /\ Len(r) <= Len(t) + 1
    BY <1>1, <1>3, ReadAdded, AddedLength
  <2>3. ~Refused(r, t, p, RqSize[c])
    BY <1>3, <1>5 DEF HasRoom, Refused, t
  <2> HIDE DEF r
  <2>4. \A l, i : InRead(RQ', c, l, i) <=> InRead(RQ, c, l, i) \/ (l = p.line /\ i \in p.deps)
    <3>1. p \in PacketSet
      BY DEF Reads
    <3>2. QED
      BY <2>1, <2>2, <2>3, <3>1 DEF InRead, Holds, Holding, t
  <2>5. QED
    BY <1>2, <1>5, <2>1, <2>2, <2>4 DEF t
<1>6. QED
  BY <1>4, <1>5

(* What the core sends that is no load.                                    *)
LEMMA CoreCounts ==
  ASSUME CacheInv, CacheInv', LoadInv, SameHolds(MSHR', MSHR), \A c \in Level1 : ReadsStay(c),
         Len(RQ'["L1D"]) <= Len(RQ["L1D"]), UNCHANGED <<PROCESSED, loadLine>>,
         NEW k \in Nat, sent'.loads = sent.loads, sent'.stores = sent.stores + k,
         sent'.stores <= MaxStores, Len(WQ'["L1D"]) <= Len(WQ["L1D"]) + k
  PROVE  LoadInv'
<1>1. /\ TablesInv /\ CoreTyped /\ AnswersTyped /\ HoldInv /\ DemandInv /\ TablesInv' /\ CoreTyped'
      /\ Len(PROCESSED["L1D"]) \in Nat /\ Len(RQ["L1D"]) \in Nat /\ Len(WQ["L1D"]) \in Nat
      /\ Cardinality(Demands(MSHR["L1D"])) \in Nat /\ PROCESSED = [c \in Level1 |-> PROCESSED[c]]
  BY HeldTyped DEF LoadInv, CacheInv
<1>2. \A c \in Level1 : MissesStay(c) /\ Silent(c)
  BY StaysWithin DEF Silent
<1>3. \A c \in Level1 : Moves(c)
  BY <1>2 DEF Moves
<1>4. AnswersTyped' /\ HoldInv'
  BY <1>1, <1>3, HoldMoved
<1>5. Cardinality(Demands(MSHR'["L1D"])) <= Cardinality(Demands(MSHR["L1D"]))
      /\ Cardinality(Demands(MSHR'["L1D"])) \in Nat
  BY <1>1, DemandsFinite DEF SameHolds, TablesInv
<1>6. Len(RQ'["L1D"]) \in Nat
  BY <1>1, FirstLevels, LenProperties DEF TablesInv, ReadsTyped
<1>7. /\ 0 \in Int /\ k \in Int /\ 0 + 0 + 0 + k <= k
      /\ Len(PROCESSED'["L1D"]) <= Len(PROCESSED["L1D"]) + 0
      /\ Len(RQ'["L1D"]) <= Len(RQ["L1D"]) + 0
      /\ Cardinality(Demands(MSHR'["L1D"])) <= Cardinality(Demands(MSHR["L1D"])) + 0
  BY <1>1, <1>5, <1>6
<1>8. sent'.loads + sent'.stores = sent.loads + sent.stores + k /\ sent'.loads <= MaxLoads
  BY <1>1 DEF CoreTyped, DemandInv
<1>9. DemandInv'
  BY <1>1, <1>4, <1>7, <1>8, DemandGrows
<1>10. QED
  BY <1>4, <1>9 DEF LoadInv

(* A fetch goes to the L1I and carries no load.                            *)
LEMMA FetchHolds ==
  ASSUME CacheInv, CacheInv', LoadInv, NEW l \in CodeLines, Fetch(l)
  PROVE  LoadInv'
<1> DEFINE p == Packet(l, 0, "load", 1, TRUE, {})
<1>1. /\ add_rq("L1I", p, RQ, MSHR) /\ HasRoom("L1I", p) /\ Count("fetches")
      /\ UNCHANGED <<PROCESSED, loadLine, WQ>>
  BY DEF Fetch
<1>2. p \in Reads("L1I")
  <2>1. l \in Lines /\ 0 \in Words \cup {0} /\ TRUE \in BOOLEAN /\ {} \in SUBSET Loads
    BY DEF Lines
  <2> DEFINE yes == TRUE
  <2>2. yes \in BOOLEAN /\ yes
    OBVIOUS
  <2> HIDE DEF yes
  <2>3. Packet(l, 0, "load", 1, yes, {}) \in Reads(IF yes THEN "L1I" ELSE "L1D")
    BY <2>1, <2>2, CorePackets
  <2>4. QED
    BY <2>3 DEF yes
<1>3. p.deps = {}
  BY DEF Packet
<1> HIDE DEF p
<1>4. /\ CoreTyped /\ Len(RQ["L1D"]) \in Nat /\ Len(WQ["L1D"]) \in Nat /\ DemandInv
  BY HeldTyped DEF LoadInv
<1>5. SameHolds(MSHR', MSHR) /\ RQ'["L1D"] = RQ["L1D"] /\ ReadsStay("L1I")
  <2>1. "L1I" \in Level1 /\ "L1D" \in Level1
    BY FirstLevels
  <2>2. /\ SameHolds(MSHR', MSHR) /\ RQ'["L1D"] = RQ["L1D"]
        /\ (QueuedWrites("L1I", p) # {} => RQ' = RQ)
        /\ (QueuedWrites("L1I", p) = {} => \A k, i : InRead(RQ', "L1I", k, i) <=>
                                          InRead(RQ, "L1I", k, i) \/ (k = p.line /\ i \in p.deps))
    BY <1>1, <1>2, <2>1, FreshHolds
  <2>3. ReadsStay("L1I")
    BY <1>3, <2>2 DEF ReadsStay, InRead
  <2>4. QED
    BY <2>2, <2>3
<1>6. \A c \in Level1 : ReadsStay(c)
  BY <1>5, FirstLevels DEF ReadsStay, InRead
<1>7. sent'.loads = sent.loads /\ sent'.stores = sent.stores + 0 /\ sent'.stores <= MaxStores
  BY <1>1, <1>4 DEF CoreTyped, Count, DemandInv
<1>8. 0 \in Nat /\ Len(RQ'["L1D"]) <= Len(RQ["L1D"]) /\ Len(WQ'["L1D"]) <= Len(WQ["L1D"]) + 0
  BY <1>1, <1>4, <1>5
<1>9. QED
  BY <1>1, <1>5, <1>6, <1>7, <1>8, CoreCounts

(* A store adds one write at most, and the core has sent one more.         *)
LEMMA StoreHolds ==
  ASSUME CacheInv, CacheInv', LoadInv, NEW l \in DataLines, NEW w \in Words, Store(l, w)
  PROVE  LoadInv'
<1>1. /\ add_wq("L1D", WritePacket(l, w), WQ) /\ Count("stores") /\ sent.stores < MaxStores
      /\ UNCHANGED <<PROCESSED, loadLine, RQ, MSHR>>
  BY DEF Store
<1>2. /\ CoreTyped /\ Len(RQ["L1D"]) \in Nat /\ Len(WQ["L1D"]) \in Nat /\ WritesTyped(WQ)
      /\ MissesTyped(MSHR)
  BY HeldTyped
<1>3. SameHolds(MSHR', MSHR)
  BY <1>1, <1>2, EqualHolds
<1>4. \A c \in Level1 : ReadsStay(c)
  BY <1>1 DEF ReadsStay, InRead
<1>5. sent'.loads = sent.loads /\ sent'.stores = sent.stores + 1 /\ sent'.stores <= MaxStores
  BY <1>1, <1>2, CacheAssumption DEF CoreTyped, Count
<1>6. Len(WQ'["L1D"]) <= Len(WQ["L1D"]) + 1
  <2>1. WQ = [d \in Caches |-> WQ[d]] /\ WQ["L1D"] \in Seq(WritesOf("L1D")) /\ "L1D" \in Caches
    BY <1>2, FirstLevels DEF WritesTyped
  <2>2. CASE WQ' = WQ
    BY <1>2, <2>2
  <2>3. CASE WQ' = [WQ EXCEPT !["L1D"] = Append(@, WritePacket(l, w))]
    <3>1. WQ'["L1D"] = Append(WQ["L1D"], WritePacket(l, w))
      BY <2>1, <2>3
    <3>2. Len(Append(WQ["L1D"], WritePacket(l, w))) = Len(WQ["L1D"]) + 1
      BY <2>1
    <3>3. QED
      BY <1>2, <3>1, <3>2
  <2>4. QED
    BY <1>1, <2>2, <2>3 DEF add_wq
<1>7. 1 \in Nat /\ Len(RQ'["L1D"]) <= Len(RQ["L1D"])
  BY <1>1, <1>2
<1>8. QED
  BY <1>1, <1>3, <1>4, <1>5, <1>6, <1>7, CoreCounts

(* A hint enters a prefetch queue and carries no load.                     *)
LEMMA PrefetchHolds ==
  ASSUME CacheInv, CacheInv', LoadInv, NEW c, NEW l, NEW lvl, Prefetch(c, l, lvl)
  PROVE  LoadInv'
<1>1. /\ \E x : add_pq(c, x, PQ, MSHR)
      /\ Count("prefetches") /\ UNCHANGED <<PROCESSED, loadLine, RQ, WQ>>
  BY DEF Prefetch
<1>2. /\ CoreTyped /\ Len(RQ["L1D"]) \in Nat /\ Len(WQ["L1D"]) \in Nat /\ DemandInv
      /\ MissesTyped(MSHR)
  BY HeldTyped DEF LoadInv
<1>3. SameHolds(MSHR', MSHR)
  BY <1>1, <1>2, PrefetchAddedHolds
<1>4. \A d \in Level1 : ReadsStay(d)
  BY <1>1 DEF ReadsStay, InRead
<1>5. sent'.loads = sent.loads /\ sent'.stores = sent.stores + 0 /\ sent'.stores <= MaxStores
  BY <1>1, <1>2 DEF CoreTyped, Count, DemandInv
<1>6. 0 \in Nat /\ Len(RQ'["L1D"]) <= Len(RQ["L1D"]) /\ Len(WQ'["L1D"]) <= Len(WQ["L1D"]) + 0
  BY <1>1, <1>2
<1>7. QED
  BY <1>1, <1>3, <1>4, <1>5, <1>6, CoreCounts

(* Only lines are read and missed.                                         *)
LEMMA HeldLines ==
  ASSUME ReadsTyped(RQ), MissesTyped(MSHR)
  PROVE  \A l, i : InRead(RQ, "L1D", l, i) \/ InMiss(MSHR, "L1D", l, i) => l # 0
<1>1. ASSUME NEW l, NEW i, InRead(RQ, "L1D", l, i) PROVE l # 0
  <2>1. PICK p \in Range(RQ["L1D"]) : p.line = l
    BY <1>1 DEF InRead, In
  <2>2. RQ["L1D"] \in Seq(Reads("L1D"))
    BY FirstLevels DEF ReadsTyped
  <2>3. p \in Reads("L1D")
    BY <2>1, <2>2 DEF Range
  <2>4. QED
    BY <2>1, <2>3, LinesNotZero DEF Reads, PacketSet
<1>2. ASSUME NEW l, NEW i, InMiss(MSHR, "L1D", l, i) PROVE l # 0
  <2>1. PICK p \in MSHR["L1D"] : p.line = l
    BY <1>2 DEF InMiss, In
  <2>2. p \in Misses("L1D")
    BY <2>1, FirstLevels DEF MissesTyped
  <2>3. QED
    BY <2>1, <2>2, LinesNotZero DEF Misses, PacketSet
<1>3. QED
  BY <1>1, <1>2

(* The packet of a load.                                                   *)
LEMMA LoadPacket ==
  ASSUME CoreTyped, NEW l \in DataLines, NEW w \in Words, Load(l, w), NEW i, i = sent.loads + 1,
         NEW p, p = Packet(l, w, "load", 1, FALSE, {i})
  PROVE  /\ i \in Loads /\ p \in Reads("L1D") /\ p \in PacketSet /\ p.line = l /\ p.deps = {i}
         /\ p.type # "prefetch" /\ add_rq("L1D", p, RQ, MSHR) /\ UNCHANGED WQ
         /\ (QueuedWrites("L1D", p) # {} => ToCore("L1D", p))
         /\ (QueuedWrites("L1D", p) = {} => HasRoom("L1D", p) /\ UNCHANGED PROCESSED)
         /\ loadLine' = [loadLine EXCEPT ![i] = l] /\ Count("loads")
<1>1. /\ add_rq("L1D", p, RQ, MSHR) /\ UNCHANGED WQ /\ i <= MaxLoads
      /\ (QueuedWrites("L1D", p) # {} => ToCore("L1D", p))
      /\ (QueuedWrites("L1D", p) = {} => HasRoom("L1D", p) /\ UNCHANGED PROCESSED)
      /\ loadLine' = [loadLine EXCEPT ![i] = l] /\ Count("loads")
  BY DEF Load
<1>2. i \in Loads
  BY <1>1, CacheAssumption DEF Loads, CoreTyped
<1>3. p.line = l /\ p.deps = {i} /\ p.type # "prefetch"
  BY DEF Packet
<1>4. p \in Reads("L1D")
  <2>1. l \in Lines /\ w \in Words \cup {0} /\ {i} \in SUBSET Loads
    BY <1>2 DEF Lines
  <2> DEFINE no == FALSE
  <2>2. no \in BOOLEAN /\ ~no
    OBVIOUS
  <2> HIDE DEF no
  <2>3. Packet(l, w, "load", 1, no, {i}) \in Reads(IF no THEN "L1I" ELSE "L1D")
    BY <2>1, <2>2, CorePackets
  <2>4. QED
    BY <2>2, <2>3 DEF no
<1>5. QED
  BY <1>1, <1>2, <1>3, <1>4 DEF Reads

(* A load of the core is held by one more packet, or told at once.         *)
LEMMA LoadHolds ==
  ASSUME CacheInv, CacheInv', LoadInv, RoomForAnswers, NEW l \in DataLines, NEW w \in Words, Load(l, w)
  PROVE  LoadInv'
<1> DEFINE i == sent.loads + 1  p == Packet(l, w, "load", 1, FALSE, {i})  a == PROCESSED["L1D"]
<1>1. /\ TablesInv /\ CoreTyped /\ AnswersTyped /\ HoldInv /\ DemandInv /\ TablesInv' /\ CoreTyped'
      /\ Len(PROCESSED["L1D"]) \in Nat /\ Len(RQ["L1D"]) \in Nat /\ Len(WQ["L1D"]) \in Nat
      /\ Cardinality(Demands(MSHR["L1D"])) \in Nat /\ PROCESSED = [c \in Level1 |-> PROCESSED[c]]
      /\ ReadsTyped(RQ) /\ MissesTyped(MSHR) /\ "L1D" \in Level1 /\ "L1D" \in Caches
  BY HeldTyped, FirstLevels DEF LoadInv, CacheInv
<1>2. i = sent.loads + 1 /\ i \in Nat /\ sent.loads \in Nat
  BY <1>1 DEF CoreTyped
<1>3. /\ i \in Loads /\ p \in Reads("L1D") /\ p \in PacketSet /\ p.line = l /\ p.deps = {i}
      /\ p.type # "prefetch" /\ add_rq("L1D", p, RQ, MSHR) /\ UNCHANGED WQ
      /\ (QueuedWrites("L1D", p) # {} => ToCore("L1D", p))
      /\ (QueuedWrites("L1D", p) = {} => HasRoom("L1D", p) /\ UNCHANGED PROCESSED)
      /\ loadLine' = [loadLine EXCEPT ![i] = l] /\ Count("loads")
  BY <1>1, LoadPacket
<1> HIDE DEF p, i
<1>4. /\ sent'.loads = sent.loads + 1 /\ sent'.stores = sent.stores /\ sent'.loads <= MaxLoads
      /\ sent.loads < MaxLoads
  BY <1>1, <1>2, <1>3, CacheAssumption DEF CoreTyped, Count, Loads
<1>5. /\ SameHolds(MSHR', MSHR) /\ RQ'["L1I"] = RQ["L1I"]
      /\ QueuedWrites("L1D", p) # {} => RQ' = RQ
      /\ QueuedWrites("L1D", p) = {} => \A k, j : InRead(RQ', "L1D", k, j) <=>
                                          InRead(RQ, "L1D", k, j) \/ (k = p.line /\ j \in p.deps)
      /\ Len(RQ'["L1D"]) <= Len(RQ["L1D"]) + 1
  BY <1>1, <1>3, FirstLevels, FreshHolds
<1>6. \A c \in Level1 : MissesStay(c)
  BY <1>5, StaysWithin
<1>7. l # 0 /\ loadLine \in [Loads -> DataLines \cup {0}]
  BY <1>1, LinesNotZero DEF Lines, CoreTyped
<1>8. loadLine'[i] = l /\ \A j \in Loads : j # i => loadLine'[j] = loadLine[j]
  BY <1>3, <1>7
<1>9. a \in Seq(Answers) /\ ToldOnce(a) /\ \A j \in Loads : LoadHeld(RQ, MSHR, a, loadLine, j)
  BY <1>1 DEF AnswersTyped, HoldInv
<1>10. \A k, j : InRead(RQ, "L1D", k, j) \/ InMiss(MSHR, "L1D", k, j) => k # 0
  BY <1>1, HeldLines
<1>11. /\ ~Told(a, i)
       /\ \A k : ~InRead(RQ, "L1D", k, i) /\ ~InMiss(MSHR, "L1D", k, i)
  <2>1. loadLine[i] = 0
    BY <1>1, <1>2, <1>3 DEF HoldInv
  <2>2. LoadHeld(RQ, MSHR, a, loadLine, i)
    BY <1>3, <1>9
  <2> HIDE DEF a
  <2>3. QED
    BY <1>10, <2>1, <2>2 DEF LoadHeld
<1>12. \A j \in Loads : NoFetchHeld(RQ', MSHR', PROCESSED["L1I"], j)
  <2>1. \A j \in Loads : NoFetchHeld(RQ, MSHR, PROCESSED["L1I"], j)
    BY <1>1 DEF HoldInv
  <2>2. MissesStay("L1I") /\ ReadsStay("L1I")
    BY <1>5, <1>6, FirstLevels DEF ReadsStay, InRead
  <2>3. QED
    BY <2>1, <2>2 DEF NoFetchHeld, MissesStay, ReadsStay
<1>13. \A j \in Loads : j > sent'.loads => loadLine'[j] = 0
  BY <1>1, <1>2, <1>4, <1>8 DEF HoldInv, Loads
<1>14. Cardinality(Demands(MSHR'["L1D"])) <= Cardinality(Demands(MSHR["L1D"])) + 0
  <2>1. Cardinality(Demands(MSHR'["L1D"])) <= Cardinality(Demands(MSHR["L1D"]))
        /\ Cardinality(Demands(MSHR'["L1D"])) \in Nat
    BY <1>1, <1>5, DemandsFinite DEF SameHolds, TablesInv
  <2>2. QED
    BY <1>1, <2>1
<1>15. /\ sent'.loads + sent'.stores = sent.loads + sent.stores + 1 /\ sent'.stores <= MaxStores
       /\ 0 \in Int /\ 1 \in Int /\ 1 + 0 + 0 + 0 <= 1 /\ 0 + 1 + 0 + 0 <= 1
       /\ Len(WQ'["L1D"]) <= Len(WQ["L1D"]) + 0
  BY <1>1, <1>3, <1>4 DEF CoreTyped, DemandInv
<1>16. CASE QueuedWrites("L1D", p) # {}
  <2>1. RQ' = RQ /\ ToCore("L1D", p)
    BY <1>3, <1>5, <1>16
  <2>2. Len(PROCESSED["L1D"]) < ProcessedSize
    <3>1. LoadInv /\ TablesInv /\ CoreTyped
      BY <1>1
    <3>2. QED
      BY <1>4, <3>1, AnswerFits
  <2>3. /\ PROCESSED' = [d \in Level1 |-> PROCESSED'[d]]
        /\ Tells("L1D", p) /\ Silent("L1I")
        /\ Len(PROCESSED'["L1D"]) = Len(PROCESSED["L1D"]) + 1
    BY <1>1, <1>3, <2>1, <2>2, ToldCore, FirstLevels
  <2> DEFINE b == PROCESSED'["L1D"]  x == [line |-> p.line, deps |-> p.deps]
  <2>4. b = Append(a, x)
    BY <1>3, <2>3 DEF Tells
  <2>5. x \in Answers /\ x.deps = {i}
    BY <1>3 DEF PacketSet, Answers
  <2> HIDE DEF a, x
  <2>6. /\ \A j \in Loads : Told(b, j) <=> Told(a, j) \/ j = i
        /\ ToldOnce(b) /\ b \in Seq(Answers)
    BY <1>9, <1>11, <2>4, <2>5, ToldMore
  <2> HIDE DEF b
  <2>7. ASSUME NEW j \in Loads PROVE LoadHeld(RQ', MSHR', b, loadLine', j)
    <3>1. /\ \A k : InRead(RQ', "L1D", k, j) <=> InRead(RQ, "L1D", k, j)
          /\ \A k : InMiss(MSHR', "L1D", k, j) <=> InMiss(MSHR, "L1D", k, j)
      BY <1>1, <1>6, <2>1 DEF MissesStay, InRead
    <3>2. CASE j = i
      BY <1>7, <1>8, <1>11, <2>6, <3>1, <3>2 DEF LoadHeld
    <3>3. CASE j # i
      BY <1>8, <1>9, <2>6, <3>1, <3>3 DEF LoadHeld
    <3>4. QED
      BY <3>2, <3>3
  <2>8. HoldInv'
    BY <1>12, <1>13, <2>3, <2>6, <2>7 DEF HoldInv, b, Silent
  <2>9. AnswersTyped'
    BY <1>1, <2>3, <2>6, FirstLevels DEF AnswersTyped, b, Silent
  <2>10. Len(PROCESSED'["L1D"]) <= Len(PROCESSED["L1D"]) + 1 /\ Len(RQ'["L1D"]) <= Len(RQ["L1D"]) + 0
    BY <1>1, <2>1, <2>3
  <2>11. DemandInv'
    BY <1>1, <1>4, <1>14, <1>15, <2>9, <2>10, DemandGrows
  <2>12. QED
    BY <2>8, <2>9, <2>11 DEF LoadInv
<1>17. CASE QueuedWrites("L1D", p) = {}
  <2>1. PROCESSED' = PROCESSED
    BY <1>3, <1>17
  <2>2. \A k, j : InRead(RQ', "L1D", k, j) <=> InRead(RQ, "L1D", k, j) \/ (k = l /\ j = i)
    BY <1>3, <1>5, <1>17
  <2> HIDE DEF a
  <2>3. ASSUME NEW j \in Loads PROVE LoadHeld(RQ', MSHR', a, loadLine', j)
    <3>1. \A k : InMiss(MSHR', "L1D", k, j) <=> InMiss(MSHR, "L1D", k, j)
      BY <1>1, <1>6 DEF MissesStay
    <3>2. CASE j = i
      BY <1>7, <1>8, <1>11, <2>2, <3>1, <3>2 DEF LoadHeld
    <3>3. CASE j # i
      BY <1>8, <1>9, <2>2, <3>1, <3>3 DEF LoadHeld
    <3>4. QED
      BY <3>2, <3>3
  <2>4. HoldInv'
    BY <1>9, <1>12, <1>13, <2>1, <2>3 DEF HoldInv, a
  <2>5. AnswersTyped'
    BY <1>1, <2>1 DEF AnswersTyped
  <2>6. Len(PROCESSED'["L1D"]) <= Len(PROCESSED["L1D"]) + 0
    BY <1>1, <2>1
  <2>7. DemandInv'
    BY <1>1, <1>4, <1>5, <1>14, <1>15, <2>5, <2>6, DemandGrows
  <2>8. QED
    BY <2>4, <2>5, <2>7 DEF LoadInv
<1>18. QED
  BY <1>16, <1>17

(* Taking an answer frees its loads, and no others.                        *)
LEMMA CoreTakesHolds ==
  ASSUME CacheInv, CacheInv', LoadInv, NEW c \in Level1, CoreTakes(c)
  PROVE  LoadInv'
<1> DEFINE a == PROCESSED[c]  d == Head(PROCESSED[c])  b == Tail(PROCESSED[c])
<1>1. /\ TablesInv /\ CoreTyped /\ AnswersTyped /\ HoldInv /\ DemandInv /\ TablesInv' /\ CoreTyped'
      /\ Len(PROCESSED["L1D"]) \in Nat /\ Len(RQ["L1D"]) \in Nat /\ Len(WQ["L1D"]) \in Nat
      /\ Cardinality(Demands(MSHR["L1D"])) \in Nat /\ PROCESSED = [e \in Level1 |-> PROCESSED[e]]
  BY HeldTyped DEF LoadInv, CacheInv
<1>2. /\ a # <<>> /\ PROCESSED' = [PROCESSED EXCEPT ![c] = b]
      /\ loadLine' = [i \in Loads |-> IF i \in d.deps THEN 0 ELSE loadLine[i]]
      /\ UNCHANGED <<RQ, WQ, MSHR, sent>>
  BY <1>1 DEF CoreTakes, Popped
<1>3. a \in Seq(Answers) /\ PROCESSED'[c] = b /\ \A e \in Level1 : e # c => PROCESSED'[e] = PROCESSED[e]
  BY <1>1, <1>2 DEF AnswersTyped
<1>4. ToldOnce(a)
  <2>1. CASE c = "L1D"
    BY <1>1, <2>1 DEF HoldInv
  <2>2. CASE c = "L1I"
    <3>1. \A i \in Loads : ~Told(a, i)
      BY <1>1, <2>2 DEF HoldInv, NoFetchHeld
    <3>2. QED
      BY <3>1 DEF Told, ToldOnce
  <2>3. QED
    BY <2>1, <2>2, FirstLevels
<1> HIDE DEF a
<1>5. /\ \A i \in Loads : Told(b, i) <=> Told(a, i) /\ i \notin d.deps
      /\ \A i \in Loads : i \in d.deps => Told(a, i)
      /\ ToldOnce(b) /\ b \in Seq(Answers) /\ Len(b) = Len(a) - 1 /\ Len(a) \in Nat
  <2>1. d = Head(a) /\ b = Tail(a)
    BY DEF a
  <2>2. QED
    BY <1>2, <1>3, <1>4, <2>1, ToldLess
<1> HIDE DEF b, d
<1>6. \A i \in Loads : loadLine'[i] = IF i \in d.deps THEN 0 ELSE loadLine[i]
  BY <1>2
<1>7. AnswersTyped'
  BY <1>1, <1>2, <1>3, <1>5 DEF AnswersTyped
<1>8. \A k, i : /\ InRead(RQ', "L1D", k, i) <=> InRead(RQ, "L1D", k, i)
                /\ InMiss(MSHR', "L1D", k, i) <=> InMiss(MSHR, "L1D", k, i)
                /\ InRead(RQ', "L1I", k, i) <=> InRead(RQ, "L1I", k, i)
                /\ InMiss(MSHR', "L1I", k, i) <=> InMiss(MSHR, "L1I", k, i)
  BY <1>2
<1>9. HoldInv'
  <2>1. \A i \in Loads : i > sent'.loads => loadLine'[i] = 0
    BY <1>1, <1>2, <1>6 DEF HoldInv
  <2>2. CASE c = "L1D"
    <3>1. PROCESSED'["L1D"] = b /\ PROCESSED'["L1I"] = PROCESSED["L1I"] /\ PROCESSED["L1D"] = a
      BY <1>3, <2>2, FirstLevels DEF a
    <3>2. ASSUME NEW i \in Loads PROVE LoadHeld(RQ', MSHR', b, loadLine', i)
      <4>1. LoadHeld(RQ, MSHR, a, loadLine, i)
        BY <1>1, <3>1 DEF HoldInv
      <4>2. CASE i \in d.deps
        <5>1. Told(a, i) /\ ~Told(b, i) /\ loadLine'[i] = 0
          BY <1>5, <1>6, <4>2
        <5>2. QED
          BY <1>8, <4>1, <5>1 DEF LoadHeld
      <4>3. CASE i \notin d.deps
        <5>1. (Told(b, i) <=> Told(a, i)) /\ loadLine'[i] = loadLine[i]
          BY <1>5, <1>6, <4>3
        <5>2. QED
          BY <1>8, <4>1, <5>1 DEF LoadHeld
      <4>4. QED
        BY <4>2, <4>3
    <3>3. \A i \in Loads : NoFetchHeld(RQ', MSHR', PROCESSED'["L1I"], i)
      BY <1>1, <1>8, <3>1 DEF HoldInv, NoFetchHeld
    <3>4. QED
      BY <1>5, <2>1, <3>1, <3>2, <3>3 DEF HoldInv
  <2>3. CASE c = "L1I"
    <3>1. PROCESSED'["L1I"] = b /\ PROCESSED'["L1D"] = PROCESSED["L1D"] /\ PROCESSED["L1I"] = a
      BY <1>3, <2>3, FirstLevels DEF a
    <3>2. ASSUME NEW i \in Loads
          PROVE  NoFetchHeld(RQ', MSHR', b, i) /\ i \notin d.deps
      <4>1. NoFetchHeld(RQ, MSHR, a, i)
        BY <1>1, <3>1 DEF HoldInv
      <4>2. QED
        BY <1>5, <1>8, <4>1 DEF NoFetchHeld
    <3>3. \A i \in Loads : loadLine'[i] = loadLine[i]
      BY <1>6, <3>2
    <3>4. \A i \in Loads : LoadHeld(RQ', MSHR', PROCESSED'["L1D"], loadLine', i)
      BY <1>1, <1>8, <3>1, <3>3 DEF HoldInv, LoadHeld
    <3>5. ToldOnce(PROCESSED'["L1D"])
      BY <1>1, <3>1 DEF HoldInv
    <3>6. QED
      BY <2>1, <3>1, <3>2, <3>4, <3>5 DEF HoldInv
  <2>4. QED
    BY <2>2, <2>3, FirstLevels
<1>10. Len(PROCESSED'["L1D"]) <= Len(PROCESSED["L1D"]) + 0
  <2>1. CASE c = "L1D"
    <3> DEFINE x == Len(a)  y == Len(b)
    <3>1. x \in Nat /\ y = x - 1 /\ x = Len(PROCESSED["L1D"]) /\ y = Len(PROCESSED'["L1D"])
      BY <1>3, <1>5, <2>1 DEF a
    <3> HIDE DEF x, y
    <3>2. y <= x + 0
      BY <3>1
    <3>3. QED
      BY <3>1, <3>2
  <2>2. CASE c # "L1D"
    <3>1. PROCESSED'["L1D"] = PROCESSED["L1D"]
      BY <1>3, <2>2, FirstLevels
    <3>2. QED
      BY <1>1, <3>1
  <2>3. QED
    BY <2>1, <2>2
<1>11. /\ 0 \in Int /\ 0 + 0 + 0 + 0 <= 0
       /\ Len(RQ'["L1D"]) <= Len(RQ["L1D"]) + 0
       /\ Cardinality(Demands(MSHR'["L1D"])) <= Cardinality(Demands(MSHR["L1D"])) + 0
       /\ Len(WQ'["L1D"]) <= Len(WQ["L1D"]) + 0
       /\ sent'.loads + sent'.stores = sent.loads + sent.stores + 0
       /\ sent'.loads <= MaxLoads /\ sent'.stores <= MaxStores
  BY <1>1, <1>2 DEF CoreTyped, DemandInv
<1>12. DemandInv'
  BY <1>1, <1>7, <1>10, <1>11, DemandGrows
<1>13. QED
  BY <1>7, <1>9, <1>12 DEF LoadInv

(* Every step keeps every load in its one place.                           *)
LEMMA StepKeepsLoads ==
  ASSUME CacheInv, LoadInv, RoomForAnswers, [Next]_vars
  PROVE  LoadInv'
<1>1. CacheInv' /\ TablesInv'
  BY StepKeepsCaches DEF CacheInv
<1>2. CASE UNCHANGED vars
  BY <1>2 DEF vars, core, LoadInv, AnswersTyped, DemandInv, Outstanding, HoldInv, InRead, InMiss,
              LoadHeld, NoFetchHeld
<1>3. ASSUME NEW c \in Caches, Operate(c) PROVE LoadInv'
  <2>1. CASE HandleFill(c)
    BY <1>1, <2>1, FillHolds
  <2>2. CASE HandleWriteback(c)
    BY <1>1, <2>2, WritebackHitHolds, WritebackMissHolds, StoreMissHolds, StoreMergeHolds
       DEF HandleWriteback
  <2>3. CASE HandleRead(c)
    BY <1>1, <2>3, ReadHitHolds, ReadMissHolds, ReadMergeHolds DEF HandleRead
  <2>4. CASE HandlePrefetch(c)
    BY <1>1, <2>4, PrefetchHitHolds, PrefetchMissHolds, PrefetchMergeHolds DEF HandlePrefetch
  <2>5. QED
    BY <1>3, <2>1, <2>2, <2>3, <2>4 DEF Operate
<1>4. ASSUME NEW c \in Level1, CoreTakes(c) PROVE LoadInv'
  BY <1>1, <1>4, CoreTakesHolds
<1>5. CASE ManagerStep
  BY <1>1, <1>5, ManagerHolds
<1>6. CASE Environment
  <2>1. ASSUME NEW l \in CodeLines, Fetch(l) PROVE LoadInv'
    BY <1>1, <2>1, FetchHolds
  <2>2. ASSUME NEW l \in DataLines, NEW w \in Words, Load(l, w) PROVE LoadInv'
    BY <1>1, <2>2, LoadHolds
  <2>3. ASSUME NEW l \in DataLines, NEW w \in Words, Store(l, w) PROVE LoadInv'
    BY <1>1, <2>3, StoreHolds
  <2>4. ASSUME NEW c, NEW l, NEW lvl, Prefetch(c, l, lvl) PROVE LoadInv'
    BY <1>1, <2>4, PrefetchHolds
  <2>5. QED
    BY <1>6, <2>1, <2>2, <2>3, <2>4 DEF Environment
<1>7. QED
  BY <1>2, <1>3, <1>4, <1>5, <1>6 DEF Next, System

(* Nothing is held, sent or told at first.                                 *)
LEMMA InitLoads == Init => LoadInv
<1>1. SUFFICES ASSUME Init PROVE LoadInv
  OBVIOUS
<1>2. /\ \A c \in Caches : RQ[c] = <<>> /\ WQ[c] = <<>> /\ MSHR[c] = {}
      /\ PROCESSED = [c \in Level1 |-> <<>>] /\ loadLine = [i \in Loads |-> 0]
      /\ sent.loads = 0 /\ sent.stores = 0
  BY <1>1 DEF Init
<1>3. /\ RQ["L1D"] = <<>> /\ WQ["L1D"] = <<>> /\ MSHR["L1D"] = {}
      /\ RQ["L1I"] = <<>> /\ MSHR["L1I"] = {} /\ PROCESSED["L1D"] = <<>> /\ PROCESSED["L1I"] = <<>>
  BY <1>2, FirstLevels
<1>4. AnswersTyped
  BY <1>2 DEF AnswersTyped
<1>5. DemandInv
  <2>1. Len(PROCESSED["L1D"]) = 0 /\ Len(RQ["L1D"]) = 0 /\ Len(WQ["L1D"]) = 0
    BY <1>3
  <2>2. Cardinality(Demands(MSHR["L1D"])) = 0
    <3>1. Demands(MSHR["L1D"]) = {}
      BY <1>3 DEF Demands
    <3>2. QED
      BY <3>1, FS_EmptySet
  <2>3. Outstanding = 0
    BY <2>1, <2>2 DEF Outstanding
  <2>4. QED
    BY <1>2, <2>3, CacheAssumption DEF DemandInv
<1>6. HoldInv
  <2>1. \A l, i : /\ ~InRead(RQ, "L1D", l, i) /\ ~InRead(RQ, "L1I", l, i)
                  /\ ~InMiss(MSHR, "L1D", l, i) /\ ~InMiss(MSHR, "L1I", l, i)
    <3>1. Range(<<>>) = {}
      BY DEF Range
    <3>2. QED
      BY <1>3, <3>1 DEF InRead, InMiss, In
  <2>2. \A i : ~Told(PROCESSED["L1D"], i) /\ ~Told(PROCESSED["L1I"], i)
    BY <1>3 DEF Told
  <2>3. ToldOnce(PROCESSED["L1D"])
    BY <1>3 DEF ToldOnce
  <2>4. QED
    BY <1>2, <2>1, <2>2, <2>3 DEF HoldInv, LoadHeld, NoFetchHeld
<1>7. QED
  BY <1>4, <1>5, <1>6 DEF LoadInv

(* The invariant of loads is inductive beside that of the caches.          *)
LEMMA LoadInvariant == RoomForAnswers => (Spec => [](CacheInv /\ LoadInv))
<1> SUFFICES ASSUME RoomForAnswers PROVE Spec => [](CacheInv /\ LoadInv)
  OBVIOUS
<1>1. Init => CacheInv /\ LoadInv
  BY InitCaches, InitLoads
<1>2. CacheInv /\ LoadInv /\ [Next]_vars => (CacheInv /\ LoadInv)'
  BY StepKeepsCaches, StepKeepsLoads
<1>3. QED
  BY <1>1, <1>2, PTL DEF Spec

(* The read of a load, its miss and its answer are one each at most.       *)
LEMMA HeldOnce ==
  ASSUME CacheInv, LoadInv, NEW i \in Loads
  PROVE  Holders(i) = IF loadLine[i] = 0 THEN 0 ELSE 1
<1> DEFINE q == RQ["L1D"]  a == PROCESSED["L1D"]  m == MSHR["L1D"]  l == loadLine[i]
           R == {k \in DOMAIN q : i \in q[k].deps}
           M == {e \in m : i \in e.deps}
           A == {k \in DOMAIN a : i \in a[k].deps}
<1>1. /\ HoldInv /\ AnswersTyped /\ ReadsTyped(RQ) /\ MissesTyped(MSHR) /\ "L1D" \in Caches /\ "L1D" \in Level1
  BY HeldTyped, FirstLevels
<1>2. LoadHeld(RQ, MSHR, a, loadLine, i) /\ ToldOnce(a)
  BY <1>1 DEF HoldInv
<1>3. \A k, j : InRead(RQ, "L1D", k, j) \/ InMiss(MSHR, "L1D", k, j) => k # 0
  BY <1>1, HeldLines
<1>4. q \in Seq(Reads("L1D")) /\ Distinct(q) /\ m \in SUBSET Misses("L1D") /\ OneEach(m)
      /\ a \in Seq(Answers)
  BY <1>1 DEF ReadsTyped, MissesTyped, AnswersTyped
<1>5. Holders(i) = Cardinality(R) + Cardinality(M) + Cardinality(A)
  BY DEF Holders
<1>6. /\ \A k \in DOMAIN q : q[k] \in PacketSet
      /\ \A e \in m : e \in PacketSet
      /\ DOMAIN a = 1 .. Len(a)
  BY <1>4, LenProperties, ElementOfSeq DEF Reads, Misses
<1>7. \A k \in R : InRead(RQ, "L1D", q[k].line, i) /\ q[k].line = l
  <2>1. \A k \in R : InRead(RQ, "L1D", q[k].line, i)
    BY <1>6 DEF InRead, In, Holding, Range
  <2>2. QED
    BY <1>2, <2>1 DEF LoadHeld
<1>8. \A e \in M : InMiss(MSHR, "L1D", e.line, i) /\ e.line = l
  <2>1. \A e \in M : InMiss(MSHR, "L1D", e.line, i)
    BY <1>6 DEF InMiss, In, Holding
  <2>2. QED
    BY <1>2, <2>1 DEF LoadHeld
<1>9. \A j, k \in R : j = k
  BY <1>4, <1>7 DEF Distinct
<1>10. \A j, k \in M : j = k
  BY <1>4, <1>8 DEF OneEach
<1>11. \A j, k \in A : j = k
  BY <1>2, <1>6 DEF ToldOnce
<1>12. R # {} => l # 0 /\ M = {} /\ A = {}
  <2>1. SUFFICES ASSUME R # {} PROVE l # 0 /\ M = {} /\ A = {}
    OBVIOUS
  <2>2. InRead(RQ, "L1D", l, i)
    BY <1>7, <2>1
  <2>3. l # 0 /\ ~InMiss(MSHR, "L1D", l, i) /\ ~Told(a, i)
    BY <1>2, <1>3, <2>2 DEF LoadHeld
  <2>4. M = {}
    BY <1>8, <2>3
  <2>5. A = {}
    BY <1>6, <2>3 DEF Told
  <2>6. QED
    BY <2>3, <2>4, <2>5
<1>13. M # {} => l # 0 /\ A = {}
  <2>1. SUFFICES ASSUME M # {} PROVE l # 0 /\ A = {}
    OBVIOUS
  <2>2. InMiss(MSHR, "L1D", l, i)
    BY <1>8, <2>1
  <2>3. l # 0 /\ ~Told(a, i)
    BY <1>2, <1>3, <2>2 DEF LoadHeld
  <2>4. A = {}
    BY <1>6, <2>3 DEF Told
  <2>5. QED
    BY <2>3, <2>4
<1>14. A # {} => l # 0
  BY <1>2, <1>6 DEF LoadHeld, Told
<1>15. l # 0 => R # {} \/ M # {} \/ A # {}
  <2>1. SUFFICES ASSUME l # 0 PROVE R # {} \/ M # {} \/ A # {}
    OBVIOUS
  <2>2. CASE InRead(RQ, "L1D", l, i)
    <3>1. PICK k \in DOMAIN q : q[k] \in Holding(i)
      BY <2>2 DEF InRead, In, Range
    <3>2. k \in R
      BY <3>1 DEF Holding
    <3>3. QED
      BY <3>2
  <2>3. CASE InMiss(MSHR, "L1D", l, i)
    <3>1. PICK e \in m : e \in Holding(i)
      BY <2>3 DEF InMiss, In
    <3>2. e \in M
      BY <3>1 DEF Holding
    <3>3. QED
      BY <3>2
  <2>4. CASE Told(a, i)
    BY <1>6, <2>4 DEF Told
  <2>5. QED
    BY <1>2, <2>1, <2>2, <2>3, <2>4 DEF LoadHeld
<1> HIDE DEF R, M, A
<1>16. /\ Cardinality(R) = IF R = {} THEN 0 ELSE 1
       /\ Cardinality(M) = IF M = {} THEN 0 ELSE 1
       /\ Cardinality(A) = IF A = {} THEN 0 ELSE 1
  BY <1>9, <1>10, <1>11, AtMostOne
<1> HIDE DEF l
<1>17. Cardinality(R) + Cardinality(M) + Cardinality(A) = IF l = 0 THEN 0 ELSE 1
  BY <1>12, <1>13, <1>14, <1>15, <1>16
<1>18. QED
  BY <1>5, <1>17 DEF l

(* handle_fill() and the read hit hand a load to PROCESSED only if         *)
(* PROCESSED.occupancy < PROCESSED.SIZE and drop it otherwise, and nobody  *)
(* asks for room before. With room for every load and store the core may   *)
(* have outstanding none is dropped: each load the L1D was given is in     *)
(* exactly one of its read queue, an MSHR entry or PROCESSED until the     *)
(* core takes the answer, however reads merge and misses are joined.       *)
THEOREM LoadsAreConserved == RoomForAnswers => (Spec => []LoadsConserved)
<1> SUFFICES ASSUME RoomForAnswers PROVE Spec => []LoadsConserved
  OBVIOUS
<1>1. CacheInv /\ LoadInv => LoadsConserved
  BY HeldOnce DEF LoadsConserved
<1>2. Spec => [](CacheInv /\ LoadInv)
  BY LoadInvariant
<1>3. QED
  BY <1>1, <1>2, PTL

-----------------------------------------------------------------------------
(* Nothing waits for itself.                                               *)

(* The manager has every read the LLC waits for, in a queue or to answer.  *)
ReadOf(l) == [addr |-> l, isWrite |-> FALSE]

Owed(l) == \/ \E j \in 1 .. Len(due) : due[j] = l
           \/ \E i \in 0 .. NumIndices - 1 : \E k \in 1 .. Len(queue[i]) : queue[i][k] = ReadOf(l)

OwedInv == \A l \in Lines : waiting[l] = 1 => Owed(l)

(* The manager accepts a request behind all it has.                        *)
LEMMA OwedAccepted ==
  ASSUME MemInv, OwedInv, NEW l \in Lines, NEW write \in BOOLEAN, ToManager(l, write)
  PROVE  OwedInv'
<1> DEFINE x == l % NumIndices  r == [addr |-> l, isWrite |-> write]
<1>1. x \in 0 .. NumIndices - 1
  BY IndexOf
<1>2. /\ queue' = [queue EXCEPT ![x] = Append(@, r)] /\ due' = due
      /\ waiting' = IF write THEN waiting ELSE [waiting EXCEPT ![l] = @ + 1]
      /\ r \in Manager!Request
  BY DEF ToManager, Manager!Accept, Manager!Index, Manager!Request
<1>3. /\ queue = [i \in 0 .. NumIndices - 1 |-> queue[i]] /\ waiting \in [Lines -> {0, 1}]
      /\ queue[x] \in Seq(Manager!Request)
  BY <1>1 DEF MemInv
<1>4. ~write => r = ReadOf(l)
  BY DEF ReadOf
<1> HIDE DEF x, r
<1>5. /\ queue'[x] = Append(queue[x], r)
      /\ \A i \in 0 .. NumIndices - 1 : i # x => queue'[i] = queue[i]
  BY <1>1, <1>2, <1>3
<1> DEFINE s == queue[x]  t == queue'[x]
<1>6. /\ Len(s) \in Nat /\ Len(t) = Len(s) + 1 /\ t[Len(s) + 1] = r
      /\ \A k \in 1 .. Len(s) : k \in 1 .. Len(t) /\ t[k] = s[k]
  BY <1>2, <1>3, <1>5, Appended
<1>7. SUFFICES ASSUME NEW a \in Lines, waiting'[a] = 1 PROVE Owed(a)'
  BY DEF OwedInv
<1>8. CASE ~write /\ a = l
  <2>1. Len(s) + 1 \in 1 .. Len(t) /\ t[Len(s) + 1] = ReadOf(a)
    BY <1>4, <1>6, <1>8
  <2>2. QED
    BY <1>1, <2>1 DEF Owed, ReadOf
<1>9. CASE write \/ a # l
  <2>1. Owed(a)
    BY <1>2, <1>3, <1>7, <1>9 DEF OwedInv
  <2>2. CASE \E j \in 1 .. Len(due) : due[j] = a
    BY <1>2, <2>2 DEF Owed
  <2>3. ASSUME NEW i \in 0 .. NumIndices - 1, NEW k \in 1 .. Len(queue[i]), queue[i][k] = ReadOf(a)
        PROVE  Owed(a)'
    <3>1. k \in 1 .. Len(queue'[i]) /\ queue'[i][k] = ReadOf(a)
      BY <1>5, <1>6, <2>3
    <3>2. QED
      BY <3>1 DEF Owed, ReadOf
  <2>4. QED
    BY <2>1, <2>2, <2>3 DEF Owed
<1>10. QED
  BY <1>8, <1>9

(* The manager serves the oldest request of an index: a read is answered,  *)
(* or due an answer.                                                       *)
LEMMA OwedServed ==
  ASSUME MemInv, OwedInv, NEW i \in 0 .. NumIndices - 1, Manager!Serve(i)
  PROVE  OwedInv'
<1> DEFINE s == queue[i]  h == Head(queue[i])  t == queue'[i]
<1>1. /\ s # <<>> /\ queue' = [queue EXCEPT ![i] = Tail(s)]
      /\ \/ h.isWrite /\ due' = due /\ waiting' = waiting
         \/ ~h.isWrite /\ due' = Append(due, h.addr) /\ waiting' = waiting
         \/ ~h.isWrite /\ due = <<>> /\ waiting' = [waiting EXCEPT ![h.addr] = @ - 1] /\ due' = due
  BY DEF Manager!Serve
<1>2. /\ queue = [n \in 0 .. NumIndices - 1 |-> queue[n]] /\ waiting \in [Lines -> {0, 1}]
      /\ s \in Seq(Manager!Request) /\ due \in Seq(Lines)
  BY DEF MemInv
<1>3. t = Tail(s) /\ \A n \in 0 .. NumIndices - 1 : n # i => queue'[n] = queue[n]
  BY <1>1, <1>2
<1>4. /\ Len(s) \in Nat \ {0} /\ h = s[1] /\ Len(t) = Len(s) - 1 /\ h \in Manager!Request
      /\ \A n \in 1 .. Len(t) : t[n] = s[n + 1]
  BY <1>1, <1>2, <1>3, Shifted
<1>5. h.addr \in Lines /\ Len(due) \in Nat
  BY <1>2, <1>4 DEF Manager!Request
<1> HIDE DEF h, t
<1>6. SUFFICES ASSUME NEW a \in Lines, waiting'[a] = 1 PROVE Owed(a)'
  BY DEF OwedInv
<1>7. waiting[a] = 1 /\ (waiting' = waiting \/ a # h.addr)
  BY <1>1, <1>2, <1>5, <1>6
<1>8. Owed(a)
  BY <1>7 DEF OwedInv
<1>9. \A j \in 1 .. Len(due) : j \in 1 .. Len(due') /\ due'[j] = due[j]
  <2>1. CASE due' = due
    BY <2>1
  <2>2. CASE due' = Append(due, h.addr)
    BY <1>2, <1>5, <2>2, Appended
  <2>3. QED
    BY <1>1, <2>1, <2>2
<1>10. CASE \E j \in 1 .. Len(due) : due[j] = a
  BY <1>9, <1>10 DEF Owed
<1>11. ASSUME NEW n \in 0 .. NumIndices - 1, NEW k \in 1 .. Len(queue[n]), queue[n][k] = ReadOf(a)
       PROVE  Owed(a)'
  <2>1. CASE n # i
    <3>1. k \in 1 .. Len(queue'[n]) /\ queue'[n][k] = ReadOf(a)
      BY <1>3, <1>11, <2>1
    <3>2. QED
      BY <3>1 DEF Owed, ReadOf
  <2>2. CASE n = i /\ k # 1
    <3>1. k - 1 \in 1 .. Len(t) /\ t[k - 1] = ReadOf(a)
      BY <1>4, <1>11, <2>2
    <3>2. QED
      BY <3>1 DEF Owed, ReadOf, t
  <2>3. CASE n = i /\ k = 1
    <3>1. h = ReadOf(a)
      BY <1>4, <1>11, <2>3
    <3>2. ~h.isWrite /\ h.addr = a
      BY <3>1 DEF ReadOf
    <3>3. due' = Append(due, a)
      <4>1. ~(waiting' = [waiting EXCEPT ![h.addr] = @ - 1])
        BY <1>2, <1>5, <1>6, <3>2
      <4>2. QED
        BY <1>1, <3>2, <4>1
    <3>4. Len(due) + 1 \in 1 .. Len(due') /\ due'[Len(due) + 1] = a
      BY <1>2, <1>5, <3>3, Appended
    <3>5. QED
      BY <3>4 DEF Owed
  <2>4. QED
    BY <2>1, <2>2, <2>3
<1>12. QED
  BY <1>8, <1>10, <1>11 DEF Owed

(* The manager answers the read it has served first.                       *)
LEMMA OwedAnswered ==
  ASSUME MemInv, OwedInv, Manager!Answer
  PROVE  OwedInv'
<1> DEFINE h == Head(due)
<1>1. /\ due # <<>> /\ due' = Tail(due) /\ queue' = queue
      /\ waiting' = [waiting EXCEPT ![h] = @ - 1]
  BY DEF Manager!Answer
<1>2. waiting \in [Lines -> {0, 1}] /\ due \in Seq(Lines)
  BY DEF MemInv
<1>3. /\ Len(due) \in Nat \ {0} /\ h = due[1] /\ Len(due') = Len(due) - 1 /\ h \in Lines
      /\ \A n \in 1 .. Len(due') : due'[n] = due[n + 1]
  BY <1>1, <1>2, Shifted
<1> HIDE DEF h
<1>4. SUFFICES ASSUME NEW a \in Lines, waiting'[a] = 1 PROVE Owed(a)'
  BY DEF OwedInv
<1>5. waiting[a] = 1 /\ a # h
  BY <1>1, <1>2, <1>3, <1>4
<1>6. Owed(a)
  BY <1>5 DEF OwedInv
<1>7. ASSUME NEW j \in 1 .. Len(due), due[j] = a PROVE Owed(a)'
  <2>1. j # 1
    BY <1>3, <1>5, <1>7
  <2>2. j - 1 \in 1 .. Len(due') /\ due'[j - 1] = a
    BY <1>3, <1>7, <2>1
  <2>3. QED
    BY <2>2 DEF Owed
<1>8. CASE \E i \in 0 .. NumIndices - 1 : \E k \in 1 .. Len(queue[i]) : queue[i][k] = ReadOf(a)
  BY <1>1, <1>8 DEF Owed, ReadOf
<1>9. QED
  BY <1>6, <1>7, <1>8 DEF Owed

(* What the caches do to the manager is to give it requests.               *)
LEMMA GivesRequests ==
  ASSUME CacheInv, NEW c \in Caches, Operate(c)
  PROVE  UNCHANGED memory \/ \E l \in Lines : \E write \in BOOLEAN : ToManager(l, write)
<1>0. /\ StacksInv /\ BlocksTyped /\ WritesTyped(WQ) /\ ReadsTyped(RQ) /\ PrefsTyped(PQ)
      /\ TablesInv
  BY DEF CacheInv, TablesInv
<1>1. ASSUME NEW l \in Lines, NEW w,
             WriteBack(c, blocks[c][get_set(c, l)][lru_victim(blocks[c][get_set(c, l)])], w)
      PROVE  UNCHANGED memory \/ \E a \in Lines : \E write \in BOOLEAN : ToManager(a, write)
  <2> DEFINE s == get_set(c, l)  v == blocks[c][s][lru_victim(blocks[c][s])]
  <2>1. s \in Sets(c)
    BY SetOf
  <2>2. v.dirty => v.line \in Lines
    BY <1>0, <2>1, VictimTyped
  <2>3. WriteBack(c, v, w)
    BY <1>1
  <2> HIDE DEF v
  <2>4. UNCHANGED memory \/ (v.dirty /\ ToManager(v.line, TRUE))
    BY <2>3 DEF WriteBack
  <2>5. QED
    BY <2>2, <2>4
<1>2. CASE HandleFill(c)
  <2>1. nextFill[c] \in Lines /\ check_mshr(c, nextFill[c]).line = nextFill[c]
    BY <1>0, <1>2, FillTables
  <2>2. QED
    BY <1>1, <1>2, <2>1 DEF HandleFill
<1>3. CASE WritebackMiss(c)
  <2>1. Head(WQ[c]).line \in Lines
    <3>1. WQ[c] # <<>> /\ WQ[c] \in Seq(WritesOf(c))
      BY <1>0, <1>3 DEF WritebackMiss, WritesTyped
    <3>2. Head(WQ[c]) \in WritesOf(c)
      BY <3>1, Shifted
    <3>3. QED
      BY <3>2 DEF WritesOf, WriteLines, Lines
  <2>2. QED
    BY <1>1, <1>3, <2>1 DEF WritebackMiss
<1>4. CASE WritebackHit(c) \/ StoreMiss \/ StoreMerge \/ ReadHit(c) \/ ReadMerge(c)
           \/ PrefetchHit(c) \/ PrefetchMerge(c)
  BY <1>4 DEF WritebackHit, StoreMiss, StoreMerge, ReadHit, ReadMerge, PrefetchHit, PrefetchMerge
<1>5. CASE ReadMiss(c)
  <2>1. Head(RQ[c]).line \in Lines
    BY <1>0, <1>5, ReadLeaves DEF ReadMiss
  <2>2. UNCHANGED memory \/ ToManager(Head(RQ[c]).line, FALSE)
    BY <1>5 DEF ReadMiss
  <2>3. QED
    BY <2>1, <2>2
<1>6. CASE PrefetchMiss(c)
  <2>1. Head(PQ[c]).line \in Lines
    BY <1>0, <1>6, PrefetchLeaves DEF PrefetchMiss
  <2>2. UNCHANGED memory \/ ToManager(Head(PQ[c]).line, FALSE)
    BY <1>6 DEF PrefetchMiss
  <2>3. QED
    BY <2>1, <2>2
<1>7. QED
  BY <1>2, <1>3, <1>4, <1>5, <1>6 DEF Operate, HandleWriteback, HandleRead, HandlePrefetch

(* Every step keeps it.                                                    *)
LEMMA StepKeepsOwed == CacheInv /\ OwedInv /\ [Next]_vars => OwedInv'
<1> SUFFICES ASSUME CacheInv, OwedInv, [Next]_vars PROVE OwedInv'
  OBVIOUS
<1>0. MemInv
  BY DEF CacheInv, TablesInv
<1>1. ASSUME UNCHANGED memory PROVE OwedInv'
  BY <1>1 DEF OwedInv, Owed, ReadOf, memory
<1>2. ASSUME NEW c \in Caches, Operate(c) PROVE OwedInv'
  BY <1>0, <1>1, <1>2, GivesRequests, OwedAccepted
<1>3. CASE ManagerStep
  BY <1>0, <1>3, OwedAnswered, OwedServed DEF ManagerStep
<1>4. CASE (\E c \in Level1 : CoreTakes(c)) \/ Environment
  BY <1>1, <1>4 DEF CoreTakes, Environment, Fetch, Load, Store, Prefetch
<1>5. CASE UNCHANGED vars
  BY <1>1, <1>5 DEF vars
<1>6. QED
  BY <1>2, <1>3, <1>4, <1>5 DEF Next, System

(* What the caches and the manager begin with, and what follows.           *)
LEMMA InitOwed == Init => OwedInv
BY DEF Init, Manager!LineInit, OwedInv

(* It holds of every state.                                                *)
LEMMA OwedInvariant == Spec => [](CacheInv /\ OwedInv)
BY InitCaches, InitOwed, StepKeepsCaches, StepKeepsOwed, PTL DEF Spec

(* Every buffer that may be refused for want of room has some.             *)
RoomEverywhere ==
  /\ MemorySize \in Nat \ {0}
  /\ \A c \in Caches : 0 < MshrSize[c]
  /\ \A u \in Inner : 0 < WqSize[Lower[u]] /\ 0 < PqSize[Lower[u]]

(* A manager with nothing to do has room, and has answered all the LLC     *)
(* misses.                                                                 *)
LEMMA IdleManager ==
  ASSUME RoomEverywhere, TablesInv, OwedInv, ~ManagerReady
  PROVE  ManagerHasRoom /\ \A e \in MSHR["LLC"] : e.returned
<1>1. /\ \A i \in 0 .. NumIndices - 1 : queue[i] = <<>>
      /\ DOMAIN queue = 0 .. NumIndices - 1 /\ due = <<>>
  BY DEF ManagerReady, TablesInv, MemInv
<1>2. UNION {{i} \X DOMAIN queue[i] : i \in DOMAIN queue} = {}
  BY <1>1
<1>3. ManagerHasRoom
  BY <1>2, FS_EmptySet DEF ManagerHasRoom, RoomEverywhere
<1>4. ASSUME NEW e \in MSHR["LLC"], ~e.returned PROVE FALSE
  <2>1. e \in Misses("LLC")
    BY CacheNames DEF TablesInv, MissesTyped
  <2>2. e.line \in Lines /\ e \in Open
    BY <1>4, <2>1 DEF Misses, PacketSet, Open
  <2>3. waiting[e.line] = 1
    BY <2>2 DEF TablesInv, WaitLink, Waits, In
  <2>4. Owed(e.line)
    BY <2>2, <2>3 DEF OwedInv
  <2>5. QED
    BY <1>1, <2>4 DEF Owed
<1>5. QED
  BY <1>3, <1>4

(* A cache above idle caches has been answered all that it misses.         *)
LEMMA IdleBelow ==
  ASSUME Separate, TablesInv, NEW u \in Inner, Idle(Lower[u])
  PROVE  \A e \in MSHR[u] : e.returned
<1>1. SUFFICES ASSUME NEW e \in MSHR[u], ~e.returned PROVE FALSE
  OBVIOUS
<1>2. u \in Caches /\ MissesTyped(MSHR) /\ Links(RQ, PQ, MSHR)
  BY CacheNames DEF TablesInv
<1>3. e.line \in Lines /\ e \in Open
  BY <1>1, <1>2 DEF MissesTyped, Misses, PacketSet, Open
<1>4. Linked(RQ, PQ, MSHR, u, e.line)
  BY <1>2, <1>3 DEF Links
<1>5. Waits(MSHR, u, e.line)
  BY <1>3 DEF Waits, In
<1>6. PICK p \in Range(RQ[Lower[u]]) \cup Range(PQ[Lower[u]]) \cup MSHR[Lower[u]] : TRUE
  BY <1>4, <1>5 DEF Linked, InReads, InPrefs, InMisses, In
<1>7. QED
  BY <1>6 DEF Idle, Range

(* A cache that has been answered all it misses, over a level with room,   *)
(* is idle or can go on.                                                   *)
LEMMA CanGoOn ==
  ASSUME RoomEverywhere, TablesInv, NEW c \in Caches, \A e \in MSHR[c] : e.returned,
         c = "LLC" => ManagerHasRoom,
         c # "LLC" => Idle(Lower[c])
  PROVE  Idle(c) \/ Ready(c)
<1>1. c # "LLC" => Len(WQ[Lower[c]]) < WqSize[Lower[c]] /\ Len(PQ[Lower[c]]) < PqSize[Lower[c]]
  BY CacheNames DEF Idle, RoomEverywhere
<1>2. \A l : VictimLeaves(c, l)
  BY <1>1 DEF VictimLeaves
<1>3. CASE MSHR[c] # {}
  <2>1. nextFill[c] # 0
    BY <1>3 DEF TablesInv, NextGood
  <2>2. QED
    BY <1>2, <2>1 DEF Ready, FillReady
<1>4. CASE MSHR[c] = {}
  <2>1. \A l : MissStarts(c, l)
    BY <1>4, FS_EmptySet DEF MissStarts, RoomEverywhere
  <2>2. WQ[c] # <<>> => WriteReady(c)
    BY <1>2, <2>1 DEF WriteReady
  <2>3. RQ[c] # <<>> => ReadReady(c)
    BY <2>1 DEF ReadReady
  <2>4. PQ[c] # <<>> => PrefetchReady(c)
    BY <1>1, <2>1 DEF PrefetchReady
  <2>5. QED
    BY <1>4, <2>2, <2>3, <2>4 DEF Idle, Ready
<1>5. QED
  BY <1>3, <1>4

(* Fills wait for room in the write queue below, write-backs there for the *)
(* write queue below that, misses for an MSHR that only a fill frees, and  *)
(* the LLC for room in the manager. With room for one in each buffer and   *)
(* no line that is both code and data, no set of full buffers makes them   *)
(* wait for one another: if neither the manager nor any cache can go on,   *)
(* no queue holds a packet and no miss is in flight.                       *)
THEOREM NothingWaitsForItself == Separate /\ RoomEverywhere => (Spec => []NoWaitCycle)
<1> SUFFICES ASSUME Separate, RoomEverywhere PROVE Spec => []NoWaitCycle
  OBVIOUS
<1>1. ASSUME CacheInv, OwedInv PROVE NoWaitCycle
  <2>1. SUFFICES ASSUME ~ManagerReady, \A c \in Caches : ~Ready(c) PROVE Quiet
    BY DEF NoWaitCycle
  <2>2. TablesInv
    BY <1>1 DEF CacheInv
  <2>3. ManagerHasRoom /\ \A e \in MSHR["LLC"] : e.returned
    BY <1>1, <2>1, <2>2, IdleManager
  <2>4. "LLC" \in Caches /\ Idle("LLC")
    BY <2>1, <2>2, <2>3, CanGoOn, CacheNames
  <2>5. ASSUME NEW u \in Inner, Idle(Lower[u]) PROVE Idle(u)
    <3>1. u \in Caches /\ u # "LLC"
      BY CacheNames
    <3>2. \A e \in MSHR[u] : e.returned
      BY <2>2, <2>5, IdleBelow
    <3>3. QED
      BY <2>1, <2>2, <2>5, <3>1, <3>2, CanGoOn
  <2>6. Lower["L2C"] = "LLC" /\ Lower["L1I"] = "L2C" /\ Lower["L1D"] = "L2C"
    BY DEF Lower
  <2>7. Idle("L2C")
    BY <2>4, <2>5, <2>6, CacheNames
  <2>8. Idle("L1I") /\ Idle("L1D")
    BY <2>5, <2>6, <2>7, CacheNames
  <2>9. QED
    BY <2>4, <2>7, <2>8, CacheNames DEF Quiet
<1>2. Spec => [](CacheInv /\ OwedInv)
  BY OwedInvariant
<1>3. QED
  BY <1>1, <1>2, PTL

(* The caches drive the manager through its interface alone, and only with *)
(* requests for lines of the program: every behaviour of the hierarchy is  *)
(* one of LineService, which the manager of DramCacheManager implements.   *)
THEOREM CachesUseLineService == Spec => Manager!LineSpec
<1>1. Init => Manager!LineInit
  BY DEF Init
<1>2. ASSUME CacheInv, [Next]_vars PROVE [Manager!LineNext]_<<queue, due, waiting>>
  <2>1. ASSUME NEW c \in Caches, Operate(c) PROVE Manager!LineNext \/ UNCHANGED memory
    <3>1. ASSUME NEW l \in Lines, NEW write \in BOOLEAN, ToManager(l, write)
          PROVE  Manager!LineNext
      <4>1. [addr |-> l, isWrite |-> write] \in Manager!Request
        BY DEF Manager!Request
      <4>2. QED
        BY <3>1, <4>1 DEF ToManager, Manager!LineNext
    <3>2. QED
      BY <1>2, <2>1, <3>1, GivesRequests
  <2>2. CASE ManagerStep
    BY <2>2 DEF ManagerStep, Manager!LineNext
  <2>3. CASE (\E c \in Level1 : CoreTakes(c)) \/ Environment \/ UNCHANGED vars
    BY <2>3 DEF CoreTakes, Environment, Fetch, Load, Store, Prefetch, vars, memory
  <2>4. QED
    BY <1>2, <2>1, <2>2, <2>3 DEF Next, System, memory
<1>3. QED
  BY <1>1, <1>2, CacheInvariant, PTL DEF Spec, Manager!LineSpec, Manager!lineVars
=============================================================================
