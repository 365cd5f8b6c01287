---------------------------- MODULE Replacement ----------------------------
(***************************************************************************)
(* The baseline replacement policy (base_replacement.cc): a set is a       *)
(* function from ways 0 .. n-1 to blocks, and the field lru of a block is  *)
(* its age in the set.  fill_cache() and the callers keep all the other    *)
(* fields.                                                                 *)
(***************************************************************************)
EXTENDS Integers, FiniteSets

Ways(set) == DOMAIN set

(* The first invalid way, else the oldest block. *)
lru_victim(set) ==
  LET invalid == {w \in Ways(set) : ~set[w].valid} IN
  IF invalid # {}
    THEN CHOOSE w \in invalid : \A v \in invalid : w <= v
    ELSE CHOOSE w \in Ways(set) : set[w].lru = Cardinality(Ways(set)) - 1

(* Faulty: every other block ages, the older ones too. *)
Faulty_lru_update(set, way) ==
  [w \in Ways(set) |->
     [set[w] EXCEPT !.lru = IF w = way THEN 0
                            ELSE @ + 1]]

(* Blocks younger than the one used age by one, which becomes the youngest. *)
lru_update(set, way) ==
  [w \in Ways(set) |->
     [set[w] EXCEPT !.lru = IF w = way THEN 0
                            ELSE IF @ < set[way].lru THEN @ + 1 ELSE @]]

(* The ages of a set are 0 .. n-1, each once: lru_victim() always finds a  *)
(* block and its assertion "no victim!" never fires.                       *)
IsLruStack(set) ==
  /\ \A w \in Ways(set) : set[w].lru \in 0 .. Cardinality(Ways(set)) - 1
  /\ \A v, w \in Ways(set) : set[v].lru = set[w].lru => v = w
=============================================================================
