--------------------------- MODULE PageProperties ---------------------------
(***************************************************************************)
(* What the page table and the TLBs must keep true.                        *)
(***************************************************************************)
EXTENDS PageTable

(* The maps go from pages to frames and back, each TLB holds pages within  *)
(* its size, and the run of adjacent frames never counts below zero, where *)
(* its 64 bits would wrap.                                                 *)
TypeOK ==
  /\ DOMAIN page_table \subseteq Pages
  /\ \A v \in DOMAIN page_table : page_table[v] \in Nat \ {0}
  /\ DOMAIN inverse_table \subseteq Nat \ {0}
  /\ \A f \in DOMAIN inverse_table : inverse_table[f] \in Pages
  /\ {previous_ppage, num_adjacent_page, allocated_pages} \subseteq Nat
  /\ \A t \in TLBs :
       /\ DOMAIN block[t] \subseteq Pages /\ Cardinality(DOMAIN block[t]) <= TlbSize[t]
       /\ DOMAIN MSHR[t] \subseteq Pages /\ Cardinality(DOMAIN MSHR[t]) <= MshrSize[t]
  /\ waiting \subseteq Pages

(* The two maps stay inverse to each other through allocation, collisions  *)
(* and swaps: no two pages share a frame, and no frame is lost.            *)
TablesInverse ==
  /\ \A v \in DOMAIN page_table :
       page_table[v] \in DOMAIN inverse_table /\ inverse_table[page_table[v]] = v
  /\ \A f \in DOMAIN inverse_table :
       inverse_table[f] \in DOMAIN page_table /\ page_table[inverse_table[f]] = f

(* allocated_pages is the number of mapped pages and never exceeds memory. *)
WithinMemory ==
  /\ allocated_pages = Cardinality(DOMAIN page_table)
  /\ allocated_pages <= DRAM_PAGES

Fresh(t, v) == Mapped(v) /\ block[t][v] = page_table[v]

(* A TLB is wrong about a page only if the page was swapped out while its  *)
(* translation was under way in a miss, which the swap does not touch.     *)
StaleOnlyIfOvertaken ==
  \A t \in TLBs : \A v \in DOMAIN block[t] : Fresh(t, v) \/ v \in overtaken

(* "invalidate corresponding vpage and ppage from the cache hierarchy"     *)
TranslationsFresh == \A t \in TLBs : \A v \in DOMAIN block[t] : Fresh(t, v)

(* Every translation arrives: when the program stops asking for more, the  *)
(* core waits for none.                                                    *)
TranslationsArrive == <>[](waiting = {})
=============================================================================
