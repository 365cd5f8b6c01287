----------------------------- MODULE PageTable -----------------------------
(***************************************************************************)
(* Virtual pages and physical frames: va_to_pa() with its two maps, and    *)
(* the data side's translation caches above it, DTLB over STLB, which are  *)
(* two more instances of class CACHE.  Code is translated by va_to_pa()    *)
(* itself, past the TLBs.                                                  *)
(*                                                                         *)
(* A translation is under way for some time: the STLB walks the table when *)
(* it misses and fills LATENCY cycles later, the DTLB fills after that.    *)
(***************************************************************************)
EXTENDS Integers, Sequences, FiniteSets, Functions

CONSTANTS
  Pages,         (* virtual pages                                            *)
  DRAM_PAGES,    (* frames that are allocated before pages are swapped       *)
  Draws,         (* frames draw_rand() may give                              *)
  Runs,          (* lengths of a run of adjacent frames, 1 << (rand() % 10)  *)
  TlbSize, MshrSize,  (* by TLB                                              *)
  RqSize,        (* of the DTLB; that of the STLB exceeds the DTLB's MSHRs   *)
  MaxAccesses, MaxCode  (* bounds: translations asked for data and code      *)

VARIABLES
  page_table,    (* from the mapped pages to their frames                    *)
  inverse_table, (* from the allocated frames to their pages                 *)
  previous_ppage, num_adjacent_page, allocated_pages,
  block,         (* by TLB: from the pages it holds to frames                *)
  RQ,            (* by TLB: pages to translate, oldest first                 *)
  MSHR,          (* by TLB: from the pages missed to frames, 0 until the     *)
                 (* lower level has answered                                 *)
  waiting,       (* pages whose translation the core waits for               *)
  overtaken,     (* history: pages swapped out with a translation under way  *)
  accesses       (* how many translations were asked for, by data and code   *)

tables == <<page_table, inverse_table, previous_ppage, num_adjacent_page, allocated_pages>>
tlbs   == <<block, RQ, MSHR, waiting>>
vars   == <<tables, tlbs, overtaken, accesses>>

TLBs == {"DTLB", "STLB"}

ASSUME PageAssumption ==
  /\ Pages \subseteq Nat \ {0}
  /\ DRAM_PAGES \in Nat \ {0}
  /\ Draws \subseteq Nat \ {0}
  /\ Runs \subseteq Nat \ {0}
  /\ \A t \in TLBs : TlbSize[t] \in Nat \ {0} /\ MshrSize[t] \in Nat \ {0}
  /\ MaxAccesses \in Nat /\ MaxCode \in Nat

Nothing       == [x \in {} |-> 0]
Without(f, x) == Restrict(f, DOMAIN f \ {x})
With(f, x, y) == [z \in DOMAIN f \cup {x} |-> IF z = x THEN y ELSE f[z]]

(***************************************************************************)
(* va_to_pa.                                                               *)
(***************************************************************************)
Mapped(v) == v \in DOMAIN page_table
Free(f)   == f \notin DOMAIN inverse_table

(* Faulty: the next frame of a run is taken to be free. *)
Faulty_NewFrame(f, fragmented) ==
  IF num_adjacent_page > 0
    THEN f = previous_ppage + 1 /\ ~fragmented
    ELSE f \in Draws /\ Free(f) /\ fragmented

(* The frame a new page gets, and whether the run of adjacent frames was   *)
(* broken: draw again until a frame is free.                               *)
NewFrame(f, fragmented) ==
  IF num_adjacent_page > 0 /\ Free(previous_ppage + 1)
    THEN f = previous_ppage + 1 /\ ~fragmented
    ELSE f \in Draws /\ Free(f) /\ fragmented

Allocate(v) ==
  /\ allocated_pages < DRAM_PAGES
  /\ \E f \in Draws \cup {previous_ppage + 1}, fragmented \in BOOLEAN :
       /\ NewFrame(f, fragmented)
       /\ page_table' = With(page_table, v, f)
       /\ inverse_table' = With(inverse_table, f, v)
       /\ previous_ppage' = f
       /\ IF fragmented THEN num_adjacent_page' \in Runs
                        ELSE num_adjacent_page' = num_adjacent_page - 1
  /\ allocated_pages' = allocated_pages + 1
  /\ UNCHANGED overtaken

(* recent_page is never filled: the victim is the first page of the map.   *)
NRU_vpage == CHOOSE v \in DOMAIN page_table : \A u \in DOMAIN page_table : v <= u

(* Faulty: the STLB is left out. *)
Faulty_invalidate_entry(b, v) == [b EXCEPT !["DTLB"] = Without(@, v)]
invalidate_entry(b, v) == [t \in TLBs |-> Without(b[t], v)]

(* Faulty: the page that loses its frame stays in the map. *)
Faulty_Exchanged(v, f) == With(page_table, v, f)
Exchanged(v, f) == With(Without(page_table, NRU_vpage), v, f)

UnderWay(v) == \E t \in TLBs : v \in DOMAIN MSHR[t] /\ MSHR[t][v] # 0

Swap(v) ==
  /\ allocated_pages >= DRAM_PAGES
  /\ LET f == page_table[NRU_vpage] IN
     /\ page_table' = Exchanged(v, f)
     /\ inverse_table' = With(inverse_table, f, v)
     /\ overtaken' = IF UnderWay(NRU_vpage) THEN overtaken \cup {NRU_vpage}
                                            ELSE overtaken \ {NRU_vpage}
  /\ UNCHANGED <<previous_ppage, num_adjacent_page, allocated_pages>>

va_to_pa(v) == IF Mapped(v) THEN UNCHANGED <<tables, overtaken>>
                            ELSE Allocate(v) \/ Swap(v)

(* The blocks the TLBs keep through va_to_pa(v). *)
BlocksKept(v) == IF ~Mapped(v) /\ allocated_pages >= DRAM_PAGES
                   THEN invalidate_entry(block, NRU_vpage) ELSE block

(***************************************************************************)
(* The TLBs.                                                               *)
(***************************************************************************)
(* Faulty: what does not fit is dropped. *)
Faulty_Added(q, v) == IF q = <<>> THEN <<v>> ELSE q
Added(q, v) == IF \E i \in DOMAIN q : q[i] = v THEN q ELSE Append(q, v)

(* Faulty: nothing is evicted. *)
Faulty_Filled(b, size, v, f) == {With(b, v, f)}

(* fill_cache(), over any block of a full set. *)
Filled(b, size, v, f) ==
  IF Cardinality(DOMAIN b) < size THEN {With(b, v, f)}
  ELSE {With(Without(b, u), v, f) : u \in DOMAIN b}

ReadHit(t) ==
  LET v == Head(RQ[t])
  IN /\ RQ[t] # <<>> /\ v \in DOMAIN block[t]
     /\ RQ' = [RQ EXCEPT ![t] = Tail(@)]
     /\ IF t = "DTLB" THEN waiting' = waiting \ {v} /\ UNCHANGED MSHR
        ELSE /\ MSHR' = [MSHR EXCEPT !["DTLB"][v] = block[t][v]]
             /\ UNCHANGED waiting
     /\ UNCHANGED <<tables, block, overtaken, accesses>>

NewMiss(t, v) == /\ v \notin DOMAIN block[t] /\ v \notin DOMAIN MSHR[t]
                 /\ Cardinality(DOMAIN MSHR[t]) < MshrSize[t]

Miss ==
  LET v == Head(RQ["DTLB"])
  IN /\ RQ["DTLB"] # <<>> /\ NewMiss("DTLB", v)
     /\ RQ' = [DTLB |-> Tail(RQ["DTLB"]), STLB |-> Added(RQ["STLB"], v)]
     /\ MSHR' = [MSHR EXCEPT !["DTLB"] = With(@, v, 0)]
     /\ UNCHANGED <<tables, block, waiting, overtaken, accesses>>

(* The walk answers the STLB's own miss at once; the fill comes later. *)
Walk ==
  LET v == Head(RQ["STLB"])
  IN /\ RQ["STLB"] # <<>> /\ NewMiss("STLB", v)
     /\ va_to_pa(v)
     /\ block' = BlocksKept(v)
     /\ MSHR' = [MSHR EXCEPT !["STLB"] = With(@, v, page_table'[v])]
     /\ RQ' = [RQ EXCEPT !["STLB"] = Tail(@)]
     /\ UNCHANGED <<waiting, accesses>>

(* A later request joins the miss in flight. *)
ReadMerge(t) ==
  LET v == Head(RQ[t])
  IN /\ RQ[t] # <<>> /\ v \notin DOMAIN block[t] /\ v \in DOMAIN MSHR[t]
     /\ RQ' = [RQ EXCEPT ![t] = Tail(@)]
     /\ UNCHANGED <<tables, block, MSHR, waiting, overtaken, accesses>>

Fill(t, v) ==
  /\ v \in DOMAIN MSHR[t] /\ MSHR[t][v] # 0
  /\ \E b \in Filled(block[t], TlbSize[t], v, MSHR[t][v]) : block' = [block EXCEPT ![t] = b]
  /\ IF t = "DTLB"
       THEN /\ MSHR' = [MSHR EXCEPT ![t] = Without(@, v)]
            /\ waiting' = waiting \ {v}
       ELSE /\ MSHR' = [STLB |-> Without(MSHR[t], v),
                        DTLB |-> [MSHR["DTLB"] EXCEPT ![v] = MSHR[t][v]]]
            /\ UNCHANGED waiting
  /\ UNCHANGED <<tables, RQ, overtaken, accesses>>

(***************************************************************************)
(* The core.                                                               *)
(***************************************************************************)
(* A load or store sends its page to the DTLB. *)
Access(v) ==
  /\ accesses.data < MaxAccesses /\ accesses' = [accesses EXCEPT !.data = @ + 1]
  /\ RQ' = [RQ EXCEPT !["DTLB"] = Added(@, v)] /\ Len(RQ'["DTLB"]) <= RqSize
  /\ waiting' = waiting \cup {v}
  /\ UNCHANGED <<tables, block, MSHR, overtaken>>

(* "magically translate instructions" and code prefetches *)
TranslateCode(v) ==
  /\ accesses.code < MaxCode /\ accesses' = [accesses EXCEPT !.code = @ + 1]
  /\ va_to_pa(v)
  /\ block' = BlocksKept(v)
  /\ UNCHANGED <<RQ, MSHR, waiting>>

Init ==
  /\ page_table = Nothing /\ inverse_table = Nothing
  /\ previous_ppage = 0 /\ num_adjacent_page = 0 /\ allocated_pages = 0
  /\ block = [t \in TLBs |-> Nothing]
  /\ RQ = [t \in TLBs |-> <<>>]
  /\ MSHR = [t \in TLBs |-> Nothing]
  /\ waiting = {} /\ overtaken = {} /\ accesses = [data |-> 0, code |-> 0]

Operate == \/ Miss \/ Walk
           \/ \E t \in TLBs : ReadHit(t) \/ ReadMerge(t) \/ \E v \in Pages : Fill(t, v)

Program == \E v \in Pages : Access(v) \/ TranslateCode(v)

Next == Operate \/ Program

Spec == Init /\ [][Next]_vars

(* The core operates its TLBs in every cycle. *)
FairSpec == Spec /\ WF_vars(Operate)
=============================================================================
