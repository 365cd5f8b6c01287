--------------------------- MODULE CacheHierarchy ---------------------------
(***************************************************************************)
(* The caches of one core (class CACHE, wired as main() wires them): L1I   *)
(* and L1D over L2C over LLC over the DRAM-cache manager, of which only    *)
(* what it promises (LineService) is seen.                                 *)
(*                                                                         *)
(* An action is one pass of a handler over the oldest entry of a queue,    *)
(* with all the calls it makes: add_rq(), add_wq() or add_pq() of the      *)
(* level below, which may call return_data() of a level above before it    *)
(* comes back.  There is no clock: the head of a queue may be ready at any *)
(* time, and of two misses that were answered either may fill first.       *)
(***************************************************************************)
EXTENDS Integers, Sequences, FiniteSets, Functions, Replacement

CONSTANTS
  CodeLines, DataLines,  (* lines that are fetched, and lines loaded and stored *)
  Words,                 (* words of a line                                     *)
  NumSet, NumWay,        (* by cache                                            *)
  RqSize, WqSize, PqSize, MshrSize,  (* by cache                                *)
  ProcessedSize,
  MemorySize, NumIndices,(* requests the manager has room for, and its indices  *)
  Prefetchers,           (* caches with a prefetcher, and the level it fills    *)
  MaxFetches, MaxLoads, MaxStores, MaxPrefetches  (* bounds of the environment  *)

Caches    == {"L1I", "L1D", "L2C", "LLC"}
Level1    == {"L1I", "L1D"}
Lower     == [c \in {"L1I", "L1D", "L2C"} |-> IF c = "L2C" THEN "LLC" ELSE "L2C"]
FillLevel == [c \in Caches |-> CASE c \in Level1 -> 1 [] c = "L2C" -> 2
                                 [] c = "LLC" -> 4]
Lines     == CodeLines \cup DataLines
Loads     == 1 .. MaxLoads

VARIABLES
  blocks,     (* [cache][set][way]                                        *)
  RQ, WQ, PQ, (* queues of each cache, oldest first                       *)
  MSHR,       (* misses in flight of each cache                           *)
  nextFill,   (* MSHR.next_fill_index: the line to fill next, 0 if none   *)
  PROCESSED,  (* what L1I and L1D hand to the core, oldest first          *)
  fetching,   (* code lines the core waits for                            *)
  loadLine,   (* by load (an LQ index): the line awaited, 0 if none       *)
  sent,       (* how many fetches, loads, stores, prefetches were sent    *)
  queue, due, waiting  (* the manager: see LineService                    *)

memory == <<queue, due, waiting>>
core   == <<PROCESSED, fetching, loadLine, sent>>
vars   == <<blocks, RQ, WQ, PQ, MSHR, nextFill, core, memory>>

Manager == INSTANCE LineService WITH Addr <- Lines, NumLines <- NumIndices

ASSUME CacheAssumption ==
  /\ Lines \subseteq Nat \ {0}
  /\ \A c \in Caches : /\ NumSet[c] \in Nat \ {0} /\ NumWay[c] \in Nat \ {0}
                       /\ {RqSize[c], WqSize[c], PqSize[c], MshrSize[c]} \subseteq Nat
  /\ NumIndices \in Nat \ {0}
  /\ RqSize["L2C"] >= MshrSize["L1I"] + MshrSize["L1D"] /\ RqSize["LLC"] >= MshrSize["L2C"]
  /\ \A f \in Prefetchers : /\ f.cache \in Caches /\ f.fill_level \in {1, 2, 4}
                            /\ f.fill_level >= FillLevel[f.cache]
  /\ {MaxLoads, MaxStores, ProcessedSize} \subseteq Nat

(***************************************************************************)
(* Packets and blocks.                                                     *)
(***************************************************************************)
Packet(l, w, t, lvl, ins, deps) ==
  [line |-> l, word |-> w, type |-> t, fill_level |-> lvl,
   fill_l1i |-> lvl = 1 /\ ins, fill_l1d |-> lvl = 1 /\ ~ins,
   instruction |-> ins, is_data |-> ~ins, deps |-> deps, returned |-> FALSE]

(* The dependences of a copy sent down are never read again. *)
Sent(p) == [p EXCEPT !.deps = {}, !.word = 0]

WritePacket(l, w) == [line |-> l, word |-> w]

get_set(c, l) == l % NumSet[c]

EmptyBlock(age) == [line |-> 0, valid |-> FALSE, dirty |-> FALSE, lru |-> age]

Hits(c, l)  == {w \in 0 .. NumWay[c] - 1 :
                  LET b == blocks[c][get_set(c, l)][w] IN b.valid /\ b.line = l}
check_hit(c, l) == CHOOSE w \in Hits(c, l) : \A v \in Hits(c, l) : w <= v

InMshr(c, l)     == {e \in MSHR[c] : e.line = l}
check_mshr(c, l) == CHOOSE e \in MSHR[c] : e.line = l

(* PACKET_QUEUE::check_queue; the queue L1D_WQ alone compares full addresses. *)
Queued(q, p)       == {i \in DOMAIN q : q[i].line = p.line}
QueuedWrites(c, p) == {i \in Queued(WQ[c], p) : c = "L1D" => WQ[c][i].word = p.word}
First(S)           == CHOOSE i \in S : \A j \in S : i <= j

(* Faulty: only instructions go up from the LLC. *)
Faulty_Uppers(c, p) ==
  {u \in Caches : /\ p.fill_level < FillLevel[c]
                  /\ \/ c = "L2C" /\ u \in Level1 /\ (IF u = "L1I" THEN p.fill_l1i ELSE p.fill_l1d)
                     \/ c = "LLC" /\ u = "L2C" /\ p.instruction}

(* The caches above c that get the data of p from it. *)
Uppers(c, p) ==
  {u \in Caches : /\ p.fill_level < FillLevel[c]
                  /\ \/ c = "L2C" /\ u = "L1I" /\ p.fill_l1i
                     \/ c = "L2C" /\ u = "L1D" /\ p.fill_l1d
                     \/ c = "LLC" /\ u = "L2C" /\ (p.instruction \/ p.is_data)}

(***************************************************************************)
(* Calls between the levels.  m, n and the queues given are those the call *)
(* finds.                                                                  *)
(***************************************************************************)
return_data(us, l, m, n) ==
  /\ MSHR' = [c \in Caches |->
                IF c \in us THEN {IF e.line = l THEN [e EXCEPT !.returned = TRUE]
                                                ELSE e : e \in m[c]}
                            ELSE m[c]]
  /\ \E keep \in BOOLEAN :
       nextFill' = [c \in Caches |-> IF c \in us /\ ~(keep /\ n[c] # 0) THEN l ELSE n[c]]

(* Merging a read or a prefetch with an older entry of the queue. *)
MergedRead(e, p) ==
  [e EXCEPT !.instruction = @ \/ p.instruction, !.is_data = @ \/ ~p.instruction,
            !.fill_l1i = @ \/ p.fill_l1i, !.fill_l1d = @ \/ p.fill_l1d,
            !.deps = @ \cup p.deps]

MergedPrefetch(e, p) ==
  [e EXCEPT !.fill_level = IF p.fill_level < @ THEN p.fill_level ELSE @,
            !.instruction = @ \/ p.instruction, !.is_data = @ \/ p.is_data,
            !.fill_l1i = @ \/ p.fill_l1i, !.fill_l1d = @ \/ p.fill_l1d]

Older(q, p) == q[First(Queued(q, p))]

(* A queue after p was given to it: merged, refused when full, or appended. *)
Added(q, p, size, merged) ==
  IF Queued(q, p) # {} THEN [q EXCEPT ![First(Queued(q, p))] = merged]
  ELSE IF Len(q) = size THEN q
  ELSE Append(q, p)

add_rq(c, p, r, m) ==
  IF QueuedWrites(c, p) # {}
    THEN return_data(Uppers(c, p), p.line, m, nextFill) /\ RQ' = r
    ELSE /\ RQ' = [r EXCEPT ![c] = Added(@, p, RqSize[c], MergedRead(Older(@, p), p))]
         /\ MSHR' = m /\ UNCHANGED nextFill

add_pq(c, p, q, m) ==
  IF QueuedWrites(c, p) # {}
    THEN return_data(Uppers(c, p), p.line, m, nextFill) /\ PQ' = q
    ELSE /\ PQ' = [q EXCEPT ![c] = Added(@, p, PqSize[c], MergedPrefetch(Older(@, p), p))]
         /\ MSHR' = m /\ UNCHANGED nextFill

add_wq(c, p, w) ==
  WQ' = IF QueuedWrites(c, p) # {} THEN w ELSE [w EXCEPT ![c] = Append(@, p)]

ManagerHasRoom == Cardinality(UNION {{i} \X DOMAIN queue[i] : i \in DOMAIN queue}) < MemorySize

ToManager(l, write) ==
  ManagerHasRoom /\ Manager!Accept([addr |-> l, isWrite |-> write])

(* Faulty: the victim is dropped when there is no room below. *)
Faulty_WriteBack(c, victim, w) ==
  IF ~victim.dirty \/ c = "LLC" \/ Len(WQ[Lower[c]]) >= WqSize[Lower[c]]
    THEN WQ' = w /\ UNCHANGED memory
    ELSE add_wq(Lower[c], WritePacket(victim.line, 0), w) /\ UNCHANGED memory

(* A dirty victim goes down first; without room below nothing happens.     *)
WriteBack(c, victim, w) ==
  IF ~victim.dirty THEN WQ' = w /\ UNCHANGED memory
  ELSE IF c = "LLC" THEN ToManager(victim.line, TRUE) /\ WQ' = w
  ELSE /\ Len(WQ[Lower[c]]) < WqSize[Lower[c]]
       /\ add_wq(Lower[c], WritePacket(victim.line, 0), w)
       /\ UNCHANGED memory

(* fill_cache() and the replacement state. *)
Filled(set, way, l, dirty) ==
  lru_update([set EXCEPT ![way] = [@ EXCEPT !.line = l, !.valid = TRUE,
                                            !.dirty = dirty]], way)

ToCore(c, p) ==
  IF c \in Level1 /\ (c = "L1D" => p.type # "prefetch")
                  /\ Len(PROCESSED[c]) < ProcessedSize
    THEN PROCESSED' = [PROCESSED EXCEPT ![c] = Append(@, [line |-> p.line, deps |-> p.deps])]
    ELSE UNCHANGED PROCESSED

(***************************************************************************)
(* handle_fill.                                                            *)
(***************************************************************************)
(* Faulty: update_fill_cycle() is not called after a fill. *)
Faulty_NextFills(m) == {0}

NextFills(m) == LET done == {e.line : e \in {f \in m : f.returned}} IN
                IF done = {} THEN {0} ELSE done

HandleFill(c) ==
  LET e   == check_mshr(c, nextFill[c])
      s   == get_set(c, e.line)
      way == lru_victim(blocks[c][s])
      m   == [MSHR EXCEPT ![c] = @ \ {e}]
  IN /\ nextFill[c] # 0
     /\ WriteBack(c, blocks[c][s][way], WQ)
     /\ blocks' = [blocks EXCEPT ![c][s] =
                     Filled(@, way, e.line, c = "L1D" /\ e.type = "rfo")]
     /\ ToCore(c, e)
     /\ \E n \in NextFills(m[c]) :
          return_data(Uppers(c, e), e.line, m, [nextFill EXCEPT ![c] = n])
     /\ UNCHANGED <<RQ, PQ, fetching, loadLine, sent>>

(***************************************************************************)
(* handle_writeback.  A write packet is never returned to a level above:   *)
(* its fill_level is that of the cache it is sent to.                      *)
(***************************************************************************)
Popped(q, c) == [q EXCEPT ![c] = Tail(@)]

WritebackHit(c) ==
  LET l == Head(WQ[c]).line
      s == get_set(c, l)
      w == check_hit(c, l)
      d == [blocks[c][s] EXCEPT ![w].dirty = TRUE]
  IN /\ WQ[c] # <<>> /\ Hits(c, l) # {}
     /\ blocks' = [blocks EXCEPT ![c][s] = IF c = "L1D" THEN lru_update(d, w) ELSE d]
     /\ WQ' = Popped(WQ, c)
     /\ UNCHANGED <<RQ, PQ, MSHR, nextFill, core, memory>>

StorePacket(l) == Packet(l, 0, "rfo", 1, FALSE, {})

StoreMiss ==
  LET l == Head(WQ["L1D"]).line
  IN /\ WQ["L1D"] # <<>> /\ Hits("L1D", l) = {} /\ InMshr("L1D", l) = {}
     /\ Cardinality(MSHR["L1D"]) < MshrSize["L1D"]
     /\ add_rq("L2C", StorePacket(l), RQ,
               [MSHR EXCEPT !["L1D"] = @ \cup {StorePacket(l)}])
     /\ WQ' = Popped(WQ, "L1D")
     /\ UNCHANGED <<blocks, PQ, core, memory>>

(* Faulty: the level to fill stays that of the prefetch. *)
Faulty_Replaced(e, p) == [p EXCEPT !.returned = e.returned, !.fill_level = e.fill_level]

(* The entry a packet leaves behind that joins a miss in flight: that of a *)
(* prefetch is replaced by the packet itself.                              *)
Replaced(e, p) == [p EXCEPT !.returned = e.returned]
StoreMerge ==
  LET l == Head(WQ["L1D"]).line
      e == check_mshr("L1D", l)
  IN /\ WQ["L1D"] # <<>> /\ Hits("L1D", l) = {} /\ InMshr("L1D", l) # {}
     /\ MSHR' = [MSHR EXCEPT !["L1D"] =
                   (@ \ {e}) \cup {IF e.type = "prefetch" THEN Replaced(e, StorePacket(l))
                                   ELSE [e EXCEPT !.fill_level = 1, !.fill_l1d = TRUE]}]
     /\ WQ' = Popped(WQ, "L1D")
     /\ UNCHANGED <<blocks, RQ, PQ, nextFill, core, memory>>

WritebackMiss(c) ==
  LET l   == Head(WQ[c]).line
      s   == get_set(c, l)
      way == lru_victim(blocks[c][s])
  IN /\ c # "L1D" /\ WQ[c] # <<>> /\ Hits(c, l) = {}
     /\ WriteBack(c, blocks[c][s][way], Popped(WQ, c))
     /\ blocks' = [blocks EXCEPT ![c][s] = Filled(@, way, l, TRUE)]
     /\ UNCHANGED <<RQ, PQ, MSHR, nextFill, core>>

HandleWriteback(c) == \/ WritebackHit(c) \/ WritebackMiss(c)
                      \/ c = "L1D" /\ (StoreMiss \/ StoreMerge)

(***************************************************************************)
(* handle_read.                                                            *)
(***************************************************************************)
Used(c, l) == [blocks EXCEPT ![c][get_set(c, l)] = lru_update(@, check_hit(c, l))]

ReadHit(c) ==
  LET p == Head(RQ[c])
  IN /\ RQ[c] # <<>> /\ Hits(c, p.line) # {}
     /\ blocks' = Used(c, p.line)
     /\ ToCore(c, p)
     /\ return_data(Uppers(c, p), p.line, MSHR, nextFill)
     /\ RQ' = Popped(RQ, c)
     /\ UNCHANGED <<WQ, PQ, fetching, loadLine, sent, memory>>

(* Faulty: the MSHR is not looked up, or not asked for room. *)
FaultyDuplicate_NewMiss(c, l) == Hits(c, l) = {} /\ Cardinality(MSHR[c]) < MshrSize[c]
FaultyUnbounded_NewMiss(c, l) == Hits(c, l) = {} /\ InMshr(c, l) = {}

NewMiss(c, l) == /\ Hits(c, l) = {} /\ InMshr(c, l) = {}
                 /\ Cardinality(MSHR[c]) < MshrSize[c]

ReadMiss(c) ==
  LET p == Head(RQ[c])
      m == [MSHR EXCEPT ![c] = @ \cup {p}]
  IN /\ RQ[c] # <<>> /\ NewMiss(c, p.line)
     /\ \/ /\ c = "LLC" /\ ToManager(p.line, FALSE)
           /\ RQ' = Popped(RQ, c) /\ MSHR' = m /\ UNCHANGED nextFill
        \/ /\ c # "LLC" /\ add_rq(Lower[c], Sent(p), Popped(RQ, c), m)
           /\ UNCHANGED memory
     /\ UNCHANGED <<blocks, WQ, PQ, core>>

(* Faulty: the loads that depend on the packet are forgotten. *)
Faulty_JoinedByRead(e, p) ==
  IF e.type = "prefetch" THEN Replaced(e, p)
  ELSE [e EXCEPT !.fill_level = IF p.fill_level < @ THEN p.fill_level ELSE @,
                 !.instruction = @ \/ p.instruction, !.is_data = @ \/ ~p.instruction,
                 !.fill_l1i = @ \/ p.fill_l1i, !.fill_l1d = @ \/ p.fill_l1d]

JoinedByRead(e, p) ==
  IF e.type = "prefetch" THEN Replaced(e, p)
  ELSE [IF p.type = "rfo" THEN e
        ELSE [e EXCEPT !.instruction = @ \/ p.instruction, !.is_data = @ \/ ~p.instruction]
        EXCEPT !.fill_level = IF p.fill_level < @ THEN p.fill_level ELSE @,
               !.fill_l1i = @ \/ p.fill_l1i, !.fill_l1d = @ \/ p.fill_l1d,
               !.deps = @ \cup p.deps]

ReadMerge(c) ==
  LET p == Head(RQ[c])
      e == check_mshr(c, p.line)
  IN /\ RQ[c] # <<>> /\ Hits(c, p.line) = {} /\ InMshr(c, p.line) # {}
     /\ MSHR' = [MSHR EXCEPT ![c] = (@ \ {e}) \cup {JoinedByRead(e, p)}]
     /\ RQ' = Popped(RQ, c)
     /\ UNCHANGED <<blocks, WQ, PQ, nextFill, core, memory>>

HandleRead(c) == ReadHit(c) \/ ReadMiss(c) \/ ReadMerge(c)

(***************************************************************************)
(* handle_prefetch.                                                        *)
(***************************************************************************)
PrefetchHit(c) ==
  LET p == Head(PQ[c])
  IN /\ PQ[c] # <<>> /\ Hits(c, p.line) # {}
     /\ blocks' = Used(c, p.line)
     /\ return_data(Uppers(c, p), p.line, MSHR, nextFill)
     /\ PQ' = Popped(PQ, c)
     /\ UNCHANGED <<RQ, WQ, core, memory>>

(* A prefetch for a lower level only passes through. *)
PrefetchMiss(c) ==
  LET p == Head(PQ[c])
      m == IF p.fill_level <= FillLevel[c] THEN [MSHR EXCEPT ![c] = @ \cup {p}] ELSE MSHR
  IN /\ PQ[c] # <<>> /\ NewMiss(c, p.line)
     /\ \/ /\ c = "LLC" /\ ToManager(p.line, FALSE)
           /\ PQ' = Popped(PQ, c) /\ MSHR' = m /\ UNCHANGED nextFill
        \/ /\ c # "LLC" /\ Len(PQ[Lower[c]]) < PqSize[Lower[c]]
           /\ add_pq(Lower[c], Sent(p), Popped(PQ, c), m)
           /\ UNCHANGED memory
     /\ UNCHANGED <<blocks, RQ, WQ, core>>

PrefetchMerge(c) ==
  LET p == Head(PQ[c])
      e == check_mshr(c, p.line)
      j == [e EXCEPT !.fill_level = IF p.fill_level < @ THEN p.fill_level ELSE @,
                     !.fill_l1i = @ \/ p.fill_l1i, !.fill_l1d = @ \/ p.fill_l1d]
  IN /\ PQ[c] # <<>> /\ Hits(c, p.line) = {} /\ InMshr(c, p.line) # {}
     /\ MSHR' = [MSHR EXCEPT ![c] = (@ \ {e}) \cup {j}]
     /\ PQ' = Popped(PQ, c)
     /\ UNCHANGED <<blocks, RQ, WQ, nextFill, core, memory>>

HandlePrefetch(c) == PrefetchHit(c) \/ PrefetchMiss(c) \/ PrefetchMerge(c)

(***************************************************************************)
(* The manager serves a request; a read it answers goes to the LLC.        *)
(***************************************************************************)
ManagerStep ==
  /\ Manager!Answer \/ \E i \in 0 .. NumIndices - 1 : Manager!Serve(i)
  /\ LET answered == {l \in Lines : waiting'[l] < waiting[l]} IN
     IF answered = {} THEN UNCHANGED <<MSHR, nextFill>>
     ELSE return_data({"LLC"}, CHOOSE l \in answered : TRUE, MSHR, nextFill)
  /\ UNCHANGED <<blocks, RQ, WQ, PQ, core>>

(***************************************************************************)
(* The core and the prefetchers.  A request add_rq() refuses is sent again *)
(* later, and a store leaves the core only when the L1D's WQ has room.     *)
(***************************************************************************)
Count(k) == sent' = [sent EXCEPT ![k] = @ + 1]

HasRoom(c, p) == Queued(RQ[c], p) # {} \/ Len(RQ[c]) < RqSize[c]

Fetch(l) ==
  LET p == Packet(l, 0, "load", 1, TRUE, {})
  IN /\ sent.fetches < MaxFetches /\ HasRoom("L1I", p)
     /\ add_rq("L1I", p, RQ, MSHR)
     /\ fetching' = fetching \cup {l} /\ Count("fetches")
     /\ UNCHANGED <<blocks, WQ, PQ, PROCESSED, loadLine, memory>>

Load(l, w) ==
  LET i == sent.loads + 1
      p == Packet(l, w, "load", 1, FALSE, {i})
  IN /\ i <= MaxLoads
     /\ IF QueuedWrites("L1D", p) # {} THEN ToCore("L1D", p)
                                       ELSE HasRoom("L1D", p) /\ UNCHANGED PROCESSED
     /\ add_rq("L1D", p, RQ, MSHR)
     /\ loadLine' = [loadLine EXCEPT ![i] = l] /\ Count("loads")
     /\ UNCHANGED <<blocks, WQ, PQ, fetching, memory>>

Store(l, w) ==
  /\ sent.stores < MaxStores /\ Len(WQ["L1D"]) < WqSize["L1D"]
  /\ add_wq("L1D", WritePacket(l, w), WQ) /\ Count("stores")
  /\ UNCHANGED <<blocks, RQ, PQ, MSHR, nextFill, PROCESSED, fetching, loadLine, memory>>

(* prefetch_line() and prefetch_code_line(), for c itself or for the LLC.  *)
Prefetch(c, l, lvl) ==
  /\ sent.prefetches < MaxPrefetches /\ Len(PQ[c]) < PqSize[c]
  /\ add_pq(c, Packet(l, 0, "prefetch", lvl, c = "L1I", {}), PQ, MSHR)
  /\ Count("prefetches")
  /\ UNCHANGED <<blocks, RQ, WQ, PROCESSED, fetching, loadLine, memory>>

CoreTakes(c) ==
  /\ PROCESSED[c] # <<>>
  /\ LET d == Head(PROCESSED[c]) IN
     /\ fetching' = IF c = "L1I" THEN fetching \ {d.line} ELSE fetching
     /\ loadLine' = [i \in Loads |-> IF i \in d.deps THEN 0 ELSE loadLine[i]]
  /\ PROCESSED' = Popped(PROCESSED, c)
  /\ UNCHANGED <<blocks, RQ, WQ, PQ, MSHR, nextFill, sent, memory>>

Environment ==
  \/ \E l \in CodeLines : Fetch(l)
  \/ \E l \in DataLines, w \in Words : Load(l, w) \/ Store(l, w)
  \/ \E f \in Prefetchers, l \in Lines :
       /\ f.cache = "L1I" => l \in CodeLines
       /\ f.cache = "L1D" => l \in DataLines
       /\ Prefetch(f.cache, l, f.fill_level)

Init ==
  /\ blocks = [c \in Caches |-> [s \in 0 .. NumSet[c] - 1 |->
                                   [w \in 0 .. NumWay[c] - 1 |-> EmptyBlock(w)]]]
  /\ RQ = [c \in Caches |-> <<>>]
  /\ WQ = [c \in Caches |-> <<>>]
  /\ PQ = [c \in Caches |-> <<>>]
  /\ MSHR = [c \in Caches |-> {}]
  /\ nextFill = [c \in Caches |-> 0]
  /\ PROCESSED = [c \in Level1 |-> <<>>]
  /\ fetching = {}
  /\ loadLine = [i \in Loads |-> 0]
  /\ sent = [fetches |-> 0, loads |-> 0, stores |-> 0, prefetches |-> 0]
  /\ Manager!LineInit

Operate(c) == HandleFill(c) \/ HandleWriteback(c) \/ HandleRead(c) \/ HandlePrefetch(c)

System == \/ \E c \in Caches : Operate(c)
          \/ \E c \in Level1 : CoreTakes(c)
          \/ ManagerStep

Next == System \/ Environment

Spec == Init /\ [][Next]_vars

(* main() never stops to operate the caches, the manager and the core. *)
FairSpec == Spec /\ WF_vars(System)
=============================================================================
