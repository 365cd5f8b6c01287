--------------------------- MODULE CacheProperties ---------------------------
(***************************************************************************)
(* What the caches must keep true.                                         *)
(***************************************************************************)
EXTENDS CacheHierarchy

Types == {"load", "rfo", "prefetch"}

PacketOK(p) ==
  /\ p.line \in Lines /\ p.word \in Words \cup {0} /\ p.type \in Types
  /\ p.fill_level \in {1, 2, 4} /\ p.deps \subseteq Loads
  /\ {p.fill_l1i, p.fill_l1d, p.instruction, p.is_data, p.returned} \subseteq BOOLEAN

(* Every queue within its size, every entry a packet. *)
TypeOK ==
  /\ \A c \in Caches :
       /\ Len(RQ[c]) <= RqSize[c] /\ \A i \in DOMAIN RQ[c] : PacketOK(RQ[c][i])
       /\ Len(PQ[c]) <= PqSize[c] /\ \A i \in DOMAIN PQ[c] : PacketOK(PQ[c][i])
       /\ Len(WQ[c]) <= WqSize[c] /\ \A i \in DOMAIN WQ[c] : WQ[c][i].line \in Lines
       /\ Cardinality(MSHR[c]) <= MshrSize[c] /\ \A e \in MSHR[c] : PacketOK(e)
       /\ nextFill[c] \in Lines \cup {0}
  /\ fetching \subseteq CodeLines
  /\ loadLine \in [Loads -> DataLines \cup {0}]

(* How many requests below cache u will call its return_data() for line l. *)
AnswersDue(u, l) ==
  IF u = "LLC" THEN waiting[l]
  ELSE LET d == Lower[u]
           mine(p) == p.line = l /\ u \in Uppers(d, p) IN
       Cardinality({i \in DOMAIN RQ[d] : mine(RQ[d][i])})
       + Cardinality({i \in DOMAIN PQ[d] : mine(PQ[d][i])})
       + Cardinality({e \in MSHR[d] : mine(e) })

(* A miss that was not answered yet has exactly one request below that     *)
(* will answer it, and there is no other answer: return_data() always      *)
(* finds its entry (its assertion), and no merge, full queue or forwarding *)
(* loses the wish of one of the levels above.                              *)
OneAnswerPerMiss ==
  \A u \in Caches, l \in Lines :
    AnswersDue(u, l) = Cardinality({e \in MSHR[u] : e.line = l /\ ~e.returned})

(* The entry to fill next is an answered miss, and there is one whenever   *)
(* any miss was answered: handle_fill() looks at next_fill_index only.     *)
NextFillIsDue ==
  \A c \in Caches :
    IF nextFill[c] = 0 THEN \A e \in MSHR[c] : ~e.returned
                       ELSE \E e \in MSHR[c] : e.line = nextFill[c] /\ e.returned

(* A load the core waits for is in one place: the L1D's read queue, one of *)
(* its misses, or its answer; and nothing else is answered to the core.    *)
Holders(i) ==
  Cardinality({k \in DOMAIN RQ["L1D"] : i \in RQ["L1D"][k].deps})
  + Cardinality({e \in MSHR["L1D"] : i \in e.deps})
  + Cardinality({k \in DOMAIN PROCESSED["L1D"] : i \in PROCESSED["L1D"][k].deps})

LoadsConserved ==
  \A i \in Loads : Holders(i) = IF loadLine[i] = 0 THEN 0 ELSE 1

(* A first-level cache holds a line once, and not while it misses on it.   *)
FilledOnce ==
  \A c \in Level1, l \in Lines :
    Cardinality(Hits(c, l)) + Cardinality(InMshr(c, l)) <= 1

(* The ages of each set stay a permutation. *)
LruStacks ==
  \A c \in Caches : \A s \in DOMAIN blocks[c] : IsLruStack(blocks[c][s])

(* Where the caches hold the newest data of a line. *)
Dirty(l) ==
  \/ \E c \in Caches : \E s \in DOMAIN blocks[c] : \E w \in DOMAIN blocks[c][s] :
       blocks[c][s][w].dirty /\ blocks[c][s][w].line = l
  \/ \E c \in {"L2C", "LLC"} : \E i \in DOMAIN WQ[c] : WQ[c][i].line = l

WritesAccepted(l) ==
  Cardinality({i \in DOMAIN queue[l % NumIndices] :
                 queue[l % NumIndices][i] = [addr |-> l, isWrite |-> TRUE]})

(* Dirty data leaves the caches only by being accepted by the manager: no  *)
(* eviction, merge or full queue on the way down drops it.                 *)
DirtyKept ==
  \A l \in Lines : Dirty(l) => Dirty(l)' \/ WritesAccepted(l)' > WritesAccepted(l)

DirtyDataKept == [][DirtyKept]_vars

(* A store the L1D takes from its write queue leaves its line dirty, or to *)
(* be filled dirty ("RFO marks cache line dirty").                         *)
StoresReachLine ==
  [][WQ["L1D"] # <<>> /\ WQ'["L1D"] = Tail(WQ["L1D"]) =>
       LET l == Head(WQ["L1D"]).line IN
       \/ \E s \in DOMAIN blocks["L1D"] : \E w \in DOMAIN blocks["L1D"][s] :
            blocks'["L1D"][s][w].line = l /\ blocks'["L1D"][s][w].dirty
       \/ \E e \in MSHR'["L1D"] : e.line = l /\ e.type = "rfo"]_vars

(* When the handlers of c can go on: the conditions under which they leave *)
(* their queue as it is and return.                                        *)
VictimLeaves(c, l) ==
  LET set == blocks[c][get_set(c, l)] IN
  set[lru_victim(set)].dirty => IF c = "LLC" THEN ManagerHasRoom
                                             ELSE Len(WQ[Lower[c]]) < WqSize[Lower[c]]

Known(c, l)      == Hits(c, l) # {} \/ InMshr(c, l) # {}
MissStarts(c, l) == Cardinality(MSHR[c]) < MshrSize[c] /\ (c = "LLC" => ManagerHasRoom)

FillReady(c)  == nextFill[c] # 0 /\ VictimLeaves(c, nextFill[c])
WriteReady(c) == /\ WQ[c] # <<>>
                 /\ LET l == Head(WQ[c]).line IN
                    \/ Hits(c, l) # {}
                    \/ IF c = "L1D" THEN Known(c, l) \/ MissStarts(c, l) ELSE VictimLeaves(c, l)
ReadReady(c)  == /\ RQ[c] # <<>>
                 /\ Known(c, Head(RQ[c]).line) \/ MissStarts(c, Head(RQ[c]).line)
PrefetchReady(c) ==
  /\ PQ[c] # <<>>
  /\ \/ Known(c, Head(PQ[c]).line)
     \/ /\ MissStarts(c, Head(PQ[c]).line)
        /\ c # "LLC" => Len(PQ[Lower[c]]) < PqSize[Lower[c]]

Ready(c)     == FillReady(c) \/ WriteReady(c) \/ ReadReady(c) \/ PrefetchReady(c)
ManagerReady == due # <<>> \/ \E i \in 0 .. NumIndices - 1 : queue[i] # <<>>

(* Nothing waits for itself: while a queue holds a packet or a miss is in  *)
(* flight, some cache or the manager can go on, whatever is full.          *)
Idle(c)     == RQ[c] = <<>> /\ WQ[c] = <<>> /\ PQ[c] = <<>> /\ MSHR[c] = {}
Quiet       == \A c \in Caches : Idle(c)
NoWaitCycle == Quiet \/ ManagerReady \/ \E c \in Caches : Ready(c)

(* Each fetch and each load is answered, every miss ends and every queue   *)
(* drains.                                                                 *)
Drains == <>[](Quiet /\ fetching = {} /\ \A i \in Loads : loadLine[i] = 0)
=============================================================================
