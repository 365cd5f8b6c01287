------------------------ MODULE ControllerProperties ------------------------
(***************************************************************************)
(* What MEMORY_CONTROLLER must keep true while the bus changes direction,  *)
(* requests arrive from inside return_data() and cached indices are used.  *)
(***************************************************************************)
EXTENDS MemoryController

Queued(d)   == {s \in Slots(d) : queue[d][s].addr # 0}
Started(d)  == {s \in Slots(d) : queue[d][s].sched}
OnBank(d, s) == dram_get_bank(queue[d][s].addr)

Slot == [addr : Addr \cup {0}, sched : BOOLEAN, event : Int]
Bank == [working : BOOLEAN, slot : Nat, dir : Dirs \cup {"none"},
         row : Nat \cup {NoRow}, avail : Int]

(* Every variable stays within its type (the members of                    *)
(* MEMORY_CONTROLLER).                                                     *)
TypeOK ==
  /\ \A d \in Dirs : queue[d] \in [Slots(d) -> Slot]
  /\ \A d \in Dirs : /\ nextSched[d] \in Slots(d) \cup {0}
                     /\ nextProc[d] \in Slots(d) \cup {0}
  /\ scheduled \in [Dirs -> 0 .. Banks]
  /\ bank \in [BankIds -> Bank]
  /\ mode \in Dirs /\ dbus \in Int
  /\ stage \in {"callers", "returning", "switch", "schedule", "process"}
  /\ submitted \in 0 .. MaxRequests
  /\ owed \in [Addr -> Int]

(* A scheduled request and the bank working for it name each other, and    *)
(* the bank has that request's row open: assert(0) of process() (line 296) *)
(* never fires, two requests never share a bank, and no bank is left busy  *)
(* by a request that is gone or that belongs to the other direction.       *)
BankOwnsRequest ==
  /\ \A d \in Dirs : \A s \in Started(d) :
       /\ d = mode /\ s \in Queued(d)
       /\ LET b == bank[OnBank(d, s)] IN
            /\ b.working /\ b.slot = s /\ b.dir = d
            /\ b.row = dram_get_row(queue[d][s].addr)
  /\ \A b \in BankIds : bank[b].working =>
       \E s \in Started(mode) : bank[b].slot = s /\ OnBank(mode, s) = b

(* scheduled_reads and scheduled_writes count the scheduled requests, so   *)
(* they are 0 after reset_remain_requests(): its assertions (lines 61 and  *)
(* 65) never fire.                                                         *)
CountersMatch == \A d \in Dirs : scheduled[d] = Cardinality(Started(d))

(* The cached indices of operate() are what a fresh search would find,     *)
(* except while return_data() runs: the request whose data is being        *)
(* returned is still scheduled then.                                       *)
CachedIndicesFresh ==
  \A d \in Dirs :
    /\ nextSched[d] = update_schedule_cycle(queue[d])
    /\ IF stage = "returning" /\ d = mode
       THEN nextProc[d] \in Started(d)
       ELSE nextProc[d] = update_process_cycle(queue[d])

(* Each read the controller took is in exactly one slot until its          *)
(* return_data(), and is returned once, although a mode switch may         *)
(* unschedule it and its own return_data() may add requests.               *)
ReadReturnsOnce ==
  \A a \in Addr :
    owed[a] = Cardinality({s \in Queued("rd") : /\ queue["rd"][s].addr = a
                                                /\ ~(stage = "returning" /\ s = nextProc["rd"])})

(* The controller implements the one DramCacheManager is written against:  *)
(* a switch of direction loses no request, and nothing is served twice.    *)
Port == INSTANCE MemoryPort WITH rq <- Addresses("rd"), wq <- Addresses("wr")

ImplementsMemoryPort == Port!PortSpec

-----------------------------------------------------------------------------
(* operate() runs in every cycle.                                          *)
FairSpec == Spec /\ WF_vars(Operate) /\ WF_vars(NextCycle)

(* Every read that was queued returns, in read mode or after the writes,   *)
(* and every queued write reaches its bank, even below the low watermark.  *)
NeitherStarves ==
  \A a \in Addr : /\ owed[a] > 0 ~> owed[a] = 0
                  /\ a \in Addresses("wr") ~> a \notin Addresses("wr")
=============================================================================
