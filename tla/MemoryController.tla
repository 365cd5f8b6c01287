-------------------------- MODULE MemoryController --------------------------
(***************************************************************************)
(* MEMORY_CONTROLLER: one DRAM channel with a read queue and a write       *)
(* queue, banks with an open row, and a data bus shared by both            *)
(* directions.  operate() runs once per cycle: it may switch the direction *)
(* of the bus, then schedules one request of the active queue on a free    *)
(* bank and completes at most one scheduled request.                       *)
(*                                                                         *)
(* All times are relative to current_core_cycle: 0 is "now", a positive    *)
(* value is that many cycles ahead.  Past event cycles only matter by      *)
(* their order, so they are ranked again in every cycle.                   *)
(***************************************************************************)
EXTENDS Integers, FiniteSets, Functions

CONSTANTS
  Addr,        (* line addresses; 0 marks an empty slot                    *)
  RqSize,      (* DRAM_RQ_SIZE                                             *)
  WqSize,      (* DRAM_WQ_SIZE                                             *)
  HighWM,      (* DRAM_WRITE_HIGH_WM                                       *)
  LowWM,       (* DRAM_WRITE_LOW_WM                                        *)
  Banks,       (* DRAM_BANKS                                               *)
  Columns,     (* DRAM_COLUMNS                                             *)
  tCAS,        (* column access of an open row                             *)
  tOpen,       (* tRP + tRCD: closing a row and opening another            *)
  BusReturn,   (* DRAM_DBUS_RETURN_TIME                                    *)
  TurnAround,  (* DRAM_DBUS_TURN_AROUND_TIME                               *)
  MaxRequests  (* bound: requests submitted                                *)

ASSUME McAssumption ==
  /\ Addr \subseteq Nat \ {0}
  /\ RqSize \in Nat \ {0} /\ WqSize \in Nat \ {0}
  /\ HighWM \in 1 .. WqSize /\ LowWM \in 0 .. HighWM
  /\ Banks \in Nat \ {0} /\ Columns \in Nat \ {0}
  /\ tCAS \in Nat /\ tOpen \in Nat /\ BusReturn \in Nat /\ TurnAround \in Nat
  /\ MaxRequests \in Nat

VARIABLES
  queue,     (* RQ ("rd") and WQ ("wr"): their slots                       *)
  nextSched, (* next_schedule_index of each queue, 0 for none              *)
  nextProc,  (* next_process_index of each queue, 0 for none               *)
  scheduled, (* scheduled_reads and scheduled_writes                       *)
  bank,      (* bank_request                                               *)
  mode,      (* write_mode: the queue the bus serves                       *)
  dbus,      (* dbus_cycle_available                                       *)
  stage,     (* the part of the cycle that runs next                       *)
  submitted, (* requests the manager has sent                              *)
  owed       (* reads queued whose return_data() has not been called       *)

vars == <<queue, nextSched, nextProc, scheduled, bank, mode, dbus, stage,
          submitted, owed>>

(* Faulty_<name> is <name> with a bug in it, of the kind a change to the   *)
(* code could bring in.  No specification uses one: each is there to show  *)
(* that a property would tell.                                             *)

Dirs     == {"rd", "wr"}
Other(d) == IF d = "rd" THEN "wr" ELSE "rd"
Slots(d) == IF d = "rd" THEN 1 .. RqSize ELSE 1 .. WqSize
NoRow    == -1

dram_get_bank(a) == a % Banks
dram_get_row(a)  == a \div (Banks * Columns)
BankIds          == 0 .. Banks - 1

Empty     == [addr |-> 0, sched |-> FALSE, event |-> 0]
BankOf(e) == bank[dram_get_bank(e.addr)]

(* MEMORY_CONTROLLER counts `occupancy` as slots fill and empty.           *)
Occupancy(q)  == Cardinality({s \in DOMAIN q : q[s].addr # 0})
Addresses(d)  == {queue[d][s].addr : s \in Slots(d)} \ {0}

(* The slot with the smallest event cycle, the first of equals; 0 if none. *)
Earliest(q, S) ==
  IF S = {} THEN 0
  ELSE CHOOSE s \in S : \A t \in S :
         q[s].event < q[t].event \/ (q[s].event = q[t].event /\ s <= t)

update_schedule_cycle(q) == Earliest(q, {s \in DOMAIN q : q[s].addr # 0 /\ ~q[s].sched})
update_process_cycle(q)  == Earliest(q, {s \in DOMAIN q : q[s].sched})

-----------------------------------------------------------------------------
(* Requests, sent between cycles or from inside return_data().             *)

Callable == stage \in {"callers", "returning"}

(* A slot is taken for free when its request is not scheduled.             *)
Faulty_FirstEmpty(q) == CHOOSE s \in DOMAIN q :
                          ~q[s].sched /\ \A t \in DOMAIN q : ~q[t].sched => s <= t

FirstEmpty(q) == CHOOSE s \in DOMAIN q :
                   q[s].addr = 0 /\ \A t \in DOMAIN q : q[t].addr = 0 => s <= t

(* The manager asks get_occupancy() first.                                 *)
Send(d) ==
  /\ Callable
  /\ Occupancy(queue[d]) < (IF d = "rd" THEN RqSize ELSE WqSize)
  /\ submitted < MaxRequests
  /\ submitted' = submitted + 1

(* The cached index is not brought up to date.                             *)
Faulty_Insert(d, a) ==
  /\ queue' = [queue EXCEPT ![d][FirstEmpty(queue[d])] =
                 [addr |-> a, sched |-> FALSE, event |-> 0]]
  /\ UNCHANGED nextSched

Insert(d, a) ==
  /\ queue' = [queue EXCEPT ![d][FirstEmpty(queue[d])] =
                 [addr |-> a, sched |-> FALSE, event |-> 0]]
  /\ nextSched' = [nextSched EXCEPT ![d] = update_schedule_cycle(queue'[d])]

(* add_rq(): forwarded from the write queue, merged, or queued.            *)
add_rq(a) ==
  /\ Send("rd")
  /\ IF a \in Addresses("wr") \cup Addresses("rd")
     THEN UNCHANGED <<queue, nextSched, owed>>
     ELSE Insert("rd", a) /\ owed' = [owed EXCEPT ![a] = @ + 1]
  /\ UNCHANGED <<nextProc, scheduled, bank, mode, dbus, stage>>

(* add_wq(): merged or queued.                                             *)
add_wq(a) ==
  /\ Send("wr")
  /\ IF a \in Addresses("wr") THEN UNCHANGED <<queue, nextSched>>
                              ELSE Insert("wr", a)
  /\ UNCHANGED <<nextProc, scheduled, bank, mode, dbus, stage, owed>>

-----------------------------------------------------------------------------
(* operate(): the direction of the bus.                                    *)

(* Writes below the high watermark wait for more writes.                   *)
Faulty_GoesWriting == mode = "rd" /\ Occupancy(queue["wr"]) >= HighWM

GoesWriting == /\ mode = "rd"
               /\ \/ Occupancy(queue["wr"]) >= HighWM
                  \/ Occupancy(queue["rd"]) = 0 /\ Occupancy(queue["wr"]) > 0

GoesReading == /\ mode = "wr"
               /\ \/ Occupancy(queue["wr"]) = 0
                  \/ Occupancy(queue["rd"]) > 0 /\ Occupancy(queue["wr"]) < LowWM

(* The banks are released and the requests stay scheduled.                 *)
Faulty_Unscheduled(q) == q

(* The scheduled requests are discarded.                                   *)
FaultyDropping_Unscheduled(q) == [s \in DOMAIN q |-> IF q[s].sched THEN Empty ELSE q[s]]

(* reset_remain_requests(): the scheduled requests of the queue left go    *)
(* back to waiting, as of now, and their banks are released.               *)
Unscheduled(q) == [s \in DOMAIN q |-> IF q[s].sched
                                      THEN [q[s] EXCEPT !.sched = FALSE, !.event = 0]
                                      ELSE q[s]]

Owns(d, b) == \E s \in Slots(d) : /\ queue[d][s].sched
                                  /\ dram_get_bank(queue[d][s].addr) = b

RowLeft(d, b) ==
  IF bank[b].avail - tCAS <= 0
  THEN dram_get_row(queue[d][CHOOSE s \in Slots(d) :
         queue[d][s].sched /\ dram_get_bank(queue[d][s].addr) = b].addr)
  ELSE NoRow

FreeBank(row, avail) == [working |-> FALSE, slot |-> 0, dir |-> "none",
                         row |-> row, avail |-> avail]

reset_remain_requests(d) ==
  /\ queue' = [queue EXCEPT ![d] = Unscheduled(@)]
  /\ bank' = [b \in BankIds |-> IF Owns(d, b) THEN FreeBank(RowLeft(d, b), 0)
                                              ELSE bank[b]]
  /\ scheduled' = [e \in Dirs |->
       scheduled[e] - Cardinality({b \in BankIds : Owns(d, b) /\ bank[b].dir = e})]
  /\ nextSched' = [e \in Dirs |-> update_schedule_cycle(queue'[e])]
  /\ nextProc'  = [e \in Dirs |-> update_process_cycle(queue'[e])]

SwitchMode ==
  /\ stage = "switch"
  /\ IF GoesWriting \/ GoesReading
     THEN /\ mode' = Other(mode)
          /\ reset_remain_requests(mode)
          /\ dbus' = dbus + TurnAround
     ELSE UNCHANGED <<mode, queue, bank, scheduled, nextSched, nextProc, dbus>>
  /\ stage' = "schedule"
  /\ UNCHANGED <<submitted, owed>>

(* schedule(): the oldest request whose row is open on a free bank, else   *)
(* the oldest on a free bank.                                              *)
(* Requests on a bank that is at work for another.                         *)
Faulty_Candidates == {s \in Slots(mode) : queue[mode][s].addr # 0 /\ ~queue[mode][s].sched}

Candidates == {s \in Slots(mode) : /\ queue[mode][s].addr # 0
                                   /\ ~queue[mode][s].sched
                                   /\ ~BankOf(queue[mode][s]).working}

RowHits == {s \in Candidates : BankOf(queue[mode][s]).row
                                 = dram_get_row(queue[mode][s].addr)}

Schedule ==
  /\ stage = "schedule"
  /\ IF nextSched[mode] # 0 /\ Candidates # {}
     THEN LET s == Earliest(queue[mode], IF RowHits # {} THEN RowHits ELSE Candidates)
              a == queue[mode][s].addr
              latency == IF RowHits # {} THEN tCAS ELSE tOpen + tCAS
          IN  /\ bank' = [bank EXCEPT ![dram_get_bank(a)] =
                            [working |-> TRUE, slot |-> s, dir |-> mode,
                             row |-> dram_get_row(a), avail |-> latency]]
              /\ scheduled' = [scheduled EXCEPT ![mode] = @ + 1]
              /\ queue' = [queue EXCEPT ![mode][s].sched = TRUE,
                                        ![mode][s].event = latency]
              /\ nextSched' = [nextSched EXCEPT ![mode] = update_schedule_cycle(queue'[mode])]
              /\ nextProc' = [nextProc EXCEPT ![mode] = update_process_cycle(queue'[mode])]
     ELSE UNCHANGED <<bank, scheduled, queue, nextSched, nextProc>>
  /\ stage' = "process"
  /\ UNCHANGED <<mode, dbus, submitted, owed>>

(* process(): a due request moves its data when the bus is free.           *)
Due == nextProc[mode] # 0 /\ queue[mode][nextProc[mode]].event <= 0
Processed == queue[mode][nextProc[mode]]

(* The counter of the other direction is decremented.                      *)
Faulty_Retire ==
  LET b == dram_get_bank(Processed.addr) IN
  /\ bank' = [bank EXCEPT ![b] = FreeBank(@.row, @.avail)]
  /\ scheduled' = [scheduled EXCEPT ![Other(mode)] = @ - 1]
  /\ queue' = [queue EXCEPT ![mode][nextProc[mode]] = Empty]
  /\ nextProc' = [nextProc EXCEPT ![mode] = update_process_cycle(queue'[mode])]

(* The request's bank is released and its slot emptied.                    *)
Retire ==
  LET b == dram_get_bank(Processed.addr) IN
  /\ bank' = [bank EXCEPT ![b] = FreeBank(@.row, @.avail)]
  /\ scheduled' = [scheduled EXCEPT ![mode] = @ - 1]
  /\ queue' = [queue EXCEPT ![mode][nextProc[mode]] = Empty]
  /\ nextProc' = [nextProc EXCEPT ![mode] = update_process_cycle(queue'[mode])]

ProcessWrite ==
  /\ stage = "process" /\ mode = "wr" /\ Due
  /\ BankOf(Processed).avail <= 0 /\ dbus <= 0
  /\ dbus' = BusReturn
  /\ Retire
  /\ stage' = "callers"
  /\ UNCHANGED <<nextSched, mode, submitted, owed>>

(* return_data() is called with the request still in its slot.             *)
ProcessRead ==
  /\ stage = "process" /\ mode = "rd" /\ Due
  /\ BankOf(Processed).avail <= 0 /\ dbus <= 0
  /\ dbus' = BusReturn
  /\ owed' = [owed EXCEPT ![Processed.addr] = @ - 1]
  /\ queue' = [queue EXCEPT ![mode][nextProc[mode]].event = BusReturn]
  /\ stage' = "returning"
  /\ UNCHANGED <<nextSched, nextProc, scheduled, bank, mode, submitted>>

ReadReturned ==
  /\ stage = "returning"
  /\ Retire
  /\ stage' = "callers"
  /\ UNCHANGED <<nextSched, mode, dbus, submitted, owed>>

(* The bus is busy: look again when it is free.                            *)
ProcessWaits ==
  /\ stage = "process"
  /\ ~(Due /\ BankOf(Processed).avail <= 0 /\ dbus <= 0)
  /\ bank' = IF Due /\ BankOf(Processed).avail <= 0
             THEN [bank EXCEPT ![dram_get_bank(Processed.addr)].avail = dbus]
             ELSE bank
  /\ stage' = "callers"
  /\ UNCHANGED <<queue, nextSched, nextProc, scheduled, mode, dbus, submitted, owed>>

-----------------------------------------------------------------------------
(* current_core_cycle advances and operate() is called.                    *)

AtLeast(x, floor) == IF x < floor THEN floor ELSE x

(* Past event cycles of a queue keep their order but not their distance.   *)
Aged(q) ==
  LET e(s)    == q[s].event - 1
      past(s) == {e(t) : t \in {u \in DOMAIN q : q[u].addr # 0 /\ e(s) <= e(u) /\ e(u) < 0}}
  IN  [s \in DOMAIN q |->
         IF q[s].addr = 0 THEN q[s]
         ELSE [q[s] EXCEPT !.event = IF e(s) < 0 THEN -Cardinality(past(s)) ELSE e(s)]]

(* The bus cannot turn around more often than this bound allows for.       *)
DbusFloor == -(2 * MaxRequests * TurnAround)

NextCycle ==
  /\ stage = "callers"
  /\ queue' = [d \in Dirs |-> Aged(queue[d])]
  /\ bank' = [b \in BankIds |-> [bank[b] EXCEPT !.avail = AtLeast(@ - 1, 0)]]
  /\ dbus' = AtLeast(dbus - 1, DbusFloor)
  /\ stage' = "switch"
  /\ UNCHANGED <<nextSched, nextProc, scheduled, mode, submitted, owed>>

-----------------------------------------------------------------------------

Init ==
  /\ queue = [d \in Dirs |-> [s \in Slots(d) |-> Empty]]
  /\ nextSched = [d \in Dirs |-> 0] /\ nextProc = [d \in Dirs |-> 0]
  /\ scheduled = [d \in Dirs |-> 0]
  /\ bank = [b \in BankIds |-> FreeBank(NoRow, 0)]
  /\ mode = "rd" /\ dbus = 0 /\ stage = "callers"
  /\ submitted = 0
  /\ owed = [a \in Addr |-> 0]

Process == ProcessWrite \/ ProcessRead \/ ReadReturned \/ ProcessWaits
Operate == SwitchMode \/ Schedule \/ Process

Next ==
  \/ \E a \in Addr : add_rq(a) \/ add_wq(a)
  \/ Operate
  \/ NextCycle

Spec == Init /\ [][Next]_vars
=============================================================================
