----------------------------- MODULE MemoryPort -----------------------------
(***************************************************************************)
(* What a MEMORY_CONTROLLER promises the manager that sends to it: two     *)
(* bounded sets of queued lines, each line queued as a read completes      *)
(* once, and so does each queued write.  The order is left open.  This is  *)
(* the controller DramCacheManager is written against.                     *)
(***************************************************************************)
EXTENDS Naturals, FiniteSets

CONSTANTS Addr, RqSize, WqSize

VARIABLES rq, wq

portVars == <<rq, wq>>

PortInit == rq = {} /\ wq = {}

AddRead(a) ==
  /\ Cardinality(rq) < RqSize /\ a \notin rq /\ a \notin wq
  /\ rq' = rq \cup {a}
  /\ UNCHANGED wq

AddWrite(a) ==
  /\ Cardinality(wq) < WqSize
  /\ wq' = wq \cup {a}
  /\ UNCHANGED rq

ServeRead(a)  == a \in rq /\ rq' = rq \ {a} /\ UNCHANGED wq
ServeWrite(a) == a \in wq /\ wq' = wq \ {a} /\ UNCHANGED rq

PortNext == \E a \in Addr : \/ AddRead(a) \/ AddWrite(a)
                            \/ ServeRead(a) \/ ServeWrite(a)

PortSpec == PortInit /\ [][PortNext]_portVars
=============================================================================
