------------------------------ MODULE QueueLock ------------------------------
(***************************************************************************)
(* What a Dragon lock promises to its users: at most one holder, strict    *)
(* service in the order of the requests, and no grant once the lock has    *)
(* been destroyed.  The ticket lock of FIFOLiteLock implements it.         *)
(*                                                                         *)
(* holder   the processes that own the lock (never more than one)          *)
(* waiting  the processes that asked and have not been served              *)
(* ahead    ahead[p]: who asked before p and has not released yet          *)
(* valid    the lock is initialised and not destroyed                      *)
(***************************************************************************)
CONSTANT Proc

VARIABLES holder, waiting, ahead, valid

vars == <<holder, waiting, ahead, valid>>

Init ==
  /\ holder = {}
  /\ waiting = {}
  /\ ahead = [p \in Proc |-> {}]
  /\ valid = FALSE

Create ==
  /\ ~valid
  /\ waiting = {} /\ holder = {}
  /\ valid' = TRUE
  /\ UNCHANGED <<holder, waiting, ahead>>

\* A request that slips in after the lock was destroyed is in no queue.
Request(p) ==
  /\ p \notin waiting \cup holder
  /\ waiting' = waiting \cup {p}
  /\ ahead' = [ahead EXCEPT ![p] = IF valid THEN waiting \cup holder ELSE {}]
  /\ UNCHANGED <<holder, valid>>

Grant(p) ==
  /\ valid
  /\ p \in waiting
  /\ holder = {}
  /\ ahead[p] = {}
  /\ holder' = {p}
  /\ waiting' = waiting \ {p}
  /\ UNCHANGED <<ahead, valid>>

Release(p) ==
  /\ holder = {p}
  /\ holder' = {}
  /\ ahead' = [q \in Proc |-> ahead[q] \ {p}]
  /\ UNCHANGED <<waiting, valid>>

\* A holder may destroy the lock it holds, and then holds nothing.
Destroy(p) ==
  /\ p \notin waiting
  /\ valid' = FALSE
  /\ holder' = holder \ {p}
  /\ ahead' = [q \in Proc |-> {}]
  /\ UNCHANGED waiting

\* Once the lock is destroyed, its users give up one after the other.
GiveUp(p) ==
  /\ ~valid
  /\ waiting' = waiting \ {p}
  /\ holder' = holder \ {p}
  /\ UNCHANGED <<ahead, valid>>

Next ==
  \/ Create
  \/ \E p \in Proc :
       Request(p) \/ Grant(p) \/ Release(p) \/ Destroy(p) \/ GiveUp(p)

Spec == Init /\ [][Next]_vars
=============================================================================
