------------------------------ MODULE FIFOLock ------------------------------
(***************************************************************************)
(* The hierarchical FIFO lock of src/lib/shared_lock.c.  A caller takes    *)
(* the private lock of its handle, draws one of NodeFanout nodes in        *)
(* rotation, takes that node's sub-lock and then waits until the main      *)
(* lock serves its node.                                                   *)
(*                                                                         *)
(* The handle's lock and the sub-locks are ticket locks.  FIFOLiteLock     *)
(* shows that a ticket lock is a queue whose head is the owner, so each is *)
(* a sequence of threads here.  The words of the main lock are read and    *)
(* written one step at a time, in a sequentially consistent memory.        *)
(*                                                                         *)
(* Clients unlock only what they hold, and a handle is detached or         *)
(* destroyed only while none of its threads is inside a call.              *)
(***************************************************************************)
EXTENDS Integers, Sequences

CONSTANTS Thread,       \* the threads that use the lock
          Uses,         \* the uses checked: the threads that call lock, and try_lock
          Handle,       \* the handles attached to the lock
          HandleOf,     \* HandleOf[t]: the handle thread t works with
          NodeFanout    \* DRAGON_LOCK_NODE_FANOUT, 16 in the source

ASSUME FIFOAssumption ==
  /\ Uses \subseteq [lock : SUBSET Thread, try : SUBSET Thread]
  /\ HandleOf \in [Thread -> Handle]
  /\ NodeFanout \in Nat \ {0}

Node == 0 .. (NodeFanout - 1)

VARIABLES
  use,            \* the use this behaviour is an instance of: never changes
  initd, now_serving, ticket_counter,
  node_counter,   \* modulo NodeFanout, the only way it is ever used
  node_queue,     \* node_queue[n]: owner of n's sub-lock, then those waiting
  attached,       \* attached[h]: the pointers of handle h are set
  thr_queue,      \* thr_queue[h]: owner of h's private lock, then those waiting
  my_node,        \* my_node[h]: the node drawn by the thread that owns h's lock
  pc,             \* where thread t is
  cticket         \* local to a try: the ticket_counter it has loaded

vars == <<use, initd, now_serving, ticket_counter, node_counter, node_queue,
          attached, thr_queue, my_node, pc, cticket>>
mainLock == <<now_serving, ticket_counter>>
handles  == <<attached, thr_queue, my_node>>

Locations == {"idle", "thr_wait", "node_fetch", "node_wait", "spin", "check",
              "held", "unlock_serving", "unlock_node", "unlock_thr",
              "try_get_node", "try_node", "try_load", "try_serving", "try_cas",
              "try_undo", "try_check"}

\* An entry of a queue that no thread will ever release.
Leaked == "leaked"

MyNode(t) == my_node[HandleOf[t]]
NextNode(n) == (n + 1) % NodeFanout
Goto(t, loc) == pc' = [pc EXCEPT ![t] = loc]
Owner(q, t) == q # <<>> /\ Head(q) = t
Idle(h) == \A t \in Thread : HandleOf[t] = h => pc[t] = "idle"

TypeOK ==
  /\ initd \in {"INITD", "DESTROYED"}
  /\ now_serving \in Node
  /\ ticket_counter \in Node \cup {NodeFanout}
  /\ node_counter \in Node
  /\ node_queue \in [Node -> Seq(Thread)]
  /\ attached \in [Handle -> BOOLEAN]
  /\ thr_queue \in [Handle -> Seq(Thread \cup {Leaked})]
  /\ my_node \in [Handle -> Node]
  /\ pc \in [Thread -> Locations]
  /\ cticket \in [Thread -> Node \cup {NodeFanout}]

Init ==
  /\ use \in Uses
  /\ initd = "DESTROYED"
  /\ now_serving = 0 /\ ticket_counter = 0 /\ node_counter = 0
  /\ node_queue = [n \in Node |-> <<>>]
  /\ attached = [h \in Handle |-> FALSE]
  /\ thr_queue = [h \in Handle |-> <<>>]
  /\ my_node = [h \in Handle |-> 0]
  /\ pc = [t \in Thread |-> "idle"]
  /\ cticket = [t \in Thread |-> 0]

-----------------------------------------------------------------------------
(* Life cycle                                                              *)

\* The private lock of a handle is made anew by every attach.
fifo_lock_attach(h) ==
  /\ ~attached[h]
  /\ attached' = [attached EXCEPT ![h] = TRUE]
  /\ thr_queue' = [thr_queue EXCEPT ![h] = <<>>]
  /\ UNCHANGED <<initd, mainLock, node_counter, node_queue, my_node, pc, cticket>>

\* On a live lock, init fails with ALREADY_INITD after it has attached.
fifo_lock_init(h) ==
  /\ \A g \in Handle : ~attached[g]
  /\ initd # "INITD"
  /\ attached' = [attached EXCEPT ![h] = TRUE]
  /\ thr_queue' = [thr_queue EXCEPT ![h] = <<>>]
  /\ initd' = "INITD"
  /\ now_serving' = 0 /\ ticket_counter' = 0 /\ node_counter' = 0
  /\ node_queue' = [n \in Node |-> <<>>]
  /\ UNCHANGED <<my_node, pc, cticket>>

fifo_lock_detach(h) ==
  /\ attached[h] /\ Idle(h)
  /\ attached' = [attached EXCEPT ![h] = FALSE]
  /\ thr_queue' = [thr_queue EXCEPT ![h] = <<>>]
  /\ UNCHANGED <<initd, mainLock, node_counter, node_queue, my_node, pc, cticket>>

fifo_lock_destroy(h) ==
  /\ attached[h] /\ Idle(h)
  /\ initd' = "DESTROYED"
  /\ attached' = [attached EXCEPT ![h] = FALSE]
  /\ thr_queue' = [thr_queue EXCEPT ![h] = <<>>]
  /\ UNCHANGED <<mainLock, node_counter, node_queue, my_node, pc, cticket>>

-----------------------------------------------------------------------------
(* dragon_fifo_lock                                                        *)

\* On a destroyed lock the call returns OBJECT_DESTROYED at once.
lock_start(t) ==
  LET h == HandleOf[t] IN
  /\ t \in use.lock
  /\ attached[h] /\ pc[t] = "idle"
  /\ initd = "INITD"
  /\ thr_queue' = [thr_queue EXCEPT ![h] = Append(@, t)]
  /\ Goto(t, "thr_wait")
  /\ UNCHANGED <<initd, mainLock, node_counter, node_queue, attached, my_node, cticket>>

\* The node is a field of the handle, which the handle's lock protects.
get_node(t) ==
  /\ my_node' = [my_node EXCEPT ![HandleOf[t]] = node_counter]
  /\ node_counter' = NextNode(node_counter)
  /\ UNCHANGED <<initd, mainLock, node_queue, attached, thr_queue, cticket>>

\* Mutant: the node is drawn without the lock of the handle.
lock_get_node_unlocked(t) ==
  /\ pc[t] = "thr_wait"
  /\ get_node(t)
  /\ Goto(t, "node_fetch")

lock_get_node(t) ==
  /\ pc[t] = "thr_wait"
  /\ Owner(thr_queue[HandleOf[t]], t)
  /\ get_node(t)
  /\ Goto(t, "node_fetch")

node_lock(t) ==
  /\ pc[t] = "node_fetch"
  /\ node_queue' = [node_queue EXCEPT ![MyNode(t)] = Append(@, t)]
  /\ Goto(t, "node_wait")
  /\ UNCHANGED <<initd, mainLock, node_counter, handles, cticket>>

\* Mutant: the wait for the sub-lock is missing.
store_ticket_no_wait(t) ==
  /\ pc[t] = "node_wait"
  /\ ticket_counter' = NextNode(MyNode(t))
  /\ Goto(t, "spin")
  /\ UNCHANGED <<initd, now_serving, node_counter, node_queue, handles, cticket>>

\* Owners of different nodes store into ticket_counter in any order.
store_ticket(t) ==
  /\ pc[t] = "node_wait"
  /\ Owner(node_queue[MyNode(t)], t)
  /\ ticket_counter' = NextNode(MyNode(t))
  /\ Goto(t, "spin")
  /\ UNCHANGED <<initd, now_serving, node_counter, node_queue, handles, cticket>>

lock_spin(t) ==
  /\ pc[t] = "spin"
  /\ now_serving = MyNode(t)
  /\ Goto(t, "check")
  /\ UNCHANGED <<initd, mainLock, node_counter, node_queue, handles, cticket>>

\* The last test of initd, in lock and in try_lock: a call that fails here
\* returns OBJECT_DESTROYED with both locks still taken.
lock_check(t) ==
  /\ pc[t] \in {"check", "try_check"}
  /\ Goto(t, IF initd = "INITD" THEN "held" ELSE "idle")
  /\ UNCHANGED <<initd, mainLock, node_counter, node_queue, handles, cticket>>

-----------------------------------------------------------------------------
(* dragon_fifo_unlock                                                      *)

unlock_start(t) ==
  /\ pc[t] = "held"
  /\ Goto(t, IF initd = "INITD" THEN "unlock_serving" ELSE "idle")
  /\ UNCHANGED <<initd, mainLock, node_counter, node_queue, handles, cticket>>

unlock_serving(t) ==
  /\ pc[t] = "unlock_serving"
  /\ now_serving' = NextNode(MyNode(t))
  /\ Goto(t, "unlock_node")
  /\ UNCHANGED <<initd, ticket_counter, node_counter, node_queue, handles, cticket>>

node_unlock(t) ==
  /\ node_queue' = [node_queue EXCEPT ![MyNode(t)] = Tail(@)]
  /\ UNCHANGED <<initd, mainLock, node_counter, attached, my_node, cticket>>

unlock_node(t) ==
  /\ pc[t] = "unlock_node"
  /\ node_unlock(t)
  /\ Goto(t, "unlock_thr")
  /\ UNCHANGED thr_queue

\* Mutant: unlock leaves the lock of the handle taken.
unlock_thr_forgotten(t) ==
  /\ pc[t] = "unlock_thr"
  /\ Goto(t, "idle")
  /\ UNCHANGED <<initd, mainLock, node_counter, node_queue, handles, cticket>>

unlock_thr(t) ==
  /\ pc[t] = "unlock_thr"
  /\ thr_queue' = [thr_queue EXCEPT ![HandleOf[t]] = Tail(@)]
  /\ Goto(t, "idle")
  /\ UNCHANGED <<initd, mainLock, node_counter, node_queue, attached, my_node, cticket>>

-----------------------------------------------------------------------------
(* dragon_fifo_try_lock.  A try that fails after it took the handle's lock *)
(* returns without releasing that lock.                                    *)

LeakThr(t) == thr_queue' = [thr_queue EXCEPT ![HandleOf[t]][1] = Leaked]

\* When the handle's lock is taken the call returns at once: not a step.
try_start(t) ==
  LET h == HandleOf[t] IN
  /\ t \in use.try
  /\ attached[h] /\ pc[t] = "idle"
  /\ initd = "INITD"
  /\ thr_queue[h] = <<>>
  /\ thr_queue' = [thr_queue EXCEPT ![h] = <<t>>]
  /\ Goto(t, "try_get_node")
  /\ UNCHANGED <<initd, mainLock, node_counter, node_queue, attached, my_node, cticket>>

try_get_node(t) ==
  /\ pc[t] = "try_get_node"
  /\ get_node(t)
  /\ Goto(t, "try_node")

node_try_lock(t) ==
  /\ pc[t] = "try_node"
  /\ \/ /\ node_queue[MyNode(t)] = <<>>
        /\ node_queue' = [node_queue EXCEPT ![MyNode(t)] = <<t>>]
        /\ Goto(t, "try_load")
        /\ UNCHANGED thr_queue
     \/ /\ node_queue[MyNode(t)] # <<>>
        /\ LeakThr(t)
        /\ Goto(t, "idle")
        /\ UNCHANGED node_queue
  /\ UNCHANGED <<initd, mainLock, node_counter, attached, my_node, cticket>>

try_load(t) ==
  /\ pc[t] = "try_load"
  /\ cticket' = [cticket EXCEPT ![t] = ticket_counter]
  /\ Goto(t, "try_serving")
  /\ UNCHANGED <<initd, mainLock, node_counter, node_queue, handles>>

try_serving(t) ==
  /\ pc[t] = "try_serving"
  /\ Goto(t, IF cticket[t] = now_serving THEN "try_cas" ELSE "try_undo")
  /\ UNCHANGED <<initd, mainLock, node_counter, node_queue, handles, cticket>>

\* The new value does not wrap around at NodeFanout as it does elsewhere.
try_cas(t) ==
  /\ pc[t] = "try_cas"
  /\ \/ /\ ticket_counter = cticket[t]
        /\ ticket_counter' = cticket[t] + 1
        /\ Goto(t, "try_check")
     \/ /\ ticket_counter # cticket[t]
        /\ Goto(t, "try_undo")
        /\ UNCHANGED ticket_counter
  /\ UNCHANGED <<initd, now_serving, node_counter, node_queue, handles, cticket>>

try_undo(t) ==
  /\ pc[t] = "try_undo"
  /\ node_unlock(t)
  /\ LeakThr(t)
  /\ Goto(t, "idle")

-----------------------------------------------------------------------------
Call(t) == lock_start(t) \/ try_start(t)

Step(t) ==
  \/ lock_get_node(t) \/ node_lock(t) \/ store_ticket(t) \/ lock_spin(t)
  \/ lock_check(t)
  \/ unlock_start(t) \/ unlock_serving(t) \/ unlock_node(t) \/ unlock_thr(t)
  \/ try_get_node(t) \/ node_try_lock(t) \/ try_load(t) \/ try_serving(t)
  \/ try_cas(t) \/ try_undo(t)

LifeCycle(h) ==
  \/ fifo_lock_attach(h) \/ fifo_lock_init(h)
  \/ fifo_lock_detach(h) \/ fifo_lock_destroy(h)

Next ==
  /\ \E t \in Thread :
       \/ Call(t) \/ Step(t)
       \/ t \in use.lock \cup use.try /\ LifeCycle(HandleOf[t])
  /\ UNCHANGED use

Spec == Init /\ [][Next]_vars

FairSpec == Spec /\ \A t \in Thread : WF_vars(Step(t) /\ UNCHANGED use)

-----------------------------------------------------------------------------
(* Properties                                                              *)

\* Where a thread owns its node's sub-lock and the lock of its handle.
OwnsNode == {"spin", "check", "held", "unlock_serving", "unlock_node",
             "try_load", "try_serving", "try_cas", "try_undo", "try_check"}

\* Where a thread has been told that it owns the lock and has not released it.
Owning == {"held", "unlock_serving"}

\* Where no thread calls try_lock, dragon_fifo_lock tells at most one thread at a
\* time that it owns the lock.
MutualExclusion ==
  use.try = {} => \A t, u \in Thread : pc[t] \in Owning /\ pc[u] \in Owning => t = u

\* The my_node of a handle is the node of the thread inside that handle until the
\* sub-lock is released, although threads share the handle: _dragon_node_unlock
\* and unlock always advance a sub-lock that the caller owns.
NodeStable ==
  \A t \in Thread : pc[t] \in OwnsNode => Owner(node_queue[MyNode(t)], t)

\* try_lock does not report success while another thread owns the lock.
TryReportsHeld ==
  [][\A t \in Thread :
       pc[t] = "try_check" /\ pc'[t] = "held" =>
         \A u \in Thread \ {t} : pc[u] \notin Owning]_vars

\* A thread that has asked for the lock gets it, unless the lock is destroyed,
\* provided that owners release it and no thread calls try_lock.
LockerServed ==
  use.try = {} => \A t \in Thread :
    pc[t] = "thr_wait" ~> (pc[t] = "held" \/ initd = "DESTROYED")
=============================================================================
