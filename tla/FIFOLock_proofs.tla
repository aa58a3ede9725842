--------------------------- MODULE FIFOLock_proofs ---------------------------
(***************************************************************************)
(* Proofs about the hierarchical FIFO lock, for any number of threads,     *)
(* handles and nodes.                                                      *)
(*                                                                         *)
(* A handle's my_node is private to the thread inside the handle           *)
(* (HandleOwned), so a thread stays at the head of the queue of its node   *)
(* (NodeStable).  Without try_lock, a thread past the main spin is on the  *)
(* node being served (Served), and there is one head per node.             *)
(***************************************************************************)
EXTENDS FIFOLock, TLAPS

Trying == {"try_get_node", "try_node", "try_load", "try_serving", "try_cas",
           "try_undo", "try_check"}

\* Where a thread owns the private lock of its handle.
OwnsHandle == Locations \ {"idle", "thr_wait"}

\* A thread inside a call, or owning the lock, has its handle attached.
InAttached == \A t \in Thread : pc[t] # "idle" => attached[HandleOf[t]]

\* A thread past thr_wait is at the head of its handle's queue.
HandleOwned ==
  \A t \in Thread : pc[t] \in OwnsHandle => Owner(thr_queue[HandleOf[t]], t)

\* A try reaches its compare-and-exchange only with a ticket being served.
CasTicket == \A t \in Thread : pc[t] = "try_cas" => cticket[t] \in Node

\* The inductive invariant behind NodeStable.
NodeInv == TypeOK /\ InAttached /\ HandleOwned /\ CasTicket /\ NodeStable

\* A thread past the main spin is on the node that the main lock serves.
Served ==
  \A t \in Thread :
    pc[t] \in {"check", "held", "unlock_serving"} => now_serving = MyNode(t)

\* No thread is inside try_lock.
NoTry == \A t \in Thread : pc[t] \notin Trying

-----------------------------------------------------------------------------
(* Facts about queues                                                      *)

\* Joining a queue does not change its head (a ticket lock's fetch_add).
LEMMA AppendOwner ==
  ASSUME NEW S, NEW q \in Seq(S), NEW t, NEW u \in S, Owner(q, t)
  PROVE  Owner(Append(q, u), t)
BY DEF Owner

\* A successful _dragon_node_try_lock makes the caller the head.
LEMMA SingletonOwner ==
  ASSUME NEW S, NEW t \in S
  PROVE  <<t>> \in Seq(S) /\ Owner(<<t>>, t)
BY DEF Owner

\* Releasing a sub-lock removes the head of its queue.
LEMMA TailType ==
  ASSUME NEW S, NEW q \in Seq(S), NEW t, Owner(q, t)
  PROVE  Tail(q) \in Seq(S)
BY DEF Owner

\* A failing try_lock leaves the queue of its handle a queue.
LEMMA LeakType ==
  ASSUME NEW S, NEW q \in Seq(S \cup {Leaked}), q # <<>>
  PROVE  [q EXCEPT ![1] = Leaked] \in Seq(S \cup {Leaked})
<1> DEFINE r == [q EXCEPT ![1] = Leaked]
<1>1. PICK n \in Nat : q \in [1..n -> S \cup {Leaked}]
  OBVIOUS
<1>2. r \in [1..n -> S \cup {Leaked}]
  BY <1>1
<1> QED
  BY <1>2

\* The wrap-around of next_node stays within the nodes.
LEMMA NextNodeType == ASSUME NEW n \in Node PROVE NextNode(n) \in Node
BY FIFOAssumption DEF NextNode, Node

\* The unwrapped increment of try_lock can reach NodeFanout, no further.
LEMMA NextTicket == ASSUME NEW n \in Node PROVE n + 1 \in Node \cup {NodeFanout}
BY FIFOAssumption DEF Node

\* A step is a step of a thread, or of the life cycle of a handle.
LEMMA NextCases ==
  ASSUME [Next]_vars
  PROVE  \/ UNCHANGED vars
         \/ \E h \in Handle : LifeCycle(h)
         \/ \E t \in Thread : Call(t) \/ Step(t)
BY FIFOAssumption DEF Next

-----------------------------------------------------------------------------
\* A lock that is not initialised satisfies the invariant.
LEMMA InitNode == Init => NodeInv
BY FIFOAssumption
   DEF Init, NodeInv, TypeOK, InAttached, HandleOwned, CasTicket, NodeStable, OwnsHandle,
       OwnsNode, Locations, Node

\* Every step of the FIFO lock's functions keeps the words in their types.
LEMMA TypeStep == NodeInv /\ [Next]_vars => TypeOK'
<1> SUFFICES ASSUME NodeInv, [Next]_vars PROVE TypeOK'
  OBVIOUS
<1> USE FIFOAssumption DEF NodeInv, TypeOK, Locations, Goto, handles, mainLock
<1>1. CASE UNCHANGED vars
  BY <1>1 DEF vars
<1>2. ASSUME NEW h \in Handle, LifeCycle(h) PROVE TypeOK'
  <2>1. CASE fifo_lock_attach(h)
    BY <2>1 DEF fifo_lock_attach
  <2>2. CASE fifo_lock_init(h)
    BY <2>2 DEF fifo_lock_init, Node
  <2>3. CASE fifo_lock_detach(h)
    BY <2>3 DEF fifo_lock_detach
  <2>4. CASE fifo_lock_destroy(h)
    BY <2>4 DEF fifo_lock_destroy
  <2> QED
    BY <1>2, <2>1, <2>2, <2>3, <2>4 DEF LifeCycle
<1>3. ASSUME NEW t \in Thread, Call(t) PROVE TypeOK'
  <2>1. CASE lock_start(t)
    BY <2>1 DEF lock_start
  <2>2. CASE try_start(t)
    BY <2>2 DEF try_start
  <2> QED
    BY <1>3, <2>1, <2>2 DEF Call
<1>4. ASSUME NEW t \in Thread, Step(t) PROVE TypeOK'
  <2>1. CASE lock_get_node(t)
    BY <2>1, NextNodeType DEF lock_get_node, get_node
  <2>2. CASE node_lock(t)
    BY <2>2 DEF node_lock, MyNode
  <2>3. CASE store_ticket(t)
    BY <2>3, NextNodeType DEF store_ticket, MyNode
  <2>4. CASE lock_spin(t)
    BY <2>4 DEF lock_spin
  <2>5. CASE lock_check(t)
    BY <2>5 DEF lock_check
  <2>6. CASE unlock_start(t)
    BY <2>6 DEF unlock_start
  <2>7. CASE unlock_serving(t)
    BY <2>7, NextNodeType DEF unlock_serving, MyNode
  <2>8. CASE unlock_node(t)
    BY <2>8, TailType DEF unlock_node, node_unlock, MyNode, NodeStable, OwnsNode
  <2>9. CASE unlock_thr(t)
    BY <2>9, TailType DEF unlock_thr, HandleOwned, OwnsHandle
  <2>10. CASE try_get_node(t)
    BY <2>10, NextNodeType DEF try_get_node, get_node
  <2>11. CASE node_try_lock(t)
    <3>1. CASE node_queue[MyNode(t)] = <<>>
      <4>1. node_queue' = [node_queue EXCEPT ![MyNode(t)] = <<t>>]
        BY <2>11, <3>1 DEF node_try_lock
      <4>2. node_queue' \in [Node -> Seq(Thread)]
        BY <4>1, SingletonOwner
      <4> QED
        BY <2>11, <3>1, <4>2 DEF node_try_lock
    <3>2. CASE node_queue[MyNode(t)] # <<>>
      <4>1. LeakThr(t) /\ Owner(thr_queue[HandleOf[t]], t)
        BY <2>11, <3>2 DEF node_try_lock, HandleOwned, OwnsHandle
      <4>2. thr_queue' \in [Handle -> Seq(Thread \cup {Leaked})]
        BY <4>1, LeakType DEF LeakThr, Owner
      <4> QED
        BY <2>11, <3>2, <4>2 DEF node_try_lock
    <3> QED
      BY <3>1, <3>2
  <2>12. CASE try_load(t)
    BY <2>12 DEF try_load
  <2>13. CASE try_serving(t)
    BY <2>13 DEF try_serving
  <2>14. CASE try_cas(t)
    <3>1. cticket[t] \in Node
      BY <2>14 DEF try_cas, CasTicket
    <3>2. cticket[t] + 1 \in Node \cup {NodeFanout}
      BY <3>1, NextTicket
    <3> QED
      BY <2>14, <3>2 DEF try_cas
  <2>15. CASE try_undo(t)
    BY <2>15, TailType, LeakType DEF try_undo, node_unlock, LeakThr, MyNode,
       NodeStable, OwnsNode, HandleOwned, OwnsHandle, Owner
  <2> QED
    BY <1>4, <2>1, <2>2, <2>3, <2>4, <2>5, <2>6, <2>7, <2>8, <2>9, <2>10, <2>11,
       <2>12, <2>13, <2>14, <2>15 DEF Step
<1> QED
  BY <1>1, <1>2, <1>3, <1>4, NextCases

\* Handles are not detached under the threads that use them.
LEMMA AttachedStep == NodeInv /\ [Next]_vars => InAttached'
<1> SUFFICES ASSUME NodeInv, [Next]_vars PROVE InAttached'
  OBVIOUS
<1> USE FIFOAssumption DEF NodeInv, TypeOK, InAttached, Idle, Goto, handles,
   mainLock
<1>1. CASE UNCHANGED vars
  BY <1>1 DEF vars
<1>2. ASSUME NEW h \in Handle, LifeCycle(h) PROVE InAttached'
  <2>1. CASE fifo_lock_attach(h)
    BY <2>1 DEF fifo_lock_attach
  <2>2. CASE fifo_lock_init(h)
    BY <2>2 DEF fifo_lock_init
  <2>3. CASE fifo_lock_detach(h)
    BY <2>3 DEF fifo_lock_detach
  <2>4. CASE fifo_lock_destroy(h)
    BY <2>4 DEF fifo_lock_destroy
  <2> QED
    BY <1>2, <2>1, <2>2, <2>3, <2>4 DEF LifeCycle
<1>3. ASSUME NEW t \in Thread, Call(t) PROVE InAttached'
  <2>1. CASE lock_start(t)
    BY <2>1 DEF lock_start
  <2>2. CASE try_start(t)
    BY <2>2 DEF try_start
  <2> QED
    BY <1>3, <2>1, <2>2 DEF Call
<1>4. ASSUME NEW t \in Thread, Step(t) PROVE InAttached'
  <2>1. CASE lock_get_node(t)
    BY <2>1 DEF lock_get_node, get_node
  <2>2. CASE node_lock(t)
    BY <2>2 DEF node_lock
  <2>3. CASE store_ticket(t)
    BY <2>3 DEF store_ticket
  <2>4. CASE lock_spin(t)
    BY <2>4 DEF lock_spin
  <2>5. CASE lock_check(t)
    BY <2>5 DEF lock_check
  <2>6. CASE unlock_start(t)
    BY <2>6 DEF unlock_start
  <2>7. CASE unlock_serving(t)
    BY <2>7 DEF unlock_serving
  <2>8. CASE unlock_node(t)
    BY <2>8 DEF unlock_node, node_unlock
  <2>9. CASE unlock_thr(t)
    BY <2>9 DEF unlock_thr
  <2>10. CASE try_get_node(t)
    BY <2>10 DEF try_get_node, get_node
  <2>11. CASE node_try_lock(t)
    BY <2>11 DEF node_try_lock, LeakThr
  <2>12. CASE try_load(t)
    BY <2>12 DEF try_load
  <2>13. CASE try_serving(t)
    BY <2>13 DEF try_serving
  <2>14. CASE try_cas(t)
    BY <2>14 DEF try_cas
  <2>15. CASE try_undo(t)
    BY <2>15 DEF try_undo, node_unlock, LeakThr
  <2> QED
    BY <1>4, <2>1, <2>2, <2>3, <2>4, <2>5, <2>6, <2>7, <2>8, <2>9, <2>10, <2>11,
       <2>12, <2>13, <2>14, <2>15 DEF Step
<1> QED
  BY <1>1, <1>2, <1>3, <1>4, NextCases

\* Only its head leaves the queue of a handle.
LEMMA HandleStep == NodeInv /\ [Next]_vars => HandleOwned'
<1> SUFFICES ASSUME NodeInv, [Next]_vars PROVE HandleOwned'
  OBVIOUS
<1> USE FIFOAssumption DEF NodeInv, TypeOK, HandleOwned, OwnsHandle, Locations,
   Goto, handles, mainLock
<1>1. CASE UNCHANGED vars
  BY <1>1 DEF vars
<1>2. ASSUME NEW h \in Handle, LifeCycle(h) PROVE HandleOwned'
  <2>1. CASE fifo_lock_attach(h)
    BY <2>1 DEF fifo_lock_attach, InAttached
  <2>2. CASE fifo_lock_init(h)
    BY <2>2 DEF fifo_lock_init, InAttached
  <2>3. CASE fifo_lock_detach(h)
    BY <2>3 DEF fifo_lock_detach, Idle
  <2>4. CASE fifo_lock_destroy(h)
    BY <2>4 DEF fifo_lock_destroy, Idle
  <2> QED
    BY <1>2, <2>1, <2>2, <2>3, <2>4 DEF LifeCycle
<1>3. ASSUME NEW t \in Thread, Call(t) PROVE HandleOwned'
  <2>1. CASE lock_start(t)
    BY <2>1, AppendOwner DEF lock_start
  <2>2. CASE try_start(t)
    BY <2>2 DEF try_start, Owner
  <2> QED
    BY <1>3, <2>1, <2>2 DEF Call
<1>4. ASSUME NEW t \in Thread, Step(t) PROVE HandleOwned'
  <2>1. CASE lock_get_node(t)
    BY <2>1 DEF lock_get_node, get_node
  <2>2. CASE node_lock(t)
    BY <2>2 DEF node_lock
  <2>3. CASE store_ticket(t)
    BY <2>3 DEF store_ticket
  <2>4. CASE lock_spin(t)
    BY <2>4 DEF lock_spin
  <2>5. CASE lock_check(t)
    BY <2>5 DEF lock_check
  <2>6. CASE unlock_start(t)
    BY <2>6 DEF unlock_start
  <2>7. CASE unlock_serving(t)
    BY <2>7 DEF unlock_serving
  <2>8. CASE unlock_node(t)
    BY <2>8 DEF unlock_node, node_unlock
  <2>9. CASE unlock_thr(t)
    BY <2>9 DEF unlock_thr, Owner
  <2>10. CASE try_get_node(t)
    BY <2>10 DEF try_get_node, get_node
  <2>11. CASE node_try_lock(t)
    <3>1. CASE node_queue[MyNode(t)] = <<>>
      BY <2>11, <3>1 DEF node_try_lock
    <3>2. CASE node_queue[MyNode(t)] # <<>>
      <4>1. LeakThr(t) /\ Goto(t, "idle")
        BY <2>11, <3>2 DEF node_try_lock
      <4>2. Owner(thr_queue[HandleOf[t]], t)
        BY <2>11 DEF node_try_lock
      <4> QED
        BY <4>1, <4>2 DEF LeakThr, Owner
    <3> QED
      BY <3>1, <3>2
  <2>12. CASE try_load(t)
    BY <2>12 DEF try_load
  <2>13. CASE try_serving(t)
    BY <2>13 DEF try_serving
  <2>14. CASE try_cas(t)
    BY <2>14 DEF try_cas
  <2>15. CASE try_undo(t)
    BY <2>15 DEF try_undo, node_unlock, LeakThr, Owner
  <2> QED
    BY <1>4, <2>1, <2>2, <2>3, <2>4, <2>5, <2>6, <2>7, <2>8, <2>9, <2>10, <2>11,
       <2>12, <2>13, <2>14, <2>15 DEF Step
<1> QED
  BY <1>1, <1>2, <1>3, <1>4, NextCases

\* try_lock compares the ticket with now_serving before it exchanges.
LEMMA CasStep == NodeInv /\ [Next]_vars => CasTicket'
<1> SUFFICES ASSUME NodeInv, [Next]_vars PROVE CasTicket'
  OBVIOUS
<1> USE FIFOAssumption DEF NodeInv, TypeOK, CasTicket, Goto, handles, mainLock
<1>1. CASE UNCHANGED vars
  BY <1>1 DEF vars
<1>2. ASSUME NEW h \in Handle, LifeCycle(h) PROVE CasTicket'
  <2>1. CASE fifo_lock_attach(h)
    BY <2>1 DEF fifo_lock_attach
  <2>2. CASE fifo_lock_init(h)
    BY <2>2 DEF fifo_lock_init
  <2>3. CASE fifo_lock_detach(h)
    BY <2>3 DEF fifo_lock_detach
  <2>4. CASE fifo_lock_destroy(h)
    BY <2>4 DEF fifo_lock_destroy
  <2> QED
    BY <1>2, <2>1, <2>2, <2>3, <2>4 DEF LifeCycle
<1>3. ASSUME NEW t \in Thread, Call(t) PROVE CasTicket'
  <2>1. CASE lock_start(t)
    BY <2>1 DEF lock_start
  <2>2. CASE try_start(t)
    BY <2>2 DEF try_start
  <2> QED
    BY <1>3, <2>1, <2>2 DEF Call
<1>4. ASSUME NEW t \in Thread, Step(t) PROVE CasTicket'
  <2>1. CASE lock_get_node(t)
    BY <2>1 DEF lock_get_node, get_node
  <2>2. CASE node_lock(t)
    BY <2>2 DEF node_lock
  <2>3. CASE store_ticket(t)
    BY <2>3 DEF store_ticket
  <2>4. CASE lock_spin(t)
    BY <2>4 DEF lock_spin
  <2>5. CASE lock_check(t)
    BY <2>5 DEF lock_check
  <2>6. CASE unlock_start(t)
    BY <2>6 DEF unlock_start
  <2>7. CASE unlock_serving(t)
    BY <2>7 DEF unlock_serving
  <2>8. CASE unlock_node(t)
    BY <2>8 DEF unlock_node, node_unlock
  <2>9. CASE unlock_thr(t)
    BY <2>9 DEF unlock_thr
  <2>10. CASE try_get_node(t)
    BY <2>10 DEF try_get_node, get_node
  <2>11. CASE node_try_lock(t)
    BY <2>11 DEF node_try_lock, LeakThr
  <2>12. CASE try_load(t)
    BY <2>12 DEF try_load
  <2>13. CASE try_serving(t)
    BY <2>13 DEF try_serving
  <2>14. CASE try_cas(t)
    BY <2>14 DEF try_cas
  <2>15. CASE try_undo(t)
    BY <2>15 DEF try_undo, node_unlock, LeakThr
  <2> QED
    BY <1>4, <2>1, <2>2, <2>3, <2>4, <2>5, <2>6, <2>7, <2>8, <2>9, <2>10, <2>11,
       <2>12, <2>13, <2>14, <2>15 DEF Step
<1> QED
  BY <1>1, <1>2, <1>3, <1>4, NextCases

\* Only its head leaves the queue of a node, and no thread redraws the node
\* of another one.
LEMMA StableStep == NodeInv /\ [Next]_vars => NodeStable'
<1> SUFFICES ASSUME NodeInv, [Next]_vars PROVE NodeStable'
  OBVIOUS
<1> USE FIFOAssumption DEF NodeInv, TypeOK, NodeStable, OwnsNode, MyNode, Goto,
   handles, mainLock
<1>1. CASE UNCHANGED vars
  BY <1>1 DEF vars
<1>2. ASSUME NEW h \in Handle, LifeCycle(h) PROVE NodeStable'
  <2>1. CASE fifo_lock_attach(h)
    BY <2>1 DEF fifo_lock_attach
  <2>2. CASE fifo_lock_init(h)
    BY <2>2 DEF fifo_lock_init, InAttached
  <2>3. CASE fifo_lock_detach(h)
    BY <2>3 DEF fifo_lock_detach
  <2>4. CASE fifo_lock_destroy(h)
    BY <2>4 DEF fifo_lock_destroy
  <2> QED
    BY <1>2, <2>1, <2>2, <2>3, <2>4 DEF LifeCycle
<1>3. ASSUME NEW t \in Thread, Call(t) PROVE NodeStable'
  <2>1. CASE lock_start(t)
    BY <2>1 DEF lock_start
  <2>2. CASE try_start(t)
    BY <2>2 DEF try_start
  <2> QED
    BY <1>3, <2>1, <2>2 DEF Call
<1>4. ASSUME NEW t \in Thread, Step(t) PROVE NodeStable'
  <2>1. CASE lock_get_node(t)
    BY <2>1 DEF lock_get_node, get_node, HandleOwned, OwnsHandle, Locations, Owner
  <2>2. CASE node_lock(t)
    BY <2>2, AppendOwner DEF node_lock
  <2>3. CASE store_ticket(t)
    BY <2>3 DEF store_ticket
  <2>4. CASE lock_spin(t)
    BY <2>4 DEF lock_spin
  <2>5. CASE lock_check(t)
    BY <2>5 DEF lock_check
  <2>6. CASE unlock_start(t)
    BY <2>6 DEF unlock_start
  <2>7. CASE unlock_serving(t)
    BY <2>7 DEF unlock_serving
  <2>8. CASE unlock_node(t)
    BY <2>8 DEF unlock_node, node_unlock, Owner
  <2>9. CASE unlock_thr(t)
    BY <2>9 DEF unlock_thr
  <2>10. CASE try_get_node(t)
    BY <2>10 DEF try_get_node, get_node, HandleOwned, OwnsHandle, Locations, Owner
  <2>11. CASE node_try_lock(t)
    <3>1. CASE node_queue[MyNode(t)] = <<>>
      <4>1. node_queue' = [node_queue EXCEPT ![MyNode(t)] = <<t>>]
        BY <2>11, <3>1 DEF node_try_lock
      <4>2. my_node' = my_node /\ Goto(t, "try_load")
        BY <2>11, <3>1 DEF node_try_lock
      <4>3. ASSUME NEW u \in Thread, pc'[u] \in OwnsNode
            PROVE  Owner(node_queue'[MyNode(u)], u)
        <5>1. CASE u = t
          BY <4>1, <5>1, SingletonOwner
        <5>2. CASE u # t
          BY <3>1, <4>1, <4>2, <4>3, <5>2 DEF Owner
        <5> QED
          BY <5>1, <5>2
      <4> QED
        BY <4>2, <4>3
    <3>2. CASE node_queue[MyNode(t)] # <<>>
      BY <2>11, <3>2 DEF node_try_lock
    <3> QED
      BY <3>1, <3>2
  <2>12. CASE try_load(t)
    BY <2>12 DEF try_load
  <2>13. CASE try_serving(t)
    BY <2>13 DEF try_serving
  <2>14. CASE try_cas(t)
    BY <2>14 DEF try_cas
  <2>15. CASE try_undo(t)
    <3>1. pc[t] = "try_undo" /\ node_unlock(t) /\ Goto(t, "idle")
      BY <2>15 DEF try_undo
    <3> QED
      BY <3>1 DEF node_unlock, Owner
  <2> QED
    BY <1>4, <2>1, <2>2, <2>3, <2>4, <2>5, <2>6, <2>7, <2>8, <2>9, <2>10, <2>11,
       <2>12, <2>13, <2>14, <2>15 DEF Step
<1> QED
  BY <1>1, <1>2, <1>3, <1>4, NextCases

\* The queues of handles and nodes, and the node of every handle, stay
\* consistent under lock, unlock, try_lock and the life cycle.
THEOREM NodeInvariant == Spec => []NodeInv
<1>1. NodeInv /\ [Next]_vars => NodeInv'
  BY TypeStep, AttachedStep, HandleStep, CasStep, StableStep DEF NodeInv
<1> QED
  BY InitNode, <1>1, PTL DEF Spec

\* The words of the main lock, of the nodes and of the handles stay in their types,
\* the unwrapped ticket_counter of try_lock included.
THEOREM TypeCorrect == Spec => []TypeOK
<1>1. NodeInv => TypeOK
  BY DEF NodeInv
<1> QED
  BY NodeInvariant, <1>1, PTL

\* A thread keeps the sub-lock of its node, and my_node names it, until
\* unlock or a failing try_lock releases the sub-lock.
THEOREM NodeKept == Spec => []NodeStable
<1>1. NodeInv => NodeStable
  BY DEF NodeInv
<1> QED
  BY NodeInvariant, <1>1, PTL

-----------------------------------------------------------------------------
(* Without try_lock                                                        *)

\* Where no thread calls try_lock, none is inside it.
LEMMA NoTryStep ==
  ASSUME use.try = {}, NodeInv, NoTry, [Next]_vars
  PROVE  NoTry'
<1> USE DEF NodeInv, TypeOK, NoTry, Trying, Goto
<1>1. CASE UNCHANGED vars
  BY <1>1 DEF vars
<1>2. ASSUME NEW h \in Handle, LifeCycle(h) PROVE NoTry'
  <2>1. CASE fifo_lock_attach(h)
    BY <2>1 DEF fifo_lock_attach
  <2>2. CASE fifo_lock_init(h)
    BY <2>2 DEF fifo_lock_init
  <2>3. CASE fifo_lock_detach(h)
    BY <2>3 DEF fifo_lock_detach
  <2>4. CASE fifo_lock_destroy(h)
    BY <2>4 DEF fifo_lock_destroy
  <2> QED
    BY <1>2, <2>1, <2>2, <2>3, <2>4 DEF LifeCycle
<1>3. ASSUME NEW t \in Thread, Call(t) PROVE NoTry'
  <2>1. CASE lock_start(t)
    BY <2>1 DEF lock_start
  <2>2. CASE try_start(t)
    BY <2>2 DEF try_start
  <2> QED
    BY <1>3, <2>1, <2>2 DEF Call
<1>4. ASSUME NEW t \in Thread, Step(t) PROVE NoTry'
  <2>1. CASE lock_get_node(t)
    BY <2>1 DEF lock_get_node, get_node
  <2>2. CASE node_lock(t)
    BY <2>2 DEF node_lock
  <2>3. CASE store_ticket(t)
    BY <2>3 DEF store_ticket
  <2>4. CASE lock_spin(t)
    BY <2>4 DEF lock_spin
  <2>5. CASE lock_check(t)
    BY <2>5 DEF lock_check
  <2>6. CASE unlock_start(t)
    BY <2>6 DEF unlock_start
  <2>7. CASE unlock_serving(t)
    BY <2>7 DEF unlock_serving
  <2>8. CASE unlock_node(t)
    BY <2>8 DEF unlock_node, node_unlock
  <2>9. CASE unlock_thr(t)
    BY <2>9 DEF unlock_thr
  <2>10. CASE try_get_node(t)
    BY <2>10 DEF try_get_node, get_node
  <2>11. CASE node_try_lock(t)
    BY <2>11 DEF node_try_lock, LeakThr
  <2>12. CASE try_load(t)
    BY <2>12 DEF try_load
  <2>13. CASE try_serving(t)
    BY <2>13 DEF try_serving
  <2>14. CASE try_cas(t)
    BY <2>14 DEF try_cas
  <2>15. CASE try_undo(t)
    BY <2>15 DEF try_undo, node_unlock, LeakThr
  <2> QED
    BY <1>4, <2>1, <2>2, <2>3, <2>4, <2>5, <2>6, <2>7, <2>8, <2>9, <2>10, <2>11,
       <2>12, <2>13, <2>14, <2>15 DEF Step
<1> QED
  BY <1>1, <1>2, <1>3, <1>4, NextCases

\* Two threads past the main spin are the same thread.
LEMMA OneServed ==
  ASSUME Served, NodeStable,
         NEW t \in Thread, pc[t] \in {"check", "held", "unlock_serving"},
         NEW u \in Thread, pc[u] \in {"check", "held", "unlock_serving"}
  PROVE  t = u
BY DEF Served, NodeStable, OwnsNode, Owner

\* now_serving moves only when the one thread it serves lets go.
LEMMA ServedStep ==
  ASSUME NodeInv, NoTry, Served, [Next]_vars
  PROVE  Served'
<1> USE FIFOAssumption DEF NodeInv, TypeOK, Served, MyNode, Goto, handles, mainLock
<1>1. CASE UNCHANGED vars
  BY <1>1 DEF vars
<1>2. ASSUME NEW h \in Handle, LifeCycle(h) PROVE Served'
  <2>1. CASE fifo_lock_attach(h)
    BY <2>1 DEF fifo_lock_attach
  <2>2. CASE fifo_lock_init(h)
    BY <2>2 DEF fifo_lock_init, InAttached
  <2>3. CASE fifo_lock_detach(h)
    BY <2>3 DEF fifo_lock_detach
  <2>4. CASE fifo_lock_destroy(h)
    BY <2>4 DEF fifo_lock_destroy
  <2> QED
    BY <1>2, <2>1, <2>2, <2>3, <2>4 DEF LifeCycle
<1>3. ASSUME NEW t \in Thread, Call(t) PROVE Served'
  <2>1. CASE lock_start(t)
    BY <2>1 DEF lock_start
  <2>2. CASE try_start(t)
    BY <2>2 DEF try_start
  <2> QED
    BY <1>3, <2>1, <2>2 DEF Call
<1>4. ASSUME NEW t \in Thread, Step(t) PROVE Served'
  <2>1. CASE lock_get_node(t)
    BY <2>1 DEF lock_get_node, get_node, HandleOwned, OwnsHandle, Locations, Owner
  <2>2. CASE node_lock(t)
    BY <2>2 DEF node_lock
  <2>3. CASE store_ticket(t)
    BY <2>3 DEF store_ticket
  <2>4. CASE lock_spin(t)
    BY <2>4 DEF lock_spin
  <2>5. CASE lock_check(t)
    BY <2>5 DEF lock_check, NoTry, Trying
  <2>6. CASE unlock_start(t)
    BY <2>6 DEF unlock_start
  <2>7. CASE unlock_serving(t)
    BY <2>7, OneServed DEF unlock_serving
  <2>8. CASE unlock_node(t)
    BY <2>8 DEF unlock_node, node_unlock
  <2>9. CASE unlock_thr(t)
    BY <2>9 DEF unlock_thr
  <2>10. CASE try_get_node(t)
    BY <2>10 DEF try_get_node, get_node, NoTry, Trying
  <2>11. CASE node_try_lock(t)
    BY <2>11 DEF node_try_lock, LeakThr
  <2>12. CASE try_load(t)
    BY <2>12 DEF try_load
  <2>13. CASE try_serving(t)
    BY <2>13 DEF try_serving
  <2>14. CASE try_cas(t)
    BY <2>14 DEF try_cas
  <2>15. CASE try_undo(t)
    BY <2>15 DEF try_undo, node_unlock, LeakThr
  <2> QED
    BY <1>4, <2>1, <2>2, <2>3, <2>4, <2>5, <2>6, <2>7, <2>8, <2>9, <2>10, <2>11,
       <2>12, <2>13, <2>14, <2>15 DEF Step
<1> QED
  BY <1>1, <1>2, <1>3, <1>4, NextCases

\* As long as no thread calls try_lock, the hierarchical lock has one owner.
THEOREM LockExclusion == Spec => []MutualExclusion
<1> DEFINE J == use.try = {} => NoTry /\ Served
<1>1. Init => J
  BY DEF Init, NoTry, Trying, Served
<1>2. NodeInv /\ J /\ [Next]_vars => J'
  <2>1. [Next]_vars => use' = use
    BY DEF Next, vars
  <2> QED
    BY <2>1, NoTryStep, ServedStep
<1>3. NodeInv /\ J => MutualExclusion
  BY OneServed DEF NodeInv, MutualExclusion, Owning
<1> HIDE DEF J
<1> QED
  BY NodeInvariant, <1>1, <1>2, <1>3, PTL DEF Spec
=============================================================================
