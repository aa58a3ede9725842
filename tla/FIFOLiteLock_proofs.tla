------------------------- MODULE FIFOLiteLock_proofs -------------------------
(***************************************************************************)
(* Proofs about the ticket lock, for any number of processes and tickets.  *)
(***************************************************************************)
EXTENDS FIFOLiteLock, TLAPS

\* The inductive invariant: the ticket discipline, and that no ticket is lost.
IInv == TypeOK /\ TicketDiscipline /\ TicketOwned

\* The freshly mapped memory of a lock satisfies the invariant.
LEMMA InitIInv == Init => IInv
BY DEF Init, IInv, TypeOK, TicketDiscipline, TicketOwned, Locations, Ticketed, Served

\* Every step of shared_lock.c's FIFO-lite functions keeps the words and the
\* local variables in their types.
LEMMA TypeStep == TypeOK /\ [Next]_vars => TypeOK'
<1> SUFFICES ASSUME TypeOK, [Next]_vars PROVE TypeOK'
  OBVIOUS
<1> USE DEF TypeOK, Locations
<1>1. CASE UNCHANGED vars
  BY <1>1 DEF vars
<1>2. ASSUME NEW p \in Proc, Call(p) PROVE TypeOK'
  <2>1. CASE lock_attach(p) BY <2>1 DEF lock_attach
  <2>2. CASE lock_init(p)   BY <2>2 DEF lock_init
  <2>3. CASE lock_detach(p) BY <2>3 DEF lock_detach
  <2>4. CASE lock_destroy(p)BY <2>4 DEF lock_destroy
  <2>5. CASE lock_start(p)  BY <2>5 DEF lock_start
  <2>6. CASE try_start(p)   BY <2>6 DEF try_start
  <2> QED  BY <1>2, <2>1, <2>2, <2>3, <2>4, <2>5, <2>6 DEF Call
<1>3. ASSUME NEW p \in Proc, Step(p) PROVE TypeOK'
  <2>1. CASE lock_fetch(p)  BY <2>1 DEF lock_fetch
  <2>2. CASE lock_spin(p)   BY <2>2 DEF lock_spin
  <2>3. CASE lock_check(p)  BY <2>3 DEF lock_check
  <2>4. CASE try_serving(p) BY <2>4 DEF try_serving
  <2>5. CASE try_cas(p)     BY <2>5 DEF try_cas
  <2>6. CASE unlock_start(p)BY <2>6 DEF unlock_start
  <2>7. CASE unlock_add(p)  BY <2>7 DEF unlock_add
  <2> QED  BY <1>3, <2>1, <2>2, <2>3, <2>4, <2>5, <2>6, <2>7 DEF Step
<1> QED
  BY <1>1, <1>2, <1>3 DEF Next

\* Drawing, serving and giving back a ticket keep the ticket discipline.
LEMMA DisciplineStep == IInv /\ [Next]_vars => TicketDiscipline'
<1> SUFFICES ASSUME IInv, [Next]_vars PROVE TicketDiscipline'
  OBVIOUS
<1> USE DEF IInv, TypeOK, TicketDiscipline, Locations, Ticketed, Served
<1>1. CASE UNCHANGED vars
  BY <1>1 DEF vars
<1>2. ASSUME NEW p \in Proc, Call(p) PROVE TicketDiscipline'
  <2>1. CASE lock_attach(p)   BY <2>1 DEF lock_attach
  <2>2. CASE lock_init(p)     BY <2>2 DEF lock_init
  <2>3. CASE lock_detach(p)   BY <2>3 DEF lock_detach
  <2>4. CASE lock_destroy(p)  BY <2>4 DEF lock_destroy
  <2>5. CASE lock_start(p)    BY <2>5 DEF lock_start
  <2>6. CASE try_start(p)     BY <2>6 DEF try_start
  <2> QED  BY <1>2, <2>1, <2>2, <2>3, <2>4, <2>5, <2>6 DEF Call
<1>3. ASSUME NEW p \in Proc, Step(p) PROVE TicketDiscipline'
  <2>1. CASE lock_fetch(p)    BY <2>1 DEF lock_fetch
  <2>2. CASE lock_spin(p)     BY <2>2 DEF lock_spin
  <2>3. CASE lock_check(p)    BY <2>3 DEF lock_check
  <2>4. CASE try_serving(p)   BY <2>4 DEF try_serving
  <2>5. CASE try_cas(p)       BY <2>5 DEF try_cas
  <2>6. CASE unlock_start(p)  BY <2>6 DEF unlock_start
  <2>7. CASE unlock_add(p)    BY <2>7 DEF unlock_add
  <2> QED  BY <1>3, <2>1, <2>2, <2>3, <2>4, <2>5, <2>6, <2>7 DEF Step
<1> QED
  BY <1>1, <1>2, <1>3 DEF Next

\* No step of a live lock loses a ticket: what is drawn stays owned until it is
\* given back, and try_lock draws only what it will use.
LEMMA OwnedStep == IInv /\ [Next]_vars => TicketOwned'
<1> SUFFICES ASSUME IInv, [Next]_vars PROVE TicketOwned'
  OBVIOUS
<1> USE DEF IInv, TypeOK, TicketDiscipline, TicketOwned, Locations, Ticketed, Served
<1>1. CASE UNCHANGED vars
  BY <1>1 DEF vars
<1>2. ASSUME NEW p \in Proc, Call(p) PROVE TicketOwned'
  <2>1. CASE lock_attach(p)   BY <2>1 DEF lock_attach
  <2>2. CASE lock_init(p)     BY <2>2 DEF lock_init
  <2>3. CASE lock_detach(p)   BY <2>3 DEF lock_detach
  <2>4. CASE lock_destroy(p)  BY <2>4 DEF lock_destroy
  <2>5. CASE lock_start(p)    BY <2>5 DEF lock_start
  <2>6. CASE try_start(p)     BY <2>6 DEF try_start
  <2> QED  BY <1>2, <2>1, <2>2, <2>3, <2>4, <2>5, <2>6 DEF Call
<1>3. ASSUME NEW p \in Proc, Step(p) PROVE TicketOwned'
  <2>1. CASE lock_fetch(p)    BY <2>1 DEF lock_fetch
  <2>2. CASE lock_spin(p)     BY <2>2 DEF lock_spin
  <2>3. CASE lock_check(p)    BY <2>3 DEF lock_check
  <2>4. CASE try_serving(p)   BY <2>4 DEF try_serving
  <2>5. CASE try_cas(p)       BY <2>5 DEF try_cas
  <2>6. CASE unlock_start(p)  BY <2>6 DEF unlock_start
  <2>7. CASE unlock_add(p)    BY <2>7 DEF unlock_add
  <2> QED  BY <1>3, <2>1, <2>2, <2>3, <2>4, <2>5, <2>6, <2>7 DEF Step
<1> QED
  BY <1>1, <1>2, <1>3 DEF Next

\* The ticket discipline and the ownership of every drawn ticket hold in every
\* state that the lock's functions reach.
THEOREM Discipline == Spec => []IInv
<1>1. IInv /\ [Next]_vars => IInv'
  BY TypeStep, DisciplineStep, OwnedStep DEF IInv
<1> QED
  BY InitIInv, <1>1, PTL DEF Spec

\* The words of dragonFIFOLiteLock_t stay in their types.
THEOREM TypeCorrect == Spec => []TypeOK
<1>1. IInv => TypeOK
  BY DEF IInv
<1> QED
  BY Discipline, <1>1, PTL

\* Tickets are drawn once each and lie between now_serving and ticket_counter.
THEOREM TicketsDisciplined == Spec => []TicketDiscipline
<1>1. IInv => TicketDiscipline
  BY DEF IInv
<1> QED
  BY Discipline, <1>1, PTL

\* A ticket that is still to be served belongs to a process that will use it.
THEOREM TicketsOwned == Spec => []TicketOwned
<1>1. IInv => TicketOwned
  BY DEF IInv
<1> QED
  BY Discipline, <1>1, PTL

\* dragon_fifolite_lock and try_lock admit one owner at a time, for any number
\* of processes, whatever calls of init, attach, detach and destroy intervene.
THEOREM Exclusion == Spec => []MutualExclusion
<1>1. IInv => MutualExclusion
  BY DEF IInv, TicketDiscipline, MutualExclusion, Ticketed, Served, Owning
<1> QED
  BY <1>1, Discipline, PTL

\* A successful try_lock is served at once.
THEOREM TryServed == Spec => []TryNeverWaits
<1>1. IInv => TryNeverWaits
  BY DEF IInv, TicketDiscipline, TryNeverWaits, Ticketed, Served
<1> QED
  BY <1>1, Discipline, PTL

\* dragon_fifolite_lock_state tells the truth about a live lock.
THEOREM StateAccurate == Spec => []LockStateAccurate
<1>1. IInv => LockStateAccurate
  <2> SUFFICES ASSUME IInv, initd = "INITD"
               PROVE  lock_state = "LOCKED" <=> \E p \in Proc : pc[p] \in Ticketed
    BY DEF LockStateAccurate
  <2>1. ASSUME NEW p \in Proc, pc[p] \in Ticketed PROVE now_serving < ticket_counter
    BY <2>1 DEF IInv, TypeOK, TicketDiscipline
  <2>2. ASSUME now_serving < ticket_counter PROVE \E p \in Proc : pc[p] \in Ticketed
    <3>1. now_serving \in now_serving .. (ticket_counter - 1)
      BY <2>2 DEF IInv, TypeOK
    <3> QED
      BY <3>1 DEF IInv, TicketOwned
  <2> QED
    BY <2>1, <2>2 DEF lock_state
<1> QED
  BY <1>1, Discipline, PTL

-----------------------------------------------------------------------------
(* The ticket lock implements the queue lock.                              *)

\* A step that leaves the tickets and the places of their owners alone is
\* invisible to the queue.
LEMMA Stutter ==
  ASSUME initd' = initd, Waiting' = Waiting, Holding' = Holding,
         \A q \in Waiting \cup Holding : my_ticket'[q] = my_ticket[q]
  PROVE  UNCHANGED Queue!vars
<1>1. Ahead' = Ahead
  BY DEF Ahead
<1> QED
  BY <1>1 DEF Queue!vars

\* Calls: init creates the queue, destroy closes it, the others do nothing to it.
LEMMA CallRefines ==
  ASSUME IInv, NEW p \in Proc, Call(p)
  PROVE  [Queue!Next]_(Queue!vars)
<1> USE DEF IInv, TypeOK, TicketDiscipline, Locations, Ticketed, Served, Owning
<1>1. CASE lock_attach(p)
  BY <1>1, Stutter DEF lock_attach, Waiting, Holding
<1>2. CASE lock_init(p)
  <2>1. Waiting = {} /\ Holding = {} /\ Waiting' = {} /\ Holding' = {}
    BY <1>2 DEF lock_init, Waiting, Holding
  <2>2. Ahead' = Ahead
    BY <2>1 DEF Ahead
  <2>3. Queue!Create
    BY <1>2, <2>1, <2>2 DEF lock_init, Queue!Create
  <2> QED
    BY <2>3 DEF Queue!Next
<1>3. CASE lock_detach(p)
  BY <1>3, Stutter DEF lock_detach, Waiting, Holding
<1>4. CASE lock_destroy(p)
  <2>1. p \notin Waiting /\ Waiting' = Waiting /\ Holding' = Holding \ {p}
    BY <1>4 DEF lock_destroy, Waiting, Holding
  <2>2. Ahead' = [q \in Proc |-> {}]
    BY <1>4 DEF lock_destroy, Ahead
  <2>3. Queue!Destroy(p)
    BY <1>4, <2>1, <2>2 DEF lock_destroy, Queue!Destroy
  <2> QED
    BY <2>3 DEF Queue!Next
<1>5. CASE lock_start(p)
  BY <1>5, Stutter DEF lock_start, Waiting, Holding
<1>6. CASE try_start(p)
  BY <1>6, Stutter DEF try_start, Waiting, Holding
<1> QED
  BY <1>1, <1>2, <1>3, <1>4, <1>5, <1>6 DEF Call

\* Drawing a ticket, by lock or by try_lock, joins the queue behind everybody.
LEMMA DrawRefines ==
  ASSUME IInv, NEW p \in Proc, p \notin Waiting \cup Holding,
         initd' = initd, Waiting' = Waiting \cup {p}, Holding' = Holding,
         my_ticket'[p] = ticket_counter,
         \A q \in Waiting \cup Holding : my_ticket'[q] = my_ticket[q]
  PROVE  Queue!Request(p)
<1>1. \A q \in Waiting \cup Holding :
        my_ticket[q] \in Nat /\ my_ticket[q] < ticket_counter
  BY DEF IInv, TypeOK, TicketDiscipline, Waiting, Holding, Ticketed, Owning
<1>2. ticket_counter \in Nat
  BY DEF IInv, TypeOK
<1>3. Ahead' = [Ahead EXCEPT ![p] =
                  IF initd = "INITD" THEN Waiting \cup Holding ELSE {}]
  <2>1. ASSUME NEW q \in Proc, q # p PROVE Ahead'[q] = Ahead[q]
    BY <1>1, <1>2, <2>1 DEF Ahead
  <2>2. Ahead'[p] = IF initd = "INITD" THEN Waiting \cup Holding ELSE {}
    BY <1>1, <1>2 DEF Ahead
  <2> QED
    BY <2>1, <2>2 DEF Ahead
<1> QED
  BY <1>3 DEF Queue!Request

\* Steps inside a call draw, serve or give back a ticket, or are invisible.
LEMMA StepRefines ==
  ASSUME IInv, NEW p \in Proc, Step(p)
  PROVE  [Queue!Next]_(Queue!vars)
<1> USE DEF IInv, TypeOK, TicketDiscipline, Locations, Ticketed, Served, Owning
<1>1. CASE lock_fetch(p)
  <2>1. Queue!Request(p)
    BY <1>1, DrawRefines DEF lock_fetch, Waiting, Holding
  <2> QED
    BY <2>1 DEF Queue!Next
<1>2. CASE lock_spin(p)
  BY <1>2, Stutter DEF lock_spin, Waiting, Holding
<1>3. CASE lock_check(p)
  <2>1. CASE initd = "INITD"
    <3>1. p \in Waiting /\ Waiting' = Waiting \ {p} /\ Holding' = Holding \cup {p}
      BY <1>3, <2>1 DEF lock_check, Waiting, Holding
    <3>2. Holding = {}
      BY <1>3 DEF lock_check, Holding
    <3>3. Ahead[p] = {}
      BY <1>3 DEF lock_check, Ahead, Waiting, Holding
    <3>4. Ahead' = Ahead
      BY <1>3, <3>1, <3>3 DEF lock_check, Ahead, Waiting, Holding
    <3>5. Queue!Grant(p)
      BY <1>3, <2>1, <3>1, <3>2, <3>3, <3>4 DEF lock_check, Queue!Grant
    <3> QED
      BY <3>5 DEF Queue!Next
  <2>2. CASE initd # "INITD"
    <3>1. Waiting' = Waiting \ {p} /\ Holding' = Holding \ {p}
      BY <1>3, <2>2 DEF lock_check, Waiting, Holding
    <3>2. Ahead' = Ahead
      BY <1>3, <2>2 DEF lock_check, Ahead
    <3>3. Queue!GiveUp(p)
      BY <1>3, <2>2, <3>1, <3>2 DEF lock_check, Queue!GiveUp
    <3> QED
      BY <3>3 DEF Queue!Next
  <2> QED
    BY <2>1, <2>2
<1>4. CASE try_serving(p)
  BY <1>4, Stutter DEF try_serving, Waiting, Holding
<1>5. CASE try_cas(p)
  <2>1. CASE ticket_counter = my_ticket[p]
    <3>1. Queue!Request(p)
      BY <1>5, <2>1, DrawRefines DEF try_cas, Waiting, Holding
    <3> QED
      BY <3>1 DEF Queue!Next
  <2>2. CASE ticket_counter # my_ticket[p]
    BY <1>5, <2>2, Stutter DEF try_cas, Waiting, Holding
  <2> QED
    BY <2>1, <2>2
<1>6. CASE unlock_start(p)
  <2>1. CASE initd = "INITD"
    BY <1>6, <2>1, Stutter DEF unlock_start, Waiting, Holding
  <2>2. CASE initd # "INITD"
    <3>1. Waiting' = Waiting \ {p} /\ Holding' = Holding \ {p}
      BY <1>6, <2>2 DEF unlock_start, Waiting, Holding
    <3>2. Ahead' = Ahead
      BY <1>6, <2>2 DEF unlock_start, Ahead
    <3>3. Queue!GiveUp(p)
      BY <1>6, <2>2, <3>1, <3>2 DEF unlock_start, Queue!GiveUp
    <3> QED
      BY <3>3 DEF Queue!Next
  <2> QED
    BY <2>1, <2>2
<1>7. CASE unlock_add(p)
  <2>1. Holding = {p} /\ Holding' = {} /\ Waiting' = Waiting
    BY <1>7 DEF unlock_add, Waiting, Holding
  <2>2. Ahead' = [q \in Proc |-> Ahead[q] \ {p}]
    <3>1. Waiting' \cup Holding' = (Waiting \cup Holding) \ {p}
      BY <1>7, <2>1 DEF unlock_add, Waiting
    <3> QED
      BY <1>7, <2>1, <3>1 DEF unlock_add, Ahead
  <2>3. Queue!Release(p)
    BY <1>7, <2>1, <2>2 DEF unlock_add, Queue!Release
  <2> QED
    BY <2>3 DEF Queue!Next
<1> QED
  BY <1>1, <1>2, <1>3, <1>4, <1>5, <1>6, <1>7 DEF Step

\* The FIFO-lite lock serves strictly in the order in which tickets were drawn,
\* one owner at a time, and grants nothing after dragon_fifolite_lock_destroy.
THEOREM Refinement == Spec => ImplementsQueue
<1>1. Init => Queue!Init
  BY DEF Init, Queue!Init, Waiting, Holding, Ahead, Owning
<1>2. IInv /\ [Next]_vars => [Queue!Next]_(Queue!vars)
  <2> SUFFICES ASSUME IInv, [Next]_vars PROVE [Queue!Next]_(Queue!vars)
    OBVIOUS
  <2>1. CASE UNCHANGED vars
    BY <2>1, Stutter DEF vars, Waiting, Holding
  <2> QED
    BY <2>1, CallRefines, StepRefines DEF Next
<1> QED
  BY <1>1, <1>2, Discipline, PTL DEF Spec, ImplementsQueue, Queue!Spec
=============================================================================
