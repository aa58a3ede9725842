------------------------- MODULE BCastWakes_proofs -------------------------
(***************************************************************************)
(* Proofs that a trigger of the broadcast object wakes those that wait for *)
(* it and nobody else, for any number of waiters and triggerers, if no     *)
(* call times out and nobody dies.                                         *)
(*                                                                         *)
(* A trigger call that has sent its payload (Busy) finds the waiters it    *)
(* may release counted already: nobody is counted while it is under way    *)
(* (Shut), so whoever is released began to wait before the payload was     *)
(* sent (Woke).                                                            *)
(***************************************************************************)
EXTENDS BCast_proofs

USE ZenonT(20), SMTT(30)

-----------------------------------------------------------------------------
(* The steps of a triggerer, where no call times out and nobody dies       *)

\* Only t has moved, to l.
TGoes(t, l) ==
  /\ TFrame /\ trig' \in [Triggerer -> TrigLocal] /\ Numbers(trig'[t]) /\ trig'[t].at = l
  /\ \A u \in Triggerer \ {t} : trig'[u] = trig[u]

Locks(t) ==
  /\ TAt(t) = "lock" /\ TGoes(t, "count") /\ trig'[t].n = trig[t].n
  /\ lock_free > 0 /\ lock_free' = lock_free - 1 /\ UNCHANGED <<shared, rounds, woken>>
Misses(t) ==
  /\ TAt(t) = "count" /\ TGoes(t, "out") /\ num_waiting = 0
  /\ lock_free' = lock_free + 1 /\ UNCHANGED <<shared, rounds, woken>>
Finds(t) ==
  /\ TAt(t) = "count" /\ TGoes(t, "payload") /\ trig'[t].n = trig[t].n
  /\ trig'[t].num_waiting = num_waiting /\ UNCHANGED <<lock_free, shared, rounds, woken>>
Pays(t) ==
  /\ TAt(t) = "payload" /\ TGoes(t, "begin") /\ trig'[t].n = trig[t].n
  /\ trig'[t].num_waiting = trig[t].num_waiting /\ rounds' = rounds + 1
  /\ UNCHANGED <<lock_free, num_waiting, num_triggered, triggering, allowable_count, spin_list, woken>>
Fails(t) ==
  /\ TAt(t) = "begin" /\ TGoes(t, "out") /\ trig[t].n # All /\ num_triggered' = 0
  /\ UNCHANGED <<lock_free, num_waiting, triggering, allowable_count, spin_list, rounds, woken>>
Opens(t) ==
  /\ TAt(t) = "begin" /\ TGoes(t, "scan")
  /\ trig'[t].n = IF trig[t].n = All THEN trig[t].num_waiting ELSE trig[t].n
  /\ trig'[t].num_spinners = 0 /\ num_triggered' = 0 /\ triggering' = 1 /\ woken' = 0
  /\ UNCHANGED <<lock_free, num_waiting, allowable_count, spin_list, rounds>>
Marks(t) ==
  /\ TAt(t) = "scan" /\ TGoes(t, "scan") /\ trig'[t].n = trig[t].n
  /\ trig'[t].num_spinners = trig[t].num_spinners + 1 /\ woken' = woken + 1
  /\ trig[t].idx \in Slot /\ spin_list[trig[t].idx] = 1
  /\ spin_list' = [spin_list EXCEPT ![trig[t].idx] = 2]
  /\ UNCHANGED <<lock_free, num_waiting, num_triggered, triggering, allowable_count, rounds>>
Skips(t) ==
  /\ TAt(t) = "scan" /\ (TGoes(t, "scan") \/ TGoes(t, "allow"))
  /\ trig'[t].n = trig[t].n /\ trig'[t].num_spinners = trig[t].num_spinners
  /\ UNCHANGED <<lock_free, num_waiting, num_triggered, triggering, allowable_count, spin_list,
                 rounds, woken>>
Allows(t) ==
  /\ TAt(t) = "allow" /\ TGoes(t, "poll") /\ trig'[t].n = trig[t].n
  /\ allowable_count' = trig[t].n - trig[t].num_spinners
  /\ UNCHANGED <<lock_free, num_waiting, num_triggered, triggering, spin_list, rounds, woken>>
Completes(t) ==
  /\ TAt(t) = "poll" /\ TGoes(t, "out") /\ Finished(t)
  /\ allowable_count' = 0 /\ triggering' = 0
  /\ lock_free' = IF Sync THEN lock_free ELSE lock_free + 1
  /\ UNCHANGED <<num_waiting, num_triggered, spin_list, rounds, woken>>
Abandons(t) ==
  /\ TAt(t) = "poll" /\ TGoes(t, "out") /\ shutting_down # "no"
  /\ UNCHANGED <<lock_free, shared, rounds, woken>>

\* Where no call times out and nobody is dead, a step of a triggerer is one of these.
LEMMA TrigKinds ==
  ASSUME TrigType, NEW t \in Triggerer, TSteps(t), TrigEffect(t), Untimed,
         \A w \in Waiter : At(w) # "dead"
  PROVE  \/ Locks(t) \/ Misses(t) \/ Finds(t) \/ Pays(t) \/ Fails(t) \/ Opens(t) \/ Marks(t)
         \/ Skips(t) \/ Allows(t) \/ Completes(t) \/ Abandons(t)
<1>0. /\ trig \in [Triggerer -> TrigLocal] /\ trig[t] \in TrigLocal /\ Numbers(trig[t])
      /\ proc_list \subseteq Waiter
  BY DEF TrigType
<1>a. TFrame /\ TGoes(t, trig'[t].at)
  BY DEF TrigEffect, TOnly, TGoes
<1>b. NotTriggering.at = "out"
  BY DEF NotTriggering, Triggering
<1>c. TReturn(t) => trig'[t].at = "out"
  BY <1>0, <1>b DEF TReturn
<1>d. ASSUME NEW l, TGoto(t, l)
      PROVE  /\ trig'[t].at = l /\ trig'[t].n = trig[t].n /\ trig'[t].num_waiting = trig[t].num_waiting
             /\ trig'[t].num_spinners = trig[t].num_spinners
  <2> DEFINE e == [trig[t] EXCEPT !.at = l]
  <2>1. /\ e.at = l /\ e.n = trig[t].n /\ e.num_waiting = trig[t].num_waiting
        /\ e.num_spinners = trig[t].num_spinners
    BY <1>0, Zenon DEF TrigLocal
  <2>2. trig' = [trig EXCEPT ![t] = e]
    BY <1>d DEF TGoto
  <2> HIDE DEF e
  <2> QED
    BY <1>0, <2>1, <2>2
<1>1. CASE trig_lock(t)
  BY <1>1, <1>a, <1>d DEF trig_lock, Locks
<1>2. CASE trig_count(t)
  <2>1. TAt(t) = "count" /\ UNCHANGED <<shared, rounds, woken>>
    BY <1>2, Zenon DEF trig_count
  <2>2. CASE num_waiting = 0 /\ TReturn(t) /\ lock_free' = lock_free + 1
    BY <1>a, <1>c, <2>1, <2>2 DEF Misses
  <2>3. CASE /\ trig' = [trig EXCEPT ![t] = [@ EXCEPT !.at = "payload", !.num_waiting = num_waiting]]
             /\ UNCHANGED lock_free
    <3> DEFINE e == [trig[t] EXCEPT !.at = "payload", !.num_waiting = num_waiting]
    <3>1. e.at = "payload" /\ e.n = trig[t].n /\ e.num_waiting = num_waiting
      BY <1>0, Zenon DEF TrigLocal
    <3>2. trig' = [trig EXCEPT ![t] = e] /\ UNCHANGED lock_free
      BY <2>3, Zenon
    <3> HIDE DEF e
    <3>3. trig'[t] = e
      BY <1>0, <3>2
    <3> QED
      BY <1>a, <2>1, <3>1, <3>2, <3>3 DEF Finds
  <2> QED
    BY <1>2, <2>2, <2>3, Zenon DEF trig_count
<1>3. CASE trig_payload(t)
  BY <1>3, <1>a, <1>d DEF trig_payload, Pays
<1>4. CASE trig_begin(t)
  <2> DEFINE seen == trig[t].num_waiting
             n == IF trig[t].n = All THEN seen ELSE trig[t].n
  <2>1. /\ TAt(t) = "begin" /\ num_triggered' = 0
        /\ UNCHANGED <<lock_free, num_waiting, allowable_count, spin_list, rounds>>
    BY <1>4, Zenon DEF trig_begin
  <2>2. seen \in Nat /\ trig[t].num_spinners = 0
    BY <1>0, <2>1 DEF Numbers, TAt, TrigLocal
  <2>3. CASE TReturn(t) /\ UNCHANGED <<triggering, woken>> /\ seen < n
    BY <1>a, <1>c, <2>1, <2>2, <2>3 DEF Fails
  <2>4. CASE /\ triggering' = 1 /\ woken' = 0
             /\ trig' = [trig EXCEPT ![t] = [@ EXCEPT !.at = "scan", !.n = n,
                                                      !.spinner_count = spin_list_count]]
    <3> DEFINE m == n
               e == [trig[t] EXCEPT !.at = "scan", !.n = m, !.spinner_count = spin_list_count]
    <3>1. trig' = [trig EXCEPT ![t] = e] /\ triggering' = 1 /\ woken' = 0
      BY <2>4, Zenon
    <3>2. m = IF trig[t].n = All THEN seen ELSE trig[t].n
      OBVIOUS
    <3> HIDE DEF m
    <3>3. e.at = "scan" /\ e.n = m /\ e.num_spinners = trig[t].num_spinners
      BY <1>0, Zenon DEF TrigLocal
    <3> HIDE DEF e
    <3>4. trig'[t] = e
      BY <1>0, <3>1
    <3> QED
      BY <1>a, <2>1, <2>2, <3>1, <3>2, <3>3, <3>4 DEF Opens
  <2> QED
    BY <1>4, <2>3, <2>4, Zenon DEF trig_begin
<1>5. CASE trig_scan(t)
  <2> DEFINE i == trig[t].idx
             more == /\ trig[t].num_spinners < trig[t].spinner_count
                     /\ i <= SpinListSz
                     /\ trig[t].num_spinners < trig[t].n
  <2>1. /\ TAt(t) = "scan"
        /\ UNCHANGED <<lock_free, num_waiting, num_triggered, triggering, allowable_count, rounds>>
    BY <1>5, Zenon DEF trig_scan
  <2>2. i \in 1 .. SpinListSz + 1 /\ SpinListSz \in Nat /\ trig[t].at = "scan"
    BY <1>0, <2>1 DEF TrigLocal, TrigType, Fits, TAt
  <2>3. CASE /\ more /\ spin_list[i] = 1
             /\ spin_list' = [spin_list EXCEPT ![i] = 2] /\ woken' = woken + 1
             /\ trig' = [trig EXCEPT ![t] = [@ EXCEPT !.idx = i + 1,
                                              !.num_spinners = trig[t].num_spinners + 1]]
    <3> DEFINE k == trig[t].num_spinners + 1
               j == i + 1
               e == [trig[t] EXCEPT !.idx = j, !.num_spinners = k]
    <3>1. i \in Slot
      BY <2>2, <2>3 DEF Slot
    <3>2. /\ trig' = [trig EXCEPT ![t] = e] /\ spin_list[i] = 1
          /\ spin_list' = [spin_list EXCEPT ![i] = 2] /\ woken' = woken + 1
      BY <2>3, Zenon
    <3>3. k = trig[t].num_spinners + 1
      OBVIOUS
    <3> HIDE DEF k, j
    <3>4. e.at = trig[t].at /\ e.n = trig[t].n /\ e.num_spinners = k
      BY <1>0, Zenon DEF TrigLocal
    <3> HIDE DEF e
    <3>5. trig'[t] = e
      BY <1>0, <3>2
    <3> QED
      BY <1>a, <2>1, <2>2, <3>1, <3>2, <3>3, <3>4, <3>5 DEF Marks
  <2>4. CASE UNCHANGED <<spin_list, woken>> /\ trig' = [trig EXCEPT ![t].idx = i + 1]
    <3> DEFINE j == i + 1
               e == [trig[t] EXCEPT !.idx = j]
    <3>1. trig' = [trig EXCEPT ![t] = e] /\ UNCHANGED <<spin_list, woken>>
      BY <2>4, Zenon
    <3> HIDE DEF j
    <3>2. e.at = trig[t].at /\ e.n = trig[t].n /\ e.num_spinners = trig[t].num_spinners
      BY <1>0, Zenon DEF TrigLocal
    <3> HIDE DEF e
    <3>3. trig'[t] = e
      BY <1>0, <3>1
    <3> QED
      BY <1>a, <2>1, <2>2, <3>1, <3>2, <3>3 DEF Skips
  <2>5. CASE TGoto(t, "allow") /\ UNCHANGED <<spin_list, woken>>
    BY <1>a, <1>d, <2>1, <2>5 DEF Skips
  <2> QED
    BY <1>5, <2>3, <2>4, <2>5, Zenon DEF trig_scan
<1>6. CASE trig_allow(t)
  BY <1>6, <1>a, <1>d DEF trig_allow, Allows
<1>7. CASE _trigger_completion(t)
  BY <1>7, <1>a, <1>c DEF _trigger_completion, unlock_no_sync, Completes
<1>8. CASE trig_shutdown(t)
  BY <1>8, <1>a, <1>c DEF trig_shutdown, Abandons
<1>9. ~trig_timeout(t) /\ ~_check_pids(t)
  BY <1>0 DEF trig_timeout, _check_pids, Untimed
<1> QED
  BY <1>1, <1>2, <1>3, <1>4, <1>5, <1>6, <1>7, <1>8, <1>9 DEF TSteps, TrigStep

-----------------------------------------------------------------------------
(* Who is woken, where no call times out and nobody dies                   *)

\* From sending its payload to its end, a trigger call releases waiters.
Active == {"begin", "scan", "allow", "poll"}
Busy == shutting_down = "no" /\ TIn(Active) # {}
\* The locations of a waiter that has seen that it is triggered.
Released == {"pickup", "leave", "left_uncount", "spin_leave"}

\* A waiter that is counted while a trigger call is busy, or is triggered, began to wait
\* before the payload was sent.
Woke(w) ==
  /\ wait[w].since <= rounds
  /\ Busy /\ At(w) \in Counted => wait[w].since < rounds
  /\ shutting_down = "no" /\ At(w) \in Released => wait[w].since < rounds
  /\ At(w) = "spin_count" => spin_list[wait[w].slot] = 1
  /\ At(w) \in {"spin_entered", "spin"} /\ spin_list[wait[w].slot] = 2 => wait[w].since < rounds
  /\ At(w) \in {"leave", "done"} => wait[w].got > wait[w].since

\* While a trigger call is busy nobody can be counted.
Shut(w) == Busy => At(w) # "spin_count" /\ (At(w) = "idle_count" => ~can_lock)

\* A waiter's own steps keep this.
LEMMA WakeMoves ==
  ASSUME WaitType, NEW w \in Waiter, Steps(w), Frame, Untimed, At(w) \notin GivingUp, Shut(w), Woke(w),
         Busy' <=> Busy, allowable_count > 0 /\ shutting_down = "no" => Busy,
         At(w) \in Holding => wait[w].slot \in Slot /\ spin_list[wait[w].slot] # 0
  PROVE  Woke(w)'
<1> USE DEF Woke, Counted, Released, Shut
<1>0. Typed /\ w \in Waiter /\ num_waiting \in Int /\ payload \in 0 .. MaxRounds
      /\ rounds \in 0 .. MaxRounds /\ release(w) \in Nat /\ rounds' = rounds
      /\ payload = rounds /\ spin_list \in [Slot -> {0, 1, 2}] /\ shutting_down' = shutting_down
  BY DEF WaitType, release, Frame
<1>a. /\ SpinListSz \in Nat /\ wait[w].slot \in 0 .. SpinListSz + 1
      /\ wait[w].since \in Nat /\ wait[w].got \in Nat
  BY DEF WaitType, Typed, Fits, WaitLocal
<1>1. CASE wait_start(w)
  <2>1. PICK m \in Modes : wait' = [wait EXCEPT ![w] = Waiting("gate", m, 0)]
    BY <1>1 DEF wait_start
  <2>2. wait'[w].at = "gate" /\ wait'[w].since = 0
    BY <1>0, <2>1, StartMoves DEF Moved, Only
  <2> QED
    BY <1>0, <2>2 DEF At
<1>2. CASE _bcast_wait_on_triggering(w)
  BY <1>0, <1>a, <1>2, GotoMoves, IsPlace DEF _bcast_wait_on_triggering, shared, Moved, Only, At
<1>3. CASE gate_timeout(w)
  BY <1>0, <1>a, <1>3, ReturnMoves, IsPlace DEF gate_timeout, release, Untimed, Moved, Only, At
<1>4. CASE spin_slot(w)
  <2>1. 1 \in 0 .. SpinListSz + 1
    BY <1>a
  <2> QED
    BY <1>0, <1>a, <1>4, <2>1, SlotMoves, IsPlace DEF spin_slot, Moved, Only, At
<1>5. CASE spin_find(w)
  <2> DEFINE i == wait[w].slot
  <2>1. i \in Slot => i + 1 \in 0 .. SpinListSz + 1
    BY <1>a DEF Slot
  <2>2. At(w) = "spin_find"
    BY <1>5 DEF spin_find
  <2>3. CASE available(i) /\ spin_list' = [spin_list EXCEPT ![i] = 1] /\ Goto(w, "spin_count")
    <3>1. spin_list'[i] = 1
      BY <1>0, <2>3 DEF available
    <3> QED
      BY <1>0, <1>a, <2>2, <2>3, <3>1, GotoMoves, IsPlace DEF Moved, Only, At
  <2>4. CASE i \in Slot /\ GotoSlot(w, "spin_find", i + 1) /\ UNCHANGED spin_list
    BY <1>0, <1>a, <2>1, <2>2, <2>4, SlotMoves, IsPlace DEF Moved, Only, At
  <2>5. CASE GotoSlot(w, "idle_count", 0) /\ UNCHANGED spin_list
    BY <1>0, <1>a, <2>2, <2>5, SlotMoves, IsPlace DEF Moved, Only, At
  <2> QED
    BY <1>5, <2>3, <2>4, <2>5 DEF spin_find
<1>6. CASE spin_count(w)
  BY <1>0, <1>a, <1>6, CountedMoves, IsPlace DEF spin_count, count, unlock_no_sync, Moved, Only, At
<1>7. CASE idle_count(w)
  BY <1>0, <1>a, <1>7, CountedMoves, IsPlace DEF idle_count, count, can_lock, Moved, Only, At
<1>8. CASE refused(w)
  BY <1>0, <1>a, <1>8, GotoMoves, ReturnMoves, IsPlace DEF refused, Moved, Only, At
<1>9. CASE entered(w)
  BY <1>0, <1>a, <1>9, ReleasedMoves, IsPlace DEF entered, Moved, Only, At
<1>10. CASE idle_ticket(w)
  BY <1>0, <1>a, <1>10, GotoMoves, IsPlace DEF idle_ticket, Moved, Only, At
<1>11. CASE idle_miss(w)
  BY <1>0, <1>a, <1>11, GotoMoves, IsPlace DEF idle_miss, shared, Moved, Only, At
<1>12. CASE idle_sleep(w)
  BY <1>0, <1>a, <1>12, GotoMoves, IsPlace DEF idle_sleep, Moved, Only, At
<1>13. CASE idle_wake(w)
  BY <1>0, <1>a, <1>13, GotoMoves, IsPlace DEF idle_wake, AfterSleep, Moved, Only, At
<1>14. CASE idle_timeout(w)
  BY <1>0, <1>a, <1>14, GotoMoves, ReturnMoves, IsPlace DEF idle_timeout, Untimed, Moved, Only, At
<1>15. CASE relock(w)
  BY <1>0, <1>a, <1>15, ReturnMoves, IsPlace DEF relock, shared, Moved, Only, At
<1>16. CASE spin_exit(w)
  BY <1>0, <1>a, <1>16, GotoMoves, IsPlace DEF spin_exit, shared, Holding, Owning, Moved, Only, At
<1>17. CASE spin_timeout(w)
  BY <1>0, <1>a, <1>17, GotoMoves, IsPlace DEF spin_timeout, Untimed, Moved, Only, At
<1>18. CASE spin_giveup(w)
  BY <1>0, <1>a, <1>18, GotoMoves, IsPlace DEF spin_giveup, GivingUp, Moved, Only, At
<1>19. CASE spin_adapt(w)
  BY <1>0, <1>a, <1>19, GotoMoves, IsPlace DEF spin_adapt, Moved, Only, At
<1>20. CASE clear_slot(w)
  BY <1>0, <1>a, <1>20, GotoMoves, ReturnMoves, IsPlace DEF clear_slot, Holding, GivingUp, Moved,
      Only, At
<1>21. CASE spin_uncount(w)
  BY <1>0, <1>a, <1>21, Uncounts, GotoMoves, ReturnMoves, IsPlace DEF Moved, Only, At
<1>22. CASE pickup(w)
  BY <1>0, <1>a, <1>22, PaidMoves, ReturnMoves, IsPlace DEF pickup, Moved, Only, At
<1>23. CASE leave(w)
  BY <1>0, <1>a, <1>23, GotoMoves, IsPlace DEF leave, Moved, Only, At
<1>24. CASE done(w)
  BY <1>0, <1>a, <1>24, ReturnMoves, IsPlace DEF done, Moved, Only, At
<1> QED
  BY <1>1, <1>2, <1>3, <1>4, <1>5, <1>6, <1>7, <1>8, <1>9, <1>10, <1>11, <1>12, <1>13, <1>14,
      <1>15, <1>16, <1>17, <1>18, <1>19, <1>20, <1>21, <1>22, <1>23, <1>24 DEF Steps, WaitStep,
      TakesLock, Chance

\* allowable_count and woken follow the tickets that are taken.
LEMMA TicketMoves ==
  ASSUME NEW w \in Waiter, Steps(w)
  PROVE  \/ UNCHANGED <<allowable_count, woken>>
         \/ allowable_count > 0 /\ allowable_count' = allowable_count - 1 /\ woken' = woken + 1
<1>1. CASE wait_start(w)
  BY <1>1 DEF wait_start, shared
<1>2. CASE _bcast_wait_on_triggering(w)
  BY <1>2 DEF _bcast_wait_on_triggering, shared
<1>3. CASE gate_timeout(w)
  BY <1>3 DEF gate_timeout, shared
<1>4. CASE spin_slot(w)
  BY <1>4 DEF spin_slot, shared
<1>5. CASE spin_find(w)
  BY <1>5 DEF spin_find, shared
<1>6. CASE spin_count(w)
  BY <1>6 DEF spin_count, shared, count
<1>7. CASE idle_count(w)
  BY <1>7 DEF idle_count, shared, count
<1>8. CASE refused(w)
  BY <1>8 DEF refused, shared
<1>9. CASE entered(w)
  BY <1>9 DEF entered, shared
<1>10. CASE idle_ticket(w)
  BY <1>10 DEF idle_ticket, shared
<1>11. CASE idle_miss(w)
  BY <1>11 DEF idle_miss, shared
<1>12. CASE idle_sleep(w)
  BY <1>12 DEF idle_sleep, shared
<1>13. CASE idle_wake(w)
  BY <1>13 DEF idle_wake, shared
<1>14. CASE idle_timeout(w)
  BY <1>14 DEF idle_timeout, shared
<1>15. CASE relock(w)
  BY <1>15 DEF relock, shared
<1>16. CASE spin_exit(w)
  BY <1>16 DEF spin_exit, shared
<1>17. CASE spin_timeout(w)
  BY <1>17 DEF spin_timeout, shared
<1>18. CASE spin_giveup(w)
  BY <1>18 DEF spin_giveup, shared
<1>19. CASE spin_adapt(w)
  BY <1>19 DEF spin_adapt, shared
<1>20. CASE clear_slot(w)
  BY <1>20 DEF clear_slot, shared
<1>21. CASE spin_uncount(w)
  BY <1>21 DEF spin_uncount, shared
<1>22. CASE pickup(w)
  BY <1>22 DEF pickup, shared
<1>23. CASE leave(w)
  BY <1>23 DEF leave, shared
<1>24. CASE done(w)
  BY <1>24 DEF done, shared
<1> QED
  BY <1>1, <1>2, <1>3, <1>4, <1>5, <1>6, <1>7, <1>8, <1>9, <1>10, <1>11, <1>12,
     <1>13, <1>14, <1>15, <1>16, <1>17, <1>18, <1>19, <1>20, <1>21, <1>22, <1>23, <1>24
     DEF Steps, WaitStep, TakesLock, Chance

\* Tickets are there only while a trigger call waits for the pick-ups, and with the waiters
\* released they are no more than it was asked to release.
Tickets ==
  /\ allowable_count > 0 => shutting_down # "no" \/ TIn({"poll"}) # {}
  /\ shutting_down # "no" => \A t \in Triggerer : TAt(t) \in {"out", "poll"}
  /\ \A t \in Triggerer : TAt(t) \in {"scan", "allow"} => woken = trig[t].num_spinners
  /\ \A t \in Triggerer : TAt(t) = "poll" => woken + allowable_count <= trig[t].n

WakeInv == (\A w \in Waiter : Woke(w)) /\ Tickets

\* One trigger call at a time, and nobody is counted while it is busy.
Alone == (\A t, u \in TIn(Locking) : t = u) /\ \A w \in Waiter : Shut(w)

\* At first nobody waits and there are no tickets.
LEMMA WakeInit == ASSUME Init PROVE WakeInv
<1>1. NotWaiting.at = "out" /\ NotWaiting.since = 0
  BY DEF NotWaiting, Waiting
<1>2. NotTriggering.at = "out"
  BY DEF NotTriggering, Triggering
<1> HIDE DEF NotWaiting, NotTriggering
<1>3. (\A w \in Waiter : At(w) = "out" /\ wait[w].since = 0) /\ \A t \in Triggerer : TAt(t) = "out"
  BY <1>1, <1>2 DEF Init, At, TAt
<1>4. rounds = 0 /\ allowable_count = 0 /\ shutting_down = "no"
  BY DEF Init
<1> QED
  BY <1>3, <1>4 DEF WakeInv, Woke, Tickets, Counted, Released

\* A trigger call stays busy, or is not.
LEMMA BusyGoes ==
  ASSUME NEW t \in Triggerer, NEW l, TGoes(t, l), Triggerer' = Triggerer
  PROVE  /\ l \in Active /\ TAt(t) \in Active => (Busy' <=> Busy)
         /\ l \notin Active /\ Busy' => Busy
<1>1. /\ shutting_down' = shutting_down /\ trig'[t].at = l
      /\ \A u \in Triggerer \ {t} : trig'[u] = trig[u]
  BY DEF TGoes, TFrame
<1> QED
  BY <1>1 DEF Busy, TIn, TAt

\* A step of a waiter keeps the invariant.
LEMMA WaitWakes ==
  ASSUME TypeInv, SlotInv, Untimed, Alone, WakeInv, Same, NEW w \in Waiter, Steps(w), WaitEffect(w)
  PROVE  WakeInv'
<1>1. /\ WaitType /\ Fits /\ spin_list \in [Slot -> {0, 1, 2}] /\ allowable_count \in Nat /\ woken \in Nat
      /\ Waiter' = Waiter /\ Triggerer' = Triggerer /\ trig \in [Triggerer -> TrigLocal]
  BY TypeHas DEF TypeInv, Same
<1>2. PICK l \in Alive : Effect(w, l)
  BY DEF WaitEffect
<1>3. /\ Frame /\ \A x \in Waiter \ {w} : wait'[x] = wait[x]
      /\ UNCHANGED <<trig, rounds, shutting_down>>
  BY <1>2 DEF Effect, Only, Frame
<1>4. Busy' <=> Busy
  BY <1>1, <1>3, TInSame DEF Busy
<1>5. allowable_count > 0 /\ shutting_down = "no" => Busy
  BY DEF WakeInv, Tickets, Busy, TIn, Active
<1>6. Woke(w)'
  BY <1>1, <1>3, <1>4, <1>5, WakeMoves DEF SlotInv, Alone, WakeInv
<1>7. ASSUME NEW x \in Waiter \ {w}
      PROVE  Woke(x)'
  <2>1. wait'[x] = wait[x] /\ Woke(x) /\ At(x)' = At(x)
    BY <1>3 DEF WakeInv, At
  <2>2. At(x) \in Holding => spin_list'[wait[x].slot] = spin_list[wait[x].slot]
    <3>1. Keeps(w) \/ Takes(w) \/ Gives(w)
      BY <1>1, SlotSteps DEF SlotInv
    <3>2. At(x) \in Holding => /\ wait[x].slot \in Slot /\ spin_list[wait[x].slot] # 0
                               /\ At(w) \in Holding => wait[w].slot # wait[x].slot
      BY DEF SlotInv
    <3> QED
      BY <1>1, <3>1, <3>2 DEF Keeps, Takes, Gives
  <2> QED
    BY <1>3, <1>4, <2>1, <2>2 DEF Woke, Holding, Owning
<1>8. Tickets'
  <2>1. CASE UNCHANGED <<allowable_count, woken>>
    BY <1>1, <1>3, <2>1 DEF WakeInv, Tickets, TIn, TAt
  <2>2. CASE allowable_count > 0 /\ allowable_count' = allowable_count - 1 /\ woken' = woken + 1
    <3>1. \A t \in Triggerer : TAt(t) \notin {"scan", "allow"}
      BY <2>2 DEF WakeInv, Tickets, Alone, TIn, Locking
    <3>2. \A t \in Triggerer : TAt(t)' = TAt(t)
      BY <1>3 DEF TAt
    <3>3. \A t \in Triggerer : TAt(t) = "poll" => trig[t].n \in Nat
      BY DEF TypeInv, Numbers, TAt
    <3> QED
      BY <1>1, <1>3, <2>2, <3>1, <3>2, <3>3 DEF WakeInv, Tickets, TIn
  <2> QED
    BY <2>1, <2>2, TicketMoves
<1> QED
  BY <1>1, <1>6, <1>7, <1>8 DEF WakeInv

\* A step of a triggerer keeps the invariant.
LEMMA TrigWakes ==
  ASSUME TypeInv, Untimed, Alone, WakeInv, Same, NEW t \in Triggerer, TSteps(t), TrigEffect(t),
         \A w \in Waiter : At(w) # "dead"
  PROVE  WakeInv'
<1>1. /\ TrigType /\ Fits /\ spin_list \in [Slot -> {0, 1, 2}] /\ allowable_count \in Nat /\ woken \in Nat
      /\ rounds \in Nat /\ Waiter' = Waiter /\ Triggerer' = Triggerer /\ Numbers(trig[t])
      /\ \A w \in Waiter : wait[w].since \in Nat
      /\ trig[t].num_spinners \in Nat /\ (TAt(t) \in {"scan", "allow", "poll"} => trig[t].n \in Nat)
  BY TypeHas DEF TypeInv, Same, WaitLocal, TrigLocal, Numbers, TAt
<1>2. wait' = wait /\ shutting_down' = shutting_down /\ \A w \in Waiter : At(w)' = At(w)
  BY DEF TrigEffect, TFrame, At
<1>3. ASSUME rounds' = rounds, spin_list' = spin_list, Busy' => Busy
      PROVE  \A w \in Waiter : Woke(w)'
  BY <1>1, <1>2, <1>3 DEF WakeInv, Woke
<1>4. TAt(t) \in Locking => \A u \in Triggerer \ {t} : TAt(u) \notin Locking
  BY DEF Alone, TIn
<1>5. shutting_down # "no" => TAt(t) \in {"out", "poll"}
  BY DEF WakeInv, Tickets
<1>6. ASSUME \A w \in Waiter : Woke(w)', Tickets'
      PROVE  WakeInv'
  BY <1>1, <1>6 DEF WakeInv
<1>7. CASE Locks(t)
  <2>1. \A w \in Waiter : Woke(w)'
    BY <1>1, <1>3, <1>7, BusyGoes DEF Locks, Active, shared
  <2>2. \A u \in Triggerer \ {t} : trig'[u] = trig[u] /\ TAt(u)' = TAt(u)
    BY <1>7 DEF Locks, TGoes, TAt
  <2>3. Tickets'
    BY <1>1, <1>2, <1>4, <1>5, <1>7, <2>2 DEF Locks, TGoes, WakeInv, Tickets, TIn, TAt, Locking, shared
  <2> QED
    BY <1>6, <2>1, <2>3
<1>8. CASE Misses(t)
  <2>1. \A w \in Waiter : Woke(w)'
    BY <1>1, <1>3, <1>8, BusyGoes DEF Misses, Active, shared
  <2>2. \A u \in Triggerer \ {t} : trig'[u] = trig[u] /\ TAt(u)' = TAt(u)
    BY <1>8 DEF Misses, TGoes, TAt
  <2>3. Tickets'
    BY <1>1, <1>2, <1>4, <1>5, <1>8, <2>2 DEF Misses, TGoes, WakeInv, Tickets, TIn, TAt, Locking, shared
  <2> QED
    BY <1>6, <2>1, <2>3
<1>9. CASE Finds(t)
  <2>1. \A w \in Waiter : Woke(w)'
    BY <1>1, <1>3, <1>9, BusyGoes DEF Finds, Active, shared
  <2>2. \A u \in Triggerer \ {t} : trig'[u] = trig[u] /\ TAt(u)' = TAt(u)
    BY <1>9 DEF Finds, TGoes, TAt
  <2>3. Tickets'
    BY <1>1, <1>2, <1>4, <1>5, <1>9, <2>2 DEF Finds, TGoes, WakeInv, Tickets, TIn, TAt, Locking, shared
  <2> QED
    BY <1>6, <2>1, <2>3
<1>10. CASE Pays(t)
  <2>1. \A w \in Waiter : Woke(w)'
    BY <1>1, <1>2, <1>10 DEF Pays, WakeInv, Woke
  <2>2. \A u \in Triggerer \ {t} : trig'[u] = trig[u] /\ TAt(u)' = TAt(u)
    BY <1>10 DEF Pays, TGoes, TAt
  <2>3. Tickets'
    BY <1>1, <1>2, <1>4, <1>5, <1>10, <2>2 DEF Pays, TGoes, WakeInv, Tickets, TIn, TAt, Locking, shared
  <2> QED
    BY <1>6, <2>1, <2>3
<1>11. CASE Fails(t)
  <2>1. \A w \in Waiter : Woke(w)'
    BY <1>1, <1>3, <1>11, BusyGoes DEF Fails, Active, shared
  <2>2. \A u \in Triggerer \ {t} : trig'[u] = trig[u] /\ TAt(u)' = TAt(u)
    BY <1>11 DEF Fails, TGoes, TAt
  <2>3. Tickets'
    BY <1>1, <1>2, <1>4, <1>5, <1>11, <2>2 DEF Fails, TGoes, WakeInv, Tickets, TIn, TAt, Locking, shared
  <2> QED
    BY <1>6, <2>1, <2>3
<1>12. CASE Opens(t)
  <2>1. \A w \in Waiter : Woke(w)'
    BY <1>1, <1>3, <1>12, BusyGoes DEF Opens, Active, shared
  <2>2. \A u \in Triggerer \ {t} : trig'[u] = trig[u] /\ TAt(u)' = TAt(u)
    BY <1>12 DEF Opens, TGoes, TAt
  <2>3. Tickets'
    BY <1>1, <1>2, <1>4, <1>5, <1>12, <2>2 DEF Opens, TGoes, WakeInv, Tickets, TIn, TAt, Locking, shared
  <2> QED
    BY <1>6, <2>1, <2>3
<1>13. CASE Marks(t)
  <2>0. Busy
    BY <1>5, <1>13 DEF Marks, Busy, TIn, Active
  <2>1. ASSUME NEW w \in Waiter PROVE Woke(w)'
    <3>1. At(w) # "spin_count" /\ Woke(w)
      BY <2>0 DEF WakeInv, Alone, Shut
    <3>2. At(w) \in {"spin_entered", "spin"} => wait[w].since < rounds
      BY <2>0, <3>1 DEF Woke, Counted
    <3> QED
      BY <1>2, <1>13, <2>0, <3>1, <3>2 DEF Marks, Woke
  <2>2. \A u \in Triggerer \ {t} : trig'[u] = trig[u] /\ TAt(u)' = TAt(u)
    BY <1>13 DEF Marks, TGoes, TAt
  <2>3. Tickets'
    BY <1>1, <1>2, <1>4, <1>5, <1>13, <2>2 DEF Marks, TGoes, WakeInv, Tickets, TIn, TAt, Locking, shared
  <2> QED
    BY <1>6, <2>1, <2>3
<1>14. CASE Skips(t)
  <2>1. \A w \in Waiter : Woke(w)'
    BY <1>1, <1>3, <1>14, BusyGoes DEF Skips, Active, shared
  <2>2. \A u \in Triggerer \ {t} : trig'[u] = trig[u] /\ TAt(u)' = TAt(u)
    BY <1>14 DEF Skips, TGoes, TAt
  <2>3. Tickets'
    BY <1>1, <1>2, <1>4, <1>5, <1>14, <2>2 DEF Skips, TGoes, WakeInv, Tickets, TIn, TAt, Locking, shared
  <2> QED
    BY <1>6, <2>1, <2>3
<1>15. CASE Allows(t)
  <2>1. \A w \in Waiter : Woke(w)'
    BY <1>1, <1>3, <1>15, BusyGoes DEF Allows, Active, shared
  <2>2. \A u \in Triggerer \ {t} : trig'[u] = trig[u] /\ TAt(u)' = TAt(u)
    BY <1>15 DEF Allows, TGoes, TAt
  <2>3. Tickets'
    BY <1>1, <1>2, <1>4, <1>5, <1>15, <2>2 DEF Allows, TGoes, WakeInv, Tickets, TIn, TAt, Locking, shared, Numbers
  <2> QED
    BY <1>6, <2>1, <2>3
<1>16. CASE Completes(t)
  <2>1. \A w \in Waiter : Woke(w)'
    BY <1>1, <1>3, <1>16, BusyGoes DEF Completes, Active, shared
  <2>2. \A u \in Triggerer \ {t} : trig'[u] = trig[u] /\ TAt(u)' = TAt(u)
    BY <1>16 DEF Completes, TGoes, TAt
  <2>3. Tickets'
    BY <1>1, <1>2, <1>4, <1>5, <1>16, <2>2 DEF Completes, TGoes, WakeInv, Tickets, TIn, TAt, Locking, shared
  <2> QED
    BY <1>6, <2>1, <2>3
<1>17. CASE Abandons(t)
  <2>1. \A w \in Waiter : Woke(w)'
    BY <1>1, <1>3, <1>17, BusyGoes DEF Abandons, Active, shared
  <2>2. \A u \in Triggerer \ {t} : trig'[u] = trig[u] /\ TAt(u)' = TAt(u)
    BY <1>17 DEF Abandons, TGoes, TAt
  <2>3. Tickets'
    BY <1>1, <1>2, <1>4, <1>5, <1>17, <2>2 DEF Abandons, TGoes, WakeInv, Tickets, TIn, TAt, Locking, shared
  <2> QED
    BY <1>6, <2>1, <2>3
<1> QED
  BY <1>1, <1>7, <1>8, <1>9, <1>10, <1>11, <1>12, <1>13, <1>14, <1>15, <1>16, <1>17, TrigKinds

\* Every step keeps the invariant.
LEMMA WakeStep ==
  ASSUME TypeInv, DeadAreMortal, SlotInv, Untimed, Mortal = {}, Alone, WakeInv, [Next]_vars
  PROVE  WakeInv'
<1>1. Same /\ Waiter' = Waiter /\ Triggerer' = Triggerer /\ \A w \in Waiter : At(w) # "dead"
  BY Kinds DEF Same, DeadAreMortal
<1>2. ASSUME NEW w \in Waiter, Steps(w), WaitEffect(w)
      PROVE  WakeInv'
  BY <1>1, <1>2, WaitWakes
<1>3. ASSUME NEW w \in Waiter, Dies(w)
      PROVE  WakeInv'
  BY <1>3 DEF Dies
<1>4. ASSUME NEW t \in Triggerer, TSteps(t), TrigEffect(t)
      PROVE  WakeInv'
  BY <1>1, <1>4, TrigWakes
<1>5. ASSUME UNCHANGED <<wait, rounds, spin_list, allowable_count, woken>>, Busy' => Busy,
             shutting_down' = shutting_down \/ shutting_down' # "no", Tickets'
      PROVE  WakeInv'
  BY <1>1, <1>5 DEF WakeInv, Woke, At
<1>6. ASSUME NEW t \in Triggerer, Begins(t)
      PROVE  WakeInv'
  <2>1. /\ trig'[t].at = "lock" /\ (\A u \in Triggerer \ {t} : trig'[u] = trig[u])
        /\ TAt(t) = "out" /\ shutting_down = "no"
        /\ UNCHANGED <<wait, rounds, spin_list, allowable_count, woken, shutting_down>>
    BY <1>6 DEF Begins, TOnly, shared, object
  <2>2. Busy' => Busy
    BY <1>1, <2>1 DEF Busy, TIn, TAt, Active
  <2>3. Tickets'
    BY <1>1, <2>1 DEF WakeInv, Tickets, TIn, TAt
  <2> QED
    BY <1>5, <2>1, <2>2, <2>3
<1>7. ASSUME reset \/ destroy_start \/ destroy_free \/ UNCHANGED vars
      PROVE  WakeInv'
  <2>1. /\ UNCHANGED <<wait, trig, rounds, spin_list, allowable_count, woken>>
        /\ shutting_down' = shutting_down \/ shutting_down' # "no"
        /\ shutting_down' # "no" => \A t \in Triggerer : TAt(t) \in {"out", "poll"}
    BY <1>7 DEF WakeInv, Tickets, reset, destroy_start, destroy_free, vars, shared, object
  <2>2. Busy' => Busy
    BY <1>1, <2>1 DEF Busy, TIn, TAt
  <2>3. Tickets'
    BY <1>1, <2>1 DEF WakeInv, Tickets, TIn, TAt
  <2> QED
    BY <1>5, <2>1, <2>2, <2>3
<1> QED
  BY <1>2, <1>3, <1>4, <1>6, <1>7, Kinds

-----------------------------------------------------------------------------
(* The phases of a synchronised object                                     *)

Entering == {"spin_entered", "idle_entered"}
Staying == {"idle", "missed", "asleep", "pickup", "leave", "spin_leave", "left_uncount",
            "adapt_uncount"}
\* The waiter that is about to unlock the object.
Closing == {w \in Waiter : At(w) \in Entering /\ wait[w].my_num_waiting = SyncNum}

\* The steps of a waiter: it is counted, becomes official, begins a call, passes the gate,
\* goes on waiting, leaves, or ends its call.
Joins(w) ==
  /\ At(w) \in {"spin_count", "idle_count"} /\ wait'[w].at \in Entering
  /\ wait'[w].my_num_waiting = num_waiting + 1 /\ UNCHANGED <<lock_free, num_triggered>>
Enters(w) ==
  /\ At(w) \in Entering /\ wait'[w].at \in {"spin", "idle"} /\ UNCHANGED num_triggered
  /\ lock_free' = IF w \in Closing THEN lock_free + 1 ELSE lock_free
Comes(w) ==
  /\ At(w) = "out" /\ wait'[w].at = "gate" /\ UNCHANGED <<lock_free, num_triggered>>
Passes(w) ==
  /\ (At(w) = "gate" /\ triggering = 0) \/ At(w) \in {"spin_slot", "spin_find"}
  /\ wait'[w].at \in {"spin_slot", "spin_find", "spin_count", "idle_count"}
  /\ UNCHANGED <<lock_free, num_triggered>>
Stays(w) ==
  /\ At(w) \in Staying \cup {"spin"} /\ wait'[w].at \in Staying
  /\ wait'[w].at \in Released =>
       \/ At(w) \in Released \/ shutting_down # "no" \/ allowable_count > 0
       \/ At(w) = "spin" /\ spin_list[wait[w].slot] # 1
  /\ UNCHANGED <<lock_free, num_triggered>>
Leaves(w) ==
  /\ At(w) = "leave" /\ wait'[w].at = "done" /\ UNCHANGED <<lock_free, num_triggered>>
Ends(w) ==
  /\ \/ At(w) = "done" /\ num_triggered' = num_triggered + 1
     \/ At(w) = "pickup" /\ shutting_down # "no" /\ UNCHANGED num_triggered
  /\ wait'[w].at = "out" /\ UNCHANGED lock_free

\* The locations after a timeout, or of a waiter that is turned away.
Aside == GivingUp \cup {"relock", "refused_slot", "refused_uncount"}

\* Where no call times out and nobody is turned away, a step of a waiter of a synchronised
\* object is one of these.
LEMMA PhaseSteps ==
  ASSUME WaitType, Sync, NEW w \in Waiter, Steps(w), Untimed, ~refused(w), At(w) \notin Aside
  PROVE  Joins(w) \/ Enters(w) \/ Comes(w) \/ Passes(w) \/ Stays(w) \/ Leaves(w) \/ Ends(w)
<1>0. Typed /\ w \in Waiter /\ num_waiting \in Int /\ payload \in 0 .. MaxRounds
      /\ rounds \in 0 .. MaxRounds /\ release(w) \in Nat
  BY DEF WaitType, release
<1>a. SpinListSz \in Nat /\ wait[w].slot \in 0 .. SpinListSz + 1
  BY DEF WaitType, Typed, Fits, WaitLocal
<1> USE DEF Entering, Staying, Released
<1>1. CASE wait_start(w)
  BY <1>0, <1>1, StartMoves, IsPlace DEF wait_start, Comes, shared, Moved, Only, At
<1>2. CASE _bcast_wait_on_triggering(w)
  BY <1>0, <1>2, GotoMoves, IsPlace DEF _bcast_wait_on_triggering, Passes, shared, Moved, Only, At
<1>3. CASE gate_timeout(w)
  BY <1>0, <1>3, ReturnMoves, IsPlace DEF gate_timeout, release, Untimed, Moved, Only, At
<1>4. CASE spin_slot(w)
  <2>1. 1 \in 0 .. SpinListSz + 1
    BY <1>a
  <2> QED
    BY <1>0, <1>4, <2>1, SlotMoves, IsPlace DEF spin_slot, lock_no_sync, Passes, Moved, Only, At
<1>5. CASE spin_find(w)
  <2> DEFINE i == wait[w].slot
  <2>1. i \in Slot => i + 1 \in 0 .. SpinListSz + 1
    BY <1>a DEF Slot
  <2>2. At(w) = "spin_find" /\ UNCHANGED <<lock_free, num_triggered>>
    BY <1>5 DEF spin_find, unlock_no_sync
  <2>3. CASE Goto(w, "spin_count")
    BY <1>0, <2>2, <2>3, GotoMoves, IsPlace DEF Passes, Moved, Only
  <2>4. CASE i \in Slot /\ GotoSlot(w, "spin_find", i + 1)
    BY <1>0, <2>1, <2>2, <2>4, SlotMoves, IsPlace DEF Passes, Moved, Only
  <2>5. CASE GotoSlot(w, "idle_count", 0)
    BY <1>0, <1>a, <2>2, <2>5, SlotMoves, IsPlace DEF Passes, Moved, Only
  <2> QED
    BY <1>5, <2>3, <2>4, <2>5 DEF spin_find
<1>6. CASE spin_count(w)
  BY <1>0, <1>6, CountedMoves, IsPlace DEF spin_count, count, unlock_no_sync, Joins, Moved, Only, At
<1>7. CASE idle_count(w)
  BY <1>0, <1>7, CountedMoves, IsPlace DEF idle_count, count, can_lock, Joins, Moved, Only, At
<1>9. CASE entered(w)
  BY <1>0, <1>9, ReleasedMoves, IsPlace DEF entered, Enters, Closing, Last, Moved, Only, At
<1>10. CASE idle_ticket(w)
  BY <1>0, <1>10, GotoMoves, IsPlace DEF idle_ticket, Stays, Moved, Only, At
<1>11. CASE idle_miss(w)
  BY <1>0, <1>11, GotoMoves, IsPlace DEF idle_miss, Stays, shared, Moved, Only, At
<1>12. CASE idle_sleep(w)
  BY <1>0, <1>12, GotoMoves, IsPlace DEF idle_sleep, Stays, Moved, Only, At
<1>13. CASE idle_wake(w)
  BY <1>0, <1>13, GotoMoves, IsPlace DEF idle_wake, AfterSleep, Stays, Moved, Only, At
<1>14. CASE idle_timeout(w)
  BY <1>0, <1>14, GotoMoves, ReturnMoves, IsPlace DEF idle_timeout, Untimed, Moved, Only, At
<1>15. CASE relock(w)
  BY <1>0, <1>15, ReturnMoves, IsPlace DEF relock, Aside, Moved, Only, At
<1>16. CASE spin_exit(w)
  BY <1>0, <1>16, GotoMoves, IsPlace DEF spin_exit, Stays, shared, Moved, Only, At
<1>17. CASE spin_timeout(w)
  BY <1>0, <1>17, GotoMoves, IsPlace DEF spin_timeout, Untimed, Moved, Only, At
<1>18. CASE spin_giveup(w)
  BY <1>0, <1>18, GotoMoves, IsPlace DEF spin_giveup, Aside, GivingUp, Moved, Only, At
<1>19. CASE spin_adapt(w)
  BY <1>0, <1>19, GotoMoves, IsPlace DEF spin_adapt, Stays, Moved, Only, At
<1>20. CASE clear_slot(w)
  BY <1>0, <1>20, GotoMoves, ReturnMoves, IsPlace DEF clear_slot, Stays, Aside, GivingUp, Moved,
      Only, At
<1>21. CASE spin_uncount(w)
  <2>1. CASE At(w) = "left_uncount" /\ Goto(w, "pickup")
    BY <1>0, <1>21, <2>1, Uncounts, GotoMoves, IsPlace DEF Stays, Moved, Only, At
  <2>2. CASE At(w) = "adapt_uncount" /\ Goto(w, "idle")
    BY <1>0, <1>21, <2>2, Uncounts, GotoMoves, IsPlace DEF Stays, Moved, Only, At
  <2> QED
    BY <1>21, <2>1, <2>2, Uncounts DEF Aside, GivingUp
<1>22. CASE pickup(w)
  BY <1>0, <1>22, PaidMoves, ReturnMoves, IsPlace DEF pickup, Stays, Ends, Moved, Only, At
<1>23. CASE leave(w)
  BY <1>0, <1>23, GotoMoves, IsPlace DEF leave, Leaves, Moved, Only, At
<1>24. CASE done(w)
  BY <1>0, <1>24, ReturnMoves, IsPlace DEF done, Ends, Moved, Only, At
<1> QED
  BY <1>1, <1>2, <1>3, <1>4, <1>5, <1>6, <1>7, <1>9, <1>10, <1>11, <1>12, <1>13, <1>14, <1>15,
      <1>16, <1>17, <1>18, <1>19, <1>20, <1>21, <1>22, <1>23, <1>24 DEF Steps, WaitStep,
      TakesLock, Chance

\* No slot is triggered.
Untriggered == \A w \in Waiter : At(w) \in Owning => spin_list[wait[w].slot] = 1

\* Slots are taken untriggered.
LEMMA SlotsUntriggered ==
  ASSUME WaitType, SlotInv, Untimed, Waiter' = Waiter, NEW w \in Waiter, Steps(w), Untriggered,
         \A x \in Waiter \ {w} : wait'[x] = wait[x],
         wait'[w].at \in Owning => At(w) \notin {"spin_leave", "refused_slot"}
  PROVE  Untriggered'
<1>1. Keeps(w) \/ Takes(w) \/ Gives(w)
  BY SlotSteps DEF SlotInv
<1>2. spin_list \in [Slot -> {0, 1, 2}]
  BY DEF WaitType
<1>3. \A x \in Waiter : At(x) \in Holding =>
        /\ wait[x].slot \in Slot /\ spin_list[wait[x].slot] # 0
        /\ x # w /\ At(w) \in Holding => wait[w].slot # wait[x].slot
  BY DEF SlotInv
<1>4. ASSUME NEW x \in Waiter \ {w}, At(x)' \in Owning
      PROVE  spin_list'[wait'[x].slot] = 1
  <2>1. wait'[x] = wait[x] /\ At(x) \in Holding /\ spin_list[wait[x].slot] = 1
    BY <1>4 DEF At, Holding, Untriggered
  <2> QED
    BY <1>1, <1>2, <1>3, <2>1 DEF Keeps, Takes, Gives
<1>5. ASSUME At(w)' \in Owning
      PROVE  spin_list'[wait'[w].slot] = 1
  <2>1. wait'[w].at \in Holding
    BY <1>5 DEF At, Holding
  <2>2. At(w) \in Holding => At(w) \in Owning
    BY <1>5 DEF At, Holding
  <2> QED
    BY <1>1, <1>2, <2>1, <2>2 DEF Keeps, Takes, Gives, Untriggered
<1> QED
  BY <1>4, <1>5 DEF Untriggered

\* How many may take the lock, or have it.
Open == lock_free + Cardinality(TIn(Locking))
Sending == {"scan", "allow", "poll"}
Away == {"out", "gate"}

\* The waiters gather, nobody being triggered; the last of them opens the object; a trigger
\* call finds them all, and lets them go.
Phase ==
  /\ Open <= 1
  /\ \A v, w \in Closing : v = w
  /\ Open = 1 => Closing = {}
  /\ Open = 1 \/ Closing # {} => Cardinality(Waiter) = SyncNum
  /\ Closing # {} => \A w \in Waiter : At(w) \in Counted
  /\ Open = 0 => triggering = 0
  /\ triggering = 0 => Untriggered /\ \A w \in Waiter : At(w) \notin Released
  /\ Open = 1 /\ triggering = 0 => \A w \in Waiter : At(w) \in Counted
  /\ triggering = 1 => \A w \in Waiter : At(w) \in Counted \cup {"out", "gate", "done"}
  /\ triggering = 1 <=> TIn(Sending) # {}
  /\ \A t \in Triggerer :
       /\ TAt(t) \in {"payload", "begin"} => trig[t].num_waiting = SyncNum
       /\ TAt(t) \in {"lock", "count", "payload", "begin"} => trig[t].n = All

\* A trigger call waits for all sync_num waiters to be back, and counts those that are.
Sent ==
  \A t \in TIn(Sending) :
    trig[t].n = SyncNum /\ triggering = 1 /\ num_triggered <= Cardinality(In(Away))

SyncInv ==
  /\ \A t, u \in TIn(Locking) : t = u
  /\ \A w \in Waiter : At(w) \notin Aside
  /\ Sent
  /\ shutting_down = "no" => Phase

\* At first the object is locked.
LEMMA SyncInit == ASSUME Init, Sync PROVE SyncInv
<1>1. NotWaiting.at = "out" /\ NotTriggering.at = "out"
  BY DEF NotWaiting, Waiting, NotTriggering, Triggering
<1> HIDE DEF NotWaiting, NotTriggering
<1>2. (\A w \in Waiter : At(w) = "out") /\ \A t \in Triggerer : TAt(t) = "out"
  BY <1>1 DEF Init, At, TAt
<1>3. TIn(Locking) = {} /\ TIn(Sending) = {}
  BY <1>2 DEF TIn, Locking, Sending
<1>4. Closing = {} /\ Untriggered
  BY <1>2 DEF Closing, Entering, Untriggered, Owning
<1>5. Open = 0
  BY <1>3, FS_EmptySet DEF Open, Init
<1>6. Phase
  BY <1>2, <1>3, <1>4, <1>5 DEF Phase, Init, Released
<1>7. \A w \in Waiter : At(w) \notin Aside
  BY <1>2 DEF Aside, GivingUp
<1> QED
  BY <1>3, <1>6, <1>7 DEF SyncInv, Sent

\* On either kind of object, one trigger call at a time, and nobody is counted while it is busy.
LEMMA LockedAlone == ASSUME TypeInv, LockInv, ~Sync PROVE Alone
<1>1. Fits /\ lock_free \in Nat
  BY TypeHas DEF TypeInv
<1>2. /\ IsFiniteSet(TIn(Locking)) /\ Cardinality(TIn(Locking)) \in Nat
      /\ IsFiniteSet(In(Searching)) /\ Cardinality(In(Searching)) \in Nat
  BY <1>1, InFinite
<1>3. lock_free + Cardinality(TIn(Locking)) + Cardinality(In(Searching)) <= 1
  BY <1>1, <1>2 DEF LockInv, Taken
<1>4. ASSUME NEW t \in TIn(Locking), NEW u \in TIn(Locking), t # u
      PROVE  FALSE
  <2>1. Cardinality(TIn(Locking) \ {t}) = Cardinality(TIn(Locking)) - 1 /\ IsFiniteSet(TIn(Locking) \ {t})
    BY <1>2, FS_RemoveElement
  <2>2. Cardinality(TIn(Locking) \ {t}) # 0 /\ Cardinality(TIn(Locking) \ {t}) \in Nat
    BY <1>4, <2>1, FS_EmptySet, FS_CardinalityType
  <2> QED
    BY <1>1, <1>2, <1>3, <2>1, <2>2
<1>5. ASSUME NEW w \in Waiter, Busy
      PROVE  At(w) # "spin_count" /\ ~can_lock
  <2>1. TIn(Locking) # {}
    BY <1>5 DEF Busy, TIn, Active, Locking
  <2>2. Cardinality(TIn(Locking)) # 0
    BY <1>2, <2>1, FS_EmptySet
  <2>3. lock_free = 0 /\ Cardinality(In(Searching)) = 0
    BY <1>1, <1>2, <1>3, <2>2
  <2>4. In(Searching) = {}
    BY <1>2, <2>3, FS_EmptySet
  <2> QED
    BY <2>3, <2>4 DEF can_lock, In, Searching
<1> QED
  BY <1>4, <1>5 DEF Alone, Shut

\* The number of callers that may take or have the lock.
LEMMA OpenIs ==
  ASSUME TypeInv
  PROVE  Open \in Nat /\ (TIn(Locking) # {} => Open >= 1) /\ (lock_free > 0 => Open >= 1)
<1>1. Fits /\ lock_free \in Nat
  BY TypeHas DEF TypeInv
<1>2. IsFiniteSet(TIn(Locking)) /\ Cardinality(TIn(Locking)) \in Nat
  BY <1>1, InFinite
<1>3. TIn(Locking) # {} => Cardinality(TIn(Locking)) # 0
  BY <1>2, FS_EmptySet
<1> QED
  BY <1>1, <1>2, <1>3 DEF Open

\* And on a synchronised one.
LEMMA SyncAlone == ASSUME TypeInv, SyncInv PROVE Alone
<1>1. ASSUME NEW w \in Waiter, Busy
      PROVE  At(w) \notin {"spin_count", "idle_count"}
  <2>1. TIn(Locking) # {} /\ Phase
    BY <1>1 DEF Busy, TIn, Active, Locking, SyncInv
  <2>2. Open = 1 /\ triggering \in {0, 1}
    BY <2>1, OpenIs DEF Phase, TypeInv
  <2> QED
    BY <2>1, <2>2 DEF Phase, Counted
<1> QED
  BY <1>1 DEF Alone, Shut, SyncInv

\* If all but one of the waiters that a synchronised object is made for are counted, all are
\* when that one is.
LEMMA LastCounted ==
  ASSUME Fits, NoneTooMany, Sync, num_waiting = Cardinality(In(Counted)), NEW w \in Waiter,
         At(w) \notin Counted, num_waiting + 1 = SyncNum
  PROVE  Cardinality(Waiter) = SyncNum /\ \A x \in Waiter \ {w} : At(x) \in Counted
<1> DEFINE R == Waiter \ {w}
<1>1. IsFiniteSet(Waiter) /\ Cardinality(Waiter) \in Nat /\ SyncNum \in Nat
  BY FS_CardinalityType DEF Fits
<1>2. Cardinality(Waiter) <= SyncNum
  BY DEF NoneTooMany
<1>3. IsFiniteSet(R) /\ Cardinality(R) = Cardinality(Waiter) - 1
  BY <1>1, FS_RemoveElement
<1>4. In(Counted) \in SUBSET R
  BY DEF In
<1> HIDE DEF R
<1>5. /\ Cardinality(In(Counted)) <= Cardinality(R)
      /\ Cardinality(R) = Cardinality(In(Counted)) => R = In(Counted)
  BY <1>3, <1>4, FS_Subset
<1>6. Cardinality(In(Counted)) \in Nat
  BY InFinite
<1>7. Cardinality(Waiter) = SyncNum /\ Cardinality(R) = Cardinality(In(Counted))
  BY <1>1, <1>2, <1>3, <1>5, <1>6
<1> QED
  BY <1>5, <1>7 DEF R, In

\* A step of a waiter keeps the phases apart.
LEMMA WaitPhase ==
  ASSUME TypeInv, SlotInv, CountInv, BoundInv, Untimed, Mortal = {}, NoneTooMany, Sync, WakeInv,
         SyncInv, Same, NEW w \in Waiter, Steps(w), WaitEffect(w), ~refused(w)
  PROVE  SyncInv'
<1> DEFINE l == wait'[w].at
<1>1. /\ WaitType /\ Fits /\ Typed /\ lock_free \in Nat /\ num_triggered \in Nat /\ triggering \in {0, 1}
      /\ Waiter' = Waiter /\ Triggerer' = Triggerer /\ SyncNum' = SyncNum /\ SyncNum \in Nat
      /\ num_waiting = Cardinality(In(Counted))
  BY TypeHas DEF TypeInv, Same, Fits, CountInv
<1>2. /\ UNCHANGED <<trig, shutting_down, triggering>> /\ Only(w, l)
      /\ \A x \in Waiter \ {w} : wait'[x] = wait[x] /\ At(x)' = At(x)
  BY DEF WaitEffect, Effect, Only, Frame, At
<1>3. Joins(w) \/ Enters(w) \/ Comes(w) \/ Passes(w) \/ Stays(w) \/ Leaves(w) \/ Ends(w)
  BY <1>1, PhaseSteps DEF SyncInv
<1>4. /\ TIn(Locking)' = TIn(Locking) /\ TIn(Sending)' = TIn(Sending) /\ At(w)' = l
      /\ \A t \in Triggerer : TAt(t)' = TAt(t)
  BY <1>1, <1>2, TInSame DEF At, TAt
<1>5. \A x \in Waiter : At(x)' \notin Aside
  <2>1. l \notin Aside
    BY <1>3 DEF Joins, Enters, Comes, Passes, Stays, Leaves, Ends, Entering, Staying, Aside, GivingUp
  <2> QED
    BY <1>2, <1>4, <2>1 DEF SyncInv
<1>6. Sent'
  <2> SUFFICES ASSUME NEW t \in TIn(Sending) PROVE num_triggered' <= Cardinality(In(Away))'
    BY <1>2, <1>4, <1>1 DEF Sent, SyncInv
  <2>1. triggering = 1 /\ num_triggered <= Cardinality(In(Away))
    BY DEF SyncInv, Sent
  <2>2. /\ Cardinality(In(Away)) \in Nat /\ Cardinality(In(Away))' \in Nat
        /\ Cardinality(In(Away))' + Is(At(w), Away) = Cardinality(In(Away)) + Is(l, Away)
    BY <1>1, <1>2, InStep
  <2>3. CASE Joins(w) \/ Enters(w) \/ Passes(w) \/ Stays(w) \/ Leaves(w)
    <3>1. Is(At(w), Away) = 0 /\ Is(l, Away) = 0 /\ num_triggered' = num_triggered
      BY <2>1, <2>3 DEF Is, Away, Joins, Enters, Passes, Stays, Leaves, Entering, Staying
    <3> QED
      BY <2>1, <2>2, <3>1
  <2>4. CASE Comes(w)
    <3>1. Is(At(w), Away) = 1 /\ Is(l, Away) = 1 /\ num_triggered' = num_triggered
      BY <2>4 DEF Is, Away, Comes
    <3> QED
      BY <2>1, <2>2, <3>1
  <2>5. CASE Ends(w)
    <3>1. /\ Is(At(w), Away) = 0 /\ Is(l, Away) = 1
          /\ num_triggered' = num_triggered + 1 \/ num_triggered' = num_triggered
      BY <2>5 DEF Is, Away, Ends
    <3> QED
      BY <1>1, <2>1, <2>2, <3>1
  <2> QED
    BY <1>3, <2>3, <2>4, <2>5
<1>7. ASSUME shutting_down = "no"
      PROVE  Phase'
  <2>1. Phase /\ Open \in Nat
    BY <1>7, OpenIs DEF SyncInv
  <2>2. triggering' = triggering /\ (triggering = 1 <=> TIn(Sending) # {})
    BY <1>2, <2>1 DEF Phase
  <2>3. allowable_count > 0 => triggering = 1
    BY <1>7, <2>1 DEF WakeInv, Tickets, Phase, TIn, Sending
  <2>4. Open' = lock_free' + Cardinality(TIn(Locking))
    BY <1>4 DEF Open
  <2>5. triggering = 0 /\ l \in Owning => At(w) \notin {"spin_leave", "refused_slot"}
    BY <2>1 DEF Phase, Released, SyncInv, Aside
  <2>6. triggering = 0 => Untriggered'
    BY <1>1, <1>2, <2>1, <2>5, SlotsUntriggered DEF Phase
  <2>7. /\ \A x \in Waiter \ {w} : x \in Closing' <=> x \in Closing
        /\ w \in Closing => At(w) \in Entering
        /\ w \in Closing' <=> l \in Entering /\ wait'[w].my_num_waiting = SyncNum
        /\ Closing \subseteq Waiter /\ Closing' \subseteq Waiter
    BY <1>1, <1>2, <1>4 DEF Closing
  <2>8. \A t \in Triggerer :
          /\ TAt(t)' \in {"payload", "begin"} => trig'[t].num_waiting = SyncNum
          /\ TAt(t)' \in {"lock", "count", "payload", "begin"} => trig'[t].n = All
    BY <1>2, <1>4, <2>1 DEF Phase
  <2>9. ASSUME Open' <= 1,
               \A v, x \in Closing' : v = x,
               Open' = 1 => Closing' = {},
               Open' = 1 \/ Closing' # {} => Cardinality(Waiter) = SyncNum,
               Closing' # {} => \A x \in Waiter : At(x)' \in Counted,
               Open' = 0 => triggering = 0,
               triggering = 0 => \A x \in Waiter : At(x)' \notin Released,
               Open' = 1 /\ triggering = 0 => \A x \in Waiter : At(x)' \in Counted,
               triggering = 1 => \A x \in Waiter : At(x)' \in Counted \cup {"out", "gate", "done"}
        PROVE  Phase'
    BY <1>1, <1>4, <2>2, <2>6, <2>8, <2>9 DEF Phase
  <2>10. ASSUME lock_free' = lock_free
         PROVE  Open' = Open
    BY <2>4, <2>10 DEF Open
  <2>11. CASE Joins(w)
    <3>1. At(w) \notin Counted \cup {"out", "gate", "done"} /\ l \in Counted \ Released /\ Open' = Open
      BY <2>10, <2>11 DEF Joins, Counted, Entering, Released
    <3>2. triggering = 0 /\ Open = 0 /\ Closing = {}
      BY <1>1, <2>1, <3>1 DEF Phase
    <3>3. w \in Closing' => /\ Cardinality(Waiter) = SyncNum
                            /\ \A x \in Waiter \ {w} : At(x) \in Counted
      BY <1>1, <2>7, <2>11, <3>1, LastCounted DEF Joins
    <3>4. Closing' \subseteq {w}
      BY <2>7, <3>2
    <3>5. \A x \in Waiter : At(x)' \notin Released
      BY <1>2, <1>4, <2>1, <3>1, <3>2 DEF Phase
    <3>6. Closing' # {} => \A x \in Waiter : At(x)' \in Counted
      BY <1>2, <1>4, <3>1, <3>3, <3>4
    <3> QED
      BY <2>9, <3>1, <3>2, <3>3, <3>4, <3>5, <3>6
  <2>12. CASE Enters(w)
    <3>1. At(w) \in Counted /\ l \in Counted \ Released /\ l \notin Entering
      BY <2>12 DEF Enters, Counted, Entering, Released
    <3>2. Closing' = Closing \ {w}
      BY <2>7, <3>1
    <3>3. \A L : (\A x \in Waiter : At(x) \in L) /\ l \in L => \A x \in Waiter : At(x)' \in L
      BY <1>2, <1>4
    <3>4. CASE w \in Closing
      <4>1. Open = 0 /\ triggering = 0 /\ Cardinality(Waiter) = SyncNum /\ \A x \in Waiter : At(x) \in Counted
        BY <2>1, <3>4 DEF Phase
      <4>2. Open' = 1
        BY <1>1, <1>4, <2>12, <3>4, <4>1, InFinite DEF Enters, Open
      <4>3. Closing' = {}
        BY <2>1, <3>2, <3>4 DEF Phase
      <4>4. \A x \in Waiter : At(x)' \notin Released
        BY <1>2, <1>4, <2>1, <3>1, <4>1 DEF Phase
      <4>5. \A x \in Waiter : At(x)' \in Counted
        BY <3>1, <3>3, <4>1
      <4> QED
        BY <2>9, <4>1, <4>2, <4>3, <4>4, <4>5
    <3>5. CASE w \notin Closing
      <4>1. Open' = Open /\ Closing' = Closing
        BY <2>10, <2>12, <3>2, <3>5 DEF Enters
      <4>2. triggering = 0 => \A x \in Waiter : At(x)' \notin Released
        BY <1>2, <1>4, <2>1, <3>1 DEF Phase
      <4>3. (\A x \in Waiter : At(x) \in Counted) => \A x \in Waiter : At(x)' \in Counted
        BY <3>1, <3>3
      <4>4. triggering = 1 => \A x \in Waiter : At(x)' \in Counted \cup {"out", "gate", "done"}
        BY <1>2, <1>4, <2>1, <3>1 DEF Phase
      <4> QED
        BY <2>1, <2>9, <4>1, <4>2, <4>3, <4>4 DEF Phase
    <3> QED
      BY <3>4, <3>5
  <2>13. CASE Comes(w) \/ Passes(w) \/ (Ends(w) /\ At(w) = "done")
    <3>1. /\ At(w) \notin Counted /\ l \notin Counted /\ l \notin Entering /\ Open' = Open
          /\ triggering = 1 => l \in {"out", "gate"}
          /\ At(w) \notin Entering /\ l \notin Released
      <4>1. Passes(w) => triggering = 0
        BY <1>1, <2>1 DEF Passes, Phase, Counted
      <4> QED
        BY <1>1, <2>10, <2>13, <4>1 DEF Comes, Passes, Ends, Counted, Entering, Released
    <3>2. Closing = {} /\ ~(Open = 1 /\ triggering = 0)
      BY <2>1, <3>1 DEF Phase
    <3>3. Closing' = {}
      BY <2>7, <3>1, <3>2
    <3>4. triggering = 0 => \A x \in Waiter : At(x)' \notin Released
      BY <1>2, <1>4, <2>1, <3>1 DEF Phase
    <3>5. triggering = 1 => \A x \in Waiter : At(x)' \in Counted \cup {"out", "gate", "done"}
      BY <1>2, <1>4, <2>1, <3>1 DEF Phase
    <3> QED
      BY <2>1, <2>9, <3>1, <3>2, <3>3, <3>4, <3>5 DEF Phase
  <2>14. CASE Stays(w)
    <3>1. /\ At(w) \in Counted /\ l \in Counted /\ l \notin Entering /\ At(w) \notin Entering
          /\ Open' = Open
      BY <2>10, <2>14 DEF Stays, Counted, Entering, Staying
    <3>2. triggering = 0 => l \notin Released
      BY <1>7, <2>1, <2>3, <2>14 DEF Stays, Phase, Untriggered, Owning
    <3>3. Closing' = Closing
      BY <2>7, <3>1
    <3>4. triggering = 0 => \A x \in Waiter : At(x)' \notin Released
      BY <1>2, <1>4, <2>1, <3>2 DEF Phase
    <3>5. (\A x \in Waiter : At(x) \in Counted) => \A x \in Waiter : At(x)' \in Counted
      BY <1>2, <1>4, <3>1
    <3>6. triggering = 1 => \A x \in Waiter : At(x)' \in Counted \cup {"out", "gate", "done"}
      BY <1>2, <1>4, <2>1, <3>1 DEF Phase
    <3> QED
      BY <2>1, <2>9, <3>1, <3>3, <3>4, <3>5, <3>6 DEF Phase
  <2>15. CASE Leaves(w)
    <3>1. /\ At(w) \in Released /\ l = "done" /\ l \notin Entering /\ At(w) \notin Entering
          /\ Open' = Open
      BY <2>10, <2>15 DEF Leaves, Entering, Released
    <3>2. triggering = 1 /\ Open = 1 /\ Closing = {}
      BY <1>1, <2>1, <3>1 DEF Phase
    <3>3. Closing' = {}
      BY <2>7, <3>1, <3>2
    <3>4. \A x \in Waiter : At(x)' \in Counted \cup {"out", "gate", "done"}
      BY <1>2, <1>4, <2>1, <3>1, <3>2 DEF Phase
    <3> QED
      BY <2>1, <2>9, <3>1, <3>2, <3>3, <3>4 DEF Phase
  <2>16. Ends(w) => At(w) = "done"
    BY <1>7 DEF Ends
  <2> QED
    BY <1>3, <2>11, <2>12, <2>13, <2>14, <2>15, <2>16
<1>8. \A t, u \in TIn(Locking)' : t = u
  BY <1>4 DEF SyncInv
<1> QED
  BY <1>1, <1>2, <1>5, <1>6, <1>7, <1>8 DEF SyncInv

\* A trigger call that has the lock and has not begun finds all sync_num waiters.
LEMMA AllFound ==
  ASSUME TypeInv, CountInv, Mortal = {}, Sync, WakeInv, SyncInv, NEW t \in Triggerer,
         TAt(t) \in {"count", "payload", "begin"}
  PROVE  /\ shutting_down = "no" /\ Phase /\ Open = 1 /\ triggering = 0 /\ num_waiting = SyncNum
         /\ Cardinality(Waiter) = SyncNum /\ \A w \in Waiter : At(w) \in Counted
<1>1. shutting_down = "no" /\ Phase
  BY DEF WakeInv, Tickets, SyncInv
<1>2. t \in TIn(Locking) /\ Open = 1
  BY <1>1, OpenIs DEF TIn, Locking, Phase
<1>3. TIn(Sending) = {}
  BY <1>2 DEF SyncInv, TIn, Sending, Locking
<1>4. triggering = 0
  BY <1>1, <1>3 DEF Phase, TypeInv
<1>5. Cardinality(Waiter) = SyncNum /\ \A w \in Waiter : At(w) \in Counted
  BY <1>1, <1>2, <1>4 DEF Phase
<1>6. In(Counted) = Waiter
  BY <1>5 DEF In
<1> QED
  BY <1>1, <1>2, <1>4, <1>5, <1>6 DEF CountInv

\* When a trigger call has seen the pick-ups it waits for, nobody is left waiting.
LEMMA AllBack ==
  ASSUME TypeInv, CountInv, Mortal = {}, NoneTooMany, Sync, Sent, NEW t \in TIn(Sending), Finished(t)
  PROVE  \A w \in Waiter : At(w) \notin Counted
<1>1. /\ Fits /\ IsFiniteSet(Waiter) /\ Cardinality(Waiter) \in Nat /\ SyncNum \in Nat
      /\ num_triggered \in Nat /\ num_waiting = Cardinality(In(Counted))
  BY TypeHas, FS_CardinalityType DEF Fits, TypeInv, CountInv
<1>2. /\ trig[t].n = SyncNum /\ num_triggered <= Cardinality(In(Away))
      /\ Cardinality(Waiter) <= SyncNum
  BY DEF Sent, NoneTooMany
<1>3. CASE num_triggered >= trig[t].n
  <2>1. In(Away) \in SUBSET Waiter /\ Cardinality(In(Away)) \in Nat
    BY <1>1, InFinite DEF In
  <2>2. /\ Cardinality(In(Away)) <= Cardinality(Waiter)
        /\ Cardinality(Waiter) = Cardinality(In(Away)) => Waiter = In(Away)
    BY <1>1, <2>1, FS_Subset
  <2>3. Waiter = In(Away)
    BY <1>1, <1>2, <1>3, <2>1, <2>2
  <2> QED
    BY <2>3 DEF In, Away, Counted
<1>4. CASE num_waiting = 0
  <2>1. In(Counted) = {}
    BY <1>1, <1>4, InFinite, FS_EmptySet
  <2> QED
    BY <2>1 DEF In
<1> QED
  BY <1>3, <1>4 DEF Finished

\* A step of a triggerer keeps the phases apart.
LEMMA TrigPhase ==
  ASSUME TypeInv, CountInv, Untimed, Mortal = {}, NoneTooMany, Sync, WakeInv, SyncInv, Same,
         NEW t \in Triggerer, TSteps(t), TrigEffect(t), \A w \in Waiter : At(w) # "dead"
  PROVE  SyncInv'
<1> DEFINE l == trig'[t].at
<1>1. /\ TrigType /\ Fits /\ lock_free \in Nat /\ lock_free' \in Nat /\ triggering \in {0, 1}
      /\ num_waiting \in Nat /\ SyncNum \in Nat \ {0} /\ All \notin Nat
      /\ Waiter' = Waiter /\ Triggerer' = Triggerer /\ SyncNum' = SyncNum /\ Counts' = Counts
      /\ num_waiting = Cardinality(In(Counted))
  BY TypeHas, InFinite DEF TypeInv, Same, Fits, CountInv, TrigEffect, TWritten
<1>2. /\ wait' = wait /\ shutting_down' = shutting_down /\ (\A w \in Waiter : At(w)' = At(w))
      /\ In(Away)' = In(Away) /\ Closing' = Closing
      /\ spin_list' = spin_list => (Untriggered' <=> Untriggered)
  BY <1>1, InSame DEF TrigEffect, TFrame, At, Closing, Untriggered
<1>3. /\ \A u \in Triggerer \ {t} : trig'[u] = trig[u] /\ TAt(u)' = TAt(u)
      /\ TAt(t)' = l
      /\ Cardinality(TIn(Locking)) \in Nat /\ Cardinality(TIn(Locking))' \in Nat
      /\ Cardinality(TIn(Locking))' + Is(TAt(t), Locking) = Cardinality(TIn(Locking)) + Is(l, Locking)
  <2>1. PICK e \in TrigLocal : TOnly(t, e)
    BY DEF TrigEffect
  <2>2. trig'[t] = e /\ \A u \in Triggerer \ {t} : trig'[u] = trig[u]
    BY <2>1 DEF TOnly
  <2>3. /\ Cardinality(TIn(Locking)) \in Nat /\ Cardinality(TIn(Locking))' \in Nat
        /\ Cardinality(TIn(Locking))' + Is(TAt(t), Locking) = Cardinality(TIn(Locking)) + Is(e.at, Locking)
    BY <1>1, <2>1, TInStep
  <2> QED
    BY <2>2, <2>3 DEF TAt
<1>4. TIn(Locking) = {} \/ TAt(t) \in Locking => \A u, v \in TIn(Locking)' : u = v
  BY <1>1, <1>3 DEF SyncInv, TIn
<1>5. l \notin Locking => \A u, v \in TIn(Locking)' : u = v
  BY <1>1, <1>3 DEF SyncInv, TIn
<1>6. ASSUME \A u, v \in TIn(Locking)' : u = v, Sent', shutting_down = "no" => Phase'
      PROVE  SyncInv'
  BY <1>1, <1>2, <1>6 DEF SyncInv
<1>7. TAt(t) \in Locking => \A u \in Triggerer \ {t} : TAt(u) \notin Locking
  BY DEF SyncInv, TIn
<1>8. (l \in Sending <=> TAt(t) \in Sending) => TIn(Sending)' = TIn(Sending)
  BY <1>1, <1>3 DEF TIn
<1>9. shutting_down # "no" => TAt(t) = "poll" \/ TAt(t) = "out"
  BY DEF WakeInv, Tickets
<1>10. ASSUME shutting_down = "no", Open' = Open, triggering' = triggering, spin_list' = spin_list,
              TIn(Sending)' = TIn(Sending),
              l \in {"payload", "begin"} => trig'[t].num_waiting = SyncNum,
              l \in {"lock", "count", "payload", "begin"} => trig'[t].n = All
       PROVE  Phase'
  <2>1. Phase
    BY <1>10 DEF SyncInv
  <2>2. \A u \in Triggerer :
          /\ TAt(u)' \in {"payload", "begin"} => trig'[u].num_waiting = SyncNum
          /\ TAt(u)' \in {"lock", "count", "payload", "begin"} => trig'[u].n = All
    BY <1>3, <1>10, <2>1 DEF Phase
  <2> QED
    BY <1>1, <1>2, <1>10, <2>1, <2>2 DEF Phase
<1>11. ASSUME l \notin Sending, TAt(t) \notin Sending, triggering' = triggering,
              num_triggered' = num_triggered
       PROVE  Sent'
  BY <1>1, <1>2, <1>3, <1>8, <1>11 DEF Sent, SyncInv, TIn, TAt
<1>12. CASE Locks(t)
  <2>1. /\ TAt(t) = "lock" /\ l = "count" /\ trig'[t].n = trig[t].n /\ lock_free > 0
        /\ lock_free' = lock_free - 1 /\ UNCHANGED <<triggering, spin_list, num_triggered>>
    BY <1>12 DEF Locks, TGoes, shared
  <2>2. shutting_down = "no" /\ Phase
    BY <1>9, <2>1 DEF SyncInv
  <2>3. Cardinality(TIn(Locking)) = 0
    BY <1>1, <1>3, <2>1, <2>2 DEF Phase, Open
  <2>4. TIn(Locking) = {}
    BY <1>1, <2>3, InFinite, FS_EmptySet
  <2>5. Is("lock", Locking) = 0 /\ Is("count", Locking) = 1
    BY DEF Is, Locking
  <2>6. Open' = Open
    BY <1>1, <1>3, <2>1, <2>5 DEF Open
  <2>7. Sent'
    BY <1>11, <2>1 DEF Sending
  <2>8. Phase'
    BY <1>8, <1>10, <2>1, <2>2, <2>6 DEF Phase, Sending
  <2> QED
    BY <1>4, <1>6, <2>4, <2>7, <2>8
<1>13. CASE Misses(t)
  BY <1>1, <1>13, AllFound DEF Misses
<1>14. CASE Fails(t)
  <2>1. Phase /\ TAt(t) = "begin" /\ trig[t].n # All
    BY <1>14, AllFound DEF Fails
  <2> QED
    BY <2>1 DEF Phase
<1>15. CASE Finds(t) \/ Pays(t)
  <2>1. /\ TAt(t) \in {"count", "payload"} /\ l \in {"payload", "begin"} /\ trig'[t].n = trig[t].n
        /\ trig'[t].num_waiting = IF TAt(t) = "count" THEN num_waiting ELSE trig[t].num_waiting
        /\ UNCHANGED <<lock_free, triggering, spin_list, num_triggered>>
    BY <1>15 DEF Finds, Pays, TGoes, shared
  <2>2. shutting_down = "no" /\ Phase /\ num_waiting = SyncNum
    BY <2>1, AllFound
  <2>3. trig'[t].num_waiting = SyncNum /\ trig'[t].n = All
    BY <2>1, <2>2 DEF Phase
  <2>4. Is(TAt(t), Locking) = 1 /\ Is(l, Locking) = 1 /\ TAt(t) \in Locking
    BY <2>1 DEF Is, Locking
  <2>5. Open' = Open
    BY <1>1, <1>3, <2>1, <2>4 DEF Open
  <2>6. Sent'
    BY <1>11, <2>1 DEF Sending
  <2>7. Phase'
    BY <1>8, <1>10, <2>1, <2>2, <2>3, <2>5 DEF Sending
  <2> QED
    BY <1>4, <1>6, <2>4, <2>6, <2>7
<1>16. CASE Opens(t)
  <2>1. /\ TAt(t) = "begin" /\ l = "scan" /\ num_triggered' = 0 /\ triggering' = 1
        /\ trig'[t].n = IF trig[t].n = All THEN trig[t].num_waiting ELSE trig[t].n
        /\ UNCHANGED <<lock_free, spin_list>>
    BY <1>16 DEF Opens, TGoes
  <2>2. /\ shutting_down = "no" /\ Phase /\ Open = 1 /\ Cardinality(Waiter) = SyncNum
        /\ \A w \in Waiter : At(w) \in Counted
    BY <2>1, AllFound
  <2>3. trig'[t].n = SyncNum
    BY <2>1, <2>2 DEF Phase
  <2>4. Is(TAt(t), Locking) = 1 /\ Is(l, Locking) = 1 /\ TAt(t) \in Locking
    BY <2>1 DEF Is, Locking
  <2>5. Open' = 1
    BY <1>1, <1>3, <2>1, <2>2, <2>4 DEF Open
  <2>6. TIn(Sending)' = {t}
    BY <1>1, <1>3, <1>7, <2>1, <2>4 DEF TIn, Sending, Locking
  <2>7. Sent'
    BY <1>1, <2>1, <2>3, <2>6, <1>2, InFinite DEF Sent
  <2>8. Phase'
    <3>1. \A u \in Triggerer : TAt(u)' \in {"lock", "count", "payload", "begin"} =>
            u # t /\ trig'[u] = trig[u] /\ TAt(u) = "lock"
      BY <1>3, <1>7, <2>1, <2>4 DEF Locking
    <3>2. \A u \in Triggerer :
            /\ TAt(u)' \in {"payload", "begin"} => trig'[u].num_waiting = SyncNum
            /\ TAt(u)' \in {"lock", "count", "payload", "begin"} => trig'[u].n = All
      BY <1>3, <2>2, <3>1 DEF Phase
    <3> QED
      BY <1>1, <1>2, <2>1, <2>2, <2>5, <2>6, <3>2 DEF Phase
  <2> QED
    BY <1>4, <1>6, <2>4, <2>7, <2>8
<1>17. CASE Marks(t) \/ Skips(t) \/ Allows(t)
  <2>1. /\ TAt(t) \in {"scan", "allow"} /\ l \in {"scan", "allow", "poll"} /\ trig'[t].n = trig[t].n
        /\ UNCHANGED <<lock_free, triggering, num_triggered>>
    BY <1>17 DEF Marks, Skips, Allows, TGoes
  <2>2. shutting_down = "no" /\ Phase /\ triggering = 1 /\ TAt(t) \in Locking
    BY <1>9, <2>1 DEF SyncInv, Sent, TIn, Sending, Locking
  <2>3. Is(TAt(t), Locking) = 1 /\ Is(l, Locking) = 1
    BY <2>1 DEF Is, Locking
  <2>4. Open' = Open
    BY <1>1, <1>3, <2>1, <2>3 DEF Open
  <2>5. TIn(Sending)' = TIn(Sending)
    BY <1>8, <2>1 DEF Sending
  <2>6. Sent'
    BY <1>1, <1>2, <1>3, <2>1, <2>5 DEF Sent, SyncInv, TIn
  <2>7. Phase'
    <3>1. \A u \in Triggerer :
            /\ TAt(u)' \in {"payload", "begin"} => trig'[u].num_waiting = SyncNum
            /\ TAt(u)' \in {"lock", "count", "payload", "begin"} => trig'[u].n = All
      BY <1>3, <2>1, <2>2 DEF Phase
    <3> QED
      BY <1>1, <1>2, <2>1, <2>2, <2>4, <2>5, <3>1 DEF Phase
  <2> QED
    BY <1>4, <1>6, <2>2, <2>6, <2>7
<1>18. CASE Completes(t)
  <2>1. /\ TAt(t) = "poll" /\ l = "out" /\ Finished(t) /\ triggering' = 0 /\ lock_free' = lock_free
        /\ spin_list' = spin_list
    BY <1>18 DEF Completes, TGoes
  <2>2. t \in TIn(Sending) /\ TAt(t) \in Locking
    BY <2>1 DEF TIn, Sending, Locking
  <2>3. \A w \in Waiter : At(w) \notin Counted
    BY <2>2, <2>1, AllBack DEF SyncInv
  <2>4. TIn(Sending)' = {}
    BY <1>1, <1>3, <1>7, <2>1, <2>2 DEF TIn, Sending, Locking
  <2>5. Sent'
    BY <2>4 DEF Sent
  <2>6. ASSUME shutting_down = "no"
        PROVE  Phase'
    <3>1. Phase /\ Open = 1
      BY <2>2, <2>6, OpenIs DEF SyncInv, TIn, Phase
    <3>2. Is("poll", Locking) = 1 /\ Is("out", Locking) = 0
      BY DEF Is, Locking
    <3>3. Open' = 0
      BY <1>1, <1>3, <2>1, <3>1, <3>2 DEF Open
    <3>4. Untriggered' /\ \A w \in Waiter : At(w)' \notin Released
      <4>1. \A w \in Waiter : At(w) \in {"out", "gate", "done"}
        BY <2>2, <2>3, <3>1 DEF Phase, SyncInv, Sent
      <4> QED
        BY <1>1, <1>2, <4>1 DEF Untriggered, Owning, Released
    <3>5. \A u \in Triggerer :
            /\ TAt(u)' \in {"payload", "begin"} => trig'[u].num_waiting = SyncNum
            /\ TAt(u)' \in {"lock", "count", "payload", "begin"} => trig'[u].n = All
      BY <1>3, <2>1, <3>1 DEF Phase
    <3>6. Closing' = {}
      BY <1>2, <3>1 DEF Phase
    <3> QED
      BY <1>1, <2>1, <2>4, <3>3, <3>4, <3>5, <3>6 DEF Phase
  <2> QED
    BY <1>4, <1>6, <2>2, <2>5, <2>6
<1>19. CASE Abandons(t)
  <2>1. /\ TAt(t) = "poll" /\ l = "out" /\ shutting_down # "no"
    BY <1>19 DEF Abandons, TGoes
  <2>2. TIn(Sending)' = {} /\ l \notin Locking
    BY <1>1, <1>3, <1>7, <2>1 DEF TIn, Sending, Locking
  <2> QED
    BY <1>5, <1>6, <2>1, <2>2 DEF Sent
<1> QED
  BY <1>1, <1>12, <1>13, <1>14, <1>15, <1>16, <1>17, <1>18, <1>19, TrigKinds

\* Every step keeps the phases apart.
LEMMA SyncStep ==
  ASSUME TypeInv, DeadAreMortal, CountInv, BoundInv, SlotInv, Untimed, Mortal = {}, NoneTooMany,
         Sync, WakeInv, SyncInv, [Next]_vars
  PROVE  SyncInv'
<1>1. /\ Same /\ Waiter' = Waiter /\ Triggerer' = Triggerer /\ SyncNum' = SyncNum /\ Fits /\ WaitType
      /\ lock_free \in Nat /\ \A w \in Waiter : At(w) # "dead"
  BY Kinds, TypeHas DEF Same, DeadAreMortal, TypeInv
<1>2. ASSUME NEW w \in Waiter, Steps(w), WaitEffect(w)
      PROVE  SyncInv'
  <2>1. Cardinality(Waiter) \in Nat /\ wait[w].my_num_waiting \in Int /\ SyncNum \in Nat
    BY <1>1, FS_CardinalityType DEF Fits, WaitType, Typed, WaitLocal
  <2>2. ~TooMany(w)
    BY <2>1 DEF BoundInv, NoneTooMany, TooMany
  <2>3. ~refused(w)
    BY <2>2 DEF refused
  <2> QED
    BY <1>1, <1>2, <2>3, WaitPhase
<1>3. ASSUME NEW w \in Waiter, Dies(w)
      PROVE  SyncInv'
  BY <1>3 DEF Dies
<1>4. ASSUME NEW t \in Triggerer, TSteps(t), TrigEffect(t)
      PROVE  SyncInv'
  BY <1>1, <1>4, TrigPhase
<1>5. ASSUME UNCHANGED <<wait, spin_list, triggering, num_triggered>>, TIn(Locking)' = TIn(Locking),
             TIn(Sending)' = TIn(Sending), \A t \in TIn(Sending) : trig'[t] = trig[t]
      PROVE  /\ Closing' = Closing /\ (Untriggered' <=> Untriggered) /\ In(Away)' = In(Away)
             /\ \A w \in Waiter : At(w)' = At(w)
             /\ (shutting_down' = "no" => Phase') => SyncInv'
  <2>1. /\ Closing' = Closing /\ (Untriggered' <=> Untriggered) /\ In(Away)' = In(Away)
        /\ \A w \in Waiter : At(w)' = At(w)
    BY <1>1, <1>5 DEF Closing, Untriggered, In, At
  <2> QED
    BY <1>1, <1>5, <2>1 DEF SyncInv, Sent
<1>6. ASSUME NEW t \in Triggerer, Begins(t)
      PROVE  SyncInv'
  <2>1. /\ trig'[t].at = "lock" /\ trig'[t].n = All /\ TAt(t) = "out" /\ shutting_down = "no"
        /\ \A u \in Triggerer \ {t} : trig'[u] = trig[u]
        /\ UNCHANGED <<lock_free, wait, spin_list, triggering, num_triggered>>
    BY <1>6 DEF Begins, TOnly, shared
  <2>2. TIn(Locking)' = TIn(Locking) /\ TIn(Sending)' = TIn(Sending)
    BY <1>1, <2>1 DEF TIn, TAt, Locking, Sending
  <2>3. \A u \in TIn(Sending) : trig'[u] = trig[u]
    BY <2>1 DEF TIn, Sending
  <2>4. Phase /\ Open' = Open
    BY <2>1, <2>2 DEF SyncInv, Open
  <2>5. \A u \in Triggerer :
          /\ TAt(u)' \in {"payload", "begin"} => trig'[u].num_waiting = SyncNum
          /\ TAt(u)' \in {"lock", "count", "payload", "begin"} => trig'[u].n = All
    BY <2>1, <2>4 DEF Phase, TAt
  <2>6. Phase'
    BY <1>1, <1>5, <2>1, <2>2, <2>3, <2>4, <2>5 DEF Phase
  <2> QED
    BY <1>5, <2>1, <2>2, <2>3, <2>6
<1>7. ASSUME reset \/ destroy_start \/ destroy_free \/ UNCHANGED vars
      PROVE  SyncInv'
  <2>1. /\ UNCHANGED <<wait, trig, spin_list, triggering, num_triggered>>
        /\ shutting_down' = "no" => shutting_down = "no"
    BY <1>7 DEF reset, destroy_start, destroy_free, vars, shared, object
  <2>2. TIn(Locking)' = TIn(Locking) /\ TIn(Sending)' = TIn(Sending) /\ \A u \in Triggerer : TAt(u)' = TAt(u)
    BY <1>1, <2>1, TInSame DEF TAt
  <2>3. ASSUME shutting_down' = "no"
        PROVE  Phase'
    <3>1. Phase
      BY <2>1, <2>3 DEF SyncInv
    <3>2. lock_free' = lock_free
      <4>1. CASE reset
        <5>1. TIn(Sending) = {} /\ \A w \in Waiter : At(w) \in {"out", "dead"}
          BY <4>1 DEF reset, Quiet, TIn, Sending
        <5>2. triggering = 0
          BY <3>1, <5>1 DEF Phase, TypeInv
        <5>3. Open = 1 => Cardinality(Waiter) = 0 /\ Cardinality(Waiter) = SyncNum
          <6>1. Open = 1 => Waiter = {}
            BY <3>1, <5>1, <5>2 DEF Phase, Counted
          <6> QED
            BY <3>1, <6>1, FS_EmptySet DEF Phase
        <5>4. lock_free = 0
          BY <1>1, <3>1, <5>3, OpenIs DEF Phase, Fits
        <5> QED
          BY <4>1, <5>4 DEF reset
      <4> QED
        BY <1>7, <2>3, <4>1 DEF destroy_start, destroy_free, vars
    <3>3. Open' = Open
      BY <2>2, <3>2 DEF Open
    <3> QED
      BY <1>1, <1>5, <2>1, <2>2, <3>1, <3>3 DEF Phase
  <2> QED
    BY <1>5, <2>1, <2>2, <2>3
<1> QED
  BY <1>2, <1>3, <1>4, <1>6, <1>7, Kinds

-----------------------------------------------------------------------------
(* Whom a trigger wakes                                                    *)

\* The inductive invariant, and the uses that the theorems are about: no call times out,
\* nobody dies, and a synchronised object has no more waiters than it is made for.
Calm == Untimed /\ Mortal = {} /\ NoneTooMany
Wakes ==
  /\ TypeInv /\ DeadAreMortal /\ CountInv /\ BoundInv /\ LockInv /\ SlotInv
  /\ Calm => WakeInv /\ (Sync => SyncInv)

\* It holds at first.
LEMMA WakesInit == ASSUME Init PROVE Wakes
BY TypeInit, CountInit, ReleaseInit, LockInit, SlotInit, WakeInit, SyncInit DEF Wakes

\* Every step keeps it.
LEMMA WakesStep == ASSUME Wakes, [Next]_vars PROVE Wakes'
<1>1. TypeInv /\ DeadAreMortal /\ CountInv /\ BoundInv /\ LockInv /\ SlotInv
  BY DEF Wakes
<1>2. TypeInv' /\ DeadAreMortal' /\ CountInv' /\ BoundInv' /\ LockInv' /\ SlotInv'
  BY <1>1, TypeStep, DeadStep, CountStep, BoundStep, LockStep, SlotStep
<1>3. Same
  BY <1>1, Kinds
<1>4. (Calm' <=> Calm) /\ (Sync' <=> Sync)
  BY <1>3 DEF Calm, Untimed, NoneTooMany, Same
<1>5. ASSUME Calm
      PROVE  WakeInv' /\ (Sync => SyncInv')
  <2>1. WakeInv /\ (Sync => SyncInv)
    BY <1>5 DEF Wakes
  <2>2. Alone
    BY <1>1, <2>1, LockedAlone, SyncAlone
  <2> QED
    BY <1>1, <1>5, <2>1, <2>2, WakeStep, SyncStep DEF Calm
<1> QED
  BY <1>2, <1>4, <1>5 DEF Wakes

\* NoMoreThanAsked, where nobody dies: dragon_bcast_trigger_some releases no more waiters
\* than it was asked to, spinners and holders of tickets together.
THEOREM NoneUnasked == Spec => [](Mortal = {} => NoMoreThanAsked)
<1>1. Init => Wakes
  BY WakesInit
<1>2. Wakes /\ [Next]_vars => Wakes'
  BY WakesStep
<1>3. Wakes => (Mortal = {} => NoMoreThanAsked)
  <2> SUFFICES ASSUME Wakes, Calm, NEW t \in Triggerer, TAt(t) \in {"scan", "allow", "poll"}
               PROVE  woken <= trig[t].n
    BY DEF NoMoreThanAsked, Calm
  <2>1. /\ Numbers(trig[t]) /\ trig[t] \in TrigLocal /\ woken \in Nat /\ allowable_count \in Nat
        /\ Tickets
    BY TypeHas DEF Wakes, TrigType, TypeInv, WakeInv
  <2> QED
    BY <2>1 DEF Numbers, Tickets, TAt, TrigLocal
<1> QED
  BY <1>1, <1>2, <1>3, PTL DEF Spec

\* WaitsForTrigger, where nobody dies: a wait comes back with the payload of a trigger that
\* was called after the wait began.
THEOREM NoneUntriggered == Spec => [](Mortal = {} => WaitsForTrigger)
<1>1. Init => Wakes
  BY WakesInit
<1>2. Wakes /\ [Next]_vars => Wakes'
  BY WakesStep
<1>3. Wakes => (Mortal = {} => WaitsForTrigger)
  BY DEF Wakes, Calm, WaitsForTrigger, WakeInv, Woke
<1> QED
  BY <1>1, <1>2, <1>3, PTL DEF Spec

\* SyncDelivers, where nobody dies: a trigger of a synchronised object goes ahead with
\* sync_num waiters only, and returns when each has picked up its payload.
THEOREM AllDelivered == Spec /\ [](Mortal = {}) => SyncDelivers
<1> DEFINE Step == Untimed /\ Sync /\ NoneTooMany =>
                     Delivers /\ \A t \in Triggerer : TAt(t) = "count" => num_waiting = SyncNum
<1>1. Init => Wakes
  BY WakesInit
<1>2. Wakes /\ [Next]_vars => Wakes'
  BY WakesStep
<1>3. Wakes /\ Mortal = {} /\ [Next]_vars => [Step]_vars
  <2> SUFFICES ASSUME Wakes, Calm, Sync, Next
               PROVE  Delivers /\ \A t \in Triggerer : TAt(t) = "count" => num_waiting = SyncNum
    BY DEF Calm
  <2>1. /\ TypeInv /\ DeadAreMortal /\ CountInv /\ Mortal = {} /\ Untimed /\ NoneTooMany
        /\ WakeInv /\ SyncInv
    BY DEF Wakes, Calm
  <2>2. \A t \in Triggerer : TAt(t) = "count" => num_waiting = SyncNum
    BY <2>1, AllFound
  <2>3. ASSUME NEW t \in Triggerer, TAt(t) = "poll", TAt(t)' = "out", triggering' = 0
        PROVE  \A w \in Waiter : At(w) \notin Counted
    <3>1. t \in TIn(Sending) /\ triggering = 1 /\ Sent
      BY <2>1, <2>3 DEF SyncInv, Sent, TIn, Sending
    <3>2. Finished(t)
      <4>1. ~UNCHANGED triggering /\ ~UNCHANGED trig
        BY <2>3, <3>1 DEF TAt
      <4>2. ASSUME NEW w \in Waiter, (Steps(w) /\ WaitEffect(w)) \/ Dies(w)
            PROVE  FALSE
        BY <4>1, <4>2 DEF WaitEffect, Effect, Frame, Dies
      <4>3. ASSUME reset \/ destroy_start \/ destroy_free \/ UNCHANGED vars
            PROVE  FALSE
        BY <4>1, <4>3 DEF reset, destroy_start, destroy_free, vars
      <4>4. PICK u \in Triggerer : (TSteps(u) /\ TrigEffect(u)) \/ Begins(u)
        BY <2>1, <4>2, <4>3, Kinds
      <4>5. TSteps(u) /\ TrigEffect(u)
        BY <4>1, <4>4 DEF Begins, shared
      <4>6. u = t
        BY <2>3, <4>5 DEF TrigEffect, TOnly, TAt
      <4>7. TrigType /\ \A w \in Waiter : At(w) # "dead"
        BY <2>1, TypeHas DEF DeadAreMortal
      <4> QED
        BY <2>1, <2>3, <4>1, <4>5, <4>6, <4>7, TrigKinds
           DEF Locks, Misses, Finds, Pays, Fails, Opens, Marks, Skips, Allows, Completes, Abandons, shared
    <3> QED
      BY <2>1, <3>1, <3>2, AllBack
  <2> QED
    BY <2>2, <2>3 DEF Delivers
<1>4. [][Step]_vars => SyncDelivers
  BY DEF SyncDelivers
<1> QED
  BY <1>1, <1>2, <1>3, <1>4, PTL DEF Spec
=============================================================================
