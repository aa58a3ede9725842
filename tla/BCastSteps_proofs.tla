----------------------------- MODULE BCastSteps_proofs -----------------------------
(***************************************************************************)
(* Proofs about the broadcast object, for any number of waiters and        *)
(* triggerers, any spin list, and every use of it.                         *)
(*                                                                         *)
(* A step changes the local variables of one process (Only, TOnly).  The   *)
(* counters of the object follow from where its processes are: each step   *)
(* changes a counter by as much as its process enters or leaves the set of *)
(* locations that the counter stands for.                                  *)
(***************************************************************************)
EXTENDS BCast, FiniteSetTheorems, TLAPS

USE ZenonT(20), SMTT(30)

Alive == Counted \cup Slotted \cup {"out", "gate", "spin_slot", "idle_count",
                                   "giveup_slot", "relock", "done"}
Places == Alive \cup {"dead"}

\* The local variables.  What a waiter has read of num_waiting is an integer only,
\* if another may die.
WaitLocal == [at : Places, mode : {"idle", "spin", "adaptive"}, slot : 0 .. SpinListSz + 1,
              my_num_waiting : Int, released : Nat, since : 0 .. MaxRounds, got : 0 .. MaxRounds]
TrigLocal == [at : Locking \cup {"out", "lock"}, n : Nat \cup {All}, num_waiting : Nat,
              num_spinners : Nat, spinner_count : Int, idx : 1 .. SpinListSz + 1]

\* A trigger call that has not sent its payload yet.
Early == {"lock", "count", "payload"}

In(L) == {w \in Waiter : At(w) \in L}
TIn(L) == {t \in Triggerer : TAt(t) \in L}

\* The numbers a triggerer has read or been given.
Numbers(e) ==
  /\ e.at \in {"lock", "count", "payload", "begin"} => e.n \in Counts /\ e.num_spinners = 0
  /\ e.at \in {"payload", "begin"} => e.num_waiting > 0
  /\ e.at \in {"scan", "allow", "poll"} => e.n \in Nat /\ e.num_spinners <= e.n

\* The trigger calls that are still to find a waiter stay within the bound.
RoundsLeft == rounds + Cardinality(TIn(Early)) <= MaxRounds

TypeInv ==
  /\ use \in Uses
  /\ lock_free \in Nat /\ num_waiting \in Int /\ num_triggered \in Nat
  /\ triggering \in {0, 1} /\ allowable_count \in Nat
  /\ spin_list \in [Slot -> {0, 1, 2}] /\ spin_list_count \in Int
  /\ proc_list \subseteq Waiter
  /\ rounds \in 0 .. MaxRounds /\ payload = rounds
  /\ sync_type \in SyncTypes /\ shutting_down \in {"no", "yes", "freed"}
  /\ wait \in [Waiter -> WaitLocal]
  /\ trig \in [Triggerer -> TrigLocal]
  /\ woken \in Nat
  /\ \A t \in Triggerer : Numbers(trig[t])
  /\ RoundsLeft
  /\ \A w \in Waiter : At(w) = "relock" => Sync

-----------------------------------------------------------------------------
(* What a use fixes                                                        *)

\* The use of the object, and its kind, do not change.
Same ==
  /\ use' = use /\ sync_type' = sync_type
  /\ Waiter' = Waiter /\ Triggerer' = Triggerer /\ Modes' = Modes /\ Counts' = Counts
  /\ Timed' = Timed /\ Notified' = Notified /\ Mortal' = Mortal /\ SyncTypes' = SyncTypes
  /\ SyncNum' = SyncNum /\ MaxRounds' = MaxRounds /\ Sync' = Sync

\* No step changes the use, nor what it fixes.
LEMMA SameUse == UNCHANGED <<use, sync_type>> => Same
BY DEF Same, Waiter, Triggerer, Modes, Counts, Timed, Notified, Mortal, SyncTypes, SyncNum,
       MaxRounds, Sync

Fits ==
  /\ SpinListSz \in Nat /\ ProcMax \in Nat /\ All \notin Nat
  /\ SyncTypes \subseteq {"NO_SYNC", "SYNC"} /\ SyncNum \in Nat \ {0}
  /\ MaxRounds \in Nat /\ Modes \subseteq {"idle", "spin", "adaptive"}
  /\ Counts \subseteq Nat \cup {All}
  /\ IsFiniteSet(Waiter) /\ IsFiniteSet(Triggerer)

\* The assumption on the constants, for the use of this behaviour.
LEMMA UseFits == ASSUME use \in Uses PROVE Fits
BY BCastAssumption DEF Fits, Waiter, Triggerer, Modes, Counts, SyncTypes, SyncNum, MaxRounds

-----------------------------------------------------------------------------
(* What a step of a waiter does to the local variables                     *)

Typed == Fits /\ wait \in [Waiter -> WaitLocal]

\* Only w has moved, to l, and has read no number but num_waiting, to be counted.
Reads(w, k) ==
  k \in {0, wait[w].my_num_waiting} \/ (At(w) \in {"spin_count", "idle_count"} /\ k = num_waiting + 1)
Only(w, l) ==
  /\ wait' \in [Waiter -> WaitLocal] /\ wait'[w].at = l
  /\ \A x \in Waiter \ {w} : wait'[x] = wait[x]
  /\ Reads(w, wait'[w].my_num_waiting)

\* Only w has moved, to l, with the values given of the other local variables.
Moved(w, l, slot, my, released, since, got) ==
  /\ Only(w, l)
  /\ wait'[w].slot = slot /\ wait'[w].my_num_waiting = my /\ wait'[w].released = released
  /\ wait'[w].since = since /\ wait'[w].got = got

\* A waiter gets the local variables e.
LEMMA SetMoves ==
  ASSUME Typed, NEW w \in Waiter, NEW e \in WaitLocal, wait' = [wait EXCEPT ![w] = e],
         Reads(w, e.my_num_waiting)
  PROVE  Moved(w, e.at, e.slot, e.my_num_waiting, e.released, e.since, e.got)
BY DEF Typed, Only, Moved

\* A call of wait begins.
LEMMA StartMoves ==
  ASSUME Typed, NEW w \in Waiter, NEW m \in Modes, wait' = [wait EXCEPT ![w] = Waiting("gate", m, 0)]
  PROVE  Moved(w, "gate", 0, 0, 0, 0, 0)
BY DEF Typed, Fits, Waiting, Only, Reads, Moved, WaitLocal, Places, Alive

\* A call of wait returns.
LEMMA ReturnMoves ==
  ASSUME Typed, NEW w \in Waiter, NEW extra \in Nat, Return(w, extra)
  PROVE  Moved(w, "out", 0, 0, wait[w].released + extra, 0, 0)
BY DEF Typed, Fits, Return, Waiting, Only, Reads, Moved, WaitLocal, Places, Alive

\* A waiter goes on at l.
LEMMA GotoMoves ==
  ASSUME Typed, NEW w \in Waiter, NEW l \in Places, Goto(w, l)
  PROVE  Moved(w, l, wait[w].slot, wait[w].my_num_waiting, wait[w].released, wait[w].since, wait[w].got)
<1> DEFINE e == [wait[w] EXCEPT !.at = l]
<1>2. wait' = [wait EXCEPT ![w] = e]
  BY DEF Goto
<1>3. e \in WaitLocal /\ e.at = l
  BY Zenon DEF Typed, WaitLocal
<1>4. e.slot = wait[w].slot /\ e.my_num_waiting = wait[w].my_num_waiting /\ e.released = wait[w].released /\ e.since = wait[w].since /\ e.got = wait[w].got
  BY Zenon DEF Typed, WaitLocal
<1> HIDE DEF e
<1>5. Moved(w, e.at, e.slot, e.my_num_waiting, e.released, e.since, e.got)
  BY <1>2, <1>3, <1>4, SetMoves DEF Reads
<1> QED
  BY <1>3, <1>4, <1>5

\* A waiter goes on at l with another slot.
LEMMA SlotMoves ==
  ASSUME Typed, NEW w \in Waiter, NEW l \in Places, NEW i \in 0 .. SpinListSz + 1, GotoSlot(w, l, i)
  PROVE  Moved(w, l, i, wait[w].my_num_waiting, wait[w].released, wait[w].since, wait[w].got)
<1> DEFINE e == [wait[w] EXCEPT !.at = l, !.slot = i]
<1>2. wait' = [wait EXCEPT ![w] = e]
  BY DEF GotoSlot
<1>3. e \in WaitLocal /\ e.at = l
  BY Zenon DEF Typed, WaitLocal
<1>4. e.slot = i /\ e.my_num_waiting = wait[w].my_num_waiting /\ e.released = wait[w].released /\ e.since = wait[w].since /\ e.got = wait[w].got
  BY Zenon DEF Typed, WaitLocal
<1> HIDE DEF e
<1>5. Moved(w, e.at, e.slot, e.my_num_waiting, e.released, e.since, e.got)
  BY <1>2, <1>3, <1>4, SetMoves DEF Reads
<1> QED
  BY <1>3, <1>4, <1>5

\* A waiter is counted.
LEMMA CountedMoves ==
  ASSUME Typed, NEW w \in Waiter, NEW l \in Places, num_waiting \in Int,
         At(w) \in {"spin_count", "idle_count"},
         rounds \in 0 .. MaxRounds, GotoCounted(w, l)
  PROVE  Moved(w, l, wait[w].slot, num_waiting + 1, wait[w].released, rounds, wait[w].got)
<1> DEFINE k == num_waiting + 1
           e == [wait[w] EXCEPT !.at = l, !.my_num_waiting = k, !.since = rounds]
<1>1. k \in Int
  BY DEF Typed
<1>2. wait' = [wait EXCEPT ![w] = e]
  BY DEF GotoCounted
<1> HIDE DEF k
<1>3. e \in WaitLocal /\ e.at = l
  BY <1>1, Zenon DEF Typed, WaitLocal
<1>4. e.slot = wait[w].slot /\ e.my_num_waiting = k /\ e.released = wait[w].released /\ e.since = rounds /\ e.got = wait[w].got
  BY <1>1, Zenon DEF Typed, WaitLocal
<1> HIDE DEF e
<1>5. Moved(w, e.at, e.slot, e.my_num_waiting, e.released, e.since, e.got)
  BY <1>2, <1>3, <1>4, SetMoves DEF Reads, k
<1> QED
  BY <1>3, <1>4, <1>5 DEF k

\* A waiter is official, and calls release_fun.
LEMMA ReleasedMoves ==
  ASSUME Typed, NEW w \in Waiter, NEW l \in Places, GotoReleased(w, l)
  PROVE  Moved(w, l, wait[w].slot, wait[w].my_num_waiting, wait[w].released + release(w), wait[w].since, wait[w].got)
<1> DEFINE k == wait[w].released + release(w)
           e == [wait[w] EXCEPT !.at = l, !.released = k]
<1>1. k \in Nat
  BY DEF Typed, WaitLocal, release
<1>2. wait' = [wait EXCEPT ![w] = e]
  BY DEF GotoReleased
<1> HIDE DEF k
<1>3. e \in WaitLocal /\ e.at = l
  BY <1>1, Zenon DEF Typed, WaitLocal
<1>4. e.slot = wait[w].slot /\ e.my_num_waiting = wait[w].my_num_waiting /\ e.released = k /\ e.since = wait[w].since /\ e.got = wait[w].got
  BY <1>1, Zenon DEF Typed, WaitLocal
<1> HIDE DEF e
<1>5. Moved(w, e.at, e.slot, e.my_num_waiting, e.released, e.since, e.got)
  BY <1>2, <1>3, <1>4, SetMoves DEF Reads
<1> QED
  BY <1>3, <1>4, <1>5 DEF k

\* A waiter has read the payload.
LEMMA PaidMoves ==
  ASSUME Typed, NEW w \in Waiter, NEW l \in Places, payload \in 0 .. MaxRounds, GotoPaid(w, l)
  PROVE  Moved(w, l, wait[w].slot, wait[w].my_num_waiting, wait[w].released, wait[w].since, payload)
<1> DEFINE e == [wait[w] EXCEPT !.at = l, !.got = payload]
<1>2. wait' = [wait EXCEPT ![w] = e]
  BY DEF GotoPaid
<1>3. e \in WaitLocal /\ e.at = l
  BY Zenon DEF Typed, WaitLocal
<1>4. e.slot = wait[w].slot /\ e.my_num_waiting = wait[w].my_num_waiting /\ e.released = wait[w].released /\ e.since = wait[w].since /\ e.got = payload
  BY Zenon DEF Typed, WaitLocal
<1> HIDE DEF e
<1>5. Moved(w, e.at, e.slot, e.my_num_waiting, e.released, e.since, e.got)
  BY <1>2, <1>3, <1>4, SetMoves DEF Reads
<1> QED
  BY <1>3, <1>4, <1>5

\* The locations of a waiter.
LEMMA IsPlace ==
  {"out", "gate", "spin_slot", "spin_find", "spin_count", "idle_count", "spin_entered",
   "idle_entered", "refused_slot", "refused_uncount", "spin", "idle", "missed", "asleep", "relock",
   "spin_leave", "spin_giveup", "giveup_uncount", "giveup_slot", "left_uncount", "adapt_uncount",
   "pickup", "leave", "done", "dead"} \subseteq Places
BY DEF Places, Alive, Counted, Slotted, Owning

\* Where a spinner goes on when it is no longer counted in spin_list_count.
LEMMA Uncounts ==
  ASSUME NEW w, spin_uncount(w)
  PROVE  /\ \/ At(w) = "refused_uncount" /\ Return(w, release(w))
            \/ At(w) = "left_uncount" /\ Goto(w, "pickup")
            \/ At(w) = "giveup_uncount" /\ Goto(w, "giveup_slot")
            \/ At(w) = "adapt_uncount" /\ Goto(w, "idle")
         /\ UNCHANGED <<spin_list, lock_free, num_triggered>>
<1>1. /\ \/ At(w) = "refused_uncount" /\ Return(w, release(w))
         \/ At(w) \in DOMAIN AfterSpin /\ Goto(w, AfterSpin[At(w)])
      /\ UNCHANGED <<spin_list, lock_free, num_triggered>>
  BY DEF spin_uncount
<1>2. /\ DOMAIN AfterSpin = {"left_uncount", "giveup_uncount", "adapt_uncount"}
      /\ AfterSpin["left_uncount"] = "pickup" /\ AfterSpin["giveup_uncount"] = "giveup_slot"
      /\ AfterSpin["adapt_uncount"] = "idle"
  BY DEF AfterSpin
<1> QED
  BY <1>1, <1>2


-----------------------------------------------------------------------------
(* What a step of a waiter does to the counters                            *)

Is(l, L) == IF l \in L THEN 1 ELSE 0

\* Having taken the lock of an object that is not synchronised.
Searching == {"spin_find", "spin_count"}

\* What a waiter leaves alone.
Frame == UNCHANGED <<sync_type, shutting_down, trig, rounds, payload, triggering>>

\* The counters follow a waiter that goes to the location l.
Follow(w, l) ==
  /\ num_waiting' + Is(At(w), Counted) = num_waiting + Is(l, Counted)
  /\ spin_list_count' + Is(At(w), Slotted) = spin_list_count + Is(l, Slotted)
  /\ ~Sync => lock_free' + Is(l, Searching) = lock_free + Is(At(w), Searching)

\* The types of what a waiter writes.
Written ==
  /\ lock_free' \in Nat /\ num_waiting' \in Int /\ num_triggered' \in Nat
  /\ allowable_count' \in Nat /\ spin_list' \in [Slot -> {0, 1, 2}]
  /\ spin_list_count' \in Int /\ proc_list' \subseteq Waiter /\ woken' \in Nat

Effect(w, l) == Frame /\ Written /\ Only(w, l) /\ Follow(w, l) /\ (l = "relock" => Sync)
WaitEffect(w) == \E l \in Alive : Effect(w, l)

\* The steps of a waiter but its death.
Steps(w) == (WaitStep(w) \/ TakesLock(w) \/ Chance(w)) /\ ~die(w)

\* What of the type invariant a waiter relies on.
WaitType ==
  /\ Typed
  /\ lock_free \in Nat /\ num_waiting \in Int /\ num_triggered \in Nat
  /\ allowable_count \in Nat /\ spin_list \in [Slot -> {0, 1, 2}]
  /\ spin_list_count \in Int /\ proc_list \subseteq Waiter /\ woken \in Nat
  /\ rounds \in 0 .. MaxRounds /\ payload = rounds
  /\ \A w \in Waiter : At(w) = "relock" => Sync

\* Every step of a waiter but its death moves the waiter alone, and the counters follow it.
LEMMA WaitSteps ==
  ASSUME WaitType, NEW w \in Waiter, Steps(w)
  PROVE  WaitEffect(w)
<1>1. CASE wait_start(w)
  <2>1. "gate" \in Alive
    BY DEF Alive
  <2>2. PICK m \in Modes : wait' = [wait EXCEPT ![w] = Waiting("gate", m, 0)]
    BY <1>1 DEF wait_start
  <2>4. Only(w, "gate")
    BY <2>2, StartMoves DEF WaitType, Moved, Places
  <2>5. Effect(w, "gate")
    BY <1>1, <2>4 DEF wait_start, Effect, WaitType, Frame, Written, Follow, Is, Counted,
       Slotted, Owning, Searching, object, shared
  <2> QED
    BY <2>1, <2>5 DEF WaitEffect
<1>2. CASE _bcast_wait_on_triggering(w)
  <2>1. CASE wait[w].mode = "idle"
    <3>1. "idle_count" \in Alive
      BY DEF Alive, Counted, Slotted
    <3>2. Only(w, "idle_count")
      BY <1>2, <2>1, <3>1, GotoMoves DEF _bcast_wait_on_triggering, WaitType, Moved, Places
    <3>3. Effect(w, "idle_count")
      BY <1>2, <2>1, <3>2 DEF _bcast_wait_on_triggering, Effect, WaitType, Frame,
         Written, Follow, Is, Counted, Slotted, Owning, Searching, object, shared
    <3> QED
      BY <3>1, <3>3 DEF WaitEffect
  <2>2. CASE wait[w].mode # "idle"
    <3>1. "spin_slot" \in Alive
      BY DEF Alive, Counted, Slotted
    <3>2. Only(w, "spin_slot")
      BY <1>2, <2>2, <3>1, GotoMoves DEF _bcast_wait_on_triggering, WaitType, Moved, Places
    <3>3. Effect(w, "spin_slot")
      BY <1>2, <2>2, <3>2 DEF _bcast_wait_on_triggering, Effect, WaitType, Frame,
         Written, Follow, Is, Counted, Slotted, Owning, Searching, object, shared
    <3> QED
      BY <3>1, <3>3 DEF WaitEffect
  <2> QED
    BY <1>2, <2>1, <2>2 DEF _bcast_wait_on_triggering
<1>3. CASE gate_timeout(w)
  <2>1. "out" \in Alive
    BY DEF Alive, Counted, Slotted
  <2>2. Only(w, "out")
    BY <1>3, <2>1, ReturnMoves DEF gate_timeout, WaitType, Moved, Places, release
  <2>3. Effect(w, "out")
    BY <1>3, <2>2 DEF gate_timeout, Effect, WaitType, Frame, Written, Follow, Is,
       Counted, Slotted, Owning, Searching, object, shared
  <2> QED
    BY <2>1, <2>3 DEF WaitEffect
<1>4. CASE spin_slot(w)
  <2>1. "spin_find" \in Alive /\ 1 \in 0 .. SpinListSz + 1
    BY DEF WaitType, Typed, Fits, Alive, Slotted
  <2>2. Only(w, "spin_find")
    BY <1>4, <2>1, SlotMoves DEF WaitType, Moved, Places, spin_slot
  <2>3. lock_free' \in Nat /\ (~Sync => lock_free' = lock_free - 1)
    BY <1>4 DEF spin_slot, lock_no_sync, can_lock, WaitType
  <2>4. Frame /\ Written
    BY <1>4, <2>3 DEF spin_slot, WaitType, Frame, Written, object
  <2>5. num_waiting' + Is(At(w), Counted) = num_waiting + Is("spin_find", Counted)
    BY <1>4 DEF spin_slot, WaitType, Is, Counted
  <2>6. spin_list_count' + Is(At(w), Slotted) = spin_list_count + Is("spin_find", Slotted)
    BY <1>4 DEF spin_slot, WaitType, Is, Slotted, Owning
  <2>7. ~Sync => lock_free' + Is("spin_find", Searching) = lock_free + Is(At(w), Searching)
    BY <1>4, <2>3 DEF spin_slot, WaitType, Is, Searching
  <2> QED
    BY <2>1, <2>2, <2>4, <2>5, <2>6, <2>7 DEF WaitEffect, Effect, Follow
<1>5. CASE spin_find(w)
  <2> DEFINE i == wait[w].slot
  <2>1. {"spin_find", "spin_count", "idle_count"} \subseteq Alive /\ 0 \in 0 .. SpinListSz + 1
    BY DEF WaitType, Typed, Fits, Alive, Slotted, Owning
  <2>2. At(w) = "spin_find" /\ Frame /\ num_waiting' = num_waiting
    BY <1>5 DEF spin_find, Frame, object
  <2>3. CASE available(i) /\ Goto(w, "spin_count") /\ UNCHANGED <<lock_free, spin_list_count>>
             /\ spin_list' = [spin_list EXCEPT ![i] = 1]
    <3>1. Only(w, "spin_count")
      BY <2>1, <2>3, GotoMoves DEF WaitType, Moved, Places
    <3>2. Written
      BY <1>5, <2>3 DEF spin_find, WaitType, Written
    <3>3. Follow(w, "spin_count")
      BY <2>2, <2>3 DEF WaitType, Follow, Is, Counted, Slotted, Owning, Searching
    <3> QED
      BY <2>1, <2>2, <3>1, <3>2, <3>3 DEF WaitEffect, Effect
  <2>4. CASE i \in Slot /\ GotoSlot(w, "spin_find", i + 1)
             /\ UNCHANGED <<lock_free, spin_list, spin_list_count>>
    <3>1. i + 1 \in 0 .. SpinListSz + 1
      BY <2>4 DEF WaitType, Typed, Fits, Slot
    <3>2. Only(w, "spin_find")
      BY <2>1, <2>4, <3>1, SlotMoves DEF WaitType, Moved, Places
    <3>3. Written
      BY <1>5, <2>4 DEF spin_find, WaitType, Written
    <3>4. Follow(w, "spin_find")
      BY <2>2, <2>4 DEF WaitType, Follow
    <3> QED
      BY <2>1, <2>2, <3>2, <3>3, <3>4 DEF WaitEffect, Effect
  <2>5. CASE unlock_no_sync /\ spin_list_count' = spin_list_count - 1
             /\ GotoSlot(w, "idle_count", 0) /\ UNCHANGED spin_list
    <3>1. Only(w, "idle_count")
      BY <2>1, <2>5, SlotMoves DEF WaitType, Moved, Places
    <3>2. Written
      BY <1>5, <2>5 DEF spin_find, unlock_no_sync, WaitType, Written
    <3>3. num_waiting' + Is(At(w), Counted) = num_waiting + Is("idle_count", Counted)
      BY <2>2 DEF WaitType, Is, Counted
    <3>4. spin_list_count' + Is(At(w), Slotted) = spin_list_count + Is("idle_count", Slotted)
      BY <2>2, <2>5 DEF WaitType, Is, Slotted, Owning
    <3>5. ~Sync => lock_free' + Is("idle_count", Searching) = lock_free + Is(At(w), Searching)
      BY <2>2, <2>5 DEF unlock_no_sync, WaitType, Is, Searching
    <3> QED
      BY <2>1, <2>2, <3>1, <3>2, <3>3, <3>4, <3>5 DEF WaitEffect, Effect, Follow
  <2> QED
    BY <1>5, <2>3, <2>4, <2>5 DEF spin_find
<1>6. CASE spin_count(w)
  <2>1. "spin_entered" \in Alive
    BY DEF Alive, Counted
  <2>2. Only(w, "spin_entered")
    BY <1>6, <2>1, CountedMoves DEF spin_count, count, WaitType, Moved, Places
  <2>3. /\ At(w) = "spin_count" /\ unlock_no_sync /\ num_waiting' = num_waiting + 1
        /\ spin_list_count' = spin_list_count
    BY <1>6, Zenon DEF spin_count, count
  <2>4. UNCHANGED <<num_triggered, allowable_count, spin_list, spin_list_count, proc_list, woken>>
    BY <1>6, Zenon DEF spin_count, count
  <2>5. Frame
    BY <1>6, Zenon DEF spin_count, count, object, Frame
  <2>6. Written
    BY <2>3, <2>4 DEF WaitType, Written, unlock_no_sync
  <2>7. num_waiting' + Is(At(w), Counted) = num_waiting + Is("spin_entered", Counted)
    BY <2>3 DEF WaitType, Is, Counted
  <2>8. spin_list_count' + Is(At(w), Slotted) = spin_list_count + Is("spin_entered", Slotted)
    BY <2>3 DEF WaitType, Is, Slotted, Owning
  <2>9. ~Sync => lock_free' + Is("spin_entered", Searching) = lock_free + Is(At(w), Searching)
    BY <2>3 DEF unlock_no_sync, WaitType, Is, Searching
  <2> QED
    BY <2>1, <2>2, <2>5, <2>6, <2>7, <2>8, <2>9 DEF WaitEffect, Effect, Follow
<1>7. CASE idle_count(w)
  <2>1. "idle_entered" \in Alive
    BY DEF Alive, Counted
  <2>2. Only(w, "idle_entered")
    BY <1>7, <2>1, CountedMoves DEF idle_count, count, WaitType, Moved, Places
  <2>3. At(w) = "idle_count" /\ num_waiting' = num_waiting + 1
    BY <1>7, Zenon DEF idle_count, count
  <2>4. UNCHANGED <<lock_free, num_triggered, allowable_count, spin_list, spin_list_count,
                    proc_list, woken>>
    BY <1>7, Zenon DEF idle_count, count
  <2>5. Frame
    BY <1>7, Zenon DEF idle_count, count, object, Frame
  <2>6. Written
    BY <2>3, <2>4 DEF WaitType, Written
  <2>7. Follow(w, "idle_entered")
    BY <2>3, <2>4 DEF WaitType, Follow, Is, Counted, Slotted, Owning, Searching
  <2> QED
    BY <2>1, <2>2, <2>5, <2>6, <2>7 DEF WaitEffect, Effect
<1>8. CASE refused(w)
  <2>1. CASE At(w) = "spin_entered"
    <3>1. "refused_slot" \in Alive
      BY DEF Alive, Counted, Slotted
    <3>2. Only(w, "refused_slot")
      BY <1>8, <2>1, <3>1, GotoMoves DEF refused, WaitType, Moved, Places
    <3>3. Effect(w, "refused_slot")
      BY <1>8, <2>1, <3>2 DEF refused, Effect, WaitType, Frame, Written, Follow, Is,
         Counted, Slotted, Owning, Searching, object, shared
    <3> QED
      BY <3>1, <3>3 DEF WaitEffect
  <2>2. CASE At(w) # "spin_entered"
    <3>1. "out" \in Alive
      BY DEF Alive, Counted, Slotted
    <3>2. Only(w, "out")
      BY <1>8, <2>2, <3>1, ReturnMoves DEF refused, WaitType, Moved, Places
    <3>3. Effect(w, "out")
      BY <1>8, <2>2, <3>2 DEF refused, Effect, WaitType, Frame, Written, Follow, Is,
         Counted, Slotted, Owning, Searching, object, shared
    <3> QED
      BY <3>1, <3>3 DEF WaitEffect
  <2> QED
    BY <1>8, <2>1, <2>2 DEF refused
<1>9. CASE entered(w)
  <2> DEFINE l == IF At(w) = "spin_entered" THEN "spin" ELSE "idle"
  <2>1. l \in Alive
    BY DEF Alive, Counted
  <2>2. Only(w, l)
    BY <1>9, <2>1, ReleasedMoves DEF entered, WaitType, Moved, Places
  <2>3. /\ At(w) \in {"spin_entered", "idle_entered"}
        /\ lock_free' = IF Last(w) THEN lock_free + 1 ELSE lock_free
        /\ IF At(w) = "spin_entered" THEN _register_pid(w) ELSE UNCHANGED proc_list
    BY <1>9, Zenon DEF entered
  <2>4. UNCHANGED <<num_waiting, num_triggered, allowable_count, spin_list, spin_list_count, woken>>
    BY <1>9, Zenon DEF entered
  <2>5. Frame
    BY <1>9, Zenon DEF entered, object, Frame
  <2>6. Written
    BY <2>3, <2>4 DEF WaitType, Written, _register_pid
  <2>7. Follow(w, l) /\ l # "relock"
    BY <2>3, <2>4 DEF WaitType, Follow, Is, Counted, Slotted, Owning, Searching, Last
  <2> QED
    BY <2>1, <2>2, <2>5, <2>6, <2>7 DEF WaitEffect, Effect
<1>10. CASE idle_ticket(w)
  <2>1. "pickup" \in Alive
    BY DEF Alive, Counted, Slotted
  <2>2. Only(w, "pickup")
    BY <1>10, <2>1, GotoMoves DEF idle_ticket, WaitType, Moved, Places
  <2>3. Effect(w, "pickup")
    BY <1>10, <2>2 DEF idle_ticket, Effect, WaitType, Frame, Written, Follow, Is,
       Counted, Slotted, Owning, Searching, object, shared
  <2> QED
    BY <2>1, <2>3 DEF WaitEffect
<1>11. CASE idle_miss(w)
  <2>1. "missed" \in Alive
    BY DEF Alive, Counted, Slotted
  <2>2. Only(w, "missed")
    BY <1>11, <2>1, GotoMoves DEF idle_miss, WaitType, Moved, Places
  <2>3. Effect(w, "missed")
    BY <1>11, <2>2 DEF idle_miss, Effect, WaitType, Frame, Written, Follow, Is, Counted,
       Slotted, Owning, Searching, object, shared
  <2> QED
    BY <2>1, <2>3 DEF WaitEffect
<1>12. CASE idle_sleep(w)
  <2>1. "asleep" \in Alive
    BY DEF Alive, Counted, Slotted
  <2>2. Only(w, "asleep")
    BY <1>12, <2>1, GotoMoves DEF idle_sleep, WaitType, Moved, Places
  <2>3. Effect(w, "asleep")
    BY <1>12, <2>2 DEF idle_sleep, _register_pid, Effect, WaitType, Frame, Written,
       Follow, Is, Counted, Slotted, Owning, Searching, object, shared
  <2> QED
    BY <2>1, <2>3 DEF WaitEffect
<1>13. CASE idle_wake(w)
  <2>1. AfterSleep \in Alive
    BY DEF Alive, Counted, Slotted, AfterSleep
  <2>2. Only(w, AfterSleep)
    BY <1>13, <2>1, GotoMoves DEF idle_wake, WaitType, Moved, Places
  <2>3. Effect(w, AfterSleep)
    BY <1>13, <2>2 DEF idle_wake, _erase_pid, AfterSleep, Effect, WaitType, Frame,
       Written, Follow, Is, Counted, Slotted, Owning, Searching, object, shared
  <2> QED
    BY <2>1, <2>3 DEF WaitEffect
<1>14. CASE idle_timeout(w)
  <2>1. CASE Last(w)
    <3>1. "relock" \in Alive
      BY DEF Alive, Counted, Slotted
    <3>2. Only(w, "relock")
      BY <1>14, <2>1, <3>1, GotoMoves DEF idle_timeout, WaitType, Moved, Places
    <3>3. Effect(w, "relock")
      BY <1>14, <2>1, <3>2 DEF idle_timeout, Last, Effect, WaitType, Frame, Written,
         Follow, Is, Counted, Slotted, Owning, Searching, object, shared
    <3> QED
      BY <3>1, <3>3 DEF WaitEffect
  <2>2. CASE ~Last(w)
    <3>1. "out" \in Alive
      BY DEF Alive, Counted, Slotted
    <3>2. Only(w, "out")
      BY <1>14, <2>2, <3>1, ReturnMoves DEF idle_timeout, WaitType, Moved, Places
    <3>3. Effect(w, "out")
      BY <1>14, <2>2, <3>2 DEF idle_timeout, Last, Effect, WaitType, Frame, Written,
         Follow, Is, Counted, Slotted, Owning, Searching, object, shared
    <3> QED
      BY <3>1, <3>3 DEF WaitEffect
  <2> QED
    BY <1>14, <2>1, <2>2 DEF idle_timeout
<1>15. CASE relock(w)
  <2>1. "out" \in Alive
    BY DEF Alive, Counted, Slotted
  <2>2. Only(w, "out")
    BY <1>15, <2>1, ReturnMoves DEF relock, WaitType, Moved, Places
  <2>3. Effect(w, "out")
    BY <1>15, <2>2 DEF relock, Effect, WaitType, Frame, Written, Follow, Is, Counted,
       Slotted, Owning, Searching, object, shared
  <2> QED
    BY <2>1, <2>3 DEF WaitEffect
<1>16. CASE spin_exit(w)
  <2>1. "spin_leave" \in Alive
    BY DEF Alive, Counted, Slotted
  <2>2. Only(w, "spin_leave")
    BY <1>16, <2>1, GotoMoves DEF spin_exit, WaitType, Moved, Places
  <2>3. Effect(w, "spin_leave")
    BY <1>16, <2>2 DEF spin_exit, Effect, WaitType, Frame, Written, Follow, Is, Counted,
       Slotted, Owning, Searching, object, shared
  <2> QED
    BY <2>1, <2>3 DEF WaitEffect
<1>17. CASE spin_timeout(w)
  <2>1. CASE spin_list[wait[w].slot] = 2
    <3>1. "spin_leave" \in Alive
      BY DEF Alive, Counted, Slotted
    <3>2. Only(w, "spin_leave")
      BY <1>17, <2>1, <3>1, GotoMoves DEF spin_timeout, WaitType, Moved, Places
    <3>3. Effect(w, "spin_leave")
      BY <1>17, <2>1, <3>2 DEF spin_timeout, Effect, WaitType, Frame, Written, Follow,
         Is, Counted, Slotted, Owning, Searching, object, shared
    <3> QED
      BY <3>1, <3>3 DEF WaitEffect
  <2>2. CASE spin_list[wait[w].slot] # 2
    <3>1. "spin_giveup" \in Alive
      BY DEF Alive, Counted, Slotted
    <3>2. Only(w, "spin_giveup")
      BY <1>17, <2>2, <3>1, GotoMoves DEF spin_timeout, WaitType, Moved, Places
    <3>3. Effect(w, "spin_giveup")
      BY <1>17, <2>2, <3>2 DEF spin_timeout, Effect, WaitType, Frame, Written, Follow,
         Is, Counted, Slotted, Owning, Searching, object, shared
    <3> QED
      BY <3>1, <3>3 DEF WaitEffect
  <2> QED
    BY <1>17, <2>1, <2>2 DEF spin_timeout
<1>18. CASE spin_giveup(w)
  <2>1. "giveup_uncount" \in Alive
    BY DEF Alive, Counted, Slotted
  <2>2. Only(w, "giveup_uncount")
    BY <1>18, <2>1, GotoMoves DEF spin_giveup, WaitType, Moved, Places
  <2>3. Effect(w, "giveup_uncount")
    BY <1>18, <2>2 DEF spin_giveup, Effect, WaitType, Frame, Written, Follow, Is,
       Counted, Slotted, Owning, Searching, object, shared
  <2> QED
    BY <2>1, <2>3 DEF WaitEffect
<1>19. CASE spin_adapt(w)
  <2>1. "adapt_uncount" \in Alive
    BY DEF Alive, Counted, Slotted
  <2>2. Only(w, "adapt_uncount")
    BY <1>19, <2>1, GotoMoves DEF spin_adapt, WaitType, Moved, Places
  <2>3. Effect(w, "adapt_uncount")
    BY <1>19, <2>2 DEF spin_adapt, Effect, WaitType, Frame, Written, Follow, Is,
       Counted, Slotted, Owning, Searching, object, shared
  <2> QED
    BY <2>1, <2>3 DEF WaitEffect
<1>20. CASE clear_slot(w)
  <2>1. CASE At(w) = "spin_leave"
    <3>1. "left_uncount" \in Alive
      BY DEF Alive, Counted, Slotted
    <3>2. Only(w, "left_uncount")
      BY <1>20, <2>1, <3>1, GotoMoves DEF clear_slot, WaitType, Moved, Places
    <3>3. Effect(w, "left_uncount")
      BY <1>20, <2>1, <3>2 DEF clear_slot, _erase_pid, Last, Effect, WaitType, Frame,
         Written, Follow, Is, Counted, Slotted, Owning, Searching, object, shared
    <3> QED
      BY <3>1, <3>3 DEF WaitEffect
  <2>2. CASE At(w) = "refused_slot"
    <3>1. "refused_uncount" \in Alive
      BY DEF Alive, Counted, Slotted
    <3>2. Only(w, "refused_uncount")
      BY <1>20, <2>2, <3>1, GotoMoves DEF clear_slot, WaitType, Moved, Places
    <3>3. Effect(w, "refused_uncount")
      BY <1>20, <2>2, <3>2 DEF clear_slot, _erase_pid, Last, Effect, WaitType, Frame,
         Written, Follow, Is, Counted, Slotted, Owning, Searching, object, shared
    <3> QED
      BY <3>1, <3>3 DEF WaitEffect
  <2>3. CASE At(w) = "giveup_slot" /\ Last(w)
    <3>1. "relock" \in Alive
      BY DEF Alive, Counted, Slotted
    <3>2. Only(w, "relock")
      BY <1>20, <2>3, <3>1, GotoMoves DEF clear_slot, WaitType, Moved, Places
    <3>3. Effect(w, "relock")
      BY <1>20, <2>3, <3>2 DEF clear_slot, _erase_pid, Last, Effect, WaitType, Frame,
         Written, Follow, Is, Counted, Slotted, Owning, Searching, object, shared
    <3> QED
      BY <3>1, <3>3 DEF WaitEffect
  <2>4. CASE At(w) = "giveup_slot" /\ ~Last(w)
    <3>1. "out" \in Alive
      BY DEF Alive, Counted, Slotted
    <3>2. Only(w, "out")
      BY <1>20, <2>4, <3>1, ReturnMoves DEF clear_slot, WaitType, Moved, Places
    <3>3. Effect(w, "out")
      BY <1>20, <2>4, <3>2 DEF clear_slot, _erase_pid, Last, Effect, WaitType, Frame,
         Written, Follow, Is, Counted, Slotted, Owning, Searching, object, shared
    <3> QED
      BY <3>1, <3>3 DEF WaitEffect
  <2> QED
    BY <1>20, <2>1, <2>2, <2>3, <2>4 DEF clear_slot
<1>21. CASE spin_uncount(w)
  <2>1. CASE At(w) = "refused_uncount"
    <3>1. "out" \in Alive
      BY DEF Alive, Counted, Slotted
    <3>2. Only(w, "out")
      BY <1>21, <2>1, <3>1, ReturnMoves DEF spin_uncount, WaitType, Moved, Places,
         release, AfterSpin
    <3>3. Effect(w, "out")
      BY <1>21, <2>1, <3>2 DEF spin_uncount, _erase_pid, Effect, WaitType, Frame,
         Written, Follow, Is, Counted, Slotted, Owning, Searching, object, shared
    <3> QED
      BY <3>1, <3>3 DEF WaitEffect
  <2>2. CASE At(w) = "left_uncount"
    <3>1. "pickup" \in Alive
      BY DEF Alive, Counted, Slotted
    <3>2. Only(w, "pickup")
      BY <1>21, <2>2, <3>1, GotoMoves DEF spin_uncount, WaitType, Moved, Places, AfterSpin
    <3>3. Effect(w, "pickup")
      BY <1>21, <2>2, <3>2 DEF spin_uncount, _erase_pid, Effect, WaitType, Frame,
         Written, Follow, Is, Counted, Slotted, Owning, Searching, object, shared
    <3> QED
      BY <3>1, <3>3 DEF WaitEffect
  <2>3. CASE At(w) = "giveup_uncount"
    <3>1. "giveup_slot" \in Alive
      BY DEF Alive, Counted, Slotted
    <3>2. Only(w, "giveup_slot")
      BY <1>21, <2>3, <3>1, GotoMoves DEF spin_uncount, WaitType, Moved, Places, AfterSpin
    <3>3. Effect(w, "giveup_slot")
      BY <1>21, <2>3, <3>2 DEF spin_uncount, _erase_pid, Effect, WaitType, Frame,
         Written, Follow, Is, Counted, Slotted, Owning, Searching, object, shared
    <3> QED
      BY <3>1, <3>3 DEF WaitEffect
  <2>4. CASE At(w) = "adapt_uncount"
    <3>1. "idle" \in Alive
      BY DEF Alive, Counted, Slotted
    <3>2. Only(w, "idle")
      BY <1>21, <2>4, <3>1, GotoMoves DEF spin_uncount, WaitType, Moved, Places, AfterSpin
    <3>3. Effect(w, "idle")
      BY <1>21, <2>4, <3>2 DEF spin_uncount, _erase_pid, Effect, WaitType, Frame,
         Written, Follow, Is, Counted, Slotted, Owning, Searching, object, shared
    <3> QED
      BY <3>1, <3>3 DEF WaitEffect
  <2> QED
    BY <1>21, <2>1, <2>2, <2>3, <2>4 DEF spin_uncount, AfterSpin
<1>22. CASE pickup(w)
  <2>1. {"leave", "out"} \subseteq Alive
    BY DEF Alive, Counted
  <2>2. At(w) = "pickup" /\ UNCHANGED <<lock_free, spin_list_count>>
    BY <1>22, Zenon DEF pickup
  <2>3. UNCHANGED <<num_triggered, allowable_count, spin_list, proc_list, woken>>
    BY <1>22, Zenon DEF pickup
  <2>4. Frame
    BY <1>22, Zenon DEF pickup, object, Frame
  <2>5. CASE shutting_down = "no"
    <3>1. Only(w, "leave")
      BY <1>22, <2>1, <2>5, PaidMoves DEF pickup, WaitType, Moved, Places
    <3>2. num_waiting' = num_waiting
      BY <1>22, <2>5, Zenon DEF pickup
    <3>3. Written /\ Follow(w, "leave")
      BY <2>2, <2>3, <3>2 DEF WaitType, Written, Follow, Is, Counted, Slotted, Owning, Searching
    <3> QED
      BY <2>1, <2>4, <3>1, <3>3 DEF WaitEffect, Effect
  <2>6. CASE shutting_down # "no"
    <3>1. Return(w, 0) /\ num_waiting' = num_waiting - 1
      BY <1>22, <2>6, Zenon DEF pickup
    <3>2. Only(w, "out")
      BY <3>1, ReturnMoves DEF WaitType, Moved, Places
    <3>3. Written /\ Follow(w, "out")
      BY <2>2, <2>3, <3>1 DEF WaitType, Written, Follow, Is, Counted, Slotted, Owning, Searching
    <3> QED
      BY <2>1, <2>4, <3>2, <3>3 DEF WaitEffect, Effect
  <2> QED
    BY <2>5, <2>6
<1>23. CASE leave(w)
  <2>1. "done" \in Alive
    BY DEF Alive, Counted, Slotted
  <2>2. Only(w, "done")
    BY <1>23, <2>1, GotoMoves DEF leave, WaitType, Moved, Places
  <2>3. Effect(w, "done")
    BY <1>23, <2>2 DEF leave, Effect, WaitType, Frame, Written, Follow, Is, Counted,
       Slotted, Owning, Searching, object, shared
  <2> QED
    BY <2>1, <2>3 DEF WaitEffect
<1>24. CASE done(w)
  <2>1. "out" \in Alive
    BY DEF Alive, Counted, Slotted
  <2>2. Only(w, "out")
    BY <1>24, <2>1, ReturnMoves DEF done, WaitType, Moved, Places
  <2>3. Effect(w, "out")
    BY <1>24, <2>2 DEF done, Effect, WaitType, Frame, Written, Follow, Is, Counted,
       Slotted, Owning, Searching, object, shared
  <2> QED
    BY <2>1, <2>3 DEF WaitEffect
<1> QED
  BY <1>1, <1>2, <1>3, <1>4, <1>5, <1>6, <1>7, <1>8, <1>9, <1>10, <1>11, <1>12, <1>13,
     <1>14, <1>15, <1>16, <1>17, <1>18, <1>19, <1>20, <1>21, <1>22, <1>23, <1>24 DEF
     Steps, WaitStep, TakesLock, Chance

-----------------------------------------------------------------------------
(* What a step of a triggerer does                                         *)

\* The steps of a triggerer but the start of a call.
TSteps(t) == TrigStep(t) \/ trig_lock(t) \/ trig_timeout(t)

TrigType ==
  /\ Fits /\ trig \in [Triggerer -> TrigLocal]
  /\ \A t \in Triggerer : Numbers(trig[t])
  /\ lock_free \in Nat /\ num_waiting \in Int /\ num_triggered \in Nat
  /\ triggering \in {0, 1} /\ allowable_count \in Nat
  /\ spin_list \in [Slot -> {0, 1, 2}] /\ spin_list_count \in Int
  /\ rounds \in Nat /\ payload = rounds /\ woken \in Nat
  /\ \A w \in Waiter : w \in proc_list => At(w) \in Places
  /\ proc_list \subseteq Waiter

\* Only t has moved: its local variables are e.
TOnly(t, e) ==
  /\ e \in TrigLocal /\ Numbers(e)
  /\ e.spinner_count \in {0, trig[t].spinner_count, spin_list_count}
  /\ trig' \in [Triggerer -> TrigLocal] /\ trig'[t] = e
  /\ \A u \in Triggerer \ {t} : trig'[u] = trig[u]

\* A triggerer gets the local variables e.
LEMMA TSet ==
  ASSUME TrigType, NEW t \in Triggerer, NEW e \in TrigLocal, Numbers(e),
         e.spinner_count \in {0, trig[t].spinner_count, spin_list_count},
         trig' = [trig EXCEPT ![t] = e]
  PROVE  TOnly(t, e)
BY DEF TrigType, TOnly

\* A triggerer goes on at l.
LEMMA TGotoOnly ==
  ASSUME TrigType, NEW t \in Triggerer, NEW l \in Locking, TGoto(t, l),
         Numbers([trig[t] EXCEPT !.at = l])
  PROVE  TOnly(t, [trig[t] EXCEPT !.at = l])
<1> DEFINE e == [trig[t] EXCEPT !.at = l]
<1>1. e \in TrigLocal /\ e.spinner_count = trig[t].spinner_count
  BY Zenon DEF TrigType, TrigLocal
<1>2. trig' = [trig EXCEPT ![t] = e]
  BY DEF TGoto
<1> HIDE DEF e
<1>3. Numbers(e)
  BY DEF e
<1>4. TOnly(t, e)
  BY <1>1, <1>2, <1>3, TSet
<1> QED
  BY <1>4 DEF e

\* A call of trigger returns.
LEMMA TReturnOnly ==
  ASSUME TrigType, NEW t \in Triggerer, TReturn(t)
  PROVE  TOnly(t, NotTriggering)
<1>1. /\ NotTriggering \in TrigLocal /\ Numbers(NotTriggering)
      /\ NotTriggering.spinner_count = 0
  BY DEF NotTriggering, Triggering, TrigLocal, Numbers, TrigType, Fits
<1>2. trig' = [trig EXCEPT ![t] = NotTriggering]
  BY DEF TReturn
<1> QED
  BY <1>1, <1>2, TSet

\* What a triggerer leaves alone.
TFrame == UNCHANGED <<sync_type, shutting_down, wait, proc_list, spin_list_count>>

TWritten ==
  /\ lock_free' \in Nat /\ num_waiting' \in Int /\ num_triggered' \in Nat
  /\ triggering' \in {0, 1} /\ allowable_count' \in Nat
  /\ spin_list' \in [Slot -> {0, 1, 2}] /\ woken' \in Nat
  /\ rounds' \in Nat /\ payload' = rounds'

\* The lock and the bound follow a triggerer that goes to the location l.
TFollow(t, l) ==
  /\ rounds' + Is(l, Early) <= rounds + Is(TAt(t), Early)
  /\ ~Sync => lock_free' + Is(l, Locking) <= lock_free + Is(TAt(t), Locking)
  /\ ~Sync /\ shutting_down = "no" /\ Counts \subseteq {1, All} =>
       lock_free' + Is(l, Locking) = lock_free + Is(TAt(t), Locking)
  /\ num_waiting' <= num_waiting
  /\ (\A w \in Waiter : At(w) # "dead") => num_waiting' = num_waiting

TrigEffect(t) ==
  /\ TFrame /\ TWritten
  /\ \E e \in TrigLocal : TOnly(t, e) /\ TFollow(t, e.at)

\* Every step of a triggerer but the start of a call moves the triggerer alone, and the
\* lock follows it.  The lock stays taken if the call finds too few waiters, or is cut
\* short by destroy.
LEMMA TrigSteps ==
  ASSUME TrigType, NEW t \in Triggerer, TSteps(t)
  PROVE  TrigEffect(t)
<1>0. /\ TrigType /\ trig[t] \in TrigLocal /\ Numbers(trig[t])
      /\ Locking \subseteq Locking \cup {"out", "lock"}
  BY DEF TrigType
<1>a. NotTriggering.at = "out" /\ NotTriggering \in TrigLocal
  BY DEF NotTriggering, Triggering, TrigLocal, TrigType, Fits
<1>1. CASE trig_lock(t)
  <2> DEFINE e == [trig[t] EXCEPT !.at = "count"]
  <2>1. "count" \in Locking
    BY DEF Locking
  <2>2. e \in TrigLocal /\ e.at = "count" /\ e.n = trig[t].n /\ e.num_spinners =
     trig[t].num_spinners
        /\ e.num_waiting = trig[t].num_waiting
    BY <1>0, <2>1, Zenon DEF TrigLocal
  <2>3. TAt(t) = "lock" /\ TGoto(t, "count")
    BY <1>1 DEF trig_lock
  <2> HIDE DEF e
  <2>4. Numbers(e)
    BY <1>0, <2>2, <2>3 DEF Numbers, TAt
  <2>5. TOnly(t, e)
    BY <2>1, <2>3, <2>4, TGotoOnly DEF e
  <2>6. TFrame /\ TWritten /\ TFollow(t, "count")
    BY <1>0, <1>1, <2>3 DEF trig_lock, TFrame, TWritten, TFollow, TrigType, Is, Early,
       Locking, object, shared
  <2> QED
    BY <2>2, <2>5, <2>6 DEF TrigEffect
<1>2. CASE trig_count(t)
  <2>1. CASE num_waiting = 0
    <3>a. ~(num_waiting > 0)
      BY <2>1
    <3>1. TReturn(t) /\ TAt(t) = "count" /\ lock_free' = lock_free + 1
      BY <1>2, <3>a, Zenon DEF trig_count
    <3>2. TOnly(t, NotTriggering)
      BY <3>1, TReturnOnly
    <3>3. TFrame /\ UNCHANGED <<shared, rounds, woken>>
      BY <1>2, Zenon DEF trig_count, TFrame, shared, object
    <3>4. TWritten /\ TFollow(t, "out")
      BY <3>1, <3>3 DEF TFrame, TWritten, TFollow, TrigType, Is, Early, Locking, object, shared
    <3> QED
      BY <1>a, <3>2, <3>3, <3>4 DEF TrigEffect
  <2>2. CASE num_waiting > 0
    <3> DEFINE e == [trig[t] EXCEPT !.at = "payload", !.num_waiting = num_waiting]
    <3>1. "payload" \in Locking /\ num_waiting \in Nat /\ num_waiting # 0
      BY <2>2 DEF TrigType, Locking
    <3>2. /\ e \in TrigLocal /\ e.at = "payload" /\ e.n = trig[t].n
          /\ e.num_spinners = trig[t].num_spinners /\ e.num_waiting = num_waiting
          /\ e.spinner_count = trig[t].spinner_count
      BY <1>0, <3>1, Zenon DEF TrigLocal
    <3>3. trig' = [trig EXCEPT ![t] = e] /\ TAt(t) = "count" /\ UNCHANGED lock_free
      BY <1>2, <3>1, Zenon DEF trig_count
    <3>4. TFrame /\ UNCHANGED <<shared, rounds, woken>>
      BY <1>2, Zenon DEF trig_count, TFrame, shared, object
    <3> HIDE DEF e
    <3>5. Numbers(e)
      BY <1>0, <2>2, <3>2, <3>3 DEF Numbers, TAt
    <3>6. TOnly(t, e)
      BY <3>2, <3>3, <3>5, TSet
    <3>7. TWritten /\ TFollow(t, "payload")
      BY <3>3, <3>4 DEF TFrame, TWritten, TFollow, TrigType, Is, Early, Locking, object, shared
    <3> QED
      BY <3>2, <3>4, <3>6, <3>7 DEF TrigEffect
  <2> QED
    BY <1>2, <2>1, <2>2, Zenon DEF trig_count
<1>3. CASE trig_payload(t)
  <2> DEFINE e == [trig[t] EXCEPT !.at = "begin"]
  <2>1. "begin" \in Locking
    BY DEF Locking
  <2>2. e \in TrigLocal /\ e.at = "begin" /\ e.n = trig[t].n /\ e.num_spinners =
     trig[t].num_spinners
        /\ e.num_waiting = trig[t].num_waiting
    BY <1>0, <2>1, Zenon DEF TrigLocal
  <2>3. TAt(t) = "payload" /\ TGoto(t, "begin")
    BY <1>3 DEF trig_payload
  <2> HIDE DEF e
  <2>4. Numbers(e)
    BY <1>0, <2>2, <2>3 DEF Numbers, TAt
  <2>5. TOnly(t, e)
    BY <2>1, <2>3, <2>4, TGotoOnly DEF e
  <2>6. TFrame /\ TWritten /\ TFollow(t, "begin")
    BY <1>0, <1>3, <2>3 DEF trig_payload, TFrame, TWritten, TFollow, TrigType, Is,
       Early, Locking, object, shared
  <2> QED
    BY <2>2, <2>5, <2>6 DEF TrigEffect
<1>4. CASE trig_begin(t)
  <2> DEFINE seen == trig[t].num_waiting
             n == IF trig[t].n = All THEN seen ELSE trig[t].n
  <2>1. TAt(t) = "begin" /\ num_triggered' = 0
    BY <1>4, Zenon DEF trig_begin
  <2>2. seen \in Nat /\ seen > 0 /\ n \in Nat /\ trig[t].num_spinners = 0
    BY <1>0, <2>1 DEF Numbers, TAt, TrigLocal, TrigType, Fits
  <2>3. UNCHANGED <<lock_free, num_waiting, allowable_count, spin_list, payload, rounds>>
    BY <1>4, Zenon DEF trig_begin
  <2>4. TFrame
    BY <1>4, Zenon DEF trig_begin, TFrame, object
  <2>5. Counts \subseteq {1, All} => seen >= n
    BY <1>0, <2>1, <2>2 DEF Numbers, TAt
  <2>6. CASE TReturn(t) /\ UNCHANGED <<triggering, woken>> /\ seen < n
    <3>1. TOnly(t, NotTriggering)
      BY <2>6, TReturnOnly
    <3>2. TWritten
      BY <2>1, <2>3, <2>6 DEF TWritten, TrigType
    <3>3. TFollow(t, "out")
      BY <2>1, <2>2, <2>3, <2>5, <2>6 DEF TFollow, TrigType, Is, Early, Locking
    <3> QED
      BY <1>a, <2>4, <3>1, <3>2, <3>3 DEF TrigEffect
  <2>7. CASE /\ triggering' = 1 /\ woken' = 0
             /\ trig' = [trig EXCEPT ![t] = [@ EXCEPT !.at = "scan", !.n = n,
                                                      !.spinner_count = spin_list_count]]
    <3> DEFINE e == [trig[t] EXCEPT !.at = "scan", !.n = n, !.spinner_count = spin_list_count]
    <3>1. n \in Nat \cup {All} /\ spin_list_count \in Int /\ "scan" \in Locking \cup {"out", "lock"}
      BY <2>2 DEF TrigType, Locking
    <3>2. trig' = [trig EXCEPT ![t] = e]
      BY <2>7, Zenon
    <3> HIDE DEF n
    <3>3. /\ e \in TrigLocal /\ e.at = "scan" /\ e.n = n
          /\ e.num_spinners = trig[t].num_spinners /\ e.spinner_count = spin_list_count
      BY <1>0, <3>1, Zenon DEF TrigLocal
    <3> HIDE DEF e
    <3>4. Numbers(e)
      BY <2>2, <3>3 DEF Numbers
    <3>5. TOnly(t, e)
      BY <3>2, <3>3, <3>4, TSet
    <3>6. TWritten
      BY <2>1, <2>3, <2>7 DEF TWritten, TrigType
    <3>7. TFollow(t, "scan")
      BY <2>1, <2>3 DEF TFollow, TrigType, Is, Early, Locking
    <3> QED
      BY <2>4, <3>3, <3>5, <3>6, <3>7 DEF TrigEffect
  <2> QED
    BY <1>4, <2>6, <2>7, Zenon DEF trig_begin
<1>5. CASE trig_scan(t)
  <2> DEFINE i == trig[t].idx
             more == /\ trig[t].num_spinners < trig[t].spinner_count
                     /\ i <= SpinListSz
                     /\ trig[t].num_spinners < trig[t].n
  <2>1. TAt(t) = "scan" /\ trig[t].n \in Nat /\ trig[t].num_spinners <= trig[t].n
    <3>1. TAt(t) = "scan"
      BY <1>5, Zenon DEF trig_scan
    <3> QED
      BY <1>0, <3>1 DEF Numbers, TAt
  <2>2. UNCHANGED <<lock_free, num_waiting, num_triggered, triggering, allowable_count, payload,
                    rounds>>
    BY <1>5, Zenon DEF trig_scan
  <2>3. TFrame
    BY <1>5, Zenon DEF trig_scan, TFrame, object
  <2>4. i \in 1 .. SpinListSz + 1 /\ i \in Int /\ SpinListSz \in Nat /\ trig[t].num_spinners \in Nat
    BY <1>0 DEF TrigLocal, TrigType, Fits
  <2>5. \A l \in {"scan", "allow"} : TFollow(t, l)
    BY <2>1, <2>2 DEF TFollow, TrigType, Is, Early, Locking
  <2>6. CASE /\ more /\ spin_list' = [spin_list EXCEPT ![i] = 2] /\ woken' = woken + 1
             /\ trig' = [trig EXCEPT ![t] = [@ EXCEPT !.idx = i + 1,
                                              !.num_spinners = trig[t].num_spinners + 1]]
    <3> DEFINE k == trig[t].num_spinners + 1
               j == i + 1
               e == [trig[t] EXCEPT !.idx = j, !.num_spinners = k]
    <3>1. k \in Nat /\ j \in 1 .. SpinListSz + 1 /\ k <= trig[t].n
      BY <2>1, <2>4, <2>6
    <3>2. trig' = [trig EXCEPT ![t] = e]
      BY <2>6, Zenon
    <3> HIDE DEF k, j
    <3>3. /\ e \in TrigLocal /\ e.at = trig[t].at /\ e.n = trig[t].n
          /\ e.num_spinners = k /\ e.spinner_count = trig[t].spinner_count
      BY <1>0, <3>1, Zenon DEF TrigLocal
    <3> HIDE DEF e
    <3>4. Numbers(e)
      BY <2>1, <3>1, <3>3 DEF Numbers, TAt
    <3>5. TOnly(t, e)
      BY <3>2, <3>3, <3>4, TSet
    <3>6. spin_list' \in [Slot -> {0, 1, 2}] /\ woken' \in Nat
      <4>1. spin_list' = [spin_list EXCEPT ![i] = 2] /\ woken' = woken + 1
        BY <2>6, Zenon
      <4>2. spin_list \in [Slot -> {0, 1, 2}] /\ woken \in Nat
        BY DEF TrigType
      <4>3. woken' \in Nat
        BY <4>1, <4>2
      <4>4. spin_list' \in [Slot -> {0, 1, 2}]
        BY <4>1, <4>2
      <4> QED
        BY <4>3, <4>4
    <3>7. TWritten
      BY <2>2, <3>6 DEF TWritten, TrigType
    <3> QED
      BY <2>1, <2>3, <2>5, <3>3, <3>5, <3>7 DEF TrigEffect, TAt
  <2>7. CASE /\ more /\ UNCHANGED <<spin_list, woken>>
             /\ trig' = [trig EXCEPT ![t].idx = i + 1]
    <3> DEFINE j == i + 1
               e == [trig[t] EXCEPT !.idx = j]
    <3>1. j \in 1 .. SpinListSz + 1
      BY <2>4, <2>7
    <3>2. trig' = [trig EXCEPT ![t] = e]
      BY <2>7, Zenon
    <3> HIDE DEF j
    <3>3. /\ e \in TrigLocal /\ e.at = trig[t].at /\ e.n = trig[t].n
          /\ e.num_spinners = trig[t].num_spinners /\ e.spinner_count = trig[t].spinner_count
      BY <1>0, <3>1, Zenon DEF TrigLocal
    <3> HIDE DEF e
    <3>4. Numbers(e)
      BY <2>1, <3>3 DEF Numbers, TAt
    <3>5. TOnly(t, e)
      BY <3>2, <3>3, <3>4, TSet
    <3>6. TWritten
      BY <2>2, <2>7 DEF TWritten, TrigType
    <3> QED
      BY <2>1, <2>3, <2>5, <3>3, <3>5, <3>6 DEF TrigEffect, TAt
  <2>8. CASE TGoto(t, "allow") /\ UNCHANGED <<spin_list, woken>>
    <3> DEFINE e == [trig[t] EXCEPT !.at = "allow"]
    <3>1. "allow" \in Locking
      BY DEF Locking
    <3>2. /\ e \in TrigLocal /\ e.at = "allow" /\ e.n = trig[t].n
          /\ e.num_spinners = trig[t].num_spinners
      BY <1>0, <3>1, Zenon DEF TrigLocal
    <3> HIDE DEF e
    <3>3. Numbers(e)
      BY <2>1, <3>2 DEF Numbers
    <3>4. TOnly(t, e)
      BY <2>8, <3>1, <3>3, TGotoOnly DEF e
    <3>5. TWritten
      BY <2>2, <2>8 DEF TWritten, TrigType
    <3> QED
      BY <2>3, <2>5, <3>2, <3>4, <3>5 DEF TrigEffect
  <2> QED
    BY <1>5, <2>6, <2>7, <2>8, Zenon DEF trig_scan
<1>6. CASE trig_allow(t)
  <2> DEFINE e == [trig[t] EXCEPT !.at = "poll"]
  <2>1. "poll" \in Locking
    BY DEF Locking
  <2>2. e \in TrigLocal /\ e.at = "poll" /\ e.n = trig[t].n /\ e.num_spinners = trig[t].num_spinners
        /\ e.num_waiting = trig[t].num_waiting
    BY <1>0, <2>1, Zenon DEF TrigLocal
  <2>3. TAt(t) = "allow" /\ TGoto(t, "poll")
    BY <1>6 DEF trig_allow
  <2> HIDE DEF e
  <2>4. Numbers(e)
    BY <1>0, <2>2, <2>3 DEF Numbers, TAt
  <2>5. TOnly(t, e)
    BY <2>1, <2>3, <2>4, TGotoOnly DEF e
  <2>a. allowable_count' \in Nat
    BY <1>0, <1>6, <2>3 DEF trig_allow, Numbers, TAt, TrigLocal
  <2>6. TFrame /\ TWritten /\ TFollow(t, "poll")
    BY <1>0, <1>6, <2>3, <2>a DEF trig_allow, TFrame, TWritten, TFollow, TrigType, Is,
       Early, Locking, object, shared
  <2> QED
    BY <2>2, <2>5, <2>6 DEF TrigEffect
<1>7. CASE _trigger_completion(t)
  <2>1. TReturn(t) /\ TAt(t) = "poll"
    BY <1>7 DEF _trigger_completion
  <2>2. TOnly(t, NotTriggering)
    BY <2>1, TReturnOnly
  <2>3. TFrame /\ TWritten /\ TFollow(t, "out")
    BY <1>0, <1>7, <2>1 DEF _trigger_completion, unlock_no_sync, TFrame, TWritten,
       TFollow, TrigType, Is, Early, Locking, object, shared
  <2> QED
    BY <1>a, <2>2, <2>3 DEF TrigEffect
<1>8. CASE trig_timeout(t)
  <2>1. TReturn(t) /\ TAt(t) = "poll"
    BY <1>8 DEF trig_timeout
  <2>2. TOnly(t, NotTriggering)
    BY <2>1, TReturnOnly
  <2>3. TFrame /\ TWritten /\ TFollow(t, "out")
    BY <1>0, <1>8, <2>1 DEF trig_timeout, unlock_no_sync, TFrame, TWritten, TFollow,
       TrigType, Is, Early, Locking, object, shared
  <2> QED
    BY <1>a, <2>2, <2>3 DEF TrigEffect
<1>9. CASE trig_shutdown(t)
  <2>1. TReturn(t) /\ TAt(t) = "poll"
    BY <1>9 DEF trig_shutdown
  <2>2. TOnly(t, NotTriggering)
    BY <2>1, TReturnOnly
  <2>3. TFrame /\ TWritten /\ TFollow(t, "out")
    BY <1>0, <1>9, <2>1 DEF trig_shutdown, TFrame, TWritten, TFollow, TrigType, Is,
       Early, Locking, object, shared
  <2> QED
    BY <1>a, <2>2, <2>3 DEF TrigEffect
<1>10. CASE _check_pids(t)
  <2> DEFINE dead == {w \in proc_list : At(w) = "dead"}
  <2>1. TReturn(t) /\ TAt(t) = "poll" /\ dead # {} /\ num_waiting' = num_waiting - Cardinality(dead)
    BY <1>10 DEF _check_pids
  <2>2. IsFiniteSet(Waiter) /\ dead \subseteq Waiter
    BY DEF TrigType, Fits
  <2>3. Cardinality(dead) \in Nat
    BY <2>2, FS_Subset, FS_CardinalityType
  <2>4. ~ \A w \in Waiter : At(w) # "dead"
    BY <2>1, <2>2
  <2>5. TOnly(t, NotTriggering)
    BY <2>1, TReturnOnly
  <2> HIDE DEF dead
  <2>6. /\ UNCHANGED <<num_triggered, triggering, allowable_count, spin_list, payload>>
        /\ UNCHANGED <<rounds, woken>>
        /\ TFrame /\ unlock_no_sync
    BY <1>10 DEF _check_pids, TFrame, object
  <2>7. TWritten
    BY <2>1, <2>3, <2>6 DEF TWritten, TrigType, unlock_no_sync
  <2>8. TFollow(t, "out")
    BY <2>1, <2>3, <2>4, <2>6 DEF TFollow, TrigType, unlock_no_sync, Is, Early, Locking
  <2> QED
    BY <1>a, <2>5, <2>6, <2>7, <2>8 DEF TrigEffect
<1> QED
  BY <1>1, <1>2, <1>3, <1>4, <1>5, <1>6, <1>7, <1>8, <1>9, <1>10 DEF TSteps, TrigStep

\* The dead take no step.
LEMMA NotDead ==
  ASSUME NEW w \in Waiter, Steps(w)
  PROVE  At(w) # "dead"
BY DEF Steps, WaitStep, TakesLock, Chance, wait_start, _bcast_wait_on_triggering, gate_timeout, spin_slot,
       spin_find, spin_count, idle_count, refused, entered, idle_ticket, idle_miss, idle_sleep,
       idle_wake, idle_timeout, relock, spin_exit, spin_timeout, spin_giveup, spin_adapt,
       clear_slot, spin_uncount, AfterSpin, pickup, leave, done

\* Nobody goes to the dead otherwise.
LEMMA AliveNotDead == "dead" \notin Alive
BY DEF Alive, Counted, Slotted, Owning
=============================================================================
