-------------------------------- MODULE BCast --------------------------------
(***************************************************************************)
(* The broadcast object of src/lib/bcast.c: processes wait on it, idly or  *)
(* spinning in a slot of spin_list, and others trigger one, some or all of *)
(* them, handing each a payload.                                           *)
(*                                                                         *)
(* A step is one access to the shared header, or a few that no other       *)
(* process can tell apart.  The object's lock is a ticket lock, which a    *)
(* synchronised object uses as a semaphore (a waiter unlocks it for the    *)
(* triggerer), so its state is the number of callers it lets through.      *)
(*                                                                         *)
(* allowable_count is only ever tested for being positive, stored, and     *)
(* decremented by every turn of an idle waiter: its negative values are    *)
(* all 0 here.  A payload is the number of the trigger call that sends it. *)
(***************************************************************************)
EXTENDS Integers, FiniteSets

CONSTANTS
  All,                  \* INT_MAX, the num_to_trigger of trigger_all
  SpinListSz, ProcMax,
  Uses                  \* the uses checked: records with the fields below

VARIABLE use            \* the use this behaviour is an instance of: never changes

Waiter == use.waiter
Triggerer == use.triggerer
Modes == use.modes          \* the wait modes: "idle", "spin", "adaptive"
Counts == use.counts        \* the num_to_trigger arguments
Timed == use.timed          \* the processes that give a timeout
Notified == use.notified    \* the waiters that are threads of a notify call
Mortal == use.mortal        \* the waiters that may die
SyncTypes == use.sync       \* the attributes an object may be created with
SyncNum == use.sync_num
MaxRounds == use.rounds     \* bound: the number of trigger calls that find a waiter
MaxTriggered == use.triggered  \* bound: no call of wait begins above this num_triggered

ASSUME BCastAssumption ==
  /\ SpinListSz \in Nat /\ ProcMax \in Nat /\ All \notin Nat
  /\ \A u \in Uses :
       /\ u.sync \subseteq {"NO_SYNC", "SYNC"} /\ u.sync_num \in Nat \ {0}
       /\ u.rounds \in Nat /\ u.triggered \in Nat
       /\ u.modes \subseteq {"idle", "spin", "adaptive"}
       /\ u.counts \subseteq Nat \cup {All}
       /\ IsFiniteSet(u.waiter) /\ IsFiniteSet(u.triggerer)

VARIABLES
  lock_free,        \* how many calls of dragon_lock would return at once
  sync_type,
  num_waiting, num_triggered, triggering, allowable_count,
  spin_list,        \* per slot: 0 free, 1 waiting, 2 triggered
  spin_list_count,
  proc_list,        \* the waiters whose pid is registered
  payload,
  shutting_down,    \* "no", "yes", or "freed": the memory is gone
  wait,             \* wait[w]: where waiter w is, and its local variables
  trig,             \* trig[t]: the same for triggerer t
  rounds,           \* history: the trigger calls that found a waiter
  woken             \* history: waiters released by the current trigger

shared == <<num_waiting, num_triggered, triggering, allowable_count,
            spin_list, spin_list_count, proc_list, payload>>
object == <<sync_type, shutting_down>>
vars == <<use, lock_free, shared, object, wait, trig, rounds, woken>>

Sync == sync_type = "SYNC"
Slot == 1 .. SpinListSz

\* released: how often release_fun was called since the last call of wait (1 before
\* the first).  since: the rounds before w was counted.  got: the payload it read.
Waiting(at, mode, released) == [at |-> at, mode |-> mode, slot |-> 0, my_num_waiting |-> 0,
                                released |-> released, since |-> 0, got |-> 0]
NotWaiting == Waiting("out", "idle", 1)
Triggering(at, n) == [at |-> at, n |-> n, num_waiting |-> 0, num_spinners |-> 0,
                      spinner_count |-> 0, idx |-> 1]
NotTriggering == Triggering("out", 0)

\* Between its increment of num_waiting and its decrement.
Counted == {"spin_entered", "idle_entered", "spin", "spin_leave", "spin_giveup",
            "left_uncount", "adapt_uncount", "idle", "missed", "asleep", "pickup", "leave"}
\* Having a slot of spin_list.
Owning == {"spin_count", "spin_entered", "spin"}
\* Between its increment of spin_list_count and its decrement.
Slotted == Owning \cup {"spin_find", "spin_leave", "spin_giveup", "left_uncount",
                        "adapt_uncount", "giveup_uncount", "refused_slot",
                        "refused_uncount"}
\* Between taking the object's lock and giving it back.
Locking == {"count", "payload", "begin", "scan", "allow", "poll"}

At(w) == wait[w].at
TAt(t) == trig[t].at

TypeOK ==
  /\ lock_free \in Nat
  /\ num_waiting \in Nat /\ num_triggered \in Nat
  /\ triggering \in {0, 1} /\ allowable_count \in Nat
  /\ spin_list \in [Slot -> {0, 1, 2}] /\ spin_list_count \in Nat
  /\ proc_list \subseteq Waiter
  /\ payload \in 0 .. MaxRounds /\ rounds \in 0 .. MaxRounds
  /\ sync_type \in SyncTypes /\ shutting_down \in {"no", "yes", "freed"}
  /\ wait \in [Waiter ->
       [at : Counted \cup Slotted \cup {"out", "gate", "spin_slot", "idle_count",
                                       "giveup_slot", "relock", "done", "dead"},
        mode : {"idle", "spin", "adaptive"}, slot : 0 .. SpinListSz + 1,
        my_num_waiting : Nat, released : Nat,
        since : 0 .. MaxRounds, got : 0 .. MaxRounds]]
  /\ trig \in [Triggerer ->
       [at : Locking \cup {"out", "lock"}, n : Nat \cup {All}, num_waiting : Nat,
        num_spinners : Nat, spinner_count : Nat, idx : 1 .. SpinListSz + 1]]
  /\ woken \in Nat

\* dragon_bcast_create leaves a synchronised object locked.
Init ==
  /\ use \in Uses
  /\ sync_type \in SyncTypes
  /\ lock_free = IF Sync THEN 0 ELSE 1
  /\ num_waiting = 0 /\ num_triggered = 0 /\ triggering = 0
  /\ allowable_count = 0
  /\ spin_list = [i \in Slot |-> 0] /\ spin_list_count = 0
  /\ proc_list = {} /\ payload = 0 /\ shutting_down = "no"
  /\ wait = [w \in Waiter |-> NotWaiting]
  /\ trig = [t \in Triggerer |-> NotTriggering]
  /\ rounds = 0 /\ woken = 0

-----------------------------------------------------------------------------
(* dragon_bcast_wait                                                       *)

Goto(w, loc) == wait' = [wait EXCEPT ![w].at = loc]
GotoSlot(w, loc, i) == wait' = [wait EXCEPT ![w] = [@ EXCEPT !.at = loc, !.slot = i]]
GotoCounted(w, loc) ==
  wait' = [wait EXCEPT ![w] = [@ EXCEPT !.at = loc, !.my_num_waiting = num_waiting + 1,
                                        !.since = rounds]]
GotoPaid(w, loc) == wait' = [wait EXCEPT ![w] = [@ EXCEPT !.at = loc, !.got = payload]]

\* A notify thread passes NULL for release_fun.
release(w) == IF w \in Notified THEN 0 ELSE 1

GotoReleased(w, loc) ==
  wait' = [wait EXCEPT ![w] = [@ EXCEPT !.at = loc, !.released = wait[w].released + release(w)]]

\* extra: the calls of release_fun on the way out.
Return(w, extra) == wait' = [wait EXCEPT ![w] = Waiting("out", "idle", @.released + extra)]

_register_pid(w) ==
  proc_list' = IF Cardinality(proc_list) < ProcMax THEN proc_list \cup {w} ELSE proc_list
_erase_pid(w) == proc_list' = proc_list \ {w}

\* An object that is not synchronised is locked while a waiter counts itself.
can_lock == Sync \/ lock_free > 0
lock_no_sync == can_lock /\ lock_free' = IF Sync THEN lock_free ELSE lock_free - 1

\* Mutant: the unlock is forgotten.
unlock_forgotten == UNCHANGED lock_free

unlock_no_sync == lock_free' = IF Sync THEN lock_free ELSE lock_free + 1

wait_start(w) ==
  /\ At(w) = "out" /\ shutting_down = "no" /\ num_triggered <= MaxTriggered
  /\ \E m \in Modes : wait' = [wait EXCEPT ![w] = Waiting("gate", m, 0)]
  /\ UNCHANGED <<lock_free, shared, object, trig, rounds, woken>>

_bcast_wait_on_triggering(w) ==
  /\ At(w) = "gate" /\ triggering = 0
  /\ Goto(w, IF wait[w].mode = "idle" THEN "idle_count" ELSE "spin_slot")
  /\ UNCHANGED <<lock_free, shared, object, trig, rounds, woken>>

gate_timeout(w) ==
  /\ At(w) = "gate" /\ triggering = 1 /\ w \in Timed
  /\ Return(w, release(w))
  /\ UNCHANGED <<lock_free, shared, object, trig, rounds, woken>>

\* The start of _spin_wait.  The spinner is announced before it looks for a slot.
spin_slot(w) ==
  /\ At(w) = "spin_slot"
  /\ lock_no_sync
  /\ spin_list_count' = spin_list_count + 1
  /\ GotoSlot(w, "spin_find", 1)
  /\ UNCHANGED <<num_waiting, num_triggered, triggering, allowable_count, spin_list,
                 proc_list, payload, object, trig, rounds, woken>>

\* Mutant: the slot is stored without comparing it with 0.
available_stale(i) == i \in Slot /\ spin_list[i] # 2

available(i) == i \in Slot /\ spin_list[i] = 0

\* One turn of the search.  Without a free slot the call becomes an idle one.
spin_find(w) ==
  LET i == wait[w].slot IN
  /\ At(w) = "spin_find"
  /\ \/ /\ available(i)
        /\ spin_list' = [spin_list EXCEPT ![i] = 1]
        /\ Goto(w, "spin_count")
        /\ UNCHANGED <<lock_free, spin_list_count>>
     \/ /\ i \in Slot /\ ~available(i)
        /\ GotoSlot(w, "spin_find", i + 1)
        /\ UNCHANGED <<lock_free, spin_list, spin_list_count>>
     \/ /\ i \notin Slot
        /\ spin_list_count' = spin_list_count - 1
        /\ unlock_no_sync
        /\ GotoSlot(w, "idle_count", 0)
        /\ UNCHANGED spin_list
  /\ UNCHANGED <<num_waiting, num_triggered, triggering, allowable_count, proc_list,
                 payload, object, trig, rounds, woken>>

count(w, loc) ==
  /\ num_waiting' = num_waiting + 1
  /\ GotoCounted(w, loc)
  /\ UNCHANGED <<num_triggered, triggering, allowable_count, spin_list,
                 spin_list_count, proc_list, payload, object, trig, rounds, woken>>

spin_count(w) ==
  /\ At(w) = "spin_count"
  /\ unlock_no_sync
  /\ count(w, "spin_entered")

\* The start of _idle_wait.
idle_count(w) ==
  /\ At(w) = "idle_count"
  /\ can_lock
  /\ count(w, "idle_entered")
  /\ UNCHANGED lock_free

TooMany(w) == Sync /\ wait[w].my_num_waiting > SyncNum

Last(w) == Sync /\ wait[w].my_num_waiting = SyncNum

\* One waiter too many on a synchronised object: an error return.  A spinner also
\* gives its slot back and calls release_fun, an idle waiter does not call it.
refused(w) ==
  /\ At(w) \in {"spin_entered", "idle_entered"} /\ TooMany(w)
  /\ num_waiting' = num_waiting - 1
  /\ IF At(w) = "spin_entered" THEN Goto(w, "refused_slot") ELSE Return(w, 0)
  /\ UNCHANGED <<lock_free, num_triggered, triggering, allowable_count, spin_list,
                 spin_list_count, proc_list, payload, object, trig, rounds, woken>>

\* Now officially a waiter: release_fun is called.  The last waiter of a
\* synchronised object unlocks it.
entered(w) ==
  /\ At(w) \in {"spin_entered", "idle_entered"} /\ ~TooMany(w)
  /\ GotoReleased(w, IF At(w) = "spin_entered" THEN "spin" ELSE "idle")
  /\ IF At(w) = "spin_entered" THEN _register_pid(w) ELSE UNCHANGED proc_list
  /\ lock_free' = IF Last(w) THEN lock_free + 1 ELSE lock_free
  /\ UNCHANGED <<num_waiting, num_triggered, triggering, allowable_count, spin_list,
                 spin_list_count, payload, object, trig, rounds, woken>>

-----------------------------------------------------------------------------
(* The loop of _idle_wait                                                  *)

idle_ticket(w) ==
  /\ At(w) = "idle" /\ allowable_count > 0
  /\ allowable_count' = allowable_count - 1
  /\ woken' = woken + 1
  /\ Goto(w, "pickup")
  /\ UNCHANGED <<lock_free, num_waiting, num_triggered, triggering, spin_list,
                 spin_list_count, proc_list, payload, object, trig, rounds>>

idle_miss(w) ==
  /\ At(w) = "idle" /\ allowable_count = 0
  /\ Goto(w, "missed")
  /\ UNCHANGED <<lock_free, shared, object, trig, rounds, woken>>

\* The pid is registered only while the process sleeps.
idle_sleep(w) ==
  /\ At(w) = "missed"
  /\ _register_pid(w)
  /\ Goto(w, "asleep")
  /\ UNCHANGED <<lock_free, num_waiting, num_triggered, triggering, allowable_count,
                 spin_list, spin_list_count, payload, object, trig, rounds, woken>>

\* Mutant: shutting_down is not looked at.
AfterSleep_deaf == "idle"

AfterSleep == IF shutting_down = "no" THEN "idle" ELSE "pickup"

\* A sleep ends by itself or by the signal of _wake_sleepers.
idle_wake(w) ==
  /\ At(w) = "asleep"
  /\ _erase_pid(w)
  /\ Goto(w, AfterSleep)
  /\ UNCHANGED <<lock_free, num_waiting, num_triggered, triggering, allowable_count,
                 spin_list, spin_list_count, payload, object, trig, rounds, woken>>

\* The waiter that had unlocked a synchronised object locks it again.
idle_timeout(w) ==
  /\ At(w) = "missed" /\ w \in Timed
  /\ num_waiting' = num_waiting - 1
  /\ IF Last(w) THEN Goto(w, "relock") ELSE Return(w, 0)
  /\ UNCHANGED <<lock_free, num_triggered, triggering, allowable_count, spin_list,
                 spin_list_count, proc_list, payload, object, trig, rounds, woken>>

relock(w) ==
  /\ At(w) = "relock" /\ lock_free > 0
  /\ lock_free' = lock_free - 1
  /\ Return(w, 0)
  /\ UNCHANGED <<shared, object, trig, rounds, woken>>

-----------------------------------------------------------------------------
(* The loop of _spin_wait                                                  *)

\* Any value but 1 ends the loop.
spin_exit(w) ==
  /\ At(w) = "spin"
  /\ shutting_down # "no" \/ spin_list[wait[w].slot] # 1
  /\ Goto(w, "spin_leave")
  /\ UNCHANGED <<lock_free, shared, object, trig, rounds, woken>>

\* The exchange at the end of the time tells whether a trigger came first.
spin_timeout(w) ==
  /\ At(w) = "spin" /\ w \in Timed
  /\ spin_list' = [spin_list EXCEPT ![wait[w].slot] = 0]
  /\ Goto(w, IF spin_list[wait[w].slot] = 2 THEN "spin_leave" ELSE "spin_giveup")
  /\ UNCHANGED <<lock_free, num_waiting, num_triggered, triggering, allowable_count,
                 spin_list_count, proc_list, payload, object, trig, rounds, woken>>

\* Mutant: the process stays counted.
spin_giveup_counted(w) ==
  /\ At(w) = "spin_giveup"
  /\ UNCHANGED num_waiting
  /\ Goto(w, "giveup_uncount")
  /\ UNCHANGED <<lock_free, num_triggered, triggering, allowable_count, spin_list,
                 spin_list_count, proc_list, payload, object, trig, rounds, woken>>

spin_giveup(w) ==
  /\ At(w) = "spin_giveup"
  /\ num_waiting' = num_waiting - 1
  /\ Goto(w, "giveup_uncount")
  /\ UNCHANGED <<lock_free, num_triggered, triggering, allowable_count, spin_list,
                 spin_list_count, proc_list, payload, object, trig, rounds, woken>>

\* An adaptive waiter that nobody has triggered yet becomes an idle one.
spin_adapt(w) ==
  /\ At(w) = "spin" /\ wait[w].mode = "adaptive"
  /\ spin_list[wait[w].slot] = 1
  /\ spin_list' = [spin_list EXCEPT ![wait[w].slot] = 0]
  /\ Goto(w, "adapt_uncount")
  /\ UNCHANGED <<lock_free, num_waiting, num_triggered, triggering, allowable_count,
                 spin_list_count, proc_list, payload, object, trig, rounds, woken>>

\* The slot is stored 0 on the way out, on a timeout for the second time, although
\* another waiter may have taken it since the first.
clear_slot(w) ==
  /\ \/ At(w) = "spin_leave" /\ Goto(w, "left_uncount")
     \/ At(w) = "refused_slot" /\ Goto(w, "refused_uncount")
     \/ At(w) = "giveup_slot" /\ IF Last(w) THEN Goto(w, "relock") ELSE Return(w, 0)
  /\ spin_list' = [spin_list EXCEPT ![wait[w].slot] = 0]
  /\ _erase_pid(w)
  /\ UNCHANGED <<lock_free, num_waiting, num_triggered, triggering, allowable_count,
                 spin_list_count, payload, object, trig, rounds, woken>>

\* Mutant: already_waiter is not passed on to _idle_wait.
AfterSpin_again == [left_uncount |-> "pickup", giveup_uncount |-> "giveup_slot",
                    adapt_uncount |-> "idle_count"]

AfterSpin == [left_uncount |-> "pickup", giveup_uncount |-> "giveup_slot",
              adapt_uncount |-> "idle"]

spin_uncount(w) ==
  /\ \/ At(w) = "refused_uncount" /\ Return(w, release(w))
     \/ At(w) \in DOMAIN AfterSpin /\ Goto(w, AfterSpin[At(w)])
  /\ spin_list_count' = spin_list_count - 1
  /\ IF At(w) = "adapt_uncount" THEN _erase_pid(w) ELSE UNCHANGED proc_list
  /\ UNCHANGED <<lock_free, num_waiting, num_triggered, triggering, allowable_count,
                 spin_list, payload, object, trig, rounds, woken>>

-----------------------------------------------------------------------------
(* The end of dragon_bcast_wait                                            *)

pickup(w) ==
  /\ At(w) = "pickup"
  /\ \/ /\ shutting_down = "no"
        /\ GotoPaid(w, "leave")
        /\ UNCHANGED num_waiting
     \/ /\ shutting_down # "no"
        /\ num_waiting' = num_waiting - 1
        /\ Return(w, 0)
  /\ UNCHANGED <<lock_free, num_triggered, triggering, allowable_count, spin_list,
                 spin_list_count, proc_list, payload, object, trig, rounds, woken>>

leave(w) ==
  /\ At(w) = "leave"
  /\ num_waiting' = num_waiting - 1
  /\ Goto(w, "done")
  /\ UNCHANGED <<lock_free, num_triggered, triggering, allowable_count, spin_list,
                 spin_list_count, proc_list, payload, object, trig, rounds, woken>>

done(w) ==
  /\ At(w) = "done"
  /\ num_triggered' = num_triggered + 1
  /\ Return(w, 0)
  /\ UNCHANGED <<lock_free, num_waiting, triggering, allowable_count, spin_list,
                 spin_list_count, proc_list, payload, object, trig, rounds, woken>>

die(w) ==
  /\ w \in Mortal /\ At(w) \in {"spin", "asleep"}
  /\ Goto(w, "dead")
  /\ UNCHANGED <<lock_free, shared, object, trig, rounds, woken>>

-----------------------------------------------------------------------------
(* dragon_bcast_trigger_some, with INT_MAX for trigger_all                 *)

TGoto(t, loc) == trig' = [trig EXCEPT ![t].at = loc]
TReturn(t) == trig' = [trig EXCEPT ![t] = NotTriggering]

trigger_start(t) ==
  /\ TAt(t) = "out" /\ shutting_down = "no"
  /\ rounds + Cardinality({u \in Triggerer : TAt(u) # "out"}) < MaxRounds
  /\ \E n \in Counts :
       /\ Sync => n = All
       /\ trig' = [trig EXCEPT ![t] = Triggering("lock", n)]
  /\ UNCHANGED <<lock_free, shared, object, wait, rounds, woken>>

trig_lock(t) ==
  /\ TAt(t) = "lock" /\ lock_free > 0
  /\ lock_free' = lock_free - 1
  /\ TGoto(t, "count")
  /\ UNCHANGED <<shared, object, wait, rounds, woken>>

\* Without waiters the call unlocks and returns.
trig_count(t) ==
  /\ TAt(t) = "count"
  /\ \/ /\ num_waiting = 0
        /\ lock_free' = lock_free + 1
        /\ TReturn(t)
     \/ /\ num_waiting > 0
        /\ trig' = [trig EXCEPT ![t] = [@ EXCEPT !.at = "payload", !.num_waiting = num_waiting]]
        /\ UNCHANGED lock_free
  /\ UNCHANGED <<shared, object, wait, rounds, woken>>

trig_payload(t) ==
  /\ TAt(t) = "payload"
  /\ payload' = rounds + 1 /\ rounds' = rounds + 1
  /\ TGoto(t, "begin")
  /\ UNCHANGED <<lock_free, num_waiting, num_triggered, triggering, allowable_count,
                 spin_list, spin_list_count, proc_list, object, wait, woken>>

\* With fewer waiters than asked for, the call returns INSUFFICIENT_WAITERS and
\* keeps the lock.
trig_begin(t) ==
  LET seen == trig[t].num_waiting
      n    == IF trig[t].n = All THEN seen ELSE trig[t].n
  IN
  /\ TAt(t) = "begin"
  /\ num_triggered' = 0
  /\ \/ /\ seen < n
        /\ TReturn(t)
        /\ UNCHANGED <<triggering, woken>>
     \/ /\ seen >= n
        /\ triggering' = 1 /\ woken' = 0
        /\ trig' = [trig EXCEPT ![t] = [@ EXCEPT !.at = "scan", !.n = n,
                                               !.spinner_count = spin_list_count]]
  /\ UNCHANGED <<lock_free, num_waiting, allowable_count, spin_list, spin_list_count,
                 proc_list, payload, object, wait, rounds>>

trig_scan(t) ==
  LET i == trig[t].idx
      more == /\ trig[t].num_spinners < trig[t].spinner_count
              /\ i <= SpinListSz
              /\ trig[t].num_spinners < trig[t].n
  IN
  /\ TAt(t) = "scan"
  /\ \/ /\ more /\ spin_list[i] = 1
        /\ spin_list' = [spin_list EXCEPT ![i] = 2]
        /\ woken' = woken + 1
        /\ trig' = [trig EXCEPT ![t] = [@ EXCEPT !.idx = i + 1,
                                               !.num_spinners = trig[t].num_spinners + 1]]
     \/ /\ more /\ spin_list[i] # 1
        /\ trig' = [trig EXCEPT ![t].idx = @ + 1]
        /\ UNCHANGED <<spin_list, woken>>
     \/ /\ ~more
        /\ TGoto(t, "allow")
        /\ UNCHANGED <<spin_list, woken>>
  /\ UNCHANGED <<lock_free, num_waiting, num_triggered, triggering, allowable_count,
                 spin_list_count, proc_list, payload, object, wait, rounds>>

\* Mutant: the spinners are not subtracted.
trig_allow_all(t) ==
  /\ TAt(t) = "allow"
  /\ allowable_count' = trig[t].n
  /\ TGoto(t, "poll")
  /\ UNCHANGED <<lock_free, num_waiting, num_triggered, triggering, spin_list,
                 spin_list_count, proc_list, payload, object, wait, rounds, woken>>

trig_allow(t) ==
  /\ TAt(t) = "allow"
  /\ allowable_count' = trig[t].n - trig[t].num_spinners
  /\ TGoto(t, "poll")
  /\ UNCHANGED <<lock_free, num_waiting, num_triggered, triggering, spin_list,
                 spin_list_count, proc_list, payload, object, wait, rounds, woken>>

\* Mutant: one more than asked for is waited for.
Finished_late(t) == num_triggered > trig[t].n \/ num_waiting = 0

\* Mutant: the last pick up is not waited for.
Finished_early(t) == num_triggered + 1 >= trig[t].n \/ num_waiting = 0

Finished(t) == num_triggered >= trig[t].n \/ num_waiting = 0

\* Mutant: allowable_count is not reset.
completion_left_over(t) ==
  /\ TAt(t) = "poll" /\ Finished(t)
  /\ triggering' = 0
  /\ unlock_no_sync
  /\ TReturn(t)
  /\ UNCHANGED <<num_waiting, num_triggered, allowable_count, spin_list, spin_list_count, proc_list,
                 payload, object, wait, rounds, woken>>

\* Mutant: triggering is not reset.
completion_triggering(t) ==
  /\ TAt(t) = "poll" /\ Finished(t)
  /\ allowable_count' = 0
  /\ unlock_no_sync
  /\ TReturn(t)
  /\ UNCHANGED <<num_waiting, num_triggered, triggering, spin_list, spin_list_count, proc_list,
                 payload, object, wait, rounds, woken>>

_trigger_completion(t) ==
  /\ TAt(t) = "poll" /\ Finished(t)
  /\ allowable_count' = 0 /\ triggering' = 0
  /\ unlock_no_sync
  /\ TReturn(t)
  /\ UNCHANGED <<num_waiting, num_triggered, spin_list, spin_list_count, proc_list,
                 payload, object, wait, rounds, woken>>

\* A timeout clears triggering, but not allowable_count.
trig_timeout(t) ==
  /\ TAt(t) = "poll" /\ ~Finished(t) /\ t \in Timed
  /\ triggering' = 0
  /\ unlock_no_sync
  /\ TReturn(t)
  /\ UNCHANGED <<num_waiting, num_triggered, allowable_count, spin_list,
                 spin_list_count, proc_list, payload, object, wait, rounds, woken>>

\* A registered process that is gone ends the call.  It stays in proc_list
\* (_erase_pid compares the entry with the caller's pid), and triggering stays 1.
_check_pids(t) ==
  LET dead == {w \in proc_list : At(w) = "dead"} IN
  /\ TAt(t) = "poll" /\ ~Finished(t) /\ dead # {}
  /\ num_waiting' = num_waiting - Cardinality(dead)
  /\ unlock_no_sync
  /\ TReturn(t)
  /\ UNCHANGED <<num_triggered, triggering, allowable_count, spin_list,
                 spin_list_count, proc_list, payload, object, wait, rounds, woken>>

trig_shutdown(t) ==
  /\ TAt(t) = "poll" /\ ~Finished(t) /\ shutting_down # "no"
  /\ TReturn(t)
  /\ UNCHANGED <<lock_free, shared, object, wait, rounds, woken>>

-----------------------------------------------------------------------------
(* dragon_bcast_reset and dragon_bcast_destroy, by a client that knows that *)
(* nobody else is about to use the object                                   *)

Quiet == /\ \A t \in Triggerer : TAt(t) = "out"
         /\ \A w \in Waiter : At(w) \in {"out", "dead"}

reset ==
  /\ shutting_down = "no" /\ Quiet
  /\ lock_free' = IF Sync /\ lock_free > 0 THEN lock_free - 1
                  ELSE IF ~Sync /\ lock_free = 0 THEN lock_free + 1
                  ELSE lock_free
  /\ UNCHANGED <<shared, object, wait, trig, rounds, woken>>

\* Processes may be waiting or triggering, but none is on its way in.
destroy_start ==
  /\ shutting_down = "no"
  /\ \A t \in Triggerer : TAt(t) \in {"out", "poll"}
  /\ \A w \in Waiter : At(w) \in Counted \cup {"out", "done", "dead"}
  /\ shutting_down' = "yes"
  /\ UNCHANGED <<lock_free, sync_type, shared, wait, trig, rounds, woken>>

\* Also taken, with waiters left, when DRAGON_BCAST_DESTROY_TIMEOUT_SEC is over:
\* that is not modelled, the properties of destroy are about a wait that ends.
destroy_free ==
  /\ shutting_down = "yes" /\ num_waiting = 0
  /\ shutting_down' = "freed"
  /\ UNCHANGED <<lock_free, sync_type, shared, wait, trig, rounds, woken>>

-----------------------------------------------------------------------------
TakesLock(p) == idle_count(p) \/ spin_slot(p) \/ relock(p)

WaitStep(w) ==
  \/ _bcast_wait_on_triggering(w) \/ spin_find(w) \/ spin_count(w)
  \/ refused(w) \/ entered(w)
  \/ idle_ticket(w) \/ idle_miss(w) \/ idle_sleep(w) \/ idle_wake(w)
  \/ spin_exit(w) \/ spin_giveup(w) \/ clear_slot(w) \/ spin_uncount(w)
  \/ pickup(w) \/ leave(w) \/ done(w)

TrigStep(t) ==
  \/ trig_count(t) \/ trig_payload(t) \/ trig_begin(t) \/ trig_scan(t) \/ trig_allow(t)
  \/ _trigger_completion(t) \/ _check_pids(t) \/ trig_shutdown(t)

Chance(w) ==
  \/ wait_start(w) \/ gate_timeout(w) \/ idle_timeout(w) \/ spin_timeout(w)
  \/ spin_adapt(w) \/ die(w)

\* After destroy, or when no trigger is left to come, everybody may be done.
Terminated == Quiet /\ UNCHANGED vars

Next ==
  /\ \/ \E w \in Waiter : WaitStep(w) \/ TakesLock(w) \/ Chance(w)
     \/ \E t \in Triggerer :
          TrigStep(t) \/ trig_lock(t) \/ trigger_start(t) \/ trig_timeout(t)
     \/ reset \/ destroy_start \/ destroy_free
     \/ Terminated
  /\ UNCHANGED use

Spec == Init /\ [][Next]_vars

Waiters == UNION {u.waiter : u \in Uses}
Triggerers == UNION {u.triggerer : u \in Uses}

\* Processes keep running, and the lock serves its callers in turn.
FairSpec ==
  /\ Spec
  /\ \A w \in Waiters :
       /\ WF_vars(w \in Waiter /\ WaitStep(w) /\ UNCHANGED use)
       /\ SF_vars(w \in Waiter /\ TakesLock(w) /\ UNCHANGED use)
  /\ \A t \in Triggerers :
       /\ WF_vars(t \in Triggerer /\ TrigStep(t) /\ UNCHANGED use)
       /\ SF_vars(t \in Triggerer /\ trig_lock(t) /\ UNCHANGED use)
  /\ WF_vars(destroy_free /\ UNCHANGED use)

-----------------------------------------------------------------------------
(* Properties                                                              *)

\* num_waiting, on which triggering and destroying rest, is exactly the number of
\* processes between their increment and their decrement of it, on every path
\* through _spin_wait and _idle_wait, timeouts included, and spin_list_count, to
\* which the search of a trigger is limited, the number of the spinners among them.
WaitersCounted ==
  /\ TypeOK
  /\ num_waiting = Cardinality({w \in Waiter : At(w) \in Counted})
  /\ spin_list_count = Cardinality({w \in Waiter : At(w) \in Slotted})

Untimed == Timed = {}

\* A synchronised object is made for sync_num waiters.  One more is turned away only
\* when the others are still counted: past the gate it may also take the place of a
\* waiter that has just left, and with it a trigger that was not meant for it.
NoneTooMany == Sync => Cardinality(Waiter) <= SyncNum

\* A slot of spin_list belongs to one spinner and is not cleared under it, and
\* spin_list_count covers the slots in use, if no call times out.
SlotsOwned ==
  Untimed =>
    /\ spin_list_count >= Cardinality({i \in Slot : spin_list[i] # 0})
    /\ \A w \in Waiter : At(w) \in Owning =>
         /\ spin_list[wait[w].slot] # 0
         /\ \A v \in Waiter \ {w} :
              At(v) \in Owning \cup {"spin_leave", "refused_slot", "giveup_slot"} =>
                wait[v].slot # wait[w].slot

\* dragon_bcast_trigger_some unblocks no more waiters than it was asked to, with
\* spinners turning into idle waiters while it counts them, if no call times out.
NoMoreThanAsked ==
  Untimed /\ NoneTooMany =>
    \A t \in Triggerer : TAt(t) \in {"scan", "allow", "poll"} => woken <= trig[t].n

\* On an object that is not synchronised, triggers and slot searches exclude one
\* another ("With lock acquired, no other triggers can be using this object"),
\* timeouts and error returns included; and the lock comes back, unless a trigger
\* asks for a number of waiters that are not there.
LockReturned ==
  LET taken == Cardinality({t \in Triggerer : TAt(t) \in Locking})
                 + Cardinality({w \in Waiter : At(w) \in {"spin_find", "spin_count"}})
  IN ~Sync => /\ taken <= 1
              /\ shutting_down = "no" =>
                   /\ lock_free + taken <= 1
                   /\ Counts \subseteq {1, All} => lock_free + taken = 1

\* Where no call times out, dragon_bcast_wait returns with success only when a trigger
\* call made after the process began to wait has sent it its payload.
WaitsForTrigger ==
  Untimed /\ NoneTooMany =>
    \A w \in Waiter : At(w) \in {"leave", "done"} => wait[w].got > wait[w].since

Delivers ==
  \A t \in Triggerer : TAt(t) = "poll" /\ TAt(t)' = "out" /\ triggering' = 0 =>
    \A w \in Waiter : At(w) \notin Counted \ {"leave"}

\* When trigger_all returns, every process that was waiting has picked up its
\* payload.
TriggerAllDelivers == [][Delivers]_vars

\* Where no call times out, a trigger of a synchronised object proceeds only with
\* sync_num waiters, and all of them have picked up their payload when it returns.
SyncDelivers ==
  [][Untimed /\ Sync /\ NoneTooMany =>
       Delivers /\ \A t \in Triggerer : TAt(t) = "count" => num_waiting = SyncNum]_vars

\* release_fun has been called exactly once when the process is an official waiter,
\* and when the call has come back, if no idle waiter is turned away (at most
\* sync_num waiters).  A thread of a notify call has none.
ReleaseCalled ==
  NoneTooMany =>
    \A w \in Waiter \ Notified :
      At(w) \in {"out", "spin", "idle", "asleep"} => wait[w].released = 1

\* A trigger call comes back, whatever the waiters do.
TriggerReturns ==
  \A t \in Triggerers : (t \in Triggerer /\ TAt(t) = "lock") ~> TAt(t) = "out"

AllLive == \A w \in Waiter : At(w) # "dead"

\* A process that calls wait gets past the gate, unless a waiter has died.
WaitBegins == []AllLive => \A w \in Waiters : (w \in Waiter /\ At(w) = "gate") ~> At(w) # "gate"

\* destroy gets the waiters out and frees the object, unless one has died.
DestroyFinishes == []AllLive => (shutting_down = "yes" ~> shutting_down = "freed")
=============================================================================
