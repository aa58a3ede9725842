---------------------------- MODULE FIFOLiteLock ----------------------------
(***************************************************************************)
(* The FIFO-lite lock of src/lib/shared_lock.c: a ticket lock that lives   *)
(* in shared memory and is the default lock of channels, broadcast         *)
(* objects, memory pools and maps.                                         *)
(*                                                                         *)
(* Every read or write of a shared word is a step of its own.  The model   *)
(* is sequentially consistent.  Each process has one handle.  A client     *)
(* calls unlock only when it holds the lock, initialises memory only while *)
(* nobody else is attached to it, and does not detach in the middle of a   *)
(* call.  A call on a handle that is not attached returns                  *)
(* DRAGON_LOCK_NOT_INITD and changes nothing, so it is not a step.         *)
(***************************************************************************)
EXTENDS Integers

CONSTANTS Proc,       \* the processes (or threads) that share the lock
          MaxTicket   \* bound: no call starts once this many tickets are drawn

ASSUME MaxTicketAssumption == MaxTicket \in Nat

VARIABLES
  initd,           \* the word that tells a live lock from a destroyed one
  now_serving,     \* the ticket whose owner may enter
  ticket_counter,  \* the next ticket to be drawn
  attached,        \* attached[p]: the pointers of p's handle are set
  pc,              \* where p is inside an operation
  my_ticket        \* p's local my_ticket; in try_lock its cticket, which is
                   \* compared with now_serve and equal to it from there on

vars == <<initd, now_serving, ticket_counter, attached, pc, my_ticket>>

Locations == {"idle",
              "lock_fetch", "lock_spin", "lock_check", "held", "unlock_add",
              "try_serving", "try_cas", "try_check"}

\* Where a process owns a ticket that it has drawn and not yet given back.
Ticketed == {"lock_spin", "lock_check", "try_check", "held", "unlock_add"}

\* Past the spin loop, or past the compare-and-swap of try_lock.
Served == Ticketed \ {"lock_spin"}

\* The caller has been told that it owns the lock.
Owning == {"held", "unlock_add"}

TypeOK ==
  /\ initd \in {"INITD", "DESTROYED"}
  /\ now_serving \in Nat
  /\ ticket_counter \in Nat
  /\ attached \in [Proc -> BOOLEAN]
  /\ pc \in [Proc -> Locations]
  /\ my_ticket \in [Proc -> Nat]

Init ==
  /\ initd = "DESTROYED"
  /\ now_serving = 0
  /\ ticket_counter = 0
  /\ attached = [p \in Proc |-> FALSE]
  /\ pc = [p \in Proc |-> "idle"]
  /\ my_ticket = [p \in Proc |-> 0]

-----------------------------------------------------------------------------
(* Mistaken variants of the steps below, for checking that the properties  *)
(* notice them.                                                            *)

\* The spin loop lets the next ticket in too.
lock_spin_off_by_one(p) ==
  /\ pc[p] = "lock_spin"
  /\ my_ticket[p] <= now_serving + 1
  /\ pc' = [pc EXCEPT ![p] = "lock_check"]
  /\ UNCHANGED <<initd, now_serving, ticket_counter, attached, my_ticket>>

\* No second look at initd after the wait.
lock_check_missing(p) ==
  /\ pc[p] \in {"lock_check", "try_check"}
  /\ pc' = [pc EXCEPT ![p] = "held"]
  /\ UNCHANGED <<initd, now_serving, ticket_counter, attached, my_ticket>>

\* try_lock draws its ticket before it knows whether it is its turn.
try_cas_draws_first(p) ==
  /\ pc[p] = "try_cas"
  /\ ticket_counter' = ticket_counter + 1
  /\ pc' = [pc EXCEPT ![p] = IF ticket_counter = my_ticket[p] THEN "try_check" ELSE "idle"]
  /\ UNCHANGED <<initd, now_serving, attached, my_ticket>>

\* unlock returns without serving the next ticket.
unlock_add_forgotten(p) ==
  /\ pc[p] = "unlock_add"
  /\ pc' = [pc EXCEPT ![p] = "idle"]
  /\ UNCHANGED <<initd, now_serving, ticket_counter, attached, my_ticket>>

\* An idle lock is reported as locked.
lock_state_off_by_one == IF now_serving <= ticket_counter THEN "LOCKED" ELSE "UNLOCKED"

-----------------------------------------------------------------------------
(* Life cycle: init, attach, detach, destroy.                              *)

\* Attaching sets the handle's pointers even when it reports OBJECT_DESTROYED.
lock_attach(p) ==
  /\ ~attached[p]
  /\ attached' = [attached EXCEPT ![p] = TRUE]
  /\ UNCHANGED <<initd, now_serving, ticket_counter, pc, my_ticket>>

\* On a live lock, init fails with ALREADY_INITD after it has attached:
\* that is lock_attach.
lock_init(p) ==
  /\ \A q \in Proc : ~attached[q]
  /\ initd # "INITD"
  /\ attached' = [attached EXCEPT ![p] = TRUE]
  /\ initd' = "INITD"
  /\ now_serving' = 0
  /\ ticket_counter' = 0
  /\ UNCHANGED <<pc, my_ticket>>

lock_detach(p) ==
  /\ attached[p] /\ pc[p] = "idle"
  /\ attached' = [attached EXCEPT ![p] = FALSE]
  /\ UNCHANGED <<initd, now_serving, ticket_counter, pc, my_ticket>>

lock_destroy(p) ==
  /\ attached[p] /\ pc[p] \in {"idle", "held"}
  /\ initd' = "DESTROYED"
  /\ attached' = [attached EXCEPT ![p] = FALSE]
  /\ pc' = [pc EXCEPT ![p] = "idle"]
  /\ UNCHANGED <<now_serving, ticket_counter, my_ticket>>

-----------------------------------------------------------------------------
(* dragon_fifolite_lock                                                    *)

lock_start(p) ==
  /\ attached[p] /\ pc[p] = "idle"
  /\ ticket_counter < MaxTicket
  /\ initd = "INITD"        \* otherwise OBJECT_DESTROYED is returned at once
  /\ pc' = [pc EXCEPT ![p] = "lock_fetch"]
  /\ UNCHANGED <<initd, now_serving, ticket_counter, attached, my_ticket>>

lock_fetch(p) ==
  /\ pc[p] = "lock_fetch"
  /\ my_ticket' = [my_ticket EXCEPT ![p] = ticket_counter]
  /\ ticket_counter' = ticket_counter + 1
  /\ pc' = [pc EXCEPT ![p] = "lock_spin"]
  /\ UNCHANGED <<initd, now_serving, attached>>

lock_spin(p) ==
  /\ pc[p] = "lock_spin"
  /\ my_ticket[p] <= now_serving
  /\ pc' = [pc EXCEPT ![p] = "lock_check"]
  /\ UNCHANGED <<initd, now_serving, ticket_counter, attached, my_ticket>>

\* The last test of initd, in lock and in try_lock.  On a destroyed lock the
\* call fails and its ticket is never given back.
lock_check(p) ==
  /\ pc[p] \in {"lock_check", "try_check"}
  /\ pc' = [pc EXCEPT ![p] = IF initd = "INITD" THEN "held" ELSE "idle"]
  /\ UNCHANGED <<initd, now_serving, ticket_counter, attached, my_ticket>>

-----------------------------------------------------------------------------
(* dragon_fifolite_try_lock: two loads, then a compare-and-swap.           *)

try_start(p) ==
  /\ attached[p] /\ pc[p] = "idle"
  /\ ticket_counter < MaxTicket
  /\ initd = "INITD"
  /\ my_ticket' = [my_ticket EXCEPT ![p] = ticket_counter]
  /\ pc' = [pc EXCEPT ![p] = "try_serving"]
  /\ UNCHANGED <<initd, now_serving, ticket_counter, attached>>

\* Different values: not locked, the call returns.
try_serving(p) ==
  /\ pc[p] = "try_serving"
  /\ pc' = [pc EXCEPT ![p] = IF my_ticket[p] = now_serving THEN "try_cas" ELSE "idle"]
  /\ UNCHANGED <<initd, now_serving, ticket_counter, attached, my_ticket>>

try_cas(p) ==
  /\ pc[p] = "try_cas"
  /\ IF ticket_counter = my_ticket[p]
       THEN /\ ticket_counter' = my_ticket[p] + 1
            /\ pc' = [pc EXCEPT ![p] = "try_check"]
       ELSE /\ pc' = [pc EXCEPT ![p] = "idle"]
            /\ UNCHANGED ticket_counter
  /\ UNCHANGED <<initd, now_serving, attached, my_ticket>>

-----------------------------------------------------------------------------
(* dragon_fifolite_unlock                                                  *)

unlock_start(p) ==
  /\ pc[p] = "held"
  /\ pc' = [pc EXCEPT ![p] = IF initd = "INITD" THEN "unlock_add" ELSE "idle"]
  /\ UNCHANGED <<initd, now_serving, ticket_counter, attached, my_ticket>>

unlock_add(p) ==
  /\ pc[p] = "unlock_add"
  /\ now_serving' = now_serving + 1
  /\ pc' = [pc EXCEPT ![p] = "idle"]
  /\ UNCHANGED <<initd, ticket_counter, attached, my_ticket>>

-----------------------------------------------------------------------------
\* The steps of a call in progress, and the release of a lock that is held.
Step(p) ==
  \/ lock_fetch(p) \/ lock_spin(p) \/ lock_check(p)
  \/ try_serving(p) \/ try_cas(p)
  \/ unlock_start(p) \/ unlock_add(p)

\* The calls a client may or may not make.
Call(p) ==
  \/ lock_attach(p) \/ lock_init(p) \/ lock_detach(p) \/ lock_destroy(p)
  \/ lock_start(p) \/ try_start(p)

Next == \E p \in Proc : Call(p) \/ Step(p)

Spec == Init /\ [][Next]_vars

FairSpec == Spec /\ \A p \in Proc : WF_vars(Step(p))

\* dragon_fifolite_lock_state
lock_state == IF now_serving < ticket_counter THEN "LOCKED" ELSE "UNLOCKED"

-----------------------------------------------------------------------------
(* Properties                                                              *)

\* dragon_fifolite_lock and try_lock never tell two callers at the same time
\* that they own the lock, whatever the interleaving with destroy.
MutualExclusion ==
  \A p, q \in Proc : pc[p] \in Owning /\ pc[q] \in Owning => p = q

\* How tickets relate to the two counters and to each other: a ticket that is in
\* use lies between them and has one owner, a served process holds the ticket
\* now_serving, and try_lock compares with a value that now_serving has passed.
\* Only attached handles are inside a call, so init never resets a lock in use.
TicketDiscipline ==
  /\ now_serving <= ticket_counter
  /\ \A p \in Proc : pc[p] # "idle" => attached[p]
  /\ \A p \in Proc : pc[p] \in Ticketed =>
       now_serving <= my_ticket[p] /\ my_ticket[p] < ticket_counter
  /\ \A p \in Proc : pc[p] \in Served => my_ticket[p] = now_serving
  /\ \A p \in Proc : pc[p] = "try_cas" => my_ticket[p] <= now_serving
  /\ \A p, q \in Proc :
       pc[p] \in Ticketed /\ pc[q] \in Ticketed /\ my_ticket[p] = my_ticket[q] => p = q

\* While the lock lives, every ticket between now_serving and ticket_counter
\* belongs to a process that is still going to give it back: a failed try_lock
\* leaves no hole at which the processes behind it would wait for ever.
TicketOwned ==
  initd = "INITD" =>
    \A t \in now_serving .. (ticket_counter - 1) :
      \E p \in Proc : pc[p] \in Ticketed /\ my_ticket[p] = t

\* A try_lock that has won its compare-and-swap is served already: it waits for
\* nobody, however stale its two loads were.
TryNeverWaits ==
  \A p \in Proc : pc[p] = "try_check" => my_ticket[p] = now_serving

\* dragon_fifolite_lock_state reports LOCKED exactly when some process owns a
\* ticket, which dragon_bcast_reset relies on to decide whether to unlock.
LockStateAccurate ==
  initd = "INITD" =>
    (lock_state = "LOCKED" <=> \E p \in Proc : pc[p] \in Ticketed)

Waiting == {p \in Proc : pc[p] \in {"lock_spin", "lock_check", "try_check"}}
Holding == {p \in Proc : pc[p] \in Owning}
Ahead   == [p \in Proc |->
              IF initd = "INITD" /\ p \in Waiting
                THEN {q \in Waiting \cup Holding : my_ticket[q] < my_ticket[p]}
                ELSE {}]

Queue == INSTANCE QueueLock
           WITH holder <- Holding, waiting <- Waiting, ahead <- Ahead,
                valid <- (initd = "INITD")

\* The ticket lock is a queue: it grants the lock strictly in the order in which
\* dragon_fifolite_lock drew the tickets, and never after a destroy.
ImplementsQueue == Queue!Spec

\* A process that has drawn a ticket gets the lock, unless the lock is destroyed,
\* provided that holders release it.
WaiterServed ==
  \A p \in Proc : pc[p] = "lock_spin" ~> (pc[p] = "held" \/ initd = "DESTROYED")
=============================================================================
