------------------------------- MODULE MCBCast -------------------------------
(* Model-checking instances of the broadcast object. *)
EXTENDS BCast, TLC

CONSTANTS w1, w2, w3, t1, t2

\* Three waiters that spin, then sleep.
Adaptive == [waiter |-> {w1, w2, w3}, triggerer |-> {t1}, modes |-> {"adaptive"},
             counts |-> {1, All}, timed |-> {}, notified |-> {}, mortal |-> {},
             sync |-> {"SYNC"}, sync_num |-> 3, rounds |-> 2, triggered |-> 9]

\* The same with two waiters and no synchronous delivery.
Plain == [Adaptive EXCEPT !.waiter = {w1, w2}, !.sync = {"NO_SYNC"}]

\* Two waiters and two triggerers that all may time out.
Timeouts == [waiter |-> {w1, w2}, triggerer |-> {t1, t2}, modes |-> {"spin"},
             counts |-> {2, All}, timed |-> {w1, w2, t1, t2}, notified |-> {}, mortal |-> {},
             sync |-> {"NO_SYNC", "SYNC"}, sync_num |-> 1, rounds |-> 2, triggered |-> 0]

Safety == {Adaptive, Plain, Timeouts}

\* A waiter that may die, and the thread of a notify call.
Liveness == {[waiter |-> {w1, w2}, triggerer |-> {t1}, modes |-> {"adaptive"},
              counts |-> {0, 1, All}, timed |-> {}, notified |-> {w2}, mortal |-> {w1},
              sync |-> {"NO_SYNC"}, sync_num |-> 1, rounds |-> 2, triggered |-> 9]}

\* Two waiters, and a triggerer that releases them all.
TriggerAll == {[waiter |-> {w1, w2}, triggerer |-> {t1}, modes |-> {"idle", "adaptive"},
                counts |-> {All}, timed |-> {}, notified |-> {}, mortal |-> {},
                sync |-> {"NO_SYNC"}, sync_num |-> 1, rounds |-> 2, triggered |-> 9]}

\* A use takes one of the sets of processes that a permutation maps to one another,
\* so behaviours of the others are the images of behaviours checked.
Symmetry == Permutations({w1, w2, w3}) \cup Permutations({t1, t2})
=============================================================================
