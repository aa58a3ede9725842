----------------------------- MODULE MCFIFOLock -----------------------------
(* Model-checking instances of the hierarchical FIFO lock. *)
EXTENDS FIFOLock, TLC

CONSTANTS t1, t2, t3, t4, h1, h2, h3

\* Two threads share the first handle, so the handle's own lock matters too.
Shared == (t1 :> h1) @@ (t2 :> h1) @@ (t3 :> h2) @@ (t4 :> h3)

\* Four threads that only lock, and three of which two also try.
LockAndTry == {[lock |-> {t1, t2, t3, t4}, try |-> {}],
               [lock |-> {t1, t2, t3}, try |-> {t1, t3}]}

\* Every thread has its own handle.
Own == (t1 :> h1) @@ (t2 :> h2) @@ (t3 :> h3)

\* One of them tries.
OneTries == {[lock |-> {t1, t2, t3}, try |-> {t3}]}
=============================================================================
