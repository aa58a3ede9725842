----------------------------- MODULE BCast_proofs -----------------------------
(***************************************************************************)
(* The properties of the broadcast object, from what its steps do          *)
(* (BCastSteps_proofs).                                                    *)
(***************************************************************************)
EXTENDS BCastSteps_proofs

USE ZenonT(20), SMTT(30)

-----------------------------------------------------------------------------
(* Counting the processes at some locations                                *)

\* If only w may be in one of two sets and not in the other, their sizes differ by w.
LEMMA SizeStep ==
  ASSUME NEW S, IsFiniteSet(S), NEW w \in S, NEW A \in SUBSET S, NEW B \in SUBSET S,
         \A x \in S \ {w} : x \in A <=> x \in B
  PROVE  /\ Cardinality(A) \in Nat /\ Cardinality(B) \in Nat
         /\ Cardinality(B) + (IF w \in A THEN 1 ELSE 0) = Cardinality(A) + (IF w \in B THEN 1 ELSE 0)
<1>1. IsFiniteSet(A) /\ IsFiniteSet(B)
  BY FS_Subset
<1>2. Cardinality(A) \in Nat /\ Cardinality(B) \in Nat
  BY <1>1, FS_CardinalityType
<1>3. A \ {w} = B \ {w}
  OBVIOUS
<1>4. /\ Cardinality(A \ {w}) = IF w \in A THEN Cardinality(A) - 1 ELSE Cardinality(A)
      /\ Cardinality(B \ {w}) = IF w \in B THEN Cardinality(B) - 1 ELSE Cardinality(B)
  BY <1>1, FS_RemoveElement
<1> QED
  BY <1>2, <1>3, <1>4

\* The waiters at some locations, when one waiter moves.
LEMMA InStep ==
  ASSUME Typed, NEW w \in Waiter, NEW l, NEW L, Only(w, l), Waiter' = Waiter
  PROVE  /\ Cardinality(In(L)) \in Nat /\ Cardinality(In(L))' \in Nat
         /\ Cardinality(In(L))' + Is(At(w), L) = Cardinality(In(L)) + Is(l, L)
<1>1. IsFiniteSet(Waiter) /\ In(L) \in SUBSET Waiter /\ In(L)' \in SUBSET Waiter
  BY DEF Typed, Fits, In
<1>2. \A x \in Waiter \ {w} : x \in In(L) <=> x \in In(L)'
  BY DEF Only, In, At
<1>3. (w \in In(L) <=> At(w) \in L) /\ (w \in In(L)' <=> l \in L)
  BY DEF Only, In, At
<1> QED
  BY <1>1, <1>2, <1>3, SizeStep DEF Is

\* The waiters at some locations stay there, when no waiter moves.
LEMMA InSame ==
  ASSUME NEW L, wait' = wait, Waiter' = Waiter
  PROVE  In(L)' = In(L)
BY DEF In, At

\* The triggerers at some locations, when one triggerer moves.
LEMMA TInStep ==
  ASSUME Fits, NEW t \in Triggerer, NEW e, NEW L, TOnly(t, e), Triggerer' = Triggerer
  PROVE  /\ Cardinality(TIn(L)) \in Nat /\ Cardinality(TIn(L))' \in Nat
         /\ Cardinality(TIn(L))' + Is(TAt(t), L) = Cardinality(TIn(L)) + Is(e.at, L)
<1>1. IsFiniteSet(Triggerer) /\ TIn(L) \in SUBSET Triggerer /\ TIn(L)' \in SUBSET Triggerer
  BY DEF Fits, TIn
<1>2. \A x \in Triggerer \ {t} : x \in TIn(L) <=> x \in TIn(L)'
  BY DEF TOnly, TIn, TAt
<1>3. (t \in TIn(L) <=> TAt(t) \in L) /\ (t \in TIn(L)' <=> e.at \in L)
  BY DEF TOnly, TIn, TAt
<1> QED
  BY <1>1, <1>2, <1>3, SizeStep DEF Is

\* The triggerers at some locations stay there, when no triggerer moves.
LEMMA TInSame ==
  ASSUME NEW L, trig' = trig, Triggerer' = Triggerer
  PROVE  TIn(L)' = TIn(L)
BY DEF TIn, TAt

\* There are finitely many processes anywhere.
LEMMA InFinite ==
  ASSUME Fits, NEW L
  PROVE  /\ IsFiniteSet(In(L)) /\ Cardinality(In(L)) \in Nat
         /\ IsFiniteSet(TIn(L)) /\ Cardinality(TIn(L)) \in Nat
<1>1. IsFiniteSet(In(L)) /\ IsFiniteSet(TIn(L))
  BY FS_Subset DEF Fits, In, TIn
<1> QED
  BY <1>1, FS_CardinalityType

-----------------------------------------------------------------------------
(* The kinds of steps                                                      *)

\* The start of a trigger call.
Begins(t) ==
  /\ UNCHANGED <<lock_free, shared, object, wait, rounds, woken>>
  /\ TAt(t) = "out" /\ shutting_down = "no"
  /\ rounds + Cardinality({u \in Triggerer : TAt(u) # "out"}) < MaxRounds
  /\ \E e \in TrigLocal : TOnly(t, e) /\ e.at = "lock" /\ (Sync => e.n = All)

\* The death of a waiter.
Dies(w) ==
  /\ Frame /\ UNCHANGED <<lock_free, shared, woken>>
  /\ w \in Mortal /\ At(w) \in {"spin", "asleep"} /\ Only(w, "dead") /\ Goto(w, "dead")

\* The type invariant is what the lemmas on the steps rely on.
LEMMA TypeHas == ASSUME TypeInv PROVE Fits /\ Typed /\ WaitType /\ TrigType
<1>1. Fits
  BY UseFits DEF TypeInv
<1> QED
  BY <1>1 DEF TypeInv, Typed, WaitType, TrigType, WaitLocal, At, Fits

\* A trigger call begins with its argument.
LEMMA StartBegins ==
  ASSUME TrigType, NEW t \in Triggerer, trigger_start(t)
  PROVE  Begins(t)
<1>1. PICK n \in Counts : (Sync => n = All) /\ trig' = [trig EXCEPT ![t] = Triggering("lock", n)]
  BY DEF trigger_start
<1> DEFINE e == Triggering("lock", n)
<1>2. /\ e \in TrigLocal /\ e.at = "lock" /\ e.n = n /\ e.spinner_count = 0 /\ e.num_spinners = 0
      /\ e.num_waiting = 0
  BY DEF Triggering, TrigLocal, TrigType, Fits
<1> HIDE DEF e
<1>3. Numbers(e)
  BY <1>2 DEF Numbers
<1>4. TOnly(t, e)
  BY <1>1, <1>2, <1>3, TSet DEF e
<1>5. TAt(t) = "out" /\ shutting_down = "no" /\ UNCHANGED <<lock_free, shared, object, wait, rounds, woken>>
      /\ rounds + Cardinality({u \in Triggerer : TAt(u) # "out"}) < MaxRounds
  BY DEF trigger_start
<1> QED
  BY <1>1, <1>2, <1>4, <1>5 DEF Begins

\* Every step is one of these kinds.
LEMMA Kinds ==
  ASSUME TypeInv, [Next]_vars
  PROVE  /\ Same
         /\ \/ \E w \in Waiter : (Steps(w) /\ WaitEffect(w) /\ At(w) # "dead") \/ Dies(w)
            \/ \E t \in Triggerer : (TSteps(t) /\ TrigEffect(t)) \/ Begins(t)
            \/ reset \/ destroy_start \/ destroy_free
            \/ UNCHANGED vars
<1>1. Fits /\ Typed /\ WaitType /\ TrigType
  BY TypeHas
<1>2. ASSUME NEW w \in Waiter, WaitStep(w) \/ TakesLock(w) \/ Chance(w)
      PROVE  (Steps(w) /\ WaitEffect(w) /\ At(w) # "dead") \/ Dies(w)
  <2>1. CASE die(w)
    <3>1. Only(w, "dead")
      BY <1>1, <2>1, GotoMoves DEF die, Places, Moved
    <3> QED
      BY <2>1, <3>1 DEF die, Dies, Frame, shared, object
  <2> QED
    BY <1>1, <1>2, <2>1, WaitSteps, NotDead DEF Steps
<1>3. ASSUME NEW t \in Triggerer, TrigStep(t) \/ trig_lock(t) \/ trigger_start(t) \/ trig_timeout(t)
      PROVE  (TSteps(t) /\ TrigEffect(t)) \/ Begins(t)
  BY <1>1, <1>3, TrigSteps, StartBegins DEF TSteps
<1>4. UNCHANGED vars \/ (UNCHANGED use /\
         \/ \E w \in Waiter : WaitStep(w) \/ TakesLock(w) \/ Chance(w)
         \/ \E t \in Triggerer : TrigStep(t) \/ trig_lock(t) \/ trigger_start(t) \/ trig_timeout(t)
         \/ reset \/ destroy_start \/ destroy_free)
  BY DEF Next, Terminated
<1>5. \/ \E w \in Waiter : (Steps(w) /\ WaitEffect(w) /\ At(w) # "dead") \/ Dies(w)
      \/ \E t \in Triggerer : (TSteps(t) /\ TrigEffect(t)) \/ Begins(t)
      \/ reset \/ destroy_start \/ destroy_free
      \/ UNCHANGED vars
  BY <1>2, <1>3, <1>4
<1>6. use' = use
  BY <1>4 DEF vars
<1>7. sync_type' = sync_type
  <2>1. ASSUME NEW w \in Waiter, WaitEffect(w) \/ Dies(w)
        PROVE  sync_type' = sync_type
    BY <2>1 DEF WaitEffect, Effect, Dies, Frame
  <2>2. ASSUME NEW t \in Triggerer, TrigEffect(t) \/ Begins(t)
        PROVE  sync_type' = sync_type
    BY <2>2 DEF TrigEffect, TFrame, Begins, object
  <2> QED
    BY <1>5, <2>1, <2>2 DEF reset, destroy_start, destroy_free, vars, object
<1> QED
  BY <1>5, <1>6, <1>7, SameUse

-----------------------------------------------------------------------------
(* The type invariant                                                      *)

\* A new object is well typed.
LEMMA TypeInit == ASSUME Init PROVE TypeInv
<1>1. use \in Uses /\ Fits
  BY UseFits DEF Init
<1>2. TIn(Early) = {}
  BY DEF Init, TIn, TAt, NotTriggering, Triggering, Early
<1>3. RoundsLeft
  BY <1>1, <1>2, FS_EmptySet DEF Init, RoundsLeft, Fits
<1>4. NotWaiting \in WaitLocal /\ NotTriggering \in TrigLocal /\ Numbers(NotTriggering)
  BY <1>1 DEF NotWaiting, Waiting, WaitLocal, NotTriggering, Triggering, TrigLocal, Numbers, Fits, Places, Alive
<1>5. NotWaiting.at = "out"
  BY DEF NotWaiting, Waiting
<1> HIDE DEF NotWaiting, NotTriggering
<1>6. wait \in [Waiter -> WaitLocal] /\ \A w \in Waiter : At(w) = "out"
  BY <1>4, <1>5 DEF Init, At
<1>7. trig \in [Triggerer -> TrigLocal] /\ \A t \in Triggerer : Numbers(trig[t])
  BY <1>4 DEF Init
<1>8. lock_free \in Nat /\ spin_list \in [Slot -> {0, 1, 2}] /\ rounds \in 0 .. MaxRounds
  BY <1>1 DEF Init, Fits
<1> QED
  BY <1>1, <1>3, <1>6, <1>7, <1>8 DEF Init, TypeInv

\* Every step keeps the types.
LEMMA TypeStep == ASSUME TypeInv, [Next]_vars PROVE TypeInv'
<1>1. Same /\ Fits /\ Typed
  BY Kinds, TypeHas
<1>2. ASSUME NEW w \in Waiter, WaitEffect(w)
      PROVE  TypeInv'
  <2>1. PICK l \in Alive : Effect(w, l)
    BY <1>2 DEF WaitEffect
  <2>2. \A x \in Waiter : At(x)' = "relock" => Sync
    BY <2>1 DEF Effect, Only, At, TypeInv
  <2>3. TIn(Early)' = TIn(Early)
    BY <1>1, <2>1, TInSame DEF Effect, Frame, Same
  <2>4. RoundsLeft'
    BY <1>1, <2>1, <2>3 DEF Effect, Frame, RoundsLeft, TypeInv, Same
  <2>5. \A t \in Triggerer : Numbers(trig[t])'
    BY <1>1, <2>1 DEF Effect, Frame, TypeInv, Same, Numbers
  <2>6. WaitLocal' = WaitLocal /\ TrigLocal' = TrigLocal
    BY <1>1 DEF WaitLocal, TrigLocal, Same
  <2> QED
    BY <1>1, <2>1, <2>2, <2>4, <2>5, <2>6 DEF Effect, Frame, Written, Only, TypeInv, Same
<1>3. ASSUME NEW w \in Waiter, Dies(w)
      PROVE  TypeInv'
  <2>1. Only(w, "dead") /\ Frame /\ UNCHANGED <<lock_free, shared, woken>>
    BY <1>3 DEF Dies
  <2>2. \A x \in Waiter : At(x)' = "relock" => Sync
    BY <2>1 DEF Only, At, TypeInv
  <2>3. TIn(Early)' = TIn(Early)
    BY <1>1, <2>1, TInSame DEF Frame, Same
  <2>4. RoundsLeft'
    BY <1>1, <2>1, <2>3 DEF Frame, RoundsLeft, TypeInv, Same
  <2>5. \A t \in Triggerer : Numbers(trig[t])'
    BY <1>1, <2>1 DEF Frame, TypeInv, Same, Numbers
  <2>6. WaitLocal' = WaitLocal /\ TrigLocal' = TrigLocal
    BY <1>1 DEF WaitLocal, TrigLocal, Same
  <2> QED
    BY <1>1, <2>1, <2>2, <2>4, <2>5, <2>6 DEF Frame, Only, TypeInv, Same, shared
<1>4. ASSUME NEW t \in Triggerer, NEW e \in TrigLocal, TOnly(t, e), TFrame, TWritten,
             rounds' + Cardinality(TIn(Early))' <= MaxRounds
      PROVE  TypeInv'
  <2>1. Cardinality(TIn(Early))' \in Nat
    BY <1>1, <1>4, TInStep DEF Same
  <2>2. RoundsLeft' /\ rounds' \in 0 .. MaxRounds
    BY <1>1, <1>4, <2>1 DEF RoundsLeft, Same, TWritten, Fits
  <2>3. \A u \in Triggerer : Numbers(trig[u])'
    BY <1>1, <1>4 DEF TOnly, TypeInv, Same, Numbers
  <2>4. \A x \in Waiter : At(x)' = "relock" => Sync
    BY <1>4 DEF TFrame, At, TypeInv
  <2>5. WaitLocal' = WaitLocal /\ TrigLocal' = TrigLocal
    BY <1>1 DEF WaitLocal, TrigLocal, Same
  <2> QED
    BY <1>1, <1>4, <2>2, <2>3, <2>4, <2>5 DEF TFrame, TWritten, TOnly, TypeInv, Same
<1>5. ASSUME NEW t \in Triggerer, TrigEffect(t)
      PROVE  TypeInv'
  <2>1. PICK e \in TrigLocal : TOnly(t, e) /\ TFollow(t, e.at)
    BY <1>5 DEF TrigEffect
  <2>2. TFrame /\ TWritten
    BY <1>5 DEF TrigEffect
  <2>3. Cardinality(TIn(Early))' + Is(TAt(t), Early) = Cardinality(TIn(Early)) + Is(e.at, Early)
        /\ Cardinality(TIn(Early)) \in Nat /\ Cardinality(TIn(Early))' \in Nat
    BY <1>1, <2>1, TInStep DEF Same
  <2>4. rounds' + Is(e.at, Early) <= rounds + Is(TAt(t), Early)
    BY <2>1 DEF TFollow
  <2>5. Is(e.at, Early) \in {0, 1} /\ Is(TAt(t), Early) \in {0, 1}
    BY DEF Is
  <2>6. rounds' + Cardinality(TIn(Early))' <= MaxRounds
    BY <1>1, <2>2, <2>3, <2>4, <2>5 DEF TypeInv, RoundsLeft, TWritten, Fits
  <2> QED
    BY <1>4, <2>1, <2>2, <2>6
<1>6. ASSUME NEW t \in Triggerer, Begins(t)
      PROVE  TypeInv'
  <2>1. PICK e \in TrigLocal : TOnly(t, e) /\ e.at = "lock"
    BY <1>6 DEF Begins
  <2>2. TFrame /\ TWritten /\ rounds' = rounds
    BY <1>6 DEF Begins, TFrame, TWritten, TypeInv, shared, object
  <2>3. Cardinality(TIn(Early))' = Cardinality(TIn(Early)) + 1 /\ Cardinality(TIn(Early)) \in Nat
    <3>1. Cardinality(TIn(Early))' + Is(TAt(t), Early) = Cardinality(TIn(Early)) + Is(e.at, Early)
          /\ Cardinality(TIn(Early)) \in Nat /\ Cardinality(TIn(Early))' \in Nat
      BY <1>1, <2>1, TInStep DEF Same
    <3>2. Is(TAt(t), Early) = 0 /\ Is(e.at, Early) = 1
      BY <1>6, <2>1 DEF Begins, Is, Early
    <3> QED
      BY <3>1, <3>2
  <2>4. Cardinality(TIn(Early)) <= Cardinality({u \in Triggerer : TAt(u) # "out"})
    <3> DEFINE C == {u \in Triggerer : TAt(u) # "out"}
    <3>1. IsFiniteSet(C)
      BY <1>1, FS_Subset DEF Fits
    <3>2. TIn(Early) \in SUBSET C
      BY DEF TIn, Early
    <3> HIDE DEF C
    <3>3. Cardinality(TIn(Early)) <= Cardinality(C)
      BY <3>1, <3>2, FS_Subset
    <3> QED
      BY <3>3 DEF C
  <2>5. Cardinality({u \in Triggerer : TAt(u) # "out"}) \in Nat
    BY <1>1, FS_Subset, FS_CardinalityType DEF Fits
  <2>6. rounds' + Cardinality(TIn(Early))' <= MaxRounds
    BY <1>1, <1>6, <2>2, <2>3, <2>4, <2>5 DEF Begins, TypeInv, Fits
  <2> QED
    BY <1>4, <2>1, <2>2, <2>6
<1>7. ASSUME reset \/ destroy_start \/ destroy_free \/ UNCHANGED vars
      PROVE  TypeInv'
  <2>1. UNCHANGED <<shared, wait, trig, rounds, woken>>
    BY <1>7 DEF reset, destroy_start, destroy_free, vars
  <2>2. lock_free' \in Nat /\ shutting_down' \in {"no", "yes", "freed"}
    BY <1>7 DEF reset, destroy_start, destroy_free, vars, TypeInv, object
  <2>3. TIn(Early)' = TIn(Early)
    BY <1>1, <2>1, TInSame DEF Same
  <2>4. RoundsLeft'
    BY <1>1, <2>1, <2>3 DEF RoundsLeft, TypeInv, Same
  <2>5. \A t \in Triggerer : Numbers(trig[t])'
    BY <1>1, <2>1 DEF TypeInv, Same, Numbers
  <2>6. WaitLocal' = WaitLocal /\ TrigLocal' = TrigLocal
    BY <1>1 DEF WaitLocal, TrigLocal, Same
  <2>7. \A x \in Waiter : At(x)' = "relock" => Sync
    BY <2>1 DEF At, TypeInv
  <2> QED
    BY <1>1, <2>1, <2>2, <2>4, <2>5, <2>6, <2>7 DEF TypeInv, Same, shared
<1> QED
  BY <1>2, <1>3, <1>5, <1>6, <1>7, Kinds

\* The types hold in every use.
THEOREM WellTyped == Spec => []TypeInv
<1>1. Init => TypeInv
  BY TypeInit
<1>2. TypeInv /\ [Next]_vars => TypeInv'
  BY TypeStep
<1> QED
  BY <1>1, <1>2, PTL DEF Spec

-----------------------------------------------------------------------------
(* The lock of an object that is not synchronised                          *)

Taken == Cardinality(TIn(Locking)) + Cardinality(In(Searching))

\* The lock is free, or one process has it.  It is lost only by a trigger that finds too
\* few waiters, or is cut short by destroy.
LockInv ==
  ~Sync => /\ lock_free + Taken <= 1
           /\ shutting_down = "no" /\ Counts \subseteq {1, All} => lock_free + Taken = 1

\* The lock of a new object is free.
LEMMA LockInit == ASSUME Init PROVE LockInv
<1>1. TIn(Locking) = {} /\ In(Searching) = {}
  BY DEF Init, TIn, TAt, NotTriggering, Triggering, Locking, In, At, NotWaiting, Waiting, Searching
<1>2. Taken = 0
  BY <1>1, FS_EmptySet DEF Taken
<1> QED
  BY <1>2 DEF Init, LockInv

\* Every step keeps track of the lock.
LEMMA LockStep == ASSUME TypeInv, LockInv, [Next]_vars PROVE LockInv'
<1>1. Same /\ Fits /\ Typed /\ lock_free \in Nat
  BY Kinds, TypeHas DEF TypeInv
<1>2. Taken \in Nat /\ Cardinality(TIn(Locking)) \in Nat /\ Cardinality(In(Searching)) \in Nat
  BY <1>1, InFinite DEF Taken
<1>3. ASSUME NEW w \in Waiter, WaitEffect(w)
      PROVE  LockInv'
  <2>1. PICK l \in Alive : Effect(w, l)
    BY <1>3 DEF WaitEffect
  <2>2. TIn(Locking)' = TIn(Locking)
    BY <1>1, <2>1, TInSame DEF Effect, Frame, Same
  <2>3. /\ Cardinality(In(Searching))' + Is(At(w), Searching)
           = Cardinality(In(Searching)) + Is(l, Searching)
        /\ Cardinality(In(Searching))' \in Nat
    BY <1>1, <2>1, InStep DEF Effect, Same
  <2>4. ~Sync => lock_free' + Is(l, Searching) = lock_free + Is(At(w), Searching)
    BY <2>1 DEF Effect, Follow
  <2>5. Is(l, Searching) \in {0, 1} /\ Is(At(w), Searching) \in {0, 1} /\ lock_free' \in Nat
    BY <2>1 DEF Is, Effect, Written
  <2>6. ~Sync => lock_free' + Taken' = lock_free + Taken
    BY <1>1, <1>2, <2>2, <2>3, <2>4, <2>5 DEF Taken
  <2>7. shutting_down' = shutting_down
    BY <2>1 DEF Effect, Frame
  <2> QED
    BY <1>1, <2>6, <2>7 DEF LockInv, Same
<1>4. ASSUME NEW w \in Waiter, Dies(w)
      PROVE  LockInv'
  <2>1. TIn(Locking)' = TIn(Locking) /\ UNCHANGED <<lock_free, shutting_down>>
    BY <1>1, <1>4, TInSame DEF Dies, Frame, Same, shared
  <2>2. Cardinality(In(Searching))' + Is(At(w), Searching)
          = Cardinality(In(Searching)) + Is("dead", Searching)
        /\ Cardinality(In(Searching))' \in Nat
    BY <1>1, <1>4, InStep DEF Dies, Same
  <2>3. Is("dead", Searching) = 0 /\ Is(At(w), Searching) = 0
    BY <1>4 DEF Is, Searching, Dies
  <2>4. Taken' = Taken
    BY <1>2, <2>1, <2>2, <2>3 DEF Taken
  <2> QED
    BY <1>1, <2>1, <2>4 DEF LockInv, Same
<1>5. ASSUME NEW t \in Triggerer, NEW e, TOnly(t, e), wait' = wait
      PROVE  /\ In(Searching)' = In(Searching)
             /\ Taken' + Is(TAt(t), Locking) = Taken + Is(e.at, Locking) /\ Taken' \in Nat
  <2>1. /\ Cardinality(TIn(Locking))' + Is(TAt(t), Locking)
           = Cardinality(TIn(Locking)) + Is(e.at, Locking)
        /\ Cardinality(TIn(Locking))' \in Nat
    BY <1>1, <1>5, TInStep DEF Same
  <2>2. In(Searching)' = In(Searching)
    BY <1>1, <1>5, InSame DEF Same
  <2>3. Is(e.at, Locking) \in {0, 1} /\ Is(TAt(t), Locking) \in {0, 1}
    BY DEF Is
  <2> QED
    BY <1>2, <2>1, <2>2, <2>3 DEF Taken
<1>6. ASSUME NEW t \in Triggerer, TrigEffect(t)
      PROVE  LockInv'
  <2>1. PICK e \in TrigLocal : TOnly(t, e) /\ TFollow(t, e.at)
    BY <1>6 DEF TrigEffect
  <2>2. UNCHANGED <<wait, shutting_down>> /\ lock_free' \in Nat
    BY <1>6 DEF TrigEffect, TFrame, TWritten
  <2>3. Taken' + Is(TAt(t), Locking) = Taken + Is(e.at, Locking) /\ Taken' \in Nat
    BY <1>5, <2>1, <2>2
  <2>4. Is(e.at, Locking) \in {0, 1} /\ Is(TAt(t), Locking) \in {0, 1}
    BY DEF Is
  <2>5. ~Sync => lock_free' + Is(e.at, Locking) <= lock_free + Is(TAt(t), Locking)
    BY <2>1 DEF TFollow
  <2>6. ~Sync /\ shutting_down = "no" /\ Counts \subseteq {1, All} =>
          lock_free' + Is(e.at, Locking) = lock_free + Is(TAt(t), Locking)
    BY <2>1 DEF TFollow
  <2>7. ~Sync => lock_free' + Taken' <= lock_free + Taken
    BY <1>1, <1>2, <2>2, <2>3, <2>4, <2>5 DEF Taken
  <2>8. ~Sync /\ shutting_down = "no" /\ Counts \subseteq {1, All} =>
          lock_free' + Taken' = lock_free + Taken
    BY <1>1, <1>2, <2>2, <2>3, <2>4, <2>6 DEF Taken
  <2>9. Sync' = Sync /\ Counts' = Counts
    BY <1>1 DEF Same
  <2> QED
    BY <1>1, <1>2, <2>2, <2>3, <2>7, <2>8, <2>9 DEF LockInv, Taken
<1>7. ASSUME NEW t \in Triggerer, Begins(t)
      PROVE  LockInv'
  <2>1. PICK e \in TrigLocal : TOnly(t, e) /\ e.at = "lock"
    BY <1>7 DEF Begins
  <2>2. UNCHANGED <<wait, shutting_down, lock_free>> /\ TAt(t) = "out"
    BY <1>7 DEF Begins, object
  <2>3. Taken' + Is(TAt(t), Locking) = Taken + Is(e.at, Locking) /\ Taken' \in Nat
    BY <1>5, <2>1, <2>2
  <2>4. Is(e.at, Locking) = 0 /\ Is(TAt(t), Locking) = 0
    BY <2>1, <2>2 DEF Is, Locking
  <2>5. Sync' = Sync /\ Counts' = Counts
    BY <1>1 DEF Same
  <2>6. Taken' = Taken
    BY <1>2, <2>3, <2>4 DEF Taken
  <2> QED
    BY <1>1, <2>2, <2>5, <2>6 DEF LockInv
<1>8. ASSUME reset \/ destroy_start \/ destroy_free \/ UNCHANGED vars
      PROVE  LockInv'
  <2>1. In(Searching)' = In(Searching) /\ TIn(Locking)' = TIn(Locking)
    BY <1>1, <1>8, InSame, TInSame DEF reset, destroy_start, destroy_free, vars, Same
  <2>2. Taken' = Taken
    BY <2>1 DEF Taken
  <2>3. reset => Taken = 0
    <3>1. Quiet => TIn(Locking) = {} /\ In(Searching) = {}
      BY DEF Quiet, TIn, In, Locking, Searching
    <3> QED
      BY <3>1, FS_EmptySet DEF reset, Taken
  <2>4. CASE reset
    BY <1>1, <2>2, <2>3, <2>4 DEF reset, LockInv, Same, object
  <2>5. CASE ~reset
    BY <1>1, <1>8, <2>2, <2>5 DEF destroy_start, destroy_free, vars, LockInv, Same, object
  <2> QED
    BY <2>4, <2>5
<1> QED
  BY <1>3, <1>4, <1>6, <1>7, <1>8, Kinds

\* LockReturned in every use: on an object that is not synchronised, triggers and slot
\* searches exclude one another and the lock comes back, whatever times out or dies.
THEOREM TriggersExclude == Spec => []LockReturned
<1>1. Init => TypeInv /\ LockInv
  BY TypeInit, LockInit
<1>2. TypeInv /\ LockInv /\ [Next]_vars => TypeInv' /\ LockInv'
  BY TypeStep, LockStep
<1>3. TypeInv /\ LockInv => LockReturned
  <2> SUFFICES ASSUME TypeInv, LockInv PROVE LockReturned
    OBVIOUS
  <2>1. Taken \in Nat /\ lock_free \in Nat
    BY TypeHas, InFinite DEF Taken, TypeInv
  <2>2. Taken = Cardinality({t \in Triggerer : TAt(t) \in Locking})
                  + Cardinality({w \in Waiter : At(w) \in {"spin_find", "spin_count"}})
    BY DEF Taken, TIn, In, Searching
  <2> QED
    BY <2>1, <2>2 DEF LockInv, LockReturned
<1> QED
  BY <1>1, <1>2, <1>3, PTL DEF Spec

-----------------------------------------------------------------------------
(* The counters                                                            *)

DeadAreMortal == \A w \in Waiter : At(w) = "dead" => w \in Mortal

\* The counters, where no process dies.
CountInv ==
  Mortal = {} =>
    /\ num_waiting = Cardinality(In(Counted))
    /\ spin_list_count = Cardinality(In(Slotted))
    /\ \A w \in Waiter : wait[w].my_num_waiting \in Nat
    /\ \A t \in Triggerer : trig[t].spinner_count \in Nat

\* At first nobody waits.
LEMMA CountInit == ASSUME Init PROVE DeadAreMortal /\ CountInv
<1>1. NotWaiting.at = "out" /\ NotWaiting.my_num_waiting = 0 /\ NotTriggering.spinner_count = 0
  BY DEF NotWaiting, Waiting, NotTriggering, Triggering
<1> HIDE DEF NotWaiting, NotTriggering
<1>2. \A w \in Waiter : At(w) = "out" /\ wait[w].my_num_waiting = 0
  BY <1>1 DEF Init, At
<1>3. \A t \in Triggerer : trig[t].spinner_count = 0
  BY <1>1 DEF Init
<1>4. In(Counted) = {} /\ In(Slotted) = {}
  BY <1>2 DEF In, Counted, Slotted, Owning
<1> QED
  BY <1>2, <1>3, <1>4, FS_EmptySet DEF DeadAreMortal, CountInv, Init

\* Only a waiter that may die is dead.
LEMMA DeadStep == ASSUME TypeInv, DeadAreMortal, [Next]_vars PROVE DeadAreMortal'
<1>1. Same
  BY Kinds
<1>2. ASSUME NEW w \in Waiter, WaitEffect(w)
      PROVE  DeadAreMortal'
  BY <1>1, <1>2, AliveNotDead DEF WaitEffect, Effect, Only, At, DeadAreMortal, Same
<1>3. ASSUME NEW w \in Waiter, Dies(w)
      PROVE  DeadAreMortal'
  BY <1>1, <1>3 DEF Dies, Only, At, DeadAreMortal, Same
<1>4. ASSUME wait' = wait
      PROVE  DeadAreMortal'
  BY <1>1, <1>4 DEF At, DeadAreMortal, Same
<1>5. ASSUME NEW t \in Triggerer, TrigEffect(t) \/ Begins(t)
      PROVE  wait' = wait
  BY <1>5 DEF TrigEffect, TFrame, Begins
<1>6. reset \/ destroy_start \/ destroy_free \/ UNCHANGED vars => wait' = wait
  BY DEF reset, destroy_start, destroy_free, vars
<1> QED
  BY <1>2, <1>3, <1>4, <1>5, <1>6, Kinds

\* Every step keeps the counters.
LEMMA CountStep ==
  ASSUME TypeInv, DeadAreMortal, CountInv, [Next]_vars
  PROVE  CountInv'
<1>1. Same /\ Fits /\ Typed /\ num_waiting \in Int /\ spin_list_count \in Int
  BY Kinds, TypeHas DEF TypeInv
<1> SUFFICES ASSUME Mortal = {} PROVE CountInv'
  BY <1>1 DEF CountInv, Same
<1>2. /\ num_waiting = Cardinality(In(Counted)) /\ spin_list_count = Cardinality(In(Slotted))
      /\ num_waiting \in Nat /\ spin_list_count \in Nat
      /\ \A w \in Waiter : wait[w].my_num_waiting \in Nat
      /\ \A t \in Triggerer : trig[t].spinner_count \in Nat
  BY <1>1, InFinite DEF CountInv
<1>3. ASSUME NEW w \in Waiter, WaitEffect(w)
      PROVE  CountInv'
  <2>1. PICK l \in Alive : Effect(w, l)
    BY <1>3 DEF WaitEffect
  <2>2. Only(w, l) /\ Follow(w, l) /\ num_waiting' \in Int /\ spin_list_count' \in Int /\ trig' = trig
    BY <2>1 DEF Effect, Written, Frame
  <2>3. /\ Cardinality(In(Counted))' + Is(At(w), Counted) = Cardinality(In(Counted)) + Is(l, Counted)
        /\ Cardinality(In(Counted))' \in Nat
    BY <1>1, <2>2, InStep DEF Same
  <2>4. /\ Cardinality(In(Slotted))' + Is(At(w), Slotted) = Cardinality(In(Slotted)) + Is(l, Slotted)
        /\ Cardinality(In(Slotted))' \in Nat
    BY <1>1, <2>2, InStep DEF Same
  <2>5. Is(At(w), Counted) \in {0, 1} /\ Is(l, Counted) \in {0, 1}
    BY DEF Is
  <2>6. Is(At(w), Slotted) \in {0, 1} /\ Is(l, Slotted) \in {0, 1}
    BY DEF Is
  <2>7. num_waiting' + Is(At(w), Counted) = num_waiting + Is(l, Counted)
    BY <2>2 DEF Follow
  <2>8. spin_list_count' + Is(At(w), Slotted) = spin_list_count + Is(l, Slotted)
    BY <2>2 DEF Follow
  <2>9. num_waiting' = Cardinality(In(Counted))'
    BY <1>2, <2>2, <2>3, <2>5, <2>7
  <2>10. spin_list_count' = Cardinality(In(Slotted))'
    BY <1>2, <2>2, <2>4, <2>6, <2>8
  <2>11. \A x \in Waiter : wait'[x].my_num_waiting \in Nat
    BY <1>2, <2>2 DEF Only, Reads
  <2> QED
    BY <1>1, <1>2, <2>2, <2>9, <2>10, <2>11 DEF CountInv, Same
<1>4. \A w \in Waiter : ~Dies(w) /\ At(w) # "dead"
  BY DEF Dies, DeadAreMortal
<1>5. ASSUME wait' = wait, UNCHANGED <<num_waiting, spin_list_count>>,
             \A t \in Triggerer : trig'[t].spinner_count \in {0, trig[t].spinner_count, spin_list_count}
      PROVE  CountInv'
  <2>1. In(Counted)' = In(Counted) /\ In(Slotted)' = In(Slotted)
    BY <1>1, <1>5, InSame DEF Same
  <2>2. \A t \in Triggerer : trig'[t].spinner_count \in Nat
    BY <1>2, <1>5
  <2> QED
    BY <1>1, <1>2, <1>5, <2>1, <2>2 DEF CountInv, Same
<1>6. ASSUME NEW t \in Triggerer, TrigEffect(t) \/ Begins(t)
      PROVE  CountInv'
  <2>1. PICK e \in TrigLocal : TOnly(t, e)
    BY <1>6 DEF TrigEffect, Begins
  <2>2. wait' = wait /\ UNCHANGED <<num_waiting, spin_list_count>>
    <3>1. CASE TrigEffect(t)
      BY <1>4, <3>1 DEF TrigEffect, TFrame, TFollow
    <3>2. CASE Begins(t)
      BY <3>2 DEF Begins, shared
    <3> QED
      BY <1>6, <3>1, <3>2
  <2>3. \A u \in Triggerer : trig'[u].spinner_count \in {0, trig[u].spinner_count, spin_list_count}
    BY <2>1 DEF TOnly
  <2> QED
    BY <1>5, <2>2, <2>3
<1>7. ASSUME reset \/ destroy_start \/ destroy_free \/ UNCHANGED vars
      PROVE  CountInv'
  BY <1>5, <1>7 DEF reset, destroy_start, destroy_free, vars, shared
<1> QED
  BY <1>3, <1>4, <1>6, <1>7, Kinds

\* WaitersCounted, where no process dies: num_waiting and spin_list_count are exactly the
\* numbers of the processes they stand for, on every path through a wait.
THEOREM CountersExact == Spec => [](Mortal = {} => WaitersCounted)
<1> DEFINE Inv == TypeInv /\ DeadAreMortal /\ CountInv
<1>1. Init => Inv
  BY TypeInit, CountInit
<1>2. Inv /\ [Next]_vars => Inv'
  BY TypeStep, DeadStep, CountStep
<1>3. Inv => (Mortal = {} => WaitersCounted)
  <2> SUFFICES ASSUME Inv, Mortal = {} PROVE WaitersCounted
    OBVIOUS
  <2>1. Fits /\ num_waiting \in Nat /\ spin_list_count \in Nat
    BY TypeHas, InFinite DEF CountInv
  <2>2. wait \in [Waiter -> [at : Places, mode : {"idle", "spin", "adaptive"},
                             slot : 0 .. SpinListSz + 1, my_num_waiting : Nat, released : Nat,
                             since : 0 .. MaxRounds, got : 0 .. MaxRounds]]
    BY DEF TypeInv, WaitLocal, CountInv
  <2>3. trig \in [Triggerer -> [at : Locking \cup {"out", "lock"}, n : Nat \cup {All},
                                num_waiting : Nat, num_spinners : Nat, spinner_count : Nat,
                                idx : 1 .. SpinListSz + 1]]
    BY DEF TypeInv, TrigLocal, CountInv
  <2>4. Places = Counted \cup Slotted \cup {"out", "gate", "spin_slot", "idle_count",
                                            "giveup_slot", "relock", "done", "dead"}
    BY DEF Places, Alive
  <2>5. TypeOK
    BY <2>1, <2>2, <2>3, <2>4 DEF TypeOK, TypeInv
  <2> QED
    BY <2>5 DEF WaitersCounted, CountInv, In
<1> QED
  BY <1>1, <1>2, <1>3, PTL DEF Spec

-----------------------------------------------------------------------------
(* The calls of release_fun                                                *)

\* From its start to its becoming official, a call of wait has not called release_fun.
Unreleased == {"gate", "spin_slot", "spin_find", "spin_count", "idle_count", "spin_entered",
               "idle_entered", "refused_slot", "refused_uncount"}

Called(e) == e.released = IF e.at \in Unreleased THEN 0 ELSE 1

\* A waiter that is not turned away calls release_fun where it becomes official, and nowhere else.
LEMMA ReleaseMoves ==
  ASSUME WaitType, NEW w \in Waiter \ Notified, Steps(w), ~refused(w),
         Called(wait[w])
  PROVE  Called(wait'[w])
<1>0. Typed /\ w \in Waiter /\ release(w) = 1 /\ num_waiting \in Int /\ payload \in 0 .. MaxRounds
      /\ rounds \in 0 .. MaxRounds
  BY DEF WaitType, release
<1>a. SpinListSz \in Nat /\ wait[w].slot \in 0 .. SpinListSz + 1
  BY DEF WaitType, Typed, Fits, WaitLocal
<1>1. CASE wait_start(w)
  BY <1>0, <1>1, StartMoves, IsPlace DEF wait_start, Called, Unreleased, Moved, Only, At
<1>2. CASE _bcast_wait_on_triggering(w)
  BY <1>0, <1>2, GotoMoves, IsPlace DEF _bcast_wait_on_triggering, Called, Unreleased, Moved,
      Only, At
<1>3. CASE gate_timeout(w)
  BY <1>0, <1>3, ReturnMoves, IsPlace DEF gate_timeout, release, Called, Unreleased, Moved, Only, At
<1>4. CASE spin_slot(w)
  <2>1. 1 \in 0 .. SpinListSz + 1
    BY <1>a
  <2> QED
    BY <1>0, <1>4, <2>1, SlotMoves, IsPlace DEF spin_slot, Called, Unreleased, Moved, Only, At
<1>5. CASE spin_find(w)
  <2> DEFINE i == wait[w].slot
  <2>1. i \in Slot => i + 1 \in 0 .. SpinListSz + 1
    BY <1>a DEF Slot
  <2>2. At(w) = "spin_find"
    BY <1>5 DEF spin_find
  <2>3. CASE Goto(w, "spin_count")
    BY <1>0, <2>2, <2>3, GotoMoves, IsPlace DEF Called, Unreleased, Moved, Only, At
  <2>4. CASE i \in Slot /\ GotoSlot(w, "spin_find", i + 1)
    BY <1>0, <2>1, <2>2, <2>4, SlotMoves, IsPlace DEF Called, Unreleased, Moved, Only, At
  <2>5. CASE GotoSlot(w, "idle_count", 0)
    BY <1>0, <1>a, <2>2, <2>5, SlotMoves, IsPlace DEF Called, Unreleased, Moved, Only, At
  <2> QED
    BY <1>5, <2>3, <2>4, <2>5 DEF spin_find
<1>6. CASE spin_count(w)
  BY <1>0, <1>6, CountedMoves, IsPlace DEF spin_count, count, unlock_no_sync, Called, Unreleased,
      Moved, Only, At
<1>7. CASE idle_count(w)
  BY <1>0, <1>7, CountedMoves, IsPlace DEF idle_count, count, can_lock, Called, Unreleased, Moved,
      Only, At
<1>9. CASE entered(w)
  BY <1>0, <1>9, ReleasedMoves, IsPlace DEF entered, Called, Unreleased, Moved, Only, At
<1>10. CASE idle_ticket(w)
  BY <1>0, <1>10, GotoMoves, IsPlace DEF idle_ticket, Called, Unreleased, Moved, Only, At
<1>11. CASE idle_miss(w)
  BY <1>0, <1>11, GotoMoves, IsPlace DEF idle_miss, Called, Unreleased, Moved, Only, At
<1>12. CASE idle_sleep(w)
  BY <1>0, <1>12, GotoMoves, IsPlace DEF idle_sleep, Called, Unreleased, Moved, Only, At
<1>13. CASE idle_wake(w)
  BY <1>0, <1>13, GotoMoves, IsPlace DEF idle_wake, AfterSleep, Called, Unreleased, Moved, Only, At
<1>14. CASE idle_timeout(w)
  BY <1>0, <1>14, GotoMoves, ReturnMoves, IsPlace DEF idle_timeout, Called, Unreleased, Moved,
      Only, At
<1>15. CASE relock(w)
  BY <1>0, <1>15, ReturnMoves, IsPlace DEF relock, Called, Unreleased, Moved, Only, At
<1>16. CASE spin_exit(w)
  BY <1>0, <1>16, GotoMoves, IsPlace DEF spin_exit, Called, Unreleased, Moved, Only, At
<1>17. CASE spin_timeout(w)
  BY <1>0, <1>17, GotoMoves, IsPlace DEF spin_timeout, Called, Unreleased, Moved, Only, At
<1>18. CASE spin_giveup(w)
  BY <1>0, <1>18, GotoMoves, IsPlace DEF spin_giveup, Called, Unreleased, Moved, Only, At
<1>19. CASE spin_adapt(w)
  BY <1>0, <1>19, GotoMoves, IsPlace DEF spin_adapt, Called, Unreleased, Moved, Only, At
<1>20. CASE clear_slot(w)
  <2>1. CASE At(w) \in {"spin_leave", "refused_slot"}
    BY <1>0, <1>20, <2>1, GotoMoves, IsPlace DEF clear_slot, Called, Unreleased, Moved, Only, At
  <2>2. CASE At(w) = "giveup_slot" /\ Goto(w, "relock")
    BY <1>0, <2>2, GotoMoves, IsPlace DEF Called, Unreleased, Moved, Only, At
  <2>3. CASE At(w) = "giveup_slot" /\ Return(w, 0)
    BY <1>0, <2>3, ReturnMoves, IsPlace DEF Called, Unreleased, Moved, Only, At
  <2> QED
    BY <1>20, <2>1, <2>2, <2>3 DEF clear_slot
<1>21. CASE spin_uncount(w)
  <2>1. CASE At(w) = "refused_uncount" /\ Return(w, release(w))
    BY <1>0, <2>1, ReturnMoves, IsPlace DEF Called, Unreleased, Moved, Only, At
  <2>2. CASE At(w) = "left_uncount" /\ Goto(w, "pickup")
    BY <1>0, <2>2, GotoMoves, IsPlace DEF Called, Unreleased, Moved, Only, At
  <2>3. CASE At(w) = "giveup_uncount" /\ Goto(w, "giveup_slot")
    BY <1>0, <2>3, GotoMoves, IsPlace DEF Called, Unreleased, Moved, Only, At
  <2>4. CASE At(w) = "adapt_uncount" /\ Goto(w, "idle")
    BY <1>0, <2>4, GotoMoves, IsPlace DEF Called, Unreleased, Moved, Only, At
  <2> QED
    BY <1>21, <2>1, <2>2, <2>3, <2>4, Uncounts
<1>22. CASE pickup(w)
  BY <1>0, <1>22, PaidMoves, ReturnMoves, IsPlace DEF pickup, Called, Unreleased, Moved, Only, At
<1>23. CASE leave(w)
  BY <1>0, <1>23, GotoMoves, IsPlace DEF leave, Called, Unreleased, Moved, Only, At
<1>24. CASE done(w)
  BY <1>0, <1>24, ReturnMoves, IsPlace DEF done, Called, Unreleased, Moved, Only, At
<1> QED
  BY <1>1, <1>2, <1>3, <1>4, <1>5, <1>6, <1>7, <1>9, <1>10, <1>11, <1>12, <1>13, <1>14, <1>15,
      <1>16, <1>17, <1>18, <1>19, <1>20, <1>21, <1>22, <1>23, <1>24 DEF Steps, WaitStep,
      TakesLock, Chance

\* At most as many are counted as are waiting or dead, so that no waiter reads more than
\* there are, and every waiter has called release_fun where it should have.
BoundInv ==
  /\ num_waiting <= Cardinality(In(Counted \cup {"dead"}))
  /\ \A w \in Waiter : wait[w].my_num_waiting <= Cardinality(Waiter)
ReleaseInv == NoneTooMany => \A w \in Waiter \ Notified : Called(wait[w])

\* At first nobody waits, and release_fun counts as called.
LEMMA ReleaseInit == ASSUME Init PROVE BoundInv /\ ReleaseInv
<1>1. NotWaiting.at = "out" /\ NotWaiting.my_num_waiting = 0 /\ NotWaiting.released = 1
  BY DEF NotWaiting, Waiting
<1> HIDE DEF NotWaiting
<1>2. \A w \in Waiter : wait[w].at = "out" /\ wait[w].my_num_waiting = 0 /\ wait[w].released = 1
  BY <1>1 DEF Init
<1>3. Fits
  BY UseFits DEF Init
<1>4. Cardinality(Waiter) \in Nat /\ Cardinality(In(Counted \cup {"dead"})) \in Nat
  BY <1>3, InFinite, FS_CardinalityType DEF Fits
<1>5. num_waiting = 0
  BY DEF Init
<1> QED
  BY <1>2, <1>4, <1>5 DEF BoundInv, ReleaseInv, Called, Unreleased

\* Every step keeps the bounds.
LEMMA BoundStep == ASSUME TypeInv, BoundInv, [Next]_vars PROVE BoundInv'
<1> DEFINE L == Counted \cup {"dead"}
           N == Cardinality(Waiter)
<1> HIDE DEF L, N
<1>1. Same /\ Fits /\ Typed /\ num_waiting \in Int
  BY Kinds, TypeHas DEF TypeInv
<1>2. N \in Nat /\ IsFiniteSet(Waiter) /\ N' = N
  BY <1>1, FS_CardinalityType DEF Fits, Same, N
<1>3. num_waiting <= Cardinality(In(L)) /\ \A w \in Waiter : wait[w].my_num_waiting <= N
  BY DEF BoundInv, L, N
<1>4. Cardinality(In(L)) \in Nat /\ Cardinality(In(L)) <= N
  BY <1>1, InFinite, FS_Subset DEF Fits, In, N
<1>5. ASSUME num_waiting' <= Cardinality(In(L))', \A w \in Waiter : wait'[w].my_num_waiting <= N
      PROVE  BoundInv'
  BY <1>1, <1>2, <1>5 DEF BoundInv, L, N, Same
<1>6. ASSUME NEW w \in Waiter, WaitEffect(w), At(w) # "dead"
      PROVE  BoundInv'
  <2>1. PICK l \in Alive : Effect(w, l)
    BY <1>6 DEF WaitEffect
  <2>2. Only(w, l) /\ num_waiting' + Is(At(w), Counted) = num_waiting + Is(l, Counted)
        /\ num_waiting' \in Int
    BY <2>1 DEF Effect, Follow, Written
  <2>3. /\ Cardinality(In(L))' + Is(At(w), L) = Cardinality(In(L)) + Is(l, L)
        /\ Cardinality(In(L))' \in Nat
    BY <1>1, <2>2, InStep DEF Same
  <2>4. Is(At(w), L) = Is(At(w), Counted) /\ Is(l, L) = Is(l, Counted)
    BY <1>6, AliveNotDead DEF Is, L
  <2>5. Is(At(w), Counted) \in {0, 1} /\ Is(l, Counted) \in {0, 1}
    BY DEF Is
  <2>6. num_waiting' <= Cardinality(In(L))'
    BY <1>1, <1>3, <1>4, <2>2, <2>3, <2>4, <2>5
  <2>7. At(w) \in {"spin_count", "idle_count"} => num_waiting + 1 <= N
    <3> SUFFICES ASSUME At(w) \in {"spin_count", "idle_count"} PROVE num_waiting + 1 <= N
      OBVIOUS
    <3>1. w \notin In(L)
      BY DEF In, L, Counted
    <3>2. In(L) \in SUBSET (Waiter \ {w})
      BY <3>1 DEF In
    <3>3. IsFiniteSet(Waiter \ {w}) /\ Cardinality(Waiter \ {w}) = N - 1
      BY <1>2, FS_RemoveElement DEF N
    <3>4. Cardinality(In(L)) <= N - 1
      BY <3>2, <3>3, FS_Subset
    <3> QED
      BY <1>1, <1>2, <1>3, <1>4, <3>4
  <2>8. wait'[w].my_num_waiting <= N
    BY <1>2, <1>3, <2>2, <2>7 DEF Only, Reads
  <2>9. \A x \in Waiter : wait'[x].my_num_waiting <= N
    BY <1>3, <2>2, <2>8 DEF Only
  <2> QED
    BY <1>5, <2>6, <2>9
<1>7. ASSUME NEW w \in Waiter, Dies(w)
      PROVE  BoundInv'
  <2>1. Only(w, "dead") /\ num_waiting' = num_waiting /\ At(w) \in {"spin", "asleep"}
    BY <1>7 DEF Dies, shared
  <2>2. /\ Cardinality(In(L))' + Is(At(w), L) = Cardinality(In(L)) + Is("dead", L)
        /\ Cardinality(In(L))' \in Nat
    BY <1>1, <2>1, InStep DEF Same
  <2>3. Is(At(w), L) = 1 /\ Is("dead", L) = 1
    BY <2>1 DEF Is, L, Counted
  <2>4. num_waiting' <= Cardinality(In(L))'
    BY <1>1, <1>3, <1>4, <2>1, <2>2, <2>3
  <2>5. \A x \in Waiter : wait'[x].my_num_waiting <= N
    BY <1>2, <1>3, <2>1 DEF Only, Reads
  <2> QED
    BY <1>5, <2>4, <2>5
<1>8. ASSUME wait' = wait, num_waiting' \in Int, num_waiting' <= num_waiting
      PROVE  BoundInv'
  <2>1. In(L)' = In(L)
    BY <1>1, <1>8, InSame DEF Same
  <2> QED
    BY <1>1, <1>3, <1>4, <1>5, <1>8, <2>1
<1>9. ASSUME NEW t \in Triggerer, TrigEffect(t) \/ Begins(t)
      PROVE  BoundInv'
  BY <1>1, <1>8, <1>9 DEF TrigEffect, TFrame, TWritten, TFollow, Begins, shared
<1>10. ASSUME reset \/ destroy_start \/ destroy_free \/ UNCHANGED vars
       PROVE  BoundInv'
  BY <1>1, <1>8, <1>10 DEF reset, destroy_start, destroy_free, vars, shared
<1> QED
  BY <1>6, <1>7, <1>9, <1>10, Kinds

\* Every step keeps track of the calls of release_fun.
LEMMA ReleaseStep == ASSUME TypeInv, BoundInv, ReleaseInv, [Next]_vars PROVE ReleaseInv'
<1>1. Same /\ Fits /\ WaitType
  BY Kinds, TypeHas
<1> SUFFICES ASSUME NoneTooMany PROVE ReleaseInv'
  BY <1>1 DEF ReleaseInv, NoneTooMany, Same
<1>2. \A w \in Waiter \ Notified : Called(wait[w])
  BY DEF ReleaseInv
<1>3. ASSUME \A w \in Waiter \ Notified : Called(wait'[w])
      PROVE  ReleaseInv'
  BY <1>1, <1>3 DEF ReleaseInv, Same, Called
<1>4. ASSUME NEW w \in Waiter, Steps(w), WaitEffect(w)
      PROVE  ReleaseInv'
  <2>1. \A x \in Waiter \ {w} : wait'[x] = wait[x]
    BY <1>4 DEF WaitEffect, Effect, Only
  <2>2. ~refused(w)
    <3>1. Cardinality(Waiter) \in Nat /\ wait[w].my_num_waiting \in Int /\ SyncNum \in Nat
      BY <1>1, FS_CardinalityType DEF Fits, WaitType, Typed, WaitLocal
    <3>2. ~TooMany(w)
      BY <3>1 DEF BoundInv, NoneTooMany, TooMany
    <3> QED
      BY <3>2 DEF refused
  <2>3. w \notin Notified => Called(wait'[w])
    BY <1>1, <1>2, <1>4, <2>2, ReleaseMoves
  <2> QED
    BY <1>2, <1>3, <2>1, <2>3
<1>5. ASSUME NEW w \in Waiter, Dies(w)
      PROVE  ReleaseInv'
  <2>1. \A x \in Waiter \ {w} : wait'[x] = wait[x]
    BY <1>5 DEF Dies, Only
  <2>2. wait'[w].at = "dead" /\ wait'[w].released = wait[w].released
    BY <1>1, <1>5, GotoMoves, IsPlace DEF Dies, WaitType, Moved, Only
  <2>3. w \notin Notified => Called(wait'[w])
    BY <1>2, <1>5, <2>2 DEF Called, Unreleased, Dies, At
  <2> QED
    BY <1>2, <1>3, <2>1, <2>3
<1>6. ASSUME wait' = wait
      PROVE  ReleaseInv'
  BY <1>2, <1>3, <1>6
<1>7. ASSUME NEW t \in Triggerer, TrigEffect(t) \/ Begins(t)
      PROVE  ReleaseInv'
  BY <1>6, <1>7 DEF TrigEffect, TFrame, Begins
<1>8. ASSUME reset \/ destroy_start \/ destroy_free \/ UNCHANGED vars
      PROVE  ReleaseInv'
  BY <1>6, <1>8 DEF reset, destroy_start, destroy_free, vars
<1> QED
  BY <1>4, <1>5, <1>7, <1>8, Kinds

\* ReleaseCalled in every use: if none is turned away, release_fun has been called exactly
\* once when a waiter is official and when its call has come back.
THEOREM ReleasedOnce == Spec => []ReleaseCalled
<1> DEFINE Inv == TypeInv /\ BoundInv /\ ReleaseInv
<1>1. Init => Inv
  BY TypeInit, ReleaseInit
<1>2. Inv /\ [Next]_vars => Inv'
  BY TypeStep, BoundStep, ReleaseStep
<1>3. Inv => ReleaseCalled
  BY DEF ReleaseInv, ReleaseCalled, Called, Unreleased, At
<1> QED
  BY <1>1, <1>2, <1>3, PTL DEF Spec

-----------------------------------------------------------------------------
(* The slots of the spinners                                               *)

\* The locations of a waiter whose slot is not 0, and those after a timeout of its spinning.
Holding == Owning \cup {"spin_leave", "refused_slot"}
GivingUp == {"spin_giveup", "giveup_uncount", "giveup_slot"}

\* The steps of a waiter that leave the slots alone, that take one, and that give one back.
Keeps(w) ==
  /\ spin_list' = spin_list /\ (wait'[w].at \in Holding <=> At(w) \in Holding)
  /\ At(w) \in Holding => wait'[w].slot = wait[w].slot
Takes(w) ==
  /\ At(w) \notin Holding /\ wait'[w].at \in Holding /\ wait'[w].slot = wait[w].slot
  /\ wait[w].slot \in Slot /\ spin_list[wait[w].slot] = 0
  /\ spin_list' = [spin_list EXCEPT ![wait[w].slot] = 1]
Gives(w) ==
  /\ At(w) \in Holding /\ wait'[w].at \notin Holding
  /\ spin_list' = [spin_list EXCEPT ![wait[w].slot] = 0]

\* Where no call times out, a step of a waiter is one of these.
LEMMA SlotSteps ==
  ASSUME WaitType, NEW w \in Waiter, Steps(w), Untimed, At(w) \notin GivingUp
  PROVE  (Keeps(w) \/ Takes(w) \/ Gives(w)) /\ wait'[w].at \notin GivingUp
<1> USE DEF Holding, GivingUp
<1>0. Typed /\ w \in Waiter /\ num_waiting \in Int /\ payload \in 0 .. MaxRounds
      /\ rounds \in 0 .. MaxRounds /\ release(w) \in Nat
  BY DEF WaitType, release
<1>a. SpinListSz \in Nat /\ wait[w].slot \in 0 .. SpinListSz + 1
  BY DEF WaitType, Typed, Fits, WaitLocal
<1>1. CASE wait_start(w)
  BY <1>0, <1>1, StartMoves, IsPlace DEF wait_start, Keeps, Takes, Gives, Owning, Moved, Only, At,
      shared, Untimed
<1>2. CASE _bcast_wait_on_triggering(w)
  BY <1>0, <1>2, GotoMoves, IsPlace DEF _bcast_wait_on_triggering, Keeps, Takes, Gives, Owning,
      Moved, Only, At, shared, Untimed
<1>3. CASE gate_timeout(w)
  BY <1>0, <1>3, ReturnMoves, IsPlace DEF gate_timeout, release, Keeps, Takes, Gives, Owning,
      Moved, Only, At, shared, Untimed
<1>4. CASE spin_slot(w)
  <2>1. 1 \in 0 .. SpinListSz + 1
    BY <1>a
  <2> QED
    BY <1>0, <1>4, <2>1, SlotMoves, IsPlace DEF spin_slot, Keeps, Owning, Moved, Only, At
<1>5. CASE spin_find(w)
  <2> DEFINE i == wait[w].slot
  <2>1. i \in Slot => i + 1 \in 0 .. SpinListSz + 1
    BY <1>a DEF Slot
  <2>2. At(w) = "spin_find"
    BY <1>5 DEF spin_find
  <2>3. CASE available(i) /\ spin_list' = [spin_list EXCEPT ![i] = 1] /\ Goto(w, "spin_count")
    BY <1>0, <2>2, <2>3, GotoMoves, IsPlace DEF Takes, available, Owning, Moved, Only, At
  <2>4. CASE i \in Slot /\ GotoSlot(w, "spin_find", i + 1) /\ UNCHANGED spin_list
    BY <1>0, <2>1, <2>2, <2>4, SlotMoves, IsPlace DEF Keeps, Owning, Moved, Only, At
  <2>5. CASE GotoSlot(w, "idle_count", 0) /\ UNCHANGED spin_list
    BY <1>0, <1>a, <2>2, <2>5, SlotMoves, IsPlace DEF Keeps, Owning, Moved, Only, At
  <2> QED
    BY <1>5, <2>3, <2>4, <2>5 DEF spin_find
<1>6. CASE spin_count(w)
  BY <1>0, <1>6, CountedMoves, IsPlace DEF spin_count, count, unlock_no_sync, Keeps, Takes, Gives,
      Owning, Moved, Only, At, shared, Untimed
<1>7. CASE idle_count(w)
  BY <1>0, <1>7, CountedMoves, IsPlace DEF idle_count, count, can_lock, Keeps, Takes, Gives,
      Owning, Moved, Only, At, shared, Untimed
<1>8. CASE refused(w)
  BY <1>0, <1>8, GotoMoves, ReturnMoves, IsPlace DEF refused, Keeps, Takes, Gives, Owning, Moved,
      Only, At, shared, Untimed
<1>9. CASE entered(w)
  BY <1>0, <1>9, ReleasedMoves, IsPlace DEF entered, Keeps, Takes, Gives, Owning, Moved, Only, At,
      shared, Untimed
<1>10. CASE idle_ticket(w)
  BY <1>0, <1>10, GotoMoves, IsPlace DEF idle_ticket, Keeps, Takes, Gives, Owning, Moved, Only,
      At, shared, Untimed
<1>11. CASE idle_miss(w)
  BY <1>0, <1>11, GotoMoves, IsPlace DEF idle_miss, Keeps, Takes, Gives, Owning, Moved, Only, At,
      shared, Untimed
<1>12. CASE idle_sleep(w)
  BY <1>0, <1>12, GotoMoves, IsPlace DEF idle_sleep, Keeps, Takes, Gives, Owning, Moved, Only, At,
      shared, Untimed
<1>13. CASE idle_wake(w)
  BY <1>0, <1>13, GotoMoves, IsPlace DEF idle_wake, AfterSleep, Keeps, Takes, Gives, Owning,
      Moved, Only, At, shared, Untimed
<1>14. CASE idle_timeout(w)
  BY <1>0, <1>14, GotoMoves, ReturnMoves, IsPlace DEF idle_timeout, Keeps, Takes, Gives, Owning,
      Moved, Only, At, shared, Untimed
<1>15. CASE relock(w)
  BY <1>0, <1>15, ReturnMoves, IsPlace DEF relock, Keeps, Takes, Gives, Owning, Moved, Only, At,
      shared, Untimed
<1>16. CASE spin_exit(w)
  BY <1>0, <1>16, GotoMoves, IsPlace DEF spin_exit, Keeps, Takes, Gives, Owning, Moved, Only, At,
      shared, Untimed
<1>17. CASE spin_timeout(w)
  BY <1>0, <1>17, GotoMoves, IsPlace DEF spin_timeout, Keeps, Takes, Gives, Owning, Moved, Only,
      At, shared, Untimed
<1>18. CASE spin_giveup(w)
  BY <1>0, <1>18, GotoMoves, IsPlace DEF spin_giveup, Keeps, Takes, Gives, Owning, Moved, Only,
      At, shared, Untimed
<1>19. CASE spin_adapt(w)
  BY <1>0, <1>19, GotoMoves, IsPlace DEF spin_adapt, Keeps, Takes, Gives, Owning, Moved, Only, At,
      shared, Untimed
<1>20. CASE clear_slot(w)
  BY <1>0, <1>20, GotoMoves, ReturnMoves, IsPlace DEF clear_slot, Keeps, Takes, Gives, Owning,
      Moved, Only, At, shared, Untimed
<1>21. CASE spin_uncount(w)
  <2>1. spin_list' = spin_list
    BY <1>21, Uncounts
  <2>2. CASE At(w) = "refused_uncount" /\ Return(w, release(w))
    BY <1>0, <2>1, <2>2, ReturnMoves, IsPlace DEF Keeps, Owning, Moved, Only, At
  <2>3. CASE At(w) = "left_uncount" /\ Goto(w, "pickup")
    BY <1>0, <2>1, <2>3, GotoMoves, IsPlace DEF Keeps, Owning, Moved, Only, At
  <2>4. CASE At(w) = "adapt_uncount" /\ Goto(w, "idle")
    BY <1>0, <2>1, <2>4, GotoMoves, IsPlace DEF Keeps, Owning, Moved, Only, At
  <2> QED
    BY <1>21, <2>2, <2>3, <2>4, Uncounts
<1>22. CASE pickup(w)
  BY <1>0, <1>22, PaidMoves, ReturnMoves, IsPlace DEF pickup, Keeps, Takes, Gives, Owning, Moved,
      Only, At, shared, Untimed
<1>23. CASE leave(w)
  BY <1>0, <1>23, GotoMoves, IsPlace DEF leave, Keeps, Takes, Gives, Owning, Moved, Only, At,
      shared, Untimed
<1>24. CASE done(w)
  BY <1>0, <1>24, ReturnMoves, IsPlace DEF done, Keeps, Takes, Gives, Owning, Moved, Only, At,
      shared, Untimed
<1> QED
  BY <1>1, <1>2, <1>3, <1>4, <1>5, <1>6, <1>7, <1>8, <1>9, <1>10, <1>11, <1>12, <1>13, <1>14,
      <1>15, <1>16, <1>17, <1>18, <1>19, <1>20, <1>21, <1>22, <1>23, <1>24 DEF Steps, WaitStep,
      TakesLock, Chance

\* The slots that a dead waiter has left behind: not 0, and nobody's.
Orphans == {i \in Slot : spin_list[i] # 0 /\ \A w \in Waiter : At(w) \in Holding => wait[w].slot # i}

\* Every waiter that holds a slot holds one of its own, and spin_list_count covers the
\* spinners and the slots left behind.
SlotInv ==
  Untimed =>
    /\ \A w \in Waiter : At(w) \notin GivingUp
    /\ \A w \in Waiter : At(w) \in Holding => wait[w].slot \in Slot /\ spin_list[wait[w].slot] # 0
    /\ \A v, w \in Waiter : At(v) \in Holding /\ At(w) \in Holding /\ v # w =>
                              wait[v].slot # wait[w].slot
    /\ Cardinality(Orphans) + Cardinality(In(Slotted)) <= spin_list_count

\* There are finitely many slots.
LEMMA OrphansFinite ==
  ASSUME Fits
  PROVE  IsFiniteSet(Slot) /\ IsFiniteSet(Orphans) /\ Cardinality(Orphans) \in Nat
<1>1. IsFiniteSet(Slot)
  BY FS_Interval DEF Fits, Slot
<1>2. IsFiniteSet(Orphans)
  BY <1>1, FS_Subset DEF Orphans
<1> QED
  BY <1>1, <1>2, FS_CardinalityType

\* At first all slots are 0.
LEMMA SlotInit == ASSUME Init PROVE SlotInv
<1>1. NotWaiting.at = "out"
  BY DEF NotWaiting, Waiting
<1> HIDE DEF NotWaiting
<1>2. \A w \in Waiter : At(w) = "out"
  BY <1>1 DEF Init, At
<1>3. Orphans = {} /\ In(Slotted) = {}
  BY <1>2 DEF Init, Orphans, In, Slotted, Owning
<1> QED
  BY <1>2, <1>3, FS_EmptySet DEF SlotInv, Init, Holding, GivingUp, Owning

\* Every step keeps the slots apart.
LEMMA SlotStep == ASSUME TypeInv, SlotInv, [Next]_vars PROVE SlotInv'
<1>1. Same /\ Fits /\ Typed /\ WaitType /\ spin_list \in [Slot -> {0, 1, 2}] /\ spin_list_count \in Int
  BY Kinds, TypeHas DEF TypeInv
<1> SUFFICES ASSUME Untimed PROVE SlotInv'
  BY <1>1 DEF SlotInv, Untimed, Same
<1> DEFINE H(w) == At(w) \in Holding
           slot(w) == wait[w].slot
<1>2. /\ \A w \in Waiter : At(w) \notin GivingUp
      /\ \A w \in Waiter : H(w) => slot(w) \in Slot /\ spin_list[slot(w)] # 0
      /\ \A v, w \in Waiter : H(v) /\ H(w) /\ v # w => slot(v) # slot(w)
      /\ Cardinality(Orphans) + Cardinality(In(Slotted)) <= spin_list_count
  BY DEF SlotInv
<1>3. /\ Cardinality(Orphans) \in Nat /\ IsFiniteSet(Orphans)
      /\ Cardinality(In(Slotted)) \in Nat
  BY <1>1, OrphansFinite, InFinite
<1>4. Slot' = Slot /\ Waiter' = Waiter
  BY <1>1 DEF Slot, Same
<1>5. ASSUME \A w \in Waiter : At(w)' \notin GivingUp,
             \A w \in Waiter : H(w)' => slot(w)' \in Slot /\ spin_list'[slot(w)'] # 0,
             \A v, w \in Waiter : H(v)' /\ H(w)' /\ v # w => slot(v)' # slot(w)',
             Cardinality(Orphans)' + Cardinality(In(Slotted))' <= spin_list_count'
      PROVE  SlotInv'
  BY <1>4, <1>5 DEF SlotInv
<1>6. ASSUME NEW w \in Waiter, Steps(w), WaitEffect(w)
      PROVE  SlotInv'
  <2>1. PICK l \in Alive : Effect(w, l)
    BY <1>6 DEF WaitEffect
  <2>2. /\ Only(w, l) /\ At(w)' = l /\ spin_list_count' \in Int
        /\ spin_list_count' + Is(At(w), Slotted) = spin_list_count + Is(l, Slotted)
    BY <2>1 DEF Effect, Follow, Only, Written, At
  <2>3. \A x \in Waiter \ {w} : wait'[x] = wait[x]
    BY <2>2 DEF Only
  <2>4. /\ Cardinality(In(Slotted))' + Is(At(w), Slotted) = Cardinality(In(Slotted)) + Is(l, Slotted)
        /\ Cardinality(In(Slotted))' \in Nat
    BY <1>1, <2>2, InStep DEF Same
  <2>5. (Keeps(w) \/ Takes(w) \/ Gives(w)) /\ At(w)' \notin GivingUp
    BY <1>1, <1>2, <1>6, SlotSteps DEF At
  <2>6. \A x \in Waiter : At(x)' \notin GivingUp
    BY <1>2, <2>3, <2>5 DEF At
  <2>7. /\ \A x \in Waiter : H(x)' => slot(x)' \in Slot /\ spin_list'[slot(x)'] # 0
        /\ \A v, x \in Waiter : H(v)' /\ H(x)' /\ v # x => slot(v)' # slot(x)'
        /\ Orphans' \subseteq Orphans
    <3>1. CASE Keeps(w)
      <4>1. \A x \in Waiter : (H(x)' <=> H(x)) /\ (H(x) => slot(x)' = slot(x))
        BY <2>3, <3>1 DEF Keeps, At
      <4> QED
        BY <1>2, <1>4, <3>1, <4>1 DEF Keeps, Orphans
    <3>2. CASE Takes(w)
      <4> DEFINE i == wait[w].slot
      <4>1. /\ ~H(w) /\ H(w)' /\ slot(w)' = i /\ i \in Slot /\ spin_list[i] = 0
            /\ spin_list' = [spin_list EXCEPT ![i] = 1]
        BY <3>2 DEF Takes, At
      <4>2. \A x \in Waiter \ {w} : (H(x)' <=> H(x)) /\ slot(x)' = slot(x)
        BY <2>3 DEF At
      <4>3. \A x \in Waiter \ {w} : H(x) => slot(x) # i
        BY <1>2, <4>1
      <4> HIDE DEF H, slot, i
      <4>4. \A k \in Slot : spin_list'[k] = IF k = i THEN 1 ELSE spin_list[k]
        BY <1>1, <4>1
      <4>5. Orphans' \subseteq Orphans
        BY <1>4, <4>1, <4>2, <4>4 DEF Orphans, H, slot
      <4> QED
        BY <1>2, <4>1, <4>2, <4>3, <4>4, <4>5
    <3>3. CASE Gives(w)
      <4> DEFINE i == wait[w].slot
      <4>1. /\ H(w) /\ ~H(w)' /\ i = slot(w) /\ spin_list' = [spin_list EXCEPT ![i] = 0]
        BY <3>3 DEF Gives, At
      <4>2. \A x \in Waiter \ {w} : (H(x)' <=> H(x)) /\ slot(x)' = slot(x)
        BY <2>3 DEF At
      <4>3. i \in Slot /\ \A x \in Waiter \ {w} : H(x) => slot(x) # i
        BY <1>2, <4>1
      <4> HIDE DEF H, slot, i
      <4>4. \A k \in Slot : spin_list'[k] = IF k = i THEN 0 ELSE spin_list[k]
        BY <1>1, <4>1, <4>3
      <4>5. Orphans' \subseteq Orphans
        BY <1>4, <4>1, <4>2, <4>4 DEF Orphans, H, slot
      <4> QED
        BY <1>2, <4>1, <4>2, <4>3, <4>4, <4>5
    <3> QED
      BY <2>5, <3>1, <3>2, <3>3
  <2>8. Cardinality(Orphans') \in Nat /\ Cardinality(Orphans') <= Cardinality(Orphans)
    BY <1>3, <2>7, FS_Subset, FS_CardinalityType
  <2>9. Cardinality(Orphans)' + Cardinality(In(Slotted))' <= spin_list_count'
    <3>1. Is(At(w), Slotted) \in {0, 1} /\ Is(l, Slotted) \in {0, 1}
      BY DEF Is
    <3> QED
      BY <1>1, <1>2, <1>3, <2>2, <2>4, <2>8, <3>1
  <2> QED
    BY <1>5, <2>6, <2>7, <2>9
<1>7. ASSUME NEW w \in Waiter, Dies(w)
      PROVE  SlotInv'
  <2>1. /\ Only(w, "dead") /\ spin_list_count' = spin_list_count /\ spin_list' = spin_list
        /\ At(w) \in {"spin", "asleep"} /\ At(w)' = "dead"
    BY <1>7 DEF Dies, shared, Only, At
  <2>2. \A x \in Waiter \ {w} : wait'[x] = wait[x]
    BY <2>1 DEF Only
  <2>3. /\ Cardinality(In(Slotted))' + Is(At(w), Slotted) = Cardinality(In(Slotted)) + Is("dead", Slotted)
        /\ Cardinality(In(Slotted))' \in Nat
    BY <1>1, <2>1, InStep DEF Same
  <2>4. \A x \in Waiter : At(x)' \notin GivingUp
    BY <1>2, <2>1, <2>2 DEF At, GivingUp
  <2>5. ~H(w)'
    BY <2>1 DEF Holding, Owning
  <2>6. \A x \in Waiter : H(x)' => H(x) /\ slot(x)' = slot(x)
    BY <2>2, <2>5 DEF At
  <2>7. /\ \A x \in Waiter : H(x)' => slot(x)' \in Slot /\ spin_list'[slot(x)'] # 0
        /\ \A v, x \in Waiter : H(v)' /\ H(x)' /\ v # x => slot(v)' # slot(x)'
    BY <1>2, <2>1, <2>6
  <2>8. CASE At(w) = "asleep"
    <3>1. \A x \in Waiter : (H(x)' <=> H(x)) /\ (H(x) => slot(x)' = slot(x))
      BY <2>2, <2>5, <2>8 DEF At, Holding, Owning
    <3>2. Orphans' = Orphans
      BY <1>4, <2>1, <3>1 DEF Orphans
    <3>3. Is(At(w), Slotted) = 0 /\ Is("dead", Slotted) = 0
      BY <2>8 DEF Is, Slotted, Owning
    <3>4. Cardinality(Orphans)' + Cardinality(In(Slotted))' <= spin_list_count'
      BY <1>1, <1>2, <1>3, <2>1, <2>3, <3>2, <3>3
    <3> QED
      BY <1>5, <2>4, <2>7, <3>4
  <2>9. CASE At(w) = "spin"
    <3>1. Orphans' \subseteq Orphans \cup {slot(w)}
      BY <1>4, <2>1, <2>2 DEF Orphans, At
    <3>2. IsFiniteSet(Orphans \cup {slot(w)}) /\ Cardinality(Orphans \cup {slot(w)}) <= Cardinality(Orphans) + 1
          /\ Cardinality(Orphans \cup {slot(w)}) \in Nat
      <4> HIDE DEF slot
      <4>1. IsFiniteSet(Orphans \cup {slot(w)})
            /\ Cardinality(Orphans \cup {slot(w)})
                 = IF slot(w) \in Orphans THEN Cardinality(Orphans) ELSE Cardinality(Orphans) + 1
        BY <1>3, FS_AddElement
      <4> QED
        BY <1>3, <4>1
    <3>3. Cardinality(Orphans') \in Nat /\ Cardinality(Orphans') <= Cardinality(Orphans) + 1
      BY <1>3, <3>1, <3>2, FS_Subset, FS_CardinalityType
    <3>4. Is(At(w), Slotted) = 1 /\ Is("dead", Slotted) = 0
      BY <2>9 DEF Is, Slotted, Owning
    <3>5. Cardinality(Orphans)' + Cardinality(In(Slotted))' <= spin_list_count'
      BY <1>1, <1>2, <1>3, <2>1, <2>3, <3>3, <3>4
    <3> QED
      BY <1>5, <2>4, <2>7, <3>5
  <2> QED
    BY <2>1, <2>8, <2>9
<1>8. ASSUME wait' = wait, spin_list_count' = spin_list_count,
             \A i \in Slot : spin_list'[i] = 0 <=> spin_list[i] = 0
      PROVE  SlotInv'
  <2>1. \A x \in Waiter : At(x)' = At(x) /\ slot(x)' = slot(x)
    BY <1>8 DEF At
  <2>2. Orphans' = Orphans
    BY <1>4, <1>8, <2>1 DEF Orphans
  <2>3. In(Slotted)' = In(Slotted)
    BY <1>4, <1>8, InSame
  <2> QED
    BY <1>2, <1>5, <1>8, <2>1, <2>2, <2>3
<1>9. ASSUME NEW t \in Triggerer, TSteps(t), TrigEffect(t)
      PROVE  SlotInv'
  <2>1. wait' = wait /\ spin_list_count' = spin_list_count
    BY <1>9 DEF TrigEffect, TFrame
  <2>2. \A i \in Slot : spin_list'[i] = 0 <=> spin_list[i] = 0
    <3>1. CASE trig_scan(t)
      <4> DEFINE i == trig[t].idx
      <4>1. spin_list' = spin_list \/ (spin_list[i] = 1 /\ spin_list' = [spin_list EXCEPT ![i] = 2])
        BY <3>1, Zenon DEF trig_scan
      <4> QED
        BY <1>1, <4>1
    <3>2. CASE ~trig_scan(t)
      BY <1>9, <3>2 DEF TSteps, TrigStep, trig_lock, trig_timeout, trig_count, trig_payload, trig_begin,
              trig_allow, _trigger_completion, _check_pids, trig_shutdown, shared
    <3> QED
      BY <3>1, <3>2
  <2> QED
    BY <1>8, <2>1, <2>2
<1>10. ASSUME NEW t \in Triggerer, Begins(t)
       PROVE  SlotInv'
  BY <1>8, <1>10 DEF Begins, shared
<1>11. ASSUME reset \/ destroy_start \/ destroy_free \/ UNCHANGED vars
       PROVE  SlotInv'
  BY <1>8, <1>11 DEF reset, destroy_start, destroy_free, vars, shared
<1> QED
  BY <1>6, <1>7, <1>9, <1>10, <1>11, Kinds

\* There are no more slots in use than spinners and slots left behind.
LEMMA SlotsCovered ==
  ASSUME Typed
  PROVE  Cardinality({i \in Slot : spin_list[i] # 0}) <= Cardinality(Orphans) + Cardinality(In(Slotted))
<1> DEFINE U == {i \in Slot : spin_list[i] # 0}
           h == [w \in In(Holding) |-> wait[w].slot]
           R == {h[w] : w \in In(Holding)}
<1>1. Fits
  BY DEF Typed
<1>2. /\ IsFiniteSet(Orphans) /\ Cardinality(Orphans) \in Nat
      /\ IsFiniteSet(In(Holding)) /\ Cardinality(In(Holding)) \in Nat
      /\ IsFiniteSet(In(Slotted)) /\ Cardinality(In(Slotted)) \in Nat
  BY <1>1, OrphansFinite, InFinite
<1>3. U \subseteq Orphans \cup R
  BY DEF Orphans, In
<1>4. h \in Surjection(In(Holding), R)
  BY DEF Surjection
<1> HIDE DEF h, R, U
<1>5. IsFiniteSet(R) /\ Cardinality(R) <= Cardinality(In(Holding)) /\ Cardinality(R) \in Nat
  BY <1>2, <1>4, FS_Surjection, FS_CardinalityType
<1>6. /\ IsFiniteSet(Orphans \cup R) /\ Cardinality(Orphans \cup R) \in Nat
      /\ Cardinality(Orphans \cup R) <= Cardinality(Orphans) + Cardinality(R)
  <2>1. /\ IsFiniteSet(Orphans \cup R)
        /\ Cardinality(Orphans \cup R)
             = Cardinality(Orphans) + Cardinality(R) - Cardinality(Orphans \cap R)
    BY <1>2, <1>5, FS_Union
  <2>2. Cardinality(Orphans \cap R) \in Nat /\ Cardinality(Orphans \cup R) \in Nat
    BY <1>2, <2>1, FS_Intersection, FS_CardinalityType
  <2> QED
    BY <1>2, <1>5, <2>1, <2>2
<1>7. Cardinality(U) <= Cardinality(Orphans \cup R) /\ Cardinality(U) \in Nat
  BY <1>3, <1>6, FS_Subset, FS_CardinalityType
<1>8. In(Holding) \subseteq In(Slotted)
  BY DEF In, Holding, Slotted
<1>9. Cardinality(In(Holding)) <= Cardinality(In(Slotted))
  BY <1>2, <1>8, FS_Subset
<1>10. Cardinality(U) <= Cardinality(Orphans) + Cardinality(In(Slotted))
  BY <1>2, <1>5, <1>6, <1>7, <1>9
<1> QED
  BY <1>10 DEF U

\* SlotsOwned in every use, deaths included: where no call times out, no two spinners share a
\* slot, none is cleared under its owner, and a trigger that stops after spin_list_count
\* spinners has not stopped too early.
THEOREM SlotsApart == Spec => []SlotsOwned
<1> DEFINE Inv == TypeInv /\ SlotInv
<1>1. Init => Inv
  BY TypeInit, SlotInit
<1>2. Inv /\ [Next]_vars => Inv'
  BY TypeStep, SlotStep
<1>3. Inv => SlotsOwned
  <2> SUFFICES ASSUME TypeInv, SlotInv, Untimed PROVE SlotsOwned
    BY DEF SlotsOwned
  <2>1. Typed /\ Fits /\ spin_list_count \in Int
    BY TypeHas DEF TypeInv
  <2>2. /\ Cardinality(Orphans) + Cardinality(In(Slotted)) <= spin_list_count
        /\ Cardinality(Orphans) \in Nat /\ Cardinality(In(Slotted)) \in Nat
    BY <2>1, OrphansFinite, InFinite DEF SlotInv
  <2> DEFINE U == {i \in Slot : spin_list[i] # 0}
  <2>3. IsFiniteSet(U)
    BY <2>1, OrphansFinite, FS_Subset
  <2>4. Cardinality(U) \in Nat /\ Cardinality(U) <= Cardinality(Orphans) + Cardinality(In(Slotted))
    BY <2>1, <2>3, SlotsCovered, FS_CardinalityType
  <2>5. spin_list_count >= Cardinality(U)
    BY <2>1, <2>2, <2>4
  <2>6. \A w \in Waiter : At(w) \in Owning => At(w) \in Holding
    BY DEF Holding
  <2>7. \A v \in Waiter : At(v) \in Owning \cup {"spin_leave", "refused_slot", "giveup_slot"} =>
          At(v) \in Holding
    BY DEF SlotInv, Holding, GivingUp
  <2> QED
    BY <2>5, <2>6, <2>7 DEF SlotInv, SlotsOwned
<1> QED
  BY <1>1, <1>2, <1>3, PTL DEF Spec
=============================================================================
