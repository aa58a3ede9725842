---------------------------- MODULE DDictCheckpoint ----------------------------
(***************************************************************************)
(* Checkpoints and the working set of a manager of the distributed         *)
(* dictionary (data/ddict/manager.py), as operators. A checkpoint holds    *)
(* values for some keys and marks keys that older checkpoints hold as      *)
(* deleted. A read looks for the newest checkpoint, up to the one asked    *)
(* for, that holds the key or marks it; when the oldest checkpoint retires *)
(* its successor takes over what it does not hold itself.                  *)
(***************************************************************************)
EXTENDS Integers, Sequences, FiniteSets, TLC

CONSTANT Key

ASSUME KeyAssumption == IsFiniteSet(Key)

\* Values are named by positive numbers, no two puts storing the same one.
NoVal == 0   \* the key is not in the map
Torn  == -1  \* the key is in the map and its list of values has been emptied

\* How a checkpoint marks a key as deleted: with its own key memory, with the
\* key memory of an older checkpoint, or with key memory that has been freed,
\* in which case comparing with the mark raises an exception.
Unmarked == [k \in Key |-> "none"]

\* mem names the key memory of a key, by the put that allocated it.
NewCheckpoint ==
    [map |-> [k \in Key |-> NoVal], mem |-> [k \in Key |-> NoVal], mark |-> Unmarked,
     persist |-> {}, writers |-> {}]

Held(ck)    == {k \in Key : ck.map[k] # NoVal}
Deleted(ck) == {k \in Key : ck.mark[k] # "none"}
Freed(ck)   == {k \in Key : ck.mark[k] = "freed"}

\* A working set: its checkpoints, the id of the next one, how many it holds,
\* and the checkpoints whose retire threads have not run yet.
NewWorkingSet(start, size) ==
    [chk |-> [i \in start .. (start + size - 1) |-> NewCheckpoint],
     next |-> start + size, size |-> size, ret |-> <<>>]

Oldest(ws) == ws.next - ws.size
Newest(ws) == ws.next - 1
Live(ws)   == Oldest(ws) .. Newest(ws)
Upto(ws, x) == Oldest(ws) .. (IF x < Newest(ws) THEN x ELSE Newest(ws))

------------------------------------------------------------------------------
(* Retiring the oldest checkpoint p in favour of its successor c. *)

\* Mutant of Inherited: a key deleted in the successor comes back.
InheritDeleted(p, c) == {k \in Held(p) : k \notin Held(c)}

Inherited(p, c) == {k \in Held(p) : k \notin Held(c) /\ k \notin Deleted(c)}

Heir(p, c, wait) ==
    [c EXCEPT !.map = [k \in Key |-> IF k \in Inherited(p, c) THEN p.map[k] ELSE @[k]],
              !.mem = [k \in Key |-> IF k \in Inherited(p, c) THEN p.mem[k] ELSE @[k]],
              !.persist = IF wait THEN @ \cup Inherited(p, c) ELSE @,
              !.mark = Unmarked]

\* With wait_for_keys every non-persistent key must have been written again,
\* with wait_for_writers every writer must have come along.
MayRetire(p, c, u) ==
    /\ u.wait => (Held(p) \ p.persist) \ ((Held(c) \ c.persist) \ p.persist) = {}
    /\ u.writers => p.writers \subseteq c.writers

\* Looking a key of p up among the marks of c meets one that has been freed.
RetireRaises(p, c) == (Held(p) \ Held(c)) \cap Freed(c) # {}

\* The successor of the oldest checkpoint: a new one if there is no other.
Successor(ws) ==
    IF ws.size = 1 THEN NewCheckpoint ELSE ws.chk[Oldest(ws) + 1]

CanAdvance(ws, u) == MayRetire(ws.chk[Oldest(ws)], Successor(ws), u)

Advance(ws, u) ==
    LET o == Oldest(ws)
        p == ws.chk[o]
        c == Successor(ws)
    IN  [ws EXCEPT
            !.chk = [i \in (o + 1) .. ws.next |->
                        IF i = o + 1 THEN Heir(p, c, u.wait)
                        ELSE IF i = ws.next THEN NewCheckpoint ELSE ws.chk[i]],
            !.next = @ + 1,
            !.ret = Append(@, [id |-> o, ck |-> p, clear |-> Held(p) \ Inherited(p, c),
                               broken |-> FALSE, void |-> FALSE])]

\* Advance as far as checkpoint x, or as far as is possible.
AdvanceOnce(ws, x, u) ==
    IF /\ x > Newest(ws)
       /\ CanAdvance(ws, u)
       /\ ~RetireRaises(ws.chk[Oldest(ws)], Successor(ws))
    THEN Advance(ws, u) ELSE ws

AdvanceTo(ws, x, u) ==
    LET go[n \in 0 .. (x + 1)] == IF n = 0 THEN ws ELSE AdvanceOnce(go[n - 1], x, u)
    IN  go[x + 1]

\* WorkingSet.put and WorkingSet.access: the working set after the call, and
\* whether the checkpoint is there, is still to come, or is an exception.
Reached(ws, x, u, retired) ==
    [ws |-> ws,
     st |-> IF retired THEN "retired"
            ELSE IF x <= Newest(ws) THEN "at"
            ELSE IF CanAdvance(ws, u) THEN "raise" ELSE "wait"]

Reach(ws, x, u) == Reached(AdvanceTo(ws, x, u), x, u, x < Oldest(ws))

------------------------------------------------------------------------------
(* Reading. *)

Sources(ws, x, k) ==
    {i \in Upto(ws, x) : k \in Held(ws.chk[i]) \/ k \in Deleted(ws.chk[i])}

Source(ws, x, k) ==
    CHOOSE i \in Sources(ws, x, k) : \A j \in Sources(ws, x, k) : j <= i

At(i)   == [st |-> "at", at |-> i]
Not(st) == [st |-> st, at |-> 0]

\* Checkpoint s is where the key, or its mark, was found.
FoundAt(chk, x, k, s, u) ==
    IF k \in Held(chk[s])
    THEN IF u.wait /\ k \notin chk[s].persist /\ x > s THEN Not("wait") ELSE At(s)
    ELSE IF k \in Freed(chk[s]) THEN Not("raise") ELSE At(s)

\* WorkingSet.get: the checkpoint to look the key up in, if there is one yet.
\* queued says that requests for checkpoint x have been deferred.
Lookup(ws, x, k, u, queued) ==
    IF x < Oldest(ws) THEN Not("retired")
    ELSE IF /\ x > Newest(ws)
            /\ k \notin ws.chk[Oldest(ws)].persist
            /\ queued \/ u.wait
         THEN Not("wait")
    ELSE IF Sources(ws, x, k) # {} THEN FoundAt(ws.chk, x, k, Source(ws, x, k), u)
    ELSE IF x <= Newest(ws) THEN IF u.wait THEN Not("wait") ELSE At(x)
    ELSE At(Oldest(ws))

\* What a read of key k at a live checkpoint x finds.
ValueAt(ws, k, l) == IF l.st = "at" THEN ws.chk[l.at].map[k] ELSE NoVal
View(ws, x, k, u) == ValueAt(ws, k, Lookup(ws, x, k, u, FALSE))

\* WorkingSet.keys: the keys of checkpoint x.
Offered(ck, u) == IF u.wait THEN ck.persist ELSE Held(ck)

Listed(ws, x, k, u, j) ==
    \E i \in Upto(ws, x) :
        /\ i < j /\ k \in Offered(ws.chk[i], u)
        /\ \A d \in Upto(ws, x) : i < d /\ d < j => k \notin Deleted(ws.chk[d])

KeysOf(ws, x, u) ==
    {k \in Key : \/ Listed(ws, x, k, u, ws.next)
                 \/ x <= Newest(ws) /\ k \in Held(ws.chk[x])}

KeysRaise(ws, x, u) ==
    \E j \in Upto(ws, x) : \E k \in Freed(ws.chk[j]) : Listed(ws, x, k, u, j)

\* WorkingSet._items: a key that is deleted after it was listed is an exception.
ItemsRaise(ws, x, u) ==
    \E j \in Upto(ws, x) :
        \/ Freed(ws.chk[j]) # {}
        \/ \E k \in Deleted(ws.chk[j]) : \E i \in Upto(ws, x) :
               i < j /\ k \in Offered(ws.chk[i], u)

------------------------------------------------------------------------------
(* Writing to checkpoint x of the working set. *)

\* A retiring checkpoint shares the key memory and the value lists that its
\* successor has taken over: emptying a list empties its own, and once memory
\* in it has been freed it cannot be written out.
Emptied(ret, vs) ==
    [i \in DOMAIN ret |->
        [ret[i] EXCEPT !.ck.map = [k \in Key |-> IF ret[i].ck.map[k] \in vs THEN Torn
                                                 ELSE ret[i].ck.map[k]]]]

Broken(ret, ms) ==
    [i \in DOMAIN ret |->
        [ret[i] EXCEPT !.broken = @ \/ \E k \in Held(ret[i].ck) :
                                          ret[i].ck.map[k] \in ms \/ ret[i].ck.mem[k] \in ms]]

Values(ck) == {ck.map[k] : k \in Key} \ {NoVal, Torn}
Memory(ck) == {ck.mem[k] : k \in Held(ck)}

\* PutOp._perform once it has its checkpoint. Meeting a freed mark is an
\* exception, after which the list of values is emptied.
PutIn(ck, k, v, p, c) ==
    LET freed == k \in Freed(ck)
    IN  [ck EXCEPT !.map[k] = IF freed THEN Torn ELSE v,
                   !.mem[k] = IF k \in Held(ck) THEN @ ELSE v,
                   !.persist = IF p THEN @ \cup {k} ELSE @,
                   !.mark[k] = IF freed THEN @ ELSE "none",
                   !.writers = IF freed THEN @ ELSE @ \cup {c}]

StorePut(ws, x, k, v, p, c) ==
    [ws EXCEPT !.ret = Emptied(@, {ws.chk[x].map[k]} \ {NoVal, Torn}),
               !.chk[x] = PutIn(@, k, v, p, c)]

\* Later checkpoints that marked these keys with the memory freed now.
FreeMarks(mark, ks) ==
    [k \in Key |-> IF k \in ks /\ mark[k] = "older" THEN "freed" ELSE mark[k]]

FreeKeys(ws, x, ks) ==
    [i \in Live(ws) |->
        IF i > x THEN [ws.chk[i] EXCEPT !.mark = FreeMarks(@, ks)] ELSE ws.chk[i]]

\* PopOp.perform for a key found in checkpoint s, and what sending the value
\* with its ownership does to that checkpoint.
PopOut(ck, k, c) ==
    LET persists == k \in ck.persist
    IN  [ck EXCEPT !.writers = @ \cup {c}, !.map[k] = NoVal, !.mem[k] = NoVal,
                   !.persist = @ \ {k}, !.mark[k] = IF persists THEN "own" ELSE @]

PopUnder(ck, k, c) == [ck EXCEPT !.writers = @ \cup {c}, !.mark[k] = "older"]

StorePop(ws, x, k, s, c) ==
    IF s < x
    THEN [ws EXCEPT !.chk[x] = PopUnder(@, k, c)]
    ELSE LET persists == k \in ws.chk[x].persist
             chk == IF persists THEN ws.chk ELSE FreeKeys(ws, x, {k})
             freed == {ws.chk[x].map[k]} \cup (IF persists THEN {} ELSE {ws.chk[x].mem[k]})
         IN  [ws EXCEPT !.ret = Broken(@, freed \ {Torn}),
                        !.chk = [chk EXCEPT ![x] = PopOut(@, k, c)]]

\* Checkpoint.clear.
StoreClear(ws, x) ==
    [ws EXCEPT !.ret = Emptied(Broken(@, Memory(ws.chk[x])), Values(ws.chk[x])),
               !.chk = [FreeKeys(ws, x, Held(ws.chk[x])) EXCEPT ![x] = NewCheckpoint]]

\* Checkpoint.retire, for entry i of the retiring checkpoints.
EndRetire(ws, i) ==
    LET e    == ws.ret[i]
        rest == SubSeq(ws.ret, 1, i - 1) \o SubSeq(ws.ret, i + 1, Len(ws.ret))
    IN  [ws EXCEPT !.ret = Emptied(Broken(rest, {e.ck.mem[k] : k \in e.clear}),
                                   {e.ck.map[k] : k \in e.clear} \ {Torn})]

\* WorkingSet.update_writer_checkpoint.
UpdateWriter(ws, c, x) ==
    LET older == Oldest(ws) .. ((IF x < Newest(ws) THEN x ELSE Newest(ws)) - 1)
    IN  IF \E i \in older : c \in ws.chk[i].writers
        THEN [ws EXCEPT !.chk = [i \in older |-> [ws.chk[i] EXCEPT !.writers = @ \cup {c}]] @@ @]
        ELSE ws

\* WorkingSet.clear_and_add_restored_chkpt. What is still retiring belongs to
\* the history that was given up.
StoreRestore(ws, x, ck) ==
    LET ret == Emptied(Broken(ws.ret, UNION {Memory(ws.chk[i]) : i \in Live(ws)}),
                       UNION {Values(ws.chk[i]) : i \in Live(ws)})
    IN
    [chk |-> (x :> ck) @@ [i \in x .. (x + ws.size - 1) |-> NewCheckpoint],
     next |-> x + ws.size, size |-> ws.size,
     ret |-> [i \in DOMAIN ret |-> [ret[i] EXCEPT !.void = TRUE]]]
================================================================================
