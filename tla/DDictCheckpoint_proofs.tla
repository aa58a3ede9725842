------------------------- MODULE DDictCheckpoint_proofs -------------------------
(***************************************************************************)
(* What clients read when the oldest checkpoint of a working set of the    *)
(* distributed dictionary retires, and when a key is put or popped, for    *)
(* any number of keys and checkpoints.                                     *)
(***************************************************************************)
EXTENDS DDictCheckpoint, WellFoundedInduction, TLAPS

\* The checkpoints that the clients of C can have written to.
Checkpoints(C) ==
    [map : [Key -> Int], mem : [Key -> Int], mark : [Key -> {"none", "own", "older", "freed"}],
     persist : SUBSET Key, writers : SUBSET C]

\* A working set with these checkpoints and retiring ones.
WorkingSet(chk, next, size, ret) == [chk |-> chk, next |-> next, size |-> size, ret |-> ret]

------------------------------------------------------------------------------
(* Reading. *)

\* A set of integers with an upper bound has a greatest member, so the lookup
\* of WorkingSet.get finds the newest checkpoint that has the key.
LEMMA Greatest ==
  ASSUME NEW a \in Int, NEW b \in Int, NEW S \in SUBSET (a .. b), S # {}
  PROVE  \E i \in S : \A j \in S : j <= i
<1> DEFINE T == {b - i : i \in S}
           R == {ss \in Nat \X Nat : ss[1] < ss[2]}
<1>1. IsWellFoundedOn(R, Nat)
  BY NatLessThanWellFounded DEF OpToRel
<1>2. T \subseteq Nat /\ T # {}
  <2>1. ASSUME NEW n \in T PROVE n \in Nat
    <3>1. PICK i \in S : n = b - i
      OBVIOUS
    <3>2. i \in a .. b
      OBVIOUS
    <3> QED
      BY <3>1, <3>2
  <2>2. PICK i \in S : TRUE
    OBVIOUS
  <2>3. b - i \in T
    OBVIOUS
  <2> QED
    BY <2>1, <2>3
<1>3. PICK m \in T : \A n \in T : ~ (<<n, m>> \in R)
  BY <1>1, <1>2, WFMin
<1>4. PICK i \in S : m = b - i
  BY <1>3
<1>5. ASSUME NEW j \in S PROVE j <= i
  <2>1. b - j \in T /\ m \in Nat /\ b - j \in Nat
    BY <1>2
  <2>2. ~ (b - j < m)
    BY <2>1, <1>3
  <2> QED
    BY <2>2, <1>4
<1> QED
  BY <1>5

\* The checkpoint that a lookup finds is the newest one with the key.
LEMMA NewestSource ==
  ASSUME NEW ws, NEW x \in Int, NEW k, Oldest(ws) \in Int, Newest(ws) \in Int, Sources(ws, x, k) # {}
  PROVE  /\ Source(ws, x, k) \in Sources(ws, x, k)
         /\ \A j \in Sources(ws, x, k) : j <= Source(ws, x, k)
<1> DEFINE b == IF x < Newest(ws) THEN x ELSE Newest(ws)
<1>1. Sources(ws, x, k) \in SUBSET (Oldest(ws) .. b) /\ b \in Int
  BY DEF Sources, Upto
<1>2. \E i \in Sources(ws, x, k) : \A j \in Sources(ws, x, k) : j <= i
  BY <1>1, Greatest
<1> QED
  BY <1>2 DEF Source

\* A checkpoint with the key and none with it after is the one that is found.
LEMMA SourceIs ==
  ASSUME NEW ws, NEW x \in Int, NEW k, Oldest(ws) \in Int, Newest(ws) \in Int,
         NEW s \in Sources(ws, x, k), \A j \in Sources(ws, x, k) : j <= s
  PROVE  Source(ws, x, k) = s
<1>1. Sources(ws, x, k) \subseteq Int
  BY DEF Sources, Upto
<1> QED
  BY <1>1, NewestSource

\* What checkpoint ck, in which the key was found, gives to a read; late says
\* that the read is at a later checkpoint.
Seen(ck, late, k, u) ==
    IF k \in Held(ck) /\ ~ (u.wait /\ k \notin ck.persist /\ late) THEN ck.map[k] ELSE NoVal

\* WorkingSet.get at a checkpoint that is there.
LEMMA ViewIs ==
  ASSUME NEW ws, NEW x \in Live(ws), NEW k \in Key, NEW u, Oldest(ws) \in Int, Newest(ws) \in Int
  PROVE  View(ws, x, k, u) =
            IF Sources(ws, x, k) = {} THEN NoVal
            ELSE LET s == Source(ws, x, k) IN Seen(ws.chk[s], x > s, k, u)
<1> DEFINE s == Source(ws, x, k)
<1>1. x \in Int /\ Oldest(ws) <= x /\ x <= Newest(ws) /\ x \in Upto(ws, x)
  BY DEF Live, Upto
<1>2. CASE Sources(ws, x, k) = {}
  <2>1. k \notin Held(ws.chk[x])
    BY <1>1, <1>2 DEF Sources
  <2>2. ws.chk[x].map[k] = NoVal
    BY <2>1 DEF Held
  <2> QED
    BY <1>1, <1>2, <2>2 DEF View, ValueAt, Lookup, At, Not
<1>3. CASE Sources(ws, x, k) # {}
  <2>1. View(ws, x, k, u) = ValueAt(ws, k, FoundAt(ws.chk, x, k, s, u))
    BY <1>1, <1>3 DEF View, Lookup
  <2>2. k \notin Held(ws.chk[s]) => ws.chk[s].map[k] = NoVal
    BY DEF Held
  <2> QED
    BY <1>3, <2>1, <2>2 DEF ValueAt, FoundAt, At, Not, Seen
<1> QED
  BY <1>2, <1>3

\* Two checkpoints have the same for a key.
SameFor(ck, cl, l) ==
    /\ l \in Held(ck) <=> l \in Held(cl)
    /\ l \in Deleted(ck) <=> l \in Deleted(cl)
    /\ ck.map[l] = cl.map[l]
    /\ l \in ck.persist <=> l \in cl.persist

\* Reads of key l up to checkpoint y depend on nothing but what the
\* checkpoints up to y have for it (WorkingSet.get).
LEMMA SameView ==
  ASSUME NEW o \in Int, NEW n \in Int, NEW y \in o .. n, NEW l \in Key, NEW u,
         NEW ws, Oldest(ws) = o, Newest(ws) = n,
         NEW wt, Oldest(wt) = o, Newest(wt) = n,
         \A i \in o .. y : SameFor(wt.chk[i], ws.chk[i], l)
  PROVE  View(wt, y, l, u) = View(ws, y, l, u)
<1>1. Upto(ws, y) = o .. y /\ Upto(wt, y) = o .. y /\ y \in Live(ws) /\ y \in Live(wt)
  BY DEF Upto, Live
<1>2. Sources(wt, y, l) = Sources(ws, y, l)
  BY <1>1 DEF Sources, SameFor
<1>3. Source(wt, y, l) = Source(ws, y, l)
  BY <1>2 DEF Source
<1>4. CASE Sources(ws, y, l) = {}
  BY <1>1, <1>2, <1>4, ViewIs
<1>5. CASE Sources(ws, y, l) # {}
  <2> DEFINE s == Source(ws, y, l)
  <2>1. s \in o .. y
    <3>1. s \in Sources(ws, y, l)
      BY <1>5, NewestSource
    <3> QED
      BY <1>1, <3>1 DEF Sources
  <2>2. Seen(wt.chk[s], y > s, l, u) = Seen(ws.chk[s], y > s, l, u)
    BY <2>1 DEF Seen, SameFor
  <2>3. View(wt, y, l, u) = Seen(wt.chk[s], y > s, l, u)
    BY <1>1, <1>2, <1>3, <1>5, ViewIs
  <2>4. View(ws, y, l, u) = Seen(ws.chk[s], y > s, l, u)
    BY <1>1, <1>5, ViewIs
  <2> QED
    BY <2>2, <2>3, <2>4
<1> QED
  BY <1>4, <1>5

------------------------------------------------------------------------------
(* Retiring. *)

\* The checkpoints of the working set after the oldest one has retired.
LEMMA AdvanceAt ==
  ASSUME NEW C, NEW next \in Nat, NEW size \in Nat, size > 1, NEW ret, NEW u,
         NEW chk \in [(next - size) .. (next - 1) -> Checkpoints(C)]
  PROVE  LET ws == WorkingSet(chk, next, size, ret)
             ad == Advance(ws, u)
             o  == next - size
         IN  /\ Oldest(ws) = o /\ Newest(ws) = next - 1
             /\ Oldest(ad) = o + 1 /\ Newest(ad) = next
             /\ ad.chk[o + 1] = Heir(chk[o], chk[o + 1], u.wait)
             /\ \A i \in (o + 2) .. (next - 1) : ad.chk[i] = chk[i]
<1> DEFINE ws == WorkingSet(chk, next, size, ret)
           o == next - size
           f == [i \in (o + 1) .. next |->
                    IF i = o + 1 THEN Heir(chk[o], chk[o + 1], u.wait)
                    ELSE IF i = next THEN NewCheckpoint ELSE chk[i]]
<1>1. ws.chk = chk /\ ws.next = next /\ ws.size = size /\ ws.ret = ret
  BY DEF WorkingSet
<1>2. Oldest(ws) = o /\ Newest(ws) = next - 1 /\ Successor(ws) = chk[o + 1]
  BY <1>1 DEF Oldest, Newest, Successor
<1>3. \E r : Advance(ws, u) = [ws EXCEPT !.chk = f, !.next = next + 1, !.ret = r]
  BY <1>1, <1>2, Zenon DEF Advance
<1>4. Advance(ws, u).chk = f /\ Advance(ws, u).next = next + 1 /\ Advance(ws, u).size = size
  BY <1>3 DEF WorkingSet
<1>5. Oldest(Advance(ws, u)) = o + 1 /\ Newest(Advance(ws, u)) = next
  BY <1>4 DEF Oldest, Newest
<1>6. f[o + 1] = Heir(chk[o], chk[o + 1], u.wait) /\ \A i \in (o + 2) .. (next - 1) : f[i] = chk[i]
  OBVIOUS
<1> QED
  BY <1>2, <1>4, <1>5, <1>6

(***************************************************************************)
(* When the oldest checkpoint retires, no read at a checkpoint that stays  *)
(* changes: what the successor takes over, drops or unmarks is exactly     *)
(* what reads used to find in the checkpoint that goes, with wait_for_keys *)
(* and without (WorkingSet.advance, _retire_checkpoint, get).              *)
(***************************************************************************)
THEOREM AdvanceKeepsViews ==
  ASSUME NEW C, NEW next \in Nat, NEW size \in Nat \ {0}, NEW ret, NEW u, u.wait \in BOOLEAN,
         NEW chk \in [(next - size) .. (next - 1) -> Checkpoints(C)],
         CanAdvance(WorkingSet(chk, next, size, ret), u),
         NEW x \in (next - size + 1) .. (next - 1), NEW k \in Key
  PROVE  LET ws == WorkingSet(chk, next, size, ret)
         IN  View(Advance(ws, u), x, k, u) = View(ws, x, k, u)
<1> DEFINE ws == WorkingSet(chk, next, size, ret)
           ad == Advance(ws, u)
           o  == next - size
           p  == chk[o]
           c  == chk[o + 1]
           h  == Heir(p, c, u.wait)
           S  == Sources(ws, x, k)
           T  == Sources(ad, x, k)
<1>1. size > 1 /\ o \in Int /\ x \in Int /\ o + 1 <= x /\ x <= next - 1
  OBVIOUS
<1>2. /\ Oldest(ws) = o /\ Newest(ws) = next - 1
      /\ Oldest(ad) = o + 1 /\ Newest(ad) = next
      /\ ad.chk[o + 1] = h
      /\ \A i \in (o + 2) .. (next - 1) : ad.chk[i] = chk[i]
  BY <1>1, AdvanceAt
<1>3. p \in Checkpoints(C) /\ c \in Checkpoints(C) /\ ws.chk = chk
  BY <1>1 DEF WorkingSet
<1>4. /\ h.map[k] = IF k \in Inherited(p, c) THEN p.map[k] ELSE c.map[k]
      /\ h.mark[k] = "none"
      /\ h.persist = IF u.wait THEN c.persist \cup Inherited(p, c) ELSE c.persist
  <2>1. ASSUME NEW q \in Checkpoints(C), NEW d \in Checkpoints(C)
        PROVE  /\ Heir(q, d, u.wait).map[k] = IF k \in Inherited(q, d) THEN q.map[k] ELSE d.map[k]
               /\ Heir(q, d, u.wait).mark[k] = "none"
               /\ Heir(q, d, u.wait).persist =
                     IF u.wait THEN d.persist \cup Inherited(q, d) ELSE d.persist
    <3>1. d = [map |-> d.map, mem |-> d.mem, mark |-> d.mark, persist |-> d.persist,
               writers |-> d.writers]
      BY DEF Checkpoints
    <3> QED
      BY <3>1 DEF Heir, Unmarked
  <2> QED
    BY <1>3, <2>1, Zenon
<1>5. k \notin Deleted(h) /\ (k \in Held(h) <=> k \in Held(c) \/ k \in Inherited(p, c))
  BY <1>4 DEF Deleted, Held, Inherited
<1>6. Upto(ws, x) = o .. x /\ Upto(ad, x) = (o + 1) .. x /\ x \in Live(ws) /\ x \in Live(ad)
  BY <1>1, <1>2 DEF Upto, Live
<1>7. \A i \in (o + 2) .. x : i \in S <=> i \in T
  BY <1>1, <1>2, <1>3, <1>6 DEF Sources
<1>8. /\ o \in S <=> k \in Held(p) \/ k \in Deleted(p)
      /\ o + 1 \in S <=> k \in Held(c) \/ k \in Deleted(c)
      /\ o + 1 \in T <=> k \in Held(h)
      /\ o \notin T
  BY <1>1, <1>2, <1>3, <1>5, <1>6 DEF Sources
<1>9. S \subseteq o .. x /\ T \subseteq (o + 1) .. x
  BY <1>6 DEF Sources
<1>10. /\ View(ws, x, k, u) = IF S = {} THEN NoVal
                              ELSE Seen(chk[Source(ws, x, k)], x > Source(ws, x, k), k, u)
       /\ View(ad, x, k, u) = IF T = {} THEN NoVal
                              ELSE Seen(ad.chk[Source(ad, x, k)], x > Source(ad, x, k), k, u)
  BY <1>1, <1>2, <1>3, <1>6, ViewIs
<1>11. CASE \E i \in (o + 2) .. x : i \in S
  <2> DEFINE s == Source(ws, x, k)
  <2>1. s \in S /\ \A j \in S : j <= s
    BY <1>1, <1>2, <1>11, NewestSource
  <2>2. s \in (o + 2) .. x
    BY <1>1, <1>9, <1>11, <2>1
  <2>3. s \in T /\ \A j \in T : j <= s
    BY <1>1, <1>7, <1>9, <2>1, <2>2
  <2>4. Source(ad, x, k) = s
    BY <1>1, <1>2, <2>3, SourceIs
  <2>5. ad.chk[s] = chk[s]
    BY <1>1, <1>2, <2>2
  <2> QED
    BY <1>10, <2>1, <2>3, <2>4, <2>5
<1>12. CASE \A i \in (o + 2) .. x : i \notin S
  <2>1. T \subseteq {o + 1} /\ S \subseteq {o, o + 1}
    BY <1>1, <1>7, <1>9, <1>12
  <2>2. CASE k \in Held(c)
    <3>1. o + 1 \in S /\ o + 1 \in T /\ (\A j \in S : j <= o + 1) /\ \A j \in T : j <= o + 1
      BY <1>1, <1>5, <1>8, <2>1, <2>2
    <3>a. Source(ws, x, k) = o + 1
      BY <1>1, <1>2, <3>1, SourceIs
    <3>b. Source(ad, x, k) = o + 1
      BY <1>1, <1>2, <3>1, SourceIs
    <3>2. k \notin Inherited(p, c) /\ h.map[k] = c.map[k] /\ (k \in h.persist <=> k \in c.persist)
      BY <1>4, <2>2 DEF Inherited
    <3> QED
      BY <1>2, <1>5, <1>10, <2>2, <3>1, <3>a, <3>b, <3>2 DEF Seen
  <2>3. CASE k \notin Held(c) /\ k \in Deleted(c)
    <3>1. T = {}
      BY <1>5, <1>8, <2>1, <2>3 DEF Inherited
    <3>2. Source(ws, x, k) = o + 1 /\ o + 1 \in S
      BY <1>1, <1>2, <1>8, <2>1, <2>3, SourceIs
    <3> QED
      BY <1>10, <2>3, <3>1, <3>2 DEF Seen
  <2>4. CASE k \notin Held(c) /\ k \notin Deleted(c) /\ k \in Held(p)
    <3>1. k \in Inherited(p, c)
      BY <2>4 DEF Inherited
    <3>2. o \in S /\ o + 1 \in T /\ (\A j \in S : j <= o) /\ \A j \in T : j <= o + 1
      BY <1>1, <1>5, <1>8, <2>1, <2>4, <3>1
    <3>a. Source(ws, x, k) = o
      BY <1>1, <1>2, <3>2, SourceIs
    <3>b. Source(ad, x, k) = o + 1
      BY <1>1, <1>2, <3>2, SourceIs
    <3>3. u.wait => k \in p.persist
      <4>1. MayRetire(p, c, u)
        BY <1>1, <1>2, <1>3 DEF CanAdvance, Successor, WorkingSet
      <4> QED
        BY <2>4, <4>1 DEF MayRetire
    <3>4. u.wait => k \in h.persist
      BY <1>4, <3>1
    <3> QED
      BY <1>2, <1>4, <1>5, <1>10, <2>4, <3>1, <3>2, <3>a, <3>b, <3>3, <3>4 DEF Seen
  <2>5. CASE k \notin Held(c) /\ k \notin Deleted(c) /\ k \notin Held(p)
    <3>1. T = {}
      BY <1>5, <1>8, <2>1, <2>5 DEF Inherited
    <3>2. S # {} => Source(ws, x, k) = o
      BY <1>1, <1>2, <1>8, <2>1, <2>5, SourceIs
    <3> QED
      BY <1>10, <2>5, <3>1, <3>2 DEF Seen
  <2> QED
    BY <2>2, <2>3, <2>4, <2>5
<1> QED
  BY <1>11, <1>12

------------------------------------------------------------------------------
(* Writing. *)

(***************************************************************************)
(* A put at a checkpoint is what reads of the key at that checkpoint find  *)
(* from then on, whatever older checkpoints hold or have marked. Reads at  *)
(* older checkpoints, and reads of the other keys, find what they found    *)
(* before (PutOp._perform, WorkingSet.get). The mark of the key must not   *)
(* have been freed under the checkpoint, which makes the put an exception. *)
(***************************************************************************)
THEOREM PutIsRead ==
  ASSUME NEW C, NEW next \in Nat, NEW size \in Nat \ {0}, NEW ret, NEW u,
         NEW chk \in [(next - size) .. (next - 1) -> Checkpoints(C)],
         NEW x \in (next - size) .. (next - 1), NEW k \in Key, k \notin Freed(chk[x]),
         NEW v \in Int \ {NoVal}, NEW p \in BOOLEAN, NEW c \in C
  PROVE  LET ws == WorkingSet(chk, next, size, ret)
             st == StorePut(ws, x, k, v, p, c)
         IN  /\ View(st, x, k, u) = v
             /\ \A y \in (next - size) .. (next - 1), l \in Key :
                   y < x \/ l # k => View(st, y, l, u) = View(ws, y, l, u)
<1> DEFINE ws == WorkingSet(chk, next, size, ret)
           st == StorePut(ws, x, k, v, p, c)
           o  == next - size
           ck == chk[x]
           cn == st.chk[x]
<1>1. ws.chk = chk /\ ws.next = next /\ ws.size = size /\ ws.ret = ret
  BY DEF WorkingSet
<1>2. /\ st.next = next /\ st.size = size
      /\ \A i \in o .. (next - 1) : i # x => st.chk[i] = chk[i]
      /\ cn.map = [ck.map EXCEPT ![k] = v]
      /\ cn.mark = [ck.mark EXCEPT ![k] = "none"]
      /\ cn.persist = IF p THEN ck.persist \cup {k} ELSE ck.persist
  <2>1. \E r : st = [ws EXCEPT !.ret = r, !.chk[x] = PutIn(ck, k, v, p, c)]
    BY <1>1 DEF StorePut
  <2>2. st.next = next /\ st.size = size /\ st.chk = [chk EXCEPT ![x] = PutIn(ck, k, v, p, c)]
    BY <2>1 DEF WorkingSet
  <2>3. cn = PutIn(ck, k, v, p, c) /\ \A i \in o .. (next - 1) : i # x => st.chk[i] = chk[i]
    BY <2>2
  <2>4. ck \in Checkpoints(C)
    OBVIOUS
  <2>5. /\ cn.map = [ck.map EXCEPT ![k] = v]
        /\ cn.mark = [ck.mark EXCEPT ![k] = "none"]
        /\ cn.persist = IF p THEN ck.persist \cup {k} ELSE ck.persist
    BY <2>3, <2>4 DEF PutIn, Checkpoints
  <2> QED
    BY <2>2, <2>3, <2>5
<1>3. /\ Oldest(ws) = o /\ Newest(ws) = next - 1
      /\ Oldest(st) = o /\ Newest(st) = next - 1
  BY <1>1, <1>2 DEF Oldest, Newest
<1>4. cn.map[k] = v /\ k \in Held(cn)
  BY <1>2 DEF Held, Checkpoints
<1>5. View(st, x, k, u) = v
  <2>1. x \in Live(st) /\ x \in Sources(st, x, k) /\ \A j \in Sources(st, x, k) : j <= x
    BY <1>3, <1>4 DEF Live, Sources, Upto
  <2>2. Source(st, x, k) = x
    BY <1>3, <2>1, SourceIs
  <2> QED
    BY <1>3, <1>4, <2>1, <2>2, ViewIs DEF Seen
<1>6. ASSUME NEW y \in o .. (next - 1), NEW l \in Key, y < x \/ l # k
      PROVE  View(st, y, l, u) = View(ws, y, l, u)
  <2>1. ASSUME NEW i \in o .. y PROVE SameFor(st.chk[i], ws.chk[i], l)
    <3>1. i \in o .. (next - 1) /\ i <= y /\ y <= next - 1
      OBVIOUS
    <3>2. CASE i # x
      BY <1>1, <1>2, <3>1, <3>2 DEF SameFor
    <3>3. CASE i = x
      <4>1. l # k
        BY <1>6, <3>1, <3>3
      <4>2. cn.map[l] = ck.map[l] /\ cn.mark[l] = ck.mark[l] /\ (l \in cn.persist <=> l \in ck.persist)
        <5>1. ck.map \in [Key -> Int] /\ ck.mark \in [Key -> {"none", "own", "older", "freed"}]
          BY DEF Checkpoints
        <5> HIDE DEF cn, ck
        <5> QED
          BY <1>2, <4>1, <5>1
      <4> QED
        BY <1>1, <3>3, <4>2 DEF Held, Deleted, SameFor
    <3> QED
      BY <3>2, <3>3
  <2> QED
    BY <1>3, <2>1, SameView
<1> QED
  BY <1>5, <1>6

(***************************************************************************)
(* A pop takes the key away: a read at the checkpoint of the pop finds     *)
(* nothing afterwards if the value was found in an older checkpoint, or is *)
(* persistent, because the key is then marked. Reads at older checkpoints, *)
(* and of other keys, find what they found before, also where the pop has  *)
(* freed the key memory of a mark (PopOp.perform, WorkingSet.get). A value *)
(* that is not persistent and is popped in place leaves no mark, and the   *)
(* theorem says nothing of it: an older value then shows again.            *)
(***************************************************************************)
THEOREM PopIsRead ==
  ASSUME NEW C, NEW next \in Nat, NEW size \in Nat \ {0}, NEW ret, NEW u,
         NEW chk \in [(next - size) .. (next - 1) -> Checkpoints(C)],
         NEW x \in (next - size) .. (next - 1), NEW k \in Key, NEW c \in C,
         Sources(WorkingSet(chk, next, size, ret), x, k) # {}
  PROVE  LET ws == WorkingSet(chk, next, size, ret)
             s  == Source(ws, x, k)
             st == StorePop(ws, x, k, s, c)
         IN  /\ s < x \/ k \in chk[x].persist => View(st, x, k, u) = NoVal
             /\ \A y \in (next - size) .. (next - 1), l \in Key :
                   y < x \/ l # k => View(st, y, l, u) = View(ws, y, l, u)
<1> DEFINE ws == WorkingSet(chk, next, size, ret)
           s  == Source(ws, x, k)
           st == StorePop(ws, x, k, s, c)
           o  == next - size
           ck == chk[x]
           cn == st.chk[x]
           Mark == {"none", "own", "older", "freed"}
<1>1. ws.chk = chk /\ ws.next = next /\ ws.size = size /\ ws.ret = ret
  BY DEF WorkingSet
<1>2. Oldest(ws) = o /\ Newest(ws) = next - 1 /\ Live(ws) = o .. (next - 1) /\ Upto(ws, x) = o .. x
  BY <1>1 DEF Oldest, Newest, Live, Upto
<1>3. s \in o .. x /\ \A j \in Sources(ws, x, k) : j <= s
  <2>1. s \in Sources(ws, x, k) /\ \A j \in Sources(ws, x, k) : j <= s
    BY <1>2, NewestSource
  <2> QED
    BY <1>2, <2>1 DEF Sources
<1>4. \A i \in o .. (next - 1) : /\ chk[i].map \in [Key -> Int] /\ chk[i].mark \in [Key -> Mark]
                                 /\ chk[i] \in Checkpoints(C)
  BY DEF Checkpoints
<1>5. /\ st.next = next /\ st.size = size
      /\ \A i \in o .. (next - 1) : i # x =>
            /\ st.chk[i].map = chk[i].map /\ st.chk[i].persist = chk[i].persist
            /\ \A l \in Key : st.chk[i].mark[l] = "none" <=> chk[i].mark[l] = "none"
      /\ \A l \in Key : l # k => /\ cn.map[l] = ck.map[l] /\ cn.mark[l] = ck.mark[l]
                                 /\ l \in cn.persist <=> l \in ck.persist
      /\ s < x => cn.map[k] = ck.map[k] /\ cn.mark[k] = "older"
      /\ s = x => cn.map[k] = NoVal /\ (k \in ck.persist => cn.mark[k] = "own")
  <2>1. CASE s < x
    <3>1. st = [ws EXCEPT !.chk[x] = PopUnder(@, k, c)]
      BY <2>1 DEF StorePop
    <3>2. /\ st.next = next /\ st.size = size
          /\ \A i \in o .. (next - 1) : i # x => st.chk[i] = chk[i]
          /\ cn = PopUnder(ck, k, c)
      BY <1>1, <3>1 DEF WorkingSet
    <3>3. cn.map = ck.map /\ cn.persist = ck.persist /\ cn.mark = [ck.mark EXCEPT ![k] = "older"]
      BY <1>4, <3>2 DEF PopUnder, Checkpoints
    <3>4. x \in o .. (next - 1) /\ ck.mark \in [Key -> Mark]
      BY <1>4
    <3>5. \A l \in Key : l # k => cn.mark[l] = ck.mark[l]
      <4> HIDE DEF st, s, cn, ck
      <4> QED
        BY <3>3, <3>4
    <3>6. cn.mark[k] = "older"
      <4> HIDE DEF st, s, cn, ck
      <4> QED
        BY <3>3, <3>4
    <3>7. s # x
      BY <1>3, <2>1
    <3>8. \A i \in o .. (next - 1) : i # x =>
            /\ st.chk[i].map = chk[i].map /\ st.chk[i].persist = chk[i].persist
            /\ \A l \in Key : st.chk[i].mark[l] = "none" <=> chk[i].mark[l] = "none"
      <4> HIDE DEF st
      <4> QED
        BY <3>2
    <3> HIDE DEF st, s, cn, ck
    <3> QED
      BY <3>2, <3>3, <3>5, <3>6, <3>7, <3>8, Zenon
  <2>2. CASE s = x
    <3> DEFINE f == IF k \in ck.persist THEN chk ELSE FreeKeys(ws, x, {k})
    <3>1. \E r : st = [ws EXCEPT !.ret = r, !.chk = [f EXCEPT ![x] = PopOut(@, k, c)]]
      <4>1. ~ (s < x)
        BY <2>2
      <4> QED
        BY <1>1, <4>1, Zenon DEF StorePop
    <3>2. st.next = next /\ st.size = size /\ st.chk = [f EXCEPT ![x] = PopOut(@, k, c)]
      BY <3>1 DEF WorkingSet
    <3>3. /\ DOMAIN f = o .. (next - 1) /\ f[x] = ck
          /\ \A i \in o .. (next - 1) :
                /\ f[i].map = chk[i].map /\ f[i].persist = chk[i].persist
                /\ \A l \in Key : f[i].mark[l] = "none" <=> chk[i].mark[l] = "none"
      BY <1>1, <1>2, <1>4 DEF FreeKeys, FreeMarks, Checkpoints
    <3>4. cn = PopOut(ck, k, c) /\ \A i \in o .. (next - 1) : i # x => st.chk[i] = f[i]
      BY <3>2, <3>3
    <3>5. /\ cn.map = [ck.map EXCEPT ![k] = NoVal] /\ cn.persist = ck.persist \ {k}
          /\ cn.mark = [ck.mark EXCEPT ![k] = IF k \in ck.persist THEN "own" ELSE @]
      BY <1>4, <3>4 DEF PopOut, Checkpoints
    <3>6. ~ (s < x) /\ x \in o .. (next - 1)
      BY <2>2
    <3>7. ck.map \in [Key -> Int] /\ ck.mark \in [Key -> Mark]
      BY <1>4, <3>6
    <3> HIDE DEF st, s, cn, ck, f, Mark
    <3>8. /\ cn.map[k] = NoVal /\ (k \in ck.persist => cn.mark[k] = "own")
          /\ \A l \in Key : l # k => /\ cn.map[l] = ck.map[l] /\ cn.mark[l] = ck.mark[l]
                                     /\ l \in cn.persist <=> l \in ck.persist
      BY <3>5, <3>7
    <3>9. \A i \in o .. (next - 1) : i # x =>
            /\ st.chk[i].map = chk[i].map /\ st.chk[i].persist = chk[i].persist
            /\ \A l \in Key : st.chk[i].mark[l] = "none" <=> chk[i].mark[l] = "none"
      BY <3>3, <3>4
    <3> QED
      BY <3>2, <3>6, <3>8, <3>9, Zenon
  <2>3. s < x \/ s = x
    BY <1>3
  <2> QED
    BY <2>1, <2>2, <2>3
<1>6. Oldest(st) = o /\ Newest(st) = next - 1
  BY <1>5 DEF Oldest, Newest
<1> HIDE DEF st, s
<1>7. ASSUME s < x \/ k \in ck.persist PROVE View(st, x, k, u) = NoVal
  <2>1. k \in Deleted(cn) /\ k \notin Held(cn)
    <3>1. s < x => k \notin Held(ck)
      <4>1. x \in Sources(ws, x, k) => x <= s
        BY <1>3
      <4> QED
        BY <1>1, <1>2, <1>3, <4>1 DEF Sources
    <3>2. s < x \/ s = x
      BY <1>3
    <3>3. cn.map[k] = NoVal /\ cn.mark[k] # "none"
      BY <1>5, <1>7, <3>1, <3>2 DEF Held
    <3> QED
      BY <3>3 DEF Deleted, Held
  <2>2. x \in Live(st) /\ x \in Sources(st, x, k) /\ \A j \in Sources(st, x, k) : j <= x
    <3>1. Upto(st, x) = o .. x /\ Live(st) = o .. (next - 1)
      BY <1>6 DEF Live, Upto
    <3> QED
      BY <2>1, <3>1 DEF Sources
  <2>3. Source(st, x, k) = x
    BY <1>6, <2>2, SourceIs
  <2>4. View(st, x, k, u) = Seen(cn, x > x, k, u)
    <3>1. Oldest(st) \in Int /\ Newest(st) \in Int /\ Sources(st, x, k) # {}
      BY <1>6, <2>2
    <3>2. View(st, x, k, u) = LET z == Source(st, x, k) IN Seen(st.chk[z], x > z, k, u)
      BY <2>2, <3>1, ViewIs
    <3> QED
      BY <2>3, <3>2
  <2> QED
    BY <2>1, <2>4 DEF Seen
<1>8. ASSUME NEW y \in o .. (next - 1), NEW l \in Key, y < x \/ l # k
      PROVE  View(st, y, l, u) = View(ws, y, l, u)
  <2>1. ASSUME NEW i \in o .. y PROVE SameFor(st.chk[i], ws.chk[i], l)
    <3>1. i \in o .. (next - 1) /\ i <= y /\ y <= next - 1 /\ (i = x => l # k)
      BY <1>8
    <3>2. CASE i = x
      <4>1. /\ cn.map[l] = ck.map[l] /\ cn.mark[l] = ck.mark[l]
            /\ l \in cn.persist <=> l \in ck.persist
        BY <1>5, <3>1, <3>2
      <4> QED
        BY <1>1, <3>2, <4>1 DEF SameFor, Held, Deleted
    <3>3. CASE i # x
      <4>1. /\ st.chk[i].map = chk[i].map /\ st.chk[i].persist = chk[i].persist
            /\ st.chk[i].mark[l] = "none" <=> chk[i].mark[l] = "none"
        BY <1>5, <3>1, <3>3
      <4> QED
        BY <1>1, <4>1 DEF SameFor, Held, Deleted
    <3> QED
      BY <3>2, <3>3
  <2> QED
    BY <1>2, <1>6, <2>1, SameView
<1> QED
  BY <1>7, <1>8 DEF st, s
=================================================================================
