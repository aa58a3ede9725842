------------------------------ MODULE DDictStore ------------------------------
(***************************************************************************)
(* What a manager of the distributed dictionary does with one request      *)
(* (data/ddict/manager.py, the DictOp classes) and with a retiring         *)
(* checkpoint (the persister of data/ddict/ddict.py): operators from the   *)
(* manager M before to the manager after, its messages added to M.out.     *)
(***************************************************************************)
EXTENDS DDictState

Send(M, box, to, msg) == [M EXCEPT !.out = Append(@, Out(box, to, msg))]

\* An answer through the manager's table of client connections.
Answer(M, box, c, msg) ==
    IF c \in M.conn THEN Send(M, box, c, msg)
    ELSE [M EXCEPT !.lost = @ \cup {<<c, msg.ref>>}]

\* A request that the code drops without answering it.
Lose(M, r) == [M EXCEPT !.lost = @ \cup {<<r.c, r.tag>>}]

\* The last write to key k at checkpoint x.
Wrote(M, k, x, v, p) == [M EXCEPT !.hist[k, x] = [v |-> v, p |-> p]]

\* Taking a key out of checkpoint x itself leaves no mark: a write to an older
\* checkpoint, also a later one, shows through.
TakenOut(M, x) == IF x = Oldest(M.ws) THEN [v |-> Gone, p |-> FALSE] ELSE NoWrite

\* From now on reads of these keys may differ from the last write.
Off(M, ks) == [M EXCEPT !.off = @ \cup ks]

HeldBefore(M, x) == UNION {Held(M.ws.chk[i]) : i \in {j \in Live(M.ws) : j < x}}

------------------------------------------------------------------------------
(* The pool and the persister. *)

Stored(M) ==
    UNION {Values(M.ws.chk[i]) : i \in Live(M.ws)}
        \cup UNION {Values(M.ws.ret[i].ck) : i \in DOMAIN M.ws.ret}
        \cup {op.v : op \in {o \in UNION {Range(M.dfr[x]) : x \in DOMAIN M.dfr} :
                                o.tc \in {"DDPut", "DDBPut"}}}

Full(M) == Cardinality(Stored(M)) + M.leak >= use.cap

\* PosixCheckpointPersister.dump: the manager after it, and whether it raised.
\* Old files go first; num is the persister's own count of the files.
Dump(M, e, force) ==
    LET id    == e.id
        due   == force \/ (use.freq # 0 /\ use.count # 0 /\ id % use.freq = 0)
        extra == IF use.count # -1 /\ M.num >= use.count THEN M.num - use.count + 1 ELSE 0
        left  == {a \in M.avail : Cardinality({b \in M.avail : b < a}) >= extra}
        gone  == Cardinality(M.avail \ left)
        new   == id \notin left
        older == {k \in HeldBefore(M, id) : k \notin Held(e.ck)}
        file  == [ck |-> e.ck, bad |-> e.broken,
                  off |-> M.off \cup older \cup (IF e.void THEN Key ELSE {}),
                  hist |-> [w \in DOMAIN M.hist |-> IF w[2] <= id THEN M.hist[w] ELSE NoWrite]]
        files == [a \in left \cup {id} |-> IF a = id THEN file ELSE M.files[a]]
    IN  IF ~due THEN [M |-> M, raised |-> FALSE]
        ELSE IF gone < extra
        THEN [M |-> [M EXCEPT !.avail = {}, !.files = <<>>, !.num = @ - gone], raised |-> TRUE]
        ELSE IF e.broken
        THEN [M |-> [M EXCEPT !.avail = left, !.num = @ - gone,
                              !.files = IF new THEN Restrict(files, left) ELSE files],
              raised |-> TRUE]
        ELSE [M |-> [M EXCEPT !.avail = left \cup {id}, !.files = files,
                              !.num = @ - gone + (IF new THEN 1 ELSE 0)],
              raised |-> FALSE]

\* The thread of entry i of the retiring checkpoints, from start to end. When
\* writing the file raises, what it was to free is never freed.
AfterDump(d, i, e) ==
    IF d.raised
    THEN [d.M EXCEPT !.ws.ret = RemoveAt(@, i),
                     !.leak = @ + Cardinality({e.ck.map[k] : k \in e.clear} \ {Torn})]
    ELSE [d.M EXCEPT !.ws = EndRetire(@, i)]

RetireThread(M, i) == AfterDump(Dump(M, M.ws.ret[i], FALSE), i, M.ws.ret[i])

\* Join the retire threads in order, all of them or while the pool is full.
JoinRetiring(M, all) ==
    LET Join(N, e) == IF all \/ Full(N) THEN RetireThread(N, 1) ELSE N
    IN  FoldLeft(Join, M, M.ws.ret)

\* Reading a file back allocates the memory anew.
Fresh(v) == IF v > 0 THEN v + 100 ELSE v

Loadable(file) == ~file.bad /\ \A k \in Key : file.ck.mark[k] \in {"none", "own"}

Load(M, x) ==
    LET f == M.files[x]
        ck == [f.ck EXCEPT !.map = [k \in Key |-> Fresh(f.ck.map[k])],
                           !.mem = [k \in Key |-> Fresh(f.ck.mem[k])]]
    IN  [M EXCEPT
            !.ws = StoreRestore(@, x, ck),
            !.avail = IF M.ro THEN @ ELSE {a \in @ : a <= x},
            !.files = IF M.ro THEN @ ELSE Restrict(@, {a \in M.avail : a <= x}),
            !.hist = [w \in DOMAIN @ |-> [f.hist[w] EXCEPT !.v = Fresh(@)]],
            !.off = f.off \cup {k \in Key : ck.map[k] = Torn}]

------------------------------------------------------------------------------
(* Operations that may have to be deferred: the manager after, and whether *)
(* the operation was done, has to wait, or raised an exception.            *)

Done(M)   == [M |-> M, st |-> "done"]
Waits(M)  == [M |-> M, st |-> "wait"]
Raises(M) == [M |-> M, st |-> "raise"]

\* Where a read looks, and the manager a write has advanced to its checkpoint.
Find(M, r) == Lookup(M.ws, r.x, r.k, use, r.x \in DOMAIN M.dfr)

Moved(M, a) == [M |-> [M EXCEPT !.ws = a.ws], st |-> a.st]
Access(M, r) == Moved(M, Reach(M.ws, r.x, use))

\* GetOp.perform. After an error response the code fails on the checkpoint id.
GetFrom(M, r, l) ==
    LET Error(err) == Answer(M, "ret", r.c, DDGetResponse(r.tag, err, NoVal))
        v == M.ws.chk[l.at].map[r.k]
        ec == IF v = NoVal THEN KEY_NOT_FOUND ELSE SUCCESS
    IN  CASE l.st = "retired" -> Raises(Error(DDICT_CHECKPOINT_RETIRED))
          [] l.st = "raise"   -> Raises(Error(FAILURE))
          [] l.st = "wait"    -> Waits(M)
          [] l.st = "at"      ->
                Done([Answer(M, "ret", r.c, DDGetResponse(r.tag, ec, v))
                        EXCEPT !.ws = UpdateWriter(@, r.c, r.x)])

GetOp(M, r) == GetFrom(M, r, Find(M, r))

\* PopOp.perform. A retired checkpoint is an exception in the handler of the
\* exception, before the response.
PopFrom(M, r, l) ==
    LET v == M.ws.chk[l.at].map[r.k]
        again == r.k \notin M.ws.chk[r.x].persist /\ r.k \in HeldBefore(M, r.x)
        popped == [M EXCEPT !.ws = StorePop(@, r.x, r.k, l.at, r.c)]
        marks == l.at < r.x \/ r.k \in M.ws.chk[r.x].persist
        gone == [popped EXCEPT !.hist[r.k, r.x] =
                    IF marks THEN [v |-> Gone, p |-> FALSE] ELSE TakenOut(M, r.x)]
    IN  CASE l.st = "retired" -> Raises(Lose(M, r))
          [] l.st = "raise"   -> Raises(Answer(M, "ret", r.c, DDPopResponse(r.tag, FAILURE, NoVal)))
          [] l.st = "wait"    -> Waits(M)
          [] l.st = "at"      ->
                IF v = NoVal
                THEN Done(Answer(M, "ret", r.c, DDPopResponse(r.tag, KEY_NOT_FOUND, NoVal)))
                ELSE IF r.x > Newest(M.ws) THEN Waits(M)
                ELSE Done(Answer(IF l.at = r.x /\ again THEN Off(gone, {r.k}) ELSE gone,
                                 "ret", r.c, DDPopResponse(r.tag, SUCCESS, v)))

PopOp(M, r) == PopFrom(M, r, Find(M, r))

\* ClearOp.perform. It answers a retired checkpoint and is then deferred.
ClearAt(a, r) ==
    LET N == a.M
        cleared == [N EXCEPT !.ws = UpdateWriter(StoreClear(@, r.x), r.c, r.x),
                             !.hist = [w \in Key \X {r.x} |-> TakenOut(N, r.x)] @@ @]
    IN  CASE a.st = "retired" ->
                Waits(Send(N, "buf", r.c, DDClearResponse(r.tag, DDICT_CHECKPOINT_RETIRED)))
          [] a.st = "raise"   -> Raises(Send(N, "buf", r.c, DDClearResponse(r.tag, FAILURE)))
          [] a.st = "wait"    -> Waits(N)
          [] a.st = "at"      -> Done(Send(Off(cleared, HeldBefore(N, r.x)), "buf", r.c,
                                           DDClearResponse(r.tag, SUCCESS)))

ClearOp(M, r) == ClearAt(Access(M, r), r)

\* The part of PutOp._perform under the checkpoint's lock. The checkpoint may
\* have retired since it was looked up, when two threads put at a time.
Store(M, r, k, v, p) ==
    LET ck == M.ws.chk[r.x]
        cell == M.hist[k, r.x]
        taint == \/ k \in Freed(ck)
                 \/ k \in ck.persist /\ ~p /\ ~(cell.p /\ cell.v > 0)
        N == [M EXCEPT !.ws = StorePut(@, r.x, k, v, p, r.c)]
        W == Wrote(N, k, r.x, v, p \/ (cell.p /\ cell.v > 0))
    IN  IF r.x < Oldest(M.ws)
        THEN Done([Off(M, {k}) EXCEPT !.leak = @ + 1])
        ELSE [M |-> IF taint THEN Off(W, {k}) ELSE W,
              st |-> IF k \in Freed(ck) THEN "raise" ELSE "done"]

\* _recover_mem on a list of values that is in the map already.
Tear(M, x, k, v) ==
    IF x \in Live(M.ws) /\ M.ws.chk[x].map[k] = v
    THEN [Off(M, {k}) EXCEPT !.ws.chk[x].map[k] = Torn, !.ws.ret = Emptied(@, {v})] ELSE M

PutError(M, r, err) ==
    IF r.tc = "DDPut" THEN Answer(M, "buf", r.c, DDPutResponse(r.tag, err))
    ELSE Send(M, "buf", r.c, DDBPutResponse(r.tag, err, 1, M.id))

\* PutOp.perform and BPutOp.perform, for an operation that was deferred.
PutEnd(s, r) ==
    IF s.st = "done" THEN Done(PutError(s.M, r, SUCCESS))
    ELSE [M |-> PutError(s.M, r, FAILURE), st |-> IF r.tc = "DDPut" THEN "raise" ELSE "done"]

PutAt(a, r) ==
    CASE a.st = "retired" -> IF r.tc = "DDPut" THEN Done(PutError(a.M, r, DDICT_CHECKPOINT_RETIRED))
                             ELSE Raises(Lose(a.M, r))
      [] a.st = "raise"   -> [M |-> PutError(a.M, r, FAILURE), st |-> IF r.tc = "DDPut" THEN "raise" ELSE "done"]
      [] a.st = "wait"    -> Waits(a.M)
      [] a.st = "at"      -> PutEnd(Store(a.M, r, r.k, r.v, r.tc = "DDPut" /\ r.p /\ use.wait), r)

PutOp(M, r) == PutAt(Access(M, r), r)

Perform(M, r) ==
    CASE r.tc = "DDGet"   -> GetOp(M, r)
      [] r.tc = "DDPop"   -> PopOp(M, r)
      [] r.tc = "DDClear" -> ClearOp(M, r)
      [] OTHER            -> PutOp(M, r)

\* The deferred operation could be done now.
Performable(M, r) == Perform(M, r).st = "done"
================================================================================
