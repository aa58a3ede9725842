----------------------------- MODULE DDictManager -----------------------------
(***************************************************************************)
(* A manager of the distributed dictionary (data/ddict/manager.py): the    *)
(* main loop and its handlers, the threads that receive batches, and the   *)
(* operations deferred until a checkpoint or a key is there. Step(M, t) is *)
(* the next step of thread t. The main thread handles a request in one     *)
(* action when it is the only thread, and step by step beside batches.     *)
(***************************************************************************)
EXTENDS DDictStore

Goto(M, t, pc) == [M EXCEPT !.job[t].pc = pc]

\* The end of a request: only a put tries the deferred operations again, and
\* only those of its own checkpoint.
Finish(M, t, tried) == [M EXCEPT !.job[t] = NoJob, !.done = TRUE, !.tried = tried]

\* _defer, which does not take the lock of the deferred operations.
Defer(M, r) ==
    [M EXCEPT !.dfr = (r.x :> (IF r.x \in DOMAIN @ THEN Append(@[r.x], r) ELSE <<r>>)) @@ @]

\* Pass a request on to the two children in the tree of managers.
Forward(M, msg) ==
    LET kids == SelectSeq(<<2 * M.id + 1, 2 * M.id + 2>>, LAMBDA m : m < use.managers)
    IN  [M EXCEPT !.out = @ \o [i \in DOMAIN kids |-> Out("manager", kids[i], msg)]]

------------------------------------------------------------------------------
(* Puts: to the checkpoint, deferred operations first, the put, deferred   *)
(* operations again.                                                       *)

IsBatch(t) == t # Main

\* A batch that goes wrong empties the values in hand and skips the rest.
FailBatch(M, t, err) ==
    LET j == M.job[t]
    IN  [Tear(M, j.req.x, j.k, j.v) EXCEPT !.job[t].pc = "discard", !.job[t].err = err]

\* ws.put before the put itself.
PutReach(a, t) ==
    LET N == a.M
        r == N.job[t].req
    IN  CASE a.st = "at"      -> Goto(N, t, "drain1")
          [] a.st = "wait"    -> Goto(N, t, "perform")
          [] a.st = "retired" -> IF IsBatch(t) THEN FailBatch(N, t, DDICT_CHECKPOINT_RETIRED)
                                 ELSE Finish(PutError(N, r, DDICT_CHECKPOINT_RETIRED), t, {})
          [] a.st = "raise"   -> IF IsBatch(t) THEN FailBatch(N, t, FAILURE)
                                 ELSE IF r.tc = "DDPut" THEN Finish(PutError(N, r, FAILURE), t, {})
                                 ELSE Finish(Lose(N, r), t, {})

\* The loop of _process_deferred_ops, under its lock.
Tried(b, op, p) ==
    [M |-> p.M, n |-> b.n + 1, raised |-> p.st = "raise",
     left |-> IF p.st = "wait" THEN Append(b.left, op) ELSE b.left]

Rest(b, x, ops) ==
    IF ops = <<>> THEN b ELSE [b EXCEPT !.M.dfr = (x :> SubSeq(ops, b.n + 1, Len(ops))) @@ @]

Drained(M, x) ==
    LET ops == IF x \in DOMAIN M.dfr THEN M.dfr[x] ELSE <<>>
        Try(b, op) == IF b.raised THEN b ELSE Tried(b, op, Perform(b.M, op))
    IN  Rest(FoldLeft(Try, [M |-> M, left |-> <<>>, n |-> 0, raised |-> FALSE], ops), x, ops)

Drain(d, t, next) ==
    LET j == d.M.job[t]
        \* an exception leaves the loop: what was tried in vain is dropped
        N == [d.M EXCEPT !.lost = @ \cup {<<d.left[i].c, d.left[i].tag>> : i \in DOMAIN d.left}]
    IN  IF ~d.raised THEN [d.M EXCEPT !.job[t].pc = next, !.job[t].left = d.left, !.lock = TRUE]
        ELSE IF IsBatch(t) THEN FailBatch(N, t, FAILURE)
        ELSE IF j.req.tc = "DDPut" THEN Finish(PutError(N, j.req, FAILURE), t, {})
        ELSE Finish(IF next = "end1" THEN Lose(N, j.req) ELSE N, t, {})

\* The end of _process_deferred_ops: the list becomes what was left over, and
\* an operation deferred since the end of the loop is gone.
WriteBack(M, t) ==
    LET j == M.job[t]
        x == j.req.x
        late == IF x \in DOMAIN M.dfr THEN Range(M.dfr[x]) ELSE {}
    IN  [M EXCEPT !.lock = FALSE, !.job[t].left = <<>>,
                  !.lost = @ \cup {<<op.c, op.tag>> : op \in late},
                  !.dfr = IF x \notin DOMAIN @ THEN @
                          ELSE IF j.left = <<>> THEN Restrict(@, DOMAIN @ \ {x})
                          ELSE (x :> j.left) @@ @]

\* The put looks its checkpoint up again, and stores under its lock.
AfterPut(p, t, r) ==
    CASE p.st = "wait"  -> Goto(p.M, t, "defer")
      [] p.st = "done"  -> Goto(p.M, t, "drain2")
      [] p.st = "raise" -> Finish(IF r.tc = "DDPut" THEN PutError(p.M, r, FAILURE) ELSE p.M, t, {})

PutPerform(a, t) ==
    LET N == a.M
        r == N.job[t].req
    IN  IF a.st = "at" THEN Goto(N, t, "store")
        ELSE IF IsBatch(t)
        THEN FailBatch(N, t, CASE a.st = "wait" -> DDICT_FUTURE_CHECKPOINT
                               [] a.st = "retired" -> DDICT_CHECKPOINT_RETIRED
                               [] OTHER -> FAILURE)
        ELSE AfterPut(PutAt(a, r), t, r)

StorePair(M, j, batch) ==
    Store(M, j.req, IF batch THEN j.k ELSE j.req.k, IF batch THEN j.v ELSE j.req.v,
          j.req.tc # "DDBPut" /\ j.req.p /\ use.wait)

\* Mutant of PutStore: the deferred operations are not tried after the put.
PutAndLeave(s, t) ==
    LET r == s.M.job[t].req
    IN  IF IsBatch(t) THEN [Goto(s.M, t, "room") EXCEPT !.job[t].n = @ + 1]
        ELSE Finish(PutError(s.M, r, SUCCESS), t, {r.x})

PutStore(s, t) ==
    LET r == s.M.job[t].req
        failed == PutError(s.M, r, FAILURE)
    IN  IF IsBatch(t)
        THEN IF s.st = "done" THEN [Goto(s.M, t, "drain2") EXCEPT !.job[t].n = @ + 1]
             ELSE FailBatch(s.M, t, FAILURE)
        ELSE IF s.st = "done" THEN Goto(PutError(s.M, r, SUCCESS), t, "drain2")
        ELSE IF r.tc = "DDPut" THEN Finish(PutError(failed, r, FAILURE), t, {})
        ELSE Goto(failed, t, "drain2")

\* put and _bput up to the first look at the checkpoint. A broadcast put goes
\* on to the first manager of each half of the rest of the list.
Halves(ms) ==
    LET rest == Tail(ms)
        mid  == Len(rest) \div 2
    IN  SelectSeq(<<SubSeq(rest, 1, mid), SubSeq(rest, mid + 1, Len(rest))>>,
                  LAMBDA s : s # <<>>)

PassOn(M, r) ==
    LET hs == Halves(r.ms)
    IN  [M EXCEPT !.out = @ \o [i \in DOMAIN hs |->
            Out("manager", Head(hs[i]), [r EXCEPT !.ms = hs[i]])]]

put(M, t, r) ==
    LET N == JoinRetiring(M, FALSE)
    IN  IF M.ro THEN Finish(Answer(M, "buf", r.c, DDPutResponse(r.tag, INVALID_OPERATION)), t, {})
        ELSE IF Full(N) THEN Finish(PutError(N, r, MEMORY_POOL_FULL), t, {})
        ELSE Goto(N, t, "reach")

bput(M, t, r) ==
    LET N == JoinRetiring(M, FALSE)
    IN  IF M.ro THEN Finish(Send(M, "buf", r.c, DDBPutResponse(r.tag, INVALID_OPERATION, 0, M.id)), t, {})
        ELSE IF Full(N) THEN Finish(PutError(N, r, MEMORY_POOL_FULL), t, {})
        ELSE Goto(PassOn(N, r), t, "reach")

------------------------------------------------------------------------------
(* Batches: a thread for each, which reads pairs until the end of its      *)
(* stream and answers once.                                                *)

Children(t, r) == IF t[1] = "bput" THEN [i \in DOMAIN Halves(r.ms) |-> Head(Halves(r.ms)[i])]
                  ELSE <<>>

\* A pair, or with <<>> the end of the stream, to the managers further down.
Relay(M, t, p) ==
    LET kids == Children(t, M.job[t].req)
    IN  [M EXCEPT !.out = @ \o [i \in DOMAIN kids |-> Out("stream", <<kids[i], t>>, p)]]

BatchReply(M, t, err) ==
    LET j == M.job[t]
        r == j.req
        N == IF t[1] = "batch"
             THEN Answer(M, "buf", r.c, DDBatchPutResponse(r.tag, err, j.n, M.id))
             ELSE Send(Relay(M, t, <<>>), "bq", r.c, DDBPutResponse(r.tag, err, j.n, M.id))
    IN  [N EXCEPT !.job[t] = NoJob, !.strm[t] = [q |-> <<>>, eof |-> FALSE]]

\* A batch that is refused before its first pair, and not passed on.
RefuseBatch(M, t, err) ==
    [M EXCEPT !.job[t].pc = "discard", !.job[t].err = err,
              !.job[t].req = IF t[1] = "bput" THEN [@ EXCEPT !.ms = <<M.id>>] ELSE @]

\* Up to the first pair. A full pool leaves _batch_put without a response.
BatchOpen(M, t) ==
    LET r == M.job[t].req
        N == JoinRetiring(M, FALSE)
    IN  IF M.ro THEN RefuseBatch(M, t, INVALID_OPERATION)
        ELSE IF ~Full(N) THEN Goto(IF t[1] = "bput" THEN PassOn(N, r) ELSE N, t, "recv")
        ELSE IF t[1] = "bput" THEN RefuseBatch(N, t, MEMORY_POOL_FULL)
        ELSE [Lose(N, r) EXCEPT !.job[t] = NoJob]

\* The next pair is complete when the key after it or the end has come.
BatchRecv(M, t) ==
    LET s == M.strm[t]
        p == Head(s.q)
    IN  IF s.q = <<>>
        THEN BatchReply(M, t, IF M.job[t].k = -1 THEN EOT ELSE SUCCESS)
        ELSE [Relay(M, t, p) EXCEPT !.strm[t].q = Tail(@), !.job[t].k = p[1], !.job[t].v = p[2],
                                    !.job[t].pc = "reach"]

\* After a pair _batch_put looks at the pool, and _bput_batch does not.
BatchRoom(M, t) ==
    LET N == JoinRetiring(M, FALSE)
        More(K) == [Goto(K, t, "recv") EXCEPT !.done = TRUE, !.tried = {M.job[t].req.x}]
    IN  IF t[1] = "bput" THEN More(M)
        ELSE IF Full(N) THEN FailBatch(N, t, MEMORY_POOL_FULL)
        ELSE More(N)

StartBatch(M, t, r) == Finish([M EXCEPT !.job[t] = Job("open", r)], Main, {})

Busy(M) == \E t \in BatchThreads : M.job[t].pc # "idle"

------------------------------------------------------------------------------
(* The other handlers of the main loop. *)

End(M, box, r, msg) == Finish(Send(M, box, r.c, msg), Main, {})

register_client(M, r) ==
    End([M EXCEPT !.conn = @ \cup {r.c}], "buf", r, DDRegisterClientResponse(r.tag, M.id))

connect_to_manager(M, r) ==
    Finish(Answer(M, "buf", r.c, DDConnectToManagerResponse(r.tag, r.m)), Main, {})

register_clientID(M, r) ==
    End([M EXCEPT !.conn = @ \cup {r.c}], "buf", r, DDRegisterClientIDResponse(r.tag))

deregister_client(M, r) ==
    IF r.c \in M.conn
    THEN End([M EXCEPT !.conn = @ \ {r.c}], "buf", r, DDDeregisterClientResponse(r.tag, SUCCESS))
    ELSE Finish(Lose(M, r), Main, {})

\* get, pop and clear: do it, or defer it.
OrDefer(p, r) ==
    Finish(IF p.st = "wait" THEN Defer(p.M, r) ELSE p.M, Main, {})

get(M, r) == OrDefer(GetOp(M, r), r)

pop(M, r) ==
    IF M.ro THEN Finish(Answer(M, "ret", r.c, DDPopResponse(r.tag, INVALID_OPERATION, NoVal)), Main, {})
    ELSE OrDefer(PopOp(M, r), r)

clear(M, r) ==
    IF M.ro THEN End(M, "buf", r, DDClearResponse(r.tag, INVALID_OPERATION))
    ELSE OrDefer(ClearOp(Forward(M, r), r), r)

\* ContainsOp: a checkpoint to come is answered from the newest one.
contains(M, r) ==
    LET future == r.x > Newest(M.ws)
        l == Lookup(M.ws, IF future THEN Newest(M.ws) ELSE r.x, r.k, use, FALSE)
        held == l.st = "at" /\ r.k \in Held(M.ws.chk[l.at])
        early == future /\ use.wait /\ held /\ r.k \notin M.ws.chk[l.at].persist
        Reply(err) == Answer(M, "buf", r.c, DDContainsResponse(r.tag, err))
        N == CASE l.st = "retired" -> Reply(DDICT_CHECKPOINT_RETIRED)
               [] l.st = "raise"   -> Reply(FAILURE)
               [] OTHER -> [Reply(IF held /\ ~early THEN SUCCESS ELSE KEY_NOT_FOUND)
                               EXCEPT !.ws = UpdateWriter(@, r.c, r.x)]
    IN  Finish(N, Main, {})

\* The client moves along with the checkpoint it reads at.
Visited(M, r) == [M EXCEPT !.ws = UpdateWriter(@, r.c, r.x)]

get_length(M, r) ==
    LET N == Forward(M, r)
        W == Visited(N, r)
    IN  IF r.x < Oldest(M.ws) THEN End(N, "buf", r, DDLengthResponse(r.tag, DDICT_CHECKPOINT_RETIRED, 0))
        ELSE IF KeysRaise(M.ws, r.x, use) THEN End(N, "buf", r, DDLengthResponse(r.tag, FAILURE, 0))
        ELSE End(W, "buf", r, DDLengthResponse(r.tag, SUCCESS, Cardinality(KeysOf(M.ws, r.x, use))))

\* keys, values and items answer on the FLI of the iterator, unless the
\* checkpoint has retired or the listing raises.
keys(M, r) ==
    LET W == Visited(M, r)
    IN  IF r.x < Oldest(M.ws) \/ KeysRaise(W.ws, r.x, use) THEN Finish(Lose(W, r), Main, {})
        ELSE End(W, "iter", r, DDKeysResponse(r.tag, KeysOf(W.ws, r.x, use)))

values(M, r) ==
    LET W == Visited(M, r)
        failed == Answer(W, "ret", r.c, DDValuesResponse(r.tag, FAILURE, {}))
    IN  IF r.x < Oldest(M.ws) THEN Finish(Lose(W, r), Main, {})
        ELSE IF ItemsRaise(W.ws, r.x, use) THEN Finish(Lose(failed, r), Main, {})
        ELSE End(W, "iter", r, DDValuesResponse(r.tag, SUCCESS, KeysOf(W.ws, r.x, use)))

items(M, r) ==
    LET W == Visited(M, r)
    IN  IF r.x < Oldest(M.ws) \/ ItemsRaise(W.ws, r.x, use) THEN Finish(Lose(W, r), Main, {})
        ELSE End(W, "iter", r, DDItemsResponse(r.tag, KeysOf(W.ws, r.x, use)))

\* sync waits for the batches, then for the retire threads.
sync(M, r) == End(JoinRetiring(M, TRUE), "buf", r, DDSyncResponse(r.tag))

get_stats(M, r) ==
    End(Forward(M, r), "buf", r, DDManagerStatsResponse(r.tag, Cardinality(Stored(M))))

get_newest_chkpt_id(M, r) ==
    End(Forward(M, r), "buf", r, DDManagerNewestChkptIDResponse(r.tag, Newest(M.ws)))

freeze(M, r) == End(Forward([M EXCEPT !.ro = TRUE], r), "buf", r, DDFreezeResponse(r.tag))

unfreeze(M, r) == End(Forward([M EXCEPT !.ro = FALSE], r), "buf", r, DDUnFreezeResponse(r.tag))

get_freeze(M, r) ==
    Finish(Answer(M, "buf", r.c, DDGetFreezeResponse(r.tag, M.ro)), Main, {})

chkpt_avail(M, r) ==
    End(Forward(M, r), "buf", r, DDChkptAvailResponse(r.tag, r.x \in Live(M.ws)))

persisted_chkpt_avail(M, r) ==
    End(Forward(M, r), "buf", r, DDPersistedChkptAvailResponse(r.tag, r.x \in M.avail))

persist_chkpts(M, r) ==
    End(Forward(M, r), "buf", r, DDPersistChkptsResponse(r.tag, M.avail))

persist(M, r) ==
    LET N == Forward(M, r)
        d == Dump(N, [id |-> r.x, ck |-> N.ws.chk[r.x], broken |-> FALSE, void |-> FALSE], TRUE)
    IN  IF r.x \notin Live(M.ws) THEN End(N, "buf", r, DDPersistResponse(r.tag, FAILURE))
        ELSE End(d.M, "buf", r, DDPersistResponse(r.tag, IF d.raised THEN FAILURE ELSE SUCCESS))

restore(M, r) ==
    LET N == [Forward(M, r) EXCEPT !.cur = r.x]
    IN  IF r.x \notin M.avail
        THEN End(Forward(M, r), "buf", r, DDRestoreResponse(r.tag, DDICT_PERSIST_CHECKPOINT_UNAVAILABLE))
        ELSE IF ~Loadable(M.files[r.x]) THEN End(N, "buf", r, DDRestoreResponse(r.tag, FAILURE))
        ELSE End(Load(N, r.x), "buf", r, DDRestoreResponse(r.tag, SUCCESS))

\* advance is for frozen dictionaries; otherwise it is not passed on either.
advance(M, r) ==
    LET N == Forward(M, r)
        x == M.cur + use.freq
    IN  IF ~M.ro THEN End(M, "buf", r, DDAdvanceResponse(r.tag, INVALID_OPERATION, M.cur))
        ELSE IF x \notin M.avail
        THEN End(N, "buf", r, DDAdvanceResponse(r.tag, DDICT_PERSIST_CHECKPOINT_UNAVAILABLE, M.cur))
        ELSE End([N EXCEPT !.cur = x], "buf", r, DDAdvanceResponse(r.tag, SUCCESS, x))

\* The end of the main loop: deferred operations and batches go with it.
destroy_manager(M) ==
    [Send(M, "orcret", 0, DDDestroyManagerResponse(M.id))
        EXCEPT !.pc = "down", !.in = <<>>, !.dfr = <<>>, !.job = [t \in Threads |-> NoJob],
               !.strm = [t \in BatchThreads |-> [q |-> <<>>, eof |-> FALSE]], !.conn = {}]

Handle(M, r) ==
    CASE r.tc = "DDPut"              -> put(M, Main, r)
      [] r.tc = "DDBPut"             -> IF r.batch THEN StartBatch(M, <<"bput", r.c>>, r)
                                        ELSE bput(M, Main, r)
      [] r.tc = "DDBatchPut"         -> StartBatch(M, <<"batch", r.c>>, r)
      [] r.tc = "DDGet"              -> get(M, r)
      [] r.tc = "DDPop"              -> pop(M, r)
      [] r.tc = "DDContains"         -> contains(M, r)
      [] r.tc = "DDLength"           -> get_length(M, r)
      [] r.tc = "DDClear"            -> clear(M, r)
      [] r.tc = "DDKeys"             -> keys(M, r)
      [] r.tc = "DDValues"           -> values(M, r)
      [] r.tc = "DDItems"            -> items(M, r)
      [] r.tc = "DDSync"             -> Goto(Forward(M, r), Main, "sync")
      [] r.tc = "DDManagerStats"     -> get_stats(M, r)
      [] r.tc = "DDManagerNewestChkptID" -> get_newest_chkpt_id(M, r)
      [] r.tc = "DDFreeze"           -> freeze(M, r)
      [] r.tc = "DDUnFreeze"         -> unfreeze(M, r)
      [] r.tc = "DDGetFreeze"        -> get_freeze(M, r)
      [] r.tc = "DDChkptAvail"       -> chkpt_avail(M, r)
      [] r.tc = "DDPersistedChkptAvail" -> persisted_chkpt_avail(M, r)
      [] r.tc = "DDPersistChkpts"    -> persist_chkpts(M, r)
      [] r.tc = "DDPersist"          -> persist(M, r)
      [] r.tc = "DDRestore"          -> restore(M, r)
      [] r.tc = "DDAdvance"          -> advance(M, r)
      [] r.tc = "DDRegisterClient"   -> register_client(M, r)
      [] r.tc = "DDConnectToManager" -> connect_to_manager(M, r)
      [] r.tc = "DDRegisterClientID" -> register_clientID(M, r)
      [] r.tc = "DDDeregisterClient" -> deregister_client(M, r)
      [] r.tc = "DDDestroyManager"   -> destroy_manager(M)

------------------------------------------------------------------------------
(* The threads. *)

Ready(M, t) ==
    CASE M.job[t].pc = "idle"                -> FALSE
      [] M.job[t].pc \in {"drain1", "drain2"} -> ~M.lock
      [] M.job[t].pc = "sync"                -> ~Busy(M)
      [] M.job[t].pc = "recv"                -> M.strm[t].eof \/ Len(M.strm[t].q) > 1
      [] M.job[t].pc = "discard"             -> M.strm[t].eof
      [] OTHER                               -> TRUE

Step(M, t) ==
    LET r == M.job[t].req
    IN  CASE M.job[t].pc = "start"   -> Handle(M, r)
          [] M.job[t].pc = "reach"   -> PutReach(Access(M, r), t)
          [] M.job[t].pc \in {"drain1", "drain2"} ->
                Drain(Drained(M, r.x), t, IF M.job[t].pc = "drain1" THEN "end1" ELSE "end2")
          [] M.job[t].pc = "end1"    -> Goto(WriteBack(M, t), t, "perform")
          [] M.job[t].pc = "perform" -> PutPerform(Access(M, r), t)
          [] M.job[t].pc = "store"   -> PutStore(StorePair(M, M.job[t], IsBatch(t)), t)
          [] M.job[t].pc = "end2"    -> IF IsBatch(t) THEN Goto(WriteBack(M, t), t, "room")
                                        ELSE Finish(WriteBack(M, t), t, {r.x})
          [] M.job[t].pc = "defer"   -> Finish(Defer(M, r), t, {})
          [] M.job[t].pc = "sync"    -> sync(M, r)
          [] M.job[t].pc = "open"    -> BatchOpen(M, t)
          [] M.job[t].pc = "recv"    -> BatchRecv(M, t)
          [] M.job[t].pc = "room"    -> BatchRoom(M, t)
          [] M.job[t].pc = "discard" -> BatchReply(M, t, M.job[t].err)

\* The most steps a request takes.
MaxSteps == 8

\* The main thread as far as it gets when no other interferes, or one step.
Run(M, t) ==
    LET steps == IF Busy(M) THEN 1 ELSE MaxSteps
        Once(N) == IF Ready(N, t) THEN Step(N, t) ELSE N
        go[n \in 0 .. MaxSteps] == IF n = 0 THEN M ELSE Once(go[n - 1])
    IN  go[steps]

\* Deferred operations that could be done now, and that nothing will try again
\* until a later put at the same checkpoint.
Overlooked(M) ==
    {<<op.c, op.tag>> :
        op \in {o \in UNION {Range(M.dfr[x]) : x \in DOMAIN M.dfr \ M.tried} : Performable(M, o)}}

SetManager(m, M) ==
    LET N == [M EXCEPT !.out = <<>>, !.done = FALSE, !.tried = {},
                       !.missed = IF M.done THEN @ \cup Overlooked(M) ELSE @]
    IN  Post(orc, [mgr EXCEPT ![m] = N], cl, M.out)

\* The main thread, which receives a request (_recv_msg) when it has none.
ManagerMain(m) ==
    LET M == mgr[m]
        takes == M.job[Main].pc = "idle" /\ M.in # <<>>
        N == IF takes THEN [M EXCEPT !.in = Tail(@), !.job[Main] = Job("start", Head(M.in))] ELSE M
    IN  M.pc = "serving" /\ Ready(N, Main) /\ SetManager(m, Run(N, Main))

\* A thread that receives a batch.
ManagerBatch(m) ==
    \E t \in BatchThreads : Ready(mgr[m], t) /\ SetManager(m, Run(mgr[m], t))

\* A retire thread runs, in any order with the others.
ManagerRetire(m) ==
    /\ mgr[m].pc = "serving"
    /\ \E i \in DOMAIN mgr[m].ws.ret : SetManager(m, RetireThread(mgr[m], i))

\* __init__ up to _register_with_orchestrator, which reports a failure too.
ManagerStart(m) ==
    /\ mgr[m].pc = "start"
    /\ \E err \in {SUCCESS} \cup (IF m \in use.bad THEN {FAILURE} ELSE {}) :
           SetManager(m, [Send(mgr[m], "orcret", 0, DDRegisterManager(m, err))
                             EXCEPT !.pc = "register"])

\* The rest of it: the answer says whether every manager came up.
ManagerRegistered(m) ==
    LET r == Head(mgr[m].resp)
    IN  /\ mgr[m].pc = "register" /\ mgr[m].resp # <<>>
        /\ SetManager(m, [Send(mgr[m], "orcret", 0, DDCreateManagerResponse(m, r.err))
                             EXCEPT !.resp = Tail(@), !.pc = IF r.err = SUCCESS THEN "serving" ELSE "down"])
================================================================================
