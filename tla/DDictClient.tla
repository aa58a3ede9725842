------------------------------ MODULE DDictClient ------------------------------
(***************************************************************************)
(* A client of the distributed dictionary (data/ddict/ddict.py, class      *)
(* DDict): it creates or attaches to the dictionary and does one operation *)
(* at a time, without a timeout. An operation connects to the managers it  *)
(* needs, sends its request and waits for the responses; an exception ends *)
(* the operation and the program goes on.                                  *)
(***************************************************************************)
EXTENDS DDictState

\* _choose_manager_pickle_key: the hash of the key.
Owner(k) == k % use.managers

\* The value of a put, one for each operation of a client.
Value(C, c) == 10 * c + C.left

\* A client and the messages it sends.
Does(C, outs) == [C |-> C, outs |-> outs]

\* Send a request and wait for need responses to it in one of the queues.
Ask(C, stage, box, need, to, msg) ==
    Does([C EXCEPT !.pc = "busy", !.stage = stage, !.tag = @ + 1, !.box = box, !.wait = {msg.tag},
                   !.need = need, !.acc = {}],
         <<Out(to[1], to[2], msg)>>)

Return(C) ==
    Does([C EXCEPT !.pc = "idle", !.stage = "none", !.wait = {}, !.need = 0, !.acc = {}, !.todo = <<>>,
                   !.root = IF C.batch = "no" THEN -1 ELSE @],
         <<>>)

AskAll(C, stage, msg) == Ask(C, stage, "buf", use.managers, <<"manager", 0>>, msg)

------------------------------------------------------------------------------
(* Requests. *)

Iterators == {"keys", "values", "items"}

\* The managers an operation must be connected to.
Targets(C) ==
    CASE C.op.op \in {"put", "get", "pop", "contains"} -> {Owner(C.op.k)}
      [] C.op.op = "bput" -> {C.root}
      [] C.op.op \in {"bget", "frozen", "detach", "destroy", "end"} -> {}
      [] C.op.op \in Iterators -> Managers(use)
      [] OTHER -> {0}

\* A pair of a batch: the first one for a manager opens a stream to it.
BatchPut(C, c, t, m, msg) ==
    LET first == IF t = "batch" THEN m \notin C.open ELSE C.btag = -1
        pair  == Out("stream", <<m, <<t, c>>>>, <<C.op.k, Value(C, c)>>)
        sent  == IF t = "batch" THEN [C EXCEPT !.open = @ \cup {m}, !.sent[m] = @ + 1,
                                               !.tags = IF first THEN @ \cup {msg.tag} ELSE @]
                 ELSE [C EXCEPT !.bnum = @ + 1, !.btag = IF first THEN msg.tag ELSE @]
    IN  IF first THEN Does([Return(sent).C EXCEPT !.tag = @ + 1], <<Out("manager", m, msg), pair>>)
        ELSE Does(Return(sent).C, <<pair>>)

\* _put, _batch_put and bput.
Put(C, c) ==
    LET o == C.op
        m == Owner(o.k)
        v == Value(C, c)
    IN  IF C.batch = "no"
        THEN Ask(C, "ask", "buf", 1, <<"manager", m>>, DDPut(C.tag, c, C.chk, o.k, v, o.p))
        ELSE BatchPut(C, c, "batch", m, DDBatchPut(C.tag, c, C.chk, o.p))

BPut(C, c) ==
    LET v == Value(C, c)
        msg == DDBPut(C.tag, c, C.chk, C.todo, C.batch # "no", C.op.k, v)
    IN  IF C.batch = "no"
        THEN Ask(C, "ask", "buf", use.managers, <<"manager", C.root>>, msg)
        ELSE BatchPut(C, c, "bput", C.root, msg)

\* The second half of end_batch_put.
EndBatch(C, c) ==
    LET puts == {m \in Managers(use) : C.sent[m] > 0}
        N == [C EXCEPT !.pc = "busy", !.stage = "end", !.box = "buf", !.wait = C.tags,
                       !.need = Cardinality(puts), !.acc = {}, !.open = {}, !.tags = {},
                       !.stale = puts # C.open]
    IN  IF puts = {} THEN Return(C)
        ELSE Does(N, LET ms == SetToSeq(C.open)
                     IN  [i \in DOMAIN ms |-> Out("stream", <<ms[i], <<"batch", c>>>>, <<>>)])

\* end_batch_put: first the broadcast puts, which raise at the first error.
EndBatchPut(C, c) ==
    LET N == [C EXCEPT !.batch = "no"]
    IN  IF C.root = -1 \/ C.btag = -1 THEN EndBatch(N, c)
        ELSE Does([N EXCEPT !.pc = "busy", !.stage = "endb", !.box = "bq", !.wait = {C.btag},
                            !.need = use.managers, !.acc = {}, !.root = -1],
                  <<Out("stream", <<C.root, <<"bput", c>>>>, <<>>)>>)

\* keys, values, items and detach go through the list of managers one by one.
AskOne(C, box, m, msg) == Ask(C, "ask", box, 1, <<"manager", m>>, msg)

KeysRequest(C, c, m)   == AskOne(C, "iter", m, DDKeys(C.tag, c, C.chk))
ValuesRequest(C, c, m) == AskOne(C, "iter", m, DDValues(C.tag, c, C.chk))
ItemsRequest(C, c, m)  == AskOne(C, "iter", m, DDItems(C.tag, c, C.chk))
DetachRequest(C, c, m) == AskOne(C, "buf", m, DDDeregisterClient(C.tag, c))

AskNext(C, c) ==
    LET m == Head(C.todo)
        N == [C EXCEPT !.todo = Tail(@)]
    IN  IF C.todo = <<>> THEN Return(C)
        ELSE CASE C.op.op = "keys"   -> KeysRequest(N, c, m)
               [] C.op.op = "values" -> ValuesRequest(N, c, m)
               [] C.op.op = "items"  -> ItemsRequest(N, c, m)
               [] C.op.op = "detach" -> DetachRequest(N, c, m)

\* One key: its manager, or for bget the main manager, answers.
GetRequest(C, c)      == AskOne(C, "ret", Owner(C.op.k), DDGet(C.tag, c, C.chk, C.op.k))
BGetRequest(C, c)     == AskOne(C, "ret", C.main, DDGet(C.tag, c, C.chk, C.op.k))
PopRequest(C, c)      == AskOne(C, "ret", Owner(C.op.k), DDPop(C.tag, c, C.chk, C.op.k))
ContainsRequest(C, c) == AskOne(C, "buf", Owner(C.op.k), DDContains(C.tag, c, C.chk, C.op.k))
IsFrozenRequest(C, c) == AskOne(C, "buf", C.main, DDGetFreeze(C.tag, c))

\* The whole dictionary: every manager answers.
LenRequest(C, c)      == AskAll(C, "ask", DDLength(C.tag, c, C.chk))
ClearRequest(C, c)    == AskAll(C, "ask", DDClear(C.tag, c, C.chk))
SyncRequest(C, c)     == AskAll(C, "ask", DDSync(C.tag, c))
StatsRequest(C, c)    == AskAll(C, "ask", DDManagerStats(C.tag, c))
NewestRequest(C, c)   == AskAll(C, "ask", DDManagerNewestChkptID(C.tag, c))
FreezeRequest(C, c)   == AskAll(C, "ask", DDFreeze(C.tag, c))
UnfreezeRequest(C, c) == AskAll(C, "ask", DDUnFreeze(C.tag, c))
IdsRequest(C, c)      == AskAll(C, "ask", DDPersistChkpts(C.tag, c))
AdvanceRequest(C, c)  == AskAll(C, "ask", DDAdvance(C.tag, c))
DestroyRequest(C, c)  == Ask(C, "ask", "buf", 1, <<"orc", 0>>, DDDestroy(C.tag, c))

\* persist and restore ask first whether every manager has the checkpoint.
ChkptAvail(C, c)          == AskAll(C, "avail", DDChkptAvail(C.tag, c, C.chk))
PersistedChkptAvail(C, c) == AskAll(C, "avail", DDPersistedChkptAvail(C.tag, c, C.op.x))
PersistRequest(C, c)      == AskAll(C, "ask", DDPersist(C.tag, c, C.chk))
RestoreRequest(C, c, x)   == AskAll(C, "restore", DDRestore(C.tag, c, x))

Request(C, c) ==
    CASE C.op.op = "put"      -> Put(C, c)
      [] C.op.op = "bput"     -> BPut(C, c)
      [] C.op.op = "get"      -> GetRequest(C, c)
      [] C.op.op = "bget"     -> BGetRequest(C, c)
      [] C.op.op = "pop"      -> PopRequest(C, c)
      [] C.op.op = "contains" -> ContainsRequest(C, c)
      [] C.op.op = "frozen"   -> IsFrozenRequest(C, c)
      [] C.op.op = "len"      -> LenRequest(C, c)
      [] C.op.op = "clear"    -> ClearRequest(C, c)
      [] C.op.op = "sync"     -> SyncRequest(C, c)
      [] C.op.op = "stats"    -> StatsRequest(C, c)
      [] C.op.op = "newest"   -> NewestRequest(C, c)
      [] C.op.op = "freeze"   -> FreezeRequest(C, c)
      [] C.op.op = "unfreeze" -> UnfreezeRequest(C, c)
      [] C.op.op = "ids"      -> IdsRequest(C, c)
      [] C.op.op = "persist"  -> ChkptAvail(C, c)
      [] C.op.op = "restore"  -> PersistedChkptAvail(C, c)
      [] C.op.op = "advance"  -> AdvanceRequest(C, c)
      [] C.op.op = "end"      -> EndBatchPut(C, c)
      [] C.op.op = "destroy"  -> DestroyRequest(C, c)
      [] C.op.op \in Iterators \cup {"detach"} -> AskNext(C, c)

\* _check_manager_connection, then the request.
Proceed(C, c) ==
    LET new == Targets(C) \ Range(C.conns)
        m   == CHOOSE i \in new : \A j \in new : i <= j
    IN  IF new = {} THEN Request(C, c)
        ELSE Ask([C EXCEPT !.to = m], "connect", "buf", 1, <<"manager", C.main>>,
                 DDConnectToManager(C.tag, c, m))

------------------------------------------------------------------------------
(* Responses. *)

\* What a client keeps of a response until all of them are there: the error,
\* whether it is what was hoped for, and a checkpoint id.
Gathered(C, msg) ==
    [err |-> msg.err,
     ok  |-> CASE msg.tc \in {"DDChkptAvailResponse", "DDPersistedChkptAvailResponse"} -> msg.available
               [] msg.tc = "DDBatchPutResponse" -> msg.n = C.sent[msg.m]
               [] msg.tc = "DDBPutResponse"     -> C.stage = "ask" \/ msg.n = C.bnum
               [] OTHER -> TRUE,
     x   |-> IF msg.tc \in {"DDManagerNewestChkptIDResponse", "DDAdvanceResponse"} THEN msg.x ELSE 0]

\* clear and broadcast puts raise at the first error.
RaisesAtOnce(C) == C.stage = "endb" \/ (C.stage = "ask" /\ C.op.op \in {"clear", "bput"})

Succeeded(C) == \A a \in C.acc : a.err = SUCCESS /\ a.ok

Answers(C) == {a.x : a \in C.acc}

\* The end of a batch: an error leaves the counts of the puts as they are.
BatchEnded(C) ==
    IF Succeeded(C) THEN Return([C EXCEPT !.sent = [m \in DOMAIN @ |-> 0]]) ELSE Return(C)

\* sync_to_newest_checkpoint: the newest checkpoint any manager has.
SyncToNewest(C) ==
    Return([C EXCEPT !.chk = CHOOSE x \in Answers(C) : \A y \in Answers(C) : y <= x])

\* advance: restore the oldest of the checkpoints the managers moved on to.
Advanced(C, c) ==
    LET x == CHOOSE y \in Answers(C) : \A z \in Answers(C) : y <= z
    IN  IF Succeeded(C) THEN RestoreRequest([C EXCEPT !.chk = x], c, x) ELSE Return(C)

\* All responses to what was asked last are there.
Complete(C, c) ==
    LET o == C.op
    IN  CASE C.stage = "connect" ->
                Ask(C, "id", "buf", 1, <<"manager", C.to>>, DDRegisterClientID(C.tag, c))
          [] C.stage = "id"      -> Proceed([C EXCEPT !.conns = Append(@, C.to)], c)
          [] C.stage = "end"     -> BatchEnded(C)
          [] C.stage = "endb"    -> IF Succeeded(C) THEN EndBatch([C EXCEPT !.bnum = 0, !.btag = -1], c) ELSE Return(C)
          [] C.stage = "avail"   ->
                IF ~Succeeded(C) THEN Return(C)
                ELSE IF o.op = "persist" THEN PersistRequest(C, c)
                ELSE RestoreRequest(C, c, o.x)
          [] C.stage = "restore" ->
                IF Succeeded(C) THEN Return([C EXCEPT !.chk = IF o.op = "restore" THEN o.x ELSE @])
                ELSE Return(C)
          [] C.stage = "ask"     ->
                CASE o.op = "newest"  -> SyncToNewest(C)
                  [] o.op = "advance" -> Advanced(C, c)
                  [] o.op \in Iterators /\ ~Succeeded(C) -> Return(C)
                  [] o.op \in Iterators \cup {"detach"} -> AskNext(C, c)
                  [] OTHER -> Return(C)

\* Take the head of the queue: toss it, or count it.
Receive(C, c) ==
    LET q   == C[C.box]
        msg == Head(q)
        N   == [C EXCEPT ![C.box] = Tail(@)]
        G   == [N EXCEPT !.need = @ - 1, !.acc = @ \cup {Gathered(C, msg)},
                         !.wait = IF C.stage = "end" /\ Cardinality(@) > 1 THEN @ \ {msg.ref} ELSE @]
    IN  IF msg.ref \notin C.wait THEN Does(N, <<>>)
        ELSE IF RaisesAtOnce(C) /\ msg.err # SUCCESS THEN Return(G)
        ELSE IF G.need > 0 THEN Does(G, <<>>)
        ELSE Complete(G, c)

------------------------------------------------------------------------------
(* The actions of a client. *)

SetClient(c, d) == Post(orc, mgr, [cl EXCEPT ![c] = d.C], d.outs)

Creator == CHOOSE c \in Client : \A d \in Client : c <= d

\* _create, for the client that creates the dictionary.
ClientCreate(c) ==
    /\ cl[c].pc = "new" /\ c = Creator
    /\ SetClient(c, [Ask(cl[c], "create", "buf", 1, <<"orc", 0>>, DDCreate(cl[c].tag, c)) EXCEPT !.C.pc = "attach"])

\* _get_main_manager, then _register_client_to_main_manager.
GetMain(C, c) ==
    IF use.home[c] >= 0
    THEN Ask([C EXCEPT !.main = use.home[c]], "register", "buf", 1, <<"manager", use.home[c]>>,
             DDRegisterClient(C.tag, c))
    ELSE Ask(C, "main", "buf", 1, <<"orc", 0>>, DDRandomManager(C.tag, c))

\* Another process gets the dictionary once it has been created.
ClientAttach(c) ==
    /\ cl[c].pc = "new" /\ c # Creator /\ cl[Creator].conns # <<>>
    /\ SetClient(c, [GetMain(cl[c], c) EXCEPT !.C.pc = "attach"])

ClientAttaching(c) ==
    LET C   == [cl[c] EXCEPT !.buf = Tail(@)]
        msg == Head(cl[c].buf)
    IN  /\ cl[c].pc = "attach" /\ cl[c].buf # <<>>
        /\ \/ /\ C.stage = "create" /\ msg.err = SUCCESS
              /\ SetClient(c, [GetMain(C, c) EXCEPT !.C.pc = "attach"])
           \/ /\ C.stage = "create" /\ msg.err # SUCCESS
              /\ SetClient(c, Does([C EXCEPT !.pc = "stopped"], <<>>))
           \/ /\ C.stage = "main"
              /\ SetClient(c, [Ask([C EXCEPT !.main = msg.m], "register", "buf", 1, <<"manager", msg.m>>,
                                   DDRegisterClient(C.tag, c)) EXCEPT !.C.pc = "attach"])
           \/ /\ C.stage = "register"
              /\ SetClient(c, Return([C EXCEPT !.conns = <<C.main>>]))

\* The calls a client makes. Bounds: no checkpoint beyond the last one, and no
\* batch of broadcast puts after one that raised.
Allowed(C, c, o) ==
    CASE o.op = "checkpoint" -> C.batch = "no" /\ C.chk < use.maxx
      [] o.op \in {"rollback", "restore", "start"} -> C.batch = "no"
      [] o.op = "end"        -> C.batch # "no"
      [] o.op = "put"        -> C.batch # (IF o.p THEN "np" ELSE "p")
      [] o.op = "bput"       -> C.batch # "p" /\ (C.batch = "np" => C.root # -1 \/ C.btag = -1)
      [] o.op = "detach"     -> c = Creator
      [] OTHER               -> TRUE

\* The operations that only change the client.
Locals == {"checkpoint", "rollback", "start"}

Checkpoint(C)    == [C EXCEPT !.chk = @ + 1]
Rollback(C)      == [C EXCEPT !.chk = IF @ = 0 THEN 0 ELSE @ - 1]
StartBatchPut(C) == [C EXCEPT !.batch = IF C.op.p THEN "p" ELSE "np"]

Local(C) ==
    CASE C.op.op = "checkpoint" -> Checkpoint(C)
      [] C.op.op = "rollback"   -> Rollback(C)
      [] C.op.op = "start"      -> StartBatchPut(C)

Shuffled == {s \in [1 .. use.managers -> Managers(use)] : Range(s) = Managers(use)}

\* The list of managers an operation goes through: random for the first
\* broadcast put, in order for the iterators and by connection for detach.
Lists(C) ==
    CASE C.op.op = "bput" /\ C.root = -1 -> Shuffled
      [] C.op.op \in Iterators           -> {[i \in 1 .. use.managers |-> i - 1]}
      [] C.op.op = "detach"              -> {C.conns}
      [] OTHER                           -> {<<>>}

ClientCall(c) ==
    /\ cl[c].pc = "idle" /\ cl[c].left > 0
    /\ \E o \in use.ops[c] :
          LET C == [cl[c] EXCEPT !.op = o,
                                 !.left = IF o.op \in {"detach", "destroy"} THEN 0 ELSE @ - 1]
          IN  /\ Allowed(C, c, o)
              /\ IF o.op \in Locals THEN SetClient(c, Does(Local(C), <<>>))
                 ELSE \E ms \in Lists(C) :
                        SetClient(c, Proceed([C EXCEPT !.todo = ms,
                                     !.root = IF o.op = "bput" /\ ms # <<>> THEN ms[1] ELSE @], c))

ClientReceive(c) ==
    /\ cl[c].pc = "busy" /\ cl[c][cl[c].box] # <<>>
    /\ SetClient(c, Receive(cl[c], c))
================================================================================
