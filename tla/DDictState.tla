------------------------------ MODULE DDictState ------------------------------
(***************************************************************************)
(* The state of a distributed dictionary: the orchestrator that brings it  *)
(* up and takes it down, the managers that hold its keys, and the clients. *)
(* Every request is a message to a manager's main FLI; a response goes to  *)
(* one of the FLIs of the client.                                          *)
(***************************************************************************)
EXTENDS DDictCheckpoint, DDictMessages, SequencesExt

CONSTANTS
    Uses,   \* the dictionaries to check, and what their clients do with them
    Client  \* the clients, positive numbers

(***************************************************************************)
(* A use: the number of managers, the working set (size, wait_for_keys,    *)
(* wait_for_writers), the number of values a manager's pool has room for,  *)
(* persist_freq and persist_count, the highest checkpoint id, whether the  *)
(* dictionary is up already, which managers may fail to start, the manager *)
(* on the node of each client (-1 for none), the operations each client    *)
(* chooses from, and how many of them it does.                             *)
(***************************************************************************)
ASSUME UsesAssumption ==
    \A u \in Uses :
        /\ DOMAIN u = {"managers", "size", "wait", "writers", "cap", "freq", "count", "maxx", "up",
                       "bad", "home", "ops", "left"}
        /\ u.managers \in 1 .. 3 /\ u.size \in 1 .. 2
        /\ \A c \in Client : u.home[c] \in -1 .. (u.managers - 1)
        /\ \A c \in Client : \A o \in u.ops[c] : o.k \in Key \cup {-1}

VARIABLES
    use,  \* the use, chosen at the start
    orc,  \* the orchestrator
    mgr,  \* the managers
    cl    \* the clients

vars == <<use, orc, mgr, cl>>

Managers(u) == 0 .. (u.managers - 1)

\* The threads of a manager: its main loop, and one for each batch it receives.
Main == <<"main", 0>>
BatchThreads == {<<t, c>> : t \in {"batch", "bput"}, c \in Client}
Threads == {Main} \cup BatchThreads

\* What a thread is doing: its place in the code, the request, the pair it has
\* in hand, the deferred operations left over, and a batch's count and error.
Job(pc, req) ==
    [pc |-> pc, req |-> req, k |-> -1, v |-> NoVal, left |-> <<>>, n |-> 0, err |-> SUCCESS]
NoJob == Job("idle", [tc |-> "none"])

\* The last write to a key at a checkpoint, kept to state what reads should see.
Gone == -2
NoWrite == [v |-> NoVal, p |-> FALSE]

NewManager(id, u) ==
    [id |-> id, pc |-> "new", in |-> <<>>, resp |-> <<>>,
     ws |-> NewWorkingSet(0, u.size), ro |-> FALSE, dfr |-> <<>>, lock |-> FALSE,
     job |-> [t \in Threads |-> NoJob],
     strm |-> [t \in BatchThreads |-> [q |-> <<>>, eof |-> FALSE]],
     avail |-> {}, files |-> <<>>, num |-> 0, cur |-> 0, leak |-> 0, conn |-> {},
     hist |-> [w \in Key \X (0 .. (u.maxx + u.size)) |-> NoWrite],
     off |-> {}, missed |-> {}, lost |-> {}, done |-> FALSE, tried |-> {}, out |-> <<>>]

NewClient(c, u) ==
    [pc |-> "new", stage |-> "none", op |-> [op |-> "none", k |-> -1, x |-> 0, p |-> FALSE],
     chk |-> 0, tag |-> 0, main |-> -1, conns |-> <<>>, to |-> -1, todo |-> <<>>,
     box |-> "buf", wait |-> {}, need |-> 0, acc |-> {}, left |-> u.left[c],
     batch |-> "no", open |-> {}, sent |-> [m \in Managers(u) |-> 0], tags |-> {},
     btag |-> -1, root |-> -1, bnum |-> 0, stale |-> FALSE,
     buf |-> <<>>, ret |-> <<>>, iter |-> <<>>, bq |-> <<>>]

NewOrchestrator ==
    [pc |-> "serving", conn |-> "main", in |-> <<>>, ret |-> <<>>, created |-> 0, ready |-> 0,
     err |-> SUCCESS, tag |-> -1, creator |-> 0, next |-> 0, gone |-> 0, pend |-> <<>>]

------------------------------------------------------------------------------
\* A message and the queue it is for.
Out(box, to, msg) == [box |-> box, to |-> to, msg |-> msg]

\* Each queue after one message has been put in it. A batch ends with an empty
\* pair. A message to a manager or orchestrator that is down is lost.
Deliver(st, o) ==
    CASE o.box \in {"buf", "ret", "iter", "bq"} ->
            [st EXCEPT !.cl[o.to][o.box] = Append(@, o.msg)]
      [] o.box \in {"orc", "orcret"} ->
            IF st.orc.pc = "down" THEN st
            ELSE IF o.box = "orc" THEN [st EXCEPT !.orc.in = Append(@, o.msg)]
            ELSE [st EXCEPT !.orc.ret = Append(@, o.msg)]
      [] o.box \in {"manager", "register"} ->
            IF st.mgr[o.to].pc = "down" THEN st
            ELSE IF o.box = "manager" THEN [st EXCEPT !.mgr[o.to].in = Append(@, o.msg)]
            ELSE [st EXCEPT !.mgr[o.to].resp = Append(@, o.msg)]
      [] o.box = "stream" ->
            IF st.mgr[o.to[1]].pc = "down" THEN st
            ELSE IF o.msg = <<>> THEN [st EXCEPT !.mgr[o.to[1]].strm[o.to[2]].eof = TRUE]
            ELSE [st EXCEPT !.mgr[o.to[1]].strm[o.to[2]].q = Append(@, o.msg)]

\* The next state, with the messages outs in their queues.
Post(O, Ms, Cs, outs) ==
    LET st == FoldLeft(Deliver, [orc |-> O, mgr |-> Ms, cl |-> Cs], outs)
    IN  /\ orc' = st.orc
        /\ mgr' = st.mgr
        /\ cl' = st.cl
        /\ UNCHANGED use
================================================================================
