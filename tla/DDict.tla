--------------------------------- MODULE DDict ---------------------------------
(***************************************************************************)
(* The distributed dictionary: the orchestrator, its managers and the      *)
(* clients, which share nothing but their queues.                          *)
(***************************************************************************)
EXTENDS DDictManager, DDictOrchestrator, DDictClient

\* A dictionary that is up: every client has registered with its main manager.
Up(u) ==
    /\ orc = NewOrchestrator
    /\ mgr = [m \in Managers(u) |->
                 [NewManager(m, u) EXCEPT !.pc = "serving", !.conn = {c \in Client : u.home[c] = m}]]
    /\ cl = [c \in Client |->
                [NewClient(c, u) EXCEPT !.pc = "idle", !.main = u.home[c], !.conns = <<u.home[c]>>]]

Down(u) ==
    /\ orc = NewOrchestrator
    /\ mgr = [m \in Managers(u) |-> NewManager(m, u)]
    /\ cl = [c \in Client |-> NewClient(c, u)]

Init ==
    /\ use \in Uses
    /\ IF use.up THEN Up(use) ELSE Down(use)

Next ==
    \/ Orchestrate
    \/ \E m \in DOMAIN mgr :
          \/ ManagerMain(m)
          \/ ManagerBatch(m)
          \/ ManagerRetire(m)
          \/ ManagerStart(m)
          \/ ManagerRegistered(m)
    \/ \E c \in Client :
          \/ ClientCreate(c)
          \/ ClientAttach(c)
          \/ ClientAttaching(c)
          \/ ClientCall(c)
          \/ ClientReceive(c)

Spec == Init /\ [][Next]_vars

------------------------------------------------------------------------------
(* What reads see. *)

\* The checkpoints up to x at which key k was written.
Writes(M, x, k) == {y \in 0 .. x : M.hist[k, y].v # NoVal}

\* The last write to the key up to checkpoint x. With wait_for_keys only a
\* persistent key is seen by later checkpoints.
LastWrite(M, x, k) ==
    LET ys == Writes(M, x, k)
        y  == CHOOSE z \in ys : \A w \in ys : w <= z
        e  == M.hist[k, y]
    IN  IF ys = {} \/ e.v = Gone \/ (use.wait /\ y < x /\ ~e.p) THEN NoVal ELSE e.v

(***************************************************************************)
(* A read at any checkpoint of the working set finds the last value that   *)
(* was put at that checkpoint or before, however many checkpoints have     *)
(* retired since and whatever their retire threads have or have not done   *)
(* (WorkingSet.get, _retire_checkpoint, PutOp, PopOp, restore). Left out   *)
(* are the keys in M.off, where the code departs from this: a key popped   *)
(* in place while an older checkpoint holds it, a cleared one likewise, a  *)
(* put that met freed memory, a full pool or a retired checkpoint, and a   *)
(* non-persistent put over a persistent key.                               *)
(***************************************************************************)
ViewAgrees ==
    \A m \in DOMAIN mgr :
        LET M == mgr[m]
        IN  \A x \in Live(M.ws), k \in Key :
                k \notin M.off /\ <<k, x>> \in DOMAIN M.hist => View(M.ws, x, k, use) = LastWrite(M, x, k)

------------------------------------------------------------------------------
(* Who waits, and for what. *)

\* No manager and not the orchestrator has anything to do.
Quiet ==
    /\ orc.pc = "serving" /\ (IF orc.conn = "main" THEN orc.in ELSE orc.ret) = <<>>
    /\ \A m \in DOMAIN mgr :
          /\ mgr[m].pc = "serving"
          /\ mgr[m].in = <<>> \/ mgr[m].job[Main].pc # "idle"
          /\ \A t \in Threads : ~Ready(mgr[m], t)

\* An operation of client c is deferred in M, and cannot be done yet or was
\* overlooked when it could.
Deferred(M, c) ==
    \E x \in DOMAIN M.dfr : \E op \in Range(M.dfr[x]) :
        /\ op.c = c /\ op.tag \in cl[c].wait
        /\ ~Performable(M, op) \/ <<c, op.tag>> \in M.missed

Dropped(M, c) == \E tag \in cl[c].wait : <<c, tag>> \in M.lost

\* The main thread waits for a batch that its client has not ended.
BehindBatch(M) == M.job[Main].pc = "sync"

(***************************************************************************)
(* When every request has been handled, a client that still waits has an   *)
(* operation deferred for a checkpoint or a key that is not there yet; no  *)
(* response goes missing between the threads, the tree of managers and the *)
(* deferred operations (_process_deferred_ops, _send_dmsg_to_children,     *)
(* _recv_responses). The exceptions, all of this code's making: requests   *)
(* that are dropped (M.lost) or overlooked (M.missed), a manager that      *)
(* waits for a batch, a batch ended after one that raised, and advance on  *)
(* a dictionary that is not frozen.                                        *)
(***************************************************************************)
NobodyForgotten ==
    Quiet => \A c \in Client :
        cl[c].pc \in {"busy", "attach"} /\ cl[c][cl[c].box] = <<>> =>
            \/ \E m \in DOMAIN mgr :
                  Deferred(mgr[m], c) \/ Dropped(mgr[m], c) \/ BehindBatch(mgr[m])
            \/ cl[c].stale
            \/ cl[c].op.op = "advance"
================================================================================
