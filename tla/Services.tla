----------------------------- MODULE Services -----------------------------
(***************************************************************************)
(* Global services, the local services of one node and client processes.   *)
(*                                                                         *)
(* A client blocks on its request, so it has at most one outstanding; the  *)
(* arrival of a request and its handling are one step, since the order of  *)
(* requests and of messages of local services on the input channel of      *)
(* global services is arbitrary.  What local services send stays in order. *)
(* In a behaviour the clients draw their requests from one workload.       *)
(***************************************************************************)
EXTENDS GlobalServices

CONSTANTS
    Clients,        \* the processes that make requests
    Workloads,      \* names of the workloads
    Menu(_, _),     \* the requests a client makes in a workload
    Quota(_),       \* how many of them are made
    Mortal(_),      \* the processes that may exit without being killed
    MaxLocalCuid, MaxFail

VARIABLES
    gs,         \* the state of global services
    wl,         \* the workload
    asked,      \* what each request asked
    ls_in, gs_in, proc, tbl, main, watch, lresp, fails

LS == INSTANCE LocalServices WITH LsPuids <- Puids, LsCuids <- Cuids, LsMuids <- Muids, LsReqs <- Reqs

lsv  == <<ls_in, gs_in, proc, tbl, main, watch, lresp, fails>>
vars == <<gs, wl, asked, lsv>>

Init ==
    /\ gs = InitialContext(Clients, {1})
    /\ wl \in Workloads
    /\ asked = <<>>
    /\ LS!LsInit(Clients)

-----------------------------------------------------------------------------
(* Requests.                                                                *)

\* the handler of a request, by the type of the message
Handle(s, q, by, r) ==
    CASE q.tc = "GSProcessCreate"               -> ProcessConstruct(s, by, q.name, q.opt, r, TRUE)
      [] q.tc = "GSProcessKill"                 -> ProcessKill(s, q.p, r)
      [] q.tc = "GSProcessJoin"                 -> handle_process_join(s, by, q.p, q.mode, r)
      [] q.tc = "GSProcessJoinList"             -> handle_process_join_list(s, by, q.ps, q.all, q.onBad, q.mode, r)
      [] q.tc = "GSChannelCreate"               -> ChannelConstruct(s, q.name, q.muid, q.rc, r)
      [] q.tc = "GSChannelQuery"                -> handle_channel_query(s, q.c, q.inc, r)
      [] q.tc = "GSChannelJoin"                 -> handle_channel_join(s, q.name, q.mode, r)
      [] q.tc = "GSChannelDestroy"              -> ChannelDestroy(s, q.c, q.dec, r)
      [] q.tc = "GSPoolCreate"                  -> PoolConstruct(s, q.name, r)
      [] q.tc = "GSPoolDestroy"                 -> PoolDestroy(s, q.m, r)
      [] q.tc = "GSGroupCreate"                 -> GroupConstruct(s, by, q.name, q.items, q.pmi, q.opt, r)
      [] q.tc = "GSGroupCreateAddTo"            -> GroupCreateAdd(s, q.g, by, q.items, q.opt, r)
      [] q.tc = "GSGroupAddTo"                  -> GroupAdd(s, q.g, q.ps, r)
      [] q.tc = "GSGroupRemoveFrom"             -> GroupRemove(s, q.g, q.ps, r)
      [] q.tc = "GSGroupDestroyRemoveFrom"      -> GroupDestroyRemove(s, q.g, q.ps, r)
      [] q.tc = "GSGroupKill"                   -> GroupKill(s, q.g, r)
      [] OTHER                                  -> GroupDestroy(s, q.g, r)

IsLocal(q) == q.tc \in {"LSCreateProcessLocalChannel", "LSDestroyProcessLocalChannel"}

Answered(r) == gs.ans[r] # <<>> \/ lresp[r] # <<>>

\* room for what the request may create
Fits(q) ==
    LET procs == CASE q.tc = "GSProcessCreate" -> 1
                   [] q.tc \in {"GSGroupCreate", "GSGroupCreateAddTo"} -> Len(Slots(q.items))
                   [] OTHER -> 0
        per   == IF procs = 0 THEN 0 ELSE (IF q.opt.inf THEN 1 ELSE 0) + (IF q.opt.pipe THEN 1 ELSE 0)
    IN  /\ gs.np + procs <= MaxPuid
        /\ gs.nc + procs * per + (IF q.tc = "GSChannelCreate" THEN 1 ELSE 0) <= MaxCuid
        /\ q.tc = "GSPoolCreate" => gs.nm < MaxMuid
        /\ q.tc = "GSGroupCreate" => gs.ng < MaxGuid

MayAsk(by) ==
    /\ proc[by].st = "running"
    /\ \A r \in DOMAIN asked : asked[r].by = by => Answered(r)
    /\ Len(asked) < Quota(wl)

Ask(by) ==
    /\ MayAsk(by)
    /\ gs.run \in {"head", "waiting"}
    /\ \E q \in Menu(wl, by) :
         /\ ~IsLocal(q) /\ Fits(q)
         /\ asked' = Append(asked, [by |-> by, q |-> q])
         /\ gs' = Handle(gs, q, by, Len(asked) + 1)
    /\ UNCHANGED <<wl, lsv>>

\* a process asks its local services for a channel, or to destroy one
AskLocal(by) ==
    /\ MayAsk(by)
    /\ \E q \in Menu(wl, by) :
         /\ IsLocal(q)
         /\ asked' = Append(asked, [by |-> by, q |-> q])
         /\ ls_in' = Append(ls_in, [q EXCEPT !.puid = by, !.req = Len(asked) + 1])
    /\ UNCHANGED <<gs, wl, gs_in, proc, tbl, main, watch, lresp, fails>>

-----------------------------------------------------------------------------
(* The loop of global services.                                             *)

Receive ==
    /\ gs.run \in {"head", "waiting"} /\ gs_in # <<>>
    /\ gs' = Dispatch(gs, Head(gs_in))
    /\ gs_in' = Tail(gs_in)
    /\ UNCHANGED <<wl, asked, ls_in, proc, tbl, main, watch, lresp, fails>>

\* pending sends go out while there is a head and the input is empty
Flush ==
    /\ gs.run = "head" /\ gs.sends # <<>> /\ gs_in = <<>>
    /\ ls_in' = Append(ls_in, Head(gs.sends))
    /\ gs' = [gs EXCEPT !.sends = Tail(@)]
    /\ UNCHANGED <<wl, asked, gs_in, proc, tbl, main, watch, lresp, fails>>

do_timeouts ==
    /\ gs.run = "head"
    /\ gs' \in TimedOut(gs)
    /\ UNCHANGED <<wl, asked, lsv>>

-----------------------------------------------------------------------------
GsStep    == Receive \/ Flush
MainStep  == LS!MainStep /\ UNCHANGED <<gs, wl, asked>>
WatchStep == LS!WatchStep /\ UNCHANGED <<gs, wl, asked>>
Exit(p)   == LS!Exit(p) /\ (proc[p].sig \/ p \in Mortal(wl)) /\ UNCHANGED <<gs, wl, asked>>

Next ==
    \/ \E by \in Clients : Ask(by) \/ AskLocal(by)
    \/ GsStep \/ do_timeouts
    \/ MainStep \/ WatchStep
    \/ \E p \in Puids : Exit(p)

Spec == Init /\ [][Next]_vars

-----------------------------------------------------------------------------
(* Properties.                                                              *)

Gone(p) == proc[p].st \in {"exited", "reaped", "popped"}

\* nothing is under way: no message anywhere, both threads of local services
\* waiting, every process that exits or was killed accounted for
Quiet ==
    /\ gs.run = "head" /\ gs.sends = <<>>
    /\ gs_in = <<>> /\ ls_in = <<>> /\ main.pc = "idle" /\ watch.pc = "wait"
    /\ \A p \in Puids : proc[p].st \notin {"exited", "reaped"} /\ ~(proc[p].st = "running" /\ proc[p].sig)

\* No handler of global services raises, whatever the order in which the
\* answers and exits of local services arrive, unless a group was destroyed
\* (KillTargetMapped) or two members were removed from it in one request
\* (_update_ds_after_removals deletes from the list it enumerates).
NoCrash ==
    gs.run = "crashed" => \E r \in DOMAIN asked : \/ asked[r].q.tc = "GSGroupDestroy"
                                                  \/ asked[r].q.tc = "GSGroupRemoveFrom" /\ Len(asked[r].q.ps) > 1

\* A join that is answered SUCCESS is the join of a process that has exited,
\* with its exit code; so is each SUCCESS in the answer to a join list.  The
\* list is answered while it waits for some of its processes only because it
\* waits for any, or returns on a bad exit, and one of them has exited so.
JoinTruthful ==
    \A r \in DOMAIN asked : \A n \in DOMAIN gs.ans[r] :
      LET q == asked[r].q
          a == gs.ans[r][n]
          done == {p \in DOMAIN a.status : a.status[p].err = "SUCCESS"}
      IN  /\ q.tc = "GSProcessJoin" /\ a.err = "SUCCESS" => Gone(q.p) /\ a.ec = proc[q.p].ec
          /\ q.tc = "GSProcessJoinList" =>
               /\ \A p \in done : Gone(p) /\ a.status[p].ec = proc[p].ec
               /\ (\E p \in DOMAIN a.status : a.status[p].err = "PENDING")
                    => (~q.all /\ done # {}) \/ (q.onBad /\ \E p \in done : a.status[p].ec # 0)

\* A request is answered once, by one of the paths that answer it (at once,
\* by a continuation, by an exit, by a timeout).  Two are not: the stored
\* join of a channel, which stays stored when the channel is created, and a
\* destroy_remove of something that is not a member.
AnsweredOnce ==
    \A r \in DOMAIN asked :
      LET q == asked[r].q
      IN  \/ Len(gs.ans[r]) + Len(lresp[r]) <= 1
          \/ q.tc = "GSChannelJoin" /\ q.mode # "forever"
          \/ q.tc = "GSGroupDestroyRemoveFrom"

\* The server runs with a head exactly while it knows one, none it knows is
\* dead, and live_children names no process that has exited: processes are
\* created, fail to be created, exit and are killed in any order, and an exit
\* may be handled before the creation that would add the head or the child.
ProcessTree ==
    gs.run # "crashed" =>
      /\ gs.run = "head" <=> gs.heads # {}
      /\ \A p \in gs.heads : gs.pt[p].st # "dead"
      /\ \A q \in Puids : \A p \in gs.pt[q].kids :
           gs.pt[p].parent = q /\ gs.pt[p].st \in {"active", "pending"}

\* At rest the tables of global and local services agree: no continuation
\* and no early exit is left, a process is ACTIVE exactly when it runs, a
\* channel or pool exactly when it exists (but for what a failed creation of
\* a process leaves behind), and no join waits for a dead process.
TablesAgree ==
    Quiet =>
      /\ gs.pending = <<>> /\ gs.exits = <<>>
      /\ \A p \in Puids : gs.pt[p].st = "active" <=> proc[p].st = "running"
      /\ \A p \in Puids : gs.pt[p].st # "pending"
      /\ \A c \in Cuids : gs.ct[c].st = "active" => c \in tbl.chans
      /\ \A c \in tbl.chans : gs.ct[c].st = "active" \/ (gs.ct[c].st = "pending" /\ fails > 0)
      /\ \A m \in Muids : gs.mt[m].st = "active" <=> m \in tbl.pools
      /\ \A j \in gs.joins : gs.pt[j.p].st # "dead"
      /\ \A j \in gs.jlists : \A p \in j.set : gs.pt[p].st # "dead"

\* At rest every request is answered, except a join whose process has not
\* exited, a join list that still waits and the join of a channel that is
\* not there.
NothingOwed ==
    Quiet => \A r \in DOMAIN asked :
      LET q == asked[r].q
      IN  \/ Answered(r)
          \/ q.tc = "GSProcessJoin" /\ gs.pt[q.p].st # "dead"
          \/ q.tc = "GSProcessJoinList" /\ \E p \in ToSet(q.ps) : gs.pt[p].st # "dead"
          \/ q.tc = "GSChannelJoin" /\ \A c \in ChannelNamed(gs, q.name) : gs.ct[c].st # "active"

\* A process that is DEAD stays DEAD: no late answer to a creation or a kill
\* makes it ACTIVE again.
DeadStaysDead == [][\A p \in Puids : gs.pt[p].st = "dead" => gs'.pt[p].st = "dead"]_vars

\* A group that is ACTIVE awaits nothing: the counts that complete a create,
\* an addition or a kill reach zero with the last answer, not before.  Where
\* resource_to_group_map says a process is in a group, the group has that
\* process (or the empty slot it is being created for).
GroupSettled ==
    gs.run # "crashed" =>
      /\ \A g \in Guids : gs.gt[g].st = "active" =>
           \A t \in DOMAIN gs.pending : gs.pending[t].k \in {"group create", "group add", "group kill"}
                                          => gs.pending[t].g # g
      /\ \A p \in DOMAIN gs.r2g :
           LET sets == gs.gt[gs.r2g[p][1]].sets
               i    == gs.r2g[p][2]
               j    == gs.r2g[p][3]
           IN  i \in DOMAIN sets /\ j \in DOMAIN sets[i] /\ sets[i][j].uid \in {0, p}

\* The PMI identifiers of two live groups on a host do not overlap.
PmiDisjoint ==
    \A g, h \in Guids :
      LET a == gs.gt[g]
          b == gs.gt[h]
      IN  g # h /\ a.st \in {"active", "pending"} /\ b.st \in {"active", "pending"} /\ a.pmi > 0 /\ b.pmi > 0
            => a.pmi + a.ranks <= b.pmi \/ b.pmi + b.ranks <= a.pmi

\* A process-local channel identifier belongs to one process and is marked
\* in use while it does, although the main loop hands identifiers out while
\* the death watcher reclaims those of a process that exits.
LocalOwners ==
    /\ \A p, q \in Puids : p # q => tbl.props[p] \cap tbl.props[q] = {}
    /\ \A p \in Puids : tbl.props[p] \subseteq tbl.active

\* "this p_uid should exist in server.resource_to_group_map dict", says
\* complete_kill of the process whose kill is answered.
KillTargetMapped ==
    \A t \in DOMAIN gs.pending : gs.pending[t].k = "group kill" => t[2] \in DOMAIN gs.r2g
=============================================================================
