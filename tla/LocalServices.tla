-------------------------- MODULE LocalServices --------------------------
(***************************************************************************)
(* Local services of one node (localservices/server.py): the main loop,    *)
(* which handles the messages of ls_in one at a time, and the thread that  *)
(* watches for the death of child processes.  The two share the process    *)
(* tables and the sets of process-local channel identifiers; both send to  *)
(* global services on gs_in.                                               *)
(*                                                                         *)
(* A managed process is, seen from here,                                   *)
(*   none -> running -> exited -> reaped -> popped,                        *)
(* exited being a zombie, reaped one that waitpid has returned and popped  *)
(* one that is in neither apt nor puid2pid.                                *)
(***************************************************************************)
EXTENDS Integers, FiniteSets, SequencesExt, ServiceMessages

CONSTANTS
    LsPuids,        \* the processes that may exist on the node
    LsCuids,        \* the channels of global services
    LsMuids,        \* its pools
    LsReqs,         \* requests that ask for process-local channels
    MaxLocalCuid,   \* AVAILABLE_PER_NODE: local identifiers are 1 .. MaxLocalCuid
    MaxFail         \* operating system failures that may happen

VARIABLES
    ls_in,      \* the input channel of local services
    gs_in,      \* what local services have sent to global services
    proc,       \* the processes: state, exit code, whether a signal was sent
    tbl,        \* channels, pools, local identifiers and what uses them
    main,       \* the main loop
    watch,      \* the death watcher
    lresp,      \* answers to the requests for process-local channels
    fails       \* failures so far

lsVars == <<ls_in, gs_in, proc, tbl, main, watch, lresp, fails>>

LocalCuids == 1 .. MaxLocalCuid

Idle     == [pc |-> "idle", todo |-> <<>>, out |-> <<>>, multi |-> FALSE, puid |-> 0, cuid |-> 0, req |-> 0]
Watching == [pc |-> "wait", p |-> 0, size |-> 0]

Present(p) == proc[p].st \in {"running", "exited", "reaped"}     \* p in puid2pid

\* the processes `there' run from the start, each with its LS return channel;
\* the counter of local identifiers is about to wrap around
LsInit(there) ==
    /\ ls_in = <<>> /\ gs_in = <<>>
    /\ proc = [p \in LsPuids |-> [st |-> IF p \in there THEN "running" ELSE "none", ec |-> 0, sig |-> FALSE]]
    /\ tbl = [chans |-> {}, pools |-> {}, active |-> there, next |-> MaxLocalCuid,
              props |-> [p \in LsPuids |-> IF p \in there THEN {p} ELSE {}], local |-> {}]
    /\ main = Idle /\ watch = Watching
    /\ lresp = [r \in LsReqs |-> <<>>] /\ fails = 0

-----------------------------------------------------------------------------
(* AvailableLocalCUIDS                                                      *)

Succ(c) == IF c = MaxLocalCuid THEN 1 ELSE c + 1

\* next: the first identifier not in _active from _next_available_cuid on,
\* around the range
NextCuid(t) ==
    LET free == LocalCuids \ t.active
        dist(c) == (c - t.next) % MaxLocalCuid
    IN  CHOOSE c \in free : \A d \in free : dist(c) <= dist(d)

\* make_local_channel
Alloc(t) == LET c == NextCuid(t) IN [t EXCEPT !.active = @ \cup {c}, !.next = Succ(c)]

-----------------------------------------------------------------------------
(* Channels, pools and processes for global services.                       *)

\* an operation of the memory or channel library succeeds or, while failures
\* are left, fails
Try(ok) == ok \/ fails < MaxFail
Failed(ok) == fails' = IF ok THEN fails ELSE fails + 1

create_channel(m) ==
    /\ \E ok \in BOOLEAN :
         LET can  == m.uid \notin tbl.chans /\ (m.muid = 0 \/ m.muid \in tbl.pools)
             done == can /\ ok
         IN  /\ Try(ok) /\ (~can => ok) /\ Failed(ok)
             /\ tbl' = IF done THEN [tbl EXCEPT !.chans = @ \cup {m.uid}] ELSE tbl
             /\ gs_in' = Append(gs_in, LSChannelCreateResponse(m, done))
    /\ UNCHANGED <<proc, main, watch, lresp>>

destroy_channel(m) ==
    /\ \E ok \in BOOLEAN :
         LET there == m.uid \in tbl.chans
         IN  /\ Try(ok) /\ (~there => ok) /\ Failed(ok)
             /\ tbl' = [tbl EXCEPT !.chans = @ \ {m.uid}]
             /\ gs_in' = Append(gs_in, LSChannelDestroyResponse(m, there /\ ok))
    /\ UNCHANGED <<proc, main, watch, lresp>>

create_pool(m) ==
    /\ \E ok \in BOOLEAN :
         /\ Try(ok) /\ Failed(ok)
         /\ tbl' = IF ok THEN [tbl EXCEPT !.pools = @ \cup {m.uid}] ELSE tbl
         /\ gs_in' = Append(gs_in, LSPoolCreateResponse(m, ok))
    /\ UNCHANGED <<proc, main, watch, lresp>>

destroy_pool(m) ==
    /\ \E ok \in BOOLEAN :
         LET there == m.uid \in tbl.pools
         IN  /\ Try(ok) /\ (~there => ok) /\ Failed(ok)
             /\ tbl' = [tbl EXCEPT !.pools = @ \ {m.uid}]
             /\ gs_in' = Append(gs_in, LSPoolDestroyResponse(m, there /\ ok))
    /\ UNCHANGED <<proc, main, watch, lresp>>

\* create_process: the LS return channel, then the GS return channel, then
\* the channels of stdio, then the process.  A failure at stdio or at the
\* process leaves what was made before; one at the GS return channel
\* dereferences stdin_resp, which is still None.
Outcomes(m) == {"ok", "popen"} \cup (IF m.std = 0 THEN {} ELSE {"stdio"}) \cup (IF m.ret = 0 THEN {} ELSE {"ret"})

\* what create_process does to the tables
Made(t, m, o) ==
    LET c     == NextCuid(t)
        chans == (IF o = "ret" THEN {} ELSE {m.ret}) \cup (IF o \in {"ret", "stdio"} THEN {} ELSE {m.std})
    IN  [Alloc(t) EXCEPT !.chans = @ \cup (chans \ {0}),
                         !.props[m.uid] = IF o = "ok" THEN {c} ELSE @]

\* create_process for every message of ms, the answer being queued.  An
\* exception (no GS return channel, no local identifier left) ends the loop
\* over ms and the main loop with it.
Create(ms, multi) ==
    /\ \E os \in [DOMAIN ms -> {"ok", "popen", "stdio", "ret"}], n \in 0 .. Len(ms) :
         LET bad == {i \in 1 .. n : os[i] # "ok"}
             new == {ms[i].uid : i \in 1 .. n \ bad}
             rs  == [i \in DOMAIN ms |-> LSProcessCreateResponse(ms[i], os[i] = "ok")]
             cut == n < Len(ms) \/ \E i \in bad : os[i] = "ret"
         IN  /\ \A i \in DOMAIN ms : os[i] \in Outcomes(ms[i]) /\ (i > n => os[i] = "ok")
             /\ \A i \in bad : os[i] = "ret" => i = n
             /\ n <= Cardinality(LocalCuids \ tbl.active)
             /\ n < Len(ms) => n = Cardinality(LocalCuids \ tbl.active) \/ (n > 0 /\ os[n] = "ret")
             /\ fails + Cardinality(bad) <= MaxFail
             /\ fails' = fails + Cardinality(bad)
             /\ tbl' = FoldLeftDomain(LAMBDA t, i : Made(t, ms[i], os[i]), tbl, SubSeq(ms, 1, n))
             /\ proc' = [p \in LsPuids |-> IF p \in new THEN [proc[p] EXCEPT !.st = "running"] ELSE proc[p]]
             /\ main' = IF cut THEN [Idle EXCEPT !.pc = "dead"]
                        ELSE [Idle EXCEPT !.pc = "respond",
                                          !.out = IF multi THEN <<LSMultiProcessCreateResponse(rs)>> ELSE rs]
    /\ UNCHANGED <<gs_in, watch, lresp>>

\* kill_process and kill_group go through their targets one by one
StartKill(ms, multi) ==
    /\ main' = [Idle EXCEPT !.pc = "kill", !.todo = ms, !.multi = multi]
    /\ UNCHANGED <<gs_in, proc, tbl, watch, lresp, fails>>

\* Mutant: a target not in puid2pid is answered twice.
kill_process_twice ==
    /\ main.pc = "kill" /\ main.todo # <<>>
    /\ LET m == Head(main.todo)
           a == LSProcessKillResponse(m, proc[m.uid].st \notin {"none", "reaped", "popped"})
       IN  /\ main' = [main EXCEPT !.todo = Tail(@), !.out = Append(@, a)]
           /\ proc' = [proc EXCEPT ![m.uid].sig = (proc[m.uid].st = "running")]
           /\ gs_in' = IF Present(m.uid) THEN gs_in ELSE Append(gs_in, a)
    /\ UNCHANGED <<ls_in, tbl, watch, lresp, fails>>

\* a target not in puid2pid is answered at once; one that waitpid has
\* returned is gone when the signal is sent
kill_process ==
    /\ main.pc = "kill" /\ main.todo # <<>>
    /\ LET m == Head(main.todo)
           a == LSProcessKillResponse(m, proc[m.uid].st # "reaped")
       IN  IF Present(m.uid)
           THEN /\ main' = [main EXCEPT !.todo = Tail(@), !.out = Append(@, a)]
                /\ proc' = [proc EXCEPT ![m.uid].sig = (proc[m.uid].st = "running")]
                /\ UNCHANGED gs_in
           ELSE /\ main' = [main EXCEPT !.todo = Tail(@)]
                /\ gs_in' = Append(gs_in, [a EXCEPT !.ok = FALSE])
                /\ UNCHANGED proc
    /\ UNCHANGED <<ls_in, tbl, watch, lresp, fails>>

\* main_loop's _send_response
Respond ==
    /\ main.pc = "respond" \/ (main.pc = "kill" /\ main.todo = <<>>)
    /\ gs_in' = IF main.multi THEN Append(gs_in, LSMultiProcessKillResponse(main.out))
                ELSE gs_in \o main.out
    /\ main' = Idle
    /\ UNCHANGED <<ls_in, proc, tbl, watch, lresp, fails>>

-----------------------------------------------------------------------------
(* Process-local channels, which a process asks its local services for.     *)

LocalAnswer(r, e) == lresp' = [lresp EXCEPT ![r] = Append(@, e)]

\* the check that the process is there
CheckLocal(m) ==
    /\ IF Present(m.puid)
       THEN /\ main' = [Idle EXCEPT !.pc = IF m.tc = "LSCreateProcessLocalChannel" THEN "make" ELSE "drop",
                                    !.puid = m.puid, !.cuid = m.cuid, !.req = m.req]
            /\ UNCHANGED lresp
       ELSE LocalAnswer(m.req, "INVALID_ARGUMENT") /\ UNCHANGED main
    /\ UNCHANGED <<gs_in, proc, tbl, watch, fails>>

\* make_local_channel; with no identifier left it raises a RuntimeError,
\* which is not a ChannelError and leaves the main loop
MakeLocal ==
    /\ main.pc = "make"
    /\ IF tbl.active = LocalCuids
       THEN main' = [Idle EXCEPT !.pc = "dead"] /\ UNCHANGED tbl
       ELSE tbl' = Alloc(tbl) /\ main' = [main EXCEPT !.pc = "fetch", !.cuid = NextCuid(tbl)]
    /\ UNCHANGED <<ls_in, gs_in, proc, watch, lresp, fails>>

\* self.apt[self.puid2pid[puid]], whose KeyError also leaves the main loop
FetchLocal ==
    /\ main.pc = "fetch"
    /\ main' = IF Present(main.puid) THEN [main EXCEPT !.pc = "add"] ELSE [Idle EXCEPT !.pc = "dead"]
    /\ UNCHANGED <<ls_in, gs_in, proc, tbl, watch, lresp, fails>>

AddLocal ==
    /\ main.pc = "add"
    /\ tbl' = [tbl EXCEPT !.props[main.puid] = @ \cup {main.cuid}, !.local = @ \cup {main.cuid}]
    /\ LocalAnswer(main.req, "SUCCESS")
    /\ main' = Idle
    /\ UNCHANGED <<ls_in, gs_in, proc, watch, fails>>

\* Mutant: the identifier is reclaimed whoever has it.
DropLocal_unowned ==
    /\ main.pc = "drop"
    /\ LET c == main.cuid
       IN  /\ tbl' = [tbl EXCEPT !.local = @ \ {c}, !.props[main.puid] = @ \ {c}, !.active = @ \ {c}]
           /\ LocalAnswer(main.req, "SUCCESS")
    /\ main' = Idle
    /\ UNCHANGED <<ls_in, gs_in, proc, watch, fails>>

\* destroy_process_local_channel after its check: an identifier that is not
\* a local channel is answered SUCCESS; one the process no longer has, or a
\* process that is gone, ends in the handler's exception
DropLocal ==
    /\ main.pc = "drop"
    /\ LET c     == main.cuid
           known == c \in tbl.local
           has   == Present(main.puid) /\ c \in tbl.props[main.puid]
       IN  /\ tbl' = CASE ~known -> tbl
                       [] known /\ ~has -> [tbl EXCEPT !.local = @ \ {c}]
                       [] OTHER -> [tbl EXCEPT !.local = @ \ {c}, !.props[main.puid] = @ \ {c},
                                               !.active = @ \ {c}]
           /\ LocalAnswer(main.req, IF known /\ ~has THEN "INVALID_OPERATION" ELSE "SUCCESS")
    /\ main' = Idle
    /\ UNCHANGED <<ls_in, gs_in, proc, watch, fails>>

-----------------------------------------------------------------------------
(* The main loop takes a message.                                           *)

Take ==
    /\ main.pc = "idle" /\ ls_in # <<>>
    /\ ls_in' = Tail(ls_in)
    /\ LET m == Head(ls_in)
       IN  \/ m.tc = "LSChannelCreate" /\ create_channel(m)
           \/ m.tc = "LSChannelDestroy" /\ destroy_channel(m)
           \/ m.tc = "LSPoolCreate" /\ create_pool(m)
           \/ m.tc = "LSPoolDestroy" /\ destroy_pool(m)
           \/ m.tc = "LSProcessCreate" /\ Create(<<m>>, FALSE)
           \/ m.tc = "LSMultiProcessCreate" /\ Create(m.procs, TRUE)
           \/ m.tc = "LSProcessKill" /\ StartKill(<<m>>, FALSE)
           \/ m.tc = "LSMultiProcessKill" /\ StartKill(m.procs, TRUE)
           \/ m.tc \in {"LSCreateProcessLocalChannel", "LSDestroyProcessLocalChannel"} /\ CheckLocal(m)

-----------------------------------------------------------------------------
(* The processes and the death watcher.                                     *)

\* a process exits, by itself or because of a signal
Exit(p) ==
    /\ proc[p].st = "running"
    /\ \E ec \in {0, 1} : proc' = [proc EXCEPT ![p].st = "exited", ![p].ec = ec]
    /\ UNCHANGED <<ls_in, gs_in, tbl, main, watch, lresp, fails>>

\* os.waitpid returns a child
Reap(p) ==
    /\ watch.pc = "wait" /\ proc[p].st = "exited"
    /\ proc' = [proc EXCEPT ![p].st = "reaped"]
    /\ watch' = [Watching EXCEPT !.pc = "reaped", !.p = p]
    /\ UNCHANGED <<ls_in, gs_in, tbl, main, lresp, fails>>

\* under apt_lock
Pop ==
    /\ watch.pc = "reaped"
    /\ proc' = [proc EXCEPT ![watch.p].st = "popped"]
    /\ watch' = [watch EXCEPT !.pc = "popped"]
    /\ UNCHANGED <<ls_in, gs_in, tbl, main, lresp, fails>>

\* the LSProcessExit message, and the start of the loop over local_cuids
SendExit ==
    /\ watch.pc = "popped"
    /\ gs_in' = Append(gs_in, LSProcessExit(watch.p, proc[watch.p].ec))
    /\ watch' = [watch EXCEPT !.pc = "clean", !.size = Cardinality(tbl.props[watch.p])]
    /\ UNCHANGED <<ls_in, proc, tbl, main, lresp, fails>>

\* cleanup_local_channels_pools: the loop raises when the set changed under
\* it; then the identifiers are reclaimed and the set cleared
Cleanup ==
    /\ watch.pc = "clean"
    /\ IF Cardinality(tbl.props[watch.p]) # watch.size
       THEN watch' = [watch EXCEPT !.pc = "dead"] /\ UNCHANGED tbl
       ELSE /\ tbl' = [tbl EXCEPT !.active = @ \ tbl.props[watch.p], !.props[watch.p] = {}]
            /\ watch' = Watching
    /\ UNCHANGED <<ls_in, gs_in, proc, main, lresp, fails>>

MainStep  == Take \/ kill_process \/ Respond \/ MakeLocal \/ FetchLocal \/ AddLocal \/ DropLocal
WatchStep == (\E p \in LsPuids : Reap(p)) \/ Pop \/ SendExit \/ Cleanup
=============================================================================
