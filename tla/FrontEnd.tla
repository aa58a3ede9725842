------------------------------- MODULE FrontEnd -------------------------------
(***************************************************************************)
(* The launcher frontend (launcher/frontend.py).  Its main thread runs the *)
(* bring-up, starts the application, serves messages and tears down; a     *)
(* SIGINT handler and the clean-up routines run on top of whatever it was  *)
(* doing, so the main thread is a stack of frames [at, flag].  Two more    *)
(* threads move messages between the main thread and the overlay network.  *)
(***************************************************************************)
EXTENDS LauncherState

Frame(at, flag) == [at |-> at, flag |-> flag]

\* A new LauncherFrontEnd object, about to read its network configuration.
NewFrontEnd(net) ==
    [state |-> NET_CONFIG, stack |-> <<Frame("net_config", FALSE)>>,
     net |-> net, keys |-> <<>>, nnodes |-> NodeCount, got |-> 0, bad |-> FALSE,
     creates |-> 0, exits |-> 0, tas |-> 0, halts |-> 0,
     shutdown |-> FALSE, abn |-> FALSE, bumpy |-> FALSE, sigs |-> 0,
     wlm |-> FALSE, open |-> FALSE, outs |-> FALSE,
     recv |-> "gone", send |-> "gone", held |-> <<>>,
     stdin |-> <<>>, stdout |-> <<>>,
     exiting |-> FALSE, exc |-> "none", stood |-> FALSE]

Top        == fe.stack[Len(fe.stack)]
At(l)      == fe.stack # <<>> /\ Top.at = l
Goto(f, l) == [f EXCEPT !.stack[Len(f.stack)].at = l]
Call(f, l, flag) == [f EXCEPT !.stack = Append(@, Frame(l, flag))]
Ret(f)     == [f EXCEPT !.stack = SubSeq(@, 1, Len(@) - 1)]

\* An exception x: draining the inbound queue swallows any but a
\* KeyboardInterrupt; the first one that leaves the with-block runs __exit__,
\* and one that leaves __exit__ ends the object.
Raise(f, x) ==
    LET drains == {i \in DOMAIN f.stack : f.stack[i].at = "drain"}
    IN  IF drains # {} /\ x # "kbd"
        THEN LET i == CHOOSE i \in drains : \A j \in drains : j <= i
             IN  Goto([f EXCEPT !.stack = SubSeq(@, 1, i)], "drained")
        ELSE IF f.exiting
        THEN [f EXCEPT !.stack = <<>>, !.exc = x]
        ELSE [f EXCEPT !.stack = <<Frame("cleanup", FALSE)>>,
                       !.exiting = TRUE, !.exc = x]

\* Steps that touch no backend, and steps of the frontend's object alone.
NoNodeStep == UNCHANGED <<infra_in, beVars, svcVars>>
MainOnly   == UNCHANGED <<use, job, conn_in, faults>> /\ NoNodeStep

\* Mutant: the backends are killed, their local services are not.
KillBackends_backends_only ==
    /\ be' = [h \in Host |-> IF be[h].pc = "off" THEN be[h]
                             ELSE [be[h] EXCEPT !.pc = "dead", !.recv = "gone",
                                                !.send = "gone", !.mon = "gone"]]
    /\ UNCHANGED <<ls, ta, gs>>
    /\ ClearQueues

\* SIGKILL to the launch command, or dragon-cleanup: nothing of the backend
\* survives.
KillBackends ==
    /\ be' = [h \in Host |-> IF be[h].pc = "off" THEN be[h]
                             ELSE [be[h] EXCEPT !.pc = "dead", !.recv = "gone",
                                                !.send = "gone", !.mon = "gone"]]
    /\ ls' = [h \in Host |-> [ls[h] EXCEPT !.pc = IF @ = "off" THEN @ ELSE "reaped"]]
    /\ ta' = [h \in Host |-> "off"]
    /\ gs' = NewGlobalServices
    /\ ClearQueues

------------------------------------------------------------------------------
(* Handlers of messages from the backend, shared by the message server, the
   abnormal takedown and the draining of the inbound queue.  A handler
   returns the object, what it broadcast itself, and what it put on its own
   inbound queue. *)

Handled(f, bc, cin) == [fe |-> f, bc |-> bc, cin |-> cin]

\* probe_teardown
ProbeTeardown(f) ==
    IF f.exits = f.creates /\ f.exits > 0
    THEN [f EXCEPT !.state = IF @ = ABNORMAL_TEARDOWN THEN @ ELSE TEARDOWN,
                   !.stdout = Append(@, <<"P", GSTeardown>>)]
    ELSE f

HandleHeadExit(f) ==
    Handled(ProbeTeardown([f EXCEPT !.exits = @ + 1]), <<>>, <<>>)

HandleCreateResponse(f, m) ==
    IF m.err = "SUCCESS"
    THEN Handled(ProbeTeardown([f EXCEPT !.creates = @ + 1]), <<>>, <<>>)
    ELSE Handled(Call(f, "abn", FALSE), <<>>, <<>>)

HandleGSHalted(f) ==
    IF f.state # ABNORMAL_TEARDOWN
    THEN Handled([f EXCEPT !.stdout = Append(@, <<"A", LSHaltTA>>)], <<>>, <<>>)
    ELSE Handled(f, <<LSHaltTA>>, <<>>)

\* Mutant: the first agent to halt counts for all.
HandleTAHalted_first(f) ==
    LET g == [f EXCEPT !.tas = @ + 1]
    IN  IF g.tas # 1 THEN Handled(g, <<>>, <<>>)
        ELSE Handled(IF g.state = ABNORMAL_TEARDOWN THEN g
                     ELSE [g EXCEPT !.stdout = Append(@, <<"A", LSTeardown>>)],
                     <<LSTeardown>>, <<>>)

\* Outside an abnormal teardown the order goes out twice, through the sending
\* thread and directly.
HandleTAHalted(f) ==
    LET g == [f EXCEPT !.tas = @ + 1]
    IN  IF g.tas # g.nnodes THEN Handled(g, <<>>, <<>>)
        ELSE Handled(IF g.state = ABNORMAL_TEARDOWN THEN g
                     ELSE [g EXCEPT !.stdout = Append(@, <<"A", LSTeardown>>)],
                     <<LSTeardown>>, <<>>)

\* Mutant: nothing wakes the frontend's own receiving thread.
HandleLSHaltBE_unwoken(f) ==
    LET g == [f EXCEPT !.halts = @ + 1]
    IN  CASE g.halts # g.nnodes -> Handled(g, <<>>, <<>>)
          [] g.state = ABNORMAL_TEARDOWN -> Handled(g, <<BEHalted>>, <<>>)
          [] OTHER -> Handled([g EXCEPT !.stdout = Append(@, <<"A", BEHalted>>),
                                        !.shutdown = TRUE], <<>>, <<>>)

\* The last backend: release them all, and the receiving thread.
HandleLSHaltBE(f) ==
    LET g == [f EXCEPT !.halts = @ + 1]
    IN  CASE g.halts # g.nnodes -> Handled(g, <<>>, <<>>)
          [] g.state = ABNORMAL_TEARDOWN -> Handled(g, <<BEHalted>>, <<>>)
          [] OTHER -> Handled([g EXCEPT !.stdout = Append(@, <<"A", BEHalted>>),
                                        !.shutdown = TRUE],
                              <<>>, <<BEHalted>>)

HandleLAExit(f, m) ==
    Handled(IF m.sigint THEN Goto(f, "leave") ELSE Raise(f, "sysexit"), <<>>, <<>>)

FEMessages == {"GSHeadExit", "GSProcessCreateResponse", "GSHalted", "TAHalted",
               "LSHaltBE", "ExceptionlessAbort", "LAExit"}

\* The dispatch table of the frontend; other messages are only logged.
Dispatch(f, m) ==
    CASE m.tc = "GSHeadExit"              -> HandleHeadExit(f)
      [] m.tc = "GSProcessCreateResponse" -> HandleCreateResponse(f, m)
      [] m.tc = "GSHalted"                -> HandleGSHalted(f)
      [] m.tc = "TAHalted"                -> HandleTAHalted(f)
      [] m.tc = "LSHaltBE"                -> HandleLSHaltBE(f)
      [] m.tc = "ExceptionlessAbort"      -> Handled(Call(f, "abn", FALSE), <<>>, <<>>)
      [] m.tc = "LAExit"                  -> HandleLAExit(f, m)
      [] OTHER                            -> Handled(f, <<>>, <<>>)

\* A broadcast fails silently once the connections are closed.
Broadcast(q, f, msgs) ==
    IF msgs = <<>> \/ ~f.outs THEN q ELSE PutAll(q, FEChildren, Head(msgs))

------------------------------------------------------------------------------
(* Bring up: run_startup. *)

\* Read the network configuration and pick the nodes to use.
DefineNetwork ==
    /\ At("net_config")
    /\ LET net == DefineNodePools(fe.net, NodeCount)
           n == Cardinality(InState(net, "ACTIVE"))
       IN  fe' = IF n = 0 THEN Raise(fe, "runtime")
                 ELSE Goto([fe EXCEPT !.net = net, !.nnodes = n, !.open = TRUE,
                                      !.keys = [i \in 1 .. n |-> HostOf(net, i - 1)],
                                      !.state = OVERLAY_STARTING], "overlay")
    /\ MainOnly

\* The overlay agent has answered: start the two overlay threads.
OverlayStarted ==
    /\ At("overlay")
    /\ fe' = Goto([fe EXCEPT !.state = OVERLAY_UP, !.recv = "check",
                             !.send = "check"], "launch")
    /\ MainOnly

BeginLaunch ==
    /\ At("launch")
    /\ fe' = Goto([fe EXCEPT !.state = STARTUP], "spawn")
    /\ MainOnly

\* The launch command runs before the frontend has hold of its process object.
LaunchBackend ==
    /\ At("spawn")
    /\ fe' = Goto(fe, "assign")
    /\ be' = [h \in Host |-> IF h \in Active THEN [be[h] EXCEPT !.pc = "start"] ELSE be[h]]
    /\ UNCHANGED <<use, job, conn_in, infra_in, bin, bout, svcVars, faults>>

BackendLaunched ==
    /\ At("assign")
    /\ fe' = Goto([fe EXCEPT !.wlm = TRUE, !.state = BACKEND_LAUNCHED], "be_ups")
    /\ MainOnly

\* Take one message of a round of n; its type is looked at once all n are in.
Collect(want, l, n) ==
    LET m == Head(fe.stdin)
        f == [fe EXCEPT !.stdin = Tail(@), !.got = @ + 1,
                        !.bad = @ \/ m.tc # want]
    IN  CASE f.got < n -> f
          [] f.bad     -> Raise(f, "assert")
          [] OTHER     -> Goto([f EXCEPT !.got = 0], l)

\* All backends are up: send the children their index (construct_bcast_tree).
CollectBackends ==
    /\ At("be_ups") /\ fe.stdin # <<>>
    /\ LET f == Collect("BEIsUp", "chs_up", fe.nnodes)
           up == f.stack[Len(f.stack)].at = "chs_up"
       IN  /\ fe' = [f EXCEPT !.outs = up]
           /\ infra_in' =
                IF ~up THEN infra_in
                ELSE [h \in Host |->
                        IF h \notin FEChildren THEN infra_in[h]
                        ELSE Append(infra_in[h], FENodeIdxBE(
                                CHOOSE i \in 0 .. fe.nnodes - 1 : Node(i) = h))]
    /\ UNCHANGED <<use, job, conn_in, beVars, svcVars, faults>>

CollectChannels ==
    /\ At("chs_up") /\ fe.stdin # <<>>
    /\ LET f == Collect("LSChannelsUp", "tas_up", fe.nnodes)
       IN  fe' = IF f.stack[Len(f.stack)].at = "tas_up"
                 THEN [f EXCEPT !.stdout = Append(@, <<"A", LAChannelsInfo>>)]
                 ELSE f
    /\ MainOnly

CollectAgents ==
    /\ At("tas_up") /\ fe.stdin # <<>>
    /\ fe' = Collect("TAUp", "gs_up", fe.nnodes)
    /\ MainOnly

CollectGS ==
    /\ At("gs_up") /\ fe.stdin # <<>>
    /\ LET f == Collect("GSIsUp", "run_app", 1)
       IN  fe' = IF f.stack[Len(f.stack)].at = "run_app"
                 THEN [f EXCEPT !.state = STOOD_UP, !.stood = TRUE] ELSE f
    /\ MainOnly

\* run_app and run_telem: ask global services for a head process.
RunHead ==
    /\ At("run_app") \/ At("run_telem")
    /\ fe' = Goto([fe EXCEPT !.state = APP_EXECUTION,
                             !.stdout = Append(@, <<"P", GSProcessCreate>>)],
                  IF At("run_app") /\ use.telemetry THEN "run_telem" ELSE "serve")
    /\ MainOnly

------------------------------------------------------------------------------
(* run_msg_server *)

\* Back at the top of the loop after a handler.
LoopCheck(f) == Goto(f, IF f.halts = f.nnodes THEN "closing" ELSE "serve")

ServeMessage ==
    /\ At("serve") /\ fe.stdin # <<>>
    /\ LET f == Goto([fe EXCEPT !.stdin = Tail(@)], "served")
           r == Dispatch(f, Head(fe.stdin))
       IN  /\ fe' = IF r.fe.stack = f.stack THEN LoopCheck(r.fe) ELSE r.fe
           /\ infra_in' = Broadcast(infra_in, fe, r.bc)
           /\ conn_in' = conn_in \o r.cin
    /\ UNCHANGED <<use, job, beVars, svcVars, faults>>

Served ==
    /\ At("served") /\ fe' = LoopCheck(fe)
    /\ MainOnly

CloseServer ==
    /\ At("closing")
    /\ fe' = Call(Goto(fe, "wlm_wait"), "close_recv", fe.abn)
    /\ MainOnly

WaitWlm ==
    /\ At("wlm_wait") /\ WlmExited
    /\ fe' = Call(Goto(fe, "leave"), "drain", FALSE)
    /\ MainOnly

LeaveServer ==
    /\ At("leave")
    /\ fe' = IF fe.sigs > 0 THEN Raise(fe, "kbd")
             ELSE Raise([fe EXCEPT !.state = LAUNCHER_DOWN], "none")
    /\ MainOnly
===============================================================================
