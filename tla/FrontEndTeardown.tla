--------------------------- MODULE FrontEndTeardown ---------------------------
(***************************************************************************)
(* The rest of the launcher frontend: closing its threads, taking down a   *)
(* backend after a failure or a SIGINT, the clean-up every exit runs, the  *)
(* signal handlers, the two overlay threads, and the loop of               *)
(* launcher/dragon_multi_fe.py that restarts a resilient runtime.          *)
(***************************************************************************)
EXTENDS FrontEnd

(* _close_threads(abnormal) *)

CloseRecv ==
    /\ At("close_recv")
    /\ IF fe.recv = "gone"
       THEN fe' = Goto(fe, "close_send") /\ UNCHANGED conn_in
       ELSE /\ fe' = Goto([fe EXCEPT !.shutdown = @ \/ Top.flag], "join_recv")
            /\ conn_in' = IF Top.flag THEN Append(conn_in, HaltOverlay) ELSE conn_in
    /\ UNCHANGED <<use, job, faults>> /\ NoNodeStep

JoinRecv ==
    /\ At("join_recv") /\ fe.recv = "gone"
    /\ fe' = Goto(fe, "close_send")
    /\ MainOnly

CloseSend ==
    /\ At("close_send")
    /\ fe' = IF fe.send = "gone" THEN Ret(fe)
             ELSE Goto([fe EXCEPT !.shutdown = @ \/ Top.flag,
                          !.stdout = IF Top.flag THEN Append(@, <<"A", HaltOverlay>>)
                                     ELSE @], "join_send")
    /\ MainOnly

JoinSend ==
    /\ At("join_send") /\ fe.send = "gone"
    /\ fe' = Ret(fe)
    /\ MainOnly

------------------------------------------------------------------------------
(* _cleanup_abnormal_state(sigint) and _takedown_abnormal_backend; the
   frame's flag is sigint. *)

BeginAbnormal ==
    /\ At("abn")
    /\ fe' = Call(Goto([fe EXCEPT !.abn = @ \/ ~Top.flag], "takedown"),
                  "close_recv", TRUE)
    /\ MainOnly

\* Only a runtime that stood up is asked to tear itself down.
Takedown ==
    /\ At("takedown")
    /\ LET try == STOOD_UP <= fe.state /\ fe.state < TEARDOWN
           f == IF try THEN [fe EXCEPT !.state = ABNORMAL_TEARDOWN] ELSE fe
       IN  IF try /\ fe.outs
           THEN /\ fe' = Goto(f, "loop")
                /\ infra_in' = Put(infra_in, Primary, GSTeardown)
           ELSE fe' = Goto(f, "abn_wlm") /\ UNCHANGED infra_in
    /\ UNCHANGED <<use, job, conn_in, beVars, svcVars, faults>>

\* The takedown loop reads the inbound queue itself. It goes on after an
\* AbnormalTermination and gives up on a message it does not route.
TakedownLoop ==
    /\ At("loop") /\ fe.open /\ conn_in # <<>>
    /\ LET m == Head(conn_in)
           r == Dispatch(fe, m)
           routed == m.tc \in FEMessages
       IN  /\ fe' = CASE m.tc = "AbnormalTermination" -> fe
                      [] routed -> r.fe
                      [] OTHER  -> Goto(fe, "abn_wlm")
           /\ infra_in' = IF routed THEN Broadcast(infra_in, fe, r.bc) ELSE infra_in
           /\ conn_in' = Tail(conn_in) \o (IF routed THEN r.cin ELSE <<>>)
    /\ UNCHANGED <<use, job, beVars, svcVars, faults>>

\* No message within _sigint_timeout.
TakedownTimeout ==
    /\ At("loop") /\ fe.open /\ conn_in = <<>>
    /\ fe' = Goto(fe, "abn_wlm")
    /\ MainOnly

\* A takedown that a second one interrupted finds its queue closed.
TakedownClosed ==
    /\ At("loop") /\ ~fe.open
    /\ fe' = Raise(fe, "attr")
    /\ MainOnly

\* The launch command has ended.
AbnormalWait ==
    /\ At("abn_wlm") /\ WlmExited
    /\ fe' = Call(Goto([fe EXCEPT !.bumpy = @ /\ ~Resilient], "abn_end"), "drain", FALSE)
    /\ MainOnly

\* It has not within the timeout, or the runtime is resilient and its remains
\* are removed before anything else.
AbnormalKill ==
    /\ At("abn_wlm") /\ ~WlmExited
    /\ fe' = Call(Goto([fe EXCEPT !.bumpy = ~Resilient], "abn_end"), "drain", FALSE)
    /\ KillBackends
    /\ UNCHANGED <<use, job, conn_in, faults>>

EndAbnormal ==
    /\ At("abn_end")
    /\ fe' = Ret([fe EXCEPT !.stdin = Append(@, LAExit(Top.flag)),
                            !.state = LAUNCHER_DOWN, !.bumpy = FALSE])
    /\ IF fe.bumpy THEN KillBackends ELSE NoNodeStep
    /\ UNCHANGED <<use, job, conn_in, faults>>

------------------------------------------------------------------------------
(* _close_comm_overlaynet: empty the inbound queue, then close everything. *)

Drain ==
    /\ At("drain") /\ fe.open /\ conn_in # <<>>
    /\ LET m == Head(conn_in)
           r == Dispatch(fe, m)
           routed == m.tc \in FEMessages
       IN  /\ fe' = CASE m.tc = "AbnormalTermination" -> Goto(fe, "drained")
                      [] routed -> r.fe
                      [] OTHER  -> fe
           /\ infra_in' = IF routed THEN Broadcast(infra_in, fe, r.bc) ELSE infra_in
           /\ conn_in' = Tail(conn_in) \o (IF routed THEN r.cin ELSE <<>>)
    /\ UNCHANGED <<use, job, beVars, svcVars, faults>>

CloseComm ==
    /\ At("drained") \/ (At("drain") /\ (~fe.open \/ conn_in = <<>>))
    /\ fe' = Ret([fe EXCEPT !.open = FALSE, !.outs = FALSE])
    /\ conn_in' = <<>>
    /\ UNCHANGED <<use, job, faults>> /\ NoNodeStep

------------------------------------------------------------------------------
(* _cleanup(sigint), which __exit__ runs with sigint FALSE. *)

BeginCleanup ==
    /\ At("cleanup")
    /\ fe' = Call(Goto(fe, "cleanup_backend"), "close_recv", TRUE)
    /\ MainOnly

CleanupBackend ==
    /\ At("cleanup_backend")
    /\ LET f == Goto(fe, "cleanup_wlm")
       IN  fe' = IF STARTUP < fe.state /\ fe.state < LAUNCHER_DOWN
                 THEN Call(f, "abn", Top.flag) ELSE f
    /\ MainOnly

CleanupWlm ==
    /\ At("cleanup_wlm")
    /\ fe' = Call(Goto(fe, "cleanup_end"), "drain", FALSE)
    /\ IF fe.wlm /\ ~WlmExited THEN KillBackends ELSE NoNodeStep
    /\ UNCHANGED <<use, job, conn_in, faults>>

EndCleanup ==
    /\ At("cleanup_end")
    /\ LET f == [fe EXCEPT !.bumpy = FALSE]
       IN  fe' = IF fe.abn THEN Raise(f, "runtime") ELSE Ret(f)
    /\ IF fe.bumpy THEN KillBackends ELSE NoNodeStep
    /\ UNCHANGED <<use, job, conn_in, faults>>

------------------------------------------------------------------------------
(* Signals. The handler's frames go on top of the stack. *)

\* The route of the signal table for the frontend's state.
SignalRoute(f) ==
    CASE f.state = NET_CONFIG ->
            Call(Call(f, "raise_kbd", FALSE), "drain", FALSE)
      [] f.state = OVERLAY_STARTING ->
            Call(Call([f EXCEPT !.state = OVERLAY_UP], "raise_kbd", FALSE), "drain", FALSE)
      [] f.state = OVERLAY_UP ->
            Call(Call(Call(f, "raise_kbd", FALSE), "drain", FALSE), "close_recv", TRUE)
      [] f.state \in {STARTUP, BACKEND_LAUNCHED} ->
            Call(Call(f, "raise_kbd", FALSE), "cleanup", TRUE)
      [] f.state \in {STOOD_UP, APP_EXECUTION} ->
            Call(f, "abn", TRUE)
      [] OTHER ->
            Call([f EXCEPT !.bumpy = TRUE], "abn", TRUE)

Sigint ==
    /\ fe.stack # <<>> /\ fe.sigs < use.sigints
    /\ fe' = SignalRoute([fe EXCEPT !.sigs = @ + 1, !.bumpy = @ \/ fe.sigs > 0])
    /\ MainOnly

RaiseInterrupt ==
    /\ At("raise_kbd") /\ fe' = Raise(fe, "kbd")
    /\ MainOnly

------------------------------------------------------------------------------
(* The overlay threads. *)

RecvCheck ==
    /\ fe.recv = "check"
    /\ fe' = [fe EXCEPT !.recv = IF fe.shutdown THEN "gone" ELSE "get"]
    /\ MainOnly

\* recv_msgs_from_overlaynet: an AbnormalTermination marks its hosts down and
\* reaches the main thread as an ExceptionlessAbort, unless a teardown runs.
RecvGet ==
    /\ fe.recv = "get" /\ conn_in # <<>>
    /\ conn_in' = Tail(conn_in)
    /\ LET m == Head(conn_in)
       IN  fe' =
             CASE m.tc = "AbnormalTermination" ->
                    [fe EXCEPT !.abn = TRUE, !.net = SetNodesDown(@, m.hosts),
                               !.recv = "check",
                               !.stdin = IF fe.state < TEARDOWN
                                         THEN Append(@, ExceptionlessAbort) ELSE @]
               [] m.tc \in {"HaltOverlay", "BEHalted"} ->
                    [fe EXCEPT !.recv = "gone", !.shutdown = TRUE]
               [] OTHER ->
                    [fe EXCEPT !.recv = "check", !.stdin = Append(@, m)]
    /\ UNCHANGED <<use, job, faults>> /\ NoNodeStep

SendCheck ==
    /\ fe.send = "check"
    /\ fe' = [fe EXCEPT !.send = IF fe.shutdown THEN "gone" ELSE "get"]
    /\ MainOnly

SendGet ==
    /\ fe.send = "get" /\ fe.stdout # <<>>
    /\ LET f == [fe EXCEPT !.stdout = Tail(@)]
       IN  fe' = IF Head(fe.stdout)[2].tc = "HaltOverlay"
                 THEN [f EXCEPT !.send = "gone", !.shutdown = TRUE]
                 ELSE [f EXCEPT !.send = "put", !.held = Head(fe.stdout)]
    /\ MainOnly

SendPut ==
    /\ fe.send = "put"
    /\ LET m == fe.held[2]
           last == m.tc = "BEHalted"
       IN  /\ infra_in' = PutAll(infra_in, IF fe.held[1] = "P" THEN {Primary}
                                           ELSE FEChildren, m)
           /\ fe' = [fe EXCEPT !.held = <<>>, !.shutdown = @ \/ last,
                               !.send = IF last THEN "gone" ELSE "check"]
    /\ UNCHANGED <<use, job, conn_in, beVars, svcVars, faults>>

------------------------------------------------------------------------------
(* dragon_multi_fe.main *)

Available(net) == Cardinality(InState(net, "ACTIVE") \cup InState(net, "IDLE"))

\* An object has ended. The loop sees the configuration run_startup last
\* returned; the first count of hosts includes the frontend's own entry.
MainLoop ==
    /\ fe.stack = <<>> /\ job.result = "running"
    /\ LET conf  == IF fe.stood THEN fe.net ELSE job.conf
           avail == Available(conf)
           last  == IF job.last >= 0 THEN job.last
                    ELSE IF conf = <<>> THEN 0 ELSE use.hosts + 1
           again == /\ Resilient /\ fe.exc \in {"runtime", "assert", "attr"}
                    /\ last # avail /\ avail >= NodeCount
       IN  IF again
           THEN /\ job' = [job EXCEPT !.conf = conf, !.last = avail]
                /\ fe' = NewFrontEnd(conf)
                /\ be' = [h \in Host |-> NewBackEnd]
                /\ ls' = [h \in Host |-> NewLocalServices]
                /\ gs' = NewGlobalServices
                /\ ta' = [h \in Host |-> "off"]
                /\ ClearQueues
           ELSE /\ job' = [job EXCEPT !.result = fe.exc]
                /\ UNCHANGED fe /\ NoNodeStep
    /\ UNCHANGED <<use, conn_in, faults>>

FrontEndStep ==
    \/ DefineNetwork \/ OverlayStarted \/ BeginLaunch \/ LaunchBackend
    \/ BackendLaunched \/ CollectBackends \/ CollectChannels \/ CollectAgents
    \/ CollectGS \/ RunHead \/ ServeMessage \/ Served \/ CloseServer \/ WaitWlm
    \/ LeaveServer \/ CloseRecv \/ JoinRecv \/ CloseSend \/ JoinSend
    \/ BeginAbnormal \/ Takedown \/ TakedownLoop \/ TakedownTimeout
    \/ TakedownClosed \/ AbnormalWait \/ AbnormalKill \/ EndAbnormal
    \/ Drain \/ CloseComm \/ BeginCleanup \/ CleanupBackend \/ CleanupWlm
    \/ EndCleanup \/ RaiseInterrupt \/ RecvCheck \/ RecvGet \/ SendCheck
    \/ SendGet \/ SendPut \/ MainLoop
===============================================================================
