----------------------------- MODULE NodeServices -----------------------------
(***************************************************************************)
(* The services of every host as the launcher sees them: local services    *)
(* (localservices/local_svc.py multinode and the threads of its server),   *)
(* the transport agent and, on the primary host, global services.          *)
(***************************************************************************)
EXTENDS LauncherState

LauncherSame == UNCHANGED <<use, fe, job, conn_in, infra_in, be, bin, bout, faults>>

------------------------------------------------------------------------------
(* multinode: local services' part of the bring-up *)

\* The index arrives on standard input; the answer (LSPingBE) is what lets
\* the backend attach.
LSStart(h) ==
    /\ ls[h].pc = "idx" /\ ls_stdin[h] # <<>>
    /\ ls' = [ls EXCEPT ![h].pc = "beping"]
    /\ ls_stdin' = Drop(ls_stdin, h)
    /\ UNCHANGED <<la_in, ls_in, ta, gs>> /\ LauncherSame

\* Each stage takes the next message of the channel and dies on any other
\* than the one it expects.
Stage == [beping |-> "BEPingLS", info |-> "LAChannelsInfo",
          taping |-> "TAPingLS", gsping |-> "GSPingLS"]

LSExpects(h, pc) ==
    /\ ls[h].pc = pc /\ ls_in[h] # <<>>
    /\ Head(ls_in[h]).tc = Stage[pc]
    /\ ls_in' = Drop(ls_in, h)

LSChannels(h) ==
    /\ LSExpects(h, "beping")
    /\ ls' = [ls EXCEPT ![h].pc = "info"]
    /\ la_in' = Put(la_in, h, LSChannelsUp)
    /\ UNCHANGED <<ls_stdin, ta, gs>> /\ LauncherSame

LSStartAgent(h) ==
    /\ LSExpects(h, "info")
    /\ ls' = [ls EXCEPT ![h].pc = "taping"]
    /\ ta' = [ta EXCEPT ![h] = "start"]
    /\ UNCHANGED <<la_in, ls_stdin, gs>> /\ LauncherSame

\* The agent answered: tell the launcher and, on the primary host, start
\* global services.
LSAgentUp(h) ==
    /\ LSExpects(h, "taping")
    /\ ls' = [ls EXCEPT ![h].pc = "gsping"]
    /\ la_in' = Put(la_in, h, TAUp)
    /\ gs' = IF h = Primary THEN [gs EXCEPT !.pc = "ping"] ELSE gs
    /\ UNCHANGED <<ls_stdin, ta>> /\ LauncherSame

LSServes(h) ==
    /\ LSExpects(h, "gsping")
    /\ ls' = [ls EXCEPT ![h].pc = "serve"]
    /\ gs' = [gs EXCEPT !.in = Append(@, LSPingGS)]
    /\ UNCHANGED <<la_in, ls_stdin, ta>> /\ LauncherSame

LSStartupFails(h) ==
    /\ ls[h].pc \in DOMAIN Stage /\ ls_in[h] # <<>>
    /\ Head(ls_in[h]).tc # Stage[ls[h].pc]
    /\ ls' = [ls EXCEPT ![h].pc = "dead"]
    /\ UNCHANGED <<la_in, ls_in, ls_stdin, ta, gs>> /\ LauncherSame

\* The wait for the agent or for global services times out, because some
\* service died. Off the primary host the handler for global services itself
\* raises, before it can report.
SomeServiceDied ==
    \/ gs.pc = "dead"
    \/ \E g \in Active : ta[g] = "dead" \/ ls[g].pc \in {"dead", "reaped"}

LSTimesOut(h) ==
    /\ ls_in[h] = <<>> /\ ls[h].pc \in {"taping", "gsping"} /\ SomeServiceDied
    /\ ls' = [ls EXCEPT ![h].pc = "dead"]
    /\ la_in' = IF ls[h].pc = "taping" \/ h = Primary
                THEN Put(la_in, h, AbnormalTermination({})) ELSE la_in
    /\ UNCHANGED <<ls_in, ls_stdin, ta, gs>> /\ LauncherSame

------------------------------------------------------------------------------
(* LocalServer.main_loop and its watchers *)

LSMain(h) ==
    /\ ls[h].pc = "serve" /\ ls_in[h] # <<>>
    /\ LET m == Head(ls_in[h])
       IN  /\ ls' = CASE m.tc = "TAHalted"   -> [ls EXCEPT ![h].ta_halted = TRUE]
                      [] m.tc = "LSTeardown" -> [ls EXCEPT ![h].pc = "halt"]
                      [] OTHER               -> ls
           /\ ta' = IF m.tc = "LSHaltTA" /\ ta[h] = "up"
                    THEN [ta EXCEPT ![h] = "halting"] ELSE ta
           /\ la_in' = CASE m.tc = "TAHalted" -> Put(la_in, h, m)
                         [] m.tc \in {"LSTeardown", "LSHaltTA"} -> la_in
                         [] OTHER -> Put(la_in, h, AbnormalTermination({}))
    /\ ls_in' = Drop(ls_in, h)
    /\ UNCHANGED <<ls_stdin, gs>> /\ LauncherSame

\* watch_output reads what global services wrote, then acts on it.
WatchOutputRead(h) ==
    /\ ls[h].pc = "serve" /\ h = Primary /\ gs.out
    /\ ls' = [ls EXCEPT ![h].reading = TRUE]
    /\ gs' = [gs EXCEPT !.out = FALSE]
    /\ UNCHANGED <<la_in, ls_in, ls_stdin, ta>> /\ LauncherSame

WatchOutputHalted(h) ==
    /\ ls[h].pc = "serve" /\ ls[h].reading
    /\ ls' = [ls EXCEPT ![h].reading = FALSE, ![h].gs_halted = TRUE]
    /\ la_in' = Put(la_in, h, GSHalted)
    /\ UNCHANGED <<ls_in, ls_stdin, ta, gs>> /\ LauncherSame

\* watch_death drops what the dead process still had to say, and reports a
\* critical process that had not announced its end.
WatchDeathGS(h) ==
    /\ ls[h].pc = "serve" /\ h = Primary /\ gs.pc \in {"gone", "dead"}
    /\ gs' = [gs EXCEPT !.pc = "off", !.out = FALSE]
    /\ la_in' = IF ls[h].gs_halted THEN la_in
                ELSE Put(la_in, h, AbnormalTermination({}))
    /\ UNCHANGED <<ls, ls_in, ls_stdin, ta>> /\ LauncherSame

WatchDeathTA(h) ==
    /\ ls[h].pc = "serve" /\ ta[h] \in {"gone", "dead"}
    /\ ta' = [ta EXCEPT ![h] = "off"]
    /\ la_in' = IF ls[h].ta_halted THEN la_in
                ELSE Put(la_in, h, AbnormalTermination({}))
    /\ UNCHANGED <<ls, ls_in, ls_stdin, gs>> /\ LauncherSame

\* Out of the loop: the last message to the backend, then wait to be released.
LSHalts(h) ==
    /\ ls[h].pc = "halt"
    /\ ls' = [ls EXCEPT ![h].pc = "behalted"]
    /\ la_in' = Put(la_in, h, LSHaltBE)
    /\ UNCHANGED <<ls_in, ls_stdin, ta, gs>> /\ LauncherSame

LSEnds(h) ==
    /\ ls[h].pc = "behalted" /\ ls_stdin[h] # <<>>
    /\ ls' = [ls EXCEPT ![h].pc = "done"]
    /\ ls_stdin' = Drop(ls_stdin, h)
    /\ UNCHANGED <<la_in, ls_in, ta, gs>> /\ LauncherSame

\* CriticalPopen._watch_death in the backend: local services died, say so
\* straight to the frontend.
CriticalNotice(h) ==
    /\ ls[h].pc = "dead"
    /\ ls' = [ls EXCEPT ![h].pc = "reaped"]
    /\ conn_in' = IF fe.open /\ ~BEGone(h) THEN Append(conn_in, AbnormalTermination({}))
                  ELSE conn_in
    /\ UNCHANGED <<use, fe, job, infra_in, be, bin, bout, la_in, ls_in, ls_stdin, ta, gs, faults>>

------------------------------------------------------------------------------
(* The transport agent: it serves traffic before it tells local services. *)

TAServes(h) ==
    /\ ta[h] = "start"
    /\ ta' = [ta EXCEPT ![h] = "serving"]
    /\ UNCHANGED <<la_in, ls, ls_in, ls_stdin, gs>> /\ LauncherSame

TAPings(h) ==
    /\ ta[h] = "serving"
    /\ ta' = [ta EXCEPT ![h] = "up"]
    /\ ls_in' = Put(ls_in, h, TAPingLS)
    /\ UNCHANGED <<la_in, ls, ls_stdin, gs>> /\ LauncherSame

TAHalts(h) ==
    /\ ta[h] = "halting"
    /\ ta' = [ta EXCEPT ![h] = "gone"]
    /\ ls_in' = Put(ls_in, h, TAHalted)
    /\ UNCHANGED <<la_in, ls, ls_stdin, gs>> /\ LauncherSame

------------------------------------------------------------------------------
(* Global services *)

\* startup_multi: ping every local services, through the agents.
GSPings(h) ==
    /\ gs.pc = "ping" /\ h \in Active \ gs.pinged
    /\ h = Primary \/ ta[h] \in {"serving", "up"}
    /\ gs' = [gs EXCEPT !.pinged = @ \cup {h}]
    /\ ls_in' = Put(ls_in, h, GSPingLS)
    /\ UNCHANGED <<la_in, ls, ls_stdin, ta>> /\ LauncherSame

GSTakes(tc) == gs.in # <<>> /\ Head(gs.in).tc = tc

GSStands ==
    /\ gs.pc = "ping" /\ GSTakes("LSPingGS")
    /\ LET up == gs.got + 1 = fe.nnodes
       IN  /\ gs' = [gs EXCEPT !.in = Tail(@), !.got = @ + 1,
                               !.pc = IF up THEN "serve" ELSE @]
           /\ la_in' = IF up THEN Put(la_in, Primary, GSIsUp) ELSE la_in
    /\ UNCHANGED <<ls, ls_in, ls_stdin, ta>> /\ LauncherSame

GSCreatesHead ==
    /\ gs.pc = "serve" /\ GSTakes("GSProcessCreate")
    /\ gs' = [gs EXCEPT !.in = Tail(@), !.heads = @ + 1]
    /\ la_in' = Put(la_in, Primary, GSProcessCreateResponse("SUCCESS"))
    /\ UNCHANGED <<ls, ls_in, ls_stdin, ta>> /\ LauncherSame

HeadExits ==
    /\ gs.pc = "serve" /\ gs.heads > 0
    /\ gs' = [gs EXCEPT !.heads = @ - 1]
    /\ la_in' = Put(la_in, Primary, GSHeadExit)
    /\ UNCHANGED <<ls, ls_in, ls_stdin, ta>> /\ LauncherSame

\* run_teardown: announce the end on standard output, then exit.
GSHalts ==
    /\ gs.pc = "serve" /\ GSTakes("GSTeardown")
    /\ gs' = [gs EXCEPT !.in = Tail(@), !.pc = "exiting", !.out = TRUE]
    /\ UNCHANGED <<la_in, ls, ls_in, ls_stdin, ta>> /\ LauncherSame

GSExits ==
    /\ gs.pc = "exiting"
    /\ gs' = [gs EXCEPT !.pc = "gone"]
    /\ UNCHANGED <<la_in, ls, ls_in, ls_stdin, ta>> /\ LauncherSame

ServiceStep(h) ==
    \/ LSStart(h) \/ LSChannels(h) \/ LSStartAgent(h) \/ LSAgentUp(h) \/ LSServes(h)
    \/ LSStartupFails(h) \/ LSTimesOut(h) \/ LSMain(h) \/ WatchOutputRead(h)
    \/ WatchOutputHalted(h) \/ WatchDeathGS(h) \/ WatchDeathTA(h) \/ LSHalts(h)
    \/ LSEnds(h) \/ CriticalNotice(h) \/ TAServes(h) \/ TAPings(h) \/ TAHalts(h)
    \/ GSPings(h)

GSStep == GSStands \/ GSCreatesHead \/ HeadExits \/ GSHalts \/ GSExits

------------------------------------------------------------------------------
(* Failures *)

Fault(kind) == kind \in use.kinds /\ faults < use.faults /\ faults' = faults + 1

LSCrashes(h) ==
    /\ Fault("ls") /\ ls[h].pc \notin {"off", "done", "dead", "reaped"}
    /\ ls' = [ls EXCEPT ![h].pc = "dead"]
    /\ UNCHANGED <<use, fe, job, conn_in, infra_in, be, bin, bout, la_in, ls_in, ls_stdin, ta, gs>>

TACrashes(h) ==
    /\ Fault("ta") /\ ta[h] \in {"start", "serving", "up", "halting"}
    /\ ta' = [ta EXCEPT ![h] = "dead"]
    /\ UNCHANGED <<use, fe, job, conn_in, infra_in, be, bin, bout, la_in, ls, ls_in, ls_stdin, gs>>

GSCrashes ==
    /\ Fault("gs") /\ gs.pc \in {"ping", "serve"}
    /\ gs' = [gs EXCEPT !.pc = "dead"]
    /\ UNCHANGED <<use, fe, job, conn_in, infra_in, be, bin, bout, la_in, ls, ls_in, ls_stdin, ta>>

\* The head process cannot be started.
HeadFails ==
    /\ Fault("head") /\ gs.pc = "serve" /\ GSTakes("GSProcessCreate")
    /\ gs' = [gs EXCEPT !.in = Tail(@)]
    /\ la_in' = Put(la_in, Primary, GSProcessCreateResponse("FAIL"))
    /\ UNCHANGED <<use, fe, job, conn_in, infra_in, be, bin, bout, ls, ls_in, ls_stdin, ta>>

\* The application asks for a restart without some hosts.
Reboots ==
    /\ Fault("reboot") /\ gs.pc = "serve" /\ gs.heads > 0
    /\ \E h \in Active : la_in' = Put(la_in, Primary, RebootRuntime({h}))
    /\ UNCHANGED <<use, fe, job, conn_in, infra_in, be, bin, bout, ls, ls_in, ls_stdin, ta, gs>>

\* The workload manager signals one backend (_sigterm_handler).
BackEndSigterm(h) ==
    /\ Fault("sigterm") /\ be[h].pc \in {"ping", "serve", "wait"}
    /\ bout' = Put(bout, h, ExceptionlessAbort)
    /\ UNCHANGED <<use, fe, job, conn_in, infra_in, be, bin, la_in, ls, ls_in, ls_stdin, ta, gs>>

FaultStep ==
    \/ \E h \in Host : LSCrashes(h) \/ TACrashes(h) \/ BackEndSigterm(h)
    \/ GSCrashes \/ HeadFails \/ Reboots
===============================================================================
