------------------------------- MODULE Launcher -------------------------------
(***************************************************************************)
(* The launcher as a whole: the frontend, a backend and the services of    *)
(* every host, signals from the user and failures of the environment.      *)
(***************************************************************************)
EXTENDS FrontEndTeardown, BackEnd, NodeServices

Init ==
    /\ use \in Uses
    /\ fe = NewFrontEnd([h \in Host |-> IF h <= NodeCount THEN "ACTIVE" ELSE "IDLE"])
    /\ job = [conf |-> <<>>, last |-> -1, result |-> "running"]
    /\ be = [h \in Host |-> NewBackEnd]
    /\ ls = [h \in Host |-> NewLocalServices]
    /\ ta = [h \in Host |-> "off"]
    /\ gs = NewGlobalServices
    /\ infra_in = Empty /\ bin = Empty /\ bout = Empty
    /\ la_in = Empty /\ ls_in = Empty /\ ls_stdin = Empty
    /\ conn_in = <<>> /\ faults = 0

\* What the system does by itself.
Step ==
    \/ FrontEndStep
    \/ \E h \in Host : BackEndStep(h) \/ ServiceStep(h)
    \/ GSStep

Next == Step \/ Sigint \/ FaultStep

Spec == Init /\ [][Next]_vars

------------------------------------------------------------------------------
(* The ways an orderly teardown, or a bring-up, is known to wait for ever
   when nobody presses Ctrl-C. *)

Returned == job.result # "running"

\* watch_death reaped global services before watch_output read its GSHalted.
HaltedLost ==
    gs.pc = "off" /\ ls[Primary].pc = "serve" /\ ~ls[Primary].gs_halted

\* The sending thread saw the shutdown flag before it took BEHalted.
SenderGone ==
    fe.send = "gone" /\ \E i \in DOMAIN fe.stdout : fe.stdout[i] = <<"A", BEHalted>>

\* A backend ended by an exception; nobody watches the launch command.
NoticeLost == \E h \in Active : be[h].pc = "dead"

\* A service failed once the teardown had begun; both ends skip the report.
SkippedFailure == fe.state = TEARDOWN /\ faults > 0

(***************************************************************************)
(* When no part of the launcher can take another step, the frontend has    *)
(* returned to the shell: after a Ctrl-C always, whatever the stage, the   *)
(* thread and the clean-up it hit; without one, unless one of the four     *)
(* waits above has happened. (frontend.py: run_msg_server, _cleanup, the   *)
(* signal table and the joins of _close_threads.)                          *)
(***************************************************************************)
LauncherReturns ==
    (~ ENABLED Step) =>
        \/ Returned
        \/ /\ fe.sigs = 0
           /\ HaltedLost \/ SenderGone \/ NoticeLost \/ SkippedFailure

(***************************************************************************)
(* A frontend that had hold of its launch command leaves nothing of the    *)
(* backend running when it ends, so that neither the shell nor a resilient *)
(* restart meets a backend or local services of the old runtime.           *)
(* (_cleanup, _cleanup_abnormal_state, _kill_backend.)                     *)
(***************************************************************************)
NothingLeft ==
    fe.stack = <<>> /\ fe.wlm =>
        \A h \in Host : /\ be[h].pc \in {"off", "down", "dead"}
                        /\ ls[h].pc \in {"off", "done", "dead", "reaped"}

(***************************************************************************)
(* Services go down in the order of the teardown protocol, orderly or not: *)
(* an agent is halted only after global services is, and local services    *)
(* leave their loop only after every agent is, so that nothing is cut off  *)
(* that still needs it. (handle_gs_halted, handle_ta_halted and            *)
(* handle_sh_halt_be of the frontend.)                                     *)
(***************************************************************************)
TeardownOrder ==
    /\ (\E h \in Active : ta[h] \in {"halting", "gone"})
            => gs.pc \notin {"ping", "serve"}
    /\ (\E h \in Active : ls[h].pc \in {"halt", "behalted", "done"})
            => \A h \in Active : ta[h] \notin {"start", "serving", "up", "halting"}
===============================================================================
