------------------------------ MODULE MCLauncher ------------------------------
(***************************************************************************)
(* Instances of the launcher for TLC.                                      *)
(***************************************************************************)
EXTENDS Launcher

Plain == [hosts |-> 1, nodes |-> 1, fanout |-> 1, sigints |-> 0, faults |-> 0,
          kinds |-> {}, resilient |-> FALSE, telemetry |-> FALSE]

Two == [Plain EXCEPT !.hosts = 2, !.nodes = 2]

\* Two nodes as a chain and as a star; a Ctrl-C at any step, and a second one;
\* a failure of an agent, of global services or of the head process and a
\* Ctrl-C; a resilient runtime with a spare host; a second head process.
MCUses ==
    { Two,
      [Two EXCEPT !.fanout = 2],
      [Plain EXCEPT !.sigints = 2],
      [Plain EXCEPT !.sigints = 1, !.faults = 1, !.kinds = {"gs", "head", "ta"}],
      [Plain EXCEPT !.hosts = 2, !.resilient = TRUE, !.faults = 1,
                    !.kinds = {"reboot", "sigterm", "ls"}],
      [Plain EXCEPT !.telemetry = TRUE] }
===============================================================================
