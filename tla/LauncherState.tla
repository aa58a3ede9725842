----------------------------- MODULE LauncherState -----------------------------
(***************************************************************************)
(* The state the parts of the launcher share: the frontend, the backend    *)
(* and the services of every host, and the queues between them.            *)
(***************************************************************************)
EXTENDS LauncherMessages, OverlayTree, Sequences

FaultKinds == {"ls", "ta", "gs", "head", "reboot", "sigterm"}

\* One way to run the launcher: the number of hosts of the allocation, how
\* many nodes the user asks for, the overlay's fanout, how often the user
\* presses Ctrl-C, how many failures of which kinds the environment injects,
\* and the options --resilient and telemetry.
CONSTANT Uses

UseType == [hosts : Nat \ {0}, nodes : Nat \ {0}, fanout : Nat \ {0},
            sigints : Nat, faults : Nat, kinds : SUBSET FaultKinds,
            resilient : BOOLEAN, telemetry : BOOLEAN]

ASSUME LauncherAssumption ==
    Uses \subseteq UseType /\ \A u \in Uses : u.nodes <= u.hosts

VARIABLES
    use,       \* the way this runtime is run; it never changes
    fe,        \* the LauncherFrontEnd object: its flags, counters and threads
    job,       \* the restart loop around it (dragon_multi_fe.main)
    conn_in,   \* the frontend's inbound overlay queue
    infra_in,  \* per host, the backend's inbound overlay queue
    be,        \* per host, the LauncherBackEnd object
    bin,       \* per host, its la_be_stdin
    bout,      \* per host, its la_be_stdout
    la_in,     \* per host, the channel local services writes to its backend on
    ls,        \* per host, local services
    ls_in,     \* per host, its main channel
    ls_stdin,  \* per host, its standard input
    ta,        \* per host, the transport agent
    gs,        \* global services
    faults     \* failures injected so far

Host      == 1 .. use.hosts
NodeCount == use.nodes
Fanout    == use.fanout
Resilient == use.resilient

beVars  == <<be, bin, bout>>
svcVars == <<la_in, ls, ls_in, ls_stdin, ta, gs>>
vars    == <<use, fe, job, conn_in, infra_in, be, bin, bout,
              la_in, ls, ls_in, ls_stdin, ta, gs, faults>>

\* Stages of the frontend and of a backend, in the order of their enums.
NET_CONFIG        == 0
OVERLAY_STARTING  == 1
OVERLAY_UP        == 2
STARTUP           == 3
BACKEND_LAUNCHED  == 4
STOOD_UP          == 5
APP_EXECUTION     == 6
TEARDOWN          == 7
ABNORMAL_TEARDOWN == 8
LAUNCHER_DOWN     == 9

BE_OVERLAY_STARTING == 1
BE_LS_STARTING      == 4
BE_LS_UP            == 5
BE_TEARDOWN         == 8

\* Queues: put one message at the end of queue q[h], or of several queues.
Put(q, h, m)     == [q EXCEPT ![h] = Append(@, m)]
PutAll(q, hs, m) == [h \in DOMAIN q |-> IF h \in hs THEN Append(q[h], m) ELSE q[h]]
Empty            == [h \in Host |-> <<>>]
ClearQueues ==
    /\ infra_in' = Empty /\ bin' = Empty /\ bout' = Empty
    /\ la_in' = Empty /\ ls_in' = Empty /\ ls_stdin' = Empty
Drop(q, h)       == [q EXCEPT ![h] = Tail(@)]

\* The hosts that take part in this incarnation of the runtime, by node index
\* (net_conf_key_mapping).
Active      == {fe.keys[i] : i \in DOMAIN fe.keys}
Node(i)     == fe.keys[i + 1]
Primary     == Node(0)

\* Where the frontend's broadcasts go first, and where a backend's go next.
FEChildren  == {Node(i) : i \in FrontEndChildren(fe.nnodes, Fanout)}
Children(h) == {Node(i) : i \in ChildNodes(be[h].idx, fe.nnodes, Fanout)}

\* The workload manager's launch command ends when all its backends have.
BEGone(h)  == be[h].pc \in {"down", "dead"}
WlmExited  == \A h \in Active : BEGone(h)

\* Objects and processes that do not exist yet.
NewBackEnd ==
    [pc |-> "off", state |-> BE_OVERLAY_STARTING, idx |-> 0, gsq |-> FALSE,
     shutdown |-> FALSE, recv |-> "gone", send |-> "gone", mon |-> "gone"]
NewLocalServices ==
    [pc |-> "off", gs_halted |-> FALSE, ta_halted |-> FALSE, reading |-> FALSE]
NewGlobalServices ==
    [pc |-> "off", pinged |-> {}, got |-> 0, heads |-> 0, out |-> FALSE,
     in |-> <<>>]
================================================================================
