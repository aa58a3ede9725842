----------------------------- MODULE OverlayTree -----------------------------
(***************************************************************************)
(* The shape of the launcher's overlay network (launcher/frontend.py and   *)
(* launcher/backend.py): which backends the frontend writes to, which      *)
(* backends a backend forwards a broadcast to, and how the frontend picks  *)
(* the nodes that take part.                                               *)
(***************************************************************************)
EXTENDS Integers, FiniteSets

\* Backends with index below the fanout are the frontend's own children.
FrontEndChildren(nnodes, fanout) ==
    {i \in 0 .. nnodes - 1 : i < fanout}

\* LauncherBackEnd._get_my_child_nodes: range(fanout * (index + 1),
\* min(nnodes, fanout * (index + 1) + fanout)).
ChildNodes(index, nnodes, fanout) ==
    {i \in 0 .. nnodes - 1 : /\ fanout * (index + 1) <= i
                             /\ i < fanout * (index + 1) + fanout}

------------------------------------------------------------------------------
(***************************************************************************)
(* A network configuration gives the hosts 1 .. n, in the order of its     *)
(* keys, a state.                                                          *)
(***************************************************************************)
NodeStates == {"ACTIVE", "IDLE", "DOWN"}

InState(net, s) == {h \in DOMAIN net : net[h] = s}

\* LauncherFrontEnd._define_node_pools: when the number of active hosts is
\* not the number asked for, or a host is down, the first `want` hosts that
\* are not down become active and the others idle.
DefineNodePools(net, want) ==
    IF Cardinality(InState(net, "ACTIVE")) = want /\ InState(net, "DOWN") = {}
    THEN net
    ELSE [h \in DOMAIN net |->
            IF net[h] = "DOWN" THEN "DOWN"
            ELSE IF Cardinality({g \in DOMAIN net : g < h /\ net[g] # "DOWN"})
                        < want
                 THEN "ACTIVE" ELSE "IDLE"]

\* LauncherFrontEnd._set_node_to_down_state.
SetNodesDown(net, hosts) ==
    [h \in DOMAIN net |-> IF h \in hosts THEN "DOWN" ELSE net[h]]

\* The key mapping that construct_bcast_tree sends: active hosts are numbered
\* 0, 1, ... in the order of the configuration.
HostOf(net, i) ==
    CHOOSE h \in InState(net, "ACTIVE") :
        Cardinality({g \in InState(net, "ACTIVE") : g < h}) = i
==============================================================================
