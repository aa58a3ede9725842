-------------------------------- MODULE BackEnd --------------------------------
(***************************************************************************)
(* The launcher backend of every host (launcher/backend.py): its main      *)
(* thread, the two overlay threads and the channel monitor, each a step    *)
(* that takes one message.                                                 *)
(***************************************************************************)
EXTENDS LauncherState

ServicesSame == UNCHANGED <<use, fe, job, ls, ta, gs, faults>>

\* An exception in the main thread: __exit__ stops the threads, kills local
\* services if they linger, and the process ends.
BackEndDies(h) ==
    /\ be' = [be EXCEPT ![h] = [@ EXCEPT !.pc = "dead", !.recv = "gone",
                                         !.send = "gone", !.mon = "gone"]]
    /\ ls' = [ls EXCEPT ![h].pc = IF @ \in {"off", "done"} THEN @ ELSE "dead"]

------------------------------------------------------------------------------
(* run_startup *)

SendBEIsUp(h) ==
    /\ be[h].pc = "start"
    /\ IF fe.open
       THEN be' = [be EXCEPT ![h].pc = "idx"] /\ conn_in' = Append(conn_in, BEIsUp(h))
       ELSE be' = [be EXCEPT ![h].pc = "dead"] /\ UNCHANGED conn_in
    /\ UNCHANGED <<infra_in, bin, bout, la_in, ls_in, ls_stdin>> /\ ServicesSame

\* The node index arrives: pass it on to the children, start the overlay
\* threads and local services.
StartLocalServices(h) ==
    /\ be[h].pc = "idx" /\ infra_in[h] # <<>>
    /\ Head(infra_in[h]).tc = "FENodeIdxBE"
    /\ LET i == Head(infra_in[h]).node_index
           kids == ChildNodes(i, fe.nnodes, Fanout)
       IN  /\ be' = [be EXCEPT ![h] = [@ EXCEPT !.pc = "ping", !.idx = i,
                        !.state = BE_LS_STARTING, !.recv = "get", !.send = "get"]]
           /\ infra_in' = [g \in Host |->
                LET q == IF g = h THEN Tail(infra_in[g]) ELSE infra_in[g]
                IN  IF \E k \in kids : Node(k) = g
                    THEN Append(q, FENodeIdxBE(CHOOSE k \in kids : Node(k) = g))
                    ELSE q]
    /\ ls' = [ls EXCEPT ![h].pc = "idx"]
    /\ ls_stdin' = Put(ls_stdin, h, BENodeIdxLS)
    /\ UNCHANGED <<use, fe, job, conn_in, bin, bout, la_in, ls_in, ta, gs, faults>>

\* Local services answered on its standard output (LSPingBE): start the
\* channel monitor and say hello on its channel.
AttachLocalServices(h) ==
    /\ be[h].pc = "ping" /\ ls[h].pc = "beping"
    /\ be' = [be EXCEPT ![h].pc = "serve", ![h].mon = "get"]
    /\ ls_in' = Put(ls_in, h, BEPingLS)
    /\ UNCHANGED <<conn_in, infra_in, bin, bout, la_in, ls_stdin>> /\ ServicesSame

\* Local services ended before they answered.
LoseLocalServices(h) ==
    /\ be[h].pc = "ping" /\ ls[h].pc \in {"dead", "reaped"}
    /\ be' = [be EXCEPT ![h] = [@ EXCEPT !.pc = "dead", !.recv = "gone", !.send = "gone"]]
    /\ UNCHANGED <<conn_in, infra_in, bin, bout, la_in, ls_in, ls_stdin>> /\ ServicesSame

------------------------------------------------------------------------------
(* The threads *)

\* receive_messages_from_overlaynet
RecvFromFrontEnd(h) ==
    /\ be[h].recv = "get" /\ infra_in[h] # <<>>
    /\ LET m == Head(infra_in[h])
       IN  /\ bin' = Put(bin, h, m)
           /\ be' = [be EXCEPT ![h].recv = IF m.tc = "BEHalted" THEN "gone" ELSE "get"]
    /\ infra_in' = Drop(infra_in, h)
    /\ UNCHANGED <<conn_in, bout, la_in, ls_in, ls_stdin>> /\ ServicesSame

\* send_messages_to_overlaynet: an abort becomes an AbnormalTermination with
\* this host's id, a reboot one with the hosts it names; what the dispatch
\* table knows is forwarded.
Upward(h, m) ==
    CASE m.tc = "ExceptionlessAbort" -> <<AbnormalTermination({h})>>
      [] m.tc = "RebootRuntime"      -> <<AbnormalTermination(m.hosts), m>>
      [] OTHER                       -> <<m>>

SendToFrontEnd(h) ==
    /\ be[h].send = "get" /\ bout[h] # <<>>
    /\ LET m == Head(bout[h])
       IN  IF m.tc = "BEHalted" \/ ~fe.open
           THEN /\ be' = [be EXCEPT ![h].send = "gone", ![h].shutdown = TRUE]
                /\ UNCHANGED conn_in
           ELSE /\ conn_in' = conn_in \o Upward(h, m)
                /\ be' = [be EXCEPT ![h].send = IF be[h].shutdown THEN "gone" ELSE "get"]
    /\ bout' = Drop(bout, h)
    /\ UNCHANGED <<infra_in, bin, la_in, ls_in, ls_stdin>> /\ ServicesSame

\* be_channel_monitor: an AbnormalTermination is turned into an abort, or
\* swallowed once this backend tears down.
MonitorChannel(h) ==
    /\ be[h].mon = "get" /\ la_in[h] # <<>>
    /\ LET m == Head(la_in[h])
           abort == m.tc = "AbnormalTermination"
       IN  /\ bout' = CASE ~abort -> Put(bout, h, m)
                        [] be[h].state < BE_TEARDOWN -> Put(bout, h, ExceptionlessAbort)
                        [] OTHER -> bout
           /\ be' = [be EXCEPT ![h].state = IF m.tc = "LSChannelsUp" THEN BE_LS_UP ELSE @,
                               ![h].mon = IF m.tc = "LSHaltBE" THEN "gone" ELSE @]
    /\ la_in' = Drop(la_in, h)
    /\ UNCHANGED <<conn_in, infra_in, bin, ls_in, ls_stdin>> /\ ServicesSame

------------------------------------------------------------------------------
(* run_msg_server: one handler per message from the frontend *)

Take(h, tc) ==
    /\ be[h].pc = "serve" /\ bin[h] # <<>> /\ Head(bin[h]).tc = tc
    /\ bin' = Drop(bin, h)

\* The loop looks at the shutdown flag between messages.
Looped(b) == IF b.shutdown THEN [b EXCEPT !.pc = "wait"] ELSE b

\* Only the primary, once attached to global services, takes these two.
HandleGSProcessCreate(h) ==
    /\ Take(h, "GSProcessCreate")
    /\ IF be[h].gsq
       THEN /\ gs' = [gs EXCEPT !.in = Append(@, GSProcessCreate)]
            /\ be' = [be EXCEPT ![h] = Looped(@)]
            /\ UNCHANGED ls
       ELSE BackEndDies(h) /\ UNCHANGED gs
    /\ UNCHANGED <<use, fe, job, conn_in, infra_in, bout, la_in, ls_in, ls_stdin, ta, faults>>

HandleGSTeardown(h) ==
    /\ Take(h, "GSTeardown")
    /\ IF be[h].gsq
       THEN /\ gs' = [gs EXCEPT !.in = Append(@, GSTeardown)]
            /\ be' = [be EXCEPT ![h] = Looped([@ EXCEPT !.state = BE_TEARDOWN])]
            /\ UNCHANGED bout
       ELSE /\ bout' = Put(bout, h, GSHalted)
            /\ be' = [be EXCEPT ![h] = Looped(@)]
            /\ UNCHANGED gs
    /\ UNCHANGED <<use, fe, job, conn_in, infra_in, la_in, ls, ls_in, ls_stdin, ta, faults>>

HandleLAChannelsInfo(h) ==
    /\ Take(h, "LAChannelsInfo")
    /\ be' = [be EXCEPT ![h] = Looped([@ EXCEPT !.gsq = (be[h].idx = 0)])]
    /\ infra_in' = PutAll(infra_in, Children(h), LAChannelsInfo)
    /\ ls_in' = Put(ls_in, h, LAChannelsInfo)
    /\ UNCHANGED <<conn_in, bout, la_in, ls_stdin>> /\ ServicesSame

\* A backend whose local services are not up yet answers in their place.
HandleLSHaltTA(h) ==
    /\ Take(h, "LSHaltTA")
    /\ infra_in' = PutAll(infra_in, Children(h), LSHaltTA)
    /\ IF be[h].state >= BE_LS_UP
       THEN /\ ls_in' = Put(ls_in, h, LSHaltTA)
            /\ be' = [be EXCEPT ![h] = Looped([@ EXCEPT
                        !.state = IF be[h].idx # 0 THEN BE_TEARDOWN ELSE @])]
            /\ UNCHANGED bout
       ELSE /\ bout' = Put(bout, h, TAHalted)
            /\ be' = [be EXCEPT ![h] = Looped(@)]
            /\ UNCHANGED ls_in
    /\ UNCHANGED <<conn_in, la_in, ls_stdin>> /\ ServicesSame

HandleLSTeardown(h) ==
    /\ Take(h, "LSTeardown")
    /\ infra_in' = PutAll(infra_in, Children(h), LSTeardown)
    /\ ls_in' = Put(ls_in, h, LSTeardown)
    /\ be' = [be EXCEPT ![h] = Looped(@)]
    /\ UNCHANGED <<conn_in, bout, la_in, ls_stdin>> /\ ServicesSame

\* The last message: stop the sending thread, pass it on, and let local
\* services go; writing to local services that died is an exception.
HandleBEHalted(h) ==
    /\ Take(h, "BEHalted")
    /\ infra_in' = PutAll(infra_in, Children(h), BEHalted)
    /\ bout' = Put(bout, h, BEHalted)
    /\ IF ls[h].pc \in {"dead", "reaped"}
       THEN BackEndDies(h) /\ UNCHANGED ls_stdin
       ELSE /\ be' = [be EXCEPT ![h].shutdown = TRUE, ![h].pc = "wait"]
            /\ ls_stdin' = Put(ls_stdin, h, BEHalted)
            /\ UNCHANGED ls
    /\ UNCHANGED <<use, fe, job, conn_in, la_in, ls_in, ta, gs, faults>>

\* Join local services and end.
BackEndEnds(h) ==
    /\ be[h].pc = "wait" /\ ls[h].pc \in {"done", "dead", "reaped"}
    /\ be' = [be EXCEPT ![h] = [@ EXCEPT !.pc = "down", !.recv = "gone",
                                         !.send = "gone", !.mon = "gone"]]
    /\ UNCHANGED <<conn_in, infra_in, bin, bout, la_in, ls_in, ls_stdin>> /\ ServicesSame

BackEndStep(h) ==
    \/ SendBEIsUp(h) \/ StartLocalServices(h) \/ AttachLocalServices(h)
    \/ LoseLocalServices(h) \/ RecvFromFrontEnd(h) \/ SendToFrontEnd(h)
    \/ MonitorChannel(h) \/ HandleGSProcessCreate(h) \/ HandleGSTeardown(h)
    \/ HandleLAChannelsInfo(h) \/ HandleLSHaltTA(h) \/ HandleLSTeardown(h)
    \/ HandleBEHalted(h) \/ BackEndEnds(h)
================================================================================
