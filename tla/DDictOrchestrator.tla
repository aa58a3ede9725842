--------------------------- MODULE DDictOrchestrator ---------------------------
(***************************************************************************)
(* The orchestrator of a distributed dictionary                            *)
(* (data/ddict/orchestrator.py). It starts the managers, tells them of     *)
(* each other, hands them out to clients and takes them down again. It     *)
(* reads its main connector, or while managers come up or go down only its *)
(* return connector.                                                       *)
(***************************************************************************)
EXTENDS DDictState

All(u, box, msg) == [i \in 1 .. u.managers |-> Out(box, i - 1, msg)]

\* create: start the processes, and listen to them alone.
create(msg) ==
    Post([orc EXCEPT !.in = Tail(@), !.conn = "return", !.tag = msg.tag, !.creator = msg.c],
         [m \in DOMAIN mgr |-> [mgr[m] EXCEPT !.pc = "start"]], cl, <<>>)

\* The first error anybody reports is everybody's answer.
register_manager(msg) ==
    LET O == [orc EXCEPT !.ret = Tail(@), !.created = @ + 1,
                         !.err = IF msg.err # SUCCESS THEN msg.err ELSE @]
    IN  Post(O, mgr, cl,
             IF O.created = use.managers THEN All(use, "register", DDRegisterManagerResponse(O.err))
             ELSE <<>>)

manager_ready(msg) ==
    LET O == [orc EXCEPT !.ret = Tail(@), !.ready = @ + 1,
                         !.err = IF msg.err # SUCCESS THEN msg.err ELSE @]
    IN  IF O.ready < use.managers THEN Post(O, mgr, cl, <<>>)
        ELSE Post(IF O.err = SUCCESS THEN [O EXCEPT !.conn = "main"]
                  ELSE [O EXCEPT !.pc = "down", !.in = <<>>],
                  mgr, cl, <<Out("buf", O.creator, DDCreateResponse(O.tag, O.err))>>)

get_random_manager(msg) ==
    Post([orc EXCEPT !.in = Tail(@), !.next = (@ + 1) % use.managers], mgr, cl,
         <<Out("buf", msg.c, DDRandomManagerResponse(msg.tag, orc.next))>>)

\* From here on the main connector is not read again.
destroy_dict(msg) ==
    Post([orc EXCEPT !.in = Tail(@), !.conn = "return", !.pend = Append(@, msg)], mgr, cl,
         All(use, "manager", DDDestroyManager))

\* The last manager: stop, join the managers and answer who asked for it.
destroy_manager_response(msg) ==
    LET O == [orc EXCEPT !.ret = Tail(@), !.gone = @ + 1]
    IN  IF O.gone < use.managers THEN Post(O, mgr, cl, <<>>)
        ELSE Post([O EXCEPT !.pc = "down", !.in = <<>>], mgr, cl,
                  [i \in DOMAIN O.pend |-> Out("buf", O.pend[i].c, DDDestroyResponse(O.pend[i].tag))])

Orchestrate ==
    LET q   == IF orc.conn = "main" THEN orc.in ELSE orc.ret
        msg == Head(q)
    IN  /\ orc.pc = "serving" /\ q # <<>>
        /\ \/ msg.tc = "DDCreate" /\ create(msg)
           \/ msg.tc = "DDRegisterManager" /\ register_manager(msg)
           \/ msg.tc = "DDCreateManagerResponse" /\ manager_ready(msg)
           \/ msg.tc = "DDRandomManager" /\ get_random_manager(msg)
           \/ msg.tc = "DDDestroy" /\ destroy_dict(msg)
           \/ msg.tc = "DDDestroyManagerResponse" /\ destroy_manager_response(msg)
================================================================================
