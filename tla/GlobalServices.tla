-------------------------- MODULE GlobalServices --------------------------
(***************************************************************************)
(* The event loop of global services (server.py): the handlers of the      *)
(* requests of clients and of the answers of local services, the stored    *)
(* joins with their timeouts, and the loop itself.                         *)
(*                                                                         *)
(* pending_join, pending_join_list and pending_channel_joins are sets of   *)
(* entries; a PriorityMultiMap keeps the same entries keyed by what they   *)
(* wait for, plus a heap of the deadlines of the timed ones.               *)
(***************************************************************************)
EXTENDS GSGroups

\* a timeout of at most 100 microseconds, a longer one, or none
Modes == {"now", "timed", "forever"}

-----------------------------------------------------------------------------
(* Joins.                                                                   *)

\* Mutant: the state of the process is not looked at.
handle_process_join_late(s, by, p, mode, r) ==
    CASE s.pt[p].st = "none" -> Reply(s, r, GSProcessJoinResponse("UNKNOWN", NoCode))
      [] s.pt[p].st # "none" /\ p = by -> Reply(s, r, GSProcessJoinResponse("SELF", NoCode))
      [] s.pt[p].st # "none" /\ p # by /\ mode = "now" -> Reply(s, r, GSProcessJoinResponse("TIMEOUT", NoCode))
      [] OTHER -> [s EXCEPT !.joins = @ \cup {[p |-> p, req |-> r, timed |-> mode = "timed"]}]

handle_process_join(s, by, p, mode, r) ==
    CASE s.pt[p].st = "none" -> Reply(s, r, GSProcessJoinResponse("UNKNOWN", NoCode))
      [] s.pt[p].st # "none" /\ p = by -> Reply(s, r, GSProcessJoinResponse("SELF", NoCode))
      [] s.pt[p].st = "dead" /\ p # by -> Reply(s, r, GSProcessJoinResponse("SUCCESS", s.pt[p].ec))
      [] s.pt[p].st \in {"pending", "active"} /\ p # by /\ mode = "now" -> Reply(s, r, GSProcessJoinResponse("TIMEOUT", NoCode))
      [] OTHER -> [s EXCEPT !.joins = @ \cup {[p |-> p, req |-> r, timed |-> mode = "timed"]}]

JoinStatus(s, by, p, mode) ==
    CASE s.pt[p].st = "none" -> [err |-> "UNKNOWN", ec |-> NoCode]
      [] s.pt[p].st # "none" /\ p = by -> [err |-> "SELF", ec |-> NoCode]
      [] s.pt[p].st = "dead" /\ p # by -> [err |-> "SUCCESS", ec |-> s.pt[p].ec]
      [] OTHER -> [err |-> IF mode = "now" THEN "TIMEOUT" ELSE "PENDING", ec |-> NoCode]

\* The request waits while nothing it names has exited, or for all of them
\* with join_all; with return_on_bad_exit the exit code of the last process
\* named decides whether there was a bad exit.
handle_process_join_list(s, by, list, all, onBad, mode, r) ==
    LET status  == [p \in ToSet(list) |-> JoinStatus(s, by, p, mode)]
        waiting == {p \in ToSet(list) : status[p].err = "PENDING"}
        success == {p \in ToSet(list) : status[p].err = "SUCCESS"}
        nonzero == status[Last(list)].err = "SUCCESS" /\ status[Last(list)].ec # 0
    IN  IF ~(onBad /\ nonzero) /\ waiting # {} /\ (all \/ success = {})
        THEN [s EXCEPT !.jlists = @ \cup {[set |-> waiting, req |-> r, timed |-> mode = "timed",
                                           all |-> all, onBad |-> onBad, status |-> status]}]
        ELSE Reply(s, r, GSProcessJoinListResponse(status))

-----------------------------------------------------------------------------
(* The exit of a process.                                                   *)

\* the stored joins of the process are answered and removed
AnswerJoins(s, p) ==
    LET mine == {j \in s.joins : j.p = p}
    IN  [s EXCEPT !.joins = @ \ mine,
                  !.ans = [r \in Reqs |-> IF \E j \in mine : j.req = r
                                          THEN Append(@[r], GSProcessJoinResponse("SUCCESS", s.pt[p].ec))
                                          ELSE @[r]]]

\* a join list that names the process is answered when it waits for any,
\* for this one only, or returns on a bad exit; else it waits for the rest
AnswerJoinLists(s, p) ==
    LET seen(j) == [j EXCEPT !.status[p] = [err |-> "SUCCESS", ec |-> s.pt[p].ec]]
        mine    == {j \in s.jlists : p \in j.set}
        over    == {j \in mine : ~j.all \/ j.set = {p} \/ (j.onBad /\ s.pt[p].ec # 0)}
        rest    == {[seen(j) EXCEPT !.set = @ \ {p}] : j \in mine \ over}
    IN  [s EXCEPT !.jlists = (@ \ mine) \cup rest,
                  !.ans = [r \in Reqs |-> IF \E j \in over : j.req = r
                                          THEN Append(@[r], GSProcessJoinListResponse(
                                                        seen(CHOOSE j \in over : j.req = r).status))
                                          ELSE @[r]]]

\* Mutant: the server goes on as if it had a head.
LoseHead_unnoticed(s, p) == [s EXCEPT !.heads = @ \ {p}]

\* a dead head leaves head_puid; without a head the server waits for one
LoseHead(s, p) ==
    IF p \notin s.heads THEN s
    ELSE [s EXCEPT !.heads = @ \ {p}, !.run = IF s.heads = {p} THEN "waiting" ELSE @]

\* While the creation of the process is pending its exit is kept for later.
handle_process_exit(s, p, ec) ==
    LET s1 == [s EXCEPT !.pt = [q \in Puids |->
                  IF q = p THEN [@[p] EXCEPT !.st = "dead", !.ec = ec]
                  ELSE IF q = s.pt[p].parent THEN [@[q] EXCEPT !.kids = @ \ {p}] ELSE @[q]]]
        s2 == IF s.pt[p].ret = 0 THEN s1 ELSE ChannelDestroy(s1, s.pt[p].ret, FALSE, 0)
        s3 == IF s.pt[p].std = 0 THEN s2 ELSE ChannelDestroy(s2, s.pt[p].std, TRUE, 0)
    IN  CASE <<"create", p>> \in DOMAIN s.pending -> [s EXCEPT !.exits = Put(@, p, ec)]
          [] <<"create", p>> \notin DOMAIN s.pending /\ s.pt[p].st = "none" -> Raise(s)
          [] OTHER -> GroupMemberExited(LoseHead(AnswerJoinLists(AnswerJoins(s3, p), p), p), p)

-----------------------------------------------------------------------------
(* Answers of local services.                                               *)

Popped(s, t) == [s EXCEPT !.pending = Del(@, {t})]

\* Mutant: the kept exit is not handled.
handle_process_create_response_no_exit(s, p, ok) ==
    LET t    == <<"create", p>>
        k    == s.pending[t]
    IN  IF t \notin DOMAIN s.pending THEN Raise(s)
        ELSE IF k.k = "process" THEN ProcessComplete(Popped(s, t), p, ok, s.pt[p].creq)
        ELSE GroupMemberCreated(Popped(s, t), k.g, p, ok, k.k)

\* handle_process_create_response: the continuation, then the kept exit
handle_process_create_response(s, p, ok) ==
    LET t    == <<"create", p>>
        k    == s.pending[t]
        s0   == Popped(s, t)
        done == CASE k.k = "process" -> ProcessComplete(s0, p, ok, s.pt[p].creq)
                  [] OTHER -> GroupMemberCreated(s0, k.g, p, ok, k.k)
    IN  IF t \notin DOMAIN s.pending THEN Raise(s)
        ELSE IF done.run = "crashed" \/ p \notin DOMAIN s.exits THEN done
        ELSE handle_process_exit([done EXCEPT !.exits = Del(@, {p})], p, s.exits[p])

handle_process_kill_response(s, p, ok) ==
    LET t  == <<"kill", p>>
        k  == s.pending[t]
        s0 == Popped(s, t)
    IN  CASE t \notin DOMAIN s.pending -> Raise(s)
          [] t \in DOMAIN s.pending /\ k.k = "process" -> ProcessKilled(s0, p, ok)
          [] OTHER -> GroupMemberKilled(s0, k.g, p, ok)

\* The responses one by one; nothing runs after an exception.
handle_ls_group_create_response(s, responses) ==
    FoldLeft(LAMBDA acc, m : IF acc.run = "crashed" THEN acc
                             ELSE handle_process_create_response(acc, m.uid, m.ok), s, responses)

handle_ls_multi_process_kill_response(s, responses) ==
    FoldLeft(LAMBDA acc, m : IF acc.run = "crashed" THEN acc
                             ELSE handle_process_kill_response(acc, m.uid, m.ok), s, responses)

\* dispatch of a message of local services
Dispatch(s, m) ==
    CASE m.tc = "LSProcessCreateResponse"      -> handle_process_create_response(s, m.uid, m.ok)
      [] m.tc = "LSMultiProcessCreateResponse" -> handle_ls_group_create_response(s, m.responses)
      [] m.tc = "LSProcessKillResponse"        -> handle_process_kill_response(s, m.uid, m.ok)
      [] m.tc = "LSMultiProcessKillResponse"   -> handle_ls_multi_process_kill_response(s, m.responses)
      [] m.tc = "LSProcessExit"                -> handle_process_exit(s, m.uid, m.ec)
      [] m.tc = "LSChannelCreateResponse"      -> ChannelComplete(Popped(s, m.tag), m.uid, m.ok)
      [] m.tc = "LSChannelDestroyResponse"     -> ChannelGone(Popped(s, m.tag), m.uid, m.ok)
      [] m.tc = "LSPoolCreateResponse"         -> PoolComplete(Popped(s, m.tag), m.uid, m.ok)
      [] OTHER                                 -> PoolGone(Popped(s, m.tag), m.uid, m.ok)

-----------------------------------------------------------------------------
(* Requests about channels that are answered here.                          *)

\* a query by name may take a reference on an ACTIVE channel
handle_channel_query(s, c, inc, r) ==
    LET s1 == IF s.ct[c].rc /\ inc /\ s.ct[c].st = "active" THEN [s EXCEPT !.ct[c].ref = @ + 1] ELSE s
    IN  Reply(s1, r, GSChannelQueryResponse(IF s.ct[c].st = "none" THEN "UNKNOWN" ELSE "SUCCESS", s.ct[c].st))

\* a join is answered at once for an ACTIVE or DEAD channel and stored when
\* the channel is PENDING or the name unknown
handle_channel_join(s, name, mode, r) ==
    LET cs == ChannelNamed(s, name)
        st == IF cs = {} THEN "none" ELSE s.ct[CHOOSE c \in cs : TRUE].st
    IN  CASE st = "active" -> Reply(s, r, GSChannelJoinResponse("SUCCESS"))
          [] st = "dead" -> Reply(s, r, GSChannelJoinResponse("DEAD"))
          [] OTHER -> [s EXCEPT !.cjoins = @ \cup {[name |-> name, req |-> r, timed |-> mode # "forever"]}]

-----------------------------------------------------------------------------
(* Timeouts.                                                                *)

\* Mutant: the join stays stored.
TimeoutJoin_stored(s, j) == Reply(s, j.req, GSProcessJoinResponse("TIMEOUT", NoCode))

TimeoutJoin(s, j) == Reply([s EXCEPT !.joins = @ \ {j}], j.req, GSProcessJoinResponse("TIMEOUT", NoCode))

TimeoutJoinList(s, j) ==
    Reply([s EXCEPT !.jlists = @ \ {j}], j.req,
          GSProcessJoinListResponse([p \in DOMAIN j.status |->
              IF p \in j.set THEN [err |-> "TIMEOUT", ec |-> NoCode] ELSE j.status[p]]))

TimeoutChannelJoin(s, j) == Reply([s EXCEPT !.cjoins = @ \ {j}], j.req, GSChannelJoinResponse("TIMEOUT"))

\* do_timeouts, for one entry whose deadline has passed
TimedOut(s) ==
    {TimeoutJoin(s, j) : j \in {i \in s.joins : i.timed}}
    \cup {TimeoutJoinList(s, j) : j \in {i \in s.jlists : i.timed}}
    \cup {TimeoutChannelJoin(s, j) : j \in {i \in s.cjoins : i.timed}}

-----------------------------------------------------------------------------
\* GlobalContext.__init__ and a head process that is running
InitialContext(active, heads) ==
    [run |-> "head", heads |-> heads,
     pt |-> [p \in Puids |-> IF p \in active THEN [NoProcess EXCEPT !.st = "active", !.name = <<p>>] ELSE NoProcess],
     ct |-> [c \in Cuids |-> NoChannel], mt |-> [m \in Muids |-> NoPool], gt |-> [g \in Guids |-> NoGroup],
     np |-> Cardinality(active), nc |-> 0, nm |-> 0, ng |-> 0,
     pending |-> <<>>, exits |-> <<>>, sends |-> <<>>,
     joins |-> {}, jlists |-> {}, cjoins |-> {},
     r2g |-> <<>>, g2p |-> {}, pgd |-> <<>>, pmi |-> {},
     ans |-> [r \in Reqs |-> <<>>]]
=============================================================================
