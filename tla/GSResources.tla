--------------------------- MODULE GSResources ---------------------------
(***************************************************************************)
(* The resource contexts of global services: channels (channel_int.py),    *)
(* memory pools (pool_int.py) and managed processes (process_int.py).      *)
(*                                                                         *)
(* Global services is one event loop.  A handler runs to completion, calls *)
(* other contexts, queues messages for local services and registers        *)
(* continuations, so each method is written as an operator from the server *)
(* state s (the GlobalContext and its tables, one record) to the state it  *)
(* leaves; a handler is the composition of the methods it calls.           *)
(*                                                                         *)
(* Tags.  A request of a client is a positive number; its answers are      *)
(* s.ans[request].  Request 0 stands for an AbsorbingChannel.  A message   *)
(* to local services is tagged by what it asks of which object: at most    *)
(* one such message is outstanding at a time, because its target is        *)
(* PENDING until the answer is handled.                                    *)
(***************************************************************************)
EXTENDS Integers, Sequences, FiniteSets, ServiceMessages

CONSTANTS
    MaxPuid,    \* process identifiers are 1 .. MaxPuid
    MaxCuid,    \* channel identifiers
    MaxMuid,    \* pool identifiers
    MaxGuid,    \* group identifiers
    MaxReq      \* requests the clients issue

ASSUME BoundsAssumption == {MaxPuid, MaxCuid, MaxMuid, MaxGuid, MaxReq} \subseteq Nat

Puids == 1 .. MaxPuid
Cuids == 1 .. MaxCuid
Muids == 1 .. MaxMuid
Guids == 1 .. MaxGuid
Reqs  == 1 .. MaxReq

NoCode == -1                            \* a descriptor's ecode before the exit

\* dict[k] = v and del dict[k] for k in K
Put(f, k, v) == [x \in DOMAIN f \cup {k} |-> IF x = k THEN v ELSE f[x]]
Del(f, K)    == [x \in DOMAIN f \ K |-> f[x]]

\* reply_queue.put(response); an AbsorbingChannel drops it
Reply(s, r, a) == IF r = 0 THEN s ELSE [s EXCEPT !.ans[r] = Append(@, a)]

\* server.pending_sends.put((ls_hdl, msg))
Send(s, m) == [s EXCEPT !.sends = Append(@, m)]

\* server.pending[tag] = continuation
Pend(s, t, k) == [s EXCEPT !.pending = Put(@, t, k)]

\* an exception no handler catches leaves the event loop
Raise(s) == [s EXCEPT !.run = "crashed"]

-----------------------------------------------------------------------------
(* Channels.  A context not in the channel table has state "none".          *)

NoChannel == [st |-> "none", name |-> "-", muid |-> 0, rc |-> FALSE, ref |-> 0, creq |-> 0, dreq |-> 0]

ChannelNamed(s, n) == {c \in Cuids : s.ct[c].st # "none" /\ s.ct[c].name = n}

\* ChannelContext.construct up to the context's registration
NewChannel(s, name, muid, rc, r) ==
    [s EXCEPT !.nc = @ + 1,
              !.ct[s.nc + 1] = [NoChannel EXCEPT !.st = "pending", !.name = name, !.muid = muid,
                                                 !.rc = rc, !.creq = r]]

\* ChannelContext.construct for a client: the name in use, the pool unknown,
\* or a message to local services and a continuation
ChannelConstruct(s, name, muid, rc, r) ==
    CASE ChannelNamed(s, name) # {} -> Reply(s, r, GSChannelCreateResponse("ALREADY"))
      [] muid # 0 /\ s.mt[muid].st = "none" -> Reply(s, r, GSChannelCreateResponse("FAIL"))
      [] OTHER ->
           LET m == LSChannelCreate(s.nc + 1, muid)
           IN  Send(Pend(NewChannel(s, name, muid, rc, r), m.tag, [k |-> "channel"]), m)

\* complete_construction: a success answers the creator and every join
\* stored under the name; the joins stay stored.  A failure forgets the
\* channel and its name.
ChannelComplete(s, c, ok) ==
    LET ch     == s.ct[c]
        joined == {j \in s.cjoins : j.name = ch.name}
    IN  IF ok
        THEN [Reply(s, ch.creq, GSChannelCreateResponse("SUCCESS"))
                EXCEPT !.ct[c].st = "active",
                       !.ct[c].ref = IF ch.rc THEN 1 ELSE @,
                       !.ans = [r \in Reqs |-> IF \E j \in joined : j.req = r
                                               THEN Append(@[r], GSChannelJoinResponse("SUCCESS")) ELSE @[r]]]
        ELSE [Reply(s, ch.creq, GSChannelCreateResponse("FAIL")) EXCEPT !.ct[c] = NoChannel]

\* destroy: only an ACTIVE channel; a dec_ref destroys when the count is zero
ChannelDestroy(s, c, decRef, r) ==
    LET ch   == s.ct[c]
        left == IF ch.rc /\ decRef THEN ch.ref - 1 ELSE ch.ref
        m    == LSChannelDestroy(c)
        held == [s EXCEPT !.ct[c].ref = left, !.ct[c].dreq = r]
    IN  CASE ch.st = "none" -> Reply(s, r, GSChannelDestroyResponse("UNKNOWN"))
          [] ch.st \in {"dead", "pending"} -> Reply(s, r, GSChannelDestroyResponse("BUSY"))
          [] ch.st = "active" /\ ch.rc /\ decRef /\ left # 0 -> Reply(held, r, GSChannelDestroyResponse("SUCCESS"))
          [] OTHER -> Send(Pend([held EXCEPT !.ct[c].st = "pending"], m.tag, [k |-> "channel"]), m)

\* complete_destruction: a failure leaves the channel PENDING
ChannelGone(s, c, ok) ==
    IF ok THEN Reply([s EXCEPT !.ct[c].st = "dead"], s.ct[c].dreq, GSChannelDestroyResponse("SUCCESS"))
          ELSE Reply(s, s.ct[c].dreq, GSChannelDestroyResponse("UNKNOWN"))

-----------------------------------------------------------------------------
(* Memory pools.                                                            *)

NoPool == [st |-> "none", name |-> "-", creq |-> 0, dreq |-> 0]

PoolNamed(s, n) == {m \in Muids : s.mt[m].st # "none" /\ s.mt[m].name = n}

PoolConstruct(s, name, r) ==
    IF PoolNamed(s, name) # {} THEN Reply(s, r, GSPoolCreateResponse("ALREADY"))
    ELSE LET n == s.nm + 1
             m == LSPoolCreate(n)
         IN  Send(Pend([s EXCEPT !.nm = n,
                                 !.mt[n] = [NoPool EXCEPT !.st = "pending", !.name = name, !.creq = r]],
                       m.tag, [k |-> "pool"]), m)

PoolComplete(s, m, ok) ==
    LET s1 == Reply(s, s.mt[m].creq, GSPoolCreateResponse(IF ok THEN "SUCCESS" ELSE "FAIL"))
    IN  IF ok THEN [s1 EXCEPT !.mt[m].st = "active"] ELSE [s1 EXCEPT !.mt[m] = NoPool]

PoolDestroy(s, m, r) ==
    LET d == LSPoolDestroy(m)
    IN  CASE s.mt[m].st = "none" -> Reply(s, r, GSPoolDestroyResponse("UNKNOWN"))
          [] s.mt[m].st = "dead" -> Reply(s, r, GSPoolDestroyResponse("GONE"))
          [] s.mt[m].st = "pending" -> Reply(s, r, GSPoolDestroyResponse("PENDING"))
          [] OTHER -> Send(Pend([s EXCEPT !.mt[m].st = "pending", !.mt[m].dreq = r], d.tag, [k |-> "pool"]), d)

PoolGone(s, m, ok) ==
    IF ok THEN Reply([s EXCEPT !.mt[m].st = "dead"], s.mt[m].dreq, GSPoolDestroyResponse("SUCCESS"))
          ELSE Reply(s, s.mt[m].dreq, GSPoolDestroyResponse("FAIL"))

-----------------------------------------------------------------------------
(* Processes.  ret is the GS return channel of a process made with          *)
(* make_inf_channels, std stands for the stdin, stdout and stderr channels  *)
(* of a process made with PIPEs (0: none).                                  *)

NoProcess == [st |-> "none", name |-> <<>>, ec |-> NoCode, parent |-> 0, kids |-> {},
              ret |-> 0, std |-> 0, creq |-> 0, kreq |-> 0]

ProcessNamed(s, n) == {p \in Puids : s.pt[p].st # "none" /\ s.pt[p].name = n}

\* _mk_ls_proc_create: the channels a new process is given, as contexts
\* whose creation travels inside the LSProcessCreate message
MkLsProcCreate(s, p, opt) ==
    LET s1 == IF opt.inf THEN [NewChannel(s, "auto", 0, FALSE, 0) EXCEPT !.ct[s.nc + 1].ref = 1,
                                                                       !.pt[p].ret = s.nc + 1]
              ELSE s
    IN  IF opt.pipe THEN [NewChannel(s1, "auto", 0, TRUE, 0) EXCEPT !.ct[s1.nc + 1].ref = 1,
                                                                  !.pt[p].std = s1.nc + 1]
        ELSE s1

\* the message itself
CreateMsg(s, p) == LSProcessCreate(p, s.pt[p].ret, s.pt[p].std)

\* ProcessContext.construct: send is FALSE for a member of a group, whose
\* message travels in an LSMultiProcessCreate
ProcessConstruct(s, by, name, opt, r, send) ==
    IF ProcessNamed(s, name) # {} THEN Reply(s, r, GSProcessCreateResponse("ALREADY"))
    ELSE LET p  == s.np + 1
             s0 == [s EXCEPT !.np = p,
                             !.heads = IF opt.head THEN @ \cup {p} ELSE @,
                             !.run = IF opt.head THEN "head" ELSE @]
             s1 == [s0 EXCEPT !.pt[p] = [NoProcess EXCEPT !.st = "pending", !.name = name,
                                                          !.parent = by, !.creq = r]]
             s2 == MkLsProcCreate(s1, p, opt)
         IN  CASE opt.bad -> Reply(s0, r, GSProcessCreateResponse("FAIL"))    \* no node fits the policy
               [] ~opt.bad /\ send -> Pend(Send(s2, CreateMsg(s2, p)), <<"create", p>>, [k |-> "process"])
               [] OTHER -> s2

\* complete_construction; r is 0 for a member of a group
ProcessComplete(s, p, ok, r) ==
    LET pr  == s.pt[p]
        s1  == IF pr.ret = 0 THEN s ELSE ChannelComplete(s, pr.ret, ok)
        s2  == IF pr.std = 0 THEN s1
               ELSE [ChannelComplete(s1, pr.std, ok) EXCEPT !.ct[pr.std].ref = @ + 1]
        dad == pr.parent # 0 /\ s.pt[pr.parent].st # "none"
        hs  == s.heads \ {p}
    IN  IF ok
        THEN Reply([s2 EXCEPT !.pt = [q \in Puids |->
                                        IF q = p THEN [@[p] EXCEPT !.st = "active"]
                                        ELSE IF dad /\ q = pr.parent THEN [@[q] EXCEPT !.kids = @ \cup {p}]
                                        ELSE @[q]]],
                   r, GSProcessCreateResponse("SUCCESS"))
        ELSE Reply([(IF pr.ret = 0 THEN s ELSE ChannelDestroy(s, pr.ret, FALSE, 0))
                      EXCEPT !.heads = hs,
                             !.run = IF p \in s.heads /\ hs = {} THEN "waiting" ELSE @,
                             !.pt[p] = NoProcess],
                   r, GSProcessCreateResponse("FAIL"))

\* What kill finds: UNKNOWN, DEAD, PENDING or, when the kill is issued, "issued"
KillVerdict(s, p) ==
    CASE s.pt[p].st = "none" -> "UNKNOWN"
      [] s.pt[p].st = "dead" -> "DEAD"
      [] s.pt[p].st = "pending" -> "PENDING"
      [] OTHER -> "issued"

\* the state an issued kill leaves: PENDING, its request remembered, its
\* continuation registered
KillIssued(s, p, r, k) ==
    Pend([s EXCEPT !.pt[p].st = "pending", !.pt[p].kreq = r], <<"kill", p>>, k)

ProcessKill(s, p, r) ==
    IF KillVerdict(s, p) = "issued"
    THEN Send(KillIssued(s, p, r, [k |-> "process"]), LSProcessKill(p))
    ELSE Reply(s, r, GSProcessKillResponse(KillVerdict(s, p)))

\* Mutant: the exit that came before the answer is forgotten.
ProcessKilled_revived(s, p, ok) ==
    Reply([s EXCEPT !.pt[p].st = "active"], s.pt[p].kreq, GSProcessKillResponse(IF ok THEN "SUCCESS" ELSE "FAIL_KILL"))

\* Mutant: the process is DEAD when its kill was sent.
ProcessKilled_dead(s, p, ok) ==
    Reply([s EXCEPT !.pt[p].st = IF ok THEN "dead" ELSE "active"],
          s.pt[p].kreq, GSProcessKillResponse(IF ok THEN "SUCCESS" ELSE "FAIL_KILL"))

\* complete_kill: the process is ACTIVE again unless its exit came first
ProcessKilled(s, p, ok) ==
    Reply([s EXCEPT !.pt[p].st = IF @ = "pending" THEN "active" ELSE @],
          s.pt[p].kreq, GSProcessKillResponse(IF ok THEN "SUCCESS" ELSE "FAIL_KILL"))
=============================================================================
