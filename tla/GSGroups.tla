---------------------------- MODULE GSGroups ----------------------------
(***************************************************************************)
(* Groups of processes in global services (group_int.py): create, add to,  *)
(* create and add, remove from, destroy and remove, kill, destroy, and the *)
(* continuations local services' answers run.                              *)
(*                                                                         *)
(* A group's sets are lists of lists of members.  s.r2g is                 *)
(* resource_to_group_map, s.g2p the keys of group_to_pending_resource_map, *)
(* s.pgd pending_group_destroy; cnt and dc are the group's entries of      *)
(* group_resource_count and group_destroy_resource_count (dcOn: present).  *)
(* Indices count from 1.  A lookup the code does not guard raises.         *)
(***************************************************************************)
EXTENDS GSResources, SequencesExt

CONSTANT MaxPmiPid      \* max_pid, the last PMI process identifier of a host

NoMember  == [uid |-> 0, st |-> "none"]     \* GroupMember()
Removed   == [uid |-> 0, st |-> "removed"]  \* the None placeholder

NoGroup == [st |-> "none", name |-> "-", sets |-> <<>>, cnt |-> <<>>, dc |-> <<>>, dcOn |-> FALSE,
            req |-> 0, dreq |-> 0, dcalled |-> FALSE, rem |-> <<>>, pmi |-> 0, ranks |-> 0]

GroupNamed(s, n) == {g \in Guids : s.gt[g].st # "none" /\ s.gt[g].name = n}

AllZero(cs) == \A i \in DOMAIN cs : cs[i] = 0
Dec(n) == IF n >= 1 THEN n - 1 ELSE n

\* <<1,1>>, .., <<1,items[1]>>, <<2,1>>, ..: the order construct visits members in
Slots(items) == FlattenSeq([i \in DOMAIN items |-> [j \in 1 .. items[i] |-> <<i, j>>]])

-----------------------------------------------------------------------------
(* PMIJobHelper: segments (base, size) of the PMI identifiers of one host.  *)

\* Mutant: a gap one identifier too small is taken.
PmiBase_off_by_one(pids, n) ==
    LET starts == {1} \cup {e.base + e.size : e \in pids}
        roomy  == {b \in starts : /\ b + n - 1 <= MaxPmiPid
                                  /\ \A e \in pids : b + n - 1 <= e.base \/ e.base + e.size <= b}
    IN  IF pids = {} THEN 1 ELSE IF roomy = {} THEN -1 ELSE CHOOSE b \in roomy : \A c \in roomy : b <= c

\* allocate_pmi_pid_base: the first gap between the segments in order of
\* base that is large enough, else the room after the last; -1 when none is
PmiBase(pids, n) ==
    LET starts == {1} \cup {e.base + e.size : e \in pids}
        roomy  == {b \in starts : /\ b + n - 1 <= MaxPmiPid
                                  /\ \A e \in pids : b + n <= e.base \/ e.base + e.size <= b}
    IN  IF pids = {} THEN 1 ELSE IF roomy = {} THEN -1 ELSE CHOOSE b \in roomy : \A c \in roomy : b <= c

\* cleanup: the segment is removed from the host's list, which raises when
\* it is not there
PmiCleanup(s, g) ==
    LET seg == [base |-> s.gt[g].pmi, size |-> s.gt[g].ranks]
    IN  CASE s.gt[g].pmi = 0 -> s
          [] seg \in s.pmi -> [s EXCEPT !.pmi = @ \ {seg}]
          [] OTHER -> Raise(s)

-----------------------------------------------------------------------------
(* Creation.                                                                *)

\* One member of a new list: a process context, its place in the group and
\* the group's continuation for its creation
NewMember(s, g, by, opt, i, j, kind) ==
    LET p  == s.np + 1
        s1 == ProcessConstruct(s, by, <<g, i, j>>, opt, 0, FALSE)
    IN  [Pend(s1, <<"create", p>>, [k |-> kind, g |-> g])
           EXCEPT !.r2g = Put(@, p, <<g, i, j>>),
                  !.g2p = @ \cup {<<<<"create", p>>, g>>}]

\* The members of the lists items, after the `from' lists the group has
NewMembers(s, g, by, opt, items, from, kind) ==
    FoldLeft(LAMBDA acc, sl : NewMember(acc, g, by, opt, from + sl[1], sl[2], kind), s, Slots(items))

MultiCreate(s, new) ==
    Send(s, LSMultiProcessCreate([i \in DOMAIN new |-> CreateMsg(s, new[i])]))

\* the lists before the first empty one, which is refused with an exception
Sound(items) == LET bad == {i \in DOMAIN items : items[i] = 0}
                IN  IF bad = {} THEN items ELSE SubSeq(items, 1, (CHOOSE i \in bad : \A k \in bad : i <= k) - 1)

NewPuids(s, items) == [n \in 1 .. Len(Slots(items)) |-> s.np + n]

\* construct: a name in use is answered with the group that has it.  An
\* empty list is refused after the members before it were registered.
GroupConstruct(s, by, name, items, pmi, opt, r) ==
    LET g     == s.ng + 1
        good  == Sound(items)
        ranks == Len(Slots(items))
        base  == IF pmi THEN PmiBase(s.pmi, ranks) ELSE 0
        new   == NewPuids(s, good)
        place == [i \in DOMAIN good |-> [j \in 1 .. good[i] |->
                    [uid |-> new[CHOOSE n \in DOMAIN new : Slots(good)[n] = <<i, j>>], st |-> "pending"]]]
        s1    == [s EXCEPT !.ng = g,
                           !.pmi = IF base > 0 THEN @ \cup {[base |-> base, size |-> ranks]} ELSE @,
                           !.gt[g] = [NoGroup EXCEPT !.st = "pending", !.name = name, !.sets = place, !.cnt = good,
                                                     !.req = r, !.pmi = base, !.ranks = ranks]]
        s2    == NewMembers(s1, g, by, opt, good, 0, "group create")
    IN  CASE GroupNamed(s, name) # {} -> Reply(s, r, GSGroupCreateResponse("SUCCESS"))
          [] GroupNamed(s, name) = {} /\ good # items -> Reply(s2, r, GSGroupCreateResponse("FAIL"))
          [] OTHER -> MultiCreate(s2, new)

\* What every request on a group but GSGroupCreate answers unless it is ACTIVE
GroupRefusal(s, g) ==
    CASE s.gt[g].st = "none" -> "UNKNOWN" [] s.gt[g].st = "dead" -> "DEAD" [] OTHER -> "PENDING"

\* create_add: the new lists follow those the group has
GroupCreateAdd(s, g, by, items, opt, r) ==
    LET good == Sound(items)
        new  == NewPuids(s, good)
        from == Len(s.gt[g].sets)
        s1   == [s EXCEPT !.gt[g].st = "pending", !.gt[g].req = r,
                          !.gt[g].sets = @ \o [i \in DOMAIN good |-> [j \in 1 .. good[i] |-> NoMember]],
                          !.gt[g].cnt = @ \o good]
        s2   == NewMembers(s1, g, by, opt, good, from, "group add")
    IN  CASE s.gt[g].st # "active" -> Reply(s, r, GSGroupCreateAddToResponse(GroupRefusal(s, g)))
          [] s.gt[g].st = "active" /\ good # items -> Reply(s2, r, GSGroupCreateAddToResponse("FAIL"))
          [] OTHER -> MultiCreate(s2, new)

\* _construction_helper, then complete_construction or complete_addition of
\* the group g whose continuation this is; <<h, i, j>> is where the map says
\* the process is
GroupMemberCreated(s, g, p, ok, kind) ==
    LET s0 == [s EXCEPT !.g2p = @ \ {<<<<"create", p>>, g>>}]
        h  == s.r2g[p][1]
        i  == s.r2g[p][2]
        j  == s.r2g[p][3]
        was == s.gt[h].sets[i][j].st
        s1 == ProcessComplete(s0, p, ok, 0)
        st == IF was = "dead" \/ ~ok THEN "dead" ELSE "active"
        s2 == [s1 EXCEPT !.r2g = IF ok THEN @ ELSE Del(@, {p}),
                         !.pt[p].st = IF ok THEN st ELSE @,
                         !.gt[h].sets[i][j] = [uid |-> p, st |-> st],
                         !.gt[h].cnt[i] = Dec(@)]
    IN  IF p \notin DOMAIN s.r2g \/ i > Len(s.gt[h].cnt) THEN Raise(s)
        ELSE IF AllZero(s2.gt[h].cnt)
             THEN Reply([s2 EXCEPT !.gt[g].st = "active"], s2.gt[g].req,
                        IF kind = "group create" THEN GSGroupCreateResponse("SUCCESS")
                                                 ELSE GSGroupCreateAddToResponse("SUCCESS"))
             ELSE s2

-----------------------------------------------------------------------------
(* Adding existing processes, and removing members.                         *)

\* one item of add: i is its position in the request; acc.exc is set when
\* the list it would be put in does not exist
AddItem(acc, g, p, i, from) ==
    LET at   == from + i
        grew == [acc.s EXCEPT !.gt[g].sets = Append(@, <<>>)]
        st   == acc.s.pt[p].st
    IN  CASE acc.exc -> acc
          [] ~acc.exc /\ st = "none" -> [acc EXCEPT !.failed = TRUE]
          [] ~acc.exc /\ st = "dead" -> [acc EXCEPT !.s = grew, !.failed = TRUE]
          [] ~acc.exc /\ st \in {"pending", "active"} /\ at > Len(grew.gt[g].sets) ->
               [acc EXCEPT !.s = grew, !.exc = TRUE]
          [] OTHER -> [acc EXCEPT !.s = [grew EXCEPT
                          !.gt[g].sets[at] = Append(@, [uid |-> p, st |-> st]),
                          !.r2g = Put(@, p, <<g, at, Len(grew.gt[g].sets[at]) + 1>>)]]

\* add: an exception answers FAIL and leaves the group PENDING
GroupAdd(s, g, items, r) ==
    LET s0  == [s EXCEPT !.gt[g].st = "pending", !.gt[g].req = r]
        acc == FoldLeftDomain(LAMBDA a, i : AddItem(a, g, items[i], i, Len(s.gt[g].sets)),
                              [s |-> s0, failed |-> FALSE, exc |-> FALSE], items)
    IN  CASE s.gt[g].st # "active" -> Reply(s, r, GSGroupAddToResponse(GroupRefusal(s, g)))
          [] s.gt[g].st = "active" /\ acc.exc -> Reply(acc.s, r, GSGroupAddToResponse("FAIL"))
          [] OTHER -> Reply([acc.s EXCEPT !.gt[g].st = "active"], r,
                            GSGroupAddToResponse(IF acc.failed THEN "FAIL" ELSE "SUCCESS"))

\* _check_if_item_in_group
InGroup(s, g, p) == s.pt[p].st # "none" /\ p \in DOMAIN s.r2g /\ s.r2g[p][1] = g

\* _remove_proc_from_group: a placeholder until the lists are rebuilt
Unplace(s, g, p, i, j) == [s EXCEPT !.gt[g].sets[i][j] = Removed, !.r2g = Del(@, {p})]

\* _update_ds_after_removals drops the placeholders list by list and deletes
\* an empty list while it enumerates them, so the list after a deleted one
\* is not visited; a placeholder left in it raises.
Compacted(sets) ==
    FoldLeftDomain(LAMBDA acc, k :
        IF k > Len(acc) THEN acc
        ELSE LET kept == SelectSeq(acc[k], LAMBDA m : m # Removed)
             IN  IF kept # <<>> THEN [acc EXCEPT ![k] = kept] ELSE RemoveAt(acc, k),
        sets, sets)

\* Mutant: the map keeps the old indices.
UpdateDs_stale(s, g) ==
    LET new == Compacted(s.gt[g].sets)
    IN  [s EXCEPT !.gt[g].sets = new, !.gt[g].cnt = [i \in DOMAIN new |-> 0]]

UpdateDs(s, g) ==
    LET new   == Compacted(s.gt[g].sets)
        slots == UNION {{<<i, j>> : j \in DOMAIN new[i]} : i \in DOMAIN new}
        here  == {new[sl[1]][sl[2]].uid : sl \in slots}
        at(p) == CHOOSE sl \in slots :
                   /\ new[sl[1]][sl[2]].uid = p
                   /\ \A o \in slots : new[o[1]][o[2]].uid = p => o[1] < sl[1] \/ (o[1] = sl[1] /\ o[2] <= sl[2])
    IN  IF \E sl \in slots : new[sl[1]][sl[2]] = Removed THEN Raise(s)
        ELSE [s EXCEPT !.gt[g].sets = new,
                       !.gt[g].cnt = [i \in DOMAIN new |-> 0],
                       !.r2g = [p \in DOMAIN @ \cup here |->
                                  IF p \in here THEN <<g, at(p)[1], at(p)[2]>> ELSE @[p]]]

GroupRemove(s, g, items, r) ==
    LET s0   == [s EXCEPT !.gt[g].req = r]
        out  == FoldLeft(LAMBDA a, p : Unplace(a, g, p, s.r2g[p][2], s.r2g[p][3]), s0, items)
    IN  CASE s.gt[g].st # "active" -> Reply(s, r, GSGroupRemoveFromResponse(GroupRefusal(s, g)))
          [] s.gt[g].st = "active" /\ \E i \in DOMAIN items : ~InGroup(s, g, items[i]) ->
               Reply(s0, r, GSGroupRemoveFromResponse("FAIL"))
          [] OTHER -> LET done == UpdateDs(out, g)
                      IN  IF done.run = "crashed" THEN done ELSE Reply(done, r, GSGroupRemoveFromResponse("SUCCESS"))

-----------------------------------------------------------------------------
(* Killing, destroying with removal, and destroying.                        *)

MultiKill(s, ps) ==
    IF ps = <<>> THEN s
    ELSE Send(s, LSMultiProcessKill([i \in DOMAIN ps |-> LSProcessKill(ps[i])]))

\* ProcessContext.kill for the member at <<i, j>>, its answer absorbed: when
\* it is issued the group's complete_kill is its continuation
MemberKillIssued(s, g, p, i, j) ==
    [KillIssued(s, p, 0, [k |-> "group kill", g |-> g])
       EXCEPT !.gt[g].sets[i][j].st = "pending",
              !.g2p = @ \cup {<<<<"kill", p>>, g>>}]

\* destroy_remove, one item: a dead member is removed, a live one killed,
\* one that cannot be killed now takes the state of its process
DestroyRemoveItem(acc, g, id) ==
    LET p == id[1]
        i == id[2]
        j == id[3]
        m == acc.s.gt[g].sets[i][j]
    IN  CASE m.st = "dead" -> [acc EXCEPT !.s = Unplace(@, g, p, i, j)]
          [] m.st # "dead" /\ KillVerdict(acc.s, p) = "issued" ->
               [s |-> [MemberKillIssued(acc.s, g, p, i, j)
                         EXCEPT !.gt[g].dcalled = TRUE, !.gt[g].dc = Append(@, 1)],
                killed |-> Append(acc.killed, p)]
          [] OTHER -> [acc EXCEPT !.s.gt[g].sets[i][j].st = acc.s.pt[p].st]

\* destroy_remove: when an item is not a member, FAIL is answered and no item
\* is touched.  In every case in which nothing was killed, that one
\* included, the lists are rebuilt and SUCCESS is answered.
GroupDestroyRemove(s, g, items, r) ==
    LET ids  == [n \in DOMAIN SelectSeq(items, LAMBDA p : InGroup(s, g, p)) |->
                   LET p == SelectSeq(items, LAMBDA q : InGroup(s, g, q))[n]
                   IN  <<p, s.r2g[p][2], s.r2g[p][3]>>]
        s0   == [s EXCEPT !.gt[g].st = "pending", !.gt[g].dreq = r, !.gt[g].dc = <<>>,
                          !.gt[g].dcOn = TRUE, !.gt[g].rem = ids]
        acc  == IF Len(ids) # Len(items)
                THEN [s |-> Reply([s0 EXCEPT !.gt[g].st = "active"], r, GSGroupDestroyRemoveFromResponse("FAIL")), killed |-> <<>>]
                ELSE FoldLeft(LAMBDA a, id : DestroyRemoveItem(a, g, id), [s |-> s0, killed |-> <<>>], ids)
        done == UpdateDs(acc.s, g)
    IN  CASE s.gt[g].st # "active" -> Reply(s, r, GSGroupDestroyRemoveFromResponse(GroupRefusal(s, g)))
          [] s.gt[g].st = "active" /\ acc.killed # <<>> -> MultiKill(acc.s, acc.killed)
          [] OTHER -> IF done.run = "crashed" THEN done
                      ELSE Reply([done EXCEPT !.gt[g].st = "active"], r, GSGroupDestroyRemoveFromResponse("SUCCESS"))

\* kill, one member; acc.exc is set when its list has no count
KillItem(acc, g, sl) ==
    LET m == acc.s.gt[g].sets[sl[1]][sl[2]]
        v == KillVerdict(acc.s, m.uid)
    IN  CASE acc.exc \/ m.uid = 0 \/ m.st = "dead" -> acc
          [] ~acc.exc /\ m.uid # 0 /\ m.st # "dead" /\ v = "issued" ->
               IF sl[1] > Len(acc.s.gt[g].cnt) THEN [acc EXCEPT !.exc = TRUE]
               ELSE [s |-> [MemberKillIssued(acc.s, g, m.uid, sl[1], sl[2])
                              EXCEPT !.gt[g].cnt[sl[1]] = @ + 1],
                     killed |-> Append(acc.killed, m.uid), exc |-> FALSE]
          [] OTHER -> [acc EXCEPT !.s.gt[g].sets[sl[1]][sl[2]].st = acc.s.pt[m.uid].st]

GroupKill(s, g, r) ==
    LET s0  == [s EXCEPT !.gt[g].st = "pending", !.gt[g].dreq = r]
        acc == FoldLeft(LAMBDA a, sl : KillItem(a, g, sl), [s |-> s0, killed |-> <<>>, exc |-> FALSE],
                        Slots([i \in DOMAIN s.gt[g].sets |-> Len(s.gt[g].sets[i])]))
    IN  CASE s.gt[g].st # "active" -> Reply(s, r, GSGroupKillResponse(GroupRefusal(s, g)))
          [] s.gt[g].st = "active" /\ acc.exc -> Raise(s)
          [] s.gt[g].st = "active" /\ ~acc.exc /\ acc.killed # <<>> -> MultiKill(acc.s, acc.killed)
          [] OTHER -> Reply([acc.s EXCEPT !.gt[g].st = "active"], r, GSGroupKillResponse("ALREADY"))

Revive(st) == IF st = "pending" THEN "active" ELSE st

\* the last answer to a destroy_remove: the items are removed and it is answered
FinishRemoval(s, g) ==
    LET ids  == SelectSeq(s.gt[g].rem, LAMBDA id : id[1] \in DOMAIN s.r2g)
        out  == FoldLeft(LAMBDA a, id : Unplace(a, g, id[1], id[2], id[3]), s, ids)
        done == UpdateDs(out, g)
    IN  IF done.run = "crashed" THEN done
        ELSE Reply([done EXCEPT !.gt[g].rem = <<>>, !.gt[g].st = Revive(@),
                                !.gt[g].dc = <<>>, !.gt[g].dcOn = FALSE],
                   s.gt[g].dreq, GSGroupDestroyRemoveFromResponse("SUCCESS"))

\* complete_kill of group g for the process p
GroupMemberKilled(s, g, p, ok) ==
    LET s0  == [s EXCEPT !.g2p = @ \ {<<<<"kill", p>>, g>>}]
        h   == s.r2g[p][1]
        i   == s.r2g[p][2]
        j   == s.r2g[p][3]
        s1  == ProcessKilled(s0, p, ok)
        rem == s.gt[g].rem
        dc  == s.gt[h].dc
        dc1 == IF dc = <<>> THEN <<>> ELSE Front(dc)
        placed == i \in DOMAIN s.gt[g].sets /\ j \in DOMAIN s.gt[g].sets[i]
        s2  == CASE rem = <<>> /\ placed -> [s1 EXCEPT !.gt[g].sets[i][j].st = s1.pt[p].st]
                 [] rem = <<>> /\ ~placed -> Raise(s1)
                 [] rem # <<>> /\ ~s.gt[h].dcOn -> Raise(s1)
                 [] rem # <<>> /\ s.gt[h].dcOn /\ dc1 # <<>> -> [s1 EXCEPT !.gt[h].dc = dc1]
                 [] OTHER -> FinishRemoval([s1 EXCEPT !.gt[h].dc = dc1], g)
        \* the loop over the removed items has left its last list in lst_idx
        l   == IF rem # <<>> /\ dc1 = <<>> THEN Last(rem)[2] ELSE i
        s3  == [s2 EXCEPT !.gt[h].cnt[l] = Dec(@)]
    IN  CASE p \notin DOMAIN s.r2g -> Raise(s)
          [] p \in DOMAIN s.r2g /\ (s2.run = "crashed" \/ s.gt[g].dcalled) -> s2
          [] OTHER -> IF l > Len(s2.gt[h].cnt) THEN Raise(s)
                      ELSE IF AllZero(s3.gt[h].cnt)
                           THEN Reply([s3 EXCEPT !.gt[g].st = Revive(@)], s.gt[g].dreq, GSGroupKillResponse("SUCCESS"))
                           ELSE s3

\* destroy, one member: killed and awaited, or else declared dead in the
\* group and, the descriptor being shared, in the process table
DestroyItem(acc, g, sl) ==
    LET m == acc.s.gt[g].sets[sl[1]][sl[2]]
    IN  CASE m.st = "dead" -> acc
          [] m.st # "dead" /\ KillVerdict(acc.s, m.uid) = "issued" ->
               [s |-> [MemberKillIssued(acc.s, g, m.uid, sl[1], sl[2])
                         EXCEPT !.pgd = Put(@, m.uid, g), !.gt[g].dcalled = TRUE, !.gt[g].dc[sl[1]] = @ + 1],
                killed |-> Append(acc.killed, m.uid)]
          [] OTHER -> [acc EXCEPT !.s.gt[g].sets[sl[1]][sl[2]].st = "dead", !.s.pt[m.uid].st = "dead"]

GroupGone(s, g) ==
    LET s1 == PmiCleanup([s EXCEPT !.gt[g].st = "dead", !.gt[g].dc = <<>>, !.gt[g].dcOn = FALSE], g)
    IN  IF s1.run = "crashed" THEN s1 ELSE Reply(s1, s.gt[g].dreq, GSGroupDestroyResponse("SUCCESS"))

GroupDestroy(s, g, r) ==
    LET sets == s.gt[g].sets
        s0   == [s EXCEPT !.gt[g].st = "pending", !.gt[g].dreq = r, !.gt[g].dcOn = TRUE,
                          !.gt[g].dc = [i \in DOMAIN sets |-> 0]]
        acc  == FoldLeft(LAMBDA a, sl : DestroyItem(a, g, sl), [s |-> s0, killed |-> <<>>],
                         Slots([i \in DOMAIN sets |-> Len(sets[i])]))
    IN  CASE s.gt[g].st # "active" -> Reply(s, r, GSGroupDestroyResponse(GroupRefusal(s, g)))
          [] s.gt[g].st = "active" /\ acc.killed # <<>> -> MultiKill(acc.s, acc.killed)
          [] OTHER -> GroupGone(acc.s, g)

\* the group's part of handle_process_exit, and complete_destruction when
\* the exit was awaited by the destroy of a group
GroupMemberExited(s, p) ==
    LET h  == s.r2g[p][1]
        i  == s.r2g[p][2]
        j  == s.r2g[p][3]
        s1 == [s EXCEPT !.gt[h].sets[i][j].st = "dead"]
        g  == s.pgd[p]
        s2 == [s1 EXCEPT !.pgd = Del(@, {p}), !.gt[h].dc[i] = Dec(@), !.r2g = Del(@, {p})]
    IN  CASE p \notin DOMAIN s.r2g -> s
          [] p \in DOMAIN s.r2g /\ s.gt[h].sets[i][j] = Removed -> Raise(s)
          [] p \in DOMAIN s.r2g /\ s.gt[h].sets[i][j] # Removed /\ p \notin DOMAIN s.pgd -> s1
          [] OTHER -> IF g # h THEN Raise(s)
                      ELSE IF AllZero(s2.gt[h].dc) THEN GroupGone(s2, g) ELSE s2
=============================================================================
